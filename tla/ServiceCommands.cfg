SPECIFICATION FairSpec
CONSTANTS
  Pids = {"p1", "p2", "p3"}
  Cmds = {"c1", "c2"}
  MaxDisorder = 1
INVARIANT ServiceTypeOK
INVARIANT OneNode
INVARIANT StatusIsTrue
INVARIANT JobKeepsItsMeans
INVARIANT ResetIsThorough
PROPERTY CommandsReturn
