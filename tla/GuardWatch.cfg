SPECIFICATION FairSpec
CONSTANTS
  Targets = {"api", "health"}
INVARIANT GuardTypeOK
INVARIANT ToldTheTruth
INVARIANT ReadyIsFounded
PROPERTY CallbacksAreNews
PROPERTY WatchConverges
CHECK_DEADLOCK FALSE
