SPECIFICATION Spec
CONSTANTS
  NumMsgs = 2
  Jobs <- TwoJobs
  JobOf <- MsgPerJob
  Kind <- OkAndBadIR
  Trimmable = {}
  CanBatch = FALSE
  ResultsMatch = TRUE
  BatchReadCount = 100
  PendingCount = 100
  PowLimit = 0
  FaultKinds = {"conn", "other"}
  MaxFaults = 2
  MaxHookFaults = 1
  MaxCrashes = 1
  MaxStops = 1
INVARIANT TypeOK
INVARIANT CleanDrainCutsNoJob
INVARIANT RerunNeedsCause
INVARIANT AckedIsReported
INVARIANT LoopOutlivesErrors
PROPERTY KeepsLedger
CHECK_DEADLOCK FALSE
