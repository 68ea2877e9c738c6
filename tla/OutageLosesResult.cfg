SPECIFICATION Spec
CONSTANTS
  NumMsgs = 2
  Jobs <- TwoJobs
  JobOf <- MsgPerJob
  Kind <- BothOk
  Trimmable = {}
  CanBatch = FALSE
  ResultsMatch = TRUE
  BatchReadCount = 100
  PendingCount = 100
  PowLimit = 1023
  FaultKinds = {"conn"}
  MaxFaults = 2
  MaxHookFaults = 0
  MaxCrashes = 0
  MaxStops = 0
INVARIANT OutageKeepsResult
CHECK_DEADLOCK FALSE
