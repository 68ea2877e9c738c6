SPECIFICATION Spec
CONSTANTS
  NumMsgs = 2
  Jobs <- TwoJobs
  JobOf <- MsgPerJob
  Kind <- BothOk
  Trimmable = {}
  CanBatch = FALSE
  ResultsMatch = TRUE
  BatchReadCount = 100
  PendingCount = 100
  PowLimit = 1023
  FaultKinds = {}
  MaxFaults = 0
  MaxHookFaults = 0
  MaxCrashes = 1
  MaxStops = 0
INVARIANT CompletedMeansSent
CHECK_DEADLOCK FALSE
