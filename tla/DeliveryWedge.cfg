SPECIFICATION FairSpec
CONSTANTS
  NumMsgs = 2
  Jobs <- TwoJobs
  JobOf <- MsgPerJob
  Kind <- BothOk
  Trimmable = {}
  CanBatch = TRUE
  ResultsMatch = TRUE
  BatchReadCount = 100
  PendingCount = 100
  PowLimit = 1023
  FaultKinds = {"conn"}
  MaxFaults = 1
  MaxHookFaults = 0
  MaxCrashes = 0
  MaxStops = 0
PROPERTY EveryMessageIsAcked
CHECK_DEADLOCK FALSE
