SPECIFICATION FairSpec
CONSTANTS
  NumMsgs = 2
  Jobs <- TwoJobs
  JobOf <- MsgPerJob
  Kind <- BothOk
  Trimmable = {}
  CanBatch = FALSE
  ResultsMatch = TRUE
  BatchReadCount = 100
  PendingCount = 100
  PowLimit = 1023
  FaultKinds = {}
  MaxFaults = 0
  MaxHookFaults = 0
  MaxCrashes = 0
  MaxStops = 1
PROPERTY CutJobStaysPending
CHECK_DEADLOCK FALSE
