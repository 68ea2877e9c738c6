SPECIFICATION FairSpec
CONSTANTS
  NumMsgs = 2
  Jobs <- TwoJobs
  JobOf <- MsgPerJob
  Kind <- BothOk
  Trimmable = {1}
  CanBatch = TRUE
  ResultsMatch = FALSE
  BatchReadCount = 100
  PendingCount = 100
  PowLimit = 1023
  FaultKinds = {"conn", "other"}
  MaxFaults = 1
  MaxHookFaults = 0
  MaxCrashes = 0
  MaxStops = 1
INVARIANT BusyMeansNotIdle
INVARIANT CleanDrainCutsNoJob
INVARIANT DeliveryExcludesProcessing
INVARIANT CompletedIsEarned
PROPERTY ShutdownCompletes
CHECK_DEADLOCK FALSE
