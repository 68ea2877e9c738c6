SPECIFICATION Spec
CONSTANTS
  NumMsgs = 3
  Jobs <- ThreeJobs
  JobOf <- JobEach
  Kind <- OkOkNoKeys
  Trimmable = {}
  CanBatch = TRUE
  ResultsMatch = TRUE
  BatchReadCount = 100
  PendingCount = 100
  PowLimit = 1023
  FaultKinds = {"conn", "other"}
  MaxFaults = 1
  MaxHookFaults = 0
  MaxCrashes = 1
  MaxStops = 0
INVARIANT AckedIsSettled
PROPERTY CancelledIsFinal
PROPERTY KeepsLedger
PROPERTY CancelledWhileQueuedNeverRuns
CHECK_DEADLOCK FALSE
