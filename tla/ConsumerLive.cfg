SPECIFICATION FairSpec
CONSTANTS
  NumMsgs = 2
  Jobs <- TwoJobs
  JobOf <- MsgPerJob
  Kind <- KindOfPayload
  Payload <- BellAndBeyond
  Angles <- SomeAngles
  Zero = 0
  MinusHalfPi = 4
  CloseToIt = {4}
  FormatFloat <- Rounding
  Trimmable = {}
  CanBatch = FALSE
  ResultsMatch = TRUE
  BatchReadCount = 100
  PendingCount = 1
  PowLimit = 1023
  FaultKinds = {"conn", "other"}
  MaxFaults = 2
  MaxHookFaults = 1
  MaxCrashes = 0
  MaxStops = 0
INVARIANT OnlySoundCircuitsRun
PROPERTY EveryMessageIsAcked
CHECK_DEADLOCK FALSE
