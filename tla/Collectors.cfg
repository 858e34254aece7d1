SPECIFICATION FairSpec
CONSTANTS
  SourceKinds = {"cliproxy", "litellm"}
  Records <- FourRecords
  Rejected = {2}
  Notices = {3}
  Started <- Starts
  Lateness = 1
  Overlap = 1
  PageSize = 1
  PopCount = 2
  BatchRecords = 2
  PushBacklog = 2
  LastRetry = 2
  MaxTime = 3
  MaxFaults = 2
INVARIANTS
  FiledOnce
PROPERTIES
  KeptUntilFiled
  EveryRecordFiled
CHECK_DEADLOCK FALSE
