SPECIFICATION FairSpec
CONSTANTS
  quota = quota  plan = plan  arrival = arrival
  Readers = {r1}
  Subjects = {quota, plan, arrival}
  Wants <- DefaultKinds
  PageSize = 1
  Retention = 0
  MaxChanges = 2
  MaxBatch = 2
  MaxTime = 1
  MaxFaults = 1
INVARIANTS
  TypeOK
  NothingMissed
  NoSleepOver
PROPERTIES
  FollowsLog
  CatchesUp
CHECK_DEADLOCK FALSE
