SPECIFICATION FairSpec
CONSTANTS
  Writers = {w1, w2}
  Others = {o1}
  Clients = {c1}
  None = None
  SequenceMask = 1
  Replay = 1
  Backlog = 1
  MaxBatch = 2
  MaxEvents = 2
  MaxMs = 2
  MaxFaults = 2
INVARIANTS
  IdsRise
  OncePerConnection
  OnlySkippedMissed
PROPERTY EveryEventStreamed
CHECK_DEADLOCK FALSE
