SPECIFICATION Spec
CONSTANTS
  Writers = {w1}
  Others = {}
  Clients = {c1}
  None = None
  SequenceMask = 1
  Replay = 1
  Backlog = 1
  MaxBatch = 2
  MaxEvents = 4
  MaxMs = 3
  MaxFaults = 0
INVARIANT NothingOlderMissed
CHECK_DEADLOCK FALSE
