SPECIFICATION FairSpec
CONSTANTS
  Accounts = {a1}
  MetaAccount = a1
  Records <- TwoRecords
  InitialDelay = 1
  MaxDelay = 2
  MaxAttempts = 1
  Syncers = {"loop", "refresh"}
  None = None
  MaxTime = 2
  MaxMoves = 2
  MaxFaults = 1
INVARIANTS
  NamedIsListed
  EvidenceIsNewest
PROPERTIES
  ListingSettles
  ExpiredRecovers
CHECK_DEADLOCK FALSE
