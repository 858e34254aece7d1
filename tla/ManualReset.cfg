SPECIFICATION FairSpec
CONSTANTS
  Workers = {w1, w2, w3}
  None = None
  MaxGrants = 1
  MaxBoots = 2
INVARIANTS
  TypeOK
  NothingOfferedUnread
PROPERTIES
  SpendsOnLicense
  AskedEnds
CHECK_DEADLOCK FALSE
