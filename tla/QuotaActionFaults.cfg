SPECIFICATION Spec
CONSTANTS
  a1 = a1  a2 = a2  s1 = s1
  Requests = {r1, r2, r3}
  Accounts = {a1}
  Sources = {s1}
  All = All  NoKey = NoKey  None = None
  Keys = {k1}
  Scopes <- RefreshAndReset
  InvalidKinds = {}
  ReuseFor = 0
  MaxTime = 1
  MaxActions = 3
  MaxBoots = 2
  CommitMayFail = TRUE
  PersistMayFail = TRUE
INVARIANTS
  TypeOK
  OneOpenActionPerScope
  SharesOneCallButResets
  LiveOwnsItsRow
  OnlyReusedIdsStrand
  KeyNeverRunsTwice
PROPERTY AnswersStand
SYMMETRY Symmetry
CHECK_DEADLOCK FALSE
