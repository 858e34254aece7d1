SPECIFICATION Spec
CONSTANTS
  a1 = a1  a2 = a2  s1 = s1
  Requests = {r1, r2, r3}
  Accounts = {a1}
  Sources = {s1}
  All = All  NoKey = NoKey  None = None
  Keys = {}
  Scopes <- RefreshAndReset
  InvalidKinds = {}
  ReuseFor = 1
  MaxTime = 1
  MaxActions = 3
  MaxBoots = 1
  CommitMayFail = FALSE
  PersistMayFail = FALSE
INVARIANT SharesOneCall
SYMMETRY Symmetry
CHECK_DEADLOCK FALSE
