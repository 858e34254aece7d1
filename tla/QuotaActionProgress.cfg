SPECIFICATION FairSpec
CONSTANTS
  a1 = a1  a2 = a2  s1 = s1
  Requests = {r1, r2}
  Accounts = {a1}
  Sources = {s1}
  All = All  NoKey = NoKey  None = None
  Keys = {}
  Scopes <- EveryKind
  InvalidKinds = {"hard_refresh"}
  ReuseFor = 0
  MaxTime = 2
  MaxActions = 3
  MaxBoots = 1
  CommitMayFail = TRUE
  PersistMayFail = FALSE
PROPERTIES
  RecentWorkIsShared
  ActionsFinish
CHECK_DEADLOCK FALSE
