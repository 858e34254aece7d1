SPECIFICATION Spec
CONSTANTS
  a1 = a1
  a2 = a2
  a3 = a3
  p1 = p1
  p2 = p2
  e1 = e1
  Accounts = {a1, a2, a3}
  Plans = {p1, p2}
  Events = {e1}
  LabelsOf <- ThreeLabels
  Like <- AnyCase
  MayBeOff = {a1, a2, a3}
  None = None
  MaxTime = 1
  MaxDismissals = 1
INVARIANTS
  OneStep
  EventCountsOnce
  ReaderKnows
PROPERTIES
  MergeKeepsLeverage
SYMMETRY SameLabel
CHECK_DEADLOCK FALSE
