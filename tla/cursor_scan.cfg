SPECIFICATION CursorSpec
CONSTANTS
  v = v
  Absent = Absent
  Vals = {v}
  Keys <- MCKeys
  MaxKeys = 3
  DelsMissing = FALSE
  MaxWrites = 2
INVARIANTS
  CursorTypeOK
  ScanFollowsKeys
  OrdersAreRanks
  ScanUnderWrites
CHECK_DEADLOCK FALSE
