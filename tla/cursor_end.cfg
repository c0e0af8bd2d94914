SPECIFICATION CursorSpec
CONSTANTS
  v = v
  Absent = Absent
  Vals = {v}
  Keys <- MCKeys
  MaxKeys = 3
  DelsMissing = FALSE
  MaxWrites = 0
INVARIANT EndMeansEnd
CHECK_DEADLOCK FALSE
