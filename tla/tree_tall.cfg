SPECIFICATION TallSpec
CONSTANTS
  v = v
  w = w
  Absent = Absent
  Vals = {v, w}
  Keys <- MCKeys
  HotKeys = {1, 4, 17}
  MaxLoad = 24
  MaxKeys = 3
  DelsMissing = FALSE
INVARIANTS
  WellFormed
  ChainComplete
  KeyCountsRight
  QueriesRight
  DebugChecksPass
PROPERTY IsOrderedMap
CHECK_DEADLOCK FALSE
