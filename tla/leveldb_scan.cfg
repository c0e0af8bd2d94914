SPECIFICATION LevelSpec
CONSTANTS
  v = v
  w = w
  Absent = Absent
  Vals = {v, w}
  Keys <- MCKeys
INVARIANTS
  LevelTypeOK
  SnapshotScan
