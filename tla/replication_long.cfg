SPECIFICATION ReplSpec
CONSTANTS
  w1 = w1
  w2 = w2
  Absent = Absent
  NoOp = NoOp
  Keys = {k}
  Values <- MCValues
  Ops <- MCOps
  MaxLogs = 1
  Size = 2
  MaxTx = 1
  MaxOpens = 1
  MaxStarts = 1
  AbortsWrites = FALSE
INVARIANT ReplicaEqualsMaster
CHECK_DEADLOCK FALSE
