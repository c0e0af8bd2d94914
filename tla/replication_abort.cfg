SPECIFICATION ReplSpec
CONSTANTS
  w1 = w1
  w2 = w2
  Absent = Absent
  NoOp = NoOp
  Keys = {k}
  Values <- MCValues
  Ops <- MCOps
  MaxLogs = 2
  Size = 2
  MaxTx = 2
  MaxOpens = 1
  MaxStarts = 1
  AbortsWrites = TRUE
INVARIANT RedoAlwaysSucceeds
CHECK_DEADLOCK FALSE
