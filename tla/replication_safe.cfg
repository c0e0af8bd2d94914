SPECIFICATION KeepsUpSpec
CONSTANTS
  w1 = w1
  w2 = w2
  Absent = Absent
  NoOp = NoOp
  Keys = {k}
  Values <- MCValues
  Ops <- MCOps
  MaxLogs = 1
  Size = 2
  MaxTx = 3
  MaxOpens = 1
  MaxStarts = 2
  AbortsWrites = FALSE
INVARIANTS
  ReplTypeOK
  WireIntact
  SlaveSeesEveryId
  RedoAlwaysSucceeds
  ReplicaFollowsMaster
PROPERTIES
  ShipsLog
  SlaveCatchesUp
CHECK_DEADLOCK FALSE
