SPECIFICATION FairSpec
CONSTANTS
  put = put
  NoOp = NoOp
  Ops <- MCOneOp
  MaxLogs = 1
  Size = 2
  MaxTx = 1
  MaxOpens = 1
PROPERTY CloseReturns
CHECK_DEADLOCK FALSE
