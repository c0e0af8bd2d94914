SPECIFICATION FairSpec
CONSTANTS
  put = put
  NoOp = NoOp
  Ops <- MCOneOp
  MaxLogs = 1
  Size = 2
  MaxTx = 5
  MaxOpens = 2
INVARIANTS
  TypeOK
  RingOwnership
  PendingIntact
  HandoverAsserts
  PipelineAsserts
  SentInOrder
  DrainedMeansSent
PROPERTIES
  EveryEndedIsSent
  ClaimIsGranted
CHECK_DEADLOCK FALSE
