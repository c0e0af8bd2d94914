----------------------------- MODULE LogBuffer -----------------------------
(***************************************************************************)
(* TxTransactionLogBuffer: the replication message of one transaction,     *)
(* written by the transaction that owns the ring slot and read by the      *)
(* publisher.  A log record is an opaque member of Ops and every record    *)
(* takes one cell of the buffer, so totalLogCount_, totalLogSize_ and      *)
(* nextLogAddr_, which always move together, are the one field "count".    *)
(*                                                                         *)
(* "mem" and "hdr..." are the bytes of replicationMessageBuffer_.  clearLog*)
(* and reset rewind the count and leave those bytes alone, which matters   *)
(* once a message that points into the buffer is on its way.               *)
(***************************************************************************)
EXTENDS Integers

CONSTANTS
  Ops,      \* log records a transaction can append
  NoOp,     \* the content of a cell that was never written
  MaxLogs   \* records that fit in the buffer (TX_REPLICATION_MESSAGE_SIZE)

ASSUME LogBufferAssumption ==
  /\ MaxLogs \in Nat \ {0}
  /\ NoOp \notin Ops

Cells == 1 .. MaxLogs

Buffer ==
  [ txId     : Nat,                       \* transactionId_, 0 when unset
    count    : 0 .. MaxLogs,              \* records appended
    final    : BOOLEAN,                   \* isFinalized_
    hdrTx    : Nat,                       \* header bytes: transaction id
    hdrCount : 0 .. MaxLogs,              \* header bytes: size of the records
    mem      : [Cells -> Ops \cup {NoOp}] ]

\* A buffer as the TxTransactionEvent factory makes it.
NewBuffer ==
  [ txId |-> 0, count |-> 0, final |-> FALSE, hdrTx |-> 0, hdrCount |-> 0,
    mem |-> [c \in Cells |-> NoOp] ]

\* clearLog: drop the records; the transaction id stays.
ClearLog(b) == [b EXCEPT !.count = 0, !.final = FALSE]

\* A reset that forgets the transaction id.
ResetKeepsTxId(b) == ClearLog(b)

\* A reset that wipes the buffer although a message still points into it.
ResetWipesBytes(b) == NewBuffer

\* reset: drop the records and the transaction id.
Reset(b) == [ClearLog(b) EXCEPT !.txId = 0]

\* isClear does not look at the transaction id.
IsClear(b) == b.count = 0 /\ ~b.final

\* setTransactionId, once its assertion that no id was set has passed.
SetTransactionId(b, id) == [b EXCEPT !.txId = id]

\* An off-by-one in the assertion of appendLog.
FitsOffByOne(b) == b.count <= MaxLogs

\* appendLog asserts that the record fits.
Fits(b) == b.count < MaxLogs

\* appendLog copies the record behind the last one.
AppendLog(b, op) ==
  [b EXCEPT !.mem[b.count + 1] = op, !.count = b.count + 1]

\* A finalize that leaves the record size of an older transaction behind.
FinalizeStaleSize(b) == [b EXCEPT !.hdrTx = b.txId, !.final = TRUE]

\* finalize writes the message header and closes the buffer.
Finalize(b) ==
  [b EXCEPT !.hdrTx = b.txId, !.hdrCount = b.count, !.final = TRUE]

\* The records a reader of the buffer's bytes finds: as many as the header
\* says, from the start of the buffer.
Records(b) == [i \in 1 .. b.hdrCount |-> b.mem[i]]

=============================================================================
