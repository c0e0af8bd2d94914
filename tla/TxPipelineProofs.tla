------------------------- MODULE TxPipelineProofs -------------------------
(***************************************************************************)
(* Proofs about TxPipeline, for every ring size, buffer size, number of    *)
(* transactions and number of times the database is opened.                *)
(*                                                                         *)
(* RingInv is inductive and carries type correctness, slot ownership, the  *)
(* integrity of pending events and the hand-over assertions, however the   *)
(* database is opened and closed.  PrefixInv adds the ids, and with them   *)
(* that what was sent is a prefix of what has ended.  OrderInv, as long as *)
(* the application is not careless, adds that the ids are consecutive and  *)
(* that closing and waiting leave nothing unsent.                          *)
(***************************************************************************)
EXTENDS TxPipeline, TLAPS

(***************************************************************************)
(* The inductive invariant                                                 *)
(***************************************************************************)
\* The sequence numbers: handled by batches, never past the cursor, never a
\* ring's length behind it.
CountersInv ==
  /\ seq + 1 <= next
  /\ next <= cursor + 1
  /\ avail <= cursor
  /\ cursor - seq <= Size
  /\ cursor + 1 <= Len(ended)
  /\ ppc \notin {"events", "stopped"} => next = seq + 1
  /\ ppc = "events" => next <= avail + 1
  /\ ppc = "stopped" <=> apc = "stopped"
  /\ apc = "closed" => ppc \in {"none", "exited"}

\* The claimed sequence against the published one.
ClaimInv ==
  /\ replicated /\ apc = "claiming" => claimed = cursor + 1 /\ curSeq = -1
  /\ replicated /\ apc = "open" =>
       claimed = cursor + 1 /\ curSeq = claimed /\ claimed - Size <= seq
  /\ replicated /\ apc \notin {"claiming", "open", "stopped"} =>
       claimed = cursor /\ curSeq = -1
  /\ ~replicated => cursor = -1 /\ ppc \in {"none", "stopped"}
  /\ apc = "open" => curSeq >= 0
  /\ apc = "claiming" => claimed >= 0

\* A slot whose event is published, or written by the open transaction.
InUse(i) ==
  \/ \E s \in next .. cursor : Slot(s) = i
  \/ apc = "open" /\ Slot(curSeq) = i

\* The buffer of the event published as sequence s.
PublishedSlot(s) ==
  LET b == slots[Slot(s)]  e == ended[EndedIndex(s)] IN
    /\ b.final
    /\ b.hdrCount = b.count
    /\ b.txId = e.id
    /\ b.hdrTx = e.id
    /\ Records(b) = e.ops

SlotsInv ==
  /\ \A s \in next .. cursor : PublishedSlot(s)
  /\ apc # "stopped" =>
       \A i \in SlotIds : InUse(i) \/ (IsClear(slots[i]) /\ slots[i].txId = 0)
  /\ apc = "open" =>
       LET b == slots[Slot(curSeq)] IN
         /\ ~b.final
         /\ b.count = Len(curOps)
         /\ \A i \in 1 .. Len(curOps) : b.mem[i] = curOps[i]

RingInv == TypeOK /\ CountersInv /\ ClaimInv /\ SlotsInv /\ HandoverAsserts

\* The event of the open transaction carries its id, so that another begin() finds
\* it taken.
OpenHasId ==
  /\ nextTxId # 0
  /\ apc = "open" => slots[Slot(curSeq)].txId # 0

\* The ids of the ended transactions ascend and the open one's comes last; what was
\* sent is a prefix of what has ended, and its ids have no gap.
PrefixInv ==
  /\ prevTxId = Len(sent)
  /\ SentInOrder
  /\ \A i \in 1 .. Len(ended) : 0 < ended[i].id /\ ended[i].id < nextTxId
  /\ \A i, j \in 1 .. Len(ended) : i < j => ended[i].id < ended[j].id
  /\ apc = "open" =>
       LET id == slots[Slot(curSeq)].txId IN
         id < nextTxId /\ \A i \in 1 .. Len(ended) : ended[i].id < id

\* As long as the application is not careless: the ids are consecutive, what was
\* sent is exactly what the publisher has passed, and a closed database is drained.
OrderInv ==
  /\ opens > 0 => replicated
  /\ opens = 0 => apc = "closed"
  /\ Len(sent) = EndedIndex(next) - 1
  /\ prevTxId = Len(sent)
  /\ \A i \in 1 .. Len(ended) : ended[i].id = i
  /\ apc = "open" =>
       nextTxId = Len(ended) + 2 /\ slots[Slot(curSeq)].txId = nextTxId - 1
  /\ apc \notin {"open", "stopped"} => nextTxId = Len(ended) + 1
  /\ apc = "waiting" => expected = cursor
  /\ apc \in {"claiming", "open"} => ~drained
  /\ apc \in {"halting", "alerting", "joining", "closed"} =>
       Len(sent) = Len(ended)
  /\ drained => Len(sent) = Len(ended)
  /\ fault \in {"none", "overflow", "second_begin"}

-----------------------------------------------------------------------------
(***************************************************************************)
(* Slots and buffers                                                       *)
(***************************************************************************)
\* The quotient and the remainder of the sequence number, and a multiple of the
\* ring size that is positive is at least the ring size.
LEMMA DivMod ==
  ASSUME NEW N \in Nat \ {0}, NEW a \in Int
  PROVE  /\ a \div N \in Int
         /\ a % N \in 0 .. N - 1
         /\ a = N * (a \div N) + (a % N)
OBVIOUS

\* A positive multiple of N is at least N.
LEMMA MultipleGap ==
  ASSUME NEW N \in Nat \ {0}, NEW q \in Int, q >= 1
  PROVE  N * q >= N
OBVIOUS

\* RingBuffer::Get maps sequences less than a ring apart to different slots.
LEMMA SlotDistinct ==
  ASSUME NEW a \in Int, NEW b \in Int, b < a, a - b < Size
  PROVE  Slot(a) # Slot(b)
<1>  DEFINE qa == a \div Size
            qb == b \div Size
<1>1. /\ qa \in Int /\ qb \in Int
      /\ a = Size * qa + (a % Size) /\ b = Size * qb + (b % Size)
      /\ a % Size \in 0 .. Size - 1 /\ b % Size \in 0 .. Size - 1
  BY DivMod, PipelineAssumption
<1>  SUFFICES ASSUME a % Size = b % Size PROVE FALSE
  BY DEF Slot
<1>  HIDE DEF qa, qb
<1>2. a - b = Size * (qa - qb)
  BY <1>1, PipelineAssumption
<1>3. qa - qb >= 1
  <2>1. SUFFICES ASSUME qa - qb <= 0 PROVE FALSE
    BY <1>1
  <2>2. Size * (qb - qa) >= 0
    BY <1>1, <2>1, PipelineAssumption
  <2>  QED
    BY <2>2, <1>1, <1>2, PipelineAssumption
<1>4. Size * (qa - qb) >= Size
  BY <1>1, <1>3, MultipleGap, PipelineAssumption
<1>  QED
  BY <1>2, <1>4, PipelineAssumption

\* RingBuffer::Get stays inside the ring.
LEMMA SlotType == \A s \in Int : Slot(s) \in SlotIds
BY DivMod, PipelineAssumption DEF Slot, SlotIds

\* The operations on a log buffer keep it a log buffer.
LEMMA BufferType ==
  ASSUME NEW b \in Buffer
  PROVE  /\ ClearLog(b) \in Buffer
         /\ Reset(b) \in Buffer
         /\ Finalize(b) \in Buffer
         /\ \A id \in Nat : SetTransactionId(b, id) \in Buffer
         /\ \A op \in Ops : Fits(b) => AppendLog(b, op) \in Buffer
         /\ Records(b) \in Seq(Ops \cup {NoOp})
<1>  USE LogBufferAssumption DEF Buffer, Cells
<1>1. ASSUME NEW c \in Buffer, NEW f \in BOOLEAN
      PROVE  [c EXCEPT !.final = f] \in Buffer
  OBVIOUS
<1>2. ClearLog(b) \in Buffer
  <2>1. [b EXCEPT !.count = 0] \in Buffer
    OBVIOUS
  <2>  QED
    BY <1>1, <2>1 DEF ClearLog
<1>3. Reset(b) \in Buffer
  BY <1>2 DEF Reset
<1>4. Finalize(b) \in Buffer
  <2>1. [b EXCEPT !.hdrTx = b.txId, !.hdrCount = b.count] \in Buffer
    OBVIOUS
  <2>  QED
    BY <1>1, <2>1 DEF Finalize
<1>5. \A id \in Nat : SetTransactionId(b, id) \in Buffer
  BY DEF SetTransactionId
<1>6. ASSUME NEW op \in Ops, Fits(b) PROVE AppendLog(b, op) \in Buffer
  <2>  DEFINE m == [b.mem EXCEPT ![b.count + 1] = op]
  <2>1. m \in [Cells -> Ops \cup {NoOp}]
    BY <1>6 DEF Fits
  <2>2. b.count + 1 \in 0 .. MaxLogs
    BY <1>6 DEF Fits
  <2>  HIDE DEF m
  <2>3. [b EXCEPT !.mem = m, !.count = b.count + 1] \in Buffer
    BY <2>1, <2>2
  <2>  QED
    BY <2>3 DEF AppendLog, m
<1>7. Records(b) \in Seq(Ops \cup {NoOp})
  <2>1. \A i \in 1 .. b.hdrCount : b.mem[i] \in Ops \cup {NoOp}
    OBVIOUS
  <2>  QED
    BY <2>1 DEF Records
<1>  QED
  BY <1>2, <1>3, <1>4, <1>5, <1>6, <1>7

\* A buffer as its constructor leaves it is a log buffer.
LEMMA NewBufferType == NewBuffer \in Buffer
BY LogBufferAssumption DEF NewBuffer, Buffer, Cells

-----------------------------------------------------------------------------
(***************************************************************************)
(* Type correctness                                                        *)
(***************************************************************************)
\* A process that has opened no database has the types.
LEMMA TypeInit == Init => TypeOK
<1>  SUFFICES ASSUME Init PROVE TypeOK
  OBVIOUS
<1>1. /\ drained \in BOOLEAN /\ running \in BOOLEAN /\ alerted \in BOOLEAN
      /\ replicated \in BOOLEAN
  BY DEF Init
<1>2. curOps \in Seq(Ops) /\ ended \in Seq(Message) /\ sent \in Seq(Message)
  BY DEF Init
<1>  QED
  BY <1>1, <1>2, NewBufferType
     DEF Init, TypeOK, AppStates, PubStates, Faults, Sequence

\* A failed assertion changes the fault and the two threads' places only.
LEMMA FailType ==
  ASSUME TypeOK, NEW a \in Faults, Fail(a)
  PROVE  TypeOK'
BY DEF Fail, TypeOK, ringVars, AppStates, PubStates

\* What begin does once its assertions have passed.
TxStarted(s) ==
  /\ IsClear(slots[Slot(s)]) /\ slots[Slot(s)].txId = 0
  /\ slots' = [slots EXCEPT ![Slot(s)] =
                 SetTransactionId(slots[Slot(s)], nextTxId)]
  /\ nextTxId' = nextTxId + 1
  /\ curSeq' = s
  /\ curOps' = <<>>
  /\ drained' = FALSE
  /\ apc' = "open"
  /\ UNCHANGED <<replicated, opens, expected, claimed, careless, ended, pubVars,
                 cursor, seq, running, alerted, fault>>

\* beginTransaction on a claimed event fails one of its two assertions or starts.
LEMMA StartTxCases ==
  ASSUME NEW s \in Sequence, StartTx(s)
  PROVE  \/ Fail("not_clear") /\ ~IsClear(slots[Slot(s)])
         \/ Fail("tx_id_set") /\ slots[Slot(s)].txId # 0
         \/ TxStarted(s)
BY DEF StartTx, TakeEvent, IsFresh, TxStarted

\* Starting a transaction keeps the types.
LEMMA StartTxType ==
  ASSUME TypeOK, NEW s \in Sequence, StartTx(s)
  PROVE  TypeOK'
<1>1. Slot(s) \in SlotIds
  BY SlotType DEF Sequence
<1>2. slots[Slot(s)] \in Buffer
  BY <1>1 DEF TypeOK
<1>3. CASE Fail("not_clear") \/ Fail("tx_id_set")
  BY <1>3, FailType DEF Faults
<1>4. CASE TxStarted(s)
  <2>1. slots' \in [SlotIds -> Buffer]
    BY <1>1, <1>2, <1>4, BufferType DEF TypeOK, TxStarted
  <2>2. drained' \in BOOLEAN
    BY <1>4 DEF TxStarted
  <2>3. curOps' \in Seq(Ops)
    BY <1>4 DEF TxStarted
  <2>  QED
    BY <1>4, <2>1, <2>2, <2>3 DEF TxStarted, TypeOK, pubVars, AppStates, Sequence
<1>  QED
  BY <1>3, <1>4, StartTxCases

\* Ending a transaction, by commit or abort, keeps the types.
LEMMA EndTxType ==
  ASSUME TypeOK, NEW b \in Buffer, NEW ops \in Seq(Ops), EndTx(b, ops)
  PROVE  TypeOK'
<1>1. Slot(curSeq) \in SlotIds
  BY SlotType DEF TypeOK, Sequence
<1>2. /\ Finalize(b) \in Buffer
      /\ Reset(Finalize(b)) \in Buffer
  BY BufferType
<1>3. slots' \in [SlotIds -> Buffer]
  BY <1>1, <1>2 DEF EndTx, TypeOK
<1>4. [id |-> b.txId, ops |-> ops] \in Message
  <2>1. ops \in Seq(Ops \cup {NoOp})
    OBVIOUS
  <2>  QED
    BY <2>1 DEF Message, Buffer
<1>5. ended' \in Seq(Message)
  <2>1. ended \in Seq(Message)
    BY DEF TypeOK
  <2>2. PICK m : m = [id |-> b.txId, ops |-> ops]
    OBVIOUS
  <2>3. ended' = ended \/ ended' = Append(ended, m)
    BY <2>2 DEF EndTx
  <2>4. m \in Message
    BY <1>4, <2>2
  <2>5. Append(ended, m) \in Seq(Message)
    BY <2>1, <2>4
  <2>  QED
    BY <2>1, <2>3, <2>5
<1>6. curOps' \in Seq(Ops)
  BY DEF EndTx
<1>  QED
  BY <1>3, <1>5, <1>6 DEF EndTx, TypeOK, pubVars, AppStates, Sequence

\* Handling an event keeps the types.
LEMMA OnEventType ==
  ASSUME TypeOK, OnEvent
  PROVE  TypeOK'
<1>  DEFINE b == slots[Slot(next)]
<1>1. Slot(next) \in SlotIds /\ b \in Buffer
  BY SlotType DEF TypeOK
<1>2. CASE Fail("not_finalized") \/ Fail("id_mismatch") \/ Fail("bad_size")
  BY <1>2, FailType DEF Faults
<1>3. CASE /\ prevTxId' = b.txId
           /\ sent' = Append(sent, [id |-> b.hdrTx, ops |-> Records(b)])
           /\ slots' = [slots EXCEPT ![Slot(next)] = Reset(b)]
           /\ next' = next + 1
           /\ UNCHANGED <<ppc, avail, appVars, cursor, seq, running, alerted,
                          fault>>
  <2>1. [id |-> b.hdrTx, ops |-> Records(b)] \in Message
    BY <1>1, BufferType DEF Message, Buffer
  <2>2. sent' \in Seq(Message)
    BY <1>3, <2>1 DEF TypeOK
  <2>3. slots' \in [SlotIds -> Buffer]
    BY <1>1, <1>3, BufferType DEF TypeOK
  <2>4. prevTxId' \in Nat
    BY <1>1, <1>3 DEF Buffer
  <2>  QED
    BY <1>3, <2>2, <2>3, <2>4 DEF TypeOK, appVars
<1>  QED
  BY <1>2, <1>3 DEF OnEvent

\* Every step keeps the types.
LEMMA TypeStep == TypeOK /\ [Next]_vars => TypeOK'
<1>  SUFFICES ASSUME TypeOK, [Next]_vars PROVE TypeOK'
  OBVIOUS
<1>  USE DEF TypeOK
<1>1. ASSUME NEW m \in BOOLEAN, Open(m) PROVE TypeOK'
  <2>1. drained' \in BOOLEAN /\ running' \in BOOLEAN /\ alerted' \in BOOLEAN
    BY <1>1 DEF Open
  <2>2. replicated' \in BOOLEAN
    BY <1>1, PipelineAssumption DEF Open
  <2>3. ppc' \in PubStates
    BY <1>1 DEF Open, PubStates
  <2>  QED
    BY <1>1, <2>1, <2>2, <2>3, NewBufferType DEF Open, Sequence, AppStates
<1>2. CASE BeginReuse
  BY <1>2, StartTxType DEF BeginReuse
<1>2a. CASE BeginAnother
  <2>1. CASE Fail("second_begin")
    BY <2>1, FailType DEF Faults
  <2>2. CASE IsFresh(slots[Slot(curSeq)]) /\ TakeEvent(curSeq)
    BY <2>2, StartTxType DEF StartTx
  <2>  QED
    BY <1>2a, <2>1, <2>2 DEF BeginAnother
<1>3. CASE BeginClaim
  <2>1. drained' \in BOOLEAN
    BY <1>3 DEF BeginClaim
  <2>  QED
    BY <1>3, <2>1 DEF BeginClaim, pubVars, ringVars, AppStates, Sequence
<1>4. CASE ClaimSlot
  BY <1>4, StartTxType DEF ClaimSlot
<1>5. ASSUME NEW op \in Ops, LogOp(op) PROVE TypeOK'
  <2>  DEFINE b == slots[Slot(curSeq)]
  <2>1. Slot(curSeq) \in SlotIds /\ b \in Buffer
    BY SlotType DEF Sequence
  <2>2. CASE Fail("overflow")
    BY <2>2, FailType DEF Faults
  <2>3. CASE /\ Fits(b)
             /\ slots' = [slots EXCEPT ![Slot(curSeq)] = AppendLog(b, op)]
             /\ curOps' = Append(curOps, op)
             /\ UNCHANGED <<apc, replicated, opens, drained, expected, nextTxId,
                            curSeq, claimed, careless, ended, pubVars, cursor,
                            seq, running, alerted, fault>>
    <3>1. slots' \in [SlotIds -> Buffer]
      BY <2>1, <2>3, BufferType
    <3>2. curOps' \in Seq(Ops)
      BY <2>3
    <3>  QED
      BY <2>3, <3>1, <3>2 DEF pubVars
  <2>  QED
    BY <1>5, <2>2, <2>3 DEF LogOp
<1>6. CASE Commit \/ Abort
  <2>1. slots[Slot(curSeq)] \in Buffer
    BY SlotType DEF Sequence
  <2>2. ClearLog(slots[Slot(curSeq)]) \in Buffer
    BY <2>1, BufferType
  <2>3. <<>> \in Seq(Ops)
    OBVIOUS
  <2>4. CASE Commit
    BY <2>1, <2>4, EndTxType DEF Commit
  <2>5. CASE Abort
    BY <2>2, <2>3, <2>5, EndTxType DEF Abort
  <2>  QED
    BY <1>6, <2>4, <2>5
<1>7. CASE WaitStart
  BY <1>7 DEF WaitStart, pubVars, ringVars, AppStates
<1>8. CASE WaitDone
  <2>1. drained' \in BOOLEAN
    BY <1>8 DEF WaitDone
  <2>  QED
    BY <1>8, <2>1 DEF WaitDone, pubVars, ringVars, AppStates
<1>9. CASE Close
  <2>1. apc' \in AppStates
    BY <1>9 DEF Close, AppStates
  <2>  QED
    BY <1>9, <2>1 DEF Close, pubVars, ringVars
<1>10. CASE Halt
  <2>1. running' \in BOOLEAN
    BY <1>10 DEF Halt
  <2>  QED
    BY <1>10, <2>1 DEF Halt, pubVars, AppStates
<1>11. CASE Alert
  <2>1. alerted' \in BOOLEAN
    BY <1>11 DEF Alert
  <2>  QED
    BY <1>11, <2>1 DEF Alert, pubVars, AppStates
<1>12. CASE Join
  BY <1>12 DEF Join, pubVars, ringVars, AppStates
<1>13. CASE RunStart
  <2>1. running' \in BOOLEAN
    BY <1>13 DEF RunStart
  <2>  QED
    BY <1>13, <2>1 DEF RunStart, appVars, PubStates
<1>14. CASE ClearAlert
  <2>1. alerted' \in BOOLEAN
    BY <1>14 DEF ClearAlert
  <2>  QED
    BY <1>14, <2>1 DEF ClearAlert, appVars, PubStates, Sequence
<1>15. CASE WaitFor \/ CheckAlert \/ CheckRunning
  <2>1. ppc' \in PubStates
    BY <1>15 DEF WaitFor, CheckAlert, CheckRunning, PubStates
  <2>  QED
    BY <1>15, <2>1 DEF WaitFor, CheckAlert, CheckRunning, appVars, ringVars
<1>16. CASE OnEvent
  BY <1>16, OnEventType
<1>17. CASE EndBatch
  BY <1>17 DEF EndBatch, appVars, PubStates, Sequence
<1>18. CASE UNCHANGED vars
  BY <1>18 DEF vars, appVars, pubVars, ringVars
<1>  QED
  BY <1>1, <1>2, <1>2a, <1>3, <1>4, <1>5, <1>6, <1>7, <1>8, <1>9, <1>10, <1>11,
     <1>12, <1>13, <1>14, <1>15, <1>16, <1>17, <1>18 DEF Next, AppNext, PubNext

\* Every state of the pipeline has the types of its variables: in particular a
\* buffer never holds more records than fit, whatever the threads do.
THEOREM TypeCorrect == Spec => []TypeOK
<1>1. QED
  BY TypeInit, TypeStep, PTL DEF Spec

-----------------------------------------------------------------------------
(***************************************************************************)
(* The ring                                                                *)
(***************************************************************************)
\* ... and owns a ring of clean buffers.
LEMMA RingInit == Init => RingInv
<1>  SUFFICES ASSUME Init PROVE RingInv
  OBVIOUS
<1>1. TypeOK
  BY TypeInit
<1>2. CountersInv
  BY <1>1, PipelineAssumption DEF Init, CountersInv, TypeOK
<1>3. ClaimInv
  BY DEF Init, ClaimInv
<1>4. SlotsInv
  BY DEF Init, SlotsInv, NewBuffer, IsClear
<1>  QED
  BY <1>1, <1>2, <1>3, <1>4 DEF RingInv, HandoverAsserts, Init

\* The claimed sequence does not share its slot with a published one.
LEMMA FreshSlot ==
  ASSUME RingInv, NEW s \in Sequence,
         \/ replicated /\ s = cursor + 1 /\ s - Size <= seq
         \/ ~replicated
  PROVE  \A t \in next .. cursor : Slot(t) # Slot(s)
<1>  SUFFICES ASSUME NEW t \in next .. cursor PROVE Slot(t) # Slot(s)
  OBVIOUS
<1>1. t \in Int /\ next \in Nat /\ cursor \in Int /\ seq \in Int
  BY DEF RingInv, TypeOK, Sequence
<1>2. replicated
  BY <1>1 DEF RingInv, ClaimInv
<1>3. t < s /\ s - t < Size
  BY <1>1, <1>2, PipelineAssumption DEF RingInv, CountersInv, Sequence
<1>  QED
  BY <1>1, <1>3, SlotDistinct DEF Sequence

\* Steps that neither touch a buffer nor publish nor handle an event.
LEMMA SlotsFrame ==
  ASSUME SlotsInv,
         UNCHANGED <<slots, next, cursor, ended, curSeq, curOps>>,
         \/ apc' = "stopped"
         \/ apc # "stopped" /\ (apc' = "open" <=> apc = "open")
  PROVE  SlotsInv'
<1>1. \A t \in next .. cursor : PublishedSlot(t)' = PublishedSlot(t)
  BY DEF PublishedSlot, EndedIndex, Slot
<1>2. \A i \in SlotIds : apc' # "stopped" => (InUse(i)' = InUse(i))
  BY DEF InUse, Slot
<1>  QED
  BY <1>1, <1>2 DEF SlotsInv, Slot

\* A failed assertion other than the two that cannot fail.
LEMMA FailRing ==
  ASSUME RingInv, NEW a \in {"overflow", "id_mismatch", "second_begin"}, Fail(a)
  PROVE  RingInv'
<1>1. TypeOK'
  BY FailType DEF RingInv, Faults
<1>2. CountersInv' /\ ClaimInv'
  BY DEF RingInv, Fail, CountersInv, ClaimInv, ringVars
<1>3. SlotsInv'
  BY SlotsFrame DEF RingInv, Fail, ringVars
<1>  QED
  BY <1>1, <1>2, <1>3 DEF RingInv, HandoverAsserts, Fail

\* A transaction that starts finds its slot free and cleared: its assertions hold.
LEMMA StartTxRing ==
  ASSUME RingInv, NEW s \in Sequence, StartTx(s), s >= 0,
         apc \in {"idle", "claiming"},
         \/ replicated /\ s = claimed /\ s = cursor + 1 /\ s - Size <= seq
         \/ ~replicated
  PROVE  RingInv' /\ TxStarted(s)
<1>1. Slot(s) \in SlotIds
  BY SlotType DEF Sequence
<1>2. \A t \in next .. cursor : Slot(t) # Slot(s)
  BY FreshSlot
<1>3. ~InUse(Slot(s))
  BY <1>2 DEF InUse
<1>4. IsClear(slots[Slot(s)]) /\ slots[Slot(s)].txId = 0
  BY <1>1, <1>3 DEF RingInv, SlotsInv
<1>5. TxStarted(s)
  BY <1>4, StartTxCases
<1>6. TypeOK'
  BY StartTxType DEF RingInv
<1>7. CountersInv' /\ ClaimInv'
  BY <1>5 DEF RingInv, TxStarted, CountersInv, ClaimInv, pubVars
<1>8. SlotsInv'
  <2>1. slots[Slot(s)] \in Buffer
    BY <1>1 DEF RingInv, TypeOK
  <2>2. ASSUME NEW i \in SlotIds, i # Slot(s) PROVE slots'[i] = slots[i]
    BY <2>2, <1>5 DEF TxStarted, RingInv, TypeOK
  <2>3. slots'[Slot(s)] = SetTransactionId(slots[Slot(s)], nextTxId)
    BY <1>1, <1>5 DEF TxStarted, RingInv, TypeOK
  <2>4. \A t \in next .. cursor : PublishedSlot(t)'
    <3>  SUFFICES ASSUME NEW t \in next .. cursor PROVE PublishedSlot(t)'
      BY <1>5 DEF TxStarted, pubVars
    <3>1. slots'[Slot(t)] = slots[Slot(t)]
      BY <1>2, <2>2, SlotType DEF RingInv, TypeOK, Sequence
    <3>  QED
      BY <3>1, <1>5
         DEF RingInv, SlotsInv, PublishedSlot, EndedIndex, TxStarted, Slot
  <2>5. ASSUME NEW i \in SlotIds
        PROVE  InUse(i)' \/ (IsClear(slots[i])' /\ (slots[i].txId = 0)')
    <3>1. CASE i = Slot(s)
      BY <3>1, <1>5 DEF InUse, TxStarted, Slot
    <3>2. CASE i # Slot(s)
      <4>1. InUse(i) \/ (IsClear(slots[i]) /\ slots[i].txId = 0)
        BY DEF RingInv, SlotsInv
      <4>2. InUse(i) => InUse(i)'
        BY <1>5 DEF InUse, TxStarted, pubVars, Slot
      <4>  QED
        BY <4>1, <4>2, <2>2, <3>2 DEF IsClear
    <3>  QED
      BY <3>1, <3>2
  <2>6. /\ ~slots'[Slot(s)].final
        /\ slots'[Slot(s)].count = 0
    BY <1>4, <2>1, <2>3 DEF SetTransactionId, IsClear, Buffer
  <2>  QED
    BY <1>5, <2>4, <2>5, <2>6 DEF SlotsInv, TxStarted, pubVars, Slot
<1>  QED
  BY <1>5, <1>6, <1>7, <1>8 DEF RingInv, HandoverAsserts, TxStarted

\* The slot of the open transaction is not the slot of a published one.
LEMMA OpenSlot ==
  ASSUME RingInv, apc = "open"
  PROVE  /\ Slot(curSeq) \in SlotIds
         /\ slots[Slot(curSeq)] \in Buffer
         /\ \A t \in next .. cursor : Slot(t) # Slot(curSeq)
<1>1. Slot(curSeq) \in SlotIds
  BY SlotType DEF RingInv, TypeOK, Sequence
<1>2. slots[Slot(curSeq)] \in Buffer
  BY <1>1 DEF RingInv, TypeOK
<1>3. \A t \in next .. cursor : Slot(t) # Slot(curSeq)
  BY FreshSlot DEF RingInv, TypeOK, ClaimInv
<1>  QED
  BY <1>1, <1>2, <1>3

\* Logging an operation changes the buffer of the open transaction only.
LEMMA LogOpRing ==
  ASSUME RingInv, NEW op \in Ops, LogOp(op), TypeOK'
  PROVE  RingInv'
<1>  DEFINE b == slots[Slot(curSeq)]
<1>1. CASE Fail("overflow")
  BY <1>1, FailRing
<1>2. CASE /\ Fits(b)
           /\ slots' = [slots EXCEPT ![Slot(curSeq)] = AppendLog(b, op)]
           /\ curOps' = Append(curOps, op)
           /\ UNCHANGED <<apc, replicated, opens, drained, expected, nextTxId,
                          curSeq, claimed, ended, pubVars, cursor, seq,
                          running, alerted, fault>>
  <2>1. apc = "open" /\ apc' = "open"
    BY <1>2 DEF LogOp
  <2>2. /\ Slot(curSeq) \in SlotIds
        /\ b \in Buffer
        /\ \A t \in next .. cursor : Slot(t) # Slot(curSeq)
    BY <2>1, OpenSlot
  <2>3. CountersInv' /\ ClaimInv'
    BY <1>2 DEF RingInv, CountersInv, ClaimInv, pubVars
  <2>4. \A i \in SlotIds : i # Slot(curSeq) => slots'[i] = slots[i]
    BY <1>2 DEF RingInv, TypeOK
  <2>5. slots'[Slot(curSeq)] = AppendLog(b, op)
    BY <1>2, <2>2 DEF RingInv, TypeOK
  <2>6. \A t \in next .. cursor : PublishedSlot(t)'
    <3>  SUFFICES ASSUME NEW t \in next .. cursor PROVE PublishedSlot(t)'
      OBVIOUS
    <3>1. slots'[Slot(t)] = slots[Slot(t)]
      BY <2>2, <2>4, SlotType DEF RingInv, TypeOK, Sequence
    <3>  QED
      BY <3>1, <1>2 DEF RingInv, SlotsInv, PublishedSlot, EndedIndex, Slot
  <2>7. ASSUME NEW i \in SlotIds
        PROVE  InUse(i)' \/ (IsClear(slots[i])' /\ (slots[i].txId = 0)')
    <3>1. CASE i = Slot(curSeq)
      BY <3>1, <1>2, <2>1 DEF InUse, Slot
    <3>2. CASE i # Slot(curSeq)
      <4>1. InUse(i) \/ (IsClear(slots[i]) /\ slots[i].txId = 0)
        BY <2>1 DEF RingInv, SlotsInv
      <4>2. InUse(i) => InUse(i)'
        BY <1>2 DEF InUse, pubVars, Slot
      <4>  QED
        BY <4>1, <4>2, <2>4, <3>2 DEF IsClear
    <3>  QED
      BY <3>1, <3>2
  <2>8. /\ ~slots'[Slot(curSeq)].final
        /\ slots'[Slot(curSeq)].count = Len(curOps')
        /\ \A i \in 1 .. Len(curOps') : slots'[Slot(curSeq)].mem[i] = curOps'[i]
    <3>1. /\ ~b.final
          /\ b.count = Len(curOps)
          /\ \A i \in 1 .. Len(curOps) : b.mem[i] = curOps[i]
      BY <2>1 DEF RingInv, SlotsInv
    <3>2. curOps \in Seq(Ops)
      BY DEF RingInv, TypeOK
    <3>3. /\ Len(curOps') = Len(curOps) + 1
          /\ curOps'[Len(curOps) + 1] = op
          /\ \A i \in 1 .. Len(curOps) : curOps'[i] = curOps[i]
      BY <1>2, <3>2
    <3>4. /\ AppendLog(b, op).final = b.final
          /\ AppendLog(b, op).count = b.count + 1
          /\ AppendLog(b, op).mem = [b.mem EXCEPT ![b.count + 1] = op]
      BY <2>2 DEF AppendLog, Buffer
    <3>5. b.count + 1 \in Cells /\ b.mem \in [Cells -> Ops \cup {NoOp}]
      BY <1>2, <2>2, LogBufferAssumption DEF Fits, Buffer, Cells
    <3>6. \A i \in 1 .. Len(curOps) : i \in Cells /\ i # b.count + 1
      <4>1. Len(curOps) \in Nat /\ Len(curOps) + 1 <= MaxLogs
        BY <3>1, <3>2, <3>5, LogBufferAssumption DEF Cells
      <4>  QED
        BY <4>1, <3>1, LogBufferAssumption DEF Cells
    <3>7. ~slots'[Slot(curSeq)].final
      BY <2>5, <3>1, <3>4
    <3>8. slots'[Slot(curSeq)].count = Len(curOps')
      BY <2>5, <3>1, <3>3, <3>4
    <3>9. ASSUME NEW i \in 1 .. Len(curOps')
          PROVE  slots'[Slot(curSeq)].mem[i] = curOps'[i]
      <4>1. CASE i = Len(curOps) + 1
        BY <2>5, <3>1, <3>3, <3>4, <3>5, <4>1
      <4>2. CASE i \in 1 .. Len(curOps)
        BY <2>5, <3>1, <3>3, <3>4, <3>5, <3>6, <4>2
      <4>  QED
        BY <3>2, <3>3, <4>1, <4>2
    <3>  QED
      BY <3>7, <3>8, <3>9
  <2>9. SlotsInv'
    BY <1>2, <2>6, <2>7, <2>8 DEF SlotsInv, pubVars, Slot
  <2>  QED
    BY <1>2, <2>3, <2>9 DEF RingInv, HandoverAsserts
<1>  QED
  BY <1>1, <1>2 DEF LogOp

\* A reader of a finalized buffer finds the records that were appended.
LEMMA RecordsOfFinal ==
  ASSUME NEW b \in Buffer, NEW ops \in Seq(Ops), b.count = Len(ops),
         \A i \in 1 .. Len(ops) : b.mem[i] = ops[i]
  PROVE  /\ Records(Finalize(b)) = ops
         /\ Finalize(b).final
         /\ Finalize(b).hdrCount = Finalize(b).count
         /\ Finalize(b).txId = b.txId
         /\ Finalize(b).hdrTx = b.txId
<1>1. /\ Finalize(b).final
      /\ Finalize(b).hdrCount = b.count
      /\ Finalize(b).count = b.count
      /\ Finalize(b).mem = b.mem
      /\ Finalize(b).txId = b.txId
      /\ Finalize(b).hdrTx = b.txId
  BY DEF Finalize, Buffer
<1>2. ops = [i \in 1 .. Len(ops) |-> ops[i]]
  OBVIOUS
<1>3. Records(Finalize(b)) = [i \in 1 .. Len(ops) |-> b.mem[i]]
  BY <1>1 DEF Records
<1>  QED
  BY <1>1, <1>2, <1>3

\* A reset buffer passes the assertions of the next beginTransaction.
LEMMA ResetFacts ==
  ASSUME NEW b \in Buffer
  PROVE  IsClear(Reset(b)) /\ Reset(b).txId = 0
BY DEF Reset, ClearLog, IsClear, Buffer

\* Commit and abort hand a finalized buffer over, or reset it when there is no ring.
LEMMA EndTxRing ==
  ASSUME RingInv, TypeOK', apc = "open",
         NEW b \in Buffer, NEW ops \in Seq(Ops), EndTx(b, ops),
         b.count = Len(ops), \A i \in 1 .. Len(ops) : b.mem[i] = ops[i]
  PROVE  RingInv'
<1>  DEFINE i0 == Slot(curSeq)
<1>1. /\ i0 \in SlotIds
      /\ \A t \in next .. cursor : Slot(t) # i0
  BY OpenSlot
<1>2. apc' = "idle" /\ UNCHANGED <<replicated, claimed, next, ppc, avail, seq, fault>>
  BY DEF EndTx, pubVars
<1>3. /\ cursor \in Sequence /\ curSeq \in Sequence /\ next \in Nat
      /\ seq \in Sequence /\ avail \in Sequence
      /\ ended \in Seq(Message) /\ slots \in [SlotIds -> Buffer]
  BY DEF RingInv, TypeOK
<1>4. Finalize(b) \in Buffer
  BY BufferType
<1>5. CASE replicated
  <2>1. /\ slots' = [slots EXCEPT ![i0] = Finalize(b)]
        /\ cursor' = curSeq
        /\ curSeq' = -1
        /\ ended' = Append(ended, [id |-> b.txId, ops |-> ops])
    BY <1>5 DEF EndTx
  <2>2. curSeq = cursor + 1 /\ claimed = curSeq /\ claimed - Size <= seq
    BY <1>5 DEF RingInv, ClaimInv
  <2>3. /\ Len(ended') = Len(ended) + 1
        /\ ended'[Len(ended) + 1] = [id |-> b.txId, ops |-> ops]
        /\ \A k \in 1 .. Len(ended) : ended'[k] = ended[k]
    BY <2>1, <1>3
  <2>4. CountersInv'
    BY <1>2, <1>3, <2>1, <2>2, <2>3, PipelineAssumption
       DEF RingInv, CountersInv, Sequence
  <2>5. ClaimInv'
    BY <1>2, <1>5, <2>1, <2>2 DEF RingInv, ClaimInv
  <2>6. \A t \in next .. cursor + 1 : PublishedSlot(t)'
    <3>  SUFFICES ASSUME NEW t \in next .. cursor + 1 PROVE PublishedSlot(t)'
      OBVIOUS
    <3>1. EndedIndex(t)' = EndedIndex(t)
      BY <1>3, <2>1, <2>2, <2>3 DEF EndedIndex, Sequence
    <3>2. CASE t = cursor + 1
      <4>1. EndedIndex(t) = Len(ended) + 1
        BY <1>3, <3>2 DEF EndedIndex, Sequence
      <4>2. slots'[Slot(t)] = Finalize(b)
        BY <1>1, <1>3, <2>1, <2>2, <3>2
      <4>  QED
        BY <3>1, <4>1, <4>2, <2>3, RecordsOfFinal DEF PublishedSlot, Slot
    <3>3. CASE t \in next .. cursor
      <4>1. EndedIndex(t) \in 1 .. Len(ended)
        BY <1>3, <3>3 DEF EndedIndex, RingInv, CountersInv, Sequence
      <4>2. slots'[Slot(t)] = slots[Slot(t)]
        BY <1>1, <1>3, <2>1, <3>3, SlotType DEF Sequence
      <4>3. PublishedSlot(t)
        BY <3>3 DEF RingInv, SlotsInv
      <4>  QED
        BY <3>1, <4>1, <4>2, <4>3, <2>3 DEF PublishedSlot, Slot
    <3>  QED
      BY <1>3, <3>2, <3>3 DEF Sequence
  <2>7. ASSUME NEW i \in SlotIds
        PROVE  InUse(i)' \/ (IsClear(slots[i])' /\ (slots[i].txId = 0)')
    <3>1. CASE i = i0
      <4>1. curSeq \in next .. curSeq
        BY <1>3, <2>2 DEF RingInv, CountersInv, Sequence
      <4>  QED
        BY <4>1, <3>1, <1>2, <2>1 DEF InUse, Slot
    <3>2. CASE i # i0
      <4>1. InUse(i) \/ (IsClear(slots[i]) /\ slots[i].txId = 0)
        BY DEF RingInv, SlotsInv
      <4>2. InUse(i) => InUse(i)'
        <5>1. \A t \in next .. cursor : t \in next .. curSeq
          BY <1>3, <2>2 DEF Sequence
        <5>  QED
          BY <5>1, <1>2, <2>1, <3>2 DEF InUse, Slot
      <4>3. slots'[i] = slots[i]
        BY <1>3, <2>1, <3>2
      <4>  QED
        BY <4>1, <4>2, <4>3 DEF IsClear
    <3>  QED
      BY <3>1, <3>2
  <2>8. SlotsInv'
    BY <1>2, <2>1, <2>2, <2>6, <2>7 DEF SlotsInv
  <2>  QED
    BY <1>2, <2>4, <2>5, <2>8 DEF RingInv, HandoverAsserts
<1>6. CASE ~replicated
  <2>1. /\ slots' = [slots EXCEPT ![i0] = Reset(Finalize(b))]
        /\ UNCHANGED <<cursor, curSeq, ended>>
    BY <1>6 DEF EndTx
  <2>2. cursor = -1
    BY <1>6 DEF RingInv, ClaimInv
  <2>3. CountersInv' /\ ClaimInv'
    BY <1>2, <1>6, <2>1 DEF RingInv, CountersInv, ClaimInv
  <2>4. ASSUME NEW i \in SlotIds
        PROVE  IsClear(slots[i])' /\ (slots[i].txId = 0)'
    <3>1. CASE i = i0
      <4>1. slots'[i] = Reset(Finalize(b))
        BY <1>3, <2>1, <3>1
      <4>  QED
        BY <4>1, <1>4, ResetFacts DEF IsClear
    <3>2. CASE i # i0
      <4>1. ~InUse(i)
        BY <1>3, <2>2, <3>2 DEF InUse
      <4>2. IsClear(slots[i]) /\ slots[i].txId = 0
        BY <4>1 DEF RingInv, SlotsInv
      <4>3. slots'[i] = slots[i]
        BY <1>3, <2>1, <3>2
      <4>  QED
        BY <4>2, <4>3 DEF IsClear
    <3>  QED
      BY <3>1, <3>2
  <2>5. SlotsInv'
    BY <1>2, <1>3, <2>1, <2>2, <2>4 DEF SlotsInv
  <2>  QED
    BY <1>2, <2>3, <2>5 DEF RingInv, HandoverAsserts
<1>  QED
  BY <1>5, <1>6

\* What OnEvent does once its assertions have passed.
EventSent ==
  LET b == slots[Slot(next)] IN
    /\ prevTxId + 1 = b.txId
    /\ prevTxId' = b.txId
    /\ sent' = Append(sent, [id |-> b.hdrTx, ops |-> Records(b)])
    /\ slots' = [slots EXCEPT ![Slot(next)] = Reset(b)]
    /\ next' = next + 1
    /\ UNCHANGED <<ppc, avail, appVars, cursor, seq, running, alerted, fault>>

\* The event OnEvent is called for has been published, so that only the check of
\* its transaction id can fail.
LEMMA OnEventCases ==
  ASSUME RingInv, OnEvent
  PROVE  /\ next \in next .. cursor
         /\ PublishedSlot(next)
         /\ \/ Fail("id_mismatch") /\ prevTxId + 1 # slots[Slot(next)].txId
            \/ EventSent
<1>1. next \in next .. cursor
  BY DEF RingInv, TypeOK, CountersInv, OnEvent, Sequence
<1>2. PublishedSlot(next)
  BY <1>1 DEF RingInv, SlotsInv
<1>3. slots[Slot(next)] \in Buffer
  BY SlotType DEF RingInv, TypeOK
<1>4. /\ slots[Slot(next)].final
      /\ ~(slots[Slot(next)].hdrCount > slots[Slot(next)].count)
  BY <1>2, <1>3 DEF PublishedSlot, Buffer
<1>  QED
  BY <1>1, <1>2, <1>4 DEF OnEvent, EventSent

\* Handling an event resets its slot and leaves the others to their owners.
LEMMA OnEventRing ==
  ASSUME RingInv, OnEvent, TypeOK'
  PROVE  RingInv'
<1>1. CASE Fail("id_mismatch")
  BY <1>1, FailRing
<1>2. CASE EventSent
  <2>  DEFINE b == slots[Slot(next)]
  <2>1. /\ slots' = [slots EXCEPT ![Slot(next)] = Reset(b)]
        /\ next' = next + 1
        /\ UNCHANGED <<ppc, avail, apc, replicated, curSeq, claimed, curOps,
                       ended, cursor, seq, fault>>
    BY <1>2 DEF EventSent, appVars
  <2>2. /\ next \in Nat /\ cursor \in Int /\ seq \in Int /\ avail \in Int
        /\ slots \in [SlotIds -> Buffer]
        /\ Slot(next) \in SlotIds /\ b \in Buffer
    BY SlotType DEF RingInv, TypeOK, Sequence
  <2>3. ppc = "events" /\ next <= avail /\ next <= cursor
    BY <2>2 DEF OnEvent, RingInv, CountersInv
  <2>4. CountersInv'
    BY <2>1, <2>2, <2>3 DEF RingInv, CountersInv
  <2>5. ClaimInv'
    BY <2>1 DEF RingInv, ClaimInv
  <2>6. \A i \in SlotIds : i # Slot(next) => slots'[i] = slots[i]
    BY <2>1, <2>2
  <2>7. slots'[Slot(next)] = Reset(b)
    BY <2>1, <2>2
  <2>8. \A t \in next + 1 .. cursor : t \in next .. cursor /\ Slot(t) # Slot(next)
    <3>  SUFFICES ASSUME NEW t \in next + 1 .. cursor
                  PROVE  t \in next .. cursor /\ Slot(t) # Slot(next)
      OBVIOUS
    <3>1. t \in Int /\ next < t /\ t - next < Size
      BY <2>2, PipelineAssumption DEF RingInv, CountersInv
    <3>  QED
      BY <2>2, <3>1, SlotDistinct
  <2>9. \A t \in next + 1 .. cursor : PublishedSlot(t)'
    <3>  SUFFICES ASSUME NEW t \in next + 1 .. cursor PROVE PublishedSlot(t)'
      OBVIOUS
    <3>1. PublishedSlot(t)
      BY <2>8 DEF RingInv, SlotsInv
    <3>2. slots'[Slot(t)] = slots[Slot(t)]
      BY <2>2, <2>6, <2>8, SlotType
    <3>  QED
      BY <2>1, <3>1, <3>2 DEF PublishedSlot, EndedIndex, Slot
  <2>10. ASSUME apc # "stopped", NEW i \in SlotIds
         PROVE  InUse(i)' \/ (IsClear(slots[i])' /\ (slots[i].txId = 0)')
    <3>1. CASE i = Slot(next)
      BY <3>1, <2>2, <2>7, ResetFacts DEF IsClear
    <3>2. CASE i # Slot(next)
      <4>1. InUse(i) \/ (IsClear(slots[i]) /\ slots[i].txId = 0)
        BY <2>10 DEF RingInv, SlotsInv
      <4>2. InUse(i) => InUse(i)'
        <5>1. \A t \in next .. cursor : t = next \/ t \in next + 1 .. cursor
          BY <2>2
        <5>  QED
          BY <5>1, <2>1, <3>2 DEF InUse, Slot
      <4>  QED
        BY <4>1, <4>2, <2>6, <3>2 DEF IsClear
    <3>  QED
      BY <3>1, <3>2
  <2>11. ASSUME apc = "open" PROVE slots'[Slot(curSeq)] = slots[Slot(curSeq)]
    <3>1. next \in next .. cursor
      BY <2>2, <2>3
    <3>  QED
      BY <2>6, <2>11, <3>1, OpenSlot
  <2>12. SlotsInv'
    BY <2>1, <2>9, <2>10, <2>11 DEF RingInv, SlotsInv, Slot
  <2>  QED
    BY <2>1, <2>4, <2>5, <2>12 DEF RingInv, HandoverAsserts
<1>  QED
  BY <1>1, <1>2, OnEventCases

\* A second begin() while a transaction is open fails an assertion.
LEMMA BeginAnotherFails ==
  ASSUME OpenHasId, BeginAnother
  PROVE  Fail("second_begin")
BY DEF OpenHasId, BeginAnother, IsFresh

\* An open transaction keeps the id it was given until it ends.
LEMMA OpenHasIdStep == RingInv /\ OpenHasId /\ [Next]_vars => OpenHasId'
<1>  SUFFICES ASSUME RingInv, OpenHasId, [Next]_vars PROVE OpenHasId'
  OBVIOUS
<1>0. TypeOK
  BY DEF RingInv
<1>1. ASSUME NEW s \in Sequence, TxStarted(s) PROVE OpenHasId'
  <2>1. Slot(s) \in SlotIds /\ slots[Slot(s)] \in Buffer /\ slots \in [SlotIds -> Buffer]
    BY <1>0, SlotType DEF TypeOK, Sequence
  <2>2. slots'[Slot(s)].txId = nextTxId
    BY <1>1, <2>1 DEF TxStarted, SetTransactionId, Buffer
  <2>  QED
    BY <1>0, <1>1, <2>2 DEF TxStarted, OpenHasId, TypeOK, Slot
<1>2. CASE BeginReuse
  BY <1>0, <1>1, <1>2, StartTxRing DEF BeginReuse, RingInv, ClaimInv, TypeOK
<1>3. CASE ClaimSlot
  BY <1>0, <1>1, <1>3, StartTxRing DEF ClaimSlot, SlotIsFree, RingInv, ClaimInv, TypeOK
<1>4. ASSUME NEW op \in Ops, LogOp(op) PROVE OpenHasId'
  <2>  DEFINE b == slots[Slot(curSeq)]
  <2>1. Slot(curSeq) \in SlotIds /\ b \in Buffer /\ slots \in [SlotIds -> Buffer]
    BY <1>0, <1>4, OpenSlot DEF LogOp, TypeOK
  <2>2. CASE Fail("overflow")
    BY <2>2 DEF Fail, OpenHasId
  <2>3. CASE /\ slots' = [slots EXCEPT ![Slot(curSeq)] = AppendLog(b, op)]
             /\ UNCHANGED <<apc, nextTxId, curSeq>>
    <3>1. slots'[Slot(curSeq)].txId = b.txId
      BY <2>1, <2>3 DEF AppendLog, Buffer
    <3>  QED
      BY <2>3, <3>1 DEF OpenHasId, Slot
  <2>  QED
    BY <1>4, <2>2, <2>3 DEF LogOp
<1>5. CASE OnEvent
  <2>1. CASE Fail("id_mismatch")
    BY <2>1 DEF Fail, OpenHasId
  <2>2. CASE EventSent
    <3>1. UNCHANGED <<apc, nextTxId, curSeq>>
      BY <2>2 DEF EventSent, appVars
    <3>2. ASSUME apc = "open" PROVE slots'[Slot(curSeq)] = slots[Slot(curSeq)]
      <4>1. Slot(curSeq) \in SlotIds /\ Slot(next) # Slot(curSeq)
        BY <1>5, <3>2, OpenSlot, OnEventCases
      <4>  QED
        BY <1>0, <2>2, <4>1 DEF EventSent, TypeOK
    <3>  QED
      BY <3>1, <3>2 DEF OpenHasId, Slot
  <2>  QED
    BY <1>5, <2>1, <2>2, OnEventCases
<1>6. CASE BeginAnother
  BY <1>6, BeginAnotherFails DEF Fail, OpenHasId
<1>7. ASSUME nextTxId' = nextTxId, apc' # "open" PROVE OpenHasId'
  BY <1>7 DEF OpenHasId
<1>8. ASSUME NEW m \in BOOLEAN, Open(m) PROVE OpenHasId'
  BY <1>7, <1>8 DEF Open
<1>9. CASE Commit \/ Abort
  BY <1>7, <1>9 DEF Commit, Abort, EndTx
<1>10. CASE BeginClaim \/ WaitStart \/ WaitDone \/ Close \/ Halt \/ Alert \/ Join
  BY <1>7, <1>10 DEF BeginClaim, WaitStart, WaitDone, Close, Halt, Alert, Join
<1>11. CASE \/ RunStart \/ ClearAlert \/ WaitFor \/ CheckAlert \/ CheckRunning
            \/ EndBatch \/ UNCHANGED vars
  <2>1. UNCHANGED <<apc, nextTxId, curSeq, slots>>
    BY <1>11 DEF RunStart, ClearAlert, WaitFor, CheckAlert, CheckRunning, EndBatch,
                 vars, appVars, ringVars
  <2>  QED
    BY <2>1 DEF OpenHasId, Slot
<1>  QED
  BY <1>2, <1>3, <1>4, <1>5, <1>6, <1>8, <1>9, <1>10, <1>11 DEF Next, AppNext, PubNext

\* Every step keeps the division of the ring between the two threads.
LEMMA RingStep == RingInv /\ OpenHasId /\ [Next]_vars => RingInv'
<1>  SUFFICES ASSUME RingInv, OpenHasId, [Next]_vars PROVE RingInv'
  OBVIOUS
<1>0. TypeOK' /\ TypeOK
  BY TypeStep DEF RingInv
<1>1. ASSUME NEW m \in BOOLEAN, Open(m) PROVE RingInv'
  <2>1. CountersInv'
    BY <1>0, <1>1, PipelineAssumption DEF Open, CountersInv, TypeOK
  <2>2. ClaimInv'
    BY <1>1, PipelineAssumption DEF Open, ClaimInv
  <2>3. SlotsInv'
    BY <1>1 DEF Open, SlotsInv, NewBuffer, IsClear
  <2>  QED
    BY <1>0, <1>1, <2>1, <2>2, <2>3 DEF RingInv, HandoverAsserts, Open
<1>2. CASE BeginReuse
  BY <1>0, <1>2, StartTxRing DEF BeginReuse, RingInv, ClaimInv, TypeOK
<1>2a. CASE BeginAnother
  BY <1>2a, BeginAnotherFails, FailRing
<1>3. CASE ClaimSlot
  BY <1>0, <1>3, StartTxRing DEF ClaimSlot, SlotIsFree, RingInv, ClaimInv, TypeOK
<1>4. ASSUME NEW op \in Ops, LogOp(op) PROVE RingInv'
  BY <1>0, <1>4, LogOpRing
<1>5. CASE Commit
  <2>1. slots[Slot(curSeq)] \in Buffer
    BY <1>5, OpenSlot DEF Commit
  <2>  QED
    BY <1>0, <1>5, <2>1, EndTxRing DEF Commit, RingInv, SlotsInv, TypeOK
<1>6. CASE Abort
  <2>1. slots[Slot(curSeq)] \in Buffer
    BY <1>6, OpenSlot DEF Abort
  <2>2. /\ ClearLog(slots[Slot(curSeq)]) \in Buffer
        /\ ClearLog(slots[Slot(curSeq)]).count = 0
    BY <2>1, BufferType DEF ClearLog, Buffer
  <2>  DEFINE c == ClearLog(slots[Slot(curSeq)])
              none == <<>>
  <2>3. /\ none \in Seq(Ops) /\ Len(none) = 0
        /\ \A i \in 1 .. Len(none) : c.mem[i] = none[i]
    OBVIOUS
  <2>4. c \in Buffer /\ c.count = Len(none)
    BY <2>2, <2>3
  <2>5. apc = "open" /\ EndTx(c, none)
    BY <1>6 DEF Abort
  <2>  HIDE DEF c, none
  <2>  QED
    BY <1>0, <2>3, <2>4, <2>5, EndTxRing
<1>7. CASE OnEvent
  BY <1>0, <1>7, OnEventRing
<1>8. CASE BeginClaim
  <2>1. CountersInv' /\ ClaimInv'
    BY <1>0, <1>8
       DEF BeginClaim, pubVars, ringVars, RingInv, CountersInv, ClaimInv, TypeOK,
           Sequence
  <2>2. SlotsInv'
    BY <1>8, SlotsFrame DEF BeginClaim, pubVars, ringVars, RingInv
  <2>  QED
    BY <1>0, <1>8, <2>1, <2>2 DEF BeginClaim, RingInv, HandoverAsserts
<1>9. CASE WaitStart \/ WaitDone \/ Close \/ Halt \/ Alert \/ Join
  <2>  USE DEF WaitStart, WaitDone, Close, Halt, Alert, Join
  <2>1. CountersInv' /\ ClaimInv'
    BY <1>0, <1>9 DEF pubVars, ringVars, RingInv, CountersInv, ClaimInv
  <2>2. SlotsInv'
    BY <1>9, SlotsFrame DEF pubVars, ringVars, RingInv
  <2>  QED
    BY <1>0, <1>9, <2>1, <2>2 DEF RingInv, HandoverAsserts
<1>10. CASE \/ RunStart \/ ClearAlert \/ WaitFor \/ CheckAlert \/ CheckRunning
            \/ EndBatch
  <2>  USE DEF RunStart, ClearAlert, WaitFor, CheckAlert, CheckRunning, EndBatch
  <2>1. next' = next
    BY <1>0, <1>10 DEF RingInv, CountersInv
  <2>2. CountersInv' /\ ClaimInv'
    <3>  USE <1>0, <2>1
         DEF appVars, ringVars, RingInv, CountersInv, ClaimInv, TypeOK, Sequence
    <3>1. CASE EndBatch
      BY <3>1, PipelineAssumption
    <3>2. CASE WaitFor
      BY <3>2
    <3>3. CASE CheckAlert
      BY <3>3
    <3>4. CASE CheckRunning
      BY <3>4
    <3>5. CASE RunStart
      BY <3>5
    <3>6. CASE ClearAlert
      BY <3>6
    <3>  QED
      BY <1>10, <3>1, <3>2, <3>3, <3>4, <3>5, <3>6
  <2>3. SlotsInv'
    <3>1. UNCHANGED <<slots, cursor, ended, curSeq, curOps, apc>>
      BY <1>10 DEF appVars, ringVars
    <3>2. apc # "stopped"
      BY <1>10 DEF RingInv, CountersInv
    <3>  QED
      BY <2>1, <3>1, <3>2, SlotsFrame DEF RingInv
  <2>  QED
    BY <1>0, <1>10, <2>2, <2>3 DEF RingInv, HandoverAsserts
<1>11. CASE UNCHANGED vars
  <2>1. CountersInv' /\ ClaimInv'
    BY <1>11 DEF vars, appVars, pubVars, ringVars, RingInv, CountersInv, ClaimInv
  <2>2. SlotsInv'
    BY <1>11, SlotsFrame DEF vars, appVars, pubVars, ringVars, RingInv
  <2>  QED
    BY <1>0, <1>11, <2>1, <2>2 DEF vars, RingInv, HandoverAsserts
<1>  QED
  BY <1>1, <1>2, <1>2a, <1>3, <1>4, <1>5, <1>6, <1>7, <1>8, <1>9, <1>10, <1>11
     DEF Next, AppNext, PubNext

\* RingInv holds of every state, whatever the master options and whether or not
\* the application drains, and a second begin() never takes over the event of the
\* open transaction.
THEOREM RingInvariant == Spec => [](RingInv /\ OpenHasId)
<1>1. Init => OpenHasId
  BY DEF Init, OpenHasId
<1>  QED
  BY <1>1, RingInit, RingStep, OpenHasIdStep, PTL DEF Spec

\* A begin() never gets a slot that holds an unsent transaction.
THEOREM RingOwnershipHolds == Spec => []RingOwnership
<1>1. RingInv => RingOwnership
  <2>1. ASSUME RingInv, apc = "claiming", SlotIsFree
        PROVE  \A s \in next .. cursor : Slot(s) # Slot(claimed)
    BY <2>1, FreshSlot DEF RingInv, TypeOK, ClaimInv, SlotIsFree
  <2>2. RingInv /\ apc = "open" => \A s \in next .. cursor : Slot(s) # Slot(curSeq)
    BY OpenSlot
  <2>  QED
    BY <2>1, <2>2 DEF RingOwnership
<1>  QED
  BY <1>1, RingInvariant, PTL

\* A published transaction waits in its slot unharmed until it is sent.
THEOREM PendingIntactHolds == Spec => []PendingIntact
<1>1. RingInv => PendingIntact
  <2>  SUFFICES ASSUME RingInv, NEW s \in next .. cursor
                PROVE  LET b == slots[Slot(s)] IN
                         /\ b.final
                         /\ b.txId = ended[EndedIndex(s)].id
                         /\ [id |-> b.hdrTx, ops |-> Records(b)]
                              = ended[EndedIndex(s)]
    BY DEF PendingIntact
  <2>1. PublishedSlot(s)
    BY DEF RingInv, SlotsInv
  <2>2. ended[EndedIndex(s)] \in Message
    BY DEF RingInv, TypeOK, CountersInv, EndedIndex, Sequence
  <2>  QED
    BY <2>1, <2>2 DEF PublishedSlot, Message
<1>  QED
  BY <1>1, RingInvariant, PTL

\* The assertions of begin() on the event it obtains, and those of OnEvent() on
\* the buffer it sends, cannot fail.
THEOREM HandoverAssertsHold == Spec => []HandoverAsserts
<1>1. RingInv => HandoverAsserts
  BY DEF RingInv
<1>  QED
  BY <1>1, RingInvariant, PTL

-----------------------------------------------------------------------------
(***************************************************************************)
(* What was sent is a prefix of what has ended                             *)
(***************************************************************************)
\* An element of a sequence of messages has an id.
LEMMA EndedIds ==
  ASSUME NEW q \in Seq(Message)
  PROVE  \A i \in 1 .. Len(q) : q[i] \in Message /\ q[i].id \in Nat
<1>1. \A i \in 1 .. Len(q) : q[i] \in Message
  OBVIOUS
<1>2. \A m \in Message : m.id \in Nat
  BY DEF Message
<1>  QED
  BY <1>1, <1>2

\* A step that leaves the ended and the sent transactions and the ids alone.
LEMMA PrefixFrame ==
  ASSUME PrefixInv,
         UNCHANGED <<sent, ended, prevTxId, nextTxId>>,
         apc' = "open" =>
           /\ apc = "open"
           /\ slots'[Slot(curSeq')].txId = slots[Slot(curSeq)].txId
  PROVE  PrefixInv'
<1>1. /\ prevTxId' = Len(sent') /\ SentInOrder'
      /\ \A i \in 1 .. Len(ended') : 0 < ended'[i].id /\ ended'[i].id < nextTxId'
      /\ \A i, j \in 1 .. Len(ended') : i < j => ended'[i].id < ended'[j].id
  BY DEF PrefixInv, SentInOrder
<1>2. ASSUME apc' = "open"
      PROVE  LET id == slots'[Slot(curSeq')].txId IN
               id < nextTxId' /\ \A i \in 1 .. Len(ended') : ended'[i].id < id
  BY <1>2 DEF PrefixInv
<1>  QED
  BY <1>1, <1>2 DEF PrefixInv, Slot

\* Starting a transaction gives it an id above all others.
LEMMA PrefixStartTx ==
  ASSUME RingInv, PrefixInv, NEW s \in Sequence, TxStarted(s)
  PROVE  PrefixInv'
<1>1. Slot(s) \in SlotIds /\ slots \in [SlotIds -> Buffer] /\ slots[Slot(s)] \in Buffer
  BY SlotType DEF Sequence, RingInv, TypeOK
<1>2. slots'[Slot(s)].txId = nextTxId
  BY <1>1 DEF TxStarted, SetTransactionId, Buffer
<1>3. /\ curSeq' = s /\ nextTxId' = nextTxId + 1
      /\ UNCHANGED <<ended, sent, prevTxId>>
  BY DEF TxStarted, pubVars
<1>4. ended \in Seq(Message) /\ nextTxId \in Nat
  BY DEF RingInv, TypeOK
<1>5. \A i \in 1 .. Len(ended) : ended[i].id \in Nat
  BY <1>4, EndedIds
<1>6. \A i \in 1 .. Len(ended) : 0 < ended[i].id /\ ended[i].id < nextTxId + 1
  BY <1>4, <1>5 DEF PrefixInv
<1>7. SentInOrder'
  BY <1>3 DEF PrefixInv, SentInOrder
<1>8. slots'[Slot(s)].txId < nextTxId'
  BY <1>2, <1>3, <1>4
<1>  QED
  BY <1>2, <1>3, <1>6, <1>7, <1>8 DEF PrefixInv, Slot

\* Ending a transaction appends the highest id to the ended ones.
LEMMA PrefixEndTx ==
  ASSUME RingInv, OpenHasId, PrefixInv, apc = "open",
         NEW b \in Buffer, NEW ops \in Seq(Ops), EndTx(b, ops),
         b.txId = slots[Slot(curSeq)].txId
  PROVE  PrefixInv'
<1>1. /\ apc' = "idle"
      /\ UNCHANGED <<nextTxId, prevTxId, sent>>
      /\ ended' = ended \/ ended' = Append(ended, [id |-> b.txId, ops |-> ops])
  BY DEF EndTx, pubVars
<1>2. ended \in Seq(Message) /\ nextTxId \in Nat /\ sent \in Seq(Message)
  BY DEF RingInv, TypeOK
<1>3. CASE ended' = ended
  BY <1>1, <1>3, PrefixFrame
<1>4. CASE ended' = Append(ended, [id |-> b.txId, ops |-> ops])
  <2>1. /\ Len(ended') = Len(ended) + 1
        /\ ended'[Len(ended) + 1] = [id |-> b.txId, ops |-> ops]
        /\ \A k \in 1 .. Len(ended) : ended'[k] = ended[k]
    BY <1>2, <1>4
  <2>2. /\ b.txId \in Nat /\ 0 < b.txId /\ b.txId < nextTxId
        /\ \A i \in 1 .. Len(ended) : ended[i].id < b.txId
    BY DEF Buffer, OpenHasId, PrefixInv
  <2>3. \A i \in 1 .. Len(ended') : i \in 1 .. Len(ended) \/ i = Len(ended) + 1
    BY <1>2, <2>1
  <2>4. \A i \in 1 .. Len(ended') : 0 < ended'[i].id /\ ended'[i].id < nextTxId
    BY <2>1, <2>2, <2>3 DEF PrefixInv
  <2>5. ASSUME NEW i \in 1 .. Len(ended'), NEW j \in 1 .. Len(ended'), i < j
        PROVE  ended'[i].id < ended'[j].id
    <3>1. i \in 1 .. Len(ended)
      BY <1>2, <2>1, <2>5
    <3>  QED
      BY <2>1, <2>2, <2>3, <2>5, <3>1 DEF PrefixInv
  <2>6. SentInOrder'
    <3>1. /\ Len(sent) \in Nat /\ Len(ended) \in Nat /\ Len(sent) <= Len(ended)
          /\ \A i \in 1 .. Len(sent) : sent[i] = ended[i] /\ sent[i].id = i
      BY <1>2 DEF PrefixInv, SentInOrder
    <3>2. \A i \in 1 .. Len(sent) : i \in 1 .. Len(ended)
      BY <3>1
    <3>3. Len(sent') <= Len(ended')
      BY <1>1, <2>1, <3>1
    <3>4. \A i \in 1 .. Len(sent') : sent'[i] = ended'[i] /\ sent'[i].id = i
      BY <1>1, <2>1, <3>1, <3>2
    <3>  QED
      BY <3>3, <3>4 DEF SentInOrder
  <2>  QED
    BY <1>1, <2>4, <2>5, <2>6 DEF PrefixInv
<1>  QED
  BY <1>1, <1>3, <1>4

\* OnEvent's check of the id lets only the first transaction not yet sent pass.
LEMMA PrefixOnEvent ==
  ASSUME RingInv, PrefixInv, OnEvent
  PROVE  PrefixInv'
<1>  DEFINE k == EndedIndex(next)
            b == slots[Slot(next)]
            msg == [id |-> b.hdrTx, ops |-> Records(b)]
<1>1. next \in next .. cursor /\ PublishedSlot(next)
  BY OnEventCases
<1>2. /\ cursor \in Int /\ next \in Nat /\ prevTxId \in Nat
      /\ ended \in Seq(Message) /\ sent \in Seq(Message)
  BY DEF RingInv, TypeOK, Sequence
<1>3. k \in 1 .. Len(ended)
  BY <1>1, <1>2 DEF EndedIndex, RingInv, CountersInv
<1>4. ended[k] \in Message /\ b.txId = ended[k].id /\ msg = ended[k]
  <2>1. ended[k] \in Message
    BY <1>2, <1>3, EndedIds
  <2>  QED
    BY <1>1, <2>1 DEF PublishedSlot, Message
<1>5. CASE Fail("id_mismatch")
  <2>1. UNCHANGED <<sent, ended, prevTxId, nextTxId>> /\ apc' # "open"
    BY <1>5 DEF Fail
  <2>  QED
    BY <2>1, PrefixFrame
<1>6. CASE EventSent
  <2>1. /\ prevTxId' = b.txId /\ sent' = Append(sent, msg)
        /\ UNCHANGED <<apc, ended, nextTxId, curSeq>>
        /\ b.txId = prevTxId + 1
    BY <1>6 DEF EventSent, appVars
  <2>2. ended[k].id = Len(sent) + 1 /\ Len(sent) \in Nat /\ Len(ended) \in Nat
    BY <1>2, <1>4, <2>1 DEF PrefixInv
  <2>3. k > Len(sent)
    <3>  SUFFICES ASSUME k <= Len(sent) PROVE FALSE
      BY <1>3, <2>2
    <3>1. k \in 1 .. Len(sent)
      BY <1>3, <2>2
    <3>2. ended[k].id = k
      BY <3>1 DEF PrefixInv, SentInOrder
    <3>  QED
      BY <1>3, <2>2, <3>1, <3>2
  <2>4. k = Len(sent) + 1
    <3>  SUFFICES ASSUME k > Len(sent) + 1 PROVE FALSE
      BY <1>3, <2>2, <2>3
    <3>  DEFINE m == Len(sent) + 1
    <3>1. m \in 1 .. Len(ended) /\ m < k
      BY <1>3, <2>2
    <3>2. ended[m].id \in Nat /\ ended[m].id < Len(sent) + 1 /\ ended[m].id > 0
      BY <1>2, <1>3, <2>2, <3>1, EndedIds DEF PrefixInv
    <3>3. CASE Len(sent) = 0
      BY <3>2, <3>3
    <3>4. CASE Len(sent) > 0
      <4>1. Len(sent) \in 1 .. Len(ended) /\ Len(sent) \in 1 .. Len(sent)
            /\ Len(sent) < m
        BY <2>2, <3>1, <3>4
      <4>2. ended[Len(sent)].id = Len(sent)
        BY <4>1 DEF PrefixInv, SentInOrder
      <4>3. ended[Len(sent)].id < ended[m].id
        BY <3>1, <4>1 DEF PrefixInv
      <4>  QED
        BY <2>2, <3>2, <4>2, <4>3
    <3>  QED
      BY <2>2, <3>3, <3>4
  <2>5. /\ Len(sent') = k /\ sent'[k] = ended[k]
        /\ \A i \in 1 .. Len(sent) : sent'[i] = sent[i]
    BY <1>2, <1>4, <2>1, <2>4
  <2>6. SentInOrder'
    <3>1. \A i \in 1 .. k : i = k \/ i \in 1 .. Len(sent)
      BY <2>2, <2>4
    <3>  QED
      BY <1>3, <2>1, <2>2, <2>4, <2>5, <3>1 DEF PrefixInv, SentInOrder
  <2>7. apc = "open" => slots'[Slot(curSeq)] = slots[Slot(curSeq)]
    <3>  SUFFICES ASSUME apc = "open"
                  PROVE  slots'[Slot(curSeq)] = slots[Slot(curSeq)]
      OBVIOUS
    <3>1. Slot(next) # Slot(curSeq) /\ Slot(curSeq) \in SlotIds
      BY <1>1, OpenSlot
    <3>  QED
      BY <1>6, <3>1 DEF EventSent, RingInv, TypeOK
  <2>8. prevTxId' = Len(sent')
    BY <1>4, <2>1, <2>2, <2>4, <2>5
  <2>  HIDE DEF k, msg, b
  <2>  QED
    BY <2>1, <2>6, <2>7, <2>8 DEF PrefixInv, Slot
<1>  QED
  BY <1>5, <1>6, OnEventCases

\* Every step keeps the sent transactions a prefix of the ended ones.
LEMMA PrefixStep == RingInv /\ OpenHasId /\ PrefixInv /\ [Next]_vars => PrefixInv'
<1>  SUFFICES ASSUME RingInv, OpenHasId, PrefixInv, [Next]_vars PROVE PrefixInv'
  OBVIOUS
<1>0. TypeOK
  BY DEF RingInv
<1>1. ASSUME UNCHANGED <<sent, ended, prevTxId, nextTxId>>, apc' # "open"
      PROVE  PrefixInv'
  BY <1>1, PrefixFrame
<1>2. CASE BeginReuse
  BY <1>0, <1>2, StartTxRing, PrefixStartTx DEF BeginReuse, RingInv, ClaimInv, TypeOK
<1>3. CASE ClaimSlot
  BY <1>0, <1>3, StartTxRing, PrefixStartTx
     DEF ClaimSlot, SlotIsFree, RingInv, ClaimInv, TypeOK
<1>4. ASSUME NEW op \in Ops, LogOp(op) PROVE PrefixInv'
  <2>  DEFINE b == slots[Slot(curSeq)]
  <2>1. Slot(curSeq) \in SlotIds /\ b \in Buffer /\ slots \in [SlotIds -> Buffer]
    BY <1>0, <1>4, OpenSlot DEF LogOp, TypeOK
  <2>2. CASE Fail("overflow")
    BY <1>1, <2>2 DEF Fail
  <2>3. CASE /\ slots' = [slots EXCEPT ![Slot(curSeq)] = AppendLog(b, op)]
             /\ UNCHANGED <<apc, nextTxId, curSeq, ended, pubVars>>
    <3>1. slots'[Slot(curSeq)].txId = b.txId
      BY <2>1, <2>3 DEF AppendLog, Buffer
    <3>2. UNCHANGED <<apc, curSeq, sent, ended, prevTxId, nextTxId>>
      BY <2>3 DEF pubVars
    <3>3. slots'[Slot(curSeq')].txId = slots[Slot(curSeq)].txId
      BY <3>1, <3>2
    <3>  QED
      BY <3>2, <3>3, PrefixFrame
  <2>  QED
    BY <1>4, <2>2, <2>3 DEF LogOp
<1>5. CASE Commit
  <2>1. apc = "open" /\ EndTx(slots[Slot(curSeq)], curOps)
    BY <1>5 DEF Commit
  <2>2. slots[Slot(curSeq)] \in Buffer /\ curOps \in Seq(Ops)
    BY <1>0, <2>1, OpenSlot DEF TypeOK
  <2>  QED
    BY <2>1, <2>2, PrefixEndTx
<1>6. CASE Abort
  <2>  DEFINE c == ClearLog(slots[Slot(curSeq)])
              none == <<>>
  <2>1. apc = "open" /\ EndTx(c, none)
    BY <1>6 DEF Abort
  <2>2. slots[Slot(curSeq)] \in Buffer /\ none \in Seq(Ops)
    BY <2>1, OpenSlot
  <2>3. c \in Buffer /\ c.txId = slots[Slot(curSeq)].txId
    BY <2>2, BufferType DEF ClearLog, Buffer
  <2>  HIDE DEF c, none
  <2>  QED
    BY <2>1, <2>2, <2>3, PrefixEndTx
<1>7. CASE OnEvent
  BY <1>7, PrefixOnEvent
<1>8. CASE BeginAnother
  BY <1>1, <1>8, BeginAnotherFails DEF Fail
<1>9. ASSUME NEW m \in BOOLEAN, Open(m) PROVE PrefixInv'
  BY <1>1, <1>9 DEF Open
<1>10. CASE BeginClaim \/ WaitStart \/ WaitDone \/ Close \/ Halt \/ Alert \/ Join
  BY <1>1, <1>10
     DEF BeginClaim, WaitStart, WaitDone, Close, Halt, Alert, Join, pubVars
<1>11. CASE \/ RunStart \/ ClearAlert \/ WaitFor \/ CheckAlert \/ CheckRunning
            \/ EndBatch \/ UNCHANGED vars
  <2>1. UNCHANGED <<apc, nextTxId, curSeq, slots, sent, ended, prevTxId>>
    BY <1>11 DEF RunStart, ClearAlert, WaitFor, CheckAlert, CheckRunning, EndBatch,
                 vars, appVars, pubVars, ringVars
  <2>  QED
    BY <2>1, PrefixFrame
<1>  QED
  BY <1>2, <1>3, <1>4, <1>5, <1>6, <1>7, <1>8, <1>9, <1>10, <1>11
     DEF Next, AppNext, PubNext

\* Whatever the application does, OnEvent sends a prefix of what was committed, in
\* commit order and with consecutive ids, however often the database is closed and
\* opened again.
THEOREM SentInOrderHolds == Spec => []SentInOrder
<1>1. Init => PrefixInv
  BY DEF Init, PrefixInv, SentInOrder
<1>2. PrefixInv => SentInOrder
  BY DEF PrefixInv
<1>  QED
  BY <1>1, <1>2, PrefixStep, RingInvariant, PTL DEF Spec

-----------------------------------------------------------------------------
(***************************************************************************)
(* An application that always opens a master and waits before it closes    *)
(***************************************************************************)
\* The part of OrderInv that a step keeps when it changes neither what was ended
\* nor what was sent nor the buffers.
LEMMA OrderFrame ==
  ASSUME OrderInv,
         UNCHANGED <<opens, replicated, sent, ended, cursor, next, prevTxId,
                     nextTxId, slots, curSeq>>,
         opens # 0, apc # "stopped",
         apc' = "open" <=> apc = "open",
         apc' = "waiting" => expected' = cursor,
         apc' \in {"claiming", "open"} => ~drained',
         drained' => Len(sent) = Len(ended),
         apc' \in {"halting", "alerting", "joining", "closed"} =>
           Len(sent) = Len(ended),
         fault' = fault
  PROVE  OrderInv'
BY DEF OrderInv, EndedIndex, Slot

\* A failed assertion that OrderInv allows.
LEMMA OrderOverflow ==
  ASSUME OrderInv, opens # 0, Fail("overflow") \/ Fail("second_begin")
  PROVE  OrderInv'
BY DEF Fail, ringVars, OrderInv, EndedIndex

\* Starting a transaction gives it the next id.
LEMMA OrderStartTx ==
  ASSUME RingInv, OrderInv, opens # 0, apc \in {"idle", "claiming"},
         NEW s \in Sequence, TxStarted(s)
  PROVE  OrderInv'
<1>1. Slot(s) \in SlotIds
  BY SlotType DEF Sequence
<1>2. slots[Slot(s)] \in Buffer /\ slots \in [SlotIds -> Buffer]
  BY <1>1 DEF RingInv, TypeOK
<1>3. slots'[Slot(s)].txId = nextTxId
  BY <1>1, <1>2 DEF TxStarted, SetTransactionId, Buffer
<1>4. nextTxId = Len(ended) + 1 /\ nextTxId \in Nat
  BY DEF OrderInv, RingInv, TypeOK
<1>5. /\ apc' = "open" /\ curSeq' = s /\ nextTxId' = nextTxId + 1 /\ ~drained'
      /\ UNCHANGED <<replicated, opens, ended, sent, prevTxId, next, cursor,
                     fault>>
  BY DEF TxStarted, pubVars
<1>6. nextTxId' = Len(ended) + 2 /\ slots'[Slot(s)].txId = nextTxId' - 1
  BY <1>3, <1>4, <1>5, <1>2 DEF RingInv, TypeOK
<1>  QED
  BY <1>5, <1>6
     DEF OrderInv, EndedIndex, Slot

\* Ending it appends it to the log with that id.
LEMMA OrderEndTx ==
  ASSUME RingInv, OrderInv, opens # 0, apc = "open",
         NEW b \in Buffer, NEW ops \in Seq(Ops), EndTx(b, ops),
         b.txId = slots[Slot(curSeq)].txId
  PROVE  OrderInv'
<1>1. replicated /\ ~drained
  BY DEF OrderInv, RingInv, TypeOK
<1>2. /\ cursor' = curSeq /\ apc' = "idle"
      /\ ended' = Append(ended, [id |-> b.txId, ops |-> ops])
      /\ UNCHANGED <<replicated, opens, drained, nextTxId, next, prevTxId, sent,
                     fault>>
  BY <1>1 DEF EndTx, pubVars
<1>3. curSeq = cursor + 1 /\ cursor \in Int /\ next \in Nat
  BY <1>1 DEF RingInv, ClaimInv, TypeOK, Sequence
<1>4. ended \in Seq(Message) /\ sent \in Seq(Message)
  BY DEF RingInv, TypeOK
<1>5. /\ Len(ended') = Len(ended) + 1
      /\ ended'[Len(ended) + 1] = [id |-> b.txId, ops |-> ops]
      /\ \A k \in 1 .. Len(ended) : ended'[k] = ended[k]
  BY <1>2, <1>4
<1>6. nextTxId = Len(ended) + 2 /\ b.txId = Len(ended) + 1
  BY <1>4 DEF OrderInv
<1>7. EndedIndex(next)' = EndedIndex(next)
  BY <1>2, <1>3, <1>4, <1>5 DEF EndedIndex
<1>8. \A i \in 1 .. Len(ended') : ended'[i].id = i
  <2>  SUFFICES ASSUME NEW i \in 1 .. Len(ended') PROVE ended'[i].id = i
    OBVIOUS
  <2>1. CASE i = Len(ended) + 1
    BY <1>5, <1>6, <2>1
  <2>2. CASE i \in 1 .. Len(ended)
    BY <1>5, <2>2 DEF OrderInv
  <2>3. Len(ended) \in Nat /\ i \in 1 .. Len(ended) + 1
    BY <1>4, <1>5
  <2>4. i = Len(ended) + 1 \/ i \in 1 .. Len(ended)
    BY <2>3
  <2>  QED
    BY <2>1, <2>2, <2>4
<1>  QED
  BY <1>1, <1>2, <1>4, <1>5, <1>6, <1>7, <1>8 DEF OrderInv

\* Handling an event sends the oldest transaction that was not sent.
LEMMA OrderOnEvent ==
  ASSUME RingInv, OrderInv, opens # 0, OnEvent
  PROVE  OrderInv'
<1>  DEFINE k == EndedIndex(next)
            b == slots[Slot(next)]
            msg == [id |-> b.hdrTx, ops |-> Records(b)]
<1>1. next \in next .. cursor /\ PublishedSlot(next)
  BY OnEventCases
<1>2. /\ cursor \in Int /\ next \in Nat /\ prevTxId \in Nat
      /\ ended \in Seq(Message) /\ sent \in Seq(Message)
  BY DEF RingInv, TypeOK, Sequence
<1>3. k \in 1 .. Len(ended) /\ k = Len(sent) + 1 /\ prevTxId = Len(sent)
  BY <1>1, <1>2 DEF EndedIndex, RingInv, CountersInv, OrderInv
<1>4. ended[k].id = k /\ ended[k] \in Message
  BY <1>2, <1>3 DEF OrderInv
<1>5. b.txId = k /\ msg = ended[k]
  BY <1>1, <1>4 DEF PublishedSlot, Message
<1>6. Len(sent) # Len(ended)
  BY <1>2, <1>3
<1>7. EventSent
  BY <1>2, <1>3, <1>5, OnEventCases
<1>8. /\ prevTxId' = k
      /\ sent' = Append(sent, ended[k])
      /\ next' = next + 1
      /\ UNCHANGED <<apc, replicated, opens, drained, expected, nextTxId, curSeq,
                     ended, cursor, fault>>
  BY <1>5, <1>7 DEF EventSent, appVars
<1>9. /\ Len(sent') = k
      /\ sent'[k] = ended[k]
      /\ \A i \in 1 .. Len(sent) : sent'[i] = sent[i]
  BY <1>2, <1>3, <1>4, <1>8
<1>11. EndedIndex(next)' - 1 = k
  BY <1>2, <1>8 DEF EndedIndex
<1>12. ~drained /\ apc \notin {"halting", "alerting", "joining", "closed"}
  BY <1>6 DEF OrderInv
<1>13. apc = "open" => slots'[Slot(curSeq)] = slots[Slot(curSeq)]
  <2>  SUFFICES ASSUME apc = "open"
                PROVE  slots'[Slot(curSeq)] = slots[Slot(curSeq)]
    OBVIOUS
  <2>1. Slot(next) # Slot(curSeq) /\ Slot(curSeq) \in SlotIds
    BY <1>1, OpenSlot
  <2>  QED
    BY <1>7, <2>1 DEF EventSent, RingInv, TypeOK
<1>  HIDE DEF k, msg, b
<1>  QED
  BY <1>8, <1>9, <1>11, <1>12, <1>13 DEF OrderInv, Slot

\* Before the first open nothing has ended and nothing was sent.
LEMMA OrderInit == Init => OrderInv
BY DEF Init, OrderInv, EndedIndex

\* A step that is not careless keeps the order.
LEMMA OrderStep ==
  ASSUME RingInv, OrderInv, [Next]_vars, ~careless'
  PROVE  OrderInv'
<1>1. ASSUME NEW m \in BOOLEAN, Open(m) PROVE OrderInv'
  <2>1. /\ replicated' /\ apc' = "idle" /\ ~drained'
        /\ opens' = opens + 1 /\ cursor' = -1 /\ next' = 0
        /\ UNCHANGED <<nextTxId, prevTxId, ended, sent, fault>>
    BY <1>1 DEF Open
  <2>2. apc = "closed" /\ Len(sent) = Len(ended)
    BY <1>1 DEF Open, OrderInv
  <2>3. EndedIndex(next)' - 1 = Len(ended)
    BY <2>1 DEF EndedIndex, RingInv, TypeOK
  <2>4. opens' > 0
    BY <2>1 DEF RingInv, TypeOK
  <2>  QED
    BY <2>1, <2>2, <2>3, <2>4
       DEF OrderInv
<1>2. ASSUME apc # "closed" PROVE opens # 0
  BY <1>2 DEF OrderInv
<1>3. CASE BeginReuse
  BY <1>2, <1>3 DEF BeginReuse, OrderInv, RingInv, TypeOK, ClaimInv
<1>3a. CASE BeginAnother
  <2>1. apc = "open" /\ opens # 0
    BY <1>2, <1>3a DEF BeginAnother
  <2>2. slots[Slot(curSeq)].txId = Len(ended) + 1
    BY <2>1 DEF OrderInv
  <2>3. slots[Slot(curSeq)].txId # 0
    BY <2>2 DEF RingInv, TypeOK
  <2>  QED
    BY <1>3a, <2>1, <2>3, OrderOverflow DEF BeginAnother, IsFresh
<1>4. CASE ClaimSlot
  <2>1. /\ claimed \in Sequence /\ StartTx(claimed) /\ claimed >= 0
        /\ apc = "claiming" /\ opens # 0
    BY <1>2, <1>4 DEF ClaimSlot, RingInv, TypeOK, ClaimInv
  <2>2. replicated /\ claimed = cursor + 1 /\ claimed - Size <= seq
    BY <1>4, <2>1 DEF ClaimSlot, SlotIsFree, RingInv, TypeOK, ClaimInv, OrderInv
  <2>3. TxStarted(claimed)
    BY <2>1, <2>2, StartTxRing
  <2>  QED
    BY <2>1, <2>3, OrderStartTx
<1>5. ASSUME NEW op \in Ops, LogOp(op) PROVE OrderInv'
  <2>  DEFINE b == slots[Slot(curSeq)]
  <2>1. apc = "open" /\ opens # 0
    BY <1>2, <1>5 DEF LogOp
  <2>2. CASE Fail("overflow")
    BY <2>1, <2>2, OrderOverflow
  <2>3. CASE /\ slots' = [slots EXCEPT ![Slot(curSeq)] = AppendLog(b, op)]
             /\ UNCHANGED <<apc, replicated, opens, drained, expected, nextTxId,
                            curSeq, claimed, ended, pubVars, cursor, seq,
                            running, alerted, fault>>
    <3>1. Slot(curSeq) \in SlotIds /\ b \in Buffer /\ slots \in [SlotIds -> Buffer]
      BY <2>1, OpenSlot DEF RingInv, TypeOK
    <3>2. slots'[Slot(curSeq)].txId = slots[Slot(curSeq)].txId
      BY <2>3, <3>1 DEF AppendLog, Buffer
    <3>3. UNCHANGED <<apc, replicated, opens, drained, expected, nextTxId,
                      curSeq, ended, sent, next, prevTxId, cursor, fault>>
      BY <2>3 DEF pubVars
    <3>  QED
      BY <2>1, <3>2, <3>3
         DEF OrderInv, EndedIndex, Slot
  <2>  QED
    BY <1>5, <2>2, <2>3 DEF LogOp
<1>6. CASE Commit
  <2>1. apc = "open" /\ opens # 0 /\ EndTx(slots[Slot(curSeq)], curOps)
    BY <1>2, <1>6 DEF Commit
  <2>2. slots[Slot(curSeq)] \in Buffer /\ curOps \in Seq(Ops)
    BY <2>1, OpenSlot DEF RingInv, TypeOK
  <2>  QED
    BY <2>1, <2>2, OrderEndTx
<1>7. CASE Abort
  <2>  DEFINE c == ClearLog(slots[Slot(curSeq)])
              none == <<>>
  <2>1. apc = "open" /\ opens # 0 /\ EndTx(c, none)
    BY <1>2, <1>7 DEF Abort
  <2>2. slots[Slot(curSeq)] \in Buffer /\ none \in Seq(Ops)
    BY <2>1, OpenSlot
  <2>3. c \in Buffer /\ c.txId = slots[Slot(curSeq)].txId
    BY <2>2, BufferType DEF ClearLog, Buffer
  <2>  HIDE DEF c, none
  <2>  QED
    BY <2>1, <2>2, <2>3, OrderEndTx
<1>8. CASE OnEvent
  <2>1. ppc = "events"
    BY <1>8 DEF OnEvent
  <2>2. apc # "closed"
    BY <2>1 DEF RingInv, CountersInv
  <2>  QED
    BY <1>2, <1>8, <2>2, OrderOnEvent
<1>9. CASE BeginClaim \/ WaitStart \/ WaitDone \/ Close \/ Halt \/ Alert \/ Join
  <2>1. apc \notin {"closed", "stopped", "open"} /\ opens # 0
    BY <1>2, <1>9
       DEF BeginClaim, WaitStart, WaitDone, Close, Halt, Alert, Join
  <2>2. /\ UNCHANGED <<opens, replicated, sent, ended, cursor, next, prevTxId,
                       nextTxId, slots, curSeq, fault>>
        /\ apc' # "open"
        /\ apc' = "waiting" => expected' = cursor
        /\ apc' = "claiming" => ~drained'
    BY <1>9, <2>1
       DEF BeginClaim, WaitStart, WaitDone, Close, Halt, Alert, Join, pubVars,
           ringVars, OrderInv
  <2>3. WaitDone => Len(sent) = Len(ended)
    <3>  SUFFICES ASSUME WaitDone PROVE Len(sent) = Len(ended)
      OBVIOUS
    <3>1. replicated /\ expected = cursor /\ seq >= cursor
      BY <2>1 DEF WaitDone, OrderInv, RingInv, TypeOK
    <3>2. next = cursor + 1
      BY <3>1 DEF RingInv, CountersInv, TypeOK, Sequence
    <3>  QED
      BY <3>2 DEF OrderInv, EndedIndex, RingInv, TypeOK, Sequence
  <2>4. drained' => Len(sent) = Len(ended)
    BY <1>9, <2>3
       DEF BeginClaim, WaitStart, WaitDone, Close, Halt, Alert, Join, OrderInv
  <2>5. apc' \in {"halting", "alerting", "joining", "closed"} =>
          Len(sent) = Len(ended)
    BY <1>9
       DEF BeginClaim, WaitStart, WaitDone, Close, Halt, Alert, Join, OrderInv
  <2>  QED
    BY <2>1, <2>2, <2>4, <2>5, OrderFrame
<1>10. CASE \/ RunStart \/ ClearAlert \/ WaitFor \/ CheckAlert \/ CheckRunning
            \/ EndBatch
  <2>1. next' = next
    BY <1>10
       DEF RunStart, ClearAlert, WaitFor, CheckAlert, CheckRunning, EndBatch,
           RingInv, CountersInv, TypeOK
  <2>2. UNCHANGED <<opens, replicated, sent, ended, cursor, prevTxId, nextTxId,
                    slots, curSeq, fault, apc, expected, drained>>
    BY <1>10
       DEF RunStart, ClearAlert, WaitFor, CheckAlert, CheckRunning, EndBatch,
           appVars, ringVars
  <2>3. apc \notin {"closed", "stopped"}
    BY <1>10
       DEF RunStart, ClearAlert, WaitFor, CheckAlert, CheckRunning, EndBatch,
           RingInv, CountersInv
  <2>  QED
    BY <1>2, <2>1, <2>2, <2>3, OrderFrame DEF OrderInv
<1>11. CASE UNCHANGED vars
  BY <1>11
     DEF vars, appVars, pubVars, ringVars, OrderInv, EndedIndex, Slot
<1>  QED
  BY <1>1, <1>3, <1>3a, <1>4, <1>5, <1>6, <1>7, <1>8, <1>9, <1>10, <1>11
     DEF Next, AppNext, PubNext

\* Carelessness is not forgotten.
LEMMA CarelessStays ==
  ASSUME TypeOK, careless, [Next]_vars
  PROVE  careless'
BY DEF Next, AppNext, PubNext, Open, BeginReuse, BeginAnother, BeginClaim, ClaimSlot,
       StartTx, TakeEvent, Fail, LogOp, Commit, Abort, EndTx, WaitStart, WaitDone,
       Close, Halt, Alert, Join, RunStart, ClearAlert, WaitFor, CheckAlert,
       CheckRunning, OnEvent, EndBatch, vars, appVars

\* OrderInv holds for as long as the application is not careless.
THEOREM OrderInvariant == Spec => [](careless \/ OrderInv)
<1>1. RingInv /\ (careless \/ OrderInv) /\ [Next]_vars => (careless \/ OrderInv)'
  BY OrderStep, CarelessStays DEF RingInv
<1>  QED
  BY <1>1, OrderInit, RingInvariant, PTL DEF Spec

\* When the wait returns to an application that is not careless, everything it has
\* ended is sent.
THEOREM DrainedMeansSentHolds == Spec => []DrainedMeansSent
<1>1. (careless \/ OrderInv) => DrainedMeansSent
  BY DEF OrderInv, DrainedMeansSent
<1>  QED
  BY <1>1, OrderInvariant, PTL

\* As long as the application is not careless no assertion of OnEvent() fails, not
\* even the one on missing transaction ids, and begin() fails one only while a
\* transaction is open.
THEOREM PipelineAssertsHold == Spec => []PipelineAsserts
<1>1. (careless \/ OrderInv) => PipelineAsserts
  BY DEF OrderInv, PipelineAsserts
<1>  QED
  BY <1>1, OrderInvariant, PTL
=============================================================================
