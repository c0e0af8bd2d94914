------------------------- MODULE ReplicationProofs -------------------------
(***************************************************************************)
(* Proofs about Replication, for every ring, every set of keys and values  *)
(* and every number of transactions and slave starts.                      *)
(*                                                                         *)
(* A message on the wire is a pointer into its ring slot, so what the      *)
(* slave sees depends on the slots not being granted again in between: the *)
(* theorems about the slave assume []WireKeepsUp, which the code leaves to *)
(* the socket's I/O thread (WireKeepsUpHolds shows that it holds whenever  *)
(* the transactions fit in the ring).  The inductive invariant follows the *)
(* messages: MasterInv (the pipeline's own), WireInv (the wire holds the   *)
(* last messages sent), InboxInv (the inbox those before), SlaveInv (the   *)
(* slave has redone a prefix of the log) and HistoryInv (the table after   *)
(* each transaction of the log).                                           *)
(***************************************************************************)
EXTENDS Replication, TxPipelineProofs, MinMaxProofs

(***************************************************************************)
(* The inductive invariants                                                *)
(***************************************************************************)
\* The bytes of the message that OnEvent sent.
MessageBytes(m) == [id |-> m.id, size |-> Len(m.ops), recs |-> m.ops]

\* The wire holds the last messages sent, each pointing at the slot of its own
\* event, and at its own bytes until that slot is granted again.
WireInv ==
  /\ Len(wire) <= next
  /\ Len(wire) + Len(inbox) <= Len(sent)
  /\ \A i \in 1 .. Len(wire) :
       /\ wire[i].slot = Slot(SequenceOf(i))
       /\ Taken - SequenceOf(i) < Size =>
            BytesAt(wire[i]) = MessageBytes(sent[Len(sent) - Len(wire) + i])
  /\ ~subscribed => wire = <<>>
  /\ apc \in {"halting", "alerting", "joining", "closed"} => wire = <<>>

\* The inbox holds the messages before those, and a slave that has missed nothing
\* has seen all that came earlier.
InboxInv ==
  /\ \A i \in 1 .. Len(inbox) :
       inbox[i] = MessageBytes(sent[Len(sent) - Len(wire) - Len(inbox) + i])
  /\ spc = "off" <=> ~subscribed
  /\ ~subscribed => inbox = <<>>
  /\ ~missed /\ spc # "stopped" => sprev + Len(inbox) + Len(wire) = Len(sent)
  /\ spc # "stopped" <=> sfault = "none"
  /\ SlaveSeesEveryId

\* Between transactions the slave is where it committed; inside one it has redone
\* the records before pos of the transaction after that.
SlaveInv ==
  /\ \A i \in 1 .. Len(ended) : ended[i].ops \in Seq(Ops)
  /\ done <= Len(ended)
  /\ spc \in {"off", "idle"} => sprev = done /\ stable = base
  /\ spc = "redo" =>
       /\ sprev = done + 1 /\ sprev <= Len(ended)
       /\ msg = MessageBytes(ended[sprev])
       /\ pos <= Len(ended[sprev].ops) + 1
       /\ stable = Replay(base, SubSeq(ended[sprev].ops, 1, pos - 1))
  /\ sfault \notin {"bad_size", "bad_record"}

\* Every DEL among the records finds its key, when they are redone from t on.
DelsFind(t, ops) ==
  \A j \in 1 .. Len(ops) :
    ops[j].type = "del" => Replay(t, SubSeq(ops, 1, j - 1))[ops[j].key] # Absent

\* T lists the table before the first ended transaction and after each of them.
IsHistory(T) ==
  /\ Len(T) = Len(ended) + 1
  /\ T[1] = EmptyTable
  /\ \A n \in 1 .. Len(ended) :
       T[n + 1] = Replay(T[n], ended[n].ops) /\ DelsFind(T[n], ended[n].ops)
  /\ base = T[done + 1]

\* The master's table against the table t of the last ended transaction.  A
\* reopened master starts empty, and a slave still has what was there before.
MasterAhead(t) ==
  /\ DelsFind(t, curOps)
  /\ \A k \in Keys : mtable[k] # Absent => Replay(t, curOps)[k] # Absent
  /\ opens <= 1 => Replay(t, curOps) = KeptValues(mtable)

HistoryInv ==
  /\ \E T \in Seq(Tables) :
       IsHistory(T) /\ (apc # "stopped" => MasterAhead(T[Len(ended) + 1]))
  /\ apc \notin {"open", "stopped"} => curOps = <<>>
  /\ opens <= MaxOpens
  /\ opens = 0 => mtable = EmptyTable
  /\ RedoAlwaysSucceeds

-----------------------------------------------------------------------------
(***************************************************************************)
(* The master's pipeline inside the composition                            *)
(***************************************************************************)
\* A step of the composition is a step of the master's pipeline, or leaves it
\* alone: the pipeline's invariants carry over.
LEMMA PipelineStep == [ReplNext]_allVars => [Next]_vars
<1>  SUFFICES ASSUME [ReplNext]_allVars PROVE [Next]_vars
  OBVIOUS
<1>  USE DEF Next, AppNext, PubNext
<1>1. ASSUME NEW k \in Keys, NEW v \in Values, TablePut(k, v) PROVE Next
  <2>1. [type |-> "put", key |-> k, val |-> v] \in Ops
    BY ReplicationAssumption DEF Puts
  <2>  QED
    BY <1>1, <2>1 DEF TablePut
<1>2. ASSUME NEW k \in Keys, TableDel(k) PROVE Next
  <2>1. [type |-> "del", key |-> k] \in Ops
    BY ReplicationAssumption DEF Dels
  <2>  QED
    BY <1>2, <2>1 DEF TableDel
<1>3. CASE OpenMaster
  BY <1>3 DEF OpenMaster
<1>4. CASE TxAbort \/ SendEvent \/ CloseMaster \/ MasterStep \/ TakeSlot
  BY <1>4 DEF TxAbort, SendEvent, CloseMaster, MasterStep, TakeSlot
<1>5. CASE Transmit \/ SlaveStart \/ SlaveCrash
  BY <1>5 DEF Transmit, SlaveStart, SlaveCrash
<1>6. CASE SlaveStep
  BY <1>6 DEF SlaveStep, Receive, Redo, RedoCommit
<1>7. CASE UNCHANGED allVars
  BY <1>7 DEF allVars
<1>  QED
  BY <1>1, <1>2, <1>3, <1>4, <1>5, <1>6, <1>7 DEF ReplNext, OtherNext
-----------------------------------------------------------------------------
(***************************************************************************)
(* What the records of a transaction make of a table                       *)
(***************************************************************************)
\* No records, no change.
LEMMA ReplayNothing ==
  ASSUME NEW t \in Tables PROVE Replay(t, <<>>) = t
BY DEF Replay, Tables

\* One more record changes the key it is about.
LEMMA ReplayOneMore ==
  ASSUME NEW t \in Tables, NEW ops \in Seq(Ops), NEW r \in Ops
  PROVE  Replay(t, Append(ops, r)) =
           [Replay(t, ops) EXCEPT ![r.key] = Written(r)]
<1>  DEFINE On(o, k) == {i \in DOMAIN o : o[i].key = k}
            all == Append(ops, r)
            n == Len(ops)
<1>1. /\ Len(all) = n + 1 /\ all[n + 1] = r /\ n \in Nat
      /\ DOMAIN all = 1 .. n + 1 /\ DOMAIN ops = 1 .. n
      /\ \A i \in 1 .. n : all[i] = ops[i]
  OBVIOUS
<1>2. ASSUME NEW k \in Keys, r.key # k
      PROVE  On(all, k) = On(ops, k)
  <2>  HIDE DEF all, n
  <2>  QED  BY <1>1, <1>2
<1>3. ASSUME NEW k \in Keys, r.key = k
      PROVE  On(all, k) # {} /\ Max(On(all, k)) = n + 1
  <2>  HIDE DEF all, n
  <2>1. n + 1 \in On(all, k) /\ On(all, k) \subseteq 1 .. n + 1
    BY <1>1, <1>3
  <2>  HIDE DEF On
  <2>2. /\ On(all, k) \in SUBSET Int /\ n + 1 \in Int
        /\ \A x \in On(all, k) : x <= n + 1
    BY <1>1, <2>1
  <2>3. Max(On(all, k)) \in On(all, k) /\ n + 1 <= Max(On(all, k))
    BY <2>1, <2>2, MaxOfIntegers
  <2>  QED
    BY <1>1, <2>1, <2>3
<1>4. ASSUME NEW k \in Keys, On(ops, k) # {}
      PROVE  Max(On(ops, k)) \in 1 .. n
  <2>  HIDE DEF n
  <2>1. On(ops, k) \subseteq 1 .. n
    BY <1>1
  <2>  HIDE DEF On
  <2>2. /\ On(ops, k) \in SUBSET Int /\ n \in Int
        /\ \A x \in On(ops, k) : x <= n
    BY <1>1, <2>1
  <2>3. Max(On(ops, k)) \in On(ops, k)
    BY <1>4, <2>2, MaxOfIntegers
  <2>  QED
    BY <2>1, <2>3
<1>5. /\ Replay(t, all) = [k \in Keys |-> IF On(all, k) = {} THEN t[k] ELSE Written(all[Max(On(all, k))])]
      /\ Replay(t, ops) = [k \in Keys |-> IF On(ops, k) = {} THEN t[k] ELSE Written(ops[Max(On(ops, k))])]
  BY DEF Replay
<1>  HIDE DEF On, all, n
<1>6. ASSUME NEW k \in Keys
      PROVE  Replay(t, all)[k] = [Replay(t, ops) EXCEPT ![r.key] = Written(r)][k]
  <2>1. CASE r.key = k
    BY <1>1, <1>3, <1>5, <2>1
  <2>2. CASE r.key # k
    BY <1>1, <1>2, <1>4, <1>5, <2>2
  <2>  QED
    BY <2>1, <2>2
<1>  QED
  BY <1>5, <1>6 DEF all

-----------------------------------------------------------------------------
(***************************************************************************)
(* Type correctness                                                        *)
(***************************************************************************)
\* The slave redoes only a message that is as long as its header says.
ReplTypeInv == ReplTypeOK /\ (spc = "redo" => msg.size <= Len(msg.recs))

\* A value, and what redoLog makes of it, is a sequence of words.
LEMMA ValueType ==
  ASSUME NEW v \in Values
  PROVE  v \in Seq(Words) /\ RedoValue(v) \in Seq(Words)
<1>1. v \in Seq(Words) /\ v # <<>>
  BY ReplicationAssumption DEF Words
<1>2. Len(v) >= 1
  BY <1>1
<1>  QED
  BY <1>1, <1>2 DEF RedoValue

\* What a message points at is a message.
LEMMA BytesType ==
  ASSUME TypeOK, NEW p \in Pointer PROVE BytesAt(p) \in Bytes
<1>1. slots[p.slot] \in Buffer /\ p.size \in 0 .. MaxLogs
  BY DEF TypeOK, Pointer
<1>2. /\ slots[p.slot].hdrTx \in Nat
      /\ slots[p.slot].hdrCount \in 0 .. MaxLogs
      /\ slots[p.slot].mem \in [1 .. MaxLogs -> Ops \cup {NoOp}]
  BY <1>1 DEF Buffer, Cells
<1>3. [i \in 1 .. p.size |-> slots[p.slot].mem[i]] \in Seq(Ops \cup {NoOp})
  <2>1. p.size \in Nat /\ \A i \in 1 .. p.size : slots[p.slot].mem[i] \in Ops \cup {NoOp}
    BY <1>1, <1>2, LogBufferAssumption
  <2>  QED
    BY <2>1
<1>  QED
  BY <1>2, <1>3 DEF BytesAt, Bytes

\* A master and a slave that have not started have the types.
LEMMA ReplTypeInit == ReplInit => ReplTypeInv
<1>  SUFFICES ASSUME ReplInit PROVE ReplTypeInv
  OBVIOUS
<1>1. TypeOK
  BY TypeInit DEF ReplInit
<1>2. msg \in Bytes
  <2>1. <<>> \in Seq(Ops \cup {NoOp})
    OBVIOUS
  <2>  QED
    BY <2>1, LogBufferAssumption DEF ReplInit, Bytes
<1>3. wire \in Seq(Pointer) /\ inbox \in Seq(Bytes)
  BY DEF ReplInit
<1>4. subscribed \in BOOLEAN /\ missed \in BOOLEAN
  BY DEF ReplInit
<1>5. EmptyTable \in Tables
  BY DEF EmptyTable, Tables
<1>  QED
  BY <1>1, <1>2, <1>3, <1>4, <1>5, ReplicationAssumption, LogBufferAssumption
     DEF ReplInit, ReplTypeInv, ReplTypeOK

\* The master, the wire and the slave keep the types.
LEMMA ReplTypeStep == ReplTypeInv /\ [ReplNext]_allVars => ReplTypeInv'
<1>  SUFFICES ASSUME ReplTypeInv, [ReplNext]_allVars PROVE ReplTypeInv'
  OBVIOUS
<1>0. TypeOK /\ TypeOK'
  BY PipelineStep, TypeStep DEF ReplTypeInv, ReplTypeOK
<1>  DEFINE SlaveType ==
              /\ spc \in {"off", "idle", "redo", "stopped"}
              /\ starts \in 0 .. MaxStarts
              /\ msg \in Bytes
              /\ pos \in 1 .. MaxLogs + 1
              /\ sprev \in Nat
              /\ stable \in Tables
              /\ sfault \in {"none", "bad_size", "id_mismatch", "bad_record",
                              "redo_failed"}
              /\ done \in Nat /\ base \in Tables
              /\ spc = "redo" => msg.size <= Len(msg.recs)
            NetType ==
              /\ subscribed \in BOOLEAN
              /\ wire \in Seq(Pointer)
              /\ inbox \in Seq(Bytes)
              /\ missed \in BOOLEAN
<1>a. mtable \in Tables /\ SlaveType /\ NetType
  BY DEF ReplTypeInv, ReplTypeOK
<1>b. SUFFICES mtable' \in Tables /\ SlaveType' /\ NetType'
  BY <1>0 DEF ReplTypeInv, ReplTypeOK
<1>c. EmptyTable \in Tables
  BY DEF EmptyTable, Tables
<1>d. UNCHANGED slaveVars => SlaveType'
  BY <1>a DEF slaveVars
<1>e. UNCHANGED netVars => NetType'
  BY <1>a DEF netVars
<1>1. ASSUME NEW k \in Keys, NEW v \in Values, TablePut(k, v)
      PROVE  mtable' \in Tables /\ SlaveType' /\ NetType'
  <2>1. mtable' \in Tables
    BY <1>a, <1>1, ValueType DEF TablePut, Tables
  <2>  QED
    BY <2>1, <1>1, <1>d, <1>e DEF TablePut
<1>2. ASSUME NEW k \in Keys, TableDel(k)
      PROVE  mtable' \in Tables /\ SlaveType' /\ NetType'
  <2>1. mtable' \in Tables
    BY <1>a, <1>2 DEF TableDel, Tables
  <2>  QED
    BY <2>1, <1>2, <1>d, <1>e DEF TableDel
<1>3. ASSUME OpenMaster
      PROVE  mtable' \in Tables /\ SlaveType' /\ NetType'
  BY <1>3, <1>c, <1>d, <1>e DEF OpenMaster
<1>4. CASE UNCHANGED replVars
  BY <1>a, <1>4, <1>d, <1>e DEF replVars
<1>5. CASE SendEvent
  <2>1. BuildReplicationMessage(slots[Slot(next)]) \in Pointer
    <3>1. Slot(next) \in SlotIds
      BY <1>0, SlotType DEF TypeOK
    <3>2. slots[Slot(next)] \in Buffer
      BY <1>0, <3>1 DEF TypeOK
    <3>  QED
      BY <3>1, <3>2 DEF BuildReplicationMessage, Pointer, Buffer
  <2>2. wire' \in Seq(Pointer)
    BY <1>a, <1>5, <2>1 DEF SendEvent
  <2>3. missed' \in BOOLEAN
    BY <1>5 DEF SendEvent
  <2>4. UNCHANGED <<mtable, slaveVars, subscribed, inbox>>
    BY <1>5 DEF SendEvent
  <2>  QED
    BY <1>a, <1>d, <2>2, <2>3, <2>4
<1>6. CASE Transmit
  <2>1. wire # <<>> /\ UNCHANGED <<mtable, slaveVars, subscribed, missed>>
    BY <1>6 DEF Transmit
  <2>2. Head(wire) \in Pointer /\ Tail(wire) \in Seq(Pointer)
    BY <1>a, <2>1
  <2>3. BytesAt(Head(wire)) \in Bytes
    BY <1>0, <2>2, BytesType
  <2>4. NetType'
    BY <1>a, <1>6, <2>1, <2>2, <2>3 DEF Transmit
  <2>  QED
    BY <1>a, <1>d, <2>1, <2>4
<1>7. CASE SlaveStart
  <2>1. SlaveType'
    BY <1>a, <1>7, ReplicationAssumption DEF SlaveStart
  <2>2. NetType'
    BY <1>a, <1>7 DEF SlaveStart
  <2>  QED
    BY <1>a, <1>7, <2>1, <2>2 DEF SlaveStart
<1>8. CASE SlaveCrash
  <2>1. SlaveType'
    BY <1>a, <1>c, <1>8 DEF SlaveCrash
  <2>2. NetType'
    <3>1. <<>> \in Seq(Pointer) /\ <<>> \in Seq(Bytes)
      OBVIOUS
    <3>  QED
      BY <1>8, <3>1 DEF SlaveCrash
  <2>  QED
    BY <1>a, <1>8, <2>1, <2>2 DEF SlaveCrash
<1>9. ASSUME NEW a \in {"bad_size", "id_mismatch", "bad_record", "redo_failed"},
             SlaveFail(a)
      PROVE  SlaveType'
  BY <1>a, <1>9 DEF SlaveFail
<1>10. CASE Receive
  <2>1. inbox # <<>> /\ UNCHANGED <<mtable, subscribed, wire, missed>>
        /\ inbox' = Tail(inbox)
    BY <1>10 DEF Receive
  <2>2. Head(inbox) \in Bytes /\ Tail(inbox) \in Seq(Bytes)
    BY <1>a, <2>1
  <2>3. CASE SlaveFail("bad_size") \/ SlaveFail("id_mismatch")
    BY <1>a, <1>9, <2>1, <2>2, <2>3
  <2>4. CASE /\ ~(Head(inbox).size > Len(Head(inbox).recs))
             /\ sprev' = Head(inbox).id
             /\ msg' = Head(inbox) /\ pos' = 1 /\ spc' = "redo"
             /\ UNCHANGED <<starts, stable, sfault, done, base>>
    <3>1. Head(inbox).size \in Nat /\ Len(Head(inbox).recs) \in Nat /\ Head(inbox).id \in Nat
      BY <2>2, LogBufferAssumption DEF Bytes
    <3>2. SlaveType'
      BY <1>a, <2>2, <2>4, <3>1, LogBufferAssumption
    <3>  QED
      BY <1>a, <2>1, <2>2, <3>2
  <2>  QED
    BY <1>10, <2>3, <2>4 DEF Receive
<1>11. CASE Redo
  <2>  DEFINE r == msg.recs[pos]
  <2>1. UNCHANGED <<mtable, netVars>> /\ spc = "redo" /\ pos <= msg.size
    BY <1>11 DEF Redo
  <2>2. /\ msg.size \in 0 .. MaxLogs /\ msg.recs \in Seq(Ops \cup {NoOp})
        /\ pos \in 1 .. Len(msg.recs) /\ pos + 1 \in 1 .. MaxLogs + 1
    BY <1>a, <2>1, LogBufferAssumption DEF Bytes
  <2>3. CASE SlaveFail("bad_record") \/ SlaveFail("redo_failed")
    BY <1>a, <1>e, <1>9, <2>1, <2>3
  <2>4. CASE /\ r # NoOp
             /\ stable' = [stable EXCEPT ![r.key] =
                            IF r.type = "put" THEN RedoValue(r.val) ELSE Absent]
             /\ pos' = pos + 1
             /\ UNCHANGED <<spc, starts, msg, sprev, sfault, done, base>>
    <3>1. r \in Ops
      BY <2>2, <2>4
    <3>2. (IF r.type = "put" THEN RedoValue(r.val) ELSE Absent) \in Seq(Words) \cup {Absent}
      BY <3>1, ReplicationAssumption, ValueType DEF Puts, Dels
    <3>3. stable' \in Tables
      BY <1>a, <2>4, <3>2 DEF Tables
    <3>4. SlaveType'
      BY <1>a, <2>2, <2>4, <3>3
    <3>  QED
      BY <1>a, <1>e, <2>1, <3>4
  <2>  QED
    BY <1>11, <2>3, <2>4 DEF Redo
<1>12. CASE RedoCommit
  <2>1. SlaveType'
    BY <1>a, <1>12 DEF RedoCommit
  <2>  QED
    BY <1>a, <1>e, <1>12, <2>1 DEF RedoCommit
<1>  QED
  <2>1. CASE TxAbort \/ CloseMaster \/ MasterStep \/ TakeSlot \/ UNCHANGED allVars
    <3>1. UNCHANGED replVars
      BY <2>1 DEF TxAbort, CloseMaster, MasterStep, TakeSlot, allVars
    <3>  QED
      BY <3>1, <1>4
  <2>  HIDE DEF SlaveType, NetType
  <2>  QED
    BY <2>1, <1>1, <1>2, <1>3, <1>5, <1>6, <1>7, <1>8, <1>10, <1>11, <1>12
       DEF ReplNext, OtherNext, SlaveStep

\* The composition stays within its types: in particular redoLog always gets a
\* record to parse, whatever the ring overwrote under a message on the wire.
THEOREM ReplTypeCorrect == ReplSpec => []ReplTypeOK
<1>1. ReplTypeInv => ReplTypeOK
  BY DEF ReplTypeInv
<1>  QED
  BY <1>1, ReplTypeInit, ReplTypeStep, PTL DEF ReplSpec

-----------------------------------------------------------------------------
(***************************************************************************)
(* The kinds of step                                                       *)
(***************************************************************************)
\* A failed assertion stops the master for good.
FaultStops == fault # "none" => apc = "stopped"

\* No step of the master resumes after a failed assertion.
LEMMA FaultStopsStep == RingInv /\ FaultStops /\ [Next]_vars => FaultStops'
<1>  SUFFICES ASSUME RingInv, FaultStops, [Next]_vars PROVE FaultStops'
  OBVIOUS
<1>1. apc = "stopped" <=> ppc = "stopped"
  BY DEF RingInv, CountersInv
<1>2. ASSUME NEW a, Fail(a) PROVE FaultStops'
  BY <1>2 DEF Fail, FaultStops
<1>3. ASSUME apc # "stopped", fault' = fault PROVE FaultStops'
  BY <1>3 DEF FaultStops
<1>4. ASSUME NEW s, StartTx(s), apc # "stopped" PROVE FaultStops'
  BY <1>2, <1>3, <1>4 DEF StartTx, TakeEvent
<1>5. CASE BeginReuse \/ ClaimSlot
  BY <1>4, <1>5 DEF BeginReuse, ClaimSlot
<1>6. CASE BeginAnother
  BY <1>2, <1>3, <1>6 DEF BeginAnother, TakeEvent
<1>7. CASE \E op \in Ops : LogOp(op)
  BY <1>2, <1>3, <1>7 DEF LogOp
<1>8. CASE Commit \/ Abort
  BY <1>3, <1>8 DEF Commit, Abort, EndTx
<1>9. CASE (\E m \in BOOLEAN : Open(m)) \/ BeginClaim \/ WaitStart \/ WaitDone
           \/ Close \/ Halt \/ Alert \/ Join
  BY <1>3, <1>9 DEF Open, BeginClaim, WaitStart, WaitDone, Close, Halt, Alert, Join
<1>10. CASE RunStart \/ ClearAlert \/ WaitFor \/ CheckAlert \/ CheckRunning \/ EndBatch
  BY <1>1, <1>3, <1>10
     DEF RunStart, ClearAlert, WaitFor, CheckAlert, CheckRunning, EndBatch
<1>11. CASE OnEvent
  BY <1>1, <1>2, <1>3, <1>11 DEF OnEvent
<1>12. CASE UNCHANGED vars
  BY <1>12 DEF vars, appVars, FaultStops
<1>  QED
  BY <1>5, <1>6, <1>7, <1>8, <1>9, <1>10, <1>11, <1>12 DEF Next, AppNext, PubNext

\* What the pipeline's own proofs establish of an application that is not careless.
MasterInv ==
  /\ RingInv /\ OpenHasId /\ PrefixInv /\ OrderInv
  /\ FaultStops
  /\ ~careless

\* The invariants of the pipeline hold before the first open.
LEMMA MasterInit == ReplInit => MasterInv
BY RingInit, OrderInit
   DEF ReplInit, MasterInv, OpenHasId, PrefixInv, SentInOrder, FaultStops, Init

\* The composition opens masters only and waits before it closes them.
LEMMA NeverCareless ==
  ASSUME ~careless, [ReplNext]_allVars PROVE ~careless'
<1>1. ASSUME NEW a, Fail(a) PROVE careless' = careless
  BY <1>1 DEF Fail
<1>2. ASSUME NEW op, LogOp(op) PROVE careless' = careless
  BY <1>1, <1>2 DEF LogOp
<1>3. CASE OpenMaster
  BY <1>3 DEF OpenMaster, Open
<1>4. CASE CloseMaster
  BY <1>4 DEF CloseMaster, Close
<1>5. CASE \E k \in Keys : (\E v \in Values : TablePut(k, v)) \/ TableDel(k)
  BY <1>2, <1>5 DEF TablePut, TableDel
<1>6. CASE TxAbort
  BY <1>6 DEF TxAbort, Abort, EndTx
<1>7. CASE SendEvent
  BY <1>1, <1>7 DEF SendEvent, OnEvent, appVars
<1>8. CASE TakeSlot
  BY <1>1, <1>8 DEF TakeSlot, ClaimSlot, StartTx, TakeEvent
<1>9. CASE MasterStep
  BY <1>1, <1>9
     DEF MasterStep, BeginReuse, StartTx, BeginAnother, TakeEvent, BeginClaim, Commit,
         EndTx, WaitStart, WaitDone, Halt, Alert, Join, RunStart, ClearAlert, WaitFor,
         CheckAlert, CheckRunning, EndBatch, appVars
<1>10. CASE Transmit \/ SlaveStart \/ SlaveCrash \/ SlaveStep \/ UNCHANGED allVars
  BY <1>10
     DEF Transmit, SlaveStart, SlaveCrash, SlaveStep, Receive, Redo, RedoCommit,
         allVars, vars, appVars
<1>  QED
  BY <1>3, <1>4, <1>5, <1>6, <1>7, <1>8, <1>9, <1>10 DEF ReplNext, OtherNext

\* ... and the steps of the wire and of the slave, which change nothing of the
\* pipeline, keep its invariants as its own steps do.
LEMMA MasterKept ==
  ASSUME MasterInv, [ReplNext]_allVars PROVE MasterInv'
<1>1. [Next]_vars /\ ~careless'
  BY PipelineStep, NeverCareless DEF MasterInv
<1>2. RingInv' /\ OpenHasId' /\ PrefixInv' /\ FaultStops'
  BY <1>1, RingStep, OpenHasIdStep, PrefixStep, FaultStopsStep DEF MasterInv
<1>3. OrderInv'
  BY <1>1, OrderStep DEF MasterInv
<1>  QED
  BY <1>1, <1>2, <1>3 DEF MasterInv

Closing == {"halting", "alerting", "joining", "closed"}

\* The master moves without touching a buffer, a message or a table.
Quiet ==
  /\ UNCHANGED <<replVars, slots, sent, next, ended, curOps, opens>>
  /\ apc' \in Closing => apc \in Closing \/ wire = <<>>
  /\ apc' = "stopped" <=> apc = "stopped"
  /\ apc' = "open" <=> apc = "open"
  /\ Taken' = Taken

\* An assertion stops the master; a put or a del may have changed its table.
Stops ==
  /\ apc' = "stopped" /\ opens # 0 /\ claimed' = claimed
  /\ UNCHANGED <<slaveVars, netVars, slots, sent, next, ended, curOps, opens>>

\* A new database object with an empty table.
Opens ==
  /\ apc = "closed" /\ apc' = "idle" /\ opens < MaxOpens /\ opens' = opens + 1
  /\ mtable' = EmptyTable
  /\ UNCHANGED <<slaveVars, netVars, sent, ended, curOps>>

\* begin() has its event.
Begins(s) ==
  /\ apc \in {"idle", "claiming"} /\ TxStarted(s)
  /\ UNCHANGED replVars

\* What a put or a del with record r leaves under its key.
Stored(r) == IF r.type = "put" THEN r.val ELSE Absent

\* A put or a del, and its record r.
Logs(r) ==
  /\ apc = "open" /\ Fits(slots[Slot(curSeq)])
  /\ slots' = [slots EXCEPT ![Slot(curSeq)] = AppendLog(slots[Slot(curSeq)], r)]
  /\ curOps' = Append(curOps, r)
  /\ r.type = "del" => mtable[r.key] # Absent
  /\ mtable' = [mtable EXCEPT ![r.key] = Stored(r)]
  /\ UNCHANGED <<slaveVars, netVars, apc, claimed, sent, next, ended, opens>>

\* end() publishes the records ops.
Ends(b, ops) ==
  /\ apc = "open" /\ apc' = "idle"
  /\ AbortsWrites \/ ops = curOps
  /\ slots' = [slots EXCEPT ![Slot(curSeq)] = Finalize(b)]
  /\ ended' = Append(ended, [id |-> b.txId, ops |-> ops])
  /\ curOps' = <<>>
  /\ UNCHANGED <<replVars, claimed, sent, next, opens>>

\* OnEvent sends the event of sequence next.
Sends ==
  /\ PublishedSlot(next) /\ EventSent /\ next <= cursor
  /\ wire' = IF subscribed
               THEN Append(wire, BuildReplicationMessage(slots[Slot(next)]))
               ELSE wire
  /\ missed' = (missed \/ ~subscribed)
  /\ UNCHANGED <<mtable, slaveVars, subscribed, inbox>>

\* Every step of the composition is of one of these kinds.
LEMMA StepCases ==
  ASSUME MasterInv, OrderInv', [ReplNext]_allVars
  PROVE  \/ Quiet \/ Stops \/ Opens \/ Sends
         \/ \E s \in Sequence : Begins(s)
         \/ \E r \in Ops : Logs(r)
         \/ \E b \in Buffer, ops \in Seq(Ops) : Ends(b, ops)
         \/ Transmit \/ SlaveStart \/ SlaveCrash \/ Receive \/ Redo \/ RedoCommit
<1>0. /\ RingInv /\ OpenHasId /\ OrderInv /\ TypeOK
      /\ apc # "closed" => opens # 0 /\ replicated
  BY DEF MasterInv, RingInv, OrderInv, TypeOK
<1>1. ASSUME NEW a, Fail(a), apc # "closed", UNCHANGED <<slaveVars, netVars>>
      PROVE  Stops
  BY <1>0, <1>1 DEF Fail, Stops, ringVars
<1>2. ASSUME NEW s \in Sequence, StartTx(s), apc \in {"idle", "claiming"},
             UNCHANGED replVars
      PROVE  Stops \/ Begins(s)
  BY <1>1, <1>2, StartTxCases DEF Begins, replVars
<1>3. ASSUME NEW r \in Ops, LogOp(r), UNCHANGED <<slaveVars, netVars>>,
             r.type = "del" => mtable[r.key] # Absent,
             mtable' = [mtable EXCEPT ![r.key] = Stored(r)]
      PROVE  Stops \/ Logs(r)
  BY <1>1, <1>3 DEF LogOp, Logs, pubVars
<1>4. ASSUME NEW b \in Buffer, NEW ops \in Seq(Ops), EndTx(b, ops), apc = "open",
             AbortsWrites \/ ops = curOps, UNCHANGED replVars
      PROVE  Ends(b, ops)
  BY <1>0, <1>4 DEF EndTx, Ends, pubVars
<1>5. ASSUME NEW k \in Keys, NEW v \in Values, TablePut(k, v)
      PROVE  \E r \in Ops : Stops \/ Logs(r)
  <2>1. PICK r : r = [type |-> "put", key |-> k, val |-> v]
    OBVIOUS
  <2>2. r \in Ops /\ r.key = k /\ r.type = "put" /\ Stored(r) = v
    BY <2>1, ReplicationAssumption DEF Puts, Stored
  <2>  QED
    BY <1>3, <1>5, <2>1, <2>2 DEF TablePut
<1>6. ASSUME NEW k \in Keys, TableDel(k)
      PROVE  \E r \in Ops : Stops \/ Logs(r)
  <2>1. PICK r : r = [type |-> "del", key |-> k]
    OBVIOUS
  <2>2. r \in Ops /\ r.key = k /\ r.type = "del" /\ Stored(r) = Absent
    BY <2>1, ReplicationAssumption DEF Dels, Stored
  <2>  QED
    BY <1>3, <1>6, <2>1, <2>2 DEF TableDel
<1>7. CASE OpenMaster
  BY <1>7 DEF OpenMaster, Open, Opens
<1>8. ASSUME apc = "open"
      PROVE  /\ slots[Slot(curSeq)] \in Buffer
             /\ ClearLog(slots[Slot(curSeq)]) \in Buffer
             /\ curOps \in Seq(Ops) /\ <<>> \in Seq(Ops)
  BY <1>0, <1>8, OpenSlot, BufferType DEF TypeOK
<1>9. CASE TxAbort
  BY <1>4, <1>8, <1>9 DEF TxAbort, Abort
<1>10. CASE SendEvent
  <2>1. OnEvent /\ next \in next .. cursor /\ PublishedSlot(next)
        /\ (Fail("id_mismatch") \/ EventSent)
    BY <1>0, <1>10, OnEventCases DEF SendEvent
  <2>2. fault' \in {"none", "overflow", "second_begin"}
    BY DEF OrderInv
  <2>3. EventSent /\ fault' = fault /\ apc' = apc
    BY <2>1, <2>2 DEF Fail, EventSent, appVars
  <2>4. fault = "none"
    <3>1. apc # "stopped"
      BY <1>0, <2>1 DEF OnEvent, RingInv, CountersInv
    <3>  QED
      BY <3>1 DEF MasterInv, FaultStops
  <2>  QED
    BY <1>0, <1>10, <2>1, <2>3, <2>4 DEF SendEvent, Sends, TypeOK, Sequence
<1>11. CASE CloseMaster
  BY <1>11 DEF CloseMaster, Close, Quiet, Closing, Taken, ringVars, pubVars
<1>12. CASE MasterStep
  <2>1. UNCHANGED replVars
    BY <1>12 DEF MasterStep
  <2>2. CASE BeginReuse
    BY <1>0, <1>2, <2>1, <2>2 DEF BeginReuse, TypeOK
  <2>4. CASE BeginAnother
    BY <1>0, <1>1, <2>1, <2>4, BeginAnotherFails DEF BeginAnother, replVars
  <2>5. CASE Commit
    BY <1>4, <1>8, <2>1, <2>5 DEF Commit
  <2>3. CASE BeginClaim
    <3>1. claimed \in Int
      BY <1>0 DEF TypeOK, Sequence
    <3>2. Taken' = Taken
      BY <2>3, <3>1 DEF BeginClaim, Taken
    <3>3. UNCHANGED <<slots, sent, next, ended, curOps, opens>>
      BY <2>3 DEF BeginClaim, pubVars, ringVars
    <3>4. apc = "idle" /\ apc' = "claiming"
      BY <2>3 DEF BeginClaim
    <3>  QED
      BY <2>1, <3>2, <3>3, <3>4 DEF Quiet, Closing
  <2>6. CASE WaitStart \/ WaitDone \/ Halt \/ Alert \/ Join
    <3>1. Taken' = Taken
      BY <2>6 DEF WaitStart, WaitDone, Halt, Alert, Join, Taken, ringVars
    <3>  QED
      BY <2>1, <2>6, <3>1 DEF WaitStart, WaitDone, Halt, Alert, Join,
                              Quiet, Closing, ringVars, pubVars
  <2>7. CASE RunStart \/ WaitFor \/ CheckAlert \/ CheckRunning \/ EndBatch
    BY <2>1, <2>7 DEF RunStart, WaitFor, CheckAlert, CheckRunning, EndBatch,
                      Quiet, Taken, ringVars, appVars
  <2>8. CASE ClearAlert
    <3>1. next' = next
      BY <1>0, <2>8 DEF ClearAlert, RingInv, CountersInv, TypeOK
    <3>  QED
      BY <2>1, <2>8, <3>1 DEF ClearAlert, Quiet, Taken, appVars
  <2>  QED
    BY <1>12, <2>2, <2>3, <2>4, <2>5, <2>6, <2>7, <2>8 DEF MasterStep
<1>13. CASE UNCHANGED allVars
  BY <1>13 DEF allVars, vars, appVars, pubVars, ringVars, Quiet, Taken
<1>14. CASE TakeSlot
  BY <1>0, <1>2, <1>14 DEF TakeSlot, ClaimSlot, TypeOK
<1>  QED
  BY <1>5, <1>6, <1>7, <1>9, <1>10, <1>11, <1>12, <1>13, <1>14
     DEF ReplNext, OtherNext, SlaveStep

-----------------------------------------------------------------------------
(***************************************************************************)
(* The messages on their way                                               *)
(***************************************************************************)
\* The messages whose slots have not been granted again.
Valid(i) == Taken - SequenceOf(i) < Size

\* Numbers.
LEMMA TakenType ==
  ASSUME ReplTypeInv
  PROVE  /\ Taken \in Int /\ Len(wire) \in Nat /\ next \in Nat
         /\ \A i \in 1 .. Len(wire) : SequenceOf(i) \in Int
<1>1. claimed \in Int /\ wire \in Seq(Pointer) /\ next \in Nat
  BY DEF ReplTypeInv, ReplTypeOK, TypeOK, Sequence
<1>  QED
  BY <1>1 DEF Taken, SequenceOf

\* A step that keeps the wire, and the bytes its valid messages point at.
LEMMA WireFrame ==
  ASSUME ReplTypeInv, ReplTypeInv', WireInv,
         UNCHANGED <<wire, inbox, sent, subscribed, next>>,
         Taken <= Taken',
         \A i \in 1 .. Len(wire) : Valid(i) => BytesAt(wire[i])' = BytesAt(wire[i]),
         apc' \in Closing => wire = <<>>
  PROVE  WireInv'
<1>1. \A i \in 1 .. Len(wire) : SequenceOf(i)' = SequenceOf(i)
  BY DEF SequenceOf
<1>2. Taken \in Int /\ Taken' \in Int /\ \A i \in 1 .. Len(wire) : SequenceOf(i) \in Int
  <2>1. Taken \in Int /\ \A i \in 1 .. Len(wire) : SequenceOf(i) \in Int
    BY TakenType
  <2>2. claimed' \in Int
    BY DEF ReplTypeInv, ReplTypeOK, TypeOK, Sequence
  <2>3. Taken' \in Int
    BY <2>2 DEF Taken
  <2>  QED
    BY <2>1, <2>3
<1>3. ASSUME NEW i \in 1 .. Len(wire), Taken' - SequenceOf(i) < Size PROVE Valid(i)
  BY <1>2, <1>3, PipelineAssumption DEF Valid
<1>4. \A i \in 1 .. Len(wire') :
        /\ wire'[i].slot = Slot(SequenceOf(i))'
        /\ Taken' - SequenceOf(i)' < Size =>
             BytesAt(wire[i])' = MessageBytes(sent[Len(sent) - Len(wire) + i])'
  BY <1>1, <1>3 DEF WireInv, Slot, MessageBytes, Valid
<1>  QED
  BY <1>4 DEF WireInv, Closing

\* Writing a buffer leaves the bytes of the others alone, and reset and
\* setTransactionId those of the buffer itself.
LEMMA BytesKept ==
  ASSUME slots \in [SlotIds -> Buffer], NEW j \in SlotIds, NEW c,
         slots' = [slots EXCEPT ![j] = c], NEW q \in Pointer,
         \/ q.slot # j
         \/ /\ c.hdrTx = slots[j].hdrTx /\ c.hdrCount = slots[j].hdrCount
            /\ c.mem = slots[j].mem
  PROVE  BytesAt(q)' = BytesAt(q)
<1>1. q.slot \in SlotIds
  BY DEF Pointer
<1>2. /\ slots'[q.slot].hdrTx = slots[q.slot].hdrTx
      /\ slots'[q.slot].hdrCount = slots[q.slot].hdrCount
      /\ slots'[q.slot].mem = slots[q.slot].mem
  BY <1>1
<1>3. [i \in 1 .. q.size |-> slots'[q.slot].mem[i]] =
        [i \in 1 .. q.size |-> slots[q.slot].mem[i]]
  BY <1>2
<1>  QED
  BY <1>2, <1>3 DEF BytesAt

\* No valid message on the wire points at the open transaction.
LEMMA WireNotOpen ==
  ASSUME ReplTypeInv, MasterInv, WireInv, apc = "open",
         NEW i \in 1 .. Len(wire), Valid(i)
  PROVE  wire[i].slot # Slot(curSeq)
<1>1. /\ replicated /\ curSeq = claimed /\ claimed = cursor + 1
      /\ next <= cursor + 1 /\ next \in Nat /\ cursor \in Int /\ curSeq \in Int
  BY DEF MasterInv, RingInv, ClaimInv, CountersInv, OrderInv, TypeOK, Sequence
<1>2. Len(wire) \in Nat /\ i \in Nat /\ 1 <= i /\ i <= Len(wire) /\ wire # <<>>
  BY DEF ReplTypeInv, ReplTypeOK
<1>3. PICK s \in Int : s = SequenceOf(i)
  BY TakenType
<1>4. s < curSeq /\ curSeq - s < Size
  BY <1>1, <1>2, <1>3, PipelineAssumption DEF Valid, Taken, SequenceOf
<1>5. Slot(curSeq) # Slot(s)
  BY <1>1, <1>4, SlotDistinct
<1>  QED
  BY <1>3, <1>5 DEF WireInv

\* Sending a message: it points at the event just sent, whose reset keeps the
\* bytes.
LEMMA SendsWire ==
  ASSUME ReplTypeInv, MasterInv, MasterInv', WireInv, Sends
  PROVE  WireInv'
<1>  DEFINE b == slots[Slot(next)]
            m == [id |-> b.hdrTx, ops |-> Records(b)]
            q == BuildReplicationMessage(b)
<1>1. /\ Slot(next) \in SlotIds /\ slots \in [SlotIds -> Buffer]
      /\ b \in Buffer /\ next \in Nat
  BY SlotType DEF ReplTypeInv, ReplTypeOK, TypeOK
<1>2. /\ slots' = [slots EXCEPT ![Slot(next)] = Reset(b)]
      /\ next' = next + 1 /\ sent' = Append(sent, m)
      /\ UNCHANGED <<apc, claimed, ended, inbox, subscribed>>
  BY DEF Sends, EventSent, appVars
<1>3. /\ Reset(b).hdrTx = b.hdrTx /\ Reset(b).hdrCount = b.hdrCount
      /\ Reset(b).mem = b.mem
  BY <1>1 DEF Reset, ClearLog, Buffer
<1>4. b.count = b.hdrCount /\ b.count \in 0 .. MaxLogs
  BY <1>1 DEF Sends, PublishedSlot, Buffer
<1>5. q \in Pointer /\ q.slot = Slot(next) /\ q.size = b.hdrCount
  BY <1>1, <1>4 DEF BuildReplicationMessage, Pointer
<1>6. \A p \in Pointer : BytesAt(p)' = BytesAt(p)
  BY <1>1, <1>2, <1>3, BytesKept
<1>7. BytesAt(q) = MessageBytes(m)
  <2>1. Len(Records(b)) = b.hdrCount
    BY <1>4, LogBufferAssumption DEF Records
  <2>  QED
    BY <1>5, <2>1 DEF BytesAt, MessageBytes, Records
<1>8. apc' \notin Closing
  <2>1. Len(sent') = Len(sent) + 1 /\ Len(sent) \in Nat
    BY <1>2 DEF ReplTypeInv, ReplTypeOK, TypeOK
  <2>2. Len(sent') <= Len(ended)
    BY <1>2 DEF MasterInv, PrefixInv, SentInOrder
  <2>  QED
    BY <1>2, <2>1, <2>2 DEF MasterInv, OrderInv, Closing
<1>9. wire \in Seq(Pointer) /\ sent \in Seq(Message) /\ inbox \in Seq(Bytes)
  BY DEF ReplTypeInv, ReplTypeOK, TypeOK
<1>a. Taken' = Taken
  BY <1>2 DEF Taken
<1>  HIDE DEF q, m, b
<1>10. CASE ~subscribed
  <2>1. wire = <<>> /\ wire' = <<>>
    BY <1>10 DEF Sends, WireInv
  <2>  QED
    BY <1>2, <1>1, <1>8, <1>9, <2>1 DEF WireInv, Closing
<1>11. CASE subscribed
  <2>1. wire' = Append(wire, q) /\ subscribed'
    BY <1>2, <1>11 DEF Sends, q, b
  <2>2. ASSUME NEW i \in 1 .. Len(wire')
        PROVE  /\ wire'[i].slot = Slot(next' - 1 - Len(wire') + i)
               /\ Taken - (next' - 1 - Len(wire') + i) < Size =>
                    BytesAt(wire[i])' = MessageBytes(sent'[Len(sent') - Len(wire') + i])
    <3>1. CASE i = Len(wire')
      <4>1. /\ Len(wire') = Len(wire) + 1 /\ Len(sent') = Len(sent) + 1
            /\ Len(wire) \in Nat /\ Len(sent) \in Nat
            /\ wire'[i] = q /\ sent'[Len(sent')] = m
        BY <1>2, <1>9, <2>1, <3>1
      <4>2. next' - 1 - Len(wire') + i = next /\ Len(sent') - Len(wire') + i = Len(sent')
        BY <1>1, <1>2, <3>1, <4>1
      <4>3. PICK p \in Pointer : p = q
        BY <1>5
      <4>4. BytesAt(p)' = MessageBytes(m)
        BY <1>6, <1>7, <4>3
      <4>  QED
        BY <1>5, <4>1, <4>2, <4>3, <4>4
    <3>2. CASE i # Len(wire')
      <4>1. i \in 1 .. Len(wire) /\ wire'[i] = wire[i] /\ wire[i] \in Pointer
        BY <1>9, <2>1, <2>2, <3>2
      <4>2. /\ Len(wire') = Len(wire) + 1 /\ Len(sent') = Len(sent) + 1
            /\ Len(wire) \in Nat /\ Len(sent) \in Nat /\ Len(inbox) \in Nat
        BY <1>2, <1>9, <2>1
      <4>3. Len(sent) - Len(wire) + i \in 1 .. Len(sent)
        BY <4>1, <4>2 DEF WireInv
      <4>4. sent'[Len(sent) - Len(wire) + i] = sent[Len(sent) - Len(wire) + i]
        BY <1>2, <1>9, <4>3
      <4>5. next' - 1 - Len(wire') + i = next - 1 - Len(wire) + i
        BY <1>1, <1>2, <4>1, <4>2
      <4>6. Len(sent') - Len(wire') + i = Len(sent) - Len(wire) + i
        BY <4>1, <4>2
      <4>7. PICK p \in Pointer : p = wire[i]
        BY <4>1
      <4>8. BytesAt(p)' = BytesAt(p)
        BY <1>6
      <4>9. /\ p.slot = Slot(next - 1 - Len(wire) + i)
            /\ Taken - (next - 1 - Len(wire) + i) < Size =>
                 BytesAt(p) = MessageBytes(sent[Len(sent) - Len(wire) + i])
        BY <4>1, <4>7 DEF WireInv, SequenceOf
      <4>  QED
        BY <4>1, <4>4, <4>5, <4>6, <4>7, <4>8, <4>9
    <3>  QED
      BY <3>1, <3>2
  <2>3. Len(wire') <= next' /\ Len(wire') + Len(inbox') <= Len(sent')
    BY <1>1, <1>2, <1>9, <2>1 DEF WireInv
  <2>4. \A i \in 1 .. Len(wire') :
          /\ wire'[i].slot = Slot(SequenceOf(i))'
          /\ Taken' - SequenceOf(i)' < Size =>
               BytesAt(wire[i])' = MessageBytes(sent[Len(sent) - Len(wire) + i])'
    BY <1>a, <2>2 DEF Slot, MessageBytes, SequenceOf
  <2>  QED
    BY <1>8, <2>1, <2>3, <2>4 DEF WireInv, Closing
<1>  QED
  BY <1>10, <1>11

\* What is on the wire stays what was sent, until its slot is granted again.
LEMMA WireStep ==
  ASSUME ReplTypeInv, ReplTypeInv', MasterInv, MasterInv', WireInv,
         [ReplNext]_allVars
  PROVE  WireInv'
<1>1. /\ wire \in Seq(Pointer) /\ sent \in Seq(Message) /\ inbox \in Seq(Bytes)
      /\ \A i \in 1 .. Len(wire) : wire[i] \in Pointer
      /\ slots \in [SlotIds -> Buffer] /\ next \in Nat /\ next' \in Nat
  <2>1. /\ wire \in Seq(Pointer) /\ sent \in Seq(Message) /\ inbox \in Seq(Bytes)
        /\ slots \in [SlotIds -> Buffer] /\ next \in Nat
    BY DEF ReplTypeInv, ReplTypeOK, TypeOK
  <2>2. next' \in Nat
    BY DEF ReplTypeInv, ReplTypeOK, TypeOK
  <2>  QED
    BY <2>1, <2>2
<1>2. apc \in Closing => wire = <<>>
  BY DEF WireInv, Closing
<1>b. claimed \in Int /\ Taken \in Int /\ Taken' \in Int
  <2>1. claimed \in Int
    BY DEF ReplTypeInv, ReplTypeOK, TypeOK, Sequence
  <2>2. claimed' \in Int
    BY DEF ReplTypeInv, ReplTypeOK, TypeOK, Sequence
  <2>  QED
    BY <2>1, <2>2 DEF Taken
<1>3. ASSUME UNCHANGED <<wire, inbox, sent, subscribed, next, slots>>,
             Taken <= Taken',
             apc' \in Closing => apc \in Closing \/ wire = <<>>
      PROVE  WireInv'
  <2>1. \A i \in 1 .. Len(wire) : BytesAt(wire[i])' = BytesAt(wire[i])
    BY <1>3 DEF BytesAt
  <2>  QED
    BY <1>2, <1>3, <2>1, WireFrame
<1>4. ASSUME NEW j \in SlotIds, NEW c, slots' = [slots EXCEPT ![j] = c],
             UNCHANGED <<wire, inbox, sent, subscribed, next>>,
             Taken <= Taken', apc' \notin Closing,
             \/ \A i \in 1 .. Len(wire) : Valid(i) => wire[i].slot # j
             \/ /\ c.hdrTx = slots[j].hdrTx /\ c.hdrCount = slots[j].hdrCount
                /\ c.mem = slots[j].mem
      PROVE  WireInv'
  <2>1. \A i \in 1 .. Len(wire) : Valid(i) => BytesAt(wire[i])' = BytesAt(wire[i])
    <3>  SUFFICES ASSUME NEW i \in 1 .. Len(wire), Valid(i)
                  PROVE  BytesAt(wire[i])' = BytesAt(wire[i])
      OBVIOUS
    <3>1. PICK q \in Pointer : q = wire[i]
      BY <1>1
    <3>2. BytesAt(q)' = BytesAt(q)
      BY <1>1, <1>4, <3>1, BytesKept
    <3>  QED
      BY <1>4, <3>1, <3>2
  <2>  QED
    BY <1>4, <2>1, WireFrame
<1>5. CASE Quiet
  BY <1>b, <1>3, <1>5 DEF Quiet, replVars, netVars
<1>6. CASE Stops
  <2>1. Taken <= Taken'
    BY <1>b, <1>6 DEF Stops, Taken
  <2>  QED
    BY <1>3, <1>6, <2>1 DEF Stops, netVars, Closing
<1>7. CASE Opens
  <2>1. wire = <<>> /\ wire' = <<>> /\ UNCHANGED <<inbox, sent, subscribed>>
    BY <1>2, <1>7 DEF Opens, netVars, Closing
  <2>  QED
    BY <1>1, <2>1 DEF WireInv
<1>8. CASE Sends
  BY <1>8, SendsWire
<1>9. ASSUME NEW s \in Sequence, Begins(s) PROVE WireInv'
  <2>1. Slot(s) \in SlotIds /\ slots[Slot(s)] \in Buffer
    BY <1>1, SlotType DEF Sequence
  <2>2. PICK c : c = SetTransactionId(slots[Slot(s)], nextTxId)
    OBVIOUS
  <2>3. /\ c.hdrTx = slots[Slot(s)].hdrTx /\ c.hdrCount = slots[Slot(s)].hdrCount
        /\ c.mem = slots[Slot(s)].mem
    BY <2>1, <2>2 DEF SetTransactionId, Buffer
  <2>4. /\ slots' = [slots EXCEPT ![Slot(s)] = c] /\ apc' = "open"
        /\ UNCHANGED <<wire, inbox, sent, subscribed, next>>
    BY <1>9, <2>2 DEF Begins, TxStarted, replVars, netVars, pubVars
  <2>5. Taken <= Taken'
    BY <1>b, <1>9 DEF Begins, TxStarted, Taken
  <2>  QED
    BY <1>4, <2>1, <2>3, <2>4, <2>5 DEF Closing
<1>10. ASSUME apc = "open"
       PROVE  /\ Slot(curSeq) \in SlotIds
              /\ \A i \in 1 .. Len(wire) : Valid(i) => wire[i].slot # Slot(curSeq)
  BY <1>10, WireNotOpen, OpenSlot DEF MasterInv
<1>11. ASSUME NEW r \in Ops, Logs(r) PROVE WireInv'
  <2>1. Taken <= Taken'
    BY <1>b, <1>11 DEF Logs, Taken
  <2>  QED
    BY <1>4, <1>10, <1>11, <2>1 DEF Logs, netVars, Closing
<1>12. ASSUME NEW b \in Buffer, NEW ops \in Seq(Ops), Ends(b, ops) PROVE WireInv'
  <2>1. Taken <= Taken'
    BY <1>b, <1>12 DEF Ends, Taken
  <2>  QED
    BY <1>4, <1>10, <1>12, <2>1 DEF Ends, replVars, netVars, Closing
<1>13. CASE Transmit
  <2>1. /\ wire # <<>> /\ wire' = Tail(wire)
        /\ inbox' = Append(inbox, BytesAt(Head(wire)))
        /\ UNCHANGED <<sent, next, slots, subscribed, apc, Taken>>
    BY <1>13 DEF Transmit, Taken, vars, pubVars, ringVars, appVars
  <2>2. /\ Len(wire) \in Nat /\ Len(wire) > 0 /\ Len(wire') = Len(wire) - 1
        /\ Len(inbox') = Len(inbox) + 1 /\ Len(inbox) \in Nat /\ Len(sent) \in Nat
        /\ \A i \in 1 .. Len(wire') : wire'[i] = wire[i + 1]
    BY <1>1, <2>1
  <2>3. ASSUME NEW i \in 1 .. Len(wire')
        PROVE  /\ wire'[i].slot = Slot(next' - 1 - Len(wire') + i)
               /\ Taken - (next' - 1 - Len(wire') + i) < Size =>
                    BytesAt(wire[i])' = MessageBytes(sent'[Len(sent') - Len(wire') + i])
    <3>1. i + 1 \in 1 .. Len(wire) /\ wire'[i] = wire[i + 1]
      BY <2>2
    <3>2. next' - 1 - Len(wire') + i = next - 1 - Len(wire) + (i + 1)
      BY <1>1, <2>1, <2>2
    <3>3. Len(sent') - Len(wire') + i = Len(sent) - Len(wire) + (i + 1)
      BY <1>1, <2>1, <2>2
    <3>4. BytesAt(wire[i])' = BytesAt(wire[i + 1])
      BY <2>1, <3>1 DEF BytesAt
    <3>  QED
      BY <2>1, <3>1, <3>2, <3>3, <3>4 DEF WireInv, SequenceOf
  <2>4. \A i \in 1 .. Len(wire') :
          /\ wire'[i].slot = Slot(SequenceOf(i))'
          /\ Taken' - SequenceOf(i)' < Size =>
               BytesAt(wire[i])' = MessageBytes(sent[Len(sent) - Len(wire) + i])'
    BY <2>1, <2>3 DEF Slot, MessageBytes, SequenceOf
  <2>5. apc' \notin Closing /\ subscribed'
    BY <1>2, <2>1 DEF WireInv
  <2>  QED
    BY <1>1, <2>1, <2>2, <2>4, <2>5 DEF WireInv, Closing
<1>14. CASE SlaveStart \/ Redo \/ RedoCommit
  <2>1. /\ UNCHANGED <<wire, inbox, sent, next, slots, apc, Taken>>
        /\ subscribed' = subscribed \/ subscribed'
    BY <1>14 DEF Taken, SlaveStart, Redo, RedoCommit, netVars, vars, pubVars, ringVars, appVars
  <2>2. \A i \in 1 .. Len(wire) : BytesAt(wire[i])' = BytesAt(wire[i])
    BY <2>1 DEF BytesAt
  <2>  QED
    BY <2>1, <2>2 DEF WireInv, Slot, MessageBytes, SequenceOf
<1>15. CASE SlaveCrash
  <2>1. wire' = <<>> /\ inbox' = <<>> /\ UNCHANGED <<sent, next>>
    BY <1>15 DEF SlaveCrash, vars, pubVars
  <2>  QED
    BY <1>1, <2>1 DEF WireInv
<1>16. CASE Receive
  <2>1. /\ UNCHANGED <<wire, sent, next, slots, apc, subscribed, Taken>>
        /\ inbox # <<>> /\ inbox' = Tail(inbox)
    BY <1>16 DEF Taken, Receive, vars, pubVars, ringVars, appVars
  <2>2. \A i \in 1 .. Len(wire) : BytesAt(wire[i])' = BytesAt(wire[i])
    BY <2>1 DEF BytesAt
  <2>3. Len(inbox') <= Len(inbox) /\ Len(inbox) \in Nat /\ Len(inbox') \in Nat
    BY <1>1, <2>1
  <2>  QED
    BY <1>1, <2>1, <2>2, <2>3 DEF WireInv, Slot, MessageBytes, SequenceOf
<1>  QED
  BY <1>5, <1>6, <1>7, <1>8, <1>9, <1>11, <1>12, <1>13, <1>14, <1>15, <1>16,
     StepCases DEF MasterInv

\* The next message of the inbox is that of the transaction its place says.
LEMMA NextMessage ==
  ASSUME ReplTypeInv, MasterInv, WireInv, InboxInv, inbox # <<>>,
         NEW k, k = Len(sent) - Len(wire) - Len(inbox) + 1
  PROVE  /\ k \in 1 .. Len(ended)
         /\ Head(inbox) = MessageBytes(ended[k])
         /\ Head(inbox).id = k /\ Head(inbox).size = Len(Head(inbox).recs)
<1>1. /\ Len(inbox) \in Nat /\ Len(inbox) > 0 /\ Head(inbox) = inbox[1]
      /\ Len(wire) \in Nat /\ Len(sent) \in Nat /\ Len(ended) \in Nat
  BY DEF ReplTypeInv, ReplTypeOK, TypeOK
<1>2. k \in 1 .. Len(sent)
  BY <1>1 DEF WireInv
<1>3. Len(sent) <= Len(ended) /\ sent[k] = ended[k] /\ sent[k].id = k
  BY <1>2 DEF MasterInv, PrefixInv, SentInOrder
<1>4. inbox[1] = MessageBytes(sent[k])
  BY <1>1 DEF InboxInv
<1>  QED
  BY <1>1, <1>2, <1>3, <1>4 DEF MessageBytes

\* The inbox, and what a slave that missed nothing has seen.
LEMMA InboxStep ==
  ASSUME ReplTypeInv, ReplTypeInv', MasterInv, MasterInv', WireInv,
         WireInv', WireKeepsUp, InboxInv, [ReplNext]_allVars
  PROVE  InboxInv'
<1>1. /\ wire \in Seq(Pointer) /\ sent \in Seq(Message) /\ inbox \in Seq(Bytes)
      /\ Len(wire) \in Nat /\ Len(sent) \in Nat /\ Len(inbox) \in Nat
      /\ sprev \in Nat
  <2>1. /\ wire \in Seq(Pointer) /\ sent \in Seq(Message) /\ inbox \in Seq(Bytes)
        /\ sprev \in Nat
    BY DEF ReplTypeInv, ReplTypeOK, TypeOK
  <2>  QED
    BY <2>1
<1>2. ASSUME UNCHANGED <<slaveVars, netVars, sent>> PROVE InboxInv'
  BY <1>2 DEF slaveVars, netVars, InboxInv, MessageBytes, SlaveSeesEveryId
<1>3. CASE \/ Quiet \/ Stops \/ Opens \/ \E s \in Sequence : Begins(s)
           \/ \E r \in Ops : Logs(r)
           \/ \E b \in Buffer, ops \in Seq(Ops) : Ends(b, ops)
  BY <1>2, <1>3
     DEF Quiet, Stops, Opens, Begins, TxStarted, pubVars, Logs, Ends, replVars
<1>4. CASE Sends
  <2>1. PICK m : sent' = Append(sent, m)
    BY <1>4 DEF Sends, EventSent
  <2>2. /\ Len(sent') = Len(sent) + 1
        /\ \A i \in 1 .. Len(sent) : sent'[i] = sent[i]
    BY <1>1, <2>1
  <2>3. UNCHANGED <<spc, sprev, sfault, subscribed, inbox>>
    BY <1>4 DEF Sends, slaveVars
  <2>4. CASE subscribed
    <3>0. missed' <=> missed
      BY <1>4, <2>4 DEF Sends
    <3>1. Len(wire') = Len(wire) + 1
      <4>1. wire' = Append(wire, BuildReplicationMessage(slots[Slot(next)]))
        BY <1>4, <2>4 DEF Sends
      <4>  QED
        BY <1>1, <4>1
    <3>2. ASSUME NEW i \in 1 .. Len(inbox)
          PROVE  inbox[i] = MessageBytes(sent'[Len(sent') - Len(wire') - Len(inbox) + i])
      <4>1. PICK k : k = Len(sent) - Len(wire) - Len(inbox) + i
        OBVIOUS
      <4>2. k \in 1 .. Len(sent) /\ Len(sent') - Len(wire') - Len(inbox) + i = k
        BY <1>1, <2>2, <3>1, <4>1 DEF WireInv
      <4>  QED
        BY <2>2, <4>1, <4>2 DEF InboxInv
    <3>3. \A i \in 1 .. Len(inbox') :
            inbox'[i] = MessageBytes(sent[Len(sent) - Len(wire) - Len(inbox) + i])'
      BY <2>3, <3>2 DEF MessageBytes
    <3>4. ~missed /\ spc # "stopped" =>
            sprev + Len(inbox) + Len(wire') = Len(sent')
      <4>  SUFFICES ASSUME ~missed, spc # "stopped"
                    PROVE  sprev + Len(inbox) + Len(wire') = Len(sent')
        OBVIOUS
      <4>1. sprev + Len(inbox) + Len(wire) = Len(sent)
        BY DEF InboxInv
      <4>  QED
        BY <1>1, <2>2, <3>1, <4>1
    <3>  QED
      BY <2>3, <2>4, <3>0, <3>3, <3>4 DEF InboxInv, SlaveSeesEveryId
  <2>5. CASE ~subscribed
    <3>1. missed'
      BY <1>4, <2>5 DEF Sends
    <3>2. inbox = <<>>
      BY <2>5 DEF InboxInv
    <3>  QED
      BY <2>3, <3>1, <3>2 DEF InboxInv, SlaveSeesEveryId
  <2>  QED
    BY <2>4, <2>5
<1>5. CASE Transmit
  <2>1. /\ wire # <<>> /\ wire' = Tail(wire)
        /\ inbox' = Append(inbox, BytesAt(Head(wire)))
        /\ UNCHANGED <<sent, subscribed, missed, spc, sprev, sfault>>
    BY <1>5 DEF Transmit, vars, pubVars, slaveVars
  <2>2. /\ Len(wire) > 0 /\ Len(wire') = Len(wire) - 1
        /\ Len(inbox') = Len(inbox) + 1 /\ Head(wire) = wire[1]
        /\ \A i \in 1 .. Len(inbox) : inbox'[i] = inbox[i]
        /\ inbox'[Len(inbox) + 1] = BytesAt(wire[1])
    BY <1>1, <2>1
  <2>3. ASSUME NEW i \in 1 .. Len(inbox')
        PROVE  inbox'[i] = MessageBytes(sent[Len(sent) - Len(wire') - Len(inbox') + i])
    <3>1. PICK k : k = Len(sent) - Len(wire) - Len(inbox) + i
      OBVIOUS
    <3>2. Len(sent) - Len(wire') - Len(inbox') + i = k
      BY <1>1, <2>2, <3>1
    <3>3. CASE i = Len(inbox) + 1
      <4>1. k = Len(sent) - Len(wire) + 1
        BY <1>1, <3>1, <3>3
      <4>2. 1 \in 1 .. Len(wire) /\ Taken - SequenceOf(1) < Size
        BY <1>1, <2>1, <2>2 DEF WireKeepsUp
      <4>  QED
        BY <1>1, <2>2, <3>2, <3>3, <4>1, <4>2 DEF WireInv
    <3>4. CASE i \in 1 .. Len(inbox)
      BY <2>2, <3>1, <3>2, <3>4 DEF InboxInv
    <3>  QED
      BY <1>1, <2>2, <3>3, <3>4
  <2>4. \A i \in 1 .. Len(inbox') :
          inbox'[i] = MessageBytes(sent[Len(sent) - Len(wire) - Len(inbox) + i])'
    BY <2>1, <2>3 DEF MessageBytes
  <2>5. ~missed /\ spc # "stopped" => sprev + Len(inbox') + Len(wire') = Len(sent)
    <3>  SUFFICES ASSUME ~missed, spc # "stopped"
                  PROVE  sprev + Len(inbox') + Len(wire') = Len(sent)
      OBVIOUS
    <3>1. sprev + Len(inbox) + Len(wire) = Len(sent)
      BY DEF InboxInv
    <3>2. /\ sprev \in Int /\ Len(inbox) \in Int /\ Len(wire) \in Int
          /\ Len(inbox') = Len(inbox) + 1 /\ Len(wire') = Len(wire) - 1
      BY <1>1, <2>2
    <3>  QED
      BY <3>1, <3>2
  <2>6. subscribed
    BY <2>1 DEF WireInv
  <2>  QED
    BY <2>1, <2>4, <2>5, <2>6 DEF InboxInv, SlaveSeesEveryId
<1>6. CASE SlaveStart
  <2>1. /\ UNCHANGED <<wire, inbox, sent, missed, sprev, sfault>>
        /\ spc = "off" /\ spc' = "idle" /\ subscribed'
    BY <1>6 DEF SlaveStart, vars, pubVars
  <2>  QED
    BY <2>1 DEF InboxInv, MessageBytes, SlaveSeesEveryId
<1>7. CASE SlaveCrash
  <2>1. /\ spc \in {"idle", "redo"} /\ spc' = "off" /\ ~subscribed' /\ missed'
        /\ inbox' = <<>> /\ sfault' = sfault
    BY <1>7 DEF SlaveCrash
  <2>  QED
    BY <2>1 DEF InboxInv, SlaveSeesEveryId
<1>8. CASE Redo \/ RedoCommit
  <2>1. UNCHANGED <<wire, inbox, sent, missed, sprev, subscribed>> /\ spc = "redo"
    BY <1>8 DEF Redo, RedoCommit, SlaveFail, vars, pubVars, netVars
  <2>2. \/ spc' \in {"idle", "redo"} /\ sfault' = sfault
        \/ spc' = "stopped" /\ sfault' \in {"bad_record", "redo_failed"}
    BY <1>8, <2>1 DEF Redo, RedoCommit, SlaveFail
  <2>  QED
    BY <2>1, <2>2 DEF InboxInv, MessageBytes, SlaveSeesEveryId
<1>9. CASE Receive
  <2>1. /\ UNCHANGED <<wire, sent, missed, subscribed>> /\ spc = "idle"
        /\ inbox # <<>> /\ inbox' = Tail(inbox)
    BY <1>9 DEF Receive, vars, pubVars
  <2>2. /\ Len(inbox) > 0 /\ Len(inbox') = Len(inbox) - 1
        /\ \A i \in 1 .. Len(inbox') : inbox'[i] = inbox[i + 1]
    BY <1>1, <2>1
  <2>3. PICK k : k = Len(sent) - Len(wire) - Len(inbox) + 1
    OBVIOUS
  <2>4. Head(inbox).id = k
    BY <2>1, <2>3, NextMessage
  <2>5. ~missed => k = sprev + 1
    <3>1. ~missed => sprev + Len(inbox) + Len(wire) = Len(sent)
      BY <2>1 DEF InboxInv
    <3>2. sprev \in Int /\ Len(inbox) \in Int /\ Len(wire) \in Int /\ Len(sent) \in Int
      BY <1>1
    <3>  QED
      BY <2>3, <3>1, <3>2
  <2>6. ASSUME NEW i \in 1 .. Len(inbox')
        PROVE  inbox'[i] = MessageBytes(sent[Len(sent) - Len(wire) - Len(inbox') + i])
    <3>1. i + 1 \in 1 .. Len(inbox) /\ inbox'[i] = inbox[i + 1]
      BY <1>1, <2>2
    <3>2. Len(sent) - Len(wire) - Len(inbox') + i =
            Len(sent) - Len(wire) - Len(inbox) + (i + 1)
      BY <1>1, <2>2
    <3>  QED
      BY <3>1, <3>2 DEF InboxInv
  <2>7. \A i \in 1 .. Len(inbox') :
          inbox'[i] = MessageBytes(sent[Len(sent) - Len(wire) - Len(inbox) + i])'
    BY <2>1, <2>6 DEF MessageBytes
  <2>8. CASE SlaveFail("bad_size")
    BY <2>1, <2>7, <2>8 DEF SlaveFail, InboxInv, SlaveSeesEveryId
  <2>9. CASE SlaveFail("id_mismatch") /\ ~IdExpected(Head(inbox).id)
    <3>1. missed
      BY <1>1, <2>4, <2>5, <2>9 DEF IdExpected
    <3>  QED
      BY <2>1, <2>7, <2>9, <3>1 DEF SlaveFail, InboxInv, SlaveSeesEveryId
  <2>10. CASE sprev' = Head(inbox).id /\ spc' = "redo" /\ sfault' = sfault
    <3>1. ~missed => sprev' + Len(inbox') + Len(wire) = Len(sent)
      BY <1>1, <2>2, <2>3, <2>4, <2>10
    <3>  QED
      BY <2>1, <2>7, <2>10, <3>1 DEF InboxInv, SlaveSeesEveryId
  <2>  QED
    BY <1>9, <2>8, <2>9, <2>10 DEF Receive
<1>  QED
  BY <1>3, <1>4, <1>5, <1>6, <1>7, <1>8, <1>9, StepCases DEF MasterInv

-----------------------------------------------------------------------------
(***************************************************************************)
(* The slave's table                                                       *)
(***************************************************************************)
\* The records up to j are those before it and the one at j.
LEMMA PrefixOneMore ==
  ASSUME NEW ops \in Seq(Ops), NEW j \in 1 .. Len(ops)
  PROVE  /\ SubSeq(ops, 1, j - 1) \in Seq(Ops)
         /\ SubSeq(ops, 1, j) = Append(SubSeq(ops, 1, j - 1), ops[j])
<1>1. j \in Nat /\ Len(ops) \in Nat /\ 1 <= j /\ j <= Len(ops)
  OBVIOUS
<1>2. /\ SubSeq(ops, 1, j - 1) \in Seq(Ops) /\ Len(SubSeq(ops, 1, j - 1)) = j - 1
      /\ SubSeq(ops, 1, j) \in Seq(Ops) /\ Len(SubSeq(ops, 1, j)) = j
  BY <1>1
<1>3. \A i \in 1 .. j : SubSeq(ops, 1, j)[i] =
                         Append(SubSeq(ops, 1, j - 1), ops[j])[i]
  BY <1>1, <1>2
<1>4. /\ Append(SubSeq(ops, 1, j - 1), ops[j]) \in Seq(Ops)
      /\ Len(Append(SubSeq(ops, 1, j - 1), ops[j])) = j
  BY <1>1, <1>2
<1>  QED
  BY <1>2, <1>3, <1>4

\* The transaction the slave is in, and the table it has reached.
LEMMA RedoFacts ==
  ASSUME ReplTypeInv, SlaveInv, spc = "redo", NEW ops, ops = ended[sprev].ops
  PROVE  /\ sprev \in 1 .. Len(ended) /\ ops \in Seq(Ops)
         /\ msg.size = Len(ops) /\ msg.recs = ops /\ base \in Tables
         /\ pos \in 1 .. Len(ops) + 1
<1>1. sprev \in Nat /\ done \in Nat /\ Len(ended) \in Nat /\ base \in Tables /\ pos \in Nat /\ pos >= 1
  BY LogBufferAssumption DEF ReplTypeInv, ReplTypeOK, TypeOK
<1>2. sprev \in 1 .. Len(ended)
  BY <1>1 DEF SlaveInv
<1>3. ops \in Seq(Ops)
  BY <1>2 DEF SlaveInv
<1>4. Len(ops) \in Nat
  BY <1>3
<1>  QED
  BY <1>1, <1>2, <1>3, <1>4 DEF SlaveInv, MessageBytes

\* The slave redoes whole transactions in order, or stops.
LEMMA SlaveKept ==
  ASSUME ReplTypeInv, MasterInv, MasterInv',
         WireInv, InboxInv, SlaveInv, [ReplNext]_allVars
  PROVE  SlaveInv'
<1>1. /\ Len(ended) \in Nat /\ ended \in Seq(Message) /\ done \in Nat /\ sprev \in Nat
      /\ base \in Tables /\ stable \in Tables
  BY DEF ReplTypeInv, ReplTypeOK, TypeOK
<1>2. ASSUME UNCHANGED <<slaveVars, ended>> PROVE SlaveInv'
  BY <1>2 DEF slaveVars, SlaveInv, MessageBytes, Replay
<1>3. CASE \/ Quiet \/ Stops \/ Opens \/ Sends \/ Transmit
           \/ \E s \in Sequence : Begins(s)
           \/ \E r \in Ops : Logs(r)
  BY <1>2, <1>3
     DEF Quiet, Stops, Opens, Sends, EventSent, Begins, TxStarted, Logs, replVars,
         appVars, Transmit, vars
<1>4. ASSUME NEW b \in Buffer, NEW ops \in Seq(Ops), Ends(b, ops) PROVE SlaveInv'
  <2>1. /\ ended' = Append(ended, [id |-> b.txId, ops |-> ops])
        /\ UNCHANGED <<spc, msg, pos, sprev, stable, sfault, done, base>>
    BY <1>4 DEF Ends, replVars, slaveVars
  <2>2. /\ Len(ended') = Len(ended) + 1
        /\ \A i \in 1 .. Len(ended) : ended'[i] = ended[i]
        /\ ended'[Len(ended) + 1].ops = ops
    BY <1>1, <2>1
  <2>3. \A i \in 1 .. Len(ended') : ended'[i].ops \in Seq(Ops)
    BY <1>1, <2>2 DEF SlaveInv
  <2>4. done' <= Len(ended')
    BY <1>1, <2>1, <2>2 DEF SlaveInv
  <2>5. ASSUME spc = "redo"
        PROVE  sprev \in 1 .. Len(ended) /\ ended'[sprev] = ended[sprev]
    BY <1>1, <2>2, <2>5 DEF SlaveInv
  <2>6. ASSUME spc' = "redo"
        PROVE  /\ sprev' = done' + 1 /\ sprev' <= Len(ended')
               /\ msg' = MessageBytes(ended'[sprev'])
               /\ pos' <= Len(ended'[sprev'].ops) + 1
               /\ stable' = Replay(base', SubSeq(ended'[sprev'].ops, 1, pos' - 1))
    BY <1>1, <2>1, <2>2, <2>5, <2>6 DEF SlaveInv
  <2>  QED
    BY <2>1, <2>3, <2>4, <2>6 DEF SlaveInv, MessageBytes, Replay
<1>5. CASE SlaveStart
  <2>1. /\ UNCHANGED <<ended, sprev, stable, done, base, sfault>>
        /\ spc = "off" /\ spc' = "idle"
    BY <1>5 DEF SlaveStart, vars, appVars
  <2>  QED
    BY <2>1 DEF SlaveInv
<1>6. CASE SlaveCrash
  <2>1. /\ UNCHANGED <<ended, sfault>> /\ spc' = "off"
        /\ sprev' = 0 /\ done' = 0 /\ stable' = base'
    BY <1>6 DEF SlaveCrash, vars, appVars
  <2>  QED
    BY <1>1, <2>1 DEF SlaveInv
<1>7. CASE Receive
  <2>1. spc = "idle" /\ inbox # <<>> /\ ended' = ended
    BY <1>7 DEF Receive, vars, appVars
  <2>2. PICK k : k = Len(sent) - Len(wire) - Len(inbox) + 1
    OBVIOUS
  <2>3. /\ k \in 1 .. Len(ended) /\ Head(inbox) = MessageBytes(ended[k])
        /\ Head(inbox).id = k /\ Head(inbox).size = Len(Head(inbox).recs)
    BY <2>1, <2>2, NextMessage
  <2>4. ended[k].ops \in Seq(Ops)
    BY <2>3 DEF SlaveInv
  <2>5. ~(Head(inbox).size > Len(Head(inbox).recs))
    BY <2>3, <2>4 DEF MessageBytes
  <2>6. CASE SlaveFail("id_mismatch")
    BY <2>1, <2>6 DEF SlaveFail, SlaveInv
  <2>7. CASE /\ IdExpected(Head(inbox).id) /\ sprev' = Head(inbox).id
             /\ msg' = Head(inbox) /\ pos' = 1 /\ spc' = "redo"
             /\ UNCHANGED <<stable, sfault, done, base>>
    <3>1. /\ sprev' = k /\ k = sprev + 1 /\ k = done + 1 /\ stable = base
          /\ msg' = MessageBytes(ended[k])
      BY <2>1, <2>3, <2>7 DEF IdExpected, SlaveInv
    <3>2. stable = Replay(base, SubSeq(ended[k].ops, 1, 0))
      <4>1. SubSeq(ended[k].ops, 1, 0) = <<>>
        BY <2>4
      <4>  QED
        BY <1>1, <3>1, <4>1, ReplayNothing
    <3>3. Len(ended[k].ops) \in Nat
      BY <2>4
    <3>4. /\ sprev' = done' + 1 /\ sprev' <= Len(ended')
          /\ msg' = MessageBytes(ended'[sprev'])
          /\ pos' <= Len(ended'[sprev'].ops) + 1
          /\ stable' = Replay(base', SubSeq(ended'[sprev'].ops, 1, pos' - 1))
      BY <1>1, <2>1, <2>3, <2>7, <3>1, <3>2, <3>3
    <3>  QED
      BY <2>1, <2>7, <3>4 DEF SlaveInv, MessageBytes, Replay
  <2>  QED
    BY <1>7, <2>5, <2>6, <2>7 DEF Receive
<1>8. CASE Redo
  <2>1. spc = "redo" /\ pos <= msg.size /\ ended' = ended
    BY <1>8 DEF Redo, vars, appVars
  <2>2. PICK ops : ops = ended[sprev].ops
    OBVIOUS
  <2>3. /\ sprev \in 1 .. Len(ended) /\ ops \in Seq(Ops)
        /\ msg.size = Len(ops) /\ msg.recs = ops
        /\ pos \in 1 .. Len(ops) + 1
    BY <2>1, <2>2, RedoFacts
  <2>4. PICK r : r = msg.recs[pos]
    OBVIOUS
  <2>5. pos \in 1 .. Len(ops) /\ r \in Ops /\ r = ops[pos]
    BY <2>1, <2>3, <2>4
  <2>6. r # NoOp
    BY <2>5, LogBufferAssumption
  <2>7. CASE SlaveFail("redo_failed")
    BY <2>1, <2>7 DEF SlaveFail, SlaveInv
  <2>8. CASE /\ stable' = [stable EXCEPT ![r.key] =
                            IF r.type = "put" THEN RedoValue(r.val) ELSE Absent]
             /\ pos' = pos + 1
             /\ UNCHANGED <<spc, starts, msg, sprev, sfault, done, base>>
    <3>1. stable' = [stable EXCEPT ![r.key] = Written(r)]
      BY <2>5, <2>8 DEF Written
    <3>2. stable = Replay(base, SubSeq(ops, 1, pos - 1))
      BY <2>1, <2>2 DEF SlaveInv
    <3>3. /\ SubSeq(ops, 1, pos - 1) \in Seq(Ops)
          /\ SubSeq(ops, 1, pos) = Append(SubSeq(ops, 1, pos - 1), r)
      BY <2>3, <2>5, PrefixOneMore
    <3>4. stable' = Replay(base, SubSeq(ops, 1, pos))
      <4>1. PICK pre \in Seq(Ops) : pre = SubSeq(ops, 1, pos - 1)
        BY <3>3
      <4>2. Replay(base, Append(pre, r)) =
              [Replay(base, pre) EXCEPT ![r.key] = Written(r)]
        BY <1>1, <2>5, ReplayOneMore
      <4>  QED
        BY <3>1, <3>2, <3>3, <4>1, <4>2
    <3>5. pos' - 1 = pos /\ pos' <= Len(ops) + 1
      BY <2>3, <2>5, <2>8
    <3>6. /\ sprev' = done' + 1 /\ sprev' <= Len(ended')
          /\ msg' = MessageBytes(ended'[sprev'])
          /\ pos' <= Len(ended'[sprev'].ops) + 1
          /\ stable' = Replay(base', SubSeq(ended'[sprev'].ops, 1, pos' - 1))
      BY <2>1, <2>2, <2>8, <3>4, <3>5 DEF SlaveInv
    <3>  QED
      BY <2>1, <2>8, <3>6 DEF SlaveInv, MessageBytes, Replay
  <2>  QED
    BY <1>8, <2>4, <2>6, <2>7, <2>8 DEF Redo
<1>9. CASE RedoCommit
  <2>1. /\ spc = "redo" /\ spc' = "idle" /\ done' = sprev /\ base' = stable
        /\ UNCHANGED <<sprev, stable, sfault, ended>>
    BY <1>9 DEF RedoCommit, vars, appVars
  <2>  QED
    BY <2>1 DEF SlaveInv
<1>  QED
  BY <1>3, <1>4, <1>5, <1>6, <1>7, <1>8, <1>9, StepCases DEF MasterInv

-----------------------------------------------------------------------------
(***************************************************************************)
(* Theorems about the messages                                             *)
(***************************************************************************)
MessagesInv == ReplTypeInv /\ MasterInv /\ WireInv /\ InboxInv

\* Before the first message there is nothing on the wire or in the inbox.
LEMMA MessagesInit == ReplInit => MessagesInv
<1>  SUFFICES ASSUME ReplInit PROVE WireInv /\ InboxInv
  BY ReplTypeInit, MasterInit DEF MessagesInv
<1>1. /\ wire = <<>> /\ inbox = <<>> /\ sent = <<>> /\ next = 0 /\ sprev = 0
      /\ spc = "off" /\ sfault = "none" /\ ~subscribed
  BY DEF ReplInit, Init
<1>  QED
  BY <1>1 DEF WireInv, InboxInv, SlaveSeesEveryId

\* Together the four parts are inductive as long as the wire keeps up.
LEMMA MessagesStep ==
  ASSUME MessagesInv, WireKeepsUp, [ReplNext]_allVars
  PROVE  MessagesInv'
<1>1. ReplTypeInv' /\ MasterInv'
  BY ReplTypeStep, MasterKept DEF MessagesInv
<1>2. WireInv'
  BY <1>1, WireStep DEF MessagesInv
<1>3. InboxInv'
  BY <1>1, <1>2, InboxStep DEF MessagesInv
<1>  QED
  BY <1>1, <1>2, <1>3 DEF MessagesInv

\* While the I/O thread of the socket stays less than a ring behind begin(), the
\* wire and the inbox hold exactly the last messages sent.
THEOREM MessagesInvariant == ReplSpec /\ []WireKeepsUp => []MessagesInv
<1>1. MessagesInv /\ WireKeepsUp /\ [ReplNext]_allVars => MessagesInv'
  BY MessagesStep
<1>  QED
  BY <1>1, MessagesInit, PTL DEF ReplSpec

\* The part of it that needs no assumption about the socket.
OnWireInv == ReplTypeInv /\ MasterInv /\ WireInv

\* ... holds of every state.
LEMMA OnWireInvariant == ReplSpec => []OnWireInv
<1>1. ReplInit => OnWireInv
  BY MessagesInit DEF MessagesInv, OnWireInv
<1>2. OnWireInv /\ [ReplNext]_allVars => OnWireInv'
  BY ReplTypeStep, MasterKept, WireStep DEF OnWireInv
<1>  QED
  BY <1>1, <1>2, PTL DEF ReplSpec

\* A message still says what OnEvent sent when the socket transmits it, although its
\* buffer was reset and may have been claimed, unless begin() was granted its slot
\* again.
THEOREM WireIntactHolds == ReplSpec => []WireIntact
<1>1. OnWireInv => WireIntact
  <2>  SUFFICES ASSUME OnWireInv, NEW i \in DOMAIN wire, Taken - SequenceOf(i) < Size
                PROVE  BytesAt(wire[i]) = MessageBytes(sent[Len(sent) - Len(wire) + i])
    BY DEF WireIntact, MessageBytes
  <2>1. i \in 1 .. Len(wire)
    BY DEF OnWireInv, ReplTypeInv, ReplTypeOK
  <2>  QED
    BY <2>1 DEF OnWireInv, WireInv
<1>  QED
  BY <1>1, OnWireInvariant, PTL

\* While the wire keeps up, the id check of applyReplicationMessage fails only in a
\* slave that has really lost a message, or its own state.
THEOREM SlaveSeesEveryIdHolds ==
  ReplSpec /\ []WireKeepsUp => []SlaveSeesEveryId
<1>1. MessagesInv => SlaveSeesEveryId
  BY DEF MessagesInv, InboxInv
<1>  QED
  BY <1>1, MessagesInvariant, PTL

\* No sequence is claimed that would need more transactions than MaxTx.
ClaimBound == claimed < MaxTx

\* A claim has an id of its own, and there are MaxTx of them.
LEMMA ClaimBoundStep ==
  ASSUME MasterInv, ClaimBound, [ReplNext]_allVars PROVE ClaimBound'
<1>0. /\ claimed \in Int /\ cursor \in Int /\ nextTxId \in Nat /\ Len(ended) \in Nat
  BY DEF MasterInv, RingInv, TypeOK, Sequence
<1>1. [Next]_vars
  BY PipelineStep
<1>2. ASSUME claimed' = claimed PROVE ClaimBound'
  BY <1>2 DEF ClaimBound
<1>3. ASSUME NEW m \in BOOLEAN, Open(m) PROVE ClaimBound'
  BY <1>3, PipelineAssumption DEF Open, ClaimBound
<1>4. CASE BeginClaim
  <2>1. /\ apc = "idle" /\ nextTxId <= MaxTx /\ claimed' = claimed + 1
    BY <1>4 DEF BeginClaim
  <2>2. claimed = cursor /\ nextTxId = Len(ended) + 1 /\ cursor + 1 <= Len(ended)
    BY <2>1 DEF MasterInv, OrderInv, RingInv, ClaimInv, CountersInv, TypeOK
  <2>  QED
    BY <1>0, <2>1, <2>2, PipelineAssumption DEF ClaimBound
<1>5. ASSUME NEW a, Fail(a) PROVE claimed' = claimed
  BY <1>5 DEF Fail
<1>6. CASE BeginReuse \/ ClaimSlot \/ BeginAnother
  BY <1>2, <1>5, <1>6 DEF BeginReuse, ClaimSlot, BeginAnother, StartTx, TakeEvent
<1>7. CASE (\E op \in Ops : LogOp(op)) \/ Commit \/ Abort
  BY <1>2, <1>5, <1>7 DEF LogOp, Commit, Abort, EndTx
<1>8. CASE WaitStart \/ WaitDone \/ Close \/ Halt \/ Alert \/ Join
  BY <1>2, <1>8 DEF WaitStart, WaitDone, Close, Halt, Alert, Join
<1>9. CASE PubNext
  BY <1>2, <1>5, <1>9
     DEF PubNext, RunStart, ClearAlert, WaitFor, CheckAlert, CheckRunning, OnEvent,
         EndBatch, appVars
<1>10. CASE UNCHANGED vars
  BY <1>2, <1>10 DEF vars, appVars
<1>  QED
  BY <1>1, <1>3, <1>4, <1>6, <1>7, <1>8, <1>9, <1>10 DEF Next, AppNext

\* A master that runs no more transactions than the ring has slots never overruns
\* the wire, so that WireKeepsUp needs no assumption about the I/O thread.
THEOREM WireKeepsUpHolds ==
  ASSUME MaxTx <= Size PROVE ReplSpec => []WireKeepsUp
<1>1. OnWireInv /\ ClaimBound => WireKeepsUp
  <2>  SUFFICES ASSUME OnWireInv, ClaimBound, wire # <<>>
                PROVE  Taken - SequenceOf(1) < Size
    BY DEF WireKeepsUp
  <2>1. claimed \in Int /\ next \in Nat /\ Len(wire) \in Nat /\ Len(wire) <= next
    BY DEF OnWireInv, ReplTypeInv, ReplTypeOK, TypeOK, Sequence, WireInv
  <2>  QED
    BY <2>1, PipelineAssumption DEF ClaimBound, Taken, SequenceOf
<1>2. ReplInit => ClaimBound
  BY PipelineAssumption DEF ReplInit, Init, ClaimBound
<1>3. OnWireInv /\ ClaimBound /\ [ReplNext]_allVars => ClaimBound'
  BY ClaimBoundStep DEF OnWireInv
<1>  QED
  BY <1>1, <1>2, <1>3, OnWireInvariant, PTL DEF ReplSpec
-----------------------------------------------------------------------------
(***************************************************************************)
(* The slave implements log shipping                                       *)
(***************************************************************************)
\* A slave that was not started has seen nothing and redone nothing.
LEMMA SlaveInit == ReplInit => SlaveInv
BY DEF ReplInit, Init, SlaveInv

\* commitTransaction moves the slave to the table of the next transaction.
LEMMA CommitFacts ==
  ASSUME ReplTypeInv, SlaveInv, RedoCommit
  PROVE  /\ done < Len(ended) /\ done' = done + 1 /\ ended' = ended
         /\ base' = Replay(base, ended[done + 1].ops)
<1>0. Len(ended) \in Nat /\ done \in Nat
  BY DEF ReplTypeInv, ReplTypeOK, TypeOK
<1>1. /\ spc = "redo" /\ pos > msg.size /\ done' = sprev /\ base' = stable
      /\ ended' = ended
  BY DEF RedoCommit, vars, appVars
<1>2. PICK ops : ops = ended[sprev].ops
  OBVIOUS
<1>3. /\ sprev \in 1 .. Len(ended) /\ ops \in Seq(Ops)
      /\ msg.size = Len(ops) /\ pos \in 1 .. Len(ops) + 1
  BY <1>1, <1>2, RedoFacts
<1>4. pos - 1 = Len(ops)
  BY <1>1, <1>3
<1>5. SubSeq(ops, 1, pos - 1) = ops
  BY <1>3, <1>4
<1>6. sprev = done + 1 /\ stable = Replay(base, ops)
  BY <1>1, <1>2, <1>5 DEF SlaveInv
<1>  QED
  BY <1>0, <1>1, <1>2, <1>3, <1>6

\* A step is a step of LogShipping, or leaves its variables alone.
LEMMA ShipsLogStep ==
  ASSUME MessagesInv, MasterInv', SlaveInv, [ReplNext]_allVars
  PROVE  [LS!Next]_(LS!vars)
<1>0. Len(ended) \in Nat /\ ended \in Seq(Message) /\ done \in Nat
  BY DEF MessagesInv, ReplTypeInv, ReplTypeOK, TypeOK
<1>1. ASSUME UNCHANGED <<ended, done, base>> PROVE UNCHANGED LS!vars
  BY <1>1 DEF LS!vars
<1>2. CASE \/ Quiet \/ Stops \/ Opens \/ Sends \/ Transmit \/ SlaveStart
           \/ \E s \in Sequence : Begins(s)
           \/ \E r \in Ops : Logs(r)
  BY <1>1, <1>2
     DEF Quiet, Stops, Opens, Sends, EventSent, Begins, TxStarted, Logs, replVars,
         appVars, Transmit, SlaveStart, slaveVars, vars
<1>3. ASSUME NEW b \in Buffer, NEW ops \in Seq(Ops), Ends(b, ops) PROVE LS!End
  <2>1. PICK e : ended' = Append(ended, e)
    BY <1>3 DEF Ends
  <2>2. Len(ended') = Len(ended) + 1 /\ SubSeq(ended', 1, Len(ended)) = ended
    BY <1>0, <2>1
  <2>3. UNCHANGED <<done, base>>
    BY <1>3 DEF Ends, replVars, slaveVars
  <2>  QED
    BY <2>2, <2>3 DEF LS!End
<1>4. CASE SlaveCrash
  BY <1>4 DEF SlaveCrash, LS!Next, LS!Restart, vars, appVars
<1>5. CASE Receive \/ Redo
  BY <1>1, <1>5 DEF Receive, Redo, SlaveFail, vars, appVars
<1>6. CASE RedoCommit
  BY <1>6, CommitFacts DEF MessagesInv, LS!Next, LS!Apply
<1>  QED
  BY <1>2, <1>3, <1>4, <1>5, <1>6, StepCases DEF LS!Next, MessagesInv, MasterInv

\* While the wire keeps up, the slave implements log shipping: it redoes the
\* transactions the master ended whole, each once and in order, and after a restart
\* starts again from the first or stops.
THEOREM ShipsLogHolds == ReplSpec /\ []WireKeepsUp => ShipsLog
<1>1. ReplInit => LS!Init
  BY DEF ReplInit, Init, LS!Init
<1>2. MessagesInv /\ MessagesInv' /\ SlaveInv /\ [ReplNext]_allVars => SlaveInv'
  BY SlaveKept DEF MessagesInv
<1>3. MessagesInv /\ MessagesInv' /\ SlaveInv /\ [ReplNext]_allVars
        => [LS!Next]_(LS!vars)
  BY ShipsLogStep DEF MessagesInv
<1>  QED
  BY <1>1, <1>2, <1>3, SlaveInit, MessagesInvariant, PTL
     DEF ReplSpec, ShipsLog, LS!Spec

-----------------------------------------------------------------------------
(***************************************************************************)
(* The tables the transactions made                                        *)
(***************************************************************************)
\* The records of a transaction make a table of a table.
LEMMA ReplayType ==
  ASSUME NEW t \in Tables, NEW ops \in Seq(Ops) PROVE Replay(t, ops) \in Tables
<1>  DEFINE On(k) == {i \in DOMAIN ops : ops[i].key = k}
            n == Len(ops)
<1>1. n \in Nat /\ DOMAIN ops = 1 .. n /\ \A i \in 1 .. n : ops[i] \in Ops
  OBVIOUS
<1>2. ASSUME NEW k \in Keys, On(k) # {} PROVE Max(On(k)) \in 1 .. n
  <2>  HIDE DEF n
  <2>1. On(k) \subseteq 1 .. n
    BY <1>1
  <2>  HIDE DEF On
  <2>2. /\ On(k) \in SUBSET Int /\ n \in Int /\ \A x \in On(k) : x <= n
    BY <1>1, <2>1
  <2>3. Max(On(k)) \in On(k)
    BY <1>2, <2>2, MaxOfIntegers
  <2>  QED
    BY <2>1, <2>3
<1>3. \A r \in Ops : Written(r) \in Seq(Words) \cup {Absent}
  BY ReplicationAssumption, ValueType DEF Written, Puts, Dels
<1>4. Replay(t, ops) = [k \in Keys |-> IF On(k) = {} THEN t[k] ELSE Written(ops[Max(On(k))])]
  BY DEF Replay
<1>  HIDE DEF On, n
<1>5. ASSUME NEW k \in Keys
      PROVE  (IF On(k) = {} THEN t[k] ELSE Written(ops[Max(On(k))]))
               \in Seq(Words) \cup {Absent}
  <2>1. CASE On(k) = {}
    BY <2>1 DEF Tables
  <2>2. CASE On(k) # {}
    <3>1. ops[Max(On(k))] \in Ops
      BY <1>1, <1>2, <2>2
    <3>  QED
      BY <1>3, <2>2, <3>1
  <2>  QED
    BY <2>1, <2>2
<1>  QED
  BY <1>4, <1>5 DEF Tables

\* A transaction of no records finds every key it deletes ...
LEMMA DelsFindNothing == \A t : DelsFind(t, <<>>)
BY DEF DelsFind

\* ... and so does one with one more record whose key, if it deletes one, the records
\* before it have left in the table.
LEMMA DelsFindOneMore ==
  ASSUME NEW t \in Tables, NEW ops \in Seq(Ops), NEW r \in Ops, DelsFind(t, ops),
         r.type = "del" => Replay(t, ops)[r.key] # Absent
  PROVE  DelsFind(t, Append(ops, r))
<1>  DEFINE all == Append(ops, r)
            n == Len(ops)
<1>1. n \in Nat /\ Len(all) = n + 1 /\ all[n + 1] = r /\ all \in Seq(Ops)
      /\ \A i \in 1 .. n : all[i] = ops[i]
  OBVIOUS
<1>2. ASSUME NEW j \in 1 .. n + 1 PROVE SubSeq(all, 1, j - 1) = SubSeq(ops, 1, j - 1)
  OBVIOUS
<1>3. SubSeq(ops, 1, n) = ops
  OBVIOUS
<1>  HIDE DEF all, n
<1>  SUFFICES ASSUME NEW j \in 1 .. n + 1, all[j].type = "del"
              PROVE  Replay(t, SubSeq(all, 1, j - 1))[all[j].key] # Absent
  BY <1>1 DEF DelsFind, all
<1>4. CASE j = n + 1
  <2>1. SubSeq(all, 1, j - 1) = ops
    BY <1>1, <1>2, <1>3, <1>4
  <2>  QED
    BY <1>1, <1>4, <2>1
<1>5. CASE j \in 1 .. n
  BY <1>1, <1>2, <1>5 DEF DelsFind, n
<1>  QED
  BY <1>1, <1>4, <1>5

\* The history of tables goes with the log and the slave's place in it.
LEMMA HistoryFrame ==
  ASSUME NEW T, IsHistory(T), UNCHANGED <<ended, done, base>> PROVE IsHistory(T)'
BY DEF IsHistory

\* The master's table goes with its records.
LEMMA MasterFrame ==
  ASSUME NEW t, MasterAhead(t), UNCHANGED <<curOps, mtable, opens>>
  PROVE  MasterAhead(t)'
BY DEF MasterAhead, KeptValues

\* Before the first transaction the history is the empty table alone.
LEMMA HistoryInit == ReplInit => HistoryInv
<1>  SUFFICES ASSUME ReplInit PROVE HistoryInv
  OBVIOUS
<1>1. /\ ended = <<>> /\ curOps = <<>> /\ done = 0 /\ base = EmptyTable
      /\ mtable = EmptyTable /\ opens = 0 /\ sfault = "none"
  BY DEF ReplInit, Init
<1>2. EmptyTable \in Tables
  BY DEF EmptyTable, Tables
<1>3. PICK T : T = <<EmptyTable>>
  OBVIOUS
<1>4. T \in Seq(Tables) /\ Len(T) = 1 /\ T[1] = EmptyTable /\ Len(ended) = 0
  BY <1>1, <1>2, <1>3
<1>5. IsHistory(T)
  BY <1>1, <1>4 DEF IsHistory
<1>6. Replay(EmptyTable, curOps) = EmptyTable
  BY <1>1, <1>2, ReplayNothing
<1>7. MasterAhead(T[Len(ended) + 1])
  <2>1. KeptValues(mtable) = EmptyTable /\ \A k \in Keys : mtable[k] = Absent
    BY <1>1 DEF KeptValues, EmptyTable
  <2>  QED
    BY <1>1, <1>4, <1>6, <2>1, DelsFindNothing DEF MasterAhead
<1>  QED
  BY <1>1, <1>4, <1>5, <1>7, PipelineAssumption DEF HistoryInv, RedoAlwaysSucceeds

\* A transaction that ends adds the table it made to the history.
LEMMA HistoryEnds ==
  ASSUME AbortsWrites = FALSE, ReplTypeInv, SlaveInv, NEW T \in Seq(Tables),
         IsHistory(T), MasterAhead(T[Len(ended) + 1]),
         NEW b \in Buffer, NEW ops \in Seq(Ops), Ends(b, ops)
  PROVE  \E U \in Seq(Tables) : IsHistory(U)' /\ MasterAhead(U[Len(ended) + 1])'
<1>1. /\ ops = curOps /\ ended' = Append(ended, [id |-> b.txId, ops |-> ops])
      /\ curOps' = <<>> /\ UNCHANGED <<done, base, mtable, opens>>
  BY DEF Ends, replVars, slaveVars
<1>2. Len(ended) \in Nat /\ ended \in Seq(Message) /\ done \in Nat /\ done <= Len(ended)
  BY DEF ReplTypeInv, ReplTypeOK, TypeOK, SlaveInv
<1>3. PICK L \in Nat : L = Len(ended)
  BY <1>2
<1>4. /\ Len(ended') = L + 1 /\ ended'[L + 1].ops = ops
      /\ \A n \in 1 .. L : ended'[n] = ended[n]
  BY <1>1, <1>2, <1>3
<1>5. PICK last : last = Replay(T[L + 1], ops)
  OBVIOUS
<1>6. Len(T) = L + 1 /\ T[L + 1] \in Tables /\ last \in Tables
  <2>1. Len(T) = L + 1
    BY <1>3 DEF IsHistory
  <2>2. T[L + 1] \in Tables
    BY <1>3, <2>1
  <2>  QED
    BY <1>5, <2>1, <2>2, ReplayType
<1>7. PICK U : U = Append(T, last)
  OBVIOUS
<1>8. /\ U \in Seq(Tables) /\ Len(U) = L + 2 /\ U[L + 2] = last
      /\ \A n \in 1 .. L + 1 : U[n] = T[n]
  BY <1>3, <1>6, <1>7
<1>9. ASSUME NEW n \in 1 .. L + 1
      PROVE  U[n + 1] = Replay(U[n], ended'[n].ops) /\ DelsFind(U[n], ended'[n].ops)
  <2>1. CASE n = L + 1
    <3>1. U[n] = T[L + 1] /\ U[n + 1] = last
      BY <1>3, <1>8, <2>1
    <3>2. DelsFind(T[L + 1], ops)
      BY <1>1, <1>3 DEF MasterAhead
    <3>  QED
      BY <1>4, <1>5, <2>1, <3>1, <3>2
  <2>2. CASE n \in 1 .. L
    <3>1. n + 1 \in 1 .. L + 1 /\ n \in 1 .. L + 1
      BY <2>2
    <3>2. U[n] = T[n] /\ U[n + 1] = T[n + 1] /\ ended'[n] = ended[n]
      BY <1>4, <1>8, <2>2, <3>1
    <3>  QED
      BY <1>3, <2>2, <3>2 DEF IsHistory
  <2>  QED
    BY <1>3, <2>1, <2>2
<1>10. IsHistory(U)'
  <2>1. 1 \in 1 .. L + 1 /\ done + 1 \in 1 .. L + 1
    BY <1>2, <1>3
  <2>2. U[1] = EmptyTable /\ base' = U[done' + 1]
    BY <1>1, <1>8, <2>1 DEF IsHistory
  <2>3. Len(U) = Len(ended') + 1
    BY <1>3, <1>4, <1>8
  <2>  QED
    BY <1>4, <1>9, <2>2, <2>3 DEF IsHistory
<1>11. MasterAhead(last)'
  <2>1. Replay(last, curOps') = last
    BY <1>1, <1>6, ReplayNothing
  <2>2. \A k \in Keys : mtable[k] # Absent => last[k] # Absent
    BY <1>1, <1>3, <1>5 DEF MasterAhead
  <2>3. opens <= 1 => last = KeptValues(mtable)
    BY <1>1, <1>3, <1>5 DEF MasterAhead
  <2>4. DelsFind(last, curOps')
    BY <1>1, DelsFindNothing
  <2>  QED
    BY <1>1, <2>1, <2>2, <2>3, <2>4 DEF MasterAhead, KeptValues
<1>12. U[Len(ended') + 1] = last
  BY <1>3, <1>4, <1>8
<1>13. MasterAhead(U[Len(ended) + 1])'
  BY <1>11, <1>12 DEF MasterAhead
<1>  QED
  BY <1>8, <1>10, <1>13

\* A put or a del keeps the master's table ahead of the last transaction's.
LEMMA LogsAhead ==
  ASSUME ReplTypeInv, NEW t \in Tables, MasterAhead(t), NEW r \in Ops, Logs(r)
  PROVE  MasterAhead(t)'
<1>1. /\ curOps' = Append(curOps, r) /\ opens' = opens
      /\ r.type = "del" => mtable[r.key] # Absent
      /\ mtable' = [mtable EXCEPT ![r.key] = Stored(r)]
  BY DEF Logs
<1>2. curOps \in Seq(Ops) /\ mtable \in Tables /\ r.key \in Keys
  BY ReplicationAssumption DEF ReplTypeInv, ReplTypeOK, TypeOK, Puts, Dels
<1>3. PICK now : now = Replay(t, curOps)
  OBVIOUS
<1>4. now \in Tables
  BY <1>2, <1>3, ReplayType
<1>5. Replay(t, curOps') = [now EXCEPT ![r.key] = Written(r)]
  BY <1>1, <1>2, <1>3, ReplayOneMore
<1>6. /\ DelsFind(t, curOps) /\ \A k \in Keys : mtable[k] # Absent => now[k] # Absent
      /\ opens <= 1 => now = KeptValues(mtable)
  BY <1>3 DEF MasterAhead
<1>6a. \/ Stored(r) = Absent /\ Written(r) = Absent
       \/ Stored(r) # Absent /\ Written(r) = RedoValue(Stored(r)) /\ Written(r) # Absent
  BY ReplicationAssumption DEF Stored, Written, RedoValue, Puts, Dels
<1>7. DelsFind(t, curOps')
  <2>1. r.type = "del" => now[r.key] # Absent
    BY <1>1, <1>2, <1>6
  <2>  QED
    BY <1>1, <1>2, <1>3, <1>6, <2>1, DelsFindOneMore
<1>8. ASSUME NEW k \in Keys, mtable'[k] # Absent
      PROVE  Replay(t, curOps')[k] # Absent
  BY <1>1, <1>2, <1>4, <1>5, <1>6, <1>6a, <1>8 DEF Tables
<1>9. ASSUME opens' <= 1 PROVE Replay(t, curOps') = KeptValues(mtable')
  <2>1. now = KeptValues(mtable)
    BY <1>1, <1>6, <1>9
  <2>2. \A k \in Keys : [now EXCEPT ![r.key] = Written(r)][k] = KeptValues(mtable')[k]
    BY <1>1, <1>2, <1>4, <1>6a, <2>1 DEF KeptValues, Tables
  <2>3. [now EXCEPT ![r.key] = Written(r)] = KeptValues(mtable')
    BY <1>4, <2>2 DEF KeptValues, Tables
  <2>  QED
    BY <1>5, <2>3
<1>  QED
  BY <1>7, <1>8, <1>9 DEF MasterAhead, KeptValues

\* The next record the slave redoes does not fail.
LEMMA RedoSucceeds ==
  ASSUME ReplTypeInv, SlaveInv, NEW T, IsHistory(T), Redo
  PROVE  sfault' = sfault
<1>1. spc = "redo" /\ pos <= msg.size
  BY DEF Redo
<1>2. PICK ops : ops = ended[sprev].ops
  OBVIOUS
<1>3. /\ sprev \in 1 .. Len(ended) /\ ops \in Seq(Ops)
      /\ msg.size = Len(ops) /\ msg.recs = ops /\ pos \in 1 .. Len(ops) + 1
  BY <1>1, <1>2, RedoFacts
<1>4. pos \in 1 .. Len(ops) /\ ops[pos] \in Ops /\ ops[pos] # NoOp
  BY <1>1, <1>3, LogBufferAssumption
<1>5. sprev = done + 1 /\ stable = Replay(base, SubSeq(ops, 1, pos - 1))
  <2>1. done \in Nat /\ sprev = done + 1
    BY <1>1 DEF SlaveInv, ReplTypeInv, ReplTypeOK
  <2>  QED
    BY <1>1, <1>2, <2>1 DEF SlaveInv
<1>6. base = T[sprev] /\ DelsFind(T[sprev], ops)
  BY <1>2, <1>3, <1>5 DEF IsHistory
<1>7. ops[pos].type = "del" => stable[ops[pos].key] # Absent
  BY <1>4, <1>5, <1>6 DEF DelsFind
<1>  QED
  BY <1>3, <1>4, <1>7 DEF Redo

\* The history of tables is kept by every step.
LEMMA HistoryStep ==
  ASSUME AbortsWrites = FALSE, MessagesInv, MessagesInv', SlaveInv,
         SlaveInv', HistoryInv, [ReplNext]_allVars
  PROVE  HistoryInv'
<1>0. /\ ReplTypeInv /\ MasterInv /\ opens \in Nat /\ Len(ended) \in Nat
      /\ done \in Nat /\ done <= Len(ended)
      /\ apc # "closed" => opens # 0
  <2>1. ReplTypeInv /\ MasterInv
    BY DEF MessagesInv
  <2>2. opens \in Nat /\ ended \in Seq(Message) /\ done \in Nat
    BY <2>1 DEF ReplTypeInv, ReplTypeOK, TypeOK
  <2>3. done <= Len(ended)
    BY DEF SlaveInv
  <2>4. apc # "closed" => opens # 0
    BY <2>1 DEF MasterInv, OrderInv
  <2>  QED
    BY <2>1, <2>2, <2>3, <2>4
<1>1. PICK T \in Seq(Tables) :
        IsHistory(T) /\ (apc # "stopped" => MasterAhead(T[Len(ended) + 1]))
  BY DEF HistoryInv
<1>2. PICK t \in Tables : t = T[Len(ended) + 1]
  BY <1>0, <1>1 DEF IsHistory
<1>a. /\ apc \notin {"open", "stopped"} => curOps = <<>>
      /\ opens <= MaxOpens /\ (opens = 0 => mtable = EmptyTable)
      /\ sfault \in {"none", "id_mismatch"}
  BY DEF HistoryInv, RedoAlwaysSucceeds
<1>3. ASSUME UNCHANGED <<ended, done, base>>,
             apc' # "stopped" => MasterAhead(t)',
             apc' \notin {"open", "stopped"} => curOps' = <<>>,
             opens' <= MaxOpens, opens' = 0 => mtable' = EmptyTable,
             sfault' \in {"none", "id_mismatch"}
      PROVE  HistoryInv'
  <2>1. IsHistory(T)'
    BY <1>1, <1>3, HistoryFrame
  <2>  QED
    BY <1>1, <1>2, <1>3, <2>1 DEF HistoryInv, RedoAlwaysSucceeds, EmptyTable
<1>4. ASSUME UNCHANGED <<ended, done, base, curOps, mtable, opens>>,
             apc' = "stopped" <=> apc = "stopped",
             apc' = "open" <=> apc = "open",
             sfault' \in {"none", "id_mismatch"}
      PROVE  HistoryInv'
  <2>1. apc' # "stopped" => MasterAhead(t)'
    BY <1>1, <1>2, <1>4, MasterFrame
  <2>  QED
    BY <1>3, <1>4, <1>a, <2>1
<1>5. CASE Quiet
  BY <1>4, <1>5, <1>a DEF Quiet, replVars, slaveVars
<1>6. CASE Stops
  BY <1>3, <1>6, <1>a DEF Stops, slaveVars
<1>7. CASE Opens
  <2>1. /\ curOps = <<>> /\ curOps' = <<>> /\ apc # "stopped" /\ opens' = opens + 1
        /\ mtable' = EmptyTable /\ opens < MaxOpens /\ apc' = "idle"
        /\ UNCHANGED <<ended, done, base, sfault>>
    BY <1>7, <1>a DEF Opens, slaveVars
  <2>2. MasterAhead(t)
    BY <1>1, <1>2, <2>1
  <2>3. opens' <= 1 => opens = 0 /\ opens <= 1
    BY <1>0, <2>1
  <2>5. \A k \in Keys : mtable'[k] = Absent
    BY <2>1 DEF EmptyTable
  <2>4. opens' <= 1 => Replay(t, curOps') = KeptValues(mtable')
    BY <1>a, <2>1, <2>2, <2>3 DEF MasterAhead
  <2>6. MasterAhead(t)'
    BY <2>1, <2>4, <2>5, DelsFindNothing DEF MasterAhead, KeptValues
  <2>7. opens' <= MaxOpens
    BY <1>0, <2>1, PipelineAssumption
  <2>  QED
    BY <1>3, <1>a, <2>1, <2>6, <2>7
<1>8. ASSUME NEW s \in Sequence, Begins(s) PROVE HistoryInv'
  <2>1. /\ curOps = <<>> /\ curOps' = <<>> /\ apc # "stopped" /\ apc' = "open"
        /\ UNCHANGED <<ended, done, base, mtable, opens, sfault>>
    BY <1>8, <1>a DEF Begins, TxStarted, replVars, slaveVars
  <2>2. MasterAhead(t)'
    BY <1>1, <1>2, <2>1, MasterFrame
  <2>  QED
    BY <1>3, <1>a, <2>1, <2>2
<1>9. ASSUME NEW r \in Ops, Logs(r) PROVE HistoryInv'
  <2>1. /\ apc = "open" /\ apc' = "open" /\ opens # 0
        /\ UNCHANGED <<ended, done, base, opens, sfault>>
    BY <1>0, <1>9 DEF Logs, slaveVars
  <2>2. MasterAhead(t)'
    BY <1>0, <1>1, <1>2, <1>9, <2>1, LogsAhead
  <2>  QED
    BY <1>3, <1>a, <2>1, <2>2
<1>10. ASSUME NEW b \in Buffer, NEW ops \in Seq(Ops), Ends(b, ops) PROVE HistoryInv'
  <2>1. /\ apc = "open" /\ curOps' = <<>> /\ UNCHANGED <<mtable, opens, sfault>>
    BY <1>10 DEF Ends, replVars, slaveVars
  <2>2. PICK U \in Seq(Tables) : IsHistory(U)' /\ MasterAhead(U[Len(ended) + 1])'
    BY <1>0, <1>1, <1>10, <2>1, HistoryEnds
  <2>3. RedoAlwaysSucceeds'
    BY <1>a, <2>1 DEF RedoAlwaysSucceeds
  <2>4. (opens = 0 => mtable = EmptyTable)' /\ (opens <= MaxOpens)'
    BY <1>a, <2>1 DEF EmptyTable
  <2>5. (\E V \in Seq(Tables) :
           IsHistory(V) /\ (apc # "stopped" => MasterAhead(V[Len(ended) + 1])))'
    BY <2>2
  <2>  QED
    BY <2>1, <2>3, <2>4, <2>5 DEF HistoryInv
<1>11. CASE Sends \/ Transmit \/ SlaveStart
  <2>1. UNCHANGED <<ended, done, base, curOps, mtable, opens, apc, sfault>>
    BY <1>11 DEF Sends, EventSent, Transmit, SlaveStart, slaveVars, vars, appVars
  <2>  QED
    BY <1>4, <1>a, <2>1
<1>12. CASE Receive
  <2>1. UNCHANGED <<ended, done, base, curOps, mtable, opens, apc>>
    BY <1>12 DEF Receive, SlaveFail, vars, appVars
  <2>2. sfault' \in {sfault, "bad_size", "id_mismatch"}
    BY <1>12 DEF Receive, SlaveFail
  <2>3. sfault' # "bad_size"
    BY DEF SlaveInv
  <2>  QED
    BY <1>4, <1>a, <2>1, <2>2, <2>3
<1>13. CASE Redo
  <2>1. UNCHANGED <<ended, done, base, curOps, mtable, opens, apc>>
    BY <1>13 DEF Redo, SlaveFail, vars, appVars
  <2>2. sfault' = sfault
    BY <1>0, <1>1, <1>13, RedoSucceeds
  <2>  QED
    BY <1>4, <1>a, <2>1, <2>2
<1>14. ASSUME UNCHANGED <<ended, curOps, mtable, opens, apc, sfault>>,
              done' \in 0 .. Len(ended), base' = T[done' + 1]
       PROVE  HistoryInv'
  <2>1. IsHistory(T)'
    BY <1>1, <1>14 DEF IsHistory
  <2>2. apc' # "stopped" => MasterAhead(t)'
    BY <1>1, <1>2, <1>14, MasterFrame
  <2>3. RedoAlwaysSucceeds'
    BY <1>a, <1>14 DEF RedoAlwaysSucceeds
  <2>  QED
    BY <1>1, <1>2, <1>14, <1>a, <2>1, <2>2, <2>3 DEF HistoryInv, EmptyTable
<1>15. CASE SlaveCrash
  <2>1. /\ UNCHANGED <<ended, curOps, mtable, opens, apc, sfault>>
        /\ done' = 0 /\ base' = EmptyTable
    BY <1>15 DEF SlaveCrash, vars, appVars
  <2>2. T[0 + 1] = EmptyTable
    BY <1>1 DEF IsHistory
  <2>  QED
    BY <1>0, <1>14, <2>1, <2>2
<1>16. CASE RedoCommit
  <2>1. UNCHANGED <<ended, curOps, mtable, opens, apc, sfault>>
    BY <1>16 DEF RedoCommit, vars, appVars
  <2>2. /\ done < Len(ended) /\ done' = done + 1
        /\ base' = Replay(base, ended[done + 1].ops)
    BY <1>0, <1>16, CommitFacts
  <2>3. done + 1 \in 1 .. Len(ended)
    BY <1>0, <2>2
  <2>4. T[(done + 1) + 1] = Replay(T[done + 1], ended[done + 1].ops)
        /\ base = T[done + 1]
    BY <1>1, <2>3 DEF IsHistory
  <2>  QED
    BY <1>0, <1>14, <2>1, <2>2, <2>3, <2>4
<1>  QED
  BY <1>0, <1>5, <1>6, <1>7, <1>8, <1>9, <1>10, <1>11, <1>12, <1>13, <1>15, <1>16,
     StepCases DEF MasterInv, MessagesInv

\* An application that never aborts a transaction that wrote.
KeepsWrites == AbortsWrites = FALSE

\* The slave, its place in the log and the tables the log produces stay together.
LEMMA HistoryInvariant ==
  ASSUME KeepsWrites
  PROVE  ReplSpec /\ []WireKeepsUp => [](MessagesInv /\ SlaveInv /\ HistoryInv)
<1>1. MessagesInv /\ MessagesInv' /\ SlaveInv /\ [ReplNext]_allVars => SlaveInv'
  BY SlaveKept DEF MessagesInv
<1>2. /\ MessagesInv /\ MessagesInv' /\ SlaveInv /\ SlaveInv' /\ HistoryInv
      /\ [ReplNext]_allVars
      => HistoryInv'
  BY HistoryStep DEF KeepsWrites
<1>  QED
  BY <1>1, <1>2, SlaveInit, HistoryInit, MessagesInvariant, PTL DEF ReplSpec

\* "applyReplicationMessage should always succeed": while the wire keeps up and the
\* application aborts nothing it wrote, no record is malformed and no DEL misses
\* its key, also after the master or the slave was restarted.
THEOREM RedoAlwaysSucceedsHolds ==
  ASSUME KeepsWrites
  PROVE  ReplSpec /\ []WireKeepsUp => []RedoAlwaysSucceeds
<1>1. HistoryInv => RedoAlwaysSucceeds
  BY DEF HistoryInv
<1>  QED
  BY <1>1, HistoryInvariant, PTL

\* While the wire keeps up and the application aborts nothing it wrote, a slave that
\* has applied every ended transaction of a master that was opened once has exactly
\* the master's keys, each with what redoLog keeps of its value.
THEOREM ReplicaFollowsMasterHolds ==
  ASSUME KeepsWrites
  PROVE  ReplSpec /\ []WireKeepsUp => []ReplicaFollowsMaster
<1>1. MessagesInv /\ SlaveInv /\ HistoryInv => ReplicaFollowsMaster
  <2>  SUFFICES ASSUME MessagesInv, SlaveInv, HistoryInv, opens = 1, spc = "idle",
                       apc = "idle", done = Len(ended)
                PROVE  stable = KeptValues(mtable)
    BY DEF ReplicaFollowsMaster
  <2>1. PICK T \in Seq(Tables) : IsHistory(T) /\ MasterAhead(T[Len(ended) + 1])
    BY DEF HistoryInv
  <2>2. curOps = <<>> /\ opens <= 1 /\ stable = base /\ base = T[Len(ended) + 1]
    BY <2>1 DEF HistoryInv, SlaveInv, IsHistory
  <2>3. base \in Tables
    BY DEF MessagesInv, ReplTypeInv, ReplTypeOK
  <2>4. Replay(base, curOps) = base
    BY <2>2, <2>3, ReplayNothing
  <2>  QED
    BY <2>1, <2>2, <2>4 DEF MasterAhead
<1>  QED
  BY <1>1, HistoryInvariant, PTL
=============================================================================
