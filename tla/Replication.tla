---------------------------- MODULE Replication ----------------------------
(***************************************************************************)
(* A master and a slave: the transaction pipeline of the master, its table,*)
(* the publish/subscribe socket between the two, and the slave thread that *)
(* redoes what it receives on the slave's table.                           *)
(*                                                                         *)
(*   nldb_table_put / nldb_table_del          the master's table           *)
(*   buildReplicationMessage, xs_sendmsg      a message that points into   *)
(*                                            the ring                     *)
(*   replication_slave_thread_func,                                        *)
(*   applyReplicationMessage, redoLog         the slave                    *)
(*                                                                         *)
(* The messages are not copied when they are sent: xs_msg_init_data keeps  *)
(* the address of the ring's buffer, and the I/O thread of the socket      *)
(* reads the bytes when it transmits them.  A table is a function from keys*)
(* to values; that the array tree implements one is the business of        *)
(* ArrayTree.  The slave's own transaction pipeline has no publisher; its  *)
(* begin and end are the reuse path of TxPipeline and change nothing here. *)
(***************************************************************************)
EXTENDS TxPipeline, SequencesExt

CONSTANTS
  Keys,
  Values,       \* sequences of words; a word is sizeof(value_length_t) bytes
  Absent,       \* the value of a key that is not in the table
  MaxStarts,    \* bound: times the slave process is started
  AbortsWrites  \* does the application abort transactions that wrote?

Puts == [type : {"put"}, key : Keys, val : Values]
Dels == [type : {"del"}, key : Keys]

ASSUME ReplicationAssumption ==
  /\ Ops = Puts \cup Dels
  /\ Values \subseteq Seq(UNION {ToSet(v) : v \in Values}) \ {<<>>}
  /\ \A v \in Values : Absent # v /\ Absent # SubSeq(v, 1, 1)
  /\ MaxStarts \in Nat
  /\ AbortsWrites \in BOOLEAN

VARIABLES
  mtable,     \* the master's table
  subscribed, \* has the publisher's socket seen the slave's subscription?
  wire,       \* messages sent and not yet transmitted: slot and size
  inbox,      \* messages the slave's socket has received: bytes
  spc,        \* where the slave thread is
  starts,     \* times the slave process was started
  msg,        \* the message being redone
  pos,        \* the next record of it
  sprev,      \* static prevTransactionId of applyReplicationMessage
  stable,     \* the slave's table
  sfault,     \* the assertion that stopped the slave process, or "none"
  \* history
  done,       \* the last transaction the slave committed
  base,       \* the slave's table when it committed it
  missed      \* has the slave lost a message or its state?

slaveVars == <<spc, starts, msg, pos, sprev, stable, sfault, done, base>>
netVars   == <<subscribed, wire, inbox, missed>>
replVars  == <<mtable, slaveVars, netVars>>
allVars   == <<vars, replVars>>

(***************************************************************************)
(* Types                                                                   *)
(***************************************************************************)
Words  == UNION {ToSet(v) : v \in Values}
Tables == [Keys -> Seq(Words) \cup {Absent}]
EmptyTable == [k \in Keys |-> Absent]

\* The bytes of a message: the two header fields, and the records it is long
\* enough for.
Bytes   == [id : Nat, size : 0 .. MaxLogs, recs : Seq(Ops \cup {NoOp})]
Pointer == [slot : SlotIds, size : 0 .. MaxLogs]

ReplTypeOK ==
  /\ TypeOK
  /\ mtable \in Tables
  /\ subscribed \in BOOLEAN
  /\ wire \in Seq(Pointer)
  /\ inbox \in Seq(Bytes)
  /\ spc \in {"off", "idle", "redo", "stopped"}
  /\ starts \in 0 .. MaxStarts
  /\ msg \in Bytes
  /\ pos \in 1 .. MaxLogs + 1
  /\ sprev \in Nat
  /\ stable \in Tables
  /\ sfault \in {"none", "bad_size", "id_mismatch", "bad_record", "redo_failed"}
  /\ done \in Nat /\ base \in Tables
  /\ missed \in BOOLEAN

ReplInit ==
  /\ Init
  /\ mtable = EmptyTable
  /\ subscribed = FALSE /\ wire = <<>> /\ inbox = <<>>
  /\ spc = "off" /\ starts = 0 /\ sprev = 0 /\ pos = 1
  /\ msg = [id |-> 0, size |-> 0, recs |-> <<>>]
  /\ stable = EmptyTable /\ done = 0 /\ base = EmptyTable
  /\ sfault = "none" /\ missed = FALSE

(***************************************************************************)
(* The master                                                              *)
(***************************************************************************)
\* nldb_table_put: put the key or replace its value, then log it.
TablePut(k, v) ==
  /\ LogOp([type |-> "put", key |-> k, val |-> v])
  /\ mtable' = [mtable EXCEPT ![k] = v]
  /\ UNCHANGED <<slaveVars, netVars>>

\* nldb_table_del: a key that is not found is not logged.
TableDel(k) ==
  /\ mtable[k] # Absent
  /\ LogOp([type |-> "del", key |-> k])
  /\ mtable' = [mtable EXCEPT ![k] = Absent]
  /\ UNCHANGED <<slaveVars, netVars>>

\* nldb_tx_abort drops the log and does not undo the table.
TxAbort ==
  /\ AbortsWrites \/ curOps = <<>>
  /\ Abort
  /\ UNCHANGED replVars

\* A buildReplicationMessage that forgets the last record.
BuildReplicationMessageShort(b) ==
  [slot |-> Slot(next), size |-> IF b.count > 0 THEN b.count - 1 ELSE 0]

\* buildReplicationMessage points the message at the buffer.
BuildReplicationMessage(b) == [slot |-> Slot(next), size |-> b.count]

\* OnEvent with its xs_sendmsg: the socket drops what nobody subscribed to.
SendEvent ==
  /\ OnEvent
  /\ wire' = IF fault' = "none" /\ subscribed
               THEN Append(wire, BuildReplicationMessage(slots[Slot(next)]))
               ELSE wire
  /\ missed' = (missed \/ ~subscribed)
  /\ UNCHANGED <<mtable, slaveVars, subscribed, inbox>>

\* nldb_db_close.  The ring is deleted before the publisher's socket is
\* terminated, so a message still on the wire would be read from freed memory:
\* the application is assumed to wait for the publisher, and to stay open until the
\* socket is drained.
CloseMaster ==
  /\ drained /\ wire = <<>>
  /\ Close
  /\ UNCHANGED replVars

\* nldb_db_open with a master_op; the table is created empty, it lives in memory
\* only.
OpenMaster ==
  /\ Open(TRUE)
  /\ mtable' = EmptyTable
  /\ UNCHANGED <<slaveVars, netVars>>

\* begin() is granted the slot it has claimed.
TakeSlot ==
  /\ ClaimSlot
  /\ UNCHANGED replVars

\* Every other step of the master.
MasterStep ==
  /\ \/ BeginReuse \/ BeginAnother \/ BeginClaim \/ Commit
     \/ WaitStart \/ WaitDone \/ Halt \/ Alert \/ Join
     \/ RunStart \/ ClearAlert \/ WaitFor \/ CheckAlert \/ CheckRunning
     \/ EndBatch
  /\ UNCHANGED replVars

(***************************************************************************)
(* The sockets                                                             *)
(***************************************************************************)
\* The bytes a message points at, now.
BytesAt(p) ==
  LET b == slots[p.slot] IN
    [id |-> b.hdrTx, size |-> b.hdrCount,
     recs |-> [i \in 1 .. p.size |-> b.mem[i]]]

\* The I/O thread of the publisher's socket reads the bytes and transmits them.
Transmit ==
  /\ fault = "none" /\ wire # <<>>
  /\ inbox' = Append(inbox, BytesAt(Head(wire)))
  /\ wire' = Tail(wire)
  /\ UNCHANGED <<vars, mtable, slaveVars, subscribed, missed>>

(***************************************************************************)
(* The slave                                                               *)
(***************************************************************************)
\* nldb_db_open with a slave_op in a new process; its subscription arrives.
SlaveStart ==
  /\ spc = "off" /\ starts < MaxStarts
  /\ starts' = starts + 1
  /\ spc' = "idle"
  /\ subscribed' = TRUE
  /\ UNCHANGED <<vars, mtable, msg, pos, sprev, stable, sfault, done, base,
                 wire, inbox, missed>>

\* The slave process dies with its tables and its static previous id, and the
\* sockets drop what was on its way.
SlaveCrash ==
  /\ spc \in {"idle", "redo"}
  /\ spc' = "off"
  /\ subscribed' = FALSE /\ wire' = <<>> /\ inbox' = <<>>
  /\ sprev' = 0 /\ stable' = EmptyTable
  /\ done' = 0 /\ base' = EmptyTable
  /\ missed' = TRUE
  /\ UNCHANGED <<vars, mtable, starts, msg, pos, sfault>>

SlaveFail(assertion) ==
  /\ sfault' = assertion
  /\ spc' = "stopped"
  /\ UNCHANGED <<starts, msg, pos, sprev, stable, done, base>>

\* An id check that only refuses ids it has seen.
IdExpectedNotSeen(id) == id > sprev

\* The id check of applyReplicationMessage.
IdExpected(id) == id = sprev + 1

\* xs_recvmsg and applyReplicationMessage up to its loop.
Receive ==
  /\ spc = "idle" /\ inbox # <<>>
  /\ LET m == Head(inbox) IN
       IF m.size > Len(m.recs) THEN SlaveFail("bad_size")
       ELSE IF ~IdExpected(m.id) THEN SlaveFail("id_mismatch")
       ELSE /\ sprev' = m.id
            /\ msg' = m /\ pos' = 1
            /\ spc' = "redo"
            /\ UNCHANGED <<starts, stable, sfault, done, base>>
  /\ inbox' = Tail(inbox)
  /\ UNCHANGED <<vars, mtable, subscribed, wire, missed>>

\* redoLog puts the first sizeof(valueLength) bytes of the value.
RedoValue(v) == SubSeq(v, 1, 1)

\* One turn of the loop: parseLog and redoLog.  An error aborts the slave's
\* transaction, which undoes nothing, and fails an assertion.
Redo ==
  /\ spc = "redo" /\ pos <= msg.size
  /\ LET r == msg.recs[pos] IN
       IF r = NoOp THEN SlaveFail("bad_record")
       ELSE IF r.type = "del" /\ stable[r.key] = Absent
              THEN SlaveFail("redo_failed")
       ELSE /\ stable' = [stable EXCEPT ![r.key] =
                            IF r.type = "put" THEN RedoValue(r.val) ELSE Absent]
            /\ pos' = pos + 1
            /\ UNCHANGED <<spc, starts, msg, sprev, sfault, done, base>>
  /\ UNCHANGED <<vars, mtable, netVars>>

\* commitTransaction.
RedoCommit ==
  /\ spc = "redo" /\ pos > msg.size
  /\ spc' = "idle"
  /\ done' = sprev /\ base' = stable
  /\ UNCHANGED <<vars, mtable, netVars, starts, msg, pos, sprev, stable, sfault>>

(***************************************************************************)
(* Specification                                                           *)
(***************************************************************************)
SlaveStep == Receive \/ Redo \/ RedoCommit

OtherNext ==
  \/ \E k \in Keys : (\E v \in Values : TablePut(k, v)) \/ TableDel(k)
  \/ OpenMaster \/ TxAbort \/ SendEvent \/ CloseMaster \/ MasterStep
  \/ Transmit
  \/ SlaveStart \/ SlaveCrash \/ SlaveStep

ReplNext == TakeSlot \/ OtherNext

ReplSpec == ReplInit /\ [][ReplNext]_allVars

\* The publisher, the I/O thread and the slave thread are scheduled.
ReplFairness ==
  /\ WF_allVars(SendEvent \/ (MasterStep /\ PubNext))
  /\ WF_allVars(Transmit)
  /\ WF_allVars(SlaveStep)

\* The last sequence that begin() was granted.
Taken == IF apc = "claiming" THEN claimed - 1 ELSE claimed

\* The sequence number of the message at place i of the wire.
SequenceOf(i) == next - 1 - Len(wire) + i

\* What the code leaves to the socket: its I/O thread stays less than a ring behind
\* begin(), so that no slot with a message on the wire is granted again.
WireKeepsUp == wire # <<>> => Taken - SequenceOf(1) < Size

(***************************************************************************)
(* Properties                                                              *)
(***************************************************************************)
\* What redoLog makes of a table with the records of a transaction: the last one on
\* a key counts, and of a value it keeps RedoValue.
Written(r) == IF r.type = "put" THEN RedoValue(r.val) ELSE Absent

Replay(t, ops) ==
  [k \in Keys |->
     LET on == {i \in DOMAIN ops : ops[i].key = k}
     IN  IF on = {} THEN t[k] ELSE Written(ops[Max(on)])]

\* The slave redoes the master's transactions whole, each once and in the order
\* they ended, whatever the sockets lose and whenever the slave restarts: it
\* stops rather than skip one (applyReplicationMessage's id check).
LS == INSTANCE LogShipping WITH log <- ended, applied <- done, replica <- base

ShipsLog == LS!Spec

\* A message that waits in the socket still says what OnEvent sent, although its
\* buffer was reset and even claimed, until begin() is granted the slot again.
WireIntact ==
  \A i \in DOMAIN wire :
    LET m == sent[Len(sent) - Len(wire) + i] IN
      Taken - SequenceOf(i) < Size =>
        BytesAt(wire[i]) = [id |-> m.id, size |-> Len(m.ops), recs |-> m.ops]

\* A slave that has lost nothing sees every id, once and in order: its assertion
\* "without any missing id, nor duplicate id" does not fail.
SlaveSeesEveryId == sfault = "id_mismatch" => missed

\* "applyReplicationMessage should always succeed": no record of a message is
\* malformed and no redone operation fails, in particular no DEL of a key the
\* slave does not have.
RedoAlwaysSucceeds == sfault \in {"none", "id_mismatch"}

\* Between transactions, a slave that has applied every ended transaction of a master
\* opened once has the master's keys, no more and no fewer, each with what redoLog
\* keeps of its value.
KeptValues(t) ==
  [k \in Keys |-> IF t[k] = Absent THEN Absent ELSE RedoValue(t[k])]

ReplicaFollowsMaster ==
  opens = 1 /\ spc = "idle" /\ apc = "idle" /\ done = Len(ended) =>
    stable = KeptValues(mtable)

\* "All comitted data will be replicated to the slave": such a slave holds the
\* master's table, values and all.
ReplicaEqualsMaster ==
  opens = 1 /\ spc = "idle" /\ apc = "idle" /\ done = Len(ended) => stable = mtable

\* Every transaction that ends reaches the table of a slave that loses nothing.
SlaveCatchesUp ==
  \A n \in 1 .. MaxTx :
    Len(ended) >= n ~> (done >= n \/ missed \/ fault # "none")
=============================================================================
