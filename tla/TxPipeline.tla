---------------------------- MODULE TxPipeline ----------------------------
(***************************************************************************)
(* The transaction pipeline of a master database: one application thread   *)
(* opens the database, runs transactions, waits for the publisher and      *)
(* closes the database; the publisher thread (a disruptor                  *)
(* BatchEventProcessor) takes each ended transaction out of the ring       *)
(* buffer and sends it.                                                    *)
(*                                                                         *)
(*   nldb_tx_impl_t       begin / append_log_* / commit / abort / end      *)
(*   TxTransactionsLogs   ring, current sequence, wait, destroy            *)
(*   disruptor            claim strategy, cursor, barrier, event processor *)
(*   TxTransactionLogPublisher::OnEvent                                    *)
(*                                                                         *)
(* The grain of atomicity is one access to a variable both threads use:    *)
(* cursor, seq, running, alerted.  A slot belongs to one thread at a time  *)
(* (that is what RingOwnership checks), so the work on a slot goes with    *)
(* the access that acquires or releases it.                                *)
(***************************************************************************)
EXTENDS LogBuffer, Sequences

CONSTANTS
  Size,      \* NLDB_TX_EVENT_COUNT
  MaxTx,     \* bound: transactions the application begins
  MaxOpens   \* bound: times the application opens the database

ASSUME PipelineAssumption ==
  /\ Size \in Nat \ {0}
  /\ MaxTx \in Nat
  /\ MaxOpens \in Nat \ {0}

VARIABLES
  \* the application thread
  apc,        \* where it is
  replicated, \* hasReplicators() of the open database
  opens,      \* times the database was opened
  drained,    \* did the last wait return with no transaction begun since?
  expected,   \* expected_sequence of waitForReplicationPublishers
  nextTxId,   \* static nextTxId of begin
  curSeq,     \* currentSequence
  claimed,    \* sequence_ of the claim strategy
  \* shared
  slots,      \* the ring: a log buffer per event
  cursor,     \* cursor_ of the sequencer: the last published sequence
  seq,        \* sequence_ of the event processor, the gating sequence
  running,    \* running_ of the event processor
  alerted,    \* alerted_ of the barrier
  fault,      \* the assertion that stopped the process, or "none"
  \* the publisher thread
  ppc,        \* where it is
  next,       \* next_sequence of Run
  avail,      \* avalaible_sequence of Run
  prevTxId,   \* static prevTransactionId of OnEvent
  \* history
  curOps,     \* records the open transaction has logged
  careless,   \* was the database ever opened without a master_op, or closed
              \* without waiting for the publisher first?
  ended,      \* transactions ended while replicated
  sent        \* messages given to xs_sendmsg

appVars  == <<apc, replicated, opens, drained, expected, nextTxId, curSeq,
              claimed, careless, curOps, ended>>
pubVars  == <<ppc, next, avail, prevTxId, sent>>
ringVars == <<slots, cursor, seq, running, alerted>>
vars     == <<appVars, pubVars, ringVars, fault>>

(***************************************************************************)
(* Types                                                                   *)
(***************************************************************************)
SlotIds   == 0 .. Size - 1
Sequence  == Nat \cup {-1}
Message   == [id : Nat, ops : Seq(Ops \cup {NoOp})]
AppStates == {"closed", "idle", "claiming", "open", "waiting", "halting",
              "alerting", "joining", "stopped"}
PubStates == {"none", "created", "clearing", "waitfor", "checkalert",
              "checkrunning", "events", "exited", "stopped"}
Faults    == {"none", "overflow", "not_clear", "tx_id_set", "not_finalized",
              "id_mismatch", "bad_size", "second_begin"}

TypeOK ==
  /\ apc \in AppStates
  /\ replicated \in BOOLEAN
  /\ opens \in Nat
  /\ drained \in BOOLEAN
  /\ expected \in Sequence
  /\ nextTxId \in Nat
  /\ curSeq \in Sequence
  /\ claimed \in Sequence
  /\ slots \in [SlotIds -> Buffer]
  /\ cursor \in Sequence
  /\ seq \in Sequence
  /\ running \in BOOLEAN
  /\ alerted \in BOOLEAN
  /\ fault \in Faults
  /\ ppc \in PubStates
  /\ next \in Nat
  /\ avail \in Sequence
  /\ prevTxId \in Nat
  /\ careless \in BOOLEAN
  /\ curOps \in Seq(Ops)
  /\ ended \in Seq(Message)
  /\ sent \in Seq(Message)

Init ==
  /\ apc = "closed" /\ replicated = FALSE /\ opens = 0 /\ drained = FALSE
  /\ expected = -1 /\ nextTxId = 1 /\ curSeq = -1 /\ claimed = -1
  /\ slots = [i \in SlotIds |-> NewBuffer]
  /\ cursor = -1 /\ seq = -1 /\ running = FALSE /\ alerted = FALSE
  /\ fault = "none"
  /\ ppc = "none" /\ next = 0 /\ avail = -1 /\ prevTxId = 0
  /\ careless = FALSE /\ curOps = <<>> /\ ended = <<>> /\ sent = <<>>

(***************************************************************************)
(* The application thread                                                  *)
(***************************************************************************)
\* RingBuffer::Get; "& mask_" is "%", the size being a power of two.
Slot(s) == s % Size

\* tx_assert: a failed assertion stops the process, both threads of it.
Fail(assertion) ==
  /\ fault' = assertion
  /\ apc' = "stopped" /\ ppc' = "stopped"
  /\ UNCHANGED <<replicated, opens, drained, expected, nextTxId, curSeq,
                 claimed, careless, curOps, ended, next, avail, prevTxId, sent,
                 ringVars>>

\* nldb_db_open: a new database object with a new ring, and with a master_op a
\* publisher thread that has not run yet.  The two static transaction ids
\* outlive the database object.
Open(m) ==
  /\ apc = "closed" /\ opens < MaxOpens
  /\ opens' = opens + 1
  /\ replicated' = m
  /\ apc' = "idle" /\ ppc' = IF m THEN "created" ELSE "none"
  /\ curSeq' = -1 /\ claimed' = -1 /\ cursor' = -1 /\ seq' = -1
  /\ slots' = [i \in SlotIds |-> NewBuffer]
  /\ running' = FALSE /\ alerted' = FALSE
  /\ next' = 0 /\ avail' = -1 /\ expected' = -1 /\ drained' = FALSE
  /\ careless' = (careless \/ ~m)
  /\ UNCHANGED <<nextTxId, prevTxId, curOps, ended, sent, fault>>

\* An event that has no transaction: no log records, not finalized.
IsFreshUnchecked(b) == IsClear(b)

\* The assertions of begin and setTransactionId on the event.
IsFresh(b) == IsClear(b) /\ b.txId = 0

\* begin once its assertions have passed: the event gets the next id.
TakeEvent(s) ==
  /\ slots' = [slots EXCEPT ![Slot(s)] = SetTransactionId(@, nextTxId)]
  /\ nextTxId' = nextTxId + 1
  /\ curSeq' = s
  /\ curOps' = <<>>
  /\ drained' = FALSE
  /\ apc' = "open"
  /\ UNCHANGED <<replicated, opens, expected, claimed, careless, ended, pubVars,
                 cursor, seq, running, alerted, fault>>

\* The part of begin that follows once it has its event.
StartTx(s) ==
  LET b == slots[Slot(s)] IN
    IF IsFresh(b) THEN TakeEvent(s)
    ELSE Fail(IF IsClear(b) THEN "tx_id_set" ELSE "not_clear")

\* begin when the last transaction left its event behind.
BeginReuse ==
  /\ apc = "idle" /\ nextTxId <= MaxTx
  /\ curSeq >= 0
  /\ StartTx(curSeq)

\* begin of another nldb_tx_t while a transaction is open: the current event is that
\* transaction's.
BeginAnother ==
  /\ apc = "open" /\ nextTxId <= MaxTx
  /\ IF IsFresh(slots[Slot(curSeq)]) THEN TakeEvent(curSeq) ELSE Fail("second_begin")

\* begin: Next() claims a sequence before it waits for the slot.
BeginClaim ==
  /\ apc = "idle" /\ nextTxId <= MaxTx
  /\ curSeq = -1
  /\ claimed' = claimed + 1
  /\ drained' = FALSE
  /\ apc' = "claiming"
  /\ UNCHANGED <<replicated, opens, expected, nextTxId, curSeq, careless, curOps,
                 ended, pubVars, ringVars, fault>>

\* An off-by-one in the wrap point.
SlotIsFreeOffByOne == replicated => claimed - Size - 1 <= seq

\* WaitForFreeSlotAt: the wrap point is behind the gating sequence.  The cached
\* min_gating_sequence_ stays -1, and with no gating sequence the minimum is
\* LONG_MAX.
SlotIsFree == replicated => claimed - Size <= seq

ClaimSlot ==
  /\ apc = "claiming"
  /\ SlotIsFree
  /\ StartTx(claimed)

\* nldb_table_put / nldb_table_del, the log record of a successful operation.
LogOp(op) ==
  /\ apc = "open"
  /\ LET b == slots[Slot(curSeq)] IN
       IF ~Fits(b) THEN Fail("overflow")
       ELSE /\ slots' = [slots EXCEPT ![Slot(curSeq)] = AppendLog(b, op)]
            /\ curOps' = Append(curOps, op)
            /\ UNCHANGED <<apc, replicated, opens, drained, expected, nextTxId,
                           curSeq, claimed, careless, ended, pubVars, cursor,
                           seq, running, alerted, fault>>

\* end: finalize, then publish the event, or recycle it when nobody publishes.
EndTx(b, ops) ==
  /\ IF replicated
       THEN /\ slots' = [slots EXCEPT ![Slot(curSeq)] = Finalize(b)]
            /\ cursor' = curSeq
            /\ curSeq' = -1
            /\ ended' = Append(ended, [id |-> b.txId, ops |-> ops])
       ELSE /\ slots' = [slots EXCEPT ![Slot(curSeq)] = Reset(Finalize(b))]
            /\ UNCHANGED <<cursor, curSeq, ended>>
  /\ apc' = "idle"
  /\ curOps' = <<>>
  /\ UNCHANGED <<replicated, opens, drained, expected, nextTxId, claimed,
                 careless, pubVars, seq, running, alerted, fault>>

Commit ==
  /\ apc = "open"
  /\ EndTx(slots[Slot(curSeq)], curOps)

\* An abort that publishes the records it should have dropped.
AbortKeepsLog ==
  /\ apc = "open"
  /\ EndTx(slots[Slot(curSeq)], <<>>)

\* abort drops the log records and publishes the transaction without them.
Abort ==
  /\ apc = "open"
  /\ EndTx(ClearLog(slots[Slot(curSeq)]), <<>>)

\* waitForReplicationPublishers: read the cursor, then spin on the publisher.
WaitStart ==
  /\ apc = "idle" /\ ~drained
  /\ expected' = cursor
  /\ apc' = "waiting"
  /\ UNCHANGED <<replicated, opens, drained, nextTxId, curSeq, claimed, careless,
                 curOps, ended, pubVars, ringVars, fault>>

\* An off-by-one in the spin.
WaitDoneEarly ==
  /\ apc = "waiting"
  /\ replicated => seq + 1 >= expected
  /\ drained' = TRUE
  /\ apc' = "idle"
  /\ UNCHANGED <<replicated, opens, expected, nextTxId, curSeq, claimed, careless,
                 curOps, ended, pubVars, ringVars, fault>>

WaitDone ==
  /\ apc = "waiting"
  /\ replicated => seq >= expected
  /\ drained' = TRUE
  /\ apc' = "idle"
  /\ UNCHANGED <<replicated, opens, expected, nextTxId, curSeq, claimed, careless,
                 curOps, ended, pubVars, ringVars, fault>>

\* nldb_db_close: destroy() halts and joins the publisher, if there is one.
Close ==
  /\ apc = "idle"
  /\ apc' = IF replicated THEN "halting" ELSE "closed"
  /\ careless' = (careless \/ ~drained)
  /\ UNCHANGED <<replicated, opens, drained, expected, nextTxId, curSeq,
                 claimed, curOps, ended, pubVars, ringVars, fault>>

\* Halt stores running_ first and alerts the barrier second.
Halt ==
  /\ apc = "halting"
  /\ running' = FALSE
  /\ apc' = "alerting"
  /\ UNCHANGED <<replicated, opens, drained, expected, nextTxId, curSeq,
                 claimed, careless, curOps, ended, pubVars, slots, cursor, seq,
                 alerted, fault>>

Alert ==
  /\ apc = "alerting"
  /\ alerted' = TRUE
  /\ apc' = "joining"
  /\ UNCHANGED <<replicated, opens, drained, expected, nextTxId, curSeq,
                 claimed, careless, curOps, ended, pubVars, slots, cursor, seq,
                 running, fault>>

Join ==
  /\ apc = "joining"
  /\ ppc = "exited"
  /\ apc' = "closed"
  /\ UNCHANGED <<replicated, opens, drained, expected, nextTxId, curSeq,
                 claimed, careless, curOps, ended, pubVars, ringVars, fault>>

(***************************************************************************)
(* The publisher thread: BatchEventProcessor::Run                          *)
(***************************************************************************)
RunStart ==
  /\ ppc = "created"
  /\ running' = TRUE
  /\ ppc' = "clearing"
  /\ UNCHANGED <<next, avail, prevTxId, sent, appVars, slots, cursor, seq,
                 alerted, fault>>

ClearAlert ==
  /\ ppc = "clearing"
  /\ alerted' = FALSE
  /\ next' = seq + 1
  /\ ppc' = "waitfor"
  /\ UNCHANGED <<avail, prevTxId, sent, appVars, slots, cursor, seq, running,
                 fault>>

\* A wait for the cursor to pass the sequence instead of reaching it.
WaitForOffByOne ==
  /\ ppc = "waitfor"
  /\ avail' = cursor
  /\ ppc' = IF cursor <= next THEN "checkalert" ELSE "events"
  /\ UNCHANGED <<next, prevTxId, sent, appVars, ringVars, fault>>

\* One turn of BusySpinStrategy::WaitFor: read the cursor.
WaitFor ==
  /\ ppc = "waitfor"
  /\ avail' = cursor
  /\ ppc' = IF cursor < next THEN "checkalert" ELSE "events"
  /\ UNCHANGED <<next, prevTxId, sent, appVars, ringVars, fault>>

\* ... and look at the alert only when there was nothing to read.
CheckAlert ==
  /\ ppc = "checkalert"
  /\ ppc' = IF alerted THEN "checkrunning" ELSE "waitfor"
  /\ UNCHANGED <<next, avail, prevTxId, sent, appVars, ringVars, fault>>

\* catch (AlertException): leave the loop only when halted.
CheckRunning ==
  /\ ppc = "checkrunning"
  /\ ppc' = IF running THEN "waitfor" ELSE "exited"
  /\ UNCHANGED <<next, avail, prevTxId, sent, appVars, ringVars, fault>>

\* OnEvent: assert that the buffer is finalized and carries the next id, send
\* the message, reset the buffer.
OnEvent ==
  /\ ppc = "events" /\ next <= avail
  /\ LET b == slots[Slot(next)] IN
       IF ~b.final THEN Fail("not_finalized")
       ELSE IF prevTxId + 1 # b.txId THEN Fail("id_mismatch")
       ELSE IF b.hdrCount > b.count THEN Fail("bad_size")
       ELSE /\ prevTxId' = b.txId
            /\ sent' = Append(sent, [id |-> b.hdrTx, ops |-> Records(b)])
            /\ slots' = [slots EXCEPT ![Slot(next)] = Reset(b)]
            /\ next' = next + 1
            /\ UNCHANGED <<ppc, avail, appVars, cursor, seq, running, alerted,
                           fault>>

\* An end of batch that does not report the sequences it handled.
EndBatchSilent ==
  /\ ppc = "events" /\ next > avail
  /\ ppc' = "waitfor"
  /\ UNCHANGED <<next, avail, prevTxId, sent, appVars, ringVars, fault>>

\* The gating sequence moves once per batch.
EndBatch ==
  /\ ppc = "events" /\ next > avail
  /\ seq' = next - 1
  /\ ppc' = "waitfor"
  /\ UNCHANGED <<next, avail, prevTxId, sent, appVars, slots, cursor, running,
                 alerted, fault>>

(***************************************************************************)
(* Specification                                                           *)
(***************************************************************************)
AppNext ==
  \/ \E m \in BOOLEAN : Open(m)
  \/ BeginReuse \/ BeginAnother \/ BeginClaim \/ ClaimSlot
  \/ \E op \in Ops : LogOp(op)
  \/ Commit \/ Abort
  \/ WaitStart \/ WaitDone
  \/ Close \/ Halt \/ Alert \/ Join

PubNext ==
  \/ RunStart \/ ClearAlert \/ WaitFor \/ CheckAlert \/ CheckRunning
  \/ OnEvent \/ EndBatch

Next == AppNext \/ PubNext

Spec == Init /\ [][Next]_vars

\* Both threads are scheduled.  The application is free not to begin, end or
\* close anything, but once it is inside a call that waits it keeps running.
AppInCall == ClaimSlot \/ WaitDone \/ Halt \/ Alert \/ Join

FairSpec ==
  /\ Spec
  /\ WF_vars(PubNext)
  /\ WF_vars(AppInCall)

(***************************************************************************)
(* Safety                                                                  *)
(***************************************************************************)
\* Where the transaction published as sequence s of this ring is in "ended".
EndedIndex(s) == Len(ended) - cursor + s

\* A claim (claim_strategy.h, WaitForFreeSlotAt) never grants a slot that an ended
\* transaction still waits in, however far the publisher lags behind, and no
\* transaction is published into the slot that is open.
RingOwnership ==
  /\ apc = "claiming" /\ SlotIsFree =>
       \A s \in next .. cursor : Slot(s) # Slot(claimed)
  /\ apc = "open" => \A s \in next .. cursor : Slot(s) # Slot(curSeq)

\* The buffer of a published transaction stays as end() left it until OnEvent
\* takes it: finalized, with its own id, and with the records it logged.
PendingIntact ==
  \A s \in next .. cursor :
    LET b == slots[Slot(s)] IN
      /\ b.final
      /\ b.txId = ended[EndedIndex(s)].id
      /\ [id |-> b.hdrTx, ops |-> Records(b)] = ended[EndedIndex(s)]

\* Whatever the application does, an event that begin() obtains with no transaction
\* open is clear and has no id, and an event that OnEvent() obtains is finalized and as large as its
\* header says: the two sides never see each other's half-done work.
HandoverAsserts ==
  fault \notin {"not_clear", "tx_id_set", "not_finalized", "bad_size"}

\* As long as the application has always opened a master and has always waited
\* for the publisher before closing, no assertion of OnEvent() can fail, not even
\* the one on consecutive ids; only a transaction too large for its buffer, or a
\* second one begun while one is open, stops the process.
PipelineAsserts == ~careless => fault \in {"none", "overflow", "second_begin"}

\* OnEvent sends what was committed, in commit order, "without any missing id,
\* nor duplicate id" (nldb_txevent.h), an aborted transaction as an empty one,
\* also across closing and reopening the database, and whatever the application
\* does: where an id is missing, OnEvent stops the process and sends nothing more.
SentInOrder ==
  /\ Len(sent) <= Len(ended)
  /\ \A i \in 1 .. Len(sent) : sent[i] = ended[i] /\ sent[i].id = i

\* To such an application nldb_db_wait_for_replication_publishers returns only
\* when every transaction ended before the call has been sent (nldb.h).
DrainedMeansSent == drained /\ ~careless => Len(sent) = Len(ended)

(***************************************************************************)
(* Liveness                                                                *)
(***************************************************************************)
\* Every ended transaction is eventually sent, also when the application closes
\* the database, as long as it waits for the publisher first.
EveryEndedIsSent ==
  \A n \in 1 .. MaxTx :
    Len(ended) >= n ~> (Len(sent) >= n \/ fault # "none" \/ careless)

\* A begin() that found the ring full gets its slot: the publisher moves the
\* gating sequence however the two threads interleave.
ClaimIsGranted == apc = "claiming" ~> (apc = "open" \/ fault # "none")

\* Halt "signal[s] that this EventProcessor should stop" (interface.h), so the
\* join in nldb_db_close returns.
CloseReturns == apc = "joining" ~> apc = "closed"

=============================================================================
