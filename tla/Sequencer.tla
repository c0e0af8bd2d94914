----------------------------- MODULE Sequencer -----------------------------
(***************************************************************************)
(* The disruptor with every wait strategy it offers and with consumers that*)
(* depend on each other: one publisher that claims and publishes batches   *)
(* (sequencer.h, claim_strategy.h), and batch event processors that wait   *)
(* for the cursor and for the consumers before them (wait_strategy.h,      *)
(* event_processor.h).  Run has no time out: it calls WaitFor(sequence).   *)
(*                                                                         *)
(* The sleeping, the yielding and the busy-spin strategy differ in how they*)
(* pass the time between two looks at a sequence, and are one here:        *)
(* "spinning".  The blocking strategy waits on a condition variable.       *)
(* TxPipeline models the part of this that nldb uses, with the ring's      *)
(* contents.                                                               *)
(***************************************************************************)
EXTENDS Integers, FiniteSets, FiniteSetsExt

CONSTANTS
  Consumers,
  Dependents,  \* the sequences each consumer's barrier tracks besides the cursor
  Gating,      \* the consumers whose sequences hold the publisher back
  BufferSize,
  MaxBatch,    \* the largest batch that is claimed
  MaxSequence, \* bound on the sequences claimed
  MaxHalts     \* bound on the consumers that are halted

Free == "free"         \* the mutex of the blocking strategy when nobody holds it

ASSUME ConsumersAssumption == Free \notin Consumers
ASSUME BufferSizeAssumption == BufferSize \in Nat \ {0}
ASSUME MaxBatchAssumption == MaxBatch \in 1 .. BufferSize
ASSUME MaxSequenceAssumption == MaxSequence \in Nat
ASSUME DependentsAssumption == Dependents \in [Consumers -> SUBSET Consumers]
ASSUME GatingAssumption == Gating \subseteq Consumers /\ Gating # {}
\* The last consumer of every chain holds the publisher back: a set that has the
\* gating consumers, and with a consumer those it waits for, has all of them.
ASSUME GatingCoversAssumption ==
  \A S \in SUBSET Consumers :
    Gating \subseteq S /\ (\A c \in S : Dependents[c] \subseteq S) => S = Consumers

VARIABLES
  strategy,   \* what CreateWaitStrategy made
  cursor,     \* the last sequence published
  claimed,    \* sequence_ of the claim strategy
  minGating,  \* min_gating_sequence_
  ppc,        \* the publisher's place
  mutex,      \* who holds mutex_ of the blocking strategy
  cpc,        \* the place of each consumer
  seq,        \* sequence_ of each consumer
  next,       \* next_sequence of each consumer
  avail,      \* available_sequence of each consumer, -1 out of its scope
  running,    \* running_ of each consumer
  alerted,    \* alerted_ of each consumer's barrier
  hpc,        \* how far the call of Halt for each consumer is
  early       \* history: who was halted before its Run had cleared the alert

pubVars == <<cursor, claimed, minGating, ppc>>
ctlVars == <<running, alerted, hpc, early>>
vars == <<strategy, pubVars, mutex, cpc, seq, next, avail, ctlVars>>

Init ==
  /\ strategy \in {"blocking", "spinning"}
  /\ cursor = -1 /\ claimed = -1 /\ minGating = -1 /\ ppc = "idle"
  /\ mutex = Free
  /\ cpc = [c \in Consumers |-> "created"]
  /\ seq = [c \in Consumers |-> -1]
  /\ next = [c \in Consumers |-> 0]
  /\ avail = [c \in Consumers |-> -1]
  /\ running = [c \in Consumers |-> FALSE]
  /\ alerted = [c \in Consumers |-> FALSE]
  /\ hpc = [c \in Consumers |-> "none"]
  /\ early = {}

GetMinimumSequence(sequences) == Min({seq[c] : c \in sequences})

(***************************************************************************)
(* The publisher                                                           *)
(***************************************************************************)
\* HasAvalaibleCapacity, which also caches the sequence it has read.
HasAvalaibleCapacity ==
  /\ ppc = "idle"
  /\ claimed + 1 - BufferSize > minGating
  /\ minGating' = GetMinimumSequence(Gating)
  /\ UNCHANGED <<strategy, cursor, claimed, ppc, mutex, cpc, seq, next, avail, ctlVars>>

\* IncrementAndGet for one sequence or a batch
Claim(size) ==
  /\ ppc = "idle"
  /\ claimed + size <= MaxSequence
  /\ claimed' = claimed + size
  /\ ppc' = "claim"
  /\ UNCHANGED <<strategy, cursor, minGating, mutex, cpc, seq, next, avail, ctlVars>>

\* A free slot as soon as the event in it is being handled.
SlotIsFreeEarly ==
  LET wrapPoint == claimed - BufferSize
  IN  wrapPoint <= minGating \/ wrapPoint <= GetMinimumSequence(Gating) + 1

\* WaitForFreeSlotAt: the slot the last of the batch wraps onto is consumed.
SlotIsFree ==
  LET wrapPoint == claimed - BufferSize
  IN  wrapPoint <= minGating \/ wrapPoint <= GetMinimumSequence(Gating)

\* The claim is granted, and the publisher may write the events.
Granted ==
  /\ ppc = "claim"
  /\ SlotIsFree
  /\ ppc' = "fill"
  /\ UNCHANGED <<strategy, cursor, claimed, minGating, mutex, cpc, seq, next, avail, ctlVars>>

\* Publish sets the cursor,
Publish ==
  /\ ppc = "fill"
  /\ cursor' = claimed
  /\ ppc' = "signal"
  /\ UNCHANGED <<strategy, claimed, minGating, mutex, cpc, seq, next, avail, ctlVars>>

\* Who notify_all wakes.
Notified == {c \in Consumers : cpc[c] = "waiting"}

\* A signal without the lock.
SignalUnlocked ==
  /\ ppc = "signal"
  /\ ppc' = "idle"
  /\ cpc' = [c \in Consumers |-> IF c \in Notified THEN "lock" ELSE cpc[c]]
  /\ UNCHANGED <<strategy, cursor, claimed, minGating, mutex, seq, next, avail, ctlVars>>

\* and calls SignalAllWhenBlocking, which notifies under the lock.
Signal ==
  /\ ppc = "signal"
  /\ ppc' = "idle"
  /\ IF strategy = "blocking"
       THEN /\ mutex = Free
            /\ cpc' = [c \in Consumers |-> IF c \in Notified THEN "lock" ELSE cpc[c]]
       ELSE UNCHANGED cpc
  /\ UNCHANGED <<strategy, cursor, claimed, minGating, mutex, seq, next, avail, ctlVars>>

Publisher ==
  \/ HasAvalaibleCapacity
  \/ \E size \in 1 .. MaxBatch : Claim(size)
  \/ Granted \/ Publish \/ Signal

(***************************************************************************)
(* WaitFor                                                                 *)
(***************************************************************************)
Goto(c, to) == cpc' = [cpc EXCEPT ![c] = to]
Read(c, value) == avail' = [avail EXCEPT ![c] = value]
Elsewhere == UNCHANGED <<strategy, pubVars, seq, next, ctlVars>>

\* After the cursor the blocking strategy waits for the dependents, and spins.
Dependent(c) == IF Dependents[c] = {} THEN "batch" ELSE "spin"

\* The blocking strategy looks at the cursor first, without the lock.
FirstLook(c) ==
  /\ cpc[c] = "wait" /\ strategy = "blocking"
  /\ Read(c, cursor)
  /\ Goto(c, IF cursor < next[c] THEN "lock" ELSE Dependent(c))
  /\ UNCHANGED mutex /\ Elsewhere

\* acquire lock, or get it back after the wait
Lock(c) ==
  /\ cpc[c] = "lock"
  /\ mutex = Free
  /\ mutex' = c
  /\ Goto(c, "look")
  /\ UNCHANGED avail /\ Elsewhere

\* The condition of the loop, under the lock.
Look(c) ==
  /\ cpc[c] = "look"
  /\ Read(c, cursor)
  /\ Goto(c, IF cursor < next[c] THEN "check" ELSE "unlock")
  /\ UNCHANGED mutex /\ Elsewhere

Unlock(c) ==
  /\ cpc[c] = "unlock"
  /\ mutex' = Free
  /\ Goto(c, Dependent(c))
  /\ UNCHANGED avail /\ Elsewhere

\* A wait that does not give up the lock.
CheckAndWaitLocked(c) ==
  /\ cpc[c] = "check"
  /\ mutex' = IF alerted[c] THEN Free ELSE mutex
  /\ Goto(c, IF alerted[c] THEN "alert" ELSE "waiting")
  /\ UNCHANGED avail /\ Elsewhere

\* CheckAlert, which throws through the lock, and the wait, which gives it up.
CheckAndWait(c) ==
  /\ cpc[c] = "check"
  /\ mutex' = Free
  /\ Goto(c, IF alerted[c] THEN "alert" ELSE "waiting")
  /\ UNCHANGED avail /\ Elsewhere

\* A condition variable may wake a thread for no reason.
WakeUp(c) ==
  /\ cpc[c] = "waiting"
  /\ Goto(c, "lock")
  /\ UNCHANGED <<mutex, avail>> /\ Elsewhere

\* What a consumer may read: the cursor, or the slowest of those before it.
Available(c) ==
  IF Dependents[c] = {} THEN cursor ELSE GetMinimumSequence(Dependents[c])

\* The spinning strategies look at that one sequence only.
Spin(c) ==
  /\ cpc[c] = "spin" \/ (cpc[c] = "wait" /\ strategy = "spinning")
  /\ Read(c, Available(c))
  /\ Goto(c, IF Available(c) < next[c] THEN "check_spin" ELSE "batch")
  /\ UNCHANGED mutex /\ Elsewhere

\* CheckAlert between two looks.
CheckSpin(c) ==
  /\ cpc[c] = "check_spin"
  /\ Goto(c, IF alerted[c] THEN "alert" ELSE "spin")
  /\ UNCHANGED <<mutex, avail>> /\ Elsewhere

(***************************************************************************)
(* BatchEventProcessor::Run                                                *)
(***************************************************************************)
\* The thread enters Run, which sets running_,
RunStart(c) ==
  /\ cpc[c] = "created"
  /\ running' = [running EXCEPT ![c] = TRUE]
  /\ Goto(c, "started")
  /\ UNCHANGED <<strategy, pubVars, mutex, seq, next, avail, alerted, hpc, early>>

\* clears the alert and starts after its own sequence.
ClearAlert(c) ==
  /\ cpc[c] = "started"
  /\ alerted' = [alerted EXCEPT ![c] = FALSE]
  /\ next' = [next EXCEPT ![c] = seq[c] + 1]
  /\ Goto(c, "wait")
  /\ UNCHANGED <<strategy, pubVars, mutex, seq, avail, running, hpc, early>>

\* OnEvent for one event of the batch
OnEvent(c) ==
  /\ cpc[c] = "batch" /\ next[c] <= avail[c]
  /\ next' = [next EXCEPT ![c] = @ + 1]
  /\ UNCHANGED <<strategy, pubVars, mutex, cpc, seq, avail, ctlVars>>

\* OnEvent throws: the event is given up and the consumer's sequence set to it.
Throw(c) ==
  /\ cpc[c] = "batch" /\ next[c] <= avail[c]
  /\ seq' = [seq EXCEPT ![c] = next[c]]
  /\ next' = [next EXCEPT ![c] = @ + 1]
  /\ Read(c, -1) /\ Goto(c, "wait")
  /\ UNCHANGED <<strategy, pubVars, mutex, ctlVars>>

\* set_sequence after the batch
EndBatch(c) ==
  /\ cpc[c] = "batch" /\ next[c] > avail[c]
  /\ seq' = [seq EXCEPT ![c] = next[c] - 1]
  /\ Read(c, -1) /\ Goto(c, "wait")
  /\ UNCHANGED <<strategy, pubVars, mutex, next, ctlVars>>

\* catch AlertException
Alerted(c) ==
  /\ cpc[c] = "alert"
  /\ Read(c, -1) /\ Goto(c, IF running[c] THEN "wait" ELSE "exit")
  /\ UNCHANGED mutex /\ Elsewhere

\* Halt, called once for a consumer by another thread, resets running_,
Halt(c) ==
  /\ hpc[c] = "none" /\ Cardinality({d \in Consumers : hpc[d] # "none"}) < MaxHalts
  /\ running' = [running EXCEPT ![c] = FALSE]
  /\ hpc' = [hpc EXCEPT ![c] = "alert"]
  /\ early' = IF cpc[c] \in {"created", "started"} THEN early \cup {c} ELSE early
  /\ UNCHANGED <<strategy, pubVars, mutex, cpc, seq, next, avail, alerted>>

\* A halt that leaves the barrier alone.
AlertForgotten(c) ==
  /\ hpc[c] = "alert"
  /\ hpc' = [hpc EXCEPT ![c] = "done"]
  /\ UNCHANGED <<strategy, pubVars, mutex, cpc, seq, next, avail, running, alerted, early>>

\* and alerts the barrier.  It does not signal who waits on the condition variable.
Alert(c) ==
  /\ hpc[c] = "alert"
  /\ alerted' = [alerted EXCEPT ![c] = TRUE]
  /\ hpc' = [hpc EXCEPT ![c] = "done"]
  /\ UNCHANGED <<strategy, pubVars, mutex, cpc, seq, next, avail, running, early>>

Steps(c) ==
  \/ RunStart(c) \/ ClearAlert(c)
  \/ FirstLook(c) \/ Look(c) \/ Unlock(c) \/ CheckAndWait(c)
  \/ Spin(c) \/ CheckSpin(c)
  \/ OnEvent(c) \/ EndBatch(c) \/ Alerted(c)

Next ==
  \/ Publisher
  \/ \E c \in Consumers :
       Steps(c) \/ Lock(c) \/ Throw(c) \/ WakeUp(c) \/ Halt(c) \/ Alert(c)

\* Every thread goes on when it can, and gets a mutex that is free again and again.
Fairness ==
  /\ WF_vars(Granted) /\ WF_vars(Publish) /\ SF_vars(Signal)
  /\ \A c \in Consumers : WF_vars(Steps(c)) /\ SF_vars(Lock(c)) /\ WF_vars(Alert(c))

Spec == Init /\ [][Next]_vars /\ Fairness

(***************************************************************************)
(* Properties                                                              *)
(***************************************************************************)
SequencerTypeOK ==
  /\ strategy \in {"blocking", "spinning"}
  /\ {cursor, claimed, minGating} \subseteq -1 .. MaxSequence
  /\ ppc \in {"idle", "claim", "fill", "signal"}
  /\ mutex \in Consumers \cup {Free}
  /\ cpc \in [Consumers -> {"created", "started", "wait", "lock", "look", "unlock",
                            "check", "waiting", "spin", "check_spin", "batch",
                            "alert", "exit"}]
  /\ seq \in [Consumers -> -1 .. MaxSequence]
  /\ next \in [Consumers -> 0 .. MaxSequence + 1]
  /\ avail \in [Consumers -> -1 .. MaxSequence]
  /\ running \in [Consumers -> BOOLEAN]
  /\ alerted \in [Consumers -> BOOLEAN]
  /\ hpc \in [Consumers -> {"none", "alert", "done"}]
  /\ early \subseteq Consumers
  /\ \A c \in Consumers :
       mutex = c <=> cpc[c] \in {"look", "unlock", "check"}

\* The last sequence the publisher may write.
Writable == IF ppc = "claim" THEN cursor ELSE claimed

\* While a consumer handles an event, the event is published, every consumer it
\* depends on is done with it, and the publisher has not been granted its slot for
\* a later event, with batches claimed at once and a gating sequence that is cached.
HandledEventStable ==
  \A c \in Consumers : cpc[c] = "batch" /\ next[c] <= avail[c] =>
    /\ next[c] <= cursor
    /\ \A d \in Dependents[c] : seq[d] >= next[c]
    /\ Writable < next[c] + BufferSize

\* No wake-up is lost: what is published is handled by every consumer that is not
\* halted and waits for no consumer that is, whichever way it waits, although the
\* publisher sets the cursor without the lock.
EveryEventHandled ==
  \A c \in Consumers, n \in 0 .. MaxSequence :
    cursor >= n ~> seq[c] >= n \/ \E d \in {c} \cup Dependents[c] : hpc[d] # "none"

\* A consumer that spins leaves Run when it is halted, wherever between two looks,
\* two events or two batches it is when running_ is reset and when the barrier is
\* alerted, and however its handler ends.  Halt must not come before Run has cleared
\* the alert, and a blocking consumer may be asleep, with nobody to wake it.
HaltStops ==
  \A c \in Consumers :
    strategy = "spinning" /\ hpc[c] # "none" /\ c \notin early ~> cpc[c] = "exit"
=============================================================================
