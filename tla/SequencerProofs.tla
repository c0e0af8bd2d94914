-------------------------- MODULE SequencerProofs --------------------------
(***************************************************************************)
(* Proofs about Sequencer, for any number of consumers in any arrangement  *)
(* of dependencies whose ends hold the publisher back, any size of the ring*)
(* and of the batches, with or without halts and exceptions.               *)
(*                                                                         *)
(* SeqInv is inductive.  It says what a consumer may believe about the     *)
(* value it has read, that nobody overtakes those it waits for, and how far*)
(* the publisher may be ahead of the gating consumers.                     *)
(***************************************************************************)
EXTENDS Sequencer, MinMaxProofs, TLAPS

(***************************************************************************)
(* The inductive invariant                                                 *)
(***************************************************************************)
\* The cursor follows the claims, and no consumer is past it.
CursorInv ==
  /\ cursor <= claimed
  /\ ppc \in {"idle", "signal"} => cursor = claimed
  /\ \A c \in Consumers : seq[c] + 1 <= next[c] /\ next[c] <= cursor + 1

\* The value a consumer has read may be old, and is never too large: not past the
\* cursor once it has looked, and not past its dependents when it handles events.
ReadInv ==
  \A c \in Consumers :
    /\ cpc[c] \notin {"wait", "spin"} => avail[c] <= cursor
    /\ cpc[c] \in {"check_spin", "batch"} => \A d \in Dependents[c] : avail[c] <= seq[d]

\* A consumer does not overtake those it depends on.
ChainInv == \A c \in Consumers : \A d \in Dependents[c] : next[c] <= seq[d] + 1

\* The cached gating sequence is old, and the publisher writes less than a ring's
\* length ahead of every gating consumer.
GateInv ==
  \A g \in Gating : minGating <= seq[g] /\ Writable - BufferSize <= seq[g]

SeqInv == SequencerTypeOK /\ CursorInv /\ ReadInv /\ ChainInv /\ GateInv

Places == {"created", "started", "wait", "lock", "look", "unlock", "check", "waiting",
           "spin", "check_spin", "batch", "alert", "exit"}
Holding == {"look", "unlock", "check"}  \* the places where a consumer has the mutex

-----------------------------------------------------------------------------
(***************************************************************************)
(* Minima                                                                  *)
(***************************************************************************)
\* GetMinimumSequence is the sequence of one of the consumers, the slowest.
LEMMA MinimumSequence ==
  ASSUME SequencerTypeOK, NEW S \in SUBSET Consumers, S # {}
  PROVE  /\ GetMinimumSequence(S) \in -1 .. MaxSequence
         /\ \E c \in S : GetMinimumSequence(S) = seq[c]
         /\ \A c \in S : GetMinimumSequence(S) <= seq[c]
<1>  DEFINE T == {seq[c] : c \in S}
<1>0. \A c \in S : seq[c] \in -1 .. MaxSequence
  BY DEF SequencerTypeOK
<1>1. T \in SUBSET Int /\ T # {} /\ \A x \in T : x >= -1
  BY <1>0, MaxSequenceAssumption
<1>2. Min(T) \in T /\ \A y \in T : Min(T) <= y
  <2>  HIDE DEF T
  <2>  QED
    BY <1>1, MinOfIntegers
<1>3. GetMinimumSequence(S) = Min(T)
  BY DEF GetMinimumSequence
<1>  HIDE DEF GetMinimumSequence
<1>  QED
  BY <1>0, <1>2, <1>3

-----------------------------------------------------------------------------
(***************************************************************************)
(* The publisher's steps                                                   *)
(***************************************************************************)
\* A step of the publisher that moves no consumer keeps what the consumers know.
LEMMA HasAvalaibleCapacitySeq == SeqInv /\ HasAvalaibleCapacity => SeqInv'
<1>  SUFFICES ASSUME SeqInv, HasAvalaibleCapacity PROVE SeqInv'
  OBVIOUS
<1>  USE DEF SeqInv, HasAvalaibleCapacity, ctlVars
<1>1. minGating' \in -1 .. MaxSequence /\ \A g \in Gating : minGating' <= seq[g]
  BY MinimumSequence, GatingAssumption
<1>2. SequencerTypeOK'
  BY <1>1 DEF SequencerTypeOK
<1>3. GateInv'
  BY <1>1 DEF GateInv, Writable
<1>4. CursorInv' /\ ReadInv' /\ ChainInv'
  BY DEF CursorInv, ReadInv, ChainInv
<1>  QED
  BY <1>2, <1>3, <1>4

\* A claim moves the claim sequence only: nothing is published yet.
LEMMA ClaimSeq == SeqInv /\ (\E size \in 1 .. MaxBatch : Claim(size)) => SeqInv'
<1>  SUFFICES ASSUME SeqInv, NEW size \in 1 .. MaxBatch, Claim(size) PROVE SeqInv'
  OBVIOUS
<1>  USE DEF SeqInv, Claim, ctlVars
<1>1. claimed' = claimed + size /\ claimed' \in -1 .. MaxSequence /\ claimed < claimed'
  BY MaxBatchAssumption, BufferSizeAssumption, MaxSequenceAssumption
     DEF SequencerTypeOK
<1>2. SequencerTypeOK'
  BY <1>1 DEF SequencerTypeOK
<1>3. GateInv'
  BY DEF GateInv, Writable, CursorInv
<1>4. CursorInv'
  BY <1>1 DEF CursorInv, SequencerTypeOK
<1>5. ReadInv' /\ ChainInv'
  BY DEF ReadInv, ChainInv
<1>  QED
  BY <1>2, <1>3, <1>4, <1>5

\* A claim is granted only when every gating consumer has passed the slots it takes.
LEMMA GrantedSeq == SeqInv /\ Granted => SeqInv'
<1>  SUFFICES ASSUME SeqInv, Granted PROVE SeqInv'
  OBVIOUS
<1>  USE DEF SeqInv, Granted, ctlVars
<1>1. \A g \in Gating : claimed - BufferSize <= seq[g]
  <2>1. CASE claimed - BufferSize <= minGating
    BY <2>1, GatingAssumption, BufferSizeAssumption DEF GateInv, SequencerTypeOK
  <2>2. CASE claimed - BufferSize <= GetMinimumSequence(Gating)
    <3>1. \A g \in Gating : GetMinimumSequence(Gating) <= seq[g] /\ seq[g] \in Int
      BY MinimumSequence, GatingAssumption DEF SequencerTypeOK
    <3>2. GetMinimumSequence(Gating) \in Int /\ claimed \in Int
      BY MinimumSequence, GatingAssumption DEF SequencerTypeOK
    <3>  QED
      BY <2>2, <3>1, <3>2, BufferSizeAssumption
  <2>  QED
    BY <2>1, <2>2 DEF SlotIsFree
<1>2. SequencerTypeOK' /\ CursorInv' /\ ReadInv' /\ ChainInv'
  BY DEF SequencerTypeOK, CursorInv, ReadInv, ChainInv
<1>3. GateInv'
  BY <1>1 DEF GateInv, Writable
<1>  QED
  BY <1>2, <1>3

\* Publishing moves the cursor up to the claim.
LEMMA PublishSeq == SeqInv /\ Publish => SeqInv'
<1>  SUFFICES ASSUME SeqInv, Publish PROVE SeqInv'
  OBVIOUS
<1>  USE DEF SeqInv, Publish, ctlVars
<1>1. cursor \in Int /\ cursor' \in Int /\ cursor <= cursor' /\ cursor' = claimed
  BY DEF CursorInv, SequencerTypeOK
<1>2. SequencerTypeOK'
  BY DEF SequencerTypeOK
<1>3. CursorInv'
  BY <1>1 DEF CursorInv, SequencerTypeOK
<1>4. ReadInv'
  BY <1>1 DEF ReadInv, SequencerTypeOK
<1>5. ChainInv' /\ GateInv'
  BY DEF ChainInv, GateInv, Writable
<1>  QED
  BY <1>2, <1>3, <1>4, <1>5

\* Notifying wakes waiting consumers and changes no sequence.
LEMMA SignalSeq == SeqInv /\ Signal => SeqInv'
<1>  SUFFICES ASSUME SeqInv, Signal PROVE SeqInv'
  OBVIOUS
<1>  USE DEF SeqInv, Signal, ctlVars
<1>1. /\ cpc' \in [Consumers -> Places]
      /\ \A c \in Consumers : cpc'[c] = cpc[c] \/ (cpc[c] = "waiting" /\ cpc'[c] = "lock")
  BY DEF SequencerTypeOK, Notified, Places
<1>2. SequencerTypeOK'
  BY <1>1 DEF SequencerTypeOK
<1>3. ReadInv'
  BY <1>1 DEF ReadInv
<1>4. CursorInv' /\ ChainInv' /\ GateInv'
  BY DEF CursorInv, ChainInv, GateInv, Writable
<1>  QED
  BY <1>2, <1>3, <1>4

-----------------------------------------------------------------------------
(***************************************************************************)
(* The consumers' steps                                                    *)
(***************************************************************************)
\* A step of WaitFor: the consumer goes to another place and may have read a
\* sequence that is small enough for that place.
LEMMA WaitingStep ==
  ASSUME SeqInv, NEW c \in Consumers, Elsewhere,
         NEW to \in Places, cpc' = [cpc EXCEPT ![c] = to],
         NEW v \in -1 .. MaxSequence, avail' = [avail EXCEPT ![c] = v],
         to \notin {"wait", "spin"} => v <= cursor,
         to \in {"check_spin", "batch"} => \A d \in Dependents[c] : v <= seq[d],
         \/ mutex' = mutex /\ (cpc[c] \in Holding <=> to \in Holding)
         \/ mutex = Free /\ mutex' = c /\ to \in Holding
         \/ mutex' = Free /\ cpc[c] \in Holding /\ to \notin Holding
  PROVE  SeqInv'
<1>  USE DEF SeqInv, Elsewhere, pubVars, ctlVars
<1>1. /\ cpc' \in [Consumers -> Places] /\ cpc'[c] = to
      /\ \A d \in Consumers : d # c => cpc'[d] = cpc[d]
  BY DEF SequencerTypeOK, Places
<1>2. /\ avail' \in [Consumers -> -1 .. MaxSequence] /\ avail'[c] = v
      /\ \A d \in Consumers : d # c => avail'[d] = avail[d]
  BY DEF SequencerTypeOK
<1>3. mutex' \in Consumers \cup {Free}
      /\ \A d \in Consumers : mutex' = d <=> cpc'[d] \in Holding
  BY <1>1, ConsumersAssumption DEF SequencerTypeOK, Holding
<1>4. SequencerTypeOK'
  BY <1>1, <1>2, <1>3 DEF SequencerTypeOK, Places, Holding
<1>5. ReadInv'
  BY <1>1, <1>2 DEF ReadInv
<1>6. CursorInv' /\ ChainInv' /\ GateInv'
  BY DEF CursorInv, ChainInv, GateInv, Writable
<1>  QED
  BY <1>4, <1>5, <1>6

\* What Available returns is not past the cursor and not past a dependent.
LEMMA AvailableFacts ==
  ASSUME SeqInv, NEW c \in Consumers
  PROVE  /\ Available(c) \in -1 .. MaxSequence
         /\ Available(c) <= cursor
         /\ \A d \in Dependents[c] : Available(c) <= seq[d]
<1>0. cursor \in -1 .. MaxSequence /\ \A d \in Consumers : seq[d] \in Int /\ next[d] \in Int
  BY DEF SeqInv, SequencerTypeOK
<1>1. CASE Dependents[c] = {}
  BY <1>0, <1>1 DEF Available
<1>2. CASE Dependents[c] # {}
  <2>0. Dependents[c] \in SUBSET Consumers
    BY DependentsAssumption
  <2>1. PICK d \in Dependents[c] : Available(c) = seq[d]
    BY <1>2, <2>0, MinimumSequence DEF Available, SeqInv
  <2>2. /\ Available(c) \in -1 .. MaxSequence
        /\ \A e \in Dependents[c] : Available(c) <= seq[e]
    BY <1>2, <2>0, MinimumSequence DEF Available, SeqInv
  <2>3. seq[d] <= cursor
    BY <1>0, <2>0 DEF SeqInv, CursorInv
  <2>  QED
    BY <2>1, <2>2, <2>3
<1>  QED
  BY <1>1, <1>2

\* Every step of WaitFor, of the condition variable and of the alert.
LEMMA WaitForSeq ==
  ASSUME SeqInv, NEW c \in Consumers,
         \/ FirstLook(c) \/ Lock(c) \/ Look(c) \/ Unlock(c) \/ CheckAndWait(c)
         \/ WakeUp(c) \/ Spin(c) \/ CheckSpin(c) \/ Alerted(c)
  PROVE  SeqInv'
<1>0. /\ avail[c] \in -1 .. MaxSequence /\ cursor \in -1 .. MaxSequence
      /\ avail = [avail EXCEPT ![c] = avail[c]]
  BY DEF SeqInv, SequencerTypeOK
<1>r. /\ cpc[c] \notin {"wait", "spin"} => avail[c] <= cursor
      /\ cpc[c] \in {"check_spin", "batch"} => \A d \in Dependents[c] : avail[c] <= seq[d]
  BY DEF SeqInv, ReadInv
<1>  USE DEF Goto, Read, Places, Holding
<1>d. /\ Dependent(c) \in {"batch", "spin"}
      /\ Dependent(c) = "batch" => \A d \in Dependents[c] : FALSE
  BY DEF Dependent
<1>1. CASE FirstLook(c)
  <2>1. PICK to \in {"lock", Dependent(c)} : cpc' = [cpc EXCEPT ![c] = to]
    BY <1>1 DEF FirstLook
  <2>2. avail' = [avail EXCEPT ![c] = cursor] /\ mutex' = mutex /\ Elsewhere /\ cursor <= cursor
    BY <1>0, <1>1 DEF FirstLook
  <2>3. cpc[c] \in Holding <=> to \in Holding
    BY <1>1, <1>d DEF FirstLook
  <2>4. /\ to \in Places /\ to \notin {"wait", "check_spin"}
        /\ to = "batch" => \A d \in Dependents[c] : cursor <= seq[d]
    BY <1>d
  <2>  QED
    BY <1>0, <2>1, <2>2, <2>3, <2>4, WaitingStep
<1>3. CASE Lock(c)
  BY <1>0, <1>r, <1>3, WaitingStep DEF Lock
<1>4. CASE Look(c)
  <2>1. PICK to \in {"check", "unlock"} : cpc' = [cpc EXCEPT ![c] = to]
    BY <1>4 DEF Look
  <2>2. avail' = [avail EXCEPT ![c] = cursor] /\ mutex' = mutex /\ Elsewhere /\ cursor <= cursor
    BY <1>0, <1>4 DEF Look
  <2>3. cpc[c] \in Holding <=> to \in Holding
    BY <1>4 DEF Look
  <2>4. to \in Places /\ to \notin {"wait", "spin", "check_spin", "batch"}
    OBVIOUS
  <2>  QED
    BY <1>0, <2>1, <2>2, <2>3, <2>4, WaitingStep
<1>5. CASE Unlock(c)
  <2>1. PICK to \in {"batch", "spin"} : to = Dependent(c)
    BY <1>d
  <2>2. /\ cpc' = [cpc EXCEPT ![c] = to] /\ avail' = [avail EXCEPT ![c] = avail[c]]
        /\ mutex' = Free /\ cpc[c] \in Holding /\ to \notin Holding /\ Elsewhere
        /\ avail[c] <= cursor /\ to \in Places
    BY <1>0, <1>r, <1>5, <2>1 DEF Unlock
  <2>3. to \in {"check_spin", "batch"} => \A d \in Dependents[c] : avail[c] <= seq[d]
    BY <1>d, <2>1
  <2>  QED
    BY <1>0, <2>2, <2>3, WaitingStep
<1>6. CASE CheckAndWait(c)
  BY <1>0, <1>r, <1>6, WaitingStep DEF CheckAndWait
<1>7. CASE WakeUp(c)
  BY <1>0, <1>r, <1>7, WaitingStep DEF WakeUp
<1>8. CASE Spin(c)
  BY <1>0, <1>8, AvailableFacts, WaitingStep DEF Spin
<1>9. CASE CheckSpin(c)
  BY <1>0, <1>r, <1>9, WaitingStep DEF CheckSpin
<1>10. CASE Alerted(c)
  <2>1. PICK to \in {"wait", "exit"} : cpc' = [cpc EXCEPT ![c] = to]
    BY <1>10 DEF Alerted
  <2>2. /\ avail' = [avail EXCEPT ![c] = -1] /\ mutex' = mutex /\ Elsewhere
        /\ cpc[c] \notin Holding /\ to \notin Holding
    BY <1>10 DEF Alerted
  <2>3. -1 \in -1 .. MaxSequence /\ -1 <= cursor
    BY <1>0, MaxSequenceAssumption
  <2>4. to \in Places /\ to \notin {"check_spin", "batch"}
    OBVIOUS
  <2>  QED
    BY <2>1, <2>2, <2>3, <2>4, WaitingStep
<1>  QED
  BY <1>1, <1>3, <1>4, <1>5, <1>6, <1>7, <1>8, <1>9, <1>10

\* Run's beginning: the consumer starts after its own sequence.
LEMMA RunSeq ==
  ASSUME SeqInv, NEW c \in Consumers, RunStart(c) \/ ClearAlert(c)
  PROVE  SeqInv'
<1>  USE DEF SeqInv
<1>0. /\ cpc[c] \in {"created", "started"}
      /\ \/ next' = next /\ cpc' = [cpc EXCEPT ![c] = "started"]
         \/ next' = [next EXCEPT ![c] = seq[c] + 1] /\ cpc' = [cpc EXCEPT ![c] = "wait"]
      /\ UNCHANGED <<strategy, cursor, claimed, minGating, ppc, mutex, seq, avail, hpc,
                     early>>
  BY DEF RunStart, ClearAlert, Goto, pubVars
<1>1. running' \in [Consumers -> BOOLEAN] /\ alerted' \in [Consumers -> BOOLEAN]
  BY DEF RunStart, ClearAlert, SequencerTypeOK
<1>2. seq[c] \in -1 .. MaxSequence /\ seq[c] + 1 <= next[c] /\ next[c] \in Int
  BY DEF SequencerTypeOK, CursorInv
<1>3. /\ next' \in [Consumers -> 0 .. MaxSequence + 1] /\ cpc' \in [Consumers -> Places]
  BY <1>0, <1>2, MaxSequenceAssumption DEF SequencerTypeOK, Places
<1>4. /\ next'[c] \in {next[c], seq[c] + 1} /\ cpc'[c] \in {"started", "wait"}
      /\ \A d \in Consumers : d # c => next'[d] = next[d] /\ cpc'[d] = cpc[d]
  BY <1>0 DEF SequencerTypeOK
<1>5. SequencerTypeOK'
  BY <1>0, <1>1, <1>3, <1>4 DEF SequencerTypeOK, Places
<1>6. \A d \in Consumers : /\ next'[d] \in Int /\ next[d] \in Int
                           /\ seq[d] + 1 <= next'[d] /\ next'[d] <= next[d]
  BY <1>2, <1>3, <1>4, MaxSequenceAssumption DEF SequencerTypeOK, CursorInv
<1>7. CursorInv'
  BY <1>0, <1>6 DEF CursorInv, SequencerTypeOK
<1>8. ReadInv'
  <2>1. cpc[c] \notin {"wait", "spin"} /\ avail[c] <= cursor
    BY <1>0 DEF ReadInv
  <2>  QED
    BY <1>0, <1>4, <2>1 DEF ReadInv
<1>9. ChainInv'
  <2>  SUFFICES ASSUME NEW e \in Consumers, NEW d \in Dependents[e]
                PROVE  next'[e] <= seq[d] + 1
    BY <1>0 DEF ChainInv
  <2>1. seq[d] \in Int /\ next[e] <= seq[d] + 1
    BY DependentsAssumption DEF ChainInv, SequencerTypeOK
  <2>  QED
    BY <1>6, <2>1
<1>10. GateInv'
  BY <1>0 DEF GateInv, Writable
<1>  QED
  BY <1>5, <1>7, <1>8, <1>9, <1>10

\* OnEvent, returning or throwing: the event is published, and every dependent is
\* done with it.
LEMMA OnEventSeq ==
  ASSUME SeqInv, NEW c \in Consumers, OnEvent(c) \/ Throw(c)
  PROVE  SeqInv'
<1>  USE DEF SeqInv
<1>0. /\ cpc[c] = "batch" /\ next[c] <= avail[c]
      /\ next' = [next EXCEPT ![c] = @ + 1]
      /\ \/ seq' = seq /\ cpc' = cpc
         \/ seq' = [seq EXCEPT ![c] = next[c]] /\ cpc' = [cpc EXCEPT ![c] = "wait"]
      /\ UNCHANGED <<strategy, cursor, claimed, minGating, ppc, mutex,
                     running, alerted, hpc, early>>
  BY DEF OnEvent, Throw, Goto, pubVars, ctlVars
<1>a. /\ avail' \in [Consumers -> -1 .. MaxSequence]
      /\ \A d \in Consumers : avail'[d] = avail[d] \/ (d = c /\ cpc'[d] = "wait")
  BY MaxSequenceAssumption DEF OnEvent, Throw, Goto, Read, SequencerTypeOK
<1>1. /\ next[c] \in 0 .. MaxSequence + 1 /\ avail[c] \in -1 .. MaxSequence
      /\ cursor \in -1 .. MaxSequence /\ avail[c] <= cursor
      /\ \A d \in Dependents[c] : avail[c] <= seq[d]
  BY <1>0 DEF SequencerTypeOK, ReadInv
<1>2. next[c] \in 0 .. MaxSequence /\ next[c] + 1 <= cursor + 1 /\ seq[c] < next[c]
  BY <1>0, <1>1, MaxSequenceAssumption DEF CursorInv, SequencerTypeOK
<1>3. /\ seq' \in [Consumers -> -1 .. MaxSequence] /\ next' \in [Consumers -> 0 .. MaxSequence + 1]
      /\ cpc' \in [Consumers -> Places]
  BY <1>0, <1>2, MaxSequenceAssumption DEF SequencerTypeOK, Places
<1>4. /\ next'[c] = next[c] + 1 /\ seq'[c] \in {seq[c], next[c]}
      /\ \A d \in Consumers : d # c => next'[d] = next[d] /\ seq'[d] = seq[d]
      /\ \A d \in Consumers : cpc'[d] = cpc[d] \/ (d = c /\ cpc'[d] = "wait")
  BY <1>0 DEF SequencerTypeOK
<1>5. \A d \in Consumers : seq[d] <= seq'[d] /\ seq[d] \in Int /\ seq'[d] \in Int
  BY <1>2, <1>3, <1>4, MaxSequenceAssumption DEF SequencerTypeOK
<1>6. SequencerTypeOK'
  BY <1>0, <1>a, <1>3, <1>4 DEF SequencerTypeOK
<1>7. CursorInv'
  BY <1>0, <1>2, <1>4, <1>5 DEF CursorInv
<1>8. ReadInv'
  <2>  SUFFICES ASSUME NEW e \in Consumers
                PROVE  /\ cpc'[e] \notin {"wait", "spin"} => avail'[e] <= cursor'
                       /\ cpc'[e] \in {"check_spin", "batch"} =>
                            \A d \in Dependents[e] : avail'[e] <= seq'[d]
    BY DEF ReadInv
  <2>1. Dependents[e] \subseteq Consumers /\ avail[e] \in Int
    BY DependentsAssumption DEF SequencerTypeOK
  <2>2. (cpc'[e] = cpc[e] /\ avail'[e] = avail[e]) \/ cpc'[e] = "wait"
    BY <1>4, <1>a
  <2>  QED
    BY <1>0, <1>5, <2>1, <2>2 DEF ReadInv
<1>9. ChainInv'
  <2>  SUFFICES ASSUME NEW e \in Consumers, NEW d \in Dependents[e]
                PROVE  next'[e] <= seq'[d] + 1
    BY DEF ChainInv
  <2>0. d \in Consumers /\ next[e] \in Int
    BY DependentsAssumption DEF SequencerTypeOK
  <2>1. CASE e = c
    BY <2>0, <2>1, <1>0, <1>1, <1>4, <1>5
  <2>2. CASE e # c
    BY <2>0, <2>2, <1>4, <1>5 DEF ChainInv
  <2>  QED
    BY <2>1, <2>2
<1>10. GateInv'
  BY <1>0, <1>5, GatingAssumption, BufferSizeAssumption
     DEF GateInv, Writable, SequencerTypeOK
<1>  QED
  BY <1>6, <1>7, <1>8, <1>9, <1>10

\* set_sequence after the batch
LEMMA EndBatchSeq ==
  ASSUME SeqInv, NEW c \in Consumers, EndBatch(c)
  PROVE  SeqInv'
<1>  USE DEF SeqInv
<1>0. /\ seq' = [seq EXCEPT ![c] = next[c] - 1] /\ cpc' = [cpc EXCEPT ![c] = "wait"]
      /\ cpc[c] = "batch"
      /\ UNCHANGED <<strategy, cursor, claimed, minGating, ppc, mutex, next,
                     running, alerted, hpc, early>>
  BY DEF EndBatch, Goto, pubVars, ctlVars
<1>a. /\ avail' \in [Consumers -> -1 .. MaxSequence]
      /\ \A d \in Consumers : avail'[d] = avail[d] \/ (d = c /\ cpc'[d] = "wait")
  BY MaxSequenceAssumption DEF EndBatch, Goto, Read, SequencerTypeOK
<1>1. /\ next[c] \in 0 .. MaxSequence + 1 /\ seq[c] <= next[c] - 1
  BY DEF SequencerTypeOK, CursorInv
<1>2. seq' \in [Consumers -> -1 .. MaxSequence] /\ cpc' \in [Consumers -> Places]
  BY <1>0, <1>1, MaxSequenceAssumption DEF SequencerTypeOK, Places
<1>3. /\ seq'[c] = next[c] - 1
      /\ \A d \in Consumers : d # c => seq'[d] = seq[d]
      /\ \A d \in Consumers : cpc'[d] = cpc[d] \/ (d = c /\ cpc'[d] = "wait")
  BY <1>0 DEF SequencerTypeOK
<1>4. \A d \in Consumers : seq[d] <= seq'[d] /\ seq[d] \in Int /\ seq'[d] \in Int
  BY <1>1, <1>2, <1>3, MaxSequenceAssumption DEF SequencerTypeOK
<1>5. SequencerTypeOK'
  BY <1>0, <1>a, <1>2, <1>3 DEF SequencerTypeOK
<1>6. CursorInv'
  BY <1>0, <1>1, <1>3 DEF CursorInv
<1>7. ReadInv'
  <2>  SUFFICES ASSUME NEW e \in Consumers
                PROVE  /\ cpc'[e] \notin {"wait", "spin"} => avail'[e] <= cursor'
                       /\ cpc'[e] \in {"check_spin", "batch"} =>
                            \A d \in Dependents[e] : avail'[e] <= seq'[d]
    BY DEF ReadInv
  <2>1. Dependents[e] \subseteq Consumers /\ avail[e] \in Int
    BY DependentsAssumption DEF SequencerTypeOK
  <2>2. (cpc'[e] = cpc[e] /\ avail'[e] = avail[e]) \/ cpc'[e] = "wait"
    BY <1>3, <1>a
  <2>  QED
    BY <1>0, <1>4, <2>1, <2>2 DEF ReadInv
<1>8. ChainInv'
  <2>  SUFFICES ASSUME NEW e \in Consumers, NEW d \in Dependents[e]
                PROVE  next'[e] <= seq'[d] + 1
    BY DEF ChainInv
  <2>0. d \in Consumers /\ next[e] \in Int
    BY DependentsAssumption DEF SequencerTypeOK
  <2>  QED
    BY <2>0, <1>0, <1>4 DEF ChainInv
<1>9. GateInv'
  BY <1>0, <1>4, GatingAssumption, BufferSizeAssumption
     DEF GateInv, Writable, SequencerTypeOK
<1>  QED
  BY <1>5, <1>6, <1>7, <1>8, <1>9

-----------------------------------------------------------------------------
(***************************************************************************)
(* The theorems                                                            *)
(***************************************************************************)
\* A sequencer that was just built has published nothing and handled nothing.
LEMMA SeqInit == Init => SeqInv
<1>  SUFFICES ASSUME Init PROVE SeqInv
  OBVIOUS
<1>  USE DEF Init
<1>1. SequencerTypeOK
  BY MaxSequenceAssumption, ConsumersAssumption DEF SequencerTypeOK
<1>2. CursorInv /\ ReadInv
  BY DEF CursorInv, ReadInv
<1>3. ChainInv
  BY DependentsAssumption DEF ChainInv
<1>4. GateInv
  BY GatingAssumption, BufferSizeAssumption DEF GateInv, Writable
<1>  QED
  BY <1>1, <1>2, <1>3, <1>4 DEF SeqInv

\* Every step of the publisher, of a consumer and of halt keeps the invariant.
LEMMA SeqStep == SeqInv /\ [Next]_vars => SeqInv'
<1>  SUFFICES ASSUME SeqInv, [Next]_vars PROVE SeqInv'
  OBVIOUS
<1>1. CASE Publisher
  BY <1>1, HasAvalaibleCapacitySeq, ClaimSeq, GrantedSeq, PublishSeq, SignalSeq
     DEF Publisher
<1>2. CASE \E c \in Consumers : Steps(c) \/ Lock(c) \/ Throw(c) \/ WakeUp(c)
  BY <1>2, WaitForSeq, RunSeq, OnEventSeq, EndBatchSeq DEF Steps
<1>3. ASSUME NEW c \in Consumers, Halt(c) \/ Alert(c) PROVE SeqInv'
  <2>1. SequencerTypeOK'
    BY <1>3 DEF Halt, Alert, SeqInv, SequencerTypeOK, pubVars
  <2>2. CursorInv' /\ ReadInv' /\ ChainInv' /\ GateInv'
    BY <1>3
       DEF Halt, Alert, SeqInv, CursorInv, ReadInv, ChainInv, GateInv, Writable, pubVars
  <2>  QED
    BY <2>1, <2>2 DEF SeqInv
<1>4. CASE UNCHANGED vars
  BY <1>4
     DEF vars, pubVars, ctlVars, SeqInv, SequencerTypeOK, CursorInv, ReadInv,
         ChainInv, GateInv, Writable
<1>  QED
  BY <1>1, <1>2, <1>3, <1>4 DEF Next

\* The inductive invariant of the ring: no consumer overtakes the cursor or those
\* it depends on, and the publisher never laps a gating consumer.
THEOREM SequencerInvariant == Spec => []SeqInv
BY SeqInit, SeqStep, PTL DEF Spec

\* Sequences stay in their ranges, and at most one consumer has the mutex.
THEOREM SequencerTypeCorrect == Spec => []SequencerTypeOK
<1>1. SeqInv => SequencerTypeOK
  BY DEF SeqInv
<1>  QED
  BY <1>1, SequencerInvariant, PTL

\* The publisher is less than a ring's length ahead of every consumer, also of one
\* that holds it back only through those that wait for it.
LEMMA NobodyLapped ==
  ASSUME SeqInv
  PROVE  \A c \in Consumers : Writable - BufferSize <= seq[c]
<1>  DEFINE S == {c \in Consumers : Writable - BufferSize <= seq[c]}
<1>0. Writable \in Int /\ \A c \in Consumers : seq[c] \in Int /\ next[c] \in Int
  BY DEF SeqInv, SequencerTypeOK, Writable
<1>1. Gating \subseteq S
  BY GatingAssumption DEF SeqInv, GateInv
<1>2. \A c \in S : Dependents[c] \subseteq S
  <2>  SUFFICES ASSUME NEW c \in S, NEW d \in Dependents[c] PROVE d \in S
    OBVIOUS
  <2>1. d \in Consumers
    BY DependentsAssumption
  <2>2. seq[c] + 1 <= next[c] /\ next[c] <= seq[d] + 1
    BY DEF SeqInv, CursorInv, ChainInv
  <2>  QED
    BY <2>1, <2>2, <1>0, BufferSizeAssumption
<1>3. S = Consumers
  BY <1>1, <1>2, GatingCoversAssumption
<1>  QED
  BY <1>3

\* The event a consumer handles is published, done with by those before it, and not
\* overwritten: for every graph of consumers whose ends gate the publisher.
THEOREM HandledEventStableHolds == Spec => []HandledEventStable
<1>1. ASSUME SeqInv PROVE HandledEventStable
  <2>  SUFFICES ASSUME NEW c \in Consumers, cpc[c] = "batch", next[c] <= avail[c]
                PROVE  /\ next[c] <= cursor
                       /\ \A d \in Dependents[c] : seq[d] >= next[c]
                       /\ Writable < next[c] + BufferSize
    BY DEF HandledEventStable
  <2>0. /\ next[c] \in Int /\ avail[c] \in Int /\ cursor \in Int /\ seq[c] \in Int
        /\ Writable \in Int /\ \A d \in Dependents[c] : seq[d] \in Int
    BY <1>1, DependentsAssumption DEF SeqInv, SequencerTypeOK, Writable
  <2>1. avail[c] <= cursor /\ \A d \in Dependents[c] : avail[c] <= seq[d]
    BY <1>1 DEF SeqInv, ReadInv
  <2>2. Writable - BufferSize <= seq[c] /\ seq[c] + 1 <= next[c]
    BY <1>1, NobodyLapped DEF SeqInv, CursorInv
  <2>3. Writable < next[c] + BufferSize
    BY <2>0, <2>2, BufferSizeAssumption
  <2>  QED
    BY <2>0, <2>1, <2>3
<1>  QED
  BY <1>1, SequencerInvariant, PTL
=============================================================================
