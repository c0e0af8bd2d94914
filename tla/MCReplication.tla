--------------------------- MODULE MCReplication ---------------------------
(***************************************************************************)
(* Instances of Replication: one key, a value of one word and one of two.  *)
(***************************************************************************)
EXTENDS Replication

CONSTANTS w1, w2 \* words

MCOps    == Puts \cup Dels
MCValues == {<<w1>>, <<w2, w1>>}

\* ReplSpec /\ ReplFairness of a socket that keeps up, the hypothesis []WireKeepsUp
\* of the theorems: only a slot that begin() is granted can break it.
KeepsUpNext == (TakeSlot /\ WireKeepsUp') \/ OtherNext

KeepsUpSpec == ReplInit /\ [][KeepsUpNext]_allVars /\ ReplFairness
=============================================================================
