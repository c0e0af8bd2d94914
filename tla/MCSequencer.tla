---------------------------- MODULE MCSequencer ----------------------------
(***************************************************************************)
(* A chain of two consumers, as in the disruptor's pipeline benchmark: the *)
(* first waits for the cursor, the second for the first.                   *)
(***************************************************************************)
EXTENDS Sequencer

MCDependents == [c \in Consumers |-> IF c = "second" THEN {"first"} ELSE {}]
=============================================================================
