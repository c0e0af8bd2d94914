----------------------------- MODULE LogShipping -----------------------------
(***************************************************************************)
(* What replication promises: the replica holds the tables that the first  *)
(* "applied" transactions of the log produce, for some such number, and    *)
(* moves forward one whole transaction at a time.  A restarted replica     *)
(* starts again from nothing.                                              *)
(***************************************************************************)
EXTENDS Naturals, Sequences

CONSTANTS
  EmptyTable,      \* the table before the first transaction
  Replay(_, _)     \* the table a transaction's records make of a table

VARIABLES
  log,      \* the transactions, in the order they ended
  applied,  \* how many of them the replica has applied
  replica   \* the replica's table

vars == <<log, applied, replica>>

Init == log = <<>> /\ applied = 0 /\ replica = EmptyTable

\* A transaction ends on the master.
End ==
  /\ Len(log') = Len(log) + 1
  /\ SubSeq(log', 1, Len(log)) = log
  /\ UNCHANGED <<applied, replica>>

\* The replica applies the next transaction, the whole of it.
Apply ==
  /\ applied < Len(log)
  /\ replica' = Replay(replica, log[applied + 1].ops)
  /\ applied' = applied + 1
  /\ UNCHANGED log

Restart == applied' = 0 /\ replica' = EmptyTable /\ UNCHANGED log

Next == End \/ Apply \/ Restart

Spec == Init /\ [][Next]_vars
=============================================================================
