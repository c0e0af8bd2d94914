------------------------------ MODULE MCCursor ------------------------------
(***************************************************************************)
(* A small instance of Cursor: five keys make up to three leaves.          *)
(***************************************************************************)
EXTENDS Cursor

CONSTANT v

MCKeys == 1 .. 5
=============================================================================
