---------------------------- MODULE MCLevelTable ----------------------------
(***************************************************************************)
(* A small instance of LevelTable: three keys are written while a cursor is*)
(* open.                                                                   *)
(***************************************************************************)
EXTENDS LevelTable

CONSTANTS v, w

MCKeys == 1 .. 3
=============================================================================
