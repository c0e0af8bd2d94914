----------------------------- MODULE MCCatalog -----------------------------
(***************************************************************************)
(* An instance of Catalog with one table, two handles of the application   *)
(* and room for a second nldb_init that finds too few slots.               *)
(***************************************************************************)
EXTENDS Catalog
=============================================================================
