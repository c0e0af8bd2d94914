---------------------------- MODULE MCTxPipeline ----------------------------
(***************************************************************************)
(* Small instances of TxPipeline.  The ring has two slots, so that a third *)
(* transaction wraps it while the publisher lags.                          *)
(***************************************************************************)
EXTENDS TxPipeline

CONSTANT put

MCOneOp == {put}
=============================================================================
