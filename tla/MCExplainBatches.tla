-------------------------- MODULE MCExplainBatches --------------------------
(***************************************************************************)
(* One process that is started every hour and one that runs once, with two *)
(* objects that fit in one batch.                                          *)
(***************************************************************************)
EXTENDS ExplainBatches

=============================================================================
