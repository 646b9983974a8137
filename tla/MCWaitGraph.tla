---------------------------- MODULE MCWaitGraph ----------------------------
(***************************************************************************)
(* All graphs of four agents.                                              *)
(***************************************************************************)
EXTENDS WaitGraph

MCAgents == 1..4

=============================================================================
