--------------------------- MODULE MCAgentControl ---------------------------
(***************************************************************************)
(* AgentControl.cfg: two controls, two tool calls and the daemon;          *)
(* AgentEvidence.cfg: one control and one call, the daemon and a run with  *)
(* --once beside it.                                                       *)
(***************************************************************************)
EXTENDS AgentControl

=============================================================================
