--------------------------- MODULE MCCoordChannel ---------------------------
(***************************************************************************)
(* A channel process and a hook call, or two hook calls, on a room of few  *)
(* messages.                                                               *)
(***************************************************************************)
EXTENDS CoordChannel, TLC

\* The hook calls of a session are interchangeable. Only for runs without a
\* liveness property.
HookSymmetry == Permutations(Hooks)

=============================================================================
