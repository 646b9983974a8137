--------------------------- MODULE MCJoinSessions ---------------------------
(***************************************************************************)
(* Two installers, one of whom may come back, and two pairing codes.       *)
(***************************************************************************)
EXTENDS JoinSessions, TLC

Symmetry == Permutations(Installers) \union Permutations(Tabs)

=============================================================================
