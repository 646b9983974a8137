---------------------------- MODULE MCWaitCycles ----------------------------
(***************************************************************************)
(* Three agents: mutual waits of two and of three that grow, shrink, lapse *)
(* and form again.                                                         *)
(***************************************************************************)
EXTENDS WaitCycles, TLC

Symmetry == Permutations(Agents \ Movers) \union Permutations(Movers) \union Permutations(Messages)

=============================================================================
