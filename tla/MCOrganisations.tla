-------------------------- MODULE MCOrganisations --------------------------
(***************************************************************************)
(* Three accounts and two organisations that share one remote below the    *)
(* login, one named project and one invitation link at a time, for TLC.    *)
(* Nobody is told apart but by what they did.                              *)
(***************************************************************************)
EXTENDS Organisations, TLC

Symmetry == Permutations(Accounts) \union Permutations(Orgs)

=============================================================================
