-------------------------- MODULE MCRuntimeWriter --------------------------
(***************************************************************************)
(* A small runtime writer for TLC: calls that fill both limits and share   *)
(* transactions, beside hits of three kinds on one key.                    *)
(***************************************************************************)
EXTENDS RuntimeWriter

=============================================================================
