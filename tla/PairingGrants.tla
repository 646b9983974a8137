---------------------------- MODULE PairingGrants ----------------------------
(***************************************************************************)
(* What a pairing promises the account (the head of                        *)
(* src/internal/store/joinsession.go): a device asks with a code, one      *)
(* request at a time waits, the person approves at most one of a code, and *)
(* only from that one a token is made, once.  What is closed stays closed, *)
(* and the machine has one valid token at most.                            *)
(***************************************************************************)
CONSTANTS Requests, Codes, NoCode

VARIABLES
    code,    \* the code a request came with
    fate,    \* of each request
    used     \* the codes of which a request was approved

vars == <<code, fate, used>>

Fates == {"none", "waiting", "approved", "closed", "valid", "revoked"}

TypeOK ==
    /\ code \in [Requests -> Codes \union {NoCode}]
    /\ fate \in [Requests -> Fates]
    /\ used \subseteq Codes

Init ==
    /\ code = [r \in Requests |-> NoCode]
    /\ fate = [r \in Requests |-> "none"]
    /\ used = {}

Turn(rs, to) == [r \in Requests |-> IF r \in rs THEN to ELSE fate[r]]

InState(f) == {r \in Requests : fate[r] = f}

\* A device asks, or asks again and takes the place of its first request.
Ask(r, k) ==
    /\ fate[r] = "none" /\ k \notin used
    /\ \A w \in InState("waiting") : code[w] = k
    /\ fate' = [Turn(InState("waiting"), "closed") EXCEPT ![r] = "waiting"]
    /\ code' = [code EXCEPT ![r] = k]
    /\ UNCHANGED used

Approve(r) ==
    /\ fate[r] = "waiting" /\ code[r] \notin used
    /\ fate' = Turn({r}, "approved")
    /\ used' = used \union {code[r]}
    /\ UNCHANGED code

\* Refused, expired, replaced, discarded, forgotten, or failed.
Close(rs) ==
    /\ rs \subseteq InState("waiting") \union InState("approved")
    /\ fate' = Turn(rs, "closed")
    /\ UNCHANGED <<code, used>>

\* The token takes the place of the machine's earlier one.
Give(r) ==
    /\ fate[r] = "approved"
    /\ fate' = [Turn(InState("valid"), "revoked") EXCEPT ![r] = "valid"]
    /\ UNCHANGED <<code, used>>

Revoke(r) ==
    /\ fate[r] = "valid"
    /\ fate' = Turn({r}, "revoked")
    /\ UNCHANGED <<code, used>>

Next ==
    \/ \E r \in Requests : Approve(r) \/ Give(r) \/ Revoke(r) \/ \E k \in Codes : Ask(r, k)
    \/ \E rs \in SUBSET Requests : Close(rs)

Spec == Init /\ [][Next]_vars

=============================================================================
