----------------------------- MODULE AtMostOnce -----------------------------
(***************************************************************************)
(* What the channel promises for the messages that wake an agent (the      *)
(* delivery section of src/internal/claudechannel/doc.go): a message is    *)
(* claimed once, and what is claimed is either delivered once or lost for  *)
(* good; nothing returns from either.                                      *)
(***************************************************************************)
CONSTANT Messages

VARIABLE fate       \* of each message

Fates == {"open", "claimed", "delivered", "lost"}

TypeOK == fate \in [Messages -> Fates]

Init == fate = [m \in Messages |-> "open"]

Become(msgs, f) == fate' = [m \in Messages |-> IF m \in msgs THEN f ELSE fate[m]]

Claim(m) == fate[m] = "open" /\ Become({m}, "claimed")

\* A hook call delivers all it has claimed with its one answer.
Deliver(msgs) == (\A m \in msgs : fate[m] = "claimed") /\ Become(msgs, "delivered")

\* The write fails, the process dies, or the reply to the claim is lost.
Lose(msgs) == (\A m \in msgs : fate[m] \in {"open", "claimed"}) /\ Become(msgs, "lost")

Next ==
    \/ \E m \in Messages : Claim(m)
    \/ \E msgs \in SUBSET Messages : Deliver(msgs) \/ Lose(msgs)

Spec == Init /\ [][Next]_fate

=============================================================================
