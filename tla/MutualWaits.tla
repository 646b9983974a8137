---------------------------- MODULE MutualWaits ----------------------------
(***************************************************************************)
(* What a mutual wait is (src/internal/store/coordwait.go): a group of two *)
(* or more agents each of whom waits, directly or through others, on each  *)
(* of the rest.  An edge <<a, b>> says that a waits on b.                  *)
(***************************************************************************)
CONSTANT Agents

\* Every set that holds a and, with an agent, all those it waits on, holds b.
Reaches(E, a, b) ==
    \A S \in SUBSET Agents :
        a \in S /\ (\A e \in E : e[1] \in S => e[2] \in S) => b \in S

GroupOf(E, a) == {b \in Agents : Reaches(E, a, b) /\ Reaches(E, b, a)}

\* The strongly connected groups; an agent on its own is none.
Groups(E) == {GroupOf(E, a) : a \in Agents} \ {{a} : a \in Agents}

=============================================================================
