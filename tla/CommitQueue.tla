---------------------------- MODULE CommitQueue ----------------------------
(***************************************************************************)
(* What the runtime writer of the store promises its callers, without its  *)
(* worker, lock, batches or limits: calls are accepted into one line, the  *)
(* oldest undecided calls are decided first, several of them may commit in *)
(* one transaction, and each caller is told, once and in the order of      *)
(* acceptance, whether its own call committed.                             *)
(***************************************************************************)
EXTENDS Sequences, Naturals

CONSTANTS Callers,      \* goroutines that call the store, one call at a time
          Refusals      \* the reasons for which a call may be turned away

VARIABLES
    line,       \* accepted calls that were not told their outcome, oldest first
    verdict,    \* what the database did with the current call of a caller
    commits,    \* how often the current call's transaction was committed
    outcome,    \* what the caller of the current call was told
    closed      \* no further call is accepted

vars == <<line, verdict, commits, outcome, closed>>

InLine(c) == \E i \in 1..Len(line) : line[i] = c

Free(c) == outcome[c] = "none" /\ ~InLine(c)

TypeOK ==
    /\ line \in Seq(Callers)
    /\ verdict \in [Callers -> {"none", "ok", "err"}]
    /\ commits \in [Callers -> Nat]
    /\ outcome \in [Callers -> {"none", "ok", "err"} \union Refusals]
    /\ closed \in BOOLEAN

Init ==
    /\ line = <<>>
    /\ verdict = [c \in Callers |-> "none"]
    /\ commits = [c \in Callers |-> 0]
    /\ outcome = [c \in Callers |-> "none"]
    /\ closed = FALSE

Accept(c) ==
    /\ ~closed
    /\ Free(c)
    /\ line' = Append(line, c)
    /\ UNCHANGED <<verdict, commits, outcome, closed>>

Refuse(c) ==
    /\ Free(c)
    /\ \E why \in Refusals : outcome' = [outcome EXCEPT ![c] = why]
    /\ UNCHANGED <<line, verdict, commits, closed>>

\* Nobody older than position i is undecided, and i is.
OldestUndecided(i) ==
    /\ verdict[line[i]] = "none"
    /\ \A j \in 1..(i - 1) : verdict[line[j]] # "none"

\* The calls at positions i..k commit in one transaction.
Commit(i, k) ==
    LET batch == {line[j] : j \in i..k} IN
    /\ OldestUndecided(i)
    /\ verdict' = [c \in Callers |-> IF c \in batch THEN "ok" ELSE verdict[c]]
    /\ commits' = [c \in Callers |-> IF c \in batch THEN commits[c] + 1 ELSE commits[c]]
    /\ UNCHANGED <<line, outcome, closed>>

\* The call at position i failed and left nothing behind.
Fail(i) ==
    /\ OldestUndecided(i)
    /\ verdict' = [verdict EXCEPT ![line[i]] = "err"]
    /\ UNCHANGED <<line, commits, outcome, closed>>

Answer ==
    /\ line # <<>>
    /\ verdict[Head(line)] # "none"
    /\ outcome' = [outcome EXCEPT ![Head(line)] = verdict[Head(line)]]
    /\ verdict' = [verdict EXCEPT ![Head(line)] = "none"]
    /\ line' = Tail(line)
    /\ UNCHANGED <<commits, closed>>

\* The caller picks its outcome up and is free to call again.
Return(c) ==
    /\ outcome[c] # "none"
    /\ outcome' = [outcome EXCEPT ![c] = "none"]
    /\ commits' = [commits EXCEPT ![c] = 0]
    /\ UNCHANGED <<line, verdict, closed>>

Close ==
    /\ closed' = TRUE
    /\ UNCHANGED <<line, verdict, commits, outcome>>

Decide == \E i \in 1..Len(line) :
    \/ Fail(i)
    \/ \E k \in i..Len(line) : Commit(i, k)

Next ==
    \/ \E c \in Callers : Accept(c) \/ Refuse(c) \/ Return(c)
    \/ Decide
    \/ Answer
    \/ Close

Spec == Init /\ [][Next]_vars /\ WF_vars(Decide) /\ WF_vars(Answer)

=============================================================================
