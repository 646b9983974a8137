--------------------------- MODULE RuntimeWriter ---------------------------
(***************************************************************************)
(* src/internal/store/writer*.go: one goroutine performs every write of    *)
(* the running server.  Callers are admitted under limits into a FIFO      *)
(* queue and wait for their answer; the worker commits neighbouring chunk  *)
(* appends together and falls back to one transaction each when the group  *)
(* fails.  Usage counts, machine names and token uses ride along as "best  *)
(* effort": they are merged into one batch per kind, written when the      *)
(* queue is empty, and counted as dropped rather than waited for.          *)
(***************************************************************************)
EXTENDS Integers, Sequences, FiniteSets

CONSTANTS
    Callers,        \* goroutines that call the store, one call at a time
    Sizes,          \* payload sizes of the calls
    MaxOperations,  \* WriterConfig.MaxOperations
    MaxBytes,       \* WriterConfig.MaxBytes
    MaxBatch,       \* WriterConfig.MaxBatch
    Kinds,          \* the kinds of best-effort writes in use
    Keys,           \* knowledge ids, host names or token ids
    MaxKeys,        \* bestEffortMaxKeys
    MaxCount        \* the largest count of a key (math.MaxInt64)

Delivery == 0
Search   == 1
Machine  == 2
Token    == 3

UsageKinds == Kinds \intersect {Delivery, Search}

ASSUME WriterAssumption ==
    /\ Sizes \subseteq Nat
    /\ MaxOperations \in Nat \ {0}
    /\ MaxBytes \in Nat \ {0}
    /\ MaxBatch \in Nat \ {0}
    /\ Kinds \subseteq {Delivery, Search, Machine, Token}
    /\ MaxKeys \in Nat \ {0}
    /\ MaxCount \in Nat \ {0}

VARIABLES
    queue,      \* head..tail: admitted, not yet popped
    group,      \* popped by the worker and not answered yet
    phase,      \* where the worker is, see Phases
    size,       \* bytes of a caller's current call
    chunk,      \* is the current call a chunk append?
    operations, bytes,  \* the load that admission counts
    closed,
    verdict,    \* result of the current call's transaction
    commits,    \* how often the current call's transaction was committed
    outcome,    \* what the caller was told: an answer or a refusal
    pending,    \* bestEffort[kind]: merged and not yet written
    active,     \* bestEffort[kind].active
    taken,      \* hits of the batch that is before the database
    owed,       \* hits taken over that were neither written nor dropped
    touched,    \* keys of tokenTouched
    fresh       \* those of them younger than tokenTouchEvery

callVars == <<size, chunk, verdict, commits, outcome>>
loadVars == <<operations, bytes>>
bestVars == <<pending, active, taken, owed, touched, fresh>>
vars == <<queue, group, phase, closed, callVars, loadVars, bestVars>>

\* wait: in ready.Wait; lock: about to look for work; write: a popped group
\* is before the database; single: its head alone is; complete: the head's
\* result is known; answer: its share of the load is released, done is not
\* sent; bestEffort: a batch is before the database; stopped: w.done closed.
Phases == {"wait", "lock", "write", "single", "complete", "answer",
           "bestEffort", "stopped"}

Refusals == {"closed", "cancelled", "oversized", "operationsFull", "bytesFull"}

-----------------------------------------------------------------------------
InLine(c) == (\E i \in 1..Len(queue) : queue[i] = c)
          \/ (\E i \in 1..Len(group) : group[i] = c)

Free(c) == outcome[c] = "none" /\ ~InLine(c)

\* ready.Signal and ready.Broadcast: there is only one waiter.
Woken == IF phase = "wait" THEN "lock" ELSE phase

Waiting(kind) == \E k \in Keys : pending[kind][k] > 0

\* nextBestEffort: the lowest kind with something to write.
IsNext(kind) == Waiting(kind) /\ \A other \in Kinds : Waiting(other) => kind <= other

Empty == [k \in Keys |-> 0]

Init ==
    /\ queue = <<>> /\ group = <<>>
    /\ phase = "lock"
    /\ size = [c \in Callers |-> 0]
    /\ chunk = [c \in Callers |-> FALSE]
    /\ operations = 0 /\ bytes = 0
    /\ closed = FALSE
    /\ verdict = [c \in Callers |-> "none"]
    /\ commits = [c \in Callers |-> 0]
    /\ outcome = [c \in Callers |-> "none"]
    /\ pending = [kind \in Kinds |-> Empty]
    /\ active = [kind \in Kinds |-> FALSE]
    /\ taken = Empty
    /\ owed = [kind \in Kinds |-> Empty]
    /\ touched = {} /\ fresh = {}

-----------------------------------------------------------------------------
(* Admission: one critical section of w.mu.                                *)

Refusal(n, cancelled) ==
    IF closed THEN "closed"
    ELSE IF cancelled THEN "cancelled"
    ELSE IF n > MaxBytes THEN "oversized"
    ELSE IF operations >= MaxOperations THEN "operationsFull"
    ELSE IF n > MaxBytes - bytes THEN "bytesFull"
    ELSE "none"

Admit(c, n, isChunk) ==
    /\ Free(c)
    /\ Refusal(n, FALSE) = "none"
    /\ size' = [size EXCEPT ![c] = n]
    /\ chunk' = [chunk EXCEPT ![c] = isChunk]
    /\ operations' = operations + 1
    /\ bytes' = bytes + n
    /\ queue' = Append(queue, c)
    /\ phase' = Woken
    /\ UNCHANGED <<group, closed, verdict, commits, outcome, bestVars>>

Reject(c, n, cancelled) ==
    /\ Free(c)
    /\ Refusal(n, cancelled) # "none"
    /\ outcome' = [outcome EXCEPT ![c] = Refusal(n, cancelled)]
    /\ UNCHANGED <<queue, group, phase, closed, size, chunk, verdict, commits,
                   loadVars, bestVars>>

\* submit returns: the caller has its answer or its refusal.
Return(c) ==
    /\ outcome[c] # "none"
    /\ outcome' = [outcome EXCEPT ![c] = "none"]
    /\ commits' = [commits EXCEPT ![c] = 0]
    /\ UNCHANGED <<queue, group, phase, closed, size, chunk, verdict, loadVars, bestVars>>

\* Mutant: close does not wake the worker.
CloseQuietly ==
    /\ ~closed
    /\ closed' = TRUE
    /\ UNCHANGED <<queue, group, phase, callVars, loadVars, bestVars>>

Close ==
    /\ ~closed
    /\ closed' = TRUE
    /\ phase' = Woken
    /\ UNCHANGED <<queue, group, callVars, loadVars, bestVars>>

-----------------------------------------------------------------------------
(* The worker.                                                             *)

Wait ==
    /\ phase = "lock"
    /\ queue = <<>> /\ ~closed
    /\ \A kind \in Kinds : ~Waiting(kind)
    /\ phase' = "wait"
    /\ UNCHANGED <<queue, group, closed, callVars, loadVars, bestVars>>

\* How many calls leave the queue together: a chunk append takes the chunk
\* appends behind it along, up to MaxBatch, any other call goes alone.
IsGroup(n) ==
    IF ~chunk[queue[1]] THEN n = 1
    ELSE /\ n <= MaxBatch
         /\ \A i \in 1..n : chunk[queue[i]]
         /\ n \in {MaxBatch, Len(queue)} \/ (n < Len(queue) /\ ~chunk[queue[n + 1]])

\* Mutant: the newest call goes first.
PopNewest ==
    /\ phase = "lock"
    /\ queue # <<>>
    /\ group' = <<queue[Len(queue)]>>
    /\ queue' = SubSeq(queue, 1, Len(queue) - 1)
    /\ phase' = "write"
    /\ UNCHANGED <<closed, callVars, loadVars, bestVars>>

Pop ==
    /\ phase = "lock"
    /\ queue # <<>>
    /\ \E n \in 1..Len(queue) :
        /\ IsGroup(n)
        /\ group' = SubSeq(queue, 1, n)
        /\ queue' = SubSeq(queue, n + 1, Len(queue))
    /\ phase' = "write"
    /\ UNCHANGED <<closed, callVars, loadVars, bestVars>>

InGroup(c) == \E i \in 1..Len(group) : group[i] = c

\* r.run of a single call, or one transaction for the whole chunk group.
CommitGroup ==
    /\ phase = "write"
    /\ verdict' = [c \in Callers |-> IF InGroup(c) THEN "ok" ELSE verdict[c]]
    /\ commits' = [c \in Callers |-> IF InGroup(c) THEN commits[c] + 1 ELSE commits[c]]
    /\ phase' = "complete"
    /\ UNCHANGED <<queue, group, closed, size, chunk, outcome, loadVars, bestVars>>

\* Mutant: a failed group keeps what it wrote before its calls are tried again.
FailGroupUnrolled ==
    /\ phase = "write"
    /\ phase' = "single"
    /\ commits' = [c \in Callers |-> IF InGroup(c) THEN commits[c] + 1 ELSE commits[c]]
    /\ UNCHANGED <<queue, group, closed, size, chunk, verdict, outcome, loadVars, bestVars>>

\* The transaction is rolled back: a call on its own has failed, the calls
\* of a group are tried one by one.
FailGroup ==
    /\ phase = "write"
    /\ IF Len(group) > 1
       THEN phase' = "single" /\ UNCHANGED verdict
       ELSE /\ phase' = "complete"
            /\ verdict' = [verdict EXCEPT ![Head(group)] = "err"]
    /\ UNCHANGED <<queue, group, closed, size, chunk, commits, outcome, loadVars, bestVars>>

CommitSingle ==
    /\ phase = "single"
    /\ verdict' = [verdict EXCEPT ![Head(group)] = "ok"]
    /\ commits' = [commits EXCEPT ![Head(group)] = @ + 1]
    /\ phase' = "complete"
    /\ UNCHANGED <<queue, group, closed, size, chunk, outcome, loadVars, bestVars>>

FailSingle ==
    /\ phase = "single"
    /\ verdict' = [verdict EXCEPT ![Head(group)] = "err"]
    /\ phase' = "complete"
    /\ UNCHANGED <<queue, group, closed, size, chunk, commits, outcome, loadVars, bestVars>>

\* Mutant: a failed call keeps its place.
CompleteIfOk ==
    /\ phase = "complete"
    /\ operations' = operations - IF verdict[Head(group)] = "ok" THEN 1 ELSE 0
    /\ bytes' = bytes - size[Head(group)]
    /\ phase' = "answer"
    /\ UNCHANGED <<queue, group, closed, callVars, bestVars>>

\* complete, under the lock: the call gives its share of the limits back ...
Complete ==
    /\ phase = "complete"
    /\ operations' = operations - 1
    /\ bytes' = bytes - size[Head(group)]
    /\ phase' = "answer"
    /\ UNCHANGED <<queue, group, closed, callVars, bestVars>>

\* ... and only then is r.done sent, after which the request is gone; the loop
\* goes on with the next call of the group, which has a result already unless
\* the group is falling back.
Answer ==
    /\ phase = "answer"
    /\ outcome' = [outcome EXCEPT ![Head(group)] = verdict[Head(group)]]
    /\ verdict' = [verdict EXCEPT ![Head(group)] = "none"]
    /\ size' = [size EXCEPT ![Head(group)] = 0]
    /\ chunk' = [chunk EXCEPT ![Head(group)] = FALSE]
    /\ group' = Tail(group)
    /\ phase' = IF Len(group) = 1 THEN "lock"
                ELSE IF verdict[group[2]] = "none" THEN "single" ELSE "complete"
    /\ UNCHANGED <<queue, closed, commits, loadVars, bestVars>>

StartBestEffort ==
    /\ phase = "lock"
    /\ queue = <<>>
    /\ \E kind \in Kinds :
        /\ IsNext(kind)
        /\ active' = [active EXCEPT ![kind] = TRUE]
        /\ taken' = pending[kind]
    /\ phase' = "bestEffort"
    /\ UNCHANGED <<queue, group, closed, callVars, loadVars, pending, owed, touched, fresh>>

\* runBestEffort after its transaction: the batch was written or, on an
\* error, counted as dropped; what is forgotten is the batch as it is now.
FinishBestEffort ==
    /\ phase = "bestEffort"
    /\ \E kind \in Kinds :
        /\ active[kind]
        /\ owed' = [owed EXCEPT ![kind] = [k \in Keys |-> @[k] - taken[k]]]
        /\ pending' = [pending EXCEPT ![kind] = Empty]
        /\ active' = [active EXCEPT ![kind] = FALSE]
    /\ taken' = Empty
    /\ phase' = "lock"
    /\ UNCHANGED <<queue, group, closed, callVars, loadVars, touched, fresh>>

Stop ==
    /\ phase = "lock"
    /\ queue = <<>> /\ closed
    /\ \A kind \in Kinds : ~Waiting(kind)
    /\ phase' = "stopped"
    /\ UNCHANGED <<queue, group, closed, callVars, loadVars, bestVars>>

-----------------------------------------------------------------------------
(* Best-effort hits.  A hit is dropped and counted when the lock is taken  *)
(* (TryLock), when the writer is closed, when the kind's batch is before   *)
(* the database or when the batch is full; that changes none of this.      *)

Held(kind) == {k \in Keys : pending[kind][k] > 0}

\* Mutant: hits enter while the batch is written.
TakesHitsWhileActive(kind) == ~closed

TakesHits(kind) == ~closed /\ ~active[kind]

Plus(hits, accepted) == [k \in Keys |-> IF k \in accepted THEN hits[k] + 1 ELSE hits[k]]

Queue(kind, accepted) ==
    /\ pending' = [pending EXCEPT ![kind] = Plus(@, accepted)]
    /\ owed' = [owed EXCEPT ![kind] = Plus(@, accepted)]
    /\ phase' = Woken
    /\ UNCHANGED <<queue, group, closed, callVars, loadVars, active, taken>>

\* Mutant: a count is not stopped at MaxCount.
CoalesceUnbounded(kind, ks) ==
    /\ TakesHits(kind)
    /\ Queue(kind, IF Held(kind) = {} THEN {CHOOSE k \in ks : TRUE}
                   ELSE ks \intersect Held(kind))
    /\ UNCHANGED <<touched, fresh>>

\* coalesceUsage(ks): known keys count up to MaxCount, new keys are taken in
\* the order of ks until MaxKeys are held.
CoalesceUsage(kind, ks) ==
    /\ TakesHits(kind)
    /\ LET known == {k \in ks \intersect Held(kind) : pending[kind][k] < MaxCount}
           new   == ks \ Held(kind)
           room  == MaxKeys - Cardinality(Held(kind))
       IN  \E some \in SUBSET new :
            /\ Cardinality(some) = IF Cardinality(new) <= room THEN Cardinality(new) ELSE room
            /\ Queue(kind, known \union some)
    /\ UNCHANGED <<touched, fresh>>

CoalesceMachine(host) ==
    /\ TakesHits(Machine)
    /\ host \notin Held(Machine)
    /\ Cardinality(Held(Machine)) < MaxKeys
    /\ Queue(Machine, {host})
    /\ UNCHANGED <<touched, fresh>>

\* coalesceToken: the mark that throttles a token is set when its use is
\* queued, and the marks of all tokens are cleared when there are too many.
CoalesceToken(id) ==
    /\ TakesHits(Token)
    /\ id \notin fresh
    /\ id \notin Held(Token)
    /\ Cardinality(Held(Token)) < MaxKeys
    /\ LET cleared == Cardinality(touched) >= MaxKeys IN
        /\ touched' = {id} \union IF cleared THEN {} ELSE touched
        /\ fresh' = {id} \union IF cleared THEN {} ELSE fresh
    /\ Queue(Token, {id})

\* tokenTouchEvery passes since a token's mark was set.
TokenAges(id) ==
    /\ id \in fresh
    /\ fresh' = fresh \ {id}
    /\ UNCHANGED <<queue, group, phase, closed, callVars, loadVars, pending, active,
                   taken, owed, touched>>

-----------------------------------------------------------------------------
Calls ==
    \/ \E c \in Callers, n \in Sizes :
        \/ \E isChunk \in BOOLEAN : Admit(c, n, isChunk)
        \/ \E cancelled \in BOOLEAN : Reject(c, n, cancelled)
    \/ \E c \in Callers : Return(c)

Write ==
    \/ Pop
    \/ CommitGroup \/ FailGroup
    \/ CommitSingle \/ FailSingle
    \/ Complete \/ Answer

Work == Wait \/ Write \/ StartBestEffort \/ FinishBestEffort \/ Stop

Coalesce ==
    \/ \E kind \in UsageKinds, ks \in SUBSET Keys : ks # {} /\ CoalesceUsage(kind, ks)
    \/ \E k \in Keys : Machine \in Kinds /\ CoalesceMachine(k)
    \/ \E k \in Keys : Token \in Kinds /\ CoalesceToken(k)
    \/ \E k \in Keys : TokenAges(k)

Next == Calls \/ Close \/ Work \/ Coalesce

\* The worker goroutine keeps running and every transaction ends.
Spec == Init /\ [][Next]_vars /\ WF_vars(Work)

-----------------------------------------------------------------------------
(* What the writer promises.                                               *)

\* The types of the variables.
TypeOK ==
    /\ queue \in Seq(Callers) /\ group \in Seq(Callers)
    /\ phase \in Phases
    /\ size \in [Callers -> Nat] /\ chunk \in [Callers -> BOOLEAN]
    /\ operations \in Int /\ bytes \in Int
    /\ closed \in BOOLEAN
    /\ verdict \in [Callers -> {"none", "ok", "err"}]
    /\ commits \in [Callers -> Nat]
    /\ outcome \in [Callers -> {"none", "ok", "err"} \union Refusals]
    /\ pending \in [Kinds -> [Keys -> 0..MaxCount]]
    /\ active \in [Kinds -> BOOLEAN]
    /\ taken \in [Keys -> Int]
    /\ owed \in [Kinds -> [Keys -> Int]]
    /\ touched \in SUBSET Keys /\ fresh \in SUBSET touched

\* Is the head of the group between complete's unlock and its answer?
Released == IF phase = "answer" THEN 1 ELSE 0

\* The load that admission counts is the calls in the line, none lost and none
\* counted twice across pop, group fallback and answers, and it stays within
\* MaxOperations and MaxBytes (admitPrepared, complete).
LoadAccounted ==
    /\ operations = Len(queue) + Len(group) - Released
    /\ operations <= MaxOperations
    /\ bytes <= MaxBytes

\* A call that was told "ok" was committed exactly once, one that was told
\* anything else left nothing behind - whatever the group its transaction
\* was first tried in (writeChunkGroup's fallback).
ToldWhatHappened ==
    \A c \in Callers :
        /\ outcome[c] = "ok" => commits[c] = 1
        /\ outcome[c] \in {"err"} \union Refusals => commits[c] = 0

\* Only chunk appends share a transaction and at most MaxBatch of them.
GroupsAreChunks ==
    /\ Len(group) <= MaxBatch
    /\ Len(group) > 1 => \A i \in 1..Len(group) : chunk[group[i]]

\* Every hit that was taken over is in its kind's batch until it is written
\* or counted as dropped: none disappears with the reset after a write
\* (coalesce*, runBestEffort and the active flag between them).
HitsConserved ==
    \A kind \in Kinds :
        /\ owed[kind] = pending[kind]
        /\ active[kind] => taken = pending[kind]

\* When the worker has stopped nothing is left: no call without an answer and
\* no best-effort hit (close drains both, and nothing enters afterwards).
DrainedWhenStopped ==
    phase = "stopped" =>
        /\ closed
        /\ queue = <<>> /\ group = <<>>
        /\ \A kind \in Kinds : ~Waiting(kind)

\* The writer implements the line of calls of CommitQueue, in which the calls
\* before the worker are the oldest.
Line == INSTANCE CommitQueue WITH line <- group \o queue

\* Safety and liveness of that line: answers in order of admission, each
\* after the call's own transaction was decided, and every admitted call is
\* answered, also one admitted just before close.
LineSpec == Line!Spec

\* close returns: the worker drains what is left and stops, and no wakeup of
\* ready.Wait is lost.
CloseReturns == closed ~> phase = "stopped"

=============================================================================
