--------------------------- MODULE ExplainBatches ---------------------------
(***************************************************************************)
(* Explanations written through the provider's batch endpoint              *)
(* (src/internal/explain/batch.go, src/internal/store/explain_batch.go):   *)
(* runs of "ctx explain backfill --batch" collect the finished batches and *)
(* submit what is missing, several of them at a time, each able to stop at *)
(* any call.  Meanwhile objects are edited, agents explain their own, and  *)
(* the server explains new ones when a page is opened (service.go).  Every *)
(* call of the store is a transaction and an action of its own.            *)
(***************************************************************************)
EXTENDS Integers, FiniteSets, FiniteSetsExt

CONSTANTS
    Runs,        \* processes of the command
    Hourly,      \* those that are started again and again; the others run once
    Objects,
    Authored,    \* bound: objects that an agent explains itself
    Viewed,      \* bound: new objects whose page is opened
    MaxEdits,    \* bound: edits of one object
    Cap,         \* Limits.Month.Calls
    GroupSize,   \* BatchMaxRequests
    MaxBatches,  \* bound: rows of explain_batches
    MaxEvents    \* bound: crashes, failed calls, retries of failed entries, edits, other explanations

ASSUME ExplainAssumption ==
    /\ Hourly \subseteq Runs /\ Authored \subseteq Objects /\ Viewed \subseteq Objects
    /\ IsFiniteSet(Objects) /\ IsFiniteSet(Runs)
    /\ MaxEdits \in Nat /\ Cap \in Nat \ {0} /\ GroupSize \in Nat \ {0}
    /\ MaxBatches \in Nat /\ MaxEvents \in Nat

VARIABLES
    text,     \* the content hash of each object
    expl,     \* explanations: source, the hash it is stored with, the text it describes
    batch,    \* explain_batches with their items, see Rows
    remote,   \* each batch at the provider
    good,     \* the entries of a batch that got a usable answer
    calls,    \* llm_usage of the job: calls in batches and one by one
    run,      \* local state of the runs, see RunStates
    gen,      \* the object the server is explaining one by one
    agent,    \* objects whose agent has explained them
    events

vars == <<text, expl, batch, remote, good, calls, run, gen, agent, events>>

Hashes == 0..MaxEdits
Items == Objects \X Hashes
Ids == 1..MaxBatches

NoExplanation == [by |-> "nobody", hash |-> 0, about |-> 0]
Explanations == [by : {"nobody", "agent", "generated"}, hash : Hashes, about : Hashes]

\* An item is done when it was saved, stale or superseded, or when it failed
\* longer than retryFailedAfter ago; failed when it failed since, with an answer
\* from the provider, and lost when without one.  age counts while a batch is
\* live: 1 past maxSubmitAge, 2 past maxBatchAge.  harmed is history: the batch's own run failed it or took two hours, or a
\* collecting run did that had listed it as a reservation.
Rows == [state : {"free", "submitting", "open", "collected", "failed"},
         item : [Items -> {"none", "pending", "done", "failed", "lost"}],
         age : 0..2, harmed : BOOLEAN]

FreeRow == [state |-> "free", item |-> [i \in Items |-> "none"], age |-> 0, harmed |-> FALSE]

NoItem == <<>>

\* todo: batches listed and not looked at yet, with the state they were listed
\* in.  cur: the batch in work.  left: its items to finish, or the items to
\* send.  item, src: the entry to store and the hash its object had.  alone is history: nobody else reserved a call since the
\* caps were read.
RunStates == [pc : {"idle", "ended", "collect", "finish", "save", "book", "giveup", "usage",
                    "scan", "reserve", "send", "refused", "record"},
              todo : SUBSET (Ids \X {"submitting", "open"}), cur : 0..MaxBatches,
              left : SUBSET Items, item : Items \union {NoItem},
              src : Hashes, room : Int, alone : BOOLEAN]

IdleRun == [pc |-> "idle", todo |-> {}, cur |-> 0, left |-> {}, item |-> NoItem,
            src |-> 0, room |-> 0, alone |-> FALSE]

TypeOK ==
    /\ text \in [Objects -> Hashes]
    /\ expl \in [Objects -> Explanations]
    /\ batch \in [Ids -> Rows]
    /\ remote \in [Ids -> {"none", "accepted", "ended", "cancelled"}]
    /\ good \in [Ids -> SUBSET Items]
    /\ calls \in [batched : Nat, single : Nat]
    /\ run \in [Runs -> RunStates]
    /\ \A r \in Runs : run[r].pc = "scan" => run[r].room \in 1..Cap
    /\ gen \in Items \union {NoItem}
    /\ agent \subseteq Objects
    /\ events \in 0..MaxEvents

Init ==
    /\ text = [o \in Objects |-> 0]
    /\ expl = [o \in Objects |-> NoExplanation]
    /\ batch = [b \in Ids |-> FreeRow]
    /\ remote = [b \in Ids |-> "none"]
    /\ good = [b \in Ids |-> {}]
    /\ calls = [batched |-> 0, single |-> 0]
    /\ run = [r \in Runs |-> IdleRun]
    /\ gen = NoItem
    /\ agent = {}
    /\ events = 0

-----------------------------------------------------------------------------

Live(b) == batch[b].state \in {"submitting", "open"}

PendingIn(b) == {i \in Items : batch[b].item[i] = "pending"}

\* Today, Month
Used == calls.batched + calls.single

\* Mutant: a reservation does not count as waiting.
WaitingAtProvider == Cardinality({w \in Ids \X Items : batch[w[1]].state = "open" /\ w[2] \in PendingIn(w[1])})

\* OpenExplainBatches, summed up: the calls that wait for a result.
Waiting == Cardinality({w \in Ids \X Items : Live(w[1]) /\ w[2] \in PendingIn(w[1])})

\* ExplainBatchBlocked, ExplainBatched
Blocked == {i \in Items : \E b \in Ids :
                \/ Live(b) /\ batch[b].item[i] = "pending"
                \/ batch[b].item[i] \in {"failed", "lost"}}

\* A current explanation; there is one language.
Fresh(i) == expl[i[1]].by # "nobody" /\ expl[i[1]].hash = i[2]

Current(o) == <<o, text[o]>>

\* One of the events that are bounded.
Happens == events < MaxEvents /\ events' = events + 1

\* A run that is over.
Over(r) == [IdleRun EXCEPT !.pc = IF r \in Hourly THEN "idle" ELSE "ended"]

-----------------------------------------------------------------------------
(* CollectBatches *)

\* OpenExplainBatches
List(r) ==
    /\ run[r].pc = "idle"
    /\ run' = [run EXCEPT ![r].pc = "collect", ![r].todo = {<<b, batch[b].state>> : b \in {x \in Ids : Live(x)}}]
    /\ UNCHANGED <<text, expl, batch, remote, good, calls, gen, agent, events>>

\* The oldest batch that was listed and not looked at yet.
Next1(r) == CHOOSE t \in run[r].todo : \A u \in run[r].todo : t[1] <= u[1]

Looking(r) == run[r].pc = "collect" /\ run[r].todo # {}

\* Mutant: a reservation is released whatever its age.
ReleasableAtOnce(b) == TRUE

\* maxSubmitAge
Releasable(b) == batch[b].age >= 1

\* Mutant: no batch is ever too old.
NeverTooOld(b) == FALSE

\* maxBatchAge
TooOld(b) == batch[b].age >= 2

\* A reservation older than maxSubmitAge is released, whatever became of it
\* since it was listed.
Release(r) ==
    /\ Looking(r)
    /\ Next1(r)[2] = "submitting" /\ Releasable(Next1(r)[1])
    /\ batch' = [batch EXCEPT ![Next1(r)[1]].state = "failed", ![Next1(r)[1]].age = 0]
    /\ run' = [run EXCEPT ![r].todo = @ \ {Next1(r)}]
    /\ UNCHANGED <<text, expl, remote, good, calls, gen, agent, events>>

\* Too young to be released, still in work at the provider, or unreadable.
LeaveOpen(r) ==
    /\ Looking(r)
    /\ IF Next1(r)[2] = "submitting" THEN ~Releasable(Next1(r)[1]) ELSE ~TooOld(Next1(r)[1])
    /\ run' = [run EXCEPT ![r].todo = @ \ {Next1(r)}]
    /\ UNCHANGED <<text, expl, batch, remote, good, calls, gen, agent, events>>

\* CollectBatch answers; PendingExplainBatchItems.  Which entries have a usable
\* answer shows when a batch that has ended is read first.
Fetch(r) ==
    /\ Looking(r)
    /\ LET b == Next1(r)[1] IN
       /\ Next1(r)[2] = "open"
       /\ \/ /\ remote[b] = "accepted"
             /\ remote' = [remote EXCEPT ![b] = "ended"]
             /\ \E answered \in SUBSET {i \in Items : batch[b].item[i] # "none"} :
                    good' = [good EXCEPT ![b] = answered]
          \/ /\ remote[b] = "ended"
             /\ UNCHANGED <<remote, good>>
       /\ run' = [run EXCEPT ![r].pc = "finish", ![r].todo = @ \ {Next1(r)}, ![r].cur = b, ![r].left = PendingIn(b)]
    /\ UNCHANGED <<text, expl, batch, calls, gen, agent, events>>

\* failBatch, abandon: over as a whole, without results, or too old and still
\* in work or not readable now.
GiveUp(r) ==
    /\ Looking(r)
    /\ LET b == Next1(r)[1] IN
       /\ Next1(r)[2] = "open"
       /\ \/ /\ remote[b] \in {"accepted", "cancelled"}
             /\ remote' = [remote EXCEPT ![b] = "cancelled"]
          \/ TooOld(b) /\ UNCHANGED remote
       /\ run' = [run EXCEPT ![r].pc = "giveup", ![r].todo = @ \ {Next1(r)}, ![r].cur = b, ![r].left = PendingIn(b)]
    /\ UNCHANGED <<text, expl, batch, good, calls, gen, agent, events>>

\* Mutant: an entry is judged without comparing the hash.
JudgedBlind(b, i) ==
    IF i \notin good[b] THEN "failed" ELSE IF Fresh(Current(i[1])) THEN "superseded" ELSE "saved"

\* finishItem: what becomes of an entry, from the object as it is now.
Judged(b, i) ==
    IF i \notin good[b] THEN "failed"
    ELSE IF Current(i[1]) # i THEN "stale"
    ELSE IF Fresh(i) THEN "superseded"
    ELSE "saved"

\* Mutant: the usage is counted whether or not the entry was still pending.
FinishedAnyhow(b, i, state, usage) ==
    /\ batch' = [batch EXCEPT ![b].item[i] = state]
    /\ calls' = [calls EXCEPT !.batched = @ + usage]

\* FinishExplainBatchItem: outcome and usage together, once per entry.
Finished(b, i, state, usage) ==
    IF batch[b].item[i] = "pending"
    THEN batch' = [batch EXCEPT ![b].item[i] = state] /\ calls' = [calls EXCEPT !.batched = @ + usage]
    ELSE UNCHANGED <<batch, calls>>

\* finishItem of an entry that is not stored.
Discard(r) ==
    /\ run[r].pc = "finish"
    /\ \E i \in run[r].left :
          /\ Judged(run[r].cur, i) # "saved"
          /\ Finished(run[r].cur, i, IF Judged(run[r].cur, i) = "failed" THEN "failed" ELSE "done", 1)
          /\ run' = [run EXCEPT ![r].left = @ \ {i}]
    /\ UNCHANGED <<text, expl, remote, good, gen, agent, events>>

\* finishItem of an entry that is stored: the object is read ...
Judge(r) ==
    /\ run[r].pc = "finish"
    /\ \E i \in run[r].left :
          /\ Judged(run[r].cur, i) = "saved"
          /\ run' = [run EXCEPT ![r].pc = "save", ![r].item = i, ![r].src = text[i[1]]]
    /\ UNCHANGED <<text, expl, batch, remote, good, calls, gen, agent, events>>

\* ... SaveExplanation replaces what is there, whoever wrote it since ...
Save(r) ==
    /\ run[r].pc = "save"
    /\ expl' = [expl EXCEPT ![run[r].item[1]] =
                    [by |-> "generated", hash |-> run[r].src, about |-> run[r].item[2]]]
    /\ run' = [run EXCEPT ![r].pc = "book"]
    /\ UNCHANGED <<text, batch, remote, good, calls, gen, agent, events>>

\* ... and the outcome is recorded.
Book(r) ==
    /\ run[r].pc = "book"
    /\ Finished(run[r].cur, run[r].item, "done", 1)
    /\ run' = [run EXCEPT ![r].pc = "finish", ![r].left = @ \ {run[r].item}, ![r].item = NoItem, ![r].src = 0]
    /\ UNCHANGED <<text, expl, remote, good, gen, agent, events>>

\* failBatch: the entry is lost; a usage without calls is not counted.
LoseItem(r) ==
    /\ run[r].pc = "giveup"
    /\ \E i \in run[r].left :
          /\ Finished(run[r].cur, i, "lost", 0)
          /\ run' = [run EXCEPT ![r].left = @ \ {i}]
    /\ UNCHANGED <<text, expl, remote, good, gen, agent, events>>

\* CloseExplainBatch, whatever state the batch is in.
CloseBatch(r) ==
    /\ run[r].pc \in {"finish", "giveup"} /\ run[r].left = {}
    /\ batch' = [batch EXCEPT ![run[r].cur].state = IF run[r].pc = "finish" THEN "collected" ELSE "failed",
                              ![run[r].cur].age = 0]
    /\ run' = [run EXCEPT ![r].pc = "collect", ![r].cur = 0]
    /\ UNCHANGED <<text, expl, remote, good, calls, gen, agent, events>>

-----------------------------------------------------------------------------
(* SubmitBatches *)

\* The waiting calls are read first and the counted ones afterwards, so that a
\* call counted in between is seen twice and never not at all.
ReadWaiting(r) ==
    /\ run[r].pc = "collect" /\ run[r].todo = {}
    /\ run' = [run EXCEPT ![r].pc = "usage", ![r].room = Cap - Waiting, ![r].alone = gen = NoItem]
    /\ UNCHANGED <<text, expl, batch, remote, good, calls, gen, agent, events>>

\* Today, Month, Limits.Check and ExplainBatchBlocked.
ReadUsage(r) ==
    /\ run[r].pc = "usage"
    /\ run' = [run EXCEPT ![r] = IF run[r].room - Used <= 0 THEN Over(r)
                                 ELSE [run[r] EXCEPT !.pc = "scan", !.room = run[r].room - Used,
                                                    !.left = Blocked]]
    /\ UNCHANGED <<text, expl, batch, remote, good, calls, gen, agent, events>>

\* Objects that lack a current explanation, as many as there is room for.
Scan(r) ==
    /\ run[r].pc = "scan"
    /\ LET lacking == {i \in {Current(o) : o \in Objects} : ~Fresh(i)} \ run[r].left
           n == Min({Cardinality(lacking), run[r].room})
       IN  IF n = 0
           THEN run' = [run EXCEPT ![r] = Over(r)]
           ELSE \E plan \in kSubset(n, lacking) :
                    run' = [run EXCEPT ![r].pc = "reserve", ![r].left = plan, ![r].room = 0]
    /\ UNCHANGED <<text, expl, batch, remote, good, calls, gen, agent, events>>

\* The run goes on with these objects, or is done.
Further(r, rest) ==
    IF rest = {} THEN Over(r) ELSE [run[r] EXCEPT !.pc = "reserve", !.cur = 0, !.left = rest]

\* The object, at that text, waits in another batch.
Taken(i) == \E b \in Ids : Live(b) /\ batch[b].item[i] = "pending"

\* ReserveExplainBatch for the next group of llm.SplitBatch; a group with an
\* object that is taken is skipped as a whole.
Reserve(r) ==
    /\ run[r].pc = "reserve"
    /\ \E group \in kSubset(Min({GroupSize, Cardinality(run[r].left)}), run[r].left) :
          IF \E i \in group : Taken(i)
          THEN /\ run' = [run EXCEPT ![r] = Further(r, @.left \ group)]
               /\ UNCHANGED batch
          ELSE \E b \in Ids :
               /\ batch[b].state = "free" /\ \A c \in 1..(b - 1) : batch[c].state # "free"
               /\ batch' = [batch EXCEPT ![b].state = "submitting",
                                         ![b].item = [i \in Items |-> IF i \in group THEN "pending" ELSE "none"]]
               /\ run' = [q \in Runs |->
                            IF q = r THEN [run[q] EXCEPT !.pc = "send", !.cur = b, !.left = @ \ group,
                                                             !.alone = @ /\ run[q].left # group]
                            ELSE [run[q] EXCEPT !.alone = FALSE]]
    /\ UNCHANGED <<text, expl, remote, good, calls, gen, agent, events>>

\* Bound: a run that finds no row left ends.
NoRowLeft(r) ==
    /\ run[r].pc = "reserve" /\ \A b \in Ids : batch[b].state # "free"
    /\ run' = [run EXCEPT ![r] = Over(r)]
    /\ UNCHANGED <<text, expl, batch, remote, good, calls, gen, agent, events>>

\* SubmitBatch is accepted; the reply may be lost, and then counts as an error.
Send(r) ==
    /\ run[r].pc = "send"
    /\ remote' = [remote EXCEPT ![run[r].cur] = "accepted"]
    /\ \/ /\ run' = [run EXCEPT ![r].pc = "record"]
          /\ UNCHANGED <<batch, events>>
       \/ /\ Happens
          /\ batch' = [batch EXCEPT ![run[r].cur].harmed = TRUE]
          /\ run' = [run EXCEPT ![r].pc = "refused"]
    /\ UNCHANGED <<text, expl, good, calls, gen, agent>>

\* SubmitBatch is refused.
Refuse(r) ==
    /\ run[r].pc = "send"
    /\ Happens
    /\ run' = [run EXCEPT ![r].pc = "refused"]
    /\ UNCHANGED <<text, expl, batch, remote, good, calls, gen, agent>>

\* CloseExplainBatch(rid, "failed"): the objects are released.
DropReservation(r) ==
    /\ run[r].pc = "refused"
    /\ batch' = [batch EXCEPT ![run[r].cur].state = "failed", ![run[r].cur].age = 0]
    /\ run' = [run EXCEPT ![r] = Over(r)]
    /\ UNCHANGED <<text, expl, remote, good, calls, gen, agent, events>>

\* Mutant: a reservation that was released is opened again.
ActivatedAgain(b) == batch[b].state # "free"

\* ActivateExplainBatch changes a row that is still being submitted.
Activated(b) == batch[b].state = "submitting"

\* The next group, or an error that ends the run with the batch not on record.
Activate(r) ==
    /\ run[r].pc = "record"
    /\ IF Activated(run[r].cur)
       THEN /\ batch' = [batch EXCEPT ![run[r].cur].state = "open"]
            /\ run' = [run EXCEPT ![r] = Further(r, @.left)]
       ELSE /\ run' = [run EXCEPT ![r] = Over(r)]
            /\ UNCHANGED batch
    /\ UNCHANGED <<text, expl, remote, good, calls, gen, agent, events>>

\* The process dies, or one of its writes fails: every error of the store ends
\* the command, and so does Activate when it fails three times.
Crash(r) ==
    /\ run[r].pc \notin {"idle", "ended"}
    /\ Happens
    /\ batch' = IF run[r].pc \in {"send", "refused", "record"}
                THEN [batch EXCEPT ![run[r].cur].harmed = TRUE] ELSE batch
    /\ run' = [run EXCEPT ![r] = Over(r)]
    /\ UNCHANGED <<text, expl, remote, good, calls, gen, agent>>

-----------------------------------------------------------------------------
(* Time *)

\* Two hours and two days after it was reserved, older batches first.
Age(b) ==
    /\ Live(b) /\ batch[b].age < 2
    /\ \A c \in 1..(b - 1) : Live(c) => batch[c].age > batch[b].age
    /\ batch' = [batch EXCEPT ![b].age = @ + 1,
                              ![b].harmed = @ \/ \E r \in Runs :
                                    \/ run[r].pc \in {"send", "record"} /\ run[r].cur = b
                                    \/ <<b, "submitting">> \in run[r].todo]
    /\ UNCHANGED <<text, expl, remote, good, calls, run, gen, agent, events>>

\* retryFailedAfter has passed since an entry failed.
Cool(b, i) ==
    /\ batch[b].item[i] \in {"failed", "lost"}
    /\ Happens
    /\ batch' = [batch EXCEPT ![b].item[i] = IF @ = "failed" THEN "done" ELSE "none"]
    /\ UNCHANGED <<text, expl, remote, good, calls, run, gen, agent>>

-----------------------------------------------------------------------------
(* Who else explains or changes an object *)

Edit(o) ==
    /\ Happens
    /\ text[o] < MaxEdits
    /\ text' = [text EXCEPT ![o] = @ + 1]
    /\ UNCHANGED <<expl, batch, remote, good, calls, run, gen, agent>>

\* SaveAgentExplanation, once per object.  It looks for an explanation first,
\* but one that is saved before its own is replaced all the same.
AgentExplains(o) ==
    /\ Happens
    /\ o \notin agent
    /\ agent' = agent \union {o}
    /\ expl' = [expl EXCEPT ![o] = [by |-> "agent", hash |-> text[o], about |-> text[o]]]
    /\ UNCHANGED <<text, batch, remote, good, calls, run, gen>>

\* View, start, Generate up to the call: a new object nobody explained and no
\* batch has.  The caps are those of the counted calls.
Open1(o) ==
    /\ Happens
    /\ gen = NoItem /\ expl[o].by = "nobody"
    /\ Current(o) \notin Blocked
    /\ Used < Cap
    /\ gen' = Current(o)
    /\ run' = [q \in Runs |-> [run[q] EXCEPT !.alone = FALSE]]
    /\ UNCHANGED <<text, expl, batch, remote, good, calls, agent>>

\* The call is counted, answered or not (reserve holds its place until here).
\* The answer is stored if the object still has the text, whoever explained it
\* since: what happens between counting, reading and saving could as well
\* happen before or after.
Answer(usable) ==
    /\ gen # NoItem
    /\ calls' = [calls EXCEPT !.single = @ + 1]
    /\ expl' = IF usable /\ Current(gen[1]) = gen
               THEN [expl EXCEPT ![gen[1]] = [by |-> "generated", hash |-> gen[2], about |-> gen[2]]]
               ELSE expl
    /\ gen' = NoItem
    /\ UNCHANGED <<text, batch, remote, good, run, agent, events>>

-----------------------------------------------------------------------------

Step(r) ==
    \/ List(r) \/ Release(r) \/ LeaveOpen(r) \/ Fetch(r) \/ GiveUp(r)
    \/ Discard(r) \/ Judge(r) \/ Save(r) \/ Book(r) \/ LoseItem(r) \/ CloseBatch(r)
    \/ ReadWaiting(r) \/ ReadUsage(r) \/ Scan(r) \/ Reserve(r) \/ NoRowLeft(r)
    \/ Send(r) \/ Refuse(r) \/ DropReservation(r) \/ Activate(r)

Next ==
    \/ \E r \in Runs : Step(r) \/ Crash(r)
    \/ \E b \in Ids : Age(b) \/ \E i \in Items : Cool(b, i)
    \/ \E o \in Objects : Edit(o)
    \/ \E o \in Authored : AgentExplains(o)
    \/ \E o \in Viewed : Open1(o)
    \/ \E usable \in BOOLEAN : Answer(usable)

\* The command is started every hour and time passes.
Fairness ==
    /\ \A r \in Hourly : WF_vars(Step(r))
    /\ \A b \in Ids : WF_vars(Age(b))

Spec == Init /\ [][Next]_vars /\ Fairness

-----------------------------------------------------------------------------

\* The records keep two runs from sending the same text: an object at one text
\* waits in one batch at most, also when a reservation was released under a
\* run that is still uploading (batch.go, the head of the bulk path).
OneLiveBatch ==
    \A b, c \in Ids : Live(b) /\ Live(c) /\ b # c => PendingIn(b) \intersect PendingIn(c) = {}

\* FinishExplainBatchItem neither loses the usage of an entry nor counts it
\* twice, however many runs collect the same batch and whenever one dies.
CountedOnce ==
    calls.batched = Cardinality({w \in Ids \X Items : batch[w[1]].item[w[2]] \in {"done", "failed"}})

\* A generated text is stored for the text of the object it was made from.
AboutItsText == \A o \in Objects : expl[o].by # "nobody" => expl[o].about = expl[o].hash

\* What the provider accepted is on record, or its run still has it in hand:
\* no batch is paid for and never read unless its own run failed it or took
\* longer than maxSubmitAge.
PaidIsOnRecord ==
    \A b \in Ids : remote[b] # "none" /\ PendingIn(b) # {} /\ ~batch[b].harmed =>
        \/ batch[b].state = "open"
        \/ batch[b].state = "submitting" /\ \E r \in Runs : run[r].pc = "record" /\ run[r].cur = b

\* Calls that wait count against the cap: a run during which nobody else
\* reserves a call does not exceed it, while no batch has come off the record.
CapKept ==
    [][\A r \in Runs :
        Reserve(r) /\ batch' # batch /\ run[r].alone /\ (\A b \in Ids : ~batch[b].harmed)
            => Used + Cardinality({w \in Ids \X Items :
                    /\ batch'[w[1]].state \in {"submitting", "open"}
                    /\ batch'[w[1]].item[w[2]] = "pending"}) <= Cap]_vars

\* No batch stays open: read, given up or released, it frees its objects.
BatchesEnd == \A b \in Ids : []<>~Live(b)

=============================================================================
