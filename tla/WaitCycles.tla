----------------------------- MODULE WaitCycles -----------------------------
(***************************************************************************)
(* The register of mutual waits of one room and the notices the room gets  *)
(* about them (src/internal/store/coordwait.go).  Questions, approvals and *)
(* blockers are waits; the register is compared with the mutual waits when *)
(* such a message is sent and when an entry is closed, in the same         *)
(* transaction, and at no other time.                                      *)
(***************************************************************************)
EXTENDS MutualWaits, Integers, Sequences

CONSTANTS
    Messages,   \* bound: (sender, client id) pairs of waiting messages
    NoAgent,
    Movers,     \* bound: members that may leave and come back
    Lifetimes,  \* how long a message can be valid; past MaxTime: no expiry
    Failing,    \* whether the bookkeeping may fail
    Interval,   \* waitNoteInterval
    MaxTime     \* bound: instants

ASSUME WaitAssumption ==
    /\ NoAgent \notin Agents
    /\ Movers \subseteq Agents
    /\ Lifetimes \subseteq Nat
    /\ Failing \in BOOLEAN
    /\ Interval \in Nat
    /\ MaxTime \in Nat

VARIABLES
    now,
    joined,     \* active members of the room
    author,     \* the sender of a message, NoAgent before it is sent
    open,       \* coord_attention: the open entries
    reg         \* coord_wait_cycles, see TypeOK

vars == <<now, joined, author, open, reg>>

Sets == SUBSET Agents

Entries == [msg : Messages, from : Agents, to : Agents, until : Nat]

\* The rows that are not dissolved, those of them whose notice is held back,
\* their formed_at, when each set was told (notified_at of all its rows,
\* dissolved or not), and, as history, when the register was last compared.
Registers == [active : SUBSET Sets, held : SUBSET Sets, formed : [Sets -> Nat],
              told : [Sets -> Seq(Nat)], compared : Nat]

TypeOK ==
    /\ now \in Nat
    /\ joined \subseteq Agents
    /\ author \in [Messages -> Agents \union {NoAgent}]
    /\ open \subseteq Entries
    /\ reg \in Registers

Init ==
    /\ now = 0
    /\ joined = Agents
    /\ author = [m \in Messages |-> NoAgent]
    /\ open = {}
    /\ reg = [active |-> {}, held |-> {}, formed |-> [S \in Sets |-> 0],
              told |-> [S \in Sets |-> <<>>], compared |-> 0]

-----------------------------------------------------------------------------

Expired(entry, t) == entry.until < t

\* roomWaitCycles, loadWaitRows and edge: the waits of members that have not
\* expired; who has left waits on nobody, but may still be waited on.
Edges == {<<e.from, e.to>> :
            e \in {x \in open : x.from \in joined /\ x.from # x.to /\ ~Expired(x, now)}}

\* Mutants: only rows that stand count; any notice in the room counts.
LimitedWhileActive(r, S, t) ==
    S \in r.active /\ \E i \in 1..Len(r.told[S]) : r.told[S][i] > t - Interval

LimitedInRoom(r, S, t) ==
    \E R \in Sets : \E i \in 1..Len(r.told[R]) : r.told[R][i] > t - Interval

\* The set was told less than Interval ago.
Limited(r, S, t) == \E i \in 1..Len(r.told[S]) : r.told[S][i] > t - Interval

\* Told rows that have all members of S: S is what is left of them.
Covers(r, S) == {R \in r.active \ r.held : S \subseteq R}

\* Sets that should get a notice: it was held back, or they are new.
Due(r, cycles) ==
    (cycles \intersect r.held) \union {S \in cycles \ r.active : Covers(r, S) = {}}

\* Mutant: a notice that was held back stays held back.
TellsNew(r, due, t) == {S \in due \ r.held : ~Limited(r, S, t)}

\* The notices that are sent; those of the other sets are held back.
Tells(r, due, t) == {S \in due : ~Limited(r, S, t)}

\* Mutant: a set that is left of a told one counts as formed just now.
FormedNow(r, S, t) == IF S \in r.active THEN r.formed[S] ELSE t

\* A set that is left of a told one inherits the time it formed at.
FormedAt(r, S, t) ==
    IF S \in r.active THEN r.formed[S]
    ELSE IF Covers(r, S) = {} THEN t
    ELSE r.formed[CHOOSE R \in Covers(r, S) : TRUE]

\* The rows that stand afterwards: all others are dissolved.
Standing(r, cycles) == cycles

\* reconcileWaitCyclesTx
Reconciled(r, cycles, t) ==
    LET due   == Due(r, cycles)
        tells == Tells(r, due, t)
    IN  [active |-> Standing(r, cycles),
         held   |-> due \ tells,
         formed |-> [S \in Sets |-> IF S \in Standing(r, cycles) THEN FormedAt(r, S, t) ELSE 0],
         told   |-> [S \in Sets |-> IF S \in tells THEN Append(r.told[S], t) ELSE r.told[S]],
         compared |-> t]

\* reconcileWaitCyclesSafeTx: a failure is rolled back to the savepoint and
\* the caller goes on.  If the rollback fails, the whole call is undone.
Reconciles(r, E, t) ==
    {Reconciled(r, cycles, t) : cycles \in {Groups(E)}} \union (IF Failing THEN {r} ELSE {})

-----------------------------------------------------------------------------

\* appendCoordMessageTx: an entry for each recipient.
Opened(m, a, to, life) == {[msg |-> m, from |-> a, to |-> b, until |-> now + life] : b \in to}

\* Mutant: the register is compared only when the message is there.
SendComparedOnce(m, a, to, life) ==
    /\ a \in joined
    /\ author[m] = NoAgent
    /\ author' = [author EXCEPT ![m] = a]
    /\ open' = open \union Opened(m, a, to, life)
    /\ UNCHANGED <<now, joined>>
    /\ reg' \in Reconciles(reg, Edges', now)

\* CoordAccess.Send of a question, an approval or a blocker: the register is
\* compared before and after the message is there, in the same second.
Send(m, a, to, life) ==
    /\ a \in joined
    /\ author[m] = NoAgent
    /\ author' = [author EXCEPT ![m] = a]
    /\ open' = open \union Opened(m, a, to, life)
    /\ UNCHANGED <<now, joined>>
    /\ \E before \in Reconciles(reg, Edges, now) : reg' \in Reconciles(before, Edges', now)

\* A repeated client id: appendCoordMessageTx adds nothing, the register is
\* compared all the same.
SendAgain(m) ==
    /\ author[m] \in joined
    /\ UNCHANGED <<now, joined, author, open>>
    /\ \E before \in Reconciles(reg, Edges, now) : reg' \in Reconciles(before, Edges, now)

\* ResolveAttention: answered by the recipient, or withdrawn from the author's
\* account, which may act through another of its agents after this one left.
Resolve(e) ==
    /\ e \in open /\ ~Expired(e, now)
    /\ open' = open \ {e}
    /\ UNCHANGED <<now, joined, author>>
    /\ reg' \in Reconciles(reg, Edges', now)

\* ResolveAttention and Attention on an entry that has expired: it is only
\* marked, the register is not compared.
MarkExpired(e) ==
    /\ e \in open /\ Expired(e, now)
    /\ open' = open \ {e}
    /\ UNCHANGED <<now, joined, author, reg>>

\* LeaveCoordRoom, JoinCoordRoom: neither looks at the register.
Leave(a) ==
    /\ a \in joined
    /\ joined' = joined \ {a}
    /\ UNCHANGED <<now, author, open, reg>>

Join(a) ==
    /\ a \notin joined
    /\ joined' = joined \union {a}
    /\ UNCHANGED <<now, author, open, reg>>

Tick ==
    /\ now < MaxTime
    /\ now' = now + 1
    /\ UNCHANGED <<joined, author, open, reg>>

Next ==
    \/ \E m \in Messages, a \in Agents, life \in Lifetimes :
            \E to \in SUBSET joined \ {{}} : Send(m, a, to, life)
    \/ \E m \in Messages : SendAgain(m)
    \/ \E e \in open : Resolve(e) \/ MarkExpired(e)
    \/ \E a \in Movers : Leave(a) \/ Join(a)
    \/ Tick

Spec == Init /\ [][Next]_vars

-----------------------------------------------------------------------------

\* reconcileWaitCyclesTx promises at most one notice per set of agents and
\* waitNoteInterval, through dissolving, forming again, shrinking and growing.
NotesSpaced ==
    \A S \in Sets : \A i, j \in 1..Len(reg.told[S]) :
        i < j => reg.told[S][j] - reg.told[S][i] >= Interval

\* A mutual wait the register counts as told was told: all its members were
\* mentioned together in a notice sent no earlier than it formed.  This is
\* what lets a set that is left of another one pass in silence.
ToldSinceFormed ==
    \A S \in reg.active \ reg.held :
        \E R \in Sets :
            /\ S \subseteq R
            /\ \E i \in 1..Len(reg.told[R]) : reg.told[R][i] >= reg.formed[S]

\* A notice is held back only because the same set was told less than
\* waitNoteInterval before it formed again, and never on account of others.
HeldForItsOwnNotice ==
    \A S \in reg.held :
        /\ S \in reg.active
        /\ \E i \in 1..Len(reg.told[S]) : reg.told[S][i] > reg.formed[S] - Interval

\* A notice that is held back goes out the first time the register is
\* compared after the interval, if the agents still wait on each other.
HeldNoLongerThanLimited ==
    \A S \in reg.held :
        \E i \in 1..Len(reg.told[S]) : reg.told[S][i] > reg.compared - Interval

\* The rows that stand have no agent in common: what dissolved, shrank or was
\* taken over is gone from the register, so there is one row to take over from.
RowsApart == \A R, S \in reg.active : R = S \/ R \intersect S = {}

\* A message that closes a circle of waits has its agents told, or their notice
\* held back, also when the same circle had lapsed and nobody had noticed:
\* CoordAccess.Send compares twice so that it does not pass for the old one.
ClosedCircleNoticed ==
    [][author' # author /\ ~Failing =>
        \A S \in Groups(Edges') \ Groups(Edges) :
            S \in reg'.held \/ Len(reg'.told[S]) > Len(reg.told[S])]_vars

=============================================================================
