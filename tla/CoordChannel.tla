---------------------------- MODULE CoordChannel ----------------------------
(***************************************************************************)
(* How one coordination room reaches one agent.  src/internal/             *)
(* claudechannel/poller.go pushes the messages that wake the agent into    *)
(* its session: as the channel process of the session, or for the length   *)
(* of one hook call (src/cmd/ctx/hook_coord.go).  coord_inbox (src/        *)
(* internal/mcpserver/coord.go) shows the rest on demand.  They share the  *)
(* agent's cursor and the claims of the store (coorddelivery.go) and, on   *)
(* disk, the delivery budget of hookbudget and the positions of the hooks. *)
(***************************************************************************)
EXTENDS Integers, FiniteSets

CONSTANTS
    Channels,       \* channel processes of the agent's session
    Hooks,          \* hook calls that can be running at the same time
    NoOne,          \* nobody holds the lock of the budget file
    MaxMessages,    \* bound: messages posted to the room
    InboxLimit,     \* inboxLimit and the page size of coord_inbox
    MaxCollected,   \* coordHookMaxMessages
    BudgetLimit,    \* messages that fit into hookbudget.CoordLimit
    Pulls,          \* whether the agent calls coord_inbox
    MaxFaults       \* bound: crashes, lost replies and failed calls

Pollers == Channels \union Hooks

ASSUME ChannelAssumption ==
    /\ NoOne \notin Pollers
    /\ Channels \intersect Hooks = {}
    /\ IsFiniteSet(Pollers)
    /\ MaxMessages \in Nat
    /\ InboxLimit \in Nat \ {0}
    /\ MaxCollected \in Nat \ {0}
    /\ BudgetLimit \in Nat
    /\ Pulls \in BOOLEAN
    /\ MaxFaults \in Nat

VARIABLES
    log,        \* the room: what each message is to the agent
    top,        \* the highest message id
    injected,   \* messages whose delivery has rank injected or higher
    cursor,     \* coord_cursors: the agent's shared reading position
    lock,       \* who holds the budget file's lock
    reserved, exhausted,    \* the receipt of the budget
    aged,       \* the receipt is older than CoordWindow
    charged,    \* attempts to write since the receipt was started
    savedPos,   \* Pos in the hooks' state file
    pc,         \* where a poller is, see Stages
    pos,        \* Poller.pos of the room
    read,       \* the cursor as pollRoom read it
    last,       \* the last message of the page pollRoom fetched
    contiguous, \* pollRoom's flag
    cut,        \* the text in hand was shortened by the budget
    collected,  \* collectingNotifier.got
    stage,      \* where coord_inbox is
    after, page,    \* its cursor and the last message of its page
    hidden,     \* the injectedSet it computed
    pushed,     \* how often a poller handed a message to the session
    pulled,     \* messages coord_inbox returned
    dropped,    \* claimed messages whose delivery failed
    faults

serverVars == <<log, top, injected, cursor>>
budgetVars == <<lock, reserved, exhausted, aged, charged>>
pollVars   == <<savedPos, pc, pos, read, last, contiguous, cut, collected>>
pullVars   == <<stage, after, page, hidden>>
seenVars   == <<pushed, pulled, dropped>>
vars == <<serverVars, budgetVars, pollVars, pullVars, seenVars, faults>>

Messages == 1..MaxMessages

\* idle: between polls; fetch: the cursor is read; each: before the message
\* after pos; claim: the budget is reserved; notify: the claim is won; settle:
\* the message is delivered; finish: a hook call is about to answer.
Stages == {"idle", "fetch", "each", "claim", "notify", "settle", "finish"}

Larger(a, b)  == IF a > b THEN a ELSE b
Smaller(a, b) == IF a < b THEN a ELSE b

Next1(p) == pos[p] + 1

\* Poll is over: a hook call still has to answer, a channel sleeps.
Over(p) == IF p \in Hooks THEN "finish" ELSE "idle"

Init ==
    /\ log = [m \in Messages |-> "none"] /\ top = 0
    /\ injected = {} /\ cursor = 0
    /\ lock = NoOne /\ reserved = 0 /\ exhausted = FALSE /\ aged = FALSE
    /\ charged = 0
    /\ savedPos = 0
    /\ pc = [p \in Pollers |-> "idle"]
    /\ pos = [p \in Pollers |-> 0]
    /\ read = [p \in Pollers |-> 0]
    /\ last = [p \in Pollers |-> 0]
    /\ contiguous = [p \in Pollers |-> TRUE]
    /\ cut = [p \in Pollers |-> FALSE]
    /\ collected = [p \in Pollers |-> {}]
    /\ stage = "idle" /\ after = 0 /\ page = 0 /\ hidden = {}
    /\ pushed = [m \in Messages |-> 0]
    /\ pulled = {} /\ dropped = {}
    /\ faults = 0

-----------------------------------------------------------------------------
(* The room.                                                               *)

\* wake: the wake rule lets it interrupt the agent (a mention, a question, a
\* private message); plain: room traffic that does not; own: the agent's own message.
Post(kind) ==
    /\ top < MaxMessages
    /\ top' = top + 1
    /\ log' = [log EXCEPT ![top + 1] = kind]
    /\ UNCHANGED <<injected, cursor, budgetVars, pollVars, pullVars, seenVars, faults>>

\* expires_at of a message passes: it no longer wakes.
Expire(m) ==
    /\ log[m] = "wake"
    /\ log' = [log EXCEPT ![m] = "plain"]
    /\ UNCHANGED <<top, injected, cursor, budgetVars, pollVars, pullVars, seenVars, faults>>

\* CoordWindow passes since the receipt was started.
WindowPasses ==
    /\ ~aged
    /\ aged' = TRUE
    /\ UNCHANGED <<serverVars, lock, reserved, exhausted, charged, pollVars, pullVars, seenVars, faults>>

-----------------------------------------------------------------------------
(* One poll of the room.                                                   *)

\* Poll and the first call of pollRoom; a hook call restores its positions.
\* pos is the position pollRoom begins at, the larger of p.pos and the cursor.
StartPoll(p) ==
    /\ pc[p] = "idle"
    /\ pc' = [pc EXCEPT ![p] = "fetch"]
    /\ read' = [read EXCEPT ![p] = cursor]
    /\ pos' = [pos EXCEPT ![p] =
                  Larger(IF p \in Hooks THEN savedPos ELSE pos[p], cursor)]
    /\ UNCHANGED <<serverVars, budgetVars, savedPos, last, contiguous, cut, collected,
                   pullVars, seenVars, faults>>

\* Source.Inbox answers with a page; contiguous is TRUE.
Fetch(p) ==
    /\ pc[p] = "fetch"
    /\ pc' = [pc EXCEPT ![p] = "each"]
    /\ last' = [last EXCEPT ![p] = Smaller(top, pos[p] + InboxLimit)]
    /\ UNCHANGED <<serverVars, budgetVars, savedPos, pos, read, contiguous, cut,
                   collected, pullVars, seenVars, faults>>

\* pollRoom returns; what it knew of the room is gone, but for p.pos.
Return(p) ==
    /\ pc' = [pc EXCEPT ![p] = Over(p)]
    /\ read' = [read EXCEPT ![p] = 0]
    /\ last' = [last EXCEPT ![p] = 0]
    /\ contiguous' = [contiguous EXCEPT ![p] = TRUE]

\* It leaves the page: at its end, or because it stalls or fails.
Leave(p) ==
    /\ Return(p)
    /\ UNCHANGED <<serverVars, budgetVars, savedPos, pos, cut, collected, pullVars, seenVars>>

EndPoll(p) ==
    /\ pc[p] = "each" /\ pos[p] >= last[p]
    /\ Leave(p) /\ UNCHANGED faults

AtMessage(p, kinds) ==
    /\ pc[p] = "each" /\ pos[p] < last[p]
    /\ log[Next1(p)] \in kinds

\* handle: the message wakes nobody; only the agent's own may be passed over
\* without a gap.
PassOver(p) ==
    /\ AtMessage(p, {"plain", "own"})
    /\ pos' = [pos EXCEPT ![p] = Next1(p)]
    /\ contiguous' = [contiguous EXCEPT ![p] = @ /\ log[Next1(p)] = "own"]
    /\ UNCHANGED <<serverVars, budgetVars, savedPos, pc, read, last, cut, collected,
                   pullVars, seenVars, faults>>

\* Notifier.Ready
Ready(p) == p \in Hooks => Cardinality(collected[p]) < MaxCollected

\* Mutant: an exhausted window does not recover.
ReserveForever(p) ==
    /\ AtMessage(p, {"wake"}) /\ Ready(p)
    /\ lock = NoOne /\ ~exhausted
    /\ cut' = [cut EXCEPT ![p] = reserved >= BudgetLimit]
    /\ exhausted' = (reserved >= BudgetLimit)
    /\ reserved' = Smaller(reserved + 1, BudgetLimit)
    /\ lock' = p
    /\ pc' = [pc EXCEPT ![p] = "claim"]
    /\ UNCHANGED <<serverVars, aged, charged, savedPos, pos, read, last, contiguous, collected,
                   pullVars, seenVars, faults>>

\* DeliverChannel takes the lock and reserves; the last message it lets
\* through is shortened and exhausts the window.
Reserve(p) ==
    /\ AtMessage(p, {"wake"}) /\ Ready(p)
    /\ lock = NoOne /\ (aged \/ ~exhausted)
    /\ LET spent == IF aged THEN 0 ELSE reserved
       IN  /\ cut' = [cut EXCEPT ![p] = spent >= BudgetLimit]
           /\ exhausted' = (spent >= BudgetLimit)
           /\ reserved' = Smaller(spent + 1, BudgetLimit)
    /\ charged' = IF aged THEN 0 ELSE charged
    /\ aged' = FALSE
    /\ lock' = p
    /\ pc' = [pc EXCEPT ![p] = "claim"]
    /\ UNCHANGED <<serverVars, savedPos, pos, read, last, contiguous, collected,
                   pullVars, seenVars, faults>>

\* errStalled: the notifier is not ready, or the budget is exhausted.
Stall(p) ==
    /\ AtMessage(p, {"wake"})
    /\ Ready(p) => lock = NoOne /\ exhausted /\ ~aged
    /\ Leave(p) /\ UNCHANGED faults

\* Mutant: the loop goes on with the next message.
BusyGoesOn(p) ==
    /\ AtMessage(p, {"wake"}) /\ Ready(p)
    /\ lock # NoOne
    /\ pos' = [pos EXCEPT ![p] = Next1(p)]
    /\ UNCHANGED <<serverVars, budgetVars, savedPos, pc, read, last, contiguous, cut, collected,
                   pullVars, seenVars, faults>>

\* The lock is not to be had within lockWait (ErrBusy).
Busy(p) ==
    /\ AtMessage(p, {"wake"}) /\ Ready(p)
    /\ lock # NoOne
    /\ Leave(p) /\ UNCHANGED faults

\* ErrNotEmitted: the reservation is taken back under the same lock.
Refund(p) ==
    /\ reserved' = IF cut[p] THEN reserved ELSE reserved - 1
    /\ exhausted' = FALSE
    /\ lock' = NoOne
    /\ cut' = [cut EXCEPT ![p] = FALSE]
    /\ UNCHANGED <<aged, charged>>

\* Mutant: a written message is taken back too.
SpendNothing(p) ==
    /\ lock' = NoOne
    /\ cut' = [cut EXCEPT ![p] = FALSE]
    /\ exhausted' = FALSE
    /\ charged' = charged + 1
    /\ UNCHANGED <<reserved, aged>>

\* The text was written, or half of it: the reservation stays.
Spend(p) ==
    /\ lock' = NoOne
    /\ cut' = [cut EXCEPT ![p] = FALSE]
    /\ charged' = charged + 1
    /\ UNCHANGED <<reserved, exhausted, aged>>

\* Mutant: the claim does not look at the rank.
WinAnyClaim(p) ==
    /\ pc[p] = "claim"
    /\ injected' = injected \union {Next1(p)}
    /\ pc' = [pc EXCEPT ![p] = "notify"]
    /\ UNCHANGED <<log, top, cursor, budgetVars, savedPos, pos, read, last, contiguous,
                   cut, collected, pullVars, seenVars, faults>>

\* ClaimCoordDelivery: the rank is raised once.
WinClaim(p) ==
    /\ pc[p] = "claim" /\ Next1(p) \notin injected
    /\ injected' = injected \union {Next1(p)}
    /\ pc' = [pc EXCEPT ![p] = "notify"]
    /\ UNCHANGED <<log, top, cursor, budgetVars, savedPos, pos, read, last, contiguous,
                   cut, collected, pullVars, seenVars, faults>>

LoseClaim(p) ==
    /\ pc[p] = "claim" /\ Next1(p) \in injected
    /\ Refund(p)
    /\ pos' = [pos EXCEPT ![p] = Next1(p)]
    /\ contiguous' = [contiguous EXCEPT ![p] = FALSE]
    /\ pc' = [pc EXCEPT ![p] = "each"]
    /\ UNCHANGED <<serverVars, savedPos, read, last, collected, pullVars, seenVars, faults>>

\* The bytes of msgs reach the session.
Hand(msgs) ==
    pushed' = [m \in Messages |-> pushed[m] + IF m \in msgs THEN 1 ELSE 0]

\* The channel writes at once; a hook call collects for its answer.
Notify(p) ==
    /\ pc[p] = "notify"
    /\ Spend(p)
    /\ IF p \in Hooks
       THEN /\ collected' = [collected EXCEPT ![p] = @ \union {Next1(p)}]
            /\ UNCHANGED pushed
       ELSE Hand({Next1(p)}) /\ UNCHANGED collected
    /\ pc' = [pc EXCEPT ![p] = "settle"]
    /\ UNCHANGED <<serverVars, savedPos, pos, read, last, contiguous, pullVars,
                   pulled, dropped, faults>>

MovesCursor(p) == contiguous[p] /\ Next1(p) > read[p]

\* Back in pollRoom: the position, and the shared cursor if nothing unread
\* lies before the message.
Settle(p) ==
    /\ pc[p] = "settle"
    /\ pos' = [pos EXCEPT ![p] = Next1(p)]
    /\ IF MovesCursor(p)
       THEN /\ cursor' = Larger(cursor, Next1(p))
            /\ read' = [read EXCEPT ![p] = Next1(p)]
       ELSE UNCHANGED <<cursor, read>>
    /\ pc' = [pc EXCEPT ![p] = "each"]
    /\ UNCHANGED <<log, top, injected, budgetVars, savedPos, last, contiguous, cut,
                   collected, pullVars, seenVars, faults>>

\* Mutant: the answer of a hook call leaves the messages out.
FinishHookMute(p) ==
    /\ pc[p] = "finish"
    /\ savedPos' = pos[p]
    /\ collected' = [collected EXCEPT ![p] = {}]
    /\ pos' = [pos EXCEPT ![p] = 0]
    /\ pc' = [pc EXCEPT ![p] = "idle"]
    /\ UNCHANGED <<serverVars, budgetVars, read, last, contiguous, cut, pullVars,
                   seenVars, faults>>

\* A hook call saves its positions, without a lock and whatever another call
\* saved meanwhile, and prints what it collected.
FinishHook(p) ==
    /\ pc[p] = "finish"
    /\ savedPos' = pos[p]
    /\ Hand(collected[p])
    /\ collected' = [collected EXCEPT ![p] = {}]
    /\ pos' = [pos EXCEPT ![p] = 0]
    /\ pc' = [pc EXCEPT ![p] = "idle"]
    /\ UNCHANGED <<serverVars, budgetVars, read, last, contiguous, cut, pullVars,
                   pulled, dropped, faults>>

-----------------------------------------------------------------------------
(* What can fail in a poll.                                                *)

Fails == faults < MaxFaults /\ faults' = faults + 1

\* The server does not answer, or the hook call's deadline has passed.
PollFails(p) ==
    /\ Fails
    /\ pc[p] \in {"fetch", "each"}
    /\ Leave(p)

\* ClaimTimeout: the claim did not arrive, or only its answer was lost.
ClaimFails(p) ==
    /\ Fails
    /\ pc[p] = "claim"
    /\ Refund(p)
    /\ \/ UNCHANGED <<injected, dropped>>
       \/ /\ Next1(p) \notin injected
          /\ injected' = injected \union {Next1(p)}
          /\ dropped' = dropped \union {Next1(p)}
    /\ Return(p)
    /\ UNCHANGED <<log, top, cursor, savedPos, pos, collected,
                   pullVars, pushed, pulled>>

\* The write into the session fails; the claim stays.
NotifyFails(p) ==
    /\ Fails
    /\ p \in Channels /\ pc[p] = "notify"
    /\ Spend(p)
    /\ dropped' = dropped \union {Next1(p)}
    /\ Return(p)
    /\ UNCHANGED <<serverVars, savedPos, pos, collected,
                   pullVars, pushed, pulled>>

\* SetCursor fails after the delivery, or only its answer is lost.
SettleFails(p) ==
    /\ Fails
    /\ pc[p] = "settle" /\ MovesCursor(p)
    /\ pos' = [pos EXCEPT ![p] = Next1(p)]
    /\ cursor' \in {cursor, Larger(cursor, Next1(p))}
    /\ Return(p)
    /\ UNCHANGED <<log, top, injected, budgetVars, savedPos, cut, collected,
                   pullVars, seenVars>>

\* Claimed by p and not yet with the agent.
InHand(p) == collected[p] \union (IF pc[p] = "notify" THEN {Next1(p)} ELSE {})

\* The process dies: flock is released, the receipt and the claims stay. A
\* hook call may die with its positions saved and its answer unprinted.
Crash(p) ==
    /\ Fails
    /\ pc[p] # "idle"
    /\ dropped' = dropped \union InHand(p)
    /\ lock' = IF lock = p THEN NoOne ELSE lock
    /\ savedPos' \in {savedPos} \union (IF pc[p] = "finish" THEN {pos[p]} ELSE {})
    /\ collected' = [collected EXCEPT ![p] = {}]
    /\ cut' = [cut EXCEPT ![p] = FALSE]
    /\ pos' = [pos EXCEPT ![p] = 0]
    /\ pc' = [pc EXCEPT ![p] = "idle"]
    /\ read' = [read EXCEPT ![p] = 0]
    /\ last' = [last EXCEPT ![p] = 0]
    /\ contiguous' = [contiguous EXCEPT ![p] = TRUE]
    /\ UNCHANGED <<serverVars, reserved, exhausted, aged, charged,
                   pullVars, pushed, pulled>>

-----------------------------------------------------------------------------
(* coord_inbox, the pull path: handleCoordInbox of one mcp process.        *)

\* From the stored cursor, or from where the agent asks it to.
StartInbox ==
    /\ Pulls /\ stage = "idle"
    /\ after' \in {cursor} \union Messages
    /\ stage' = "page"
    /\ UNCHANGED <<serverVars, budgetVars, pollVars, page, hidden, seenVars, faults>>

\* The cursor cannot be read: the room is read from its beginning.
StartInboxBlind ==
    /\ Fails
    /\ Pulls /\ stage = "idle"
    /\ after' = 0
    /\ stage' = "page"
    /\ UNCHANGED <<serverVars, budgetVars, pollVars, page, hidden, seenVars>>

FetchInbox ==
    /\ stage = "page"
    /\ page' = Larger(after, Smaller(top, after + InboxLimit))
    /\ stage' = "injected"
    /\ UNCHANGED <<serverVars, budgetVars, pollVars, after, hidden, seenVars, faults>>

\* injectedSet
ReadInjected ==
    /\ stage = "injected"
    /\ hidden' = injected \intersect (after + 1)..page
    /\ stage' = "render"
    /\ UNCHANGED <<serverVars, budgetVars, pollVars, after, page, seenVars, faults>>

Shown == {m \in (after + 1)..page : log[m] # "own" /\ m \notin hidden}

EndInbox ==
    /\ stage' = "idle" /\ after' = 0 /\ page' = 0 /\ hidden' = {}
    /\ UNCHANGED <<log, top, injected, budgetVars, pollVars, pushed, dropped>>

\* The cursor of a page that is not empty moves to its end.
PageCursor == IF page > after THEN Larger(cursor, page) ELSE cursor

ShowInbox ==
    /\ stage = "render"
    /\ cursor' = PageCursor
    /\ pulled' = pulled \union Shown
    /\ EndInbox /\ UNCHANGED faults

\* A call to the server fails; SetCoordCursor may have arrived all the same.
InboxFails ==
    /\ Fails
    /\ stage # "idle"
    /\ \/ UNCHANGED cursor
       \/ stage = "render" /\ cursor' = PageCursor
    /\ EndInbox /\ UNCHANGED pulled

Inbox == StartInbox \/ FetchInbox \/ ReadInjected \/ ShowInbox

-----------------------------------------------------------------------------
\* What a poll does once it has started.
Proceed(p) ==
    \/ Fetch(p) \/ EndPoll(p)
    \/ PassOver(p) \/ Reserve(p) \/ Stall(p) \/ Busy(p)
    \/ WinClaim(p) \/ LoseClaim(p) \/ Notify(p) \/ Settle(p) \/ FinishHook(p)

Fault(p) ==
    \/ ClaimFails(p) \/ NotifyFails(p) \/ SettleFails(p)
    \/ PollFails(p) \/ Crash(p)

Next ==
    \/ \E kind \in {"wake", "plain", "own"} : Post(kind)
    \/ \E m \in Messages : Expire(m)
    \/ WindowPasses
    \/ \E p \in Pollers : StartPoll(p) \/ Proceed(p) \/ Fault(p)
    \/ Inbox \/ StartInboxBlind \/ InboxFails

\* Time passes, a poll that has started goes on, and a channel polls again and
\* again; nobody has to call coord_inbox or to run a hook.
Spec ==
    /\ Init /\ [][Next]_vars
    /\ WF_vars(WindowPasses)
    /\ \A p \in Pollers : WF_vars(Proceed(p))
    /\ \A p \in Channels : WF_vars(StartPoll(p))

-----------------------------------------------------------------------------
(* What the channel promises.                                              *)

ServerOK ==
    /\ log \in [Messages -> {"none", "wake", "plain", "own"}]
    /\ top \in 0..MaxMessages /\ cursor \in 0..MaxMessages
    /\ injected \in SUBSET Messages

BudgetOK ==
    /\ lock \in Pollers \union {NoOne}
    /\ reserved \in 0..BudgetLimit /\ charged \in Nat
    /\ exhausted \in BOOLEAN /\ aged \in BOOLEAN

PollOK ==
    /\ savedPos \in 0..MaxMessages
    /\ pc \in [Pollers -> Stages]
    /\ pos \in [Pollers -> 0..MaxMessages]
    /\ read \in [Pollers -> 0..MaxMessages]
    /\ last \in [Pollers -> 0..MaxMessages]
    /\ contiguous \in [Pollers -> BOOLEAN] /\ cut \in [Pollers -> BOOLEAN]
    /\ collected \in [Pollers -> SUBSET Messages]

PullOK ==
    /\ stage \in {"idle", "page", "injected", "render"}
    /\ after \in 0..MaxMessages /\ page \in 0..MaxMessages
    /\ hidden \in SUBSET Messages

SeenOK ==
    /\ pushed \in [Messages -> Nat]
    /\ pulled \in SUBSET Messages
    /\ dropped \in SUBSET Messages

\* The types of the variables; faults is bounded.
TypeOK == ServerOK /\ BudgetOK /\ PollOK /\ PullOK /\ SeenOK /\ faults \in 0..MaxFaults

\* What became of a message on the way into the session.
Fate(m) ==
    IF pushed[m] > 1 THEN "twice"
    ELSE IF pushed[m] = 1 THEN "delivered"
    ELSE IF m \in dropped THEN "lost"
    ELSE IF m \in injected THEN "claimed"
    ELSE "open"

Once == INSTANCE AtMostOnce WITH fate <- [m \in Messages |-> Fate(m)]

\* The pollers of an agent implement AtMostOnce: channel and hooks together
\* never deliver a message twice and never lose one but in a fault after the
\* claim, across crashes, timeouts and stale positions (handle, Claim).
AtMostOnceDelivery == Once!Spec

\* A claim that no process can act on any more is a loss the documentation
\* names: whatever else is claimed was delivered or is in a poller's hand.
ClaimsInHand ==
    \A m \in injected :
        pushed[m] = 0 /\ m \notin dropped =>
            \E p \in Pollers : m \in InHand(p)

\* Neither the shared cursor nor a poller's own position has reached m.
Ahead(m) == cursor < m /\ savedPos < m /\ \A p \in Pollers : pos[p] < m

\* coord_inbox moves the cursor over m without showing it: the agent asked to
\* begin behind m, or the call failed after its cursor had arrived.
InboxSkips(m) ==
    /\ stage = "render" /\ stage' = "idle"
    /\ m <= after \/ faults' = faults + 1

\* A message that wakes the agent and is ahead of everybody stays so until
\* somebody claims it or coord_inbox shows it: a refusal of the budget, a busy
\* lock, a failed call and another hook's stale position leave it in reach.
\* The exception is what the code does against its own comment, InboxSkips.
NoWakeSkipped ==
    [][\A m \in Messages :
          log[m] = "wake" /\ Ahead(m) /\ ~Ahead(m)' =>
              m \in injected' \union pulled' \/ InboxSkips(m)]_vars

\* A poller that waits for the claim or writes holds the budget's lock, and
\* nobody else does: the reservation it may take back is its own.
LockHeld ==
    \A p \in Pollers : lock = p <=> pc[p] \in {"claim", "notify"}

\* The messages the receipt counts, the shortened one included.
BookedFor == reserved + (IF exhausted THEN 1 ELSE 0)

\* Channel and hooks together write no more into the session than one window
\* allows, the shortened message included, and what was written is booked:
\* a reservation taken back, a crash or a new window never frees the room of
\* a message that went out (DeliverChannel, ErrNotEmitted). While nothing has
\* failed, a reservation taken back leaves nothing booked either.
BudgetKept ==
    /\ charged <= BudgetLimit + 1
    /\ charged <= BookedFor
    /\ lock = NoOne /\ faults = 0 => charged = BookedFor

\* The reading position of the agent never moves back.
CursorMonotone == [][cursor' >= cursor]_vars

\* A message that wakes the agent is handed to its session, or lost in a fault
\* after the claim, or expires: no stall, lock or exhausted budget holds it up
\* for good. Of an agent that does not read the room itself.
EveryWakeArrives ==
    ~Pulls => \A m \in Messages :
        log[m] = "wake" ~> \/ log[m] # "wake"
                           \/ pushed[m] > 0 \/ m \in dropped

-----------------------------------------------------------------------------
(* What the documentation also says, and the code does not do.             *)

\* The cursor is only moved up to the first message the poller did not
\* deliver: everything before it is delivered or the agent's own, everything
\* after it stays readable for coord_inbox (the last paragraph of doc.go).
ReadableBehindCursor ==
    \A m \in 1..cursor :
        log[m] = "own" \/ m \in injected \union pulled

=============================================================================
