# Ghosttree in TLA+

Ghosttree is a server, an MCP server, a set of hooks and a few background
processes (all one Go program, `src/cmd/ctx`) that keep the shared memory of
people and coding agents: transcripts, knowledge, documents, requests, and a
coordination channel through which agents talk to each other. The server keeps
everything in one SQLite file (`src/internal/store`).

This directory specifies the parts of it in which the order of steps matters:
what runs concurrently, what can be cut short, and what is decided from state
that was read earlier.

## Inventory

| component | state | operations | what is hard | what makes it correct |
|---|---|---|---|---|
| runtime writer (`store/writer*.go`) | queue, group at work, load, best-effort batches, closed | submit, complete, close, worker loop, coalesce | callers, worker and close share one lock; chunk groups fail and fall back; batches written outside the lock | every admitted call is decided and answered once, in order; limits hold; close drains |
| coordination delivery (`claudechannel`, `hookbudget`, `store/coorddelivery.go`, `cmd/ctx/hook_coord.go`) | messages, claims, shared cursor, a position per poller, budget receipt and lock, hook state file | poll, reserve, claim, notify, set cursor, hook answer | a channel process and hook calls race; every call over the network may fail after taking effect; processes die anywhere | a message enters a session at most once; no poller passes over a message that wakes; the budget holds; the cursor never moves back |
| coord_inbox (`mcpserver/coord.go`) | none of its own; the shared cursor | read page, read claims, move cursor, answer | three calls that are not atomic | shows what the pollers do not |
| wake rule (`store/coordwake.go`, `claudechannel/filter.go`) | none | ShouldWake | expiry while a message waits | pure decision table, unit tested |
| loop guard (`store/coordloop.go`) | streaks of agent messages | track, decide | several pollers share it | withholds only, never delivers |
| wait cycles (`store/coordwait.go`) | register of cycles with notices | reconcile on send and on close | cycles appear through joins and vanish through expiry without a reconcile; notices held back by a rate limit | one notice per set and interval, none swallowed |
| messages, attention, read marks (`store/coordmessage.go`, `coordattention.go`, `coordread.go`) | rows | idempotent append, resolve, mark | retries with the same client id | one row per client id, an entry closes once |
| explanation batches (`explain/batch.go`, `store/explain_batch.go`) | batches and reserved items, explanations, usage | reserve, submit, activate, collect, finish an item, close | a paid call to an external service between two transactions; runs that overlap, die or lose a reply | no text is paid for twice, none stored for another text, usage counted once, the cap holds, nothing blocked for good |
| join sessions and device flow (`store/joinsession.go`, `device.go`, `cmd/ctx/join.go`) | the session, its device flow, the installer's resume file, tokens | create, claim, view, decide, exchange, poll, deliver, cancel | two parties and several tabs; expiry at every step; resumption; a decision split by an unlocked lookup | one token per code, and for the approved request only |
| invitation links (`store/joininvite.go`, `store/orgs.go`) | open links | issue, revoke, expire, accept | what a link promised may have changed when it is accepted | nobody rises above what the issuer may give |
| accounts, organisations, roles, sharing (`store/orgs.go`, `roles.go`, `sharing.go`) | members, roles in projects, projects' organisations, sources, prefixes | some twenty transactions | long sequences of legal calls by several accounts | the last owner stays; roles end with membership; ranks rise only by grant; a prefix decides where a remote goes |
| agent control (`store/agentcontrol.go`, `agentpause`, `cmd/ctx/channel_pause.go`) | controls and their evidence, flag file, file of acknowledgements | request, resume, mirror, gate, report, announce | four processes, two files and two ways to the server | effective means stopped; no acknowledgement lost; the flag follows |
| collector (`collector`, `cmd/ctx/watch.go`) | position and number per session file, chunks | read, upload (in halves), prove, save | restart between upload and save; two processes on one state file | the archive is the transcript; no proof is passed |
| documents (`store/document.go`) | revisions | push with expected base | concurrent pushes | no lost revision |
| request ledger (`store/request*.go`, `request`) | requests, work, links | open, take, resolve | transitions from several actors | legal transitions only |
| human tasks, pains | rows | open, answer, close | - | one transaction per transition |
| knowledge and ghosts | entries, relations | save, supersede, retire | relation graph stays acyclic | - |
| rooms, membership, presence | rows | join, leave, list | - | presence is derived when read |
| sessions, transcripts, snapshots, retention | rows, directories | append, capture, delete | snapshot swap | - |
| HTTP server, web pages, client, MCP tools | none of their own | handlers | lost replies (seen by the callers) | - |
| Codex adapter, gardener, distillation, installer, benchmarks | external | - | - | - |

`PROJECT.json` lists the same parts with their sources and, under `hazards`,
every place where this code can go wrong in a way that a test hardly reaches.

### How the parts interact

* Every write of the server is a call of the **runtime writer**: message posts,
  claims, cursor moves, roles, revisions, all of it. A caller blocks until its
  transaction was decided. What the other modules take as one atomic step on the
  server is one such call. (Join sessions are the exception: they live in the
  server's memory, under a lock of their own.)
* A **poller** (one process per session, `ctx channel`, and one per hook call)
  and **coord_inbox** are clients of the server. Between two calls of theirs
  anything may happen there, and a call may take effect although its reply
  never arrives.
* The channel process and the hook calls of one session share, on disk, the
  **budget receipt** (under `flock`) and, hooks only, a **state file** with
  their positions that is read and written without a lock. The same channel
  process mirrors an **agent control** into a flag file that the hooks read, and
  reports the acknowledgements they append to another.
* The **collector** reads the transcript that the agent's harness writes. Its
  uploads carry the proof that a pause took hold, so agent control is the
  collector's states and more (`AgentControl` EXTENDS `Collector`).
* Runs of `ctx explain` share with each other, and with the server's own
  single explanations, nothing but the store and the provider.

## Modules

| module | what it is |
|---|---|
| `CommitQueue` | abstract: a line of calls, decided oldest first, answered in order |
| `RuntimeWriter` | the writer as it is; implements `CommitQueue` (`LineSpec`) |
| `AtMostOnce` | abstract: a message is open, claimed, then delivered once or lost for good |
| `CoordChannel` | pollers, budget, claims, cursor and coord_inbox for one room and one agent; the pollers implement `AtMostOnce` (`AtMostOnceDelivery`) |
| `MutualWaits` | what a mutual wait is: the strongly connected groups of a graph |
| `WaitCycles` | the register of mutual waits of a room, its notices and their limit |
| `WaitGraph` | the search for cycles (`DetectWaitCycles`) and for an order of each (`hamiltonCycle`), step by step as they are coded |
| `ExplainBatches` | the batch runs, the store's records and the provider, beside edits, agents and opened pages |
| `PairingGrants` | abstract: a request waits, is approved and given a token once, or is closed for good |
| `JoinSessions` | a pairing: installers, tabs, the session, its device flow, the resume file, tokens; implements `PairingGrants` (`GrantsAsPromised`) |
| `Collector` | the processes that read a transcript and what they keep and send |
| `AgentControl` | pause and resumption: server, channel, hooks, harness, on top of `Collector` |
| `Organisations` | owners and members, projects and roles, links, sources and prefixes |
| `...Proofs` | the theorems about the module of that name (eight modules; the lemmas about `Collector` are in `AgentControlProofs`) |
| `MC...` | the modules TLC runs, with the bounds in the `.cfg` files |

An operator whose comment begins with `Mutant:` is no part of the
specification. It is a plausible mistake in the definition that follows it;
`PROJECT.json` pairs each with the property that catches it.

### RuntimeWriter and the code

`queue` is the linked list from `head` to `tail`, `group` what `runQueued` has
popped and not yet answered, `operations` and `bytes` the load that `admit`
counts. Critical sections of `w.mu` are single actions: `Admit` / `Reject`
(`admitPrepared`), `Pop` (`runQueued`, which extends the group over the chunk
appends that follow), `Complete` (`complete`, which releases the load), and
`Answer` is the send on `r.done` after the unlock. What happens between them, a
transaction, is `CommitGroup` / `FailGroup` for the call or the chunk group
and `CommitSingle` / `FailSingle` for the fallback of `writeChunkGroup`.
`Return` is the caller reading its answer. `phase` is where the worker
goroutine stands; `wait` is `ready.Wait`, which only a signal ends (`Woken`).

`pending[kind]` is the live batch of a kind of best-effort write and `active`
its flag; `taken` is the batch that `StartBestEffort` handed to the database.
`FinishBestEffort` stands for success and failure alike: a failed batch is
counted as dropped and forgotten in the same way. `owed`, `verdict` and
`commits` are history: what was accepted and not yet settled, and what the
database did with a call.

Left out: the measurement and cloning of payloads (`writer_payload.go`; a
payload that cannot be measured is refused before the lock), the statistics, a
panic inside a transaction, and a hit that is dropped because `TryLock` failed
(it changes nothing but a counter).

### CoordChannel and the code

One agent and one room. The server: `log` (what each message is to the
agent: one that wakes it, its own, or another), `injected` (deliveries with rank
injected or higher), `cursor`. The budget on disk: `lock`, `reserved`,
`exhausted`, `aged`. A poll is `StartPoll` (`Poll` and the cursor read of
`pollRoom`), `Fetch` (the page), then per message `PassOver`, `Stall`, `Busy` or
`Reserve` (`hookbudget.DeliverChannel` up to its callback), `WinClaim` /
`LoseClaim` (`ClaimCoordDelivery`), `Notify` (the write, which ends the
delivery and the lock), `Settle` (position and shared cursor), and `EndPoll`. A
hook call runs the same poll with a collecting notifier and ends with
`FinishHook` (positions saved, answer printed). coord_inbox is `StartInbox`,
`FetchInbox`, `ReadInjected`, `ShowInbox`, the four calls of
`handleCoordInbox`.

`NoWakeSkipped` is about steps: a message that wakes the agent and lies ahead of
the cursor and of every position leaves that place only claimed, shown or
expired. Its one exception is named, `InboxSkips`: a call of coord_inbox that was
asked to begin behind the message, or that failed after its cursor had arrived
(below, under the disagreements). `BudgetKept` bounds a window from both sides:
what was written is booked, and while nothing has failed and nobody holds the
lock nothing else is, so a refund that gives back too little breaks it as well as
one that gives back too much.

Faults: `PollFails`, `ClaimFails` and `SettleFails` (with and without the
effect on the server), `NotifyFails`, `InboxFails`, `Crash` anywhere.

Simplified: messages have one size and the budget counts messages, so
`BudgetLimit` messages go out whole and one shortened; the load of the hook
state and the cursor read are one step (nothing of the pollers lies between
them that another step could not precede); a channel that is not ready shows as
`Stall`, the page ends before the message; a message of the agent's subagent,
which the poller passes over and coord_inbox shows, is not told apart from the
agent's own. Left out: several rooms in one
poll, the heartbeat, the enforcing mode of the loop guard, the memory channel
of the budget, a failing write of the receipt (its effect, a reservation that
stays, is that of `Crash`).

### WaitCycles and the code

One room. `open` are the open rows of `coord_attention` that make somebody wait
(questions, approvals, blockers), `joined` the active members, `reg` the table
`coord_wait_cycles`: `active` and `held` by set of members, which is the row's
`cycle_key`, `formed` its `formed_at`, and `told[S]` the `notified_at` of all
rows of a set, dissolved ones included, because `limited` counts those too.
`reg.compared` is history. `Reconciled` is `reconcileWaitCyclesTx`: `Due` the
sets that should be told, `Tells` those that are, `FormedAt` the silent
take-over. The code takes the first row that covers a set; by `RowsApart` there
is only one. `Reconciles` is its savepoint: with `Failing` a failure leaves the
register as it was while the caller goes on; a failed rollback undoes the whole
call, which is no step.

`Send` (compares before and after), `SendAgain` (a repeated client id),
`Resolve` and `MarkExpired` are the calls on messages and entries, each one
transaction of the runtime writer; `Leave`, `Join` and `Tick` change who waits
on whom and compare nothing. An entry reaches its last instant in `Tick` and is
ignored from the next on, whether or not it was marked.

Left out: handoffs (not a wait), people as recipients (no edge), threads, the
dates a cycle is shown with, the text and masking of a notice, the limit of
2000 rows, and who may resolve an entry beyond author and recipient. Clocks do
not run backwards, and the two comparisons of a `Send` fall in one second.
`ToldSinceFormed` dates a row from `formed_at`, which a silent take-over inherits
(`FormedAt`): that a circle taken over is the old one in another form, and not a
new one of the same agents, is the rule of the code and no property questions it.
No liveness is stated: a notice held back waits for the next message or answer
in the room, and nothing guarantees one.

`WaitGraph` is one call of `DetectWaitCycles` on any graph, one step for each
turn of a loop. The recursion of `visit` is `calls`, the calls in progress, and
`left`, what the loop of each has left; `index`, `low`, `stack`, `next` and
`groups` are the variables of the code. `Begin` is a turn of the outer loop,
`Descend` and `Back` one of visit's (a call, or a comparison of low numbers),
`Leave` the end of a visit with what its caller does next. Then `Take` takes
the next group and `hamiltonCycle` is `hand` (the group), `path` and `rest` (what
the loop of each `walk` has left): `Walk` goes on, `Ordered` returns with a
circle, `GiveUp` goes back a place, in the end without one. `out` is the result.
Left out are the dates of a cycle (`Since`, `ReviewAt`, `Overdue`).

### ExplainBatches and the code

`batch` is `explain_batches` with its items, `remote` the provider's side,
`run` the local state of each process of `ctx explain backfill --batch`
(`pc` is the next call), `gen` the object that the server explains one by one.
Collecting: `List` reads the open rows, then per row `Release` or `LeaveOpen` (a
reservation, old or not), `Fetch`, `Judge` / `Discard` / `Save` / `Book` for the
entries of `finishItem`, `GiveUp` / `LoseItem` (`abandon`, `failBatch`),
`CloseBatch`. Submitting: `ReadWaiting` and `ReadUsage` (two reads, in this
order), `Scan`, `Reserve` / `NoRowLeft`, `Send` / `Refuse`, `Activate`,
`DropReservation`. `Crash` ends a run anywhere. Beside them: `Edit`,
`AgentExplains`, `Open1` and `Answer` (a page is opened; `Generate`), `Age` (the
two limits of age) and `Cool` (`retryFailedAfter`).

An object has a text (`text`), and a stored explanation the text it is stored
with and the one it is about. `good` is history, as is `harmed`: a batch whose own
run failed it or took longer than `maxSubmitAge`. Three things the properties
therefore leave out are what the code does: a run that had listed a reservation
closes it after two hours even if it was opened meanwhile; a lost reply to the
upload closes the reservation with the remark that nothing was accepted
(`batch.go:239`), so the objects are paid for twice; and two runs that overlap
may pass the cap on calls, though the comment at `batch.go:103-104` counts what
waits for this reason. `CapKept` is about a run that is `alone`.
`failBatch` hands `FinishExplainBatchItem` a usage of one failure, which the
call drops (`explain_batch.go:190`); failures are no calls, and `CountedOnce` is
about calls. An explanation by an agent that is saved between the read and the
save of `Generate` or `finishItem` is overwritten.

Left out: caps on tokens and dollars, limits per day, languages and models, the
two minutes' wait after a failed single call, the queue of twelve.

### JoinSessions and the code

One account, whose page may be open in several tabs, and installers under one
machine name. Each call of `JoinSessions` runs under its lock and is one action;
it begins by dropping what has expired (`Found`, `Current`: `purge`, `live`,
`lapse`). `Decide` alone looks up the machine's name without the lock:
`StartApproval` before, `Approve` / `FailApproval` / `Misconfirm` after it, and
`SameRequest` is the check that the claim is still the one the page showed.
`Claim` with its three outcomes for a claimed session (resumed, afresh,
compromised), `ClaimTaken`, `ClaimUnknown` and `ClaimFails` are the answers to an
installer; `Poll`, `LearnDenied`, `Exchange`, `Issue`, `Deliver`, `Keep`,
`Decline` and `Cancel` the rest of the two ways to a token. `Interrupt`, `GiveUp`
and `Fail` end an installer, with the resume file left or removed as `ctx join`
does. Time is counted down by `Tick`, one field for each deadline. `Restart`
loses everything but tokens and files, `Evict` is the limit on sessions and
flows.

What the code does and no property denies: an installer that was granted a token
when its session was replaced still gets it (`NothingLeftBehind` is about flows and
codes); the reply to an exchange may be lost, which leaves a token nobody holds; a mistyped code or an error while polling
removes the resume file, so that the next try discards the pairing (`slipped`);
an exchange burns its code before it verifies.

Left out: the device login without a pairing code, locks after wrong codes,
`slow_down`, renaming of machines, several accounts (but `Evict`, and
`ClaimFails` with its lost replies).

### Collector, AgentControl and the code

`transcript` is the session's file: lines with text, empty lines, and the
harness's record that a hook ended the turn at a call. `SyncFile` is `Load`,
`Read` (a batch), `Upload` (which may send a part of the batch,
`uploadSplit`), `Prove` (one proof at a time) and `Save`; `Loaded` and `Retry` are
where a process starts and where it goes on after a failure: the daemon with its
next sweep, a run with `--once` not at all (`ending`, then `Finish`). A save writes
the positions of all files, so the one at the end of a sweep (`watch.go:378`) and
those after a batch of another file write this position again, over a later one
of the other process perhaps: `SaveAgain`, and the save in `Finish`. The daemon and a run
with `--once` share the state file and nothing else: only the daemon takes the
lock, and it reads the file before it does. `chunks` are pairs of number and
line, of which the first to arrive under a number stays (`appendChunkBatches`).

`lifted` is the list of controls; `flag` and `ackFile` are the two files. The
channel's round (`pauseSyncer.sync`) is `AskActive`, `SetFlag`, `ReadAcks`,
`Report` per line and `EndReport`, or `AskLatest`, `LiftFlag`, `Clear`,
`Announce`; a round that fails begins again at `Rested`. A tool call is `Begin`,
`Gate` (reads the flag), `AppendAck`, `Stop` (the harness ends the turn and writes
its record). `Effective` is `deriveState`: acknowledgement and proof of one call.
A channel that crashed leaves the resumption unannounced, as its successor does
not know of it (`channel_pause.go:57-61`): `NoticeOnce` says at most once.

Left out: registration of a session and its waiting time, path activity, lines
over the limit, several transcripts; who may pause whom, interruption as a second
action, a damaged flag file, reports refused for good, two channels of one agent. A transcript
only grows. The limit of evidence (`EventLimit`, 500 in the code) may swallow a
proof or an acknowledgement, and the properties say so (`Full`).

### Organisations and the code

`member`, `guest`, `org`, `shared`, `role`, `invitation`, `source` and `prefix` are
the tables of the same names (`org_members`, `org_guests`, `projects`,
`shared_projects`, `project_members`, `invitations`, `git_sources`,
`org_prefixes`). Every action is one transaction, with the account that calls it;
`ProjectRole` is `projectRoleTx` with `deriveRole`: what an account has through the
organisation, by a stored role, and by sharing. `LandsIn` is where a remote
becomes a project: the holder of a prefix over it, else the organisation asked
for, else a default one. `BringIn`, `Relocate`, `Issue` and `Gone` are shared by the
calls that use the same transaction in the code. An accepted link
(`AcceptInvitation`) is checked against what its issuer may give at that time.
`ConnectSource` and `ClaimPrefix` are two calls of the store and two actions
(`web/orgsharing.go` makes one after the other); `ReleasePrefix` is in the store
without a caller.

`Backfill` is `migrateOrgs`, which runs whenever the database is opened until its
marker (`filled`) is set: it may find organisations, roles and claimed prefixes
that accounts made before, makes the instance's owner an owner of the first
organisation (or of a new one) and puts every remote there that is known to the
database and claimed by nobody. It asks no account and no prefix, so
`PrefixDecides` is about the calls of accounts and names the backfill; a rise it
gives is the operator's, and `RisesAreGranted` about the calls of accounts too. `links` counts it as one of the `MaxLinks`
ways into an organisation; `Room` is the bound on projects at a time.

One login at one host gives one source and one prefix. The default organisation
of an account is any it is a member of, since the account may choose it. Visibility
is enforced and accounts are active. Left out: what a role may read
(`projectaccess.go`), `can_review`, the binding of a link to an address, names and
slugs, renaming, the limit of open links, previews, an
instance that does not enforce access, and that only an administrator may create
an organisation where the server is set so; any remote may be claimed.

## Runs

| run | instance | shows |
|---|---|---|
| `writer` | three callers, sizes 1, 2, 4 under `MaxOperations` 2 and `MaxBytes` 3, groups of two; hits of three kinds on one key, counts up to 2 | `TypeOK`, `LoadAccounted`, `ToldWhatHappened`, `HitsConserved`, the refinement `LineSpec`, `CloseReturns` |
| `channel_push` | a channel and a hook, two messages, a budget that shortens the first, one fault | `ClaimsInHand`, `BudgetKept`, the refinement `AtMostOnceDelivery`, `EveryWakeArrives` |
| `channel_pull` | two hook calls that share their saved positions and a budget of one shortened message, and coord_inbox, two messages, one fault | `NoWakeSkipped` |
| `channel_cursor` | a channel, two messages, no faults | a disagreement of text and code, below |
| `wait_cycles` | three agents, three messages of which some lapse; the bookkeeping works | `ToldSinceFormed`, `HeldForItsOwnNotice`, `ClosedCircleNoticed` |
| `wait_lapses` | three agents, one of whom may leave and come back, two messages that may lapse; the bookkeeping may fail at any call | `NotesSpaced`, `HeldNoLongerThanLimited` |
| `wait_graph` | all 65536 graphs of four agents, groups of up to three put in order | `FindsMutualWaits`, `OrderIsACircle` |
| `explain_batches` | a run started every hour and one that overlaps it, two objects, one edit, a cap of two calls, two batches, one event | `OneLiveBatch`, `CountedOnce`, `AboutItsText`, `PaidIsOnRecord`, `CapKept`, `BatchesEnd` |
| `join_sessions` | two installers, two tabs, two pairing codes, two claims, one event | `TokenAsApproved`, `NothingLeftBehind`, `GuessesBounded`, `ReturnIsNoIntrusion`, the refinement `GrantsAsPromised` |
| `agent_control` | two controls one after the other, two calls, the daemon, one fault | `EffectiveMeansStopped`, `AcksKept`, `NoticeOnce` |
| `agent_evidence` | one control, one call, the daemon and a run with `--once`, one line of text, one fault | `TranscriptKept`, `ProofsGiven`, `StoppedIsShown`, `FlagFollows` |
| `organisations` | three accounts, two organisations, one project at a time (a remote below the login, or one without git), one link at a time and two in all | `OwnersRemain`, `NoRoleOutlives`, `RisesAreGranted`, `PrefixDecides` |

**Bounds.** *writer*: two of the three callers fill the operation limit, so the
third is refused; size 4 is over the byte limit, 2 + 2 does not fit and 1 + 2
does; two chunk appends make a group and its fallback; a count reaches its
limit after two hits. A fourth caller adds a longer line but no new
neighbourhood of calls. There is one key, so that a full batch refuses a second
one is left to the proofs. *channel*: with two messages one can be
passed over, stalled or claimed while the other moves a position past it; one
fault is enough for each of the failure paths and a hook, a channel and one
message for every race over a claim. In `channel_pull` two hook calls, which are
interchangeable (`HookSymmetry`), meet each other's lock, stale position and
claims while coord_inbox, with pages of one message, moves the cursor; a channel as a third poller would make the
run too large, and one beside a hook is `channel_push`. Faults are bounded by `MaxFaults`,
messages by `MaxMessages`. *wait cycles*: three agents have groups of two and
of three, so a group can grow, shrink and be taken over; three messages close
a circle of three, or a circle of two and, by a message to both others, one that
overlaps it. `Interval` is 2: with the instants 0 and 1 (`wait_cycles`) a notice
can be held back for one told earlier, and with a third instant (`wait_lapses`) one
held back is free again, the boundary of the comparison in `limited`. A message
lives to the end of its instant or longer than the run (`Lifetimes`). *wait
graph*: four agents are the smallest number with two groups
side by side and with a group that has no circle through all its members.
`MaxOrdered` is 3 there and 10 in the code, so that a group of four is too
large, and a group of three (with a circle or, when two wait on each other
through the third, without one) is put in order; longer walks are left to the
proof. *explain_batches*: two runs are enough for every overlap of two calls;
one event (crash, failed call, edit, explanation by an agent, retry) is enough for
each path of failure; two objects fill a batch and the cap, and a
second batch is where an object could wait twice. *join_sessions*: the lifetimes 1, 2, 3, 3, 5 keep the
code's order (`AuthTTL` 2 minutes, `ClaimTTL` 5, `ResumeTTL` 10, `SessionTTL` 15,
`MaxLifetime` 30) but for the two in the middle, which fall together, so that each
deadline can pass before and after what it is meant for;
two wrong confirmations end a session instead of three. *agent_control*: the
second control is where acknowledgements and announcements of the first could be
taken for its own; in `agent_evidence` the second reader and the line of text are
where numbers and positions could part. Both in one run do not fit. *organisations*: three
accounts let one act while another is the last owner and a third is raised;
the second organisation is where a project, a remote or a link may go. Two
projects side by side are left to the proofs: no transaction but leaving and
importing and the backfill touches two. A role given in a project is any but guest
(`GivenRoles`), which links give; that all are given is left to the proofs too. Symmetry (hooks, installers and tabs, accounts and
organisations, agents and messages) is used only where all properties are of
safety. No run turns the deadlock check off.

**Fairness.** `WF_vars(Work)`: the worker goroutine keeps running and a
transaction ends, in success or in error. In `CoordChannel`: a poll that has
started goes on (`Proceed`), each call ending by its timeout; the channel polls
again and again (`Run`'s ticker), hooks and coord_inbox run only when the agent
does something, so nothing is assumed of them; and the window of the budget
passes. In `ExplainBatches`: the hourly run goes on and is started again, also
after a crash, and batches grow old; the other run may stop anywhere. In
`AgentControl`: the channel syncs every two seconds, a hook that was started
runs to its end unless it dies, and the daemon sweeps every thirty seconds.
`JoinSessions` and `Organisations` state safety only: whether a person
decides is nobody's promise. Nothing is assumed of callers, posts, faults or
people anywhere.

## Disagreements of text and code

One is a run that TLC finds violated:

* `ReadableBehindCursor` (`channel_cursor`). `doc.go:95-98` of `claudechannel`
  says the shared cursor only moves to the first message the poller did not
  deliver, so that the rest stays readable for coord_inbox. The flag for that
  (`contiguous`) is local to a poll while the position is not: a plain message
  passed over in one poll is skipped by the cursor when a later poll delivers.

Others were met while modelling and are not runs:

* "What was not rendered must not count as read"
  (`mcpserver/coord.go:293-295`). A call of coord_inbox with an explicit `After`
  beyond the cursor moves the cursor past everything in between, which it did not
  render (no fault is needed; the comment at 251 explains only `After` 0). And
  when the cursor call takes effect but its reply is lost, the handler returns
  an error instead of the page, which counts as read. `NoWakeSkipped` names both
  (`InboxSkips`) and nothing else.
* "A claimed prefix decides alone" (`orgs.go:664-665`). The backfill
  (`orgs.go:214-222`) puts unclaimed remotes below a prefix that another
  organisation holds into the first one.
* coord_inbox reads the page, then the claims, then answers
  (`mcpserver/coord.go:263`); a message claimed in between is shown and pushed.
* A shortened message ends with the advice to read the rest with coord_inbox
  (`hookbudget/channel.go:65-66`), which hides it because it was claimed
  (`mcpserver/coord.go:277`).
* The comment at `waitNoteInterval` (`coordwait.go:50-52`) promises at most one
  notice per room and interval; the code and the comment at `coordwait.go:543`
  limit by set of members. `NotesSpaced` states the latter.
* `joinsession.go:712` says of a flow that is gone that no token was issued; it is
  also gone when a poll consumed it and the token is on its way. The
  comment at 744 puts `check` under the same lock, the code from 767 on does not.
* `explain/batch.go:239`, "nothing was accepted": not when only the reply was
  lost. `explain/batch.go:103-104`: the cap does not hold for overlapping runs.
* `roles.go:414-415` says that whoever loses a role has none in the project; in a
  shared project a member of the organisation keeps that of a member.
* `orgs.go:1170-1174` and `1191-1193` say that a link never leads to a lower
  role. `invitationCoverage` compares with the stored role only: a member who
  has its role in a shared project through the organisation, and accepts a link
  for guests, gets a stored row as a guest and falls.
* The comment at `store/pathactivity.go:109` calls a repeated upload idempotent by,
  among others, its time, but the collector stamps the time of each reading.

## Proofs

The theorems hold for every value of the constants that the named assumptions
allow (`WriterAssumption`, `ChannelAssumption`, `WaitAssumption`,
`GraphAssumption`, `ExplainAssumption`, `JoinAssumption`, `CollectorAssumption`,
`OrgAssumption`: in `WaitGraph` agents are numbers, since they are sorted,
limits are numbers, limits of capacity are positive, kinds of processes are apart,
what is counted is finite; `ClaimTTL <= ResumeTTL` and `SessionTTL <=
MaxLifetime` are the values of the code). None of the properties
is inductive alone; each argument below is the strengthening it needs. Those of
`WaitGraph`, `ExplainBatches`, `JoinSessions` and `Organisations` were checked by
TLC on small instances before they were proved.

*Writer.* `Inv` adds to `TypeOK` that
the line holds no caller twice and no caller that has an answer (`OnePlace`),
what the verdicts and commits of the group are in each phase (`Progress`: the
head's is known from `complete` on, a group that is falling back has none behind
its head), and that hits and batch agree (`Agree`). `ToldWhatHappened` follows
because a caller's outcome comes from a verdict whose commit count
`Progress` fixes; `LoadAccounted` because `Pop` moves calls between the
two halves of the line. `WriterImplementsLine` maps the line to `group \o queue`:
`Pop` and `Complete` are stutters, `CommitGroup` is `Commit(1, Len(group))`, a
single's commit is `Commit(1, 1)`.

*Channel.* `Inv` adds that a position in a page points at a message (`InRoom`),
what each stage knows of the claim (`Claimed`: a poller at `notify` has won a
claim that nobody has delivered), `Booked` (reservations cover what was charged,
the one in hand included, and exactly that while there was no fault) and `Custody` (what one poller has claimed and not
delivered no other poller has, and it was never pushed). `AtMostOnceDelivery`
follows from `Custody`: the only steps that push are `Notify` and `FinishHook`,
and they push what is in hand. `NoWakeSkipped` is shown step by step: the
steps that move a position or the cursor move it by one message, which was not one
that wakes (`PassOver`) or is claimed (`LoseClaim`, `Settle` by `Claimed`), or to a
position reached before (`Settle`, `FinishHook`, `StartPoll`), or are coord_inbox. `CursorMonotone` is a property of each step that writes the cursor.

*Wait cycles.* All of it rests on one lemma,
`ReconciledSound`: a register that is `Sound` is sound after a comparison with
any family of disjoint sets, whatever became of the waits in between. `Sound`
adds to the properties that no notice and no row is younger than the last
comparison (`Past`), without which `HeldForItsOwnNotice` and `ToldSinceFormed`
would not survive a comparison: a row that is taken over inherits its time, and
that time must not lie after the notice it relies on. That the mutual waits of
a graph are disjoint is `GroupsApart`, from the transitivity of `Reaches`.
Because `Sound` is about the register alone, leaving, joining, expiry and a
failed bookkeeping need no argument of their own. `ClosedCircleNoticed` is about
a step and needs `MoreWaits`: adding waits only makes groups grow, so a group
that is new after a message has no told row to hide behind, given that the
register was compared just before.

*Search for mutual waits.* `SearchFindsMutualWaits` is the partial correctness of
Tarjan's algorithm. `SearchInv` says that agents are numbered in the order they
are entered and that calls and stack rise with these numbers (`Numbered`,
`Placed`), what each loop has looked at (`Looks`), that what has left the stack
waits only on what has left it (`Closed`), that an agent on the stack reaches
everything above it (`Rises`) and some call in progress at or below it (`Sinks`),
and of the low number of a call that it is the index of an agent on the stack
that is reached (`Lowest`), as low as any wait looked at by this call or
the ones it made (`LowEnough`). When a call ends with low = index the part of the
stack from it on therefore waits on nothing below it and is a whole group
(`PartIsGroup`); when it ends otherwise, the part reaches the caller and its low
number is passed on (`LowPassedOn`). `Found` keeps what follows: the groups found are those of all that
have left the stack. When the search ends everybody with a wait has.
`OrdersAreCircles` needs of the backtracking that it misses nothing:
`NotMissed` says that every circle beginning with the least member follows the
path to some place and goes on to a member not yet tried there, so when all is
tried there is none. Starting with the least member is enough because a circle can
be turned (`Turned`), and members on the path need not be tried again
because a circle visits each once (`CircleOnce`). `WaitCycles` takes the mutual waits of
a graph from `MutualWaits`; that the code's search computes them is this theorem.

*Explanation batches.* `Inv` is `TypeOK`, `RowsFree` (a row not yet used has no
items and nothing at the provider), `RunsSound` (what each run knows of the row
it works on, by the call it stands at), `Apart` (two runs are not sending the
same row), and the three properties `OneLiveBatch`, `AboutItsText` and
`PaidIsOnRecord`. `CountedOnce` is inductive given `Inv`:
`Discard` and `Book` move one entry from pending to answered and add one call
(`RunsSound` says that the answer in hand is of an entry of the row; an entry that
is no longer pending is not counted again), `LoseItem`, `Cool` and `Reserve` move none. `CapKept` needs
`CapInv`: of a run that is alone, the calls spent and waiting and those it still
plans are within the cap (`RoomLeft`). This load falls while nobody else
reserves: a call that waits becomes one that is spent, never a second one. That it does not fall through a batch which is no longer on record needs
`OpenIsSent` and `ReadsLive` (a batch that a run listed as open stays
open while entries of it wait), and the reading of what waits before what is spent
(`ReadWaiting` before `ReadUsage`) is what makes the sum an upper bound.

*Join sessions.* Every call works on the session as `purge` and `lapse` leave it,
so `Inv` is stated of any session, flows, history and installers and shown to
survive these two: `Sound` is `Together` (which flow and which code a session
of each state has), `Chosen` (at most one claim of a code was approved, and then the code is used) and `Guessed`
(wrong confirmations are counted in the session at hand), beside `Granted`
(a token in an installer's hand is of its claim) and `TokenAsApproved`.
`ReturnIsNoIntrusion` is about two things that run down side by side, the claim
on the server and the file of the installer: `CallerHolds` says that the
only caller so far holds the resume token of the claim for as long as that claim
waits, `WaitsWithFile` that it waits as long; both rest on `ClaimTTL <= ResumeTTL`.
`PairingKeepsItsPromise` reads the fate of a request off the state: it waits while
the session shows it (`Waits`), and is approved while a flow, a code or an
installer can still lead to its token (`Grantable`). Approving, claiming, making
and revoking a token are the steps of `PairingGrants` of those names; of all
others it is shown that they open nothing (`OpensNothingBy`: no session
begins to show a request, no flow or code appears, and whoever is granted
something had it from one), so they close requests or change nothing. It
needs two facts more than `Inv`: a request is not both waiting and approved
(`WaitingApart`), and `GivenOnce`, that what an installer waits for or was granted
has no token yet and is no other installer's, without which a
token could be made a second time.

*Collector and agent control.* `CollectorInv` says that every row of the archive
has its line's number (`Numbered`), that what lies before a position, saved or in
use, is archived and its proofs are given (`Done`), and which of a batch in hand
is sent already (`InHand`); its lemmas count lines (`Filled`). `ControlInv` adds `Named` (a call names a
control that was requested), `Truthful` (evidence, file and transcript say what
happened), `Round` (where the channel stands: a round that found no control
active may clear the acknowledgements, because no file and no call names an
active one, `NoneNamed`), `Announced` and `Kept`, which is `AcksKept` with the
file taken apart.

*Organisations.* `Inv` is `TypeOK`, `OwnersRemain`, `NoRoleOutlives`, `Founded`
(members, projects and a source are those of organisations that exist) and
`PrefixProven` (who holds the prefix has the source that proves it). The twenty
transactions are sorted once, by what they change (`StepKinds`: somebody enlists,
projects are placed, moved, a role is granted, a source is connected, or nothing of
this), so that each part of `Inv` has an argument for each sort. `OwnersRemain`:
`SetOrgRole` and `RemoveOrgMember` find another owner by counting (`OtherOwner`),
and accepting a link never lowers an owner. `NoRoleOutlives`: leaving and moving
drop roles, and a grant is to a member. The backfill is of two sorts at once (it
enlists and places) and has an argument of its own (`BackfillFills`). `PrefixDecides`: all ways by which
projects are brought in settle them in one existing organisation
(`PlacesSettle`), and importing from a source settles them with the holder because of
`PrefixProven`. `RisesAreGranted` compares ranks before and after each step
(`RankIs`, `RankBounds`, `SameRank`): enlisting raises nobody by an old role, because
`NoRoleOutlives`; founding an organisation raises nobody, because by `Founded` it
has no projects; a link gives member at most, and its issuer is an owner of the
project's organisation when it is accepted.

Proved and in no run, since they are parts of the invariants above or follow from
them: `GroupsAreChunks`, `DrainedWhenStopped`, `LockHeld`, `CursorMonotone`,
`RowsApart`, `OneTokenPerCode` (which `GrantsAsPromised` says more of), and the types of every module but the writer.

Only model-checked: liveness (`CloseReturns`, `EveryWakeArrives`, `BatchesEnd`,
`StoppedIsShown`, `FlagFollows` and the fairness part of `LineSpec`), because the
proof system does not reach fairness here. That the search of `WaitGraph` ends
is not stated either: `Spec` has no fairness. The sum of the
sizes in the line (`bytes`), which would need an induction the provers cannot do,
is not stated: `LoadAccounted` relates the operations to the line and bounds both
counters.

## Plan

1. *done* `CommitQueue`, `RuntimeWriter`, proofs. Everything else rests on it.
2. *done* `AtMostOnce`, `CoordChannel`, proofs.
3. *done* `MutualWaits`, `WaitCycles`, `WaitGraph`, proofs.
4. *done* `ExplainBatches`, proofs.
5. *done* `JoinSessions`, proofs.
6. *done* `Collector`, `AgentControl`, proofs.
7. *done* `Organisations`, proofs.
8. *done* `PairingGrants`, the abstract specification of a pairing, and its
   refinement. *to do* One for `ExplainBatches`: an object is free, waiting
   or explained.
9. Documents (compare and set: no lost revision, no number twice), the request
   ledger and human tasks: abstract state machines and the calls that implement them.
10. The loop guard and the send limit of `ctx channel`; the delivery to Codex
    (`coordDeliver`) as a third deliverer, without a claim.

## Not modelled

Search, ranking, rendering, the web pages, installers, external services and
benchmarks: they are sequential, pure or outside this repository. Of access
control, who has which role is modelled (`Organisations`), what a role lets one
read is a pure decision and is not. `PROJECT.json` gives the reason for each part.
