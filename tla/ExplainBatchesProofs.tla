------------------------ MODULE ExplainBatchesProofs ------------------------
(***************************************************************************)
(* Theorems about ExplainBatches, for any number of runs, objects, batches *)
(* and events.                                                             *)
(***************************************************************************)
EXTENDS ExplainBatches, FiniteSetTheorems, TLAPS

\* A nonempty set of natural numbers has a least element: the oldest batch.
LEMMA LeastExists ==
    ASSUME NEW T \in SUBSET Nat, T # {}
    PROVE  \E n \in T : \A y \in T : n <= y
<1> DEFINE F == {0..n : n \in T}
<1>1. F \subseteq FiniteSubsetsOf(Nat) /\ F # {}
  <2>1. \A n \in T : IsFiniteSet(0..n)
    BY FS_Interval
  <2>2. ASSUME NEW n \in T PROVE 0..n \in FiniteSubsetsOf(Nat)
    <3>1. 0..n \subseteq Nat
      OBVIOUS
    <3>. QED
      BY <3>1, <2>1 DEF FiniteSubsetsOf
  <2>. QED
    BY <2>2
<1>2. \E X \in F : \A Y \in F : ~(<<Y, X>> \in StrictSubsetOrdering(Nat))
  <2>1. IsWellFoundedOn(StrictSubsetOrdering(Nat), FiniteSubsetsOf(Nat))
    BY FS_StrictSubsetOrderingWellFounded, Zenon
  <2>. HIDE DEF F
  <2>. QED
    BY <1>1, <2>1, WFMin
<1>3. PICK n \in T : \A y \in T : ~(<<0..y, 0..n>> \in StrictSubsetOrdering(Nat))
  BY <1>2
<1>4. ASSUME NEW y \in T, y < n PROVE FALSE
  <2>1. 0..y \subseteq 0..n /\ n \notin 0..y /\ n \in 0..n
    BY <1>4
  <2>2. 0..y \subseteq Nat /\ 0..n \subseteq Nat
    OBVIOUS
  <2>. QED
    BY <2>1, <2>2, <1>3 DEF StrictSubsetOrdering
<1>5. \A y \in T : n <= y
  BY <1>4
<1>. QED
  BY <1>5

-----------------------------------------------------------------------------
(* The invariant *)

\* A row nobody reserved has no entries and is not at the provider.
RowsFree == \A b \in Ids : batch[b].state = "free" => batch[b] = FreeRow /\ remote[b] = "none"

Waits(row) == {i \in Items : row.item[i] = "pending"}

Sending == {"send", "refused", "record"}
Reading == {"finish", "save", "book", "giveup"}

\* What a run in state s may rely on, with the rows bt and the batches rm: the
\* batches it listed or has in hand were reserved, it has all waiting entries
\* of a batch that it reads, and the reservation it sends is young and still
\* there unless its row says otherwise.
Sound(s, bt, rm) ==
    /\ \A t \in s.todo :
          /\ bt[t[1]].state # "free"
          /\ t[2] = "open" => bt[t[1]].state # "submitting"
          /\ t[2] = "submitting" /\ bt[t[1]].state = "open" /\ ~bt[t[1]].harmed => bt[t[1]].age = 0
    /\ s.pc \in Reading \union Sending => s.cur \in Ids /\ bt[s.cur].state # "free"
    /\ s.pc \in Reading => bt[s.cur].state # "submitting" /\ Waits(bt[s.cur]) \subseteq s.left
    /\ s.pc \in {"save", "book"} => s.item \in Items
    /\ s.pc = "save" => s.item[2] = s.src
    /\ s.pc = "usage" => s.room <= Cap
    /\ s.pc \in {"send", "record"} /\ ~bt[s.cur].harmed =>
          bt[s.cur].state = "submitting" /\ bt[s.cur].age = 0
    /\ s.pc \in {"send", "refused"} => rm[s.cur] = "none" \/ bt[s.cur].harmed

RunsSound == \A r \in Runs : Sound(run[r], batch, remote)

\* No two runs send the same batch.
Apart ==
    \A q, r \in Runs : q # r /\ run[q].pc \in Sending /\ run[r].pc \in Sending => run[q].cur # run[r].cur

Inv ==
    /\ TypeOK /\ RowsFree /\ RunsSound /\ Apart
    /\ OneLiveBatch /\ AboutItsText /\ PaidIsOnRecord

\* A step from one row to another that frees and reserves nothing.
Onward(old, new) ==
    /\ old.state = "free" <=> new.state = "free"
    /\ new.state = "free" => new = old
    /\ Waits(new) \subseteq Waits(old)
    /\ new.state \in {"submitting", "open"} => old.state \in {"submitting", "open"}
    /\ new.state = "submitting" => old.state = "submitting"
    /\ old.harmed => new.harmed

LEMMA SoundLasts ==
    ASSUME NEW s \in RunStates, NEW bt, NEW bt2, NEW rm, NEW rm2, Sound(s, bt, rm),
           \A b \in Ids : Onward(bt[b], bt2[b]),
           \A b \in Ids : s.pc \in {"send", "record"} /\ s.cur = b /\ ~bt2[b].harmed =>
                bt2[b].state = "submitting" /\ bt2[b].age = 0,
           \A b \in Ids : <<b, "submitting">> \in s.todo /\ bt2[b].state = "open" /\ ~bt2[b].harmed =>
                bt2[b].age = 0,
           \A b \in Ids : s.pc \in {"send", "refused"} /\ s.cur = b => (rm[b] = "none" => rm2[b] = "none") \/ bt2[b].harmed
    PROVE  Sound(s, bt2, rm2)
<1>1. \A t \in s.todo : t[1] \in Ids /\ t = <<t[1], t[2]>> /\ t[2] \in {"submitting", "open"}
  BY DEF RunStates
<1>2. ASSUME NEW t \in s.todo
      PROVE  /\ bt2[t[1]].state # "free"
             /\ t[2] = "open" => bt2[t[1]].state # "submitting"
             /\ t[2] = "submitting" /\ bt2[t[1]].state = "open" /\ ~bt2[t[1]].harmed =>
                    bt2[t[1]].age = 0
  BY <1>1 DEF Sound, Onward
<1>3. ASSUME s.pc \in Reading \union Sending
      PROVE  s.cur \in Ids /\ bt2[s.cur].state # "free"
  BY <1>3 DEF Sound, Onward
<1>4. ASSUME s.pc \in Reading
      PROVE  bt2[s.cur].state # "submitting" /\ Waits(bt2[s.cur]) \subseteq s.left
  BY <1>3, <1>4 DEF Sound, Onward
<1>5. ASSUME s.pc \in {"send", "record"}, ~bt2[s.cur].harmed
      PROVE  bt2[s.cur].state = "submitting" /\ bt2[s.cur].age = 0
  BY <1>3, <1>5 DEF Sending
<1>6. ASSUME s.pc \in {"send", "refused"} PROVE rm2[s.cur] = "none" \/ bt2[s.cur].harmed
  BY <1>3, <1>6 DEF Sending, Sound, Onward
<1>7. /\ s.pc \in {"save", "book"} => s.item \in Items
      /\ s.pc = "save" => s.item[2] = s.src
      /\ s.pc = "usage" => s.room <= Cap
  BY DEF Sound
<1>. QED
  BY <1>2, <1>3, <1>4, <1>5, <1>6, <1>7 DEF Sound

\* A step that reserves nothing.
LEMMA Moves ==
    ASSUME Inv, TypeOK', AboutItsText', PaidIsOnRecord',
           \A b \in Ids : Onward(batch[b], batch'[b]),
           \A b \in Ids : batch[b].state = "free" => remote'[b] = "none",
           \A q \in Runs : Sound(run'[q], batch', remote'),
           \A q \in Runs : run'[q].pc \in Sending => run[q].pc \in Sending /\ run'[q].cur = run[q].cur
    PROVE  Inv'
<1>1. RowsFree'
  BY DEF Inv, RowsFree, Onward
<1>2. Apart'
  BY DEF Inv, Apart
<1>3. OneLiveBatch'
  <2>. SUFFICES ASSUME NEW b \in Ids, NEW c \in Ids, Live(b)', Live(c)', b # c
                PROVE  PendingIn(b)' \intersect PendingIn(c)' = {}
    BY DEF OneLiveBatch
  <2>1. Live(b) /\ Live(c)
    BY DEF Onward, Live
  <2>2. PendingIn(b) \intersect PendingIn(c) = {}
    BY <2>1 DEF Inv, OneLiveBatch
  <2>3. PendingIn(b)' \subseteq PendingIn(b) /\ PendingIn(c)' \subseteq PendingIn(c)
    BY DEF Onward, Waits, PendingIn
  <2>. QED
    BY <2>2, <2>3
<1>. QED
  BY <1>1, <1>2, <1>3 DEF Inv, RunsSound

\* A row goes on as it is.
LEMMA SameRow == ASSUME NEW row PROVE Onward(row, row)
BY DEF Onward

\* A step of the run r to the state s that leaves the rows alone.
LEMMA RunAlone ==
    ASSUME Inv, NEW r \in Runs, NEW s \in RunStates, run' = [run EXCEPT ![r] = s], batch' = batch,
           s.pc = "scan" => s.room \in 1..Cap,
           remote' \in [Ids -> {"none", "accepted", "ended", "cancelled"}],
           \A b \in Ids : remote'[b] = "none" <=> remote[b] = "none",
           good' \in [Ids -> SUBSET Items], UNCHANGED <<text, calls, gen, agent>>,
           events' \in 0..MaxEvents, expl' \in [Objects -> Explanations], AboutItsText',
           Sound(s, batch, remote),
           s.pc \in Sending => run[r].pc \in Sending /\ s.cur = run[r].cur,
           run[r].pc = "record" => batch[run[r].cur].harmed
    PROVE  Inv'
<1>0. /\ TypeOK /\ RowsFree /\ RunsSound /\ PaidIsOnRecord /\ run \in [Runs -> RunStates]
  BY DEF Inv, TypeOK
<1>1. run'[r] = s /\ \A q \in Runs \ {r} : run'[q] = run[q]
  BY <1>0
<1>2. TypeOK'
  BY <1>0, <1>1 DEF TypeOK
<1>3. \A b \in Ids : Onward(batch[b], batch'[b])
  BY SameRow
<1>4. \A b \in Ids : batch[b].state = "free" => remote'[b] = "none"
  BY <1>0 DEF RowsFree
<1>5. ASSUME NEW q \in Runs PROVE Sound(run'[q], batch', remote')
  <2>1. run'[q] \in RunStates /\ Sound(run'[q], batch, remote)
    BY <1>0, <1>1 DEF RunsSound
  <2>. HIDE DEF Inv
  <2>2. /\ \A b \in Ids : run'[q].pc \in {"send", "record"} /\ run'[q].cur = b /\ ~batch'[b].harmed =>
                batch'[b].state = "submitting" /\ batch'[b].age = 0
        /\ \A b \in Ids : <<b, "submitting">> \in run'[q].todo /\ batch'[b].state = "open"
                /\ ~batch'[b].harmed => batch'[b].age = 0
    BY <2>1 DEF Sound
  <2>. QED
    BY <2>1, <2>2, <1>3, SoundLasts
<1>6. \A q \in Runs : run'[q].pc \in Sending => run[q].pc \in Sending /\ run'[q].cur = run[q].cur
  BY <1>1
<1>7. PaidIsOnRecord'
  <2>. SUFFICES ASSUME NEW b \in Ids, remote'[b] # "none", PendingIn(b)' # {}, ~batch[b].harmed
                PROVE  \/ batch[b].state = "open"
                       \/ /\ batch[b].state = "submitting"
                          /\ \E q \in Runs : run'[q].pc = "record" /\ run'[q].cur = b
    BY DEF PaidIsOnRecord
  <2>1. remote[b] # "none" /\ PendingIn(b) # {}
    BY DEF PendingIn
  <2>2. CASE batch[b].state = "submitting" /\ \E q \in Runs : run[q].pc = "record" /\ run[q].cur = b
    <3>1. PICK q \in Runs : run[q].pc = "record" /\ run[q].cur = b
      BY <2>2
    <3>2. q # r
      BY <3>1
    <3>. QED
      BY <1>1, <2>2, <3>1, <3>2
  <2>. QED
    BY <1>0, <2>1, <2>2 DEF PaidIsOnRecord
<1>. QED
  BY <1>2, <1>3, <1>4, <1>5, <1>6, <1>7, Moves

\* What a step that puts row into the row b owes to a run q that does not move ...
Bystander(q, b, row) ==
    /\ run'[q] = run[q]
    /\ run[q].pc \in {"send", "record"} /\ run[q].cur = b /\ ~row.harmed =>
           row.state = "submitting" /\ row.age = 0
    /\ <<b, "submitting">> \in run[q].todo /\ row.state = "open" /\ ~row.harmed => row.age = 0
    /\ run[q].pc \in {"send", "refused"} /\ run[q].cur = b => remote'[b] = remote[b] \/ row.harmed

\* ... and to one that does.
Acting(q, b) ==
    /\ Sound(run'[q], batch', remote')
    /\ run'[q].pc \in Sending => run[q].pc \in Sending /\ run'[q].cur = run[q].cur
    /\ run[q].pc = "record" => run[q].cur = b

\* A batch that the service has taken stays on record.
OnRecord(b, row) ==
    remote'[b] # "none" /\ Waits(row) # {} /\ ~row.harmed =>
        \/ row.state = "open"
        \/ row.state = "submitting" /\ \E q \in Runs : run'[q].pc = "record" /\ run'[q].cur = b

\* A step that changes the row b and, when it has one, the state of a run.
LEMMA RowAlone ==
    ASSUME Inv, NEW b \in Ids, NEW row \in Rows, batch' = [batch EXCEPT ![b] = row],
           Onward(batch[b], row), batch[b].state # "free",
           run' \in [Runs -> RunStates], \A q \in Runs : run'[q].pc = "scan" => run'[q].room \in 1..Cap,
           remote' \in [Ids -> {"none", "accepted", "ended", "cancelled"}],
           \A c \in Ids \ {b} : remote'[c] = remote[c], remote[b] # "none" => remote'[b] # "none",
           UNCHANGED <<text, expl, good, gen, agent>>, calls' \in [batched : Nat, single : Nat],
           events' \in 0..MaxEvents,
           \A q \in Runs : Bystander(q, b, row) \/ Acting(q, b), OnRecord(b, row)
    PROVE  Inv'
<1>0. /\ TypeOK /\ RowsFree /\ RunsSound /\ PaidIsOnRecord /\ AboutItsText
      /\ run \in [Runs -> RunStates] /\ batch \in [Ids -> Rows]
  BY DEF Inv, TypeOK
<1>1. batch'[b] = row /\ \A c \in Ids \ {b} : batch'[c] = batch[c]
  BY <1>0
<1>2. TypeOK'
  BY <1>0 DEF TypeOK
<1>3. \A c \in Ids : Onward(batch[c], batch'[c])
  BY <1>1, SameRow
<1>4. \A c \in Ids : batch[c].state = "free" => remote'[c] = "none"
  BY <1>0 DEF RowsFree
<1>5. ASSUME NEW q \in Runs PROVE Sound(run'[q], batch', remote')
  <2>1. CASE Acting(q, b)
    BY <2>1 DEF Acting
  <2>2. CASE Bystander(q, b, row)
    <3>1. /\ run'[q] = run[q]
          /\ run[q].pc \in {"send", "record"} /\ run[q].cur = b /\ ~row.harmed =>
                 row.state = "submitting" /\ row.age = 0
          /\ <<b, "submitting">> \in run[q].todo /\ row.state = "open" /\ ~row.harmed => row.age = 0
          /\ run[q].pc \in {"send", "refused"} /\ run[q].cur = b =>
                 remote'[b] = remote[b] \/ row.harmed
      BY <2>2 DEF Bystander
    <3>2. run[q] \in RunStates /\ Sound(run[q], batch, remote)
      BY <1>0 DEF RunsSound
    <3>3. \A c \in Ids : run[q].pc \in {"send", "record"} /\ run[q].cur = c /\ ~batch'[c].harmed =>
                batch'[c].state = "submitting" /\ batch'[c].age = 0
      BY <1>1, <3>1, <3>2 DEF Sound
    <3>4. \A c \in Ids : <<c, "submitting">> \in run[q].todo /\ batch'[c].state = "open"
                /\ ~batch'[c].harmed => batch'[c].age = 0
      <4>. SUFFICES ASSUME NEW c \in Ids, <<c, "submitting">> \in run[q].todo, batch'[c].state = "open",
                           ~batch'[c].harmed
                    PROVE  batch'[c].age = 0
        OBVIOUS
      <4>1. CASE c = b
        BY <1>1, <3>1, <4>1
      <4>2. CASE c # b
        BY <1>1, <3>2, <4>2 DEF Sound
      <4>. QED
        BY <4>1, <4>2
    <3>5. \A c \in Ids : run[q].pc \in {"send", "refused"} /\ run[q].cur = c =>
                (remote[c] = "none" => remote'[c] = "none") \/ batch'[c].harmed
      BY <1>1, <3>1
    <3>6. Sound(run[q], batch', remote')
      <4>. HIDE DEF Inv
      <4>. QED
        BY <1>3, <3>2, <3>3, <3>4, <3>5, SoundLasts, ZenonT(60)
    <3>. QED
      BY <3>1, <3>6
  <2>. QED
    BY <2>1, <2>2
<1>6. \A q \in Runs : run'[q].pc \in Sending => run[q].pc \in Sending /\ run'[q].cur = run[q].cur
  BY DEF Bystander, Acting
<1>7. PaidIsOnRecord'
  <2>. SUFFICES ASSUME NEW c \in Ids, remote'[c] # "none", PendingIn(c)' # {}, ~batch'[c].harmed
                PROVE  \/ batch'[c].state = "open"
                       \/ /\ batch'[c].state = "submitting"
                          /\ \E q \in Runs : run'[q].pc = "record" /\ run'[q].cur = c
    BY DEF PaidIsOnRecord
  <2>1. CASE c = b
    <3>1. Waits(row) # {}
      BY <1>1, <2>1 DEF PendingIn, Waits
    <3>. QED
      BY <1>1, <2>1, <3>1 DEF OnRecord
  <2>2. CASE c # b
    <3>1. batch'[c] = batch[c] /\ remote[c] # "none" /\ PendingIn(c) # {}
      BY <1>1, <2>2 DEF PendingIn
    <3>2. \A q \in Runs : run[q].pc = "record" /\ run[q].cur = c => run'[q] = run[q]
      BY <2>2 DEF Bystander, Acting
    <3>. QED
      BY <1>0, <3>1, <3>2 DEF PaidIsOnRecord
  <2>. QED
    BY <2>1, <2>2
<1>8. AboutItsText'
  BY <1>0 DEF AboutItsText
<1>. QED
  BY <1>2, <1>3, <1>4, <1>5, <1>6, <1>7, <1>8, Moves

LEMMA Counted ==
    /\ IsFiniteSet(Ids \X Items) /\ Ids \subseteq Nat
    /\ \A S \in SUBSET (Ids \X Items) : IsFiniteSet(S) /\ Cardinality(S) \in Nat
<1>1. IsFiniteSet(Ids) /\ IsFiniteSet(Hashes) /\ IsFiniteSet(Objects)
  BY ExplainAssumption, FS_Interval DEF Ids, Hashes
<1>2. IsFiniteSet(Ids \X Items)
  BY <1>1, FS_Product DEF Items
<1>3. \A S \in SUBSET (Ids \X Items) : IsFiniteSet(S) /\ Cardinality(S) \in Nat
  BY <1>2, FS_Subset, FS_CardinalityType
<1>. QED
  BY <1>2, <1>3, ExplainAssumption DEF Ids

LEMMA OldestListed ==
    ASSUME Inv, NEW r \in Runs, Looking(r)
    PROVE  /\ Next1(r) \in run[r].todo /\ Next1(r)[1] \in Ids
           /\ Next1(r)[2] \in {"submitting", "open"} /\ Next1(r) = <<Next1(r)[1], Next1(r)[2]>>
           /\ batch[Next1(r)[1]].state # "free"
           /\ Next1(r)[2] = "open" => batch[Next1(r)[1]].state # "submitting"
<1> DEFINE T == {t[1] : t \in run[r].todo}
<1>1. /\ run[r].todo \subseteq Ids \X {"submitting", "open"} /\ run[r].todo # {}
      /\ Sound(run[r], batch, remote)
  BY DEF Inv, TypeOK, RunStates, Looking, RunsSound
<1>2. T \subseteq Nat /\ T # {}
  BY <1>1, Counted
<1>3. PICK n \in T : \A y \in T : n <= y
  <2>. HIDE DEF T
  <2>. QED
    BY <1>2, LeastExists
<1>4. PICK t \in run[r].todo : t[1] = n
  BY <1>3
<1>5. \A u \in run[r].todo : t[1] <= u[1]
  BY <1>3, <1>4
<1>6. Next1(r) \in run[r].todo
  BY <1>5 DEF Next1
<1>. QED
  BY <1>1, <1>6 DEF Sound

\* A run that is over relies on nothing.
LEMMA OverSound ==
    ASSUME NEW r, NEW bt, NEW rm
    PROVE  /\ Over(r) \in RunStates /\ Over(r).pc \in {"idle", "ended"} /\ Sound(Over(r), bt, rm)
<1>1. IdleRun \in RunStates /\ IdleRun.todo = {}
  <2>1. 0 \in Hashes /\ 0 \in 0..MaxBatches
    BY ExplainAssumption DEF Hashes
  <2>. QED
    BY <2>1 DEF IdleRun, RunStates
<1>2. /\ Over(r).pc \in {"idle", "ended"} /\ Over(r).todo = {} /\ Over(r) \in RunStates
  <2>1. CASE r \in Hourly
    BY <1>1, <2>1 DEF Over, RunStates
  <2>2. CASE r \notin Hourly
    BY <1>1, <2>2 DEF Over, RunStates
  <2>. QED
    BY <2>1, <2>2
<1>. QED
  BY <1>2 DEF Sound, Reading, Sending

LEMMA FurtherSound ==
    ASSUME Inv, NEW r \in Runs, NEW rest \in SUBSET Items
    PROVE  /\ Further(r, rest) \in RunStates /\ Further(r, rest).pc \in {"reserve", "idle", "ended"}
           /\ Further(r, rest).todo \subseteq run[r].todo
<1>1. run[r] \in RunStates /\ 0 \in 0..MaxBatches
  BY ExplainAssumption DEF Inv, TypeOK
<1>2. CASE rest = {}
  <2>1. Further(r, rest) = Over(r) /\ Over(r).todo = {}
    BY <1>2 DEF Further, Over, IdleRun
  <2>. QED
    BY <2>1, OverSound
<1>3. CASE rest # {}
  <2>1. Further(r, rest) = [run[r] EXCEPT !.pc = "reserve", !.cur = 0, !.left = rest]
    BY <1>3 DEF Further
  <2>. QED
    BY <1>1, <2>1 DEF RunStates
<1>. QED
  BY <1>2, <1>3

LEMMA EventCounted ==
    ASSUME events \in 0..MaxEvents, Happens \/ events' = events
    PROVE  events' \in 0..MaxEvents
BY ExplainAssumption DEF Happens

LEMMA CollectReads ==
    ASSUME Inv, NEW r \in Runs, List(r) \/ LeaveOpen(r) \/ Fetch(r) \/ GiveUp(r)
    PROVE  Inv'
<1>0. /\ run \in [Runs -> RunStates] /\ run[r] \in RunStates /\ batch \in [Ids -> Rows]
      /\ Sound(run[r], batch, remote) /\ AboutItsText
      /\ remote \in [Ids -> {"none", "accepted", "ended", "cancelled"}]
      /\ good \in [Ids -> SUBSET Items] /\ events \in 0..MaxEvents
      /\ expl \in [Objects -> Explanations]
  BY DEF Inv, TypeOK, RunsSound
<1>1. UNCHANGED <<text, expl, batch, calls, gen, agent, events>> /\ AboutItsText'
  BY <1>0 DEF List, LeaveOpen, Fetch, GiveUp, AboutItsText
<1>2. CASE List(r)
  <2> DEFINE todo == {<<b, batch[b].state>> : b \in {x \in Ids : Live(x)}}
             s == [run[r] EXCEPT !.pc = "collect", !.todo = todo]
  <2>1. todo \subseteq Ids \X {"submitting", "open"} /\ \A t \in todo : t[2] = batch[t[1]].state
    BY DEF Live
  <2>. HIDE DEF todo
  <2>2. s \in RunStates /\ s.pc = "collect" /\ s.todo = todo
    BY <1>0, <2>1 DEF RunStates
  <2>3. run' = [run EXCEPT ![r] = s] /\ run[r].pc = "idle" /\ UNCHANGED <<remote, good>>
    BY <1>0, <1>2 DEF List, todo
  <2>. HIDE DEF s
  <2>4. Sound(s, batch, remote)
    <3>1. \A t \in todo : t[2] \in {"submitting", "open"}
      BY <2>1
    <3>. QED
      BY <2>1, <2>2, <3>1 DEF Sound, Reading, Sending
  <2>. QED
    BY <1>0, <1>1, <2>2, <2>3, <2>4, RunAlone DEF Sending
<1>3. CASE LeaveOpen(r)
  <2> DEFINE s == [run[r] EXCEPT !.todo = @ \ {Next1(r)}]
  <2>1. s \in RunStates /\ s.pc = "collect" /\ s.todo \subseteq run[r].todo /\ run[r].pc = "collect"
    BY <1>0, <1>3 DEF RunStates, LeaveOpen, Looking
  <2>2. run' = [run EXCEPT ![r] = s] /\ UNCHANGED <<remote, good>>
    BY <1>0, <1>3 DEF LeaveOpen
  <2>. HIDE DEF s
  <2>3. Sound(s, batch, remote)
    BY <1>0, <2>1 DEF Sound, Reading, Sending
  <2>. QED
    BY <1>0, <1>1, <2>1, <2>2, <2>3, RunAlone DEF Sending
<1>4. ASSUME Fetch(r) \/ GiveUp(r) PROVE Inv'
  <2> DEFINE b == Next1(r)[1]
  <2>1. /\ b \in Ids /\ Looking(r) /\ Next1(r)[2] = "open" /\ batch[b].state # "free"
        /\ batch[b].state # "submitting"
    BY <1>4, OldestListed DEF Fetch, GiveUp
  <2>2. PICK pc \in {"finish", "giveup"} : run' = [run EXCEPT ![r].pc = pc,
                 ![r].todo = @ \ {Next1(r)}, ![r].cur = b, ![r].left = PendingIn(b)]
    BY <1>4 DEF Fetch, GiveUp
  <2>3. /\ remote' \in [Ids -> {"none", "accepted", "ended", "cancelled"}]
        /\ \A c \in Ids : remote'[c] = "none" <=> remote[c] = "none"
        /\ good' \in [Ids -> SUBSET Items]
    BY <1>0, <1>4, <2>1 DEF Fetch, GiveUp
  <2> DEFINE s == [run[r] EXCEPT !.pc = pc, !.todo = @ \ {Next1(r)}, !.cur = b, !.left = PendingIn(b)]
  <2>4. PendingIn(b) \subseteq Items /\ PendingIn(b) = Waits(batch[b]) /\ b \in 0..MaxBatches
    BY <2>1 DEF PendingIn, Waits, Ids
  <2>. HIDE DEF b
  <2>5. /\ s \in RunStates /\ s.pc = pc /\ s.todo \subseteq run[r].todo /\ s.cur = b
        /\ s.left = PendingIn(b) /\ run[r].pc = "collect"
    BY <1>0, <2>1, <2>4 DEF RunStates, Looking
  <2>6. run' = [run EXCEPT ![r] = s]
    BY <1>0, <2>2
  <2>. HIDE DEF s
  <2>7. Sound(s, batch, remote)
    BY <1>0, <2>1, <2>4, <2>5 DEF Sound, Reading, Sending
  <2>. QED
    BY <1>0, <1>1, <2>3, <2>5, <2>6, <2>7, RunAlone DEF Sending
<1>. QED
  BY <1>2, <1>3, <1>4

LEMMA ReadsOn ==
    ASSUME Inv, NEW r \in Runs,
           Judge(r) \/ Save(r) \/ ReadWaiting(r) \/ ReadUsage(r) \/ Scan(r) \/ NoRowLeft(r) \/ Refuse(r)
    PROVE  Inv'
<1>0. /\ run \in [Runs -> RunStates] /\ run[r] \in RunStates /\ batch \in [Ids -> Rows]
      /\ Sound(run[r], batch, remote) /\ AboutItsText /\ text \in [Objects -> Hashes]
      /\ remote \in [Ids -> {"none", "accepted", "ended", "cancelled"}]
      /\ good \in [Ids -> SUBSET Items] /\ events \in 0..MaxEvents
      /\ expl \in [Objects -> Explanations] /\ calls \in [batched : Nat, single : Nat]
      /\ run[r].pc = "scan" => run[r].room \in 1..Cap
  BY DEF Inv, TypeOK, RunsSound
<1>1. UNCHANGED <<text, batch, remote, good, calls, gen, agent>>
  BY DEF Judge, Save, ReadWaiting, ReadUsage, Scan, NoRowLeft, Refuse
<1>2. AboutItsText /\ UNCHANGED expl => AboutItsText' /\ expl' \in [Objects -> Explanations]
  BY <1>0 DEF AboutItsText
<1>3. events' \in 0..MaxEvents
  <2>1. Happens \/ events' = events
    BY DEF Judge, Save, ReadWaiting, ReadUsage, Scan, NoRowLeft, Refuse
  <2>. QED
    BY <1>0, <2>1, EventCounted
<1>4. CASE Judge(r)
  <2>1. PICK i \in run[r].left :
            /\ Judged(run[r].cur, i) = "saved"
            /\ run' = [run EXCEPT ![r].pc = "save", ![r].item = i, ![r].src = text[i[1]]]
    BY <1>4 DEF Judge
  <2>2. run[r].pc = "finish" /\ UNCHANGED expl
    BY <1>4 DEF Judge
  <2>3. i \in Items /\ i[1] \in Objects /\ text[i[1]] \in Hashes /\ i = <<i[1], i[2]>>
    BY <1>0, <2>1 DEF RunStates, Items
  <2>4. text[i[1]] = i[2]
    BY <2>1, <2>3 DEF Judged, Current
  <2> DEFINE s == [run[r] EXCEPT !.pc = "save", !.item = i, !.src = text[i[1]]]
  <2>5. /\ s \in RunStates /\ s.pc = "save" /\ s.todo = run[r].todo /\ s.cur = run[r].cur
        /\ s.left = run[r].left /\ s.item = i /\ s.src = text[i[1]]
    BY <1>0, <2>3 DEF RunStates
  <2>6. run' = [run EXCEPT ![r] = s]
    BY <1>0, <2>1
  <2>. HIDE DEF s
  <2>7. Sound(s, batch, remote)
    BY <1>0, <2>2, <2>3, <2>4, <2>5 DEF Sound, Reading, Sending
  <2>. QED
    BY <1>0, <1>1, <1>2, <1>3, <2>2, <2>5, <2>6, <2>7, RunAlone DEF Sending
<1>5. CASE Save(r)
  <2>1. /\ run[r].pc = "save" /\ run[r].item \in Items /\ run[r].item[2] = run[r].src
    BY <1>0, <1>5 DEF Save, Sound
  <2>2. /\ run[r].item[1] \in Objects /\ run[r].item[2] \in Hashes /\ run[r].src \in Hashes
    BY <1>0, <2>1 DEF Items, RunStates
  <2> DEFINE e == [by |-> "generated", hash |-> run[r].src, about |-> run[r].item[2]]
             s == [run[r] EXCEPT !.pc = "book"]
  <2>3. e \in Explanations /\ e.about = e.hash
    BY <2>1, <2>2 DEF Explanations
  <2>4. expl' = [expl EXCEPT ![run[r].item[1]] = e]
    BY <1>5 DEF Save
  <2>. HIDE DEF e
  <2>5. expl' \in [Objects -> Explanations] /\ AboutItsText'
    BY <1>0, <2>2, <2>3, <2>4 DEF AboutItsText
  <2>6. /\ s \in RunStates /\ s.pc = "book" /\ s.todo = run[r].todo /\ s.cur = run[r].cur
        /\ s.left = run[r].left /\ s.item = run[r].item /\ s.src = run[r].src
    BY <1>0 DEF RunStates
  <2>7. run' = [run EXCEPT ![r] = s]
    BY <1>0, <1>5 DEF Save
  <2>. HIDE DEF s
  <2>8. Sound(s, batch, remote)
    BY <1>0, <2>1, <2>6 DEF Sound, Reading, Sending
  <2>. QED
    BY <1>0, <1>1, <1>3, <2>1, <2>5, <2>6, <2>7, <2>8, RunAlone DEF Sending
<1>6. CASE ReadWaiting(r)
  <2> DEFINE room == Cap - Waiting
             alone == gen = NoItem
             s == [run[r] EXCEPT !.pc = "usage", !.room = room, !.alone = alone]
  <2>1. room \in Int /\ alone \in BOOLEAN /\ room <= Cap
    BY Counted, ExplainAssumption DEF Waiting
  <2>2. run' = [run EXCEPT ![r] = s] /\ run[r].pc = "collect" /\ UNCHANGED expl
    BY <1>0, <1>6 DEF ReadWaiting
  <2>. HIDE DEF room, alone
  <2>3. s \in RunStates /\ s.pc = "usage" /\ s.todo = run[r].todo /\ s.room = room
    BY <1>0, <2>1 DEF RunStates
  <2>. HIDE DEF s
  <2>4. Sound(s, batch, remote)
    BY <1>0, <2>1, <2>3 DEF Sound, Reading, Sending
  <2>. QED
    BY <1>0, <1>1, <1>2, <1>3, <2>2, <2>3, <2>4, RunAlone DEF Sending
<1>7. CASE ReadUsage(r)
  <2> DEFINE room == run[r].room - Used
             s == [run[r] EXCEPT !.pc = "scan", !.room = room, !.left = Blocked]
  <2>1. room \in Int /\ Used \in Nat /\ Blocked \subseteq Items
    BY <1>0 DEF RunStates, Used, Blocked
  <2>2. run[r].pc = "usage" /\ UNCHANGED expl
    BY <1>7 DEF ReadUsage
  <2>3. CASE room <= 0
    <3>1. run' = [run EXCEPT ![r] = Over(r)]
      BY <1>7, <2>3 DEF ReadUsage
    <3>. QED
      BY <1>0, <1>1, <1>2, <1>3, <2>2, <3>1, OverSound, RunAlone DEF Sending
  <2>4. CASE ~(room <= 0)
    <3>1. room \in 1..Cap
      <4>1. room >= 1
        BY <2>1, <2>4
      <4>2. run[r].room <= Cap /\ run[r].room \in Int /\ Cap \in Nat
        BY <1>0, <2>2, ExplainAssumption DEF Sound, RunStates
      <4>3. room <= Cap
        BY <2>1, <4>2
      <4>. HIDE DEF room
      <4>. QED
        BY <2>1, <4>1, <4>2, <4>3
    <3>3. run' = [run EXCEPT ![r] = s]
      <4>1. run' = [run EXCEPT ![r] = IF room <= 0 THEN Over(r)
                                      ELSE [run[r] EXCEPT !.pc = "scan", !.room = room, !.left = Blocked]]
        BY <1>7 DEF ReadUsage
      <4>. HIDE DEF room
      <4>. QED
        BY <2>4, <4>1
    <3>. HIDE DEF room
    <3>2. s \in RunStates /\ s.pc = "scan" /\ s.todo = run[r].todo /\ s.room = room
      BY <1>0, <2>1 DEF RunStates
    <3>. HIDE DEF s
    <3>4. Sound(s, batch, remote)
      BY <1>0, <3>2 DEF Sound, Reading, Sending
    <3>. QED
      BY <1>0, <1>1, <1>2, <1>3, <2>2, <3>1, <3>2, <3>3, <3>4, RunAlone DEF Sending
  <2>. QED
    BY <2>3, <2>4
<1>8. CASE Scan(r)
  <2>1. run[r].pc = "scan" /\ UNCHANGED expl
    BY <1>8 DEF Scan
  <2>2. CASE run' = [run EXCEPT ![r] = Over(r)]
    BY <1>0, <1>1, <1>2, <1>3, <2>1, <2>2, OverSound, RunAlone DEF Sending
  <2>3. CASE run' # [run EXCEPT ![r] = Over(r)]
    <3>1. PICK plan \in SUBSET Items :
              run' = [run EXCEPT ![r].pc = "reserve", ![r].left = plan, ![r].room = 0]
      <4>1. {Current(o) : o \in Objects} \subseteq Items
        BY <1>0 DEF Current, Items
      <4>. QED
        BY <1>8, <2>3, <4>1 DEF Scan, kSubset
    <3> DEFINE s == [run[r] EXCEPT !.pc = "reserve", !.left = plan, !.room = 0]
    <3>2. s \in RunStates /\ s.pc = "reserve" /\ s.todo = run[r].todo
      <4>1. run[r] \in RunStates /\ 0 \in Int
        BY <1>0
      <4>. QED
        BY <4>1, Zenon DEF RunStates
    <3>3. run' = [run EXCEPT ![r] = s]
      BY <1>0, <3>1
    <3>. HIDE DEF s
    <3>4. Sound(s, batch, remote)
      BY <1>0, <3>2 DEF Sound, Reading, Sending
    <3>. QED
      BY <1>0, <1>1, <1>2, <1>3, <2>1, <3>2, <3>3, <3>4, RunAlone DEF Sending
  <2>. QED
    BY <2>2, <2>3
<1>9. CASE NoRowLeft(r)
  <2>1. run[r].pc = "reserve" /\ UNCHANGED expl /\ run' = [run EXCEPT ![r] = Over(r)]
    BY <1>9 DEF NoRowLeft
  <2>. QED
    BY <1>0, <1>1, <1>2, <1>3, <2>1, OverSound, RunAlone DEF Sending
<1>10. CASE Refuse(r)
  <2> DEFINE s == [run[r] EXCEPT !.pc = "refused"]
  <2>1. /\ s \in RunStates /\ s.pc = "refused" /\ s.todo = run[r].todo /\ s.cur = run[r].cur
    BY <1>0 DEF RunStates
  <2>2. run' = [run EXCEPT ![r] = s] /\ run[r].pc = "send" /\ UNCHANGED expl
    BY <1>0, <1>10 DEF Refuse
  <2>. HIDE DEF s
  <2>3. Sound(s, batch, remote)
    BY <1>0, <2>1, <2>2 DEF Sound, Reading, Sending
  <2>. QED
    BY <1>0, <1>1, <1>2, <1>3, <2>1, <2>2, <2>3, RunAlone DEF Sending
<1>. QED
  BY <1>4, <1>5, <1>6, <1>7, <1>8, <1>9, <1>10

-----------------------------------------------------------------------------
(* Steps that change a row *)

\* The row of batch b once entry i does not wait any more.
Settled(b, i, row) ==
    /\ batch' = [batch EXCEPT ![b] = row] /\ Onward(batch[b], row)
    /\ row.state = batch[b].state /\ row.age = batch[b].age /\ row.harmed = batch[b].harmed
    /\ Waits(row) = Waits(batch[b]) \ {i}
    /\ calls' \in [batched : Nat, single : Nat]

\* FinishExplainBatchItem of an entry of a batch that a run has in hand.
LEMMA FinishedRow ==
    ASSUME Inv, NEW b \in Ids, NEW i \in Items, NEW state \in {"done", "failed", "lost"},
           batch[b].state \notin {"free", "submitting"},
           Finished(b, i, state, 0) \/ Finished(b, i, state, 1)
    PROVE  \E row \in Rows : Settled(b, i, row)
<1>0. batch \in [Ids -> Rows] /\ calls \in [batched : Nat, single : Nat] /\ batch[b] \in Rows
  BY DEF Inv, TypeOK
<1>1. CASE batch[b].item[i] = "pending"
  <2> DEFINE row == [batch[b] EXCEPT !.item[i] = state]
  <2>1. /\ row \in Rows /\ row.state = batch[b].state /\ row.age = batch[b].age
        /\ row.harmed = batch[b].harmed /\ row.item = [batch[b].item EXCEPT ![i] = state]
    BY <1>0 DEF Rows
  <2>2. batch' = [batch EXCEPT ![b] = row]
    BY <1>0, <1>1 DEF Finished
  <2>3. calls' \in [batched : Nat, single : Nat]
    BY <1>0, <1>1 DEF Finished
  <2>. HIDE DEF row
  <2>4. Waits(row) = Waits(batch[b]) \ {i}
    BY <1>0, <2>1 DEF Waits, Rows
  <2>5. Onward(batch[b], row)
    BY <2>1, <2>4 DEF Onward
  <2>. QED
    BY <2>1, <2>2, <2>3, <2>4, <2>5 DEF Settled
<1>2. CASE batch[b].item[i] # "pending"
  <2>1. batch' = [batch EXCEPT ![b] = batch[b]] /\ calls' = calls
    BY <1>0, <1>2 DEF Finished
  <2>2. Waits(batch[b]) = Waits(batch[b]) \ {i}
    BY <1>2 DEF Waits
  <2>. QED
    BY <1>0, <2>1, <2>2, SameRow DEF Settled
<1>. QED
  BY <1>1, <1>2

LEMMA FinishOne ==
    ASSUME Inv, NEW r \in Runs, NEW b \in Ids, b = run[r].cur, run[r].pc \in Reading,
           UNCHANGED <<text, expl, remote, good, gen, agent, events>>,
           NEW i \in Items, NEW state \in {"done", "failed", "lost"},
           Finished(b, i, state, 0) \/ Finished(b, i, state, 1),
           NEW s \in RunStates, run' = [run EXCEPT ![r] = s], s.pc \in {"finish", "giveup"},
           s.todo = run[r].todo, s.cur = b, s.left = run[r].left \ {i}
    PROVE  Inv'
<1>0. /\ run \in [Runs -> RunStates] /\ run[r] \in RunStates /\ batch \in [Ids -> Rows]
      /\ \A q \in Runs : Sound(run[q], batch, remote)
      /\ remote \in [Ids -> {"none", "accepted", "ended", "cancelled"}]
      /\ events \in 0..MaxEvents /\ PaidIsOnRecord
      /\ \A q \in Runs : run[q].pc = "scan" => run[q].room \in 1..Cap
  BY DEF Inv, TypeOK, RunsSound
<1>1. UNCHANGED <<text, expl, remote, good, gen, agent, events>>
  OBVIOUS
<1>2. batch[b].state \notin {"free", "submitting"} /\ Waits(batch[b]) \subseteq run[r].left
  BY <1>0 DEF Sound
<1>4. /\ run' = [run EXCEPT ![r] = s] /\ s.pc \in {"finish", "giveup"}
      /\ s.todo = run[r].todo /\ s.cur = b /\ s.left = run[r].left \ {i}
  OBVIOUS
<1>5. PICK row \in Rows :
              /\ batch' = [batch EXCEPT ![b] = row] /\ Onward(batch[b], row)
              /\ row.state = batch[b].state /\ row.age = batch[b].age /\ row.harmed = batch[b].harmed
              /\ Waits(row) = Waits(batch[b]) \ {i}
              /\ calls' \in [batched : Nat, single : Nat]
  <2>1. PICK row \in Rows : Settled(b, i, row)
    BY <1>2, FinishedRow
  <2>. QED
    BY <2>1 DEF Settled
<1>6. run'[r] = s /\ \A q \in Runs \ {r} : run'[q] = run[q]
  BY <1>0, <1>4
<1>7. batch'[b] = row /\ \A c \in Ids \ {b} : batch'[c] = batch[c]
  BY <1>0, <1>2, <1>5
<1>8. Sound(s, batch', remote')
  <2>1. \A t \in s.todo : t[1] \in Ids
    BY DEF RunStates
  <2>2. Sound(run[r], batch, remote) /\ s.pc \in Reading /\ s.pc \notin Sending
        /\ s.pc \notin {"save", "book", "usage", "send", "record", "refused"}
    BY <1>0, <1>4 DEF Reading, Sending
  <2>3. Waits(batch'[s.cur]) \subseteq s.left
    BY <1>2, <1>4, <1>5, <1>7
  <2>4. \A t \in s.todo : /\ batch'[t[1]].state = batch[t[1]].state
                          /\ batch'[t[1]].harmed = batch[t[1]].harmed
                          /\ batch'[t[1]].age = batch[t[1]].age
    BY <1>5, <1>7, <2>1
  <2>5. batch'[s.cur].state \notin {"free", "submitting"} /\ s.cur \in Ids
    BY <1>2, <1>4, <1>5, <1>7
  <2>. QED
    BY <1>4, <2>2, <2>3, <2>4, <2>5 DEF Sound
<1>9. ASSUME NEW q \in Runs, q # r
      PROVE  Bystander(q, b, row)
  <2>1. Sound(run[q], batch, remote)
    BY <1>0
  <2>2. <<b, "submitting">> \in run[q].todo /\ row.state = "open" /\ ~row.harmed => row.age = 0
    BY <1>5, <2>1 DEF Sound
  <2>3. run[q].pc \in {"send", "record"} /\ run[q].cur = b /\ ~row.harmed =>
                    row.state = "submitting" /\ row.age = 0
    BY <1>5, <2>1 DEF Sound
  <2>. QED
    BY <1>1, <1>6, <1>9, <2>2, <2>3 DEF Bystander
<1>10. OnRecord(b, row)
  <2>1. Waits(row) # {} => PendingIn(b) # {}
    BY <1>5 DEF Waits, PendingIn
  <2>. QED
    BY <1>0, <1>1, <1>2, <1>5, <2>1 DEF PaidIsOnRecord, OnRecord
<1>11. run' \in [Runs -> RunStates] /\ \A q \in Runs : run'[q].pc = "scan" => run'[q].room \in 1..Cap
  BY <1>0, <1>4, <1>6
<1>12. run'[r].pc \notin Sending /\ run[r].pc # "record"
  BY <1>4, <1>6 DEF Sending, Reading
<1>13. \A q \in Runs : Bystander(q, b, row) \/ Acting(q, b)
  <2>1. Acting(r, b)
    BY <1>6, <1>8, <1>12 DEF Acting
  <2>. QED
    BY <1>9, <2>1
<1>14. batch[b].state # "free"
  BY <1>2
<1>. HIDE DEF Inv
<1>. QED
  BY <1>0, <1>1, <1>5, <1>10, <1>11, <1>13, <1>14, RowAlone

LEMMA FinishKeeps ==
    ASSUME Inv, NEW r \in Runs, Discard(r) \/ Book(r) \/ LoseItem(r)
    PROVE  Inv'
<1> DEFINE b == run[r].cur
<1>0. /\ run \in [Runs -> RunStates] /\ run[r] \in RunStates /\ Sound(run[r], batch, remote)
  BY DEF Inv, TypeOK, RunsSound
<1>1. /\ run[r].pc \in Reading /\ UNCHANGED <<text, expl, remote, good, gen, agent, events>>
  BY DEF Discard, Book, LoseItem, Reading
<1>2. b \in Ids /\ b = run[r].cur
  BY <1>0, <1>1 DEF Sound
<1>3. CASE Discard(r)
  <2>1. PICK i \in run[r].left : /\ run' = [run EXCEPT ![r].left = @ \ {i}]
                                 /\ \E st \in {"done", "failed"} : Finished(b, i, st, 1)
    BY <1>3 DEF Discard
  <2>2. PICK st \in {"done", "failed"} : Finished(b, i, st, 1)
    BY <2>1
  <2> DEFINE s == [run[r] EXCEPT !.left = @ \ {i}]
  <2>3. run[r].pc = "finish" /\ i \in Items
    BY <1>0, <1>3 DEF Discard, RunStates
  <2>4. /\ s \in RunStates /\ s.pc = "finish" /\ s.todo = run[r].todo /\ s.cur = b
        /\ s.left = run[r].left \ {i} /\ run' = [run EXCEPT ![r] = s]
    BY <1>0, <2>1, <2>3 DEF RunStates
  <2>. HIDE DEF s, b
  <2>. QED
    BY <1>1, <1>2, <2>2, <2>3, <2>4, FinishOne
<1>4. CASE Book(r)
  <2> DEFINE i == run[r].item
             s == [run[r] EXCEPT !.pc = "finish", !.left = @ \ {i}, !.item = NoItem, !.src = 0]
  <2>1. run[r].pc = "book" /\ Finished(b, i, "done", 1)
    BY <1>4 DEF Book
  <2>2. i \in Items /\ 0 \in Hashes
    BY <1>0, <2>1, ExplainAssumption DEF Sound, Hashes
  <2>4. run' = [run EXCEPT ![r] = s]
    BY <1>0, <1>4 DEF Book
  <2>. HIDE DEF i
  <2>3. /\ s \in RunStates /\ s.pc = "finish" /\ s.todo = run[r].todo /\ s.cur = b
        /\ s.left = run[r].left \ {i}
    BY <1>0, <2>2 DEF RunStates
  <2>. HIDE DEF s, b
  <2>. QED
    BY <1>1, <1>2, <2>1, <2>2, <2>3, <2>4, FinishOne
<1>5. CASE LoseItem(r)
  <2>1. PICK i \in run[r].left : run' = [run EXCEPT ![r].left = @ \ {i}] /\ Finished(b, i, "lost", 0)
    BY <1>5 DEF LoseItem
  <2> DEFINE s == [run[r] EXCEPT !.left = @ \ {i}]
  <2>2. run[r].pc = "giveup" /\ i \in Items
    BY <1>0, <1>5 DEF LoseItem, RunStates
  <2>3. /\ s \in RunStates /\ s.pc = "giveup" /\ s.todo = run[r].todo /\ s.cur = b
        /\ s.left = run[r].left \ {i} /\ run' = [run EXCEPT ![r] = s]
    BY <1>0, <2>1, <2>2 DEF RunStates
  <2>4. (Finished(b, i, "lost", 0) \/ Finished(b, i, "lost", 1)) /\ "lost" \in {"done", "failed", "lost"}
    BY <2>1
  <2>. HIDE DEF s, b
  <2>. QED
    BY <1>1, <1>2, <2>2, <2>3, <2>4, FinishOne
<1>. QED
  BY <1>3, <1>4, <1>5

\* A step that changes the row b and the state of the run r.
LEMMA RowAndRun ==
    ASSUME Inv, NEW r \in Runs, NEW s \in RunStates, run' = [run EXCEPT ![r] = s], s.pc # "scan",
           NEW b \in Ids, NEW row \in Rows, batch' = [batch EXCEPT ![b] = row],
           Onward(batch[b], row), batch[b].state # "free",
           remote' \in [Ids -> {"none", "accepted", "ended", "cancelled"}],
           \A c \in Ids \ {b} : remote'[c] = remote[c], remote[b] # "none" => remote'[b] # "none",
           UNCHANGED <<text, expl, good, calls, gen, agent>>, events' \in 0..MaxEvents,
           Sound(s, batch', remote'),
           s.pc \in Sending => run[r].pc \in Sending /\ s.cur = run[r].cur,
           run[r].pc = "record" => run[r].cur = b,
           \A q \in Runs \ {r} :
               /\ run[q].pc \in {"send", "record"} /\ run[q].cur = b /\ ~row.harmed =>
                      row.state = "submitting" /\ row.age = 0
               /\ <<b, "submitting">> \in run[q].todo /\ row.state = "open" /\ ~row.harmed => row.age = 0
               /\ run[q].pc \in {"send", "refused"} /\ run[q].cur = b =>
                      remote'[b] = remote[b] \/ row.harmed,
           remote'[b] # "none" /\ Waits(row) # {} /\ ~row.harmed =>
               row.state = "open" \/ (row.state = "submitting" /\ s.pc = "record" /\ s.cur = b)
    PROVE  Inv'
<1>0. /\ run \in [Runs -> RunStates] /\ calls \in [batched : Nat, single : Nat]
      /\ \A q \in Runs : run[q].pc = "scan" => run[q].room \in 1..Cap
  BY DEF Inv, TypeOK
<1>1. run'[r] = s /\ \A q \in Runs \ {r} : run'[q] = run[q]
  BY <1>0
<1>2. run' \in [Runs -> RunStates] /\ \A q \in Runs : run'[q].pc = "scan" => run'[q].room \in 1..Cap
  BY <1>0, <1>1
<1>3. \A q \in Runs : Bystander(q, b, row) \/ Acting(q, b)
  <2>1. Acting(r, b)
    BY <1>1 DEF Acting
  <2>2. \A q \in Runs \ {r} : Bystander(q, b, row)
    BY <1>1 DEF Bystander
  <2>. QED
    BY <2>1, <2>2
<1>4. OnRecord(b, row)
  BY <1>1 DEF OnRecord
<1>. HIDE DEF Inv
<1>. QED
  BY <1>0, <1>2, <1>3, <1>4, RowAlone

LEMMA ClosedRow ==
    ASSUME NEW old \in Rows, NEW state \in {"submitting", "open", "collected", "failed"}
    PROVE  /\ [old EXCEPT !.state = state, !.age = 0] \in Rows
           /\ [old EXCEPT !.state = state, !.age = 0].state = state
           /\ [old EXCEPT !.state = state, !.age = 0].age = 0
           /\ [old EXCEPT !.state = state, !.age = 0].harmed = old.harmed
           /\ [old EXCEPT !.state = state, !.age = 0].item = old.item
<1>1. [old EXCEPT !.state = state, !.age = 0] \in Rows
  <2>1. 0 \in 0..2
    OBVIOUS
  <2>. QED
    BY <2>1, Zenon DEF Rows
<1>. QED
  BY <1>1 DEF Rows

LEMMA CollectWrites == ASSUME Inv, NEW r \in Runs, Release(r) \/ CloseBatch(r) PROVE Inv'
<1>0. /\ run \in [Runs -> RunStates] /\ run[r] \in RunStates /\ batch \in [Ids -> Rows]
      /\ \A q \in Runs : Sound(run[q], batch, remote)
      /\ remote \in [Ids -> {"none", "accepted", "ended", "cancelled"}]
      /\ events \in 0..MaxEvents /\ PaidIsOnRecord
  BY DEF Inv, TypeOK, RunsSound
<1>1. CASE Release(r)
  <2> DEFINE b == Next1(r)[1]
             row == [batch[b] EXCEPT !.state = "failed", !.age = 0]
             s == [run[r] EXCEPT !.todo = @ \ {Next1(r)}]
  <2>1. /\ b \in Ids /\ run[r].pc = "collect" /\ <<b, "submitting">> \in run[r].todo
        /\ batch[b].state # "free" /\ batch[b].age >= 1
    BY <1>1, OldestListed DEF Release, Looking, Releasable
  <2>2. /\ batch' = [batch EXCEPT ![b] = row] /\ run' = [run EXCEPT ![r] = s]
        /\ UNCHANGED <<text, expl, remote, good, calls, gen, agent, events>>
    BY <1>0, <1>1, <2>1 DEF Release
  <2>3. s \in RunStates /\ s.pc = "collect" /\ s.todo \subseteq run[r].todo
    BY <1>0, <2>1, SMTT(40) DEF RunStates
  <2>. HIDE DEF b, s
  <2>4. /\ row \in Rows /\ row.state = "failed" /\ row.age = 0 /\ row.harmed = batch[b].harmed
        /\ row.item = batch[b].item
    <3>1. batch[b] \in Rows
      BY <1>0, <2>1
    <3>. QED
      BY <3>1, ClosedRow
  <2>. HIDE DEF row
  <2>5. Onward(batch[b], row) /\ Waits(row) = Waits(batch[b])
    BY <2>1, <2>4 DEF Onward, Waits
  <2>6. batch'[b] = row /\ \A c \in Ids \ {b} : batch'[c] = batch[c]
    BY <1>0, <2>1, <2>2
  <2>7. Sound(s, batch', remote')
    <3>1. \A c \in Ids : Onward(batch[c], batch'[c])
      BY <2>5, <2>6, SameRow
    <3>2. Sound(s, batch, remote)
      BY <1>0, <2>1, <2>3 DEF Sound, Reading, Sending
    <3>3. \A c \in Ids : <<c, "submitting">> \in s.todo /\ batch'[c].state = "open" /\ ~batch'[c].harmed =>
                batch'[c].age = 0
      BY <2>4, <2>6, <3>2 DEF Sound
    <3>. QED
      BY <2>3, <3>1, <3>2, <3>3, SoundLasts
  <2>8. \A q \in Runs : run[q].pc \in {"send", "record"} /\ run[q].cur = b => row.harmed
    BY <1>0, <2>1, <2>4 DEF Sound
  <2>9. remote'[b] # "none" /\ Waits(row) # {} => row.harmed
    <3>. SUFFICES ASSUME remote[b] # "none", Waits(batch[b]) # {}, ~batch[b].harmed PROVE FALSE
      BY <2>2, <2>4, <2>5
    <3>1. batch[b].state # "open"
      BY <1>0, <2>1 DEF Sound
    <3>2. \E q \in Runs : run[q].pc = "record" /\ run[q].cur = b
      BY <1>0, <2>1, <3>1 DEF PaidIsOnRecord, PendingIn, Waits
    <3>. QED
      BY <2>4, <2>8, <3>2
  <2>10. \A q \in Runs \ {r} :
               /\ run[q].pc \in {"send", "record"} /\ run[q].cur = b /\ ~row.harmed =>
                      row.state = "submitting" /\ row.age = 0
               /\ <<b, "submitting">> \in run[q].todo /\ row.state = "open" /\ ~row.harmed => row.age = 0
               /\ run[q].pc \in {"send", "refused"} /\ run[q].cur = b =>
                      remote'[b] = remote[b] \/ row.harmed
    BY <2>2, <2>4, <2>8
  <2>11. s.pc \notin Sending /\ s.pc # "scan" /\ run[r].pc # "record"
    BY <2>1, <2>3 DEF Sending
  <2>12. remote'[b] # "none" /\ Waits(row) # {} /\ ~row.harmed =>
               row.state = "open" \/ (row.state = "submitting" /\ s.pc = "record" /\ s.cur = b)
    BY <2>9
  <2>. HIDE DEF Inv
  <2>. QED
    BY <1>0, <2>1, <2>2, <2>3, <2>4, <2>5, <2>7, <2>10, <2>11, <2>12, RowAndRun
<1>2. CASE CloseBatch(r)
  <2> DEFINE b == run[r].cur
             state == IF run[r].pc = "finish" THEN "collected" ELSE "failed"
             row == [batch[b] EXCEPT !.state = state, !.age = 0]
             s == [run[r] EXCEPT !.pc = "collect", !.cur = 0]
  <2>1. run[r].pc \in {"finish", "giveup"} /\ run[r].left = {}
    BY <1>2 DEF CloseBatch
  <2>2. b \in Ids /\ batch[b].state \notin {"free", "submitting"} /\ Waits(batch[b]) = {}
    BY <1>0, <2>1 DEF Sound, Reading
  <2>3. /\ batch' = [batch EXCEPT ![b] = row] /\ run' = [run EXCEPT ![r] = s]
        /\ UNCHANGED <<text, expl, remote, good, calls, gen, agent, events>>
    BY <1>0, <1>2, <2>2 DEF CloseBatch
  <2>4. s \in RunStates /\ s.pc = "collect" /\ s.todo = run[r].todo
    <3>1. run[r] \in RunStates /\ 0 \in 0..MaxBatches
      BY <1>0, ExplainAssumption
    <3>. QED
      BY <3>1 DEF RunStates
  <2>5. state \in {"collected", "failed"}
    BY SMTT(40)
  <2>. HIDE DEF b, s, state
  <2>6. /\ row \in Rows /\ row.state = state /\ row.age = 0 /\ row.harmed = batch[b].harmed
        /\ row.item = batch[b].item
    <3>1. batch[b] \in Rows
      BY <1>0, <2>2
    <3>2. state \in {"submitting", "open", "collected", "failed"}
      BY <2>5
    <3>. QED
      BY <3>1, <3>2, ClosedRow, ZenonT(60)
  <2>. HIDE DEF row
  <2>7. Onward(batch[b], row) /\ Waits(row) = {}
    BY <2>2, <2>5, <2>6 DEF Onward, Waits
  <2>8. batch'[b] = row /\ \A c \in Ids \ {b} : batch'[c] = batch[c]
    BY <1>0, <2>2, <2>3
  <2>9. Sound(s, batch', remote')
    <3>1. \A c \in Ids : Onward(batch[c], batch'[c])
      BY <2>7, <2>8, SameRow
    <3>2. Sound(s, batch, remote)
      BY <1>0, <2>4 DEF Sound, Reading, Sending
    <3>3. \A c \in Ids : <<c, "submitting">> \in s.todo /\ batch'[c].state = "open" /\ ~batch'[c].harmed =>
                batch'[c].age = 0
      BY <2>5, <2>6, <2>8, <3>2 DEF Sound
    <3>. QED
      BY <2>4, <3>1, <3>2, <3>3, SoundLasts
  <2>10. \A q \in Runs \ {r} :
               /\ run[q].pc \in {"send", "record"} /\ run[q].cur = b /\ ~row.harmed =>
                      row.state = "submitting" /\ row.age = 0
               /\ <<b, "submitting">> \in run[q].todo /\ row.state = "open" /\ ~row.harmed => row.age = 0
               /\ run[q].pc \in {"send", "refused"} /\ run[q].cur = b =>
                      remote'[b] = remote[b] \/ row.harmed
    BY <1>0, <2>2, <2>3, <2>5, <2>6 DEF Sound
  <2>11. s.pc \notin Sending /\ s.pc # "scan" /\ run[r].pc # "record"
    BY <2>1, <2>4 DEF Sending
  <2>. HIDE DEF Inv
  <2>. QED
    BY <1>0, <2>2, <2>3, <2>4, <2>6, <2>7, <2>9, <2>10, <2>11, RowAndRun
<1>. QED
  BY <1>1, <1>2

LEMMA SubmitWrites ==
    ASSUME Inv, NEW r \in Runs, Send(r) \/ DropReservation(r) \/ Activate(r) \/ Crash(r)
    PROVE  Inv'
<1> DEFINE b == run[r].cur
<1>0. /\ run \in [Runs -> RunStates] /\ run[r] \in RunStates /\ batch \in [Ids -> Rows]
      /\ \A q \in Runs : Sound(run[q], batch, remote)
      /\ remote \in [Ids -> {"none", "accepted", "ended", "cancelled"}]
      /\ events \in 0..MaxEvents /\ PaidIsOnRecord /\ AboutItsText
      /\ good \in [Ids -> SUBSET Items] /\ expl \in [Objects -> Explanations]
  BY DEF Inv, TypeOK, RunsSound
<1>1. UNCHANGED <<text, expl, good, calls, gen, agent>>
  BY DEF Send, DropReservation, Activate, Crash
<1>2. events' \in 0..MaxEvents
  <2>1. Happens \/ events' = events
    BY DEF Send, DropReservation, Activate, Crash
  <2>. QED
    BY <1>0, <2>1, EventCounted
<1>3. AboutItsText'
  BY <1>0, <1>1 DEF AboutItsText
<1>4. run[r].pc \in Sending => b \in Ids /\ batch[b].state # "free" /\ batch[b] \in Rows
  BY <1>0 DEF Sound
<1>5. run[r].pc \in Sending =>
          \A q \in Runs \ {r} : run[q].pc \in {"send", "refused", "record"} => run[q].cur # b
  BY DEF Inv, Apart, Sending
\* What the lemma needs, for a row that differs in state and marks only.
<1>6. ASSUME run[r].pc \in Sending, NEW row \in Rows, row.item = batch[b].item, batch' = [batch EXCEPT ![b] = row],
             row.state \in {batch[b].state, "open", "failed"},
             row.state = "open" => batch[b].state \in {"open", "submitting"},
             batch[b].harmed => row.harmed, row.age = batch[b].age \/ row.state # "open" \/ row.harmed,
             row.state = "open" /\ ~row.harmed /\ batch[b].state # "open" => row.age = 0,
             NEW s \in RunStates, run' = [run EXCEPT ![r] = s], s.pc # "scan",
             s.pc \in Sending => s.cur = b,
             remote' \in [Ids -> {"none", "accepted", "ended", "cancelled"}],
             \A c \in Ids \ {b} : remote'[c] = remote[c], remote[b] # "none" => remote'[b] # "none",
             Sound(s, batch', remote'),
             remote'[b] # "none" /\ Waits(row) # {} /\ ~row.harmed =>
                 row.state = "open" \/ (row.state = "submitting" /\ s.pc = "record" /\ s.cur = b)
      PROVE  Inv'
  <2>. HIDE DEF b
  <2>1. Onward(batch[b], row)
    BY <1>4, <1>6 DEF Onward, Waits
  <2>2. \A q \in Runs \ {r} : <<b, "submitting">> \in run[q].todo /\ row.state = "open" /\ ~row.harmed
             => row.age = 0
    BY <1>0, <1>6 DEF Sound
  <2>3. \A q \in Runs \ {r} :
               /\ run[q].pc \in {"send", "record"} /\ run[q].cur = b /\ ~row.harmed =>
                      row.state = "submitting" /\ row.age = 0
               /\ <<b, "submitting">> \in run[q].todo /\ row.state = "open" /\ ~row.harmed => row.age = 0
               /\ run[q].pc \in {"send", "refused"} /\ run[q].cur = b =>
                      remote'[b] = remote[b] \/ row.harmed
    BY <1>5, <1>6, <2>2
  <2>4. s.pc \in Sending => run[r].pc \in Sending /\ s.cur = run[r].cur
    BY <1>6 DEF b
  <2>5. run[r].pc = "record" => run[r].cur = b
    BY DEF b
  <2>. HIDE DEF Inv
  <2>. QED
    BY <1>1, <1>2, <1>4, <1>6, <2>1, <2>3, <2>4, <2>5, RowAndRun
<1>7. CASE Send(r)
  <2>1. run[r].pc = "send" /\ remote' = [remote EXCEPT ![b] = "accepted"]
    BY <1>7 DEF Send
  <2>2. /\ remote' \in [Ids -> {"none", "accepted", "ended", "cancelled"}]
        /\ \A c \in Ids \ {b} : remote'[c] = remote[c]
        /\ remote[b] # "none" => remote'[b] # "none"
    BY <1>0, <1>4, <2>1 DEF Sending
  <2>3. b \in Ids /\ batch[b].state # "free" /\ batch[b] \in Rows /\ run[r].pc \in Sending
    BY <1>4, <2>1 DEF Sending
  <2>4. Sound(run[r], batch, remote)
    BY <1>0
  <2>5. CASE run' = [run EXCEPT ![r].pc = "record"] /\ UNCHANGED <<batch, events>>
    <3> DEFINE s == [run[r] EXCEPT !.pc = "record"]
               row == batch[b]
    <3>1. s \in RunStates /\ s.pc = "record" /\ s.cur = b /\ s.todo = run[r].todo
      BY <1>0 DEF RunStates
    <3>2. run' = [run EXCEPT ![r] = s] /\ batch' = [batch EXCEPT ![b] = row]
      BY <1>0, <2>5
    <3>. HIDE DEF s
    <3>3. Sound(s, batch', remote')
      BY <2>1, <2>4, <2>5, <3>1 DEF Sound, Reading, Sending
    <3>4. ~row.harmed => row.state = "submitting"
      BY <2>1, <2>4 DEF Sound
    <3>. HIDE DEF row
    <3>5. row \in Rows /\ row = batch[b]
      BY <2>3 DEF row
    <3>. HIDE DEF b
    <3>. QED
      BY <1>6, <2>2, <2>3, <3>1, <3>2, <3>3, <3>4, <3>5
  <2>6. CASE /\ batch' = [batch EXCEPT ![run[r].cur].harmed = TRUE]
             /\ run' = [run EXCEPT ![r].pc = "refused"]
    <3> DEFINE s == [run[r] EXCEPT !.pc = "refused"]
               row == [batch[b] EXCEPT !.harmed = TRUE]
    <3>1. s \in RunStates /\ s.pc = "refused" /\ s.cur = b /\ s.todo = run[r].todo
      BY <1>0 DEF RunStates
    <3>2. run' = [run EXCEPT ![r] = s] /\ batch' = [batch EXCEPT ![b] = row]
      BY <1>0, <2>3, <2>6
    <3>3. row \in Rows /\ row.harmed /\ row.state = batch[b].state /\ row.item = batch[b].item
          /\ row.age = batch[b].age
      BY <2>3 DEF Rows
    <3>. HIDE DEF s, row
    <3>4. batch'[b] = row /\ \A c \in Ids \ {b} : batch'[c] = batch[c]
      BY <1>0, <2>3, <3>2
    <3>5. Sound(s, batch', remote')
      <4>1. \A t \in s.todo : t[1] \in Ids
        BY <3>1 DEF RunStates
      <4>2. \A c \in Ids : batch'[c].state = batch[c].state /\ (~batch'[c].harmed => batch'[c] = batch[c])
        BY <3>3, <3>4
      <4>3. s.cur \in Ids /\ batch'[s.cur].state # "free" /\ batch'[s.cur].harmed
        BY <2>3, <3>1, <3>3, <3>4
      <4>. QED
        BY <2>1, <2>4, <3>1, <4>1, <4>2, <4>3 DEF Sound, Reading, Sending
    <3>. HIDE DEF b
    <3>. QED
      BY <1>6, <2>2, <2>3, <3>1, <3>2, <3>3, <3>5
  <2>. QED
    BY <1>7, <2>5, <2>6 DEF Send
<1>8. CASE DropReservation(r)
  <2>1. run[r].pc = "refused" /\ UNCHANGED remote
    BY <1>8 DEF DropReservation
  <2>2. b \in Ids /\ batch[b].state # "free" /\ batch[b] \in Rows /\ run[r].pc \in Sending
    BY <1>4, <2>1 DEF Sending
  <2> DEFINE row == [batch[b] EXCEPT !.state = "failed", !.age = 0]
             s == Over(r)
  <2>3. /\ row \in Rows /\ row.state = "failed" /\ row.age = 0 /\ row.harmed = batch[b].harmed
        /\ row.item = batch[b].item
    BY <2>2, ClosedRow
  <2>4. run' = [run EXCEPT ![r] = s] /\ batch' = [batch EXCEPT ![b] = row]
    BY <1>0, <1>8, <2>2 DEF DropReservation
  <2>5. s \in RunStates /\ s.pc \in {"idle", "ended"} /\ Sound(s, batch', remote')
    BY OverSound
  <2>6. remote[b] = "none" \/ batch[b].harmed
    BY <1>0, <2>1 DEF Sound
  <2>. HIDE DEF s, row, b
  <2>. QED
    BY <1>0, <1>6, <2>1, <2>2, <2>3, <2>4, <2>5, <2>6 DEF Sending
<1>9. CASE Activate(r)
  <2>1. run[r].pc = "record" /\ UNCHANGED remote
    BY <1>9 DEF Activate
  <2>2. b \in Ids /\ batch[b].state # "free" /\ batch[b] \in Rows /\ run[r].pc \in Sending
    BY <1>4, <2>1 DEF Sending
  <2>3. Sound(run[r], batch, remote)
    BY <1>0
  <2>4. CASE batch[b].state = "submitting"
    <3> DEFINE row == [batch[b] EXCEPT !.state = "open"]
               s == Further(r, run[r].left)
    <3>1. /\ row \in Rows /\ row.state = "open" /\ row.age = batch[b].age
          /\ row.harmed = batch[b].harmed /\ row.item = batch[b].item
      BY <2>2 DEF Rows
    <3>2. run' = [run EXCEPT ![r] = s] /\ batch' = [batch EXCEPT ![b] = row]
      BY <1>0, <1>9, <2>2, <2>4 DEF Activate, Activated
    <3>3. s \in RunStates /\ s.pc \in {"reserve", "idle", "ended"} /\ s.todo \subseteq run[r].todo
      <4>1. run[r].left \in SUBSET Items
        BY <1>0 DEF RunStates
      <4>. QED
        BY <4>1, FurtherSound
    <3>4. ~row.harmed => row.age = 0
      BY <2>1, <2>3, <3>1 DEF Sound
    <3>. HIDE DEF s, row
    <3>5. batch'[b] = row /\ \A c \in Ids \ {b} : batch'[c] = batch[c]
      BY <1>0, <2>2, <3>2
    <3>6. Sound(s, batch', remote')
      <4>1. \A t \in s.todo : t[1] \in Ids
        BY <3>3 DEF RunStates
      <4>. QED
        BY <2>3, <3>1, <3>3, <3>4, <3>5, <4>1 DEF Sound, Reading, Sending
    <3>. HIDE DEF b
    <3>. QED
      BY <1>0, <1>6, <2>1, <2>2, <2>4, <3>1, <3>2, <3>3, <3>4, <3>6 DEF Sending
  <2>5. CASE batch[b].state # "submitting"
    <3>1. batch[b].harmed
      BY <2>1, <2>3, <2>5 DEF Sound
    <3>2. run' = [run EXCEPT ![r] = Over(r)] /\ batch' = batch /\ UNCHANGED good
      BY <1>9, <2>5 DEF Activate, Activated
    <3>. QED
      BY <1>0, <1>1, <1>2, <1>3, <2>1, <3>1, <3>2, OverSound, RunAlone DEF Sending
  <2>. QED
    BY <2>4, <2>5
<1>10. CASE Crash(r)
  <2>1. run' = [run EXCEPT ![r] = Over(r)] /\ UNCHANGED remote
    BY <1>10 DEF Crash
  <2>2. CASE run[r].pc \in Sending
    <3>1. b \in Ids /\ batch[b].state # "free" /\ batch[b] \in Rows
      BY <1>4, <2>2
    <3> DEFINE row == [batch[b] EXCEPT !.harmed = TRUE]
               s == Over(r)
    <3>2. row \in Rows /\ row.harmed /\ row.state = batch[b].state /\ row.item = batch[b].item
          /\ row.age = batch[b].age
      BY <3>1 DEF Rows
    <3>3. batch' = [batch EXCEPT ![b] = row]
      BY <1>0, <1>10, <2>2, <3>1 DEF Crash, Sending
    <3>4. s \in RunStates /\ s.pc \in {"idle", "ended"} /\ Sound(s, batch', remote')
      BY OverSound
    <3>5. run' = [run EXCEPT ![r] = s]
      BY <2>1
    <3>. HIDE DEF s, row, b
    <3>. QED
      BY <1>0, <1>6, <2>1, <2>2, <3>1, <3>2, <3>3, <3>4, <3>5 DEF Sending
  <2>3. CASE run[r].pc \notin Sending
    <3>1. batch' = batch /\ run[r].pc # "record" /\ UNCHANGED good
      BY <1>10, <2>3 DEF Crash, Sending
    <3>. QED
      BY <1>0, <1>1, <1>2, <1>3, <2>1, <3>1, OverSound, RunAlone DEF Sending
  <2>. QED
    BY <2>2, <2>3
<1>. QED
  BY <1>7, <1>8, <1>9, <1>10

LEMMA ReserveKeeps == ASSUME Inv, NEW r \in Runs, Reserve(r) PROVE Inv'
<1>0. /\ run \in [Runs -> RunStates] /\ run[r] \in RunStates /\ batch \in [Ids -> Rows]
      /\ \A q \in Runs : Sound(run[q], batch, remote)
      /\ remote \in [Ids -> {"none", "accepted", "ended", "cancelled"}] /\ good \in [Ids -> SUBSET Items]
      /\ events \in 0..MaxEvents /\ PaidIsOnRecord /\ AboutItsText /\ RowsFree /\ OneLiveBatch /\ Apart
      /\ expl \in [Objects -> Explanations] /\ TypeOK
  BY DEF Inv, TypeOK, RunsSound
<1>1. /\ run[r].pc = "reserve" /\ UNCHANGED <<text, expl, remote, good, calls, gen, agent, events>>
  BY DEF Reserve
<1>2. AboutItsText'
  BY <1>0, <1>1 DEF AboutItsText
<1>3. PICK group \in SUBSET run[r].left :
          \/ run' = [run EXCEPT ![r] = Further(r, @.left \ group)] /\ batch' = batch
          \/ /\ ~\E i \in group : Taken(i)
             /\ \E b \in Ids :
                   /\ batch[b].state = "free"
                   /\ batch' = [batch EXCEPT ![b].state = "submitting",
                                    ![b].item = [i \in Items |-> IF i \in group THEN "pending" ELSE "none"]]
                   /\ run' = [q \in Runs |->
                                IF q = r THEN [run[q] EXCEPT !.pc = "send", !.cur = b, !.left = @ \ group,
                                                                 !.alone = @ /\ run[q].left # group]
                                ELSE [run[q] EXCEPT !.alone = FALSE]]
  BY DEF Reserve, kSubset
<1>4. CASE run' = [run EXCEPT ![r] = Further(r, @.left \ group)] /\ batch' = batch
  <2> DEFINE s == Further(r, run[r].left \ group)
  <2>1. run[r].left \ group \in SUBSET Items
    BY <1>0 DEF RunStates
  <2>2. s \in RunStates /\ s.pc \in {"reserve", "idle", "ended"} /\ s.todo \subseteq run[r].todo
    BY <2>1, FurtherSound
  <2>3. run' = [run EXCEPT ![r] = s]
    BY <1>4
  <2>. HIDE DEF s
  <2>4. Sound(s, batch, remote)
    BY <1>0, <2>2 DEF Sound, Reading, Sending
  <2>. QED
    BY <1>0, <1>1, <1>2, <1>4, <2>2, <2>3, <2>4, RunAlone DEF Sending
<1>5. ASSUME NEW b \in Ids, batch[b].state = "free", ~\E i \in group : Taken(i),
             batch' = [batch EXCEPT ![b].state = "submitting",
                              ![b].item = [i \in Items |-> IF i \in group THEN "pending" ELSE "none"]],
             run' = [q \in Runs |->
                         IF q = r THEN [run[q] EXCEPT !.pc = "send", !.cur = b, !.left = @ \ group,
                                                          !.alone = @ /\ run[q].left # group]
                         ELSE [run[q] EXCEPT !.alone = FALSE]]
      PROVE  Inv'
  <2> DEFINE items == [i \in Items |-> IF i \in group THEN "pending" ELSE "none"]
             row == [batch[b] EXCEPT !.state = "submitting", !.item = items]
             alone == run[r].alone /\ run[r].left # group
             s == [run[r] EXCEPT !.pc = "send", !.cur = b, !.left = @ \ group, !.alone = alone]
  <2>1. /\ batch[b] \in Rows /\ batch[b] = FreeRow /\ remote[b] = "none"
        /\ items \in [Items -> {"none", "pending", "done", "failed", "lost"}]
        /\ batch' = [batch EXCEPT ![b] = row]
    BY <1>0, <1>5 DEF RowsFree
  <2>2. group \subseteq Items /\ \A i \in Items : items[i] = "pending" <=> i \in group
    BY <1>0 DEF RunStates
  <2>. HIDE DEF items
  <2>31. batch[b].age = 0 /\ ~batch[b].harmed
    BY <2>1 DEF FreeRow
  <2>32. row \in Rows
    BY <2>1, Zenon DEF Rows
  <2>33. /\ row.state = "submitting" /\ row.item = items
         /\ row.age = batch[b].age /\ row.harmed = batch[b].harmed
    BY <2>1, SMT DEF Rows
  <2>3. /\ row \in Rows /\ row.state = "submitting" /\ row.item = items /\ row.age = 0 /\ ~row.harmed
    BY <2>31, <2>32, <2>33
  <2>. HIDE DEF row
  <2>4. Waits(row) = group
    BY <2>2, <2>3 DEF Waits
  <2>5. alone \in BOOLEAN /\ b \in 0..MaxBatches
    BY DEF Ids
  <2>6. run'[r] = s /\ \A q \in Runs \ {r} : run'[q] = [run[q] EXCEPT !.alone = FALSE]
    BY <1>0, <1>5
  <2>. HIDE DEF alone
  <2>7. s \in RunStates /\ s.pc = "send" /\ s.cur = b /\ s.todo = run[r].todo
    BY <1>0, <2>5 DEF RunStates
  <2>. HIDE DEF s
  <2>8. \A q \in Runs \ {r} :
            /\ run'[q] \in RunStates /\ run'[q].pc = run[q].pc /\ run'[q].todo = run[q].todo
            /\ run'[q].cur = run[q].cur /\ run'[q].left = run[q].left /\ run'[q].item = run[q].item
            /\ run'[q].src = run[q].src /\ run'[q].room = run[q].room
    <3>. SUFFICES ASSUME NEW q \in Runs \ {r}
                  PROVE  /\ run'[q] \in RunStates /\ run'[q].pc = run[q].pc /\ run'[q].todo = run[q].todo
                         /\ run'[q].cur = run[q].cur /\ run'[q].left = run[q].left
                         /\ run'[q].item = run[q].item /\ run'[q].src = run[q].src
                         /\ run'[q].room = run[q].room
      OBVIOUS
    <3>1. run[q] \in RunStates /\ run'[q] = [run[q] EXCEPT !.alone = FALSE]
      BY <1>0, <2>6
    <3>. QED
      BY <3>1 DEF RunStates
  <2>9. run' \in [Runs -> RunStates]
    BY <1>5, <2>6, <2>7, <2>8
  <2>10. batch'[b] = row /\ \A c \in Ids \ {b} : batch'[c] = batch[c]
    BY <1>0, <2>1
  <2>11. batch' \in [Ids -> Rows]
    BY <1>0, <2>1, <2>3
  <2>12. TypeOK'
    <3>1. \A q \in Runs : run'[q].pc = "scan" => run'[q].room \in 1..Cap
      BY <1>0, <2>6, <2>7, <2>8 DEF TypeOK
    <3>. QED
      BY <1>0, <1>1, <2>9, <2>11, <3>1 DEF TypeOK
  <2>13. RowsFree'
    BY <1>0, <1>1, <2>3, <2>10 DEF RowsFree
  <2>14. RunsSound'
    <3>. SUFFICES ASSUME NEW q \in Runs PROVE Sound(run'[q], batch', remote')
      BY DEF RunsSound
    <3>1. Sound(run[q], batch, remote) /\ run[q] \in RunStates
      BY <1>0
    <3>2. \A t \in run[q].todo : t[1] \in Ids /\ t[1] # b /\ batch'[t[1]] = batch[t[1]]
      BY <1>5, <2>10, <3>1 DEF Sound, RunStates
    <3>3. CASE q = r
      BY <1>1, <2>1, <2>3, <2>6, <2>7, <2>10, <3>1, <3>2, <3>3 DEF Sound, Reading, Sending
    <3>4. CASE q # r
      <4>1. run[q].pc \in Reading \union Sending =>
                run[q].cur \in Ids /\ run[q].cur # b /\ batch'[run[q].cur] = batch[run[q].cur]
        BY <1>5, <2>10, <3>1 DEF Sound
      <4>. QED
        BY <1>1, <2>8, <3>1, <3>2, <3>4, <4>1 DEF Sound, Reading, Sending
    <3>. QED
      BY <3>3, <3>4
  <2>15. Apart'
    <3>1. \A q \in Runs : run[q].pc \in Sending => run[q].cur # b
      BY <1>0, <1>5 DEF Sound
    <3>. QED
      BY <1>0, <2>6, <2>7, <2>8, <3>1 DEF Apart
  <2>16. OneLiveBatch'
    <3>. SUFFICES ASSUME NEW c \in Ids, NEW d \in Ids, Live(c)', Live(d)', c # d
                  PROVE  PendingIn(c)' \intersect PendingIn(d)' = {}
      BY DEF OneLiveBatch
    <3>1. \A x \in Ids \ {b} : /\ PendingIn(x)' = PendingIn(x) /\ Live(x)' = Live(x)
                               /\ Live(x) => PendingIn(x) \intersect group = {}
      BY <1>5, <2>10 DEF PendingIn, Live, Taken
    <3>2. PendingIn(b)' = group
      BY <2>4, <2>10 DEF PendingIn, Waits
    <3>3. CASE c # b /\ d # b
      BY <1>0, <3>1, <3>3 DEF OneLiveBatch
    <3>4. CASE c = b
      BY <3>1, <3>2, <3>4
    <3>5. CASE d = b
      BY <3>1, <3>2, <3>5
    <3>. QED
      BY <3>3, <3>4, <3>5
  <2>17. PaidIsOnRecord'
    <3>. SUFFICES ASSUME NEW c \in Ids, remote'[c] # "none", PendingIn(c)' # {}, ~batch'[c].harmed
                  PROVE  \/ batch'[c].state = "open"
                         \/ /\ batch'[c].state = "submitting"
                            /\ \E q \in Runs : run'[q].pc = "record" /\ run'[q].cur = c
      BY DEF PaidIsOnRecord
    <3>1. c # b /\ batch'[c] = batch[c] /\ remote[c] # "none" /\ PendingIn(c) # {}
      BY <1>1, <2>1, <2>10 DEF PendingIn
    <3>2. \A q \in Runs : run[q].pc = "record" => run'[q].pc = "record" /\ run'[q].cur = run[q].cur
      BY <1>1, <2>8
    <3>. QED
      BY <1>0, <3>1, <3>2 DEF PaidIsOnRecord
  <2>. QED
    BY <1>2, <2>12, <2>13, <2>14, <2>15, <2>16, <2>17 DEF Inv
<1>. QED
  BY <1>3, <1>4, <1>5

\* Steps of time.
LEMMA TimeKeeps == ASSUME Inv, NEW b \in Ids, Age(b) \/ \E i \in Items : Cool(b, i) PROVE Inv'
<1>0. /\ run \in [Runs -> RunStates] /\ batch \in [Ids -> Rows] /\ batch[b] \in Rows
      /\ \A q \in Runs : Sound(run[q], batch, remote)
      /\ remote \in [Ids -> {"none", "accepted", "ended", "cancelled"}]
      /\ events \in 0..MaxEvents /\ PaidIsOnRecord /\ calls \in [batched : Nat, single : Nat]
      /\ \A q \in Runs : run[q].pc = "scan" => run[q].room \in 1..Cap
      /\ RowsFree
  BY DEF Inv, TypeOK, RunsSound
<1>1. UNCHANGED <<text, expl, remote, good, calls, run, gen, agent>> /\ events' \in 0..MaxEvents
  <2>1. Happens \/ events' = events
    BY DEF Age, Cool
  <2>. QED
    BY <1>0, <2>1, EventCounted DEF Age, Cool
<1>2. ASSUME NEW row \in Rows, batch' = [batch EXCEPT ![b] = row], batch[b].state # "free",
             row.state = batch[b].state, Waits(row) = Waits(batch[b]), batch[b].harmed => row.harmed,
             ~row.harmed => row.age = batch[b].age \/
                 /\ \A q \in Runs : ~(run[q].pc \in {"send", "record"} /\ run[q].cur = b)
                 /\ \A q \in Runs : <<b, "submitting">> \notin run[q].todo
      PROVE  Inv'
  <2>1. Onward(batch[b], row)
    BY <1>2 DEF Onward
  <2>2. \A q \in Runs : Bystander(q, b, row)
    BY <1>0, <1>1, <1>2 DEF Sound, Bystander
  <2>3. OnRecord(b, row)
    BY <1>0, <1>1, <1>2 DEF PaidIsOnRecord, PendingIn, Waits, OnRecord
  <2>4. /\ \A c \in Ids \ {b} : remote'[c] = remote[c]
        /\ remote[b] # "none" => remote'[b] # "none"
        /\ UNCHANGED <<text, expl, good, gen, agent>>
        /\ remote' \in [Ids -> {"none", "accepted", "ended", "cancelled"}]
        /\ calls' \in [batched : Nat, single : Nat] /\ run' \in [Runs -> RunStates]
        /\ \A q \in Runs : run'[q].pc = "scan" => run'[q].room \in 1..Cap
    BY <1>0, <1>1
  <2>. HIDE DEF Inv
  <2>. QED
    BY <1>1, <1>2, <2>1, <2>2, <2>3, <2>4, RowAlone
<1>3. CASE Age(b)
  <2> DEFINE harmed == batch[b].harmed \/ \E q \in Runs :
                           \/ run[q].pc \in {"send", "record"} /\ run[q].cur = b
                           \/ <<b, "submitting">> \in run[q].todo
             row == [batch[b] EXCEPT !.age = @ + 1, !.harmed = harmed]
  <2>1. batch[b].state # "free" /\ batch[b].age + 1 \in 0..2 /\ batch[b].age < 2
    BY <1>0, <1>3 DEF Age, Live, Rows
  <2>2. batch' = [batch EXCEPT ![b] = row]
    BY <1>0, <1>3 DEF Age
  <2>3. harmed \in BOOLEAN /\ (batch[b].harmed => harmed)
        /\ (~harmed => /\ \A q \in Runs : ~(run[q].pc \in {"send", "record"} /\ run[q].cur = b)
                       /\ \A q \in Runs : <<b, "submitting">> \notin run[q].todo)
    BY <1>0 DEF Rows
  <2>. HIDE DEF harmed
  <2>4. row \in Rows
    BY <1>0, <2>1, <2>3, Zenon DEF Rows
  <2>5. row.state = batch[b].state /\ row.harmed = harmed /\ row.item = batch[b].item
    BY <1>0 DEF Rows
  <2>. HIDE DEF row
  <2>6. Waits(row) = Waits(batch[b])
    BY <2>5 DEF Waits
  <2>. QED
    BY <1>2, <2>1, <2>2, <2>3, <2>4, <2>5, <2>6
<1>4. ASSUME NEW i \in Items, Cool(b, i) PROVE Inv'
  <2> DEFINE to == IF batch[b].item[i] = "failed" THEN "done" ELSE "none"
             row == [batch[b] EXCEPT !.item[i] = to]
  <2>1. batch[b].item[i] \in {"failed", "lost"} /\ batch' = [batch EXCEPT ![b] = row]
    BY <1>0, <1>4 DEF Cool
  <2>2. batch[b].state # "free"
    BY <1>0, <2>1 DEF RowsFree, FreeRow
  <2>3. to \in {"none", "done"}
    OBVIOUS
  <2>. HIDE DEF to
  <2>4. /\ row \in Rows /\ row.state = batch[b].state /\ row.harmed = batch[b].harmed
        /\ row.age = batch[b].age /\ row.item = [batch[b].item EXCEPT ![i] = to]
    BY <1>0, <2>3 DEF Rows
  <2>. HIDE DEF row
  <2>5. Waits(row) = Waits(batch[b])
    BY <1>0, <2>1, <2>3, <2>4 DEF Waits, Rows
  <2>. QED
    BY <1>2, <2>1, <2>2, <2>4, <2>5
<1>. QED
  BY <1>3, <1>4

\* Steps of those who edit and explain one by one.
LEMMA OthersKeep ==
    ASSUME Inv, \/ \E o \in Objects : Edit(o)
                \/ \E o \in Authored : AgentExplains(o)
                \/ \E o \in Viewed : Open1(o)
                \/ \E usable \in BOOLEAN : Answer(usable)
    PROVE  Inv'
<1>0. /\ TypeOK /\ run \in [Runs -> RunStates] /\ RunsSound /\ Apart /\ PaidIsOnRecord /\ AboutItsText
      /\ RowsFree /\ OneLiveBatch
  BY DEF Inv, TypeOK
<1>1. UNCHANGED <<batch, remote, good>>
  BY DEF Edit, AgentExplains, Open1, Answer
<1>2. events' \in 0..MaxEvents
  <2>1. Happens \/ events' = events
    BY DEF Edit, AgentExplains, Open1, Answer
  <2>. QED
    BY <1>0, <2>1, EventCounted DEF TypeOK
<1>3. /\ run' \in [Runs -> RunStates]
      /\ \A q \in Runs :
            /\ run'[q].pc = run[q].pc /\ run'[q].todo = run[q].todo
            /\ run'[q].cur = run[q].cur /\ run'[q].left = run[q].left /\ run'[q].item = run[q].item
            /\ run'[q].src = run[q].src /\ run'[q].room = run[q].room
  <2>1. CASE UNCHANGED run
    BY <1>0, <2>1
  <2>2. CASE run' = [q \in Runs |-> [run[q] EXCEPT !.alone = FALSE]]
    <3>1. ASSUME NEW q \in Runs
          PROVE  /\ run'[q] \in RunStates /\ run'[q].pc = run[q].pc /\ run'[q].todo = run[q].todo
                 /\ run'[q].cur = run[q].cur /\ run'[q].left = run[q].left
                 /\ run'[q].item = run[q].item /\ run'[q].src = run[q].src
                 /\ run'[q].room = run[q].room
      <4>1. run[q] \in RunStates /\ run'[q] = [run[q] EXCEPT !.alone = FALSE]
        BY <1>0, <2>2
      <4>. QED
        BY <4>1 DEF RunStates
    <3>. QED
      BY <2>2, <3>1
  <2>. QED
    BY <2>1, <2>2 DEF Edit, AgentExplains, Open1, Answer
<1>4. /\ text' \in [Objects -> Hashes] /\ expl' \in [Objects -> Explanations] /\ AboutItsText'
      /\ calls' \in [batched : Nat, single : Nat] /\ gen' \in Items \union {NoItem} /\ agent' \subseteq Objects
  <2>1. ASSUME NEW o \in Objects, Edit(o)
        PROVE  text' \in [Objects -> Hashes]
    <3>1. text[o] \in Hashes /\ text[o] < MaxEdits /\ text' = [text EXCEPT ![o] = @ + 1]
      BY <1>0, <2>1 DEF Edit, TypeOK
    <3>2. text[o] + 1 \in Hashes
      BY <3>1, ExplainAssumption DEF Hashes
    <3>. QED
      BY <1>0, <3>1, <3>2 DEF TypeOK
  <2>2. ASSUME NEW o \in Objects, AgentExplains(o)
        PROVE  expl' \in [Objects -> Explanations] /\ AboutItsText'
    <3> DEFINE e == [by |-> "agent", hash |-> text[o], about |-> text[o]]
    <3>1. e \in Explanations /\ e.about = e.hash /\ expl' = [expl EXCEPT ![o] = e]
      BY <1>0, <2>2 DEF AgentExplains, TypeOK, Explanations
    <3>. HIDE DEF e
    <3>. QED
      BY <1>0, <3>1 DEF AboutItsText, TypeOK
  <2>3. ASSUME NEW usable \in BOOLEAN, Answer(usable)
        PROVE  /\ expl' \in [Objects -> Explanations] /\ AboutItsText'
               /\ calls' \in [batched : Nat, single : Nat]
    <3> DEFINE e == [by |-> "generated", hash |-> gen[2], about |-> gen[2]]
    <3>1. gen \in Items /\ (expl' = [expl EXCEPT ![gen[1]] = e] \/ expl' = expl)
      BY <1>0, <2>3 DEF Answer, TypeOK
    <3>2. gen[1] \in Objects /\ gen[2] \in Hashes
      BY <3>1 DEF Items
    <3>3. e \in Explanations /\ e.about = e.hash
      BY <3>2 DEF Explanations
    <3>4. calls' \in [batched : Nat, single : Nat]
      BY <1>0, <2>3 DEF Answer, TypeOK
    <3>. HIDE DEF e
    <3>. QED
      BY <1>0, <3>1, <3>2, <3>3, <3>4 DEF AboutItsText, TypeOK
  <2>4. ASSUME NEW o \in Objects, Open1(o) PROVE gen' \in Items
    BY <1>0, <2>4 DEF Open1, Current, Items, TypeOK
  <2>5. gen' = gen \/ gen' = NoItem \/ \E o \in Viewed : Open1(o)
    BY DEF Edit, AgentExplains, Answer
  <2>6. text' = text \/ \E o \in Objects : Edit(o)
    BY DEF AgentExplains, Open1, Answer
  <2>7. expl' = expl \/ (\E o \in Authored : AgentExplains(o)) \/ \E usable \in BOOLEAN : Answer(usable)
    BY DEF Edit, Open1
  <2>8. calls' = calls \/ \E usable \in BOOLEAN : Answer(usable)
    BY DEF Edit, AgentExplains, Open1
  <2>9. agent' \subseteq Objects
    BY <1>0, ExplainAssumption DEF Edit, AgentExplains, Open1, Answer, TypeOK
  <2>10. Authored \subseteq Objects /\ Viewed \subseteq Objects
    BY ExplainAssumption
  <2>11. gen' \in Items \union {NoItem}
    BY <1>0, <2>4, <2>5, <2>10 DEF TypeOK
  <2>12. text' \in [Objects -> Hashes]
    BY <1>0, <2>1, <2>6 DEF TypeOK
  <2>13. expl' \in [Objects -> Explanations] /\ AboutItsText'
    <3>1. expl' = expl => AboutItsText' /\ expl' \in [Objects -> Explanations]
      BY <1>0 DEF AboutItsText, TypeOK
    <3>. QED
      BY <2>2, <2>3, <2>7, <2>10, <3>1
  <2>14. calls' \in [batched : Nat, single : Nat]
    BY <1>0, <2>3, <2>8 DEF TypeOK
  <2>. QED
    BY <2>9, <2>11, <2>12, <2>13, <2>14
<1>5. TypeOK'
  BY <1>0, <1>1, <1>2, <1>3, <1>4 DEF TypeOK
<1>6. RunsSound'
  BY <1>0, <1>1, <1>3 DEF RunsSound, Sound
<1>7. Apart' /\ RowsFree' /\ OneLiveBatch'
  BY <1>0, <1>1, <1>3 DEF Apart, RowsFree, OneLiveBatch, Live, PendingIn
<1>8. PaidIsOnRecord'
  BY <1>0, <1>1, <1>3 DEF PaidIsOnRecord, PendingIn
<1>. QED
  BY <1>4, <1>5, <1>6, <1>7, <1>8 DEF Inv

-----------------------------------------------------------------------------
(* The theorems *)

LEMMA InvInit == Init => Inv
<1>. SUFFICES ASSUME Init PROVE Inv
  OBVIOUS
<1>1. 0 \in Hashes /\ 0 \in 0..MaxBatches /\ 0 \in 0..MaxEvents /\ 0 \in 0..2
  BY ExplainAssumption DEF Hashes
<1>2. FreeRow \in Rows /\ IdleRun \in RunStates /\ NoExplanation \in Explanations
  BY <1>1 DEF FreeRow, Rows, IdleRun, RunStates, NoExplanation, Explanations
<1>3. TypeOK
  BY <1>1, <1>2 DEF Init, TypeOK, IdleRun
<1>4. RowsFree /\ Apart /\ OneLiveBatch /\ AboutItsText /\ PaidIsOnRecord
  BY DEF Init, RowsFree, Apart, OneLiveBatch, AboutItsText, PaidIsOnRecord, Live, FreeRow, IdleRun, Sending,
         NoExplanation
<1>5. RunsSound
  BY DEF Init, RunsSound, Sound, IdleRun, Reading, Sending
<1>. QED
  BY <1>3, <1>4, <1>5 DEF Inv

LEMMA InvStep == Inv /\ [Next]_vars => Inv'
<1>. SUFFICES ASSUME Inv, [Next]_vars PROVE Inv'
  OBVIOUS
<1>1. ASSUME NEW r \in Runs, Step(r) \/ Crash(r) PROVE Inv'
  BY <1>1, CollectReads, ReadsOn, FinishKeeps, CollectWrites, SubmitWrites, ReserveKeeps DEF Step
<1>2. ASSUME NEW b \in Ids, Age(b) \/ \E i \in Items : Cool(b, i) PROVE Inv'
  BY <1>2, TimeKeeps
<1>3. CASE UNCHANGED vars
  BY <1>3 DEF vars, Inv, TypeOK, RowsFree, RunsSound, Apart, OneLiveBatch, AboutItsText, PaidIsOnRecord,
              Live, PendingIn
<1>. QED
  BY <1>1, <1>2, <1>3, OthersKeep DEF Next

LEMMA InvAlways == Spec => []Inv
<1>1. QED
  BY InvInit, InvStep, PTL DEF Spec

\* The variables keep their types, and a run never plans for more than the cap.
THEOREM ExplainBatchesTypes == Spec => []TypeOK
<1>1. Inv => TypeOK
  BY DEF Inv
<1>. QED
  BY <1>1, InvAlways, PTL

\* An object at one text waits in one batch at most (ReserveExplainBatch,
\* ActivateExplainBatch), for any number of runs.
THEOREM WaitsInOneBatch == Spec => []OneLiveBatch
<1>1. Inv => OneLiveBatch
  BY DEF Inv
<1>. QED
  BY <1>1, InvAlways, PTL

\* A generated text describes the text it is stored for (finishItem, Generate).
THEOREM StoredForItsText == Spec => []AboutItsText
<1>1. Inv => AboutItsText
  BY DEF Inv
<1>. QED
  BY <1>1, InvAlways, PTL

\* No accepted batch comes off the record unless its own run failed or was too
\* slow (SubmitBatches, CollectBatches).
THEOREM AcceptedIsOnRecord == Spec => []PaidIsOnRecord
<1>1. Inv => PaidIsOnRecord
  BY DEF Inv
<1>. QED
  BY <1>1, InvAlways, PTL

-----------------------------------------------------------------------------
(* What is counted *)

\* The entries with an answer of the provider, with the rows bt.
AnsweredIn(bt) == {w \in Ids \X Items : bt[w[1]].item[w[2]] \in {"done", "failed"}}

\* A step that changes no entry.
LEMMA ItemsKept ==
    ASSUME Inv, [Next]_vars,
           \A r \in Runs : ~(Discard(r) \/ Book(r) \/ LoseItem(r) \/ Reserve(r)),
           \A b \in Ids, i \in Items : ~Cool(b, i)
    PROVE  calls'.batched = calls.batched /\ \A b \in Ids : batch'[b].item = batch[b].item
<1>0. batch \in [Ids -> Rows] /\ calls \in [batched : Nat, single : Nat]
  BY DEF Inv, TypeOK
<1>1. ASSUME NEW b \in Ids, NEW c \in Ids, NEW st, NEW a,
             batch' = [batch EXCEPT ![b].state = st, ![b].age = a]
      PROVE  batch'[c].item = batch[c].item
  BY <1>0, <1>1 DEF Rows
<1>2. ASSUME NEW b \in Ids, NEW c \in Ids, NEW st, batch' = [batch EXCEPT ![b].state = st]
      PROVE  batch'[c].item = batch[c].item
  BY <1>0, <1>2 DEF Rows
<1>3. ASSUME NEW b \in Ids, NEW c \in Ids, NEW h, batch' = [batch EXCEPT ![b].harmed = h]
      PROVE  batch'[c].item = batch[c].item
  BY <1>0, <1>3 DEF Rows
<1>4. ASSUME NEW b \in Ids, NEW c \in Ids, NEW a, NEW h,
             batch' = [batch EXCEPT ![b].age = a, ![b].harmed = h]
      PROVE  batch'[c].item = batch[c].item
  BY <1>0, <1>4 DEF Rows
<1>5. ASSUME NEW r \in Runs, Step(r) \/ Crash(r)
      PROVE  calls' = calls /\ \A c \in Ids : batch'[c].item = batch[c].item
  <2>1. CASE batch' = batch /\ calls' = calls
    BY <2>1
  <2>2. CASE Release(r)
    <3>1. Next1(r)[1] \in Ids
      BY <2>2, OldestListed DEF Release
    <3>. QED
      BY <1>1, <2>2, <3>1 DEF Release
  <2>3. /\ Sound(run[r], batch, remote)
        /\ run[r].pc \in Reading \union Sending => run[r].cur \in Ids
    BY DEF Inv, RunsSound, Sound
  <2>4. CASE CloseBatch(r)
    BY <1>1, <2>3, <2>4 DEF CloseBatch, Reading
  <2>5. CASE DropReservation(r)
    BY <1>1, <2>3, <2>5 DEF DropReservation, Sending
  <2>6. CASE Send(r) \/ Crash(r)
    BY <1>3, <2>3, <2>6 DEF Send, Crash, Sending
  <2>7. CASE Activate(r)
    BY <1>2, <2>3, <2>7, SMTT(40) DEF Activate, Sending
  <2>8. CASE List(r) \/ LeaveOpen(r) \/ Fetch(r) \/ GiveUp(r) \/ Judge(r) \/ Save(r)
             \/ ReadWaiting(r) \/ ReadUsage(r) \/ Scan(r) \/ NoRowLeft(r) \/ Refuse(r)
    BY <2>8 DEF List, LeaveOpen, Fetch, GiveUp, Judge, Save, ReadWaiting, ReadUsage, Scan, NoRowLeft, Refuse
  <2>. QED
    BY <1>5, <2>2, <2>4, <2>5, <2>6, <2>7, <2>8 DEF Step
<1>6. ASSUME NEW b \in Ids, Age(b)
      PROVE  calls' = calls /\ \A c \in Ids : batch'[c].item = batch[c].item
  BY <1>4, <1>6 DEF Age
<1>7. ASSUME \/ \E o \in Objects : Edit(o)
             \/ \E o \in Authored : AgentExplains(o)
             \/ \E o \in Viewed : Open1(o)
             \/ \E usable \in BOOLEAN : Answer(usable)
      PROVE  batch' = batch /\ calls'.batched = calls.batched
  BY <1>0, <1>7 DEF Edit, AgentExplains, Open1, Answer
<1>8. CASE UNCHANGED vars
  BY <1>8 DEF vars
<1>. QED
  BY <1>5, <1>6, <1>7, <1>8 DEF Next

\* FinishExplainBatchItem of an entry with an answer.
LEMMA FinishedCounts ==
    ASSUME Inv, CountedOnce, NEW b \in Ids, NEW i \in Items, NEW state \in {"done", "failed"},
           Finished(b, i, state, 1)
    PROVE  CountedOnce'
<1>0. batch \in [Ids -> Rows] /\ calls \in [batched : Nat, single : Nat]
  BY DEF Inv, TypeOK
<1>1. CASE batch[b].item[i] # "pending"
  BY <1>1 DEF Finished, CountedOnce
<1>2. CASE batch[b].item[i] = "pending"
  <2>1. batch' = [batch EXCEPT ![b].item[i] = state] /\ calls' = [calls EXCEPT !.batched = @ + 1]
    BY <1>2 DEF Finished
  <2>2. \A c \in Ids, j \in Items :
            batch'[c].item[j] = IF c = b /\ j = i THEN state ELSE batch[c].item[j]
    BY <1>0, <2>1 DEF Rows
  <2>3. AnsweredIn(batch') = AnsweredIn(batch) \union {<<b, i>>} /\ <<b, i>> \notin AnsweredIn(batch)
    BY <1>2, <2>2 DEF AnsweredIn
  <2>4. IsFiniteSet(AnsweredIn(batch)) /\ Cardinality(AnsweredIn(batch)) \in Nat
    BY Counted DEF AnsweredIn
  <2>5. Cardinality(AnsweredIn(batch')) = Cardinality(AnsweredIn(batch)) + 1
    BY <2>3, <2>4, FS_AddElement
  <2>6. calls.batched = Cardinality(AnsweredIn(batch)) /\ calls'.batched = calls.batched + 1
    BY <1>0, <2>1 DEF CountedOnce, AnsweredIn
  <2>. QED
    BY <2>5, <2>6 DEF CountedOnce, AnsweredIn
<1>. QED
  BY <1>1, <1>2

\* Every entry that is answered in a step is counted in that step (Discard, Book).
LEMMA CountsStep == Inv /\ CountedOnce /\ [Next]_vars => CountedOnce'
<1>. SUFFICES ASSUME Inv, CountedOnce, [Next]_vars PROVE CountedOnce'
  OBVIOUS
<1>0. /\ batch \in [Ids -> Rows] /\ calls \in [batched : Nat, single : Nat] /\ run \in [Runs -> RunStates]
      /\ \A r \in Runs : run[r].pc \in Reading => run[r].cur \in Ids
      /\ \A r \in Runs : run[r].pc = "book" => run[r].item \in Items
      /\ calls.batched = Cardinality(AnsweredIn(batch))
  BY DEF Inv, TypeOK, RunsSound, Sound, CountedOnce, AnsweredIn
<1>1. ASSUME calls'.batched = calls.batched,
             \A b \in Ids, i \in Items :
                 batch'[b].item[i] \in {"done", "failed"} <=> batch[b].item[i] \in {"done", "failed"}
      PROVE  CountedOnce'
  <2>1. AnsweredIn(batch') = AnsweredIn(batch)
    BY <1>1 DEF AnsweredIn
  <2>. QED
    BY <1>0, <1>1, <2>1 DEF CountedOnce, AnsweredIn
<1>2. ASSUME NEW r \in Runs, Discard(r) PROVE CountedOnce'
  <2>1. PICK i \in run[r].left :
            Finished(run[r].cur, i, IF Judged(run[r].cur, i) = "failed" THEN "failed" ELSE "done", 1)
    BY <1>2 DEF Discard
  <2>2. i \in Items /\ run[r].cur \in Ids
    BY <1>0, <1>2 DEF RunStates, Discard, Reading
  <2>. QED
    BY <2>1, <2>2, FinishedCounts
<1>3. ASSUME NEW r \in Runs, Book(r) PROVE CountedOnce'
  <2>1. run[r].item \in Items /\ run[r].cur \in Ids /\ Finished(run[r].cur, run[r].item, "done", 1)
    BY <1>0, <1>3 DEF RunStates, Book, Reading
  <2>. QED
    BY <2>1, FinishedCounts
<1>4. ASSUME NEW r \in Runs, LoseItem(r) PROVE CountedOnce'
  <2>1. PICK i \in run[r].left : Finished(run[r].cur, i, "lost", 0)
    BY <1>4 DEF LoseItem
  <2>2. i \in Items /\ run[r].cur \in Ids
    BY <1>0, <1>4 DEF RunStates, LoseItem, Reading
  <2>3. CASE batch[run[r].cur].item[i] = "pending"
    <3>1. batch' = [batch EXCEPT ![run[r].cur].item[i] = "lost"] /\ calls'.batched = calls.batched
      BY <1>0, <2>1, <2>3 DEF Finished
    <3>2. \A c \in Ids, j \in Items :
              batch'[c].item[j] = IF c = run[r].cur /\ j = i THEN "lost" ELSE batch[c].item[j]
      BY <1>0, <2>2, <3>1 DEF Rows
    <3>. QED
      BY <1>1, <2>3, <3>1, <3>2
  <2>4. CASE batch[run[r].cur].item[i] # "pending"
    BY <1>1, <2>1, <2>4 DEF Finished
  <2>. QED
    BY <2>3, <2>4
<1>5. ASSUME NEW r \in Runs, Reserve(r) PROVE CountedOnce'
  <2>1. calls' = calls
    BY <1>5 DEF Reserve
  <2>2. CASE batch' = batch
    BY <1>1, <2>1, <2>2
  <2>3. CASE batch' # batch
    <3> DEFINE n == Min({GroupSize, Cardinality(run[r].left)})
    <3>1. PICK group \in kSubset(n, run[r].left), b \in Ids :
              /\ batch[b].state = "free"
              /\ batch' = [batch EXCEPT ![b].state = "submitting",
                                        ![b].item = [i \in Items |-> IF i \in group THEN "pending" ELSE "none"]]
      BY <1>5, <2>3 DEF Reserve
    <3>2. \A i \in Items : batch[b].item[i] = "none"
      BY <3>1 DEF Inv, RowsFree, FreeRow
    <3>3. \A c \in Ids, j \in Items :
              batch'[c].item[j] = IF c = b THEN IF j \in group THEN "pending" ELSE "none" ELSE batch[c].item[j]
      BY <1>0, <3>1 DEF Rows
    <3>. QED
      BY <1>1, <2>1, <3>2, <3>3
  <2>. QED
    BY <2>2, <2>3
<1>6. ASSUME NEW b \in Ids, NEW i \in Items, Cool(b, i) PROVE CountedOnce'
  <2>1. \A c \in Ids, j \in Items :
            batch'[c].item[j] = IF c = b /\ j = i THEN IF batch[b].item[i] = "failed" THEN "done" ELSE "none"
                                ELSE batch[c].item[j]
    BY <1>0, <1>6 DEF Cool, Rows
  <2>2. batch[b].item[i] \in {"failed", "lost"} /\ calls' = calls
    BY <1>6 DEF Cool
  <2>. QED
    BY <1>1, <2>1, <2>2
<1>. QED
  BY <1>1, <1>2, <1>3, <1>4, <1>5, <1>6, ItemsKept

\* FinishExplainBatchItem counts the usage of an entry exactly once.
THEOREM UsageCountedOnce == Spec => []CountedOnce
<1>1. Init => CountedOnce
  <2>. SUFFICES ASSUME Init PROVE CountedOnce
    OBVIOUS
  <2>1. AnsweredIn(batch) = {}
    BY DEF Init, AnsweredIn, FreeRow
  <2>2. Cardinality(AnsweredIn(batch)) = 0
    BY <2>1, FS_EmptySet
  <2>. QED
    BY <2>2 DEF Init, CountedOnce, AnsweredIn
<1>. QED
  BY <1>1, CountsStep, InvAlways, PTL DEF Spec

-----------------------------------------------------------------------------
(* What a run may still spend *)

Unharmed(bt) == \A b \in Ids : ~bt[b].harmed

\* The entries that wait at the provider, with the rows bt.
WaitingAt(bt) ==
    {w \in Ids \X Items : bt[w[1]].state \in {"submitting", "open"} /\ bt[w[1]].item[w[2]] = "pending"}

\* Only what was accepted is open.
OpenIsSent ==
    /\ \A b \in Ids : batch[b].state = "open" => remote[b] # "none"
    /\ \A r \in Runs : run[r].pc = "record" => remote[run[r].cur] # "none"

\* The batches that a run listed as open or reads are open as long as they wait.
LiveToRead(s, bt) ==
    \A b \in Ids :
        /\ <<b, "open">> \in s.todo \/ (s.pc \in Reading /\ s.cur = b)
        /\ Waits(bt[b]) # {}
        => bt[b].state = "open"

ReadsLive == Unharmed(batch) => \A r \in Runs : LiveToRead(run[r], batch)

Spending == {"usage", "scan", "reserve", "send", "refused", "record"}

\* What a run that is alone may rely on: the calls that count and wait, and
\* those it still plans, are within the cap.
Within(s, used, waiting) ==
    /\ s.pc \in Spending
    /\ s.pc = "usage" => waiting + s.room <= Cap
    /\ s.pc = "scan" => used + waiting + s.room <= Cap
    /\ s.pc \in {"reserve", "send", "refused", "record"} => used + waiting + Cardinality(s.left) <= Cap

RoomLeft ==
    Unharmed(batch) =>
        \A r \in Runs : run[r].alone => gen = NoItem /\ Within(run[r], Used, Waiting)

CapInv == Inv /\ OpenIsSent /\ ReadsLive /\ RoomLeft

\* A run that reserves a batch.
Reserving == \E r \in Runs : Reserve(r) /\ batch' # batch

\* A row that frees and reserves nothing, and stays open while it waits.
Lasting(old, new) ==
    /\ Onward(old, new)
    /\ ~new.harmed /\ old.state = "open" /\ Waits(new) # {} => new.state = "open"

\* As many calls wait as entries of open batches do.
LEMMA WaitingCounted ==
    /\ Waiting = Cardinality(WaitingAt(batch)) /\ Waiting \in Nat
    /\ Waiting' = Cardinality(WaitingAt(batch')) /\ Waiting' \in Nat
<1>1. Waiting = Cardinality(WaitingAt(batch))
  <2>1. WaitingAt(batch) = {w \in Ids \X Items : Live(w[1]) /\ w[2] \in PendingIn(w[1])}
    BY DEF WaitingAt, Live, PendingIn
  <2>. QED
    BY <2>1 DEF Waiting
<1>2. Waiting' = Cardinality(WaitingAt(batch'))
  <2>1. WaitingAt(batch') = {w \in Ids \X Items : Live(w[1])' /\ w[2] \in PendingIn(w[1])'}
    BY DEF WaitingAt, Live, PendingIn
  <2>. QED
    BY <2>1 DEF Waiting
<1>3. WaitingAt(batch) \subseteq Ids \X Items /\ WaitingAt(batch') \subseteq Ids \X Items
  BY DEF WaitingAt
<1>. QED
  BY <1>1, <1>2, <1>3, Counted

\* Rows last: what a step may make of a batch on record.
LEMMA RowsLast ==
    ASSUME CapInv, [Next]_vars, ~Reserving, NEW c \in Ids
    PROVE  Lasting(batch[c], batch'[c])
<1>0. /\ batch \in [Ids -> Rows] /\ run \in [Runs -> RunStates]
      /\ \A r \in Runs : Sound(run[r], batch, remote)
      /\ \A r \in Runs : run[r].pc \in Reading \union Sending =>
             run[r].cur \in Ids /\ batch[run[r].cur].state # "free"
      /\ RowsFree /\ OpenIsSent /\ Inv
  BY DEF CapInv, Inv, TypeOK, RunsSound, Sound
<1>1. ASSUME batch'[c] = batch[c] PROVE Lasting(batch[c], batch'[c])
  BY <1>1, SameRow DEF Lasting
\* The row changes its state and its marks only.
<1>2. ASSUME batch[c] \in Rows, batch[c].state # "free", batch'[c].item = batch[c].item,
             batch'[c].state \in {batch[c].state, "open", "collected", "failed"},
             batch'[c].state = "open" => batch[c].state \in {"open", "submitting"},
             batch[c].harmed => batch'[c].harmed,
             ~batch'[c].harmed /\ batch[c].state = "open" /\ Waits(batch[c]) # {} => batch'[c].state = "open"
      PROVE  Lasting(batch[c], batch'[c])
  <2>1. Waits(batch'[c]) = Waits(batch[c])
    BY <1>2 DEF Waits
  <2>2. batch'[c].state # "free"
    BY <1>2
  <2>3. batch'[c].state = "submitting" => batch[c].state = "submitting"
    BY <1>2
  <2>4. batch'[c].state \in {"submitting", "open"} => batch[c].state \in {"submitting", "open"}
    BY <1>2
  <2>. QED
    BY <1>2, <2>1, <2>2, <2>3, <2>4 DEF Lasting, Onward
\* One entry is finished or cools down.
<1>3. ASSUME NEW b \in Ids, NEW i \in Items, NEW state \in {"none", "done", "failed", "lost"},
             batch' = [batch EXCEPT ![b].item[i] = state], batch[b].state # "free"
      PROVE  Lasting(batch[c], batch'[c])
  <2>1. CASE c # b
    BY <1>0, <1>1, <1>3, <2>1
  <2>2. CASE c = b
    <3>1. batch'[b] = [batch[b] EXCEPT !.item[i] = state] /\ batch[b] \in Rows
      BY <1>0, <1>3
    <3>2. /\ batch'[b].state = batch[b].state /\ batch'[b].harmed = batch[b].harmed
          /\ batch'[b].item = [batch[b].item EXCEPT ![i] = state]
      BY <3>1 DEF Rows
    <3>3. \A j \in Items : batch'[b].item[j] = "pending" => batch[b].item[j] = "pending"
      BY <3>1, <3>2 DEF Rows
    <3>4. Waits(batch'[b]) \subseteq Waits(batch[b])
      BY <3>3 DEF Waits
    <3>. QED
      BY <1>3, <2>2, <3>2, <3>4 DEF Lasting, Onward
  <2>. QED
    BY <2>1, <2>2
<1>4. ASSUME NEW r \in Runs, NEW i \in Items, NEW state \in {"done", "failed", "lost"}, NEW n,
             run[r].pc \in Reading, Finished(run[r].cur, i, state, n)
      PROVE  Lasting(batch[c], batch'[c])
  BY <1>0, <1>1, <1>3, <1>4 DEF Finished
<1>5. ASSUME NEW r \in Runs, Release(r) PROVE Lasting(batch[c], batch'[c])
  <2> DEFINE b == Next1(r)[1]
  <2>1. /\ b \in Ids /\ batch[b].state # "free" /\ <<b, "submitting">> \in run[r].todo
        /\ batch[b].age >= 1 /\ batch' = [batch EXCEPT ![b].state = "failed", ![b].age = 0]
    <3>1. Looking(r) /\ Next1(r)[2] = "submitting"
      BY <1>5 DEF Release
    <3>. QED
      BY <1>0, <1>5, <3>1, OldestListed DEF Release, Releasable
  <2>2. batch[b].state = "open" => batch[b].harmed
    BY <1>0, <2>1 DEF Sound
  <2>. HIDE DEF b
  <2>3. CASE c # b
    BY <1>0, <1>1, <2>1, <2>3
  <2>4. CASE c = b
    <3>1. /\ batch[c] \in Rows /\ batch'[c].state = "failed"
          /\ batch'[c].item = batch[c].item /\ batch'[c].harmed = batch[c].harmed
      BY <1>0, <2>1, <2>4 DEF Rows
    <3>. QED
      BY <1>2, <2>1, <2>2, <2>4, <3>1
  <2>. QED
    BY <2>3, <2>4
<1>6. ASSUME NEW r \in Runs, CloseBatch(r) PROVE Lasting(batch[c], batch'[c])
  <2>1. Waits(batch[run[r].cur]) = {} /\ run[r].cur \in Ids /\ batch[run[r].cur].state # "free"
    BY <1>0, <1>6 DEF CloseBatch, Sound, Reading
  <2>2. CASE c # run[r].cur
    BY <1>0, <1>1, <1>6, <2>2 DEF CloseBatch
  <2>3. CASE c = run[r].cur
    <3>1. /\ batch[c] \in Rows /\ batch'[c].state \in {"collected", "failed"}
          /\ batch'[c].item = batch[c].item /\ batch'[c].harmed = batch[c].harmed
      BY <1>0, <1>6, <2>1, <2>3 DEF Rows, CloseBatch
    <3>. QED
      BY <1>2, <2>1, <2>3, <3>1
  <2>. QED
    BY <2>2, <2>3
<1>7. ASSUME NEW r \in Runs, DropReservation(r) PROVE Lasting(batch[c], batch'[c])
  <2>1. /\ run[r].cur \in Ids /\ batch[run[r].cur].state # "free"
        /\ remote[run[r].cur] = "none" \/ batch[run[r].cur].harmed
    BY <1>0, <1>7 DEF DropReservation, Sound, Sending
  <2>2. CASE c # run[r].cur
    BY <1>0, <1>1, <1>7, <2>2 DEF DropReservation
  <2>3. CASE c = run[r].cur
    <3>1. /\ batch[c] \in Rows /\ batch'[c].state = "failed"
          /\ batch'[c].item = batch[c].item /\ batch'[c].harmed = batch[c].harmed
      BY <1>0, <1>7, <2>1, <2>3 DEF Rows, DropReservation
    <3>2. batch[c].state = "open" => batch[c].harmed
      BY <1>0, <2>1, <2>3 DEF OpenIsSent
    <3>. QED
      BY <1>2, <2>1, <2>3, <3>1, <3>2
  <2>. QED
    BY <2>2, <2>3
<1>8. ASSUME NEW r \in Runs, Send(r) \/ Crash(r) PROVE Lasting(batch[c], batch'[c])
  <2>1. \/ batch' = batch
        \/ run[r].pc \in Sending /\ batch' = [batch EXCEPT ![run[r].cur].harmed = TRUE]
    BY <1>8 DEF Send, Crash, Sending
  <2>2. CASE batch' = batch \/ c # run[r].cur
    BY <1>0, <1>1, <2>1, <2>2
  <2>3. CASE c = run[r].cur /\ run[r].pc \in Sending /\ batch' = [batch EXCEPT ![run[r].cur].harmed = TRUE]
    <3>1. /\ batch[c] \in Rows /\ batch'[c].state = batch[c].state
          /\ batch'[c].item = batch[c].item /\ batch'[c].harmed
      BY <1>0, <2>3 DEF Rows
    <3>. QED
      BY <1>0, <1>2, <2>3, <3>1
  <2>. QED
    BY <2>1, <2>2, <2>3
<1>9. ASSUME NEW r \in Runs, Activate(r) PROVE Lasting(batch[c], batch'[c])
  <2>1. CASE batch' = batch \/ c # run[r].cur
    BY <1>0, <1>1, <1>9, <2>1 DEF Activate
  <2>2. CASE c = run[r].cur /\ batch' # batch
    <3>1. /\ batch[c] \in Rows /\ batch[c].state = "submitting" /\ batch'[c].state = "open"
          /\ batch'[c].item = batch[c].item /\ batch'[c].harmed = batch[c].harmed
      BY <1>0, <1>9, <2>2 DEF Rows, Activate, Activated
    <3>. QED
      BY <1>2, <3>1
  <2>. QED
    BY <2>1, <2>2
<1>10. ASSUME NEW r \in Runs, Discard(r) \/ Book(r) \/ LoseItem(r) PROVE Lasting(batch[c], batch'[c])
  <2>1. \E i \in Items, state \in {"done", "failed", "lost"}, n \in 0..1 :
            Finished(run[r].cur, i, state, n)
    <3>1. run[r].left \subseteq Items /\ (run[r].pc = "book" => run[r].item \in Items)
      BY <1>0 DEF RunStates, Sound
    <3>2. CASE Discard(r)
      BY <3>1, <3>2 DEF Discard
    <3>3. CASE Book(r)
      BY <3>1, <3>3 DEF Book
    <3>4. CASE LoseItem(r)
      BY <3>1, <3>4 DEF LoseItem
    <3>. QED
      BY <1>10, <3>2, <3>3, <3>4
  <2>2. run[r].pc \in Reading
    BY <1>10 DEF Discard, Book, LoseItem, Reading
  <2>. QED
    BY <1>4, <2>1, <2>2
<1>11. ASSUME NEW r \in Runs, Step(r) \/ Crash(r) PROVE Lasting(batch[c], batch'[c])
  <2>1. CASE List(r) \/ LeaveOpen(r) \/ Fetch(r) \/ GiveUp(r) \/ Judge(r) \/ Save(r)
             \/ ReadWaiting(r) \/ ReadUsage(r) \/ Scan(r) \/ NoRowLeft(r) \/ Refuse(r)
    BY <1>1, <2>1 DEF List, LeaveOpen, Fetch, GiveUp, Judge, Save, ReadWaiting, ReadUsage, Scan, NoRowLeft, Refuse
  <2>2. CASE Reserve(r)
    BY <1>1, <2>2 DEF Reserving
  <2>. QED
    BY <1>5, <1>6, <1>7, <1>8, <1>9, <1>10, <1>11, <2>1, <2>2, SMTT(40) DEF Step
<1>12. ASSUME NEW b \in Ids, Age(b) PROVE Lasting(batch[c], batch'[c])
  <2>1. CASE c # b
    BY <1>0, <1>1, <1>12, <2>1 DEF Age
  <2>2. CASE c = b
    <3>1. PICK h \in BOOLEAN : batch' = [batch EXCEPT ![b].age = @ + 1, ![b].harmed = @ \/ h]
      BY <1>12 DEF Age
    <3>2. /\ batch[c] \in Rows /\ batch'[c].state = batch[c].state /\ batch'[c].item = batch[c].item
          /\ batch[c].harmed => batch'[c].harmed
      BY <1>0, <2>2, <3>1 DEF Rows
    <3>. QED
      BY <1>2, <1>12, <2>2, <3>2 DEF Age, Live
  <2>. QED
    BY <2>1, <2>2
<1>13. ASSUME NEW b \in Ids, NEW i \in Items, Cool(b, i) PROVE Lasting(batch[c], batch'[c])
  <2>1. batch[b].state # "free"
    BY <1>0, <1>13 DEF Cool, RowsFree, FreeRow
  <2>2. \E state \in {"none", "done"} : batch' = [batch EXCEPT ![b].item[i] = state]
    BY <1>0, <1>13 DEF Cool
  <2>. QED
    BY <1>3, <2>1, <2>2
<1>14. ASSUME \/ \E o \in Objects : Edit(o)
              \/ \E o \in Authored : AgentExplains(o)
              \/ \E o \in Viewed : Open1(o)
              \/ \E usable \in BOOLEAN : Answer(usable)
              \/ UNCHANGED vars
       PROVE  batch' = batch
  BY <1>14 DEF Edit, AgentExplains, Open1, Answer, vars
<1>. QED
  BY <1>1, <1>11, <1>12, <1>13, <1>14 DEF Next

\* There are finitely many entries to plan.
LEMMA ItemsFinite == IsFiniteSet(Items)
<1>1. IsFiniteSet(Hashes) /\ IsFiniteSet(Objects)
  BY ExplainAssumption, FS_Interval DEF Hashes
<1>. QED
  BY <1>1, FS_Product DEF Items

\* A run as it was, but that somebody else reserved a call.
Same(old, new) ==
    /\ new.pc = old.pc /\ new.todo = old.todo /\ new.cur = old.cur
    /\ new.left = old.left /\ new.room = old.room /\ (new.alone => old.alone)

\* A run keeps what it holds through the steps of the others.
LEMMA OthersRun ==
    ASSUME Inv, [Next]_vars, NEW q \in Runs, ~(Step(q) \/ Crash(q))
    PROVE  Same(run[q], run'[q])
<1>0. run \in [Runs -> RunStates]
  BY DEF Inv, TypeOK
<1>1. ASSUME run'[q] = run[q] PROVE Same(run[q], run'[q])
  BY <1>1 DEF Same
<1>2. ASSUME run'[q] = [run[q] EXCEPT !.alone = FALSE] PROVE Same(run[q], run'[q])
  <2>1. run[q] \in RunStates
    BY <1>0
  <2>. QED
    BY <1>2, <2>1 DEF Same, RunStates
<1>3. ASSUME NEW r \in Runs, Step(r) \/ Crash(r) PROVE Same(run[q], run'[q])
  <2>0. r # q
    BY <1>3
  <2>1. CASE Reserve(r)
    <3>1. run'[q] = run[q] \/ run'[q] = [run[q] EXCEPT !.alone = FALSE]
      BY <1>0, <2>0, <2>1, ZenonT(60) DEF Reserve
    <3>. QED
      BY <1>1, <1>2, <3>1
  <2>2. CASE ~Reserve(r)
    <3>1. run'[q] = run[q]
      BY <1>0, <1>3, <2>0, <2>2, ZenonT(60)
         DEF Step, Crash, List, Release, LeaveOpen, Fetch, GiveUp, Discard, Judge, Save, Book, LoseItem,
             CloseBatch, ReadWaiting, ReadUsage, Scan, NoRowLeft, Send, Refuse, DropReservation, Activate
    <3>. QED
      BY <1>1, <3>1
  <2>. QED
    BY <2>1, <2>2
<1>4. ASSUME NEW o \in Viewed, Open1(o) PROVE Same(run[q], run'[q])
  BY <1>0, <1>2, <1>4 DEF Open1
<1>5. ASSUME \/ \E b \in Ids : Age(b) \/ \E i \in Items : Cool(b, i)
             \/ \E o \in Objects : Edit(o)
             \/ \E o \in Authored : AgentExplains(o)
             \/ \E usable \in BOOLEAN : Answer(usable)
             \/ UNCHANGED vars
      PROVE  run' = run
  BY <1>5 DEF Age, Cool, Edit, AgentExplains, Answer, vars
<1>. QED
  BY <1>1, <1>3, <1>4, <1>5 DEF Next

\* What a step makes of the batches that a run has listed or in hand.
LEMMA OwnBatches ==
    ASSUME Inv, NEW q \in Runs, Step(q) \/ Crash(q), ~Reserve(q)
    PROVE  /\ \A b \in Ids : <<b, "open">> \in run'[q].todo =>
                  <<b, "open">> \in run[q].todo \/ (batch[b].state = "open" /\ batch' = batch)
           /\ run'[q].pc \in Reading =>
                  \/ run[q].pc \in Reading /\ run'[q].cur = run[q].cur
                  \/ <<run'[q].cur, "open">> \in run[q].todo
           /\ run'[q].pc = "record" => run'[q].cur = run[q].cur /\ remote'[run[q].cur] = "accepted"
<1>0. /\ run \in [Runs -> RunStates] /\ run[q] \in RunStates
      /\ remote \in [Ids -> {"none", "accepted", "ended", "cancelled"}]
      /\ run[q].pc \in Sending => run[q].cur \in Ids
  BY DEF Inv, TypeOK, RunsSound, Sound
<1>1. ASSUME run'[q].todo \subseteq run[q].todo,
             run'[q].pc \in Reading => run[q].pc \in Reading /\ run'[q].cur = run[q].cur,
             run'[q].pc # "record"
      PROVE  /\ \A b \in Ids : <<b, "open">> \in run'[q].todo =>
                  <<b, "open">> \in run[q].todo \/ (batch[b].state = "open" /\ batch' = batch)
             /\ run'[q].pc \in Reading =>
                  \/ run[q].pc \in Reading /\ run'[q].cur = run[q].cur
                  \/ <<run'[q].cur, "open">> \in run[q].todo
             /\ run'[q].pc = "record" => run'[q].cur = run[q].cur /\ remote'[run[q].cur] = "accepted"
  BY <1>1
<1>2. ASSUME run'[q] = Over(q)
      PROVE  /\ run'[q].todo \subseteq run[q].todo
             /\ run'[q].pc \notin Reading /\ run'[q].pc # "record"
  BY <1>2 DEF Over, IdleRun, Reading
<1>3. CASE List(q)
  <2>1. /\ run'[q].pc = "collect"
        /\ run'[q].todo = {<<b, batch[b].state>> : b \in {x \in Ids : Live(x)}}
        /\ batch' = batch
    BY <1>0, <1>3 DEF List, RunStates
  <2>2. \A b \in Ids : <<b, "open">> \in run'[q].todo => batch[b].state = "open"
    BY <2>1
  <2>. QED
    BY <2>1, <2>2 DEF Reading
<1>4. CASE Fetch(q) \/ GiveUp(q)
  <2>1. Looking(q) /\ Next1(q)[2] = "open"
    BY <1>4 DEF Fetch, GiveUp
  <2>2. <<Next1(q)[1], "open">> \in run[q].todo
    BY <2>1, OldestListed
  <2>3. /\ run'[q].todo \subseteq run[q].todo /\ run'[q].cur = Next1(q)[1]
        /\ run'[q].pc \in {"finish", "giveup"}
    BY <1>0, <1>4 DEF Fetch, GiveUp, RunStates
  <2>. QED
    BY <2>2, <2>3
<1>5. CASE Release(q) \/ LeaveOpen(q)
  BY <1>0, <1>1, <1>5 DEF Release, LeaveOpen, Looking, RunStates, Reading
<1>6. CASE Discard(q) \/ Judge(q) \/ Save(q) \/ Book(q) \/ LoseItem(q) \/ CloseBatch(q)
  <2>1. CASE Discard(q) \/ LoseItem(q)
    <3>1. \E left : run' = [run EXCEPT ![q].left = left]
      BY <2>1 DEF Discard, LoseItem
    <3>2. /\ run'[q].todo = run[q].todo /\ run'[q].pc = run[q].pc /\ run'[q].cur = run[q].cur
          /\ run[q].pc \in {"finish", "giveup"}
      BY <1>0, <2>1, <3>1 DEF Discard, LoseItem, RunStates
    <3>. QED
      BY <1>1, <3>2 DEF Reading
  <2>2. CASE Judge(q)
    <3>1. \E i, h : run' = [run EXCEPT ![q].pc = "save", ![q].item = i, ![q].src = h]
      BY <2>2 DEF Judge
    <3>2. run'[q].todo = run[q].todo /\ run'[q].pc = "save" /\ run'[q].cur = run[q].cur
      BY <1>0, <3>1 DEF RunStates
    <3>. QED
      BY <1>1, <2>2, <3>2 DEF Judge, Reading
  <2>3. CASE Save(q)
    BY <1>0, <1>1, <2>3 DEF Save, RunStates, Reading
  <2>4. CASE Book(q)
    BY <1>0, <1>1, <2>4 DEF Book, RunStates, Reading
  <2>5. CASE CloseBatch(q)
    BY <1>0, <1>1, <2>5 DEF CloseBatch, RunStates, Reading
  <2>. QED
    BY <1>6, <2>1, <2>2, <2>3, <2>4, <2>5
<1>7. CASE ReadWaiting(q) \/ ReadUsage(q)
  <2>1. CASE ReadWaiting(q)
    BY <1>0, <1>1, <2>1 DEF ReadWaiting, RunStates, Reading
  <2>2. CASE ReadUsage(q)
    <3>1. \/ run'[q] = Over(q)
          \/ run'[q] = [run[q] EXCEPT !.pc = "scan", !.room = run[q].room - Used, !.left = Blocked]
      BY <1>0, <2>2 DEF ReadUsage
    <3>2. run'[q] = Over(q) \/ (run'[q].pc = "scan" /\ run'[q].todo = run[q].todo)
      BY <1>0, <3>1 DEF RunStates
    <3>. QED
      BY <1>1, <1>2, <3>2 DEF Reading
  <2>. QED
    BY <1>7, <2>1, <2>2
<1>8. CASE Scan(q)
  <2>1. \/ run' = [run EXCEPT ![q] = Over(q)]
        \/ \E plan : run' = [run EXCEPT ![q].pc = "reserve", ![q].left = plan, ![q].room = 0]
    BY <1>8 DEF Scan
  <2>2. CASE run' = [run EXCEPT ![q] = Over(q)]
    BY <1>0, <1>1, <1>2, <2>2
  <2>3. ASSUME NEW plan, run' = [run EXCEPT ![q].pc = "reserve", ![q].left = plan, ![q].room = 0]
        PROVE  run'[q].pc = "reserve" /\ run'[q].todo = run[q].todo
    BY <1>0, <2>3 DEF RunStates
  <2>. QED
    BY <1>1, <2>1, <2>2, <2>3 DEF Reading
<1>9. CASE NoRowLeft(q) \/ DropReservation(q) \/ Crash(q)
  BY <1>0, <1>1, <1>2, <1>9 DEF NoRowLeft, DropReservation, Crash
<1>10. CASE Refuse(q)
  BY <1>0, <1>1, <1>10 DEF Refuse, RunStates, Reading
<1>11. CASE Send(q)
  <2>1. /\ run'[q].pc \in {"record", "refused"} /\ run'[q].todo = run[q].todo /\ run'[q].cur = run[q].cur
        /\ remote'[run[q].cur] = "accepted"
    BY <1>0, <1>11 DEF Send, RunStates, Sending
  <2>. QED
    BY <2>1 DEF Reading
<1>12. CASE Activate(q)
  <2>1. run'[q] = Over(q) \/ run'[q] = [run[q] EXCEPT !.pc = "reserve", !.cur = 0, !.left = run[q].left]
    BY <1>0, <1>12 DEF Activate, Further
  <2>2. run'[q] = Over(q) \/ (run'[q].pc = "reserve" /\ run'[q].todo = run[q].todo)
    BY <1>0, <2>1 DEF RunStates
  <2>. QED
    BY <1>1, <1>2, <2>2 DEF Reading
<1>. QED
  BY <1>3, <1>4, <1>5, <1>6, <1>7, <1>8, <1>9, <1>10, <1>11, <1>12 DEF Step

\* What becomes of the calls that a run may spend or plans.
LEMMA OwnCalls ==
    ASSUME Inv, NEW q \in Runs, Step(q) \/ Crash(q), ~Reserve(q), run'[q].alone,
           run[q].alone => run[q].pc \in Spending
    PROVE  /\ gen' = gen
           /\ \/ /\ run'[q].pc = "usage" /\ run'[q].room = Cap - Waiting /\ gen = NoItem
                 /\ UNCHANGED <<batch, calls>>
              \/ /\ run[q].alone /\ run[q].pc = "usage"
                 /\ run'[q].pc = "scan" /\ run'[q].room = run[q].room - Used
                 /\ UNCHANGED <<batch, calls>>
              \/ /\ run[q].alone /\ run[q].pc = "scan"
                 /\ run'[q].pc = "reserve" /\ Cardinality(run'[q].left) <= run[q].room
                 /\ UNCHANGED <<batch, calls>>
              \/ /\ run[q].alone /\ run[q].pc \in Spending \ {"usage", "scan"}
                 /\ run'[q].pc \in Spending \ {"usage", "scan"} /\ run'[q].left = run[q].left
<1>0. /\ run \in [Runs -> RunStates] /\ run[q] \in RunStates
      /\ run[q].pc = "scan" => run[q].room \in 1..Cap
      /\ text \in [Objects -> Hashes]
  BY DEF Inv, TypeOK
<1>1. ASSUME run'[q] = Over(q) PROVE FALSE
  BY <1>1 DEF Over, IdleRun
<1>2. CASE ReadWaiting(q)
  BY <1>0, <1>2 DEF ReadWaiting, RunStates
<1>3. CASE ReadUsage(q)
  BY <1>0, <1>1, <1>3 DEF ReadUsage, RunStates
<1>4. CASE Scan(q)
  <2> DEFINE lacking == {i \in {Current(o) : o \in Objects} : ~Fresh(i)} \ run[q].left
             n == Min({Cardinality(lacking), run[q].room})
  <2>1. lacking \subseteq Items
    BY <1>0 DEF Current, Items
  <2>3. IsFiniteSet(lacking) /\ Cardinality(lacking) \in Nat
    <3>. HIDE DEF lacking
    <3>. QED
      BY <2>1, ItemsFinite, FS_Subset, FS_CardinalityType
  <2>4. run[q].pc = "scan" /\ run[q].room \in Nat /\ UNCHANGED <<batch, calls, gen>>
    <3>1. run[q].pc = "scan" /\ UNCHANGED <<batch, calls, gen>>
      BY <1>4 DEF Scan
    <3>. QED
      BY <1>0, <3>1, ExplainAssumption
  <2>5. n \in Int /\ n <= run[q].room
    <3>. HIDE DEF lacking
    <3>. QED
      BY <2>3, <2>4 DEF Min
  <2>6. PICK plan \in kSubset(n, lacking) :
            run' = [run EXCEPT ![q].pc = "reserve", ![q].left = plan, ![q].room = 0]
    BY <1>0, <1>1, <1>4 DEF Scan
  <2>7. Cardinality(plan) = n
    BY DEF kSubset
  <2>8. run'[q].pc = "reserve" /\ run'[q].left = plan /\ run'[q].alone = run[q].alone
    BY <1>0, <2>6 DEF RunStates
  <2>. HIDE DEF n, lacking
  <2>. QED
    BY <2>4, <2>5, <2>7, <2>8
<1>5. CASE NoRowLeft(q) \/ DropReservation(q) \/ Crash(q)
  BY <1>0, <1>1, <1>5 DEF NoRowLeft, DropReservation, Crash
<1>6. CASE Refuse(q) \/ Send(q)
  BY <1>0, <1>6 DEF Refuse, Send, RunStates, Spending
<1>7. CASE Activate(q)
  <2>1. run'[q] = [run[q] EXCEPT !.pc = "reserve", !.cur = 0, !.left = run[q].left]
    BY <1>0, <1>1, <1>7 DEF Activate, Further
  <2>. QED
    BY <1>0, <1>7, <2>1 DEF Activate, RunStates, Spending
<1>8. CASE List(q) \/ Release(q) \/ LeaveOpen(q) \/ Fetch(q) \/ GiveUp(q)
           \/ Discard(q) \/ Judge(q) \/ Save(q) \/ Book(q) \/ LoseItem(q) \/ CloseBatch(q)
  <2>1. run[q].pc \notin Spending
    BY <1>8 DEF List, Release, LeaveOpen, Fetch, GiveUp, Looking, Discard, Judge, Save, Book, LoseItem,
                CloseBatch, Spending
  <2>2. run'[q].alone = run[q].alone
    <3>1. CASE List(q) \/ Release(q) \/ LeaveOpen(q)
      <4>1. CASE List(q)
        BY <1>0, <4>1 DEF List, RunStates
      <4>2. CASE Release(q)
        BY <1>0, <4>2 DEF Release, RunStates
      <4>3. CASE LeaveOpen(q)
        BY <1>0, <4>3 DEF LeaveOpen, RunStates
      <4>. QED
        BY <3>1, <4>1, <4>2, <4>3
    <3>2. CASE Fetch(q)
      BY <1>0, <3>2 DEF Fetch, RunStates
    <3>3. CASE GiveUp(q)
      BY <1>0, <3>3 DEF GiveUp, RunStates
    <3>4. CASE Discard(q) \/ LoseItem(q)
      <4>1. PICK left : run' = [run EXCEPT ![q].left = left]
        BY <3>4 DEF Discard, LoseItem
      <4>. QED
        BY <1>0, <4>1 DEF RunStates
    <3>5. CASE Judge(q)
      <4>1. PICK i, h : run' = [run EXCEPT ![q].pc = "save", ![q].item = i, ![q].src = h]
        BY <3>5 DEF Judge
      <4>. QED
        BY <1>0, <4>1 DEF RunStates
    <3>6. CASE Save(q)
      BY <1>0, <3>6 DEF Save, RunStates
    <3>7. CASE Book(q)
      BY <1>0, <3>7 DEF Book, RunStates
    <3>8. CASE CloseBatch(q)
      BY <1>0, <3>8 DEF CloseBatch, RunStates
    <3>. QED
      BY <1>8, <3>1, <3>2, <3>3, <3>4, <3>5, <3>6, <3>7, <3>8
  <2>. QED
    BY <2>1, <2>2, SMTT(40)
<1>. QED
  BY <1>2, <1>3, <1>4, <1>5, <1>6, <1>7, <1>8 DEF Step

\* A batch the provider knows stays known to it.
LEMMA RemoteStays ==
    ASSUME Inv, [Next]_vars, NEW c \in Ids, remote[c] # "none"
    PROVE  remote'[c] # "none"
<1>0. remote \in [Ids -> {"none", "accepted", "ended", "cancelled"}]
  BY DEF Inv, TypeOK
<1>1. CASE remote' = remote
  BY <1>1
<1>2. ASSUME NEW r \in Runs, Fetch(r) \/ GiveUp(r) \/ Send(r) PROVE remote'[c] # "none"
  BY <1>0, <1>2 DEF Fetch, GiveUp, Send
<1>3. ASSUME NEW r \in Runs, Step(r) \/ Crash(r), ~(Fetch(r) \/ GiveUp(r) \/ Send(r)) PROVE remote' = remote
  BY <1>3 DEF Step, Crash, List, Release, LeaveOpen, Discard, Judge, Save, Book, LoseItem, CloseBatch,
             ReadWaiting, ReadUsage, Scan, Reserve, NoRowLeft, Refuse, DropReservation, Activate
<1>. QED
  BY <1>1, <1>2, <1>3 DEF Next, Age, Cool, Edit, AgentExplains, Open1, Answer, vars

\* Only ActivateExplainBatch opens a batch.
LEMMA Opened ==
    ASSUME Inv, [Next]_vars, NEW c \in Ids, batch'[c].state = "open", batch[c].state # "open"
    PROVE  \E r \in Runs : run[r].pc = "record" /\ run[r].cur = c
<1>0. /\ batch \in [Ids -> Rows] /\ run \in [Runs -> RunStates]
      /\ \A r \in Runs : run[r].pc \in Reading \union Sending => run[r].cur \in Ids
  BY DEF Inv, TypeOK, RunsSound, Sound
<1>1. batch' # batch
  OBVIOUS
<1>2. ASSUME NEW r \in Runs, Activate(r) PROVE run[r].pc = "record" /\ run[r].cur = c
  BY <1>0, <1>2 DEF Activate, Sending
<1>3. ASSUME NEW r \in Runs, Release(r) PROVE FALSE
  <2>1. Next1(r)[1] \in Ids
    BY <1>3, OldestListed DEF Release
  <2>. QED
    BY <1>0, <1>3, <2>1 DEF Release, Rows
<1>4. ASSUME NEW r \in Runs, CloseBatch(r) \/ DropReservation(r) PROVE FALSE
  <2>1. run[r].cur \in Ids
    BY <1>0, <1>4 DEF CloseBatch, DropReservation, Reading, Sending
  <2>2. \E state \in {"collected", "failed"} :
            batch' = [batch EXCEPT ![run[r].cur].state = state, ![run[r].cur].age = 0]
    BY <1>4 DEF CloseBatch, DropReservation
  <2>. QED
    BY <1>0, <2>1, <2>2 DEF Rows
<1>5. ASSUME NEW r \in Runs, Send(r) \/ Crash(r) PROVE FALSE
  BY <1>0, <1>5 DEF Send, Crash, Sending, Rows
<1>6. ASSUME NEW b \in Ids, NEW i \in Items, NEW state, NEW n, Finished(b, i, state, n) PROVE FALSE
  <2>1. batch' = [batch EXCEPT ![b] = [batch[b] EXCEPT !.item = [batch[b].item EXCEPT ![i] = state]]]
    BY <1>0, <1>1, <1>6 DEF Finished
  <2>. QED
    BY <1>0, <2>1 DEF Rows
<1>7. ASSUME NEW r \in Runs, Discard(r) \/ Book(r) \/ LoseItem(r) PROVE FALSE
  <2>1. /\ run[r].left \subseteq Items /\ (run[r].pc = "book" => run[r].item \in Items)
        /\ run[r].pc \in Reading
    BY <1>0, <1>7 DEF RunStates, Inv, RunsSound, Sound, Discard, Book, LoseItem, Reading
  <2>2. \E i \in Items, state \in {"done", "failed", "lost"}, n \in 0..1 : Finished(run[r].cur, i, state, n)
    <3>1. CASE Discard(r)
      BY <2>1, <3>1 DEF Discard
    <3>2. CASE Book(r)
      BY <2>1, <3>2 DEF Book
    <3>3. CASE LoseItem(r)
      BY <2>1, <3>3 DEF LoseItem
    <3>. QED
      BY <1>7, <3>1, <3>2, <3>3
  <2>. QED
    BY <1>0, <1>6, <2>1, <2>2
<1>8. ASSUME NEW r \in Runs, Reserve(r) PROVE FALSE
  <2>1. PICK b \in Ids :
            \E items : batch' = [batch EXCEPT ![b].state = "submitting", ![b].item = items]
    BY <1>1, <1>8, ZenonT(60) DEF Reserve
  <2>. QED
    BY <1>0, <2>1 DEF Rows
<1>9. ASSUME NEW b \in Ids, Age(b) PROVE FALSE
  BY <1>0, <1>9 DEF Age, Rows
<1>10. ASSUME NEW b \in Ids, NEW i \in Items, Cool(b, i) PROVE FALSE
  BY <1>0, <1>10 DEF Cool, Rows
<1>11. ASSUME NEW r \in Runs, Step(r) \/ Crash(r) PROVE run[r].pc = "record" /\ run[r].cur = c
  <2>1. CASE List(r) \/ LeaveOpen(r) \/ Fetch(r) \/ GiveUp(r) \/ Judge(r) \/ Save(r)
             \/ ReadWaiting(r) \/ ReadUsage(r) \/ Scan(r) \/ NoRowLeft(r) \/ Refuse(r)
    BY <1>1, <2>1 DEF List, LeaveOpen, Fetch, GiveUp, Judge, Save, ReadWaiting, ReadUsage, Scan, NoRowLeft, Refuse
  <2>. QED
    BY <1>2, <1>3, <1>4, <1>5, <1>7, <1>8, <1>11, <2>1 DEF Step
<1>. QED
  BY <1>1, <1>9, <1>10, <1>11 DEF Next, Edit, AgentExplains, Open1, Answer, vars

\* ReserveExplainBatch of a group: its calls wait from now on.
LEMMA GroupWaits ==
    ASSUME Inv, NEW r \in Runs, Reserve(r), batch' # batch
    PROVE  \E group \in SUBSET run[r].left, b \in Ids :
               /\ batch[b].state = "free" /\ batch'[b].state = "submitting" /\ ~batch'[b].harmed
               /\ \A c \in Ids \ {b} : batch'[c] = batch[c]
               /\ Cardinality(group) \in Nat /\ Cardinality(run[r].left) \in Nat
               /\ Cardinality(group) <= Cardinality(run[r].left)
               /\ Cardinality(run[r].left \ group) = Cardinality(run[r].left) - Cardinality(group)
               /\ Waiting' = Waiting + Cardinality(group)
               /\ run'[r].pc = "send" /\ run'[r].todo = run[r].todo /\ run'[r].left = run[r].left \ group
               /\ run'[r].alone => run[r].alone
               /\ \A q \in Runs \ {r} : Same(run[q], run'[q]) /\ ~run'[q].alone
<1>0. /\ batch \in [Ids -> Rows] /\ run \in [Runs -> RunStates] /\ run[r] \in RunStates /\ RowsFree
      /\ run[r].left \subseteq Items
  BY DEF Inv, TypeOK, RunStates
<1>1. PICK group \in SUBSET run[r].left, b \in Ids :
          /\ batch[b].state = "free"
          /\ batch' = [batch EXCEPT ![b].state = "submitting",
                                    ![b].item = [i \in Items |-> IF i \in group THEN "pending" ELSE "none"]]
          /\ run' = [q \in Runs |->
                       IF q = r THEN [run[q] EXCEPT !.pc = "send", !.cur = b, !.left = @ \ group,
                                                        !.alone = @ /\ run[q].left # group]
                       ELSE [run[q] EXCEPT !.alone = FALSE]]
  BY DEF Reserve, kSubset
<1>2. /\ batch[b] = FreeRow /\ \A c \in Ids \ {b} : batch'[c] = batch[c]
      /\ batch'[b].state = "submitting" /\ batch'[b].harmed = batch[b].harmed
      /\ batch'[b].item = [i \in Items |-> IF i \in group THEN "pending" ELSE "none"]
  BY <1>0, <1>1, ZenonT(60) DEF RowsFree, Rows
<1>4. /\ IsFiniteSet(run[r].left) /\ IsFiniteSet(group) /\ IsFiniteSet(run[r].left \ group)
      /\ Cardinality(group) \in Nat /\ Cardinality(run[r].left) \in Nat
      /\ Cardinality(group) <= Cardinality(run[r].left)
  BY <1>0, ItemsFinite, FS_Subset, FS_CardinalityType
<1>5. Cardinality(run[r].left \ group) = Cardinality(run[r].left) - Cardinality(group)
  <2>1. /\ run[r].left \intersect group = group
        /\ Cardinality(run[r].left \ group)
              = Cardinality(run[r].left) - Cardinality(run[r].left \intersect group)
    BY <1>4, FS_Difference
  <2>. QED
    BY <2>1
<1> DEFINE new == {<<b, i>> : i \in group}
<1>6. IsFiniteSet(new) /\ Cardinality(new) = Cardinality(group)
  <2>1. \A i, j \in group : i # j => <<b, i>> # <<b, j>>
    OBVIOUS
  <2> DEFINE f == [i \in group |-> <<b, i>>]
  <2>2. f \in Bijection(group, new)
    <3>1. f \in Injection(group, new)
      BY DEF Injection, IsInjective
    <3>2. \A w \in new : \E i \in group : f[i] = w
      OBVIOUS
    <3>. QED
      BY <3>1, <3>2 DEF Bijection, Surjection, Injection
  <2>3. ExistsBijection(group, new)
    BY <2>2, Zenon DEF ExistsBijection
  <2>. HIDE DEF f, new
  <2>. QED
    BY <1>4, <2>3, FS_Bijection
<1>7. /\ WaitingAt(batch') = WaitingAt(batch) \union new /\ WaitingAt(batch) \intersect new = {}
      /\ IsFiniteSet(WaitingAt(batch))
  <2>1. \A w \in WaitingAt(batch) : w \in Ids \X Items /\ w[1] # b
    BY <1>1 DEF WaitingAt
  <2>2. WaitingAt(batch) \intersect new = {}
    BY <2>1
  <2>3. new \subseteq Ids \X Items
    <3>1. \A i \in group : i \in Items
      BY <1>0
    <3>. QED
      BY <3>1
  <2>4. ASSUME NEW w \in Ids \X Items PROVE w \in WaitingAt(batch') <=> w \in WaitingAt(batch) \union new
    <3>1. CASE w[1] = b
      <4>1. w = <<b, w[2]>> /\ w[2] \in Items
        BY <2>4, <3>1
      <4>2. w \in WaitingAt(batch') <=> w[2] \in group
        BY <1>2, <2>4, <3>1, <4>1 DEF WaitingAt
      <4>3. w \in new <=> w[2] \in group
        BY <4>1
      <4>. QED
        BY <2>1, <3>1, <4>2, <4>3
    <3>2. CASE w[1] # b
      <4>1. batch'[w[1]] = batch[w[1]] /\ w \notin new
        BY <1>2, <2>4, <3>2
      <4>. QED
        BY <2>4, <4>1 DEF WaitingAt
    <3>. QED
      BY <3>1, <3>2
  <2>5. WaitingAt(batch') \subseteq Ids \X Items /\ WaitingAt(batch) \subseteq Ids \X Items
    BY DEF WaitingAt
  <2>. QED
    BY <2>2, <2>3, <2>4, <2>5, Counted
<1>8. Waiting' = Waiting + Cardinality(group)
  <2>. HIDE DEF new
  <2>1. Cardinality(WaitingAt(batch) \union new) = Cardinality(WaitingAt(batch)) + Cardinality(new)
            - Cardinality(WaitingAt(batch) \intersect new)
    BY <1>6, <1>7, FS_Union
  <2>2. Cardinality(WaitingAt(batch) \intersect new) = 0
    BY <1>7, FS_EmptySet
  <2>3. Cardinality(WaitingAt(batch)) \in Nat
    BY WaitingCounted
  <2>. QED
    BY <1>4, <1>6, <1>7, <2>1, <2>2, <2>3, WaitingCounted
<1>9. /\ run'[r].pc = "send" /\ run'[r].todo = run[r].todo /\ run'[r].left = run[r].left \ group
      /\ run'[r].alone => run[r].alone
  BY <1>0, <1>1 DEF RunStates
<1>10. ASSUME NEW q \in Runs \ {r} PROVE Same(run[q], run'[q]) /\ ~run'[q].alone
  <2>1. run[q] \in RunStates /\ run'[q] = [run[q] EXCEPT !.alone = FALSE]
    BY <1>0, <1>1
  <2>. QED
    BY <2>1 DEF Same, RunStates
<1>11. ~batch'[b].harmed
  BY <1>2 DEF FreeRow
<1>. QED
  BY <1>1, <1>2, <1>4, <1>5, <1>8, <1>9, <1>10, <1>11

\* A group with an object that is taken is skipped.
LEMMA SkipsGroup ==
    ASSUME Inv, NEW r \in Runs, Reserve(r), batch' = batch
    PROVE  \E group \in SUBSET run[r].left : run' = [run EXCEPT ![r] = Further(r, run[r].left \ group)]
<1>0. batch \in [Ids -> Rows] /\ run \in [Runs -> RunStates]
  BY DEF Inv, TypeOK
<1>1. PICK group \in SUBSET run[r].left :
          \/ run' = [run EXCEPT ![r] = Further(r, @.left \ group)]
          \/ \E b \in Ids : \E items :
                 /\ batch[b].state = "free"
                 /\ batch' = [batch EXCEPT ![b].state = "submitting", ![b].item = items]
  BY DEF Reserve, kSubset
<1>2. ASSUME NEW b \in Ids, NEW items, batch[b].state = "free",
             batch' = [batch EXCEPT ![b].state = "submitting", ![b].item = items]
      PROVE  FALSE
  <2>1. batch'[b].state = "submitting"
    BY <1>0, <1>2 DEF Rows
  <2>. QED
    BY <1>2, <2>1
<1>. QED
  BY <1>0, <1>1, <1>2

\* The calls that count and wait together never grow but when a run reserves
\* or one call is made on its own, and those that wait never grow.
LEMMA LoadFalls ==
    ASSUME CapInv, [Next]_vars, ~Reserving, Unharmed(batch'), \A usable \in BOOLEAN : ~Answer(usable)
    PROVE  /\ Used \in Nat /\ Used' \in Nat
           /\ Waiting' <= Waiting /\ Used' + Waiting' <= Used + Waiting
<1>0. /\ batch \in [Ids -> Rows] /\ run \in [Runs -> RunStates] /\ calls \in [batched : Nat, single : Nat]
      /\ \A r \in Runs : run[r].pc \in Reading \union Sending => run[r].cur \in Ids
      /\ \A r \in Runs : run[r].pc = "book" => run[r].item \in Items
      /\ Inv /\ ReadsLive
  BY DEF CapInv, Inv, TypeOK, RunsSound, Sound
<1>1. \A c \in Ids : Lasting(batch[c], batch'[c])
  BY RowsLast
<1>2. Unharmed(batch)
  BY <1>1 DEF Unharmed, Lasting, Onward
<1>3. WaitingAt(batch') \subseteq WaitingAt(batch)
  <2>. SUFFICES ASSUME NEW w \in WaitingAt(batch') PROVE w \in WaitingAt(batch)
    OBVIOUS
  <2>1. w \in Ids \X Items /\ w[1] \in Ids /\ w[2] \in Items
    BY DEF WaitingAt
  <2>2. w[2] \in Waits(batch'[w[1]]) /\ batch'[w[1]].state \in {"submitting", "open"}
    BY <2>1 DEF WaitingAt, Waits
  <2>3. w[2] \in Waits(batch[w[1]]) /\ batch[w[1]].state \in {"submitting", "open"}
    BY <1>1, <2>1, <2>2 DEF Lasting, Onward
  <2>. QED
    BY <2>1, <2>3 DEF WaitingAt, Waits
<1>4. Waiting \in Nat /\ Waiting' \in Nat /\ Waiting' <= Waiting
  <2>1. IsFiniteSet(WaitingAt(batch))
    BY Counted DEF WaitingAt
  <2>2. Cardinality(WaitingAt(batch')) <= Cardinality(WaitingAt(batch))
    BY <1>3, <2>1, FS_Subset
  <2>. QED
    BY <2>2, WaitingCounted
<1>5. CASE calls' = calls
  BY <1>0, <1>4, <1>5 DEF Used
<1>6. ASSUME NEW b \in Ids, NEW i \in Items, NEW state \in {"done", "failed"},
             Finished(b, i, state, 1), batch[b].item[i] = "pending", batch[b].state = "open"
      PROVE  Used \in Nat /\ Used' = Used + 1 /\ Waiting' + 1 = Waiting
  <2>1. /\ calls' = [calls EXCEPT !.batched = @ + 1]
        /\ batch' = [batch EXCEPT ![b] = [batch[b] EXCEPT !.item = [batch[b].item EXCEPT ![i] = state]]]
    BY <1>0, <1>6 DEF Finished
  <2>2. Used \in Nat /\ Used' = Used + 1
    BY <1>0, <2>1 DEF Used
  <2>3. /\ \A c \in Ids : batch'[c].state = batch[c].state
        /\ \A c \in Ids, j \in Items :
               batch'[c].item[j] = IF c = b /\ j = i THEN state ELSE batch[c].item[j]
    BY <1>0, <2>1 DEF Rows
  <2>4. WaitingAt(batch) = WaitingAt(batch') \union {<<b, i>>} /\ <<b, i>> \notin WaitingAt(batch')
    BY <1>6, <2>3 DEF WaitingAt
  <2>5. IsFiniteSet(WaitingAt(batch'))
    BY Counted DEF WaitingAt
  <2>6. Cardinality(WaitingAt(batch)) = Cardinality(WaitingAt(batch')) + 1
    BY <2>4, <2>5, FS_AddElement
  <2>. QED
    BY <2>2, <2>6, WaitingCounted
<1>7. ASSUME NEW r \in Runs, NEW i \in Items, NEW state \in {"done", "failed"},
             run[r].pc \in Reading, Finished(run[r].cur, i, state, 1)
      PROVE  Used \in Nat /\ Used' \in Nat /\ Used' + Waiting' <= Used + Waiting
  <2>1. CASE batch[run[r].cur].item[i] = "pending"
    <3>1. run[r].cur \in Ids /\ Waits(batch[run[r].cur]) # {}
      BY <1>0, <1>7, <2>1 DEF Waits
    <3>2. batch[run[r].cur].state = "open"
      BY <1>0, <1>2, <1>7, <3>1 DEF ReadsLive, LiveToRead
    <3>3. Used \in Nat /\ Used' = Used + 1 /\ Waiting' + 1 = Waiting
      BY <1>6, <1>7, <2>1, <3>1, <3>2
    <3>4. \A u, w, v \in Nat : v + 1 = w => u + 1 \in Nat /\ (u + 1) + v <= u + w
      OBVIOUS
    <3>. QED
      BY <1>4, <3>3, <3>4
  <2>2. CASE batch[run[r].cur].item[i] # "pending"
    <3>1. calls' = calls
      BY <1>7, <2>2 DEF Finished
    <3>. QED
      BY <1>0, <1>4, <3>1 DEF Used
  <2>. QED
    BY <2>1, <2>2
<1>8. ASSUME NEW r \in Runs, Discard(r) PROVE Used \in Nat /\ Used' \in Nat /\ Used' + Waiting' <= Used + Waiting
  <2>1. PICK i \in run[r].left :
            Finished(run[r].cur, i, IF Judged(run[r].cur, i) = "failed" THEN "failed" ELSE "done", 1)
    BY <1>8 DEF Discard
  <2>2. i \in Items /\ run[r].pc \in Reading
    BY <1>0, <1>8 DEF RunStates, Discard, Reading
  <2>. QED
    BY <1>7, <2>1, <2>2
<1>9. ASSUME NEW r \in Runs, Book(r) PROVE Used \in Nat /\ Used' \in Nat /\ Used' + Waiting' <= Used + Waiting
  <2>1. run[r].item \in Items /\ run[r].pc \in Reading /\ Finished(run[r].cur, run[r].item, "done", 1)
    BY <1>0, <1>9 DEF RunStates, Book, Reading
  <2>. QED
    BY <1>7, <2>1
<1>10. ASSUME NEW r \in Runs, LoseItem(r) PROVE Used \in Nat /\ Used' = Used
  <2>1. calls' = calls \/ calls' = [calls EXCEPT !.batched = @ + 0]
    BY <1>10, SMTT(40) DEF LoseItem, Finished
  <2>. QED
    BY <1>0, <2>1 DEF Used
<1>11. ASSUME NEW r \in Runs, Step(r) \/ Crash(r), ~(Discard(r) \/ Book(r) \/ LoseItem(r)) PROVE calls' = calls
  BY <1>11 DEF Step, Crash, List, Release, LeaveOpen, Fetch, GiveUp, Judge, Save, CloseBatch,
               ReadWaiting, ReadUsage, Scan, Reserve, NoRowLeft, Send, Refuse, DropReservation, Activate
<1>12. CASE \A r \in Runs : ~(Step(r) \/ Crash(r))
  BY <1>5, <1>12 DEF Next, Age, Cool, Edit, AgentExplains, Open1, vars
<1>. QED
  BY <1>4, <1>5, <1>8, <1>9, <1>10, <1>11, <1>12

\* Every step keeps what a run may still spend.
LEMMA CapInvStep == CapInv /\ [Next]_vars => CapInv'
<1>. SUFFICES ASSUME CapInv, [Next]_vars PROVE CapInv'
  OBVIOUS
<1>0. /\ Inv /\ OpenIsSent /\ ReadsLive /\ RoomLeft /\ Inv'
      /\ run \in [Runs -> RunStates] /\ batch \in [Ids -> Rows] /\ calls \in [batched : Nat, single : Nat]
      /\ \A r \in Runs : Sound(run[r], batch, remote)
      /\ \A r \in Runs : run[r].pc \in Reading \union Sending => run[r].cur \in Ids
  BY InvStep DEF CapInv, Inv, TypeOK, RunsSound, Sound
<1>1. ASSUME ~Reserving PROVE \A c \in Ids : Lasting(batch[c], batch'[c])
  BY <1>1, RowsLast
<1>2. Unharmed(batch') => Unharmed(batch)
  <2>1. CASE Reserving
    <3>1. PICK r \in Runs : Reserve(r) /\ batch' # batch
      BY <2>1 DEF Reserving
    <3>2. PICK b \in Ids : batch[b].state = "free" /\ \A c \in Ids \ {b} : batch'[c] = batch[c]
      BY <1>0, <3>1, GroupWaits
    <3>3. ~batch[b].harmed
      BY <1>0, <3>2 DEF Inv, RowsFree, FreeRow
    <3>. QED
      BY <3>2, <3>3 DEF Unharmed
  <2>2. CASE ~Reserving
    BY <1>1, <2>2 DEF Unharmed, Lasting, Onward
  <2>. QED
    BY <2>1, <2>2
\* A run that reserves goes on to send, plans the next group or is over.
<1>3. ASSUME NEW r \in Runs, Reserve(r)
      PROVE  /\ run'[r].pc \in {"send", "reserve", "idle", "ended"} /\ run'[r].todo \subseteq run[r].todo
             /\ UNCHANGED <<remote, calls, gen>> /\ run[r].pc = "reserve"
  <2>1. CASE batch' # batch
    <3>1. run'[r].pc = "send" /\ run'[r].todo = run[r].todo
      BY <1>0, <1>3, <2>1, GroupWaits
    <3>. QED
      BY <1>3, <3>1 DEF Reserve
  <2>2. CASE batch' = batch
    <3>1. PICK group \in SUBSET run[r].left : run' = [run EXCEPT ![r] = Further(r, run[r].left \ group)]
      BY <1>0, <1>3, <2>2, SkipsGroup
    <3>2. run'[r] = Further(r, run[r].left \ group) /\ run[r].left \ group \in SUBSET Items
      BY <1>0, <3>1 DEF RunStates
    <3>3. /\ run'[r].pc \in {"reserve", "idle", "ended"} /\ run'[r].todo \subseteq run[r].todo
      <4>. HIDE DEF Inv
      <4>. QED
        BY <1>0, <3>2, FurtherSound
    <3>. QED
      BY <1>3, <3>3 DEF Reserve
  <2>. QED
    BY <2>1, <2>2
<1>4. OpenIsSent'
  <2>1. ASSUME NEW c \in Ids, batch'[c].state = "open" PROVE remote'[c] # "none"
    <3>1. remote[c] # "none"
      BY <1>0, <2>1, Opened DEF OpenIsSent
    <3>. QED
      BY <1>0, <3>1, RemoteStays
  <2>2. ASSUME NEW q \in Runs, run'[q].pc = "record" PROVE remote'[run'[q].cur] # "none"
    <3>1. CASE Same(run[q], run'[q])
      <4>1. run[q].pc = "record" /\ run'[q].cur = run[q].cur /\ run[q].cur \in Ids
        BY <1>0, <2>2, <3>1 DEF Same, Sending
      <4>. QED
        BY <1>0, <4>1, RemoteStays DEF OpenIsSent
    <3>2. CASE Step(q) \/ Crash(q)
      <4>1. ~Reserve(q)
        BY <1>3, <2>2
      <4>2. run'[q].cur = run[q].cur /\ remote'[run[q].cur] = "accepted"
        BY <1>0, <2>2, <3>2, <4>1, OwnBatches
      <4>. QED
        BY <4>2
    <3>. QED
      BY <1>0, <3>1, <3>2, OthersRun
  <2>. QED
    BY <2>1, <2>2 DEF OpenIsSent
<1>5. ReadsLive'
  <2>. SUFFICES ASSUME Unharmed(batch'), NEW q \in Runs, NEW b \in Ids,
                       <<b, "open">> \in run'[q].todo \/ (run'[q].pc \in Reading /\ run'[q].cur = b),
                       Waits(batch'[b]) # {}
                PROVE  batch'[b].state = "open"
    BY DEF ReadsLive, LiveToRead
  <2>1. \/ <<b, "open">> \in run[q].todo
        \/ run[q].pc \in Reading /\ run[q].cur = b
        \/ batch[b].state = "open" /\ batch' = batch
    <3>1. CASE Same(run[q], run'[q])
      BY <3>1 DEF Same
    <3>2. CASE Reserve(q)
      <4>1. run'[q].pc \notin Reading /\ run'[q].todo \subseteq run[q].todo
        BY <1>3, <3>2 DEF Reading
      <4>. QED
        BY <4>1
    <3>3. CASE (Step(q) \/ Crash(q)) /\ ~Reserve(q)
      BY <1>0, <3>3, OwnBatches
    <3>. QED
      BY <1>0, <3>1, <3>2, <3>3, OthersRun
  <2>2. CASE batch[b].state = "open" /\ batch' = batch
    BY <2>2
  <2>3. CASE <<b, "open">> \in run[q].todo \/ (run[q].pc \in Reading /\ run[q].cur = b)
    <3>1. batch[b].state # "free" /\ Sound(run[q], batch, remote)
      <4>1. Sound(run[q], batch, remote)
        BY <1>0
      <4>. QED
        BY <2>3, <4>1 DEF Sound
    <3>2. CASE Reserving
      <4>1. PICK r \in Runs : Reserve(r) /\ batch' # batch
        BY <3>2 DEF Reserving
      <4>2. PICK d \in Ids : batch[d].state = "free" /\ \A c \in Ids \ {d} : batch'[c] = batch[c]
        BY <1>0, <4>1, GroupWaits
      <4>3. batch'[b] = batch[b]
        BY <3>1, <4>2
      <4>. QED
        BY <1>0, <1>2, <2>3, <4>3 DEF ReadsLive, LiveToRead
    <3>3. CASE ~Reserving
      <4>1. Lasting(batch[b], batch'[b]) /\ ~batch'[b].harmed
        BY <1>1, <3>3 DEF Unharmed
      <4>2. Waits(batch[b]) # {}
        BY <4>1 DEF Lasting, Onward
      <4>3. batch[b].state = "open"
        BY <1>0, <1>2, <2>3, <4>2 DEF ReadsLive, LiveToRead
      <4>. QED
        BY <4>1, <4>3 DEF Lasting
    <3>. QED
      BY <3>2, <3>3
  <2>. QED
    BY <2>1, <2>2, <2>3
<1>6. RoomLeft'
  <2>0. /\ \A u, v, w, x, y, z \in Int : w + x <= u + v /\ z <= y /\ u + v + y <= Cap => w + x + z <= Cap
        /\ \A u, v, w, x, y \in Int : w + x <= u + v /\ v + y <= Cap => w + x + (y - u) <= Cap
        /\ \A w, x, y \in Int : x <= w /\ w + y <= Cap => x + y <= Cap
        /\ \A w, x \in Int : x <= w => x + (Cap - w) <= Cap
        /\ \A u, v, m, n \in Int : u + v + n <= Cap => u + (v + m) + (n - m) <= Cap
    BY ExplainAssumption
  <2>. SUFFICES ASSUME Unharmed(batch'), NEW q \in Runs, run'[q].alone
                PROVE  gen' = NoItem /\ Within(run'[q], Used', Waiting')
    BY DEF RoomLeft
  <2>1. run[q].alone => gen = NoItem /\ Within(run[q], Used, Waiting)
    BY <1>0, <1>2 DEF RoomLeft
  <2>2. /\ Used \in Nat /\ Waiting \in Nat /\ run[q].room \in Int /\ Cap \in Int
        /\ run'[q].room \in Int /\ Cardinality(run[q].left) \in Nat /\ Cardinality(run'[q].left) \in Nat
        /\ Used' \in Nat /\ Waiting' \in Nat /\ IsFiniteSet(run[q].left)
    <3>1. run[q].left \subseteq Items /\ run'[q].left \subseteq Items /\ run[q].room \in Int /\ run'[q].room \in Int
      BY <1>0 DEF Inv, TypeOK, RunStates
    <3>2. IsFiniteSet(run[q].left) /\ Cardinality(run[q].left) \in Nat /\ Cardinality(run'[q].left) \in Nat
      BY <3>1, ItemsFinite, FS_Subset, FS_CardinalityType
    <3>3. Used \in Nat /\ Used' \in Nat
      <4>1. calls \in [batched : Nat, single : Nat] /\ calls' \in [batched : Nat, single : Nat]
        BY <1>0 DEF Inv, TypeOK
      <4>. QED
        BY <4>1 DEF Used
    <3>. QED
      BY <3>1, <3>2, <3>3, WaitingCounted, ExplainAssumption
  <2>3. PICK used \in Nat, waiting \in Nat : used = Used' /\ waiting = Waiting'
    BY <2>2
  <2>4. CASE Reserving
    <3>1. PICK r \in Runs : Reserve(r) /\ batch' # batch
      BY <2>4 DEF Reserving
    <3>2. PICK group \in SUBSET run[r].left :
               /\ Cardinality(group) \in Nat
               /\ Cardinality(run[r].left \ group) = Cardinality(run[r].left) - Cardinality(group)
               /\ Waiting' = Waiting + Cardinality(group)
               /\ run'[r].pc = "send" /\ run'[r].left = run[r].left \ group
               /\ run'[r].alone => run[r].alone
               /\ \A p \in Runs \ {r} : ~run'[p].alone
      BY <1>0, <3>1, GroupWaits
    <3>3. q = r /\ run[q].alone
      BY <3>2
    <3>4. gen' = gen /\ Used' = Used /\ run[q].pc = "reserve"
      BY <1>3, <3>1, <3>3 DEF Used
    <3>5. Used + Waiting + Cardinality(run[q].left) <= Cap /\ gen = NoItem
      BY <2>1, <3>3, <3>4 DEF Within
    <3>6. /\ used = Used /\ waiting = Waiting + Cardinality(group)
          /\ Cardinality(run'[q].left) = Cardinality(run[q].left) - Cardinality(group)
      BY <2>3, <3>2, <3>3, <3>4
    <3>7. used + waiting + Cardinality(run'[q].left) <= Cap
      BY <2>0, <2>2, <3>2, <3>5, <3>6
    <3>8. Within(run'[q], used, waiting)
      BY <3>2, <3>3, <3>7 DEF Within, Spending
    <3>. QED
      BY <2>3, <3>4, <3>5, <3>8
  <2>5. CASE \E usable \in BOOLEAN : Answer(usable)
    <3>1. gen # NoItem /\ run' = run
      BY <2>5 DEF Answer
    <3>. QED
      BY <2>1, <3>1
  <2>6. CASE ~Reserving /\ ~\E usable \in BOOLEAN : Answer(usable)
    <3>1. waiting <= Waiting /\ used + waiting <= Used + Waiting
      <4>1. Waiting' <= Waiting /\ Used' + Waiting' <= Used + Waiting
        BY <2>6, LoadFalls
      <4>. QED
        BY <2>3, <4>1, Zenon
    <3>2. SUFFICES gen' = NoItem /\ Within(run'[q], used, waiting)
      BY <2>3
    <3>3. CASE Same(run[q], run'[q])
      <4>1. run[q].alone /\ gen = NoItem /\ Within(run[q], Used, Waiting)
        BY <2>1, <3>3 DEF Same
      <4>2. gen' = gen
        <5>1. ASSUME NEW o \in Viewed, Open1(o) PROVE FALSE
          <6>1. run[q] \in RunStates /\ run'[q] = [run[q] EXCEPT !.alone = FALSE]
            BY <1>0, <5>1 DEF Open1
          <6>2. ~run'[q].alone
            BY <6>1 DEF RunStates
          <6>. QED
            BY <6>2
        <5>2. ASSUME NEW r \in Runs, Step(r) \/ Crash(r) PROVE gen' = gen
          BY <5>2 DEF Step, Crash, List, Release, LeaveOpen, Fetch, GiveUp, Discard, Judge, Save,
             Book, LoseItem, CloseBatch, ReadWaiting, ReadUsage, Scan, Reserve, NoRowLeft, Send, Refuse,
             DropReservation, Activate
        <5>. QED
          BY <2>6, <5>1, <5>2 DEF Next, Age, Cool, Edit, AgentExplains, vars
      <4>3. run'[q].pc = run[q].pc /\ run'[q].left = run[q].left /\ run'[q].room = run[q].room
        BY <3>3 DEF Same
      <4>4. run[q].pc = "usage" => waiting + run'[q].room <= Cap
        BY <2>0, <2>2, <3>1, <4>1, <4>3 DEF Within
      <4>5. run[q].pc = "scan" => used + waiting + run'[q].room <= Cap
        BY <2>0, <2>2, <3>1, <4>1, <4>3 DEF Within
      <4>6. run[q].pc \in Spending \ {"usage", "scan"} => used + waiting + Cardinality(run'[q].left) <= Cap
        BY <2>0, <2>2, <3>1, <4>1, <4>3 DEF Within, Spending
      <4>. QED
        BY <4>1, <4>2, <4>3, <4>4, <4>5, <4>6 DEF Within, Spending
    <3>4. CASE Reserve(q)
      <4>1. batch' = batch
        BY <2>6, <3>4 DEF Reserving
      <4>2. PICK group \in SUBSET run[q].left : run' = [run EXCEPT ![q] = Further(q, run[q].left \ group)]
        BY <1>0, <3>4, <4>1, SkipsGroup
      <4>3. run'[q] = Further(q, run[q].left \ group)
        BY <1>0, <4>2
      <4>4. Further(q, run[q].left \ group) = [run[q] EXCEPT !.pc = "reserve", !.cur = 0, !.left = run[q].left \ group]
        BY <4>3 DEF Further, Over, IdleRun
      <4>5. run'[q].pc = "reserve" /\ run'[q].left \subseteq run[q].left /\ run[q].alone
        <5>1. run[q] \in RunStates /\ run'[q] = [run[q] EXCEPT !.pc = "reserve", !.cur = 0, !.left = run[q].left \ group]
          BY <1>0, <4>3, <4>4
        <5>2. /\ run'[q].pc = "reserve" /\ run'[q].left = run[q].left \ group /\ run'[q].alone = run[q].alone
          BY <5>1 DEF RunStates
        <5>. QED
          BY <5>2
      <4>6. Cardinality(run'[q].left) <= Cardinality(run[q].left)
        BY <2>2, <4>5, FS_Subset
      <4>7. Used + Waiting + Cardinality(run[q].left) <= Cap /\ gen = NoItem /\ gen' = gen
        BY <1>3, <2>1, <3>4, <4>5 DEF Within
      <4>8. used + waiting + Cardinality(run'[q].left) <= Cap
        BY <2>0, <2>2, <3>1, <4>6, <4>7
      <4>. QED
        BY <4>5, <4>7, <4>8 DEF Within, Spending
    <3>5. CASE (Step(q) \/ Crash(q)) /\ ~Reserve(q)
      <4>1. run[q].alone => run[q].pc \in Spending
        BY <2>1 DEF Within
      <4>2. gen' = gen
        BY <1>0, <3>5, <4>1, OwnCalls
      <4>3. CASE run'[q].pc = "usage" /\ run'[q].room = Cap - Waiting /\ gen = NoItem
        <5>1. waiting + run'[q].room <= Cap
          BY <2>0, <2>2, <3>1, <4>3
        <5>. QED
          BY <4>2, <4>3, <5>1 DEF Within, Spending
      <4>4. CASE /\ run[q].alone /\ run[q].pc = "usage"
                 /\ run'[q].pc = "scan" /\ run'[q].room = run[q].room - Used
        <5>1. Waiting + run[q].room <= Cap /\ gen = NoItem
          BY <2>1, <4>4 DEF Within
        <5>2. used + waiting + run'[q].room <= Cap
          BY <2>0, <2>2, <3>1, <4>4, <5>1
        <5>. QED
          BY <4>2, <4>4, <5>1, <5>2 DEF Within, Spending
      <4>5. CASE /\ run[q].alone /\ run[q].pc = "scan"
                 /\ run'[q].pc = "reserve" /\ Cardinality(run'[q].left) <= run[q].room
        <5>1. Used + Waiting + run[q].room <= Cap /\ gen = NoItem
          BY <2>1, <4>5 DEF Within
        <5>2. used + waiting + Cardinality(run'[q].left) <= Cap
          BY <2>0, <2>2, <3>1, <4>5, <5>1
        <5>. QED
          BY <4>2, <4>5, <5>1, <5>2 DEF Within, Spending
      <4>6. CASE /\ run[q].alone /\ run[q].pc \in Spending \ {"usage", "scan"}
                 /\ run'[q].pc \in Spending \ {"usage", "scan"} /\ run'[q].left = run[q].left
        <5>1. Used + Waiting + Cardinality(run[q].left) <= Cap /\ gen = NoItem
          BY <2>1, <4>6 DEF Within, Spending
        <5>2. used + waiting + Cardinality(run'[q].left) <= Cap
          BY <2>0, <2>2, <3>1, <4>6, <5>1
        <5>. QED
          BY <4>2, <4>6, <5>1, <5>2 DEF Within, Spending
      <4>. QED
        BY <1>0, <3>5, <4>1, <4>3, <4>4, <4>5, <4>6, OwnCalls
    <3>. QED
      BY <1>0, <3>3, <3>4, <3>5, OthersRun
  <2>. QED
    BY <2>4, <2>5, <2>6
<1>. QED
  BY <1>0, <1>4, <1>5, <1>6 DEF CapInv

\* A run that nobody interferes with keeps within the cap when it reserves the
\* next batch (ReadWaiting before ReadUsage in SubmitBatches).
THEOREM CallsWithinCap == Spec => CapKept
<1>1. Init => CapInv
  <2>. SUFFICES ASSUME Init PROVE CapInv
    OBVIOUS
  <2>1. OpenIsSent
    BY DEF Init, OpenIsSent, FreeRow, IdleRun
  <2>2. ReadsLive
    BY DEF Init, ReadsLive, LiveToRead, IdleRun, Reading
  <2>3. RoomLeft
    BY DEF Init, RoomLeft, IdleRun
  <2>. QED
    BY <2>1, <2>2, <2>3, InvInit DEF CapInv
<1>2. ASSUME CapInv, NEW r \in Runs, Reserve(r), batch' # batch, run[r].alone, Unharmed(batch)
      PROVE  Used + Cardinality(WaitingAt(batch')) <= Cap
  <2>0. /\ Inv /\ Within(run[r], Used, Waiting) /\ run[r].pc = "reserve"
        /\ calls \in [batched : Nat, single : Nat]
    BY <1>2 DEF CapInv, RoomLeft, Reserve, Inv, TypeOK
  <2>1. PICK group \in SUBSET run[r].left :
            /\ Cardinality(group) \in Nat /\ Cardinality(run[r].left) \in Nat
            /\ Cardinality(group) <= Cardinality(run[r].left)
            /\ Waiting' = Waiting + Cardinality(group)
    BY <1>2, <2>0, GroupWaits
  <2>2. Used + Waiting + Cardinality(run[r].left) <= Cap
    BY <2>0 DEF Within
  <2>3. Used \in Nat
    BY <2>0 DEF Used
  <2>. QED
    BY <2>1, <2>2, <2>3, WaitingCounted, ExplainAssumption
<1>3. CapInv /\ [Next]_vars => [\A r \in Runs :
        Reserve(r) /\ batch' # batch /\ run[r].alone /\ (\A b \in Ids : ~batch[b].harmed)
            => Used + Cardinality({w \in Ids \X Items :
                    /\ batch'[w[1]].state \in {"submitting", "open"}
                    /\ batch'[w[1]].item[w[2]] = "pending"}) <= Cap]_vars
  BY <1>2 DEF Unharmed, WaitingAt
<1>. QED
  BY <1>1, <1>3, CapInvStep, PTL DEF Spec, CapKept

=============================================================================
