-------------------------- MODULE WaitCyclesProofs --------------------------
(***************************************************************************)
(* Proofs about the register of mutual waits, for any agents, messages,    *)
(* times and interval.  Everything rests on one lemma: comparing a sound   *)
(* register with the mutual waits of any graph leaves it sound.            *)
(***************************************************************************)
EXTENDS WaitCycles, TLAPS

\* What each property says, of any register r.
Spaced(r) ==
    \A S \in Sets : \A i, j \in 1..Len(r.told[S]) :
        i < j => r.told[S][j] - r.told[S][i] >= Interval

\* No notice and no row is younger than the last comparison.
Past(r) ==
    /\ \A S \in Sets : \A i \in 1..Len(r.told[S]) : r.told[S][i] <= r.compared
    /\ \A S \in Sets : r.formed[S] <= r.compared

ToldFor(r, S) ==
    \E R \in Sets :
        /\ S \subseteq R
        /\ \E i \in 1..Len(r.told[R]) : r.told[R][i] >= r.formed[S]

Told(r) == \A S \in r.active \ r.held : ToldFor(r, S)

HeldOwn(r) ==
    \A S \in r.held :
        /\ S \in r.active
        /\ \E i \in 1..Len(r.told[S]) : r.told[S][i] > r.formed[S] - Interval

HeldLimited(r) ==
    \A S \in r.held : \E i \in 1..Len(r.told[S]) : r.told[S][i] > r.compared - Interval

Apart(sets) == \A R, S \in sets : R = S \/ R \intersect S = {}

Sound(r) ==
    /\ r \in Registers
    /\ Spaced(r) /\ Past(r) /\ Told(r) /\ HeldOwn(r) /\ HeldLimited(r)
    /\ Apart(r.active)

Inv == TypeOK /\ Sound(reg) /\ reg.compared <= now

-----------------------------------------------------------------------------
(* Mutual waits.                                                           *)

LEMMA ReachesTransitive ==
    ASSUME NEW E, NEW a, NEW b, NEW c, Reaches(E, a, b), Reaches(E, b, c)
    PROVE  Reaches(E, a, c)
BY DEF Reaches

\* Two groups of mutual waits that share an agent are the same group.
LEMMA GroupsApart ==
    ASSUME NEW E
    PROVE  Groups(E) \subseteq Sets /\ Apart(Groups(E))
<1>1. Groups(E) \subseteq Sets
  BY DEF Groups, GroupOf, Sets
<1>2. ASSUME NEW a \in Agents, NEW b \in Agents, NEW x \in Agents,
             x \in GroupOf(E, a), x \in GroupOf(E, b)
      PROVE  GroupOf(E, a) \subseteq GroupOf(E, b)
  <2> SUFFICES ASSUME NEW y \in Agents, y \in GroupOf(E, a)
               PROVE  y \in GroupOf(E, b)
    BY DEF GroupOf
  <2>1. Reaches(E, a, x) /\ Reaches(E, x, a) /\ Reaches(E, b, x) /\ Reaches(E, x, b)
    BY <1>2 DEF GroupOf
  <2>2. Reaches(E, a, y) /\ Reaches(E, y, a)
    BY DEF GroupOf
  <2>3. Reaches(E, b, a) /\ Reaches(E, a, b)
    BY <2>1, ReachesTransitive
  <2>4. Reaches(E, b, y) /\ Reaches(E, y, b)
    BY <2>2, <2>3, ReachesTransitive
  <2> QED BY <2>4 DEF GroupOf
<1>3. ASSUME NEW R \in Groups(E), NEW S \in Groups(E), NEW x \in R, x \in S
      PROVE  R = S
  <2>1. PICK a \in Agents : R = GroupOf(E, a) BY DEF Groups
  <2>2. PICK b \in Agents : S = GroupOf(E, b) BY DEF Groups
  <2>3. x \in Agents BY <2>1 DEF GroupOf
  <2>4. R \subseteq S /\ S \subseteq R BY <1>2, <1>3, <2>1, <2>2, <2>3
  <2> QED BY <2>4
<1> QED BY <1>1, <1>3 DEF Apart

-----------------------------------------------------------------------------
(* One comparison of the register.                                         *)

\* What a comparison does to the notices of a set.
LEMMA NotesGrow ==
    ASSUME NEW notes \in Seq(Nat), NEW t \in Nat
    PROVE  /\ Append(notes, t) \in Seq(Nat)
           /\ Len(notes) \in Nat /\ Len(Append(notes, t)) = Len(notes) + 1
           /\ \A i \in 1..Len(notes) : Append(notes, t)[i] = notes[i] /\ notes[i] \in Nat
           /\ Append(notes, t)[Len(notes) + 1] = t
OBVIOUS

LEMMA ReconciledSound ==
    ASSUME NEW r, Sound(r), NEW t \in Nat, r.compared <= t,
           NEW cycles, cycles \subseteq Sets, Apart(cycles)
    PROVE  Sound(Reconciled(r, cycles, t)) /\ Reconciled(r, cycles, t).compared = t
<1> DEFINE q == Reconciled(r, cycles, t)
           due == Due(r, cycles)
           tells == Tells(r, due, t)
<1>1. /\ q.active = cycles /\ q.held = due \ tells /\ q.compared = t
      /\ q.formed = [S \in Sets |-> IF S \in cycles THEN FormedAt(r, S, t) ELSE 0]
      /\ q.told = [S \in Sets |-> IF S \in tells THEN Append(r.told[S], t) ELSE r.told[S]]
      /\ DOMAIN q = {"active", "held", "formed", "told", "compared"}
      /\ q = [active |-> q.active, held |-> q.held, formed |-> q.formed,
              told |-> q.told, compared |-> q.compared]
  BY DEF Reconciled, Standing
<1>2. /\ r.active \subseteq Sets /\ r.held \subseteq Sets /\ r.compared \in Nat
      /\ \A S \in Sets : r.formed[S] \in Nat /\ r.formed[S] <= r.compared
      /\ \A S \in Sets : r.told[S] \in Seq(Nat)
      /\ \A S \in Sets : \A i \in 1..Len(r.told[S]) : r.told[S][i] <= r.compared
      /\ Interval \in Nat
  BY WaitAssumption DEF Sound, Registers, Past
<1>3. due \subseteq Sets /\ due \subseteq cycles /\ tells \subseteq due
  BY DEF Due, Tells
<1>4. \A S \in Sets : FormedAt(r, S, t) \in Nat /\ FormedAt(r, S, t) <= t
  <2> SUFFICES ASSUME NEW S \in Sets
               PROVE  FormedAt(r, S, t) \in Nat /\ FormedAt(r, S, t) <= t
    OBVIOUS
  <2>1. CASE S \in r.active BY <1>2, <2>1 DEF FormedAt
  <2>2. CASE S \notin r.active /\ Covers(r, S) = {} BY <2>2 DEF FormedAt
  <2>3. CASE S \notin r.active /\ Covers(r, S) # {}
    <3> DEFINE C == CHOOSE R \in Covers(r, S) : TRUE
    <3>1. C \in Covers(r, S) BY <2>3
    <3>2. C \in Sets BY <1>2, <3>1 DEF Covers
    <3>3. FormedAt(r, S, t) = r.formed[C] BY <2>3 DEF FormedAt
    <3> HIDE DEF C
    <3> QED BY <1>2, <3>2, <3>3
  <2> QED BY <2>1, <2>2, <2>3
<1>5. \A S \in Sets : /\ q.formed[S] \in Nat /\ q.formed[S] <= t
                      /\ S \in cycles => q.formed[S] = FormedAt(r, S, t)
  BY <1>1, <1>4
<1>6. ASSUME NEW S \in Sets
      PROVE  /\ q.told[S] \in Seq(Nat)
             /\ \A i \in 1..Len(r.told[S]) : i \in 1..Len(q.told[S]) /\ q.told[S][i] = r.told[S][i]
             /\ \A i \in 1..Len(q.told[S]) :
                    \/ i \in 1..Len(r.told[S]) /\ q.told[S][i] = r.told[S][i]
                    \/ S \in tells /\ i = Len(r.told[S]) + 1 /\ q.told[S][i] = t
             /\ S \in tells => Len(r.told[S]) + 1 \in 1..Len(q.told[S])
                               /\ q.told[S][Len(r.told[S]) + 1] = t
  <2>1. r.told[S] \in Seq(Nat) /\ Len(r.told[S]) \in Nat BY <1>2
  <2>2. CASE S \in tells
    <3>1. q.told[S] = Append(r.told[S], t) BY <1>1, <2>2
    <3> HIDE DEF q, tells, due
    <3>2. Len(q.told[S]) = Len(r.told[S]) + 1 /\ q.told[S] \in Seq(Nat)
      BY <2>1, <3>1, NotesGrow
    <3>3. /\ \A i \in 1..Len(r.told[S]) : q.told[S][i] = r.told[S][i]
          /\ q.told[S][Len(r.told[S]) + 1] = t
      BY <2>1, <3>1, NotesGrow
    <3>4. /\ \A i \in 1..Len(r.told[S]) : i \in 1..Len(q.told[S])
          /\ Len(r.told[S]) + 1 \in 1..Len(q.told[S])
          /\ \A i \in 1..Len(q.told[S]) : i \in 1..Len(r.told[S]) \/ i = Len(r.told[S]) + 1
      <4>1. \A n, k \in Nat : k = n + 1 =>
                /\ \A i \in 1..n : i \in 1..k
                /\ n + 1 \in 1..k
                /\ \A i \in 1..k : i \in 1..n \/ i = n + 1
        OBVIOUS
      <4>2. Len(q.told[S]) \in Nat BY <2>1, <3>2
      <4> QED BY <2>1, <3>2, <4>1, <4>2
    <3> QED BY <2>2, <3>2, <3>3, <3>4
  <2>3. CASE S \notin tells
    <3>1. q.told[S] = r.told[S] BY <1>1, <2>3
    <3> HIDE DEF q, tells, due
    <3> QED BY <2>1, <2>3, <3>1
  <2> QED BY <2>2, <2>3
<1>7. q \in Registers
  <2>1. q.told \in [Sets -> Seq(Nat)] /\ q.formed \in [Sets -> Nat]
    <3>1. DOMAIN q.told = Sets /\ DOMAIN q.formed = Sets
          /\ q.told = [S \in Sets |-> q.told[S]] /\ q.formed = [S \in Sets |-> q.formed[S]]
      BY <1>1
    <3> HIDE DEF q
    <3> QED BY <1>5, <1>6, <3>1
  <2>2. q.active \in SUBSET Sets /\ q.held \in SUBSET Sets /\ q.compared \in Nat
    BY <1>1, <1>3
  <2> HIDE DEF q
  <2> QED BY <1>1, <2>1, <2>2 DEF Registers
<1>8. Spaced(q)
  <2> SUFFICES ASSUME NEW S \in Sets, NEW i \in 1..Len(q.told[S]),
                      NEW j \in 1..Len(q.told[S]), i < j
               PROVE  q.told[S][j] - q.told[S][i] >= Interval
    BY DEF Spaced
  <2>0. r.told[S] \in Seq(Nat) /\ Len(r.told[S]) \in Nat BY <1>2
  <2>1. CASE j \in 1..Len(r.told[S])
    <3>1. i \in 1..Len(r.told[S]) BY <2>0, <2>1, <1>6
    <3>2. q.told[S][i] = r.told[S][i] /\ q.told[S][j] = r.told[S][j]
      BY <1>6, <2>1, <3>1
    <3> HIDE DEF q
    <3> QED BY <2>1, <3>1, <3>2 DEF Sound, Spaced
  <2>2. CASE j \notin 1..Len(r.told[S])
    <3>1. S \in tells /\ j = Len(r.told[S]) + 1 /\ q.told[S][j] = t
      BY <1>6, <2>2
    <3>2. i \in 1..Len(r.told[S]) BY <2>0, <3>1
    <3>3. q.told[S][i] = r.told[S][i] BY <1>6, <3>2
    <3>4. ~(r.told[S][i] > t - Interval) /\ r.told[S][i] \in Nat
      BY <2>0, <3>1, <3>2 DEF Tells, Limited
    <3>5. t - r.told[S][i] >= Interval
      <4>1. \A x, y, k \in Nat : ~(x > y - k) => y - x >= k OBVIOUS
      <4> QED BY <1>2, <3>4, <4>1
    <3> HIDE DEF q, tells, due
    <3> QED BY <3>1, <3>3, <3>5
  <2> QED BY <2>1, <2>2
<1>9. Past(q)
  <2>1. ASSUME NEW S \in Sets, NEW i \in 1..Len(q.told[S]) PROVE q.told[S][i] <= t
    <3>1. CASE i \in 1..Len(r.told[S])
      <4>1. q.told[S][i] = r.told[S][i] /\ r.told[S][i] \in Nat BY <1>2, <1>6, <3>1
      <4>2. r.told[S][i] <= r.compared BY <1>2, <3>1
      <4> HIDE DEF q
      <4> QED BY <1>2, <4>1, <4>2
    <3>2. CASE i \notin 1..Len(r.told[S])
      BY <1>6, <2>1, <3>2
    <3> QED BY <3>1, <3>2
  <2> QED BY <1>1, <1>5, <2>1 DEF Past
<1>10. Told(q)
  <2> SUFFICES ASSUME NEW S \in cycles, S \notin due \ tells PROVE ToldFor(q, S)
    BY <1>1 DEF Told
  <2>0. S \in Sets /\ q.formed[S] = FormedAt(r, S, t) BY <1>5
  <2>1. CASE S \in tells
    <3>1. q.told[S][Len(r.told[S]) + 1] >= q.formed[S]
          /\ Len(r.told[S]) + 1 \in 1..Len(q.told[S])
      BY <1>5, <1>6, <2>0, <2>1
    <3> HIDE DEF q
    <3> QED BY <2>0, <3>1 DEF ToldFor
  <2>2. ASSUME NEW O \in r.active \ r.held, S \subseteq O, q.formed[S] = r.formed[O]
        PROVE  ToldFor(q, S)
    <3>1. PICK R \in Sets : O \subseteq R
              /\ \E i \in 1..Len(r.told[R]) : r.told[R][i] >= r.formed[O]
      BY DEF Sound, Told, ToldFor
    <3>2. PICK i \in 1..Len(r.told[R]) : r.told[R][i] >= r.formed[O] BY <3>1
    <3>3. i \in 1..Len(q.told[R]) /\ q.told[R][i] = r.told[R][i] BY <1>6
    <3> HIDE DEF q
    <3> QED BY <2>2, <3>1, <3>2, <3>3 DEF ToldFor
  <2>3. CASE S \notin due /\ S \in r.active
    <3>1. S \in r.active \ r.held /\ q.formed[S] = r.formed[S]
      BY <2>0, <2>3 DEF Due, FormedAt
    <3> QED BY <2>2, <3>1
  <2>4. CASE S \notin due /\ S \notin r.active
    <3> DEFINE C == CHOOSE R \in Covers(r, S) : TRUE
    <3>1. Covers(r, S) # {} BY <2>4 DEF Due
    <3>2. C \in Covers(r, S) /\ q.formed[S] = r.formed[C]
      BY <2>0, <2>4, <3>1 DEF FormedAt
    <3> HIDE DEF C, q
    <3>3. C \in r.active \ r.held /\ S \subseteq C BY <3>2 DEF Covers
    <3> QED BY <2>2, <3>2, <3>3
  <2> QED BY <2>1, <2>3, <2>4
<1>11. HeldOwn(q) /\ HeldLimited(q)
  <2>1. ASSUME NEW S \in due \ tells
        PROVE  /\ S \in cycles
               /\ \E i \in 1..Len(q.told[S]) :
                    q.told[S][i] > t - Interval /\ q.told[S][i] > q.formed[S] - Interval
    <3>1. S \in Sets /\ S \in cycles /\ Limited(r, S, t) BY <1>3 DEF Tells
    <3>2. PICK i \in 1..Len(r.told[S]) : r.told[S][i] > t - Interval
      BY <3>1 DEF Limited
    <3>3. i \in 1..Len(q.told[S]) /\ q.told[S][i] = r.told[S][i] BY <1>6, <3>1
    <3>4. q.formed[S] \in Nat /\ q.formed[S] <= t /\ r.told[S][i] \in Nat
      BY <1>2, <1>5, <3>1
    <3>5. q.told[S][i] > t - Interval /\ q.told[S][i] > q.formed[S] - Interval
      <4>1. \A x, y, f, k \in Nat : x > y - k /\ f <= y => x > f - k OBVIOUS
      <4> HIDE DEF q, due, tells
      <4>2. r.told[S][i] > q.formed[S] - Interval BY <1>2, <3>2, <3>4, <4>1
      <4> QED BY <3>2, <3>3, <4>2
    <3> HIDE DEF q
    <3> QED BY <3>1, <3>3, <3>5
  <2> HIDE DEF q, due, tells
  <2> QED BY <1>1, <2>1 DEF HeldOwn, HeldLimited
<1> QED BY <1>1, <1>7, <1>8, <1>9, <1>10, <1>11 DEF Sound

\* Any outcome of a guarded comparison.
LEMMA ReconcilesSound ==
    ASSUME NEW r, Sound(r), NEW t \in Nat, r.compared <= t, NEW E,
           NEW q \in Reconciles(r, E, t)
    PROVE  Sound(q) /\ q.compared <= t
<1>1. q = r \/ q = Reconciled(r, Groups(E), t)
  BY DEF Reconciles
<1>2. CASE q = r BY <1>2
<1>3. CASE q = Reconciled(r, Groups(E), t)
  BY <1>3, GroupsApart, ReconciledSound
<1> QED BY <1>1, <1>2, <1>3

-----------------------------------------------------------------------------

LEMMA InvInit == Init => Inv
<1> SUFFICES ASSUME Init PROVE Inv OBVIOUS
<1>1. /\ reg \in Registers /\ reg.active = {} /\ reg.held = {}
      /\ reg.compared = 0 /\ now = 0
      /\ \A S \in Sets : reg.formed[S] = 0 /\ reg.told[S] = <<>>
  BY DEF Init, Registers
<1>2. TypeOK BY <1>1 DEF Init, TypeOK
<1>3. Sound(reg)
  BY <1>1 DEF Sound, Spaced, Past, Told, HeldOwn, HeldLimited, Apart
<1> QED BY <1>1, <1>2, <1>3 DEF Inv

LEMMA InvStep == Inv /\ [Next]_vars => Inv'
<1> SUFFICES ASSUME Inv, [Next]_vars PROVE Inv' OBVIOUS
<1>0. TypeOK /\ Sound(reg) /\ reg.compared <= now /\ now \in Nat
  BY DEF Inv, TypeOK
<1>1. ASSUME NEW m \in Messages, NEW a \in Agents, NEW life \in Lifetimes,
             NEW to \in SUBSET joined, Send(m, a, to, life)
      PROVE  Inv'
  <2>1. Sound(reg') /\ reg'.compared <= now
    <3>1. PICK before \in Reconciles(reg, Edges, now) : reg' \in Reconciles(before, Edges', now)
      BY <1>1 DEF Send
    <3>2. Sound(before) /\ before.compared <= now BY <1>0, ReconcilesSound
    <3> QED BY <1>0, <3>1, <3>2, ReconcilesSound
  <2>2. Opened(m, a, to, life) \subseteq Entries
    <3>1. now + life \in Nat BY <1>0, WaitAssumption
    <3>2. to \subseteq Agents BY <1>0 DEF TypeOK
    <3> QED BY <3>1, <3>2 DEF Opened, Entries
  <2>3. TypeOK' BY <1>0, <1>1, <2>1, <2>2 DEF Send, TypeOK, Sound
  <2>4. now' = now BY <1>1 DEF Send
  <2> QED BY <2>1, <2>3, <2>4 DEF Inv, Sound
<1>2. ASSUME NEW m \in Messages, SendAgain(m) PROVE Inv'
  <2>1. Sound(reg') /\ reg'.compared <= now
    <3>1. PICK before \in Reconciles(reg, Edges, now) : reg' \in Reconciles(before, Edges, now)
      BY <1>2 DEF SendAgain
    <3>2. Sound(before) /\ before.compared <= now BY <1>0, ReconcilesSound
    <3> QED BY <1>0, <3>1, <3>2, ReconcilesSound
  <2>2. TypeOK' /\ now' = now BY <1>0, <1>2, <2>1 DEF SendAgain, TypeOK, Sound
  <2> QED BY <2>1, <2>2 DEF Inv, Sound
<1>3. ASSUME NEW e \in open, Resolve(e) PROVE Inv'
  <2>1. Sound(reg') /\ reg'.compared <= now
    BY <1>0, <1>3, ReconcilesSound DEF Resolve
  <2>2. TypeOK' /\ now' = now BY <1>0, <1>3, <2>1 DEF Resolve, TypeOK, Sound
  <2> QED BY <2>1, <2>2 DEF Inv, Sound
<1>4. ASSUME NEW e \in open, MarkExpired(e) PROVE Inv'
  BY <1>0, <1>4 DEF MarkExpired, Inv, TypeOK
<1>5. ASSUME NEW a \in Movers, Leave(a) \/ Join(a) PROVE Inv'
  BY <1>0, <1>5, WaitAssumption DEF Leave, Join, Inv, TypeOK
<1>6. CASE Tick
  <2>1. now' = now + 1 /\ reg' = reg BY <1>6 DEF Tick
  <2>2. TypeOK' BY <1>0, <1>6 DEF Tick, TypeOK
  <2>3. reg.compared \in Nat BY <1>0 DEF TypeOK, Registers
  <2> QED BY <1>0, <2>1, <2>2, <2>3 DEF Inv
<1>7. CASE UNCHANGED vars
  BY <1>0, <1>7 DEF vars, Inv, TypeOK
<1> QED BY <1>1, <1>2, <1>3, <1>4, <1>5, <1>6, <1>7 DEF Next

LEMMA InvAlways == Spec => []Inv
BY InvInit, InvStep, PTL DEF Spec

-----------------------------------------------------------------------------

\* The register, the entries and the members have the types they should.
THEOREM TypeCorrect == Spec => []TypeOK
<1>1. Inv => TypeOK BY DEF Inv
<1> QED BY <1>1, InvAlways, PTL

\* At most one notice per set of agents and interval, although sets dissolve,
\* shrink, grow and form again, and bookkeeping fails.
THEOREM NotesSpacedAlways == Spec => []NotesSpaced
<1>1. Inv => NotesSpaced BY DEF Inv, Sound, Spaced, NotesSpaced
<1> QED BY <1>1, InvAlways, PTL

\* Whatever the register counts as told was told since it formed, also when
\* it took over from a larger set in silence, any number of times.
THEOREM ToldSinceFormedAlways == Spec => []ToldSinceFormed
<1>1. Inv => ToldSinceFormed BY DEF Inv, Sound, Told, ToldFor, ToldSinceFormed
<1> QED BY <1>1, InvAlways, PTL

\* A notice is held back only on account of an earlier one to the same set.
THEOREM HeldForItsOwnNoticeAlways == Spec => []HeldForItsOwnNotice
<1>1. Inv => HeldForItsOwnNotice BY DEF Inv, Sound, HeldOwn, HeldForItsOwnNotice
<1> QED BY <1>1, InvAlways, PTL

\* No comparison after the interval leaves a notice held back.
THEOREM HeldNoLongerAlways == Spec => []HeldNoLongerThanLimited
<1>1. Inv => HeldNoLongerThanLimited
  BY DEF Inv, Sound, HeldLimited, HeldNoLongerThanLimited
<1> QED BY <1>1, InvAlways, PTL

\* The rows that stand never share an agent.
THEOREM RowsApartAlways == Spec => []RowsApart
<1>1. Inv => RowsApart BY DEF Inv, Sound, Apart, RowsApart
<1> QED BY <1>1, InvAlways, PTL

-----------------------------------------------------------------------------
(* A message that closes a circle.                                         *)

\* With more waits a group stays together, in a group as large or larger.
LEMMA MoreWaits ==
    ASSUME NEW E, NEW F, E \subseteq F, NEW R \in Groups(E)
    PROVE  R # {} /\ \E T \in Groups(F) : R \subseteq T
<1>1. PICK a \in Agents : R = GroupOf(E, a) BY DEF Groups
<1>2. a \in R BY <1>1 DEF GroupOf, Reaches
<1>3. ASSUME NEW b, NEW c, Reaches(E, b, c) PROVE Reaches(F, b, c)
  BY <1>3 DEF Reaches
<1>4. R \subseteq GroupOf(F, a) BY <1>1, <1>3 DEF GroupOf
<1>5. GroupOf(F, a) \notin {{b} : b \in Agents}
  <2> SUFFICES ASSUME NEW b \in Agents, GroupOf(F, a) = {b} PROVE FALSE
    OBVIOUS
  <2>1. R = {b} BY <1>2, <1>4
  <2> QED BY <2>1 DEF Groups
<1> QED BY <1>2, <1>4, <1>5 DEF Groups

\* A register that was compared just before gives every new group its notice.
LEMMA ComparedTwice ==
    ASSUME NEW r, Sound(r), NEW t \in Nat, NEW E, NEW F, E \subseteq F,
           NEW S \in Groups(F) \ Groups(E)
    PROVE  LET p == Reconciled(Reconciled(r, Groups(E), t), Groups(F), t)
           IN  S \in p.held \/ Len(p.told[S]) > Len(r.told[S])
<1> DEFINE q == Reconciled(r, Groups(E), t)
           p == Reconciled(q, Groups(F), t)
           due == Due(q, Groups(F))
           tells == Tells(q, due, t)
<1>1. S \in Sets /\ r.told[S] \in Seq(Nat)
  BY GroupsApart DEF Sound, Registers
<1>2. q.active = Groups(E) /\ q.told[S] = r.told[S]
  <2>1. S \notin Tells(r, Due(r, Groups(E)), t) BY DEF Tells, Due
  <2> QED BY <1>1, <2>1 DEF Reconciled, Standing
<1>3. Covers(q, S) = {}
  <2> SUFFICES ASSUME NEW R \in Groups(E), S \subseteq R PROVE FALSE
    BY <1>2 DEF Covers
  <2>1. PICK T \in Groups(F) : R \subseteq T BY MoreWaits
  <2>2. S # {} BY MoreWaits
  <2>3. S = T BY <2>1, <2>2, GroupsApart DEF Apart
  <2> QED BY <2>1, <2>3
<1>4. S \in due BY <1>2, <1>3 DEF Due
<1>5. p.held = due \ tells /\ (S \in tells => p.told[S] = Append(q.told[S], t))
  BY <1>1 DEF Reconciled
<1> HIDE DEF q, p, due, tells
<1>6. CASE S \in tells
  <2>1. Len(p.told[S]) = Len(r.told[S]) + 1 /\ Len(r.told[S]) \in Nat
    BY <1>1, <1>2, <1>5, <1>6, NotesGrow
  <2>2. Len(p.told[S]) > Len(r.told[S]) BY <2>1
  <2> QED BY <2>2 DEF p, q
<1>7. CASE S \notin tells
  <2>1. S \in p.held BY <1>4, <1>5, <1>7
  <2> QED BY <2>1 DEF p, q
<1> QED BY <1>6, <1>7

\* A message that closes a circle of waits is announced or held back, for any
\* agents and times, unless the bookkeeping may fail.
THEOREM ClosedCircleAlwaysNoticed == Spec => ClosedCircleNoticed
<1>1. ASSUME Inv, [Next]_vars, author' # author, ~Failing,
             NEW S \in Groups(Edges') \ Groups(Edges)
      PROVE  S \in reg'.held \/ Len(reg'.told[S]) > Len(reg.told[S])
  <2>1. PICK m \in Messages, a \in Agents, life \in Lifetimes :
            \E to \in SUBSET joined \ {{}} : Send(m, a, to, life)
    BY <1>1 DEF Next, SendAgain, Resolve, MarkExpired, Leave, Join, Tick, vars
  <2>2. PICK to \in SUBSET joined : Send(m, a, to, life) BY <2>1
  <2>3. reg' = Reconciled(Reconciled(reg, Groups(Edges), now), Groups(Edges'), now)
    BY <1>1, <2>2 DEF Send, Reconciles
  <2>4. Edges \subseteq Edges' BY <2>2 DEF Send, Edges
  <2>5. Sound(reg) /\ now \in Nat BY <1>1 DEF Inv, TypeOK
  <2> QED BY <1>1, <2>3, <2>4, <2>5, ComparedTwice
<1>2. Inv /\ [Next]_vars =>
          [author' # author /\ ~Failing =>
             \A S \in Groups(Edges') \ Groups(Edges) :
                 S \in reg'.held \/ Len(reg'.told[S]) > Len(reg.told[S])]_vars
  BY <1>1
<1> QED BY <1>2, InvAlways, PTL DEF Spec, ClosedCircleNoticed

=============================================================================
