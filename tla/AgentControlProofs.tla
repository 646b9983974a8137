------------------------- MODULE AgentControlProofs -------------------------
(***************************************************************************)
(* Theorems about AgentControl, for any number of controls, calls, lines,  *)
(* collectors and faults; first what every step of a collector preserves.  *)
(***************************************************************************)
EXTENDS AgentControl, FiniteSetTheorems, TLAPS

-----------------------------------------------------------------------------
(* Numbers of lines *)

\* A nonempty set of numbers has a least one.
LEMMA MinExists ==
    ASSUME NEW T \in SUBSET Nat, T # {}
    PROVE  Min(T) \in T /\ \A y \in T : Min(T) <= y
<1> DEFINE F == {0..n : n \in T}
<1>1. F \subseteq FiniteSubsetsOf(Nat) /\ F # {}
  <2>1. \A n \in T : IsFiniteSet(0..n)
    BY FS_Interval
  <2>2. ASSUME NEW n \in T PROVE 0..n \in FiniteSubsetsOf(Nat)
    <3>1. 0..n \subseteq Nat
      OBVIOUS
    <3>. QED
      BY <3>1, <2>1 DEF FiniteSubsetsOf
  <2>. QED
    BY <2>2
<1>2. \E X \in F : \A Y \in F : ~(<<Y, X>> \in StrictSubsetOrdering(Nat))
  <2>1. IsWellFoundedOn(StrictSubsetOrdering(Nat), FiniteSubsetsOf(Nat))
    BY FS_StrictSubsetOrderingWellFounded, Zenon
  <2>. HIDE DEF F
  <2>. QED
    BY <1>1, <2>1, WFMin
<1>3. PICK n \in T : \A y \in T : ~(<<0..y, 0..n>> \in StrictSubsetOrdering(Nat))
  BY <1>2
<1>4. ASSUME NEW y \in T, y < n PROVE FALSE
  <2>1. 0..y \subseteq 0..n /\ n \notin 0..y /\ n \in 0..n
    BY <1>4
  <2>2. 0..y \subseteq Nat /\ 0..n \subseteq Nat
    OBVIOUS
  <2>. QED
    BY <2>1, <2>2, <1>3 DEF StrictSubsetOrdering
<1>5. \A y \in T : n <= y
  BY <1>4
<1>. QED
  BY <1>5 DEF Min

\* The lines with content among the first n of t: Filled, without the variable.
FilledIn(t, n) == {i \in 1..n : t[i].kind # "blank"}

LEMMA FilledFinite ==
    ASSUME NEW t, NEW n \in Int
    PROVE  /\ FilledIn(t, n) \subseteq 1..n
           /\ IsFiniteSet(FilledIn(t, n)) /\ Cardinality(FilledIn(t, n)) \in Nat
<1>1. FilledIn(t, n) \subseteq 1..n
  BY DEF FilledIn
<1>2. IsFiniteSet(1..n)
  BY FS_Interval
<1>3. IsFiniteSet(FilledIn(t, n))
  BY <1>1, <1>2, FS_Subset
<1>. QED
  BY <1>1, <1>3, FS_CardinalityType

LEMMA FilledSplit ==
    ASSUME NEW t, NEW m \in Nat, NEW n \in Nat, m <= n
    PROVE  /\ FilledIn(t, m) \subseteq FilledIn(t, n)
           /\ Cardinality(FilledIn(t, n) \ FilledIn(t, m)) \in Nat
           /\ Cardinality(FilledIn(t, n))
                = Cardinality(FilledIn(t, m)) + Cardinality(FilledIn(t, n) \ FilledIn(t, m))
           /\ \A j \in FilledIn(t, n) : j \notin FilledIn(t, m) <=> m < j
<1> DEFINE more == FilledIn(t, n) \ FilledIn(t, m)
<1>1. FilledIn(t, m) \subseteq FilledIn(t, n)
  BY DEF FilledIn
<1>2. /\ IsFiniteSet(FilledIn(t, m)) /\ Cardinality(FilledIn(t, m)) \in Nat
      /\ IsFiniteSet(FilledIn(t, n)) /\ Cardinality(FilledIn(t, n)) \in Nat
  BY FilledFinite
<1>3. /\ IsFiniteSet(more)
      /\ Cardinality(more)
            = Cardinality(FilledIn(t, n)) - Cardinality(FilledIn(t, n) \intersect FilledIn(t, m))
  BY <1>2, FS_Difference
<1>4. Cardinality(FilledIn(t, n) \intersect FilledIn(t, m)) = Cardinality(FilledIn(t, m))
  <2>1. FilledIn(t, n) \intersect FilledIn(t, m) = FilledIn(t, m)
    BY <1>1
  <2>. QED
    BY <2>1, Zenon
<1>5. Cardinality(more) \in Nat
  BY <1>3, FS_CardinalityType
<1>6. \A j \in FilledIn(t, n) : j \notin FilledIn(t, m) <=> m < j
  BY DEF FilledIn
<1>7. Cardinality(FilledIn(t, n)) = Cardinality(FilledIn(t, m)) + Cardinality(more)
  <2>. HIDE DEF more
  <2>. QED
    BY <1>2, <1>3, <1>4, <1>5
<1>. QED
  BY <1>1, <1>5, <1>6, <1>7

\* Two lines with content have different numbers.
LEMMA NumbersApart ==
    ASSUME NEW t, NEW i \in Nat, NEW j \in Nat, i < j, i \in FilledIn(t, i)
    PROVE  Cardinality(FilledIn(t, i - 1)) < Cardinality(FilledIn(t, j - 1))
<1>1. i - 1 \in Nat /\ j - 1 \in Nat /\ i <= j - 1
  BY DEF FilledIn
<1>2. i \notin FilledIn(t, i - 1) /\ FilledIn(t, i) = FilledIn(t, i - 1) \union {i}
  BY <1>1 DEF FilledIn
<1>3. IsFiniteSet(FilledIn(t, i - 1)) /\ Cardinality(FilledIn(t, i - 1)) \in Nat
  BY <1>1, FilledFinite
<1>4. Cardinality(FilledIn(t, i)) = Cardinality(FilledIn(t, i - 1)) + 1
  BY <1>2, <1>3, FS_AddElement
<1>5. /\ Cardinality(FilledIn(t, j - 1) \ FilledIn(t, i)) \in Nat
      /\ Cardinality(FilledIn(t, j - 1))
            = Cardinality(FilledIn(t, i)) + Cardinality(FilledIn(t, j - 1) \ FilledIn(t, i))
  BY <1>1, FilledSplit
<1>. QED
  BY <1>3, <1>4, <1>5

-----------------------------------------------------------------------------
(* The invariant: what is known of a position, with the transcript t, the    *)
(* chunks arc and the evidence ev                                             *)

\* The server was given line j, if it is a proof, or has enough of its control.
Given(t, ev, j) ==
    t[j].kind = "proof" =>
        \/ [kind |-> "proof", call |-> t[j].call] \in ev[t[j].control]
        \/ Cardinality(ev[t[j].control]) >= EventLimit

Archived(t, arc, n) == \A j \in FilledIn(t, n) : \E r \in arc : r[2] = j

Numbered(t, arc) ==
    \A r \in arc : r[2] \in FilledIn(t, Len(t)) /\ r[1] = Cardinality(FilledIn(t, r[2] - 1))

Done(t, arc, ev, offset, seq) ==
    /\ offset \in 0..Len(t) /\ seq = Cardinality(FilledIn(t, offset))
    /\ Archived(t, arc, offset)
    /\ \A j \in 1..offset : Given(t, ev, j)

\* What a collector with a batch in hand knows.
InHand(t, arc, ev, s) ==
    /\ s.pc \in {"upload", "prove"} => s.end \in s.offset..Len(t)
    /\ s.pc = "prove" =>
        /\ Archived(t, arc, s.end)
        /\ \A j \in s.left : j \in 1..s.end /\ t[j].kind = "proof"
        /\ \A j \in 1..s.end : j \in s.left \/ Given(t, ev, j)

Sane(t, arc, ev, s) == Done(t, arc, ev, s.offset, s.seq) /\ InHand(t, arc, ev, s)

CollectorInv ==
    /\ CollectorTypeOK
    /\ \A c \in Controls : IsFiniteSet(evidence[c])
    /\ Numbered(transcript, chunks)
    /\ Done(transcript, chunks, evidence, saved.offset, saved.seq)
    /\ \A p \in Collectors : Sane(transcript, chunks, evidence, coll[p])

LEMMA CollectorInvGives == CollectorInv => CollectorTypeOK /\ TranscriptKept /\ ProofsGiven
<1>. SUFFICES ASSUME CollectorInv PROVE CollectorTypeOK /\ TranscriptKept /\ ProofsGiven
  OBVIOUS
<1>1. TranscriptKept
  BY DEF CollectorInv, TranscriptKept, Sure, Filled, Numbered, Done, Sane, Archived, FilledIn
<1>2. ProofsGiven
  <2>1. ASSUME NEW j \in 1..Len(transcript), Given(transcript, evidence, j), transcript[j].kind = "proof"
        PROVE  \/ [kind |-> "proof", call |-> transcript[j].call] \in evidence[transcript[j].control]
               \/ Full(transcript[j].control)
    BY <2>1 DEF Given, Full
  <2>2. ASSUME NEW j \in 1..Len(transcript), j <= saved.offset
        PROVE  Given(transcript, evidence, j)
    BY <2>2 DEF CollectorInv, Done
  <2>3. ASSUME NEW j \in 1..Len(transcript), NEW p \in Collectors, j <= coll[p].offset
        PROVE  Given(transcript, evidence, j)
    BY <2>3 DEF CollectorInv, Done, Sane
  <2>. QED
    BY <2>1, <2>2, <2>3 DEF ProofsGiven
<1>. QED
  BY <1>1, <1>2 DEF CollectorInv

LEMMA CollectorStart == CollectorInit => CollectorInv
<1>. SUFFICES ASSUME CollectorInit PROVE CollectorInv
  OBVIOUS
<1>1. Len(transcript) = 0 /\ FilledIn(transcript, 0) = {} /\ Cardinality({}) = 0 /\ IsFiniteSet({})
  BY FS_EmptySet DEF CollectorInit, FilledIn
<1>2. Done(transcript, chunks, evidence, 0, 0)
  BY <1>1 DEF Done, Archived
<1>3. CollectorTypeOK
  BY <1>1, CollectorAssumption
     DEF CollectorInit, CollectorTypeOK, CollectorStates, DownCollector, Lines, Evidence
<1>. QED
  BY <1>1, <1>2, <1>3 DEF CollectorInit, CollectorInv, Numbered, Sane, InHand, DownCollector

-----------------------------------------------------------------------------
(* What lasts *)

\* Nothing is taken back.
Grows(t, t2, arc, ch2, ev, ev2) ==
    /\ Len(t) <= Len(t2) /\ \A j \in 1..Len(t) : t2[j] = t[j]
    /\ arc \subseteq ch2
    /\ \A c \in Controls : ev[c] \subseteq ev2[c] /\ IsFiniteSet(ev2[c])

LEMMA Lasting ==
    ASSUME NEW t \in Seq(Lines), NEW t2 \in Seq(Lines), NEW arc, NEW ch2, NEW ev, NEW ev2,
           Grows(t, t2, arc, ch2, ev, ev2),
           NEW s \in CollectorStates, Sane(t, arc, ev, s)
    PROVE  Sane(t2, ch2, ev2, s)
<1>1. \A n \in 0..Len(t) : FilledIn(t2, n) = FilledIn(t, n)
  BY DEF Grows, FilledIn
<1>2. \A n \in 0..Len(t) : Archived(t, arc, n) => Archived(t2, ch2, n)
  BY <1>1 DEF Grows, Archived
<1>3. ASSUME NEW j \in 1..Len(t), Given(t, ev, j) PROVE Given(t2, ev2, j)
  <2>1. t2[j] = t[j] /\ t[j] \in Lines
    BY DEF Grows
  <2>2. CASE t[j].kind = "proof"
    <3>1. t[j].control \in Controls
      BY <2>1, <2>2 DEF Lines
    <3>2. Cardinality(ev[t[j].control]) <= Cardinality(ev2[t[j].control])
      BY <3>1, FS_Subset DEF Grows
    <3>3. Cardinality(ev2[t[j].control]) \in Nat /\ Cardinality(ev[t[j].control]) \in Nat
      BY <3>1, FS_Subset, FS_CardinalityType DEF Grows
    <3>. QED
      BY <1>3, <2>1, <3>1, <3>2, <3>3, CollectorAssumption DEF Given, Grows
  <2>. QED
    BY <2>1, <2>2 DEF Given
<1>4. s.offset \in 0..Len(t) /\ s.offset \in Nat /\ s.end \in Nat
  BY DEF Sane, Done, CollectorStates
<1>5. Done(t2, ch2, ev2, s.offset, s.seq)
  BY <1>1, <1>2, <1>3, <1>4 DEF Sane, Done, Grows
<1>6. InHand(t2, ch2, ev2, s)
  <2>1. CASE s.pc \in {"upload", "prove"}
    <3>1. s.end \in 0..Len(t)
      BY <1>4, <2>1 DEF Sane, InHand
    <3>2. \A j \in 1..s.end : t2[j] = t[j]
      BY <3>1 DEF Grows
    <3>. QED
      BY <1>2, <1>3, <1>4, <2>1, <3>1, <3>2 DEF Sane, InHand, Grows
  <2>. QED
    BY <2>1 DEF InHand
<1>. QED
  BY <1>5, <1>6 DEF Sane

LEMMA GrowsInPlace ==
    ASSUME CollectorInv
    PROVE  Grows(transcript, transcript, chunks, chunks, evidence, evidence)
BY DEF CollectorInv, Grows

LEMMA AtStart ==
    ASSUME CollectorInv
    PROVE  DownCollector \in CollectorStates /\ Sane(transcript, chunks, evidence, DownCollector)
<1>1. FilledIn(transcript, 0) = {}
  BY DEF FilledIn
<1>2. Cardinality(FilledIn(transcript, 0)) = 0
  BY <1>1, FS_EmptySet
<1>. QED
  BY <1>1, <1>2 DEF CollectorInv, CollectorTypeOK, Sane, Done, InHand, Archived, DownCollector,
                    CollectorStates

\* One collector moved, or the saved position, and nothing was taken back.
LEMMA Moved ==
    ASSUME CollectorInv,
           transcript' \in Seq(Lines),
           chunks' \subseteq Nat \X (1..Len(transcript')),
           evidence' \in [Controls -> SUBSET Evidence],
           \A c \in Controls : Cardinality(evidence'[c]) <= EventLimit,
           Grows(transcript, transcript', chunks, chunks', evidence, evidence'),
           Numbered(transcript', chunks'),
           coll' \in [Collectors -> CollectorStates],
           \A q \in Collectors :
               coll'[q] = coll[q] \/ Sane(transcript', chunks', evidence', coll'[q]),
           \/ saved' = saved
           \/ /\ saved' \in [offset : Nat, seq : Nat]
              /\ Done(transcript', chunks', evidence', saved'.offset, saved'.seq),
           faults' \in 0..MaxFaults
    PROVE  CollectorInv'
<1>1. transcript \in Seq(Lines) /\ coll \in [Collectors -> CollectorStates]
      /\ saved \in [offset : Nat, seq : Nat]
  BY DEF CollectorInv, CollectorTypeOK
<1>2. \A q \in Collectors : Sane(transcript', chunks', evidence', coll'[q])
  <2>1. \A q \in Collectors : Sane(transcript', chunks', evidence', coll[q])
    BY <1>1, Lasting DEF CollectorInv
  <2>. QED
    BY <2>1
<1>3. Done(transcript', chunks', evidence', saved'.offset, saved'.seq)
  <2> DEFINE s == [pc |-> "down", offset |-> saved.offset, seq |-> saved.seq, end |-> 0, left |-> {}]
  <2>1. s \in CollectorStates /\ Sane(transcript, chunks, evidence, s)
    BY <1>1 DEF CollectorInv, Sane, InHand, CollectorStates
  <2>2. Sane(transcript', chunks', evidence', s)
    BY <1>1, <2>1, Lasting
  <2>3. Done(transcript', chunks', evidence', saved.offset, saved.seq)
    BY <2>2 DEF Sane
  <2>. QED
    BY <2>3
<1>4. saved' \in [offset : Nat, seq : Nat]
  BY <1>1
<1>. QED
  BY <1>2, <1>3, <1>4 DEF CollectorInv, CollectorTypeOK, Grows

\* The same with nothing stored or learnt.
LEMMA MovedInPlace ==
    ASSUME CollectorInv,
           UNCHANGED <<transcript, chunks, evidence>>,
           NEW p \in Collectors, NEW s \in CollectorStates, Sane(transcript, chunks, evidence, s),
           coll' = [coll EXCEPT ![p] = s],
           \/ saved' = saved
           \/ /\ saved' \in [offset : Nat, seq : Nat]
              /\ Done(transcript, chunks, evidence, saved'.offset, saved'.seq),
           faults' \in 0..MaxFaults
    PROVE  CollectorInv'
<1>1. Grows(transcript, transcript', chunks, chunks', evidence, evidence')
  BY GrowsInPlace
<1>2. coll' \in [Collectors -> CollectorStates]
  BY DEF CollectorInv, CollectorTypeOK
<1>3. \A q \in Collectors :
          coll'[q] = coll[q] \/ Sane(transcript', chunks', evidence', coll'[q])
  BY DEF CollectorInv, CollectorTypeOK
<1>4. /\ transcript' \in Seq(Lines)
      /\ chunks' \subseteq Nat \X (1..Len(transcript'))
      /\ evidence' \in [Controls -> SUBSET Evidence]
      /\ \A c \in Controls : Cardinality(evidence'[c]) <= EventLimit
      /\ Numbered(transcript', chunks')
  BY DEF CollectorInv, CollectorTypeOK
<1>. QED
  BY <1>1, <1>2, <1>3, <1>4, Moved

LEMMA FaultCounted == ASSUME CollectorInv, Fault \/ UNCHANGED faults PROVE faults' \in 0..MaxFaults
BY CollectorAssumption DEF CollectorInv, CollectorTypeOK, Fault

LEMMA RetrySane ==
    ASSUME CollectorInv, NEW p \in Collectors
    PROVE  Retry(p) \in CollectorStates /\ Sane(transcript, chunks, evidence, Retry(p))
BY DEF CollectorInv, CollectorTypeOK, CollectorStates, Retry, Between, AfterError, Position,
       DownCollector, Sane, InHand

-----------------------------------------------------------------------------
(* What the server stores *)

\* The rows of a batch have the numbers of their lines, and their lines are all
\* archived, whether the rows are new or were stored before.
LEMMA Storing ==
    ASSUME CollectorInv, NEW p \in Collectors, NEW k \in coll[p].offset..Len(transcript)
    PROVE  /\ chunks \subseteq Stored(Batch(p, k))
           /\ Stored(Batch(p, k)) \subseteq Nat \X (1..Len(transcript))
           /\ Numbered(transcript, Stored(Batch(p, k)))
           /\ Archived(transcript, Stored(Batch(p, k)), k)
<1> DEFINE t == transcript
           o == coll[p].offset
           N(j) == Cardinality(FilledIn(t, j - 1))
<1>1. /\ t \in Seq(Lines) /\ o \in 0..Len(t) /\ k \in Nat /\ o <= k /\ k <= Len(t) /\ o \in Nat
      /\ coll[p].seq = Cardinality(FilledIn(t, o))
      /\ Archived(t, chunks, o) /\ Numbered(t, chunks)
      /\ chunks \subseteq Nat \X (1..Len(t))
  BY DEF CollectorInv, CollectorTypeOK, Sane, Done
<1>2. \A n \in 0..Len(t) : Filled(n) = FilledIn(t, n)
  BY DEF Filled, FilledIn
<1>3. ASSUME NEW j \in FilledIn(t, k) \ FilledIn(t, o)
      PROVE  /\ coll[p].seq + Count(o, j - 1) = N(j) /\ N(j) \in Nat
             /\ j \in 1..Len(t) /\ j \in FilledIn(t, Len(t)) /\ j \in FilledIn(t, j)
  <2>1. j \in 1..k /\ o < j /\ j \in FilledIn(t, Len(t)) /\ j \in FilledIn(t, j)
    BY <1>1 DEF FilledIn
  <2>2. Count(o, j - 1) = Cardinality(FilledIn(t, j - 1) \ FilledIn(t, o))
    BY <1>1, <2>1 DEF Count, Filled, FilledIn
  <2>3. /\ Cardinality(FilledIn(t, j - 1) \ FilledIn(t, o)) \in Nat
        /\ N(j) = Cardinality(FilledIn(t, o)) + Cardinality(FilledIn(t, j - 1) \ FilledIn(t, o))
    BY <1>1, <2>1, FilledSplit
  <2>4. Cardinality(FilledIn(t, o)) \in Nat
    BY <1>1, FilledFinite
  <2>. QED
    BY <1>1, <2>1, <2>2, <2>3, <2>4
<1>4. Batch(p, k) = {<<coll[p].seq + Count(o, j - 1), j>> : j \in FilledIn(t, k) \ FilledIn(t, o)}
  BY <1>1, <1>2 DEF Batch
<1>5. ASSUME NEW r \in Batch(p, k)
      PROVE  \E j \in FilledIn(t, k) \ FilledIn(t, o) : r = <<N(j), j>>
  BY <1>3, <1>4
<1>6. Stored(Batch(p, k)) \subseteq Nat \X (1..Len(t))
  BY <1>1, <1>3, <1>5 DEF Stored
<1>7. Numbered(t, Stored(Batch(p, k)))
  BY <1>1, <1>3, <1>5 DEF Stored, Numbered
<1>8. ASSUME NEW j \in FilledIn(t, k) PROVE \E r \in Stored(Batch(p, k)) : r[2] = j
  <2>1. CASE j \in FilledIn(t, o)
    BY <1>1, <2>1 DEF Archived, Stored
  <2>2. CASE j \notin FilledIn(t, o)
    <3>1. j \in FilledIn(t, k) \ FilledIn(t, o) /\ <<N(j), j>> \in Batch(p, k)
      BY <1>3, <1>4, <2>2
    <3>2. CASE \A old \in chunks : old[1] # N(j)
      BY <3>1, <3>2 DEF Stored
    <3>3. CASE \E old \in chunks : old[1] = N(j)
      <4>1. PICK old \in chunks : old[1] = N(j)
        BY <3>3
      <4>2. /\ old[2] \in FilledIn(t, Len(t)) /\ N(old[2]) = N(j)
            /\ old[2] \in 1..Len(t) /\ old[2] \in FilledIn(t, old[2])
        BY <1>1, <4>1 DEF Numbered, FilledIn
      <4>3. N(j) \in Nat /\ j \in 1..Len(t) /\ j \in FilledIn(t, j)
        BY <1>3, <3>1
      <4>4. ~(old[2] < j)
        BY <4>2, <4>3, <1>1, NumbersApart
      <4>5. ~(j < old[2])
        BY <4>2, <4>3, <1>1, NumbersApart
      <4>. QED
        BY <4>1, <4>2, <4>3, <4>4, <4>5, <1>1 DEF Stored
    <3>. QED
      BY <3>2, <3>3
  <2>. QED
    BY <2>1, <2>2
<1>. QED
  BY <1>6, <1>7, <1>8 DEF Archived, Stored

\* What RecordControlEvent leaves.
LEMMA Recording ==
    ASSUME CollectorInv, NEW c \in Controls, NEW kind \in {"ack", "proof"}, NEW u \in Calls,
           NEW ev, ev = Recorded(c, kind, u)
    PROVE  /\ ev \in [Controls -> SUBSET Evidence]
           /\ \A d \in Controls : Cardinality(ev[d]) <= EventLimit
           /\ Grows(transcript, transcript, chunks, chunks, evidence, ev)
           /\ [kind |-> kind, call |-> u] \in ev[c] \/ Cardinality(ev[c]) >= EventLimit
           /\ \A d \in Controls : \A e \in ev[d] :
                  e \in evidence[d] \/ (d = c /\ e = [kind |-> kind, call |-> u])
<1>1. /\ evidence \in [Controls -> SUBSET Evidence] /\ EventLimit \in Nat
      /\ \A d \in Controls : IsFiniteSet(evidence[d]) /\ Cardinality(evidence[d]) <= EventLimit
      /\ \A d \in Controls : Cardinality(evidence[d]) \in Nat
  BY CollectorAssumption, FS_CardinalityType DEF CollectorInv, CollectorTypeOK
<1>2. CASE Full(c)
  BY <1>1, <1>2, GrowsInPlace DEF Full, Recorded
<1>3. CASE ~Full(c)
  <2> DEFINE x == [kind |-> kind, call |-> u]
  <2>1. ev = [evidence EXCEPT ![c] = @ \union {x}]
    BY <1>3 DEF Recorded
  <2>2. x \in Evidence
    BY DEF Evidence
  <2>3. ev[c] = evidence[c] \union {x} /\ \A d \in Controls : d # c => ev[d] = evidence[d]
    BY <1>1, <2>1
  <2>4. /\ IsFiniteSet(evidence[c] \union {x})
        /\ Cardinality(evidence[c] \union {x}) <= Cardinality(evidence[c]) + 1
    <3>. HIDE DEF x
    <3>1. /\ IsFiniteSet(evidence[c] \union {x})
          /\ \/ Cardinality(evidence[c] \union {x}) = Cardinality(evidence[c])
             \/ Cardinality(evidence[c] \union {x}) = Cardinality(evidence[c]) + 1
      BY <1>1, FS_AddElement
    <3>. QED
      BY <1>1, <3>1
  <2>5. Cardinality(evidence[c] \union {x}) <= EventLimit
    <3>1. Cardinality(evidence[c] \union {x}) \in Nat
      BY <2>4, FS_CardinalityType
    <3>. QED
      BY <1>1, <1>3, <2>4, <3>1 DEF Full
  <2>6. ev \in [Controls -> SUBSET Evidence]
    BY <1>1, <2>1, <2>2
  <2>7. \A d \in Controls : Cardinality(ev[d]) <= EventLimit /\ IsFiniteSet(ev[d])
    BY <1>1, <2>3, <2>4, <2>5
  <2>8. Grows(transcript, transcript, chunks, chunks, evidence, ev)
    BY <1>1, <2>3, <2>7 DEF Grows
  <2>. QED
    BY <2>3, <2>6, <2>7, <2>8
<1>. QED
  BY <1>2, <1>3

-----------------------------------------------------------------------------
(* Every step preserves the invariant *)

LEMMA CollectorStepKeeps ==
    ASSUME CollectorInv, NEW p \in Collectors, CollectorStep(p)
    PROVE  CollectorInv'
<1>0. /\ coll[p] \in CollectorStates /\ Sane(transcript, chunks, evidence, coll[p])
      /\ saved \in [offset : Nat, seq : Nat] /\ transcript \in Seq(Lines)
      /\ coll \in [Collectors -> CollectorStates]
      /\ Done(transcript, chunks, evidence, saved.offset, saved.seq)
  BY DEF CollectorInv, CollectorTypeOK
<1>1. CASE Load(p)
  <2>1. Loaded(p) \in CollectorStates /\ Sane(transcript, chunks, evidence, Loaded(p))
    BY <1>0 DEF Loaded, Between, DownCollector, CollectorStates, Sane, InHand
  <2>. QED
    BY <1>1, <2>1, MovedInPlace, FaultCounted DEF Load
<1>2. CASE Read(p)
  <2> DEFINE end == BatchEnd(coll[p].offset)
             s == [coll[p] EXCEPT !.pc = "upload", !.end = end]
  <2>1. coll[p].offset \in 0..Len(transcript)
    BY <1>0 DEF Sane, Done
  <2>2. end \in coll[p].offset..Len(transcript) /\ end \in Nat
    <3> DEFINE filling == {n \in (coll[p].offset + 1)..Len(transcript) :
                               Count(coll[p].offset, n) = UploadBatch}
    <3>1. CASE filling = {}
      BY <1>0, <2>1, <3>1 DEF BatchEnd
    <3>2. CASE filling # {}
      <4>1. filling \in SUBSET Nat
        BY <2>1
      <4>2. Min(filling) \in filling
        BY <3>2, <4>1, MinExists
      <4>. QED
        BY <2>1, <3>2, <4>2 DEF BatchEnd
    <3>. QED
      BY <3>1, <3>2
  <2>. HIDE DEF end
  <2>3. s \in CollectorStates /\ Sane(transcript, chunks, evidence, s)
    BY <1>0, <2>2 DEF CollectorStates, Sane, InHand
  <2>4. coll' = [coll EXCEPT ![p] = s]
    BY <1>0, <1>2 DEF Read, end
  <2>. QED
    BY <1>2, <2>3, <2>4, MovedInPlace, FaultCounted DEF Read
<1>3. CASE Finish(p)
  <2>1. /\ Position(p) \in [offset : Nat, seq : Nat]
        /\ Done(transcript, chunks, evidence, Position(p).offset, Position(p).seq)
    BY <1>0 DEF Position, CollectorStates, Sane
  <2>2. saved' = saved \/ saved' = Position(p)
    BY <1>3 DEF Finish
  <2>3. faults' \in 0..MaxFaults
    BY <1>3, FaultCounted DEF Finish
  <2>4. UNCHANGED <<transcript, chunks, evidence>> /\ coll' = [coll EXCEPT ![p] = DownCollector]
    BY <1>3 DEF Finish
  <2>. QED
    BY <2>1, <2>2, <2>3, <2>4, AtStart, MovedInPlace
<1>4. CASE Upload(p)
  <2> DEFINE rows == Batch(p, coll[p].end)
             left == {j \in (coll[p].offset + 1)..coll[p].end : transcript[j].kind = "proof"}
             s == [coll[p] EXCEPT !.pc = "prove", !.left = left]
  <2>1. coll[p].pc = "upload" /\ coll[p].offset \in 0..Len(transcript)
        /\ coll[p].end \in coll[p].offset..Len(transcript) /\ coll[p].end \in Nat
    BY <1>0, <1>4 DEF Upload, Sane, Done, InHand
  <2>2. /\ chunks \subseteq Stored(rows) /\ Stored(rows) \subseteq Nat \X (1..Len(transcript))
        /\ Numbered(transcript, Stored(rows))
        /\ Archived(transcript, Stored(rows), coll[p].end)
    BY <2>1, Storing
  <2>3. Grows(transcript, transcript, chunks, Stored(rows), evidence, evidence)
    BY <2>2, GrowsInPlace DEF Grows
  <2>4. Done(transcript, Stored(rows), evidence, coll[p].offset, coll[p].seq)
    BY <1>0, <2>3, Lasting DEF Sane
  <2>5. s \in CollectorStates
    <3>1. left \in SUBSET Nat
      BY <1>0, <2>1
    <3>. HIDE DEF left
    <3>. QED
      BY <1>0, <3>1 DEF CollectorStates
  <2>6. Sane(transcript, Stored(rows), evidence, s)
    <3>1. \A j \in 1..coll[p].end : j \in left \/ Given(transcript, evidence, j)
      BY <1>0, <2>1 DEF Sane, Done, Given
    <3>2. \A j \in left : j \in 1..coll[p].end /\ transcript[j].kind = "proof"
      BY <2>1
    <3>. HIDE DEF left, rows
    <3>. QED
      BY <1>0, <2>1, <2>2, <2>4, <3>1, <3>2 DEF Sane, InHand, CollectorStates
  <2>7. /\ UNCHANGED <<transcript, evidence, saved, faults>> /\ chunks' = Stored(rows)
        /\ coll' = [coll EXCEPT ![p] = s]
    BY <1>4, <1>0 DEF Upload
  <2>. HIDE DEF rows, s
  <2>8. /\ coll' \in [Collectors -> CollectorStates]
        /\ \A q \in Collectors : coll'[q] = coll[q] \/ Sane(transcript, Stored(rows), evidence, coll'[q])
    BY <1>0, <2>5, <2>6, <2>7
  <2>9. /\ evidence \in [Controls -> SUBSET Evidence]
        /\ \A c \in Controls : Cardinality(evidence[c]) <= EventLimit
        /\ faults \in 0..MaxFaults
    BY DEF CollectorInv, CollectorTypeOK
  <2>. QED
    BY <1>0, <2>2, <2>3, <2>7, <2>8, <2>9, Moved
<1>5. CASE Prove(p)
  <2> DEFINE j == Min(coll[p].left)
             c == transcript[j].control
             u == transcript[j].call
             ev == Recorded(c, "proof", u)
             s == [coll[p] EXCEPT !.left = @ \ {j}]
  <2>1. /\ coll[p].pc = "prove" /\ coll[p].left # {} /\ coll[p].left \in SUBSET Nat
        /\ coll[p].end \in Nat /\ coll[p].end <= Len(transcript)
    BY <1>0, <1>5 DEF Prove, CollectorStates, Sane, InHand
  <2>2. j \in coll[p].left
    BY <2>1, MinExists
  <2>3. j \in 1..coll[p].end /\ j \in 1..Len(transcript) /\ transcript[j].kind = "proof"
    BY <1>0, <2>1, <2>2 DEF Sane, InHand
  <2>. HIDE DEF j
  <2>4. c \in Controls /\ u \in Calls
    BY <1>0, <2>3 DEF Lines
  <2>5. /\ ev \in [Controls -> SUBSET Evidence]
        /\ \A d \in Controls : Cardinality(ev[d]) <= EventLimit
        /\ Grows(transcript, transcript, chunks, chunks, evidence, ev)
        /\ [kind |-> "proof", call |-> u] \in ev[c] \/ Cardinality(ev[c]) >= EventLimit
    BY <2>4, Recording
  <2>. HIDE DEF ev
  <2>6. Sane(transcript, chunks, ev, coll[p])
    BY <1>0, <2>5, Lasting
  <2>7. s \in CollectorStates
    BY <1>0 DEF CollectorStates
  <2>8. Sane(transcript, chunks, ev, s)
    <3>1. Given(transcript, ev, j)
      BY <2>5 DEF Given
    <3>. QED
      BY <1>0, <2>1, <2>6, <3>1 DEF Sane, InHand, CollectorStates
  <2>9. /\ UNCHANGED <<transcript, chunks, saved, faults>> /\ evidence' = ev
        /\ coll' = [coll EXCEPT ![p] = s]
    BY <1>0, <1>5 DEF Prove, j, ev
  <2>. HIDE DEF s
  <2>10. /\ coll' \in [Collectors -> CollectorStates]
         /\ \A q \in Collectors : coll'[q] = coll[q] \/ Sane(transcript, chunks, ev, coll'[q])
    BY <1>0, <2>7, <2>8, <2>9
  <2>11. /\ chunks \subseteq Nat \X (1..Len(transcript)) /\ Numbered(transcript, chunks)
         /\ faults \in 0..MaxFaults
    BY DEF CollectorInv, CollectorTypeOK
  <2>. QED
    BY <1>0, <2>5, <2>9, <2>10, <2>11, Moved
<1>6. CASE Save(p)
  <2>1. /\ coll[p].pc = "prove" /\ coll[p].left = {} /\ coll[p].offset \in 0..Len(transcript)
        /\ coll[p].end \in coll[p].offset..Len(transcript) /\ coll[p].end \in Nat
        /\ coll[p].offset \in Nat /\ coll[p].seq \in Nat
        /\ coll[p].seq = Cardinality(FilledIn(transcript, coll[p].offset))
    BY <1>0, <1>6 DEF Save, Sane, Done, InHand, CollectorStates
  <2>2. Count(coll[p].offset, coll[p].end)
            = Cardinality(FilledIn(transcript, coll[p].end) \ FilledIn(transcript, coll[p].offset))
    BY DEF Count, Filled, FilledIn
  <2>3. /\ coll[p].seq + Count(coll[p].offset, coll[p].end)
              = Cardinality(FilledIn(transcript, coll[p].end))
        /\ Cardinality(FilledIn(transcript, coll[p].end)) \in Nat
    BY <2>1, <2>2, FilledSplit, FilledFinite
  <2>4. Confirmed(p) \in [offset : Nat, seq : Nat]
    BY <2>1, <2>3 DEF Confirmed
  <2>5. Done(transcript, chunks, evidence, Confirmed(p).offset, Confirmed(p).seq)
    BY <1>0, <2>1, <2>3 DEF Done, Confirmed, Sane, InHand
  <2>6. ASSUME NEW pc \in {"idle", "ending"}, NEW s, s = Between(pc, Confirmed(p))
        PROVE  s \in CollectorStates /\ Sane(transcript, chunks, evidence, s)
    BY <2>4, <2>5, <2>6 DEF Between, DownCollector, CollectorStates, Sane, InHand
  <2>7. PICK pc \in {"idle", "ending"} : coll' = [coll EXCEPT ![p] = Between(pc, Confirmed(p))]
    BY <1>6 DEF Save, AfterError
  <2>8. saved' = saved \/ saved' = Confirmed(p)
    BY <1>6 DEF Save
  <2>9. faults' \in 0..MaxFaults
    BY <1>6, FaultCounted DEF Save
  <2>10. UNCHANGED <<transcript, chunks, evidence>>
    BY <1>6 DEF Save
  <2>. QED
    BY <2>4, <2>5, <2>6, <2>7, <2>8, <2>9, <2>10, MovedInPlace
<1>. QED
  BY <1>1, <1>2, <1>3, <1>4, <1>5, <1>6 DEF CollectorStep

LEMMA SaveAgainKeeps ==
    ASSUME CollectorInv, NEW p \in Collectors, SaveAgain(p)
    PROVE  CollectorInv'
<1>1. /\ coll[p] \in CollectorStates /\ Sane(transcript, chunks, evidence, coll[p])
      /\ coll \in [Collectors -> CollectorStates] /\ faults \in 0..MaxFaults
  BY DEF CollectorInv, CollectorTypeOK
<1>2. /\ saved' \in [offset : Nat, seq : Nat]
      /\ Done(transcript, chunks, evidence, saved'.offset, saved'.seq)
  BY <1>1 DEF SaveAgain, Position, CollectorStates, Sane
<1>3. UNCHANGED <<transcript, chunks, evidence>> /\ faults' \in 0..MaxFaults
      /\ coll' = [coll EXCEPT ![p] = coll[p]]
  BY <1>1 DEF SaveAgain
<1>. QED
  BY <1>1, <1>2, <1>3, MovedInPlace

LEMMA CollectorFaultKeeps ==
    ASSUME CollectorInv, NEW p \in Collectors, CollectorFault(p)
    PROVE  CollectorInv'
<1>0. /\ coll[p] \in CollectorStates /\ Sane(transcript, chunks, evidence, coll[p])
      /\ transcript \in Seq(Lines) /\ coll \in [Collectors -> CollectorStates]
      /\ evidence \in [Controls -> SUBSET Evidence]
      /\ \A c \in Controls : Cardinality(evidence[c]) <= EventLimit
      /\ chunks \subseteq Nat \X (1..Len(transcript)) /\ Numbered(transcript, chunks)
  BY DEF CollectorInv, CollectorTypeOK
<1>1. CASE UploadFails(p)
  <2>1. PICK k \in coll[p].offset..coll[p].end : chunks' = Stored(Batch(p, k))
    BY <1>1 DEF UploadFails
  <2>2. k \in coll[p].offset..Len(transcript)
    BY <1>0, <1>1 DEF UploadFails, Sane, Done, InHand, CollectorStates
  <2> DEFINE arc == Stored(Batch(p, k))
  <2>3. /\ chunks \subseteq arc /\ arc \subseteq Nat \X (1..Len(transcript))
        /\ Numbered(transcript, arc)
    BY <2>2, Storing
  <2>. HIDE DEF arc
  <2>4. Grows(transcript, transcript, chunks, arc, evidence, evidence)
    BY <2>3, GrowsInPlace DEF Grows
  <2>5. Retry(p) \in CollectorStates /\ Sane(transcript, arc, evidence, Retry(p))
    BY <1>0, <2>4, RetrySane, Lasting
  <2>6. /\ UNCHANGED <<transcript, evidence, saved>> /\ chunks' = arc
        /\ coll' = [coll EXCEPT ![p] = Retry(p)] /\ faults' \in 0..MaxFaults
    BY <1>1, <2>1, FaultCounted DEF UploadFails, arc
  <2>7. /\ coll' \in [Collectors -> CollectorStates]
        /\ \A q \in Collectors : coll'[q] = coll[q] \/ Sane(transcript, arc, evidence, coll'[q])
    BY <1>0, <2>5, <2>6
  <2>. QED
    BY <1>0, <2>3, <2>4, <2>6, <2>7, Moved
<1>2. CASE ProveFails(p)
  <2> DEFINE j == Min(coll[p].left)
             ev == Recorded(transcript[j].control, "proof", transcript[j].call)
  <2>1. /\ coll[p].pc = "prove" /\ coll[p].left # {} /\ coll[p].left \in SUBSET Nat
        /\ coll[p].end \in Nat /\ coll[p].end <= Len(transcript)
    BY <1>0, <1>2 DEF ProveFails, CollectorStates, Sane, InHand
  <2>2. j \in coll[p].left
    BY <2>1, MinExists
  <2>3. j \in 1..Len(transcript) /\ transcript[j].kind = "proof"
    BY <1>0, <2>1, <2>2 DEF Sane, InHand
  <2>. HIDE DEF j
  <2>4. transcript[j].control \in Controls /\ transcript[j].call \in Calls
    BY <1>0, <2>3 DEF Lines
  <2>5. /\ ev \in [Controls -> SUBSET Evidence]
        /\ \A d \in Controls : Cardinality(ev[d]) <= EventLimit
        /\ Grows(transcript, transcript, chunks, chunks, evidence, ev)
    BY <2>4, Recording
  <2>. HIDE DEF ev
  <2>6. /\ UNCHANGED <<transcript, chunks, saved>>
        /\ evidence' = ev \/ evidence' = evidence
        /\ coll' = [coll EXCEPT ![p] = Retry(p)] /\ faults' \in 0..MaxFaults
    BY <1>2, FaultCounted DEF ProveFails, ProofRefused, j, ev
  <2>7. /\ evidence' \in [Controls -> SUBSET Evidence]
        /\ \A d \in Controls : Cardinality(evidence'[d]) <= EventLimit
        /\ Grows(transcript, transcript, chunks, chunks, evidence, evidence')
    BY <1>0, <2>5, <2>6, GrowsInPlace
  <2>8. Retry(p) \in CollectorStates /\ Sane(transcript, chunks, evidence', Retry(p))
    BY <1>0, <2>7, RetrySane, Lasting
  <2>9. /\ coll' \in [Collectors -> CollectorStates]
        /\ \A q \in Collectors :
               coll'[q] = coll[q] \/ Sane(transcript, chunks, evidence', coll'[q])
    BY <1>0, <2>6, <2>8
  <2>. QED
    BY <1>0, <2>6, <2>7, <2>9, Moved
<1>3. CASE CollectorCrash(p)
  BY <1>3, AtStart, MovedInPlace, FaultCounted DEF CollectorCrash
<1>. QED
  BY <1>1, <1>2, <1>3 DEF CollectorFault

\* What others do to the collector's state.
LEMMA TranscriptGrows ==
    ASSUME CollectorInv, NEW line \in Lines, transcript' = Append(transcript, line),
           UNCHANGED <<chunks, evidence, saved, coll>>, faults' \in 0..MaxFaults
    PROVE  CollectorInv'
<1>0. /\ transcript \in Seq(Lines) /\ coll \in [Collectors -> CollectorStates]
      /\ evidence \in [Controls -> SUBSET Evidence]
      /\ \A c \in Controls : Cardinality(evidence[c]) <= EventLimit
      /\ chunks \subseteq Nat \X (1..Len(transcript)) /\ Numbered(transcript, chunks)
  BY DEF CollectorInv, CollectorTypeOK
<1>1. /\ transcript' \in Seq(Lines) /\ Len(transcript') = Len(transcript) + 1
      /\ \A j \in 1..Len(transcript) : transcript'[j] = transcript[j]
  BY <1>0
<1>2. Grows(transcript, transcript', chunks, chunks', evidence, evidence')
  BY <1>0, <1>1, GrowsInPlace DEF Grows
<1>3. chunks' \subseteq Nat \X (1..Len(transcript'))
  BY <1>0, <1>1
<1>4. Numbered(transcript', chunks')
  <2>1. ASSUME NEW r \in chunks
        PROVE  /\ r[2] \in FilledIn(transcript', Len(transcript'))
               /\ r[1] = Cardinality(FilledIn(transcript', r[2] - 1))
    <3>1. /\ r[2] \in 1..Len(transcript) /\ r[2] \in FilledIn(transcript, Len(transcript))
          /\ r[1] = Cardinality(FilledIn(transcript, r[2] - 1))
      BY <1>0 DEF Numbered
    <3>2. FilledIn(transcript', r[2] - 1) = FilledIn(transcript, r[2] - 1)
      BY <1>0, <1>1, <3>1 DEF FilledIn
    <3>3. r[2] \in FilledIn(transcript', Len(transcript'))
      BY <1>0, <1>1, <3>1 DEF FilledIn
    <3>4. Cardinality(FilledIn(transcript', r[2] - 1)) = Cardinality(FilledIn(transcript, r[2] - 1))
      BY <3>2, Zenon
    <3>. QED
      BY <3>1, <3>3, <3>4
  <2>. QED
    BY <2>1 DEF Numbered
<1>. QED
  BY <1>0, <1>1, <1>2, <1>3, <1>4, Moved

LEMMA EvidenceGrows ==
    ASSUME CollectorInv, NEW c \in Controls, NEW u \in Calls, NEW kind \in {"ack", "proof"},
           evidence' = Recorded(c, kind, u) \/ evidence' = evidence,
           UNCHANGED <<transcript, chunks, saved, coll>>, faults' \in 0..MaxFaults
    PROVE  CollectorInv'
<1>0. /\ transcript \in Seq(Lines) /\ coll \in [Collectors -> CollectorStates]
      /\ evidence \in [Controls -> SUBSET Evidence]
      /\ \A d \in Controls : Cardinality(evidence[d]) <= EventLimit
      /\ chunks \subseteq Nat \X (1..Len(transcript)) /\ Numbered(transcript, chunks)
  BY DEF CollectorInv, CollectorTypeOK
<1>1. /\ evidence' \in [Controls -> SUBSET Evidence]
      /\ \A d \in Controls : Cardinality(evidence'[d]) <= EventLimit
      /\ Grows(transcript, transcript, chunks, chunks, evidence, evidence')
  BY <1>0, Recording, GrowsInPlace
<1>. QED
  BY <1>0, <1>1, Moved

LEMMA OnlyFaults ==
    ASSUME CollectorInv, UNCHANGED <<transcript, chunks, evidence, saved, coll>>,
           faults' \in 0..MaxFaults
    PROVE  CollectorInv'
<1>1. /\ transcript \in Seq(Lines) /\ coll \in [Collectors -> CollectorStates]
      /\ evidence \in [Controls -> SUBSET Evidence]
      /\ \A d \in Controls : Cardinality(evidence[d]) <= EventLimit
      /\ chunks \subseteq Nat \X (1..Len(transcript)) /\ Numbered(transcript, chunks)
  BY DEF CollectorInv, CollectorTypeOK
<1>2. Grows(transcript, transcript', chunks, chunks', evidence, evidence')
  BY GrowsInPlace
<1>. QED
  BY <1>1, <1>2, Moved

\* All that the server learns from a collector are proofs of the transcript.
LEMMA CollectorLearns ==
    ASSUME CollectorInv, NEW p \in Collectors,
           CollectorStep(p) \/ SaveAgain(p) \/ CollectorFault(p)
    PROVE  /\ transcript' = transcript
           /\ \A c \in Controls : evidence[c] \subseteq evidence'[c]
           /\ \A c \in Controls : \A e \in evidence'[c] : e \in evidence[c] \/
                  \E j \in 1..Len(transcript) :
                      /\ transcript[j].kind = "proof" /\ transcript[j].control = c
                      /\ e = [kind |-> "proof", call |-> transcript[j].call]
<1>1. CASE Prove(p) \/ ProveFails(p)
  <2> DEFINE j == Min(coll[p].left)
             c == transcript[j].control
             u == transcript[j].call
  <2>1. /\ coll[p].pc = "prove" /\ coll[p].left # {} /\ coll[p].left \in SUBSET Nat
        /\ coll[p].end \in Nat /\ coll[p].end <= Len(transcript)
    BY <1>1 DEF Prove, ProveFails, CollectorInv, CollectorTypeOK, CollectorStates, Sane, InHand
  <2>2. j \in coll[p].left
    BY <2>1, MinExists
  <2>3. j \in 1..Len(transcript) /\ transcript[j].kind = "proof"
    BY <2>1, <2>2 DEF CollectorInv, CollectorTypeOK, Sane, InHand
  <2>. HIDE DEF j
  <2>4. c \in Controls /\ u \in Calls
    BY <2>3 DEF Lines, CollectorInv, CollectorTypeOK
  <2>5. evidence' = Recorded(c, "proof", u) \/ evidence' = evidence
    BY <1>1 DEF Prove, ProveFails, j
  <2>6. transcript' = transcript
    BY <1>1 DEF Prove, ProveFails
  <2>7. CASE evidence' = Recorded(c, "proof", u)
    <3>1. Grows(transcript, transcript, chunks, chunks, evidence, evidence')
      BY <2>4, <2>7, Recording
    <3>2. \A d \in Controls : evidence[d] \subseteq evidence'[d]
      BY <3>1 DEF Grows
    <3>3. \A d \in Controls : \A e \in evidence'[d] :
                 e \in evidence[d] \/ (d = c /\ e = [kind |-> "proof", call |-> u])
      <4>. HIDE DEF c, u
      <4>. QED
        BY <2>4, <2>7, Recording
    <3>. QED
      BY <2>3, <2>6, <3>2, <3>3
  <2>. QED
    BY <2>5, <2>6, <2>7
<1>2. CASE /\ ~(Prove(p) \/ ProveFails(p))
           /\ UNCHANGED <<transcript, evidence>>
  BY <1>2
<1>. QED
  BY <1>1, <1>2 DEF CollectorStep, CollectorFault, Load, Read, Finish, Upload, UploadFails, Save,
                    SaveAgain, CollectorCrash

-----------------------------------------------------------------------------
(* The invariant of the control *)

\* u acknowledged c.
Acked(u, c) == call[u].acked /\ call[u].control = c

\* The harness ended the turn at u, on account of c.
StoppedAt(u, c) == call[u].pc = "stopped" /\ call[u].control = c

\* A call names a control that was requested; it has not acknowledged it before
\* it was at the gate.
Named ==
    \A u \in Calls :
        /\ call[u].control \in 0..Len(lifted)
        /\ call[u].pc \in {"new", "gate"} => call[u].control = 0
        /\ call[u].pc \in {"new", "gate", "ack"} => ~call[u].acked
        /\ call[u].pc \in {"ack", "answer", "stopped"} => call[u].control # 0
        /\ call[u].acked => call[u].control # 0

\* What is written down happened.
Truthful ==
    /\ \A c \in Controls, u \in Calls :
           /\ [kind |-> "ack", call |-> u] \in evidence[c] => Acked(u, c)
           /\ [kind |-> "proof", call |-> u] \in evidence[c] => StoppedAt(u, c)
    /\ \A i \in 1..Len(ackFile) : Acked(ackFile[i].call, ackFile[i].control)
    /\ \A j \in 1..Len(transcript) : transcript[j].kind = "proof" =>
           StoppedAt(transcript[j].call, transcript[j].control)

\* No file and no call names a control that is still active.
NoneNamed ==
    /\ flag # 0 => lifted[flag]
    /\ \A u \in Calls : call[u].control # 0 => lifted[call[u].control]

\* Where the channel stands.  A round that found no control active may clear
\* the acknowledgements: whatever was requested since, nobody knows of it.
Round ==
    /\ ch.active \in 0..Len(lifted) /\ ch.seen \subseteq 1..Len(lifted)
    /\ ch.over \in 0..Len(lifted) /\ (ch.over # 0 => lifted[ch.over])
    /\ ch.pc = "flag" => ch.active # 0
    /\ ch.pc \in {"down", "idle"} => ch.active = 0
    /\ ch.pc \in {"latest", "lift", "clear"} => ch.active = 0
    /\ ch.pc \in {"latest", "read", "report", "lift", "clear"} /\ ch.active = 0 => NoneNamed
    /\ ch.offset <= Len(ackFile)
    /\ ch.pc = "report" =>
        /\ ch.next <= Len(ackFile) /\ ch.offset + Len(ch.todo) = ch.next
        /\ \A i \in 1..Len(ch.todo) : ch.todo[i] = ackFile[ch.offset + i]

\* A control that was announced is over, and its channel knows that it was.
Announced ==
    \A c \in Controls : notices[c] # 0 =>
        /\ notices[c] = 1 /\ c \in 1..Len(lifted) /\ lifted[c]
        /\ c \in ch.seen => c \in ch.announced

ControlTypeOK ==
    /\ lifted \in Seq(BOOLEAN) /\ Len(lifted) <= MaxControls
    /\ flag \in 0..Len(lifted)
    /\ ackFile \in Seq(AckLines)
    /\ ch \in ChannelStates
    /\ call \in [Calls -> CallStates]
    /\ session \in {"working", "stopped"}
    /\ notices \in [Controls -> Nat]

\* AcksKept, with the entries of the file taken apart.
Keeps(u) ==
    \/ lifted[call[u].control]
    \/ [kind |-> "ack", call |-> u] \in evidence[call[u].control]
    \/ Full(call[u].control)
    \/ \E i \in 1..Len(ackFile) :
           i > ch.offset /\ ackFile[i].call = u /\ ackFile[i].control = call[u].control

Kept == \A u \in Calls : call[u].acked => Keeps(u)

ControlInv == ControlTypeOK /\ Named /\ Truthful /\ Round /\ Announced /\ Kept

Inv == CollectorInv /\ ControlInv

LEMMA InvInit == Init => Inv
<1>. SUFFICES ASSUME Init PROVE Inv
  OBVIOUS
<1>1. CollectorInv
  BY CollectorStart DEF Init
<1>2. ControlTypeOK
  BY CollectorAssumption
     DEF Init, ControlTypeOK, NoChannel, ChannelStates, NewCall, CallStates, AckLines
<1>3. Named /\ Truthful /\ Round /\ Announced /\ Kept
  BY DEF Init, CollectorInit, Named, Truthful, Round, Announced, Kept, NoChannel, NewCall,
         NoneNamed
<1>. QED
  BY <1>1, <1>2, <1>3 DEF Inv, ControlInv

LEMMA InvTypes == Inv => TypeOK
BY DEF Inv, CollectorInv, ControlInv, ControlTypeOK, TypeOK

LEMMA InvKeepsAcks == Inv => AcksKept
<1>. SUFFICES ASSUME Inv, NEW u \in Calls, call[u].acked, ~lifted[call[u].control]
              PROVE  \/ [kind |-> "ack", call |-> u] \in evidence[call[u].control]
                     \/ Full(call[u].control)
                     \/ \E i \in 1..Len(ackFile) :
                           ackFile[i] = [control |-> call[u].control, call |-> u] /\ i > ch.offset
  BY DEF AcksKept
<1>1. ackFile \in Seq(AckLines) /\ Keeps(u)
  BY DEF Inv, ControlInv, ControlTypeOK, Kept
<1>2. ASSUME NEW i \in 1..Len(ackFile), i > ch.offset, ackFile[i].call = u,
             ackFile[i].control = call[u].control
      PROVE  ackFile[i] = [control |-> call[u].control, call |-> u]
  <2>1. ackFile[i] \in AckLines
    BY <1>1
  <2>. QED
    BY <1>2, <2>1 DEF AckLines
<1>. QED
  BY <1>1, <1>2 DEF Keeps

LEMMA ActiveOne ==
    ASSUME lifted \in Seq(BOOLEAN)
    PROVE  /\ Active \in 0..Len(lifted)
           /\ Active # 0 => ~lifted[Active]
           /\ Active = 0 => \A c \in 1..Len(lifted) : lifted[c]
<1>1. CASE \E c \in 1..Len(lifted) : ~lifted[c]
  BY <1>1 DEF Active
<1>2. CASE ~\E c \in 1..Len(lifted) : ~lifted[c]
  BY <1>2 DEF Active
<1>. QED
  BY <1>1, <1>2

LEMMA SameCollector == CollectorInv /\ UNCHANGED collectorVars => CollectorInv'
<1>. SUFFICES ASSUME CollectorInv, UNCHANGED collectorVars PROVE CollectorInv'
  OBVIOUS
<1>. QED
  BY OnlyFaults, FaultCounted DEF collectorVars

LEMMA FullLasts ==
    ASSUME CollectorInv, CollectorInv', NEW c \in Controls, evidence[c] \subseteq evidence'[c],
           Cardinality(evidence[c]) >= EventLimit
    PROVE  Cardinality(evidence'[c]) >= EventLimit
<1>1. /\ IsFiniteSet(evidence[c]) /\ IsFiniteSet(evidence'[c]) /\ EventLimit \in Nat
      /\ Cardinality(evidence[c]) \in Nat /\ Cardinality(evidence'[c]) \in Nat
  BY CollectorAssumption, FS_CardinalityType DEF CollectorInv
<1>2. Cardinality(evidence[c]) <= Cardinality(evidence'[c])
  BY <1>1, FS_Subset
<1>. QED
  BY <1>1, <1>2

\* What was acknowledged is still kept when no acknowledgement is added or
\* cleared and the channel reports none.
LEMMA StillKept ==
    ASSUME Inv, CollectorInv',
           \A u \in Calls : call'[u].acked => call[u].acked /\ call'[u].control = call[u].control,
           \A c \in 1..Len(lifted) : lifted[c] => lifted'[c],
           \A c \in Controls : evidence[c] \subseteq evidence'[c],
           Len(ackFile) <= Len(ackFile'), Len(ackFile') \in Nat,
           \A i \in 1..Len(ackFile) : ackFile'[i] = ackFile[i],
           ch'.offset <= ch.offset, ch'.offset \in Nat
    PROVE  Kept'
<1>. SUFFICES ASSUME NEW u \in Calls, call'[u].acked PROVE Keeps(u)'
  BY DEF Kept
<1> DEFINE c == call[u].control
<1>1. call[u].acked /\ call'[u].control = c
  OBVIOUS
<1>2. c \in 0..Len(lifted) /\ c # 0 /\ Len(lifted) \in Nat /\ Len(lifted) <= MaxControls /\ Keeps(u)
  BY <1>1 DEF Inv, ControlInv, Named, ControlTypeOK, Kept
<1>3. c \in 1..Len(lifted) /\ c \in Controls
  BY <1>2, CollectorAssumption DEF Controls
<1>4. CASE lifted[c]
  BY <1>1, <1>3, <1>4 DEF Keeps
<1>5. CASE [kind |-> "ack", call |-> u] \in evidence[c]
  BY <1>1, <1>3, <1>5 DEF Keeps
<1>6. CASE Full(c)
  <2>1. Cardinality(evidence[c]) >= EventLimit
    BY <1>6 DEF Full
  <2>2. Cardinality(evidence'[c]) >= EventLimit
    <3>. HIDE DEF c
    <3>. QED
      BY <1>3, <2>1, FullLasts DEF Inv
  <2>. QED
    BY <1>1, <2>2 DEF Keeps, Full
<1>7. CASE \E i \in 1..Len(ackFile) : i > ch.offset /\ ackFile[i].call = u /\ ackFile[i].control = c
  <2>1. PICK i \in 1..Len(ackFile) : i > ch.offset /\ ackFile[i].call = u /\ ackFile[i].control = c BY <1>7
  <2>2. i \in 1..Len(ackFile') /\ i > ch'.offset /\ ackFile'[i].call = u /\ ackFile'[i].control = c
    BY <2>1 DEF Inv, ControlInv, ControlTypeOK, ChannelStates
  <2> QED BY <1>1, <2>2 DEF Keeps
<1>. QED
  BY <1>2, <1>4, <1>5, <1>6, <1>7 DEF Keeps

\* What was written down stays true of calls that go on.
LEMMA StillTruthful ==
    ASSUME Inv,
           \A u \in Calls :
               call[u].acked => call'[u].acked /\ call'[u].control = call[u].control,
           \A u \in Calls :
               call[u].pc = "stopped" =>
                   call'[u].pc = "stopped" /\ call'[u].control = call[u].control,
           \A c \in Controls : \A e \in evidence'[c] : e \in evidence[c] \/
               /\ e.kind = "ack" => call'[e.call].acked /\ call'[e.call].control = c
               /\ e.kind = "proof" => call'[e.call].pc = "stopped" /\ call'[e.call].control = c,
           \A i \in 1..Len(ackFile') :
               \/ i \in 1..Len(ackFile) /\ ackFile'[i] = ackFile[i]
               \/ /\ call'[ackFile'[i].call].acked
                  /\ call'[ackFile'[i].call].control = ackFile'[i].control,
           \A j \in 1..Len(transcript') :
               \/ j \in 1..Len(transcript) /\ transcript'[j] = transcript[j]
               \/ transcript'[j].kind = "proof" =>
                      /\ call'[transcript'[j].call].pc = "stopped"
                      /\ call'[transcript'[j].call].control = transcript'[j].control
    PROVE  Truthful'
<1>0. Truthful /\ ackFile \in Seq(AckLines) /\ transcript \in Seq(Lines)
  BY DEF Inv, ControlInv, ControlTypeOK, CollectorInv, CollectorTypeOK
<1>1. ASSUME NEW c \in Controls, NEW u \in Calls, [kind |-> "ack", call |-> u] \in evidence'[c]
      PROVE  call'[u].acked /\ call'[u].control = c
  <2> DEFINE e == [kind |-> "ack", call |-> u]
  <2>1. CASE e \in evidence[c]
    <3>1. Acked(u, c)
      BY <1>0, <2>1 DEF Truthful
    <3>. QED
      BY <3>1 DEF Acked
  <2>2. CASE e \notin evidence[c]
    <3>1. e \in evidence'[c] /\ e.kind = "ack" /\ e.call = u
      BY <1>1
    <3>. HIDE DEF e
    <3>. QED
      BY <2>2, <3>1
  <2>. QED
    BY <2>1, <2>2
<1>2. ASSUME NEW c \in Controls, NEW u \in Calls, [kind |-> "proof", call |-> u] \in evidence'[c]
      PROVE  call'[u].pc = "stopped" /\ call'[u].control = c
  <2> DEFINE e == [kind |-> "proof", call |-> u]
  <2>1. CASE e \in evidence[c]
    <3>1. StoppedAt(u, c)
      BY <1>0, <2>1 DEF Truthful
    <3>. QED
      BY <3>1 DEF StoppedAt
  <2>2. CASE e \notin evidence[c]
    <3>1. e \in evidence'[c] /\ e.kind = "proof" /\ e.call = u
      BY <1>2
    <3>. HIDE DEF e
    <3>. QED
      BY <2>2, <3>1
  <2>. QED
    BY <2>1, <2>2
<1>3. ASSUME NEW i \in 1..Len(ackFile')
      PROVE  call'[ackFile'[i].call].acked /\ call'[ackFile'[i].call].control = ackFile'[i].control
  <2>1. CASE i \in 1..Len(ackFile) /\ ackFile'[i] = ackFile[i]
    <3>1. ackFile[i].call \in Calls
      <4>1. ackFile[i] \in AckLines
        BY <1>0, <2>1
      <4>. QED
        BY <4>1 DEF AckLines
    <3>2. Acked(ackFile[i].call, ackFile[i].control)
      BY <1>0, <2>1 DEF Truthful
    <3>. QED
      BY <2>1, <3>1, <3>2 DEF Acked
  <2>. QED
    BY <2>1
<1>4. ASSUME NEW j \in 1..Len(transcript'), transcript'[j].kind = "proof"
      PROVE  /\ call'[transcript'[j].call].pc = "stopped"
             /\ call'[transcript'[j].call].control = transcript'[j].control
  <2>1. CASE j \in 1..Len(transcript) /\ transcript'[j] = transcript[j]
    <3>1. transcript[j].call \in Calls
      BY <1>0, <1>4, <2>1 DEF Lines
    <3>2. StoppedAt(transcript[j].call, transcript[j].control)
      BY <1>0, <1>4, <2>1 DEF Truthful
    <3>. QED
      BY <2>1, <3>1, <3>2 DEF StoppedAt
  <2>. QED
    BY <1>4, <2>1
<1>. QED
  BY <1>1, <1>2, <1>3, <1>4 DEF Truthful, Acked, StoppedAt

LEMMA PersonKeeps == Inv /\ (Request \/ Resume \/ Prompt) => Inv'
<1>. SUFFICES ASSUME Inv, Request \/ Resume \/ Prompt PROVE Inv'
  OBVIOUS
<1>0. CollectorInv /\ ControlTypeOK /\ Named /\ Truthful /\ Round /\ Announced /\ Kept
  BY DEF Inv, ControlInv
<1>1. CollectorInv'
  BY <1>0, SameCollector DEF Request, Resume, Prompt
<1>2. /\ UNCHANGED <<flag, ackFile, ch, call, notices, evidence, transcript>>
      /\ session' \in {"working", "stopped"}
  BY <1>0 DEF Request, Resume, Prompt, collectorVars, ControlTypeOK
<1>3. /\ lifted' \in Seq(BOOLEAN) /\ Len(lifted) <= Len(lifted') /\ Len(lifted') <= MaxControls
      /\ \A c \in 1..Len(lifted) : lifted[c] => lifted'[c]
  <2>0. lifted \in Seq(BOOLEAN) /\ Len(lifted) <= MaxControls
    BY <1>0 DEF ControlTypeOK
  <2>1. CASE Request
    <3>1. lifted' = Append(lifted, FALSE) /\ Len(lifted) < MaxControls
      BY <2>1 DEF Request
    <3>. QED
      BY <2>0, <3>1, CollectorAssumption
  <2>2. CASE Resume
    BY <1>0, <2>2, ActiveOne DEF Resume, ControlTypeOK
  <2>3. CASE Prompt
    BY <1>0, <2>3 DEF Prompt, ControlTypeOK
  <2>. QED
    BY <2>1, <2>2, <2>3
<1>4. Len(lifted) \in Nat /\ Len(lifted') \in Nat
  BY <1>0, <1>3 DEF ControlTypeOK
<1>5. ControlTypeOK'
  BY <1>0, <1>2, <1>3, <1>4 DEF ControlTypeOK
<1>6. Named'
  BY <1>0, <1>2, <1>3, <1>4 DEF Named
<1>7. Truthful'
  BY <1>0, <1>2 DEF Truthful, Acked, StoppedAt
<1>8. Round'
  <2>1. NoneNamed => NoneNamed'
    <3>1. flag \in 0..Len(lifted) /\ \A u \in Calls : call[u].control \in 0..Len(lifted)
      BY <1>0 DEF ControlTypeOK, Named
    <3>. QED
      BY <1>2, <1>3, <1>4, <3>1 DEF NoneNamed
  <2>. QED
    BY <1>0, <1>2, <1>3, <1>4, <2>1 DEF Round
<1>9. Announced'
  BY <1>0, <1>2, <1>3, <1>4 DEF Announced
<1>10. Kept'
  <2>1. /\ Len(ackFile) \in Nat /\ ch.offset \in Nat
    BY <1>0 DEF ControlTypeOK, ChannelStates
  <2>. QED
    BY <1>1, <1>2, <1>3, <2>1, StillKept
<1>. QED
  BY <1>1, <1>5, <1>6, <1>7, <1>8, <1>9, <1>10 DEF Inv, ControlInv

\* A step of the channel alone: what it must see to.
LEMMA ChannelAlone ==
    ASSUME Inv, UNCHANGED <<transcript, chunks, evidence, saved, coll, lifted, ackFile, call>>,
           faults' \in 0..MaxFaults, session' \in {"working", "stopped"},
           flag' \in 0..Len(lifted), ch' \in ChannelStates, ch'.offset <= ch.offset,
           notices' \in [Controls -> Nat], Announced', Round'
    PROVE  Inv'
<1>0. CollectorInv /\ ControlTypeOK /\ Named /\ Truthful /\ Round /\ Announced /\ Kept
  BY DEF Inv, ControlInv
<1>1. CollectorInv'
  BY <1>0, OnlyFaults
<1>2. ControlTypeOK'
  BY <1>0 DEF ControlTypeOK
<1>3. Named'
  BY <1>0 DEF Named
<1>4. Truthful'
  BY <1>0 DEF Truthful, Acked, StoppedAt
<1>5. Kept'
  <2>1. Len(ackFile) \in Nat /\ ch'.offset \in Nat
    BY <1>0 DEF ControlTypeOK, ChannelStates
  <2>. QED
    BY <1>1, <2>1, StillKept
<1>. QED
  BY <1>1, <1>2, <1>3, <1>4, <1>5 DEF Inv, ControlInv

LEMMA ChannelTypes ==
    ASSUME Inv
    PROVE  /\ NoChannel \in ChannelStates /\ Rested \in ChannelStates
           /\ ch \in ChannelStates /\ ch.offset \in Nat /\ Len(lifted) \in Nat
           /\ Len(lifted) <= MaxControls /\ lifted \in Seq(BOOLEAN)
           /\ flag \in 0..Len(lifted) /\ session \in {"working", "stopped"}
           /\ notices \in [Controls -> Nat] /\ Len(ackFile) \in Nat /\ ackFile \in Seq(AckLines)
           /\ \A c \in 0..Len(lifted) : c \in 0..MaxControls
<1>1. ControlTypeOK /\ MaxControls \in Nat
  BY CollectorAssumption DEF Inv, ControlInv
<1>2. NoChannel \in ChannelStates
  BY <1>1 DEF NoChannel, ChannelStates
<1>3. ch \in ChannelStates
  BY <1>1 DEF ControlTypeOK
<1>4. Rested \in ChannelStates
  BY <1>2, <1>3 DEF Rested, ChannelStates
<1>5. ch.offset \in Nat
  BY <1>3 DEF ChannelStates
<1>6. /\ Len(lifted) \in Nat /\ Len(lifted) <= MaxControls /\ lifted \in Seq(BOOLEAN)
      /\ flag \in 0..Len(lifted) /\ session \in {"working", "stopped"}
      /\ notices \in [Controls -> Nat] /\ Len(ackFile) \in Nat /\ ackFile \in Seq(AckLines)
  BY <1>1 DEF ControlTypeOK
<1>7. \A c \in 0..Len(lifted) : c \in 0..MaxControls
  BY <1>1, <1>6
<1>. QED
  BY <1>2, <1>3, <1>4, <1>5, <1>6, <1>7

\* What is left of a sequence behind its first o elements.
LEMMA RestOf ==
    ASSUME NEW S, NEW s \in Seq(S), NEW o \in Nat, o <= Len(s)
    PROVE  /\ SubSeq(s, o + 1, Len(s)) \in Seq(S)
           /\ o + Len(SubSeq(s, o + 1, Len(s))) = Len(s)
           /\ \A i \in 1..Len(SubSeq(s, o + 1, Len(s))) : SubSeq(s, o + 1, Len(s))[i] = s[o + i]
<1> DEFINE t == SubSeq(s, o + 1, Len(s))
<1>1. Len(s) \in Nat
  OBVIOUS
<1>2. t \in Seq(S)
  BY <1>1
<1>3. Len(t) = Len(s) - o
  BY <1>1
<1>4. \A i \in 1..Len(t) : t[i] = s[o + i]
  BY <1>1, <1>3
<1>. QED
  BY <1>1, <1>2, <1>3, <1>4

LEMMA ChannelKeeps ==
    ASSUME Inv, StartChannel \/ AskActive \/ AskLatest \/ SetFlag \/ ReadAcks \/ EndReport
                \/ LiftFlag \/ Announce \/ CloseChannel \/ CrashChannel
    PROVE  Inv'
<1>0. Round /\ Announced /\ CollectorInv
  BY DEF Inv, ControlInv
<1>1. /\ ch \in ChannelStates /\ ch.offset \in Nat
      /\ lifted \in Seq(BOOLEAN) /\ Len(lifted) \in Nat
      /\ \A c \in 0..Len(lifted) : c \in 0..MaxControls
      /\ flag \in 0..Len(lifted) /\ session \in {"working", "stopped"}
      /\ notices \in [Controls -> Nat]
  BY ChannelTypes
<1>2. /\ UNCHANGED <<transcript, chunks, evidence, saved, coll, lifted, ackFile, call>>
      /\ faults' \in 0..MaxFaults
  <2>1. Fault \/ UNCHANGED faults
    BY DEF StartChannel, AskActive, AskLatest, SetFlag, ReadAcks, EndReport, LiftFlag, Announce,
           CloseChannel, CrashChannel, collectorVars
  <2>2. faults' \in 0..MaxFaults
    BY <1>0, <2>1, FaultCounted
  <2>. QED
    BY <2>2 DEF StartChannel, AskActive, AskLatest, SetFlag, ReadAcks, EndReport, LiftFlag, Announce,
                CloseChannel, CrashChannel, collectorVars
<1>3. NoChannel \in ChannelStates /\ NoChannel.offset <= ch.offset
  BY <1>1, ChannelTypes DEF NoChannel
<1>4. Rested \in ChannelStates /\ Rested.offset <= ch.offset
  BY <1>1, ChannelTypes DEF NoChannel, Rested
<1>5. CASE StartChannel \/ CloseChannel \/ CrashChannel
  <2>1. /\ ch'.pc \in {"idle", "down"} /\ ch'.active = 0 /\ ch'.over = 0 /\ ch'.offset = 0
        /\ ch'.seen = {} /\ flag' \in {flag, 0} /\ UNCHANGED <<notices, session>>
    BY <1>5 DEF StartChannel, CloseChannel, CrashChannel, NoChannel
  <2>2. ch' \in ChannelStates
    BY <1>3, <1>5 DEF StartChannel, CloseChannel, CrashChannel, ChannelStates
  <2>3. Announced'
    BY <1>0, <1>2, <2>1 DEF Announced
  <2>4. Round'
    BY <1>1, <1>2, <2>1, ChannelTypes DEF Round
  <2>. QED
    BY <1>1, <1>2, <2>1, <2>2, <2>3, <2>4, ChannelAlone
<1>6. CASE AskActive
  <2>1. UNCHANGED <<flag, notices, session>>
    BY <1>6 DEF AskActive
  <2>2. CASE Active = 0
    <3>1. ch.pc = "idle" /\ ch' = [ch EXCEPT !.pc = "latest"]
      BY <1>6, <2>2 DEF AskActive
    <3>2. ch' \in ChannelStates /\ ch'.offset <= ch.offset
      BY <1>1, <3>1 DEF ChannelStates
    <3>3. Announced'
      BY <1>0, <1>1, <1>2, <2>1, <3>1 DEF Announced, ChannelStates
    <3>4. NoneNamed
      BY <1>1, <2>2, ActiveOne DEF NoneNamed, Inv, ControlInv, Named
    <3>5. ch.active = 0
      BY <1>0, <3>1 DEF Round
    <3>6. Round'
      BY <1>0, <1>1, <1>2, <2>1, <3>1, <3>4, <3>5 DEF Round, NoneNamed, ChannelStates
    <3>. QED
      BY <1>1, <1>2, <2>1, <3>2, <3>3, <3>6, ChannelAlone
  <2>3. CASE Active # 0
    <3>1. /\ Active \in 1..Len(lifted) /\ ~lifted[Active] /\ Active \in 0..MaxControls
          /\ Active \in Controls
      BY <1>1, <2>3, ActiveOne, CollectorAssumption DEF Controls
    <3>2. ch' = [ch EXCEPT !.pc = "flag", !.active = Active, !.seen = @ \union {Active}]
      BY <1>6, <2>3 DEF AskActive
    <3>3. /\ ch'.pc = "flag" /\ ch'.active = Active /\ ch'.seen = ch.seen \union {Active}
          /\ ch'.over = ch.over /\ ch'.offset = ch.offset /\ ch'.announced = ch.announced
      BY <1>1, <3>2 DEF ChannelStates
    <3>4. ch' \in ChannelStates
      BY <1>1, <3>1, <3>2 DEF ChannelStates
    <3>5. Announced'
      BY <1>0, <1>2, <2>1, <3>1, <3>3 DEF Announced
    <3>6. Round'
      BY <1>0, <1>2, <2>1, <3>1, <3>3 DEF Round
    <3>. QED
      BY <1>1, <1>2, <2>1, <3>3, <3>4, <3>5, <3>6, ChannelAlone
  <2>. QED
    BY <2>2, <2>3
<1>7. CASE AskLatest
  <2>1. UNCHANGED <<flag, notices, session>> /\ ch.pc = "latest"
    BY <1>7 DEF AskLatest
  <2>2. CASE ch' = Rested
    <3>1. /\ ch'.pc = "idle" /\ ch'.active = 0 /\ ch'.over = 0 /\ ch'.offset = ch.offset
          /\ ch'.seen = ch.seen /\ ch'.announced = ch.announced
      BY <2>2 DEF Rested, NoChannel
    <3>2. Announced' /\ Round'
      BY <1>0, <1>1, <1>2, <2>1, <3>1 DEF Announced, Round
    <3>. QED
      BY <1>1, <1>2, <1>4, <2>1, <2>2, <3>2, ChannelAlone
  <2>3. CASE ch' # Rested
    <3> DEFINE over == IF Active = 0 THEN Len(lifted) ELSE 0
    <3>1. ch' = [ch EXCEPT !.pc = "read", !.over = over]
      BY <1>7, <2>3 DEF AskLatest
    <3>2. over \in 0..Len(lifted) /\ (over # 0 => lifted[over]) /\ over \in 0..MaxControls
      BY <1>1, ActiveOne
    <3>. HIDE DEF over
    <3>3. /\ ch'.pc = "read" /\ ch'.active = ch.active /\ ch'.over = over /\ ch'.offset = ch.offset
          /\ ch'.seen = ch.seen /\ ch'.announced = ch.announced
      BY <1>1, <3>1 DEF ChannelStates
    <3>4. ch' \in ChannelStates
      BY <1>1, <3>1, <3>2 DEF ChannelStates
    <3>5. Announced' /\ Round'
      BY <1>0, <1>1, <1>2, <2>1, <3>2, <3>3 DEF Announced, Round, NoneNamed
    <3>. QED
      BY <1>1, <1>2, <2>1, <3>3, <3>4, <3>5, ChannelAlone
  <2>. QED
    BY <2>2, <2>3
<1>8. CASE SetFlag
  <2>1. /\ ch.pc = "flag" /\ flag' = ch.active /\ ch' = [ch EXCEPT !.pc = "read"]
        /\ UNCHANGED <<notices, session>>
    BY <1>8 DEF SetFlag
  <2>2. ch' \in ChannelStates /\ ch'.offset = ch.offset
    BY <1>1, <2>1 DEF ChannelStates
  <2>3. /\ ch'.pc = "read" /\ ch'.active = ch.active /\ ch'.over = ch.over
        /\ ch'.seen = ch.seen /\ ch'.announced = ch.announced
    BY <1>1, <2>1 DEF ChannelStates
  <2>4. flag' \in 0..Len(lifted) /\ ch.active # 0
    BY <1>0, <2>1 DEF Round
  <2>5. Announced' /\ Round'
    BY <1>0, <1>1, <1>2, <2>1, <2>2, <2>3, <2>4 DEF Announced, Round
  <2>. QED
    BY <1>1, <1>2, <2>1, <2>2, <2>4, <2>5, ChannelAlone
<1>9. CASE ReadAcks
  <2> DEFINE todo == SubSeq(ackFile, ch.offset + 1, Len(ackFile))
  <2>1. /\ ch.offset <= Len(ackFile) /\ Len(ackFile) \in Nat /\ ackFile \in Seq(AckLines)
    BY <1>0, ChannelTypes DEF Round
  <2>2. /\ ch.pc = "read" /\ UNCHANGED <<flag, notices, session>>
        /\ ch' = [ch EXCEPT !.pc = "report", !.offset = ch.offset, !.next = Len(ackFile), !.todo = todo]
    <3>1. ~(Len(ackFile) < ch.offset)
      BY <1>1, <2>1
    <3>2. (IF Len(ackFile) < ch.offset THEN 0 ELSE ch.offset) = ch.offset
      BY <3>1
    <3>. QED
      BY <1>9, <3>2 DEF ReadAcks
  <2>3. /\ todo \in Seq(AckLines) /\ ch.offset + Len(todo) = Len(ackFile)
        /\ \A i \in 1..Len(todo) : todo[i] = ackFile[ch.offset + i]
    BY <1>1, <2>1, RestOf
  <2>. HIDE DEF todo
  <2>4. ch' \in ChannelStates
    BY <1>1, <2>1, <2>2, <2>3 DEF ChannelStates
  <2>5. /\ ch'.pc = "report" /\ ch'.active = ch.active /\ ch'.over = ch.over /\ ch'.offset = ch.offset
        /\ ch'.seen = ch.seen /\ ch'.announced = ch.announced /\ ch'.next = Len(ackFile)
        /\ ch'.todo = todo
    BY <1>1, <2>2 DEF ChannelStates
  <2>6. Announced'
    BY <1>0, <1>2, <2>2, <2>5 DEF Announced
  <2>7. Round'
    BY <1>0, <1>2, <2>1, <2>2, <2>3, <2>5 DEF Round, NoneNamed
  <2>. QED
    BY <1>1, <1>2, <2>2, <2>4, <2>5, <2>6, <2>7, ChannelAlone
<1>10. CASE EndReport
  <2>1. ch.pc = "report" /\ UNCHANGED <<flag, notices, session>>
    BY <1>10 DEF EndReport
  <2>2. CASE ch.active = 0
    <3>1. ch' = [ch EXCEPT !.pc = "lift"]
      BY <1>10, <2>2 DEF EndReport
    <3>2. ch' \in ChannelStates
      BY <1>1, <3>1 DEF ChannelStates
    <3>3. /\ ch'.pc = "lift" /\ ch'.active = 0 /\ ch'.over = ch.over /\ ch'.offset = ch.offset
          /\ ch'.seen = ch.seen /\ ch'.announced = ch.announced
      BY <1>1, <2>2, <3>1 DEF ChannelStates
    <3>4. Announced' /\ Round'
      BY <1>0, <1>2, <2>1, <2>2, <3>3 DEF Announced, Round, NoneNamed
    <3>. QED
      BY <1>1, <1>2, <2>1, <3>2, <3>3, <3>4, ChannelAlone
  <2>3. CASE ch.active # 0
    <3>1. ch' = Rested
      BY <1>10, <2>3 DEF EndReport
    <3>2. /\ ch'.pc = "idle" /\ ch'.active = 0 /\ ch'.over = 0 /\ ch'.offset = ch.offset
          /\ ch'.seen = ch.seen /\ ch'.announced = ch.announced
      BY <3>1 DEF Rested, NoChannel
    <3>3. Announced' /\ Round'
      BY <1>0, <1>1, <1>2, <2>1, <3>2 DEF Announced, Round
    <3>. QED
      BY <1>1, <1>2, <1>4, <2>1, <3>1, <3>3, ChannelAlone
  <2>. QED
    BY <2>2, <2>3
<1>11. CASE LiftFlag
  <2>1. /\ ch.pc = "lift" /\ flag' = 0 /\ ch' = [ch EXCEPT !.pc = "clear"]
        /\ UNCHANGED <<notices, session>>
    BY <1>11 DEF LiftFlag, NoFlag
  <2>2. ch' \in ChannelStates
    BY <1>1, <2>1 DEF ChannelStates
  <2>3. /\ ch'.pc = "clear" /\ ch'.active = ch.active /\ ch'.over = ch.over /\ ch'.offset = ch.offset
        /\ ch'.seen = ch.seen /\ ch'.announced = ch.announced
    BY <1>1, <2>1 DEF ChannelStates
  <2>4. Announced' /\ Round'
    BY <1>0, <1>2, <2>1, <2>3 DEF Announced, Round, NoneNamed
  <2>. QED
    BY <1>1, <1>2, <2>1, <2>2, <2>3, <2>4, ChannelAlone
<1>12. CASE Announce
  <2>1. ch.pc = "announce" /\ flag' = flag
    BY <1>12 DEF Announce
  <2>2. CASE UNCHANGED <<session, notices>> /\ ch' = Rested
    <3>1. /\ ch'.pc = "idle" /\ ch'.active = 0 /\ ch'.over = 0 /\ ch'.offset = ch.offset
          /\ ch'.seen = ch.seen /\ ch'.announced = ch.announced
      BY <2>2 DEF Rested, NoChannel
    <3>2. Announced' /\ Round'
      BY <1>0, <1>1, <1>2, <2>1, <2>2, <3>1 DEF Announced, Round
    <3>. QED
      BY <1>1, <1>2, <1>4, <2>1, <2>2, <3>2, ChannelAlone
  <2>3. CASE /\ Announces(ch.over) /\ notices' = [notices EXCEPT ![ch.over] = @ + 1]
             /\ session' = "working"
             /\ ch' = [Rested EXCEPT !.announced = @ \union {ch.over}]
    <3> DEFINE o == ch.over
    <3>1. /\ o \in ch.seen /\ o \notin ch.announced /\ o \in Controls
          /\ o \in 1..Len(lifted) /\ lifted[o]
      <4>1. o \in ch.seen /\ o \notin ch.announced
        BY <2>3 DEF Announces
      <4>2. ch.seen \subseteq 1..Len(lifted) /\ (o # 0 => lifted[o])
        BY <1>0 DEF Round
      <4>. QED
        BY <1>1, <4>1, <4>2 DEF ChannelStates
    <3>2. notices[o] = 0
      BY <1>0, <3>1 DEF Announced
    <3>3. /\ ch'.pc = "idle" /\ ch'.active = 0 /\ ch'.over = 0 /\ ch'.offset = ch.offset
          /\ ch'.seen = ch.seen /\ ch'.announced = ch.announced \union {o}
      BY <2>3 DEF Rested, NoChannel
    <3>4. ch' \in ChannelStates
      BY <1>4, <2>3, <3>1 DEF ChannelStates
    <3>5. notices' \in [Controls -> Nat]
      BY <1>1, <2>3, <3>1
    <3>6. Announced'
      <4>. SUFFICES ASSUME NEW c \in Controls, notices'[c] # 0
                    PROVE  /\ notices'[c] = 1 /\ c \in 1..Len(lifted) /\ lifted[c]
                           /\ c \in ch'.seen => c \in ch'.announced
        BY <1>2 DEF Announced
      <4>1. CASE c = o
        BY <1>1, <2>3, <3>1, <3>2, <3>3, <4>1
      <4>2. CASE c # o
        <5>1. notices'[c] = notices[c]
          BY <1>1, <2>3, <4>2
        <5>. QED
          BY <1>0, <3>3, <5>1 DEF Announced
      <4>. QED
        BY <4>1, <4>2
    <3>7. Round'
      BY <1>0, <1>1, <1>2, <2>1, <3>3 DEF Round
    <3>. QED
      BY <1>1, <1>2, <2>1, <2>3, <3>3, <3>4, <3>5, <3>6, <3>7, ChannelAlone
  <2>. QED
    BY <1>12, <2>2, <2>3 DEF Announce
<1>. QED
  BY <1>5, <1>6, <1>7, <1>8, <1>9, <1>10, <1>11, <1>12

-----------------------------------------------------------------------------
(* Steps that report, clear or write an acknowledgement *)

LEMMA ReportKeeps == ASSUME Inv, Report \/ ReportFails PROVE Inv'
<1> DEFINE line == Head(ch.todo)
           c == line.control
           u == line.call
<1>0. CollectorInv /\ ControlTypeOK /\ Named /\ Truthful /\ Round /\ Announced /\ Kept
  BY DEF Inv, ControlInv
<1>1. /\ ch \in ChannelStates /\ ch.offset \in Nat /\ Len(lifted) \in Nat
      /\ Len(ackFile) \in Nat /\ ackFile \in Seq(AckLines) /\ ch.todo \in Seq(AckLines)
      /\ ch.next \in Nat
  BY ChannelTypes DEF ChannelStates
<1>2. /\ ch.pc = "report" /\ ch.todo # <<>>
      /\ UNCHANGED <<transcript, chunks, saved, coll, lifted, flag, ackFile, call, session, notices>>
      /\ evidence' = Recorded(c, "ack", u) \/ evidence' = evidence
  BY DEF Report, ReportFails
<1>3. /\ Len(ch.todo) \in Nat \ {0} /\ line \in AckLines /\ line = ch.todo[1]
      /\ Tail(ch.todo) \in Seq(AckLines) /\ Len(Tail(ch.todo)) = Len(ch.todo) - 1
      /\ \A i \in 1..Len(Tail(ch.todo)) : Tail(ch.todo)[i] = ch.todo[i + 1]
  BY <1>1, <1>2
<1>4. /\ ch.next <= Len(ackFile) /\ ch.offset + Len(ch.todo) = ch.next
      /\ \A i \in 1..Len(ch.todo) : ch.todo[i] = ackFile[ch.offset + i]
  BY <1>0, <1>2 DEF Round
<1>5. ch.offset + 1 \in 1..Len(ackFile) /\ line = ackFile[ch.offset + 1]
  BY <1>1, <1>3, <1>4
<1>6. c \in Controls /\ u \in Calls /\ Acked(u, c)
  <2>1. c \in Controls /\ u \in Calls
    BY <1>3 DEF AckLines
  <2>. HIDE DEF line
  <2>. QED
    BY <1>0, <1>5, <2>1 DEF Truthful
<1>7. faults' \in 0..MaxFaults
  BY <1>0, FaultCounted DEF Report, ReportFails
<1>. HIDE DEF c, u
<1>8. CollectorInv'
  BY <1>0, <1>2, <1>6, <1>7, EvidenceGrows
<1>9. /\ \A d \in Controls : evidence[d] \subseteq evidence'[d]
      /\ \A d \in Controls : \A e \in evidence'[d] :
             e \in evidence[d] \/ (d = c /\ e = [kind |-> "ack", call |-> u])
  BY <1>0, <1>2, <1>6, Recording DEF Grows
<1>10. ch' \in ChannelStates /\ ch'.pc = "report" /\ ch'.active = ch.active /\ ch'.over = ch.over
       /\ ch'.seen = ch.seen /\ ch'.announced = ch.announced
  <2>1. CASE ch' = [ch EXCEPT !.todo = Tail(@), !.offset = @ + 1]
    <3>1. ch.offset + 1 \in Nat /\ Tail(ch.todo) \in Seq(AckLines)
      BY <1>1, <1>3
    <3>. QED
      BY <1>1, <1>2, <2>1, <3>1 DEF ChannelStates
  <2>2. CASE ch' = [ch EXCEPT !.todo = <<>>, !.next = ch.offset, !.offset = ch.offset]
    <3>1. <<>> \in Seq(AckLines)
      OBVIOUS
    <3>. QED
      BY <1>1, <1>2, <2>2, <3>1 DEF ChannelStates
  <2>. QED
    BY <2>1, <2>2 DEF Report, ReportFails, Reported
<1>11. \/ /\ ch'.offset = ch.offset + 1 /\ ch'.todo = Tail(ch.todo) /\ ch'.next = ch.next
          /\ evidence' = Recorded(c, "ack", u)
       \/ ch'.offset = ch.offset /\ ch'.todo = <<>> /\ ch'.next = ch.offset
  BY <1>1 DEF Report, ReportFails, Reported, ChannelStates, c, u
<1>12. ControlTypeOK'
  BY <1>0, <1>2, <1>10 DEF ControlTypeOK
<1>13. Named'
  BY <1>0, <1>2 DEF Named
<1>14. Announced'
  BY <1>0, <1>2, <1>10 DEF Announced
<1>15. Round'
  <2>1. /\ ch'.offset <= Len(ackFile) /\ ch'.next <= Len(ackFile)
        /\ ch'.offset + Len(ch'.todo) = ch'.next
        /\ \A i \in 1..Len(ch'.todo) : ch'.todo[i] = ackFile[ch'.offset + i]
    <3>1. CASE ch'.offset = ch.offset + 1 /\ ch'.todo = Tail(ch.todo) /\ ch'.next = ch.next
      <4>1. Len(ch.todo) \in Nat /\ ch.offset \in Nat /\ Len(Tail(ch.todo)) = Len(ch.todo) - 1
        BY <1>1, <1>3
      <4>2. \A i \in 1..Len(Tail(ch.todo)) : Tail(ch.todo)[i] = ackFile[ch.offset + 1 + i]
        <5>. SUFFICES ASSUME NEW i \in 1..Len(Tail(ch.todo))
                      PROVE  Tail(ch.todo)[i] = ackFile[ch.offset + 1 + i]
          OBVIOUS
        <5>1. i + 1 \in 1..Len(ch.todo) /\ ch.offset + (i + 1) = ch.offset + 1 + i
          BY <4>1
        <5>2. Tail(ch.todo)[i] = ch.todo[i + 1]
          BY <1>3
        <5>3. ch.todo[i + 1] = ackFile[ch.offset + (i + 1)]
          BY <1>4, <5>1
        <5>. QED
          BY <5>1, <5>2, <5>3
      <4>3. ch.offset + 1 <= Len(ackFile) /\ ch.offset + 1 + Len(Tail(ch.todo)) = ch.next
        BY <1>1, <1>4, <1>5, <4>1
      <4>. QED
        BY <1>4, <3>1, <4>2, <4>3
    <3>2. CASE ch'.offset = ch.offset /\ ch'.todo = <<>> /\ ch'.next = ch.offset
      BY <1>1, <1>3, <1>4, <3>2
    <3>. QED
      BY <1>11, <3>1, <3>2
  <2>2. ch.active = 0 => NoneNamed
    BY <1>0, <1>2 DEF Round
  <2>. QED
    BY <1>0, <1>2, <1>10, <2>1, <2>2 DEF Round, NoneNamed
<1>16. Truthful'
  <2>1. \A d \in Controls : \A e \in evidence'[d] : e \in evidence[d] \/
             /\ e.kind = "ack" => call'[e.call].acked /\ call'[e.call].control = d
             /\ e.kind = "proof" => call'[e.call].pc = "stopped" /\ call'[e.call].control = d
    BY <1>2, <1>6, <1>9 DEF Acked
  <2>. QED
    BY <1>0, <1>2, <2>1, StillTruthful
<1>17. Kept'
  <2>. SUFFICES ASSUME NEW v \in Calls, call[v].acked PROVE Keeps(v)'
    BY <1>2 DEF Kept
  <2> DEFINE d == call[v].control
  <2>1. d \in Controls /\ Keeps(v)
    <3>1. d \in 0..Len(lifted) /\ d # 0 /\ Len(lifted) <= MaxControls /\ Keeps(v)
      BY <1>0 DEF Named, ControlTypeOK, Kept
    <3>. QED
      BY <1>1, <3>1, CollectorAssumption DEF Controls
  <2>. HIDE DEF d
  <2>2. CASE lifted[d]
    BY <1>2, <2>2 DEF Keeps, d
  <2>3. CASE [kind |-> "ack", call |-> v] \in evidence[d]
    BY <1>2, <1>9, <2>1, <2>3 DEF Keeps, d
  <2>4. CASE Full(d)
    <3>1. Cardinality(evidence'[d]) >= EventLimit
      BY <1>0, <1>8, <1>9, <2>1, <2>4, FullLasts DEF Full
    <3>. QED
      BY <1>2, <3>1 DEF Keeps, Full, d
  <2>5. ASSUME NEW i \in 1..Len(ackFile), i > ch.offset, ackFile[i].call = v, ackFile[i].control = d
        PROVE  Keeps(v)'
    <3>1. CASE i > ch'.offset
      BY <1>2, <2>5, <3>1 DEF Keeps, d
    <3>2. CASE ~(i > ch'.offset)
      <4>1. i = ch.offset + 1 /\ evidence' = Recorded(c, "ack", u)
        BY <1>1, <1>10, <1>11, <2>5, <3>2 DEF ChannelStates
      <4>2. c = d /\ u = v
        BY <1>5, <2>5, <4>1 DEF c, u
      <4>3. [kind |-> "ack", call |-> u] \in evidence'[c] \/ Cardinality(evidence'[c]) >= EventLimit
        BY <1>0, <1>6, <4>1, Recording
      <4>. QED
        BY <1>2, <4>2, <4>3 DEF Keeps, Full, d
    <3>. QED
      BY <3>1, <3>2
  <2>. QED
    BY <2>1, <2>2, <2>3, <2>4, <2>5 DEF Keeps, d
<1>. QED
  BY <1>8, <1>12, <1>13, <1>14, <1>15, <1>16, <1>17 DEF Inv, ControlInv

LEMMA ClearKeeps == ASSUME Inv, Clear PROVE Inv'
<1>0. CollectorInv /\ ControlTypeOK /\ Named /\ Truthful /\ Round /\ Announced /\ Kept
  BY DEF Inv, ControlInv
<1>1. ch \in ChannelStates
  BY ChannelTypes
<1>2. /\ UNCHANGED <<collectorVars, lifted, flag, call, session, notices>> /\ ackFile' = <<>>
      /\ ch.pc = "clear" /\ ch' = [ch EXCEPT !.pc = "announce", !.offset = 0]
  BY DEF Clear
<1>3. /\ ch' \in ChannelStates /\ ch'.pc = "announce" /\ ch'.active = ch.active /\ ch'.over = ch.over
      /\ ch'.seen = ch.seen /\ ch'.announced = ch.announced /\ ch'.offset = 0
  BY <1>1, <1>2 DEF ChannelStates
<1>4. CollectorInv'
  BY <1>0, <1>2, SameCollector
<1>5. ControlTypeOK'
  BY <1>0, <1>2, <1>3 DEF ControlTypeOK
<1>6. Named' /\ Announced'
  BY <1>0, <1>2, <1>3 DEF Named, Announced
<1>7. Truthful'
  BY <1>0, <1>2 DEF Truthful, Acked, StoppedAt, collectorVars
<1>8. Round'
  BY <1>0, <1>2, <1>3 DEF Round
<1>9. Kept'
  <2>1. NoneNamed
    BY <1>0, <1>2 DEF Round
  <2>. QED
    BY <1>0, <1>2, <2>1 DEF Kept, Keeps, NoneNamed, Named
<1>. QED
  BY <1>4, <1>5, <1>6, <1>7, <1>8, <1>9 DEF Inv, ControlInv

\* A step of the call u that leaves the file of acknowledgements alone.
LEMMA CallAlone ==
    ASSUME Inv, NEW u \in Calls,
           UNCHANGED <<chunks, evidence, saved, coll, lifted, flag, ackFile, ch, notices>>,
           faults' \in 0..MaxFaults, session' \in {"working", "stopped"},
           NEW s \in CallStates, call' = [call EXCEPT ![u] = s],
           call[u].pc # "stopped", s.acked = call[u].acked,
           s.control = call[u].control \/ (~s.acked /\ s.control = flag),
           s.pc \in {"new", "gate"} => s.control = 0,
           s.pc \in {"new", "gate", "ack"} => ~s.acked,
           s.pc \in {"ack", "answer", "stopped"} => s.control # 0,
           \/ transcript' = transcript
           \/ /\ s.pc = "stopped"
              /\ transcript' = Append(transcript,
                                      [kind |-> "proof", control |-> s.control, call |-> u])
    PROVE  Inv'
<1>0. /\ CollectorInv /\ ControlTypeOK /\ Named /\ Truthful /\ Round /\ Announced /\ Kept
      /\ transcript \in Seq(Lines) /\ call \in [Calls -> CallStates]
      /\ Len(lifted) \in Nat /\ flag \in 0..Len(lifted) /\ Len(lifted) <= MaxControls
  BY DEF Inv, ControlInv, CollectorInv, CollectorTypeOK, ControlTypeOK
<1>1. call'[u] = s /\ \A v \in Calls \ {u} : call'[v] = call[v]
  BY <1>0
<1>2. s.control \in 0..Len(lifted)
  BY <1>0 DEF Named
<1>3. CollectorInv'
  <2>1. CASE transcript' = transcript
    BY <1>0, <2>1, OnlyFaults
  <2>2. CASE transcript' # transcript
    <3>1. s.control \in Controls
      BY <1>0, <1>2, <2>2, CollectorAssumption DEF Controls
    <3>2. [kind |-> "proof", control |-> s.control, call |-> u] \in Lines
      BY <3>1 DEF Lines
    <3>. QED
      BY <1>0, <2>2, <3>2, TranscriptGrows
  <2>. QED
    BY <2>1, <2>2
<1>4. ControlTypeOK'
  BY <1>0 DEF ControlTypeOK
<1>5. Named'
  BY <1>0, <1>1, <1>2 DEF Named
<1>6. Announced'
  BY <1>0 DEF Announced
<1>7. Round'
  <2>1. NoneNamed => NoneNamed'
    BY <1>0, <1>1 DEF NoneNamed, Named
  <2>. QED
    BY <1>0, <2>1 DEF Round
<1>8. Kept'
  <2>1. \A v \in Calls : call'[v].acked => call[v].acked /\ call'[v].control = call[v].control
    BY <1>1
  <2>2. Len(ackFile) \in Nat /\ ch.offset \in Nat
    BY ChannelTypes
  <2>. QED
    BY <1>3, <2>1, <2>2, StillKept
<1>9. Truthful'
  <2>1. \A v \in Calls : call[v].acked => call'[v].acked /\ call'[v].control = call[v].control
    BY <1>1
  <2>2. \A v \in Calls : call[v].pc = "stopped" =>
            call'[v].pc = "stopped" /\ call'[v].control = call[v].control
    BY <1>1
  <2>3. \A j \in 1..Len(transcript') : transcript'[j].kind = "proof" =>
            \/ j \in 1..Len(transcript) /\ transcript'[j] = transcript[j]
            \/ /\ call'[transcript'[j].call].pc = "stopped"
               /\ call'[transcript'[j].call].control = transcript'[j].control
    <3>1. CASE transcript' = transcript
      BY <3>1
    <3>2. CASE /\ s.pc = "stopped"
               /\ transcript' = Append(transcript,
                                       [kind |-> "proof", control |-> s.control, call |-> u])
      BY <1>0, <1>1, <3>2
    <3>. QED
      BY <3>1, <3>2
  <2>. QED
    BY <1>0, <2>1, <2>2, <2>3, StillTruthful
<1>. QED
  BY <1>3, <1>4, <1>5, <1>6, <1>7, <1>8, <1>9 DEF Inv, ControlInv

LEMMA CallKeeps ==
    ASSUME Inv, NEW u \in Calls, Begin(u) \/ Gate(u) \/ Stop(u) \/ HookDies(u)
    PROVE  Inv'
<1>0. /\ call \in [Calls -> CallStates] /\ call[u] \in CallStates /\ CollectorInv /\ Named
      /\ session \in {"working", "stopped"} /\ flag \in 0..Len(lifted)
      /\ Len(lifted) \in Nat /\ Len(lifted) <= MaxControls /\ MaxControls \in Nat
  BY CollectorAssumption DEF Inv, ControlInv, ControlTypeOK
<1>1. CASE Begin(u)
  <2> DEFINE s == [call[u] EXCEPT !.pc = "gate"]
  <2>1. s \in CallStates /\ s.pc = "gate" /\ s.control = call[u].control /\ s.acked = call[u].acked
    BY <1>0 DEF CallStates
  <2>2. /\ call[u].pc = "new" /\ call' = [call EXCEPT ![u] = s]
        /\ UNCHANGED <<collectorVars, lifted, flag, ackFile, ch, session, notices>>
    BY <1>0, <1>1 DEF Begin
  <2>3. call[u].control = 0 /\ ~call[u].acked
    BY <1>0, <2>2 DEF Named
  <2>. HIDE DEF s
  <2>. QED
    BY <1>0, <2>1, <2>2, <2>3, CallAlone, FaultCounted DEF collectorVars
<1>2. CASE Gate(u)
  <2>1. /\ call[u].pc = "gate"
        /\ UNCHANGED <<collectorVars, lifted, flag, ackFile, ch, session, notices>>
    BY <1>2 DEF Gate
  <2>2. call[u].control = 0 /\ ~call[u].acked
    BY <1>0, <2>1 DEF Named
  <2>3. CASE flag = 0
    <3> DEFINE s == [call[u] EXCEPT !.pc = "ran"]
    <3>1. s \in CallStates /\ s.pc = "ran" /\ s.control = call[u].control /\ s.acked = call[u].acked
      BY <1>0 DEF CallStates
    <3>2. call' = [call EXCEPT ![u] = s]
      BY <1>0, <1>2, <2>3 DEF Gate
    <3>. HIDE DEF s
    <3>. QED
      BY <1>0, <2>1, <3>1, <3>2, CallAlone, FaultCounted DEF collectorVars
  <2>4. CASE flag # 0
    <3> DEFINE s == [call[u] EXCEPT !.pc = "ack", !.control = flag]
    <3>1. flag \in 0..MaxControls
      BY <1>0
    <3>2. s \in CallStates /\ s.pc = "ack" /\ s.control = flag /\ s.acked = call[u].acked
      BY <1>0, <3>1 DEF CallStates
    <3>3. call' = [call EXCEPT ![u] = s]
      BY <1>0, <1>2, <2>4 DEF Gate
    <3>. HIDE DEF s
    <3>. QED
      BY <1>0, <2>1, <2>2, <2>4, <3>2, <3>3, CallAlone, FaultCounted DEF collectorVars
  <2>. QED
    BY <2>3, <2>4
<1>3. CASE Stop(u)
  <2> DEFINE s == [call[u] EXCEPT !.pc = "stopped"]
  <2>1. /\ s \in CallStates /\ s.pc = "stopped" /\ s.control = call[u].control
        /\ s.acked = call[u].acked
    BY <1>0 DEF CallStates
  <2>2. /\ call[u].pc = "answer" /\ call' = [call EXCEPT ![u] = s] /\ session' = "stopped"
        /\ transcript' = Append(transcript, [kind |-> "proof", control |-> s.control, call |-> u])
        /\ UNCHANGED <<chunks, evidence, saved, coll, faults, lifted, flag, ackFile, ch, notices>>
    BY <1>0, <1>3, <2>1 DEF Stop
  <2>3. call[u].control # 0
    BY <1>0, <2>2 DEF Named
  <2>. HIDE DEF s
  <2>. QED
    BY <1>0, <2>1, <2>2, <2>3, CallAlone, FaultCounted
<1>4. CASE HookDies(u)
  <2> DEFINE s == [call[u] EXCEPT !.pc = "ran"]
  <2>1. s \in CallStates /\ s.pc = "ran" /\ s.control = call[u].control /\ s.acked = call[u].acked
    BY <1>0 DEF CallStates
  <2>2. /\ call[u].pc \in {"gate", "ack", "answer"} /\ call' = [call EXCEPT ![u] = s] /\ Fault
        /\ UNCHANGED <<transcript, chunks, evidence, saved, coll, lifted, flag, ackFile, ch, session,
                       notices>>
    BY <1>0, <1>4 DEF HookDies
  <2>. HIDE DEF s
  <2>. QED
    BY <1>0, <2>1, <2>2, CallAlone, FaultCounted
<1>. QED
  BY <1>1, <1>2, <1>3, <1>4

LEMMA AppendAckKeeps == ASSUME Inv, NEW u \in Calls, AppendAck(u) PROVE Inv'
<1> DEFINE c == call[u].control
           line == [control |-> c, call |-> u]
<1>0. /\ CollectorInv /\ ControlTypeOK /\ Named /\ Truthful /\ Round /\ Announced /\ Kept
      /\ call \in [Calls -> CallStates] /\ call[u] \in CallStates /\ ackFile \in Seq(AckLines)
      /\ Len(ackFile) \in Nat /\ ch.offset \in Nat /\ ch \in ChannelStates
      /\ session \in {"working", "stopped"}
      /\ Len(lifted) \in Nat /\ Len(lifted) <= MaxControls
  BY ChannelTypes DEF Inv, ControlInv, ControlTypeOK
<1>1. /\ call[u].pc = "ack"
      /\ UNCHANGED <<transcript, chunks, evidence, saved, coll, lifted, flag, ch, session, notices>>
  BY DEF AppendAck
<1>2. c \in 1..Len(lifted) /\ c \in Controls /\ ~call[u].acked
  <2>1. c \in 0..Len(lifted) /\ c # 0 /\ ~call[u].acked
    BY <1>0, <1>1 DEF Named
  <2>. QED
    BY <1>0, <2>1, CollectorAssumption DEF Controls
<1>3. CASE UNCHANGED ackFile
  <2> DEFINE s == [call[u] EXCEPT !.pc = "answer"]
  <2>1. s \in CallStates /\ s.pc = "answer" /\ s.control = c /\ s.acked = call[u].acked
    BY <1>0 DEF CallStates
  <2>2. call' = [call EXCEPT ![u] = s] /\ Fault
    BY <1>0, <1>3 DEF AppendAck
  <2>3. c # 0
    BY <1>0, <1>2
  <2>. HIDE DEF s, c
  <2>. QED
    BY <1>0, <1>1, <1>3, <2>1, <2>2, <2>3, CallAlone, FaultCounted DEF c
<1>4. CASE ackFile' # ackFile
  <2> DEFINE s == [call[u] EXCEPT !.pc = "answer", !.acked = TRUE]
  <2>1. s \in CallStates /\ s.pc = "answer" /\ s.control = c /\ s.acked
    BY <1>0 DEF CallStates
  <2>2. /\ call' = [call EXCEPT ![u] = s] /\ ackFile' = Append(ackFile, line) /\ faults' = faults
    BY <1>0, <1>4 DEF AppendAck
  <2>3. line \in AckLines
    BY <1>2 DEF AckLines
  <2>. HIDE DEF s
  <2>4. call'[u] = s /\ \A v \in Calls \ {u} : call'[v] = call[v]
    BY <1>0, <2>2
  <2>5. CollectorInv'
    BY <1>0, <1>1, <2>2, OnlyFaults, FaultCounted
  <2>6. /\ ackFile' \in Seq(AckLines) /\ Len(ackFile') = Len(ackFile) + 1
        /\ ackFile'[Len(ackFile) + 1] = line
        /\ \A i \in 1..Len(ackFile) : ackFile'[i] = ackFile[i]
    BY <1>0, <2>2, <2>3
  <2>7. ControlTypeOK'
    BY <1>0, <1>1, <2>1, <2>2, <2>6 DEF ControlTypeOK
  <2>. HIDE DEF c
  <2>8. c = call[u].control /\ line.control = c /\ line.call = u /\ c # 0
    BY <1>0, <1>2 DEF c
  <2>. HIDE DEF line
  <2>9. Named'
    BY <1>0, <1>1, <1>2, <2>1, <2>4, <2>8 DEF Named
  <2>10. Announced'
    BY <1>0, <1>1 DEF Announced
  <2>11. Round'
    <3>1. NoneNamed => NoneNamed'
      BY <1>1, <2>1, <2>4, <2>8 DEF NoneNamed
    <3>2. ch.offset <= Len(ackFile')
      BY <1>0, <2>6 DEF Round
    <3>3. ch.pc = "report" =>
              /\ ch.next <= Len(ackFile') /\ ch.offset + Len(ch.todo) = ch.next
              /\ \A i \in 1..Len(ch.todo) : ch.todo[i] = ackFile'[ch.offset + i]
      <4>. SUFFICES ASSUME ch.pc = "report"
                    PROVE  /\ ch.next <= Len(ackFile') /\ ch.offset + Len(ch.todo) = ch.next
                           /\ \A i \in 1..Len(ch.todo) : ch.todo[i] = ackFile'[ch.offset + i]
        OBVIOUS
      <4>1. /\ ch.next <= Len(ackFile) /\ ch.offset + Len(ch.todo) = ch.next
            /\ \A i \in 1..Len(ch.todo) : ch.todo[i] = ackFile[ch.offset + i]
            /\ ch.next \in Nat /\ Len(ch.todo) \in Nat
        BY <1>0 DEF Round, ChannelStates
      <4>2. \A i \in 1..Len(ch.todo) : ch.offset + i \in 1..Len(ackFile)
        BY <1>0, <4>1
      <4>3. \A i \in 1..Len(ch.todo) : ch.todo[i] = ackFile'[ch.offset + i]
        BY <2>6, <4>1, <4>2
      <4>4. ch.next <= Len(ackFile')
        BY <1>0, <2>6, <4>1
      <4>. QED
        BY <4>1, <4>3, <4>4
    <3>. QED
      BY <1>0, <1>1, <3>1, <3>2, <3>3 DEF Round
  <2>12. Truthful'
    <3>1. \A v \in Calls : call[v].acked => call'[v].acked /\ call'[v].control = call[v].control
      BY <1>2, <2>4
    <3>2. \A v \in Calls : call[v].pc = "stopped" =>
              call'[v].pc = "stopped" /\ call'[v].control = call[v].control
      BY <1>1, <2>4
    <3>3. \A i \in 1..Len(ackFile') :
              \/ i \in 1..Len(ackFile) /\ ackFile'[i] = ackFile[i]
              \/ /\ call'[ackFile'[i].call].acked
                 /\ call'[ackFile'[i].call].control = ackFile'[i].control
      BY <1>0, <2>1, <2>4, <2>6, <2>8
    <3>. QED
      BY <1>0, <1>1, <3>1, <3>2, <3>3, StillTruthful
  <2>13. Kept'
    <3>. SUFFICES ASSUME NEW v \in Calls, call'[v].acked PROVE Keeps(v)'
      BY DEF Kept
    <3>1. CASE v = u
      <4>1. Len(ackFile) + 1 \in 1..Len(ackFile') /\ Len(ackFile) + 1 > ch.offset
        BY <1>0, <2>6 DEF Round
      <4>2. call'[v].control = c
        BY <2>1, <2>4, <3>1
      <4>. QED
        BY <1>1, <2>6, <2>8, <3>1, <4>1, <4>2 DEF Keeps
    <3>2. CASE v # u
      <4>1. call'[v] = call[v] /\ Keeps(v)
        BY <1>0, <2>4, <3>2 DEF Kept
      <4>2. CASE \E i \in 1..Len(ackFile) :
                     i > ch.offset /\ ackFile[i].call = v /\ ackFile[i].control = call[v].control
        <5>1. PICK i \in 1..Len(ackFile) :
                     i > ch.offset /\ ackFile[i].call = v /\ ackFile[i].control = call[v].control
          BY <4>2
        <5>2. i \in 1..Len(ackFile') /\ ackFile'[i] = ackFile[i]
          BY <1>0, <2>6
        <5>. QED
          BY <1>1, <4>1, <5>1, <5>2 DEF Keeps
      <4>3. CASE \/ lifted[call[v].control]
                 \/ [kind |-> "ack", call |-> v] \in evidence[call[v].control]
                 \/ Full(call[v].control)
        BY <1>1, <4>1, <4>3 DEF Keeps, Full
      <4>. QED
        BY <4>1, <4>2, <4>3 DEF Keeps
    <3>. QED
      BY <3>1, <3>2
  <2>. QED
    BY <2>5, <2>7, <2>9, <2>10, <2>11, <2>12, <2>13 DEF Inv, ControlInv
<1>. QED
  BY <1>3, <1>4

\* Steps of the collectors and of the harness.
LEMMA OthersKeep == ASSUME Inv, CollectorNext \/ (Chatter /\ UNCHANGED controlVars) PROVE Inv'
<1>0. /\ CollectorInv /\ ControlTypeOK /\ Named /\ Truthful /\ Round /\ Announced /\ Kept
      /\ transcript \in Seq(Lines) /\ Len(ackFile) \in Nat /\ ch.offset \in Nat
  BY ChannelTypes DEF Inv, ControlInv, CollectorInv, CollectorTypeOK
<1>1. UNCHANGED <<lifted, flag, ackFile, ch, call, session, notices>>
  BY DEF CollectorNext, controlVars
<1>2. /\ CollectorInv'
      /\ \A c \in Controls : evidence[c] \subseteq evidence'[c]
      /\ Truthful'
  <2>1. CASE CollectorNext
    <3>1. PICK p \in Collectors : CollectorStep(p) \/ SaveAgain(p) \/ CollectorFault(p)
      BY <2>1 DEF CollectorNext
    <3>2. CollectorInv'
      BY <1>0, <3>1, CollectorStepKeeps, SaveAgainKeeps, CollectorFaultKeeps
    <3>3. /\ transcript' = transcript
          /\ \A c \in Controls : evidence[c] \subseteq evidence'[c]
          /\ \A c \in Controls : \A e \in evidence'[c] : e \in evidence[c] \/
                 \E j \in 1..Len(transcript) :
                     /\ transcript[j].kind = "proof" /\ transcript[j].control = c
                     /\ e = [kind |-> "proof", call |-> transcript[j].call]
      BY <1>0, <3>1, CollectorLearns
    <3>4. \A c \in Controls : \A e \in evidence'[c] : e \in evidence[c] \/
             /\ e.kind = "ack" => call'[e.call].acked /\ call'[e.call].control = c
             /\ e.kind = "proof" => call'[e.call].pc = "stopped" /\ call'[e.call].control = c
      BY <1>0, <1>1, <3>3 DEF Truthful, StoppedAt
    <3>5. Truthful'
      BY <1>0, <1>1, <3>3, <3>4, StillTruthful
    <3>. QED
      BY <3>2, <3>3, <3>5
  <2>2. CASE Chatter
    <3>1. PICK kind \in {"text", "blank"} : transcript' = Append(transcript, [kind |-> kind])
      BY <2>2 DEF Chatter
    <3>2. UNCHANGED <<chunks, evidence, saved, coll, faults>>
      BY <2>2 DEF Chatter
    <3>3. [kind |-> kind] \in Lines /\ [kind |-> kind].kind = kind
      BY DEF Lines
    <3>4. CollectorInv'
      BY <1>0, <3>1, <3>2, <3>3, TranscriptGrows, FaultCounted
    <3>5. \A j \in 1..Len(transcript') : transcript'[j].kind = "proof" =>
              j \in 1..Len(transcript) /\ transcript'[j] = transcript[j]
      BY <1>0, <3>1, <3>3
    <3>6. Truthful'
      BY <1>0, <1>1, <3>2, <3>5, StillTruthful
    <3>. QED
      BY <3>2, <3>4, <3>6
  <2>. QED
    BY <2>1, <2>2
<1>3. ControlTypeOK' /\ Named' /\ Round' /\ Announced'
  BY <1>0, <1>1 DEF ControlTypeOK, Named, Round, Announced, NoneNamed
<1>4. Kept'
  BY <1>0, <1>1, <1>2, StillKept
<1>. QED
  BY <1>2, <1>3, <1>4 DEF Inv, ControlInv

-----------------------------------------------------------------------------
(* The theorems *)

LEMMA InvStep == Inv /\ [Next]_vars => Inv'
<1>. SUFFICES ASSUME Inv, [Next]_vars PROVE Inv'
  OBVIOUS
<1>1. CASE Request \/ Resume \/ Prompt
  BY <1>1, PersonKeeps
<1>2. CASE ChannelStep \/ ReportFails \/ CloseChannel \/ CrashChannel
  BY <1>2, ChannelKeeps, ReportKeeps, ClearKeeps DEF ChannelStep
<1>3. ASSUME NEW u \in Calls, Begin(u) \/ CallStep(u) \/ HookDies(u) PROVE Inv'
  BY <1>3, CallKeeps, AppendAckKeeps DEF CallStep
<1>4. CASE CollectorNext \/ (Chatter /\ UNCHANGED controlVars)
  BY <1>4, OthersKeep
<1>5. CASE UNCHANGED vars
  <2>1. CollectorInv'
    BY <1>5, SameCollector DEF Inv, vars
  <2>2. ControlInv'
    BY <1>5 DEF Inv, ControlInv, ControlTypeOK, Named, Truthful, Round, Announced, Kept, Keeps, Full,
                NoneNamed, Acked, StoppedAt, vars, collectorVars, controlVars
  <2>. QED
    BY <2>1, <2>2 DEF Inv
<1>. QED
  BY <1>1, <1>2, <1>3, <1>4, <1>5 DEF Next

LEMMA InvAlways == Spec => []Inv
<1>1. QED
  BY InvInit, InvStep, PTL DEF Spec

\* The variables keep their types.
THEOREM AgentControlTypes == Spec => []TypeOK
<1>1. QED
  BY InvAlways, InvTypes, PTL

\* The archive is the transcript, and no position passes a line that was not
\* stored (SyncFile, appendChunkBatches), for any number of collectors.
THEOREM TranscriptIsKept == Spec => []TranscriptKept
<1>1. Inv => TranscriptKept
  BY CollectorInvGives DEF Inv
<1>. QED
  BY <1>1, InvAlways, PTL

\* No position passes a proof that the server was not given.
THEOREM ProofsAreGiven == Spec => []ProofsGiven
<1>1. Inv => ProofsGiven
  BY CollectorInvGives DEF Inv
<1>. QED
  BY <1>1, InvAlways, PTL

\* What deriveState shows as effective did stop the session.
THEOREM EffectiveIsStopped == Spec => []EffectiveMeansStopped
<1>1. ASSUME Inv PROVE EffectiveMeansStopped
  <2>. SUFFICES ASSUME NEW c \in Controls, Effective(c)
                PROVE  \E u \in Calls : call[u] = [pc |-> "stopped", control |-> c, acked |-> TRUE]
    BY DEF EffectiveMeansStopped
  <2>1. PICK u \in Calls : /\ [kind |-> "ack", call |-> u] \in evidence[c]
                           /\ [kind |-> "proof", call |-> u] \in evidence[c]
    BY DEF Effective
  <2>2. Acked(u, c) /\ StoppedAt(u, c)
    BY <1>1, <2>1 DEF Inv, ControlInv, Truthful
  <2>3. call[u] \in CallStates
    BY <1>1 DEF Inv, ControlInv, ControlTypeOK
  <2>4. call[u] = [pc |-> "stopped", control |-> c, acked |-> TRUE]
    BY <2>2, <2>3 DEF CallStates, Acked, StoppedAt
  <2>. QED
    BY <2>4
<1>. QED
  BY <1>1, InvAlways, PTL

\* The channel loses no acknowledgement of a control that is active.
THEOREM AcksAreKept == Spec => []AcksKept
<1>1. QED
  BY InvAlways, InvKeepsAcks, PTL

\* No control is announced twice.
THEOREM OneNotice == Spec => []NoticeOnce
<1>1. Inv => NoticeOnce
  BY DEF Inv, ControlInv, Announced, NoticeOnce
<1>. QED
  BY <1>1, InvAlways, PTL

=============================================================================
