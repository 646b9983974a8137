------------------------ MODULE RuntimeWriterProofs ------------------------
(***************************************************************************)
(* Proofs about the runtime writer, for any callers, limits and keys.      *)
(* The inductive invariant Inv says where a call can be (once in the queue *)
(* or the group, or with its caller), what the worker knows of the group   *)
(* at each phase, and how that relates to what was committed and told.     *)
(***************************************************************************)
EXTENDS RuntimeWriter, SequenceTheorems, TLAPS

\* A call is in one place.
OnePlace ==
    /\ \A i, j \in 1..Len(queue) : queue[i] = queue[j] => i = j
    /\ \A i, j \in 1..Len(group) : group[i] = group[j] => i = j
    /\ \A i \in 1..Len(queue), j \in 1..Len(group) : queue[i] # group[j]
    /\ \A c \in Callers : outcome[c] # "none" => ~InLine(c)

\* The worker holds a group exactly in these phases.
Holds == phase \in {"write", "single", "complete", "answer"}

\* What the worker knows of the group: nothing before the transaction; in a
\* fallback nothing of the calls behind the head; after a commit of the whole
\* group the same "ok" for all of them.
Progress ==
    /\ Holds <=> group # <<>>
    /\ phase \in {"write", "single"} =>
            \A i \in 1..Len(group) : verdict[group[i]] = "none"
    /\ phase \in {"complete", "answer"} =>
            /\ verdict[group[1]] # "none"
            /\ \/ \A i \in 2..Len(group) : verdict[group[i]] = "none"
               \/ \A i \in 2..Len(group) : verdict[group[i]] = "ok"
    /\ \A c \in Callers : ~InGroup(c) => verdict[c] = "none"

\* The database and the answer agree.
Agree ==
    \A c \in Callers :
        commits[c] = IF verdict[c] = "ok" \/ outcome[c] = "ok" THEN 1 ELSE 0

\* A best-effort batch is before the database only in its phase, and only one.
OneBatch ==
    /\ \A kind \in Kinds : active[kind] => phase = "bestEffort"
    /\ \A kind, other \in Kinds : active[kind] /\ active[other] => kind = other

Inv == TypeOK /\ OnePlace /\ Progress /\ Agree /\ GroupsAreChunks

LEMMA HeadTail ==
    ASSUME NEW S, NEW s \in Seq(S), s # <<>>
    PROVE  /\ Len(s) \in Nat \ {0}
           /\ Head(s) = s[1] /\ Head(s) \in S
           /\ Tail(s) \in Seq(S) /\ Len(Tail(s)) = Len(s) - 1
           /\ \A i \in 1..Len(Tail(s)) : Tail(s)[i] = s[i + 1]
    OBVIOUS

-----------------------------------------------------------------------------
(* Type correctness.                                                       *)

LEMMA TypeInit == Init => TypeOK
<1> SUFFICES ASSUME Init PROVE TypeOK OBVIOUS
<1>1. Empty \in [Keys -> 0..MaxCount] /\ Empty \in [Keys -> Int]
  BY WriterAssumption DEF Empty
<1>2. queue \in Seq(Callers) /\ group \in Seq(Callers)
  BY DEF Init
<1>3. touched \in SUBSET Keys /\ fresh \in SUBSET touched
  BY DEF Init
<1>4. /\ pending \in [Kinds -> [Keys -> 0..MaxCount]]
      /\ owed \in [Kinds -> [Keys -> Int]]
      /\ taken \in [Keys -> Int]
  BY <1>1 DEF Init
<1>5. active \in [Kinds -> BOOLEAN] /\ chunk \in [Callers -> BOOLEAN]
  BY Zenon DEF Init
<1>6. /\ size \in [Callers -> Nat] /\ commits \in [Callers -> Nat]
      /\ operations \in Int /\ bytes \in Int
  BY DEF Init
<1>7. /\ verdict \in [Callers -> {"none", "ok", "err"}]
      /\ outcome \in [Callers -> {"none", "ok", "err"} \union Refusals]
      /\ phase \in Phases /\ closed \in BOOLEAN
  BY DEF Init, Phases
<1> QED BY <1>2, <1>3, <1>4, <1>5, <1>6, <1>7 DEF TypeOK

LEMMA TypePlus ==
    ASSUME NEW hits \in [Keys -> Int], NEW accepted \in SUBSET Keys
    PROVE  Plus(hits, accepted) \in [Keys -> Int]
BY DEF Plus

\* A batch that takes hits over stays within MaxCount.
LEMMA TypeQueue ==
    ASSUME TypeOK, NEW kind \in Kinds, NEW accepted \in SUBSET Keys,
           \A k \in accepted : pending[kind][k] < MaxCount,
           Queue(kind, accepted)
    PROVE  /\ pending' \in [Kinds -> [Keys -> 0..MaxCount]]
           /\ owed' \in [Kinds -> [Keys -> Int]]
           /\ phase' \in Phases
<1>1. Plus(pending[kind], accepted) \in [Keys -> 0..MaxCount]
  BY WriterAssumption DEF TypeOK, Plus
<1>2. Plus(owed[kind], accepted) \in [Keys -> Int]
  BY TypePlus DEF TypeOK
<1> QED BY <1>1, <1>2 DEF TypeOK, Queue, Woken, Phases

LEMMA TypeCalls == TypeOK /\ Calls => TypeOK'
<1> USE WriterAssumption
<1> SUFFICES ASSUME TypeOK, Calls PROVE TypeOK' OBVIOUS
<1>1. ASSUME NEW c \in Callers, NEW n \in Sizes, NEW isChunk \in BOOLEAN,
             Admit(c, n, isChunk)
      PROVE  TypeOK'
  <2>1. n \in Nat BY WriterAssumption
  <2>2. /\ queue' \in Seq(Callers)
        /\ size' \in [Callers -> Nat] /\ chunk' \in [Callers -> BOOLEAN]
        /\ operations' \in Int /\ bytes' \in Int
        /\ phase' \in Phases
    BY <1>1, <2>1 DEF Admit, TypeOK, Woken, Phases
  <2> QED BY <1>1, <2>2 DEF Admit, TypeOK, bestVars
<1>2. ASSUME NEW c \in Callers, NEW n \in Sizes, NEW cancelled \in BOOLEAN,
             Reject(c, n, cancelled)
      PROVE  TypeOK'
  <2>1. Refusal(n, cancelled) \in Refusals
    BY <1>2 DEF Reject, Refusal, Refusals
  <2> QED BY <1>2, <2>1 DEF Reject, TypeOK, bestVars, loadVars
<1>3. ASSUME NEW c \in Callers, Return(c) PROVE TypeOK'
  BY <1>3 DEF Return, TypeOK, bestVars, loadVars
<1> QED BY <1>1, <1>2, <1>3 DEF Calls

LEMMA TypeWrite == TypeOK /\ Progress /\ Write => TypeOK'
<1> SUFFICES ASSUME TypeOK, Progress, Write PROVE TypeOK' OBVIOUS
<1> USE DEF callVars, loadVars, bestVars, Phases
<1>0. group # <<>> => /\ Head(group) \in Callers
                      /\ Tail(group) \in Seq(Callers)
  BY HeadTail DEF TypeOK
<1>1. CASE Pop
  <2> PICK n \in 1..Len(queue) : /\ group' = SubSeq(queue, 1, n)
                                 /\ queue' = SubSeq(queue, n + 1, Len(queue))
    BY <1>1 DEF Pop
  <2>1. group' \in Seq(Callers) /\ queue' \in Seq(Callers)
    <3>1. Len(queue) \in Nat /\ \A i \in 1..Len(queue) : queue[i] \in Callers
      BY DEF TypeOK
    <3>2. SubSeq(queue, 1, n) \in Seq(Callers)
      BY <3>1, SubSeqProperties
    <3>3. SubSeq(queue, n + 1, Len(queue)) \in Seq(Callers)
      BY <3>1, SubSeqProperties
    <3> QED BY <3>2, <3>3
  <2> QED BY <1>1, <2>1 DEF Pop, TypeOK
<1>2. CASE CommitGroup
  BY <1>2 DEF CommitGroup, TypeOK
<1>3. CASE FailGroup
  <2>1. Head(group) \in Callers BY <1>0, <1>3 DEF FailGroup, Progress, Holds
  <2>2. /\ verdict' \in [Callers -> {"none", "ok", "err"}]
        /\ phase' \in {"single", "complete"}
    BY <1>3, <2>1 DEF FailGroup, TypeOK
  <2> QED BY <1>3, <2>2 DEF FailGroup, TypeOK
<1>4. CASE CommitSingle
  BY <1>0, <1>4 DEF CommitSingle, TypeOK, Progress, Holds
<1>5. CASE FailSingle
  BY <1>0, <1>5 DEF FailSingle, TypeOK, Progress, Holds
<1>6. CASE Complete
  <2>1. Head(group) \in Callers BY <1>0, <1>6 DEF Complete, Progress, Holds
  <2>2. operations' \in Int /\ bytes' \in Int /\ phase' \in Phases
    BY <1>6, <2>1 DEF Complete, TypeOK
  <2> QED BY <1>6, <2>2 DEF Complete, TypeOK
<1>7. CASE Answer
  BY <1>0, <1>7 DEF Answer, TypeOK, Progress, Holds
<1> QED BY <1>1, <1>2, <1>3, <1>4, <1>5, <1>6, <1>7 DEF Write

LEMMA TypeRest == TypeOK /\ (Close \/ Wait \/ StartBestEffort \/ FinishBestEffort \/ Stop)
                    => TypeOK'
<1> SUFFICES ASSUME TypeOK,
                    Close \/ Wait \/ StartBestEffort \/ FinishBestEffort \/ Stop
             PROVE  TypeOK'
  OBVIOUS
<1> USE DEF callVars, loadVars, bestVars, Phases
<1>1. CASE Close BY <1>1 DEF Close, TypeOK, Woken
<1>2. CASE Wait BY <1>2 DEF Wait, TypeOK
<1>3. CASE Stop BY <1>3 DEF Stop, TypeOK
<1>4. CASE StartBestEffort
  <2> PICK kind \in Kinds : /\ active' = [active EXCEPT ![kind] = TRUE]
                            /\ taken' = pending[kind]
    BY <1>4 DEF StartBestEffort
  <2>1. active' \in [Kinds -> BOOLEAN] /\ taken' \in [Keys -> Int]
    BY WriterAssumption DEF TypeOK
  <2> QED BY <1>4, <2>1 DEF StartBestEffort, TypeOK
<1>5. CASE FinishBestEffort
  <2> PICK kind \in Kinds :
        /\ owed' = [owed EXCEPT ![kind] = [k \in Keys |-> @[k] - taken[k]]]
        /\ pending' = [pending EXCEPT ![kind] = Empty]
        /\ active' = [active EXCEPT ![kind] = FALSE]
    BY <1>5 DEF FinishBestEffort
  <2>1. Empty \in [Keys -> 0..MaxCount] /\ Empty \in [Keys -> Int]
    BY WriterAssumption DEF Empty
  <2>2. [k \in Keys |-> owed[kind][k] - taken[k]] \in [Keys -> Int]
    BY DEF TypeOK
  <2>3. /\ owed' \in [Kinds -> [Keys -> Int]]
        /\ pending' \in [Kinds -> [Keys -> 0..MaxCount]]
        /\ active' \in [Kinds -> BOOLEAN]
    BY <2>1, <2>2 DEF TypeOK
  <2> QED BY <1>5, <2>1, <2>3 DEF FinishBestEffort, TypeOK
<1> QED BY <1>1, <1>2, <1>3, <1>4, <1>5

LEMMA TypeCoalesce == TypeOK /\ Coalesce => TypeOK'
<1> SUFFICES ASSUME TypeOK, Coalesce PROVE TypeOK' OBVIOUS
<1> USE DEF callVars, loadVars, bestVars
<1>1. ASSUME NEW kind \in UsageKinds, NEW ks \in SUBSET Keys, CoalesceUsage(kind, ks)
      PROVE  TypeOK'
  <2>1. kind \in Kinds BY DEF UsageKinds
  <2>2. PICK accepted \in SUBSET Keys :
            /\ Queue(kind, accepted)
            /\ \A k \in accepted : pending[kind][k] < MaxCount
    <3>1. PICK some \in SUBSET (ks \ Held(kind)) :
              Queue(kind, {k \in ks \intersect Held(kind) : pending[kind][k] < MaxCount}
                            \union some)
      BY <1>1 DEF CoalesceUsage
    <3>2. \A k \in some : pending[kind][k] < MaxCount
      BY <2>1, WriterAssumption DEF Held, TypeOK
    <3> QED BY <3>1, <3>2
  <2>3. /\ pending' \in [Kinds -> [Keys -> 0..MaxCount]]
        /\ owed' \in [Kinds -> [Keys -> Int]]
        /\ phase' \in Phases
    BY <2>1, <2>2, TypeQueue
  <2> QED BY <1>1, <2>2, <2>3 DEF CoalesceUsage, Queue, TypeOK
<1>2. ASSUME NEW k \in Keys, Machine \in Kinds, CoalesceMachine(k)
      PROVE  TypeOK'
  <2>1. pending[Machine][k] < MaxCount
    BY <1>2, WriterAssumption DEF CoalesceMachine, Held, TypeOK
  <2>2. /\ pending' \in [Kinds -> [Keys -> 0..MaxCount]]
        /\ owed' \in [Kinds -> [Keys -> Int]]
        /\ phase' \in Phases
    BY <1>2, <2>1, TypeQueue DEF CoalesceMachine
  <2> QED BY <1>2, <2>2 DEF CoalesceMachine, Queue, TypeOK
<1>3. ASSUME NEW k \in Keys, Token \in Kinds, CoalesceToken(k)
      PROVE  TypeOK'
  <2>1. pending[Token][k] < MaxCount
    BY <1>3, WriterAssumption DEF CoalesceToken, Held, TypeOK
  <2>2. /\ pending' \in [Kinds -> [Keys -> 0..MaxCount]]
        /\ owed' \in [Kinds -> [Keys -> Int]]
        /\ phase' \in Phases
    BY <1>3, <2>1, TypeQueue DEF CoalesceToken
  <2>3. touched' \in SUBSET Keys /\ fresh' \in SUBSET touched'
    BY <1>3 DEF CoalesceToken, TypeOK
  <2> QED BY <1>3, <2>2, <2>3 DEF CoalesceToken, Queue, TypeOK
<1>4. ASSUME NEW k \in Keys, TokenAges(k) PROVE TypeOK'
  BY <1>4 DEF TokenAges, TypeOK
<1> QED BY <1>1, <1>2, <1>3, <1>4 DEF Coalesce

-----------------------------------------------------------------------------
(* The other conjuncts of Inv, action by action.                           *)

Rest == OnePlace /\ Progress /\ Agree /\ GroupsAreChunks

LEMMA InvInit == Init => Inv
<1> SUFFICES ASSUME Init PROVE Inv OBVIOUS
<1>1. TypeOK BY TypeInit
<1>2. OnePlace BY DEF Init, OnePlace
<1>3. Progress BY DEF Init, Progress, Holds, InGroup
<1>4. Agree BY DEF Init, Agree
<1>5. GroupsAreChunks BY WriterAssumption DEF Init, GroupsAreChunks
<1> QED BY <1>1, <1>2, <1>3, <1>4, <1>5 DEF Inv

LEMMA RestAdmit ==
    ASSUME Inv, NEW c \in Callers, NEW n \in Sizes, NEW isChunk \in BOOLEAN,
           Admit(c, n, isChunk)
    PROVE  Rest'
<1> USE DEF Inv, TypeOK, bestVars, loadVars, Admit
<1>1. /\ Len(queue') = Len(queue) + 1
      /\ \A i \in 1..Len(queue) : queue'[i] = queue[i]
      /\ queue'[Len(queue) + 1] = c
  OBVIOUS
<1>2. ~InLine(c) /\ outcome[c] = "none"
  BY DEF Free
<1>p. /\ OnePlace /\ Len(queue) \in Nat /\ Len(group) \in Nat
      /\ group' = group /\ outcome' = outcome
  OBVIOUS
<1>q. /\ \A i \in 1..Len(queue) : queue[i] # c
      /\ \A i \in 1..Len(group) : group[i] # c
  BY <1>2 DEF InLine
<1>3. OnePlace'
  <2> HIDE DEF Inv, TypeOK, bestVars, loadVars, Admit
  <2>0. \A i \in 1..Len(queue') : \/ i \in 1..Len(queue) /\ queue'[i] = queue[i]
                                  \/ i = Len(queue) + 1 /\ queue'[i] = c
    BY <1>1, <1>p
  <2>1. \A i, j \in 1..Len(queue') : queue'[i] = queue'[j] => i = j
    BY <1>p, <1>q, <2>0 DEF OnePlace
  <2>2. \A i \in 1..Len(queue'), j \in 1..Len(group') : queue'[i] # group'[j]
    BY <1>p, <1>q, <2>0 DEF OnePlace
  <2>3. \A d \in Callers : outcome'[d] # "none" => ~InLine(d)'
    <3> SUFFICES ASSUME NEW d \in Callers, outcome[d] # "none" PROVE ~InLine(d)'
      BY <1>p
    <3>1. d # c /\ ~InLine(d) BY <1>2, <1>p DEF OnePlace
    <3> QED BY <1>p, <2>0, <3>1 DEF InLine
  <2>4. \A i, j \in 1..Len(group') : group'[i] = group'[j] => i = j
    BY <1>p DEF OnePlace
  <2> QED BY <2>1, <2>2, <2>3, <2>4 DEF OnePlace
<1>4. Progress'
  BY DEF Progress, Holds, InGroup, Woken
<1>5. Agree'
  BY DEF Agree
<1>6. GroupsAreChunks'
  <2>1. \A i \in 1..Len(group) : group[i] # c /\ group[i] \in Callers
    BY <1>2 DEF InLine
  <2> QED BY <2>1 DEF GroupsAreChunks
<1> QED BY <1>3, <1>4, <1>5, <1>6 DEF Rest

LEMMA RestReject ==
    ASSUME Inv, NEW c \in Callers, NEW n \in Sizes, NEW cancelled \in BOOLEAN,
           Reject(c, n, cancelled)
    PROVE  Rest'
<1> USE DEF Inv, TypeOK, bestVars, loadVars, Reject
<1>1. ~InLine(c) /\ outcome[c] = "none"
  BY DEF Free
<1>2. OnePlace'
  <2>1. /\ OnePlace /\ queue' = queue /\ group' = group
        /\ \A d \in Callers : d # c => outcome'[d] = outcome[d]
    OBVIOUS
  <2> HIDE DEF Inv, TypeOK, bestVars, loadVars, Reject
  <2> QED BY <1>1, <2>1 DEF OnePlace, InLine
<1>3. Refusal(n, cancelled) # "ok"
  BY DEF Refusal
<1>4. Agree'
  BY <1>1, <1>3 DEF Agree
<1>5. Progress' /\ GroupsAreChunks'
  BY DEF Progress, Holds, InGroup, GroupsAreChunks
<1> QED BY <1>2, <1>4, <1>5 DEF Rest

LEMMA RestReturn ==
    ASSUME Inv, NEW c \in Callers, Return(c)
    PROVE  Rest'
<1> USE DEF Inv, TypeOK, bestVars, loadVars, Return
<1>1. ~InLine(c) BY DEF OnePlace
<1>2. verdict[c] = "none" BY <1>1 DEF Progress, InLine, InGroup
<1>3. OnePlace'
  <2>1. /\ OnePlace /\ queue' = queue /\ group' = group
        /\ \A d \in Callers : outcome'[d] # "none" => outcome[d] # "none"
    OBVIOUS
  <2> HIDE DEF Inv, TypeOK, bestVars, loadVars, Return
  <2> QED BY <2>1 DEF OnePlace, InLine
<1>4. Agree'
  BY <1>2 DEF Agree
<1>5. Progress' /\ GroupsAreChunks'
  BY DEF Progress, Holds, InGroup, GroupsAreChunks
<1> QED BY <1>3, <1>4, <1>5 DEF Rest

LEMMA RestPop ==
    ASSUME Inv, Pop
    PROVE  Rest'
<1> USE DEF Inv, TypeOK, bestVars, loadVars, callVars
<1>1. PICK n \in 1..Len(queue) :
            /\ IsGroup(n)
            /\ group' = SubSeq(queue, 1, n)
            /\ queue' = SubSeq(queue, n + 1, Len(queue))
  BY DEF Pop
<1>2. /\ Len(group') = n
      /\ \A i \in 1..n : group'[i] = queue[i]
      /\ Len(queue') = Len(queue) - n
      /\ \A i \in 1..Len(queue') : queue'[i] = queue[n + i]
  <2>1. Len(queue) \in Nat /\ \A i \in 1..Len(queue) : queue[i] \in Callers
    OBVIOUS
  <2>2. Len(group') = n /\ \A i \in 1..n : group'[i] = queue[i]
    BY <1>1, <2>1, SubSeqProperties
  <2>3. Len(queue') = Len(queue) - n
    BY <1>1, <2>1, SubSeqProperties
  <2>4. \A i \in 1..Len(queue') : queue'[i] = queue[n + i]
    BY <1>1, <2>1, <2>3, SubSeqProperties
  <2> QED BY <2>2, <2>3, <2>4
<1>3. group = <<>> /\ phase' = "write"
  BY DEF Pop, Progress, Holds
<1>4. UNCHANGED <<verdict, commits, outcome, chunk>>
  BY DEF Pop
<1>p. /\ OnePlace /\ Progress /\ Agree /\ Len(queue) \in Nat
      /\ \A i \in 1..Len(queue) : queue[i] \in Callers
  OBVIOUS
<1>q. /\ \A i \in 1..Len(group') : i \in 1..Len(queue) /\ group'[i] = queue[i]
      /\ \A i \in 1..Len(queue') : n + i \in 1..Len(queue) /\ queue'[i] = queue[n + i]
  BY <1>2, <1>p
<1> HIDE DEF Inv, TypeOK, bestVars, loadVars, callVars
<1>5. \A d \in Callers : InLine(d)' => InLine(d)
  BY <1>q DEF InLine
<1>6. OnePlace'
  <2>1. \A i, j \in 1..Len(queue') : queue'[i] = queue'[j] => i = j
    <3> SUFFICES ASSUME NEW i \in 1..Len(queue'), NEW j \in 1..Len(queue'),
                        queue'[i] = queue'[j]
                 PROVE  i = j
      OBVIOUS
    <3>1. /\ n + i \in 1..Len(queue) /\ n + j \in 1..Len(queue)
          /\ queue[n + i] = queue[n + j]
      BY <1>q
    <3>2. n + i = n + j
      BY <1>p, <3>1 DEF OnePlace
    <3>3. i \in Nat /\ j \in Nat /\ n \in Nat
      BY <1>2, <1>p
    <3> QED BY <3>2, <3>3
  <2>2. \A i, j \in 1..Len(group') : group'[i] = group'[j] => i = j
    BY <1>p, <1>q DEF OnePlace
  <2>3. \A i \in 1..Len(queue'), j \in 1..Len(group') : queue'[i] # group'[j]
    <3> SUFFICES ASSUME NEW i \in 1..Len(queue'), NEW j \in 1..Len(group')
                 PROVE  n + i # j
      BY <1>p, <1>q DEF OnePlace
    <3>1. j <= n /\ i \in Nat \ {0} /\ j \in Nat /\ n \in Nat BY <1>2, <1>p
    <3> QED BY <3>1
  <2> QED BY <1>p, <1>4, <1>5, <2>1, <2>2, <2>3 DEF OnePlace
<1>7. \A d \in Callers : verdict[d] = "none"
  BY <1>p, <1>3 DEF Progress, InGroup
<1>8. Progress'
  <2>1. group' # <<>> BY <1>2
  <2>2. \A i \in 1..Len(group') : group'[i] \in Callers BY <1>p, <1>q
  <2> QED BY <1>3, <1>4, <1>7, <2>1, <2>2 DEF Progress, Holds
<1>9. Agree' BY <1>p, <1>4 DEF Agree
<1>10. GroupsAreChunks'
  <2>1. n <= MaxBatch /\ (n > 1 => \A i \in 1..n : chunk[queue[i]])
    BY <1>1, <1>p, WriterAssumption DEF IsGroup
  <2> QED BY <1>2, <1>4, <2>1 DEF GroupsAreChunks
<1> QED BY <1>6, <1>8, <1>9, <1>10 DEF Rest

-----------------------------------------------------------------------------

\* Steps that neither move a call nor tell a caller anything.
LEMMA OnePlaceStays ==
    ASSUME OnePlace, UNCHANGED <<queue, group, outcome>>
    PROVE  OnePlace'
BY DEF OnePlace, InLine

LEMMA RestCommitGroup ==
    ASSUME Inv, CommitGroup
    PROVE  Rest'
<1> USE DEF Inv, TypeOK, loadVars, bestVars
<1>1. group # <<>> /\ \A i \in 1..Len(group) : verdict[group[i]] = "none"
  BY DEF CommitGroup, Progress, Holds
<1>2. \A d \in Callers : InGroup(d) => verdict[d] = "none" /\ outcome[d] = "none"
  BY <1>1 DEF InGroup, InLine, OnePlace
<1>3. OnePlace' BY OnePlaceStays DEF CommitGroup
<1>4. \A i \in 1..Len(group) : InGroup(group[i]) /\ group[i] \in Callers
  BY DEF InGroup
<1>5. Progress'
  <2>1. \A i \in 1..Len(group) : verdict'[group[i]] = "ok"
    BY <1>4 DEF CommitGroup
  <2>2. \A d \in Callers : ~InGroup(d) => verdict'[d] = "none"
    BY DEF CommitGroup, Progress
  <2>3. Len(group) \in Nat /\ Len(group) # 0 BY <1>1
  <2> QED BY <1>1, <2>1, <2>2, <2>3 DEF CommitGroup, Progress, Holds, InGroup
<1>6. Agree'
  <2> SUFFICES ASSUME NEW d \in Callers
               PROVE  commits'[d] = IF verdict'[d] = "ok" \/ outcome'[d] = "ok" THEN 1 ELSE 0
    BY DEF Agree
  <2>1. /\ verdict'[d] = IF InGroup(d) THEN "ok" ELSE verdict[d]
        /\ commits'[d] = IF InGroup(d) THEN commits[d] + 1 ELSE commits[d]
        /\ outcome' = outcome
    BY DEF CommitGroup
  <2>2. commits[d] = IF verdict[d] = "ok" \/ outcome[d] = "ok" THEN 1 ELSE 0
    BY DEF Agree
  <2> HIDE DEF Inv, TypeOK, loadVars, bestVars
  <2> QED BY <1>2, <2>1, <2>2
<1>7. GroupsAreChunks' BY DEF CommitGroup, GroupsAreChunks
<1> QED BY <1>3, <1>5, <1>6, <1>7 DEF Rest

LEMMA RestFailGroup ==
    ASSUME Inv, FailGroup
    PROVE  Rest'
<1> USE DEF Inv, TypeOK, loadVars, bestVars
<1>1. group # <<>> /\ \A i \in 1..Len(group) : verdict[group[i]] = "none"
  BY DEF FailGroup, Progress, Holds
<1>2. Head(group) = group[1] /\ group[1] \in Callers /\ Len(group) \in Nat \ {0}
  BY <1>1, HeadTail
<1>3. OnePlace' BY OnePlaceStays DEF FailGroup
<1>4. InGroup(group[1])
  BY <1>2 DEF InGroup
<1>p. /\ Agree /\ verdict \in [Callers -> {"none", "ok", "err"}]
      /\ verdict[group[1]] = "none"
      /\ verdict' \in {verdict, [verdict EXCEPT ![group[1]] = "err"]}
      /\ UNCHANGED <<commits, outcome>>
  BY <1>1, <1>2 DEF FailGroup
<1>5. Progress'
  <2>1. CASE Len(group) > 1
    <3>1. phase' = "single" /\ group' = group /\ verdict' = verdict
      BY <2>1 DEF FailGroup
    <3>2. \A d \in Callers : ~InGroup(d) => verdict[d] = "none" BY DEF Progress
    <3> HIDE DEF Inv, TypeOK, loadVars, bestVars
    <3> QED BY <1>1, <3>1, <3>2 DEF Progress, Holds, InGroup
  <2>2. CASE ~(Len(group) > 1)
    <3>1. Len(group) = 1
      <4>1. \A n \in Nat \ {0} : ~(n > 1) => n = 1 OBVIOUS
      <4> HIDE DEF Inv, TypeOK, loadVars, bestVars
      <4> QED BY <1>2, <2>2, <4>1
    <3>2. phase' = "complete" /\ verdict' = [verdict EXCEPT ![group[1]] = "err"]
      BY <1>2, <2>2 DEF FailGroup
    <3>3. \A d \in Callers : ~InGroup(d) => verdict'[d] = "none"
      BY <1>4, <3>2 DEF Progress
    <3>4. verdict'[group[1]] = "err" BY <1>2, <3>2
    <3> QED BY <1>1, <3>1, <3>2, <3>3, <3>4 DEF FailGroup, Progress, Holds, InGroup
  <2> QED BY <2>1, <2>2
<1>6. Agree'
  <2>1. \A d \in Callers : verdict'[d] = "ok" <=> verdict[d] = "ok"
    <3> HIDE DEF Inv, TypeOK, loadVars, bestVars
    <3> QED BY <1>2, <1>p
  <2> HIDE DEF Inv, TypeOK, loadVars, bestVars
  <2> QED BY <1>p, <2>1 DEF Agree
<1>7. GroupsAreChunks' BY DEF FailGroup, GroupsAreChunks
<1> QED BY <1>3, <1>5, <1>6, <1>7 DEF Rest

\* A single call of a falling back group: only the head's result changes.
LEMMA RestSingle ==
    ASSUME Inv, CommitSingle \/ FailSingle
    PROVE  Rest'
<1> USE DEF Inv, TypeOK, loadVars, bestVars, CommitSingle, FailSingle
<1>1. group # <<>> /\ \A i \in 1..Len(group) : verdict[group[i]] = "none"
  BY DEF Progress, Holds
<1>2. Head(group) = group[1] /\ group[1] \in Callers /\ Len(group) \in Nat \ {0}
  BY <1>1, HeadTail
<1>3. OnePlace' BY OnePlaceStays
<1>4. InGroup(group[1]) /\ InLine(group[1])
  BY <1>2 DEF InGroup, InLine
<1>5. outcome[group[1]] = "none"
  BY <1>2, <1>4 DEF OnePlace
<1>6. /\ phase' = "complete" /\ UNCHANGED group
      /\ verdict'[group[1]] # "none"
      /\ \A d \in Callers : d # group[1] => verdict'[d] = verdict[d]
  BY <1>2
<1>7. Progress'
  <2>1. \A i \in 2..Len(group) : verdict'[group[i]] = "none"
    BY <1>1, <1>2, <1>6 DEF OnePlace
  <2>2. \A d \in Callers : ~InGroup(d) => verdict'[d] = "none"
    BY <1>4, <1>6 DEF Progress
  <2> QED BY <1>1, <1>6, <2>1, <2>2 DEF Progress, Holds, InGroup
<1>8. Agree'
  BY <1>1, <1>2, <1>5 DEF Agree
<1>9. GroupsAreChunks' BY DEF GroupsAreChunks
<1> QED BY <1>3, <1>7, <1>8, <1>9 DEF Rest

LEMMA RestComplete ==
    ASSUME Inv, Complete
    PROVE  Rest'
<1> USE DEF Inv, TypeOK, callVars, bestVars, Complete
<1>1. OnePlace' BY OnePlaceStays
<1>2. Progress' BY DEF Progress, Holds, InGroup
<1>3. Agree' /\ GroupsAreChunks' BY DEF Agree, GroupsAreChunks
<1> QED BY <1>1, <1>2, <1>3 DEF Rest

LEMMA RestAnswer ==
    ASSUME Inv, Answer
    PROVE  Rest'
<1> USE DEF Inv, TypeOK, loadVars, bestVars
<1> DEFINE h == group[1]
<1>1. group # <<>> /\ verdict[h] # "none"
  BY DEF Answer, Progress, Holds
<1>2. /\ Head(group) = h /\ h \in Callers
      /\ Len(group) \in Nat \ {0}
      /\ Tail(group) \in Seq(Callers) /\ Len(Tail(group)) = Len(group) - 1
      /\ \A i \in 1..Len(Tail(group)) : Tail(group)[i] = group[i + 1]
  BY <1>1, HeadTail
<1>3. /\ group' = Tail(group) /\ queue' = queue
      /\ outcome' = [outcome EXCEPT ![h] = verdict[h]]
      /\ verdict' = [verdict EXCEPT ![h] = "none"]
      /\ chunk' = [chunk EXCEPT ![h] = FALSE]
      /\ commits' = commits
      /\ phase' = IF Len(group) = 1 THEN "lock"
                  ELSE IF verdict[group[2]] = "none" THEN "single" ELSE "complete"
  BY <1>2 DEF Answer
<1>4. h = group[1] BY DEF h
<1>p. /\ OnePlace /\ Progress /\ Agree /\ GroupsAreChunks /\ Len(queue) \in Nat
      /\ verdict \in [Callers -> {"none", "ok", "err"}]
      /\ outcome \in [Callers -> {"none", "ok", "err"} \union Refusals]
      /\ chunk \in [Callers -> BOOLEAN]
      /\ \A i \in 1..Len(group) : group[i] \in Callers
      /\ \A i \in 1..Len(queue) : queue[i] \in Callers
  OBVIOUS
<1>q. /\ queue' = queue /\ Len(group) \in Nat \ {0}
      /\ group' \in Seq(Callers) /\ Len(group') = Len(group) - 1
  BY <1>2, <1>3
<1> HIDE DEF h, Inv, TypeOK, loadVars, bestVars
<1>r. /\ outcome'[h] # "none" /\ verdict'[h] = "none"
      /\ \A d \in Callers : d # h => /\ verdict'[d] = verdict[d]
                                    /\ outcome'[d] = outcome[d]
                                    /\ chunk'[d] = chunk[d]
  BY <1>p, <1>1, <1>2, <1>3
<1>5. \A i \in 2..Len(group) : group[i] # h
  BY <1>p, <1>2, <1>4 DEF OnePlace
<1>6. \A i \in 1..Len(queue) : queue[i] # h
  BY <1>p, <1>2, <1>4 DEF OnePlace
<1>7. \A i \in 1..Len(group') :
        /\ i + 1 \in 1..Len(group) /\ i + 1 \in 2..Len(group)
        /\ group'[i] = group[i + 1] /\ group'[i] \in Callers
  BY <1>p, <1>2, <1>3
<1>8. OnePlace'
  <2>1. \A i, j \in 1..Len(group') : group'[i] = group'[j] => i = j
    <3> SUFFICES ASSUME NEW i \in 1..Len(group'), NEW j \in 1..Len(group'),
                        group'[i] = group'[j]
                 PROVE  i = j
      OBVIOUS
    <3>1. /\ i + 1 \in 1..Len(group) /\ j + 1 \in 1..Len(group)
          /\ group[i + 1] = group[j + 1]
      BY <1>7
    <3>2. i + 1 = j + 1 BY <1>p, <3>1 DEF OnePlace
    <3> QED BY <3>2
  <2>2. \A i \in 1..Len(queue'), j \in 1..Len(group') : queue'[i] # group'[j]
    <3> SUFFICES ASSUME NEW i \in 1..Len(queue), NEW j \in 1..Len(group')
                 PROVE  queue[i] # group'[j]
      BY <1>3
    <3>1. j + 1 \in 1..Len(group) /\ group'[j] = group[j + 1] BY <1>7
    <3>2. queue[i] # group[j + 1] BY <1>p, <3>1 DEF OnePlace
    <3> QED BY <3>1, <3>2
  <2>3. \A d \in Callers : outcome'[d] # "none" => ~InLine(d)'
    <3>1. \A d \in Callers : d = h => ~InLine(d)'
      BY <1>q, <1>5, <1>6, <1>7 DEF InLine
    <3>2. \A d \in Callers : InLine(d)' => InLine(d)
      BY <1>q, <1>7 DEF InLine
    <3>3. \A d \in Callers : outcome[d] # "none" => ~InLine(d) BY <1>p DEF OnePlace
    <3> QED BY <1>r, <3>1, <3>2, <3>3
  <2> QED BY <1>p, <1>q, <2>1, <2>2, <2>3 DEF OnePlace
<1>9. Progress'
  <2>1. \A d \in Callers : ~InGroup(d)' => verdict'[d] = "none"
    <3>1. \A d \in Callers : d # h /\ InGroup(d) => InGroup(d)'
      <4> SUFFICES ASSUME NEW d \in Callers, d # h,
                          NEW i \in 1..Len(group), group[i] = d
                   PROVE  InGroup(d)'
        BY DEF InGroup
      <4>1. i # 1 BY <1>4
      <4>2. i - 1 \in 1..Len(group') /\ (i - 1) + 1 = i
        BY <1>q, <4>1
      <4>3. group'[i - 1] = d BY <1>7, <4>2
      <4> QED BY <4>2, <4>3 DEF InGroup
    <3> QED BY <1>p, <1>r, <3>1 DEF Progress
  <2>2. \/ \A i \in 2..Len(group) : verdict[group[i]] = "none"
        \/ \A i \in 2..Len(group) : verdict[group[i]] = "ok"
    BY <1>p DEF Answer, Progress
  <2>3. CASE Len(group) = 1
    <3>1. group' \in Seq(Callers) /\ ~(Len(group') \in Nat \ {0}) BY <1>q, <2>3
    <3>2. group' = <<>> BY <3>1, EmptySeq
    <3> QED BY <1>3, <2>1, <2>3, <3>2 DEF Progress, Holds
  <2>4. CASE Len(group) # 1
    <3>1. group' # <<>> /\ 2 \in 2..Len(group) /\ 1 \in 1..Len(group')
      <4>1. Len(group') \in Nat \ {0} BY <1>q, <2>4
      <4> QED BY <1>q, <4>1, EmptySeq
    <3>2. \A i \in 1..Len(group') : verdict'[group'[i]] = verdict[group[i + 1]]
      BY <1>r, <1>5, <1>7
    <3>3. CASE \A i \in 2..Len(group) : verdict[group[i]] = "none"
      <4>1. phase' = "single" BY <1>3, <2>4, <3>1, <3>3
      <4>2. \A i \in 1..Len(group') : verdict'[group'[i]] = "none"
        BY <1>7, <3>2, <3>3
      <4> QED BY <2>1, <3>1, <4>1, <4>2 DEF Progress, Holds
    <3>4. CASE \A i \in 2..Len(group) : verdict[group[i]] = "ok"
      <4>1. phase' = "complete" BY <1>3, <2>4, <3>1, <3>4
      <4>2. \A i \in 1..Len(group') : verdict'[group'[i]] = "ok"
        BY <1>7, <3>2, <3>4
      <4> QED BY <1>q, <2>1, <3>1, <4>1, <4>2 DEF Progress, Holds
    <3> QED BY <2>2, <3>3, <3>4
  <2> QED BY <2>3, <2>4
<1>10. Agree'
  <2>1. outcome[h] = "none"
    BY <1>p, <1>2, <1>4 DEF OnePlace, InLine
  <2> QED BY <1>p, <1>1, <1>2, <1>3, <1>4, <2>1 DEF Agree
<1>11. GroupsAreChunks'
  <2>1. Len(group') <= MaxBatch /\ \A i \in 1..Len(group') : chunk'[group'[i]] = chunk[group[i + 1]]
    BY <1>p, <1>q, <1>r, <1>5, <1>7, WriterAssumption DEF GroupsAreChunks
  <2> QED BY <1>p, <1>q, <1>7, <2>1 DEF GroupsAreChunks
<1> QED BY <1>8, <1>9, <1>10, <1>11 DEF Rest

-----------------------------------------------------------------------------

\* Whatever leaves the calls alone keeps the invariant while the worker does
\* not enter or leave a phase in which it holds a group.
LEMMA RestOther ==
    ASSUME Inv, Close \/ Wait \/ StartBestEffort \/ FinishBestEffort \/ Stop \/ Coalesce
                  \/ UNCHANGED vars
    PROVE  Rest'
<1> USE DEF Inv, TypeOK, loadVars, bestVars, callVars
<1> DEFINE Calm == /\ UNCHANGED <<queue, group, chunk, verdict, commits, outcome>>
                   /\ Holds' = Holds /\ (Holds => phase' = phase)
<1>1. Calm
  <2>1. CASE Close BY <2>1 DEF Close, Woken, Holds
  <2>2. CASE Wait BY <2>2 DEF Wait, Holds
  <2>3. CASE StartBestEffort BY <2>3 DEF StartBestEffort, Holds
  <2>4. CASE FinishBestEffort BY <2>4 DEF FinishBestEffort, Holds
  <2>5. CASE Stop BY <2>5 DEF Stop, Holds
  <2>6. CASE UNCHANGED vars BY <2>6 DEF vars, Holds
  <2>7. CASE Coalesce
    <3>1. ASSUME NEW kind, NEW ks, CoalesceUsage(kind, ks) PROVE Calm
      BY <3>1 DEF CoalesceUsage, Queue, Woken, Holds
    <3>2. ASSUME NEW k, CoalesceMachine(k) PROVE Calm
      BY <3>2 DEF CoalesceMachine, Queue, Woken, Holds
    <3>3. ASSUME NEW k, CoalesceToken(k) PROVE Calm
      BY <3>3 DEF CoalesceToken, Queue, Woken, Holds
    <3>4. ASSUME NEW k, TokenAges(k) PROVE Calm
      BY <3>4 DEF TokenAges, Holds
    <3> QED BY <2>7, <3>1, <3>2, <3>3, <3>4 DEF Coalesce
  <2> QED BY <2>1, <2>2, <2>3, <2>4, <2>5, <2>6, <2>7
<1>2. OnePlace' BY <1>1, OnePlaceStays
<1>3. Progress' BY <1>1 DEF Progress, Holds, InGroup
<1>4. Agree' /\ GroupsAreChunks' BY <1>1 DEF Agree, GroupsAreChunks
<1> QED BY <1>2, <1>3, <1>4 DEF Rest

LEMMA InvStep == Inv /\ [Next]_vars => Inv'
<1> SUFFICES ASSUME Inv, [Next]_vars PROVE Inv' OBVIOUS
<1>1. TypeOK'
  <2>1. CASE Calls BY <2>1, TypeCalls DEF Inv
  <2>2. CASE Write BY <2>2, TypeWrite DEF Inv
  <2>3. CASE Coalesce BY <2>3, TypeCoalesce DEF Inv
  <2>4. CASE Close \/ Wait \/ StartBestEffort \/ FinishBestEffort \/ Stop
    BY <2>4, TypeRest DEF Inv
  <2>5. CASE UNCHANGED vars
    BY <2>5 DEF Inv, TypeOK, vars, callVars, loadVars, bestVars
  <2> QED BY <2>1, <2>2, <2>3, <2>4, <2>5 DEF Next, Work
<1>2. Rest'
  <2>1. CASE Calls
    BY <2>1, RestAdmit, RestReject, RestReturn DEF Calls
  <2>2. CASE Write
    BY <2>2, RestPop, RestCommitGroup, RestFailGroup, RestSingle, RestComplete, RestAnswer
    DEF Write
  <2>3. CASE Close \/ Wait \/ StartBestEffort \/ FinishBestEffort \/ Stop \/ Coalesce
               \/ UNCHANGED vars
    BY <2>3, RestOther
  <2> QED BY <2>1, <2>2, <2>3 DEF Next, Work
<1> QED BY <1>1, <1>2 DEF Inv, Rest

\* Inv holds in every reachable state, for all values of the constants.
THEOREM WriterInv == Spec => []Inv
<1>1. Init => Inv BY InvInit
<1>2. Inv /\ [Next]_vars => Inv' BY InvStep
<1> QED BY <1>1, <1>2, PTL DEF Spec

\* Type correctness of the runtime writer.
THEOREM WriterTypeOK == Spec => []TypeOK
<1>1. Inv => TypeOK BY DEF Inv
<1> QED BY <1>1, WriterInv, PTL

\* A call that was told "ok" committed exactly once and any other call that
\* was told something left nothing behind (complete, writeChunkGroup).
THEOREM ToldWhatHappenedAlways == Spec => []ToldWhatHappened
<1>1. Inv => ToldWhatHappened
  <2> SUFFICES ASSUME Inv, NEW c \in Callers, outcome[c] # "none"
               PROVE  commits[c] = IF outcome[c] = "ok" THEN 1 ELSE 0
    BY DEF ToldWhatHappened, Refusals
  <2>1. verdict[c] = "none"
    BY DEF Inv, OnePlace, Progress, InLine, InGroup
  <2> QED BY <2>1 DEF Inv, Agree
<1> QED BY <1>1, WriterInv, PTL

\* Only chunk appends share a transaction, at most MaxBatch of them (work).
THEOREM GroupsAreChunksAlways == Spec => []GroupsAreChunks
<1>1. Inv => GroupsAreChunks BY DEF Inv
<1> QED BY <1>1, WriterInv, PTL

-----------------------------------------------------------------------------
(* Limits: what admission counts is what is in the line.                   *)

LEMMA LoadInit == Init => LoadAccounted
BY WriterAssumption DEF Init, LoadAccounted, Released

LEMMA LoadStep == Inv /\ LoadAccounted /\ [Next]_vars => LoadAccounted'
<1> SUFFICES ASSUME Inv, LoadAccounted, [Next]_vars PROVE LoadAccounted' OBVIOUS
<1> USE WriterAssumption DEF Inv, TypeOK, callVars, bestVars, loadVars
<1>1. ASSUME NEW c \in Callers, NEW n \in Sizes, NEW isChunk \in BOOLEAN,
             Admit(c, n, isChunk)
      PROVE  LoadAccounted'
  <2>1. operations < MaxOperations /\ n <= MaxBytes - bytes /\ n \in Nat
    BY <1>1 DEF Admit, Refusal
  <2>2. /\ Len(queue') = Len(queue) + 1 /\ Len(queue) \in Nat /\ Len(group) \in Nat
        /\ operations' = operations + 1 /\ bytes' = bytes + n /\ group' = group
        /\ Released' = Released /\ operations \in Int /\ bytes \in Int
    BY <1>1 DEF Admit, Released, Woken
  <2>3. Released \in {0, 1} BY DEF Released
  <2> HIDE DEF Inv, TypeOK
  <2> QED BY <2>1, <2>2, <2>3 DEF LoadAccounted
<1>2. ASSUME NEW c \in Callers, NEW n \in Sizes, NEW cancelled \in BOOLEAN,
             Reject(c, n, cancelled)
      PROVE  LoadAccounted'
  BY <1>2 DEF Reject, LoadAccounted, Released
<1>3. ASSUME NEW c \in Callers, Return(c) PROVE LoadAccounted'
  BY <1>3 DEF Return, LoadAccounted, Released
<1>4. CASE Pop
  <2>1. PICK n \in 1..Len(queue) : /\ group' = SubSeq(queue, 1, n)
                                   /\ queue' = SubSeq(queue, n + 1, Len(queue))
    BY <1>4 DEF Pop
  <2>2. Len(queue) \in Nat /\ \A i \in 1..Len(queue) : queue[i] \in Callers
    OBVIOUS
  <2>3. Len(group') = n BY <2>1, <2>2, SubSeqProperties
  <2>4. Len(queue') = Len(queue) - n BY <2>1, <2>2, SubSeqProperties
  <2>5. group = <<>> BY <1>4 DEF Pop, Progress, Holds
  <2> QED BY <1>4, <2>3, <2>4, <2>5 DEF Pop, LoadAccounted, Released
<1>5. CASE CommitGroup BY <1>5 DEF CommitGroup, LoadAccounted, Released
<1>6. CASE FailGroup BY <1>6 DEF FailGroup, LoadAccounted, Released
<1>7. CASE CommitSingle BY <1>7 DEF CommitSingle, LoadAccounted, Released
<1>8. CASE FailSingle BY <1>8 DEF FailSingle, LoadAccounted, Released
<1>9. CASE Complete
  <2>1. Head(group) \in Callers
    BY <1>9, HeadTail DEF Complete, Progress, Holds
  <2>2. size[Head(group)] \in Nat BY <2>1
  <2>3. /\ operations' = operations - 1 /\ bytes' = bytes - size[Head(group)]
        /\ queue' = queue /\ group' = group
        /\ phase = "complete" /\ phase' = "answer"
    BY <1>9 DEF Complete
  <2>4. Released = 0 /\ Released' = 1 BY <2>3 DEF Released
  <2>5. Len(queue) \in Nat /\ Len(group) \in Nat /\ operations \in Int /\ bytes \in Int
    OBVIOUS
  <2> HIDE DEF Inv, TypeOK
  <2> QED BY <2>2, <2>3, <2>4, <2>5 DEF LoadAccounted
<1>10. CASE Answer
  <2>1. group # <<>> BY <1>10 DEF Answer, Progress, Holds
  <2>2. Len(group') = Len(group) - 1 BY <1>10, <2>1, HeadTail DEF Answer
  <2>3. phase' # "answer" BY <1>10 DEF Answer
  <2>4. /\ phase = "answer" /\ queue' = queue
        /\ UNCHANGED <<operations, bytes>>
    BY <1>10 DEF Answer
  <2>5. Released = 1 /\ Released' = 0 BY <2>3, <2>4 DEF Released
  <2>6. Len(queue) \in Nat /\ Len(group) \in Nat /\ operations \in Int OBVIOUS
  <2> HIDE DEF Inv, TypeOK
  <2> QED BY <2>2, <2>4, <2>5, <2>6 DEF LoadAccounted
<1>11. CASE Close \/ Wait \/ StartBestEffort \/ FinishBestEffort \/ Stop
  BY <1>11 DEF Close, Wait, StartBestEffort, FinishBestEffort, Stop, Woken,
               LoadAccounted, Released
<1>12. CASE Coalesce
  <2>1. /\ UNCHANGED <<queue, group, operations, bytes>>
        /\ phase' \in {phase, Woken}
    BY <1>12 DEF Coalesce, CoalesceUsage, CoalesceMachine, CoalesceToken, TokenAges, Queue
  <2> QED BY <2>1 DEF LoadAccounted, Released, Woken
<1>13. CASE UNCHANGED vars BY <1>13 DEF vars, LoadAccounted, Released
<1> QED BY <1>1, <1>2, <1>3, <1>4, <1>5, <1>6, <1>7, <1>8, <1>9, <1>10, <1>11, <1>12, <1>13
        DEF Next, Work, Write, Calls

\* The operation counter is exact and both limits hold, whatever happens to
\* groups, fallbacks and refusals (admitPrepared, pop, complete).
THEOREM LoadAccountedAlways == Spec => []LoadAccounted
<1>1. Init => LoadAccounted BY LoadInit
<1>2. Inv /\ LoadAccounted /\ [Next]_vars => LoadAccounted' BY LoadStep
<1> QED BY <1>1, <1>2, WriterInv, PTL DEF Spec

-----------------------------------------------------------------------------
(* Best effort: nothing taken over is lost, and close drains it.           *)

Hits == OneBatch /\ HitsConserved /\ DrainedWhenStopped

\* Merging hits into a batch that is not before the database.
LEMMA HitsQueue ==
    ASSUME TypeOK, Hits, NEW kind \in Kinds, NEW accepted \in SUBSET Keys,
           TakesHits(kind), Queue(kind, accepted)
    PROVE  Hits'
<1> USE DEF TypeOK, Hits, TakesHits, Queue
<1>1. OneBatch' BY DEF OneBatch, Woken
<1>2. HitsConserved' BY DEF HitsConserved
<1>3. DrainedWhenStopped' BY DEF DrainedWhenStopped, Woken
<1> QED BY <1>1, <1>2, <1>3

LEMMA HitsStep == Inv /\ Hits /\ [Next]_vars => Hits'
<1> SUFFICES ASSUME Inv, Hits, [Next]_vars PROVE Hits' OBVIOUS
<1> USE DEF Hits, Inv, TypeOK, callVars, loadVars
<1>1. CASE Calls
  <2>1. UNCHANGED <<bestVars, closed, group>> /\ phase' \in {phase, Woken}
        /\ (phase = "stopped" => UNCHANGED queue)
    BY <1>1 DEF Calls, Admit, Reject, Return, Refusal, DrainedWhenStopped
  <2> QED BY <2>1 DEF bestVars, Woken, OneBatch, HitsConserved, DrainedWhenStopped, Waiting
<1>2. CASE Write
  <2>1. UNCHANGED <<bestVars, closed>> /\ phase # "bestEffort"
        /\ phase' \notin {"stopped"}
    BY <1>2 DEF Write, Pop, CommitGroup, FailGroup, CommitSingle, FailSingle, Complete, Answer
  <2> QED BY <2>1 DEF bestVars, OneBatch, HitsConserved, DrainedWhenStopped
<1>3. CASE Close \/ Wait
  <2>1. (UNCHANGED bestVars /\ phase # "bestEffort") \/ UNCHANGED <<bestVars, phase>>
    BY <1>3 DEF Close, Wait, Woken
  <2> QED BY <1>3, <2>1
          DEF Close, Wait, Woken, bestVars, OneBatch, HitsConserved, DrainedWhenStopped, Waiting
<1>4. CASE Stop
  BY <1>4 DEF Stop, bestVars, OneBatch, HitsConserved, DrainedWhenStopped, Waiting,
              Progress, Holds
<1>5. CASE StartBestEffort
  <2>1. PICK kind \in Kinds : /\ active' = [active EXCEPT ![kind] = TRUE]
                              /\ taken' = pending[kind]
    BY <1>5 DEF StartBestEffort
  <2>2. \A k \in Kinds : ~active[k]
    BY <1>5 DEF StartBestEffort, OneBatch
  <2>3. \A k \in Kinds : active'[k] => k = kind
    BY <2>1, <2>2
  <2>4. OneBatch' BY <1>5, <2>3 DEF StartBestEffort, OneBatch
  <2>5. HitsConserved'
    BY <1>5, <2>1, <2>3 DEF StartBestEffort, HitsConserved
  <2>6. DrainedWhenStopped' BY <1>5 DEF StartBestEffort, DrainedWhenStopped
  <2> QED BY <2>4, <2>5, <2>6
<1>6. CASE FinishBestEffort
  <2>1. PICK kind \in Kinds :
        /\ active[kind]
        /\ owed' = [owed EXCEPT ![kind] = [k \in Keys |-> @[k] - taken[k]]]
        /\ pending' = [pending EXCEPT ![kind] = Empty]
        /\ active' = [active EXCEPT ![kind] = FALSE]
    BY <1>6 DEF FinishBestEffort
  <2>2. \A k \in Kinds : ~active'[k]
    BY <2>1 DEF OneBatch
  <2>3. [k \in Keys |-> owed[kind][k] - taken[k]] = Empty
    BY <2>1 DEF HitsConserved, Empty
  <2>4. OneBatch' BY <2>2 DEF OneBatch
  <2>5. HitsConserved' BY <2>1, <2>2, <2>3 DEF HitsConserved
  <2>6. DrainedWhenStopped' BY <1>6 DEF FinishBestEffort, DrainedWhenStopped
  <2> QED BY <2>4, <2>5, <2>6
<1>7. CASE Coalesce
  <2>1. ASSUME NEW kind \in UsageKinds, NEW ks \in SUBSET Keys, CoalesceUsage(kind, ks)
        PROVE  Hits'
    <3>1. PICK accepted \in SUBSET Keys : Queue(kind, accepted)
      BY <2>1 DEF CoalesceUsage
    <3> QED BY <2>1, <3>1, HitsQueue DEF CoalesceUsage, UsageKinds
  <2>2. ASSUME NEW k \in Keys, Machine \in Kinds, CoalesceMachine(k) PROVE Hits'
    BY <2>2, HitsQueue DEF CoalesceMachine
  <2>3. ASSUME NEW k \in Keys, Token \in Kinds, CoalesceToken(k) PROVE Hits'
    BY <2>3, HitsQueue DEF CoalesceToken
  <2>4. ASSUME NEW k \in Keys, TokenAges(k) PROVE Hits'
    BY <2>4 DEF TokenAges, OneBatch, HitsConserved, DrainedWhenStopped, Waiting
  <2> QED BY <1>7, <2>1, <2>2, <2>3, <2>4 DEF Coalesce
<1>8. CASE UNCHANGED vars
  BY <1>8 DEF vars, bestVars, OneBatch, HitsConserved, DrainedWhenStopped, Waiting
<1> QED BY <1>1, <1>2, <1>3, <1>4, <1>5, <1>6, <1>7, <1>8 DEF Next, Work

LEMMA HitsInvariant == Spec => []Hits
<1>1. Init => Hits
  BY DEF Init, Hits, OneBatch, HitsConserved, DrainedWhenStopped
<1>2. Inv /\ Hits /\ [Next]_vars => Hits' BY HitsStep
<1> QED BY <1>1, <1>2, WriterInv, PTL DEF Spec

\* No best-effort hit that was taken over disappears: the active flag keeps a
\* batch unchanged while it is before the database (coalesce*, runBestEffort).
THEOREM HitsConservedAlways == Spec => []HitsConserved
<1>1. Hits => HitsConserved BY DEF Hits
<1> QED BY <1>1, HitsInvariant, PTL

\* A stopped worker leaves no call unanswered and no hit unwritten (close).
THEOREM DrainedAlways == Spec => []DrainedWhenStopped
<1>1. Hits => DrainedWhenStopped BY DEF Hits
<1> QED BY <1>1, HitsInvariant, PTL

-----------------------------------------------------------------------------
(* The writer implements the line of calls of CommitQueue.                 *)

Outstanding == group \o queue

LEMMA LinePositions ==
    ASSUME TypeOK
    PROVE  /\ Outstanding \in Seq(Callers)
           /\ Len(Outstanding) = Len(group) + Len(queue)
           /\ Len(group) \in Nat /\ Len(queue) \in Nat
           /\ \A i \in 1..Len(group) :
                /\ i \in 1..Len(Outstanding) /\ Outstanding[i] = group[i]
                /\ group[i] \in Callers
           /\ \A i \in 1..Len(queue) :
                /\ Len(group) + i \in 1..Len(Outstanding)
                /\ Outstanding[Len(group) + i] = queue[i]
<1>1. /\ Outstanding \in Seq(Callers)
      /\ Len(Outstanding) = Len(group) + Len(queue)
      /\ \A i \in 1..(Len(group) + Len(queue)) :
            Outstanding[i] = IF i <= Len(group) THEN group[i] ELSE queue[i - Len(group)]
  BY ConcatProperties DEF TypeOK, Outstanding
<1>2. Len(group) \in Nat /\ Len(queue) \in Nat
  BY DEF TypeOK
<1>3. \A i \in 1..Len(group) : group[i] \in Callers
  BY DEF TypeOK
<1> QED BY <1>1, <1>2, <1>3

LEMMA LineMembers ==
    ASSUME TypeOK, NEW c
    PROVE  Line!InLine(c) <=> InLine(c)
<1> DEFINE l == Outstanding
<1>1. Line!InLine(c) <=> \E i \in 1..Len(l) : l[i] = c
  BY DEF Line!InLine, Outstanding
<1>2. ASSUME NEW i \in 1..Len(l) PROVE
        \/ i \in 1..Len(group) /\ l[i] = group[i]
        \/ \E j \in 1..Len(queue) : l[i] = queue[j]
  <2>1. Len(group) \in Nat /\ Len(queue) \in Nat BY DEF TypeOK
  <2>2. CASE i <= Len(group) BY <2>1, <2>2, LinePositions
  <2>3. CASE i > Len(group)
    <3>1. i - Len(group) \in 1..Len(queue) BY <2>1, <2>3, LinePositions
    <3>2. l[Len(group) + (i - Len(group))] = queue[i - Len(group)]
      BY <3>1, LinePositions
    <3>3. Len(group) + (i - Len(group)) = i BY <2>1
    <3> QED BY <3>1, <3>2, <3>3
  <2> QED BY <2>1, <2>2, <2>3
<1>3. \A i \in 1..Len(group) : i \in 1..Len(l) /\ l[i] = group[i]
  BY LinePositions
<1>4. \A i \in 1..Len(queue) : Len(group) + i \in 1..Len(l) /\ l[Len(group) + i] = queue[i]
  BY LinePositions
<1> HIDE DEF l
<1> QED BY <1>1, <1>2, <1>3, <1>4 DEF InLine

LEMMA LineAdmit ==
    ASSUME Inv, NEW c \in Callers, NEW n \in Sizes, NEW isChunk \in BOOLEAN,
           Admit(c, n, isChunk)
    PROVE  Line!Accept(c)
<1> USE DEF Inv, TypeOK
<1>1. ~closed BY DEF Admit, Refusal
<1>2. Line!Free(c)
  BY LineMembers DEF Admit, Free, Line!Free
<1>3. group \o Append(queue, c) = Append(group \o queue, c)
  <2>1. queue \in Seq(Callers) /\ group \in Seq(Callers) OBVIOUS
  <2> HIDE DEF Inv, TypeOK
  <2>2. group \o queue \in Seq(Callers) /\ <<c>> \in Seq(Callers)
    BY <2>1, ConcatProperties
  <2>3. /\ Append(queue, c) = queue \o <<c>>
        /\ Append(group \o queue, c) = (group \o queue) \o <<c>>
    BY <2>1, <2>2, AppendIsConcat
  <2>4. group \o (queue \o <<c>>) = (group \o queue) \o <<c>>
    BY <2>1, <2>2, ConcatAssociative
  <2> QED BY <2>3, <2>4
<1> QED BY <1>1, <1>2, <1>3 DEF Admit, Line!Accept

LEMMA LinePop == Inv /\ Pop => UNCHANGED Line!vars
<1> SUFFICES ASSUME Inv, Pop PROVE UNCHANGED Line!vars OBVIOUS
<1> USE DEF Inv, TypeOK
<1>1. PICK n \in 1..Len(queue) : /\ group' = SubSeq(queue, 1, n)
                                 /\ queue' = SubSeq(queue, n + 1, Len(queue))
  BY DEF Pop
<1>2. group' \o queue' = queue
  <2>1. SubSeq(queue, 1, n) \o SubSeq(queue, n + 1, Len(queue)) = SubSeq(queue, 1, Len(queue))
    <3>1. /\ 1 \in 1..(Len(queue) + 1) /\ n \in (1 - 1)..Len(queue)
          /\ Len(queue) \in n..Len(queue)
      OBVIOUS
    <3> QED BY <3>1, ConcatAdjacentSubSeq
  <2> QED BY <1>1, <2>1, SubSeqFull
<1>3. group \o queue = queue
  <2>1. group = <<>> BY DEF Pop, Progress, Holds
  <2> QED BY <2>1, ConcatEmptySeq
<1> QED BY <1>2, <1>3 DEF Pop, Line!vars, callVars

-----------------------------------------------------------------------------

\* A group commits as the oldest calls of the line, a single call as the
\* oldest one.
LEMMA LineCommit ==
    ASSUME Inv, CommitGroup \/ CommitSingle
    PROVE  Line!Decide
<1> USE DEF Inv, TypeOK
<1>1. group # <<>> /\ \A i \in 1..Len(group) : verdict[group[i]] = "none"
  BY DEF CommitGroup, CommitSingle, Progress, Holds
<1>2. Head(group) = group[1] /\ group[1] \in Callers /\ Len(group) \in Nat \ {0}
  BY <1>1, HeadTail
<1>3. Line!OldestUndecided(1)
  BY <1>1, <1>2, LinePositions DEF Line!OldestUndecided, Outstanding
<1>4. 1 \in 1..Len(Outstanding) /\ \A k \in 1..Len(group) : k \in 1..Len(Outstanding)
  <2>1. TypeOK OBVIOUS
  <2> HIDE DEF Inv, TypeOK
  <2>2. 1 \in 1..Len(group) BY <1>2
  <2> QED BY <2>1, <2>2, LinePositions
<1>5. \A j \in 1..Len(group) : Outstanding[j] = group[j]
  BY LinePositions
<1>6. UNCHANGED Outstanding /\ UNCHANGED <<outcome, closed>>
  BY DEF CommitGroup, CommitSingle, Outstanding
<1>7. CASE CommitGroup
  <2> DEFINE batch == {Outstanding[j] : j \in 1..Len(group)}
  <2>1. \A d \in Callers : InGroup(d) <=> d \in batch
    <3> HIDE DEF Inv, TypeOK
    <3> QED BY <1>5 DEF InGroup
  <2>2. /\ verdict' = [d \in Callers |-> IF d \in batch THEN "ok" ELSE verdict[d]]
        /\ commits' = [d \in Callers |-> IF d \in batch THEN commits[d] + 1 ELSE commits[d]]
    BY <1>7, <2>1 DEF CommitGroup
  <2>3. Line!Commit(1, Len(group))
    BY <1>3, <1>6, <2>2 DEF Line!Commit, Outstanding
  <2>4. Len(group) \in 1..Len(Outstanding)
    <3>1. TypeOK OBVIOUS
    <3> HIDE DEF Inv, TypeOK
    <3> QED BY <1>2, <3>1, LinePositions
  <2> QED BY <1>4, <2>3, <2>4 DEF Line!Decide, Outstanding
<1>8. CASE CommitSingle
  <2> DEFINE batch == {Outstanding[j] : j \in 1..1}
  <2>1. batch = {group[1]}
    <3>1. 1 \in 1..Len(group) BY <1>2
    <3>2. Outstanding[1] = group[1] BY <3>1, LinePositions
    <3> QED BY <3>2
  <2>2. /\ verdict' = [d \in Callers |-> IF d \in batch THEN "ok" ELSE verdict[d]]
        /\ commits' = [d \in Callers |-> IF d \in batch THEN commits[d] + 1 ELSE commits[d]]
    <3>1. /\ verdict \in [Callers -> {"none", "ok", "err"}]
          /\ commits \in [Callers -> Nat]
          /\ verdict' = [verdict EXCEPT ![group[1]] = "ok"]
          /\ commits' = [commits EXCEPT ![group[1]] = @ + 1]
      BY <1>2, <1>8 DEF CommitSingle
    <3> HIDE DEF Inv, TypeOK, batch
    <3> QED BY <1>2, <2>1, <3>1
  <2>3. Line!Commit(1, 1)
    BY <1>3, <1>6, <2>2 DEF Line!Commit, Outstanding
  <2> QED BY <1>4, <2>3 DEF Line!Decide, Outstanding
<1> QED BY <1>7, <1>8

\* A failure decides the oldest call, or is a stutter when a group falls back.
LEMMA LineFail ==
    ASSUME Inv, FailGroup \/ FailSingle
    PROVE  Line!Decide \/ UNCHANGED Line!vars
<1> USE DEF Inv, TypeOK
<1>1. group # <<>> /\ \A i \in 1..Len(group) : verdict[group[i]] = "none"
  BY DEF FailGroup, FailSingle, Progress, Holds
<1>2. Head(group) = group[1] /\ group[1] \in Callers /\ Len(group) \in Nat \ {0}
  BY <1>1, HeadTail
<1>3. Line!OldestUndecided(1) /\ Outstanding[1] = group[1] /\ 1 \in 1..Len(Outstanding)
  BY <1>1, <1>2, LinePositions DEF Line!OldestUndecided, Outstanding
<1>4. UNCHANGED <<Outstanding, commits, outcome, closed>>
  BY DEF FailGroup, FailSingle, Outstanding
<1>5. CASE verdict' = [verdict EXCEPT ![Head(group)] = "err"]
  <2>1. Line!Fail(1)
    BY <1>2, <1>3, <1>4, <1>5 DEF Line!Fail, Outstanding
  <2> QED BY <1>3, <2>1 DEF Line!Decide, Outstanding
<1>6. CASE UNCHANGED verdict
  BY <1>4, <1>6 DEF Line!vars, Outstanding
<1> QED BY <1>5, <1>6 DEF FailGroup, FailSingle

LEMMA LineAnswer ==
    ASSUME Inv, Answer
    PROVE  Line!Answer
<1> USE DEF Inv, TypeOK
<1>1. group # <<>> /\ verdict[group[1]] # "none"
  BY DEF Answer, Progress, Holds
<1>2. /\ Head(group \o queue) = Head(group)
      /\ Tail(group \o queue) = Tail(group) \o queue
      /\ group \o queue # <<>>
  <2>1. Head(group \o queue) = Head(group) /\ group \o queue # <<>>
    BY <1>1
  <2>2. Tail(group \o queue) = Tail(group) \o queue
    <3> DEFINE a == Tail(group \o queue)
               b == Tail(group) \o queue
    <3>1. /\ Tail(group) \in Seq(Callers) /\ Len(Tail(group)) = Len(group) - 1
          /\ \A i \in 1..Len(Tail(group)) : Tail(group)[i] = group[i + 1]
          /\ Len(group) \in Nat \ {0}
      BY <1>1, HeadTail
    <3>2. group \o queue \in Seq(Callers) BY LinePositions DEF Outstanding
    <3>3. /\ a \in Seq(Callers) /\ Len(a) = Len(group) + Len(queue) - 1
          /\ \A i \in 1..Len(a) : a[i] = (group \o queue)[i + 1]
      BY <2>1, <3>1, <3>2, HeadTail, LinePositions DEF Outstanding
    <3>4. b \in Seq(Callers) /\ Len(b) = Len(group) + Len(queue) - 1
      BY <3>1
    <3>5. \A i \in 1..Len(a) : a[i] = b[i]
      <4> TAKE i \in 1..Len(a)
      <4>1. a[i] = (group \o queue)[i + 1] BY <3>3
      <4>2. CASE i < Len(group)
        BY <3>1, <3>3, <4>1, <4>2
      <4>3. CASE i >= Len(group)
        BY <3>1, <3>3, <4>1, <4>3
      <4> QED BY <3>1, <4>2, <4>3
    <3> HIDE DEF a, b
    <3>6. a = b BY <3>3, <3>4, <3>5, SeqEqual
    <3> QED BY <3>6 DEF a, b
  <2> QED BY <2>1, <2>2
<1>3. Head(group) = group[1] BY <1>1, HeadTail
<1> QED BY <1>1, <1>2, <1>3 DEF Answer, Line!Answer

LEMMA LineStep == Inv /\ [Next]_vars => [Line!Next]_(Line!vars)
<1> SUFFICES ASSUME Inv, [Next]_vars PROVE [Line!Next]_(Line!vars) OBVIOUS
<1>1. ASSUME NEW c \in Callers, NEW n \in Sizes, NEW isChunk \in BOOLEAN,
             Admit(c, n, isChunk)
      PROVE  Line!Next
  BY <1>1, LineAdmit DEF Line!Next
<1>2. ASSUME NEW c \in Callers, NEW n \in Sizes, NEW cancelled \in BOOLEAN,
             Reject(c, n, cancelled)
      PROVE  Line!Next
  <2>1. Refusal(n, cancelled) \in Refusals
    BY <1>2 DEF Reject, Refusal, Refusals
  <2>2. Line!Free(c)
    BY <1>2, LineMembers DEF Inv, Reject, Free, Line!Free
  <2>3. Line!Refuse(c)
    BY <1>2, <2>1, <2>2 DEF Reject, Line!Refuse
  <2> QED BY <2>3 DEF Line!Next
<1>3. ASSUME NEW c \in Callers, Return(c) PROVE Line!Next
  <2>1. Line!Return(c) BY <1>3 DEF Return, Line!Return
  <2> QED BY <2>1 DEF Line!Next
<1>4. CASE Close
  <2>1. Line!Close BY <1>4 DEF Close, Line!Close, callVars
  <2> QED BY <2>1 DEF Line!Next
<1>5. CASE Write
  <2>1. CASE Pop BY <2>1, LinePop
  <2>2. CASE CommitGroup \/ CommitSingle BY <2>2, LineCommit DEF Line!Next
  <2>3. CASE FailGroup \/ FailSingle BY <2>3, LineFail DEF Line!Next
  <2>4. CASE Complete BY <2>4 DEF Complete, Line!vars, callVars
  <2>5. CASE Answer BY <2>5, LineAnswer DEF Line!Next
  <2> QED BY <1>5, <2>1, <2>2, <2>3, <2>4, <2>5 DEF Write
<1>6. CASE Wait \/ StartBestEffort \/ FinishBestEffort \/ Stop
  BY <1>6 DEF Wait, StartBestEffort, FinishBestEffort, Stop, Line!vars, callVars
<1>7. CASE Coalesce
  <2>1. ASSUME NEW kind, NEW ks, CoalesceUsage(kind, ks) PROVE UNCHANGED Line!vars
    BY <2>1 DEF CoalesceUsage, Queue, Line!vars, callVars
  <2>2. ASSUME NEW k, CoalesceMachine(k) PROVE UNCHANGED Line!vars
    BY <2>2 DEF CoalesceMachine, Queue, Line!vars, callVars
  <2>3. ASSUME NEW k, CoalesceToken(k) PROVE UNCHANGED Line!vars
    BY <2>3 DEF CoalesceToken, Queue, Line!vars, callVars
  <2>4. ASSUME NEW k, TokenAges(k) PROVE UNCHANGED Line!vars
    BY <2>4 DEF TokenAges, Line!vars, callVars
  <2> QED BY <1>7, <2>1, <2>2, <2>3, <2>4 DEF Coalesce
<1>8. CASE UNCHANGED vars BY <1>8 DEF vars, callVars, Line!vars
<1> QED BY <1>1, <1>2, <1>3, <1>4, <1>5, <1>6, <1>7, <1>8 DEF Next, Work, Calls

\* The safety part of LineSpec: every step of the writer is a step of the
\* line or leaves it alone, so calls are decided and answered in the order of
\* admission, each once (admitPrepared, work, writeChunkGroup, complete).
THEOREM WriterImplementsLine == Spec => Line!Init /\ [][Line!Next]_(Line!vars)
<1>1. Init => Line!Init
  BY DEF Init, Line!Init
<1>2. Inv /\ [Next]_vars => [Line!Next]_(Line!vars) BY LineStep
<1> QED BY <1>1, <1>2, WriterInv, PTL DEF Spec

=============================================================================
