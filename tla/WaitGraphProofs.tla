--------------------------- MODULE WaitGraphProofs ----------------------------
(***************************************************************************)
(* The search for mutual waits finds exactly the mutual waits, and the     *)
(* order it shows a group in is a circle, if there is one: partial         *)
(* correctness of Tarjan's algorithm and of the backtracking after it, for *)
(* every finite set of agents and every graph.                             *)
(*                                                                         *)
(* Search.  The calls in progress are a path of waits.  What is on the     *)
(* stack was entered after, and is reached from, everything below it, and  *)
(* reaches some call in progress; what has left the stack waits only on    *)
(* what has left it.  low[v] is the index of an agent on the stack that v  *)
(* reaches, and no higher than the index of any agent on the stack that    *)
(* the part of the stack from v on was seen to wait on.  When a call ends  *)
(* with low = index that part thus waits on nothing below it: it is a      *)
(* whole group.                                                            *)
(*                                                                         *)
(* Order.  Every circle that begins with the least member is still ahead:  *)
(* it follows the path up to some place and then goes on to a member that  *)
(* was not tried there.                                                    *)
(***************************************************************************)
EXTENDS WaitGraph, FiniteSetTheorems, TLAPS

\* The agents whose call of visit is in progress.
visiting == {calls[k] : k \in 1..Len(calls)}

\* The agents whose group is known.
settled == seen \ onStack

\* Who reaches whom.
reached == {p \in Agents \X Agents : Reaches(Adjacent, p[1], p[2])}

\* Every agent with an index has its own, below next.
Numbered ==
    /\ \A v \in seen : index[v] \in Nat /\ index[v] < next
    /\ \A v, w \in seen : index[v] = index[w] => v = w

\* A sequence of agents in the order in which they were entered.
Rising(s) ==
    /\ \A k \in 1..Len(s) : s[k] \in seen
    /\ \A k, l \in 1..Len(s) : k < l => index[s[k]] < index[s[l]]

Placed == Rising(stack) /\ Rising(calls) /\ visiting \subseteq onStack

\* Only calls in progress have neighbours left; all others were looked at.
Looks ==
    /\ \A v \in Agents : left[v] \subseteq neighbours(v)
    /\ \A v \in Agents \ visiting : left[v] = {}
    /\ \A v \in seen : neighbours(v) \ left[v] \subseteq seen
    /\ nodes \ order \subseteq seen

\* Who has left the stack waits only on agents that have left it.
Closed == \A v \in settled : neighbours(v) \subseteq settled

\* What is on the stack reaches everything above it.
Rises == \A v, w \in onStack : index[v] <= index[w] => <<v, w>> \in reached

\* What is on the stack reaches a call in progress, at or below it.
Sinks == \A v \in onStack : \E g \in visiting : index[g] <= index[v] /\ <<v, g>> \in reached

\* low[v] is the index of an agent on the stack that v reaches.
Lowest ==
    \A v \in visiting :
        /\ low[v] <= index[v]
        /\ \E y \in onStack : index[y] = low[v] /\ <<v, y>> \in reached

\* x was entered by the call for v, or by one that has returned to it.
Owns(v, x) ==
    /\ index[v] <= index[x]
    /\ \A u \in visiting : index[u] <= index[x] => index[u] <= index[v]

\* low[v] is as low as any wait the call for v has looked at.
LowEnough ==
    \A v \in visiting : \A x, z \in onStack :
        Owns(v, x) /\ z \in neighbours(x) \ left[x] => low[v] <= index[z]

\* The groups of those who have left the stack are known.
Found == groups = {GroupOf(Adjacent, v) : v \in settled} \ {{v} : v \in Agents}

SearchInv ==
    /\ SearchTypeOK /\ Numbered /\ Placed /\ Looks /\ Closed
    /\ Rises /\ Sinks /\ Lowest /\ LowEnough /\ Found

-----------------------------------------------------------------------------
(* Graphs.                                                                 *)

\* A wait, several waits after each other, and none, lead on.
LEMMA ReachesSelf ==
    ASSUME NEW E, NEW a \in Agents
    PROVE  Reaches(E, a, a)
BY DEF Reaches

LEMMA ReachesOn ==
    ASSUME NEW E, NEW a \in Agents, NEW b \in Agents, NEW c \in Agents,
           Reaches(E, a, b), Reaches(E, b, c)
    PROVE  Reaches(E, a, c)
BY DEF Reaches

\* A set that no wait leads out of keeps what its agents reach.
LEMMA ReachesWithin ==
    ASSUME NEW E, NEW S \in SUBSET Agents, \A e \in E : e[1] \in S => e[2] \in S,
           NEW a \in S, NEW b, Reaches(E, a, b)
    PROVE  b \in S
BY DEF Reaches

\* A wait on oneself changes nothing.
LEMMA SelfWaitsReachNothing ==
    ASSUME NEW a, NEW b
    PROVE  Reaches(Adjacent, a, b) <=> Reaches(edges, a, b)
<1>1. ASSUME NEW S \in SUBSET Agents
      PROVE  (\A e \in Adjacent : e[1] \in S => e[2] \in S) <=> (\A e \in edges : e[1] \in S => e[2] \in S)
    BY DEF Adjacent
<1> QED BY <1>1 DEF Reaches

LEMMA SelfWaitsJoinNobody == Groups(edges) = Groups(Adjacent)
<1>1. ASSUME NEW a \in Agents PROVE GroupOf(edges, a) = GroupOf(Adjacent, a)
    BY SelfWaitsReachNothing DEF GroupOf
<1>2. {GroupOf(edges, a) : a \in Agents} = {GroupOf(Adjacent, a) : a \in Agents}
    BY <1>1
<1> QED BY <1>2 DEF Groups

\* The relation `reached` is reflexive and transitive, and holds every wait.
LEMMA Reached ==
    ASSUME SearchTypeOK
    PROVE  /\ \A v \in Agents : <<v, v>> \in reached
           /\ \A v, w \in Agents : w \in neighbours(v) => <<v, w>> \in reached
           /\ \A v, w, x \in Agents :
                 <<v, w>> \in reached /\ <<w, x>> \in reached => <<v, x>> \in reached
<1>1. ASSUME NEW v \in Agents PROVE <<v, v>> \in reached
    BY ReachesSelf DEF reached
<1>2. ASSUME NEW v \in Agents, NEW w \in neighbours(v) PROVE <<v, w>> \in reached
    <2>1. w \in Agents /\ <<v, w>> \in Adjacent
        BY DEF neighbours
    <2>2. Reaches(Adjacent, v, w)
        BY <2>1 DEF Reaches
    <2> QED BY <2>1, <2>2 DEF reached
<1>3. ASSUME NEW v \in Agents, NEW w \in Agents, NEW x \in Agents,
             <<v, w>> \in reached, <<w, x>> \in reached
      PROVE  <<v, x>> \in reached
    BY <1>3, ReachesOn DEF reached
<1> QED BY <1>1, <1>2, <1>3

LEMMA ReachedWithin ==
    ASSUME SearchTypeOK, NEW S \in SUBSET Agents, \A v \in S : neighbours(v) \subseteq S,
           NEW a \in S, NEW b, <<a, b>> \in reached
    PROVE  b \in S
<1>1. ASSUME NEW e \in Adjacent, e[1] \in S PROVE e[2] \in S
    BY <1>1 DEF neighbours, Adjacent, SearchTypeOK
<1>2. Reaches(Adjacent, a, b)
    BY DEF reached
<1> QED BY <1>1, <1>2, ReachesWithin

LEMMA GroupIsReached ==
    ASSUME NEW a \in Agents
    PROVE  GroupOf(Adjacent, a) = {b \in Agents : <<a, b>> \in reached /\ <<b, a>> \in reached}
BY DEF GroupOf, reached

\* The members of a group have the same group.
LEMMA GroupShared ==
    ASSUME SearchTypeOK, NEW a \in Agents, NEW b \in GroupOf(Adjacent, a)
    PROVE  b \in Agents /\ GroupOf(Adjacent, b) = GroupOf(Adjacent, a)
<1>1. b \in Agents /\ <<a, b>> \in reached /\ <<b, a>> \in reached
    BY GroupIsReached
<1>2. GroupOf(Adjacent, b) = {c \in Agents : <<b, c>> \in reached /\ <<c, b>> \in reached}
    BY <1>1, GroupIsReached
<1>3. \A c \in Agents : <<a, c>> \in reached /\ <<c, a>> \in reached
                         <=> <<b, c>> \in reached /\ <<c, b>> \in reached
    BY <1>1, Reached
<1> QED BY <1>1, <1>2, <1>3, GroupIsReached

\* Who waits on nobody and is not waited on is on his own.
LEMMA OnHisOwn ==
    ASSUME SearchTypeOK, NEW a \in Agents \ nodes
    PROVE  GroupOf(Adjacent, a) = {a}
<1>1. neighbours(a) \subseteq {a}
    BY DEF nodes, neighbours
<1>2. ASSUME NEW b \in Agents, <<a, b>> \in reached PROVE b = a
    <2>1. {a} \in SUBSET Agents /\ a \in {a} /\ \A v \in {a} : neighbours(v) \subseteq {a}
        BY <1>1
    <2>2. b \in {a}
        BY <1>2, <2>1, ReachedWithin
    <2> QED BY <2>2
<1>3. a \in Agents /\ <<a, a>> \in reached
    BY Reached
<1>4. GroupOf(Adjacent, a) = {b \in Agents : <<a, b>> \in reached /\ <<b, a>> \in reached}
    BY GroupIsReached
<1> QED BY <1>2, <1>3, <1>4

-----------------------------------------------------------------------------
(* The steps.                                                              *)

LEMMA WaitsStay ==
    ASSUME UNCHANGED edges
    PROVE  Adjacent' = Adjacent /\ reached' = reached /\ nodes' = nodes
BY DEF Adjacent, reached, nodes

\* The calls and the stack hold agents that have an index.
LEMMA OnStackSeen ==
    ASSUME SearchTypeOK, Placed
    PROVE  /\ onStack \subseteq seen /\ visiting \subseteq onStack /\ seen \subseteq Agents
           /\ settled = seen \ onStack
BY DEF SearchTypeOK, Placed, Rising, onStack, visiting, seen, settled

\* The last call is that of the agent with the highest index.
LEMMA TopIsLast ==
    ASSUME SearchTypeOK, Numbered, Placed, calls # <<>>
    PROVE  /\ Top \in visiting
           /\ \A g \in visiting : index[g] <= index[Top]
<1>1. Len(calls) \in Nat /\ Len(calls) > 0 /\ Len(calls) \in 1..Len(calls)
    BY DEF SearchTypeOK
<1>2. \A k \in 1..Len(calls) : calls[k] \in seen /\ index[calls[k]] \in Nat
    BY DEF Placed, Rising, Numbered
<1>3. \A k \in 1..Len(calls) : index[calls[k]] <= index[calls[Len(calls)]]
    BY <1>1, <1>2 DEF Placed, Rising
<1> QED BY <1>1, <1>3 DEF visiting, Top

\* The call before it is that of the agent with the next lower one.
LEMMA CallerIsNext ==
    ASSUME SearchTypeOK, Numbered, Placed, Len(calls) > 1
    PROVE  /\ Caller \in visiting /\ index[Caller] < index[Top]
           /\ \A g \in visiting \ {Top} : index[g] <= index[Caller]
<1>1. Len(calls) \in Nat /\ Len(calls) - 1 \in 1..Len(calls) /\ Len(calls) \in 1..Len(calls)
    BY DEF SearchTypeOK
<1>2. \A k \in 1..Len(calls) : calls[k] \in seen /\ index[calls[k]] \in Nat
    BY DEF Placed, Rising, Numbered
<1>3. \A k, l \in 1..Len(calls) : k < l => index[calls[k]] < index[calls[l]]
    BY DEF Placed, Rising
<1>4. ASSUME NEW k \in 1..Len(calls), calls[k] # Top PROVE index[calls[k]] <= index[Caller]
    <2>1. k # Len(calls)
        BY <1>4 DEF Top
    <2>2. k = Len(calls) - 1 \/ k < Len(calls) - 1
        BY <2>1, <1>1
    <2>3. CASE k = Len(calls) - 1
        BY <2>3, <1>1, <1>2 DEF Caller
    <2>4. CASE k < Len(calls) - 1
        BY <2>4, <1>1, <1>2, <1>3 DEF Caller
    <2> QED BY <2>2, <2>3, <2>4
<1>5. index[Caller] < index[Top]
    BY <1>1, <1>3 DEF Caller, Top
<1> QED BY <1>1, <1>4, <1>5 DEF visiting, Caller

\* What entering an agent does to the calls and the stack.
LEMMA Entered ==
    ASSUME SearchTypeOK, Numbered, Placed, NEW w \in Agents \ seen, NEW looked, Enter(w, looked)
    PROVE  /\ seen' = seen \union {w}
           /\ onStack' = onStack \union {w}
           /\ visiting' = visiting \union {w}
           /\ settled' = settled
           /\ index' = [index EXCEPT ![w] = next]
           /\ Numbered' /\ Placed'
<1> USE DEF Enter
<1>1. /\ index' = [index EXCEPT ![w] = next] /\ index \in [Agents -> Nat \union {NotSeen}]
      /\ next \in Nat /\ next' = next + 1
    BY DEF SearchTypeOK
<1>2. seen' = seen \union {w}
    BY <1>1 DEF seen, NotSeen
<1>3. /\ Len(stack) \in Nat /\ Len(stack') = Len(stack) + 1 /\ stack'[Len(stack) + 1] = w
      /\ \A i \in 1..Len(stack) : stack'[i] = stack[i]
    BY DEF SearchTypeOK
<1>4. /\ Len(calls) \in Nat /\ Len(calls') = Len(calls) + 1 /\ calls'[Len(calls) + 1] = w
      /\ \A i \in 1..Len(calls) : calls'[i] = calls[i]
    BY DEF SearchTypeOK
<1>5. onStack' = onStack \union {w}
    <2>1. 1..Len(stack') = 1..Len(stack) \union {Len(stack) + 1}
        BY <1>3
    <2> QED BY <1>3, <2>1 DEF onStack
<1>6. visiting' = visiting \union {w}
    <2>1. 1..Len(calls') = 1..Len(calls) \union {Len(calls) + 1}
        BY <1>4
    <2> QED BY <1>4, <2>1 DEF visiting
<1>7. w \notin onStack
    BY OnStackSeen
<1>8. settled' = settled
    BY <1>2, <1>5, <1>7, OnStackSeen DEF settled
<1>9. \A v \in seen : v # w /\ index'[v] = index[v] /\ index[v] \in Nat /\ index[v] < next
    BY <1>1 DEF Numbered, seen
<1>10. index'[w] = next
    BY <1>1
<1>11. Numbered'
    <2>1. \A v \in seen' : index'[v] \in Nat /\ index'[v] < next'
        BY <1>1, <1>2, <1>9, <1>10
    <2>2. \A v, x \in seen' : index'[v] = index'[x] => v = x
        BY <1>1, <1>2, <1>9, <1>10 DEF Numbered
    <2> QED BY <2>1, <2>2 DEF Numbered
<1>12. Rising(stack)'
    <2>1. \A k \in 1..Len(stack') : k \in 1..Len(stack) \/ k = Len(stack) + 1
        BY <1>3
    <2>2. \A k \in 1..Len(stack) : stack[k] \in seen
        BY DEF Placed, Rising
    <2>3. \A k, l \in 1..Len(stack) : k < l => index[stack[k]] < index[stack[l]]
        BY DEF Placed, Rising
    <2>4. \A k \in 1..Len(stack') : stack'[k] \in seen'
        BY <1>2, <1>3, <2>1, <2>2
    <2>5. ASSUME NEW k \in 1..Len(stack'), NEW l \in 1..Len(stack'), k < l
          PROVE  index'[stack'[k]] < index'[stack'[l]]
        <3>1. k \in 1..Len(stack) /\ stack'[k] = stack[k] /\ stack[k] \in seen
            BY <2>5, <2>2, <1>3
        <3>2. CASE l = Len(stack) + 1
            BY <3>1, <3>2, <1>3, <1>9, <1>10
        <3>3. CASE l \in 1..Len(stack)
            BY <3>1, <3>3, <2>5, <2>2, <2>3, <1>3, <1>9
        <3> QED BY <3>2, <3>3, <2>1
    <2> QED BY <2>4, <2>5 DEF Rising
<1>13. Rising(calls)'
    <2>1. \A k \in 1..Len(calls') : k \in 1..Len(calls) \/ k = Len(calls) + 1
        BY <1>4
    <2>2. \A k \in 1..Len(calls) : calls[k] \in seen
        BY DEF Placed, Rising
    <2>3. \A k, l \in 1..Len(calls) : k < l => index[calls[k]] < index[calls[l]]
        BY DEF Placed, Rising
    <2>4. \A k \in 1..Len(calls') : calls'[k] \in seen'
        BY <1>2, <1>4, <2>1, <2>2
    <2>5. ASSUME NEW k \in 1..Len(calls'), NEW l \in 1..Len(calls'), k < l
          PROVE  index'[calls'[k]] < index'[calls'[l]]
        <3>1. k \in 1..Len(calls) /\ calls'[k] = calls[k] /\ calls[k] \in seen
            BY <2>5, <2>2, <1>4
        <3>2. CASE l = Len(calls) + 1
            BY <3>1, <3>2, <1>4, <1>9, <1>10
        <3>3. CASE l \in 1..Len(calls)
            BY <3>1, <3>3, <2>5, <2>2, <2>3, <1>4, <1>9
        <3> QED BY <3>2, <3>3, <2>1
    <2> QED BY <2>4, <2>5 DEF Rising
<1>14. Placed'
    BY <1>5, <1>6, <1>12, <1>13 DEF Placed
<1> QED BY <1>1, <1>2, <1>5, <1>6, <1>8, <1>11, <1>14

\* The beginning of a sequence.
LEMMA Beginning ==
    ASSUME NEW S, NEW s \in Seq(S), NEW n \in Nat, n <= Len(s)
    PROVE  /\ SubSeq(s, 1, n) \in Seq(S) /\ Len(SubSeq(s, 1, n)) = n
           /\ \A k \in 1..n : SubSeq(s, 1, n)[k] = s[k]
OBVIOUS

\* What the end of a call does to the calls.
LEMMA CallEnded ==
    ASSUME SearchTypeOK, Numbered, Placed, calls # <<>>,
           calls' = SubSeq(calls, 1, Len(calls) - 1), UNCHANGED index
    PROVE  visiting' = visiting \ {Top} /\ Rising(calls)'
<1>1. /\ Len(calls) \in Nat /\ Len(calls) > 0 /\ Len(calls') = Len(calls) - 1
      /\ \A k \in 1..(Len(calls) - 1) : calls'[k] = calls[k]
    <2>1. calls \in Seq(Agents) /\ Len(calls) \in Nat /\ Len(calls) > 0
        BY DEF SearchTypeOK
    <2>2. Len(calls) - 1 \in Nat /\ Len(calls) - 1 <= Len(calls)
        BY <2>1
    <2> QED BY <2>1, <2>2, Beginning
<1>2. /\ \A k \in 1..Len(calls) : calls[k] \in seen /\ index[calls[k]] \in Nat
      /\ \A k, l \in 1..Len(calls) : k < l => index[calls[k]] < index[calls[l]]
    BY DEF Placed, Rising, Numbered
<1>3. \A k \in 1..(Len(calls) - 1) : k \in 1..Len(calls) /\ index[calls[k]] < index[Top]
    BY <1>1, <1>2 DEF Top
<1>4. \A k \in 1..Len(calls) : k \in 1..(Len(calls) - 1) \/ calls[k] = Top
    BY <1>1 DEF Top
<1>5. index[Top] \in Nat
    BY <1>1, <1>2 DEF Top
<1>6. visiting' = {calls[k] : k \in 1..(Len(calls) - 1)}
    BY <1>1 DEF visiting
<1>7. \A k \in 1..(Len(calls) - 1) : calls[k] \in visiting /\ calls[k] # Top
    BY <1>2, <1>3, <1>5 DEF visiting
<1>8. \A x \in visiting : x # Top => x \in {calls[k] : k \in 1..(Len(calls) - 1)}
    BY <1>4 DEF visiting
<1>9. visiting' = visiting \ {Top}
    BY <1>6, <1>7, <1>8
<1>10. seen' = seen
    BY DEF seen
<1>11. Rising(calls)'
    BY <1>1, <1>2, <1>3, <1>10 DEF Rising
<1> QED BY <1>9, <1>11

\* The part of the stack from Top on: who was entered no earlier than Top.
LEMMA PartOfStack ==
    ASSUME SearchTypeOK, Numbered, Placed, calls # <<>>
    PROVE  /\ Bottom \in 1..Len(stack) /\ stack[Bottom] = Top
           /\ Popped = {x \in onStack : index[Top] <= index[x]}
           /\ {stack[i] : i \in 1..(Bottom - 1)} = {x \in onStack : index[x] < index[Top]}
           /\ Len(stack) > Bottom <=> Popped # {Top}
<1>1. Top \in onStack
    BY TopIsLast, OnStackSeen
<1>2. Bottom \in 1..Len(stack) /\ stack[Bottom] = Top
    <2>1. \E i \in 1..Len(stack) : stack[i] = Top
        BY <1>1 DEF onStack
    <2> QED BY <2>1 DEF Bottom
<1>3. Len(stack) \in Nat /\ Bottom \in Nat
    BY <1>2 DEF SearchTypeOK
<1>4. /\ \A k \in 1..Len(stack) : index[stack[k]] \in Nat
      /\ \A k, l \in 1..Len(stack) : k < l => index[stack[k]] < index[stack[l]]
    BY DEF Placed, Rising, Numbered
<1>5. \A k \in 1..Len(stack) : k < Bottom => index[stack[k]] < index[Top]
    BY <1>2, <1>4
<1>6. \A k \in 1..Len(stack) : Bottom < k => index[Top] < index[stack[k]]
    BY <1>2, <1>4
<1>7. index[Top] \in Nat
    BY <1>2, <1>4
<1>8. \A k \in 1..Len(stack) : k \in Bottom..Len(stack) <=> index[Top] <= index[stack[k]]
    BY <1>2, <1>3, <1>4, <1>5, <1>6, <1>7
<1>9. \A k \in 1..Len(stack) : k \in 1..(Bottom - 1) <=> index[stack[k]] < index[Top]
    BY <1>2, <1>3, <1>4, <1>5, <1>6, <1>7
<1>10. (Bottom..Len(stack)) \subseteq 1..Len(stack) /\ (1..(Bottom - 1)) \subseteq 1..Len(stack)
    BY <1>2, <1>3
<1>11. Popped = {x \in onStack : index[Top] <= index[x]}
    BY <1>8, <1>10 DEF Popped, onStack
<1>12. {stack[i] : i \in 1..(Bottom - 1)} = {x \in onStack : index[x] < index[Top]}
    BY <1>9, <1>10 DEF onStack
<1>13. ASSUME Len(stack) > Bottom PROVE Popped # {Top}
    <2>1. Len(stack) \in Bottom..Len(stack) /\ Len(stack) \in 1..Len(stack)
        BY <1>2, <1>3, <1>13
    <2>2. stack[Len(stack)] \in Popped /\ stack[Len(stack)] # Top
        BY <2>1, <1>13, <1>6, <1>7 DEF Popped
    <2> QED BY <2>2
<1>14. ASSUME ~(Len(stack) > Bottom) PROVE Popped = {Top}
    <2>1. \A i : i \in Bottom..Len(stack) <=> i = Bottom
        BY <1>2, <1>3, <1>14
    <2> QED BY <2>1, <1>2 DEF Popped
<1> QED BY <1>2, <1>11, <1>12, <1>13, <1>14

\* What taking that part off does to the stack.
LEMMA StackPopped ==
    ASSUME SearchTypeOK, Numbered, Placed, calls # <<>>,
           stack' = SubSeq(stack, 1, Bottom - 1), UNCHANGED index
    PROVE  onStack' = {x \in onStack : index[x] < index[Top]} /\ Rising(stack)'
<1>1. Len(stack) \in Nat /\ Bottom \in 1..Len(stack)
    BY PartOfStack DEF SearchTypeOK
<1>2. /\ Len(stack') = Bottom - 1
      /\ \A k \in 1..(Bottom - 1) : stack'[k] = stack[k]
    BY <1>1 DEF SearchTypeOK
<1>3. onStack' = {stack[i] : i \in 1..(Bottom - 1)}
    BY <1>2 DEF onStack
<1>4. onStack' = {x \in onStack : index[x] < index[Top]}
    BY <1>3, PartOfStack
<1>5. seen' = seen
    BY DEF seen
<1>6. Rising(stack)
    BY DEF Placed
<1>7. Rising(stack)'
    BY <1>1, <1>2, <1>5, <1>6 DEF Rising
<1> QED BY <1>4, <1>7

-----------------------------------------------------------------------------
(* Types.                                                                  *)

\* A step searches, shows, or does nothing.
LEMMA StepKinds ==
    ASSUME [Next]_vars
    PROVE  \/ /\ \/ \E v \in Agents : Begin(v) \/ Descend(v) \/ Back(v)
                 \/ Leave
              /\ UNCHANGED showing
           \/ /\ \/ \E m \in Agents : Walk(m)
                 \/ Ordered \/ GiveUp
                 \/ \E g \in groups : Take(g)
              /\ UNCHANGED <<edges, order, searching>>
           \/ UNCHANGED vars
BY DEF Next, Begin, Descend, Back, Leave, Walk, Ordered, GiveUp, Take, Return

LEMMA TypeOKInit == Init => SearchTypeOK
BY DEF Init, SearchTypeOK, nodes

LEMMA EnterTypes ==
    ASSUME SearchTypeOK, NEW w \in Agents, NEW looked \in [Agents -> SUBSET Agents], Enter(w, looked)
    PROVE  /\ calls' \in Seq(Agents) /\ stack' \in Seq(Agents) /\ next' \in Nat
           /\ left' \in [Agents -> SUBSET Agents]
           /\ index' \in [Agents -> Nat \union {NotSeen}]
           /\ low' \in [Agents -> Nat \union {NotSeen}]
           /\ groups' \subseteq SUBSET Agents
<1>1. neighbours(w) \in SUBSET Agents
    BY DEF neighbours
<1> QED BY <1>1 DEF Enter, SearchTypeOK

LEMMA TopInAgents ==
    ASSUME SearchTypeOK, calls # <<>>
    PROVE  Top \in Agents
BY DEF SearchTypeOK, Top

LEMMA CallerInAgents ==
    ASSUME SearchTypeOK, Len(calls) > 1
    PROVE  Caller \in Agents
<1>1. Len(calls) \in Nat /\ Len(calls) - 1 \in 1..Len(calls)
    BY DEF SearchTypeOK
<1> QED BY <1>1 DEF SearchTypeOK, Caller

LEMMA SmallerTypes ==
    ASSUME NEW a \in Nat \union {NotSeen}, NEW b \in Nat \union {NotSeen}
    PROVE  Smaller(a, b) \in Nat \union {NotSeen}
BY DEF Smaller

\* Every step keeps the types.
LEMMA TypeOKNext ==
    ASSUME SearchTypeOK, Placed, Numbered, [Next]_vars
    PROVE  SearchTypeOK'
<1>1. ASSUME NEW v \in Agents, Begin(v) PROVE SearchTypeOK'
    <2>1. edges' = edges /\ order' = order \ {v}
        BY <1>1 DEF Begin
    <2>2. CASE v \in seen
        BY <1>1, <2>1, <2>2 DEF Begin, searching, SearchTypeOK
    <2>3. CASE v \notin seen
        <3>1. Enter(v, left) /\ left \in [Agents -> SUBSET Agents]
            BY <1>1, <2>3 DEF Begin, SearchTypeOK
        <3> QED BY <2>1, <3>1, EnterTypes DEF SearchTypeOK
    <2> QED BY <2>2, <2>3
<1>2. ASSUME NEW w \in Agents, Descend(w) PROVE SearchTypeOK'
    <2>1. /\ calls # <<>> /\ Top \in Agents /\ Enter(w, Looked(w)) /\ edges' = edges /\ order' = order
        BY <1>2, TopInAgents DEF Descend, ComesTo
    <2>2. Looked(w) \in [Agents -> SUBSET Agents]
        BY <2>1 DEF Looked, SearchTypeOK
    <2> QED BY <2>1, <2>2, EnterTypes DEF SearchTypeOK
<1>3. ASSUME NEW w \in Agents, Back(w) PROVE SearchTypeOK'
    <2>1. calls # <<>> /\ Top \in Agents
        BY <1>3, TopInAgents DEF Back, ComesTo
    <2>2. Looked(w) \in [Agents -> SUBSET Agents]
        BY <2>1 DEF Looked, SearchTypeOK
    <2>3. Smaller(low[Top], index[w]) \in Nat \union {NotSeen}
        BY <2>1, SmallerTypes DEF SearchTypeOK
    <2>4. low' \in [Agents -> Nat \union {NotSeen}]
        BY <1>3, <2>1, <2>3 DEF Back, SearchTypeOK
    <2> QED BY <1>3, <2>2, <2>4 DEF Back, SearchTypeOK
<1>4. ASSUME Leave PROVE SearchTypeOK'
    <2>1. calls # <<>> /\ Top \in Agents
        BY <1>4, TopInAgents DEF Leave
    <2>2. calls' \in Seq(Agents)
        <3>1. calls \in Seq(Agents) /\ Len(calls) - 1 \in Nat /\ Len(calls) - 1 <= Len(calls)
            BY <2>1 DEF SearchTypeOK
        <3>2. calls' = SubSeq(calls, 1, Len(calls) - 1)
            BY <1>4 DEF Leave
        <3> QED BY <3>1, <3>2, Beginning
    <2>3. Bottom \in 1..Len(stack) /\ stack \in Seq(Agents)
        BY <2>1, PartOfStack DEF SearchTypeOK
    <2>4. stack' \in Seq(Agents)
        <3>1. Bottom - 1 \in Nat /\ Bottom - 1 <= Len(stack)
            BY <2>3
        <3>2. SubSeq(stack, 1, Bottom - 1) \in Seq(Agents)
            BY <2>3, <3>1, Beginning
        <3> QED BY <1>4, <2>3, <3>2 DEF Leave
    <2>5. Popped \subseteq Agents
        BY <2>1, PartOfStack, OnStackSeen
    <2>6. groups' \subseteq SUBSET Agents
        BY <1>4, <2>5 DEF Leave, SearchTypeOK
    <2>7. low' \in [Agents -> Nat \union {NotSeen}]
        <3>1. CASE Len(calls) > 1
            <4>1. Caller \in Agents
                BY <3>1, CallerInAgents
            <4>2. Smaller(low[Caller], low[Top]) \in Nat \union {NotSeen}
                BY <2>1, <4>1, SmallerTypes DEF SearchTypeOK
            <4> QED BY <1>4, <3>1, <4>1, <4>2 DEF Leave, SearchTypeOK
        <3>2. CASE ~(Len(calls) > 1)
            BY <1>4, <3>2 DEF Leave, SearchTypeOK
        <3> QED BY <3>1, <3>2
    <2> QED BY <1>4, <2>2, <2>4, <2>6, <2>7 DEF Leave, SearchTypeOK
<1>5. ASSUME UNCHANGED <<edges, order, searching>> PROVE SearchTypeOK'
    BY <1>5 DEF searching, SearchTypeOK
<1>6. UNCHANGED vars => UNCHANGED <<edges, order, searching>>
    BY DEF vars
<1> QED BY <1>1, <1>2, <1>3, <1>4, <1>5, <1>6, StepKinds

-----------------------------------------------------------------------------
(* The initial states.                                                     *)

LEMMA SearchInvInit == Init => SearchInv
<1> SUFFICES ASSUME Init PROVE SearchInv
    OBVIOUS
<1>1. SearchTypeOK
    BY TypeOKInit
<1>2. calls = <<>> /\ stack = <<>> /\ Len(calls) = 0 /\ Len(stack) = 0
    BY DEF Init
<1>3. seen = {} /\ onStack = {} /\ visiting = {} /\ settled = {}
    BY <1>2 DEF Init, seen, onStack, visiting, settled
<1>4. Numbered
    BY <1>3 DEF Numbered
<1>5. Placed
    BY <1>2, <1>3 DEF Placed, Rising
<1>6. Looks
    <2>1. \A v \in Agents : left[v] = {}
        BY DEF Init
    <2>2. nodes \ order \subseteq seen
        BY DEF Init
    <2> QED BY <1>3, <2>1, <2>2 DEF Looks
<1>7. Closed /\ Rises /\ Sinks /\ Lowest /\ LowEnough
    BY <1>3 DEF Closed, Rises, Sinks, Lowest, LowEnough
<1>8. Found
    <2>1. {GroupOf(Adjacent, v) : v \in {}} = {} /\ groups = {}
        BY DEF Init
    <2> QED BY <1>3, <2>1 DEF Found
<1> QED BY <1>1, <1>4, <1>5, <1>6, <1>7, <1>8 DEF SearchInv

-----------------------------------------------------------------------------
(* An agent is entered that everything on the stack reaches.               *)

LEMMA EnterKeeps ==
    ASSUME SearchInv, UNCHANGED edges,
           NEW w \in Agents \ seen, NEW looked \in [Agents -> SUBSET Agents], Enter(w, looked),
           \A v \in Agents : looked[v] \subseteq left[v] /\ left[v] \ looked[v] \subseteq {w},
           \A v \in onStack : <<v, w>> \in reached,
           nodes \ order' \subseteq seen \union {w}
    PROVE  /\ Numbered' /\ Placed' /\ Looks' /\ Closed'
           /\ Rises' /\ Sinks' /\ Lowest' /\ LowEnough' /\ Found'
<1> USE DEF SearchInv
<1>1. /\ seen' = seen \union {w} /\ onStack' = onStack \union {w}
      /\ visiting' = visiting \union {w} /\ settled' = settled
      /\ Numbered' /\ Placed'
    BY Entered
<1>2. Adjacent' = Adjacent /\ reached' = reached /\ nodes' = nodes
    BY WaitsStay
<1>3. \A v \in Agents : neighbours(v)' = neighbours(v)
    BY <1>2 DEF neighbours
<1>4. /\ onStack \subseteq seen /\ visiting \subseteq onStack /\ seen \subseteq Agents
      /\ settled = seen \ onStack
    BY OnStackSeen
<1>5. \A v \in seen : v # w /\ index'[v] = index[v] /\ index[v] \in Nat /\ index[v] < next
    BY <1>4 DEF Enter, SearchTypeOK, Numbered
<1>6. index'[w] = next /\ low'[w] = next /\ next \in Nat /\ left'[w] = neighbours(w)
    BY DEF Enter, SearchTypeOK
<1>7. \A v \in Agents : v # w => low'[v] = low[v] /\ left'[v] = looked[v]
    BY DEF Enter, SearchTypeOK
<1>8. Looks'
    <2>1. ASSUME NEW v \in Agents PROVE left'[v] \subseteq neighbours(v)
        BY <1>6, <1>7 DEF Looks
    <2>2. ASSUME NEW v \in Agents \ visiting' PROVE left'[v] = {}
        BY <1>1, <1>7 DEF Looks
    <2>3. ASSUME NEW v \in seen' PROVE neighbours(v) \ left'[v] \subseteq seen'
        BY <1>1, <1>4, <1>6, <1>7 DEF Looks
    <2>4. nodes \ order' \subseteq seen'
        BY <1>1
    <2> QED BY <2>1, <2>2, <2>3, <2>4, <1>1, <1>2, <1>3, <1>4 DEF Looks
<1>9. Closed'
    BY <1>1, <1>3, <1>4 DEF Closed
<1>10. Rises'
    <2>1. ASSUME NEW v \in onStack', NEW x \in onStack', index'[v] <= index'[x]
          PROVE  <<v, x>> \in reached
        <3>1. CASE x = w /\ v = w
            BY <3>1, Reached
        <3>2. CASE x = w /\ v # w
            BY <3>2, <1>1
        <3>3. CASE x # w
            <4>1. x \in onStack /\ index'[x] < next
                BY <3>3, <1>1, <1>4, <1>5
            <4>2. v \in onStack
                BY <4>1, <2>1, <1>1, <1>4, <1>5, <1>6
            <4> QED BY <4>1, <4>2, <2>1, <1>4, <1>5 DEF Rises
        <3> QED BY <3>1, <3>2, <3>3
    <2> QED BY <2>1, <1>2 DEF Rises
<1>11. Sinks'
    <2>1. ASSUME NEW v \in onStack'
          PROVE  \E g \in visiting' : index'[g] <= index'[v] /\ <<v, g>> \in reached
        <3>1. CASE v = w
            BY <3>1, <1>1, <1>6, Reached
        <3>2. CASE v # w
            <4>1. v \in onStack
                BY <3>2, <1>1
            <4>2. PICK g \in visiting : index[g] <= index[v] /\ <<v, g>> \in reached
                BY <4>1 DEF Sinks
            <4> QED BY <4>1, <4>2, <1>1, <1>4, <1>5
        <3> QED BY <3>1, <3>2
    <2> QED BY <2>1, <1>2 DEF Sinks
<1>12. Lowest'
    <2>1. ASSUME NEW v \in visiting'
          PROVE  /\ low'[v] <= index'[v]
                 /\ \E y \in onStack' : index'[y] = low'[v] /\ <<v, y>> \in reached
        <3>1. CASE v = w
            BY <3>1, <1>1, <1>6, Reached
        <3>2. CASE v # w
            <4>1. v \in visiting /\ low'[v] = low[v] /\ index'[v] = index[v]
                BY <3>2, <1>1, <1>4, <1>5, <1>7
            <4>2. PICK y \in onStack : index[y] = low[v] /\ <<v, y>> \in reached
                BY <4>1 DEF Lowest
            <4> QED BY <4>1, <4>2, <1>1, <1>4, <1>5 DEF Lowest
        <3> QED BY <3>1, <3>2
    <2> QED BY <2>1, <1>2 DEF Lowest
<1>13. LowEnough'
    <2>1. ASSUME NEW v \in visiting', NEW x \in onStack', NEW z \in onStack',
                 Owns(v, x)', z \in neighbours(x) \ left'[x]
          PROVE  low'[v] <= index'[z]
        <3>1. x # w
            BY <2>1, <1>6
        <3>2. x \in onStack /\ index'[x] = index[x] /\ index[x] < next /\ x \in Agents
            BY <3>1, <1>1, <1>4, <1>5
        <3>3. v # w
            BY <2>1, <3>2, <1>4, <1>5, <1>6 DEF Owns
        <3>4. v \in visiting /\ low'[v] = low[v] /\ index'[v] = index[v] /\ index[v] < next
            BY <3>3, <1>1, <1>4, <1>5, <1>7
        <3>5. low[v] <= index[v] /\ low[v] \in Int
            <4>1. PICK y \in onStack : index[y] = low[v]
                BY <3>4 DEF Lowest
            <4> QED BY <4>1, <3>4, <1>4, <1>5 DEF Lowest
        <3>6. CASE z = w
            BY <3>4, <3>5, <3>6, <1>4, <1>5, <1>6
        <3>7. CASE z # w
            <4>1. z \in onStack /\ index'[z] = index[z]
                BY <3>7, <1>1, <1>4, <1>5
            <4>2. z \notin left[x]
                BY <2>1, <3>1, <3>2, <3>7, <1>7
            <4>3. Owns(v, x)
                <5>1. index[v] <= index[x]
                    BY <2>1, <3>2, <3>4 DEF Owns
                <5>2. ASSUME NEW u \in visiting, index[u] <= index[x] PROVE index[u] <= index[v]
                    BY <2>1, <5>2, <3>2, <3>4, <1>1, <1>4, <1>5 DEF Owns
                <5> QED BY <5>1, <5>2 DEF Owns
            <4> QED BY <2>1, <3>2, <3>4, <4>1, <4>2, <4>3 DEF LowEnough
        <3> QED BY <3>6, <3>7
    <2> QED BY <2>1, <1>1, <1>3, <1>4 DEF LowEnough
<1>14. Found'
    BY <1>1, <1>2 DEF Found, Enter
<1> QED BY <1>1, <1>8, <1>9, <1>10, <1>11, <1>12, <1>13, <1>14

-----------------------------------------------------------------------------
(* An agent that was met before.                                           *)

LEMMA BackKeeps ==
    ASSUME SearchInv, NEW w \in Agents, Back(w)
    PROVE  /\ Numbered' /\ Placed' /\ Looks' /\ Closed'
           /\ Rises' /\ Sinks' /\ Lowest' /\ LowEnough' /\ Found'
<1> USE DEF SearchInv
<1>1. /\ UNCHANGED <<edges, order, calls, index, next, stack, groups>>
      /\ calls # <<>> /\ w \in seen /\ w \in left[Top] /\ left' = [left EXCEPT ![Top] = @ \ {w}]
    BY DEF Back, ComesTo, First, Looked
<1>2. Adjacent' = Adjacent /\ reached' = reached /\ nodes' = nodes
    BY <1>1, WaitsStay
<1>3. \A v \in Agents : neighbours(v)' = neighbours(v)
    BY <1>2 DEF neighbours
<1>4. /\ seen' = seen /\ onStack' = onStack /\ visiting' = visiting /\ settled' = settled
    BY <1>1 DEF seen, onStack, visiting, settled
<1>5. /\ onStack \subseteq seen /\ visiting \subseteq onStack /\ seen \subseteq Agents
      /\ \A v \in seen : index[v] \in Nat
    BY OnStackSeen DEF Numbered
<1>6. Top \in visiting /\ Top \in Agents /\ \A g \in visiting : index[g] <= index[Top]
    BY <1>1, <1>5, TopIsLast
<1>7. w \in neighbours(Top) /\ <<Top, w>> \in reached
    BY <1>1, <1>6, Reached DEF Looks
<1>8. /\ left'[Top] = left[Top] \ {w}
      /\ \A v \in Agents : v # Top => left'[v] = left[v]
    BY <1>1, <1>6 DEF SearchTypeOK
<1>9. /\ \A v \in Agents : v # Top => low'[v] = low[v]
      /\ w \notin onStack => low'[Top] = low[Top]
      /\ w \in onStack => low'[Top] = Smaller(low[Top], index[w])
    BY <1>6 DEF Back, Counts, SearchTypeOK
<1>10. \A v \in visiting : low[v] \in Nat
    <2>1. ASSUME NEW v \in visiting PROVE low[v] \in Nat
        <3>1. PICK y \in onStack : index[y] = low[v]
            BY DEF Lowest
        <3> QED BY <3>1, <1>5
    <2> QED BY <2>1
<1>11. Numbered' /\ Closed' /\ Rises' /\ Sinks'
    <2>1. Numbered'
        BY <1>1, <1>4 DEF Numbered
    <2>2. Closed'
        BY <1>3, <1>4, <1>5 DEF Closed, settled
    <2>3. Rises'
        BY <1>1, <1>2, <1>4 DEF Rises
    <2>4. Sinks'
        BY <1>1, <1>2, <1>4 DEF Sinks
    <2> QED BY <2>1, <2>2, <2>3, <2>4
<1>12. Placed'
    BY <1>1, <1>4 DEF Placed, Rising
<1>13. Looks'
    <2>1. ASSUME NEW v \in Agents PROVE left'[v] \subseteq neighbours(v)
        BY <1>8 DEF Looks
    <2>2. ASSUME NEW v \in Agents \ visiting PROVE left'[v] = {}
        BY <1>6, <1>8 DEF Looks
    <2>3. ASSUME NEW v \in seen PROVE neighbours(v) \ left'[v] \subseteq seen
        <3>1. neighbours(v) \ left[v] \subseteq seen /\ v \in Agents
            BY <1>5 DEF Looks
        <3>2. left[v] \subseteq left'[v] \union {w}
            BY <3>1, <1>8
        <3> QED BY <3>1, <3>2, <1>1
    <2>4. nodes \ order \subseteq seen
        BY DEF Looks
    <2> QED BY <2>1, <2>2, <2>3, <2>4, <1>1, <1>2, <1>3, <1>4, <1>5 DEF Looks
<1>14. \A v \in visiting : low'[v] <= low[v] /\ low'[v] \in Nat
    <2>1. ASSUME NEW v \in visiting, v # Top PROVE low'[v] <= low[v] /\ low'[v] \in Nat
        BY <2>1, <1>5, <1>9, <1>10
    <2>2. low'[Top] <= low[Top] /\ low'[Top] \in Nat
        BY <1>5, <1>6, <1>9, <1>10 DEF Smaller
    <2> QED BY <2>1, <2>2
<1>15. Lowest'
    <2>1. ASSUME NEW v \in visiting
          PROVE  /\ low'[v] <= index[v]
                 /\ \E y \in onStack : index[y] = low'[v] /\ <<v, y>> \in reached
        <3>1. low[v] <= index[v] /\ index[v] \in Nat
            BY <1>5 DEF Lowest
        <3>2. low'[v] <= index[v]
            BY <3>1, <1>10, <1>14
        <3>3. low'[v] = low[v] \/ (v = Top /\ w \in onStack /\ low'[v] = index[w])
            BY <1>5, <1>9 DEF Smaller
        <3>4. CASE low'[v] = low[v]
            BY <3>2, <3>4 DEF Lowest
        <3>5. CASE v = Top /\ w \in onStack /\ low'[v] = index[w]
            BY <3>2, <3>5, <1>7
        <3> QED BY <3>3, <3>4, <3>5
    <2> QED BY <2>1, <1>1, <1>2, <1>4 DEF Lowest
<1>16. LowEnough'
    <2>1. ASSUME NEW v \in visiting, NEW x \in onStack, NEW z \in onStack,
                 Owns(v, x), z \in neighbours(x) \ left'[x]
          PROVE  low'[v] <= index[z]
        <3>1. index[z] \in Nat /\ low[v] \in Nat /\ low'[v] \in Nat /\ low'[v] <= low[v]
            BY <1>5, <1>10, <1>14
        <3>2. CASE z \notin left[x]
            <4>1. low[v] <= index[z]
                BY <2>1, <3>2 DEF LowEnough
            <4> QED BY <3>1, <4>1
        <3>3. CASE z \in left[x]
            <4>1. x = Top /\ z = w
                BY <2>1, <3>3, <1>5, <1>8
            <4>2. index[v] = index[Top]
                BY <2>1, <4>1, <1>5, <1>6 DEF Owns
            <4>3. v = Top
                BY <4>2, <1>5, <1>6 DEF Numbered
            <4> QED BY <3>1, <4>1, <4>3, <1>5, <1>6, <1>9, <1>10 DEF Smaller
        <3> QED BY <3>2, <3>3
    <2>2. \A v \in visiting, x \in onStack : Owns(v, x)' <=> Owns(v, x)
        BY <1>1, <1>4 DEF Owns
    <2> QED BY <2>1, <2>2, <1>1, <1>3, <1>4, <1>5 DEF LowEnough
<1>17. Found'
    BY <1>1, <1>2, <1>4 DEF Found
<1> QED BY <1>11, <1>12, <1>13, <1>15, <1>16, <1>17

-----------------------------------------------------------------------------
(* The end of a call.                                                      *)

\* What holds of the agent t on top and of the part of the stack above it.
LEMMA AtTop ==
    ASSUME SearchInv, calls # <<>>, left[Top] = {}
    PROVE  /\ Top \in visiting /\ Top \in onStack /\ Top \in Agents
           /\ \A g \in visiting : index[g] <= index[Top]
           /\ \A x \in onStack : index[Top] <= index[x] => Owns(Top, x) /\ left[x] = {}
<1> USE DEF SearchInv
<1>1. /\ onStack \subseteq seen /\ visiting \subseteq onStack /\ seen \subseteq Agents
      /\ \A v \in seen : index[v] \in Nat
    BY OnStackSeen DEF Numbered
<1>2. Top \in visiting /\ \A g \in visiting : index[g] <= index[Top]
    BY TopIsLast
<1>3. ASSUME NEW x \in onStack, index[Top] <= index[x] PROVE Owns(Top, x) /\ left[x] = {}
    <2>1. Owns(Top, x)
        BY <1>2, <1>3 DEF Owns
    <2>2. CASE x \in visiting
        <3>1. index[x] = index[Top]
            BY <1>1, <1>2, <1>3, <2>2
        <3>2. x = Top
            BY <1>1, <1>2, <3>1 DEF Numbered
        <3> QED BY <2>1, <3>2
    <2>3. CASE x \notin visiting
        BY <1>1, <2>1, <2>3 DEF Looks
    <2> QED BY <2>2, <2>3
<1> QED BY <1>1, <1>2, <1>3

\* The caller's low becomes no higher than that of the agent on top; any other
\* stays.
LEMMA LowPassedOn ==
    ASSUME SearchInv, Leave
    PROVE  /\ visiting' = visiting \ {Top} /\ Rising(calls)'
           /\ \A v \in visiting : low[v] \in Nat /\ index[v] \in Nat
           /\ \A v \in visiting : v # Caller => low'[v] = low[v]
           /\ visiting' # {} =>
                 /\ Caller \in visiting' /\ index[Caller] < index[Top]
                 /\ \A g \in visiting' : index[g] <= index[Caller]
                 /\ low'[Caller] = Smaller(low[Caller], low[Top])
<1> USE DEF SearchInv
<1>1. calls # <<>> /\ UNCHANGED index /\ calls' = SubSeq(calls, 1, Len(calls) - 1)
    BY DEF Leave
<1>2. visiting' = visiting \ {Top} /\ Rising(calls)'
    BY <1>1, CallEnded
<1>3. onStack \subseteq seen /\ visiting \subseteq onStack /\ seen \subseteq Agents
    BY OnStackSeen
<1>4. ASSUME NEW v \in visiting PROVE low[v] \in Nat /\ index[v] \in Nat
    <2>1. PICK y \in onStack : index[y] = low[v]
        BY DEF Lowest
    <2> QED BY <2>1, <1>3 DEF Numbered
<1>5. low' = IF Len(calls) > 1 THEN [low EXCEPT ![Caller] = Smaller(@, low[Top])] ELSE low
    BY DEF Leave
<1>6. ASSUME NEW v \in visiting, v # Caller PROVE low'[v] = low[v]
    BY <1>3, <1>5, <1>6 DEF SearchTypeOK
<1>7. ASSUME visiting' # {}
      PROVE  /\ Caller \in visiting' /\ index[Caller] < index[Top]
             /\ \A g \in visiting' : index[g] <= index[Caller]
             /\ low'[Caller] = Smaller(low[Caller], low[Top])
    <2>1. Len(calls) > 1
        <3>1. PICK g \in visiting : g # Top
            BY <1>2, <1>7
        <3>2. PICK k \in 1..Len(calls) : calls[k] = g
            BY <3>1 DEF visiting
        <3>3. Len(calls) \in Nat /\ k # Len(calls)
            BY <3>1, <3>2 DEF Top, SearchTypeOK
        <3> QED BY <3>2, <3>3
    <2>2. /\ Caller \in visiting /\ index[Caller] < index[Top]
          /\ \A g \in visiting \ {Top} : index[g] <= index[Caller]
        BY <2>1, CallerIsNext
    <2>3. Caller # Top
        BY <2>2, <1>4
    <2>4. low'[Caller] = Smaller(low[Caller], low[Top])
        BY <2>1, <2>2, <1>3, <1>5 DEF SearchTypeOK
    <2> QED BY <2>2, <2>3, <2>4, <1>2
<1> QED BY <1>2, <1>4, <1>6, <1>7

\* When low = index, the part of the stack from Top on is the group of each of
\* its members.
LEMMA PartIsGroup ==
    ASSUME SearchInv, calls # <<>>, left[Top] = {}, low[Top] = index[Top],
           NEW part, part = {x \in onStack : index[Top] <= index[x]}
    PROVE  /\ Top \in part
           /\ \A v \in part : neighbours(v) \subseteq part \union settled
           /\ \A v \in part : GroupOf(Adjacent, v) = part
<1> USE DEF SearchInv
<1>1. /\ onStack \subseteq seen /\ visiting \subseteq onStack /\ seen \subseteq Agents
      /\ settled = seen \ onStack /\ \A v \in seen : index[v] \in Nat
    BY OnStackSeen DEF Numbered
<1>2. /\ Top \in visiting /\ Top \in onStack /\ Top \in Agents
      /\ \A g \in visiting : index[g] <= index[Top]
      /\ \A x \in part : Owns(Top, x) /\ left[x] = {}
    BY AtTop
<1>3. Top \in part
    BY <1>1, <1>2
<1>4. ASSUME NEW v \in part, NEW w \in neighbours(v) PROVE w \in part \union settled
    <2>1. v \in seen /\ v \in onStack /\ left[v] = {}
        BY <1>1, <1>2
    <2>2. w \in seen
        BY <2>1 DEF Looks
    <2>3. CASE w \in onStack
        <3>1. low[Top] <= index[w]
            BY <2>1, <2>3, <1>2 DEF LowEnough
        <3> QED BY <2>3, <3>1
    <2> QED BY <2>2, <2>3, <1>1
<1>5. ASSUME NEW b \in Agents, <<Top, b>> \in reached PROVE b \in part \union settled
    <2>1. part \union settled \in SUBSET Agents
        BY <1>1
    <2>2. \A v \in part \union settled : neighbours(v) \subseteq part \union settled
        BY <1>4 DEF Closed
    <2> QED BY <1>3, <1>5, <2>1, <2>2, ReachedWithin
<1>6. ASSUME NEW b \in settled, <<b, Top>> \in reached PROVE FALSE
    <2>1. settled \in SUBSET Agents /\ \A v \in settled : neighbours(v) \subseteq settled
        BY <1>1 DEF Closed
    <2>2. Top \in settled
        BY <1>6, <2>1, ReachedWithin
    <2> QED BY <2>2, <1>1, <1>2
<1>7. ASSUME NEW x \in part PROVE <<Top, x>> \in reached /\ <<x, Top>> \in reached
    <2>1. <<Top, x>> \in reached
        BY <1>2 DEF Rises
    <2>2. PICK g \in visiting : <<x, g>> \in reached
        BY DEF Sinks
    <2>3. <<g, Top>> \in reached
        BY <1>1, <1>2 DEF Rises
    <2>4. x \in Agents /\ g \in Agents
        BY <1>1
    <2>5. <<x, Top>> \in reached
        BY <2>2, <2>3, <2>4, <1>2, Reached
    <2> QED BY <2>1, <2>5
<1>8. GroupOf(Adjacent, Top) = part
    <2>1. GroupOf(Adjacent, Top) = {b \in Agents : <<Top, b>> \in reached /\ <<b, Top>> \in reached}
        BY <1>2, GroupIsReached
    <2>2. part \subseteq Agents
        BY <1>1
    <2> QED BY <2>1, <2>2, <1>5, <1>6, <1>7
<1>9. ASSUME NEW v \in part PROVE GroupOf(Adjacent, v) = part
    <2>1. v \in GroupOf(Adjacent, Top)
        BY <1>8
    <2> QED BY <2>1, <1>2, <1>8, GroupShared
<1> QED BY <1>3, <1>4, <1>9

\* The call ends with low = index: its group leaves the stack.
LEMMA GroupLeaves ==
    ASSUME SearchInv, Leave, low[Top] = index[Top]
    PROVE  Placed' /\ Closed' /\ Rises' /\ Sinks' /\ Lowest' /\ LowEnough' /\ Found'
<1> USE DEF SearchInv
<1> DEFINE part == {x \in onStack : index[Top] <= index[x]}
<1>1. /\ calls # <<>> /\ left[Top] = {} /\ UNCHANGED <<edges, order, left, index, next>>
      /\ stack' = SubSeq(stack, 1, Bottom - 1)
      /\ groups' = IF Len(stack) > Bottom THEN groups \union {Popped} ELSE groups
    BY DEF Leave
<1>2. Adjacent' = Adjacent /\ reached' = reached
    BY <1>1, WaitsStay
<1>3. \A v \in Agents : neighbours(v)' = neighbours(v)
    BY <1>2 DEF neighbours
<1>4. /\ onStack \subseteq seen /\ visiting \subseteq onStack /\ seen \subseteq Agents
      /\ settled = seen \ onStack /\ \A v \in seen : index[v] \in Nat
    BY OnStackSeen DEF Numbered
<1>5. /\ Top \in visiting /\ Top \in onStack /\ Top \in Agents
      /\ \A g \in visiting : index[g] <= index[Top]
    BY <1>1, AtTop
<1>6. /\ visiting' = visiting \ {Top} /\ Rising(calls)'
      /\ \A v \in visiting : low[v] \in Nat
      /\ \A v \in visiting : v # Caller => low'[v] = low[v]
      /\ visiting' # {} => /\ Caller \in visiting' /\ index[Caller] < index[Top]
                           /\ low'[Caller] = Smaller(low[Caller], low[Top])
    BY LowPassedOn
<1>7. /\ onStack' = {x \in onStack : index[x] < index[Top]} /\ Rising(stack)'
      /\ Popped = part /\ (Len(stack) > Bottom <=> Popped # {Top})
    BY <1>1, PartOfStack, StackPopped
<1>8. seen' = seen
    BY <1>1 DEF seen
<1>9. /\ Top \in part
      /\ \A v \in part : neighbours(v) \subseteq part \union settled
      /\ \A v \in part : GroupOf(Adjacent, v) = part
    BY <1>1, PartIsGroup
<1>10. settled' = settled \union part
    BY <1>4, <1>5, <1>7, <1>8 DEF settled
<1>11. \A g \in visiting' : index[g] < index[Top]
    BY <1>4, <1>5, <1>6 DEF Numbered
<1>12. Placed'
    <2>1. visiting' \subseteq onStack'
        BY <1>4, <1>6, <1>7, <1>11
    <2> QED BY <2>1, <1>6, <1>7 DEF Placed
<1>13. Closed'
    <2>1. \A v \in settled \union part : neighbours(v) \subseteq settled \union part
        BY <1>9 DEF Closed
    <2>2. settled \union part \subseteq Agents
        BY <1>4
    <2> QED BY <2>1, <2>2, <1>3, <1>10 DEF Closed
<1>14. Rises'
    BY <1>1, <1>2, <1>7 DEF Rises
<1>15. Sinks'
    <2>1. ASSUME NEW v \in onStack'
          PROVE  \E g \in visiting' : index[g] <= index[v] /\ <<v, g>> \in reached
        <3>1. v \in onStack /\ index[v] < index[Top]
            BY <1>7
        <3>2. PICK g \in visiting : index[g] <= index[v] /\ <<v, g>> \in reached
            BY <3>1 DEF Sinks
        <3>3. g # Top
            BY <3>1, <3>2, <1>4
        <3> QED BY <3>2, <3>3, <1>6
    <2> QED BY <2>1, <1>1, <1>2 DEF Sinks
<1>16. \A v \in visiting' : low'[v] = low[v]
    <2>1. ASSUME NEW v \in visiting', v = Caller PROVE low'[v] = low[v]
        <3>1. low[v] <= index[v] /\ index[v] < index[Top] /\ low'[v] = Smaller(low[v], low[Top])
            BY <2>1, <1>6 DEF Lowest
        <3>2. low[v] \in Nat /\ index[v] \in Nat /\ index[Top] \in Nat
            BY <1>4, <1>5, <1>6
        <3> QED BY <3>1, <3>2 DEF Smaller
    <2> QED BY <2>1, <1>6
<1>17. Lowest'
    <2>1. ASSUME NEW v \in visiting'
          PROVE  /\ low[v] <= index[v]
                 /\ \E y \in onStack' : index[y] = low[v] /\ <<v, y>> \in reached
        <3>1. v \in visiting /\ low[v] <= index[v] /\ index[v] < index[Top] /\ low[v] \in Nat
            BY <1>6, <1>11 DEF Lowest
        <3>2. PICK y \in onStack : index[y] = low[v] /\ <<v, y>> \in reached
            BY <3>1 DEF Lowest
        <3>3. index[y] < index[Top]
            BY <3>1, <3>2, <1>4, <1>5
        <3> QED BY <3>1, <3>2, <3>3, <1>7
    <2> QED BY <2>1, <1>1, <1>2, <1>16 DEF Lowest
<1>18. LowEnough'
    <2>1. ASSUME NEW v \in visiting', NEW x \in onStack', NEW z \in onStack',
                 Owns(v, x)', z \in neighbours(x) \ left[x]
          PROVE  low[v] <= index[z]
        <3>1. v \in visiting /\ x \in onStack /\ z \in onStack /\ index[x] < index[Top]
            BY <1>6, <1>7
        <3>2. index[x] \in Nat /\ index[Top] \in Nat
            BY <3>1, <1>4, <1>5
        <3>3. Owns(v, x)
            BY <2>1, <3>1, <3>2, <1>1, <1>6 DEF Owns
        <3> QED BY <2>1, <3>1, <3>3 DEF LowEnough
    <2>2. onStack' \subseteq Agents
        BY <1>4, <1>7
    <2> QED BY <2>1, <2>2, <1>1, <1>3, <1>16 DEF LowEnough
<1>19. Found'
    <2> DEFINE alone == {{v} : v \in Agents}
    <2>1. {GroupOf(Adjacent, v) : v \in settled'} = {GroupOf(Adjacent, v) : v \in settled} \union {part}
        BY <1>9, <1>10
    <2>2. part = {Top} \/ part \notin alone
        BY <1>9
    <2>3. {Top} \in alone
        BY <1>5
    <2>4. groups = {GroupOf(Adjacent, v) : v \in settled} \ alone
        BY DEF Found
    <2>5. groups' = {GroupOf(Adjacent, v) : v \in settled'} \ alone
        <3>1. CASE part = {Top}
            BY <3>1, <2>1, <2>3, <2>4, <1>1, <1>7
        <3>2. CASE part # {Top}
            BY <3>2, <2>1, <2>2, <2>4, <1>1, <1>7
        <3> QED BY <3>1, <3>2
    <2> QED BY <2>5, <1>2 DEF Found
<1> QED BY <1>12, <1>13, <1>14, <1>15, <1>17, <1>18, <1>19

\* The call ends with low < index: its part of the stack goes to the caller.
LEMMA PartStays ==
    ASSUME SearchInv, Leave, low[Top] # index[Top]
    PROVE  Placed' /\ Closed' /\ Rises' /\ Sinks' /\ Lowest' /\ LowEnough' /\ Found'
<1> USE DEF SearchInv
<1>1. /\ calls # <<>> /\ left[Top] = {}
      /\ UNCHANGED <<edges, order, left, index, next, stack, groups>>
    BY DEF Leave
<1>2. Adjacent' = Adjacent /\ reached' = reached
    BY <1>1, WaitsStay
<1>3. \A v \in Agents : neighbours(v)' = neighbours(v)
    BY <1>2 DEF neighbours
<1>4. /\ onStack \subseteq seen /\ visiting \subseteq onStack /\ seen \subseteq Agents
      /\ settled = seen \ onStack /\ \A v \in seen : index[v] \in Nat
    BY OnStackSeen DEF Numbered
<1>5. /\ Top \in visiting /\ Top \in onStack /\ Top \in Agents
      /\ \A g \in visiting : index[g] <= index[Top]
    BY <1>1, AtTop
<1>6. /\ visiting' = visiting \ {Top} /\ Rising(calls)'
      /\ \A v \in visiting : low[v] \in Nat
      /\ \A v \in visiting : v # Caller => low'[v] = low[v]
      /\ visiting' # {} => /\ Caller \in visiting' /\ index[Caller] < index[Top]
                           /\ \A g \in visiting' : index[g] <= index[Caller]
                           /\ low'[Caller] = Smaller(low[Caller], low[Top])
    BY LowPassedOn
<1>7. seen' = seen /\ onStack' = onStack /\ settled' = settled
    BY <1>1 DEF seen, onStack, settled
<1>8. PICK y \in onStack : index[y] = low[Top] /\ <<Top, y>> \in reached
    BY <1>5 DEF Lowest
<1>9. index[y] < index[Top] /\ y \in Agents
    <2>1. low[Top] <= index[Top] /\ low[Top] \in Nat /\ index[Top] \in Nat
        BY <1>4, <1>5, <1>6 DEF Lowest
    <2> QED BY <2>1, <1>4, <1>8
<1>10. PICK h \in visiting : index[h] <= index[y] /\ <<y, h>> \in reached
    BY <1>8 DEF Sinks
<1>11. /\ h # Top /\ h \in visiting' /\ index[h] < index[Top]
       /\ <<Top, h>> \in reached
    <2>1. index[h] < index[Top] /\ h \in Agents
        BY <1>4, <1>5, <1>9, <1>10
    <2>2. h # Top
        BY <2>1, <1>4, <1>5
    <2>3. <<Top, h>> \in reached
        BY <2>1, <1>5, <1>8, <1>9, <1>10, Reached
    <2> QED BY <2>1, <2>2, <2>3, <1>6
<1>12. /\ Caller \in visiting' /\ index[Caller] < index[Top]
       /\ \A g \in visiting' : index[g] <= index[Caller]
       /\ low'[Caller] = Smaller(low[Caller], low[Top])
    BY <1>6, <1>11
<1>13. Placed'
    <2>1. Rising(stack)'
        BY <1>1, <1>7 DEF Placed, Rising
    <2> QED BY <2>1, <1>6, <1>7 DEF Placed
<1>14. Closed'
    BY <1>3, <1>4, <1>7 DEF Closed
<1>15. Rises'
    BY <1>1, <1>2, <1>7 DEF Rises
<1>16. Sinks'
    <2>1. ASSUME NEW v \in onStack
          PROVE  \E g \in visiting' : index[g] <= index[v] /\ <<v, g>> \in reached
        <3>1. PICK g \in visiting : index[g] <= index[v] /\ <<v, g>> \in reached
            BY DEF Sinks
        <3>2. CASE g # Top
            BY <3>1, <3>2, <1>6
        <3>3. CASE g = Top
            <4>1. index[h] <= index[v]
                BY <3>1, <3>3, <1>4, <1>5, <1>10, <1>11
            <4>2. <<v, h>> \in reached
                BY <3>1, <3>3, <1>4, <1>5, <1>10, <1>11, Reached
            <4> QED BY <4>1, <4>2, <1>11
        <3> QED BY <3>2, <3>3
    <2> QED BY <2>1, <1>1, <1>2, <1>7 DEF Sinks
<1>17. ASSUME NEW v \in visiting' PROVE v \in visiting /\ low'[v] <= low[v] /\ low'[v] \in Nat
    <2>1. v \in visiting /\ low[v] \in Nat /\ low[Top] \in Nat
        BY <1>5, <1>6
    <2> QED BY <2>1, <1>6, <1>12 DEF Smaller
<1>18. Lowest'
    <2>1. ASSUME NEW v \in visiting'
          PROVE  /\ low'[v] <= index[v]
                 /\ \E z \in onStack : index[z] = low'[v] /\ <<v, z>> \in reached
        <3>1. low[v] <= index[v] /\ index[v] \in Nat /\ low[v] \in Nat
            BY <1>4, <1>6, <1>17 DEF Lowest
        <3>2. low'[v] <= index[v]
            BY <3>1, <1>17
        <3>3. low'[v] = low[v] \/ (v = Caller /\ low'[v] = low[Top])
            BY <1>6, <1>12, <1>17 DEF Smaller
        <3>4. CASE low'[v] = low[v]
            BY <3>2, <3>4, <1>17 DEF Lowest
        <3>5. CASE v = Caller /\ low'[v] = low[Top]
            <4>1. <<v, Top>> \in reached
                BY <3>5, <1>4, <1>5, <1>12, <1>17 DEF Rises
            <4>2. <<v, y>> \in reached
                BY <4>1, <1>4, <1>5, <1>8, <1>9, <1>17, Reached
            <4> QED BY <4>2, <3>2, <3>5, <1>8
        <3> QED BY <3>3, <3>4, <3>5
    <2> QED BY <2>1, <1>1, <1>2, <1>7 DEF Lowest
<1>19. LowEnough'
    <2>1. ASSUME NEW v \in visiting', NEW x \in onStack, NEW z \in onStack,
                 Owns(v, x)', z \in neighbours(x) \ left[x]
          PROVE  low'[v] <= index[z]
        <3>1. /\ index[x] \in Nat /\ index[z] \in Nat /\ index[v] \in Nat
              /\ index[Top] \in Nat /\ index[Caller] \in Nat
            BY <1>4, <1>5, <1>6, <1>12, <1>17
        <3>2. /\ index[v] <= index[x]
              /\ \A u \in visiting \ {Top} : index[u] <= index[x] => index[u] <= index[v]
            BY <2>1, <1>1, <1>6 DEF Owns
        <3>3. CASE index[Top] <= index[x]
            <4>1. low[Top] <= index[z]
                <5>1. Owns(Top, x)
                    BY <3>3, <1>1, AtTop
                <5> QED BY <5>1, <2>1, <1>5 DEF LowEnough
            <4>2. index[Caller] <= index[v] /\ index[v] <= index[Caller]
                BY <3>1, <3>2, <3>3, <1>6, <1>12
            <4>3. v = Caller
                BY <4>2, <3>1, <1>4, <1>6, <1>12, <1>17 DEF Numbered
            <4>4. low[Top] \in Nat /\ low[Caller] \in Nat
                BY <1>5, <1>6, <1>12
            <4> QED BY <4>1, <4>3, <4>4, <3>1, <1>12 DEF Smaller
        <3>4. CASE index[x] < index[Top]
            <4>1. Owns(v, x)
                BY <3>1, <3>2, <3>4 DEF Owns
            <4>2. low[v] <= index[z]
                BY <4>1, <2>1, <1>17 DEF LowEnough
            <4> QED BY <4>2, <3>1, <1>6, <1>17
        <3> QED BY <3>1, <3>3, <3>4
    <2> QED BY <2>1, <1>1, <1>3, <1>4, <1>7 DEF LowEnough
<1>20. Found'
    BY <1>1, <1>2, <1>7 DEF Found
<1> QED BY <1>13, <1>14, <1>15, <1>16, <1>18, <1>19, <1>20

LEMMA LeaveKeeps ==
    ASSUME SearchInv, Leave
    PROVE  /\ Numbered' /\ Placed' /\ Looks' /\ Closed'
           /\ Rises' /\ Sinks' /\ Lowest' /\ LowEnough' /\ Found'
<1> USE DEF SearchInv
<1>1. /\ left[Top] = {} /\ UNCHANGED <<edges, order, left, index, next>>
    BY DEF Leave
<1>2. Adjacent' = Adjacent /\ nodes' = nodes
    BY <1>1, WaitsStay
<1>3. \A v \in Agents : neighbours(v)' = neighbours(v)
    BY <1>2 DEF neighbours
<1>4. seen' = seen /\ seen \subseteq Agents
    BY <1>1 DEF seen
<1>5. visiting' = visiting \ {Top}
    BY LowPassedOn
<1>6. Numbered'
    BY <1>1, <1>4 DEF Numbered
<1>7. Looks'
    <2>1. \A v \in Agents \ visiting' : left[v] = {}
        BY <1>1, <1>5 DEF Looks
    <2> QED BY <2>1, <1>1, <1>2, <1>3, <1>4 DEF Looks
<1>8. Placed' /\ Closed' /\ Rises' /\ Sinks' /\ Lowest' /\ LowEnough' /\ Found'
    BY GroupLeaves, PartStays
<1> QED BY <1>6, <1>7, <1>8

-----------------------------------------------------------------------------
(* The invariant, and what it is for.                                      *)

\* A step that changes only the order keeps what does not speak of it.
LEMMA SearchStays ==
    ASSUME SearchInv, UNCHANGED <<edges, calls, left, index, low, next, stack, groups>>,
           nodes \ order' \subseteq seen
    PROVE  /\ Numbered' /\ Placed' /\ Looks' /\ Closed'
           /\ Rises' /\ Sinks' /\ Lowest' /\ LowEnough' /\ Found'
<1> USE DEF SearchInv
<1>1. Adjacent' = Adjacent /\ reached' = reached /\ nodes' = nodes
    BY WaitsStay
<1>2. /\ seen' = seen /\ onStack' = onStack /\ visiting' = visiting /\ settled' = settled
    BY DEF seen, onStack, visiting, settled
<1>3. Numbered' /\ Placed'
    BY <1>2 DEF Numbered, Placed, Rising
<1>4. Looks'
    BY <1>1, <1>2 DEF Looks, neighbours
<1>5. Closed'
    BY <1>1, <1>2 DEF Closed, neighbours
<1>6. Rises' /\ Sinks' /\ Lowest'
    BY <1>1, <1>2 DEF Rises, Sinks, Lowest
<1>7. LowEnough'
    BY <1>1, <1>2 DEF LowEnough, Owns, neighbours
<1>8. Found'
    BY <1>1, <1>2 DEF Found
<1> QED BY <1>3, <1>4, <1>5, <1>6, <1>7, <1>8

LEMMA SearchInvNext == SearchInv /\ [Next]_vars => SearchInv'
<1> SUFFICES ASSUME SearchInv, [Next]_vars PROVE SearchInv'
    OBVIOUS
<1>1. SearchTypeOK'
    BY TypeOKNext DEF SearchInv
<1>2. nodes \ order \subseteq seen
    BY DEF SearchInv, Looks
<1>3. ASSUME NEW v \in Agents, Begin(v)
      PROVE  /\ Numbered' /\ Placed' /\ Looks' /\ Closed'
             /\ Rises' /\ Sinks' /\ Lowest' /\ LowEnough' /\ Found'
    <2>1. calls = <<>> /\ order' = order \ {v} /\ UNCHANGED edges
        BY <1>3 DEF Begin
    <2>2. CASE v \in seen
        <3>1. UNCHANGED <<edges, calls, left, index, low, next, stack, groups>>
            BY <1>3, <2>2 DEF Begin, searching
        <3>2. nodes \ order' \subseteq seen
            BY <1>2, <2>1, <2>2
        <3> QED BY <3>1, <3>2, SearchStays
    <2>3. CASE v \notin seen
        <3>1. Enter(v, left) /\ left \in [Agents -> SUBSET Agents]
            BY <1>3, <2>3 DEF Begin, SearchInv, SearchTypeOK
        <3>2. onStack = {}
            <4>1. visiting = {}
                BY <2>1 DEF visiting
            <4> QED BY <4>1 DEF SearchInv, Sinks
        <3>3. nodes \ order' \subseteq seen \union {v}
            BY <1>2, <2>1
        <3>4. v \in Agents \ seen
            BY <2>3
        <3> QED BY <2>1, <3>1, <3>2, <3>3, <3>4, EnterKeeps
    <2> QED BY <2>2, <2>3
<1>4. ASSUME NEW w \in Agents, Descend(w)
      PROVE  /\ Numbered' /\ Placed' /\ Looks' /\ Closed'
             /\ Rises' /\ Sinks' /\ Lowest' /\ LowEnough' /\ Found'
    <2>1. /\ calls # <<>> /\ w \in left[Top] /\ w \in Agents \ seen
          /\ Enter(w, Looked(w)) /\ UNCHANGED <<edges, order>>
        BY <1>4 DEF Descend, ComesTo, First
    <2>2. Top \in visiting /\ \A g \in visiting : index[g] <= index[Top]
        BY <2>1, TopIsLast DEF SearchInv
    <2>3. onStack \subseteq seen /\ visiting \subseteq onStack /\ seen \subseteq Agents
        BY OnStackSeen DEF SearchInv
    <2>4. Looked(w) \in [Agents -> SUBSET Agents]
        BY <2>2, <2>3 DEF Looked, SearchInv, SearchTypeOK
    <2>5. ASSUME NEW v \in Agents
          PROVE  Looked(w)[v] \subseteq left[v] /\ left[v] \ Looked(w)[v] \subseteq {w}
        BY <2>2, <2>3 DEF Looked, SearchInv, SearchTypeOK
    <2>6. ASSUME NEW v \in onStack PROVE <<v, w>> \in reached
        <3>1. PICK g \in visiting : <<v, g>> \in reached
            BY DEF SearchInv, Sinks
        <3>2. <<g, Top>> \in reached
            BY <2>2, <2>3 DEF SearchInv, Rises
        <3>3. <<Top, w>> \in reached
            BY <2>1, <2>2, <2>3, Reached DEF SearchInv, Looks
        <3>4. v \in Agents /\ g \in Agents /\ Top \in Agents /\ w \in Agents
            BY <2>1, <2>2, <2>3
        <3>5. <<v, Top>> \in reached
            BY <3>1, <3>2, <3>4, Reached DEF SearchInv
        <3> QED BY <3>3, <3>4, <3>5, Reached DEF SearchInv
    <2>7. nodes \ order' \subseteq seen \union {w}
        BY <1>2, <2>1
    <2> QED BY <2>1, <2>4, <2>5, <2>6, <2>7, EnterKeeps
<1>5. ASSUME UNCHANGED <<edges, order, searching>>
      PROVE  /\ Numbered' /\ Placed' /\ Looks' /\ Closed'
             /\ Rises' /\ Sinks' /\ Lowest' /\ LowEnough' /\ Found'
    <2>1. UNCHANGED <<edges, calls, left, index, low, next, stack, groups>> /\ order' = order
        BY <1>5 DEF searching
    <2> QED BY <2>1, <1>2, SearchStays
<1>6. UNCHANGED vars => UNCHANGED <<edges, order, searching>>
    BY DEF vars
<1> QED BY <1>1, <1>3, <1>4, <1>5, <1>6, StepKinds, BackKeeps, LeaveKeeps DEF SearchInv

\* When the search has ended, nothing is on the stack and every agent that waits
\* or is waited on has left it.
LEMMA FoundAll ==
    ASSUME SearchInv, Searched
    PROVE  groups = Groups(edges)
<1> USE DEF SearchInv
<1> DEFINE alone == {{v} : v \in Agents}
<1>1. visiting = {} /\ order = {}
    BY DEF Searched, visiting
<1>2. onStack = {}
    BY <1>1 DEF Sinks
<1>3. settled = seen /\ nodes \subseteq seen /\ seen \subseteq Agents
    BY <1>1, <1>2 DEF settled, Looks, seen
<1>4. groups = {GroupOf(Adjacent, v) : v \in seen} \ alone
    BY <1>3 DEF Found
<1>5. ASSUME NEW v \in Agents \ seen PROVE GroupOf(Adjacent, v) \in alone
    <2>1. v \in Agents \ nodes
        BY <1>3
    <2> QED BY <2>1, OnHisOwn
<1>6. {GroupOf(Adjacent, v) : v \in seen} \ alone = {GroupOf(Adjacent, v) : v \in Agents} \ alone
    BY <1>3, <1>5
<1>7. groups = Groups(Adjacent)
    BY <1>4, <1>6 DEF Groups
<1> QED BY <1>7, SelfWaitsJoinNobody

-----------------------------------------------------------------------------
(* Orders for a group.                                                     *)

\* A nonempty set of numbers has a least one.
LEMMA LeastExists ==
    ASSUME NEW S \in SUBSET Nat, S # {}
    PROVE  Least(S) \in S
<1> DEFINE F == {0..n : n \in S}
<1>1. F \subseteq FiniteSubsetsOf(Nat) /\ F # {}
    <2>1. ASSUME NEW n \in S PROVE 0..n \in FiniteSubsetsOf(Nat)
        <3>1. IsFiniteSet(0..n) /\ 0..n \subseteq Nat
            BY FS_Interval
        <3> QED BY <3>1 DEF FiniteSubsetsOf
    <2> QED BY <2>1
<1>2. \E X \in F : \A Y \in F : ~(<<Y, X>> \in StrictSubsetOrdering(Nat))
    <2>1. IsWellFoundedOn(StrictSubsetOrdering(Nat), FiniteSubsetsOf(Nat))
        BY FS_StrictSubsetOrderingWellFounded, Zenon
    <2> HIDE DEF F
    <2> QED BY <1>1, <2>1, WFMin
<1>3. PICK n \in S : \A y \in S : ~(<<0..y, 0..n>> \in StrictSubsetOrdering(Nat))
    BY <1>2
<1>4. ASSUME NEW y \in S, y < n PROVE FALSE
    <2>1. 0..y \subseteq 0..n /\ n \notin 0..y /\ n \in 0..n
        BY <1>4
    <2>2. 0..y \subseteq Nat /\ 0..n \subseteq Nat
        OBVIOUS
    <2> QED BY <2>1, <2>2, <1>3 DEF StrictSubsetOrdering
<1>5. \A y \in S : n <= y
    BY <1>4
<1> QED BY <1>5 DEF Least

\* A circle names each member once.
LEMMA CircleOnce ==
    ASSUME NEW g, IsFiniteSet(g), NEW q \in [1..Cardinality(g) -> g], IsCircle(g, q)
    PROVE  /\ Cardinality(g) \in Nat
           /\ \A i, j \in 1..Cardinality(g) : q[i] = q[j] => i = j
<1>1. Cardinality(g) \in Nat
    BY FS_CardinalityType
<1>2. IsFiniteSet(1..Cardinality(g)) /\ Cardinality(1..Cardinality(g)) = Cardinality(g)
    BY <1>1, FS_Interval
<1>3. \A m \in g : \E i \in 1..Cardinality(g) : q[i] = m
    BY DEF IsCircle
<1>4. q \in Surjection(1..Cardinality(g), g)
    BY <1>3 DEF Surjection
<1>5. q \in Injection(1..Cardinality(g), g)
    BY <1>2, <1>4, FS_SurjSameCardinalityImpliesInj
<1> QED BY <1>1, <1>5 DEF Injection, IsInjective

\* As many different members of a group as it has are all of them.
LEMMA OnceIsAll ==
    ASSUME NEW g, IsFiniteSet(g), NEW p \in [1..Cardinality(g) -> g],
           \A i, j \in 1..Cardinality(g) : p[i] = p[j] => i = j
    PROVE  {p[i] : i \in 1..Cardinality(g)} = g
<1>1. Cardinality(g) \in Nat
    BY FS_CardinalityType
<1>2. IsFiniteSet(1..Cardinality(g)) /\ Cardinality(1..Cardinality(g)) = Cardinality(g)
    BY <1>1, FS_Interval
<1>3. p \in Injection(1..Cardinality(g), g)
    BY DEF Injection, IsInjective
<1>4. p \in Surjection(1..Cardinality(g), g)
    BY <1>2, <1>3, FS_Injection
<1> QED BY <1>4 DEF Surjection

\* A circle may begin with any member.
LEMMA Turned ==
    ASSUME NEW g, IsFiniteSet(g), NEW q \in [1..Cardinality(g) -> g], IsCircle(g, q),
           NEW a \in g
    PROVE  \E r \in [1..Cardinality(g) -> g] : IsCircle(g, r) /\ r[1] = a
<1> DEFINE n == Cardinality(g)
<1>1. n \in Nat /\ Len(q) = n /\ q \in [1..n -> g]
    BY FS_CardinalityType DEF IsCircle
<1>2. /\ \A m \in g : \E i \in 1..n : q[i] = m
      /\ \A i \in 1..(n - 1) : <<q[i], q[i + 1]>> \in Adjacent
      /\ <<q[n], q[1]>> \in Adjacent
    BY <1>1 DEF IsCircle
<1> HIDE DEF n
<1>3. PICK j \in 1..n : q[j] = a
    BY <1>2
<1> DEFINE r == [i \in 1..n |-> IF i + j - 1 <= n THEN q[i + j - 1] ELSE q[i + j - 1 - n]]
<1>4. /\ \A i \in 1..n : i + j - 1 <= n => i + j - 1 \in 1..n
      /\ \A i \in 1..n : ~(i + j - 1 <= n) => i + j - 1 - n \in 1..n
    BY <1>1, <1>3
<1>5. r \in [1..n -> g]
    BY <1>1, <1>4
<1>6. Len(r) = n
    BY <1>1
<1>7. /\ \A i \in 1..n : i + j - 1 <= n => r[i] = q[i + j - 1]
      /\ \A i \in 1..n : ~(i + j - 1 <= n) => r[i] = q[i + j - 1 - n]
    OBVIOUS
<1> HIDE DEF r
<1>8. r[1] = a
    BY <1>1, <1>3, <1>7
<1>9. ASSUME NEW m \in g PROVE \E i \in 1..n : r[i] = m
    <2>1. PICK l \in 1..n : q[l] = m
        BY <1>2
    <2>2. CASE l >= j
        <3>1. l - j + 1 \in 1..n /\ (l - j + 1) + j - 1 = l
            BY <1>1, <1>3, <2>2
        <3>2. r[l - j + 1] = q[l]
            BY <3>1, <1>7
        <3> QED BY <2>1, <3>1, <3>2
    <2>3. CASE l < j
        <3>1. l - j + 1 + n \in 1..n /\ (l - j + 1 + n) + j - 1 - n = l /\ ~((l - j + 1 + n) + j - 1 <= n)
            BY <1>1, <1>3, <2>3
        <3>2. r[l - j + 1 + n] = q[l]
            BY <3>1, <1>7
        <3> QED BY <2>1, <3>1, <3>2
    <2> QED BY <1>1, <1>3, <2>2, <2>3
<1>10. ASSUME NEW i \in 1..(n - 1) PROVE <<r[i], r[i + 1]>> \in Adjacent
    <2>1. i \in 1..n /\ i + 1 \in 1..n
        BY <1>1
    <2>2. CASE i + j <= n
        <3>1. r[i] = q[i + j - 1] /\ r[i + 1] = q[i + j]
            BY <1>1, <1>3, <1>7, <2>1, <2>2
        <3>2. i + j - 1 \in 1..(n - 1) /\ (i + j - 1) + 1 = i + j
            BY <1>1, <1>3, <2>2
        <3> QED BY <3>1, <3>2, <1>2
    <2>3. CASE i + j = n + 1
        <3>1. r[i] = q[n] /\ r[i + 1] = q[1]
            BY <1>1, <1>3, <1>7, <2>1, <2>3
        <3> QED BY <3>1, <1>2
    <2>4. CASE i + j > n + 1
        <3>1. r[i] = q[i + j - 1 - n] /\ r[i + 1] = q[i + j - n]
            BY <1>1, <1>3, <1>7, <2>1, <2>4
        <3>2. i + j - 1 - n \in 1..(n - 1) /\ (i + j - 1 - n) + 1 = i + j - n
            BY <1>1, <1>3, <2>4
        <3> QED BY <3>1, <3>2, <1>2
    <2> QED BY <1>1, <1>3, <2>2, <2>3, <2>4
<1>11. <<r[n], r[1]>> \in Adjacent
    <2>1. n \in 1..n /\ 1 \in 1..n /\ r[1] = q[j]
        BY <1>1, <1>3, <1>8
    <2>2. CASE j = 1
        <3>1. r[n] = q[n]
            BY <1>1, <1>7, <2>1, <2>2
        <3> QED BY <2>1, <2>2, <3>1, <1>2
    <2>3. CASE j > 1
        <3>1. r[n] = q[j - 1]
            BY <1>1, <1>3, <1>7, <2>1, <2>3
        <3>2. j - 1 \in 1..(n - 1) /\ (j - 1) + 1 = j
            BY <1>1, <1>3, <2>3
        <3> QED BY <2>1, <3>1, <3>2, <1>2
    <2> QED BY <1>3, <2>2, <2>3
<1>12. {r[i] : i \in 1..n} = g
    BY <1>5, <1>9
<1>13. IsCircle(g, r)
    BY <1>6, <1>10, <1>11, <1>12 DEF IsCircle, n
<1> QED BY <1>5, <1>8, <1>13 DEF n

-----------------------------------------------------------------------------
(* The invariant of the second part.                                       *)

\* The circles of a group, as hamiltonCycle would show them.
Circles(g) == {q \in [1..Cardinality(g) -> g] : IsCircle(g, q) /\ q[1] = Least(g)}

\* The path goes through different members of the group, each waiting on the
\* next; who may come next at a place is waited on there and not on the path yet.
InHand ==
    hand # {} =>
        /\ hand \in groups
        /\ path # <<>> /\ Len(rest) = Len(path) /\ path[1] = Least(hand)
        /\ \A i \in 1..Len(path) : path[i] \in hand
        /\ \A i, j \in 1..Len(path) : path[i] = path[j] => i = j
        /\ \A i \in 1..(Len(path) - 1) : <<path[i], path[i + 1]>> \in Adjacent
        /\ \A k \in 1..Len(path) :
              rest[k] \subseteq {m \in hand : <<path[k], m>> \in Adjacent} \ {path[i] : i \in 1..k}

\* The walk has still to come to q: up to place k it is the path, and then goes
\* on to a member not tried there, or ends.
Ahead(q, k) ==
    /\ \A i \in 1..k : q[i] = path[i]
    /\ k = Cardinality(hand) \/ (k < Cardinality(hand) /\ q[k + 1] \in rest[k])

\* No circle was passed over.
NotMissed == hand # {} => \A q \in Circles(hand) : \E k \in 1..Len(path) : Ahead(q, k)

\* Groups are shown after the search, and only those that were found.
Late == hand # {} \/ out # {} => Searched
OfGroups == \A c \in out : c.group \in groups

ShowInv == ShowTypeOK /\ Late /\ OfGroups /\ InHand /\ NotMissed /\ OrderIsACircle

Inv == SearchInv /\ ShowInv

LEMMA ShowInvInit == Init => ShowInv
BY DEF Init, ShowInv, ShowTypeOK, Late, OfGroups, InHand, NotMissed, OrderIsACircle

\* A group that was found has members, finitely many.
LEMMA GroupsAreGroups ==
    ASSUME SearchInv, NEW g \in groups
    PROVE  g # {} /\ g \subseteq Agents /\ IsFiniteSet(g) /\ Cardinality(g) \in Nat /\ Least(g) \in g
<1>1. PICK v \in settled : g = GroupOf(Adjacent, v)
    BY DEF SearchInv, Found
<1>2. v \in Agents
    BY DEF settled, seen
<1>3. <<v, v>> \in reached
    BY <1>2, Reached DEF SearchInv
<1>4. g # {} /\ g \subseteq Agents
    BY <1>1, <1>2, <1>3, GroupIsReached
<1>5. IsFiniteSet(g)
    BY <1>4, GraphAssumption, FS_Subset
<1>6. g \in SUBSET Nat
    BY <1>4, GraphAssumption
<1> QED BY <1>4, <1>5, <1>6, FS_CardinalityType, LeastExists

-----------------------------------------------------------------------------
(* Its steps.                                                              *)

\* A group gets its order, or none.
LEMMA ShownKeeps ==
    ASSUME SearchInv, ShowInv, Searched, NEW g \in groups, NEW p \in Seq(Agents), Shown(g, p),
           UNCHANGED <<edges, order, searching>>,
           p # <<>> => IsCircle(g, p),
           p = <<>> => \/ Cardinality(g) > MaxOrdered
                       \/ ~\E q \in [1..Cardinality(g) -> g] : IsCircle(g, q)
    PROVE  ShowInv'
<1> DEFINE c == [group |-> g, order |-> p]
<1>1. out' = out \union {c} /\ hand' = {} /\ path' = <<>> /\ rest' = <<>>
    BY DEF Shown
<1>2. Adjacent' = Adjacent /\ groups' = groups /\ Searched'
    BY DEF Adjacent, searching, Searched
<1>3. c.group = g /\ c.order = p /\ c \in [group : SUBSET Agents, order : Seq(Agents)]
    BY GroupsAreGroups
<1>4. ShowTypeOK'
    BY <1>1, <1>3 DEF ShowInv, ShowTypeOK
<1>5. Late' /\ InHand' /\ NotMissed'
    BY <1>1, <1>2 DEF Late, InHand, NotMissed
<1>6. OfGroups'
    BY <1>1, <1>2, <1>3 DEF ShowInv, OfGroups
<1>7. OrderIsACircle'
    <2>1. ASSUME NEW d \in out'
          PROVE  /\ d.order # <<>> => IsCircle(d.group, d.order)
                 /\ d.order = <<>> =>
                       \/ Cardinality(d.group) > MaxOrdered
                       \/ ~\E q \in [1..Cardinality(d.group) -> d.group] : IsCircle(d.group, q)
        <3>1. CASE d \in out
            BY <3>1 DEF ShowInv, OrderIsACircle
        <3>2. CASE d = c
            BY <3>2, <1>3
        <3> QED BY <3>1, <3>2, <1>1
    <2>2. \A h, q : IsCircle(h, q)' <=> IsCircle(h, q)
        BY <1>2 DEF IsCircle
    <2> QED BY <2>1, <2>2 DEF OrderIsACircle
<1> QED BY <1>4, <1>5, <1>6, <1>7 DEF ShowInv

\* No circle is ahead of a place where nobody is left to try, unless the path is
\* that circle.
LEMMA NotAheadHere ==
    ASSUME SearchInv, ShowInv, hand # {}, rest[Len(path)] = {}, ~IsOrder,
           NEW q \in Circles(hand)
    PROVE  ~Ahead(q, Len(path))
<1>1. Len(path) \in Nat /\ Len(path) > 0
    BY DEF ShowInv, ShowTypeOK, InHand
<1>2. IsCircle(hand, q) /\ Len(q) = Cardinality(hand)
    BY DEF Circles, IsCircle
<1>3. ASSUME Len(path) = Cardinality(hand), \A i \in 1..Len(path) : q[i] = path[i] PROVE FALSE
    <2>1. q[Len(path)] = path[Len(path)] /\ q[1] = path[1]
        BY <1>1, <1>3
    <2>2. <<q[Len(path)], q[1]>> \in Adjacent
        BY <1>2, <1>3 DEF IsCircle
    <2> QED BY <1>3, <2>1, <2>2 DEF IsOrder, Closes
<1> QED BY <1>3 DEF Ahead

LEMMA TakeKeeps ==
    ASSUME SearchInv, ShowInv, NEW g \in groups, Take(g)
    PROVE  ShowInv'
<1>1. Searched /\ UNCHANGED <<edges, order, searching>>
    BY DEF Take
<1>2. CASE Cardinality(g) > MaxOrdered
    <2>1. Shown(g, <<>>) /\ <<>> \in Seq(Agents)
        BY <1>2 DEF Take
    <2> QED BY <1>1, <1>2, <2>1, ShownKeeps
<1>3. CASE ~(Cardinality(g) > MaxOrdered)
    <2>1. /\ hand' = g /\ path' = <<Least(g)>> /\ rest' = <<Candidates(g, path')>> /\ out' = out
        BY <1>3 DEF Take
    <2>2. Adjacent' = Adjacent /\ groups' = groups /\ Searched'
        BY <1>1 DEF Adjacent, searching, Searched
    <2>3. g # {} /\ g \subseteq Agents /\ IsFiniteSet(g) /\ Cardinality(g) \in Nat /\ Least(g) \in g
        BY GroupsAreGroups
    <2>4. /\ Len(path') = 1 /\ path'[1] = Least(g) /\ Len(rest') = 1
          /\ rest'[1] = {m \in g : <<Least(g), m>> \in Adjacent} \ {Least(g)}
        BY <2>1 DEF Candidates
    <2>5. ShowTypeOK'
        <3>1. Candidates(g, path') \in SUBSET Agents
            BY <2>3 DEF Candidates
        <3> QED BY <3>1, <2>1, <2>3 DEF ShowInv, ShowTypeOK
    <2>6. Late' /\ OfGroups'
        BY <2>1, <2>2 DEF Late, ShowInv, OfGroups
    <2>7. InHand'
        <3>1. \A i \in 1..Len(path') : i = 1
            BY <2>4
        <3>2. {path'[i] : i \in 1..1} = {Least(g)}
            BY <2>4
        <3>3. path' # <<>>
            BY <2>1
        <3> QED BY <3>1, <3>2, <3>3, <2>1, <2>2, <2>3, <2>4 DEF InHand
    <2>8. NotMissed'
        <3>1. ASSUME NEW q \in Circles(g) PROVE Ahead(q, 1)'
            <4>1. /\ q \in [1..Cardinality(g) -> g] /\ IsCircle(g, q) /\ q[1] = Least(g)
                  /\ Len(q) = Cardinality(g)
                BY DEF Circles, IsCircle
            <4>2. CASE Cardinality(g) > 1
                <5>1. 1 \in 1..(Len(q) - 1) /\ 1 \in 1..Cardinality(g) /\ 2 \in 1..Cardinality(g)
                    BY <4>1, <4>2, <2>3
                <5>2. <<q[1], q[2]>> \in Adjacent
                    <6>1. <<q[1], q[1 + 1]>> \in Adjacent
                        BY <4>1, <5>1 DEF IsCircle
                    <6> QED BY <6>1
                <5>3. q[2] # q[1]
                    BY <4>1, <5>1, <2>3, CircleOnce
                <5>4. q[2] \in rest'[1]
                    BY <4>1, <5>1, <5>2, <5>3, <2>4
                <5> QED BY <4>1, <4>2, <5>4, <2>1, <2>4 DEF Ahead
            <4>3. CASE ~(Cardinality(g) > 1)
                <5>1. Cardinality(g) = 1
                    <6>1. Least(g) \in {q[i] : i \in 1..Len(q)}
                        BY <2>3, <4>1 DEF IsCircle
                    <6>2. PICK i \in 1..Cardinality(g) : q[i] = Least(g)
                        BY <6>1, <4>1
                    <6> QED BY <6>2, <4>3, <2>3
                <5> QED BY <4>1, <5>1, <2>1, <2>4 DEF Ahead
            <4> QED BY <4>2, <4>3
        <3>2. Circles(g)' = Circles(g)
            BY <2>2 DEF Circles, IsCircle
        <3>3. 1 \in 1..Len(path')
            BY <2>4
        <3> QED BY <3>1, <3>2, <3>3, <2>1 DEF NotMissed
    <2>9. OrderIsACircle'
        BY <2>1, <2>2 DEF ShowInv, OrderIsACircle, IsCircle
    <2> QED BY <2>5, <2>6, <2>7, <2>8, <2>9 DEF ShowInv
<1> QED BY <1>2, <1>3

LEMMA WalkKeeps ==
    ASSUME SearchInv, ShowInv, NEW m \in Agents, Walk(m)
    PROVE  ShowInv'
<1> DEFINE L == Len(path)
<1>1. /\ hand # {} /\ m \in rest[L] /\ hand' = hand /\ out' = out
      /\ path' = Append(path, m)
      /\ rest' = Append([rest EXCEPT ![L] = @ \ {m}], Candidates(hand, path'))
      /\ UNCHANGED <<edges, order, searching>>
    BY DEF Walk, First
<1>2. Adjacent' = Adjacent /\ groups' = groups /\ (Searched <=> Searched')
    BY <1>1 DEF Adjacent, searching, Searched
<1>3. /\ hand \in groups /\ path # <<>> /\ Len(rest) = L /\ path[1] = Least(hand)
      /\ \A i \in 1..L : path[i] \in hand
      /\ \A i, j \in 1..L : path[i] = path[j] => i = j
      /\ \A i \in 1..(L - 1) : <<path[i], path[i + 1]>> \in Adjacent
      /\ \A k \in 1..L : rest[k] \subseteq {x \in hand : <<path[k], x>> \in Adjacent} \ {path[i] : i \in 1..k}
    BY <1>1 DEF ShowInv, InHand
<1>4. L \in Nat /\ L > 0 /\ L \in 1..L /\ path \in Seq(Agents) /\ rest \in Seq(SUBSET Agents)
    BY <1>3 DEF ShowInv, ShowTypeOK
<1>5. /\ hand # {} /\ hand \subseteq Agents /\ IsFiniteSet(hand) /\ Cardinality(hand) \in Nat
    BY <1>3, GroupsAreGroups
<1> HIDE DEF L
<1>6. /\ Len(path') = L + 1 /\ path'[L + 1] = m /\ \A i \in 1..L : path'[i] = path[i]
      /\ path' # <<>> /\ path' \in Seq(Agents)
    BY <1>1, <1>4 DEF L
<1>7. /\ m \in hand /\ <<path[L], m>> \in Adjacent /\ \A i \in 1..L : path[i] # m
    BY <1>1, <1>3, <1>4
<1>8. /\ Candidates(hand, path') = {x \in hand : <<m, x>> \in Adjacent} \ {path'[i] : i \in 1..(L + 1)}
      /\ Candidates(hand, path') \in SUBSET Agents
    BY <1>5, <1>6 DEF Candidates
<1>9. /\ rest' \in Seq(SUBSET Agents) /\ Len(rest') = L + 1
      /\ rest'[L + 1] = Candidates(hand, path')
      /\ rest'[L] = rest[L] \ {m}
      /\ \A k \in 1..L : k # L => rest'[k] = rest[k]
    <2> DEFINE tried == [rest EXCEPT ![L] = @ \ {m}]
    <2>1. rest[L] \in SUBSET Agents
        BY <1>3, <1>4
    <2>2. /\ tried \in Seq(SUBSET Agents) /\ Len(tried) = L
          /\ tried[L] = rest[L] \ {m} /\ \A k \in 1..L : k # L => tried[k] = rest[k]
        BY <1>3, <1>4, <2>1
    <2>3. rest' = Append(tried, Candidates(hand, path'))
        BY <1>1 DEF L
    <2> HIDE DEF tried
    <2> QED BY <1>4, <1>8, <2>2, <2>3
<1>10. \A i \in 1..(L + 1) : i \in 1..L \/ i = L + 1
    BY <1>4
<1>11. ShowTypeOK'
    BY <1>1, <1>6, <1>9 DEF ShowInv, ShowTypeOK
<1>12. Late' /\ OfGroups'
    BY <1>1, <1>2 DEF ShowInv, Late, OfGroups
<1>13. OrderIsACircle'
    BY <1>1, <1>2 DEF ShowInv, OrderIsACircle, IsCircle
<1>14. InHand'
    <2>1. path'[1] = Least(hand)
        BY <1>3, <1>4, <1>6
    <2>2. \A i \in 1..(L + 1) : path'[i] \in hand
        BY <1>3, <1>6, <1>7, <1>10
    <2>3. \A i, j \in 1..(L + 1) : path'[i] = path'[j] => i = j
        BY <1>3, <1>6, <1>7, <1>10
    <2>4. ASSUME NEW i \in 1..L PROVE <<path'[i], path'[i + 1]>> \in Adjacent
        <3>1. CASE i = L
            BY <3>1, <1>4, <1>6, <1>7
        <3>2. CASE i # L
            <4>1. i \in 1..(L - 1) /\ i + 1 \in 1..L
                BY <3>2, <1>4
            <4> QED BY <4>1, <1>3, <1>6
        <3> QED BY <3>1, <3>2
    <2>5. ASSUME NEW k \in 1..(L + 1)
          PROVE  rest'[k] \subseteq {x \in hand : <<path'[k], x>> \in Adjacent} \ {path'[i] : i \in 1..k}
        <3>1. CASE k = L + 1
            BY <3>1, <1>6, <1>8, <1>9
        <3>2. CASE k \in 1..L
            <4>1. rest'[k] \subseteq rest[k] /\ path'[k] = path[k]
                BY <3>2, <1>6, <1>9
            <4>2. \A i \in 1..k : path'[i] = path[i]
                BY <3>2, <1>4, <1>6
            <4>3. {path'[i] : i \in 1..k} = {path[i] : i \in 1..k}
                BY <4>2
            <4>4. rest[k] \subseteq {x \in hand : <<path[k], x>> \in Adjacent} \ {path[i] : i \in 1..k}
                BY <3>2, <1>3
            <4> QED BY <4>1, <4>3, <4>4
        <3> QED BY <3>1, <3>2, <1>10
    <2>6. (L + 1) - 1 = L
        BY <1>4
    <2> QED BY <2>1, <2>2, <2>3, <2>4, <2>5, <2>6, <1>1, <1>2, <1>3, <1>6, <1>9 DEF InHand
<1>15. NotMissed'
    <2>1. ASSUME NEW q \in Circles(hand) PROVE \E k \in 1..(L + 1) : Ahead(q, k)'
        <3> DEFINE n == Cardinality(hand)
        <3>1. /\ q \in [1..n -> hand] /\ IsCircle(hand, q) /\ Len(q) = n /\ n \in Nat
              /\ \A i, j \in 1..n : q[i] = q[j] => i = j
              /\ {q[i] : i \in 1..n} = hand
              /\ \A i \in 1..(n - 1) : <<q[i], q[i + 1]>> \in Adjacent
            <4>1. q \in [1..n -> hand] /\ IsCircle(hand, q) /\ Len(q) = n
                BY DEF Circles, IsCircle
            <4>2. n \in Nat /\ \A i, j \in 1..n : q[i] = q[j] => i = j
                BY <4>1, <1>5, CircleOnce
            <4> QED BY <4>1, <4>2 DEF IsCircle
        <3>2. n = Cardinality(hand) /\ hand' = hand
            BY <1>1
        <3> HIDE DEF n
        <3>3. PICK k \in 1..L : Ahead(q, k)
            BY <1>1 DEF ShowInv, NotMissed, L
        <3>4. /\ \A i \in 1..k : q[i] = path[i]
              /\ k = n \/ (k < n /\ q[k + 1] \in rest[k])
            BY <3>2, <3>3 DEF Ahead
        <3>5. k \in Nat /\ \A i \in 1..k : i \in 1..L /\ q[i] = path'[i]
            BY <3>4, <1>4, <1>6
        <3>6. k \in 1..(L + 1) /\ L + 1 \in 1..(L + 1)
            BY <1>4
        <3>7. CASE k = n
            <4>1. Ahead(q, k)'
                BY <3>2, <3>5, <3>7 DEF Ahead
            <4> QED BY <4>1, <3>6
        <3>8. CASE k < n /\ k # L
            <4>1. rest'[k] = rest[k]
                BY <3>8, <1>9
            <4>2. Ahead(q, k)'
                BY <4>1, <3>2, <3>4, <3>5, <3>8, <3>1 DEF Ahead
            <4> QED BY <4>2, <3>6
        <3>9. CASE k < n /\ k = L /\ q[L + 1] # m
            <4>1. q[k + 1] \in rest'[k]
                BY <3>1, <3>4, <3>9, <1>9
            <4>2. Ahead(q, k)'
                BY <4>1, <3>2, <3>5, <3>9 DEF Ahead
            <4> QED BY <4>2, <3>6
        <3>10. CASE k < n /\ k = L /\ q[L + 1] = m
            <4>1. \A i \in 1..(L + 1) : q[i] = path'[i]
                BY <3>5, <3>10, <1>6, <1>10
            <4>2. L + 1 = n \/ (L + 1 < n /\ q[(L + 1) + 1] \in rest'[L + 1])
                <5>1. CASE L + 1 = n
                    BY <5>1
                <5>2. CASE L + 1 # n
                    <6>1. L + 1 \in 1..(n - 1) /\ L + 1 < n /\ (L + 1) + 1 \in 1..n
                        BY <5>2, <3>1, <3>10, <1>4
                    <6>2. <<m, q[(L + 1) + 1]>> \in Adjacent /\ q[(L + 1) + 1] \in hand
                        BY <6>1, <3>1, <3>10
                    <6>3. \A i \in 1..(L + 1) : i \in 1..n /\ i # (L + 1) + 1
                        BY <6>1, <3>1, <1>4
                    <6>4. \A i \in 1..(L + 1) : path'[i] # q[(L + 1) + 1]
                        BY <6>1, <6>3, <4>1, <3>1
                    <6> QED BY <6>1, <6>2, <6>4, <1>8, <1>9
                <5> QED BY <5>1, <5>2
            <4>3. PICK l \in 1..(L + 1) : l = L + 1
                BY <3>6
            <4>4. /\ \A i \in 1..l : q[i] = path'[i]
                  /\ l = n \/ (l < n /\ q[l + 1] \in rest'[l])
                BY <4>1, <4>2, <4>3
            <4>5. Ahead(q, l)'
                BY <4>4, <3>2 DEF Ahead
            <4> QED BY <4>5
        <3> QED BY <3>4, <3>7, <3>8, <3>9, <3>10
    <2>2. Circles(hand)' = Circles(hand)
        BY <1>1, <1>2 DEF Circles, IsCircle
    <2> QED BY <2>1, <2>2, <1>1, <1>6 DEF NotMissed
<1> QED BY <1>11, <1>12, <1>13, <1>14, <1>15 DEF ShowInv

LEMMA OrderedKeeps ==
    ASSUME SearchInv, ShowInv, Ordered
    PROVE  ShowInv'
<1>1. /\ hand # {} /\ Len(path) = Cardinality(hand) /\ Closes(path) /\ Shown(hand, path)
      /\ UNCHANGED <<edges, order, searching>>
    BY DEF Ordered, IsOrder
<1>2. /\ hand \in groups /\ path # <<>> /\ path \in Seq(Agents)
      /\ \A i \in 1..Len(path) : path[i] \in hand
      /\ \A i, j \in 1..Len(path) : path[i] = path[j] => i = j
      /\ \A i \in 1..(Len(path) - 1) : <<path[i], path[i + 1]>> \in Adjacent
    BY <1>1 DEF ShowInv, InHand, ShowTypeOK
<1>3. IsFiniteSet(hand)
    BY <1>2, GroupsAreGroups
<1>4. path \in [1..Cardinality(hand) -> hand]
    BY <1>1, <1>2
<1>5. {path[i] : i \in 1..Cardinality(hand)} = hand
    BY <1>1, <1>2, <1>3, <1>4, OnceIsAll
<1>6. IsCircle(hand, path)
    BY <1>1, <1>2, <1>5 DEF IsCircle, Closes
<1>7. Searched
    BY <1>1 DEF ShowInv, Late
<1> QED BY <1>1, <1>2, <1>6, <1>7, ShownKeeps

LEMMA GiveUpKeeps ==
    ASSUME SearchInv, ShowInv, GiveUp
    PROVE  ShowInv'
<1>1. /\ hand # {} /\ rest[Len(path)] = {} /\ ~IsOrder /\ UNCHANGED <<edges, order, searching>>
    BY DEF GiveUp
<1>2. /\ hand \in groups /\ path # <<>> /\ Len(rest) = Len(path) /\ path[1] = Least(hand)
      /\ path \in Seq(Agents) /\ rest \in Seq(SUBSET Agents)
    BY <1>1 DEF ShowInv, InHand, ShowTypeOK
<1>3. Len(path) \in Nat /\ Len(path) > 0
    BY <1>2
<1>4. hand # {} /\ IsFiniteSet(hand) /\ Least(hand) \in hand
    BY <1>2, GroupsAreGroups
<1>5. ASSUME NEW q \in Circles(hand)
      PROVE  \E k \in 1..(Len(path) - 1) : Ahead(q, k)
    <2>1. PICK k \in 1..Len(path) : Ahead(q, k)
        BY <1>1 DEF ShowInv, NotMissed
    <2>2. k # Len(path)
        BY <2>1, <1>1, NotAheadHere
    <2>3. k \in 1..(Len(path) - 1)
        BY <2>2, <1>3
    <2> QED BY <2>1, <2>3
<1>6. CASE Len(path) = 1
    <2>1. Circles(hand) = {}
        BY <1>5, <1>6
    <2>2. ~\E q \in [1..Cardinality(hand) -> hand] : IsCircle(hand, q)
        BY <2>1, <1>4, Turned DEF Circles
    <2>3. Shown(hand, <<>>) /\ <<>> \in Seq(Agents)
        BY <1>6 DEF GiveUp
    <2>4. Searched
        BY <1>1 DEF ShowInv, Late
    <2> QED BY <2>2, <2>3, <2>4, <1>1, <1>2, ShownKeeps
<1>7. CASE Len(path) # 1
    <2> DEFINE K == Len(path) - 1
    <2>1. /\ hand' = hand /\ out' = out /\ path' = SubSeq(path, 1, K) /\ rest' = SubSeq(rest, 1, K)
          /\ K \in Nat /\ K > 0 /\ K <= Len(path) /\ K <= Len(rest)
        BY <1>2, <1>3, <1>7 DEF GiveUp
    <2> HIDE DEF K
    <2>2. /\ path' \in Seq(Agents) /\ Len(path') = K /\ \A i \in 1..K : path'[i] = path[i]
        BY <2>1, <1>2, Beginning
    <2>3. /\ rest' \in Seq(SUBSET Agents) /\ Len(rest') = K /\ \A i \in 1..K : rest'[i] = rest[i]
        BY <2>1, <1>2, Beginning
    <2>4. Adjacent' = Adjacent /\ groups' = groups /\ (Searched <=> Searched')
        BY <1>1 DEF Adjacent, searching, Searched
    <2>5. ShowTypeOK'
        BY <2>1, <2>2, <2>3 DEF ShowInv, ShowTypeOK
    <2>6. Late' /\ OfGroups'
        BY <2>1, <2>4 DEF ShowInv, Late, OfGroups
    <2>7. OrderIsACircle'
        BY <2>1, <2>4 DEF ShowInv, OrderIsACircle, IsCircle
    <2>8. InHand'
        <3>1. /\ \A i \in 1..K : path[i] \in hand
              /\ \A i, j \in 1..K : path[i] = path[j] => i = j
            BY <2>1, <1>1 DEF ShowInv, InHand
        <3>2. \A i \in 1..(K - 1) : <<path'[i], path'[i + 1]>> \in Adjacent
            <4>1. \A i \in 1..(K - 1) : i \in 1..K /\ i + 1 \in 1..K /\ i \in 1..(Len(path) - 1)
                BY <2>1, <1>3
            <4> QED BY <4>1, <2>2, <1>1 DEF ShowInv, InHand
        <3>3. ASSUME NEW k \in 1..K
              PROVE  rest'[k] \subseteq {m \in hand : <<path'[k], m>> \in Adjacent} \ {path'[i] : i \in 1..k}
            <4>1. k \in 1..Len(path) /\ \A i \in 1..k : i \in 1..K
                BY <2>1, <1>3
            <4>2. {path'[i] : i \in 1..k} = {path[i] : i \in 1..k}
                BY <4>1, <2>2
            <4>3. rest[k] \subseteq {m \in hand : <<path[k], m>> \in Adjacent} \ {path[i] : i \in 1..k}
                BY <4>1, <1>1 DEF ShowInv, InHand
            <4> QED BY <4>2, <4>3, <2>2, <2>3
        <3>4. path' # <<>> /\ path'[1] = Least(hand)
            BY <2>1, <2>2, <1>2
        <3> QED BY <3>1, <3>2, <3>3, <3>4, <2>1, <2>2, <2>3, <2>4, <1>2 DEF InHand
    <2>9. NotMissed'
        <3>1. ASSUME NEW q \in Circles(hand) PROVE \E k \in 1..K : Ahead(q, k)'
            <4>1. PICK k \in 1..K : Ahead(q, k)
                BY <1>5 DEF K
            <4>2. \A i \in 1..k : i \in 1..K
                BY <2>1
            <4>3. Ahead(q, k)'
                BY <4>1, <4>2, <2>1, <2>2, <2>3 DEF Ahead
            <4> QED BY <4>3
        <3>2. Circles(hand)' = Circles(hand)
            BY <2>1, <2>4 DEF Circles, IsCircle
        <3> QED BY <3>1, <3>2, <2>1, <2>2 DEF NotMissed
    <2> QED BY <2>5, <2>6, <2>7, <2>8, <2>9 DEF ShowInv
<1> QED BY <1>6, <1>7

\* While the search goes on nothing is shown.
LEMMA SearchKeepsShow ==
    ASSUME ShowInv, UNCHANGED showing, ~Searched
    PROVE  ShowInv'
<1>1. hand = {} /\ out = {}
    BY DEF ShowInv, Late
<1>2. hand' = {} /\ out' = {} /\ path' = path /\ rest' = rest
    BY <1>1 DEF showing
<1>3. ShowTypeOK'
    BY <1>2 DEF ShowInv, ShowTypeOK
<1> QED BY <1>2, <1>3 DEF ShowInv, Late, OfGroups, InHand, NotMissed, OrderIsACircle

LEMMA ShowInvStutter ==
    ASSUME ShowInv, UNCHANGED vars
    PROVE  ShowInv'
<1>1. /\ hand' = hand /\ path' = path /\ rest' = rest /\ out' = out
      /\ groups' = groups /\ Adjacent' = Adjacent /\ (Searched <=> Searched')
    BY DEF vars, showing, searching, Adjacent, Searched
<1>2. ShowTypeOK' /\ Late' /\ OfGroups'
    BY <1>1 DEF ShowInv, ShowTypeOK, Late, OfGroups
<1>3. InHand'
    BY <1>1 DEF ShowInv, InHand
<1>4. NotMissed'
    <2>1. Circles(hand)' = Circles(hand)
        BY <1>1 DEF Circles, IsCircle
    <2> QED BY <2>1, <1>1 DEF ShowInv, NotMissed, Ahead
<1>5. OrderIsACircle'
    BY <1>1 DEF ShowInv, OrderIsACircle, IsCircle
<1> QED BY <1>2, <1>3, <1>4, <1>5 DEF ShowInv

LEMMA ShowInvNext ==
    ASSUME Inv, [Next]_vars
    PROVE  ShowInv'
<1> USE DEF Inv
<1>1. ASSUME NEW v \in Agents, Begin(v) \/ Descend(v) \/ Back(v) PROVE ~Searched
    BY <1>1 DEF Begin, Descend, Back, ComesTo, First, Searched
<1>2. ASSUME Leave PROVE ~Searched
    BY <1>2 DEF Leave, Searched
<1>3. CASE /\ \/ \E v \in Agents : Begin(v) \/ Descend(v) \/ Back(v)
              \/ Leave
           /\ UNCHANGED showing
    BY <1>1, <1>2, <1>3, SearchKeepsShow
<1>4. CASE \/ \E m \in Agents : Walk(m)
           \/ Ordered \/ GiveUp
           \/ \E g \in groups : Take(g)
    BY <1>4, WalkKeeps, OrderedKeeps, GiveUpKeeps, TakeKeeps
<1>5. CASE UNCHANGED vars
    BY <1>5, ShowInvStutter
<1> QED BY <1>3, <1>4, <1>5, StepKinds

-----------------------------------------------------------------------------
(* The theorems.                                                           *)

LEMMA InvAlways == Spec => []Inv
<1>1. Init => Inv
    BY SearchInvInit, ShowInvInit DEF Inv
<1>2. Inv /\ [Next]_vars => Inv'
    BY SearchInvNext, ShowInvNext DEF Inv
<1> QED BY <1>1, <1>2, PTL DEF Spec

\* The variables of the search and of the walk keep their types.
THEOREM WaitGraphTypes == Spec => []TypeOK
<1>1. Inv => TypeOK
    BY DEF Inv, SearchInv, ShowInv, TypeOK
<1> QED BY <1>1, InvAlways, PTL

\* For every finite set of agents and every graph of waits, DetectWaitCycles
\* finds exactly the groups of mutual waits.
THEOREM SearchFindsMutualWaits == Spec => []FindsMutualWaits
<1>1. ASSUME Inv, Finished PROVE {c.group : c \in out} = Groups(edges)
    <2>1. groups = Groups(edges)
        BY <1>1, FoundAll DEF Inv, Finished
    <2>2. {c.group : c \in out} \subseteq groups
        BY <1>1 DEF Inv, ShowInv, OfGroups
    <2>3. groups \subseteq {c.group : c \in out}
        BY <1>1 DEF Finished, pending
    <2> QED BY <2>1, <2>2, <2>3
<1>2. Inv => FindsMutualWaits
    BY <1>1 DEF FindsMutualWaits
<1> QED BY <1>2, InvAlways, PTL

\* hamiltonCycle shows only circles, and finds one of every group that has one
\* and is not too large.
THEOREM OrdersAreCircles == Spec => []OrderIsACircle
<1>1. Inv => OrderIsACircle
    BY DEF Inv, ShowInv
<1> QED BY <1>1, InvAlways, PTL

=============================================================================
