----------------------------- MODULE WaitGraph -----------------------------
(***************************************************************************)
(* DetectWaitCycles (src/internal/store/coordwait.go) as it is coded, one  *)
(* step for each turn of its loops: first the search for mutual waits      *)
(* (Tarjan's algorithm), then for each group hamiltonCycle, which looks by *)
(* backtracking for an order to show it in.  The recursion of visit is the *)
(* sequence of its calls in progress, that of walk the path so far.        *)
(* Agents are numbers so that they have an order.                          *)
(***************************************************************************)
EXTENDS MutualWaits, Integers, Sequences, FiniteSets

CONSTANT MaxOrdered     \* maxOrderedCycle

ASSUME GraphAssumption == Agents \subseteq Nat /\ IsFiniteSet(Agents) /\ MaxOrdered \in Nat

VARIABLES
    edges,    \* who waits on whom, oneself included
    order,    \* the agents the outer loop has not come to
    calls,    \* the calls of visit in progress, the last one innermost
    left,     \* the neighbours the call for an agent has not come to
    index, low, next, stack, groups,
    hand,     \* the group that is put in order
    path,     \* the beginning of its order
    rest,     \* at each place of path, who may come next and was not tried
    out       \* the groups that are done, each with its order, or <<>>

searching == <<calls, left, index, low, next, stack, groups>>
showing == <<hand, path, rest, out>>
vars == <<edges, order, searching, showing>>

NotSeen == -1

\* The agents that have an index.
seen == {v \in Agents : index[v] # NotSeen}

\* adj: a wait on oneself does not count.
Adjacent == {e \in edges : e[1] # e[2]}

neighbours(v) == {w \in Agents : <<v, w>> \in Adjacent}

nodes == {v \in Agents : \E w \in Agents : <<v, w>> \in Adjacent \/ <<w, v>> \in Adjacent}

SearchTypeOK ==
    /\ edges \subseteq Agents \X Agents
    /\ order \subseteq Agents
    /\ calls \in Seq(Agents)
    /\ left \in [Agents -> SUBSET Agents]
    /\ next \in Nat
    /\ index \in [Agents -> Nat \union {NotSeen}]
    /\ low \in [Agents -> Nat \union {NotSeen}]
    /\ stack \in Seq(Agents)
    /\ groups \subseteq SUBSET Agents

ShowTypeOK ==
    /\ hand \subseteq Agents
    /\ path \in Seq(Agents)
    /\ rest \in Seq(SUBSET Agents)
    /\ out \subseteq [group : SUBSET Agents, order : Seq(Agents)]

TypeOK == SearchTypeOK /\ ShowTypeOK

Init ==
    /\ edges \in SUBSET (Agents \X Agents)
    /\ order = nodes
    /\ calls = <<>>
    /\ left = [v \in Agents |-> {}]
    /\ next = 0
    /\ index = [v \in Agents |-> NotSeen]
    /\ low = [v \in Agents |-> NotSeen]
    /\ stack = <<>>
    /\ groups = {}
    /\ hand = {} /\ path = <<>> /\ rest = <<>> /\ out = {}

-----------------------------------------------------------------------------

Smaller(a, b) == IF a < b THEN a ELSE b

\* v is the next in sorted order.
First(S, v) == v \in S /\ \A w \in S : v <= w

\* The agent of the innermost call, and the one whose call made it.
Top == calls[Len(calls)]
Caller == calls[Len(calls) - 1]

onStack == {stack[i] : i \in 1..Len(stack)}

\* visit(v), up to its loop; looked is what the calls so far have left.
Enter(v, looked) ==
    /\ index' = [index EXCEPT ![v] = next]
    /\ low' = [low EXCEPT ![v] = next]
    /\ next' = next + 1
    /\ stack' = Append(stack, v)
    /\ calls' = Append(calls, v)
    /\ left' = [looked EXCEPT ![v] = neighbours(v)]
    /\ UNCHANGED groups

\* The outer loop comes to v.
Begin(v) ==
    /\ calls = <<>> /\ First(order, v)
    /\ order' = order \ {v}
    /\ IF v \notin seen THEN Enter(v, left)
       ELSE UNCHANGED searching
    /\ UNCHANGED <<edges, showing>>

\* The loop of visit comes to w.
ComesTo(w) == calls # <<>> /\ First(left[Top], w)

Looked(w) == [left EXCEPT ![Top] = @ \ {w}]

\* w was not met before.
Descend(w) ==
    /\ ComesTo(w)
    /\ w \notin seen
    /\ Enter(w, Looked(w))
    /\ UNCHANGED <<edges, order, showing>>

\* Mutant: also an agent whose group was found already counts.
CountsAny(w) == TRUE

Counts(w) == w \in onStack

\* w was met before.
Back(w) ==
    /\ ComesTo(w)
    /\ w \in seen
    /\ left' = Looked(w)
    /\ low' = IF Counts(w) THEN [low EXCEPT ![Top] = Smaller(@, index[w])] ELSE low
    /\ UNCHANGED <<edges, order, calls, index, next, stack, groups, showing>>

Bottom == CHOOSE i \in 1..Len(stack) : stack[i] = Top

Popped == {stack[i] : i \in Bottom..Len(stack)}

\* The call of visit ends: the group is on top of the stack, if the agent is at
\* its bottom; and the caller goes on.
Leave ==
    /\ calls # <<>> /\ left[Top] = {}
    /\ IF low[Top] = index[Top]
       THEN /\ stack' = SubSeq(stack, 1, Bottom - 1)
            /\ groups' = IF Len(stack) > Bottom THEN groups \union {Popped} ELSE groups
       ELSE UNCHANGED <<stack, groups>>
    /\ low' = IF Len(calls) > 1 THEN [low EXCEPT ![Caller] = Smaller(@, low[Top])] ELSE low
    /\ calls' = SubSeq(calls, 1, Len(calls) - 1)
    /\ UNCHANGED <<edges, order, left, index, next, showing>>

\* The search has ended.
Searched == order = {} /\ calls = <<>>

-----------------------------------------------------------------------------
(* hamiltonCycle: an order for a group.                                    *)

Least(S) == CHOOSE v \in S : \A w \in S : v <= w

pending == groups \ {c.group : c \in out}

Candidates(g, p) == {m \in g : <<p[Len(p)], m>> \in Adjacent} \ {p[i] : i \in 1..Len(p)}

Shown(g, p) ==
    /\ out' = out \union {[group |-> g, order |-> p]}
    /\ hand' = {} /\ path' = <<>> /\ rest' = <<>>

\* The next group: not put in order when it is too large.
Take(g) ==
    /\ Searched /\ hand = {}
    /\ g \in pending /\ \A h \in pending : Least(g) <= Least(h)
    /\ IF Cardinality(g) > MaxOrdered THEN Shown(g, <<>>)
       ELSE /\ hand' = g
            /\ path' = <<Least(g)>>
            /\ rest' = <<Candidates(g, path')>>
            /\ UNCHANGED out
    /\ UNCHANGED <<edges, order, searching>>

\* The loop of walk comes to m.
Walk(m) ==
    /\ hand # {} /\ First(rest[Len(path)], m)
    /\ path' = Append(path, m)
    /\ rest' = Append([rest EXCEPT ![Len(path)] = @ \ {m}], Candidates(hand, path'))
    /\ UNCHANGED <<edges, order, searching, hand, out>>

\* Mutant: a path through all members passes for a circle.
ClosesAny(p) == TRUE

\* The last waits on the first.
Closes(p) == <<p[Len(p)], p[1]>> \in Adjacent

IsOrder == Len(path) = Cardinality(hand) /\ Closes(path)

\* walk returns true, all the way up.
Ordered == hand # {} /\ IsOrder /\ Shown(hand, path) /\ UNCHANGED <<edges, order, searching>>

\* walk returns false: to the call before it, or for good.
GiveUp ==
    /\ hand # {} /\ rest[Len(path)] = {} /\ ~IsOrder
    /\ IF Len(path) = 1 THEN Shown(hand, <<>>)
       ELSE /\ path' = SubSeq(path, 1, Len(path) - 1)
            /\ rest' = SubSeq(rest, 1, Len(path) - 1)
            /\ UNCHANGED <<hand, out>>
    /\ UNCHANGED <<edges, order, searching>>

-----------------------------------------------------------------------------

Finished == Searched /\ hand = {} /\ pending = {}

\* DetectWaitCycles has returned.
Return == Finished /\ UNCHANGED vars

Next ==
    \/ \E v \in Agents : Begin(v) \/ Descend(v) \/ Back(v) \/ Walk(v)
    \/ Leave \/ Ordered \/ GiveUp \/ Return
    \/ \E g \in groups : Take(g)

Spec == Init /\ [][Next]_vars

-----------------------------------------------------------------------------

\* DetectWaitCycles finds exactly the groups of mutual waits: Tarjan's stack
\* and low numbers compute what the definition by reachability says.
FindsMutualWaits == Finished => {c.group : c \in out} = Groups(edges)

\* p goes through all of g, each waits on the next, the last on the first.
IsCircle(g, p) ==
    /\ Len(p) = Cardinality(g) /\ {p[i] : i \in 1..Len(p)} = g
    /\ \A i \in 1..(Len(p) - 1) : <<p[i], p[i + 1]>> \in Adjacent
    /\ <<p[Len(p)], p[1]>> \in Adjacent

\* hamiltonCycle: the order in which a group is shown is a circle, and when the
\* group is not too large and there is a circle, one is found.
OrderIsACircle ==
    \A c \in out :
        /\ c.order # <<>> => IsCircle(c.group, c.order)
        /\ c.order = <<>> =>
              \/ Cardinality(c.group) > MaxOrdered
              \/ ~\E q \in [1..Cardinality(c.group) -> c.group] : IsCircle(c.group, q)

=============================================================================
