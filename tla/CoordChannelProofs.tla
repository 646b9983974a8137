------------------------- MODULE CoordChannelProofs -------------------------
(***************************************************************************)
(* Proofs about the coordination channel, for any channels, hooks, room    *)
(* length, budget and number of faults.  The inductive invariant Inv adds  *)
(* to the types where a reading position can be (InRoom), what a budget    *)
(* reservation covers (Booked) and who answers for a claim (Custody).      *)
(***************************************************************************)
EXTENDS CoordChannel, TLAPS

\* Nobody reads beyond the room, and a message stays where it was posted.
InRoom ==
    /\ cursor <= top /\ savedPos <= top
    /\ \A p \in Pollers : pos[p] <= top /\ last[p] <= top
    /\ \A p \in Pollers : pc[p] \in {"claim", "notify", "settle"} => pos[p] < top
    /\ page > after => page <= top
    /\ stage \in {"idle", "page"} => page = 0
    /\ \A m \in Messages : log[m] = "none" <=> m > top

\* A poller that is done with a message has seen its claim, and coord_inbox
\* only hides what is claimed.
Claimed ==
    /\ \A p \in Pollers : pc[p] = "settle" => Next1(p) \in injected
    /\ hidden \subseteq injected

\* What the holder of the lock reserved is not booked on any other message.
Booked ==
    /\ charged <= BookedFor
    /\ lock = NoOne /\ faults = 0 => charged = BookedFor
    /\ \A p \in Pollers : pc[p] \in {"claim", "notify"} =>
          /\ exhausted <=> cut[p]
          /\ charged + 1 <= BookedFor
          /\ faults = 0 => charged + 1 = BookedFor

\* A claimed message is in one hand, or it was pushed once, or it is lost.
Custody ==
    /\ \A p \in Pollers : \A m \in InHand(p) :
          m \in injected /\ pushed[m] = 0 /\ m \notin dropped
    /\ \A p, q \in Pollers : p # q => InHand(p) \intersect InHand(q) = {}
    /\ \A p \in Channels : collected[p] = {}
    /\ \A p \in Pollers : pc[p] = "finish" => p \in Hooks
    /\ \A m \in Messages :
          pushed[m] # 0 => pushed[m] = 1 /\ m \in injected /\ m \notin dropped
    /\ dropped \subseteq injected

Inv == TypeOK /\ InRoom /\ Claimed /\ LockHeld /\ Booked /\ Custody /\ ClaimsInHand

-----------------------------------------------------------------------------
(* Type correctness.                                                       *)

LEMMA InFlight ==
    ASSUME Inv, NEW p \in Pollers
    PROVE  /\ pc[p] \in {"claim", "notify", "settle"} =>
                  Next1(p) \in Messages /\ Next1(p) <= top
           /\ \A kinds : AtMessage(p, kinds) => Next1(p) \in Messages /\ Next1(p) <= top
           /\ InHand(p) \in SUBSET Messages
<1> USE ChannelAssumption
      DEF Inv, TypeOK, PollOK, ServerOK, InRoom, Messages, Next1
<1>1. pos[p] \in 0..MaxMessages /\ last[p] <= top /\ top \in 0..MaxMessages
      /\ last[p] \in 0..MaxMessages /\ collected[p] \in SUBSET Messages
  OBVIOUS
<1>2. pc[p] \in {"claim", "notify", "settle"} =>
          Next1(p) \in Messages /\ Next1(p) <= top
  BY <1>1
<1>3. \A kinds : AtMessage(p, kinds) => Next1(p) \in Messages /\ Next1(p) <= top
  BY <1>1 DEF AtMessage
<1> QED BY <1>1, <1>2, <1>3 DEF InHand

LEMMA TypeFrames ==
    /\ ServerOK /\ UNCHANGED serverVars => ServerOK'
    /\ BudgetOK /\ UNCHANGED budgetVars => BudgetOK'
    /\ PollOK /\ UNCHANGED pollVars => PollOK'
    /\ PullOK /\ UNCHANGED pullVars => PullOK'
    /\ SeenOK /\ UNCHANGED seenVars => SeenOK'
    BY DEF ServerOK, BudgetOK, PollOK, PullOK, SeenOK,
           serverVars, budgetVars, pollVars, pullVars, seenVars

LEMMA TypeStep == Inv /\ [Next]_vars => TypeOK'
<1> SUFFICES ASSUME Inv, [Next]_vars PROVE TypeOK' OBVIOUS
<1> USE ChannelAssumption
      DEF Inv, TypeOK, serverVars, budgetVars, pollVars, pullVars, seenVars
<1>1. ASSUME NEW kind \in {"wake", "plain", "own"}, Post(kind) PROVE TypeOK'
  <2>1. UNCHANGED <<budgetVars, pollVars, pullVars, seenVars, faults>>
    BY <1>1 DEF Post
  <2>2. ServerOK'
    BY <1>1 DEF Post, ServerOK, Messages, Pollers, Next1, Larger, Smaller, PollOK, PullOK,
       BudgetOK, InRoom
  <2> QED BY <2>1, <2>2, TypeFrames
<1>2. ASSUME NEW m \in Messages, Expire(m) PROVE TypeOK'
  <2>1. UNCHANGED <<budgetVars, pollVars, pullVars, seenVars, faults>>
    BY <1>2 DEF Expire
  <2>2. ServerOK'
    BY <1>2 DEF Expire, ServerOK, Messages, Pollers, Next1, Larger, Smaller, PollOK, PullOK,
       BudgetOK, InRoom
  <2> QED BY <2>1, <2>2, TypeFrames
<1>3. ASSUME WindowPasses PROVE TypeOK'
  <2>1. UNCHANGED <<serverVars, pollVars, pullVars, seenVars, faults>>
    BY <1>3 DEF WindowPasses
  <2>2. BudgetOK'
    BY <1>3 DEF WindowPasses, BudgetOK, Messages, Pollers, Next1, Larger, Smaller, ServerOK,
       PollOK, PullOK, InRoom, Booked
  <2> QED BY <2>1, <2>2, TypeFrames
<1>4. ASSUME NEW p \in Pollers, StartPoll(p) PROVE TypeOK'
  <2>1. UNCHANGED <<serverVars, budgetVars, pullVars, seenVars, faults>>
    BY <1>4 DEF StartPoll
  <2>2. PollOK'
    BY <1>4 DEF StartPoll, PollOK, Messages, Pollers, Next1, Larger, Smaller, Stages, Over,
       ServerOK, PullOK, BudgetOK, InRoom
  <2> QED BY <2>1, <2>2, TypeFrames
<1>5. ASSUME NEW p \in Pollers, Fetch(p) PROVE TypeOK'
  <2>1. UNCHANGED <<serverVars, budgetVars, pullVars, seenVars, faults>>
    BY <1>5 DEF Fetch
  <2>2. PollOK'
    <3>1. Smaller(top, pos[p] + InboxLimit) \in 0..MaxMessages
      BY DEF PollOK, ServerOK, Smaller
    <3> QED BY <1>5, <3>1 DEF Fetch, PollOK, Stages
  <2> QED BY <2>1, <2>2, TypeFrames
<1>6. ASSUME NEW p \in Pollers, EndPoll(p) PROVE TypeOK'
  <2>1. UNCHANGED <<serverVars, budgetVars, pullVars, seenVars, faults>>
    BY <1>6 DEF EndPoll, Leave, Return
  <2>2. PollOK'
    BY <1>6 DEF EndPoll, Leave, Return, PollOK, Messages, Pollers, Next1, Larger, Smaller,
       Stages, Over, ServerOK, PullOK, BudgetOK, InRoom
  <2> QED BY <2>1, <2>2, TypeFrames
<1>7. ASSUME NEW p \in Pollers, PassOver(p) PROVE TypeOK'
  <2>1. UNCHANGED <<serverVars, budgetVars, pullVars, seenVars, faults>>
    BY <1>7 DEF PassOver, AtMessage
  <2>2. PollOK'
    BY <1>7 DEF PassOver, AtMessage, PollOK, Messages, Pollers, Next1, Larger, Smaller,
       Stages, Over, ServerOK, PullOK, BudgetOK, InRoom
  <2> QED BY <2>1, <2>2, TypeFrames
<1>8. ASSUME NEW p \in Pollers, Reserve(p) PROVE TypeOK'
  <2>1. UNCHANGED <<serverVars, pullVars, seenVars, faults>>
    BY <1>8 DEF Reserve, AtMessage
  <2>2. BudgetOK'
    <3>1. lock' \in Pollers \union {NoOne} /\ aged' \in BOOLEAN
      BY <1>8 DEF Reserve
    <3>2. exhausted' = TRUE \/ exhausted' = FALSE
      BY <1>8, SMT DEF Reserve
    <3>3. reserved' \in 0..BudgetLimit
      BY <1>8 DEF Reserve, BudgetOK, Smaller
    <3>4. charged' \in Nat
      BY <1>8 DEF Reserve, BudgetOK
    <3> QED BY <3>1, <3>2, <3>3, <3>4 DEF BudgetOK
  <2>3. PollOK'
    BY <1>8 DEF Reserve, PollOK, Stages
  <2> QED BY <2>1, <2>2, <2>3, TypeFrames
<1>9. ASSUME NEW p \in Pollers, Stall(p) PROVE TypeOK'
  <2>1. UNCHANGED <<serverVars, budgetVars, pullVars, seenVars, faults>>
    BY <1>9 DEF Stall, AtMessage, Leave, Return
  <2>2. PollOK'
    BY <1>9 DEF Stall, AtMessage, Leave, Return, PollOK, Messages, Pollers, Next1, Larger,
       Smaller, Stages, Over, ServerOK, PullOK, BudgetOK, InRoom
  <2> QED BY <2>1, <2>2, TypeFrames
<1>10. ASSUME NEW p \in Pollers, Busy(p) PROVE TypeOK'
  <2>1. UNCHANGED <<serverVars, budgetVars, pullVars, seenVars, faults>>
    BY <1>10 DEF Busy, AtMessage, Leave, Return
  <2>2. PollOK'
    BY <1>10 DEF Busy, AtMessage, Leave, Return, PollOK, Messages, Pollers, Next1, Larger,
       Smaller, Stages, Over, ServerOK, PullOK, BudgetOK, InRoom
  <2> QED BY <2>1, <2>2, TypeFrames
<1>11. ASSUME NEW p \in Pollers, WinClaim(p) PROVE TypeOK'
  <2>1. UNCHANGED <<budgetVars, pullVars, seenVars, faults>>
    BY <1>11 DEF WinClaim
  <2>2. ServerOK'
    BY <1>11, InFlight DEF WinClaim, ServerOK
  <2>3. PollOK'
    BY <1>11 DEF WinClaim, PollOK, Messages, Pollers, Next1, Larger, Smaller, Stages, Over,
       ServerOK, PullOK, BudgetOK, InRoom
  <2> QED BY <2>1, <2>2, <2>3, TypeFrames
<1>12. ASSUME NEW p \in Pollers, LoseClaim(p) PROVE TypeOK'
  <2>1. UNCHANGED <<serverVars, pullVars, seenVars, faults>>
    BY <1>12 DEF LoseClaim, Refund
  <2>2. BudgetOK'
    <3>1. lock' = NoOne /\ exhausted' = FALSE /\ aged' = aged /\ charged' = charged
      BY <1>12 DEF LoseClaim, Refund
    <3>2. reserved' = IF cut[p] THEN reserved ELSE reserved - 1
      BY <1>12 DEF LoseClaim, Refund
    <3>3. ~cut[p] => charged + 1 <= reserved
      <4>1. (exhausted <=> cut[p]) /\ charged + 1 <= BookedFor
        BY <1>12 DEF LoseClaim, Booked
      <4> QED BY <4>1 DEF BookedFor, BudgetOK
    <3>4. reserved' \in 0..BudgetLimit
      BY <3>2, <3>3 DEF BudgetOK
    <3> QED BY <3>1, <3>4 DEF BudgetOK
  <2>3. PollOK'
    BY <1>12 DEF LoseClaim, Refund, PollOK, Messages, Pollers, Next1, Larger, Smaller,
       Stages, Over, ServerOK, PullOK, BudgetOK, InRoom
  <2> QED BY <2>1, <2>2, <2>3, TypeFrames
<1>13. ASSUME NEW p \in Pollers, Notify(p) PROVE TypeOK'
  <2>1. UNCHANGED <<serverVars, pullVars, faults>>
    BY <1>13 DEF Notify, Spend, Hand
  <2>2. BudgetOK'
    BY <1>13 DEF Notify, Spend, Hand, BudgetOK, Messages, Pollers, Next1, Larger, Smaller,
       ServerOK, PollOK, PullOK, InRoom, Booked
  <2>3. PollOK'
    <3>1. collected' \in [Pollers -> SUBSET Messages]
      BY <1>13, InFlight DEF Notify, PollOK
    <3>2. pc' \in [Pollers -> Stages] /\ cut' \in [Pollers -> BOOLEAN]
      BY <1>13 DEF Notify, Spend, PollOK, Stages
    <3> QED BY <1>13, <3>1, <3>2 DEF Notify, PollOK
  <2>4. SeenOK'
    BY <1>13, InFlight DEF Notify, Hand, SeenOK
  <2> QED BY <2>1, <2>2, <2>3, <2>4, TypeFrames
<1>14. ASSUME NEW p \in Pollers, Settle(p) PROVE TypeOK'
  <2>1. UNCHANGED <<budgetVars, pullVars, seenVars, faults>>
    BY <1>14 DEF Settle, MovesCursor
  <2>2. ServerOK'
    BY <1>14 DEF Settle, MovesCursor, ServerOK, Messages, Pollers, Next1, Larger, Smaller,
       PollOK, PullOK, BudgetOK, InRoom
  <2>3. PollOK'
    BY <1>14, InFlight DEF Settle, PollOK, Stages, Messages
  <2> QED BY <2>1, <2>2, <2>3, TypeFrames
<1>15. ASSUME NEW p \in Pollers, FinishHook(p) PROVE TypeOK'
  <2>1. UNCHANGED <<serverVars, budgetVars, pullVars, faults>>
    BY <1>15 DEF FinishHook, Hand
  <2>2. PollOK'
    BY <1>15 DEF FinishHook, Hand, PollOK, Messages, Pollers, Next1, Larger, Smaller,
       Stages, Over, ServerOK, PullOK, BudgetOK, InRoom
  <2>3. SeenOK'
    BY <1>15 DEF FinishHook, Hand, SeenOK, pollVars
  <2> QED BY <2>1, <2>2, <2>3, TypeFrames
<1>16. ASSUME NEW p \in Pollers, ClaimFails(p) PROVE TypeOK'
  <2>1. UNCHANGED <<pullVars>>
    BY <1>16 DEF ClaimFails, Fails, Refund, Return
  <2>2. ServerOK'
    BY <1>16, InFlight DEF ClaimFails, ServerOK
  <2>3. BudgetOK'
    <3>1. lock' = NoOne /\ exhausted' = FALSE /\ aged' = aged /\ charged' = charged
      BY <1>16 DEF ClaimFails, Refund
    <3>2. reserved' = IF cut[p] THEN reserved ELSE reserved - 1
      BY <1>16 DEF ClaimFails, Refund
    <3>3. ~cut[p] => charged + 1 <= reserved
      <4>1. (exhausted <=> cut[p]) /\ charged + 1 <= BookedFor
        BY <1>16 DEF ClaimFails, Booked
      <4> QED BY <4>1 DEF BookedFor, BudgetOK
    <3>4. reserved' \in 0..BudgetLimit
      BY <3>2, <3>3 DEF BudgetOK
    <3> QED BY <3>1, <3>4 DEF BudgetOK
  <2>4. PollOK'
    BY <1>16 DEF ClaimFails, Fails, Refund, Return, PollOK, Messages, Pollers, Next1,
       Larger, Smaller, Stages, Over, ServerOK, PullOK, BudgetOK, InRoom
  <2>5. SeenOK'
    BY <1>16, InFlight DEF ClaimFails, SeenOK
  <2>6. faults' \in 0..MaxFaults
    BY <1>16 DEF ClaimFails, Fails, Refund, Return, Messages, Pollers, Next1, Larger,
       Smaller, ServerOK, PollOK, PullOK, BudgetOK, InRoom
  <2> QED BY <2>1, <2>2, <2>3, <2>4, <2>5, <2>6, TypeFrames
<1>17. ASSUME NEW p \in Pollers, NotifyFails(p) PROVE TypeOK'
  <2>1. UNCHANGED <<serverVars, pullVars>>
    BY <1>17 DEF NotifyFails, Fails, Spend, Return
  <2>2. BudgetOK'
    BY <1>17 DEF NotifyFails, Fails, Spend, Return, BudgetOK, Messages, Pollers, Next1,
       Larger, Smaller, ServerOK, PollOK, PullOK, InRoom, Booked
  <2>3. PollOK'
    BY <1>17 DEF NotifyFails, Fails, Spend, Return, PollOK, Messages, Pollers, Next1,
       Larger, Smaller, Stages, Over, ServerOK, PullOK, BudgetOK, InRoom
  <2>4. SeenOK'
    BY <1>17, InFlight DEF NotifyFails, SeenOK
  <2>5. faults' \in 0..MaxFaults
    BY <1>17 DEF NotifyFails, Fails, Spend, Return, Messages, Pollers, Next1, Larger,
       Smaller, ServerOK, PollOK, PullOK, BudgetOK, InRoom
  <2> QED BY <2>1, <2>2, <2>3, <2>4, <2>5, TypeFrames
<1>18. ASSUME NEW p \in Pollers, SettleFails(p) PROVE TypeOK'
  <2>1. UNCHANGED <<budgetVars, pullVars, seenVars>>
    BY <1>18 DEF SettleFails, Fails, MovesCursor, Return
  <2>2. ServerOK'
    BY <1>18 DEF SettleFails, Fails, MovesCursor, Return, ServerOK, Messages, Pollers,
       Next1, Larger, Smaller, PollOK, PullOK, BudgetOK, InRoom
  <2>3. PollOK'
    BY <1>18 DEF SettleFails, Fails, MovesCursor, Return, PollOK, Messages, Pollers, Next1,
       Larger, Smaller, Stages, Over, ServerOK, PullOK, BudgetOK, InRoom
  <2>4. faults' \in 0..MaxFaults
    BY <1>18 DEF SettleFails, Fails, MovesCursor, Return, Messages, Pollers, Next1, Larger,
       Smaller, ServerOK, PollOK, PullOK, BudgetOK, InRoom
  <2> QED BY <2>1, <2>2, <2>3, <2>4, TypeFrames
<1>19. ASSUME NEW p \in Pollers, PollFails(p) PROVE TypeOK'
  <2>1. UNCHANGED <<serverVars, budgetVars, pullVars, seenVars>>
    BY <1>19 DEF PollFails, Fails, Leave, Return
  <2>2. PollOK'
    BY <1>19 DEF PollFails, Fails, Leave, Return, PollOK, Messages, Pollers, Next1, Larger,
       Smaller, Stages, Over, ServerOK, PullOK, BudgetOK, InRoom
  <2>3. faults' \in 0..MaxFaults
    BY <1>19 DEF PollFails, Fails, Leave, Return, Messages, Pollers, Next1, Larger, Smaller,
       ServerOK, PollOK, PullOK, BudgetOK, InRoom
  <2> QED BY <2>1, <2>2, <2>3, TypeFrames
<1>20. ASSUME NEW p \in Pollers, Crash(p) PROVE TypeOK'
  <2>1. UNCHANGED <<serverVars, pullVars>>
    BY <1>20 DEF Crash, Fails
  <2>2. BudgetOK'
    BY <1>20 DEF Crash, Fails, BudgetOK, Messages, Pollers, Next1, Larger, Smaller,
       ServerOK, PollOK, PullOK, InRoom, Booked
  <2>3. PollOK'
    BY <1>20 DEF Crash, Fails, PollOK, Messages, Pollers, Next1, Larger, Smaller, Stages,
       Over, ServerOK, PullOK, BudgetOK, InRoom
  <2>4. SeenOK'
    BY <1>20, InFlight DEF Crash, SeenOK
  <2>5. faults' \in 0..MaxFaults
    BY <1>20 DEF Crash, Fails, Messages, Pollers, Next1, Larger, Smaller, ServerOK, PollOK,
       PullOK, BudgetOK, InRoom
  <2> QED BY <2>1, <2>2, <2>3, <2>4, <2>5, TypeFrames
<1>21. ASSUME StartInbox PROVE TypeOK'
  <2>1. UNCHANGED <<serverVars, budgetVars, pollVars, seenVars, faults>>
    BY <1>21 DEF StartInbox
  <2>2. PullOK'
    BY <1>21 DEF StartInbox, PullOK, Messages, Pollers, Next1, Larger, Smaller, ServerOK,
       PollOK, BudgetOK, InRoom
  <2> QED BY <2>1, <2>2, TypeFrames
<1>22. ASSUME StartInboxBlind PROVE TypeOK'
  <2>1. UNCHANGED <<serverVars, budgetVars, pollVars, seenVars>>
    BY <1>22 DEF StartInboxBlind, Fails
  <2>2. PullOK'
    BY <1>22 DEF StartInboxBlind, Fails, PullOK, Messages, Pollers, Next1, Larger, Smaller,
       ServerOK, PollOK, BudgetOK, InRoom
  <2>3. faults' \in 0..MaxFaults
    BY <1>22 DEF StartInboxBlind, Fails, Messages, Pollers, Next1, Larger, Smaller,
       ServerOK, PollOK, PullOK, BudgetOK, InRoom
  <2> QED BY <2>1, <2>2, <2>3, TypeFrames
<1>23. ASSUME FetchInbox PROVE TypeOK'
  <2>1. UNCHANGED <<serverVars, budgetVars, pollVars, seenVars, faults>>
    BY <1>23 DEF FetchInbox
  <2>2. PullOK'
    BY <1>23 DEF FetchInbox, PullOK, Messages, Pollers, Next1, Larger, Smaller, ServerOK,
       PollOK, BudgetOK, InRoom
  <2> QED BY <2>1, <2>2, TypeFrames
<1>24. ASSUME ReadInjected PROVE TypeOK'
  <2>1. UNCHANGED <<serverVars, budgetVars, pollVars, seenVars, faults>>
    BY <1>24 DEF ReadInjected
  <2>2. PullOK'
    BY <1>24 DEF ReadInjected, PullOK, Messages, Pollers, Next1, Larger, Smaller, ServerOK,
       PollOK, BudgetOK, InRoom
  <2> QED BY <2>1, <2>2, TypeFrames
<1>25. ASSUME ShowInbox PROVE TypeOK'
  <2>1. UNCHANGED <<budgetVars, pollVars, faults>>
    BY <1>25 DEF ShowInbox, EndInbox, PageCursor, Shown
  <2>2. ServerOK'
    BY <1>25 DEF ShowInbox, EndInbox, PageCursor, Shown, ServerOK, Messages,
       Pollers, Next1, Larger, Smaller, PollOK, PullOK, BudgetOK, InRoom
  <2>3. PullOK'
    BY <1>25 DEF ShowInbox, EndInbox, PageCursor, Shown, PullOK, Messages, Pollers,
       Next1, Larger, Smaller, ServerOK, PollOK, BudgetOK, InRoom
  <2>4. SeenOK'
    <3>1. Shown \in SUBSET Messages
      BY DEF Shown, PullOK, ServerOK, Messages
    <3> QED BY <1>25, <3>1 DEF ShowInbox, EndInbox, SeenOK
  <2> QED BY <2>1, <2>2, <2>3, <2>4, TypeFrames
<1>26. ASSUME InboxFails PROVE TypeOK'
  <2>1. UNCHANGED <<budgetVars, pollVars>>
    BY <1>26 DEF InboxFails, Fails, EndInbox, PageCursor, Shown
  <2>2. ServerOK'
    BY <1>26 DEF InboxFails, Fails, EndInbox, PageCursor, Shown, ServerOK, Messages,
       Pollers, Next1, Larger, Smaller, PollOK, PullOK, BudgetOK, InRoom
  <2>3. PullOK'
    BY <1>26 DEF InboxFails, Fails, EndInbox, PageCursor, Shown, PullOK, Messages,
       Pollers, Next1, Larger, Smaller, ServerOK, PollOK, BudgetOK, InRoom
  <2>4. SeenOK'
    <3>1. Shown \in SUBSET Messages
      BY DEF Shown, PullOK, ServerOK, Messages
    <3> QED BY <1>26, <3>1 DEF InboxFails, EndInbox, SeenOK
  <2>5. faults' \in 0..MaxFaults
    BY <1>26 DEF InboxFails, Fails, EndInbox, PageCursor, Shown, Messages, Pollers,
       Next1, Larger, Smaller, ServerOK, PollOK, PullOK, BudgetOK, InRoom
  <2> QED BY <2>1, <2>2, <2>3, <2>4, <2>5, TypeFrames
<1>27. ASSUME UNCHANGED vars PROVE TypeOK'
  BY <1>27, TypeFrames DEF vars
<1> QED
  BY <1>1, <1>2, <1>3, <1>4, <1>5, <1>6, <1>7, <1>8, <1>9, <1>10, <1>11, <1>12, <1>13,
     <1>14, <1>15, <1>16, <1>17, <1>18, <1>19, <1>20, <1>21, <1>22, <1>23, <1>24, <1>25,
     <1>26, <1>27 DEF Next, Proceed, Fault, Inbox

-----------------------------------------------------------------------------
(* Steps that change little.                                               *)

\* The ways out of a page that change nothing else.
Leaving(p) == EndPoll(p) \/ Stall(p) \/ Busy(p) \/ PollFails(p)

LEMMA LeavingPage ==
    ASSUME NEW p \in Pollers, Leaving(p)
    PROVE  /\ pc[p] \in {"fetch", "each"} /\ Leave(p)
           /\ faults' \in {faults, faults + 1}
    BY DEF Leaving, EndPoll, Stall, Busy, PollFails, AtMessage, Fails

\* coord_inbox touches neither the pollers nor the claims.
Pulling == Inbox \/ StartInboxBlind \/ InboxFails

LEMMA PullingUntouched ==
    ASSUME Pulling
    PROVE  /\ UNCHANGED <<log, top, injected, budgetVars, pollVars, pushed, dropped>>
           /\ faults' \in {faults, faults + 1}
    BY DEF Pulling, Inbox, StartInbox, StartInboxBlind, FetchInbox, ReadInjected, ShowInbox,
           InboxFails, EndInbox, Fails, serverVars, seenVars

-----------------------------------------------------------------------------
(* The parts of the invariant, one step at a time.                         *)

LEMMA LockStep == Inv /\ [Next]_vars => LockHeld'
<1> SUFFICES ASSUME Inv, [Next]_vars PROVE LockHeld' OBVIOUS
<1> USE ChannelAssumption
      DEF Inv, TypeOK, serverVars, budgetVars, pollVars, pullVars, seenVars
<1>1. ASSUME NEW kind \in {"wake", "plain", "own"}, Post(kind) PROVE LockHeld'
  BY <1>1 DEF Post, LockHeld, BudgetOK, PollOK, Stages, Over, AtMessage
<1>2. ASSUME NEW m \in Messages, Expire(m) PROVE LockHeld'
  BY <1>2 DEF Expire, LockHeld, BudgetOK, PollOK, Stages, Over, AtMessage
<1>3. ASSUME WindowPasses PROVE LockHeld'
  BY <1>3 DEF WindowPasses, LockHeld, BudgetOK, PollOK, Stages, Over, AtMessage
<1>4. ASSUME NEW p \in Pollers, StartPoll(p) PROVE LockHeld'
  BY <1>4 DEF StartPoll, LockHeld, BudgetOK, PollOK, Stages, Over, AtMessage
<1>5. ASSUME NEW p \in Pollers, Fetch(p) PROVE LockHeld'
  BY <1>5 DEF Fetch, LockHeld, BudgetOK, PollOK, Stages, Over, AtMessage
<1>6. ASSUME NEW p \in Pollers, Leaving(p) PROVE LockHeld'
  BY <1>6, LeavingPage DEF Leave, Return, LockHeld, BudgetOK, PollOK, Stages, Over, AtMessage
<1>7. ASSUME NEW p \in Pollers, PassOver(p) PROVE LockHeld'
  BY <1>7 DEF PassOver, AtMessage, LockHeld, BudgetOK, PollOK, Stages, Over
<1>8. ASSUME NEW p \in Pollers, Reserve(p) PROVE LockHeld'
  BY <1>8 DEF Reserve, AtMessage, LockHeld, BudgetOK, PollOK, Stages, Over
<1>9. ASSUME NEW p \in Pollers, WinClaim(p) PROVE LockHeld'
  BY <1>9 DEF WinClaim, LockHeld, BudgetOK, PollOK, Stages, Over, AtMessage
<1>10. ASSUME NEW p \in Pollers, LoseClaim(p) PROVE LockHeld'
  BY <1>10 DEF LoseClaim, Refund, LockHeld, BudgetOK, PollOK, Stages, Over, AtMessage
<1>11. ASSUME NEW p \in Pollers, Notify(p) PROVE LockHeld'
  BY <1>11 DEF Notify, Spend, Hand, LockHeld, BudgetOK, PollOK, Stages, Over, AtMessage
<1>12. ASSUME NEW p \in Pollers, Settle(p) PROVE LockHeld'
  BY <1>12 DEF Settle, MovesCursor, LockHeld, BudgetOK, PollOK, Stages, Over, AtMessage
<1>13. ASSUME NEW p \in Pollers, FinishHook(p) PROVE LockHeld'
  BY <1>13 DEF FinishHook, Hand, LockHeld, BudgetOK, PollOK, Stages, Over, AtMessage
<1>14. ASSUME NEW p \in Pollers, ClaimFails(p) PROVE LockHeld'
  BY <1>14 DEF ClaimFails, Fails, Refund, Return, LockHeld, BudgetOK, PollOK, Stages, Over,
     AtMessage
<1>15. ASSUME NEW p \in Pollers, NotifyFails(p) PROVE LockHeld'
  BY <1>15 DEF NotifyFails, Fails, Spend, Return, LockHeld, BudgetOK, PollOK, Stages, Over,
     AtMessage
<1>16. ASSUME NEW p \in Pollers, SettleFails(p) PROVE LockHeld'
  BY <1>16 DEF SettleFails, Fails, MovesCursor, Return, LockHeld, BudgetOK, PollOK, Stages,
     Over, AtMessage
<1>17. ASSUME NEW p \in Pollers, Crash(p) PROVE LockHeld'
  BY <1>17 DEF Crash, Fails, LockHeld, BudgetOK, PollOK, Stages, Over, AtMessage
<1>18. ASSUME Pulling PROVE LockHeld'
  BY <1>18, PullingUntouched DEF LockHeld, BudgetOK, PollOK, Stages, Over, AtMessage
<1>19. ASSUME UNCHANGED vars PROVE LockHeld'
  BY <1>19 DEF vars, LockHeld, BudgetOK, PollOK, Stages, Over, AtMessage
<1> QED
  BY <1>1, <1>2, <1>3, <1>4, <1>5, <1>6, <1>7, <1>8, <1>9, <1>10, <1>11, <1>12, <1>13,
     <1>14, <1>15, <1>16, <1>17, <1>18, <1>19 DEF Next, Proceed, Fault, Leaving, Pulling

LEMMA ClaimedStep == Inv /\ [Next]_vars => Claimed'
<1> SUFFICES ASSUME Inv, [Next]_vars PROVE Claimed' OBVIOUS
<1> USE ChannelAssumption
      DEF Inv, TypeOK, serverVars, budgetVars, pollVars, pullVars, seenVars
<1>1. ASSUME NEW kind \in {"wake", "plain", "own"}, Post(kind) PROVE Claimed'
  BY <1>1 DEF Post, Claimed, PollOK, Over, Next1, ServerOK
<1>2. ASSUME NEW m \in Messages, Expire(m) PROVE Claimed'
  BY <1>2 DEF Expire, Claimed, PollOK, Over, Next1, ServerOK
<1>3. ASSUME WindowPasses PROVE Claimed'
  BY <1>3 DEF WindowPasses, Claimed, PollOK, Over, Next1, ServerOK
<1>4. ASSUME NEW p \in Pollers, StartPoll(p) PROVE Claimed'
  BY <1>4 DEF StartPoll, Claimed, PollOK, Over, Next1, ServerOK
<1>5. ASSUME NEW p \in Pollers, Fetch(p) PROVE Claimed'
  BY <1>5 DEF Fetch, Claimed, PollOK, Over, Next1, ServerOK
<1>6. ASSUME NEW p \in Pollers, Leaving(p) PROVE Claimed'
  BY <1>6, LeavingPage DEF Leave, Return, Claimed, PollOK, Over, Next1, ServerOK
<1>7. ASSUME NEW p \in Pollers, PassOver(p) PROVE Claimed'
  BY <1>7 DEF PassOver, AtMessage, Claimed, PollOK, Over, Next1, ServerOK
<1>8. ASSUME NEW p \in Pollers, Reserve(p) PROVE Claimed'
  BY <1>8 DEF Reserve, AtMessage, Claimed, PollOK, Over, Next1, ServerOK
<1>9. ASSUME NEW p \in Pollers, WinClaim(p) PROVE Claimed'
  BY <1>9 DEF WinClaim, Claimed, PollOK, Over, Next1, ServerOK
<1>10. ASSUME NEW p \in Pollers, LoseClaim(p) PROVE Claimed'
  BY <1>10 DEF LoseClaim, Refund, Claimed, PollOK, Over, Next1, ServerOK
<1>11. ASSUME NEW p \in Pollers, Notify(p) PROVE Claimed'
  BY <1>11 DEF Notify, Claimed, Custody, InHand, PollOK, Next1, serverVars, pullVars
<1>12. ASSUME NEW p \in Pollers, Settle(p) PROVE Claimed'
  BY <1>12 DEF Settle, MovesCursor, Claimed, PollOK, Over, Next1, ServerOK
<1>13. ASSUME NEW p \in Pollers, FinishHook(p) PROVE Claimed'
  BY <1>13 DEF FinishHook, Hand, Claimed, PollOK, Over, Next1, ServerOK
<1>14. ASSUME NEW p \in Pollers, ClaimFails(p) PROVE Claimed'
  BY <1>14 DEF ClaimFails, Fails, Refund, Return, Claimed, PollOK, Over, Next1, ServerOK
<1>15. ASSUME NEW p \in Pollers, NotifyFails(p) PROVE Claimed'
  BY <1>15 DEF NotifyFails, Fails, Spend, Return, Claimed, PollOK, Over, Next1, ServerOK
<1>16. ASSUME NEW p \in Pollers, SettleFails(p) PROVE Claimed'
  BY <1>16 DEF SettleFails, Fails, MovesCursor, Return, Claimed, PollOK, Over, Next1, ServerOK
<1>17. ASSUME NEW p \in Pollers, Crash(p) PROVE Claimed'
  BY <1>17 DEF Crash, Fails, Claimed, PollOK, Over, Next1, ServerOK
<1>18. ASSUME Pulling PROVE Claimed'
  <2>1. hidden' \subseteq injected
    BY <1>18 DEF Claimed, Pulling, Inbox, StartInbox, StartInboxBlind, FetchInbox, ReadInjected,
       ShowInbox, InboxFails, EndInbox
  <2> QED BY <2>1, <1>18, PullingUntouched DEF Claimed, Next1, pollVars
<1>19. ASSUME UNCHANGED vars PROVE Claimed'
  BY <1>19 DEF vars, Claimed, PollOK, Over, Next1, ServerOK
<1> QED
  BY <1>1, <1>2, <1>3, <1>4, <1>5, <1>6, <1>7, <1>8, <1>9, <1>10, <1>11, <1>12, <1>13,
     <1>14, <1>15, <1>16, <1>17, <1>18, <1>19 DEF Next, Proceed, Fault, Leaving, Pulling

LEMMA PullCursor ==
    ASSUME Inv, Pulling
    PROVE  /\ cursor' \in cursor..top
           /\ page' > after' => page' <= top
           /\ stage' \in {"idle", "page"} => page' = 0
<1> USE ChannelAssumption DEF Inv, TypeOK, ServerOK, PullOK, InRoom, Larger, Smaller
<1>1. PageCursor \in cursor..top
  BY DEF PageCursor
<1>2. CASE ShowInbox BY <1>1, <1>2 DEF ShowInbox, EndInbox
<1>3. CASE InboxFails BY <1>1, <1>3 DEF InboxFails, EndInbox
<1>4. CASE FetchInbox BY <1>4 DEF FetchInbox, serverVars
<1>5. CASE StartInbox \/ StartInboxBlind \/ ReadInjected
  BY <1>5 DEF StartInbox, StartInboxBlind, ReadInjected, serverVars
<1> QED BY <1>2, <1>3, <1>4, <1>5 DEF Pulling, Inbox

LEMMA RoomStep == Inv /\ [Next]_vars => InRoom'
<1> SUFFICES ASSUME Inv, [Next]_vars PROVE InRoom' OBVIOUS
<1> USE ChannelAssumption
      DEF Inv, TypeOK, serverVars, budgetVars, pollVars, pullVars, seenVars
<1>1. ASSUME NEW kind \in {"wake", "plain", "own"}, Post(kind) PROVE InRoom'
  <2>1. top' = top + 1 /\ top \in Nat /\ UNCHANGED <<cursor, savedPos, pos, last, pc, page,
     after, stage>>
    BY <1>1 DEF Post, ServerOK, pollVars, pullVars
  <2>2. \A m \in Messages : log'[m] = "none" <=> m > top'
    BY <1>1 DEF Post, ServerOK, InRoom, Messages
  <2>3. cursor \in Nat /\ savedPos \in Nat /\ page \in Nat
        /\ \A p \in Pollers : pos[p] \in Nat /\ last[p] \in Nat
    BY DEF ServerOK, PollOK, PullOK
  <2> QED BY <2>1, <2>2, <2>3 DEF InRoom
<1>2. ASSUME NEW m \in Messages, Expire(m) PROVE InRoom'
  BY <1>2 DEF Expire, InRoom, PollOK, Over, Next1, ServerOK, Larger, Smaller, Messages,
     AtMessage
<1>3. ASSUME WindowPasses PROVE InRoom'
  BY <1>3 DEF WindowPasses, InRoom, PollOK, Over, Next1, ServerOK, Larger, Smaller,
     Messages, AtMessage
<1>4. ASSUME NEW p \in Pollers, StartPoll(p) PROVE InRoom'
  BY <1>4 DEF StartPoll, InRoom, PollOK, Over, Next1, ServerOK, Larger, Smaller, Messages,
     AtMessage
<1>5. ASSUME NEW p \in Pollers, Fetch(p) PROVE InRoom'
  BY <1>5 DEF Fetch, InRoom, PollOK, Over, Next1, ServerOK, Larger, Smaller, Messages, AtMessage
<1>6. ASSUME NEW p \in Pollers, Leaving(p) PROVE InRoom'
  <2>1. UNCHANGED <<log, top, cursor, savedPos, pos, page, after, stage>>
    BY <1>6, LeavingPage DEF Leave, serverVars, pullVars
  <2>2. \A q \in Pollers : last'[q] \in {last[q], 0}
    BY <1>6, LeavingPage DEF Leave, Return, PollOK
  <2>3. \A q \in Pollers : pc'[q] \in {"claim", "notify", "settle"} => pc'[q] = pc[q]
    BY <1>6, LeavingPage DEF Leave, Return, PollOK, Over
  <2> QED BY <2>1, <2>2, <2>3 DEF InRoom, ServerOK
<1>7. ASSUME NEW p \in Pollers, PassOver(p) PROVE InRoom'
  BY <1>7 DEF PassOver, AtMessage, InRoom, PollOK, Over, Next1, ServerOK, Larger, Smaller,
     Messages
<1>8. ASSUME NEW p \in Pollers, Reserve(p) PROVE InRoom'
  BY <1>8 DEF Reserve, AtMessage, InRoom, PollOK, Over, Next1, ServerOK, Larger, Smaller,
     Messages
<1>9. ASSUME NEW p \in Pollers, WinClaim(p) PROVE InRoom'
  BY <1>9 DEF WinClaim, InRoom, PollOK, Over, Next1, ServerOK, Larger, Smaller, Messages,
     AtMessage
<1>10. ASSUME NEW p \in Pollers, LoseClaim(p) PROVE InRoom'
  BY <1>10 DEF LoseClaim, Refund, InRoom, PollOK, Over, Next1, ServerOK, Larger, Smaller,
     Messages, AtMessage
<1>11. ASSUME NEW p \in Pollers, Notify(p) PROVE InRoom'
  BY <1>11 DEF Notify, Spend, Hand, InRoom, PollOK, Over, Next1, ServerOK, Larger, Smaller,
     Messages, AtMessage
<1>12. ASSUME NEW p \in Pollers, Settle(p) PROVE InRoom'
  BY <1>12 DEF Settle, MovesCursor, InRoom, PollOK, Over, Next1, ServerOK, Larger, Smaller,
     Messages, AtMessage
<1>13. ASSUME NEW p \in Pollers, FinishHook(p) PROVE InRoom'
  BY <1>13 DEF FinishHook, Hand, InRoom, PollOK, Over, Next1, ServerOK, Larger, Smaller,
     Messages, AtMessage
<1>14. ASSUME NEW p \in Pollers, ClaimFails(p) PROVE InRoom'
  BY <1>14 DEF ClaimFails, Fails, Refund, Return, InRoom, PollOK, Over, Next1, ServerOK,
     Larger, Smaller, Messages, AtMessage
<1>15. ASSUME NEW p \in Pollers, NotifyFails(p) PROVE InRoom'
  BY <1>15 DEF NotifyFails, Fails, Spend, Return, InRoom, PollOK, Over, Next1, ServerOK,
     Larger, Smaller, Messages, AtMessage
<1>16. ASSUME NEW p \in Pollers, SettleFails(p) PROVE InRoom'
  BY <1>16 DEF SettleFails, Fails, MovesCursor, Return, InRoom, PollOK, Over, Next1,
     ServerOK, Larger, Smaller, Messages, AtMessage
<1>17. ASSUME NEW p \in Pollers, Crash(p) PROVE InRoom'
  BY <1>17 DEF Crash, Fails, InRoom, PollOK, Over, Next1, ServerOK, Larger, Smaller,
     Messages, AtMessage
<1>18. ASSUME Pulling PROVE InRoom'
  BY <1>18, PullingUntouched, PullCursor DEF InRoom, pollVars, ServerOK
<1>19. ASSUME UNCHANGED vars PROVE InRoom'
  BY <1>19 DEF vars, InRoom, PollOK, Over, Next1, ServerOK, Larger, Smaller, Messages, AtMessage
<1> QED
  BY <1>1, <1>2, <1>3, <1>4, <1>5, <1>6, <1>7, <1>8, <1>9, <1>10, <1>11, <1>12, <1>13,
     <1>14, <1>15, <1>16, <1>17, <1>18, <1>19 DEF Next, Proceed, Fault, Leaving, Pulling

LEMMA BookedStep == Inv /\ [Next]_vars => Booked'
<1> SUFFICES ASSUME Inv, [Next]_vars PROVE Booked' OBVIOUS
<1> USE ChannelAssumption
      DEF Inv, TypeOK, serverVars, budgetVars, pollVars, pullVars, seenVars
<1>1. ASSUME NEW kind \in {"wake", "plain", "own"}, Post(kind) PROVE Booked'
  BY <1>1 DEF Post, Booked, BookedFor, BudgetOK, PollOK, Over, LockHeld, Smaller
<1>2. ASSUME NEW m \in Messages, Expire(m) PROVE Booked'
  BY <1>2 DEF Expire, Booked, BookedFor, BudgetOK, PollOK, Over, LockHeld, Smaller
<1>3. ASSUME WindowPasses PROVE Booked'
  BY <1>3 DEF WindowPasses, Booked, BookedFor, BudgetOK, PollOK, Over, LockHeld, Smaller
<1>4. ASSUME NEW p \in Pollers, StartPoll(p) PROVE Booked'
  BY <1>4 DEF StartPoll, Booked, BookedFor, BudgetOK, PollOK, Over, LockHeld, Smaller
<1>5. ASSUME NEW p \in Pollers, Fetch(p) PROVE Booked'
  BY <1>5 DEF Fetch, Booked, BookedFor, BudgetOK, PollOK, Over, LockHeld, Smaller
<1>6. ASSUME NEW p \in Pollers, Leaving(p) PROVE Booked'
  BY <1>6, LeavingPage DEF Leave, Return, Booked, BookedFor, BudgetOK,
     PollOK, Over, LockHeld, Smaller
<1>7. ASSUME NEW p \in Pollers, PassOver(p) PROVE Booked'
  BY <1>7 DEF PassOver, AtMessage, Booked, BookedFor, BudgetOK, PollOK, Over, LockHeld,
     Smaller
<1>8. ASSUME NEW p \in Pollers, Reserve(p) PROVE Booked'
  <2>1. \A q \in Pollers : pc'[q] \in {"claim", "notify"} => q = p
    BY <1>8 DEF Reserve, LockHeld, PollOK
  <2>2. DEFINE spent == IF aged THEN 0 ELSE reserved
  <2>3. /\ charged' \in Nat /\ charged' <= spent /\ spent \in 0..BudgetLimit
        /\ faults = 0 => charged' = spent
    BY <1>8 DEF Reserve, Booked, BookedFor, BudgetOK
  <2>4. /\ cut'[p] = (spent >= BudgetLimit) /\ exhausted' = (spent >= BudgetLimit)
        /\ reserved' = Smaller(spent + 1, BudgetLimit)
        /\ lock' = p /\ lock' # NoOne /\ faults' = faults
    BY <1>8 DEF Reserve, PollOK
  <2>5. BookedFor' = spent + 1 /\ (exhausted' <=> cut'[p])
    <3>1. CASE spent >= BudgetLimit
      <4>1. cut'[p] = TRUE /\ exhausted' = TRUE
        BY <2>4, <3>1
      <4>2. reserved' = spent
        BY <2>3, <2>4, <3>1 DEF Smaller
      <4> QED BY <4>1, <4>2 DEF BookedFor
    <3>2. CASE spent < BudgetLimit
      <4>1. ~cut'[p] /\ ~exhausted'
        <5>1. ~(spent >= BudgetLimit)
          BY <2>3, <3>2
        <5> HIDE DEF spent
        <5> QED BY <2>4, <5>1, Zenon
      <4>2. reserved' = spent + 1
        BY <2>3, <2>4, <3>2 DEF Smaller
      <4> QED BY <2>3, <4>1, <4>2 DEF BookedFor
    <3> QED BY <2>3, <3>1, <3>2
  <2> QED BY <2>1, <2>3, <2>4, <2>5 DEF Booked
<1>9. ASSUME NEW p \in Pollers, WinClaim(p) PROVE Booked'
  BY <1>9 DEF WinClaim, Booked, BookedFor, BudgetOK, PollOK, Over, LockHeld, Smaller
<1>10. ASSUME NEW p \in Pollers, LoseClaim(p) PROVE Booked'
  <2>1. /\ pc[p] = "claim" /\ charged' = charged /\ exhausted' = FALSE
        /\ reserved' = IF cut[p] THEN reserved ELSE reserved - 1
        /\ faults' \in {faults, faults + 1}
        /\ \A q \in Pollers : pc'[q] \in {"claim", "notify"} => q # p /\ pc[q] = pc'[q]
    BY <1>10 DEF LoseClaim, Refund, PollOK, Over
  <2>2. BookedFor' = BookedFor - 1
    BY <2>1 DEF BookedFor, Booked, BudgetOK
  <2>3. \A q \in Pollers : pc'[q] \notin {"claim", "notify"}
    BY <2>1 DEF LockHeld
  <2>4. BookedFor \in Nat
    BY DEF BookedFor, BudgetOK
  <2> QED BY <2>1, <2>2, <2>3, <2>4 DEF Booked, BudgetOK
<1>11. ASSUME NEW p \in Pollers, Notify(p) PROVE Booked'
  <2>1. /\ pc[p] = "notify" /\ charged' = charged + 1
        /\ UNCHANGED <<reserved, exhausted>>
        /\ faults' \in {faults, faults + 1}
        /\ \A q \in Pollers : pc'[q] \in {"claim", "notify"} => q # p /\ pc[q] = pc'[q]
    BY <1>11 DEF Notify, Spend, PollOK, Over
  <2>2. BookedFor' = BookedFor /\ BookedFor \in Nat
    BY <2>1 DEF BookedFor, BudgetOK
  <2>3. \A q \in Pollers : pc'[q] \notin {"claim", "notify"}
    BY <2>1 DEF LockHeld
  <2> QED BY <2>1, <2>2, <2>3 DEF Booked, BudgetOK
<1>12. ASSUME NEW p \in Pollers, Settle(p) PROVE Booked'
  BY <1>12 DEF Settle, MovesCursor, Booked, BookedFor, BudgetOK, PollOK, Over, LockHeld,
     Smaller
<1>13. ASSUME NEW p \in Pollers, FinishHook(p) PROVE Booked'
  BY <1>13 DEF FinishHook, Hand, Booked, BookedFor, BudgetOK, PollOK, Over, LockHeld, Smaller
<1>14. ASSUME NEW p \in Pollers, ClaimFails(p) PROVE Booked'
  <2>1. /\ pc[p] = "claim" /\ charged' = charged /\ exhausted' = FALSE
        /\ reserved' = IF cut[p] THEN reserved ELSE reserved - 1
        /\ faults' \in {faults, faults + 1}
        /\ \A q \in Pollers : pc'[q] \in {"claim", "notify"} => q # p /\ pc[q] = pc'[q]
    BY <1>14 DEF ClaimFails, Fails, Refund, Return, PollOK, Over
  <2>2. BookedFor' = BookedFor - 1
    BY <2>1 DEF BookedFor, Booked, BudgetOK
  <2>3. \A q \in Pollers : pc'[q] \notin {"claim", "notify"}
    BY <2>1 DEF LockHeld
  <2>4. BookedFor \in Nat
    BY DEF BookedFor, BudgetOK
  <2> QED BY <2>1, <2>2, <2>3, <2>4 DEF Booked, BudgetOK
<1>15. ASSUME NEW p \in Pollers, NotifyFails(p) PROVE Booked'
  <2>1. /\ pc[p] = "notify" /\ charged' = charged + 1
        /\ UNCHANGED <<reserved, exhausted>>
        /\ faults' \in {faults, faults + 1}
        /\ \A q \in Pollers : pc'[q] \in {"claim", "notify"} => q # p /\ pc[q] = pc'[q]
    BY <1>15 DEF NotifyFails, Fails, Spend, Return, PollOK, Over
  <2>2. BookedFor' = BookedFor /\ BookedFor \in Nat
    BY <2>1 DEF BookedFor, BudgetOK
  <2>3. \A q \in Pollers : pc'[q] \notin {"claim", "notify"}
    BY <2>1 DEF LockHeld
  <2> QED BY <2>1, <2>2, <2>3 DEF Booked, BudgetOK
<1>16. ASSUME NEW p \in Pollers, SettleFails(p) PROVE Booked'
  BY <1>16 DEF SettleFails, Fails, MovesCursor, Return, Booked, BookedFor, BudgetOK, PollOK,
     Over, LockHeld
<1>17. ASSUME NEW p \in Pollers, Crash(p) PROVE Booked'
  <2>1. UNCHANGED <<charged, reserved, exhausted>>
    BY <1>17 DEF Crash
  <2>2. faults' # 0
    BY <1>17 DEF Crash, Fails
  <2>3. ASSUME NEW q \in Pollers, pc'[q] \in {"claim", "notify"}
        PROVE  pc[q] = pc'[q] /\ cut[q] = cut'[q]
    BY <1>17, <2>3 DEF Crash, PollOK
  <2>4. BookedFor' = BookedFor /\ BookedFor \in Nat
    BY <2>1 DEF BookedFor, BudgetOK
  <2> QED BY <2>1, <2>2, <2>3, <2>4 DEF Booked, BudgetOK
<1>18. ASSUME Pulling PROVE Booked'
  BY <1>18, PullingUntouched DEF Booked, BookedFor, BudgetOK, PollOK, Over, LockHeld, Smaller
<1>19. ASSUME UNCHANGED vars PROVE Booked'
  BY <1>19 DEF vars, Booked, BookedFor, BudgetOK, PollOK, Over, LockHeld, Smaller
<1> QED
  BY <1>1, <1>2, <1>3, <1>4, <1>5, <1>6, <1>7, <1>8, <1>9, <1>10, <1>11, <1>12, <1>13,
     <1>14, <1>15, <1>16, <1>17, <1>18, <1>19 DEF Next, Proceed, Fault, Leaving, Pulling

\* The claims and the hands of the pollers stay as they are.
HandsKept ==
    /\ UNCHANGED <<injected, pushed, dropped>>
    /\ \A q \in Pollers : InHand(q)' = InHand(q)
    /\ \A q \in Channels : collected'[q] = {}
    /\ \A q \in Pollers : pc'[q] = "finish" => q \in Hooks

LEMMA CustodyKept == Inv /\ HandsKept => Custody' /\ ClaimsInHand'
<1> SUFFICES ASSUME Inv, HandsKept PROVE Custody' /\ ClaimsInHand' OBVIOUS
<1>1. Custody'
  BY DEF Inv, Custody, HandsKept
<1>2. ClaimsInHand'
  BY DEF Inv, ClaimsInHand, HandsKept
<1> QED BY <1>1, <1>2

LEMMA CustodyStep == Inv /\ [Next]_vars => Custody' /\ ClaimsInHand'
<1> SUFFICES ASSUME Inv, [Next]_vars PROVE Custody' /\ ClaimsInHand' OBVIOUS
<1> USE ChannelAssumption
      DEF Inv, TypeOK, serverVars, budgetVars, pollVars, pullVars, seenVars
<1>1. ASSUME NEW kind \in {"wake", "plain", "own"}, Post(kind) PROVE Custody' /\ ClaimsInHand'
  <2>1. HandsKept
    BY <1>1 DEF Post, HandsKept, Pollers, InHand, Custody, PollOK, Over, Next1, AtMessage
  <2> QED BY <2>1, CustodyKept
<1>2. ASSUME NEW m \in Messages, Expire(m) PROVE Custody' /\ ClaimsInHand'
  <2>1. HandsKept
    BY <1>2 DEF Expire, HandsKept, Pollers, InHand, Custody, PollOK, Over, Next1, AtMessage
  <2> QED BY <2>1, CustodyKept
<1>3. ASSUME WindowPasses PROVE Custody' /\ ClaimsInHand'
  <2>1. HandsKept
    BY <1>3 DEF WindowPasses, HandsKept, Pollers, InHand, Custody, PollOK, Over, Next1,
       AtMessage
  <2> QED BY <2>1, CustodyKept
<1>4. ASSUME NEW p \in Pollers, StartPoll(p) PROVE Custody' /\ ClaimsInHand'
  <2>1. HandsKept
    BY <1>4 DEF StartPoll, HandsKept, Pollers, InHand, Custody, PollOK, Over, Next1, AtMessage
  <2> QED BY <2>1, CustodyKept
<1>5. ASSUME NEW p \in Pollers, Fetch(p) PROVE Custody' /\ ClaimsInHand'
  <2>1. HandsKept
    BY <1>5 DEF Fetch, HandsKept, Pollers, InHand, Custody, PollOK, Over, Next1, AtMessage
  <2> QED BY <2>1, CustodyKept
<1>6. ASSUME NEW p \in Pollers, Leaving(p) PROVE Custody' /\ ClaimsInHand'
  <2>1. HandsKept
    BY <1>6, LeavingPage DEF Leave, Return, HandsKept, Pollers, InHand, Custody, PollOK,
       Over, Next1, AtMessage
  <2> QED BY <2>1, CustodyKept
<1>7. ASSUME NEW p \in Pollers, PassOver(p) PROVE Custody' /\ ClaimsInHand'
  <2>1. HandsKept
    BY <1>7 DEF PassOver, AtMessage, HandsKept, Pollers, InHand, Custody, PollOK, Over,
       Next1, AtMessage
  <2> QED BY <2>1, CustodyKept
<1>8. ASSUME NEW p \in Pollers, Reserve(p) PROVE Custody' /\ ClaimsInHand'
  <2>1. HandsKept
    BY <1>8 DEF Reserve, AtMessage, HandsKept, Pollers, InHand, Custody, PollOK, Over,
       Next1, AtMessage
  <2> QED BY <2>1, CustodyKept
<1>9. ASSUME NEW p \in Pollers, WinClaim(p) PROVE Custody' /\ ClaimsInHand'
  <2>1. /\ Next1(p) \in Messages /\ Next1(p) \notin injected
        /\ injected' = injected \union {Next1(p)}
        /\ UNCHANGED <<pushed, dropped, collected>>
    BY <1>9, InFlight DEF WinClaim, seenVars
  <2>2. InHand(p)' = collected[p] \union {Next1(p)} /\ InHand(p) = collected[p]
    BY <1>9 DEF WinClaim, InHand, Next1, PollOK
  <2>3. \A q \in Pollers : q # p => InHand(q)' = InHand(q)
    BY <1>9 DEF WinClaim, InHand, Next1, PollOK
  <2>4. \A q \in Pollers : pc'[q] = "finish" => q \in Hooks
    BY <1>9 DEF WinClaim, Custody, PollOK
  <2>5. pushed[Next1(p)] = 0 /\ Next1(p) \notin dropped
    BY <2>1 DEF Custody
  <2>6. Custody'
    BY <2>1, <2>2, <2>3, <2>4, <2>5 DEF Custody
  <2>7. ClaimsInHand'
    BY <2>1, <2>2, <2>3 DEF ClaimsInHand
  <2> QED BY <2>6, <2>7
<1>10. ASSUME NEW p \in Pollers, LoseClaim(p) PROVE Custody' /\ ClaimsInHand'
  <2>1. HandsKept
    BY <1>10 DEF LoseClaim, Refund, HandsKept, Pollers, InHand, Custody, PollOK, Over,
       Next1, AtMessage
  <2> QED BY <2>1, CustodyKept
<1>11. ASSUME NEW p \in Pollers, Notify(p) PROVE Custody' /\ ClaimsInHand'
  <2>1. CASE p \in Hooks
    <3>1. InHand(p) = collected[p] \union {Next1(p)}
      BY <1>11 DEF Notify, InHand
    <3>2. InHand(p)' = collected[p] \union {Next1(p)}
      BY <1>11, <2>1 DEF Notify, InHand, PollOK
    <3>3. \A q \in Pollers : q # p => InHand(q)' = InHand(q) /\ collected'[q] = collected[q]
      BY <1>11, <2>1 DEF Notify, InHand, Next1, PollOK
    <3>4. \A q \in Pollers : pc'[q] = "finish" => q \in Hooks
      BY <1>11 DEF Notify, Custody, PollOK
    <3>5. UNCHANGED <<injected, pushed, dropped>>
      BY <1>11, <2>1 DEF Notify, serverVars
    <3>6. \A q \in Channels : collected'[q] = {}
      BY <2>1, <3>3 DEF Custody, Pollers
    <3>7. HandsKept
      BY <3>1, <3>2, <3>3, <3>4, <3>5, <3>6 DEF HandsKept
    <3> QED BY <3>7, CustodyKept
  <2>2. CASE p \notin Hooks
    <3>1. p \in Channels /\ collected[p] = {} /\ InHand(p) = {Next1(p)}
      BY <1>11, <2>2 DEF Notify, InHand, Custody, Pollers
    <3>2. InHand(p)' = {} /\ UNCHANGED <<injected, dropped, collected>>
      BY <1>11, <2>2, <3>1 DEF Notify, InHand, PollOK, serverVars
    <3>3. \A q \in Pollers : q # p => InHand(q)' = InHand(q)
      BY <1>11, <3>2 DEF Notify, InHand, Next1, PollOK
    <3>4. \A m \in Messages : pushed'[m] = IF m = Next1(p) THEN pushed[m] + 1 ELSE pushed[m]
      BY <1>11, <2>2 DEF Notify, Hand, SeenOK
    <3>5. \A q \in Pollers : pc'[q] = "finish" => q \in Hooks
      BY <1>11 DEF Notify, Custody, PollOK
    <3>6. Next1(p) \in injected /\ pushed[Next1(p)] = 0 /\ Next1(p) \notin dropped
      BY <3>1 DEF Custody
    <3>7. \A q \in Pollers : q # p => Next1(p) \notin InHand(q)
      BY <3>1 DEF Custody
    <3>8. \A q \in Pollers : InHand(q) \in SUBSET Messages
      BY InFlight
    <3>9. Custody'
      BY <3>2, <3>3, <3>4, <3>5, <3>6, <3>7, <3>8 DEF Custody
    <3>10. ClaimsInHand'
      BY <3>1, <3>2, <3>3, <3>4, <3>6 DEF ClaimsInHand, ServerOK
    <3> QED BY <3>9, <3>10
  <2> QED BY <2>1, <2>2
<1>12. ASSUME NEW p \in Pollers, Settle(p) PROVE Custody' /\ ClaimsInHand'
  <2>1. HandsKept
    BY <1>12 DEF Settle, MovesCursor, HandsKept, Pollers, InHand, Custody, PollOK, Over,
       Next1, AtMessage
  <2> QED BY <2>1, CustodyKept
<1>13. ASSUME NEW p \in Pollers, FinishHook(p) PROVE Custody' /\ ClaimsInHand'
  <2>1. p \in Hooks /\ InHand(p) = collected[p]
    BY <1>13 DEF FinishHook, InHand, Custody
  <2>2. InHand(p)' = {} /\ UNCHANGED <<injected, dropped>>
    BY <1>13 DEF FinishHook, InHand, PollOK, serverVars
  <2>3. \A q \in Pollers : q # p => InHand(q)' = InHand(q) /\ collected'[q] = collected[q]
    BY <1>13 DEF FinishHook, InHand, Next1, PollOK
  <2>4. \A m \in Messages : pushed'[m] = IF m \in InHand(p) THEN pushed[m] + 1 ELSE pushed[m]
    BY <1>13, <2>1 DEF FinishHook, Hand, SeenOK
  <2>5. \A q \in Pollers : pc'[q] = "finish" => q \in Hooks
    BY <1>13 DEF FinishHook, Custody, PollOK
  <2>6. \A q \in Pollers : InHand(q) \in SUBSET Messages
    BY InFlight
  <2>7. \A q \in Channels : collected'[q] = {}
    BY <2>1, <2>3 DEF Custody, Pollers
  <2>8. Custody'
    BY <2>2, <2>3, <2>4, <2>5, <2>6, <2>7 DEF Custody
  <2>9. ClaimsInHand'
    BY <2>2, <2>3, <2>4 DEF ClaimsInHand, ServerOK, Custody
  <2> QED BY <2>8, <2>9
<1>14. ASSUME NEW p \in Pollers, ClaimFails(p) PROVE Custody' /\ ClaimsInHand'
  <2>1. /\ UNCHANGED <<pushed, collected>>
        /\ \A q \in Pollers : InHand(q)' = InHand(q)
        /\ \A q \in Pollers : pc'[q] = "finish" => q \in Hooks
    BY <1>14 DEF ClaimFails, Return, Over, InHand, Next1, PollOK, Custody
  <2>2. CASE UNCHANGED <<injected, dropped>>
    BY <2>1, <2>2, CustodyKept DEF HandsKept, Custody
  <2>3. CASE /\ Next1(p) \notin injected
             /\ injected' = injected \union {Next1(p)}
             /\ dropped' = dropped \union {Next1(p)}
    <3>1. Custody'
      BY <2>1, <2>3 DEF Custody
    <3>2. ClaimsInHand'
      BY <2>1, <2>3 DEF ClaimsInHand
    <3> QED BY <3>1, <3>2
  <2> QED BY <1>14, <2>2, <2>3 DEF ClaimFails
<1>15. ASSUME NEW p \in Pollers, NotifyFails(p) PROVE Custody' /\ ClaimsInHand'
  <2>1. InHand(p)' = {} /\ UNCHANGED <<injected, pushed>> /\ dropped' = dropped \union InHand(p)
    BY <1>15 DEF NotifyFails, Return, Over, InHand, PollOK, Custody, serverVars
  <2>2. \A q \in Pollers : q # p => InHand(q)' = InHand(q) /\ collected'[q] = collected[q]
    BY <1>15 DEF NotifyFails, Return, InHand, Next1, PollOK
  <2>3. \A q \in Pollers : pc'[q] = "finish" => q \in Hooks
    BY <1>15 DEF NotifyFails, Return, Over, Custody, PollOK
  <2>4. \A q \in Channels : collected'[q] = {}
    BY <1>15, <2>2 DEF NotifyFails, Custody, Pollers, PollOK
  <2>5. Custody'
    BY <2>1, <2>2, <2>3, <2>4 DEF Custody
  <2>6. ClaimsInHand'
    BY <2>1, <2>2 DEF ClaimsInHand
  <2> QED BY <2>5, <2>6
<1>16. ASSUME NEW p \in Pollers, SettleFails(p) PROVE Custody' /\ ClaimsInHand'
  <2>1. HandsKept
    BY <1>16 DEF SettleFails, Fails, MovesCursor, Return, HandsKept, Pollers, InHand,
       Custody, PollOK, Over, Next1, AtMessage
  <2> QED BY <2>1, CustodyKept
<1>17. ASSUME NEW p \in Pollers, Crash(p) PROVE Custody' /\ ClaimsInHand'
  <2>1. InHand(p)' = {} /\ UNCHANGED <<injected, pushed>> /\ dropped' = dropped \union InHand(p)
    BY <1>17 DEF Crash, InHand, PollOK, serverVars
  <2>2. \A q \in Pollers : q # p => InHand(q)' = InHand(q) /\ collected'[q] = collected[q]
    BY <1>17 DEF Crash, Return, InHand, Next1, PollOK
  <2>3. \A q \in Pollers : pc'[q] = "finish" => q \in Hooks
    BY <1>17 DEF Crash, Return, Over, Custody, PollOK
  <2>4. \A q \in Channels : collected'[q] = {}
    BY <1>17, <2>2 DEF Crash, Custody, Pollers, PollOK
  <2>5. Custody'
    BY <2>1, <2>2, <2>3, <2>4 DEF Custody
  <2>6. ClaimsInHand'
    BY <2>1, <2>2 DEF ClaimsInHand
  <2> QED BY <2>5, <2>6
<1>18. ASSUME Pulling PROVE Custody' /\ ClaimsInHand'
  <2>1. HandsKept
    BY <1>18, PullingUntouched DEF HandsKept, Pollers, InHand, Custody, PollOK, Over, Next1,
       AtMessage
  <2> QED BY <2>1, CustodyKept
<1>19. ASSUME UNCHANGED vars PROVE Custody' /\ ClaimsInHand'
  <2>1. HandsKept
    BY <1>19 DEF vars, HandsKept, Pollers, InHand, Custody, Next1
  <2> QED BY <2>1, CustodyKept
<1> QED
  BY <1>1, <1>2, <1>3, <1>4, <1>5, <1>6, <1>7, <1>8, <1>9, <1>10, <1>11, <1>12, <1>13,
     <1>14, <1>15, <1>16, <1>17, <1>18, <1>19 DEF Next, Proceed, Fault, Leaving, Pulling

-----------------------------------------------------------------------------
(* The invariant, and what follows from it.                                *)

LEMMA InvInit == Init => Inv
<1> SUFFICES ASSUME Init PROVE Inv OBVIOUS
<1> USE ChannelAssumption
<1>1. ServerOK /\ PullOK /\ SeenOK /\ faults \in 0..MaxFaults
  BY DEF Init, ServerOK, PullOK, SeenOK, Messages
<1>2. BudgetOK
  <2>1. lock \in Pollers \union {NoOne} /\ reserved \in 0..BudgetLimit /\ charged \in Nat
    BY DEF Init
  <2>2. exhausted \in BOOLEAN /\ aged \in BOOLEAN
    BY DEF Init
  <2> QED BY <2>1, <2>2 DEF BudgetOK
<1>3. PollOK
  BY DEF Init, PollOK, Stages, Messages
<1>4. InRoom /\ Claimed /\ Booked
  BY DEF Init, InRoom, Claimed, Booked, BookedFor, Messages
<1>5. LockHeld
  BY DEF Init, LockHeld
<1>6. \A p \in Pollers : InHand(p) = {}
  BY DEF Init, InHand
<1>7. Custody /\ ClaimsInHand
  BY <1>6 DEF Init, Custody, ClaimsInHand, Pollers
<1> QED BY <1>1, <1>2, <1>3, <1>4, <1>5, <1>7 DEF Inv, TypeOK

\* Inv holds in every state: it is inductive.
THEOREM ChannelInv == Spec => []Inv
<1>1. Inv /\ [Next]_vars => Inv'
  BY TypeStep, LockStep, ClaimedStep, RoomStep, BookedStep, CustodyStep DEF Inv
<1> QED BY InvInit, <1>1, PTL DEF Spec

\* Every variable keeps its type, for any pollers, rooms and budgets.
THEOREM ChannelTypeOK == Spec => []TypeOK
<1>1. Inv => TypeOK BY DEF Inv
<1> QED BY ChannelInv, <1>1, PTL

\* What is claimed was pushed, or is lost, or some poller still has it in
\* hand.
THEOREM ClaimsInHandAlways == Spec => []ClaimsInHand
<1>1. Inv => ClaimsInHand BY DEF Inv
<1> QED BY ChannelInv, <1>1, PTL

\* Only the holder of the budget's lock claims and writes.
THEOREM LockHeldAlways == Spec => []LockHeld
<1>1. Inv => LockHeld BY DEF Inv
<1> QED BY ChannelInv, <1>1, PTL

\* All pollers of an agent together write no more than one budget in a
\* window, however often they crash or take a reservation back.
THEOREM BudgetKeptAlways == Spec => []BudgetKept
<1>1. Inv => BudgetKept
  BY ChannelAssumption DEF Inv, TypeOK, BudgetOK, Booked, BookedFor, BudgetKept
<1> QED BY ChannelInv, <1>1, PTL

-----------------------------------------------------------------------------
(* The cursor.                                                             *)

LEMMA CursorStep == Inv /\ [Next]_vars => cursor' >= cursor
<1> SUFFICES ASSUME Inv, [Next]_vars PROVE cursor' >= cursor OBVIOUS
<1> USE ChannelAssumption
<1>1. cursor \in Nat
  BY DEF Inv, TypeOK, ServerOK
<1>2. ASSUME Pulling PROVE cursor' >= cursor
  BY <1>1, <1>2, PullCursor DEF Inv, TypeOK, ServerOK
<1>3. ASSUME NEW p \in Pollers, Settle(p) \/ SettleFails(p) PROVE cursor' >= cursor
  <2>1. Next1(p) \in Int
    BY DEF Inv, TypeOK, PollOK, Next1
  <2> QED BY <1>1, <1>3, <2>1 DEF Settle, SettleFails, Larger
<1>4. ASSUME UNCHANGED cursor PROVE cursor' >= cursor
  BY <1>1, <1>4
<1>5. ASSUME \/ \E kind \in {"wake", "plain", "own"} : Post(kind)
             \/ \E m \in Messages : Expire(m)
             \/ WindowPasses
             \/ UNCHANGED vars
      PROVE  UNCHANGED cursor
  BY <1>5 DEF Post, Expire, WindowPasses, serverVars, vars
<1>6. ASSUME NEW p \in Pollers, StartPoll(p) \/ Proceed(p) \/ Fault(p),
             ~(Settle(p) \/ SettleFails(p))
      PROVE  UNCHANGED cursor
  BY <1>6, LeavingPage DEF Proceed, Fault, Leaving, Leave, StartPoll, Fetch, PassOver, Reserve,
     WinClaim, LoseClaim, Notify, FinishHook, ClaimFails, NotifyFails, Crash, serverVars
<1> QED BY <1>2, <1>3, <1>4, <1>5, <1>6 DEF Next, Pulling

\* The reading position of the agent never moves back, whoever writes it
\* from however old a reading.
THEOREM CursorNeverFallsBack == Spec => CursorMonotone
<1>1. Inv /\ [Next]_vars => [cursor' >= cursor]_vars
  BY CursorStep
<1> QED BY ChannelInv, <1>1, PTL DEF Spec, CursorMonotone

-----------------------------------------------------------------------------
(* No wake is skipped.                                                     *)

LEMMA PullShows ==
    ASSUME Inv, Pulling, NEW m \in Messages, log[m] = "wake", cursor < m, m <= cursor'
    PROVE  m \in injected \union pulled' \/ InboxSkips(m)
<1> USE ChannelAssumption DEF Inv, TypeOK, ServerOK, PullOK, Messages
<1>1. /\ ShowInbox \/ InboxFails
      /\ stage = "render" /\ stage' = "idle" /\ page > after /\ m <= page
  BY DEF Pulling, Inbox, StartInbox, StartInboxBlind, FetchInbox, ReadInjected, ShowInbox,
     InboxFails, EndInbox, PageCursor, Larger, serverVars
<1>2. CASE m <= after
  BY <1>1, <1>2 DEF InboxSkips
<1>3. CASE m > after /\ InboxFails
  BY <1>1, <1>3 DEF InboxSkips, InboxFails, Fails
<1>4. CASE m > after /\ ShowInbox
  <2>1. m \in hidden \union Shown
    BY <1>1, <1>4 DEF Shown
  <2> QED BY <1>4, <2>1 DEF ShowInbox, Claimed
<1> QED BY <1>1, <1>2, <1>3, <1>4

\* Only a message that is claimed, or that coord_inbox goes over, stops being
\* ahead of everybody.
LEMMA WakeStep ==
    ASSUME Inv, [Next]_vars, NEW m \in Messages, log[m] = "wake", Ahead(m)
    PROVE  Ahead(m)' \/ m \in injected' \union pulled' \/ InboxSkips(m)
<1> USE ChannelAssumption
      DEF Inv, TypeOK, serverVars, budgetVars, pollVars, pullVars, seenVars
<1> DEFINE Kept == Ahead(m)' \/ m \in injected' \union pulled' \/ InboxSkips(m)
<1>1. ASSUME NEW kind \in {"wake", "plain", "own"}, Post(kind) PROVE Kept
  BY <1>1 DEF Post, Ahead
<1>2. ASSUME NEW n \in Messages, Expire(n) PROVE Kept
  BY <1>2 DEF Expire, Ahead
<1>3. ASSUME WindowPasses PROVE Kept
  BY <1>3 DEF WindowPasses, Ahead
<1>4. ASSUME NEW p \in Pollers, StartPoll(p) PROVE Kept
  BY <1>4 DEF StartPoll, Ahead, PollOK, ServerOK, Larger
<1>5. ASSUME NEW p \in Pollers, Fetch(p) PROVE Kept
  BY <1>5 DEF Fetch, Ahead
<1>6. ASSUME NEW p \in Pollers, Leaving(p) PROVE Kept
  BY <1>6, LeavingPage DEF Leave, Return, Ahead
<1>7. ASSUME NEW p \in Pollers, PassOver(p) PROVE Kept
  BY <1>7 DEF PassOver, AtMessage, Ahead, PollOK, ServerOK, Next1, Messages
<1>8. ASSUME NEW p \in Pollers, Reserve(p) PROVE Kept
  BY <1>8 DEF Reserve, Ahead
<1>9. ASSUME NEW p \in Pollers, WinClaim(p) PROVE Kept
  BY <1>9 DEF WinClaim, Ahead
<1>10. ASSUME NEW p \in Pollers, LoseClaim(p) PROVE Kept
  BY <1>10 DEF LoseClaim, Ahead, PollOK, ServerOK, Next1, Messages
<1>11. ASSUME NEW p \in Pollers, Notify(p) PROVE Kept
  BY <1>11 DEF Notify, Ahead
<1>12. ASSUME NEW p \in Pollers, Settle(p) PROVE Kept
  BY <1>12 DEF Settle, Ahead, Claimed, PollOK, ServerOK, Next1, Larger, Messages
<1>13. ASSUME NEW p \in Pollers, FinishHook(p) PROVE Kept
  BY <1>13 DEF FinishHook, Ahead, PollOK, Messages
<1>14. ASSUME NEW p \in Pollers, ClaimFails(p) PROVE Kept
  BY <1>14 DEF ClaimFails, Ahead
<1>15. ASSUME NEW p \in Pollers, NotifyFails(p) PROVE Kept
  BY <1>15 DEF NotifyFails, Ahead
<1>16. ASSUME NEW p \in Pollers, SettleFails(p) PROVE Kept
  <2>1. /\ pc[p] = "settle" /\ pos' = [pos EXCEPT ![p] = Next1(p)]
        /\ cursor' \in {cursor, Larger(cursor, Next1(p))} /\ UNCHANGED <<injected, savedPos>>
    BY <1>16 DEF SettleFails
  <2>2. CASE Next1(p) = m
    BY <2>1, <2>2 DEF Claimed
  <2>3. CASE Next1(p) # m
    <3>1. Next1(p) \in Nat /\ Next1(p) < m
      BY <2>3 DEF Ahead, Next1, PollOK, Messages
    <3>2. cursor' < m
      BY <2>1, <3>1 DEF Ahead, Larger
    <3>3. \A q \in Pollers : pos'[q] < m
      BY <2>1, <3>1 DEF Ahead, PollOK
    <3> QED BY <2>1, <3>2, <3>3 DEF Ahead
  <2> QED BY <2>2, <2>3
<1>17. ASSUME NEW p \in Pollers, Crash(p) PROVE Kept
  BY <1>17 DEF Crash, Ahead, PollOK, Messages
<1>18. ASSUME Pulling PROVE Kept
  <2>1. savedPos' < m /\ \A p \in Pollers : pos'[p] < m
    BY <1>18, PullingUntouched DEF Ahead
  <2>2. cursor' \in 0..MaxMessages
    BY <1>18, PullCursor DEF ServerOK
  <2>3. CASE cursor' < m
    BY <2>1, <2>3 DEF Ahead
  <2>4. CASE m <= cursor'
    <3>1. injected' = injected
      BY <1>18 DEF Pulling, Inbox, StartInbox, StartInboxBlind, FetchInbox, ReadInjected,
         ShowInbox, InboxFails, EndInbox
    <3> QED BY <1>18, <2>4, <3>1, PullShows DEF Ahead
  <2> QED BY <2>2, <2>3, <2>4 DEF Messages
<1>19. ASSUME UNCHANGED vars PROVE Kept
  BY <1>19 DEF vars, Ahead
<1> QED
  BY <1>1, <1>2, <1>3, <1>4, <1>5, <1>6, <1>7, <1>8, <1>9, <1>10, <1>11, <1>12, <1>13,
     <1>14, <1>15, <1>16, <1>17, <1>18, <1>19 DEF Next, Proceed, Fault, Leaving, Pulling

\* No poller, whatever fails, leaves behind a message that still wakes the
\* agent: it stays ahead of everyone until it is claimed or coord_inbox goes
\* over it, and what coord_inbox goes over unseen is InboxSkips.
THEOREM NoWakeSkippedAlways == Spec => NoWakeSkipped
<1>1. Inv /\ [Next]_vars =>
          [\A m \in Messages :
              log[m] = "wake" /\ Ahead(m) /\ ~Ahead(m)' =>
                  m \in injected' \union pulled' \/ InboxSkips(m)]_vars
  BY WakeStep
<1> QED BY ChannelInv, <1>1, PTL DEF Spec, NoWakeSkipped

-----------------------------------------------------------------------------
(* The refinement.                                                         *)

LEMMA FateStays ==
    ASSUME UNCHANGED <<injected, pushed, dropped>>
    PROVE  [m \in Messages |-> Fate(m)]' = [m \in Messages |-> Fate(m)]
    BY DEF Fate

LEMMA FateOfHand ==
    ASSUME Inv, NEW p \in Pollers
    PROVE  \A m \in InHand(p) : Fate(m) = "claimed"
    BY DEF Inv, Custody, Fate

LEMMA OnceInit == Init => Once!Init
    BY DEF Init, Once!Init, Fate

\* The claim of a message is AtMostOnce's Claim.
LEMMA WinClaims ==
    ASSUME Inv, NEW p \in Pollers, WinClaim(p)
    PROVE  Once!Claim(Next1(p))
<1> DEFINE n == Next1(p)
<1>1. /\ n \in Messages /\ n \notin injected /\ pushed[n] = 0 /\ n \notin dropped
      /\ injected' = injected \union {n} /\ UNCHANGED <<pushed, dropped>>
  BY InFlight DEF WinClaim, Inv, Custody, seenVars
<1> HIDE DEF n
<1>2. Fate(n) = "open"
  BY <1>1 DEF Fate
<1>3. \A m \in Messages : Fate(m)' = IF m \in {n} THEN "claimed" ELSE Fate(m)
  BY <1>1 DEF Fate
<1>4. Once!Claim(n)
  BY <1>1, <1>2, <1>3 DEF Once!Claim, Once!Become
<1> QED BY <1>4 DEF n

\* What reaches the session is delivered at that moment, and only then.
LEMMA HandDelivers ==
    ASSUME Inv, NEW p \in Pollers, NEW msgs \in SUBSET InHand(p), Hand(msgs),
           UNCHANGED <<injected, dropped>>
    PROVE  Once!Deliver(msgs)
<1>1. InHand(p) \in SUBSET Messages
  BY InFlight
<1>2. \A m \in msgs : Fate(m) = "claimed" /\ pushed[m] = 0
  BY FateOfHand DEF Inv, Custody
<1>3. \A m \in Messages : pushed'[m] = IF m \in msgs THEN pushed[m] + 1 ELSE pushed[m]
  BY DEF Hand, Inv, TypeOK, SeenOK
<1>4. \A m \in Messages : Fate(m)' = IF m \in msgs THEN "delivered" ELSE Fate(m)
  BY <1>1, <1>2, <1>3 DEF Fate
<1> QED BY <1>1, <1>2, <1>4 DEF Once!Deliver, Once!Become

\* A message that is dropped was open or claimed, and is lost.
LEMMA DropLoses ==
    ASSUME Inv, NEW msgs \in SUBSET Messages,
           \A m \in msgs : pushed[m] = 0 /\ m \notin dropped,
           dropped' = dropped \union msgs, injected' = injected \union msgs,
           UNCHANGED pushed
    PROVE  Once!Lose(msgs)
<1>1. \A m \in msgs : Fate(m) \in {"open", "claimed"}
  BY DEF Fate
<1>2. \A m \in Messages : Fate(m)' = IF m \in msgs THEN "lost" ELSE Fate(m)
  BY DEF Fate
<1> QED BY <1>1, <1>2 DEF Once!Lose, Once!Become

LEMMA OnceStep == Inv /\ [Next]_vars => [Once!Next]_([m \in Messages |-> Fate(m)])
<1> SUFFICES ASSUME Inv, [Next]_vars
             PROVE  Once!Next \/ UNCHANGED [m \in Messages |-> Fate(m)]
  OBVIOUS
<1> DEFINE Goal == Once!Next \/ UNCHANGED [m \in Messages |-> Fate(m)]
<1>1. ASSUME UNCHANGED <<injected, pushed, dropped>> PROVE Goal
  BY <1>1, FateStays
<1>2. ASSUME NEW p \in Pollers, WinClaim(p) PROVE Goal
  <2>1. Next1(p) \in Messages
    BY <1>2, InFlight DEF WinClaim
  <2> QED BY <1>2, <2>1, WinClaims DEF Once!Next
<1>3. ASSUME NEW p \in Pollers, Notify(p) PROVE Goal
  <2>1. CASE p \in Hooks
    BY <1>1, <1>3, <2>1 DEF Notify, serverVars
  <2>2. CASE p \notin Hooks
    <3>1. {Next1(p)} \in SUBSET InHand(p) /\ InHand(p) \in SUBSET Messages
      BY <1>3, InFlight DEF Notify, InHand
    <3>2. Once!Deliver({Next1(p)})
      BY <1>3, <2>2, <3>1, HandDelivers DEF Notify, serverVars
    <3> QED BY <3>1, <3>2 DEF Once!Next
  <2> QED BY <2>1, <2>2
<1>4. ASSUME NEW p \in Pollers, FinishHook(p) PROVE Goal
  <2>1. collected[p] \in SUBSET InHand(p) /\ InHand(p) \in SUBSET Messages
    BY InFlight DEF InHand
  <2>2. Once!Deliver(collected[p])
    BY <1>4, <2>1, HandDelivers DEF FinishHook, serverVars
  <2> QED BY <2>1, <2>2 DEF Once!Next
<1>5. ASSUME NEW p \in Pollers, ClaimFails(p) PROVE Goal
  <2>1. CASE UNCHANGED <<injected, dropped>>
    BY <1>1, <1>5, <2>1 DEF ClaimFails
  <2>2. CASE /\ Next1(p) \notin injected
             /\ injected' = injected \union {Next1(p)}
             /\ dropped' = dropped \union {Next1(p)}
    <3>1. Next1(p) \in Messages
      BY <1>5, InFlight DEF ClaimFails
    <3>2. pushed[Next1(p)] = 0 /\ Next1(p) \notin dropped
      BY <2>2, <3>1 DEF Inv, Custody
    <3>3. Once!Lose({Next1(p)})
      BY <1>5, <2>2, <3>1, <3>2, DropLoses DEF ClaimFails
    <3> QED BY <3>1, <3>3 DEF Once!Next
  <2> QED BY <1>5, <2>1, <2>2 DEF ClaimFails
<1>6. ASSUME NEW p \in Pollers, NEW msgs \in SUBSET InHand(p),
             dropped' = dropped \union msgs, UNCHANGED <<injected, pushed>>
      PROVE  Goal
  <2>1. InHand(p) \in SUBSET Messages
    BY InFlight
  <2>2. \A m \in msgs : m \in injected /\ pushed[m] = 0 /\ m \notin dropped
    BY DEF Inv, Custody
  <2>3. injected' = injected \union msgs
    BY <1>6, <2>2
  <2>4. Once!Lose(msgs)
    BY <1>6, <2>1, <2>2, <2>3, DropLoses
  <2> QED BY <2>1, <2>4 DEF Once!Next
<1>7. ASSUME NEW p \in Pollers, NotifyFails(p) PROVE Goal
  <2>1. {Next1(p)} \in SUBSET InHand(p)
    BY <1>7 DEF NotifyFails, InHand
  <2> QED BY <1>6, <1>7, <2>1 DEF NotifyFails, serverVars
<1>8. ASSUME NEW p \in Pollers, Crash(p) PROVE Goal
  BY <1>6, <1>8 DEF Crash, serverVars
<1>9. ASSUME \/ \E kind \in {"wake", "plain", "own"} : Post(kind)
             \/ \E m \in Messages : Expire(m)
             \/ WindowPasses \/ Pulling
             \/ UNCHANGED vars
      PROVE  UNCHANGED <<injected, pushed, dropped>>
  BY <1>9, PullingUntouched DEF Post, Expire, WindowPasses, serverVars, seenVars, vars
<1>10. ASSUME NEW p \in Pollers,
              \/ StartPoll(p) \/ Fetch(p) \/ Leaving(p) \/ PassOver(p) \/ Reserve(p)
              \/ LoseClaim(p) \/ Settle(p) \/ SettleFails(p)
       PROVE  UNCHANGED <<injected, pushed, dropped>>
  BY <1>10, LeavingPage DEF StartPoll, Fetch, Leave, PassOver, Reserve, LoseClaim, Settle,
     SettleFails, serverVars, seenVars
<1> HIDE DEF Goal
<1>11. Goal
  BY <1>1, <1>2, <1>3, <1>4, <1>5, <1>7, <1>8, <1>9, <1>10
     DEF Next, Proceed, Fault, Leaving, Pulling
<1> QED BY <1>11 DEF Goal

\* Any number of channels and hook calls of an agent implement AtMostOnce:
\* through crashes, lost replies and stale positions no message is delivered
\* twice, and none is lost but in a fault after its claim.
THEOREM ChannelDeliversAtMostOnce == Spec => AtMostOnceDelivery
<1>1. Inv /\ [Next]_vars => [Once!Next]_([m \in Messages |-> Fate(m)])
  BY OnceStep
<1> QED BY OnceInit, <1>1, ChannelInv, PTL DEF Spec, AtMostOnceDelivery, Once!Spec

=============================================================================
