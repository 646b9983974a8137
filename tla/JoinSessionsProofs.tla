------------------------- MODULE JoinSessionsProofs -------------------------
(***************************************************************************)
(* Of a pairing: the types, and that a token goes to the approved request  *)
(* only, once for a code, that nothing a claim started outlives it, that   *)
(* wrong confirmations are counted across resumptions, that a device that  *)
(* comes back does not discard its own claim, and that all of it together  *)
(* is what PairingGrants promises.                                         *)
(*                                                                         *)
(* The calls work on the session as purge and lapse leave it (Found,       *)
(* Current), so what is invariant is stated of any session, flows, history *)
(* and installers, and shown to survive these two.                         *)
(***************************************************************************)
EXTENDS JoinSessions, FiniteSetTheorems, TLAPS

Flows == [0..MaxClaims -> FlowStates]

\* The session s and the flows f belong together.
Together(s, f) ==
    /\ s \in Sessions /\ f \in Flows /\ f[0] = "none"
    /\ s.flow \in {0, s.claim} /\ (s.mode = "auth" => s.flow = 0)
    /\ s.state \in {"claimed", "approved"} => s.claim # 0 /\ s.sid # 0 /\ (s.mode = "code" => s.flow = s.claim)
    /\ s.state = "waiting" => s.sid # 0
    /\ s.state = "none" => s.sid = 0 /\ s.flow = 0
    /\ s.state = "compromised" => s.flow = 0
    /\ s.auth => s.state = "approved" /\ s.mode = "auth"
    /\ \A c \in Claims : f[c] = "pending" => s.flow = c /\ s.state = "claimed"
    /\ \A c \in Claims : f[c] = "approved" => s.flow = c /\ s.state = "approved"

\* What was approved: at most one claim of a code, and then the code is used.
Chosen(s, f, h) ==
    /\ h \in Histories /\ s.sid <= h.sids
    /\ \A c \in Claims : f[c] # "none" => h.sidOf[c] # 0
    /\ \A c \in Claims : f[c] = "approved" => c \in h.approved
    /\ s.auth => s.claim \in h.approved
    /\ s.state \in {"claimed", "approved"} => h.sidOf[s.claim] = s.sid
    /\ \A c \in Claims : h.sidOf[c] <= h.sids
    /\ \A c \in h.approved : h.sidOf[c] # 0
    /\ \A c \in h.approved : h.sidOf[c] = s.sid => c = s.claim /\ s.state \notin {"waiting", "claimed"}
    /\ \A c, d \in h.approved : h.sidOf[c] = h.sidOf[d] => c = d

\* What an installer x waits for or was granted.
Granted(x, s, f, h) ==
    /\ x \in Installs
    /\ x.pc # "idle" => x.claim # 0 /\ h.sidOf[x.claim] # 0
    /\ x.pc \in {"granted", "issued", "prompt", "revoked"} => x.claim \in h.approved
    /\ x.pc \in {"granted", "issued"} /\ x.mode = "code" => f[x.claim] = "none"
    /\ x.pc \in {"granted", "issued"} /\ x.mode = "auth" => x.sid <= h.sids /\ x.sid # 0
    /\ x.pc \in {"granted", "issued"} /\ x.mode = "auth" /\ x.sid = s.sid =>
          s.mode = "auth" /\ s.state \notin {"waiting", "claimed", "compromised"} /\ ~s.auth

\* The wrong confirmations of the code.
Guessed(s, h) ==
    /\ s.state # "none" => h.wrong = s.fails
    /\ h.wrong <= MaxConfirmFails
    /\ s.fails = MaxConfirmFails => s.state = "compromised"

Sound(s, f, h) == Together(s, f) /\ Chosen(s, f, h) /\ Guessed(s, h)

Inv ==
    /\ TypeOK
    /\ Sound(session, flow, hist)
    /\ \A i \in Installers : Granted(inst[i], session, flow, hist)
    /\ TokenAsApproved

-----------------------------------------------------------------------------
(* purge, lapse and DropJoin *)

LEMMA DropFlow ==
    ASSUME NEW f \in Flows, NEW c \in 0..MaxClaims, f[0] = "none"
    PROVE  /\ Dropped(f, c) \in Flows /\ Dropped(f, c)[0] = "none"
           /\ Dropped(f, c)[c] = "none"
           /\ \A d \in 0..MaxClaims : Dropped(f, c)[d] \in {f[d], "none"}
           /\ \A d \in Claims : Dropped(f, c)[d] \in {f[d], "none"}
  BY DEF Dropped, Flows, FlowStates, Claims

LEMMA DropSound ==
    ASSUME NEW s, NEW f, NEW h, NEW c \in 0..MaxClaims, Sound(s, f, h)
    PROVE  Sound(s, Dropped(f, c), h)
<1>1. /\ Dropped(f, c) \in Flows /\ Dropped(f, c)[0] = "none"
      /\ \A d \in 0..MaxClaims : Dropped(f, c)[d] \in {f[d], "none"}
  BY DropFlow DEF Sound, Together
<1>. DEFINE g == Dropped(f, c)
<1>. HIDE DEF g
<1>2. g \in Flows /\ g[0] = "none" /\ \A d \in Claims : g[d] \in {f[d], "none"}
  BY <1>1 DEF g, Claims
<1>3. Sound(s, g, h)
  BY <1>2 DEF Sound, Together, Chosen
<1>. QED
  BY <1>3 DEF g

LEMMA DropGranted ==
    ASSUME NEW x, NEW s, NEW f \in Flows, NEW h, NEW c \in 0..MaxClaims, f[0] = "none", Granted(x, s, f, h)
    PROVE  Granted(x, s, Dropped(f, c), h)
<1>1. x \in Installs /\ x.claim \in 0..MaxClaims
  BY DEF Granted, Installs
<1>2. Dropped(f, c)[x.claim] \in {f[x.claim], "none"}
  BY <1>1, DropFlow
<1>. QED
  BY <1>2 DEF Granted

LEMMA Limits ==
    ASSUME JoinAssumption
    PROVE  /\ MaxSessions \in Nat /\ MaxClaims \in Nat /\ MaxEvents \in Nat
           /\ SessionTTL \in Nat \ {0} /\ MaxLifetime \in Nat \ {0} /\ ClaimTTL \in Nat \ {0}
           /\ AuthTTL \in Nat \ {0} /\ ResumeTTL \in Nat \ {0} /\ MaxConfirmFails \in Nat \ {0}
           /\ SessionTTL <= MaxLifetime
  BY DEF JoinAssumption

LEMMA FreshType ==
    ASSUME JoinAssumption, NEW sid \in 0..MaxSessions
    PROVE  Fresh(sid) \in Sessions
  BY Limits DEF Fresh, Sessions, Modes

LEMMA NoSessionType == ASSUME JoinAssumption PROVE NoSession \in Sessions
<1>1. Fresh(0) \in Sessions /\ 0 \in 0..MaxLifetime
  BY Limits, FreshType
<1>. QED
  BY <1>1, Zenon DEF NoSession, Sessions

\* A session that is no longer there has no flow.
LEMMA GoneSound ==
    ASSUME NEW s, NEW f, NEW h, Sound(s, f, h), JoinAssumption
    PROVE  Sound(NoSession, Dropped(f, s.flow), h)
<1>. DEFINE g == Dropped(f, s.flow)
<1>1. s \in Sessions /\ f \in Flows /\ f[0] = "none" /\ s.flow \in 0..MaxClaims
  BY DEF Sound, Together, Sessions
<1>2. /\ g \in Flows /\ g[0] = "none" /\ g[s.flow] = "none"
      /\ \A d \in Claims : g[d] \in {f[d], "none"}
  BY <1>1, DropFlow DEF Claims
<1>. HIDE DEF g
<1>3. \A d \in Claims : g[d] \notin {"pending", "approved"}
  BY <1>1, <1>2 DEF Sound, Together
<1>4. /\ NoSession.state = "none" /\ NoSession.sid = 0 /\ NoSession.mode = "auth" /\ NoSession.claim = 0
      /\ NoSession.flow = 0 /\ NoSession.auth = FALSE /\ NoSession.fails = 0
  BY DEF NoSession, Fresh
<1>5. NoSession \in Sessions
  BY NoSessionType
<1>6. Together(NoSession, g)
  BY <1>2, <1>3, <1>4, <1>5 DEF Together
<1>7. Chosen(NoSession, g, h)
  <2>1. h \in Histories /\ NoSession.sid <= h.sids /\ 0 <= h.sids
    BY <1>4 DEF Sound, Chosen, Histories
  <2>2. \A c \in h.approved : h.sidOf[c] # 0
    BY DEF Sound, Chosen
  <2>. QED
    BY <1>2, <1>3, <1>4, <2>1, <2>2 DEF Sound, Chosen
<1>8. Guessed(NoSession, h)
  BY <1>4 DEF Sound, Guessed, JoinAssumption
<1>. QED
  BY <1>6, <1>7, <1>8 DEF Sound, g

LEMMA GoneGranted ==
    ASSUME NEW x, NEW s, NEW f, NEW h, Sound(s, f, h), Granted(x, s, f, h)
    PROVE  Granted(x, NoSession, Dropped(f, s.flow), h)
<1>1. f \in Flows /\ f[0] = "none" /\ s.flow \in 0..MaxClaims
  BY DEF Sound, Together, Sessions
<1>2. Granted(x, s, Dropped(f, s.flow), h)
  BY <1>1, DropGranted
<1>3. NoSession.state = "none" /\ NoSession.mode = "auth" /\ NoSession.auth = FALSE
  BY DEF NoSession, Fresh
<1>. QED
  BY <1>2, <1>3 DEF Granted

LEMMA FoundSound ==
    ASSUME Inv, JoinAssumption
    PROVE  /\ Sound(Found, FoundFlow, hist)
           /\ \A i \in Installers : Granted(inst[i], Found, FoundFlow, hist)
<1>1. CASE session.left # 0
  BY <1>1 DEF Found, FoundFlow, Inv
<1>2. CASE session.left = 0
  <2>1. Found = NoSession /\ FoundFlow = Dropped(flow, session.flow)
    BY <1>2 DEF Found, FoundFlow
  <2>2. Sound(Found, FoundFlow, hist)
    BY <2>1, GoneSound DEF Inv
  <2>. QED
    BY <2>1, <2>2, GoneGranted DEF Inv
<1>. QED
  BY <1>1, <1>2

\* compromise and lapse of a session that waits for its decision: none of its
\* grants is out.
LEMMA EndedTogether ==
    ASSUME NEW s, NEW f, NEW h, Together(s, f), Chosen(s, f, h), s.state = "claimed", JoinAssumption,
           NEW state \in {"compromised", "expired"}
    PROVE  /\ Together(Ended(s, state), Dropped(f, s.flow))
           /\ Chosen(Ended(s, state), Dropped(f, s.flow), h)
           /\ Ended(s, state).state = state /\ Ended(s, state).fails = s.fails
           /\ \A x : Granted(x, s, f, h) => Granted(x, Ended(s, state), Dropped(f, s.flow), h)
<1>. DEFINE g == Dropped(f, s.flow)
<1>1. s \in Sessions /\ f \in Flows /\ f[0] = "none" /\ s.flow \in 0..MaxClaims
  BY DEF Together, Sessions
<1>2. /\ g \in Flows /\ g[0] = "none" /\ g[s.flow] = "none"
      /\ \A d \in Claims : g[d] \in {f[d], "none"}
  BY <1>1, DropFlow, Zenon
<1>3. \A x : Granted(x, s, f, h) => Granted(x, s, g, h)
  BY <1>1, DropGranted
<1>. HIDE DEF g
<1>4. \A d \in Claims : g[d] \notin {"pending", "approved"}
  BY <1>1, <1>2 DEF Together
<1>5. 0 \in 0..MaxClaims
  BY Limits
<1>. DEFINE e == Ended(s, state)
<1>6. e \in Sessions
  BY <1>1, <1>5, Zenon DEF Sessions, Ended
<1>7. /\ e.state = state /\ e.flow = 0 /\ e.auth = FALSE /\ e.fails = s.fails
      /\ e.mode = s.mode /\ e.claim = s.claim /\ e.sid = s.sid
  BY <1>1 DEF Sessions, Ended
<1>. HIDE DEF e
<1>8. Together(e, g)
  BY <1>2, <1>4, <1>6, <1>7 DEF Together
<1>9. Chosen(e, g, h)
  BY <1>2, <1>4, <1>7 DEF Chosen
<1>10. \A x : Granted(x, s, f, h) => Granted(x, e, g, h)
  BY <1>3, <1>7 DEF Granted
<1>. QED
  BY <1>7, <1>8, <1>9, <1>10, Zenon DEF g, e

LEMMA CurrentSound ==
    ASSUME Inv, JoinAssumption
    PROVE  /\ Sound(Current, CurrentFlow, hist)
           /\ \A i \in Installers : Granted(inst[i], Current, CurrentFlow, hist)
<1>1. /\ Sound(Found, FoundFlow, hist)
      /\ \A i \in Installers : Granted(inst[i], Found, FoundFlow, hist)
  BY FoundSound
<1>2. CASE Overdue(Found)
  <2>1. Current = Ended(Found, "expired") /\ CurrentFlow = Dropped(FoundFlow, Found.flow)
    BY <1>2 DEF Current, CurrentFlow
  <2>2. Found.state = "claimed"
    BY <1>2 DEF Overdue
  <2>3. Found.fails < MaxConfirmFails
    <3>1. Found.fails \in 0..MaxConfirmFails /\ Found.fails # MaxConfirmFails
      BY <1>1, <2>2 DEF Sound, Together, Sessions, Guessed
    <3>. QED
      BY <3>1 DEF JoinAssumption
  <2>4. Sound(Current, CurrentFlow, hist)
    <3>1. /\ Together(Current, CurrentFlow) /\ Chosen(Current, CurrentFlow, hist)
          /\ Current.state = "expired" /\ Current.fails = Found.fails
      BY <1>1, <2>1, <2>2, EndedTogether DEF Sound
    <3>2. Guessed(Current, hist)
      BY <1>1, <2>2, <2>3, <3>1 DEF Sound, Guessed
    <3>. QED
      BY <3>1, <3>2 DEF Sound
  <2>. QED
    BY <1>1, <2>1, <2>2, <2>4, EndedTogether DEF Sound
<1>3. CASE ~Overdue(Found)
  BY <1>1, <1>3 DEF Current, CurrentFlow
<1>. QED
  BY <1>2, <1>3

-----------------------------------------------------------------------------
(* What the actions share *)

Typed ==
    /\ tab \in [Tabs -> 0..MaxClaims] /\ seen \subseteq Claims
    /\ inst \in [Installers -> Installs] /\ file \in [Installers -> Files]
    /\ token \in [Claims -> {"none", "valid", "revoked"}]
    /\ events \in 0..MaxEvents

LEMMA Together2 ==
    ASSUME Typed', Sound(session, flow, hist)', TokenAsApproved',
           \A i \in Installers : Granted(inst[i], session, flow, hist)'
    PROVE  Inv'
<1>1. TypeOK'
  BY DEF Typed, Sound, Together, Chosen, TypeOK, Flows
<1>. QED
  BY <1>1 DEF Inv

\* Histories that differ in callers and slipped only.
Alike(h, k) == /\ h \in Histories /\ k \in Histories
               /\ k.sids = h.sids /\ k.sidOf = h.sidOf /\ k.approved = h.approved /\ k.wrong = h.wrong

LEMMA AlikeSound ==
    ASSUME NEW s, NEW f, NEW h, NEW k, Alike(h, k)
    PROVE  /\ Sound(s, f, h) => Sound(s, f, k)
           /\ \A x : Granted(x, s, f, h) => Granted(x, s, f, k)
  BY DEF Alike, Sound, Chosen, Guessed, Granted

LEMMA AlikeSelf == ASSUME Inv PROVE Alike(hist, hist) /\ hist \in Histories
  BY DEF Inv, TypeOK, Alike

LEMMA IdleGranted ==
    ASSUME JoinAssumption
    PROVE  /\ IdleInstall \in Installs
           /\ \A s, f, h : Granted(IdleInstall, s, f, h)
  BY Limits DEF IdleInstall, Installs, Granted, Modes

LEMMA Left ==
    ASSUME Inv, JoinAssumption, NEW i \in Installers, NEW h \in Histories, Leaves(i, h)
    PROVE  /\ inst' \in [Installers -> Installs] /\ file' \in [Installers -> Files]
           /\ Alike(h, hist')
           /\ inst'[i] = IdleInstall /\ \A j \in Installers \ {i} : inst'[j] = inst[j]
<1>1. inst \in [Installers -> Installs] /\ file \in [Installers -> Files]
  BY DEF Inv, TypeOK
<1>2. NoFile \in Files /\ IdleInstall \in Installs
  BY Limits, IdleGranted DEF NoFile, Files
<1>3. /\ inst' = [inst EXCEPT ![i] = IdleInstall] /\ file' = [file EXCEPT ![i] = NoFile]
      /\ hist' = [h EXCEPT !.slipped = h.slipped \/ Resume(i, session.sid) # 0]
  BY DEF Leaves
<1>4. (h.slipped \/ Resume(i, session.sid) # 0) \in BOOLEAN
  BY DEF Histories
<1>5. Alike(h, hist')
  BY <1>3, <1>4 DEF Histories, Alike
<1>. QED
  BY <1>1, <1>2, <1>3, <1>5

\* The token and what was approved stay: so does TokenAsApproved.
LEMMA ApprovedKept ==
    ASSUME Inv, UNCHANGED token, hist.approved \subseteq hist'.approved
    PROVE  TokenAsApproved'
  BY DEF Inv, TokenAsApproved

LEMMA TypedNow == ASSUME Inv PROVE Typed
  BY DEF Inv, TypeOK, Typed

-----------------------------------------------------------------------------
(* The page *)

LEMMA FreshSound ==
    ASSUME NEW s, NEW f, NEW h, Sound(s, f, h), JoinAssumption, h.sids < MaxSessions,
           NEW k \in Histories, k.sids = h.sids + 1, k.sidOf = h.sidOf, k.approved = h.approved, k.wrong = 0
    PROVE  /\ Sound(Fresh(h.sids + 1), Dropped(f, s.flow), k)
           /\ \A x : Granted(x, s, f, h) => Granted(x, Fresh(h.sids + 1), Dropped(f, s.flow), k)
<1>. DEFINE g == Dropped(f, s.flow)
            e == Fresh(h.sids + 1)
<1>1. /\ s \in Sessions /\ f \in Flows /\ f[0] = "none" /\ s.flow \in 0..MaxClaims
      /\ h \in Histories /\ h.sids \in 0..MaxSessions
  BY DEF Sound, Together, Sessions, Chosen, Histories
<1>2. /\ g \in Flows /\ g[0] = "none" /\ g[s.flow] = "none"
      /\ \A d \in Claims : g[d] \in {f[d], "none"}
  BY <1>1, DropFlow, Zenon
<1>3. h.sids + 1 \in 0..MaxSessions
  BY <1>1, Limits
<1>4. /\ e.state = "waiting" /\ e.sid = h.sids + 1 /\ e.mode = "auth" /\ e.claim = 0
      /\ e.flow = 0 /\ e.auth = FALSE /\ e.fails = 0
  BY DEF Fresh
<1>5. e \in Sessions
  BY <1>3, FreshType
<1>. HIDE DEF e
<1>6. ASSUME NEW x, Granted(x, s, f, h) PROVE Granted(x, e, g, k)
  <2>1. Granted(x, s, g, h)
    BY <1>1, <1>6, DropGranted
  <2>2. x \in Installs /\ x.sid \in 0..MaxSessions
    BY <1>6 DEF Granted, Installs
  <2>3. x.pc \in {"granted", "issued"} /\ x.mode = "auth" => x.sid <= h.sids /\ x.sid # e.sid /\ x.sid <= k.sids
    BY <1>1, <1>4, <1>6, <2>2 DEF Granted
  <2>. HIDE DEF g
  <2>. QED
    BY <2>1, <2>2, <2>3 DEF Granted
<1>. HIDE DEF g
<1>7. \A d \in Claims : g[d] \notin {"pending", "approved"}
  BY <1>1, <1>2 DEF Sound, Together
<1>8. Together(e, g)
  <2>1. e.sid # 0
    BY <1>1, <1>4
  <2>. QED
    BY <1>2, <1>4, <1>5, <1>7, <2>1 DEF Together
<1>9. Chosen(e, g, k)
  <2>1. \A c \in Claims : h.sidOf[c] \in 0..MaxSessions /\ h.sidOf[c] <= h.sids /\ h.sidOf[c] <= k.sids
                          /\ h.sidOf[c] # e.sid
    BY <1>1, <1>4 DEF Sound, Chosen, Histories
  <2>2. e.sid <= k.sids /\ k.approved \subseteq Claims
    BY <1>1, <1>4 DEF Histories
  <2>3. /\ \A c \in Claims : g[c] # "none" => k.sidOf[c] # 0
        /\ \A c \in k.approved : k.sidOf[c] # 0
        /\ \A c, d \in k.approved : k.sidOf[c] = k.sidOf[d] => c = d
    BY <1>2 DEF Sound, Chosen
  <2>. QED
    BY <1>4, <1>7, <2>1, <2>2, <2>3 DEF Chosen
<1>10. Guessed(e, k)
  BY <1>4, Limits DEF Guessed
<1>11. Sound(e, g, k)
  BY <1>8, <1>9, <1>10 DEF Sound
<1>12. \A x : Granted(x, s, f, h) => Granted(x, e, g, k)
  BY <1>6
<1>. QED
  BY <1>11, <1>12, Zenon DEF g, e

LEMMA CreateKeeps == ASSUME Inv, JoinAssumption, Create PROVE Inv'
<1>1. /\ hist \in Histories /\ hist.sids < MaxSessions
      /\ hist' = [hist EXCEPT !.sids = @ + 1, !.wrong = 0, !.callers = {}, !.slipped = FALSE]
      /\ session' = Fresh(hist.sids + 1) /\ flow' = Dropped(FoundFlow, Found.flow)
      /\ UNCHANGED <<tab, seen, inst, file, token, events>>
  BY AlikeSelf DEF Create
<1>2. hist.sids + 1 \in 0..MaxSessions /\ 0 \in Nat
  BY <1>1 DEF Histories
<1>3. hist' \in Histories
  BY <1>1, <1>2, Zenon DEF Histories
<1>4. /\ hist'.sids = hist.sids + 1 /\ hist'.sidOf = hist.sidOf
      /\ hist'.approved = hist.approved /\ hist'.wrong = 0
  BY <1>1 DEF Histories
<1>5. Sound(session, flow, hist)' /\ \A i \in Installers : Granted(inst[i], session, flow, hist)'
  BY <1>1, <1>3, <1>4, FoundSound, FreshSound
<1>6. Typed' /\ TokenAsApproved'
  BY <1>1, <1>4, TypedNow, ApprovedKept DEF Typed
<1>. QED
  BY <1>5, <1>6, Together2

\* The session stays as it was found, and the history alike.
LEMMA LookedKeeps ==
    ASSUME Inv, JoinAssumption, Looked, Alike(hist, hist'), Typed', UNCHANGED <<inst, token>>
    PROVE  Inv'
<1>1. Sound(session, flow, hist)' /\ \A i \in Installers : Granted(inst[i], session, flow, hist)'
  BY CurrentSound, AlikeSound DEF Looked
<1>2. TokenAsApproved'
  BY ApprovedKept DEF Alike
<1>. QED
  BY <1>1, <1>2, Together2

LEMMA ViewKeeps == ASSUME Inv, JoinAssumption, View PROVE Inv'
<1>1. hist \in Histories /\ Alike(hist, hist)
  BY AlikeSelf
<1>2. Current \in Sessions
  BY CurrentSound DEF Sound, Together
<1>3. Typed'
  <2>1. Shown = "claimed" => Current.claim \in Claims
    <3>1. Shown = "claimed" => Current.state = "claimed"
      BY DEF Shown
    <3>2. Current.state = "claimed" => Current.claim # 0
      BY CurrentSound DEF Sound, Together
    <3>. QED
      BY <1>2, <3>1, <3>2 DEF Sessions, Claims
  <2>. QED
    BY <2>1, TypedNow DEF View, Typed
<1>4. Alike(hist, hist')
  BY <1>1 DEF View
<1>. QED
  BY <1>3, <1>4, LookedKeeps DEF View

\* A claim that can be decided waits, in a session that shows it.
LEMMA DecidableIs ==
    ASSUME Inv, JoinAssumption, NEW c, Decidable(c)
    PROVE  /\ Current.state = "claimed" /\ c = Current.claim /\ c \in Claims
           /\ Current \in Sessions /\ CurrentFlow \in Flows /\ CurrentFlow[0] = "none"
           /\ (Current.mode = "code" => Current.flow = c) /\ (Current.mode = "auth" => Current.flow = 0)
           /\ Current.flow \in 0..MaxClaims /\ Current.sid # 0 /\ hist.sidOf[c] = Current.sid
           /\ ~Current.auth /\ (Current.mode = "code" => CurrentFlow[c] # "none")
<1>1. Current.state = "claimed" /\ c = Current.claim
  BY DEF Decidable, Shown
<1>2. /\ Current \in Sessions /\ CurrentFlow \in Flows /\ CurrentFlow[0] = "none"
      /\ Current.claim # 0 /\ (Current.mode = "code" => Current.flow = c) /\ (Current.mode = "auth" => Current.flow = 0)
      /\ Current.sid # 0 /\ hist.sidOf[c] = Current.sid /\ ~Current.auth
  BY <1>1, CurrentSound DEF Sound, Together, Chosen
<1>3. c \in Claims /\ Current.flow \in 0..MaxClaims
  BY <1>1, <1>2 DEF Sessions, Claims
<1>4. Current.mode = "code" => CurrentFlow[c] # "none"
  BY <1>1, <1>2 DEF Decidable, Shown
<1>. QED
  BY <1>1, <1>2, <1>3, <1>4

\* While a claim waits, no grant of its code is out: it may be decided.
LEMMA GrantedApart ==
    ASSUME NEW x, NEW s, NEW f, NEW h, Granted(x, s, f, h), s.state = "claimed",
           NEW e, e.sid = s.sid,
           NEW g, \A d \in 0..MaxClaims : f[d] = "none" => g[d] = "none",
           NEW k, k.sidOf = h.sidOf, h.approved \subseteq k.approved, k.sids = h.sids
    PROVE  Granted(x, e, g, k)
<1>1. x \in Installs /\ x.claim \in 0..MaxClaims
  BY DEF Granted, Installs
<1>. QED
  BY <1>1 DEF Granted

LEMMA DenyKeeps == ASSUME Inv, JoinAssumption, Deny PROVE Inv'
<1>. PICK c \in seen : Decidable(c)
  BY DEF Deny
<1>. DEFINE e == [Current EXCEPT !.state = "denied"]
            g == IF Current.mode = "code" THEN [CurrentFlow EXCEPT ![Current.flow] = "denied"] ELSE CurrentFlow
<1>1. /\ session' = e /\ flow' = g /\ UNCHANGED <<tab, seen, inst, file, token, hist, events>>
  BY DEF Deny
<1>2. /\ Sound(Current, CurrentFlow, hist) /\ \A i \in Installers : Granted(inst[i], Current, CurrentFlow, hist)
  BY CurrentSound
<1>3. /\ e \in Sessions /\ e.state = "denied" /\ e.flow = Current.flow /\ e.mode = Current.mode
      /\ e.claim = Current.claim /\ e.sid = Current.sid /\ ~e.auth /\ e.fails = Current.fails
  BY DecidableIs DEF Sessions
<1>4. /\ g \in Flows /\ g[0] = "none"
      /\ \A d \in Claims : g[d] = CurrentFlow[d] \/ (d = Current.flow /\ g[d] = "denied" /\ CurrentFlow[d] # "none")
      /\ (Current.mode = "code" => g[Current.flow] = "denied")
      /\ \A d \in 0..MaxClaims : CurrentFlow[d] = "none" => g[d] = "none"
  BY DecidableIs DEF Flows, FlowStates, Claims
<1>. HIDE DEF e, g
<1>5. \A d \in Claims : g[d] \notin {"pending", "approved"}
  <2>. SUFFICES ASSUME NEW d \in Claims, g[d] \in {"pending", "approved"} PROVE FALSE
    OBVIOUS
  <2>1. CurrentFlow[d] = g[d] /\ d # 0 /\ Current.mode \in Modes
    BY <1>4, DecidableIs DEF Claims, Sessions
  <2>2. d = Current.flow
    BY <1>2, <2>1, DecidableIs DEF Sound, Together
  <2>. QED
    BY <1>4, <2>1, <2>2, DecidableIs DEF Modes
<1>6. Together(e, g)
  BY <1>2, <1>3, <1>4, <1>5 DEF Sound, Together
<1>7. Chosen(e, g, hist)
  BY <1>2, <1>3, <1>4, <1>5, DecidableIs DEF Sound, Chosen
<1>8. Guessed(e, hist)
  BY <1>2, <1>3, DecidableIs DEF Sound, Guessed
<1>9. Sound(e, g, hist)
  BY <1>6, <1>7, <1>8 DEF Sound
<1>10. \A i \in Installers : Granted(inst[i], e, g, hist)
  BY <1>2, <1>3, <1>4, DecidableIs, GrantedApart
<1>11. Typed' /\ TokenAsApproved'
  BY <1>1, TypedNow, ApprovedKept DEF Typed
<1>. QED
  BY <1>1, <1>9, <1>10, <1>11, Together2

LEMMA CheckedTab ==
    ASSUME Inv, JoinAssumption, NEW t \in Tabs, Checked(t)
    PROVE  tab' \in [Tabs -> 0..MaxClaims] /\ tab[t] \in Claims
  BY Limits DEF Inv, TypeOK, Checked, Claims

LEMMA StartApprovalKeeps == ASSUME Inv, JoinAssumption, NEW t \in Tabs, StartApproval(t) PROVE Inv'
<1>1. tab' \in [Tabs -> 0..MaxClaims]
  BY DEF StartApproval, Inv, TypeOK, Claims
<1>2. Typed'
  BY <1>1, TypedNow DEF StartApproval, Typed
<1>3. Alike(hist, hist')
  BY AlikeSelf DEF StartApproval
<1>. QED
  BY <1>2, <1>3, LookedKeeps DEF StartApproval

LEMMA FailApprovalKeeps == ASSUME Inv, JoinAssumption, NEW t \in Tabs, FailApproval(t) PROVE Inv'
<1>1. Alike(hist, hist') /\ UNCHANGED <<inst, token>>
  BY AlikeSelf DEF FailApproval
<1>2. events' \in 0..MaxEvents
  BY Limits DEF FailApproval, Happens, Inv, TypeOK
<1>3. Typed'
  BY <1>2, CheckedTab, TypedNow DEF FailApproval, Typed
<1>4. CASE SameRequest(tab[t])
  <2>1. session' = session /\ flow' = flow
    BY <1>4 DEF FailApproval
  <2>2. Sound(session, flow, hist)' /\ \A i \in Installers : Granted(inst[i], session, flow, hist)'
    BY <1>1, <2>1 DEF FailApproval, Inv
  <2>. QED
    BY <1>1, <1>3, <2>2, ApprovedKept, Together2 DEF Alike
<1>5. CASE ~SameRequest(tab[t])
  BY <1>1, <1>3, <1>5, LookedKeeps DEF FailApproval
<1>. QED
  BY <1>4, <1>5

LEMMA MisconfirmKeeps == ASSUME Inv, JoinAssumption, NEW t \in Tabs, Misconfirm(t) PROVE Inv'
<1>. DEFINE e == [Current EXCEPT !.fails = Current.fails + 1]
            h == [hist EXCEPT !.wrong = hist.wrong + 1]
<1>1. /\ hist' = h /\ UNCHANGED <<seen, inst, file, token, events>> /\ Decidable(tab[t])
      /\ IF e.fails >= MaxConfirmFails
         THEN session' = Ended(e, "compromised") /\ flow' = Dropped(CurrentFlow, e.flow)
         ELSE session' = e /\ flow' = CurrentFlow
  BY DEF Misconfirm, SameRequest
<1>2. /\ Sound(Current, CurrentFlow, hist) /\ \A i \in Installers : Granted(inst[i], Current, CurrentFlow, hist)
  BY CurrentSound
<1>3. /\ Current.fails \in 0..MaxConfirmFails /\ Current.fails # MaxConfirmFails /\ hist.wrong = Current.fails
      /\ hist \in Histories /\ Current \in Sessions /\ Current.state = "claimed"
  BY <1>1, <1>2, DecidableIs DEF Sound, Together, Sessions, Guessed, Chosen
<1>4. Current.fails + 1 \in 0..MaxConfirmFails /\ hist.wrong + 1 \in Nat
  BY <1>3, Limits
<1>5. e \in Sessions
  BY <1>3, <1>4, Zenon DEF Sessions
<1>6. /\ e.state = "claimed" /\ e.flow = Current.flow /\ e.mode = Current.mode /\ e.auth = Current.auth
      /\ e.claim = Current.claim /\ e.sid = Current.sid /\ e.fails = Current.fails + 1
  BY <1>3 DEF Sessions
<1>7. h \in Histories
  BY <1>3, <1>4, Zenon DEF Histories
<1>8. /\ h.sids = hist.sids /\ h.sidOf = hist.sidOf /\ h.approved = hist.approved /\ h.wrong = hist.wrong + 1
  BY <1>3 DEF Histories
<1>. HIDE DEF e, h
<1>9. Together(e, CurrentFlow) /\ Chosen(e, CurrentFlow, h)
  <2>1. Together(e, CurrentFlow)
    BY <1>2, <1>3, <1>5, <1>6 DEF Sound, Together
  <2>2. Chosen(e, CurrentFlow, h)
    BY <1>2, <1>3, <1>6, <1>7, <1>8 DEF Sound, Chosen
  <2>. QED
    BY <2>1, <2>2
<1>10. \A i \in Installers : Granted(inst[i], e, CurrentFlow, h)
  BY <1>2, <1>3, <1>6, <1>8, GrantedApart
<1>11. Typed' /\ TokenAsApproved'
  BY <1>1, <1>8, TypedNow, CheckedTab, ApprovedKept DEF Typed, Misconfirm
<1>12. CASE e.fails < MaxConfirmFails
  <2>1. Guessed(e, h)
    BY <1>3, <1>6, <1>8, <1>12 DEF Guessed
  <2>2. session' = e /\ flow' = CurrentFlow
    BY <1>1, <1>3, <1>6, <1>12, Limits
  <2>. QED
    BY <1>1, <1>9, <1>10, <1>11, <2>1, <2>2, Together2 DEF Sound
<1>13. CASE e.fails = MaxConfirmFails
  <2>1. session' = Ended(e, "compromised") /\ flow' = Dropped(CurrentFlow, e.flow)
    BY <1>1, <1>13, Limits
  <2>2. /\ Together(session', flow') /\ Chosen(session', flow', h)
        /\ \A i \in Installers : Granted(inst[i], session', flow', h)
    BY <1>6, <1>9, <1>10, <2>1, EndedTogether
  <2>3. Guessed(session', h)
    <3>1. session'.fails = e.fails /\ session'.state = "compromised"
      BY <1>5, <2>1 DEF Ended, Sessions
    <3>. QED
      BY <1>3, <1>6, <1>8, <1>13, <3>1, Limits DEF Guessed
  <2>. QED
    BY <1>1, <1>11, <2>2, <2>3, Together2 DEF Sound
<1>. QED
  BY <1>3, <1>4, <1>6, <1>12, <1>13

LEMMA ApproveKeeps == ASSUME Inv, JoinAssumption, NEW t \in Tabs, Approve(t) PROVE Inv'
<1>. DEFINE c == tab[t]
            h == [hist EXCEPT !.approved = hist.approved \union {c}]
<1>1. /\ hist' = h /\ UNCHANGED <<seen, inst, file, token, events>> /\ Decidable(c) /\ c \in Claims
      /\ tab' \in [Tabs -> 0..MaxClaims]
  BY CheckedTab DEF Approve, SameRequest
<1>2. /\ Sound(Current, CurrentFlow, hist) /\ \A i \in Installers : Granted(inst[i], Current, CurrentFlow, hist)
  BY CurrentSound
<1>3. /\ hist \in Histories /\ Current \in Sessions /\ Current.state = "claimed" /\ c = Current.claim
      /\ hist.sidOf[c] = Current.sid /\ Current.sid # 0 /\ c # 0
  BY <1>1, <1>2, DecidableIs DEF Sound, Together, Sessions, Chosen, Claims
<1>4. /\ h \in Histories /\ h.sids = hist.sids /\ h.sidOf = hist.sidOf
      /\ h.approved = hist.approved \union {c} /\ h.wrong = hist.wrong
  BY <1>1, <1>3 DEF Histories
<1>5. Typed' /\ TokenAsApproved'
  BY <1>1, <1>4, TypedNow, ApprovedKept DEF Typed
<1>. HIDE DEF c, h
<1>6. \A d \in hist.approved : hist.sidOf[d] # Current.sid
  BY <1>2, <1>3 DEF Sound, Chosen
<1>7. SUFFICES ASSUME NEW e \in Sessions, NEW g \in Flows, session' = e, flow' = g, g[0] = "none",
                      e.state = "approved", e.flow = Current.flow, e.mode = Current.mode,
                      e.claim = c, e.sid = Current.sid, e.fails = Current.fails, e.auth <=> e.mode = "auth",
                      \A d \in Claims : g[d] = IF d = e.flow THEN "approved" ELSE CurrentFlow[d],
                      \A d \in 0..MaxClaims : CurrentFlow[d] = "none" => g[d] = "none"
               PROVE  Inv'
  <2>1. CASE Current.mode = "code"
    <3>. DEFINE e == [Current EXCEPT !.state = "approved"]
                g == [CurrentFlow EXCEPT ![Current.flow] = "approved"]
    <3>1. session' = e /\ flow' = g
      BY <2>1 DEF Approve
    <3>2. /\ e \in Sessions /\ e.state = "approved" /\ e.flow = Current.flow /\ e.mode = Current.mode
          /\ e.claim = c /\ e.sid = Current.sid /\ e.fails = Current.fails /\ (e.auth <=> e.mode = "auth")
      BY <1>1, <1>3, <2>1, DecidableIs DEF Sessions
    <3>3. /\ g \in Flows /\ g[0] = "none"
          /\ \A d \in Claims : g[d] = IF d = Current.flow THEN "approved" ELSE CurrentFlow[d]
          /\ \A d \in 0..MaxClaims : CurrentFlow[d] = "none" => g[d] = "none"
      <4>1. /\ CurrentFlow \in Flows /\ CurrentFlow[0] = "none" /\ Current.flow = c /\ c \in Claims
            /\ CurrentFlow[c] # "none"
        BY <1>1, <2>1, DecidableIs
      <4>. QED
        BY <4>1 DEF Flows, FlowStates, Claims
    <3>. HIDE DEF e, g
    <3>. QED
      BY <3>1, <3>2, <3>3, <1>7
  <2>2. CASE Current.mode # "code"
    <3>. DEFINE e == [Current EXCEPT !.state = "approved", !.auth = TRUE, !.authLeft = AuthTTL]
    <3>1. session' = e /\ flow' = CurrentFlow /\ Current.mode = "auth"
      BY <1>3, <2>2 DEF Approve, Sessions, Modes
    <3>2. AuthTTL \in 0..AuthTTL /\ TRUE \in BOOLEAN
      BY Limits
    <3>3. e \in Sessions
      BY <1>3, <3>2, Zenon DEF Sessions
    <3>4. /\ e.state = "approved" /\ e.flow = Current.flow /\ e.mode = Current.mode
          /\ e.claim = c /\ e.sid = Current.sid /\ e.fails = Current.fails /\ (e.auth <=> e.mode = "auth")
      BY <1>3, <3>1 DEF Sessions
    <3>5. /\ CurrentFlow \in Flows /\ CurrentFlow[0] = "none" /\ Current.flow = 0
      BY <1>1, <3>1, DecidableIs
    <3>6. \A d \in Claims : CurrentFlow[d] = IF d = Current.flow THEN "approved" ELSE CurrentFlow[d]
      BY <3>5 DEF Claims
    <3>. HIDE DEF e
    <3>. QED
      BY <3>1, <3>3, <3>4, <3>5, <3>6, <1>7
  <2>. QED
    BY <2>1, <2>2
<1>8. \A d \in Claims : g[d] \in {"pending", "approved"} => d = e.flow /\ g[d] = "approved"
  <2>. SUFFICES ASSUME NEW d \in Claims, g[d] \in {"pending", "approved"}, d # e.flow PROVE FALSE
    BY <1>7
  <2>1. CurrentFlow[d] = g[d]
    BY <1>7
  <2>. QED
    BY <1>2, <1>3, <1>7, <2>1 DEF Sound, Together
<1>9. Together(e, g)
  BY <1>2, <1>3, <1>7, <1>8 DEF Sound, Together
<1>10. Chosen(e, g, h)
  <2>1. \A d \in Claims : g[d] # "none" => h.sidOf[d] # 0
    <3>. SUFFICES ASSUME NEW d \in Claims, g[d] # "none" PROVE hist.sidOf[d] # 0
      BY <1>4
    <3>1. CASE d = e.flow
      BY <1>3, <1>7, <1>9, <3>1 DEF Together, Claims
    <3>2. CASE d # e.flow
      BY <1>2, <1>7, <3>2 DEF Sound, Chosen
    <3>. QED
      BY <3>1, <3>2
  <2>2. \A d \in Claims : g[d] = "approved" => d \in h.approved
    BY <1>4, <1>7, <1>8, <1>9, <1>3 DEF Together
  <2>3. \A d \in h.approved : h.sidOf[d] # 0 /\ (h.sidOf[d] = e.sid => d = c)
    BY <1>2, <1>3, <1>4, <1>6, <1>7 DEF Sound, Chosen
  <2>4. \A d1, d2 \in h.approved : h.sidOf[d1] = h.sidOf[d2] => d1 = d2
    BY <1>2, <1>3, <1>4, <1>6 DEF Sound, Chosen
  <2>. QED
    BY <1>2, <1>3, <1>4, <1>7, <2>1, <2>2, <2>3, <2>4 DEF Sound, Chosen
<1>11. Guessed(e, h)
  BY <1>2, <1>3, <1>4, <1>7 DEF Sound, Guessed
<1>12. \A i \in Installers : Granted(inst[i], e, g, h)
  BY <1>2, <1>3, <1>4, <1>7, GrantedApart
<1>13. Sound(e, g, h)
  BY <1>9, <1>10, <1>11 DEF Sound
<1>. QED
  BY <1>1, <1>5, <1>7, <1>12, <1>13, Together2

-----------------------------------------------------------------------------
(* The installer *)

LEMMA ClaimSound ==
    ASSUME Inv, JoinAssumption, NEW m \in Modes, NEW c \in Claims, hist.sidOf[c] = 0,
           Current.state \in {"waiting", "claimed"},
           NEW e, e = Claimed(Current, m, c),
           NEW g, g = (LET f == Dropped(CurrentFlow, Current.flow) IN
                       IF m = "code" THEN [f EXCEPT ![c] = "pending"] ELSE f),
           NEW k \in Histories, k.sids = hist.sids, k.approved = hist.approved, k.wrong = hist.wrong,
           k.sidOf = [hist.sidOf EXCEPT ![c] = Current.sid]
    PROVE  /\ Sound(e, g, k) /\ Current.sid # 0
           /\ \A x : Granted(x, Current, CurrentFlow, hist) => Granted(x, e, g, k)
<1>1. /\ Sound(Current, CurrentFlow, hist) /\ Current \in Sessions /\ Current.sid # 0
      /\ CurrentFlow \in Flows /\ CurrentFlow[0] = "none" /\ Current.flow \in 0..MaxClaims
  BY CurrentSound DEF Sound, Together, Sessions
<1>2. c \in 0..MaxClaims /\ c # 0 /\ 0 \in 0..MaxClaims
  BY Limits DEF Claims
<1>3. e \in Sessions
  <2>1. Current.life \in 0..MaxLifetime /\ ClaimTTL \in 0..ClaimTTL
        /\ (IF m = "code" THEN c ELSE 0) \in 0..MaxClaims
    BY <1>1, <1>2, Limits DEF Sessions
  <2>. QED
    BY <1>1, <1>2, <2>1, Zenon DEF Claimed, Sessions
<1>4. /\ e.state = "claimed" /\ e.mode = m /\ e.claim = c /\ e.flow = (IF m = "code" THEN c ELSE 0)
      /\ e.sid = Current.sid /\ e.auth = Current.auth /\ e.fails = Current.fails
  BY <1>1 DEF Claimed, Sessions
<1>5. /\ g \in Flows /\ g[0] = "none"
      /\ \A d \in 0..MaxClaims : d # c => g[d] = "none" \/ (g[d] = CurrentFlow[d] /\ d # Current.flow)
      /\ (m = "auth" => g[c] \in {CurrentFlow[c], "none"}) /\ (m = "code" => g[c] = "pending")
  <2>. DEFINE f == Dropped(CurrentFlow, Current.flow)
  <2>1. /\ f \in Flows /\ f[0] = "none" /\ f[Current.flow] = "none"
        /\ \A d \in 0..MaxClaims : f[d] \in {CurrentFlow[d], "none"}
    BY <1>1, DropFlow, Zenon
  <2>2. g = IF m = "code" THEN [f EXCEPT ![c] = "pending"] ELSE f
    OBVIOUS
  <2>. HIDE DEF f
  <2>3. CASE m = "code"
    <3>1. g = [f EXCEPT ![c] = "pending"] /\ "pending" \in FlowStates
      BY <2>2, <2>3 DEF FlowStates
    <3>2. g \in Flows /\ g[c] = "pending" /\ \A d \in 0..MaxClaims : d # c => g[d] = f[d]
      BY <1>2, <2>1, <3>1 DEF Flows
    <3>. QED
      BY <1>1, <1>2, <2>1, <2>3, <3>2
  <2>4. CASE m # "code"
    <3>1. g = f
      BY <2>2, <2>4
    <3>. QED
      BY <1>1, <1>2, <2>1, <2>4, <3>1
  <2>. QED
    BY <2>3, <2>4
<1>6. CurrentFlow[c] = "none"
  BY <1>1 DEF Sound, Chosen
<1>7. \A d \in Claims : g[d] # "approved" /\ (g[d] = "pending" => d = c /\ m = "code")
  <2>. SUFFICES ASSUME NEW d \in Claims, g[d] \in {"pending", "approved"}
                PROVE  d = c /\ m = "code" /\ g[d] = "pending"
    OBVIOUS
  <2>1. d \in 0..MaxClaims
    BY DEF Claims
  <2>2. CASE d # c
    <3>1. CurrentFlow[d] \in {"pending", "approved"} /\ d # Current.flow
      BY <1>5, <2>1, <2>2
    <3>. QED
      BY <1>1, <3>1 DEF Sound, Together
  <2>3. CASE d = c
    BY <1>5, <1>6, <2>3 DEF Modes
  <2>. QED
    BY <2>2, <2>3
<1>8. \A d \in hist.approved : hist.sidOf[d] # Current.sid /\ d # c /\ d \in Claims
  BY <1>1 DEF Sound, Chosen, Histories
<1>9. \A d \in Claims : k.sidOf[d] = IF d = c THEN Current.sid ELSE hist.sidOf[d]
  BY <1>1 DEF Sound, Chosen, Histories
<1>10. Together(e, g)
  BY <1>1, <1>2, <1>3, <1>4, <1>5, <1>7 DEF Sound, Together, Modes
<1>11. Chosen(e, g, k)
  <2>1. \A d \in Claims : g[d] # "none" => k.sidOf[d] # 0
    <3>. SUFFICES ASSUME NEW d \in Claims, g[d] # "none", d # c PROVE k.sidOf[d] # 0
      BY <1>1, <1>9
    <3>1. CurrentFlow[d] # "none"
      BY <1>5 DEF Claims
    <3>. QED
      BY <1>1, <1>9, <3>1 DEF Sound, Chosen
  <2>2. \A d \in Claims : k.sidOf[d] <= k.sids
    BY <1>1, <1>9 DEF Sound, Chosen
  <2>3. \A d \in k.approved : k.sidOf[d] = hist.sidOf[d] /\ k.sidOf[d] # 0 /\ k.sidOf[d] # e.sid
    BY <1>1, <1>4, <1>8, <1>9 DEF Sound, Chosen
  <2>4. \A d1, d2 \in k.approved : k.sidOf[d1] = k.sidOf[d2] => d1 = d2
    BY <1>1, <2>3 DEF Sound, Chosen
  <2>. QED
    BY <1>1, <1>4, <1>7, <1>9, <1>10, <2>1, <2>2, <2>3, <2>4 DEF Sound, Chosen, Together
<1>12. Guessed(e, k)
  BY <1>1, <1>4 DEF Sound, Guessed
<1>13. ASSUME NEW x, Granted(x, Current, CurrentFlow, hist) PROVE Granted(x, e, g, k)
  <2>1. x \in Installs /\ x.claim \in 0..MaxClaims
    BY <1>13 DEF Granted, Installs
  <2>2. x.pc # "idle" => x.claim # 0 /\ x.claim # c /\ k.sidOf[x.claim] # 0
    BY <1>9, <1>13, <2>1 DEF Granted, Claims
  <2>3. x.pc # "idle" => g[x.claim] \in {CurrentFlow[x.claim], "none"}
    BY <1>5, <2>1, <2>2
  <2>. QED
    BY <1>4, <1>13, <2>1, <2>2, <2>3 DEF Granted
<1>14. Sound(e, g, k)
  BY <1>10, <1>11, <1>12 DEF Sound
<1>. QED
  BY <1>1, <1>13, <1>14

\* An installer leaves, and the session and the flows are sound without it.
LEMMA LeftKeeps ==
    ASSUME Inv, JoinAssumption, NEW i \in Installers, NEW h, Alike(hist, h), Leaves(i, h),
           Sound(session', flow', hist), \A j \in Installers : Granted(inst[j], session', flow', hist),
           UNCHANGED <<tab, seen, token>>, events' \in 0..MaxEvents
    PROVE  Inv'
<1>1. h \in Histories
  BY DEF Alike
<1>2. /\ inst' \in [Installers -> Installs] /\ file' \in [Installers -> Files]
      /\ Alike(h, hist')
      /\ inst'[i] = IdleInstall /\ \A j \in Installers \ {i} : inst'[j] = inst[j]
  BY <1>1, Left
<1>3. Alike(hist, hist')
  BY <1>2 DEF Alike
<1>4. Sound(session, flow, hist)' /\ \A j \in Installers : Granted(inst[j], session', flow', hist')
  BY <1>3, AlikeSound
<1>5. \A j \in Installers : Granted(inst[j], session, flow, hist)'
  BY <1>2, <1>4, IdleGranted
<1>6. Typed' /\ TokenAsApproved'
  BY <1>2, <1>3, TypedNow, ApprovedKept DEF Typed, Alike
<1>. QED
  BY <1>4, <1>5, <1>6, Together2

LEMMA BoundedEvents ==
    ASSUME Inv, JoinAssumption
    PROVE  events \in 0..MaxEvents /\ (Happens => events' \in 0..MaxEvents)
  BY Limits DEF Happens, Inv, TypeOK

LEMMA ClaimKeeps ==
    ASSUME Inv, JoinAssumption, NEW i \in Installers, NEW m \in Modes, Claim(i, m)
    PROVE  Inv'
<1>. PICK c \in Claims :
          /\ hist.sidOf[c] = 0
          /\ session' = Claimed(Current, m, c)
          /\ flow' = LET f == Dropped(CurrentFlow, Current.flow) IN
                     IF m = "code" THEN [f EXCEPT ![c] = "pending"] ELSE f
          /\ \/ /\ inst' = [inst EXCEPT ![i] = [inst[i] EXCEPT !.pc = "waiting", !.claim = c, !.mode = m, !.patience = ClaimTTL]]
                /\ file' = [file EXCEPT ![i] = [sid |-> Current.sid, claim |-> c, left |-> ResumeTTL]]
                /\ hist' = Called([hist EXCEPT !.sidOf[c] = Current.sid], i, m)
                /\ UNCHANGED events
             \/ /\ Happens
                /\ Leaves(i, Called([hist EXCEPT !.sidOf[c] = Current.sid, !.slipped = TRUE], i, m))
  BY DEF Claim
<1>1. Current.state \in {"waiting", "claimed"} /\ UNCHANGED <<tab, seen, token>>
  BY DEF Claim, Resumed
<1>2. /\ \A j \in Installers : Granted(inst[j], Current, CurrentFlow, hist)
      /\ Current.sid \in 0..MaxSessions
  BY CurrentSound DEF Sound, Together, Sessions
<1>3. hist \in Histories /\ inst \in [Installers -> Installs] /\ file \in [Installers -> Files]
  BY DEF Inv, TypeOK
<1>. DEFINE sidOf == [hist.sidOf EXCEPT ![c] = Current.sid]
<1>4. sidOf \in [Claims -> 0..MaxSessions]
  BY <1>2, <1>3 DEF Histories
<1>. HIDE DEF sidOf
<1>5. CASE /\ inst' = [inst EXCEPT ![i] = [inst[i] EXCEPT !.pc = "waiting", !.claim = c, !.mode = m, !.patience = ClaimTTL]]
           /\ file' = [file EXCEPT ![i] = [sid |-> Current.sid, claim |-> c, left |-> ResumeTTL]]
           /\ hist' = Called([hist EXCEPT !.sidOf[c] = Current.sid], i, m)
           /\ UNCHANGED events
  <2>1. hist' = [hist EXCEPT !.sidOf = sidOf, !.callers = hist.callers \union {<<i, m>>}]
    BY <1>3, <1>5 DEF Called, sidOf, Histories
  <2>12. hist.callers \union {<<i, m>>} \in SUBSET (Installers \X Modes)
    BY <1>3 DEF Histories
  <2>13. hist' \in Histories
    BY <1>3, <1>4, <2>1, <2>12, Zenon DEF Histories
  <2>2. /\ hist' \in Histories /\ hist'.sids = hist.sids /\ hist'.approved = hist.approved
        /\ hist'.wrong = hist.wrong /\ hist'.sidOf = sidOf
    BY <1>3, <2>1, <2>13 DEF Histories
  <2>3. /\ Sound(session, flow, hist)' /\ Current.sid # 0
        /\ \A x : Granted(x, Current, CurrentFlow, hist) => Granted(x, session', flow', hist')
    BY <1>1, <2>2, ClaimSound DEF sidOf
  <2>. DEFINE y == [inst[i] EXCEPT !.pc = "waiting", !.claim = c, !.mode = m, !.patience = ClaimTTL]
  <2>4. ClaimTTL \in 0..ClaimTTL /\ c \in 0..MaxClaims /\ c # 0 /\ ResumeTTL \in 0..ResumeTTL
    BY Limits DEF Claims
  <2>5. y \in Installs /\ y.pc = "waiting" /\ y.claim = c
    BY <1>3, <2>4 DEF Installs
  <2>6. [sid |-> Current.sid, claim |-> c, left |-> ResumeTTL] \in Files
    BY <1>2, <2>4 DEF Files
  <2>7. inst' = [inst EXCEPT ![i] = y]
    BY <1>5
  <2>. HIDE DEF y
  <2>8. hist'.sidOf[c] # 0
    BY <1>3, <2>2, <2>3 DEF sidOf, Histories
  <2>9. Granted(y, session', flow', hist')
    BY <2>4, <2>5, <2>8 DEF Granted
  <2>10. \A j \in Installers : Granted(inst[j], session, flow, hist)'
    BY <1>2, <1>3, <2>3, <2>7, <2>9
  <2>11. Typed' /\ TokenAsApproved'
    BY <1>1, <1>3, <1>5, <2>2, <2>5, <2>6, <2>7, TypedNow, ApprovedKept DEF Typed
  <2>. QED
    BY <2>3, <2>10, <2>11, Together2
<1>6. CASE /\ Happens
           /\ Leaves(i, Called([hist EXCEPT !.sidOf[c] = Current.sid, !.slipped = TRUE], i, m))
  <2>. DEFINE h == Called([hist EXCEPT !.sidOf[c] = Current.sid, !.slipped = TRUE], i, m)
  <2>1. h = [hist EXCEPT !.sidOf = sidOf, !.slipped = TRUE, !.callers = hist.callers \union {<<i, m>>}]
    BY <1>3 DEF Called, sidOf, Histories
  <2>9. hist.callers \union {<<i, m>>} \in SUBSET (Installers \X Modes) /\ TRUE \in BOOLEAN
    BY <1>3 DEF Histories
  <2>10. h \in Histories
    BY <1>3, <1>4, <2>1, <2>9, Zenon DEF Histories
  <2>2. /\ h \in Histories /\ h.sids = hist.sids /\ h.approved = hist.approved
        /\ h.wrong = hist.wrong /\ h.sidOf = sidOf
    BY <1>3, <2>1, <2>10 DEF Histories
  <2>. HIDE DEF h
  <2>3. Leaves(i, h) /\ Happens
    BY <1>6 DEF h
  <2>4. /\ Sound(session', flow', h)
        /\ \A x : Granted(x, Current, CurrentFlow, hist) => Granted(x, session', flow', h)
    BY <1>1, <2>2, ClaimSound DEF sidOf
  <2>5. /\ inst' \in [Installers -> Installs] /\ file' \in [Installers -> Files]
        /\ Alike(h, hist')
        /\ inst'[i] = IdleInstall /\ \A j \in Installers \ {i} : inst'[j] = inst[j]
    BY <2>2, <2>3, Left
  <2>6. Sound(session, flow, hist)' /\ \A j \in Installers : Granted(inst[j], session', flow', hist')
    BY <1>2, <2>4, <2>5, AlikeSound
  <2>7. \A j \in Installers : Granted(inst[j], session, flow, hist)'
    BY <2>5, <2>6, IdleGranted
  <2>8. Typed' /\ TokenAsApproved'
    BY <1>1, <2>2, <2>3, <2>5, TypedNow, ApprovedKept, BoundedEvents DEF Typed, Alike
  <2>. QED
    BY <2>6, <2>7, <2>8, Together2
<1>. QED
  BY <1>5, <1>6

LEMMA ClaimTakenKeeps ==
    ASSUME Inv, JoinAssumption, NEW i \in Installers, NEW m \in Modes, ClaimTaken(i, m)
    PROVE  Inv'
<1>1. /\ Leaves(i, Called(hist, i, m)) /\ UNCHANGED <<tab, seen, token, events>>
      /\ IF Current.state = "claimed"
         THEN session' = Ended(Current, "compromised") /\ flow' = Dropped(CurrentFlow, Current.flow)
         ELSE session' = Current /\ flow' = CurrentFlow
  BY DEF ClaimTaken
<1>2. Alike(hist, Called(hist, i, m))
  BY AlikeSelf DEF Alike, Called, Histories
<1>3. /\ Sound(Current, CurrentFlow, hist) /\ \A j \in Installers : Granted(inst[j], Current, CurrentFlow, hist)
  BY CurrentSound
<1>4. Sound(session', flow', hist) /\ \A j \in Installers : Granted(inst[j], session', flow', hist)
  <2>1. CASE Current.state = "claimed"
    <3>1. /\ Together(session', flow') /\ Chosen(session', flow', hist)
          /\ session'.state = "compromised" /\ session'.fails = Current.fails
          /\ \A j \in Installers : Granted(inst[j], session', flow', hist)
      BY <1>1, <1>3, <2>1, EndedTogether DEF Sound
    <3>2. Guessed(session', hist)
      BY <1>3, <2>1, <3>1 DEF Sound, Guessed
    <3>. QED
      BY <3>1, <3>2 DEF Sound
  <2>2. CASE Current.state # "claimed"
    BY <1>1, <1>3, <2>2
  <2>. QED
    BY <2>1, <2>2
<1>. HIDE DEF Called
<1>. QED
  BY <1>1, <1>2, <1>4, LeftKeeps, BoundedEvents

LEMMA ClaimUnknownKeeps == ASSUME Inv, JoinAssumption, NEW i \in Installers, ClaimUnknown(i) PROVE Inv'
<1>1. Leaves(i, hist) /\ UNCHANGED <<tab, seen, token, events>> /\ session' = Current /\ flow' = CurrentFlow
  BY DEF ClaimUnknown, Looked
<1>. QED
  BY <1>1, CurrentSound, AlikeSelf, LeftKeeps, BoundedEvents

LEMMA ClaimFailsKeeps ==
    ASSUME Inv, JoinAssumption, NEW i \in Installers, NEW m \in Modes, ClaimFails(i, m)
    PROVE  Inv'
<1>1. Leaves(i, hist) /\ UNCHANGED <<tab, seen, token>> /\ Happens
  BY DEF ClaimFails
<1>2. Sound(session', flow', hist) /\ \A j \in Installers : Granted(inst[j], session', flow', hist)
  <2>1. CASE Looked
    BY <2>1, CurrentSound DEF Looked
  <2>2. CASE /\ Resumed(Current, i, m)
             /\ session' = Ended(Current, "expired") /\ flow' = Dropped(CurrentFlow, Current.flow)
    <3>1. Current.state = "claimed" /\ Sound(Current, CurrentFlow, hist)
      BY <2>2, CurrentSound DEF Resumed
    <3>2. /\ Together(session', flow') /\ Chosen(session', flow', hist)
          /\ session'.state = "expired" /\ session'.fails = Current.fails
          /\ \A j \in Installers : Granted(inst[j], session', flow', hist)
      BY <2>2, <3>1, CurrentSound, EndedTogether DEF Sound
    <3>3. Guessed(session', hist)
      BY <3>1, <3>2 DEF Sound, Guessed
    <3>. QED
      BY <3>2, <3>3 DEF Sound
  <2>. QED
    BY <2>1, <2>2 DEF ClaimFails
<1>. QED
  BY <1>1, <1>2, AlikeSelf, LeftKeeps, BoundedEvents

LEMMA InterruptKeeps ==
    ASSUME Inv, JoinAssumption, NEW i \in Installers, Interrupt(i) \/ GiveUp(i)
    PROVE  Inv'
<1>1. /\ inst' = [inst EXCEPT ![i] = IdleInstall] /\ (file' = file \/ file' = [file EXCEPT ![i] = NoFile])
      /\ UNCHANGED <<session, flow, tab, seen, token, hist, events>>
  BY DEF Interrupt, GiveUp
<1>2. inst \in [Installers -> Installs] /\ file \in [Installers -> Files] /\ NoFile \in Files
  BY Limits DEF Inv, TypeOK, Files, NoFile
<1>3. Sound(session, flow, hist)' /\ \A j \in Installers : Granted(inst[j], session, flow, hist)'
  BY <1>1, <1>2, IdleGranted DEF Inv
<1>4. Typed' /\ TokenAsApproved'
  BY <1>1, <1>2, IdleGranted, TypedNow, ApprovedKept DEF Typed
<1>. QED
  BY <1>3, <1>4, Together2

LEMMA FailKeeps ==
    ASSUME Inv, JoinAssumption, NEW i \in Installers, Fail(i) \/ LearnDenied(i) \/ Keep(i)
    PROVE  Inv'
<1>1. /\ Leaves(i, hist) /\ UNCHANGED <<session, flow, tab, seen, token>>
      /\ Happens \/ UNCHANGED events
  BY DEF Fail, LearnDenied, Keep
<1>2. Sound(session', flow', hist) /\ \A j \in Installers : Granted(inst[j], session', flow', hist)
  BY <1>1 DEF Inv
<1>. QED
  BY <1>1, <1>2, AlikeSelf, LeftKeeps, BoundedEvents

\* The installer i is now y, all else of the installers as it was.
LEMMA OneInstaller ==
    ASSUME Inv, NEW i \in Installers, NEW y, inst' = [inst EXCEPT ![i] = y],
           Granted(y, session', flow', hist'),
           \A j \in Installers : Granted(inst[j], session', flow', hist')
    PROVE  /\ inst' \in [Installers -> Installs]
           /\ \A j \in Installers : Granted(inst[j], session, flow, hist)'
<1>1. inst \in [Installers -> Installs] /\ y \in Installs
  BY DEF Inv, TypeOK, Granted
<1>. QED
  BY <1>1

LEMMA InstallType ==
    ASSUME Inv, NEW i \in Installers
    PROVE  inst[i] \in Installs /\ inst[i].claim \in 0..MaxClaims
  BY DEF Inv, TypeOK, Installs

LEMMA PollKeeps == ASSUME Inv, JoinAssumption, NEW i \in Installers, Poll(i) PROVE Inv'
<1>. DEFINE c == inst[i].claim
            y == [inst[i] EXCEPT !.pc = "granted"]
<1>1. /\ inst[i].pc = "waiting" /\ inst[i].mode = "code" /\ flow' = Dropped(flow, c)
      /\ UNCHANGED <<session, tab, seen, token, events>>
      /\ IF FoundFlow[c] = "approved"
         THEN inst' = [inst EXCEPT ![i] = y] /\ UNCHANGED <<file, hist>>
         ELSE Leaves(i, hist)
  BY InstallType DEF Poll
<1>2. /\ c \in 0..MaxClaims /\ flow \in Flows /\ flow[0] = "none"
      /\ c # 0 /\ hist.sidOf[c] # 0
  BY <1>1, InstallType DEF Inv, Sound, Together, Granted
<1>3. /\ Sound(session', flow', hist) /\ flow'[c] = "none"
      /\ \A j \in Installers : Granted(inst[j], session', flow', hist)
  BY <1>1, <1>2, DropSound, DropGranted, DropFlow DEF Inv
<1>4. CASE FoundFlow[c] = "approved"
  <2>1. c \in hist.approved
    BY <1>2, <1>4, FoundSound DEF Sound, Chosen, Claims
  <2>2. /\ y \in Installs /\ y.pc = "granted" /\ y.mode = "code" /\ y.claim = c
    BY <1>1, InstallType DEF Installs
  <2>. HIDE DEF y, c
  <2>3. Granted(y, session', flow', hist)
    BY <1>2, <1>3, <2>1, <2>2 DEF Granted
  <2>4. inst' = [inst EXCEPT ![i] = y] /\ UNCHANGED <<file, hist>>
    BY <1>1, <1>4
  <2>5. inst' \in [Installers -> Installs] /\ \A j \in Installers : Granted(inst[j], session, flow, hist)'
    BY <1>3, <2>3, <2>4, OneInstaller
  <2>6. Typed' /\ TokenAsApproved'
    BY <1>1, <2>4, <2>5, TypedNow, ApprovedKept DEF Typed
  <2>. QED
    BY <1>3, <2>4, <2>5, <2>6, Together2
<1>5. CASE FoundFlow[c] # "approved"
  <2>1. Leaves(i, hist)
    BY <1>1, <1>5
  <2>. HIDE DEF y, c
  <2>. QED
    BY <1>1, <1>3, <2>1, AlikeSelf, LeftKeeps, BoundedEvents
<1>. QED
  BY <1>4, <1>5

LEMMA ExchangeKeeps ==
    ASSUME Inv, JoinAssumption, NEW i \in Installers, NEW c \in Claims, Exchange(i, c)
    PROVE  Inv'
<1>. DEFINE known == Found.auth /\ Found.claim = c
            e == [Found EXCEPT !.auth = FALSE]
<1>1. /\ Sound(Found, FoundFlow, hist) /\ \A j \in Installers : Granted(inst[j], Found, FoundFlow, hist)
      /\ Found \in Sessions
  BY FoundSound DEF Sound, Together
<1>2. /\ e \in Sessions /\ e.state = Found.state /\ e.sid = Found.sid /\ e.mode = Found.mode
      /\ e.claim = Found.claim /\ e.flow = Found.flow /\ e.auth = FALSE /\ e.fails = Found.fails
  BY <1>1 DEF Sessions
<1>. HIDE DEF e
<1>3. Sound(e, FoundFlow, hist)
  <2>1. Together(e, FoundFlow)
    BY <1>1, <1>2 DEF Sound, Together
  <2>2. Chosen(e, FoundFlow, hist)
    BY <1>1, <1>2 DEF Sound, Chosen
  <2>3. Guessed(e, hist)
    BY <1>1, <1>2 DEF Sound, Guessed
  <2>. QED
    BY <2>1, <2>2, <2>3 DEF Sound
<1>4. \A j \in Installers : Granted(inst[j], e, FoundFlow, hist)
  BY <1>1, <1>2 DEF Granted
<1>5. /\ flow' = FoundFlow /\ session' = (IF known THEN e ELSE Found)
      /\ UNCHANGED <<tab, seen, token, events>>
      /\ inst[i].pc = "waiting" /\ inst[i].mode = "auth"
      /\ IF known /\ Found.authLeft > 0 /\ Found.state = "approved" /\ Found.claim = inst[i].claim
         THEN inst' = [inst EXCEPT ![i].pc = "granted", ![i].sid = Found.sid] /\ UNCHANGED <<file, hist>>
         ELSE Leaves(i, hist) \/ UNCHANGED <<inst, file, hist>>
  BY DEF Exchange, e
<1>6. Sound(session', flow', hist) /\ \A j \in Installers : Granted(inst[j], session', flow', hist)
  BY <1>1, <1>3, <1>4, <1>5
<1>7. CASE known /\ Found.authLeft > 0 /\ Found.state = "approved" /\ Found.claim = inst[i].claim
  <2>. DEFINE y == [inst[i] EXCEPT !.pc = "granted", !.sid = Found.sid]
  <2>1. inst' = [inst EXCEPT ![i] = y] /\ UNCHANGED <<file, hist>> /\ session' = e
    BY <1>5, <1>7, InstallType DEF Inv, TypeOK
  <2>2. /\ y \in Installs /\ y.pc = "granted" /\ y.mode = "auth" /\ y.claim = Found.claim /\ y.sid = Found.sid
    BY <1>1, <1>5, <1>7, InstallType DEF Installs, Sessions
  <2>3. /\ Found.mode = "auth" /\ Found.claim \in hist.approved /\ Found.claim # 0 /\ Found.sid # 0
        /\ hist.sidOf[Found.claim] # 0 /\ Found.sid <= hist.sids
    BY <1>1, <1>7 DEF Sound, Together, Chosen
  <2>. HIDE DEF y
  <2>4. Granted(y, session', flow', hist)
    BY <1>2, <1>7, <2>1, <2>2, <2>3 DEF Granted
  <2>5. inst' \in [Installers -> Installs] /\ \A j \in Installers : Granted(inst[j], session, flow, hist)'
    BY <1>6, <2>1, <2>4, OneInstaller
  <2>6. Typed' /\ TokenAsApproved'
    BY <1>5, <2>1, <2>5, TypedNow, ApprovedKept DEF Typed
  <2>. QED
    BY <1>6, <2>1, <2>5, <2>6, Together2
<1>8. CASE Leaves(i, hist)
  BY <1>5, <1>6, <1>8, AlikeSelf, LeftKeeps, BoundedEvents
<1>9. CASE UNCHANGED <<inst, file, hist>>
  <2>1. Typed' /\ TokenAsApproved'
    BY <1>5, <1>9, TypedNow, ApprovedKept DEF Typed
  <2>. QED
    BY <1>6, <1>9, <2>1, Together2
<1>. QED
  BY <1>5, <1>7, <1>8, <1>9

LEMMA IssueKeeps == ASSUME Inv, JoinAssumption, NEW i \in Installers, Issue(i) PROVE Inv'
<1>1. inst[i].pc = "granted" /\ UNCHANGED <<session, flow, tab, seen>>
  BY DEF Issue
<1>2. CASE /\ token' = [c \in Claims |-> IF c = inst[i].claim THEN "valid"
                                          ELSE IF token[c] = "valid" THEN "revoked" ELSE token[c]]
           /\ inst' = [inst EXCEPT ![i].pc = "issued"]
           /\ UNCHANGED <<file, hist, events>>
  <2>. DEFINE y == [inst[i] EXCEPT !.pc = "issued"]
  <2>1. inst' = [inst EXCEPT ![i] = y]
    BY <1>2, InstallType DEF Inv, TypeOK
  <2>2. /\ y \in Installs /\ y.pc = "issued" /\ y.mode = inst[i].mode /\ y.claim = inst[i].claim
        /\ y.sid = inst[i].sid
    BY InstallType DEF Installs
  <2>. HIDE DEF y
  <2>3. Granted(inst[i], session, flow, hist) /\ inst[i].claim \in hist.approved
    BY <1>1 DEF Inv, Granted
  <2>4. Granted(y, session', flow', hist')
    BY <1>1, <1>2, <2>2, <2>3 DEF Granted
  <2>5. \A j \in Installers : Granted(inst[j], session', flow', hist')
    BY <1>1, <1>2 DEF Inv
  <2>6. inst' \in [Installers -> Installs] /\ \A j \in Installers : Granted(inst[j], session, flow, hist)'
    BY <2>1, <2>4, <2>5, OneInstaller
  <2>7. token' \in [Claims -> {"none", "valid", "revoked"}] /\ TokenAsApproved'
    BY <1>2, <2>3 DEF Inv, TypeOK, TokenAsApproved
  <2>8. Typed'
    BY <1>1, <1>2, <2>6, <2>7, TypedNow DEF Typed
  <2>. QED
    BY <1>1, <1>2, <2>6, <2>7, <2>8, Together2 DEF Inv
<1>3. CASE Happens /\ Leaves(i, hist) /\ UNCHANGED token
  BY <1>1, <1>3, AlikeSelf, LeftKeeps, BoundedEvents DEF Inv
<1>. QED
  BY <1>2, <1>3 DEF Issue

\* A session that has its device is connected.
LEMMA ConnectedSound ==
    ASSUME Inv, NEW i \in Installers, inst[i].pc = "issued", Reports(i), JoinAssumption,
           NEW e, e = [session EXCEPT !.state = "connected"]
    PROVE  /\ Sound(e, flow, hist) /\ \A j \in Installers : Granted(inst[j], e, flow, hist)
<1>1. /\ Sound(session, flow, hist) /\ session \in Sessions
      /\ \A j \in Installers : Granted(inst[j], session, flow, hist)
  BY DEF Inv, Sound, Together
<1>2. /\ e \in Sessions /\ e.state = "connected" /\ e.flow = session.flow /\ e.mode = session.mode
      /\ e.claim = session.claim /\ e.sid = session.sid /\ e.auth = session.auth /\ e.fails = session.fails
  BY <1>1 DEF Sessions
<1>3. /\ ~session.auth /\ session.state \notin {"none", "compromised"}
      /\ \A c \in Claims : flow[c] \in {"pending", "approved"} => session.flow # c
  <2>1. /\ Granted(inst[i], session, flow, hist) /\ inst[i].claim # 0 /\ inst[i].mode \in Modes
    BY <1>1 DEF Granted, Installs
  <2>2. CASE inst[i].mode = "auth"
    <3>1. session.sid = inst[i].sid /\ session.sid # 0
      BY <2>1, <2>2 DEF Reports, Granted
    <3>2. session.mode = "auth" /\ session.state # "compromised" /\ ~session.auth
      BY <2>1, <2>2, <3>1 DEF Granted
    <3>3. session.flow = 0
      BY <1>1, <3>2 DEF Sound, Together
    <3>. QED
      BY <1>1, <3>1, <3>2, <3>3 DEF Sound, Together, Claims
  <2>3. CASE inst[i].mode = "code"
    <3>1. session.flow = inst[i].claim /\ flow[inst[i].claim] = "none"
      BY <2>1, <2>3 DEF Reports, Granted
    <3>. QED
      BY <1>1, <2>1, <3>1 DEF Sound, Together
  <2>. QED
    BY <2>1, <2>2, <2>3 DEF Modes
<1>. HIDE DEF Inv
<1>4. Together(e, flow)
  BY <1>1, <1>2, <1>3 DEF Sound, Together
<1>5. Chosen(e, flow, hist)
  BY <1>1, <1>2, <1>3 DEF Sound, Chosen
<1>6. Guessed(e, hist)
  BY <1>1, <1>2, <1>3 DEF Sound, Guessed
<1>7. \A j \in Installers : Granted(inst[j], e, flow, hist)
  BY <1>1, <1>2, <1>3 DEF Granted
<1>. QED
  BY <1>4, <1>5, <1>6, <1>7 DEF Sound

LEMMA DeliverKeeps == ASSUME Inv, JoinAssumption, NEW i \in Installers, Deliver(i) PROVE Inv'
<1>1. /\ inst[i].pc = "issued" /\ UNCHANGED <<flow, tab, seen, token>>
      /\ session' = IF Reports(i) THEN [session EXCEPT !.state = "connected"] ELSE session
  BY DEF Deliver
<1>2. Sound(session', flow', hist) /\ \A j \in Installers : Granted(inst[j], session', flow', hist)
  BY <1>1, ConnectedSound DEF Inv
<1>3. CASE inst' = [inst EXCEPT ![i].pc = "prompt"] /\ UNCHANGED <<file, hist, events>>
  <2>. DEFINE y == [inst[i] EXCEPT !.pc = "prompt"]
  <2>1. inst' = [inst EXCEPT ![i] = y]
    BY <1>3, InstallType DEF Inv, TypeOK
  <2>2. y \in Installs /\ y.pc = "prompt" /\ y.claim = inst[i].claim
    BY InstallType DEF Installs
  <2>. HIDE DEF y
  <2>3. Granted(y, session', flow', hist')
    BY <1>1, <1>2, <1>3, <2>2 DEF Granted
  <2>4. inst' \in [Installers -> Installs] /\ \A j \in Installers : Granted(inst[j], session, flow, hist)'
    BY <1>2, <1>3, <2>1, <2>3, OneInstaller
  <2>5. Typed' /\ TokenAsApproved'
    BY <1>1, <1>3, <2>4, TypedNow, ApprovedKept DEF Typed
  <2>. QED
    BY <1>2, <1>3, <2>4, <2>5, Together2
<1>4. CASE Happens /\ Leaves(i, hist)
  BY <1>1, <1>2, <1>4, AlikeSelf, LeftKeeps, BoundedEvents
<1>. QED
  BY <1>3, <1>4 DEF Deliver

LEMMA DeclineKeeps == ASSUME Inv, JoinAssumption, NEW i \in Installers, Decline(i) PROVE Inv'
<1>1. inst[i].pc = "prompt" /\ UNCHANGED <<session, flow, tab, seen, events>>
  BY DEF Decline
<1>2. CASE /\ token[inst[i].claim] = "valid"
           /\ token' = [token EXCEPT ![inst[i].claim] = "revoked"]
           /\ inst' = [inst EXCEPT ![i].pc = "revoked"]
           /\ UNCHANGED <<file, hist>>
  <2>. DEFINE y == [inst[i] EXCEPT !.pc = "revoked"]
  <2>1. inst' = [inst EXCEPT ![i] = y]
    BY <1>2, InstallType DEF Inv, TypeOK
  <2>2. y \in Installs /\ y.pc = "revoked" /\ y.claim = inst[i].claim
    BY InstallType DEF Installs
  <2>. HIDE DEF y
  <2>3. Granted(inst[i], session, flow, hist)
    BY DEF Inv
  <2>4. Granted(y, session', flow', hist')
    BY <1>1, <1>2, <2>2, <2>3 DEF Granted
  <2>5. \A j \in Installers : Granted(inst[j], session', flow', hist')
    BY <1>1, <1>2 DEF Inv
  <2>6. inst' \in [Installers -> Installs] /\ \A j \in Installers : Granted(inst[j], session, flow, hist)'
    BY <2>1, <2>4, <2>5, OneInstaller
  <2>7. token' \in [Claims -> {"none", "valid", "revoked"}] /\ TokenAsApproved'
    BY <1>2, <1>1, <2>3 DEF Inv, TypeOK, TokenAsApproved, Granted
  <2>8. Typed'
    BY <1>1, <1>2, <2>6, <2>7, TypedNow DEF Typed
  <2>. QED
    BY <1>1, <1>2, <2>6, <2>7, <2>8, Together2 DEF Inv
<1>3. CASE Leaves(i, hist) /\ UNCHANGED token
  BY <1>1, <1>3, AlikeSelf, LeftKeeps, BoundedEvents DEF Inv
<1>. QED
  BY <1>2, <1>3 DEF Decline

LEMMA CancelKeeps == ASSUME Inv, JoinAssumption, NEW i \in Installers, Cancel(i) PROVE Inv'
<1>. DEFINE e == [session EXCEPT !.state = "denied"]
<1>1. /\ session' = (IF session.state = "connected" THEN e ELSE session)
      /\ Leaves(i, hist) /\ UNCHANGED <<flow, tab, seen, token, events>>
  BY DEF Cancel
<1>2. /\ Sound(session, flow, hist) /\ session \in Sessions
      /\ \A j \in Installers : Granted(inst[j], session, flow, hist)
  BY DEF Inv, Sound, Together
<1>3. /\ e \in Sessions /\ e.state = "denied" /\ e.flow = session.flow /\ e.mode = session.mode
      /\ e.claim = session.claim /\ e.sid = session.sid /\ e.auth = session.auth /\ e.fails = session.fails
  BY <1>2 DEF Sessions
<1>. HIDE DEF e
<1>4. ASSUME session.state = "connected"
      PROVE  Sound(e, flow, hist) /\ \A j \in Installers : Granted(inst[j], e, flow, hist)
  <2>1. Together(e, flow)
    BY <1>2, <1>3, <1>4 DEF Sound, Together
  <2>2. Chosen(e, flow, hist)
    BY <1>2, <1>3, <1>4 DEF Sound, Chosen
  <2>3. Guessed(e, hist)
    BY <1>2, <1>3, <1>4 DEF Sound, Guessed
  <2>4. \A j \in Installers : Granted(inst[j], e, flow, hist)
    BY <1>2, <1>3, <1>4 DEF Granted
  <2>. QED
    BY <2>1, <2>2, <2>3, <2>4 DEF Sound
<1>5. Sound(session', flow', hist) /\ \A j \in Installers : Granted(inst[j], session', flow', hist)
  BY <1>1, <1>2, <1>4
<1>. QED
  BY <1>1, <1>5, AlikeSelf, LeftKeeps, BoundedEvents

-----------------------------------------------------------------------------
(* The server *)

LEMMA RestartKeeps == ASSUME Inv, JoinAssumption, Restart PROVE Inv'
<1>. DEFINE g == [c \in 0..MaxClaims |-> "none"]
<1>1. /\ session' = NoSession /\ flow' = g /\ tab' = [t \in Tabs |-> 0] /\ Happens
      /\ inst' = [i \in Installers |-> IF inst[i].pc \in {"granted", "issued", "revoked"} THEN IdleInstall ELSE inst[i]]
      /\ file' = [i \in Installers |-> IF inst[i].pc \in {"granted", "issued", "revoked"} THEN NoFile ELSE file[i]]
      /\ UNCHANGED <<seen, token, hist>>
  BY DEF Restart
<1>2. /\ NoSession.state = "none" /\ NoSession.sid = 0 /\ NoSession.mode = "auth" /\ NoSession.claim = 0
      /\ NoSession.flow = 0 /\ NoSession.auth = FALSE /\ NoSession.fails = 0 /\ NoSession \in Sessions
  BY NoSessionType DEF NoSession, Fresh
<1>3. g \in Flows /\ \A c \in 0..MaxClaims : g[c] = "none"
  BY DEF Flows, FlowStates
<1>4. 0 \in 0..MaxClaims /\ NoFile \in Files /\ IdleInstall \in Installs
  BY Limits, IdleGranted DEF NoFile, Files
<1>5. /\ Sound(session, flow, hist) /\ hist \in Histories
      /\ \A j \in Installers : Granted(inst[j], session, flow, hist)
  BY DEF Inv, TypeOK
<1>. HIDE DEF g
<1>6. Together(NoSession, g)
  BY <1>2, <1>3, <1>4 DEF Together, Claims
<1>7. Chosen(NoSession, g, hist)
  <2>1. \A c \in hist.approved : hist.sidOf[c] # 0
    BY <1>5 DEF Sound, Chosen
  <2>2. \A c \in Claims : g[c] = "none"
    BY <1>3 DEF Claims
  <2>3. 0 <= hist.sids
    BY <1>5 DEF Histories
  <2>. QED
    BY <1>2, <1>5, <2>1, <2>2, <2>3 DEF Sound, Chosen
<1>8. Guessed(NoSession, hist)
  BY <1>2, <1>5, Limits DEF Sound, Guessed
<1>9. \A j \in Installers : Granted(inst[j], session, flow, hist)'
  <2>. SUFFICES ASSUME NEW j \in Installers PROVE Granted(inst'[j], NoSession, g, hist)
    BY <1>1
  <2>1. CASE inst'[j] = IdleInstall
    BY <2>1, IdleGranted
  <2>2. CASE inst'[j] = inst[j] /\ inst[j].pc \notin {"granted", "issued"}
    BY <1>5, <2>2 DEF Granted
  <2>. QED
    BY <1>1, <2>1, <2>2
<1>10. Typed' /\ TokenAsApproved'
  <2>1. inst' \in [Installers -> Installs] /\ file' \in [Installers -> Files]
    BY <1>1, <1>4 DEF Inv, TypeOK
  <2>. QED
    BY <1>1, <1>4, <2>1, TypedNow, ApprovedKept, BoundedEvents DEF Typed
<1>. QED
  BY <1>1, <1>6, <1>7, <1>8, <1>9, <1>10, Together2 DEF Sound

LEMMA EvictKeeps == ASSUME Inv, JoinAssumption, Evict PROVE Inv'
<1>1. Happens /\ UNCHANGED <<tab, seen, inst, file, token, hist>>
  BY DEF Evict
<1>2. Typed' /\ TokenAsApproved'
  BY <1>1, TypedNow, ApprovedKept, BoundedEvents DEF Typed
<1>3. Sound(session', flow', hist) /\ \A j \in Installers : Granted(inst[j], session', flow', hist)
  <2>1. CASE session' = NoSession /\ flow' = Dropped(FoundFlow, Found.flow)
    BY <2>1, FoundSound, GoneSound, GoneGranted
  <2>2. CASE UNCHANGED session /\ flow' = Dropped(flow, session.flow)
    <3>1. flow \in Flows /\ flow[0] = "none" /\ session.flow \in 0..MaxClaims
      BY DEF Inv, Sound, Together, Sessions
    <3>. QED
      BY <2>2, <3>1, DropSound, DropGranted DEF Inv
  <2>. QED
    BY <2>1, <2>2 DEF Evict
<1>. QED
  BY <1>1, <1>2, <1>3, Together2

LEMMA TickKeeps == ASSUME Inv, JoinAssumption, Tick PROVE Inv'
<1>1. /\ Sound(session, flow, hist) /\ session \in Sessions /\ hist \in Histories
      /\ \A j \in Installers : Granted(inst[j], session, flow, hist)
      /\ inst \in [Installers -> Installs] /\ file \in [Installers -> Files]
  BY DEF Inv, TypeOK
<1>2. /\ session' = [session EXCEPT !.left = Less(session.left), !.life = Less(session.life),
                                    !.claimLeft = Less(session.claimLeft), !.authLeft = Less(session.authLeft)]
      /\ file' = [i \in Installers |-> IF file[i].left <= 1 THEN NoFile ELSE [file[i] EXCEPT !.left = file[i].left - 1]]
      /\ inst' = [i \in Installers |-> [inst[i] EXCEPT !.patience = Less(inst[i].patience)]]
      /\ UNCHANGED <<flow, tab, seen, token, hist, events>>
  BY DEF Tick
<1>3. /\ Less(session.left) \in 0..MaxLifetime /\ Less(session.life) \in 0..MaxLifetime
      /\ Less(session.claimLeft) \in 0..ClaimTTL /\ Less(session.authLeft) \in 0..AuthTTL
  BY <1>1, Limits DEF Sessions, Less
<1>4. session' \in Sessions
  BY <1>1, <1>2, <1>3, Zenon DEF Sessions
<1>5. /\ session'.state = session.state /\ session'.sid = session.sid /\ session'.mode = session.mode
      /\ session'.claim = session.claim /\ session'.flow = session.flow /\ session'.auth = session.auth
      /\ session'.fails = session.fails
  BY <1>1, <1>2 DEF Sessions
<1>6. Sound(session', flow', hist')
  <2>1. Together(session', flow')
    BY <1>1, <1>2, <1>4, <1>5 DEF Sound, Together
  <2>2. Chosen(session', flow', hist')
    BY <1>1, <1>2, <1>5 DEF Sound, Chosen
  <2>3. Guessed(session', hist')
    BY <1>1, <1>2, <1>5 DEF Sound, Guessed
  <2>. QED
    BY <2>1, <2>2, <2>3 DEF Sound
<1>7. ASSUME NEW j \in Installers
      PROVE  inst'[j] \in Installs /\ Granted(inst'[j], session', flow', hist')
  <2>1. Less(inst[j].patience) \in 0..ClaimTTL
    BY <1>1, Limits DEF Installs, Less
  <2>2. /\ inst'[j] \in Installs /\ inst'[j].pc = inst[j].pc /\ inst'[j].claim = inst[j].claim
        /\ inst'[j].mode = inst[j].mode /\ inst'[j].sid = inst[j].sid
    BY <1>1, <1>2, <2>1 DEF Installs
  <2>. QED
    BY <1>1, <1>2, <1>5, <2>2 DEF Granted
<1>8. ASSUME NEW j \in Installers PROVE file'[j] \in Files
  <2>1. NoFile \in Files
    BY Limits DEF NoFile, Files
  <2>2. file[j].left > 1 => [file[j] EXCEPT !.left = file[j].left - 1] \in Files
    <3>1. file[j] \in Files /\ (file[j].left > 1 => file[j].left - 1 \in 0..ResumeTTL)
      BY <1>1, Limits DEF Files
    <3>. QED
      BY <3>1, Zenon DEF Files
  <2>3. file[j].left \in Nat
    BY <1>1, Limits DEF Files
  <2>. QED
    BY <1>2, <2>1, <2>2, <2>3
<1>9. inst' \in [Installers -> Installs] /\ file' \in [Installers -> Files]
  BY <1>2, <1>7, <1>8
<1>10. Typed' /\ TokenAsApproved'
  BY <1>2, <1>9, TypedNow, ApprovedKept DEF Typed
<1>. QED
  BY <1>6, <1>7, <1>10, Together2

-----------------------------------------------------------------------------
(* The invariant and what follows *)

LEMMA InitSound == ASSUME JoinAssumption, Init PROVE Inv
<1>1. /\ session = NoSession /\ \A c \in 0..MaxClaims : flow[c] = "none"
      /\ flow \in Flows /\ tab \in [Tabs -> 0..MaxClaims] /\ seen \subseteq Claims /\ events = 0
      /\ \A c \in Claims : token[c] = "none"
      /\ token \in [Claims -> {"none", "valid", "revoked"}]
      /\ \A i \in Installers : inst[i] = IdleInstall
  BY Limits DEF Init, Flows, FlowStates
<1>2. inst \in [Installers -> Installs] /\ file \in [Installers -> Files]
  BY Limits, IdleGranted DEF Init, NoFile, Files
<1>3. /\ hist \in Histories /\ hist.sids = 0 /\ hist.approved = {} /\ hist.wrong = 0
      /\ \A c \in Claims : hist.sidOf[c] = 0
  <2>1. [c \in Claims |-> 0] \in [Claims -> 0..MaxSessions] /\ 0 \in 0..MaxSessions
    BY Limits
  <2>. QED
    BY <2>1 DEF Init, Histories
<1>4. /\ NoSession.state = "none" /\ NoSession.sid = 0 /\ NoSession.mode = "auth" /\ NoSession.claim = 0
      /\ NoSession.flow = 0 /\ NoSession.auth = FALSE /\ NoSession.fails = 0 /\ NoSession \in Sessions
  BY NoSessionType DEF NoSession, Fresh
<1>5. Together(session, flow)
  BY <1>1, <1>4, Limits DEF Together, Claims
<1>6. Chosen(session, flow, hist)
  BY <1>1, <1>3, <1>4 DEF Chosen, Claims
<1>7. Guessed(session, hist)
  BY <1>1, <1>3, <1>4, Limits DEF Guessed
<1>8. TypeOK
  BY <1>1, <1>2, <1>3, <1>4, Limits DEF TypeOK, Flows
<1>9. TokenAsApproved
  BY <1>1 DEF TokenAsApproved
<1>. QED
  BY <1>1, <1>5, <1>6, <1>7, <1>8, <1>9, IdleGranted DEF Inv, Sound

LEMMA StepKeeps == ASSUME JoinAssumption, Inv, [Next]_vars PROVE Inv'
<1>1. CASE Next
  <2>1. CASE Create \/ View \/ Deny
    BY <2>1, CreateKeeps, ViewKeeps, DenyKeeps
  <2>2. CASE \E t \in Tabs : StartApproval(t) \/ FailApproval(t) \/ Misconfirm(t) \/ Approve(t)
    BY <2>2, StartApprovalKeeps, FailApprovalKeeps, MisconfirmKeeps, ApproveKeeps
  <2>3. CASE \E i \in Installers : \E m \in Modes : Claim(i, m) \/ ClaimTaken(i, m) \/ ClaimFails(i, m)
    BY <2>3, ClaimKeeps, ClaimTakenKeeps, ClaimFailsKeeps
  <2>4. CASE \E i \in Installers : ClaimUnknown(i) \/ Interrupt(i) \/ GiveUp(i) \/ Fail(i)
    BY <2>4, ClaimUnknownKeeps, InterruptKeeps, FailKeeps
  <2>5. CASE \E i \in Installers : Poll(i) \/ LearnDenied(i) \/ \E c \in Claims : Exchange(i, c)
    BY <2>5, PollKeeps, FailKeeps, ExchangeKeeps
  <2>6. CASE \E i \in Installers : Issue(i) \/ Deliver(i) \/ Keep(i) \/ Decline(i) \/ Cancel(i)
    BY <2>6, IssueKeeps, DeliverKeeps, FailKeeps, DeclineKeeps, CancelKeeps
  <2>7. CASE Restart \/ Evict \/ Tick
    BY <2>7, RestartKeeps, EvictKeeps, TickKeeps
  <2>. QED
    BY <1>1, <2>1, <2>2, <2>3, <2>4, <2>5, <2>6, <2>7 DEF Next
<1>2. CASE UNCHANGED vars
  BY <1>2 DEF vars, Inv, TypeOK, TokenAsApproved
<1>. QED
  BY <1>1, <1>2

LEMMA Invariance == Spec => []Inv
<1>1. Init => Inv
  BY InitSound, JoinAssumption
<1>2. Inv /\ [Next]_vars => Inv'
  BY StepKeeps, JoinAssumption
<1>. QED
  BY <1>1, <1>2, PTL DEF Spec

\* The values of the variables: of the session (JoinSession), the device flows,
\* the installers and their file, and the tokens.
THEOREM JoinSessionsTypes == Spec => []TypeOK
<1>1. Inv => TypeOK
  BY DEF Inv
<1>. QED
  BY <1>1, Invariance, PTL

\* The token an installer gets is of the request that was approved
\* (JoinSessions.Decide), not of one that came while the name was checked.
THEOREM TokenIsApproved == Spec => []TokenAsApproved
<1>1. Inv => TokenAsApproved
  BY DEF Inv
<1>. QED
  BY <1>1, Invariance, PTL

\* However often its device claims, resumes, polls and exchanges, a pairing
\* code leads to one token.
THEOREM OneTokenForACode == Spec => []OneTokenPerCode
<1>1. Inv => OneTokenPerCode
  BY DEF Inv, Sound, Chosen, TokenAsApproved, OneTokenPerCode
<1>. QED
  BY <1>1, Invariance, PTL

\* Whatever ends or replaces a session takes its device flow and its code along
\* (unlink, compromise, lapse, evictOldest, Create, Claim).
THEOREM NothingIsLeftBehind == Spec => []NothingLeftBehind
<1>1. Inv => NothingLeftBehind
  <2>. SUFFICES ASSUME Inv PROVE NothingLeftBehind
    OBVIOUS
  <2>1. /\ Together(session, flow)
        /\ \A c \in Claims : c # 0
    BY DEF Inv, Sound, Claims
  <2>. QED
    BY <2>1 DEF Together, NothingLeftBehind
<1>. QED
  BY <1>1, Invariance, PTL

\* Wrong confirmation codes count for the pairing code, over all the claims of
\* the device that came back (confirmFail, maxJoinConfirmFails).
THEOREM GuessesAreBounded == Spec => []GuessesBounded
<1>1. Inv => GuessesBounded
  BY DEF Inv, Sound, Guessed, GuessesBounded
<1>. QED
  BY <1>1, Invariance, PTL

-----------------------------------------------------------------------------
(* The device that comes back *)

\* As long as only one installer called Claim, in one way, and neither left
\* its wait by itself nor missed the reply, it holds the resume token of the
\* claim that waits, for as long as that one waits.
CallerHolds ==
    session.state = "claimed" =>
        /\ hist.callers # {}
        /\ session.claimLeft > 0 /\ ~hist.slipped =>
              \A i \in Installers, m \in Modes : hist.callers = {<<i, m>>} =>
                  /\ session.mode = m /\ session.resume # 0
                  /\ file[i].sid = session.sid /\ file[i].claim = session.resume
                  /\ file[i].left >= session.claimLeft

\* An installer that waits keeps the file of its claim, and waits as long as
\* the claim does.
WaitsWithFile ==
    \A i \in Installers : inst[i].pc = "waiting" =>
        /\ file[i] = NoFile \/ file[i].claim = inst[i].claim
        /\ session.state = "claimed" /\ session.resume = inst[i].claim => session.claimLeft <= inst[i].patience

\* A session is discarded for its wrong confirmations, or because another
\* called, or somebody who had nothing to show.
Intruded ==
    session.state = "compromised" =>
        hist.wrong = MaxConfirmFails \/ hist.slipped \/ \E a, b \in hist.callers : a # b

Returning == CallerHolds /\ WaitsWithFile /\ Intruded

\* The session t is the session s as far as the device is concerned, or waits
\* for nothing.
Quiet(s, t) ==
    \/ t.state \notin {"claimed", "compromised"}
    \/ /\ t.state = s.state /\ t.sid = s.sid /\ t.mode = s.mode
       /\ t.resume = s.resume /\ t.claimLeft = s.claimLeft

\* purge and lapse.
LEMMA FoundQuiet ==
    ASSUME JoinAssumption, Inv
    PROVE  /\ Quiet(session, Found) /\ Quiet(session, Current)
           /\ Current.state = "claimed" => Current = session /\ session.claimLeft # 0
<1>1. NoSession.state = "none"
  BY DEF NoSession, Fresh
<1>2. Found = session \/ Found = NoSession
  BY DEF Found
<1>3. Overdue(Found) => Current.state = "expired"
  BY <1>1, <1>2, FoundSound, EndedTogether DEF Current, Overdue, Sound
<1>4. ~Overdue(Found) => Current = Found
  BY DEF Current
<1>5. ~Overdue(Found) /\ Found.state = "claimed" => Found = session /\ session.claimLeft # 0
  BY <1>1, <1>2 DEF Overdue
<1>. QED
  BY <1>1, <1>2, <1>3, <1>4, <1>5 DEF Quiet

\* What loadJoinResume finds of a file that is not stale.
LEMMA ResumeIs ==
    ASSUME Inv, JoinAssumption, NEW i \in Installers
    PROVE  /\ file[i] \in Files /\ file[i].left \in Nat /\ file[i].claim \in Nat
           /\ Resume(i, file[i].sid) # 0 <=> file[i].left > 0 /\ file[i].claim # 0
           /\ \A sid : Resume(i, sid) # 0 => Resume(i, sid) = file[i].claim /\ file[i].sid = sid
<1>1. file[i] \in Files
  BY DEF Inv, TypeOK
<1>. QED
  BY <1>1, Limits DEF Files, Resume

\* The session stays quiet, nobody calls, and who loses its file had nothing to
\* show or is remembered to have left.
LEMMA Undisturbed ==
    ASSUME Inv, JoinAssumption, Returning, Quiet(session, session'),
           hist'.callers = hist.callers, hist.slipped => hist'.slipped,
           session.state = "compromised" => hist'.wrong = hist.wrong,
           \A j \in Installers : \/ file'[j] = file[j]
                                 \/ file'[j] = NoFile /\ (hist'.slipped \/ Resume(j, session.sid) = 0),
           \A j \in Installers : inst'[j].pc = "waiting" => inst'[j] = inst[j]
    PROVE  Returning'
<1>1. session \in Sessions
  BY DEF Inv, TypeOK
<1>2. CallerHolds'
  <2>. SUFFICES ASSUME session'.state = "claimed", session.state = "claimed"
                PROVE  CallerHolds'
    BY DEF CallerHolds, Quiet
  <2>1. /\ session'.sid = session.sid /\ session'.mode = session.mode
        /\ session'.resume = session.resume /\ session'.claimLeft = session.claimLeft
    BY DEF Quiet
  <2>2. ASSUME NEW i \in Installers, NEW m \in Modes, hist.callers = {<<i, m>>},
               session.claimLeft > 0, ~hist'.slipped
        PROVE  /\ session.mode = m /\ session.resume # 0
               /\ file'[i].sid = session.sid /\ file'[i].claim = session.resume
               /\ file'[i].left >= session.claimLeft
    <3>1. /\ session.mode = m /\ session.resume # 0
          /\ file[i].sid = session.sid /\ file[i].claim = session.resume
          /\ file[i].left >= session.claimLeft
      BY <2>2 DEF Returning, CallerHolds
    <3>2. file[i].left > 0
      <4>1. session.claimLeft \in Nat /\ file[i].left \in Nat
        BY <1>1, ResumeIs, Limits DEF Sessions
      <4>. QED
        BY <2>2, <3>1, <4>1
    <3>3. Resume(i, session.sid) # 0
      BY <3>1, <3>2, ResumeIs
    <3>. QED
      BY <2>2, <3>1, <3>3
  <2>. QED
    BY <2>1, <2>2 DEF Returning, CallerHolds
<1>3. WaitsWithFile'
  BY DEF Returning, WaitsWithFile, Quiet
<1>4. Intruded'
  BY DEF Returning, Intruded, Quiet
<1>. QED
  BY <1>2, <1>3, <1>4 DEF Returning

\* Leaves, with the callers as they were.
LEMMA LeftUndisturbed ==
    ASSUME Inv, JoinAssumption, Returning, Quiet(session, session'), NEW i \in Installers, Leaves(i, hist)
    PROVE  Returning'
<1>1. /\ inst \in [Installers -> Installs] /\ file \in [Installers -> Files] /\ hist \in Histories
      /\ inst' = [inst EXCEPT ![i] = IdleInstall] /\ file' = [file EXCEPT ![i] = NoFile]
      /\ hist' = [hist EXCEPT !.slipped = hist.slipped \/ Resume(i, session.sid) # 0]
  BY DEF Inv, TypeOK, Leaves
<1>2. /\ hist'.callers = hist.callers /\ hist'.wrong = hist.wrong
      /\ hist'.slipped = (hist.slipped \/ Resume(i, session.sid) # 0)
  BY <1>1 DEF Histories
<1>3. IdleInstall.pc # "waiting"
  BY DEF IdleInstall
<1>4. \A j \in Installers : inst'[j].pc = "waiting" => inst'[j] = inst[j]
  BY <1>1, <1>3
<1>5. \A j \in Installers : \/ file'[j] = file[j]
                            \/ file'[j] = NoFile /\ (hist'.slipped \/ Resume(j, session.sid) = 0)
  BY <1>1, <1>2
<1>. QED
  BY <1>2, <1>4, <1>5, Undisturbed

\* compromise, lapse
LEMMA EndedState ==
    ASSUME NEW s \in Sessions, NEW n, NEW state
    PROVE  Ended([s EXCEPT !.fails = n], state).state = state
  BY DEF Sessions, Ended

\* Misconfirm: the claim waits on, or its last confirmation was wrong.
LEMMA MisconfirmReturning ==
    ASSUME Inv, JoinAssumption, Returning, NEW t \in Tabs, Misconfirm(t)
    PROVE  Returning'
<1>. DEFINE s == [Current EXCEPT !.fails = Current.fails + 1]
<1>1. /\ Decidable(tab[t]) /\ hist' = [hist EXCEPT !.wrong = hist.wrong + 1] /\ UNCHANGED <<inst, file>>
      /\ IF s.fails >= MaxConfirmFails THEN session' = Ended(s, "compromised") ELSE session' = s
  BY DEF Misconfirm, SameRequest
<1>2. /\ Current.state = "claimed" /\ Current = session /\ session \in Sessions /\ hist \in Histories
      /\ Sound(session, flow, hist)
  BY <1>1, DecidableIs, FoundQuiet DEF Inv, TypeOK
<1>3. /\ hist'.callers = hist.callers /\ hist'.slipped = hist.slipped /\ hist'.wrong = hist.wrong + 1
  BY <1>1, <1>2 DEF Histories
<1>4. /\ s.fails = session.fails + 1 /\ s.state = "claimed" /\ s.sid = session.sid /\ s.mode = session.mode
      /\ s.resume = session.resume /\ s.claimLeft = session.claimLeft
  BY <1>2 DEF Sessions
<1>5. CASE s.fails >= MaxConfirmFails
  <2>1. session'.state = "compromised"
    BY <1>1, <1>2, <1>5, EndedState
  <2>2. hist'.wrong = MaxConfirmFails
    BY <1>2, <1>3, <1>4, <1>5, Limits DEF Sound, Guessed, Sessions
  <2>. QED
    BY <1>1, <2>1, <2>2 DEF Returning, CallerHolds, WaitsWithFile, Intruded
<1>6. CASE ~(s.fails >= MaxConfirmFails)
  <2>1. Quiet(session, session')
    BY <1>1, <1>2, <1>4, <1>6 DEF Quiet
  <2>. QED
    BY <1>1, <1>2, <1>3, <2>1, Undisturbed
<1>. QED
  BY <1>5, <1>6

\* Claim: the claim that waits from now on is the caller's.
LEMMA ClaimReturning ==
    ASSUME Inv, JoinAssumption, Returning, NEW i \in Installers, NEW m \in Modes, Claim(i, m)
    PROVE  Returning'
<1>1. PICK c \in Claims :
          /\ hist.sidOf[c] = 0
          /\ session' = Claimed(Current, m, c)
          /\ \/ /\ inst' = [inst EXCEPT ![i] = [inst[i] EXCEPT !.pc = "waiting", !.claim = c, !.mode = m, !.patience = ClaimTTL]]
                /\ file' = [file EXCEPT ![i] = [sid |-> Current.sid, claim |-> c, left |-> ResumeTTL]]
                /\ hist' = Called([hist EXCEPT !.sidOf[c] = Current.sid], i, m)
             \/ Leaves(i, Called([hist EXCEPT !.sidOf[c] = Current.sid, !.slipped = TRUE], i, m))
  BY DEF Claim
<1>2. /\ Current \in Sessions /\ hist \in Histories /\ c # 0
      /\ inst \in [Installers -> Installs] /\ file \in [Installers -> Files]
      /\ \A j \in Installers : Granted(inst[j], session, flow, hist)
  <2>1. Current \in Sessions /\ c # 0
    BY CurrentSound DEF Sound, Together, Claims
  <2>. QED
    BY <2>1 DEF Inv, TypeOK
<1>3. /\ session'.state = "claimed" /\ session'.mode = m /\ session'.resume = c
      /\ session'.claimLeft = ClaimTTL /\ session'.sid = Current.sid
  BY <1>1, <1>2 DEF Claimed, Sessions
<1>4. ASSUME NEW j \in Installers, inst[j].pc = "waiting" PROVE inst[j].claim # c
  BY <1>1, <1>2, <1>4 DEF Granted
<1>5. Intruded'
  BY <1>3 DEF Intruded
<1>6. CASE /\ inst' = [inst EXCEPT ![i] = [inst[i] EXCEPT !.pc = "waiting", !.claim = c, !.mode = m, !.patience = ClaimTTL]]
           /\ file' = [file EXCEPT ![i] = [sid |-> Current.sid, claim |-> c, left |-> ResumeTTL]]
           /\ hist' = Called([hist EXCEPT !.sidOf[c] = Current.sid], i, m)
  <2>1. hist'.callers = hist.callers \union {<<i, m>>}
    BY <1>2, <1>6 DEF Called, Histories
  <2>2. /\ file'[i].sid = Current.sid /\ file'[i].claim = c /\ file'[i].left = ResumeTTL
        /\ inst'[i].claim = c /\ inst'[i].patience = ClaimTTL
        /\ \A j \in Installers \ {i} : file'[j] = file[j] /\ inst'[j] = inst[j]
    BY <1>2, <1>6 DEF Installs
  <2>3. CallerHolds'
    <3>1. ASSUME NEW j \in Installers, NEW n \in Modes, hist'.callers = {<<j, n>>}
          PROVE  j = i /\ n = m
      <4>1. <<i, m>> = <<j, n>>
        BY <2>1, <3>1
      <4>. QED
        BY <4>1
    <3>2. ClaimTTL <= ResumeTTL
      BY DEF JoinAssumption
    <3>. QED
      BY <1>2, <1>3, <2>1, <2>2, <3>1, <3>2 DEF CallerHolds
  <2>4. WaitsWithFile'
    BY <1>3, <1>4, <2>2, Limits DEF Returning, WaitsWithFile
  <2>. QED
    BY <1>5, <2>3, <2>4 DEF Returning
<1>7. CASE Leaves(i, Called([hist EXCEPT !.sidOf[c] = Current.sid, !.slipped = TRUE], i, m))
  <2>1. /\ inst' = [inst EXCEPT ![i] = IdleInstall] /\ file' = [file EXCEPT ![i] = NoFile]
        /\ hist'.callers = hist.callers \union {<<i, m>>} /\ hist'.slipped
    BY <1>2, <1>7 DEF Leaves, Called, Histories
  <2>2. CallerHolds'
    BY <2>1 DEF CallerHolds
  <2>3. WaitsWithFile'
    BY <1>2, <1>3, <1>4, <2>1 DEF Returning, WaitsWithFile, IdleInstall
  <2>. QED
    BY <1>5, <2>2, <2>3 DEF Returning
<1>. QED
  BY <1>1, <1>6, <1>7

\* ClaimTaken: the device that holds what resumes the claim is not refused.
LEMMA ClaimTakenReturning ==
    ASSUME Inv, JoinAssumption, Returning, NEW i \in Installers, NEW m \in Modes, ClaimTaken(i, m)
    PROVE  Returning'
<1>. DEFINE h == Called(hist, i, m)
<1>1. /\ Current.state \in {"claimed", "approved"} /\ ~Resumed(Current, i, m) /\ Leaves(i, h)
      /\ session' = IF Current.state = "claimed" THEN Ended(Current, "compromised") ELSE Current
  BY DEF ClaimTaken
<1>2. /\ Current \in Sessions /\ hist \in Histories
      /\ inst \in [Installers -> Installs] /\ file \in [Installers -> Files]
  BY CurrentSound DEF Inv, TypeOK, Sound, Together
<1>3. /\ inst' = [inst EXCEPT ![i] = IdleInstall] /\ file' = [file EXCEPT ![i] = NoFile]
      /\ hist'.callers = hist.callers \union {<<i, m>>}
      /\ hist'.slipped = (hist.slipped \/ Resume(i, session.sid) # 0)
  BY <1>1, <1>2 DEF Leaves, Called, Histories
<1>4. session'.state \in {"compromised", "approved"}
  BY <1>1, <1>2 DEF Ended, Sessions
<1>5. CallerHolds' /\ WaitsWithFile'
  BY <1>2, <1>3, <1>4 DEF Returning, CallerHolds, WaitsWithFile, IdleInstall
<1>6. CASE Current.state = "claimed"
  <2>1. Current = session /\ session.claimLeft > 0 /\ session.state = "claimed" /\ session.claimLeft \in Nat
    <3>1. Current = session /\ session.claimLeft # 0 /\ session.claimLeft \in Nat
      BY <1>2, <1>6, FoundQuiet, Limits DEF Sessions
    <3>. QED
      BY <1>6, <3>1
  <2>. SUFFICES ASSUME ~hist'.slipped, hist.callers \subseteq {<<i, m>>} PROVE FALSE
    <3>1. ASSUME ~hist'.slipped, ~(hist.callers \subseteq {<<i, m>>})
          PROVE  \E a, b \in hist'.callers : a # b
      BY <1>3, <3>1
    <3>. QED
      BY <1>5, <3>1 DEF Returning, Intruded
  <2>2. hist.callers = {<<i, m>>}
    BY <2>1 DEF Returning, CallerHolds
  <2>3. /\ session.mode = m /\ session.resume # 0 /\ file[i].sid = session.sid
        /\ file[i].claim = session.resume /\ file[i].left >= session.claimLeft
    BY <1>3, <2>1, <2>2 DEF Returning, CallerHolds
  <2>4. Resume(i, session.sid) # 0
    BY <2>1, <2>3, ResumeIs
  <2>. QED
    BY <1>3, <2>4
<1>7. CASE Current.state # "claimed"
  BY <1>1, <1>5, <1>7 DEF Returning, Intruded
<1>. QED
  BY <1>6, <1>7

\* GiveUp: the claim has ended with the wait for it, so nothing to resume is lost.
LEMMA GiveUpReturning ==
    ASSUME Inv, JoinAssumption, Returning, NEW i \in Installers, GiveUp(i)
    PROVE  Returning'
<1>1. /\ inst[i].pc = "waiting" /\ inst[i].patience = 0
      /\ inst' = [inst EXCEPT ![i] = IdleInstall] /\ file' = [file EXCEPT ![i] = NoFile]
      /\ UNCHANGED <<session, hist>>
  BY DEF GiveUp
<1>2. /\ session \in Sessions /\ inst \in [Installers -> Installs] /\ file \in [Installers -> Files]
  BY DEF Inv, TypeOK
<1>3. \A j \in Installers \ {i} : file'[j] = file[j] /\ inst'[j] = inst[j]
  BY <1>1, <1>2
<1>4. inst'[i].pc = "idle" /\ NoFile.claim = 0
  BY <1>1, <1>2 DEF IdleInstall, NoFile
<1>5. CallerHolds'
  <2>. SUFFICES ASSUME session.state = "claimed", session.claimLeft > 0, ~hist.slipped,
                       NEW m \in Modes, hist.callers = {<<i, m>>}
                PROVE  FALSE
    BY <1>1, <1>3 DEF Returning, CallerHolds
  <2>1. file[i].claim = session.resume /\ session.resume # 0
    BY DEF Returning, CallerHolds
  <2>2. session.claimLeft <= 0
    BY <1>1, <1>4, <2>1 DEF Returning, WaitsWithFile
  <2>. QED
    BY <1>2, <2>2, Limits DEF Sessions
<1>6. WaitsWithFile'
  BY <1>1, <1>3, <1>4 DEF Returning, WaitsWithFile
<1>. QED
  BY <1>1, <1>5, <1>6 DEF Returning, Intruded

\* Tick: the file lasts as long as the claim, and the wait too.
LEMMA TickReturning == ASSUME Inv, JoinAssumption, Returning, Tick PROVE Returning'
<1>1. /\ session \in Sessions /\ inst \in [Installers -> Installs] /\ file \in [Installers -> Files]
  BY DEF Inv, TypeOK
<1>2. /\ session' = [session EXCEPT !.left = Less(session.left), !.life = Less(session.life),
                                    !.claimLeft = Less(session.claimLeft), !.authLeft = Less(session.authLeft)]
      /\ file' = [i \in Installers |-> IF file[i].left <= 1 THEN NoFile ELSE [file[i] EXCEPT !.left = file[i].left - 1]]
      /\ inst' = [i \in Installers |-> [inst[i] EXCEPT !.patience = Less(inst[i].patience)]]
      /\ hist' = hist
  BY DEF Tick
<1>3. /\ session'.state = session.state /\ session'.sid = session.sid /\ session'.mode = session.mode
      /\ session'.resume = session.resume /\ session'.claimLeft = Less(session.claimLeft)
      /\ session.claimLeft \in Nat
  BY <1>1, <1>2, Limits DEF Sessions
<1>4. ASSUME NEW j \in Installers
      PROVE  /\ inst'[j].pc = inst[j].pc /\ inst'[j].claim = inst[j].claim
             /\ inst'[j].patience = Less(inst[j].patience) /\ inst[j].patience \in Nat
             /\ file[j].left \in Nat
             /\ file[j].left <= 1 => file'[j] = NoFile
             /\ file[j].left > 1 => /\ file'[j].sid = file[j].sid /\ file'[j].claim = file[j].claim
                                    /\ file'[j].left = file[j].left - 1
  BY <1>1, <1>2, Limits DEF Installs, Files
<1>5. CallerHolds'
  <2>1. ASSUME NEW j \in Installers, NEW m \in Modes, session.state = "claimed", session'.claimLeft > 0,
               ~hist.slipped, hist.callers = {<<j, m>>}
        PROVE  /\ session.mode = m /\ session.resume # 0
               /\ file'[j].sid = session.sid /\ file'[j].claim = session.resume
               /\ file'[j].left >= session'.claimLeft
    <3>1. session.claimLeft > 1 /\ session'.claimLeft = session.claimLeft - 1
      BY <1>3, <2>1 DEF Less
    <3>2. /\ session.mode = m /\ session.resume # 0 /\ file[j].sid = session.sid
          /\ file[j].claim = session.resume /\ file[j].left >= session.claimLeft
      BY <1>3, <2>1, <3>1 DEF Returning, CallerHolds
    <3>. QED
      BY <1>3, <1>4, <3>1, <3>2
  <2>. QED
    BY <1>2, <1>3, <2>1 DEF Returning, CallerHolds
<1>6. WaitsWithFile'
  <2>1. ASSUME NEW j \in Installers, inst[j].pc = "waiting"
        PROVE  /\ file'[j] = NoFile \/ file'[j].claim = inst[j].claim
               /\ session.state = "claimed" /\ session.resume = inst[j].claim => session'.claimLeft <= inst'[j].patience
    <3>1. file[j] = NoFile => file'[j] = NoFile
      BY <1>4 DEF NoFile
    <3>2. file'[j] = NoFile \/ file'[j].claim = file[j].claim
      BY <1>4
    <3>. QED
      BY <1>3, <1>4, <2>1, <3>1, <3>2 DEF Returning, WaitsWithFile, Less
  <2>. QED
    BY <1>3, <1>4, <2>1 DEF WaitsWithFile
<1>. QED
  BY <1>2, <1>3, <1>5, <1>6 DEF Returning, Intruded

\* The other steps of an installer.
LEMMA InstallerReturning ==
    ASSUME Inv, JoinAssumption, Returning, NEW i \in Installers,
           \/ \E m \in Modes : ClaimFails(i, m)
           \/ ClaimUnknown(i) \/ Interrupt(i) \/ Fail(i) \/ Poll(i) \/ LearnDenied(i)
           \/ \E c \in Claims : Exchange(i, c)
           \/ Issue(i) \/ Deliver(i) \/ Keep(i) \/ Decline(i) \/ Cancel(i)
    PROVE  Returning'
<1>1. session \in Sessions /\ inst \in [Installers -> Installs]
  BY DEF Inv, TypeOK
<1>2. Quiet(session, session) /\ Quiet(session, Found) /\ Quiet(session, Current)
  BY FoundQuiet DEF Quiet
\* What a step does that does not end the installer.
<1>3. ASSUME Quiet(session, session'), UNCHANGED <<file, hist>>,
             \/ UNCHANGED inst
             \/ \E pc \in {"granted", "issued", "prompt", "revoked"} :
                   inst' = [inst EXCEPT ![i].pc = pc] \/ \E sid : inst' = [inst EXCEPT ![i].pc = pc, ![i].sid = sid]
             \/ inst' = [inst EXCEPT ![i] = IdleInstall]
      PROVE  Returning'
  <2>1. \A j \in Installers \ {i} : inst'[j] = inst[j]
    BY <1>1, <1>3
  <2>2. inst'[i].pc = "waiting" => inst'[i] = inst[i]
    BY <1>1, <1>3 DEF Installs, IdleInstall
  <2>. QED
    BY <1>3, <2>1, <2>2, Undisturbed
<1>4. ASSUME NEW m \in Modes, ClaimFails(i, m) PROVE Returning'
  <2>1. /\ Leaves(i, hist)
        /\ (session' = Current) \/ (Resumed(Current, i, m) /\ session' = Ended(Current, "expired"))
    <3>1. Leaves(i, hist) /\ (Looked \/ (Resumed(Current, i, m) /\ session' = Ended(Current, "expired")))
      BY <1>4, Zenon DEF ClaimFails
    <3>. QED
      BY <3>1 DEF Looked
  <2>2. Resumed(Current, i, m) => Ended(Current, "expired").state = "expired"
    BY CurrentSound DEF Sound, Together, Sessions, Ended
  <2>. QED
    BY <1>2, <2>1, <2>2, LeftUndisturbed DEF Quiet
<1>5. CASE ClaimUnknown(i)
  BY <1>2, <1>5, LeftUndisturbed DEF ClaimUnknown, Looked
<1>6. CASE Fail(i) \/ LearnDenied(i) \/ Keep(i)
  BY <1>2, <1>6, LeftUndisturbed DEF Fail, LearnDenied, Keep
<1>7. CASE Interrupt(i)
  BY <1>2, <1>3, <1>7 DEF Interrupt
<1>8. CASE Poll(i)
  BY <1>2, <1>3, <1>8, LeftUndisturbed DEF Poll
<1>9. ASSUME NEW c \in Claims, Exchange(i, c) PROVE Returning'
  <2>1. Quiet(session, [Found EXCEPT !.auth = FALSE])
    <3>1. Found \in Sessions
      BY FoundSound DEF Sound, Together
    <3>2. /\ [Found EXCEPT !.auth = FALSE].state = Found.state /\ [Found EXCEPT !.auth = FALSE].sid = Found.sid
          /\ [Found EXCEPT !.auth = FALSE].mode = Found.mode /\ [Found EXCEPT !.auth = FALSE].resume = Found.resume
          /\ [Found EXCEPT !.auth = FALSE].claimLeft = Found.claimLeft
      BY <3>1 DEF Sessions
    <3>. QED
      BY <1>2, <3>2 DEF Quiet
  <2>2. session' = [Found EXCEPT !.auth = FALSE] \/ session' = Found
    BY <1>9 DEF Exchange
  <2>3. \/ inst' = [inst EXCEPT ![i].pc = "granted", ![i].sid = Found.sid] /\ UNCHANGED <<file, hist>>
        \/ Leaves(i, hist) \/ UNCHANGED <<inst, file, hist>>
    BY <1>9 DEF Exchange
  <2>. QED
    BY <1>2, <1>3, <2>1, <2>2, <2>3, LeftUndisturbed
<1>10. CASE Issue(i)
  BY <1>2, <1>3, <1>10, LeftUndisturbed DEF Issue
<1>11. CASE Deliver(i)
  <2>1. Quiet(session, [session EXCEPT !.state = "connected"])
    BY <1>1 DEF Quiet, Sessions
  <2>. QED
    BY <1>2, <1>3, <1>11, <2>1, LeftUndisturbed DEF Deliver
<1>12. CASE Decline(i)
  BY <1>2, <1>3, <1>12, LeftUndisturbed DEF Decline
<1>13. CASE Cancel(i)
  <2>1. Quiet(session, [session EXCEPT !.state = "denied"])
    BY <1>1 DEF Quiet, Sessions
  <2>. QED
    BY <1>2, <1>13, <2>1, LeftUndisturbed DEF Cancel
<1>. QED
  BY <1>4, <1>5, <1>6, <1>7, <1>8, <1>9, <1>10, <1>11, <1>12, <1>13

\* The steps of the page and of the server, but Misconfirm and Tick.
LEMMA PageReturning ==
    ASSUME Inv, JoinAssumption, Returning,
           \/ Create \/ View \/ Deny \/ Restart \/ Evict
           \/ \E t \in Tabs : StartApproval(t) \/ FailApproval(t) \/ Approve(t)
    PROVE  Returning'
<1>1. /\ session \in Sessions /\ inst \in [Installers -> Installs] /\ hist \in Histories
      /\ file \in [Installers -> Files] /\ Current \in Sessions
  BY CurrentSound DEF Inv, TypeOK, Sound, Together
<1>2. Quiet(session, session) /\ Quiet(session, Current)
  BY FoundQuiet DEF Quiet
<1>3. NoSession.state = "none" /\ Quiet(session, NoSession)
  BY DEF NoSession, Fresh, Quiet
<1>4. ASSUME Quiet(session, session'), UNCHANGED <<inst, file, hist>> PROVE Returning'
  BY <1>4, Undisturbed
<1>5. CASE Create
  <2>1. /\ session' = Fresh(hist.sids + 1) /\ UNCHANGED <<inst, file>>
        /\ hist' = [hist EXCEPT !.sids = hist.sids + 1, !.wrong = 0, !.callers = {}, !.slipped = FALSE]
    BY <1>5 DEF Create
  <2>2. session'.state = "waiting"
    BY <2>1 DEF Fresh
  <2>. QED
    BY <2>1, <2>2 DEF Returning, CallerHolds, WaitsWithFile, Intruded
<1>6. CASE View
  BY <1>2, <1>4, <1>6 DEF View, Looked
<1>7. CASE Deny
  <2>1. [Current EXCEPT !.state = "denied"].state = "denied"
    BY <1>1 DEF Sessions
  <2>. QED
    BY <1>4, <1>7, <2>1 DEF Deny, Quiet
<1>8. CASE Restart
  <2>1. /\ session' = NoSession /\ hist' = hist
        /\ \A j \in Installers : inst'[j].pc = "waiting" => inst'[j] = inst[j] /\ file'[j] = file[j]
    BY <1>8 DEF Restart, IdleInstall
  <2>. QED
    BY <1>3, <2>1 DEF Returning, CallerHolds, WaitsWithFile, Intruded
<1>9. CASE Evict
  BY <1>2, <1>3, <1>4, <1>9 DEF Evict
<1>10. ASSUME NEW t \in Tabs, StartApproval(t) \/ FailApproval(t) PROVE Returning'
  <2>1. (session' = Current \/ session' = session) /\ UNCHANGED <<inst, file, hist>>
    BY <1>10 DEF StartApproval, FailApproval, Looked
  <2>. QED
    BY <1>2, <1>4, <2>1
<1>11. ASSUME NEW t \in Tabs, Approve(t) PROVE Returning'
  <2>1. session'.state = "approved"
    BY <1>1, <1>11 DEF Approve, Sessions
  <2>2. UNCHANGED <<inst, file>> /\ hist'.callers = hist.callers /\ hist'.slipped = hist.slipped /\ hist'.wrong = hist.wrong
    BY <1>1, <1>11 DEF Approve, Histories
  <2>. QED
    BY <2>1, <2>2, Undisturbed DEF Quiet
<1>. QED
  BY <1>5, <1>6, <1>7, <1>8, <1>9, <1>10, <1>11

\* Every step keeps what is known of the device.
LEMMA ReturningStep == ASSUME JoinAssumption, Inv, Returning, [Next]_vars PROVE Returning'
<1>1. CASE Next
  BY <1>1, PageReturning, InstallerReturning, MisconfirmReturning, ClaimReturning, ClaimTakenReturning,
     GiveUpReturning, TickReturning DEF Next
<1>2. CASE UNCHANGED vars
  BY <1>2 DEF vars, Returning, CallerHolds, WaitsWithFile, Intruded
<1>. QED
  BY <1>1, <1>2

\* Finitely many installers called.
CallersFinite == IsFiniteSet(hist.callers)

LEMMA CallersStayFinite == Inv /\ CallersFinite /\ [Next]_vars => CallersFinite'
<1>. SUFFICES ASSUME Inv, CallersFinite, [Next]_vars PROVE CallersFinite'
  OBVIOUS
<1>1. hist \in Histories
  BY DEF Inv, TypeOK
<1>2. ASSUME NEW i, Leaves(i, hist) PROVE hist'.callers = hist.callers
  BY <1>1, <1>2 DEF Leaves, Histories
<1>3. ASSUME UNCHANGED hist \/ \E i \in Installers : Leaves(i, hist) PROVE CallersFinite'
  BY <1>1, <1>2, <1>3 DEF CallersFinite
<1>4. ASSUME hist'.callers = hist.callers \/ hist'.callers = {} \/ \E x : hist'.callers = hist.callers \union {x}
      PROVE  CallersFinite'
  <2>1. CASE \E x : hist'.callers = hist.callers \union {x}
    BY <2>1, FS_AddElement DEF CallersFinite
  <2>. QED
    BY <1>4, <2>1, FS_EmptySet DEF CallersFinite
<1>5. CASE Create
  BY <1>1, <1>4, <1>5 DEF Create, Histories
<1>6. CASE View \/ Deny \/ Restart \/ Evict \/ Tick \/ UNCHANGED vars
  BY <1>3, <1>6 DEF View, Deny, Restart, Evict, Tick, vars
<1>7. ASSUME NEW t \in Tabs, StartApproval(t) \/ FailApproval(t) \/ Misconfirm(t) \/ Approve(t)
      PROVE  CallersFinite'
  BY <1>1, <1>4, <1>7 DEF StartApproval, FailApproval, Misconfirm, Approve, Histories
<1>8. ASSUME NEW i \in Installers, NEW m \in Modes, Claim(i, m) PROVE CallersFinite'
  <2>1. \E c \in Claims : \E k \in {hist.slipped, TRUE} :
            LET h == Called([hist EXCEPT !.sidOf[c] = Current.sid, !.slipped = k], i, m)
            IN  hist' = h \/ Leaves(i, h)
    <3>1. \A c \in Claims : [hist EXCEPT !.sidOf[c] = Current.sid, !.slipped = hist.slipped]
                            = [hist EXCEPT !.sidOf[c] = Current.sid]
      BY <1>1 DEF Histories
    <3>. QED
      BY <1>8, <3>1 DEF Claim
  <2>2. hist'.callers = hist.callers \union {<<i, m>>}
    BY <1>1, <2>1 DEF Called, Leaves, Histories
  <2>. QED
    BY <1>4, <2>2
<1>9. ASSUME NEW i \in Installers, NEW m \in Modes, ClaimTaken(i, m) PROVE CallersFinite'
  <2>1. hist'.callers = hist.callers \union {<<i, m>>}
    BY <1>1, <1>9 DEF ClaimTaken, Called, Leaves, Histories
  <2>. QED
    BY <1>4, <2>1
<1>10. ASSUME NEW i \in Installers,
              \/ \E m \in Modes : ClaimFails(i, m)
              \/ ClaimUnknown(i) \/ Interrupt(i) \/ GiveUp(i) \/ Fail(i) \/ Poll(i) \/ LearnDenied(i)
              \/ \E c \in Claims : Exchange(i, c)
              \/ Issue(i) \/ Deliver(i) \/ Keep(i) \/ Decline(i) \/ Cancel(i)
       PROVE  CallersFinite'
  <2>1. UNCHANGED hist \/ Leaves(i, hist)
    BY <1>10 DEF ClaimFails, ClaimUnknown, Interrupt, GiveUp, Fail, Poll, LearnDenied, Exchange, Issue,
       Deliver, Keep, Decline, Cancel
  <2>. QED
    BY <1>3, <2>1
<1>. QED
  BY <1>5, <1>6, <1>7, <1>8, <1>9, <1>10 DEF Next

\* An installer that was interrupted resumes its claim, or finds it lapsed; it
\* does not discard it (resumedBy, loadJoinResume, JoinSessions.Claim).
THEOREM ReturnResumes == Spec => []ReturnIsNoIntrusion
<1>1. Init => Returning /\ CallersFinite
  <2>. SUFFICES ASSUME Init PROVE Returning /\ CallersFinite
    OBVIOUS
  <2>1. session.state = "none" /\ hist.callers = {} /\ \A i \in Installers : inst[i].pc = "idle"
    BY DEF Init, NoSession, Fresh, IdleInstall
  <2>. QED
    BY <2>1, FS_EmptySet DEF Returning, CallerHolds, WaitsWithFile, Intruded, CallersFinite
<1>2. Inv /\ Returning /\ [Next]_vars => Returning'
  BY ReturningStep, JoinAssumption
<1>3. Returning /\ CallersFinite => ReturnIsNoIntrusion
  <2>. SUFFICES ASSUME CallersFinite, NEW a \in hist.callers, NEW b \in hist.callers, a # b
                PROVE  Cardinality(hist.callers) > 1
    BY DEF Returning, Intruded, ReturnIsNoIntrusion
  <2>1. Cardinality({a, b}) <= Cardinality(hist.callers)
    BY FS_Subset DEF CallersFinite
  <2>2. Cardinality({a, b}) = 2
    <3>1. IsFiniteSet({a}) /\ Cardinality({a}) = 1 /\ b \notin {a} /\ {a} \union {b} = {a, b}
      BY FS_Singleton
    <3>. QED
      BY <3>1, FS_AddElement
  <2>3. Cardinality(hist.callers) \in Nat
    BY FS_CardinalityType DEF CallersFinite
  <2>. QED
    BY <2>1, <2>2, <2>3
<1>. QED
  BY <1>1, <1>2, <1>3, Invariance, CallersStayFinite, PTL DEF Spec

-----------------------------------------------------------------------------
(* What the pairing promises (PairingGrants) *)

\* A request that an installer waits for, or that was granted to it, has no
\* token yet, and it is nobody else's.
GivenOnce ==
    \A i \in Installers : inst[i].pc \in {"waiting", "granted"} =>
        /\ token[inst[i].claim] = "none"
        /\ \A j \in Installers : j # i /\ inst[j].pc \in {"waiting", "granted"} => inst[j].claim # inst[i].claim

\* Nobody begins to wait.
LEMMA NobodyNewWaits ==
    ASSUME GivenOnce, UNCHANGED token,
           \A j \in Installers : inst'[j].pc \in {"waiting", "granted"} =>
               inst[j].pc \in {"waiting", "granted"} /\ inst'[j].claim = inst[j].claim
    PROVE  GivenOnce'
  BY DEF GivenOnce

\* One installer leaves.
LEMMA LeavingWaitsNot ==
    ASSUME Inv, NEW i \in Installers, inst' = [inst EXCEPT ![i] = IdleInstall], UNCHANGED token, GivenOnce
    PROVE  GivenOnce'
<1>1. inst \in [Installers -> Installs] /\ IdleInstall.pc = "idle"
  BY DEF Inv, TypeOK, IdleInstall
<1>2. \A j \in Installers : inst'[j] = IF j = i THEN IdleInstall ELSE inst[j]
  BY <1>1
<1>. QED
  BY <1>1, <1>2, NobodyNewWaits

\* An installer goes on with the request it has.
LEMMA GoingOn ==
    ASSUME Inv, NEW i \in Installers, NEW y, inst' = [inst EXCEPT ![i] = y], UNCHANGED token, GivenOnce,
           y.pc \in {"waiting", "granted"} => inst[i].pc \in {"waiting", "granted"} /\ y.claim = inst[i].claim
    PROVE  GivenOnce'
<1>1. inst \in [Installers -> Installs]
  BY DEF Inv, TypeOK
<1>2. \A j \in Installers : inst'[j] = IF j = i THEN y ELSE inst[j]
  BY <1>1
<1>. QED
  BY <1>2, NobodyNewWaits

\* A request that nobody made has no token.
LEMMA NewHasNoToken == ASSUME Inv, NEW c \in Claims, hist.sidOf[c] = 0 PROVE token[c] = "none"
  BY DEF Inv, Sound, Chosen, TokenAsApproved

LEMMA ClaimGivenOnce ==
    ASSUME Inv, GivenOnce, NEW i \in Installers, NEW m \in Modes, Claim(i, m)
    PROVE  GivenOnce'
<1>. PICK c \in Claims :
          /\ hist.sidOf[c] = 0
          /\ \/ inst' = [inst EXCEPT ![i] = [inst[i] EXCEPT !.pc = "waiting", !.claim = c, !.mode = m, !.patience = ClaimTTL]]
             \/ Leaves(i, Called([hist EXCEPT !.sidOf[c] = Current.sid, !.slipped = TRUE], i, m))
  BY DEF Claim
<1>1. UNCHANGED token /\ inst \in [Installers -> Installs]
  BY DEF Claim, Inv, TypeOK
<1>2. token[c] = "none"
  BY NewHasNoToken
<1>3. \A j \in Installers : inst[j].pc # "idle" => inst[j].claim # c
  BY DEF Inv, Granted
<1>4. CASE inst' = [inst EXCEPT ![i] = [inst[i] EXCEPT !.pc = "waiting", !.claim = c, !.mode = m, !.patience = ClaimTTL]]
  <2>. DEFINE y == [inst[i] EXCEPT !.pc = "waiting", !.claim = c, !.mode = m, !.patience = ClaimTTL]
  <2>1. y.pc = "waiting" /\ y.claim = c
    BY <1>1 DEF Installs
  <2>2. \A j \in Installers : inst'[j] = IF j = i THEN y ELSE inst[j]
    BY <1>1, <1>4
  <2>. HIDE DEF y
  <2>3. ASSUME NEW j \in Installers, inst'[j].pc \in {"waiting", "granted"}, j # i
        PROVE  inst'[j] = inst[j] /\ inst[j].claim # c
    BY <1>3, <2>2, <2>3
  <2>4. inst'[i].claim = c /\ token'[c] = "none"
    BY <1>1, <1>2, <2>1, <2>2
  <2>. QED
    BY <1>1, <2>3, <2>4 DEF GivenOnce
<1>5. CASE Leaves(i, Called([hist EXCEPT !.sidOf[c] = Current.sid, !.slipped = TRUE], i, m))
  BY <1>1, <1>5, LeavingWaitsNot DEF Leaves
<1>. QED
  BY <1>4, <1>5

LEMMA IssueGivenOnce ==
    ASSUME Inv, GivenOnce, NEW i \in Installers, Issue(i)
    PROVE  GivenOnce'
<1>1. /\ inst[i].pc = "granted" /\ inst[i] \in Installs /\ inst \in [Installers -> Installs]
      /\ token \in [Claims -> {"none", "valid", "revoked"}]
  BY DEF Issue, Inv, TypeOK
<1>2. CASE /\ token' = [c \in Claims |-> IF c = inst[i].claim THEN "valid"
                                          ELSE IF token[c] = "valid" THEN "revoked" ELSE token[c]]
           /\ inst' = [inst EXCEPT ![i].pc = "issued"]
  <2>. DEFINE y == [inst[i] EXCEPT !.pc = "issued"]
  <2>1. y.pc = "issued"
    BY <1>1 DEF Installs
  <2>2. \A j \in Installers : inst'[j] = IF j = i THEN y ELSE inst[j]
    BY <1>1, <1>2
  <2>. HIDE DEF y
  <2>3. \A c \in Claims : c # inst[i].claim /\ token[c] = "none" => token'[c] = "none"
    BY <1>2
  <2>4. \A j \in Installers : inst[j].pc \in {"waiting", "granted"} => inst[j].claim \in Claims
    BY <1>1 DEF Inv, Granted, Installs, Claims
  <2>5. \A j \in Installers : inst'[j].pc \in {"waiting", "granted"} =>
            j # i /\ inst'[j] = inst[j] /\ inst[j].claim # inst[i].claim
    BY <1>1, <2>1, <2>2 DEF GivenOnce
  <2>. QED
    BY <2>3, <2>4, <2>5 DEF GivenOnce
<1>3. CASE Leaves(i, hist) /\ UNCHANGED token
  BY <1>3, LeavingWaitsNot DEF Leaves
<1>. QED
  BY <1>2, <1>3 DEF Issue

LEMMA DeclineGivenOnce ==
    ASSUME Inv, GivenOnce, NEW i \in Installers, Decline(i)
    PROVE  GivenOnce'
<1>1. /\ inst[i].pc = "prompt" /\ inst[i] \in Installs /\ inst \in [Installers -> Installs]
      /\ token \in [Claims -> {"none", "valid", "revoked"}]
  BY DEF Decline, Inv, TypeOK
<1>2. CASE /\ token[inst[i].claim] = "valid"
           /\ token' = [token EXCEPT ![inst[i].claim] = "revoked"]
           /\ inst' = [inst EXCEPT ![i].pc = "revoked"]
  <2>. DEFINE y == [inst[i] EXCEPT !.pc = "revoked"]
  <2>1. y.pc = "revoked"
    BY <1>1 DEF Installs
  <2>2. \A j \in Installers : inst'[j] = IF j = i THEN y ELSE inst[j]
    BY <1>1, <1>2
  <2>. HIDE DEF y
  <2>3. \A c \in Claims : token[c] = "none" => token'[c] = "none"
    BY <1>1, <1>2
  <2>4. \A j \in Installers : inst[j].pc \in {"waiting", "granted"} => inst[j].claim \in Claims
    BY <1>1 DEF Inv, Granted, Installs, Claims
  <2>. QED
    BY <1>1, <2>1, <2>2, <2>3, <2>4 DEF GivenOnce
<1>3. CASE Leaves(i, hist) /\ UNCHANGED token
  BY <1>3, LeavingWaitsNot DEF Leaves
<1>. QED
  BY <1>2, <1>3 DEF Decline

LEMMA GivenOnceStep == ASSUME Inv, GivenOnce, [Next]_vars PROVE GivenOnce'
<1>1. inst \in [Installers -> Installs]
  BY DEF Inv, TypeOK
<1>2. ASSUME UNCHANGED <<inst, token>> PROVE GivenOnce'
  BY <1>2 DEF GivenOnce
<1>3. CASE Create \/ View \/ Deny \/ Evict \/ UNCHANGED vars
  BY <1>2, <1>3 DEF Create, View, Deny, Evict, vars
<1>4. ASSUME NEW t \in Tabs, StartApproval(t) \/ FailApproval(t) \/ Misconfirm(t) \/ Approve(t)
      PROVE  GivenOnce'
  BY <1>2, <1>4 DEF StartApproval, FailApproval, Misconfirm, Approve
<1>5. ASSUME NEW i \in Installers, NEW m \in Modes, ClaimTaken(i, m) \/ ClaimFails(i, m)
      PROVE  GivenOnce'
  BY <1>5, LeavingWaitsNot DEF ClaimTaken, ClaimFails, Leaves
<1>6. ASSUME NEW i \in Installers, ClaimUnknown(i) \/ Interrupt(i) \/ GiveUp(i) \/ Fail(i) \/ LearnDenied(i)
                                   \/ Keep(i) \/ Cancel(i)
      PROVE  GivenOnce'
  BY <1>6, LeavingWaitsNot DEF ClaimUnknown, Interrupt, GiveUp, Fail, LearnDenied, Keep, Cancel, Leaves
<1>7. ASSUME NEW i \in Installers, Poll(i) PROVE GivenOnce'
  <2>1. UNCHANGED token /\ inst[i].pc = "waiting" /\ inst[i] \in Installs
    BY <1>1, <1>7 DEF Poll
  <2>2. CASE inst' = [inst EXCEPT ![i].pc = "granted"]
    <3>1. inst' = [inst EXCEPT ![i] = [inst[i] EXCEPT !.pc = "granted"]]
      BY <1>1, <2>2
    <3>2. [inst[i] EXCEPT !.pc = "granted"].claim = inst[i].claim
      BY <2>1 DEF Installs
    <3>. QED
      BY <2>1, <3>1, <3>2, GoingOn
  <2>3. CASE Leaves(i, hist)
    BY <2>1, <2>3, LeavingWaitsNot DEF Leaves
  <2>. QED
    BY <1>7, <2>2, <2>3 DEF Poll
<1>8. ASSUME NEW i \in Installers, NEW c \in Claims, Exchange(i, c) PROVE GivenOnce'
  <2>1. UNCHANGED token /\ inst[i].pc = "waiting" /\ inst[i] \in Installs
    BY <1>1, <1>8 DEF Exchange
  <2>2. CASE inst' = [inst EXCEPT ![i].pc = "granted", ![i].sid = Found.sid]
    <3>1. inst' = [inst EXCEPT ![i] = [inst[i] EXCEPT !.pc = "granted", !.sid = Found.sid]]
      BY <1>1, <2>2
    <3>2. [inst[i] EXCEPT !.pc = "granted", !.sid = Found.sid].claim = inst[i].claim
      BY <2>1 DEF Installs
    <3>. QED
      BY <2>1, <3>1, <3>2, GoingOn
  <2>3. CASE Leaves(i, hist)
    BY <2>1, <2>3, LeavingWaitsNot DEF Leaves
  <2>4. CASE UNCHANGED inst
    BY <1>2, <2>1, <2>4
  <2>. QED
    BY <1>8, <2>2, <2>3, <2>4 DEF Exchange
<1>9. ASSUME NEW i \in Installers, Deliver(i) PROVE GivenOnce'
  <2>1. UNCHANGED token /\ inst[i] \in Installs
    BY <1>1, <1>9 DEF Deliver
  <2>2. CASE inst' = [inst EXCEPT ![i].pc = "prompt"]
    <3>1. inst' = [inst EXCEPT ![i] = [inst[i] EXCEPT !.pc = "prompt"]]
      BY <1>1, <2>2
    <3>2. [inst[i] EXCEPT !.pc = "prompt"].pc = "prompt"
      BY <2>1 DEF Installs
    <3>. QED
      BY <2>1, <3>1, <3>2, GoingOn
  <2>3. CASE Leaves(i, hist)
    BY <2>1, <2>3, LeavingWaitsNot DEF Leaves
  <2>. QED
    BY <1>9, <2>2, <2>3 DEF Deliver
<1>10. CASE Restart
  <2>1. IdleInstall.pc = "idle"
    BY DEF IdleInstall
  <2>2. /\ UNCHANGED token
        /\ \A j \in Installers : inst'[j] = IF inst[j].pc \in {"granted", "issued", "revoked"} THEN IdleInstall ELSE inst[j]
    BY <1>10 DEF Restart
  <2>. QED
    BY <2>1, <2>2, NobodyNewWaits
<1>11. CASE Tick
  <2>1. \A j \in Installers : inst'[j] = [inst[j] EXCEPT !.patience = Less(inst[j].patience)] /\ inst[j] \in Installs
    BY <1>1, <1>11 DEF Tick
  <2>2. \A j \in Installers : inst'[j].pc = inst[j].pc /\ inst'[j].claim = inst[j].claim
    BY <2>1 DEF Installs
  <2>3. UNCHANGED token
    BY <1>11 DEF Tick
  <2>. QED
    BY <2>2, <2>3, NobodyNewWaits
<1>. QED
  BY <1>3, <1>4, <1>5, <1>6, <1>7, <1>8, <1>9, <1>10, <1>11, ClaimGivenOnce, IssueGivenOnce, DeclineGivenOnce DEF Next

\* What purge and lapse leave is less: no request waits, and none leads to a
\* token, that did not before.
LEMMA LookingOpensNothing ==
    ASSUME Inv, JoinAssumption
    PROVE  /\ Found.state = "claimed" => Found = session /\ FoundFlow = flow
           /\ Found.auth => Found = session
           /\ Current.state \in {"waiting", "claimed"} => Current = session /\ CurrentFlow = flow
           /\ Current.auth => Current = session
           /\ \A c \in 0..MaxClaims : FoundFlow[c] \in {flow[c], "none"} /\ CurrentFlow[c] \in {flow[c], "none"}
<1>1. NoSession.state = "none" /\ NoSession.auth = FALSE
  BY DEF NoSession, Fresh
<1>2. session \in Sessions /\ flow \in Flows /\ flow[0] = "none" /\ session.flow \in 0..MaxClaims
  BY DEF Inv, Sound, Together, Sessions
<1>3. /\ Found.state # "none" \/ Found.auth => Found = session /\ FoundFlow = flow
      /\ FoundFlow \in Flows /\ FoundFlow[0] = "none" /\ Found.flow \in 0..MaxClaims /\ Found \in Sessions
  BY <1>1, <1>2, FoundSound DEF Found, FoundFlow, Sound, Together, Sessions
<1>4. \A c \in 0..MaxClaims : FoundFlow[c] \in {flow[c], "none"}
  BY <1>2, DropFlow DEF FoundFlow
<1>5. Overdue(Found) => Ended(Found, "expired").state = "expired" /\ Ended(Found, "expired").auth = FALSE
  BY <1>3 DEF Ended, Sessions
<1>6. \A c \in 0..MaxClaims : CurrentFlow[c] \in {FoundFlow[c], "none"}
  BY <1>3, DropFlow DEF CurrentFlow
<1>. QED
  BY <1>3, <1>4, <1>5, <1>6 DEF Current, CurrentFlow

\* A request that waits was not approved, and one that was is not waited for.
LEMMA WaitingApart ==
    ASSUME Inv, NEW c \in Claims
    PROVE  /\ Grantable(c) => c \in hist.approved
           /\ Waits(c) => c \notin hist.approved /\ ~Grantable(c) /\ hist.sidOf[c] # 0 /\ token[c] = "none"
<1>1. Grantable(c) => c \in hist.approved
  BY DEF Grantable, Inv, Sound, Together, Chosen, Granted
<1>2. Waits(c) => c \notin hist.approved /\ hist.sidOf[c] # 0
  BY DEF Waits, Inv, Sound, Together, Chosen
<1>3. token[c] # "none" => c \in hist.approved
  BY DEF Inv, TokenAsApproved
<1>. QED
  BY <1>1, <1>2, <1>3

\* A step that opens nothing closes some requests, or none.
LEMMA OpensNothing ==
    ASSUME Inv, UNCHANGED token, hist'.sidOf = hist.sidOf, hist'.approved = hist.approved,
           \A c \in Claims : (Waits(c)' => Waits(c)) /\ (Grantable(c)' => Grantable(c))
    PROVE  Grants!Next
<1>. DEFINE S == {c \in Claims : Fate(c)' # Fate(c)}
<1>1. ASSUME NEW c \in S PROVE Fate(c) \in {"waiting", "approved"} /\ Fate(c)' = "closed"
  <2>1. c \in Claims /\ Fate(c)' # Fate(c) /\ token'[c] = token[c] /\ hist'.sidOf[c] = hist.sidOf[c]
    BY <1>1
  <2>2. token[c] = "none" /\ hist.sidOf[c] # 0
    BY <2>1 DEF Fate
  <2>3. ~(Waits(c) /\ Grantable(c))
    BY <2>1, WaitingApart
  <2>. QED
    BY <2>1, <2>2, <2>3 DEF Fate
<1>2. \A c \in Claims \ S : Fate(c)' = Fate(c)
  OBVIOUS
<1>3. S \in SUBSET Claims
  OBVIOUS
<1>. HIDE DEF S
<1>4. Grants!Close(S)
  BY <1>1, <1>2, <1>3 DEF Grants!Close, Grants!InState, Grants!Turn
<1>. QED
  BY <1>3, <1>4 DEF Grants!Next

\* What a step must not do to be such a step.
LEMMA OpensNothingBy ==
    ASSUME Inv, UNCHANGED token, hist'.sidOf = hist.sidOf, hist'.approved = hist.approved,
           session'.state = "claimed" => session.state = "claimed" /\ session'.claim = session.claim,
           session'.auth => session.auth /\ session'.claim = session.claim,
           \A c \in Claims : flow'[c] = "approved" => flow[c] = "approved",
           \A i \in Installers : inst'[i].pc = "granted" =>
               Grantable(inst'[i].claim) \/ (inst[i].pc = "granted" /\ inst'[i].claim = inst[i].claim)
    PROVE  Grants!Next
<1>1. \A c \in Claims : Waits(c)' => Waits(c)
  BY DEF Waits
<1>2. \A c \in Claims : Grantable(c)' => Grantable(c)
  BY DEF Grantable
<1>. QED
  BY <1>1, <1>2, OpensNothing

\* Of the installers: nobody is granted anything.
LEMMA LeavesGrantsNothing ==
    ASSUME Inv, JoinAssumption, NEW i \in Installers, NEW h \in Histories, Leaves(i, h)
    PROVE  /\ hist'.sidOf = h.sidOf /\ hist'.approved = h.approved
           /\ \A j \in Installers : inst'[j].pc = "granted" => inst[j].pc = "granted" /\ inst'[j].claim = inst[j].claim
  BY Left DEF Alike, IdleInstall

\* The page: all but an approval.
LEMMA PageOpensNothing ==
    ASSUME Inv, JoinAssumption,
           \/ Create \/ View \/ Deny
           \/ \E t \in Tabs : StartApproval(t) \/ FailApproval(t) \/ Misconfirm(t)
    PROVE  Grants!Next
<1>1. /\ hist \in Histories /\ Current \in Sessions /\ CurrentFlow \in Flows
      /\ FoundFlow \in Flows /\ FoundFlow[0] = "none" /\ Found.flow \in 0..MaxClaims
      /\ CurrentFlow[0] = "none" /\ Current.flow \in 0..MaxClaims
  BY FoundSound, CurrentSound DEF Inv, TypeOK, Sound, Together, Sessions
<1>2. \A c \in Claims : FoundFlow[c] \in {flow[c], "none"} /\ CurrentFlow[c] \in {flow[c], "none"} /\ c \in 0..MaxClaims
  BY LookingOpensNothing DEF Claims
<1>3. /\ Current.state = "claimed" => Current = session
      /\ Current.auth => Current = session
  BY LookingOpensNothing
<1>4. CASE Create
  <2>1. /\ session' = Fresh(hist.sids + 1) /\ flow' = Dropped(FoundFlow, Found.flow) /\ UNCHANGED <<inst, token>>
        /\ hist'.sidOf = hist.sidOf /\ hist'.approved = hist.approved
    BY <1>1, <1>4 DEF Create, Histories
  <2>2. session'.state = "waiting" /\ session'.auth = FALSE
    BY <2>1 DEF Fresh
  <2>3. \A c \in Claims : Dropped(FoundFlow, Found.flow)[c] \in {FoundFlow[c], "none"}
    BY <1>1, DropFlow, Zenon
  <2>4. \A c \in Claims : flow'[c] = "approved" => flow[c] = "approved"
    BY <1>2, <2>1, <2>3
  <2>. QED
    BY <2>1, <2>2, <2>4, OpensNothingBy
<1>5. ASSUME Looked, UNCHANGED <<inst, token, hist>> PROVE Grants!Next
  BY <1>2, <1>3, <1>5, OpensNothingBy DEF Looked
<1>6. ASSUME UNCHANGED <<session, flow, inst, token, hist>> PROVE Grants!Next
  BY <1>6, OpensNothingBy
<1>7. CASE View
  BY <1>5, <1>7 DEF View
<1>8. CASE Deny
  <2>1. /\ session' = [Current EXCEPT !.state = "denied"] /\ UNCHANGED <<inst, token, hist>>
        /\ flow' = CurrentFlow \/ flow' = [CurrentFlow EXCEPT ![Current.flow] = "denied"]
    BY <1>8 DEF Deny
  <2>2. session'.state = "denied" /\ session'.auth = Current.auth /\ session'.claim = Current.claim
    BY <1>1, <2>1 DEF Sessions
  <2>3. \A c \in Claims : flow'[c] = "approved" => CurrentFlow[c] = "approved"
    BY <1>1, <2>1 DEF Flows, Claims
  <2>. QED
    BY <1>2, <1>3, <2>1, <2>2, <2>3, OpensNothingBy
<1>9. ASSUME NEW t \in Tabs, StartApproval(t) \/ FailApproval(t) PROVE Grants!Next
  BY <1>5, <1>6, <1>9 DEF StartApproval, FailApproval
<1>10. ASSUME NEW t \in Tabs, Misconfirm(t) PROVE Grants!Next
  <2>. DEFINE u == [Current EXCEPT !.fails = Current.fails + 1]
  <2>1. /\ Current.state = "claimed" /\ UNCHANGED <<inst, token>>
        /\ hist' = [hist EXCEPT !.wrong = hist.wrong + 1]
        /\ \/ session' = Ended(u, "compromised") /\ flow' = Dropped(CurrentFlow, u.flow)
           \/ session' = u /\ flow' = CurrentFlow
    BY <1>10 DEF Misconfirm, SameRequest, Decidable, Shown
  <2>2. /\ u.state = Current.state /\ u.auth = Current.auth /\ u.claim = Current.claim /\ u.flow = Current.flow
        /\ Ended(u, "compromised").state = "compromised" /\ Ended(u, "compromised").auth = FALSE
    BY <1>1 DEF Sessions, Ended
  <2>. HIDE DEF u
  <2>3. hist'.sidOf = hist.sidOf /\ hist'.approved = hist.approved
    BY <1>1, <2>1 DEF Histories
  <2>4. \A c \in Claims : flow'[c] \in {CurrentFlow[c], "none"}
    BY <1>1, <2>1, <2>2, DropFlow
  <2>. QED
    BY <1>2, <1>3, <2>1, <2>2, <2>3, <2>4, OpensNothingBy
<1>. QED
  BY <1>4, <1>7, <1>8, <1>9, <1>10

\* Approve: the request that waits, as none of its code was approved before.
LEMMA ApproveApproves ==
    ASSUME Inv, JoinAssumption, NEW t \in Tabs, Approve(t)
    PROVE  Grants!Next
<1>. PICK c \in Claims : c = tab[t]
  BY CheckedTab DEF Approve
<1>1. /\ Decidable(c) /\ hist' = [hist EXCEPT !.approved = hist.approved \union {c}] /\ UNCHANGED <<inst, token>>
      /\ IF Current.mode = "code"
         THEN session' = [Current EXCEPT !.state = "approved"] /\ flow' = [CurrentFlow EXCEPT ![Current.flow] = "approved"]
         ELSE session' = [Current EXCEPT !.state = "approved", !.auth = TRUE, !.authLeft = AuthTTL] /\ flow' = CurrentFlow
  BY DEF Approve, SameRequest
<1>2. /\ Current.state = "claimed" /\ c = Current.claim /\ c \in Claims
      /\ Current \in Sessions /\ CurrentFlow \in Flows /\ (Current.mode = "code" => Current.flow = c)
      /\ hist.sidOf[c] = Current.sid /\ Current.sid # 0 /\ ~Current.auth
  BY <1>1, DecidableIs
<1>3. Current = session /\ CurrentFlow = flow
  BY <1>2, LookingOpensNothing
<1>4. /\ Waits(c) /\ c \notin hist.approved /\ token[c] = "none" /\ \A d \in Claims : Waits(d) => d = c
  BY <1>2, <1>3, WaitingApart DEF Waits
<1>5. /\ hist'.sidOf = hist.sidOf /\ hist'.approved = hist.approved \union {c} /\ hist \in Histories
  BY <1>1 DEF Inv, TypeOK, Histories
<1>6. /\ session'.state = "approved" /\ session'.claim = c
      /\ \A d \in Claims : d # c => flow'[d] = flow[d]
      /\ flow'[c] = "approved" \/ session'.auth
  <2>1. CASE Current.mode = "code"
    <3>1. session' = [session EXCEPT !.state = "approved"] /\ flow' = [flow EXCEPT ![c] = "approved"]
      BY <1>1, <1>2, <1>3, <2>1
    <3>. QED
      BY <1>2, <1>3, <3>1 DEF Sessions, Flows, Claims
  <2>2. CASE Current.mode # "code"
    <3>1. /\ session' = [session EXCEPT !.state = "approved", !.auth = TRUE, !.authLeft = AuthTTL]
          /\ flow' = flow
      BY <1>1, <1>3, <2>2
    <3>. QED
      BY <1>2, <1>3, <3>1 DEF Sessions
  <2>. QED
    BY <2>1, <2>2
<1>7. Grantable(c)' /\ ~Waits(c)'
  BY <1>6 DEF Grantable, Waits
<1>8. ASSUME NEW d \in Claims, d # c PROVE ~Waits(d)' /\ (Grantable(d)' <=> Grantable(d))
  BY <1>1, <1>2, <1>3, <1>6, <1>8 DEF Grantable, Waits
<1>9. Fate(c) = "waiting" /\ Fate(c)' = "approved"
  BY <1>1, <1>2, <1>4, <1>5, <1>7 DEF Fate
<1>10. ASSUME NEW d \in Claims, d # c PROVE Fate(d)' = Fate(d)
  BY <1>1, <1>4, <1>5, <1>8, <1>10 DEF Fate
<1>11. \A d \in hist.approved : hist.sidOf[d] # hist.sidOf[c]
  BY <1>2, <1>3 DEF Inv, Sound, Chosen
<1>12. {hist.sidOf[d] : d \in hist.approved}' = {hist.sidOf[d] : d \in hist.approved} \union {hist.sidOf[c]}
  BY <1>5
<1>13. Grants!Approve(c)
  BY <1>2, <1>5, <1>9, <1>10, <1>11, <1>12 DEF Grants!Approve, Grants!Turn
<1>. QED
  BY <1>2, <1>13 DEF Grants!Next

\* Claim: the new request, in the place of one of the same code if one waited.
LEMMA ClaimAsks ==
    ASSUME Inv, JoinAssumption, NEW i \in Installers, NEW m \in Modes, Claim(i, m)
    PROVE  Grants!Next
<1>. PICK c \in Claims :
          /\ hist.sidOf[c] = 0
          /\ session' = Claimed(Current, m, c)
          /\ flow' = LET f == Dropped(CurrentFlow, Current.flow) IN
                     IF m = "code" THEN [f EXCEPT ![c] = "pending"] ELSE f
          /\ \/ /\ inst' = [inst EXCEPT ![i] = [inst[i] EXCEPT !.pc = "waiting", !.claim = c, !.mode = m, !.patience = ClaimTTL]]
                /\ hist' = Called([hist EXCEPT !.sidOf[c] = Current.sid], i, m)
             \/ Leaves(i, Called([hist EXCEPT !.sidOf[c] = Current.sid, !.slipped = TRUE], i, m))
  BY DEF Claim
<1>1. Current.state \in {"waiting", "claimed"} /\ UNCHANGED token /\ inst[i].pc = "idle"
  BY DEF Claim, Resumed
<1>2. Current = session /\ CurrentFlow = flow
  BY <1>1, LookingOpensNothing
<1>3. /\ session \in Sessions /\ flow \in Flows /\ flow[0] = "none" /\ session.flow \in 0..MaxClaims
      /\ hist \in Histories /\ inst \in [Installers -> Installs] /\ session.sid # 0 /\ session.sid \in Sids
      /\ session.auth = FALSE
  <2>1. /\ session \in Sessions /\ flow \in Flows /\ flow[0] = "none" /\ hist \in Histories
        /\ inst \in [Installers -> Installs] /\ session.sid # 0
        /\ session.auth => session.state = "approved"
    BY <1>1, <1>2, Zenon DEF Inv, TypeOK, Sound, Together
  <2>. QED
    BY <1>1, <1>2, <2>1, Limits DEF Sessions, Sids
<1>4. /\ session'.state = "claimed" /\ session'.claim = c /\ session'.auth = FALSE
  BY <1>2, <1>3 DEF Claimed, Sessions
<1>5. hist'.sidOf = [hist.sidOf EXCEPT ![c] = session.sid] /\ hist'.approved = hist.approved
  <2>1. CASE hist' = Called([hist EXCEPT !.sidOf[c] = Current.sid], i, m)
    BY <1>2, <1>3, <2>1 DEF Called, Histories
  <2>2. CASE Leaves(i, Called([hist EXCEPT !.sidOf[c] = Current.sid, !.slipped = TRUE], i, m))
    BY <1>2, <1>3, <2>2 DEF Called, Leaves, Histories
  <2>. QED
    BY <2>1, <2>2
<1>6. \A d \in Claims : d # c => flow'[d] \in {flow[d], "none"}
  BY <1>2, <1>3, DropFlow DEF Flows, Claims
<1>7. \A d \in Claims : flow[d] # "approved"
  BY <1>1, <1>2 DEF Inv, Sound, Together
<1>8. /\ \A j \in Installers : inst'[j].pc = "granted" <=> inst[j].pc = "granted"
      /\ \A j \in Installers : inst[j].pc = "granted" => inst'[j] = inst[j]
  <2>1. CASE inst' = [inst EXCEPT ![i] = [inst[i] EXCEPT !.pc = "waiting", !.claim = c, !.mode = m, !.patience = ClaimTTL]]
    <3>1. [inst[i] EXCEPT !.pc = "waiting", !.claim = c, !.mode = m, !.patience = ClaimTTL].pc = "waiting"
      BY <1>3 DEF Installs
    <3>. QED
      BY <1>1, <1>3, <2>1, <3>1
  <2>2. CASE inst' = [inst EXCEPT ![i] = IdleInstall]
    <3>1. IdleInstall.pc = "idle"
      BY DEF IdleInstall
    <3>. QED
      BY <1>1, <1>3, <2>2, <3>1
  <2>. QED
    BY <2>1, <2>2 DEF Leaves
<1>9. \A j \in Installers : inst[j].pc = "granted" => inst[j].claim # c
  BY DEF Inv, Granted
<1>10. \A d \in Claims : d # c => ~Waits(d)' /\ (Grantable(d)' <=> Grantable(d))
  BY <1>3, <1>4, <1>6, <1>7, <1>8 DEF Waits, Grantable
<1>11. Waits(c)' /\ token[c] = "none"
  BY <1>4, NewHasNoToken DEF Waits
<1>12. Fate(c) = "none" /\ Fate(c)' = "waiting"
  BY <1>1, <1>3, <1>5, <1>11 DEF Fate, Histories, Sids
<1>13. ASSUME NEW d \in Claims, d # c, Fate(d) # "waiting" PROVE Fate(d)' = Fate(d)
  <2>1. token'[d] = token[d] /\ hist'.sidOf[d] = hist.sidOf[d]
    BY <1>1, <1>3, <1>5, <1>13 DEF Histories
  <2>. QED
    BY <1>10, <1>13, <2>1 DEF Fate
<1>14. ASSUME NEW d \in Claims, Fate(d) = "waiting"
       PROVE  Fate(d)' = "closed" /\ hist.sidOf[d] = session.sid /\ d # c
  <2>1. token \in [Claims -> {"none", "valid", "revoked"}]
    BY DEF Inv, TypeOK
  <2>2. Waits(d) /\ token[d] = "none" /\ hist.sidOf[d] # 0
    BY <1>14, <2>1 DEF Fate
  <2>3. hist.sidOf[d] = session.sid /\ d # c
    BY <2>2 DEF Waits, Inv, Sound, Chosen
  <2>4. ~Grantable(d) /\ ~Grantable(d)' /\ ~Waits(d)'
    BY <1>10, <2>2, <2>3, WaitingApart
  <2>5. token'[d] = "none" /\ hist'.sidOf[d] # 0
    BY <1>1, <1>3, <1>5, <2>2, <2>3 DEF Histories
  <2>. QED
    BY <2>3, <2>4, <2>5 DEF Fate
<1>15. \A d \in hist.approved : hist.sidOf[d] # session.sid
  BY <1>1, <1>2 DEF Inv, Sound, Chosen
<1>16. {hist.sidOf[d] : d \in hist.approved}' = {hist.sidOf[d] : d \in hist.approved}
  <2>1. \A d \in hist.approved : d \in Claims /\ d # c
    BY <1>3 DEF Inv, Sound, Chosen, Histories
  <2>. QED
    BY <1>3, <1>5, <2>1 DEF Histories
<1>17. Grants!Ask(c, session.sid)
  <2>. DEFINE waiting == {d \in Claims : Fate(d) = "waiting"}
              turned == [d \in Claims |-> IF d \in waiting THEN "closed" ELSE Fate(d)]
  <2>1. [d \in Claims |-> Fate(d)]' = [turned EXCEPT ![c] = "waiting"]
    BY <1>12, <1>13, <1>14
  <2>2. session.sid \notin {hist.sidOf[d] : d \in hist.approved}
    BY <1>15
  <2>. QED
    BY <1>5, <1>12, <1>14, <1>16, <2>1, <2>2 DEF Grants!Ask, Grants!Turn, Grants!InState
<1>. QED
  BY <1>3, <1>17 DEF Grants!Next

\* An installer that leaves, if the call it made opens nothing.
LEMMA LeavingOpensNothing ==
    ASSUME Inv, JoinAssumption, NEW i \in Installers, NEW h, Leaves(i, h), h = hist \/ \E m \in Modes : h = Called(hist, i, m),
           UNCHANGED token,
           session'.state = "claimed" => session.state = "claimed" /\ session'.claim = session.claim,
           session'.auth => session.auth /\ session'.claim = session.claim,
           \A c \in Claims : flow'[c] = "approved" => flow[c] = "approved"
    PROVE  Grants!Next
<1>1. h \in Histories /\ h.sidOf = hist.sidOf /\ h.approved = hist.approved
  <2>1. hist \in Histories
    BY DEF Inv, TypeOK
  <2>2. ASSUME NEW m \in Modes, h = Called(hist, i, m)
        PROVE  h \in Histories /\ h.sidOf = hist.sidOf /\ h.approved = hist.approved
    <3>1. h = [hist EXCEPT !.callers = hist.callers \union {<<i, m>>}]
      BY <2>2 DEF Called
    <3>2. hist.callers \union {<<i, m>>} \in SUBSET (Installers \X Modes)
      BY <2>1 DEF Histories
    <3>3. h \in Histories
      BY <2>1, <3>1, <3>2, Zenon DEF Histories
    <3>. QED
      BY <2>1, <3>1, <3>3 DEF Histories
  <2>. QED
    BY <2>1, <2>2
<1>2. /\ hist'.sidOf = hist.sidOf /\ hist'.approved = hist.approved
      /\ \A j \in Installers : inst'[j].pc = "granted" => inst[j].pc = "granted" /\ inst'[j].claim = inst[j].claim
  BY <1>1, LeavesGrantsNothing
<1>. QED
  BY <1>2, OpensNothingBy

\* The calls to Claim that start nothing.
LEMMA ClaimOpensNothing ==
    ASSUME Inv, JoinAssumption, NEW i \in Installers,
           ClaimUnknown(i) \/ \E m \in Modes : ClaimTaken(i, m) \/ ClaimFails(i, m)
    PROVE  Grants!Next
<1>1. Current \in Sessions /\ CurrentFlow \in Flows /\ CurrentFlow[0] = "none" /\ Current.flow \in 0..MaxClaims
  BY CurrentSound DEF Sound, Together, Sessions
<1>2. \A c \in Claims : CurrentFlow[c] = "approved" => flow[c] = "approved"
  BY LookingOpensNothing DEF Claims
<1>3. Current.state = "claimed" \/ Current.auth => Current = session
  BY LookingOpensNothing
<1>4. ASSUME Looked
      PROVE  /\ session'.state = "claimed" => session.state = "claimed" /\ session'.claim = session.claim
             /\ session'.auth => session.auth /\ session'.claim = session.claim
             /\ \A c \in Claims : flow'[c] = "approved" => flow[c] = "approved"
  BY <1>2, <1>3, <1>4 DEF Looked
<1>5. ASSUME NEW state \in {"compromised", "expired"},
             session' = Ended(Current, state), flow' = Dropped(CurrentFlow, Current.flow)
      PROVE  /\ session'.state = "claimed" => session.state = "claimed" /\ session'.claim = session.claim
             /\ session'.auth => session.auth /\ session'.claim = session.claim
             /\ \A c \in Claims : flow'[c] = "approved" => flow[c] = "approved"
  <2>1. Ended(Current, state).state = state /\ Ended(Current, state).auth = FALSE
    BY <1>1 DEF Sessions, Ended
  <2>2. \A c \in Claims : Dropped(CurrentFlow, Current.flow)[c] \in {CurrentFlow[c], "none"}
    BY <1>1, DropFlow, Zenon
  <2>. QED
    BY <1>2, <1>5, <2>1, <2>2
<1>6. CASE ClaimUnknown(i)
  BY <1>4, <1>6, LeavingOpensNothing DEF ClaimUnknown
<1>7. ASSUME NEW m \in Modes, ClaimTaken(i, m) PROVE Grants!Next
  <2>1. Leaves(i, Called(hist, i, m)) /\ UNCHANGED token
    BY <1>7 DEF ClaimTaken
  <2>2. Looked \/ (session' = Ended(Current, "compromised") /\ flow' = Dropped(CurrentFlow, Current.flow))
    BY <1>7 DEF ClaimTaken, Looked
  <2>3. CASE Looked
    BY <1>4, <2>1, <2>3, LeavingOpensNothing
  <2>4. CASE session' = Ended(Current, "compromised") /\ flow' = Dropped(CurrentFlow, Current.flow)
    BY <1>5, <2>1, <2>4, LeavingOpensNothing
  <2>. QED
    BY <2>2, <2>3, <2>4
<1>8. ASSUME NEW m \in Modes, ClaimFails(i, m) PROVE Grants!Next
  <2>1. Leaves(i, hist) /\ UNCHANGED token
    BY <1>8 DEF ClaimFails
  <2>2. Looked \/ (session' = Ended(Current, "expired") /\ flow' = Dropped(CurrentFlow, Current.flow))
    BY <1>8 DEF ClaimFails
  <2>3. CASE Looked
    BY <1>4, <2>1, <2>3, LeavingOpensNothing
  <2>4. CASE session' = Ended(Current, "expired") /\ flow' = Dropped(CurrentFlow, Current.flow)
    BY <1>5, <2>1, <2>4, LeavingOpensNothing
  <2>. QED
    BY <2>2, <2>3, <2>4
<1>. QED
  BY <1>6, <1>7, <1>8

\* What is granted was approved: a poll finds the flow, an exchange the code.
LEMMA PollOpensNothing ==
    ASSUME Inv, JoinAssumption, NEW i \in Installers, Poll(i)
    PROVE  Grants!Next
<1>. DEFINE c == inst[i].claim
<1>1. /\ inst[i].pc = "waiting" /\ inst[i] \in Installs /\ inst \in [Installers -> Installs]
      /\ c \in Claims /\ c \in 0..MaxClaims
      /\ flow \in Flows /\ flow[0] = "none"
  BY DEF Poll, Inv, TypeOK, Sound, Together, Granted, Installs, Claims
<1>2. UNCHANGED <<session, token>> /\ flow' = Dropped(flow, c)
  BY DEF Poll
<1>3. \A d \in Claims : flow'[d] = "approved" => flow[d] = "approved"
  <2>1. \A d \in Claims : Dropped(flow, c)[d] \in {flow[d], "none"}
    BY <1>1, DropFlow, Zenon
  <2>. QED
    BY <1>2, <2>1
<1>4. CASE FoundFlow[c] = "approved" /\ inst' = [inst EXCEPT ![i].pc = "granted"] /\ UNCHANGED hist
  <2>1. flow[c] = "approved"
    BY <1>1, <1>4, LookingOpensNothing
  <2>2. [inst[i] EXCEPT !.pc = "granted"].claim = c
    BY <1>1 DEF Installs
  <2>3. \A j \in Installers : inst'[j] = IF j = i THEN [inst[i] EXCEPT !.pc = "granted"] ELSE inst[j]
    BY <1>1, <1>4
  <2>4. Grantable(c)
    BY <2>1 DEF Grantable
  <2>5. \A j \in Installers : inst'[j].pc = "granted" =>
            Grantable(inst'[j].claim) \/ (inst[j].pc = "granted" /\ inst'[j].claim = inst[j].claim)
    BY <2>2, <2>3, <2>4
  <2>. QED
    BY <1>2, <1>3, <1>4, <2>5, OpensNothingBy
<1>5. CASE Leaves(i, hist)
  BY <1>2, <1>3, <1>5, LeavingOpensNothing
<1>. QED
  BY <1>4, <1>5 DEF Poll

LEMMA ExchangeOpensNothing ==
    ASSUME Inv, JoinAssumption, NEW i \in Installers, NEW c \in Claims, Exchange(i, c)
    PROVE  Grants!Next
<1>. DEFINE known == Found.auth /\ Found.claim = c
<1>1. inst[i].pc = "waiting" /\ inst[i] \in Installs /\ inst \in [Installers -> Installs] /\ Found \in Sessions
  BY FoundSound DEF Exchange, Inv, TypeOK, Sound, Together
<1>2. /\ UNCHANGED token /\ flow' = FoundFlow /\ session' = IF known THEN [Found EXCEPT !.auth = FALSE] ELSE Found
  BY DEF Exchange
<1>3. \A d \in Claims : flow'[d] = "approved" => flow[d] = "approved"
  BY <1>2, LookingOpensNothing DEF Claims
<1>4. /\ Found.state = "claimed" => Found = session
      /\ Found.auth => Found = session
  BY LookingOpensNothing
<1>5. /\ session'.state = Found.state /\ session'.claim = Found.claim
      /\ session'.auth => Found.auth
  BY <1>1, <1>2 DEF Sessions
<1>6. CASE known /\ Found.claim = inst[i].claim /\ UNCHANGED hist
           /\ inst' = [inst EXCEPT ![i].pc = "granted", ![i].sid = Found.sid]
  <2>1. Grantable(inst[i].claim)
    BY <1>4, <1>6 DEF Grantable
  <2>2. [inst[i] EXCEPT !.pc = "granted", !.sid = Found.sid].claim = inst[i].claim
    BY <1>1 DEF Installs
  <2>3. \A j \in Installers : inst'[j] = IF j = i THEN [inst[i] EXCEPT !.pc = "granted", !.sid = Found.sid] ELSE inst[j]
    BY <1>1, <1>6
  <2>4. \A j \in Installers : inst'[j].pc = "granted" =>
            Grantable(inst'[j].claim) \/ (inst[j].pc = "granted" /\ inst'[j].claim = inst[j].claim)
    BY <2>1, <2>2, <2>3
  <2>. QED
    BY <1>2, <1>3, <1>4, <1>5, <1>6, <2>4, OpensNothingBy
<1>7. CASE Leaves(i, hist)
  BY <1>2, <1>3, <1>4, <1>5, <1>7, LeavingOpensNothing
<1>8. CASE UNCHANGED <<inst, hist>>
  BY <1>2, <1>3, <1>4, <1>5, <1>8, OpensNothingBy
<1>. QED
  BY <1>6, <1>7, <1>8 DEF Exchange

\* A signal, the end of the wait, an error, a denial; the reply with the token,
\* and what the person makes of it.
LEMMA InstallerOpensNothing ==
    ASSUME Inv, JoinAssumption, NEW i \in Installers,
           \/ Interrupt(i) \/ GiveUp(i) \/ Fail(i) \/ LearnDenied(i) \/ Deliver(i) \/ Keep(i) \/ Cancel(i)
    PROVE  Grants!Next
<1>1. session \in Sessions /\ inst \in [Installers -> Installs] /\ inst[i] \in Installs
  BY DEF Inv, TypeOK
<1>2. IdleInstall.pc = "idle"
  BY DEF IdleInstall
<1>3. CASE Interrupt(i) \/ GiveUp(i)
  <2>1. UNCHANGED <<session, flow, token, hist>> /\ inst' = [inst EXCEPT ![i] = IdleInstall]
    BY <1>3 DEF Interrupt, GiveUp
  <2>2. \A j \in Installers : inst'[j].pc = "granted" => inst[j].pc = "granted" /\ inst'[j].claim = inst[j].claim
    BY <1>1, <1>2, <2>1
  <2>. QED
    BY <2>1, <2>2, OpensNothingBy
<1>4. CASE Fail(i) \/ LearnDenied(i) \/ Keep(i)
  <2>1. UNCHANGED <<session, flow, token>> /\ Leaves(i, hist)
    BY <1>4 DEF Fail, LearnDenied, Keep
  <2>. QED
    BY <2>1, LeavingOpensNothing
<1>5. CASE Deliver(i) \/ Cancel(i)
  <2>1. /\ UNCHANGED <<flow, token>>
        /\ \/ Leaves(i, hist)
           \/ UNCHANGED hist /\ inst' = [inst EXCEPT ![i].pc = "prompt"]
        /\ \/ session' = session
           \/ \E state \in {"connected", "denied"} : session' = [session EXCEPT !.state = state]
    BY <1>5 DEF Deliver, Cancel
  <2>2. /\ session'.state = "claimed" => session.state = "claimed" /\ session'.claim = session.claim
        /\ session'.auth => session.auth /\ session'.claim = session.claim
    BY <1>1, <2>1 DEF Sessions
  <2>3. CASE Leaves(i, hist)
    BY <2>1, <2>2, <2>3, LeavingOpensNothing
  <2>4. CASE UNCHANGED hist /\ inst' = [inst EXCEPT ![i].pc = "prompt"]
    <3>1. [inst[i] EXCEPT !.pc = "prompt"].pc = "prompt"
      BY <1>1 DEF Installs
    <3>2. \A j \in Installers : inst'[j].pc = "granted" => inst[j].pc = "granted" /\ inst'[j].claim = inst[j].claim
      BY <1>1, <2>4, <3>1
    <3>. QED
      BY <2>1, <2>2, <2>4, <3>2, OpensNothingBy
  <2>. QED
    BY <2>1, <2>3, <2>4
<1>. QED
  BY <1>3, <1>4, <1>5

\* The server and the time.
LEMMA ServerOpensNothing ==
    ASSUME Inv, JoinAssumption, Restart \/ Evict \/ Tick
    PROVE  Grants!Next
<1>1. /\ session \in Sessions /\ inst \in [Installers -> Installs] /\ flow \in Flows /\ flow[0] = "none"
      /\ session.flow \in 0..MaxClaims
      /\ FoundFlow \in Flows /\ FoundFlow[0] = "none" /\ Found.flow \in 0..MaxClaims
  BY FoundSound DEF Inv, TypeOK, Sound, Together, Sessions
<1>2. NoSession.state = "none" /\ NoSession.auth = FALSE /\ IdleInstall.pc = "idle"
  BY DEF NoSession, Fresh, IdleInstall
<1>3. CASE Restart
  <2>1. /\ session' = NoSession /\ \A c \in Claims : flow'[c] = "none"
        /\ \A j \in Installers : inst'[j] = IF inst[j].pc \in {"granted", "issued", "revoked"} THEN IdleInstall ELSE inst[j]
        /\ UNCHANGED <<token, hist>>
    BY <1>3 DEF Restart, Claims
  <2>2. \A j \in Installers : inst'[j].pc = "granted" => inst[j].pc = "granted" /\ inst'[j].claim = inst[j].claim
    BY <1>2, <2>1
  <2>. QED
    BY <1>2, <2>1, <2>2, OpensNothingBy
<1>4. CASE Evict
  <2>1. /\ UNCHANGED <<inst, token, hist>>
        /\ \/ session' = NoSession /\ flow' = Dropped(FoundFlow, Found.flow)
           \/ UNCHANGED session /\ flow' = Dropped(flow, session.flow)
    BY <1>4 DEF Evict
  <2>2. \A c \in Claims : Dropped(FoundFlow, Found.flow)[c] \in {FoundFlow[c], "none"}
    BY <1>1, DropFlow, Zenon
  <2>3. \A c \in Claims : Dropped(flow, session.flow)[c] \in {flow[c], "none"}
    BY <1>1, DropFlow, Zenon
  <2>4. \A c \in Claims : FoundFlow[c] \in {flow[c], "none"}
    BY LookingOpensNothing DEF Claims
  <2>5. \A c \in Claims : flow'[c] = "approved" => flow[c] = "approved"
    BY <2>1, <2>2, <2>3, <2>4
  <2>. QED
    BY <1>2, <2>1, <2>5, OpensNothingBy
<1>5. CASE Tick
  <2>1. /\ UNCHANGED <<flow, token, hist>>
        /\ \A j \in Installers : inst'[j] = [inst[j] EXCEPT !.patience = Less(inst[j].patience)] /\ inst[j] \in Installs
    BY <1>1, <1>5 DEF Tick
  <2>2. \A j \in Installers : inst'[j].pc = inst[j].pc /\ inst'[j].claim = inst[j].claim
    <3>. SUFFICES ASSUME NEW j \in Installers PROVE inst'[j].pc = inst[j].pc /\ inst'[j].claim = inst[j].claim
      OBVIOUS
    <3>1. inst'[j] = [inst[j] EXCEPT !.patience = Less(inst[j].patience)] /\ inst[j] \in Installs
      BY <2>1
    <3>. QED
      BY <3>1 DEF Installs
  <2>3. session'.state = session.state /\ session'.auth = session.auth /\ session'.claim = session.claim
    <3>1. session' = [session EXCEPT !.left = Less(session.left), !.life = Less(session.life),
                                     !.claimLeft = Less(session.claimLeft), !.authLeft = Less(session.authLeft)]
      BY <1>5 DEF Tick
    <3>. QED
      BY <1>1, <3>1 DEF Sessions
  <2>. QED
    BY <2>1, <2>2, <2>3, OpensNothingBy
<1>. QED
  BY <1>3, <1>4, <1>5

\* What a request has become is seen from its token first.
LEMMA FateOfToken ==
    ASSUME Inv, NEW c \in Claims
    PROVE  /\ token[c] \in {"none", "valid", "revoked"}
           /\ token[c] # "none" => Fate(c) = token[c]
           /\ token[c] = "none" => Fate(c) \in {"none", "waiting", "approved", "closed"}
  BY DEF Inv, TypeOK, Fate

\* Issue: the token of a request that was approved, and has none.
LEMMA IssueGives ==
    ASSUME Inv, JoinAssumption, GivenOnce, NEW i \in Installers, Issue(i)
    PROVE  Grants!Next
<1>1. inst[i].pc = "granted" /\ inst[i] \in Installs /\ inst \in [Installers -> Installs] /\ UNCHANGED <<session, flow>>
  BY DEF Issue, Inv, TypeOK
<1>. PICK c \in Claims : c = inst[i].claim
  BY <1>1 DEF Inv, Granted, Installs, Claims
<1>2. CASE /\ token' = [d \in Claims |-> IF d = inst[i].claim THEN "valid"
                                          ELSE IF token[d] = "valid" THEN "revoked" ELSE token[d]]
           /\ inst' = [inst EXCEPT ![i].pc = "issued"] /\ UNCHANGED hist
  <2>1. token[c] = "none" /\ Grantable(c) /\ hist.sidOf[c] # 0
    BY <1>1 DEF GivenOnce, Grantable, Inv, Granted
  <2>2. Fate(c) = "approved"
    BY <2>1, WaitingApart DEF Fate
  <2>3. token'[c] = "valid" /\ \A d \in Claims : d # c => token'[d] = IF token[d] = "valid" THEN "revoked" ELSE token[d]
    BY <1>2
  <2>4. Fate(c)' = "valid"
    BY <2>3 DEF Fate
  <2>5. [inst[i] EXCEPT !.pc = "issued"].pc = "issued"
    BY <1>1 DEF Installs
  <2>6. \A j \in Installers : inst'[j] = IF j = i THEN [inst[i] EXCEPT !.pc = "issued"] ELSE inst[j]
    BY <1>1, <1>2
  <2>7. ASSUME NEW d \in Claims, d # c PROVE (Waits(d)' <=> Waits(d)) /\ (Grantable(d)' <=> Grantable(d))
    BY <1>1, <2>5, <2>6, <2>7 DEF Waits, Grantable
  <2>8. ASSUME NEW d \in Claims, d # c PROVE Fate(d)' = IF Fate(d) = "valid" THEN "revoked" ELSE Fate(d)
    <3>1. CASE token[d] = "none"
      <4>1. token'[d] = "none" /\ hist'.sidOf[d] = hist.sidOf[d]
        BY <1>2, <2>3, <2>8, <3>1
      <4>2. Fate(d)' = Fate(d)
        BY <2>7, <2>8, <3>1, <4>1 DEF Fate
      <4>. QED
        BY <3>1, <4>2, FateOfToken
    <3>2. CASE token[d] # "none"
      <4>1. Fate(d) = token[d] /\ Fate(d)' = token'[d]
        BY <2>3, <2>8, <3>2 DEF Fate
      <4>. QED
        BY <2>3, <2>8, <4>1
    <3>. QED
      BY <3>1, <3>2
  <2>9. Grants!Give(c)
    <3>1. [d \in Claims |-> Fate(d)]' =
              [[d \in Claims |-> IF d \in {e \in Claims : [a \in Claims |-> Fate(a)][e] = "valid"} THEN "revoked"
                                 ELSE [a \in Claims |-> Fate(a)][d]] EXCEPT ![c] = "valid"]
      BY <2>4, <2>8
    <3>. QED
      BY <1>2, <2>2, <3>1 DEF Grants!Give, Grants!Turn, Grants!InState
  <2>. QED
    BY <2>9 DEF Grants!Next
<1>3. CASE Leaves(i, hist) /\ UNCHANGED token
  BY <1>1, <1>3, LeavingOpensNothing
<1>. QED
  BY <1>2, <1>3 DEF Issue

\* Decline: the token is revoked, if it still is the machine's.
LEMMA DeclineRevokes ==
    ASSUME Inv, JoinAssumption, NEW i \in Installers, Decline(i)
    PROVE  Grants!Next
<1>1. inst[i].pc = "prompt" /\ inst[i] \in Installs /\ inst \in [Installers -> Installs] /\ UNCHANGED <<session, flow>>
  BY DEF Decline, Inv, TypeOK
<1>. PICK c \in Claims : c = inst[i].claim
  BY <1>1 DEF Inv, Granted, Installs, Claims
<1>2. CASE /\ token[inst[i].claim] = "valid" /\ token' = [token EXCEPT ![inst[i].claim] = "revoked"]
           /\ inst' = [inst EXCEPT ![i].pc = "revoked"] /\ UNCHANGED hist
  <2>1. token'[c] = "revoked" /\ \A d \in Claims : d # c => token'[d] = token[d]
    BY <1>2 DEF Inv, TypeOK
  <2>2. Fate(c) = "valid" /\ Fate(c)' = "revoked"
    BY <1>2, <2>1 DEF Fate
  <2>3. [inst[i] EXCEPT !.pc = "revoked"].pc = "revoked"
    BY <1>1 DEF Installs
  <2>4. \A j \in Installers : inst'[j] = IF j = i THEN [inst[i] EXCEPT !.pc = "revoked"] ELSE inst[j]
    BY <1>1, <1>2
  <2>5. ASSUME NEW d \in Claims PROVE (Waits(d)' <=> Waits(d)) /\ (Grantable(d)' <=> Grantable(d))
    BY <1>1, <2>3, <2>4 DEF Waits, Grantable
  <2>6. ASSUME NEW d \in Claims, d # c PROVE Fate(d)' = Fate(d)
    BY <1>2, <2>1, <2>5, <2>6 DEF Fate
  <2>7. Grants!Revoke(c)
    BY <1>2, <2>2, <2>6 DEF Grants!Revoke, Grants!Turn
  <2>. QED
    BY <2>7 DEF Grants!Next
<1>3. CASE Leaves(i, hist) /\ UNCHANGED token
  BY <1>1, <1>3, LeavingOpensNothing
<1>. QED
  BY <1>2, <1>3 DEF Decline

\* Every step is one of the promised ones, or none.
LEMMA StepGrants == ASSUME JoinAssumption, Inv, GivenOnce, [Next]_vars PROVE [Grants!Next]_(Grants!vars)
<1>1. CASE \/ Create \/ View \/ Deny
           \/ \E t \in Tabs : StartApproval(t) \/ FailApproval(t) \/ Misconfirm(t) \/ Approve(t)
  BY <1>1, PageOpensNothing, ApproveApproves
<1>2. CASE \E i \in Installers : ClaimUnknown(i) \/ \E m \in Modes : Claim(i, m) \/ ClaimTaken(i, m) \/ ClaimFails(i, m)
  BY <1>2, ClaimAsks, ClaimOpensNothing
<1>3. CASE \E i \in Installers : Poll(i) \/ \E c \in Claims : Exchange(i, c)
  BY <1>3, PollOpensNothing, ExchangeOpensNothing
<1>4. CASE \E i \in Installers : Interrupt(i) \/ GiveUp(i) \/ Fail(i) \/ LearnDenied(i) \/ Deliver(i) \/ Keep(i) \/ Cancel(i)
  BY <1>4, InstallerOpensNothing
<1>5. CASE \E i \in Installers : Issue(i) \/ Decline(i)
  BY <1>5, IssueGives, DeclineRevokes
<1>6. CASE Restart \/ Evict \/ Tick
  BY <1>6, ServerOpensNothing
<1>7. CASE UNCHANGED vars
  BY <1>7 DEF vars, Grants!vars, Fate, Waits, Grantable
<1>. QED
  BY <1>1, <1>2, <1>3, <1>4, <1>5, <1>6, <1>7 DEF Next

\* Nothing is asked for at the beginning.
LEMMA InitGrants == ASSUME JoinAssumption, Init PROVE Grants!Init /\ GivenOnce
<1>1. hist.sidOf = [c \in Claims |-> 0] /\ hist.approved = {} /\ \A c \in Claims : token[c] = "none"
  BY DEF Init
<1>2. \A c \in Claims : Fate(c) = "none"
  BY <1>1 DEF Fate
<1>3. Grants!Init
  BY <1>1, <1>2 DEF Grants!Init
<1>4. \A i \in Installers : inst[i].pc = "idle"
  BY DEF Init, IdleInstall
<1>. QED
  BY <1>3, <1>4 DEF GivenOnce

\* A pairing does what PairingGrants promises (joinsession.go, device.go), for
\* any number of installers, tabs, codes and claims: a request that was denied,
\* replaced, discarded, evicted, or lost with the server stays closed, one
\* request of a code is approved at most, and only that one gets a token, once,
\* in the place of the machine's earlier one.
THEOREM PairingKeepsItsPromise == Spec => GrantsAsPromised
<1>1. Init => Grants!Init /\ GivenOnce
  BY InitGrants, JoinAssumption
<1>2. Inv /\ GivenOnce /\ [Next]_vars => GivenOnce'
  BY GivenOnceStep
<1>3. Inv /\ GivenOnce /\ [Next]_vars => [Grants!Next]_(Grants!vars)
  BY StepGrants, JoinAssumption
<1>. QED
  BY <1>1, <1>2, <1>3, Invariance, PTL DEF Spec, GrantsAsPromised, Grants!Spec

=============================================================================
