---------------------------- MODULE JoinSessions ----------------------------
(***************************************************************************)
(* Connecting a machine to an account (src/internal/store/joinsession.go,  *)
(* device.go): the account's page shows a pairing code, "ctx join" on the  *)
(* machine claims it, the person approves on the page, and the installer   *)
(* gets its token, with a code of the loopback or paste way or by polling  *)
(* the device flow.  One account; installers of one machine name; the page *)
(* may be open in several tabs; the server keeps everything but the tokens *)
(* in memory.  Every call of JoinSessions runs under its lock and is one   *)
(* action, except Decide, which looks up the machine name without it.      *)
(*                                                                         *)
(* The number of a claim stands for what Claim makes up for it: the nonce, *)
(* the resume token, the device code and its confirmation code, and for    *)
(* the installer's code verifier and the code that is made for it.         *)
(***************************************************************************)
EXTENDS Integers, FiniteSets

CONSTANTS
    Installers,
    Tabs,             \* browser tabs of the account
    MaxSessions,      \* bound: pairing codes
    MaxClaims,        \* bound: claims that are accepted
    MaxEvents,        \* bound: restarts, evictions, lost replies and failed calls
    \* JoinSessionTTL, JoinMaxLifetime, JoinClaimTTL, joinAuthTTL, joinResumeTTL
    SessionTTL, MaxLifetime, ClaimTTL, AuthTTL, ResumeTTL,
    MaxConfirmFails   \* maxJoinConfirmFails

ASSUME JoinAssumption ==
    /\ \A n \in {MaxSessions, MaxClaims, MaxEvents} : n \in Nat
    /\ \A n \in {SessionTTL, MaxLifetime, ClaimTTL, AuthTTL, ResumeTTL, MaxConfirmFails} : n \in Nat \ {0}
    /\ ClaimTTL <= ResumeTTL /\ SessionTTL <= MaxLifetime

VARIABLES
    session,   \* the session of the account, see Sessions
    flow,      \* the device flows that claims started
    tab,       \* the claim each tab is approving, or 0
    seen,      \* claims a page has shown for decision
    inst,      \* the installers and the calls they wait for, see Installs
    file,      \* join-resume.json of each installer
    token,     \* device tokens, by the claim they were made for
    hist,      \* history, see Histories
    events

vars == <<session, flow, tab, seen, inst, file, token, hist, events>>

Sids == 1..MaxSessions
Claims == 1..MaxClaims
Modes == {"auth", "code"}    \* loopback and paste; code

\* left, life, claimLeft, authLeft: time until expires, until created +
\* JoinMaxLifetime, claimExpires and authExpires.  claim: nonce and challenge;
\* resume, flow: resumeHash and deviceHash, 0 for ""; auth: authHash is set.
Sessions == [state : {"none", "waiting", "claimed", "approved", "denied", "connected", "compromised", "expired"},
             sid : 0..MaxSessions, mode : Modes, claim : 0..MaxClaims, resume : 0..MaxClaims,
             flow : 0..MaxClaims, auth : BOOLEAN, fails : 0..MaxConfirmFails,
             left : 0..MaxLifetime, life : 0..MaxLifetime, claimLeft : 0..ClaimTTL, authLeft : 0..AuthTTL]

Fresh(sid) == [state |-> "waiting", sid |-> sid, mode |-> "auth", claim |-> 0, resume |-> 0,
               flow |-> 0, auth |-> FALSE, fails |-> 0,
               left |-> SessionTTL, life |-> MaxLifetime, claimLeft |-> 0, authLeft |-> 0]

NoSession == [Fresh(0) EXCEPT !.state = "none", !.left = 0, !.life = 0]

\* "granted": the server goes on to make the token; "issued": the token is
\* made; "prompt": the installer has it and asks; "revoked": the server revoked
\* it.  sid is the grant's, patience what is left of the wait.
Installs == [pc : {"idle", "waiting", "granted", "issued", "prompt", "revoked"},
             claim : 0..MaxClaims, mode : Modes, sid : 0..MaxSessions, patience : 0..ClaimTTL]

IdleInstall == [pc |-> "idle", claim |-> 0, mode |-> "auth", sid |-> 0, patience |-> 0]

Files == [sid : 0..MaxSessions, claim : 0..MaxClaims, left : 0..ResumeTTL]

NoFile == [sid |-> 0, claim |-> 0, left |-> 0]

\* sids, sidOf: codes made, and the code of each claim.  approved: claims as
\* the tabs named them.  wrong, callers, slipped, of the session at hand: wrong
\* confirmations; who called Claim with its code; whether an installer that
\* waited for it ended by itself or missed the reply.
Histories == [sids : 0..MaxSessions, sidOf : [Claims -> 0..MaxSessions], approved : SUBSET Claims,
              wrong : Nat, callers : SUBSET (Installers \X Modes), slipped : BOOLEAN]

FlowStates == {"none", "pending", "approved", "denied"}

TypeOK ==
    /\ session \in Sessions
    /\ flow \in [0..MaxClaims -> FlowStates] /\ flow[0] = "none"
    /\ tab \in [Tabs -> 0..MaxClaims]
    /\ seen \subseteq Claims
    /\ inst \in [Installers -> Installs]
    /\ file \in [Installers -> Files]
    /\ token \in [Claims -> {"none", "valid", "revoked"}]
    /\ hist \in Histories
    /\ events \in 0..MaxEvents

Init ==
    /\ session = NoSession
    /\ flow = [c \in 0..MaxClaims |-> "none"]
    /\ tab = [t \in Tabs |-> 0]
    /\ seen = {}
    /\ inst = [i \in Installers |-> IdleInstall]
    /\ file = [i \in Installers |-> NoFile]
    /\ token = [c \in Claims |-> "none"]
    /\ hist = [sids |-> 0, sidOf |-> [c \in Claims |-> 0], approved |-> {},
               wrong |-> 0, callers |-> {}, slipped |-> FALSE]
    /\ events = 0

\* One of the events that are bounded.
Happens == events < MaxEvents /\ events' = events + 1

-----------------------------------------------------------------------------
(* The session *)

\* Mutant: the flow stays.
KeptFlow(f, c) == f

\* DropJoin
Dropped(f, c) == [f EXCEPT ![c] = "none"]

\* purge: what every call finds.  A flow started by a claim expires with its
\* session.
Found == IF session.left = 0 THEN NoSession ELSE session
FoundFlow == IF session.left = 0 THEN Dropped(flow, session.flow) ELSE flow

\* compromise, lapse
Ended(s, state) == [s EXCEPT !.state = state, !.auth = FALSE, !.flow = 0, !.resume = 0]

\* Mutant: a claim whose time is up still counts as waiting.
NeverOverdue(s) == FALSE

Overdue(s) == s.state = "claimed" /\ s.claimLeft = 0

\* What Claim and live find, after a claim whose time is up has lapsed.
Current == IF Overdue(Found) THEN Ended(Found, "expired") ELSE Found
CurrentFlow == IF Overdue(Found) THEN Dropped(FoundFlow, Found.flow) ELSE FoundFlow

\* live: what the page is told.
Shown ==
    IF \/ Current.mode = "code" /\ Current.state \in {"claimed", "approved"} /\ CurrentFlow[Current.flow] = "none"
       \/ Current.mode = "auth" /\ Current.state = "approved" /\ Current.authLeft = 0
    THEN "none" ELSE Current.state

\* The caller leaves the session as it found it.
Looked == session' = Current /\ flow' = CurrentFlow

-----------------------------------------------------------------------------
(* The page *)

\* Create: a session of the account that is there ends, with its device.
Create ==
    /\ hist.sids < MaxSessions
    /\ session' = Fresh(hist.sids + 1)
    /\ flow' = Dropped(FoundFlow, Found.flow)
    /\ hist' = [hist EXCEPT !.sids = @ + 1, !.wrong = 0, !.callers = {}, !.slipped = FALSE]
    /\ UNCHANGED <<tab, seen, inst, file, token, events>>

\* View
View ==
    /\ Looked
    /\ seen' = IF Shown = "claimed" THEN seen \union {Current.claim} ELSE seen
    /\ UNCHANGED <<hist, tab, inst, file, token, events>>

\* The page decides about the claim that waits.
Decidable(c) == Shown = "claimed" /\ c = Current.claim

\* Decide, a refusal.
Deny ==
    /\ \E c \in seen : Decidable(c)
    /\ session' = [Current EXCEPT !.state = "denied"]
    /\ flow' = IF Current.mode = "code" THEN [CurrentFlow EXCEPT ![Current.flow] = "denied"] ELSE CurrentFlow
    /\ UNCHANGED <<tab, seen, inst, file, token, hist, events>>

\* Decide, an approval: the request is looked up ...
StartApproval(t) ==
    /\ tab[t] = 0
    /\ \E c \in seen : Decidable(c) /\ tab' = [tab EXCEPT ![t] = c]
    /\ Looked
    /\ UNCHANGED <<seen, inst, file, token, hist, events>>

\* Mutant: the request is not looked up again.
StillThere(c) == Shown = "claimed"

\* ... the machine name is checked without the lock, and the request must
\* still be there ...
SameRequest(c) == Decidable(c)

Checked(t) == tab[t] # 0 /\ tab' = [tab EXCEPT ![t] = 0]

\* ... or the approval does nothing; likewise when the name is taken.
FailApproval(t) ==
    /\ Checked(t)
    /\ IF SameRequest(tab[t]) THEN Happens /\ UNCHANGED <<session, flow>> ELSE Looked /\ UNCHANGED events
    /\ UNCHANGED <<seen, inst, file, token, hist>>

\* A wrong confirmation code, three times at most.
Misconfirm(t) ==
    /\ Checked(t) /\ SameRequest(tab[t]) /\ Current.mode = "code"
    /\ LET s == [Current EXCEPT !.fails = @ + 1] IN
       IF s.fails >= MaxConfirmFails
       THEN session' = Ended(s, "compromised") /\ flow' = Dropped(CurrentFlow, s.flow)
       ELSE session' = s /\ flow' = CurrentFlow
    /\ hist' = [hist EXCEPT !.wrong = @ + 1]
    /\ UNCHANGED <<seen, inst, file, token, events>>

\* The code way approves the device flow, the other ways make a code.
Approve(t) ==
    /\ Checked(t) /\ SameRequest(tab[t])
    /\ IF Current.mode = "code"
       THEN /\ session' = [Current EXCEPT !.state = "approved"]
            /\ flow' = [CurrentFlow EXCEPT ![Current.flow] = "approved"]
       ELSE /\ session' = [Current EXCEPT !.state = "approved", !.auth = TRUE, !.authLeft = AuthTTL]
            /\ flow' = CurrentFlow
    /\ hist' = [hist EXCEPT !.approved = @ \union {tab[t]}]
    /\ UNCHANGED <<seen, inst, file, token, events>>

-----------------------------------------------------------------------------
(* The installer *)

\* loadJoinResume
Resume(i, sid) == IF file[i].sid = sid /\ file[i].left > 0 THEN file[i].claim ELSE 0

\* resumedBy
Resumed(s, i, m) == s.state = "claimed" /\ s.mode = m /\ s.resume # 0 /\ s.resume = Resume(i, s.sid)

\* An installer that ends by itself removes the file, and can resume nothing.
Leaves(i, h) ==
    /\ inst' = [inst EXCEPT ![i] = IdleInstall]
    /\ file' = [file EXCEPT ![i] = NoFile]
    /\ hist' = [h EXCEPT !.slipped = @ \/ Resume(i, session.sid) # 0]

\* Who calls Claim with the code of the session.
Called(h, i, m) == [h EXCEPT !.callers = @ \union {<<i, m>>}]

\* Mutant: wrong confirmations are forgotten when a claim is resumed.
ClaimedAfresh(s, m, c) ==
    [s EXCEPT !.state = "claimed", !.mode = m, !.claim = c, !.resume = c, !.fails = 0,
              !.flow = IF m = "code" THEN c ELSE 0, !.left = s.life, !.claimLeft = ClaimTTL]

\* The session as a claim leaves it: it lives until the end of its window.
Claimed(s, m, c) ==
    [s EXCEPT !.state = "claimed", !.mode = m, !.claim = c, !.resume = c,
              !.flow = IF m = "code" THEN c ELSE 0, !.left = s.life, !.claimLeft = ClaimTTL]

\* Claim of a new device, or of the one that waits after an interruption.  The
\* flow it had is dropped; whether the reply arrives or is lost.
Claim(i, m) ==
    /\ inst[i].pc = "idle"
    /\ Current.state = "waiting" \/ Resumed(Current, i, m)
    /\ \E c \in Claims :
          /\ hist.sidOf[c] = 0 /\ \A d \in 1..(c - 1) : hist.sidOf[d] # 0
          /\ session' = Claimed(Current, m, c)
          /\ flow' = LET f == Dropped(CurrentFlow, Current.flow) IN
                     IF m = "code" THEN [f EXCEPT ![c] = "pending"] ELSE f
          /\ \/ /\ inst' = [inst EXCEPT ![i] = [@ EXCEPT !.pc = "waiting", !.claim = c, !.mode = m, !.patience = ClaimTTL]]
                /\ file' = [file EXCEPT ![i] = [sid |-> Current.sid, claim |-> c, left |-> ResumeTTL]]
                /\ hist' = Called([hist EXCEPT !.sidOf[c] = Current.sid], i, m)
                /\ UNCHANGED events
             \/ /\ Happens
                /\ Leaves(i, Called([hist EXCEPT !.sidOf[c] = Current.sid, !.slipped = TRUE], i, m))
    /\ UNCHANGED <<tab, seen, token>>

\* Claim of a session that has a device already: one that waits for the
\* decision is discarded.
ClaimTaken(i, m) ==
    /\ inst[i].pc = "idle"
    /\ Current.state \in {"claimed", "approved"} /\ ~Resumed(Current, i, m)
    /\ IF Current.state = "claimed"
       THEN session' = Ended(Current, "compromised") /\ flow' = Dropped(CurrentFlow, Current.flow)
       ELSE session' = Current /\ flow' = CurrentFlow
    /\ Leaves(i, Called(hist, i, m))
    /\ UNCHANGED <<tab, seen, token, events>>

\* Claim with a code that is not known (any more).
ClaimUnknown(i) ==
    /\ inst[i].pc = "idle"
    /\ Looked
    /\ Leaves(i, hist)
    /\ UNCHANGED <<tab, seen, token, events>>

\* Claim is refused for another reason, a limit or the machine name, or its
\* device flow cannot start, after the one it resumes was dropped.
ClaimFails(i, m) ==
    /\ inst[i].pc = "idle"
    /\ Happens
    /\ \/ Looked
       \/ /\ m = "code" /\ Resumed(Current, i, m)
          /\ session' = Ended(Current, "expired") /\ flow' = Dropped(CurrentFlow, Current.flow)
    /\ Leaves(i, hist)
    /\ UNCHANGED <<tab, seen, token>>

\* A signal while it waits: the file stays.
Interrupt(i) ==
    /\ inst[i].pc = "waiting"
    /\ inst' = [inst EXCEPT ![i] = IdleInstall]
    /\ UNCHANGED <<session, flow, tab, seen, file, token, hist, events>>

\* The wait is over.
GiveUp(i) ==
    /\ inst[i].pc = "waiting"
    /\ inst[i].patience = 0
    /\ inst' = [inst EXCEPT ![i] = IdleInstall]
    /\ file' = [file EXCEPT ![i] = NoFile]
    /\ UNCHANGED <<session, flow, tab, seen, token, hist, events>>

\* An error ends the wait: a poll that fails, a line that is no code.
Fail(i) ==
    /\ inst[i].pc = "waiting"
    /\ Happens
    /\ Leaves(i, hist)
    /\ UNCHANGED <<session, flow, tab, seen, token>>

\* Poll: a flow that was decided is consumed.
Poll(i) ==
    /\ inst[i].pc = "waiting" /\ inst[i].mode = "code"
    /\ LET c == inst[i].claim IN
       /\ FoundFlow[c] # "pending"
       /\ flow' = Dropped(flow, c)
       /\ IF FoundFlow[c] = "approved"
          THEN inst' = [inst EXCEPT ![i].pc = "granted"] /\ UNCHANGED <<file, hist>>
          ELSE Leaves(i, hist)
    /\ UNCHANGED <<session, tab, seen, token, events>>

\* DeniedFor; every look ends what is overdue.
LearnDenied(i) ==
    /\ inst[i].pc = "waiting" /\ inst[i].mode = "auth"
    /\ Found.state = "denied" /\ Found.claim = inst[i].claim
    /\ Leaves(i, hist)
    /\ UNCHANGED <<session, flow, tab, seen, token, events>>

\* Exchange, with the code of claim c: the code is gone, whoever sent it.
Exchange(i, c) ==
    /\ inst[i].pc = "waiting" /\ inst[i].mode = "auth"
    /\ c \in hist.approved
    /\ flow' = FoundFlow
    /\ LET known == Found.auth /\ Found.claim = c IN
       /\ session' = IF known THEN [Found EXCEPT !.auth = FALSE] ELSE Found
       /\ IF known /\ Found.authLeft > 0 /\ Found.state = "approved" /\ Found.claim = inst[i].claim
          THEN inst' = [inst EXCEPT ![i].pc = "granted", ![i].sid = Found.sid] /\ UNCHANGED <<file, hist>>
          ELSE Leaves(i, hist) \/ UNCHANGED <<inst, file, hist>>    \* it came over the loopback; it was pasted
    /\ UNCHANGED <<tab, seen, token, events>>

\* CreateDeviceToken replaces the token of the machine, or fails.
Issue(i) ==
    /\ inst[i].pc = "granted"
    /\ \/ /\ token' = [c \in Claims |-> IF c = inst[i].claim THEN "valid"
                                        ELSE IF token[c] = "valid" THEN "revoked" ELSE token[c]]
          /\ inst' = [inst EXCEPT ![i].pc = "issued"]
          /\ UNCHANGED <<file, hist, events>>
       \/ /\ Happens
          /\ Leaves(i, hist)
          /\ UNCHANGED token
    /\ UNCHANGED <<session, flow, tab, seen>>

\* Delivered, DeliveredDevice: the session of the grant, or with that flow.
Reports(i) ==
    IF inst[i].mode = "auth" THEN session.sid = inst[i].sid ELSE session.flow = inst[i].claim

\* The reply with the token may be lost.
Deliver(i) ==
    /\ inst[i].pc = "issued"
    /\ session' = IF Reports(i) THEN [session EXCEPT !.state = "connected"] ELSE session
    /\ \/ inst' = [inst EXCEPT ![i].pc = "prompt"] /\ UNCHANGED <<file, hist, events>>
       \/ Happens /\ Leaves(i, hist)
    /\ UNCHANGED <<flow, tab, seen, token>>

\* The person keeps the connection: the configuration is written.
Keep(i) ==
    /\ inst[i].pc = "prompt"
    /\ Leaves(i, hist)
    /\ UNCHANGED <<session, flow, tab, seen, token, events>>

\* Or not: RevokeOwnToken, with the token if it is still valid, ...
Decline(i) ==
    /\ inst[i].pc = "prompt"
    /\ IF token[inst[i].claim] = "valid"
       THEN /\ token' = [token EXCEPT ![inst[i].claim] = "revoked"]
            /\ inst' = [inst EXCEPT ![i].pc = "revoked"]
            /\ UNCHANGED <<file, hist>>
       ELSE Leaves(i, hist) /\ UNCHANGED token
    /\ UNCHANGED <<session, flow, tab, seen, events>>

\* Mutant: the code can be used again.
CancelReopens(i) ==
    /\ inst[i].pc = "revoked"
    /\ session' = IF session.state = "connected" THEN [session EXCEPT !.state = "waiting"] ELSE session
    /\ Leaves(i, hist)
    /\ UNCHANGED <<flow, tab, seen, token, events>>

\* ... and Cancelled.
Cancel(i) ==
    /\ inst[i].pc = "revoked"
    /\ session' = IF session.state = "connected" THEN [session EXCEPT !.state = "denied"] ELSE session
    /\ Leaves(i, hist)
    /\ UNCHANGED <<flow, tab, seen, token, events>>

-----------------------------------------------------------------------------
(* The server *)

\* It is restarted: sessions, flows and the calls in work are gone.
Restart ==
    /\ Happens
    /\ session' = NoSession
    /\ flow' = [c \in 0..MaxClaims |-> "none"]
    /\ tab' = [t \in Tabs |-> 0]
    /\ inst' = [i \in Installers |-> IF inst[i].pc \in {"granted", "issued", "revoked"} THEN IdleInstall ELSE inst[i]]
    /\ file' = [i \in Installers |-> IF inst[i].pc \in {"granted", "issued", "revoked"} THEN NoFile ELSE file[i]]
    /\ UNCHANGED <<seen, token, hist>>

\* evictOldest, and start when there are too many flows: others need the room.
Evict ==
    /\ Happens
    /\ \/ session' = NoSession /\ flow' = Dropped(FoundFlow, Found.flow)
       \/ UNCHANGED session /\ flow' = Dropped(flow, session.flow)
    /\ UNCHANGED <<tab, seen, inst, file, token, hist>>

Less(n) == IF n = 0 THEN 0 ELSE n - 1

Tick ==
    /\ session' = [session EXCEPT !.left = Less(@), !.life = Less(@), !.claimLeft = Less(@), !.authLeft = Less(@)]
    /\ file' = [i \in Installers |-> IF file[i].left <= 1 THEN NoFile ELSE [file[i] EXCEPT !.left = @ - 1]]
    /\ inst' = [i \in Installers |-> [inst[i] EXCEPT !.patience = Less(@)]]
    /\ UNCHANGED <<flow, tab, seen, token, hist, events>>

Next ==
    \/ Create \/ View \/ Deny
    \/ \E t \in Tabs : StartApproval(t) \/ FailApproval(t) \/ Misconfirm(t) \/ Approve(t)
    \/ \E i \in Installers :
          \/ \E m \in Modes : Claim(i, m) \/ ClaimTaken(i, m) \/ ClaimFails(i, m)
          \/ ClaimUnknown(i) \/ Interrupt(i) \/ GiveUp(i) \/ Fail(i)
          \/ Poll(i) \/ LearnDenied(i) \/ \E c \in Claims : Exchange(i, c)
          \/ Issue(i) \/ Deliver(i) \/ Keep(i) \/ Decline(i) \/ Cancel(i)
    \/ Restart \/ Evict \/ Tick

Spec == Init /\ [][Next]_vars

-----------------------------------------------------------------------------

\* A token is only made for the request a page showed and the person approved,
\* never for the one that took its place while the machine name was checked.
TokenAsApproved == \A c \in Claims : token[c] # "none" => c \in hist.approved

\* A pairing code leads to one token at most, however often its device came
\* back, was approved in two tabs or asked.
OneTokenPerCode ==
    \A c, d \in Claims : token[c] # "none" /\ token[d] # "none" /\ hist.sidOf[c] = hist.sidOf[d] => c = d

\* A request that the page can show, and one from which a token can come.
Waits(c) == session.state = "claimed" /\ session.claim = c

Grantable(c) ==
    \/ flow[c] = "approved"
    \/ session.auth /\ session.claim = c
    \/ \E i \in Installers : inst[i].pc = "granted" /\ inst[i].claim = c

Fate(c) ==
    IF token[c] # "none" THEN token[c]
    ELSE IF hist.sidOf[c] = 0 THEN "none"
    ELSE IF Waits(c) THEN "waiting"
    ELSE IF Grantable(c) THEN "approved"
    ELSE "closed"

Grants == INSTANCE PairingGrants WITH
    Requests <- Claims, Codes <- Sids, NoCode <- 0,
    code <- hist.sidOf, fate <- [c \in Claims |-> Fate(c)], used <- {hist.sidOf[c] : c \in hist.approved}

\* A pairing keeps what PairingGrants promises, whatever expires, is lost,
\* resumed, replaced or decided twice: one token for a code at most, made from
\* the approved request, and no closed request comes back.
GrantsAsPromised == Grants!Spec

\* Only the request that the account sees can still lead to a token: nothing
\* that was replaced, resumed, discarded or evicted has a flow or a code left.
NothingLeftBehind ==
    /\ \A c \in Claims : flow[c] \in {"pending", "approved"} =>
          /\ session.flow = c /\ session.claim = c
          /\ session.state = IF flow[c] = "pending" THEN "claimed" ELSE "approved"
    /\ session.auth => session.state = "approved"

\* The confirmation code of four characters can be guessed three times for one
\* pairing code, also if the device comes back in between.
GuessesBounded ==
    hist.wrong <= MaxConfirmFails /\ (hist.wrong = MaxConfirmFails => session.state \in {"none", "compromised"})

\* An installer that was only interrupted never makes its own pairing look like
\* an intrusion: its second claim resumes the first or finds it expired.
ReturnIsNoIntrusion ==
    session.state = "compromised" =>
        hist.wrong = MaxConfirmFails \/ hist.slipped \/ Cardinality(hist.callers) > 1

=============================================================================
