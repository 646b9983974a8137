---------------------------- MODULE AgentControl ----------------------------
(***************************************************************************)
(* A person pauses an agent (src/internal/store/agentcontrol.go): the      *)
(* channel of the agent's session mirrors the control into a flag file     *)
(* (src/cmd/ctx/channel_pause.go), the hook before a tool call reads the   *)
(* flag, writes an acknowledgement and stops the session                   *)
(* (src/internal/agentpause), the harness records that in the transcript,  *)
(* and acknowledgement and record reach the server by two ways, the        *)
(* channel and the collector.  Whoever waits for a pause to take hold, or  *)
(* to be lifted, depends on all of them.                                   *)
(***************************************************************************)
EXTENDS Collector

VARIABLES
    lifted,     \* agent_controls in the order of their requests: resumed or not
    flag,       \* the control named in the flag file, 0: no file
    ackFile,    \* the lines of the file of acknowledgements
    ch,         \* the channel process, see ChannelStates
    call,       \* the tool calls, see CallStates
    session,    \* "working" or "stopped"
    notices     \* how often the session was told that a control is over

controlVars == <<lifted, flag, ackFile, ch, call, session, notices>>
vars == <<collectorVars, controlVars>>

AckLines == [control : Controls, call : Calls]

\* active: the control the server named, or 0; over: the last control, lifted,
\* when there is none active; todo: acknowledgements of this round, which are
\* read up to line next; offset: those that were reported.
ChannelStates == [pc : {"down", "idle", "latest", "flag", "read", "report", "lift", "clear", "announce"},
                  active : 0..MaxControls, over : 0..MaxControls, todo : Seq(AckLines), next : Nat,
                  offset : Nat, seen : SUBSET Controls, announced : SUBSET Controls]

NoChannel == [pc |-> "down", active |-> 0, over |-> 0, todo |-> <<>>, next |-> 0,
              offset |-> 0, seen |-> {}, announced |-> {}]

\* acked: the acknowledgement was written.
CallStates == [pc : {"new", "gate", "ack", "answer", "stopped", "ran"},
               control : 0..MaxControls, acked : BOOLEAN]

NewCall == [pc |-> "new", control |-> 0, acked |-> FALSE]

TypeOK ==
    /\ CollectorTypeOK
    /\ lifted \in Seq(BOOLEAN) /\ Len(lifted) <= MaxControls
    /\ flag \in 0..Len(lifted)
    /\ ackFile \in Seq(AckLines)
    /\ ch \in ChannelStates
    /\ call \in [Calls -> CallStates]
    /\ session \in {"working", "stopped"}
    /\ notices \in [Controls -> Nat]

Init ==
    /\ CollectorInit
    /\ lifted = <<>>
    /\ flag = 0
    /\ ackFile = <<>>
    /\ ch = NoChannel
    /\ call = [u \in Calls |-> NewCall]
    /\ session = "working"
    /\ notices = [c \in Controls |-> 0]

-----------------------------------------------------------------------------
(* The server and the person *)

\* activeControlTx; RequestAgentControl sees to it that there is only one.
Active == IF \E c \in 1..Len(lifted) : ~lifted[c] THEN CHOOSE c \in 1..Len(lifted) : ~lifted[c] ELSE 0

\* Mutant: an acknowledgement is enough.
EffectiveByAck(c) == \E u \in Calls : [kind |-> "ack", call |-> u] \in evidence[c]

\* deriveState: both kinds of evidence for one call.
Effective(c) ==
    \E u \in Calls : \A kind \in {"ack", "proof"} : [kind |-> kind, call |-> u] \in evidence[c]

\* RequestAgentControl; with a control active it answers with that one.
Request ==
    /\ Active = 0 /\ Len(lifted) < MaxControls
    /\ lifted' = Append(lifted, FALSE)
    /\ UNCHANGED <<collectorVars, flag, ackFile, ch, call, session, notices>>

\* ResumeAgentControl
Resume ==
    /\ Active # 0
    /\ lifted' = [lifted EXCEPT ![Active] = TRUE]
    /\ UNCHANGED <<collectorVars, flag, ackFile, ch, call, session, notices>>

\* The person writes to a session that was stopped.
Prompt ==
    /\ session = "stopped"
    /\ session' = "working"
    /\ UNCHANGED <<collectorVars, lifted, flag, ackFile, ch, call, notices>>

-----------------------------------------------------------------------------
(* pauseSyncer *)

StartChannel ==
    /\ ch.pc = "down"
    /\ ch' = [NoChannel EXCEPT !.pc = "idle"]
    /\ UNCHANGED <<collectorVars, lifted, flag, ackFile, call, session, notices>>

\* The round is over; what the process has learnt stays.
Rested == [NoChannel EXCEPT !.pc = "idle", !.offset = ch.offset, !.seen = ch.seen, !.announced = ch.announced]

\* getAgentControl: the active control is read ...
AskActive ==
    /\ ch.pc = "idle"
    /\ ch' = IF Active = 0 THEN [ch EXCEPT !.pc = "latest"]
             ELSE [ch EXCEPT !.pc = "flag", !.active = Active, !.seen = @ \union {Active}]
    /\ UNCHANGED <<collectorVars, lifted, flag, ackFile, call, session, notices>>

\* ... and, without one, the latest, if it was lifted; or no answer arrives.
AskLatest ==
    /\ ch.pc = "latest"
    /\ \/ /\ ch' = [ch EXCEPT !.pc = "read",
                              !.over = IF Active = 0 THEN Len(lifted) ELSE 0]
          /\ UNCHANGED faults
       \/ /\ Fault
          /\ ch' = Rested
    /\ UNCHANGED <<transcript, chunks, evidence, saved, coll,
                   lifted, flag, ackFile, call, session, notices>>

\* WriteFlag, unless the flag names this control.
SetFlag ==
    /\ ch.pc = "flag"
    /\ flag' = ch.active
    /\ ch' = [ch EXCEPT !.pc = "read"]
    /\ UNCHANGED <<collectorVars, lifted, ackFile, call, session, notices>>

\* ReadAcks: from the start if the file is shorter than what was reported.
ReadAcks ==
    /\ ch.pc = "read"
    /\ LET from == IF Len(ackFile) < ch.offset THEN 0 ELSE ch.offset IN
       ch' = [ch EXCEPT !.pc = "report", !.offset = from, !.next = Len(ackFile),
                        !.todo = SubSeq(ackFile, from + 1, Len(ackFile))]
    /\ UNCHANGED <<collectorVars, lifted, flag, ackFile, call, session, notices>>

\* RecordEvent of the next acknowledgement
Report ==
    /\ ch.pc = "report" /\ ch.todo # <<>>
    /\ evidence' = Recorded(Head(ch.todo).control, "ack", Head(ch.todo).call)
    /\ ch' = [ch EXCEPT !.todo = Tail(@), !.offset = @ + 1]
    /\ UNCHANGED <<transcript, chunks, saved, coll, faults,
                   lifted, flag, ackFile, call, session, notices>>

\* Mutant: a round that reports in vain still counts its lines as reported.
ReportDone(offset) == ch.next

\* The lines behind the last one that was reported stay for the next round.
Reported(offset) == offset

\* The call fails, or only its reply is lost.
ReportFails ==
    /\ ch.pc = "report" /\ ch.todo # <<>>
    /\ Fault
    /\ \/ evidence' = Recorded(Head(ch.todo).control, "ack", Head(ch.todo).call)
       \/ UNCHANGED evidence
    /\ ch' = [ch EXCEPT !.todo = <<>>, !.next = Reported(ch.offset), !.offset = Reported(ch.offset)]
    /\ UNCHANGED <<transcript, chunks, saved, coll, lifted, flag, ackFile, call, session, notices>>

EndReport ==
    /\ ch.pc = "report" /\ ch.todo = <<>>
    /\ ch' = IF ch.active = 0 THEN [ch EXCEPT !.pc = "lift"] ELSE Rested
    /\ UNCHANGED <<collectorVars, lifted, flag, ackFile, call, session, notices>>

\* Mutant: only the channel that saw a control active removes its flag.
FlagOfSeen == IF ch.over \in ch.seen THEN 0 ELSE flag

\* RemoveFlag: whatever it named ...
NoFlag == 0

LiftFlag ==
    /\ ch.pc = "lift"
    /\ flag' = NoFlag
    /\ ch' = [ch EXCEPT !.pc = "clear"]
    /\ UNCHANGED <<collectorVars, lifted, ackFile, call, session, notices>>

\* ... ClearAcks, reported or not ...
Clear ==
    /\ ch.pc = "clear"
    /\ ackFile' = <<>>
    /\ ch' = [ch EXCEPT !.pc = "announce", !.offset = 0]
    /\ UNCHANGED <<collectorVars, lifted, flag, call, session, notices>>

\* Mutant: any control that is over is announced once by each process.
AnnouncesAny(c) == c # 0 /\ c \notin ch.announced

\* ... and announceResume, once for a control this process saw active.
Announces(c) == c \in ch.seen \ ch.announced

\* The notice wakes a session that waits.
Announce ==
    /\ ch.pc = "announce"
    /\ \/ /\ Announces(ch.over)
          /\ notices' = [notices EXCEPT ![ch.over] = @ + 1]
          /\ session' = "working"
          /\ ch' = [Rested EXCEPT !.announced = @ \union {ch.over}]
          /\ UNCHANGED faults
       \/ /\ Announces(ch.over) /\ Fault
          /\ ch' = Rested
          /\ UNCHANGED <<session, notices>>
       \/ /\ ~Announces(ch.over)
          /\ ch' = Rested
          /\ UNCHANGED <<session, notices, faults>>
    /\ UNCHANGED <<transcript, chunks, evidence, saved, coll, lifted, flag, ackFile, call>>

\* The session ends between two rounds, and another takes its place.
CloseChannel ==
    /\ ch.pc = "idle"
    /\ Fault
    /\ flag' = 0
    /\ ch' = NoChannel
    /\ UNCHANGED <<transcript, chunks, evidence, saved, coll, lifted, ackFile, call, session, notices>>

CrashChannel ==
    /\ ch.pc # "down"
    /\ Fault
    /\ ch' = NoChannel
    /\ UNCHANGED <<transcript, chunks, evidence, saved, coll, lifted, flag, ackFile, call, session, notices>>

-----------------------------------------------------------------------------
(* The hook and the harness *)

\* A tool call begins, in the session or in one of its subagents.
Begin(u) ==
    /\ session = "working" /\ call[u].pc = "new"
    /\ call' = [call EXCEPT ![u].pc = "gate"]
    /\ UNCHANGED <<collectorVars, lifted, flag, ackFile, ch, session, notices>>

\* Gate: ReadFlag
Gate(u) ==
    /\ call[u].pc = "gate"
    /\ call' = IF flag = 0 THEN [call EXCEPT ![u].pc = "ran"]
               ELSE [call EXCEPT ![u].pc = "ack", ![u].control = flag]
    /\ UNCHANGED <<collectorVars, lifted, flag, ackFile, ch, session, notices>>

\* appendAck, whose errors are ignored
AppendAck(u) ==
    /\ call[u].pc = "ack"
    /\ \/ /\ ackFile' = Append(ackFile, [control |-> call[u].control, call |-> u])
          /\ call' = [call EXCEPT ![u].pc = "answer", ![u].acked = TRUE]
          /\ UNCHANGED faults
       \/ /\ Fault
          /\ call' = [call EXCEPT ![u].pc = "answer"]
          /\ UNCHANGED ackFile
    /\ UNCHANGED <<transcript, chunks, evidence, saved, coll, lifted, flag, ch, session, notices>>

\* The harness gets the answer, records it and ends the turn ...
Stop(u) ==
    /\ call[u].pc = "answer"
    /\ transcript' = Append(transcript, [kind |-> "proof", control |-> call[u].control, call |-> u])
    /\ call' = [call EXCEPT ![u].pc = "stopped"]
    /\ session' = "stopped"
    /\ UNCHANGED <<chunks, evidence, saved, coll, faults, lifted, flag, ackFile, ch, notices>>

\* ... or the hook dies and the call goes through.
HookDies(u) ==
    /\ call[u].pc \in {"gate", "ack", "answer"}
    /\ Fault
    /\ call' = [call EXCEPT ![u].pc = "ran"]
    /\ UNCHANGED <<transcript, chunks, evidence, saved, coll, lifted, flag, ackFile, ch, session, notices>>

-----------------------------------------------------------------------------

ChannelStep ==
    \/ StartChannel \/ AskActive \/ AskLatest \/ SetFlag \/ ReadAcks \/ Report \/ EndReport
    \/ LiftFlag \/ Clear \/ Announce

CallStep(u) == Gate(u) \/ AppendAck(u) \/ Stop(u)

CollectorNext ==
    /\ \E p \in Collectors : CollectorStep(p) \/ SaveAgain(p) \/ CollectorFault(p)
    /\ UNCHANGED controlVars

Next ==
    \/ Request \/ Resume \/ Prompt
    \/ ChannelStep \/ ReportFails \/ CloseChannel \/ CrashChannel
    \/ \E u \in Calls : Begin(u) \/ CallStep(u) \/ HookDies(u)
    \/ CollectorNext
    \/ Chatter /\ UNCHANGED controlVars

\* The channel asks every two seconds and is started with each session, hooks
\* run to their end, and the daemon sweeps every half minute.
Fairness ==
    /\ WF_vars(ChannelStep)
    /\ \A u \in Calls : WF_vars(CallStep(u))
    /\ \A p \in Daemons : WF_vars(CollectorStep(p) /\ UNCHANGED controlVars)

Spec == Init /\ [][Next]_vars /\ Fairness

-----------------------------------------------------------------------------

\* A control is shown as effective only if it really stopped the session: at
\* one and the same call the hook answered and the harness ended the turn.
EffectiveMeansStopped ==
    \A c \in Controls : Effective(c) =>
        \E u \in Calls : call[u] = [pc |-> "stopped", control |-> c, acked |-> TRUE]

\* The acknowledgement of a control that is still active is not lost: the
\* server has it, or the channel will come to it, however often the channel
\* fails, restarts or clears what an earlier control left behind.
AcksKept ==
    \A u \in Calls : LET c == call[u].control IN
        call[u].acked /\ ~lifted[c] =>
            \/ [kind |-> "ack", call |-> u] \in evidence[c]
            \/ Full(c)
            \/ \E i \in 1..Len(ackFile) : ackFile[i] = [control |-> c, call |-> u] /\ i > ch.offset

\* The end of a control is announced once at most, also by channels that start
\* again and find it in the server's answer.
NoticeOnce == \A c \in Controls : notices[c] <= 1

\* A pause that took hold is shown: when the hook has acknowledged it and the
\* harness recorded it, the server counts it as effective in the end, unless it
\* is lifted or the limit of its evidence is reached.
StoppedIsShown ==
    \A c \in Controls, u \in Calls :
        call[u] = [pc |-> "stopped", control |-> c, acked |-> TRUE]
            ~> Effective(c) \/ Full(c) \/ (c \in DOMAIN lifted /\ lifted[c])

\* The flag follows the server: no pause is left standing, or left out, for good.
FlagFollows == []<>(flag = Active)

=============================================================================
