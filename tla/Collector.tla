------------------------------ MODULE Collector ------------------------------
(***************************************************************************)
(* The collector (src/internal/collector): it reads the transcript of a    *)
(* session as it grows and sends the server its lines and the proofs that  *)
(* a pause took effect.  The position it has confirmed is its only memory: *)
(* what was not confirmed is read and sent again, by the watch daemon or   *)
(* by "ctx watch --once", which do not know of each other.                 *)
(***************************************************************************)
EXTENDS Integers, Sequences, FiniteSets, FiniteSetsExt

CONSTANTS
    Collectors,   \* processes: the daemon and runs with --once
    Daemons,      \* those that sweep again and again
    Calls,        \* tool calls of the session
    MaxControls,  \* bound: rows of agent_controls
    EventLimit,   \* maxControlEvents
    UploadBatch,  \* uploadBatch
    MaxChatter,   \* bound: lines that are no proof
    MaxFaults     \* bound: crashes, failed calls and lost replies

ASSUME CollectorAssumption ==
    /\ Daemons \subseteq Collectors /\ IsFiniteSet(Calls)
    /\ MaxControls \in Nat /\ EventLimit \in Nat \ {0} /\ UploadBatch \in Nat \ {0}
    /\ MaxChatter \in Nat /\ MaxFaults \in Nat

VARIABLES
    transcript, \* the complete lines of the session's file
    chunks,     \* session_chunks: pairs of a number and the line stored under it
    evidence,   \* agent_control_events of each control
    saved,      \* the state file: offset and seq
    coll,       \* the collectors, see CollectorStates
    faults

collectorVars == <<transcript, chunks, evidence, saved, coll, faults>>

Controls == 1..MaxControls

\* A line with text, an empty one, or the harness's record that a hook's answer
\* ended the turn at a call.
Lines == [kind : {"text", "blank"}] \union [kind : {"proof"}, control : Controls, call : Calls]

Evidence == [kind : {"ack", "proof"}, call : Calls]

\* end: of the batch in hand; left: its lines whose proofs are still to be sent.
\* "ending": a run with --once whose sync of the file failed.
CollectorStates == [pc : {"down", "idle", "ending", "upload", "prove"}, offset : Nat, seq : Nat,
                    end : Nat, left : SUBSET Nat]

DownCollector == [pc |-> "down", offset |-> 0, seq |-> 0, end |-> 0, left |-> {}]

CollectorTypeOK ==
    /\ transcript \in Seq(Lines)
    /\ chunks \subseteq Nat \X (1..Len(transcript))
    /\ evidence \in [Controls -> SUBSET Evidence]
    /\ \A c \in Controls : Cardinality(evidence[c]) <= EventLimit
    /\ saved \in [offset : Nat, seq : Nat]
    /\ coll \in [Collectors -> CollectorStates]
    /\ faults \in 0..MaxFaults

CollectorInit ==
    /\ transcript = <<>>
    /\ chunks = {}
    /\ evidence = [c \in Controls |-> {}]
    /\ saved = [offset |-> 0, seq |-> 0]
    /\ coll = [p \in Collectors |-> DownCollector]
    /\ faults = 0

\* One of the faults that are bounded.
Fault == faults < MaxFaults /\ faults' = faults + 1

-----------------------------------------------------------------------------
(* The server *)

Full(c) == Cardinality(evidence[c]) >= EventLimit

\* RecordControlEvent: what is known is kept once, and nothing is taken beyond
\* the limit, both without an error; a lifted control takes evidence too.
Recorded(c, kind, u) ==
    IF Full(c) THEN evidence ELSE [evidence EXCEPT ![c] = @ \union {[kind |-> kind, call |-> u]}]

\* appendChunkBatches: a number that is taken keeps its line.
Stored(rows) == chunks \union {r \in rows : \A old \in chunks : old[1] # r[1]}

-----------------------------------------------------------------------------
(* The collector *)

\* The lines with content among the first n.
Filled(n) == {i \in 1..n : transcript[i].kind # "blank"}

\* How many lines with content stand in from+1..to.
Count(from, to) == Cardinality(Filled(to) \ Filled(from))

\* A process with no batch in hand.
Between(pc, position) == [DownCollector EXCEPT !.pc = pc, !.offset = position.offset, !.seq = position.seq]

\* Mutant: a process numbers the lines from where it started.
LoadedOffset(p) == [DownCollector EXCEPT !.pc = "idle", !.offset = saved.offset]

\* LoadState
Loaded(p) == Between("idle", saved)

Load(p) ==
    /\ coll[p].pc = "down"
    /\ coll' = [coll EXCEPT ![p] = Loaded(p)]
    /\ UNCHANGED <<transcript, chunks, evidence, saved, faults>>

\* Where a batch ends: at the line that fills it, or at the end of the file.
BatchEnd(offset) ==
    LET filling == {n \in (offset + 1)..Len(transcript) : Count(offset, n) = UploadBatch}
    IN  IF filling = {} THEN Len(transcript) ELSE Min(filling)

\* SyncFile reads on from the position; without content there is nothing to send
\* and the position stays.
Read(p) ==
    /\ coll[p].pc = "idle"
    /\ LET end == BatchEnd(coll[p].offset) IN
       /\ Count(coll[p].offset, end) > 0
       /\ coll' = [coll EXCEPT ![p].pc = "upload", ![p].end = end]
    /\ UNCHANGED <<transcript, chunks, evidence, saved, faults>>

\* The position the process has in memory, which may be behind the saved one.
Position(p) == [offset |-> coll[p].offset, seq |-> coll[p].seq]

\* A run with --once that has reached the end of the file or failed at it saves
\* at the end of its sweep and is over.
Finish(p) ==
    /\ p \notin Daemons
    /\ \/ coll[p].pc = "idle" /\ Count(coll[p].offset, Len(transcript)) = 0
       \/ coll[p].pc = "ending"
    /\ coll' = [coll EXCEPT ![p] = DownCollector]
    /\ \/ saved' = Position(p) /\ UNCHANGED faults
       \/ Fault /\ UNCHANGED saved
    /\ UNCHANGED <<transcript, chunks, evidence>>

\* A save writes the positions of all files: those after a batch of another file,
\* and the one at the end of a sweep, write this one again.
SaveAgain(p) ==
    /\ coll[p].pc \in {"idle", "ending"}
    /\ saved' = Position(p)
    /\ UNCHANGED <<transcript, chunks, evidence, coll, faults>>

\* The rows of the batch up to line k, numbered on from seq.
Batch(p, k) == {<<coll[p].seq + Count(coll[p].offset, j - 1), j>> :
                    j \in Filled(k) \ Filled(coll[p].offset)}

\* An error ends the sync of the file: the daemon takes it up with its next sweep.
AfterError(p) == IF p \in Daemons THEN "idle" ELSE "ending"

\* The batch is dropped and will be read again.
Retry(p) == Between(AfterError(p), Position(p))

\* uploadSplit, in one request or in halves
Upload(p) ==
    /\ coll[p].pc = "upload"
    /\ chunks' = Stored(Batch(p, coll[p].end))
    /\ coll' = [coll EXCEPT ![p].pc = "prove",
            ![p].left = {j \in (coll[p].offset + 1)..coll[p].end : transcript[j].kind = "proof"}]
    /\ UNCHANGED <<transcript, evidence, saved, faults>>

\* The request, or one for a later half, fails, or only its reply is lost.
UploadFails(p) ==
    /\ coll[p].pc = "upload"
    /\ Fault
    /\ \E k \in coll[p].offset..coll[p].end : chunks' = Stored(Batch(p, k))
    /\ coll' = [coll EXCEPT ![p] = Retry(p)]
    /\ UNCHANGED <<transcript, evidence, saved>>

\* RecordControlProof of the next proof of the batch
Prove(p) ==
    /\ coll[p].pc = "prove" /\ coll[p].left # {}
    /\ LET j == Min(coll[p].left) IN
       /\ evidence' = Recorded(transcript[j].control, "proof", transcript[j].call)
       /\ coll' = [coll EXCEPT ![p].left = @ \ {j}]
    /\ UNCHANGED <<transcript, chunks, saved, faults>>

\* Mutant: the position moves on although a proof was not taken.
ProofDropped(p) == [coll[p] EXCEPT !.left = {}]

\* An error of the call ends the sweep of the file, proven or not.
ProofRefused(p) == Retry(p)

ProveFails(p) ==
    /\ coll[p].pc = "prove" /\ coll[p].left # {}
    /\ Fault
    /\ LET j == Min(coll[p].left) IN
       \/ evidence' = Recorded(transcript[j].control, "proof", transcript[j].call)
       \/ UNCHANGED evidence
    /\ coll' = [coll EXCEPT ![p] = ProofRefused(p)]
    /\ UNCHANGED <<transcript, chunks, saved>>

\* The position after the batch.
Confirmed(p) == [offset |-> coll[p].end, seq |-> coll[p].seq + Count(coll[p].offset, coll[p].end)]

\* The position moves and is saved; it has moved also when the save is an error.
Save(p) ==
    /\ coll[p].pc = "prove" /\ coll[p].left = {}
    /\ \/ coll' = [coll EXCEPT ![p] = Between("idle", Confirmed(p))]
          /\ saved' = Confirmed(p) /\ UNCHANGED faults
       \/ coll' = [coll EXCEPT ![p] = Between(AfterError(p), Confirmed(p))]
          /\ Fault /\ UNCHANGED saved
    /\ UNCHANGED <<transcript, chunks, evidence>>

CollectorCrash(p) ==
    /\ coll[p].pc # "down"
    /\ Fault
    /\ coll' = [coll EXCEPT ![p] = DownCollector]
    /\ UNCHANGED <<transcript, chunks, evidence, saved>>

-----------------------------------------------------------------------------

CollectorStep(p) == Load(p) \/ Read(p) \/ Finish(p) \/ Upload(p) \/ Prove(p) \/ Save(p)

CollectorFault(p) == UploadFails(p) \/ ProveFails(p) \/ CollectorCrash(p)

\* The harness writes a line that is no proof.
Chatter ==
    /\ Cardinality({i \in 1..Len(transcript) : transcript[i].kind # "proof"}) < MaxChatter
    /\ \E kind \in {"text", "blank"} : transcript' = Append(transcript, [kind |-> kind])
    /\ UNCHANGED <<chunks, evidence, saved, coll, faults>>

-----------------------------------------------------------------------------

\* A position: as many lines were numbered as have content, and each of them is
\* stored.
Sure(offset, seq) ==
    /\ offset <= Len(transcript)
    /\ seq = Cardinality(Filled(offset))
    /\ \A j \in Filled(offset) : \E r \in chunks : r[2] = j

\* The archive is the transcript: every line is stored once, under the number
\* it has in the file, and no position, saved or in use, passes a line that
\* was not stored, whoever failed, restarted or sent it again.
TranscriptKept ==
    /\ \A r \in chunks : r[2] \in Filled(Len(transcript)) /\ r[1] = Cardinality(Filled(r[2] - 1))
    /\ Sure(saved.offset, saved.seq)
    /\ \A p \in Collectors : coll[p].pc # "down" => Sure(coll[p].offset, coll[p].seq)

\* No position passes the proof of a pause that the server has not been given
\* (SyncFile sends the proofs before the position moves).
ProofsGiven ==
    \A j \in 1..Len(transcript) :
        transcript[j].kind = "proof" /\ (j <= saved.offset \/ \E p \in Collectors : j <= coll[p].offset)
            => \/ [kind |-> "proof", call |-> transcript[j].call] \in evidence[transcript[j].control]
               \/ Full(transcript[j].control)

=============================================================================
