---------------------------- MODULE SessionStore ----------------------------
(***************************************************************************)
(* FileSessionStore (src/openagent/session/store.py) for one session.      *)
(*                                                                         *)
(* On disk a session is two append-only logs (the transcript, seen through *)
(* the session's filter of the agent-owned file, and events.jsonl) and     *)
(* state.json, which holds the side state and how long the logs were when  *)
(* it was written.  No method takes a lock: each file access is a step of  *)
(* its own, so that other writers, a crash, or the loss of a file fall     *)
(* between any two of them.  state.json is rewritten in place, which       *)
(* empties it first.                                                       *)
(*                                                                         *)
(* A log is JSON lines.  A variable tells which entries have their text in *)
(* the file, another whether the file can still be read: a crash may leave *)
(* a line cut short, or whole but without its newline.                     *)
(*                                                                         *)
(* A writer is a thread of control that works on its own SessionRecord.    *)
(***************************************************************************)
EXTENDS Naturals, Sequences

CONSTANTS
    Writers,     \* threads of control that load and save the session
    Entries,     \* the contents of messages and of events
    Sides,       \* values of the side state: status, pending calls, marker, metadata
    FreshSide,   \* the side state of a SessionRecord built without a state.json
    MaxMessages, \* bound on the messages of a record
    MaxEvents,   \* bound on the events of a record
    MaxLosses    \* how often a backing file may be lost from outside

ASSUME StoreAssumption ==
    /\ FreshSide \in Sides
    /\ MaxMessages \in Nat /\ MaxEvents \in Nat
    /\ MaxLosses \in Nat

VARIABLES
    (* files *)
    transcript,  \* the entries of the session whose text is in transcript.jsonl
    events,      \* the entries whose text is in events.jsonl
    endT,        \* the transcript file: "line" when each line is an entry, "bare" when the
                 \* last one lacks its newline, "torn" when some line is not JSON
    endE,        \* the event file, likewise
    stateFile,   \* state.json is "absent", "torn" (emptied, not yet rewritten) or "written"
    stateT,      \* its transcript_message_count
    stateE,      \* its event_count
    stateSide,   \* its side state
    (* the writers' memory *)
    pc,          \* where each writer is
    messages,    \* SessionRecord.messages
    evs,         \* SessionRecord.events
    side,        \* SessionRecord's status, pending calls, restore_marker, metadata
    countT,      \* transcript count: as read from state.json, then as validated
    countE,      \* event count, likewise
    (* history *)
    ackedT,      \* the messages of the record whose save returned last
    ackedE,      \* the events of that record
    losses       \* how many backing files have been lost

logs    == <<transcript, events, endT, endE>>
files   == <<logs, stateFile, stateT, stateE, stateSide>>
memory  == <<messages, evs, side, countT, countE>>
history == <<ackedT, ackedE, losses>>
vars    == <<files, pc, memory, history>>

stateVars == <<stateFile, stateT, stateE, stateSide>>

Locations == {"idle", "loadT", "loadE", "ready",
              "validateT", "validateE", "appendT", "appendE", "openState", "writeState",
              "marking", "marked", "openSide", "writeSide", "raised"}

Go(w, l) == pc' = [pc EXCEPT ![w] = l]

(* The locals of a save end with it; a record ends with its writer.        *)
DropCounts(w) == /\ countT' = [countT EXCEPT ![w] = 0]
                 /\ countE' = [countE EXCEPT ![w] = 0]

DropRecord(w) == /\ DropCounts(w)
                 /\ messages' = [messages EXCEPT ![w] = <<>>]
                 /\ evs' = [evs EXCEPT ![w] = <<>>]
                 /\ side' = [side EXCEPT ![w] = FreshSide]

Init ==
    /\ transcript = <<>> /\ events = <<>>
    /\ endT = "line" /\ endE = "line"
    /\ stateFile = "absent" /\ stateT = 0 /\ stateE = 0
    /\ stateSide = FreshSide
    /\ pc = [w \in Writers |-> "idle"]
    /\ messages = [w \in Writers |-> <<>>]
    /\ evs = [w \in Writers |-> <<>>]
    /\ side = [w \in Writers |-> FreshSide]
    /\ countT = [w \in Writers |-> 0]
    /\ countE = [w \in Writers |-> 0]
    /\ ackedT = <<>> /\ ackedE = <<>> /\ losses = 0
-----------------------------------------------------------------------------
(* load_session: state.json, then the transcript, then the event log.  An  *)
(* emptied state.json, or a log with a torn line, is not JSON: the load    *)
(* raises.  It is either the owner's or the first part of mark_restored.   *)

LoadState(w) ==
    /\ pc[w] = "idle"
    /\ IF stateFile = "torn"
       THEN Go(w, "raised") /\ UNCHANGED side
       ELSE /\ side' = [side EXCEPT ![w] = stateSide]
            /\ Go(w, "loadT")
    /\ UNCHANGED <<files, messages, evs, countT, countE, history>>

LoadTranscript(w) ==
    /\ pc[w] = "loadT"
    /\ IF endT = "torn"
       THEN Go(w, "raised") /\ UNCHANGED messages
       ELSE /\ messages' = [messages EXCEPT ![w] = transcript]
            /\ Go(w, "loadE")
    /\ UNCHANGED <<files, evs, side, countT, countE, history>>

LoadEvents(w) ==
    /\ pc[w] = "loadE"
    /\ IF endE = "torn"
       THEN Go(w, "raised") /\ UNCHANGED evs
       ELSE /\ evs' = [evs EXCEPT ![w] = events]
            /\ Go(w, "ready") \/ Go(w, "marking")
    /\ UNCHANGED <<files, messages, side, countT, countE, history>>
-----------------------------------------------------------------------------
(* The record's owner adds messages and events and sets the side state.    *)

AddMessage(w, e) ==
    /\ pc[w] = "ready" /\ Len(messages[w]) < MaxMessages
    /\ messages' = [messages EXCEPT ![w] = Append(@, e)]
    /\ UNCHANGED <<files, pc, evs, side, countT, countE, history>>

AddEvent(w, e) ==
    /\ pc[w] = "ready" /\ Len(evs[w]) < MaxEvents
    /\ evs' = [evs EXCEPT ![w] = Append(@, e)]
    /\ UNCHANGED <<files, pc, messages, side, countT, countE, history>>

SetSide(w, s) ==
    /\ pc[w] = "ready"
    /\ side' = [side EXCEPT ![w] = s]
    /\ UNCHANGED <<files, pc, messages, evs, countT, countE, history>>
-----------------------------------------------------------------------------
(* The counts in state.json, 0 when there is no file; both kinds of save   *)
(* read them first and raise when the file is not JSON.                    *)
PersistedCount(n) == IF stateFile = "absent" THEN 0 ELSE n

ReadCounts(w, next) ==
    IF stateFile = "torn"
    THEN Go(w, "raised") /\ UNCHANGED <<countT, countE>>
    ELSE /\ countT' = [countT EXCEPT ![w] = PersistedCount(stateT)]
         /\ countE' = [countE EXCEPT ![w] = PersistedCount(stateE)]
         /\ Go(w, next)

SaveBegin(w) ==
    /\ pc[w] = "ready"
    /\ ReadCounts(w, "validateT")
    /\ UNCHANGED <<files, messages, evs, side, history>>

(* save_session refuses a record that does not extend the durable log, and *)
(* raises where the log is not JSON.  A log shorter than the recorded      *)
(* count passes only when the record holds just what is visible; the       *)
(* recorded count then goes on to the append.                              *)
Extends(record, log) ==
    Len(log) <= Len(record) /\ SubSeq(record, 1, Len(log)) = log

Valid(record, log, count) ==
    IF count > Len(log) THEN log = record ELSE Extends(record, log)

(* Mutants: the recorded count wins over the visible one; one too few.     *)
RecordedCount(log, count) == count
OneTooFew(log, count) == IF count > Len(log) THEN count ELSE Len(log) - 1

ValidCount(log, count) == IF count > Len(log) THEN count ELSE Len(log)

(* Mutant: the recorded count is ignored.                                  *)
TrustVisible(w) ==
    /\ pc[w] = "validateT"
    /\ IF endT # "torn" /\ Extends(messages[w], transcript)
       THEN /\ countT' = [countT EXCEPT ![w] = Len(transcript)]
            /\ Go(w, "validateE")
       ELSE Go(w, "raised") /\ UNCHANGED countT
    /\ UNCHANGED <<files, messages, evs, side, countE, history>>

ValidateTranscript(w) ==
    /\ pc[w] = "validateT"
    /\ IF endT # "torn" /\ Valid(messages[w], transcript, countT[w])
       THEN /\ countT' = [countT EXCEPT ![w] = ValidCount(transcript, @)]
            /\ Go(w, "validateE")
       ELSE Go(w, "raised") /\ UNCHANGED countT
    /\ UNCHANGED <<files, messages, evs, side, countE, history>>

ValidateEvents(w) ==
    /\ pc[w] = "validateE"
    /\ IF endE # "torn" /\ Valid(evs[w], events, countE[w])
       THEN /\ countE' = [countE EXCEPT ![w] = ValidCount(events, @)]
            /\ Go(w, "appendT")
       ELSE Go(w, "raised") /\ UNCHANGED countE
    /\ UNCHANGED <<files, messages, evs, side, countT, history>>

(* Mutants: the first new entry is skipped; everything is written again.   *)
SkipFirst(record, count) == SubSeq(record, count + 2, Len(record))
WholeRecord(record, count) == record

(* The part of a record that the validated count says is not yet durable.  *)
Suffix(record, count) == SubSeq(record, count + 1, Len(record))

(* A file after k whole lines have been written to its end: the first one  *)
(* is glued to a line without a newline, and the two are not JSON.         *)
Written(end, k) == IF k > 0 /\ end = "bare" THEN "torn" ELSE end

AppendTranscript(w) ==
    /\ pc[w] = "appendT"
    /\ IF countT[w] > Len(messages[w])
       THEN Go(w, "raised") /\ UNCHANGED <<transcript, endT>>
       ELSE /\ transcript' = transcript \o Suffix(messages[w], countT[w])
            /\ endT' = Written(endT, Len(messages[w]) - countT[w])
            /\ Go(w, "appendE")
    /\ UNCHANGED <<events, endE, stateVars, memory, history>>

AppendEvents(w) ==
    /\ pc[w] = "appendE"
    /\ IF countE[w] > Len(evs[w])
       THEN Go(w, "raised") /\ UNCHANGED <<events, endE>>
       ELSE /\ events' = events \o Suffix(evs[w], countE[w])
            /\ endE' = Written(endE, Len(evs[w]) - countE[w])
            /\ Go(w, "openState")
    /\ UNCHANGED <<transcript, endT, stateVars, memory, history>>

(* write_text empties the file ...                                         *)
OpenState(w) ==
    /\ pc[w] = "openState"
    /\ stateFile' = "torn"
    /\ Go(w, "writeState")
    /\ UNCHANGED <<logs, stateT, stateE, stateSide, memory, history>>

(* ... and then fills it; save_session returns.                            *)
WriteState(w) ==
    /\ pc[w] = "writeState"
    /\ stateFile' = "written"
    /\ stateT' = Len(messages[w])
    /\ stateE' = Len(evs[w])
    /\ stateSide' = side[w]
    /\ ackedT' = messages[w]
    /\ ackedE' = evs[w]
    /\ Go(w, "ready")
    /\ DropCounts(w)
    /\ UNCHANGED <<logs, messages, evs, side, losses>>
-----------------------------------------------------------------------------
(* save_session_state_only keeps the counts it reads and leaves the logs   *)
(* alone; mark_restored is that save after the marker of a loaded record   *)
(* has been set to the caller's cursor or to the last durable event, for   *)
(* which the event log is read once more.                                  *)

MarkRestored(w) ==
    /\ pc[w] = "marking"
    /\ IF endE = "torn"
       THEN Go(w, "raised") /\ UNCHANGED side
       ELSE /\ \E s \in Sides : side' = [side EXCEPT ![w] = s]
            /\ Go(w, "marked")
    /\ UNCHANGED <<files, messages, evs, countT, countE, history>>

SaveStateOnly(w) ==
    /\ pc[w] \in {"ready", "marked"}
    /\ ReadCounts(w, "openSide")
    /\ UNCHANGED <<files, messages, evs, side, history>>

OpenSide(w) ==
    /\ pc[w] = "openSide"
    /\ stateFile' = "torn"
    /\ Go(w, "writeSide")
    /\ UNCHANGED <<logs, stateT, stateE, stateSide, memory, history>>

WriteSide(w) ==
    /\ pc[w] = "writeSide"
    /\ stateFile' = "written"
    /\ stateT' = countT[w]
    /\ stateE' = countE[w]
    /\ stateSide' = side[w]
    /\ Go(w, "ready")
    /\ DropCounts(w)
    /\ UNCHANGED <<logs, messages, evs, side, history>>
-----------------------------------------------------------------------------
(* The exception unwinds the writer, which drops its record.               *)
Unwind(w) ==
    /\ pc[w] = "raised"
    /\ Go(w, "idle")
    /\ DropRecord(w)
    /\ UNCHANGED <<files, history>>

(* The writer's process dies, or drops its record; the files stay.         *)
Crash(w) ==
    /\ pc[w] \notin {"idle", "raised"}
    /\ Go(w, "idle")
    /\ DropRecord(w)
    /\ UNCHANGED <<files, history>>

(* It dies while an append is being flushed, and the text is cut anywhere: *)
(* behind a newline, between a line and its newline, or inside a line.     *)
Cuts(end, k, more) ==
    {Written(end, k)} \cup (IF k > 0 /\ end = "line" THEN {"bare"} ELSE {})
                     \cup (IF more THEN {"torn"} ELSE {})

CrashInAppendT(w) ==
    /\ pc[w] = "appendT"
    /\ \E n \in countT[w]..Len(messages[w]) :
          /\ transcript' = transcript \o SubSeq(messages[w], countT[w] + 1, n)
          /\ endT' \in Cuts(endT, n - countT[w], n < Len(messages[w]))
    /\ Go(w, "idle")
    /\ DropRecord(w)
    /\ UNCHANGED <<events, endE, stateVars, history>>

CrashInAppendE(w) ==
    /\ pc[w] = "appendE"
    /\ \E n \in countE[w]..Len(evs[w]) :
          /\ events' = events \o SubSeq(evs[w], countE[w] + 1, n)
          /\ endE' \in Cuts(endE, n - countE[w], n < Len(evs[w]))
    /\ Go(w, "idle")
    /\ DropRecord(w)
    /\ UNCHANGED <<transcript, endT, stateVars, history>>

(* A backing file is deleted, or cut behind a line, from outside while     *)
(* nobody is in the middle of a call (tests/session/test_session_store.py);*)
(* one with a torn line is lost as a whole or not at all.                  *)
Quiet == \A w \in Writers : pc[w] \in {"idle", "ready"}

LoseTranscript ==
    /\ losses < MaxLosses /\ Quiet
    /\ \E n \in 0..Len(transcript) :
          /\ n < Len(transcript) /\ (endT = "torn" => n = 0)
          /\ transcript' = SubSeq(transcript, 1, n)
    /\ endT' = "line"
    /\ losses' = losses + 1
    /\ UNCHANGED <<events, endE, stateVars, pc, memory, ackedT, ackedE>>

LoseEvents ==
    /\ losses < MaxLosses /\ Quiet
    /\ \E n \in 0..Len(events) :
          /\ n < Len(events) /\ (endE = "torn" => n = 0)
          /\ events' = SubSeq(events, 1, n)
    /\ endE' = "line"
    /\ losses' = losses + 1
    /\ UNCHANGED <<transcript, endT, stateVars, pc, memory, ackedT, ackedE>>
-----------------------------------------------------------------------------
Load(w) == LoadState(w) \/ LoadTranscript(w) \/ LoadEvents(w)

Edit(w) == \/ \E e \in Entries : AddMessage(w, e) \/ AddEvent(w, e)
           \/ \E s \in Sides : SetSide(w, s)

Save(w) == \/ SaveBegin(w) \/ ValidateTranscript(w) \/ ValidateEvents(w)
           \/ AppendTranscript(w) \/ AppendEvents(w) \/ OpenState(w) \/ WriteState(w)

SideSave(w) == MarkRestored(w) \/ SaveStateOnly(w) \/ OpenSide(w) \/ WriteSide(w)

Fault(w) == Unwind(w) \/ Crash(w) \/ CrashInAppendT(w) \/ CrashInAppendE(w)

Step(w) == Load(w) \/ Edit(w) \/ Save(w) \/ SideSave(w) \/ Fault(w)

Next == (\E w \in Writers : Step(w)) \/ LoseTranscript \/ LoseEvents

Spec == Init /\ [][Next]_vars
-----------------------------------------------------------------------------
(* Every variable keeps its shape through all interleavings of saves,      *)
(* loads, crashes and losses (SessionRecord, state.json, store.py:289).    *)
TypeOK ==
    /\ transcript \in Seq(Entries) /\ events \in Seq(Entries)
    /\ endT \in {"line", "bare", "torn"} /\ endE \in {"line", "bare", "torn"}
    /\ stateFile \in {"absent", "torn", "written"}
    /\ stateT \in Nat /\ stateE \in Nat /\ stateSide \in Sides
    /\ pc \in [Writers -> Locations]
    /\ messages \in [Writers -> Seq(Entries)] /\ evs \in [Writers -> Seq(Entries)]
    /\ side \in [Writers -> Sides]
    /\ countT \in [Writers -> Nat] /\ countE \in [Writers -> Nat]
    /\ ackedT \in Seq(Entries) /\ ackedE \in Seq(Entries)
    /\ losses \in Nat

(* Whatever the writers interleave and wherever they crash, state.json     *)
(* never claims more than the logs hold: save_session writes the counts    *)
(* last (store.py:81-108), so the next save is not refused for a           *)
(* "missing or truncated" backing that nobody lost.                        *)
StateBehindLogs ==
    losses = 0 => /\ stateT <= Len(transcript)
                  /\ stateE <= Len(events)

(* Once state.json shows that a backing file was lost, no save appends to  *)
(* what is left of it (docs/Features/session.md:43-45; the two validation  *)
(* helpers at store.py:253-287 together with the suffix helpers).          *)
NoAppendAfterLoss ==
    [][ /\ stateT > Len(transcript) => Len(transcript') <= Len(transcript)
        /\ stateE > Len(events) => Len(events') <= Len(events) ]_vars

(* With one writer, its record always extends what is durable: a crash at  *)
(* any point of an earlier save neither drops an entry nor doubles one     *)
(* (load_session re-reads the logs, save_session counts what is visible).  *)
RecordExtendsLogs ==
    \A w \in Writers :
        (losses = 0 /\ pc[w] \notin {"idle", "raised", "loadT"}) =>
            /\ Extends(messages[w], transcript)
            /\ pc[w] # "loadE" => Extends(evs[w], events)

(* With one writer, a load or a save raises only if a backing file was     *)
(* lost, or a crash caught state.json while it was being rewritten or cut  *)
(* a line of a log: the checks at store.py:253-287 never refuse what the   *)
(* writer itself has written, whatever other crash came in between.        *)
RefusedOnlyAfterDamage ==
    \A w \in Writers : pc[w] = "raised" =>
        losses > 0 \/ stateFile = "torn" \/ endT = "torn" \/ endE = "torn"
=============================================================================
