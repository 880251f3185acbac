---------------------------- MODULE TurnLoopProofs ----------------------------
(***************************************************************************)
(* What the saved session and the transcript say, for any batches, bounds  *)
(* and thresholds: a session that waits for an approval can be continued   *)
(* (ResumePoint), what the caller was told of a turn's end stands          *)
(* (OutcomeStands), no call is answered twice (AnsweredOnce), and the      *)
(* model goes on only with every answer before it (ModelSeesAnswers).      *)
(*                                                                         *)
(* The first two are about the disk, and what goes there was put together  *)
(* in memory several steps before, events and messages apart.  Inductive   *)
(* follows the record: while a batch is executed, the message that carries *)
(* the calls stays the last one of the transcript, the results are kept    *)
(* aside; between the request for approval and its save nothing is logged. *)
(* The other two are about the transcript over all turns, continuations    *)
(* and crashes: Transcript says which iterations can have asked already,   *)
(* and that results and calls set aside split what the loop has walked     *)
(* through, so that the answers put behind the calls are all of them, once.*)
(*                                                                         *)
(* The last section is about the requests the loop makes: ModelRequest's   *)
(* AttemptsStayApart, NewestUserIsSent and RecoveryConverges.              *)
(***************************************************************************)
EXTENDS TurnLoop, ModelRequest, SequenceTheorems, FiniteSetTheorems, TLAPS

ItemKinds ==
    {"user", "assistant", "calls", "result", "turn_started", "assistant_delta",
     "assistant_message", "tool_started", "tool_progress", "tool_result",
     "tool_failed", "tool_cancelled", "requires_action"} \cup Ending

Item   == [kind : ItemKinds, turn : Nat, iter : Nat, call : Nat]
Batch  == [turn : Nat, iter : Nat, calls : Seq(Kinds)]
Record == [messages : Seq(Item), events : Seq(Item), pending : Batch,
           status : {"idle", "running", "requires_action"}]

Typed ==
    /\ disk \in Record /\ rec \in Record /\ batch \in Batch
    /\ turn \in Nat /\ iter \in Nat /\ pos \in Nat
    /\ pool \in Seq(Nat) /\ results \in Seq(Nat)

(* In a turn or a continuation the record says "running", also on disk     *)
(* once it has been saved, until its end is put into it; between turns     *)
(* there is only the saved one.                                            *)
Closing   == {"idle", "ending", "rejecting"}
OneRecord == IF pc = "idle" THEN rec = disk
             ELSE rec.status = IF pc \in Closing THEN "idle" ELSE "running"

(* The message that carries the calls of a batch.                          *)
CallsOf(b) == [kind |-> "calls", turn |-> b.turn, iter |-> b.iter, call |-> Len(b.calls)]
EndsWith(s, x) == s # <<>> /\ s[Len(s)] = x

(* While a batch is worked through, its calls end the transcript: those of *)
(* an approved batch too.                                                  *)
CallsAreLast ==
    pc \in {"tools", "running", "broken", "asking"} =>
        batch.calls # <<>> /\ EndsWith(rec.messages, CallsOf(batch))

(* Before the save of a request for approval it is the last event.         *)
AskIsLast == pc = "asking" => ~approving /\ LastKind(rec.events) = "requires_action"

Resumable ==
    disk.status = "requires_action" =>
        disk.pending.calls # <<>> /\ EndsWith(disk.messages, CallsOf(disk.pending))

Inductive ==
    Typed /\ OneRecord /\ CallsAreLast /\ AskIsLast /\ Resumable

(* What a step that stays inside the turn may do: the record grows by      *)
(* events only, and is saved or not.                                       *)
LogStep(e) ==
    /\ rec' = Log(rec, e) /\ disk' \in {disk, rec'}
    /\ UNCHANGED <<turn, iter, approving, batch>>
    /\ pos' \in Nat /\ pool' \in Seq(Nat) /\ results' \in Seq(Nat)

LEMMA LogKeepsRecord ==
    ASSUME NEW r \in Record, NEW e \in Item
    PROVE  /\ Log(r, e) \in Record /\ Say(r, e) \in Record
           /\ Log(r, e).messages = r.messages /\ Log(r, e).status = r.status
           /\ LastKind(Log(r, e).events) = e.kind
           /\ Say(r, e).events = r.events /\ Say(r, e).status = r.status
           /\ EndsWith(Say(r, e).messages, e)
<1>1. ASSUME NEW s \in Seq(Item)
      PROVE  /\ Append(s, e) \in Seq(Item) /\ Append(s, e) # <<>>
             /\ Append(s, e)[Len(Append(s, e))] = e
  OBVIOUS
<1>2. r.messages \in Seq(Item) /\ r.events \in Seq(Item)
  BY DEF Record
<1>3. /\ Log(r, e).messages = r.messages /\ Log(r, e).status = r.status
      /\ Log(r, e).events = Append(r.events, e)
      /\ Say(r, e).events = r.events /\ Say(r, e).status = r.status
      /\ Say(r, e).messages = Append(r.messages, e)
  BY DEF Log, Say, Record
<1>4. Log(r, e) \in Record
  BY <1>1, <1>2 DEF Log, Record
<1>5. Say(r, e) \in Record
  BY <1>1, <1>2 DEF Say, Record
<1>6. LastKind(Log(r, e).events) = e.kind /\ EndsWith(Say(r, e).messages, e)
  BY <1>1, <1>2, <1>3 DEF LastKind, EndsWith
<1>. QED BY <1>3, <1>4, <1>5, <1>6

LEMMA LogStepKeeps ==
    ASSUME Inductive, NEW e \in Item, LogStep(e), pc \notin Closing, pc' \notin Closing,
           pc' \in {"tools", "running", "broken", "asking"}
               => pc \in {"tools", "running", "broken", "asking"},
           pc' = "asking" => ~approving /\ e.kind = "requires_action"
    PROVE  Inductive'
<1>. USE DEF Inductive, LogStep
<1>1. /\ rec' \in Record /\ rec'.messages = rec.messages /\ rec'.status = "running"
      /\ LastKind(rec'.events) = e.kind
  BY LogKeepsRecord DEF Typed, OneRecord, Closing
<1>2. Typed' /\ OneRecord'
  BY <1>1 DEF Typed, OneRecord, Closing
<1>3. CallsAreLast' /\ AskIsLast'
  BY <1>1 DEF CallsAreLast, AskIsLast
<1>4. Resumable'
  BY <1>1 DEF Resumable
<1>. QED BY <1>2, <1>3, <1>4

(* A step outside a batch: whatever enters the record, saved or not.       *)
Outside == Locations \ ({"tools", "running", "broken", "asking"} \cup Closing)

LEMMA OutsideKeeps ==
    ASSUME Inductive, Typed', rec'.status = "running", disk' \in {disk, rec'},
           pc' \in Outside
    PROVE  Inductive'
BY DEF Inductive, OneRecord, CallsAreLast, AskIsLast, Resumable, Outside, Closing

(* The end of a turn or a continuation is put into the record ...          *)
LEMMA TerminalKeeps ==
    ASSUME Inductive, NEW r \in Record, NEW type \in Ending, Terminal(r, type)
    PROVE  Inductive'
<1>1. Final(type) \in Item
  BY DEF Final, Current, Item, ItemKinds, Ending, Inductive, Typed, Batch
<1>2. Log(r, Final(type)) \in Record
  BY <1>1, LogKeepsRecord
<1>3. NoBatch \in Batch
  BY DEF NoBatch, Batch
<1>4. rec' \in Record /\ rec'.status = "idle" /\ disk' = disk
  BY <1>2, <1>3 DEF Terminal, Keep, Record
<1>5. pc' = "ending" /\ UNCHANGED <<turn, iter, batch, pos, pool, results>>
  BY DEF Terminal, control, work
<1>6. Typed'
  BY <1>4, <1>5 DEF Typed, Inductive
<1>. QED BY <1>4, <1>5, <1>6 DEF Inductive, OneRecord, CallsAreLast, AskIsLast, Resumable,
        Closing

(* ... and saved, as that of a rejection is.                               *)
LEMMA EndKeeps ==
    ASSUME Inductive, Telling
    PROVE  Inductive'
<1>1. NoBatch \in Batch
  BY DEF NoBatch, Batch
<1>2. /\ rec' = rec /\ disk' = rec /\ rec.status = "idle" /\ rec \in Record /\ pc' = "idle"
  BY DEF Telling, SaveEnd, SaveReject, Save, Leave, Inductive, Typed, OneRecord, Closing
<1>3. \E how \in {"ended", "rejected"} : Leave(how)
  BY DEF Telling, SaveEnd, SaveReject
<1>4. Typed'
  BY <1>1, <1>2, <1>3 DEF Leave, Typed, Inductive
<1>. QED BY <1>2, <1>4 DEF Inductive, OneRecord, CallsAreLast, AskIsLast, Resumable

(* An exception escapes, or the process dies: the disk is as it was.       *)
LEMMA LostKeeps ==
    ASSUME Inductive, NEW how \in {"escaped", "crashed"}, Leave(how),
           rec' = disk, disk' = disk
    PROVE  Inductive'
<1>1. NoBatch \in Batch
  BY DEF NoBatch, Batch
<1>2. Typed'
  BY <1>1 DEF Typed, Inductive, Leave
<1>. QED BY <1>2 DEF Inductive, OneRecord, CallsAreLast, AskIsLast, Resumable, Leave

-----------------------------------------------------------------------------
(* The entries that the loop logs.                                         *)
LEMMA Entries ==
    ASSUME Typed, NEW kind \in ItemKinds
    PROVE  /\ Plain(kind) \in Item /\ Plain(kind).kind = kind
           /\ \A i \in Nat : Entry(kind, i) \in Item /\ Entry(kind, i).kind = kind
           /\ pc = "running" => Working \in Nat
           /\ pool # <<>> => Head(pool) \in Nat /\ Tail(pool) \in Seq(Nat)
BY DEF Typed, Plain, Entry, Item, Batch, Working

(* Starting and leaving a turn, the model's answers and what follows them. *)
LEMMA TurnKeeps ==
    ASSUME Inductive, StartTurn \/ SaveStart \/ Iterate \/ CancelTurn \/ LimitReached
    PROVE  Inductive'
<1>. USE DEF Closing
<1>1. CASE StartTurn
  <2>1. [disk EXCEPT !.status = "running"] \in Record
    BY DEF Inductive, Typed, Record
  <2>2. rec' \in Record /\ rec'.status = "running"
    BY <1>1, <2>1, Entries, LogKeepsRecord DEF StartTurn, Keep, Inductive, ItemKinds, Record
  <2>3. Typed'
    BY <1>1, <2>2 DEF StartTurn, Keep, work, Typed, Inductive
  <2>. QED BY <1>1, <2>2, <2>3, OutsideKeeps DEF StartTurn, Keep, Outside, Locations
<1>2. CASE SaveStart \/ Iterate
  <2>1. Typed' /\ rec' = rec /\ disk' \in {disk, rec}
    BY <1>2 DEF SaveStart, Iterate, Save, work, control, Typed, Inductive
  <2>2. pc \in {"started", "loop"} /\ pc' \in Outside
    BY <1>2 DEF SaveStart, Iterate, Outside, Locations
  <2>. QED BY <2>1, <2>2, OutsideKeeps DEF Inductive, OneRecord
<1>3. CASE CancelTurn \/ LimitReached
  BY <1>3, TerminalKeeps DEF CancelTurn, LimitReached, Inductive, Typed, Ending
<1>. QED BY <1>1, <1>2, <1>3

LEMMA ModelKeeps ==
    ASSUME Inductive, TurnAssumption, ModelStep
    PROVE  Inductive'
<1>. USE DEF Closing
<1>1. CASE ModelDelta
  <2>1. Plain("assistant_delta") \in Item
    BY Entries DEF Inductive, ItemKinds
  <2>2. LogStep(Plain("assistant_delta")) /\ pc' = pc /\ pc \in {"model", "reply"}
    BY <1>1 DEF ModelDelta, Save, LogStep, work, Inductive, Typed
  <2>. QED BY <2>1, <2>2, LogStepKeeps
<1>2. CASE ModelStopped \/ RetriesExhausted \/ Complete
  BY <1>2, TerminalKeeps DEF ModelStopped, RetriesExhausted, Complete, Inductive, Typed, Ending
<1>3. CASE ModelError \/ SaveAnswer
  <2>1. Typed' /\ rec' = rec /\ disk' \in {disk, rec}
    BY <1>3 DEF ModelError, SaveAnswer, Save, work, control, Typed, Inductive
  <2>2. pc \in {"model", "answered"} /\ pc' \in Outside
    BY <1>3 DEF ModelError, SaveAnswer, Outside, Locations
  <2>. QED BY <2>1, <2>2, OutsideKeeps DEF Inductive, OneRecord
<1>4. CASE ModelAnswers
  <2>1. rec' \in Record /\ rec'.status = "running"
    <3>1. Plain("assistant") \in Item /\ Plain("assistant_message") \in Item
      BY Entries DEF Inductive, ItemKinds
    <3>2. Say(rec, Plain("assistant")) \in Record
          /\ Say(rec, Plain("assistant")).status = rec.status
      BY <3>1, LogKeepsRecord DEF Inductive, Typed
    <3>3. rec.status = "running"
      BY <1>4 DEF ModelAnswers, Inductive, OneRecord
    <3>. QED BY <1>4, <3>1, <3>2, <3>3, LogKeepsRecord DEF ModelAnswers, Keep
  <2>2. Typed'
    BY <1>4, <2>1 DEF ModelAnswers, Keep, work, control, Typed, Inductive
  <2>. QED BY <1>4, <2>1, <2>2, OutsideKeeps DEF ModelAnswers, Keep, Outside, Locations
<1>5. ASSUME NEW calls \in Batches, ModelCalls(calls)
      PROVE  Inductive'
  <2>1. calls \in Seq(Kinds) /\ calls # <<>>
    BY DEF TurnAssumption
  <2>2. /\ batch' = [turn |-> turn, iter |-> iter, calls |-> calls] /\ batch' \in Batch
        /\ CallsOf(batch') \in Item /\ rec' = Say(rec, CallsOf(batch'))
    BY <1>5, <2>1 DEF ModelCalls, Keep, Inductive, Typed, Batch, CallsOf, Item, ItemKinds
  <2>3. rec' \in Record /\ rec'.status = "running" /\ EndsWith(rec'.messages, CallsOf(batch'))
    BY <1>5, <2>2, LogKeepsRecord DEF ModelCalls, Inductive, Typed, OneRecord
  <2>4. Typed'
    BY <1>5, <2>2, <2>3 DEF ModelCalls, Keep, Typed, Inductive
  <2>. QED BY <1>5, <2>1, <2>2, <2>3, <2>4 DEF ModelCalls, Keep, Inductive, OneRecord,
          CallsAreLast, AskIsLast, Resumable, Closing
<1>. QED BY <1>1, <1>2, <1>3, <1>4, <1>5 DEF ModelStep

(* A call is judged, starts, works, returns or breaks.                     *)
LEMMA AskKeeps ==
    ASSUME Inductive, RequireAction, pc \in {"tools", "running"}
    PROVE  Inductive'
<1>. USE DEF Closing
<1>1. CASE approving /\ Escape
  BY <1>1, LostKeeps DEF Escape
<1>2. CASE /\ ~approving /\ Keep(Log(rec, Plain("requires_action")))
           /\ pc' = "asking" /\ UNCHANGED <<control, work>>
  <2>1. Plain("requires_action") \in Item /\ Plain("requires_action").kind = "requires_action"
    BY Entries DEF Inductive, ItemKinds
  <2>2. LogStep(Plain("requires_action"))
    BY <1>2 DEF Keep, LogStep, control, work, Inductive, Typed
  <2>. QED BY <1>2, <2>1, <2>2, LogStepKeeps
<1>. QED BY <1>1, <1>2 DEF RequireAction

LEMMA JudgedKeeps ==
    ASSUME Inductive, Judged
    PROVE  Inductive'
<1>. USE DEF Closing
<1>1. CASE AskPermission
  BY <1>1, AskKeeps DEF AskPermission, InBatch
<1>2. CASE Refuse
  BY <1>2, LostKeeps, TerminalKeeps DEF Refuse, Escape, Inductive, Typed, Ending
<1>3. CASE StartTool \/ SetAside
  <2>1. Entry("tool_started", pos) \in Item
    BY Entries DEF Inductive, Typed, ItemKinds
  <2>2. LogStep(Entry("tool_started", pos)) /\ pc = "tools" /\ pc' \in {"running", "tools"}
    <3>1. CASE StartTool
      BY <3>1 DEF StartTool, InBatch, Keep, LogStep, work, Inductive, Typed
    <3>2. CASE SetAside
      BY <3>2 DEF SetAside, InBatch, Keep, LogStep, Inductive, Typed
    <3>. QED BY <1>3, <3>1, <3>2
  <2>. QED BY <2>1, <2>2, LogStepKeeps
<1>. QED BY <1>1, <1>2, <1>3 DEF Judged

LEMMA WorkKeeps ==
    ASSUME Inductive, NEW type \in {"tool_failed", "tool_cancelled"},
           ToolProgress \/ ToolReturns \/ ToolBreaks(type)
    PROVE  Inductive'
<1>. USE DEF Closing
<1>1. Working \in Nat /\ pc \in {"running", "tools"}
  BY DEF ToolProgress, ToolReturns, ToolBreaks, AtWork, Pooled, Working, Inductive, Typed
<1>2. \E e \in Item : LogStep(e)
  <2>1. CASE ToolProgress
    <3>1. Entry("tool_progress", Working) \in Item
      BY <1>1, Entries DEF Inductive, ItemKinds
    <3>2. LogStep(Entry("tool_progress", Working))
      BY <2>1 DEF ToolProgress, Save, LogStep, work, Inductive, Typed
    <3>. QED BY <3>1, <3>2
  <2>2. CASE ToolReturns
    <3>1. Entry("tool_result", Working) \in Item
      BY <1>1, Entries DEF Inductive, ItemKinds
    <3>2. pos' \in Nat /\ pool' \in Seq(Nat) /\ results' \in Seq(Nat)
      <4>1. results' = Append(results, Working) /\ results \in Seq(Nat)
        BY <2>2 DEF ToolReturns, Inductive, Typed
      <4>2. CASE pc = "running"
        BY <1>1, <2>2, <4>1, <4>2 DEF ToolReturns, Inductive, Typed
      <4>3. CASE pc # "running"
        <5>1. pool \in Seq(Nat) /\ pool # <<>> /\ pool' = Tail(pool) /\ pos' = pos
          BY <2>2, <4>3 DEF ToolReturns, AtWork, Pooled, Inductive, Typed
        <5>2. Tail(pool) \in Seq(Nat)
          BY <5>1
        <5>. QED BY <1>1, <4>1, <5>1, <5>2 DEF Inductive, Typed
      <4>. QED BY <4>2, <4>3
    <3>3. LogStep(Entry("tool_result", Working))
      BY <2>2, <3>2 DEF ToolReturns, Save, LogStep
    <3>. QED BY <3>1, <3>3
  <2>3. CASE ToolBreaks(type)
    <3>1. Entry(type, Working) \in Item
      BY <1>1, Entries DEF Inductive, ItemKinds
    <3>2. LogStep(Entry(type, Working))
      BY <2>3 DEF ToolBreaks, Save, LogStep, work, control, Inductive, Typed
    <3>. QED BY <3>1, <3>2
  <2>. QED BY <2>1, <2>2, <2>3
<1>3. pc' \in {"running", "tools", "broken"}
  BY <1>1 DEF ToolProgress, ToolReturns, ToolBreaks
<1>. QED BY <1>1, <1>2, <1>3, LogStepKeeps

(* The batch waits for its approval, is through, or ends the turn.         *)
LEMMA BatchKeeps ==
    ASSUME Inductive, SaveAsk \/ BatchDone \/ FailTurn \/ UnknownTool \/ ToolAsks
    PROVE  Inductive'
<1>. USE DEF Closing
<1>1. CASE SaveAsk
  <2>1. /\ disk' = [rec EXCEPT !.status = "requires_action", !.pending = batch]
        /\ rec' = disk' /\ pc = "asking" /\ pc' = "idle" /\ left' = "asked"
    BY <1>1 DEF SaveAsk, Save, Leave
  <2>2. /\ disk' \in Record /\ disk'.status = "requires_action" /\ disk'.pending = batch
        /\ disk'.messages = rec.messages /\ disk'.events = rec.events
    BY <2>1 DEF Inductive, Typed, Record
  <2>3. Typed'
    BY <1>1, <2>1, <2>2 DEF SaveAsk, Leave, NoBatch, Batch, Typed, Inductive
  <2>4. Resumable'
    BY <2>1, <2>2 DEF Inductive, CallsAreLast, AskIsLast, Resumable, CallsOf
  <2>. QED BY <2>1, <2>2, <2>3, <2>4 DEF Inductive, OneRecord, CallsAreLast, AskIsLast
<1>2. CASE BatchDone
  <2>1. Answered(rec) \in Record /\ Answered(rec).status = "running"
    <3>1. [k \in 1..Len(results) |-> Entry("result", results[k])] \in Seq(Item)
      <4>1. \A k \in 1..Len(results) : Entry("result", results[k]) \in Item
        BY Entries DEF Inductive, Typed, ItemKinds
      <4>2. Len(results) \in Nat
        BY DEF Inductive, Typed
      <4>. QED BY <4>1, <4>2
    <3>2. rec \in Record /\ rec.status = "running"
      BY <1>2 DEF BatchDone, Inductive, Typed, OneRecord
    <3>3. rec.messages \o [k \in 1..Len(results) |-> Entry("result", results[k])] \in Seq(Item)
      BY <3>1, <3>2 DEF Record
    <3>. QED BY <3>2, <3>3 DEF Answered, Record
  <2>2. rec' \in Record /\ rec'.status = "running" /\ disk' \in {disk, rec'}
    <3>1. [Answered(rec) EXCEPT !.pending = NoBatch] \in Record
      <4>1. NoBatch \in Batch
        BY DEF NoBatch, Batch
      <4>. QED BY <2>1, <4>1 DEF Record
    <3>2. [Answered(rec) EXCEPT !.pending = NoBatch].status = "running"
      BY <2>1 DEF Record
    <3>3. CASE approving
      BY <1>2, <3>1, <3>2, <3>3 DEF BatchDone, Keep
    <3>4. CASE ~approving
      BY <1>2, <2>1, <3>4 DEF BatchDone, Save
    <3>. QED BY <3>3, <3>4
  <2>3. disk' \in Record /\ pc' \in Outside
    BY <1>2, <2>2 DEF BatchDone, Inductive, Typed, Outside, Locations
  <2>4. Typed'
    BY <1>2, <2>2, <2>3 DEF BatchDone, NoBatch, Batch, Typed, Inductive
  <2>. QED BY <2>2, <2>3, <2>4, OutsideKeeps
<1>3. CASE FailTurn
  BY <1>3, TerminalKeeps DEF FailTurn, Inductive, Typed, Ending
<1>4. CASE UnknownTool
  BY <1>4, LostKeeps DEF UnknownTool, Escape
<1>5. CASE ToolAsks
  BY <1>5, AskKeeps DEF ToolAsks, Asks
<1>. QED BY <1>1, <1>2, <1>3, <1>4, <1>5

(* The user's answer, the continuation's reply, and a crash.               *)
LEMMA ContinueKeeps ==
    ASSUME Inductive, Reject \/ Approve \/ Reply \/ ReplyError \/ EndFails \/ Crash
    PROVE  Inductive'
<1>0. NoBatch \in Batch
  BY DEF NoBatch, Batch
<1>1. CASE Reject
  <2>1. /\ rec' = [disk EXCEPT !.status = "idle", !.pending = NoBatch]
        /\ disk' = disk /\ pc' = "rejecting"
    BY <1>1 DEF Reject, Keep
  <2>2. rec' \in Record /\ rec'.status = "idle" /\ disk.pending \in Batch
    BY <1>0, <2>1 DEF Inductive, Typed, Record
  <2>3. Typed'
    BY <1>1, <2>1, <2>2 DEF Reject, Typed, Inductive
  <2>. QED BY <2>1, <2>2, <2>3 DEF Inductive, OneRecord, CallsAreLast, AskIsLast,
          Resumable, Closing
<1>2. CASE Approve
  <2>1. rec' = [disk EXCEPT !.status = "running"] /\ disk' = disk
    BY <1>2 DEF Approve, Keep
  <2>2. rec' \in Record /\ rec'.status = "running" /\ disk.pending \in Batch
    BY <2>1 DEF Inductive, Typed, Record
  <2>3. Typed'
    BY <1>2, <2>1, <2>2 DEF Approve, Typed, Inductive
  <2>4. disk.pending.calls # <<>> /\ EndsWith(rec'.messages, CallsOf(disk.pending))
    BY <1>2, <2>1 DEF Approve, Waiting, Inductive, Typed, Record, Resumable
  <2>. QED BY <1>2, <2>1, <2>2, <2>3, <2>4 DEF Approve, Inductive, OneRecord, CallsAreLast,
          AskIsLast, Resumable, CallsOf, Closing
<1>3. CASE Reply
  <2>1. Plain("assistant") \in Item /\ Plain("assistant_message") \in Item
    BY Entries DEF Inductive, ItemKinds
  <2>2. Say(rec, Plain("assistant")) \in Record
    BY <2>1, LogKeepsRecord DEF Inductive, Typed
  <2>3. Log(Say(rec, Plain("assistant")), Plain("assistant_message")) \in Record
    BY <2>1, <2>2, LogKeepsRecord
  <2>. QED BY <1>3, <2>3, TerminalKeeps DEF Reply, Inductive, Typed, Ending
<1>4. CASE ReplyError \/ EndFails \/ Crash
  BY <1>4, LostKeeps DEF ReplyError, EndFails, Escape, Crash
<1>. QED BY <1>1, <1>2, <1>3, <1>4

-----------------------------------------------------------------------------
(* The strengthened invariant holds of every reachable state.              *)
THEOREM RecordIsFollowed == Spec => []Inductive
<1>. USE TurnAssumption
<1>1. Init => Inductive
  <2>. SUFFICES ASSUME Init PROVE Inductive
    OBVIOUS
  <2>1. Typed
    BY DEF Init, Typed, Record, NoBatch, Batch
  <2>. QED BY <2>1 DEF Init, Inductive, OneRecord, CallsAreLast, AskIsLast, Resumable
<1>2. Inductive /\ [Next]_vars => Inductive'
  <2>. SUFFICES ASSUME Inductive, [Next]_vars PROVE Inductive'
    OBVIOUS
  <2>1. CASE Judged
    BY <2>1, JudgedKeeps
  <2>2. CASE ModelStep
    BY <2>2, ModelKeeps
  <2>3. CASE ToolStep
    BY <2>3, BatchKeeps, WorkKeeps DEF ToolStep
  <2>4. CASE StartTurn \/ SaveStart \/ Iterate \/ CancelTurn \/ LimitReached
    BY <2>4, TurnKeeps
  <2>5. CASE Reject \/ Approve \/ Reply \/ ReplyError \/ EndFails \/ Crash
    BY <2>5, ContinueKeeps
  <2>6. CASE UNCHANGED vars
    BY <2>6 DEF vars, control, work, Inductive, Typed, OneRecord, CallsAreLast,
       AskIsLast, Resumable
  <2>7. CASE Telling
    BY <2>7, EndKeeps
  <2>. QED BY <2>1, <2>2, <2>3, <2>4, <2>5, <2>6, <2>7 DEF Next, Run, Untold, Unjudged, Call
<1>. QED BY <1>1, <1>2, PTL DEF Spec

(* A saved session that says requires_action can be continued.             *)
THEOREM AlwaysResumable == Spec => []ResumePoint
<1>1. Inductive => ResumePoint
  <2>. SUFFICES ASSUME Inductive, disk.status = "requires_action"
       PROVE  /\ disk.pending # NoBatch
              /\ disk.messages[Len(disk.messages)] = CallsOf(disk.pending)
    BY DEF ResumePoint, CallsOf
  <2>. QED BY DEF Inductive, Resumable, EndsWith, NoBatch
<1>. QED BY <1>1, RecordIsFollowed, PTL

-----------------------------------------------------------------------------
(* What was told stands.  A turn that has been told about is behind: it is *)
(* not the one the loop is in, nor the one whose calls wait on disk, since *)
(* SaveEnd and SaveReject put a record on disk that waits for nothing, and *)
(* a request for approval is about the turn that makes it.                 *)
Batching == {"tools", "running", "broken", "asking"}
Turning  == {"started", "loop", "model", "answered", "completing"}

Settled ==
    /\ \A e \in told :
          /\ e.turn \in Nat /\ e.turn <= turn
          /\ e.how = "ended" => Logged(disk, e.turn) /\ Logged(rec, e.turn)
          /\ disk.status = "requires_action" => disk.pending.turn # e.turn
          /\ pc # "idle" => Current # e.turn
    /\ disk.pending.turn <= turn /\ rec.pending.turn <= turn /\ batch.turn <= turn
    /\ pc \in Batching /\ ~approving => batch.turn = turn
    /\ pc \in Turning => ~approving
    /\ pc = "ending" => Logged(rec, Current)

(* The log of a record only grows.                                         *)
Grown(r, s) == \A t : Logged(r, t) => Logged(s, t)

LEMMA GrownByEvent ==
    ASSUME NEW r \in Record, NEW e \in Item
    PROVE  /\ Grown(r, Log(r, e)) /\ Log(r, e).pending = r.pending
           /\ e.kind \in Ending => Logged(Log(r, e), e.turn)
<1>1. /\ Log(r, e).events = Append(r.events, e) /\ r.events \in Seq(Item)
      /\ Log(r, e).pending = r.pending
  BY DEF Log, Record
<1>. DEFINE s == Append(r.events, e)
<1>2. /\ Len(s) \in Nat /\ Len(s) = Len(r.events) + 1 /\ s[Len(s)] = e
      /\ \A i \in 1..Len(r.events) : i \in 1..Len(s) /\ s[i] = r.events[i]
  BY <1>1
<1>. HIDE DEF s
<1>3. Log(r, e).events = s
  BY <1>1 DEF s
<1>4. Grown(r, Log(r, e))
  BY <1>2, <1>3 DEF Grown, Logged
<1>5. ASSUME e.kind \in Ending PROVE Logged(Log(r, e), e.turn)
  <2>1. Len(s) \in 1..Len(s)
    BY <1>1, <1>2
  <2>. QED BY <1>2, <1>3, <1>5, <2>1 DEF Logged
<1>. QED BY <1>1, <1>4, <1>5

LEMMA GrownBySame ==
    ASSUME NEW r, NEW s, s.events = r.events
    PROVE  Grown(r, s)
BY DEF Grown, Logged

(* A step inside a turn or a continuation.                                 *)
LEMMA InsideSettled ==
    ASSUME Settled, Inductive, Inductive',
           UNCHANGED <<told, turn, approving>>, pc \notin Closing, pc' \notin {"idle", "rejecting"},
           approving => batch' = batch, disk' \in {disk, rec'}, Grown(rec, rec'),
           rec'.pending.turn <= turn, batch'.turn <= turn,
           pc' \in Batching /\ ~approving => batch'.turn = turn,
           pc' \in Turning => ~approving,
           pc' = "ending" => Logged(rec', Current')
    PROVE  Settled'
<1>1. Current' = Current /\ pc # "idle"
  BY DEF Current, Closing
<1>2. rec'.status # "requires_action"
  BY DEF Inductive, OneRecord
<1>3. ASSUME NEW e \in told
      PROVE  /\ e.turn \in Nat /\ e.turn <= turn'
             /\ e.how = "ended" => Logged(disk', e.turn) /\ Logged(rec', e.turn)
             /\ disk'.status = "requires_action" => disk'.pending.turn # e.turn
             /\ Current' # e.turn
  BY <1>1, <1>2 DEF Settled, Grown
<1>4. disk'.pending.turn <= turn'
  BY DEF Settled
<1>. QED BY <1>3, <1>4 DEF Settled

(* The end is put into the record.                                         *)
LEMMA TerminalSettled ==
    ASSUME Settled, Inductive, Inductive', told' = told, pc \notin Closing,
           NEW type \in Ending, NEW r \in Record, Terminal(r, type),
           Grown(rec, r), r.pending = rec.pending
    PROVE  Settled'
<1>1. /\ pc' = "ending" /\ disk' = disk
      /\ UNCHANGED <<turn, approving, batch>>
  BY DEF Terminal, Keep, control, work
<1>2. Current' = Current /\ Final(type).turn = Current /\ Final(type).kind = type
  BY <1>1 DEF Current, Final, Closing
<1>3. Final(type) \in Item
  BY DEF Final, Current, Item, ItemKinds, Ending, Inductive, Typed, Batch
<1>. DEFINE q == Log(r, Final(type))
<1>4. Grown(r, q) /\ q.pending = r.pending /\ Logged(q, Current) /\ q \in Record
  BY <1>2, <1>3, GrownByEvent, LogKeepsRecord
<1>5. /\ rec'.events = q.events
      /\ rec'.pending = IF approving THEN NoBatch ELSE q.pending
  BY <1>4 DEF Terminal, Keep, Record
<1>. HIDE DEF q
<1>6. Grown(rec, rec') /\ Logged(rec', Current')
  BY <1>2, <1>4, <1>5 DEF Grown, Logged
<1>7. turn \in Nat /\ rec'.pending.turn <= turn
  BY <1>4, <1>5 DEF NoBatch, Settled, Inductive, Typed
<1>8. batch'.turn <= turn
  BY <1>1 DEF Settled
<1>9. pc' \notin {"idle", "rejecting"} /\ pc' \notin Batching \cup Turning
  BY <1>1 DEF Batching, Turning
<1>. QED BY <1>1, <1>6, <1>7, <1>8, <1>9, InsideSettled

(* An exception, or the process dies.                                      *)
LEMMA LostSettled ==
    ASSUME Settled, Inductive, told' = told, NEW how, Leave(how), rec' = disk, disk' = disk
    PROVE  Settled'
BY DEF Settled, Leave, NoBatch, Batching, Turning, Inductive, Typed

(* An entry is put into the log of the record.                             *)
LEMMA EntrySettled ==
    ASSUME Settled, Inductive, Inductive', NEW e \in Item,
           UNCHANGED <<told, turn, approving, batch>>,
           rec' = Log(rec, e), disk' \in {disk, rec'},
           pc \notin Closing, pc' \notin Closing,
           pc' \in Batching => pc \in Batching, pc' \in Turning => pc \in Turning
    PROVE  Settled'
<1>1. Grown(rec, rec') /\ rec'.pending = rec.pending
  BY GrownByEvent DEF Inductive, Typed
<1>. QED BY <1>1, InsideSettled DEF Settled, Closing

LEMMA AskSettled ==
    ASSUME Settled, Inductive, Inductive', told' = told, RequireAction, pc \in {"tools", "running"}
    PROVE  Settled'
<1>1. CASE Escape
  BY <1>1, LostSettled DEF Escape
<1>2. CASE ~Escape
  <2>1. Plain("requires_action") \in Item
    BY Entries DEF Inductive, ItemKinds
  <2>2. /\ UNCHANGED <<turn, approving, batch>> /\ pc' = "asking"
        /\ rec' = Log(rec, Plain("requires_action")) /\ disk' = disk
    BY <1>2 DEF RequireAction, Keep, control, work
  <2>. QED BY <2>1, <2>2, EntrySettled DEF Closing, Batching, Turning
<1>. QED BY <1>1, <1>2

LEMMA TurnSettled ==
    ASSUME Settled, Inductive, Inductive', told' = told, TurnAssumption,
           StartTurn \/ SaveStart \/ Iterate \/ CancelTurn \/ LimitReached \/ ModelStep
    PROVE  Settled'
<1>1. CASE StartTurn
  <2>1. /\ disk' = disk /\ turn' = turn + 1 /\ ~approving' /\ pc' = "started" /\ batch' = batch
        /\ pc = "idle" /\ rec = disk
    BY <1>1 DEF StartTurn, Keep, work, Inductive, OneRecord
  <2>2. /\ disk \in Record /\ turn \in Nat /\ disk.pending.turn \in Nat /\ batch.turn \in Nat
    BY DEF Inductive, Typed, Record, Batch
  <2>. DEFINE d == [disk EXCEPT !.status = "running"]
              u == Say(d, Plain("user"))
  <2>3. d \in Record /\ d.events = disk.events /\ d.pending = disk.pending
    BY <2>2 DEF Record
  <2>4. Plain("user") \in Item /\ Plain("turn_started") \in Item
    BY Entries DEF Inductive, ItemKinds
  <2>5. u \in Record /\ u.events = d.events /\ u.pending = d.pending
    BY <2>3, <2>4, LogKeepsRecord DEF Say, Record
  <2>6. rec' = Log(u, Plain("turn_started"))
    BY <1>1 DEF StartTurn, Keep
  <2>. HIDE DEF d, u
  <2>7. Grown(disk, u) /\ Grown(u, rec') /\ rec'.pending = disk.pending
    BY <2>3, <2>4, <2>5, <2>6, GrownByEvent, GrownBySame
  <2>8. Current' = turn + 1
    BY <2>1 DEF Current
  <2>. QED BY <2>1, <2>2, <2>7, <2>8 DEF Settled, Grown, Batching, Turning
<1>2. CASE SaveStart \/ Iterate \/ ModelError \/ SaveAnswer
  <2>1. /\ rec' = rec /\ disk' \in {disk, rec'} /\ UNCHANGED <<turn, approving, batch>>
        /\ pc \in Turning \ Closing /\ pc' \in Turning \ (Closing \cup Batching)
    BY <1>2 DEF SaveStart, Iterate, ModelError, SaveAnswer, Save, control, work, Closing, Batching,
       Turning
  <2>. QED BY <2>1, InsideSettled, GrownBySame DEF Settled, Closing
<1>3. CASE CancelTurn \/ LimitReached \/ ModelStopped \/ RetriesExhausted \/ Complete
  <2>1. \E type \in Ending : Terminal(rec, type)
    BY <1>3 DEF CancelTurn, LimitReached, ModelStopped, RetriesExhausted, Complete, Ending
  <2>2. pc \notin Closing
    BY <1>3 DEF CancelTurn, LimitReached, ModelStopped, RetriesExhausted, Complete, Closing
  <2>3. rec \in Record /\ Grown(rec, rec)
    BY DEF Inductive, Typed, Grown
  <2>. QED BY <2>1, <2>2, <2>3, TerminalSettled
<1>4. CASE ModelDelta
  <2>1. Plain("assistant_delta") \in Item
    BY Entries DEF Inductive, ItemKinds
  <2>2. /\ rec' = Log(rec, Plain("assistant_delta")) /\ disk' = rec'
        /\ UNCHANGED <<turn, approving, batch>> /\ pc' = pc /\ pc \in {"model", "reply"}
    BY <1>4 DEF ModelDelta, Save, work
  <2>. QED BY <2>1, <2>2, EntrySettled DEF Closing, Batching, Turning
<1>5. CASE ModelAnswers
  <2>1. Plain("assistant") \in Item /\ Plain("assistant_message") \in Item
    BY Entries DEF Inductive, ItemKinds
  <2>2. /\ rec' = Log(Say(rec, Plain("assistant")), Plain("assistant_message")) /\ disk' = disk
        /\ UNCHANGED <<turn, approving, batch>> /\ pc' = "answered" /\ pc = "model"
    BY <1>5 DEF ModelAnswers, Keep, work, control
  <2>. DEFINE u == Say(rec, Plain("assistant"))
  <2>3. u \in Record /\ u.events = rec.events /\ u.pending = rec.pending
    BY <2>1, LogKeepsRecord DEF Say, Record, Inductive, Typed
  <2>4. rec' = Log(u, Plain("assistant_message"))
    BY <2>2
  <2>. HIDE DEF u
  <2>5. Grown(rec, u) /\ Grown(u, rec') /\ rec'.pending = rec.pending
    BY <2>1, <2>3, <2>4, GrownByEvent, GrownBySame
  <2>6. Grown(rec, rec')
    BY <2>5 DEF Grown
  <2>. QED BY <2>2, <2>5, <2>6, InsideSettled DEF Settled, Closing, Batching, Turning
<1>6. ASSUME NEW calls \in Batches, ModelCalls(calls)
      PROVE  Settled'
  <2>1. /\ batch'.turn = turn /\ disk' = disk /\ pc = "model" /\ pc' = "tools"
        /\ UNCHANGED <<turn, approving>>
    BY <1>6 DEF ModelCalls, Keep
  <2>2. rec'.events = rec.events /\ rec'.pending = rec.pending
    BY <1>6 DEF ModelCalls, Keep, Say, Inductive, Typed, Record
  <2>3. ~approving
    BY <2>1 DEF Settled, Turning
  <2>4. rec'.pending.turn <= turn /\ batch'.turn <= turn /\ Grown(rec, rec')
    BY <2>1, <2>2, GrownBySame DEF Settled, Inductive, Typed
  <2>. QED BY <2>1, <2>3, <2>4, InsideSettled DEF Closing, Batching, Turning
<1>. QED BY <1>1, <1>2, <1>3, <1>4, <1>5, <1>6 DEF ModelStep

LEMMA ToolSettled ==
    ASSUME Settled, Inductive, Inductive', told' = told, Judged \/ ToolStep
    PROVE  Settled'
<1>1. CASE AskPermission \/ ToolAsks
  BY <1>1, AskSettled DEF AskPermission, InBatch, ToolAsks, Asks
<1>2. CASE Refuse \/ FailTurn
  <2>1. CASE Escape
    BY <2>1, LostSettled DEF Escape
  <2>2. CASE ~Escape
    <3>1. Terminal(rec, "turn_failed") /\ pc \in {"tools", "broken"}
      BY <1>2, <2>2 DEF Refuse, FailTurn, InBatch
    <3>2. rec \in Record /\ Grown(rec, rec)
      BY DEF Inductive, Typed, Grown
    <3>. QED BY <3>1, <3>2, TerminalSettled DEF Ending, Closing
  <2>. QED BY <2>1, <2>2
<1>3. CASE StartTool \/ SetAside
  <2>1. Entry("tool_started", pos) \in Item
    BY Entries DEF Inductive, Typed, ItemKinds
  <2>2. /\ rec' = Log(rec, Entry("tool_started", pos)) /\ disk' = disk
        /\ UNCHANGED <<turn, approving, batch>> /\ pc = "tools" /\ pc' \in {"running", "tools"}
    BY <1>3 DEF StartTool, SetAside, InBatch, Keep, work
  <2>. QED BY <2>1, <2>2, EntrySettled DEF Closing, Batching, Turning
<1>4. ASSUME NEW type \in {"tool_failed", "tool_cancelled"},
             ToolProgress \/ ToolReturns \/ ToolBreaks(type)
      PROVE  Settled'
  <2>0. AtWork
    BY <1>4 DEF ToolProgress, ToolReturns, ToolBreaks
  <2>1. Working \in Nat /\ pc \in {"running", "tools"}
    BY <2>0 DEF AtWork, Pooled, Working, Inductive, Typed
  <2>2. PICK kind \in {"tool_progress", "tool_result", "tool_failed", "tool_cancelled"} :
           rec' = Log(rec, Entry(kind, Working)) /\ disk' = rec'
    BY <1>4 DEF ToolProgress, ToolReturns, ToolBreaks, Save
  <2>3. Entry(kind, Working) \in Item
    BY <2>1, Entries DEF Inductive, ItemKinds
  <2>4. UNCHANGED <<turn, approving, batch>> /\ pc' \in {"running", "tools", "broken"}
    BY <1>4, <2>1 DEF ToolProgress, ToolReturns, ToolBreaks, work, control
  <2>. QED BY <2>1, <2>2, <2>3, <2>4, EntrySettled DEF Closing, Batching, Turning
<1>5. CASE SaveAsk
  <2>1. /\ disk' = [rec EXCEPT !.status = "requires_action", !.pending = batch]
        /\ rec' = disk' /\ pc = "asking" /\ pc' = "idle" /\ batch' = NoBatch
        /\ UNCHANGED <<turn, approving>>
    BY <1>5 DEF SaveAsk, Save, Leave
  <2>2. disk'.pending = batch /\ disk'.events = rec.events
    BY <2>1 DEF Inductive, Typed, Record
  <2>3. ~approving /\ batch.turn = turn /\ Current = turn
    BY <2>1 DEF Inductive, AskIsLast, Settled, Batching, Current
  <2>4. Grown(rec, disk')
    BY <2>2, GrownBySame
  <2>5. turn \in Nat /\ NoBatch.turn <= turn
    BY DEF Inductive, Typed, NoBatch
  <2>. QED BY <2>1, <2>2, <2>3, <2>4, <2>5 DEF Settled, Grown, Batching, Turning
<1>6. CASE BatchDone
  <2>1. /\ pc = "tools" /\ UNCHANGED <<turn, approving>> /\ disk' \in {disk, rec'}
        /\ pc' = IF approving THEN "reply" ELSE "loop"
        /\ batch' = IF approving THEN batch ELSE NoBatch
    BY <1>6 DEF BatchDone, Keep, Save
  <2>2. /\ rec'.events = rec.events
        /\ rec'.pending = IF approving THEN NoBatch ELSE rec.pending
    BY <1>6 DEF BatchDone, Keep, Save, Answered, Inductive, Typed, Record
  <2>3. turn \in Nat /\ NoBatch.turn <= turn
    BY DEF Inductive, Typed, NoBatch
  <2>4. rec'.pending.turn <= turn /\ batch'.turn <= turn /\ Grown(rec, rec')
    BY <2>1, <2>2, <2>3, GrownBySame DEF Settled
  <2>. QED BY <2>1, <2>4, InsideSettled DEF Closing, Batching, Turning
<1>7. CASE UnknownTool
  BY <1>7, LostSettled DEF UnknownTool, Escape
<1>. QED BY <1>1, <1>2, <1>3, <1>4, <1>5, <1>6, <1>7 DEF Judged, ToolStep

(* The end is saved and told, or the user's answer starts a continuation.  *)
LEMMA TellSettled ==
    ASSUME Settled, Inductive, Telling
    PROVE  Settled'
<1>1. /\ disk' = rec /\ rec' = rec /\ rec.status = "idle" /\ pc' = "idle"
      /\ batch' = NoBatch /\ UNCHANGED <<turn, approving>>
  BY DEF Telling, SaveEnd, SaveReject, Save, Leave, Inductive, OneRecord, Closing
<1>2. Current \in Nat /\ Current <= turn
  BY DEF Current, Settled, Inductive, Typed, Batch
<1>3. /\ told' = told \cup {[turn |-> Current, how |-> IF pc = "ending" THEN "ended" ELSE "rejected"]}
  BY DEF Telling, SaveEnd, SaveReject, TellEnd
<1>4. ASSUME NEW e \in told'
      PROVE  /\ e.turn \in Nat /\ e.turn <= turn
             /\ e.how = "ended" => Logged(rec, e.turn)
  BY <1>2, <1>3 DEF Settled
<1>5. turn \in Nat /\ NoBatch.turn <= turn
  BY DEF Inductive, Typed, NoBatch
<1>. QED BY <1>1, <1>4, <1>5 DEF Settled, Batching, Turning

LEMMA ContinueSettled ==
    ASSUME Settled, Inductive, Inductive', told' = told,
           Reject \/ Approve \/ Reply \/ ReplyError \/ EndFails \/ Crash
    PROVE  Settled'
<1>1. CASE Reject \/ Approve
  <2>1. /\ pc = "idle" /\ disk' = disk /\ batch' = disk.pending /\ UNCHANGED turn
        /\ disk.status = "requires_action" /\ rec = disk
        /\ \/ pc' = "rejecting" /\ ~approving'
           \/ pc' = "tools" /\ approving'
    BY <1>1 DEF Reject, Approve, Waiting, Keep, Inductive, OneRecord
  <2>2. rec'.events = disk.events /\ rec'.pending \in {disk.pending, NoBatch}
    <3>1. \/ rec' = [disk EXCEPT !.status = "idle", !.pending = NoBatch]
          \/ rec' = [disk EXCEPT !.status = "running"]
      BY <1>1 DEF Reject, Approve, Keep
    <3>2. disk \in Record
      BY DEF Inductive, Typed
    <3>. QED BY <3>1, <3>2 DEF Record
  <2>3. Current' = disk.pending.turn
    BY <2>1 DEF Current
  <2>4. Grown(disk, rec')
    BY <2>2, GrownBySame
  <2>5. rec'.pending.turn <= turn
    BY <2>2 DEF NoBatch, Settled, Inductive, Typed
  <2>. QED BY <2>1, <2>3, <2>4, <2>5 DEF Settled, Grown, Batching, Turning
<1>2. CASE Reply
  <2>1. Plain("assistant") \in Item /\ Plain("assistant_message") \in Item
    BY Entries DEF Inductive, ItemKinds
  <2>. DEFINE u == Say(rec, Plain("assistant"))
              v == Log(u, Plain("assistant_message"))
  <2>2. u \in Record /\ u.events = rec.events /\ u.pending = rec.pending
    BY <2>1, LogKeepsRecord DEF Say, Record, Inductive, Typed
  <2>3. Terminal(v, "turn_completed") \/ Terminal(rec, "turn_completed")
    BY <1>2 DEF Reply
  <2>4. pc = "reply"
    BY <1>2 DEF Reply
  <2>5. v \in Record
    BY <2>1, <2>2, LogKeepsRecord
  <2>. HIDE DEF u
  <2>6. Grown(rec, u) /\ Grown(u, v) /\ v.pending = rec.pending
    BY <2>1, <2>2, GrownByEvent, GrownBySame
  <2>. HIDE DEF v
  <2>7. Grown(rec, v) /\ rec \in Record /\ Grown(rec, rec)
    BY <2>6 DEF Grown, Inductive, Typed
  <2>. QED BY <2>3, <2>4, <2>5, <2>6, <2>7, TerminalSettled DEF Ending, Closing
<1>3. CASE ReplyError \/ EndFails \/ Crash
  BY <1>3, LostSettled DEF ReplyError, EndFails, Escape, Crash
<1>. QED BY <1>1, <1>2, <1>3

(* What the caller was told of a turn's end stands, whatever crash,        *)
(* exception, continuation or later turn follows.                          *)
THEOREM OutcomeAlwaysStands == Spec => []OutcomeStands
<1>. USE TurnAssumption
<1>1. Init => Settled
  BY DEF Init, Settled, NoBatch, Batching, Turning
<1>2. Inductive /\ Inductive' /\ Settled /\ [Next]_vars => Settled'
  <2>. SUFFICES ASSUME Inductive, Inductive', Settled, [Next]_vars PROVE Settled'
    OBVIOUS
  <2>1. CASE Telling
    BY <2>1, TellSettled
  <2>2. CASE told' = told /\ (StartTurn \/ SaveStart \/ Iterate \/ CancelTurn \/ LimitReached \/ ModelStep)
    BY <2>2, TurnSettled
  <2>3. CASE told' = told /\ (Judged \/ ToolStep)
    BY <2>3, ToolSettled
  <2>4. CASE told' = told /\ (Reject \/ Approve \/ Reply \/ ReplyError \/ EndFails \/ Crash)
    BY <2>4, ContinueSettled
  <2>5. CASE UNCHANGED vars
    BY <2>5 DEF vars, control, work, Settled, Current, Logged
  <2>. QED BY <2>1, <2>2, <2>3, <2>4, <2>5 DEF Next, Run, Untold, Unjudged, Call
<1>3. Settled /\ Inductive => OutcomeStands
  <2>. SUFFICES ASSUME Settled, Inductive, NEW e \in told
       PROVE  /\ e.how = "ended" => Logged(disk, e.turn)
              /\ disk.status = "requires_action" => disk.pending.turn # e.turn
              /\ pc # "idle" /\ approving => batch.turn # e.turn
    BY DEF OutcomeStands
  <2>. QED BY DEF Settled, Current
<1>. QED BY <1>1, <1>2, <1>3, RecordIsFollowed, PTL DEF Spec

-----------------------------------------------------------------------------
(* The transcript: which calls there are, and which message answers which. *)
CallsIn(s)     == {i \in 1..Len(s) : s[i].kind = "calls"}
AnswerTo(m, c) == [m EXCEPT !.kind = "result", !.call = c]
AnsweredIn(s, i) ==
    \A c \in 1..s[i].call : \E j \in (i + 1)..Len(s) : s[j] = AnswerTo(s[i], c)

(* No iteration asks twice, and answers are distinct and follow their      *)
(* calls.                                                                  *)
AskedOnce(s) ==
    \A i, j \in CallsIn(s) : s[i].turn = s[j].turn /\ s[i].iter = s[j].iter => i = j
Following(s) ==
    \A j \in 1..Len(s) : s[j].kind = "result" =>
        \E i \in CallsIn(s) : i < j /\ \E c \in 1..s[i].call : s[j] = AnswerTo(s[i], c)
Distinct(s) ==
    \A j, k \in 1..Len(s) : s[j].kind = "result" /\ s[k] = s[j] => k = j
Orderly(s) == AskedOnce(s) /\ Following(s) /\ Distinct(s)

(* The calls of a transcript are of turns that have been started, and those *)
(* of the present turn are of iterations that have been; while the model is *)
(* asked, the present iteration has made none.                             *)
Started(s) == \A i \in CallsIn(s) : s[i].turn <= turn
InIteration ==
    pc \notin {"idle", "rejecting"} /\ ~approving =>
        \A i \in CallsIn(rec.messages) :
            rec.messages[i].turn = turn =>
                /\ rec.messages[i].iter <= iter
                /\ pc = "model" => rec.messages[i].iter < iter

(* Where a turn can be and where a continuation can be.                    *)
Places ==
    /\ approving => pc \in {"idle", "tools", "running", "broken", "reply", "ending"}
    /\ pc = "reply" => approving

(* The calls before the present one have returned or are set aside, each   *)
(* of them once.                                                           *)
Taken(q)  == {q[k] : k \in 1..Len(q)}
OnceIn(q) == \A j, k \in 1..Len(q) : q[j] = q[k] => j = k
Walked ==
    /\ pc \in {"tools", "running"} =>
          /\ pos \in 1..(Len(batch.calls) + 1)
          /\ pc = "running" => pos <= Len(batch.calls)
          /\ OnceIn(pool) /\ OnceIn(results)
          /\ Taken(pool) \cap Taken(results) = {}
          /\ Taken(pool) \cup Taken(results) = 1..(pos - 1)
    /\ pc = "idle" => pos = 1 /\ pool = <<>> /\ results = <<>>

(* What has been asked in this turn is answered, but for the batch at work; *)
(* and when a continuation goes to the model, that batch is too.           *)
AnsweredSoFar ==
    /\ pc \in {"started", "loop", "model"} =>
          \A i \in CallsIn(rec.messages) :
              rec.messages[i].turn = turn => AnsweredIn(rec.messages, i)
    /\ pc \in {"tools", "running"} /\ ~approving =>
          \A i \in CallsIn(rec.messages) :
              rec.messages[i].turn = turn /\ i < Len(rec.messages) => AnsweredIn(rec.messages, i)
    /\ pc = "reply" =>
          \A i \in CallsIn(rec.messages) :
              (\A k \in CallsIn(rec.messages) : k <= i) => AnsweredIn(rec.messages, i)

Tidy(s) == Orderly(s) /\ Started(s)

Transcript ==
    /\ Tidy(rec.messages) /\ Tidy(disk.messages)
    /\ InIteration /\ Places /\ Walked /\ AnsweredSoFar
(* A message that carries calls has a turn and an iteration.               *)
LEMMA CallsTyped ==
    ASSUME NEW s \in Seq(Item), NEW i \in CallsIn(s)
    PROVE  /\ Len(s) \in Nat /\ i \in 1..Len(s) /\ i <= Len(s)
           /\ s[i].turn \in Nat /\ s[i].iter \in Nat
<1>1. Len(s) \in Nat /\ i \in 1..Len(s) /\ s[i] \in Item
  BY DEF CallsIn
<1>. QED BY <1>1 DEF Item

(* One more call is taken.                                                 *)
LEMMA AppendTaken ==
    ASSUME NEW q \in Seq(Nat), NEW x \in Nat
    PROVE  /\ Taken(Append(q, x)) = Taken(q) \cup {x}
           /\ OnceIn(q) /\ x \notin Taken(q) => OnceIn(Append(q, x))
<1>. DEFINE z == Append(q, x)
<1>1. /\ Len(q) \in Nat /\ Len(z) = Len(q) + 1 /\ z[Len(q) + 1] = x
      /\ \A k \in 1..Len(q) : z[k] = q[k]
  OBVIOUS
<1>. HIDE DEF z
<1>2. \A k \in 1..Len(z) : k \in 1..Len(q) \/ k = Len(q) + 1
  BY <1>1
<1>3. 1..Len(q) \subseteq 1..Len(z) /\ Len(q) + 1 \in 1..Len(z)
  BY <1>1
<1>4. Taken(z) = Taken(q) \cup {x}
  BY <1>1, <1>2, <1>3 DEF Taken
<1>5. OnceIn(q) /\ x \notin Taken(q) => OnceIn(z)
  BY <1>1, <1>2 DEF Taken, OnceIn
<1>. QED BY <1>4, <1>5 DEF z

(* The first call that was set aside is taken out.                         *)
LEMMA TailTaken ==
    ASSUME NEW q \in Seq(Nat), q # <<>>, OnceIn(q)
    PROVE  /\ Head(q) \in Taken(q) /\ Taken(Tail(q)) = Taken(q) \ {Head(q)}
           /\ OnceIn(Tail(q))
<1>. DEFINE z == Tail(q)
<1>1. /\ Len(q) \in Nat /\ Len(q) >= 1 /\ Len(z) = Len(q) - 1 /\ Head(q) = q[1]
      /\ \A k \in 1..Len(z) : z[k] = q[k + 1]
  OBVIOUS
<1>. HIDE DEF z
<1>2. \A k \in 1..Len(z) : k + 1 \in 1..Len(q) /\ k + 1 # 1
  BY <1>1
<1>3. \A k \in 1..Len(q) : k = 1 \/ (k - 1 \in 1..Len(z) /\ z[k - 1] = q[k])
  BY <1>1
<1>4. Head(q) \in Taken(q)
  BY <1>1 DEF Taken
<1>5. ASSUME NEW x \in Taken(z) PROVE x \in Taken(q) \ {Head(q)}
  <2>1. PICK k \in 1..Len(z) : z[k] = x
    BY DEF Taken
  <2>2. x = q[k + 1] /\ k + 1 \in 1..Len(q) /\ k + 1 # 1
    BY <1>1, <1>2, <2>1
  <2>3. x # q[1]
    BY <1>1, <2>2 DEF OnceIn
  <2>. QED BY <1>1, <2>2, <2>3 DEF Taken
<1>6. ASSUME NEW x \in Taken(q), x # Head(q) PROVE x \in Taken(z)
  <2>1. PICK k \in 1..Len(q) : q[k] = x
    BY DEF Taken
  <2>2. k # 1
    BY <1>1, <1>6, <2>1
  <2>. QED BY <1>3, <2>1, <2>2 DEF Taken
<1>7. OnceIn(z)
  <2>. SUFFICES ASSUME NEW j \in 1..Len(z), NEW k \in 1..Len(z), z[j] = z[k] PROVE j = k
    BY DEF OnceIn
  <2>1. q[j + 1] = q[k + 1]
    BY <1>1
  <2>2. j + 1 = k + 1
    BY <1>2, <2>1 DEF OnceIn
  <2>. QED BY <1>1, <2>2
<1>. QED BY <1>4, <1>5, <1>6, <1>7 DEF z

(* A message that is no answer is appended.                                *)
LEMMA AppendTidy ==
    ASSUME NEW s \in Seq(Item), NEW e \in Item, Orderly(s), e.kind # "result",
           e.kind = "calls" =>
               \A i \in CallsIn(s) : ~(s[i].turn = e.turn /\ s[i].iter = e.iter)
    PROVE  /\ Orderly(Append(s, e))
           /\ \A i \in CallsIn(Append(s, e)) :
                 \/ i \in CallsIn(s) /\ i <= Len(s) /\ Append(s, e)[i] = s[i]
                 \/ i = Len(s) + 1 /\ e.kind = "calls" /\ Append(s, e)[i] = e
           /\ \A i \in CallsIn(s) : AnsweredIn(s, i) => AnsweredIn(Append(s, e), i)
<1>. DEFINE z == Append(s, e)
<1>1. /\ Len(z) = Len(s) + 1 /\ Len(s) \in Nat /\ z[Len(s) + 1] = e
      /\ \A i \in 1..Len(s) : z[i] = s[i] /\ s[i] \in Item
  OBVIOUS
<1>. HIDE DEF z
<1>2. ASSUME NEW i \in CallsIn(z)
      PROVE  \/ i \in CallsIn(s) /\ i <= Len(s) /\ z[i] = s[i]
             \/ i = Len(s) + 1 /\ e.kind = "calls" /\ z[i] = e
  BY <1>1 DEF CallsIn
<1>3. \A i \in CallsIn(s) : i \in CallsIn(z) /\ z[i] = s[i]
  BY <1>1 DEF CallsIn
<1>4. AskedOnce(z)
  BY <1>2 DEF Orderly, AskedOnce
<1>5. Following(z)
  <2>. SUFFICES ASSUME NEW j \in 1..Len(z), z[j].kind = "result"
       PROVE  \E i \in CallsIn(z) : i < j /\ \E c \in 1..z[i].call : z[j] = AnswerTo(z[i], c)
    BY DEF Following
  <2>1. j \in 1..Len(s) /\ z[j] = s[j]
    BY <1>1
  <2>2. PICK i \in CallsIn(s) : i < j /\ \E c \in 1..s[i].call : s[j] = AnswerTo(s[i], c)
    BY <2>1 DEF Orderly, Following
  <2>. QED BY <1>3, <2>1, <2>2
<1>6. Distinct(z)
  BY <1>1 DEF Orderly, Distinct
<1>7. ASSUME NEW i \in CallsIn(s), AnsweredIn(s, i)
      PROVE  AnsweredIn(z, i)
  <2>. SUFFICES ASSUME NEW c \in 1..z[i].call
       PROVE  \E j \in (i + 1)..Len(z) : z[j] = AnswerTo(z[i], c)
    BY DEF AnsweredIn
  <2>1. z[i] = s[i] /\ i \in 1..Len(s)
    BY <1>3 DEF CallsIn
  <2>2. PICK j \in (i + 1)..Len(s) : s[j] = AnswerTo(s[i], c)
    BY <1>7, <2>1 DEF AnsweredIn
  <2>3. j \in (i + 1)..Len(z) /\ z[j] = s[j]
    BY <1>1, <2>1
  <2>. QED BY <2>1, <2>2, <2>3
<1>. QED BY <1>2, <1>4, <1>5, <1>6, <1>7 DEF Orderly, z

(* The answer to call c is a message of the same turn and iteration.       *)
LEMMA AnswerFields ==
    ASSUME NEW m \in Item, NEW c \in Nat
    PROVE  /\ AnswerTo(m, c) = [kind |-> "result", turn |-> m.turn, iter |-> m.iter, call |-> c]
           /\ AnswerTo(m, c) \in Item
<1>. DEFINE x == [m EXCEPT !.kind = "result"]
<1>1. x = [kind |-> "result", turn |-> m.turn, iter |-> m.iter, call |-> m.call]
  BY DEF Item
<1>2. AnswerTo(m, c) = [x EXCEPT !.call = c]
  BY DEF AnswerTo
<1>. HIDE DEF x
<1>3. [x EXCEPT !.call = c] = [kind |-> "result", turn |-> m.turn, iter |-> m.iter, call |-> c]
  BY <1>1
<1>4. "result" \in ItemKinds
  BY DEF ItemKinds
<1>. QED BY <1>2, <1>3, <1>4 DEF Item

(* The answers to the calls that end a transcript, each call once.         *)
AnswersOf(b, q) ==
    [k \in 1..Len(q) |-> [kind |-> "result", turn |-> b.turn, iter |-> b.iter, call |-> q[k]]]

LEMMA AnswersTidy ==
    ASSUME NEW s \in Seq(Item), NEW b \in Batch, EndsWith(s, CallsOf(b)), Orderly(s),
           NEW q \in Seq(Nat), OnceIn(q), \A k \in 1..Len(q) : q[k] \in 1..Len(b.calls)
    PROVE  /\ Orderly(s \o AnswersOf(b, q))
           /\ Len(s) \in CallsIn(s) /\ CallsIn(s \o AnswersOf(b, q)) = CallsIn(s)
           /\ \A i \in CallsIn(s) :
                 /\ (s \o AnswersOf(b, q))[i] = s[i]
                 /\ AnsweredIn(s, i) => AnsweredIn(s \o AnswersOf(b, q), i)
           /\ (\A c \in 1..Len(b.calls) : \E k \in 1..Len(q) : q[k] = c)
                 => AnsweredIn(s \o AnswersOf(b, q), Len(s))
<1>. DEFINE r == AnswersOf(b, q)
            z == s \o r
            n == Len(s)
            m == CallsOf(b)
<1>. HIDE DEF r, z, m
<1>0. m \in Item /\ m.turn = b.turn /\ m.iter = b.iter
  BY DEF m, CallsOf, Item, ItemKinds, Batch
<1>1. /\ r \in Seq(Item) /\ Len(r) = Len(q) /\ Len(q) \in Nat
      /\ \A k \in 1..Len(q) : r[k] = AnswerTo(m, q[k]) /\ r[k].kind = "result" /\ r[k].call = q[k]
  <2>1. \A k \in 1..Len(q) : q[k] \in Nat
    OBVIOUS
  <2>2. \A k \in 1..Len(q) : AnswerTo(m, q[k]) =
                [kind |-> "result", turn |-> b.turn, iter |-> b.iter, call |-> q[k]]
    BY <1>0, <2>1, AnswerFields
  <2>3. \A k \in 1..Len(q) : r[k] = AnswerTo(m, q[k])
    BY <2>2 DEF r, AnswersOf
  <2>4. \A k \in 1..Len(q) : r[k] \in Item
    BY <1>0, <2>1, <2>3, AnswerFields
  <2>5. Len(q) \in Nat /\ Len(r) = Len(q) /\ r \in Seq(Item)
    BY <2>4 DEF r, AnswersOf
  <2>6. ASSUME NEW k \in 1..Len(q) PROVE r[k].kind = "result" /\ r[k].call = q[k]
    <3>1. r[k] = [kind |-> "result", turn |-> b.turn, iter |-> b.iter, call |-> q[k]]
      BY DEF r, AnswersOf
    <3>. QED BY <3>1
  <2>. QED BY <2>3, <2>5, <2>6
<1>2. /\ n \in Nat /\ n >= 1 /\ s[n] = m /\ m.kind = "calls" /\ m.call = Len(b.calls) /\ m \in Item
      /\ n \in CallsIn(s)
  <2>1. s # <<>> /\ s[n] = m
    BY DEF EndsWith, m
  <2>2. m.kind = "calls" /\ m.call = Len(b.calls)
    BY DEF CallsOf, m
  <2>3. n \in Nat /\ n >= 1 /\ m \in Item
    BY <2>1
  <2>. QED BY <2>1, <2>2, <2>3 DEF CallsIn
<1>3. /\ Len(z) = n + Len(q)
      /\ \A i \in 1..n : z[i] = s[i] /\ s[i] \in Item
      /\ \A k \in 1..Len(q) : z[n + k] = r[k]
      /\ \A j \in 1..Len(z) : j \in 1..n \/ \E k \in 1..Len(q) : j = n + k
  <2>0. r \in Seq(Item) /\ Len(r) = Len(q)
    BY <1>1
  <2>1. Len(z) = n + Len(q)
    <3>1. s \in Seq(Item) /\ r \in Seq(Item)
      BY <2>0
    <3>2. Len(s \o r) = Len(s) + Len(r)
      BY <3>1, ConcatProperties
    <3>. QED BY <2>0, <3>2 DEF z
  <2>2. \A i \in 1..n : z[i] = s[i] /\ s[i] \in Item
    BY <2>0 DEF z
  <2>3. \A k \in 1..Len(q) : z[n + k] = r[k]
    BY <2>0 DEF z
  <2>4. ASSUME NEW j \in 1..Len(z), j \notin 1..n
        PROVE  \E k \in 1..Len(q) : j = n + k
    <3>1. j - n \in 1..Len(q) /\ j = n + (j - n)
      BY <1>1, <1>2, <2>1, <2>4
    <3>. QED BY <3>1
  <2>. QED BY <2>1, <2>2, <2>3, <2>4
<1>. HIDE DEF n
<1>4. CallsIn(z) = CallsIn(s) /\ \A i \in CallsIn(s) : i \in 1..n /\ z[i] = s[i]
  <2>1. \A i \in CallsIn(s) : i \in 1..n /\ z[i] = s[i]
    BY <1>3 DEF CallsIn, n
  <2>2. ASSUME NEW i \in CallsIn(s) PROVE i \in CallsIn(z)
    BY <1>1, <1>2, <1>3, <2>1 DEF CallsIn
  <2>3. ASSUME NEW i \in CallsIn(z) PROVE i \in CallsIn(s)
    <3>1. i \in 1..Len(z) /\ z[i].kind = "calls"
      BY DEF CallsIn
    <3>2. i \in 1..n
      BY <1>1, <1>3, <3>1
    <3>. QED BY <1>3, <3>1, <3>2 DEF CallsIn, n
  <2>. QED BY <2>1, <2>2, <2>3
(* Nothing that was there answers the last calls.                          *)
<1>5. ASSUME NEW j \in 1..n, s[j].kind = "result", NEW k \in 1..Len(q), s[j] = r[k]
      PROVE  FALSE
  <2>1. PICK i \in CallsIn(s) : i < j /\ \E c \in 1..s[i].call : s[j] = AnswerTo(s[i], c)
    BY <1>5 DEF Orderly, Following, n
  <2>2. PICK c \in 1..s[i].call : s[j] = AnswerTo(s[i], c)
    BY <2>1
  <2>3. s[i] \in Item /\ i \in 1..n /\ c \in Nat
    BY <1>3, <1>4 DEF Item
  <2>4. s[i].turn = m.turn /\ s[i].iter = m.iter
    <3>0. AnswerTo(s[i], c) = [kind |-> "result", turn |-> s[i].turn, iter |-> s[i].iter, call |-> c]
      BY <2>3, AnswerFields
    <3>1. AnswerTo(s[i], c).turn = s[i].turn /\ AnswerTo(s[i], c).iter = s[i].iter
      BY <3>0
    <3>2. AnswerTo(m, q[k]).turn = m.turn /\ AnswerTo(m, q[k]).iter = m.iter
      BY <1>2, AnswerFields
    <3>. QED BY <1>1, <1>5, <2>2, <3>1, <3>2
  <2>5. i = n
    BY <1>2, <2>4 DEF Orderly, AskedOnce
  <2>. QED BY <1>2, <2>1, <2>5
<1>6. AskedOnce(z)
  BY <1>4 DEF Orderly, AskedOnce
<1>7. Following(z)
  <2>. SUFFICES ASSUME NEW j \in 1..Len(z), z[j].kind = "result"
       PROVE  \E i \in CallsIn(z) : i < j /\ \E c \in 1..z[i].call : z[j] = AnswerTo(z[i], c)
    BY DEF Following
  <2>1. CASE j \in 1..n
    <3>1. PICK i \in CallsIn(s) : i < j /\ \E c \in 1..s[i].call : s[j] = AnswerTo(s[i], c)
      BY <1>3, <2>1 DEF Orderly, Following, n
    <3>. QED BY <1>3, <1>4, <2>1, <3>1
  <2>2. CASE \E k \in 1..Len(q) : j = n + k
    <3>1. PICK k \in 1..Len(q) : j = n + k
      BY <2>2
    <3>2. z[j] = AnswerTo(m, q[k]) /\ q[k] \in 1..m.call
      BY <1>1, <1>2, <1>3, <3>1
    <3>3. z[n] = m /\ n \in CallsIn(z) /\ n < j
      BY <1>1, <1>2, <1>4, <3>1
    <3>. QED BY <3>2, <3>3
  <2>. QED BY <1>3, <2>1, <2>2
<1>8. Distinct(z)
  <2>. SUFFICES ASSUME NEW j \in 1..Len(z), NEW k \in 1..Len(z), z[j].kind = "result", z[k] = z[j]
       PROVE  k = j
    BY DEF Distinct
  <2>1. CASE j \in 1..n /\ k \in 1..n
    BY <1>3, <2>1 DEF Orderly, Distinct, n
  <2>2. ASSUME NEW x \in 1..Len(q), NEW y \in 1..Len(q), j = n + x, k = n + y
        PROVE  k = j
    <3>1. z[j] = r[x] /\ z[k] = r[y]
      BY <1>3, <2>2
    <3>2. q[x] = q[y]
      BY <1>1, <3>1
    <3>. QED BY <2>2, <3>2 DEF OnceIn
  <2>3. ASSUME NEW x \in 1..Len(q), j = n + x, k \in 1..n
        PROVE  FALSE
    BY <1>3, <1>5, <2>3
  <2>4. ASSUME NEW y \in 1..Len(q), j \in 1..n, k = n + y
        PROVE  FALSE
    BY <1>3, <1>5, <2>4
  <2>. QED BY <1>3, <2>1, <2>2, <2>3, <2>4
<1>9. ASSUME NEW i \in CallsIn(s), AnsweredIn(s, i)
      PROVE  AnsweredIn(z, i)
  <2>. SUFFICES ASSUME NEW c \in 1..z[i].call
       PROVE  \E j \in (i + 1)..Len(z) : z[j] = AnswerTo(z[i], c)
    BY DEF AnsweredIn
  <2>1. PICK j \in (i + 1)..n : s[j] = AnswerTo(s[i], c)
    BY <1>4, <1>9 DEF AnsweredIn, n
  <2>2. j \in 1..n /\ j \in (i + 1)..Len(z)
    <3>1. i \in 1..n /\ n \in Nat /\ Len(q) \in Nat /\ Len(z) = n + Len(q)
      BY <1>1, <1>2, <1>3, <1>4
    <3>. QED BY <3>1
  <2>. QED BY <1>3, <1>4, <2>1, <2>2
<1>10. ASSUME \A c \in 1..Len(b.calls) : \E k \in 1..Len(q) : q[k] = c
       PROVE  AnsweredIn(z, n)
  <2>. SUFFICES ASSUME NEW c \in 1..z[n].call
       PROVE  \E j \in (n + 1)..Len(z) : z[j] = AnswerTo(z[n], c)
    BY DEF AnsweredIn
  <2>1. z[n] = m /\ c \in 1..Len(b.calls)
    BY <1>2, <1>4
  <2>2. PICK k \in 1..Len(q) : q[k] = c
    BY <1>10, <2>1
  <2>3. n + k \in (n + 1)..Len(z) /\ z[n + k] = AnswerTo(m, c)
    BY <1>1, <1>2, <1>3, <2>2
  <2>. QED BY <2>1, <2>3
<1>. QED BY <1>2, <1>4, <1>6, <1>7, <1>8, <1>9, <1>10 DEF Orderly, z, n, r
-----------------------------------------------------------------------------
(* A step that leaves the transcript alone, saved or not.                  *)
LEMMA QuietKeeps ==
    ASSUME Transcript, Places', Walked', UNCHANGED <<turn, iter, approving>>,
           rec'.messages = rec.messages, disk'.messages \in {disk.messages, rec.messages},
           pc \notin {"idle", "rejecting"},
           pc' = "model" => pc = "model", pc' = "reply" => pc = "reply",
           pc' \in {"started", "loop"} => pc \in {"started", "loop"},
           pc' \in {"tools", "running"} => pc \in {"tools", "running"}
    PROVE  Transcript'
<1>1. Tidy(rec.messages)' /\ Tidy(disk.messages)'
  BY DEF Transcript, Tidy, Started
<1>2. InIteration'
  BY DEF Transcript, InIteration
<1>3. AnsweredSoFar'
  BY DEF Transcript, AnsweredSoFar
<1>. QED BY <1>1, <1>2, <1>3 DEF Transcript

(* The turn or the continuation is left.                                   *)
LEMMA LeaveKeeps ==
    ASSUME Transcript, NEW how, Leave(how), Orderly(rec'.messages), Started(rec'.messages),
           Orderly(disk'.messages), Started(disk'.messages)
    PROVE  Transcript'
<1>1. pc' = "idle" /\ pos' = 1 /\ pool' = <<>> /\ results' = <<>> /\ UNCHANGED <<turn, approving>>
  BY DEF Leave
<1>2. Tidy(rec.messages)' /\ Tidy(disk.messages)'
  BY <1>1 DEF Tidy, Started
<1>3. InIteration' /\ Places' /\ Walked' /\ AnsweredSoFar'
  BY <1>1 DEF InIteration, Places, Walked, AnsweredSoFar
<1>. QED BY <1>2, <1>3 DEF Transcript

(* The last event of a turn is not a message.                              *)
LEMMA TerminalTidy ==
    ASSUME Inductive, Transcript, NEW type, NEW r \in Record, Terminal(r, type),
           Orderly(r.messages), Started(r.messages), pc \notin {"idle", "rejecting"},
           approving \/ r.messages = rec.messages
    PROVE  Transcript'
<1>1. /\ rec'.messages = r.messages /\ disk' = disk /\ pc' = "ending"
      /\ UNCHANGED <<turn, iter, approving>>
  BY DEF Terminal, Keep, Log, Record, control
<1>2. Tidy(rec.messages)' /\ Tidy(disk.messages)'
  BY <1>1 DEF Transcript, Tidy, Started
<1>3. InIteration' /\ Places' /\ Walked' /\ AnsweredSoFar'
  BY <1>1 DEF Transcript, InIteration, Places, Walked, AnsweredSoFar
<1>. QED BY <1>2, <1>3 DEF Transcript

(* Saving it leaves the turn.                                              *)
LEMMA EndTidy ==
    ASSUME Transcript, Telling
    PROVE  Transcript'
<1>1. rec' = rec /\ disk' = rec /\ \E how : Leave(how)
  BY DEF Telling, SaveEnd, SaveReject, Save
<1>. QED BY <1>1, LeaveKeeps DEF Transcript, Tidy

(* An exception or a crash goes back to the saved transcript.              *)
LEMMA LostTidy ==
    ASSUME Transcript, NEW how, Leave(how), rec' = disk, disk' = disk
    PROVE  Transcript'
BY LeaveKeeps DEF Transcript, Tidy

(* A user's or the model's message changes nothing about calls.            *)
LEMMA PlainTidy ==
    ASSUME NEW s \in Seq(Item), Orderly(s), Started(s), NEW kind \in {"user", "assistant"}
    PROVE  /\ Orderly(Append(s, Plain(kind))) /\ Started(Append(s, Plain(kind)))
           /\ \A i \in CallsIn(Append(s, Plain(kind))) : i \in CallsIn(s) /\ Append(s, Plain(kind))[i] = s[i]
<1>1. Plain(kind) \in Item /\ Plain(kind).kind \notin {"calls", "result"}
  BY DEF Plain, Item, ItemKinds
<1>2. /\ Orderly(Append(s, Plain(kind)))
      /\ \A i \in CallsIn(Append(s, Plain(kind))) : i \in CallsIn(s) /\ Append(s, Plain(kind))[i] = s[i]
  BY <1>1, AppendTidy
<1>. QED BY <1>2 DEF Started

(* The input of the next turn: no calls of its own yet.                    *)
LEMMA StartTidy ==
    ASSUME Inductive, Transcript, StartTurn
    PROVE  Transcript'
<1>1. /\ pc' = "started" /\ turn' = turn + 1 /\ approving' = FALSE /\ disk' = disk /\ turn \in Nat
      /\ disk.messages \in Seq(Item)
  BY DEF StartTurn, Keep, Inductive, Typed, Record
<1>2. rec'.messages = Append(disk.messages, Plain("user"))
  <2>1. rec' = Log(Say([disk EXCEPT !.status = "running"], Plain("user")), Plain("turn_started"))
    BY DEF StartTurn, Keep
  <2>2. [disk EXCEPT !.status = "running"] \in Record
        /\ [disk EXCEPT !.status = "running"].messages = disk.messages
    BY DEF Inductive, Typed, Record
  <2>. QED BY <2>1, <2>2 DEF Log, Say, Record
<1>3. /\ Orderly(rec'.messages) /\ Started(disk.messages)
      /\ \A i \in CallsIn(rec'.messages) : i \in CallsIn(disk.messages) /\ rec'.messages[i] = disk.messages[i]
  BY <1>1, <1>2, PlainTidy DEF Transcript, Tidy
<1>4. \A i \in CallsIn(disk.messages) : disk.messages[i].turn \in Nat /\ disk.messages[i].turn <= turn
  BY <1>1, <1>3, CallsTyped DEF Started
<1>5. \A i \in CallsIn(rec'.messages) : rec'.messages[i].turn \in Nat /\ rec'.messages[i].turn < turn'
  BY <1>1, <1>3, <1>4
<1>6. Tidy(rec.messages)' /\ Tidy(disk.messages)'
  BY <1>1, <1>3, <1>4, <1>5 DEF Tidy, Started, Transcript
<1>7. InIteration' /\ Places' /\ AnsweredSoFar' /\ Walked'
  BY <1>1, <1>5 DEF InIteration, Places, AnsweredSoFar, Walked
<1>. QED BY <1>6, <1>7 DEF Transcript

(* The steps of a turn outside its batches.                                *)
LEMMA TurnTidy ==
    ASSUME Inductive, Transcript, SaveStart \/ Iterate \/ CancelTurn \/ LimitReached
    PROVE  Transcript'
<1>1. CASE SaveStart
  <2>1. /\ pc = "started" /\ pc' = "loop" /\ rec' = rec /\ disk' = rec
        /\ UNCHANGED <<turn, iter, approving>>
    BY <1>1 DEF SaveStart, Save, control
  <2>. QED BY <2>1, QuietKeeps DEF Transcript, Places, Walked
<1>2. CASE Iterate
  <2>1. /\ pc = "loop" /\ pc' = "model" /\ rec' = rec /\ disk' = disk
        /\ iter' = iter + 1 /\ UNCHANGED <<turn, approving>> /\ iter \in Nat
    BY <1>2 DEF Iterate, Inductive, Typed
  <2>2. \A i \in CallsIn(rec.messages) : rec.messages[i].iter \in Nat
    BY CallsTyped DEF Inductive, Typed, Record
  <2>3. InIteration' /\ Places' /\ Walked'
    BY <2>1, <2>2 DEF Transcript, InIteration, Places, Walked
  <2>. QED BY <2>1, <2>3 DEF Transcript, Tidy, Started, AnsweredSoFar
<1>3. CASE CancelTurn \/ LimitReached
  <2>1. Terminal(rec, "turn_failed") /\ pc = "loop"
    BY <1>3 DEF CancelTurn, LimitReached
  <2>. QED BY <2>1, TerminalTidy DEF Inductive, Typed, Transcript, Tidy
<1>. QED BY <1>1, <1>2, <1>3

(* Deltas, retries, answers and calls of the model.                        *)
LEMMA ModelTidy ==
    ASSUME Inductive, Transcript, TurnAssumption, ModelStep
    PROVE  Transcript'
<1>0. rec \in Record /\ rec.messages \in Seq(Item) /\ turn \in Nat /\ iter \in Nat
  BY DEF Inductive, Typed, Record
<1>1. CASE ModelDelta \/ ModelError \/ SaveAnswer
  <2>1. /\ pc \in {"model", "reply", "answered"} /\ (pc' = pc \/ pc' = "completing")
        /\ UNCHANGED <<turn, iter, approving>>
        /\ rec'.messages = rec.messages /\ disk' \in {disk, rec'}
        /\ pc' = "completing" => pc = "answered"
    BY <1>0, <1>1 DEF ModelDelta, ModelError, SaveAnswer, Save, control, Log, Record
  <2>2. Places' /\ Walked'
    BY <2>1 DEF Transcript, Places, Walked
  <2>. QED BY <2>1, <2>2, QuietKeeps
<1>2. CASE ModelStopped \/ RetriesExhausted \/ Complete
  BY <1>0, <1>2, TerminalTidy DEF ModelStopped, RetriesExhausted, Complete, Transcript, Tidy
<1>3. CASE ModelAnswers
  <2>1. /\ pc = "model" /\ pc' = "answered" /\ disk' = disk /\ UNCHANGED <<turn, iter, approving>>
        /\ rec'.messages = Append(rec.messages, Plain("assistant"))
    BY <1>0, <1>3 DEF ModelAnswers, Keep, control, Log, Say, Record
  <2>2. /\ Orderly(rec'.messages) /\ Started(rec'.messages)
        /\ \A i \in CallsIn(rec'.messages) : i \in CallsIn(rec.messages) /\ rec'.messages[i] = rec.messages[i]
    BY <1>0, <2>1, PlainTidy DEF Transcript, Tidy
  <2>3. InIteration' /\ Places' /\ Walked' /\ AnsweredSoFar'
    BY <2>1, <2>2 DEF Transcript, InIteration, Places, Walked, AnsweredSoFar
  <2>. QED BY <2>1, <2>2, <2>3 DEF Transcript, Tidy, Started
<1>4. ASSUME NEW calls \in Batches, ModelCalls(calls)
      PROVE  Transcript'
  <2>. DEFINE b == [turn |-> turn, iter |-> iter, calls |-> calls]
  <2>1. calls \in Seq(Kinds) /\ calls # <<>> /\ b \in Batch
    BY <1>0 DEF TurnAssumption, Batch
  <2>2. CallsOf(b) \in Item /\ CallsOf(b).kind = "calls" /\ CallsOf(b).turn = turn /\ CallsOf(b).iter = iter
    BY <1>0, <2>1 DEF CallsOf, Item, ItemKinds
  <2>3. /\ pc = "model" /\ pc' = "tools" /\ disk' = disk /\ UNCHANGED <<turn, iter, approving>>
        /\ rec'.messages = Append(rec.messages, CallsOf(b)) /\ batch' = b
        /\ pos' = 1 /\ pool' = <<>> /\ results' = <<>> /\ ~approving
    BY <1>0, <1>4 DEF ModelCalls, Keep, Say, Record, CallsOf, Transcript, Places
  <2>. HIDE DEF b
  <2>4. \A i \in CallsIn(rec.messages) :
            rec.messages[i].turn = turn => rec.messages[i].iter \in Nat /\ rec.messages[i].iter < iter
    BY <1>0, <2>3, CallsTyped DEF Transcript, InIteration
  <2>. DEFINE s == rec.messages
              z == Append(s, CallsOf(b))
  <2>5. /\ Orderly(z)
        /\ \A i \in CallsIn(z) :
              \/ i \in CallsIn(s) /\ i <= Len(s) /\ z[i] = s[i]
              \/ i = Len(s) + 1 /\ z[i] = CallsOf(b)
        /\ \A i \in CallsIn(s) : AnsweredIn(s, i) => AnsweredIn(z, i)
    <3>1. \A i \in CallsIn(s) : ~(s[i].turn = CallsOf(b).turn /\ s[i].iter = CallsOf(b).iter)
      BY <1>0, <2>2, <2>4
    <3>2. Orderly(s) /\ CallsOf(b).kind # "result"
      BY <2>2 DEF Transcript, Tidy
    <3>3. s \in Seq(Item) /\ CallsOf(b) \in Item
      BY <1>0, <2>2
    <3>. HIDE DEF s
    <3>. QED BY <3>1, <3>2, <3>3, AppendTidy
  <2>6. rec'.messages = z /\ Len(z) = Len(s) + 1 /\ Len(s) \in Nat
    BY <1>0, <2>2, <2>3
  <2>. HIDE DEF z
  <2>7. Tidy(rec.messages)' /\ Tidy(disk.messages)'
    BY <1>0, <2>2, <2>3, <2>5, <2>6 DEF Transcript, Tidy, Started
  <2>8. InIteration'
    BY <1>0, <2>2, <2>3, <2>4, <2>5, <2>6 DEF InIteration
  <2>9. Places' /\ Walked'
    <3>1. Len(calls) \in Nat /\ batch'.calls = calls
      BY <2>1, <2>3 DEF b
    <3>. QED BY <2>3, <3>1 DEF Transcript, Places, Walked, OnceIn, Taken
  <2>10. AnsweredSoFar'
    BY <2>3, <2>5, <2>6 DEF Transcript, AnsweredSoFar
  <2>. QED BY <2>7, <2>8, <2>9, <2>10 DEF Transcript
<1>. QED BY <1>1, <1>2, <1>3, <1>4 DEF ModelStep
-----------------------------------------------------------------------------
(* A request for approval logs an event, or leaves the continuation.       *)
LEMMA AskTidy ==
    ASSUME Inductive, Transcript, RequireAction, pc \in {"tools", "running"}
    PROVE  Transcript'
<1>1. CASE approving /\ Escape
  BY <1>1, LostTidy DEF Escape
<1>2. CASE /\ ~approving /\ Keep(Log(rec, Plain("requires_action")))
           /\ pc' = "asking" /\ UNCHANGED <<control, work>>
  <2>1. rec'.messages = rec.messages /\ disk' = disk /\ UNCHANGED <<turn, iter, approving>>
    BY <1>2 DEF Keep, Log, control, Inductive, Typed, Record
  <2>2. Places' /\ Walked'
    BY <1>2, <2>1 DEF Places, Walked
  <2>. QED BY <1>2, <2>1, <2>2, QuietKeeps
<1>. QED BY <1>1, <1>2 DEF RequireAction

(* The next call is taken: started, or set aside for the end.              *)
LEMMA TakeTidy ==
    ASSUME Inductive, Transcript, StartTool \/ SetAside
    PROVE  Transcript'
<1>0. pos \in Nat /\ pool \in Seq(Nat) /\ Len(batch.calls) \in Nat
  BY DEF Inductive, Typed, Batch
<1>1. /\ pc = "tools" /\ pos <= Len(batch.calls) /\ pc' \in {"tools", "running"} /\ disk' = disk
      /\ rec'.messages = rec.messages /\ UNCHANGED <<turn, iter, approving, batch, results>>
  BY DEF StartTool, SetAside, InBatch, Keep, Log, work, Inductive, Typed, Record
<1>2. Walked'
  <2>1. CASE StartTool
    <3>1. pos' = pos /\ pool' = pool
      BY <2>1 DEF StartTool, work
    <3>. QED BY <1>0, <1>1, <3>1 DEF Transcript, Walked
  <2>2. CASE SetAside
    <3>1. pc' = "tools" /\ pool' = Append(pool, pos) /\ pos' = pos + 1
      BY <1>1, <2>2 DEF SetAside
    <3>2. /\ OnceIn(pool) /\ Taken(pool) \cap Taken(results) = {}
          /\ Taken(pool) \cup Taken(results) = 1..(pos - 1)
      BY <1>1 DEF Transcript, Walked
    <3>3. pos \notin Taken(pool) /\ pos \notin Taken(results)
      BY <1>0, <3>2
    <3>4. OnceIn(pool') /\ Taken(pool') = Taken(pool) \cup {pos}
      BY <1>0, <3>1, <3>2, <3>3, AppendTaken
    <3>5. Taken(pool') \cap Taken(results') = {} /\ Taken(pool') \cup Taken(results') = 1..(pos' - 1)
      <4>1. 1..(pos' - 1) = 1..(pos - 1) \cup {pos} /\ pos >= 1
        BY <1>0, <1>1, <3>1 DEF Transcript, Walked
      <4>. QED BY <1>1, <3>2, <3>3, <3>4, <4>1
    <3>6. pos' \in 1..(Len(batch.calls) + 1)
      BY <1>0, <1>1, <3>1 DEF Transcript, Walked
    <3>. QED BY <1>1, <3>1, <3>4, <3>5, <3>6 DEF Transcript, Walked
  <2>. QED BY <2>1, <2>2
<1>3. Places'
  BY <1>1 DEF Transcript, Places
<1>. QED BY <1>1, <1>2, <1>3, QuietKeeps

(* The policy's verdict on a call (ralph_loop.py:558-640).                 *)
LEMMA JudgedTidy ==
    ASSUME Inductive, Transcript, Judged
    PROVE  Transcript'
<1>1. CASE AskPermission
  BY <1>1, AskTidy DEF AskPermission, InBatch
<1>2. CASE Refuse
  <2>1. CASE approving
    BY <1>2, <2>1, LostTidy DEF Refuse, Escape
  <2>2. CASE ~approving
    <3>1. Terminal(rec, "turn_failed") /\ pc = "tools"
      BY <1>2, <2>2 DEF Refuse, InBatch
    <3>. QED BY <3>1, TerminalTidy DEF Inductive, Typed, Transcript, Tidy
  <2>. QED BY <2>1, <2>2
<1>3. CASE StartTool \/ SetAside
  BY <1>3, TakeTidy
<1>. QED BY <1>1, <1>2, <1>3 DEF Judged

(* A call returns: the one that was started, or the first one set aside.   *)
LEMMA ReturnWalks ==
    ASSUME Inductive, Transcript, ToolReturns
    PROVE  Walked'
<1>0. /\ pos \in Nat /\ pool \in Seq(Nat) /\ results \in Seq(Nat) /\ Len(batch.calls) \in Nat
  BY DEF Inductive, Typed, Batch
<1>1. /\ pc \in {"tools", "running"} /\ pc' = "tools" /\ batch' = batch
      /\ results' = Append(results, Working) /\ Working \in Nat
  BY <1>0 DEF ToolReturns, AtWork, Pooled, Working
<1>2. /\ pos \in 1..(Len(batch.calls) + 1) /\ OnceIn(pool) /\ OnceIn(results)
      /\ Taken(pool) \cap Taken(results) = {} /\ Taken(pool) \cup Taken(results) = 1..(pos - 1)
  BY <1>1 DEF Transcript, Walked
<1>3. Taken(results') = Taken(results) \cup {Working}
      /\ (Working \notin Taken(results) => OnceIn(results'))
  BY <1>0, <1>1, <1>2, AppendTaken
<1>4. CASE pc = "running"
  <2>1. pos' = pos + 1 /\ pool' = pool /\ Working = pos /\ pos <= Len(batch.calls)
    BY <1>4 DEF ToolReturns, Working, Transcript, Walked
  <2>2. pos \notin Taken(pool) /\ pos \notin Taken(results)
    BY <1>0, <1>2
  <2>3. 1..(pos' - 1) = 1..(pos - 1) \cup {pos} /\ pos' \in 1..(Len(batch'.calls) + 1)
    BY <1>0, <1>1, <1>2, <2>1
  <2>4. OnceIn(results') /\ OnceIn(pool')
    BY <1>2, <1>3, <2>1, <2>2
  <2>5. Taken(pool') \cap Taken(results') = {} /\ Taken(pool') \cup Taken(results') = 1..(pos' - 1)
    BY <1>2, <1>3, <2>1, <2>2, <2>3
  <2>. QED BY <1>1, <2>3, <2>4, <2>5 DEF Walked
<1>5. CASE pc = "tools"
  <2>1. pos' = pos /\ pool' = Tail(pool) /\ Working = Head(pool) /\ pool # <<>>
    BY <1>5 DEF ToolReturns, AtWork, Pooled, Working
  <2>2. OnceIn(pool') /\ Working \in Taken(pool) /\ Taken(pool') = Taken(pool) \ {Working}
    BY <1>0, <1>2, <2>1, TailTaken
  <2>3. OnceIn(results')
    BY <1>2, <1>3, <2>2
  <2>4. Taken(pool') \cap Taken(results') = {} /\ Taken(pool') \cup Taken(results') = 1..(pos' - 1)
    BY <1>2, <1>3, <2>1, <2>2
  <2>. QED BY <1>1, <1>2, <2>1, <2>2, <2>3, <2>4 DEF Walked
<1>. QED BY <1>1, <1>4, <1>5

(* Progress, results and failures of calls are events.                     *)
LEMMA WorkTidy ==
    ASSUME Inductive, Transcript, NEW type, ToolProgress \/ ToolReturns \/ ToolBreaks(type)
    PROVE  Transcript'
<1>1. /\ pc \in {"tools", "running"} /\ pc' \in {"tools", "running", "broken"}
      /\ rec'.messages = rec.messages /\ disk' = rec' /\ UNCHANGED <<turn, iter, approving>>
  BY DEF ToolProgress, ToolReturns, ToolBreaks, AtWork, Pooled, Save, Log, control,
         Inductive, Typed, Record
<1>2. Places'
  BY <1>1 DEF Transcript, Places
<1>3. Walked'
  <2>1. CASE ToolReturns
    BY <2>1, ReturnWalks
  <2>2. CASE ToolProgress
    BY <2>2 DEF ToolProgress, work, Transcript, Walked
  <2>3. CASE ToolBreaks(type)
    BY <2>3 DEF ToolBreaks, Transcript, Walked
  <2>. QED BY <2>1, <2>2, <2>3
<1>. QED BY <1>1, <1>2, <1>3, QuietKeeps

(* The batch is through: every call has returned once, and the answers     *)
(* follow the calls.                                                       *)
LEMMA DoneTidy ==
    ASSUME Inductive, Transcript, BatchDone
    PROVE  Transcript'
<1>. DEFINE s == rec.messages
<1>0. /\ rec \in Record /\ s \in Seq(Item) /\ batch \in Batch /\ results \in Seq(Nat)
      /\ Len(batch.calls) \in Nat /\ pos \in Nat
  BY DEF Inductive, Typed, Record, Batch
<1>1. /\ pc = "tools" /\ pos > Len(batch.calls) /\ pool = <<>>
      /\ UNCHANGED <<turn, iter, approving>> /\ disk' \in {disk, rec'}
      /\ pc' = IF approving THEN "reply" ELSE "loop"
  BY DEF BatchDone, Keep, Save
<1>2. rec'.messages = s \o AnswersOf(batch, results)
  <2>1. Answered(rec).messages = s \o AnswersOf(batch, results)
    BY <1>0 DEF Answered, AnswersOf, Entry, Record
  <2>2. CASE approving
    <3>1. rec' = [Answered(rec) EXCEPT !.pending = NoBatch]
      BY <2>2 DEF BatchDone, Keep
    <3>2. DOMAIN Answered(rec) = DOMAIN rec /\ DOMAIN rec = {"messages", "events", "pending", "status"}
      BY <1>0 DEF Answered, Record
    <3>. QED BY <2>1, <3>1, <3>2
  <2>3. CASE ~approving
    BY <2>1, <2>3 DEF BatchDone, Save
  <2>. QED BY <2>2, <2>3
<1>3. pos = Len(batch.calls) + 1
  BY <1>0, <1>1 DEF Transcript, Walked
<1>4. \A k \in 1..Len(results) : results[k] \in 1..Len(batch.calls)
  <2>1. Taken(results) \subseteq 1..(pos - 1)
    BY <1>1 DEF Transcript, Walked
  <2>. QED BY <1>0, <1>3, <2>1 DEF Taken
<1>5. \A c \in 1..Len(batch.calls) : \E k \in 1..Len(results) : results[k] = c
  <2>1. Taken(pool) \cup Taken(results) = 1..(pos - 1) /\ Taken(pool) = {}
    BY <1>1 DEF Transcript, Walked, Taken
  <2>2. ASSUME NEW c \in 1..Len(batch.calls) PROVE c \in Taken(results)
    BY <1>0, <1>3, <2>1
  <2>. QED BY <2>2 DEF Taken
<1>6. OnceIn(results) /\ EndsWith(s, CallsOf(batch)) /\ Orderly(s) /\ Started(s)
  BY <1>1 DEF Transcript, Walked, Tidy, Inductive, CallsAreLast
<1>7. /\ Orderly(rec'.messages) /\ Len(s) \in CallsIn(s) /\ CallsIn(rec'.messages) = CallsIn(s)
      /\ \A i \in CallsIn(s) :
            /\ rec'.messages[i] = s[i]
            /\ AnsweredIn(s, i) => AnsweredIn(rec'.messages, i)
      /\ AnsweredIn(rec'.messages, Len(s))
  <2>. DEFINE z == s \o AnswersOf(batch, results)
  <2>1. /\ Orderly(z) /\ Len(s) \in CallsIn(s) /\ CallsIn(z) = CallsIn(s)
        /\ \A i \in CallsIn(s) : z[i] = s[i] /\ (AnsweredIn(s, i) => AnsweredIn(z, i))
        /\ AnsweredIn(z, Len(s))
    <3>1. /\ s \in Seq(Item) /\ batch \in Batch /\ results \in Seq(Nat)
          /\ EndsWith(s, CallsOf(batch)) /\ Orderly(s) /\ OnceIn(results)
          /\ \A k \in 1..Len(results) : results[k] \in 1..Len(batch.calls)
      BY <1>0, <1>4, <1>6
    <3>. HIDE DEF s
    <3>2. /\ Orderly(z) /\ Len(s) \in CallsIn(s) /\ CallsIn(z) = CallsIn(s)
          /\ \A i \in CallsIn(s) : z[i] = s[i] /\ (AnsweredIn(s, i) => AnsweredIn(z, i))
          /\ (\A c \in 1..Len(batch.calls) : \E k \in 1..Len(results) : results[k] = c)
                => AnsweredIn(z, Len(s))
      BY <3>1, AnswersTidy
    <3>. QED BY <1>5, <3>2
  <2>2. rec'.messages = z
    BY <1>2
  <2>. HIDE DEF z, s
  <2>. QED BY <2>1, <2>2
<1>8. \A i \in CallsIn(s) : i \in 1..Len(s) /\ i <= Len(s)
  BY <1>0, CallsTyped
<1>9. Tidy(rec.messages)' /\ Tidy(disk.messages)'
  BY <1>1, <1>6, <1>7 DEF Transcript, Tidy, Started
<1>10. InIteration' /\ Places' /\ Walked'
  BY <1>1, <1>7 DEF Transcript, InIteration, Places, Walked
<1>11. AnsweredSoFar'
  <2>1. CASE approving
    <3>1. ASSUME NEW i \in CallsIn(rec'.messages), \A k \in CallsIn(rec'.messages) : k <= i
          PROVE  AnsweredIn(rec'.messages, i)
      <4>1. i = Len(s)
        BY <1>0, <1>7, <1>8, <3>1
      <4>. QED BY <1>7, <4>1
    <3>. QED BY <1>1, <2>1, <3>1 DEF AnsweredSoFar
  <2>2. CASE ~approving
    <3>1. ASSUME NEW i \in CallsIn(rec'.messages), rec'.messages[i].turn = turn
          PROVE  AnsweredIn(rec'.messages, i)
      <4>1. i = Len(s) \/ i < Len(s)
        BY <1>0, <1>7, <1>8
      <4>. QED BY <1>1, <1>7, <2>2, <3>1, <4>1 DEF Transcript, AnsweredSoFar
    <3>. QED BY <1>1, <2>2, <3>1 DEF AnsweredSoFar
  <2>. QED BY <2>1, <2>2
<1>. QED BY <1>9, <1>10, <1>11 DEF Transcript

(* What ends a batch.                                                      *)
LEMMA BatchTidy ==
    ASSUME Inductive, Transcript, SaveAsk \/ BatchDone \/ FailTurn \/ UnknownTool \/ ToolAsks
    PROVE  Transcript'
<1>1. CASE SaveAsk
  <2>1. Leave("asked") /\ rec' = disk'
        /\ disk' = [rec EXCEPT !.status = "requires_action", !.pending = batch]
    BY <1>1 DEF SaveAsk, Save
  <2>2. disk'.messages = rec.messages
    BY <2>1 DEF Inductive, Typed, Record
  <2>. QED BY <2>1, <2>2, LeaveKeeps DEF Transcript, Tidy
<1>2. CASE BatchDone
  BY <1>2, DoneTidy
<1>3. CASE FailTurn
  BY <1>3, TerminalTidy DEF FailTurn, Inductive, Typed, Transcript, Tidy
<1>4. CASE UnknownTool
  BY <1>4, LostTidy DEF UnknownTool, Escape
<1>5. CASE ToolAsks
  BY <1>5, AskTidy DEF ToolAsks, Asks
<1>. QED BY <1>1, <1>2, <1>3, <1>4, <1>5

(* The user's answer, the reply to the results, and a crash.               *)
LEMMA ContinueTidy ==
    ASSUME Inductive, Transcript, Reject \/ Approve \/ Reply \/ ReplyError \/ EndFails \/ Crash
    PROVE  Transcript'
<1>1. CASE Reject
  <2>1. /\ pc' = "rejecting" /\ approving' = FALSE /\ disk' = disk /\ turn' = turn
        /\ rec'.messages = disk.messages
    BY <1>1 DEF Reject, Keep, Inductive, Typed, Record
  <2>2. Tidy(rec.messages)' /\ Tidy(disk.messages)'
    BY <2>1 DEF Transcript, Tidy, Started
  <2>3. InIteration' /\ Places' /\ Walked' /\ AnsweredSoFar'
    BY <2>1 DEF InIteration, Places, Walked, AnsweredSoFar
  <2>. QED BY <2>2, <2>3 DEF Transcript
<1>2. CASE Approve
  <2>1. /\ pc = "idle" /\ pc' = "tools" /\ approving' = TRUE /\ disk' = disk
        /\ batch' = disk.pending /\ UNCHANGED <<turn, pos, pool, results>>
        /\ rec'.messages = disk.messages
    BY <1>2 DEF Approve, Waiting, Keep, Inductive, Typed, Record
  <2>2. Len(batch'.calls) \in Nat
    BY <2>1 DEF Inductive, Typed, Record, Batch
  <2>3. Walked'
    BY <2>1, <2>2 DEF Transcript, Walked, OnceIn, Taken
  <2>. QED BY <2>1, <2>3 DEF Transcript, Tidy, Started, InIteration, Places, AnsweredSoFar
<1>3. CASE Reply
  <2>1. rec \in Record /\ rec.messages \in Seq(Item) /\ Orderly(rec.messages) /\ Started(rec.messages)
    BY DEF Inductive, Typed, Record, Transcript, Tidy
  <2>. DEFINE r == Log(Say(rec, Plain("assistant")), Plain("assistant_message"))
  <2>2. r \in Record /\ r.messages = Append(rec.messages, Plain("assistant"))
    <3>1. Plain("assistant") \in Item /\ Plain("assistant_message") \in Item
      BY Entries DEF Inductive, ItemKinds
    <3>2. Say(rec, Plain("assistant")) \in Record
      BY <2>1, <3>1, LogKeepsRecord
    <3>3. r \in Record /\ r.messages = Say(rec, Plain("assistant")).messages
      BY <3>1, <3>2, LogKeepsRecord
    <3>. QED BY <2>1, <3>3 DEF Say, Record
  <2>3. Orderly(r.messages) /\ Started(r.messages)
    BY <2>1, <2>2, PlainTidy
  <2>4. Terminal(r, "turn_completed") \/ Terminal(rec, "turn_completed")
    BY <1>3 DEF Reply
  <2>5. pc = "reply" /\ approving
    BY <1>3 DEF Reply, Transcript, Places
  <2>. HIDE DEF r
  <2>. QED BY <2>1, <2>2, <2>3, <2>4, <2>5, TerminalTidy
<1>4. CASE ReplyError \/ EndFails \/ Crash
  BY <1>4, LostTidy DEF ReplyError, EndFails, Escape, Crash
<1>. QED BY <1>1, <1>2, <1>3, <1>4

(* Every reachable transcript is in order.                                 *)
THEOREM TranscriptAlways == Spec => []Transcript
<1>. USE TurnAssumption
<1>1. Init => Transcript
  <2>. SUFFICES ASSUME Init PROVE Transcript
    OBVIOUS
  <2>1. rec.messages = <<>> /\ disk.messages = <<>> /\ CallsIn(<<>>) = {}
    BY DEF Init, CallsIn
  <2>2. Tidy(rec.messages) /\ Tidy(disk.messages)
    BY <2>1 DEF Tidy, Orderly, AskedOnce, Following, Distinct, Started
  <2>. QED BY <2>2 DEF Init, Transcript, InIteration, Places, Walked, AnsweredSoFar
<1>2. Inductive /\ Transcript /\ [Next]_vars => Transcript'
  <2>. SUFFICES ASSUME Inductive, Transcript, [Next]_vars PROVE Transcript'
    OBVIOUS
  <2>1. CASE Judged
    BY <2>1, JudgedTidy
  <2>2. CASE ModelStep
    BY <2>2, ModelTidy
  <2>3. CASE ToolStep
    BY <2>3, BatchTidy, WorkTidy DEF ToolStep
  <2>4. CASE StartTurn
    BY <2>4, StartTidy
  <2>5. CASE SaveStart \/ Iterate \/ CancelTurn \/ LimitReached
    BY <2>5, TurnTidy
  <2>6. CASE Reject \/ Approve \/ Reply \/ ReplyError \/ EndFails \/ Crash
    BY <2>6, ContinueTidy
  <2>7. CASE UNCHANGED vars
    BY <2>7 DEF vars, control, work, Transcript, Tidy, Started, InIteration, Places, Walked,
       AnsweredSoFar
  <2>8. CASE Telling
    BY <2>8, EndTidy
  <2>. QED BY <2>1, <2>2, <2>3, <2>4, <2>5, <2>6, <2>7, <2>8 DEF Next, Run, Untold, Unjudged, Call
<1>. QED BY <1>1, <1>2, RecordIsFollowed, PTL DEF Spec

(* No call is answered twice, and every answer follows its calls: an       *)
(* approved batch that is executed again included.                         *)
THEOREM AnsweredOnceAlways == Spec => []AnsweredOnce
<1>1. Transcript => AnsweredOnce
  <2>. SUFFICES ASSUME Transcript, NEW j \in 1..Len(rec.messages), rec.messages[j].kind = "result"
       PROVE  /\ \A k \in 1..Len(rec.messages) : rec.messages[k] = rec.messages[j] => k = j
              /\ \E i \in 1..(j - 1) : Carries(i) /\ \E c \in 1..rec.messages[i].call : Answers(j, i, c)
    BY DEF AnsweredOnce
  <2>1. \A k \in 1..Len(rec.messages) : rec.messages[k] = rec.messages[j] => k = j
    BY DEF Transcript, Tidy, Orderly, Distinct
  <2>2. PICK i \in CallsIn(rec.messages) :
            i < j /\ \E c \in 1..rec.messages[i].call : rec.messages[j] = AnswerTo(rec.messages[i], c)
    BY DEF Transcript, Tidy, Orderly, Following
  <2>3. i \in 1..(j - 1) /\ Carries(i)
    BY <2>2 DEF CallsIn, Carries
  <2>. QED BY <2>1, <2>2, <2>3 DEF Answers, AnswerTo
<1>. QED BY <1>1, TranscriptAlways, PTL

(* What the model is shown when the loop goes back to it answers every     *)
(* call of the turn, or of the approved batch.                             *)
THEOREM ModelAlwaysSeesAnswers == Spec => []ModelSeesAnswers
<1>1. Inductive /\ Transcript => ModelSeesAnswers
  <2>. SUFFICES ASSUME Inductive, Transcript, NEW i \in 1..Len(rec.messages), Carries(i),
                       \/ pc \in {"loop", "model"} /\ rec.messages[i].turn = turn
                       \/ pc = "reply" /\ \A k \in (i + 1)..Len(rec.messages) : ~Carries(k),
                       NEW c \in 1..rec.messages[i].call
       PROVE  \E j \in (i + 1)..Len(rec.messages) : Answers(j, i, c)
    BY DEF ModelSeesAnswers
  <2>1. i \in CallsIn(rec.messages) /\ Len(rec.messages) \in Nat
    BY DEF CallsIn, Carries, Inductive, Typed, Record
  <2>2. AnsweredIn(rec.messages, i)
    <3>1. CASE pc \in {"loop", "model"} /\ rec.messages[i].turn = turn
      BY <2>1, <3>1 DEF Transcript, AnsweredSoFar
    <3>2. CASE pc = "reply" /\ \A k \in (i + 1)..Len(rec.messages) : ~Carries(k)
      <4>1. \A k \in CallsIn(rec.messages) : k <= i
        BY <2>1, <3>2 DEF CallsIn, Carries
      <4>. QED BY <2>1, <3>2, <4>1 DEF Transcript, AnsweredSoFar
    <3>. QED BY <3>1, <3>2
  <2>. QED BY <2>2 DEF AnsweredIn, Answers, AnswerTo
<1>. QED BY <1>1, RecordIsFollowed, TranscriptAlways, PTL
-----------------------------------------------------------------------------
(* Model requests. An attempt is what its own stream brought (Heard) after *)
(* as many recorded failures as there were retries (Apart). And the newest *)
(* message of the user is followed from the transcript, where every message*)
(* stands at the place it names (Placed), through each way of trimming     *)
(* (Keeps), into the request (Asked).                                      *)

Letters   == UNION {ToSet(text) : text \in Texts}
Answering == {"send", "stream", "fallback", "answer"}
Failures(n) == [i \in 1..n |-> "failed"]

(* Every attempt before this one left a record of its failure.             *)
Apart ==
    /\ retryIndex \in Nat
    /\ phase \in {"send", "stream", "fallback"} => captured = Failures(retryIndex)
    /\ phase = "answer" => captured = Append(Failures(retryIndex), "completed")

(* What this attempt has heard: its deltas spell the message so far, which *)
(* only the whole answer asked for after an empty stream replaces.         *)
Heard ==
    /\ previous \in Texts \cup {<<>>}
    /\ grew => deltas = previous
    /\ previous # <<>> => phase \in {"stream", "answer"} /\ final = previous
    /\ phase # "answer" /\ previous = <<>> => final = None
    /\ phase = "fallback" => final = None

(* One more record of a failure.                                           *)
LEMMA OneMoreFailure ==
    ASSUME NEW n \in Nat PROVE Append(Failures(n), "failed") = Failures(n + 1)
<1>1. Failures(n) \in Seq({"failed"}) /\ Len(Failures(n)) = n
  BY DEF Failures
<1>2. DOMAIN Append(Failures(n), "failed") = 1..(n + 1)
  BY <1>1
<1>3. \A i \in 1..(n + 1) : Append(Failures(n), "failed")[i] = "failed"
  BY <1>1 DEF Failures
<1>4. Append(Failures(n), "failed") \in Seq({"failed"})
  BY <1>1
<1> QED BY <1>1, <1>2, <1>3, <1>4 DEF Failures

(* A sequence is a prefix of it and the rest.                              *)
LEMMA PrefixAndRest ==
    ASSUME NEW S, NEW p \in Seq(S), NEW t \in Seq(S), IsPrefix(p, t)
    PROVE  p \o SubSeq(t, Len(p) + 1, Len(t)) = t
<1>1. Len(p) \in Nat /\ Len(t) \in Nat /\ Len(p) <= Len(t)
      /\ SubSeq(p, 1, Len(p)) = SubSeq(t, 1, Len(p))
  BY DEF IsPrefix
<1> DEFINE q == SubSeq(t, Len(p) + 1, Len(t))
<1>2. q \in Seq(S) /\ Len(q) = Len(t) - Len(p)
      /\ \A i \in 1..(Len(t) - Len(p)) : q[i] = t[Len(p) + i]
  BY <1>1
<1>3. \A i \in 1..Len(p) : p[i] = t[i]
  <2>1. \A i \in 1..Len(p) : SubSeq(p, 1, Len(p))[i] = p[i] /\ SubSeq(t, 1, Len(p))[i] = t[i]
    BY <1>1
  <2> QED BY <1>1, <2>1
<1> HIDE DEF q
<1>4. p \o q \in Seq(S) /\ Len(p \o q) = Len(t)
  BY <1>1, <1>2
<1>5. \A i \in 1..Len(t) : (p \o q)[i] = t[i]
  <2> TAKE i \in 1..Len(t)
  <2>1. CASE i <= Len(p)
    <3>1. i \in 1..Len(p)
      BY <1>1, <2>1
    <3>2. (p \o q)[i] = p[i]
      BY <1>2, <3>1
    <3> QED BY <1>3, <3>1, <3>2
  <2>2. CASE i > Len(p)
    <3>1. i - Len(p) \in 1..(Len(t) - Len(p)) /\ Len(p) + (i - Len(p)) = i
      BY <1>1, <2>2
    <3>2. (p \o q)[i] = q[i - Len(p)]
      BY <1>1, <1>2, <2>2
    <3> QED BY <1>2, <3>1, <3>2
  <2>3. i <= Len(p) \/ i > Len(p)
    BY <1>1
  <2> QED BY <2>1, <2>2, <2>3
<1>6. p \o q = t
  <2>1. \A x, y \in Seq(S) : Len(x) = Len(y) /\ (\A i \in 1..Len(y) : x[i] = y[i]) => x = y
    OBVIOUS
  <2> QED BY <1>4, <1>5, <2>1
<1> QED BY <1>6 DEF q

(* What an answer says is a sequence of letters, and is not None.          *)
LEMMA TextsAreSequences ==
    /\ \A text \in Texts : text \in Seq(Letters) /\ text # None
    /\ <<>> \in Seq(Letters)
BY ModelRequestAssumptions DEF Letters

(* A partial message.                                                      *)
LEMMA PartialHeard ==
    ASSUME Heard, NEW text \in Texts, PartialMessage(text) PROVE Heard'
<1>1. CASE text = <<>>
  <2>1. UNCHANGED <<deltas, previous, final, phase>> /\ grew' = (grew /\ IsPrefix(previous, text))
    BY <1>1 DEF PartialMessage
  <2> QED BY <2>1 DEF Heard
<1>2. CASE text # <<>>
  <2>1. /\ previous' = text /\ final' = text /\ phase = "stream" /\ phase' = phase
        /\ grew' = (grew /\ IsPrefix(previous, text))
        /\ deltas' = deltas \o (IF IsPrefix(previous, text)
                                THEN SubSeq(text, Len(previous) + 1, Len(text)) ELSE text)
    BY <1>2 DEF PartialMessage, Delta
  <2>2. previous \in Seq(Letters) /\ text \in Seq(Letters)
    BY TextsAreSequences, <1>2 DEF Heard
  <2>3. grew' => deltas' = text
    <3> SUFFICES ASSUME grew' PROVE deltas' = text
      OBVIOUS
    <3>1. grew /\ IsPrefix(previous, text)
      BY <2>1
    <3>2. deltas' = previous \o SubSeq(text, Len(previous) + 1, Len(text))
      BY <2>1, <3>1 DEF Heard
    <3> QED BY <2>2, <3>1, <3>2, PrefixAndRest
  <2> QED BY <1>2, <2>1, <2>3 DEF Heard
<1> QED BY <1>1, <1>2

(* An attempt that raised leaves the record of its failure and nothing it  *)
(* has read (_run_model_with_retries).                                     *)
LEMMA FailsApart ==
    ASSUME Apart, Heard, phase \in {"send", "stream", "fallback"}, Fails
    PROVE  Apart' /\ Heard'
<1>1. captured' = Failures(retryIndex + 1) /\ retryIndex \in Nat
  BY OneMoreFailure DEF Apart, Fails, CaptureError, WriteRecord
<1>2. \/ phase' = "idle" /\ retryIndex' = retryIndex
      \/ phase' = "send" /\ retryIndex' = retryIndex + 1
  BY DEF Fails
<1>3. Apart'
  BY <1>1, <1>2 DEF Apart
<1>4. Heard'
  BY <1>2 DEF Heard, Fails, Cleared
<1> QED BY <1>3, <1>4

(* Every step keeps attempts apart.                                        *)
LEMMA AttemptsInvariant ==
    ASSUME Apart, Heard, [RequestNext]_requestVars PROVE Apart' /\ Heard'
<1>1. CASE UNCHANGED requestVars
  BY <1>1 DEF requestVars, stream, Apart, Heard
<1>2. CASE UserAsks
  BY <1>2 DEF UserAsks, stream, Apart, Heard
<1>3. CASE BuildInput
  <2>1. Failures(0) = <<>>
    BY DEF Failures
  <2>2. Apart'
    BY <1>3, <2>1 DEF BuildInput, Apart
  <2> QED BY <1>3, <2>2 DEF BuildInput, stream, Heard
<1>4. CASE Send
  <2>1. CASE Fails
    BY <1>4, <2>1, FailsApart DEF Send
  <2>2. CASE phase' = "stream" /\ UNCHANGED <<retryIndex, stream, captured>>
    BY <1>4, <2>2 DEF Send, stream, Apart, Heard
  <2> QED BY <1>4, <2>1, <2>2 DEF Send
<1>5. ASSUME NEW text \in Texts, PartialMessage(text) PROVE Apart' /\ Heard'
  BY <1>5, PartialHeard DEF PartialMessage, Apart
<1>6. ASSUME NEW tool \in Tools, PartialCall(tool) PROVE Apart' /\ Heard'
  BY <1>6 DEF PartialCall, Apart, Heard
<1>7. CASE StreamEnds
  <2>1. /\ phase = "stream" /\ UNCHANGED <<retryIndex, previous, final, called, deltas, grew>>
        /\ \/ phase' = "fallback" /\ final = None /\ captured' = captured
           \/ phase' = "answer" /\ captured' = Append(captured, "completed")
    BY <1>7 DEF StreamEnds, CaptureSuccess, WriteRecord, stream
  <2>2. previous # <<>> => previous # None
    BY TextsAreSequences DEF Heard
  <2> QED BY <2>1, <2>2 DEF Apart, Heard
<1>8. CASE Fallback
  <2>1. phase = "fallback" /\ phase' = "answer" /\ captured' = Append(captured, "completed")
        /\ UNCHANGED <<retryIndex, previous, deltas, grew>>
    BY <1>8 DEF Fallback, CaptureSuccess, WriteRecord
  <2>2. previous = <<>>
    BY <2>1 DEF Heard
  <2> QED BY <2>1, <2>2 DEF Apart, Heard
<1>9. CASE AttemptFails
  BY <1>9, FailsApart DEF AttemptFails
<1>10. CASE Cancel \/ Answer \/ RunTool
  BY <1>10 DEF Cancel, Answer, RunTool, Cleared, Apart, Heard
<1> QED BY <1>1, <1>2, <1>3, <1>4, <1>5, <1>6, <1>7, <1>8, <1>9, <1>10 DEF RequestNext

(* For any texts, actions and number of retries: when a request is         *)
(* answered, each attempt before left a record of its failure and the      *)
(* answered one the last record, and the deltas spell the message of the   *)
(* answered one, whatever the failed ones had streamed                     *)
(* (_run_model_with_retries, stream_generate, _write_record).              *)
THEOREM AttemptsAlwaysApart == RequestSpec => []AttemptsStayApart
<1>1. RequestInit => Apart /\ Heard
  BY DEF RequestInit, Apart, Heard
<1>2. Apart /\ Heard /\ [RequestNext]_requestVars => (Apart /\ Heard)'
  BY AttemptsInvariant
<1>3. Apart /\ Heard => AttemptsStayApart
  BY DEF Apart, Heard, AttemptsStayApart, Failures
<1> QED BY <1>1, <1>2, <1>3, PTL DEF RequestSpec
-----------------------------------------------------------------------------
(* What trimming keeps.                                                    *)

Rank(S, i) == Cardinality({j \in S : j <= i})

(* Places of a finite set are counted without gap or repetition.           *)
LEMMA RankGrows ==
    ASSUME NEW N \in Nat, NEW S \in SUBSET (1..N)
    PROVE  /\ IsFiniteSet(S) /\ Cardinality(S) \in Nat
           /\ \A i \in S : Rank(S, i) \in 1..Cardinality(S)
           /\ \A i, j \in S : i < j => Rank(S, i) < Rank(S, j)
<1>1. IsFiniteSet(S) /\ Cardinality(S) \in Nat
  <2>1. IsFiniteSet(1..N)
    BY FS_Interval
  <2> QED BY <2>1, FS_Subset, FS_CardinalityType
<1>2. ASSUME NEW i \in S
      PROVE  /\ IsFiniteSet({j \in S : j <= i}) /\ Rank(S, i) \in Nat /\ Rank(S, i) <= Cardinality(S)
  <2>1. {j \in S : j <= i} \in SUBSET S
    OBVIOUS
  <2> QED BY <1>1, <2>1, FS_Subset, FS_CardinalityType DEF Rank
<1>3. ASSUME NEW i \in S PROVE Rank(S, i) # 0
  <2>1. i \in {j \in S : j <= i}
    OBVIOUS
  <2> QED BY <1>2, <2>1, FS_EmptySet DEF Rank
<1>4. ASSUME NEW i \in S, NEW j \in S, i < j PROVE Rank(S, i) < Rank(S, j)
  <2> DEFINE A == {k \in S : k <= i}
             B == {k \in S : k <= j}
  <2>1. A \in SUBSET B /\ j \in B /\ j \notin A
    <3>1. i \in Nat /\ j \in Nat /\ \A k \in S : k \in Nat
      OBVIOUS
    <3>2. \A k \in Nat : k <= i => k <= j
      BY <1>4, <3>1
    <3>3. ~(j <= i) /\ j <= j
      BY <1>4, <3>1
    <3>4. j \in B /\ j \notin A
      BY <3>3
    <3>5. \A k \in A : k \in B
      BY <3>1, <3>2
    <3> QED BY <3>4, <3>5
  <2>2. IsFiniteSet(B) /\ Cardinality(A) \in Nat /\ Cardinality(B) \in Nat
    BY <1>2 DEF Rank
  <2> HIDE DEF A, B
  <2>3. Cardinality(A) <= Cardinality(B) /\ Cardinality(A) # Cardinality(B)
    BY <2>1, <2>2, FS_Subset
  <2>4. Rank(S, i) = Cardinality(A) /\ Rank(S, j) = Cardinality(B)
    BY DEF Rank, A, B
  <2> QED BY <2>2, <2>3, <2>4
<1>5. ASSUME NEW i \in S PROVE Rank(S, i) \in 1..Cardinality(S)
  <2>1. Rank(S, i) \in Nat /\ Rank(S, i) <= Cardinality(S)
    BY <1>2
  <2>2. Rank(S, i) # 0
    BY <1>3
  <2> QED BY <1>1, <2>1, <2>2
<1> QED BY <1>1, <1>4, <1>5

(* A non-empty set of places has a newest one.                             *)
LEMMA NewestIs ==
    ASSUME NEW N \in Nat, NEW S \in SUBSET (1..N), S # {}
    PROVE  Newest(S) \in S /\ \A j \in S : j <= Newest(S)
<1> DEFINE c == Cardinality(S)
<1>1. /\ IsFiniteSet(S) /\ c \in Nat /\ \A i \in S : Rank(S, i) \in 1..c
      /\ \A i, j \in S : i < j => Rank(S, i) < Rank(S, j)
  BY RankGrows
<1>2. c # 0
  BY <1>1, FS_EmptySet
<1> HIDE DEF c
<1>3. \E i \in S : Rank(S, i) = c
  <2> SUFFICES ASSUME \A i \in S : Rank(S, i) # c PROVE FALSE
    OBVIOUS
  <2> DEFINE f == [i \in S |-> Rank(S, i)]
  <2>1. f \in [S -> 1..(c - 1)]
    BY <1>1, <1>2
  <2>2. IsFiniteSet(1..(c - 1)) /\ Cardinality(1..(c - 1)) = c - 1
    BY <1>1, <1>2, FS_Interval
  <2>3. Cardinality(1..(c - 1)) < Cardinality(S)
    BY <1>1, <2>2 DEF c
  <2> HIDE DEF f
  <2>4. \E x, y \in S : x # y /\ f[x] = f[y]
    BY <1>1, <2>1, <2>2, <2>3, FS_PigeonHole
  <2>5. \A x \in S : f[x] = Rank(S, x) /\ x \in Nat
    BY DEF f
  <2> QED BY <1>1, <2>4, <2>5
<1>4. PICK m \in S : Rank(S, m) = c
  BY <1>3
<1>5. \A j \in S : j <= m
  BY <1>1, <1>4
<1> QED BY <1>5 DEF Newest

(* Picking some messages keeps them.                                       *)
IsList(ms) == \E S : ms \in Seq(S)
Has(ms, m) == \E i \in DOMAIN ms : ms[i] = m

LEMMA PickedHas ==
    ASSUME NEW ms, IsList(ms), NEW S \in SUBSET DOMAIN ms
    PROVE  IsList(Picked(ms, S)) /\ \A i \in S : Has(Picked(ms, S), ms[i])
<1>1. PICK N \in Nat : DOMAIN ms = 1..N
  BY DEF IsList
<1>2. /\ Cardinality(S) \in Nat /\ \A i \in S : Rank(S, i) \in 1..Cardinality(S)
      /\ \A i, j \in S : i < j => Rank(S, i) < Rank(S, j)
  BY <1>1, RankGrows
<1> DEFINE p == Picked(ms, S)
           at(n) == CHOOSE i \in S : Rank(S, i) = n
<1>3. p = [n \in 1..Cardinality(S) |-> ms[at(n)]]
  BY DEF Picked, Rank
<1> HIDE DEF p
<1>4. IsList(p)
  <2>1. p \in [1..Cardinality(S) -> {ms[at(n)] : n \in 1..Cardinality(S)}]
    BY <1>3
  <2>2. p \in Seq({ms[at(n)] : n \in 1..Cardinality(S)})
    BY <1>2, <2>1
  <2> QED BY <2>2 DEF IsList
<1>5. ASSUME NEW i \in S PROVE Has(p, ms[i])
  <2>1. \A j \in S : Rank(S, j) = Rank(S, i) => j = i
    BY <1>1, <1>2
  <2>2. at(Rank(S, i)) = i
    BY <2>1
  <2>3. Rank(S, i) \in DOMAIN p /\ p[Rank(S, i)] = ms[i]
    BY <1>2, <1>3, <2>2
  <2> QED BY <2>3 DEF Has
<1> QED BY <1>4, <1>5 DEF p

(* A message of the user, however much of it is left.                      *)
FromUser(m, at) == \E n, ref : m = Message("user", n, at, ref)
Keeps(ms, at) == IsList(ms) /\ \E i \in DOMAIN ms : FromUser(ms[i], at)

(* Such a message has the role and the place it says.                      *)
LEMMA FromUserIs ==
    ASSUME NEW m, NEW at, FromUser(m, at) PROVE m.role = "user" /\ m.at = at
BY DEF FromUser, Message

(* The latest messages of a transcript, with the newest of the user        *)
(* (_retain_recent_messages).                                              *)
LEMMA RetainKeeps ==
    ASSUME NEW ms, IsList(ms), Users(ms) # {}, NEW limit \in Nat,
           NEW at, FromUser(ms[Newest(Users(ms))], at)
    PROVE  Keeps(Retain(ms, limit), at)
<1> DEFINE u == Newest(Users(ms))
           kept == Tail_(ms, limit)
           user == IF kept \cap Users(ms) # {} \/ Users(ms) = {} THEN {} ELSE {u}
<1>1. Len(ms) \in Nat /\ DOMAIN ms = 1..Len(ms) /\ Users(ms) \in SUBSET (1..Len(ms))
  BY DEF IsList, Users
<1>2. u \in Users(ms) /\ \A j \in Users(ms) : j <= u
  BY <1>1, NewestIs
<1> HIDE DEF u
<1>3. kept \in SUBSET DOMAIN ms /\ \A i \in kept : \A j \in DOMAIN ms : i <= j => j \in kept
  BY <1>1 DEF Tail_
<1>4. u \in kept \cup user
  <2>1. CASE kept \cap Users(ms) = {}
    BY <1>2, <2>1
  <2>2. CASE kept \cap Users(ms) # {}
    <3>1. PICK i \in kept : i \in Users(ms)
      BY <2>2
    <3> QED BY <1>1, <1>2, <1>3, <3>1
  <2> QED BY <2>1, <2>2
<1>5. kept \cup user \in SUBSET DOMAIN ms
  BY <1>1, <1>2, <1>3
<1>6. Retain(ms, limit) = Picked(ms, kept \cup user)
  BY DEF Retain, u
<1> HIDE DEF kept, user
<1>7. IsList(Picked(ms, kept \cup user)) /\ Has(Picked(ms, kept \cup user), ms[u])
  BY <1>4, <1>5, PickedHas
<1> QED BY <1>6, <1>7 DEF Keeps, Has, u

(* One element replaced, if it is there.                                   *)
LEMMA ReplacedIsSeq ==
    ASSUME NEW W, NEW q \in Seq(W), NEW k, NEW w \in W
    PROVE  [q EXCEPT ![k] = w] \in Seq(W)
<1> DEFINE r == [i \in 1..Len(q) |-> IF i = k THEN w ELSE q[i]]
<1>1. Len(q) \in Nat /\ DOMAIN q = 1..Len(q) /\ \A i \in 1..Len(q) : q[i] \in W
  OBVIOUS
<1>2. r \in [1..Len(q) -> W]
  BY <1>1
<1>3. r \in Seq(W)
  BY <1>1, <1>2, IsASeq
<1>4. [q EXCEPT ![k] = w] = r
  BY <1>1
<1> QED BY <1>3, <1>4

(* Leaving out messages of others and cutting one of the user              *)
(* (_fit_messages_within_budget).                                          *)
LEMMA FitKeeps ==
    ASSUME NEW ms, NEW at, Keeps(ms, at) PROVE Keeps(Fit(ms), at)
<1> DEFINE S == {i \in DOMAIN ms :
                   i \in Users(ms) \/ Cardinality((1..i) \ Users(ms)) > Dropped(ms)}
           kept == Picked(ms, S)
           over == Tokens(kept) > MaxTokens /\ Users(kept) # {}
           user == Newest(Users(kept))
           rest == Tokens(kept) - kept[user].size
           room == IF rest < MaxTokens THEN MaxTokens - rest ELSE 1
<1>1. kept = Without(ms, Dropped(ms))
  BY DEF Without
<1>2. PICK i \in DOMAIN ms : FromUser(ms[i], at)
  BY DEF Keeps
<1>3. i \in S
  BY <1>2, FromUserIs DEF Users
<1>4. IsList(kept) /\ Has(kept, ms[i])
  BY <1>3, PickedHas DEF Keeps
<1> HIDE DEF S, kept
<1>5. Fit(ms) = IF over /\ kept[user].size > room THEN [kept EXCEPT ![user].size = room] ELSE kept
  BY <1>1 DEF Fit
<1> HIDE DEF over, user, room
<1>6. PICK n \in DOMAIN kept : FromUser(kept[n], at)
  BY <1>2, <1>4 DEF Has
<1>7. Keeps(kept, at)
  BY <1>4, <1>6 DEF Keeps
<1>8. Keeps([kept EXCEPT ![user].size = room], at)
  <2> DEFINE v == [kept[user] EXCEPT !.size = room]
             cut == [kept EXCEPT ![user] = v]
  <2>1. IsList(cut)
    <3>1. PICK T : kept \in Seq(T)
      BY <1>4 DEF IsList
    <3> HIDE DEF v
    <3>2. kept \in Seq(T \cup {v})
      BY <3>1
    <3>3. cut \in Seq(T \cup {v})
      BY <3>2, ReplacedIsSeq
    <3> QED BY <3>3 DEF IsList
  <2>2. n \in DOMAIN cut /\ FromUser(cut[n], at)
    <3>1. CASE n = user
      <4>1. PICK k, ref : kept[n] = Message("user", k, at, ref)
        BY <1>6 DEF FromUser
      <4>2. v = Message("user", room, at, ref)
        BY <3>1, <4>1 DEF Message
      <4> HIDE DEF v
      <4>3. cut[n] = v
        BY <1>6, <3>1
      <4> QED BY <1>6, <4>2, <4>3 DEF FromUser
    <3>2. CASE n # user
      BY <1>6, <3>2
    <3> QED BY <3>1, <3>2
  <2>3. Keeps(cut, at)
    BY <2>1, <2>2 DEF Keeps
  <2> QED BY <2>3
<1> QED BY <1>5, <1>7, <1>8

(* Whatever build_model_input does with a transcript, the newest message of*)
(* the user is in what it returns.                                         *)
LEMMA TrimmedKeeps ==
    ASSUME NEW ms, IsList(ms), Users(ms) # {}, NEW at, FromUser(ms[Newest(Users(ms))], at)
    PROVE  Keeps(Assemble(Trimmed(ms)), at)
<1>1. CompactTo \in Nat /\ OverflowTo \in Nat
  BY ModelRequestAssumptions
<1>2. Keeps(ms, at)
  <2>1. Len(ms) \in Nat /\ DOMAIN ms = 1..Len(ms) /\ Users(ms) \in SUBSET (1..Len(ms))
    BY DEF IsList, Users
  <2>2. Newest(Users(ms)) \in Users(ms)
    BY <2>1, NewestIs
  <2>3. Newest(Users(ms)) \in DOMAIN ms
    BY <2>1, <2>2
  <2> QED BY <2>3 DEF Keeps
<1>3. Keeps(Compact(ms), at)
  BY <1>1, <1>2, RetainKeeps DEF Compact
<1>4. Keeps(Recover(ms), at)
  BY <1>1, RetainKeeps, FitKeeps DEF Recover
<1>5. Keeps(Trimmed(ms), at)
  BY <1>2, <1>3, <1>4 DEF Trimmed
<1> DEFINE x == Trimmed(ms)
           m == Message("user", ContextSize, 0, None)
<1> HIDE DEF x, m
<1>6. Keeps(x, at) => Keeps(Append(x, m), at)
  <2> SUFFICES ASSUME Keeps(x, at) PROVE Keeps(Append(x, m), at)
    OBVIOUS
  <2>1. PICK T : x \in Seq(T)
    BY DEF Keeps, IsList
  <2>2. PICK n \in DOMAIN x : FromUser(x[n], at)
    BY DEF Keeps
  <2>3. x \in Seq(T \cup {m}) /\ Append(x, m) \in Seq(T \cup {m})
    BY <2>1
  <2>4. n \in DOMAIN Append(x, m) /\ Append(x, m)[n] = x[n]
    BY <2>1, <2>2
  <2> QED BY <2>2, <2>3, <2>4 DEF Keeps, IsList
<1> QED BY <1>5, <1>6 DEF Assemble, x, m

(* A message is at its place; the newest of the user is in the request     *)
(* from its building to its answer.                                        *)
Placed(ms) ==
    IsList(ms) /\ \A i \in DOMAIN ms : ms[i].role = "user" => FromUser(ms[i], i)

Asked ==
    /\ Placed(messages)
    /\ phase # "idle" => Users(messages) # {}
    /\ phase \in Answering => Keeps(request.messages, Newest(Users(messages)))

(* A request that keeps a message of the user has one to send.             *)
LEMMA KeepsIsSent ==
    ASSUME NEW ms, NEW at, Keeps(ms, at) PROVE Sent(ms, at) /\ Valid(Payload(ms))
<1>1. PICK i \in DOMAIN ms : FromUser(ms[i], at)
  BY DEF Keeps
<1>2. ms[i].role = "user" /\ ms[i].at = at
  BY <1>1, FromUserIs
<1>3. i \in DOMAIN Payload(ms) /\ Payload(ms)[i].role = "user"
  BY <1>2 DEF Payload, Role
<1> QED BY <1>2, <1>3 DEF Sent, Valid

(* Messages that are added stand at their places.                          *)
LEMMA AppendPlaced ==
    ASSUME NEW ms, Placed(ms), NEW m, m.role = "user" => FromUser(m, Len(ms) + 1)
    PROVE  /\ Placed(Append(ms, m)) /\ Len(Append(ms, m)) = Len(ms) + 1
           /\ Users(ms) \subseteq Users(Append(ms, m))
           /\ m.role = "user" => Users(Append(ms, m)) # {}
<1> DEFINE new == Append(ms, m)
<1>1. PICK T : ms \in Seq(T)
  BY DEF Placed, IsList
<1>2. ms \in Seq(T \cup {m})
  BY <1>1
<1>3. new \in Seq(T \cup {m}) /\ Len(ms) \in Nat /\ Len(new) = Len(ms) + 1
  BY <1>2
<1>4. /\ DOMAIN new = 1..(Len(ms) + 1) /\ DOMAIN ms = 1..Len(ms) /\ new[Len(ms) + 1] = m
      /\ \A i \in 1..Len(ms) : new[i] = ms[i]
  BY <1>2
<1> HIDE DEF new
<1>5. \A i \in DOMAIN new : i \in DOMAIN ms \/ i = Len(ms) + 1
  BY <1>3, <1>4
<1>6. \A i \in DOMAIN new : new[i].role = "user" => FromUser(new[i], i)
  BY <1>4, <1>5 DEF Placed
<1>7. Users(ms) \subseteq Users(new)
  BY <1>3, <1>4 DEF Users
<1>8. m.role = "user" => Len(ms) + 1 \in Users(new)
  BY <1>3, <1>4 DEF Users
<1>9. Placed(new)
  BY <1>3, <1>6 DEF Placed, IsList
<1>10. m.role = "user" => Users(new) # {}
  BY <1>8
<1>11. Len(new) = Len(ms) + 1
  BY <1>3
<1> QED BY <1>7, <1>9, <1>10, <1>11 DEF new

(* The two messages of a tool that ran.                                    *)
LEMMA CallAndResult ==
    RunTool =>
      \E n \in Sizes :
        messages' = messages \o <<Message("assistant", 1, Len(messages) + 2 - 1, None),
                                  Result(n, Len(messages) + 2)>>
<1> DEFINE Both(n, at) == messages \o <<Message("assistant", 1, at - 1, None), Result(n, at)>>
           Held(n, at) == IF n > ExternalizeAt THEN [files EXCEPT ![called] = at] ELSE files
<1> SUFFICES ASSUME RunTool PROVE \E n \in Sizes : messages' = Both(n, Len(messages) + 2)
  OBVIOUS
<1>1. \E n \in Sizes : /\ messages' = Both(n, Len(messages) + 2)
                       /\ files' = Held(n, Len(messages) + 2)
  BY DEF RunTool
<1> HIDE DEF Both, Held
<1> QED BY <1>1

(* Every step keeps the newest message of the user in the request.         *)
LEMMA AskedInvariant ==
    ASSUME Asked, [RequestNext]_requestVars PROVE Asked'
<1>1. CASE UNCHANGED requestVars
  BY <1>1 DEF requestVars, Asked
<1>2. CASE UserAsks
  <2>1. PICK n \in Sizes : messages' = Append(messages, Message("user", n, Len(messages) + 1, None))
    BY <1>2 DEF UserAsks
  <2> DEFINE m == Message("user", n, Len(messages) + 1, None)
  <2>2. m.role = "user" /\ FromUser(m, Len(messages) + 1)
    BY DEF Message, FromUser
  <2>3. messages' = Append(messages, m)
    BY <2>1
  <2> HIDE DEF m
  <2>4. Placed(messages') /\ Users(messages') # {}
    BY <2>2, <2>3, AppendPlaced DEF Asked
  <2>5. phase' = "build"
    BY <1>2 DEF UserAsks
  <2> QED BY <2>4, <2>5 DEF Asked, Answering
<1>3. CASE BuildInput
  <2>1. /\ request'.messages = Assemble(Trimmed(messages)) /\ messages' = messages
        /\ phase = "build" /\ phase' = "send"
    BY <1>3 DEF BuildInput
  <2>2. Newest(Users(messages)) \in Users(messages)
    <3>1. Len(messages) \in Nat /\ Users(messages) \in SUBSET (1..Len(messages)) /\ Users(messages) # {}
      BY <2>1 DEF Asked, Placed, IsList, Users
    <3> QED BY <3>1, NewestIs
  <2>3. FromUser(messages[Newest(Users(messages))], Newest(Users(messages)))
    BY <2>2 DEF Asked, Placed, Users
  <2>4. Keeps(request'.messages, Newest(Users(messages)))
    BY <2>1, <2>3, TrimmedKeeps DEF Asked, Placed
  <2> QED BY <2>1, <2>4 DEF Asked
<1>4. CASE Send \/ AttemptFails
  <2>1. messages' = messages /\ phase \in {"send", "stream", "fallback"}
    BY <1>4 DEF Send, AttemptFails
  <2>2. phase' = "idle" \/ (phase' \in Answering /\ request' = request)
    BY <1>4 DEF Send, AttemptFails, Fails, Answering
  <2> QED BY <2>1, <2>2 DEF Asked, Answering
<1>5. CASE \/ StreamEnds \/ Fallback
           \/ \E text \in Texts : PartialMessage(text)
           \/ \E tool \in Tools : PartialCall(tool)
  <2>1. messages' = messages /\ request' = request /\ phase \in Answering /\ phase' \in Answering
    BY <1>5 DEF StreamEnds, Fallback, PartialMessage, PartialCall, Answering
  <2> QED BY <2>1 DEF Asked, Answering
<1>6. CASE Cancel
  BY <1>6 DEF Cancel, Asked, Answering
<1>7. CASE Answer
  <2>1. phase' = "idle"
    BY <1>7 DEF Answer
  <2>2. CASE UNCHANGED messages
    BY <2>1, <2>2 DEF Asked, Answering
  <2>3. CASE ~ UNCHANGED messages
    <3>1. PICK n \in Sizes : messages' = Append(messages, Message("assistant", n, Len(messages) + 1, None))
      BY <1>7, <2>3 DEF Answer
    <3> DEFINE m == Message("assistant", n, Len(messages) + 1, None)
    <3>2. m.role # "user"
      BY DEF Message
    <3>3. messages' = Append(messages, m)
      BY <3>1
    <3> HIDE DEF m
    <3>4. Placed(messages')
      BY <3>2, <3>3, AppendPlaced DEF Asked
    <3> QED BY <2>1, <3>4 DEF Asked, Answering
  <2> QED BY <2>2, <2>3
<1>8. CASE RunTool
  <2>1. PICK n \in Sizes :
          messages' = messages \o <<Message("assistant", 1, Len(messages) + 2 - 1, None),
                                    Result(n, Len(messages) + 2)>>
    BY <1>8, CallAndResult
  <2> DEFINE x == Message("assistant", 1, Len(messages) + 2 - 1, None)
             y == Result(n, Len(messages) + 2)
  <2>2. x.role # "user" /\ y.role # "user"
    BY DEF Message, Result
  <2>3. messages' = messages \o <<x, y>>
    BY <2>1
  <2> HIDE DEF x, y
  <2>4. messages' = Append(Append(messages, x), y)
    <3>1. PICK T : messages \in Seq(T)
      BY DEF Asked, Placed, IsList
    <3>2. messages \in Seq(T \cup {x, y})
      BY <3>1
    <3> QED BY <2>3, <3>2
  <2>5. Placed(Append(messages, x)) /\ Users(messages) \subseteq Users(Append(messages, x))
    BY <2>2, AppendPlaced DEF Asked
  <2>6. Placed(messages') /\ Users(messages) \subseteq Users(messages')
    BY <2>2, <2>4, <2>5, AppendPlaced
  <2>7. phase = "answer" /\ phase' = "build"
    BY <1>8 DEF RunTool
  <2> QED BY <2>6, <2>7 DEF Asked, Answering
<1> QED BY <1>1, <1>2, <1>3, <1>4, <1>5, <1>6, <1>7, <1>8 DEF RequestNext

(* For any budget, limits, sizes and chain of tool calls: the newest       *)
(* message of the user is in every request that is being answered, and the *)
(* request is one that the adapter accepts (build_model_input,             *)
(* recover_overflow).                                                      *)
THEOREM NewestUserAlwaysSent == RequestSpec => []NewestUserIsSent
<1>1. RequestInit => Asked
  BY DEF RequestInit, Asked, Placed, IsList, Answering
<1>2. Asked /\ [RequestNext]_requestVars => Asked'
  BY AskedInvariant
<1>3. Asked => NewestUserIsSent
  BY KeepsIsSent DEF Asked, NewestUserIsSent, Answering
<1> QED BY <1>1, <1>2, <1>3, PTL DEF RequestSpec
-----------------------------------------------------------------------------
(* What recovery adds up to. Tokens is a recursive function, so what it    *)
(* says of a list is proved by induction on its length. The induction      *)
(* theorems of the library take an operator; Counting takes the set of the *)
(* numbers for which the claim holds.                                      *)

(* A non-empty set of numbers has a least one.                             *)
LEMMA LeastIs ==
    ASSUME NEW S \in SUBSET Nat, S # {} PROVE \E m \in S : \A n \in S : m <= n
<1>1. PICK n \in S : TRUE
  OBVIOUS
<1> DEFINE T == {j \in 1..(n + 1) : n + 1 - j \in S}
<1>2. T \in SUBSET (1..(n + 1)) /\ 1 \in T /\ n \in Nat
  OBVIOUS
<1>3. Newest(T) \in T /\ \A j \in T : j <= Newest(T)
  <2> HIDE DEF T
  <2>1. n + 1 \in Nat /\ T # {}
    BY <1>2
  <2> QED BY <1>2, <2>1, NewestIs
<1> DEFINE m == n + 1 - Newest(T)
<1>4. m \in S /\ Newest(T) \in 1..(n + 1)
  BY <1>3
<1>5. ASSUME NEW k \in S PROVE m <= k
  <2>1. CASE k > n
    BY <1>2, <1>4, <2>1
  <2>2. CASE k <= n
    <3>1. n + 1 - k \in 1..(n + 1) /\ n + 1 - (n + 1 - k) = k
      BY <1>2, <2>2
    <3>2. n + 1 - k \in T
      BY <3>1
    <3>3. n + 1 - k <= Newest(T)
      BY <1>3, <3>2
    <3> HIDE DEF T
    <3> QED BY <1>2, <1>4, <3>3
  <2> QED BY <1>2, <2>1, <2>2
<1> QED BY <1>4, <1>5

(* Induction, for a set in place of a predicate.                           *)
LEMMA Counting ==
    ASSUME NEW S, 0 \in S, \A n \in Nat : n \in S => n + 1 \in S
    PROVE  \A n \in Nat : n \in S
<1> SUFFICES ASSUME Nat \ S # {} PROVE FALSE
  OBVIOUS
<1>1. PICK m \in Nat \ S : \A n \in Nat \ S : m <= n
  BY LeastIs
<1>2. m # 0 /\ m - 1 \in Nat /\ ~(m <= m - 1) /\ (m - 1) + 1 = m
  BY <1>1
<1>3. m - 1 \in S
  BY <1>1, <1>2
<1> QED BY <1>1, <1>2, <1>3

(* Messages with their sizes; sums over the first messages of a list.      *)
Weighs(m) == \E role, n, at, ref : n \in Nat \ {0} /\ m = Message(role, n, at, ref)
Sized(ms) == IsList(ms) /\ \A i \in DOMAIN ms : Weighs(ms[i])

(* A message has a positive size, and keeps its role when it is cut.       *)
LEMMA WeighsIs ==
    ASSUME NEW m, Weighs(m)
    PROVE  /\ m.size \in Nat \ {0}
           /\ \A w \in Nat \ {0} : LET x == [m EXCEPT !.size = w] IN
                 Weighs(x) /\ x.size = w /\ x.role = m.role
<1>1. PICK role, n, at, ref : n \in Nat \ {0} /\ m = Message(role, n, at, ref)
  BY DEF Weighs
<1>2. m.size \in Nat \ {0}
  BY <1>1 DEF Message
<1>3. ASSUME NEW w \in Nat \ {0}
      PROVE  LET x == [m EXCEPT !.size = w] IN Weighs(x) /\ x.size = w /\ x.role = m.role
  <2> DEFINE x == [m EXCEPT !.size = w]
  <2>1. x = Message(role, w, at, ref)
    BY <1>1 DEF Message
  <2>2. Weighs(x)
    BY <2>1 DEF Weighs
  <2>3. x.size = w /\ x.role = role /\ m.role = role
    BY <1>1, <2>1 DEF Message
  <2> QED BY <2>2, <2>3
<1> QED BY <1>2, <1>3

(* So do those of a list.                                                  *)
LEMMA SizedIs ==
    ASSUME NEW ms, Sized(ms)
    PROVE  \A i \in DOMAIN ms : ms[i].size \in Nat \ {0}
BY WeighsIs DEF Sized
Sums(ms, g, n) == g[0] = 0 /\ \A k \in 1..n : g[k] = g[k - 1] + ms[k].size
Upto(ms) == CHOOSE sum : sum = [n \in 0..Len(ms) |->
                                  IF n = 0 THEN 0 ELSE sum[n - 1] + ms[n].size]

(* Sums over lists of the same sizes are the same.                         *)
LEMMA SumsAgree ==
    ASSUME NEW n \in Nat, NEW p, NEW q, NEW g, NEW h, Sums(p, g, n), Sums(q, h, n),
           \A k \in 1..n : p[k].size = q[k].size
    PROVE  \A k \in 0..n : g[k] = h[k]
<1> DEFINE S == {k \in Nat : k <= n => g[k] = h[k]}
<1>1. 0 \in S
  BY DEF Sums
<1>2. ASSUME NEW k \in Nat, k \in S PROVE k + 1 \in S
  <2> SUFFICES ASSUME k + 1 <= n PROVE g[k + 1] = h[k + 1]
    OBVIOUS
  <2>1. k + 1 \in 1..n /\ (k + 1) - 1 = k /\ k <= n
    OBVIOUS
  <2>2. g[k] = h[k]
    BY <1>2, <2>1
  <2> QED BY <2>1, <2>2 DEF Sums
<1>3. \A k \in Nat : k \in S
  <2> HIDE DEF S
  <2> QED BY <1>1, <1>2, Counting
<1> QED BY <1>3

(* There are such sums.                                                    *)
LEMMA SumsExist ==
    ASSUME NEW ms, Sized(ms)
    PROVE  \E g \in [0..Len(ms) -> Nat] : Sums(ms, g, Len(ms))
<1> DEFINE L == Len(ms)
           S == {n \in Nat : n <= L => \E g \in [0..n -> Nat] : Sums(ms, g, n)}
<1>0. L \in Nat /\ DOMAIN ms = 1..L
  BY DEF Sized, IsList
<1> HIDE DEF L
<1>1. 0 \in S
  <2>1. [k \in 0..0 |-> 0] \in [0..0 -> Nat] /\ Sums(ms, [k \in 0..0 |-> 0], 0)
    BY DEF Sums
  <2> QED BY <2>1
<1>2. ASSUME NEW n \in Nat, n \in S PROVE n + 1 \in S
  <2> SUFFICES ASSUME n + 1 <= L PROVE \E g \in [0..(n + 1) -> Nat] : Sums(ms, g, n + 1)
    OBVIOUS
  <2>1. PICK g \in [0..n -> Nat] : Sums(ms, g, n)
    BY <1>0, <1>2
  <2> DEFINE h == [k \in 0..(n + 1) |-> IF k = n + 1 THEN g[n] + ms[n + 1].size ELSE g[k]]
  <2>2. ms[n + 1].size \in Nat /\ g[n] \in Nat
    <3>1. n + 1 \in DOMAIN ms
      BY <1>0
    <3> QED BY <2>1, <3>1, SizedIs
  <2>3. h \in [0..(n + 1) -> Nat]
    BY <2>1, <2>2
  <2>4. h[0] = 0
    BY <2>1 DEF Sums
  <2>5. ASSUME NEW k \in 1..(n + 1) PROVE h[k] = h[k - 1] + ms[k].size
    <3>1. CASE k = n + 1
      BY <3>1
    <3>2. CASE k # n + 1
      <4>1. k \in 1..n /\ h[k] = g[k] /\ h[k - 1] = g[k - 1]
        BY <3>2
      <4> QED BY <2>1, <4>1 DEF Sums
    <3> QED BY <3>1, <3>2
  <2> HIDE DEF h
  <2>6. Sums(ms, h, n + 1)
    BY <2>4, <2>5 DEF Sums
  <2> QED BY <2>3, <2>6
<1>3. \A n \in Nat : n \in S
  <2> HIDE DEF S
  <2> QED BY <1>1, <1>2, Counting
<1>4. L \in S
  BY <1>0, <1>3
<1> QED BY <1>0, <1>4 DEF L

(* The recursive function in Tokens is defined.                            *)
LEMMA UptoIs ==
    ASSUME NEW ms, Sized(ms)
    PROVE  Upto(ms) \in [0..Len(ms) -> Nat] /\ Sums(ms, Upto(ms), Len(ms))
<1> DEFINE L == Len(ms)
           Next1(sum) == [n \in 0..L |-> IF n = 0 THEN 0 ELSE sum[n - 1] + ms[n].size]
<1>0. L \in Nat
  BY DEF Sized, IsList
<1>1. PICK g \in [0..L -> Nat] : Sums(ms, g, L)
  BY SumsExist
<1>2. Upto(ms) = CHOOSE sum : sum = Next1(sum)
  BY DEF Upto
<1> HIDE DEF L
<1>3. g = Next1(g)
  <2>1. \A n \in 0..L : g[n] = IF n = 0 THEN 0 ELSE g[n - 1] + ms[n].size
    BY <1>0, <1>1 DEF Sums
  <2> QED BY <1>1, <2>1
<1> HIDE DEF Next1
<1>4. Upto(ms) = Next1(Upto(ms))
  BY <1>2, <1>3
<1> USE DEF Next1
<1>5. Sums(ms, Upto(ms), L)
  <2>1. \A n \in 0..L : Upto(ms)[n] = IF n = 0 THEN 0 ELSE Upto(ms)[n - 1] + ms[n].size
    BY <1>4
  <2> QED BY <1>0, <2>1 DEF Sums
<1>6. \A k \in 0..L : Upto(ms)[k] = g[k]
  <2> HIDE DEF Next1
  <2> QED BY <1>0, <1>1, <1>5, SumsAgree
<1>7. DOMAIN Upto(ms) = 0..L /\ Upto(ms) = [n \in 0..L |-> Upto(ms)[n]]
  BY <1>4
<1>8. Upto(ms) \in [0..L -> Nat]
  <2> HIDE DEF Next1
  <2> QED BY <1>1, <1>6, <1>7
<1> QED BY <1>5, <1>8 DEF L

(* Tokens is the last of the sums.                                         *)
LEMMA TokensIs == ASSUME NEW ms PROVE Tokens(ms) = Upto(ms)[Len(ms)]
BY DEF Tokens, Upto

(* The tokens of a list are those before its last message and those of it. *)
LEMMA TokensAre ==
    ASSUME NEW ms, Sized(ms), Len(ms) # 0
    PROVE  /\ Len(ms) \in Nat \ {0} /\ Len(ms) - 1 \in 0..Len(ms)
           /\ Upto(ms)[Len(ms) - 1] \in Nat /\ ms[Len(ms)].size \in Nat \ {0}
           /\ Tokens(ms) = Upto(ms)[Len(ms) - 1] + ms[Len(ms)].size
<1> DEFINE L == Len(ms)
<1>1. L \in Nat \ {0} /\ DOMAIN ms = 1..L
  BY DEF Sized, IsList
<1>2. Upto(ms) \in [0..L -> Nat] /\ Sums(ms, Upto(ms), L)
  BY UptoIs
<1>3. Tokens(ms) = Upto(ms)[L]
  BY TokensIs
<1> HIDE DEF L
<1>4. L \in 1..L /\ L - 1 \in 0..L
  BY <1>1
<1>5. ms[L].size \in Nat \ {0}
  BY <1>1, <1>4, SizedIs
<1>6. Tokens(ms) = Upto(ms)[L - 1] + ms[L].size
  BY <1>2, <1>3, <1>4 DEF Sums
<1> QED BY <1>1, <1>2, <1>4, <1>5, <1>6 DEF L

(* A list whose last message is cut to w tokens.                           *)
LEMMA CutIs ==
    ASSUME NEW ms, Sized(ms), Len(ms) # 0, NEW w \in Nat \ {0}
    PROVE  LET cut == [ms EXCEPT ![Len(ms)].size = w] IN
           /\ Sized(cut) /\ Len(cut) = Len(ms) /\ cut[Len(ms)].size = w
           /\ \A i \in DOMAIN ms : cut[i].role = ms[i].role
           /\ Tokens(cut) = Upto(ms)[Len(ms) - 1] + w
<1> DEFINE L == Len(ms)
           v == [ms[L] EXCEPT !.size = w]
           cut == [ms EXCEPT ![L] = v]
<1>1. L \in Nat \ {0} /\ DOMAIN ms = 1..L /\ L \in 1..L
  BY DEF Sized, IsList
<1>2. PICK T : ms \in Seq(T)
  BY DEF Sized, IsList
<1>3. Weighs(v) /\ v.size = w /\ v.role = ms[L].role
  BY <1>1, WeighsIs DEF Sized
<1> HIDE DEF L, v
<1>4. cut \in Seq(T \cup {v})
  <2>1. ms \in Seq(T \cup {v})
    BY <1>2
  <2> QED BY <2>1, ReplacedIsSeq
<1>5. DOMAIN cut = 1..L /\ Len(cut) = L
  BY <1>1, <1>2, <1>4 DEF L
<1>6. cut[L] = v /\ \A i \in 1..L : i # L => cut[i] = ms[i]
  BY <1>1
<1> HIDE DEF cut
<1>7. Sized(cut)
  BY <1>1, <1>3, <1>4, <1>5, <1>6 DEF Sized, IsList
<1>8. \A i \in DOMAIN ms : cut[i].role = ms[i].role
  BY <1>1, <1>3, <1>6
<1>9. Tokens(cut) = Upto(ms)[L - 1] + w
  <2>1. Tokens(cut) = Upto(cut)[L - 1] + w
    BY <1>1, <1>3, <1>5, <1>6, <1>7, TokensAre
  <2>2. Sums(ms, Upto(ms), L) /\ Sums(cut, Upto(cut), L)
    BY <1>5, <1>7, UptoIs DEF L
  <2>3. Sums(ms, Upto(ms), L - 1) /\ Sums(cut, Upto(cut), L - 1) /\ L - 1 \in Nat
    BY <1>1, <2>2 DEF Sums
  <2>4. \A k \in 1..(L - 1) : ms[k].size = cut[k].size
    BY <1>1, <1>6
  <2>5. Upto(ms)[L - 1] = Upto(cut)[L - 1]
    <3>1. L - 1 \in 0..(L - 1)
      BY <1>1
    <3> QED BY <2>3, <2>4, <3>1, SumsAgree
  <2> QED BY <2>1, <2>5
<1>10. [ms EXCEPT ![Len(ms)].size = w] = cut
  BY DEF cut, v, L
<1> QED BY <1>3, <1>5, <1>6, <1>7, <1>8, <1>9, <1>10 DEF L

(* What is picked is picked from the chosen places, one for each.          *)
LEMMA PickedFrom ==
    ASSUME NEW ms, IsList(ms), NEW S \in SUBSET DOMAIN ms
    PROVE  /\ DOMAIN Picked(ms, S) = 1..Cardinality(S) /\ Cardinality(S) \in Nat
           /\ \A n \in 1..Cardinality(S) : \E i \in S : Picked(ms, S)[n] = ms[i]
           /\ S # {} => Cardinality(S) # 0
<1> DEFINE c == Cardinality(S)
<1>1. PICK N \in Nat : DOMAIN ms = 1..N
  BY DEF IsList
<1>2. /\ IsFiniteSet(S) /\ c \in Nat /\ \A i \in S : Rank(S, i) \in 1..c
      /\ \A i, j \in S : i < j => Rank(S, i) < Rank(S, j)
  BY <1>1, RankGrows
<1>3. S # {} => c # 0
  BY <1>2, FS_EmptySet
<1>4. ASSUME NEW n \in 1..c PROVE \E i \in S : Rank(S, i) = n
  <2> SUFFICES ASSUME \A i \in S : Rank(S, i) # n PROVE FALSE
    OBVIOUS
  <2> DEFINE f == [i \in S |-> Rank(S, i)]
             T == (1..c) \ {n}
  <2>1. f \in [S -> T]
    BY <1>2
  <2>2. IsFiniteSet(1..c) /\ Cardinality(1..c) = c
    BY <1>2, FS_Interval
  <2>3. IsFiniteSet(T) /\ Cardinality(T) = c - 1
    BY <2>2, FS_RemoveElement
  <2>4. Cardinality(T) < Cardinality(S)
    BY <1>2, <2>3
  <2> HIDE DEF f, T
  <2>5. \E x, y \in S : x # y /\ f[x] = f[y]
    BY <1>2, <2>1, <2>3, <2>4, FS_PigeonHole
  <2>6. \A x \in S : f[x] = Rank(S, x) /\ x \in Nat
    BY <1>1 DEF f
  <2>7. \A x \in S : Rank(S, x) \in Nat
    BY <1>2
  <2> QED BY <1>2, <2>5, <2>6, <2>7
<1> DEFINE at(n) == CHOOSE i \in S : Rank(S, i) = n
<1>5. Picked(ms, S) = [n \in 1..c |-> ms[at(n)]]
  BY DEF Picked, Rank
<1>6. ASSUME NEW n \in 1..c PROVE \E i \in S : Picked(ms, S)[n] = ms[i]
  <2>1. at(n) \in S
    BY <1>4
  <2>2. Picked(ms, S)[n] = ms[at(n)]
    BY <1>5
  <2> QED BY <2>1, <2>2
<1>7. DOMAIN Picked(ms, S) = 1..c
  BY <1>5
<1> QED BY <1>2, <1>3, <1>6, <1>7

(* Picking keeps sizes.                                                    *)
LEMMA PickedSized ==
    ASSUME NEW ms, Sized(ms), NEW S \in SUBSET DOMAIN ms
    PROVE  Sized(Picked(ms, S)) /\ Len(Picked(ms, S)) = Cardinality(S)
<1>1. IsList(ms) /\ \A i \in DOMAIN ms : Weighs(ms[i])
  BY DEF Sized
<1>2. IsList(Picked(ms, S))
  BY <1>1, PickedHas
<1>3. /\ DOMAIN Picked(ms, S) = 1..Cardinality(S) /\ Cardinality(S) \in Nat
      /\ \A n \in 1..Cardinality(S) : \E i \in S : Picked(ms, S)[n] = ms[i]
  BY <1>1, PickedFrom
<1>4. Len(Picked(ms, S)) = Cardinality(S)
  BY <1>2, <1>3 DEF IsList
<1>5. \A n \in DOMAIN Picked(ms, S) : Weighs(Picked(ms, S)[n])
  BY <1>1, <1>3
<1> QED BY <1>2, <1>4, <1>5 DEF Sized

(* Leaving out as many messages as are not the user's leaves the user's.   *)
LEMMA OnlyUsers ==
    ASSUME NEW ms, IsList(ms)
    PROVE  /\ Len(ms) - Cardinality(Users(ms)) \in Nat
           /\ Without(ms, Len(ms) - Cardinality(Users(ms))) = Picked(ms, Users(ms))
<1> DEFINE L == Len(ms)
           U == Users(ms)
           most == L - Cardinality(U)
           W == {i \in DOMAIN ms : i \in U \/ Cardinality((1..i) \ U) > most}
<1>1. L \in Nat /\ DOMAIN ms = 1..L /\ U \in SUBSET (1..L)
  BY DEF IsList, Users
<1> HIDE DEF L, U
<1>2. /\ IsFiniteSet(1..L) /\ Cardinality(1..L) = L
      /\ IsFiniteSet(U) /\ Cardinality(U) \in Nat /\ Cardinality(U) <= L
  <2>1. IsFiniteSet(1..L) /\ Cardinality(1..L) = L
    BY <1>1, FS_Interval
  <2>2. IsFiniteSet(U) /\ Cardinality(U) <= Cardinality(1..L)
    BY <1>1, <2>1, FS_Subset
  <2> QED BY <2>1, <2>2, FS_CardinalityType
<1>3. IsFiniteSet((1..L) \ U) /\ Cardinality((1..L) \ U) = most
  <2>1. (1..L) \cap U = U
    BY <1>1
  <2>2. /\ IsFiniteSet((1..L) \ U)
        /\ Cardinality((1..L) \ U) = Cardinality(1..L) - Cardinality((1..L) \cap U)
    BY <1>2, FS_Difference
  <2> QED BY <1>2, <2>1, <2>2
<1>4. ASSUME NEW i \in 1..L PROVE ~ (Cardinality((1..i) \ U) > most)
  <2>1. (1..i) \ U \in SUBSET ((1..L) \ U)
    BY <1>1
  <2>2. Cardinality((1..i) \ U) <= most /\ Cardinality((1..i) \ U) \in Nat
    BY <1>3, <2>1, FS_Subset, FS_CardinalityType
  <2> QED BY <1>1, <1>2, <2>2
<1>5. W = U
  BY <1>1, <1>4
<1>6. Without(ms, most) = Picked(ms, W)
  BY DEF Without, U
<1>7. most \in Nat
  BY <1>1, <1>2
<1> HIDE DEF W
<1>8. Without(ms, most) = Picked(ms, U)
  BY <1>5, <1>6
<1> QED BY <1>7, <1>8 DEF L, U

(* Tokens is a number.                                                     *)
LEMMA TokensNat == ASSUME NEW ms, Sized(ms) PROVE Tokens(ms) \in Nat
<1>1. Upto(ms) \in [0..Len(ms) -> Nat] /\ Tokens(ms) = Upto(ms)[Len(ms)]
  BY UptoIs, TokensIs
<1>2. Len(ms) \in Nat
  BY DEF Sized, IsList
<1> QED BY <1>1, <1>2

(* Leaving out messages keeps sizes.                                       *)
LEMMA WithoutSized ==
    ASSUME NEW ms, Sized(ms), NEW k PROVE Sized(Without(ms, k))
BY PickedSized DEF Without

(* When leaving out messages was not enough, only the user's are left.     *)
LEMMA DroppedAll ==
    ASSUME NEW ms, Sized(ms), Users(ms) # {}, Tokens(Without(ms, Dropped(ms))) > MaxTokens
    PROVE  Without(ms, Dropped(ms)) = Picked(ms, Users(ms))
<1> DEFINE most == Len(ms) - Cardinality(Users(ms))
           enough == {k \in 0..most : Tokens(Without(ms, k)) <= MaxTokens}
<1>1. most \in Nat /\ Without(ms, most) = Picked(ms, Users(ms))
  BY OnlyUsers DEF Sized
<1>2. Dropped(ms) = IF enough = {} THEN most ELSE CHOOSE k \in enough : \A l \in enough : k <= l
  <2> DEFINE Those(m) == {k \in 0..m : Tokens(Without(ms, k)) <= MaxTokens}
             Least(m) == IF Those(m) = {} THEN m
                         ELSE CHOOSE k \in Those(m) : \A l \in Those(m) : k <= l
             share == IF Users(ms) = {} THEN 1 ELSE Cardinality(Users(ms))
  <2>1. Dropped(ms) = Least(Len(ms) - share)
    BY DEF Dropped
  <2>2. share = Cardinality(Users(ms))
    OBVIOUS
  <2> HIDE DEF Least, share
  <2>3. Dropped(ms) = Least(most)
    BY <2>1, <2>2
  <2> QED BY <2>3 DEF Least
<1>3. CASE enough # {}
  <2>1. enough \in SUBSET Nat
    BY <1>1
  <2>2. \E k \in enough : \A l \in enough : k <= l
    <3> HIDE DEF enough
    <3> QED BY <1>3, <2>1, LeastIs
  <2>3. Dropped(ms) \in enough
    <3> HIDE DEF enough
    <3> QED BY <1>2, <1>3, <2>2
  <2>4. Tokens(Without(ms, Dropped(ms))) <= MaxTokens
    BY <2>3
  <2>5. Tokens(Without(ms, Dropped(ms))) \in Nat /\ MaxTokens \in Nat
    BY WithoutSized, TokensNat, ModelRequestAssumptions
  <2> QED BY <2>4, <2>5
<1>4. CASE enough = {}
  <2> HIDE DEF most, enough
  <2> QED BY <1>1, <1>2, <1>4
<1> QED BY <1>3, <1>4

(* What recovery promises of a request.                                    *)
Converged(ms) ==
    Tokens(ms) > MaxTokens =>
        /\ Users(ms) = DOMAIN ms
        /\ ms[Len(ms)].size = 1 /\ Tokens(ms) - 1 >= MaxTokens

(* The newest of all places is the last.                                   *)
LEMMA NewestOfAll ==
    ASSUME NEW N \in Nat \ {0} PROVE Newest(1..N) = N
<1>1. Newest(1..N) \in 1..N /\ \A j \in 1..N : j <= Newest(1..N)
  <2>1. N \in Nat /\ 1..N \in SUBSET (1..N) /\ 1..N # {}
    OBVIOUS
  <2> QED BY <2>1, NewestIs
<1> QED BY <1>1

(* Fitting comes within the budget or leaves only the user's, the newest   *)
(* cut to one token (_fit_messages_within_budget).                         *)
LEMMA FitConverges ==
    ASSUME NEW ms, Sized(ms), Users(ms) # {} PROVE Converged(Fit(ms))
<1> DEFINE kept == Without(ms, Dropped(ms))
           user == Newest(Users(kept))
           rest == Tokens(kept) - kept[user].size
           room == IF rest < MaxTokens THEN MaxTokens - rest ELSE 1
           over == Tokens(kept) > MaxTokens /\ Users(kept) # {}
           cut  == [kept EXCEPT ![user].size = room]
<1>1. Fit(ms) = IF over /\ kept[user].size > room THEN cut ELSE kept
  BY DEF Fit
<1>2. Sized(kept) /\ Tokens(kept) \in Nat /\ MaxTokens \in Nat
  BY WithoutSized, TokensNat, ModelRequestAssumptions
<1>3. CASE ~ (Tokens(kept) > MaxTokens)
  <2> HIDE DEF kept, user, rest, room, cut
  <2> QED BY <1>1, <1>3 DEF Converged
<1>4. CASE Tokens(kept) > MaxTokens
  <2> DEFINE L == Len(kept)
  <2>1. kept = Picked(ms, Users(ms))
    BY <1>4, DroppedAll
  <2>2. IsList(ms) /\ Users(ms) \in SUBSET DOMAIN ms
    BY DEF Sized, Users
  <2>3. /\ DOMAIN kept = 1..L /\ L \in Nat \ {0}
        /\ \A n \in 1..L : kept[n].role = "user"
    <3>1. Len(Picked(ms, Users(ms))) = Cardinality(Users(ms))
      BY <2>2, PickedSized
    <3>2. /\ DOMAIN Picked(ms, Users(ms)) = 1..Cardinality(Users(ms))
          /\ Cardinality(Users(ms)) \in Nat \ {0}
          /\ \A n \in 1..Cardinality(Users(ms)) :
                \E i \in Users(ms) : Picked(ms, Users(ms))[n] = ms[i]
      BY <2>2, PickedFrom
    <3>3. \A i \in Users(ms) : ms[i].role = "user"
      BY DEF Users
    <3> HIDE DEF kept
    <3> QED BY <2>1, <3>1, <3>2, <3>3
  <2> HIDE DEF kept
  <2>4. Users(kept) = DOMAIN kept
    BY <2>3 DEF Users
  <2>5. user = L
    BY <2>3, <2>4, NewestOfAll
  <2>6. /\ Upto(kept)[L - 1] \in Nat /\ kept[L].size \in Nat \ {0}
        /\ Tokens(kept) = Upto(kept)[L - 1] + kept[L].size
    BY <1>2, <2>3, TokensAre
  <2>7. rest = Upto(kept)[L - 1]
    BY <2>5, <2>6
  <2>8. over
    BY <1>4, <2>3, <2>4
  <2>9. room \in Nat \ {0} /\ (rest < MaxTokens => room = MaxTokens - rest)
        /\ (~(rest < MaxTokens) => room = 1)
    BY <1>2, <2>6, <2>7
  <2>10. CASE kept[user].size > room
    <3>1. /\ Sized(cut) /\ Len(cut) = L /\ cut[L].size = room
          /\ \A i \in DOMAIN kept : cut[i].role = kept[i].role
          /\ Tokens(cut) = rest + room
      <4> HIDE DEF user, room, L
      <4>1. L = Len(kept) /\ L # 0
        BY <2>3 DEF L
      <4> DEFINE c == [kept EXCEPT ![Len(kept)].size = room]
      <4>2. /\ Sized(c) /\ Len(c) = Len(kept) /\ c[Len(kept)].size = room
            /\ \A i \in DOMAIN kept : c[i].role = kept[i].role
            /\ Tokens(c) = Upto(kept)[Len(kept) - 1] + room
        BY <1>2, <2>9, <4>1, CutIs
      <4>3. cut = c
        BY <2>5, <4>1
      <4> HIDE DEF c, cut
      <4> QED BY <2>7, <4>1, <4>2, <4>3
    <3>2. Fit(ms) = cut
      BY <1>1, <2>8, <2>10
    <3> HIDE DEF cut, room, rest
    <3>3. DOMAIN cut = 1..L
      BY <3>1 DEF Sized, IsList
    <3>4. Users(cut) = DOMAIN cut
      BY <2>3, <3>1, <3>3 DEF Users
    <3>5. Tokens(cut) > MaxTokens => room = 1 /\ Tokens(cut) - 1 >= MaxTokens
      BY <1>2, <2>6, <2>7, <2>9, <3>1
    <3> QED BY <3>1, <3>2, <3>4, <3>5 DEF Converged
  <2>11. CASE ~ (kept[user].size > room)
    <3>1. Fit(ms) = kept
      BY <1>1, <2>11
    <3> HIDE DEF room, rest
    <3>2. kept[L].size = 1 /\ Tokens(kept) - 1 >= MaxTokens
      BY <1>2, <1>4, <2>5, <2>6, <2>7, <2>9, <2>11
    <3> QED BY <2>4, <3>1, <3>2 DEF Converged
  <2> QED BY <2>10, <2>11
<1> QED BY <1>3, <1>4

(* So does recovery, whose retained messages have one of the user          *)
(* (recover_overflow).                                                     *)
LEMMA RecoverConverges ==
    ASSUME NEW ms, Sized(ms), Users(ms) # {}, NEW at, FromUser(ms[Newest(Users(ms))], at)
    PROVE  Converged(Recover(ms))
<1> DEFINE r == Retain(ms, OverflowTo)
<1>1. OverflowTo \in Nat /\ IsList(ms)
  BY ModelRequestAssumptions DEF Sized
<1>2. Keeps(r, at)
  BY <1>1, RetainKeeps
<1>3. Users(r) # {}
  <2>1. PICK i \in DOMAIN r : FromUser(r[i], at)
    BY <1>2 DEF Keeps
  <2> HIDE DEF r
  <2>2. r[i].role = "user"
    BY <2>1, FromUserIs
  <2> QED BY <2>2 DEF Users
<1>4. Sized(r)
  <2> DEFINE kept == Tail_(ms, OverflowTo)
             user == IF kept \cap Users(ms) # {} \/ Users(ms) = {} THEN {} ELSE {Newest(Users(ms))}
  <2>1. Len(ms) \in Nat /\ DOMAIN ms = 1..Len(ms) /\ Users(ms) \in SUBSET DOMAIN ms
    BY <1>1 DEF IsList, Users
  <2>2. Newest(Users(ms)) \in DOMAIN ms
    BY <2>1, NewestIs
  <2>3. kept \cup user \in SUBSET DOMAIN ms
    BY <2>1, <2>2 DEF Tail_
  <2>4. r = Picked(ms, kept \cup user)
    BY DEF Retain
  <2> HIDE DEF kept, user, r
  <2> QED BY <2>3, <2>4, PickedSized
<1> HIDE DEF r
<1>5. Converged(Fit(r))
  BY <1>3, <1>4, FitConverges
<1> QED BY <1>5 DEF Recover, r

(* A message that is added has its size.                                   *)
LEMMA AppendSized ==
    ASSUME NEW ms, Sized(ms), NEW m, Weighs(m) PROVE Sized(Append(ms, m))
<1> DEFINE new == Append(ms, m)
<1>1. PICK T : ms \in Seq(T)
  BY DEF Sized, IsList
<1>2. ms \in Seq(T \cup {m})
  BY <1>1
<1>3. /\ new \in Seq(T \cup {m}) /\ Len(ms) \in Nat
      /\ DOMAIN new = 1..(Len(ms) + 1) /\ DOMAIN ms = 1..Len(ms) /\ new[Len(ms) + 1] = m
      /\ \A i \in 1..Len(ms) : new[i] = ms[i]
  BY <1>2
<1> HIDE DEF new
<1>4. \A i \in DOMAIN new : i \in DOMAIN ms \/ i = Len(ms) + 1
  BY <1>3
<1>5. Sized(new)
  BY <1>3, <1>4 DEF Sized, IsList
<1> QED BY <1>5 DEF new

(* The transcript has its sizes, and a recovered request has converged.    *)
Weighed ==
    /\ Sized(messages)
    /\ request.recovered /\ ContextSize = 0 => Converged(request.messages)

(* Every step keeps the sizes, and what recovery promises of the request.  *)
LEMMA WeighedInvariant ==
    ASSUME Asked, Weighed, [RequestNext]_requestVars PROVE Weighed'
<1>1. Sizes \subseteq Nat \ {0} /\ ExternalizeAt \in Nat \ {0}
  BY ModelRequestAssumptions
<1>2. \A n \in Nat \ {0} : \A role, at, ref : Weighs(Message(role, n, at, ref))
  BY DEF Weighs
<1>3. request' = NoRequest => ~ request'.recovered
  BY DEF NoRequest
<1>4. CASE UNCHANGED <<messages, request>>
  BY <1>4 DEF Weighed
<1>5. CASE UNCHANGED messages /\ request' = NoRequest
  BY <1>3, <1>5 DEF Weighed
<1>6. CASE UserAsks
  <2>1. PICK n \in Sizes : messages' = Append(messages, Message("user", n, Len(messages) + 1, None))
    BY <1>6 DEF UserAsks
  <2>2. Sized(messages')
    BY <1>1, <1>2, <2>1, AppendSized DEF Weighed
  <2> QED BY <1>6, <2>2 DEF UserAsks, Weighed
<1>7. CASE BuildInput
  <2>1. /\ request'.messages = Assemble(Trimmed(messages))
        /\ request'.recovered = Recovered(messages) /\ messages' = messages
    BY <1>7 DEF BuildInput
  <2>2. ASSUME Recovered(messages), ContextSize = 0 PROVE Converged(request'.messages)
    <3>1. request'.messages = Recover(messages)
      BY <2>1, <2>2 DEF Assemble, Trimmed
    <3>2. Users(messages) # {} /\ IsList(messages)
      BY <1>7 DEF Asked, BuildInput, Placed
    <3>3. Newest(Users(messages)) \in Users(messages)
      <4>1. Len(messages) \in Nat /\ Users(messages) \in SUBSET (1..Len(messages))
        BY <3>2 DEF IsList, Users
      <4> QED BY <3>2, <4>1, NewestIs
    <3>4. FromUser(messages[Newest(Users(messages))], Newest(Users(messages)))
      BY <3>3 DEF Asked, Placed, Users
    <3> QED BY <3>1, <3>2, <3>4, RecoverConverges DEF Weighed
  <2> QED BY <2>1, <2>2 DEF Weighed
<1>8. CASE Answer
  <2>1. request' = NoRequest
    BY <1>8 DEF Answer
  <2>2. CASE UNCHANGED messages
    BY <1>5, <2>1, <2>2
  <2>3. CASE ~ UNCHANGED messages
    <3>1. PICK n \in Sizes : messages' = Append(messages, Message("assistant", n, Len(messages) + 1, None))
      BY <1>8, <2>3 DEF Answer
    <3>2. Sized(messages')
      BY <1>1, <1>2, <3>1, AppendSized DEF Weighed
    <3> QED BY <1>3, <2>1, <3>2 DEF Weighed
  <2> QED BY <2>2, <2>3
<1>9. CASE RunTool
  <2>1. PICK n \in Sizes :
          messages' = messages \o <<Message("assistant", 1, Len(messages) + 2 - 1, None),
                                    Result(n, Len(messages) + 2)>>
    BY <1>9, CallAndResult
  <2> DEFINE x == Message("assistant", 1, Len(messages) + 2 - 1, None)
             y == Result(n, Len(messages) + 2)
  <2>2. Weighs(x) /\ Weighs(y)
    BY <1>1, <1>2 DEF Result
  <2>3. messages' = messages \o <<x, y>>
    BY <2>1
  <2> HIDE DEF x, y
  <2>4. messages' = Append(Append(messages, x), y)
    <3>1. PICK T : messages \in Seq(T)
      BY DEF Weighed, Sized, IsList
    <3>2. messages \in Seq(T \cup {x, y})
      BY <3>1
    <3> QED BY <2>3, <3>2
  <2>5. Sized(Append(messages, x))
    BY <2>2, AppendSized DEF Weighed
  <2>6. Sized(messages')
    BY <2>2, <2>4, <2>5, AppendSized
  <2>7. request' = NoRequest
    BY <1>9 DEF RunTool
  <2> QED BY <1>3, <2>6, <2>7 DEF Weighed
<1>10. CASE Send \/ AttemptFails \/ Cancel
  <2>1. UNCHANGED messages /\ (request' = NoRequest \/ UNCHANGED request)
    BY <1>10 DEF Send, AttemptFails, Cancel, Fails
  <2> QED BY <1>4, <1>5, <2>1
<1>11. CASE \/ StreamEnds \/ Fallback
            \/ \E text \in Texts : PartialMessage(text)
            \/ \E tool \in Tools : PartialCall(tool)
  BY <1>4, <1>11 DEF StreamEnds, Fallback, PartialMessage, PartialCall
<1>12. CASE UNCHANGED requestVars
  BY <1>4, <1>12 DEF requestVars
<1> QED BY <1>6, <1>7, <1>8, <1>9, <1>10, <1>11, <1>12 DEF RequestNext

(* For any budget, limits, sizes and chain of tool calls: a recovered      *)
(* request to which no provider added anything is within the budget, unless*)
(* the user's older messages alone exhaust it, and then nothing else is    *)
(* left but one token of the newest (recover_overflow,                     *)
(* _fit_messages_within_budget).                                           *)
THEOREM RecoveryAlwaysConverges == RequestSpec => []RecoveryConverges
<1>1. RequestInit => Asked /\ Weighed
  BY DEF RequestInit, Asked, Placed, IsList, Answering, Weighed, Sized, NoRequest
<1>2. Asked /\ Weighed /\ [RequestNext]_requestVars => (Asked /\ Weighed)'
  BY AskedInvariant, WeighedInvariant
<1>3. Weighed => RecoveryConverges
  BY DEF Weighed, RecoveryConverges, Converged
<1> QED BY <1>1, <1>2, <1>3, PTL DEF RequestSpec
=============================================================================
