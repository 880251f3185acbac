------------------------------ MODULE TurnLoop ------------------------------
(***************************************************************************)
(* RalphLoop (harness/runtime/core/ralph_loop.py) driving one session: a   *)
(* turn alternates model requests and batches of tool calls until the      *)
(* model answers, something fails, or a call needs the user's approval.    *)
(* The turn then stops at requires_action and continue_turn picks it up.   *)
(*                                                                         *)
(* Saving the session is one step here (SessionStore has its inside); what *)
(* matters is which events and messages are in the record at each save,    *)
(* because the process may die, or an exception may escape, between two of *)
(* them.  A tool call is known by what the executor will do with it:       *)
(*   run       allowed, executed in place                                  *)
(*   pool      allowed, concurrency safe, executed after the others        *)
(*   ask       allowed once its name has been approved                     *)
(*   question  allowed, but raises RequiresActionError when it runs        *)
(*             (AskUserQuestionTool)                                       *)
(*   deny      a rule of the policy denies it                              *)
(*   invalid   its arguments do not validate                               *)
(*   unknown   no such tool is registered                                  *)
(***************************************************************************)
EXTENDS Naturals, Sequences

CONSTANTS
    Batches,        \* the batches of calls the model may ask for
    MaxTurns,       \* bound on the user inputs
    MaxIterations,  \* SimpleHarness.max_iterations
    MaxRetries,     \* TurnControl.max_retries
    Threshold,      \* DenialFallbackPolicy.threshold
    MaxTicks        \* bound on the deltas of a reply and the progress events of a call

Kinds == {"run", "pool", "ask", "question", "deny", "invalid", "unknown"}

ASSUME TurnAssumption ==
    /\ Batches \subseteq Seq(Kinds) /\ <<>> \notin Batches
    /\ MaxTurns \in Nat /\ MaxIterations \in Nat /\ MaxRetries \in Nat /\ MaxTicks \in Nat
    /\ Threshold \in Nat \ {0}

VARIABLES
    disk,       \* the saved session: messages, events, status, pending calls
    rec,        \* the SessionRecord in memory, the saved one between turns
    pc,         \* where the loop is
    turn,       \* how many user inputs have been started
    iter,       \* the iteration of the for loop
    attempt,    \* the retry of the model request
    ticks,      \* deltas or progress events of the current reply or call
    batch,      \* the calls being executed, with the turn and iteration that asked for them
    pos,        \* the next call of the batch
    pool,       \* concurrency-safe calls set aside for the end
    results,    \* the calls that have returned a result
    approving,  \* the loop runs in continue_turn
    denials,    \* the policy engine's consecutive denials of the session
    left,       \* how the last turn or continuation was left
    told        \* history: the turns whose end the caller has been given, and which end

control == <<turn, iter, attempt, ticks, approving>>
work    == <<batch, pos, pool, results>>
vars    == <<disk, rec, pc, control, work, denials, left, told>>

Locations == {"idle", "started", "loop", "model", "answered", "completing",
              "tools", "running", "broken", "asking", "reply", "ending", "rejecting"}

NoBatch == [turn |-> 0, iter |-> 0, calls |-> <<>>]

(* A message or an event that belongs to call i of the current batch; the  *)
(* message that carries the calls has their number there.                  *)
Entry(kind, i) == [kind |-> kind, turn |-> batch.turn, iter |-> batch.iter, call |-> i]
Plain(kind)    == [kind |-> kind, turn |-> 0, iter |-> 0, call |-> 0]

Say(r, m) == [r EXCEPT !.messages = Append(@, m)]
Log(r, e) == [r EXCEPT !.events = Append(@, e)]

Keep(r) == rec' = r /\ UNCHANGED disk
Save(r) == rec' = r /\ disk' = r

(* The generator or the call ends: its locals and its record are gone.     *)
Leave(how) ==
    /\ pc' = "idle" /\ left' = how
    /\ iter' = 0 /\ attempt' = 0 /\ ticks' = 0
    /\ batch' = NoBatch /\ pos' = 1 /\ pool' = <<>> /\ results' = <<>>
    /\ UNCHANGED <<turn, approving>>

(* An exception that the loop does not catch.                              *)
Escape == Leave("escaped") /\ rec' = disk /\ UNCHANGED disk

(* The turn the loop is in, or the one whose batch it continues, and the   *)
(* terminal event of it.                                                   *)
Current     == IF approving \/ pc = "rejecting" THEN batch.turn ELSE turn
Final(type) == [kind |-> type, turn |-> Current, iter |-> 0, call |-> 0]

(* _emit_terminal, and the endings of continue_turn: the terminal event    *)
(* goes into the record, the status to idle, and continue_turn drops the   *)
(* pending calls.                                                          *)
Terminal(r, type) ==
    /\ Keep([Log(r, Final(type)) EXCEPT
               !.status = "idle",
               !.pending = IF approving THEN NoBatch ELSE @])
    /\ pc' = "ending"
    /\ UNCHANGED <<control, work, left>>

(* The caller is given the end of the turn.                                *)
TellEnd(how) == told' = told \cup {[turn |-> Current, how |-> how]}

(* Mutant: the caller is given the terminal event, and then it is saved.   *)
TellThenSave ==
    /\ pc = "ending"
    /\ IF [turn |-> Current, how |-> "ended"] \in told
       THEN Save(rec) /\ Leave("ended") /\ UNCHANGED told
       ELSE TellEnd("ended") /\ UNCHANGED <<disk, rec, pc, control, work, left>>

(* Then the post-turn processors run, the record is saved and the caller   *)
(* gets the event ...                                                      *)
SaveEnd ==
    /\ pc = "ending"
    /\ Save(rec)
    /\ Leave("ended")
    /\ TellEnd("ended")

(* ... unless a processor or the save raises.                              *)
EndFails == pc \in {"ending", "rejecting"} /\ Escape

Init ==
    /\ disk = [messages |-> <<>>, events |-> <<>>, status |-> "idle", pending |-> NoBatch]
    /\ rec = disk
    /\ pc = "idle" /\ turn = 0 /\ iter = 0 /\ attempt = 0 /\ ticks = 0
    /\ batch = NoBatch /\ pos = 1 /\ pool = <<>> /\ results = <<>>
    /\ approving = FALSE /\ denials = 0 /\ left = "none" /\ told = {}
-----------------------------------------------------------------------------
(* run_turn_stream: the input enters the record and turn_started goes to   *)
(* the caller before the first save.                                       *)

StartTurn ==
    /\ pc = "idle" /\ turn < MaxTurns
    /\ Keep(Log(Say([disk EXCEPT !.status = "running"], Plain("user")), Plain("turn_started")))
    /\ pc' = "started" /\ turn' = turn + 1 /\ approving' = FALSE /\ left' = "none"
    /\ UNCHANGED <<iter, attempt, ticks, work>>

SaveStart ==
    /\ pc = "started"
    /\ Save(rec)
    /\ pc' = "loop"
    /\ UNCHANGED <<control, work, left>>

(* The head of the for loop: the next model request ...                    *)
Iterate ==
    /\ pc = "loop" /\ iter < MaxIterations
    /\ iter' = iter + 1 /\ attempt' = 0 /\ ticks' = 0
    /\ pc' = "model"
    /\ UNCHANGED <<disk, rec, turn, approving, work, left>>

(* ... or the cancellation check before it fires, or the iterations are    *)
(* used up.                                                                *)
CancelTurn ==
    /\ pc = "loop" /\ iter < MaxIterations
    /\ Terminal(rec, "turn_failed")

LimitReached ==
    /\ pc = "loop" /\ iter = MaxIterations
    /\ Terminal(rec, "turn_failed")
-----------------------------------------------------------------------------
(* _run_model_with_retries.  A streamed delta is saved at once, also when  *)
(* the attempt fails later on.                                             *)

ModelDelta ==
    /\ pc \in {"model", "reply"} /\ ticks < MaxTicks
    /\ Save(Log(rec, Plain("assistant_delta")))
    /\ ticks' = ticks + 1
    /\ UNCHANGED <<pc, turn, iter, attempt, approving, work, left>>

(* CancelledTurn and TimedOutTurn end the turn without a retry.            *)
ModelStopped ==
    /\ pc = "model"
    /\ Terminal(rec, "turn_failed")

(* Mutant: when the retries are used up they start over.                   *)
RetryForever ==
    /\ pc = "model"
    /\ attempt' = (attempt + 1) % (MaxRetries + 1)
    /\ UNCHANGED <<disk, rec, pc, turn, iter, ticks, approving, work, left>>

ModelError ==
    /\ pc = "model" /\ attempt < MaxRetries
    /\ attempt' = attempt + 1 /\ ticks' = 0
    /\ UNCHANGED <<disk, rec, pc, turn, iter, approving, work, left>>

RetriesExhausted ==
    /\ pc = "model" /\ attempt = MaxRetries
    /\ Terminal(rec, "turn_failed")

(* The model answers with a message; the caller sees it before the save.   *)
ModelAnswers ==
    /\ pc = "model"
    /\ Keep(Log(Say(rec, Plain("assistant")), Plain("assistant_message")))
    /\ pc' = "answered"
    /\ UNCHANGED <<control, work, left>>

SaveAnswer ==
    /\ pc = "answered"
    /\ Save(rec)
    /\ pc' = "completing"
    /\ UNCHANGED <<control, work, left>>

(* The turn is complete; a reply without message and calls gets here too.  *)
Complete ==
    /\ pc \in {"model", "completing"}
    /\ Terminal(rec, "turn_completed")

(* The model asks for tools: the assistant message that carries the calls  *)
(* is appended, and saved with whatever is saved next.                     *)
ModelCalls(calls) ==
    /\ pc = "model"
    /\ batch' = [turn |-> turn, iter |-> iter, calls |-> calls]
    /\ Keep(Say(rec, [kind |-> "calls", turn |-> turn, iter |-> iter, call |-> Len(calls)]))
    /\ pc' = "tools" /\ pos' = 1 /\ pool' = <<>> /\ results' = <<>> /\ ticks' = 0
    /\ UNCHANGED <<turn, iter, attempt, approving, left>>
-----------------------------------------------------------------------------
(* execute_stream walks through the batch.  An approved continuation       *)
(* starts at its first call again and approves every tool it names.        *)

InBatch(kinds) == pc = "tools" /\ pos <= Len(batch.calls) /\ batch.calls[pos] \in kinds
Pooled         == pc = "tools" /\ pos > Len(batch.calls) /\ pool # <<>>

(* RuleBasedToolPolicyEngine counts the denials in a row: from the         *)
(* threshold on a call that a rule denies is asked for instead.  What is   *)
(* asked for and approved goes through; the count is not touched by it.    *)
Verdict(kind) ==
    CASE kind = "ask"  -> "ask"
      [] kind = "deny" -> IF denials + 1 >= Threshold THEN "ask" ELSE "deny"
      [] OTHER         -> "allow"

Track(kind) ==
    denials' = CASE kind = "ask"  -> denials
                 [] kind = "deny" -> IF denials < Threshold THEN denials + 1 ELSE denials
                 [] OTHER         -> 0

Permitted(kind) == Verdict(kind) = "allow" \/ (Verdict(kind) = "ask" /\ approving)

(* RequiresActionError: requires_action goes to the caller before the save *)
(* in a turn, and out of continue_turn uncaught.                           *)
RequireAction ==
    \/ /\ ~approving
       /\ Keep(Log(rec, Plain("requires_action")))
       /\ pc' = "asking"
       /\ UNCHANGED <<control, work, left>>
    \/ approving /\ Escape

AskPermission ==
    /\ InBatch({"ask", "deny"})
    /\ LET kind == batch.calls[pos]
       IN ~approving /\ Verdict(kind) = "ask" /\ Track(kind)
    /\ RequireAction

(* Mutants: the batch is not stored; finished results are stored already.  *)
SaveNoPending ==
    /\ pc = "asking"
    /\ Save([rec EXCEPT !.status = "requires_action"])
    /\ Leave("asked")

SaveEarlyResults ==
    /\ pc = "asking"
    /\ Save([rec EXCEPT !.status = "requires_action", !.pending = batch,
                        !.messages = @ \o [k \in 1..Len(results) |-> Entry("result", results[k])]])
    /\ Leave("asked")

(* The whole batch becomes pending, the calls that have run included.      *)
SaveAsk ==
    /\ pc = "asking"
    /\ Save([rec EXCEPT !.status = "requires_action", !.pending = batch])
    /\ Leave("asked")

(* ToolPermissionDeniedError and ToolValidationError are raised before the *)
(* call starts; only the turn catches them.                                *)
Refuse ==
    /\ \/ InBatch({"invalid"}) /\ UNCHANGED denials
       \/ InBatch({"deny"}) /\ Verdict("deny") = "deny" /\ Track("deny")
    /\ IF approving THEN Escape ELSE Terminal(rec, "turn_failed")

(* resolve_tool raises KeyError, which nobody catches.                     *)
UnknownTool == InBatch({"unknown"}) /\ Escape

StartTool ==
    /\ InBatch({"run", "question", "ask", "deny"})
    /\ Permitted(batch.calls[pos]) /\ Track(batch.calls[pos])
    /\ Keep(Log(rec, Entry("tool_started", pos)))
    /\ pc' = "running" /\ ticks' = 0
    /\ UNCHANGED <<turn, iter, attempt, approving, work, left>>

SetAside ==
    /\ InBatch({"pool"}) /\ Track("pool")
    /\ Keep(Log(rec, Entry("tool_started", pos)))
    /\ pool' = Append(pool, pos) /\ pos' = pos + 1 /\ ticks' = 0
    /\ UNCHANGED <<pc, turn, iter, attempt, approving, batch, results, left>>

(* The call at work: the one that was started, then the pooled ones in     *)
(* order.  Progress and results are saved as they come.                    *)
AtWork  == pc = "running" \/ Pooled
Working == IF pc = "running" THEN pos ELSE Head(pool)
Asks    == pc = "running" /\ batch.calls[pos] = "question"

ToolProgress ==
    /\ AtWork /\ ~Asks /\ ticks < MaxTicks
    /\ Save(Log(rec, Entry("tool_progress", Working)))
    /\ ticks' = ticks + 1
    /\ UNCHANGED <<pc, turn, iter, attempt, approving, work, left>>

(* Mutant: what a pooled call returns is logged and then forgotten.        *)
ForgetPooled ==
    /\ AtWork /\ ~Asks
    /\ Save(Log(rec, Entry("tool_result", Working)))
    /\ IF pc = "running"
       THEN pos' = pos + 1 /\ results' = Append(results, Working) /\ UNCHANGED pool
       ELSE pool' = Tail(pool) /\ UNCHANGED <<pos, results>>
    /\ pc' = "tools" /\ ticks' = 0
    /\ UNCHANGED <<turn, iter, attempt, approving, batch, left>>

ToolReturns ==
    /\ AtWork /\ ~Asks
    /\ Save(Log(rec, Entry("tool_result", Working)))
    /\ results' = Append(results, Working)
    /\ IF pc = "running"
       THEN pos' = pos + 1 /\ UNCHANGED pool
       ELSE pool' = Tail(pool) /\ UNCHANGED pos
    /\ pc' = "tools" /\ ticks' = 0
    /\ UNCHANGED <<turn, iter, attempt, approving, batch, left>>

ToolBreaks(type) ==
    /\ AtWork /\ ~Asks
    /\ Save(Log(rec, Entry(type, Working)))
    /\ pc' = "broken"
    /\ UNCHANGED <<control, work, left>>

ToolAsks == Asks /\ RequireAction

(* The first failed or cancelled call ends the turn or the continuation.   *)
FailTurn == pc = "broken" /\ Terminal(rec, "turn_failed")

(* The batch is through: its results enter the transcript.  A turn saves   *)
(* and goes on; a continuation asks the model once more first, and is      *)
(* still about that batch.                                                 *)
Answered(r) ==
    [r EXCEPT !.messages = @ \o [k \in 1..Len(results) |-> Entry("result", results[k])]]

BatchDone ==
    /\ pc = "tools" /\ pos > Len(batch.calls) /\ pool = <<>>
    /\ IF approving
       THEN Keep([Answered(rec) EXCEPT !.pending = NoBatch]) /\ pc' = "reply"
       ELSE Save(Answered(rec)) /\ pc' = "loop"
    /\ ticks' = 0
    /\ batch' = IF approving THEN batch ELSE NoBatch
    /\ pos' = 1 /\ results' = <<>>
    /\ UNCHANGED <<pool, turn, iter, attempt, approving, left>>
-----------------------------------------------------------------------------
(* continue_turn raises unless the saved session waits for an approval.    *)
Waiting == pc = "idle" /\ disk.status = "requires_action" /\ disk.pending # NoBatch

(* A rejection: the pending calls are dropped, the processors run and the  *)
(* record is saved.  Only then is turn_failed put into the record, which   *)
(* is not saved again: the event reaches the caller and no log.            *)
Reject ==
    /\ Waiting
    /\ Keep([disk EXCEPT !.status = "idle", !.pending = NoBatch])
    /\ batch' = disk.pending
    /\ pc' = "rejecting" /\ approving' = FALSE /\ left' = "none"
    /\ UNCHANGED <<turn, iter, attempt, ticks, pos, pool, results>>

SaveReject ==
    /\ pc = "rejecting"
    /\ Save(rec)
    /\ Leave("rejected")
    /\ TellEnd("rejected")

Approve ==
    /\ Waiting
    /\ Keep([disk EXCEPT !.status = "running"])
    /\ batch' = disk.pending
    /\ pc' = "tools" /\ approving' = TRUE /\ left' = "none"
    /\ UNCHANGED <<turn, iter, attempt, ticks, pos, pool, results>>

(* The model's reply to the results: a message, or calls that are ignored. *)
Reply ==
    /\ pc = "reply"
    /\ \/ Terminal(Log(Say(rec, Plain("assistant")), Plain("assistant_message")), "turn_completed")
       \/ Terminal(rec, "turn_completed")

ReplyError == pc = "reply" /\ Escape

(* The process dies.                                                       *)
Crash ==
    /\ pc # "idle"
    /\ Leave("crashed")
    /\ rec' = disk /\ denials' = 0 /\ UNCHANGED disk
-----------------------------------------------------------------------------
ModelStep == \/ ModelDelta \/ ModelStopped \/ ModelError \/ RetriesExhausted
             \/ ModelAnswers \/ SaveAnswer \/ Complete
             \/ \E calls \in Batches : ModelCalls(calls)

(* The steps at which the policy is asked, and the others of a batch.      *)
Judged   == AskPermission \/ Refuse \/ StartTool \/ SetAside
ToolStep == \/ SaveAsk \/ UnknownTool \/ ToolProgress \/ ToolReturns \/ ToolAsks \/ FailTurn \/ BatchDone
            \/ \E type \in {"tool_failed", "tool_cancelled"} : ToolBreaks(type)

(* What the loop does by itself once it has been entered.                  *)
Unjudged == \/ SaveStart \/ Iterate \/ CancelTurn \/ LimitReached \/ ModelStep \/ ToolStep
            \/ Reply \/ ReplyError \/ EndFails
Untold   == Judged \/ (Unjudged /\ UNCHANGED denials)
Telling  == SaveEnd \/ SaveReject
Run      == (Untold /\ UNCHANGED told) \/ (Telling /\ UNCHANGED denials)

(* What comes from outside.                                                *)
Call     == (StartTurn \/ Reject \/ Approve) /\ UNCHANGED denials

Next == Run \/ ((Call \/ Crash) /\ UNCHANGED told)

Spec == Init /\ [][Next]_vars

(* The loop's thread keeps running while it is in a turn: the model and    *)
(* the tools return, raise or time out.                                    *)
FairSpec == Spec /\ WF_vars(Run)
-----------------------------------------------------------------------------
Ending == {"turn_completed", "turn_failed"}
LastKind(s) == s[Len(s)].kind

(* The record and the saved session keep their shape through every path of *)
(* a turn and a continuation (SessionRecord, ralph_loop.py:52-841).        *)
TypeOK ==
    /\ pc \in Locations
    /\ \A r \in {disk, rec} :
          /\ r.status \in {"idle", "running", "requires_action"}
          /\ r.pending.calls \in Batches \cup {<<>>}
    /\ turn \in 0..MaxTurns /\ iter \in 0..MaxIterations
    /\ attempt \in 0..MaxRetries /\ ticks \in 0..MaxTicks
    /\ batch.calls \in Batches \cup {<<>>} /\ pos \in 1..(Len(batch.calls) + 1)
    /\ approving \in BOOLEAN /\ denials \in 0..Threshold
    /\ left \in {"none", "ended", "asked", "rejected", "escaped", "crashed"}
    /\ told \subseteq [turn : 1..MaxTurns, how : {"ended", "rejected"}]

(* A saved session that says requires_action can be continued: it holds    *)
(* the calls, and they are the last thing in the transcript, unanswered    *)
(* (ralph_loop.py:592-595 against 74 and 123-138; a crash inside an        *)
(* earlier continuation included).                                         *)
ResumePoint ==
    disk.status = "requires_action" =>
        /\ disk.pending # NoBatch
        /\ disk.messages[Len(disk.messages)] =
             [kind |-> "calls", turn |-> disk.pending.turn, iter |-> disk.pending.iter,
              call |-> Len(disk.pending.calls)]

(* Position i of the record carries calls; position j answers the c-th.    *)
Carries(i)       == rec.messages[i].kind = "calls"
Answers(j, i, c) == rec.messages[j] = [rec.messages[i] EXCEPT !.kind = "result", !.call = c]

(* No tool call is answered twice in the transcript, although an approval  *)
(* executes its whole batch again, and every answer comes after its calls  *)
(* (_append_tool_results at ralph_loop.py:183 and 799).                    *)
AnsweredOnce ==
    \A j \in 1..Len(rec.messages) : rec.messages[j].kind = "result" =>
        /\ \A k \in 1..Len(rec.messages) : rec.messages[k] = rec.messages[j] => k = j
        /\ \E i \in 1..(j - 1) :
              Carries(i) /\ \E c \in 1..rec.messages[i].call : Answers(j, i, c)

(* When the loop goes back to the model, every call of the turn it is in,  *)
(* or of the batch that was approved, has its answer in the transcript the *)
(* request is built from, pooled calls too (ralph_loop.py:183-185 and      *)
(* 799-801; executor.py:150-176).                                          *)
ModelSeesAnswers ==
    \A i \in 1..Len(rec.messages) :
        /\ Carries(i)
        /\ \/ pc \in {"loop", "model"} /\ rec.messages[i].turn = turn
           \/ pc = "reply" /\ \A k \in (i + 1)..Len(rec.messages) : ~Carries(k)
        => \A c \in 1..rec.messages[i].call : \E j \in (i + 1)..Len(rec.messages) : Answers(j, i, c)

(* What the caller was told of a turn's end stands, whatever crash,        *)
(* exception or later turn follows: the terminal event it got is in the    *)
(* saved log, and no call of the turn is offered for approval or executed  *)
(* again (_emit_terminal, agent_runtime.py:1089-1116; the endings of       *)
(* continue_turn, ralph_loop.py:79-119, 140-181, 226-239).  A rejection's  *)
(* turn_failed is in no log: see TurnLoop_rejected.cfg.                    *)
Logged(r, t) == \E i \in 1..Len(r.events) : r.events[i].kind \in Ending /\ r.events[i].turn = t

OutcomeStands ==
    \A e \in told :
        /\ e.how = "ended" => Logged(disk, e.turn)
        /\ disk.status = "requires_action" => disk.pending.turn # e.turn
        /\ pc # "idle" /\ approving => batch.turn # e.turn

(* Every turn and every continuation comes to an end: retries, iterations  *)
(* and batches are bounded (ralph_loop.py:328, agent_runtime.py:735).      *)
TurnEnds == pc # "idle" ~> pc = "idle"
-----------------------------------------------------------------------------
(* docs/developer-guide/internals/harness-and-session.md:41-48: a turn     *)
(* ends with turn_completed or turn_failed, or stops at requires_action.   *)
TurnHasOutcome ==
    pc = "idle" /\ left \notin {"none", "crashed"} =>
        LastKind(disk.events) \in Ending \cup {"requires_action"}

(* docs/developer-guide/internals/harness-and-session.md:41-48: a turn     *)
(* emits turn_failed into the session when it ends without an answer.      *)
EndIsLogged == \A e \in told : Logged(disk, e.turn)

(* docs/developer-guide/internals/harness-and-session.md:46-50: a turn     *)
(* that stopped at requires_action is resumed through continue_turn.       *)
ApprovalResumes ==
    pc = "idle" /\ approving /\ left \notin {"crashed", "rejected"} => LastKind(disk.events) \in Ending
=============================================================================
