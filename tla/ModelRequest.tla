---------------------------- MODULE ModelRequest ----------------------------
(***************************************************************************)
(* From the transcript to the model and back: SimpleHarness.               *)
(* build_model_input and _run_model_with_retries, with ContextGovernance,  *)
(* which trims the transcript to a budget and moves long tool results to   *)
(* files, and InstructorModelAdapter, which projects the request and reads *)
(* the stream of partial answers.                                          *)
(*                                                                         *)
(* A message is its role, its size in estimated tokens (at least 1), its   *)
(* place in the transcript and, for a long tool result, the file that      *)
(* holds it.  What an answer says is a sequence of letters.                *)
(*                                                                         *)
(* TurnLoopProofs reads this module beside TurnLoop: they share no name.   *)
(***************************************************************************)
EXTENDS Naturals, Sequences, SequencesExt, FiniteSets

CONSTANTS
    MaxTokens, WarningTokens, CompactTo, OverflowTo, ReserveTokens,
    MinimumTokens, ExternalizeAt,   \* the fields of ContextGovernance
    ToolTokens,     \* what the listed tools are estimated at
    ContextSize,    \* size of what context providers add; 0 for nothing
    Families,       \* providers: a subset of {"openai", "anthropic"}
    Retries,        \* control.max_retries
    Sizes,          \* sizes of messages
    Listed,         \* the tool definitions of a request; None is one without a name
    Texts,          \* what an answer may say, sequences of letters
    MaxMessages, MaxPartials, MaxActions,   \* bounds on the transcript, a
                    \* stream, and the actions answered at once
    None

ASSUME ModelRequestAssumptions ==
    /\ {MaxTokens, WarningTokens, ReserveTokens, MinimumTokens, ToolTokens,
        ContextSize, Retries, MaxMessages, MaxPartials, MaxActions} \subseteq Nat
    /\ {CompactTo, OverflowTo, ExternalizeAt} \cup Sizes \subseteq Nat \ {0}
    /\ Families \subseteq {"openai", "anthropic"}
    /\ None \notin Texts /\ Texts \subseteq Seq(UNION {ToSet(text) : text \in Texts})

VARIABLES
    family,
    messages,   \* session.messages
    files,      \* per tool, the place of the result its file holds, or 0
    request,    \* the request being answered
    phase,      \* where the turn is
    retryIndex, \* retry_index
    previous, final, called,    \* the stream's message so far, and its call
    deltas,     \* what the stream's deltas spell
    partials,   \* partial answers of this attempt
    grew,       \* each of them began with the one before
    captured    \* the statuses of the request's model I/O records

\* ActionModelRegistry.build: an answer is a message or the call of a tool; a
\* definition without a name gets no action.
Tools == Listed \ {None}

stream == <<previous, final, called, deltas, partials, grew>>
requestVars == <<family, messages, files, request, phase, retryIndex, stream, captured>>

Message(role, size, at, ref) ==
    [role |-> role, size |-> size, at |-> at, ref |-> ref]

\* estimate_tokens of messages alone.
Tokens(ms) ==
    LET sum[n \in 0..Len(ms)] == IF n = 0 THEN 0 ELSE sum[n - 1] + ms[n].size
    IN  sum[Len(ms)]

Users(ms) == {i \in DOMAIN ms : ms[i].role = "user"}
Newest(S) == CHOOSE i \in S : \A j \in S : j <= i
Picked(ms, S) == [n \in 1..Cardinality(S) |->
                    ms[CHOOSE i \in S : Cardinality({j \in S : j <= i}) = n]]
-----------------------------------------------------------------------------
(* ContextGovernance. *)
Tail_(ms, limit) == {i \in DOMAIN ms : i > Len(ms) - limit}

\* Mutant: the latest messages only.
RetainTail(ms, limit) == Picked(ms, Tail_(ms, limit))

\* The latest messages, and the latest one of the user when it is not there.
Retain(ms, limit) ==
    LET kept == Tail_(ms, limit)
        user == IF kept \cap Users(ms) # {} \/ Users(ms) = {} THEN {}
                ELSE {Newest(Users(ms))}
    IN  Picked(ms, kept \cup user)

\* The oldest k messages that are not the user's are left out.
Without(ms, k) ==
    Picked(ms, {i \in DOMAIN ms :
                  i \in Users(ms) \/ Cardinality((1..i) \ Users(ms)) > k})

\* How many of them the loop leaves out: as few as will do, all but one
\* message at most.
Dropped(ms) ==
    LET most == Len(ms) - (IF Users(ms) = {} THEN 1 ELSE Cardinality(Users(ms)))
        enough == {k \in 0..most : Tokens(Without(ms, k)) <= MaxTokens}
    IN  IF enough = {} THEN most
        ELSE CHOOSE k \in enough : \A l \in enough : k <= l

\* Mutant: the retained message of the user keeps its length.
FitDropOnly(ms) == Without(ms, Dropped(ms))

\* _fit_messages_within_budget: then the latest of the user is cut to what the
\* others leave, and to one token at least.
Fit(ms) ==
    LET kept == Without(ms, Dropped(ms))
        over == Tokens(kept) > MaxTokens /\ Users(kept) # {}
        user == Newest(Users(kept))
        rest == Tokens(kept) - kept[user].size
        left == IF rest < MaxTokens THEN MaxTokens - rest ELSE 1
    IN  IF over /\ kept[user].size > left
        THEN [kept EXCEPT ![user].size = left] ELSE kept

ShouldCompact(ms) == Tokens(ms) >= WarningTokens \/ Tokens(ms) > MaxTokens
OverBudget(ms) == Tokens(ms) + ToolTokens > MaxTokens
Compact(ms) == IF Len(ms) <= CompactTo THEN ms ELSE Retain(ms, CompactTo)
Recovers(ms) == Len(ms) > OverflowTo
Recover(ms) == Fit(Retain(ms, OverflowTo))

\* should_allow_continuation, by build_continuation_budget_plan.
MessageBudget(ms) ==
    LET reserved == IF ReserveTokens < MaxTokens THEN ReserveTokens
                    ELSE MaxTokens
        used == Tokens(ms) + ToolTokens + reserved
    IN  IF used < MaxTokens THEN MaxTokens - used ELSE 0

AllowsContinuation(ms) == ~OverBudget(ms) /\ MessageBudget(ms) >= MinimumTokens
-----------------------------------------------------------------------------
\* build_model_input: compaction, recovery when over budget, recovery again
\* when no continuation would fit.
Recovered(ms) ==
    Recovers(ms) /\ \/ ShouldCompact(ms) /\ OverBudget(ms)
                    \/ ~AllowsContinuation(ms)

Trimmed(ms) ==
    IF Recovered(ms) THEN Recover(ms)
    ELSE IF ShouldCompact(ms) THEN Compact(ms) ELSE ms

\* ContextAssemblyPipeline.assemble: what providers add follows the transcript
\* as messages of the user.
Assemble(ms) ==
    IF ContextSize = 0 THEN ms
    ELSE Append(ms, Message("user", ContextSize, 0, None))

\* What an attempt has read is its own: it starts with nothing and leaves
\* nothing.
Cleared ==
    /\ previous' = <<>> /\ final' = None /\ called' = None /\ deltas' = <<>>
    /\ partials' = 0 /\ grew' = TRUE

NoRequest == [messages |-> <<>>, recovered |-> FALSE]

RequestInit ==
    /\ family \in Families
    /\ messages = <<>> /\ files = [t \in Tools |-> 0]
    /\ request = NoRequest /\ phase = "idle" /\ retryIndex = 0
    /\ previous = <<>> /\ final = None /\ called = None /\ deltas = <<>>
    /\ partials = 0 /\ grew = TRUE /\ captured = <<>>

UserAsks ==
    /\ phase = "idle" /\ Len(messages) < MaxMessages
    /\ \E n \in Sizes : messages' = Append(messages,
                           Message("user", n, Len(messages) + 1, None))
    /\ phase' = "build"
    /\ UNCHANGED <<family, files, request, retryIndex, stream, captured>>

BuildInput ==
    /\ phase = "build" /\ phase' = "send" /\ retryIndex' = 0 /\ captured' = <<>>
    /\ request' = [messages |-> Assemble(Trimmed(messages)),
                   recovered |-> Recovered(messages)]
    /\ UNCHANGED <<family, messages, files, stream>>
-----------------------------------------------------------------------------
(* The adapter.  Results of tools are the user's messages to Anthropic. *)
Role(m) == IF m.role = "tool" /\ family = "anthropic" THEN "user" ELSE m.role

Payload(ms) == [i \in DOMAIN ms |-> [role |-> Role(ms[i]), at |-> ms[i].at]]

\* The check before sending, for OpenAI only.
Valid(p) == family = "anthropic" \/ \E i \in DOMAIN p : p[i].role = "user"

\* FileModelIoCapture: a record and a lifecycle entry for an attempt that came
\* to an answer and for one that raised.
WriteRecord(status) == captured' = Append(captured, status)
CaptureSuccess == WriteRecord("completed")
CaptureError == WriteRecord("failed")

\* The end of an attempt that raised: captured, and tried again or given up.
Fails ==
    /\ Cleared /\ CaptureError
    /\ IF retryIndex = Retries
       THEN phase' = "idle" /\ request' = NoRequest /\ UNCHANGED retryIndex
       ELSE phase' = "send" /\ retryIndex' = retryIndex + 1 /\ UNCHANGED request

Send ==
    /\ phase = "send"
    /\ IF Valid(Payload(request.messages))
       THEN phase' = "stream" /\ UNCHANGED <<request, retryIndex, stream, captured>>
       ELSE Fails
    /\ UNCHANGED <<family, messages, files>>

\* Mutant: what was streamed before is not remembered.
DeltaForgets(text) ==
    /\ deltas' = deltas \o (IF IsPrefix(previous, text)
                            THEN SubSeq(text, Len(previous) + 1, Len(text))
                            ELSE text)
    /\ UNCHANGED previous

\* A partial message: what it adds to the one before is a delta, and all of
\* it when it does not begin with that.
Delta(text) ==
    /\ deltas' = deltas \o (IF IsPrefix(previous, text)
                            THEN SubSeq(text, Len(previous) + 1, Len(text))
                            ELSE text)
    /\ previous' = text

PartialMessage(text) ==
    /\ phase = "stream" /\ partials < MaxPartials /\ partials' = partials + 1
    /\ grew' = (grew /\ IsPrefix(previous, text))
    /\ IF text = <<>> THEN UNCHANGED <<deltas, previous, final>>
       ELSE Delta(text) /\ final' = text
    /\ UNCHANGED <<family, messages, files, request, phase, retryIndex, called,
                   captured>>

PartialCall(tool) ==
    /\ phase = "stream" /\ partials < MaxPartials /\ partials' = partials + 1
    /\ called' = tool
    /\ UNCHANGED <<family, messages, files, request, phase, retryIndex, previous,
                   final, deltas, grew, captured>>

\* The stream ends; one that brought nothing is asked again, all at once.
StreamEnds ==
    /\ phase = "stream"
    /\ IF final = None /\ called = None
       THEN phase' = "fallback" /\ UNCHANGED captured
       ELSE phase' = "answer" /\ CaptureSuccess
    /\ UNCHANGED <<family, messages, files, request, retryIndex, stream>>

\* The actions the provider answers with at once: messages and calls.
Actions == [message : Texts] \cup [tool : Tools]
Messages(as) == SelectSeq(as, LAMBDA a : "message" \in DOMAIN a)
Calls(as) == SelectSeq(as, LAMBDA a : "tool" \in DOMAIN a)

\* response_from_action: the last of several messages or of several calls, and
\* a blank message is none; it raises when there are both, or neither.
Respond(as) ==
    \/ /\ Calls(as) = <<>> /\ Messages(as) # <<>> /\ UNCHANGED called
       /\ LET text == Last(Messages(as)).message IN
          final' = IF text = <<>> THEN None ELSE text
    \/ /\ Messages(as) = <<>> /\ Calls(as) # <<>>
       /\ called' = Last(Calls(as)).tool /\ UNCHANGED final

\* generate_with_exchange: the actions, or the text that an exception carries.
Fallback ==
    /\ phase = "fallback" /\ phase' = "answer" /\ CaptureSuccess
    /\ \/ \E as \in SeqOf(Actions, MaxActions) : Respond(as)
       \/ \E text \in Texts \ {<<>>} : final' = text /\ UNCHANGED called
    /\ UNCHANGED <<family, messages, files, request, retryIndex, previous, deltas,
                   partials, grew>>

AttemptFails ==
    /\ phase \in {"stream", "fallback"} /\ Fails
    /\ UNCHANGED <<family, messages, files>>

\* A cancellation is noticed before an attempt and between two partials.
Cancel ==
    /\ phase \in {"send", "stream"} /\ phase' = "idle"
    /\ request' = NoRequest /\ Cleared
    /\ UNCHANGED <<family, messages, files, retryIndex, captured>>
-----------------------------------------------------------------------------
(* The answer, if there is one.  A call's message and the result of its tool *)
(* follow.                                                                   *)
Answer ==
    /\ phase = "answer" /\ called = None /\ phase' = "idle"
    /\ IF final = None THEN UNCHANGED messages
       ELSE \E n \in Sizes : messages' = Append(messages,
                           Message("assistant", n, Len(messages) + 1, None))
    /\ request' = NoRequest /\ Cleared
    /\ UNCHANGED <<family, files, retryIndex, captured>>

\* externalize_tool_result: the file is the tool's, and a preview stays.
Result(n, at) ==
    IF n <= ExternalizeAt THEN Message("tool", n, at, None)
    ELSE Message("tool", ExternalizeAt, at, called)

RunTool ==
    /\ phase = "answer" /\ called # None /\ Len(messages) + 2 <= MaxMessages
    /\ phase' = "build" /\ request' = NoRequest /\ Cleared
    /\ \E n \in Sizes :
          LET at == Len(messages) + 2 IN
          /\ messages' = messages \o <<Message("assistant", 1, at - 1, None),
                                       Result(n, at)>>
          /\ files' = IF n > ExternalizeAt THEN [files EXCEPT ![called] = at]
                      ELSE files
    /\ UNCHANGED <<family, retryIndex, captured>>

RequestNext ==
    \/ UserAsks \/ BuildInput \/ Send \/ StreamEnds \/ Fallback \/ AttemptFails
    \/ Cancel \/ Answer \/ RunTool
    \/ \E text \in Texts : PartialMessage(text)
    \/ \E tool \in Tools : PartialCall(tool)

RequestSpec == RequestInit /\ [][RequestNext]_requestVars
-----------------------------------------------------------------------------
\* The newest message the user wrote, and whether a request holds it.
Sent(ms, at) == \E i \in DOMAIN ms : ms[i].at = at /\ ms[i].role = "user"

(* However long the chain of tool calls after it and however small the       *)
(* budget, the newest message of the user is in the request (perhaps cut),   *)
(* so the adapter's "missing a user message after context compaction" is     *)
(* never raised (_retain_recent_messages, _fit_messages_within_budget).      *)
NewestUserIsSent ==
    phase \in {"send", "stream", "fallback", "answer"} =>
        /\ Sent(request.messages, Newest(Users(messages)))
        /\ Valid(Payload(request.messages))

(* A recovered request is within the budget, except when the older messages  *)
(* of the user alone exhaust it; then nothing else is left but one token of  *)
(* the newest (recover_overflow).                                            *)
RecoveryConverges ==
    request.recovered /\ ContextSize = 0 /\ Tokens(request.messages) > MaxTokens
    => LET ms == request.messages IN
       /\ Users(ms) = DOMAIN ms
       /\ ms[Len(ms)].size = 1 /\ Tokens(ms) - 1 >= MaxTokens

(* An answer comes from one attempt: every attempt before it left a record   *)
(* of its failure and the answered one the last record, and the deltas of    *)
(* the answered one spell its message when every partial began with the one  *)
(* before, whatever failed attempts had streamed (_run_model_with_retries,   *)
(* stream_generate, _run_streaming_model, _write_record).                    *)
AttemptsStayApart ==
    /\ phase \in {"send", "stream", "fallback"} =>
          captured = [i \in 1..retryIndex |-> "failed"]
    /\ phase = "answer" =>
          /\ captured = Append([i \in 1..retryIndex |-> "failed"], "completed")
          /\ deltas # <<>> /\ grew => deltas = final

(* "Overflow recovery must still bring the request back within the budget".  *)
RecoveryFits == request.recovered => Tokens(request.messages) <= MaxTokens
=============================================================================
