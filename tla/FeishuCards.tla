---------------------------- MODULE FeishuCards ----------------------------
(***************************************************************************)
(* The reply card of a Feishu turn (gateway/channels/feishu/cards.py) and  *)
(* _sync_card_delivery of the host (host.py), which brings the card in the *)
(* chat up to the record through a sequence of API calls, any of which may *)
(* be denied (a CardKit permission error, answered by falling back to      *)
(* patching the message) or fail otherwise.                                *)
(*                                                                         *)
(* What a card says is represented by its status; the text it renders is a *)
(* function of the record.  A record whose message is not known sends a    *)
(* card message of its own, also when the chat has one already, so the     *)
(* chat holds a sequence of them.  An API call is modelled from its use; "denied" *)
(* stands for the codes of _should_fallback_to_message_patch.              *)
(***************************************************************************)
EXTENDS Naturals, Sequences

Stable   == {"requires_action", "completed", "failed", "interrupted"}
Statuses == {"running"} \cup Stable

(* FeishuReplyCardRecord: its card message (which of them, 0 if none is    *)
(* known), what is known of CardKit, the next sequence number, and what    *)
(* delivery still owes.                                                    *)
NewCard == [status |-> "running", msg |-> 0, card |-> FALSE, kit |-> "unknown", seq |-> 1,
            streaming |-> FALSE, pending |-> FALSE, err |-> "none", dirty |-> TRUE]

Cards == [status : Statuses, msg : Nat, card : BOOLEAN, kit : {"unknown", "yes", "no"},
          seq : Nat \ {0}, streaming : BOOLEAN, pending : BOOLEAN,
          err : {"none", "approval", "other"}, dirty : BOOLEAN]

(* A card message in the chat: what it shows, how that got there, and the  *)
(* highest sequence number it was sent.                                    *)
Posts == [status : Statuses, how : {"send", "patch", "kit"}, top : Nat]

(* apply_runtime_event_to_card: an event's effect on the status.           *)
AppliedStatus(status, event) ==
    CASE event \in {"assistant_delta", "tool_started", "tool_progress"} -> "running"
      [] event = "requires_action" -> "requires_action"
      [] event = "tool_cancelled"  -> "interrupted"
      [] event = "turn_failed"     -> "failed"
      [] event = "turn_completed" /\ status = "running" -> "completed"
      [] OTHER -> status

ApplyEvent(r, event) == [r EXCEPT !.status = AppliedStatus(@, event), !.dirty = TRUE]

(* mark_card_action_running, and handle_card_action's except clause.       *)
MarkRunning(r) == [r EXCEPT !.status = "running", !.dirty = TRUE]
MarkFailed(r)  == [r EXCEPT !.status = "failed", !.dirty = TRUE]

(* mark_delivery_success and mark_delivery_failure.                        *)
Succeeded(r)  == [r EXCEPT !.pending = FALSE, !.err = "none"]
Failed(r, e)  == [r EXCEPT !.pending = TRUE, !.err = e]

(* _should_suspend_card_retry.                                             *)
Suspended(r) == r.status = "requires_action" /\ r.err = "approval"
-----------------------------------------------------------------------------
(* A delivery under way: the record, the card messages in the chat,        *)
(* whether a number was sent that was not higher than the last, the calls  *)
(* that failed, and how it ended.                                          *)

Start(r, posts) == [r |-> r, posts |-> posts, again |-> FALSE, bad |-> 0, end |-> "no"]

Answers == {"ok", "denied", "error"}

Then(S, F(_)) == UNION {IF x.end = "no" THEN F(x) ELSE {x} : x \in S}

Raise(x, e) == {[x EXCEPT !.r = Failed(@, e), !.end = "failed"]}
Done(x)     == {[x EXCEPT !.r = [Succeeded(@) EXCEPT !.dirty = FALSE], !.end = "delivered"]}
Bad(x)      == [x EXCEPT !.bad = @ + 1]

(* An API call: what follows when it is accepted, and each kind of error.  *)
Call(x, Accepted(_), Denied(_), Error(_)) ==
    Accepted(x) \cup Denied(Bad(x)) \cup Error(Bad(x))

RaiseOther(x) == Raise(x, "other")

(* stream_update_card and the settings call use up a number each.          *)
Number(x) ==
    LET p == x.posts[x.r.msg]
    IN  [x EXCEPT !.r.seq = @ + 1, !.again = @ \/ x.r.seq <= p.top,
                  !.posts[x.r.msg] = [p EXCEPT !.top = IF x.r.seq > @ THEN x.r.seq ELSE @]]
Show(x, way) ==
    [x EXCEPT !.posts[x.r.msg] = [@ EXCEPT !.status = x.r.status, !.how = way]]

(* client.send_card: the message is created.                               *)
SendCard(x) ==
    LET ok(y) == {[y EXCEPT !.posts = Append(@, [status |-> y.r.status, how |-> "send", top |-> 0]),
                            !.r = [Succeeded(@) EXCEPT !.msg = Len(y.posts) + 1]]}
    IN  IF x.r.msg # 0 THEN {x} ELSE Call(x, ok, RaiseOther, RaiseOther)

NoCardKit(x) == [x EXCEPT !.r.kit = "no", !.r.streaming = FALSE]
NeedsApproval(x) == x.r.status = "requires_action"

(* client.resolve_card_id.                                                 *)
ResolveCard(x) ==
    LET ok(y)     == {[y EXCEPT !.r = [Succeeded(@) EXCEPT !.card = TRUE, !.kit = "yes"]]}
        denied(y) == LET z == [NoCardKit(y) EXCEPT !.r.card = FALSE]
                     IN  IF NeedsApproval(y) THEN Raise(z, "approval") ELSE {z}
    IN  IF x.r.kit = "no" \/ x.r.card THEN {x} ELSE Call(x, ok, denied, RaiseOther)

(* client.update_card: the message is patched.                             *)
PatchCard(x) ==
    LET ok(y) == Done(Show(y, "patch")) IN Call(x, ok, RaiseOther, RaiseOther)

EndStream(x) ==
    LET ok(y) == Done([y EXCEPT !.r.streaming = FALSE])
    IN  IF x.r.streaming THEN Call(Number(x), ok, RaiseOther, RaiseOther) ELSE Done(x)

(* _sync_approval_card_via_cardkit.                                        *)
ApprovalCard(x) ==
    LET ok(y) == EndStream([Show(y, "kit") EXCEPT !.r.kit = "yes"])
    IN  Call(Number(x), ok, RaiseOther, RaiseOther)

(* A running card: streaming is enabled, the card updated; a permission    *)
(* error falls back to the patch.                                          *)
StreamCard(x) ==
    LET fallback(y) == PatchCard(NoCardKit(y))
        shown(y)  == Done(Show(y, "kit"))
        update(y) == Call(Number([y EXCEPT !.r.streaming = TRUE]), shown, fallback, RaiseOther)
    IN  IF x.r.streaming THEN update(x) ELSE Call(Number(x), update, fallback, RaiseOther)

(* Mutant: a stable card without a stream is left as it is.                *)
FinalNoPatch(x) ==
    LET ok(y) == EndStream(Show(y, "kit"))
    IN  IF x.r.streaming THEN Call(Number(x), ok, RaiseOther, RaiseOther) ELSE Done(x)

(* A stable card ends the stream, if there is one, or is patched.          *)
FinalCard(x) ==
    LET ok(y) == EndStream(Show(y, "kit"))
    IN  IF x.r.streaming THEN Call(Number(x), ok, RaiseOther, RaiseOther) ELSE PatchCard(x)

DeliverCard(x) ==
    CASE NeedsApproval(x) /\ x.r.card                        -> ApprovalCard(x)
      [] NeedsApproval(x) /\ ~x.r.card /\ x.r.kit = "no"     -> Raise(x, "approval")
      [] ~NeedsApproval(x) /\ x.r.kit = "no"                 -> PatchCard(x)
      [] x.r.status \notin Stable /\ x.r.kit # "no"          -> StreamCard(x)
      [] OTHER                                              -> FinalCard(x)

(* _sync_card_delivery: every way it may go with at most max failed calls. *)
SyncCard(r, posts, max) ==
    {x \in Then(Then(SendCard(Start(r, posts)), ResolveCard), DeliverCard) : x.bad <= max}
=============================================================================
