-------------------------- MODULE MCFeishuChannel --------------------------
(* The module that TLC runs FeishuChannel from: events of a turn that      *)
(* completes, and of one that stops for an approval, which completes.      *)
EXTENDS FeishuChannel

Turns      == {<<"assistant_delta", "turn_completed">>, <<"tool_started", "requires_action">>}
Approvals  == {<<"tool_result", "turn_completed">>}

(* Bound: a prompt that is delivered once meets clicks and all the failing *)
(* calls; several deliveries, or a command, meet one failing call at most. *)
OneDelivery == \A m \in Messages : deliveries[m] = 0 \/ (m \in Prompts /\ deliveries[m] = 1)
Calm        == fails <= 1 /\ \A m \in Messages : clicks[m] = 0
Bounded     == OneDelivery \/ Calm

MCSpec == Init /\ [][Next /\ Bounded']_vars /\ Fairness
=============================================================================
