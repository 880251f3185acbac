---------------------------- MODULE MCChannelHost ----------------------------
(* Two processes for one Feishu app: p1 with its main thread and a           *)
(* connection, p2 with its main thread.                                      *)
EXTENDS ChannelHost, TLC

CONSTANTS p1, p2, m1, m2, a1, feishu, wechat, id

TwoProcs == (m1 :> p1) @@ (a1 :> p1) @@ (m2 :> p2)
Mains == (p1 :> m1) @@ (p2 :> m2)
FeishuFirst == [p \in Procs |-> <<feishu>>]
NeedsId == (feishu :> {id}) @@ (wechat :> {})
=============================================================================
