----------------------------- MODULE MCGateway -----------------------------
(* Instances of Gateway for TLC.                                           *)
EXTENDS Gateway, TLC

CONSTANTS h1, h2, t1, t2, c1, c2, idA, idB

OneHost  == t1 :> h1 @@ t2 :> h1
TwoHosts == t1 :> h1 @@ t2 :> h2

OneEach == t1 :> {c1} @@ t2 :> {c2}
Alone   == t1 :> {c1}
Solo    == t1 :> h1

(* One chat may be moved to a second session after a restart.              *)
Both    == c1 :> {1, 2} @@ c2 :> {1}
JustOne == c1 :> {1} @@ c2 :> {1}
OnlyOne == c1 :> {1}

OwnIds   == h1 :> idA @@ h2 :> idB
SingleId == h1 :> idA
=============================================================================
