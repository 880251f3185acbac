----------------------------- MODULE MCTurnLoop -----------------------------
(* Instances of TurnLoop for TLC: which batches the model asks for.        *)
EXTENDS TurnLoop

(* Every kind of call, next to calls that run before it and after it.      *)
MixedBatches == { <<"pool", "run">>, <<"run", "ask">>, <<"ask", "pool">>, <<"question">>,
                  <<"deny">>, <<"ask", "invalid">>, <<"ask", "unknown">> }

OneQuestion  == { <<"question">> }
OneUnknown   == { <<"unknown">> }
OneAsk       == { <<"ask">> }

(* No step reads the event log, and the properties of these runs read its  *)
(* last entry and which turns it has the end of: states that differ in     *)
(* other events are the same.                                              *)
Ends(r)  == {r.events[i].turn : i \in {j \in 1..Len(r.events) : r.events[j].kind \in Ending}}
Short(r) == [r EXCEPT !.events = IF @ = <<>> THEN <<>> ELSE <<@[Len(@)].kind, Ends(r)>>]
EndsOnly == <<Short(disk), Short(rec), pc, control, work, denials, left, told>>
=============================================================================
