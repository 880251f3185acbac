------------------------- MODULE MCBackgroundTasks -------------------------
(* The module that TLC runs BackgroundTasks from.                          *)
EXTENDS BackgroundTasks

(* One report and one kill of the background task; the verifier only       *)
(* competes with it for the pool's thread.                                 *)
OncePerBackground == [t \in Tasks |-> IF t \in Background THEN 1 ELSE 0]
=============================================================================
