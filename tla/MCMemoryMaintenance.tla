------------------------ MODULE MCMemoryMaintenance ------------------------
(* The module that TLC runs MemoryMaintenance from.                        *)
EXTENDS MemoryMaintenance

CONSTANTS t1, t2, s1, s2

Alone  == (t1 :> s1)
Shared == (t1 :> s1) @@ (t2 :> s1)
=============================================================================
