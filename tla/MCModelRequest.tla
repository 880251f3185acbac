--------------------------- MODULE MCModelRequest ---------------------------
(* Answers of up to two letters. *)
EXTENDS ModelRequest

CONSTANTS a, b
Answers == {<<>>, <<a>>, <<a, b>>, <<b>>}
=============================================================================
