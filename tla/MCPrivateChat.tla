---------------------------- MODULE MCPrivateChat ----------------------------
(* One message of each kind, and a second question that shares its digest    *)
(* with the first, delivered twice in all: the same one twice or two of them *)
(* close together.                                                           *)
EXTENDS PrivateChat

CONSTANTS question, again, command, other

Digests == [m \in {question, again, command, other} |->
                IF m = again THEN question ELSE m]
=============================================================================
