---------------------------- MODULE MCRetention ----------------------------
(* Every cache key is of one source. *)
EXTENDS Retention
CONSTANT yahoo
MCSourceOf == [k \in Key |-> yahoo]
=============================================================================
