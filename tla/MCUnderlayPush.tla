---------------------------- MODULE MCUnderlayPush ----------------------------
(* Instances of UnderlayPush for TLC. *)
EXTENDS UnderlayPush

OwnFiles == [p \in Pubs |-> IF p = "p1" THEN 0 ELSE 1]
OneFile == [p \in Pubs |-> 0]
=============================================================================
