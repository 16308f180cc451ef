----------------------------- MODULE MCChatTurn -----------------------------
(* Instances of ChatTurn for TLC. *)
EXTENDS ChatTurn

CONSTANT m1

MCDeltas == [t \in Turns |-> 2]
=============================================================================
