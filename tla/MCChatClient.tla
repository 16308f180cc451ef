---------------------------- MODULE MCChatClient ----------------------------
(* One conversation and a page that is left before what it asked for is    *)
(* answered.                                                               *)
EXTENDS ChatClient

MCBeginnings == {<<"a">>}
Spec == ChatClientInit /\ [][ChatClientNext]_chatClientVars
=============================================================================
