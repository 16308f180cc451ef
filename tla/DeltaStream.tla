---------------------------- MODULE DeltaStream ----------------------------
(***************************************************************************)
(* What a caller of the gateway is promised about one generation: parts of *)
(* the answer, then the usage exactly once, then the end.  A failure is an *)
(* exception as long as nothing was handed over, and an end of the stream  *)
(* afterwards.                                                             *)
(***************************************************************************)
EXTENDS Naturals

VARIABLES
  said,     \* parts handed over
  ending    \* how far the stream has come

Init == said = 0 /\ ending = "open"

Say == ending = "open" /\ said' = said + 1 /\ UNCHANGED ending
Count == ending = "open" /\ ending' = "counted" /\ UNCHANGED said
Finish == ending = "counted" /\ ending' = "complete" /\ UNCHANGED said
Break == ending = "counted" /\ ending' = "interrupted" /\ UNCHANGED said
Refuse == ending = "open" /\ said = 0 /\ ending' = "refused" /\ UNCHANGED said
Leave == ending \in {"open", "counted"} /\ ending' = "left" /\ UNCHANGED said

Next == Say \/ Count \/ Finish \/ Break \/ Refuse \/ Leave

Spec == Init /\ [][Next]_<<said, ending>>
=============================================================================
