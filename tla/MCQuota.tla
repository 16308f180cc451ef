------------------------------ MODULE MCQuota ------------------------------
(* Instances of Quota for TLC. *)
EXTENDS Quota

CONSTANTS t1, t2, w1, w2

MCLimits == [messages |-> 2, tokens |-> 4, streams |-> 1, slots |-> 1]
(* Two turns or two tasks compete; the nightly run overlaps one turn.      *)
MCScenes == {[who |-> {t1}, nightly |-> FALSE, start |-> 0],
             [who |-> {t1, t2}, nightly |-> FALSE, start |-> 1],
             [who |-> {w1, w2}, nightly |-> FALSE, start |-> 1],
             [who |-> {t1}, nightly |-> TRUE, start |-> 0]}
MCNegativeScenes == {[who |-> {t1, t2}, nightly |-> TRUE, start |-> 1]}
=============================================================================
