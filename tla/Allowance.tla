----------------------------- MODULE Allowance -----------------------------
(***************************************************************************)
(* What a tenant's allowance of concurrent things promises: at most Limit  *)
(* clients hold a place, for as long as the store that counts them has     *)
(* lost nothing.  A client that is refused changes nothing.                *)
(***************************************************************************)
EXTENDS Naturals, FiniteSets

CONSTANTS Clients, Limit

VARIABLES
  holders,  \* clients that were told they may go on
  intact    \* the store has lost no data so far

avars == <<holders, intact>>

Init == holders = {} /\ intact = TRUE

Take(c) ==
  /\ c \notin holders
  /\ intact => Cardinality(holders) < Limit
  /\ holders' = holders \union {c}
  /\ UNCHANGED intact

Give(c) == c \in holders /\ holders' = holders \ {c} /\ UNCHANGED intact

Lose == intact' = FALSE /\ UNCHANGED holders

Next == Lose \/ \E c \in Clients : Take(c) \/ Give(c)

Spec == Init /\ [][Next]_avars
=============================================================================
