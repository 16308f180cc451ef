---------------------------- MODULE MCKbReindex ----------------------------
(* Instances of KbReindex for TLC. *)
EXTENDS KbReindex, TLC

Symmetry == Permutations(Tasks)
=============================================================================
