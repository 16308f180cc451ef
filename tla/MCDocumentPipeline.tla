------------------------ MODULE MCDocumentPipeline ------------------------
(* TLC instances of DocumentPipeline. *)
EXTENDS DocumentPipeline, TLC

(* Message slots are interchangeable. *)
Symmetry == Permutations(Tasks)
=============================================================================
