------------------------------- MODULE Intake -------------------------------
(***************************************************************************)
(* A document is taken in by the library and read by an extraction: they   *)
(* meet in its row and its object alone, which the extraction finds or     *)
(* does not find, so that the two machines here share no variable.         *)
(***************************************************************************)
EXTENDS Library, Extraction

intakeVars == <<libraryVars, extractionVars>>
IntakeNext ==
  \/ LibraryNext /\ UNCHANGED extractionVars
  \/ ExtractionNext /\ UNCHANGED libraryVars
IntakeSpec == LibraryInit /\ ExtractionInit /\ [][IntakeNext]_intakeVars

(* Uploads, purges and extractions: the rows, the object store and what an *)
(* execution hands on agree.                                               *)
UploadsAreSound == StoresAgree /\ ExtractionsHold
=============================================================================
