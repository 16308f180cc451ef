\* One document, one re-ingest, one execution at a time on each queue, two faults:
\* crashes, redeliveries, lost sends and lost messages against every user request
\* and Beat scan.
SPECIFICATION Spec
CONSTANTS
  Docs = {d1}
  Tasks = {t1, t2}
  NoDoc = NoDoc
  MaxVersion = 2
  MaxRetries = 1
  Batches = 2
  SlotCap = 1
  MaxFaults = 2
  LossyBroker = TRUE
SYMMETRY Symmetry
INVARIANTS
  TypeOK
  FirstVersionReadyIsSearchable
PROPERTIES
  PaidVectorsSurvive
CHECK_DEADLOCK FALSE
