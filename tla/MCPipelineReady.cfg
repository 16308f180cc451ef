\* A re-ingest while an ingest execution starts (knowledge.py:293), no fault at all.
SPECIFICATION Spec
CONSTANTS
  Docs = {d1}
  Tasks = {t1, t2}
  NoDoc = NoDoc
  MaxVersion = 2
  MaxRetries = 1
  Batches = 1
  SlotCap = 2
  MaxFaults = 0
  LossyBroker = FALSE
SYMMETRY Symmetry
INVARIANTS
  ReadyIsSearchable
CHECK_DEADLOCK FALSE
