\* Liveness: lost sends, crashes and redeliveries, with workers, clock and
\* Beat fair.  Slots for every message, so that nothing is deferred.
SPECIFICATION FairSpec
CONSTANTS
  Docs = {d1}
  Tasks = {t1, t2}
  NoDoc = NoDoc
  MaxVersion = 2
  MaxRetries = 1
  Batches = 1
  SlotCap = 2
  MaxFaults = 1
  LossyBroker = FALSE
INVARIANTS InProgressHasTask
PROPERTIES
  EventuallySettles StaleEmbeddingChangesNothing
CHECK_DEADLOCK FALSE
