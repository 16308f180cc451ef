\* Re-chunking and rebuilding while users re-ingest, delete and change the
\* chunking; one execution at a time, two crashes, redeliveries, lost sends
\* or failures anywhere.
SPECIFICATION FairSpec
CONSTANTS
  NDocs = 1
  Present = {1}
  MaxJobs = 1
  Tasks = {t1}
  Models = {m1}
  FirstModel = m1
  MaxKver = 2
  MaxGen = 2
  BatchSize = 1
  MaxFaults = 2
  Requests = {"reingest", "delete", "config", "rechunk", "model"}
INVARIANTS TypeOK IndexedIsCut
PROPERTIES JobsEnd
CHECK_DEADLOCK FALSE
