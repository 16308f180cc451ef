\* Documents only come; two jobs, two executions, one fault.
SPECIFICATION Spec
CONSTANTS
  NDocs = 2
  Present = {1}
  MaxJobs = 2
  Tasks = {t1, t2}
  Models = {m1}
  FirstModel = m1
  MaxKver = 1
  MaxGen = 1
  BatchSize = 1
  MaxFaults = 1
  Requests = {"upload", "model"}
SYMMETRY Symmetry
INVARIANTS ReadyIsFound
PROPERTIES CurrentVectorsSurvive
CHECK_DEADLOCK FALSE
