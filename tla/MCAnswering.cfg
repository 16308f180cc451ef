SPECIFICATION Spec
CONSTANTS
  Models = 2
  Tries = 2
  MaxTexts = 2
  Batch = 3
  Providers <- MCProviders
  Kbs = {1, 2}
  PerKb = 2
  Cost <- MCCost
  Params <- MCParams
  VectorScores <- MCVectorScores
  KeywordScores = {40}
  RerankScores = {2, 5}
  Requests <- MCRequests
  MaxChanges = 1
  MaxMarkers = 2
  TurnsBefore = 2
  Scenes <- MCScenes
  Window = 4
  HistoryTurns = 1
  Uploads = {1, 2}
  Shelves = {"a", "b"}
  Deliveries <- MCDeliveries
  DocumentLimit = 1
  PurgeBatch = 1
  MaxMishaps = 1
  Contents = {"good", "bad", "bomb", "crash", "loop", "huge"}
  MaxAttempts = 3
  MaxTroubles = 2
INVARIANTS AnsweringTypeOK StreamsAreWhole CallsAreSound TurnsAreComposed  UploadsAreSound
PROPERTIES StreamKeepsItsPromise WorkEnds
CHECK_DEADLOCK FALSE
