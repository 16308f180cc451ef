\* The writers of settings, the lists, the notices, the nightly work, the
\* requests, the chat page and the chunker, one of them at a time.
SPECIFICATION Spec
CONSTANTS
  Writers = {1, 2}
  Plans <- MCPlans
  Legacy <- MCLegacy
  System <- MCSystem
  Low = 2
  High = 4
  MaxFaults = 1
  Talks = {1, 2, 3}
  Owner <- MCOwner
  Authors <- MCAuthors
  Page = 1
  MaxClock = 2
  Events = {1, 2, 3}
  People = {1, 2}
  EventPlans <- MCEventPlans
  Thresholds <- MCThresholds
  Limit = 6
  MaxSlips = 1
  Days = 5
  DaysPerMonth = 1
  Prebuilt = 2
  MonthsAhead = 1
  Retention = 2
  PerDay = 1
  LastUse = 2
  Rollers = {"hourly", "again"}
  MaxOutages = 1
  Lines = {1, 2}
  Rounds <- MCRounds
  Tenants = {1, 2}
  Pool = {"x"}
  PerMinute = 2
  Windows = 2
  MaxChanges = 1
  MaxBlows = 1
  Chats = {"a", "b"}
  Landing = {"a"}
  Fresh = "c"
  Answers = 2
  Beginnings <- MCBeginnings
  Deltas = 1
  MaxMoves = 2
  Sources <- MCSources
  ChunkConfigs <- MCChunkConfigs
  HeaderPages = 2
  HeaderTokens = 1
INVARIANTS SettingsHold CuttingHolds ListsAreTrue NoticesAreTold LogsAreKept RequestsAreApart BufferIsSound
CHECK_DEADLOCK FALSE
