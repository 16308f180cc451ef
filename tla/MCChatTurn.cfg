\* One turn of a tenant whose other turns may hold the only stream slot, one
\* client over breaking connections, two faults anywhere.
SPECIFICATION FairSpec
CONSTANTS
  m1 = m1
  Turns = {m1}
  Retrieving = {m1}
  Deltas <- MCDeltas
  Followed = m1
  Capacity = 1
  StreamLimit = 1
  MaxRetries = 1
  MaxFaults = 2
INVARIANTS TypeOK FinalEventIsPersisted EventsArriveOnce TurnsAreSettled
PROPERTIES ChatEnds
CHECK_DEADLOCK FALSE
