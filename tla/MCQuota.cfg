\* Two turns that compete for one stream, two tasks for one slot, or one turn
\* and the nightly run; one midnight, one loss of data or failure anywhere.
SPECIFICATION FairSpec
CONSTANTS
  t1 = t1
  t2 = t2
  w1 = w1
  w2 = w2
  Turns = {t1, t2}
  Tasks = {w1, w2}
  Limits <- MCLimits
  Estimate = 2
  Actuals = {2, 3}
  Scenes <- MCScenes
  MaxPeriod = 1
  MaxFaults = 1
INVARIANTS TypeOK EveryReservationReturned CountersStaySound
PROPERTIES BooksSettle LimitsAreKept
CHECK_DEADLOCK FALSE
