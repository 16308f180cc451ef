\* Three tabs of one user, three requests; one access token may expire, one
\* answer may be lost or be too slow, and one thing of Scenes happens beside.
SPECIFICATION FairSpec
CONSTANTS
  ta = ta
  tb = tb
  tc = tc
  r1 = r1
  r2 = r2
  r3 = r3
  Tabs = {ta, tb, tc}
  Reqs = {r1, r2, r3}
  Owner <- MCOwner
  MaxAttempts = 2
  MaxTries = 2
  MaxTokens = 7
  MaxLogins = 1
  Scenes <- MCScenes
INVARIANTS TypeOK SignInHolds RevocationHolds
PROPERTIES SessionsMoveOn
CHECK_DEADLOCK FALSE
