\* Two parallel requests through refreshes, an erasure and a new registration.
SPECIFICATION FairSpec
CONSTANTS
  Requests = {r1, r2}
  MaxPairs = 4
  MaxBirths = 2
INVARIANTS OneLiveToken
PROPERTIES DroppedForAReason RequestsEnd
CHECK_DEADLOCK FALSE
