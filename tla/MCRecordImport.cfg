CONSTANTS
  r1 = r1
  r2 = r2
  Requests = {r1, r2}
  Size = 3
SPECIFICATION FairSpec
INVARIANTS  EveryRowIsCounted MappingHolds
PROPERTIES FailStops ImportsEnd
CHECK_DEADLOCK FALSE
