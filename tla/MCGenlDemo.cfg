\* Two reporters whose handlers overlap, one listener that wants one event and one that
\* wants any number, buffers that one more event overruns, one load and unload.
SPECIFICATION Spec
CONSTANTS
  l1 = l1
  l2 = l2
  Reporters = {r1, r2}
  Listeners = {l1, l2}
  NumEvents <- MCNumEvents
  RcvBuf = 1
  MaxLoads = 1
INVARIANTS
  TypeOK
  LiveIdsUnique
  NothingLost
PROPERTIES
  AudienceReached
\* All programs may have ended.
CHECK_DEADLOCK FALSE
