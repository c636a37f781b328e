\* One listener, one event, and a signal at any point.
SPECIFICATION Spec
CONSTANTS
  l1 = l1
  l2 = l2
  Reporters = {r1}
  Listeners = {l1}
  NumEvents <- MCNumEvents
  RcvBuf = 1
  MaxLoads = 1
INVARIANTS
  NoDoubleFree
\* All programs may have ended.
CHECK_DEADLOCK FALSE
