\* NUM_WORKERS is 6; with four racers every position exists: the first holder, two
\* waiters in the queue at once, and a racer that is still on its way.  Two readers of
\* the sysfs demo: one may be in a show while the other opens, and the removal waits
\* for both.
SPECIFICATION DemoSpec
CONSTANTS
  NumWorkers = 4
  Readers = {r1, r2}
  r1 = r1
  r2 = r2
INVARIANTS
  DemosTypeOK
  MutualExclusion
  AbortedNeverRace
  TextOutlivesReferences
  ShowSeesEntity
PROPERTIES
  EveryRacerStops
  TextOutlivesWork
  WorkReclaimed
  NothingOfDeviceLeft
\* The semaphore demo ends.
CHECK_DEADLOCK FALSE
