\* Two overlapping runs of "make test", one of them with failing calls and kills.
SPECIFICATION Spec
CONSTANTS
  Runs = {r1, r2}
  Faulty = {r1}
INVARIANTS
  TypeOK
  GetsShowPosts
  RoundsInOrder
  NothingLeftBehind
PROPERTIES
  UnlinkedWhenConsumed
  TestsEnd
\* The runs end.
CHECK_DEADLOCK FALSE
