\* A kernel that does not clear what it allocates, which is the default of 6.8.
SPECIFICATION Spec
CONSTANTS
  p1 = p1
  p2 = p2
  p3 = p3
  Procs = {p1, p2, p3}
  Tgid <- MCTgid
  FirstProc = p1
  Files = {f1}
  Private = {}
  Pages = {g1, g2}
  Addrs <- MCAddrs
  MaxLen = 2
  NumaEnabled = FALSE
  InitOnAlloc = FALSE
  NoPage = NoPage
  AnonPage = AnonPage
INVARIANTS
  PagesFromAllocator
CHECK_DEADLOCK FALSE
