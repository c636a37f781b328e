\* One file, one page, and a process that queries another, which may exec, and itself;
\* one table below the pgd, which can be freed between the two reads.  No symmetry, which
\* liveness does not allow.
SPECIFICATION WalkerSpec
CONSTANTS
  p1 = p1
  p2 = p2
  p3 = p3
  Procs = {p1, p2, p3}
  Tgid <- MCTgid
  FirstProc = p1
  Files = {f1}
  Private = {f1}
  Pages = {g1}
  Addrs <- OneAddr
  MaxLen = 1
  NumaEnabled = TRUE
  InitOnAlloc = TRUE
  NoPage = NoPage
  AnonPage = AnonPage
  Walkers = {p2}
  Levels = 1
  NextTable = NextTable
INVARIANTS
  WalksAreStable
PROPERTIES
  WalksEndInReclaim
\* Users and the administrator may stop issuing calls.
CHECK_DEADLOCK FALSE
