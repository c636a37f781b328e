\* Three address spaces of two pids and two files, so that the search by pid and address
\* can meet the regions of another space and of another file; two pages, one less than
\* two processes can ask for, so that allocation can fail.
SPECIFICATION Spec
CONSTANTS
  p1 = p1
  p2 = p2
  p3 = p3
  Procs = {p1, p2, p3}
  Tgid <- MCTgid
  FirstProc = p1
  Files = {f1, f2}
  Private = {f1, f2}
  Pages = {g1, g2}
  Addrs <- MCAddrs
  MaxLen = 2
  NumaEnabled = TRUE
  InitOnAlloc = TRUE
  NoPage = NoPage
  AnonPage = AnonPage
SYMMETRY Symmetry
CONSTRAINT Scope
INVARIANTS
  TypeOK
  PagesAccounted
  VmasPopulated
  CountMatchesRegions
  ExitFindsNothing
PROPERTIES
  CloseFreesOwnRegion
  TextOutlivesUsers
\* Users and the administrator may stop issuing calls.
CHECK_DEADLOCK FALSE
