\* Command lines of up to four words.
SPECIFICATION Spec
CONSTANTS
  Words <- MCWords
  MaxWords = 4
  Environments <- MCEnvironments
  Contents <- MCContents
  FileSystems <- MCFileSystems
INVARIANTS
  TypeOK
  PriorityOrder
\* The program ends.
CHECK_DEADLOCK FALSE
