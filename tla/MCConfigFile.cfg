\* Command lines of up to two words are enough here.
SPECIFICATION Spec
CONSTANTS
  Words <- MCWords
  MaxWords = 2
  Environments <- MCEnvironments
  Contents <- MCContents
  FileSystems <- MCFileSystems
INVARIANTS
  FileOptionHonoured
\* The program ends.
CHECK_DEADLOCK FALSE
