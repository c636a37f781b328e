\* The server and two clients, of which it serves one.
SPECIFICATION Spec
CONSTANTS
  Server = s
  Clients = {c1, c2}
  Nobody = Nobody
INVARIANTS
  TypeOK
  PacketsIntact
  NormalEndIsComplete
PROPERTIES
  ExchangeEnds
\* The programs end.
CHECK_DEADLOCK FALSE
