\* The test target as it is: one server, one client, nothing fails.
SPECIFICATION TestSpec
CONSTANTS
  Servers = {s1}
  Clients = {c1}
  FailingCalls = {}
  Killable = {}
  Nobody = Nobody
PROPERTIES
  TestPasses
\* The programs end.
CHECK_DEADLOCK FALSE
