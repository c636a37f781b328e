\* Two servers and two clients started in any order, one of each may be killed.  connect,
\* read, write and send need not be in FailingCalls to fail: they do when the peer is gone;
\* a failed listen is followed by what follows a failed accept.
SPECIFICATION Spec
CONSTANTS
  Servers = {s1, s2}
  Clients = {c1, c2}
  FailingCalls = {"accept", "recv", "unlink"}
  Killable = {s1, c1}
  Nobody = Nobody
INVARIANTS
  TypeOK
  NoLeftoverPath
  RequestsAreRead
  AckedClientsWereServed
PROPERTIES
  UnlinksOwnPath
  ConnectionsEnd
\* The programs end, and a server whose client never comes waits for good.
CHECK_DEADLOCK FALSE
