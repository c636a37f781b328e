------------------------------ MODULE UnixSocket ------------------------------
(***************************************************************************)
(* src/linux-c/socket/unix-socket: a server and a client that exchange a   *)
(* REQ and an ACK over a stream socket and then again over datagram        *)
(* sockets, all of them bound to fixed paths.                              *)
(*                                                                         *)
(* Every process runs its program once, one system call at a time; a       *)
(* restarted program is another process.  A process in Killable may die    *)
(* between two calls, and the calls in FailingCalls may fail, unlink among *)
(* them.                                                                   *)
(*                                                                         *)
(* External, from how the programs use it: bind fails on a path that       *)
(* exists, even if its socket is gone; a message is written and read whole *)
(* (AF_UNIX, 11 bytes); read reports a closed peer; a datagram goes to     *)
(* whoever is bound to the path now.  A write to a closed peer raises      *)
(* SIGPIPE.  socket/README.md:48-49 has it ignored by default, so that the *)
(* write fails with EPIPE; but the default action of SIGPIPE is to end the *)
(* process and neither program changes it, so the process dies here, and   *)
(* the error branch of server.c:86-90 is reached by other errors only.     *)
(***************************************************************************)
EXTENDS Naturals, Sequences, Functions

CONSTANTS Servers, Clients,
          FailingCalls,   \* the labels whose system call may fail
          Killable,       \* the processes that may be killed
          Nobody          \* no process

ASSUME UnixSocketAssumption ==
  /\ Servers \cap Clients = {}
  /\ Killable \subseteq Servers \cup Clients
  /\ Servers \cap {"absent", "stale"} = {} /\ Clients \cap {"absent", "stale"} = {}
  /\ Nobody \notin Servers \cup Clients

Procs == Servers \cup Clients

\* SERVER_STREAM_SOCKET_PATH, SERVER_DGRAM_SOCKET_PATH, CLIENT_DGRAM_SOCKET_PATH
Paths == {"server_stream", "server_dgram", "client_dgram"}

VARIABLES
  stage,     \* per process: stream or dgram, the function main is in
  pc,        \* per process: the call it makes next, exited or killed
  ret,       \* per process: its variable ret
  path,      \* per path: absent, stale, or the process whose socket is bound to it
  backlog,   \* per server: clients connected and not accepted yet
  conn,      \* per server: the client it has accepted
  peer,      \* per client: the server it is connected to
  stream,    \* per client: what is unread in its connection: none, REQ or ACK
  inbox,     \* per process: the senders of the datagrams queued at its socket
  heard,     \* history: clients whose REQ was read from their connection
  served,    \* history: clients whose REQ datagram a server has received
  gaveup,    \* history: clients whose recvfrom failed
  stuck      \* history: processes whose unlink failed

vars == <<stage, pc, ret, path, backlog, conn, peer, stream, inbox,
          heard, served, gaveup, stuck>>

Init ==
  /\ stage = [p \in Procs |-> "stream"]
  /\ pc = [p \in Procs |-> IF p \in Servers THEN "bind" ELSE "connect"]
  /\ ret = [p \in Procs |-> 0]
  /\ path = [f \in Paths |-> "absent"]
  /\ backlog = [s \in Servers |-> <<>>]
  /\ conn = [s \in Servers |-> Nobody]
  /\ peer = [c \in Clients |-> Nobody]
  /\ stream = [c \in Clients |-> "none"]
  /\ inbox = [p \in Procs |-> <<>>]
  /\ heard = {} /\ served = {} /\ gaveup = {} /\ stuck = {}

At(p, st, label) == stage[p] = st /\ pc[p] = label

Goto(p, label) == pc' = [pc EXCEPT ![p] = label]

Fail(p, label) == Goto(p, label) /\ ret' = [ret EXCEPT ![p] = 1]

\* The path p binds in its current stage.
PathOf(p) == IF p \in Clients THEN "client_dgram"
             ELSE IF stage[p] = "stream" THEN "server_stream" ELSE "server_dgram"

socketsUnchanged == UNCHANGED <<backlog, conn, peer, stream, inbox, heard, served>>

noFailure == UNCHANGED <<gaveup, stuck>>

-------------------------------------------------------------------------------
(* What server and client share.                                           *)

\* Mutant: an error after bind that skips the unlink.
SkipsUnlink == [listen |-> "close", accept |-> "close", read |-> "close_conn",
                write |-> "close_conn", recv |-> "unlink", send |-> "unlink"]

\* The labels an error of each server call jumps to: out_close_conn_sock, out_unlink.
ServerCleanup == [listen |-> "unlink", accept |-> "unlink", read |-> "close_conn",
                  write |-> "close_conn", recv |-> "unlink", send |-> "unlink"]

\* The same for the client: out_close, out_unlink.
ClientCleanup == [connect |-> "close", write |-> "close", read |-> "close",
                  send |-> "unlink", recv |-> "unlink"]

Cleanup(p) == IF p \in Servers THEN ServerCleanup ELSE ClientCleanup

\* A call fails for a reason of its own (out of memory, interrupted, ...).
CallFails(p) ==
  /\ pc[p] \in FailingCalls \cap DOMAIN Cleanup(p)
  /\ Fail(p, Cleanup(p)[pc[p]])
  /\ gaveup' = gaveup \cup {c \in Clients : c = p /\ pc[p] = "recv"}
  /\ UNCHANGED <<stage, path, stuck>>
  /\ socketsUnchanged

\* Mutant: a failed bind jumps to the label that removes the path.
UnlinksAnyway == "unlink"

\* Where a failed bind jumps to: only the own socket is closed.
AfterBindFailed == "close"

\* bind: creates the path, or fails because it exists.
Bind(p) ==
  /\ pc[p] = "bind"
  /\ IF path[PathOf(p)] = "absent"
     THEN /\ path' = [path EXCEPT ![PathOf(p)] = p]
          /\ Goto(p, IF p \in Clients THEN "send"
                     ELSE IF stage[p] = "stream" THEN "listen" ELSE "recv")
          /\ UNCHANGED ret
     ELSE Fail(p, AfterBindFailed) /\ UNCHANGED path
  /\ UNCHANGED stage
  /\ socketsUnchanged
  /\ noFailure

\* out_unlink: the path is removed, whoever is bound to it, or the call fails and ret says so.
Unlink(p) ==
  /\ pc[p] = "unlink"
  /\ \/ /\ path' = [path EXCEPT ![PathOf(p)] = "absent"]
        /\ Goto(p, "close")
        /\ UNCHANGED <<ret, stuck>>
     \/ /\ "unlink" \in FailingCalls
        /\ Fail(p, "close")
        /\ stuck' = stuck \cup {p}
        /\ UNCHANGED path
  /\ UNCHANGED <<stage, gaveup>>
  /\ socketsUnchanged

\* What closing every socket of p does: connections not accepted are reset, queued
\* datagrams are dropped, and a path p is still bound to leads nowhere.
CloseSockets(p) ==
  /\ path' = [f \in Paths |-> IF path[f] = p THEN "stale" ELSE path[f]]
  /\ backlog' = [s \in Servers |-> IF s = p THEN <<>> ELSE backlog[s]]
  /\ conn' = [s \in Servers |-> IF s = p THEN Nobody ELSE conn[s]]
  /\ inbox' = [inbox EXCEPT ![p] = <<>>]
  /\ UNCHANGED <<peer, stream, heard, served>>
  /\ noFailure

\* The last label of each function: close(sock_fd) and return ret, and what main does
\* with it: an error ends the program, otherwise the datagram part follows.
CloseSocket(p) ==
  /\ pc[p] = "close"
  /\ CloseSockets(p)
  /\ IF ret[p] = 0 /\ stage[p] = "stream"
     THEN Goto(p, "bind") /\ stage' = [stage EXCEPT ![p] = "dgram"]
     ELSE Goto(p, "exited") /\ UNCHANGED stage
  /\ UNCHANGED ret

\* p dies: its sockets are closed, its paths stay.
Dies(p) ==
  /\ Goto(p, "killed")
  /\ CloseSockets(p)
  /\ UNCHANGED <<stage, ret>>

Kill(p) ==
  /\ p \in Killable
  /\ pc[p] \notin {"exited", "killed"}
  /\ Dies(p)

-------------------------------------------------------------------------------
(* The stream part.                                                        *)

ClientClosed(c) == stage[c] # "stream" \/ pc[c] \in {"exited", "killed"}

ServerClosed(c) == conn[peer[c]] # c /\ c \notin Range(backlog[peer[c]])

Listen(s) ==
  /\ At(s, "stream", "listen")
  /\ Goto(s, "accept")
  /\ UNCHANGED <<stage, ret, path>>
  /\ socketsUnchanged
  /\ noFailure

\* Mutant: the result of connect is not looked at.
ConnectUnchecked(c) ==
  /\ At(c, "stream", "connect")
  /\ peer' = [peer EXCEPT ![c] = path["server_stream"]]
  /\ Goto(c, "write")
  /\ UNCHANGED <<stage, ret, path, backlog, conn, stream, inbox, heard, served>>
  /\ noFailure

\* connect finds a listening server, or fails.
Connect(c) ==
  /\ At(c, "stream", "connect")
  /\ LET s == path["server_stream"]
     IN IF s \in Servers /\ pc[s] # "listen"
        THEN /\ backlog' = [backlog EXCEPT ![s] = Append(@, c)]
             /\ peer' = [peer EXCEPT ![c] = s]
             /\ Goto(c, "write")
             /\ UNCHANGED ret
        ELSE Fail(c, "close") /\ UNCHANGED <<backlog, peer>>
  /\ UNCHANGED <<stage, path, conn, stream, inbox, heard, served>>
  /\ noFailure

Accept(s) ==
  /\ At(s, "stream", "accept")
  /\ backlog[s] # <<>>
  /\ conn' = [conn EXCEPT ![s] = Head(backlog[s])]
  /\ backlog' = [backlog EXCEPT ![s] = Tail(@)]
  /\ Goto(s, "read")
  /\ UNCHANGED <<stage, ret, path, peer, stream, inbox, heard, served>>
  /\ noFailure

\* Mutant: the client reads first, like the server.
ReadsFirst == "none"

\* What the client writes once it is connected.
Request == "REQ"

ClientWrite(c) ==
  /\ At(c, "stream", "write")
  /\ IF ServerClosed(c)
     THEN Dies(c)
     ELSE /\ stream' = [stream EXCEPT ![c] = Request]
          /\ Goto(c, "read")
          /\ UNCHANGED <<stage, ret, path, backlog, conn, peer, inbox, heard, served>>
          /\ noFailure

\* read: the request, or the end of the stream ("got empty data").
ServerRead(s) ==
  LET c == conn[s]
  IN /\ At(s, "stream", "read")
     /\ stream[c] = "REQ" \/ ClientClosed(c)
     /\ IF stream[c] = "REQ"
        THEN /\ stream' = [stream EXCEPT ![c] = "none"]
             /\ heard' = heard \cup {c}
             /\ Goto(s, "write")
             /\ UNCHANGED ret
        ELSE Fail(s, ServerCleanup.read) /\ UNCHANGED <<stream, heard>>
     /\ UNCHANGED <<stage, path, backlog, conn, peer, inbox, served>>
     /\ noFailure

\* write: the answer, or SIGPIPE if the client is gone.
ServerWrite(s) ==
  LET c == conn[s]
  IN /\ At(s, "stream", "write")
     /\ IF ClientClosed(c)
        THEN Dies(s)
        ELSE /\ stream' = [stream EXCEPT ![c] = "ACK"]
             /\ Goto(s, "close_conn")
             /\ UNCHANGED <<stage, ret, path, backlog, conn, peer, inbox, heard, served>>
             /\ noFailure

CloseConn(s) ==
  /\ At(s, "stream", "close_conn")
  /\ conn' = [conn EXCEPT ![s] = Nobody]
  /\ Goto(s, "unlink")
  /\ UNCHANGED <<stage, ret, path, backlog, peer, stream, inbox, heard, served>>
  /\ noFailure

\* Mutant: the client takes the end of the stream for an answer.
ReadsAnything(c) ==
  /\ At(c, "stream", "read")
  /\ stream[c] = "ACK" \/ ServerClosed(c)
  /\ Goto(c, "close")
  /\ UNCHANGED <<stage, ret, path>>
  /\ socketsUnchanged
  /\ noFailure

ClientRead(c) ==
  /\ At(c, "stream", "read")
  /\ stream[c] = "ACK" \/ ServerClosed(c)
  /\ IF stream[c] = "ACK"
     THEN Goto(c, "close") /\ UNCHANGED ret
     ELSE Fail(c, ClientCleanup.read)
  /\ UNCHANGED <<stage, path>>
  /\ socketsUnchanged
  /\ noFailure

-------------------------------------------------------------------------------
(* The datagram part.                                                      *)

\* sendto of p to whoever is bound to the path f; it fails if nobody is.
SendTo(p, f, next) ==
  /\ IF path[f] \in Procs
     THEN /\ inbox' = [inbox EXCEPT ![path[f]] = Append(@, p)]
          /\ Goto(p, next)
          /\ UNCHANGED ret
     ELSE Fail(p, "unlink") /\ UNCHANGED inbox
  /\ UNCHANGED <<stage, path, backlog, conn, peer, stream, heard, served>>
  /\ noFailure

\* Mutant: the client does not wait for the answer.
SendsOnly(c) == At(c, "dgram", "send") /\ SendTo(c, "server_dgram", "unlink")

ClientSend(c) == At(c, "dgram", "send") /\ SendTo(c, "server_dgram", "recv")

ServerSend(s) == At(s, "dgram", "send") /\ SendTo(s, "client_dgram", "unlink")

\* recvfrom, which has no timeout.
Receive(p) ==
  /\ At(p, "dgram", "recv")
  /\ inbox[p] # <<>>
  /\ inbox' = [inbox EXCEPT ![p] = Tail(@)]
  /\ served' = served \cup ({Head(inbox[p])} \cap Clients)
  /\ Goto(p, IF p \in Servers THEN "send" ELSE "unlink")
  /\ UNCHANGED <<stage, ret, path, backlog, conn, peer, stream, heard>>
  /\ noFailure

-------------------------------------------------------------------------------
Step(p) ==
  \/ Bind(p) \/ Unlink(p) \/ CloseSocket(p) \/ Receive(p)
  \/ /\ p \in Servers
     /\ \/ Listen(p) \/ Accept(p) \/ ServerRead(p) \/ ServerWrite(p) \/ CloseConn(p)
        \/ ServerSend(p)
  \/ /\ p \in Clients
     /\ Connect(p) \/ ClientWrite(p) \/ ClientRead(p) \/ ClientSend(p)

Next == \E p \in Procs : Step(p) \/ CallFails(p) \/ Kill(p)

\* Every process that can run is scheduled; no call has to fail.
Fairness == \A p \in Procs : WF_vars(Step(p))

Spec == Init /\ [][Next]_vars /\ Fairness

\* The test target of the Makefile: the client is started a second after the server,
\* when that is waiting for a connection.
TestNext ==
  \E p \in Procs : /\ Step(p)
                   /\ pc[p] = "connect" => \E s \in Servers : pc[s] = "accept"

TestSpec == Init /\ [][TestNext]_vars
                 /\ \A p \in Procs : WF_vars(Step(p) /\ TestNext)

-------------------------------------------------------------------------------
(* Properties.                                                             *)

Labels == {"bind", "listen", "accept", "connect", "read", "write", "close_conn", "send",
           "recv", "unlink", "close", "exited", "killed"}

TypeOK ==
  /\ stage \in [Procs -> {"stream", "dgram"}]
  /\ pc \in [Procs -> Labels]
  /\ ret \in [Procs -> {0, 1}]
  /\ path \in [Paths -> Procs \cup {"absent", "stale"}]
  /\ backlog \in [Servers -> Seq(Clients)]
  /\ conn \in [Servers -> Clients \cup {Nobody}]
  /\ peer \in [Clients -> Servers \cup {Nobody}]
  /\ stream \in [Clients -> {"none", "REQ", "ACK"}]
  /\ inbox \in [Procs -> Seq(Procs)]
  /\ heard \subseteq Clients \cup {Nobody} /\ served \subseteq Clients
  /\ gaveup \subseteq Clients /\ stuck \subseteq Procs

\* Whatever else fails, a process that runs to its end leaves no socket file behind: a
\* path that leads nowhere was left by a process that was killed (by SIGPIPE too, which is
\* what a server gets whose client died before the answer), or by one whose unlink failed
\* and that says so: it goes no further than this part and returns an error.
NoLeftoverPath ==
  \A f \in Paths :
    /\ path[f] \in Procs => pc[path[f]] \notin {"exited", "killed"}
    /\ path[f] = "stale" =>
         \E p \in Procs : /\ PathOf(p) = f
                          /\ \/ pc[p] = "killed"
                             \/ p \in stuck /\ pc[p] = "exited" /\ ret[p] = 1

\* Nobody removes the socket file of another process, which would cut that one off
\* from its peers.
UnlinksOwnPath ==
  [][\A f \in Paths : (path[f] # "absent" /\ path'[f] = "absent") =>
       pc[path[f]] = "unlink" /\ pc'[path[f]] = "close"]_vars

\* A client that goes on to the datagram part had its request read in the stream part:
\* the end of the stream or an answer to somebody else does not count.
RequestsAreRead == \A c \in Clients : stage[c] = "dgram" => c \in heard

\* A client that ends without an error was heard in the datagram part: a server has
\* received its datagram, and the answer it read was not for another client.  The one
\* exception is what the code gets wrong: the server answers whoever is bound to
\* client_dgram (server.c:164), so after a client gave up waiting the next one to bind
\* the path may take that one's answer for its own.
AckedClientsWereServed ==
  \A c \in Clients : (pc[c] = "exited" /\ ret[c] = 0) => c \in served \/ gaveup # {}

\* No deadlock in the stream part: a server that has accepted a client gets over with it,
\* even if the client dies, and a connected client gets an answer or an error.
ConnectionsEnd ==
  /\ \A s \in Servers : At(s, "stream", "read") ~> ~At(s, "stream", "read")
  /\ \A c \in Clients : At(c, "stream", "read") ~> ~At(c, "stream", "read")

\* "make test" passes: both programs end, with exit status 0.
TestPasses == <>(\A p \in Procs : pc[p] = "exited" /\ ret[p] = 0)
===============================================================================
