--------------------------- MODULE UnixSocketProofs ---------------------------
(***************************************************************************)
(* Proofs about the unix socket programs, for any number of servers and    *)
(* clients that are started in any order, may fail and may be killed.      *)
(*                                                                         *)
(* Paths: a process is bound to its path from its bind to its unlink, and  *)
(* longer only if the unlink fails (Owners), because bind refuses a path   *)
(* that exists and a failed bind jumps over the unlink.                    *)
(*                                                                         *)
(* The stream part: a client that read an answer was accepted, and its     *)
(* server wrote that answer after it had read the request, as the last     *)
(* thing it does with it (Connections).                                    *)
(*                                                                         *)
(* The datagram part: unless a client left its path taken for good, there  *)
(* is never more than one exchange going on (Exchange), so that an answer  *)
(* reaches whom it is for; until a client gives up waiting, which frees    *)
(* the path for another one while the answer is still under way.           *)
(***************************************************************************)
EXTENDS UnixSocket, SequenceTheorems, TLAPS

ServerLabels(st) ==
  IF st = "stream"
  THEN {"bind", "listen", "accept", "read", "write", "close_conn", "unlink", "close",
        "exited", "killed"}
  ELSE {"bind", "recv", "send", "unlink", "close", "exited", "killed"}

ClientLabels(st) ==
  IF st = "stream"
  THEN {"connect", "write", "read", "close", "exited", "killed"}
  ELSE {"bind", "send", "recv", "unlink", "close", "exited", "killed"}

\* Which calls belong to which part.
Programs == /\ \A s \in Servers : pc[s] \in ServerLabels(stage[s])
            /\ \A c \in Clients : pc[c] \in ClientLabels(stage[c])

\* Between bind and unlink.
Bound(p) == \/ pc[p] \in {"listen", "accept", "close_conn", "send", "recv", "unlink"}
            \/ p \in Servers /\ pc[p] \in {"read", "write"}

\* The unlink failed, and the error is on its way to main, or main has returned it.
Leaves(p) == pc[p] = "close" /\ p \in stuck /\ ret[p] = 1
HasLeft(p) == pc[p] = "exited" /\ p \in stuck /\ ret[p] = 1

Owners ==
  /\ \A p \in Procs : Bound(p) => path[PathOf(p)] = p
  /\ \A f \in Paths : \A p \in Procs : path[f] = p => f = PathOf(p) /\ (Bound(p) \/ Leaves(p))
  /\ \A f \in Paths : path[f] = "stale" =>
       \E p \in Procs : PathOf(p) = f /\ (pc[p] = "killed" \/ HasLeft(p))

PathInv == TypeOK /\ Programs /\ Owners

-------------------------------------------------------------------------------
\* The client got through the stream part.
Answered(c) == stage[c] = "dgram" \/ (pc[c] = "close" /\ ret[c] = 0)

\* A server talks to the client it accepted, which connected to it; nobody in its
\* backlog has an answer before it accepts.
ConnOf(s) ==
  /\ conn[s] # Nobody => /\ pc[s] \in {"read", "write", "close_conn"}
                         /\ peer[conn[s]] = s
  /\ pc[s] \in {"read", "write"} => conn[s] # Nobody /\ stream[conn[s]] # "ACK"
  /\ pc[s] = "write" => conn[s] \in heard
  /\ pc[s] = "bind" => backlog[s] = <<>>
  /\ \A c \in Range(backlog[s]) :
       peer[c] = s /\ (pc[s] \in {"listen", "accept"} => stream[c] # "ACK")

StreamOf(c) ==
  /\ pc[c] = "connect" => peer[c] = Nobody /\ stream[c] = "none"
  /\ Answered(c) => stream[c] = "ACK"
  /\ stream[c] = "ACK" => c \in heard

Connections == (\A s \in Servers : ConnOf(s)) /\ (\A c \in Clients : StreamOf(c))

-------------------------------------------------------------------------------
Answering(s) == At(s, "dgram", "send")

\* Client c waits for an answer it has not got.
Waits(c) == path["client_dgram"] = c /\ pc[c] = "recv" /\ inbox[c] = <<>>

\* Nobody has asked and nobody is about to answer.
Quiet == \A s \in Servers : inbox[s] = <<>> /\ ~Answering(s)

\* The datagram of c is with s, which has not read it.
Asked(c, s) == /\ Waits(c)
               /\ inbox[s] = <<c>>
               /\ \A t \in Servers : ~Answering(t) /\ (t # s => inbox[t] = <<>>)

\* Server s has read the datagram of c and is about to answer.
Served(c, s) == /\ Waits(c)
                /\ c \in served
                /\ \A t \in Servers : inbox[t] = <<>> /\ (t # s => ~Answering(t))

Exchange == \/ path["client_dgram"] = "stale"
            \/ Quiet
            \/ \E c \in Clients, s \in Servers : Asked(c, s) \/ Served(c, s)

\* A client that goes on without an error has its answer, which only a server that has read
\* its datagram sends; main goes to the datagram part only without an error.
AnswerOf(c) ==
  /\ inbox[c] # <<>> => pc[c] \in {"recv", "unlink", "close"} /\ c \in served
  /\ (stage[c] = "dgram" /\ pc[c] \in {"unlink", "close", "exited"} /\ ret[c] = 0)
       => c \in served
  /\ (stage[c] = "stream" /\ pc[c] = "exited") => ret[c] = 1

Answers == Exchange /\ (\A c \in Clients : AnswerOf(c))

\* All of it until a client gives up waiting.
AckInv == PathInv /\ Connections /\ (gaveup = {} => Answers)

-------------------------------------------------------------------------------
(* Sequences.                                                              *)

\* The elements of a sequence after an append.
LEMMA RangeOfAppend ==
  ASSUME NEW S, NEW s \in Seq(S), NEW e \in S
  PROVE  Range(Append(s, e)) = Range(s) \cup {e}
<1>1. DOMAIN s = 1 .. Len(s) /\ DOMAIN Append(s, e) = 1 .. Len(s) + 1 /\ Len(s) \in Nat
  BY AppendProperties
<1>2. /\ \A i \in 1 .. Len(s) : Append(s, e)[i] = s[i]
      /\ Append(s, e)[Len(s) + 1] = e
  BY AppendProperties
<1>3. \A i \in 1 .. Len(s) + 1 : i \in 1 .. Len(s) \/ i = Len(s) + 1
  BY <1>1
<1>4. \A i \in 1 .. Len(s) : i \in 1 .. Len(s) + 1
  BY <1>1
<1>5. Len(s) + 1 \in 1 .. Len(s) + 1
  BY <1>1
<1>6. Range(Append(s, e)) \subseteq Range(s) \cup {e}
  BY <1>1, <1>2, <1>3 DEF Range
<1>7. Range(s) \subseteq Range(Append(s, e))
  BY <1>1, <1>2, <1>4 DEF Range
<1>8. e \in Range(Append(s, e))
  BY <1>1, <1>2, <1>5 DEF Range
<1> QED BY <1>6, <1>7, <1>8

\* The head and the rest of a sequence have its elements.
LEMMA HeadAndTail ==
  ASSUME NEW S, NEW s \in Seq(S), s # <<>>
  PROVE  Head(s) \in S /\ Head(s) \in Range(s) /\ Range(Tail(s)) \subseteq Range(s)
<1>1. Len(s) \in Nat /\ Len(s) >= 1
  BY EmptySeq
<1>2. /\ Head(s) = s[1] /\ Head(s) \in S /\ Tail(s) \in Seq(S)
      /\ Len(Tail(s)) = Len(s) - 1
  BY HeadTailProperties
<1>3. \A i \in 1 .. Len(s) - 1 : Tail(s)[i] = s[i + 1]
  BY <1>2, HeadTailProperties
<1>4. DOMAIN s = 1 .. Len(s) /\ DOMAIN Tail(s) = 1 .. Len(s) - 1
  BY <1>1, <1>2
<1>5. 1 \in 1 .. Len(s) /\ \A i \in 1 .. Len(s) - 1 : i + 1 \in 1 .. Len(s)
  BY <1>1
<1> QED BY <1>2, <1>3, <1>4, <1>5 DEF Range

-------------------------------------------------------------------------------
(* Types, and which part calls what.                                       *)

\* What a jump does.
LEMMA GotoFacts ==
  ASSUME TypeOK, NEW p \in Procs, NEW to \in Labels, Goto(p, to)
  PROVE  pc' \in [Procs -> Labels] /\ pc'[p] = to /\ \A q \in Procs \ {p} : pc'[q] = pc[q]
BY DEF TypeOK, Goto

\* A jump to a label of the part the process is in keeps everyone in his program.
LEMMA GotoPrograms ==
  ASSUME TypeOK, Programs, NEW p \in Procs, NEW to \in Labels, Goto(p, to), stage' = stage,
         p \in Servers => to \in ServerLabels(stage[p]),
         p \in Clients => to \in ClientLabels(stage[p])
  PROVE  Programs'
BY GotoFacts DEF Programs, Procs

\* Closing the sockets of p keeps the types.
LEMMA CloseSocketsTypes ==
  ASSUME TypeOK, NEW p \in Procs, CloseSockets(p)
  PROVE  /\ backlog' \in [Servers -> Seq(Clients)]
         /\ conn' \in [Servers -> Clients \cup {Nobody}]
         /\ inbox' \in [Procs -> Seq(Procs)]
         /\ path' \in [Paths -> Procs \cup {"absent", "stale"}]
         /\ UNCHANGED <<peer, stream, heard, served, gaveup, stuck>>
BY DEF TypeOK, CloseSockets, noFailure

\* Dying keeps types and programs.
LEMMA DiesTypes ==
  ASSUME TypeOK, Programs, NEW p \in Procs, Dies(p)
  PROVE  TypeOK' /\ Programs'
<1>2. TypeOK'
  BY CloseSocketsTypes DEF TypeOK, Labels, Dies, Goto
<1>3. Programs'
  BY DEF TypeOK, Programs, ServerLabels, ClientLabels, Dies, Goto, Procs
<1> QED BY <1>2, <1>3

\* The types of the sockets, of what was sent and what failed.
SocketTypes ==
  /\ backlog \in [Servers -> Seq(Clients)] /\ conn \in [Servers -> Clients \cup {Nobody}]
  /\ peer \in [Clients -> Servers \cup {Nobody}] /\ stream \in [Clients -> {"none", "REQ", "ACK"}]
  /\ inbox \in [Procs -> Seq(Procs)] /\ heard \subseteq Clients \cup {Nobody}
  /\ served \subseteq Clients /\ gaveup \subseteq Clients /\ stuck \subseteq Procs

\* A step of p to a label of the part it is in keeps types and programs.
LEMMA JumpTypes ==
  ASSUME TypeOK, Programs, NEW p \in Procs, NEW to \in Labels, Goto(p, to), stage' = stage,
         ret' = ret \/ ret' = [ret EXCEPT ![p] = 1],
         path' \in [Paths -> Procs \cup {"absent", "stale"}],
         SocketTypes',
         p \in Servers => to \in ServerLabels(stage[p]),
         p \in Clients => to \in ClientLabels(stage[p])
  PROVE  TypeOK' /\ Programs'
<1>1. ret' \in [Procs -> {0, 1}]
  BY DEF TypeOK
<1>2. pc' \in [Procs -> Labels] /\ stage' \in [Procs -> {"stream", "dgram"}]
  BY GotoFacts DEF TypeOK
<1> QED BY <1>1, <1>2, GotoPrograms DEF TypeOK, SocketTypes

\* The types that a step which leaves the sockets alone keeps.
LEMMA SocketsKept ==
  ASSUME TypeOK
  PROVE  /\ path \in [Paths -> Procs \cup {"absent", "stale"}]
         /\ stage \in [Procs -> {"stream", "dgram"}]
         /\ SocketTypes
         /\ socketsUnchanged /\ noFailure => SocketTypes'
BY DEF TypeOK, SocketTypes, socketsUnchanged, noFailure

\* The steps that server and client share keep types and programs.
LEMMA SharedTypes ==
  ASSUME TypeOK, Programs, NEW p \in Procs,
         Bind(p) \/ Unlink(p) \/ CloseSocket(p) \/ Receive(p) \/ CallFails(p) \/ Kill(p)
  PROVE  TypeOK' /\ Programs'
<1>0. /\ p \in Servers <=> p \notin Clients
      /\ PathOf(p) \in Paths
      /\ stage[p] \in {"stream", "dgram"}
  BY UnixSocketAssumption DEF Procs, PathOf, Paths, TypeOK
<1>1. CASE Bind(p)
  <2> DEFINE to == IF path[PathOf(p)] # "absent" THEN "close"
                   ELSE IF p \in Clients THEN "send"
                   ELSE IF stage[p] = "stream" THEN "listen" ELSE "recv"
  <2>1. /\ Goto(p, to) /\ pc[p] = "bind" /\ stage' = stage /\ socketsUnchanged /\ noFailure
        /\ ret' = ret \/ ret' = [ret EXCEPT ![p] = 1]
        /\ path' = path \/ path' = [path EXCEPT ![PathOf(p)] = p]
    BY <1>1 DEF Bind, AfterBindFailed, Fail
  <2>2. path' \in [Paths -> Procs \cup {"absent", "stale"}]
    BY <1>0, <2>1, SocketsKept
  <2>3. /\ to \in Labels
        /\ p \in Servers => to \in ServerLabels(stage[p])
        /\ p \in Clients => to \in ClientLabels(stage[p])
    BY <1>0, <2>1 DEF Programs, ServerLabels, ClientLabels, Labels
  <2> HIDE DEF to
  <2> QED BY <2>1, <2>2, <2>3, SocketsKept, JumpTypes
<1>2. CASE Unlink(p)
  <2>1. /\ Goto(p, "close") /\ stage' = stage /\ socketsUnchanged /\ gaveup' = gaveup
        /\ ret' = ret \/ ret' = [ret EXCEPT ![p] = 1]
        /\ path' = path \/ path' = [path EXCEPT ![PathOf(p)] = "absent"]
        /\ stuck' = stuck \/ stuck' = stuck \cup {p}
    BY <1>2 DEF Unlink, Fail
  <2>2. path' \in [Paths -> Procs \cup {"absent", "stale"}]
    BY <1>0, <2>1, SocketsKept
  <2>3. "close" \in Labels /\ \A st : "close" \in ServerLabels(st) \cap ClientLabels(st)
    BY DEF Labels, ServerLabels, ClientLabels
  <2>4. SocketTypes'
    BY <2>1, SocketsKept DEF SocketTypes, socketsUnchanged
  <2> QED BY <2>1, <2>2, <2>3, <2>4, SocketsKept, JumpTypes
<1>3. CASE CloseSocket(p)
  <2>1. /\ CloseSockets(p) /\ UNCHANGED ret
        /\ \/ Goto(p, "bind") /\ stage' = [stage EXCEPT ![p] = "dgram"]
           \/ Goto(p, "exited") /\ stage' = stage
    BY <1>3 DEF CloseSocket
  <2>2. CASE Goto(p, "bind") /\ stage' = [stage EXCEPT ![p] = "dgram"]
    <3>1. /\ stage' \in [Procs -> {"stream", "dgram"}] /\ stage'[p] = "dgram"
          /\ \A q \in Procs \ {p} : stage'[q] = stage[q]
      BY <2>2, SocketsKept
    <3>2. /\ pc' \in [Procs -> Labels] /\ pc'[p] = "bind"
          /\ \A q \in Procs \ {p} : pc'[q] = pc[q]
      BY <2>2, GotoFacts DEF Labels
    <3>3. TypeOK'
      BY <2>1, <3>1, <3>2, CloseSocketsTypes DEF TypeOK
    <3>4. "bind" \in ServerLabels("dgram") \cap ClientLabels("dgram")
      BY DEF ServerLabels, ClientLabels
    <3>5. Programs'
      BY <3>1, <3>2, <3>4 DEF Programs, Procs
    <3> QED BY <3>3, <3>5
  <2>3. CASE Goto(p, "exited") /\ stage' = stage
    <3>1. SocketTypes'
      BY <2>1, CloseSocketsTypes DEF TypeOK, SocketTypes
    <3>2. "exited" \in Labels /\ \A st : "exited" \in ServerLabels(st) \cap ClientLabels(st)
      BY DEF Labels, ServerLabels, ClientLabels
    <3> QED BY <2>1, <2>3, <3>1, <3>2, CloseSocketsTypes, JumpTypes
  <2> QED BY <2>1, <2>2, <2>3
<1>4. CASE Receive(p)
  <2>1. /\ stage[p] = "dgram" /\ inbox[p] # <<>>
        /\ UNCHANGED <<stage, ret, path, backlog, conn, peer, stream, heard, gaveup, stuck>>
        /\ inbox' = [inbox EXCEPT ![p] = Tail(@)]
        /\ served' = served \cup ({Head(inbox[p])} \cap Clients)
        /\ Goto(p, IF p \in Servers THEN "send" ELSE "unlink")
    BY <1>4 DEF Receive, At, noFailure
  <2>2. Tail(inbox[p]) \in Seq(Procs)
    BY <2>1, HeadTailProperties DEF TypeOK
  <2>3. SocketTypes'
    BY <2>1, <2>2, SocketsKept DEF SocketTypes
  <2>4. /\ {"send", "unlink"} \subseteq Labels
        /\ "send" \in ServerLabels("dgram") /\ "unlink" \in ClientLabels("dgram")
    BY DEF Labels, ServerLabels, ClientLabels
  <2> QED BY <1>0, <2>1, <2>3, <2>4, SocketsKept, JumpTypes
<1>5. CASE CallFails(p)
  <2> DEFINE to == Cleanup(p)[pc[p]]
  <2>1. /\ pc[p] \in DOMAIN Cleanup(p) /\ Goto(p, to)
        /\ ret' = [ret EXCEPT ![p] = 1] /\ UNCHANGED <<stage, path, stuck>> /\ socketsUnchanged
        /\ gaveup' = gaveup \cup {c \in Clients : c = p /\ pc[p] = "recv"}
    BY <1>5 DEF CallFails, Fail
  <2>2. to \in Labels
    BY <2>1 DEF Cleanup, ServerCleanup, ClientCleanup, Labels
  <2>3. p \in Servers => to \in ServerLabels(stage[p])
    BY <2>1 DEF Cleanup, ServerCleanup, Programs, ServerLabels
  <2>4. p \in Clients => to \in ClientLabels(stage[p])
    BY <1>0, <2>1 DEF Cleanup, ClientCleanup, Programs, ClientLabels
  <2>5. SocketTypes'
    BY <2>1, SocketsKept DEF SocketTypes, socketsUnchanged
  <2> HIDE DEF to
  <2> QED BY <2>1, <2>2, <2>3, <2>4, <2>5, SocketsKept, JumpTypes
<1>6. CASE Kill(p)
  BY <1>6, DiesTypes DEF Kill
<1> QED BY <1>1, <1>2, <1>3, <1>4, <1>5, <1>6

\* A datagram that is sent keeps the types.
LEMMA SendToTypes ==
  ASSUME TypeOK, Programs, NEW p \in Procs, NEW f \in Paths, NEW next \in Labels,
         SendTo(p, f, next), stage[p] = "dgram",
         p \in Servers => next \in ServerLabels("dgram"),
         p \in Clients => next \in ClientLabels("dgram")
  PROVE  TypeOK' /\ Programs'
<1>1. UNCHANGED <<stage, path, backlog, conn, peer, stream, heard, served, gaveup, stuck>>
  BY DEF SendTo, noFailure
<1>2. "unlink" \in Labels /\ "unlink" \in ServerLabels("dgram") \cap ClientLabels("dgram")
  BY DEF Labels, ServerLabels, ClientLabels
<1>3. CASE path[f] \in Procs
  <2>1. inbox' = [inbox EXCEPT ![path[f]] = Append(@, p)] /\ Goto(p, next) /\ ret' = ret
    BY <1>3 DEF SendTo
  <2>2. Append(inbox[path[f]], p) \in Seq(Procs)
    BY <1>3, AppendProperties DEF TypeOK
  <2>3. inbox' \in [Procs -> Seq(Procs)]
    BY <1>3, <2>1, <2>2 DEF TypeOK
  <2>4. SocketTypes'
    BY <1>1, <2>3, SocketsKept DEF SocketTypes
  <2> QED BY <1>1, <2>1, <2>4, SocketsKept, JumpTypes
<1>4. CASE path[f] \notin Procs
  <2>1. inbox' = inbox /\ Goto(p, "unlink") /\ ret' = [ret EXCEPT ![p] = 1]
    BY <1>4 DEF SendTo, Fail
  <2>2. SocketTypes'
    BY <1>1, <2>1, SocketsKept DEF SocketTypes
  <2> QED BY <1>1, <1>2, <2>1, <2>2, SocketsKept, JumpTypes
<1> QED BY <1>3, <1>4

\* The steps of a server keep types and programs.
LEMMA ServerTypes ==
  ASSUME TypeOK, Programs, NEW s \in Servers,
         Listen(s) \/ Accept(s) \/ ServerRead(s) \/ ServerWrite(s) \/ CloseConn(s) \/ ServerSend(s)
  PROVE  TypeOK' /\ Programs'
<1>0. s \in Procs /\ s \notin Clients
  BY UnixSocketAssumption DEF Procs
<1>1. {"accept", "read", "write", "close_conn", "unlink"}
        \subseteq Labels \cap ServerLabels("stream")
  BY DEF Labels, ServerLabels
<1>2. CASE Dies(s)
  BY <1>0, <1>2, DiesTypes
<1>3. CASE ServerSend(s)
  <2>1. /\ "client_dgram" \in Paths /\ "unlink" \in Labels
        /\ "unlink" \in ServerLabels("dgram")
    BY DEF Paths, Labels, ServerLabels
  <2> QED BY <1>0, <1>3, <2>1, SendToTypes DEF ServerSend, At
<1>4. CASE ~Dies(s) /\ ~ServerSend(s)
  <2>1. /\ stage[s] = "stream" /\ UNCHANGED <<stage, path, peer, inbox, served, gaveup, stuck>>
        /\ ret' = ret \/ ret' = [ret EXCEPT ![s] = 1]
    BY <1>4 DEF Listen, Accept, ServerRead, ServerWrite, CloseConn, At, Fail, socketsUnchanged,
                noFailure
  <2>2. PICK to \in {"accept", "read", "write", "close_conn", "unlink"} : Goto(s, to)
    BY <1>4 DEF Listen, Accept, ServerRead, ServerWrite, CloseConn, Fail, ServerCleanup
  <2>3. backlog' \in [Servers -> Seq(Clients)] /\ conn' \in [Servers -> Clients \cup {Nobody}]
    <3>1. CASE Accept(s)
      <4>1. Head(backlog[s]) \in Clients /\ Tail(backlog[s]) \in Seq(Clients)
        BY <3>1, HeadTailProperties DEF Accept, TypeOK
      <4>2. /\ conn' = [conn EXCEPT ![s] = Head(backlog[s])]
            /\ backlog' = [backlog EXCEPT ![s] = Tail(@)]
        BY <3>1 DEF Accept
      <4> QED BY <4>1, <4>2, SocketsKept DEF SocketTypes
    <3>2. CASE CloseConn(s)
      BY <3>2, SocketsKept DEF CloseConn, SocketTypes
    <3>3. CASE ~Accept(s) /\ ~CloseConn(s)
      <4>1. UNCHANGED <<backlog, conn>>
        BY <1>4, <3>3 DEF Listen, ServerRead, ServerWrite, socketsUnchanged
      <4> QED BY <4>1, SocketsKept DEF SocketTypes
    <3> QED BY <3>1, <3>2, <3>3
  <2>4. stream' \in [Clients -> {"none", "REQ", "ACK"}]
    <3>1. \/ stream' = stream
          \/ \E e \in {"none", "ACK"} : stream' = [stream EXCEPT ![conn[s]] = e]
      BY <1>4 DEF Listen, Accept, ServerRead, ServerWrite, CloseConn, socketsUnchanged
    <3> QED BY <3>1, SocketsKept DEF SocketTypes
  <2>5. heard' \subseteq Clients \cup {Nobody}
    <3>1. heard' = heard \/ heard' = heard \cup {conn[s]}
      BY <1>4 DEF Listen, Accept, ServerRead, ServerWrite, CloseConn, socketsUnchanged
    <3> QED BY <3>1, SocketsKept DEF SocketTypes
  <2>6. SocketTypes'
    BY <2>1, <2>3, <2>4, <2>5, SocketsKept DEF SocketTypes
  <2> QED BY <1>0, <1>1, <2>1, <2>2, <2>6, SocketsKept, JumpTypes
<1> QED BY <1>2, <1>3, <1>4

\* The steps of a client keep types and programs.
LEMMA ClientTypes ==
  ASSUME TypeOK, Programs, NEW c \in Clients,
         Connect(c) \/ ClientWrite(c) \/ ClientRead(c) \/ ClientSend(c)
  PROVE  TypeOK' /\ Programs'
<1>0. c \in Procs /\ c \notin Servers
  BY UnixSocketAssumption DEF Procs
<1>1. {"write", "read", "close"} \subseteq Labels \cap ClientLabels("stream")
  BY DEF Labels, ClientLabels
<1>2. CASE Dies(c)
  BY <1>0, <1>2, DiesTypes
<1>3. CASE ClientSend(c)
  <2>1. "server_dgram" \in Paths /\ "recv" \in Labels /\ "recv" \in ClientLabels("dgram")
    BY DEF Paths, Labels, ClientLabels
  <2> QED BY <1>0, <1>3, <2>1, SendToTypes DEF ClientSend, At
<1>4. CASE ~Dies(c) /\ ~ClientSend(c)
  <2>1. /\ stage[c] = "stream"
        /\ UNCHANGED <<stage, path, conn, inbox, heard, served, gaveup, stuck>>
        /\ ret' = ret \/ ret' = [ret EXCEPT ![c] = 1]
    BY <1>4 DEF Connect, ClientWrite, ClientRead, At, Fail, socketsUnchanged, noFailure
  <2>2. PICK to \in {"write", "read", "close"} : Goto(c, to)
    BY <1>4 DEF Connect, ClientWrite, ClientRead, Fail, ClientCleanup
  <2>3. /\ backlog' \in [Servers -> Seq(Clients)]
        /\ peer' \in [Clients -> Servers \cup {Nobody}]
    <3>1. \/ UNCHANGED <<backlog, peer>>
          \/ \E s \in Servers : /\ backlog' = [backlog EXCEPT ![s] = Append(@, c)]
                                /\ peer' = [peer EXCEPT ![c] = s]
      BY <1>4 DEF Connect, ClientWrite, ClientRead, socketsUnchanged
    <3>2. \A s \in Servers : Append(backlog[s], c) \in Seq(Clients)
      BY AppendProperties DEF TypeOK
    <3>3. CASE UNCHANGED <<backlog, peer>>
      BY <3>3, SocketsKept DEF SocketTypes
    <3>4. ASSUME NEW s \in Servers, backlog' = [backlog EXCEPT ![s] = Append(@, c)],
                 peer' = [peer EXCEPT ![c] = s]
          PROVE  /\ backlog' \in [Servers -> Seq(Clients)]
                 /\ peer' \in [Clients -> Servers \cup {Nobody}]
      BY <3>2, <3>4, SocketsKept DEF SocketTypes
    <3> QED BY <3>1, <3>3, <3>4
  <2>4. stream' \in [Clients -> {"none", "REQ", "ACK"}]
    <3>1. stream' = stream \/ stream' = [stream EXCEPT ![c] = "REQ"]
      BY <1>4 DEF Connect, ClientWrite, ClientRead, Request, socketsUnchanged
    <3> QED BY <3>1, SocketsKept DEF SocketTypes
  <2>5. SocketTypes'
    BY <2>1, <2>3, <2>4, SocketsKept DEF SocketTypes
  <2> QED BY <1>0, <1>1, <2>1, <2>2, <2>5, SocketsKept, JumpTypes
<1> QED BY <1>2, <1>3, <1>4

-------------------------------------------------------------------------------
(* Paths.                                                                  *)

\* A step that neither binds nor unlinks leaves every path with its owner.
LEMMA SameOwners ==
  ASSUME PathInv, NEW p \in Procs, NEW to \in Labels, Goto(p, to),
         pc[p] \notin {"killed", "close", "exited"}, UNCHANGED <<stage, path, stuck>>,
         \A q \in Procs \ {p} : ret'[q] = ret[q],
         Bound(p) <=> \/ to \in {"listen", "accept", "close_conn", "send", "recv", "unlink"}
                      \/ p \in Servers /\ to \in {"read", "write"}
  PROVE  Owners'
<1>1. pc'[p] = to /\ \A q \in Procs \ {p} : pc'[q] = pc[q]
  BY GotoFacts DEF PathInv
<1>2. \A q \in Procs : Bound(q)' <=> Bound(q)
  BY <1>1 DEF Bound
<1>3. \A q \in Procs : PathOf(q)' = PathOf(q)
  BY DEF PathOf
<1>4. \A q \in Procs : /\ pc[q] = "killed" => pc'[q] = "killed"
                       /\ Leaves(q) => Leaves(q)'
                       /\ HasLeft(q) => HasLeft(q)'
  BY <1>1 DEF Leaves, HasLeft
<1> QED BY <1>2, <1>3, <1>4 DEF PathInv, Owners

\* The path of a process is one of the three; a client's is never a server's.
LEMMA PathOfFacts ==
  ASSUME NEW p \in Procs
  PROVE  /\ PathOf(p) \in Paths
         /\ p \in Clients <=> PathOf(p) = "client_dgram"
         /\ p \in Servers => PathOf(p) \in {"server_stream", "server_dgram"}
         /\ p # "absent" /\ p # "stale"
BY UnixSocketAssumption DEF PathOf, Paths, Procs

\* A process that dies leaves its path behind, stale.
LEMMA DiesOwners ==
  ASSUME PathInv, NEW p \in Procs, Dies(p)
  PROVE  Owners'
<1>1. pc'[p] = "killed" /\ \A q \in Procs \ {p} : pc'[q] = pc[q]
  BY GotoFacts DEF PathInv, Dies, Labels
<1>2. \A f \in Paths : path'[f] = IF path[f] = p THEN "stale" ELSE path[f]
  BY DEF Dies, CloseSockets
<1>3. \A q \in Procs : PathOf(q)' = PathOf(q) /\ PathOf(q) \in Paths /\ q # "stale"
  BY PathOfFacts DEF PathOf, Dies
<1>4. ~Bound(p)' /\ \A q \in Procs \ {p} : Bound(q)' <=> Bound(q)
  BY <1>1 DEF Bound
<1>5. \A q \in Procs \ {p} : (Leaves(q) => Leaves(q)') /\ (HasLeft(q) => HasLeft(q)')
  BY <1>1 DEF Leaves, HasLeft, Dies, CloseSockets, noFailure
<1>6. \A q \in Procs : Bound(q)' => path'[PathOf(q)'] = q
  BY <1>2, <1>3, <1>4 DEF PathInv, Owners
<1>7. \A f \in Paths : \A q \in Procs :
        path'[f] = q => f = PathOf(q)' /\ (Bound(q)' \/ Leaves(q)')
  BY <1>2, <1>3, <1>4, <1>5 DEF PathInv, Owners
<1>8. ASSUME NEW f \in Paths, path'[f] = "stale"
      PROVE  \E q \in Procs : PathOf(q)' = f /\ (pc'[q] = "killed" \/ HasLeft(q)')
  <2>1. CASE path[f] = p
    BY <1>1, <1>3, <2>1 DEF PathInv, Owners
  <2>2. CASE path[f] # p
    <3>1. PICK q \in Procs : PathOf(q) = f /\ (pc[q] = "killed" \/ HasLeft(q))
      BY <1>2, <1>8, <2>2 DEF PathInv, Owners
    <3>2. pc'[q] = "killed" \/ HasLeft(q)'
      BY <1>1, <1>5, <3>1
    <3> QED BY <1>3, <3>1, <3>2
  <2> QED BY <2>1, <2>2
<1> QED BY <1>6, <1>7, <1>8 DEF Owners

\* The steps that server and client share keep every path with its owner.
LEMMA SharedOwners ==
  ASSUME PathInv, NEW p \in Procs,
         Bind(p) \/ Unlink(p) \/ CloseSocket(p) \/ Receive(p) \/ CallFails(p) \/ Kill(p)
  PROVE  Owners'
<1> USE DEF PathInv
<1>1. CASE Bind(p)
  <2>1. CASE path[PathOf(p)] = "absent"
    <3> DEFINE to == IF p \in Clients THEN "send"
                     ELSE IF stage[p] = "stream" THEN "listen" ELSE "recv"
    <3>1. Goto(p, to) /\ to \in {"send", "listen", "recv"} /\ stage' = stage
      BY <1>1, <2>1 DEF Bind
    <3>2. path' = [path EXCEPT ![PathOf(p)] = p]
      BY <1>1, <2>1 DEF Bind
    <3> HIDE DEF to
    <3>3. pc'[p] = to /\ \A q \in Procs \ {p} : pc'[q] = pc[q]
      BY <3>1, GotoFacts DEF Labels
    <3>4. Bound(p)' /\ (\A q \in Procs \ {p} : Bound(q)' <=> Bound(q))
      BY <3>1, <3>3 DEF Bound
    <3>5. \A q \in Procs : PathOf(q)' = PathOf(q) /\ PathOf(q) \in Paths /\ q # "absent"
      BY <3>1, PathOfFacts DEF PathOf
    <3>6. \A f \in Paths : path'[f] = IF f = PathOf(p) THEN p ELSE path[f]
      BY <3>2 DEF TypeOK
    <3>9. \A q \in Procs : /\ pc[q] = "killed" => pc'[q] = "killed"
                           /\ Leaves(q) => Leaves(q)'
                           /\ HasLeft(q) => HasLeft(q)'
      BY <1>1, <2>1, <3>3 DEF Bind, noFailure, Leaves, HasLeft
    <3>7. \A q \in Procs : Bound(q)' => path'[PathOf(q)'] = q
      BY <2>1, <3>4, <3>5, <3>6 DEF Owners
    <3>8. \A f \in Paths : \A q \in Procs :
            path'[f] = q => f = PathOf(q)' /\ (Bound(q)' \/ Leaves(q)')
      BY <3>4, <3>5, <3>6, <3>9 DEF Owners
    <3>10. p # "stale"
      BY PathOfFacts
    <3> QED BY <3>5, <3>6, <3>7, <3>8, <3>9, <3>10 DEF Owners
  <2>2. CASE path[PathOf(p)] # "absent"
    <3>1. /\ Goto(p, "close") /\ ~Bound(p) /\ pc[p] = "bind"
          /\ UNCHANGED <<stage, path, stuck>> /\ ret' = [ret EXCEPT ![p] = 1]
      BY <1>1, <2>2 DEF Bind, Fail, AfterBindFailed, Bound, noFailure
    <3>2. \A q \in Procs \ {p} : ret'[q] = ret[q]
      BY <3>1 DEF TypeOK
    <3> QED BY <3>1, <3>2, SameOwners DEF Labels
  <2> QED BY <2>1, <2>2
<1>2. CASE Unlink(p)
  <2>1. Goto(p, "close") /\ pc[p] = "unlink" /\ stage' = stage
    BY <1>2 DEF Unlink, Fail
  <2>2. pc'[p] = "close" /\ \A q \in Procs \ {p} : pc'[q] = pc[q]
    BY <2>1, GotoFacts DEF Labels
  <2>3. ~Bound(p)' /\ (\A q \in Procs \ {p} : Bound(q)' <=> Bound(q))
    BY <2>2 DEF Bound
  <2>4. \A q \in Procs : /\ PathOf(q)' = PathOf(q) /\ PathOf(q) \in Paths
                         /\ q # "absent" /\ q # "stale"
    BY <2>1, PathOfFacts DEF PathOf
  <2>5. \/ /\ path' = [path EXCEPT ![PathOf(p)] = "absent"] /\ UNCHANGED <<ret, stuck>>
        \/ path' = path /\ ret' = [ret EXCEPT ![p] = 1] /\ stuck' = stuck \cup {p}
    BY <1>2 DEF Unlink, Fail
  <2>6. path[PathOf(p)] = p
    BY <2>1 DEF Bound, Owners
  <2>7. \A q \in Procs \ {p} : ret'[q] = ret[q] /\ (q \in stuck => q \in stuck')
    BY <2>5 DEF TypeOK
  <2>8. \A q \in Procs : /\ pc[q] = "killed" => pc'[q] = "killed"
                         /\ q # p /\ Leaves(q) => Leaves(q)'
                         /\ HasLeft(q) => HasLeft(q)'
    BY <2>1, <2>2, <2>7 DEF Leaves, HasLeft
  <2>9. CASE path' = [path EXCEPT ![PathOf(p)] = "absent"]
    <3>1. \A f \in Paths : path'[f] = IF f = PathOf(p) THEN "absent" ELSE path[f]
      BY <2>9 DEF TypeOK
    <3>2. \A q \in Procs : Bound(q)' => path'[PathOf(q)'] = q
      BY <2>3, <2>4, <2>6, <3>1 DEF Owners
    <3>3. \A f \in Paths : \A q \in Procs :
            path'[f] = q => f = PathOf(q)' /\ (Bound(q)' \/ Leaves(q)')
      BY <2>3, <2>4, <2>8, <3>1 DEF Owners
    <3>4. \A f \in Paths : path'[f] = "stale" => path[f] = "stale"
      BY <3>1
    <3> QED BY <2>4, <2>8, <3>2, <3>3, <3>4 DEF Owners
  <2>10. CASE path' = path /\ ret' = [ret EXCEPT ![p] = 1] /\ stuck' = stuck \cup {p}
    <3>1. Leaves(p)'
      BY <2>2, <2>10 DEF Leaves, TypeOK
    <3>2. \A q \in Procs : Bound(q)' => path'[PathOf(q)'] = q
      BY <2>3, <2>4, <2>10 DEF Owners
    <3>3. \A f \in Paths : \A q \in Procs :
            path'[f] = q => f = PathOf(q)' /\ (Bound(q)' \/ Leaves(q)')
      BY <2>3, <2>4, <2>8, <2>10, <3>1 DEF Owners
    <3> QED BY <2>4, <2>8, <2>10, <3>2, <3>3 DEF Owners
  <2> QED BY <2>5, <2>9, <2>10
<1>3. CASE CloseSocket(p)
  <2>1. /\ pc[p] = "close" /\ UNCHANGED <<ret, stuck>>
        /\ \A q \in Procs \ {p} : stage'[q] = stage[q]
    BY <1>3 DEF CloseSocket, CloseSockets, noFailure, TypeOK
  <2>2. pc'[p] \in {"bind", "exited"} /\ \A q \in Procs \ {p} : pc'[q] = pc[q]
    BY <1>3, GotoFacts DEF CloseSocket, Labels
  <2>3. ~Bound(p) /\ ~Bound(p)' /\ (\A q \in Procs \ {p} : Bound(q)' <=> Bound(q))
    BY <2>1, <2>2 DEF Bound
  <2>4. \A q \in Procs \ {p} : PathOf(q)' = PathOf(q) /\ PathOf(q) \in Paths /\ q # "stale"
    BY <2>1, PathOfFacts DEF PathOf
  <2>5. \A f \in Paths : path'[f] = IF path[f] = p THEN "stale" ELSE path[f]
    BY <1>3 DEF CloseSocket, CloseSockets
  <2>6. ASSUME NEW f \in Paths, path[f] = p PROVE f = PathOf(p)' /\ HasLeft(p)'
    <3>1. f = PathOf(p) /\ Leaves(p)
      BY <2>3, <2>6 DEF Owners
    <3>2. Goto(p, "exited") /\ stage' = stage
      BY <1>3, <3>1 DEF CloseSocket, Leaves
    <3>3. pc'[p] = "exited" /\ PathOf(p)' = PathOf(p)
      BY <3>2, GotoFacts DEF Labels, PathOf
    <3> QED BY <2>1, <3>1, <3>3 DEF Leaves, HasLeft
  <2>7. \A q \in Procs \ {p} : /\ pc[q] = "killed" => pc'[q] = "killed"
                               /\ Leaves(q) => Leaves(q)'
                               /\ HasLeft(q) => HasLeft(q)'
    BY <2>1, <2>2 DEF Leaves, HasLeft
  <2>8. ~HasLeft(p) /\ pc[p] # "killed" /\ p # "stale"
    BY <2>1, PathOfFacts DEF HasLeft
  <2>9. \A q \in Procs : Bound(q)' => path'[PathOf(q)'] = q
    BY <2>3, <2>4, <2>5 DEF Owners
  <2>10. \A f \in Paths : \A q \in Procs :
          path'[f] = q => f = PathOf(q)' /\ (Bound(q)' \/ Leaves(q)')
    BY <2>3, <2>4, <2>5, <2>7, <2>8 DEF Owners
  <2>11. ASSUME NEW f \in Paths, path'[f] = "stale"
         PROVE  \E q \in Procs : PathOf(q)' = f /\ (pc'[q] = "killed" \/ HasLeft(q)')
    <3>1. CASE path[f] = p
      BY <2>6, <3>1
    <3>2. CASE path[f] # p
      <4>1. PICK q \in Procs : PathOf(q) = f /\ (pc[q] = "killed" \/ HasLeft(q))
        BY <2>5, <2>11, <3>2 DEF Owners
      <4>2. q # p
        BY <2>8, <4>1
      <4> QED BY <2>4, <2>7, <4>1, <4>2
    <3> QED BY <3>1, <3>2
  <2> QED BY <2>9, <2>10, <2>11 DEF Owners
<1>4. CASE Receive(p)
  <2> DEFINE to == IF p \in Servers THEN "send" ELSE "unlink"
  <2>1. /\ Goto(p, to) /\ to \in {"send", "unlink"} /\ pc[p] = "recv"
        /\ UNCHANGED <<stage, path, stuck, ret>>
    BY <1>4 DEF Receive, At, noFailure
  <2> HIDE DEF to
  <2> QED BY <2>1, SameOwners DEF Bound, Labels
<1>5. CASE CallFails(p)
  <2> DEFINE to == Cleanup(p)[pc[p]]
  <2>1. /\ Goto(p, to) /\ pc[p] \in DOMAIN Cleanup(p) /\ UNCHANGED <<stage, path, stuck>>
        /\ \A q \in Procs \ {p} : ret'[q] = ret[q]
    BY <1>5 DEF CallFails, Fail, TypeOK
  <2>2. CASE p \in Servers
    <3>1. pc[p] \in {"listen", "accept", "read", "write", "recv", "send"}
          /\ to \in {"close_conn", "unlink"}
      BY <2>1, <2>2 DEF Cleanup, ServerCleanup
    <3> HIDE DEF to
    <3> QED BY <2>1, <2>2, <3>1, SameOwners DEF Bound, Labels
  <2>3. CASE p \in Clients
    <3>1. \/ pc[p] \in {"connect", "read", "write"} /\ to = "close"
          \/ pc[p] \in {"recv", "send"} /\ to = "unlink"
      BY <2>1, <2>3, UnixSocketAssumption DEF Cleanup, ClientCleanup
    <3> HIDE DEF to
    <3> QED BY <2>1, <2>3, <3>1, SameOwners, UnixSocketAssumption DEF Bound, Labels
  <2> QED BY <2>2, <2>3 DEF Procs
<1>6. CASE Kill(p)
  BY <1>6, DiesOwners DEF Kill
<1> QED BY <1>1, <1>2, <1>3, <1>4, <1>5, <1>6

\* The steps of a server keep every path with its owner.
LEMMA ServerOwners ==
  ASSUME PathInv, NEW s \in Servers,
         Listen(s) \/ Accept(s) \/ ServerRead(s) \/ ServerWrite(s) \/ CloseConn(s) \/ ServerSend(s)
  PROVE  Owners'
<1>1. CASE Dies(s)
  BY <1>1, DiesOwners DEF Procs
<1>2. CASE ~Dies(s)
  <2>1. /\ pc[s] \in {"listen", "accept", "read", "write", "close_conn", "send"}
        /\ UNCHANGED <<stage, path, stuck>>
        /\ ret' = ret \/ ret' = [ret EXCEPT ![s] = 1]
    BY <1>2 DEF Listen, Accept, ServerRead, ServerWrite, CloseConn, ServerSend, SendTo, At,
                Fail, noFailure
  <2>2. \E to \in {"accept", "read", "write", "close_conn", "unlink"} : Goto(s, to)
    BY <1>2 DEF Listen, Accept, ServerRead, ServerWrite, CloseConn, ServerSend, SendTo, Fail,
                ServerCleanup
  <2>3. \A q \in Procs \ {s} : ret'[q] = ret[q]
    BY <2>1 DEF PathInv, TypeOK
  <2> QED BY <2>1, <2>2, <2>3, SameOwners DEF Bound, Procs, Labels
<1> QED BY <1>1, <1>2

\* The steps of a client keep every path with its owner.
LEMMA ClientOwners ==
  ASSUME PathInv, NEW c \in Clients,
         Connect(c) \/ ClientWrite(c) \/ ClientRead(c) \/ ClientSend(c)
  PROVE  Owners'
<1>1. CASE Dies(c)
  BY <1>1, DiesOwners DEF Procs
<1>2. CASE ~Dies(c) /\ ~ClientSend(c)
  <2>1. /\ pc[c] \in {"connect", "read", "write"} /\ UNCHANGED <<stage, path, stuck>>
        /\ ret' = ret \/ ret' = [ret EXCEPT ![c] = 1]
    BY <1>2 DEF Connect, ClientWrite, ClientRead, At, socketsUnchanged, Fail, noFailure
  <2>2. \E to \in {"read", "write", "close"} : Goto(c, to)
    BY <1>2 DEF Connect, ClientWrite, ClientRead, Fail, ClientCleanup
  <2>3. \A q \in Procs \ {c} : ret'[q] = ret[q]
    BY <2>1 DEF PathInv, TypeOK
  <2> QED BY <2>1, <2>2, <2>3, SameOwners, UnixSocketAssumption DEF Bound, Procs, Labels
<1>3. CASE ClientSend(c)
  <2>1. /\ pc[c] = "send" /\ UNCHANGED <<stage, path, stuck>>
        /\ ret' = ret \/ ret' = [ret EXCEPT ![c] = 1]
    BY <1>3 DEF ClientSend, SendTo, At, Fail, noFailure
  <2>2. \E to \in {"recv", "unlink"} : Goto(c, to)
    BY <1>3 DEF ClientSend, SendTo, Fail
  <2>3. \A q \in Procs \ {c} : ret'[q] = ret[q]
    BY <2>1 DEF PathInv, TypeOK
  <2> QED BY <2>1, <2>2, <2>3, SameOwners DEF Bound, Procs, Labels
<1> QED BY <1>1, <1>2, <1>3

\* PathInv is inductive.
LEMMA PathStep == PathInv /\ [Next]_vars => PathInv'
<1> SUFFICES ASSUME PathInv, [Next]_vars PROVE PathInv'
  OBVIOUS
<1>0. TypeOK /\ Programs
  BY DEF PathInv
<1>1. ASSUME NEW p \in Procs,
             Bind(p) \/ Unlink(p) \/ CloseSocket(p) \/ Receive(p) \/ CallFails(p) \/ Kill(p)
      PROVE  PathInv'
  BY <1>0, <1>1, SharedTypes, SharedOwners DEF PathInv
<1>2. ASSUME NEW s \in Servers, Listen(s) \/ Accept(s) \/ ServerRead(s) \/ ServerWrite(s)
                                \/ CloseConn(s) \/ ServerSend(s)
      PROVE  PathInv'
  BY <1>0, <1>2, ServerTypes, ServerOwners DEF PathInv
<1>3. ASSUME NEW c \in Clients, Connect(c) \/ ClientWrite(c) \/ ClientRead(c) \/ ClientSend(c)
      PROVE  PathInv'
  BY <1>0, <1>3, ClientTypes, ClientOwners DEF PathInv
<1>4. CASE UNCHANGED vars
  BY <1>4 DEF vars, PathInv, TypeOK, Programs, Owners, Bound, Leaves, HasLeft, PathOf
<1> QED BY <1>1, <1>2, <1>3, <1>4 DEF Next, Step

\* PathInv holds initially.
LEMMA PathInit == Init => PathInv
<1> SUFFICES ASSUME Init PROVE PathInv
  OBVIOUS
<1> USE UnixSocketAssumption DEF Init
<1>1. TypeOK
  <2>1. <<>> \in Seq(Clients) /\ <<>> \in Seq(Procs)
    BY EmptySeq
  <2> QED BY <2>1 DEF TypeOK, Labels
<1>2. Programs
  BY DEF Programs, ServerLabels, ClientLabels, Procs
<1>3. \A p \in Procs : ~Bound(p)
  BY DEF Bound
<1>4. Owners
  BY <1>3, PathOfFacts DEF Owners
<1> QED BY <1>1, <1>2, <1>4 DEF PathInv

\* No process removes the socket file of another one: whoever owns a path that goes away
\* is the process that unlinks it.
THEOREM UnixUnlinksOwnPath == Spec => UnlinksOwnPath
<1>1. PathInv /\ [Next]_vars =>
        [\A f \in Paths : (path[f] # "absent" /\ path'[f] = "absent") =>
           pc[path[f]] = "unlink" /\ pc'[path[f]] = "close"]_vars
  <2> SUFFICES ASSUME PathInv, [Next]_vars, NEW f \in Paths,
                      path[f] # "absent", path'[f] = "absent"
               PROVE  pc[path[f]] = "unlink" /\ pc'[path[f]] = "close"
    OBVIOUS
  <2>1. PICK p \in Procs : Step(p) \/ CallFails(p) \/ Kill(p)
    BY DEF Next, vars
  <2>2. p # "absent" /\ PathOf(p) \in Paths
    BY PathOfFacts
  <2>3. Unlink(p)
    <3>1. ~CloseSockets(p)
      BY <2>2 DEF CloseSockets
    <3>2. path' # path
      OBVIOUS
    <3>3. ~Bind(p)
      <4> SUFFICES ASSUME Bind(p) PROVE FALSE
        OBVIOUS
      <4>1. path' = [path EXCEPT ![PathOf(p)] = p]
        BY <3>2 DEF Bind
      <4> QED BY <2>2, <4>1 DEF PathInv, TypeOK
    <3> QED BY <2>1, <3>1, <3>2, <3>3
            DEF Step, CallFails, Kill, Dies, CloseSocket, Receive, Listen, Accept, ServerRead,
                ServerWrite, CloseConn, ServerSend, SendTo, Connect, ClientWrite, ClientRead,
                ClientSend
  <2>4. f = PathOf(p) /\ pc[p] = "unlink" /\ Goto(p, "close")
    BY <2>2, <2>3 DEF Unlink, Fail, PathInv, TypeOK
  <2>5. path[f] = p
    BY <2>4 DEF PathInv, Owners, Bound
  <2> QED BY <2>4, <2>5, GotoFacts DEF PathInv, Labels
<1> QED BY <1>1, PathInit, PathStep, PTL DEF Spec, UnlinksOwnPath

\* Types and owners of paths are kept in every behaviour.
THEOREM UnixPathInvariant == Spec => []PathInv
BY PathInit, PathStep, PTL DEF Spec

\* Every variable keeps its type, however many servers and clients there are and whatever
\* fails.
THEOREM UnixTypeOK == Spec => []TypeOK
<1>1. PathInv => TypeOK
  BY DEF PathInv
<1> QED BY <1>1, UnixPathInvariant, PTL

\* A process that runs to its end leaves no socket file, through whatever error path; a file
\* that leads nowhere was left by a process that was killed or whose unlink failed, which
\* it reports.
THEOREM UnixNoLeftoverPath == Spec => []NoLeftoverPath
<1>1. PathInv => NoLeftoverPath
  <2>1. ASSUME PathInv, NEW f \in Paths, path[f] \in Procs
        PROVE  pc[path[f]] \notin {"exited", "killed"}
    <3>1. Bound(path[f]) \/ Leaves(path[f])
      BY <2>1 DEF PathInv, Owners
    <3> QED BY <3>1 DEF Bound, Leaves
  <2> QED BY <2>1 DEF PathInv, Owners, HasLeft, NoLeftoverPath
<1> QED BY <1>1, UnixPathInvariant, PTL

-------------------------------------------------------------------------------
(* The stream part.                                                        *)

\* A jump of p that leaves all connections alone keeps them, if p goes on with what it
\* has: a server with its client, a client with the answer it got.
LEMMA JumpConnections ==
  ASSUME PathInv, Connections, NEW p \in Procs, NEW to \in Labels, Goto(p, to),
         UNCHANGED <<backlog, conn, peer, stream, heard>>,
         \A q \in Procs \ {p} : stage'[q] = stage[q] /\ ret'[q] = ret[q],
         p \in Servers =>
           /\ conn[p] # Nobody => to \in {"read", "write", "close_conn"}
           /\ to \notin {"read", "write", "bind"}
           /\ to \in {"listen", "accept"} => pc[p] = "listen" \/ backlog[p] = <<>>,
         p \in Clients => to # "connect" /\ (Answered(p)' => stream[p] = "ACK")
  PROVE  Connections'
<1>1. pc'[p] = to /\ \A q \in Procs \ {p} : pc'[q] = pc[q]
  BY GotoFacts DEF PathInv
<1>2. \A s \in Servers \ {p} : ConnOf(s)'
  BY <1>1 DEF Connections, ConnOf, Procs
<1>3. \A c \in Clients \ {p} : StreamOf(c)'
  BY <1>1 DEF Connections, StreamOf, Answered, Procs
<1>4. ASSUME p \in Servers PROVE ConnOf(p)'
  <2>1. backlog[p] = <<>> => Range(backlog[p]) = {}
    BY DEF Range
  <2> QED BY <1>1, <1>4, <2>1 DEF Connections, ConnOf
<1>5. p \in Clients => StreamOf(p)'
  BY <1>1 DEF Connections, StreamOf
<1> QED BY <1>2, <1>3, <1>4, <1>5 DEF Connections

\* Closing the sockets of p ends the connections of p and no other.
LEMMA CloseConnections ==
  ASSUME PathInv, Connections, NEW p \in Procs, CloseSockets(p),
         NEW to \in {"bind", "exited", "killed"}, Goto(p, to),
         \A q \in Procs \ {p} : stage'[q] = stage[q] /\ ret'[q] = ret[q],
         p \in Clients => (Answered(p)' => stream[p] = "ACK")
  PROVE  Connections'
<1>1. pc'[p] = to /\ \A q \in Procs \ {p} : pc'[q] = pc[q]
  BY GotoFacts DEF PathInv, Labels
<1>2. \A s \in Servers \ {p} : conn'[s] = conn[s] /\ backlog'[s] = backlog[s]
  BY DEF CloseSockets
<1>3. UNCHANGED <<peer, stream, heard>>
  BY DEF CloseSockets
<1>4. \A s \in Servers \ {p} : ConnOf(s)'
  BY <1>1, <1>2, <1>3 DEF Connections, ConnOf, Procs
<1>5. \A c \in Clients \ {p} : StreamOf(c)'
  BY <1>1, <1>3 DEF Connections, StreamOf, Answered, Procs
<1>6. ASSUME p \in Servers PROVE ConnOf(p)'
  <2>1. conn'[p] = Nobody /\ backlog'[p] = <<>>
    BY <1>6 DEF CloseSockets
  <2>2. Range(backlog'[p]) = {}
    BY <2>1 DEF Range
  <2> QED BY <1>1, <2>1, <2>2 DEF ConnOf
<1>7. p \in Clients => StreamOf(p)'
  BY <1>1, <1>3 DEF StreamOf, Connections
<1> QED BY <1>4, <1>5, <1>6, <1>7 DEF Connections

\* Dying.
LEMMA DiesConnections ==
  ASSUME PathInv, Connections, NEW p \in Procs, Dies(p)
  PROVE  Connections'
<1>1. pc'[p] = "killed"
  BY GotoFacts DEF PathInv, Dies, Labels
<1>2. p \in Clients => (Answered(p)' => stream[p] = "ACK")
  BY <1>1 DEF Dies, Answered, Connections, StreamOf
<1> QED BY <1>2, CloseConnections DEF Dies

\* The steps that server and client share.
LEMMA SharedConnections ==
  ASSUME PathInv, Connections, NEW p \in Procs,
         Bind(p) \/ Unlink(p) \/ CloseSocket(p) \/ Receive(p) \/ CallFails(p) \/ Kill(p)
  PROVE  Connections'
<1> USE DEF Fail, At, socketsUnchanged
<1>0. /\ ret \in [Procs -> {0, 1}]
      /\ p \in Servers => (conn[p] # Nobody => pc[p] \in {"read", "write", "close_conn"})
      /\ p \in Clients => (Answered(p) => stream[p] = "ACK")
  BY DEF PathInv, TypeOK, Connections, ConnOf, StreamOf
<1>1. CASE Bind(p)
  <2>1. \A q \in Procs \ {p} : stage'[q] = stage[q] /\ ret'[q] = ret[q]
    BY <1>0, <1>1 DEF Bind
  <2>2. p \in Servers => backlog[p] = <<>>
    BY <1>1 DEF Bind, Connections, ConnOf
  <2>3. p \in Clients => (Answered(p)' => stream[p] = "ACK")
    <3> SUFFICES ASSUME p \in Clients PROVE stage[p] = "dgram" /\ stream[p] = "ACK"
      OBVIOUS
    <3>1. stage[p] = "dgram"
      BY <1>1 DEF Bind, PathInv, Programs, ClientLabels, TypeOK
    <3> QED BY <1>0, <3>1 DEF Answered
  <2>4. \E to \in {"send", "listen", "recv", "close"} : Goto(p, to)
    BY <1>1 DEF Bind, AfterBindFailed
  <2>5. UNCHANGED <<backlog, conn, peer, stream, heard>> /\ pc[p] = "bind"
    BY <1>1 DEF Bind
  <2> QED BY <1>0, <2>1, <2>2, <2>3, <2>4, <2>5, JumpConnections DEF Labels
<1>2. CASE Unlink(p)
  <2>1. /\ Goto(p, "close") /\ pc[p] = "unlink"
        /\ UNCHANGED <<stage, backlog, conn, peer, stream, heard>>
        /\ \A q \in Procs \ {p} : ret'[q] = ret[q]
    BY <1>0, <1>2 DEF Unlink
  <2>2. p \in Clients => (Answered(p)' => stream[p] = "ACK")
    <3> SUFFICES ASSUME p \in Clients PROVE stage[p] = "dgram"
      BY <1>0 DEF Answered
    <3> QED BY <2>1 DEF PathInv, Programs, ClientLabels, TypeOK
  <2> QED BY <1>0, <2>1, <2>2, JumpConnections DEF Labels
<1>3. CASE CloseSocket(p)
  <2>1. \E to \in {"bind", "exited"} : Goto(p, to)
    BY <1>3 DEF CloseSocket
  <2>2. /\ CloseSockets(p) /\ ret' = ret /\ pc[p] = "close"
        /\ \A q \in Procs \ {p} : stage'[q] = stage[q]
    BY <1>3 DEF CloseSocket, PathInv, TypeOK
  <2>3. stage'[p] = "dgram" => stage[p] = "dgram" \/ ret[p] = 0
    BY <1>3 DEF CloseSocket, PathInv, TypeOK
  <2>4. pc'[p] # "close"
    BY <2>1, GotoFacts DEF PathInv, Labels
  <2>5. p \in Clients => (Answered(p)' => stream[p] = "ACK")
    BY <1>0, <2>2, <2>3, <2>4 DEF Answered
  <2> QED BY <2>1, <2>2, <2>5, CloseConnections
<1>4. CASE Receive(p)
  <2>1. \E to \in {"send", "unlink"} : Goto(p, to)
    BY <1>4 DEF Receive
  <2>2. UNCHANGED <<stage, ret, backlog, conn, peer, stream, heard>> /\ At(p, "dgram", "recv")
    BY <1>4 DEF Receive
  <2>3. p \in Clients => (Answered(p)' => stream[p] = "ACK")
    BY <1>0, <2>2 DEF Answered
  <2> QED BY <1>0, <2>1, <2>2, <2>3, JumpConnections DEF Labels
<1>5. CASE CallFails(p)
  <2> DEFINE to == Cleanup(p)[pc[p]]
  <2>1. /\ Goto(p, to) /\ pc[p] \in DOMAIN Cleanup(p) /\ ret' = [ret EXCEPT ![p] = 1]
        /\ UNCHANGED <<stage, backlog, conn, peer, stream, heard>>
    BY <1>5 DEF CallFails
  <2>2. ret'[p] = 1 /\ \A q \in Procs \ {p} : ret'[q] = ret[q]
    BY <1>0, <2>1
  <2>3. p \in Clients => (Answered(p)' => stream[p] = "ACK")
    BY <1>0, <2>1, <2>2 DEF Answered
  <2>4. to \in Labels /\ to # "connect" /\ to \in {"unlink", "close", "close_conn"}
    BY <2>1 DEF Cleanup, ServerCleanup, ClientCleanup, Labels
  <2>5. p \in Servers => (pc[p] \in {"read", "write"} => to = "close_conn")
    BY DEF Cleanup, ServerCleanup
  <2>6. p \in Servers => pc[p] # "close_conn"
    BY <2>1 DEF Cleanup, ServerCleanup
  <2> HIDE DEF to
  <2> QED BY <1>0, <2>1, <2>2, <2>3, <2>4, <2>5, <2>6, JumpConnections
<1>6. CASE Kill(p)
  BY <1>6, DiesConnections DEF Kill
<1> QED BY <1>1, <1>2, <1>3, <1>4, <1>5, <1>6
\* A step of server s that touches the stream of one client of its own, at most, keeps
\* the connections of the other servers and the other clients.
LEMMA ServerRowConnections ==
  ASSUME PathInv, Connections, NEW s \in Servers,
         UNCHANGED <<stage, peer>>,
         \A q \in Procs \ {s} : pc'[q] = pc[q] /\ ret'[q] = ret[q],
         \A t \in Servers \ {s} : conn'[t] = conn[t] /\ backlog'[t] = backlog[t],
         heard \subseteq heard',
         \A c \in Clients : \/ stream'[c] = stream[c]
                            \/ conn[s] = c /\ IF stream'[c] = "ACK" THEN c \in heard'
                                                                  ELSE ~Answered(c),
         ConnOf(s)'
  PROVE  Connections'
<1>1. \A c \in Clients : c # s
  BY UnixSocketAssumption
<1>2. ASSUME NEW c \in Clients PROVE StreamOf(c)'
  <2>1. pc'[c] = pc[c] /\ (Answered(c)' <=> Answered(c)) /\ peer'[c] = peer[c]
    BY <1>1 DEF Answered, Procs
  <2>2. StreamOf(c) /\ (conn[s] = c => peer[c] = s)
    BY UnixSocketAssumption DEF Connections, ConnOf
  <2>3. s # Nobody
    BY UnixSocketAssumption
  <2> QED BY <2>1, <2>2, <2>3 DEF StreamOf
<1>3. ASSUME NEW t \in Servers \ {s} PROVE ConnOf(t)'
  <2>1. \A c \in Clients : peer[c] = t => stream'[c] = stream[c]
    BY UnixSocketAssumption DEF Connections, ConnOf
  <2>2. \A c \in Range(backlog[t]) : c \in Clients
    BY RangeOfSeq DEF PathInv, TypeOK
  <2>3. conn[t] # Nobody => conn[t] \in Clients
    BY DEF PathInv, TypeOK
  <2> QED BY <2>1, <2>2, <2>3 DEF Connections, ConnOf, Procs
<1> QED BY <1>2, <1>3 DEF Connections

\* The steps of a server.
LEMMA ServerConnections ==
  ASSUME PathInv, Connections, NEW s \in Servers,
         Listen(s) \/ Accept(s) \/ ServerRead(s) \/ ServerWrite(s) \/ CloseConn(s) \/ ServerSend(s)
  PROVE  Connections'
<1> USE DEF Fail, At, socketsUnchanged
<1>0. /\ s \in Procs /\ ConnOf(s) /\ conn[s] \in Clients \cup {Nobody}
      /\ backlog \in [Servers -> Seq(Clients)] /\ conn \in [Servers -> Clients \cup {Nobody}]
      /\ stream \in [Clients -> {"none", "REQ", "ACK"}]
      /\ s \notin Clients
  BY UnixSocketAssumption DEF PathInv, TypeOK, Connections, Procs
<1>1. CASE Listen(s)
  <2>1. /\ Goto(s, "accept") /\ pc[s] = "listen"
        /\ UNCHANGED <<stage, ret, backlog, conn, peer, stream, heard>>
    BY <1>1 DEF Listen
  <2> QED BY <1>0, <2>1, JumpConnections DEF ConnOf, Labels
<1>2. CASE Accept(s)
  <2>1. /\ pc[s] = "accept" /\ backlog[s] # <<>> /\ Goto(s, "read")
        /\ conn' = [conn EXCEPT ![s] = Head(backlog[s])]
        /\ backlog' = [backlog EXCEPT ![s] = Tail(@)]
        /\ UNCHANGED <<stage, ret, peer, stream, heard>>
    BY <1>2 DEF Accept
  <2>2. pc'[s] = "read" /\ \A q \in Procs \ {s} : pc'[q] = pc[q]
    BY <1>0, <2>1, GotoFacts DEF PathInv, Labels
  <2>3. /\ Head(backlog[s]) \in Range(backlog[s]) /\ Head(backlog[s]) \in Clients
        /\ Range(Tail(backlog[s])) \subseteq Range(backlog[s])
    BY <1>0, <2>1, HeadAndTail
  <2>4. ConnOf(s)'
    <3>1. conn'[s] = Head(backlog[s]) /\ backlog'[s] = Tail(backlog[s])
      BY <1>0, <2>1
    <3>2. Head(backlog[s]) # Nobody
      BY <2>3, UnixSocketAssumption
    <3>3. peer[Head(backlog[s])] = s /\ stream[Head(backlog[s])] # "ACK"
      BY <1>0, <2>1, <2>3 DEF ConnOf
    <3>4. \A c \in Range(Tail(backlog[s])) : peer[c] = s
      BY <1>0, <2>3 DEF ConnOf
    <3> QED BY <2>1, <2>2, <3>1, <3>2, <3>3, <3>4 DEF ConnOf
  <2>5. \A t \in Servers \ {s} : conn'[t] = conn[t] /\ backlog'[t] = backlog[t]
    BY <1>0, <2>1
  <2> QED BY <2>1, <2>2, <2>4, <2>5, ServerRowConnections
<1>3. CASE ServerRead(s)
  <2>1. conn[s] \in Clients /\ stream[conn[s]] # "ACK" /\ pc[s] = "read"
    BY <1>0, <1>3 DEF ServerRead, ConnOf
  <2>2. CASE stream[conn[s]] = "REQ"
    <3>1. /\ Goto(s, "write") /\ stream' = [stream EXCEPT ![conn[s]] = "none"]
          /\ heard' = heard \cup {conn[s]} /\ UNCHANGED <<stage, ret, backlog, conn, peer>>
      BY <1>3, <2>2 DEF ServerRead
    <3>2. pc'[s] = "write" /\ \A q \in Procs \ {s} : pc'[q] = pc[q]
      BY <1>0, <3>1, GotoFacts DEF PathInv, Labels
    <3>3. stream'[conn[s]] = "none" /\ \A c \in Clients : c # conn[s] => stream'[c] = stream[c]
      BY <1>0, <2>1, <3>1
    <3>4. ~Answered(conn[s])
      BY <2>1 DEF Connections, StreamOf
    <3>5. ConnOf(s)'
      BY <1>0, <2>1, <3>1, <3>2, <3>3 DEF ConnOf
    <3> QED BY <3>1, <3>2, <3>3, <3>4, <3>5, ServerRowConnections
  <2>3. CASE stream[conn[s]] # "REQ"
    <3>1. /\ Goto(s, "close_conn") /\ ret' = [ret EXCEPT ![s] = 1]
          /\ UNCHANGED <<stage, backlog, conn, peer, stream, heard>>
      BY <1>3, <2>3 DEF ServerRead, ServerCleanup
    <3>2. \A q \in Procs \ {s} : ret'[q] = ret[q]
      BY <3>1 DEF PathInv, TypeOK
    <3> QED BY <1>0, <3>1, <3>2, JumpConnections DEF Labels
  <2> QED BY <2>2, <2>3
<1>4. CASE ServerWrite(s)
  <2>1. CASE Dies(s)
    BY <1>0, <2>1, DiesConnections
  <2>2. CASE ~Dies(s)
    <3>1. /\ Goto(s, "close_conn") /\ stream' = [stream EXCEPT ![conn[s]] = "ACK"]
          /\ pc[s] = "write" /\ UNCHANGED <<stage, ret, backlog, conn, peer, heard>>
      BY <1>4, <2>2 DEF ServerWrite
    <3>2. pc'[s] = "close_conn" /\ \A q \in Procs \ {s} : pc'[q] = pc[q]
      BY <1>0, <3>1, GotoFacts DEF PathInv, Labels
    <3>3. conn[s] \in Clients /\ conn[s] \in heard
      BY <1>0, <3>1 DEF ConnOf
    <3>4. stream'[conn[s]] = "ACK" /\ \A c \in Clients : c # conn[s] => stream'[c] = stream[c]
      BY <1>0, <3>1, <3>3
    <3>5. ConnOf(s)'
      BY <1>0, <3>1, <3>2 DEF ConnOf
    <3> QED BY <3>1, <3>2, <3>3, <3>4, <3>5, ServerRowConnections
  <2> QED BY <2>1, <2>2
<1>5. CASE CloseConn(s)
  <2>1. /\ Goto(s, "unlink") /\ conn' = [conn EXCEPT ![s] = Nobody]
        /\ UNCHANGED <<stage, ret, backlog, peer, stream, heard>>
    BY <1>5 DEF CloseConn
  <2>2. pc'[s] = "unlink" /\ \A q \in Procs \ {s} : pc'[q] = pc[q]
    BY <1>0, <2>1, GotoFacts DEF PathInv, Labels
  <2>3. conn'[s] = Nobody /\ \A t \in Servers \ {s} : conn'[t] = conn[t]
    BY <1>0, <2>1
  <2>4. ConnOf(s)'
    BY <1>0, <2>1, <2>2, <2>3 DEF ConnOf
  <2> QED BY <2>1, <2>2, <2>3, <2>4, ServerRowConnections
<1>6. CASE ServerSend(s)
  <2>1. /\ pc[s] = "send" /\ UNCHANGED <<stage, backlog, conn, peer, stream, heard>>
    BY <1>6 DEF ServerSend, SendTo
  <2>2. Goto(s, "unlink") /\ \A q \in Procs \ {s} : ret'[q] = ret[q]
    BY <1>6 DEF ServerSend, SendTo, PathInv, TypeOK
  <2> QED BY <1>0, <2>1, <2>2, JumpConnections DEF ConnOf, Labels
<1> QED BY <1>1, <1>2, <1>3, <1>4, <1>5, <1>6

\* The steps of a client.
LEMMA ClientConnections ==
  ASSUME PathInv, Connections, NEW c \in Clients,
         Connect(c) \/ ClientWrite(c) \/ ClientRead(c) \/ ClientSend(c)
  PROVE  Connections'
<1> USE DEF Fail, At, socketsUnchanged
<1>0. /\ c \in Procs /\ c \notin Servers /\ StreamOf(c)
      /\ ret \in [Procs -> {0, 1}] /\ peer \in [Clients -> Servers \cup {Nobody}]
      /\ backlog \in [Servers -> Seq(Clients)] /\ conn \in [Servers -> Clients \cup {Nobody}]
      /\ stream \in [Clients -> {"none", "REQ", "ACK"}]
  BY UnixSocketAssumption DEF PathInv, TypeOK, Connections, Procs
<1>1. CASE Connect(c)
  <2> DEFINE s == path["server_stream"]
  <2>1. /\ pc[c] = "connect" /\ stage[c] = "stream"
        /\ UNCHANGED <<stage, path, conn, stream, heard>>
    BY <1>1 DEF Connect
  <2>2. peer[c] = Nobody /\ stream[c] = "none"
    BY <1>0, <2>1 DEF StreamOf
  <2>3. CASE s \in Servers /\ pc[s] # "listen"
    <3>1. /\ backlog' = [backlog EXCEPT ![s] = Append(@, c)] /\ peer' = [peer EXCEPT ![c] = s]
          /\ Goto(c, "write") /\ ret' = ret
      BY <1>1, <2>3 DEF Connect
    <3>2. pc'[c] = "write" /\ \A q \in Procs \ {c} : pc'[q] = pc[q]
      BY <1>0, <3>1, GotoFacts DEF PathInv, Labels
    <3>3. pc[s] # "bind"
      <4>1. Bound(s) \/ Leaves(s)
        BY <2>3 DEF PathInv, Owners, Procs, Paths
      <4> QED BY <4>1 DEF Bound, Leaves
    <3> HIDE DEF s
    <3>4. peer'[c] = s /\ \A d \in Clients \ {c} : peer'[d] = peer[d]
      BY <1>0, <3>1
    <3>5. /\ Range(backlog'[s]) = Range(backlog[s]) \cup {c}
          /\ \A t \in Servers \ {s} : backlog'[t] = backlog[t]
      BY <1>0, <2>3, <3>1, RangeOfAppend
    <3>6. \A d \in Clients : peer[d] \in Servers => d # c
      BY <2>2, UnixSocketAssumption
    <3>7. ASSUME NEW t \in Servers PROVE ConnOf(t)'
      <4>1. ConnOf(t) /\ pc'[t] = pc[t] /\ conn'[t] = conn[t]
        BY <1>0, <2>1, <3>2 DEF Connections, Procs
      <4>2. conn[t] # Nobody => conn[t] \in Clients /\ peer'[conn[t]] = t
        BY <1>0, <3>4, <3>6, <4>1 DEF ConnOf
      <4>3. \A d \in Range(backlog[t]) : d \in Clients /\ peer'[d] = t
        <5>1. \A d \in Range(backlog[t]) : d \in Clients
          BY <1>0, RangeOfSeq
        <5> QED BY <3>4, <3>6, <4>1, <5>1 DEF ConnOf
      <4>4. CASE t # s
        BY <2>1, <3>5, <4>1, <4>2, <4>3, <4>4 DEF ConnOf
      <4>5. CASE t = s
        <5>1. pc'[t] # "bind"
          BY <3>3, <4>1, <4>5
        <5>2. \A d \in Range(backlog'[t]) :
                peer'[d] = t /\ (pc'[t] \in {"listen", "accept"} => stream'[d] # "ACK")
          BY <2>1, <2>2, <3>4, <3>5, <4>1, <4>3, <4>5 DEF ConnOf
        <5> QED BY <2>1, <4>1, <4>2, <5>1, <5>2 DEF ConnOf
      <4> QED BY <4>4, <4>5
    <3>8. ASSUME NEW d \in Clients PROVE StreamOf(d)'
      <4>1. CASE d = c
        BY <2>1, <2>2, <3>2, <4>1 DEF StreamOf, Answered
      <4>2. CASE d # c
        BY <2>1, <3>1, <3>2, <3>4, <4>2 DEF StreamOf, Answered, Connections, Procs
      <4> QED BY <4>1, <4>2
    <3> QED BY <3>7, <3>8 DEF Connections
  <2>4. CASE ~(s \in Servers /\ pc[s] # "listen")
    <3>1. /\ Goto(c, "close") /\ ret' = [ret EXCEPT ![c] = 1] /\ UNCHANGED <<backlog, peer>>
      BY <1>1, <2>4 DEF Connect
    <3>2. ret'[c] = 1 /\ \A q \in Procs \ {c} : ret'[q] = ret[q]
      BY <1>0, <3>1
    <3>3. ~Answered(c)'
      BY <2>1, <3>2 DEF Answered
    <3> QED BY <1>0, <2>1, <3>1, <3>2, <3>3, JumpConnections DEF Labels
  <2> QED BY <2>3, <2>4
<1>2. CASE ClientWrite(c)
  <2>1. CASE Dies(c)
    BY <1>0, <2>1, DiesConnections
  <2>2. CASE ~Dies(c)
    <3>1. /\ Goto(c, "read") /\ stream' = [stream EXCEPT ![c] = "REQ"]
          /\ pc[c] = "write" /\ stage[c] = "stream"
          /\ UNCHANGED <<stage, ret, backlog, conn, peer, heard>>
      BY <1>2, <2>2 DEF ClientWrite, Request
    <3>2. pc'[c] = "read" /\ \A q \in Procs \ {c} : pc'[q] = pc[q]
      BY <1>0, <3>1, GotoFacts DEF PathInv, Labels
    <3>3. stream'[c] = "REQ" /\ \A d \in Clients \ {c} : stream'[d] = stream[d]
      BY <1>0, <3>1
    <3>4. \A d \in Clients : StreamOf(d)'
      BY <3>1, <3>2, <3>3 DEF Connections, StreamOf, Answered, Procs
    <3>5. ASSUME NEW t \in Servers PROVE ConnOf(t)'
      <4>1. ConnOf(t) /\ pc'[t] = pc[t]
        BY <1>0, <3>2 DEF Connections, Procs
      <4>2. /\ \A d \in Range(backlog[t]) : d \in Clients
            /\ conn[t] \in Clients \cup {Nobody}
        BY <1>0, RangeOfSeq
      <4>3. \A d \in Clients : stream[d] # "ACK" => stream'[d] # "ACK"
        BY <3>3
      <4> QED BY <3>1, <4>1, <4>2, <4>3 DEF ConnOf
    <3> QED BY <3>4, <3>5 DEF Connections
  <2> QED BY <2>1, <2>2
<1>3. CASE ClientRead(c)
  <2>1. /\ stage[c] = "stream" /\ UNCHANGED <<stage, backlog, conn, peer, stream, heard>>
        /\ Goto(c, "close") /\ (stream[c] = "ACK" \/ ret' = [ret EXCEPT ![c] = 1])
        /\ \A q \in Procs \ {c} : ret'[q] = ret[q]
    BY <1>0, <1>3 DEF ClientRead, ClientCleanup
  <2>2. Answered(c)' => stream[c] = "ACK"
    BY <1>0, <2>1 DEF Answered
  <2> QED BY <1>0, <2>1, <2>2, JumpConnections DEF Labels
<1>4. CASE ClientSend(c)
  <2>1. /\ stage[c] = "dgram" /\ UNCHANGED <<stage, backlog, conn, peer, stream, heard>>
        /\ \A q \in Procs \ {c} : ret'[q] = ret[q]
    BY <1>0, <1>4 DEF ClientSend, SendTo
  <2>2. \E to \in {"recv", "unlink"} : Goto(c, to)
    BY <1>4 DEF ClientSend, SendTo
  <2>3. stream[c] = "ACK"
    BY <1>0, <2>1 DEF StreamOf, Answered
  <2> QED BY <1>0, <2>1, <2>2, <2>3, JumpConnections DEF Labels
<1> QED BY <1>1, <1>2, <1>3, <1>4

\* Connections holds initially.
LEMMA ConnectionsInit == Init => Connections
<1> SUFFICES ASSUME Init PROVE Connections
  OBVIOUS
<1> USE UnixSocketAssumption DEF Init, Procs
<1>1. ASSUME NEW s \in Servers PROVE ConnOf(s)
  <2>1. pc[s] = "bind" /\ conn[s] = Nobody /\ backlog[s] = <<>>
    OBVIOUS
  <2>2. Range(backlog[s]) = {}
    BY <2>1 DEF Range
  <2> QED BY <2>1, <2>2 DEF ConnOf
<1>2. ASSUME NEW c \in Clients PROVE StreamOf(c)
  BY DEF StreamOf, Answered
<1> QED BY <1>1, <1>2 DEF Connections

\* Connections is inductive relative to PathInv.
LEMMA ConnectionsStep == PathInv /\ Connections /\ [Next]_vars => Connections'
<1> SUFFICES ASSUME PathInv, Connections, [Next]_vars PROVE Connections'
  OBVIOUS
<1>1. CASE UNCHANGED vars
  BY <1>1 DEF vars, Connections, ConnOf, StreamOf, Answered
<1> QED BY <1>1, SharedConnections, ServerConnections, ClientConnections DEF Next, Step

\* A client that gets to the datagram part had its request read by the server that
\* accepted it, whatever fails and whoever else connects.
THEOREM UnixRequestsAreRead == Spec => []RequestsAreRead
<1>1. Connections => RequestsAreRead
  BY DEF Connections, StreamOf, Answered, RequestsAreRead
<1> QED BY <1>1, PathInit, PathStep, ConnectionsInit, ConnectionsStep, PTL DEF Spec

-------------------------------------------------------------------------------
(* The datagram part.                                                      *)

\* A step of p that adds nothing to the inbox of anyone else leaves the answers of the
\* clients as they are, except for those of p itself.
LEMMA SameAnswers ==
  ASSUME PathInv, Answers, NEW p \in Procs, NEW to \in Labels, Goto(p, to),
         \A q \in Procs \ {p} :
           stage'[q] = stage[q] /\ ret'[q] = ret[q] /\ inbox'[q] = inbox[q],
         served \subseteq served',
         p \in Clients => AnswerOf(p)'
  PROVE  \A c \in Clients : AnswerOf(c)'
<1>1. \A q \in Procs \ {p} : pc'[q] = pc[q]
  BY GotoFacts DEF PathInv
<1>2. ASSUME NEW c \in Clients \ {p} PROVE AnswerOf(c)'
  BY <1>1 DEF Answers, AnswerOf, Procs
<1> QED BY <1>2

\* A server that does not go on to answer, with its inbox as it was or emptied, keeps the
\* exchange.
LEMMA ServerRests ==
  ASSUME PathInv, Exchange, NEW p \in Servers, NEW to \in Labels \ {"send"}, Goto(p, to),
         path'["client_dgram"] = path["client_dgram"],
         inbox'[p] \in {inbox[p], <<>>},
         \A q \in Procs \ {p} : stage'[q] = stage[q] /\ inbox'[q] = inbox[q],
         served \subseteq served'
  PROVE  Exchange'
<1>1. pc'[p] = to /\ \A q \in Procs \ {p} : pc'[q] = pc[q]
  BY GotoFacts DEF PathInv, Procs
<1>2. ~Answering(p)' /\ \A t \in Servers \ {p} : Answering(t)' <=> Answering(t)
  BY <1>1 DEF Answering, At, Procs
<1>3. \A c \in Clients : Waits(c) => Waits(c)'
  BY <1>1, UnixSocketAssumption DEF Waits, Procs
<1>4. \A t \in Servers : inbox[t] = <<>> => inbox'[t] = <<>>
  BY DEF Procs
<1>5. CASE path["client_dgram"] = "stale"
  BY <1>5 DEF Exchange
<1>6. CASE Quiet
  BY <1>2, <1>4, <1>6 DEF Exchange, Quiet
<1>7. ASSUME NEW c \in Clients, NEW s \in Servers, Asked(c, s) PROVE Exchange'
  <2>1. CASE inbox'[s] = inbox[s]
    <3>1. Asked(c, s)'
      BY <1>2, <1>3, <1>4, <1>7, <2>1 DEF Asked
    <3> QED BY <3>1 DEF Exchange
  <2>2. CASE inbox'[s] # inbox[s]
    <3>1. s = p /\ inbox'[s] = <<>>
      BY <2>2 DEF Procs
    <3>2. Quiet'
      BY <1>2, <1>4, <1>7, <3>1 DEF Asked, Quiet
    <3> QED BY <3>2 DEF Exchange
  <2> QED BY <2>1, <2>2
<1>8. ASSUME NEW c \in Clients, NEW s \in Servers, Served(c, s) PROVE Exchange'
  <2>1. Served(c, s)'
    BY <1>2, <1>3, <1>4, <1>8 DEF Served
  <2> QED BY <2>1 DEF Exchange
<1> QED BY <1>5, <1>6, <1>7, <1>8 DEF Exchange

\* A client that leaves the sockets of the servers alone keeps the exchange, if it does not
\* stop waiting for an answer or leaves its path behind when it does.
LEMMA ClientRests ==
  ASSUME PathInv, Exchange, NEW p \in Clients, NEW to \in Labels, Goto(p, to),
         \A q \in Procs \ {p} : stage'[q] = stage[q] /\ inbox'[q] = inbox[q],
         served \subseteq served',
         \/ path'["client_dgram"] = "stale"
         \/ ~Waits(p) /\ \/ path'["client_dgram"] = path["client_dgram"]
                         \/ path["client_dgram"] \in {p, "absent"}
  PROVE  Exchange'
<1>1. \A q \in Procs \ {p} : pc'[q] = pc[q]
  BY GotoFacts DEF PathInv, Procs
<1>2. \A t \in Servers : (Answering(t)' <=> Answering(t)) /\ inbox'[t] = inbox[t]
  BY <1>1, UnixSocketAssumption DEF Answering, At, Procs
<1>3. Quiet => Quiet'
  BY <1>2 DEF Quiet
<1>4. CASE Quiet
  BY <1>3, <1>4 DEF Exchange
<1>5. CASE path'["client_dgram"] = "stale"
  BY <1>5 DEF Exchange
<1>6. CASE ~Quiet /\ ~Waits(p) /\ path'["client_dgram"] = path["client_dgram"]
  <2>1. \A c \in Clients : Waits(c) => Waits(c)'
    BY <1>1, <1>6 DEF Waits, Procs
  <2>2. \A c \in Clients, s \in Servers : Asked(c, s) => Asked(c, s)'
    BY <1>2, <2>1 DEF Asked
  <2>3. \A c \in Clients, s \in Servers : Served(c, s) => Served(c, s)'
    BY <1>2, <2>1 DEF Served
  <2> QED BY <1>6, <2>2, <2>3 DEF Exchange
<1>7. CASE ~Quiet /\ ~Waits(p) /\ path["client_dgram"] \in {p, "absent"}
  <2>1. path["client_dgram"] # "stale" /\ "absent" \notin Clients
    BY <1>7, UnixSocketAssumption
  <2>2. PICK c \in Clients : Waits(c)
    BY <1>7, <2>1 DEF Exchange, Asked, Served
  <2>3. c = p
    BY <1>7, <2>1, <2>2 DEF Waits
  <2> QED BY <1>7, <2>2, <2>3
<1> QED BY <1>4, <1>5, <1>6, <1>7

\* A step of p after which no answer of p is due and nobody else has got anything.
LEMMA RestAnswers ==
  ASSUME PathInv, Answers, NEW p \in Procs, NEW to \in Labels, Goto(p, to),
         \A q \in Procs \ {p} :
           stage'[q] = stage[q] /\ ret'[q] = ret[q] /\ inbox'[q] = inbox[q],
         served \subseteq served',
         p \in Servers => /\ to # "send" /\ inbox'[p] \in {inbox[p], <<>>}
                          /\ path'["client_dgram"] = path["client_dgram"],
         p \in Clients => /\ AnswerOf(p)'
                          /\ \/ path'["client_dgram"] = "stale"
                             \/ ~Waits(p) /\ \/ path'["client_dgram"] = path["client_dgram"]
                                             \/ path["client_dgram"] \in {p, "absent"}
  PROVE  Answers'
<1>1. CASE p \in Servers
  BY <1>1, ServerRests, SameAnswers DEF Answers
<1>2. CASE p \in Clients
  BY <1>2, ClientRests, SameAnswers DEF Answers
<1> QED BY <1>1, <1>2, SameAnswers DEF Procs

\* Dying.
LEMMA DiesAnswers ==
  ASSUME PathInv, Answers, NEW p \in Procs, Dies(p)
  PROVE  Answers'
<1>1. /\ Goto(p, "killed") /\ "killed" \in Labels \ {"send"}
      /\ UNCHANGED <<stage, ret, served>>
      /\ inbox'[p] = <<>> /\ \A q \in Procs \ {p} : inbox'[q] = inbox[q]
  BY DEF Dies, CloseSockets, PathInv, TypeOK, Labels
<1>2. pc'[p] = "killed"
  BY <1>1, GotoFacts DEF PathInv
<1>3. p \in Servers => path["client_dgram"] # p
  BY UnixSocketAssumption DEF PathInv, Owners, PathOf, Paths, Procs
<1>4. path'["client_dgram"] = IF path["client_dgram"] = p THEN "stale" ELSE path["client_dgram"]
  BY DEF Dies, CloseSockets, Paths
<1>5. p \in Clients => AnswerOf(p)'
  BY <1>1, <1>2 DEF AnswerOf
<1> QED BY <1>1, <1>3, <1>4, <1>5, RestAnswers DEF Waits

\* The steps that server and client share, but for the reception of a datagram, if nobody
\* gives up waiting.
LEMMA SharedAnswers ==
  ASSUME PathInv, Answers, gaveup' = {}, NEW p \in Procs,
         Bind(p) \/ Unlink(p) \/ CloseSocket(p) \/ CallFails(p) \/ Kill(p)
  PROVE  Answers'
<1> USE DEF Fail, socketsUnchanged
<1>0. /\ p \in Clients => AnswerOf(p)
      /\ ret \in [Procs -> {0, 1}] /\ stage \in [Procs -> {"stream", "dgram"}]
      /\ path \in [Paths -> Procs \cup {"absent", "stale"}]
      /\ inbox \in [Procs -> Seq(Procs)]
      /\ p \in Servers => PathOf(p) # "client_dgram"
      /\ p \in Clients => PathOf(p) = "client_dgram"
  BY UnixSocketAssumption DEF Answers, PathInv, TypeOK, PathOf, Procs
<1>1. CASE Bind(p)
  <2>1. /\ pc[p] = "bind" /\ UNCHANGED <<stage, inbox, served>>
        /\ \A q \in Procs \ {p} : ret'[q] = ret[q]
    BY <1>0, <1>1 DEF Bind
  <2>2. PICK to \in {"send", "listen", "recv", "close"} :
          /\ Goto(p, to) /\ (p \in Servers => to # "send")
          /\ p \in Clients => to = "send" \/ (to = "close" /\ ret' = [ret EXCEPT ![p] = 1])
    BY <1>0, <1>1, UnixSocketAssumption DEF Bind, AfterBindFailed, Procs
  <2>3. pc'[p] = to /\ to \in Labels
    BY <2>2, GotoFacts DEF PathInv, Labels
  <2>4. /\ p \in Servers => path'["client_dgram"] = path["client_dgram"]
        /\ p \in Clients => \/ path'["client_dgram"] = path["client_dgram"]
                           \/ path["client_dgram"] = "absent"
    BY <1>0, <1>1 DEF Bind, Paths
  <2>5. p \in Clients => AnswerOf(p)'
    <3>1. p \in Clients => inbox'[p] = <<>>
      BY <1>0, <2>1 DEF AnswerOf
    <3>2. p \in Clients /\ to = "close" => ret'[p] = 1
      BY <1>0, <2>2
    <3> QED BY <2>2, <2>3, <3>1, <3>2 DEF AnswerOf
  <2>6. ~Waits(p)
    BY <2>1 DEF Waits
  <2> QED BY <2>1, <2>2, <2>3, <2>4, <2>5, <2>6, RestAnswers
<1>2. CASE Unlink(p)
  <2>1. /\ pc[p] = "unlink" /\ Goto(p, "close") /\ UNCHANGED <<stage, inbox, served>>
        /\ path' = path \/ path' = [path EXCEPT ![PathOf(p)] = "absent"]
        /\ ret' = ret \/ ret' = [ret EXCEPT ![p] = 1]
    BY <1>2 DEF Unlink
  <2>2. pc'[p] = "close"
    BY <2>1, GotoFacts DEF PathInv, Labels
  <2>3. p \in Clients => AnswerOf(p)'
    <3> SUFFICES ASSUME p \in Clients PROVE AnswerOf(p)'
      OBVIOUS
    <3>1. stage[p] = "dgram"
      BY <1>0, <2>1 DEF PathInv, Programs, ClientLabels
    <3>2. ret'[p] = 0 => ret[p] = 0
      BY <1>0, <2>1
    <3> QED BY <1>0, <2>1, <2>2, <3>1, <3>2 DEF AnswerOf
  <2>4. p \in Clients => path["client_dgram"] = p
    BY <1>0, <2>1 DEF PathInv, Owners, Bound
  <2>5. p \in Servers => path'["client_dgram"] = path["client_dgram"]
    BY <1>0, <2>1 DEF Paths
  <2>6. ~Waits(p)
    BY <2>1 DEF Waits
  <2>7. \A q \in Procs \ {p} : ret'[q] = ret[q]
    BY <1>0, <2>1
  <2> QED BY <2>1, <2>3, <2>4, <2>5, <2>6, <2>7, RestAnswers DEF Labels
<1>3. CASE CloseSocket(p)
  <2>1. /\ pc[p] = "close" /\ UNCHANGED <<ret, served>>
        /\ path'["client_dgram"] = IF path["client_dgram"] = p THEN "stale"
                                   ELSE path["client_dgram"]
        /\ inbox'[p] = <<>> /\ \A q \in Procs \ {p} : inbox'[q] = inbox[q]
    BY <1>0, <1>3 DEF CloseSocket, CloseSockets, Paths
  <2>2. \/ /\ Goto(p, "bind") /\ stage' = [stage EXCEPT ![p] = "dgram"]
        \/ /\ Goto(p, "exited") /\ stage' = stage /\ (ret[p] = 1 \/ stage[p] = "dgram")
    BY <1>0, <1>3 DEF CloseSocket
  <2>3. PICK to \in {"bind", "exited"} :
          /\ Goto(p, to)
          /\ to = "exited" => stage' = stage /\ (ret[p] = 1 \/ stage[p] = "dgram")
    BY <2>2
  <2>4. \A q \in Procs \ {p} : stage'[q] = stage[q]
    BY <1>0, <2>2
  <2>5. pc'[p] = to
    BY <2>3, GotoFacts DEF PathInv, Labels
  <2>6. p \in Clients => AnswerOf(p)'
    BY <1>0, <2>1, <2>3, <2>5 DEF AnswerOf
  <2>7. ~Waits(p)
    BY <2>1 DEF Waits
  <2>8. p \in Servers => path["client_dgram"] # p
    BY <1>0 DEF PathInv, Owners, Paths, Procs
  <2> QED BY <2>1, <2>3, <2>4, <2>6, <2>7, <2>8, RestAnswers DEF Labels
<1>4. CASE CallFails(p)
  <2> DEFINE to == Cleanup(p)[pc[p]]
  <2>1. /\ pc[p] \in DOMAIN Cleanup(p) /\ (p \in Clients => pc[p] # "recv")
        /\ Goto(p, to) /\ ret' = [ret EXCEPT ![p] = 1]
        /\ UNCHANGED <<stage, path, inbox, served>>
    BY <1>4 DEF CallFails
  <2>2. ret'[p] = 1 /\ \A q \in Procs \ {p} : ret'[q] = ret[q]
    BY <1>0, <2>1
  <2>3. to \in Labels \ {"send"} /\ pc[p] \notin {"unlink", "close"}
    BY <2>1 DEF Cleanup, ServerCleanup, ClientCleanup, Labels
  <2> HIDE DEF to
  <2>4. p \in Clients => AnswerOf(p)'
    BY <1>0, <2>1, <2>2, <2>3 DEF AnswerOf
  <2>5. p \in Clients => ~Waits(p)
    BY <2>1 DEF Waits
  <2> QED BY <2>1, <2>2, <2>3, <2>4, <2>5, RestAnswers
<1>5. CASE Kill(p)
  BY <1>5, DiesAnswers DEF Kill
<1> QED BY <1>1, <1>2, <1>3, <1>4, <1>5

\* A server or client that reads a datagram: the server then has the only request, and what
\* a client reads is for it.
LEMMA ReceiveAnswers ==
  ASSUME PathInv, Answers, NEW p \in Procs, Receive(p)
  PROVE  Answers'
<1>1. /\ stage[p] = "dgram" /\ pc[p] = "recv" /\ inbox[p] # <<>>
      /\ UNCHANGED <<stage, ret, path>>
      /\ inbox' = [inbox EXCEPT ![p] = Tail(@)]
      /\ served' = served \cup ({Head(inbox[p])} \cap Clients)
  BY DEF Receive, At
<1>2. inbox'[p] = Tail(inbox[p]) /\ \A q \in Procs \ {p} : inbox'[q] = inbox[q]
  BY <1>1 DEF PathInv, TypeOK
<1>3. ASSUME p \in Clients PROVE Answers'
  <2>1. Goto(p, "unlink") /\ "unlink" \in Labels
    BY <1>3, UnixSocketAssumption DEF Receive, Labels
  <2>2. pc'[p] = "unlink"
    BY <2>1, GotoFacts DEF PathInv
  <2>3. p \in served
    BY <1>1, <1>3 DEF Answers, AnswerOf
  <2>4. AnswerOf(p)'
    BY <1>1, <2>2, <2>3 DEF AnswerOf
  <2>5. ~Waits(p)
    BY <1>1 DEF Waits
  <2> QED BY <1>1, <1>2, <1>3, <2>1, <2>4, <2>5, RestAnswers, UnixSocketAssumption
<1>4. ASSUME p \in Servers PROVE Answers'
  <2>1. Goto(p, "send") /\ "send" \in Labels
    BY <1>4 DEF Receive, Labels
  <2>2. pc'[p] = "send" /\ \A q \in Procs \ {p} : pc'[q] = pc[q]
    BY <2>1, GotoFacts DEF PathInv
  <2>3. p \notin Clients
    BY <1>4, UnixSocketAssumption
  <2>4. \A c \in Clients : AnswerOf(c)'
    BY <1>1, <1>2, <2>1, <2>3, SameAnswers
  <2>5. CASE path["client_dgram"] = "stale"
    BY <1>1, <2>4, <2>5 DEF Answers, Exchange
  <2>6. CASE path["client_dgram"] # "stale"
    <3>1. PICK c \in Clients : Asked(c, p)
      BY <1>1, <1>4, <2>6 DEF Answers, Exchange, Quiet, Asked, Served
    <3>2. inbox[p] = <<c>> /\ \A t \in Servers \ {p} : inbox[t] = <<>> /\ ~Answering(t)
      BY <3>1 DEF Asked
    <3>3. inbox'[p] = <<>> /\ c \in served'
      BY <1>1, <1>2, <3>2
    <3>4. Waits(c)'
      BY <1>1, <1>2, <2>2, <2>3, <3>1 DEF Asked, Waits, Procs
    <3>5. \A t \in Servers \ {p} : inbox'[t] = <<>> /\ ~Answering(t)'
      BY <1>1, <1>2, <2>2, <3>2 DEF Answering, At, Procs
    <3>6. Served(c, p)'
      BY <3>3, <3>4, <3>5 DEF Served
    <3> QED BY <1>4, <2>4, <3>6 DEF Answers, Exchange
  <2> QED BY <2>5, <2>6
<1> QED BY <1>3, <1>4 DEF Procs

\* The steps of a server.
LEMMA ServerAnswers ==
  ASSUME PathInv, Answers, NEW s \in Servers,
         Listen(s) \/ Accept(s) \/ ServerRead(s) \/ ServerWrite(s) \/ CloseConn(s) \/ ServerSend(s)
  PROVE  Answers'
<1>0. s \in Procs /\ s \notin Clients
  BY UnixSocketAssumption DEF Procs
<1>1. CASE Dies(s)
  BY <1>0, <1>1, DiesAnswers
<1>2. CASE ~Dies(s) /\ ~ServerSend(s)
  <2>1. UNCHANGED <<stage, path, inbox, served>> /\ \A q \in Procs \ {s} : ret'[q] = ret[q]
    BY <1>2 DEF Listen, Accept, ServerRead, ServerWrite, CloseConn, Fail, socketsUnchanged,
                PathInv, TypeOK
  <2>2. \E to \in {"accept", "read", "write", "close_conn", "unlink"} : Goto(s, to)
    BY <1>2 DEF Listen, Accept, ServerRead, ServerWrite, CloseConn, Fail, ServerCleanup
  <2> QED BY <1>0, <2>1, <2>2, RestAnswers DEF Labels
<1>3. CASE ServerSend(s)
  <2>1. /\ stage[s] = "dgram" /\ pc[s] = "send" /\ Goto(s, "unlink") /\ "unlink" \in Labels
        /\ UNCHANGED <<stage, path, served>> /\ \A q \in Procs \ {s} : ret'[q] = ret[q]
    BY <1>3 DEF ServerSend, SendTo, Fail, At, PathInv, TypeOK, Labels
  <2>2. pc'[s] = "unlink" /\ \A q \in Procs \ {s} : pc'[q] = pc[q]
    BY <1>0, <2>1, GotoFacts DEF PathInv
  <2>3. CASE path["client_dgram"] \notin Procs
    <3>1. inbox' = inbox
      BY <1>3, <2>3 DEF ServerSend, SendTo
    <3> QED BY <1>0, <2>1, <3>1, RestAnswers
  <2>4. CASE path["client_dgram"] \in Procs
    <3>1. Answering(s) /\ path["client_dgram"] # "stale"
      BY <2>1, <2>4, UnixSocketAssumption DEF Answering, At, Procs
    <3>2. PICK c \in Clients : Served(c, s)
      BY <3>1 DEF Answers, Exchange, Quiet, Asked, Served
    <3>3. /\ c \in Procs /\ c # s /\ c \in served /\ pc[c] = "recv"
          /\ path["client_dgram"] = c
          /\ \A t \in Servers : inbox[t] = <<>> /\ (t # s => ~Answering(t))
      BY <1>0, <3>2 DEF Served, Waits, Procs
    <3>4. inbox' = [inbox EXCEPT ![c] = Append(@, s)] /\ ret' = ret
      BY <1>3, <2>4, <3>3 DEF ServerSend, SendTo
    <3>5. \A q \in Procs \ {c} : inbox'[q] = inbox[q]
      BY <3>4 DEF PathInv, TypeOK
    <3>6. Quiet'
      <4>1. \A t \in Servers : inbox'[t] = <<>>
        BY <3>3, <3>5, UnixSocketAssumption DEF Procs
      <4>2. \A t \in Servers : ~Answering(t)'
        BY <2>1, <2>2, <3>3 DEF Answering, At, Procs
      <4> QED BY <4>1, <4>2 DEF Quiet
    <3>7. AnswerOf(c)'
      BY <2>1, <2>2, <3>3 DEF AnswerOf
    <3>8. \A d \in Clients \ {c} : AnswerOf(d)'
      BY <1>0, <2>1, <2>2, <3>4, <3>5 DEF Answers, AnswerOf, Procs
    <3> QED BY <3>6, <3>7, <3>8 DEF Answers, Exchange
  <2> QED BY <2>3, <2>4
<1> QED BY <1>1, <1>2, <1>3

\* The steps of a client.
LEMMA ClientAnswers ==
  ASSUME PathInv, Answers, NEW c \in Clients,
         Connect(c) \/ ClientWrite(c) \/ ClientRead(c) \/ ClientSend(c)
  PROVE  Answers'
<1>0. c \in Procs /\ c \notin Servers /\ AnswerOf(c) /\ ret \in [Procs -> {0, 1}]
  BY UnixSocketAssumption DEF Procs, Answers, PathInv, TypeOK
<1>1. CASE Dies(c)
  BY <1>0, <1>1, DiesAnswers
<1>2. CASE ~Dies(c) /\ ~ClientSend(c)
  <2>1. /\ stage[c] = "stream" /\ pc[c] \in {"connect", "write", "read"}
        /\ UNCHANGED <<stage, path, inbox, served>> /\ \A q \in Procs \ {c} : ret'[q] = ret[q]
    BY <1>0, <1>2 DEF Connect, ClientWrite, ClientRead, At, Fail, socketsUnchanged
  <2>2. PICK to \in {"write", "read", "close"} : Goto(c, to)
    BY <1>2 DEF Connect, ClientWrite, ClientRead, Fail, ClientCleanup
  <2>3. to \in Labels /\ pc'[c] = to
    BY <1>0, <2>2, GotoFacts DEF PathInv, Labels
  <2>4. AnswerOf(c)'
    BY <1>0, <2>1, <2>3 DEF AnswerOf
  <2> QED BY <1>0, <2>1, <2>2, <2>3, <2>4, RestAnswers DEF Waits
<1>3. CASE ClientSend(c)
  <2>1. stage[c] = "dgram" /\ pc[c] = "send" /\ UNCHANGED <<stage, path, served>>
    BY <1>3 DEF ClientSend, SendTo, At
  <2>2. inbox[c] = <<>>
    BY <1>0, <2>1 DEF AnswerOf
  <2>3. CASE path["server_dgram"] \notin Procs
    <3>1. inbox' = inbox /\ Goto(c, "unlink") /\ ret' = [ret EXCEPT ![c] = 1]
      BY <1>3, <2>3 DEF ClientSend, SendTo, Fail
    <3>2. ret'[c] = 1 /\ \A q \in Procs \ {c} : ret'[q] = ret[q]
      BY <1>0, <3>1
    <3>3. "unlink" \in Labels /\ pc'[c] = "unlink"
      BY <1>0, <3>1, GotoFacts DEF PathInv, Labels
    <3>4. AnswerOf(c)'
      BY <2>1, <2>2, <3>1, <3>2, <3>3 DEF AnswerOf
    <3> QED BY <1>0, <2>1, <3>1, <3>2, <3>3, <3>4, RestAnswers DEF Waits
  <2>4. CASE path["server_dgram"] \in Procs
    <3>1. PICK s \in Servers : path["server_dgram"] = s
      BY <2>4 DEF PathInv, Owners, PathOf, Paths, Procs
    <3>2. path["client_dgram"] = c
      BY <1>0, <2>1 DEF PathInv, Owners, Bound, PathOf
    <3>3. Quiet
      <4>1. \A d \in Clients : ~Waits(d)
        BY <2>1, <3>2 DEF Waits
      <4>2. path["client_dgram"] # "stale"
        BY <3>2, UnixSocketAssumption
      <4> QED BY <4>1, <4>2 DEF Answers, Exchange, Asked, Served
    <3>4. inbox' = [inbox EXCEPT ![s] = Append(@, c)] /\ Goto(c, "recv") /\ ret' = ret
      BY <1>3, <2>4, <3>1 DEF ClientSend, SendTo
    <3>5. pc'[c] = "recv" /\ \A q \in Procs \ {c} : pc'[q] = pc[q]
      BY <1>0, <3>4, GotoFacts DEF PathInv, Labels
    <3>6. inbox'[s] = <<c>> /\ \A q \in Procs \ {s} : inbox'[q] = inbox[q]
      <4>1. inbox[s] = <<>>
        BY <3>1, <3>3 DEF Quiet
      <4>2. inbox'[s] = Append(inbox[s], c) /\ \A q \in Procs \ {s} : inbox'[q] = inbox[q]
        BY <3>1, <3>4 DEF PathInv, TypeOK, Procs
      <4> QED BY <4>1, <4>2
    <3>7. Waits(c)'
      BY <1>0, <2>1, <2>2, <3>1, <3>2, <3>5, <3>6 DEF Waits
    <3>8. \A t \in Servers : ~Answering(t)' /\ (t # s => inbox'[t] = <<>>)
      BY <1>0, <2>1, <3>3, <3>5, <3>6 DEF Quiet, Answering, At, Procs
    <3>9. Asked(c, s)'
      BY <3>6, <3>7, <3>8 DEF Asked
    <3>10. AnswerOf(c)'
      BY <1>0, <2>2, <3>1, <3>5, <3>6 DEF AnswerOf
    <3>11. \A d \in Clients \ {c} : AnswerOf(d)'
      BY <2>1, <3>1, <3>4, <3>5, <3>6, UnixSocketAssumption DEF Answers, AnswerOf, Procs
    <3> QED BY <3>1, <3>9, <3>10, <3>11 DEF Answers, Exchange
  <2> QED BY <2>3, <2>4
<1> QED BY <1>1, <1>2, <1>3

\* AckInv holds initially.
LEMMA AckInit == Init => AckInv
<1> SUFFICES ASSUME Init PROVE AckInv
  OBVIOUS
<1>1. Quiet
  BY DEF Init, Quiet, Answering, At, Procs
<1>2. \A c \in Clients : AnswerOf(c)
  BY UnixSocketAssumption DEF Init, AnswerOf, Procs
<1> QED BY <1>1, <1>2, PathInit, ConnectionsInit DEF AckInv, Answers, Exchange

\* Whoever gave up, gave up for good.
LEMMA GaveupGrows == [Next]_vars => gaveup \subseteq gaveup'
<1> SUFFICES ASSUME [Next]_vars PROVE gaveup \subseteq gaveup'
  OBVIOUS
<1>1. CASE UNCHANGED vars
  BY <1>1 DEF vars
<1>2. ASSUME NEW p \in Procs, Step(p) \/ CallFails(p) \/ Kill(p)
      PROVE  gaveup \subseteq gaveup'
  <2>1. CASE CallFails(p)
    BY <2>1 DEF CallFails
  <2>2. CASE ~CallFails(p)
    <3>1. gaveup' = gaveup
      BY <1>2, <2>2
      DEF Step, Kill, Dies, CloseSockets, noFailure, Bind, Unlink, CloseSocket, Receive, Listen,
          Accept, ServerRead, ServerWrite, CloseConn, ServerSend, SendTo, Connect, ClientWrite,
          ClientRead, ClientSend
    <3> QED BY <3>1
  <2> QED BY <2>1, <2>2
<1> QED BY <1>1, <1>2 DEF Next

\* AckInv is inductive.
LEMMA AckStep == AckInv /\ [Next]_vars => AckInv'
<1> SUFFICES ASSUME AckInv, [Next]_vars PROVE AckInv'
  OBVIOUS
<1>1. PathInv /\ Connections
  BY DEF AckInv
<1>2. PathInv' /\ Connections'
  BY <1>1, PathStep, ConnectionsStep
<1>3. ASSUME gaveup' = {} PROVE Answers'
  <2>1. Answers
    BY <1>3, GaveupGrows DEF AckInv
  <2>2. UNCHANGED vars => Answers'
    BY <2>1 DEF vars, Answers, Exchange, AnswerOf, Quiet, Asked, Served, Waits, Answering, At
  <2>3. Next => Answers'
    BY <1>1, <1>3, <2>1, SharedAnswers, ReceiveAnswers, ServerAnswers, ClientAnswers
    DEF Next, Step
  <2> QED BY <2>2, <2>3
<1> QED BY <1>2, <1>3 DEF AckInv

\* A client that ends without an error was heard in the datagram part, and the answer it
\* read was its own, up to the moment a client's recvfrom fails: that one frees
\* client_dgram while its answer is under way, and the next client that binds the path
\* reads it as its own (server.c answers whoever is bound there).
THEOREM UnixAckedClientsWereServed == Spec => []AckedClientsWereServed
<1>1. AckInv => AckedClientsWereServed
  <2> SUFFICES ASSUME AckInv, gaveup = {}, NEW c \in Clients, pc[c] = "exited", ret[c] = 0
               PROVE  c \in served
    BY DEF AckedClientsWereServed
  <2>1. AnswerOf(c) /\ stage[c] \in {"stream", "dgram"}
    BY DEF AckInv, Answers, PathInv, TypeOK, Procs
  <2> QED BY <2>1 DEF AnswerOf
<1> QED BY <1>1, AckInit, AckStep, PTL DEF Spec
===============================================================================
