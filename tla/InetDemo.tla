------------------------------- MODULE InetDemo -------------------------------
(***************************************************************************)
(* src/linux-c/socket/inet-socket: a client sends two packets to a server  *)
(* over TCP and the server answers with two packets.  A packet is a        *)
(* metadata record (type and length) and a payload of that length, each    *)
(* written by one write and expected from one read.                        *)
(*                                                                         *)
(* TCP is a stream: what one write sent may arrive piece by piece, a piece *)
(* being 8 bytes here, and a read returns what is there.  Any call may     *)
(* fail and any process may be killed between two calls.  main returns 0   *)
(* whatever happened, so an end is told by how the function got there.     *)
(*                                                                         *)
(* External: a connection that was not accepted takes data too; a write to *)
(* a closed peer succeeds, fails or kills by SIGPIPE, depending on what    *)
(* the kernel has heard from the peer.                                     *)
(***************************************************************************)
EXTENDS Naturals, SequencesExt

CONSTANTS Server, Clients,
          Nobody          \* no client

ASSUME InetAssumption == Server \notin Clients /\ Nobody \notin Clients

Procs == Clients \cup {Server}

VARIABLES
  pc,        \* per process: start, accept, run, or how it ended
  backlog,   \* clients connected and not accepted yet
  conn,      \* the client the server has accepted
  op,        \* per process: the packet operation it is at, 1 .. 4
  part,      \* per process: metadata or payload, the part of the packet it is at
  expected,  \* per process: metadata.length of the packet it receives
  heap,      \* per process: the blocks it has allocated
  got,       \* per process: the payloads received
  up, down   \* per client: the pieces on the way to and from the server

progVars == <<op, part, expected, heap, got>>
vars == <<pc, backlog, conn, progVars, up, down>>

Ended == {"normal", "failed", "killed"}

Init ==
  /\ pc = [p \in Procs |-> "start"]
  /\ backlog = <<>>
  /\ conn = Nobody
  /\ op = [p \in Procs |-> 1]
  /\ part = [p \in Procs |-> "metadata"]
  /\ expected = [p \in Procs |-> 0]
  /\ heap = [p \in Procs |-> 0]
  /\ got = [p \in Procs |-> <<>>]
  /\ up = [c \in Clients |-> <<>>]
  /\ down = [c \in Clients |-> <<>>]

-------------------------------------------------------------------------------
(* Packets.                                                                *)

\* Mutant: the client waits for the server to speak first.
ListensFirst == <<"recv", "recv", "send", "send">>

ClientOps == <<"send", "send", "recv", "recv">>

\* Mutant: the server answers the first packet.
AnswersEarly == <<"recv", "send", "send", "recv">>

ServerOps == <<"recv", "recv", "send", "send">>

Ops(p) == IF p = Server THEN ServerOps ELSE ClientOps

MetadataSize == 2

\* Pieces of a string and an uint64_t from the client, of an integer array and a
\* struct from the server.
Lengths(p) == IF p = Server THEN <<2, 2>> ELSE <<2, 1>>

\* The i-th packet of p: its metadata and its payload, piece by piece.
Metadata(p, i) == [k \in 1 .. MetadataSize |-> <<p, i, "metadata", Lengths(p)[i]>>]
Payload(p, i) == [k \in 1 .. Lengths(p)[i] |-> <<p, i, "payload", k>>]

\* What p writes next.
Outgoing(p) ==
  LET i == Cardinality({k \in 1 .. op[p] : Ops(p)[k] = "send"})
  IN IF part[p] = "metadata" THEN Metadata(p, i) ELSE Payload(p, i)

-------------------------------------------------------------------------------
(* Starting and ending.                                                    *)

Open(p) == IF p = Server THEN conn # Nobody /\ pc[conn] \notin Ended
           ELSE p = conn \/ p \in Range(backlog)

\* The labels at the end of both functions: connection and listening socket are closed,
\* which resets the connections that were not accepted.
End(p, how) ==
  /\ pc' = [pc EXCEPT ![p] = how]
  /\ IF p = Server THEN backlog' = <<>> /\ conn' = Nobody ELSE UNCHANGED <<backlog, conn>>

inet4_listen ==
  /\ pc[Server] = "start"
  /\ pc' = [pc EXCEPT ![Server] = "accept"]
  /\ UNCHANGED <<backlog, conn, progVars, up, down>>

inet4_connect(c) ==
  /\ pc[c] = "start"
  /\ IF pc[Server] \in {"accept", "run"}
     THEN pc' = [pc EXCEPT ![c] = "run"] /\ backlog' = Append(backlog, c)
     ELSE pc' = [pc EXCEPT ![c] = "failed"] /\ UNCHANGED backlog
  /\ UNCHANGED <<conn, progVars, up, down>>

\* client_addrlen is not initialised: with some values accept takes the connection,
\* closes it and fails.
Accept ==
  /\ pc[Server] = "accept"
  /\ backlog # <<>>
  /\ \/ /\ conn' = Head(backlog)
        /\ backlog' = Tail(backlog)
        /\ pc' = [pc EXCEPT ![Server] = "run"]
     \/ End(Server, "failed")
  /\ UNCHANGED <<progVars, up, down>>

Kill(p) ==
  /\ pc[p] \notin Ended
  /\ End(p, "killed")
  /\ UNCHANGED <<progVars, up, down>>

-------------------------------------------------------------------------------
(* The two packet operations.                                              *)

Running(p, what) == pc[p] = "run" /\ Ops(p)[op[p]] = what

\* The packet operation is over: the next one, or the end of the function.
NextOp(p) ==
  /\ part' = [part EXCEPT ![p] = "metadata"]
  /\ IF op[p] = 4
     THEN End(p, "normal") /\ UNCHANGED op
     ELSE op' = [op EXCEPT ![p] = @ + 1] /\ UNCHANGED <<pc, backlog, conn>>

AdvanceSend(p) ==
  IF part[p] = "metadata"
  THEN part' = [part EXCEPT ![p] = "payload"] /\ UNCHANGED <<pc, backlog, conn, op>>
  ELSE NextOp(p)

Put(p, us) ==
  IF p = Server THEN down' = [down EXCEPT ![conn] = @ \o us] /\ UNCHANGED up
                ELSE up' = [up EXCEPT ![p] = @ \o us] /\ UNCHANGED down

\* send_packet: each of its two writes.
send_packet(p) ==
  /\ Running(p, "send")
  /\ IF Open(p)
     THEN Put(p, Outgoing(p)) /\ AdvanceSend(p)
     ELSE /\ \/ AdvanceSend(p)
             \/ \E how \in {"failed", "killed"} : End(p, how) /\ UNCHANGED <<op, part>>
          /\ UNCHANGED <<up, down>>
  /\ UNCHANGED <<expected, heap, got>>

\* A write fails or is cut short.
WriteFails(p) ==
  /\ Running(p, "send") /\ Open(p)
  /\ \E n \in 0 .. Len(Outgoing(p)) - 1 : Put(p, SubSeq(Outgoing(p), 1, n))
  /\ End(p, "failed")
  /\ UNCHANGED progVars

Incoming(p) == IF p = Server THEN up[conn] ELSE down[p]

Take(p, n) ==
  LET rest == SubSeq(Incoming(p), n + 1, Len(Incoming(p)))
  IN IF p = Server THEN up' = [up EXCEPT ![conn] = rest] /\ UNCHANGED down
                   ELSE down' = [down EXCEPT ![p] = rest] /\ UNCHANGED up

\* Mutant: the payload is forgotten.
FreesPacketOnly == 1

\* free_packet: the blocks it frees, packet and payload.
free_packet == 2

\* Mutant: whatever came is enough.
AnythingRead(n, size) == n # 0

\* Is a read of n pieces accepted where size were asked for?
FullyRead(n, size) == n = size

\* recv_payload: malloc and read of the metadata, malloc of the payload.  No sender sends
\* an empty payload.
recv_metadata(p) ==
  /\ Running(p, "recv") /\ part[p] = "metadata"
  /\ Incoming(p) # <<>> \/ ~Open(p)
  /\ \E n \in 0 .. Len(Incoming(p)) :
       /\ n \in 1 .. MetadataSize \/ (n = 0 /\ Incoming(p) = <<>>)
       /\ Take(p, n)
       /\ IF FullyRead(n, MetadataSize)
          THEN /\ part' = [part EXCEPT ![p] = "payload"]
               /\ expected' = [expected EXCEPT ![p] = Incoming(p)[n][4]]
               /\ heap' = [heap EXCEPT ![p] = @ + 2]
               /\ UNCHANGED <<pc, backlog, conn>>
          ELSE End(p, "failed") /\ UNCHANGED <<part, expected, heap>>
  /\ UNCHANGED <<op, got>>

\* recv_payload: read of the payload; on failure only the packet is freed.  On success
\* the caller prints and frees both.
recv_payload(p) ==
  /\ Running(p, "recv") /\ part[p] = "payload"
  /\ Incoming(p) # <<>> \/ ~Open(p)
  /\ \E n \in 0 .. Len(Incoming(p)) :
       /\ n \in 1 .. expected[p] \/ (n = 0 /\ Incoming(p) = <<>>)
       /\ Take(p, n)
       /\ IF FullyRead(n, expected[p])
          THEN /\ got' = [got EXCEPT ![p] = Append(@, SubSeq(Incoming(p), 1, n))]
               /\ heap' = [heap EXCEPT ![p] = @ - free_packet]
               /\ NextOp(p)
          ELSE /\ End(p, "failed")
               /\ heap' = [heap EXCEPT ![p] = @ - 1]
               /\ UNCHANGED <<op, part, got>>
  /\ UNCHANGED expected

\* A malloc or a read fails: the packet is freed, the payload is not.
ReadFails(p) ==
  /\ Running(p, "recv")
  /\ End(p, "failed")
  /\ heap' = [heap EXCEPT ![p] = IF part[p] = "payload" THEN @ - 1 ELSE @]
  /\ UNCHANGED <<op, part, expected, got, up, down>>

\* socket, bind, listen, accept or connect fails.
SetupFails(p) ==
  /\ pc[p] \in {"start", "accept"}
  /\ End(p, "failed")
  /\ UNCHANGED <<progVars, up, down>>

-------------------------------------------------------------------------------
Step(p) ==
  \/ p = Server /\ (inet4_listen \/ Accept)
  \/ p \in Clients /\ inet4_connect(p)
  \/ send_packet(p) \/ recv_metadata(p) \/ recv_payload(p)

Fault(p) == WriteFails(p) \/ ReadFails(p) \/ SetupFails(p) \/ Kill(p)

Next == \E p \in Procs : Step(p) \/ Fault(p)

\* Every process that can run is scheduled; nothing has to fail.
Fairness == \A p \in Procs : WF_vars(Step(p))

Spec == Init /\ [][Next]_vars /\ Fairness

-------------------------------------------------------------------------------
(* Properties.                                                             *)

Pieces == (Procs \X (1 .. 2) \X {"metadata", "payload"} \X (1 .. 2))

TypeOK ==
  /\ pc \in [Procs -> Ended \cup {"start", "accept", "run"}]
  /\ backlog \in Seq(Clients)
  /\ conn \in Clients \cup {Nobody}
  /\ op \in [Procs -> 1 .. 4]
  /\ part \in [Procs -> {"metadata", "payload"}]
  /\ expected \in [Procs -> 0 .. 2]
  /\ heap \in [Procs -> 0 .. 2]
  /\ got \in [Procs -> Seq(Seq(Pieces))]
  /\ up \in [Clients -> Seq(Pieces)]
  /\ down \in [Clients -> Seq(Pieces)]

\* Whatever TCP makes of the stream, a packet that is received is the packet that was
\* sent, whole and in order: pieces of one are never taken for those of another.
PacketsIntact ==
  /\ \A c \in Clients : IsPrefix(got[c], <<Payload(Server, 1), Payload(Server, 2)>>)
  /\ got[Server] # <<>> =>
       \E c \in Clients : IsPrefix(got[Server], <<Payload(c, 1), Payload(c, 2)>>)

\* A client that "terminates normally" has been served: the server received both of its
\* packets, and nobody else's, and sent all of its answer.  Whoever terminates normally
\* has freed every packet, and a failure loses one block at most, the payload it was
\* reading (free_packet and the error path of recv_payload).
NormalEndIsComplete ==
  /\ \A c \in Clients : pc[c] = "normal" =>
       /\ got[Server] = <<Payload(c, 1), Payload(c, 2)>>
       /\ pc[Server] # "failed"
  /\ \A p \in Procs : /\ pc[p] = "normal" => heap[p] = 0
                      /\ pc[p] = "failed" => heap[p] <= 1

\* The protocol does not deadlock: server and client never wait for each other, and a
\* client that is not accepted does not wait for ever.
ExchangeEnds == \A p \in Procs : pc[p] = "run" ~> pc[p] \in Ended
===============================================================================
