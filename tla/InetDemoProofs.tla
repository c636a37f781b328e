---------------------------- MODULE InetDemoProofs ----------------------------
(***************************************************************************)
(* Proofs about the TCP exchange, for any number of clients, any split of  *)
(* the stream, and failures and kills anywhere.                            *)
(*                                                                         *)
(* The argument: everything that a process writes in its life is one fixed *)
(* sequence of pieces (Item).  How many of them it has written, and how    *)
(* many its peer has taken, follows from where the two are in their        *)
(* programs (Sent, Taken); what is on the stream is the stretch between    *)
(* the two (UpFlow, DownFlow).  Since a short read ends the program, a     *)
(* record that is read begins where a record that was written begins.      *)
(***************************************************************************)
EXTENDS InetDemo, Integers, SequenceTheorems, FiniteSetTheorems, TLAPS

\* The pieces that p writes, and the k-th of them.  The first packet of both sides has
\* four, as has the second one of the server.
Total(p) == IF p = Server THEN 8 ELSE 7

Item(p, k) == LET i == IF k <= 4 THEN 1 ELSE 2
                  j == IF k <= 4 THEN k ELSE k - 4
              IN IF j <= 2 THEN <<p, i, "metadata", Lengths(p)[i]>>
                           ELSE <<p, i, "payload", j - 2>>

\* The pieces before a part of the i-th packet.
Begin(i, what) == 4 * (i - 1) + (IF what = "metadata" THEN 0 ELSE 2)

\* The packet that p sends or receives; less than 1 before, more than 2 after.
SendIndex(p) == IF p = Server THEN op[p] - 2 ELSE op[p]
RecvIndex(p) == IF p = Server THEN op[p] ELSE op[p] - 2

\* How far a process is with two packets of so many pieces.
Progress(p, i, total) == IF i < 1 THEN 0
                         ELSE IF i > 2 \/ pc[p] = "normal" THEN total
                         ELSE Begin(i, part[p])

Sent(p)  == Progress(p, SendIndex(p), Total(p))
Taken(p) == Progress(p, RecvIndex(p), IF p = Server THEN 7 ELSE 8)

\* The packets that p has received.
Packets(p) == IF RecvIndex(p) < 1 THEN 0
              ELSE IF RecvIndex(p) > 2 \/ pc[p] = "normal" THEN 2
              ELSE RecvIndex(p) - 1

\* The first n payloads of p.
FirstPayloads(p, n) == IF n = 0 THEN <<>>
                       ELSE IF n = 1 THEN <<Payload(p, 1)>>
                       ELSE <<Payload(p, 1), Payload(p, 2)>>

-------------------------------------------------------------------------------
\* s is what p writes after its first n pieces.
Flows(s, p, n) == /\ n + Len(s) <= Total(p)
                  /\ \A k \in 1 .. Len(s) : s[k] = Item(p, n + k)

Connections ==
  /\ pc[Server] = "run" <=> conn # Nobody
  /\ pc[Server] \notin {"accept", "run"} => backlog = <<>>
  /\ \A c \in Clients : /\ (c = conn \/ c \in Range(backlog)) => pc[c] # "start"
                       /\ pc[c] # "accept"

\* Before it runs, a process has done nothing.
Fresh(p) == pc[p] \in {"start", "accept"} => op[p] = 1 /\ part[p] = "metadata"

Connected(c) == c = conn \/ c \in Range(backlog)

\* What the server has taken of the pieces of c.
TakenFrom(c) == IF c = conn THEN Taken(Server) ELSE 0

UpFlow(c) ==
  /\ Connected(c) => /\ Flows(up[c], c, TakenFrom(c))
                     /\ pc[c] \in {"run", "normal"} => TakenFrom(c) + Len(up[c]) = Sent(c)
  /\ pc[c] = "start" => up[c] = <<>>

\* The server has received both packets of c.
Heard(c) == got[Server] = FirstPayloads(c, 2)

\* The pieces of the server that are at c or on their way.
Answered(c) == Taken(c) + Len(down[c])

DownFlow(c) ==
  /\ pc[c] \in {"start", "run"} =>
       /\ Flows(down[c], Server, Taken(c))
       /\ conn = c => Answered(c) = Sent(Server)
       /\ Answered(c) # 0 => Heard(c)
       /\ Answered(c) = 8 => pc[Server] = "normal"
  /\ pc[c] = "normal" => Heard(c) /\ pc[Server] = "normal"

\* The length of the payload that p receives.
Due(p) == IF p = Server /\ op[p] = 2 THEN 1 ELSE 2

\* A receiver knows the length of the payload it waits for, and has two blocks for it.
InPayload(p) == Ops(p)[op[p]] = "recv" /\ part[p] = "payload"

Blocks(p) ==
  /\ pc[p] \in {"start", "accept", "run"} => heap[p] = IF InPayload(p) THEN 2 ELSE 0
  /\ pc[p] = "normal" => heap[p] = 0
  /\ pc[p] = "failed" => heap[p] <= 1
  /\ InPayload(p) => expected[p] = Due(p)

Received ==
  /\ \A c \in Clients : got[c] = FirstPayloads(Server, Packets(c))
  /\ pc[Server] = "run" => got[Server] = FirstPayloads(conn, Packets(Server))
  /\ \/ got[Server] = <<>>
     \/ \E c \in Clients : got[Server] = FirstPayloads(c, Packets(Server))
  /\ pc[Server] \in {"start", "accept"} => got[Server] = <<>>

Flow == \A c \in Clients : UpFlow(c) /\ DownFlow(c)

InetInv == /\ TypeOK /\ Connections /\ Received /\ Flow
           /\ \A p \in Procs : Fresh(p) /\ Blocks(p)

-------------------------------------------------------------------------------
(* The pieces.                                                             *)

\* The lengths of the payloads of both sides.
LEMMA LengthsFacts ==
  ASSUME NEW p \in Procs
  PROVE  /\ Lengths(p)[1] = 2
         /\ Lengths(p)[2] = IF p = Server THEN 2 ELSE 1
BY DEF Lengths

\* What p receives and sends, and when.
LEMMA OpsFacts ==
  ASSUME NEW p \in Procs, TypeOK
  PROVE  /\ op[p] \in 1 .. 4
         /\ Ops(p)[op[p]] = "send" <=> SendIndex(p) \in 1 .. 2
         /\ Ops(p)[op[p]] = "recv" <=> RecvIndex(p) \in 1 .. 2
         /\ SendIndex(p) \in 1 .. 2 <=> ~(RecvIndex(p) \in 1 .. 2)
<1>1. op[p] \in 1 .. 4
  BY DEF TypeOK
<1>2. op[p] \in {1, 2, 3, 4}
  BY <1>1
<1>3. CASE p = Server
  BY <1>2, <1>3 DEF Ops, ServerOps, SendIndex, RecvIndex
<1>4. CASE p # Server
  BY <1>2, <1>4 DEF Ops, ClientOps, SendIndex, RecvIndex
<1> QED BY <1>1, <1>3, <1>4

\* The number of the packet that p sends.
LEMMA PacketNumber ==
  ASSUME NEW p \in Procs, TypeOK, SendIndex(p) \in 1 .. 2
  PROVE  Cardinality({k \in 1 .. op[p] : Ops(p)[k] = "send"}) = SendIndex(p)
<1> DEFINE S == {k \in 1 .. op[p] : Ops(p)[k] = "send"}
<1> SUFFICES Cardinality(S) = SendIndex(p)
  OBVIOUS
<1>1. \A a : Cardinality({a}) = 1 /\ IsFiniteSet({a})
  BY FS_Singleton
<1>2. \A a, b : a # b => Cardinality({a, b}) = 2
  <2> SUFFICES ASSUME NEW a, NEW b, a # b PROVE Cardinality({a, b}) = 2
    OBVIOUS
  <2>1. {a, b} = {a} \cup {b}
    OBVIOUS
  <2>2. Cardinality({a} \cup {b}) = IF b \in {a} THEN Cardinality({a}) ELSE Cardinality({a}) + 1
    BY <1>1, FS_AddElement
  <2> QED BY <1>1, <2>1, <2>2
<1>3. op[p] \in 1 .. 4
  BY OpsFacts
<1>4. CASE p = Server
  <2>1. op[p] \in {3, 4}
    BY <1>3, <1>4 DEF SendIndex
  <2>2. op[p] = 3 => S = {3}
    BY <1>4 DEF Ops, ServerOps
  <2>3. op[p] = 4 => S = {3, 4}
    BY <1>4 DEF Ops, ServerOps
  <2>4. Cardinality({3}) = 1 /\ Cardinality({3, 4}) = 2
    <3>1. 3 # 4
      OBVIOUS
    <3> QED BY <1>1, <1>2, <3>1, Zenon
  <2> HIDE DEF S
  <2>5. op[p] = 3 => Cardinality(S) = 1
    BY <2>2, <2>4
  <2>6. op[p] = 4 => Cardinality(S) = 2
    BY <2>3, <2>4
  <2> QED BY <1>4, <2>1, <2>5, <2>6 DEF SendIndex
<1>5. CASE p # Server
  <2>1. op[p] \in {1, 2}
    BY <1>3, <1>5 DEF SendIndex
  <2>2. op[p] = 1 => S = {1}
    BY <1>5 DEF Ops, ClientOps
  <2>3. op[p] = 2 => S = {1, 2}
    BY <1>5 DEF Ops, ClientOps
  <2>4. Cardinality({1}) = 1 /\ Cardinality({1, 2}) = 2
    <3>1. 1 # 2
      OBVIOUS
    <3> QED BY <1>1, <1>2, <3>1, Zenon
  <2> HIDE DEF S
  <2>5. op[p] = 1 => Cardinality(S) = 1
    BY <2>2, <2>4
  <2>6. op[p] = 2 => Cardinality(S) = 2
    BY <2>3, <2>4
  <2> QED BY <1>5, <2>1, <2>5, <2>6 DEF SendIndex
<1> QED BY <1>4, <1>5

\* A packet is a stretch of what its sender writes.
LEMMA PacketFacts ==
  ASSUME NEW p \in Procs, NEW i \in 1 .. 2
  PROVE  /\ Metadata(p, i) \in Seq(Pieces) /\ Len(Metadata(p, i)) = 2
         /\ \A k \in 1 .. 2 : Metadata(p, i)[k] = Item(p, Begin(i, "metadata") + k)
         /\ Payload(p, i) \in Seq(Pieces) /\ Len(Payload(p, i)) = Lengths(p)[i]
         /\ \A k \in 1 .. Lengths(p)[i] : Payload(p, i)[k] = Item(p, Begin(i, "payload") + k)
<1>1. Lengths(p)[i] \in 1 .. 2 /\ i \in {1, 2}
  BY LengthsFacts
<1>2. /\ \A k \in 1 .. 2 : <<p, i, "metadata", Lengths(p)[i]>> \in Pieces
      /\ \A k \in 1 .. Lengths(p)[i] : <<p, i, "payload", k>> \in Pieces
  BY <1>1 DEF Pieces
<1>3. /\ Metadata(p, i) = [k \in 1 .. 2 |-> <<p, i, "metadata", Lengths(p)[i]>>]
      /\ Payload(p, i) = [k \in 1 .. Lengths(p)[i] |-> <<p, i, "payload", k>>]
  BY DEF Metadata, Payload, MetadataSize
<1>4. Metadata(p, i) \in Seq(Pieces) /\ Len(Metadata(p, i)) = 2
  BY <1>2, <1>3
<1>5. Payload(p, i) \in Seq(Pieces) /\ Len(Payload(p, i)) = Lengths(p)[i]
  BY <1>1, <1>2, <1>3
<1>6. ASSUME NEW k \in 1 .. 2
      PROVE  Item(p, Begin(i, "metadata") + k) = <<p, i, "metadata", Lengths(p)[i]>>
  BY <1>1 DEF Item, Begin
<1>7. ASSUME NEW k \in 1 .. Lengths(p)[i]
      PROVE  Item(p, Begin(i, "payload") + k) = <<p, i, "payload", k>>
  BY <1>1 DEF Item, Begin
<1> QED BY <1>3, <1>4, <1>5, <1>6, <1>7

\* How many pieces the write of p that is due puts on the stream.
Size(p) == IF part[p] = "payload" THEN Lengths(p)[SendIndex(p)] ELSE 2

\* What p writes next is the next stretch of what it writes.
LEMMA OutgoingFacts ==
  ASSUME NEW p \in Procs, TypeOK, SendIndex(p) \in 1 .. 2
  PROVE  /\ Outgoing(p) \in Seq(Pieces) /\ Len(Outgoing(p)) = Size(p) /\ Size(p) \in 1 .. 2
         /\ \A k \in 1 .. Len(Outgoing(p)) :
              Outgoing(p)[k] = Item(p, Begin(SendIndex(p), part[p]) + k)
         /\ Begin(SendIndex(p), part[p]) + Size(p) <= Total(p)
<1>1. Outgoing(p) = IF part[p] = "metadata" THEN Metadata(p, SendIndex(p))
                                            ELSE Payload(p, SendIndex(p))
  BY PacketNumber DEF Outgoing
<1>2. part[p] \in {"metadata", "payload"}
  BY DEF TypeOK
<1>3. SendIndex(p) \in {1, 2} /\ Size(p) \in 1 .. 2
  BY <1>2, LengthsFacts DEF Size
<1>4. Begin(SendIndex(p), part[p]) + Size(p) <= Total(p)
  BY <1>2, <1>3, LengthsFacts DEF Size, Begin, Total
<1>5. CASE part[p] = "metadata"
  <2>1. Outgoing(p) = Metadata(p, SendIndex(p)) /\ Size(p) = 2
    BY <1>1, <1>5 DEF Size
  <2> QED BY <1>3, <1>4, <1>5, <2>1, PacketFacts
<1>6. CASE part[p] = "payload"
  <2>1. Outgoing(p) = Payload(p, SendIndex(p)) /\ Size(p) = Lengths(p)[SendIndex(p)]
    BY <1>1, <1>6 DEF Size
  <2> QED BY <1>3, <1>4, <1>6, <2>1, PacketFacts
<1> QED BY <1>2, <1>5, <1>6

-------------------------------------------------------------------------------
(* Streams.                                                                *)

\* What follows is put at the end.
LEMMA PutFlow ==
  ASSUME NEW p \in Procs, NEW s \in Seq(Pieces), NEW t \in Seq(Pieces), NEW n \in Nat,
         Flows(s, p, n), n + Len(s) + Len(t) <= Total(p),
         \A k \in 1 .. Len(t) : t[k] = Item(p, n + Len(s) + k)
  PROVE  /\ s \o t \in Seq(Pieces) /\ Len(s \o t) = Len(s) + Len(t)
         /\ Flows(s \o t, p, n)
<1>1. /\ s \o t \in Seq(Pieces) /\ Len(s \o t) = Len(s) + Len(t)
      /\ Len(s) \in Nat /\ Len(t) \in Nat
      /\ \A k \in 1 .. Len(s) + Len(t) :
           (s \o t)[k] = IF k <= Len(s) THEN s[k] ELSE t[k - Len(s)]
  BY ConcatProperties, LenProperties
<1>2. ASSUME NEW k \in 1 .. Len(s) + Len(t) PROVE (s \o t)[k] = Item(p, n + k)
  <2>1. CASE k <= Len(s)
    BY <1>1, <2>1 DEF Flows
  <2>2. CASE ~(k <= Len(s))
    <3>1. k - Len(s) \in 1 .. Len(t) /\ n + Len(s) + (k - Len(s)) = n + k
      BY <1>1, <2>2
    <3> QED BY <1>1, <2>2, <3>1
  <2> QED BY <2>1, <2>2
<1> QED BY <1>1, <1>2 DEF Flows

\* What was there first is taken first.
LEMMA TakeFlow ==
  ASSUME NEW p \in Procs, NEW s \in Seq(Pieces), NEW n \in Nat, NEW m \in 0 .. Len(s),
         Flows(s, p, n)
  PROVE  /\ SubSeq(s, m + 1, Len(s)) \in Seq(Pieces) /\ Len(SubSeq(s, m + 1, Len(s))) = Len(s) - m
         /\ Flows(SubSeq(s, m + 1, Len(s)), p, n + m)
         /\ SubSeq(s, 1, m) \in Seq(Pieces)
         /\ SubSeq(s, 1, m) = [k \in 1 .. m |-> Item(p, n + k)]
<1> DEFINE r == SubSeq(s, m + 1, Len(s))
           h == SubSeq(s, 1, m)
<1>1. Len(s) \in Nat /\ m \in Nat /\ m <= Len(s)
  BY LenProperties
<1>0. n + Len(s) <= Total(p) /\ Total(p) \in Nat
  BY DEF Flows, Total
<1>2. /\ Len(r) = Len(s) - m
      /\ \A k \in 1 .. Len(s) - m : r[k] = s[m + k]
  BY <1>1
<1>3. r \in Seq(Pieces)
  BY <1>1
<1> HIDE DEF r
<1>4. Flows(r, p, n + m)
  <2>1. n + m + Len(r) <= Total(p)
    BY <1>0, <1>1, <1>2
  <2>2. \A k \in 1 .. Len(r) : r[k] = Item(p, n + m + k)
    <3> SUFFICES ASSUME NEW k \in 1 .. Len(r) PROVE r[k] = Item(p, n + m + k)
      OBVIOUS
    <3>1. m + k \in 1 .. Len(s) /\ n + (m + k) = n + m + k
      BY <1>1, <1>2
    <3> QED BY <1>2, <3>1 DEF Flows
  <2> QED BY <2>1, <2>2 DEF Flows
<1> USE DEF r
<1>5. h \in Seq(Pieces) /\ h = [k \in 1 .. m |-> s[k]]
  BY <1>1
<1>6. \A k \in 1 .. m : s[k] = Item(p, n + k)
  BY <1>1 DEF Flows
<1> QED BY <1>2, <1>3, <1>4, <1>5, <1>6

-------------------------------------------------------------------------------
(* Places in the program.                                                  *)

\* Who does not move is as far as before.
LEMMA SamePlace ==
  ASSUME NEW p \in Procs, op'[p] = op[p], part'[p] = part[p],
         pc'[p] = "normal" <=> pc[p] = "normal"
  PROVE  /\ Sent(p)' = Sent(p) /\ Taken(p)' = Taken(p) /\ Packets(p)' = Packets(p)
         /\ InPayload(p)' <=> InPayload(p)
         /\ Due(p)' = Due(p)
BY DEF Sent, Taken, Packets, InPayload, Due, Progress, SendIndex, RecvIndex, Total, Begin, Ops

\* Where a process can be.
LEMMA AtOp ==
  ASSUME TypeOK, NEW p \in Procs
  PROVE  op[p] \in {1, 2, 3, 4} /\ part[p] \in {"metadata", "payload"}
BY DEF TypeOK

\* The ranges of these counters.
LEMMA PlaceTypes ==
  ASSUME TypeOK, NEW p \in Procs
  PROVE  /\ Sent(p) \in 0 .. Total(p) /\ Packets(p) \in 0 .. 2
         /\ Taken(p) \in 0 .. (IF p = Server THEN 7 ELSE 8)
         /\ Due(p) \in 1 .. 2
<1>1. op[p] \in {1, 2, 3, 4} /\ part[p] \in {"metadata", "payload"}
  BY DEF TypeOK
<1> QED BY <1>1 DEF Sent, Taken, Packets, Due, Progress, SendIndex, RecvIndex, Total, Begin

\* Whoever has sent a part is that much further.
LEMMA SendPlace ==
  ASSUME TypeOK, NEW p \in Procs, Running(p, "send"), AdvanceSend(p)
  PROVE  /\ Sent(p) = Begin(SendIndex(p), part[p]) /\ SendIndex(p) \in 1 .. 2
         /\ Sent(p)' = Sent(p) + Size(p)
         /\ Taken(p)' = Taken(p) /\ Packets(p)' = Packets(p)
         /\ ~InPayload(p) /\ ~InPayload(p)'
         /\ op' \in [Procs -> 1 .. 4] /\ part' \in [Procs -> {"metadata", "payload"}]
         /\ \A q \in Procs \ {p} : op'[q] = op[q] /\ part'[q] = part[q]
         /\ \/ UNCHANGED <<pc, backlog, conn>> /\ Sent(p)' # 8
            \/ p = Server /\ End(p, "normal") /\ Sent(p)' = 8
<1>1. /\ pc[p] = "run" /\ op[p] \in {1, 2, 3, 4} /\ SendIndex(p) \in 1 .. 2
      /\ part[p] \in {"metadata", "payload"} /\ ~InPayload(p)
  BY OpsFacts, AtOp DEF Running, InPayload
<1>2. Lengths(p)[1] = 2 /\ Lengths(p)[2] = IF p = Server THEN 2 ELSE 1
  BY LengthsFacts
<1>3. IF p = Server THEN op[p] \in {3, 4} ELSE op[p] \in {1, 2}
  BY <1>1 DEF SendIndex
<1>4. CASE part[p] = "metadata"
  <2>1. /\ part' = [part EXCEPT ![p] = "payload"] /\ UNCHANGED <<pc, backlog, conn, op>>
    BY <1>4 DEF AdvanceSend
  <2>2. /\ op' \in [Procs -> 1 .. 4] /\ part' \in [Procs -> {"metadata", "payload"}]
        /\ \A q \in Procs \ {p} : op'[q] = op[q] /\ part'[q] = part[q]
        /\ part'[p] = "payload" /\ op'[p] = op[p] /\ pc'[p] = "run"
    BY <1>1, <2>1 DEF TypeOK
  <2>3. /\ Sent(p) = Begin(SendIndex(p), part[p]) /\ Sent(p)' = Sent(p) + Size(p)
        /\ Sent(p)' # 8
        /\ Taken(p)' = Taken(p) /\ Packets(p)' = Packets(p)
    BY <1>1, <1>3, <1>4, <2>2
       DEF Sent, Taken, Packets, Progress, SendIndex, RecvIndex, Begin, Size, Total
  <2>4. ~InPayload(p)'
    BY <1>1, <2>2 DEF InPayload, Ops, Running
  <2> QED BY <1>1, <2>1, <2>2, <2>3, <2>4
<1>5. CASE part[p] = "payload" /\ op[p] # 4
  <2>1. /\ part' = [part EXCEPT ![p] = "metadata"] /\ UNCHANGED <<pc, backlog, conn>>
        /\ op' = [op EXCEPT ![p] = @ + 1]
    BY <1>5 DEF AdvanceSend, NextOp
  <2>2. /\ op' \in [Procs -> 1 .. 4] /\ part' \in [Procs -> {"metadata", "payload"}]
        /\ \A q \in Procs \ {p} : op'[q] = op[q] /\ part'[q] = part[q]
        /\ part'[p] = "metadata" /\ op'[p] = op[p] + 1 /\ pc'[p] = "run"
    BY <1>1, <1>5, <2>1 DEF TypeOK
  <2>3. /\ Sent(p) = Begin(SendIndex(p), part[p]) /\ Sent(p)' = Sent(p) + Size(p)
        /\ Sent(p)' # 8
        /\ Taken(p)' = Taken(p) /\ Packets(p)' = Packets(p)
    BY <1>1, <1>2, <1>3, <1>5, <2>2
       DEF Sent, Taken, Packets, Progress, SendIndex, RecvIndex, Begin, Size, Total
  <2>4. ~InPayload(p)'
    BY <2>2 DEF InPayload
  <2> QED BY <1>1, <2>1, <2>2, <2>3, <2>4
<1>6. CASE part[p] = "payload" /\ op[p] = 4
  <2>1. /\ part' = [part EXCEPT ![p] = "metadata"] /\ End(p, "normal") /\ op' = op
    BY <1>6 DEF AdvanceSend, NextOp
  <2>2. p = Server
    BY <1>3, <1>6
  <2>3. /\ op' \in [Procs -> 1 .. 4] /\ part' \in [Procs -> {"metadata", "payload"}]
        /\ \A q \in Procs \ {p} : op'[q] = op[q] /\ part'[q] = part[q]
        /\ part'[p] = "metadata" /\ op'[p] = 4 /\ pc'[p] = "normal"
    BY <1>1, <1>6, <2>1 DEF TypeOK, End
  <2>4. /\ Sent(p) = Begin(SendIndex(p), part[p]) /\ Sent(p)' = Sent(p) + Size(p)
        /\ Sent(p)' = 8 /\ Taken(p)' = Taken(p) /\ Packets(p)' = Packets(p)
    BY <1>1, <1>2, <1>6, <2>2, <2>3
       DEF Sent, Taken, Packets, Progress, SendIndex, RecvIndex, Begin, Size, Total
  <2>5. ~InPayload(p)'
    BY <2>3 DEF InPayload
  <2> QED BY <1>1, <2>1, <2>2, <2>3, <2>4, <2>5
<1> QED BY <1>1, <1>4, <1>5, <1>6

\* Whoever has read a metadata record waits for the payload.
LEMMA MetadataPlace ==
  ASSUME TypeOK, NEW p \in Procs, Running(p, "recv"), part[p] = "metadata",
         part' = [part EXCEPT ![p] = "payload"], UNCHANGED <<pc, op>>
  PROVE  /\ Taken(p) = Begin(RecvIndex(p), "metadata") /\ RecvIndex(p) \in 1 .. 2
         /\ Taken(p)' = Taken(p) + 2
         /\ Sent(p)' = Sent(p) /\ Packets(p)' = Packets(p)
         /\ ~InPayload(p) /\ InPayload(p)' /\ Due(p)' = Due(p)
         /\ part' \in [Procs -> {"metadata", "payload"}]
         /\ \A q \in Procs \ {p} : part'[q] = part[q]
<1>1. /\ pc[p] = "run" /\ op[p] \in {1, 2, 3, 4} /\ RecvIndex(p) \in 1 .. 2
      /\ Ops(p)[op[p]] = "recv"
  BY OpsFacts, AtOp DEF Running
<1>2. /\ part' \in [Procs -> {"metadata", "payload"}]
      /\ \A q \in Procs \ {p} : part'[q] = part[q]
      /\ part'[p] = "payload" /\ op'[p] = op[p] /\ pc'[p] = "run"
  BY <1>1 DEF TypeOK
<1>3. IF p = Server THEN op[p] \in {1, 2} ELSE op[p] \in {3, 4}
  BY <1>1 DEF RecvIndex
<1>4. /\ Taken(p) = Begin(RecvIndex(p), "metadata") /\ Taken(p)' = Taken(p) + 2
      /\ Sent(p)' = Sent(p) /\ Packets(p)' = Packets(p) /\ Due(p)' = Due(p)
  BY <1>1, <1>2, <1>3 DEF Sent, Taken, Packets, Progress, SendIndex, RecvIndex, Begin, Total, Due
<1>5. ~InPayload(p) /\ InPayload(p)'
  BY <1>1, <1>2 DEF InPayload, Ops
<1> QED BY <1>1, <1>2, <1>4, <1>5

\* Whoever has read a payload has one packet more.
LEMMA PayloadPlace ==
  ASSUME TypeOK, NEW p \in Procs, Running(p, "recv"), part[p] = "payload", NextOp(p)
  PROVE  /\ Taken(p) = Begin(RecvIndex(p), "payload") /\ RecvIndex(p) \in 1 .. 2
         /\ InPayload(p) /\ Taken(p)' = Taken(p) + Due(p)
         /\ Sent(p)' = Sent(p)
         /\ Packets(p) = RecvIndex(p) - 1 /\ Packets(p)' = Packets(p) + 1
         /\ ~InPayload(p)'
         /\ op' \in [Procs -> 1 .. 4] /\ part' \in [Procs -> {"metadata", "payload"}]
         /\ \A q \in Procs \ {p} : op'[q] = op[q] /\ part'[q] = part[q]
         /\ \/ UNCHANGED <<pc, backlog, conn>>
            \/ p # Server /\ End(p, "normal") /\ Taken(p)' = 8
<1>1. /\ pc[p] = "run" /\ op[p] \in {1, 2, 3, 4} /\ RecvIndex(p) \in 1 .. 2
      /\ Ops(p)[op[p]] = "recv"
  BY OpsFacts, AtOp DEF Running
<1>2. IF p = Server THEN op[p] \in {1, 2} ELSE op[p] \in {3, 4}
  BY <1>1 DEF RecvIndex
<1>3. part' = [part EXCEPT ![p] = "metadata"]
  BY DEF NextOp
<1>4. /\ part' \in [Procs -> {"metadata", "payload"}]
      /\ \A q \in Procs \ {p} : part'[q] = part[q]
      /\ part'[p] = "metadata"
  BY <1>3 DEF TypeOK
<1>5. InPayload(p) /\ ~InPayload(p)'
  BY <1>1, <1>4 DEF InPayload
<1>6. CASE op[p] # 4
  <2>1. op' = [op EXCEPT ![p] = @ + 1] /\ UNCHANGED <<pc, backlog, conn>>
    BY <1>6 DEF NextOp
  <2>2. /\ op' \in [Procs -> 1 .. 4] /\ op'[p] = op[p] + 1 /\ pc'[p] = "run"
        /\ \A q \in Procs \ {p} : op'[q] = op[q]
    BY <1>1, <1>6, <2>1 DEF TypeOK
  <2>3. /\ Taken(p) = Begin(RecvIndex(p), "payload") /\ Taken(p)' = Taken(p) + Due(p)
        /\ Sent(p)' = Sent(p)
        /\ Packets(p) = RecvIndex(p) - 1 /\ Packets(p)' = Packets(p) + 1
    BY <1>1, <1>2, <1>4, <1>6, <2>2
       DEF Sent, Taken, Packets, Progress, SendIndex, RecvIndex, Begin, Total, Due
  <2> QED BY <1>1, <1>4, <1>5, <2>1, <2>2, <2>3
<1>7. CASE op[p] = 4
  <2>1. op' = op /\ End(p, "normal") /\ p # Server
    BY <1>2, <1>7 DEF NextOp
  <2>2. op' \in [Procs -> 1 .. 4] /\ op'[p] = 4 /\ pc'[p] = "normal"
    BY <1>1, <1>7, <2>1 DEF TypeOK, End
  <2>3. /\ Taken(p) = Begin(RecvIndex(p), "payload") /\ Taken(p)' = Taken(p) + Due(p)
        /\ Sent(p)' = Sent(p) /\ Taken(p)' = 8
        /\ Packets(p) = RecvIndex(p) - 1 /\ Packets(p)' = Packets(p) + 1
    BY <1>1, <1>4, <1>7, <2>1, <2>2
       DEF Sent, Taken, Packets, Progress, SendIndex, RecvIndex, Begin, Total, Due
  <2> QED BY <1>1, <1>4, <1>5, <2>1, <2>2, <2>3
<1> QED BY <1>6, <1>7

-------------------------------------------------------------------------------
(* Steps that end a process.                                               *)

\* Streams that a step does not touch, between processes that it does not move.
LEMMA FlowFrame ==
  ASSUME NEW c \in Clients, UpFlow(c), DownFlow(c),
         pc'[c] = pc[c], op'[c] = op[c], part'[c] = part[c],
         up'[c] = up[c], down'[c] = down[c], got'[Server] = got[Server],
         Connected(c)' => Connected(c) /\ TakenFrom(c)' = TakenFrom(c),
         conn' = c => conn = c /\ Sent(Server)' = Sent(Server),
         pc[Server] = "normal" => pc'[Server] = "normal"
  PROVE  UpFlow(c)' /\ DownFlow(c)'
<1>1. Sent(c)' = Sent(c) /\ Taken(c)' = Taken(c)
  BY SamePlace DEF Procs
<1>2. UpFlow(c)'
  BY <1>1 DEF UpFlow, Flows
<1>3. DownFlow(c)'
  BY <1>1 DEF DownFlow, Flows, Answered, Heard
<1> QED BY <1>2, <1>3

\* A process that fails or is killed leaves a part of a packet at most on the stream.
LEMMA StopKeeps ==
  ASSUME InetInv, NEW p \in Procs, NEW how \in {"failed", "killed"},
         pc[p] \notin Ended, End(p, how), UNCHANGED <<op, part, expected, got>>,
         heap' \in [Procs -> 0 .. 2], how = "failed" => heap'[p] <= 1,
         \A q \in Procs \ {p} : heap'[q] = heap[q],
         up' \in [Clients -> Seq(Pieces)], down' \in [Clients -> Seq(Pieces)],
         p = Server => /\ \A c \in Clients \ {conn} : up'[c] = up[c] /\ down'[c] = down[c]
                       /\ \A c \in Clients : \/ down'[c] = down[c]
                                             \/ /\ Flows(down'[c], Server, Taken(c))
                                                /\ Taken(c) + Len(down'[c]) # 8
                                                /\ Heard(c),
         p # Server => /\ \A c \in Clients \ {p} : up'[c] = up[c] /\ down'[c] = down[c]
                       /\ pc[p] = "start" => up'[p] = up[p]
                       /\ Connected(p) => Flows(up'[p], p, TakenFrom(p))
  PROVE  InetInv'
<1> USE DEF Ended
<1>1. TypeOK /\ Connections /\ Received /\ Flow /\ \A q \in Procs : Fresh(q) /\ Blocks(q)
  BY DEF InetInv
<1>2. /\ pc' \in [Procs -> Ended \cup {"start", "accept", "run"}]
      /\ pc'[p] = how /\ \A q \in Procs \ {p} : pc'[q] = pc[q]
  BY <1>1 DEF TypeOK, End
<1>3. ASSUME NEW q \in Procs
      PROVE  /\ Sent(q)' = Sent(q) /\ Taken(q)' = Taken(q) /\ Packets(q)' = Packets(q)
             /\ InPayload(q)' <=> InPayload(q)
             /\ Due(q)' = Due(q)
  <2>1. pc'[q] = "normal" <=> pc[q] = "normal"
    BY <1>2
  <2> QED BY <2>1, SamePlace
<1>4. TypeOK'
  <2>1. backlog' \in Seq(Clients) /\ conn' \in Clients \cup {Nobody}
    <3>1. backlog \in Seq(Clients) /\ conn \in Clients \cup {Nobody} /\ <<>> \in Seq(Clients)
      BY <1>1 DEF TypeOK
    <3> QED BY <3>1 DEF End
  <2>2. UNCHANGED <<op, part, expected, got>> /\ heap' \in [Procs -> 0 .. 2]
    OBVIOUS
  <2>3. up' \in [Clients -> Seq(Pieces)] /\ down' \in [Clients -> Seq(Pieces)]
    OBVIOUS
  <2> QED BY <1>1, <1>2, <2>1, <2>2, <2>3 DEF TypeOK
<1>5. \A q \in Procs : Fresh(q)' /\ Blocks(q)'
  <2> SUFFICES ASSUME NEW q \in Procs PROVE Fresh(q)' /\ Blocks(q)'
    OBVIOUS
  <2>1. Fresh(q) /\ Blocks(q)
    BY <1>1
  <2>2. CASE q = p
    BY <1>2, <1>3, <2>1, <2>2 DEF Fresh, Blocks
  <2>3. CASE q # p
    <3>1. pc'[q] = pc[q] /\ heap'[q] = heap[q]
      BY <1>2, <2>3
    <3> QED BY <1>3, <2>1, <3>1 DEF Fresh, Blocks
  <2> QED BY <2>2, <2>3
<1>6. Clients \subseteq Procs /\ Server \in Procs
  BY DEF Procs
<1>7. CASE p = Server
  <2>1. backlog' = <<>> /\ conn' = Nobody
    BY <1>7 DEF End
  <2>2. pc'[Server] = how /\ pc[Server] # "normal" /\ \A c \in Clients : pc'[c] = pc[c]
    BY <1>2, <1>6, <1>7, InetAssumption
  <2>3. \A c \in Clients : ~Connected(c)' /\ c # conn'
    <3>1. Range(<<>>) = {}
      BY DEF Range
    <3> QED BY <2>1, <3>1, InetAssumption DEF Connected
  <2>4. Connections'
    <3>1. \A c \in Clients : pc[c] # "accept"
      BY <1>1 DEF Connections
    <3>2. how # "run"
      OBVIOUS
    <3> QED BY <2>1, <2>2, <2>3, <3>1, <3>2 DEF Connections, Connected
  <2>5. Received'
    <3>1. \A c \in Clients : got'[c] = FirstPayloads(Server, Packets(c)')
      BY <1>1, <1>3, <1>6 DEF Received
    <3>2. \/ got'[Server] = <<>>
          \/ \E c \in Clients : got'[Server] = FirstPayloads(c, Packets(Server)')
      BY <1>1, <1>3, <1>6 DEF Received
    <3> QED BY <2>2, <3>1, <3>2 DEF Received, FirstPayloads, Payload, Lengths
  <2>6. ASSUME NEW c \in Clients PROVE UpFlow(c)' /\ DownFlow(c)'
    <3>1. UpFlow(c) /\ DownFlow(c)
      BY <1>1 DEF Flow
    <3>2. UpFlow(c)'
      <4>1. pc[c] = "start" => c # conn
        BY <1>1 DEF Connections
      <4> QED BY <1>7, <2>2, <2>3, <3>1, <4>1 DEF UpFlow
    <3>3. Taken(c)' = Taken(c) /\ (Heard(c)' <=> Heard(c)) /\ pc'[c] = pc[c]
      BY <1>3, <1>6, <2>2 DEF Heard, FirstPayloads, Payload, Lengths
    <3>4. pc[c] # "normal"
      BY <2>2, <3>1 DEF DownFlow
    <3>5. ASSUME pc[c] \in {"start", "run"}
          PROVE  /\ Flows(down'[c], Server, Taken(c))
                 /\ Taken(c) + Len(down'[c]) # 8
                 /\ Taken(c) + Len(down'[c]) # 0 => Heard(c)
      <4>1. CASE down'[c] = down[c]
        BY <2>2, <3>1, <3>5, <4>1 DEF DownFlow, Answered
      <4>2. CASE down'[c] # down[c]
        BY <1>7, <4>2
      <4> QED BY <4>1, <4>2
    <3>6. c # conn'
      BY <2>3
    <3>7. DownFlow(c)'
      BY <3>3, <3>4, <3>5, <3>6 DEF DownFlow, Flows, Answered
    <3> QED BY <3>2, <3>7
  <2> QED BY <1>4, <1>5, <2>4, <2>5, <2>6 DEF InetInv, Flow
<1>8. CASE p # Server
  <2>1. UNCHANGED <<backlog, conn>> /\ p \in Clients
    BY <1>8 DEF End, Procs
  <2>2. pc'[Server] = pc[Server] /\ \A c \in Clients \ {p} : pc'[c] = pc[c]
    BY <1>2, <1>6, <1>8
  <2>3. \A c \in Clients : (Connected(c)' <=> Connected(c)) /\ TakenFrom(c)' = TakenFrom(c)
    BY <1>3, <1>6, <2>1 DEF Connected, TakenFrom
  <2>4. Connections'
    <3>1. Connections /\ pc'[p] # "start" /\ pc'[p] # "accept"
      BY <1>1, <1>2
    <3> QED BY <2>1, <2>2, <3>1 DEF Connections
  <2>5. Received'
    <3>1. \A c \in Clients : got'[c] = FirstPayloads(Server, Packets(c)')
      BY <1>1, <1>3, <1>6 DEF Received
    <3>2. \/ got'[Server] = <<>>
          \/ \E c \in Clients : got'[Server] = FirstPayloads(c, Packets(Server)')
      BY <1>1, <1>3, <1>6 DEF Received
    <3>3. /\ pc'[Server] = "run" => got'[Server] = FirstPayloads(conn', Packets(Server)')
          /\ pc'[Server] \in {"start", "accept"} => got'[Server] = <<>>
      BY <1>1, <1>3, <1>6, <2>1, <2>2 DEF Received
    <3> QED BY <3>1, <3>2, <3>3 DEF Received, FirstPayloads, Payload, Lengths
  <2>6. ASSUME NEW c \in Clients PROVE UpFlow(c)' /\ DownFlow(c)'
    <3>1. UpFlow(c) /\ DownFlow(c)
      BY <1>1 DEF Flow
    <3>2. CASE c = p
      <4>1. UpFlow(c)'
        BY <1>2, <1>8, <2>3, <3>2 DEF UpFlow, Flows
      <4>2. DownFlow(c)'
        BY <1>2, <3>2 DEF DownFlow
      <4> QED BY <4>1, <4>2
    <3>3. CASE c # p
      BY <1>3, <1>6, <1>8, <2>1, <2>2, <2>3, <3>1, <3>3, FlowFrame
    <3> QED BY <3>2, <3>3
  <2> QED BY <1>4, <1>5, <2>4, <2>5, <2>6 DEF InetInv, Flow
<1> QED BY <1>7, <1>8

\* A process that is killed, or fails, without touching a stream.
LEMMA QuietStop ==
  ASSUME InetInv, NEW p \in Procs, NEW how \in {"failed", "killed"},
         pc[p] \notin Ended, End(p, how), UNCHANGED <<op, part, expected, got, up, down>>,
         heap' \in [Procs -> 0 .. 2], how = "failed" => heap'[p] <= 1,
         \A q \in Procs \ {p} : heap'[q] = heap[q]
  PROVE  InetInv'
<1>1. up' \in [Clients -> Seq(Pieces)] /\ down' \in [Clients -> Seq(Pieces)]
  BY DEF InetInv, TypeOK
<1>2. p # Server => p \in Clients
  BY DEF Procs
<1>3. p # Server /\ Connected(p) => Flows(up'[p], p, TakenFrom(p))
  BY <1>2 DEF InetInv, Flow, UpFlow
<1> QED BY <1>1, <1>3, StopKeeps

\* What a receiver finds on its stream.
Source(p) == IF p = Server THEN conn ELSE Server

LEMMA IncomingFacts ==
  ASSUME InetInv, NEW p \in Procs, Running(p, "recv")
  PROVE  /\ Source(p) \in Procs /\ (p = Server => conn \in Clients) /\ (p # Server => p \in Clients)
         /\ Incoming(p) \in Seq(Pieces) /\ Taken(p) \in Nat
         /\ Flows(Incoming(p), Source(p), Taken(p))
         /\ p = Server => Connected(conn) /\ TakenFrom(conn) = Taken(Server)
<1>1. TypeOK /\ Connections /\ Flow /\ pc[p] = "run"
  BY DEF InetInv, Running
<1>2. conn \in Clients \cup {Nobody} /\ up \in [Clients -> Seq(Pieces)]
      /\ down \in [Clients -> Seq(Pieces)]
  BY <1>1 DEF TypeOK
<1>3. Taken(p) \in Nat
  BY <1>1, PlaceTypes
<1>4. CASE p = Server
  <2>1. conn \in Clients /\ Connected(conn) /\ TakenFrom(conn) = Taken(Server)
    BY <1>1, <1>2, <1>4 DEF Connections, Connected, TakenFrom
  <2>2. Flows(up[conn], conn, Taken(Server))
    BY <1>1, <2>1 DEF Flow, UpFlow
  <2> QED BY <1>2, <1>3, <1>4, <2>1, <2>2 DEF Source, Incoming, Procs
<1>5. CASE p # Server
  <2>1. p \in Clients
    BY <1>5 DEF Procs
  <2>2. Flows(down[p], Server, Taken(p))
    BY <1>1, <2>1 DEF Flow, DownFlow
  <2> QED BY <1>2, <1>3, <1>5, <2>1, <2>2 DEF Source, Incoming, Procs
<1> QED BY <1>4, <1>5

\* The stream after the read.
LEMMA TakeFacts ==
  ASSUME InetInv, NEW p \in Procs, Running(p, "recv"), NEW n \in 0 .. Len(Incoming(p)), Take(p, n)
  PROVE  /\ up' \in [Clients -> Seq(Pieces)] /\ down' \in [Clients -> Seq(Pieces)]
         /\ IF p = Server
            THEN /\ down' = down /\ \A c \in Clients \ {conn} : up'[c] = up[c]
                 /\ Flows(up'[conn], conn, Taken(Server) + n)
                 /\ Len(up'[conn]) = Len(up[conn]) - n
            ELSE /\ up' = up /\ \A c \in Clients \ {p} : down'[c] = down[c]
                 /\ Flows(down'[p], Server, Taken(p) + n)
                 /\ Len(down'[p]) = Len(down[p]) - n
         /\ SubSeq(Incoming(p), 1, n) \in Seq(Pieces)
         /\ SubSeq(Incoming(p), 1, n) = [k \in 1 .. n |-> Item(Source(p), Taken(p) + k)]
<1> DEFINE rest == SubSeq(Incoming(p), n + 1, Len(Incoming(p)))
<1>1. /\ Source(p) \in Procs /\ (p = Server => conn \in Clients) /\ (p # Server => p \in Clients)
      /\ Incoming(p) \in Seq(Pieces) /\ Taken(p) \in Nat
      /\ Flows(Incoming(p), Source(p), Taken(p))
  BY IncomingFacts
<1>2. /\ rest \in Seq(Pieces) /\ Len(rest) = Len(Incoming(p)) - n
      /\ Flows(rest, Source(p), Taken(p) + n)
      /\ SubSeq(Incoming(p), 1, n) \in Seq(Pieces)
      /\ SubSeq(Incoming(p), 1, n) = [k \in 1 .. n |-> Item(Source(p), Taken(p) + k)]
  BY <1>1, TakeFlow
<1>3. up \in [Clients -> Seq(Pieces)] /\ down \in [Clients -> Seq(Pieces)]
  BY DEF InetInv, TypeOK
<1>4. IF p = Server THEN up' = [up EXCEPT ![conn] = rest] /\ UNCHANGED down
                    ELSE down' = [down EXCEPT ![p] = rest] /\ UNCHANGED up
  BY DEF Take
<1> HIDE DEF rest
<1>5. CASE p = Server
  <2>1. /\ up' \in [Clients -> Seq(Pieces)] /\ down' = down /\ up'[conn] = rest
        /\ \A c \in Clients \ {conn} : up'[c] = up[c]
    BY <1>1, <1>2, <1>3, <1>4, <1>5
  <2>2. Source(p) = conn /\ Incoming(p) = up[conn]
    BY <1>5 DEF Source, Incoming
  <2> QED BY <1>2, <1>3, <1>5, <2>1, <2>2
<1>6. CASE p # Server
  <2>1. /\ down' \in [Clients -> Seq(Pieces)] /\ up' = up /\ down'[p] = rest
        /\ \A c \in Clients \ {p} : down'[c] = down[c]
    BY <1>1, <1>2, <1>3, <1>4, <1>6
  <2>2. Source(p) = Server /\ Incoming(p) = down[p]
    BY <1>6 DEF Source, Incoming
  <2> QED BY <1>2, <1>3, <1>6, <2>1, <2>2
<1> QED BY <1>5, <1>6

\* A read that fails, or is short, is the last thing a process does.
LEMMA TakeStops ==
  ASSUME InetInv, NEW p \in Procs, Running(p, "recv"), NEW n \in 0 .. Len(Incoming(p)), Take(p, n),
         End(p, "failed"), UNCHANGED <<op, part, expected, got>>,
         heap' \in [Procs -> 0 .. 2], heap'[p] <= 1,
         \A q \in Procs \ {p} : heap'[q] = heap[q]
  PROVE  InetInv'
<1>1. pc[p] = "run" /\ pc[p] \notin Ended
  BY DEF Running, Ended
<1>2. /\ up' \in [Clients -> Seq(Pieces)] /\ down' \in [Clients -> Seq(Pieces)]
      /\ p = Server => down' = down /\ \A c \in Clients \ {conn} : up'[c] = up[c]
      /\ p # Server => up' = up /\ \A c \in Clients \ {p} : down'[c] = down[c]
  BY TakeFacts
<1>3. p # Server => p \in Clients
  BY DEF Procs
<1>4. p # Server /\ Connected(p) => Flows(up'[p], p, TakenFrom(p))
  BY <1>2, <1>3 DEF InetInv, Flow, UpFlow
<1> QED BY <1>1, <1>2, <1>4, StopKeeps

\* A sender is where its packet begins.
LEMMA SentBegin ==
  ASSUME TypeOK, NEW p \in Procs, Running(p, "send")
  PROVE  /\ SendIndex(p) \in 1 .. 2 /\ Sent(p) = Begin(SendIndex(p), part[p])
         /\ p = Server => Packets(p) = 2
         /\ ~InPayload(p)
<1>1. /\ pc[p] = "run" /\ op[p] \in {1, 2, 3, 4} /\ SendIndex(p) \in 1 .. 2 /\ ~InPayload(p)
  BY OpsFacts, AtOp DEF Running, InPayload
<1> QED BY <1>1 DEF Sent, Packets, Progress, SendIndex, RecvIndex

\* The stream after a write, of all that was due or the first part of it.
LEMMA PutFacts ==
  ASSUME InetInv, NEW p \in Procs, Running(p, "send"), Open(p), NEW us \in Seq(Pieces),
         Len(us) <= Size(p), \A k \in 1 .. Len(us) : us[k] = Outgoing(p)[k], Put(p, us)
  PROVE  /\ up' \in [Clients -> Seq(Pieces)] /\ down' \in [Clients -> Seq(Pieces)]
         /\ IF p = Server
            THEN /\ conn \in Clients /\ pc[conn] = "run" /\ Heard(conn)
                 /\ up' = up /\ \A c \in Clients \ {conn} : down'[c] = down[c]
                 /\ Flows(down'[conn], Server, Taken(conn))
                 /\ Taken(conn) + Len(down'[conn]) = Sent(Server) + Len(us)
            ELSE /\ p \in Clients /\ Connected(p)
                 /\ down' = down /\ \A c \in Clients \ {p} : up'[c] = up[c]
                 /\ Flows(up'[p], p, TakenFrom(p))
                 /\ TakenFrom(p) + Len(up'[p]) = Sent(p) + Len(us)
<1>1. TypeOK /\ Connections /\ Flow /\ Received /\ pc[p] = "run"
  BY DEF InetInv, Running
<1>2. /\ up \in [Clients -> Seq(Pieces)] /\ down \in [Clients -> Seq(Pieces)]
      /\ pc \in [Procs -> Ended \cup {"start", "accept", "run"}]
      /\ conn \in Clients \cup {Nobody}
  BY <1>1 DEF TypeOK
<1>3. /\ SendIndex(p) \in 1 .. 2 /\ Sent(p) = Begin(SendIndex(p), part[p])
      /\ p = Server => Packets(p) = 2
  BY <1>1, SentBegin
<1>4. Sent(p) \in Nat /\ Total(p) \in Nat /\ Server \in Procs
  BY <1>1, PlaceTypes DEF Total, Procs
<1>5. /\ Size(p) \in 1 .. 2 /\ Sent(p) + Size(p) <= Total(p)
      /\ \A k \in 1 .. Len(us) : us[k] = Item(p, Sent(p) + k)
  <2>1. /\ Len(Outgoing(p)) = Size(p) /\ Size(p) \in 1 .. 2
        /\ \A k \in 1 .. Len(Outgoing(p)) : Outgoing(p)[k] = Item(p, Sent(p) + k)
        /\ Sent(p) + Size(p) <= Total(p)
    BY <1>1, <1>3, OutgoingFacts
  <2>2. Len(us) \in Nat
    BY LenProperties
  <2> QED BY <2>1, <2>2
<1>6. Len(us) \in Nat /\ Sent(p) + Len(us) <= Total(p)
  BY <1>4, <1>5, LenProperties
<1>7. ASSUME NEW s \in Seq(Pieces), NEW n \in Nat, Flows(s, p, n), n + Len(s) = Sent(p)
      PROVE  /\ s \o us \in Seq(Pieces) /\ Flows(s \o us, p, n)
             /\ n + Len(s \o us) = Sent(p) + Len(us)
  <2>1. Len(s) \in Nat
    BY <1>7, LenProperties
  <2>2. /\ n + Len(s) + Len(us) <= Total(p)
        /\ \A k \in 1 .. Len(us) : us[k] = Item(p, n + Len(s) + k)
    BY <1>5, <1>6, <1>7
  <2>3. /\ s \o us \in Seq(Pieces) /\ Len(s \o us) = Len(s) + Len(us)
        /\ Flows(s \o us, p, n)
    BY <1>7, <2>2, PutFlow
  <2> QED BY <1>4, <1>6, <1>7, <2>1, <2>3
<1>8. CASE p = Server
  <2>1. conn \in Clients /\ pc[conn] \notin Ended
    BY <1>2, <1>8 DEF Open
  <2>2. pc[conn] = "run"
    <3>1. pc[conn] # "start" /\ pc[conn] # "accept"
      BY <1>1, <2>1 DEF Connections
    <3>2. pc[conn] \in Ended \cup {"start", "accept", "run"}
      BY <1>2, <2>1 DEF Procs
    <3> QED BY <2>1, <3>1, <3>2
  <2>3. Heard(conn)
    BY <1>1, <1>3, <1>8 DEF Received, Heard
  <2>4. /\ Flows(down[conn], Server, Taken(conn))
        /\ Taken(conn) + Len(down[conn]) = Sent(Server)
    BY <1>1, <2>1, <2>2 DEF Flow, DownFlow, Answered
  <2>5. Taken(conn) \in Nat /\ down[conn] \in Seq(Pieces)
    <3>1. conn \in Procs
      BY <2>1 DEF Procs
    <3>2. Taken(conn) \in 0 .. (IF conn = Server THEN 7 ELSE 8)
      BY <1>1, <3>1, PlaceTypes
    <3> QED BY <1>2, <2>1, <3>2
  <2>6. /\ down[conn] \o us \in Seq(Pieces) /\ Flows(down[conn] \o us, Server, Taken(conn))
        /\ Taken(conn) + Len(down[conn] \o us) = Sent(Server) + Len(us)
    BY <1>7, <1>8, <2>4, <2>5
  <2>7. up' = up /\ down' = [down EXCEPT ![conn] = down[conn] \o us]
    BY <1>8 DEF Put
  <2>8. /\ down' \in [Clients -> Seq(Pieces)] /\ down'[conn] = down[conn] \o us
        /\ \A c \in Clients \ {conn} : down'[c] = down[c]
    BY <1>2, <2>1, <2>6, <2>7
  <2> QED BY <1>2, <1>8, <2>1, <2>2, <2>3, <2>6, <2>7, <2>8
<1>9. CASE p # Server
  <2>1. p \in Clients /\ Connected(p)
    BY <1>9 DEF Open, Procs, Connected
  <2>2. Flows(up[p], p, TakenFrom(p)) /\ TakenFrom(p) + Len(up[p]) = Sent(p)
    BY <1>1, <2>1 DEF Flow, UpFlow
  <2>3. TakenFrom(p) \in Nat /\ up[p] \in Seq(Pieces)
    <3>1. Taken(Server) \in Nat
      BY <1>1, <1>4, PlaceTypes
    <3> QED BY <1>2, <2>1, <3>1 DEF TakenFrom
  <2>4. /\ up[p] \o us \in Seq(Pieces) /\ Flows(up[p] \o us, p, TakenFrom(p))
        /\ TakenFrom(p) + Len(up[p] \o us) = Sent(p) + Len(us)
    BY <1>7, <2>2, <2>3
  <2>5. down' = down /\ up' = [up EXCEPT ![p] = up[p] \o us]
    BY <1>9 DEF Put
  <2>6. /\ up' \in [Clients -> Seq(Pieces)] /\ up'[p] = up[p] \o us
        /\ \A c \in Clients \ {p} : up'[c] = up[c]
    BY <1>2, <2>1, <2>4, <2>5
  <2> QED BY <1>2, <1>9, <2>1, <2>4, <2>5, <2>6
<1> QED BY <1>8, <1>9

\* A write that fails or is cut short is the last thing a process does.
LEMMA WriteFailsKeeps ==
  ASSUME InetInv, NEW p \in Procs, WriteFails(p)
  PROVE  InetInv'
<1>1. Running(p, "send") /\ Open(p) /\ End(p, "failed") /\ UNCHANGED progVars /\ TypeOK
  BY DEF WriteFails, InetInv
<1>2. /\ SendIndex(p) \in 1 .. 2 /\ ~InPayload(p)
  BY <1>1, SentBegin
<1>3. /\ Outgoing(p) \in Seq(Pieces) /\ Len(Outgoing(p)) = Size(p) /\ Size(p) \in 1 .. 2
      /\ Sent(p) + Size(p) <= Total(p) /\ Sent(p) \in Nat
  BY <1>1, <1>2, SentBegin, OutgoingFacts, PlaceTypes DEF Total
<1>4. PICK n \in 0 .. Len(Outgoing(p)) - 1 : Put(p, SubSeq(Outgoing(p), 1, n))
  BY DEF WriteFails
<1> DEFINE us == SubSeq(Outgoing(p), 1, n)
<1>5. /\ us \in Seq(Pieces) /\ Len(us) = n /\ n < Size(p) /\ n \in Nat
      /\ \A k \in 1 .. n : us[k] = Outgoing(p)[k]
  BY <1>3
<1> HIDE DEF us
<1>6. Put(p, us)
  BY <1>4 DEF us
<1>7. pc[p] = "run" /\ pc[p] \notin Ended
  BY <1>1 DEF Running, Ended
<1>8. heap' \in [Procs -> 0 .. 2] /\ heap' = heap /\ heap[p] <= 1
  BY <1>1, <1>2, <1>7 DEF InetInv, TypeOK, Blocks, progVars
<1>9. UNCHANGED <<op, part, expected, got>>
  BY <1>1 DEF progVars
<1>10. /\ up' \in [Clients -> Seq(Pieces)] /\ down' \in [Clients -> Seq(Pieces)]
       /\ p = Server =>
            /\ conn \in Clients /\ Heard(conn) /\ up' = up
            /\ \A c \in Clients \ {conn} : down'[c] = down[c]
            /\ Flows(down'[conn], Server, Taken(conn))
            /\ Taken(conn) + Len(down'[conn]) = Sent(Server) + n
       /\ p # Server =>
            /\ down' = down /\ \A c \in Clients \ {p} : up'[c] = up[c]
            /\ Flows(up'[p], p, TakenFrom(p))
  BY <1>1, <1>3, <1>5, <1>6, PutFacts
<1>11. p = Server => Sent(Server) + n # 8
  BY <1>3, <1>5 DEF Total
<1>12. p = Server => \A c \in Clients : \/ down'[c] = down[c]
                                        \/ /\ Flows(down'[c], Server, Taken(c))
                                           /\ Taken(c) + Len(down'[c]) # 8
                                           /\ Heard(c)
  BY <1>10, <1>11
<1> QED BY <1>1, <1>7, <1>8, <1>9, <1>10, <1>12, StopKeeps

\* A process that is killed.
LEMMA KillKeeps ==
  ASSUME InetInv, NEW p \in Procs, Kill(p)
  PROVE  InetInv'
<1>1. /\ pc[p] \notin Ended /\ End(p, "killed")
      /\ UNCHANGED <<op, part, expected, heap, got, up, down>>
  BY DEF Kill, progVars
<1>2. heap' \in [Procs -> 0 .. 2]
  BY <1>1 DEF InetInv, TypeOK
<1> QED BY <1>1, <1>2, QuietStop

\* A process that fails before it runs has no block.
LEMMA SetupFailsKeeps ==
  ASSUME InetInv, NEW p \in Procs, pc[p] \in {"start", "accept"}, End(p, "failed"),
         UNCHANGED <<progVars, up, down>>
  PROVE  InetInv'
<1>1. /\ pc[p] \notin Ended
      /\ UNCHANGED <<op, part, expected, heap, got, up, down>>
  BY DEF progVars, Ended
<1>2. heap' \in [Procs -> 0 .. 2]
  BY <1>1 DEF InetInv, TypeOK
<1>3. part[p] = "metadata" /\ heap[p] = IF InPayload(p) THEN 2 ELSE 0
  BY DEF InetInv, Fresh, Blocks
<1>4. heap'[p] <= 1
  BY <1>1, <1>3 DEF InPayload
<1> QED BY <1>1, <1>2, <1>4, QuietStop

\* The blocks of a receiver.
LEMMA ReceiverBlocks ==
  ASSUME InetInv, NEW p \in Procs, Running(p, "recv")
  PROVE  /\ InPayload(p) <=> part[p] = "payload"
         /\ heap[p] = IF part[p] = "payload" THEN 2 ELSE 0
         /\ part[p] = "payload" => expected[p] = Due(p)
BY DEF InetInv, Blocks, InPayload, Running

\* A malloc or a read that fails.
LEMMA ReadFailsKeeps ==
  ASSUME InetInv, NEW p \in Procs, ReadFails(p)
  PROVE  InetInv'
<1>1. /\ Running(p, "recv") /\ End(p, "failed")
      /\ heap' = [heap EXCEPT ![p] = IF part[p] = "payload" THEN @ - 1 ELSE @]
      /\ UNCHANGED <<op, part, expected, got, up, down>>
  BY DEF ReadFails
<1>2. pc[p] \notin Ended
  BY <1>1 DEF Running, Ended
<1>3. heap[p] = IF part[p] = "payload" THEN 2 ELSE 0
  BY <1>1, ReceiverBlocks
<1>4. heap \in [Procs -> 0 .. 2]
  BY DEF InetInv, TypeOK
<1>5. /\ heap' \in [Procs -> 0 .. 2] /\ heap'[p] <= 1
      /\ \A q \in Procs \ {p} : heap'[q] = heap[q]
  BY <1>1, <1>3, <1>4
<1> QED BY <1>1, <1>2, <1>5, QuietStop

-------------------------------------------------------------------------------
(* Steps that begin a connection.                                          *)

\* No client has heard anything before the server has heard both packets.
LEMMA ServerUnheard ==
  ASSUME InetInv, pc[Server] # "normal", NEW c \in Clients, ~Heard(c)
  PROVE  pc[c] \in {"start", "run"} => Answered(c) = 0
BY DEF InetInv, Flow, DownFlow

\* The server listens.
LEMMA ListenKeeps ==
  ASSUME InetInv, inet4_listen
  PROVE  InetInv'
<1>1. /\ pc[Server] = "start" /\ pc' = [pc EXCEPT ![Server] = "accept"]
      /\ UNCHANGED <<backlog, conn, op, part, expected, heap, got, up, down>>
  BY DEF inet4_listen, progVars
<1>2. TypeOK /\ Connections /\ Received /\ Flow /\ \A q \in Procs : Fresh(q) /\ Blocks(q)
  BY DEF InetInv
<1>3. Clients \subseteq Procs /\ Server \in Procs
  BY DEF Procs
<1>4. /\ pc' \in [Procs -> Ended \cup {"start", "accept", "run"}]
      /\ pc'[Server] = "accept" /\ \A q \in Procs \ {Server} : pc'[q] = pc[q]
  BY <1>1, <1>2, <1>3 DEF TypeOK
<1>5. TypeOK'
  BY <1>1, <1>2, <1>4 DEF TypeOK
<1>6. \A c \in Clients : pc'[c] = pc[c]
  BY <1>3, <1>4, InetAssumption
<1>7. ASSUME NEW q \in Procs
      PROVE  /\ Sent(q)' = Sent(q) /\ Taken(q)' = Taken(q) /\ Packets(q)' = Packets(q)
             /\ InPayload(q)' <=> InPayload(q)
             /\ Due(q)' = Due(q)
  <2>1. pc'[q] = "normal" <=> pc[q] = "normal"
    BY <1>1, <1>4
  <2> QED BY <1>1, <2>1, SamePlace
<1>8. Connections'
  BY <1>1, <1>2, <1>4, <1>6 DEF Connections
<1>9. \A q \in Procs : Fresh(q)' /\ Blocks(q)'
  BY <1>1, <1>2, <1>4, <1>7 DEF Fresh, Blocks
<1>10. Received'
  <2>1. got[Server] = <<>>
    BY <1>1, <1>2 DEF Received
  <2>2. \A c \in Clients : got'[c] = FirstPayloads(Server, Packets(c)')
    BY <1>1, <1>2, <1>3, <1>7 DEF Received
  <2> QED BY <1>1, <1>4, <2>1, <2>2 DEF Received, FirstPayloads, Payload, Lengths
<1>11. ASSUME NEW c \in Clients PROVE UpFlow(c)' /\ DownFlow(c)'
  <2>1. TakenFrom(c)' = TakenFrom(c) /\ (Connected(c)' <=> Connected(c))
    BY <1>1, <1>3, <1>7 DEF TakenFrom, Connected
  <2>2. UpFlow(c) /\ DownFlow(c) /\ Sent(Server)' = Sent(Server)
    BY <1>2, <1>3, <1>7 DEF Flow
  <2> QED BY <1>1, <1>6, <2>1, <2>2, FlowFrame
<1> QED BY <1>5, <1>8, <1>9, <1>10, <1>11 DEF InetInv, Flow

\* A client connects: nothing is on its streams.
LEMMA ConnectKeeps ==
  ASSUME InetInv, NEW p \in Clients, inet4_connect(p)
  PROVE  InetInv'
<1>1. pc[p] = "start" /\ UNCHANGED <<conn, op, part, expected, heap, got, up, down>>
  BY DEF inet4_connect, progVars
<1>2. TypeOK /\ Connections /\ Received /\ Flow /\ \A q \in Procs : Fresh(q) /\ Blocks(q)
  BY DEF InetInv
<1>3. Clients \subseteq Procs /\ Server \in Procs /\ p # Server
  BY InetAssumption DEF Procs
<1>4. CASE pc[Server] \in {"accept", "run"}
  <2>1. pc' = [pc EXCEPT ![p] = "run"] /\ backlog' = Append(backlog, p)
    BY <1>4 DEF inet4_connect
  <2>2. /\ pc' \in [Procs -> Ended \cup {"start", "accept", "run"}]
        /\ pc'[p] = "run" /\ \A q \in Procs \ {p} : pc'[q] = pc[q]
    BY <1>2, <1>3, <2>1 DEF TypeOK
  <2>3. backlog \in Seq(Clients)
    BY <1>2 DEF TypeOK
  <2>4. backlog' \in Seq(Clients)
    BY <2>1, <2>3
  <2>5. TypeOK'
    BY <1>1, <1>2, <2>2, <2>4 DEF TypeOK
  <2>6. \A c : c \in Range(backlog') => c = p \/ c \in Range(backlog)
    <3>1. /\ DOMAIN backlog' = 1 .. Len(backlog) + 1 /\ DOMAIN backlog = 1 .. Len(backlog)
          /\ Len(backlog) \in Nat
          /\ backlog'[Len(backlog) + 1] = p
          /\ \A k \in 1 .. Len(backlog) : backlog'[k] = backlog[k]
      BY <2>1, <2>3
    <3>2. \A k \in 1 .. Len(backlog) + 1 : k \in 1 .. Len(backlog) \/ k = Len(backlog) + 1
      BY <3>1
    <3> QED BY <3>1, <3>2 DEF Range
  <2>7. ASSUME NEW q \in Procs
        PROVE  /\ Sent(q)' = Sent(q) /\ Taken(q)' = Taken(q) /\ Packets(q)' = Packets(q)
               /\ InPayload(q)' <=> InPayload(q)
               /\ Due(q)' = Due(q)
    <3>1. pc'[q] = "normal" <=> pc[q] = "normal"
      BY <1>1, <2>2
    <3> QED BY <1>1, <3>1, SamePlace
  <2>8. pc'[Server] = pc[Server]
    BY <1>3, <2>2
  <2>9. Connections'
    BY <1>1, <1>2, <1>3, <1>4, <2>2, <2>6, <2>8 DEF Connections
  <2>10. \A q \in Procs : Fresh(q)' /\ Blocks(q)'
    BY <1>1, <1>2, <2>2, <2>7 DEF Fresh, Blocks
  <2>11. Received'
    <3>1. \A c \in Clients : got'[c] = FirstPayloads(Server, Packets(c)')
      BY <1>1, <1>2, <1>3, <2>7 DEF Received
    <3> QED BY <1>1, <1>2, <1>3, <2>7, <2>8, <3>1 DEF Received, FirstPayloads, Payload, Lengths
  <2>12. ASSUME NEW c \in Clients PROVE UpFlow(c)' /\ DownFlow(c)'
    <3>1. UpFlow(c) /\ DownFlow(c) /\ TakenFrom(c)' = TakenFrom(c)
      BY <1>1, <1>2, <1>3, <2>7 DEF Flow, TakenFrom
    <3>2. CASE c # p
      <4>1. Connected(c)' => Connected(c)
        BY <1>1, <2>6, <3>2 DEF Connected
      <4>2. pc'[c] = pc[c] /\ Sent(Server)' = Sent(Server)
        BY <1>3, <2>2, <2>7, <3>2
      <4> QED BY <1>1, <2>8, <3>1, <4>1, <4>2, FlowFrame
    <3>3. CASE c = p
      <4>1. c # conn /\ TakenFrom(c) = 0
        BY <1>1, <1>2, <3>3 DEF Connections, TakenFrom
      <4>2. Sent(c) = 0 /\ up[c] = <<>> /\ Len(<<>>) = 0
        <5>1. op[c] = 1 /\ part[c] = "metadata"
          BY <1>1, <1>2, <1>3, <3>3 DEF Fresh
        <5> QED BY <1>1, <1>3, <3>1, <3>3, <5>1 DEF UpFlow, Sent, Progress, SendIndex, Begin
      <4>3. UpFlow(c)'
        <5>1. Sent(c)' = 0 /\ TakenFrom(c)' = 0 /\ up'[c] = <<>> /\ pc'[c] = "run"
          BY <1>1, <1>3, <2>2, <2>7, <3>1, <3>3, <4>1, <4>2
        <5>2. Flows(up[c], c, TakenFrom(c))'
          BY <4>2, <5>1 DEF Flows, Total
        <5> QED BY <4>2, <5>1, <5>2 DEF UpFlow
      <4>4. DownFlow(c)'
        <5>1. Taken(c)' = Taken(c) /\ Sent(Server)' = Sent(Server)
          BY <1>3, <2>7
        <5> QED BY <1>1, <2>2, <2>8, <3>1, <3>3, <5>1 DEF DownFlow, Flows, Answered, Heard
      <4> QED BY <4>3, <4>4
    <3> QED BY <3>2, <3>3
  <2> QED BY <2>5, <2>9, <2>10, <2>11, <2>12 DEF InetInv, Flow
<1>5. CASE pc[Server] \notin {"accept", "run"}
  <2>1. End(p, "failed") /\ UNCHANGED <<progVars, up, down>>
    BY <1>1, <1>3, <1>5 DEF inet4_connect, End, progVars
  <2> QED BY <1>1, <1>3, <2>1, SetupFailsKeeps
<1> QED BY <1>4, <1>5

\* The server accepts a client, and has answered nobody yet.
LEMMA AcceptKeeps ==
  ASSUME InetInv, Accept
  PROVE  InetInv'
<1>1. /\ pc[Server] = "accept" /\ backlog # <<>>
      /\ UNCHANGED <<op, part, expected, heap, got, up, down>>
  BY DEF Accept, progVars
<1>2. TypeOK /\ Connections /\ Received /\ Flow /\ \A q \in Procs : Fresh(q) /\ Blocks(q)
  BY DEF InetInv
<1>3. Clients \subseteq Procs /\ Server \in Procs
  BY DEF Procs
<1>4. CASE End(Server, "failed")
  BY <1>1, <1>3, <1>4, SetupFailsKeeps DEF progVars
<1>5. CASE conn' = Head(backlog) /\ backlog' = Tail(backlog) /\ pc' = [pc EXCEPT ![Server] = "run"]
  <2>1. /\ pc' \in [Procs -> Ended \cup {"start", "accept", "run"}]
        /\ pc'[Server] = "run" /\ \A q \in Procs \ {Server} : pc'[q] = pc[q]
    BY <1>2, <1>3, <1>5 DEF TypeOK
  <2>2. backlog \in Seq(Clients)
    BY <1>2 DEF TypeOK
  <2>3. backlog' \in Seq(Clients) /\ conn' \in Clients /\ conn' \in Range(backlog)
    <3>1. Len(backlog) \in Nat \ {0} /\ Head(backlog) = backlog[1] /\ DOMAIN backlog = 1 .. Len(backlog)
      BY <1>1, <2>2, EmptySeq, HeadTailProperties
    <3>2. 1 \in DOMAIN backlog /\ backlog[1] \in Clients
      BY <2>2, <3>1
    <3>3. Tail(backlog) \in Seq(Clients)
      BY <1>1, <2>2, HeadTailProperties
    <3> QED BY <1>5, <3>1, <3>2, <3>3 DEF Range
  <2>4. Range(backlog') \subseteq Range(backlog)
    <3>1. /\ Len(Tail(backlog)) = Len(backlog) - 1
          /\ \A k \in 1 .. Len(Tail(backlog)) : Tail(backlog)[k] = backlog[k + 1]
      BY <1>1, <2>2, HeadTailProperties
    <3>2. Len(backlog) \in Nat /\ DOMAIN backlog = 1 .. Len(backlog)
      BY <2>2, LenProperties
    <3>3. DOMAIN backlog' = 1 .. Len(backlog) - 1
      BY <1>5, <2>3, <3>1, LenProperties
    <3>4. \A k \in DOMAIN backlog' : k + 1 \in DOMAIN backlog /\ backlog'[k] = backlog[k + 1]
      BY <1>5, <3>1, <3>2, <3>3
    <3> QED BY <3>4 DEF Range
  <2>5. TypeOK'
    BY <1>1, <1>2, <2>1, <2>3 DEF TypeOK
  <2>6. ASSUME NEW q \in Procs
        PROVE  /\ Sent(q)' = Sent(q) /\ Taken(q)' = Taken(q) /\ Packets(q)' = Packets(q)
               /\ InPayload(q)' <=> InPayload(q)
               /\ Due(q)' = Due(q)
    <3>1. pc'[q] = "normal" <=> pc[q] = "normal"
      BY <1>1, <2>1
    <3> QED BY <1>1, <3>1, SamePlace
  <2>7. \A c \in Clients : pc'[c] = pc[c]
    BY <1>3, <2>1, InetAssumption
  <2>8. Connections'
    BY <1>2, <2>1, <2>3, <2>4, <2>7, InetAssumption DEF Connections
  <2>9. \A q \in Procs : Fresh(q)' /\ Blocks(q)'
    BY <1>1, <1>2, <2>1, <2>6 DEF Fresh, Blocks
  <2>10. op[Server] = 1 /\ part[Server] = "metadata" /\ got[Server] = <<>>
    BY <1>1, <1>2, <1>3 DEF Fresh, Received
  <2>11. Packets(Server) = 0 /\ Taken(Server) = 0 /\ Sent(Server) = 0
    BY <1>1, <2>10 DEF Packets, Taken, Sent, Progress, SendIndex, RecvIndex, Begin
  <2>12. Received'
    <3>1. \A c \in Clients : got'[c] = FirstPayloads(Server, Packets(c)')
      BY <1>1, <1>2, <1>3, <2>6 DEF Received
    <3>2. Packets(Server)' = 0 /\ got'[Server] = <<>>
      BY <1>1, <1>3, <2>6, <2>10, <2>11
    <3> QED BY <2>1, <3>1, <3>2 DEF Received, FirstPayloads, Payload, Lengths
  <2>13. ASSUME NEW c \in Clients PROVE UpFlow(c)' /\ DownFlow(c)'
    <3>1. UpFlow(c) /\ DownFlow(c) /\ Sent(c)' = Sent(c) /\ Taken(c)' = Taken(c)
      BY <1>2, <1>3, <2>6 DEF Flow
    <3>2. TakenFrom(c)' = 0 /\ TakenFrom(c) = 0
      BY <1>3, <2>6, <2>11 DEF TakenFrom
    <3>3. Connected(c)' => Connected(c)
      BY <2>3, <2>4 DEF Connected
    <3>4. UpFlow(c)'
      BY <1>1, <2>7, <3>1, <3>2, <3>3 DEF UpFlow, Flows
    <3>5. ~Heard(c)
      BY <2>10 DEF Heard, FirstPayloads
    <3>6. pc[c] \in {"start", "run"} => Answered(c) = 0
      BY <1>1, <3>5, ServerUnheard
    <3>7. Answered(c)' = Answered(c) /\ Sent(Server)' = 0
      BY <1>1, <1>3, <2>6, <2>11, <3>1 DEF Answered
    <3>8. pc'[c] \in {"start", "run"} => Flows(down[c], Server, Taken(c))'
      BY <1>1, <2>7, <3>1 DEF DownFlow, Flows
    <3>9. pc'[c] # "normal"
      BY <1>1, <2>7, <3>1 DEF DownFlow
    <3>10. DownFlow(c)'
      BY <2>7, <3>6, <3>7, <3>8, <3>9 DEF DownFlow
    <3> QED BY <3>4, <3>10
  <2> QED BY <2>5, <2>8, <2>9, <2>12, <2>13 DEF InetInv, Flow
<1> QED BY <1>4, <1>5 DEF Accept

-------------------------------------------------------------------------------
(* Steps of the packet operations.                                         *)

\* A packet, or its metadata, is sent, or lost with a connection that has ended.
LEMMA SendKeeps ==
  ASSUME InetInv, NEW p \in Procs, Running(p, "send"), AdvanceSend(p),
         IF Open(p) THEN Put(p, Outgoing(p)) ELSE UNCHANGED <<up, down>>,
         UNCHANGED <<expected, heap, got>>
  PROVE  InetInv'
<1>1. TypeOK /\ Connections /\ Received /\ Flow /\ \A q \in Procs : Fresh(q) /\ Blocks(q)
  BY DEF InetInv
<1>2. Clients \subseteq Procs /\ Server \in Procs /\ Server \notin Clients /\ Nobody \notin Clients
  BY InetAssumption DEF Procs
<1>3. pc[p] = "run"
  BY DEF Running
<1>4. /\ Sent(p) = Begin(SendIndex(p), part[p]) /\ SendIndex(p) \in 1 .. 2
      /\ Sent(p)' = Sent(p) + Size(p)
      /\ Taken(p)' = Taken(p) /\ Packets(p)' = Packets(p)
      /\ ~InPayload(p) /\ ~InPayload(p)'
      /\ op' \in [Procs -> 1 .. 4] /\ part' \in [Procs -> {"metadata", "payload"}]
      /\ \A q \in Procs \ {p} : op'[q] = op[q] /\ part'[q] = part[q]
      /\ \/ UNCHANGED <<pc, backlog, conn>> /\ Sent(p)' # 8
         \/ p = Server /\ End(p, "normal") /\ Sent(p)' = 8
  BY <1>1, SendPlace
<1>5. /\ pc' \in [Procs -> Ended \cup {"start", "accept", "run"}]
      /\ \A q \in Procs \ {p} : pc'[q] = pc[q]
      /\ \/ conn' = conn /\ backlog' = backlog /\ pc'[p] = "run" /\ Sent(p)' # 8
         \/ p = Server /\ conn' = Nobody /\ backlog' = <<>> /\ pc'[p] = "normal" /\ Sent(p)' = 8
  <2>1. pc \in [Procs -> Ended \cup {"start", "accept", "run"}]
    BY <1>1 DEF TypeOK
  <2>2. CASE UNCHANGED <<pc, backlog, conn>> /\ Sent(p)' # 8
    BY <1>3, <2>1, <2>2
  <2>3. CASE p = Server /\ End(p, "normal") /\ Sent(p)' = 8
    BY <2>1, <2>3 DEF End, Ended
  <2> QED BY <1>4, <2>2, <2>3
<1>6. /\ conn' = conn \/ (p = Server /\ conn' = Nobody)
      /\ backlog' = backlog \/ (p = Server /\ backlog' = <<>>)
      /\ pc'[p] = "run" \/ (p = Server /\ pc'[p] = "normal")
  BY <1>5
<1>7. ASSUME NEW q \in Procs \ {p}
      PROVE  /\ Sent(q)' = Sent(q) /\ Taken(q)' = Taken(q) /\ Packets(q)' = Packets(q)
             /\ InPayload(q)' <=> InPayload(q)
             /\ Due(q)' = Due(q)
  <2>1. op'[q] = op[q] /\ part'[q] = part[q] /\ pc'[q] = pc[q]
    BY <1>4, <1>5
  <2> QED BY <2>1, SamePlace
<1>8. \A q \in Procs : Taken(q)' = Taken(q) /\ Packets(q)' = Packets(q)
  BY <1>4, <1>7
<1>9. /\ Outgoing(p) \in Seq(Pieces) /\ Len(Outgoing(p)) = Size(p) /\ Size(p) \in 1 .. 2
  BY <1>1, <1>4, OutgoingFacts
<1>10. Open(p) =>
         /\ up' \in [Clients -> Seq(Pieces)] /\ down' \in [Clients -> Seq(Pieces)]
         /\ IF p = Server
            THEN /\ conn \in Clients /\ pc[conn] = "run" /\ Heard(conn)
                 /\ up' = up /\ \A c \in Clients \ {conn} : down'[c] = down[c]
                 /\ Flows(down'[conn], Server, Taken(conn))
                 /\ Taken(conn) + Len(down'[conn]) = Sent(Server)'
            ELSE /\ p \in Clients /\ Connected(p)
                 /\ down' = down /\ \A c \in Clients \ {p} : up'[c] = up[c]
                 /\ Flows(up'[p], p, TakenFrom(p))
                 /\ TakenFrom(p) + Len(up'[p]) = Sent(p)'
  BY <1>4, <1>9, PutFacts
<1>11. up' \in [Clients -> Seq(Pieces)] /\ down' \in [Clients -> Seq(Pieces)]
  <2>1. CASE Open(p)
    BY <1>10, <2>1
  <2>2. CASE ~Open(p)
    BY <1>1, <2>2 DEF TypeOK
  <2> QED BY <2>1, <2>2
<1>12. TypeOK'
  <2>1. backlog \in Seq(Clients) /\ <<>> \in Seq(Clients) /\ conn \in Clients \cup {Nobody}
    BY <1>1 DEF TypeOK
  <2>2. backlog' \in Seq(Clients) /\ conn' \in Clients \cup {Nobody}
    BY <1>6, <2>1
  <2>3. UNCHANGED <<expected, heap, got>>
    OBVIOUS
  <2> QED BY <1>1, <1>4, <1>5, <1>11, <2>2, <2>3 DEF TypeOK
<1>13. \A c \in Clients : ~Connected(c) => ~Connected(c)'
  <2>1. Range(<<>>) = {}
    BY DEF Range
  <2> QED BY <1>2, <1>6, <2>1 DEF Connected
<1>14. \A c \in Clients : pc'[c] = pc[c]
  BY <1>2, <1>3, <1>5
<1>15. Connections'
  <2>1. Range(<<>>) = {}
    BY DEF Range
  <2>2. CASE conn' = conn /\ backlog' = backlog /\ pc'[p] = "run"
    <3>1. pc'[Server] = pc[Server]
      BY <1>2, <1>3, <1>5, <2>2
    <3> QED BY <1>1, <1>14, <2>2, <3>1 DEF Connections
  <2>3. CASE p = Server /\ conn' = Nobody /\ backlog' = <<>> /\ pc'[p] = "normal"
    BY <1>1, <1>2, <1>14, <2>1, <2>3 DEF Connections
  <2> QED BY <1>5, <2>2, <2>3
<1>16. \A q \in Procs : Fresh(q)' /\ Blocks(q)'
  <2> SUFFICES ASSUME NEW q \in Procs PROVE Fresh(q)' /\ Blocks(q)'
    OBVIOUS
  <2>1. Fresh(q) /\ Blocks(q) /\ heap' = heap /\ expected' = expected
    BY <1>1
  <2>2. CASE q = p
    BY <1>3, <1>4, <1>5, <2>1, <2>2 DEF Fresh, Blocks
  <2>3. CASE q # p
    BY <1>4, <1>5, <1>7, <2>1, <2>3 DEF Fresh, Blocks
  <2> QED BY <2>2, <2>3
<1>17. Received'
  <2>1. \A c \in Clients : got'[c] = FirstPayloads(Server, Packets(c)')
    BY <1>1, <1>2, <1>8 DEF Received
  <2>2. pc'[Server] = "run" => pc[Server] = "run" /\ conn' = conn
    BY <1>2, <1>3, <1>5, <1>6
  <2>3. pc'[Server] \in {"start", "accept"} => pc[Server] = pc'[Server]
    BY <1>2, <1>3, <1>5
  <2> QED BY <1>1, <1>2, <1>8, <2>1, <2>2, <2>3 DEF Received, FirstPayloads, Payload, Lengths
<1>18. pc[Server] = "normal" => pc'[Server] = "normal"
  BY <1>2, <1>3, <1>5
<1>19. ASSUME NEW c \in Clients PROVE UpFlow(c)' /\ DownFlow(c)'
  <2>1. UpFlow(c) /\ DownFlow(c)
    BY <1>1 DEF Flow
  <2>2. TakenFrom(c)' = TakenFrom(c) \/ ~Connected(c)'
    <3>1. CASE conn' = conn
      BY <1>2, <1>8, <3>1 DEF TakenFrom
    <3>2. CASE conn' # conn
      <4>1. conn' = Nobody /\ backlog' = <<>> /\ Range(<<>>) = {}
        BY <1>5, <3>2 DEF Range
      <4> QED BY <1>2, <4>1 DEF Connected
    <3> QED BY <3>1, <3>2
  <2>3. Connected(c)' => Connected(c) /\ TakenFrom(c)' = TakenFrom(c)
    BY <1>13, <2>2
  <2>4. CASE p = Server
    <3>1. op'[c] = op[c] /\ part'[c] = part[c] /\ Sent(c)' = Sent(c)
      BY <1>2, <1>4, <1>7, <2>4
    <3>2. CASE Open(p) /\ c = conn
      <4>1. UpFlow(c)'
        BY <1>10, <1>14, <2>1, <2>3, <2>4, <3>1, <3>2 DEF UpFlow, Flows
      <4>2. /\ Flows(down'[c], Server, Taken(c)) /\ Taken(c)' = Taken(c) /\ Heard(c)
            /\ Taken(c) + Len(down'[c]) = Sent(Server)' /\ pc'[c] = "run"
        BY <1>2, <1>8, <1>10, <1>14, <2>4, <3>2
      <4>3. Sent(Server)' = 8 => pc'[Server] = "normal"
        BY <1>5, <1>6, <2>4
      <4>4. Heard(c)'
        BY <4>2 DEF Heard, FirstPayloads, Payload, Lengths
      <4>5. DownFlow(c)'
        BY <4>2, <4>3, <4>4 DEF DownFlow, Flows, Answered
      <4> QED BY <4>1, <4>5
    <3>3. CASE ~(Open(p) /\ c = conn)
      <4>1. up'[c] = up[c] /\ down'[c] = down[c]
        <5>1. CASE Open(p)
          BY <1>10, <2>4, <3>3, <5>1
        <5>2. CASE ~Open(p)
          BY <5>2
        <5> QED BY <5>1, <5>2
      <4>2. CASE conn' # c
        BY <1>14, <1>18, <2>1, <2>3, <3>1, <4>1, <4>2, FlowFrame
      <4>3. CASE conn' = c
        <5>1. conn = c /\ ~Open(p)
          BY <1>2, <1>6, <3>3, <4>3
        <5>2. pc[c] \in Ended
          BY <1>2, <2>4, <5>1 DEF Open
        <5>3. pc'[c] \in Ended /\ pc'[c] # "normal"
          BY <1>3, <1>14, <2>1, <2>4, <5>2 DEF DownFlow
        <5>4. DownFlow(c)'
          BY <5>3 DEF DownFlow, Ended
        <5>5. UpFlow(c)'
          BY <1>14, <2>1, <2>3, <3>1, <4>1, <5>3 DEF UpFlow, Flows
        <5> QED BY <5>4, <5>5
      <4> QED BY <4>2, <4>3
    <3> QED BY <3>2, <3>3
  <2>5. CASE p # Server
    <3>1. conn' = conn /\ backlog' = backlog /\ down' = down /\ pc' = pc
      <4>1. down' = down
        BY <1>10, <2>5
      <4> QED BY <1>4, <2>5, <4>1
    <3>2. Sent(Server)' = Sent(Server)
      BY <1>2, <1>7, <2>5
    <3>3. CASE c = p
      <4>1. UpFlow(c)'
        <5>1. CASE Open(p)
          <6>1. /\ Flows(up'[c], c, TakenFrom(c)) /\ TakenFrom(c) + Len(up'[c]) = Sent(c)'
                /\ Connected(c)
            BY <1>10, <2>5, <3>3, <5>1
          <6>2. pc'[c] = "run" /\ TakenFrom(c)' = TakenFrom(c)
            BY <1>3, <2>3, <3>1, <3>3, <6>1 DEF Connected
          <6> QED BY <6>1, <6>2 DEF UpFlow, Flows
        <5>2. CASE ~Open(p)
          <6>1. ~Connected(c)' /\ pc'[c] = "run"
            BY <1>3, <1>13, <2>5, <3>1, <3>3, <5>2 DEF Open, Connected
          <6> QED BY <6>1 DEF UpFlow
        <5> QED BY <5>1, <5>2
      <4>2. DownFlow(c)'
        <5>1. Taken(c)' = Taken(c)
          BY <1>2, <1>8
        <5> QED BY <2>1, <3>1, <3>2, <5>1 DEF DownFlow, Flows, Answered, Heard
      <4> QED BY <4>1, <4>2
    <3>4. CASE c # p
      <4>1. up'[c] = up[c] /\ op'[c] = op[c] /\ part'[c] = part[c]
        <5>1. up'[c] = up[c]
          BY <1>10, <2>5, <3>4
        <5> QED BY <1>2, <1>4, <3>4, <5>1
      <4> QED BY <1>14, <1>18, <2>1, <2>3, <3>1, <3>2, <4>1, FlowFrame
    <3> QED BY <3>3, <3>4
  <2> QED BY <2>4, <2>5
<1> QED BY <1>12, <1>15, <1>16, <1>17, <1>19 DEF InetInv, Flow

\* The records that a receiver finds at the place it has reached.
LEMMA FoundFacts ==
  ASSUME NEW p \in Procs, NEW i \in 1 .. 2
  PROVE  /\ Item(p, Begin(i, "metadata") + 2)[4] = Lengths(p)[i]
         /\ [k \in 1 .. Lengths(p)[i] |-> Item(p, Begin(i, "payload") + k)] = Payload(p, i)
<1>1. Lengths(p)[i] \in 1 .. 2 /\ i \in {1, 2}
  BY LengthsFacts
<1>2. Item(p, Begin(i, "metadata") + 2) = <<p, i, "metadata", Lengths(p)[i]>>
  BY <1>1 DEF Item, Begin
<1>3. \A k \in 1 .. Lengths(p)[i] : Item(p, Begin(i, "payload") + k) = <<p, i, "payload", k>>
  BY <1>1 DEF Item, Begin
<1> QED BY <1>2, <1>3 DEF Payload

\* The payload that is due has the length that its sender writes.
LEMMA DueFacts ==
  ASSUME InetInv, NEW p \in Procs, Running(p, "recv")
  PROVE  Due(p) = Lengths(Source(p))[RecvIndex(p)] /\ RecvIndex(p) \in 1 .. 2
<1>1. RecvIndex(p) \in 1 .. 2 /\ Source(p) \in Procs /\ (p = Server => conn \in Clients)
  BY OpsFacts, IncomingFacts DEF InetInv, Running
<1>2. CASE p = Server
  <2>1. Source(p) # Server /\ Source(p) \in Procs /\ RecvIndex(p) = op[p]
    BY <1>1, <1>2, InetAssumption DEF Source, RecvIndex
  <2> QED BY <1>1, <1>2, <2>1, LengthsFacts DEF Due
<1>3. CASE p # Server
  <2>1. Source(p) = Server
    BY <1>3 DEF Source
  <2> QED BY <1>1, <1>3, <2>1, LengthsFacts DEF Due
<1> QED BY <1>2, <1>3

\* The streams after a read that does not end the server: what has been taken is counted.
LEMMA TakeKeeps ==
  ASSUME InetInv, NEW p \in Procs, Running(p, "recv"), NEW n \in 0 .. Len(Incoming(p)), Take(p, n),
         Taken(p)' = Taken(p) + n, Sent(p)' = Sent(p),
         \A q \in Procs \ {p} : op'[q] = op[q] /\ part'[q] = part[q],
         \/ UNCHANGED <<pc, backlog, conn>>
         \/ p # Server /\ End(p, "normal") /\ Taken(p)' = 8,
         \/ got'[Server] = got[Server]
         \/ p = Server /\ \A c \in Clients : ~Heard(c)
  PROVE  Connections' /\ Flow'
<1>1. TypeOK /\ Connections /\ Received /\ Flow /\ pc[p] = "run"
  BY DEF InetInv, Running
<1>2. Clients \subseteq Procs /\ Server \in Procs /\ Server \notin Clients /\ Nobody \notin Clients
  BY InetAssumption DEF Procs
<1>3. UNCHANGED <<backlog, conn>> /\ \A q \in Procs \ {p} : pc'[q] = pc[q]
  <2>1. pc \in [Procs -> Ended \cup {"start", "accept", "run"}]
    BY <1>1 DEF TypeOK
  <2> QED BY <2>1 DEF End
<1>4. pc'[p] = "run" \/ (p # Server /\ pc'[p] = "normal" /\ Taken(p)' = 8)
  <2>1. pc \in [Procs -> Ended \cup {"start", "accept", "run"}]
    BY <1>1 DEF TypeOK
  <2> QED BY <1>1, <2>1 DEF End
<1>5. pc'[Server] = pc[Server]
  BY <1>1, <1>2, <1>3, <1>4
<1>6. Connections'
  BY <1>1, <1>2, <1>3, <1>4, <1>5 DEF Connections
<1>7. ASSUME NEW q \in Procs \ {p} PROVE Sent(q)' = Sent(q) /\ Taken(q)' = Taken(q)
  BY <1>3, <1>7, SamePlace
<1>8. Sent(Server)' = Sent(Server) /\ \A c \in Clients : Connected(c)' <=> Connected(c)
  BY <1>2, <1>3, <1>7 DEF Connected
<1>9. /\ Taken(p) \in Nat /\ n \in Nat
      /\ p # Server => p \in Clients
      /\ p = Server => conn \in Clients /\ Connected(conn) /\ TakenFrom(conn) = Taken(Server)
      /\ n <= Len(Incoming(p)) /\ Len(Incoming(p)) \in Nat
  BY IncomingFacts, LenProperties
<1>10. IF p = Server
       THEN /\ down' = down /\ \A c \in Clients \ {conn} : up'[c] = up[c]
            /\ Flows(up'[conn], conn, Taken(Server) + n)
            /\ Len(up'[conn]) = Len(up[conn]) - n
       ELSE /\ up' = up /\ \A c \in Clients \ {p} : down'[c] = down[c]
            /\ Flows(down'[p], Server, Taken(p) + n)
            /\ Len(down'[p]) = Len(down[p]) - n
  BY TakeFacts
<1>11. CASE p = Server
  <2>1. pc' = pc
    BY <1>11
  <2>2. ASSUME NEW c \in Clients PROVE UpFlow(c)'
    <3>1. UpFlow(c) /\ Sent(c)' = Sent(c) /\ pc'[c] = pc[c]
      BY <1>1, <1>2, <1>7, <1>11, <2>1 DEF Flow
    <3>2. CASE c = conn
      <4>1. TakenFrom(c)' = Taken(Server) + n /\ TakenFrom(c) = Taken(Server)
        BY <1>3, <1>11, <3>2 DEF TakenFrom
      <4>2. /\ Flows(up'[c], c, Taken(Server) + n) /\ Len(up'[c]) = Len(up[c]) - n
            /\ Len(up[c]) \in Nat
        BY <1>9, <1>10, <1>11, <3>2 DEF Incoming
      <4>3. pc[c] # "start"
        BY <1>1, <3>2 DEF Connections
      <4>4. Taken(Server) + n + (Len(up[c]) - n) = Taken(Server) + Len(up[c])
        BY <1>9, <1>11, <4>2
      <4>5. pc'[c] \in {"run", "normal"} => TakenFrom(c)' + Len(up'[c]) = Sent(c)'
        BY <1>9, <1>11, <3>1, <3>2, <4>1, <4>2, <4>4 DEF UpFlow
      <4> QED BY <3>1, <4>1, <4>2, <4>3, <4>5 DEF UpFlow, Flows
    <3>3. CASE c # conn
      <4>1. TakenFrom(c)' = TakenFrom(c) /\ up'[c] = up[c]
        BY <1>3, <1>10, <1>11, <3>3 DEF TakenFrom
      <4> QED BY <1>8, <3>1, <4>1 DEF UpFlow, Flows
    <3> QED BY <3>2, <3>3
  <2>3. ASSUME NEW c \in Clients PROVE DownFlow(c)'
    <3>1. /\ DownFlow(c) /\ Taken(c)' = Taken(c) /\ down'[c] = down[c] /\ pc[Server] # "normal"
      BY <1>1, <1>2, <1>7, <1>10, <1>11 DEF Flow
    <3>2. CASE got'[Server] = got[Server]
      BY <1>3, <1>8, <2>1, <3>1, <3>2 DEF DownFlow, Flows, Answered, Heard
    <3>3. CASE ~Heard(c)
      <4>1. pc[c] \in {"start", "run"} => Answered(c) = 0
        BY <3>1, <3>3, ServerUnheard
      <4>2. Answered(c)' = Answered(c)
        BY <3>1 DEF Answered
      <4> QED BY <1>3, <1>8, <2>1, <3>1, <3>3, <4>1, <4>2 DEF DownFlow, Flows
    <3> QED BY <3>2, <3>3
  <2> QED BY <1>6, <2>2, <2>3 DEF Flow
<1>12. CASE p # Server
  <2>1. got'[Server] = got[Server] /\ \A c \in Clients : TakenFrom(c)' = TakenFrom(c)
    BY <1>2, <1>3, <1>7, <1>12 DEF TakenFrom
  <2>2. ASSUME NEW c \in Clients PROVE UpFlow(c)' /\ DownFlow(c)'
    <3>1. UpFlow(c) /\ DownFlow(c)
      BY <1>1 DEF Flow
    <3>2. CASE c = p
      <4>1. UpFlow(c)'
        BY <1>1, <1>4, <1>8, <1>10, <1>12, <2>1, <3>1, <3>2 DEF UpFlow, Flows
      <4>2. /\ Flows(down'[c], Server, Taken(c)') /\ Taken(c)' = Taken(c) + n
            /\ Len(down'[c]) = Len(down[c]) - n /\ Len(down[c]) \in Nat /\ Taken(c) \in Nat
            /\ n <= Len(down[c])
        BY <1>9, <1>10, <1>12, <3>2 DEF Incoming
      <4>3. Answered(c)' = Answered(c)
        BY <1>9, <4>2 DEF Answered
      <4>4. pc'[c] = "normal" => Heard(c) /\ pc[Server] = "normal"
        <5>1. ASSUME pc'[c] = "normal" PROVE Answered(c) = 8
          <6>1. Taken(c)' = 8 /\ 8 + Len(down'[c]) <= Total(Server) /\ Total(Server) = 8
            BY <1>4, <3>2, <4>2, <5>1 DEF Flows, Total
          <6>2. Len(down'[c]) = 0
            BY <1>9, <4>2, <6>1
          <6> QED BY <4>3, <6>1, <6>2 DEF Answered
        <5> QED BY <1>1, <3>1, <3>2, <5>1 DEF DownFlow
      <4>5. DownFlow(c)'
        BY <1>1, <1>3, <1>5, <1>8, <2>1, <3>1, <3>2, <4>2, <4>3, <4>4 DEF DownFlow, Flows, Heard
      <4> QED BY <4>1, <4>5
    <3>3. CASE c # p
      <4>1. /\ pc'[c] = pc[c] /\ op'[c] = op[c] /\ part'[c] = part[c]
            /\ up'[c] = up[c] /\ down'[c] = down[c]
        BY <1>2, <1>3, <1>10, <1>12, <3>3
      <4> QED BY <1>3, <1>5, <1>8, <2>1, <3>1, <4>1, FlowFrame
    <3> QED BY <3>2, <3>3
  <2> QED BY <1>6, <2>2 DEF Flow
<1> QED BY <1>11, <1>12

\* What is still true of a process of which nothing has changed, after a read of another.
LEMMA OtherKeeps ==
  ASSUME NEW q \in Procs, Fresh(q), Blocks(q),
         pc'[q] = pc[q], op'[q] = op[q], part'[q] = part[q],
         heap'[q] = heap[q], expected'[q] = expected[q]
  PROVE  Fresh(q)' /\ Blocks(q)' /\ Packets(q)' = Packets(q)
<1>1. /\ Packets(q)' = Packets(q) /\ (InPayload(q)' <=> InPayload(q)) /\ Due(q)' = Due(q)
  BY SamePlace
<1> QED BY <1>1 DEF Fresh, Blocks

\* A metadata record is read: all of it, or not enough.
LEMMA MetadataKeeps ==
  ASSUME InetInv, NEW p \in Procs, recv_metadata(p)
  PROVE  InetInv'
<1>1. Running(p, "recv") /\ part[p] = "metadata" /\ UNCHANGED <<op, got>>
  BY DEF recv_metadata
<1>2. PICK n \in 0 .. Len(Incoming(p)) :
        /\ Take(p, n)
        /\ IF n = 2
           THEN /\ part' = [part EXCEPT ![p] = "payload"]
                /\ expected' = [expected EXCEPT ![p] = Incoming(p)[n][4]]
                /\ heap' = [heap EXCEPT ![p] = @ + 2]
                /\ UNCHANGED <<pc, backlog, conn>>
           ELSE End(p, "failed") /\ UNCHANGED <<part, expected, heap>>
  BY DEF recv_metadata, FullyRead, MetadataSize
<1>3. TypeOK /\ Connections /\ Received /\ Flow /\ \A q \in Procs : Fresh(q) /\ Blocks(q)
  BY DEF InetInv
<1>4. Clients \subseteq Procs /\ Server \in Procs /\ Server \notin Clients
  BY InetAssumption DEF Procs
<1>5. heap[p] = 0 /\ heap \in [Procs -> 0 .. 2] /\ expected \in [Procs -> 0 .. 2] /\ pc[p] = "run"
  BY <1>1, <1>3, ReceiverBlocks DEF TypeOK, Running
<1>6. CASE n # 2
  <2>1. heap' \in [Procs -> 0 .. 2] /\ heap'[p] <= 1 /\ heap' = heap
    BY <1>2, <1>5, <1>6
  <2> QED BY <1>1, <1>2, <1>6, <2>1, TakeStops
<1>7. CASE n = 2
  <2>1. /\ part' = [part EXCEPT ![p] = "payload"] /\ UNCHANGED <<pc, op, backlog, conn, got>>
        /\ expected' = [expected EXCEPT ![p] = Incoming(p)[2][4]]
        /\ heap' = [heap EXCEPT ![p] = @ + 2]
    BY <1>1, <1>2, <1>7
  <2>2. /\ Taken(p) = Begin(RecvIndex(p), "metadata") /\ RecvIndex(p) \in 1 .. 2
        /\ Taken(p)' = Taken(p) + 2
        /\ Sent(p)' = Sent(p) /\ Packets(p)' = Packets(p)
        /\ InPayload(p)' /\ Due(p)' = Due(p)
        /\ part' \in [Procs -> {"metadata", "payload"}]
        /\ \A q \in Procs \ {p} : part'[q] = part[q]
    BY <1>1, <1>3, <2>1, MetadataPlace
  <2>3. Connections' /\ Flow'
    BY <1>1, <1>2, <1>7, <2>1, <2>2, TakeKeeps
  <2>4. Incoming(p)[2][4] = Due(p) /\ Due(p) \in 1 .. 2
    <3>1. /\ Source(p) \in Procs /\ Flows(Incoming(p), Source(p), Taken(p))
          /\ Due(p) = Lengths(Source(p))[RecvIndex(p)] /\ Due(p) \in 1 .. 2
      BY <1>1, <1>3, IncomingFacts, DueFacts, PlaceTypes
    <3>2. 2 \in 1 .. Len(Incoming(p))
      BY <1>7
    <3>3. Incoming(p)[2] = Item(Source(p), Begin(RecvIndex(p), "metadata") + 2)
      BY <2>2, <3>1, <3>2 DEF Flows
    <3> QED BY <2>2, <3>1, <3>3, FoundFacts
  <2>5. /\ heap' \in [Procs -> 0 .. 2] /\ expected' \in [Procs -> 0 .. 2]
        /\ heap'[p] = 2 /\ expected'[p] = Due(p)
        /\ \A q \in Procs \ {p} : heap'[q] = heap[q] /\ expected'[q] = expected[q]
    BY <1>5, <2>1, <2>4
  <2>6. up' \in [Clients -> Seq(Pieces)] /\ down' \in [Clients -> Seq(Pieces)]
    BY <1>1, <1>2, TakeFacts
  <2>7. TypeOK'
    BY <1>3, <2>1, <2>2, <2>5, <2>6 DEF TypeOK
  <2>8. ASSUME NEW q \in Procs PROVE Fresh(q)' /\ Blocks(q)' /\ Packets(q)' = Packets(q)
    <3>1. Fresh(q) /\ Blocks(q) /\ pc'[q] = pc[q] /\ op'[q] = op[q]
      BY <1>3, <2>1
    <3>2. CASE q = p
      BY <1>5, <2>1, <2>2, <2>5, <3>2 DEF Fresh, Blocks
    <3>3. CASE q # p
      BY <2>2, <2>5, <3>1, <3>3, OtherKeeps
    <3> QED BY <3>2, <3>3
  <2>9. Received'
    <3>1. \A c \in Clients : got'[c] = FirstPayloads(Server, Packets(c)')
      BY <1>3, <1>4, <2>1, <2>8 DEF Received
    <3>2. Packets(Server)' = Packets(Server)
      BY <1>4, <2>8
    <3> QED BY <1>3, <2>1, <3>1, <3>2 DEF Received, FirstPayloads, Payload, Lengths
  <2> QED BY <2>3, <2>7, <2>8, <2>9 DEF InetInv
<1> QED BY <1>6, <1>7

\* The second payload is put behind the first.
LEMMA AppendSecond ==
  ASSUME NEW S, NEW a \in S, NEW b \in S
  PROVE  Append(<<a>>, b) = <<a, b>>
<1> DEFINE s == Append(<<a>>, b)
           t == <<a, b>>
<1>1. <<a>> \in Seq(S) /\ Len(<<a>>) = 1 /\ <<a>>[1] = a
  OBVIOUS
<1>2. s \in Seq(S) /\ Len(s) = 2 /\ s[1] = a /\ s[2] = b
  BY <1>1, AppendProperties
<1>3. t \in Seq(S) /\ Len(t) = 2 /\ t[1] = a /\ t[2] = b
  OBVIOUS
<1> HIDE DEF s, t
<1>4. \A k \in 1 .. Len(s) : s[k] = t[k]
  BY <1>2, <1>3
<1>5. s = t
  BY <1>2, <1>3, <1>4, SeqEqual
<1> QED BY <1>5 DEF s, t

\* A payload is read: all of it, or not enough.
LEMMA PayloadKeeps ==
  ASSUME InetInv, NEW p \in Procs, recv_payload(p)
  PROVE  InetInv'
<1>1. Running(p, "recv") /\ part[p] = "payload" /\ UNCHANGED expected
  BY DEF recv_payload
<1>2. PICK n \in 0 .. Len(Incoming(p)) :
        /\ Take(p, n)
        /\ IF n = expected[p]
           THEN /\ got' = [got EXCEPT ![p] = Append(@, SubSeq(Incoming(p), 1, n))]
                /\ heap' = [heap EXCEPT ![p] = @ - 2]
                /\ NextOp(p)
           ELSE /\ End(p, "failed")
                /\ heap' = [heap EXCEPT ![p] = @ - 1]
                /\ UNCHANGED <<op, part, got>>
  BY DEF recv_payload, FullyRead, free_packet
<1>3. TypeOK /\ Connections /\ Received /\ Flow /\ \A q \in Procs : Fresh(q) /\ Blocks(q)
  BY DEF InetInv
<1>4. Clients \subseteq Procs /\ Server \in Procs /\ Server \notin Clients
  BY InetAssumption DEF Procs
<1>5. /\ heap[p] = 2 /\ expected[p] = Due(p) /\ pc[p] = "run"
      /\ heap \in [Procs -> 0 .. 2] /\ got \in [Procs -> Seq(Seq(Pieces))]
  BY <1>1, <1>3, ReceiverBlocks DEF TypeOK, Running
<1>6. CASE n # expected[p]
  <2>1. heap' = [heap EXCEPT ![p] = @ - 1]
    BY <1>2, <1>6
  <2>2. /\ heap' \in [Procs -> 0 .. 2] /\ heap'[p] <= 1
        /\ \A q \in Procs \ {p} : heap'[q] = heap[q]
    BY <1>5, <2>1
  <2> QED BY <1>1, <1>2, <1>6, <2>2, TakeStops
<1>7. CASE n = expected[p]
  <2> DEFINE m == SubSeq(Incoming(p), 1, n)
  <2>1. /\ got' = [got EXCEPT ![p] = Append(@, m)]
        /\ heap' = [heap EXCEPT ![p] = @ - 2]
        /\ NextOp(p)
    BY <1>2, <1>7
  <2>2. /\ Taken(p) = Begin(RecvIndex(p), "payload") /\ RecvIndex(p) \in 1 .. 2
        /\ Taken(p)' = Taken(p) + n
        /\ Sent(p)' = Sent(p)
        /\ Packets(p) = RecvIndex(p) - 1 /\ Packets(p)' = Packets(p) + 1
        /\ ~InPayload(p)'
        /\ op' \in [Procs -> 1 .. 4] /\ part' \in [Procs -> {"metadata", "payload"}]
        /\ \A q \in Procs \ {p} : op'[q] = op[q] /\ part'[q] = part[q]
        /\ \/ UNCHANGED <<pc, backlog, conn>>
           \/ p # Server /\ End(p, "normal") /\ Taken(p)' = 8
    BY <1>1, <1>3, <1>5, <1>7, <2>1, PayloadPlace
  <2>3. m \in Seq(Pieces) /\ m = Payload(Source(p), RecvIndex(p))
    <3>1. /\ m \in Seq(Pieces) /\ m = [k \in 1 .. n |-> Item(Source(p), Taken(p) + k)]
      BY <1>1, <1>2, TakeFacts
    <3>2. n = Lengths(Source(p))[RecvIndex(p)] /\ Source(p) \in Procs
      BY <1>1, <1>5, <1>7, DueFacts, IncomingFacts
    <3> QED BY <2>2, <3>1, <3>2, FoundFacts
  <2> HIDE DEF m
  <2>4. /\ got' \in [Procs -> Seq(Seq(Pieces))] /\ got'[p] = Append(got[p], m)
        /\ \A q \in Procs \ {p} : got'[q] = got[q]
    BY <1>5, <2>1, <2>3
  <2>5. /\ heap' \in [Procs -> 0 .. 2] /\ heap'[p] = 0
        /\ \A q \in Procs \ {p} : heap'[q] = heap[q]
    BY <1>5, <2>1
  <2>6. /\ pc' \in [Procs -> Ended \cup {"start", "accept", "run"}] /\ UNCHANGED <<backlog, conn>>
        /\ pc'[p] \in {"run", "normal"} /\ \A q \in Procs \ {p} : pc'[q] = pc[q]
        /\ p = Server => pc'[p] = "run"
    <3>1. pc \in [Procs -> Ended \cup {"start", "accept", "run"}]
      BY <1>3 DEF TypeOK
    <3>2. CASE UNCHANGED <<pc, backlog, conn>>
      BY <1>5, <3>1, <3>2
    <3>3. CASE p # Server /\ End(p, "normal")
      BY <3>1, <3>3 DEF End, Ended
    <3> QED BY <2>2, <3>2, <3>3
  <2>7. up' \in [Clients -> Seq(Pieces)] /\ down' \in [Clients -> Seq(Pieces)]
    BY <1>1, <1>2, TakeFacts
  <2>8. TypeOK'
    BY <1>1, <1>3, <2>2, <2>4, <2>5, <2>6, <2>7 DEF TypeOK
  <2>9. got[p] = FirstPayloads(Source(p), RecvIndex(p) - 1)
    BY <1>3, <1>4, <1>5, <2>2 DEF Received, Source, Procs
  <2>10. got'[p] = FirstPayloads(Source(p), Packets(p)')
    <3>1. CASE RecvIndex(p) = 1
      <4>1. Packets(p)' = 1 /\ got[p] = <<>> /\ m = Payload(Source(p), 1)
        BY <2>2, <2>3, <2>9, <3>1 DEF FirstPayloads
      <4>2. Append(<<>>, m) = <<m>>
        OBVIOUS
      <4> QED BY <2>4, <4>1, <4>2 DEF FirstPayloads
    <3>2. CASE RecvIndex(p) = 2
      <4>1. /\ Packets(p)' = 2 /\ got[p] = <<Payload(Source(p), 1)>> /\ m = Payload(Source(p), 2)
        BY <2>2, <2>3, <2>9, <3>2 DEF FirstPayloads
      <4>2. Source(p) \in Procs /\ Payload(Source(p), 1) \in Seq(Pieces)
        BY <1>1, IncomingFacts, PacketFacts
      <4>3. Append(<<Payload(Source(p), 1)>>, m) = <<Payload(Source(p), 1), m>>
        BY <2>3, <4>2, AppendSecond
      <4> QED BY <2>4, <4>1, <4>3 DEF FirstPayloads
    <3> QED BY <2>2, <3>1, <3>2
  <2>11. p = Server => \A c \in Clients : ~Heard(c)
    <3>1. ASSUME NEW c \in Clients, NEW d, NEW k \in {0, 1}
          PROVE  FirstPayloads(d, k) # FirstPayloads(c, 2)
      BY DEF FirstPayloads
    <3>2. RecvIndex(p) - 1 \in {0, 1}
      BY <2>2
    <3> QED BY <2>9, <3>1, <3>2 DEF Heard
  <2>12. got'[Server] = got[Server] \/ (p = Server /\ \A c \in Clients : ~Heard(c))
    BY <1>4, <2>4, <2>11
  <2>13. Connections' /\ Flow'
    BY <1>1, <1>2, <2>2, <2>12, TakeKeeps
  <2>14. ASSUME NEW q \in Procs PROVE Fresh(q)' /\ Blocks(q)'
    <3>1. Fresh(q) /\ Blocks(q)
      BY <1>3
    <3>2. CASE q = p
      BY <2>2, <2>5, <2>6, <3>2 DEF Fresh, Blocks
    <3>3. CASE q # p
      BY <1>1, <2>2, <2>5, <2>6, <3>1, <3>3, OtherKeeps
    <3> QED BY <3>2, <3>3
  <2>15. \A q \in Procs \ {p} : Packets(q)' = Packets(q)
    BY <1>1, <1>3, <2>2, <2>5, <2>6, OtherKeeps
  <2>16. Received'
    <3>1. ASSUME NEW c \in Clients PROVE got'[c] = FirstPayloads(Server, Packets(c)')
      <4>1. CASE c = p
        BY <1>4, <2>10, <4>1 DEF Source
      <4>2. CASE c # p
        BY <1>3, <1>4, <2>4, <2>15, <4>2 DEF Received
      <4> QED BY <4>1, <4>2
    <3>2. CASE p = Server
      <4>1. conn \in Clients /\ conn' = conn /\ pc'[Server] = "run"
        BY <1>1, <2>6, <3>2, IncomingFacts
      <4>2. got'[Server] = FirstPayloads(conn, Packets(Server)')
        BY <2>10, <3>2 DEF Source
      <4> QED BY <3>1, <4>1, <4>2 DEF Received, FirstPayloads, Payload, Lengths
    <3>3. CASE p # Server
      <4>1. /\ got'[Server] = got[Server] /\ Packets(Server)' = Packets(Server)
            /\ pc'[Server] = pc[Server] /\ conn' = conn
        BY <1>4, <2>4, <2>6, <2>15, <3>3
      <4> QED BY <1>3, <3>1, <4>1 DEF Received, FirstPayloads, Payload, Lengths
    <3> QED BY <3>2, <3>3
  <2> QED BY <2>8, <2>13, <2>14, <2>16 DEF InetInv
<1> QED BY <1>6, <1>7

-------------------------------------------------------------------------------
(* The theorems.                                                           *)

\* Nothing has happened yet.
LEMMA InitInv == Init => InetInv
<1> SUFFICES ASSUME Init PROVE InetInv
  OBVIOUS
<1>1. Server \in Procs /\ Server \notin Clients /\ Nobody \notin Clients /\ Clients \subseteq Procs
  BY InetAssumption DEF Procs
<1>2. \A q \in Procs : /\ pc[q] = "start" /\ op[q] = 1 /\ part[q] = "metadata"
                       /\ expected[q] = 0 /\ heap[q] = 0 /\ got[q] = <<>>
  BY DEF Init
<1>3. backlog = <<>> /\ conn = Nobody /\ \A c \in Clients : up[c] = <<>> /\ down[c] = <<>>
  BY DEF Init
<1>4. TypeOK
  BY DEF Init, TypeOK, Ended
<1>5. Range(backlog) = {}
  BY <1>3 DEF Range
<1>6. Connections
  BY <1>1, <1>2, <1>3, <1>5 DEF Connections
<1>7. \A q \in Procs : Fresh(q) /\ Blocks(q)
  BY <1>2 DEF Fresh, Blocks, InPayload
<1>8. \A c \in Clients : Packets(c) = 0 /\ Taken(c) = 0
  BY <1>1, <1>2 DEF Packets, Taken, Progress, RecvIndex
<1>9. Received
  BY <1>1, <1>2, <1>8 DEF Received, FirstPayloads
<1>10. ASSUME NEW c \in Clients PROVE UpFlow(c) /\ DownFlow(c)
  <2>1. ~Connected(c) /\ c # conn /\ pc[c] = "start" /\ Len(<<>>) = 0
    BY <1>1, <1>2, <1>3, <1>5 DEF Connected
  <2>2. Answered(c) = 0
    BY <1>3, <1>8, <2>1 DEF Answered
  <2>3. Flows(down[c], Server, Taken(c))
    BY <1>3, <1>8, <2>1 DEF Flows, Total
  <2> QED BY <1>3, <2>1, <2>2, <2>3 DEF UpFlow, DownFlow
<1> QED BY <1>4, <1>6, <1>7, <1>9, <1>10 DEF InetInv, Flow

\* A packet operation that goes on, or finds that nobody listens any more.
LEMMA SendPacketKeeps ==
  ASSUME InetInv, NEW p \in Procs, send_packet(p)
  PROVE  InetInv'
<1>1. /\ Running(p, "send") /\ UNCHANGED <<expected, heap, got>>
      /\ TypeOK /\ \A q \in Procs : Blocks(q)
  BY DEF send_packet, InetInv
<1>2. CASE Open(p) \/ AdvanceSend(p)
  BY <1>1, <1>2, SendKeeps DEF send_packet
<1>3. CASE ~Open(p) /\ ~AdvanceSend(p)
  <2>1. PICK how \in {"failed", "killed"} : End(p, how) /\ UNCHANGED <<op, part>>
    BY <1>3 DEF send_packet
  <2>2. pc[p] \notin Ended /\ pc[p] = "run" /\ UNCHANGED <<up, down>>
    BY <1>1, <1>3 DEF Running, Ended, send_packet
  <2>3. ~InPayload(p) /\ heap \in [Procs -> 0 .. 2]
    BY <1>1, SentBegin DEF TypeOK
  <2>4. heap' \in [Procs -> 0 .. 2] /\ heap'[p] <= 1 /\ heap' = heap
    BY <1>1, <2>2, <2>3 DEF Blocks
  <2> QED BY <1>1, <2>1, <2>2, <2>4, QuietStop
<1> QED BY <1>2, <1>3

\* Every step keeps the invariant.
LEMMA StepKeeps == InetInv /\ [Next]_vars => InetInv'
<1> SUFFICES ASSUME InetInv, [Next]_vars PROVE InetInv'
  OBVIOUS
<1>1. CASE UNCHANGED vars
  <2>1. UNCHANGED <<pc, backlog, conn, op, part, expected, heap, got, up, down>>
    BY <1>1 DEF vars, progVars
  <2>2. Clients \subseteq Procs /\ Server \in Procs
    BY DEF Procs
  <2>3. TypeOK' /\ Connections'
    BY <2>1 DEF InetInv, TypeOK, Connections
  <2>4. \A q \in Procs : Fresh(q)' /\ Blocks(q)' /\ Packets(q)' = Packets(q)
    BY <2>1, OtherKeeps DEF InetInv
  <2>5. \A q \in Procs : Sent(q)' = Sent(q) /\ Taken(q)' = Taken(q)
    BY <2>1, SamePlace
  <2>6. Received'
    BY <2>1, <2>2, <2>4 DEF InetInv, Received, FirstPayloads, Payload, Lengths
  <2>7. ASSUME NEW c \in Clients PROVE UpFlow(c)' /\ DownFlow(c)'
    <3>1. UpFlow(c) /\ DownFlow(c)
      BY DEF InetInv, Flow
    <3>2. (Connected(c)' <=> Connected(c)) /\ TakenFrom(c)' = TakenFrom(c)
      BY <2>1, <2>2, <2>5 DEF Connected, TakenFrom
    <3> QED BY <2>1, <2>2, <2>5, <3>1, <3>2, FlowFrame
  <2> QED BY <2>3, <2>4, <2>6, <2>7 DEF InetInv, Flow
<1>2. ASSUME NEW p \in Procs, Step(p) PROVE InetInv'
  <2>1. CASE p = Server /\ inet4_listen
    BY <2>1, ListenKeeps
  <2>2. CASE p = Server /\ Accept
    BY <2>2, AcceptKeeps
  <2>3. CASE p \in Clients /\ inet4_connect(p)
    BY <2>3, ConnectKeeps
  <2>4. CASE send_packet(p)
    BY <2>4, SendPacketKeeps
  <2>5. CASE recv_metadata(p)
    BY <2>5, MetadataKeeps
  <2>6. CASE recv_payload(p)
    BY <2>6, PayloadKeeps
  <2> QED BY <1>2, <2>1, <2>2, <2>3, <2>4, <2>5, <2>6 DEF Step
<1>3. ASSUME NEW p \in Procs, Fault(p) PROVE InetInv'
  <2>1. CASE WriteFails(p)
    BY <2>1, WriteFailsKeeps
  <2>2. CASE ReadFails(p)
    BY <2>2, ReadFailsKeeps
  <2>3. CASE SetupFails(p)
    BY <2>3, SetupFailsKeeps DEF SetupFails
  <2>4. CASE Kill(p)
    BY <2>4, KillKeeps
  <2> QED BY <1>3, <2>1, <2>2, <2>3, <2>4 DEF Fault
<1> QED BY <1>1, <1>2, <1>3 DEF Next

\* The inductive invariant holds in every reachable state.
THEOREM InetInvariant == Spec => []InetInv
<1>1. Init => InetInv
  BY InitInv
<1>2. InetInv /\ [Next]_vars => InetInv'
  BY StepKeeps
<1> QED BY <1>1, <1>2, PTL DEF Spec

\* The variables of the exchange have their types.
THEOREM InetTypeOK == Spec => []TypeOK
<1>1. InetInv => TypeOK
  BY DEF InetInv
<1> QED BY <1>1, InetInvariant, PTL

\* The first payloads are a prefix of the two.
LEMMA FirstArePrefix ==
  ASSUME NEW p \in Procs, NEW k \in 0 .. 2
  PROVE  IsPrefix(FirstPayloads(p, k), <<Payload(p, 1), Payload(p, 2)>>)
<1> DEFINE a == Payload(p, 1)
           b == Payload(p, 2)
<1>1. a \in Seq(Pieces) /\ b \in Seq(Pieces)
  BY PacketFacts
<1> HIDE DEF a, b
<1>2. <<a, b>> \in Seq(Seq(Pieces)) /\ Len(<<a, b>>) = 2
  BY <1>1
<1>3. CASE k = 0
  <2>1. IsPrefix(<<>>, <<a, b>>)
    BY <1>2 DEF IsPrefix
  <2> QED BY <1>3, <2>1 DEF FirstPayloads, a, b
<1>4. CASE k = 1
  <2>1. Len(<<a>>) = 1 /\ <<a>> \in Seq(Seq(Pieces))
    BY <1>1
  <2>2. IsPrefix(<<a>>, <<a, b>>)
    BY <1>1, <1>2, <2>1 DEF IsPrefix
  <2> QED BY <1>4, <2>2 DEF FirstPayloads, a, b
<1>5. CASE k = 2
  <2>1. IsPrefix(<<a, b>>, <<a, b>>)
    BY <1>1, <1>2 DEF IsPrefix
  <2> QED BY <1>5, <2>1 DEF FirstPayloads, a, b
<1> QED BY <1>3, <1>4, <1>5

\* Whatever TCP makes of the stream, what has been received is what was sent, whole and in
\* order (recv_payload, send_packet).
THEOREM InetPacketsIntact == Spec => []PacketsIntact
<1>1. InetInv => PacketsIntact
  <2> SUFFICES ASSUME InetInv PROVE PacketsIntact
    OBVIOUS
  <2>1. \A q \in Procs : Packets(q) \in 0 .. 2
    BY PlaceTypes DEF InetInv
  <2>2. Received /\ Clients \subseteq Procs /\ Server \in Procs
    BY DEF InetInv, Procs
  <2>3. ASSUME NEW c \in Clients
        PROVE  IsPrefix(got[c], <<Payload(Server, 1), Payload(Server, 2)>>)
    <3>1. got[c] = FirstPayloads(Server, Packets(c)) /\ Packets(c) \in 0 .. 2
      BY <2>1, <2>2 DEF Received
    <3> QED BY <2>2, <3>1, FirstArePrefix
  <2>4. ASSUME got[Server] # <<>>
        PROVE  \E c \in Clients : IsPrefix(got[Server], <<Payload(c, 1), Payload(c, 2)>>)
    <3>1. PICK c \in Clients : got[Server] = FirstPayloads(c, Packets(Server))
      BY <2>2, <2>4 DEF Received
    <3>2. IsPrefix(got[Server], <<Payload(c, 1), Payload(c, 2)>>)
      BY <2>1, <2>2, <3>1, FirstArePrefix
    <3> QED BY <3>2
  <2> QED BY <2>3, <2>4 DEF PacketsIntact
<1> QED BY <1>1, InetInvariant, PTL

\* A client that ends normally was served by a server that did not fail, and nobody who
\* ends normally keeps a block, or loses more than one when failing (free_packet).
THEOREM InetNormalEndIsComplete == Spec => []NormalEndIsComplete
<1>1. InetInv => NormalEndIsComplete
  BY DEF InetInv, Flow, DownFlow, Blocks, Heard, FirstPayloads, NormalEndIsComplete
<1> QED BY <1>1, InetInvariant, PTL
===============================================================================
