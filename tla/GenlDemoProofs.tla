---------------------------- MODULE GenlDemoProofs ----------------------------
(***************************************************************************)
(* What src/kernel-module/netlink-generic promises about ids and about the *)
(* delivery of notifications, proved for every number of reporters and     *)
(* listeners, every buffer size and every number of loads.                 *)
(*                                                                         *)
(* The invariant has four parts that lean on each other: the types; Ids,   *)
(* which says that whatever was numbered in this load lies below the       *)
(* counter; Traffic, which says of every notification a listener has       *)
(* printed, holds or has buffered whose broadcast it came from, and that   *)
(* no two of them are the same; and Counts, which ties the loop counter of *)
(* a listener to what it has printed.                                      *)
(***************************************************************************)
EXTENDS GenlDemo, FiniteSetTheorems, SequenceTheorems, TLAPS

Types ==
  /\ TypeOK
  /\ queue \in [Listeners -> Seq(Event)]
  /\ printed \in [Listeners -> Seq(Event)]
  /\ info \in [Listeners -> Event \cup {NoEvent}]
  /\ \A l \in Listeners : lpc[l] = "print" => info[l] \in Event

\* The reporters that got their id in the current load, after init had set the first.
ThisLoad == {r \in Reporters : live_id[r] = loads}

Ids ==
  /\ registered <=> mod # "unloaded"
  /\ registered => loads >= 1
  /\ \A r \in Reporters :
       /\ rpc[r] \in Handling => registered
       /\ rpc[r] \in {"notify", "broadcast"} => event[r] \in Event /\ event[r].from = r
       /\ live_id[r] <= loads
       /\ live_id[r] # 0 => rpc[r] \in {"notify", "broadcast", "done"}
       /\ mod = "init" => live_id[r] # loads
       /\ mod = "live" /\ live_id[r] = loads => event[r].id < g_event_id
  /\ LiveIdsUnique

Gone == Exited \cup {"exit"}

\* What was taken off the broadcast of r for l reached l, unless l overran or is gone.
Reached(r, l) == (~overrun[l] /\ lpc[l] \notin Gone) => event[r] \in Seen(l)

\* No notification is in two places.
Apart(l) ==
  /\ IsInjective(printed[l])
  /\ IsInjective(queue[l])
  /\ Range(printed[l]) \cap Range(queue[l]) = {}
  /\ lpc[l] = "print" => info[l] \notin Range(printed[l]) \cup Range(queue[l])

\* Every notification at l is the one its reporter's broadcast has already served l.
Served(l, e) == /\ e.from \in Reporters
                /\ e = event[e.from]
                /\ l \in audience[e.from] \ todo[e.from]

Traffic ==
  /\ \A r \in Reporters :
       /\ audience[r] # {} => rpc[r] \in {"broadcast", "done"}
       /\ todo[r] \subseteq audience[r]
  /\ \A l \in Listeners :
       /\ \A r \in Reporters : l \in audience[r] \ todo[r] => Reached(r, l)
       /\ \A e \in Seen(l) : Served(l, e)
       /\ Apart(l)

\* What a listener's counter and its limit have to do with what it printed.
CountOf(l) ==
  /\ lpc[l] \in {"start", "resolved"} => count[l] = 0 /\ Len(printed[l]) = 0
  /\ lpc[l] \in {"loop", "free", "memset"} => count[l] = Len(printed[l])
  /\ lpc[l] \in {"recv", "print", "close"} => count[l] = Len(printed[l]) + 1
  /\ lpc[l] \in {"recv", "print"} => LoopGoesOn(count[l], NumEvents[l])
  /\ lpc[l] \in {"start", "resolved", "loop", "free", "memset"}
       => NumEvents[l] = -1 \/ Len(printed[l]) <= NumEvents[l]
  /\ lpc[l] \in {"close", "exit", "natural"} => Len(printed[l]) = NumEvents[l]

Counts == \A l \in Listeners : CountOf(l)

GenlInv == Types /\ Ids /\ Traffic /\ Counts

-------------------------------------------------------------------------------
(* Sequences without repetition.                                           *)

\* The elements of a sequence after an append.
LEMMA RangeOfAppend ==
  ASSUME NEW S, NEW s \in Seq(S), NEW e \in S
  PROVE  Range(Append(s, e)) = Range(s) \cup {e}
<1>1. DOMAIN s = 1 .. Len(s) /\ DOMAIN Append(s, e) = 1 .. Len(s) + 1 /\ Len(s) \in Nat
  BY AppendProperties
<1>2. /\ \A i \in 1 .. Len(s) : Append(s, e)[i] = s[i]
      /\ Append(s, e)[Len(s) + 1] = e
  BY AppendProperties
<1>3. \A i \in 1 .. Len(s) + 1 : i \in 1 .. Len(s) \/ i = Len(s) + 1
  BY <1>1
<1>4. \A i \in 1 .. Len(s) : i \in 1 .. Len(s) + 1
  BY <1>1
<1>5. Len(s) + 1 \in 1 .. Len(s) + 1
  BY <1>1
<1>6. Range(Append(s, e)) \subseteq Range(s) \cup {e}
  BY <1>1, <1>2, <1>3 DEF Range
<1>7. Range(s) \subseteq Range(Append(s, e))
  BY <1>1, <1>2, <1>4 DEF Range
<1>8. e \in Range(Append(s, e))
  BY <1>1, <1>2, <1>5 DEF Range
<1> QED BY <1>6, <1>7, <1>8

\* A new element keeps a sequence free of repetitions.
LEMMA AppendNew ==
  ASSUME NEW S, NEW s \in Seq(S), NEW e \in S, IsInjective(s), e \notin Range(s)
  PROVE  IsInjective(Append(s, e))
<1>1. DOMAIN s = 1 .. Len(s) /\ DOMAIN Append(s, e) = 1 .. Len(s) + 1 /\ Len(s) \in Nat
  BY AppendProperties
<1>2. /\ \A i \in 1 .. Len(s) : Append(s, e)[i] = s[i] /\ s[i] # e
      /\ Append(s, e)[Len(s) + 1] = e
  BY <1>1, AppendProperties DEF Range
<1>3. \A i \in 1 .. Len(s) + 1 : i \in 1 .. Len(s) \/ i = Len(s) + 1
  BY <1>1
<1>4. \A i, j \in 1 .. Len(s) : s[i] = s[j] => i = j
  BY <1>1 DEF IsInjective
<1>5. \A i, j \in 1 .. Len(s) + 1 : Append(s, e)[i] = Append(s, e)[j] => i = j
  BY <1>2, <1>3, <1>4
<1> QED BY <1>1, <1>5 DEF IsInjective

\* Taking the head off a sequence without repetitions: it is not in the rest.
LEMMA HeadAndTail ==
  ASSUME NEW S, NEW s \in Seq(S), s # <<>>
  PROVE  /\ Range(s) = {Head(s)} \cup Range(Tail(s))
         /\ IsInjective(s) => IsInjective(Tail(s)) /\ Head(s) \notin Range(Tail(s))
<1>1. /\ Head(s) = s[1] /\ Tail(s) \in Seq(S) /\ Len(s) \in Nat /\ Len(s) >= 1
      /\ Len(Tail(s)) = Len(s) - 1
      /\ \A i \in 1 .. Len(s) - 1 : Tail(s)[i] = s[i + 1]
  <2>1. Len(s) \in Nat /\ Len(s) # 0
    BY EmptySeq
  <2>2. Head(s) = s[1] /\ Tail(s) \in Seq(S) /\ Len(Tail(s)) = Len(s) - 1
    BY HeadTailProperties
  <2>3. \A i \in 1 .. Len(s) - 1 : Tail(s)[i] = s[i + 1]
    BY <2>2, HeadTailProperties
  <2> QED BY <2>1, <2>2, <2>3
<1>2. DOMAIN s = 1 .. Len(s) /\ DOMAIN Tail(s) = 1 .. Len(s) - 1
  BY <1>1
<1>3. \A i \in 1 .. Len(s) : i = 1 \/ (i - 1 \in 1 .. Len(s) - 1 /\ s[i] = Tail(s)[i - 1])
  BY <1>1
<1>4. \A i \in 1 .. Len(s) - 1 : i + 1 \in 1 .. Len(s) /\ i + 1 # 1
  BY <1>1
<1>5. 1 \in 1 .. Len(s)
  BY <1>1
<1>6. Range(s) \subseteq {Head(s)} \cup Range(Tail(s))
  <2>1. \A j \in 1 .. Len(s) - 1 : Tail(s)[j] \in Range(Tail(s))
    BY <1>2 DEF Range
  <2>2. \A i \in 1 .. Len(s) : s[i] \in {Head(s)} \cup Range(Tail(s))
    BY <1>1, <1>3, <2>1
  <2> QED BY <1>2, <2>2 DEF Range
<1>7. Range(Tail(s)) \subseteq Range(s) /\ Head(s) \in Range(s)
  BY <1>1, <1>2, <1>4, <1>5 DEF Range
<1>8. ASSUME IsInjective(s) PROVE IsInjective(Tail(s)) /\ Head(s) \notin Range(Tail(s))
  <2>1. \A i, j \in 1 .. Len(s) : s[i] = s[j] => i = j
    BY <1>2, <1>8 DEF IsInjective
  <2>2. \A i, j \in 1 .. Len(s) - 1 : Tail(s)[i] = Tail(s)[j] => i = j
    BY <1>1, <1>4, <2>1
  <2>3. \A i \in 1 .. Len(s) - 1 : Tail(s)[i] # s[1]
    BY <1>1, <1>4, <1>5, <2>1
  <2> QED BY <1>1, <1>2, <2>2, <2>3 DEF IsInjective, Range
<1> QED BY <1>6, <1>7, <1>8

\* The empty sequence has no elements, and none twice.
LEMMA NothingYet == Range(<<>>) = {} /\ IsInjective(<<>>)
<1>1. DOMAIN <<>> = {}
  OBVIOUS
<1> QED BY <1>1 DEF Range, IsInjective

-------------------------------------------------------------------------------
(* Types.                                                                  *)

\* Loading and unloading keep the types.
LEMMA LoadTypes ==
  ASSUME Types, LoadStep
  PROVE  Types'
<1> USE GenlAssumption DEF Types, TypeOK, reporterVars, socketVars, listenerVars
<1>1. CASE RegisterFamily
  BY <1>1 DEF RegisterFamily
<1>2. CASE SetFirstId
  BY <1>2 DEF SetFirstId
<1>3. CASE demo_genl_exit
  BY <1>3 DEF demo_genl_exit
<1> QED BY <1>1, <1>2, <1>3 DEF LoadStep

\* Reporters and the handlers they run keep the types.
LEMMA ReporterTypes ==
  ASSUME Types, Ids, NEW r \in Reporters, ReporterStep(r)
  PROVE  Types'
<1> USE GenlAssumption DEF Types, TypeOK, Handling, reporterOnly, kernelVars, socketVars,
                           listenerVars
<1>1. CASE init_genl_ctx(r)
  BY <1>1 DEF init_genl_ctx
<1>2. CASE report_event(r)
  BY <1>2 DEF report_event
<1>3. CASE demo_event_report(r)
  <2>1. [id |-> g_event_id, from |-> r] \in Event
    BY DEF Event
  <2>2. g_event_id' \in Nat
    BY <1>3 DEF demo_event_report, FetchInc
  <2> QED BY <1>3, <2>1, <2>2 DEF demo_event_report
<1>4. CASE demo_event_notify(r)
  BY <1>4 DEF demo_event_notify
<1>5. ASSUME NEW l \in Listeners, Deliver(r, l) PROVE Types'
  <2> USE <1>5 DEF Deliver
  <2>1. event[r] \in Event
    BY DEF Ids
  <2>2. CASE Len(queue[l]) < RcvBuf
    <3>1. queue' = [queue EXCEPT ![l] = Append(@, event[r])]
      BY <2>2
    <3>2. Append(queue[l], event[r]) \in Seq(Event) /\ Len(queue[l]) \in Nat
      BY <2>1, AppendProperties
    <3>3. Len(Append(queue[l], event[r])) <= RcvBuf
      BY <2>1, <2>2, AppendProperties
    <3>4. queue' \in [Listeners -> Seq(Event)]
      BY <3>1, <3>2
    <3>5. \A k \in Listeners : Len(queue'[k]) <= RcvBuf
      BY <3>1, <3>3
    <3> QED BY <2>2, <3>4, <3>5
  <2>3. CASE ~ Len(queue[l]) < RcvBuf
    BY <2>3
  <2> QED BY <2>2, <2>3
<1>6. CASE Delivered(r)
  BY <1>6 DEF Delivered
<1> QED BY <1>1, <1>2, <1>3, <1>4, <1>5, <1>6 DEF ReporterStep

\* Closing a socket keeps the types of its buffer.
LEMMA CloseTypes ==
  ASSUME Types, NEW l \in Listeners, Close(l)
  PROVE  /\ members' \subseteq Listeners
         /\ queue' \in [Listeners -> Seq(Event)]
         /\ \A k \in Listeners : Len(queue'[k]) <= RcvBuf
         /\ overrun' \in [Listeners -> BOOLEAN]
<1>1. <<>> \in Seq(Event) /\ Len(<<>>) = 0 /\ 0 <= RcvBuf
  BY EmptySeq, GenlAssumption
<1> QED BY <1>1 DEF Types, TypeOK, Close

\* A listener and its signal handler keep the types.
LEMMA ListenerTypes ==
  ASSUME Types, NEW l \in Listeners, ListenerStep(l) \/ signal_handler(l)
  PROVE  Types'
<1> USE GenlAssumption DEF Types, TypeOK, Exited, listenerOnly, kernelVars, reporterVars,
                           socketVars, Goto
<1>1. CASE ResolveGroup(l)
  BY <1>1 DEF ResolveGroup
<1>2. CASE AddMembership(l)
  BY <1>2 DEF AddMembership
<1>3. CASE LoopTest(l)
  BY <1>3 DEF LoopTest
<1>4. CASE event_callback(l)
  <2>1. /\ Head(queue[l]) \in Event /\ Tail(queue[l]) \in Seq(Event)
        /\ Len(Tail(queue[l])) <= RcvBuf
    <3>1. queue[l] \in Seq(Event) /\ queue[l] # <<>>
      BY <1>4 DEF event_callback
    <3>2. Len(queue[l]) \in Nat /\ Len(Tail(queue[l])) = Len(queue[l]) - 1
      BY <3>1, HeadTailProperties
    <3> QED BY <3>1, <3>2, HeadTailProperties
  <2> QED BY <1>4, <2>1 DEF event_callback
<1>5. CASE ReceiveFails(l)
  BY <1>5, CloseTypes DEF ReceiveFails
<1>6. CASE PrintEvent(l)
  <2>1. Append(printed[l], info[l]) \in Seq(Event)
    BY <1>6, AppendProperties DEF PrintEvent
  <2> QED BY <1>6, <2>1 DEF PrintEvent, Prints
<1>7. CASE FreeComponent(l)
  BY <1>7 DEF FreeComponent
<1>8. CASE ClearInfo(l)
  BY <1>8 DEF ClearInfo
<1>9. CASE put_genl_multicast_socket(l)
  BY <1>9, CloseTypes DEF put_genl_multicast_socket
<1>10. CASE NaturalExit(l)
  BY <1>10 DEF NaturalExit
<1>11. CASE signal_handler(l)
  BY <1>11, CloseTypes DEF signal_handler
<1> QED BY <1>1, <1>2, <1>3, <1>4, <1>5, <1>6, <1>7, <1>8, <1>9, <1>10, <1>11
        DEF ListenerStep
-------------------------------------------------------------------------------
(* Ids.                                                                    *)

\* The numbered events of the current load: a finite set, empty before init ends.
LEMMA LoadSet ==
  ASSUME Types, Ids
  PROVE  /\ IsFiniteSet(ThisLoad)
         /\ Cardinality(ThisLoad) \in Nat
         /\ mod = "live" => g_event_id = 1 + Cardinality(ThisLoad)
<1>1. ThisLoad \subseteq Reporters
  BY DEF ThisLoad
<1>2. IsFiniteSet(ThisLoad)
  BY <1>1, GenlAssumption, FS_Subset
<1> QED BY <1>2, FS_CardinalityType DEF Ids, LiveIdsUnique, ThisLoad

\* What unregisters the family finds no handler running; what registers it starts a
\* load that nobody got an id in.
LEMMA LoadIds ==
  ASSUME Types, Ids, LoadStep
  PROVE  Ids'
<1>1. CASE RegisterFamily
  <2> USE <1>1 DEF RegisterFamily, reporterVars
  <2>1. loads \in Nat /\ loads' = loads + 1
    BY GenlAssumption DEF Types, TypeOK
  <2>2. \A r \in Reporters : live_id'[r] # loads' /\ live_id'[r] <= loads'
    <3> TAKE r \in Reporters
    <3>1. live_id[r] \in Nat /\ live_id[r] <= loads
      BY GenlAssumption DEF Types, TypeOK, Ids
    <3> QED BY <2>1, <3>1
  <2>3. LiveIdsUnique'
    BY DEF Ids, LiveIdsUnique
  <2> QED BY <2>1, <2>2, <2>3 DEF Ids
<1>2. CASE SetFirstId
  <2> USE <1>2 DEF SetFirstId, reporterVars
  <2>1. {r \in Reporters : live_id[r] = loads} = {}
    BY DEF Ids
  <2>2. LiveIdsUnique'
    BY <2>1, FS_EmptySet DEF Ids, LiveIdsUnique
  <2> QED BY <2>1, <2>2 DEF Ids
<1>3. CASE demo_genl_exit
  <2> USE <1>3 DEF demo_genl_exit, reporterVars
  <2>1. LiveIdsUnique'
    BY DEF Ids, LiveIdsUnique
  <2> QED BY <2>1 DEF Ids
<1> QED BY <1>1, <1>2, <1>3 DEF LoadStep

\* A handler that takes the next id: it lies above all ids of this load.
LEMMA ReportIds ==
  ASSUME Types, Ids, NEW r \in Reporters, demo_event_report(r)
  PROVE  Ids'
<1> USE DEF demo_event_report, reporterOnly
<1>1. /\ live_id[r] = 0 /\ registered /\ loads \in Nat /\ loads >= 1 /\ g_event_id \in Nat
      /\ mod \in {"init", "live"}
  <2>1. loads \in Nat /\ g_event_id \in Nat /\ mod \in {"unloaded", "init", "live"}
    BY GenlAssumption DEF Types, TypeOK
  <2>2. rpc[r] = "report" /\ registered
    BY DEF Ids, Handling
  <2>3. live_id[r] = 0
    BY <2>2 DEF Ids
  <2> QED BY <2>1, <2>2, <2>3 DEF Ids
<1>2. /\ live_id' = [live_id EXCEPT ![r] = IF mod = "live" THEN loads ELSE 0]
      /\ event' = [event EXCEPT ![r] = [id |-> g_event_id, from |-> r]]
      /\ rpc' = [rpc EXCEPT ![r] = "notify"]
      /\ g_event_id' = g_event_id + 1
      /\ UNCHANGED <<mod, registered, loads>>
  BY DEF FetchInc
<1>3. /\ live_id'[r] = (IF mod = "live" THEN loads ELSE 0)
      /\ event'[r] = [id |-> g_event_id, from |-> r]
      /\ rpc'[r] = "notify"
      /\ \A s \in Reporters \ {r} :
           live_id'[s] = live_id[s] /\ event'[s] = event[s] /\ rpc'[s] = rpc[s]
  BY <1>2 DEF Types, TypeOK
<1>4. \A s \in Reporters \ {r} : live_id[s] # 0 => event[s].id \in Int
  <2> SUFFICES ASSUME NEW s \in Reporters \ {r}, live_id[s] # 0 PROVE event[s].id \in Int
    OBVIOUS
  <2>1. event[s] \in Event \cup {NoEvent}
    BY DEF Types, TypeOK
  <2> QED BY <2>1 DEF Event, NoEvent
<1>5. /\ event'[r] \in Event /\ event'[r].from = r /\ event'[r].id = g_event_id
  BY <1>1, <1>3 DEF Event
<1>6. ASSUME NEW s \in Reporters \ {r}, live_id'[s] = live_id'[r], live_id'[r] # 0
      PROVE  event'[s].id < event'[r].id
  <2>1. mod = "live" /\ live_id[s] = loads
    BY <1>3, <1>6
  <2>2. event[s].id < g_event_id
    BY <2>1 DEF Ids
  <2> QED BY <1>3, <1>5, <2>2
<1>7. \A s, t \in Reporters :
        (s # t /\ live_id'[s] = live_id'[t] /\ live_id'[s] # 0) => event'[s].id # event'[t].id
  <2> SUFFICES ASSUME NEW s \in Reporters, NEW t \in Reporters, s # t,
                      live_id'[s] = live_id'[t], live_id'[s] # 0
               PROVE  event'[s].id # event'[t].id
    OBVIOUS
  <2>1. CASE s # r /\ t # r
    BY <1>3, <2>1 DEF Ids, LiveIdsUnique
  <2>2. ASSUME NEW u \in Reporters \ {r}, live_id'[u] = live_id'[r], live_id'[r] # 0
        PROVE  event'[u].id # event'[r].id
    <3>1. event'[u].id < event'[r].id
      BY <1>6, <2>2
    <3>2. event'[u].id \in Int /\ event'[r].id \in Int
      BY <1>1, <1>3, <1>4, <1>5, <2>2
    <3> QED BY <3>1, <3>2
  <2>3. CASE s = r
    BY <2>2, <2>3
  <2>4. CASE t = r
    BY <2>2, <2>4
  <2> QED BY <2>1, <2>3, <2>4
<1>8. mod' = "live" =>
        g_event_id' = 1 + Cardinality({s \in Reporters : live_id'[s] = loads'})
  <2> SUFFICES ASSUME mod = "live"
               PROVE  g_event_id' = 1 + Cardinality({s \in Reporters : live_id'[s] = loads'})
    BY <1>2
  <2>1. {s \in Reporters : live_id'[s] = loads'} = ThisLoad \cup {r}
    BY <1>2, <1>3 DEF ThisLoad
  <2>2. r \notin ThisLoad
    BY <1>1 DEF ThisLoad
  <2>3. Cardinality(ThisLoad \cup {r}) = Cardinality(ThisLoad) + 1
    BY <2>2, LoadSet, FS_AddElement
  <2>4. g_event_id = 1 + Cardinality(ThisLoad) /\ Cardinality(ThisLoad) \in Nat
    BY LoadSet
  <2> HIDE DEF ThisLoad, demo_event_report
  <2>5. 1 + Cardinality(ThisLoad \cup {r}) = g_event_id + 1
    BY <2>3, <2>4
  <2> QED BY <1>2, <2>1, <2>5
<1>9. LiveIdsUnique'
  BY <1>7, <1>8 DEF LiveIdsUnique
<1>10. ASSUME NEW s \in Reporters
       PROVE  /\ rpc'[s] \in Handling => registered'
              /\ rpc'[s] \in {"notify", "broadcast"} => event'[s] \in Event /\ event'[s].from = s
              /\ live_id'[s] <= loads'
              /\ live_id'[s] # 0 => rpc'[s] \in {"notify", "broadcast", "done"}
              /\ mod' = "init" => live_id'[s] # loads'
              /\ mod' = "live" /\ live_id'[s] = loads' => event'[s].id < g_event_id'
  <2>1. CASE s = r
    BY <1>1, <1>2, <1>3, <1>5, <2>1
  <2>2. CASE s # r
    <3>1. mod = "live" /\ live_id[s] = loads => event[s].id < g_event_id + 1
      BY <1>1, <1>4, <2>2 DEF Ids
    <3> QED BY <1>2, <1>3, <2>2, <3>1 DEF Ids
  <2> QED BY <2>1, <2>2
<1> QED BY <1>1, <1>2, <1>9, <1>10 DEF Ids

\* The other steps of reporters number nothing.
LEMMA ReporterIds ==
  ASSUME Types, Ids, NEW r \in Reporters, ReporterStep(r)
  PROVE  Ids'
<1> USE DEF reporterOnly, kernelVars
<1>1. ASSUME UNCHANGED <<kernelVars, event, live_id>>,
             NEW pc, rpc' = [rpc EXCEPT ![r] = pc],
             pc \in Handling => registered,
             pc \in {"notify", "broadcast"} => rpc[r] \in {"notify", "broadcast"},
             live_id[r] # 0 => pc \in {"notify", "broadcast", "done"}
      PROVE  Ids'
  <2>1. LiveIdsUnique'
    BY <1>1 DEF Ids, LiveIdsUnique
  <2> QED BY <1>1, <2>1 DEF Ids, Types, TypeOK
<1>2. CASE init_genl_ctx(r)
  BY <1>1, <1>2 DEF init_genl_ctx, Handling, Ids
<1>3. CASE report_event(r)
  BY <1>1, <1>3 DEF report_event, Handling, Ids
<1>4. CASE demo_event_report(r)
  BY <1>4, ReportIds
<1>5. CASE demo_event_notify(r)
  BY <1>1, <1>5 DEF demo_event_notify, Handling, Ids
<1>6. ASSUME NEW l \in Listeners, Deliver(r, l) PROVE Ids'
  <2>1. LiveIdsUnique'
    BY <1>6 DEF Deliver, Ids, LiveIdsUnique
  <2> QED BY <1>6, <2>1 DEF Deliver, Ids
<1>7. CASE Delivered(r)
  BY <1>1, <1>7 DEF Delivered, Handling, Ids
<1> QED BY <1>2, <1>3, <1>4, <1>5, <1>6, <1>7 DEF ReporterStep

\* Whatever leaves the kernel and the reporters alone keeps the ids.
LEMMA SameIds ==
  ASSUME Ids, UNCHANGED <<kernelVars, reporterVars>>
  PROVE  Ids'
<1>1. LiveIdsUnique'
  BY DEF Ids, LiveIdsUnique, kernelVars, reporterVars
<1> QED BY <1>1 DEF Ids, kernelVars, reporterVars
-------------------------------------------------------------------------------
(* Traffic.                                                                *)

\* Whatever leaves reporters, buffers and listeners alone keeps the traffic.
LEMMA SameTraffic ==
  ASSUME Traffic, UNCHANGED <<reporterVars, queue, overrun, listenerVars>>
  PROVE  Traffic'
BY DEF Traffic, Reached, Served, Apart, Seen, reporterVars, listenerVars

\* A reporter whose broadcast has not begun has no notification anywhere, so it may
\* still choose its event and its audience.
LEMMA ReporterTraffic ==
  ASSUME Types, Traffic, NEW r \in Reporters, NEW pc,
         UNCHANGED <<queue, overrun, listenerVars>>,
         rpc' = [rpc EXCEPT ![r] = pc],
         \/ pc \in {"broadcast", "done"} /\ UNCHANGED <<event, todo, audience>>
         \/ /\ rpc[r] \notin {"broadcast", "done"}
            /\ todo'[r] = audience'[r]
            /\ pc \in {"broadcast", "done"} \/ audience'[r] = {}
            /\ \A s \in Reporters \ {r} : /\ event'[s] = event[s]
                                          /\ todo'[s] = todo[s]
                                          /\ audience'[s] = audience[s]
  PROVE  Traffic'
<1>1. rpc'[r] = pc /\ \A s \in Reporters \ {r} : rpc'[s] = rpc[s]
  BY DEF Types, TypeOK
<1>2. \A l \in Listeners : Seen(l)' = Seen(l)
  BY DEF Seen, listenerVars
<1>3. \A l \in Listeners : Apart(l) => Apart(l)'
  BY DEF Apart, listenerVars
<1>4. CASE UNCHANGED <<event, todo, audience>>
  BY <1>1, <1>2, <1>3, <1>4 DEF Traffic, Reached, Served, listenerVars
<1>5. CASE ~ UNCHANGED <<event, todo, audience>>
  <2>1. /\ audience[r] = {} /\ todo'[r] = audience'[r]
        /\ audience'[r] # {} => rpc'[r] \in {"broadcast", "done"}
        /\ \A s \in Reporters \ {r} : /\ event'[s] = event[s]
                                      /\ todo'[s] = todo[s]
                                      /\ audience'[s] = audience[s]
    BY <1>1, <1>5 DEF Traffic
  <2>2. \A l \in Listeners : \A e : Served(l, e) => Served(l, e)'
    BY <2>1 DEF Served
  <2>3. \A l \in Listeners, s \in Reporters :
          l \in audience'[s] \ todo'[s] => s # r /\ l \in audience[s] \ todo[s]
    BY <2>1
  <2>4. \A l \in Listeners, s \in Reporters \ {r} : Reached(s, l) => Reached(s, l)'
    BY <1>2, <2>1 DEF Reached, listenerVars
  <2>5. \A s \in Reporters : /\ audience'[s] # {} => rpc'[s] \in {"broadcast", "done"}
                             /\ todo'[s] \subseteq audience'[s]
    BY <1>1, <2>1 DEF Traffic
  <2> QED BY <1>2, <1>3, <2>2, <2>3, <2>4, <2>5 DEF Traffic
<1> QED BY <1>4, <1>5

\* A delivery: the notification is new to the socket that gets it, or the socket overruns.
LEMMA DeliverTraffic ==
  ASSUME Types, Ids, Traffic, NEW r \in Reporters, NEW l \in Listeners, Deliver(r, l)
  PROVE  Traffic'
<1> USE DEF Deliver, listenerVars
<1>1. event[r] \in Event /\ event[r].from = r /\ l \in todo[r] /\ l \in audience[r]
  BY DEF Ids, Traffic
<1>2. event[r] \notin Seen(l)
  BY <1>1 DEF Traffic, Served
<1>3. /\ todo'[r] = todo[r] \ {l}
      /\ \A s \in Reporters \ {r} : todo'[s] = todo[s]
      /\ UNCHANGED <<rpc, event, audience>>
  BY DEF Types, TypeOK
<1>4. \/ overrun'[l] /\ queue'[l] = queue[l]
      \/ overrun'[l] = overrun[l] /\ queue'[l] = Append(queue[l], event[r])
  BY DEF Types, TypeOK
<1>5. \A k \in Listeners \ {l} : /\ Seen(k)' = Seen(k) /\ overrun'[k] = overrun[k]
                                 /\ Apart(k)' <=> Apart(k)
  BY DEF Types, TypeOK, Seen, Apart
<1>6. queue'[l] = Append(queue[l], event[r]) => Seen(l)' = Seen(l) \cup {event[r]}
  BY <1>1, RangeOfAppend DEF Seen, Types
<1>7. queue'[l] = queue[l] => Seen(l)' = Seen(l)
  BY DEF Seen
<1>8. \A k \in Listeners : \A e : Served(k, e) => Served(k, e)'
  BY <1>3 DEF Served
<1>9. Served(l, event[r])'
  BY <1>1, <1>3 DEF Served
<1>10. \A k \in Listeners : \A e \in Seen(k)' : Served(k, e)'
  BY <1>4, <1>5, <1>6, <1>7, <1>8, <1>9 DEF Traffic
<1>11. Apart(l)'
  <2>1. CASE queue'[l] = queue[l]
    BY <2>1 DEF Apart, Traffic
  <2>2. CASE queue'[l] = Append(queue[l], event[r])
    <3>1. queue[l] \in Seq(Event)
      BY DEF Types
    <3>2. /\ Range(queue'[l]) = Range(queue[l]) \cup {event[r]}
          /\ event[r] \notin Range(queue[l]) \cup Range(printed[l])
          /\ lpc[l] = "print" => info[l] # event[r]
      BY <1>1, <1>2, <2>2, <3>1, RangeOfAppend DEF Seen
    <3>3. IsInjective(queue'[l])
      BY <1>1, <2>2, <3>1, <3>2, AppendNew DEF Apart, Traffic
    <3> QED BY <3>2, <3>3 DEF Apart, Traffic
  <2> QED BY <1>4, <2>1, <2>2
<1>12. ASSUME NEW k \in Listeners, NEW s \in Reporters, k \in audience'[s] \ todo'[s]
       PROVE  Reached(s, k)'
  <2>1. CASE s = r /\ k = l
    BY <1>3, <1>4, <1>6, <2>1 DEF Reached
  <2>2. CASE s # r \/ k # l
    <3>1. Reached(s, k)
      BY <1>3, <1>12, <2>2 DEF Traffic
    <3>2. Seen(k) \subseteq Seen(k)' /\ (overrun[k] => overrun'[k])
      BY <1>4, <1>5, <1>6, <1>7
    <3> QED BY <1>3, <3>1, <3>2 DEF Reached
  <2> QED BY <2>1, <2>2
<1>13. \A s \in Reporters : /\ audience'[s] # {} => rpc'[s] \in {"broadcast", "done"}
                            /\ todo'[s] \subseteq audience'[s]
  BY <1>3 DEF Traffic
<1>14. \A k \in Listeners : Apart(k)'
  BY <1>5, <1>11 DEF Traffic
<1> QED BY <1>10, <1>12, <1>13, <1>14 DEF Traffic

\* What a step of a listener has to show: it sees what it saw before, or is gone.
LEMMA ListenerTraffic ==
  ASSUME Traffic, NEW l \in Listeners, UNCHANGED <<reporterVars, overrun>>,
         \A k \in Listeners \ {l} : /\ lpc'[k] = lpc[k] /\ queue'[k] = queue[k]
                                    /\ info'[k] = info[k] /\ printed'[k] = printed[k],
         \/ Seen(l)' \subseteq Seen(l) /\ lpc'[l] \in Gone
         \/ Seen(l)' = Seen(l) /\ lpc[l] \notin Gone,
         Apart(l)'
  PROVE  Traffic'
<1> USE DEF reporterVars
<1>1. \A k \in Listeners \ {l} : Seen(k)' = Seen(k) /\ (Apart(k) => Apart(k)')
  BY DEF Seen, Apart
<1>2. \A k \in Listeners : \A e : Served(k, e)' <=> Served(k, e)
  BY DEF Served
<1>3. \A k \in Listeners \ {l}, r \in Reporters : Reached(r, k) => Reached(r, k)'
  BY <1>1 DEF Reached
<1>4. \A r \in Reporters : Reached(r, l) => Reached(r, l)'
  BY DEF Reached
<1>5. \A k \in Listeners : Apart(k)'
  BY <1>1 DEF Traffic
<1>6. \A k \in Listeners : \A e \in Seen(k)' : Served(k, e)'
  BY <1>1, <1>2 DEF Traffic
<1>7. \A k \in Listeners : \A r \in Reporters : k \in audience'[r] \ todo'[r] => Reached(r, k)'
  BY <1>3, <1>4 DEF Traffic
<1> QED BY <1>5, <1>6, <1>7 DEF Traffic

\* Every step of a reporter keeps the traffic.
LEMMA ReporterStepTraffic ==
  ASSUME Types, Ids, Traffic, NEW r \in Reporters, ReporterStep(r)
  PROVE  Traffic'
<1> USE DEF reporterOnly, socketVars
<1>0. audience[r] # {} => rpc[r] \in {"broadcast", "done"}
  BY DEF Traffic
<1>1. CASE init_genl_ctx(r)
  <2>1. audience[r] = {} /\ todo[r] = {}
    BY <1>1 DEF init_genl_ctx, Traffic
  <2> QED BY <1>1, <2>1, ReporterTraffic DEF init_genl_ctx
<1>2. CASE report_event(r)
  <2>1. audience[r] = {} /\ todo[r] = {}
    BY <1>2 DEF report_event, Traffic
  <2> QED BY <1>2, <2>1, ReporterTraffic DEF report_event
<1>3. CASE demo_event_report(r)
  <2>1. audience[r] = {} /\ todo[r] = {}
    BY <1>3 DEF demo_event_report, Traffic
  <2>2. \A s \in Reporters \ {r} : event'[s] = event[s]
    BY <1>3 DEF demo_event_report, Types, TypeOK
  <2> QED BY <1>3, <2>1, <2>2, ReporterTraffic DEF demo_event_report
<1>4. CASE demo_event_notify(r)
  <2>1. CASE UNCHANGED <<todo, audience>> /\ rpc' = [rpc EXCEPT ![r] = "done"]
    BY <1>4, <2>1, ReporterTraffic DEF demo_event_notify
  <2>2. CASE /\ rpc' = [rpc EXCEPT ![r] = "broadcast"]
             /\ todo' = [todo EXCEPT ![r] = members]
             /\ audience' = [audience EXCEPT ![r] = members]
    <3>1. /\ todo'[r] = audience'[r]
          /\ \A s \in Reporters \ {r} : todo'[s] = todo[s] /\ audience'[s] = audience[s]
      BY <2>2 DEF Types, TypeOK
    <3> QED BY <1>4, <2>2, <3>1, ReporterTraffic DEF demo_event_notify
  <2> QED BY <1>4, <2>1, <2>2 DEF demo_event_notify
<1>5. ASSUME NEW l \in Listeners, Deliver(r, l) PROVE Traffic'
  BY <1>5, DeliverTraffic
<1>6. CASE Delivered(r)
  BY <1>6, ReporterTraffic DEF Delivered
<1> QED BY <1>1, <1>2, <1>3, <1>4, <1>5, <1>6 DEF ReporterStep

\* A step of listener l touches what the other listeners hold in no way.
LEMMA OthersUntouched ==
  ASSUME Types, NEW l \in Listeners, ListenerStep(l) \/ signal_handler(l)
  PROVE  \A k \in Listeners \ {l} : /\ lpc'[k] = lpc[k] /\ queue'[k] = queue[k]
                                    /\ info'[k] = info[k] /\ printed'[k] = printed[k]
                                    /\ count'[k] = count[k]
BY DEF Types, TypeOK, ListenerStep, ResolveGroup, AddMembership, LoopTest, event_callback,
       ReceiveFails, PrintEvent, FreeComponent, ClearInfo, put_genl_multicast_socket,
       NaturalExit, signal_handler, Close, Goto, socketVars

\* A listener that closes its socket, or exits, holds less than before and is gone.
LEMMA GoneTraffic ==
  ASSUME Types, Traffic, NEW l \in Listeners,
         queue'[l] = <<>> \/ queue'[l] = queue[l], printed'[l] = printed[l], lpc'[l] \in Gone
  PROVE  Seen(l)' \subseteq Seen(l) /\ Apart(l)'
<1>1. Range(queue'[l]) \subseteq Range(queue[l]) /\ IsInjective(queue'[l])
  BY NothingYet DEF Traffic, Apart
<1>2. lpc'[l] # "print"
  BY DEF Gone, Exited
<1> QED BY <1>1, <1>2 DEF Seen, Apart, Traffic

\* Every step of a listener keeps the traffic, wherever a signal interrupts it.
LEMMA ListenerStepTraffic ==
  ASSUME Types, Traffic, NEW l \in Listeners, ListenerStep(l) \/ signal_handler(l)
  PROVE  Traffic'
<1> USE DEF Goto, listenerOnly, socketVars
<1>1. UNCHANGED <<reporterVars, overrun>>
  BY DEF ListenerStep, ResolveGroup, AddMembership, LoopTest, event_callback,
         ReceiveFails, PrintEvent, FreeComponent, ClearInfo, put_genl_multicast_socket,
         NaturalExit, signal_handler, Close
<1>2. \A k \in Listeners \ {l} : /\ lpc'[k] = lpc[k] /\ queue'[k] = queue[k]
                                 /\ info'[k] = info[k] /\ printed'[k] = printed[k]
  BY OthersUntouched
<1>3. Apart(l)
  BY DEF Traffic
<1>4. ASSUME lpc[l] \notin Gone \cup {"print"}, lpc'[l] # "print",
             UNCHANGED <<queue, printed>>
      PROVE  Traffic'
  <2>1. Seen(l)' = Seen(l) /\ Apart(l)'
    BY <1>3, <1>4 DEF Seen, Apart
  <2> QED BY <1>1, <1>2, <1>4, <2>1, ListenerTraffic
<1>5. ASSUME queue'[l] = <<>> \/ queue'[l] = queue[l], printed'[l] = printed[l],
             lpc'[l] \in Gone
      PROVE  Traffic'
  BY <1>1, <1>2, <1>5, GoneTraffic, ListenerTraffic
<1>6. \A to : lpc' = [lpc EXCEPT ![l] = to] => lpc'[l] = to
  BY DEF Types, TypeOK
<1>7. Close(l) => queue'[l] = <<>>
  BY DEF Close, Types
<1>8. CASE ResolveGroup(l)
  <2>1. lpc'[l] \in {"resolved", "failed"} /\ lpc[l] = "start" /\ UNCHANGED <<queue, printed>>
    BY <1>6, <1>8 DEF ResolveGroup
  <2> QED BY <1>4, <2>1 DEF Gone, Exited
<1>9. CASE AddMembership(l)
  <2>1. lpc'[l] = "loop" /\ lpc[l] = "resolved" /\ UNCHANGED <<queue, printed>>
    BY <1>6, <1>9 DEF AddMembership
  <2> QED BY <1>4, <2>1 DEF Gone, Exited
<1>10. CASE LoopTest(l)
  <2>1. lpc'[l] \in {"recv", "close"} /\ lpc[l] = "loop" /\ UNCHANGED <<queue, printed>>
    BY <1>6, <1>10 DEF LoopTest
  <2> QED BY <1>4, <2>1 DEF Gone, Exited
<1>11. CASE event_callback(l)
  <2>1. /\ lpc[l] = "recv" /\ lpc'[l] = "print" /\ printed'[l] = printed[l]
        /\ queue[l] \in Seq(Event) /\ queue[l] # <<>>
        /\ info'[l] = Head(queue[l]) /\ queue'[l] = Tail(queue[l])
    BY <1>6, <1>11 DEF event_callback, Types
  <2>2. /\ Range(queue[l]) = {info'[l]} \cup Range(queue'[l])
        /\ IsInjective(queue'[l]) /\ info'[l] \notin Range(queue'[l])
    BY <1>3, <2>1, HeadAndTail DEF Apart
  <2>3. Seen(l)' = Seen(l)
    BY <2>1, <2>2 DEF Seen
  <2>4. Apart(l)'
    BY <1>3, <2>1, <2>2 DEF Apart
  <2>5. lpc[l] \notin Gone
    BY <2>1 DEF Gone, Exited
  <2> QED BY <1>1, <1>2, <2>3, <2>4, <2>5, ListenerTraffic
<1>12. CASE ReceiveFails(l)
  <2>1. lpc'[l] = "failed" /\ printed'[l] = printed[l] /\ queue'[l] = <<>>
    BY <1>6, <1>7, <1>12 DEF ReceiveFails
  <2> QED BY <1>5, <2>1 DEF Gone, Exited
<1>13. CASE PrintEvent(l)
  <2>1. /\ lpc[l] = "print" /\ lpc'[l] = "free" /\ queue'[l] = queue[l]
        /\ printed'[l] = Append(printed[l], info[l])
        /\ printed[l] \in Seq(Event) /\ info[l] \in Event
    BY <1>6, <1>13 DEF PrintEvent, Prints, Types
  <2>2. Range(printed'[l]) = Range(printed[l]) \cup {info[l]} /\ IsInjective(printed'[l])
    BY <1>3, <2>1, RangeOfAppend, AppendNew DEF Apart
  <2>3. Seen(l)' = Seen(l)
    BY <2>1, <2>2 DEF Seen
  <2>4. Apart(l)'
    BY <1>3, <2>1, <2>2 DEF Apart
  <2>5. lpc[l] \notin Gone
    BY <2>1 DEF Gone, Exited
  <2> QED BY <1>1, <1>2, <2>3, <2>4, <2>5, ListenerTraffic
<1>14. CASE FreeComponent(l)
  <2>1. lpc'[l] = "memset" /\ lpc[l] = "free" /\ UNCHANGED <<queue, printed>>
    BY <1>6, <1>14 DEF FreeComponent
  <2> QED BY <1>4, <2>1 DEF Gone, Exited
<1>15. CASE ClearInfo(l)
  <2>1. lpc'[l] = "loop" /\ lpc[l] = "memset" /\ UNCHANGED <<queue, printed>>
    BY <1>6, <1>15 DEF ClearInfo
  <2> QED BY <1>4, <2>1 DEF Gone, Exited
<1>16. CASE put_genl_multicast_socket(l)
  <2>1. lpc'[l] = "exit" /\ printed'[l] = printed[l] /\ queue'[l] = <<>>
    BY <1>6, <1>7, <1>16 DEF put_genl_multicast_socket
  <2> QED BY <1>5, <2>1 DEF Gone
<1>17. CASE NaturalExit(l)
  <2>1. lpc'[l] = "natural" /\ printed'[l] = printed[l] /\ queue'[l] = queue[l]
    BY <1>6, <1>17 DEF NaturalExit
  <2> QED BY <1>5, <2>1 DEF Gone, Exited
<1>18. CASE signal_handler(l)
  <2>1. lpc'[l] = "signaled" /\ printed'[l] = printed[l] /\ queue'[l] = <<>>
    BY <1>6, <1>7, <1>18 DEF signal_handler
  <2> QED BY <1>5, <2>1 DEF Gone, Exited
<1> QED BY <1>8, <1>9, <1>10, <1>11, <1>12, <1>13, <1>14, <1>15, <1>16, <1>17, <1>18
        DEF ListenerStep

-------------------------------------------------------------------------------
(* Counts.                                                                 *)

\* Whatever leaves the listeners alone keeps the counts.
LEMMA SameCounts ==
  ASSUME Counts, UNCHANGED listenerVars
  PROVE  Counts'
BY DEF Counts, CountOf, LoopGoesOn, listenerVars

\* Every step of a listener keeps the counts.
LEMMA ListenerCounts ==
  ASSUME Types, Counts, NEW l \in Listeners, ListenerStep(l) \/ signal_handler(l)
  PROVE  Counts'
<1> USE DEF Goto
<1>1. /\ count[l] \in Nat /\ Len(printed[l]) \in Nat /\ NumEvents[l] \in Int
      /\ CountOf(l)
  BY GenlAssumption, LenProperties DEF Types, TypeOK, Counts, CountOf
<1>2. SUFFICES CountOf(l)'
  BY OthersUntouched DEF Counts, CountOf, LoopGoesOn
<1>3. \A to : lpc' = [lpc EXCEPT ![l] = to] => lpc'[l] = to
  BY DEF Types, TypeOK
<1>4. CASE ResolveGroup(l)
  <2>1. /\ lpc'[l] \in {"resolved", "failed"} /\ lpc[l] = "start"
        /\ UNCHANGED <<count, printed>>
    BY <1>3, <1>4 DEF ResolveGroup
  <2> QED BY <1>1, <2>1 DEF CountOf
<1>5. CASE AddMembership(l)
  <2>1. lpc'[l] = "loop" /\ lpc[l] = "resolved" /\ UNCHANGED <<count, printed>>
    BY <1>3, <1>5 DEF AddMembership
  <2> QED BY <1>1, <2>1 DEF CountOf
<1>6. CASE LoopTest(l)
  <2>1. /\ lpc[l] = "loop" /\ printed' = printed /\ count'[l] = count[l] + 1
        /\ lpc'[l] = IF LoopGoesOn(count'[l], NumEvents[l]) THEN "recv" ELSE "close"
    BY <1>3, <1>6 DEF LoopTest, Types, TypeOK
  <2>2. CASE LoopGoesOn(count'[l], NumEvents[l])
    BY <1>1, <2>1, <2>2 DEF CountOf, LoopGoesOn
  <2>3. CASE ~ LoopGoesOn(count'[l], NumEvents[l])
    BY <1>1, <2>1, <2>3 DEF CountOf, LoopGoesOn
  <2> QED BY <2>2, <2>3
<1>7. CASE event_callback(l)
  <2>1. lpc'[l] = "print" /\ lpc[l] = "recv" /\ UNCHANGED <<count, printed>>
    BY <1>3, <1>7 DEF event_callback
  <2> QED BY <1>1, <2>1 DEF CountOf, LoopGoesOn
<1>8. CASE ReceiveFails(l)
  <2>1. lpc'[l] = "failed" /\ UNCHANGED <<count, printed>>
    BY <1>3, <1>8 DEF ReceiveFails
  <2> QED BY <1>1, <2>1 DEF CountOf
<1>9. CASE PrintEvent(l)
  <2>1. /\ lpc[l] = "print" /\ lpc'[l] = "free" /\ count' = count
        /\ printed'[l] = Append(printed[l], info[l])
    BY <1>3, <1>9 DEF PrintEvent, Prints, Types
  <2>2. info[l] \in Event /\ printed[l] \in Seq(Event)
    BY <2>1 DEF Types
  <2>3. Len(printed'[l]) = Len(printed[l]) + 1
    BY <2>1, <2>2, AppendProperties
  <2> QED BY <1>1, <2>1, <2>3 DEF CountOf, LoopGoesOn
<1>10. CASE FreeComponent(l)
  <2>1. lpc'[l] = "memset" /\ lpc[l] = "free" /\ UNCHANGED <<count, printed>>
    BY <1>3, <1>10 DEF FreeComponent
  <2> QED BY <1>1, <2>1 DEF CountOf
<1>11. CASE ClearInfo(l)
  <2>1. lpc'[l] = "loop" /\ lpc[l] = "memset" /\ UNCHANGED <<count, printed>>
    BY <1>3, <1>11 DEF ClearInfo
  <2> QED BY <1>1, <2>1 DEF CountOf
<1>12. CASE put_genl_multicast_socket(l)
  <2>1. lpc'[l] = "exit" /\ lpc[l] = "close" /\ UNCHANGED <<count, printed>>
    BY <1>3, <1>12 DEF put_genl_multicast_socket
  <2> QED BY <1>1, <2>1 DEF CountOf
<1>13. CASE NaturalExit(l)
  <2>1. lpc'[l] = "natural" /\ lpc[l] = "exit" /\ UNCHANGED <<count, printed>>
    BY <1>3, <1>13 DEF NaturalExit
  <2> QED BY <1>1, <2>1 DEF CountOf
<1>14. CASE signal_handler(l)
  <2>1. lpc'[l] = "signaled" /\ UNCHANGED <<count, printed>>
    BY <1>3, <1>14 DEF signal_handler
  <2> QED BY <1>1, <2>1 DEF CountOf
<1> QED BY <1>4, <1>5, <1>6, <1>7, <1>8, <1>9, <1>10, <1>11, <1>12, <1>13, <1>14
        DEF ListenerStep

-------------------------------------------------------------------------------
(* The invariant, and what follows from it.                                *)

\* Before anything is loaded or started the invariant holds.
LEMMA GenlInit == Init => GenlInv
<1> SUFFICES ASSUME Init PROVE GenlInv
  OBVIOUS
<1> USE GenlAssumption DEF Init
<1>1. <<>> \in Seq(Event) /\ Len(<<>>) = 0
  BY EmptySeq
<1>2. Types
  <2>1. /\ queue \in [Listeners -> Seq(Event)] /\ printed \in [Listeners -> Seq(Event)]
        /\ \A l \in Listeners : Len(queue[l]) <= RcvBuf
    BY <1>1
  <2>2. /\ info \in [Listeners -> Event \cup {NoEvent}]
        /\ event \in [Reporters -> Event \cup {NoEvent}]
    OBVIOUS
  <2>3. registered \in BOOLEAN /\ overrun \in [Listeners -> BOOLEAN]
        /\ doublefree \in [Listeners -> BOOLEAN]
    OBVIOUS
  <2>4. 0 \in 0 .. MaxLoads /\ 0 \in Nat
    OBVIOUS
  <2> HIDE DEF NoEvent
  <2> QED BY <2>1, <2>2, <2>3, <2>4 DEF Types, TypeOK, Handling, Exited
<1>3. Ids
  BY DEF Ids, LiveIdsUnique, Handling
<1>4. \A l \in Listeners : Seen(l) = {}
  BY NothingYet DEF Seen
<1>5. Traffic
  BY <1>4, NothingYet DEF Traffic, Apart, Reached
<1>6. Counts
  BY <1>1 DEF Counts, CountOf
<1> QED BY <1>2, <1>3, <1>5, <1>6 DEF GenlInv

\* Every step keeps the invariant.
LEMMA GenlNext == GenlInv /\ [Next]_vars => GenlInv'
<1> SUFFICES ASSUME GenlInv, [Next]_vars PROVE GenlInv'
  OBVIOUS
<1> USE DEF GenlInv
<1>1. CASE LoadStep
  <2>1. UNCHANGED <<reporterVars, queue, overrun, listenerVars>>
    BY <1>1 DEF LoadStep, RegisterFamily, SetFirstId, demo_genl_exit, socketVars
  <2> QED BY <1>1, <2>1, LoadTypes, LoadIds, SameTraffic, SameCounts
<1>2. ASSUME NEW r \in Reporters, ReporterStep(r) PROVE GenlInv'
  <2>1. UNCHANGED listenerVars
    BY <1>2 DEF ReporterStep, init_genl_ctx, report_event, demo_event_report,
                demo_event_notify, Deliver, Delivered, reporterOnly
  <2> QED BY <1>2, <2>1, ReporterTypes, ReporterIds, ReporterStepTraffic, SameCounts
<1>3. ASSUME NEW l \in Listeners, ListenerStep(l) \/ signal_handler(l) PROVE GenlInv'
  <2>1. UNCHANGED <<kernelVars, reporterVars>>
    BY <1>3 DEF ListenerStep, ResolveGroup, AddMembership, LoopTest, event_callback,
                ReceiveFails, PrintEvent, FreeComponent, ClearInfo,
                put_genl_multicast_socket, NaturalExit, signal_handler, listenerOnly
  <2> QED BY <1>3, <2>1, ListenerTypes, SameIds, ListenerStepTraffic, ListenerCounts
<1>4. CASE UNCHANGED vars
  <2>1. Types'
    BY <1>4 DEF Types, TypeOK, vars, kernelVars, reporterVars, socketVars, listenerVars
  <2>2. UNCHANGED <<kernelVars, reporterVars>> /\ UNCHANGED <<queue, overrun, listenerVars>>
    BY <1>4 DEF vars, socketVars
  <2> QED BY <2>1, <2>2, SameIds, SameTraffic, SameCounts
<1> QED BY <1>1, <1>2, <1>3, <1>4 DEF Next

\* Types, Ids, Traffic and Counts hold at every moment of every behaviour.
THEOREM GenlDemoInvariant == Spec => []GenlInv
BY GenlInit, GenlNext, PTL DEF Spec

\* Every variable stays within its type; no receive buffer exceeds its size.
THEOREM GenlDemoTypeOK == Spec => []TypeOK
<1>1. GenlInv => TypeOK
  BY DEF GenlInv, Types
<1> QED BY <1>1, GenlDemoInvariant, PTL

\* However the handlers of any number of reporters overlap, and however often the module
\* is reloaded, two events that one load numbered after init never get the same id, and
\* the ids given are 1, 2, ... without a gap.
THEOREM GenlDemoLiveIdsUnique == Spec => []LiveIdsUnique
<1>1. GenlInv => LiveIdsUnique
  BY DEF GenlInv, Ids
<1> QED BY <1>1, GenlDemoInvariant, PTL

\* Every member of the group an event was broadcast to has it, unless its buffer ran over
\* or it left; a listener sees only what was broadcast to it and prints nothing twice;
\* one that exits by itself printed as many events as it was asked for.
THEOREM GenlDemoNothingLost == Spec => []NothingLost
<1>1. GenlInv => NothingLost
  BY DEF GenlInv, Traffic, Reached, Served, Apart, Counts, CountOf, NothingLost, Gone
<1> QED BY <1>1, GenlDemoInvariant, PTL
===============================================================================
