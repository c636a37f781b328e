------------------------------- MODULE GenlDemo -------------------------------
(***************************************************************************)
(* src/kernel-module/netlink-generic: the kernel module genl_demo.c, which *)
(* turns each event a reporter (reporter.c) sends it into a notification   *)
(* to the multicast group of the listeners (listener.c).                   *)
(*                                                                         *)
(* Actors: insmod / rmmod; every reporter, which also runs the kernel's    *)
(* handler of its own message (the family has parallel_ops, so handlers    *)
(* run concurrently); every listener, with a signal handler that may run   *)
(* at any point of it.  Each reporter sends one event.                     *)
(*                                                                         *)
(* External, from how the code uses them: the netlink core (handlers run   *)
(* under cb_lock, which unregistering waits for; a broadcast delivers to   *)
(* one socket after the other and keeps the group as it is meanwhile; a    *)
(* full receive buffer turns into an error of the next receive) and libnl. *)
(***************************************************************************)
EXTENDS Integers, Sequences, FiniteSets, SequencesExt

CONSTANTS Reporters, Listeners,
          NumEvents,   \* the argument of each listener, -1 for no limit
          RcvBuf,      \* notifications that fit in a receive buffer
          MaxLoads     \* how often the module is loaded

ASSUME GenlAssumption ==
  /\ IsFiniteSet(Reporters) /\ IsFiniteSet(Listeners)
  /\ NumEvents \in [Listeners -> Nat \cup {-1}]
  /\ RcvBuf \in Nat \ {0} /\ MaxLoads \in Nat \ {0}

NoEvent == [id |-> -1, from |-> "nobody"]

VARIABLES
  mod,          \* unloaded; init (family registered, ids not set up); live
  registered,   \* is demo_genl_family registered?
  loads,        \* how often it was; also the family id and group id
  g_event_id,
  rpc,          \* per reporter: its progress, the kernel handler included
  family,       \* per reporter: the family id it resolved
  event,        \* per reporter: the notification made of its event
  live_id,      \* per reporter: the load in which it got an id after init (0: none)
  todo,         \* per reporter: sockets its broadcast has yet to serve
  audience,     \* per reporter: the group when its broadcast began
  members,      \* the multicast group demo_monitor
  queue,        \* per listener: its receive buffer
  overrun,      \* per listener: ENOBUFS is pending on its socket
  lpc,          \* per listener: its progress
  group,        \* per listener: the group id it resolved
  count,        \* per listener: the loop counter of monitor_events
  info,         \* per listener: g_event_info without component
  component,    \* per listener: g_event_info.component: null, valid or freed
  sock,         \* per listener: g_nl_sock: null, open or freed
  printed,      \* per listener: the events it printed
  doublefree    \* per listener: it freed something twice

kernelVars   == <<mod, registered, loads, g_event_id>>
reporterVars == <<rpc, family, event, live_id, todo, audience>>
socketVars   == <<members, queue, overrun>>
listenerVars == <<lpc, group, count, info, component, sock, printed, doublefree>>
vars == <<kernelVars, reporterVars, socketVars, listenerVars>>

Handling == {"report", "notify", "broadcast"}
Exited == {"failed", "natural", "signaled"}

\* A broadcast holds the netlink table: sockets neither join nor leave meanwhile.
Broadcasting == \E r \in Reporters : rpc[r] = "broadcast"

Init ==
  /\ mod = "unloaded" /\ registered = FALSE /\ loads = 0 /\ g_event_id = 0
  /\ rpc = [r \in Reporters |-> "start"]
  /\ family = [r \in Reporters |-> 0]
  /\ event = [r \in Reporters |-> NoEvent]
  /\ live_id = [r \in Reporters |-> 0]
  /\ todo = [r \in Reporters |-> {}]
  /\ audience = [r \in Reporters |-> {}]
  /\ members = {}
  /\ queue = [l \in Listeners |-> <<>>]
  /\ overrun = [l \in Listeners |-> FALSE]
  /\ lpc = [l \in Listeners |-> "start"]
  /\ group = [l \in Listeners |-> 0]
  /\ count = [l \in Listeners |-> 0]
  /\ info = [l \in Listeners |-> NoEvent]
  /\ component = [l \in Listeners |-> "null"]
  /\ sock = [l \in Listeners |-> "null"]
  /\ printed = [l \in Listeners |-> <<>>]
  /\ doublefree = [l \in Listeners |-> FALSE]

-------------------------------------------------------------------------------
(* genl_demo.c: load and unload.                                           *)

\* genl_register_family: from here on reporters find the family.  The bss of a
\* freshly loaded module is zero.
RegisterFamily ==
  /\ mod = "unloaded"
  /\ loads < MaxLoads
  /\ mod' = "init"
  /\ registered' = TRUE
  /\ loads' = loads + 1
  /\ g_event_id' = 0
  /\ UNCHANGED <<reporterVars, socketVars, listenerVars>>

\* atomic_set(&g_event_id, 1), after which demo_genl_init returns.
SetFirstId ==
  /\ mod = "init"
  /\ mod' = "live"
  /\ g_event_id' = 1
  /\ UNCHANGED <<registered, loads, reporterVars, socketVars, listenerVars>>

\* demo_genl_exit: unregistering waits for the running handlers, and empties the group.
demo_genl_exit ==
  /\ mod = "live"
  /\ \A r \in Reporters : rpc[r] \notin Handling
  /\ registered' = FALSE
  /\ members' = {}
  /\ mod' = "unloaded"
  /\ UNCHANGED <<loads, g_event_id, reporterVars, queue, overrun, listenerVars>>

-------------------------------------------------------------------------------
(* reporter.c, and the handlers of genl_demo.c that it runs.               *)

reporterOnly == UNCHANGED <<mod, registered, loads, socketVars, listenerVars>>

\* init_genl_ctx: genl_ctrl_resolve finds the family or the reporter exits.
init_genl_ctx(r) ==
  /\ rpc[r] = "start"
  /\ rpc' = [rpc EXCEPT ![r] = IF registered THEN "resolved" ELSE "failed"]
  /\ family' = [family EXCEPT ![r] = loads]
  /\ UNCHANGED <<g_event_id, event, live_id, todo, audience>>
  /\ reporterOnly

\* report_event: nl_send_auto runs demo_event_report.  If the family it resolved is
\* gone the kernel only sends an error message back, which the reporter does not read.
report_event(r) ==
  /\ rpc[r] = "resolved"
  /\ rpc' = [rpc EXCEPT ![r] = IF registered /\ family[r] = loads THEN "report" ELSE "done"]
  /\ UNCHANGED <<g_event_id, family, event, live_id, todo, audience>>
  /\ reporterOnly

\* Mutant: the id is read but not incremented.
ReadOnly == g_event_id

\* The counter after atomic_fetch_inc.
FetchInc == g_event_id + 1

\* demo_event_report: takes the next id for the event.
demo_event_report(r) ==
  /\ rpc[r] = "report"
  /\ event' = [event EXCEPT ![r] = [id |-> g_event_id, from |-> r]]
  /\ live_id' = [live_id EXCEPT ![r] = IF mod = "live" THEN loads ELSE 0]
  /\ g_event_id' = FetchInc
  /\ rpc' = [rpc EXCEPT ![r] = "notify"]
  /\ UNCHANGED <<family, todo, audience>>
  /\ reporterOnly

\* demo_event_notify: genlmsg_new or a put fails and the event is dropped, or
\* genlmsg_multicast starts.
demo_event_notify(r) ==
  /\ rpc[r] = "notify"
  /\ \/ /\ rpc' = [rpc EXCEPT ![r] = "done"]
        /\ UNCHANGED <<todo, audience>>
     \/ /\ rpc' = [rpc EXCEPT ![r] = "broadcast"]
        /\ todo' = [todo EXCEPT ![r] = members]
        /\ audience' = [audience EXCEPT ![r] = members]
  /\ UNCHANGED <<g_event_id, family, event, live_id>>
  /\ reporterOnly

\* netlink_broadcast: one socket of the group gets a copy, or an error if it is full.
Deliver(r, l) ==
  /\ rpc[r] = "broadcast"
  /\ l \in todo[r]
  /\ todo' = [todo EXCEPT ![r] = @ \ {l}]
  /\ IF Len(queue[l]) < RcvBuf
     THEN queue' = [queue EXCEPT ![l] = Append(@, event[r])] /\ UNCHANGED overrun
     ELSE overrun' = [overrun EXCEPT ![l] = TRUE] /\ UNCHANGED queue
  /\ UNCHANGED <<kernelVars, rpc, family, event, live_id, audience, members, listenerVars>>

\* The broadcast is over, the handler and nl_send_auto return.
Delivered(r) ==
  /\ rpc[r] = "broadcast"
  /\ todo[r] = {}
  /\ rpc' = [rpc EXCEPT ![r] = "done"]
  /\ UNCHANGED <<g_event_id, family, event, live_id, todo, audience>>
  /\ reporterOnly

-------------------------------------------------------------------------------
(* listener.c                                                              *)

listenerOnly == UNCHANGED <<kernelVars, reporterVars>>

Goto(l, to) == lpc' = [lpc EXCEPT ![l] = to]

\* The socket of l is closed: it leaves the group and its buffer is dropped.
Close(l) ==
  /\ ~Broadcasting
  /\ members' = members \ {l}
  /\ queue' = [queue EXCEPT ![l] = <<>>]
  /\ UNCHANGED overrun

\* genl_ctrl_resolve_grp finds the group or the listener exits.
ResolveGroup(l) ==
  /\ lpc[l] = "start"
  /\ Goto(l, IF registered THEN "resolved" ELSE "failed")
  /\ group' = [group EXCEPT ![l] = loads]
  /\ UNCHANGED <<socketVars, count, info, component, sock, printed, doublefree>>
  /\ listenerOnly

\* nl_socket_add_membership; a group id of an earlier load is nobody's group.
AddMembership(l) ==
  /\ lpc[l] = "resolved"
  /\ ~Broadcasting
  /\ members' = IF registered /\ group[l] = loads THEN members \cup {l} ELSE members
  /\ sock' = [sock EXCEPT ![l] = "open"]
  /\ Goto(l, "loop")
  /\ UNCHANGED <<queue, overrun, group, count, info, component, printed, doublefree>>
  /\ listenerOnly

\* Mutant: the loop ends one event early.
LoopsOneLess(n, limit) == n < limit \/ limit = -1

\* count <= num_events || num_events == -1
LoopGoesOn(n, limit) == n <= limit \/ limit = -1

\* monitor_events: the loop condition, which increments count.
LoopTest(l) ==
  /\ lpc[l] = "loop"
  /\ count' = [count EXCEPT ![l] = @ + 1]
  /\ Goto(l, IF LoopGoesOn(count'[l], NumEvents[l]) THEN "recv" ELSE "close")
  /\ UNCHANGED <<socketVars, group, info, component, sock, printed, doublefree>>
  /\ listenerOnly

\* nl_recvmsgs calls event_callback with the next message.
event_callback(l) ==
  /\ lpc[l] = "recv"
  /\ ~overrun[l] /\ queue[l] # <<>>
  /\ info' = [info EXCEPT ![l] = Head(queue[l])]
  /\ component' = [component EXCEPT ![l] = "valid"]
  /\ queue' = [queue EXCEPT ![l] = Tail(@)]
  /\ Goto(l, "print")
  /\ UNCHANGED <<members, overrun, group, count, sock, printed, doublefree>>
  /\ listenerOnly

\* nl_recvmsgs reports the overrun, or nla_strdup fails: the listener exits.
ReceiveFails(l) ==
  /\ lpc[l] = "recv"
  /\ overrun[l] \/ queue[l] # <<>>
  /\ Goto(l, "failed")
  /\ Close(l)
  /\ UNCHANGED <<group, count, info, component, sock, printed, doublefree>>
  /\ listenerOnly

\* Mutant: g_event_info is cleared before it is printed.
PrintsCleared(l) == NoEvent

\* What pr_info("event #%d ...") prints.
Prints(l) == info[l]

PrintEvent(l) ==
  /\ lpc[l] = "print"
  /\ printed' = [printed EXCEPT ![l] = Append(@, Prints(l))]
  /\ Goto(l, "free")
  /\ UNCHANGED <<socketVars, group, count, info, component, sock, doublefree>>
  /\ listenerOnly

\* clear_event_info: free(component), and then the memset that clears the pointer.
FreeComponent(l) ==
  /\ lpc[l] = "free"
  /\ component' = [component EXCEPT ![l] = "freed"]
  /\ Goto(l, "memset")
  /\ UNCHANGED <<socketVars, group, count, info, sock, printed, doublefree>>
  /\ listenerOnly

ClearInfo(l) ==
  /\ lpc[l] = "memset"
  /\ info' = [info EXCEPT ![l] = NoEvent]
  /\ component' = [component EXCEPT ![l] = "null"]
  /\ Goto(l, "loop")
  /\ UNCHANGED <<socketVars, group, count, sock, printed, doublefree>>
  /\ listenerOnly

\* put_genl_multicast_socket at the end of main, which leaves g_nl_sock dangling.
put_genl_multicast_socket(l) ==
  /\ lpc[l] = "close"
  /\ Close(l)
  /\ sock' = [sock EXCEPT ![l] = "freed"]
  /\ Goto(l, "exit")
  /\ UNCHANGED <<group, count, info, component, printed, doublefree>>
  /\ listenerOnly

NaturalExit(l) ==
  /\ lpc[l] = "exit"
  /\ Goto(l, "natural")
  /\ UNCHANGED <<socketVars, group, count, info, component, sock, printed, doublefree>>
  /\ listenerOnly

\* signal_handler on SIGTERM or SIGINT, wherever main is: it clears g_event_info,
\* puts g_nl_sock unless it is NULL, and exits.
signal_handler(l) ==
  /\ lpc[l] \notin Exited
  /\ doublefree' = [doublefree EXCEPT ![l] = component[l] = "freed" \/ sock[l] = "freed"]
  /\ info' = [info EXCEPT ![l] = NoEvent]
  /\ component' = [component EXCEPT ![l] = "null"]
  /\ Close(l)
  /\ Goto(l, "signaled")
  /\ UNCHANGED <<group, count, sock, printed>>
  /\ listenerOnly

-------------------------------------------------------------------------------
LoadStep == RegisterFamily \/ SetFirstId \/ demo_genl_exit

ReporterStep(r) ==
  \/ init_genl_ctx(r)
  \/ report_event(r)
  \/ demo_event_report(r)
  \/ demo_event_notify(r)
  \/ \E l \in Listeners : Deliver(r, l)
  \/ Delivered(r)

ListenerStep(l) ==
  \/ ResolveGroup(l)
  \/ AddMembership(l)
  \/ LoopTest(l)
  \/ event_callback(l)
  \/ ReceiveFails(l)
  \/ PrintEvent(l)
  \/ FreeComponent(l)
  \/ ClearInfo(l)
  \/ put_genl_multicast_socket(l)
  \/ NaturalExit(l)

Next == \/ LoadStep
        \/ \E r \in Reporters : ReporterStep(r)
        \/ \E l \in Listeners : ListenerStep(l) \/ signal_handler(l)

\* Programs that were started run on; nobody has to load, unload or send a signal.
Fairness == /\ WF_vars(SetFirstId)
            /\ \A r \in Reporters : WF_vars(ReporterStep(r))
            /\ \A l \in Listeners : WF_vars(ListenerStep(l))

Spec == Init /\ [][Next]_vars /\ Fairness

-------------------------------------------------------------------------------
(* Properties.                                                             *)

Event == [id : Nat, from : Reporters]

TypeOK ==
  /\ mod \in {"unloaded", "init", "live"}
  /\ registered \in BOOLEAN
  /\ loads \in 0 .. MaxLoads
  /\ g_event_id \in Nat
  /\ rpc \in [Reporters -> {"start", "resolved", "failed", "done"} \cup Handling]
  /\ family \in [Reporters -> 0 .. MaxLoads]
  /\ live_id \in [Reporters -> 0 .. MaxLoads]
  /\ event \in [Reporters -> Event \cup {NoEvent}]
  /\ todo \in [Reporters -> SUBSET Listeners]
  /\ audience \in [Reporters -> SUBSET Listeners]
  /\ members \subseteq Listeners
  /\ \A l \in Listeners : /\ queue[l] \in Seq(Event)
                          /\ Len(queue[l]) <= RcvBuf
                          /\ printed[l] \in Seq(Event)
                          /\ info[l] \in Event \cup {NoEvent}
  /\ overrun \in [Listeners -> BOOLEAN]
  /\ lpc \in [Listeners -> {"start", "resolved", "loop", "recv", "print", "free", "memset",
                            "close", "exit"} \cup Exited]
  /\ group \in [Listeners -> 0 .. MaxLoads]
  /\ count \in [Listeners -> Nat]
  /\ component \in [Listeners -> {"null", "valid", "freed"}]
  /\ sock \in [Listeners -> {"null", "open", "freed"}]
  /\ doublefree \in [Listeners -> BOOLEAN]

\* Concurrent handlers never give two events of one load the same id, once init has
\* set the first id; the ids they give are 1, 2, ... without a gap.
LiveIdsUnique ==
  /\ \A r, s \in Reporters :
       (r # s /\ live_id[r] = live_id[s] /\ live_id[r] # 0) => event[r].id # event[s].id
  /\ mod = "live" => g_event_id = 1 + Cardinality({r \in Reporters : live_id[r] = loads})

\* The events a listener was given so far, each printed, about to be, or buffered.
Seen(l) == Range(printed[l]) \cup Range(queue[l])
           \cup (IF lpc[l] = "print" THEN {info[l]} ELSE {})

\* No notification gets lost or invented on the way: what was broadcast to a group was
\* printed or is still to be printed by every member of it, unless that member's buffer
\* ran over or it has exited; a listener prints only what was broadcast to it, every
\* event once; and one that was asked for n events and exits naturally printed exactly n.
NothingLost ==
  \A l \in Listeners :
    /\ \A r \in Reporters :
         (l \in audience[r] \ todo[r] /\ ~overrun[l] /\ lpc[l] \notin Exited \cup {"exit"})
           => event[r] \in Seen(l)
    /\ \A e \in Seen(l) : e.from \in Reporters /\ l \in audience[e.from]
    /\ IsInjective(printed[l])
    /\ lpc[l] = "natural" => Len(printed[l]) = NumEvents[l]

\* "quit elegantly": the signal handler frees what main did not free yet, and nothing
\* twice, wherever it interrupts main.
NoDoubleFree == \A l \in Listeners : ~doublefree[l]

\* Whoever is in the group when an event is broadcast prints it in the end, or exits.
AudienceReached ==
  \A r \in Reporters, l \in Listeners :
    (l \in audience[r]) ~> (lpc[l] \in Exited \/ event[r] \in Range(printed[l]))
===============================================================================
