----------------------------- MODULE SemaphoreDemo -----------------------------
(***************************************************************************)
(* src/kernel-module/semaphore/semaphore_demo.c: the module's init starts  *)
(* NumWorkers kernel threads (NUM_WORKERS) that wait for each other,       *)
(* race for a semaphore of capacity one, and each drop a module reference. *)
(*                                                                         *)
(* Actors: the task that runs insmod, and one control state per racer.     *)
(* Every access to a variable that another actor also touches is a step of *)
(* its own.  The module loader and the kernel's struct semaphore (a count  *)
(* and a FIFO of waiters, up() hands over to the first) are external.      *)
(***************************************************************************)
EXTENDS Integers, Sequences, Functions

CONSTANT NumWorkers

ASSUME NumWorkersAssumption == NumWorkers \in Nat \ {0}

Workers == 0 .. NumWorkers - 1

VARIABLES
  mod,          \* the module: unloaded, init, failed, live or freed
  i,            \* the loop variable of demo_semaphore_init
  modref,       \* the module's reference count
  ready_count, holder_count, action,   \* g_demo_ctx
  sem_count, wait_list,                \* g_demo_ctx.sem
  pc,           \* per racer: where it is in do_race
  ret           \* per racer: its variable ret

ctxVars == <<ready_count, holder_count, action>>
vars == <<mod, i, modref, ctxVars, sem_count, wait_list, pc, ret>>

\* Where a racer executes text of the module, or will return to it.
InText == {"ready", "start", "spin", "check", "down", "waiting", "enter", "sleep", "up",
           "put", "return"}

InCriticalSection == {"enter", "sleep", "up"}

Init ==
  /\ mod = "unloaded"
  /\ i = 0
  /\ modref = 0
  /\ ready_count = 0 /\ holder_count = 0 /\ action = "WAIT"
  /\ sem_count = 0 /\ wait_list = <<>>
  /\ pc = [w \in Workers |-> "none"]
  /\ ret = [w \in Workers |-> 0]

-------------------------------------------------------------------------------
(* The task that runs insmod, and rmmod.                                   *)

\* Mutant: a semaphore that lets two racers in.
CapacityTwo == 2

\* sema_init(&g_demo_ctx.sem, 1)
Capacity == 1

\* insmod holds a reference while it runs demo_semaphore_init, which first resets
\* the context.
Insmod ==
  /\ mod = "unloaded"
  /\ mod' = "init"
  /\ modref' = 1
  /\ ready_count' = 0 /\ holder_count' = 0 /\ action' = "WAIT"
  /\ sem_count' = Capacity
  /\ UNCHANGED <<i, wait_list, pc, ret>>

\* Mutant: no __module_get before kthread_run.
NoModuleGet == 0

\* __module_get(THIS_MODULE), once per racer
ModuleGets == 1

StartRacer ==
  /\ mod = "init"
  /\ i < NumWorkers
  /\ modref' = modref + ModuleGets
  /\ pc' = [pc EXCEPT ![i] = "ready"]
  /\ i' = i + 1
  /\ UNCHANGED <<mod, ctxVars, sem_count, wait_list, ret>>

\* kthread_run fails: the reference just taken is put back and init returns -1.
StartFails ==
  /\ mod = "init"
  /\ i < NumWorkers
  /\ action' = "ABORT"
  /\ mod' = "failed"
  /\ UNCHANGED <<i, modref, ready_count, holder_count, sem_count, wait_list, pc, ret>>

InitReturns ==
  /\ mod = "init"
  /\ i = NumWorkers
  /\ action' = "RACE"
  /\ mod' = "live"
  /\ modref' = modref - 1
  /\ UNCHANGED <<i, ready_count, holder_count, sem_count, wait_list, pc, ret>>

\* do_init_module frees a module whose init failed, whatever its reference count;
\* rmmod frees a live one at reference count zero (demo_semaphore_exit is empty).
FreeModule ==
  /\ \/ mod = "failed"
     \/ mod = "live" /\ modref = 0
  /\ mod' = "freed"
  /\ UNCHANGED <<i, modref, ctxVars, sem_count, wait_list, pc, ret>>

-------------------------------------------------------------------------------
(* do_race                                                                 *)

\* Racer w is at label from and its module is still there.
At(w, from) == pc[w] = from /\ mod # "freed"

Goto(w, to) == pc' = [pc EXCEPT ![w] = to]

\* Mutant: an off-by-one in the rendezvous.
LastButOne == NumWorkers - 1

\* current_ready_count == NUM_WORKERS
AllReady == NumWorkers

Ready(w) ==
  /\ At(w, "ready")
  /\ ready_count' = ready_count + 1
  /\ Goto(w, IF ready_count' = AllReady THEN "start" ELSE "spin")
  /\ UNCHANGED <<mod, i, modref, holder_count, action, sem_count, wait_list, ret>>

\* The last racer to be ready: g_demo_ctx.action = 1.
StartRacing(w) ==
  /\ At(w, "start")
  /\ action' = "RACE"
  /\ Goto(w, "spin")
  /\ UNCHANGED <<mod, i, modref, ready_count, holder_count, sem_count, wait_list, ret>>

\* The busy wait ends.
SpinEnds(w) ==
  /\ At(w, "spin")
  /\ action # "WAIT"
  /\ Goto(w, "check")
  /\ UNCHANGED <<mod, i, modref, ctxVars, sem_count, wait_list, ret>>

\* action is read again.
CheckAction(w) ==
  /\ At(w, "check")
  /\ IF action = "ABORT"
     THEN ret' = [ret EXCEPT ![w] = -1] /\ Goto(w, "put")
     ELSE UNCHANGED ret /\ Goto(w, "down")
  /\ UNCHANGED <<mod, i, modref, ctxVars, sem_count, wait_list>>

Down(w) ==
  /\ At(w, "down")
  /\ IF sem_count > 0
     THEN /\ sem_count' = sem_count - 1
          /\ Goto(w, "enter")
          /\ UNCHANGED wait_list
     ELSE /\ wait_list' = Append(wait_list, w)
          /\ Goto(w, "waiting")
          /\ UNCHANGED sem_count
  /\ UNCHANGED <<mod, i, modref, ctxVars, ret>>

\* atomic_inc_return(&holder_count) and the check of the concurrency invariant.
Enter(w) ==
  /\ At(w, "enter")
  /\ holder_count' = holder_count + 1
  /\ ret' = [ret EXCEPT ![w] = IF holder_count' # 1 THEN -1 ELSE @]
  /\ Goto(w, "sleep")
  /\ UNCHANGED <<mod, i, modref, ready_count, action, sem_count, wait_list>>

\* The msleep is over: atomic_dec(&holder_count).
Leave(w) ==
  /\ At(w, "sleep")
  /\ holder_count' = holder_count - 1
  /\ Goto(w, "up")
  /\ UNCHANGED <<mod, i, modref, ready_count, action, sem_count, wait_list, ret>>

\* Mutant: the racer leaves without up().
UpForgotten == UNCHANGED <<sem_count, wait_list>>

\* up(&g_demo_ctx.sem)
up == IF wait_list = <<>>
      THEN sem_count' = sem_count + 1 /\ UNCHANGED wait_list
      ELSE wait_list' = Tail(wait_list) /\ UNCHANGED sem_count

\* up() wakes the waiter it takes off the list, which now owns the semaphore.
Up(w) ==
  /\ At(w, "up")
  /\ up
  /\ pc' = [v \in Workers |->
              IF v = w THEN "put"
              ELSE IF v \in Range(wait_list) \ Range(wait_list') THEN "enter"
              ELSE pc[v]]
  /\ UNCHANGED <<mod, i, modref, ctxVars, ret>>

\* out_put: module_put(THIS_MODULE).  The return below it is still module text.
Put(w) ==
  /\ At(w, "put")
  /\ modref' = modref - 1
  /\ Goto(w, "return")
  /\ UNCHANGED <<mod, i, ctxVars, sem_count, wait_list, ret>>

Return(w) ==
  /\ At(w, "return")
  /\ Goto(w, "done")
  /\ UNCHANGED <<mod, i, modref, ctxVars, sem_count, wait_list, ret>>

\* A racer whose text was freed faults at its next instruction.
Oops(w) ==
  /\ mod = "freed"
  /\ pc[w] \in InText
  /\ Goto(w, "oops")
  /\ UNCHANGED <<mod, i, modref, ctxVars, sem_count, wait_list, ret>>

-------------------------------------------------------------------------------
InitThread == StartRacer \/ StartFails \/ InitReturns

Racer(w) == \/ Ready(w)
            \/ StartRacing(w)
            \/ SpinEnds(w)
            \/ CheckAction(w)
            \/ Down(w)
            \/ Enter(w)
            \/ Leave(w)
            \/ Up(w)
            \/ Put(w)
            \/ Return(w)
            \/ Oops(w)

Next == \/ Insmod
        \/ InitThread
        \/ FreeModule
        \/ \E w \in Workers : Racer(w)

\* The scheduler runs insmod and every racer: a preemptible kernel, or more
\* processors than spinning racers.
Fairness == WF_vars(InitThread) /\ \A w \in Workers : WF_vars(Racer(w))

Spec == Init /\ [][Next]_vars /\ Fairness

-------------------------------------------------------------------------------
(* Properties.                                                             *)

TypeOK ==
  /\ mod \in {"unloaded", "init", "failed", "live", "freed"}
  /\ i \in 0 .. NumWorkers
  /\ modref \in Nat
  /\ ready_count \in 0 .. NumWorkers
  /\ holder_count \in Nat
  /\ action \in {"WAIT", "RACE", "ABORT"}
  /\ sem_count \in Nat
  /\ wait_list \in Seq(Workers)
  /\ pc \in [Workers -> InText \cup {"none", "done", "oops"}]
  /\ ret \in [Workers -> {0, -1}]

\* The demo's own check, pr_err("Concurrency invariant violated ..."): at most one
\* racer is between down() and up(), so no racer ever counts another holder and only
\* aborted racers return -1.
MutualExclusion ==
  /\ \A v, w \in Workers :
       (pc[v] \in InCriticalSection /\ pc[w] \in InCriticalSection) => v = w
  /\ \A w \in Workers : ret[w] = -1 => action = "ABORT"

\* When a thread could not be started nobody races: the rendezvous of the others
\* stays short of NUM_WORKERS, so no late write of action undoes the abort.
AbortedNeverRace ==
  mod = "failed" =>
    /\ action = "ABORT"
    /\ \A w \in Workers : pc[w] \notin {"start", "down", "waiting"} \cup InCriticalSection

\* __module_get / module_put of every racer: while init did not fail, the text is
\* freed under no racer that has yet to drop its reference.  (The return below
\* module_put is in the text but no longer covered, and init that fails frees the text
\* under every racer it has started.)
TextOutlivesReferences ==
  (mod = "freed" /\ action # "ABORT") =>
    \A w \in Workers : pc[w] \in {"return", "done", "oops"}

\* No racer spins or waits forever: whatever init does, every racer that was started
\* stops, unless the module was freed under it.
EveryRacerStops ==
  \A w \in Workers : pc[w] = "ready" ~> pc[w] \in {"done", "oops"}
===============================================================================
