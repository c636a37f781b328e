----------------------------- MODULE WorkQueueDemo -----------------------------
(***************************************************************************)
(* src/kernel-module/kernel-tasks/work_queue_demo.c: the module's init     *)
(* schedules a static work item and a dynamic one, whose memory the item   *)
(* frees itself.  Each takes a module reference along, so that rmmod has   *)
(* to wait for them; the module's exit flushes nothing.                    *)
(*                                                                         *)
(* Actors: the task that runs insmod, and the kernel workers, which may    *)
(* run the two items at the same time and at any moment after they were    *)
(* queued, before init goes on or long after it has returned.              *)
(***************************************************************************)
EXTENDS Integers

Items == {"static", "dynamic"}

VARIABLES
  wmod,     \* the module: unloaded, the next statement of its init, faulted or live
  wref,     \* the module's reference count
  work,     \* per item: idle, pending (queued), or where its function is
  memory    \* the struct my_dynamic_work: none, allocated or freed

workVars == <<wmod, wref, work, memory>>

\* The items that took a module reference along and have not dropped it.
Covered == {w \in Items : work[w] \in {"pending", "run", "put"}}

WorkInit ==
  /\ wmod = "unloaded"
  /\ wref = 0
  /\ work = [w \in Items |-> "idle"]
  /\ memory = "none"

-------------------------------------------------------------------------------
(* insmod and rmmod                                                        *)

\* insmod holds a reference while it runs init.  (Not modelled: another insmod after a
\* worker has faulted.)
WorkInsmod ==
  /\ wmod = "unloaded"
  /\ \A w \in Items : work[w] = "idle"
  /\ wmod' = "static_get"
  /\ wref' = 1
  /\ memory' = "none"
  /\ UNCHANGED work

\* Mutant: the item is scheduled without a module reference.
NoTryModuleGet == 0

\* try_module_get, which succeeds in init
TryModuleGet == 1

\* schedule_static_work: the reference first.
StaticGet ==
  /\ wmod = "static_get"
  /\ wref' = wref + TryModuleGet
  /\ wmod' = "static_schedule"
  /\ UNCHANGED <<work, memory>>

\* schedule_work refuses an item that is pending; its reference is then put back.
schedule_work(w) ==
  IF work[w] = "pending"
  THEN wref' = wref - 1 /\ UNCHANGED work
  ELSE work' = [work EXCEPT ![w] = "pending"] /\ UNCHANGED wref

StaticSchedule ==
  /\ wmod = "static_schedule"
  /\ schedule_work("static")
  /\ wmod' = "kmalloc"
  /\ UNCHANGED memory

\* schedule_dynamic_work: kmalloc and the initialization.
DynamicAlloc ==
  /\ wmod = "kmalloc"
  /\ memory' = "allocated"
  /\ wmod' = "dynamic_get"
  /\ UNCHANGED <<wref, work>>

\* kmalloc fails: its result is not checked, the write to name faults, and insmod dies
\* with the reference it holds.
DynamicAllocFails ==
  /\ wmod = "kmalloc"
  /\ wmod' = "faulted"
  /\ UNCHANGED <<wref, work, memory>>

DynamicGet ==
  /\ wmod = "dynamic_get"
  /\ wref' = wref + TryModuleGet
  /\ wmod' = "dynamic_schedule"
  /\ UNCHANGED <<work, memory>>

DynamicSchedule ==
  /\ wmod = "dynamic_schedule"
  /\ schedule_work("dynamic")
  /\ memory' = IF work["dynamic"] = "pending" THEN "freed" ELSE memory
  /\ wmod' = "return"

\* init returns 0 and insmod drops its reference.
WorkInitReturns ==
  /\ wmod = "return"
  /\ wmod' = "live"
  /\ wref' = wref - 1
  /\ UNCHANGED <<work, memory>>

\* rmmod: demo_workqueue_exit does nothing, the text is freed.
WorkRmmod ==
  /\ wmod = "live"
  /\ wref = 0
  /\ wmod' = "unloaded"
  /\ UNCHANGED <<wref, work, memory>>

-------------------------------------------------------------------------------
(* The kernel workers.                                                     *)

\* Worker steps need the text of the function they execute.
WorkAt(w, from) == work[w] = from /\ wmod # "unloaded"

WorkGoto(w, to) == work' = [work EXCEPT ![w] = to]

\* A worker takes the item and calls its function.
RunWork(w) ==
  /\ WorkAt(w, "pending")
  /\ WorkGoto(w, "run")
  /\ UNCHANGED <<wmod, wref, memory>>

\* static_work_func prints; dynamic_work_func prints the name and frees its item.
WorkFunc(w) ==
  /\ WorkAt(w, "run")
  /\ memory' = IF w = "dynamic" THEN "freed" ELSE memory
  /\ WorkGoto(w, "put")
  /\ UNCHANGED <<wmod, wref>>

\* Mutant: the item keeps its reference.
NoModulePut == 0

\* module_put(THIS_MODULE)
ModulePut == 1

\* The return below module_put is still module text.
WorkPut(w) ==
  /\ WorkAt(w, "put")
  /\ wref' = wref - ModulePut
  /\ WorkGoto(w, "return")
  /\ UNCHANGED <<wmod, memory>>

WorkReturn(w) ==
  /\ WorkAt(w, "return")
  /\ WorkGoto(w, "idle")
  /\ UNCHANGED <<wmod, wref, memory>>

\* A worker whose function was freed under it faults.
WorkOops(w) ==
  /\ wmod = "unloaded"
  /\ work[w] \in {"pending", "run", "put", "return"}
  /\ WorkGoto(w, "oops")
  /\ UNCHANGED <<wmod, wref, memory>>

-------------------------------------------------------------------------------
InitTask == StaticGet \/ StaticSchedule \/ DynamicAlloc \/ DynamicAllocFails
            \/ DynamicGet \/ DynamicSchedule \/ WorkInitReturns

Worker(w) == RunWork(w) \/ WorkFunc(w) \/ WorkPut(w) \/ WorkReturn(w) \/ WorkOops(w)

WorkNext == \/ WorkInsmod \/ WorkRmmod
            \/ InitTask
            \/ \E w \in Items : Worker(w)

\* insmod and the workers run on; nobody has to unload the module.
WorkFairness == WF_workVars(InitTask) /\ \A w \in Items : WF_workVars(Worker(w))

WorkSpec == WorkInit /\ [][WorkNext]_workVars /\ WorkFairness

-------------------------------------------------------------------------------
(* Properties.                                                             *)

WorkTypeOK ==
  /\ wmod \in {"unloaded", "static_get", "static_schedule", "kmalloc", "dynamic_get",
               "dynamic_schedule", "return", "live", "faulted"}
  /\ wref \in 0 .. 3
  /\ work \in [Items -> {"idle", "pending", "run", "put", "return", "oops"}]
  /\ memory \in {"none", "allocated", "freed"}

\* The module reference that travels with a work item keeps the module loaded from the
\* moment it is queued to its module_put, although the exit handler waits for nobody:
\* the demo implements ModuleText.  (The return below module_put is not covered.)
WorkText == INSTANCE ModuleText WITH Users <- Items,
                                     loaded <- wmod # "unloaded",
                                     users  <- Covered
TextOutlivesWork == WorkText!Spec

\* Nothing is left of the items: after insmod every reference is dropped and the memory
\* of the dynamic item freed, once, by the item itself, so that the module can always be
\* removed; unless init faulted on a failed kmalloc.
WorkReclaimed ==
  wmod = "static_get" ~> (wmod = "faulted" \/ (wref = 0 /\ memory = "freed"))
===============================================================================
