------------------------------ MODULE KernelDemos ------------------------------
(***************************************************************************)
(* The demo modules of src/kernel-module/ that live on their own: the      *)
(* semaphore demo, the work queue demo and the sysfs demo.  They share no  *)
(* state, only the module loader, so it is enough to look at one at a      *)
(* time: demo says which one is inserted, the others stay unloaded.        *)
(***************************************************************************)
EXTENDS SemaphoreDemo, WorkQueueDemo, SysfsDemo

VARIABLE demo   \* the demo that is inserted

demoVars == <<demo, vars, workVars, sysfsVars>>

DemoInit ==
  /\ demo \in {"semaphore", "work queue", "sysfs"}
  /\ Init
  /\ WorkInit
  /\ DeviceInit

DemoNext ==
  /\ UNCHANGED demo
  /\ \/ demo = "semaphore" /\ Next /\ UNCHANGED <<workVars, sysfsVars>>
     \/ demo = "work queue" /\ WorkNext /\ UNCHANGED <<vars, sysfsVars>>
     \/ demo = "sysfs" /\ DeviceNext /\ UNCHANGED <<vars, workVars>>

DemoSpec == DemoInit /\ [][DemoNext]_demoVars /\ Fairness /\ WorkFairness /\ DeviceFairness

-------------------------------------------------------------------------------
\* Every variable of the three demos keeps its type.
DemosTypeOK == TypeOK /\ WorkTypeOK /\ DeviceTypeOK
===============================================================================
