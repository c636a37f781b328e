------------------------------ MODULE ModuleText ------------------------------
(***************************************************************************)
(* What the module loader promises every demo under kernel-module/, and    *)
(* what the reference counting in each of them is for: the text of a       *)
(* module may only go away while nobody can still be executing it.         *)
(*                                                                         *)
(* A user is anything that may run code of the module: an open file, a     *)
(* system call inside a handler, a kernel thread, a queued work item.  The *)
(* detailed modules instantiate this one with their own users.             *)
(***************************************************************************)
CONSTANT Users

VARIABLES loaded,   \* is the text of the module in memory?
          users     \* the users that may be executing it

vars == <<loaded, users>>

Init == /\ loaded = FALSE
        /\ users = {}

Load == /\ ~loaded
        /\ loaded' = TRUE
        /\ UNCHANGED users

Enter(u) == /\ loaded
            /\ u \notin users
            /\ users' = users \cup {u}
            /\ UNCHANGED loaded

Leave(u) == /\ u \in users
            /\ users' = users \ {u}
            /\ UNCHANGED loaded

Unload == /\ loaded
          /\ users = {}
          /\ loaded' = FALSE
          /\ UNCHANGED users

Next == \/ Load
        \/ Unload
        \/ \E u \in Users : Enter(u) \/ Leave(u)

Spec == Init /\ [][Next]_vars
===============================================================================
