---------------------------- MODULE SemaphoreTests ----------------------------
(***************************************************************************)
(* The test target of src/linux-c/semaphore/Makefile: the script for the   *)
(* named semaphore and, if it has passed, the program with the unnamed     *)
(* ones, in every one of Runs.                                             *)
(***************************************************************************)
EXTENDS NamedSemaphore, UnnamedSemaphore

vars == <<namedVars, unnamedVars>>

Init == NamedInit /\ UnnamedInit

Named(r) == NamedStep(r) /\ UNCHANGED unnamedVars

\* make starts the second test when the first has passed.
Parent(r) == line[r] = Passed /\ ParentStep(r) /\ UNCHANGED namedVars

Child(r) == ChildStep(r) /\ UNCHANGED namedVars

Fault(r) == \/ KillScript(r) /\ UNCHANGED unnamedVars
            \/ \E k \in {"fg", "bg1", "bg2"} : CommandFails(<<r, k>>) /\ UNCHANGED unnamedVars
            \/ UnnamedFault(r) /\ UNCHANGED namedVars

Next == \E r \in Runs : Named(r) \/ Parent(r) \/ Child(r) \/ Fault(r)

\* Every process that can run is scheduled, the background commands included.
Fairness ==
  \A r \in Runs :
    /\ \A k \in {"fg", "bg1", "bg2"} :
         LET c == <<r, k>>
         IN WF_vars((open_semaphore(c) \/ wait_semaphore(c)) /\ UNCHANGED unnamedVars)
    /\ WF_vars(Named(r)) /\ WF_vars(Parent(r)) /\ WF_vars(Child(r))

Spec == Init /\ [][Next]_vars /\ Fairness

-------------------------------------------------------------------------------
(* Properties.                                                             *)

TypeOK == NamedTypeOK /\ UnnamedTypeOK

\* A name belongs to one run.  Between its create and its unlink a script has the name, no
\* other run can take or remove it; and no name outlives its run but for a reason: the
\* semaphore of a script that got past its unlink and the memory of a program that returned
\* 0 are gone, so that the next run finds the names free.  What a stopped run left behind,
\* because set -e and exit leave it as it is, was left by a run with failing calls or kills:
\* the others, which overlapping runs can make fail as well, fail without a name.
NothingLeftBehind ==
  /\ \A r \in Runs : Running(r) /\ 1 < line[r] /\ line[r] < Len(Script) => linked = r
  /\ linked # "none" => /\ line[linked] < Len(Script)
                        /\ Running(linked) \/ linked \in Faulty
  /\ ShmLeftByFailure

\* "make test" ends: neither the script, which waits for its background commands, nor
\* the parent, which waits for its child, hangs; unless the child fails or is killed, for
\* whose post the parent then waits for good.
TestsEnd ==
  \A r \in Runs : <>(\/ status[r] \in {"failed", "killed"}
                     \/ parent[r] \in ParentEnded
                     \/ child[r] \in {"failed", "killed"})
===============================================================================
