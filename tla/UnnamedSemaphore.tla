--------------------------- MODULE UnnamedSemaphore ---------------------------
(***************************************************************************)
(* src/linux-c/semaphore/unnamed-semaphore.c: parent and child take turns  *)
(* with two semaphores in a shared memory object that has a fixed name.    *)
(*                                                                         *)
(* Several runs of the program may overlap; in the Faulty ones every       *)
(* library call of parent and child may fail, which ends the one that made *)
(* it, and both may be killed.                                             *)
(***************************************************************************)
EXTENDS Naturals, Sequences, SemaphoreRuns

VARIABLES
  shm,       \* the run whose shared memory object has the name, or "none"
  parent,    \* per run: what its parent does next, or how it ended
  child,     \* per run: the same for its child, none before the fork
  posted,    \* per run: the values of parent_sem and child_sem
  rounds     \* per run: what was produced and consumed, in order

unnamedVars == <<shm, parent, child, posted, rounds>>

UnnamedInit ==
  /\ shm = "none"
  /\ parent = [r \in Runs |-> "get_shm"]
  /\ child = [r \in Runs |-> "none"]
  /\ posted = [r \in Runs |-> [parent_sem |-> 0, child_sem |-> 0]]
  /\ rounds = [r \in Runs |-> <<>>]

ParentEnded == {"done", "failed", "killed"}

ParentGoes(r, from, to) ==
  /\ parent[r] = from
  /\ parent' = [parent EXCEPT ![r] = to]

ChildGoes(r, from, to) ==
  /\ child[r] = from
  /\ child' = [child EXCEPT ![r] = to]

Round(r, what) == rounds' = [rounds EXCEPT ![r] = Append(@, what)]

Post(r, s) == posted' = [posted EXCEPT ![r][s] = @ + 1]

\* sem_wait
Wait(r, s) == posted[r][s] > 0 /\ posted' = [posted EXCEPT ![r][s] = @ - 1]

\* shm_open with O_CREAT | O_EXCL fails if the name exists, or for any other reason.
get_shm(r) ==
  /\ \/ shm = "none" /\ shm' = r /\ ParentGoes(r, "get_shm", "init")
     \/ /\ shm # "none" \/ r \in Faulty
        /\ ParentGoes(r, "get_shm", "failed") /\ UNCHANGED shm
  /\ UNCHANGED <<child, posted, rounds>>

\* A library call of the parent fails after that: ftruncate, mmap, close, sem_init and fork
\* (init), sem_post, sem_wait, waitpid, sem_destroy, munmap and shm_unlink.  The parent exits
\* and the object keeps its name.
ParentFails(r) ==
  /\ r \in Faulty
  /\ parent[r] \notin ParentEnded \cup {"get_shm"}
  /\ parent' = [parent EXCEPT ![r] = "failed"]
  /\ UNCHANGED <<shm, child, posted, rounds>>

\* sem_wait or sem_post of the child fails: it exits without having posted.
ChildFails(r) ==
  /\ r \in Faulty
  /\ child[r] \in {"consume", "produce"}
  /\ child' = [child EXCEPT ![r] = "failed"]
  /\ UNCHANGED <<shm, parent, posted, rounds>>

\* init_semaphore twice, and fork.
Fork(r) ==
  /\ ParentGoes(r, "init", "produce")
  /\ child' = [child EXCEPT ![r] = "consume"]
  /\ UNCHANGED <<shm, posted, rounds>>

ParentProduces(r) ==
  /\ ParentGoes(r, "produce", "consume")
  /\ Round(r, "parent produced")
  /\ Post(r, "parent_sem")
  /\ UNCHANGED <<shm, child>>

\* Mutant: the parent waits at the semaphore it has posted.
WaitsAtOwn == "parent_sem"

\* The semaphore of the second round.
SecondRound == "child_sem"

ParentConsumes(r) ==
  /\ ParentGoes(r, "consume", "waitpid")
  /\ Wait(r, SecondRound)
  /\ Round(r, "parent consumed")
  /\ UNCHANGED <<shm, child>>

ChildConsumes(r) ==
  /\ ChildGoes(r, "consume", "produce")
  /\ Wait(r, "parent_sem")
  /\ Round(r, "child consumed")
  /\ UNCHANGED <<shm, parent>>

ChildProduces(r) ==
  /\ ChildGoes(r, "produce", "exit")
  /\ Post(r, "child_sem")
  /\ Round(r, "child produced")
  /\ UNCHANGED <<shm, parent>>

ChildExits(r) ==
  /\ ChildGoes(r, "exit", "done")
  /\ UNCHANGED <<shm, parent, posted, rounds>>

ChildGone(r) == child[r] \in {"done", "failed", "killed"}

\* waitpid.  The status is not looked at: a child that exited fails the first half of the
\* test of its status, a killed one the second half.
WaitPid(r) ==
  /\ ParentGoes(r, "waitpid", "destroy")
  /\ ChildGone(r)
  /\ UNCHANGED <<shm, child, posted, rounds>>

destroy_semaphores(r) ==
  /\ ParentGoes(r, "destroy", "put_shm")
  /\ UNCHANGED <<shm, child, posted, rounds>>

\* Mutant: munmap without shm_unlink.
KeepsName == shm

\* shm_unlink: the name is free again.
NameAfterPut == "none"

put_shm(r) ==
  /\ IF shm # "none"
     THEN ParentGoes(r, "put_shm", "done") /\ shm' = NameAfterPut
     ELSE ParentGoes(r, "put_shm", "failed") /\ UNCHANGED shm
  /\ UNCHANGED <<child, posted, rounds>>

KillParent(r) ==
  /\ r \in Faulty
  /\ parent[r] \notin ParentEnded \cup {"get_shm"}
  /\ parent' = [parent EXCEPT ![r] = "killed"]
  /\ UNCHANGED <<shm, child, posted, rounds>>

KillChild(r) ==
  /\ r \in Faulty
  /\ child[r] \notin {"none", "done", "failed", "killed"}
  /\ child' = [child EXCEPT ![r] = "killed"]
  /\ UNCHANGED <<shm, parent, posted, rounds>>

ParentStep(r) ==
  \/ get_shm(r) \/ Fork(r) \/ ParentProduces(r) \/ ParentConsumes(r)
  \/ WaitPid(r) \/ destroy_semaphores(r) \/ put_shm(r)

ChildStep(r) == ChildConsumes(r) \/ ChildProduces(r) \/ ChildExits(r)

UnnamedFault(r) == ParentFails(r) \/ ChildFails(r) \/ KillParent(r) \/ KillChild(r)

-------------------------------------------------------------------------------
(* Properties.                                                             *)

UnnamedTypeOK ==
  /\ shm \in Runs \cup {"none"}
  /\ parent \in [Runs -> ParentEnded \cup {"get_shm", "init", "produce", "consume",
                                           "waitpid", "destroy", "put_shm"}]
  /\ child \in [Runs -> {"none", "consume", "produce", "exit", "done", "failed", "killed"}]
  /\ posted \in [Runs -> [parent_sem : {0, 1}, child_sem : {0, 1}]]

\* The two rounds happen in the order the program announces: nothing is consumed before
\* it was produced, and the second round follows the first; and the semaphores are
\* destroyed, and their memory unlinked, when the child cannot use them any more.
RoundsInOrder ==
  LET Order == <<"parent produced", "child consumed", "child produced", "parent consumed">>
  IN \A r \in Runs :
       /\ rounds[r] = SubSeq(Order, 1, Len(rounds[r]))
       /\ parent[r] \in {"put_shm", "done"} => child[r] \in {"done", "killed"}

\* The shared memory object is left behind only by a run with failing calls or kills.
ShmLeftByFailure ==
  \A r \in Runs :
    shm = r => /\ parent[r] \notin {"get_shm", "done"}
               /\ parent[r] \in {"failed", "killed"} => r \in Faulty
===============================================================================
