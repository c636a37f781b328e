----------------------------- MODULE MemdevWalker -----------------------------
(***************************************************************************)
(* Two modules in one kernel: the memory device of Memdev, and the page    *)
(* table walker of src/kernel-module/mm/page_table/page_table_walker.c,    *)
(* which answers PAGE_TABLE_QUERY about any process, at any moment of that *)
(* process's mmaps, munmaps, forks and exit.                               *)
(*                                                                         *)
(* A query takes a reference on the address space it looks at and its      *)
(* mmap_lock for reading, and reads one table after the other, the entry   *)
(* of each telling where the next one is.  The reference may turn out to   *)
(* be the last one: when the process exits or execs meanwhile, it is the   *)
(* mmput of the query that tears the address space down, and               *)
(* memdev_vma_close then runs in a process that never had the mapping.     *)
(* Every step is a step of Memdev or leaves its variables alone.           *)
(*                                                                         *)
(* The addresses of memdev's mappings share their tables: Levels of them   *)
(* below the pgd.  munmap frees them one by one, the lowest first, when it *)
(* has taken the last mapping away, and as far up as no other mapping of   *)
(* the process needs them.  It has downgraded mmap_lock by then, and a     *)
(* query may be reading: what it reads from a freed table is arbitrary.    *)
(*                                                                         *)
(* A query that fails (-EFAULT, -ENOTTY, or -ESRCH as there is no task or  *)
(* no address space) changes nothing and is no step.  memdev maps base     *)
(* pages, never a pud or pmd leaf.                                         *)
(***************************************************************************)
EXTENDS Memdev

CONSTANTS Walkers,    \* the processes that issue queries, one at a time each
          Levels,     \* the tables below the pgd: p4d, pud, pmd and pte
          NextTable   \* what an entry holds that points to the next table

ASSUME WalkersAssumption ==
  /\ Walkers \subseteq Procs
  /\ Levels \in Nat \ {0}
  /\ NextTable \notin Pages \cup {NoPage, AnonPage}

VARIABLES
  walker,    \* the module page_table_walker: unloaded or live
  wpc,       \* per process: where its ioctl is in query_page_table
  target,    \* per process: the address space it looks at
  answer,    \* per process: the address it asked for and the page found there
  level,     \* per process: the table it reads next, 0 for the pgd
  raced,     \* per process: a munmap of the target had downgraded mmap_lock when the
             \*   query took it
  tables,    \* per address space: how many of the tables below the pgd it has
  freeing    \* address spaces whose munmap frees tables

queryVars == <<walker, wpc, target, answer, level, raced>>
tableVars == <<tables, freeing>>
walkVars == <<queryVars, tableVars>>
wvars == <<vars, walkVars>>

\* Stages of an ioctl that holds a reference on the target's address space; from the
\* walk to the unlock it holds its mmap_lock as well.
Holding == {"lock", "walk", "walked", "put"}

Holders(t) == {p \in Procs : wpc[p] \in Holding /\ target[p] = t}

ReadLocked(t) == \E p \in Holders(t) : wpc[p] \in {"walk", "walked"}

NoAnswer == <<0, NoPage>>

WalkerInit ==
  /\ Init
  /\ walker = "unloaded"
  /\ wpc = [p \in Procs |-> "none"]
  /\ target = [p \in Procs |-> p]
  /\ answer = [p \in Procs |-> NoAnswer]
  /\ level = [p \in Procs |-> 0]
  /\ raced = [p \in Procs |-> FALSE]
  /\ tables = [p \in Procs |-> 0]
  /\ freeing = {}

-------------------------------------------------------------------------------
(* insmod and rmmod of the walker.                                         *)

\* misc_register; when it fails nothing is left to undo.
walker_init == /\ walker = "unloaded"
               /\ walker' = "live"
               /\ UNCHANGED <<vars, wpc, target, answer, level, raced, tableVars>>

\* misc_deregister.  walker_fops.owner pins the module while the device is open.
walker_exit == /\ walker = "live"
               /\ \A p \in Procs : wpc[p] = "none"
               /\ walker' = "unloaded"
               /\ UNCHANGED <<vars, wpc, target, answer, level, raced, tableVars>>

-------------------------------------------------------------------------------
(* query_page_table                                                        *)

StageTo(p, stage) == wpc' = [wpc EXCEPT ![p] = stage]

\* get_mm_by_pid finds the task and its address space (get_task_mm), which a task that
\* has exited does not have any more; pid 0 stands for the caller.
get_mm_by_pid(p, t) ==
  /\ walker = "live"
  /\ p \in Walkers /\ Runs(p) /\ wpc[p] = "none"
  /\ life[t] = "alive"
  /\ StageTo(p, "lock")
  /\ target' = [target EXCEPT ![p] = t]
  /\ UNCHANGED <<vars, walker, answer, level, raced, tableVars>>

\* Mutant: the table is walked without mmap_lock.
NotWaiting(t) == TRUE

\* mmap_read_lock waits for mmap and fork, which hold the lock for writing, but not for
\* munmap, which downgrades it before it zaps the range, frees tables and calls close.
CanReadLock(t) == pc[t] \in Readable

mmap_read_lock(p) ==
  /\ wpc[p] = "lock"
  /\ CanReadLock(target[p])
  /\ \E va \in Addrs : answer' = [answer EXCEPT ![p] = <<va, NoPage>>]
  /\ level' = [level EXCEPT ![p] = 0]
  /\ raced' = [raced EXCEPT ![p] = pc[target[p]] # "idle"]
  /\ StageTo(p, "walk")
  /\ UNCHANGED <<vars, walker, target, tableVars>>

\* What the entry that a query reads next holds: the page of the last level, no entry
\* (NoPage), or the way to the next table; anything once its table was freed.
Entry(p) ==
  LET t == target[p]
  IN IF level[p] > tables[t] THEN Pages \cup {NoPage, AnonPage, NextTable}
     ELSE IF level[p] = Levels THEN {pt[t][answer[p][1]]}
     ELSE {IF level[p] = tables[t] THEN NoPage ELSE NextTable}

\* One step from pgd to pte: *_offset and *_get, and "goto out" if there is no entry.
walk_page_table(p) ==
  /\ wpc[p] = "walk"
  /\ \E e \in Entry(p) :
       IF e = NextTable
       THEN /\ level[p] < Levels
            /\ level' = [level EXCEPT ![p] = @ + 1]
            /\ UNCHANGED <<answer, wpc>>
       ELSE /\ answer' = [answer EXCEPT ![p][2] = e]
            /\ StageTo(p, "walked")
            /\ UNCHANGED level
  /\ UNCHANGED <<vars, walker, target, raced, tableVars>>

\* mmap_read_unlock: from here on the answer is history, and only handed to the user.
mmap_read_unlock(p) ==
  /\ wpc[p] = "walked"
  /\ StageTo(p, "put")
  /\ answer' = [answer EXCEPT ![p] = NoAnswer]
  /\ level' = [level EXCEPT ![p] = 0]
  /\ raced' = [raced EXCEPT ![p] = FALSE]
  /\ UNCHANGED <<vars, walker, target, tableVars>>

\* mmput(p): does p drop the last reference on the address space of t?
LastHolder(t, p) == Holders(t) \subseteq {p}

\* The ioctl is over: what it found is copied to the user.
Finish(p) == /\ StageTo(p, "none")
             /\ target' = [target EXCEPT ![p] = p]

\* Mutant: the ioctl returns without mmput.
MmputForgotten(p) ==
  wpc[p] = "put" /\ Finish(p) /\ UNCHANGED <<vars, walker, answer, level, raced, tableVars>>

\* What becomes of the tables when an address space is born (fork copies the entries) or
\* torn down.
TablesFollow ==
  tables' = [o \in Procs |->
    IF life[o] = "unborn" \/ life'[o] = "dead"
    THEN IF \E a \in Addrs : pt'[o][a] # NoPage THEN Levels ELSE 0
    ELSE tables[o]]

\* mmput; the last reference, that of a process which has exited or gone on in another
\* address space, tears the address space down in p.
mmput(p) ==
  LET t == target[p]
  IN /\ wpc[p] = "put"
     /\ IF life[t] = "left" /\ LastHolder(t, p)
        THEN /\ LastMmput(t, p)
             /\ TablesFollow
             /\ StageTo(p, "teardown")
             /\ UNCHANGED <<target, freeing>>
        ELSE Finish(p) /\ UNCHANGED <<vars, tableVars>>
     /\ UNCHANGED <<walker, answer, level, raced>>

\* The vma closes of a teardown are over, mmput returns.
TornDown(p) ==
  /\ wpc[p] = "teardown"
  /\ pc[target[p]] = "idle"
  /\ Finish(p)
  /\ UNCHANGED <<vars, walker, answer, level, raced, tableVars>>

-------------------------------------------------------------------------------
(* The rest of the kernel, with queries around.                            *)

\* mmap, munmap and fork take mmap_lock for writing.
Writer(p) ==
  /\ ~ReadLocked(p)
  /\ \/ \E f \in Files, lo \in Addrs, len \in 1 .. MaxLen : MmapStart(p, f, lo, len)
     \/ \E lo, hi \in Addrs : Munmap(p, lo, hi)
     \/ \E c \in Procs : Fork(p, c)

\* exit_mm and exec_mmap: the process gives up its address space, which is torn down
\* here unless a query holds it.
ExitMm(p) ==
  /\ wpc[p] = "none"
  /\ IF LastHolder(p, p) THEN Exit(p) ELSE Leave(p)

ExecMm(p) ==
  /\ wpc[p] = "none"
  /\ \E q \in Procs : Exec(p, q)
  /\ life'[p] = IF LastHolder(p, p) THEN "dead" ELSE "left"

\* What the threads of a process do.
LiveStep(p) ==
  \/ /\ \/ \E f \in Files : ChrdevOpen(p, f) \/ Close(p, f)
        \/ \E a \in Addrs : WriteFault(p, a)
        \/ Writer(p)
        \/ ExitMm(p)
        \/ ExecMm(p)
     /\ TablesFollow
     /\ UNCHANGED <<queryVars, freeing>>
  \/ \E t \in Procs : get_mm_by_pid(p, t)

\* A step of mmap or munmap: mapping a page needs all tables, and the unmapping that
\* follows a failed mmap frees them, under the lock for writing, if nothing is mapped.
Handler(p) ==
  /\ HandlerStep(p) /\ p \notin freeing
  /\ \E n \in 0 .. Levels :
       /\ pc[p] = "map" \/ n <= tables[p]
       /\ pc[p] = "undo" \/ n >= tables[p]
       /\ (\E a \in Addrs : pt'[p][a] # NoPage) => n = Levels
       /\ tables' = [tables EXCEPT ![p] = n]
  /\ freeing' = IF pc[p] = "zap" /\ \A a \in Addrs : pt'[p][a] = NoPage
                THEN freeing \cup {p} ELSE freeing
  /\ UNCHANGED queryVars

\* free_pgtables of munmap, between the zap and the first close.
FreeTable(p) ==
  /\ p \in freeing /\ tables[p] > 0
  /\ tables' = [tables EXCEPT ![p] = @ - 1]
  /\ UNCHANGED <<vars, queryVars, freeing>>

TablesFreed(p) ==
  /\ p \in freeing
  /\ freeing' = freeing \ {p}
  /\ UNCHANGED <<vars, queryVars, tables>>

MmStep(p) == Handler(p) \/ FreeTable(p) \/ TablesFreed(p)

WalkStep(p) == \/ mmap_read_lock(p) \/ walk_page_table(p) \/ mmap_read_unlock(p)
               \/ mmput(p) \/ TornDown(p)

WalkerNext ==
  \/ ModuleStep /\ UNCHANGED walkVars
  \/ walker_init \/ walker_exit
  \/ \E f \in Files : FileStep(f) /\ UNCHANGED walkVars
  \/ \E p \in Procs : MmStep(p) \/ LiveStep(p) \/ WalkStep(p)

\* Code that runs in the kernel is scheduled until it returns; users and insmod /
\* rmmod owe nothing.
WalkerFairness ==
  /\ \A f \in Files : WF_wvars(FileStep(f) /\ UNCHANGED walkVars)
  /\ \A p \in Procs : WF_wvars(MmStep(p))
  /\ \A p \in Walkers : WF_wvars(WalkStep(p))

WalkerSpec == WalkerInit /\ [][WalkerNext]_wvars /\ WalkerFairness

-------------------------------------------------------------------------------
(* Properties.                                                             *)

\* The types of the walker's variables.
WalkerTypeOK ==
  /\ walker \in {"unloaded", "live"}
  /\ wpc \in [Procs -> {"none", "teardown"} \cup Holding]
  /\ target \in [Procs -> Procs]
  /\ answer \in [Procs -> Nat \X (Pages \cup {NoPage, AnonPage})]
  /\ level \in [Procs -> 0 .. Levels]
  /\ raced \in [Procs -> BOOLEAN]
  /\ tables \in [Procs -> 0 .. Levels]
  /\ freeing \subseteq Procs

\* query_page_table: from the lookup to mmput the target's address space exists, although
\* its process may have left it.  As long as the query holds mmap_lock it reads no freed
\* table, and what it found at the end stays the page of that address, if the process
\* writes no private copy over it.  A munmap that had downgraded the lock before the query
\* took it is the exception to both: it takes pages, and tables, away under the walk.  (The
\* comment "it is safe to call pte_offset_kernel here since we held mmap_read_lock" forgets
\* it.)
WalksAreStable ==
  /\ WalkerTypeOK
  /\ \A p \in Procs : wpc[p] \in Holding => life[target[p]] \in {"alive", "left"}
  /\ \A p \in Procs : wpc[p] = "walk" =>
        raced[p] \/ level[p] <= tables[target[p]]
  /\ \A p \in Procs : wpc[p] = "walked" =>
        LET now == pt[target[p]][answer[p][1]]
        IN \/ now = answer[p][2]
           \/ now = AnonPage /\ answer[p][2] \in Pages
           \/ raced[p] /\ (now = NoPage \/ tables[target[p]] < Levels)

\* A query never keeps an address space that its process left: it is torn down in the end,
\* by whoever drops it last; and when all processes are gone everything comes back,
\* although memdev_vma_close of the query's process finds none of the regions.
WalksEndInReclaim ==
  /\ AllReclaimed
  /\ []<>(\A p \in Procs : life[p] # "left")
===============================================================================
