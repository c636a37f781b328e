-------------------------------- MODULE Memdev --------------------------------
(***************************************************************************)
(* The memory device of src/kernel-module/memdev/memdev.c: a module that   *)
(* registers /dev/memdev, and whose open, mmap, vma close and release      *)
(* handlers run concurrently in any number of processes.                   *)
(*                                                                         *)
(* Actors.  Every open file has a control state of its own: the thread     *)
(* inside memdev_open, or the deferred last fput inside memdev_release.    *)
(* Every address space has one too: mmap, munmap, fork and teardown take   *)
(* its mmap_lock, so at most one of them runs per address space, while the *)
(* other threads of the process open and close files.  insmod and rmmod    *)
(* are the control state "mod".                                            *)
(*                                                                         *)
(* Procs are address spaces, not pids.  Tgid gives the pid of the process  *)
(* that has the space: execve moves a process to another space of the same *)
(* pid, and fork may give a child the pid of a process that is gone.  The  *)
(* space that a process leaves, by exit or by execve, stays when somebody  *)
(* else holds it (get_task_mm), and whoever drops it last tears it down.   *)
(*                                                                         *)
(* A critical section of dev_lock is one step: what it touches is only     *)
(* touched under dev_lock, except mapped_count, whose increment (after the *)
(* unlock) is a step of its own.                                           *)
(*                                                                         *)
(* The kernel around the driver is modelled from how the driver uses it:   *)
(* address spaces, page tables that hold a reference on every page they    *)
(* map, files released after the last descriptor and mapping, and a module *)
(* loader that removes a module only at reference count zero.              *)
(***************************************************************************)
EXTENDS Integers, Sequences, FiniteSets, Functions

CONSTANTS Procs,          \* address spaces, each of one process
          Tgid,           \* the pid (of the group leader) of that process
          FirstProc,      \* the one that exists at the start
          Files,          \* open file descriptions of /dev/memdev
          Private,        \* those that are only mapped with MAP_PRIVATE
          Pages,          \* physical pages the buddy allocator can give out
          Addrs,          \* page-aligned user addresses, as page numbers
          MaxLen,         \* the longest mapping, in pages
          NumaEnabled,    \* numa_enabled: more than one possible node
          InitOnAlloc,    \* the kernel clears what kvmalloc returns (init_on_alloc=1)
          NoPage,         \* NULL, and the page of an address that maps none
          AnonPage        \* the private copy that an address maps after a write

ASSUME MemdevAssumption ==
  /\ IsFiniteSet(Procs) /\ IsFiniteSet(Files) /\ IsFiniteSet(Pages)
  /\ Procs \cap Files = {}
  /\ FirstProc \in Procs
  /\ Private \subseteq Files
  /\ Addrs \subseteq Nat /\ IsFiniteSet(Addrs)
  /\ MaxLen \in Nat \ {0}
  /\ NumaEnabled \in BOOLEAN
  /\ InitOnAlloc \in BOOLEAN
  /\ NoPage \notin Pages /\ AnonPage \notin Pages /\ AnonPage # NoPage

VARIABLES
  mod,           \* progress of insmod / rmmod
  registered,    \* how many of Resources are registered
  modref,        \* the reference count of the module
  fstate,        \* per file: progress of open and release
  opener,        \* the files each process is opening
  file_list,     \* files whose file_state is linked in file_list
  regions,       \* the mapped_regions linked in the file_states
  mapped_count,  \* the atomic counter of mappings
  life,          \* per address space: unborn, the process in it alive, left by its
                 \*   process but held by another, or dead: torn down
  fds,           \* <<p, f>>: process p has a descriptor of file f
  vmas,          \* the mappings of /dev/memdev in the address spaces
  pt,            \* per process: the page each address maps
  ref,           \* per page: its reference count, 0 when it is free
  pc,            \* per process: the handler its address space is in
  pending,       \* per process: the vma mmap is building, or the unmapped
                 \*   vmas whose close was not called yet
  held,          \* per process: the array of pages that mmap has filled
  closer         \* per process: the process that runs those close calls

modVars  == <<mod, registered>>
fileVars == <<fstate, opener, file_list, fds>>
mmVars   == <<life, vmas, pt, pc, pending, held, closer>>
vars == <<mod, registered, modref, fstate, opener, file_list, regions, mapped_count,
          life, fds, vmas, pt, ref, pc, pending, held, closer>>

Resources == <<"devno", "cdev", "class", "device">>

Vma == [mm : Procs, lo : Addrs, len : 1 .. MaxLen, file : Files]

\* A mapped_region knows the pid of its process, Tgid[mm], and not its address space.
Region == [mm : Procs, user_va : Addrs, file : Files, pages : Seq(Pages)]

Span(v) == v.lo .. (v.lo + v.len - 1)

-------------------------------------------------------------------------------
(* What the rest of the kernel provides.                                   *)

\* module_is_live: try_module_get succeeds until rmmod commits to unloading.
ModuleIsLive == mod \in {"init", "unwind", "live"}

\* The files that a descriptor, a mapping or a running mmap keeps open.
Referenced(f) == \/ \E p \in Procs : <<p, f>> \in fds
                 \/ \E v \in vmas : v.file = f
                 \/ \E p \in Procs : \E v \in pending[p] : v.file = f

\* How often each page occurs: in an array, in the arrays of a set of regions, in the
\* page table entries of p for a set of addresses.
InArray(pages) == [g \in Pages |-> Cardinality({i \in DOMAIN pages : pages[i] = g})]

InRegions(rs) ==
  [g \in Pages |-> Cardinality({s \in rs \X (1 .. MaxLen) :
                      s[2] \in DOMAIN s[1].pages /\ s[1].pages[s[2]] = g})]

InTable(p, as) == [g \in Pages |-> Cardinality({a \in Addrs \cap as : pt[p][a] = g})]

\* get_page and put_page, as often for each page as count says.
GetPages(count) == [g \in Pages |-> ref[g] + count[g]]
PutPages(count) == [g \in Pages |-> ref[g] - count[g]]

FreePages == {g \in Pages : ref[g] = 0}

\* Mutant: memdev_fops without .owner.
FopsWithoutOwner == 0

\* chrdev_open pins the module through the fops owner (memdev_fops.owner,
\* memdev_cdev.owner) before it calls memdev_open; __fput unpins it after release.
FopsOwner == 1

\* Does execve of the process that goes on in p still tear its old address space down?
Execing(p) == \E o \in Procs \ {p} : pc[o] = "close" /\ closer[o] = p /\ Tgid[o] = Tgid[p]

\* The threads of the process run user code, or are about to.
Runs(p) == life[p] = "alive" /\ ~Execing(p)

\* A thread of p is in the mmput of an address space that another process left.
Dropping(p) == \E o \in Procs \ {p} : pc[o] = "close" /\ closer[o] = p

\* The process of p exists: it runs, or has exited and still closes what it had open.
HasTask(p) == \/ life[p] = "alive"
              \/ \E f \in Files : <<p, f>> \in fds
              \/ pc[p] = "close" /\ closer[p] = p

-------------------------------------------------------------------------------
Init ==
  /\ mod = "unloaded"
  /\ registered = 0
  /\ modref = 0
  /\ fstate = [f \in Files |-> "none"]
  /\ opener = [p \in Procs |-> {}]
  /\ file_list = {}
  /\ regions = {}
  /\ mapped_count = 0
  /\ life = [p \in Procs |-> IF p = FirstProc THEN "alive" ELSE "unborn"]
  /\ fds = {}
  /\ vmas = {}
  /\ pt = [p \in Procs |-> [a \in Addrs |-> NoPage]]
  /\ ref = [g \in Pages |-> 0]
  /\ pc = [p \in Procs |-> "idle"]
  /\ pending = [p \in Procs |-> {}]
  /\ held = [p \in Procs |-> << >>]
  /\ closer = [p \in Procs |-> p]

-------------------------------------------------------------------------------
(* insmod: memdev_init registers the Resources in order; a step that fails *)
(* unregisters the earlier ones in reverse order.                          *)

memdevUnchanged == UNCHANGED <<modref, fileVars, regions, mapped_count, mmVars, ref>>

\* insmod with a valid attr; an invalid one returns -EINVAL with nothing done.
Insmod == /\ mod = "unloaded"
          /\ mod' = "init"
          /\ registered' = 0
          /\ memdevUnchanged

memdev_init ==
  /\ mod = "init"
  /\ registered' = registered + 1
  /\ mod' = IF registered' = 4 THEN "live" ELSE "init"
  /\ memdevUnchanged

InitFails ==
  /\ mod = "init"
  /\ mod' = "unwind"
  /\ UNCHANGED registered
  /\ memdevUnchanged

\* The goto chain err_device_create, err_class_create, err_cdev_add, and the last
\* four calls of memdev_exit, which undo the same steps in the same order.
Unregister ==
  /\ mod \in {"unwind", "exit_unregister"}
  /\ IF registered = 0
     THEN mod' = "unloaded" /\ UNCHANGED registered
     ELSE registered' = registered - 1 /\ UNCHANGED mod
  /\ memdevUnchanged

\* delete_module: only a live module with no reference starts to unload.
Rmmod == /\ mod = "live"
         /\ modref = 0
         /\ mod' = "exit_check"
         /\ UNCHANGED registered
         /\ memdevUnchanged

\* memdev_exit cannot refuse: it returns void and the loader frees the module anyway.
ExitCheck ==
  /\ mod = "exit_check"
  /\ mod' = IF mapped_count > 0 THEN "unloaded" ELSE "exit_free"
  /\ UNCHANGED registered
  /\ memdevUnchanged

RegionsOf(fs) == {r \in regions : r.file \in fs}

\* Mutant: the counter is decremented once per list.
DecrementsOnce(rs) == 1

\* The atomic_dec of free_mapped_region, for every region of rs.
Decrements(rs) == Cardinality(rs)

\* free_mapped_region, for every region of rs.
free_mapped_region(rs) ==
  /\ regions' = regions \ rs
  /\ ref' = PutPages(InRegions(rs))
  /\ mapped_count' = mapped_count - Decrements(rs)

ExitFree ==
  /\ mod = "exit_free"
  /\ free_mapped_region(RegionsOf(file_list))
  /\ file_list' = {}
  /\ mod' = "exit_unregister"
  /\ UNCHANGED <<registered, modref, fstate, opener, fds, mmVars>>

-------------------------------------------------------------------------------
(* open and release.                                                       *)

fsUnchanged == UNCHANGED <<modVars, regions, mapped_count, mmVars, ref>>

\* open("/dev/memdev"): the node exists once device_create has run.
ChrdevOpen(p, f) ==
  /\ Runs(p)
  /\ registered = 4 /\ ModuleIsLive
  /\ fstate[f] = "none"
  /\ modref' = modref + FopsOwner
  /\ fstate' = [fstate EXCEPT ![f] = "open_get"]
  /\ opener' = [opener EXCEPT ![p] = @ \cup {f}]
  /\ UNCHANGED <<file_list, fds>>
  /\ fsUnchanged

\* Mutant: open takes no reference, although release drops one.
OpenGetsNone == 0

\* try_module_get in memdev_open.
OpenGets == 1

\* Mutant: a module_put too many on the error path.
OpenFailedPutsTwo == 2

\* module_put when the kzalloc of memdev_open fails.
OpenFailedPuts == 1

\* memdev_open: try_module_get, then kzalloc.  The outcomes are -EBUSY, -ENOMEM
\* (after a module_put) and success.
memdev_open_get(f) ==
  /\ fstate[f] = "open_get"
  /\ IF ModuleIsLive
     THEN \/ /\ fstate' = [fstate EXCEPT ![f] = "open_link"]
             /\ modref' = modref + OpenGets
          \/ /\ fstate' = [fstate EXCEPT ![f] = "open_failed"]
             /\ modref' = modref + OpenGets - OpenFailedPuts
     ELSE fstate' = [fstate EXCEPT ![f] = "open_failed"] /\ UNCHANGED modref
  /\ UNCHANGED <<opener, file_list, fds>>
  /\ fsUnchanged

\* memdev_open: list_add under dev_lock; the descriptor is installed on return.
memdev_open_link(p, f) ==
  /\ fstate[f] = "open_link"
  /\ f \in opener[p]
  /\ file_list' = file_list \cup {f}
  /\ fds' = fds \cup {<<p, f>>}
  /\ fstate' = [fstate EXCEPT ![f] = "open"]
  /\ opener' = [opener EXCEPT ![p] = @ \ {f}]
  /\ UNCHANGED modref
  /\ fsUnchanged

\* chrdev_open: the failed open drops the pin of the fops owner.
OpenFailed(p, f) ==
  /\ fstate[f] = "open_failed"
  /\ f \in opener[p]
  /\ fstate' = [fstate EXCEPT ![f] = "none"]
  /\ opener' = [opener EXCEPT ![p] = @ \ {f}]
  /\ modref' = modref - FopsOwner
  /\ UNCHANGED <<file_list, fds>>
  /\ fsUnchanged

\* filp_close: the process gives up a descriptor.
CloseFd(p, f) ==
  /\ <<p, f>> \in fds
  /\ fds' = fds \ {<<p, f>>}
  /\ UNCHANGED <<modref, fstate, opener, file_list>>
  /\ fsUnchanged

\* close(fd)
Close(p, f) == Runs(p) /\ CloseFd(p, f)

\* exit_files, which comes after exit_mm.
ExitFiles(p, f) ==
  /\ life[p] \in {"left", "dead"}
  /\ ~(pc[p] = "close" /\ closer[p] = p)
  /\ CloseFd(p, f)

\* The regions memdev_release still finds in the file's state.
Leftovers(f) == RegionsOf({f})

\* memdev_release, once nothing refers to the file: frees what is left of its
\* regions and unlinks its state, under dev_lock.
memdev_release(f) ==
  /\ fstate[f] = "open"
  /\ ~Referenced(f)
  /\ free_mapped_region(Leftovers(f))
  /\ file_list' = file_list \ {f}
  /\ fstate' = [fstate EXCEPT ![f] = "release_put"]
  /\ UNCHANGED <<modVars, modref, opener, fds, mmVars>>

\* memdev_release: kfree(state), module_put, and back to __fput.
memdev_release_put(f) ==
  /\ fstate[f] = "release_put"
  /\ modref' = modref - 1
  /\ fstate' = [fstate EXCEPT ![f] = "released"]
  /\ UNCHANGED <<opener, file_list, fds>>
  /\ fsUnchanged

\* __fput: release has returned, the pin of the fops owner is dropped.
Fput(f) ==
  /\ fstate[f] = "released"
  /\ modref' = modref - FopsOwner
  /\ fstate' = [fstate EXCEPT ![f] = "none"]
  /\ UNCHANGED <<opener, file_list, fds>>
  /\ fsUnchanged

-------------------------------------------------------------------------------
(* mmap: memdev_mmap under the mmap_lock of p, one step between two points *)
(* where another handler can run.                                          *)

mmUnchanged == UNCHANGED <<modVars, modref, fileVars, life>>

Overlaps(v, w) == v.mm = w.mm /\ Span(v) \cap Span(w) # {}

\* The policy memdev_mmap looks at: vm_policy of a vma that mmap_region has just
\* allocated, which no mbind has reached yet.
VmaPolicy(p) == "default"

\* get_allocation_node: does it find a node for this policy, or -EINVAL?
get_allocation_node(mode) == mode \in {"default", "local", "preferred"}

\* The kernel picks a free range for a non-empty, page-aligned length and calls
\* memdev_mmap, which may reject the policy before it has done anything.
MmapStart(p, f, lo, len) ==
  LET v == [mm |-> p, lo |-> lo, len |-> len, file |-> f]
  IN /\ Runs(p) /\ pc[p] = "idle"
     /\ <<p, f>> \in fds
     /\ Span(v) \subseteq Addrs
     /\ \A w \in vmas : ~Overlaps(v, w)
     /\ NumaEnabled => get_allocation_node(VmaPolicy(p))
     /\ pc' = [pc EXCEPT ![p] = "alloc"]
     /\ pending' = [pending EXCEPT ![p] = {v}]
     /\ UNCHANGED <<regions, mapped_count, vmas, pt, ref, held, closer>>
     /\ mmUnchanged

\* What the n slots of a new kvmalloc_array hold: nobody has written them, so they are
\* NULL only if the kernel clears them, and else perhaps pointers of an earlier user.
Slots(n) == [1 .. n -> IF InitOnAlloc THEN {NoPage} ELSE {NoPage} \cup Pages]

\* alloc_pages_bulk_array_node puts free pages into the NULL slots among the first n,
\* takes the other ones for pages it need not allocate, and returns n; it stops early
\* only once it has met a NULL slot.  kvmalloc_array fails like n = 0.
AllocPages(p) ==
  /\ pc[p] = "alloc"
  /\ \E v \in pending[p] : \E slots \in Slots(v.len), n \in 0 .. v.len :
       LET null == {i \in 1 .. n : slots[i] = NoPage}
       IN /\ n < v.len => \E i \in 1 .. (n + 1) : slots[i] = NoPage
          /\ \E new \in Injection(null, FreePages) :
               /\ held' = [held EXCEPT ![p] =
                             [i \in 1 .. n |-> IF i \in null THEN new[i] ELSE slots[i]]]
               /\ ref' = GetPages(InArray(new))
          /\ pc' = [pc EXCEPT ![p] = IF n = v.len THEN "map" ELSE "err"]
  /\ UNCHANGED <<regions, mapped_count, vmas, pt, pending, closer>>
  /\ mmUnchanged

\* Mutant: the result of map_pages_to_vma is ignored.
AfterMapUnchecked(v, n) == "region"

\* if (ret) goto err_free_pages, where n pages of v were inserted.
AfterMap(v, n) == IF n = v.len THEN "region" ELSE "err"

\* map_pages_to_vma: vm_insert_pages maps the array in order and takes a reference for
\* each entry; it fails after the first n (goto err_free_pages), at the latest at a page
\* nobody holds.
map_pages_to_vma(p) ==
  /\ pc[p] = "map"
  /\ \E v \in pending[p] : \E n \in 0 .. v.len :
       /\ \A i \in 1 .. n : ref[held[p][i]] > 0
       /\ pt' = [pt EXCEPT ![p] = [a \in Addrs |-> IF a \in v.lo .. (v.lo + n - 1)
                                                  THEN held[p][a - v.lo + 1] ELSE @[a]]]
       /\ ref' = GetPages(InArray(SubSeq(held[p], 1, n)))
       /\ pc' = [pc EXCEPT ![p] = AfterMap(v, n)]
  /\ UNCHANGED <<regions, mapped_count, vmas, held, pending, closer>>
  /\ mmUnchanged

\* The kzalloc of the region fails (goto err_free_pages, with the pages mapped).
RegionFails(p) ==
  /\ pc[p] = "region"
  /\ pc' = [pc EXCEPT ![p] = "err"]
  /\ UNCHANGED <<regions, mapped_count, vmas, pt, ref, held, pending, closer>>
  /\ mmUnchanged

\* It succeeds: the region takes over the pages and is listed under dev_lock.
ListRegion(p) ==
  /\ pc[p] = "region"
  /\ \E v \in pending[p] :
       regions' = regions \cup
         {[mm |-> p, user_va |-> v.lo, file |-> v.file, pages |-> held[p]]}
  /\ held' = [held EXCEPT ![p] = << >>]
  /\ pc' = [pc EXCEPT ![p] = "count"]
  /\ UNCHANGED <<mapped_count, vmas, pt, ref, pending, closer>>
  /\ mmUnchanged

\* atomic_inc(&mapped_count), outside dev_lock; memdev_mmap returns 0 and the
\* kernel links the vma.
CountRegion(p) ==
  /\ pc[p] = "count"
  /\ mapped_count' = mapped_count + 1
  /\ vmas' = vmas \cup pending[p]
  /\ pending' = [pending EXCEPT ![p] = {}]
  /\ pc' = [pc EXCEPT ![p] = "idle"]
  /\ UNCHANGED <<regions, pt, ref, held, closer>>
  /\ mmUnchanged

\* Mutant: an error path returns instead of jumping to err_free_pages.
NoneFreed(p) == << >>

\* while (nr_allocated-- > 0): the pages that err_free_pages frees.
Allocated(p) == held[p]

\* err_free_pages: free the pages allocated so far and return an error.
err_free_pages(p) ==
  /\ pc[p] = "err"
  /\ ref' = PutPages(InArray(Allocated(p)))
  /\ held' = [held EXCEPT ![p] = << >>]
  /\ pc' = [pc EXCEPT ![p] = "undo"]
  /\ UNCHANGED <<regions, mapped_count, vmas, pt, pending, closer>>
  /\ mmUnchanged

\* Zapping the addresses as of p drops the reference each page table entry holds.
Zap(p, as) ==
  /\ pt' = [pt EXCEPT ![p] = [a \in Addrs |-> IF a \in as THEN NoPage ELSE @[a]]]
  /\ ref' = PutPages(InTable(p, as))

\* mmap_region: memdev_mmap failed, what it has mapped is unmapped and the vma freed.
MmapUndo(p) ==
  /\ pc[p] = "undo"
  /\ \E v \in pending[p] : Zap(p, Span(v))
  /\ pending' = [pending EXCEPT ![p] = {}]
  /\ pc' = [pc EXCEPT ![p] = "idle"]
  /\ UNCHANGED <<regions, mapped_count, vmas, held, closer>>
  /\ mmUnchanged

-------------------------------------------------------------------------------
(* munmap, fork, execve and exit.                                          *)

\* c will call vm_ops->close on the vmas vs, which were unmapped from p.
CloseVmas(p, vs, c) ==
  /\ pending' = [pending EXCEPT ![p] = vs]
  /\ closer' = [closer EXCEPT ![p] = c]
  /\ pc' = [pc EXCEPT ![p] = IF vs = {} THEN "idle" ELSE "close"]

\* The vmas that v is split into when the addresses lo .. hi are unmapped.
Pieces(v, lo, hi) ==
  {w \in Vma : /\ w.mm = v.mm /\ w.file = v.file
               /\ Span(w) \in {{a \in Span(v) : a < lo}, Span(v) \cap (lo .. hi),
                                {a \in Span(v) : a > hi}}}

\* munmap splits the vmas it cuts (memdev_vm_ops has no .open, so the driver is
\* not told) and unlinks the pieces it removes, under mmap_lock for writing.
Munmap(p, lo, hi) ==
  LET cut    == {v \in vmas : v.mm = p /\ Span(v) \cap (lo .. hi) # {}}
      pieces == UNION {Pieces(v, lo, hi) : v \in cut}
      gone   == {w \in pieces : Span(w) \subseteq lo .. hi}
  IN /\ Runs(p) /\ pc[p] = "idle"
     /\ cut # {}
     /\ vmas' = (vmas \ cut) \cup (pieces \ gone)
     /\ pending' = [pending EXCEPT ![p] = gone]
     /\ pc' = [pc EXCEPT ![p] = "zap"]
     /\ UNCHANGED <<regions, mapped_count, pt, ref, held, closer>>
     /\ mmUnchanged

\* It downgrades the lock and zaps the range; close comes next.
ZapRange(p) ==
  /\ pc[p] = "zap"
  /\ Zap(p, UNION {Span(v) : v \in pending[p]})
  /\ pc' = [pc EXCEPT ![p] = "close"]
  /\ UNCHANGED <<regions, mapped_count, vmas, pending, held, closer>>
  /\ mmUnchanged

\* The handlers of p that let others read under mmap_lock: none, or a munmap that has
\* downgraded it.
Readable == {"idle", "zap", "close"}

\* A write to a private mapping: the fault replaces the page by a copy.
WriteFault(p, a) ==
  /\ Runs(p) /\ pc[p] \in Readable
  /\ \E v \in vmas : v.mm = p /\ v.file \in Private /\ a \in Span(v)
  /\ pt[p][a] \in Pages
  /\ pt' = [pt EXCEPT ![p][a] = AnonPage]
  /\ ref' = PutPages(InTable(p, {a}))
  /\ UNCHANGED <<regions, mapped_count, vmas, pc, pending, held, closer>>
  /\ mmUnchanged

\* fork: the child c gets a pid that nobody has, the descriptors, the vmas and, as the
\* vma is VM_MIXEDMAP, the page table entries with a reference on each page.  The driver
\* is not told.
Fork(p, c) ==
  /\ Runs(p) /\ pc[p] = "idle"
  /\ life[c] = "unborn"
  /\ \A o \in Procs : Tgid[o] = Tgid[c] => ~HasTask(o)
  /\ life' = [life EXCEPT ![c] = "alive"]
  /\ fds' = fds \cup {<<c, f>> : f \in {g \in Files : <<p, g>> \in fds}}
  /\ vmas' = vmas \cup {[v EXCEPT !.mm = c] : v \in {w \in vmas : w.mm = p}}
  /\ pt' = [pt EXCEPT ![c] = pt[p]]
  /\ ref' = GetPages(InTable(p, Addrs))
  /\ UNCHANGED <<modVars, modref, fstate, opener, file_list, regions, mapped_count,
                 pc, pending, held, closer>>

\* The last thread of p is in no handler any more.
Settled(p) == Runs(p) /\ pc[p] = "idle" /\ opener[p] = {} /\ ~Dropping(p)

endUnchanged == UNCHANGED <<modVars, modref, fstate, opener, file_list, regions,
                            mapped_count, held>>

\* exit_mmap, in c: p maps nothing any more, and c calls close on what it had mapped.
TearDown(p, c) ==
  /\ vmas' = {v \in vmas : v.mm # p}
  /\ Zap(p, Addrs)
  /\ CloseVmas(p, {v \in vmas : v.mm = p}, c)

\* exit_mm when nobody else holds the address space.
Exit(p) ==
  /\ Settled(p)
  /\ life' = [life EXCEPT ![p] = "dead"]
  /\ TearDown(p, p)
  /\ UNCHANGED fds
  /\ endUnchanged

\* exit_mm when somebody does.
Leave(p) ==
  /\ Settled(p)
  /\ life' = [life EXCEPT ![p] = "left"]
  /\ UNCHANGED <<fds, vmas, pt, ref, pc, pending, closer>>
  /\ endUnchanged

\* execve: the process of p, with its pid and its descriptors, goes on in q.  Its old
\* address space is torn down first thing, or stays as long as somebody else holds it.
Exec(p, q) ==
  /\ Settled(p)
  /\ life[q] = "unborn" /\ Tgid[q] = Tgid[p]
  /\ fds' = {<<IF d[1] = p THEN q ELSE d[1], d[2]>> : d \in fds}
  /\ \/ /\ life' = [life EXCEPT ![p] = "dead", ![q] = "alive"]
        /\ TearDown(p, q)
     \/ /\ life' = [life EXCEPT ![p] = "left", ![q] = "alive"]
        /\ UNCHANGED <<vmas, pt, ref, pc, pending, closer>>
  /\ endUnchanged

\* The mmput of c, which looked at the address space when the process was still in it,
\* drops it last.
LastMmput(p, c) ==
  /\ life[p] = "left"
  /\ Runs(c) /\ Tgid[c] # Tgid[p]
  /\ life' = [life EXCEPT ![p] = "dead"]
  /\ TearDown(p, c)
  /\ UNCHANGED fds
  /\ endUnchanged

\* Mutant: the search compares only the address.
MatchesAnyPid(pid, user_va) == {r \in RegionsOf(file_list) : r.user_va = user_va}

\* The regions that the search of memdev_vma_close would accept: those of any file,
\* with the pid of the caller and the start of the vma.
Matches(pid, user_va) ==
  {r \in RegionsOf(file_list) : Tgid[r.mm] = pid /\ r.user_va = user_va}

\* memdev_vma_close on the lowest pending vma of p: under dev_lock, frees the first
\* region that matches (any of them: the order of the lists is not modelled), or warns
\* that there is none.  Then the vma drops its file.
memdev_vma_close(p) ==
  /\ pc[p] = "close"
  /\ \E v \in pending[p] :
       /\ \A w \in pending[p] : v.lo <= w.lo
       /\ LET found == Matches(Tgid[closer[p]], v.lo)
          IN IF found = {} THEN UNCHANGED <<regions, ref, mapped_count>>
                           ELSE \E r \in found : free_mapped_region({r})
       /\ pending' = [pending EXCEPT ![p] = @ \ {v}]
  /\ pc' = [pc EXCEPT ![p] = IF pending'[p] = {} THEN "idle" ELSE "close"]
  /\ UNCHANGED <<vmas, pt, held, closer>>
  /\ mmUnchanged

-------------------------------------------------------------------------------
ModuleStep == Insmod \/ memdev_init \/ InitFails \/ Unregister \/ Rmmod \/ ExitCheck \/ ExitFree

FileStep(f) ==
  \/ memdev_open_get(f)
  \/ \E p \in Procs : memdev_open_link(p, f) \/ OpenFailed(p, f) \/ ExitFiles(p, f)
  \/ memdev_release(f)
  \/ memdev_release_put(f)
  \/ Fput(f)

HandlerStep(p) ==
  \/ AllocPages(p)
  \/ map_pages_to_vma(p)
  \/ RegionFails(p)
  \/ ListRegion(p)
  \/ CountRegion(p)
  \/ err_free_pages(p)
  \/ MmapUndo(p)
  \/ ZapRange(p)
  \/ memdev_vma_close(p)

UserStep(p) ==
  \/ \E f \in Files : ChrdevOpen(p, f) \/ Close(p, f)
  \/ \E f \in Files, lo \in Addrs, len \in 1 .. MaxLen : MmapStart(p, f, lo, len)
  \/ \E lo, hi \in Addrs : Munmap(p, lo, hi)
  \/ \E a \in Addrs : WriteFault(p, a)
  \/ Exit(p) \/ Leave(p)
  \/ \E c \in Procs : Fork(p, c) \/ Exec(p, c) \/ LastMmput(p, c)

Next == \/ ModuleStep
        \/ \E f \in Files : FileStep(f)
        \/ \E p \in Procs : HandlerStep(p) \/ UserStep(p)

\* Code that runs in the kernel is scheduled until it returns; users and insmod /
\* rmmod owe nothing.
Fairness == /\ \A f \in Files : WF_vars(FileStep(f))
            /\ \A p \in Procs : WF_vars(HandlerStep(p))

Spec == Init /\ [][Next]_vars /\ Fairness

-------------------------------------------------------------------------------
(* Properties.                                                             *)

\* The types of the variables.
TypeOK ==
  /\ mod \in {"unloaded", "init", "unwind", "live", "exit_check", "exit_free",
              "exit_unregister"}
  /\ registered \in 0 .. Len(Resources)
  /\ modref \in Nat
  /\ fstate \in [Files -> {"none", "open_get", "open_link", "open_failed", "open",
                           "release_put", "released"}]
  /\ opener \in [Procs -> SUBSET Files]
  /\ file_list \subseteq Files
  /\ regions \subseteq Region
  /\ mapped_count \in Int
  /\ life \in [Procs -> {"unborn", "alive", "left", "dead"}]
  /\ fds \subseteq Procs \X Files
  /\ vmas \subseteq Vma
  /\ pt \in [Procs -> [Addrs -> Pages \cup {NoPage, AnonPage}]]
  /\ ref \in [Pages -> Int]
  /\ pc \in [Procs -> {"idle", "alloc", "map", "region", "count", "err", "undo", "zap",
                       "close"}]
  /\ pending \in [Procs -> SUBSET Vma]
  /\ held \in [Procs -> Seq(Pages)]
  /\ closer \in [Procs -> Procs]

\* The entries of all page tables that map g, and the slots of the arrays of running
\* mmaps and of listed regions that point to it: each of the latter owes a free.
Entries(g)     == {e \in Procs \X Addrs : pt[e[1]][e[2]] = g}
HeldSlots(g)   == {s \in Procs \X (1 .. MaxLen) :
                     s[2] \in DOMAIN held[s[1]] /\ held[s[1]][s[2]] = g}
ListedSlots(g) == {s \in regions \X (1 .. MaxLen) :
                     s[2] \in DOMAIN s[1].pages /\ s[1].pages[s[2]] = g}

DriverRefs(g) == Cardinality(HeldSlots(g)) + Cardinality(ListedSlots(g))

\* No page is freed twice, freed while it is mapped, or leaked, on any path: every
\* page has one reference for each page table entry that maps it (parent, forked
\* child, half-failed mmap) and one from the driver as long as the driver owes a free.
\* That is so where the kernel clears the page array of memdev_mmap (InitOnAlloc).
PagesAccounted ==
  \A g \in Pages : /\ ref[g] = Cardinality(Entries(g)) + DriverRefs(g)
                   /\ DriverRefs(g) <= 1

\* README "Page allocations from kernel buddy allocator": each page of a region was
\* allocated for that region, so that it is in use and no other array points to it.
\* memdev_mmap hands the allocator an array it never cleared.
PagesFromAllocator ==
  \A r \in regions : \A i \in DOMAIN r.pages :
    ref[r.pages[i]] > 0 /\ DriverRefs(r.pages[i]) = 1

\* mmap is all or nothing: a process maps a page at an address exactly when a vma of
\* its own covers it, so a failed mmap leaves no entry behind and a successful one,
\* or what forks and partial unmaps make of it, has no hole.
VmasPopulated ==
  \A p \in Procs : pc[p] \in {"idle", "close"} =>
    \A a \in Addrs : pt[p][a] # NoPage <=> \E v \in vmas : v.mm = p /\ a \in Span(v)

\* Processes between the unlock of dev_lock and the increment of mapped_count.
Uncounted == {p \in Procs : pc[p] = "count"}

\* mapped_count is the number of listed regions, less those whose mmap has not
\* incremented it yet.  It may be -1 for a moment (a teardown by another thread frees
\* the region before its mmap has counted it), but the two never drift apart.
CountMatchesRegions == mapped_count = Cardinality(regions) - Cardinality(Uncounted)

\* README "Refuses if mappings still active": memdev_exit never gets to refuse, as
\* the module reference of every file lets it run only when nothing is left.
ExitFindsNothing ==
  mod \in {"exit_check", "exit_free"} =>
    mapped_count = 0 /\ file_list = {} /\ regions = {} /\ vmas = {}

\* An address space whose process went on, or ended, without it: another process holds
\* it or tore it down, under a pid that matches none of its regions.
Outlived(m) == life[m] = "left" \/ (life[m] = "dead" /\ Tgid[closer[m]] # Tgid[m])

\* The search of memdev_vma_close compares pid and address over the regions of all
\* files.  Run by the process itself, by its exit or by its execve, whatever was forked,
\* split or torn down before, it frees no region but the one of the vma being closed:
\* same address space, same file.  The exception is a pid that has Outlived an address
\* space before: its regions are still listed under that pid, and a close may take one
\* of them for its own.
CloseFreesOwnRegion ==
  [][\A p \in Procs : \A v \in pending[p] \ pending'[p] : \A r \in regions \ regions' :
        /\ pc[p] = "close" /\ Tgid[closer[p]] = Tgid[p]
        /\ \A m \in Procs : Tgid[m] = Tgid[p] => ~Outlived(m)
        => r.file = v.file /\ r.mm = v.mm /\ r.user_va = v.lo]_vars

\* The users of the module text: files from open to the last fput, and processes
\* inside mmap or with vma closes to run.
TextUsers == {f \in Files : fstate[f] # "none"} \cup {p \in Procs : pc[p] # "idle"}

\* README "Module refcount prevents unload while mapped": the module is never
\* removed under an open file, a mapping or a running handler.
Text == INSTANCE ModuleText WITH Users <- Files \cup Procs,
                                 loaded <- mod # "unloaded",
                                 users  <- TextUsers
TextOutlivesUsers == Text!Spec

\* Once every process is gone everything comes back: all pages are free, nothing is
\* counted or listed and the module can be removed, even for mappings whose close
\* found no region (forked, split, or torn down by another process).
AllReclaimed ==
  (\A p \in Procs : life[p] # "alive") ~>
    (modref = 0 /\ mapped_count = 0 /\ FreePages = Pages /\ regions = {} /\ file_list = {})
===============================================================================
