# A TLA+ model of yiqun-liu/snippet

The repository is a collection of small, mostly independent Linux programs and kernel
modules, each written to show one mechanism: reference counting of a module under a memory
mapping, a kernel semaphore, generic netlink multicast, sockets, POSIX semaphores,
configuration sources. This directory models those whose correctness depends on an order of
events, checks the models with TLC on small instances, and proves what they keep safe with TLAPS
for every size.

`PROJECT.json` is the index: components, runs, a mutant for every property, the source lines
each definition stands for, the hazards and the findings.

## 1. Inventory

### Modelled

| Component | State | Operations | Interactions | What is hard |
|---|---|---|---|---|
| `kernel-module/memdev` | registrations (`registered`), `file_list`, regions, `mapped_count`, module reference count, page references | `memdev_init`, `memdev_exit`, `memdev_open`, `memdev_release`, `memdev_mmap`, `memdev_vma_close` | called by the VFS and the memory manager for any number of address spaces; all share `dev_lock` and `mapped_count` | fork and partial munmap copy or split a vma without a call to the driver; execve keeps the pid and teardown by another process meets another pid, while regions are found by pid; a page array nobody cleared; allocation failures half-way; rmmod at any moment |
| `kernel-module/semaphore` | `g_demo_ctx` (`ready_count`, `holder_count`, `action`, `sem`), module reference count | `demo_semaphore_init`, one `do_race` thread per worker | threads wait for each other and for init by spinning on `action` | init that fails half-way; `action` has two writers and no lock; `module_put` from module text |
| `kernel-module/mm/page_table` | the misc device; per query the referenced address space and its `mmap_lock`, the table it reads next | `walker_init`, `walker_exit`, the `PAGE_TABLE_QUERY` ioctl | looks at the address space of any process, memdev mappings included | the target maps, forks, writes, unmaps, execs and exits while five tables are read one after the other; the query's `mmput` may be the last one |
| `kernel-module/kernel-tasks` | a static and a dynamic work item, module reference count | `demo_workqueue_init`, two work functions | queued by init, run by kernel workers | a module reference that travels with the item; `module_put` from module text; an exit that waits for nobody |
| `kernel-module/sysfs` | root device, `entity_dev`, `bin_attr_data.private`, the files | `demo_sysfs_init`, `demo_sysfs_exit`, the shows; `demo_reader` | readers call shows in the module through files | readers while files come and go; four calls of init that may fail, each with an undo of its own |
| `kernel-module/netlink-generic` | `g_event_id`, the family and its group; per listener `g_event_info`, `g_nl_sock`, loop counter | register, unregister, `demo_event_report`; `reporter`; `listener` with a signal handler | reporter → kernel handler → multicast → listeners | `parallel_ops`; reports during init; rmmod with handlers running; overrun buffers; a signal anywhere in `main` |
| `linux-c/socket/unix-socket` | three socket paths in the file system, the connection, the datagram queues | `server` and `client`, each a stream part and then a datagram part | two processes and a file system that outlives them | leftover paths, an unlink that fails, peers that die, datagrams to a path that is not there yet or that somebody else owns |
| `linux-c/socket/inet-socket` | packets in flight, heap blocks, what was received | `send_packet`, `recv_packet` / `recv_payload`, listen and connect wrappers | a TCP stream between two processes | short reads, strict alternation, error paths that free |
| `linux-c/semaphore` | a named semaphore, a shared memory object with two unnamed ones | the commands of `named-semaphore`, the test script, `unnamed-semaphore` with its child | commands of one run meet in the semaphore; runs meet in the names | overlapping runs, commands that fail after they had an effect, a shell that does not look at what its background commands return, two rounds in order, leftovers |
| `linux-c/config-demo` | `app_config_t` | `config_load` with its five sources | the command line is scanned twice, by two scanners | priority, the file that has to be known before the sources that may name it |

The properties that make each of them correct are listed run by run in section 4.

### Not modelled

| Component | Why |
|---|---|
| `kernel-module/mm/mm_show` | Prints constants once, from init. |
| `kernel-module/kunit` | One-line arithmetic that shows where tests live in a build. |
| `linux-c/*.c`, `linux-c/openssl`, `linux-c/pthread` | Single-threaded programs that call the system a few times and print the result. |
| parts of `linux-c/socket/inet-socket` | Address formatting, `print_payload`, and two functions nothing calls. |
| `c/` | Layout of structs and unions, stdio. |
| `build-scripts/`, `shell/`, `scripts/`, `ai/` | Build, logging and copy scripts; a text. |

## 2. Modules

```
ModuleText                    what the module loader promises every kernel demo
  ^ INSTANCE, refinement
Memdev                        the memory device     <- MCMemdev (TLC), MemdevProofs (TLAPS)
  ^ EXTENDS
MemdevWalker                  memdev and the page table walker in one kernel
                                                    <- MCMemdevWalker (TLC), MemdevWalkerProofs (TLAPS)
SemaphoreDemo                 the kernel semaphore
WorkQueueDemo                 the work queue demo (refines ModuleText)
SysfsDemo                     the sysfs demo and its reader
  ^ EXTENDS all three
KernelDemos                   one of the three is inserted (TLC)
                                                    <- KernelDemoProofs (TLAPS)
GenlDemo                      generic netlink       <- MCGenlDemo (TLC), GenlDemoProofs (TLAPS)
UnixSocket                    unix sockets          <- UnixSocketProofs (TLAPS)
InetDemo                      TCP packets           <- InetDemoProofs (TLAPS)
SemaphoreRuns                 what overlapping semaphore tests share
  ^ EXTENDS
NamedSemaphore, UnnamedSemaphore
  ^ EXTENDS
SemaphoreTests                make test: both of them, in overlapping runs
                                                    <- SemaphoreTestsProofs (TLAPS)
ConfigDemo                    config_load           <- MCConfigDemo (TLC), ConfigDemoProofs (TLAPS)
```

Conventions. An action has the name of the function it translates when it is the whole
function; a function that another actor can interleave with is cut at the points where the
other one can see or change something (a lock released, an atomic, a system call). A definition
marked `Mutant:` is a plausible bug, put next to the definition it replaces; nothing else uses
it. An actor that the repository does not contain (VFS, memory manager, module loader, netlink
core, TCP, the file system) is modelled from what the code relies on.

**Memdev.** `fstate[f]` is where the thread that opens file `f`, or the last `fput` of it, is in
`memdev_open` or `memdev_release`. `Procs` are address spaces, and `Tgid` gives the pid of the
process that has one: execve moves a process to another space with the same pid (`Exec`), and fork
may give a child the pid of a process that is gone. `pc[p]` is where the space is under its
`mmap_lock`: allocating, mapping, listing the region, counting it, undoing, zapping, or closing
vmas, which `closer[p]` does: the process itself, the process after its execve, or whoever dropped a
space last that somebody else held (`Leave`, `LastMmput`). `mod` and `registered` are insmod and
rmmod. A section under `dev_lock` is one step; the increment of `mapped_count` is not, since it
follows the unlock. The two references on the module, that of the fops owner and that of
`try_module_get` in open, are counted separately. Page table entries hold a reference on each
page, as with `vm_insert_pages`; a write to a private mapping replaces the page by a copy
(`WriteFault`). `memdev_vm_ops` has no `.open`, so `Fork` and the split of `Munmap` do not touch the
driver's state, exactly as in the code. The protection attribute is left out: nothing branches on
it.

`AllocPages` starts from what `kvmalloc_array` returns, `Slots`: NULL in every slot only if the
kernel clears what it allocates (`InitOnAlloc`), else anything an earlier user may have left.
`alloc_pages_bulk_array_node` fills the NULL slots and counts the others as done, so that memdev maps
pages that nobody allocated for it. Where the kernel does not clear, nothing can be said of
pages any more (run `memdev_pages`); what depends on it is checked with `InitOnAlloc = TRUE` and
proved under that assumption, the rest is proved without it.

**SemaphoreDemo.** One label per access of a racer to shared state; the two reads of `action`
(spin, check) are two steps. `Oops` is a racer whose next instruction has been freed.

**MemdevWalker.** `wpc[p]` is where the ioctl of process `p` is in `query_page_table`. A query holds
a reference on the target's address space from `get_mm_by_pid` to `mmput`, and its `mmap_lock` for
reading from the walk to the unlock. The walk reads pgd, p4d, pud, pmd and pte one after the other:
`walk_page_table` is one of these reads, `level[p]` the table it reads next, and the target runs on
in between. A space has `tables[p]` of the `Levels` tables below the pgd; mapping a page needs all,
and munmap frees those that hold no entry any more one by one, the lowest first (`FreeTable`). A
query that reads a freed table finds anything (`Entry`).

mmap, fork and the undoing of a failed mmap are locked out by a reader. munmap is not, as the
kernel has downgraded the lock when it zaps the range and frees tables, and the walk looks up no
vma that would tell; a query that took the lock during such a munmap is marked `raced`. The comment
at page_table_walker.c:126-127, "it is safe to call `pte_offset_kernel` here since we held
`mmap_read_lock`", is therefore false of a raced query, and `WalksAreStable` says so: everything it
promises of the tables excepts `raced`. A copy made on write, which mmap_lock does not keep out
either, is a second exception: the answer is then the page of a moment ago.

A process that leaves its address space, by exit or by execve, while a query holds it does not tear
it down: its mappings stay until the last `mmput`, which runs Memdev's teardown in the process
that asked. That is the case the driver's search by `current->pid` does not foresee; the regions
it misses stay listed under the old pid and are freed by `memdev_release`. Failing queries change
nothing and are no steps; a process issues one query at a time. Every action conjoins an action of
Memdev or leaves its variables alone, which is what `WalkerImplementsMemdev` states.

**WorkQueueDemo.** `wmod` is the next statement of init. `schedule_work` refuses an item that is
pending; that never happens, as a reference keeps the module from being loaded again, but the
branch is there. A failed `kmalloc`, which the code does not check, ends in `faulted`.

**SysfsDemo.** `dmod` is the next call of init or exit, and every one of them may fail where the code
has an error path. `device_add` makes the three files visible one by one; `device_del`, and a
failing `device_add`, takes them away one by one, makes every open one stale, and waits for the
shows (`Drained`). A reader opens, reads and closes one file after the other and may come at any
moment. `read_entity` ignores the result of the binary part, so a reader that misses the third
file reports a mismatch (`unmatched`) and not a failure. `name` is the name of the last device:
`lost` after a failed `device_add`, where `kfree` takes the place of `put_device`.

**KernelDemos.** The three demos share only the module loader, so that looking at one at a time is
enough: `demo` is chosen at the start, the others stay unloaded, and the states add up instead of
multiplying.

**GenlDemo.** A reporter runs the kernel's handler of its own message. The broadcast serves one
socket after another; sockets do not join or leave meanwhile (the netlink table lock). The
`free` and the `memset` of `clear_event_info` are two steps, since a signal can come in between.

**UnixSocket, InetDemo.** One system call per step. `UnixSocket` lets several servers and clients
meet on the fixed paths. An unlink that fails leaves the path and is remembered in `stuck`: the
process goes on to close its socket and returns an error. A write to a closed peer kills the
process: socket/README.md:48-49 says that SIGPIPE is ignored by default and the write fails with
EPIPE, after which server.c:86-90 would remove the path; but the default action of SIGPIPE is to
end the process, and neither program changes it. In `InetDemo` every write puts pieces on the
stream and a read takes any non-empty prefix of what is there, so a packet can be split at any
piece.

**NamedSemaphore, UnnamedSemaphore, SemaphoreTests.** `Script` is the sequence of commands of
`test-named-semaphore.sh`, two of them in the background; the unnamed program starts when the
script has passed, as the Makefile orders it. The look at `/dev/shm` in the last line decides the
status of the script (`Gone`): it fails if another run has created the name again by then. In the
runs of `Faulty` every library call may fail. A command may fail before it had its effect
(`CommandFails`) or after it, in the `sem_close` that ends it (`Close`); in the foreground that stops
the script where it is (`set -e`), in the background nobody notices, since the shell's `wait`
without arguments does not look. Parent and child of the unnamed program exit at any failing call
(`ParentFails`, `ChildFails`), and whatever they have made stays. A run outside `Faulty` can still be
made to fail by others: its `create` and `get_shm` find the name taken, its last line finds it
taken again.

**ConfigDemo.** One action per source, in the order of `config_load`; `apply_cli_args` is one
iteration of its loop, `optind` the word that `getopt_long` looks at next. The first scan of the
command line is `PrescanHits`. The two scanners are translated separately, as they do not agree.
The first one compares `"--config="` with a length of ten, the NUL included, so that only that very
word is a hit, and takes the value from behind it: `NameAt`, the next word of argv, or the first
string of the environment after the last one, which is where exec puts them. `--`, options attached to
their word (`-sADDR`) and clusters (`-dh`) are not among the words.

## 3. Findings

Each is a run that must be violated; the counterexample is the behaviour described.

* `memdev_pages` - `memdev_mmap` hands `alloc_pages_bulk_array_node` an array it never cleared
  (memdev.c:235-242). The allocator fills only NULL slots, so that on a kernel that does not clear
  what it allocates, the default, a region may consist of pages that are free or another region's;
  the README promises pages from the buddy allocator.
* `netlink_signal` - the listener's signal handler frees `g_event_info.component` and `g_nl_sock`
  again when it interrupts `main` between the `free` and the `memset`, or after `main` has put the
  socket.
* `unix_test` - `make test` of the unix sockets orders only the start of the client after the
  start of the server. The client's datagram may come before the server has bound the datagram
  path: the client fails and the server waits for good.
* `config_file` - a configuration file named by `CONFIG_DEMO_CONFIG`, by `--config FILE` as two
  words or by `--config=FILE` is never read; with `-c FILE` it is read, and reported as `(none)`.
  TLC stops at the shortest case, the environment alone. `--config=FILE` is the form that the usage
  shows and the first scan was written to find: it compares one character too many
  (cli_source.c:13).

Two more disagreements have no run of their own. The README of memdev (11-13) says mmap rejects
`MPOL_BIND` and `MPOL_INTERLEAVE`; the policy the driver looks at belongs to the vma under
construction, which has none yet, so nothing is ever rejected (`VmaPolicy`). And socket/README.md:48-49
on SIGPIPE, above.

Met while modelling and left as stated exceptions, since no text of the repository promises
otherwise: after a teardown by another process the regions it missed stay listed under a pid that
may come back, and a later close under that pid may free one of them in the place of its own;
`semaphore_demo` whose init fails is freed under the racers it has started; a listener that joins
its group after the reports waits for good (`run-test.sh` does not order them); the answer datagram
of the unix server goes to whoever owns the client path by then; both inet programs exit with
status 0 whatever happened, and a failing receive leaks its payload; a script that stops after
`create` leaves the semaphore behind, and one whose background wait has failed passes all the
same; a child of `unnamed-semaphore` that fails or is killed leaves its parent waiting.
`PROJECT.json` lists those that depend on an order of events as hazards at their lines.

## 4. What the runs show

State counts are distinct states. All runs take at most about two and a half minutes.

| Run | Instance | States | Properties |
|---|---|---|---|
| `memdev_safety` | 3 address spaces of 2 pids, 2 files, 2 pages, 2 addresses, private mappings | 1,385,623 | `PagesAccounted`: each page has exactly one reference per mapping entry and one from the driver while the driver owes a free. `VmasPopulated`: mmap is all or nothing. `CountMatchesRegions`: the counter and the list differ only by the mmaps between unlock and increment. `ExitFindsNothing`: `memdev_exit` never has to refuse. `CloseFreesOwnRegion`: the search by pid and address frees no other mapping's region when a process closes its own vmas, by munmap, exit or execve, unless a space of that pid was torn down by somebody else before. `TextOutlivesUsers`: Memdev implements `ModuleText`. |
| `memdev_reclaim` | memdev and the walker: 3 address spaces of 2 pids, one process that queries itself and the other, 1 file, 1 page, 1 table below the pgd | 273,416 | `WalksAreStable`: the address space lives as long as the query; while the query holds the lock it reads no freed table and its answer stays that of the address, but for a munmap that had downgraded the lock and for copies on write. `WalksEndInReclaim`: a space whose process left it under a query is torn down in the end, and once all processes are gone, every page, region and reference comes back (`AllReclaimed`). |
| `memdev_pages` | 3 address spaces, 1 file, 2 pages, arrays not cleared | | violated: `PagesFromAllocator` |
| `kernel_demos` | 4 racers, 2 work items, 2 sysfs readers; one demo at a time | 24,275 | Semaphore: `MutualExclusion`: the demo's own assertion never fires. `AbortedNeverRace`: no late write undoes an abort. `TextOutlivesReferences`. `EveryRacerStops`. Work queue: `TextOutlivesWork`: it implements `ModuleText` with the queued items as users. `WorkReclaimed`: every reference and the dynamic item come back, unless `kmalloc` fails. Sysfs: `ShowSeesEntity`: every show finds the filled entity. `NothingOfDeviceLeft`: every insmod ends online or with nothing left, every rmmod with nothing left. |
| `netlink_events` | 2 reporters, 2 listeners, buffers of one event, one load and unload | 169,492 | `LiveIdsUnique`, `NothingLost` (no event is lost on the way, and a natural exit has printed all), `AudienceReached` |
| `netlink_signal` | 1 reporter, 1 listener | | violated: `NoDoubleFree` |
| `unix_sockets` | 2 servers, 2 clients; failing accept, recv and unlink; one of each may be killed | 448,140 | `NoLeftoverPath`: a path that leads nowhere was left by a process that was killed, or whose unlink failed and that returns an error. `RequestsAreRead`: a client that goes on to the datagram part had its request read in the stream part. `AckedClientsWereServed`: a client that ends well had its datagram received by a server, until a client gives up waiting. `UnlinksOwnPath`, `ConnectionsEnd` |
| `unix_test` | 1 server, 1 client, nothing fails | | violated: `TestPasses` |
| `inet_exchange` | 1 server, 2 clients, any split, failing calls, kills | 46,966 | `PacketsIntact`, `NormalEndIsComplete` (served, and every block freed), `ExchangeEnds` |
| `posix_semaphores` | 2 overlapping runs of make test, one of them with failing calls and kills | 523,551 | `GetsShowPosts`, `RoundsInOrder` (and nothing is destroyed under the child), `NothingLeftBehind`: a name belongs to a run that is at work, or was left by one in which a call failed or a process was killed. `UnlinkedWhenConsumed`: the name goes when both background commands have ended, and a post is left only for one that failed. `TestsEnd` |
| `config_priority` | command lines of up to 4 words out of 10, 3 environments, 4 file systems | 1,228,908 | `PriorityOrder`: each setting comes from the first source that gives it. |
| `config_file` | command lines of up to 2 words | | violated: `FileOptionHonoured` |

### Bounds

* Memdev: of three address spaces two have the same pid, which is what execve and the reuse of a pid
  need, and two pids are what fork and teardown by another one need; two files are what the search
  over all files needs; two addresses let a mapping of two pages lose its head or its tail; two
  pages are one less than two processes can ask for, so that allocation fails half-way. A file,
  once released, can be opened again without bound. `Scope` leaves out states in which more than one
  of these is there at a time: the third space, the second file, a private page that was written.
  The reclaim run has one file because liveness excludes symmetry, and one process that queries, the
  one with a pid of its own: its target may be itself or the other, before or after its execve. One
  page and one address are enough for a munmap that frees the table under a query; one table below
  the pgd is enough for the walk to meet a freed one. The proofs cover every number of each.
* SemaphoreDemo: `NUM_WORKERS` is 6; with four there is a holder, a queue of two and one on its
  way. The proofs cover every number.
* WorkQueueDemo: its two items are all there are; insmod and rmmod may follow each other without bound.
* SysfsDemo: with two readers one may be in a show while the other opens or holds a stale file.
* GenlDemo: buffers of one event overflow at the second; each reporter sends one event, as the
  program does. The module is loaded once: a stale family or group id is met after the unload, one
  of an earlier load is not.
* UnixSocket: two of each are needed for a taken path and for a peer that is not one's own. One
  server and one client may be killed: what a killed process leaves meets one of each that goes on.
* SemaphoreTests: two runs overlap; one of them meets failing calls and kills, the other one shows
  what that does to a run in which nothing fails by itself.
* InetDemo: a record is one or two pieces, so that it can be cut; the server accepts one client,
  the second is the one that is never accepted.
* ConfigDemo: four words hold two options with arguments, or a file that is asked for twice. The
  words are one of each kind that the two scanners treat in a way of its own. The properties leave
  out command lines that the two scanners may cut differently (`WellFormed`): an option that lacks
  its word or has an option for it, and `--config=` alone. TLC explores them, and the types hold.

### Fairness

Weak fairness of code that is already running: kernel handlers, threads, started programs. None
of users, administrators, signals, kills and failing calls. For SemaphoreDemo this means a
preemptible kernel or more processors than spinning racers: the racers busy-wait, and processors
are not modelled. In MemdevWalker a query that was started is finished, and files of a process
that has ended are closed; in SysfsDemo insmod, rmmod and a started reader run on, and new readers are
owed nothing. The background commands of the semaphore script have fairness of their own, as
separate processes.

## 5. What is proved

By TLAPS, for every value of the constants that the `ASSUME` of the module allows; the same
assumptions are evaluated by TLC in every run.

**Memdev** (`MemdevProofs`; assumes finite disjoint sets of address spaces and files, any pids,
finitely many pages and addresses, `NoPage` and `AnonPage` not pages). `TypeOK`
and `TextOutlivesUsers` are not inductive. The inductive invariant `IInv` adds what they rest on:

1. `RefsCounted` - the module reference count is one for each file that exists and one more for
   each between the `try_module_get` of open and the `module_put` of release. Without the first
   the text could go away between `module_put` and the return of `memdev_release`.
2. `ReferencedAreOpen` - descriptors, vmas and running mmaps refer to open files only.
3. `HandlersPinFiles` - a running mmap handler has a vma, hence an open file.
4. `FilesNeedModule` - a file exists only while the module is live. Rmmod keeps it since it needs
   `modref = 0`, which by 1 means no file; open keeps it by `Registration`.

So `MemdevInvariant`: `Spec => []IInv`; `MemdevTypeOK` follows (the count, a cardinality, is never
negative); and `MemdevTextOutlivesUsers`: each step of `Memdev` maps to a step or a stutter of
`ModuleText`, whose `users` are the files that exist and the processes in a handler.

Each step of the preservation proof rests on a frame lemma (`OpenFrame`, `FileFrame`,
`HandlerFrame`, `UserFrame`) that says which part of the state the other actors keep.

**The memory of Memdev** (`MemdevProofs`; the same assumptions). What happens to pages,
regions and `mapped_count` needs a second invariant, `MemInv`, on top of `IInv`:

1. `AddressSpaces` - the vmas of a space, those it is building or closing included, are disjoint,
   and its page table is filled exactly where they say. `MemdevVmasPopulated` follows.
2. The accounting itself, `PagesAccounted` and `CountMatchesRegions`, where `InitOnAlloc` holds:
   the pages of an array are then fresh from the allocator, mapped nowhere and in no other array.
   `MemdevPagesAccounted` follows: whatever fails, forks, unmaps, execs or is released in between, no
   page is freed twice, freed while mapped, or leaked. Without `InitOnAlloc` it is false.
3. `ListsOpenFiles` - `file_list` holds the open files and only they have regions.
   `MemdevExitFindsNothing` follows, since rmmod needs a reference count of zero, hence no file,
   hence no region.
4. `Tasks` - of the spaces with one pid at most one has a process, and who closes the mappings of
   which. `RegionsHaveVmas` - unless another process has torn down, or still holds, a space of its pid
   (`OwnPid`), each region of a process starts where one of its vmas starts, and no other region
   of that pid starts there. `MemdevCloseFreesOwnRegion` follows: a region found by pid and
   address is the region of the mapping that is closed. Execve keeps this, since it closes the
   mappings of the old space, under the same pid, before the process can map anything in the new one.

The theorems about pages and counts (`MemdevPagesAccounted`, `MemdevCountMatchesRegions`,
`MemdevExitFindsNothing`) assume `InitOnAlloc`; types, `VmasPopulated`, `CloseFreesOwnRegion` and
`TextOutlivesUsers` are proved for either kernel.

**MemdevWalker** (`MemdevWalkerProofs`; assumes besides that the walkers are processes, and any
number of tables). `WalkerImplementsMemdev` shows that every step of the composition is a step or a
stutter of Memdev, so that what is proved there holds here: `WalkerKeepsMemdevSafe` and, with
`InitOnAlloc`, `WalkerKeepsPagesCounted` say so of every safety property of Memdev, teardowns by a
query's `mmput` included. `WalkerInvariant` is inductive: Memdev's two invariants with `QueryOK` (whoever
reads under `mmap_lock` is beside no handler but the rest of a munmap, and is `raced` if that was
there first), `FullTables` (a space that maps a page has all its tables) and `FreedTables` (a munmap
that frees tables has nothing mapped any more). `WalkerWalksAreStable` follows.

**The three kernel demos** (`KernelDemoProofs`).

* Semaphore (at least one racer). `SemaphoreInv` is `TypeOK`, `Started` (racers start in order),
  `Lock` (the semaphore is free exactly when nobody holds it, and `holder_count` counts the
  holder), `Waiters`, `Phase` (who can be where for each value of `action`), `ReadyCounted` and
  `RefsCounted` (two counting arguments). The abort needs `ReadyCounted`: the racer that completes
  the rendezvous knows that all were started, so init cannot have failed. Theorems:
  `SemaphoreTypeOK`, `SemaphoreMutualExclusion`, `SemaphoreAbortedNeverRace`,
  `SemaphoreTextOutlivesReferences`.
* Work queue (no constants). `WorkInv`: the module reference count is one for each item from the
  `try_module_get` to the `module_put`, and one for insmod while it runs init.
  `WorkTextOutlivesWork`: WorkQueueDemo implements ModuleText, over any number of loads. Rmmod
  needs a count of zero, hence no item that is queued or runs.
* Sysfs (any set of readers). `DeviceInv`: shows run only while the device is online
  (`FilesOnline`), when the entity is filled (`EntityFilled`); a file that is open and not stale is
  visible (`LiveNodes`), so that no show starts after the last file is gone, and the entity is
  freed only when no file is visible and the shows have ended. `DeviceShowSeesEntity`.
* `KernelDemosImplementEach`: the specification of the run, in which one demo is inserted, implements
  the specification of each. So what is proved of each holds of what TLC checks
  (`KernelDemosTypeOK`, `KernelDemosSafe`).

**GenlDemo** (`GenlDemoProofs`; finitely many reporters and listeners, buffers of at least one event,
any number of loads). `GenlInv` has four parts:

1. `Types`, with the events in buffers and in `info` typed too.
2. `Ids` - a handler runs only while the family is registered, what it numbered in this load lies
   below `g_event_id`, and nothing was numbered in this load before init sets the first id. It
   makes `LiveIdsUnique` inductive: an unregister waits for the handlers, so an id of an earlier
   load is never taken for one of this.
3. `Traffic` - every notification that a listener printed, holds or has buffered is that of a
   reporter whose broadcast has already served it (`Served`), no two places hold the same one
   (`Apart`), and what was taken off a broadcast arrived (`Reached`), unless the buffer ran over.
4. `Counts` - at each label of the listener's loop, `count` is the number of events printed or one
   more.

`NothingLost` follows from 3 and 4.

**UnixSocket** (`UnixSocketProofs`; any disjoint sets of servers and clients, neither of which
contains the two marks of an unused path, `"absent"` and `"stale"`). Three arguments:

* `PathInv` - types, which labels belong to which part (`Programs`), and `Owners`: a process is
  bound to its path exactly from its bind to its unlink, and longer only if the unlink fails. Bind
  refuses a path that exists, and a failed bind jumps over the unlink; that is all that
  `UnixUnlinksOwnPath` and `UnixNoLeftoverPath` need.
* `Connections` - a client that read an answer was accepted, and its server wrote that answer after
  it had read the request (`heard`), as the last thing it does with it. `UnixRequestsAreRead` follows.
* `AckInv` adds `Answers`. In the datagram part there is at most one exchange, in one of three states
  (`Exchange`: `Quiet`, `Asked`, `Served`), because the client that is bound to `client_dgram` keeps
  the other clients from sending until it has its answer. A client that is killed, or whose unlink
  fails, leaves the path taken for good, and nothing is answered any more. `UnixAckedClientsWereServed`
  follows, up to the first client that gives up (`gaveup`): a client whose `recvfrom` fails removes
  its path while its answer is under way, and the next client that binds the path takes that
  answer for its own. The server answers a path and not the sender (server.c:164), so that this is
  what the code does.

**SemaphoreTests** (`SemaphoreTestsProofs`; any set of runs, `"none"` not one of them, any of them
faulty). For the script: `NameOwner`, a run has the name from its create to its unlink, since
`O_EXCL` keeps the others out and a run that is stopped never gives it back; so every command of a run
meets the semaphore of that run. A command that failed may have had its effect: the script then
stands at its line or, for the semaphore, at the next (`Reached`), and a background wait took a post
or not (`Takes`); the value is what was posted up to there less what was taken (`Balance`, in
`RunOK`). `StoppedOK`: a run without faults of its own stops at create or at the last line only. For
the program: `Stage`, the number of rounds that are over fixes the values of both semaphores and
where parent and child can be; `ShmOwner` is `NameOwner` for the shared memory object. Theorems:
`SemaphoreTestsGetsShowPosts`, `SemaphoreTestsUnlinkedWhenConsumed`, `SemaphoreTestsRoundsInOrder`,
`SemaphoreTestsNothingLeftBehind`, `SemaphoreTestsTypeOK`.

**InetDemo** (`InetDemoProofs`; any set of clients, neither the server nor `Nobody` one of them).
Everything that a process writes in its life is one fixed sequence of pieces (`Item`). How many of
them it has written (`Sent`), and how many its peer has taken (`Taken`), follows from where the two
are in their programs. `InetInv` says

1. `UpFlow`, `DownFlow` - what is on a stream is the stretch between the two. A write that is cut
   short and a read that returns too little end their process, so a record that is read begins
   where a record that was written begins, and the length found there is that of the next payload.
2. `Received` - the payloads a process has received are the first of its peer, as many as it has
   counted. With 1 that gives `InetPacketsIntact`.
3. in `DownFlow` - nothing of an answer is at a client or on its way before the server has both of
   its packets, and the whole answer only once the server has ended normally. With `Blocks` (two
   blocks exactly while a payload is awaited) that gives `InetNormalEndIsComplete`.
4. `Connections`, `Fresh` - the server has a client exactly while it runs, and whoever does not run
   yet has done nothing: the streams of a client that is accepted were written for this server.

`StopKeeps` treats every failure and kill at once: a step that ends a process may leave the
beginning of a record on its stream, and nobody counts on what comes after it.

**ConfigDemo** (`ConfigDemoProofs`; any words, environments and file systems, no bound on the length
of the command line; ports are integers, `"none"` is the name of no file). `ConfigInv` follows the
calls of `config_load`:

1. `FileRead` - before `apply_file_config` the name is the one the first scan left (`AskedFor`);
   after it, what was read is that file, or a well-known one, or none (`LookedFor`). For well-formed
   command lines the hits of the first scan are the `-c`, which gives `ConfigAskedFileIsRead`: the file
   that is read is the last one that `-c FILE` asks for.
2. `Applied` - before each call a setting is among the values that the sources applied so far give
   it (`BuiltIn`, `WithFile`, `WithEnv`); in the loop over the options also the first
   `optind - 1` words (`WithWords`). `OptionScanned`, `FlagScanned` and `NothingScanned` say what
   one more word adds. With `Parsing`, that the loop ends behind the last word,
   `ConfigPriorityOrder` follows.

That the last of several options exists at all (`HasMax`, behind every `Max`) is an induction; it is
done with the library's theorem on minimal elements of well-founded orders, which is about
sets.

Every one of these invariants was first checked with TLC as an invariant of the module's run.

**Only model-checked.** Liveness (`WalksEndInReclaim`, `EveryRacerStops`, `WorkReclaimed`,
`NothingOfDeviceLeft`, `AudienceReached`, `ConnectionsEnd`, `ExchangeEnds`, `TestsEnd`): out of reach
of the prover. Every safety property that a passing run checks is proved.

## 6. Plan

Done, in this order: Memdev and its proof, SemaphoreDemo and its proof, GenlDemo, UnixSocket,
InetDemo, the POSIX semaphores, ConfigDemo; then the page table walker on top of Memdev, the work
queue demo and the sysfs demo, each with its proof. What is left of the repository keeps no state
that anything else could disturb.

Next, to model: a second load in GenlDemo, if the state space allows.
