-------------------------- MODULE MemdevWalkerProofs --------------------------
(***************************************************************************)
(* Proofs about MemdevWalker: with the page table walker in the kernel     *)
(* every step is still a step of Memdev, so that what MemdevProofs shows   *)
(* of the memory device carries over, and the walks, read one table after  *)
(* the other, are stable but for the munmap that downgraded the lock.      *)
(*                                                                         *)
(* The argument: whoever reads under mmap_lock is beside no handler but    *)
(* the rest of a munmap, and only if it was there first (QueryOK); a space *)
(* that maps a page has all its tables (FullTables); a munmap that frees   *)
(* tables has nothing mapped any more (FreedTables).                       *)
(***************************************************************************)
EXTENDS MemdevWalker, MemdevProofs

\* Stages that hold mmap_lock for reading.
Reading == {"walk", "walked"}

\* What one query relies on.
QueryOK(p) ==
  /\ wpc[p] \in Holding => life[target[p]] \in {"alive", "left"}
  /\ wpc[p] \in Reading => /\ pc[target[p]] \in Readable
                           /\ answer[p][1] \in Addrs
                           /\ raced[p] \/ pc[target[p]] = "idle"
  /\ wpc[p] = "walk" => raced[p] \/ level[p] <= tables[target[p]]
  /\ wpc[p] = "walked" =>
       \/ pt[target[p]][answer[p][1]] = answer[p][2]
       \/ pt[target[p]][answer[p][1]] = AnonPage /\ answer[p][2] \in Pages
       \/ raced[p] /\ \/ pt[target[p]][answer[p][1]] = NoPage
                      \/ tables[target[p]] < Levels

\* Tables hang together down to every entry.
FullTables == \A p \in Procs : Mapped(p) # {} => tables[p] = Levels

\* Tables are freed only when they hold no entry, by a munmap.
FreedTables == \A p \in freeing : pc[p] = "close" /\ Mapped(p) = {}

WalkInv == /\ IInv /\ MemInv /\ WalkerTypeOK
           /\ \A p \in Procs : QueryOK(p)
           /\ FullTables /\ FreedTables

-------------------------------------------------------------------------------
(* Refinement.                                                             *)

\* Every step of the two modules is a step of Memdev or leaves its variables alone.
LEMMA StepsAreMemdevSteps ==
  ASSUME WalkerTypeOK, [WalkerNext]_wvars
  PROVE  [Next]_vars
<1>1. target \in [Procs -> Procs]
  BY DEF WalkerTypeOK
<1>2. ASSUME NEW p \in Procs, LiveStep(p) PROVE [Next]_vars
  <2>1. CASE \E f \in Files : ChrdevOpen(p, f) \/ Close(p, f)
    BY <2>1 DEF UserStep, Next
  <2>2. CASE \E a \in Addrs : WriteFault(p, a)
    BY <2>2 DEF UserStep, Next
  <2>3. CASE Writer(p)
    BY <2>3 DEF Writer, UserStep, Next
  <2>4. CASE ExitMm(p)
    BY <2>4 DEF ExitMm, UserStep, Next
  <2>5. CASE ExecMm(p)
    BY <2>5 DEF ExecMm, UserStep, Next
  <2>6. CASE \E t \in Procs : get_mm_by_pid(p, t)
    BY <2>6 DEF get_mm_by_pid
  <2> QED BY <1>2, <2>1, <2>2, <2>3, <2>4, <2>5, <2>6 DEF LiveStep
<1>3. ASSUME NEW p \in Procs, WalkStep(p) PROVE [Next]_vars
  <2>1. CASE mmput(p)
    <3>1. LastMmput(target[p], p) \/ UNCHANGED vars
      BY <2>1 DEF mmput
    <3> QED BY <1>1, <3>1 DEF UserStep, Next
  <2>2. CASE mmap_read_lock(p) \/ walk_page_table(p) \/ mmap_read_unlock(p) \/ TornDown(p)
    BY <2>2 DEF mmap_read_lock, walk_page_table, mmap_read_unlock, TornDown
  <2> QED BY <1>3, <2>1, <2>2 DEF WalkStep
<1>4. ASSUME NEW p \in Procs, MmStep(p) PROVE [Next]_vars
  BY <1>4 DEF MmStep, Handler, FreeTable, TablesFreed, Next
<1>5. CASE walker_init \/ walker_exit
  BY <1>5 DEF walker_init, walker_exit
<1>6. CASE ModuleStep \/ \E f \in Files : FileStep(f)
  BY <1>6 DEF Next
<1>7. CASE UNCHANGED wvars
  BY <1>7 DEF wvars
<1> QED BY <1>2, <1>3, <1>4, <1>5, <1>6, <1>7 DEF WalkerNext

-------------------------------------------------------------------------------
(* What a step does to an address space that a query reads.                *)

\* No step beside a query takes an entry or a table of t away, but for the one munmap
\* that is still running; a write replaces a page by a private copy.
Undisturbed(t) ==
  /\ pc[t] = "idle" => pc'[t] = "idle" /\ tables'[t] = tables[t]
  /\ pc'[t] \in Readable
  /\ tables[t] < Levels => tables'[t] < Levels
  /\ \A a \in Addrs : \/ pt'[t][a] = pt[t][a]
                      \/ pt[t][a] \in Pages /\ pt'[t][a] = AnonPage
                      \/ pc[t] # "idle" /\ pt'[t][a] = NoPage

\* A query that goes on where it was stays in order.
LEMMA QueryFrame ==
  ASSUME WalkerTypeOK, Types, NEW p \in Procs, QueryOK(p),
         wpc'[p] \in Holding =>
           /\ wpc'[p] = wpc[p] /\ target'[p] = target[p] /\ answer'[p] = answer[p]
           /\ level'[p] = level[p] /\ raced'[p] = raced[p]
           /\ life'[target[p]] \in {"alive", "left"}
           /\ wpc[p] \in Reading => Undisturbed(target[p])
  PROVE  QueryOK(p)'
<1>1. Reading \subseteq Holding /\ "walk" \in Reading /\ "walked" \in Reading
  BY DEF Reading, Holding
<1>2. CASE wpc'[p] \notin Holding
  BY <1>1, <1>2 DEF QueryOK
<1>3. CASE wpc'[p] \in Holding
  <2> DEFINE t == target[p]
             now == pt[t][answer[p][1]]
             next == pt'[t][answer[p][1]]
  <2>1. /\ wpc'[p] = wpc[p] /\ target'[p] = t /\ answer'[p] = answer[p]
        /\ level'[p] = level[p] /\ raced'[p] = raced[p]
        /\ life'[t] \in {"alive", "left"} /\ t \in Procs
    BY <1>3 DEF WalkerTypeOK
  <2>2. CASE wpc[p] \notin Reading
    BY <1>1, <2>1, <2>2 DEF QueryOK
  <2>3. CASE wpc[p] \in Reading
    <3>1. /\ Undisturbed(t) /\ answer[p][1] \in Addrs
          /\ raced[p] \/ pc[t] = "idle"
      BY <1>3, <2>3 DEF QueryOK
    <3>2. pc'[t] \in Readable /\ (raced[p] \/ pc'[t] = "idle")
      BY <3>1 DEF Undisturbed
    <3>3. /\ tables[t] < Levels => tables'[t] < Levels
          /\ raced[p] \/ tables'[t] = tables[t]
      BY <3>1 DEF Undisturbed
    <3>4. \/ next = now
          \/ now \in Pages /\ next = AnonPage
          \/ raced[p] /\ next = NoPage
      BY <3>1 DEF Undisturbed
    <3>5. wpc[p] = "walk" => raced[p] \/ level[p] <= tables'[t]
      BY <3>3 DEF QueryOK
    <3>6. wpc[p] = "walked" => \/ now = answer[p][2]
                               \/ now = AnonPage /\ answer[p][2] \in Pages
                               \/ raced[p] /\ (now = NoPage \/ tables[t] < Levels)
      BY DEF QueryOK
    <3>7. NoPage \notin Pages /\ AnonPage \notin Pages
      BY MemdevAssumption DEF MemdevAssumption
    <3> HIDE DEF now, next
    <3>8. wpc[p] = "walked" => \/ next = answer[p][2]
                               \/ next = AnonPage /\ answer[p][2] \in Pages
                               \/ raced[p] /\ (next = NoPage \/ tables'[t] < Levels)
      BY <3>3, <3>4, <3>6, <3>7
    <3> USE DEF next
    <3> QED BY <1>3, <2>1, <3>1, <3>2, <3>5, <3>8 DEF QueryOK
  <2> QED BY <2>2, <2>3
<1> QED BY <1>2, <1>3

\* Nothing happens to t but what its neighbours may do.
LEMMA UndisturbedFrame ==
  ASSUME NEW t \in Procs, pc[t] \in Readable, pc'[t] = pc[t], pt'[t] = pt[t],
         tables'[t] = tables[t]
  PROVE  Undisturbed(t)
BY DEF Undisturbed

\* TablesFollow leaves the tables of a space alone that was there and still is.
LEMMA TablesStay ==
  ASSUME WalkerTypeOK, TablesFollow, NEW t \in Procs, life[t] # "unborn", life'[t] # "dead"
  PROVE  tables'[t] = tables[t]
BY DEF TablesFollow, WalkerTypeOK

LEMMA TablesFollowTypes ==
  ASSUME WalkerTypeOK, TablesFollow
  PROVE  tables' \in [Procs -> 0 .. Levels]
<1>1. 0 \in 0 .. Levels /\ Levels \in 0 .. Levels
  BY WalkersAssumption DEF WalkersAssumption
<1> QED BY <1>1 DEF TablesFollow, WalkerTypeOK

\* insmod, rmmod, open and release touch no address space.
LEMMA DriverLeavesSpaces ==
  ASSUME ModuleStep \/ (\E f \in Files : FileStep(f))
  PROVE  UNCHANGED mmVars
BY DEF ModuleStep, Insmod, memdev_init, InitFails, Unregister, Rmmod, ExitCheck, ExitFree,
       memdevUnchanged, FileStep, memdev_open_get, memdev_open_link, OpenFailed,
       memdev_release, memdev_release_put, Fput, ExitFiles, CloseFd, fsUnchanged

\* The handler of p and the tables it needs: a reader of p sees a munmap at most.
LEMMA HandlerReaders ==
  ASSUME Types, AddressSpaces, WalkerTypeOK, NEW p \in Procs, Handler(p),
         NEW t \in Procs, pc[t] \in Readable
  PROVE  Undisturbed(t)
<1>1. HandlerStep(p)
  BY DEF Handler
<1>2. PICK n \in 0 .. Levels : /\ pc[p] = "map" \/ n <= tables[p]
                               /\ pc[p] = "undo" \/ n >= tables[p]
                               /\ tables' = [tables EXCEPT ![p] = n]
  BY DEF Handler
<1>3. CASE t # p
  BY <1>1, <1>2, <1>3, HandlerOthers, UndisturbedFrame DEF WalkerTypeOK
<1>4. CASE t = p
  <2>1. pc[p] \in {"zap", "close"} /\ pc[p] # "idle"
    BY <1>1, <1>4 DEF Readable, HandlerStep, AllocPages, map_pages_to_vma, RegionFails,
                      ListRegion, CountRegion, err_free_pages, MmapUndo, ZapRange,
                      memdev_vma_close
  <2>2. tables'[p] = tables[p]
    <3>1. tables[p] \in 0 .. Levels /\ tables'[p] = n
      BY <1>2 DEF WalkerTypeOK
    <3>2. n <= tables[p] /\ n >= tables[p]
      BY <1>2, <2>1, <3>1
    <3> QED BY <3>1, <3>2, WalkersAssumption DEF WalkersAssumption
  <2>3. ZapRange(p) \/ memdev_vma_close(p)
    BY <1>1, <2>1 DEF HandlerStep, AllocPages, map_pages_to_vma, RegionFails, ListRegion,
                      CountRegion, err_free_pages, MmapUndo
  <2>4. pc'[p] \in Readable
    BY <2>3 DEF ZapRange, memdev_vma_close, Readable, Types
  <2>5. \A a \in Addrs : pt'[p][a] \in {pt[p][a], NoPage}
    BY <2>3 DEF ZapRange, memdev_vma_close, Zap, Types
  <2> QED BY <1>4, <2>1, <2>2, <2>4, <2>5 DEF Undisturbed
<1> QED BY <1>3, <1>4

\* What a space has that is neither born nor torn down by a step of some process.
LEMMA SpaceKept ==
  ASSUME WalkerTypeOK, TablesFollow, NEW t \in Procs, life[t] # "unborn", life'[t] # "dead",
         pc[t] \in Readable, pc'[t] = pc[t], pt'[t] = pt[t]
  PROVE  Undisturbed(t)
BY TablesStay, UndisturbedFrame

\* What a process does beside a handler leaves the handlers of others alone, and maps
\* nothing in a space that was born before.
LEMMA UserMapped ==
  ASSUME Types, AddressSpaces, NEW p \in Procs, UserStep(p), NEW o \in Procs
  PROVE  /\ pc[o] # "idle" => pc'[o] = pc[o]
         /\ life[o] # "unborn" => Mapped(o)' \subseteq Mapped(o)
<1>1. ASSUME NEW f \in Files, ChrdevOpen(p, f) \/ Close(p, f)
      PROVE  pc' = pc /\ pt' = pt
  BY <1>1 DEF ChrdevOpen, Close, CloseFd, fsUnchanged, mmVars
<1>2. ASSUME \/ \E f \in Files, lo \in Addrs, len \in 1 .. MaxLen : MmapStart(p, f, lo, len)
             \/ \E lo, hi \in Addrs : Munmap(p, lo, hi)
      PROVE  pt' = pt /\ pc[p] = "idle" /\ \E s \in {"alloc", "zap"} : pc' = [pc EXCEPT ![p] = s]
  BY <1>2 DEF MmapStart, Munmap
<1>3. ASSUME NEW a \in Addrs, WriteFault(p, a) PROVE pc' = pc /\ Mapped(o)' = Mapped(o)
  BY <1>3, FaultMapped DEF WriteFault
<1>4. ASSUME NEW c \in Procs, TearDown(p, c), pc[p] = "idle"
      PROVE  (pc[o] # "idle" => pc'[o] = pc[o]) /\ Mapped(o)' \subseteq Mapped(o)
  <2>1. CASE o = p
    <3>1. Mapped(p)' = Mapped(p) \ Addrs
      BY <1>4, ZapMapped DEF TearDown
    <3> QED BY <1>4, <2>1, <3>1
  <2>2. CASE o # p
    <3>1. pc'[o] = pc[o] /\ pt'[o] = pt[o]
      BY <1>4, <2>2, TearDownOthers
    <3> QED BY <3>1 DEF Mapped
  <2> QED BY <2>1, <2>2
<1>5. CASE Exit(p)
  BY <1>4, <1>5 DEF Exit, Settled
<1>6. CASE Leave(p)
  BY <1>6 DEF Leave, Mapped
<1>7. ASSUME NEW c \in Procs, Exec(p, c)
      PROVE  (pc[o] # "idle" => pc'[o] = pc[o]) /\ Mapped(o)' \subseteq Mapped(o)
  <2>1. pc[p] = "idle" /\ (TearDown(p, c) \/ (pc' = pc /\ pt' = pt))
    BY <1>7 DEF Exec, Settled
  <2> QED BY <1>4, <2>1 DEF Mapped
<1>8. ASSUME NEW c \in Procs, LastMmput(p, c)
      PROVE  (pc[o] # "idle" => pc'[o] = pc[o]) /\ Mapped(o)' \subseteq Mapped(o)
  <2>1. life[p] = "left" /\ TearDown(p, c)
    BY <1>8 DEF LastMmput
  <2>2. pc[p] = "idle"
    BY <2>1 DEF AddressSpaces, AddressSpace, HandlerLife
  <2> QED BY <1>4, <2>1, <2>2
<1>9. ASSUME NEW c \in Procs, Fork(p, c)
      PROVE  pc' = pc /\ (life[o] # "unborn" => pt'[o] = pt[o])
  BY <1>9 DEF Fork, Types
<1>10. CASE pc' = pc /\ pt' = pt
  BY <1>10 DEF Mapped
<1>11. CASE /\ pt' = pt /\ pc[p] = "idle"
            /\ \E s \in {"alloc", "zap"} : pc' = [pc EXCEPT ![p] = s]
  <2>1. pc[o] # "idle" => pc'[o] = pc[o]
    BY <1>11 DEF Types
  <2> QED BY <1>11, <2>1 DEF Mapped
<1>12. CASE pc' = pc /\ Mapped(o)' = Mapped(o)
  BY <1>12
<1>13. CASE pc' = pc /\ (life[o] # "unborn" => pt'[o] = pt[o])
  BY <1>13 DEF Mapped
<1> QED BY <1>1, <1>2, <1>3, <1>5, <1>6, <1>7, <1>8, <1>9, <1>10, <1>11, <1>12, <1>13
        DEF UserStep

\* The tables stay complete, and those that munmap frees stay empty.
LEMMA UserTables ==
  ASSUME Types, AddressSpaces, WalkerTypeOK, FullTables, FreedTables, NEW p \in Procs,
         UserStep(p), TablesFollow, freeing' = freeing
  PROVE  FullTables' /\ FreedTables'
<1>1. ASSUME NEW o \in Procs, Mapped(o)' # {} PROVE tables'[o] = Levels
  <2>1. CASE life[o] = "unborn" \/ life'[o] = "dead"
    BY <1>1, <2>1 DEF TablesFollow, Mapped
  <2>2. CASE life[o] # "unborn" /\ life'[o] # "dead"
    <3>1. tables'[o] = tables[o] /\ Mapped(o) # {}
      BY <1>1, <2>2, UserMapped, TablesStay
    <3> QED BY <3>1 DEF FullTables
  <2> QED BY <2>1, <2>2
<1>2. ASSUME NEW o \in freeing PROVE pc'[o] = "close" /\ Mapped(o)' = {}
  <2>1. o \in Procs /\ pc[o] = "close" /\ Mapped(o) = {}
    BY <1>2 DEF FreedTables, WalkerTypeOK
  <2>2. life[o] # "unborn"
    BY <2>1 DEF AddressSpaces, AddressSpace, UnbornEmpty
  <2> QED BY <2>1, <2>2, UserMapped
<1> QED BY <1>1, <1>2 DEF FullTables, FreedTables

\* What the threads of p do while q holds the space of t.
LEMMA LiveReaders ==
  ASSUME Types, AddressSpaces, WalkerTypeOK, NEW p \in Procs,
         \/ \E f \in Files : ChrdevOpen(p, f) \/ Close(p, f)
         \/ \E a \in Addrs : WriteFault(p, a)
         \/ Writer(p)
         \/ ExitMm(p)
         \/ ExecMm(p),
         TablesFollow, NEW q \in Procs, QueryOK(q), wpc[q] \in Holding
  PROVE  /\ life'[target[q]] \in {"alive", "left"}
         /\ wpc[q] \in Reading => Undisturbed(target[q])
<1> DEFINE t == target[q]
<1>1. /\ t \in Procs /\ life[t] \in {"alive", "left"} /\ q \in Holders(t)
      /\ wpc[q] \in Reading => pc[t] \in Readable /\ ReadLocked(t)
  BY DEF QueryOK, WalkerTypeOK, Holders, ReadLocked, Reading
<1> HIDE DEF t
<1> SUFFICES /\ life'[t] \in {"alive", "left"}
             /\ wpc[q] \in Reading => Undisturbed(t)
  BY DEF t
<1>2. ASSUME life'[t] \in {"alive", "left"}, wpc[q] \in Reading => pc'[t] = pc[t] /\ pt'[t] = pt[t]
      PROVE  wpc[q] \in Reading => Undisturbed(t)
  BY <1>1, <1>2, SpaceKept
<1>3. CASE \E f \in Files : ChrdevOpen(p, f) \/ Close(p, f)
  <2>1. UNCHANGED <<life, pc, pt>>
    BY <1>3 DEF ChrdevOpen, Close, CloseFd, fsUnchanged, mmVars
  <2> QED BY <1>1, <1>2, <2>1
<1>4. ASSUME NEW a \in Addrs, WriteFault(p, a)
      PROVE  /\ life'[t] \in {"alive", "left"}
             /\ wpc[q] \in Reading => Undisturbed(t)
  <2>1. /\ UNCHANGED <<life, pc>> /\ pt[p][a] \in Pages
        /\ pt' = [pt EXCEPT ![p][a] = AnonPage]
    BY <1>4 DEF WriteFault, mmUnchanged
  <2>2. \A b \in Addrs : \/ pt'[t][b] = pt[t][b]
                         \/ pt[t][b] \in Pages /\ pt'[t][b] = AnonPage
    BY <1>1, <2>1 DEF Types
  <2>3. tables'[t] = tables[t]
    BY <1>1, <2>1, TablesStay
  <2> QED BY <1>1, <2>1, <2>2, <2>3 DEF Undisturbed
<1>5. CASE Writer(p)
  <2>1. wpc[q] \in Reading => t # p
    BY <1>1, <1>5 DEF Writer
  <2>2. CASE \/ \E f \in Files, lo \in Addrs, len \in 1 .. MaxLen : MmapStart(p, f, lo, len)
             \/ \E lo, hi \in Addrs : Munmap(p, lo, hi)
    <3>1. life' = life /\ pt' = pt /\ \A o \in Procs \ {p} : pc'[o] = pc[o]
      BY <2>2 DEF MmapStart, Munmap, mmUnchanged, Types
    <3> QED BY <1>1, <1>2, <2>1, <3>1
  <2>3. ASSUME NEW c \in Procs, Fork(p, c)
        PROVE  life'[t] = life[t] /\ pc'[t] = pc[t] /\ pt'[t] = pt[t]
    BY <1>1, <2>3 DEF Fork, Types
  <2> QED BY <1>1, <1>2, <1>5, <2>2, <2>3 DEF Writer
<1>6. ASSUME LastHolder(p, p), wpc[p] = "none" PROVE t # p
  BY <1>1, <1>6 DEF LastHolder, Holders, Holding
<1>7. CASE ExitMm(p)
  <2>1. CASE LastHolder(p, p)
    <3>1. t # p /\ Exit(p)
      BY <1>6, <1>7, <2>1 DEF ExitMm
    <3>2. life'[t] = life[t] /\ pc'[t] = pc[t] /\ pt'[t] = pt[t]
      BY <1>1, <3>1, TearDownOthers DEF Exit, Types
    <3> QED BY <1>1, <1>2, <3>2
  <2>2. CASE ~LastHolder(p, p)
    <3>1. Leave(p)
      BY <1>7, <2>2 DEF ExitMm
    <3>2. life'[t] \in {"alive", "left"} /\ pc' = pc /\ pt' = pt
      BY <1>1, <3>1 DEF Leave, Types
    <3> QED BY <1>1, <1>2, <3>2
  <2> QED BY <2>1, <2>2
<1>8. CASE ExecMm(p)
  <2>1. PICK r \in Procs : Exec(p, r)
    BY <1>8 DEF ExecMm
  <2>2. wpc[p] = "none" /\ life'[p] = IF LastHolder(p, p) THEN "dead" ELSE "left"
    BY <1>8 DEF ExecMm
  <2>3. life[p] = "alive" /\ life[r] = "unborn" /\ p # r /\ t # r
    BY <1>1, <2>1 DEF Exec, Settled, Runs
  <2>4. CASE /\ life' = [life EXCEPT ![p] = "dead", ![r] = "alive"]
             /\ TearDown(p, r)
    <3>1. life'[p] = "dead" /\ \A o \in Procs \ {p, r} : life'[o] = life[o]
      BY <2>3, <2>4 DEF Types
    <3>2. LastHolder(p, p)
      BY <2>2, <3>1
    <3>3. t # p
      BY <1>6, <2>2, <3>2
    <3>4. pc'[t] = pc[t] /\ pt'[t] = pt[t]
      BY <1>1, <2>4, <3>3, TearDownOthers
    <3> QED BY <1>1, <1>2, <2>3, <3>1, <3>3, <3>4
  <2>5. CASE /\ life' = [life EXCEPT ![p] = "left", ![r] = "alive"]
             /\ UNCHANGED <<vmas, pt, ref, pc, pending, closer>>
    <3>1. life'[t] \in {"alive", "left"}
      BY <1>1, <2>3, <2>5 DEF Types
    <3> QED BY <1>1, <1>2, <2>5, <3>1
  <2> QED BY <2>1, <2>4, <2>5 DEF Exec
<1> QED BY <1>3, <1>4, <1>5, <1>7, <1>8

-------------------------------------------------------------------------------
(* The invariant.                                                          *)

QueriesInOrder == /\ WalkerTypeOK /\ (\A p \in Procs : QueryOK(p))
                  /\ FullTables /\ FreedTables

\* Only p goes on with its query.
LEMMA OneQuery ==
  ASSUME Types, QueriesInOrder, NEW p \in Procs, UNCHANGED <<vars, tableVars>>,
         WalkerTypeOK', QueryOK(p)',
         \A q \in Procs \ {p} : /\ wpc'[q] = wpc[q] /\ target'[q] = target[q]
                                /\ answer'[q] = answer[q] /\ level'[q] = level[q]
                                /\ raced'[q] = raced[q]
  PROVE  QueriesInOrder'
<1>1. UNCHANGED <<life, pc, pt, tables, freeing>>
  BY DEF vars, tableVars
<1>2. FullTables' /\ FreedTables'
  BY <1>1 DEF QueriesInOrder, FullTables, FreedTables, Mapped
<1>3. ASSUME NEW q \in Procs \ {p} PROVE QueryOK(q)'
  <2>1. QueryOK(q) /\ target[q] \in Procs
    BY DEF QueriesInOrder, WalkerTypeOK
  <2>2. wpc[q] \in Holding => life'[target[q]] \in {"alive", "left"}
    BY <1>1, <2>1 DEF QueryOK
  <2>3. wpc[q] \in Reading => Undisturbed(target[q])
    BY <1>1, <2>1, UndisturbedFrame DEF QueryOK
  <2> QED BY <2>1, <2>2, <2>3, QueryFrame DEF QueriesInOrder
<1> QED BY <1>2, <1>3 DEF QueriesInOrder

LEMMA LookupOK ==
  ASSUME Types, QueriesInOrder, NEW p \in Procs, NEW t \in Procs, get_mm_by_pid(p, t)
  PROVE  QueriesInOrder'
<1>1. /\ wpc' = [wpc EXCEPT ![p] = "lock"] /\ target' = [target EXCEPT ![p] = t]
      /\ UNCHANGED <<vars, walker, answer, level, raced, tableVars>> /\ life[t] = "alive"
  BY DEF get_mm_by_pid, StageTo
<1>2. WalkerTypeOK'
  BY <1>1 DEF QueriesInOrder, WalkerTypeOK, Holding, tableVars
<1>3. QueryOK(p)'
  <2>1. wpc'[p] = "lock" /\ target'[p] = t /\ life'[t] = "alive"
    BY <1>1 DEF QueriesInOrder, WalkerTypeOK, vars
  <2> QED BY <2>1 DEF QueryOK, Reading
<1>4. \A q \in Procs \ {p} : /\ wpc'[q] = wpc[q] /\ target'[q] = target[q]
                             /\ answer'[q] = answer[q] /\ level'[q] = level[q]
                             /\ raced'[q] = raced[q]
  BY <1>1 DEF QueriesInOrder, WalkerTypeOK
<1> QED BY <1>1, <1>2, <1>3, <1>4, OneQuery

LEMMA LockOK ==
  ASSUME Types, QueriesInOrder, NEW p \in Procs, mmap_read_lock(p)
  PROVE  QueriesInOrder'
<1>0. WalkerTypeOK /\ QueryOK(p) /\ target[p] \in Procs
  BY DEF QueriesInOrder, WalkerTypeOK
<1>1. PICK va \in Addrs : answer' = [answer EXCEPT ![p] = <<va, NoPage>>]
  BY DEF mmap_read_lock
<1>2. /\ wpc' = [wpc EXCEPT ![p] = "walk"] /\ wpc[p] = "lock" /\ target' = target
      /\ level' = [level EXCEPT ![p] = 0]
      /\ raced' = [raced EXCEPT ![p] = pc[target[p]] # "idle"]
      /\ UNCHANGED <<vars, walker, tableVars>> /\ pc[target[p]] \in Readable
  BY DEF mmap_read_lock, StageTo, CanReadLock
<1>3. va \in Nat /\ 0 \in 0 .. Levels
  BY MemdevAssumption, WalkersAssumption DEF MemdevAssumption, WalkersAssumption
<1>4. WalkerTypeOK'
  BY <1>0, <1>1, <1>2, <1>3 DEF WalkerTypeOK, Holding, tableVars
<1>5. /\ wpc'[p] = "walk" /\ level'[p] = 0 /\ answer'[p][1] = va
      /\ raced'[p] \/ pc[target[p]] = "idle"
  BY <1>0, <1>1, <1>2 DEF WalkerTypeOK
<1>6. life[target[p]] \in {"alive", "left"}
  BY <1>0, <1>2 DEF QueryOK, Holding
<1>7. 0 <= tables[target[p]]
  BY <1>0, WalkersAssumption DEF WalkerTypeOK, WalkersAssumption
<1>8. QueryOK(p)'
  <2>1. target'[p] = target[p] /\ life' = life /\ pc' = pc /\ tables' = tables
    BY <1>2 DEF vars, tableVars
  <2> QED BY <1>2, <1>5, <1>6, <1>7, <2>1 DEF QueryOK
<1>9. \A q \in Procs \ {p} : /\ wpc'[q] = wpc[q] /\ target'[q] = target[q]
                             /\ answer'[q] = answer[q] /\ level'[q] = level[q]
                             /\ raced'[q] = raced[q]
  BY <1>0, <1>1, <1>2 DEF WalkerTypeOK
<1> QED BY <1>2, <1>4, <1>8, <1>9, OneQuery

\* One table after the other: what is found at the end is what the space maps, unless a
\* table on the way was freed.
LEMMA WalkOK ==
  ASSUME Types, QueriesInOrder, NEW p \in Procs, walk_page_table(p)
  PROVE  QueriesInOrder'
<1> DEFINE t == target[p]
           now == pt[t][answer[p][1]]
<1>0. WalkerTypeOK /\ QueryOK(p) /\ t \in Procs /\ FullTables
  BY DEF QueriesInOrder, WalkerTypeOK
<1>1. PICK e \in Entry(p) :
         IF e = NextTable
         THEN /\ level[p] < Levels
              /\ level' = [level EXCEPT ![p] = @ + 1]
              /\ UNCHANGED <<answer, wpc>>
         ELSE /\ answer' = [answer EXCEPT ![p][2] = e]
              /\ wpc' = [wpc EXCEPT ![p] = "walked"]
              /\ UNCHANGED level
  BY DEF walk_page_table, StageTo
<1>2. wpc[p] = "walk" /\ UNCHANGED <<vars, walker, target, raced, tableVars>>
  BY DEF walk_page_table
<1>3. /\ level[p] \in 0 .. Levels /\ tables[t] \in 0 .. Levels /\ Levels \in Nat \ {0}
      /\ answer[p] \in Nat \X (Pages \cup {NoPage, AnonPage})
  BY <1>0, WalkersAssumption DEF WalkerTypeOK, WalkersAssumption
<1>4. /\ answer[p][1] \in Addrs /\ pc[t] \in Readable /\ (raced[p] \/ pc[t] = "idle")
      /\ life[t] \in {"alive", "left"} /\ (raced[p] \/ level[p] <= tables[t])
      /\ now \in Pages \cup {NoPage, AnonPage}
  BY <1>0, <1>2 DEF QueryOK, Reading, Holding, Types
<1>5. \A q \in Procs \ {p} : /\ wpc'[q] = wpc[q] /\ target'[q] = target[q]
                             /\ answer'[q] = answer[q] /\ level'[q] = level[q]
                             /\ raced'[q] = raced[q]
  BY <1>0, <1>1, <1>2 DEF WalkerTypeOK
<1>6. CASE e = NextTable
  <2>1. level'[p] = level[p] + 1 /\ level[p] < Levels
    BY <1>0, <1>1, <1>6 DEF WalkerTypeOK
  <2>2. level' = [level EXCEPT ![p] = level[p] + 1] /\ level[p] + 1 \in 0 .. Levels
    BY <1>1, <1>3, <1>6, <2>1
  <2>3. WalkerTypeOK'
    BY <1>0, <1>1, <1>2, <1>6, <2>2 DEF WalkerTypeOK, tableVars
  <2>4. raced[p] \/ level[p] + 1 <= tables[t]
    <3>1. CASE level[p] > tables[t]
      BY <1>3, <1>4, <3>1
    <3>2. CASE ~(level[p] > tables[t])
      <4>1. level[p] # tables[t]
        BY <1>1, <1>3, <1>6, <2>1, <3>2, WalkersAssumption DEF Entry, WalkersAssumption
      <4> QED BY <1>3, <3>2, <4>1
    <3> QED BY <3>1, <3>2
  <2>5. QueryOK(p)'
    <3>1. /\ wpc'[p] = "walk" /\ target'[p] = t /\ level'[p] = level[p] + 1
          /\ answer'[p] = answer[p] /\ raced'[p] = raced[p]
          /\ life' = life /\ pc' = pc /\ tables' = tables
      BY <1>1, <1>2, <1>6, <2>1 DEF vars, tableVars
    <3> HIDE DEF t
    <3> QED BY <1>4, <2>4, <3>1 DEF QueryOK
  <2> QED BY <1>2, <1>5, <2>3, <2>5, OneQuery
<1>7. CASE e # NextTable
  <2>1. e \in Pages \cup {NoPage, AnonPage}
    BY <1>1, <1>4, <1>7 DEF Entry
  <2>2. answer' = [answer EXCEPT ![p][2] = e] /\ answer'[p] = <<answer[p][1], e>>
    BY <1>0, <1>1, <1>3, <1>7 DEF WalkerTypeOK
  <2>3. WalkerTypeOK'
    <3>1. answer' \in [Procs -> Nat \X (Pages \cup {NoPage, AnonPage})]
      BY <1>0, <1>3, <2>1, <2>2 DEF WalkerTypeOK
    <3> QED BY <1>0, <1>1, <1>2, <1>7, <3>1 DEF WalkerTypeOK, Holding, tableVars
  <2>4. now = e \/ (raced[p] /\ tables[t] < Levels)
    <3>1. CASE level[p] > tables[t]
      BY <1>3, <1>4, <3>1
    <3>2. CASE ~(level[p] > tables[t]) /\ level[p] = Levels
      BY <1>1, <3>2 DEF Entry
    <3>3. CASE ~(level[p] > tables[t]) /\ level[p] # Levels
      <4>1. e = NoPage /\ level[p] = tables[t]
        BY <1>1, <1>7, <3>3 DEF Entry
      <4>2. Mapped(t) = {}
        BY <1>0, <3>3, <4>1 DEF FullTables
      <4> QED BY <1>4, <4>1, <4>2 DEF Mapped
    <3> QED BY <3>1, <3>2, <3>3
  <2>5. QueryOK(p)'
    <3>1. /\ wpc'[p] = "walked" /\ target'[p] = t
          /\ answer'[p][1] = answer[p][1] /\ answer'[p][2] = e /\ raced'[p] = raced[p]
          /\ life' = life /\ pc' = pc /\ tables' = tables /\ pt' = pt
      BY <1>0, <1>1, <1>2, <1>7, <2>2 DEF WalkerTypeOK, vars, tableVars
    <3> QED BY <1>4, <2>4, <3>1 DEF QueryOK
  <2> QED BY <1>2, <1>5, <2>3, <2>5, OneQuery
<1> QED BY <1>6, <1>7

LEMMA UnlockOK ==
  ASSUME Types, QueriesInOrder, NEW p \in Procs, mmap_read_unlock(p)
  PROVE  QueriesInOrder'
<1>0. WalkerTypeOK /\ QueryOK(p) /\ target[p] \in Procs
  BY DEF QueriesInOrder, WalkerTypeOK
<1>1. /\ wpc' = [wpc EXCEPT ![p] = "put"] /\ wpc[p] = "walked"
      /\ answer' = [answer EXCEPT ![p] = NoAnswer] /\ level' = [level EXCEPT ![p] = 0]
      /\ raced' = [raced EXCEPT ![p] = FALSE]
      /\ UNCHANGED <<vars, walker, target, tableVars>>
  BY DEF mmap_read_unlock, StageTo
<1>2. WalkerTypeOK'
  <2>1. 0 \in 0 .. Levels /\ NoAnswer \in Nat \X (Pages \cup {NoPage, AnonPage})
    BY WalkersAssumption DEF WalkersAssumption, NoAnswer
  <2> QED BY <1>0, <1>1, <2>1 DEF WalkerTypeOK, Holding, tableVars
<1>3. QueryOK(p)'
  <2>1. wpc'[p] = "put" /\ target'[p] = target[p] /\ life' = life
    BY <1>0, <1>1 DEF WalkerTypeOK, vars
  <2>2. life[target[p]] \in {"alive", "left"}
    BY <1>0, <1>1 DEF QueryOK, Holding
  <2> QED BY <2>1, <2>2 DEF QueryOK, Reading
<1>4. \A q \in Procs \ {p} : /\ wpc'[q] = wpc[q] /\ target'[q] = target[q]
                             /\ answer'[q] = answer[q] /\ level'[q] = level[q]
                             /\ raced'[q] = raced[q]
  BY <1>0, <1>1 DEF WalkerTypeOK
<1> QED BY <1>1, <1>2, <1>3, <1>4, OneQuery

\* An ioctl that is over changes nothing but its own progress.
LEMMA FinishOK ==
  ASSUME Types, QueriesInOrder, NEW p \in Procs, Finish(p),
         UNCHANGED <<vars, walker, answer, level, raced, tableVars>>
  PROVE  QueriesInOrder'
<1>0. WalkerTypeOK
  BY DEF QueriesInOrder
<1>1. wpc' = [wpc EXCEPT ![p] = "none"] /\ target' = [target EXCEPT ![p] = p]
  BY DEF Finish, StageTo
<1>2. WalkerTypeOK'
  BY <1>0, <1>1 DEF WalkerTypeOK, Holding, tableVars
<1>3. QueryOK(p)'
  <2>1. wpc'[p] = "none"
    BY <1>0, <1>1 DEF WalkerTypeOK
  <2> QED BY <2>1 DEF QueryOK, Reading, Holding
<1>4. \A q \in Procs \ {p} : /\ wpc'[q] = wpc[q] /\ target'[q] = target[q]
                             /\ answer'[q] = answer[q] /\ level'[q] = level[q]
                             /\ raced'[q] = raced[q]
  BY <1>0, <1>1 DEF WalkerTypeOK
<1> QED BY <1>2, <1>3, <1>4, OneQuery

\* The last mmput tears down a space that no other query holds.
LEMMA MmputOK ==
  ASSUME Types, AddressSpaces, QueriesInOrder, NEW p \in Procs, mmput(p)
  PROVE  QueriesInOrder'
<1> DEFINE t == target[p]
<1>0. /\ WalkerTypeOK /\ FullTables /\ FreedTables /\ t \in Procs
      /\ \A q \in Procs : QueryOK(q)
  BY DEF QueriesInOrder, WalkerTypeOK
<1>1. CASE life[t] = "left" /\ LastHolder(t, p)
  <2>1. /\ LastMmput(t, p) /\ TablesFollow /\ wpc' = [wpc EXCEPT ![p] = "teardown"]
        /\ UNCHANGED <<target, freeing, walker, answer, level, raced>>
    BY <1>1 DEF mmput, StageTo
  <2>2. TearDown(t, p) /\ life' = [life EXCEPT ![t] = "dead"]
    BY <2>1 DEF LastMmput
  <2>3. WalkerTypeOK'
    BY <1>0, <2>1, TablesFollowTypes DEF WalkerTypeOK
  <2>4. FullTables' /\ FreedTables'
    <3>1. UserStep(t)
      BY <2>1 DEF UserStep
    <3> HIDE DEF t
    <3> QED BY <1>0, <2>1, <3>1, UserTables
  <2>5. ASSUME NEW q \in Procs PROVE QueryOK(q)'
    <3>1. CASE q = p
      <4>1. wpc'[p] = "teardown"
        BY <1>0, <2>1 DEF WalkerTypeOK
      <4> QED BY <3>1, <4>1 DEF QueryOK, Reading, Holding
    <3>2. CASE q # p /\ wpc[q] \in Holding
      <4> DEFINE u == target[q]
      <4>1. /\ u \in Procs /\ u # t /\ life[u] \in {"alive", "left"}
            /\ wpc[q] \in Reading => pc[u] \in Readable
        BY <1>0, <1>1, <3>2 DEF LastHolder, Holders, QueryOK, WalkerTypeOK
      <4> HIDE DEF t, u
      <4>2. life'[u] = life[u] /\ pc'[u] = pc[u] /\ pt'[u] = pt[u]
        BY <1>0, <2>2, <4>1, TearDownOthers DEF Types
      <4>3. wpc[q] \in Reading => Undisturbed(u)
        BY <1>0, <2>1, <4>1, <4>2, SpaceKept
      <4>4. wpc'[q] = wpc[q]
        BY <1>0, <2>1, <3>2 DEF WalkerTypeOK
      <4> QED BY <1>0, <2>1, <4>1, <4>2, <4>3, <4>4, QueryFrame DEF u
    <3>3. CASE q # p /\ wpc[q] \notin Holding
      <4>1. wpc'[q] = wpc[q]
        BY <1>0, <2>1, <3>3 DEF WalkerTypeOK
      <4> QED BY <1>0, <3>3, <4>1, QueryFrame
    <3> QED BY <3>1, <3>2, <3>3
  <2> QED BY <2>3, <2>4, <2>5 DEF QueriesInOrder
<1>2. CASE ~(life[t] = "left" /\ LastHolder(t, p))
  <2>1. Finish(p) /\ UNCHANGED <<vars, walker, answer, level, raced, tableVars>>
    BY <1>2 DEF mmput
  <2> QED BY <2>1, FinishOK
<1> QED BY <1>1, <1>2

LEMMA WalkStepOK ==
  ASSUME Types, AddressSpaces, QueriesInOrder, NEW p \in Procs, WalkStep(p)
  PROVE  QueriesInOrder'
<1>1. CASE TornDown(p)
  <2>1. Finish(p) /\ UNCHANGED <<vars, walker, answer, level, raced, tableVars>>
    BY <1>1 DEF TornDown
  <2> QED BY <2>1, FinishOK
<1> QED BY <1>1, LockOK, WalkOK, UnlockOK, MmputOK DEF WalkStep

\* The handlers, with the tables they need and the ones munmap frees.
LEMMA MmStepOK ==
  ASSUME Types, AddressSpaces, QueriesInOrder, NEW p \in Procs, MmStep(p)
  PROVE  QueriesInOrder'
<1>0. /\ WalkerTypeOK /\ FullTables /\ FreedTables
      /\ \A q \in Procs : QueryOK(q) /\ target[q] \in Procs
  BY DEF QueriesInOrder, WalkerTypeOK
<1>1. UNCHANGED queryVars
  BY DEF MmStep, Handler, FreeTable, TablesFreed
<1>2. ASSUME life' = life, WalkerTypeOK', FullTables', FreedTables',
             \A q \in Procs : wpc[q] \in Reading => Undisturbed(target[q])
      PROVE  QueriesInOrder'
  <2>1. ASSUME NEW q \in Procs PROVE QueryOK(q)'
    <3>1. wpc[q] \in Holding => life'[target[q]] \in {"alive", "left"}
      BY <1>0, <1>2 DEF QueryOK
    <3> QED BY <1>0, <1>1, <1>2, <3>1, QueryFrame DEF queryVars
  <2> QED BY <1>2, <2>1 DEF QueriesInOrder
<1>3. CASE Handler(p)
  <2>1. HandlerStep(p) /\ p \notin freeing
    BY <1>3 DEF Handler
  <2>2. PICK n \in 0 .. Levels :
          /\ (\E a \in Addrs : pt'[p][a] # NoPage) => n = Levels
          /\ tables' = [tables EXCEPT ![p] = n]
    BY <1>3 DEF Handler
  <2>3. /\ life' = life
        /\ \A q \in Procs \ {p} : pt'[q] = pt[q] /\ pc'[q] = pc[q]
    <3>1. life' = life
      BY <2>1 DEF HandlerStep, AllocPages, map_pages_to_vma, RegionFails, ListRegion,
                  CountRegion, err_free_pages, MmapUndo, ZapRange, memdev_vma_close,
                  mmUnchanged
    <3> QED BY <2>1, <3>1, HandlerOthers
  <2>4. WalkerTypeOK'
    <3>1. freeing' \subseteq Procs
      BY <1>0, <1>3 DEF Handler, WalkerTypeOK
    <3> QED BY <1>0, <1>1, <2>2, <3>1 DEF WalkerTypeOK, queryVars
  <2>5. ASSUME NEW o \in Procs, Mapped(o)' # {} PROVE tables'[o] = Levels
    <3>1. CASE o = p
      BY <1>0, <2>2, <2>5, <3>1 DEF WalkerTypeOK, Mapped
    <3>2. CASE o # p
      <4>1. Mapped(o)' = Mapped(o) /\ tables'[o] = tables[o]
        BY <1>0, <2>2, <2>3, <3>2 DEF WalkerTypeOK, Mapped
      <4> QED BY <1>0, <2>5, <4>1 DEF FullTables
    <3> QED BY <3>1, <3>2
  <2>6. ASSUME NEW o \in freeing' PROVE pc'[o] = "close" /\ Mapped(o)' = {}
    <3>1. CASE o = p
      <4>1. pc[p] = "zap" /\ \A a \in Addrs : pt'[p][a] = NoPage
        BY <1>3, <2>1, <2>6, <3>1 DEF Handler
      <4>2. ZapRange(p)
        BY <2>1, <4>1 DEF HandlerStep, AllocPages, map_pages_to_vma, RegionFails,
                          ListRegion, CountRegion, err_free_pages, MmapUndo,
                          memdev_vma_close
      <4> QED BY <3>1, <4>1, <4>2 DEF ZapRange, Types, Mapped
    <3>2. CASE o # p
      <4>1. o \in freeing /\ o \in Procs
        BY <1>0, <1>3, <2>6, <3>2 DEF Handler, WalkerTypeOK
      <4>2. pc'[o] = pc[o] /\ Mapped(o)' = Mapped(o)
        BY <2>3, <3>2, <4>1 DEF Mapped
      <4> QED BY <1>0, <4>1, <4>2 DEF FreedTables
    <3> QED BY <3>1, <3>2
  <2>7. ASSUME NEW q \in Procs, wpc[q] \in Reading PROVE Undisturbed(target[q])
    <3>1. target[q] \in Procs /\ pc[target[q]] \in Readable
      BY <1>0, <2>7 DEF QueryOK
    <3> QED BY <1>0, <1>3, <3>1, HandlerReaders
  <2> QED BY <1>2, <2>3, <2>4, <2>5, <2>6, <2>7 DEF FullTables, FreedTables
<1>4. CASE FreeTable(p)
  <2>1. /\ UNCHANGED <<life, pc, pt, freeing>> /\ p \in freeing /\ tables[p] > 0
        /\ tables' = [tables EXCEPT ![p] = tables[p] - 1]
    BY <1>4 DEF FreeTable, vars
  <2>2. /\ tables[p] \in 0 .. Levels /\ Levels \in Nat
        /\ tables'[p] = tables[p] - 1 /\ \A o \in Procs \ {p} : tables'[o] = tables[o]
    BY <1>0, <2>1, WalkersAssumption DEF WalkerTypeOK, WalkersAssumption
  <2>3. tables[p] - 1 \in 0 .. Levels /\ tables'[p] < Levels
    BY <2>1, <2>2
  <2>4. WalkerTypeOK'
    BY <1>0, <1>1, <2>1, <2>3 DEF WalkerTypeOK, queryVars
  <2>5. pc[p] = "close" /\ Mapped(p) = {}
    BY <1>0, <2>1 DEF FreedTables
  <2>6. FullTables' /\ FreedTables'
    BY <1>0, <2>1, <2>2, <2>5 DEF FullTables, FreedTables, Mapped
  <2>7. ASSUME NEW q \in Procs, wpc[q] \in Reading PROVE Undisturbed(target[q])
    <3>1. target[q] \in Procs /\ pc[target[q]] \in Readable
      BY <1>0, <2>7 DEF QueryOK
    <3> QED BY <2>1, <2>2, <2>3, <2>5, <3>1 DEF Undisturbed
  <2> QED BY <1>2, <2>1, <2>4, <2>6, <2>7
<1>5. CASE TablesFreed(p)
  <2>1. /\ UNCHANGED <<life, pc, pt, tables>> /\ freeing' = freeing \ {p}
    BY <1>5 DEF TablesFreed, vars
  <2>2. WalkerTypeOK'
    BY <1>0, <1>1, <2>1 DEF WalkerTypeOK, queryVars
  <2>3. FullTables' /\ FreedTables'
    BY <1>0, <2>1 DEF FullTables, FreedTables, Mapped
  <2>4. ASSUME NEW q \in Procs, wpc[q] \in Reading PROVE Undisturbed(target[q])
    BY <1>0, <2>1, <2>4, UndisturbedFrame DEF QueryOK
  <2> QED BY <1>2, <2>1, <2>2, <2>3, <2>4
<1> QED BY <1>3, <1>4, <1>5 DEF MmStep

\* The threads of a process around the queries.
LEMMA LiveStepOK ==
  ASSUME Types, AddressSpaces, QueriesInOrder, NEW p \in Procs, LiveStep(p)
  PROVE  QueriesInOrder'
<1>0. /\ WalkerTypeOK /\ FullTables /\ FreedTables
      /\ \A q \in Procs : QueryOK(q)
  BY DEF QueriesInOrder
<1>1. CASE \E t \in Procs : get_mm_by_pid(p, t)
  BY <1>1, LookupOK
<1>2. CASE ~\E t \in Procs : get_mm_by_pid(p, t)
  <2>1. /\ TablesFollow /\ UNCHANGED <<queryVars, freeing>>
        /\ \/ \E f \in Files : ChrdevOpen(p, f) \/ Close(p, f)
           \/ \E a \in Addrs : WriteFault(p, a)
           \/ Writer(p)
           \/ ExitMm(p)
           \/ ExecMm(p)
    BY <1>2 DEF LiveStep
  <2>2. UserStep(p)
    BY <2>1 DEF UserStep, Writer, ExitMm, ExecMm
  <2>3. FullTables' /\ FreedTables'
    BY <1>0, <2>1, <2>2, UserTables
  <2>4. WalkerTypeOK'
    BY <1>0, <2>1, TablesFollowTypes DEF WalkerTypeOK, queryVars
  <2>5. ASSUME NEW q \in Procs PROVE QueryOK(q)'
    <3>1. wpc[q] \in Holding => /\ life'[target[q]] \in {"alive", "left"}
                                /\ wpc[q] \in Reading => Undisturbed(target[q])
      BY <1>0, <2>1, LiveReaders
    <3> QED BY <1>0, <2>1, <3>1, QueryFrame DEF queryVars
  <2> QED BY <2>3, <2>4, <2>5 DEF QueriesInOrder
<1> QED BY <1>1, <1>2

LEMMA WalksPreserved ==
  ASSUME Types, AddressSpaces, QueriesInOrder, [WalkerNext]_wvars
  PROVE  QueriesInOrder'
<1>0. /\ WalkerTypeOK /\ FullTables /\ FreedTables
      /\ \A q \in Procs : QueryOK(q) /\ target[q] \in Procs
  BY DEF QueriesInOrder, WalkerTypeOK
<1>1. ASSUME UNCHANGED <<life, pc, pt, wpc, target, answer, level, raced, tables, freeing>>,
             walker' \in {"unloaded", "live"}
      PROVE  QueriesInOrder'
  <2>1. WalkerTypeOK' /\ FullTables' /\ FreedTables'
    BY <1>0, <1>1 DEF WalkerTypeOK, FullTables, FreedTables, Mapped
  <2>2. ASSUME NEW q \in Procs PROVE QueryOK(q)'
    BY <1>0, <1>1 DEF QueryOK
  <2> QED BY <2>1, <2>2 DEF QueriesInOrder
<1>2. CASE (ModuleStep \/ \E f \in Files : FileStep(f)) /\ UNCHANGED walkVars
  <2>1. UNCHANGED mmVars
    BY <1>2, DriverLeavesSpaces
  <2> QED BY <1>0, <1>1, <1>2, <2>1 DEF mmVars, walkVars, queryVars, tableVars, WalkerTypeOK
<1>3. CASE walker_init \/ walker_exit
  BY <1>1, <1>3 DEF walker_init, walker_exit, vars, tableVars
<1>4. CASE UNCHANGED wvars
  BY <1>0, <1>1, <1>4 DEF wvars, vars, walkVars, queryVars, tableVars, WalkerTypeOK
<1> QED BY <1>2, <1>3, <1>4, MmStepOK, LiveStepOK, WalkStepOK DEF WalkerNext

-------------------------------------------------------------------------------
(* The results.                                                            *)

\* WalkInv is an inductive invariant of the two modules together.
THEOREM WalkerInvariant == WalkerSpec => []WalkInv
<1>1. WalkerInit => WalkInv
  <2> SUFFICES ASSUME WalkerInit PROVE WalkInv
    OBVIOUS
  <2>1. IInv /\ MemInv
    BY InitIInv, InitMemInv DEF WalkerInit
  <2>2. WalkerTypeOK
    <3>1. 0 \in 0 .. Levels
      BY WalkersAssumption DEF WalkersAssumption
    <3> QED BY <3>1 DEF WalkerInit, WalkerTypeOK, NoAnswer
  <2>3. \A p \in Procs : wpc[p] \notin Holding /\ wpc[p] \notin Reading
    BY DEF WalkerInit, Holding, Reading
  <2>4. \A p \in Procs : QueryOK(p)
    BY <2>3 DEF QueryOK, Reading
  <2>5. FullTables /\ FreedTables
    BY DEF WalkerInit, Init, FullTables, FreedTables, Mapped
  <2> QED BY <2>1, <2>2, <2>4, <2>5 DEF WalkInv
<1>2. WalkInv /\ [WalkerNext]_wvars => WalkInv'
  <2> SUFFICES ASSUME WalkInv, [WalkerNext]_wvars PROVE WalkInv'
    OBVIOUS
  <2>1. /\ IInv /\ MemInv /\ WalkerTypeOK /\ QueriesInOrder
        /\ Types /\ AddressSpaces
    BY DEF WalkInv, QueriesInOrder, IInv, MemInv
  <2>2. IInv' /\ MemInv'
    BY <2>1, StepsAreMemdevSteps, NextIInv, NextMemInv
  <2>3. QueriesInOrder'
    BY <2>1, WalksPreserved
  <2> QED BY <2>2, <2>3 DEF WalkInv, QueriesInOrder
<1> QED BY <1>1, <1>2, PTL DEF WalkerSpec

\* The walker's module adds nothing to what the memory device does: every behaviour of
\* the two is one of Memdev, whose invariants hold with any number of queries around
\* although no handler of memdev.c knows of them.
THEOREM WalkerImplementsMemdev == WalkerSpec => Init /\ [][Next]_vars
<1>1. WalkerInit => Init
  BY DEF WalkerInit
<1>2. WalkInv /\ [WalkerNext]_wvars => [Next]_vars
  BY StepsAreMemdevSteps DEF WalkInv
<1> QED BY <1>1, <1>2, WalkerInvariant, PTL DEF WalkerSpec

\* query_page_table, reading pgd, p4d, pud, pmd and pte one after the other: for any number
\* of queries, processes and tables, the address space a query looks at exists until its
\* mmput; it reads no freed table and no stale entry before the unlock, unless a munmap
\* had downgraded mmap_lock before the query took it.
THEOREM WalkerWalksAreStable == WalkerSpec => []WalksAreStable
<1>1. WalkInv => WalksAreStable
  BY DEF WalkInv, WalksAreStable, QueryOK
<1> QED BY <1>1, WalkerInvariant, PTL

\* What memdev.c relies on survives the queries, whose mmput may tear down the address
\* space of another process and then leaves its regions to memdev_release: mmap is all or
\* nothing, a process that closes its own mapping frees its own region (unless its pid
\* outlived a space before), and the module text outlives whoever is in it.
THEOREM WalkerKeepsMemdevSafe ==
  WalkerSpec => /\ [](TypeOK /\ VmasPopulated)
                /\ CloseFreesOwnRegion
                /\ TextOutlivesUsers
<1>1. WalkInv => IInv /\ MemInv
  BY DEF WalkInv
<1>2. WalkerSpec => []IInv /\ []MemInv
  BY <1>1, WalkerInvariant, PTL
<1>3. WalkerSpec => CloseFreesOwnRegion
  BY <1>2, MemInvClose, WalkerImplementsMemdev, PTL DEF CloseFreesOwnRegion
<1>4. WalkerSpec => TextOutlivesUsers
  BY <1>2, InitText, TextStep, WalkerImplementsMemdev, PTL DEF TextOutlivesUsers, Text!Spec
<1> QED BY <1>2, <1>3, <1>4, IInvTypes, MemInvVmas, PTL

\* Where the kernel clears the page array that memdev_mmap hands to the bulk allocator,
\* pages are still counted right with the queries around, mapped_count follows the lists
\* and memdev_exit finds nothing.
THEOREM WalkerKeepsPagesCounted ==
  ASSUME InitOnAlloc
  PROVE  WalkerSpec => [](PagesAccounted /\ CountMatchesRegions /\ ExitFindsNothing)
<1>1. WalkInv => PagesAccounted /\ CountMatchesRegions /\ ExitFindsNothing
  BY MemInvPages, MemInvCount, MemInvExit DEF WalkInv
<1> QED BY <1>1, WalkerInvariant, PTL
===============================================================================
