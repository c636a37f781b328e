----------------------------- MODULE MemdevProofs -----------------------------
(***************************************************************************)
(* Proofs about Memdev, for every finite set of spaces, files and pages    *)
(* and every range of addresses: first that the text outlives its users    *)
(* (Memdev implements ModuleText), then what becomes of the memory.        *)
(*                                                                         *)
(* The first argument: modref counts two references per file, one for as   *)
(* long as the file exists in the kernel and one between the               *)
(* try_module_get of memdev_open and the module_put of memdev_release      *)
(* (RefsCounted); every handler that is running works on a vma whose file  *)
(* is open (HandlersPinFiles, ReferencedAreOpen); files exist only while   *)
(* the module is live (FilesNeedModule).  So rmmod, which needs modref =   *)
(* 0, finds neither a file nor a handler.                                  *)
(***************************************************************************)
EXTENDS Memdev, FiniteSetTheorems, TLAPS

\* Files the kernel has pinned the module for, and files whose open holds a
\* reference of its own.
Pinned == {f \in Files : fstate[f] # "none"}
Gotten == {f \in Files : fstate[f] \in {"open_link", "open", "release_put"}}

\* TypeOK, with no claim yet that the reference count is not negative.
Types == /\ mod \in {"unloaded", "init", "unwind", "live", "exit_check", "exit_free",
                     "exit_unregister"}
         /\ registered \in 0 .. 4
         /\ modref \in Int
         /\ fstate \in [Files -> {"none", "open_get", "open_link", "open_failed", "open",
                                  "release_put", "released"}]
         /\ opener \in [Procs -> SUBSET Files]
         /\ file_list \subseteq Files
         /\ regions \subseteq Region /\ IsFiniteSet(regions)
         /\ mapped_count \in Int
         /\ life \in [Procs -> {"unborn", "alive", "left", "dead"}]
         /\ fds \subseteq Procs \X Files
         /\ vmas \subseteq Vma
         /\ pt \in [Procs -> [Addrs -> Pages \cup {NoPage, AnonPage}]]
         /\ ref \in [Pages -> Int]
         /\ pc \in [Procs -> {"idle", "alloc", "map", "region", "count", "err", "undo", "zap",
                              "close"}]
         /\ pending \in [Procs -> SUBSET Vma]
         /\ held \in [Procs -> Seq(Pages)]
         /\ closer \in [Procs -> Procs]

\* The device node exists exactly while the module is live and not unloading.
Registration == /\ mod \in {"init", "unwind"} => registered < 4
                /\ mod = "live" => registered = 4

\* The module reference count is two references per file, at the right times.
RefsCounted == modref = Cardinality(Pinned) + Cardinality(Gotten)

\* What refers to a file refers to an open one.
ReferencedAreOpen == /\ \A d \in fds : fstate[d[2]] = "open"
                     /\ \A v \in vmas : fstate[v.file] = "open"
                     /\ \A p \in Procs : \A v \in pending[p] : fstate[v.file] = "open"
                     /\ \A p \in Procs : \A f \in opener[p] :
                          fstate[f] \in {"open_get", "open_link", "open_failed"}
                     /\ \A p, q \in Procs : p # q => opener[p] \cap opener[q] = {}

\* A handler under an mmap_lock works on at least one vma.
HandlersPinFiles == \A p \in Procs : pc[p] # "idle" => pending[p] # {}

FilesNeedModule == \A f \in Files : fstate[f] # "none" => mod = "live"

\* mmap works on one vma, and fills an array that is as long before it maps it.
HeldArrays == \A p \in Procs :
  /\ pc[p] = "alloc" => \E v \in Vma : pending[p] = {v}
  /\ pc[p] \in {"map", "region"} => \E v \in Vma : pending[p] = {v} /\ Len(held[p]) = v.len

IInv == Types /\ Registration /\ RefsCounted /\ ReferencedAreOpen /\ HandlersPinFiles
        /\ FilesNeedModule /\ HeldArrays

-------------------------------------------------------------------------------
(* Type correctness.                                                       *)

\* What an array, a set of regions and a page table say of a page are numbers.
LEMMA ArrayCounts ==
  ASSUME NEW s, IsFiniteSet(DOMAIN s)
  PROVE  InArray(s) \in [Pages -> Nat]
<1>1. ASSUME NEW g \in Pages PROVE Cardinality({i \in DOMAIN s : s[i] = g}) \in Nat
  <2>1. {i \in DOMAIN s : s[i] = g} \in SUBSET DOMAIN s
    OBVIOUS
  <2> QED BY <2>1, FS_Subset, FS_CardinalityType
<1> QED BY <1>1 DEF InArray

\* A sequence has finitely many slots.
LEMMA SlotsFinite ==
  ASSUME NEW s \in Seq(Pages)
  PROVE  IsFiniteSet(DOMAIN s)
<1>1. DOMAIN s = 1 .. Len(s) /\ Len(s) \in Nat
  OBVIOUS
<1> QED BY <1>1, FS_Interval

LEMMA RegionCounts ==
  ASSUME NEW rs, IsFiniteSet(rs)
  PROVE  InRegions(rs) \in [Pages -> Nat]
<1>1. IsFiniteSet(rs \X (1 .. MaxLen))
  <2>1. 1 \in Int /\ MaxLen \in Int
    BY MemdevAssumption DEF MemdevAssumption
  <2>2. IsFiniteSet(1 .. MaxLen)
    BY <2>1, FS_Interval
  <2> QED BY <2>2, FS_Product
<1>2. ASSUME NEW g \in Pages
      PROVE  Cardinality({s \in rs \X (1 .. MaxLen) :
                            s[2] \in DOMAIN s[1].pages /\ s[1].pages[s[2]] = g}) \in Nat
  <2>1. {s \in rs \X (1 .. MaxLen) : s[2] \in DOMAIN s[1].pages /\ s[1].pages[s[2]] = g}
          \in SUBSET (rs \X (1 .. MaxLen))
    OBVIOUS
  <2> QED BY <1>1, <2>1, FS_Subset, FS_CardinalityType
<1> QED BY <1>2 DEF InRegions

LEMMA TableCounts ==
  ASSUME NEW p, NEW as
  PROVE  InTable(p, as) \in [Pages -> Nat]
<1>1. ASSUME NEW g \in Pages PROVE Cardinality({a \in Addrs \cap as : pt[p][a] = g}) \in Nat
  <2>1. {a \in Addrs \cap as : pt[p][a] = g} \in SUBSET Addrs
    OBVIOUS
  <2> QED BY <2>1, FS_Subset, FS_CardinalityType, MemdevAssumption DEF MemdevAssumption
<1> QED BY <1>1 DEF InTable

\* Reference counts of pages stay integers, whatever references are added or dropped.
LEMMA PageRefTypes ==
  ASSUME Types, NEW count \in [Pages -> Nat]
  PROVE  GetPages(count) \in [Pages -> Int] /\ PutPages(count) \in [Pages -> Int]
BY DEF Types, GetPages, PutPages

\* free_mapped_region keeps the types of what it changes, for any listed regions.
LEMMA FreeTypes ==
  ASSUME Types, NEW rs \in SUBSET regions, free_mapped_region(rs)
  PROVE  /\ regions' \subseteq Region /\ IsFiniteSet(regions')
         /\ ref' \in [Pages -> Int]
         /\ mapped_count' \in Int
<1>1. regions' \subseteq Region /\ IsFiniteSet(regions') /\ IsFiniteSet(rs)
  BY FS_Subset DEF Types, free_mapped_region
<1>2. ref' \in [Pages -> Int]
  BY <1>1, RegionCounts, PageRefTypes DEF free_mapped_region
<1>3. mapped_count' \in Int
  BY <1>1, FS_CardinalityType DEF Types, free_mapped_region, Decrements
<1> QED BY <1>1, <1>2, <1>3

\* Zapping addresses keeps the types of page tables and reference counts.
LEMMA ZapTypes ==
  ASSUME Types, NEW p \in Procs, NEW as, Zap(p, as)
  PROVE  pt' \in [Procs -> [Addrs -> Pages \cup {NoPage, AnonPage}]] /\ ref' \in [Pages -> Int]
<1>1. ref' \in [Pages -> Int]
  BY TableCounts, PageRefTypes DEF Zap
<1>2. pt' \in [Procs -> [Addrs -> Pages \cup {NoPage, AnonPage}]]
  BY DEF Types, Zap
<1> QED BY <1>1, <1>2

\* A vma starts at an address and is not empty.
LEMMA VmaNumbers ==
  ASSUME NEW v \in Vma
  PROVE  v.lo \in Nat /\ v.len \in Nat \ {0}
<1>1. v.lo \in Addrs /\ v.len \in 1 .. MaxLen
  BY DEF Vma
<1>2. Addrs \subseteq Nat /\ MaxLen \in Nat
  BY MemdevAssumption DEF MemdevAssumption
<1>3. v.lo \in Nat
  BY <1>1, <1>2
<1>4. v.len \in Nat \ {0}
  BY <1>1, <1>2
<1> QED BY <1>3, <1>4

\* The pieces of a vma are vmas.
LEMMA PiecesAreVmas ==
  ASSUME NEW v, NEW lo, NEW hi
  PROVE  Pieces(v, lo, hi) \subseteq Vma
BY DEF Pieces

\* What memdev_init, memdev_exit and rmmod change keeps its type.
LEMMA ModuleTypes ==
  ASSUME Types, Registration, ModuleStep
  PROVE  Types'
<1> USE DEF Types, memdevUnchanged, fileVars, mmVars
<1>1. CASE Insmod BY <1>1 DEF Insmod
<1>2. CASE memdev_init BY <1>2 DEF memdev_init, Registration
<1>3. CASE InitFails BY <1>3 DEF InitFails
<1>4. CASE Unregister BY <1>4 DEF Unregister
<1>5. CASE Rmmod BY <1>5 DEF Rmmod
<1>6. CASE ExitCheck BY <1>6 DEF ExitCheck
<1>7. CASE ExitFree
  <2>1. RegionsOf(file_list) \in SUBSET regions
    BY DEF RegionsOf
  <2>2. free_mapped_region(RegionsOf(file_list))
    BY <1>7 DEF ExitFree
  <2> HIDE DEF Types
  <2>3. /\ regions' \subseteq Region /\ IsFiniteSet(regions')
        /\ ref' \in [Pages -> Int] /\ mapped_count' \in Int
    BY <2>1, <2>2, FreeTypes
  <2> QED BY <1>7, <2>3 DEF ExitFree, Types
<1> QED BY <1>1, <1>2, <1>3, <1>4, <1>5, <1>6, <1>7 DEF ModuleStep

\* What open, release and the last fput change keeps its type.
LEMMA FileTypes ==
  ASSUME Types, NEW f \in Files, FileStep(f)
  PROVE  Types'
<1> USE DEF Types, fsUnchanged, modVars, mmVars
<1>1. CASE memdev_open_get(f)
  <2>1. fstate' \in [Files -> {"none", "open_get", "open_link", "open_failed", "open",
                              "release_put", "released"}]
    BY <1>1 DEF memdev_open_get
  <2>2. modref' \in Int
    BY <1>1 DEF memdev_open_get, OpenGets, OpenFailedPuts
  <2>3. UNCHANGED <<mod, registered, opener, file_list, regions, mapped_count, life, fds, vmas,
                    pt, ref, pc, pending, held, closer>>
    BY <1>1 DEF memdev_open_get
  <2> QED BY <2>1, <2>2, <2>3
<1>2. ASSUME NEW p \in Procs, memdev_open_link(p, f) PROVE Types'
  BY <1>2 DEF memdev_open_link
<1>3. ASSUME NEW p \in Procs, OpenFailed(p, f) PROVE Types'
  BY <1>3 DEF OpenFailed, FopsOwner
<1>4. CASE memdev_release(f)
  <2>1. Leftovers(f) \in SUBSET regions
    BY DEF Leftovers, RegionsOf
  <2>2. free_mapped_region(Leftovers(f))
    BY <1>4 DEF memdev_release
  <2> HIDE DEF Types
  <2>3. /\ regions' \subseteq Region /\ IsFiniteSet(regions')
        /\ ref' \in [Pages -> Int] /\ mapped_count' \in Int
    BY <2>1, <2>2, FreeTypes
  <2> QED BY <1>4, <2>3 DEF memdev_release, Types
<1>5. CASE memdev_release_put(f) BY <1>5 DEF memdev_release_put
<1>6. CASE Fput(f) BY <1>6 DEF Fput, FopsOwner
<1>7. ASSUME NEW p \in Procs, ExitFiles(p, f) PROVE Types'
  BY <1>7 DEF ExitFiles, CloseFd
<1> QED BY <1>1, <1>2, <1>3, <1>4, <1>5, <1>6, <1>7 DEF FileStep

\* The array that alloc_pages_bulk_array_node leaves behind, and the references it takes:
\* one for each slot, and all pages are free ones, if the array was cleared before.
LEMMA AllocArray ==
  ASSUME Types, NEW p \in Procs, AllocPages(p)
  PROVE  \E v \in pending[p], array \in Seq(Pages), count \in [Pages -> Nat] :
           /\ Len(array) <= v.len
           /\ held' = [held EXCEPT ![p] = array]
           /\ ref' = GetPages(count)
           /\ pc' = [pc EXCEPT ![p] = IF Len(array) = v.len THEN "map" ELSE "err"]
           /\ InitOnAlloc => /\ count = InArray(array)
                             /\ \A i \in DOMAIN array : array[i] \in FreePages
                             /\ \A i, j \in DOMAIN array : array[i] = array[j] => i = j
<1>1. PICK v \in pending[p] : \E slots \in Slots(v.len), n \in 0 .. v.len :
        LET null == {i \in 1 .. n : slots[i] = NoPage}
        IN /\ \E new \in Injection(null, FreePages) :
                /\ held' = [held EXCEPT ![p] =
                              [i \in 1 .. n |-> IF i \in null THEN new[i] ELSE slots[i]]]
                /\ ref' = GetPages(InArray(new))
           /\ pc' = [pc EXCEPT ![p] = IF n = v.len THEN "map" ELSE "err"]
  BY DEF AllocPages
<1>2. PICK slots \in Slots(v.len), n \in 0 .. v.len :
        LET null == {i \in 1 .. n : slots[i] = NoPage}
        IN /\ \E new \in Injection(null, FreePages) :
                /\ held' = [held EXCEPT ![p] =
                              [i \in 1 .. n |-> IF i \in null THEN new[i] ELSE slots[i]]]
                /\ ref' = GetPages(InArray(new))
           /\ pc' = [pc EXCEPT ![p] = IF n = v.len THEN "map" ELSE "err"]
  BY <1>1
<1> DEFINE null == {i \in 1 .. n : slots[i] = NoPage}
<1>3. PICK new \in Injection(null, FreePages) :
         /\ held' = [held EXCEPT ![p] =
                       [i \in 1 .. n |-> IF i \in null THEN new[i] ELSE slots[i]]]
         /\ ref' = GetPages(InArray(new))
  BY <1>2
<1> DEFINE array == [i \in 1 .. n |-> IF i \in null THEN new[i] ELSE slots[i]]
<1>4. new \in [null -> FreePages] /\ \A i, j \in null : new[i] = new[j] => i = j
  BY DEF Injection, IsInjective
<1>5. slots \in [1 .. v.len -> {NoPage} \cup Pages]
  BY DEF Slots
<1>6. v.len \in Nat /\ n \in Nat /\ n <= v.len
  BY MemdevAssumption DEF Types, Vma, MemdevAssumption
<1>7. array \in [1 .. n -> Pages]
  BY <1>4, <1>5, <1>6 DEF FreePages
<1>8. array \in Seq(Pages) /\ Len(array) = n /\ DOMAIN array = 1 .. n
  <2> HIDE DEF array
  <2> QED BY <1>6, <1>7
<1>9. InArray(new) \in [Pages -> Nat]
  <2>1. IsFiniteSet(1 .. n)
    <3>1. 1 \in Int /\ n \in Int
      BY <1>6
    <3> QED BY <3>1, FS_Interval
  <2>2. null \in SUBSET (1 .. n) /\ DOMAIN new = null
    BY <1>4
  <2>3. IsFiniteSet(DOMAIN new)
    BY <2>1, <2>2, FS_Subset
  <2> QED BY <2>3, ArrayCounts
<1>10. ASSUME InitOnAlloc
       PROVE  array = new /\ null = 1 .. n
  <2>1. slots \in [1 .. v.len -> {NoPage}]
    BY <1>10 DEF Slots
  <2>2. null = 1 .. n
    BY <1>6, <2>1
  <2> QED BY <1>4, <2>2
<1>11. held' = [held EXCEPT ![p] = array]
       /\ pc' = [pc EXCEPT ![p] = IF n = v.len THEN "map" ELSE "err"]
  BY <1>2, <1>3
<1> HIDE DEF array
<1>12. InitOnAlloc => /\ InArray(new) = InArray(array)
                      /\ \A i \in DOMAIN array : array[i] \in FreePages
                      /\ \A i, j \in DOMAIN array : array[i] = array[j] => i = j
  BY <1>4, <1>10
<1> HIDE DEF null
<1>13. ref' = GetPages(InArray(new)) /\ Len(array) <= v.len
  BY <1>3, <1>6, <1>8
<1>14. pc' = [pc EXCEPT ![p] = IF Len(array) = v.len THEN "map" ELSE "err"]
  BY <1>8, <1>11
<1> QED BY <1>8, <1>9, <1>11, <1>12, <1>13, <1>14

\* What mmap and the vma close change keeps its type.
LEMMA HandlerTypes ==
  ASSUME Types, HeldArrays, NEW p \in Procs, HandlerStep(p)
  PROVE  Types'
<1> USE DEF mmUnchanged, modVars, fileVars
<1>1. CASE AllocPages(p)
  <2>1. PICK v \in pending[p], array \in Seq(Pages), count \in [Pages -> Nat] :
          /\ held' = [held EXCEPT ![p] = array]
          /\ ref' = GetPages(count)
          /\ pc' = [pc EXCEPT ![p] = IF Len(array) = v.len THEN "map" ELSE "err"]
    BY <1>1, AllocArray
  <2>2. ref' \in [Pages -> Int]
    BY <2>1, PageRefTypes
  <2>3. held' \in [Procs -> Seq(Pages)]
    BY <2>1 DEF Types
  <2>4. pc' \in [Procs -> {"idle", "alloc", "map", "region", "count", "err", "undo", "zap", "close"}]
    BY <2>1 DEF Types
  <2> QED BY <1>1, <2>2, <2>3, <2>4 DEF AllocPages, Types
<1>2. CASE map_pages_to_vma(p)
  <2>0. PICK v \in pending[p] : \E n \in 0 .. v.len :
          /\ pt' = [pt EXCEPT ![p] = [a \in Addrs |-> IF a \in v.lo .. (v.lo + n - 1)
                                                     THEN held[p][a - v.lo + 1] ELSE @[a]]]
          /\ ref' = GetPages(InArray(SubSeq(held[p], 1, n)))
          /\ pc' = [pc EXCEPT ![p] = AfterMap(v, n)]
    BY <1>2 DEF map_pages_to_vma
  <2>1. PICK n \in 0 .. v.len :
          /\ pt' = [pt EXCEPT ![p] = [a \in Addrs |-> IF a \in v.lo .. (v.lo + n - 1)
                                                     THEN held[p][a - v.lo + 1] ELSE @[a]]]
          /\ ref' = GetPages(InArray(SubSeq(held[p], 1, n)))
          /\ pc' = [pc EXCEPT ![p] = AfterMap(v, n)]
    BY <2>0
  <2>2. Len(held[p]) = v.len /\ v \in Vma
    BY <1>2 DEF HeldArrays, map_pages_to_vma
  <2>3. v.lo \in Nat /\ v.len \in Nat /\ held[p] \in Seq(Pages)
    BY <2>2, VmaNumbers DEF Types
  <2>4. \A i \in 1 .. n : held[p][i] \in Pages
    BY <2>2, <2>3
  <2>5. ref' \in [Pages -> Int]
    <3>1. SubSeq(held[p], 1, n) \in Seq(Pages)
      BY <2>2, <2>3
    <3> QED BY <2>1, <3>1, SlotsFinite, ArrayCounts, PageRefTypes
  <2>6. \A a \in v.lo .. (v.lo + n - 1) : held[p][a - v.lo + 1] \in Pages
    BY <2>3, <2>4
  <2>7. pt' \in [Procs -> [Addrs -> Pages \cup {NoPage, AnonPage}]]
    BY <2>1, <2>6 DEF Types
  <2>8. pc' \in [Procs -> {"idle", "alloc", "map", "region", "count", "err", "undo", "zap", "close"}]
    BY <2>1 DEF AfterMap, Types
  <2> QED BY <1>2, <2>5, <2>7, <2>8 DEF map_pages_to_vma, Types
<1>3. CASE RegionFails(p) BY <1>3 DEF RegionFails, Types
<1>4. CASE ListRegion(p)
  <2>1. PICK v \in pending[p] : regions' = regions \cup
          {[mm |-> p, user_va |-> v.lo, file |-> v.file, pages |-> held[p]]}
    BY <1>4 DEF ListRegion
  <2>2. regions' \subseteq Region
    BY <2>1 DEF Types, Region, Vma
  <2>3. IsFiniteSet(regions')
    BY <2>1, FS_AddElement DEF Types
  <2> QED BY <1>4, <2>2, <2>3 DEF ListRegion, Types
<1>5. CASE CountRegion(p) BY <1>5 DEF CountRegion, Types
<1>6. CASE err_free_pages(p)
  <2>1. ref' \in [Pages -> Int]
    <3>1. InArray(held[p]) \in [Pages -> Nat]
      BY SlotsFinite, ArrayCounts DEF Types
    <3> QED BY <1>6, <3>1, PageRefTypes DEF err_free_pages, Allocated
  <2>2. held' \in [Procs -> Seq(Pages)]
    BY <1>6 DEF err_free_pages, Types
  <2> QED BY <1>6, <2>1, <2>2 DEF err_free_pages, Types
<1>7. CASE MmapUndo(p)
  <2>1. PICK v \in pending[p] : Zap(p, Span(v))
    BY <1>7 DEF MmapUndo
  <2>2. pt' \in [Procs -> [Addrs -> Pages \cup {NoPage, AnonPage}]] /\ ref' \in [Pages -> Int]
    BY <2>1, ZapTypes
  <2> QED BY <1>7, <2>2 DEF MmapUndo, Types
<1>8. CASE memdev_vma_close(p)
  <2>1. PICK v \in pending[p] :
          /\ \/ UNCHANGED <<regions, ref, mapped_count>>
             \/ \E r \in Matches(Tgid[closer[p]], v.lo) : free_mapped_region({r})
          /\ pending' = [pending EXCEPT ![p] = @ \ {v}]
    BY <1>8 DEF memdev_vma_close
  <2>2. /\ regions' \subseteq Region /\ IsFiniteSet(regions')
        /\ ref' \in [Pages -> Int] /\ mapped_count' \in Int
    <3>1. CASE UNCHANGED <<regions, ref, mapped_count>>
      BY <3>1 DEF Types
    <3>2. ASSUME NEW r \in Matches(Tgid[closer[p]], v.lo), free_mapped_region({r})
          PROVE  /\ regions' \subseteq Region /\ IsFiniteSet(regions')
                 /\ ref' \in [Pages -> Int] /\ mapped_count' \in Int
      <4>1. {r} \in SUBSET regions
        BY DEF Matches, RegionsOf
      <4> QED BY <3>2, <4>1, FreeTypes
    <3> QED BY <2>1, <3>1, <3>2
  <2>3. pending' \in [Procs -> SUBSET Vma]
    BY <2>1 DEF Types
  <2>4. pc' \in [Procs -> {"idle", "alloc", "map", "region", "count", "err", "undo", "zap", "close"}]
    BY <1>8 DEF memdev_vma_close, Types
  <2> QED BY <1>8, <2>2, <2>3, <2>4 DEF memdev_vma_close, Types
<1>9. CASE ZapRange(p)
  <2>1. pt' \in [Procs -> [Addrs -> Pages \cup {NoPage, AnonPage}]] /\ ref' \in [Pages -> Int]
    BY <1>9, ZapTypes DEF ZapRange
  <2> QED BY <1>9, <2>1 DEF ZapRange, Types
<1> QED BY <1>1, <1>2, <1>3, <1>4, <1>5, <1>6, <1>7, <1>8, <1>9 DEF HandlerStep

\* What a teardown changes keeps its type.
LEMMA TearDownTypes ==
  ASSUME Types, NEW p \in Procs, NEW c \in Procs, TearDown(p, c)
  PROVE  /\ vmas' \subseteq Vma
         /\ pt' \in [Procs -> [Addrs -> Pages \cup {NoPage, AnonPage}]]
         /\ ref' \in [Pages -> Int]
         /\ pc' \in [Procs -> {"idle", "alloc", "map", "region", "count", "err", "undo", "zap",
                              "close"}]
         /\ pending' \in [Procs -> SUBSET Vma]
         /\ closer' \in [Procs -> Procs]
<1>1. /\ pt' \in [Procs -> [Addrs -> Pages \cup {NoPage, AnonPage}]]
      /\ ref' \in [Pages -> Int]
  BY ZapTypes DEF TearDown
<1>2. vmas' \subseteq Vma /\ CloseVmas(p, {v \in vmas : v.mm = p}, c)
  BY DEF TearDown, Types
<1> QED BY <1>1, <1>2 DEF CloseVmas, Types

\* What the system calls of a process change keeps its type.
LEMMA UserTypes ==
  ASSUME Types, NEW p \in Procs, UserStep(p)
  PROVE  Types'
<1>1. ASSUME NEW f \in Files, ChrdevOpen(p, f) PROVE Types'
  BY <1>1 DEF ChrdevOpen, FopsOwner, fsUnchanged, modVars, mmVars, Types
<1>2. ASSUME NEW f \in Files, Close(p, f) PROVE Types'
  BY <1>2 DEF Close, CloseFd, fsUnchanged, modVars, mmVars, Types
<1>3. ASSUME NEW f \in Files, NEW lo \in Addrs, NEW len \in 1 .. MaxLen,
             MmapStart(p, f, lo, len)
      PROVE  Types'
  BY <1>3 DEF MmapStart, mmUnchanged, modVars, fileVars, Vma, Types
<1>4. ASSUME NEW lo \in Addrs, NEW hi \in Addrs, Munmap(p, lo, hi) PROVE Types'
  <2> DEFINE cut    == {v \in vmas : v.mm = p /\ Span(v) \cap (lo .. hi) # {}}
             pieces == UNION {Pieces(v, lo, hi) : v \in cut}
             gone   == {w \in pieces : Span(w) \subseteq lo .. hi}
  <2>1. pieces \subseteq Vma
    BY PiecesAreVmas
  <2>2. vmas' \subseteq Vma /\ pending' \in [Procs -> SUBSET Vma]
    <3>1. vmas' = (vmas \ cut) \cup (pieces \ gone)
      BY <1>4 DEF Munmap
    <3>2. pending' = [pending EXCEPT ![p] = gone]
      BY <1>4 DEF Munmap
    <3> HIDE DEF cut, pieces
    <3> QED BY <2>1, <3>1, <3>2 DEF Types
  <2>3. pc' \in [Procs -> {"idle", "alloc", "map", "region", "count", "err", "undo", "zap", "close"}]
    BY <1>4 DEF Munmap, Types
  <2> QED BY <1>4, <2>2, <2>3 DEF Munmap, mmUnchanged, modVars, fileVars, Types
<1>5. ASSUME NEW c \in Procs, Fork(p, c) PROVE Types'
  <2>1. ref' \in [Pages -> Int]
    BY <1>5, TableCounts, PageRefTypes DEF Fork
  <2>2. \A v \in vmas : [v EXCEPT !.mm = c] \in Vma
    <3>1. \A v \in Vma : [v EXCEPT !.mm = c] \in Vma
      BY DEF Vma
    <3> QED BY <3>1 DEF Types
  <2>3. vmas' \subseteq Vma
    BY <1>5, <2>2 DEF Fork, Types
  <2>4. fds' \subseteq Procs \X Files
    <3>1. fds' = fds \cup {<<c, f>> : f \in {g \in Files : <<p, g>> \in fds}}
      BY <1>5 DEF Fork
    <3>2. fds \subseteq Procs \X Files
      BY DEF Types
    <3>3. \A f \in Files : <<c, f>> \in Procs \X Files
      OBVIOUS
    <3> QED BY <3>1, <3>2, <3>3
  <2> QED BY <1>5, <2>1, <2>3, <2>4 DEF Fork, modVars, Types
<1> USE DEF endUnchanged, modVars
<1>6. CASE Exit(p)
  BY <1>6, TearDownTypes DEF Exit, Types
<1>7. CASE Leave(p)
  BY <1>7 DEF Leave, Types
<1>8. ASSUME NEW c \in Procs, Exec(p, c) PROVE Types'
  <2>1. fds' \subseteq Procs \X Files
    <3>1. \A d \in fds : d[1] \in Procs /\ d[2] \in Files
      BY DEF Types
    <3> QED BY <1>8, <3>1 DEF Exec
  <2>2. life' \in [Procs -> {"unborn", "alive", "left", "dead"}]
    BY <1>8 DEF Exec, Types
  <2>3. CASE TearDown(p, c)
    BY <1>8, <2>1, <2>2, <2>3, TearDownTypes DEF Exec, Types
  <2>4. CASE UNCHANGED <<vmas, pt, ref, pc, pending, closer>>
    BY <1>8, <2>1, <2>2, <2>4 DEF Exec, Types
  <2> QED BY <1>8, <2>3, <2>4 DEF Exec
<1>9. ASSUME NEW c \in Procs, LastMmput(p, c) PROVE Types'
  BY <1>9, TearDownTypes DEF LastMmput, Types
<1>10. ASSUME NEW a \in Addrs, WriteFault(p, a) PROVE Types'
  <2>1. ref' \in [Pages -> Int]
    BY <1>10, TableCounts, PageRefTypes DEF WriteFault
  <2>2. pt' \in [Procs -> [Addrs -> Pages \cup {NoPage, AnonPage}]]
    BY <1>10 DEF WriteFault, Types
  <2> QED BY <1>10, <2>1, <2>2 DEF WriteFault, mmUnchanged, fileVars, Types
<1> QED BY <1>1, <1>2, <1>3, <1>4, <1>5, <1>6, <1>7, <1>8, <1>9, <1>10 DEF UserStep

\* Every step keeps the types.
LEMMA TypesPreserved ==
  ASSUME Types, Registration, HeldArrays, [Next]_vars
  PROVE  Types'
<1>1. CASE ModuleStep BY <1>1, ModuleTypes
<1>2. ASSUME NEW f \in Files, FileStep(f) PROVE Types' BY <1>2, FileTypes
<1>3. ASSUME NEW p \in Procs, HandlerStep(p) PROVE Types' BY <1>3, HandlerTypes
<1>4. ASSUME NEW p \in Procs, UserStep(p) PROVE Types' BY <1>4, UserTypes
<1>5. CASE UNCHANGED vars BY <1>5 DEF vars, Types
<1> QED BY <1>1, <1>2, <1>3, <1>4, <1>5 DEF Next

-------------------------------------------------------------------------------
(* The other parts of the invariant, by who changes them.                  *)

\* insmod, rmmod: the node exists only while the module is live.
LEMMA RegistrationPreserved ==
  ASSUME Types, Registration, [Next]_vars
  PROVE  Registration'
<1> USE DEF Types, Registration
<1>1. CASE ModuleStep
  BY <1>1 DEF ModuleStep, Insmod, memdev_init, InitFails, Unregister, Rmmod, ExitCheck,
              ExitFree
<1>2. ASSUME NEW f \in Files, FileStep(f) PROVE UNCHANGED modVars
  BY <1>2 DEF FileStep, memdev_open_get, memdev_open_link, OpenFailed, memdev_release,
              memdev_release_put, Fput, ExitFiles, CloseFd, fsUnchanged
<1>3. ASSUME NEW p \in Procs, HandlerStep(p) PROVE UNCHANGED modVars
  BY <1>3 DEF HandlerStep, AllocPages, map_pages_to_vma, RegionFails, ListRegion,
              CountRegion, err_free_pages, MmapUndo, ZapRange, memdev_vma_close, mmUnchanged
<1>4. ASSUME NEW p \in Procs, UserStep(p) PROVE UNCHANGED modVars
  BY <1>4 DEF UserStep, ChrdevOpen, Close, CloseFd, MmapStart, Munmap, WriteFault, Fork, Exit,
              Leave, Exec, LastMmput, endUnchanged, fsUnchanged,
              mmUnchanged
<1>5. CASE UNCHANGED vars BY <1>5 DEF vars, modVars
<1> QED BY <1>1, <1>2, <1>3, <1>4, <1>5 DEF Next, modVars

\* open, release and fput move a file to and from "open" only while nothing but
\* its opener refers to it.
LEMMA ReferencesByFileStep ==
  ASSUME Types, ReferencedAreOpen, NEW f \in Files, FileStep(f)
  PROVE  ReferencedAreOpen'
<1> USE DEF Types, ReferencedAreOpen, fsUnchanged, mmVars
<1>1. CASE memdev_open_get(f)
  <2>1. /\ fstate[f] = "open_get"
        /\ fstate' = [fstate EXCEPT ![f] = "open_link"]
           \/ fstate' = [fstate EXCEPT ![f] = "open_failed"]
        /\ UNCHANGED <<fds, vmas, pending, opener>>
    BY <1>1 DEF memdev_open_get
  <2>2. \A g \in Files : /\ fstate[g] = "open" => fstate'[g] = "open"
                         /\ fstate[g] \in {"open_get", "open_link", "open_failed"} =>
                              fstate'[g] \in {"open_get", "open_link", "open_failed"}
    BY <2>1
  <2>3. (\A d \in fds : d[2] \in Files) /\ (\A v \in Vma : v.file \in Files)
    BY DEF Vma
  <2> QED BY <2>1, <2>2, <2>3
<1>2. ASSUME NEW p \in Procs, memdev_open_link(p, f) PROVE ReferencedAreOpen'
  BY <1>2 DEF memdev_open_link
<1>3. ASSUME NEW p \in Procs, OpenFailed(p, f) PROVE ReferencedAreOpen'
  BY <1>3 DEF OpenFailed
<1>4. CASE memdev_release(f) 
  <2>1. /\ \A v \in vmas : v.file # f
        /\ \A p \in Procs : \A v \in pending[p] : v.file # f
    BY <1>4 DEF memdev_release, Referenced
  <2>2. \A d \in fds : d[2] # f
    <3>1. \A d \in fds : d \in Procs \X Files
      OBVIOUS
    <3>2. \A d \in Procs \X Files : d = <<d[1], d[2]>> /\ d[1] \in Procs
      OBVIOUS
    <3>3. \A p \in Procs : <<p, f>> \notin fds
      BY <1>4 DEF memdev_release, Referenced
    <3> QED BY <3>1, <3>2, <3>3
  <2> QED BY <1>4, <2>1, <2>2 DEF memdev_release
<1>5. CASE memdev_release_put(f) BY <1>5 DEF memdev_release_put
<1>6. CASE Fput(f) BY <1>6 DEF Fput
<1>7. ASSUME NEW p \in Procs, ExitFiles(p, f) PROVE ReferencedAreOpen'
  BY <1>7 DEF ExitFiles, CloseFd
<1> QED BY <1>1, <1>2, <1>3, <1>4, <1>5, <1>6, <1>7 DEF FileStep

\* mmap and close hand over or drop vmas that already refer to open files.
LEMMA ReferencesByHandlerStep ==
  ASSUME Types, ReferencedAreOpen, NEW p \in Procs, HandlerStep(p)
  PROVE  ReferencedAreOpen'
<1>1. UNCHANGED <<fds, fstate, opener>>
  BY DEF HandlerStep, AllocPages, map_pages_to_vma, RegionFails, ListRegion, CountRegion,
         err_free_pages, MmapUndo, ZapRange, memdev_vma_close, mmUnchanged, fileVars
<1>2. pending \in [Procs -> SUBSET Vma]
  BY DEF Types
<1>3. /\ vmas' \subseteq vmas \cup pending[p]
      /\ \A q \in Procs : pending'[q] \subseteq pending[q]
  <2>1. CASE AllocPages(p) \/ map_pages_to_vma(p) \/ RegionFails(p) \/ ListRegion(p)
             \/ err_free_pages(p) \/ ZapRange(p)
    <3>1. UNCHANGED <<vmas, pending>>
      BY <2>1 DEF AllocPages, map_pages_to_vma, RegionFails, ListRegion, err_free_pages, ZapRange
    <3> QED BY <3>1
  <2>2. CASE CountRegion(p)
    <3>1. vmas' = vmas \cup pending[p] /\ pending' = [pending EXCEPT ![p] = {}]
      BY <2>2 DEF CountRegion
    <3> QED BY <3>1, <1>2
  <2>3. CASE MmapUndo(p)
    <3>1. vmas' = vmas /\ pending' = [pending EXCEPT ![p] = {}]
      BY <2>3 DEF MmapUndo
    <3> QED BY <3>1, <1>2
  <2>4. CASE memdev_vma_close(p)
    <3>1. vmas' = vmas /\ \E v : pending' = [pending EXCEPT ![p] = @ \ {v}]
      BY <2>4 DEF memdev_vma_close
    <3> QED BY <3>1, <1>2
  <2> QED BY <2>1, <2>2, <2>3, <2>4 DEF HandlerStep
<1> QED BY <1>1, <1>3 DEF ReferencedAreOpen

\* System calls refer to files through descriptors and vmas that exist.
LEMMA ReferencesByUserStep ==
  ASSUME Types, ReferencedAreOpen, NEW p \in Procs, UserStep(p)
  PROVE  ReferencedAreOpen'
<1>1. ASSUME NEW f \in Files, ChrdevOpen(p, f) PROVE ReferencedAreOpen'
  <2>1. /\ fstate[f] = "none" /\ fstate' = [fstate EXCEPT ![f] = "open_get"]
        /\ opener' = [opener EXCEPT ![p] = @ \cup {f}]
        /\ fds' = fds /\ vmas' = vmas /\ pending' = pending
    BY <1>1 DEF ChrdevOpen, fsUnchanged, mmVars
  <2>2. /\ fstate'[f] = "open_get" /\ \A g \in Files \ {f} : fstate'[g] = fstate[g]
    BY <2>1 DEF Types
  <2>3. \A q \in Procs : f \notin opener[q]
    BY <2>1 DEF ReferencedAreOpen
  <2>4. /\ opener'[p] = opener[p] \cup {f}
        /\ \A q \in Procs \ {p} : opener'[q] = opener[q]
        /\ \A q \in Procs : opener[q] \subseteq Files
    BY <2>1 DEF Types
  <2>5. /\ \A d \in fds : d[2] \in Files
        /\ \A v \in Vma : v.file \in Files
        /\ vmas \subseteq Vma /\ \A q \in Procs : pending[q] \subseteq Vma
    BY DEF Types, Vma
  <2>6. /\ \A d \in fds' : fstate'[d[2]] = "open"
        /\ \A v \in vmas' : fstate'[v.file] = "open"
        /\ \A q \in Procs : \A v \in pending'[q] : fstate'[v.file] = "open"
    BY <2>1, <2>2, <2>5 DEF ReferencedAreOpen
  <2>7. /\ \A q \in Procs : \A g \in opener'[q] :
             fstate'[g] \in {"open_get", "open_link", "open_failed"}
        /\ \A q, o \in Procs : q # o => opener'[q] \cap opener'[o] = {}
    BY <2>2, <2>3, <2>4 DEF ReferencedAreOpen
  <2> QED BY <2>6, <2>7 DEF ReferencedAreOpen
<1>2. ASSUME NEW f \in Files, Close(p, f) PROVE ReferencedAreOpen'
  BY <1>2 DEF Close, CloseFd, fsUnchanged, mmVars, Types, ReferencedAreOpen
<1>3. ASSUME NEW f \in Files, NEW lo \in Addrs, NEW len \in 1 .. MaxLen,
             MmapStart(p, f, lo, len)
      PROVE  ReferencedAreOpen'
  BY <1>3 DEF MmapStart, mmUnchanged, fileVars, Types, ReferencedAreOpen
<1>4. ASSUME NEW lo \in Addrs, NEW hi \in Addrs, Munmap(p, lo, hi)
      PROVE  ReferencedAreOpen'
  <2> DEFINE cut    == {v \in vmas : v.mm = p /\ Span(v) \cap (lo .. hi) # {}}
             pieces == UNION {Pieces(v, lo, hi) : v \in cut}
             gone   == {w \in pieces : Span(w) \subseteq lo .. hi}
  <2>1. \A w \in pieces : fstate[w.file] = "open"
    BY DEF Pieces, ReferencedAreOpen
  <2>2. vmas' = (vmas \ cut) \cup (pieces \ gone)
    BY <1>4 DEF Munmap
  <2>3. pending' = [pending EXCEPT ![p] = gone] /\ UNCHANGED <<fds, fstate, opener>>
    BY <1>4 DEF Munmap, mmUnchanged, fileVars
  <2> HIDE DEF cut, pieces
  <2> QED BY <2>1, <2>2, <2>3 DEF Types, ReferencedAreOpen
<1>5. ASSUME NEW c \in Procs, Fork(p, c) PROVE ReferencedAreOpen'
  <2>1. \A v \in vmas' : \E w \in vmas : v.file = w.file
    BY <1>5 DEF Fork, Vma, Types
  <2>2. \A d \in fds' : \E e \in fds : d[2] = e[2]
    <3>1. fds' = fds \cup {<<c, f>> : f \in {g \in Files : <<p, g>> \in fds}}
      BY <1>5 DEF Fork
    <3>2. \A f \in Files : <<c, f>>[2] = <<p, f>>[2]
      OBVIOUS
    <3> QED BY <3>1, <3>2
  <2>3. UNCHANGED <<fstate, opener, pending>>
    BY <1>5 DEF Fork
  <2>4. /\ \A d \in fds' : fstate'[d[2]] = "open"
        /\ \A v \in vmas' : fstate'[v.file] = "open"
    BY <2>1, <2>2, <2>3 DEF ReferencedAreOpen
  <2> QED BY <2>3, <2>4 DEF ReferencedAreOpen
<1> USE DEF endUnchanged
<1>6. ASSUME NEW c \in Procs, TearDown(p, c), UNCHANGED <<fds, fstate, opener>>
      PROVE  ReferencedAreOpen'
  BY <1>6 DEF TearDown, CloseVmas, Types, ReferencedAreOpen
<1>7. CASE Exit(p)
  BY <1>6, <1>7 DEF Exit
<1>8. CASE Leave(p)
  BY <1>8 DEF Leave, ReferencedAreOpen
<1>9. ASSUME NEW c \in Procs, Exec(p, c) PROVE ReferencedAreOpen'
  <2>1. \A d \in fds' : \E e \in fds : d[2] = e[2]
    BY <1>9 DEF Exec
  <2>2. CASE TearDown(p, c)
    BY <1>9, <2>1, <2>2 DEF Exec, TearDown, CloseVmas, Types, ReferencedAreOpen
  <2>3. CASE UNCHANGED <<vmas, pt, ref, pc, pending, closer>>
    BY <1>9, <2>1, <2>3 DEF Exec, ReferencedAreOpen
  <2> QED BY <1>9, <2>2, <2>3 DEF Exec
<1>10. ASSUME NEW c \in Procs, LastMmput(p, c) PROVE ReferencedAreOpen'
  BY <1>6, <1>10 DEF LastMmput
<1>11. ASSUME NEW a \in Addrs, WriteFault(p, a) PROVE ReferencedAreOpen'
  BY <1>11 DEF WriteFault, mmUnchanged, fileVars, ReferencedAreOpen
<1> QED BY <1>1, <1>2, <1>3, <1>4, <1>5, <1>7, <1>8, <1>9, <1>10, <1>11 DEF UserStep

\* What munmap removes of a vma it cuts is a vma.
LEMMA CutNotEmpty ==
  ASSUME NEW v \in Vma, NEW lo \in Addrs, NEW hi \in Addrs, Span(v) \cap (lo .. hi) # {}
  PROVE  \E w \in Pieces(v, lo, hi) : Span(w) \subseteq lo .. hi
<1>1. PICK a \in Span(v) : a \in lo .. hi
  OBVIOUS
<1>2. /\ v.lo \in Nat /\ v.len \in Nat /\ lo \in Nat /\ hi \in Nat
      /\ v.lo <= a /\ a < v.lo + v.len /\ lo <= a /\ a <= hi /\ a \in Nat
  BY <1>1, VmaNumbers, MemdevAssumption DEF Span, MemdevAssumption
<1> DEFINE first == IF v.lo <= lo THEN lo ELSE v.lo
           last  == IF hi < v.lo + v.len THEN hi ELSE v.lo + v.len - 1
           w     == [mm |-> v.mm, lo |-> first, len |-> last - first + 1, file |-> v.file]
<1>3. last - first + 1 \in 1 .. v.len
  BY <1>2
<1>4. w \in Vma
  <2>1. v.mm \in Procs /\ v.file \in Files /\ v.lo \in Addrs /\ v.len \in 1 .. MaxLen
    BY DEF Vma
  <2>2. last - first + 1 \in 1 .. MaxLen
    <3>1. MaxLen \in Nat /\ v.len <= MaxLen
      BY <2>1, MemdevAssumption DEF MemdevAssumption
    <3> HIDE DEF first, last
    <3> QED BY <1>2, <1>3, <3>1
  <2>3. first \in Addrs
    BY <2>1
  <2> HIDE DEF first, last
  <2> QED BY <2>1, <2>2, <2>3 DEF Vma
<1>5. Span(w) = Span(v) \cap (lo .. hi)
  <2>1. Span(w) = first .. last
    <3>1. first \in Nat /\ last \in Int
      BY <1>2
    <3> HIDE DEF first, last
    <3> QED BY <3>1 DEF Span
  <2>2. first .. last = (v.lo .. (v.lo + v.len - 1)) \cap (lo .. hi)
    BY <1>2
  <2> QED BY <2>1, <2>2 DEF Span
<1>6. w.mm = v.mm /\ w.file = v.file
  OBVIOUS
<1> HIDE DEF w
<1>7. w \in Pieces(v, lo, hi)
  BY <1>4, <1>5, <1>6 DEF Pieces
<1> QED BY <1>5, <1>7

\* A handler leaves its mmap_lock when it has no vma left to work on.
LEMMA HandlersPreserved ==
  ASSUME Types, HandlersPinFiles, [Next]_vars
  PROVE  HandlersPinFiles'
<1> USE DEF Types, HandlersPinFiles
<1>1. CASE ModuleStep
  BY <1>1 DEF ModuleStep, Insmod, memdev_init, InitFails, Unregister, Rmmod, ExitCheck,
              ExitFree, memdevUnchanged, mmVars
<1>2. ASSUME NEW f \in Files, FileStep(f) PROVE HandlersPinFiles'
  BY <1>2 DEF FileStep, memdev_open_get, memdev_open_link, OpenFailed, memdev_release,
              memdev_release_put, Fput, ExitFiles, CloseFd, fsUnchanged, mmVars
<1>3. ASSUME NEW p \in Procs, HandlerStep(p) PROVE HandlersPinFiles'
  <2>1. ASSUME ~memdev_vma_close(p)
        PROVE  /\ \A q \in Procs \ {p} : pc'[q] = pc[q] /\ pending'[q] = pending[q]
               /\ pc[p] # "idle" /\ (pc'[p] = "idle" \/ pending'[p] = pending[p])
    BY <1>3, <2>1 DEF HandlerStep, AllocPages, map_pages_to_vma, RegionFails, ListRegion,
                      CountRegion, err_free_pages, MmapUndo, ZapRange
  <2>2. ASSUME memdev_vma_close(p)
        PROVE  /\ \A q \in Procs \ {p} : pc'[q] = pc[q] /\ pending'[q] = pending[q]
               /\ pc'[p] # "idle" => pending'[p] # {}
    BY <2>2 DEF memdev_vma_close
  <2> QED BY <2>1, <2>2
<1>4. ASSUME NEW p \in Procs, UserStep(p) PROVE HandlersPinFiles'
  <2>1. ASSUME NEW f \in Files, ChrdevOpen(p, f) \/ Close(p, f) PROVE UNCHANGED mmVars
    BY <2>1 DEF ChrdevOpen, Close, CloseFd, fsUnchanged
  <2>2. ASSUME NEW f \in Files, NEW lo \in Addrs, NEW len \in 1 .. MaxLen,
               MmapStart(p, f, lo, len)
        PROVE  HandlersPinFiles'
    BY <2>2 DEF MmapStart
  <2>3. ASSUME NEW c \in Procs, TearDown(p, c) PROVE HandlersPinFiles'
    BY <2>3 DEF TearDown, CloseVmas
  <2>4. ASSUME NEW lo \in Addrs, NEW hi \in Addrs, Munmap(p, lo, hi)
        PROVE  HandlersPinFiles'
    <3> DEFINE cut    == {v \in vmas : v.mm = p /\ Span(v) \cap (lo .. hi) # {}}
               pieces == UNION {Pieces(v, lo, hi) : v \in cut}
               gone   == {w \in pieces : Span(w) \subseteq lo .. hi}
    <3>1. cut # {} /\ pending' = [pending EXCEPT ![p] = gone] /\ pc' = [pc EXCEPT ![p] = "zap"]
      BY <2>4 DEF Munmap
    <3>2. gone # {}
      <4>1. PICK v \in cut : v \in Vma /\ Span(v) \cap (lo .. hi) # {}
        BY <3>1
      <4>2. PICK w \in Pieces(v, lo, hi) : Span(w) \subseteq lo .. hi
        BY <4>1, CutNotEmpty
      <4> QED BY <4>2
    <3> HIDE DEF gone
    <3> QED BY <3>1, <3>2
  <2>5. ASSUME NEW c \in Procs, Fork(p, c) PROVE HandlersPinFiles'
    BY <2>5 DEF Fork
  <2>6. ASSUME Leave(p) \/ \E a \in Addrs : WriteFault(p, a)
        PROVE  UNCHANGED <<pc, pending>>
    BY <2>6 DEF Leave, WriteFault
  <2>7. CASE Exit(p) BY <2>3, <2>7 DEF Exit
  <2>8. ASSUME NEW c \in Procs, Exec(p, c) PROVE HandlersPinFiles'
    BY <2>3, <2>8 DEF Exec
  <2>9. ASSUME NEW c \in Procs, LastMmput(p, c) PROVE HandlersPinFiles'
    BY <2>3, <2>9 DEF LastMmput
  <2> QED BY <1>4, <2>1, <2>2, <2>4, <2>5, <2>6, <2>7, <2>8, <2>9 DEF UserStep, mmVars
<1>5. CASE UNCHANGED vars BY <1>5 DEF vars
<1> QED BY <1>1, <1>2, <1>3, <1>4, <1>5 DEF Next

\* mmap fills its array before it maps it, and nobody else touches it.
LEMMA HeldArraysPreserved ==
  ASSUME Types, HeldArrays, [Next]_vars
  PROVE  HeldArrays'
<1> SUFFICES ASSUME NEW q \in Procs
             PROVE  /\ pc'[q] = "alloc" => \E v \in Vma : pending'[q] = {v}
                    /\ pc'[q] \in {"map", "region"} =>
                         \E v \in Vma : pending'[q] = {v} /\ Len(held'[q]) = v.len
  BY DEF HeldArrays
<1>0. /\ pc[q] = "alloc" => \E v \in Vma : pending[q] = {v}
      /\ pc[q] \in {"map", "region"} =>
           \E v \in Vma : pending[q] = {v} /\ Len(held[q]) = v.len
  BY DEF HeldArrays
<1>1. CASE pc'[q] = pc[q] /\ pending'[q] = pending[q] /\ held'[q] = held[q]
  BY <1>0, <1>1
<1>2. CASE pc'[q] \notin {"alloc", "map", "region"}
  BY <1>2
<1>3. CASE ModuleStep
  BY <1>1, <1>3 DEF ModuleStep, Insmod, memdev_init, InitFails, Unregister, Rmmod, ExitCheck,
                    ExitFree, memdevUnchanged, mmVars
<1>4. ASSUME NEW f \in Files, FileStep(f) PROVE UNCHANGED <<pc, pending, held>>
  BY <1>4 DEF FileStep, memdev_open_get, memdev_open_link, OpenFailed, memdev_release,
              memdev_release_put, Fput, ExitFiles, CloseFd, fsUnchanged, mmVars
<1>5. ASSUME NEW p \in Procs \ {q}, HandlerStep(p)
      PROVE  pc'[q] = pc[q] /\ pending'[q] = pending[q] /\ held'[q] = held[q]
  <2>1. pc'[q] = pc[q]
    BY <1>5 DEF HandlerStep, AllocPages, map_pages_to_vma, RegionFails, ListRegion,
              CountRegion, err_free_pages, MmapUndo, ZapRange, memdev_vma_close, Types
  <2>2. pending'[q] = pending[q]
    BY <1>5 DEF HandlerStep, AllocPages, map_pages_to_vma, RegionFails, ListRegion,
              CountRegion, err_free_pages, MmapUndo, ZapRange, memdev_vma_close, Types
  <2>3. held'[q] = held[q]
    <3>1. \E array : held' = [held EXCEPT ![p] = array] \/ held' = held
      BY <1>5, AllocArray DEF HandlerStep, map_pages_to_vma, RegionFails, ListRegion,
              CountRegion, err_free_pages, MmapUndo, ZapRange, memdev_vma_close
    <3> QED BY <1>5, <3>1 DEF Types
  <2> QED BY <2>1, <2>2, <2>3
<1>13. ASSUME HandlerStep(q)
       PROVE  \/ pc'[q] \notin {"alloc", "map", "region"}
              \/ AllocPages(q)
              \/ map_pages_to_vma(q) /\ pending' = pending /\ held' = held
  <2>1. \A x : pc' = [pc EXCEPT ![q] = x] => pc'[q] = x
    BY DEF Types
  <2>2. ASSUME RegionFails(q) PROVE pc'[q] = "err" BY <2>1, <2>2 DEF RegionFails
  <2>3. ASSUME ListRegion(q) PROVE pc'[q] = "count" BY <2>1, <2>3 DEF ListRegion
  <2>4. ASSUME CountRegion(q) PROVE pc'[q] = "idle" BY <2>1, <2>4 DEF CountRegion
  <2>5. ASSUME err_free_pages(q) PROVE pc'[q] = "undo" BY <2>1, <2>5 DEF err_free_pages
  <2>6. ASSUME MmapUndo(q) PROVE pc'[q] = "idle" BY <2>1, <2>6 DEF MmapUndo
  <2>7. ASSUME ZapRange(q) PROVE pc'[q] = "close" BY <2>1, <2>7 DEF ZapRange
  <2>8. ASSUME memdev_vma_close(q) PROVE pc'[q] \in {"idle", "close"}
    BY <2>1, <2>8 DEF memdev_vma_close
  <2>9. ASSUME map_pages_to_vma(q) PROVE pending' = pending /\ held' = held
    BY <2>9 DEF map_pages_to_vma
  <2> QED BY <1>13, <2>2, <2>3, <2>4, <2>5, <2>6, <2>7, <2>8, <2>9 DEF HandlerStep
<1>6. ASSUME AllocPages(q)
      PROVE  pc'[q] = "map" => \E v \in Vma : pending'[q] = {v} /\ Len(held'[q]) = v.len
  <2>1. PICK v \in pending[q], array \in Seq(Pages), count \in [Pages -> Nat] :
          /\ held' = [held EXCEPT ![q] = array]
          /\ pc' = [pc EXCEPT ![q] = IF Len(array) = v.len THEN "map" ELSE "err"]
    BY <1>6, AllocArray
  <2>2. held'[q] = array /\ pc'[q] = IF Len(array) = v.len THEN "map" ELSE "err"
    BY <2>1 DEF Types
  <2>3. pending' = pending /\ pending[q] = {v} /\ v \in Vma
    BY <1>0, <1>6 DEF AllocPages
  <2> QED BY <2>2, <2>3
<1>7. ASSUME AllocPages(q) PROVE pc'[q] \in {"map", "err"}
  BY <1>7, AllocArray DEF Types
<1>8. ASSUME map_pages_to_vma(q) PROVE pc[q] = "map"
  BY <1>8 DEF map_pages_to_vma
<1>9. CASE \E p \in Procs : HandlerStep(p)
  <2>1. CASE \E p \in Procs \ {q} : HandlerStep(p) BY <1>1, <1>5, <2>1
  <2>2. CASE HandlerStep(q)
    <3>1. CASE AllocPages(q) BY <1>6, <1>7, <3>1
    <3>2. CASE map_pages_to_vma(q) /\ pending' = pending /\ held' = held
      BY <1>0, <1>8, <3>2
    <3> QED BY <1>2, <1>13, <2>2, <3>1, <3>2
  <2> QED BY <1>9, <2>1, <2>2
<1>10. ASSUME NEW p \in Procs, UserStep(p)
       PROVE  \/ pc'[q] = pc[q] /\ pending'[q] = pending[q] /\ held'[q] = held[q]
              \/ pc'[q] \in {"zap", "idle", "close"}
              \/ pc'[q] = "alloc" /\ \E v \in Vma : pending'[q] = {v}
  <2>1. ASSUME NEW f \in Files, NEW lo \in Addrs, NEW len \in 1 .. MaxLen,
               MmapStart(p, f, lo, len)
        PROVE  \/ pc'[q] = pc[q] /\ pending'[q] = pending[q] /\ held'[q] = held[q]
               \/ pc'[q] = "alloc" /\ \E v \in Vma : pending'[q] = {v}
    <3> DEFINE v == [mm |-> p, lo |-> lo, len |-> len, file |-> f]
    <3>1. v \in Vma
      BY DEF Vma
    <3>2. /\ pc' = [pc EXCEPT ![p] = "alloc"] /\ pending' = [pending EXCEPT ![p] = {v}]
          /\ held' = held
      BY <2>1 DEF MmapStart
    <3> HIDE DEF v
    <3> QED BY <3>1, <3>2 DEF Types
  <2>2. ASSUME NEW c \in Procs, TearDown(p, c), held' = held
        PROVE  \/ pc'[q] = pc[q] /\ pending'[q] = pending[q] /\ held'[q] = held[q]
               \/ pc'[q] \in {"idle", "close"}
    BY <2>2 DEF TearDown, CloseVmas, Types
  <2>3. CASE Exit(p) BY <2>2, <2>3 DEF Exit, endUnchanged
  <2>4. ASSUME NEW c \in Procs, Exec(p, c)
        PROVE  UNCHANGED <<pc, pending, held>> \/ (TearDown(p, c) /\ held' = held)
    BY <2>4 DEF Exec, endUnchanged
  <2>5. ASSUME NEW c \in Procs, LastMmput(p, c) PROVE TearDown(p, c) /\ held' = held
    BY <2>5 DEF LastMmput, endUnchanged
  <2>6. ASSUME NEW lo \in Addrs, NEW hi \in Addrs, Munmap(p, lo, hi)
        PROVE  \/ pc'[q] = pc[q] /\ pending'[q] = pending[q] /\ held'[q] = held[q]
               \/ pc'[q] = "zap"
    BY <2>6 DEF Munmap, Types
  <2>7. ASSUME \/ \E f \in Files : ChrdevOpen(p, f) \/ Close(p, f)
               \/ \E a \in Addrs : WriteFault(p, a)
               \/ Leave(p) \/ \E c \in Procs : Fork(p, c)
        PROVE  UNCHANGED <<pc, pending, held>>
    BY <2>7 DEF ChrdevOpen, Close, CloseFd, WriteFault, Leave, Fork, fsUnchanged, mmVars,
                endUnchanged
  <2> QED BY <1>10, <2>1, <2>2, <2>3, <2>4, <2>5, <2>6, <2>7 DEF UserStep
<1>11. CASE \E p \in Procs : UserStep(p)
  BY <1>1, <1>10, <1>11
<1>12. CASE UNCHANGED vars BY <1>1, <1>12 DEF vars
<1> QED BY <1>1, <1>3, <1>4, <1>9, <1>11, <1>12 DEF Next

\* Pinned and Gotten are finite, so adding or removing one file changes their
\* cardinality by one.
LEMMA FilesFinite ==
  /\ IsFiniteSet(Pinned) /\ Cardinality(Pinned) \in Nat
  /\ IsFiniteSet(Gotten) /\ Cardinality(Gotten) \in Nat
<1>1. IsFiniteSet(Files)
  BY MemdevAssumption DEF MemdevAssumption
<1>2. Pinned \in SUBSET Files /\ Gotten \in SUBSET Files
  BY DEF Pinned, Gotten
<1> QED BY <1>1, <1>2, FS_Subset, FS_CardinalityType

\* A reference count of zero means that no file exists.
LEMMA ZeroRefsNoFile ==
  ASSUME RefsCounted, modref = 0
  PROVE  Pinned = {}
BY FilesFinite, FS_EmptySet DEF RefsCounted

\* rmmod is what a file keeps away; a file appears only under a live module.
LEMMA FilesNeedModulePreserved ==
  ASSUME IInv, [Next]_vars
  PROVE  FilesNeedModule'
<1> USE DEF IInv, Types, FilesNeedModule
<1>1. CASE ModuleStep
  <2>1. fstate' = fstate
    BY <1>1 DEF ModuleStep, Insmod, memdev_init, InitFails, Unregister, Rmmod, ExitCheck,
                ExitFree, memdevUnchanged, fileVars
  <2>2. CASE Rmmod
    <3>1. Pinned = {}
      BY <2>2, ZeroRefsNoFile DEF Rmmod
    <3> QED BY <2>1, <3>1 DEF Pinned
  <2>3. CASE ~Rmmod
    <3>1. mod # "live"
      BY <1>1, <2>3 DEF ModuleStep, Insmod, memdev_init, InitFails, Unregister, ExitCheck,
                        ExitFree
    <3> QED BY <2>1, <3>1
  <2> QED BY <2>2, <2>3
<1>2. ASSUME NEW f \in Files, FileStep(f) PROVE FilesNeedModule'
  <2>1. CASE \E p \in Procs : ExitFiles(p, f)
    BY <2>1 DEF ExitFiles, CloseFd, fsUnchanged, modVars
  <2>2. CASE ~\E p \in Procs : ExitFiles(p, f)
    <3>1. /\ fstate[f] # "none"
          /\ mod' = mod
          /\ \A g \in Files \ {f} : fstate'[g] = fstate[g]
      BY <1>2, <2>2 DEF FileStep, memdev_open_get, memdev_open_link, OpenFailed,
                  memdev_release, memdev_release_put, Fput, fsUnchanged, modVars
    <3> QED BY <3>1
  <2> QED BY <2>1, <2>2
<1>3. ASSUME NEW p \in Procs, HandlerStep(p) PROVE UNCHANGED <<mod, fstate>>
  BY <1>3 DEF HandlerStep, AllocPages, map_pages_to_vma, RegionFails, ListRegion,
              CountRegion, err_free_pages, MmapUndo, ZapRange, memdev_vma_close, mmUnchanged,
              modVars, fileVars
<1>4. ASSUME NEW p \in Procs, UserStep(p) PROVE FilesNeedModule'
  <2>1. ASSUME NEW f \in Files, ChrdevOpen(p, f) PROVE mod' = mod /\ mod = "live"
    BY <2>1 DEF ChrdevOpen, fsUnchanged, modVars, ModuleIsLive, Registration
  <2>2. ASSUME \A f \in Files : ~ChrdevOpen(p, f) PROVE UNCHANGED <<mod, fstate>>
    BY <1>4, <2>2 DEF UserStep, Close, CloseFd, MmapStart, Munmap, WriteFault, Fork, Exit,
              Leave, Exec, LastMmput, endUnchanged, fsUnchanged,
                      mmUnchanged, modVars, fileVars
  <2> QED BY <2>1, <2>2
<1>5. CASE UNCHANGED vars BY <1>5 DEF vars
<1> QED BY <1>1, <1>2, <1>3, <1>4, <1>5 DEF Next

\* Every change of modref goes with a file entering or leaving Pinned or Gotten.
LEMMA RefsPreserved ==
  ASSUME Types, RefsCounted, [Next]_vars
  PROVE  RefsCounted'
<1> USE DEF RefsCounted
<1>1. ASSUME UNCHANGED <<modref, fstate>> PROVE RefsCounted'
  BY <1>1 DEF Pinned, Gotten
<1>2. ASSUME NEW f \in Files, FileStep(f) PROVE RefsCounted'
  <2>1. CASE memdev_open_get(f)
    <3>1. Pinned' = Pinned
      BY <2>1 DEF memdev_open_get, Pinned, Types
    <3>2. CASE fstate' = [fstate EXCEPT ![f] = "open_link"] /\ modref' = modref + 1
      <4>1. Gotten' = Gotten \cup {f} /\ f \notin Gotten
        BY <2>1, <3>2 DEF memdev_open_get, Gotten, Types
      <4>2. Cardinality(Gotten') = Cardinality(Gotten) + 1
        BY <4>1, FilesFinite, FS_AddElement
      <4> QED BY <3>1, <3>2, <4>2, FilesFinite
    <3>3. CASE fstate' = [fstate EXCEPT ![f] = "open_failed"] /\ modref' = modref
      <4>1. Gotten' = Gotten
        BY <2>1, <3>3 DEF memdev_open_get, Gotten, Types
      <4> QED BY <3>1, <3>3, <4>1
    <3> QED BY <2>1, <3>2, <3>3 DEF memdev_open_get, OpenGets, OpenFailedPuts, Types
  <2>2. ASSUME NEW p \in Procs, memdev_open_link(p, f) PROVE RefsCounted'
    BY <2>2 DEF memdev_open_link, Pinned, Gotten, Types
  <2>3. ASSUME NEW p \in Procs, OpenFailed(p, f) PROVE RefsCounted'
    <3>1. Pinned' = Pinned \ {f} /\ f \in Pinned /\ Gotten' = Gotten
      BY <2>3 DEF OpenFailed, Pinned, Gotten, Types
    <3>2. Cardinality(Pinned') = Cardinality(Pinned) - 1
      BY <3>1, FilesFinite, FS_RemoveElement
    <3> QED BY <2>3, <3>1, <3>2, FilesFinite DEF OpenFailed, FopsOwner
  <2>4. CASE memdev_release(f)
    BY <2>4 DEF memdev_release, Pinned, Gotten, Types
  <2>5. CASE memdev_release_put(f)
    <3>1. Gotten' = Gotten \ {f} /\ f \in Gotten /\ Pinned' = Pinned
      BY <2>5 DEF memdev_release_put, Pinned, Gotten, Types
    <3>2. Cardinality(Gotten') = Cardinality(Gotten) - 1
      BY <3>1, FilesFinite, FS_RemoveElement
    <3> QED BY <2>5, <3>1, <3>2, FilesFinite DEF memdev_release_put
  <2>7. ASSUME NEW p \in Procs, ExitFiles(p, f) PROVE RefsCounted'
    BY <1>1, <2>7 DEF ExitFiles, CloseFd
  <2>6. CASE Fput(f)
    <3>1. Pinned' = Pinned \ {f} /\ f \in Pinned /\ Gotten' = Gotten
      BY <2>6 DEF Fput, Pinned, Gotten, Types
    <3>2. Cardinality(Pinned') = Cardinality(Pinned) - 1
      BY <3>1, FilesFinite, FS_RemoveElement
    <3> QED BY <2>6, <3>1, <3>2, FilesFinite DEF Fput, FopsOwner
  <2> QED BY <1>2, <2>1, <2>2, <2>3, <2>4, <2>5, <2>6, <2>7 DEF FileStep
<1>3. ASSUME NEW p \in Procs, NEW f \in Files, ChrdevOpen(p, f) PROVE RefsCounted'
  <2>1. Pinned' = Pinned \cup {f} /\ f \notin Pinned /\ Gotten' = Gotten
    BY <1>3 DEF ChrdevOpen, Pinned, Gotten, Types
  <2>2. Cardinality(Pinned') = Cardinality(Pinned) + 1
    BY <2>1, FilesFinite, FS_AddElement
  <2> QED BY <1>3, <2>1, <2>2, FilesFinite DEF ChrdevOpen, FopsOwner
<1>4. ASSUME NEW p \in Procs, UserStep(p), \A f \in Files : ~ChrdevOpen(p, f)
      PROVE  UNCHANGED <<modref, fstate>>
  BY <1>4 DEF UserStep, Close, CloseFd, MmapStart, Munmap, WriteFault, Fork, Exit,
              Leave, Exec, LastMmput, endUnchanged, fsUnchanged, mmUnchanged,
              fileVars
<1>5. ASSUME NEW p \in Procs, HandlerStep(p) PROVE UNCHANGED <<modref, fstate>>
  BY <1>5 DEF HandlerStep, AllocPages, map_pages_to_vma, RegionFails, ListRegion,
              CountRegion, err_free_pages, MmapUndo, ZapRange, memdev_vma_close, mmUnchanged, fileVars
<1>6. CASE ModuleStep
  BY <1>1, <1>6 DEF ModuleStep, Insmod, memdev_init, InitFails, Unregister, Rmmod,
              ExitCheck, ExitFree, memdevUnchanged, fileVars
<1>7. CASE UNCHANGED vars BY <1>1, <1>7 DEF vars
<1> QED BY <1>1, <1>2, <1>3, <1>4, <1>5, <1>6, <1>7 DEF Next

-------------------------------------------------------------------------------
(* The results.                                                            *)

\* IInv holds initially: there is no module, no file and no handler.
LEMMA InitIInv == Init => IInv
<1> SUFFICES ASSUME Init PROVE IInv
  OBVIOUS
<1>1. Types
  BY MemdevAssumption, FS_EmptySet DEF MemdevAssumption, Init, Types
<1>2. RefsCounted
  <2>1. Pinned = {} /\ Gotten = {}
    BY DEF Init, Pinned, Gotten
  <2> QED BY <2>1, FS_EmptySet DEF Init, RefsCounted
<1>3. Registration /\ ReferencedAreOpen /\ HandlersPinFiles /\ FilesNeedModule /\ HeldArrays
  BY DEF Init, Registration, ReferencedAreOpen, HandlersPinFiles, FilesNeedModule, HeldArrays
<1> QED BY <1>1, <1>2, <1>3 DEF IInv

\* Every step keeps IInv.
LEMMA NextIInv == IInv /\ [Next]_vars => IInv'
<1> SUFFICES ASSUME IInv, [Next]_vars PROVE IInv'
  OBVIOUS
<1> USE DEF IInv
<1>1. Types' BY TypesPreserved
<1>2. Registration' BY RegistrationPreserved
<1>3. RefsCounted' BY RefsPreserved
<1>4. HandlersPinFiles' BY HandlersPreserved
<1>5. FilesNeedModule' BY FilesNeedModulePreserved
<1>7. HeldArrays' BY HeldArraysPreserved
<1>6. ReferencedAreOpen'
  <2>1. CASE ModuleStep
    BY <2>1 DEF ModuleStep, Insmod, memdev_init, InitFails, Unregister, Rmmod, ExitCheck,
                ExitFree, memdevUnchanged, fileVars, mmVars, ReferencedAreOpen
  <2>2. CASE UNCHANGED vars
    BY <2>2 DEF vars, ReferencedAreOpen
  <2> QED BY <2>1, <2>2, ReferencesByFileStep, ReferencesByHandlerStep,
             ReferencesByUserStep DEF Next
<1> QED BY <1>1, <1>2, <1>3, <1>4, <1>5, <1>6, <1>7

\* IInv is an inductive invariant of the memory device.
THEOREM MemdevInvariant == Spec => []IInv
BY InitIInv, NextIInv, PTL DEF Spec

\* A count, the cardinality of sets of files, is not negative.
LEMMA IInvTypes == IInv => TypeOK
<1> SUFFICES ASSUME IInv PROVE TypeOK
  OBVIOUS
<1>1. modref \in Nat
  BY FilesFinite DEF IInv, RefsCounted
<1>2. Len(Resources) = 4
  BY DEF Resources
<1> QED BY <1>1, <1>2 DEF IInv, Types, TypeOK

\* Every variable of the driver and of the kernel around it keeps its type; in
\* particular no sequence of opens, failed opens and releases drops a module
\* reference that was not taken (modref \in Nat).
THEOREM MemdevTypeOK == Spec => []TypeOK
BY IInvTypes, MemdevInvariant, PTL

\* Whoever may execute module text has pinned a live module.
LEMMA UsersNeedModule == IInv => (TextUsers # {} => mod = "live")
<1> SUFFICES ASSUME IInv, TextUsers # {} PROVE mod = "live"
  OBVIOUS
<1>1. CASE \E f \in Files : fstate[f] # "none"
  BY <1>1 DEF IInv, FilesNeedModule
<1>2. CASE \E p \in Procs : pc[p] # "idle"
  <2>1. PICK p \in Procs : \E v \in pending[p] : fstate[v.file] = "open"
    BY <1>2 DEF IInv, HandlersPinFiles, ReferencedAreOpen
  <2>2. \E f \in Files : fstate[f] = "open"
    <3>1. \A v \in pending[p] : v.file \in Files
      BY <2>1 DEF IInv, Types, Vma
    <3> QED BY <2>1, <3>1
  <2> QED BY <2>2 DEF IInv, FilesNeedModule
<1> QED BY <1>1, <1>2 DEF TextUsers

\* A step of the detailed system that touches one user is a step of ModuleText.
LEMMA OneUserStep ==
  ASSUME IInv', mod' = mod, NEW u \in Files \cup Procs, TextUsers' \ {u} = TextUsers \ {u}
  PROVE  [Text!Next]_Text!vars
<1>1. CASE u \in TextUsers /\ u \notin TextUsers'
  <2>1. TextUsers' = TextUsers \ {u}
    BY <1>1
  <2> QED BY <1>1, <2>1 DEF Text!Next, Text!Leave
<1>2. CASE u \notin TextUsers /\ u \in TextUsers'
  <2>1. TextUsers' = TextUsers \cup {u}
    BY <1>2
  <2>2. (IInv => (TextUsers # {} => mod = "live"))'
    BY UsersNeedModule, PTL
  <2> QED BY <1>2, <2>1, <2>2 DEF Text!Next, Text!Enter
<1>3. CASE u \in TextUsers <=> u \in TextUsers'
  <2>1. TextUsers' = TextUsers
    BY <1>3
  <2> QED BY <2>1 DEF Text!vars
<1> QED BY <1>1, <1>2, <1>3

\* insmod, rmmod: the module comes and goes while there is no user.
LEMMA TextModuleStep ==
  ASSUME IInv, ModuleStep
  PROVE  [Text!Next]_Text!vars
<1>1. TextUsers' = TextUsers
  BY DEF ModuleStep, Insmod, memdev_init, InitFails, Unregister, Rmmod, ExitCheck, ExitFree,
         memdevUnchanged, fileVars, mmVars, TextUsers
<1>2. CASE mod # "unloaded" /\ mod' = "unloaded"
  <2>1. mod # "live"
    BY <1>2 DEF ModuleStep, Insmod, memdev_init, InitFails, Unregister, Rmmod, ExitCheck,
                ExitFree
  <2>2. TextUsers = {}
    BY <2>1, UsersNeedModule
  <2> QED BY <1>1, <1>2, <2>2 DEF Text!Next, Text!Unload
<1>3. CASE mod = "unloaded" /\ mod' # "unloaded"
  BY <1>1, <1>3 DEF Text!Next, Text!Load
<1>4. CASE (mod = "unloaded") <=> (mod' = "unloaded")
  BY <1>1, <1>4 DEF Text!vars
<1> QED BY <1>2, <1>3, <1>4

\* chrdev_open touches no handler and no other file.
LEMMA OpenFrame ==
  ASSUME IInv, NEW p \in Procs, NEW f \in Files, ChrdevOpen(p, f)
  PROVE  /\ mod' = mod /\ pc' = pc
         /\ \A g \in Files \ {f} : fstate'[g] = fstate[g]
<1>1. mod' = mod /\ pc' = pc
  BY DEF ChrdevOpen, fsUnchanged, modVars, mmVars
<1>2. fstate \in [Files -> {"none", "open_get", "open_link", "open_failed", "open",
                            "release_put", "released"}]
  BY DEF IInv, Types
<1>3. fstate' = [fstate EXCEPT ![f] = "open_get"]
  BY DEF ChrdevOpen
<1> QED BY <1>1, <1>2, <1>3

\* open and release, step by step, touch no handler and no other file.
LEMMA FileFrame ==
  ASSUME IInv, NEW f \in Files, FileStep(f)
  PROVE  /\ mod' = mod /\ pc' = pc
         /\ \A g \in Files \ {f} : fstate'[g] = fstate[g]
<1>1. mod' = mod /\ pc' = pc
  BY DEF FileStep, memdev_open_get, memdev_open_link, OpenFailed, memdev_release,
         memdev_release_put, Fput, ExitFiles, CloseFd, fsUnchanged, modVars, mmVars
<1>2. fstate \in [Files -> {"none", "open_get", "open_link", "open_failed", "open",
                            "release_put", "released"}]
  BY DEF IInv, Types
<1>3. \E s : fstate' = [fstate EXCEPT ![f] = s]
  <2>1. CASE memdev_open_get(f) BY <2>1 DEF memdev_open_get
  <2>2. CASE \E p \in Procs : memdev_open_link(p, f) BY <2>2 DEF memdev_open_link
  <2>3. CASE \E p \in Procs : OpenFailed(p, f) BY <2>3 DEF OpenFailed
  <2>4. CASE memdev_release(f) BY <2>4 DEF memdev_release
  <2>5. CASE memdev_release_put(f) BY <2>5 DEF memdev_release_put
  <2>6. CASE Fput(f) BY <2>6 DEF Fput
  <2>7. CASE \E p \in Procs : ExitFiles(p, f)
    <3>1. fstate' = fstate
      BY <2>7 DEF ExitFiles, CloseFd
    <3> QED BY <1>2, <3>1
  <2> QED BY <2>1, <2>2, <2>3, <2>4, <2>5, <2>6, <2>7 DEF FileStep
<1> QED BY <1>1, <1>2, <1>3

\* A handler touches no file and no other handler.
LEMMA HandlerFrame ==
  ASSUME IInv, NEW p \in Procs, HandlerStep(p)
  PROVE  /\ mod' = mod /\ fstate' = fstate
         /\ \A q \in Procs \ {p} : pc'[q] = pc[q]
<1>1. mmUnchanged
  BY DEF HandlerStep, AllocPages, map_pages_to_vma, RegionFails, ListRegion, CountRegion,
         err_free_pages, MmapUndo, ZapRange, memdev_vma_close
<1>2. mod' = mod /\ fstate' = fstate
  BY <1>1 DEF mmUnchanged, modVars, fileVars
<1>3. pc \in [Procs -> {"idle", "alloc", "map", "region", "count", "err", "undo", "zap", "close"}]
  BY DEF IInv, Types
<1>4. \E s : pc' = [pc EXCEPT ![p] = s]
  <2>1. CASE AllocPages(p) BY <2>1 DEF AllocPages
  <2>2. CASE map_pages_to_vma(p) BY <2>2 DEF map_pages_to_vma
  <2>3. CASE RegionFails(p) BY <2>3 DEF RegionFails
  <2>4. CASE ListRegion(p) BY <2>4 DEF ListRegion
  <2>5. CASE CountRegion(p) BY <2>5 DEF CountRegion
  <2>6. CASE err_free_pages(p) BY <2>6 DEF err_free_pages
  <2>7. CASE MmapUndo(p) BY <2>7 DEF MmapUndo
  <2>8. CASE memdev_vma_close(p) BY <2>8 DEF memdev_vma_close
  <2>9. CASE ZapRange(p) BY <2>9 DEF ZapRange
  <2> QED BY <2>1, <2>2, <2>3, <2>4, <2>5, <2>6, <2>7, <2>8, <2>9 DEF HandlerStep
<1> QED BY <1>2, <1>3, <1>4

\* A system call other than open touches no file and no other process's handler.
LEMMA UserFrame ==
  ASSUME IInv, NEW p \in Procs, UserStep(p), \A f \in Files : ~ChrdevOpen(p, f)
  PROVE  /\ mod' = mod /\ fstate' = fstate
         /\ \A q \in Procs \ {p} : pc'[q] = pc[q]
<1> DEFINE Frame == /\ UNCHANGED <<mod, fstate>>
                    /\ pc' = pc \/ \E s : pc' = [pc EXCEPT ![p] = s]
<1> USE DEF mmUnchanged, endUnchanged, modVars, fileVars
<1>1. ASSUME NEW f \in Files, Close(p, f) PROVE Frame
  BY <1>1 DEF Close, CloseFd, fsUnchanged, mmVars
<1>2. ASSUME NEW f \in Files, NEW lo \in Addrs, NEW len \in 1 .. MaxLen, MmapStart(p, f, lo, len)
      PROVE  Frame
  BY <1>2 DEF MmapStart
<1>4. ASSUME NEW lo \in Addrs, NEW hi \in Addrs, Munmap(p, lo, hi) PROVE Frame
  BY <1>4 DEF Munmap
<1>5. ASSUME NEW a \in Addrs, WriteFault(p, a) PROVE Frame
  BY <1>5 DEF WriteFault
<1>6. ASSUME Exit(p) \/ Leave(p) PROVE Frame
  BY <1>6 DEF Exit, Leave, TearDown, CloseVmas
<1>7. ASSUME NEW c \in Procs, Fork(p, c) PROVE Frame
  BY <1>7 DEF Fork
<1>8. ASSUME NEW c \in Procs, Exec(p, c) \/ LastMmput(p, c) PROVE Frame
  BY <1>8 DEF Exec, LastMmput, TearDown, CloseVmas
<1>9. Frame
  <2> HIDE DEF Frame
  <2> QED BY <1>1, <1>2, <1>4, <1>5, <1>6, <1>7, <1>8 DEF UserStep
<1>3. pc \in [Procs -> {"idle", "alloc", "map", "region", "count", "err", "undo", "zap", "close"}]
  BY DEF IInv, Types
<1> QED BY <1>3, <1>9

LEMMA InitText == Init => Text!Init
BY DEF Init, Text!Init, TextUsers

\* A step of Memdev is a step of ModuleText, or changes no user of the text.
LEMMA TextStep == IInv /\ IInv' /\ [Next]_vars => [Text!Next]_Text!vars
<1> SUFFICES ASSUME IInv, IInv', [Next]_vars PROVE [Text!Next]_Text!vars
  OBVIOUS
<1>1. CASE ModuleStep BY <1>1, TextModuleStep
<1>2. ASSUME NEW f \in Files, FileStep(f) PROVE [Text!Next]_Text!vars
  <2>1. /\ mod' = mod /\ pc' = pc
        /\ \A g \in Files \ {f} : fstate'[g] = fstate[g]
    BY <1>2, FileFrame
  <2>2. TextUsers' \ {f} = TextUsers \ {f}
    BY <2>1 DEF TextUsers
  <2> QED BY <2>1, <2>2, OneUserStep
<1>3. ASSUME NEW p \in Procs, HandlerStep(p) PROVE [Text!Next]_Text!vars
  <2>1. /\ mod' = mod /\ fstate' = fstate
        /\ \A q \in Procs \ {p} : pc'[q] = pc[q]
    BY <1>3, HandlerFrame
  <2>2. TextUsers' \ {p} = TextUsers \ {p}
    BY <2>1 DEF TextUsers
  <2> QED BY <2>1, <2>2, OneUserStep
<1>4. ASSUME NEW p \in Procs, UserStep(p) PROVE [Text!Next]_Text!vars
  <2>1. ASSUME NEW f \in Files, ChrdevOpen(p, f) PROVE [Text!Next]_Text!vars
    <3>1. /\ mod' = mod /\ pc' = pc
          /\ \A g \in Files \ {f} : fstate'[g] = fstate[g]
      BY <2>1, OpenFrame
    <3>2. TextUsers' \ {f} = TextUsers \ {f}
      BY <3>1 DEF TextUsers
    <3> QED BY <3>1, <3>2, OneUserStep
  <2>2. ASSUME \A f \in Files : ~ChrdevOpen(p, f) PROVE [Text!Next]_Text!vars
    <3>1. /\ mod' = mod /\ fstate' = fstate
          /\ \A q \in Procs \ {p} : pc'[q] = pc[q]
      BY <1>4, <2>2, UserFrame
    <3>2. TextUsers' \ {p} = TextUsers \ {p}
      BY <3>1 DEF TextUsers
    <3> QED BY <3>1, <3>2, OneUserStep
  <2> QED BY <2>1, <2>2
<1>5. CASE UNCHANGED vars
  BY <1>5 DEF vars, Text!vars, TextUsers
<1> QED BY <1>1, <1>2, <1>3, <1>4, <1>5 DEF Next

\* Memdev implements ModuleText: for any number of processes, files and mappings, in
\* any interleaving of open, mmap, fork, munmap, exit, close, release and rmmod, the
\* module is unloaded only when no file exists and no handler runs.
THEOREM MemdevTextOutlivesUsers == Spec => TextOutlivesUsers
BY InitText, TextStep, MemdevInvariant, PTL DEF Spec, TextOutlivesUsers, Text!Spec

-------------------------------------------------------------------------------
(* The memory that Memdev hands out: no page is freed twice or leaked      *)
(* (PagesAccounted), mmap is all or nothing (VmasPopulated), mapped_count  *)
(* follows the lists (CountMatchesRegions), memdev_exit finds nothing to   *)
(* do (ExitFindsNothing), and a process that closes a mapping of its own   *)
(* frees the region of that mapping (CloseFreesOwnRegion).                 *)
(*                                                                         *)
(* The argument has four parts.  AddressSpaces: the vmas of a space, those *)
(* it is building or closing included, are disjoint, and its page table is *)
(* filled exactly where they say.  PagesAccounted: an entry that comes or  *)
(* goes takes or drops one reference, and so does a slot of the driver's   *)
(* arrays.  Tasks: one process at a time has a pid.  RegionsHaveVmas: the  *)
(* regions of a process that closes its own mappings start where its vmas  *)
(* start.                                                                  *)
(*                                                                         *)
(* The counts, of pages and of regions, need a kernel that clears the      *)
(* array memdev_mmap passes to the allocator (InitOnAlloc): on another the *)
(* array may hold pages that were never allocated for it.  The rest holds  *)
(* of every kernel.                                                        *)

\* The vmas linked in the address space of p, the addresses they cover, those where p
\* maps a page, and those of the vmas that a handler of p works on.
Linked(p)   == {v \in vmas : v.mm = p}
Covered(p)  == UNION {Span(v) : v \in Linked(p)}
Mapped(p)   == {a \in Addrs : pt[p][a] # NoPage}
InFlight(p) == UNION {Span(v) : v \in pending[p]}

OwnVmas(p) == Linked(p) \cup pending[p]

\* The points of memdev_mmap.
Building == {"alloc", "map", "region", "count", "err", "undo"}

\* A process that was not born yet has no mappings.
UnbornEmpty(p) == life[p] = "unborn" => pc[p] = "idle" /\ Mapped(p) = {} /\ Linked(p) = {}

\* A process is in its space for as long as a handler works on it, teardown apart.
HandlerLife(p) == pc[p] # "idle" => life[p] = "alive" \/ (life[p] = "dead" /\ pc[p] = "close")

\* Only the mappings of a dead space are closed by somebody else.
ClosedByOthers(p) == closer[p] # p => life[p] = "dead"

\* What a handler works on: nothing, the one vma that mmap builds, the vmas to close.
PendingShape(p) == /\ pc[p] = "idle" => pending[p] = {}
                   /\ pc[p] \in Building => \E v \in Vma : pending[p] = {v}
                   /\ \A v \in pending[p] : v.mm = p

SpansInSpace(p) == \A v \in OwnVmas(p) : Span(v) \subseteq Addrs

VmasDisjoint(p) == /\ Linked(p) \cap pending[p] = {}
                   /\ \A v, w \in OwnVmas(p) : v # w => Span(v) \cap Span(w) = {}

\* The page table of p against its vmas, at every point of the handlers.
Populated(p) ==
  /\ pc[p] \in {"idle", "close", "alloc", "map"} => Mapped(p) = Covered(p)
  /\ pc[p] \in {"region", "count", "zap"} => Mapped(p) = Covered(p) \cup InFlight(p)
  /\ pc[p] \in {"err", "undo"} => /\ Covered(p) \subseteq Mapped(p)
                                  /\ Mapped(p) \subseteq Covered(p) \cup InFlight(p)

AddressSpace(p) == UnbornEmpty(p) /\ HandlerLife(p) /\ ClosedByOthers(p)
                   /\ PendingShape(p) /\ SpansInSpace(p) /\ VmasDisjoint(p) /\ Populated(p)

AddressSpaces == \A p \in Procs : AddressSpace(p)

\* mmap holds pages between the allocation and the listing of the region or the error.
HeldShape == \A p \in Procs : held[p] # << >> =>
               pc[p] \in {"map", "region", "err"} /\ Len(held[p]) <= MaxLen

\* file_list holds the open files, and only they have regions.
ListsOpenFiles == /\ file_list = {f \in Files : fstate[f] = "open"}
                  /\ \A r \in regions : r.file \in file_list

\* The vmas of p that have got a region: linked ones, one about to be counted, and
\* those about to be closed.
Regioned(p) == Linked(p) \cup (IF pc[p] \in {"count", "zap", "close"} THEN pending[p] ELSE {})

\* A process with the pid of p calls close on what was mapped in p.
Closing(p) == pc[p] = "close" /\ Tgid[closer[p]] = Tgid[p]

\* A dead space has no vmas.  Whoever closes what was mapped in p for another space of
\* its pid is alive: it is in execve.  One process at a time has a pid, and closes for
\* one space; until execve has closed what was mapped, it does nothing else.
Task(p) ==
  /\ life[p] = "dead" => Linked(p) = {}
  /\ Closing(p) /\ closer[p] # p => life[closer[p]] = "alive"
  /\ \A q \in Procs \ {p} : Tgid[q] = Tgid[p] =>
       /\ life[p] = "alive" => life[q] # "alive"
       /\ life[p] = "alive" /\ Closing(q) => closer[q] = p /\ pc[p] = "idle" /\ Linked(p) = {}
       /\ ~(Closing(p) /\ Closing(q))

Tasks == \A p \in Procs : Task(p)

\* The pid of p is not that of an address space that somebody else tears down.
OwnPid(p) == \A m \in Procs : Tgid[m] = Tgid[p] => ~Outlived(m)

\* As long as the processes with the pid of p close their own mappings, each region of
\* p starts where a vma of p on the same file starts, and no other region of that pid
\* starts there.
OwnRegions(p) ==
  OwnPid(p) => \A r \in regions : r.mm = p =>
    /\ life[p] # "unborn"
    /\ \E v \in Regioned(p) : v.lo = r.user_va /\ v.file = r.file
    /\ \A s \in regions : (Tgid[s.mm] = Tgid[p] /\ s.user_va = r.user_va) => s = r

RegionsHaveVmas == \A p \in Procs : OwnRegions(p)

MemInv == /\ AddressSpaces /\ HeldShape /\ Tasks
          /\ ListsOpenFiles /\ RegionsHaveVmas
          /\ InitOnAlloc => (PagesAccounted /\ CountMatchesRegions)

-------------------------------------------------------------------------------
(* Address spaces.                                                         *)

\* A vma covers its first address and only addresses of its range.
LEMMA SpanFacts ==
  ASSUME NEW v \in Vma
  PROVE  /\ v.lo \in Nat /\ v.len \in Nat \ {0}
         /\ v.lo \in Span(v)
         /\ Span(v) # {}
         /\ \A a \in Span(v) : a \in Nat /\ v.lo <= a /\ a < v.lo + v.len
<1>2. v.lo \in Nat /\ v.len \in Nat \ {0}
  BY VmaNumbers
<1>3. Span(v) = v.lo .. (v.lo + v.len - 1)
  BY DEF Span
<1>4. v.lo \in Span(v)
  BY <1>2, <1>3
<1>5. \A a \in Span(v) : a \in Nat /\ v.lo <= a /\ a < v.lo + v.len
  BY <1>2, <1>3
<1> QED BY <1>2, <1>4, <1>5

\* A step that leaves alone what belongs to q keeps the address space of q in order.
LEMMA SameSpace ==
  ASSUME NEW q \in Procs, AddressSpace(q),
         life'[q] = life[q], Mapped(q)' = Mapped(q), pc'[q] = pc[q],
         pending'[q] = pending[q], closer'[q] = closer[q], Linked(q)' = Linked(q)
  PROVE  AddressSpace(q)'
<1>1. /\ Covered(q)' = Covered(q) /\ InFlight(q)' = InFlight(q)
      /\ OwnVmas(q)' = OwnVmas(q)
  BY DEF Covered, InFlight, OwnVmas
<1> QED BY <1>1 DEF AddressSpace, UnbornEmpty, HandlerLife, ClosedByOthers, PendingShape,
                    SpansInSpace, VmasDisjoint, Populated

\* In particular one that leaves its page table alone.
LEMMA OtherSpace ==
  ASSUME NEW q \in Procs, AddressSpace(q),
         life'[q] = life[q], pt'[q] = pt[q], pc'[q] = pc[q], pending'[q] = pending[q],
         closer'[q] = closer[q], Linked(q)' = Linked(q)
  PROVE  AddressSpace(q)'
<1>1. Mapped(q)' = Mapped(q)
  BY DEF Mapped
<1> QED BY <1>1, SameSpace

\* Zapping takes exactly the zapped addresses out of the page table of p.
LEMMA ZapMapped ==
  ASSUME Types, NEW p \in Procs, NEW as, Zap(p, as)
  PROVE  /\ Mapped(p)' = Mapped(p) \ as
         /\ \A q \in Procs \ {p} : pt'[q] = pt[q]
<1>1. pt' = [pt EXCEPT ![p] = [a \in Addrs |-> IF a \in as THEN NoPage ELSE @[a]]]
  BY DEF Zap
<1>2. \A a \in Addrs : pt'[p][a] = IF a \in as THEN NoPage ELSE pt[p][a]
  BY <1>1 DEF Types
<1>3. \A q \in Procs \ {p} : pt'[q] = pt[q]
  BY <1>1 DEF Types
<1> QED BY <1>2, <1>3 DEF Mapped

\* A handler changes only the address space of its own process.
LEMMA HandlerOthers ==
  ASSUME Types, AddressSpaces, NEW p \in Procs, HandlerStep(p), NEW q \in Procs \ {p}
  PROVE  /\ life' = life /\ closer' = closer
         /\ pt'[q] = pt[q] /\ pc'[q] = pc[q] /\ pending'[q] = pending[q]
         /\ Linked(q)' = Linked(q)
<1>1. life' = life /\ closer' = closer
  BY DEF HandlerStep, AllocPages, map_pages_to_vma, RegionFails, ListRegion, CountRegion,
         err_free_pages, MmapUndo, ZapRange, memdev_vma_close, mmUnchanged
<1>2. pc'[q] = pc[q]
  BY DEF HandlerStep, AllocPages, map_pages_to_vma, RegionFails, ListRegion, CountRegion,
         err_free_pages, MmapUndo, ZapRange, memdev_vma_close, Types
<1>3. pending'[q] = pending[q]
  BY DEF HandlerStep, AllocPages, map_pages_to_vma, RegionFails, ListRegion, CountRegion,
         err_free_pages, MmapUndo, ZapRange, memdev_vma_close, Types
<1>4. pt'[q] = pt[q]
  BY DEF HandlerStep, AllocPages, map_pages_to_vma, RegionFails, ListRegion, CountRegion,
         err_free_pages, MmapUndo, ZapRange, memdev_vma_close, Types, Zap
<1>5. Linked(q)' = Linked(q)
  <2>1. vmas' = vmas \/ vmas' = vmas \cup pending[p]
    BY DEF HandlerStep, AllocPages, map_pages_to_vma, RegionFails, ListRegion, CountRegion,
           err_free_pages, MmapUndo, ZapRange, memdev_vma_close
  <2>2. \A v \in pending[p] : v.mm = p
    BY DEF AddressSpaces, AddressSpace, PendingShape
  <2> QED BY <2>1, <2>2 DEF Linked
<1> QED BY <1>1, <1>2, <1>3, <1>4, <1>5

\* insert_pages: the first n pages of the vma that p builds get mapped.
LEMMA MapPagesMapped ==
  ASSUME Types, AddressSpaces, HeldArrays, NEW p \in Procs, map_pages_to_vma(p)
  PROVE  \E v \in pending[p], n \in Nat :
           /\ n <= v.len
           /\ Mapped(p)' = Mapped(p) \cup (v.lo .. (v.lo + n - 1))
           /\ v.lo .. (v.lo + n - 1) \subseteq Span(v)
           /\ (n = v.len => v.lo .. (v.lo + n - 1) = Span(v))
           /\ pc' = [pc EXCEPT ![p] = AfterMap(v, n)]
<1>1. PICK v \in pending[p] : \E n \in 0 .. v.len :
        /\ pt' = [pt EXCEPT ![p] = [a \in Addrs |-> IF a \in v.lo .. (v.lo + n - 1)
                                                   THEN held[p][a - v.lo + 1] ELSE @[a]]]
        /\ pc' = [pc EXCEPT ![p] = AfterMap(v, n)]
  BY DEF map_pages_to_vma
<1>2. v \in Vma
  BY DEF Types
<1>3. v.lo \in Nat /\ v.len \in Nat \ {0}
  BY <1>2, SpanFacts
<1>4. PICK n \in 0 .. v.len :
        /\ pt' = [pt EXCEPT ![p] = [a \in Addrs |-> IF a \in v.lo .. (v.lo + n - 1)
                                                   THEN held[p][a - v.lo + 1] ELSE @[a]]]
        /\ pc' = [pc EXCEPT ![p] = AfterMap(v, n)]
  BY <1>1
<1> DEFINE done == v.lo .. (v.lo + n - 1)
           m(a) == held[p][a - v.lo + 1]
<1>5. n \in Nat /\ n <= v.len
  BY <1>3, <1>4
<1>6. done \subseteq Span(v) /\ (n = v.len => done = Span(v))
  BY <1>3, <1>5 DEF Span
<1>7. \A a \in done : a \in Addrs /\ m(a) # NoPage
  <2>1. Span(v) \subseteq Addrs
    BY DEF AddressSpaces, AddressSpace, SpansInSpace, OwnVmas
  <2>2. pc[p] = "map"
    BY DEF map_pages_to_vma
  <2>3. Len(held[p]) = v.len /\ held[p] \in Seq(Pages)
    BY <2>2 DEF HeldArrays, Types
  <2>4. \A a \in done : m(a) \in Pages
    BY <1>3, <1>5, <2>3
  <2> HIDE DEF done, m
  <2> QED BY <1>6, <2>1, <2>4, MemdevAssumption DEF MemdevAssumption
<1>8. \A a \in Addrs : pt'[p][a] = IF a \in done THEN m(a) ELSE pt[p][a]
  BY <1>4 DEF Types
<1>9. Mapped(p)' = Mapped(p) \cup done
  <2> HIDE DEF done, m
  <2> QED BY <1>7, <1>8 DEF Mapped
<1> QED BY <1>4, <1>5, <1>6, <1>9

\* mmap and the vma close keep the address space of their process in order.
LEMMA HandlerSpace ==
  ASSUME Types, AddressSpaces, HeldArrays, NEW p \in Procs, HandlerStep(p)
  PROVE  AddressSpace(p)'
<1> USE DEF mmUnchanged
<1>0. /\ UnbornEmpty(p) /\ HandlerLife(p) /\ ClosedByOthers(p) /\ PendingShape(p)
      /\ SpansInSpace(p) /\ VmasDisjoint(p) /\ Populated(p)
  BY DEF AddressSpaces, AddressSpace
<1>1. life[p] # "unborn" /\ life'[p] = life[p] /\ closer'[p] = closer[p]
  <2>1. pc[p] # "idle"
    BY DEF HandlerStep, AllocPages, map_pages_to_vma, RegionFails, ListRegion, CountRegion,
           err_free_pages, MmapUndo, ZapRange, memdev_vma_close
  <2>2. life' = life /\ closer' = closer
    BY DEF HandlerStep, AllocPages, map_pages_to_vma, RegionFails, ListRegion, CountRegion,
           err_free_pages, MmapUndo, ZapRange, memdev_vma_close
  <2> QED BY <1>0, <2>1, <2>2 DEF UnbornEmpty
<1>2. UnbornEmpty(p)' /\ HandlerLife(p)' /\ ClosedByOthers(p)'
  <2>1. pc[p] # "idle" /\ (pc[p] = "close" => pc'[p] \in {"idle", "close"})
    <3>1. CASE memdev_vma_close(p)
      BY <3>1 DEF memdev_vma_close, Types
    <3>2. CASE ~memdev_vma_close(p)
      BY <3>2 DEF HandlerStep, AllocPages, map_pages_to_vma, RegionFails, ListRegion,
             CountRegion, err_free_pages, MmapUndo, ZapRange
    <3> QED BY <3>1, <3>2
  <2> QED BY <1>0, <1>1, <2>1 DEF UnbornEmpty, HandlerLife, ClosedByOthers
\* Steps between two points of mmap that move neither vmas nor page table entries.
<1>3. ASSUME UNCHANGED <<vmas, pt, pending>>, pc[p] \in Building, pc'[p] \in Building,
             Populated(p)'
      PROVE  AddressSpace(p)'
  <2>1. Linked(p)' = Linked(p) /\ OwnVmas(p)' = OwnVmas(p)
    BY <1>3 DEF Linked, OwnVmas
  <2>2. PendingShape(p)' /\ SpansInSpace(p)' /\ VmasDisjoint(p)'
    BY <1>0, <1>3, <2>1 DEF PendingShape, SpansInSpace, VmasDisjoint, Building
  <2> QED BY <1>2, <1>3, <2>2 DEF AddressSpace
<1>4. UNCHANGED <<vmas, pt, pending>> =>
        Covered(p)' = Covered(p) /\ Mapped(p)' = Mapped(p) /\ InFlight(p)' = InFlight(p)
  BY DEF Covered, Linked, Mapped, InFlight
<1>5. CASE AllocPages(p)
  <2>1. UNCHANGED <<vmas, pt, pending>> /\ pc[p] = "alloc" /\ pc'[p] \in {"map", "err"}
    BY <1>5 DEF AllocPages, Types
  <2>2. Populated(p)'
    BY <1>0, <1>4, <2>1 DEF Populated
  <2> QED BY <1>3, <2>1, <2>2 DEF Building
<1>6. CASE map_pages_to_vma(p)
  <2>1. PICK v \in pending[p], n \in Nat :
           /\ n <= v.len
           /\ Mapped(p)' = Mapped(p) \cup (v.lo .. (v.lo + n - 1))
           /\ v.lo .. (v.lo + n - 1) \subseteq Span(v)
           /\ (n = v.len => v.lo .. (v.lo + n - 1) = Span(v))
           /\ pc' = [pc EXCEPT ![p] = AfterMap(v, n)]
    BY <1>6, MapPagesMapped
  <2>2. UNCHANGED <<vmas, pending>> /\ pc[p] = "map"
    BY <1>6 DEF map_pages_to_vma
  <2>3. pc'[p] = AfterMap(v, n)
    BY <2>1 DEF Types
  <2>4. pending[p] = {v}
    BY <1>0, <2>2 DEF PendingShape, Building
  <2>5. InFlight(p) = Span(v) /\ InFlight(p)' = Span(v)
    BY <2>2, <2>4 DEF InFlight
  <2>6. Covered(p)' = Covered(p) /\ Mapped(p) = Covered(p)
    BY <1>0, <2>2 DEF Covered, Linked, Populated
  <2>7. Populated(p)'
    <3> DEFINE done == v.lo .. (v.lo + n - 1)
    <3>1. /\ Mapped(p)' = Covered(p)' \cup done
          /\ done \subseteq InFlight(p)'
          /\ n = v.len => done = InFlight(p)'
      BY <2>1, <2>5, <2>6
    <3> HIDE DEF done
    <3>2. CASE n = v.len
      <4>1. Mapped(p)' = Covered(p)' \cup InFlight(p)' /\ pc'[p] = "region"
        BY <2>3, <3>1, <3>2 DEF AfterMap
      <4> QED BY <4>1 DEF Populated
    <3>3. CASE n # v.len
      <4>1. pc'[p] = "err"
        BY <2>3, <3>3 DEF AfterMap
      <4> QED BY <3>1, <4>1 DEF Populated
    <3> QED BY <3>2, <3>3
  <2>8. Linked(p)' = Linked(p) /\ OwnVmas(p)' = OwnVmas(p)
    BY <2>2 DEF Linked, OwnVmas
  <2>9. PendingShape(p)' /\ SpansInSpace(p)' /\ VmasDisjoint(p)'
    BY <1>0, <2>2, <2>3, <2>8 DEF PendingShape, SpansInSpace, VmasDisjoint, Building, AfterMap
  <2> QED BY <1>2, <2>7, <2>9 DEF AddressSpace
<1>7. CASE RegionFails(p)
  <2>1. UNCHANGED <<vmas, pt, pending>> /\ pc[p] = "region" /\ pc'[p] = "err"
    BY <1>7 DEF RegionFails, Types
  <2>2. Populated(p)'
    BY <1>0, <1>4, <2>1 DEF Populated
  <2> QED BY <1>3, <2>1, <2>2 DEF Building
<1>8. CASE ListRegion(p)
  <2>1. UNCHANGED <<vmas, pt, pending>> /\ pc[p] = "region" /\ pc'[p] = "count"
    BY <1>8 DEF ListRegion, Types
  <2>2. Populated(p)'
    BY <1>0, <1>4, <2>1 DEF Populated
  <2> QED BY <1>3, <2>1, <2>2 DEF Building
<1>9. CASE CountRegion(p)
  <2>1. /\ vmas' = vmas \cup pending[p] /\ pt' = pt
        /\ pending'[p] = {} /\ pc'[p] = "idle" /\ pc[p] = "count"
    BY <1>9 DEF CountRegion, Types
  <2>2. Linked(p)' = Linked(p) \cup pending[p]
    BY <1>0, <2>1 DEF Linked, PendingShape
  <2>3. OwnVmas(p)' = OwnVmas(p)
    BY <2>1, <2>2 DEF OwnVmas
  <2>4. Covered(p)' = Covered(p) \cup InFlight(p) /\ Mapped(p)' = Mapped(p)
    BY <2>1, <2>2 DEF Covered, InFlight, Mapped
  <2>5. Populated(p)'
    BY <1>0, <2>1, <2>4 DEF Populated
  <2>6. PendingShape(p)' /\ SpansInSpace(p)' /\ VmasDisjoint(p)'
    BY <1>0, <2>1, <2>3 DEF PendingShape, SpansInSpace, VmasDisjoint, Building
  <2> QED BY <1>2, <2>5, <2>6 DEF AddressSpace
<1>10. CASE err_free_pages(p)
  <2>1. UNCHANGED <<vmas, pt, pending>> /\ pc[p] = "err" /\ pc'[p] = "undo"
    BY <1>10 DEF err_free_pages, Types
  <2>2. Populated(p)'
    BY <1>0, <1>4, <2>1 DEF Populated
  <2> QED BY <1>3, <2>1, <2>2 DEF Building
<1>11. CASE MmapUndo(p)
  <2>1. PICK v \in pending[p] : Zap(p, Span(v))
    BY <1>11 DEF MmapUndo
  <2>2. /\ vmas' = vmas /\ pending'[p] = {} /\ pc'[p] = "idle" /\ pc[p] = "undo"
    BY <1>11 DEF MmapUndo, Types
  <2>3. Mapped(p)' = Mapped(p) \ Span(v)
    BY <2>1, ZapMapped
  <2>4. pending[p] = {v}
    BY <1>0, <2>2 DEF PendingShape, Building
  <2>5. Linked(p)' = Linked(p) /\ Covered(p)' = Covered(p) /\ InFlight(p) = Span(v)
    BY <2>2, <2>4 DEF Linked, Covered, InFlight
  <2>6. Covered(p) \cap Span(v) = {}
    BY <1>0, <2>4 DEF VmasDisjoint, OwnVmas, Covered
  <2>7. Populated(p)'
    BY <1>0, <2>2, <2>3, <2>5, <2>6 DEF Populated
  <2>8. PendingShape(p)' /\ SpansInSpace(p)' /\ VmasDisjoint(p)'
    BY <1>0, <2>2, <2>5 DEF PendingShape, SpansInSpace, VmasDisjoint, Building, OwnVmas
  <2> QED BY <1>2, <2>7, <2>8 DEF AddressSpace
<1>12. CASE memdev_vma_close(p)
  <2>1. PICK v \in pending[p] : pending' = [pending EXCEPT ![p] = @ \ {v}]
    BY <1>12 DEF memdev_vma_close
  <2>2. /\ vmas' = vmas /\ pt' = pt /\ pc[p] = "close" /\ pending'[p] = pending[p] \ {v}
        /\ pc'[p] = IF pending'[p] = {} THEN "idle" ELSE "close"
    BY <1>12, <2>1 DEF memdev_vma_close, Types
  <2>3. Linked(p)' = Linked(p) /\ Covered(p)' = Covered(p) /\ Mapped(p)' = Mapped(p)
        /\ OwnVmas(p)' \subseteq OwnVmas(p)
    BY <2>2 DEF Linked, Covered, Mapped, OwnVmas
  <2>4. Populated(p)'
    BY <1>0, <2>2, <2>3 DEF Populated
  <2>5. PendingShape(p)' /\ SpansInSpace(p)' /\ VmasDisjoint(p)'
    BY <1>0, <2>2, <2>3 DEF PendingShape, SpansInSpace, VmasDisjoint, Building
  <2> QED BY <1>2, <2>4, <2>5 DEF AddressSpace
<1>13. CASE ZapRange(p)
  <2>1. /\ Zap(p, InFlight(p))
        /\ vmas' = vmas /\ pending' = pending /\ pc[p] = "zap" /\ pc'[p] = "close"
    BY <1>13 DEF ZapRange, Types, InFlight
  <2>2. Mapped(p)' = Mapped(p) \ InFlight(p)
    BY <2>1, ZapMapped
  <2>3. Linked(p)' = Linked(p) /\ Covered(p)' = Covered(p) /\ OwnVmas(p)' = OwnVmas(p)
    BY <2>1 DEF Linked, Covered, OwnVmas
  <2>4. Covered(p) \cap InFlight(p) = {}
    BY <1>0 DEF VmasDisjoint, OwnVmas, Covered, InFlight
  <2>5. Populated(p)'
    BY <1>0, <2>1, <2>2, <2>3, <2>4 DEF Populated
  <2>6. PendingShape(p)' /\ SpansInSpace(p)' /\ VmasDisjoint(p)'
    BY <1>0, <2>1, <2>3 DEF PendingShape, SpansInSpace, VmasDisjoint, Building
  <2> QED BY <1>2, <2>5, <2>6 DEF AddressSpace
<1> QED BY <1>5, <1>6, <1>7, <1>8, <1>9, <1>10, <1>11, <1>12, <1>13 DEF HandlerStep

\* A vma is determined by its owner, its file and the addresses it covers.
LEMMA SpanDetermines ==
  ASSUME NEW v \in Vma, NEW w \in Vma, Span(v) = Span(w), v.mm = w.mm, v.file = w.file
  PROVE  v = w
<1>1. /\ v.lo \in Nat /\ v.len \in Nat \ {0} /\ v.lo \in Span(v)
      /\ w.lo \in Nat /\ w.len \in Nat \ {0} /\ w.lo \in Span(w)
      /\ \A a \in Span(v) : v.lo <= a /\ a < v.lo + v.len
      /\ \A a \in Span(w) : w.lo <= a /\ a < w.lo + w.len
  BY SpanFacts
<1>2. v.lo = w.lo
  BY <1>1
<1>3. v.lo + v.len - 1 \in Span(v) /\ w.lo + w.len - 1 \in Span(w)
  BY <1>1 DEF Span
<1>4. v.len = w.len
  <2>1. v.lo + v.len - 1 < w.lo + w.len /\ w.lo + w.len - 1 < v.lo + v.len
    BY <1>1, <1>3
  <2> QED BY <1>1, <1>2, <2>1
<1> QED BY <1>2, <1>4 DEF Vma

\* What a cut leaves below the range lo .. hi, in it, and above it.
Before(v, lo)      == {a \in Span(v) : a < lo}
Within(v, lo, hi)  == Span(v) \cap (lo .. hi)
After(v, hi)       == {a \in Span(v) : a > hi}

\* The pieces of a vma belong to it and are made of the three parts of a cut.
LEMMA PieceFacts ==
  ASSUME NEW v \in Vma, NEW lo, NEW hi, NEW w \in Pieces(v, lo, hi)
  PROVE  /\ w \in Vma /\ w.mm = v.mm /\ w.file = v.file
         /\ Span(w) \in {Before(v, lo), Within(v, lo, hi), After(v, hi)}
         /\ Span(w) \subseteq Span(v)
BY DEF Pieces, Before, Within, After

\* A range of v's addresses that is one of the three parts is a piece of v.
LEMMA PieceExists ==
  ASSUME NEW v \in Vma, Span(v) \subseteq Addrs, NEW lo, NEW hi,
         NEW first \in Span(v), NEW last \in Span(v), first <= last,
         first .. last \in {Before(v, lo), Within(v, lo, hi), After(v, hi)}
  PROVE  \E w \in Pieces(v, lo, hi) : Span(w) = first .. last /\ w.lo = first
                                      /\ w.file = v.file
<1>1. /\ v.lo \in Nat /\ v.len \in Nat \ {0} /\ first \in Nat /\ last \in Nat
      /\ v.lo <= first /\ last < v.lo + v.len
  BY SpanFacts
<1>2. v.mm \in Procs /\ v.file \in Files /\ v.len \in 1 .. MaxLen
  BY DEF Vma
<1> DEFINE n == last - first + 1
           w == [mm |-> v.mm, lo |-> first, len |-> n, file |-> v.file]
<1>3. n \in 1 .. MaxLen
  <2>1. n \in Nat /\ 1 <= n /\ n <= v.len
    BY <1>1
  <2>2. MaxLen \in Nat /\ v.len <= MaxLen
    BY <1>2, MemdevAssumption DEF MemdevAssumption
  <2> HIDE DEF n
  <2> QED BY <1>1, <2>1, <2>2
<1>4. w \in Vma
  <2> HIDE DEF n
  <2> QED BY <1>2, <1>3 DEF Vma
<1>5. first + n - 1 = last
  BY <1>1
<1>6. Span(w) = first .. last
  <2> HIDE DEF n
  <2> QED BY <1>5 DEF Span
<1>7. w \in Pieces(v, lo, hi)
  <2>1. w.mm = v.mm /\ w.file = v.file
    OBVIOUS
  <2> HIDE DEF w
  <2> QED BY <1>4, <1>6, <2>1 DEF Pieces, Before, Within, After
<1>8. w.lo = first /\ w.file = v.file
  OBVIOUS
<1> HIDE DEF w
<1> QED BY <1>6, <1>7, <1>8

\* A cut keeps every address of v outside the range in a piece outside the range.
LEMMA CutKeeps ==
  ASSUME NEW v \in Vma, Span(v) \subseteq Addrs, NEW lo \in Nat, NEW hi \in Nat,
         Within(v, lo, hi) # {}, NEW a \in Span(v), a \notin lo .. hi
  PROVE  \E w \in Pieces(v, lo, hi) : a \in Span(w) /\ Span(w) \cap (lo .. hi) = {}
<1>1. PICK m \in Span(v) : m \in lo .. hi
  BY DEF Within
<1>2. /\ v.lo \in Nat /\ v.len \in Nat \ {0} /\ a \in Nat /\ m \in Nat
      /\ v.lo <= a /\ a < v.lo + v.len /\ v.lo <= m /\ m < v.lo + v.len
      /\ lo <= m /\ m <= hi
  BY <1>1, SpanFacts
<1>3. CASE a < lo
  <2>1. lo - 1 \in Nat /\ v.lo <= lo - 1 /\ lo - 1 < v.lo + v.len
    BY <1>2, <1>3
  <2>2. v.lo \in Span(v) /\ lo - 1 \in Span(v)
    BY <1>2, <2>1 DEF Span
  <2>3. v.lo .. (lo - 1) = Before(v, lo)
    BY <1>2, <2>1 DEF Before, Span
  <2>4. PICK w \in Pieces(v, lo, hi) : Span(w) = v.lo .. (lo - 1)
    BY <2>1, <2>2, <2>3, PieceExists
  <2>5. a \in Span(w) /\ Span(w) \cap (lo .. hi) = {}
    BY <1>2, <1>3, <2>1, <2>4
  <2> QED BY <2>5
<1>4. CASE a > hi
  <2>1. LET e == v.lo + v.len - 1
        IN e \in Nat /\ hi + 1 <= e /\ v.lo <= hi + 1 /\ v.lo <= e
    BY <1>2, <1>4
  <2>2. hi + 1 \in Span(v) /\ v.lo + v.len - 1 \in Span(v)
    BY <1>2, <2>1 DEF Span
  <2>3. (hi + 1) .. (v.lo + v.len - 1) = After(v, hi)
    BY <1>2, <2>1 DEF After, Span
  <2>4. PICK w \in Pieces(v, lo, hi) : Span(w) = (hi + 1) .. (v.lo + v.len - 1)
    BY <2>1, <2>2, <2>3, PieceExists
  <2>5. a \in Span(w) /\ Span(w) \cap (lo .. hi) = {}
    BY <1>2, <1>4, <2>1, <2>4
  <2> QED BY <2>5
<1> QED BY <1>2, <1>3, <1>4

\* A cut leaves a piece that starts where v starts.
LEMMA CutKeepsStart ==
  ASSUME NEW v \in Vma, Span(v) \subseteq Addrs, NEW lo \in Nat, NEW hi \in Nat,
         Within(v, lo, hi) # {}
  PROVE  \E w \in Pieces(v, lo, hi) : w.lo = v.lo /\ w.file = v.file
<1>1. PICK m \in Span(v) : m \in lo .. hi
  BY DEF Within
<1>2. /\ v.lo \in Nat /\ v.len \in Nat \ {0} /\ m \in Nat
      /\ v.lo <= m /\ m < v.lo + v.len /\ lo <= m /\ m <= hi /\ v.lo \in Span(v)
  BY <1>1, SpanFacts
<1>3. CASE v.lo < lo
  <2>1. lo - 1 \in Nat /\ v.lo <= lo - 1 /\ lo - 1 < v.lo + v.len
    BY <1>2, <1>3
  <2>2. lo - 1 \in Span(v)
    BY <1>2, <2>1 DEF Span
  <2>3. v.lo .. (lo - 1) = Before(v, lo)
    BY <1>2, <2>1 DEF Before, Span
  <2> QED BY <1>2, <2>1, <2>2, <2>3, PieceExists
<1>4. CASE lo <= v.lo /\ hi < v.lo + v.len
  <2>1. hi \in Span(v) /\ v.lo <= hi
    BY <1>2, <1>4 DEF Span
  <2>2. v.lo .. hi = Within(v, lo, hi)
    BY <1>2, <1>4 DEF Within, Span
  <2> QED BY <1>2, <2>1, <2>2, PieceExists
<1>5. CASE lo <= v.lo /\ v.lo + v.len <= hi
  <2>1. v.lo + v.len - 1 \in Span(v) /\ v.lo <= v.lo + v.len - 1
    BY <1>2 DEF Span
  <2>2. v.lo .. (v.lo + v.len - 1) = Within(v, lo, hi)
    BY <1>2, <1>5 DEF Within, Span
  <2> QED BY <1>2, <2>1, <2>2, PieceExists
<1> QED BY <1>2, <1>3, <1>4, <1>5

\* A cut puts every address of v inside the range into a piece inside the range.
LEMMA CutTakes ==
  ASSUME NEW v \in Vma, Span(v) \subseteq Addrs, NEW lo \in Nat, NEW hi \in Nat,
         NEW a \in Span(v), a \in lo .. hi
  PROVE  \E w \in Pieces(v, lo, hi) : a \in Span(w) /\ Span(w) \subseteq lo .. hi
<1> DEFINE first == IF v.lo < lo THEN lo ELSE v.lo
           end   == v.lo + v.len - 1
           last  == IF hi < end THEN hi ELSE end
<1>1. /\ v.lo \in Nat /\ v.len \in Nat \ {0} /\ a \in Nat
      /\ v.lo <= a /\ a < v.lo + v.len /\ lo <= a /\ a <= hi
  BY SpanFacts
<1>2. /\ first \in Nat /\ last \in Nat /\ first <= a /\ a <= last
      /\ v.lo <= first /\ lo <= first /\ last <= hi /\ last <= end
  BY <1>1
<1>3. first \in Span(v) /\ last \in Span(v)
  BY <1>1, <1>2 DEF Span
<1>4. first .. last = Within(v, lo, hi)
  <2>1. Within(v, lo, hi) = (v.lo .. end) \cap (lo .. hi)
    BY DEF Within, Span
  <2> QED BY <1>1, <2>1
<1> HIDE DEF first, last
<1>5. PICK w \in Pieces(v, lo, hi) : Span(w) = first .. last
  BY <1>2, <1>3, <1>4, PieceExists
<1>6. a \in Span(w) /\ Span(w) \subseteq lo .. hi
  BY <1>1, <1>2, <1>5
<1> QED BY <1>6

\* The vmas of p that munmap cuts, their pieces, and the pieces it removes.
CutVmas(p, lo, hi)    == {v \in vmas : v.mm = p /\ Span(v) \cap (lo .. hi) # {}}
CutPieces(p, lo, hi)  == UNION {Pieces(v, lo, hi) : v \in CutVmas(p, lo, hi)}
GonePieces(p, lo, hi) == {w \in CutPieces(p, lo, hi) : Span(w) \subseteq lo .. hi}

\* Distinct pieces are disjoint, those of one vma and those of two.
LEMMA PiecesDisjoint ==
  ASSUME Types, NEW p \in Procs, AddressSpace(p), NEW lo \in Nat, NEW hi \in Nat,
         NEW w \in CutPieces(p, lo, hi), NEW x \in CutPieces(p, lo, hi), w # x
  PROVE  Span(w) \cap Span(x) = {}
<1>1. PICK v \in CutVmas(p, lo, hi) : w \in Pieces(v, lo, hi)
  BY DEF CutPieces
<1>2. PICK u \in CutVmas(p, lo, hi) : x \in Pieces(u, lo, hi)
  BY DEF CutPieces
<1>3. v \in Vma /\ u \in Vma /\ v \in OwnVmas(p) /\ u \in OwnVmas(p)
  BY DEF CutVmas, OwnVmas, Linked, Types
<1>4. /\ w \in Vma /\ w.mm = v.mm /\ w.file = v.file /\ Span(w) \subseteq Span(v)
      /\ Span(w) \in {Before(v, lo), Within(v, lo, hi), After(v, hi)}
  BY <1>1, <1>3, PieceFacts
<1>5. /\ x \in Vma /\ x.mm = u.mm /\ x.file = u.file /\ Span(x) \subseteq Span(u)
      /\ Span(x) \in {Before(u, lo), Within(u, lo, hi), After(u, hi)}
  BY <1>2, <1>3, PieceFacts
<1>6. CASE v # u
  <2>1. Span(v) \cap Span(u) = {}
    BY <1>3, <1>6 DEF AddressSpace, VmasDisjoint
  <2> QED BY <1>4, <1>5, <2>1
<1>7. CASE v = u
  <2>1. Span(w) # Span(x)
    BY <1>4, <1>5, <1>7, SpanDetermines
  <2>2. lo <= hi
    <3>1. PICK m \in Span(v) : m \in lo .. hi
      BY DEF CutVmas
    <3> QED BY <3>1
  <2>3. \A a \in Span(v) : a \in Nat
    BY <1>3, SpanFacts
  <2>4. /\ Before(v, lo) \cap Within(v, lo, hi) = {}
        /\ Before(v, lo) \cap After(v, hi) = {}
        /\ Within(v, lo, hi) \cap After(v, hi) = {}
    BY <2>2, <2>3 DEF Before, Within, After
  <2> QED BY <1>4, <1>5, <1>7, <2>1, <2>4
<1> QED BY <1>6, <1>7

\* munmap keeps the address space of its process in order.
LEMMA MunmapSpace ==
  ASSUME Types, NEW p \in Procs, AddressSpace(p), NEW lo \in Addrs, NEW hi \in Addrs,
         Munmap(p, lo, hi)
  PROVE  AddressSpace(p)'
<1> DEFINE cut    == CutVmas(p, lo, hi)
           pieces == CutPieces(p, lo, hi)
           gone   == GonePieces(p, lo, hi)
<1>0. /\ UnbornEmpty(p) /\ HandlerLife(p) /\ ClosedByOthers(p) /\ PendingShape(p)
      /\ SpansInSpace(p) /\ VmasDisjoint(p) /\ Populated(p)
  BY DEF AddressSpace
<1>1. lo \in Nat /\ hi \in Nat
  BY MemdevAssumption DEF MemdevAssumption
<1>2. /\ vmas' = (vmas \ cut) \cup (pieces \ gone)
      /\ pending'[p] = gone /\ pc'[p] = "zap" /\ pt' = pt
      /\ closer'[p] = closer[p] /\ life[p] = "alive" /\ life'[p] = "alive" /\ pc[p] = "idle"
  BY DEF Munmap, Runs, mmUnchanged, Types, CutVmas, CutPieces, GonePieces
<1>3. Mapped(p)' = Mapped(p)
  BY <1>2 DEF Mapped
<1>4. \A v \in cut : v \in Vma /\ v.mm = p /\ Span(v) \subseteq Addrs /\ v \in Linked(p)
  BY <1>0 DEF CutVmas, Linked, OwnVmas, SpansInSpace, Types
<1>5. \A w \in pieces : w \in Vma /\ w.mm = p /\ \E v \in cut : Span(w) \subseteq Span(v)
  BY <1>4, PieceFacts DEF CutPieces
<1>6. Linked(p)' = (Linked(p) \ cut) \cup (pieces \ gone)
  BY <1>2, <1>5 DEF Linked
<1>7. Mapped(p) = Covered(p)
  BY <1>0, <1>2 DEF Populated
<1>8. Covered(p)' = Covered(p) \ (lo .. hi)
  <2>1. ASSUME NEW a \in Covered(p), a \notin lo .. hi PROVE a \in Covered(p)'
    <3>1. PICK v \in Linked(p) : a \in Span(v)
      BY <2>1 DEF Covered
    <3>2. CASE v \notin cut
      BY <1>6, <3>1, <3>2 DEF Covered
    <3>3. CASE v \in cut
      <4>1. Within(v, lo, hi) # {}
        BY <3>3 DEF Within, CutVmas
      <4>2. PICK w \in Pieces(v, lo, hi) : a \in Span(w) /\ Span(w) \cap (lo .. hi) = {}
        BY <1>1, <1>4, <2>1, <3>1, <3>3, <4>1, CutKeeps
      <4>3. w \in pieces \ gone
        BY <3>3, <4>2 DEF CutPieces, GonePieces
      <4> QED BY <1>6, <4>2, <4>3 DEF Covered
    <3> QED BY <3>2, <3>3
  <2>2. ASSUME NEW a \in Covered(p)' PROVE a \in Covered(p) /\ a \notin lo .. hi
    <3>1. PICK w \in Linked(p)' : a \in Span(w)
      BY DEF Covered
    <3>2. CASE w \in Linked(p) \ cut
      <4>1. Span(w) \cap (lo .. hi) = {}
        BY <3>2 DEF CutVmas, Linked
      <4> QED BY <3>1, <3>2, <4>1 DEF Covered
    <3>3. CASE w \in pieces \ gone
      <4>1. PICK v \in cut : w \in Pieces(v, lo, hi)
        BY <3>3 DEF CutPieces
      <4>2. /\ Span(w) \in {Before(v, lo), Within(v, lo, hi), After(v, hi)}
            /\ Span(w) \subseteq Span(v)
        BY <1>4, <4>1, PieceFacts
      <4>3. Span(w) # Within(v, lo, hi)
        BY <3>3 DEF Within, GonePieces
      <4>4. \A b \in Span(v) : b \in Nat
        BY <1>4, SpanFacts
      <4>5. Span(w) \cap (lo .. hi) = {}
        BY <1>1, <4>2, <4>3, <4>4 DEF Before, After
      <4>6. v \in Linked(p)
        BY <1>4
      <4> QED BY <3>1, <4>2, <4>5, <4>6 DEF Covered
    <3> QED BY <1>6, <3>1, <3>2, <3>3
  <2> QED BY <2>1, <2>2
<1>9. Populated(p)'
  <2>1. InFlight(p)' = UNION {Span(w) : w \in gone}
    BY <1>2 DEF InFlight
  <2>2. ASSUME NEW a \in Covered(p), a \in lo .. hi PROVE a \in InFlight(p)'
    <3>1. PICK v \in Linked(p) : a \in Span(v)
      BY <2>2 DEF Covered
    <3>2. v \in cut /\ v \in Vma /\ v.mm = p
      BY <1>4, <2>2, <3>1 DEF CutVmas, Linked, Types
    <3>3. PICK w \in Pieces(v, lo, hi) : a \in Span(w) /\ Span(w) \subseteq lo .. hi
      BY <1>1, <1>4, <2>2, <3>1, <3>2, CutTakes
    <3>4. w \in gone
      BY <3>2, <3>3 DEF CutPieces, GonePieces
    <3> QED BY <2>1, <3>3, <3>4
  <2>3. ASSUME NEW a \in InFlight(p)' PROVE a \in Covered(p)
    <3>1. PICK w \in gone : a \in Span(w)
      BY <2>1, <2>3
    <3>2. w \in pieces
      BY <3>1 DEF GonePieces
    <3> QED BY <1>4, <1>5, <3>1, <3>2 DEF Covered
  <2> QED BY <1>2, <1>3, <1>7, <1>8, <2>2, <2>3 DEF Populated
<1>10. OwnVmas(p)' = (Linked(p) \ cut) \cup pieces
  BY <1>2, <1>6 DEF OwnVmas, GonePieces
<1>11. SpansInSpace(p)'
  <2>1. \A w \in pieces : Span(w) \subseteq Addrs
    BY <1>4, <1>5
  <2>2. \A w \in Linked(p) : Span(w) \subseteq Addrs
    BY <1>0 DEF SpansInSpace, OwnVmas
  <2> QED BY <1>10, <2>1, <2>2 DEF SpansInSpace
<1>12. VmasDisjoint(p)'
  <2>1. \A v \in Linked(p) \ cut, w \in pieces : Span(v) \cap Span(w) = {}
    BY <1>0, <1>4, <1>5 DEF VmasDisjoint, OwnVmas
  <2>2. \A v, w \in Linked(p) \ cut : v # w => Span(v) \cap Span(w) = {}
    BY <1>0 DEF VmasDisjoint, OwnVmas
  <2>3. \A v, w \in pieces : v # w => Span(v) \cap Span(w) = {}
    BY <1>1, PiecesDisjoint
  <2>4. \A v, w \in OwnVmas(p)' : v # w => Span(v) \cap Span(w) = {}
    BY <1>10, <2>1, <2>2, <2>3
  <2>5. Linked(p)' \cap pending'[p] = {}
    <3>1. \A w \in gone : w \notin Linked(p) \ cut
      <4>1. \A w \in pieces : Span(w) # {}
        BY <1>5, SpanFacts
      <4> QED BY <2>1, <4>1 DEF GonePieces
    <3> QED BY <1>2, <1>6, <3>1
  <2> QED BY <2>4, <2>5 DEF VmasDisjoint
<1>13. UnbornEmpty(p)' /\ HandlerLife(p)' /\ ClosedByOthers(p)'
  BY <1>0, <1>2 DEF UnbornEmpty, HandlerLife, ClosedByOthers
<1>14. PendingShape(p)'
  BY <1>2, <1>5 DEF PendingShape, Building, GonePieces
<1> QED BY <1>9, <1>11, <1>12, <1>13, <1>14 DEF AddressSpace

\* mmap starts on free addresses of its process.
LEMMA MmapStartSpace ==
  ASSUME Types, NEW p \in Procs, AddressSpace(p), NEW f \in Files, NEW lo \in Addrs,
         NEW len \in 1 .. MaxLen, MmapStart(p, f, lo, len)
  PROVE  AddressSpace(p)'
<1> DEFINE v == [mm |-> p, lo |-> lo, len |-> len, file |-> f]
<1>0. /\ UnbornEmpty(p) /\ HandlerLife(p) /\ ClosedByOthers(p) /\ PendingShape(p)
      /\ SpansInSpace(p) /\ VmasDisjoint(p) /\ Populated(p)
  BY DEF AddressSpace
<1>1. /\ life[p] = "alive" /\ life'[p] = life[p] /\ pc[p] = "idle" /\ pc'[p] = "alloc"
      /\ pending'[p] = {v} /\ vmas' = vmas /\ pt' = pt /\ closer' = closer
      /\ Span(v) \subseteq Addrs
      /\ \A w \in vmas : ~Overlaps(v, w)
  BY DEF MmapStart, Runs, mmUnchanged, Types
<1>2. v \in Vma /\ v.mm = p
  BY DEF Vma
<1> HIDE DEF v
<1>3. \A w \in Linked(p) : Span(v) \cap Span(w) = {}
  BY <1>1, <1>2 DEF Linked, Overlaps
<1>4. Linked(p)' = Linked(p) /\ Covered(p)' = Covered(p) /\ Mapped(p)' = Mapped(p)
      /\ OwnVmas(p)' = Linked(p) \cup {v}
  BY <1>1 DEF Linked, Covered, Mapped, OwnVmas
<1>5. Populated(p)'
  BY <1>0, <1>1, <1>4 DEF Populated
<1>6. VmasDisjoint(p)'
  <2>1. v \notin Linked(p)
    BY <1>2, <1>3, SpanFacts
  <2>2. \A x, w \in Linked(p) : x # w => Span(x) \cap Span(w) = {}
    BY <1>0 DEF VmasDisjoint, OwnVmas
  <2> QED BY <1>1, <1>3, <1>4, <2>1, <2>2 DEF VmasDisjoint
<1>7. SpansInSpace(p)'
  BY <1>0, <1>1, <1>4 DEF SpansInSpace, OwnVmas
<1>8. UnbornEmpty(p)' /\ HandlerLife(p)' /\ ClosedByOthers(p)' /\ PendingShape(p)'
  BY <1>0, <1>1, <1>2 DEF UnbornEmpty, HandlerLife, ClosedByOthers, PendingShape, Building
<1> QED BY <1>5, <1>6, <1>7, <1>8 DEF AddressSpace

\* An address space that is torn down keeps nothing but the vmas to close.
LEMMA TearDownSpace ==
  ASSUME Types, NEW p \in Procs, AddressSpace(p), NEW c \in Procs, TearDown(p, c),
         pc[p] = "idle", life'[p] = "dead"
  PROVE  AddressSpace(p)'
<1>0. /\ UnbornEmpty(p) /\ HandlerLife(p) /\ ClosedByOthers(p) /\ PendingShape(p)
      /\ SpansInSpace(p) /\ VmasDisjoint(p) /\ Populated(p)
  BY DEF AddressSpace
<1>1. /\ vmas' = {v \in vmas : v.mm # p}
      /\ pending'[p] = Linked(p) /\ pc'[p] = (IF Linked(p) = {} THEN "idle" ELSE "close")
  BY DEF TearDown, CloseVmas, Types, Linked
<1>2. Mapped(p)' = {}
  <2>1. Mapped(p)' = Mapped(p) \ Addrs
    BY ZapMapped DEF TearDown
  <2> QED BY <2>1 DEF Mapped
<1>3. Linked(p)' = {} /\ Covered(p)' = {} /\ OwnVmas(p)' = Linked(p)
  BY <1>1 DEF Linked, Covered, OwnVmas
<1>4. Populated(p)'
  BY <1>1, <1>2, <1>3 DEF Populated
<1>5. SpansInSpace(p)' /\ VmasDisjoint(p)'
  BY <1>0, <1>1, <1>3 DEF SpansInSpace, VmasDisjoint, OwnVmas
<1>6. UnbornEmpty(p)' /\ HandlerLife(p)' /\ ClosedByOthers(p)'
  BY <1>1 DEF UnbornEmpty, HandlerLife, ClosedByOthers
<1>7. PendingShape(p)'
  BY <1>1 DEF PendingShape, Building, Linked
<1> QED BY <1>4, <1>5, <1>6, <1>7 DEF AddressSpace

\* A teardown changes no other address space.
LEMMA TearDownOthers ==
  ASSUME Types, NEW p \in Procs, NEW c \in Procs, TearDown(p, c), NEW q \in Procs \ {p}
  PROVE  /\ closer'[q] = closer[q] /\ pc'[q] = pc[q] /\ pending'[q] = pending[q]
         /\ pt'[q] = pt[q] /\ Linked(q)' = Linked(q)
<1>1. closer'[q] = closer[q] /\ pc'[q] = pc[q] /\ pending'[q] = pending[q]
  BY DEF TearDown, CloseVmas, Types
<1>2. pt'[q] = pt[q]
  BY ZapMapped DEF TearDown
<1>3. Linked(q)' = Linked(q)
  BY DEF TearDown, Linked
<1> QED BY <1>1, <1>2, <1>3

\* A space stays in order when its process leaves it, and when execve takes it over.
LEMMA LifeSpace ==
  ASSUME NEW q \in Procs, AddressSpace(q),
         \/ life'[q] = "left" /\ life[q] = "alive" /\ pc[q] = "idle"
         \/ life'[q] = "alive" /\ life[q] = "unborn",
         pt'[q] = pt[q], pc'[q] = pc[q], pending'[q] = pending[q],
         closer'[q] = closer[q], Linked(q)' = Linked(q)
  PROVE  AddressSpace(q)'
<1>1. /\ Covered(q)' = Covered(q) /\ Mapped(q)' = Mapped(q) /\ InFlight(q)' = InFlight(q)
      /\ OwnVmas(q)' = OwnVmas(q)
  BY DEF Covered, Mapped, InFlight, OwnVmas
<1>2. UnbornEmpty(q)' /\ HandlerLife(q)' /\ ClosedByOthers(q)'
  BY DEF AddressSpace, UnbornEmpty, HandlerLife, ClosedByOthers
<1> QED BY <1>1, <1>2 DEF AddressSpace, PendingShape, SpansInSpace, VmasDisjoint, Populated

\* A write to a private page changes what an address maps, not which addresses do.
LEMMA FaultMapped ==
  ASSUME Types, NEW p \in Procs, NEW a \in Addrs, WriteFault(p, a)
  PROVE  \A q \in Procs : Mapped(q)' = Mapped(q)
<1>1. pt' = [pt EXCEPT ![p][a] = AnonPage] /\ pt[p][a] \in Pages
  BY DEF WriteFault
<1>2. \A q \in Procs : \A b \in Addrs : pt'[q][b] # NoPage <=> pt[q][b] # NoPage
  BY <1>1, MemdevAssumption DEF Types, MemdevAssumption
<1> QED BY <1>2 DEF Mapped

\* The vmas of a forked child, and the file and the addresses each of them has.
LEMMA ForkLinked ==
  ASSUME Types, NEW p \in Procs, NEW c \in Procs, AddressSpace(c), Fork(p, c)
  PROVE  /\ p # c
         /\ Linked(c)' = {[v EXCEPT !.mm = c] : v \in Linked(p)}
         /\ \A q \in Procs \ {c} : Linked(q)' = Linked(q)
         /\ \A v \in Vma : LET w == [v EXCEPT !.mm = c]
                           IN w \in Vma /\ w.mm = c /\ w.lo = v.lo /\ w.file = v.file
                              /\ Span(w) = Span(v)
<1>1. life[p] = "alive" /\ life[c] = "unborn"
  BY DEF Fork, Runs
<1>2. vmas' = vmas \cup {[v EXCEPT !.mm = c] : v \in Linked(p)}
  BY DEF Fork, Linked
<1>3. \A v \in Vma : LET w == [v EXCEPT !.mm = c]
                     IN w \in Vma /\ w.mm = c /\ w.lo = v.lo /\ w.len = v.len
                        /\ w.file = v.file
  BY DEF Vma
<1>4. \A v \in Linked(p) : [v EXCEPT !.mm = c].mm = c
  BY <1>3 DEF Linked, Types
<1>5. Linked(c) = {}
  BY <1>1 DEF AddressSpace, UnbornEmpty
<1>6. Linked(c)' = {[v EXCEPT !.mm = c] : v \in Linked(p)}
  BY <1>2, <1>4, <1>5 DEF Linked
<1>7. \A q \in Procs \ {c} : Linked(q)' = Linked(q)
  BY <1>2, <1>4 DEF Linked
<1>8. \A v \in Vma : Span([v EXCEPT !.mm = c]) = Span(v)
  BY <1>3 DEF Span
<1> QED BY <1>1, <1>3, <1>6, <1>7, <1>8

\* A forked child starts with the vmas and the page table of its parent.
LEMMA ForkSpace ==
  ASSUME Types, NEW p \in Procs, NEW c \in Procs, AddressSpace(p), AddressSpace(c),
         Fork(p, c)
  PROVE  AddressSpace(c)'
<1>1. /\ p # c
      /\ Linked(c)' = {[v EXCEPT !.mm = c] : v \in Linked(p)}
      /\ \A v \in Vma : LET w == [v EXCEPT !.mm = c]
                        IN w \in Vma /\ w.mm = c /\ Span(w) = Span(v)
  BY ForkLinked
<1>2. /\ life[c] = "unborn" /\ life'[c] = "alive" /\ pc[p] = "idle"
      /\ UNCHANGED <<pc, pending, closer>> /\ pt'[c] = pt[p]
  BY DEF Fork, Types
<1>3. pc[c] = "idle" /\ pending[c] = {} /\ closer[c] = c
  BY <1>2 DEF AddressSpace, UnbornEmpty, PendingShape, ClosedByOthers
<1>4. OwnVmas(c)' = Linked(c)'
  BY <1>2, <1>3 DEF OwnVmas
<1>5. Mapped(c)' = Mapped(p)
  BY <1>2 DEF Mapped
<1>6. \A v \in Linked(p) : v \in Vma /\ v \in OwnVmas(p) /\ v.mm = p
  BY DEF Linked, OwnVmas, Types
<1>7. Covered(c)' = Covered(p)
  <2> DEFINE Copy(v) == [v EXCEPT !.mm = c]
  <2>1. \A v \in Linked(p) : Copy(v) \in Linked(c)' /\ Span(Copy(v)) = Span(v)
    BY <1>1, <1>6
  <2>2. \A w \in Linked(c)' : \E v \in Linked(p) : Span(w) = Span(v)
    BY <1>1, <1>6
  <2>3. \A a : a \in Covered(c)' <=> \E w \in Linked(c)' : a \in Span(w)
    BY DEF Covered
  <2>4. \A a : a \in Covered(p) <=> \E v \in Linked(p) : a \in Span(v)
    BY DEF Covered
  <2> HIDE DEF Copy
  <2>5. \A a : a \in Covered(c)' <=> a \in Covered(p)
    BY <2>1, <2>2, <2>3, <2>4
  <2> QED BY <2>5
<1>8. Populated(c)'
  BY <1>2, <1>3, <1>5, <1>7 DEF Populated, AddressSpace
<1>9. SpansInSpace(c)'
  BY <1>1, <1>4, <1>6 DEF SpansInSpace, AddressSpace
<1>10. VmasDisjoint(c)'
  <2>1. \A v, w \in Linked(p) : v # w => Span(v) \cap Span(w) = {}
    BY <1>6 DEF AddressSpace, VmasDisjoint
  <2>2. \A v, w \in Linked(c)' : v # w => Span(v) \cap Span(w) = {}
    BY <1>1, <1>6, <2>1
  <2> QED BY <1>2, <1>3, <1>4, <2>2 DEF VmasDisjoint
<1>11. UnbornEmpty(c)' /\ HandlerLife(c)' /\ ClosedByOthers(c)' /\ PendingShape(c)'
  BY <1>2, <1>3 DEF UnbornEmpty, HandlerLife, ClosedByOthers, PendingShape, Building
<1> QED BY <1>8, <1>9, <1>10, <1>11 DEF AddressSpace

\* Every step keeps every address space in order.
LEMMA AddressSpacesPreserved ==
  ASSUME Types, AddressSpaces, HeldArrays, [Next]_vars
  PROVE  AddressSpaces'
<1> SUFFICES ASSUME NEW q \in Procs PROVE AddressSpace(q)'
  BY DEF AddressSpaces
<1>0. \A p \in Procs : AddressSpace(p)
  BY DEF AddressSpaces
<1>1. ASSUME UNCHANGED mmVars PROVE AddressSpace(q)'
  <2>1. UNCHANGED <<life, vmas, pt, pc, pending, closer>>
    BY <1>1 DEF mmVars
  <2>2. Linked(q)' = Linked(q)
    BY <2>1 DEF Linked
  <2> QED BY <1>0, <2>1, <2>2, OtherSpace
<1>2. CASE ModuleStep
  <2>1. UNCHANGED mmVars
    BY <1>2 DEF ModuleStep, Insmod, memdev_init, InitFails, Unregister, Rmmod, ExitCheck,
                ExitFree, memdevUnchanged
  <2> QED BY <1>1, <2>1
<1>3. ASSUME NEW f \in Files, FileStep(f) PROVE AddressSpace(q)'
  <2>1. UNCHANGED mmVars
    BY <1>3 DEF FileStep, memdev_open_get, memdev_open_link, OpenFailed, memdev_release,
                memdev_release_put, Fput, ExitFiles, CloseFd, fsUnchanged
  <2> QED BY <1>1, <2>1
<1>4. ASSUME NEW p \in Procs, HandlerStep(p) PROVE AddressSpace(q)'
  <2>1. CASE q = p BY <1>4, <2>1, HandlerSpace
  <2>2. CASE q # p
    <3>1. /\ life' = life /\ closer' = closer
          /\ pt'[q] = pt[q] /\ pc'[q] = pc[q] /\ pending'[q] = pending[q]
          /\ Linked(q)' = Linked(q)
      BY <1>4, <2>2, HandlerOthers
    <3> QED BY <1>0, <3>1, OtherSpace
  <2> QED BY <2>1, <2>2
<1>5. ASSUME NEW p \in Procs, NEW f \in Files, ChrdevOpen(p, f) \/ Close(p, f)
      PROVE  AddressSpace(q)'
  <2>1. UNCHANGED mmVars
    BY <1>5 DEF ChrdevOpen, Close, CloseFd, fsUnchanged
  <2> QED BY <1>1, <2>1
<1>6. ASSUME NEW p \in Procs, NEW f \in Files, NEW lo \in Addrs, NEW len \in 1 .. MaxLen,
             MmapStart(p, f, lo, len)
      PROVE  AddressSpace(q)'
  <2>1. CASE q = p BY <1>0, <1>6, <2>1, MmapStartSpace
  <2>2. CASE q # p
    <3>1. UNCHANGED <<life, vmas, pt, closer>> /\ pc'[q] = pc[q] /\ pending'[q] = pending[q]
      BY <1>6, <2>2 DEF MmapStart, mmUnchanged, Types
    <3>2. Linked(q)' = Linked(q)
      BY <3>1 DEF Linked
    <3>3. life'[q] = life[q] /\ pt'[q] = pt[q] /\ closer'[q] = closer[q]
      BY <3>1
    <3> QED BY <1>0, <3>1, <3>2, <3>3, OtherSpace
  <2> QED BY <2>1, <2>2
<1>7. ASSUME NEW p \in Procs, NEW lo \in Addrs, NEW hi \in Addrs, Munmap(p, lo, hi)
      PROVE  AddressSpace(q)'
  <2>1. CASE q = p BY <1>0, <1>7, <2>1, MunmapSpace
  <2>2. CASE q # p
    <3>1. /\ life' = life /\ closer'[q] = closer[q]
          /\ pc'[q] = pc[q] /\ pending'[q] = pending[q]
      BY <1>7, <2>2 DEF Munmap, mmUnchanged, Types
    <3>2. pt'[q] = pt[q]
      BY <1>7 DEF Munmap
    <3>3. Linked(q)' = Linked(q)
      <4>1. vmas' = (vmas \ CutVmas(p, lo, hi))
                    \cup (CutPieces(p, lo, hi) \ GonePieces(p, lo, hi))
        BY <1>7 DEF Munmap, CutVmas, CutPieces, GonePieces
      <4>2. \A v \in CutVmas(p, lo, hi) : v \in Vma /\ v.mm = p
        BY DEF CutVmas, Types
      <4>3. \A w \in CutPieces(p, lo, hi) : w.mm = p
        BY <4>2, PieceFacts DEF CutPieces
      <4> QED BY <2>2, <4>1, <4>2, <4>3 DEF Linked
    <3> QED BY <1>0, <3>1, <3>2, <3>3, OtherSpace
  <2> QED BY <2>1, <2>2
<1>8. ASSUME NEW p \in Procs, NEW c \in Procs, Fork(p, c) PROVE AddressSpace(q)'
  <2>1. CASE q = c BY <1>0, <1>8, <2>1, ForkSpace
  <2>2. CASE q # c
    <3>1. UNCHANGED <<pc, pending, closer>> /\ life'[q] = life[q] /\ pt'[q] = pt[q]
      BY <1>8, <2>2 DEF Fork, Types
    <3>2. pc'[q] = pc[q] /\ pending'[q] = pending[q] /\ closer'[q] = closer[q]
      BY <3>1
    <3>3. Linked(q)' = Linked(q)
      BY <1>0, <1>8, <2>2, ForkLinked
    <3> QED BY <1>0, <3>1, <3>2, <3>3, OtherSpace
  <2> QED BY <2>1, <2>2
<1>9. ASSUME NEW p \in Procs, NEW c \in Procs, TearDown(p, c), pc[p] = "idle",
             life'[p] = "dead", q # p => life'[q] = life[q]
      PROVE  AddressSpace(q)'
  <2>1. CASE q = p BY <1>0, <1>9, <2>1, TearDownSpace
  <2>2. CASE q # p
    <3>1. /\ closer'[q] = closer[q] /\ pc'[q] = pc[q] /\ pending'[q] = pending[q]
          /\ pt'[q] = pt[q] /\ Linked(q)' = Linked(q)
      BY <1>9, <2>2, TearDownOthers
    <3> QED BY <1>0, <1>9, <2>2, <3>1, OtherSpace
  <2> QED BY <2>1, <2>2
<1>10. CASE UNCHANGED vars
  BY <1>1, <1>10 DEF vars, mmVars
<1>11. ASSUME NEW p \in Procs, Exit(p) PROVE AddressSpace(q)'
  BY <1>9, <1>11 DEF Exit, Settled, Types
<1>12. ASSUME NEW p \in Procs, NEW c \in Procs, LastMmput(p, c) PROVE AddressSpace(q)'
  <2>1. life[p] = "left" /\ life' = [life EXCEPT ![p] = "dead"] /\ TearDown(p, c)
    BY <1>12 DEF LastMmput
  <2>2. pc[p] = "idle"
    BY <1>0, <2>1 DEF AddressSpace, HandlerLife
  <2> QED BY <1>9, <2>1, <2>2 DEF Types
<1>13. ASSUME UNCHANGED <<vmas, pt, pc, pending, closer>>,
              \/ life'[q] = life[q]
              \/ life'[q] = "left" /\ Runs(q) /\ pc[q] = "idle"
              \/ life'[q] = "alive" /\ life[q] = "unborn"
       PROVE  AddressSpace(q)'
  <2>1. Linked(q)' = Linked(q)
    BY <1>13 DEF Linked
  <2>2. CASE life'[q] = life[q]
    BY <1>0, <1>13, <2>1, <2>2, OtherSpace
  <2>3. CASE life'[q] # life[q]
    BY <1>0, <1>13, <2>1, <2>3, LifeSpace DEF Runs
  <2> QED BY <2>2, <2>3
<1>14. ASSUME NEW p \in Procs, Leave(p) PROVE AddressSpace(q)'
  BY <1>13, <1>14 DEF Leave, Settled, Types
<1>15. ASSUME NEW p \in Procs, NEW c \in Procs, Exec(p, c) PROVE AddressSpace(q)'
  <2>1. Settled(p) /\ life[c] = "unborn" /\ p # c
    BY <1>15 DEF Exec, Settled, Runs
  <2>2. CASE life' = [life EXCEPT ![p] = "dead", ![c] = "alive"] /\ TearDown(p, c)
    <3>1. CASE q = c
      <4>1. /\ closer'[q] = closer[q] /\ pc'[q] = pc[q] /\ pending'[q] = pending[q]
            /\ pt'[q] = pt[q] /\ Linked(q)' = Linked(q)
        BY <2>1, <2>2, <3>1, TearDownOthers
      <4>2. life'[q] = "alive" /\ life[q] = "unborn"
        BY <2>1, <2>2, <3>1 DEF Types
      <4> QED BY <1>0, <4>1, <4>2, LifeSpace
    <3>2. CASE q # c
      <4>1. life'[p] = "dead" /\ (q # p => life'[q] = life[q]) /\ pc[p] = "idle"
        BY <2>1, <2>2, <3>2 DEF Types, Settled
      <4> QED BY <1>9, <2>2, <4>1
    <3> QED BY <3>1, <3>2
  <2>3. CASE /\ life' = [life EXCEPT ![p] = "left", ![c] = "alive"]
             /\ UNCHANGED <<vmas, pt, ref, pc, pending, closer>>
    BY <1>13, <2>1, <2>3 DEF Types, Settled
  <2> QED BY <1>15, <2>2, <2>3 DEF Exec
<1>16. ASSUME NEW p \in Procs, NEW a \in Addrs, WriteFault(p, a) PROVE AddressSpace(q)'
  <2>1. UNCHANGED <<life, vmas, pc, pending, closer>>
    BY <1>16 DEF WriteFault, mmUnchanged
  <2>2. Linked(q)' = Linked(q) /\ Mapped(q)' = Mapped(q)
    BY <1>16, <2>1, FaultMapped DEF Linked
  <2> QED BY <1>0, <2>1, <2>2, SameSpace
<1>17. ASSUME NEW p \in Procs, UserStep(p) PROVE AddressSpace(q)'
  BY <1>5, <1>6, <1>7, <1>8, <1>11, <1>12, <1>14, <1>15, <1>16, <1>17 DEF UserStep
<1> QED BY <1>2, <1>3, <1>4, <1>10, <1>17 DEF Next

-------------------------------------------------------------------------------
(* Page reference counts.                                                  *)

\* The slots of an array, the addresses of p in as, and the slots of the arrays of a
\* set of regions that hold the page g: what InArray, InTable and InRegions count.
ArraySlots(pages, g) == {i \in DOMAIN pages : pages[i] = g}
TableSlots(p, as, g) == {a \in Addrs \cap as : pt[p][a] = g}
RegionSlots(rs, g)   == {s \in rs \X (1 .. MaxLen) :
                           s[2] \in DOMAIN s[1].pages /\ s[1].pages[s[2]] = g}

\* The sets that are counted are finite.
LEMMA CountedFinite ==
  ASSUME Types, NEW g
  PROVE  /\ IsFiniteSet(Entries(g)) /\ Cardinality(Entries(g)) \in Nat
         /\ IsFiniteSet(HeldSlots(g)) /\ Cardinality(HeldSlots(g)) \in Nat
         /\ IsFiniteSet(ListedSlots(g)) /\ Cardinality(ListedSlots(g)) \in Nat
<1>1. IsFiniteSet(Procs) /\ IsFiniteSet(Addrs) /\ IsFiniteSet(regions)
  BY MemdevAssumption DEF MemdevAssumption, Types
<1>2. IsFiniteSet(1 .. MaxLen)
  <2>1. 1 \in Int /\ MaxLen \in Int
    BY MemdevAssumption DEF MemdevAssumption
  <2> QED BY <2>1, FS_Interval
<1>3. /\ IsFiniteSet(Procs \X Addrs) /\ IsFiniteSet(Procs \X (1 .. MaxLen))
      /\ IsFiniteSet(regions \X (1 .. MaxLen))
  BY <1>1, <1>2, FS_Product
<1>4. /\ Entries(g) \in SUBSET (Procs \X Addrs)
      /\ HeldSlots(g) \in SUBSET (Procs \X (1 .. MaxLen))
      /\ ListedSlots(g) \in SUBSET (regions \X (1 .. MaxLen))
  BY DEF Entries, HeldSlots, ListedSlots
<1> QED BY <1>3, <1>4, FS_Subset, FS_CardinalityType

\* A row of pairs has as many elements as the set it pairs x with.
LEMMA RowCount ==
  ASSUME NEW x, NEW I, IsFiniteSet(I)
  PROVE  IsFiniteSet({x} \X I) /\ Cardinality({x} \X I) = Cardinality(I)
<1>1. IsFiniteSet({x}) /\ Cardinality({x}) = 1
  BY FS_Singleton
<1>2. /\ IsFiniteSet({x} \X I)
      /\ Cardinality({x} \X I) = Cardinality({x}) * Cardinality(I)
  BY <1>1, FS_Product
<1>3. Cardinality(I) \in Nat
  BY FS_CardinalityType
<1> QED BY <1>1, <1>2, <1>3

LEMMA AddRow ==
  ASSUME NEW S, IsFiniteSet(S), NEW x, NEW I, IsFiniteSet(I), S \cap ({x} \X I) = {}
  PROVE  Cardinality(S \cup ({x} \X I)) = Cardinality(S) + Cardinality(I)
<1>1. IsFiniteSet({x} \X I) /\ Cardinality({x} \X I) = Cardinality(I)
  BY RowCount
<1>2. Cardinality(S \cup ({x} \X I)) =
        Cardinality(S) + Cardinality({x} \X I) - Cardinality(S \cap ({x} \X I))
  BY <1>1, FS_Union
<1>3. Cardinality(S \cap ({x} \X I)) = 0
  BY FS_EmptySet
<1>4. Cardinality(S) \in Nat /\ Cardinality(I) \in Nat
  BY FS_CardinalityType
<1> QED BY <1>1, <1>2, <1>3, <1>4

LEMMA DropRow ==
  ASSUME NEW S, IsFiniteSet(S), NEW x, NEW I, IsFiniteSet(I), {x} \X I \subseteq S
  PROVE  Cardinality(S \ ({x} \X I)) = Cardinality(S) - Cardinality(I)
<1>1. Cardinality({x} \X I) = Cardinality(I)
  BY RowCount
<1>2. S \cap ({x} \X I) = {x} \X I
  OBVIOUS
<1>3. Cardinality(S \ ({x} \X I)) = Cardinality(S) - Cardinality(S \cap ({x} \X I))
  BY FS_Difference
<1> QED BY <1>1, <1>2, <1>3

\* A step that changes neither counts nor what is counted.
LEMMA AccountFrame ==
  ASSUME PagesAccounted, UNCHANGED <<ref, pt, held, regions>>
  PROVE  PagesAccounted'
BY DEF PagesAccounted, DriverRefs, Entries, HeldSlots, ListedSlots

\* Entries of p that stop mapping a page, in a zap or in a write fault, drop the
\* reference that each of them holds, and no other.
LEMMA DropAccount ==
  ASSUME Types, PagesAccounted, NEW p \in Procs, NEW as,
         \A a \in Addrs : IF a \in as THEN pt'[p][a] \notin Pages ELSE pt'[p][a] = pt[p][a],
         \A q \in Procs \ {p} : pt'[q] = pt[q],
         ref' = PutPages(InTable(p, as)),
         UNCHANGED <<held, regions>>
  PROVE  PagesAccounted'
<1> SUFFICES ASSUME NEW g \in Pages
             PROVE  /\ ref'[g] = Cardinality(Entries(g)') + DriverRefs(g)'
                    /\ DriverRefs(g)' <= 1
  BY DEF PagesAccounted
<1> DEFINE I == TableSlots(p, as, g)
<1>1. ref[g] = Cardinality(Entries(g)) + DriverRefs(g) /\ DriverRefs(g) <= 1
  BY DEF PagesAccounted
<1>2. DriverRefs(g)' = DriverRefs(g) /\ DriverRefs(g) \in Nat
  <2>1. DriverRefs(g)' = DriverRefs(g)
    BY DEF DriverRefs, HeldSlots, ListedSlots
  <2>2. Cardinality(HeldSlots(g)) \in Nat /\ Cardinality(ListedSlots(g)) \in Nat
    BY CountedFinite
  <2> QED BY <2>1, <2>2 DEF DriverRefs
<1>3. IsFiniteSet(Entries(g)) /\ Cardinality(Entries(g)) \in Nat
  BY CountedFinite
<1>4. IsFiniteSet(I) /\ Cardinality(I) \in Nat
  <2>1. I \in SUBSET Addrs
    BY DEF TableSlots
  <2> QED BY <2>1, FS_Subset, FS_CardinalityType, MemdevAssumption DEF MemdevAssumption
<1>5. ref'[g] = ref[g] - Cardinality(I)
  BY DEF PutPages, InTable, TableSlots
<1>6. {p} \X I \subseteq Entries(g)
  BY DEF TableSlots, Entries
<1>7. Entries(g)' = Entries(g) \ ({p} \X I)
  <2>1. ASSUME NEW q \in Procs, NEW a \in Addrs
        PROVE  pt'[q][a] = g <=> (pt[q][a] = g /\ <<q, a>> \notin {p} \X I)
    <3>1. CASE q = p
      <4>1. a \in I <=> a \in as /\ pt[p][a] = g
        BY DEF TableSlots
      <4>2. pt'[p][a] = g <=> pt[p][a] = g /\ a \notin as
        OBVIOUS
      <4> HIDE DEF I
      <4> QED BY <3>1, <4>1, <4>2
    <3>2. CASE q # p
      BY <3>2
    <3> QED BY <3>1, <3>2
  <2> HIDE DEF I
  <2> QED BY <2>1 DEF Entries
<1>8. Cardinality(Entries(g)') = Cardinality(Entries(g)) - Cardinality(I)
  <2> HIDE DEF I
  <2>1. Cardinality(Entries(g) \ ({p} \X I)) = Cardinality(Entries(g)) - Cardinality(I)
    BY <1>3, <1>4, <1>6, DropRow
  <2> QED BY <1>7, <2>1
<1> HIDE DEF I
<1> QED BY <1>1, <1>2, <1>3, <1>4, <1>5, <1>8

\* In particular a zap.
LEMMA ZapAccount ==
  ASSUME Types, PagesAccounted, NEW p \in Procs, NEW as, Zap(p, as),
         UNCHANGED <<held, regions>>
  PROVE  PagesAccounted'
<1>1. /\ \A a \in Addrs : pt'[p][a] = IF a \in as THEN NoPage ELSE pt[p][a]
      /\ \A q \in Procs \ {p} : pt'[q] = pt[q]
      /\ ref' = PutPages(InTable(p, as))
  BY DEF Zap, Types
<1>2. \A a \in Addrs : IF a \in as THEN pt'[p][a] \notin Pages ELSE pt'[p][a] = pt[p][a]
  BY <1>1, MemdevAssumption DEF MemdevAssumption
<1> QED BY <1>1, <1>2, DropAccount

LEMMA FaultAccount ==
  ASSUME Types, PagesAccounted, NEW p \in Procs, NEW a \in Addrs, WriteFault(p, a)
  PROVE  PagesAccounted'
<1>1. /\ pt' = [pt EXCEPT ![p][a] = AnonPage] /\ ref' = PutPages(InTable(p, {a}))
      /\ UNCHANGED <<held, regions>>
  BY DEF WriteFault
<1>2. AnonPage \notin Pages
  BY MemdevAssumption DEF MemdevAssumption
<1>3. /\ \A b \in Addrs : pt'[p][b] = IF b \in {a} THEN AnonPage ELSE pt[p][b]
      /\ \A q \in Procs \ {p} : pt'[q] = pt[q]
  BY <1>1 DEF Types
<1> QED BY <1>1, <1>2, <1>3, DropAccount

\* Freeing listed regions drops the driver's reference on each of their pages.
LEMMA FreeAccount ==
  ASSUME Types, PagesAccounted, NEW rs \in SUBSET regions, free_mapped_region(rs),
         UNCHANGED <<pt, held>>
  PROVE  PagesAccounted'
<1> SUFFICES ASSUME NEW g \in Pages
             PROVE  /\ ref'[g] = Cardinality(Entries(g)') + DriverRefs(g)'
                    /\ DriverRefs(g)' <= 1
  BY DEF PagesAccounted
<1>1. ref[g] = Cardinality(Entries(g)) + DriverRefs(g) /\ DriverRefs(g) <= 1
  BY DEF PagesAccounted
<1>2. /\ Cardinality(Entries(g)) \in Nat /\ Cardinality(HeldSlots(g)) \in Nat
      /\ Cardinality(ListedSlots(g)) \in Nat /\ IsFiniteSet(ListedSlots(g))
  BY CountedFinite
<1>3. Entries(g)' = Entries(g) /\ HeldSlots(g)' = HeldSlots(g)
  BY DEF Entries, HeldSlots
<1>4. ListedSlots(g)' = ListedSlots(g) \ RegionSlots(rs, g)
  BY DEF ListedSlots, RegionSlots, free_mapped_region
<1>5. ListedSlots(g) \cap RegionSlots(rs, g) = RegionSlots(rs, g)
  BY DEF ListedSlots, RegionSlots
<1>6. /\ Cardinality(ListedSlots(g)') =
           Cardinality(ListedSlots(g)) - Cardinality(RegionSlots(rs, g))
      /\ Cardinality(RegionSlots(rs, g)) \in Nat
  BY <1>2, <1>4, <1>5, FS_Difference, FS_Intersection, FS_CardinalityType
<1>7. ref'[g] = ref[g] - Cardinality(RegionSlots(rs, g))
  BY DEF free_mapped_region, PutPages, InRegions, RegionSlots
<1>8. /\ DriverRefs(g) = Cardinality(HeldSlots(g)) + Cardinality(ListedSlots(g))
      /\ DriverRefs(g)' = Cardinality(HeldSlots(g)') + Cardinality(ListedSlots(g)')
  BY DEF DriverRefs
<1>9. Cardinality(Entries(g)') = Cardinality(Entries(g))
      /\ Cardinality(HeldSlots(g)') = Cardinality(HeldSlots(g))
  BY <1>3
<1> QED BY <1>1, <1>2, <1>6, <1>7, <1>8, <1>9

\* The slots of an array that is no longer than a mapping may be.
LEMMA ArraySlotsBound ==
  ASSUME NEW s \in Seq(Pages), Len(s) <= MaxLen, NEW g
  PROVE  /\ ArraySlots(s, g) \subseteq 1 .. MaxLen
         /\ \A i : i \in ArraySlots(s, g) <=> i \in 1 .. MaxLen /\ i \in DOMAIN s /\ s[i] = g
<1>1. DOMAIN s \subseteq 1 .. MaxLen
  BY MemdevAssumption DEF MemdevAssumption
<1> QED BY <1>1 DEF ArraySlots

\* HeldSlots pairs a process with the slots of its array.
LEMMA HeldRow ==
  ASSUME Types, HeldShape, NEW p \in Procs, NEW g
  PROVE  \A i : <<p, i>> \in HeldSlots(g) <=> i \in ArraySlots(held[p], g)
<1>1. held[p] \in Seq(Pages) /\ Len(held[p]) <= MaxLen
  <2>1. CASE held[p] = << >>
    BY <2>1, MemdevAssumption DEF MemdevAssumption
  <2>2. CASE held[p] # << >>
    BY <2>2 DEF HeldShape, Types
  <2> QED BY <2>1, <2>2
<1>2. \A i : i \in ArraySlots(held[p], g)
               <=> i \in 1 .. MaxLen /\ i \in DOMAIN held[p] /\ held[p][i] = g
  BY <1>1, ArraySlotsBound
<1> QED BY <1>2 DEF HeldSlots

LEMMA ArraySlotsFinite ==
  ASSUME NEW s \in Seq(Pages), NEW g
  PROVE  IsFiniteSet(ArraySlots(s, g)) /\ Cardinality(ArraySlots(s, g)) \in Nat
<1>1. ArraySlots(s, g) \in SUBSET DOMAIN s
  BY DEF ArraySlots
<1> QED BY <1>1, SlotsFinite, FS_Subset, FS_CardinalityType

\* What changes in the rows of one process changes the slots of no other.
LEMMA HeldOthers ==
  ASSUME Types, NEW p \in Procs, NEW array, held' = [held EXCEPT ![p] = array], NEW g
  PROVE  /\ held'[p] = array
         /\ \A q \in Procs \ {p}, i \in 1 .. MaxLen :
              <<q, i>> \in HeldSlots(g)' <=> <<q, i>> \in HeldSlots(g)
BY DEF HeldSlots, Types

\* The allocator of a cleared array takes one reference for each slot that it fills with
\* a page that was free.
LEMMA AllocAccount ==
  ASSUME Types, InitOnAlloc, HeldShape, HeldShape', Types', PagesAccounted,
         NEW p \in Procs, AllocPages(p)
  PROVE  PagesAccounted'
<1>1. PICK v \in pending[p], array \in Seq(Pages), count \in [Pages -> Nat] :
         /\ Len(array) <= v.len
         /\ held' = [held EXCEPT ![p] = array]
         /\ ref' = GetPages(count)
         /\ pc' = [pc EXCEPT ![p] = IF Len(array) = v.len THEN "map" ELSE "err"]
         /\ InitOnAlloc => /\ count = InArray(array)
                           /\ \A i \in DOMAIN array : array[i] \in FreePages
                           /\ \A i, j \in DOMAIN array : array[i] = array[j] => i = j
  BY AllocArray
<1>2. pc[p] = "alloc" /\ pt' = pt /\ regions' = regions
  BY DEF AllocPages
<1>3. held[p] = << >> /\ held'[p] = array
  <2>1. held[p] = << >>
    BY <1>2 DEF HeldShape
  <2>2. held'[p] = array
    BY <1>1 DEF Types
  <2> QED BY <2>1, <2>2
<1> SUFFICES ASSUME NEW g \in Pages
             PROVE  /\ ref'[g] = Cardinality(Entries(g)') + DriverRefs(g)'
                    /\ DriverRefs(g)' <= 1
  BY DEF PagesAccounted
<1> DEFINE I == ArraySlots(array, g)
<1>4. IsFiniteSet(I) /\ Cardinality(I) \in Nat
  BY ArraySlotsFinite
<1>5. /\ Cardinality(Entries(g)) \in Nat /\ Cardinality(HeldSlots(g)) \in Nat
      /\ Cardinality(ListedSlots(g)) \in Nat /\ IsFiniteSet(HeldSlots(g))
  BY CountedFinite
<1>6. ref[g] = Cardinality(Entries(g)) + DriverRefs(g) /\ DriverRefs(g) <= 1
  BY DEF PagesAccounted
<1>7. ref'[g] = ref[g] + Cardinality(I)
  BY <1>1 DEF GetPages, InArray, ArraySlots
<1>8. Entries(g)' = Entries(g) /\ ListedSlots(g)' = ListedSlots(g)
  BY <1>2 DEF Entries, ListedSlots
<1>9. HeldSlots(g)' = HeldSlots(g) \cup ({p} \X I) /\ HeldSlots(g) \cap ({p} \X I) = {}
  <2>1. \A i : <<p, i>> \notin HeldSlots(g)
    BY <1>3 DEF HeldSlots
  <2>2. I \subseteq 1 .. MaxLen /\ \A i : <<p, i>> \in HeldSlots(g)' <=> i \in I
    <3>1. Len(array) <= MaxLen
      <4>1. CASE array = << >>
        BY <4>1, MemdevAssumption DEF MemdevAssumption
      <4>2. CASE array # << >>
        BY <1>3, <4>2 DEF HeldShape
      <4> QED BY <4>1, <4>2
    <3>2. /\ I \subseteq 1 .. MaxLen
          /\ \A i : i \in I <=> i \in 1 .. MaxLen /\ i \in DOMAIN array /\ array[i] = g
      BY <3>1, ArraySlotsBound
    <3> HIDE DEF I
    <3> QED BY <1>3, <3>2 DEF HeldSlots
  <2>3. \A q \in Procs \ {p}, i \in 1 .. MaxLen :
          <<q, i>> \in HeldSlots(g)' <=> <<q, i>> \in HeldSlots(g)
    BY <1>1, HeldOthers
  <2>4. HeldSlots(g) \subseteq Procs \X (1 .. MaxLen)
        /\ HeldSlots(g)' \subseteq Procs \X (1 .. MaxLen)
    BY DEF HeldSlots
  <2> HIDE DEF I
  <2>5. \A q \in Procs, i \in 1 .. MaxLen :
          <<q, i>> \in HeldSlots(g)' <=> <<q, i>> \in HeldSlots(g) \cup ({p} \X I)
    BY <2>1, <2>2, <2>3
  <2> QED BY <2>1, <2>2, <2>4, <2>5
<1>10. Cardinality(HeldSlots(g)') = Cardinality(HeldSlots(g)) + Cardinality(I)
  <2> HIDE DEF I
  <2>1. Cardinality(HeldSlots(g) \cup ({p} \X I)) = Cardinality(HeldSlots(g)) + Cardinality(I)
    BY <1>4, <1>5, <1>9, AddRow
  <2> QED BY <1>9, <2>1
<1>11. /\ DriverRefs(g) = Cardinality(HeldSlots(g)) + Cardinality(ListedSlots(g))
       /\ DriverRefs(g)' = Cardinality(HeldSlots(g)') + Cardinality(ListedSlots(g)')
  BY DEF DriverRefs
<1>12. Cardinality(Entries(g)') = Cardinality(Entries(g))
       /\ Cardinality(ListedSlots(g)') = Cardinality(ListedSlots(g))
  BY <1>8
<1>13. CASE I = {}
  <2>1. Cardinality(I) = 0
    BY <1>13, FS_EmptySet
  <2> HIDE DEF I
  <2> QED BY <1>5, <1>6, <1>7, <1>10, <1>11, <1>12, <2>1
<1>14. CASE I # {}
  <2>1. PICK i \in I : TRUE
    BY <1>14
  <2>2. ref[g] = 0
    BY <1>1, <2>1 DEF ArraySlots, FreePages
  <2>3. I = {i}
    BY <1>1, <2>1 DEF ArraySlots
  <2>4. Cardinality(I) = 1
    BY <2>3, FS_Singleton
  <2> HIDE DEF I
  <2> QED BY <1>5, <1>6, <1>7, <1>10, <1>11, <1>12, <2>2, <2>4
<1> QED BY <1>13, <1>14

\* An array that a process gives up takes its slots out of the count.
LEMMA HeldDropped ==
  ASSUME Types, HeldShape, NEW p \in Procs, held' = [held EXCEPT ![p] = << >>], NEW g
  PROVE  Cardinality(HeldSlots(g)') =
           Cardinality(HeldSlots(g)) - Cardinality(ArraySlots(held[p], g))
<1> DEFINE I == ArraySlots(held[p], g)
<1>1. IsFiniteSet(I)
  BY ArraySlotsFinite DEF Types
<1>2. \A i : <<p, i>> \in HeldSlots(g) <=> i \in I
  BY HeldRow
<1>3. held'[p] = << >>
  BY DEF Types
<1>4. \A i : <<p, i>> \notin HeldSlots(g)'
  BY <1>3 DEF HeldSlots
<1>5. \A q \in Procs \ {p}, i \in 1 .. MaxLen :
        <<q, i>> \in HeldSlots(g)' <=> <<q, i>> \in HeldSlots(g)
  BY HeldOthers
<1>6. HeldSlots(g) \subseteq Procs \X (1 .. MaxLen)
      /\ HeldSlots(g)' \subseteq Procs \X (1 .. MaxLen)
  BY DEF HeldSlots
<1> HIDE DEF I
<1>7. \A q \in Procs, i \in 1 .. MaxLen :
        <<q, i>> \in HeldSlots(g)' <=> <<q, i>> \in HeldSlots(g) \ ({p} \X I)
  BY <1>2, <1>4, <1>5
<1>8. HeldSlots(g)' = HeldSlots(g) \ ({p} \X I)
  BY <1>6, <1>7
<1>9. {p} \X I \subseteq HeldSlots(g)
  BY <1>2
<1>10. IsFiniteSet(HeldSlots(g))
  BY CountedFinite
<1>11. Cardinality(HeldSlots(g) \ ({p} \X I)) = Cardinality(HeldSlots(g)) - Cardinality(I)
  BY <1>1, <1>9, <1>10, DropRow
<1> QED BY <1>8, <1>11 DEF I

\* The error path drops the reference of each slot of the array.
LEMMA ErrAccount ==
  ASSUME Types, HeldShape, PagesAccounted, NEW p \in Procs, err_free_pages(p)
  PROVE  PagesAccounted'
<1>1. /\ ref' = PutPages(InArray(held[p])) /\ held' = [held EXCEPT ![p] = << >>]
      /\ UNCHANGED <<pt, regions>>
  BY DEF err_free_pages, Allocated
<1> SUFFICES ASSUME NEW g \in Pages
             PROVE  /\ ref'[g] = Cardinality(Entries(g)') + DriverRefs(g)'
                    /\ DriverRefs(g)' <= 1
  BY DEF PagesAccounted
<1>2. ref[g] = Cardinality(Entries(g)) + DriverRefs(g) /\ DriverRefs(g) <= 1
  BY DEF PagesAccounted
<1>3. /\ Cardinality(Entries(g)) \in Nat /\ Cardinality(HeldSlots(g)) \in Nat
      /\ Cardinality(ListedSlots(g)) \in Nat
  BY CountedFinite
<1>4. Cardinality(ArraySlots(held[p], g)) \in Nat
  BY ArraySlotsFinite DEF Types
<1>5. Cardinality(HeldSlots(g)') =
        Cardinality(HeldSlots(g)) - Cardinality(ArraySlots(held[p], g))
  BY <1>1, HeldDropped
<1>6. ref'[g] = ref[g] - Cardinality(ArraySlots(held[p], g))
  BY <1>1 DEF PutPages, InArray, ArraySlots
<1>7. Entries(g)' = Entries(g) /\ ListedSlots(g)' = ListedSlots(g)
  BY <1>1 DEF Entries, ListedSlots
<1>8. /\ DriverRefs(g) = Cardinality(HeldSlots(g)) + Cardinality(ListedSlots(g))
      /\ DriverRefs(g)' = Cardinality(HeldSlots(g)') + Cardinality(ListedSlots(g))
  BY <1>7 DEF DriverRefs
<1>9. Cardinality(Entries(g)') = Cardinality(Entries(g))
  BY <1>7
<1> QED BY <1>2, <1>3, <1>4, <1>5, <1>6, <1>8, <1>9

\* The region that mmap lists is a new one, as nothing else points to its pages.
LEMMA NewRegion ==
  ASSUME Types, HeldShape, HeldArrays, PagesAccounted, NEW p \in Procs, pc[p] = "region",
         NEW r, r.pages = held[p]
  PROVE  r \notin regions
<1> SUFFICES ASSUME r \in regions PROVE FALSE
  OBVIOUS
<1>1. held[p] \in Seq(Pages) /\ Len(held[p]) \in Nat \ {0}
  <2>1. PICK v \in Vma : Len(held[p]) = v.len
    BY DEF HeldArrays
  <2> QED BY <2>1, VmaNumbers DEF Types
<1> DEFINE g == held[p][1]
<1>2. g \in Pages /\ 1 \in DOMAIN held[p] /\ 1 \in 1 .. MaxLen
  BY <1>1, MemdevAssumption DEF MemdevAssumption
<1>3. <<p, 1>> \in HeldSlots(g) /\ <<r, 1>> \in ListedSlots(g)
  BY <1>2 DEF HeldSlots, ListedSlots
<1> HIDE DEF g
<1>4. Cardinality(HeldSlots(g)) # 0 /\ Cardinality(ListedSlots(g)) # 0
  BY <1>3, CountedFinite, FS_EmptySet
<1>5. /\ Cardinality(HeldSlots(g)) \in Nat /\ Cardinality(ListedSlots(g)) \in Nat
      /\ Cardinality(HeldSlots(g)) + Cardinality(ListedSlots(g)) <= 1
  BY <1>2, CountedFinite DEF PagesAccounted, DriverRefs
<1> QED BY <1>4, <1>5

\* Listing a region hands the driver's reference on each slot over to the list.
LEMMA ListAccount ==
  ASSUME Types, HeldShape, HeldArrays, PagesAccounted, NEW p \in Procs, ListRegion(p)
  PROVE  PagesAccounted'
<1>1. PICK v \in pending[p] : regions' = regions \cup
         {[mm |-> p, user_va |-> v.lo, file |-> v.file, pages |-> held[p]]}
  BY DEF ListRegion
<1>2. /\ pc[p] = "region" /\ held' = [held EXCEPT ![p] = << >>]
      /\ UNCHANGED <<pt, ref>>
  BY DEF ListRegion
<1> DEFINE r == [mm |-> p, user_va |-> v.lo, file |-> v.file, pages |-> held[p]]
<1>3. r.pages = held[p] /\ regions' = regions \cup {r}
  BY <1>1
<1> HIDE DEF r
<1>4. r \notin regions
  BY <1>2, <1>3, NewRegion
<1> SUFFICES ASSUME NEW g \in Pages
             PROVE  /\ ref'[g] = Cardinality(Entries(g)') + DriverRefs(g)'
                    /\ DriverRefs(g)' <= 1
  BY DEF PagesAccounted
<1>5. ref[g] = Cardinality(Entries(g)) + DriverRefs(g) /\ DriverRefs(g) <= 1
  BY DEF PagesAccounted
<1>6. /\ Cardinality(Entries(g)) \in Nat /\ Cardinality(HeldSlots(g)) \in Nat
      /\ Cardinality(ListedSlots(g)) \in Nat /\ IsFiniteSet(ListedSlots(g))
  BY CountedFinite
<1> DEFINE I == ArraySlots(held[p], g)
<1>7. IsFiniteSet(I) /\ Cardinality(I) \in Nat
  BY ArraySlotsFinite DEF Types
<1>8. Cardinality(HeldSlots(g)') = Cardinality(HeldSlots(g)) - Cardinality(I)
  BY <1>2, HeldDropped
<1>9. I \subseteq 1 .. MaxLen
  BY HeldRow DEF HeldSlots
<1>10. ListedSlots(g)' = ListedSlots(g) \cup ({r} \X I)
  <2>1. ASSUME NEW s PROVE s \in ListedSlots(g)' <=> s \in ListedSlots(g) \cup ({r} \X I)
    <3>1. \A i : i \in I <=> i \in DOMAIN held[p] /\ held[p][i] = g
      BY DEF ArraySlots
    <3> HIDE DEF I
    <3> QED BY <1>3, <1>9, <3>1 DEF ListedSlots
  <2> QED BY <2>1
<1> HIDE DEF I
<1>11. ListedSlots(g) \cap ({r} \X I) = {}
  BY <1>4 DEF ListedSlots
<1>12. Cardinality(ListedSlots(g)') = Cardinality(ListedSlots(g)) + Cardinality(I)
  <2>1. Cardinality(ListedSlots(g) \cup ({r} \X I)) =
          Cardinality(ListedSlots(g)) + Cardinality(I)
    BY <1>6, <1>7, <1>11, AddRow
  <2> QED BY <1>10, <2>1
<1>13. Entries(g)' = Entries(g)
  BY <1>2 DEF Entries
<1>14. /\ DriverRefs(g) = Cardinality(HeldSlots(g)) + Cardinality(ListedSlots(g))
       /\ DriverRefs(g)' = Cardinality(HeldSlots(g)') + Cardinality(ListedSlots(g)')
  BY DEF DriverRefs
<1>15. Cardinality(Entries(g)') = Cardinality(Entries(g)) /\ ref'[g] = ref[g]
  BY <1>2, <1>13
<1> QED BY <1>5, <1>6, <1>7, <1>8, <1>12, <1>14, <1>15

\* Pages that come into the page table of p, at addresses that mapped none, are counted
\* once for each address.
LEMMA EntriesAdded ==
  ASSUME Types, NEW p \in Procs, NEW as \in SUBSET Addrs,
         \A a \in as : pt[p][a] \notin Pages,
         \A a \in Addrs \ as : pt'[p][a] = pt[p][a],
         \A q \in Procs \ {p} : pt'[q] = pt[q],
         NEW g \in Pages
  PROVE  Cardinality(Entries(g)') =
           Cardinality(Entries(g)) + Cardinality({a \in as : pt'[p][a] = g})
<1> DEFINE D == {a \in as : pt'[p][a] = g}
<1>1. IsFiniteSet(D)
  <2>1. D \in SUBSET Addrs
    OBVIOUS
  <2> QED BY <2>1, FS_Subset, MemdevAssumption DEF MemdevAssumption
<1>2. IsFiniteSet(Entries(g))
  BY CountedFinite
<1>3. Entries(g) \cap ({p} \X D) = {}
  <2>1. \A a \in D : pt[p][a] # g
    OBVIOUS
  <2> HIDE DEF D
  <2> QED BY <2>1 DEF Entries
<1>4. ASSUME NEW q \in Procs, NEW a \in Addrs
      PROVE  pt'[q][a] = g <=> pt[q][a] = g \/ <<q, a>> \in {p} \X D
  <2>1. CASE q = p
    <3>1. CASE a \in as BY <2>1, <3>1
    <3>2. CASE a \notin as BY <2>1, <3>2
    <3> QED BY <3>1, <3>2
  <2>2. CASE q # p BY <2>2
  <2> QED BY <2>1, <2>2
<1>5. {p} \X D \subseteq Procs \X Addrs
  OBVIOUS
<1> HIDE DEF D
<1>6. Entries(g)' = Entries(g) \cup ({p} \X D)
  BY <1>4, <1>5 DEF Entries
<1>7. Cardinality(Entries(g) \cup ({p} \X D)) = Cardinality(Entries(g)) + Cardinality(D)
  BY <1>1, <1>2, <1>3, AddRow
<1> QED BY <1>6, <1>7 DEF D

\* A step that adds count to the references and to the entries, and changes nothing that
\* the driver holds.
LEMMA AddAccount ==
  ASSUME Types, PagesAccounted, NEW count \in [Pages -> Nat], ref' = GetPages(count),
         UNCHANGED <<held, regions>>,
         \A g \in Pages : Cardinality(Entries(g)') = Cardinality(Entries(g)) + count[g]
  PROVE  PagesAccounted'
<1> SUFFICES ASSUME NEW g \in Pages
             PROVE  /\ ref'[g] = Cardinality(Entries(g)') + DriverRefs(g)'
                    /\ DriverRefs(g)' <= 1
  BY DEF PagesAccounted
<1>1. ref[g] = Cardinality(Entries(g)) + DriverRefs(g) /\ DriverRefs(g) <= 1
  BY DEF PagesAccounted
<1>2. DriverRefs(g)' = DriverRefs(g)
  BY DEF DriverRefs, HeldSlots, ListedSlots
<1>3. /\ Cardinality(Entries(g)) \in Nat /\ Cardinality(HeldSlots(g)) \in Nat
      /\ Cardinality(ListedSlots(g)) \in Nat
  BY CountedFinite
<1>4. DriverRefs(g) \in Nat
  BY <1>3 DEF DriverRefs
<1>5. ref'[g] = ref[g] + count[g] /\ count[g] \in Nat
  BY DEF GetPages
<1>6. Cardinality(Entries(g)') = Cardinality(Entries(g)) + count[g]
  OBVIOUS
<1> QED BY <1>1, <1>2, <1>3, <1>4, <1>5, <1>6

\* insert_pages takes a reference for each entry, as many as there are slots.
LEMMA MapAccount ==
  ASSUME Types, AddressSpaces, HeldArrays, PagesAccounted, NEW p \in Procs,
         map_pages_to_vma(p)
  PROVE  PagesAccounted'
<1>1. PICK v \in pending[p] : \E n \in 0 .. v.len :
        /\ pt' = [pt EXCEPT ![p] = [a \in Addrs |-> IF a \in v.lo .. (v.lo + n - 1)
                                                   THEN held[p][a - v.lo + 1] ELSE @[a]]]
        /\ ref' = GetPages(InArray(SubSeq(held[p], 1, n)))
  BY DEF map_pages_to_vma
<1>2. PICK n \in 0 .. v.len :
        /\ pt' = [pt EXCEPT ![p] = [a \in Addrs |-> IF a \in v.lo .. (v.lo + n - 1)
                                                   THEN held[p][a - v.lo + 1] ELSE @[a]]]
        /\ ref' = GetPages(InArray(SubSeq(held[p], 1, n)))
  BY <1>1
<1>3. pc[p] = "map" /\ UNCHANGED <<held, regions>>
  BY DEF map_pages_to_vma
<1>4. /\ v \in Vma /\ v.lo \in Nat /\ v.len \in Nat \ {0}
      /\ n \in Nat /\ n <= v.len
      /\ held[p] \in Seq(Pages) /\ Len(held[p]) = v.len
  <2>1. v \in Vma
    BY DEF Types
  <2>2. Len(held[p]) = v.len
    BY <1>3 DEF HeldArrays
  <2> QED BY <2>1, <2>2, SpanFacts DEF Types
<1> DEFINE array == SubSeq(held[p], 1, n)
           done  == v.lo .. (v.lo + n - 1)
<1>5. array \in Seq(Pages) /\ DOMAIN array = 1 .. n /\ \A i \in 1 .. n : array[i] = held[p][i]
  BY <1>4
<1>6. done \in SUBSET Addrs /\ \A a \in done : pt[p][a] \notin Pages
  <2>1. Span(v) \subseteq Addrs /\ Mapped(p) = Covered(p) /\ Covered(p) \cap Span(v) = {}
    <3>1. SpansInSpace(p) /\ Populated(p) /\ VmasDisjoint(p)
      BY DEF AddressSpaces, AddressSpace
    <3> QED BY <1>3, <3>1 DEF SpansInSpace, Populated, VmasDisjoint, OwnVmas, Covered
  <2>2. done \subseteq Span(v)
    BY <1>4 DEF Span
  <2> HIDE DEF done
  <2> QED BY <2>1, <2>2, MemdevAssumption DEF Mapped, MemdevAssumption
<1>7. /\ \A a \in done : pt'[p][a] = held[p][a - v.lo + 1]
      /\ \A a \in Addrs \ done : pt'[p][a] = pt[p][a]
      /\ \A q \in Procs \ {p} : pt'[q] = pt[q]
  BY <1>2, <1>6 DEF Types
<1>8. ASSUME NEW g \in Pages
      PROVE  Cardinality(Entries(g)') = Cardinality(Entries(g)) + InArray(array)[g]
  <2> DEFINE D == {a \in done : pt'[p][a] = g}
             I == ArraySlots(array, g)
             f == [i \in I |-> v.lo + i - 1]
  <2>1. Cardinality(Entries(g)') = Cardinality(Entries(g)) + Cardinality(D)
    <3> HIDE DEF done
    <3> QED BY <1>6, <1>7, EntriesAdded
  <2>2. I = {i \in 1 .. n : held[p][i] = g}
    BY <1>5 DEF ArraySlots
  <2>3. D = {a \in done : held[p][a - v.lo + 1] = g}
    BY <1>7
  <2>4. f \in Bijection(I, D)
    <3>1. \A i \in I : f[i] \in D
      <4> SUFFICES ASSUME NEW i \in I PROVE v.lo + i - 1 \in D
        OBVIOUS
      <4>1. i \in 1 .. n /\ held[p][i] = g
        BY <2>2
      <4>2. v.lo + i - 1 \in done /\ (v.lo + i - 1) - v.lo + 1 = i
        BY <1>4, <4>1
      <4> HIDE DEF done, D, I
      <4> QED BY <2>3, <4>1, <4>2
    <3>2. \A i, j \in I : f[i] = f[j] => i = j
      BY <1>4, <2>2
    <3>3. \A a \in D : \E i \in I : f[i] = a
      <4> SUFFICES ASSUME NEW a \in D PROVE \E i \in I : f[i] = a
        OBVIOUS
      <4>1. a - v.lo + 1 \in I /\ f[a - v.lo + 1] = a
        BY <1>4, <2>2, <2>3
      <4> QED BY <4>1
    <3>4. f \in [I -> D]
      BY <3>1
    <3> HIDE DEF f, D, I
    <3> QED BY <3>2, <3>3, <3>4 DEF Bijection, Injection, Surjection, IsInjective
  <2>5. IsFiniteSet(I)
    BY <1>5, ArraySlotsFinite
  <2>6. Cardinality(D) = Cardinality(I)
    <3>1. ExistsBijection(I, D)
      BY <2>4 DEF ExistsBijection
    <3> HIDE DEF D, I
    <3> QED BY <2>5, <3>1, FS_Bijection
  <2>7. InArray(array)[g] = Cardinality(I)
    BY DEF InArray, ArraySlots
  <2> QED BY <2>1, <2>6, <2>7
<1>9. InArray(array) \in [Pages -> Nat]
  BY <1>5, SlotsFinite, ArrayCounts
<1> HIDE DEF array
<1>10. ref' = GetPages(InArray(array))
  BY <1>2 DEF array
<1> QED BY <1>3, <1>8, <1>9, <1>10, AddAccount

\* fork gives every page that the parent maps one entry and one reference more.
LEMMA ForkAccount ==
  ASSUME Types, AddressSpaces, PagesAccounted, NEW p \in Procs, NEW c \in Procs, Fork(p, c)
  PROVE  PagesAccounted'
<1>1. /\ life[c] = "unborn" /\ pt'[c] = pt[p]
      /\ \A q \in Procs \ {c} : pt'[q] = pt[q]
      /\ ref' = GetPages(InTable(p, Addrs))
      /\ UNCHANGED <<held, regions>>
  BY DEF Fork, Types
<1>2. \A a \in Addrs : pt[c][a] \notin Pages
  <2>1. Mapped(c) = {}
    BY <1>1 DEF AddressSpaces, AddressSpace, UnbornEmpty
  <2> QED BY <2>1, MemdevAssumption DEF Mapped, MemdevAssumption
<1>3. ASSUME NEW g \in Pages
      PROVE  Cardinality(Entries(g)') = Cardinality(Entries(g)) + InTable(p, Addrs)[g]
  <2>1. Cardinality(Entries(g)') =
          Cardinality(Entries(g)) + Cardinality({a \in Addrs : pt'[c][a] = g})
    BY <1>1, <1>2, EntriesAdded
  <2>2. {a \in Addrs : pt'[c][a] = g} = {a \in Addrs \cap Addrs : pt[p][a] = g}
    BY <1>1
  <2> QED BY <2>1, <2>2 DEF InTable
<1>4. InTable(p, Addrs) \in [Pages -> Nat]
  BY TableCounts
<1> QED BY <1>1, <1>3, <1>4, AddAccount

\* Every step keeps what mmap holds in the shape it has.
LEMMA HeldShapePreserved ==
  ASSUME Types, Types', AddressSpaces, HeldShape, [Next]_vars
  PROVE  HeldShape'
<1> SUFFICES ASSUME NEW q \in Procs, held'[q] # << >>
             PROVE  pc'[q] \in {"map", "region", "err"} /\ Len(held'[q]) <= MaxLen
  BY DEF HeldShape
<1>0. held[q] # << >> => pc[q] \in {"map", "region", "err"} /\ Len(held[q]) <= MaxLen
  BY DEF HeldShape
<1> DEFINE Kept == held'[q] = held[q] /\ (pc'[q] = pc[q] \/ pc[q] \notin {"map", "region", "err"})
<1>1. ASSUME Kept PROVE pc'[q] \in {"map", "region", "err"} /\ Len(held'[q]) <= MaxLen
  BY <1>0, <1>1
<1>2. CASE ModuleStep
  <2>1. UNCHANGED <<held, pc>>
    BY <1>2 DEF ModuleStep, Insmod, memdev_init, InitFails, Unregister, Rmmod, ExitCheck,
                ExitFree, memdevUnchanged, mmVars
  <2> QED BY <1>1, <2>1
<1>3. ASSUME NEW f \in Files, FileStep(f) PROVE Kept
  BY <1>3 DEF FileStep, memdev_open_get, memdev_open_link, OpenFailed, ExitFiles, CloseFd,
              memdev_release, memdev_release_put, Fput, fsUnchanged, mmVars
<1>4. ASSUME NEW p \in Procs, AllocPages(p)
      PROVE  Kept \/ (pc'[q] \in {"map", "err"} /\ Len(held'[q]) <= MaxLen)
  <2>1. PICK v \in pending[p], array \in Seq(Pages), count \in [Pages -> Nat] :
          /\ Len(array) <= v.len
          /\ held' = [held EXCEPT ![p] = array]
          /\ ref' = GetPages(count)
          /\ pc' = [pc EXCEPT ![p] = IF Len(array) = v.len THEN "map" ELSE "err"]
          /\ InitOnAlloc => /\ count = InArray(array)
                            /\ \A i \in DOMAIN array : array[i] \in FreePages
                            /\ \A i, j \in DOMAIN array : array[i] = array[j] => i = j
    BY <1>4, AllocArray
  <2>2. v.len \in 1 .. MaxLen
    BY DEF Types, Vma
  <2>3. CASE q = p
    <3>1. held'[q] = array /\ pc'[q] \in {"map", "err"}
      BY <2>1, <2>3 DEF Types
    <3>2. Len(array) <= MaxLen
      BY <2>1, <2>2, MemdevAssumption DEF MemdevAssumption
    <3> QED BY <3>1, <3>2
  <2>4. CASE q # p
    BY <2>1, <2>4 DEF Types
  <2> QED BY <2>3, <2>4
<1>5. ASSUME NEW p \in Procs, map_pages_to_vma(p) \/ RegionFails(p)
      PROVE  held'[q] = held[q] /\ (pc'[q] = pc[q] \/ pc'[q] \in {"map", "region", "err"})
  BY <1>5 DEF map_pages_to_vma, AfterMap, RegionFails, Types
<1>6. ASSUME NEW p \in Procs, ListRegion(p) \/ err_free_pages(p) PROVE Kept \/ held'[q] = << >>
  BY <1>6 DEF ListRegion, err_free_pages, Types
<1>7. ASSUME NEW p \in Procs,
             CountRegion(p) \/ MmapUndo(p) \/ ZapRange(p) \/ memdev_vma_close(p)
      PROVE  Kept
  <2>1. held' = held /\ pc[p] \in {"count", "undo", "zap", "close"}
    BY <1>7 DEF CountRegion, MmapUndo, ZapRange, memdev_vma_close
  <2>2. q # p => pc'[q] = pc[q]
    BY <1>7 DEF CountRegion, MmapUndo, ZapRange, memdev_vma_close, Types
  <2> QED BY <2>1, <2>2
<1>8. ASSUME NEW p \in Procs, HandlerStep(p)
      PROVE  pc'[q] \in {"map", "region", "err"} /\ Len(held'[q]) <= MaxLen
  <2> HIDE DEF Kept
  <2>1. CASE AllocPages(p)
    BY <1>1, <1>4, <2>1
  <2>2. CASE map_pages_to_vma(p) \/ RegionFails(p)
    BY <1>0, <1>5, <2>2
  <2>3. CASE ListRegion(p) \/ err_free_pages(p)
    BY <1>1, <1>6, <2>3
  <2>4. CASE CountRegion(p) \/ MmapUndo(p) \/ ZapRange(p) \/ memdev_vma_close(p)
    BY <1>1, <1>7, <2>4
  <2> QED BY <1>8, <2>1, <2>2, <2>3, <2>4 DEF HandlerStep
<1>9. ASSUME NEW p \in Procs, UserStep(p) PROVE Kept
  <2>1. ASSUME NEW f \in Files, NEW lo \in Addrs, NEW len \in 1 .. MaxLen,
               MmapStart(p, f, lo, len)
        PROVE  Kept
    BY <2>1 DEF MmapStart, Types
  <2>2. ASSUME NEW lo \in Addrs, NEW hi \in Addrs, Munmap(p, lo, hi) PROVE Kept
    BY <2>2 DEF Munmap, Types
  <2>3. ASSUME NEW m \in Procs, NEW c \in Procs, TearDown(m, c), held' = held,
               pc[m] \notin {"map", "region", "err"}
        PROVE  Kept
    BY <2>3 DEF TearDown, CloseVmas, Types
  <2>4. CASE Exit(p)
    BY <2>3, <2>4 DEF Exit, Settled, endUnchanged
  <2>5. ASSUME NEW c \in Procs, Exec(p, c) PROVE Kept
    <3>1. held' = held /\ pc[p] = "idle" /\ (TearDown(p, c) \/ pc' = pc)
      BY <2>5 DEF Exec, Settled, endUnchanged
    <3> QED BY <2>3, <3>1
  <2>6. ASSUME NEW c \in Procs, LastMmput(p, c) PROVE Kept
    <3>1. life[p] = "left" /\ TearDown(p, c) /\ held' = held
      BY <2>6 DEF LastMmput, endUnchanged
    <3>2. pc[p] = "idle"
      BY <3>1 DEF AddressSpaces, AddressSpace, HandlerLife
    <3> QED BY <2>3, <3>1, <3>2
  <2>7. ASSUME \/ \E f \in Files : ChrdevOpen(p, f) \/ Close(p, f)
               \/ \E a \in Addrs : WriteFault(p, a)
               \/ Leave(p) \/ \E c \in Procs : Fork(p, c)
        PROVE  UNCHANGED <<pc, held>>
    BY <2>7 DEF ChrdevOpen, Close, CloseFd, WriteFault, Leave, Fork, fsUnchanged, mmVars,
                endUnchanged
  <2> QED BY <1>9, <2>1, <2>2, <2>4, <2>5, <2>6, <2>7 DEF UserStep
<1>10. CASE UNCHANGED vars
  BY <1>1, <1>10 DEF vars
<1> HIDE DEF Kept
<1> QED BY <1>1, <1>2, <1>3, <1>8, <1>9, <1>10 DEF Next

\* Every step keeps every reference accounted for, if the array comes cleared.
LEMMA PagesPreserved ==
  ASSUME InitOnAlloc, Types, Types', AddressSpaces, HeldShape, HeldShape', HeldArrays,
         PagesAccounted, [Next]_vars
  PROVE  PagesAccounted'
<1>1. CASE ModuleStep
  <2>1. CASE ExitFree
    <3>1. UNCHANGED <<pt, held>> /\ free_mapped_region(RegionsOf(file_list))
      BY <2>1 DEF ExitFree, mmVars
    <3>2. RegionsOf(file_list) \in SUBSET regions
      BY DEF RegionsOf
    <3> QED BY <3>1, <3>2, FreeAccount
  <2>2. CASE ~ExitFree
    <3>1. UNCHANGED <<pt, held, ref, regions>>
      BY <1>1, <2>2 DEF ModuleStep, Insmod, memdev_init, InitFails, Unregister, Rmmod,
                        ExitCheck, memdevUnchanged, mmVars
    <3> QED BY <3>1, AccountFrame
  <2> QED BY <2>1, <2>2
<1>2. ASSUME NEW f \in Files, FileStep(f) PROVE PagesAccounted'
  <2>1. CASE memdev_release(f)
    <3>1. UNCHANGED <<pt, held>> /\ free_mapped_region(Leftovers(f))
      BY <2>1 DEF memdev_release, mmVars
    <3>2. Leftovers(f) \in SUBSET regions
      BY DEF Leftovers, RegionsOf
    <3> QED BY <3>1, <3>2, FreeAccount
  <2>2. CASE ~memdev_release(f)
    <3>1. UNCHANGED <<pt, held, ref, regions>>
      BY <1>2, <2>2 DEF FileStep, memdev_open_get, memdev_open_link, OpenFailed,
                        memdev_release_put, Fput, ExitFiles, CloseFd, fsUnchanged, mmVars
    <3> QED BY <3>1, AccountFrame
  <2> QED BY <2>1, <2>2
<1>3. ASSUME NEW p \in Procs, HandlerStep(p) PROVE PagesAccounted'
  <2>1. CASE AllocPages(p) BY <2>1, AllocAccount
  <2>2. CASE map_pages_to_vma(p) BY <2>2, MapAccount
  <2>3. CASE RegionFails(p) BY <2>3, AccountFrame DEF RegionFails
  <2>4. CASE ListRegion(p) BY <2>4, ListAccount
  <2>5. CASE CountRegion(p) BY <2>5, AccountFrame DEF CountRegion
  <2>6. CASE err_free_pages(p) BY <2>6, ErrAccount
  <2>7. CASE MmapUndo(p) BY <2>7, ZapAccount DEF MmapUndo
  <2>8. CASE ZapRange(p) BY <2>8, ZapAccount DEF ZapRange
  <2>9. CASE memdev_vma_close(p)
    <3>1. UNCHANGED <<pt, held>>
      BY <2>9 DEF memdev_vma_close
    <3>2. \/ UNCHANGED <<regions, ref>>
          \/ \E r \in regions : free_mapped_region({r})
      BY <2>9 DEF memdev_vma_close, Matches, RegionsOf
    <3>3. ASSUME NEW r \in regions, free_mapped_region({r}) PROVE PagesAccounted'
      <4>1. {r} \in SUBSET regions
        OBVIOUS
      <4> QED BY <3>1, <3>3, <4>1, FreeAccount
    <3> QED BY <3>1, <3>2, <3>3, AccountFrame
  <2> QED BY <1>3, <2>1, <2>2, <2>3, <2>4, <2>5, <2>6, <2>7, <2>8, <2>9 DEF HandlerStep
<1>4. ASSUME NEW p \in Procs, UserStep(p) PROVE PagesAccounted'
  <2>1. ASSUME NEW f \in Files, ChrdevOpen(p, f) \/ Close(p, f) PROVE PagesAccounted'
    BY <2>1, AccountFrame DEF ChrdevOpen, Close, CloseFd, fsUnchanged, mmVars
  <2>2. ASSUME NEW f \in Files, NEW lo \in Addrs, NEW len \in 1 .. MaxLen,
               MmapStart(p, f, lo, len)
        PROVE  PagesAccounted'
    BY <2>2, AccountFrame DEF MmapStart
  <2>3. ASSUME NEW lo \in Addrs, NEW hi \in Addrs, Munmap(p, lo, hi) PROVE PagesAccounted'
    BY <2>3, AccountFrame DEF Munmap
  <2>4. ASSUME NEW a \in Addrs, WriteFault(p, a) PROVE PagesAccounted'
    BY <2>4, FaultAccount
  <2>5. ASSUME NEW c \in Procs, TearDown(p, c), endUnchanged PROVE PagesAccounted'
    BY <2>5, ZapAccount DEF TearDown, endUnchanged
  <2>6. CASE Exit(p) BY <2>5, <2>6 DEF Exit
  <2>7. CASE Leave(p) BY <2>7, AccountFrame DEF Leave, endUnchanged
  <2>8. ASSUME NEW c \in Procs, Exec(p, c) PROVE PagesAccounted'
    <3>1. endUnchanged /\ (TearDown(p, c) \/ UNCHANGED <<pt, ref>>)
      BY <2>8 DEF Exec
    <3> QED BY <2>5, <3>1, AccountFrame DEF endUnchanged
  <2>9. ASSUME NEW c \in Procs, LastMmput(p, c) PROVE PagesAccounted'
    BY <2>5, <2>9 DEF LastMmput
  <2>10. ASSUME NEW c \in Procs, Fork(p, c) PROVE PagesAccounted'
    BY <2>10, ForkAccount
  <2> QED BY <1>4, <2>1, <2>2, <2>3, <2>4, <2>6, <2>7, <2>8, <2>9, <2>10 DEF UserStep
<1>5. CASE UNCHANGED vars
  BY <1>5, AccountFrame DEF vars
<1> QED BY <1>1, <1>2, <1>3, <1>4, <1>5 DEF Next

-------------------------------------------------------------------------------
(* The lists of regions.                                                   *)

\* The list of files holds the open ones, and only they have regions.
LEMMA ListsPreserved ==
  ASSUME IInv, ListsOpenFiles, [Next]_vars
  PROVE  ListsOpenFiles'
<1>0. Types /\ FilesNeedModule /\ ReferencedAreOpen
  BY DEF IInv
<1>1. ASSUME UNCHANGED <<file_list, fstate>>, regions' \subseteq regions
      PROVE  ListsOpenFiles'
  BY <1>1 DEF ListsOpenFiles
<1>2. ASSUME UNCHANGED file_list, regions' \subseteq regions, NEW f \in Files,
             \A g \in Files \ {f} : fstate'[g] = fstate[g],
             fstate[f] # "open", fstate'[f] # "open"
      PROVE  ListsOpenFiles'
  BY <1>2 DEF ListsOpenFiles
<1>3. CASE ModuleStep
  <2>1. CASE ExitFree
    <3>1. mod = "exit_free" /\ fstate' = fstate /\ file_list' = {}
          /\ regions' = regions \ RegionsOf(file_list)
      BY <2>1 DEF ExitFree, free_mapped_region
    <3>2. file_list = {}
      BY <1>0, <3>1 DEF FilesNeedModule, ListsOpenFiles
    <3> QED BY <1>1, <3>1, <3>2
  <2>2. CASE ~ExitFree
    <3>1. UNCHANGED <<file_list, fstate, regions>>
      BY <1>3, <2>2 DEF ModuleStep, Insmod, memdev_init, InitFails, Unregister, Rmmod,
                        ExitCheck, memdevUnchanged, fileVars
    <3> QED BY <1>1, <3>1
  <2> QED BY <2>1, <2>2
<1>4. ASSUME NEW f \in Files, FileStep(f) PROVE ListsOpenFiles'
  <2>1. CASE memdev_open_get(f)
    <3>1. /\ UNCHANGED <<file_list, regions>>
          /\ \A g \in Files \ {f} : fstate'[g] = fstate[g]
          /\ fstate[f] # "open" /\ fstate'[f] # "open"
      BY <1>0, <2>1 DEF memdev_open_get, fsUnchanged, Types
    <3> QED BY <1>2, <3>1
  <2>2. ASSUME NEW p \in Procs, memdev_open_link(p, f) PROVE ListsOpenFiles'
    <3>1. /\ file_list' = file_list \cup {f} /\ regions' = regions
          /\ \A g \in Files \ {f} : fstate'[g] = fstate[g]
          /\ fstate'[f] = "open"
      BY <1>0, <2>2 DEF memdev_open_link, fsUnchanged, Types
    <3> QED BY <3>1 DEF ListsOpenFiles
  <2>3. ASSUME NEW p \in Procs, OpenFailed(p, f) PROVE ListsOpenFiles'
    <3>1. /\ UNCHANGED <<file_list, regions>>
          /\ \A g \in Files \ {f} : fstate'[g] = fstate[g]
          /\ fstate[f] # "open" /\ fstate'[f] # "open"
      BY <1>0, <2>3 DEF OpenFailed, fsUnchanged, Types
    <3> QED BY <1>2, <3>1
  <2>4. CASE memdev_release(f)
    <3>1. /\ file_list' = file_list \ {f} /\ regions' = regions \ RegionsOf({f})
          /\ \A g \in Files \ {f} : fstate'[g] = fstate[g]
          /\ fstate'[f] = "release_put"
      BY <1>0, <2>4 DEF memdev_release, free_mapped_region, Leftovers, Types
    <3>2. \A r \in regions' : r \in regions /\ r.file # f
      BY <3>1 DEF RegionsOf
    <3> QED BY <3>1, <3>2 DEF ListsOpenFiles
  <2>5. CASE memdev_release_put(f)
    <3>1. /\ UNCHANGED <<file_list, regions>>
          /\ \A g \in Files \ {f} : fstate'[g] = fstate[g]
          /\ fstate[f] # "open" /\ fstate'[f] # "open"
      BY <1>0, <2>5 DEF memdev_release_put, fsUnchanged, Types
    <3> QED BY <1>2, <3>1
  <2>6. CASE Fput(f)
    <3>1. /\ UNCHANGED <<file_list, regions>>
          /\ \A g \in Files \ {f} : fstate'[g] = fstate[g]
          /\ fstate[f] # "open" /\ fstate'[f] # "open"
      BY <1>0, <2>6 DEF Fput, fsUnchanged, Types
    <3> QED BY <1>2, <3>1
  <2>7. ASSUME NEW p \in Procs, ExitFiles(p, f) PROVE ListsOpenFiles'
    <3>1. UNCHANGED <<file_list, fstate, regions>>
      BY <2>7 DEF ExitFiles, CloseFd, fsUnchanged
    <3> QED BY <1>1, <3>1
  <2> QED BY <1>4, <2>1, <2>2, <2>3, <2>4, <2>5, <2>6, <2>7 DEF FileStep
<1>5. ASSUME NEW p \in Procs, HandlerStep(p) PROVE ListsOpenFiles'
  <2>1. UNCHANGED <<file_list, fstate>>
    BY <1>5 DEF HandlerStep, AllocPages, map_pages_to_vma, RegionFails, ListRegion,
                CountRegion, err_free_pages, MmapUndo, ZapRange, memdev_vma_close, mmUnchanged, fileVars
  <2>2. CASE ListRegion(p)
    <3>1. PICK v \in pending[p] : regions' = regions \cup
            {[mm |-> p, user_va |-> v.lo, file |-> v.file, pages |-> held[p]]}
      BY <2>2 DEF ListRegion
    <3>2. v.file \in file_list
      BY <1>0 DEF ReferencedAreOpen, ListsOpenFiles, Types, Vma
    <3> QED BY <2>1, <3>1, <3>2 DEF ListsOpenFiles
  <2>3. CASE ~ListRegion(p)
    <3>1. regions' \subseteq regions
      BY <1>5, <2>3 DEF HandlerStep, AllocPages, map_pages_to_vma, RegionFails, CountRegion,
                        err_free_pages, MmapUndo, ZapRange, memdev_vma_close, free_mapped_region
    <3> QED BY <1>1, <2>1, <3>1
  <2> QED BY <2>2, <2>3
<1>6. ASSUME NEW p \in Procs, NEW f \in Files, ChrdevOpen(p, f) PROVE ListsOpenFiles'
  <2>1. /\ UNCHANGED <<file_list, regions>>
        /\ \A g \in Files \ {f} : fstate'[g] = fstate[g]
        /\ fstate[f] # "open" /\ fstate'[f] # "open"
    BY <1>0, <1>6 DEF ChrdevOpen, fsUnchanged, Types
  <2> QED BY <1>2, <2>1
<1>7. ASSUME NEW p \in Procs, UserStep(p), \A f \in Files : ~ChrdevOpen(p, f)
      PROVE  ListsOpenFiles'
  <2>1. UNCHANGED <<file_list, fstate, regions>>
    BY <1>7 DEF UserStep, Close, CloseFd, MmapStart, Munmap, WriteFault, Fork, Exit,
              Leave, Exec, LastMmput, endUnchanged, fsUnchanged, mmUnchanged,
                fileVars
  <2> QED BY <1>1, <2>1
<1>8. CASE UNCHANGED vars
  BY <1>1, <1>8 DEF vars
<1> QED BY <1>3, <1>4, <1>5, <1>6, <1>7, <1>8 DEF Next

\* Processes to be counted are finitely many.
LEMMA UncountedFinite == IsFiniteSet(Uncounted) /\ Cardinality(Uncounted) \in Nat
<1>1. Uncounted \subseteq Procs /\ IsFiniteSet(Procs)
  BY MemdevAssumption DEF Uncounted, MemdevAssumption
<1> QED BY <1>1, FS_Subset, FS_CardinalityType

\* free_mapped_region counts down by the number of regions that it takes off the lists.
LEMMA FreeCount ==
  ASSUME Types, CountMatchesRegions, NEW rs \in SUBSET regions, free_mapped_region(rs),
         Uncounted' = Uncounted
  PROVE  CountMatchesRegions'
<1>1. /\ IsFiniteSet(regions) /\ IsFiniteSet(rs) /\ regions \cap rs = rs
      /\ Cardinality(regions) \in Nat /\ Cardinality(rs) \in Nat
  BY FS_Subset, FS_CardinalityType DEF Types
<1>2. Cardinality(regions') = Cardinality(regions) - Cardinality(rs)
  <2>1. regions' = regions \ rs
    BY DEF free_mapped_region
  <2>2. Cardinality(regions \ rs) = Cardinality(regions) - Cardinality(regions \cap rs)
    BY <1>1, FS_Difference
  <2> QED BY <1>1, <2>1, <2>2
<1>3. mapped_count' = mapped_count - Cardinality(rs)
  BY DEF free_mapped_region, Decrements
<1>4. /\ mapped_count = Cardinality(regions) - Cardinality(Uncounted)
      /\ Cardinality(Uncounted) \in Nat
  BY UncountedFinite DEF CountMatchesRegions
<1>5. mapped_count' = Cardinality(regions') - Cardinality(Uncounted)
  BY <1>1, <1>2, <1>3, <1>4
<1> QED BY <1>5 DEF CountMatchesRegions

\* mapped_count follows the lists.
LEMMA CountPreserved ==
  ASSUME Types, AddressSpaces, HeldShape, HeldArrays, PagesAccounted, CountMatchesRegions,
         [Next]_vars
  PROVE  CountMatchesRegions'
<1>1. ASSUME UNCHANGED <<mapped_count, regions>>,
             \A q \in Procs : pc'[q] = "count" <=> pc[q] = "count"
      PROVE  CountMatchesRegions'
  <2>1. Uncounted' = Uncounted
    BY <1>1 DEF Uncounted
  <2> QED BY <1>1, <2>1 DEF CountMatchesRegions
<1>2. ASSUME NEW rs \in SUBSET regions, free_mapped_region(rs),
             \A q \in Procs : pc'[q] = "count" <=> pc[q] = "count"
      PROVE  CountMatchesRegions'
  <2>1. Uncounted' = Uncounted
    BY <1>2 DEF Uncounted
  <2> QED BY <1>2, <2>1, FreeCount
<1>3. CASE ModuleStep
  <2>1. CASE ExitFree
    <3>1. pc' = pc /\ free_mapped_region(RegionsOf(file_list))
      BY <2>1 DEF ExitFree, mmVars
    <3>2. RegionsOf(file_list) \in SUBSET regions
      BY DEF RegionsOf
    <3> QED BY <1>2, <3>1, <3>2
  <2>2. CASE ~ExitFree
    <3>1. UNCHANGED <<pc, mapped_count, regions>>
      BY <1>3, <2>2 DEF ModuleStep, Insmod, memdev_init, InitFails, Unregister, Rmmod,
                        ExitCheck, memdevUnchanged, mmVars
    <3> QED BY <1>1, <3>1
  <2> QED BY <2>1, <2>2
<1>4. ASSUME NEW f \in Files, FileStep(f) PROVE CountMatchesRegions'
  <2>1. CASE memdev_release(f)
    <3>1. pc' = pc /\ free_mapped_region(Leftovers(f))
      BY <2>1 DEF memdev_release, mmVars
    <3>2. Leftovers(f) \in SUBSET regions
      BY DEF Leftovers, RegionsOf
    <3> QED BY <1>2, <3>1, <3>2
  <2>2. CASE ~memdev_release(f)
    <3>1. UNCHANGED <<pc, mapped_count, regions>>
      BY <1>4, <2>2 DEF FileStep, memdev_open_get, memdev_open_link, OpenFailed,
                        memdev_release_put, Fput, ExitFiles, CloseFd, fsUnchanged, mmVars
    <3> QED BY <1>1, <3>1
  <2> QED BY <2>1, <2>2
<1>5. ASSUME NEW p \in Procs, HandlerStep(p) PROVE CountMatchesRegions'
  <2>1. CASE ListRegion(p)
    <3>1. /\ mapped_count' = mapped_count /\ pc[p] = "region" /\ pc'[p] = "count"
          /\ \A q \in Procs \ {p} : pc'[q] = pc[q]
      BY <2>1 DEF ListRegion, Types
    <3>2. Cardinality(regions') = Cardinality(regions) + 1
      <4>0. PICK v \in pending[p] : regions' = regions \cup
              {[mm |-> p, user_va |-> v.lo, file |-> v.file, pages |-> held[p]]}
        BY <2>1 DEF ListRegion
      <4> DEFINE r == [mm |-> p, user_va |-> v.lo, file |-> v.file, pages |-> held[p]]
      <4>1. regions' = regions \cup {r} /\ r.pages = held[p]
        BY <4>0
      <4> HIDE DEF r
      <4>2. r \notin regions
        BY <3>1, <4>1, NewRegion
      <4> QED BY <4>1, <4>2, FS_AddElement DEF Types
    <3>3. Uncounted' = Uncounted \cup {p} /\ p \notin Uncounted
      BY <3>1 DEF Uncounted
    <3>4. Cardinality(Uncounted') = Cardinality(Uncounted) + 1
      BY <3>3, UncountedFinite, FS_AddElement
    <3>5. Cardinality(regions) \in Nat
      BY FS_CardinalityType DEF Types
    <3> QED BY <3>1, <3>2, <3>4, <3>5, UncountedFinite DEF CountMatchesRegions
  <2>2. CASE CountRegion(p)
    <3>1. /\ mapped_count' = mapped_count + 1 /\ regions' = regions
          /\ pc[p] = "count" /\ pc'[p] = "idle" /\ \A q \in Procs \ {p} : pc'[q] = pc[q]
      BY <2>2 DEF CountRegion, Types
    <3>2. Uncounted' = Uncounted \ {p} /\ p \in Uncounted
      BY <3>1 DEF Uncounted
    <3>3. Cardinality(Uncounted') = Cardinality(Uncounted) - 1
      BY <3>2, UncountedFinite, FS_RemoveElement
    <3>4. Cardinality(regions) \in Nat
      BY FS_CardinalityType DEF Types
    <3> QED BY <3>1, <3>3, <3>4, UncountedFinite DEF CountMatchesRegions
  <2>3. CASE memdev_vma_close(p)
    <3>1. /\ pc[p] = "close" /\ pc'[p] \in {"idle", "close"}
          /\ \A q \in Procs \ {p} : pc'[q] = pc[q]
      BY <2>3 DEF memdev_vma_close, Types
    <3>2. \A q \in Procs : pc'[q] = "count" <=> pc[q] = "count"
      BY <3>1
    <3>3. PICK v \in pending[p] : \/ UNCHANGED <<regions, mapped_count>>
                                  \/ \E r \in Matches(Tgid[closer[p]], v.lo) : free_mapped_region({r})
      BY <2>3 DEF memdev_vma_close
    <3>4. ASSUME NEW r \in Matches(Tgid[closer[p]], v.lo), free_mapped_region({r})
          PROVE  CountMatchesRegions'
      <4>1. {r} \in SUBSET regions
        BY DEF Matches, RegionsOf
      <4> QED BY <1>2, <3>2, <3>4, <4>1
    <3> QED BY <1>1, <3>2, <3>3, <3>4
  <2>4. CASE AllocPages(p) \/ map_pages_to_vma(p) \/ RegionFails(p) \/ err_free_pages(p)
             \/ MmapUndo(p) \/ ZapRange(p)
    <3>1. UNCHANGED <<mapped_count, regions>>
      BY <2>4 DEF AllocPages, map_pages_to_vma, RegionFails, err_free_pages, MmapUndo, ZapRange
    <3>2. /\ pc[p] # "count"
          /\ \E s \in {"map", "err", "region", "undo", "idle", "close"} :
               pc' = [pc EXCEPT ![p] = s]
      <4>1. CASE AllocPages(p)
        BY <4>1 DEF AllocPages
      <4>2. CASE map_pages_to_vma(p)
        BY <4>2 DEF map_pages_to_vma, AfterMap
      <4>3. CASE RegionFails(p) \/ err_free_pages(p) \/ MmapUndo(p) \/ ZapRange(p)
        BY <4>3 DEF RegionFails, err_free_pages, MmapUndo, ZapRange
      <4> QED BY <2>4, <4>1, <4>2, <4>3
    <3>3. /\ pc'[p] # "count" /\ \A q \in Procs \ {p} : pc'[q] = pc[q]
      BY <3>2 DEF Types
    <3> QED BY <1>1, <3>1, <3>2, <3>3
  <2> QED BY <1>5, <2>1, <2>2, <2>3, <2>4 DEF HandlerStep
<1>6. ASSUME NEW p \in Procs, UserStep(p) PROVE CountMatchesRegions'
  <2>1. UNCHANGED <<mapped_count, regions>>
    BY <1>6 DEF UserStep, ChrdevOpen, Close, CloseFd, MmapStart, Munmap, WriteFault, Fork,
                Exit, Leave, Exec, LastMmput, endUnchanged, fsUnchanged, mmUnchanged
  <2>2. \/ pc' = pc
        \/ pc[p] = "idle" /\ \E s \in {"alloc", "zap", "idle", "close"} :
                                pc' = [pc EXCEPT ![p] = s]
    <3>1. ASSUME NEW c \in Procs, LastMmput(p, c)
          PROVE  pc[p] = "idle"
      BY <3>1 DEF LastMmput, AddressSpaces, AddressSpace, HandlerLife
    <3>2. ASSUME NEW c \in Procs, TearDown(p, c)
          PROVE  \E s \in {"idle", "close"} : pc' = [pc EXCEPT ![p] = s]
      BY <3>2 DEF TearDown, CloseVmas
    <3>3. CASE Exit(p) \/ Leave(p) \/ \E c \in Procs : Exec(p, c) \/ LastMmput(p, c)
      BY <3>1, <3>2, <3>3 DEF Exit, Leave, Exec, LastMmput, Settled
    <3>4. CASE ~(Exit(p) \/ Leave(p) \/ \E c \in Procs : Exec(p, c) \/ LastMmput(p, c))
      BY <1>6, <3>4 DEF UserStep, ChrdevOpen, Close, CloseFd, MmapStart, Munmap, WriteFault,
                        Fork, fsUnchanged, mmVars
    <3> QED BY <3>3, <3>4
  <2>3. \A q \in Procs : pc'[q] = "count" <=> pc[q] = "count"
    BY <2>2 DEF Types
  <2> QED BY <1>1, <2>1, <2>3
<1>7. CASE UNCHANGED vars
  BY <1>1, <1>7 DEF vars
<1> QED BY <1>3, <1>4, <1>5, <1>6, <1>7 DEF Next

-------------------------------------------------------------------------------
(* Who closes the mappings of a space, and who runs meanwhile.             *)

\* A process that runs is the only one of its pid, and no space of that pid is closing.
LEMMA RunsAlone ==
  ASSUME Tasks, NEW p \in Procs, Runs(p), NEW q \in Procs \ {p}, Tgid[q] = Tgid[p]
  PROVE  life[q] # "alive" /\ ~Closing(q)
<1>1. life[q] # "alive"
  BY DEF Tasks, Task, Runs
<1>2. ~Closing(q)
  BY DEF Tasks, Task, Runs, Execing, Closing
<1> QED BY <1>1, <1>2

\* A step that starts no process and no closes, and leaves alone a process whose old
\* space is still being closed, keeps the tasks in order.
LEMMA TasksFrame ==
  ASSUME Tasks, UNCHANGED <<life, closer>>,
         \A p \in Procs : pc'[p] = "close" => pc[p] = "close",
         \A p \in Procs : (life[p] = "alive" /\ pc[p] = "idle" /\ ~Runs(p)) => pc'[p] = "idle",
         \A p \in Procs : ~Runs(p) /\ pc[p] = "idle" => Linked(p)' \subseteq Linked(p),
         \A p \in Procs : life[p] = "dead" => Linked(p)' \subseteq Linked(p)
  PROVE  Tasks'
<1> SUFFICES ASSUME NEW p \in Procs PROVE Task(p)'
  BY DEF Tasks
<1>1. \A q \in Procs : Closing(q)' => Closing(q)
  BY DEF Closing
<1>2. ASSUME NEW q \in Procs \ {p}, Tgid[q] = Tgid[p], life[p] = "alive", Closing(q)
      PROVE  ~Runs(p) /\ pc[p] = "idle" /\ closer[q] = p /\ Linked(p) = {}
  <2>1. pc[p] = "idle" /\ closer[q] = p /\ Linked(p) = {}
    BY <1>2 DEF Tasks, Task
  <2>2. ~Runs(p)
    BY <1>2, <2>1 DEF Runs, Execing, Closing
  <2> QED BY <2>1, <2>2
<1>3. (life[p] = "dead" => Linked(p) = {}) /\ (Closing(p) /\ closer[p] # p => life[closer[p]] = "alive")
  BY DEF Tasks, Task
<1>4. ASSUME NEW q \in Procs \ {p}, Tgid[q] = Tgid[p]
      PROVE  ~(life[p] = "alive" /\ life[q] = "alive") /\ ~(Closing(p) /\ Closing(q))
  BY <1>4 DEF Tasks, Task
<1> QED BY <1>1, <1>2, <1>3, <1>4 DEF Task

\* A teardown ends the linked vmas, and its closes are those of c.
LEMMA TearDownTask ==
  ASSUME Types, NEW p \in Procs, NEW c \in Procs, TearDown(p, c)
  PROVE  /\ Linked(p)' = {} /\ closer'[p] = c
         /\ \A q \in Procs \ {p} : /\ Linked(q)' = Linked(q) /\ closer'[q] = closer[q]
                                   /\ pc'[q] = pc[q]
<1>1. closer'[p] = c /\ Linked(p)' = {}
  BY DEF TearDown, CloseVmas, Types, Linked
<1> QED BY <1>1, TearDownOthers

\* exit and execve.
LEMMA EndTasks ==
  ASSUME Types, AddressSpaces, Tasks, NEW p \in Procs, Exit(p) \/ Leave(p)
  PROVE  Tasks'
<1>1. Runs(p) /\ pc[p] = "idle" /\ life[p] = "alive"
  BY DEF Exit, Leave, Settled, Runs
<1>2. closer[p] = p
  BY <1>1 DEF AddressSpaces, AddressSpace, ClosedByOthers
<1>3. /\ \A q \in Procs \ {p} : /\ life'[q] = life[q] /\ Linked(q)' = Linked(q)
                                /\ closer'[q] = closer[q] /\ pc'[q] = pc[q]
      /\ closer'[p] = p /\ life'[p] # "alive"
      /\ life'[p] = "dead" => Linked(p)' = {}
  <2>1. CASE Exit(p)
    BY <2>1, TearDownTask DEF Exit, Types
  <2>2. CASE Leave(p)
    BY <1>2, <2>2 DEF Leave, Types, Linked
  <2> QED BY <2>1, <2>2
<1>4. \A q \in Procs \ {p} : Closing(q)' <=> Closing(q)
  BY <1>3 DEF Closing
<1>5. \A q \in Procs \ {p} : Tgid[q] = Tgid[p] => ~Closing(q)
  BY <1>1, RunsAlone
<1>6. \A q \in Procs \ {p} : Closing(q) => closer[q] # p
  BY <1>5 DEF Closing
<1> SUFFICES ASSUME NEW q \in Procs PROVE Task(q)'
  BY DEF Tasks
<1>7. CASE q = p
  BY <1>3, <1>4, <1>5, <1>7 DEF Task
<1>8. CASE q # p
  <2>1. Task(q)
    BY DEF Tasks
  <2>2. ASSUME Closing(q)', closer'[q] # q PROVE life'[closer'[q]] = "alive"
    <3>1. closer[q] \in Procs \ {p} /\ closer'[q] = closer[q] /\ Closing(q)
      BY <1>3, <1>4, <1>6, <1>8, <2>2 DEF Types
    <3> QED BY <1>3, <2>1, <2>2, <3>1 DEF Task
  <2>3. ASSUME NEW o \in Procs \ {q}, Tgid[o] = Tgid[q]
        PROVE  /\ life'[q] = "alive" => life'[o] # "alive"
               /\ life'[q] = "alive" /\ Closing(o)' =>
                    closer'[o] = q /\ pc'[q] = "idle" /\ Linked(q)' = {}
               /\ ~(Closing(q)' /\ Closing(o)')
    <3>1. CASE o = p
      <4>1. life[q] # "alive" /\ ~Closing(q)
        BY <1>1, <1>8, <2>3, <3>1, RunsAlone
      <4> QED BY <1>3, <1>4, <1>8, <3>1, <4>1
    <3>2. CASE o # p
      BY <1>3, <1>4, <1>8, <2>1, <2>3, <3>2 DEF Task
    <3> QED BY <3>1, <3>2
  <2> QED BY <1>3, <1>8, <2>1, <2>2, <2>3 DEF Task
<1> QED BY <1>7, <1>8

LEMMA ExecTasks ==
  ASSUME Types, AddressSpaces, Tasks, NEW p \in Procs, NEW q \in Procs, Exec(p, q)
  PROVE  Tasks'
<1>1. /\ Runs(p) /\ pc[p] = "idle" /\ life[p] = "alive"
      /\ life[q] = "unborn" /\ Tgid[q] = Tgid[p] /\ q # p
  BY DEF Exec, Settled, Runs
<1>2. closer[p] = p /\ closer[q] = q /\ pc[q] = "idle" /\ Linked(q) = {}
  BY <1>1 DEF AddressSpaces, AddressSpace, ClosedByOthers, UnbornEmpty
<1>3. /\ \A o \in Procs \ {p} : /\ Linked(o)' = Linked(o) /\ closer'[o] = closer[o]
                                /\ pc'[o] = pc[o]
      /\ \A o \in Procs \ {p, q} : life'[o] = life[o]
      /\ life'[p] # "alive" /\ life'[q] = "alive"
      /\ life'[p] = "dead" => Linked(p)' = {}
      /\ Closing(p)' => closer'[p] = q
  <2>1. CASE /\ life' = [life EXCEPT ![p] = "dead", ![q] = "alive"]
             /\ TearDown(p, q)
    <3>1. /\ Linked(p)' = {} /\ closer'[p] = q
          /\ \A o \in Procs \ {p} : /\ Linked(o)' = Linked(o) /\ closer'[o] = closer[o]
                                    /\ pc'[o] = pc[o]
      BY <2>1, TearDownTask
    <3>2. /\ \A o \in Procs \ {p, q} : life'[o] = life[o]
          /\ life'[p] = "dead" /\ life'[q] = "alive"
      BY <1>1, <2>1 DEF Types
    <3> QED BY <3>1, <3>2
  <2>2. CASE /\ life' = [life EXCEPT ![p] = "left", ![q] = "alive"]
             /\ UNCHANGED <<vmas, pt, ref, pc, pending, closer>>
    <3>1. /\ \A o \in Procs \ {p, q} : life'[o] = life[o]
          /\ life'[p] = "left" /\ life'[q] = "alive"
      BY <1>1, <2>2 DEF Types
    <3>2. pc'[p] = "idle" /\ \A o \in Procs : Linked(o)' = Linked(o)
      BY <1>1, <2>2 DEF Linked
    <3> QED BY <2>2, <3>1, <3>2 DEF Closing
  <2> QED BY <2>1, <2>2 DEF Exec
<1>4. \A o \in Procs \ {p} : Closing(o)' <=> Closing(o)
  BY <1>3 DEF Closing
<1>5. \A o \in Procs \ {p} : Tgid[o] = Tgid[p] => life[o] # "alive" /\ ~Closing(o)
  BY <1>1, RunsAlone
<1> SUFFICES ASSUME NEW o \in Procs PROVE Task(o)'
  BY DEF Tasks
<1>6. CASE o = p
  BY <1>1, <1>3, <1>4, <1>5, <1>6 DEF Task
<1>7. CASE o = q
  <2>1. ~Closing(q) /\ ~Closing(q)'
    BY <1>1, <1>4, <1>5
  <2>2. /\ pc'[q] = "idle" /\ Linked(q)' = {}
    BY <1>1, <1>2, <1>3
  <2>3. \A r \in Procs \ {q} : Tgid[r] = Tgid[q] =>
          life'[r] # "alive" /\ (Closing(r)' => closer'[r] = q)
    BY <1>1, <1>3, <1>4, <1>5
  <2> QED BY <1>3, <1>7, <2>1, <2>2, <2>3 DEF Task
<1>8. CASE o \notin {p, q}
  <2>1. Task(o) /\ life'[o] = life[o] /\ closer'[o] = closer[o] /\ pc'[o] = pc[o]
        /\ Linked(o)' = Linked(o) /\ (Closing(o)' <=> Closing(o))
    BY <1>3, <1>4, <1>8 DEF Tasks
  <2>2. ASSUME Closing(o), closer[o] # o PROVE life'[closer[o]] = "alive"
    <3>1. life[closer[o]] = "alive" /\ closer[o] \in Procs /\ Tgid[closer[o]] = Tgid[o]
      BY <2>1, <2>2 DEF Task, Types, Closing
    <3>2. closer[o] # p
      BY <1>5, <1>8, <2>2, <3>1
    <3> QED BY <1>3, <3>1, <3>2
  <2>3. ASSUME NEW r \in Procs \ {o}, Tgid[r] = Tgid[o], r \in {p, q}
        PROVE  life[o] # "alive" /\ ~Closing(o)
    BY <1>1, <1>5, <1>8, <2>3
  <2>4. ASSUME NEW r \in Procs \ {o}, Tgid[r] = Tgid[o], r \notin {p, q}
        PROVE  /\ life'[r] = life[r] /\ closer'[r] = closer[r] /\ (Closing(r)' <=> Closing(r))
    BY <1>3, <1>4, <2>4
  <2> QED BY <2>1, <2>2, <2>3, <2>4 DEF Task
<1> QED BY <1>6, <1>7, <1>8

LEMMA LastMmputTasks ==
  ASSUME Types, AddressSpaces, Tasks, NEW p \in Procs, NEW c \in Procs, LastMmput(p, c)
  PROVE  Tasks'
<1>1. life[p] = "left" /\ Tgid[c] # Tgid[p] /\ TearDown(p, c)
  BY DEF LastMmput
<1>2. /\ \A o \in Procs \ {p} : /\ Linked(o)' = Linked(o) /\ closer'[o] = closer[o]
                                /\ pc'[o] = pc[o] /\ life'[o] = life[o]
      /\ Linked(p)' = {} /\ closer'[p] = c /\ life'[p] = "dead"
  BY <1>1, TearDownTask DEF LastMmput, Types
<1>3. ~Closing(p)' /\ \A o \in Procs \ {p} : Closing(o)' <=> Closing(o)
  BY <1>1, <1>2 DEF Closing
<1> SUFFICES ASSUME NEW o \in Procs PROVE Task(o)'
  BY DEF Tasks
<1>4. CASE o = p
  BY <1>2, <1>3, <1>4 DEF Task
<1>5. CASE o # p
  <2>1. Task(o) /\ life'[o] = life[o] /\ closer'[o] = closer[o] /\ pc'[o] = pc[o]
        /\ Linked(o)' = Linked(o) /\ (Closing(o)' <=> Closing(o))
    BY <1>2, <1>3, <1>5 DEF Tasks
  <2>2. ASSUME Closing(o), closer[o] # o PROVE life'[closer[o]] = "alive"
    <3>1. life[closer[o]] = "alive" /\ closer[o] \in Procs
      BY <2>1, <2>2 DEF Task, Types
    <3> QED BY <1>1, <1>2, <3>1
  <2>3. ASSUME NEW r \in Procs \ {o}, Tgid[r] = Tgid[o]
        PROVE  /\ life'[r] = "alive" => life[r] = "alive"
               /\ Closing(r)' => Closing(r) /\ closer'[r] = closer[r]
    BY <1>2, <1>3, <2>3
  <2> QED BY <2>1, <2>2, <2>3 DEF Task
<1> QED BY <1>4, <1>5

\* fork gives the child a pid that nobody has.
LEMMA ForkTasks ==
  ASSUME Types, AddressSpaces, Tasks, NEW p \in Procs, NEW c \in Procs, Fork(p, c)
  PROVE  Tasks'
<1>1. /\ life[c] = "unborn" /\ life[p] = "alive"
      /\ \A o \in Procs : Tgid[o] = Tgid[c] => ~HasTask(o)
      /\ UNCHANGED <<pc, closer>>
      /\ life'[c] = "alive" /\ \A o \in Procs \ {c} : life'[o] = life[o]
  BY DEF Fork, Types, Runs
<1>2. \A o \in Procs : Closing(o)' <=> Closing(o)
  BY <1>1 DEF Closing
<1>3. \A o \in Procs \ {c} : Linked(o)' = Linked(o)
  BY DEF Fork, Linked, Types, Vma
<1>4. ASSUME NEW o \in Procs, Tgid[o] = Tgid[c] PROVE life[o] # "alive" /\ ~Closing(o)
  <2>1. life[o] # "alive"
    BY <1>1, <1>4 DEF HasTask
  <2>2. ASSUME Closing(o) PROVE FALSE
    <3>1. closer[o] # o
      BY <1>1, <1>4, <2>2 DEF HasTask, Closing
    <3>2. life[closer[o]] = "alive" /\ closer[o] \in Procs /\ Tgid[closer[o]] = Tgid[c]
      BY <1>4, <2>2, <3>1 DEF Tasks, Task, Closing, Types
    <3> QED BY <1>1, <3>2 DEF HasTask
  <2> QED BY <2>1, <2>2
<1> SUFFICES ASSUME NEW o \in Procs PROVE Task(o)'
  BY DEF Tasks
<1>5. CASE o = c
  BY <1>1, <1>2, <1>4, <1>5 DEF Task
<1>6. CASE o # c
  <2>1. Task(o) /\ life'[o] = life[o] /\ Linked(o)' = Linked(o)
    BY <1>1, <1>3, <1>6 DEF Tasks
  <2>2. ASSUME Closing(o), closer[o] # o PROVE life'[closer[o]] = "alive"
    <3>1. life[closer[o]] = "alive" /\ closer[o] \in Procs
      BY <2>1, <2>2 DEF Task, Types
    <3> QED BY <1>1, <3>1
  <2>3. ASSUME NEW r \in Procs \ {o}, Tgid[r] = Tgid[o]
        PROVE  /\ life'[o] = "alive" => life'[r] # "alive"
               /\ life'[o] = "alive" /\ Closing(r)' =>
                    closer'[r] = o /\ pc'[o] = "idle" /\ Linked(o)' = {}
               /\ ~(Closing(o)' /\ Closing(r)')
    <3>1. CASE r = c
      BY <1>1, <1>2, <1>4, <2>1, <2>3, <3>1
    <3>2. CASE r # c
      BY <1>1, <1>2, <2>1, <2>3, <3>2 DEF Task
    <3> QED BY <3>1, <3>2
  <2> QED BY <1>1, <1>2, <2>1, <2>2, <2>3 DEF Task
<1> QED BY <1>5, <1>6

\* munmap, once it has zapped its range.
LEMMA ZapTasks ==
  ASSUME Types, AddressSpaces, Tasks, NEW p \in Procs, ZapRange(p)
  PROVE  Tasks'
<1>1. /\ UNCHANGED <<life, closer, vmas>> /\ pc[p] = "zap" /\ pc'[p] = "close"
      /\ \A o \in Procs \ {p} : pc'[o] = pc[o]
  BY DEF ZapRange, mmUnchanged, Types
<1>2. life[p] = "alive" /\ closer[p] = p
  BY <1>1 DEF AddressSpaces, AddressSpace, HandlerLife, ClosedByOthers
<1>3. \A o \in Procs \ {p} : Tgid[o] = Tgid[p] => life[o] # "alive" /\ ~Closing(o)
  BY <1>1, <1>2 DEF Tasks, Task
<1>4. \A o \in Procs \ {p} : Closing(o)' <=> Closing(o)
  BY <1>1 DEF Closing
<1>5. \A o \in Procs : Linked(o)' = Linked(o)
  BY <1>1 DEF Linked
<1> SUFFICES ASSUME NEW o \in Procs PROVE Task(o)'
  BY DEF Tasks
<1>6. CASE o = p
  BY <1>1, <1>2, <1>3, <1>4, <1>6 DEF Task
<1>7. CASE o # p
  <2>1. Task(o)
    BY DEF Tasks
  <2>2. \A r \in Procs \ {o} : r = p /\ Tgid[r] = Tgid[o] => life[o] # "alive" /\ ~Closing(o)
    BY <1>3, <1>7
  <2> QED BY <1>1, <1>4, <1>5, <1>7, <2>1, <2>2 DEF Task
<1> QED BY <1>6, <1>7

\* Every step keeps the tasks in order.
LEMMA TasksPreserved ==
  ASSUME Types, AddressSpaces, Tasks, [Next]_vars
  PROVE  Tasks'
<1>1. ASSUME UNCHANGED <<life, closer, vmas, pc>> PROVE Tasks'
  <2>1. \A p \in Procs : Linked(p)' = Linked(p)
    BY <1>1 DEF Linked
  <2> QED BY <1>1, <2>1, TasksFrame
<1>2. CASE ModuleStep
  <2>1. UNCHANGED <<life, closer, vmas, pc>>
    BY <1>2 DEF ModuleStep, Insmod, memdev_init, InitFails, Unregister, Rmmod, ExitCheck,
                ExitFree, memdevUnchanged, mmVars
  <2> QED BY <1>1, <2>1
<1>3. ASSUME NEW f \in Files, FileStep(f) PROVE Tasks'
  <2>1. UNCHANGED <<life, closer, vmas, pc>>
    BY <1>3 DEF FileStep, memdev_open_get, memdev_open_link, OpenFailed, memdev_release,
                memdev_release_put, Fput, ExitFiles, CloseFd, fsUnchanged, mmVars
  <2> QED BY <1>1, <2>1
<1>4. ASSUME NEW p \in Procs, HandlerStep(p), ~ZapRange(p) PROVE Tasks'
  <2>1. /\ life' = life /\ closer' = closer
        /\ \A q \in Procs \ {p} : pc'[q] = pc[q] /\ Linked(q)' = Linked(q)
    <3>1. life' = life /\ closer' = closer
      BY <1>4 DEF HandlerStep, AllocPages, map_pages_to_vma, RegionFails, ListRegion,
                  CountRegion, err_free_pages, MmapUndo, memdev_vma_close, mmUnchanged
    <3>2. \A q \in Procs \ {p} : pc'[q] = pc[q] /\ Linked(q)' = Linked(q)
      BY <1>4, HandlerOthers
    <3> QED BY <3>1, <3>2
  <2>2. pc[p] # "idle" /\ (pc'[p] = "close" => pc[p] = "close")
    <3>1. CASE AllocPages(p)
      <4>1. pc[p] = "alloc" /\ \E s \in {"map", "err"} : pc' = [pc EXCEPT ![p] = s]
        BY <3>1 DEF AllocPages
      <4> QED BY <4>1 DEF Types
    <3>2. CASE map_pages_to_vma(p)
      <4>1. pc[p] = "map" /\ \E s \in {"region", "err"} : pc' = [pc EXCEPT ![p] = s]
        BY <3>2 DEF map_pages_to_vma, AfterMap
      <4> QED BY <4>1 DEF Types
    <3>3. CASE memdev_vma_close(p)
      BY <3>3 DEF memdev_vma_close
    <3>4. CASE RegionFails(p) \/ ListRegion(p) \/ CountRegion(p) \/ err_free_pages(p)
               \/ MmapUndo(p)
      BY <3>4 DEF RegionFails, ListRegion, CountRegion, err_free_pages, MmapUndo, Types
    <3> QED BY <1>4, <3>1, <3>2, <3>3, <3>4 DEF HandlerStep
  <2>3. life[p] = "dead" => Linked(p)' \subseteq Linked(p)
    <3>1. CASE CountRegion(p)
      <4>1. life[p] = "alive"
        BY <3>1 DEF CountRegion, AddressSpaces, AddressSpace, HandlerLife
      <4> QED BY <4>1
    <3>2. CASE ~CountRegion(p)
      <4>1. vmas' = vmas
        BY <1>4, <3>2 DEF HandlerStep, AllocPages, map_pages_to_vma, RegionFails, ListRegion,
                          err_free_pages, MmapUndo, memdev_vma_close
      <4> QED BY <4>1 DEF Linked
    <3> QED BY <3>1, <3>2
  <2>4. /\ \A q \in Procs : pc'[q] = "close" => pc[q] = "close"
        /\ \A q \in Procs : (life[q] = "alive" /\ pc[q] = "idle" /\ ~Runs(q)) => pc'[q] = "idle"
        /\ \A q \in Procs : ~Runs(q) /\ pc[q] = "idle" => Linked(q)' \subseteq Linked(q)
        /\ \A q \in Procs : life[q] = "dead" => Linked(q)' \subseteq Linked(q)
    BY <2>1, <2>2, <2>3
  <2> QED BY <2>1, <2>4, TasksFrame
<1>5. ASSUME NEW p \in Procs, NEW f \in Files, ChrdevOpen(p, f) \/ Close(p, f) PROVE Tasks'
  <2>1. UNCHANGED <<life, closer, vmas, pc>>
    BY <1>5 DEF ChrdevOpen, Close, CloseFd, fsUnchanged, mmVars
  <2> QED BY <1>1, <2>1
<1>6. ASSUME NEW p \in Procs, NEW a \in Addrs, WriteFault(p, a) PROVE Tasks'
  <2>1. UNCHANGED <<life, closer, vmas, pc>>
    BY <1>6 DEF WriteFault, mmUnchanged
  <2> QED BY <1>1, <2>1
<1>7. ASSUME NEW p \in Procs, Runs(p), UNCHANGED <<life, closer>>, NEW s \in {"alloc", "zap"},
             pc' = [pc EXCEPT ![p] = s], \A q \in Procs \ {p} : Linked(q)' = Linked(q)
      PROVE  Tasks'
  <2>1. pc'[p] = s /\ \A q \in Procs \ {p} : pc'[q] = pc[q]
    BY <1>7 DEF Types
  <2>2. life[p] = "alive"
    BY <1>7 DEF Runs
  <2>3. /\ \A q \in Procs : pc'[q] = "close" => pc[q] = "close"
        /\ \A q \in Procs : (life[q] = "alive" /\ pc[q] = "idle" /\ ~Runs(q)) => pc'[q] = "idle"
        /\ \A q \in Procs : ~Runs(q) /\ pc[q] = "idle" => Linked(q)' \subseteq Linked(q)
        /\ \A q \in Procs : life[q] = "dead" => Linked(q)' \subseteq Linked(q)
    BY <1>7, <2>1, <2>2
  <2> QED BY <1>7, <2>3, TasksFrame
<1>8. ASSUME NEW p \in Procs, NEW f \in Files, NEW lo \in Addrs, NEW len \in 1 .. MaxLen,
             MmapStart(p, f, lo, len)
      PROVE  Tasks'
  <2>1. /\ Runs(p) /\ UNCHANGED <<life, closer, vmas>> /\ pc' = [pc EXCEPT ![p] = "alloc"]
    BY <1>8 DEF MmapStart, mmUnchanged
  <2>2. \A q \in Procs \ {p} : Linked(q)' = Linked(q)
    BY <2>1 DEF Linked
  <2> QED BY <1>7, <2>1, <2>2
<1>9. ASSUME NEW p \in Procs, NEW lo \in Addrs, NEW hi \in Addrs, Munmap(p, lo, hi)
      PROVE  Tasks'
  <2>1. /\ Runs(p) /\ UNCHANGED <<life, closer>> /\ pc' = [pc EXCEPT ![p] = "zap"]
        /\ vmas' = (vmas \ CutVmas(p, lo, hi)) \cup
                     (CutPieces(p, lo, hi) \ GonePieces(p, lo, hi))
    BY <1>9 DEF Munmap, mmUnchanged, CutVmas, CutPieces, GonePieces
  <2>2. \A v \in CutVmas(p, lo, hi) : v \in Vma /\ v.mm = p
    BY DEF CutVmas, Types
  <2>3. \A w \in CutPieces(p, lo, hi) : w.mm = p
    BY <2>2, PieceFacts DEF CutPieces
  <2>4. \A q \in Procs \ {p} : Linked(q)' = Linked(q)
    BY <2>1, <2>2, <2>3 DEF Linked
  <2> QED BY <1>7, <2>1, <2>4
<1>10. ASSUME NEW p \in Procs, UserStep(p) PROVE Tasks'
  BY <1>5, <1>6, <1>8, <1>9, <1>10, EndTasks, ExecTasks, ForkTasks, LastMmputTasks DEF UserStep
<1>11. CASE UNCHANGED vars
  BY <1>1, <1>11 DEF vars
<1> QED BY <1>2, <1>3, <1>4, <1>10, <1>11, ZapTasks DEF Next

-------------------------------------------------------------------------------
(* Regions and the vmas they were made for.                                *)

\* Nobody who has outlived an address space gives it back.
LEMMA OutlivedStable ==
  ASSUME Types, AddressSpaces, [Next]_vars, NEW m \in Procs, Outlived(m)
  PROVE  Outlived(m)'
<1>1. life[m] \in {"left", "dead"} /\ (life[m] = "dead" => Tgid[closer[m]] # Tgid[m])
  BY DEF Outlived
<1>2. ASSUME life'[m] = life[m], closer'[m] = closer[m] PROVE Outlived(m)'
  BY <1>1, <1>2 DEF Outlived
<1>3. CASE ModuleStep
  BY <1>2, <1>3 DEF ModuleStep, Insmod, memdev_init, InitFails, Unregister, Rmmod, ExitCheck,
                    ExitFree, memdevUnchanged, mmVars
<1>4. ASSUME NEW f \in Files, FileStep(f) PROVE Outlived(m)'
  BY <1>2, <1>4 DEF FileStep, memdev_open_get, memdev_open_link, OpenFailed, memdev_release,
                    memdev_release_put, Fput, ExitFiles, CloseFd, fsUnchanged, mmVars
<1>5. ASSUME NEW p \in Procs, HandlerStep(p) PROVE Outlived(m)'
  BY <1>2, <1>5 DEF HandlerStep, AllocPages, map_pages_to_vma, RegionFails, ListRegion,
                    CountRegion, err_free_pages, MmapUndo, ZapRange, memdev_vma_close, mmUnchanged
<1>6. ASSUME NEW p \in Procs, UserStep(p) PROVE Outlived(m)'
  <2>1. ASSUME NEW c \in Procs, LastMmput(p, c) PROVE Outlived(m)'
    <3>1. /\ Tgid[c] # Tgid[p] /\ closer'[p] = c /\ life'[p] = "dead"
          /\ \A q \in Procs \ {p} : closer'[q] = closer[q] /\ life'[q] = life[q]
      BY <2>1, TearDownTask DEF LastMmput, Types
    <3> QED BY <1>2, <3>1 DEF Outlived
  <2>2. ASSUME NEW q \in Procs, Exec(p, q) PROVE Outlived(m)'
    <3>1. life[p] = "alive" /\ life[q] = "unborn"
      BY <2>2 DEF Exec, Settled, Runs
    <3>2. \A o \in Procs \ {p, q} : closer'[o] = closer[o] /\ life'[o] = life[o]
      BY <2>2, TearDownTask DEF Exec, Types
    <3> QED BY <1>1, <1>2, <3>1, <3>2
  <2>3. CASE Exit(p) \/ Leave(p)
    <3>1. life[p] = "alive"
      BY <2>3 DEF Exit, Leave, Settled, Runs
    <3>2. \A o \in Procs \ {p} : closer'[o] = closer[o] /\ life'[o] = life[o]
      BY <2>3, TearDownTask DEF Exit, Leave, Types
    <3> QED BY <1>1, <1>2, <3>1, <3>2
  <2>4. ASSUME NEW c \in Procs, Fork(p, c) PROVE Outlived(m)'
    <3>1. closer' = closer /\ life[c] = "unborn" /\ \A o \in Procs \ {c} : life'[o] = life[o]
      BY <2>4 DEF Fork, Types
    <3> QED BY <1>1, <1>2, <3>1
  <2>5. CASE \/ \E f \in Files : ChrdevOpen(p, f) \/ Close(p, f)
             \/ \E f \in Files, lo \in Addrs, len \in 1 .. MaxLen : MmapStart(p, f, lo, len)
             \/ \E lo, hi \in Addrs : Munmap(p, lo, hi)
             \/ \E a \in Addrs : WriteFault(p, a)
    BY <1>2, <2>5 DEF ChrdevOpen, Close, CloseFd, MmapStart, Munmap, WriteFault, fsUnchanged,
                      mmUnchanged, mmVars
  <2> QED BY <1>6, <2>1, <2>2, <2>3, <2>4, <2>5 DEF UserStep
<1>7. CASE UNCHANGED vars
  BY <1>2, <1>7 DEF vars
<1> QED BY <1>3, <1>4, <1>5, <1>6, <1>7 DEF Next

\* A step that lists no region of the pid of q, and leaves a vma of q on the same file at
\* every address where one of its regions starts, keeps its regions in order.
LEMMA OwnRegionsFrame ==
  ASSUME NEW q \in Procs, OwnRegions(q),
         \A m \in Procs : Outlived(m) => Outlived(m)',
         life'[q] = "unborn" => life[q] = "unborn",
         \A r \in regions' : Tgid[r.mm] = Tgid[q] => r \in regions,
         \A v \in Regioned(q) : \E w \in Regioned(q)' : w.lo = v.lo /\ w.file = v.file
  PROVE  OwnRegions(q)'
<1>1. OwnPid(q)' => OwnPid(q)
  BY DEF OwnPid
<1> SUFFICES ASSUME OwnPid(q)', NEW r \in regions', r.mm = q
             PROVE  /\ life'[q] # "unborn"
                    /\ \E v \in Regioned(q)' : v.lo = r.user_va /\ v.file = r.file
                    /\ \A s \in regions' : (Tgid[s.mm] = Tgid[q] /\ s.user_va = r.user_va) => s = r
  BY DEF OwnRegions
<1>2. r \in regions
  OBVIOUS
<1>3. /\ life[q] # "unborn"
      /\ \E v \in Regioned(q) : v.lo = r.user_va /\ v.file = r.file
      /\ \A s \in regions : (Tgid[s.mm] = Tgid[q] /\ s.user_va = r.user_va) => s = r
  BY <1>1, <1>2 DEF OwnRegions
<1> QED BY <1>3

\* Two vmas of a process that start at one address are one.
LEMMA SameStart ==
  ASSUME Types, NEW p \in Procs, AddressSpace(p), NEW v \in OwnVmas(p),
         NEW w \in OwnVmas(p), v.lo = w.lo
  PROVE  v = w
<1>1. v \in Vma /\ w \in Vma
  BY DEF OwnVmas, Linked, Types
<1>2. v.lo \in Span(v) /\ v.lo \in Span(w)
  BY <1>1, SpanFacts
<1> QED BY <1>2 DEF AddressSpace, VmasDisjoint

\* A pid has regions in one address space only: the one in which a handler runs, or the
\* one it closes.
LEMMA OneSpace ==
  ASSUME Types, AddressSpaces, Tasks, RegionsHaveVmas, NEW p \in Procs, OwnPid(p),
         (life[p] = "alive" /\ pc[p] # "idle") \/ Closing(p),
         NEW r \in regions, Tgid[r.mm] = Tgid[p]
  PROVE  r.mm = p
<1> SUFFICES ASSUME r.mm # p PROVE FALSE
  OBVIOUS
<1>1. PICK o \in Procs \ {p} : o = r.mm /\ Tgid[o] = Tgid[p]
  BY DEF Types, Region
<1>2. OwnRegions(o) /\ AddressSpace(o) /\ Task(o) /\ Task(p) /\ AddressSpace(p)
  BY DEF RegionsHaveVmas, AddressSpaces, Tasks
<1>3. OwnPid(o)
  BY <1>1 DEF OwnPid
<1>4. life[o] # "unborn" /\ Regioned(o) # {}
  BY <1>1, <1>2, <1>3 DEF OwnRegions
<1>5. CASE life[o] = "alive"
  <2>1. Closing(p) /\ Linked(o) = {} /\ pc[o] = "idle"
    BY <1>1, <1>2, <1>5 DEF Task
  <2> QED BY <1>4, <2>1 DEF Regioned
<1>6. CASE life[o] = "dead"
  <2>1. Linked(o) = {} /\ pc[o] # "idle"
    BY <1>2, <1>4, <1>6 DEF Task, Regioned, AddressSpace, PendingShape
  <2>2. pc[o] = "close"
    BY <1>2, <1>6, <2>1 DEF AddressSpace, HandlerLife
  <2>3. Closing(o)
    BY <1>1, <1>6, <2>2 DEF OwnPid, Outlived, Closing
  <2> QED BY <1>1, <1>2, <2>3 DEF Task
<1>7. life[o] # "left"
  BY <1>1 DEF OwnPid, Outlived
<1> QED BY <1>4, <1>5, <1>6, <1>7 DEF Types

\* The region that p lists for the vma it builds is the only one of its pid at that
\* address.
LEMMA ListOwnRegions ==
  ASSUME Types, AddressSpaces, Tasks, RegionsHaveVmas, NEW p \in Procs, ListRegion(p),
         \A m \in Procs : Outlived(m) => Outlived(m)'
  PROVE  OwnRegions(p)'
<1>0. OwnRegions(p)
  BY DEF RegionsHaveVmas
<1>1. PICK v \in pending[p] : regions' = regions \cup
        {[mm |-> p, user_va |-> v.lo, file |-> v.file, pages |-> held[p]]}
  BY DEF ListRegion
<1> DEFINE new == [mm |-> p, user_va |-> v.lo, file |-> v.file, pages |-> held[p]]
<1>2. regions' = regions \cup {new} /\ new.mm = p /\ new.user_va = v.lo /\ new.file = v.file
  BY <1>1
<1> HIDE DEF new
<1>3. /\ pc[p] = "region" /\ pc'[p] = "count"
      /\ UNCHANGED <<vmas, pending, closer, life>>
  BY DEF ListRegion, mmUnchanged, Types
<1>4. AddressSpace(p) /\ life[p] = "alive"
  BY <1>3 DEF AddressSpaces, AddressSpace, HandlerLife
<1>5. Regioned(p) = Linked(p) /\ Regioned(p)' = Linked(p) \cup pending[p]
  BY <1>3 DEF Regioned, Linked
<1> SUFFICES ASSUME OwnPid(p)', NEW r \in regions', r.mm = p
             PROVE  /\ life'[p] # "unborn"
                    /\ \E w \in Regioned(p)' : w.lo = r.user_va /\ w.file = r.file
                    /\ \A s \in regions' : (Tgid[s.mm] = Tgid[p] /\ s.user_va = r.user_va) => s = r
  BY DEF OwnRegions
<1>6. OwnPid(p)
  BY DEF OwnPid
<1>7. ASSUME NEW s \in regions, Tgid[s.mm] = Tgid[p], s.user_va = v.lo PROVE FALSE
  <2>1. s.mm = p
    BY <1>3, <1>4, <1>6, <1>7, OneSpace
  <2>2. PICK w \in Linked(p) : w.lo = v.lo
    BY <1>0, <1>5, <1>6, <1>7, <2>1 DEF OwnRegions
  <2>3. w = v
    BY <1>4, <2>2, SameStart DEF OwnVmas
  <2> QED BY <1>4, <2>3 DEF AddressSpace, VmasDisjoint
<1>8. CASE r = new
  BY <1>2, <1>3, <1>4, <1>5, <1>7, <1>8
<1>9. CASE r \in regions
  <2>1. /\ \E w \in Regioned(p) : w.lo = r.user_va /\ w.file = r.file
        /\ \A s \in regions : (Tgid[s.mm] = Tgid[p] /\ s.user_va = r.user_va) => s = r
    BY <1>0, <1>6, <1>9 DEF OwnRegions
  <2>2. r.user_va # v.lo
    BY <1>7, <1>9
  <2> QED BY <1>2, <1>3, <1>4, <1>5, <2>1, <2>2
<1> QED BY <1>2, <1>8, <1>9

\* The closes of p compare with the pid of p, unless somebody outlived it.
LEMMA OwnCloser ==
  ASSUME AddressSpaces, NEW p \in Procs, OwnPid(p), pc[p] = "close"
  PROVE  Closing(p)
<1>1. life[p] = "alive" => closer[p] = p
  BY DEF AddressSpaces, AddressSpace, ClosedByOthers
<1>2. life[p] = "dead" => Tgid[closer[p]] = Tgid[p]
  BY DEF OwnPid, Outlived
<1>3. life[p] = "alive" \/ life[p] = "dead"
  BY DEF AddressSpaces, AddressSpace, HandlerLife
<1> QED BY <1>1, <1>2, <1>3 DEF Closing

\* A region that is freed when such a vma is closed is the one of that vma.
LEMMA OwnRegionFreed ==
  ASSUME Types, AddressSpaces, Tasks, RegionsHaveVmas, NEW p \in Procs, OwnPid(p), Closing(p),
         NEW v \in pending[p], NEW r \in Matches(Tgid[closer[p]], v.lo)
  PROVE  r.file = v.file /\ r.mm = v.mm /\ r.user_va = v.lo
<1>0. AddressSpace(p) /\ OwnRegions(p)
  BY DEF AddressSpaces, RegionsHaveVmas
<1>1. r \in regions /\ Tgid[r.mm] = Tgid[p] /\ r.user_va = v.lo
  BY DEF Matches, RegionsOf, Closing
<1>2. r.mm = p
  BY <1>1, OneSpace
<1>3. PICK w \in Regioned(p) : w.lo = r.user_va /\ w.file = r.file
  BY <1>0, <1>1, <1>2 DEF OwnRegions
<1>4. w \in OwnVmas(p) /\ v \in OwnVmas(p)
  BY <1>3 DEF Regioned, OwnVmas
<1>5. w = v
  BY <1>0, <1>1, <1>3, <1>4, SameStart
<1>6. v.mm = p
  BY <1>0 DEF AddressSpace, PendingShape
<1> QED BY <1>1, <1>2, <1>3, <1>5, <1>6

\* Closing its own vma, p leaves no region at the start of it.
LEMMA CloseOwnRegions ==
  ASSUME Types, AddressSpaces, ListsOpenFiles, NEW p \in Procs, OwnRegions(p),
         memdev_vma_close(p), \A m \in Procs : Outlived(m) => Outlived(m)'
  PROVE  OwnRegions(p)'
<1>1. PICK v \in pending[p] :
        /\ \/ Matches(Tgid[closer[p]], v.lo) = {} /\ regions' = regions
           \/ \E r \in Matches(Tgid[closer[p]], v.lo) : regions' = regions \ {r}
        /\ pending'[p] = pending[p] \ {v}
  <2>1. PICK v \in pending[p] :
          /\ IF Matches(Tgid[closer[p]], v.lo) = {}
             THEN UNCHANGED <<regions, ref, mapped_count>>
             ELSE \E r \in Matches(Tgid[closer[p]], v.lo) : free_mapped_region({r})
          /\ pending' = [pending EXCEPT ![p] = @ \ {v}]
    BY DEF memdev_vma_close
  <2>2. pending'[p] = pending[p] \ {v}
    BY <2>1 DEF Types
  <2>3. CASE Matches(Tgid[closer[p]], v.lo) = {}
    BY <2>1, <2>2, <2>3
  <2>4. CASE Matches(Tgid[closer[p]], v.lo) # {}
    <3>1. PICK r \in Matches(Tgid[closer[p]], v.lo) : free_mapped_region({r})
      BY <2>1, <2>4
    <3>2. regions' = regions \ {r}
      BY <3>1 DEF free_mapped_region
    <3> QED BY <2>2, <3>2
  <2> QED BY <2>3, <2>4
<1>2. /\ pc[p] = "close" /\ pc'[p] = (IF pending'[p] = {} THEN "idle" ELSE "close")
      /\ UNCHANGED <<vmas, closer, life>>
  BY DEF memdev_vma_close, mmUnchanged, Types
<1>3. Regioned(p) = Linked(p) \cup pending[p] /\ Regioned(p)' = Linked(p) \cup (pending[p] \ {v})
  BY <1>1, <1>2 DEF Regioned, Linked
<1> SUFFICES ASSUME OwnPid(p)', NEW r \in regions', r.mm = p
             PROVE  /\ life'[p] # "unborn"
                    /\ \E w \in Regioned(p)' : w.lo = r.user_va /\ w.file = r.file
                    /\ \A s \in regions' : (Tgid[s.mm] = Tgid[p] /\ s.user_va = r.user_va) => s = r
  BY DEF OwnRegions
<1>4. r \in regions /\ regions' \subseteq regions /\ OwnPid(p)
  BY <1>1 DEF OwnPid
<1>5. /\ life[p] # "unborn"
      /\ \A s \in regions : (Tgid[s.mm] = Tgid[p] /\ s.user_va = r.user_va) => s = r
  BY <1>4 DEF OwnRegions
<1>6. PICK w \in Regioned(p) : w.lo = r.user_va /\ w.file = r.file
  BY <1>4 DEF OwnRegions
<1>7. w # v
  <2> SUFFICES ASSUME w = v PROVE FALSE
    OBVIOUS
  <2>0. Tgid[closer[p]] = Tgid[p]
    BY <1>2, <1>4, OwnCloser DEF Closing
  <2>1. r \in Matches(Tgid[closer[p]], v.lo)
    BY <1>4, <1>6, <2>0 DEF Matches, RegionsOf, ListsOpenFiles
  <2>2. PICK x \in Matches(Tgid[closer[p]], v.lo) : regions' = regions \ {x}
    BY <1>1, <2>1
  <2>3. x = r
    BY <1>5, <1>6, <2>0, <2>2 DEF Matches, RegionsOf
  <2> QED BY <2>2, <2>3
<1> QED BY <1>2, <1>3, <1>4, <1>5, <1>6, <1>7

\* munmap leaves a piece at the start of every vma that it cuts.
LEMMA MunmapOwnRegions ==
  ASSUME Types, AddressSpaces, NEW p \in Procs, OwnRegions(p), NEW lo \in Addrs,
         NEW hi \in Addrs, Munmap(p, lo, hi), \A m \in Procs : Outlived(m) => Outlived(m)'
  PROVE  OwnRegions(p)'
<1> DEFINE cut    == CutVmas(p, lo, hi)
           pieces == CutPieces(p, lo, hi)
           gone   == GonePieces(p, lo, hi)
<1>1. lo \in Nat /\ hi \in Nat
  BY MemdevAssumption DEF MemdevAssumption
<1>2. /\ vmas' = (vmas \ cut) \cup (pieces \ gone)
      /\ pending'[p] = gone /\ pc'[p] = "zap"
      /\ pc[p] = "idle" /\ life' = life /\ regions' = regions
  BY DEF Munmap, mmUnchanged, Types, CutVmas, CutPieces, GonePieces
<1>3. Regioned(p) = Linked(p)
  BY <1>2 DEF Regioned
<1>4. \A v \in cut : v \in Vma /\ v.mm = p /\ Span(v) \subseteq Addrs
  BY DEF CutVmas, AddressSpaces, AddressSpace, SpansInSpace, OwnVmas, Linked, Types
<1>5. \A w \in pieces : w.mm = p
  BY <1>4, PieceFacts DEF CutPieces
<1>6. (Linked(p) \ cut) \cup pieces \subseteq Regioned(p)'
  BY <1>2, <1>5 DEF Regioned, Linked
<1>7. ASSUME NEW v \in Linked(p)
      PROVE  \E w \in Regioned(p)' : w.lo = v.lo /\ w.file = v.file
  <2>1. CASE v \notin cut
    BY <1>6, <2>1
  <2>2. CASE v \in cut
    <3>1. Within(v, lo, hi) # {}
      BY <2>2 DEF CutVmas, Within
    <3>2. PICK w \in Pieces(v, lo, hi) : w.lo = v.lo /\ w.file = v.file
      BY <1>1, <1>4, <2>2, <3>1, CutKeepsStart
    <3> QED BY <1>6, <2>2, <3>2 DEF CutPieces
  <2> QED BY <2>1, <2>2
<1>8. \A v \in Regioned(p) : \E w \in Regioned(p)' : w.lo = v.lo /\ w.file = v.file
  BY <1>3, <1>7
<1> QED BY <1>2, <1>8, OwnRegionsFrame

\* Every step keeps the regions of every process in order.
LEMMA RegionsHaveVmasPreserved ==
  ASSUME Types, AddressSpaces, Tasks, ListsOpenFiles, RegionsHaveVmas, [Next]_vars
  PROVE  RegionsHaveVmas'
<1> SUFFICES ASSUME NEW q \in Procs PROVE OwnRegions(q)'
  BY DEF RegionsHaveVmas
<1>0. /\ OwnRegions(q) /\ AddressSpace(q)
      /\ \A m \in Procs : Outlived(m) => Outlived(m)'
  BY OutlivedStable DEF RegionsHaveVmas, AddressSpaces
<1>1. ASSUME regions' \subseteq regions, life'[q] = "unborn" => life[q] = "unborn",
             Regioned(q) \subseteq Regioned(q)'
      PROVE  OwnRegions(q)'
  BY <1>0, <1>1, OwnRegionsFrame
<1>2. ASSUME regions' \subseteq regions, UNCHANGED <<life, vmas, pc, pending>>
      PROVE  OwnRegions(q)'
  <2>1. Regioned(q)' = Regioned(q)
    BY <1>2 DEF Regioned, Linked
  <2> QED BY <1>1, <1>2, <2>1
<1>3. CASE ModuleStep
  <2>1. regions' \subseteq regions /\ UNCHANGED <<life, vmas, pc, pending>>
    BY <1>3 DEF ModuleStep, Insmod, memdev_init, InitFails, Unregister, Rmmod, ExitCheck,
                ExitFree, memdevUnchanged, free_mapped_region, mmVars
  <2> QED BY <1>2, <2>1
<1>4. ASSUME NEW f \in Files, FileStep(f) PROVE OwnRegions(q)'
  <2>1. regions' \subseteq regions /\ UNCHANGED <<life, vmas, pc, pending>>
    BY <1>4 DEF FileStep, memdev_open_get, memdev_open_link, OpenFailed, memdev_release,
                memdev_release_put, Fput, ExitFiles, CloseFd, fsUnchanged,
                free_mapped_region, mmVars
  <2> QED BY <1>2, <2>1
<1>5. ASSUME NEW p \in Procs, ListRegion(p), q # p PROVE OwnRegions(q)'
  <2>1. /\ life' = life /\ pc'[q] = pc[q] /\ pending'[q] = pending[q] /\ vmas' = vmas
        /\ closer' = closer /\ pc[p] = "region"
    BY <1>5 DEF ListRegion, mmUnchanged, Types
  <2>2. Regioned(q)' = Regioned(q)
    BY <2>1 DEF Regioned, Linked
  <2>3. CASE Tgid[p] # Tgid[q]
    <3>1. \A r \in regions' : Tgid[r.mm] = Tgid[q] => r \in regions
      <4>1. PICK v \in pending[p] : regions' = regions \cup
              {[mm |-> p, user_va |-> v.lo, file |-> v.file, pages |-> held[p]]}
        BY <1>5 DEF ListRegion
      <4> QED BY <2>3, <4>1
    <3> QED BY <1>0, <2>1, <2>2, <3>1, OwnRegionsFrame
  <2>4. CASE Tgid[p] = Tgid[q]
    <3>1. life[p] = "alive"
      BY <2>1 DEF AddressSpaces, AddressSpace, HandlerLife
    <3>2. ASSUME OwnPid(q), NEW r \in regions, r.mm = q PROVE FALSE
      <4>1. OwnPid(p)
        BY <2>4, <3>2 DEF OwnPid
      <4>2. r.mm = p
        BY <2>1, <2>4, <3>1, <3>2, <4>1, OneSpace
      <4> QED BY <1>5, <3>2, <4>2
    <3>3. OwnPid(q)' => OwnPid(q)
      BY <1>0 DEF OwnPid
    <3>4. \A r \in regions' : r.mm = q => r \in regions
      <4>1. PICK v \in pending[p] : regions' = regions \cup
              {[mm |-> p, user_va |-> v.lo, file |-> v.file, pages |-> held[p]]}
        BY <1>5 DEF ListRegion
      <4> QED BY <1>5, <4>1
    <3> QED BY <3>2, <3>3, <3>4 DEF OwnRegions
  <2> QED BY <2>3, <2>4
<1>6. ASSUME NEW p \in Procs, HandlerStep(p), ~ListRegion(p), q # p PROVE OwnRegions(q)'
  <2>1. /\ life' = life /\ pc'[q] = pc[q] /\ pending'[q] = pending[q]
        /\ Linked(q)' = Linked(q)
    BY <1>6, HandlerOthers
  <2>2. Regioned(q)' = Regioned(q)
    BY <2>1 DEF Regioned
  <2>3. regions' \subseteq regions
    BY <1>6 DEF HandlerStep, AllocPages, map_pages_to_vma, RegionFails, CountRegion,
                err_free_pages, MmapUndo, ZapRange, memdev_vma_close, free_mapped_region
  <2> QED BY <1>1, <2>1, <2>2, <2>3
<1>7. ASSUME HandlerStep(q) PROVE OwnRegions(q)'
  <2>1. CASE ListRegion(q) BY <1>0, <2>1, ListOwnRegions
  <2>2. CASE memdev_vma_close(q) BY <1>0, <2>2, CloseOwnRegions
  <2>3. CASE CountRegion(q)
    <3>1. /\ UNCHANGED <<regions, closer, life>> /\ pc[q] = "count"
          /\ vmas' = vmas \cup pending[q]
      BY <2>3 DEF CountRegion, mmUnchanged
    <3>2. \A v \in pending[q] : v.mm = q
      BY <1>0 DEF AddressSpace, PendingShape
    <3>3. Regioned(q) \subseteq Regioned(q)'
      BY <3>1, <3>2 DEF Regioned, Linked
    <3> QED BY <1>1, <3>1, <3>3
  <2>4. CASE ZapRange(q)
    <3>1. UNCHANGED <<regions, life, vmas, pending>> /\ pc[q] = "zap" /\ pc'[q] = "close"
      BY <2>4 DEF ZapRange, mmUnchanged, Types
    <3>2. Regioned(q) \subseteq Regioned(q)'
      BY <3>1 DEF Regioned, Linked
    <3> QED BY <1>1, <3>1, <3>2
  <2>5. CASE AllocPages(q) \/ map_pages_to_vma(q) \/ RegionFails(q) \/ err_free_pages(q)
             \/ MmapUndo(q)
    <3>1. UNCHANGED <<regions, closer, life, vmas>> /\ pc[q] \notin {"count", "zap", "close"}
      BY <2>5 DEF AllocPages, map_pages_to_vma, RegionFails, err_free_pages, MmapUndo,
                  mmUnchanged
    <3>2. Regioned(q) \subseteq Regioned(q)'
      BY <3>1 DEF Regioned, Linked
    <3> QED BY <1>1, <3>1, <3>2
  <2> QED BY <1>7, <2>1, <2>2, <2>3, <2>4, <2>5 DEF HandlerStep
<1>8. ASSUME NEW p \in Procs, NEW f \in Files, ChrdevOpen(p, f) \/ Close(p, f)
      PROVE  OwnRegions(q)'
  <2>1. regions' \subseteq regions /\ UNCHANGED <<life, vmas, pc, pending>>
    BY <1>8 DEF ChrdevOpen, Close, CloseFd, fsUnchanged, mmVars
  <2> QED BY <1>2, <2>1
<1>9. ASSUME NEW p \in Procs, NEW f \in Files, NEW lo \in Addrs, NEW len \in 1 .. MaxLen,
             MmapStart(p, f, lo, len)
      PROVE  OwnRegions(q)'
  <2>1. /\ UNCHANGED <<regions, life, vmas>>
        /\ (pc'[q] = pc[q] /\ pending'[q] = pending[q]) \/ pc[q] = "idle"
    BY <1>9 DEF MmapStart, mmUnchanged, Types
  <2>2. Regioned(q) \subseteq Regioned(q)'
    BY <2>1 DEF Regioned, Linked
  <2> QED BY <1>1, <2>1, <2>2
<1>10. ASSUME NEW p \in Procs, NEW lo \in Addrs, NEW hi \in Addrs, Munmap(p, lo, hi)
       PROVE  OwnRegions(q)'
  <2>1. CASE q = p BY <1>0, <1>10, <2>1, MunmapOwnRegions
  <2>2. CASE q # p
    <3>1. /\ life' = life /\ regions' = regions /\ pc'[q] = pc[q] /\ pending'[q] = pending[q]
      BY <1>10, <2>2 DEF Munmap, mmUnchanged, Types
    <3>2. Linked(q) \subseteq Linked(q)'
      <4>1. \A v \in vmas : v.mm # p => v \in vmas'
        BY <1>10 DEF Munmap
      <4> QED BY <2>2, <4>1 DEF Linked
    <3>3. Regioned(q) \subseteq Regioned(q)'
      BY <3>1, <3>2 DEF Regioned
    <3> QED BY <1>1, <3>1, <3>3
  <2> QED BY <2>1, <2>2
<1>11. ASSUME NEW p \in Procs, NEW a \in Addrs, WriteFault(p, a) PROVE OwnRegions(q)'
  <2>1. UNCHANGED <<regions, life, vmas, pc, pending>>
    BY <1>11 DEF WriteFault, mmUnchanged
  <2> QED BY <1>2, <2>1
<1>12. ASSUME NEW p \in Procs, NEW c \in Procs, Fork(p, c) PROVE OwnRegions(q)'
  <2>1. UNCHANGED <<regions, pc, pending>> /\ vmas \subseteq vmas'
        /\ (life'[q] = "unborn" => life[q] = "unborn")
    BY <1>12 DEF Fork, Types
  <2>2. Regioned(q) \subseteq Regioned(q)'
    BY <2>1 DEF Regioned, Linked
  <2> QED BY <1>1, <2>1, <2>2
<1>13. ASSUME NEW p \in Procs, NEW c \in Procs, TearDown(p, c), pc[p] = "idle",
              regions' = regions, life'[q] = "unborn" => life[q] = "unborn"
       PROVE  OwnRegions(q)'
  <2>1. CASE q = p
    <3>1. pending'[p] = Linked(p) /\ pc'[p] = (IF Linked(p) = {} THEN "idle" ELSE "close")
      BY <1>13 DEF TearDown, CloseVmas, Types, Linked
    <3>2. Regioned(p) = Linked(p) /\ Linked(p) \subseteq Regioned(p)'
      BY <1>13, <3>1 DEF Regioned
    <3> QED BY <1>1, <1>13, <2>1, <3>2
  <2>2. CASE q # p
    <3>1. Regioned(q)' = Regioned(q)
      BY <1>13, <2>2, TearDownOthers DEF Regioned
    <3> QED BY <1>1, <1>13, <3>1
  <2> QED BY <2>1, <2>2
<1>14. ASSUME NEW p \in Procs, Exit(p) \/ Leave(p) PROVE OwnRegions(q)'
  <2>1. regions' = regions /\ pc[p] = "idle" /\ (life'[q] = "unborn" => life[q] = "unborn")
    BY <1>14 DEF Exit, Leave, Settled, endUnchanged, Types
  <2>2. CASE Exit(p)
    BY <1>13, <2>1, <2>2 DEF Exit
  <2>3. CASE Leave(p)
    <3>1. Regioned(q)' = Regioned(q)
      BY <2>3 DEF Leave, Regioned, Linked
    <3> QED BY <1>1, <2>1, <3>1
  <2> QED BY <1>14, <2>2, <2>3
<1>15. ASSUME NEW p \in Procs, NEW c \in Procs, Exec(p, c) PROVE OwnRegions(q)'
  <2>1. /\ regions' = regions /\ pc[p] = "idle"
        /\ (life'[q] = "unborn" => life[q] = "unborn")
    BY <1>15 DEF Exec, Settled, endUnchanged, Types
  <2>2. CASE TearDown(p, c)
    BY <1>13, <2>1, <2>2
  <2>3. CASE UNCHANGED <<vmas, pt, ref, pc, pending, closer>>
    <3>1. Regioned(q)' = Regioned(q)
      BY <2>3 DEF Regioned, Linked
    <3> QED BY <1>1, <2>1, <3>1
  <2> QED BY <1>15, <2>2, <2>3 DEF Exec
<1>16. ASSUME NEW p \in Procs, NEW c \in Procs, LastMmput(p, c) PROVE OwnRegions(q)'
  <2>1. /\ regions' = regions /\ life[p] = "left" /\ TearDown(p, c)
        /\ (life'[q] = "unborn" => life[q] = "unborn")
    BY <1>16 DEF LastMmput, endUnchanged, Types
  <2>2. pc[p] = "idle"
    BY <2>1 DEF AddressSpaces, AddressSpace, HandlerLife
  <2> QED BY <1>13, <2>1, <2>2
<1>17. ASSUME NEW p \in Procs, UserStep(p) PROVE OwnRegions(q)'
  BY <1>8, <1>9, <1>10, <1>11, <1>12, <1>14, <1>15, <1>16, <1>17 DEF UserStep
<1>18. CASE UNCHANGED vars
  BY <1>2, <1>18 DEF vars
<1> QED BY <1>3, <1>4, <1>5, <1>6, <1>7, <1>17, <1>18 DEF Next

-------------------------------------------------------------------------------
(* Results.                                                                *)

\* Before insmod every address space is empty, no page is in use and nothing is listed.
LEMMA InitMemInv == Init => MemInv
<1> SUFFICES ASSUME Init PROVE MemInv
  OBVIOUS
<1>1. ASSUME NEW p \in Procs
      PROVE  /\ life[p] \in {"unborn", "alive"} /\ pc[p] = "idle" /\ closer[p] = p
             /\ pending[p] = {} /\ held[p] = << >> /\ vmas = {}
             /\ \A a \in Addrs : pt[p][a] = NoPage
  BY DEF Init
<1>2. AddressSpaces
  <2> SUFFICES ASSUME NEW p \in Procs PROVE AddressSpace(p)
    BY DEF AddressSpaces
  <2>1. Linked(p) = {} /\ Mapped(p) = {} /\ OwnVmas(p) = {} /\ Covered(p) = {}
    BY <1>1 DEF Linked, Mapped, OwnVmas, Covered
  <2>2. UnbornEmpty(p) /\ HandlerLife(p) /\ ClosedByOthers(p) /\ SpansInSpace(p)
    BY <1>1, <2>1 DEF UnbornEmpty, HandlerLife, ClosedByOthers, SpansInSpace
  <2>3. PendingShape(p) /\ VmasDisjoint(p) /\ Populated(p)
    BY <1>1, <2>1 DEF PendingShape, Building, VmasDisjoint, Populated
  <2> QED BY <2>2, <2>3 DEF AddressSpace
<1>3. HeldShape
  BY <1>1 DEF HeldShape
<1>4. Tasks
  <2>1. \A p, q \in Procs : life[p] = "alive" /\ life[q] = "alive" => p = q
    BY DEF Init
  <2>2. \A p \in Procs : ~Closing(p) /\ life[p] # "dead"
    BY <1>1 DEF Closing
  <2> QED BY <2>1, <2>2 DEF Tasks, Task
<1>5. regions = {} /\ file_list = {} /\ mapped_count = 0 /\ Uncounted = {}
      /\ \A f \in Files : fstate[f] = "none"
  BY <1>1 DEF Init, Uncounted
<1>6. ListsOpenFiles /\ RegionsHaveVmas /\ CountMatchesRegions
  BY <1>5, FS_EmptySet DEF ListsOpenFiles, CountMatchesRegions, RegionsHaveVmas, OwnRegions
<1>7. PagesAccounted
  <2>1. ASSUME NEW g \in Pages
        PROVE  ref[g] = 0 /\ Entries(g) = {} /\ HeldSlots(g) = {} /\ ListedSlots(g) = {}
    <3>1. \A e \in Procs \X Addrs : pt[e[1]][e[2]] = NoPage
      BY <1>1
    <3>2. Entries(g) = {}
      BY <3>1, MemdevAssumption DEF Entries, MemdevAssumption
    <3>3. \A s \in Procs \X (1 .. MaxLen) : held[s[1]] = << >>
      BY <1>1
    <3>4. HeldSlots(g) = {}
      BY <3>3 DEF HeldSlots
    <3> QED BY <1>5, <3>2, <3>4 DEF Init, ListedSlots
  <2>2. Cardinality({}) = 0
    BY FS_EmptySet
  <2> QED BY <2>1, <2>2 DEF PagesAccounted, DriverRefs
<1> QED BY <1>2, <1>3, <1>4, <1>6, <1>7 DEF MemInv

\* Every step keeps address spaces, tasks, page counts and region lists in order.
LEMMA NextMemInv == IInv /\ MemInv /\ [Next]_vars => MemInv'
<1> SUFFICES ASSUME IInv, MemInv, [Next]_vars PROVE MemInv'
  OBVIOUS
<1>1. /\ Types /\ HeldArrays /\ AddressSpaces /\ HeldShape /\ Tasks
      /\ ListsOpenFiles /\ RegionsHaveVmas
  BY DEF IInv, MemInv
<1>2. Types'
  BY NextIInv DEF IInv
<1>3. AddressSpaces'
  BY <1>1, AddressSpacesPreserved
<1>4. HeldShape'
  BY <1>1, <1>2, HeldShapePreserved
<1>5. Tasks'
  BY <1>1, TasksPreserved
<1>6. ListsOpenFiles'
  BY <1>1, ListsPreserved
<1>7. RegionsHaveVmas'
  BY <1>1, RegionsHaveVmasPreserved
<1>8. ASSUME InitOnAlloc PROVE PagesAccounted' /\ CountMatchesRegions'
  <2>1. PagesAccounted /\ CountMatchesRegions
    BY <1>8 DEF MemInv
  <2>2. PagesAccounted'
    BY <1>1, <1>2, <1>4, <1>8, <2>1, PagesPreserved
  <2>3. CountMatchesRegions'
    BY <1>1, <2>1, CountPreserved
  <2> QED BY <2>2, <2>3
<1> QED BY <1>3, <1>4, <1>5, <1>6, <1>7, <1>8 DEF MemInv

\* Between any two steps of the handlers, the page tables follow the vmas, one process
\* has each pid, and the lists follow the files; on a kernel that clears the page array,
\* the reference counts follow the page tables and the driver's lists.
THEOREM MemdevMemoryInvariant == Spec => []MemInv
BY InitMemInv, NextMemInv, MemdevInvariant, PTL DEF Spec

\* Each of the properties follows from the invariants (MemInvPages to MemInvClose).
LEMMA MemInvPages == InitOnAlloc /\ MemInv => PagesAccounted
BY DEF MemInv

\* free_mapped_region, err_free_pages and the mmap core drop every page reference that
\* was taken, once: in no interleaving of failed mmaps, forks, unmaps, faults, closes,
\* execve and releases is a page freed twice, freed while it is mapped, or leaked; on a
\* kernel that clears the array which memdev_mmap passes to the bulk allocator.
THEOREM MemdevPagesAccounted == ASSUME InitOnAlloc PROVE Spec => []PagesAccounted
<1>1. MemInv => PagesAccounted
  BY MemInvPages
<1> QED BY <1>1, MemdevMemoryInvariant, PTL

LEMMA MemInvVmas == MemInv => VmasPopulated
<1> SUFFICES ASSUME MemInv, NEW p \in Procs, pc[p] \in {"idle", "close"}, NEW a \in Addrs
             PROVE  pt[p][a] # NoPage <=> \E v \in vmas : v.mm = p /\ a \in Span(v)
  BY DEF VmasPopulated
<1>1. Mapped(p) = Covered(p)
  BY DEF MemInv, AddressSpaces, AddressSpace, Populated
<1>2. a \in Mapped(p) <=> pt[p][a] # NoPage
  BY DEF Mapped
<1>3. a \in Covered(p) <=> \E v \in vmas : v.mm = p /\ a \in Span(v)
  BY DEF Covered, Linked
<1> QED BY <1>1, <1>2, <1>3

\* memdev_mmap is all or nothing: outside the handlers that build a mapping or remove
\* one, a process has a page at an address exactly when one of its vmas covers it.
THEOREM MemdevVmasPopulated == Spec => []VmasPopulated
BY MemInvVmas, MemdevMemoryInvariant, PTL

LEMMA MemInvCount == InitOnAlloc /\ MemInv => CountMatchesRegions
BY DEF MemInv

\* mapped_count, incremented outside dev_lock, never drifts from the number of listed
\* regions: it lags by the mmaps that are between their unlock and their atomic_inc.  Two
\* regions are told apart by their pages, which InitOnAlloc keeps distinct.
THEOREM MemdevCountMatchesRegions == ASSUME InitOnAlloc PROVE Spec => []CountMatchesRegions
<1>1. MemInv => CountMatchesRegions
  BY MemInvCount
<1> QED BY <1>1, MemdevMemoryInvariant, PTL

LEMMA MemInvExit == InitOnAlloc /\ IInv /\ MemInv => ExitFindsNothing
<1> SUFFICES ASSUME InitOnAlloc, IInv, MemInv, mod \in {"exit_check", "exit_free"}
             PROVE  mapped_count = 0 /\ file_list = {} /\ regions = {} /\ vmas = {}
  BY DEF ExitFindsNothing
<1>1. \A f \in Files : fstate[f] = "none"
  BY DEF IInv, FilesNeedModule
<1>2. file_list = {} /\ regions = {}
  BY <1>1 DEF MemInv, ListsOpenFiles
<1>3. vmas = {}
  BY <1>1 DEF IInv, ReferencedAreOpen, Types, Vma
<1>4. \A p \in Procs : pending[p] = {}
  BY <1>1 DEF IInv, ReferencedAreOpen, Types, Vma
<1>5. Uncounted = {}
  BY <1>4 DEF IInv, HandlersPinFiles, Uncounted
<1>6. mapped_count = 0
  BY <1>2, <1>5, FS_EmptySet DEF MemInv, CountMatchesRegions
<1> QED BY <1>2, <1>3, <1>6

\* Whenever rmmod gets as far as memdev_exit, its check of mapped_count passes and its
\* loops over file_list and the regions have nothing to free.
THEOREM MemdevExitFindsNothing == ASSUME InitOnAlloc PROVE Spec => []ExitFindsNothing
<1>1. IInv /\ MemInv => ExitFindsNothing
  BY MemInvExit
<1> QED BY <1>1, MemdevInvariant, MemdevMemoryInvariant, PTL

LEMMA MemInvClose ==
  IInv /\ MemInv /\ [Next]_vars =>
    [\A p \in Procs : \A v \in pending[p] \ pending'[p] : \A r \in regions \ regions' :
       /\ pc[p] = "close" /\ Tgid[closer[p]] = Tgid[p]
       /\ \A m \in Procs : Tgid[m] = Tgid[p] => ~Outlived(m)
       => r.file = v.file /\ r.mm = v.mm /\ r.user_va = v.lo]_vars
<1> SUFFICES ASSUME IInv, MemInv, [Next]_vars, NEW p \in Procs,
                    NEW v \in pending[p] \ pending'[p], NEW r \in regions \ regions',
                    pc[p] = "close", Tgid[closer[p]] = Tgid[p], OwnPid(p)
             PROVE  r.file = v.file /\ r.mm = v.mm /\ r.user_va = v.lo
  BY DEF OwnPid
<1>1. Types /\ AddressSpaces /\ Tasks /\ RegionsHaveVmas /\ Closing(p)
  BY DEF IInv, MemInv, Closing
<1>2. memdev_vma_close(p)
  <2>1. ASSUME ModuleStep \/ \E f \in Files : FileStep(f) PROVE FALSE
    <3>1. pending' = pending
      BY <2>1 DEF ModuleStep, Insmod, memdev_init, InitFails, Unregister, Rmmod,
                  ExitCheck, ExitFree, memdevUnchanged, FileStep, memdev_open_get,
                  memdev_open_link, OpenFailed, memdev_release, memdev_release_put,
                  Fput, ExitFiles, CloseFd, fsUnchanged, mmVars
    <3> QED BY <3>1
  <2>2. ASSUME NEW q \in Procs, UserStep(q) PROVE FALSE
    <3>1. regions' = regions
      BY <2>2 DEF UserStep, ChrdevOpen, Close, CloseFd, MmapStart, Munmap, WriteFault, Fork,
                  Exit, Leave, Exec, LastMmput, endUnchanged, fsUnchanged
    <3> QED BY <3>1
  <2>3. ASSUME NEW q \in Procs, HandlerStep(q), q # p PROVE FALSE
    <3>1. pending'[p] = pending[p]
      BY <1>1, <2>3, HandlerOthers
    <3> QED BY <3>1
  <2>4. ASSUME HandlerStep(p), ~memdev_vma_close(p) PROVE FALSE
    BY <2>4 DEF HandlerStep, AllocPages, map_pages_to_vma, RegionFails, ListRegion,
                CountRegion, err_free_pages, MmapUndo, ZapRange
  <2>5. ASSUME UNCHANGED vars PROVE FALSE
    BY <2>5 DEF vars
  <2> QED BY <2>1, <2>2, <2>3, <2>4, <2>5 DEF Next
<1>3. PICK w \in pending[p] :
        /\ IF Matches(Tgid[closer[p]], w.lo) = {}
           THEN UNCHANGED <<regions, ref, mapped_count>>
           ELSE \E s \in Matches(Tgid[closer[p]], w.lo) : free_mapped_region({s})
        /\ pending' = [pending EXCEPT ![p] = @ \ {w}]
  BY <1>2 DEF memdev_vma_close
<1>4. w = v
  BY <1>1, <1>3 DEF Types
<1>5. Matches(Tgid[closer[p]], v.lo) # {}
  BY <1>3, <1>4
<1>6. PICK s \in Matches(Tgid[closer[p]], v.lo) : free_mapped_region({s})
  BY <1>3, <1>4, <1>5
<1>7. s = r
  BY <1>6 DEF free_mapped_region
<1> QED BY <1>1, <1>6, <1>7, OwnRegionFreed

\* memdev_vma_close, run by the process whose mapping goes away, by its exit or by its
\* execve, frees the region of that mapping and no other, although it searches the
\* regions of all files by pid and address only; as long as that pid has not outlived an
\* address space that somebody else held.
THEOREM MemdevCloseFreesOwnRegion == Spec => CloseFreesOwnRegion
BY MemInvClose, MemdevInvariant, MemdevMemoryInvariant, PTL DEF Spec, CloseFreesOwnRegion
===============================================================================
