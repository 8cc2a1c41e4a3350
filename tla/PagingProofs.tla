---------------------------- MODULE PagingProofs ----------------------------
(***************************************************************************)
(* Proofs about Paging, for every size of page, table, directory, memory   *)
(* and TLB and for all programs: mappings stay, the TLB never disagrees    *)
(* with the tables in use but at the kernel's leftovers, the heap is       *)
(* mapped up to the break, no two pages share a frame, the image stays     *)
(* where the loader copied it, and the tables do not run out before the    *)
(* frames do.                                                              *)
(***************************************************************************)
EXTENDS Paging, FiniteSetTheorems, SequenceTheorems, TLAPS

-----------------------------------------------------------------------------
(* Division and sizes *)

LEMMA DivMod ==
  ASSUME NEW n \in Nat \ {0}, NEW a \in Nat
  PROVE  a \div n \in Nat /\ a % n \in 0 .. n - 1 /\ a = n * (a \div n) + (a % n)
  OBVIOUS

LEMMA DivBelow ==
  ASSUME NEW n \in Nat \ {0}, NEW d \in Nat, NEW a \in Nat, a < d * n
  PROVE  a \div n < d
<1>1. a \div n \in Nat /\ a = n * (a \div n) + (a % n) /\ a % n >= 0
  BY DivMod
<1>2. ASSUME a \div n >= d PROVE FALSE
  <2> DEFINE q == a \div n
  <2>1. q \in Nat /\ q >= d /\ a >= n * q
    BY <1>1, <1>2
  <2>2. n * q >= n * d
    <3> HIDE DEF q
    <3> QED BY <2>1
  <2>3. a >= n * d
    <3> HIDE DEF q
    <3> QED BY <2>1, <2>2
  <2> QED BY <2>3
<1> QED BY <1>1, <1>2

LEMMA DivMono ==
  ASSUME NEW n \in Nat \ {0}, NEW a \in Nat, NEW b \in Nat, a <= b
  PROVE  a \div n <= b \div n
<1> DEFINE p == a \div n
           q == b \div n
<1>1. p \in Nat /\ q \in Nat /\ n * p <= a /\ b < n * (q + 1)
  BY DivMod
<1>2. ASSUME p >= q + 1 PROVE FALSE
  <2> HIDE DEF p, q
  <2>1. n * p >= n * (q + 1)
    BY <1>1, <1>2
  <2> QED BY <1>1, <2>1
<1> QED BY <1>1, <1>2

LEMMA PageSplits ==
  ASSUME NEW p \in Pages
  PROVE  /\ p \in Nat
         /\ p \div NR_PTE \in Dirs
         /\ p % NR_PTE \in Indices
         /\ p = NR_PTE * (p \div NR_PTE) + (p % NR_PTE)
<1>1. p \in Nat /\ p < NR_PDE * NR_PTE /\ NR_PTE \in Nat \ {0} /\ NR_PDE \in Nat
  BY MemoryAssumption DEF Pages
<1>2. p \div NR_PTE \in Nat /\ p % NR_PTE \in 0 .. NR_PTE - 1
      /\ p = NR_PTE * (p \div NR_PTE) + (p % NR_PTE)
  BY <1>1, DivMod
<1>3. p \div NR_PTE < NR_PDE
  BY <1>1, DivBelow
<1> QED
  BY <1>1, <1>2, <1>3 DEF Dirs, Indices

(* The pages of the user's half of the address space                       *)
LEMMA UserPage ==
  ASSUME NEW a \in Nat, a < UserTop
  PROVE  /\ PageOf(a) \in Pages
         /\ PageOf(a) < KOFFSET * NR_PTE
<1>1. KOFFSET * NR_PTE \in Nat
  BY MemoryAssumption
<1>2. PageOf(a) \in Nat /\ PageOf(a) < KOFFSET * NR_PTE
  BY <1>1, DivMod, DivBelow, MemoryAssumption DEF PageOf, UserTop
<1>3. KOFFSET * NR_PTE <= NR_PDE * NR_PTE
  <2>1. KOFFSET <= NR_PDE /\ KOFFSET \in Nat /\ NR_PDE \in Nat /\ NR_PTE \in Nat
    BY MemoryAssumption
  <2> QED BY <2>1
<1> QED BY <1>1, <1>2, <1>3, MemoryAssumption DEF Pages

LEMMA StackBaseBounds == StackBase \in Nat /\ StackBase < UserTop /\ UserTop \in Nat
<1> DEFINE half == KOFFSET * NR_PTE
<1>1. half \in Nat /\ STACK_PAGES <= half /\ STACK_PAGES \in Nat \ {0}
      /\ PageSize \in Nat \ {0}
  BY MemoryAssumption
<1>2. UserTop = half * PageSize /\ StackBase = half * PageSize - STACK_PAGES * PageSize
  BY DEF UserTop, StackBase
<1> HIDE DEF half
<1>3. STACK_PAGES * PageSize <= half * PageSize /\ STACK_PAGES * PageSize > 0
      /\ STACK_PAGES * PageSize \in Nat /\ half * PageSize \in Nat
  BY <1>1
<1> QED BY <1>2, <1>3

-----------------------------------------------------------------------------
(* The inductive invariant *)

Entry == Nat \union {None}
SegmentEnd(s) == program[s].vaddr + program[s].memsz - 1
Unmapped(pdir) == {d \in Dirs : pdir[d] = None}

Shape ==
  /\ program \in Programs
  /\ pc \in {"start", "init_mm", "load", "user", "stop"}
  /\ cr3 \in {"off", "kpdir", "updir"}
  /\ kpdir \in PDir
  /\ updir \in PDir
  /\ ptables \in [Tables -> [Indices -> Entry]]
  /\ pt_idx \in Nat
  /\ pf_idx \in Nat
  /\ brk \in Nat
  /\ dests \in Seq(Int) /\ Len(dests) <= Len(program)
  /\ tlb \in [Entries -> [valid : BOOLEAN, vpn : Int, pte : Int]]

(* Which directory is in use is decided by where the kernel is             *)
Phases ==
  /\ pc = "start" <=> cr3 = "off"
  /\ pc \in {"init_mm", "load"} => cr3 = "kpdir"
  /\ pc = "user" => cr3 = "updir"

(* The kernel's directory maps the memory twice, as it is                  *)
MapsTwice(pdir) ==
  \A d \in Dirs : pdir[d] = IF d < KTables THEN KTable(d)
                           ELSE IF d \in KernelDirs THEN KTable(d - KOFFSET)
                           ELSE None
MapsIdentically(tabs) ==
  \A t \in Tables, x \in Indices : t < KTables => tabs[t][x] = t * NR_PTE + x

KernelMap == pc # "start" => MapsTwice(kpdir) /\ MapsIdentically(ptables)

(* The user's directory shares its upper half and, once in use, maps the   *)
(* video memory like the kernel's                                          *)
UserMap ==
  /\ pc \in {"load", "user"} => \A d \in KernelDirs : updir[d] = kpdir[d]
  /\ cr3 = "updir" =>
       /\ \A d \in KernelDirs : updir[d] = kpdir[d]
       /\ \A d \in Dirs : d < NR_PT =>
            /\ updir[d] = VideoTable(d)
            /\ \A x \in Indices : ptables[VideoTable(d)][x] = d * NR_PTE + x

(* The tables of the user's directory are those taken so far, and there    *)
(* are enough of them                                                      *)
TablesTaken ==
  /\ \A d \in Dirs : updir[d] # None => updir[d] < UserTable(pt_idx)
  /\ pt_idx + Cardinality(Unmapped(updir)) <= NR_PDE
  /\ pc \in {"start", "init_mm"} => pt_idx = 0

(* What is in the TLB is in the directory in use, or left by the kernel    *)
TlbRight ==
  \A i \in Entries : tlb[i].valid =>
    LET p == tlb[i].vpn
    IN /\ cr3 = "kpdir" =>
            /\ p \in Pages /\ tlb[i].pte = Walk(kpdir, ptables, p)
            /\ tlb[i].pte # None
            /\ p \in KernelPages \union BootPages \union KernelLeftovers
       /\ cr3 = "updir" =>
            /\ p \in Pages /\ tlb[i].pte # None
            /\ tlb[i].pte = UserWalk(p) \/ p \in KernelLeftovers
       /\ cr3 # "off"

(* The break starts behind the last segment; the heap is mapped up to it   *)
Heap ==
  /\ pc \in {"start", "init_mm", "load"} =>
       brk = IF dests = << >> THEN 0 ELSE SegmentEnd(Len(dests))
  /\ HeapMapped

IInv == Shape /\ Phases /\ KernelMap /\ UserMap /\ TablesTaken /\ TlbRight /\ Heap

-----------------------------------------------------------------------------
(* What mm_malloc leaves of the tables, and what it adds *)

LEMMA SetsFinite ==
  ASSUME NEW pages
  PROVE  /\ IsFiniteSet(Dirs) /\ Cardinality(Dirs) = NR_PDE
         /\ IsFiniteSet(NewDirs(pages)) /\ Cardinality(NewDirs(pages)) \in Nat
         /\ IsFiniteSet(Unmapped(updir)) /\ Cardinality(Unmapped(updir)) \in Nat
<1>1. IsFiniteSet(Dirs) /\ Cardinality(Dirs) = NR_PDE
  <2>1. NR_PDE \in Nat /\ NR_PDE - 1 \in Int
    BY MemoryAssumption
  <2> QED BY <2>1, FS_Interval DEF Dirs
<1>2. NewDirs(pages) \in SUBSET Dirs /\ Unmapped(updir) \in SUBSET Dirs
  BY DEF NewDirs, Unmapped
<1> QED BY <1>1, <1>2, FS_Subset, FS_CardinalityType

(* A directory entry that is not present takes a fresh table, of those     *)
(* there are enough                                                        *)
LEMMA FreshTables ==
  ASSUME Shape, TablesTaken, NEW pages, NEW d \in NewDirs(pages)
  PROVE  /\ WithTables(NewDirs(pages))[d] \in Tables
         /\ WithTables(NewDirs(pages))[d] >= UserTable(pt_idx)
         /\ WithTables(NewDirs(pages))[d] < UserTable(pt_idx + Cardinality(NewDirs(pages)))
<1> DEFINE new == NewDirs(pages)
           before == {e \in new : e < d}
<1>1. /\ IsFiniteSet(new) /\ Cardinality(new) \in Nat
      /\ IsFiniteSet(Unmapped(updir)) /\ Cardinality(Unmapped(updir)) \in Nat
  BY SetsFinite
<1>2. Cardinality(before) \in Nat /\ Cardinality(before) < Cardinality(new)
  <2>1. d \in new /\ d \in Int
    BY DEF NewDirs, Dirs
  <2>2. IsFiniteSet(new \ {d}) /\ Cardinality(new \ {d}) = Cardinality(new) - 1
    BY <1>1, <2>1, FS_RemoveElement
  <2>3. before \in SUBSET (new \ {d})
    BY <2>1
  <2>4. IsFiniteSet(before) /\ Cardinality(before) <= Cardinality(new \ {d})
    BY <2>2, <2>3, FS_Subset
  <2>5. Cardinality(before) \in Nat
    BY <2>4, FS_CardinalityType
  <2> QED BY <1>1, <2>2, <2>4, <2>5
<1>3. Cardinality(new) <= Cardinality(Unmapped(updir))
  <2>1. new \in SUBSET Unmapped(updir)
    BY DEF NewDirs, Unmapped
  <2> QED BY <1>1, <2>1, FS_Subset
<1>4. WithTables(new)[d] = UserTable(pt_idx + Cardinality(before))
  BY DEF WithTables, NewDirs
<1> HIDE DEF before, new
<1>5. /\ pt_idx \in Nat /\ pt_idx + Cardinality(Unmapped(updir)) <= NR_PDE
      /\ KTables \in Nat /\ NR_PT \in Nat /\ NR_PDE \in Nat
  BY MemoryAssumption DEF Shape, TablesTaken
<1>6. /\ WithTables(new)[d] \in Tables
      /\ WithTables(new)[d] >= UserTable(pt_idx)
      /\ WithTables(new)[d] < UserTable(pt_idx + Cardinality(new))
  BY <1>1, <1>2, <1>3, <1>4, <1>5 DEF UserTable, Tables
<1> QED BY <1>6 DEF new

(* The directory after the call: its type, and what it keeps               *)
LEMMA WithTablesTyped ==
  ASSUME Shape, TablesTaken, NEW pages
  PROVE  WithTables(NewDirs(pages)) \in PDir
<1>1. ASSUME NEW d \in Dirs, d \notin NewDirs(pages)
      PROVE  updir[d] \in Tables \union {None}
  BY DEF Shape, PDir
<1>2. ASSUME NEW d \in Dirs
      PROVE  WithTables(NewDirs(pages))[d] \in Tables \union {None}
  <2>1. CASE d \in NewDirs(pages)
    BY <2>1, FreshTables
  <2>2. CASE d \notin NewDirs(pages)
    BY <1>1, <2>2 DEF WithTables
  <2> QED BY <2>1, <2>2
<1>3. WithTables(NewDirs(pages)) = [d \in Dirs |-> WithTables(NewDirs(pages))[d]]
  BY DEF WithTables
<1> QED BY <1>2, <1>3 DEF PDir

LEMMA DirsStay ==
  ASSUME NEW pages, NEW d \in Dirs, updir[d] # None
  PROVE  WithTables(NewDirs(pages))[d] = updir[d]
BY DEF WithTables, NewDirs

LEMMA TablesTakenAfter ==
  ASSUME Shape, TablesTaken, NEW pages
  PROVE  LET new == NewDirs(pages)
             pdir == WithTables(new)
         IN /\ \A d \in Dirs : pdir[d] # None =>
                 pdir[d] < UserTable(pt_idx + Cardinality(new))
            /\ pt_idx + Cardinality(new) + Cardinality(Unmapped(pdir)) <= NR_PDE
<1> DEFINE new == NewDirs(pages)
           pdir == WithTables(new)
<1>1. IsFiniteSet(new) /\ Cardinality(new) \in Nat
      /\ IsFiniteSet(Unmapped(updir)) /\ Cardinality(Unmapped(updir)) \in Nat
  BY SetsFinite
<1>2. /\ pt_idx \in Nat /\ pt_idx + Cardinality(Unmapped(updir)) <= NR_PDE
      /\ KTables \in Nat /\ NR_PT \in Nat /\ NR_PDE \in Nat
  BY MemoryAssumption DEF Shape, TablesTaken
<1>3. ASSUME NEW d \in Dirs, pdir[d] # None
      PROVE  pdir[d] < UserTable(pt_idx + Cardinality(new))
  <2>1. CASE d \in new
    BY <2>1, FreshTables
  <2>2. CASE d \notin new
    <3>1. pdir[d] = updir[d] /\ updir[d] # None
      BY <2>2, <1>3 DEF WithTables
    <3>2. updir[d] < UserTable(pt_idx) /\ updir[d] \in Int
      BY <3>1, MemoryAssumption DEF TablesTaken, Shape, PDir, Tables, None
    <3> HIDE DEF new, pdir
    <3> QED BY <1>1, <1>2, <3>1, <3>2 DEF UserTable
  <2> QED BY <2>1, <2>2
<1>4. Unmapped(pdir) = Unmapped(updir) \ new
  <2>1. \A d \in Dirs : d \in new => pdir[d] # None
    <3> SUFFICES ASSUME NEW d \in Dirs, d \in new PROVE pdir[d] # None
      OBVIOUS
    <3>1. pdir[d] \in Tables
      BY FreshTables
    <3> HIDE DEF new, pdir
    <3> QED BY <3>1, MemoryAssumption DEF Tables, None
  <2>2. \A d \in Dirs : d \notin new => pdir[d] = updir[d]
    BY DEF WithTables
  <2> HIDE DEF new, pdir
  <2> QED BY <2>1, <2>2 DEF Unmapped
<1>5. Unmapped(updir) \cap new = new
  BY DEF NewDirs, Unmapped
<1>6. Cardinality(Unmapped(pdir)) = Cardinality(Unmapped(updir)) - Cardinality(new)
  BY <1>1, <1>4, <1>5, FS_Difference
<1> HIDE DEF new, pdir
<1>7. pt_idx + Cardinality(new) + Cardinality(Unmapped(pdir)) <= NR_PDE
  BY <1>1, <1>2, <1>6
<1> QED BY <1>3, <1>7 DEF new, pdir

LEMMA EntriesStay ==
  ASSUME NEW pages, NEW pdir, NEW tabs, NEW t \in Tables, NEW x \in Indices,
         tabs[t][x] # None
  PROVE  WithFrames(Missing(pages, pdir, tabs), pdir, tabs)[t][x] = tabs[t][x]
<1>1. t # None
  BY MemoryAssumption DEF Tables, None
<1>2. ASSUME NEW p \in PagesAt(Missing(pages, pdir, tabs), pdir, t, x) PROVE FALSE
  BY <1>1, <1>2 DEF PagesAt, Missing, Walk
<1>3. PagesAt(Missing(pages, pdir, tabs), pdir, t, x) = {}
  BY <1>2
<1> QED BY <1>3 DEF WithFrames

LEMMA ClearedKeeps ==
  ASSUME Shape, NEW new, NEW t \in Tables, t < UserTable(pt_idx)
  PROVE  Cleared(new)[t] = ptables[t]
<1>1. \A i \in pt_idx .. pt_idx + Cardinality(new) - 1 : i >= pt_idx /\ i \in Int
  BY DEF Shape
<1>2. \A i \in pt_idx .. pt_idx + Cardinality(new) - 1 : t # UserTable(i)
  BY <1>1, MemoryAssumption DEF UserTable, Shape, Tables
<1> QED BY <1>2 DEF Cleared

LEMMA MallocKeeps ==
  ASSUME Shape, NEW va, NEW len, NEW t \in Tables, t < UserTable(pt_idx),
         NEW x \in Indices, ptables[t][x] # None
  PROVE  mm_malloc(va, len).ptables[t][x] = ptables[t][x]
<1> DEFINE pages == PagesOf(va, len)
           new == NewDirs(pages)
           pdir == WithTables(new)
<1>1. Cleared(new)[t] = ptables[t]
  BY ClearedKeeps
<1>2. mm_malloc(va, len).ptables
        = WithFrames(Missing(pages, pdir, Cleared(new)), pdir, Cleared(new))
  BY DEF mm_malloc
<1>3. Cleared(new)[t][x] # None
  BY <1>1
<1> HIDE DEF pages, new, pdir
<1> QED BY <1>1, <1>2, <1>3, EntriesStay

(* A mapping of the user's directory stays                                 *)
LEMMA WalkStays ==
  ASSUME Shape, TablesTaken, NEW va, NEW len, NEW p \in Pages, UserWalk(p) # None
  PROVE  LET r == mm_malloc(va, len)
         IN Walk(r.updir, r.ptables, p) = UserWalk(p)
<1> DEFINE d == p \div NR_PTE
           x == p % NR_PTE
           t == updir[d]
           r == mm_malloc(va, len)
<1>1. d \in Dirs /\ x \in Indices
  BY PageSplits
<1>2. t # None /\ ptables[t][x] # None /\ UserWalk(p) = ptables[t][x]
  BY DEF UserWalk, Walk
<1>3. t \in Tables /\ t < UserTable(pt_idx)
  BY <1>1, <1>2 DEF Shape, PDir, TablesTaken
<1>4. r.updir = WithTables(NewDirs(PagesOf(va, len)))
  BY DEF mm_malloc
<1>5. r.updir[d] = t
  BY <1>1, <1>2, <1>4, DirsStay
<1>6. r.ptables[t][x] = ptables[t][x]
  BY <1>1, <1>2, <1>3, MallocKeeps
<1> HIDE DEF d, x, t, r
<1>7. Walk(r.updir, r.ptables, p) = UserWalk(p)
  BY <1>2, <1>5, <1>6 DEF Walk, d, x
<1> QED BY <1>7 DEF r

LEMMA PagesFinite ==
  ASSUME NEW va \in Nat, NEW len \in Nat \ {0}
  PROVE  /\ PageOf(va) \in Nat /\ PageOf(va + len - 1) \in Nat
         /\ IsFiniteSet(PagesOf(va, len)) /\ PagesOf(va, len) \in SUBSET Nat
<1>1. PageSize \in Nat \ {0} /\ va + len - 1 \in Nat
  BY MemoryAssumption
<1>2. PageOf(va) \in Nat /\ PageOf(va + len - 1) \in Nat
  BY <1>1, DivMod DEF PageOf
<1>3. IsFiniteSet(PageOf(va) .. PageOf(va + len - 1))
  BY <1>2, FS_Interval
<1> QED BY <1>2, <1>3 DEF PagesOf

LEMMA FrameTyped ==
  ASSUME Shape, NEW missing, IsFiniteSet(missing), NEW p
  PROVE  Frame(missing, p) \in Nat
<1>1. {q \in missing : q < p} \in SUBSET missing
  OBVIOUS
<1>2. Cardinality({q \in missing : q < p}) \in Nat
  BY <1>1, FS_Subset, FS_CardinalityType
<1> QED BY <1>2 DEF Frame, Shape

(* Every page of the range is mapped                                       *)
LEMMA MallocMaps ==
  ASSUME Shape, TablesTaken, NEW va \in Nat, NEW len \in Nat \ {0},
         NEW p \in Pages, p \in PagesOf(va, len)
  PROVE  LET r == mm_malloc(va, len)
         IN Walk(r.updir, r.ptables, p) # None
<1> DEFINE pages == PagesOf(va, len)
           new == NewDirs(pages)
           pdir == WithTables(new)
           missing == Missing(pages, pdir, Cleared(new))
           tabs == WithFrames(missing, pdir, Cleared(new))
           d == p \div NR_PTE
           x == p % NR_PTE
<1>1. d \in Dirs /\ x \in Indices
  BY PageSplits
<1>2. pdir[d] \in Tables
  <2>1. CASE updir[d] = None
    <3>1. d \in new
      BY <1>1, <2>1 DEF NewDirs
    <3> QED BY <3>1, FreshTables
  <2>2. CASE updir[d] # None
    BY <1>1, <2>2, DirsStay DEF Shape, PDir
  <2> QED BY <2>1, <2>2
<1>3. pdir[d] # None
  BY <1>2, MemoryAssumption DEF Tables, None
<1>4. IsFiniteSet(missing)
  <2>1. missing \in SUBSET pages
    BY DEF Missing
  <2> QED BY <2>1, PagesFinite, FS_Subset
<1>5. tabs[pdir[d]][x] # None
  <2>1. CASE PagesAt(missing, pdir, pdir[d], x) = {}
    <3>1. p \notin missing
      BY <2>1 DEF PagesAt
    <3>2. Cleared(new)[pdir[d]][x] # None
      BY <1>3, <3>1 DEF Missing, Walk
    <3>3. tabs[pdir[d]][x] = Cleared(new)[pdir[d]][x]
      BY <1>1, <1>2, <2>1 DEF WithFrames
    <3> QED BY <3>2, <3>3
  <2>2. CASE PagesAt(missing, pdir, pdir[d], x) # {}
    <3> DEFINE q == CHOOSE q \in PagesAt(missing, pdir, pdir[d], x) : TRUE
    <3>1. tabs[pdir[d]][x] = Frame(missing, q)
      BY <1>1, <1>2, <2>2 DEF WithFrames
    <3>2. Frame(missing, q) \in Nat
      BY <1>4, FrameTyped
    <3> QED BY <3>1, <3>2 DEF None
  <2> QED BY <2>1, <2>2
<1>6. mm_malloc(va, len).updir = pdir /\ mm_malloc(va, len).ptables = tabs
  BY DEF mm_malloc
<1> HIDE DEF pdir, tabs, missing, new, pages
<1> QED BY <1>3, <1>5, <1>6 DEF Walk

LEMMA MallocTyped ==
  ASSUME Shape, TablesTaken, NEW va \in Nat, NEW len \in Nat \ {0}
  PROVE  LET r == mm_malloc(va, len)
         IN /\ r.updir \in PDir
            /\ r.ptables \in [Tables -> [Indices -> Entry]]
            /\ r.pt_idx \in Nat
            /\ r.pf_idx \in Nat
            /\ PageOf(va) \in Pages => r.addr \in Int
<1> DEFINE pages == PagesOf(va, len)
           new == NewDirs(pages)
           pdir == WithTables(new)
           missing == Missing(pages, pdir, Cleared(new))
           tabs == WithFrames(missing, pdir, Cleared(new))
           r == mm_malloc(va, len)
<1>1. /\ r.updir = pdir /\ r.ptables = tabs
      /\ r.pt_idx = pt_idx + Cardinality(new) /\ r.pf_idx = pf_idx + Cardinality(missing)
      /\ r.addr = Walk(pdir, tabs, PageOf(va)) * PageSize + (va % PageSize)
  BY DEF mm_malloc
<1>2. pdir \in PDir
  BY WithTablesTyped
<1>3. IsFiniteSet(missing) /\ Cardinality(missing) \in Nat
  <2>1. missing \in SUBSET pages
    BY DEF Missing
  <2> QED BY <2>1, PagesFinite, FS_Subset, FS_CardinalityType
<1>4. tabs \in [Tables -> [Indices -> Entry]]
  <2>1. ASSUME NEW t \in Tables, NEW x \in Indices PROVE Cleared(new)[t][x] \in Entry
    BY DEF Cleared, Shape, Entry
  <2>2. ASSUME NEW p PROVE Frame(missing, p) \in Entry
    BY <1>3, FrameTyped DEF Entry
  <2> HIDE DEF pages, new, pdir, missing
  <2> QED BY <2>1, <2>2 DEF WithFrames
<1>5. pt_idx \in Nat /\ pf_idx \in Nat /\ Cardinality(new) \in Nat
  BY SetsFinite DEF Shape
<1>6. ASSUME PageOf(va) \in Pages PROVE r.addr \in Int
  <2>1. PageOf(va) \div NR_PTE \in Dirs /\ PageOf(va) % NR_PTE \in Indices
    BY <1>6, PageSplits
  <2> HIDE DEF pages, new, pdir, missing, tabs, r
  <2>2. Walk(pdir, tabs, PageOf(va)) \in Int
    BY <1>2, <1>4, <2>1 DEF Walk, PDir, Entry, None
  <2>3. va % PageSize \in Int /\ PageSize \in Int
    BY DivMod, MemoryAssumption
  <2> QED BY <1>1, <2>2, <2>3
<1> HIDE DEF pages, new, pdir, missing, tabs, r
<1>7. /\ r.updir \in PDir
      /\ r.ptables \in [Tables -> [Indices -> Entry]]
      /\ r.pt_idx \in Nat /\ r.pf_idx \in Nat
      /\ PageOf(va) \in Pages => r.addr \in Int
  BY <1>1, <1>2, <1>3, <1>4, <1>5, <1>6
<1> QED BY <1>7 DEF r

-----------------------------------------------------------------------------
(* What a segment, the kernel's map and a stop are worth *)

LEMMA SegmentTyped ==
  ASSUME Shape, NEW s \in 1 .. Len(program)
  PROVE  /\ program[s].vaddr \in Nat /\ program[s].memsz \in Nat \ {0}
         /\ program[s].vaddr + program[s].memsz <= StackBase
         /\ PageOf(program[s].vaddr) \in Pages
         /\ SegmentEnd(s) \in Nat
         /\ \A q \in 1 .. s - 1 : SegmentEnd(q) < SegmentEnd(s)
<1>1. program \in Seq(Segment) /\ Len(program) \in Nat /\ DOMAIN program = 1 .. Len(program)
  BY ProgramsAssumption, LenProperties DEF Shape
<1>2. ASSUME NEW q \in 1 .. Len(program)
      PROVE  program[q].vaddr \in Nat /\ program[q].memsz \in Nat \ {0}
  <2>1. program[q] \in Segment
    BY <1>1, ElementOfSeq
  <2> QED BY <2>1 DEF Segment
<1>3. program[s].vaddr + program[s].memsz <= StackBase
  BY <1>1, ProgramsAssumption DEF Shape
<1>4. program[s].vaddr < UserTop
  BY <1>2, <1>3, StackBaseBounds
<1>5. ASSUME NEW q \in 1 .. s - 1 PROVE SegmentEnd(q) < SegmentEnd(s)
  <2>1. q \in 1 .. Len(program) /\ q < s
    BY <1>1
  <2>2. program[q].vaddr + program[q].memsz <= program[s].vaddr
    BY <1>1, <2>1, ProgramsAssumption DEF Shape
  <2>3. program[q].vaddr \in Nat /\ program[q].memsz \in Nat
        /\ program[s].vaddr \in Nat /\ program[s].memsz \in Nat \ {0}
    BY <1>2, <2>1
  <2>4. \A a, b, c, d \in Nat : a + b <= c /\ d # 0 => a + b - 1 < c + d - 1
    OBVIOUS
  <2>5. program[q].vaddr + program[q].memsz - 1 < program[s].vaddr + program[s].memsz - 1
    BY <2>2, <2>3, <2>4
  <2> QED BY <2>5 DEF SegmentEnd
<1>6. program[s].vaddr \in Nat /\ program[s].memsz \in Nat \ {0}
  BY <1>2
<1>7. SegmentEnd(s) \in Nat
  BY <1>6 DEF SegmentEnd
<1>8. PageOf(program[s].vaddr) \in Pages
  BY <1>4, <1>6, UserPage
<1> QED BY <1>3, <1>5, <1>6, <1>7, <1>8

LEMMA ProgramLength ==
  ASSUME Shape
  PROVE  Len(program) \in Nat \ {0} /\ ImageEnd = SegmentEnd(Len(program))
<1>1. program \in Seq(Segment) /\ program # << >>
  BY ProgramsAssumption DEF Shape
<1>2. Len(program) \in Nat \ {0}
  BY <1>1, EmptySeq, LenProperties
<1> QED BY <1>2 DEF ImageEnd, SegmentEnd

(* The kernel's directory names kernel tables only, whose entries are      *)
(* those of the identity                                                   *)
LEMMA KernelWalk ==
  ASSUME NEW pdir, NEW tabs, MapsTwice(pdir), MapsIdentically(tabs), NEW p \in Pages
  PROVE  LET d == p \div NR_PTE
         IN Walk(pdir, tabs, p) =
              IF d < KTables THEN d * NR_PTE + (p % NR_PTE)
              ELSE IF d \in KernelDirs THEN (d - KOFFSET) * NR_PTE + (p % NR_PTE)
              ELSE None
<1> DEFINE d == p \div NR_PTE
           x == p % NR_PTE
<1>1. d \in Dirs /\ x \in Indices
  BY PageSplits
<1>2. KTables \in Nat /\ KOFFSET \in Nat /\ NR_PT \in Nat /\ NR_PDE \in Nat
  BY MemoryAssumption
<1>3. CASE d < KTables
  <2>1. pdir[d] = d /\ d \in Tables /\ d # None
    BY <1>1, <1>2, <1>3 DEF MapsTwice, KTable, Tables, Dirs, None
  <2>2. tabs[d][x] = d * NR_PTE + x
    BY <1>1, <1>3, <2>1 DEF MapsIdentically
  <2> HIDE DEF d, x
  <2> QED BY <1>3, <2>1, <2>2 DEF Walk, d, x
<1>4. CASE ~(d < KTables) /\ d \in KernelDirs
  <2> DEFINE t == d - KOFFSET
  <2>1. pdir[d] = t /\ t \in Tables /\ t < KTables /\ t # None
    BY <1>1, <1>2, <1>4 DEF MapsTwice, KTable, KernelDirs, Tables, Dirs, None
  <2>2. tabs[t][x] = t * NR_PTE + x
    BY <1>1, <2>1 DEF MapsIdentically
  <2> HIDE DEF d, x
  <2> QED BY <1>4, <2>1, <2>2 DEF Walk, d, x
<1>5. CASE ~(d < KTables) /\ d \notin KernelDirs
  <2>1. pdir[d] = None
    BY <1>1, <1>5 DEF MapsTwice
  <2> HIDE DEF d, x
  <2> QED BY <1>5, <2>1 DEF Walk, d, x
<1> QED BY <1>3, <1>4, <1>5

-----------------------------------------------------------------------------
(* The invariant holds at the start and after a restart *)

LEMMA EmptyTables ==
  /\ NoDir \in PDir
  /\ NoTables \in [Tables -> [Indices -> Entry]]
  /\ Unmapped(NoDir) = Dirs
BY DEF NoDir, NoTables, PDir, Entry, Unmapped

LEMMA EmptyTlbTyped ==
  /\ EmptyTlb \in [Entries -> [valid : BOOLEAN, vpn : Int, pte : Int]]
  /\ \A i \in Entries : ~ EmptyTlb[i].valid
BY DEF EmptyTlb

LEMMA InvInit == Init => IInv
<1> SUFFICES ASSUME Init PROVE IInv
  OBVIOUS
<1> USE DEF Init, mmInit
<1>1. Shape
  <2>1. program \in Seq(Segment)
    BY ProgramsAssumption
  <2>2. Len(program) \in Nat /\ << >> \in Seq(Int) /\ Len(<< >>) = 0
    BY <2>1, LenProperties, EmptySeq
  <2>3. FirstFrame \in Nat
    BY MemoryAssumption
  <2> QED BY <2>2, <2>3, EmptyTables, EmptyTlbTyped DEF Shape
<1>2. Phases
  BY DEF Phases
<1>3. KernelMap
  BY DEF KernelMap
<1>4. UserMap
  BY DEF UserMap
<1>5. TablesTaken
  <2>1. Cardinality(Dirs) = NR_PDE /\ NR_PDE \in Nat
    BY SetsFinite, MemoryAssumption
  <2>2. \A d \in Dirs : updir[d] = None
    BY DEF NoDir
  <2> QED BY <2>1, <2>2, EmptyTables DEF TablesTaken
<1>6. TlbRight
  BY EmptyTlbTyped DEF TlbRight
<1>7. Heap
  BY DEF Heap, HeapMapped
<1> QED BY <1>1, <1>2, <1>3, <1>4, <1>5, <1>6, <1>7 DEF IInv

LEMMA InvRestart == Restart => IInv'
<1> SUFFICES ASSUME Restart PROVE IInv'
  OBVIOUS
<1> USE DEF Restart, mmRestart
<1>1. Shape'
  <2>1. program' \in Seq(Segment)
    BY ProgramsAssumption
  <2>2. Len(program') \in Nat /\ << >> \in Seq(Int) /\ Len(<< >>) = 0
    BY <2>1, LenProperties, EmptySeq
  <2>3. FirstFrame \in Nat
    BY MemoryAssumption
  <2> QED BY <2>2, <2>3, EmptyTables, EmptyTlbTyped DEF Shape
<1>2. Phases'
  BY DEF Phases
<1>3. KernelMap'
  BY DEF KernelMap
<1>4. UserMap'
  BY DEF UserMap
<1>5. TablesTaken'
  <2>1. Cardinality(Dirs) = NR_PDE /\ NR_PDE \in Nat
    BY SetsFinite, MemoryAssumption
  <2>2. \A d \in Dirs : updir'[d] = None
    BY DEF NoDir
  <2> QED BY <2>1, <2>2, EmptyTables DEF TablesTaken
<1>6. TlbRight'
  BY EmptyTlbTyped DEF TlbRight
<1>7. Heap'
  BY DEF Heap, HeapMapped
<1> QED BY <1>1, <1>2, <1>3, <1>4, <1>5, <1>6, <1>7 DEF IInv

-----------------------------------------------------------------------------
(* Every step preserves it *)

(* A failed assertion of mm_malloc                                         *)
LEMMA InvStop ==
  ASSUME IInv, pc \in {"load", "user"}, pc' = "stop",
         UNCHANGED <<program, cr3, kpdir, updir, ptables, pt_idx, pf_idx, brk, dests, tlb>>
  PROVE  IInv'
<1> USE DEF IInv
<1>1. Shape'
  BY DEF Shape
<1>2. Phases'
  BY DEF Phases
<1>3. KernelMap'
  BY DEF KernelMap
<1>4. UserMap'
  BY DEF UserMap
<1>5. TablesTaken'
  BY DEF TablesTaken, Unmapped
<1>6. TlbRight'
  BY DEF TlbRight, Walk, UserWalk, KernelLeftovers, CopyPages
<1>7. Heap'
  BY DEF Heap, HeapMapped
<1> QED BY <1>1, <1>2, <1>3, <1>4, <1>5, <1>6, <1>7

LEMMA InvStutter ==
  ASSUME IInv, UNCHANGED vars
  PROVE  IInv'
<1> USE DEF IInv, vars, mmVars
<1>1. Shape'
  BY DEF Shape
<1>2. Phases' /\ KernelMap' /\ UserMap'
  BY DEF Phases, KernelMap, UserMap
<1>3. TablesTaken'
  BY DEF TablesTaken, Unmapped
<1>4. TlbRight'
  BY DEF TlbRight, Walk, UserWalk, KernelLeftovers, CopyPages
<1>5. Heap'
  BY DEF Heap, HeapMapped, SegmentEnd, ImageEnd, UserWalk, Walk
<1> QED BY <1>1, <1>2, <1>3, <1>4, <1>5

LEMMA InvInitPage ==
  ASSUME IInv, init_page, tlb' = tlb
  PROVE  IInv'
<1> USE DEF IInv, init_page
<1>1. Shape'
  <2>1. kpdir' \in PDir
    <3> USE MemoryAssumption DEF KTable, KernelDirs, Dirs, Tables
    <3>1. \A d \in Dirs : (IF d < KTables THEN KTable(d)
                           ELSE IF d \in KernelDirs THEN KTable(d - KOFFSET) ELSE None)
                          \in Tables \union {None}
      OBVIOUS
    <3> HIDE DEF KTable, KernelDirs, Dirs, Tables
    <3> QED BY <3>1 DEF PDir
  <2>2. ptables' \in [Tables -> [Indices -> Entry]]
    <3>1. ASSUME NEW t \in Tables, NEW x \in Indices
          PROVE  (IF t < KTables THEN t * NR_PTE + x ELSE ptables[t][x]) \in Entry
      <4>1. t \in Nat /\ NR_PTE \in Nat /\ x \in Nat
        BY MemoryAssumption DEF Tables, Indices
      <4>2. t * NR_PTE \in Nat
        BY <4>1
      <4>3. t * NR_PTE + x \in Entry
        BY <4>1, <4>2 DEF Entry
      <4>4. ptables[t][x] \in Entry
        BY DEF Shape
      <4> QED BY <4>3, <4>4
    <3> QED BY <3>1
  <2> QED BY <2>1, <2>2 DEF Shape
<1>2. Phases'
  BY DEF Phases
<1>3. KernelMap'
  BY DEF KernelMap, MapsTwice, MapsIdentically
<1>4. UserMap'
  BY DEF UserMap
<1>5. TablesTaken'
  BY DEF TablesTaken, Unmapped
<1>6. TlbRight'
  BY DEF TlbRight, Phases, Shape
<1>7. Heap'
  BY DEF Heap, HeapMapped, SegmentEnd
<1> QED BY <1>1, <1>2, <1>3, <1>4, <1>5, <1>6, <1>7

LEMMA InvInitMm ==
  ASSUME IInv, init_mm, tlb' = tlb
  PROVE  IInv'
<1> USE DEF IInv, init_mm
<1>1. Shape'
  <2>1. updir' \in PDir
    BY DEF Shape, PDir
  <2> QED BY <2>1 DEF Shape
<1>2. Phases'
  BY DEF Phases
<1>3. KernelMap'
  BY DEF KernelMap
<1>4. UserMap'
  <2>1. \A d \in KernelDirs : d \in Dirs
    BY MemoryAssumption DEF KernelDirs, Dirs
  <2> QED BY <2>1 DEF UserMap, Phases
<1>5. TablesTaken'
  <2>1. pt_idx = 0
    BY DEF TablesTaken
  <2>2. ASSUME NEW d \in Dirs, updir'[d] # None PROVE updir'[d] < UserTable(pt_idx')
    <3>1. d \in KernelDirs /\ updir'[d] = kpdir[d]
      BY <2>2
    <3>2. kpdir[d] \in Tables /\ kpdir[d] < KTables
      <4>1. kpdir[d] = IF d < KTables THEN d ELSE d - KOFFSET
        BY <3>1 DEF KernelMap, MapsTwice, KTable
      <4> QED BY <2>2, <3>1, <4>1, MemoryAssumption DEF KernelDirs, Tables, Dirs
    <3> QED BY <2>1, <3>1, <3>2, MemoryAssumption DEF UserTable, Tables
  <2>3. Cardinality(Unmapped(updir')) <= NR_PDE /\ Cardinality(Unmapped(updir')) \in Nat
    <3>1. Unmapped(updir') \in SUBSET Dirs
      BY DEF Unmapped
    <3> QED BY <3>1, SetsFinite, FS_Subset, FS_CardinalityType
  <2> QED BY <2>1, <2>2, <2>3 DEF TablesTaken
<1>6. TlbRight'
  BY DEF TlbRight, Phases, Shape, Walk, KernelLeftovers, CopyPages
<1>7. Heap'
  BY DEF Heap, HeapMapped, SegmentEnd
<1> QED BY <1>1, <1>2, <1>3, <1>4, <1>5, <1>6, <1>7

LEMMA WalkTyped ==
  ASSUME Shape, NEW pdir \in PDir, NEW p \in Pages
  PROVE  Walk(pdir, ptables, p) \in Entry
<1>1. p \div NR_PTE \in Dirs /\ p % NR_PTE \in Indices
  BY PageSplits
<1> QED BY <1>1 DEF Walk, Shape, PDir, Entry

LEMMA InvTlbFill ==
  ASSUME IInv, NEW p \in Pages, NEW victim \in Entries, TlbFill(p, victim)
  PROVE  IInv'
<1> USE DEF IInv, TlbFill, mmVars
<1> DEFINE entry == [valid |-> TRUE, vpn |-> p, pte |-> page_walk(p)]
<1>1. /\ page_walk(p) \in Int /\ page_walk(p) # None
      /\ p \in Int
      /\ tlb' = [tlb EXCEPT ![victim] = entry]
  <2>1. CurrentDir \in PDir
    BY DEF CurrentDir, Shape
  <2> QED BY <2>1, WalkTyped, PageSplits DEF page_walk, Entry, None
<1>2. Shape'
  <2>1. entry \in [valid : BOOLEAN, vpn : Int, pte : Int]
    BY <1>1
  <2> QED BY <1>1, <2>1 DEF Shape
<1>3. Phases' /\ KernelMap' /\ UserMap'
  BY DEF Phases, KernelMap, UserMap
<1>4. TablesTaken'
  BY DEF TablesTaken, Unmapped
<1>5. TlbRight'
  <2> SUFFICES ASSUME NEW i \in Entries, tlb'[i].valid
               PROVE  LET q == tlb'[i].vpn
                      IN /\ cr3 = "kpdir" =>
                              /\ q \in Pages /\ tlb'[i].pte = Walk(kpdir, ptables, q)
                              /\ tlb'[i].pte # None
                              /\ q \in KernelPages \union BootPages \union KernelLeftovers
                         /\ cr3 = "updir" =>
                              /\ q \in Pages /\ tlb'[i].pte # None
                              /\ tlb'[i].pte = UserWalk(q) \/ q \in KernelLeftovers
                         /\ cr3 # "off"
    BY DEF TlbRight, UserWalk, Walk, KernelLeftovers, CopyPages
  <2>1. CASE i = victim
    <3>1. tlb'[i] = entry
      BY <1>1, <2>1 DEF Shape
    <3>2. CASE cr3 = "kpdir"
      <4>1. page_walk(p) = Walk(kpdir, ptables, p)
        BY <3>2 DEF page_walk, CurrentDir
      <4>2. p \in KernelPages \union BootPages \union KernelLeftovers
        <5>1. pc \in {"init_mm", "load"}
          BY <3>2 DEF Phases, Shape
        <5>2. dests # << >> => Len(dests) \in DOMAIN dests
          BY LenProperties, EmptySeq DEF Shape
        <5> QED BY <5>1, <5>2 DEF Used, KernelLeftovers
      <4> QED BY <1>1, <3>1, <3>2, <4>1, <4>2
    <3>3. CASE cr3 = "updir"
      <4>1. page_walk(p) = UserWalk(p)
        BY <3>3 DEF page_walk, CurrentDir, UserWalk
      <4> QED BY <1>1, <3>1, <3>3, <4>1
    <3> QED BY <3>2, <3>3 DEF Shape
  <2>2. CASE i # victim
    <3>1. tlb'[i] = tlb[i]
      BY <1>1, <2>2 DEF Shape
    <3> QED BY <3>1 DEF TlbRight
  <2> QED BY <2>1, <2>2
<1>6. Heap'
  BY DEF Heap, HeapMapped, SegmentEnd, ImageEnd, UserWalk, Walk
<1> QED BY <1>2, <1>3, <1>4, <1>5, <1>6

(* What the call leaves of the kernel's map                                *)
LEMMA MallocKeepsKernel ==
  ASSUME IInv, pc \in {"load", "user"}, NEW va, NEW len
  PROVE  LET r == mm_malloc(va, len)
         IN /\ MapsIdentically(r.ptables)
            /\ \A d \in KernelDirs : r.updir[d] = kpdir[d] /\ kpdir[d] # None
<1> USE DEF IInv
<1>1. ASSUME NEW t \in Tables, NEW x \in Indices, t < KTables
      PROVE  mm_malloc(va, len).ptables[t][x] = t * NR_PTE + x
  <2>1. ptables[t][x] = t * NR_PTE + x
    BY <1>1 DEF KernelMap, MapsIdentically
  <2>2. ptables[t][x] # None
    <3>1. t \in Nat /\ x \in Nat /\ NR_PTE \in Nat
      BY MemoryAssumption DEF Tables, Indices
    <3>2. t * NR_PTE \in Nat
      BY <3>1
    <3> QED BY <2>1, <3>1, <3>2 DEF None
  <2>3. t < UserTable(pt_idx)
    BY <1>1, MemoryAssumption DEF UserTable, Shape, Tables
  <2> QED BY <2>1, <2>2, <2>3, MallocKeeps
<1>2. ASSUME NEW d \in KernelDirs
      PROVE  mm_malloc(va, len).updir[d] = kpdir[d] /\ kpdir[d] # None
  <2>1. d \in Dirs
    BY MemoryAssumption DEF KernelDirs, Dirs
  <2>2. kpdir[d] # None
    <3>1. kpdir[d] = IF d < KTables THEN d ELSE d - KOFFSET
      BY <2>1 DEF KernelMap, MapsTwice, KTable
    <3> QED BY <2>1, <3>1, MemoryAssumption DEF KernelDirs, Dirs, None
  <2>3. updir[d] = kpdir[d]
    BY DEF UserMap
  <2>4. mm_malloc(va, len).updir = WithTables(NewDirs(PagesOf(va, len)))
    BY DEF mm_malloc
  <2> QED BY <2>1, <2>2, <2>3, <2>4, DirsStay
<1> QED BY <1>1, <1>2 DEF MapsIdentically

LEMMA LeftoversStay ==
  ASSUME Shape, program' = program, NEW a \in Int, dests' = Append(dests, a)
  PROVE  KernelLeftovers \subseteq KernelLeftovers'
<1>1. /\ DOMAIN dests = 1 .. Len(dests) /\ DOMAIN dests' = 1 .. Len(dests) + 1
      /\ Len(dests) \in Nat
      /\ \A s \in 1 .. Len(dests) : dests'[s] = dests[s]
  BY AppendProperties, LenProperties DEF Shape
<1>2. \A s \in DOMAIN dests : s \in DOMAIN dests' /\ (CopyPages(s))' = CopyPages(s)
  BY <1>1 DEF CopyPages
<1> QED BY <1>2 DEF KernelLeftovers

LEMMA InvLoadSegment ==
  ASSUME IInv, LoadSegment, tlb' = tlb
  PROVE  IInv'
<1> DEFINE s == Len(dests) + 1
           va == program[s].vaddr
           len == program[s].memsz
           r == mm_malloc(va, len)
<1> USE DEF IInv
<1>1. /\ pc = "load" /\ Len(dests) < Len(program)
      /\ Allocate(r, "load")
      /\ updir' = IF r.ok THEN r.updir ELSE updir
      /\ dests' = IF r.ok THEN Append(dests, r.addr) ELSE dests
      /\ brk' = IF r.ok /\ brk < SegmentEnd(s) THEN SegmentEnd(s) ELSE brk
      /\ UNCHANGED <<program, cr3, kpdir>>
  BY DEF LoadSegment, SegmentEnd
<1>2. Len(dests) \in Nat /\ s \in 1 .. Len(program)
  BY <1>1, LenProperties, ProgramLength DEF Shape
<1>3. /\ va \in Nat /\ len \in Nat \ {0} /\ PageOf(va) \in Pages
      /\ SegmentEnd(s) \in Nat
      /\ \A q \in 1 .. s - 1 : SegmentEnd(q) < SegmentEnd(s)
  BY <1>2, SegmentTyped
<1>4. CASE ~ r.ok
  BY <1>1, <1>4, InvStop DEF Allocate
<1>5. CASE r.ok
  <2>1. /\ updir' = r.updir /\ ptables' = r.ptables /\ pt_idx' = r.pt_idx
        /\ pf_idx' = r.pf_idx /\ dests' = Append(dests, r.addr) /\ pc' = "load"
        /\ brk' = IF brk < SegmentEnd(s) THEN SegmentEnd(s) ELSE brk
    BY <1>1, <1>5 DEF Allocate
  <2>2. /\ r.updir \in PDir /\ r.ptables \in [Tables -> [Indices -> Entry]]
        /\ r.pt_idx \in Nat /\ r.pf_idx \in Nat /\ r.addr \in Int
    BY <1>3, MallocTyped
  <2>3. dests' \in Seq(Int) /\ Len(dests') = Len(dests) + 1 /\ dests' # << >>
    BY <2>1, <2>2, AppendProperties DEF Shape
  <2>4. /\ MapsIdentically(r.ptables)
        /\ \A d \in KernelDirs : r.updir[d] = kpdir[d] /\ kpdir[d] # None
    BY <1>1, MallocKeepsKernel
  <2>5. TablesTaken'
    <3>1. r.updir = WithTables(NewDirs(PagesOf(va, len)))
          /\ r.pt_idx = pt_idx + Cardinality(NewDirs(PagesOf(va, len)))
      BY DEF mm_malloc
    <3>2. /\ \A d \in Dirs : r.updir[d] # None => r.updir[d] < UserTable(r.pt_idx)
          /\ r.pt_idx + Cardinality(Unmapped(r.updir)) <= NR_PDE
      BY <3>1, TablesTakenAfter
    <3> HIDE DEF r
    <3> QED BY <2>1, <3>2 DEF TablesTaken
  <2> HIDE DEF r, va, len
  <2>6. Shape'
    <3>1. Len(dests') <= Len(program')
      BY <1>1, <1>2, <2>3
    <3>2. brk' \in Nat
      BY <1>3, <2>1 DEF Shape
    <3> QED BY <1>1, <2>1, <2>2, <2>3, <3>1, <3>2 DEF Shape
  <2>7. Phases'
    BY <1>1, <2>1 DEF Phases
  <2>8. KernelMap'
    BY <1>1, <2>1, <2>4 DEF KernelMap
  <2>9. UserMap'
    BY <1>1, <2>1, <2>4 DEF UserMap, Phases
  <2>10. TlbRight'
    <3>1. KernelLeftovers \subseteq KernelLeftovers'
      BY <1>1, <2>1, <2>2, LeftoversStay
    <3>2. cr3 = "kpdir"
      BY <1>1 DEF Phases
    <3>3. ASSUME NEW p \in Pages
          PROVE  Walk(kpdir, ptables', p) = Walk(kpdir, ptables, p)
      <4>1. MapsTwice(kpdir) /\ MapsIdentically(ptables) /\ MapsIdentically(ptables')
        BY <1>1, <2>1, <2>8 DEF KernelMap
      <4> QED BY <4>1, KernelWalk
    <3> QED BY <1>1, <3>1, <3>2, <3>3 DEF TlbRight
  <2>11. Heap'
    <3>1. brk' = SegmentEnd(s)
      <4>1. CASE dests = << >>
        <5>1. brk = 0
          BY <1>1, <4>1 DEF Heap
        <5> HIDE DEF s
        <5> QED BY <1>3, <2>1, <5>1
      <4>2. CASE dests # << >>
        <5>1. brk = SegmentEnd(Len(dests))
          BY <1>1, <4>2 DEF Heap
        <5>2. Len(dests) \in 1 .. s - 1
          BY <1>2, <4>2, EmptySeq DEF Shape
        <5>3. brk < SegmentEnd(s)
          BY <1>3, <5>1, <5>2
        <5> HIDE DEF s
        <5> QED BY <2>1, <5>3
      <4> QED BY <4>1, <4>2
    <3>2. SegmentEnd(Len(dests))' = SegmentEnd(s)
      BY <1>1, <2>3 DEF SegmentEnd
    <3> QED BY <2>1, <2>3, <3>1, <3>2 DEF Heap, HeapMapped
  <2> QED BY <2>5, <2>6, <2>7, <2>8, <2>9, <2>10, <2>11
<1> QED BY <1>4, <1>5

(* The directory the loader leaves                                         *)
LEMMA VideoTyped ==
  ASSUME NEW pdir \in PDir, NEW tabs \in [Tables -> [Indices -> Entry]]
  PROVE  /\ VideoDir(pdir) \in PDir
         /\ VideoTables(tabs) \in [Tables -> [Indices -> Entry]]
<1>1. \A d \in Dirs : d < NR_PT => VideoTable(d) \in Tables
  BY MemoryAssumption DEF Dirs, VideoTable, Tables
<1>2. VideoDir(pdir) \in PDir
  BY <1>1 DEF VideoDir, PDir
<1>3. ASSUME NEW t \in Tables, NEW x \in Indices
      PROVE  VideoTables(tabs)[t][x] \in Entry
  <2>1. CASE \E i \in 0 .. NR_PT - 1 : t = VideoTable(i)
    <3>1. t - KTables \in Nat /\ NR_PTE \in Nat /\ x \in Nat
      BY <2>1, MemoryAssumption DEF VideoTable, Indices
    <3>2. (t - KTables) * NR_PTE \in Nat
      <4> DEFINE k == t - KTables
      <4> HIDE DEF k
      <4>1. k \in Nat => k * NR_PTE \in Nat
        BY <3>1
      <4> QED BY <3>1, <4>1 DEF k
    <3>3. VideoTables(tabs)[t][x] = (t - KTables) * NR_PTE + x
      BY <2>1 DEF VideoTables
    <3> QED BY <3>1, <3>2, <3>3 DEF Entry
  <2>2. CASE ~ \E i \in 0 .. NR_PT - 1 : t = VideoTable(i)
    BY <2>2 DEF VideoTables
  <2> QED BY <2>1, <2>2
<1>4. VideoTables(tabs) = [t \in Tables |-> [x \in Indices |-> VideoTables(tabs)[t][x]]]
  BY DEF VideoTables
<1> QED BY <1>2, <1>3, <1>4

LEMMA VideoKeepsKernel ==
  ASSUME NEW pdir, NEW tabs, MapsIdentically(tabs)
  PROVE  /\ MapsIdentically(VideoTables(tabs))
         /\ \A d \in KernelDirs : VideoDir(pdir)[d] = pdir[d]
         /\ \A d \in Dirs : d < NR_PT =>
              /\ VideoDir(pdir)[d] = VideoTable(d)
              /\ \A x \in Indices : VideoTables(tabs)[VideoTable(d)][x] = d * NR_PTE + x
<1>1. \A t \in Tables : t < KTables => ~ \E i \in 0 .. NR_PT - 1 : t = VideoTable(i)
  BY MemoryAssumption DEF VideoTable, Tables
<1>2. MapsIdentically(VideoTables(tabs))
  BY <1>1 DEF MapsIdentically, VideoTables
<1>3. \A d \in KernelDirs : d \in Dirs /\ ~(d < NR_PT)
  BY MemoryAssumption DEF KernelDirs, Dirs
<1>4. \A d \in KernelDirs : VideoDir(pdir)[d] = pdir[d]
  BY <1>3 DEF VideoDir
<1>5. ASSUME NEW d \in Dirs, d < NR_PT
      PROVE  /\ VideoDir(pdir)[d] = VideoTable(d)
             /\ \A x \in Indices : VideoTables(tabs)[VideoTable(d)][x] = d * NR_PTE + x
  <2>1. VideoTable(d) \in Tables /\ d \in 0 .. NR_PT - 1 /\ VideoTable(d) - KTables = d
    BY <1>5, MemoryAssumption DEF Dirs, VideoTable, Tables
  <2>2. \E i \in 0 .. NR_PT - 1 : VideoTable(d) = VideoTable(i)
    BY <2>1
  <2>3. VideoDir(pdir)[d] = VideoTable(d)
    BY <1>5 DEF VideoDir
  <2> HIDE DEF VideoTable
  <2> QED BY <2>1, <2>2, <2>3 DEF VideoTables
<1> QED BY <1>2, <1>4, <1>5

LEMMA InvFinishLoad ==
  ASSUME IInv, FinishLoad, tlb' = tlb
  PROVE  IInv'
<1> DEFINE va == StackBase
           len == STACK_PAGES * PageSize
           r == mm_malloc(va, len)
<1> USE DEF IInv
<1>1. /\ pc = "load" /\ Len(dests) = Len(program)
      /\ Allocate([r EXCEPT !.ptables = VideoTables(@)], "user")
      /\ updir' = IF r.ok THEN VideoDir(r.updir) ELSE updir
      /\ cr3' = IF r.ok THEN "updir" ELSE cr3
      /\ UNCHANGED <<program, kpdir, brk, dests>>
  BY DEF FinishLoad
<1>2. va \in Nat /\ len \in Nat \ {0}
  <2>1. STACK_PAGES \in Nat \ {0} /\ PageSize \in Nat \ {0}
    BY MemoryAssumption
  <2>2. STACK_PAGES * PageSize \in Nat \ {0}
    BY <2>1
  <2> QED BY <2>2, StackBaseBounds
<1>3. r = [ok |-> r.ok, updir |-> r.updir, ptables |-> r.ptables,
           pt_idx |-> r.pt_idx, pf_idx |-> r.pf_idx, addr |-> r.addr]
  BY DEF mm_malloc
<1>4. CASE ~ r.ok
  <2> HIDE DEF r
  <2>1. ~ [r EXCEPT !.ptables = VideoTables(@)].ok
    BY <1>3, <1>4
  <2>2. pc' = "stop" /\ UNCHANGED <<ptables, pt_idx, pf_idx>>
    BY <1>1, <2>1 DEF Allocate
  <2> QED BY <1>1, <1>4, <2>2, InvStop
<1>5. CASE r.ok
  <2>1. /\ updir' = VideoDir(r.updir) /\ ptables' = VideoTables(r.ptables)
        /\ pt_idx' = r.pt_idx /\ pf_idx' = r.pf_idx /\ pc' = "user" /\ cr3' = "updir"
    <3> HIDE DEF r
    <3>1. /\ [r EXCEPT !.ptables = VideoTables(@)].ok
          /\ [r EXCEPT !.ptables = VideoTables(@)].ptables = VideoTables(r.ptables)
          /\ [r EXCEPT !.ptables = VideoTables(@)].pt_idx = r.pt_idx
          /\ [r EXCEPT !.ptables = VideoTables(@)].pf_idx = r.pf_idx
      BY <1>3, <1>5
    <3> QED BY <1>1, <1>5, <3>1 DEF Allocate
  <2>2. /\ r.updir \in PDir /\ r.ptables \in [Tables -> [Indices -> Entry]]
        /\ r.pt_idx \in Nat /\ r.pf_idx \in Nat
    BY <1>2, MallocTyped
  <2>3. /\ MapsIdentically(r.ptables)
        /\ \A d \in KernelDirs : r.updir[d] = kpdir[d] /\ kpdir[d] # None
    BY <1>1, MallocKeepsKernel
  <2>4. TablesTaken'
    <3>1. r.updir = WithTables(NewDirs(PagesOf(va, len)))
          /\ r.pt_idx = pt_idx + Cardinality(NewDirs(PagesOf(va, len)))
      BY DEF mm_malloc
    <3>2. /\ \A d \in Dirs : r.updir[d] # None => r.updir[d] < UserTable(r.pt_idx)
          /\ r.pt_idx + Cardinality(Unmapped(r.updir)) <= NR_PDE
      BY <3>1, TablesTakenAfter
    <3> HIDE DEF r
    <3>3. \A d \in Dirs : updir'[d] # None => updir'[d] < UserTable(r.pt_idx)
      BY <2>1, <2>2, <3>2, MemoryAssumption DEF VideoDir, VideoTable, UserTable, Dirs
    <3>4. Unmapped(updir') \in SUBSET Unmapped(r.updir)
      BY <2>1, MemoryAssumption DEF Unmapped, VideoDir, VideoTable, Dirs, None
    <3>5. IsFiniteSet(Unmapped(r.updir))
      <4>1. Unmapped(r.updir) \in SUBSET Dirs
        BY DEF Unmapped
      <4> QED BY <4>1, SetsFinite, FS_Subset
    <3>6. /\ Cardinality(Unmapped(updir')) <= Cardinality(Unmapped(r.updir))
          /\ Cardinality(Unmapped(updir')) \in Nat /\ Cardinality(Unmapped(r.updir)) \in Nat
      BY <3>4, <3>5, FS_Subset, FS_CardinalityType
    <3>7. pt_idx' + Cardinality(Unmapped(updir')) <= NR_PDE
      BY <2>1, <2>2, <3>2, <3>6, MemoryAssumption
    <3> QED BY <2>1, <3>3, <3>7 DEF TablesTaken
  <2> HIDE DEF r, va, len
  <2>5. Shape'
    <3>1. updir' \in PDir /\ ptables' \in [Tables -> [Indices -> Entry]]
      BY <2>1, <2>2, VideoTyped
    <3> QED BY <1>1, <2>1, <2>2, <3>1 DEF Shape
  <2>6. Phases'
    BY <2>1 DEF Phases
  <2>7. /\ MapsIdentically(ptables')
        /\ \A d \in KernelDirs : updir'[d] = kpdir[d]
        /\ \A d \in Dirs : d < NR_PT =>
             /\ updir'[d] = VideoTable(d)
             /\ \A x \in Indices : ptables'[VideoTable(d)][x] = d * NR_PTE + x
    BY <2>1, <2>3, VideoKeepsKernel
  <2>8. KernelMap'
    BY <1>1, <2>7 DEF KernelMap
  <2>9. UserMap'
    BY <1>1, <2>7 DEF UserMap
  <2>10. TlbRight'
    <3>1. cr3 = "kpdir" /\ MapsTwice(kpdir) /\ MapsIdentically(ptables)
      BY <1>1 DEF Phases, KernelMap
    <3>2. KernelLeftovers' = KernelLeftovers
      BY <1>1 DEF KernelLeftovers, CopyPages
    <3>3. ASSUME NEW p \in Pages, p \in KernelPages \union BootPages
          PROVE  Walk(updir', ptables', p) = Walk(kpdir, ptables, p)
                 \/ p \in KernelLeftovers
      <4>1. p \div NR_PTE \in Dirs /\ p % NR_PTE \in Indices
        BY PageSplits
      <4>2. CASE p \in KernelPages
        <5>1. updir'[p \div NR_PTE] = kpdir[p \div NR_PTE]
          BY <2>7, <4>2 DEF KernelPages
        <5>2. Walk(updir', ptables', p) = Walk(kpdir, ptables', p)
          BY <5>1 DEF Walk
        <5> QED BY <2>7, <3>1, <5>2, KernelWalk
      <4>3. CASE p \div NR_PTE < NR_PT
        <5> DEFINE d == p \div NR_PTE
        <5>1. VideoTable(d) # None /\ d < KTables
          BY <4>1, <4>3, MemoryAssumption DEF VideoTable, Dirs, None
        <5>2. Walk(updir', ptables', p) = d * NR_PTE + (p % NR_PTE)
          BY <2>7, <4>1, <4>3, <5>1 DEF Walk
        <5> QED BY <3>1, <5>1, <5>2, KernelWalk
      <4>4. CASE p = PHY_PAGES - 1
        BY <4>4 DEF KernelLeftovers
      <4> QED BY <3>3, <4>2, <4>3, <4>4 DEF BootPages
    <3> QED BY <2>1, <3>1, <3>2, <3>3 DEF TlbRight, UserWalk
  <2>11. Heap'
    <3>1. Len(program) \in Nat \ {0} /\ ImageEnd = SegmentEnd(Len(program))
      BY ProgramLength
    <3>2. dests # << >>
      BY <1>1, <3>1, EmptySeq
    <3>3. brk = ImageEnd
      BY <1>1, <3>1, <3>2 DEF Heap
    <3>4. ImageEnd' = ImageEnd /\ brk' = brk /\ brk \in Nat
      BY <1>1 DEF ImageEnd, Shape
    <3> QED BY <2>1, <3>3, <3>4 DEF Heap, HeapMapped
  <2> QED BY <2>4, <2>5, <2>6, <2>8, <2>9, <2>10, <2>11
<1> QED BY <1>4, <1>5

LEMMA InvSbrk ==
  ASSUME IInv, NEW b \in Breaks, sbrk(b), tlb' = tlb
  PROVE  IInv'
<1> DEFINE len == b - brk
           r == mm_malloc(brk, len)
<1> USE DEF IInv
<1>1. pc = "user" /\ b > ImageEnd /\ UNCHANGED <<program, cr3, kpdir, dests>>
  BY DEF sbrk, mm_brk
<1>2. b \in Nat /\ b <= StackBase /\ brk \in Nat /\ ImageEnd \in Nat
  <2>1. Len(program) \in 1 .. Len(program) /\ ImageEnd = SegmentEnd(Len(program))
    BY ProgramLength
  <2> QED BY <2>1, SegmentTyped, BreaksAssumption DEF Shape
<1>3. CASE b > brk /\ ~ r.ok
  <2>1. pc' = "stop" /\ UNCHANGED <<updir, ptables, pt_idx, pf_idx, brk>>
    BY <1>3 DEF sbrk, mm_brk, Allocate
  <2> QED BY <1>1, <2>1, InvStop
<1>4. CASE b > brk /\ r.ok
  <2>1. /\ updir' = r.updir /\ ptables' = r.ptables /\ pt_idx' = r.pt_idx
        /\ pf_idx' = r.pf_idx /\ pc' = "user" /\ brk' = b
    BY <1>4 DEF sbrk, mm_brk, Allocate
  <2>2. len \in Nat \ {0}
    BY <1>2, <1>4
  <2>3. /\ r.updir \in PDir /\ r.ptables \in [Tables -> [Indices -> Entry]]
        /\ r.pt_idx \in Nat /\ r.pf_idx \in Nat
    BY <1>2, <2>2, MallocTyped
  <2>4. /\ MapsIdentically(r.ptables)
        /\ \A d \in KernelDirs : r.updir[d] = kpdir[d] /\ kpdir[d] # None
    BY <1>1, MallocKeepsKernel
  <2>5. \A p \in Pages : UserWalk(p) # None => Walk(r.updir, r.ptables, p) = UserWalk(p)
    BY WalkStays
  <2>6. TablesTaken'
    <3>1. r.updir = WithTables(NewDirs(PagesOf(brk, len)))
          /\ r.pt_idx = pt_idx + Cardinality(NewDirs(PagesOf(brk, len)))
      BY DEF mm_malloc
    <3>2. /\ \A d \in Dirs : r.updir[d] # None => r.updir[d] < UserTable(r.pt_idx)
          /\ r.pt_idx + Cardinality(Unmapped(r.updir)) <= NR_PDE
      BY <3>1, TablesTakenAfter
    <3> HIDE DEF r
    <3> QED BY <2>1, <3>2 DEF TablesTaken
  <2>7. \A d \in Dirs : d < NR_PT =>
          /\ r.updir[d] = VideoTable(d)
          /\ \A x \in Indices : r.ptables[VideoTable(d)][x] = d * NR_PTE + x
    <3> SUFFICES ASSUME NEW d \in Dirs, d < NR_PT
                 PROVE  /\ r.updir[d] = VideoTable(d)
                        /\ \A x \in Indices : r.ptables[VideoTable(d)][x] = d * NR_PTE + x
      OBVIOUS
    <3>1. updir[d] = VideoTable(d)
          /\ \A x \in Indices : ptables[VideoTable(d)][x] = d * NR_PTE + x
      BY <1>1 DEF UserMap, Phases
    <3>2. VideoTable(d) \in Tables /\ VideoTable(d) # None /\ VideoTable(d) < UserTable(pt_idx)
      BY MemoryAssumption DEF VideoTable, Dirs, Tables, None, UserTable, Shape
    <3>3. \A x \in Indices : d * NR_PTE + x # None
      <4>1. d \in Nat /\ NR_PTE \in Nat
        BY MemoryAssumption DEF Dirs
      <4>2. d * NR_PTE \in Nat
        BY <4>1
      <4> QED BY <4>2 DEF Indices, None
    <3>4. r.updir = WithTables(NewDirs(PagesOf(brk, len)))
      BY DEF mm_malloc
    <3>5. r.updir[d] = VideoTable(d)
      BY <3>1, <3>2, <3>4, DirsStay
    <3>6. \A x \in Indices : r.ptables[VideoTable(d)][x] = ptables[VideoTable(d)][x]
      BY <3>1, <3>2, <3>3, MallocKeeps
    <3> QED BY <3>1, <3>5, <3>6
  <2>8. Heap'
    <3> SUFFICES ASSUME NEW a \in ImageEnd .. b - 1
                 PROVE  Walk(r.updir, r.ptables, PageOf(a)) # None
      <4>1. ImageEnd' = ImageEnd
        BY <1>1 DEF ImageEnd
      <4> HIDE DEF r
      <4> QED BY <2>1, <4>1 DEF Heap, HeapMapped, UserWalk
    <3>1. a \in Nat /\ a < UserTop /\ PageOf(a) \in Pages
      BY <1>2, StackBaseBounds, UserPage
    <3>2. CASE a < brk
      <4>1. UserWalk(PageOf(a)) # None
        BY <1>1, <1>2, <3>1, <3>2 DEF Heap, HeapMapped
      <4> QED BY <2>5, <3>1, <4>1
    <3>3. CASE a >= brk
      <4>1. brk + len - 1 = b - 1
        BY <1>2
      <4>2. PageOf(brk) <= PageOf(a) /\ PageOf(a) <= PageOf(b - 1)
        BY <1>2, <1>4, <3>1, <3>3, DivMono, MemoryAssumption DEF PageOf
      <4>3. PageOf(a) \in PageOf(brk) .. PageOf(brk + len - 1)
        <5>1. b - 1 \in Nat
          BY <1>2, <1>4
        <5>2. PageOf(a) \in Nat /\ PageOf(brk) \in Nat /\ PageOf(b - 1) \in Nat
          BY <1>2, <3>1, <5>1, DivMod, MemoryAssumption DEF PageOf
        <5> QED BY <4>1, <4>2, <5>2
      <4>4. PageOf(a) \in PagesOf(brk, len)
        BY <4>3 DEF PagesOf
      <4> QED BY <1>2, <2>2, <3>1, <4>4, MallocMaps
    <3> QED BY <1>2, <3>1, <3>2, <3>3
  <2> HIDE DEF r, len
  <2>9. Shape'
    BY <1>1, <1>2, <2>1, <2>3 DEF Shape
  <2>10. Phases'
    BY <1>1, <2>1 DEF Phases
  <2>11. KernelMap'
    BY <1>1, <2>1, <2>4 DEF KernelMap
  <2>12. UserMap'
    BY <1>1, <2>1, <2>4, <2>7 DEF UserMap
  <2>13. TlbRight'
    <3>1. cr3 = "updir"
      BY <1>1 DEF Phases
    <3>2. KernelLeftovers' = KernelLeftovers
      BY <1>1 DEF KernelLeftovers, CopyPages
    <3> QED BY <1>1, <2>1, <2>5, <3>1, <3>2 DEF TlbRight, UserWalk
  <2> QED BY <2>6, <2>8, <2>9, <2>10, <2>11, <2>12, <2>13
<1>5. CASE ~(b > brk)
  <2>1. brk' = b /\ UNCHANGED <<pc, updir, ptables, pt_idx, pf_idx>>
    BY <1>5 DEF sbrk, mm_brk
  <2>2. Shape' /\ Phases' /\ KernelMap' /\ UserMap'
    BY <1>1, <1>2, <2>1 DEF Shape, Phases, KernelMap, UserMap
  <2>3. TablesTaken'
    BY <2>1 DEF TablesTaken, Unmapped
  <2>4. TlbRight'
    BY <1>1, <2>1 DEF TlbRight, Walk, UserWalk, KernelLeftovers, CopyPages
  <2>5. Heap'
    <3>1. ImageEnd' = ImageEnd /\ \A a \in ImageEnd .. b - 1 : a \in ImageEnd .. brk - 1
      BY <1>1, <1>2, <1>5 DEF ImageEnd
    <3> QED BY <1>1, <2>1, <3>1 DEF Heap, HeapMapped, UserWalk, Walk
  <2> QED BY <2>2, <2>3, <2>4, <2>5
<1> QED BY <1>3, <1>4, <1>5

LEMMA InvNext == IInv /\ [Next]_vars => IInv'
<1> SUFFICES ASSUME IInv, [Next]_vars PROVE IInv'
  OBVIOUS
<1>1. CASE init_page /\ tlb' = tlb
  BY <1>1, InvInitPage
<1>2. CASE init_mm /\ tlb' = tlb
  BY <1>2, InvInitMm
<1>3. CASE LoadSegment /\ tlb' = tlb
  BY <1>3, InvLoadSegment
<1>4. CASE FinishLoad /\ tlb' = tlb
  BY <1>4, InvFinishLoad
<1>5. ASSUME NEW b \in Breaks, sbrk(b), tlb' = tlb PROVE IInv'
  BY <1>5, InvSbrk
<1>6. ASSUME NEW p \in Pages, NEW victim \in Entries, TlbFill(p, victim) PROVE IInv'
  BY <1>6, InvTlbFill
<1>7. CASE Restart
  BY <1>7, InvRestart
<1>8. CASE UNCHANGED vars
  BY <1>8, InvStutter
<1> QED BY <1>1, <1>2, <1>3, <1>4, <1>5, <1>6, <1>7, <1>8 DEF Next, Kernel

-----------------------------------------------------------------------------
(* The theorems *)

(* The inductive invariant: the types of page tables, cursors and TLB      *)
(* entries, the kernel's double map, and what the TLB may hold.            *)
THEOREM PagingInvariant == Spec => []IInv
<1>1. Init => IInv
  BY InvInit
<1>2. IInv /\ [Next]_vars => IInv'
  BY InvNext
<1> QED BY <1>1, <1>2, PTL DEF Spec

(* Without a single flush between two restarts the TLB returns what a walk *)
(* of the current tables returns, the kernel's leftovers apart: what tlb.c *)
(* and the kernel rely on when cr3 is written and mm_malloc adds entries.  *)
THEOREM TranslationIsRight == Spec => []TranslationRight
<1>1. IInv => TranslationRight
  <2> SUFFICES ASSUME IInv, cr3 # "off", NEW p \in Pages
               PROVE  Translation(p) = page_walk(p)
                      \/ (cr3 = "updir" /\ p \in KernelLeftovers)
    BY DEF TranslationRight
  <2>1. CASE tlb_query(p) = {}
    BY <2>1 DEF Translation
  <2>2. CASE tlb_query(p) # {}
    <3>1. PICK i \in tlb_query(p) : Translation(p) = tlb[i].pte
      BY <2>2 DEF Translation
    <3>2. i \in Entries /\ tlb[i].valid /\ tlb[i].vpn = p
      BY DEF tlb_query
    <3>3. cr3 \in {"kpdir", "updir"}
      BY DEF IInv, Shape
    <3> QED BY <3>1, <3>2, <3>3 DEF IInv, TlbRight, page_walk, CurrentDir, UserWalk
  <2> QED BY <2>1, <2>2
<1> QED BY <1>1, PagingInvariant, PTL

(* sbrk of the program leaves no unmapped byte between the end of the      *)
(* image and the break, whatever sequence of breaks it asks for.           *)
THEOREM HeapIsMapped == Spec => []HeapMapped
<1>1. IInv => HeapMapped
  BY DEF IInv, Heap
<1> QED BY <1>1, PagingInvariant, PTL

(* No step but a restart takes back or moves a mapping of the directory in *)
(* use: mm_malloc skips what is present, and the loader writes the video   *)
(* tables before it switches cr3.                                          *)
THEOREM MappingsAreStable == Spec => MappingsStay
<1> DEFINE Stays == \A p \in Pages :
             page_walk(p) # None => Walk(CurrentDir, ptables, p)' = page_walk(p)
<1>1. ASSUME IInv, [Next]_vars, pc' # "start", cr3' = cr3, cr3 # "off"
      PROVE  Stays
  <2>1. IInv'
    BY <1>1, InvNext
  <2>2. CASE cr3 = "kpdir"
    <3>1. pc # "start"
      BY <1>1, <2>2 DEF IInv, Phases
    <3>2. /\ MapsTwice(kpdir) /\ MapsIdentically(ptables)
          /\ MapsTwice(kpdir') /\ MapsIdentically(ptables')
      BY <1>1, <2>1, <3>1 DEF IInv, KernelMap, MapsTwice, MapsIdentically
    <3>3. \A p \in Pages : Walk(kpdir', ptables', p) = Walk(kpdir, ptables, p)
      BY <3>2, KernelWalk
    <3> QED BY <1>1, <2>2, <3>3 DEF page_walk, CurrentDir, Walk
  <2>3. CASE cr3 = "updir"
    <3>1. pc \notin {"start", "init_mm", "load"}
      BY <1>1, <2>3 DEF IInv, Phases
    <3>2. ASSUME NEW b \in Breaks, sbrk(b)
          PROVE  \A p \in Pages : UserWalk(p) # None => Walk(updir', ptables', p) = UserWalk(p)
      <4> DEFINE r == mm_malloc(brk, b - brk)
      <4>1. CASE updir' = r.updir /\ ptables' = r.ptables
        <5>1. \A p \in Pages : UserWalk(p) # None => Walk(r.updir, r.ptables, p) = UserWalk(p)
          BY <1>1, WalkStays DEF IInv
        <5> HIDE DEF r
        <5> QED BY <4>1, <5>1
      <4>2. CASE updir' = updir /\ ptables' = ptables
        BY <4>2 DEF UserWalk
      <4> HIDE DEF r
      <4>3. (updir' = r.updir /\ ptables' = r.ptables) \/ (updir' = updir /\ ptables' = ptables)
        BY <3>2 DEF sbrk, mm_brk, Allocate, r
      <4> QED BY <4>1, <4>2, <4>3
    <3>3. ASSUME updir' = updir, ptables' = ptables
          PROVE  \A p \in Pages : UserWalk(p) # None => Walk(updir', ptables', p) = UserWalk(p)
      BY <3>3 DEF UserWalk
    <3>4. (\E b \in Breaks : sbrk(b)) \/ (updir' = updir /\ ptables' = ptables)
      <4>1. ~ init_page /\ ~ init_mm /\ ~ LoadSegment /\ ~ FinishLoad
        BY <3>1 DEF init_page, init_mm, LoadSegment, FinishLoad
      <4>2. ~ Restart
        BY <1>1 DEF Restart, mmRestart
      <4>3. (\E p \in Pages, victim \in Entries : TlbFill(p, victim))
              => updir' = updir /\ ptables' = ptables
        BY DEF TlbFill, mmVars
      <4>4. UNCHANGED vars => updir' = updir /\ ptables' = ptables
        BY DEF vars, mmVars
      <4> QED BY <1>1, <4>1, <4>2, <4>3, <4>4 DEF Next, Kernel
    <3>5. \A p \in Pages : UserWalk(p) # None => Walk(updir', ptables', p) = UserWalk(p)
      BY <3>2, <3>3, <3>4
    <3>6. CurrentDir = updir /\ CurrentDir' = updir'
      BY <1>1, <2>3 DEF CurrentDir
    <3>7. \A p \in Pages : /\ page_walk(p) = UserWalk(p)
                           /\ Walk(CurrentDir, ptables, p)' = Walk(updir', ptables', p)
      BY <3>6 DEF page_walk, UserWalk, Walk
    <3> QED BY <3>5, <3>7
  <2> QED BY <1>1, <2>2, <2>3 DEF IInv, Shape
<1>2. IInv /\ [Next]_vars =>
        [pc' # "start" /\ cr3' = cr3 /\ cr3 # "off" => Stays]_vars
  BY <1>1
<1> QED BY <1>2, PagingInvariant, PTL DEF Spec, MappingsStay
-----------------------------------------------------------------------------
(* Where the frames are: a second invariant, on top of the first           *)

UserDirs == NR_PT .. KOFFSET - 1
UserPages == {p \in Pages : p \div NR_PTE \in UserDirs}
FirstPage(s) == PageOf(program[s].vaddr)
LastPage(s) == PageOf(SegmentEnd(s))
SegmentPages(s) == PagesOf(program[s].vaddr, program[s].memsz)

(* No two directory entries of the user name the same table                *)
OwnTables(pdir) ==
  \A d \in UserDirs : pdir[d] # None =>
    /\ pdir[d] >= UserTable(0)
    /\ \A e \in UserDirs : pdir[e] = pdir[d] => e = d

(* Frames are handed out once, and pf_idx is behind them                   *)
FramesTaken ==
  \A p \in UserPages : UserWalk(p) # None =>
    /\ UserWalk(p) < pf_idx
    /\ \A q \in UserPages : UserWalk(q) = UserWalk(p) => q = p

(* Tables taken so far and the frames in them: all entries of a table are  *)
(* used, but for those above the highest page h in its table and slack     *)
Covers(tables, next, h, slack) ==
  tables * NR_PTE + (h % NR_PTE) <= (next - FirstFrame) + slack
SegmentSlack(m) == m * (2 * (NR_PTE - 1))
StackSlack == (KOFFSET * NR_PTE - STACK_PAGES) % NR_PTE

(* While segments are loaded, the page the last one ends in is the highest *)
(* one, with the frame before pf_idx                                       *)
Loading ==
  /\ pc \in {"start", "init_mm"} => dests = << >> /\ \A d \in Dirs : updir[d] = None
  /\ pc = "load" =>
       /\ dests = << >> => pt_idx = 0 /\ \A p \in UserPages : UserWalk(p) = None
       /\ dests # << >> =>
            /\ UserWalk(LastPage(Len(dests))) = pf_idx - 1
            /\ \A p \in UserPages : UserWalk(p) # None => p <= LastPage(Len(dests))
            /\ Covers(pt_idx, pf_idx, LastPage(Len(dests)), SegmentSlack(Len(dests)))

(* The frames of a segment follow each other                               *)
ImageMapped ==
  \A s \in 1 .. Len(dests) :
    /\ dests[s] = UserWalk(FirstPage(s)) * PageSize + (program[s].vaddr % PageSize)
    /\ \A p \in SegmentPages(s) :
         UserWalk(p) # None /\ UserWalk(p) = UserWalk(FirstPage(s)) + (p - FirstPage(s))

(* The heap occupies the pages from the image's last one to h              *)
HeapUpTo(h) ==
  /\ h \in PageOf(ImageEnd) .. PageOf(StackBase) - 1
  /\ \A p \in PageOf(ImageEnd) .. PageOf(StackBase) - 1 : UserWalk(p) # None <=> p <= h
  /\ h # PageOf(ImageEnd) => UserWalk(h) = pf_idx - 1
HeapGrows ==
  pc = "user" =>
    /\ brk >= ImageEnd
    /\ \E h \in Nat :
         /\ HeapUpTo(h)
         /\ Covers(pt_idx, pf_idx, h, SegmentSlack(Len(program)) + StackSlack)

(* The tables stay in proportion to the frames                             *)
TablesFilled ==
  /\ pf_idx >= FirstFrame
  /\ Covers(pt_idx, pf_idx, 0, SegmentSlack(Len(program)) + StackSlack)

FInv ==
  /\ OwnTables(updir) /\ FramesTaken /\ Loading /\ ImageMapped /\ HeapGrows
  /\ FramesFollow /\ TablesFilled

(* A call has taken the frames from pf_idx on for the pages lo to hi       *)
Grown(lo, hi) ==
  /\ lo \in Nat /\ hi \in Int /\ hi >= lo - 1
  /\ \A p \in lo .. hi : p \in UserPages /\ UserWalk(p) = None
  /\ pf_idx' = pf_idx + (hi - lo + 1)
  /\ \A p \in UserPages :
       UserWalk(p)' = IF p \in lo .. hi THEN pf_idx + (p - lo) ELSE UserWalk(p)

-----------------------------------------------------------------------------
(* Pages of the user, the stack and the segments *)

LEMMA DivTimes ==
  ASSUME NEW n \in Nat \ {0}, NEW k \in Nat
  PROVE  (k * n) \div n = k
<1> DEFINE q == (k * n) \div n
<1>1. k * n \in Nat /\ k * n < (k + 1) * n
  OBVIOUS
<1>2. q \in Nat /\ q < k + 1 /\ k * n < n * (q + 1)
  <2>1. q < k + 1
    BY <1>1, DivBelow
  <2>2. q \in Nat /\ (k * n) % n \in 0 .. n - 1 /\ k * n = n * q + ((k * n) % n)
    BY <1>1, DivMod
  <2> HIDE DEF q
  <2>3. n * q + n = n * (q + 1)
    BY <2>2
  <2> QED BY <1>1, <2>1, <2>2, <2>3
<1> HIDE DEF q
<1>3. ASSUME q + 1 <= k PROVE FALSE
  <2>1. n * (q + 1) <= n * k
    BY <1>2, <1>3
  <2> QED BY <1>2, <2>1
<1> QED BY <1>2, <1>3 DEF q

LEMMA DivNext ==
  ASSUME NEW n \in Nat \ {0}, NEW a \in Nat
  PROVE  (a + 1) \div n <= a \div n + 1
<1> DEFINE q == a \div n
<1>1. q \in Nat /\ a < n * (q + 1)
  <2>1. q \in Nat /\ a % n \in 0 .. n - 1 /\ a = n * q + (a % n)
    BY DivMod
  <2> HIDE DEF q
  <2>2. n * q + n = n * (q + 1)
    BY <2>1
  <2> QED BY <2>1, <2>2
<1> HIDE DEF q
<1>2. n * (q + 1) + n = (q + 2) * n
  BY <1>1
<1>3. a + 1 < (q + 2) * n /\ q + 2 \in Nat /\ a + 1 \in Nat
  BY <1>1, <1>2
<1>4. (a + 1) \div n < q + 2 /\ (a + 1) \div n \in Nat
  BY <1>3, DivBelow, DivMod
<1> QED BY <1>1, <1>4 DEF q

LEMMA UserInterval ==
  /\ UserPages = NR_PT * NR_PTE .. KOFFSET * NR_PTE - 1
  /\ NR_PT * NR_PTE \in Nat /\ KOFFSET * NR_PTE \in Nat
<1>1. /\ NR_PT \in Nat /\ NR_PTE \in Nat \ {0} /\ KOFFSET \in Nat /\ NR_PDE \in Nat
      /\ KOFFSET <= NR_PDE
  BY MemoryAssumption
<1>2. NR_PT * NR_PTE \in Nat /\ KOFFSET * NR_PTE \in Nat /\ NR_PDE * NR_PTE \in Nat
      /\ KOFFSET * NR_PTE <= NR_PDE * NR_PTE
  BY <1>1
<1>3. ASSUME NEW p \in UserPages PROVE p \in NR_PT * NR_PTE .. KOFFSET * NR_PTE - 1
  <2> DEFINE d == p \div NR_PTE
  <2>1. p \in Pages /\ d \in NR_PT .. KOFFSET - 1
    BY DEF UserPages, UserDirs
  <2>2. p \in Nat /\ p % NR_PTE \in 0 .. NR_PTE - 1 /\ p = NR_PTE * d + (p % NR_PTE)
    BY <2>1, PageSplits DEF Indices
  <2> HIDE DEF d
  <2>3. NR_PT * NR_PTE <= NR_PTE * d
    BY <1>1, <2>1
  <2>4. NR_PTE * d + NR_PTE <= KOFFSET * NR_PTE
    <3>1. NR_PTE * (d + 1) <= NR_PTE * KOFFSET
      BY <1>1, <2>1
    <3>2. NR_PTE * (d + 1) = NR_PTE * d + NR_PTE
      BY <1>1, <2>1
    <3> QED BY <1>1, <2>1, <3>1, <3>2
  <2>5. NR_PTE * d \in Nat
    BY <1>1, <2>1
  <2> QED BY <1>1, <1>2, <2>2, <2>3, <2>4, <2>5
<1>4. ASSUME NEW p \in NR_PT * NR_PTE .. KOFFSET * NR_PTE - 1 PROVE p \in UserPages
  <2>1. p \in Nat /\ p \in Pages
    BY <1>1, <1>2 DEF Pages
  <2>2. p \div NR_PTE < KOFFSET
    BY <1>1, <1>2, <2>1, DivBelow
  <2>3. NR_PT <= p \div NR_PTE
    <3>1. (NR_PT * NR_PTE) \div NR_PTE = NR_PT
      BY <1>1, DivTimes
    <3> QED BY <1>1, <1>2, <2>1, <3>1, DivMono
  <2>4. p \div NR_PTE \in Nat
    BY <1>1, <2>1, DivMod
  <2> QED BY <1>1, <2>1, <2>2, <2>3, <2>4 DEF UserPages, UserDirs
<1> QED BY <1>2, <1>3, <1>4

LEMMA StackPage ==
  /\ PageOf(StackBase) \in Nat
  /\ PageOf(StackBase) = KOFFSET * NR_PTE - STACK_PAGES
  /\ StackBase = PageOf(StackBase) * PageSize
  /\ \A a \in Nat : a < StackBase => PageOf(a) < PageOf(StackBase)
<1> DEFINE n == KOFFSET * NR_PTE - STACK_PAGES
           half == KOFFSET * NR_PTE
<1>1. half \in Nat /\ n \in Nat /\ PageSize \in Nat \ {0} /\ STACK_PAGES \in Nat
  BY MemoryAssumption
<1>2. StackBase = half * PageSize - STACK_PAGES * PageSize
  BY DEF StackBase, UserTop
<1>3. n = half - STACK_PAGES
  OBVIOUS
<1> HIDE DEF n, half
<1>4. StackBase = n * PageSize
  BY <1>1, <1>2, <1>3
<1>5. PageOf(StackBase) = n
  BY <1>1, <1>4, DivTimes DEF PageOf
<1>6. \A a \in Nat : a < StackBase => PageOf(a) < n
  BY <1>1, <1>4, DivBelow DEF PageOf
<1> QED BY <1>1, <1>4, <1>5, <1>6 DEF n

LEMMA SegmentsPages ==
  ASSUME Shape, NEW s \in 1 .. Len(program)
  PROVE  /\ FirstPage(s) \in Nat /\ LastPage(s) \in Nat
         /\ FirstPage(s) <= LastPage(s) /\ LastPage(s) < PageOf(StackBase)
         /\ SegmentPages(s) = FirstPage(s) .. LastPage(s)
         /\ \A p \in SegmentPages(s) : p \in UserPages
         /\ \A q \in 1 .. s - 1 : LastPage(q) <= FirstPage(s)
<1> DEFINE va == program[s].vaddr
<1>1. /\ va \in Nat /\ program[s].memsz \in Nat \ {0}
      /\ SegmentEnd(s) \in Nat /\ va <= SegmentEnd(s) /\ SegmentEnd(s) < StackBase
      /\ SegmentEnd(s) = va + program[s].memsz - 1
  BY SegmentTyped, StackBaseBounds DEF SegmentEnd
<1>2. va >= NR_PT * NR_PTE * PageSize
  <2>1. program \in Programs /\ DOMAIN program = 1 .. Len(program)
    BY ProgramsAssumption, LenProperties DEF Shape
  <2> QED BY <2>1, ProgramsAssumption
<1>3. /\ FirstPage(s) \in Nat /\ LastPage(s) \in Nat
      /\ FirstPage(s) <= LastPage(s) /\ LastPage(s) < PageOf(StackBase)
  BY <1>1, DivMod, DivMono, StackPage, MemoryAssumption DEF FirstPage, LastPage, PageOf
<1>4. SegmentPages(s) = FirstPage(s) .. LastPage(s)
  BY <1>1 DEF SegmentPages, FirstPage, LastPage, PagesOf
<1>5. NR_PT * NR_PTE <= FirstPage(s)
  <2> DEFINE n == NR_PT * NR_PTE
  <2>1. n \in Nat /\ PageSize \in Nat \ {0}
    BY MemoryAssumption
  <2>2. n * PageSize \in Nat /\ n * PageSize <= va
    BY <1>2, <2>1
  <2> HIDE DEF n
  <2>3. (n * PageSize) \div PageSize <= va \div PageSize
    BY <1>1, <2>1, <2>2, DivMono
  <2>4. n <= va \div PageSize
    BY <2>1, <2>3, DivTimes
  <2> QED BY <2>4 DEF n, FirstPage, PageOf
<1>6. PageOf(StackBase) <= KOFFSET * NR_PTE
  BY StackPage, UserInterval, MemoryAssumption
<1>7. \A p \in SegmentPages(s) : p \in UserPages
  BY <1>3, <1>4, <1>5, <1>6, UserInterval, StackPage
<1>8. ASSUME NEW q \in 1 .. s - 1 PROVE LastPage(q) <= FirstPage(s)
  <2>1. q \in 1 .. Len(program) /\ q < s /\ Len(program) \in Nat
    BY ProgramLength
  <2>2. program \in Programs /\ DOMAIN program = 1 .. Len(program)
    BY ProgramsAssumption, LenProperties DEF Shape
  <2>3. program[q].vaddr + program[q].memsz <= va
    BY <2>1, <2>2, ProgramsAssumption
  <2>4. SegmentEnd(q) \in Nat /\ program[q].vaddr \in Nat /\ program[q].memsz \in Nat
    BY <2>1, SegmentTyped
  <2>5. SegmentEnd(q) <= va
    BY <1>1, <2>3, <2>4 DEF SegmentEnd
  <2> QED BY <1>1, <2>4, <2>5, DivMono, MemoryAssumption DEF LastPage, FirstPage, PageOf
<1> QED BY <1>3, <1>4, <1>7, <1>8

-----------------------------------------------------------------------------
(* The frames that one call of mm_malloc takes *)

LEMMA UserDirsAreDirs ==
  /\ \A d \in UserDirs : d \in Dirs /\ d \notin KernelDirs /\ ~(d < NR_PT)
  /\ \A p \in UserPages : p \in Pages /\ p \in Nat /\ p \div NR_PTE \in UserDirs
                          /\ p \div NR_PTE \in Dirs /\ p % NR_PTE \in Indices
<1>1. \A d \in UserDirs : d \in Dirs /\ d \notin KernelDirs /\ ~(d < NR_PT)
  BY MemoryAssumption DEF UserDirs, KernelDirs, Dirs
<1>2. ASSUME NEW p \in UserPages
      PROVE  p \in Pages /\ p \in Nat /\ p \div NR_PTE \in UserDirs
             /\ p \div NR_PTE \in Dirs /\ p % NR_PTE \in Indices
  <2>1. p \in Pages /\ p \div NR_PTE \in UserDirs
    BY DEF UserPages
  <2> QED BY <2>1, PageSplits
<1> QED BY <1>1, <1>2

LEMMA CountBelow ==
  ASSUME NEW S, IsFiniteSet(S), NEW d \in S, NEW e \in S, d \in Int, e \in Int, d < e,
         \A x \in S : x \in Int
  PROVE  /\ Cardinality({x \in S : x < d}) \in Nat
         /\ Cardinality({x \in S : x < e}) \in Nat
         /\ Cardinality({x \in S : x < d}) < Cardinality({x \in S : x < e})
<1> DEFINE A == {x \in S : x < d}
           B == {x \in S : x < e}
<1>1. IsFiniteSet(B) /\ d \in B
  <2>1. B \in SUBSET S
    OBVIOUS
  <2> QED BY <2>1, FS_Subset
<1>2. IsFiniteSet(B \ {d}) /\ Cardinality(B \ {d}) = Cardinality(B) - 1
  BY <1>1, FS_RemoveElement
<1>3. A \in SUBSET (B \ {d})
  <2>1. ASSUME NEW x \in S, x < d PROVE x < e /\ x # d
    <3>1. x \in Int
      OBVIOUS
    <3> QED BY <2>1, <3>1
  <2> QED BY <2>1
<1>4. IsFiniteSet(A) /\ Cardinality(A) <= Cardinality(B \ {d})
  BY <1>2, <1>3, FS_Subset
<1>5. Cardinality(A) \in Nat /\ Cardinality(B) \in Nat
  BY <1>1, <1>4, FS_CardinalityType
<1> QED BY <1>2, <1>4, <1>5

(* Fresh tables are distinct, and none is in use                           *)
LEMMA OwnTablesAfter ==
  ASSUME Shape, TablesTaken, OwnTables(updir), NEW pages
  PROVE  OwnTables(WithTables(NewDirs(pages)))
<1> DEFINE new == NewDirs(pages)
           pdir == WithTables(new)
           K(d) == Cardinality({x \in new : x < d})
<1>1. IsFiniteSet(new) /\ \A d \in new : d \in Dirs /\ d \in Int
  BY SetsFinite DEF NewDirs, Dirs
<1>2. \A d \in new : pdir[d] = UserTable(pt_idx + K(d))
  BY <1>1 DEF WithTables
<1>3. \A d \in new : K(d) \in Nat
  <2> SUFFICES ASSUME NEW d \in new PROVE K(d) \in Nat
    OBVIOUS
  <2>1. {x \in new : x < d} \in SUBSET new
    OBVIOUS
  <2> QED BY <1>1, <2>1, FS_Subset, FS_CardinalityType
<1>4. \A d \in UserDirs : d \notin new => pdir[d] = updir[d]
  BY UserDirsAreDirs DEF WithTables
<1>5. \A d \in UserDirs : updir[d] # None => updir[d] \in Int /\ updir[d] < UserTable(pt_idx)
  BY UserDirsAreDirs, MemoryAssumption DEF Shape, PDir, Tables, TablesTaken, None
<1>6. ASSUME NEW d \in new, NEW e \in new, pdir[d] = pdir[e] PROVE d = e
  <2>1. K(d) = K(e)
    <3>1. UserTable(pt_idx + K(d)) = UserTable(pt_idx + K(e))
      BY <1>2, <1>6
    <3>2. pt_idx \in Nat /\ K(d) \in Nat /\ K(e) \in Nat /\ KTables \in Nat /\ NR_PT \in Nat
      BY <1>3, MemoryAssumption DEF Shape
    <3> HIDE DEF K
    <3> QED BY <3>1, <3>2 DEF UserTable
  <2>2. ~(d < e)
    BY <1>1, <2>1, CountBelow
  <2>3. ~(e < d)
    BY <1>1, <2>1, CountBelow
  <2> QED BY <1>1, <2>2, <2>3
<1>7. \A d \in new : pdir[d] \in Int /\ pdir[d] >= UserTable(pt_idx) /\ pdir[d] # None
  <2> SUFFICES ASSUME NEW d \in new
               PROVE  pdir[d] \in Int /\ pdir[d] >= UserTable(pt_idx) /\ pdir[d] # None
    OBVIOUS
  <2>1. pdir[d] \in Tables /\ pdir[d] >= UserTable(pt_idx)
    BY FreshTables
  <2> HIDE DEF pdir
  <2> QED BY <2>1, MemoryAssumption DEF Tables, None
<1>8. UserTable(pt_idx) >= UserTable(0) /\ UserTable(pt_idx) \in Int /\ UserTable(0) \in Int
  BY MemoryAssumption DEF UserTable, Shape
<1>9. ASSUME NEW d \in UserDirs, pdir[d] # None PROVE pdir[d] >= UserTable(0)
  <2>1. CASE d \in new
    <3>1. pdir[d] \in Int /\ pdir[d] >= UserTable(pt_idx)
      BY <1>7, <2>1
    <3> HIDE DEF pdir
    <3> QED BY <1>8, <3>1
  <2>2. CASE d \notin new
    BY <1>4, <1>9, <2>2 DEF OwnTables
  <2> QED BY <2>1, <2>2
<1>10. ASSUME NEW d \in UserDirs, NEW e \in UserDirs, pdir[d] # None, pdir[e] = pdir[d]
       PROVE  e = d
  <2> HIDE DEF new, pdir
  <2>1. CASE d \in new /\ e \in new
    BY <1>6, <1>10, <2>1
  <2>2. CASE d \notin new /\ e \notin new
    BY <1>4, <1>10, <2>2 DEF OwnTables
  <2>3. CASE d \in new /\ e \notin new
    <3>1. updir[e] # None /\ updir[e] = pdir[d]
      BY <1>4, <1>10, <2>3
    <3> QED BY <1>5, <1>7, <1>8, <2>3, <3>1
  <2>4. CASE d \notin new /\ e \in new
    <3>1. updir[d] # None /\ updir[d] = pdir[e]
      BY <1>4, <1>10, <2>4
    <3> QED BY <1>5, <1>7, <1>8, <2>4, <3>1
  <2> QED BY <2>1, <2>2, <2>3, <2>4
<1> HIDE DEF new, pdir
<1>11. OwnTables(pdir)
  BY <1>9, <1>10 DEF OwnTables
<1> QED BY <1>11 DEF pdir, new

(* The fresh tables are empty: they map nothing yet                        *)
LEMMA ClearedWalk ==
  ASSUME Shape, TablesTaken, NEW pages, NEW p \in Pages
  PROVE  Walk(WithTables(NewDirs(pages)), Cleared(NewDirs(pages)), p) = UserWalk(p)
<1> DEFINE new == NewDirs(pages)
           pdir == WithTables(new)
           d == p \div NR_PTE
           x == p % NR_PTE
<1>1. d \in Dirs /\ x \in Indices
  BY PageSplits
<1>2. CASE updir[d] # None
  <2>1. updir[d] \in Tables /\ updir[d] < UserTable(pt_idx)
    BY <1>1, <1>2 DEF Shape, PDir, TablesTaken
  <2>2. pdir[d] = updir[d] /\ Cleared(new)[updir[d]] = ptables[updir[d]]
    BY <1>1, <1>2, <2>1, DirsStay, ClearedKeeps
  <2> HIDE DEF pdir, new
  <2> QED BY <2>2 DEF Walk, UserWalk, pdir, new
<1>3. CASE updir[d] = None /\ d \in new
  <2>1. /\ pdir[d] \in Tables /\ pdir[d] >= UserTable(pt_idx)
        /\ pdir[d] < UserTable(pt_idx + Cardinality(new))
    BY <1>3, FreshTables
  <2>2. Cardinality(new) \in Nat /\ pt_idx \in Nat /\ KTables \in Nat /\ NR_PT \in Nat
    BY SetsFinite, MemoryAssumption DEF Shape
  <2> DEFINE i == pdir[d] - KTables - NR_PT
  <2>3. i \in pt_idx .. pt_idx + Cardinality(new) - 1 /\ pdir[d] = UserTable(i)
    <3> HIDE DEF pdir, new
    <3> QED BY <2>1, <2>2 DEF UserTable, Tables
  <2> HIDE DEF i
  <2>4. Cleared(new)[pdir[d]] = [y \in Indices |-> None]
    BY <2>1, <2>3 DEF Cleared
  <2>5. Cleared(new)[pdir[d]][x] = None
    BY <1>1, <2>4
  <2>6. UserWalk(p) = None
    BY <1>3 DEF UserWalk, Walk
  <2> HIDE DEF pdir, new
  <2>7. Walk(pdir, Cleared(new), p) = None
    BY <2>5 DEF Walk
  <2> QED BY <2>6, <2>7 DEF pdir, new
<1>4. CASE updir[d] = None /\ d \notin new
  <2>1. pdir[d] = None
    BY <1>1, <1>4 DEF WithTables
  <2> HIDE DEF pdir, new
  <2>2. Walk(pdir, Cleared(new), p) = None /\ UserWalk(p) = None
    BY <1>4, <2>1 DEF Walk, UserWalk
  <2> QED BY <2>2 DEF pdir, new
<1> QED BY <1>2, <1>3, <1>4

(* The pages of an interval that are not mapped take the next frames in    *)
(* their order                                                             *)
LEMMA MallocWalk ==
  ASSUME Shape, TablesTaken, OwnTables(updir), NEW va, NEW len,
         \A p \in PagesOf(va, len) : p \in UserPages,
         NEW lo \in Int, NEW hi \in Int, hi >= lo - 1,
         {p \in PagesOf(va, len) : UserWalk(p) = None} = lo .. hi
  PROVE  LET r == mm_malloc(va, len)
         IN /\ OwnTables(r.updir)
            /\ r.pf_idx = pf_idx + (hi - lo + 1)
            /\ r.addr = Walk(r.updir, r.ptables, PageOf(va)) * PageSize + (va % PageSize)
            /\ \A p \in UserPages :
                 Walk(r.updir, r.ptables, p)
                   = IF p \in lo .. hi THEN pf_idx + (p - lo) ELSE UserWalk(p)
<1> DEFINE pages == PagesOf(va, len)
           new == NewDirs(pages)
           pdir == WithTables(new)
           missing == Missing(pages, pdir, Cleared(new))
           tabs == WithFrames(missing, pdir, Cleared(new))
           r == mm_malloc(va, len)
<1>1. /\ r.updir = pdir /\ r.ptables = tabs
      /\ r.pf_idx = pf_idx + Cardinality(missing)
      /\ r.addr = Walk(pdir, tabs, PageOf(va)) * PageSize + (va % PageSize)
  BY DEF mm_malloc
<1>2. OwnTables(pdir) /\ pdir \in PDir
  BY OwnTablesAfter, WithTablesTyped
<1>3. \A p \in UserPages : p \in Pages /\ Walk(pdir, Cleared(new), p) = UserWalk(p)
  BY UserDirsAreDirs, ClearedWalk
<1>4. missing = lo .. hi
  BY <1>3 DEF Missing
<1>5. Cardinality(lo .. hi) = hi - lo + 1
  BY FS_Interval
<1>6. \A p \in lo .. hi : p \in UserPages /\ p \in pages /\ UserWalk(p) = None
  OBVIOUS
<1>7. \A d \in Dirs : pdir[d] # None => pdir[d] \in Tables
  BY <1>2 DEF PDir
<1>8. ASSUME NEW p \in lo .. hi PROVE pdir[p \div NR_PTE] # None
  <2>1. p \div NR_PTE \in Dirs
    BY <1>6, UserDirsAreDirs
  <2>2. CASE updir[p \div NR_PTE] = None
    <3>1. p \div NR_PTE \in new
      BY <1>6, <2>1, <2>2 DEF NewDirs
    <3>2. pdir[p \div NR_PTE] \in Tables
      BY <3>1, FreshTables
    <3> HIDE DEF pdir
    <3> QED BY <3>2, MemoryAssumption DEF Tables, None
  <2>3. CASE updir[p \div NR_PTE] # None
    BY <2>1, <2>3, DirsStay
  <2> QED BY <2>2, <2>3
<1>9. pdir = WithTables(NewDirs(pages))
  OBVIOUS
<1> HIDE DEF pages, new, pdir, missing, r
<1>10. ASSUME NEW p \in UserPages, NEW q \in lo .. hi, pdir[q \div NR_PTE] # None,
              pdir[q \div NR_PTE] = pdir[p \div NR_PTE], q % NR_PTE = p % NR_PTE
       PROVE  q = p
  <2>1. q \in UserPages
    BY <1>6
  <2>2. q \div NR_PTE = p \div NR_PTE
    BY <1>2, <1>10, <2>1, UserDirsAreDirs DEF OwnTables
  <2>3. /\ p = NR_PTE * (p \div NR_PTE) + (p % NR_PTE)
        /\ q = NR_PTE * (q \div NR_PTE) + (q % NR_PTE)
    BY <2>1, UserDirsAreDirs, PageSplits
  <2> QED BY <1>10, <2>2, <2>3
<1>11. ASSUME NEW p \in lo .. hi PROVE Walk(pdir, tabs, p) = pf_idx + (p - lo)
  <2> DEFINE t == pdir[p \div NR_PTE]
             x == p % NR_PTE
  <2>1. p \in UserPages /\ p \div NR_PTE \in Dirs /\ x \in Indices /\ t # None /\ t \in Tables
    BY <1>6, <1>7, <1>8, UserDirsAreDirs
  <2>2. PagesAt(missing, pdir, t, x) = {p}
    <3>1. p \in PagesAt(missing, pdir, t, x)
      BY <1>4 DEF PagesAt
    <3>2. ASSUME NEW q \in PagesAt(missing, pdir, t, x) PROVE q = p
      <4>1. q \in lo .. hi /\ pdir[q \div NR_PTE] = t /\ q % NR_PTE = x
        BY <1>4 DEF PagesAt
      <4> QED BY <1>10, <2>1, <4>1
    <3> QED BY <3>1, <3>2
  <2>3. tabs[t][x] = Frame(missing, p)
    BY <2>1, <2>2 DEF WithFrames
  <2>4. Frame(missing, p) = pf_idx + (p - lo)
    <3>1. {q \in lo .. hi : q < p} = lo .. p - 1
      OBVIOUS
    <3>2. Cardinality(lo .. p - 1) = p - lo
      <4>1. p - 1 \in Int /\ p >= lo
        OBVIOUS
      <4>2. Cardinality(lo .. p - 1) = IF lo > p - 1 THEN 0 ELSE (p - 1) - lo + 1
        BY <4>1, FS_Interval
      <4> QED BY <4>1, <4>2
    <3> QED BY <1>4, <3>1, <3>2 DEF Frame
  <2> HIDE DEF tabs
  <2> QED BY <2>1, <2>3, <2>4 DEF Walk
<1>12. ASSUME NEW p \in UserPages, p \notin lo .. hi PROVE Walk(pdir, tabs, p) = UserWalk(p)
  <2> DEFINE t == pdir[p \div NR_PTE]
             x == p % NR_PTE
  <2>1. p \div NR_PTE \in Dirs /\ x \in Indices
    BY UserDirsAreDirs
  <2>2. Walk(pdir, Cleared(new), p) = UserWalk(p)
    BY <1>3
  <2>3. CASE t = None
    BY <2>2, <2>3 DEF Walk
  <2>4. CASE t # None
    <3>1. PagesAt(missing, pdir, t, x) = {}
      <4> SUFFICES ASSUME NEW q \in PagesAt(missing, pdir, t, x) PROVE FALSE
        OBVIOUS
      <4>1. q \in lo .. hi /\ pdir[q \div NR_PTE] = t /\ q % NR_PTE = x
        BY <1>4 DEF PagesAt
      <4> QED BY <1>10, <1>12, <2>4, <4>1
    <3>2. tabs[t][x] = Cleared(new)[t][x]
      BY <1>7, <2>1, <2>4, <3>1 DEF WithFrames
    <3> HIDE DEF tabs
    <3> QED BY <2>2, <2>4, <3>2 DEF Walk
  <2> QED BY <2>3, <2>4
<1> HIDE DEF tabs
<1>13. Cardinality(missing) = hi - lo + 1
  BY <1>4, <1>5
<1>14. /\ OwnTables(r.updir)
       /\ r.pf_idx = pf_idx + (hi - lo + 1)
       /\ r.addr = Walk(r.updir, r.ptables, PageOf(va)) * PageSize + (va % PageSize)
       /\ \A p \in UserPages :
            Walk(r.updir, r.ptables, p)
              = IF p \in lo .. hi THEN pf_idx + (p - lo) ELSE UserWalk(p)
  BY <1>1, <1>2, <1>11, <1>12, <1>13
<1> QED BY <1>14 DEF r

-----------------------------------------------------------------------------
(* The tables that one call takes *)

LEMMA Sizes == NR_PTE \in Nat \ {0} /\ FirstFrame \in Nat
BY MemoryAssumption

LEMMA OffsetTyped ==
  ASSUME NEW h \in Nat
  PROVE  h % NR_PTE \in Nat /\ h % NR_PTE <= NR_PTE - 1
<1>1. NR_PTE \in Nat \ {0}
  BY Sizes
<1>2. h % NR_PTE \in 0 .. NR_PTE - 1
  BY <1>1, DivMod
<1> QED BY <1>1, <1>2

LEMMA AmountTyped ==
  ASSUME NEW t \in Nat, NEW h \in Nat
  PROVE  t * NR_PTE \in Nat /\ h % NR_PTE \in Nat
<1>1. t * NR_PTE \in Nat
  BY Sizes
<1> QED BY <1>1, OffsetTyped

LEMMA StackSlackTyped == StackSlack \in Nat
<1>1. KOFFSET * NR_PTE - STACK_PAGES \in Nat
  BY MemoryAssumption
<1> QED BY <1>1, OffsetTyped DEF StackSlack

LEMMA SegmentSlackTyped ==
  ASSUME NEW m \in Nat
  PROVE  /\ SegmentSlack(m) \in Nat
         /\ SegmentSlack(m + 1) = SegmentSlack(m) + 2 * (NR_PTE - 1)
<1> DEFINE c == 2 * (NR_PTE - 1)
<1>1. c \in Nat
  BY Sizes
<1> HIDE DEF c
<1>2. m * c \in Nat /\ (m + 1) * c = m * c + c
  BY <1>1
<1> QED BY <1>2 DEF SegmentSlack, c

LEMMA SegmentSlackMono ==
  ASSUME NEW m \in Nat, NEW k \in Nat, m <= k
  PROVE  SegmentSlack(m) <= SegmentSlack(k)
<1> DEFINE c == 2 * (NR_PTE - 1)
<1>1. c \in Nat
  BY Sizes
<1> HIDE DEF c
<1>2. m * c <= k * c
  BY <1>1
<1> QED BY <1>2 DEF SegmentSlack, c

(* At most one table per directory index from d to e                       *)
LEMMA TablesBetween ==
  ASSUME Shape, NEW va, NEW len, NEW d \in Nat, NEW e \in Nat, d <= e + 1,
         NewDirs(PagesOf(va, len)) \in SUBSET (d .. e)
  PROVE  /\ mm_malloc(va, len).pt_idx \in Nat
         /\ mm_malloc(va, len).pt_idx * NR_PTE + NR_PTE * d
              <= pt_idx * NR_PTE + NR_PTE * e + NR_PTE
<1> DEFINE c == Cardinality(NewDirs(PagesOf(va, len)))
<1>1. NR_PTE \in Nat \ {0} /\ pt_idx \in Nat
  BY MemoryAssumption DEF Shape
<1>2. IsFiniteSet(d .. e) /\ Cardinality(d .. e) = IF d > e THEN 0 ELSE e - d + 1
  BY FS_Interval
<1>3. c <= Cardinality(d .. e) /\ c \in Nat
  BY <1>2, FS_Subset, SetsFinite
<1>4. mm_malloc(va, len).pt_idx = pt_idx + c
  BY DEF mm_malloc
<1> HIDE DEF c
<1>5. c + d <= e + 1
  BY <1>1, <1>2, <1>3
<1>6. (c + d) * NR_PTE <= (e + 1) * NR_PTE
  BY <1>1, <1>3, <1>5
<1>7. /\ (c + d) * NR_PTE = c * NR_PTE + NR_PTE * d
      /\ (e + 1) * NR_PTE = NR_PTE * e + NR_PTE
      /\ (pt_idx + c) * NR_PTE = pt_idx * NR_PTE + c * NR_PTE
  BY <1>1, <1>3
<1>8. c * NR_PTE \in Nat /\ pt_idx * NR_PTE \in Nat /\ NR_PTE * d \in Nat /\ NR_PTE * e \in Nat
  BY <1>1, <1>3
<1>9. (pt_idx + c) * NR_PTE + NR_PTE * d <= pt_idx * NR_PTE + NR_PTE * e + NR_PTE
  <2> DEFINE cn == c * NR_PTE
             pn == pt_idx * NR_PTE
             dn == NR_PTE * d
             en == NR_PTE * e
  <2>1. cn \in Nat /\ pn \in Nat /\ dn \in Nat /\ en \in Nat
    BY <1>8
  <2>2. cn + dn <= en + NR_PTE /\ (pt_idx + c) * NR_PTE = pn + cn
    BY <1>6, <1>7
  <2> HIDE DEF cn, pn, dn, en
  <2>3. pn + cn + dn <= pn + en + NR_PTE
    BY <1>1, <2>1, <2>2
  <2> QED BY <2>2, <2>3 DEF cn, pn, dn, en
<1> QED BY <1>1, <1>3, <1>4, <1>9

(* The table a page is in, and the rest                                    *)
LEMMA TableOf ==
  ASSUME NEW p \in Nat
  PROVE  /\ p \div NR_PTE \in Nat /\ p % NR_PTE \in Nat
         /\ p = NR_PTE * (p \div NR_PTE) + (p % NR_PTE)
         /\ \A q \in Nat : p <= q => p \div NR_PTE <= q \div NR_PTE
<1>1. NR_PTE \in Nat \ {0}
  BY MemoryAssumption
<1>2. /\ p \div NR_PTE \in Nat /\ p % NR_PTE \in 0 .. NR_PTE - 1
      /\ p = NR_PTE * (p \div NR_PTE) + (p % NR_PTE)
  BY <1>1, DivMod
<1>3. \A q \in Nat : p <= q => p \div NR_PTE <= q \div NR_PTE
  BY <1>1, DivMono
<1> QED BY <1>1, <1>2, <1>3

(* Pages first to hi, whatever is mapped of them                           *)
LEMMA TablesAcross ==
  ASSUME Shape, NEW va, NEW len, NEW first \in Nat, NEW hi \in Nat, first <= hi,
         PagesOf(va, len) = first .. hi
  PROVE  /\ mm_malloc(va, len).pt_idx \in Nat
         /\ mm_malloc(va, len).pt_idx * NR_PTE + (hi % NR_PTE)
              <= pt_idx * NR_PTE + (hi - first) + (first % NR_PTE) + NR_PTE
<1>1. PICK d \in Nat : d = first \div NR_PTE
  BY TableOf
<1>2. PICK e \in Nat : e = hi \div NR_PTE
  BY TableOf
<1>3. d <= e
  BY <1>1, <1>2, TableOf
<1>4. \A p \in first .. hi : p \div NR_PTE \in d .. e
  <2> SUFFICES ASSUME NEW p \in first .. hi PROVE p \div NR_PTE \in d .. e
    OBVIOUS
  <2>1. p \in Nat /\ first <= p /\ p <= hi
    OBVIOUS
  <2>2. PICK x \in Nat : x = p \div NR_PTE
    BY <2>1, TableOf
  <2>3. d <= x /\ x <= e
    BY <1>1, <1>2, <2>1, <2>2, TableOf
  <2> QED BY <2>2, <2>3
<1>5. NewDirs(PagesOf(va, len)) \in SUBSET (d .. e)
  BY <1>4 DEF NewDirs
<1>6. PICK t \in Nat : t = mm_malloc(va, len).pt_idx
  BY <1>3, <1>5, TablesBetween
<1>7. t * NR_PTE + NR_PTE * d <= pt_idx * NR_PTE + NR_PTE * e + NR_PTE
  BY <1>3, <1>5, <1>6, TablesBetween
<1>8. PICK f \in Nat, g \in Nat : f = first % NR_PTE /\ g = hi % NR_PTE
  BY TableOf
<1>9. first = NR_PTE * d + f /\ hi = NR_PTE * e + g
  BY <1>1, <1>2, <1>8, TableOf
<1>10. NR_PTE \in Nat /\ pt_idx \in Nat
  BY MemoryAssumption DEF Shape
<1>11. PICK tn \in Nat, pn \in Nat, dn \in Nat, en \in Nat :
         tn = t * NR_PTE /\ pn = pt_idx * NR_PTE /\ dn = NR_PTE * d /\ en = NR_PTE * e
  BY <1>10
<1>12. tn + g <= pn + (hi - first) + f + NR_PTE
  BY <1>7, <1>9, <1>10, <1>11
<1> QED BY <1>6, <1>8, <1>11, <1>12

(* Pages behind a page that is mapped: its table takes some of them        *)
LEMMA TablesBehind ==
  ASSUME Shape, NEW va, NEW len, NEW top \in UserPages, UserWalk(top) # None,
         NEW hi \in Nat, top <= hi,
         \A p \in PagesOf(va, len) :
           p \in UserPages /\ (UserWalk(p) = None => p \in top + 1 .. hi)
  PROVE  /\ mm_malloc(va, len).pt_idx \in Nat
         /\ mm_malloc(va, len).pt_idx * NR_PTE + (hi % NR_PTE)
              <= pt_idx * NR_PTE + (hi - top) + (top % NR_PTE)
<1>1. top \in Nat
  BY UserDirsAreDirs
<1>2. PICK d \in Nat : d = top \div NR_PTE
  BY <1>1, TableOf
<1>3. PICK e \in Nat : e = hi \div NR_PTE
  BY TableOf
<1>4. d <= e
  BY <1>1, <1>2, <1>3, TableOf
<1>5. updir[d] # None
  BY <1>2 DEF UserWalk, Walk
<1>6. ASSUME NEW x \in NewDirs(PagesOf(va, len)) PROVE x \in d + 1 .. e
  <2>1. updir[x] = None /\ \E p \in PagesOf(va, len) : p \div NR_PTE = x
    BY DEF NewDirs
  <2>2. PICK p \in PagesOf(va, len) : p \div NR_PTE = x
    BY <2>1
  <2>3. UserWalk(p) = None
    BY <2>1, <2>2 DEF UserWalk, Walk
  <2>4. p \in Nat /\ top <= p /\ p <= hi
    BY <1>1, <2>3, UserDirsAreDirs
  <2>5. x \in Nat /\ d <= x /\ x <= e
    BY <1>1, <1>2, <1>3, <2>2, <2>4, TableOf
  <2>6. x # d
    BY <1>5, <2>1
  <2> QED BY <2>5, <2>6
<1>7. NewDirs(PagesOf(va, len)) \in SUBSET (d + 1 .. e)
  BY <1>6
<1>8. d + 1 \in Nat /\ d + 1 <= e + 1
  BY <1>4
<1>9. PICK t \in Nat : t = mm_malloc(va, len).pt_idx
  BY <1>7, <1>8, TablesBetween
<1>10. t * NR_PTE + NR_PTE * (d + 1) <= pt_idx * NR_PTE + NR_PTE * e + NR_PTE
  BY <1>7, <1>8, <1>9, TablesBetween
<1>11. PICK f \in Nat, g \in Nat : f = top % NR_PTE /\ g = hi % NR_PTE
  BY <1>1, TableOf
<1>12. top = NR_PTE * d + f /\ hi = NR_PTE * e + g
  BY <1>1, <1>2, <1>3, <1>11, TableOf
<1>13. NR_PTE \in Nat /\ pt_idx \in Nat
  BY MemoryAssumption DEF Shape
<1>14. NR_PTE * (d + 1) = NR_PTE * d + NR_PTE
  BY <1>13
<1>15. PICK tn \in Nat, pn \in Nat, dn \in Nat, en \in Nat :
         tn = t * NR_PTE /\ pn = pt_idx * NR_PTE /\ dn = NR_PTE * d /\ en = NR_PTE * e
  BY <1>13
<1>16. tn + g <= pn + (hi - top) + f
  BY <1>10, <1>12, <1>13, <1>14, <1>15
<1> QED BY <1>9, <1>11, <1>15, <1>16

(* What an account of the highest page is worth when nothing is known of it *)
LEMMA CoversAll ==
  ASSUME NEW tables \in Nat, NEW next \in Nat, NEW h \in Nat, NEW slack \in Nat,
         NEW more \in Nat, slack <= more, Covers(tables, next, h, slack)
  PROVE  Covers(tables, next, 0, more)
<1> DEFINE t == tables * NR_PTE
<1>1. NR_PTE \in Nat \ {0} /\ FirstFrame \in Nat /\ h % NR_PTE \in Nat /\ 0 % NR_PTE = 0
      /\ t \in Nat
  <2>1. NR_PTE \in Nat \ {0} /\ FirstFrame \in Nat /\ h % NR_PTE \in Nat
    BY Sizes, OffsetTyped
  <2>2. 0 % NR_PTE = 0
    <3>1. 0 \div NR_PTE < 1 /\ 0 \div NR_PTE \in Nat /\ 0 = NR_PTE * (0 \div NR_PTE) + (0 % NR_PTE)
          /\ 0 % NR_PTE \in 0 .. NR_PTE - 1
      BY <2>1, DivBelow, DivMod
    <3> QED BY <2>1, <3>1
  <2> QED BY <2>1, <2>2
<1> HIDE DEF t
<1> QED BY <1>1 DEF Covers, t

(* Nothing is taken yet                                                    *)
LEMMA CoversNothing ==
  ASSUME NEW next \in Nat, next >= FirstFrame
  PROVE  Covers(0, next, 0, 0)
<1>1. NR_PTE \in Nat \ {0} /\ FirstFrame \in Nat
  BY Sizes
<1>2. 0 \div NR_PTE < 1 /\ 0 \div NR_PTE \in Nat /\ 0 = NR_PTE * (0 \div NR_PTE) + (0 % NR_PTE)
      /\ 0 % NR_PTE \in 0 .. NR_PTE - 1
  BY <1>1, DivBelow, DivMod
<1>3. 0 % NR_PTE = 0 /\ 0 * NR_PTE = 0
  BY <1>1, <1>2
<1> QED BY <1>1, <1>3 DEF Covers

LEMMA ProgramSlack ==
  ASSUME NEW prog \in Programs
  PROVE  /\ Len(prog) \in Nat
         /\ SegmentSlack(Len(prog)) + StackSlack \in Nat
<1>1. prog \in Seq(Segment)
  BY ProgramsAssumption
<1>2. Len(prog) \in Nat
  BY <1>1, LenProperties
<1>3. SegmentSlack(Len(prog)) \in Nat /\ StackSlack \in Nat
  BY <1>2, SegmentSlackTyped, StackSlackTyped
<1> QED BY <1>2, <1>3

LEMMA NothingTaken ==
  ASSUME NEW prog \in Programs, NEW next \in Nat, next >= FirstFrame
  PROVE  Covers(0, next, 0, SegmentSlack(Len(prog)) + StackSlack)
<1>1. PICK m \in Nat : m = SegmentSlack(Len(prog)) + StackSlack
  BY ProgramSlack
<1> QED BY <1>1, CoversNothing, CoversAll

(* What the account is after more tables and frames                        *)
LEMMA CoversMore ==
  ASSUME NEW tables \in Nat, NEW next \in Nat, NEW h \in Nat, NEW slack \in Nat,
         Covers(tables, next, h, slack),
         NEW tables2 \in Nat, NEW added \in Int, NEW h2 \in Nat, NEW more \in Int,
         tables2 * NR_PTE + (h2 % NR_PTE) <= tables * NR_PTE + (h % NR_PTE) + added + more
  PROVE  Covers(tables2, next + added, h2, slack + more)
<1>1. PICK a \in Nat, b \in Nat, x \in Nat, y \in Nat :
        /\ a = tables * NR_PTE /\ b = tables2 * NR_PTE
        /\ x = h % NR_PTE /\ y = h2 % NR_PTE
  <2>1. /\ tables * NR_PTE \in Nat /\ tables2 * NR_PTE \in Nat
        /\ h % NR_PTE \in Nat /\ h2 % NR_PTE \in Nat
    BY AmountTyped
  <2> QED BY <2>1
<1>2. FirstFrame \in Nat
  BY Sizes
<1>3. a + x <= (next - FirstFrame) + slack /\ b + y <= a + x + added + more
  BY <1>1 DEF Covers
<1>4. b + y <= ((next + added) - FirstFrame) + (slack + more)
  BY <1>1, <1>2, <1>3
<1> QED BY <1>1, <1>4 DEF Covers

(* ... after a segment that starts on a page of its own, ...               *)
LEMMA CoversAcross ==
  ASSUME Shape, NEW va, NEW len, NEW first \in Nat, NEW hi \in Nat, first <= hi,
         PagesOf(va, len) = first .. hi,
         NEW h \in Nat, NEW slack \in Nat, Covers(pt_idx, pf_idx, h, slack)
  PROVE  /\ mm_malloc(va, len).pt_idx \in Nat
         /\ Covers(mm_malloc(va, len).pt_idx, pf_idx + (hi - first + 1), hi,
                   slack + 2 * (NR_PTE - 1))
<1>1. PICK t \in Nat : t = mm_malloc(va, len).pt_idx
  BY TablesAcross
<1>2. t * NR_PTE + (hi % NR_PTE)
        <= pt_idx * NR_PTE + (hi - first) + (first % NR_PTE) + NR_PTE
  BY <1>1, TablesAcross
<1>3. PICK a \in Nat, b \in Nat, x \in Nat, y \in Nat, z \in Nat :
        /\ a = pt_idx * NR_PTE /\ b = t * NR_PTE
        /\ x = h % NR_PTE /\ y = hi % NR_PTE /\ z = first % NR_PTE
  <2>1. pt_idx \in Nat
    BY DEF Shape
  <2>2. /\ pt_idx * NR_PTE \in Nat /\ t * NR_PTE \in Nat
        /\ h % NR_PTE \in Nat /\ hi % NR_PTE \in Nat /\ first % NR_PTE \in Nat
    BY <2>1, AmountTyped
  <2> QED BY <2>2
<1>4. NR_PTE \in Nat \ {0} /\ z <= NR_PTE - 1
  BY <1>3, Sizes, OffsetTyped
<1>5. t * NR_PTE + (hi % NR_PTE)
        <= pt_idx * NR_PTE + (h % NR_PTE) + (hi - first + 1) + 2 * (NR_PTE - 1)
  <2>1. b + y <= a + (hi - first) + z + NR_PTE
    BY <1>2, <1>3
  <2>2. /\ a \in Nat /\ b \in Nat /\ x \in Nat /\ y \in Nat /\ z \in Nat /\ NR_PTE \in Nat
        /\ z <= NR_PTE - 1
    BY <1>3, <1>4
  <2>3. b + y <= a + x + (hi - first + 1) + 2 * (NR_PTE - 1)
    BY <2>1, <2>2
  <2> QED BY <1>3, <2>3
<1>6. pt_idx \in Nat /\ pf_idx \in Nat /\ hi - first + 1 \in Int /\ 2 * (NR_PTE - 1) \in Int
  BY <1>4 DEF Shape
<1> QED BY <1>1, <1>5, <1>6, CoversMore

(* ... after pages behind the highest one ...                              *)
LEMMA CoversBehind ==
  ASSUME Shape, NEW va, NEW len, NEW top \in UserPages, UserWalk(top) # None,
         NEW hi \in Nat, top <= hi,
         \A p \in PagesOf(va, len) :
           p \in UserPages /\ (UserWalk(p) = None => p \in top + 1 .. hi),
         NEW slack \in Nat, Covers(pt_idx, pf_idx, top, slack)
  PROVE  /\ mm_malloc(va, len).pt_idx \in Nat
         /\ Covers(mm_malloc(va, len).pt_idx, pf_idx + (hi - top), hi, slack)
<1>1. PICK t \in Nat : t = mm_malloc(va, len).pt_idx
  BY TablesBehind
<1>2. t * NR_PTE + (hi % NR_PTE) <= pt_idx * NR_PTE + (hi - top) + (top % NR_PTE)
  BY <1>1, TablesBehind
<1>3. top \in Nat /\ pt_idx \in Nat /\ pf_idx \in Nat /\ hi - top \in Int
  BY UserDirsAreDirs DEF Shape
<1>4. PICK a \in Nat, b \in Nat, x \in Nat, y \in Nat :
        /\ a = pt_idx * NR_PTE /\ b = t * NR_PTE
        /\ x = top % NR_PTE /\ y = hi % NR_PTE
  <2>1. /\ pt_idx * NR_PTE \in Nat /\ t * NR_PTE \in Nat
        /\ top % NR_PTE \in Nat /\ hi % NR_PTE \in Nat
    BY <1>3, AmountTyped
  <2> QED BY <2>1
<1>5. t * NR_PTE + (hi % NR_PTE) <= pt_idx * NR_PTE + (top % NR_PTE) + (hi - top) + 0
  BY <1>2, <1>3, <1>4
<1>6. Covers(t, pf_idx + (hi - top), hi, slack + 0)
  BY <1>3, <1>5, CoversMore
<1> QED BY <1>1, <1>6

-----------------------------------------------------------------------------
(* What such a call preserves *)

LEMMA UserWalkTyped ==
  ASSUME Shape, NEW p \in UserPages
  PROVE  UserWalk(p) \in Nat \union {None}
<1>1. p \in Pages /\ updir \in PDir
  BY UserDirsAreDirs DEF Shape
<1> QED BY <1>1, WalkTyped DEF UserWalk, Entry

LEMMA GrownTaken ==
  ASSUME Shape, FramesTaken, NEW lo, NEW hi, Grown(lo, hi)
  PROVE  FramesTaken'
<1>1. pf_idx \in Nat /\ lo \in Int /\ hi \in Int /\ pf_idx' = pf_idx + (hi - lo + 1) /\ hi >= lo - 1
  BY DEF Shape, Grown
<1>2. \A p \in UserPages : UserWalk(p)' = IF p \in lo .. hi THEN pf_idx + (p - lo) ELSE UserWalk(p)
  BY DEF Grown
<1>3. \A p \in UserPages : UserWalk(p) # None => UserWalk(p) \in Nat /\ UserWalk(p) < pf_idx
  BY UserWalkTyped DEF FramesTaken
<1>4. \A p \in UserPages : p \in Nat
  BY UserDirsAreDirs
<1> SUFFICES ASSUME NEW p \in UserPages, UserWalk(p)' # None
             PROVE  /\ UserWalk(p)' < pf_idx'
                    /\ \A q \in UserPages : UserWalk(q)' = UserWalk(p)' => q = p
  BY DEF FramesTaken
<1>5. UserWalk(p)' < pf_idx'
  <2>1. CASE p \in lo .. hi
    BY <1>1, <1>2, <1>4, <2>1
  <2>2. CASE p \notin lo .. hi
    <3>1. UserWalk(p)' = UserWalk(p) /\ UserWalk(p) \in Nat /\ UserWalk(p) < pf_idx
      BY <1>2, <1>3, <2>2
    <3> QED BY <1>1, <3>1
  <2> QED BY <2>1, <2>2
<1>6. ASSUME NEW q \in UserPages, UserWalk(q)' = UserWalk(p)' PROVE q = p
  <2>1. CASE p \in lo .. hi /\ q \in lo .. hi
    BY <1>1, <1>2, <1>4, <1>6, <2>1
  <2>2. CASE p \notin lo .. hi /\ q \notin lo .. hi
    BY <1>2, <1>6, <2>2 DEF FramesTaken
  <2>3. CASE p \in lo .. hi /\ q \notin lo .. hi
    <3>1. UserWalk(q) = pf_idx + (p - lo) /\ UserWalk(q) # None
      BY <1>2, <1>6, <2>3
    <3> QED BY <1>1, <1>3, <1>4, <2>3, <3>1
  <2>4. CASE p \notin lo .. hi /\ q \in lo .. hi
    <3>1. UserWalk(p) = pf_idx + (q - lo) /\ UserWalk(p) # None
      BY <1>2, <1>6, <2>4
    <3> QED BY <1>1, <1>3, <1>4, <2>4, <3>1
  <2> QED BY <2>1, <2>2, <2>3, <2>4
<1> QED BY <1>5, <1>6

LEMMA AllocatedPages == Allocated = {p \in UserPages : UserWalk(p) # None}
BY DEF Allocated, UserPages, UserDirs

(* Frames follow each other behind the call too, if they do at its ends    *)
LEMMA GrownFollow ==
  ASSUME Shape, FramesTaken, FramesFollow, program' = program,
         NEW lo, NEW hi, Grown(lo, hi),
         \A p \in UserPages :
           p + 1 = lo /\ UserWalk(p) # None /\ p # PageOf(ImageEnd) /\ lo # PageOf(StackBase)
             => UserWalk(p) = pf_idx - 1,
         \A q \in UserPages :
           lo <= hi /\ q = hi + 1 /\ UserWalk(q) # None => q = PageOf(StackBase)
  PROVE  FramesFollow'
<1>1. /\ pf_idx \in Nat /\ lo \in Int /\ hi \in Int
      /\ \A p \in lo .. hi : p \in UserPages
  BY DEF Shape, Grown
<1>2. \A p \in UserPages : UserWalk(p)' = IF p \in lo .. hi THEN pf_idx + (p - lo) ELSE UserWalk(p)
  BY DEF Grown
<1>3. \A p \in UserPages : p \in Nat
  BY UserDirsAreDirs
<1>4. FramesTaken'
  BY GrownTaken
<1>5. ImageEnd' = ImageEnd
  BY DEF ImageEnd
<1>6. Allocated' = {p \in UserPages : UserWalk(p)' # None}
  BY DEF Allocated, UserPages, UserDirs, Pages, UserWalk
<1> SUFFICES ASSUME NEW p \in UserPages, NEW q \in UserPages,
                    UserWalk(p)' # None, UserWalk(q)' # None,
                    q = p + 1, p # PageOf(ImageEnd), q # PageOf(StackBase)
             PROVE  UserWalk(q)' = UserWalk(p)' + 1
  <2>1. \A p, q \in UserPages : UserWalk(p)' # None /\ q # p => UserWalk(q)' # UserWalk(p)'
    BY <1>4 DEF FramesTaken
  <2> QED BY <1>5, <1>6, <2>1 DEF FramesFollow
<1>7. CASE p \in lo .. hi /\ q \in lo .. hi
  BY <1>1, <1>2, <1>3, <1>7
<1>8. CASE p \notin lo .. hi /\ q \notin lo .. hi
  <2>1. p \in Allocated /\ q \in Allocated
    BY <1>2, <1>8, AllocatedPages
  <2> QED BY <1>2, <1>8, <2>1 DEF FramesFollow
<1>9. CASE p \in lo .. hi /\ q \notin lo .. hi
  <2>1. q = hi + 1 /\ lo <= hi /\ UserWalk(q) # None
    BY <1>1, <1>2, <1>3, <1>9
  <2> QED BY <2>1
<1>10. CASE p \notin lo .. hi /\ q \in lo .. hi
  <2>1. p + 1 = lo /\ q = lo /\ UserWalk(p) # None
    BY <1>1, <1>2, <1>3, <1>10
  <2>2. UserWalk(p) = pf_idx - 1
    BY <2>1
  <2> QED BY <1>1, <1>2, <1>3, <1>10, <2>1, <2>2
<1> QED BY <1>7, <1>8, <1>9, <1>10

(* Mapped pages keep their frames, so the image stays where it is          *)
LEMMA GrownImage ==
  ASSUME Shape, ImageMapped, program' = program, NEW lo, NEW hi, Grown(lo, hi),
         NEW s \in 1 .. Len(dests), dests'[s] = dests[s]
  PROVE  LET W(p) == Walk(updir', ptables', p)
         IN /\ dests'[s] = W(FirstPage(s)) * PageSize + (program[s].vaddr % PageSize)
            /\ \A p \in SegmentPages(s) : W(p) # None /\ W(p) = W(FirstPage(s)) + (p - FirstPage(s))
<1>1. s \in 1 .. Len(program)
  <2>1. Len(dests) \in Nat /\ Len(program) \in Nat /\ Len(dests) <= Len(program)
    BY ProgramLength, LenProperties DEF Shape
  <2> QED BY <2>1
<1>2. /\ FirstPage(s) \in SegmentPages(s)
      /\ \A p \in SegmentPages(s) : p \in UserPages
  BY <1>1, SegmentsPages
<1>3. \A p \in SegmentPages(s) :
        UserWalk(p) # None /\ Walk(updir', ptables', p) = UserWalk(p)
  BY <1>2 DEF ImageMapped, Grown, UserWalk
<1> QED BY <1>2, <1>3 DEF ImageMapped

-----------------------------------------------------------------------------
(* The second invariant holds while nothing is loaded, and through steps   *)
(* that change no table                                                    *)

LEMMA NothingMapped ==
  ASSUME NEW pdir, NEW tabs, \A d \in UserDirs : pdir[d] = None, NEW p \in UserPages
  PROVE  Walk(pdir, tabs, p) = None
BY UserDirsAreDirs DEF Walk

LEMMA FramesStart == Init => FInv
<1> SUFFICES ASSUME Init PROVE FInv
  OBVIOUS
<1>1. /\ \A d \in Dirs : updir[d] = None
      /\ dests = << >> /\ pc = "start"
      /\ program \in Programs /\ pt_idx = 0 /\ pf_idx = FirstFrame
  BY DEF Init, mmInit, NoDir
<1>2. \A d \in UserDirs : updir[d] = None
  BY <1>1, UserDirsAreDirs
<1>3. \A p \in UserPages : UserWalk(p) = None
  BY <1>2, NothingMapped DEF UserWalk
<1>4. Len(dests) = 0
  BY <1>1, EmptySeq
<1>5. OwnTables(updir)
  BY <1>2 DEF OwnTables
<1>6. FramesTaken
  BY <1>3 DEF FramesTaken
<1>7. Loading
  BY <1>1 DEF Loading
<1>8. ImageMapped
  BY <1>4 DEF ImageMapped
<1>9. HeapGrows
  BY <1>1 DEF HeapGrows
<1>10. FramesFollow
  <2>1. Allocated = {}
    BY <1>3, AllocatedPages
  <2> QED BY <2>1 DEF FramesFollow
<1>11. TablesFilled
  <2>1. pf_idx \in Nat /\ pf_idx >= FirstFrame
    BY <1>1, Sizes
  <2> QED BY <1>1, <2>1, NothingTaken DEF TablesFilled
<1> QED BY <1>5, <1>6, <1>7, <1>8, <1>9, <1>10, <1>11 DEF FInv

LEMMA FramesEmpty ==
  ASSUME \A d \in UserDirs : updir'[d] = None, dests' = << >>,
         pc' \in {"start", "init_mm", "load"},
         pc' \in {"start", "init_mm"} => \A d \in Dirs : updir'[d] = None,
         program' \in Programs, pt_idx' = 0, pf_idx' \in Nat, pf_idx' >= FirstFrame
  PROVE  FInv'
<1>1. \A p \in UserPages : UserWalk(p)' = None
  BY NothingMapped DEF UserWalk
<1>2. Len(dests') = 0
  BY EmptySeq
<1>3. OwnTables(updir)'
  BY DEF OwnTables
<1>4. FramesTaken'
  BY <1>1 DEF FramesTaken
<1>5. Loading'
  BY <1>1 DEF Loading
<1>6. ImageMapped'
  BY <1>2 DEF ImageMapped
<1>7. HeapGrows'
  BY DEF HeapGrows
<1>8. FramesFollow'
  <2>1. Allocated' = {p \in UserPages : UserWalk(p)' # None}
    BY DEF Allocated, UserPages, UserDirs, Pages, UserWalk
  <2>2. Allocated' = {}
    BY <1>1, <2>1
  <2> QED BY <2>2 DEF FramesFollow
<1>9. TablesFilled'
  BY NothingTaken DEF TablesFilled
<1> QED BY <1>3, <1>4, <1>5, <1>6, <1>7, <1>8, <1>9 DEF FInv

LEMMA FramesStay ==
  ASSUME FInv, UNCHANGED <<program, updir, ptables, pt_idx, pf_idx, dests>>,
         pc' = pc \/ pc' = "stop", pc' = "user" => brk' >= ImageEnd
  PROVE  FInv'
<1> USE DEF FInv
<1>1. \A p : UserWalk(p)' = UserWalk(p)
  BY DEF UserWalk, Walk
<1>2. OwnTables(updir)' /\ FramesTaken'
  BY <1>1 DEF OwnTables, FramesTaken
<1>3. Loading'
  BY <1>1 DEF Loading, LastPage, SegmentEnd
<1>4. ImageMapped'
  BY <1>1 DEF ImageMapped, SegmentPages, FirstPage
<1>5. ImageEnd' = ImageEnd
  BY DEF ImageEnd
<1>6. HeapGrows'
  BY <1>1, <1>5 DEF HeapGrows, HeapUpTo
<1>7. FramesFollow'
  BY <1>1, <1>5 DEF FramesFollow, Allocated
<1>8. TablesFilled'
  BY DEF TablesFilled
<1> QED BY <1>2, <1>3, <1>4, <1>6, <1>7, <1>8

-----------------------------------------------------------------------------
(* The steps that take frames *)

LEMMA GrownByMalloc ==
  ASSUME Shape, TablesTaken, OwnTables(updir), NEW va, NEW len,
         \A p \in PagesOf(va, len) : p \in UserPages,
         NEW lo \in Nat, NEW hi \in Int, hi >= lo - 1,
         {p \in PagesOf(va, len) : UserWalk(p) = None} = lo .. hi,
         pf_idx' = mm_malloc(va, len).pf_idx,
         \A p \in UserPages :
           Walk(updir', ptables', p)
             = Walk(mm_malloc(va, len).updir, mm_malloc(va, len).ptables, p)
  PROVE  Grown(lo, hi)
<1>1. /\ pf_idx' = pf_idx + (hi - lo + 1)
      /\ \A p \in UserPages :
           Walk(updir', ptables', p) = IF p \in lo .. hi THEN pf_idx + (p - lo) ELSE UserWalk(p)
  BY MallocWalk
<1>2. \A p \in UserPages :
        UserWalk(p)' = IF p \in lo .. hi THEN pf_idx + (p - lo) ELSE UserWalk(p)
  BY <1>1 DEF UserWalk
<1>3. \A p \in lo .. hi : p \in UserPages /\ UserWalk(p) = None
  OBVIOUS
<1> QED BY <1>1, <1>2, <1>3 DEF Grown

(* The page the image loaded so far ends in                                *)
LEMMA LastLoaded ==
  ASSUME Shape, Loading, ImageMapped, pc = "load", Len(dests) # 0
  PROVE  LET L == LastPage(Len(dests))
         IN /\ Len(dests) \in 1 .. Len(program) /\ L \in Nat /\ L \in UserPages
            /\ L < PageOf(StackBase)
            /\ UserWalk(L) = pf_idx - 1 /\ UserWalk(L) # None
            /\ \A p \in UserPages : UserWalk(p) # None => p <= L
<1> DEFINE k == Len(dests)
<1>1. k \in 1 .. Len(dests) /\ k \in 1 .. Len(program)
  <2>1. Len(dests) \in Nat /\ Len(program) \in Nat /\ Len(dests) <= Len(program)
    BY ProgramLength, LenProperties DEF Shape
  <2> QED BY <2>1
<1>2. dests # << >>
  BY EmptySeq
<1>3. /\ FirstPage(k) \in Nat /\ LastPage(k) \in Nat /\ FirstPage(k) <= LastPage(k)
      /\ LastPage(k) < PageOf(StackBase)
      /\ SegmentPages(k) = FirstPage(k) .. LastPage(k)
      /\ \A p \in SegmentPages(k) : p \in UserPages
  BY <1>1, SegmentsPages
<1>4. LastPage(k) \in SegmentPages(k)
  BY <1>3
<1>5. UserWalk(LastPage(k)) # None
  BY <1>1, <1>4 DEF ImageMapped
<1> QED BY <1>1, <1>2, <1>3, <1>4, <1>5 DEF Loading

LEMMA FramesLoadSegment ==
  ASSUME IInv, FInv, LoadSegment
  PROVE  FInv'
<1> DEFINE k == Len(dests)
           s == k + 1
           va == program[s].vaddr
           len == program[s].memsz
           r == mm_malloc(va, len)
           L == LastPage(k)
           first == FirstPage(s)
           hi == LastPage(s)
           lo == IF k # 0 /\ first = L THEN first + 1 ELSE first
<1> USE DEF IInv, FInv
<1>1. /\ pc = "load" /\ k < Len(program)
      /\ Allocate(r, "load")
      /\ updir' = IF r.ok THEN r.updir ELSE updir
      /\ dests' = IF r.ok THEN Append(dests, r.addr) ELSE dests
      /\ UNCHANGED <<program, cr3, kpdir>>
      /\ ~ r.ok => brk' = brk
  BY DEF LoadSegment
<1>2. k \in Nat /\ s \in 1 .. Len(program)
  BY <1>1, LenProperties, ProgramLength DEF Shape
<1>3. CASE ~ r.ok
  <2>1. pc' = "stop" /\ UNCHANGED <<program, updir, ptables, pt_idx, pf_idx, dests>>
    BY <1>1, <1>3 DEF Allocate
  <2> QED BY <2>1, FramesStay
<1>4. CASE r.ok
  <2>1. /\ updir' = r.updir /\ ptables' = r.ptables /\ pt_idx' = r.pt_idx
        /\ pf_idx' = r.pf_idx /\ dests' = Append(dests, r.addr) /\ pc' = "load"
        /\ program' = program
    BY <1>1, <1>4 DEF Allocate
  <2>2. /\ first \in Nat /\ hi \in Nat /\ first <= hi
        /\ SegmentPages(s) = first .. hi
        /\ \A p \in first .. hi : p \in UserPages
        /\ k # 0 => L <= first
    <3>1. k # 0 => k \in 1 .. s - 1
      BY <1>2
    <3> QED BY <1>2, <3>1, SegmentsPages
  <2>3. k # 0 => /\ k \in 1 .. Len(program) /\ L \in Nat /\ L \in UserPages
                 /\ UserWalk(L) = pf_idx - 1 /\ UserWalk(L) # None
                 /\ \A p \in UserPages : UserWalk(p) # None => p <= L
    BY <1>1, LastLoaded
  <2>4. k = 0 => pt_idx = 0 /\ \A p \in UserPages : UserWalk(p) = None
    BY <1>1, EmptySeq DEF Loading, Shape
  <2>5. k # 0 => Covers(pt_idx, pf_idx, L, SegmentSlack(k))
    BY <1>1, EmptySeq DEF Loading, Shape
  <2>6. PagesOf(va, len) = first .. hi
    BY <2>2 DEF SegmentPages
  <2>7. lo \in Nat /\ hi >= lo - 1 /\ first >= lo - 1 /\ lo >= first
    BY <2>2
  <2>8. {p \in first .. hi : UserWalk(p) = None} = lo .. hi
    <3>1. CASE k = 0
      BY <2>2, <2>4, <3>1
    <3>2. CASE k # 0
      <4> HIDE DEF first, hi, L, k
      <4>1. \A p \in first .. hi : UserWalk(p) = None <=> p # L
        BY <2>2, <2>3, <3>2
      <4> QED BY <2>2, <2>3, <3>2, <4>1
    <3> QED BY <3>1, <3>2
  <2> HIDE DEF first, hi, L, lo
  <2>9. Grown(lo, hi) /\ OwnTables(r.updir)
        /\ r.addr = Walk(r.updir, r.ptables, PageOf(va)) * PageSize + (va % PageSize)
    <3>1. \A p \in PagesOf(va, len) : p \in UserPages
      BY <2>2, <2>6
    <3>2. {p \in PagesOf(va, len) : UserWalk(p) = None} = lo .. hi
      BY <2>6, <2>8
    <3>3. OwnTables(r.updir)
          /\ r.addr = Walk(r.updir, r.ptables, PageOf(va)) * PageSize + (va % PageSize)
      <4>1. lo \in Int /\ hi \in Int /\ hi >= lo - 1
        BY <2>2, <2>7
      <4> HIDE DEF va, len
      <4> QED BY <3>1, <3>2, <4>1, MallocWalk DEF r, va
    <3>4. \A p \in UserPages : Walk(updir', ptables', p) = Walk(r.updir, r.ptables, p)
      <4> HIDE DEF r
      <4> QED BY <2>1
    <3>5. Grown(lo, hi)
      BY <2>1, <2>2, <2>7, <3>1, <3>2, <3>4, GrownByMalloc
    <3> QED BY <3>3, <3>5
  <2> DEFINE W(p) == Walk(updir', ptables', p)
  <2>10. /\ pf_idx' = pf_idx + (hi - lo + 1) /\ pf_idx \in Nat
        /\ \A p \in UserPages : W(p) = IF p \in lo .. hi THEN pf_idx + (p - lo) ELSE UserWalk(p)
    BY <2>9 DEF Grown, Shape, UserWalk
  <2>11. /\ dests' \in Seq(Int) /\ Len(dests') = s /\ dests' # << >>
         /\ \A q \in 1 .. k : dests'[q] = dests[q]
         /\ dests'[s] = r.addr
    <3>1. dests \in Seq(Int) /\ r.addr \in Int
      <4>1. va \in Nat /\ len \in Nat \ {0} /\ PageOf(va) \in Pages
        BY <1>2, SegmentTyped
      <4> QED BY <4>1, MallocTyped DEF Shape
    <3> HIDE DEF r
    <3> QED BY <2>1, <3>1, AppendProperties
  <2>12. Covers(pt_idx', pf_idx', hi, SegmentSlack(s)) /\ pt_idx' \in Nat
    <3>1. /\ PagesOf(va, len) = first .. hi /\ first \in Nat /\ hi \in Nat /\ first <= hi
          /\ pt_idx' = mm_malloc(va, len).pt_idx
      BY <2>1, <2>2, <2>6
    <3>2. SegmentSlack(k) \in Nat /\ SegmentSlack(s) = SegmentSlack(k) + 2 * (NR_PTE - 1)
      BY <1>2, SegmentSlackTyped
    <3>3. NR_PTE \in Nat \ {0} /\ pf_idx >= FirstFrame
      BY Sizes DEF TablesFilled
    <3> HIDE DEF r, va, len, k, s
    <3>4. CASE k # 0 /\ first = L
      <4>1. L \in UserPages /\ UserWalk(L) # None /\ L <= hi
        BY <2>2, <2>3, <3>4
      <4>2. \A p \in PagesOf(va, len) : p \in UserPages /\ (UserWalk(p) = None => p \in L + 1 .. hi)
        <5> SUFFICES ASSUME NEW p \in first .. hi
                     PROVE  p \in UserPages /\ (UserWalk(p) = None => p \in L + 1 .. hi)
          BY <3>1
        <5>1. p \in UserPages /\ p \in Nat /\ L \in Nat /\ L <= p /\ p <= hi
          BY <2>2, <2>3, <3>4
        <5> QED BY <2>2, <2>3, <3>4, <5>1
      <4>3. pt_idx' \in Nat /\ Covers(pt_idx', pf_idx + (hi - L), hi, SegmentSlack(k))
        BY <2>5, <3>1, <3>2, <3>4, <4>1, <4>2, CoversBehind
      <4>4. pf_idx' = pf_idx + (hi - L) /\ pf_idx' \in Nat
        BY <2>2, <2>3, <2>10, <3>4 DEF lo
      <4>5. PICK e \in Nat, c \in Nat : e = SegmentSlack(k) /\ c = 2 * (NR_PTE - 1)
        BY <3>2, <3>3
      <4>6. Covers(pt_idx', pf_idx', hi, e)
        BY <4>3, <4>4, <4>5
      <4>7. Covers(pt_idx', pf_idx', hi, e + c)
        <5>1. PICK z \in Nat : z = pt_idx' * NR_PTE + (hi % NR_PTE)
          <6>1. pt_idx' * NR_PTE \in Nat /\ hi % NR_PTE \in Nat
            BY <3>1, <4>3, AmountTyped
          <6> QED BY <6>1
        <5>2. FirstFrame \in Nat
          BY Sizes
        <5> QED BY <4>4, <4>5, <4>6, <5>1, <5>2 DEF Covers
      <4> QED BY <3>2, <4>3, <4>5, <4>7
    <3>5. CASE ~(k # 0 /\ first = L)
      <4>1. PICK h \in Nat : Covers(pt_idx, pf_idx, h, SegmentSlack(k))
        <5>1. CASE k = 0
          <6>1. Covers(0, pf_idx, 0, 0) /\ SegmentSlack(k) = 0
            BY <2>10, <3>3, <5>1, CoversNothing DEF SegmentSlack
          <6> QED BY <2>4, <5>1, <6>1
        <5>2. CASE k # 0
          BY <2>3, <2>5, <5>2
        <5> QED BY <5>1, <5>2
      <4>2. /\ pt_idx' \in Nat
            /\ Covers(pt_idx', pf_idx + (hi - first + 1), hi, SegmentSlack(k) + 2 * (NR_PTE - 1))
        BY <3>1, <3>2, <4>1, CoversAcross
      <4>3. pf_idx' = pf_idx + (hi - first + 1)
        BY <2>2, <2>10, <3>5 DEF lo
      <4> QED BY <3>2, <4>2, <4>3
    <3> QED BY <3>4, <3>5
  <2>13. TablesFilled'
    <3>1. pf_idx' \in Nat /\ pf_idx' >= FirstFrame
      <4>1. FirstFrame \in Nat /\ pf_idx >= FirstFrame
        BY Sizes DEF TablesFilled
      <4> QED BY <2>2, <2>7, <2>10, <4>1
    <3>2. Len(program) \in Nat /\ s \in Nat /\ s <= Len(program)
      BY <1>2, ProgramLength
    <3>3. PICK e \in Nat, m \in Nat :
            e = SegmentSlack(s) /\ m = SegmentSlack(Len(program)) + StackSlack /\ e <= m
      <4> HIDE DEF s
      <4>1. /\ SegmentSlack(s) \in Nat /\ SegmentSlack(Len(program)) \in Nat /\ StackSlack \in Nat
            /\ SegmentSlack(s) <= SegmentSlack(Len(program))
        BY <3>2, SegmentSlackTyped, SegmentSlackMono, StackSlackTyped
      <4> QED BY <4>1
    <3>4. Covers(pt_idx', pf_idx', 0, m)
      <4> HIDE DEF s
      <4> QED BY <2>2, <2>12, <3>1, <3>3, CoversAll
    <3> QED BY <2>1, <3>1, <3>3, <3>4 DEF TablesFilled
  <2> HIDE DEF r
  (* From the first page of the segment on, frames go up with the pages *)
  <2>14. \A p \in first .. hi : W(p) = pf_idx + (p - lo) /\ W(p) # None
    <3> HIDE DEF W
    <3> SUFFICES ASSUME NEW p \in first .. hi PROVE W(p) = pf_idx + (p - lo) /\ W(p) # None
      OBVIOUS
    <3>1. p \in UserPages /\ p \in Nat
      BY <2>2
    <3>2. CASE p \in lo .. hi
      BY <2>2, <2>7, <2>10, <3>1, <3>2 DEF None
    <3>3. CASE p \notin lo .. hi
      <4>1. k # 0 /\ p = L /\ lo = L + 1
        BY <2>2, <2>7, <3>1, <3>3 DEF lo
      <4>2. UserWalk(p) = pf_idx - 1 /\ UserWalk(p) # None
        BY <2>3, <4>1
      <4> QED BY <2>3, <2>10, <3>1, <3>3, <4>1, <4>2
    <3> QED BY <3>2, <3>3
  <2>15. OwnTables(updir)'
    BY <2>1, <2>9 DEF OwnTables
  <2>16. FramesTaken'
    BY <2>9, GrownTaken
  <2>17. (LastPage(Len(dests)))' = hi
    BY <2>1, <2>11 DEF LastPage, SegmentEnd, hi
  <2>18. Loading'
    <3>1. W(hi) = pf_idx' - 1
      BY <2>2, <2>7, <2>10, <2>14
    <3>2. \A p \in UserPages : W(p) # None => p <= hi
      <4> SUFFICES ASSUME NEW p \in UserPages, W(p) # None PROVE p <= hi
        OBVIOUS
      <4>1. p \in lo .. hi \/ (k # 0 /\ p <= L)
        BY <2>3, <2>4, <2>10
      <4> QED BY <2>2, <2>3, <2>7, <4>1, UserDirsAreDirs
    <3>3. UserWalk(LastPage(Len(dests)))' = W(hi)
      BY <2>17 DEF UserWalk
    <3> QED BY <2>1, <2>11, <2>17, <2>12, <3>1, <3>2, <3>3 DEF Loading, UserWalk
  <2>19. ImageMapped'
    <3>1. ASSUME NEW q \in 1 .. s
          PROVE  /\ dests'[q] = W(FirstPage(q)) * PageSize + (program[q].vaddr % PageSize)
                 /\ \A p \in SegmentPages(q) : W(p) # None /\ W(p) = W(FirstPage(q)) + (p - FirstPage(q))
      <4>1. CASE q = s
        <5>1. first \in first .. hi /\ W(first) = pf_idx + (first - lo)
          BY <2>2, <2>14
        <5>2. FirstPage(q) = first /\ PageOf(va) = first /\ program[q].vaddr = va
              /\ SegmentPages(q) = first .. hi
          BY <2>2, <4>1 DEF first, FirstPage
        <5>3. dests'[q] = W(first) * PageSize + (va % PageSize)
          BY <2>1, <2>9, <2>11, <4>1, <5>2
        <5>4. \A p \in first .. hi : W(p) = W(first) + (p - first)
          <6> HIDE DEF W
          <6> QED BY <2>2, <2>7, <2>10, <2>14, <5>1
        <5> QED BY <2>14, <5>2, <5>3, <5>4
      <4>2. CASE q # s
        <5>1. q \in 1 .. Len(dests) /\ dests'[q] = dests[q]
          BY <1>2, <2>11, <4>2
        <5> QED BY <2>1, <2>9, <5>1, GrownImage
      <4> QED BY <4>1, <4>2
    <3> QED BY <2>1, <2>11, <3>1 DEF ImageMapped, SegmentPages, FirstPage, UserWalk
  <2>20. HeapGrows'
    BY <2>1 DEF HeapGrows
  <2>21. FramesFollow'
    <3>1. ASSUME NEW p \in UserPages, p + 1 = lo, UserWalk(p) # None
          PROVE  UserWalk(p) = pf_idx - 1
      <4>1. k # 0 /\ p <= L /\ p \in Nat
        BY <2>3, <2>4, <3>1, UserDirsAreDirs
      <4>2. p = L
        BY <2>2, <2>3, <3>1, <4>1 DEF lo
      <4> QED BY <2>3, <4>1, <4>2
    <3>2. ASSUME NEW q \in UserPages, lo <= hi, q = hi + 1, UserWalk(q) # None
          PROVE  FALSE
      <4>1. k # 0 /\ q <= L /\ q \in Nat
        BY <2>3, <2>4, <3>2, UserDirsAreDirs
      <4> QED BY <2>2, <2>3, <3>2, <4>1
    <3> QED BY <2>1, <2>9, <3>1, <3>2, GrownFollow
  <2> QED BY <2>15, <2>16, <2>18, <2>19, <2>20, <2>21, <2>13
<1> QED BY <1>3, <1>4

(* The pages between the end of the image and the stack                    *)
LEMMA HeapPages ==
  ASSUME Shape
  PROVE  /\ ImageEnd \in Nat /\ PageOf(ImageEnd) \in Nat
         /\ PageOf(ImageEnd) = LastPage(Len(program))
         /\ PageOf(ImageEnd) < PageOf(StackBase)
         /\ \A p \in PageOf(ImageEnd) .. PageOf(StackBase) - 1 : p \in UserPages
<1> DEFINE k == Len(program)
<1>1. k \in 1 .. Len(program) /\ ImageEnd = SegmentEnd(k)
  BY ProgramLength
<1>2. /\ ImageEnd \in Nat /\ PageOf(ImageEnd) = LastPage(k)
  BY <1>1, SegmentTyped DEF LastPage
<1>3. /\ FirstPage(k) \in Nat /\ LastPage(k) \in Nat /\ FirstPage(k) <= LastPage(k)
      /\ LastPage(k) < PageOf(StackBase)
      /\ SegmentPages(k) = FirstPage(k) .. LastPage(k)
      /\ \A p \in SegmentPages(k) : p \in UserPages
  BY <1>1, SegmentsPages
<1>4. LastPage(k) \in UserPages
  BY <1>3
<1>5. /\ PageOf(StackBase) \in Nat /\ PageOf(StackBase) = KOFFSET * NR_PTE - STACK_PAGES
      /\ UserPages = NR_PT * NR_PTE .. KOFFSET * NR_PTE - 1
      /\ NR_PT * NR_PTE \in Nat /\ KOFFSET * NR_PTE \in Nat /\ STACK_PAGES \in Nat
  BY StackPage, UserInterval, MemoryAssumption
<1> HIDE DEF k
<1>6. \A p \in LastPage(k) .. PageOf(StackBase) - 1 : p \in UserPages
  BY <1>3, <1>4, <1>5
<1> QED BY <1>2, <1>3, <1>6 DEF k

LEMMA StackPages ==
  ASSUME Shape
  PROVE  LET pages == PagesOf(StackBase, STACK_PAGES * PageSize)
             top == KOFFSET * NR_PTE - 1
         IN /\ pages = PageOf(StackBase) .. top
            /\ PageOf(StackBase) \in Nat /\ top \in Nat /\ PageOf(StackBase) <= top
            /\ \A p \in pages : p \in UserPages
            /\ top + 1 \notin UserPages
<1> DEFINE half == KOFFSET * NR_PTE
           n == PageOf(StackBase)
           len == STACK_PAGES * PageSize
<1>1. /\ half \in Nat \ {0} /\ STACK_PAGES \in Nat \ {0} /\ STACK_PAGES <= half
      /\ PageSize \in Nat \ {0} /\ n \in Nat /\ n = half - STACK_PAGES
      /\ StackBase = half * PageSize - len
  BY StackPage, MemoryAssumption DEF StackBase, UserTop
<1>2. UserPages = NR_PT * NR_PTE .. half - 1 /\ NR_PT * NR_PTE \in Nat
  BY UserInterval
<1>3. NR_PT * NR_PTE <= n
  BY <1>1, <1>2, HeapPages
<1> DEFINE end == half * PageSize
<1>4. StackBase + len - 1 = end - 1 /\ end \in Nat \ {0} /\ end - 1 \in Nat
  <2>1. end \in Nat \ {0} /\ len \in Nat
    <3> HIDE DEF half
    <3> QED BY <1>1
  <2> HIDE DEF len, end
  <2> QED BY <1>1, <2>1 DEF end
<1>5. PageOf(end - 1) = half - 1
  <2> DEFINE m == half - 1
  <2>1. m \in Nat /\ m * PageSize = end - PageSize
    <3>1. m \in Nat /\ half = m + 1
      BY <1>1
    <3> HIDE DEF m, half
    <3> QED BY <1>1, <3>1
  <2>2. m * PageSize \in Nat /\ m * PageSize <= end - 1
    <3> HIDE DEF m, end
    <3> QED BY <1>1, <1>4, <2>1
  <2> HIDE DEF half, end
  <2>3. m <= PageOf(end - 1)
    <3> HIDE DEF m
    <3>1. (m * PageSize) \div PageSize = m
      BY <1>1, <2>1, DivTimes
    <3> QED BY <1>1, <1>4, <2>1, <2>2, <3>1, DivMono DEF PageOf
  <2>4. PageOf(end - 1) < half /\ PageOf(end - 1) \in Nat
    <3>1. end - 1 < end /\ end = half * PageSize
      BY <1>4 DEF end
    <3>2. end - 1 \in Nat /\ end - 1 < half * PageSize
      BY <1>4, <3>1
    <3> QED BY <1>1, <3>2, DivBelow, DivMod DEF PageOf
  <2> QED BY <1>1, <2>3, <2>4
<1> HIDE DEF half, n, len, end
<1>6. PagesOf(StackBase, len) = n .. half - 1
  BY <1>4, <1>5 DEF PagesOf, n
<1>7. \A p \in n .. half - 1 : p \in UserPages
  BY <1>1, <1>2, <1>3
<1>8. half - 1 + 1 \notin UserPages /\ half - 1 \in Nat /\ n <= half - 1
  BY <1>1, <1>2
<1> QED BY <1>1, <1>6, <1>7, <1>8 DEF half, n, len

(* The video mapping leaves the user's pages alone                         *)
LEMMA VideoWalk ==
  ASSUME NEW pdir \in PDir, OwnTables(pdir), NEW tabs
  PROVE  /\ OwnTables(VideoDir(pdir))
         /\ \A p \in UserPages : Walk(VideoDir(pdir), VideoTables(tabs), p) = Walk(pdir, tabs, p)
<1>1. \A d \in UserDirs : VideoDir(pdir)[d] = pdir[d]
  BY UserDirsAreDirs DEF VideoDir
<1>2. OwnTables(VideoDir(pdir))
  BY <1>1 DEF OwnTables
<1>3. ASSUME NEW p \in UserPages
      PROVE  Walk(VideoDir(pdir), VideoTables(tabs), p) = Walk(pdir, tabs, p)
  <2> DEFINE d == p \div NR_PTE
             x == p % NR_PTE
  <2>1. d \in UserDirs /\ d \in Dirs /\ x \in Indices /\ VideoDir(pdir)[d] = pdir[d]
    BY <1>1, UserDirsAreDirs
  <2>2. CASE pdir[d] = None
    BY <2>1, <2>2 DEF Walk
  <2>3. CASE pdir[d] # None
    <3>1. pdir[d] \in Tables /\ pdir[d] >= UserTable(0)
      BY <2>1, <2>3 DEF PDir, OwnTables
    <3>2. ~ \E i \in 0 .. NR_PT - 1 : pdir[d] = VideoTable(i)
      <4> HIDE DEF d
      <4> QED BY <3>1, MemoryAssumption DEF VideoTable, UserTable, Tables
    <3>3. VideoTables(tabs)[pdir[d]][x] = tabs[pdir[d]][x]
      BY <2>1, <3>1, <3>2 DEF VideoTables
    <3> QED BY <2>1, <2>3, <3>3 DEF Walk
  <2> QED BY <2>2, <2>3
<1> QED BY <1>2, <1>3

(* The last entry of a table                                               *)
LEMMA TableEnds == (KOFFSET * NR_PTE - 1) % NR_PTE = NR_PTE - 1
<1>1. NR_PTE \in Nat \ {0} /\ KOFFSET \in Nat
  BY MemoryAssumption
<1>2. PICK a \in Nat : a = KOFFSET * NR_PTE - 1
  <2>1. KOFFSET \in Nat \ {0}
    BY MemoryAssumption
  <2>2. KOFFSET * NR_PTE \in Nat \ {0}
    BY <1>1, <2>1
  <2> QED BY <2>2
<1>3. PICK q \in Nat, x \in Nat :
        /\ q = a \div NR_PTE /\ x = a % NR_PTE
        /\ a = NR_PTE * q + x /\ x <= NR_PTE - 1
  <2>1. /\ a \div NR_PTE \in Nat /\ a % NR_PTE \in 0 .. NR_PTE - 1
        /\ a = NR_PTE * (a \div NR_PTE) + (a % NR_PTE)
    BY <1>1, DivMod
  <2> QED BY <1>1, <2>1
<1>4. q < KOFFSET
  <2>1. a < KOFFSET * NR_PTE
    BY <1>1, <1>2
  <2> QED BY <1>1, <1>3, <2>1, DivBelow
<1>5. KOFFSET * NR_PTE = NR_PTE * q + x + 1
  BY <1>1, <1>2, <1>3
<1>6. NR_PTE * (q + 1) <= KOFFSET * NR_PTE
  <2>1. q + 1 <= KOFFSET /\ q + 1 \in Nat
    BY <1>1, <1>2, <1>4
  <2> QED BY <1>1, <2>1
<1>7. NR_PTE * (q + 1) = NR_PTE * q + NR_PTE
  BY <1>1, <1>2
<1>8. PICK m \in Nat : m = NR_PTE * q
  BY <1>1, <1>2
<1> QED BY <1>1, <1>2, <1>3, <1>5, <1>6, <1>7, <1>8

LEMMA FramesFinishLoad ==
  ASSUME IInv, FInv, FinishLoad
  PROVE  FInv'
<1> DEFINE va == StackBase
           len == STACK_PAGES * PageSize
           r == mm_malloc(va, len)
           lo == PageOf(StackBase)
           hi == KOFFSET * NR_PTE - 1
           L == LastPage(Len(dests))
           W(p) == Walk(updir', ptables', p)
<1> USE DEF IInv, FInv
<1>1. /\ pc = "load" /\ Len(dests) = Len(program)
      /\ Allocate([r EXCEPT !.ptables = VideoTables(@)], "user")
      /\ updir' = IF r.ok THEN VideoDir(r.updir) ELSE updir
      /\ UNCHANGED <<program, kpdir, brk, dests>>
  BY DEF FinishLoad
<1>2. r = [ok |-> r.ok, updir |-> r.updir, ptables |-> r.ptables,
           pt_idx |-> r.pt_idx, pf_idx |-> r.pf_idx, addr |-> r.addr]
  BY DEF mm_malloc
<1>3. CASE ~ r.ok
  <2> HIDE DEF r
  <2>1. ~ [r EXCEPT !.ptables = VideoTables(@)].ok
    BY <1>2, <1>3
  <2>2. pc' = "stop" /\ UNCHANGED <<ptables, pt_idx, pf_idx>>
    BY <1>1, <2>1 DEF Allocate
  <2> QED BY <1>1, <1>3, <2>2, FramesStay
<1>4. CASE r.ok
  <2>1. /\ updir' = VideoDir(r.updir) /\ ptables' = VideoTables(r.ptables)
        /\ pf_idx' = r.pf_idx /\ pt_idx' = r.pt_idx /\ pc' = "user"
    <3> HIDE DEF r
    <3>1. /\ [r EXCEPT !.ptables = VideoTables(@)].ok
          /\ [r EXCEPT !.ptables = VideoTables(@)].pt_idx = r.pt_idx
          /\ [r EXCEPT !.ptables = VideoTables(@)].ptables = VideoTables(r.ptables)
          /\ [r EXCEPT !.ptables = VideoTables(@)].pf_idx = r.pf_idx
      BY <1>2, <1>4
    <3> QED BY <1>1, <1>4, <3>1 DEF Allocate
  <2>2. Len(dests) # 0
    BY <1>1, ProgramLength
  <2>3. /\ L \in Nat /\ L \in UserPages /\ L < lo
        /\ UserWalk(L) # None
        /\ \A p \in UserPages : UserWalk(p) # None => p <= L
        /\ Covers(pt_idx, pf_idx, L, SegmentSlack(Len(program)))
    <3>1. dests # << >>
      BY <2>2, EmptySeq
    <3> QED BY <1>1, <2>2, <3>1, LastLoaded DEF Loading
  <2>4. /\ PagesOf(va, len) = lo .. hi
        /\ lo \in Nat /\ hi \in Nat /\ lo <= hi
        /\ \A p \in PagesOf(va, len) : p \in UserPages
        /\ hi + 1 \notin UserPages
    BY StackPages
  <2> HIDE DEF lo, hi, L
  <2>5. {p \in PagesOf(va, len) : UserWalk(p) = None} = lo .. hi
    BY <2>3, <2>4
  <2>6. OwnTables(r.updir) /\ r.pf_idx = pf_idx + (hi - lo + 1)
    BY <2>4, <2>5, MallocWalk
  <2>7. r.updir \in PDir
    <3>1. va \in Nat /\ STACK_PAGES \in Nat \ {0} /\ PageSize \in Nat \ {0}
      BY StackBaseBounds, MemoryAssumption
    <3>2. len \in Nat \ {0}
      BY <3>1
    <3> QED BY <3>1, <3>2, MallocTyped
  <2>8. /\ OwnTables(updir')
        /\ \A p \in UserPages : W(p) = Walk(r.updir, r.ptables, p)
    <3> HIDE DEF r
    <3> QED BY <2>1, <2>6, <2>7, VideoWalk
  <2>9. Grown(lo, hi)
    BY <2>1, <2>4, <2>5, <2>8, GrownByMalloc
  <2> HIDE DEF r
  <2>10. \A p \in UserPages : p \notin lo .. hi => W(p) = UserWalk(p)
    BY <2>9 DEF Grown, UserWalk
  (* The stack ends where its table does *)
  <2>11. /\ Covers(pt_idx', pf_idx', L, SegmentSlack(Len(program)) + StackSlack)
         /\ pt_idx' \in Nat
    <3>1. /\ pt_idx' \in Nat
          /\ pt_idx' * NR_PTE + (hi % NR_PTE)
               <= pt_idx * NR_PTE + (hi - lo) + (lo % NR_PTE) + NR_PTE
      BY <2>1, <2>4, TablesAcross DEF r
    <3>2. lo % NR_PTE = StackSlack /\ hi % NR_PTE = NR_PTE - 1
      BY StackPage, TableEnds DEF StackSlack, lo, hi
    <3>3. pt_idx \in Nat /\ pf_idx \in Nat /\ NR_PTE \in Nat \ {0} /\ StackSlack \in Nat
          /\ SegmentSlack(Len(program)) \in Nat
      BY <1>1, ProgramLength, Sizes, SegmentSlackTyped, StackSlackTyped DEF Shape
    <3>4. PICK a \in Nat, b \in Nat, x \in Nat, c \in Nat, t \in Nat :
            /\ a = pt_idx * NR_PTE /\ b = pt_idx' * NR_PTE /\ x = L % NR_PTE
            /\ c = StackSlack /\ t = pt_idx'
      <4>1. pt_idx * NR_PTE \in Nat /\ pt_idx' * NR_PTE \in Nat /\ L % NR_PTE \in Nat
        BY <2>3, <3>1, <3>3, AmountTyped
      <4> QED BY <3>1, <3>3, <4>1
    <3>5. b + (NR_PTE - 1) <= a + (hi - lo) + c + NR_PTE
      BY <3>1, <3>2, <3>4
    <3>6. b + x <= a + x + (hi - lo + 1) + c
      <4> HIDE DEF L
      <4>1. lo \in Nat /\ hi \in Nat /\ NR_PTE \in Nat
        BY <2>4, <3>3
      <4> QED BY <3>5, <4>1
    <3>7. t * NR_PTE + (L % NR_PTE)
            <= pt_idx * NR_PTE + (L % NR_PTE) + (hi - lo + 1) + StackSlack
      BY <3>4, <3>6
    <3>8. Covers(t, pf_idx + (hi - lo + 1), L, SegmentSlack(Len(program)) + StackSlack)
      <4>1. hi - lo + 1 \in Int /\ StackSlack \in Int
        BY <2>4, <3>3
      <4> QED BY <2>3, <3>3, <3>7, <4>1, CoversMore
    <3> QED BY <2>1, <2>6, <3>1, <3>4, <3>8
  <2>12. TablesFilled'
    <3>1. pf_idx' \in Nat /\ pf_idx' >= FirstFrame
      <4>1. pf_idx \in Nat /\ FirstFrame \in Nat /\ pf_idx >= FirstFrame
        BY Sizes DEF TablesFilled, Shape
      <4> QED BY <2>1, <2>4, <2>6, <4>1
    <3>2. PICK m \in Nat : m = SegmentSlack(Len(program)) + StackSlack
      BY ProgramSlack DEF Shape
    <3>3. Covers(pt_idx', pf_idx', 0, m)
      BY <2>3, <2>11, <3>1, <3>2, CoversAll
    <3> QED BY <1>1, <3>1, <3>2, <3>3 DEF TablesFilled
  <2>13. OwnTables(updir)'
    BY <2>8 DEF OwnTables
  <2>14. FramesTaken'
    BY <2>9, GrownTaken
  <2>15. Loading'
    BY <2>1 DEF Loading
  <2>16. ImageMapped'
    BY <1>1, <2>9, GrownImage DEF ImageMapped, SegmentPages, FirstPage, UserWalk
  <2>17. HeapGrows'
    <3>1. /\ L = PageOf(ImageEnd) /\ ImageEnd \in Nat
          /\ \A p \in PageOf(ImageEnd) .. PageOf(StackBase) - 1 : p \in UserPages
      BY <1>1, HeapPages DEF L
    <3>2. brk = ImageEnd
      <4>1. dests # << >>
        BY <2>2, EmptySeq
      <4> QED BY <1>1, <4>1, ProgramLength DEF Heap
    <3>3. ImageEnd' = ImageEnd
      BY <1>1 DEF ImageEnd
    <3>4. L \in L .. lo - 1
      BY <2>3, <2>4
    <3>5. ASSUME NEW p \in L .. lo - 1 PROVE W(p) # None <=> p <= L
      <4>1. p \in UserPages /\ p \notin lo .. hi /\ p \in Nat
        BY <2>3, <2>4, <3>1, <3>5 DEF lo
      <4>2. W(p) = UserWalk(p)
        BY <2>10, <4>1
      <4>3. p <= L => p = L
        BY <2>3, <4>1
      <4> QED BY <2>3, <4>1, <4>2, <4>3
    <3>6. PICK h \in Nat : h = L
      BY <2>3
    <3>7. HeapUpTo(h)'
      BY <3>1, <3>3, <3>4, <3>5, <3>6 DEF HeapUpTo, UserWalk, lo
    <3>8. brk' >= ImageEnd'
      BY <1>1, <3>1, <3>2, <3>3
    <3>9. Covers(pt_idx, pf_idx, h, SegmentSlack(Len(program)) + StackSlack)'
      BY <1>1, <2>11, <3>6
    <3> QED BY <3>7, <3>8, <3>9 DEF HeapGrows
  <2>18. FramesFollow'
    BY <1>1, <2>4, <2>9, GrownFollow DEF lo
  <2> QED BY <2>13, <2>14, <2>15, <2>16, <2>17, <2>18, <2>12
<1> QED BY <1>3, <1>4

(* The break moves up: the heap takes the pages behind its highest one     *)
LEMMA FramesHeap ==
  ASSUME IInv, FInv, pc = "user", pc' = "user", program' = program, dests' = dests,
         NEW b \in Nat, b > brk, b <= StackBase, brk' = b,
         updir' = mm_malloc(brk, b - brk).updir,
         ptables' = mm_malloc(brk, b - brk).ptables,
         pt_idx' = mm_malloc(brk, b - brk).pt_idx,
         pf_idx' = mm_malloc(brk, b - brk).pf_idx
  PROVE  FInv'
<1> DEFINE len == b - brk
           B == PageOf(ImageEnd)
           S == PageOf(StackBase)
           W(p) == Walk(updir', ptables', p)
<1> USE DEF IInv, FInv
<1> DEFINE room == SegmentSlack(Len(program)) + StackSlack
<1>1. PICK h \in Nat : HeapUpTo(h) /\ Covers(pt_idx, pf_idx, h, room)
  BY DEF HeapGrows
<1> HIDE DEF room
<1>2. /\ ImageEnd \in Nat /\ B \in Nat /\ S \in Nat /\ B < S
      /\ \A p \in B .. S - 1 : p \in UserPages
  BY HeapPages, StackPage
<1>3. /\ h \in B .. S - 1
      /\ \A p \in B .. S - 1 : UserWalk(p) # None <=> p <= h
      /\ h # B => UserWalk(h) = pf_idx - 1
  BY <1>1 DEF HeapUpTo
<1>4. brk \in Nat /\ brk >= ImageEnd /\ PageSize \in Nat \ {0} /\ b - 1 \in Nat
      /\ brk + len - 1 = b - 1
  BY MemoryAssumption DEF Shape, HeapGrows
<1>5. /\ PageOf(brk) \in Nat /\ PageOf(b - 1) \in Nat
      /\ B <= PageOf(brk) /\ PageOf(brk) <= PageOf(b - 1) /\ PageOf(b - 1) < S
  <2>1. PageOf(brk) \in Nat /\ PageOf(b - 1) \in Nat
    BY <1>4, DivMod DEF PageOf
  <2>2. B <= PageOf(brk)
    BY <1>2, <1>4, DivMono DEF PageOf
  <2>3. PageOf(brk) <= PageOf(b - 1)
    BY <1>4, DivMono DEF PageOf
  <2>4. PageOf(b - 1) < S
    <3>1. StackBase \in Nat
      BY StackBaseBounds
    <3> QED BY <1>4, <3>1, StackPage
  <2> QED BY <2>1, <2>2, <2>3, <2>4
(* The break is in the highest page of the heap or right behind it *)
<1>6. PageOf(brk) <= h + 1
  <2>1. CASE brk = ImageEnd
    BY <1>2, <1>3, <2>1
  <2>2. CASE brk # ImageEnd
    <3>1. brk - 1 \in Nat /\ brk - 1 \in ImageEnd .. brk - 1
      BY <1>2, <1>4, <2>2
    <3>2. UserWalk(PageOf(brk - 1)) # None
      BY <3>1 DEF Heap, HeapMapped
    <3>3. PageOf(brk - 1) \in Nat /\ B <= PageOf(brk - 1) /\ PageOf(brk - 1) <= PageOf(brk)
      <4>1. ImageEnd <= brk - 1 /\ brk - 1 <= brk
        BY <1>2, <1>4, <3>1
      <4>2. PageOf(brk - 1) \in Nat
        BY <1>4, <3>1, DivMod DEF PageOf
      <4>3. B <= PageOf(brk - 1)
        BY <1>2, <1>4, <3>1, <4>1, DivMono DEF PageOf
      <4>4. PageOf(brk - 1) <= PageOf(brk)
        BY <1>4, <3>1, <4>1, DivMono DEF PageOf
      <4> QED BY <4>2, <4>3, <4>4
    <3>4. PageOf(brk - 1) <= h
      BY <1>2, <1>3, <1>5, <3>2, <3>3
    <3>5. PageOf(brk) <= PageOf(brk - 1) + 1
      <4>1. (brk - 1) + 1 = brk
        BY <1>4
      <4> QED BY <1>4, <3>1, <4>1, DivNext DEF PageOf
    <3> QED BY <1>3, <1>5, <3>3, <3>4, <3>5
  <2> QED BY <2>1, <2>2
<1> DEFINE lo == h + 1
           hi == IF PageOf(b - 1) > h THEN PageOf(b - 1) ELSE h
<1>7. lo \in Nat /\ hi \in Nat /\ hi >= lo - 1 /\ hi \in B .. S - 1 /\ h <= hi
  BY <1>2, <1>3, <1>5
<1>8. PagesOf(brk, len) = PageOf(brk) .. PageOf(b - 1)
  BY <1>4 DEF PagesOf
<1> HIDE DEF B, S, len
<1>9. \A p \in PagesOf(brk, len) : p \in UserPages /\ p \in B .. S - 1
  BY <1>2, <1>5, <1>8
<1>10. {p \in PagesOf(brk, len) : UserWalk(p) = None} = lo .. hi
  BY <1>2, <1>3, <1>5, <1>6, <1>8, <1>9
<1>11. /\ updir' = mm_malloc(brk, len).updir /\ ptables' = mm_malloc(brk, len).ptables
       /\ pf_idx' = mm_malloc(brk, len).pf_idx
       /\ pt_idx' = mm_malloc(brk, len).pt_idx
  BY DEF len
<1> HIDE DEF lo, hi
<1>12. Grown(lo, hi) /\ OwnTables(updir')
  BY <1>7, <1>9, <1>10, <1>11, GrownByMalloc, MallocWalk
<1>13. /\ pf_idx \in Nat /\ pf_idx' = pf_idx + (hi - lo + 1)
       /\ \A p \in UserPages : W(p) = IF p \in lo .. hi THEN pf_idx + (p - lo) ELSE UserWalk(p)
  BY <1>12 DEF Grown, Shape, UserWalk
<1>14. ImageEnd' = ImageEnd
  BY DEF ImageEnd
<1>15. OwnTables(updir)'
  BY <1>12 DEF OwnTables
<1>16. FramesTaken'
  BY <1>12, GrownTaken
<1>17. Loading'
  BY DEF Loading
<1>18. ImageMapped'
  BY <1>12, GrownImage DEF ImageMapped, SegmentPages, FirstPage, UserWalk
(* Tables are taken for directory indices behind the one of page h only *)
<1>19. Covers(pt_idx', pf_idx', hi, room) /\ pt_idx' \in Nat
  <2>1. h \in UserPages /\ UserWalk(h) # None
    BY <1>2, <1>3
  <2>2. \A p \in PagesOf(brk, len) : p \in UserPages /\ (UserWalk(p) = None => p \in h + 1 .. hi)
    BY <1>9, <1>10 DEF lo
  <2>3. room \in Nat
    BY ProgramSlack DEF room, Shape
  <2>4. pt_idx' \in Nat /\ Covers(pt_idx', pf_idx + (hi - h), hi, room)
    BY <1>1, <1>7, <1>11, <2>1, <2>2, <2>3, CoversBehind
  <2>5. pf_idx' = pf_idx + (hi - h)
    BY <1>7, <1>13 DEF lo
  <2> QED BY <2>4, <2>5
<1>20. HeapGrows'
  <2>1. PICK g \in Nat : g = hi
    BY <1>7
  <2>2. ASSUME NEW p \in B .. S - 1 PROVE W(p) # None <=> p <= hi
    <3>1. p \in UserPages /\ p \in Nat
      BY <1>2, <2>2
    <3>2. CASE p \in lo .. hi
      BY <1>7, <1>13, <3>1, <3>2 DEF None
    <3>3. CASE p \notin lo .. hi
      <4>1. W(p) = UserWalk(p)
        BY <1>13, <3>1, <3>3
      <4>2. UserWalk(p) # None <=> p <= h
        BY <1>3
      <4>3. p <= hi <=> p <= h
        BY <1>7, <3>1, <3>3 DEF lo
      <4> QED BY <4>1, <4>2, <4>3
    <3> QED BY <3>2, <3>3
  <2>3. hi # B => W(hi) = pf_idx' - 1
    <3>1. hi \in UserPages
      BY <1>2, <1>7
    <3>2. CASE hi \in lo .. hi
      BY <1>7, <1>13, <3>1, <3>2
    <3>3. CASE hi \notin lo .. hi
      <4>1. hi = h /\ pf_idx' = pf_idx
        BY <1>7, <1>13, <3>3 DEF lo
      <4> QED BY <1>3, <1>13, <3>1, <3>3, <4>1
    <3> QED BY <3>2, <3>3
  <2>4. HeapUpTo(g)'
    BY <1>7, <1>14, <2>1, <2>2, <2>3 DEF HeapUpTo, UserWalk, B, S
  <2>5. brk' >= ImageEnd'
    BY <1>2, <1>4, <1>14
  <2>6. Covers(pt_idx, pf_idx, g, SegmentSlack(Len(program)) + StackSlack)'
    BY <1>19, <2>1 DEF room
  <2> QED BY <2>4, <2>5, <2>6 DEF HeapGrows
<1>21. TablesFilled'
  <2>1. pf_idx' \in Nat /\ pf_idx' >= FirstFrame
    <3>1. FirstFrame \in Nat /\ pf_idx >= FirstFrame
      BY Sizes DEF TablesFilled
    <3> QED BY <1>7, <1>13, <3>1 DEF lo
  <2>2. room \in Nat
    BY ProgramSlack DEF room, Shape
  <2>3. Covers(pt_idx', pf_idx', 0, room)
    BY <1>7, <1>19, <2>1, <2>2, CoversAll
  <2> QED BY <2>1, <2>3 DEF TablesFilled, room
<1>22. FramesFollow'
  <2>1. ASSUME NEW p \in UserPages, p + 1 = lo, p # B PROVE UserWalk(p) = pf_idx - 1
    <3>1. p = h
      BY <1>7, <2>1, UserDirsAreDirs DEF lo
    <3> QED BY <1>3, <2>1, <3>1
  <2>2. ASSUME NEW q \in UserPages, lo <= hi, q = hi + 1, UserWalk(q) # None PROVE q = S
    <3>1. ASSUME q # S PROVE FALSE
      <4>1. q \in B .. S - 1 /\ q > h /\ q \in Nat
        BY <1>2, <1>7, <2>2, <3>1
      <4> QED BY <1>3, <2>2, <4>1
    <3> QED BY <3>1
  <2> QED BY <1>12, <2>1, <2>2, GrownFollow DEF B, S
<1> QED BY <1>15, <1>16, <1>17, <1>18, <1>20, <1>22, <1>21

LEMMA FramesSbrk ==
  ASSUME IInv, FInv, NEW b \in Breaks, sbrk(b)
  PROVE  FInv'
<1> DEFINE r == mm_malloc(brk, b - brk)
<1>1. pc = "user" /\ b > ImageEnd /\ UNCHANGED <<program, dests>>
  BY DEF sbrk, mm_brk
<1>2. b \in Nat /\ b <= StackBase
  BY BreaksAssumption
<1>3. brk >= ImageEnd /\ ImageEnd \in Nat
  BY <1>1, HeapPages DEF IInv, FInv, HeapGrows
<1>4. CASE b > brk /\ ~ r.ok
  BY <1>1, <1>4, FramesStay DEF sbrk, mm_brk, Allocate
<1>5. CASE b > brk /\ r.ok
  <2>1. /\ updir' = r.updir /\ ptables' = r.ptables /\ pt_idx' = r.pt_idx
        /\ pf_idx' = r.pf_idx /\ pc' = "user" /\ brk' = b
    BY <1>5 DEF sbrk, mm_brk, Allocate
  <2> QED BY <1>1, <1>2, <1>5, <2>1, FramesHeap
<1>6. CASE ~(b > brk)
  <2>1. brk' = b /\ UNCHANGED <<pc, updir, ptables, pt_idx, pf_idx>>
    BY <1>6 DEF sbrk, mm_brk
  <2> QED BY <1>1, <1>2, <1>3, <2>1, FramesStay
<1> QED BY <1>4, <1>5, <1>6

LEMMA FramesNext == IInv /\ FInv /\ [Next]_vars => FInv'
<1> SUFFICES ASSUME IInv, FInv, [Next]_vars PROVE FInv'
  OBVIOUS
<1>1. /\ program \in Programs /\ pf_idx \in Nat /\ pf_idx >= FirstFrame
      /\ pc \in {"start", "init_mm"} => pt_idx = 0
  BY DEF IInv, Shape, FInv, TablesFilled, TablesTaken
<1>2. pc = "user" => brk >= ImageEnd
  BY DEF FInv, HeapGrows
<1>3. CASE init_page
  <2>1. dests' = << >> /\ pc' = "init_mm" /\ updir' = updir /\ \A d \in Dirs : updir[d] = None
    BY <1>3 DEF init_page, FInv, Loading
  <2>2. UNCHANGED <<program, pt_idx, pf_idx>> /\ pc = "start"
    BY <1>3 DEF init_page
  <2> QED BY <1>1, <2>1, <2>2, UserDirsAreDirs, FramesEmpty
<1>4. CASE init_mm
  <2>1. dests' = << >> /\ pc' = "load"
        /\ updir' = [d \in Dirs |-> IF d \in KernelDirs THEN kpdir[d] ELSE None]
    BY <1>4 DEF init_mm, FInv, Loading
  <2>2. \A d \in UserDirs : updir'[d] = None
    BY <2>1, UserDirsAreDirs
  <2>3. UNCHANGED <<program, pt_idx, pf_idx>> /\ pc = "init_mm"
    BY <1>4 DEF init_mm
  <2> QED BY <1>1, <2>1, <2>2, <2>3, FramesEmpty
<1>5. CASE LoadSegment
  BY <1>5, FramesLoadSegment
<1>6. CASE FinishLoad
  BY <1>6, FramesFinishLoad
<1>7. ASSUME NEW b \in Breaks, sbrk(b) PROVE FInv'
  BY <1>7, FramesSbrk
<1>8. ASSUME NEW p \in Pages, NEW victim \in Entries, TlbFill(p, victim) PROVE FInv'
  BY <1>2, <1>8, FramesStay DEF TlbFill, mmVars
<1>9. CASE Restart
  <2>1. dests' = << >> /\ pc' = "start" /\ \A d \in Dirs : updir'[d] = None
    BY <1>9 DEF Restart, mmRestart, NoDir
  <2>2. program' \in Programs /\ pt_idx' = 0 /\ pf_idx' = FirstFrame
    BY <1>9 DEF Restart, mmRestart
  <2> QED BY <2>1, <2>2, Sizes, UserDirsAreDirs, FramesEmpty
<1>10. CASE UNCHANGED vars
  BY <1>2, <1>10, FramesStay DEF vars, mmVars
<1> QED BY <1>3, <1>4, <1>5, <1>6, <1>7, <1>8, <1>9, <1>10 DEF Next, Kernel

-----------------------------------------------------------------------------
(* The theorems about frames *)

(* The second invariant: fresh tables are never shared, no frame is given  *)
(* twice, and where the next one goes.                                     *)
THEOREM FramesInvariant == Spec => []FInv
<1>1. Init => FInv
  BY FramesStart
<1>2. IInv /\ FInv /\ [Next]_vars => FInv'
  BY FramesNext
<1> QED BY <1>1, <1>2, PagingInvariant, PTL DEF Spec

(* mm_malloc gives no frame to two pages, and pages that follow each other *)
(* get frames that do, but behind the image and at the stack: where        *)
(* laddr_read may cross pages with one translation.                        *)
THEOREM FramesAreConsecutive == Spec => []FramesFollow
<1>1. FInv => FramesFollow
  BY DEF FInv
<1> QED BY <1>1, FramesInvariant, PTL

(* Where a range of bytes lies whose pages have frames that follow each    *)
(* other                                                                   *)
LEMMA BytesFollow ==
  ASSUME NEW n \in Nat \ {0}, NEW a \in Nat, NEW k \in Nat, NEW f \in Int
  PROVE  (f + ((a + k) \div n - a \div n)) * n + ((a + k) % n) = f * n + (a % n) + k
<1> DEFINE q == (a + k) \div n
           p == a \div n
           x == (a + k) % n
           y == a % n
<1>1. q \in Nat /\ p \in Nat /\ x \in Nat /\ y \in Nat /\ a + k = n * q + x /\ a = n * p + y
  <2>1. PICK c \in Nat : c = a + k
    OBVIOUS
  <2>2. q \in Nat /\ x \in Nat /\ a + k = n * q + x
    <3>1. c \div n \in Nat /\ c % n \in 0 .. n - 1 /\ c = n * (c \div n) + (c % n)
      BY DivMod
    <3>2. q = c \div n /\ x = c % n
      BY <2>1
    <3> HIDE DEF q, x
    <3> QED BY <2>1, <3>1, <3>2
  <2>3. p \in Nat /\ y \in Nat /\ a = n * p + y
    BY DivMod
  <2> QED BY <2>2, <2>3
<1> HIDE DEF q, p, x, y
<1>2. (f + (q - p)) * n = f * n + n * q - n * p
  BY <1>1
<1>3. (f + (q - p)) * n + x = f * n + y + k
  <2> DEFINE u == f * n
             v == n * q
             w == n * p
  <2>1. u \in Int /\ v \in Int /\ w \in Int
    BY <1>1
  <2>2. (f + (q - p)) * n = u + v - w /\ a + k = v + x /\ a = w + y
    BY <1>1, <1>2
  <2> DEFINE l == (f + (q - p)) * n
  <2> HIDE DEF u, v, w, l
  <2>3. l = u + v - w
    BY <2>2 DEF l
  <2>4. l + x = u + y + k
    BY <1>1, <2>1, <2>2, <2>3
  <2> QED BY <2>4 DEF l, u
<1> QED BY <1>3 DEF q, p, x, y

(* Every byte of a loaded segment stays at the address the loader copied   *)
(* it to, for all segments of all programs and whatever the program does   *)
(* with its break.                                                         *)
THEOREM ImageStaysInPlace == Spec => []ImageInPlace
<1>1. IInv /\ FInv => ImageInPlace
  <2> SUFFICES ASSUME IInv, FInv, NEW s \in DOMAIN dests,
                      NEW k \in 0 .. program[s].memsz - 1
               PROVE  Physical(program[s].vaddr + k) = dests[s] + k
    BY DEF ImageInPlace
  <2> DEFINE a == program[s].vaddr
             f == UserWalk(FirstPage(s))
             p == PageOf(a + k)
  <2> USE DEF IInv, FInv
  <2>1. s \in 1 .. Len(dests) /\ s \in 1 .. Len(program)
    <3>1. /\ DOMAIN dests = 1 .. Len(dests) /\ Len(dests) \in Nat
          /\ Len(program) \in Nat /\ Len(dests) <= Len(program)
      BY ProgramLength, LenProperties DEF Shape
    <3> QED BY <3>1
  <2>2. a \in Nat /\ program[s].memsz \in Nat \ {0} /\ k \in Nat /\ a + k <= SegmentEnd(s)
        /\ SegmentEnd(s) \in Nat
    BY <2>1, SegmentTyped DEF SegmentEnd
  <2>3. /\ FirstPage(s) \in Nat /\ LastPage(s) \in Nat
        /\ SegmentPages(s) = FirstPage(s) .. LastPage(s)
        /\ FirstPage(s) \in SegmentPages(s)
        /\ \A x \in SegmentPages(s) : x \in UserPages
    BY <2>1, SegmentsPages
  <2>4. p \in SegmentPages(s)
    <3>1. FirstPage(s) <= p /\ p <= LastPage(s) /\ p \in Nat
      <4>1. a + k \in Nat /\ a <= a + k /\ PageSize \in Nat \ {0}
        BY <2>2, MemoryAssumption
      <4>2. p \in Nat
        BY <4>1, DivMod DEF PageOf
      <4>3. FirstPage(s) <= p
        BY <2>2, <4>1, DivMono DEF FirstPage, PageOf
      <4>4. p <= LastPage(s)
        BY <2>2, <4>1, DivMono DEF LastPage, PageOf
      <4> QED BY <4>2, <4>3, <4>4
    <3> QED BY <2>3, <3>1
  <2>5. dests[s] = f * PageSize + (a % PageSize)
        /\ UserWalk(p) = f + (p - FirstPage(s)) /\ f # None
    BY <2>1, <2>3, <2>4 DEF ImageMapped
  <2>6. f \in Int
    BY <2>3, UserWalkTyped DEF None
  <2>7. (f + (p - FirstPage(s))) * PageSize + ((a + k) % PageSize)
          = f * PageSize + (a % PageSize) + k
    <3>1. PageSize \in Nat \ {0}
      BY MemoryAssumption
    <3>2. p = (a + k) \div PageSize /\ FirstPage(s) = a \div PageSize
      BY DEF FirstPage, PageOf
    <3> HIDE DEF a, f, p
    <3>3. (f + ((a + k) \div PageSize - a \div PageSize)) * PageSize + ((a + k) % PageSize)
            = f * PageSize + (a % PageSize) + k
      BY <2>2, <2>6, <3>1, BytesFollow
    <3> QED BY <3>2, <3>3
  <2> QED BY <2>5, <2>7 DEF Physical
<1> QED BY <1>1, PagingInvariant, FramesInvariant, PTL

-----------------------------------------------------------------------------
(* The types: frames and tables stay within memory and uptable *)

FrameTables == [Tables -> [Indices -> Frames \union {None}]]

TInv ==
  /\ pf_idx <= PHY_PAGES
  /\ ptables \in FrameTables
  /\ tlb \in [Entries -> [valid : BOOLEAN, vpn : Pages, pte : Frames]]

(* Frame number x of table t of the kernel                                 *)
LEMMA IdenticalFrame ==
  ASSUME NEW t \in Nat, t < KTables, NEW x \in Indices
  PROVE  t * NR_PTE + x \in Frames
<1>1. NR_PTE \in Nat \ {0} /\ KTables \in Nat /\ x \in Nat /\ x <= NR_PTE - 1
  BY MemoryAssumption DEF Indices
<1>2. (t + 1) * NR_PTE <= KTables * NR_PTE
  BY <1>1
<1>3. (t + 1) * NR_PTE = t * NR_PTE + NR_PTE
  BY <1>1
<1>4. PICK a \in Nat, b \in Nat : a = t * NR_PTE /\ b = KTables * NR_PTE
  BY <1>1
<1>5. a + x \in 0 .. b - 1
  BY <1>1, <1>2, <1>3, <1>4
<1> QED BY <1>4, <1>5 DEF Frames, PHY_PAGES

(* Memory and address space are not empty                                  *)
LEMMA FirstOfAll == 0 \in Frames /\ 0 \in Pages /\ PHY_PAGES \in Nat
<1>1. NR_PTE \in Nat \ {0} /\ KTables \in Nat \ {0} /\ NR_PDE \in Nat \ {0}
  BY MemoryAssumption
<1>2. KTables * NR_PTE \in Nat \ {0} /\ NR_PDE * NR_PTE \in Nat \ {0}
  BY <1>1
<1> QED BY <1>2 DEF Frames, Pages, PHY_PAGES

LEMMA EmptyTyped ==
  /\ NoTables \in FrameTables
  /\ EmptyTlb \in [Entries -> [valid : BOOLEAN, vpn : Pages, pte : Frames]]
BY FirstOfAll DEF NoTables, FrameTables, EmptyTlb

(* The assertion of mm_malloc keeps all frames it gives out within memory  *)
LEMMA MallocFrames ==
  ASSUME Shape, ptables \in FrameTables, NEW va \in Nat, NEW len \in Nat \ {0},
         mm_malloc(va, len).ok
  PROVE  /\ mm_malloc(va, len).ptables \in FrameTables
         /\ mm_malloc(va, len).pf_idx <= PHY_PAGES
<1> DEFINE pages == PagesOf(va, len)
           new == NewDirs(pages)
           pdir == WithTables(new)
           missing == Missing(pages, pdir, Cleared(new))
           tabs == WithFrames(missing, pdir, Cleared(new))
<1>1. /\ pf_idx + Cardinality(missing) <= PHY_PAGES
      /\ mm_malloc(va, len).ptables = tabs
      /\ mm_malloc(va, len).pf_idx = pf_idx + Cardinality(missing)
  BY DEF mm_malloc
<1>2. IsFiniteSet(missing) /\ missing \in SUBSET Nat
  <2>1. missing \in SUBSET pages
    BY DEF Missing
  <2> QED BY <2>1, PagesFinite, FS_Subset
<1>3. ASSUME NEW t \in Tables, NEW x \in Indices
      PROVE  Cleared(new)[t][x] \in Frames \union {None}
  BY DEF Cleared, FrameTables
<1> HIDE DEF pages, new, pdir, missing
<1>4. ASSUME NEW p \in missing PROVE Frame(missing, p) \in Frames
  <2> DEFINE before == {q \in missing : q < p}
  <2>1. p \in Nat
    BY <1>2
  <2>2. before \in SUBSET (missing \ {p})
    BY <1>2, <2>1
  <2>3. IsFiniteSet(missing \ {p}) /\ Cardinality(missing \ {p}) = Cardinality(missing) - 1
    BY <1>2, FS_RemoveElement
  <2>4. Cardinality(before) <= Cardinality(missing) - 1 /\ Cardinality(before) \in Nat
    BY <2>2, <2>3, FS_Subset, FS_CardinalityType
  <2>5. pf_idx \in Nat /\ Cardinality(missing) \in Nat /\ PHY_PAGES \in Nat
    BY <1>2, FS_CardinalityType, FirstOfAll DEF Shape
  <2>6. Frame(missing, p) = pf_idx + Cardinality(before)
    BY DEF Frame
  <2> HIDE DEF before
  <2> QED BY <1>1, <2>4, <2>5, <2>6 DEF Frames
<1>5. ASSUME NEW t \in Tables, NEW x \in Indices
      PROVE  tabs[t][x] \in Frames \union {None}
  <2>1. CASE PagesAt(missing, pdir, t, x) = {}
    BY <1>3, <2>1 DEF WithFrames
  <2>2. CASE PagesAt(missing, pdir, t, x) # {}
    <3> DEFINE p == CHOOSE p \in PagesAt(missing, pdir, t, x) : TRUE
    <3>1. p \in missing
      <4>1. p \in PagesAt(missing, pdir, t, x)
        BY <2>2
      <4> QED BY <4>1 DEF PagesAt
    <3>2. tabs[t][x] = Frame(missing, p)
      BY <2>2 DEF WithFrames
    <3> HIDE DEF p
    <3> QED BY <1>4, <3>1, <3>2
  <2> QED BY <2>1, <2>2
<1>6. tabs = [t \in Tables |-> [x \in Indices |-> tabs[t][x]]]
  BY DEF WithFrames
<1> HIDE DEF tabs
<1>7. tabs \in FrameTables
  BY <1>5, <1>6 DEF FrameTables
<1> QED BY <1>1, <1>7

LEMMA VideoFrames ==
  ASSUME NEW tabs \in FrameTables
  PROVE  VideoTables(tabs) \in FrameTables
<1>1. ASSUME NEW t \in Tables, NEW x \in Indices
      PROVE  VideoTables(tabs)[t][x] \in Frames \union {None}
  <2>1. CASE \E i \in 0 .. NR_PT - 1 : t = VideoTable(i)
    <3>1. t - KTables \in Nat /\ t - KTables < KTables
      BY <2>1, MemoryAssumption DEF VideoTable
    <3>2. PICK k \in Nat : k = t - KTables
      BY <3>1
    <3>3. VideoTables(tabs)[t][x] = k * NR_PTE + x
      BY <2>1, <3>2 DEF VideoTables
    <3> QED BY <3>1, <3>2, <3>3, IdenticalFrame
  <2>2. CASE ~ \E i \in 0 .. NR_PT - 1 : t = VideoTable(i)
    BY <2>2 DEF VideoTables, FrameTables
  <2> QED BY <2>1, <2>2
<1>2. VideoTables(tabs) = [t \in Tables |-> [x \in Indices |-> VideoTables(tabs)[t][x]]]
  BY DEF VideoTables
<1> QED BY <1>1, <1>2 DEF FrameTables

LEMMA TypesNext == IInv /\ TInv /\ [Next]_vars => TInv'
<1> SUFFICES ASSUME IInv, TInv, [Next]_vars PROVE TInv'
  OBVIOUS
<1> USE DEF IInv, TInv
<1>1. CASE init_page /\ tlb' = tlb
  <2>1. ASSUME NEW t \in Tables, NEW x \in Indices
        PROVE  (IF t < KTables THEN t * NR_PTE + x ELSE ptables[t][x]) \in Frames \union {None}
    <3>1. t \in Nat
      BY DEF Tables
    <3>2. ptables[t][x] \in Frames \union {None}
      BY DEF FrameTables
    <3> QED BY <3>1, <3>2, IdenticalFrame
  <2> QED BY <1>1, <2>1 DEF init_page, FrameTables
<1>2. CASE init_mm /\ tlb' = tlb
  BY <1>2 DEF init_mm
<1>3. CASE LoadSegment /\ tlb' = tlb
  <2> DEFINE va == program[Len(dests) + 1].vaddr
             len == program[Len(dests) + 1].memsz
             r == mm_malloc(va, len)
  <2>1. Allocate(r, "load") /\ Len(dests) < Len(program)
    BY <1>3 DEF LoadSegment
  <2>2. va \in Nat /\ len \in Nat \ {0}
    <3>1. Len(dests) + 1 \in 1 .. Len(program)
      BY <2>1, LenProperties, ProgramLength DEF Shape
    <3> QED BY <3>1, SegmentTyped
  <2>3. r.ok => r.ptables \in FrameTables /\ r.pf_idx <= PHY_PAGES
    BY <2>2, MallocFrames
  <2> HIDE DEF r
  <2> QED BY <1>3, <2>1, <2>3 DEF Allocate
<1>4. CASE FinishLoad /\ tlb' = tlb
  <2> DEFINE r == mm_malloc(StackBase, STACK_PAGES * PageSize)
             s == [r EXCEPT !.ptables = VideoTables(@)]
  <2>1. Allocate(s, "user")
    BY <1>4 DEF FinishLoad
  <2>2. r = [ok |-> r.ok, updir |-> r.updir, ptables |-> r.ptables,
             pt_idx |-> r.pt_idx, pf_idx |-> r.pf_idx, addr |-> r.addr]
    BY DEF mm_malloc
  <2>3. r.ok => r.ptables \in FrameTables /\ r.pf_idx <= PHY_PAGES
    <3>1. STACK_PAGES * PageSize \in Nat \ {0}
      <4>1. STACK_PAGES \in Nat \ {0} /\ PageSize \in Nat \ {0}
        BY MemoryAssumption
      <4> QED BY <4>1
    <3> QED BY <3>1, StackBaseBounds, MallocFrames
  <2> HIDE DEF r
  <2>4. s.ok = r.ok /\ s.ptables = VideoTables(r.ptables) /\ s.pf_idx = r.pf_idx
    BY <2>2
  <2>5. s.ok => s.ptables \in FrameTables /\ s.pf_idx <= PHY_PAGES
    BY <2>3, <2>4, VideoFrames
  <2> HIDE DEF s
  <2> QED BY <1>4, <2>1, <2>5 DEF Allocate
<1>5. ASSUME NEW b \in Breaks, sbrk(b), tlb' = tlb PROVE TInv'
  <2> DEFINE r == mm_malloc(brk, b - brk)
  <2>1. CASE b > brk
    <3>1. brk \in Nat /\ b \in Nat /\ b - brk \in Nat \ {0}
      BY <2>1, BreaksAssumption DEF Shape
    <3>2. r.ok => r.ptables \in FrameTables /\ r.pf_idx <= PHY_PAGES
      BY <3>1, MallocFrames
    <3>3. Allocate(r, "user")
      BY <1>5, <2>1 DEF sbrk, mm_brk
    <3> HIDE DEF r
    <3> QED BY <1>5, <3>2, <3>3 DEF Allocate
  <2>2. CASE ~(b > brk)
    BY <1>5, <2>2 DEF sbrk, mm_brk
  <2> QED BY <2>1, <2>2
<1>6. ASSUME NEW p \in Pages, NEW victim \in Entries, TlbFill(p, victim) PROVE TInv'
  <2>1. page_walk(p) \in Frames
    <3>1. CurrentDir \in PDir
      BY DEF CurrentDir, Shape
    <3>2. p \div NR_PTE \in Dirs /\ p % NR_PTE \in Indices
      BY PageSplits
    <3>3. page_walk(p) # None
      BY <1>6 DEF TlbFill
    <3>4. page_walk(p) \in Frames \union {None}
      BY <3>1, <3>2 DEF page_walk, Walk, PDir, FrameTables
    <3> QED BY <3>3, <3>4
  <2> QED BY <1>6, <2>1 DEF TlbFill, mmVars
<1>7. CASE Restart
  BY <1>7, EmptyTyped, MemoryAssumption DEF Restart, mmRestart
<1>8. CASE UNCHANGED vars
  BY <1>8 DEF vars, mmVars
<1> QED BY <1>1, <1>2, <1>3, <1>4, <1>5, <1>6, <1>7, <1>8 DEF Next, Kernel

(* The tables of uptable do not run out before the frames do               *)
LEMMA TablesSuffice ==
  ASSUME IInv, FInv, TInv
  PROVE  pt_idx \in 0 .. NR_UPT
<1> DEFINE segments == Len(program) * (2 * (NR_PTE - 1))
           offset == 0 % NR_PTE
<1>1. program \in Programs /\ pt_idx \in Nat /\ pf_idx \in Nat /\ pf_idx <= PHY_PAGES
  BY DEF IInv, Shape, TInv
<1>2. pt_idx * NR_PTE + offset <= (pf_idx - FirstFrame) + (segments + StackSlack)
  BY DEF FInv, TablesFilled, Covers, SegmentSlack
<1>3. PHY_PAGES - FirstFrame + segments + StackSlack < (NR_UPT + 1) * NR_PTE
  BY <1>1, TablesAssumption DEF StackSlack
<1>4. /\ NR_PTE \in Nat \ {0} /\ FirstFrame \in Nat /\ NR_UPT \in Nat /\ PHY_PAGES \in Nat
      /\ StackSlack \in Nat /\ offset \in Nat
  BY MemoryAssumption, FirstOfAll, StackSlackTyped, OffsetTyped
<1>5. segments \in Nat
  BY <1>1, ProgramSlack, SegmentSlackTyped DEF SegmentSlack
<1>6. PICK a \in Nat, b \in Nat : a = pt_idx * NR_PTE /\ b = (NR_UPT + 1) * NR_PTE
  BY <1>1, <1>4
<1> HIDE DEF segments, offset
<1>7. a < b
  BY <1>1, <1>2, <1>3, <1>4, <1>5, <1>6
<1>8. ASSUME pt_idx >= NR_UPT + 1 PROVE FALSE
  <2>1. pt_idx * NR_PTE >= (NR_UPT + 1) * NR_PTE
    BY <1>1, <1>4, <1>8
  <2> QED BY <1>6, <1>7, <2>1
<1> QED BY <1>1, <1>4, <1>8

(* The addresses that mm_malloc returned to the loader                     *)
LEMMA DestsTyped ==
  ASSUME IInv, FInv
  PROVE  dests \in Seq(Nat)
<1> USE DEF IInv, FInv
<1>1. /\ dests \in Seq(Int) /\ Len(dests) \in Nat /\ dests \in [1 .. Len(dests) -> Int]
      /\ Len(program) \in Nat /\ Len(dests) <= Len(program)
  BY LenProperties, ProgramLength DEF Shape
<1>2. ASSUME NEW s \in 1 .. Len(dests) PROVE dests[s] \in Nat
  <2> DEFINE f == UserWalk(FirstPage(s))
             off == program[s].vaddr % PageSize
  <2>1. s \in 1 .. Len(program)
    BY <1>1
  <2>2. FirstPage(s) \in SegmentPages(s) /\ FirstPage(s) \in UserPages
        /\ program[s].vaddr \in Nat
    BY <2>1, SegmentsPages, SegmentTyped
  <2>3. dests[s] = f * PageSize + off /\ f # None
    BY <2>2 DEF ImageMapped
  <2>4. f \in Nat /\ off \in Nat /\ PageSize \in Nat
    <3>1. f \in Nat
      BY <2>2, <2>3, UserWalkTyped
    <3>2. PageSize \in Nat \ {0}
      BY MemoryAssumption
    <3>3. off \in 0 .. PageSize - 1
      BY <2>2, <3>2, DivMod
    <3> QED BY <3>1, <3>2, <3>3
  <2> HIDE DEF f, off
  <2>5. f * PageSize \in Nat
    BY <2>4
  <2> QED BY <2>3, <2>4, <2>5
<1>3. dests \in [1 .. Len(dests) -> Nat]
  BY <1>1, <1>2
<1> QED BY <1>1, <1>3, SeqDef

(* The type invariant, with the one bound nothing in the code asserts:     *)
(* mm_malloc never takes a table behind the end of uptable, since its      *)
(* assertion about the frames fails first.                                 *)
THEOREM TypeCorrect == Spec => []TypeOK
<1>1. Init => TInv
  BY EmptyTyped, MemoryAssumption DEF Init, mmInit, TInv
<1>2. IInv /\ TInv /\ [Next]_vars => TInv'
  BY TypesNext
<1>3. IInv /\ FInv /\ TInv => TypeOK
  <2> SUFFICES ASSUME IInv, FInv, TInv PROVE TypeOK
    OBVIOUS
  <2>1. pf_idx \in FirstFrame .. PHY_PAGES
    BY Sizes, FirstOfAll DEF IInv, Shape, FInv, TablesFilled, TInv
  <2>2. pt_idx \in 0 .. NR_UPT /\ dests \in Seq(Nat)
    BY TablesSuffice, DestsTyped
  <2> QED BY <2>1, <2>2 DEF TypeOK, IInv, Shape, TInv, FrameTables
<1> QED BY <1>1, <1>2, <1>3, PagingInvariant, FramesInvariant, PTL DEF Spec
=============================================================================
