------------------------------- MODULE Paging -------------------------------
(***************************************************************************)
(* The MMU of NEMU (tlb.c, page.c, memory.c) beside the kernel that writes *)
(* the page tables: a fully associative TLB with a random victim, filled   *)
(* by a walk of the current directory and emptied by init_mem alone.  A    *)
(* write of cr3 or of a table leaves it as it is, as the real TLB of an    *)
(* i386 would not be after a write of cr3.                                 *)
(*                                                                         *)
(* Only misses are steps: a hit changes nothing.                           *)
(***************************************************************************)
EXTENDS MemoryManager

CONSTANTS
  TlbSize,     \* entries, 64
  Breaks       \* bound: the addresses the program moves its break to

ASSUME TlbAssumption == TlbSize \in Nat \ {0}

ASSUME BreaksAssumption == \A b \in Breaks : b \in Nat /\ b <= StackBase

VARIABLE tlb   \* per entry: valid, vpn (its key) and the frame of its pte

vars == <<mmVars, tlb>>

Entries == 0 .. TlbSize - 1

CurrentDir == IF cr3 = "updir" THEN updir ELSE kpdir

(* page_walk, None where one of its assertions would end NEMU              *)
page_walk(p) == Walk(CurrentDir, ptables, p)

(* tlb_query: the entries whose key is the page with the valid bit set.    *)
(* scasl looks at one key more than there are, whose index is no hit.      *)
tlb_query(p) == {i \in Entries : tlb[i].valid /\ tlb[i].vpn = p}

EmptyTlb == [i \in Entries |-> [valid |-> FALSE, vpn |-> 0, pte |-> 0]]

Init == mmInit /\ tlb = EmptyTlb

(* The pages the kernel uses below KOFFSET: its own image and the video    *)
(* memory, the stack it booted with, and what it copies a segment to       *)
BootPages == {p \in Pages : p \div NR_PTE < NR_PT} \union {PHY_PAGES - 1}
CopyPages(s) == PagesOf(dests[s], program[s].memsz)
KernelPages == {p \in Pages : p \div NR_PTE \in KernelDirs}

(* The pages that running code may use: a program any                      *)
Used ==
  IF pc = "user" THEN Pages
  ELSE KernelPages \union BootPages
       \union IF pc = "load" /\ dests # << >> THEN CopyPages(Len(dests)) ELSE {}

(* laddr_read, laddr_write and instr_fetch of a page that is not cached:   *)
(* tlb_fetch replaces a random entry                                       *)
TlbFill(p, victim) ==
  /\ cr3 # "off" /\ pc # "stop"
  /\ p \in Used
  /\ tlb_query(p) = {}
  /\ page_walk(p) # None
  /\ tlb' = [tlb EXCEPT ![victim] =
               [valid |-> TRUE, vpn |-> p, pte |-> page_walk(p)]]
  /\ UNCHANGED mmVars

(* What page_translate returns for a page: the cached frame if there is    *)
(* one                                                                     *)
Translation(p) ==
  IF tlb_query(p) # {} THEN tlb[CHOOSE i \in tlb_query(p) : TRUE].pte
                       ELSE page_walk(p)

(* The last byte of the image, where the break starts                      *)
ImageEnd ==
  LET last == program[Len(program)] IN last.vaddr + last.memsz - 1

(* sbrk of the program: a break never goes below the end of the image      *)
sbrk(b) == b > ImageEnd /\ mm_brk(b)

Kernel ==
  /\ init_page \/ init_mm \/ LoadSegment \/ FinishLoad \/ \E b \in Breaks : sbrk(b)
  /\ UNCHANGED tlb

MutRestart_keepsTlb == mmRestart /\ UNCHANGED tlb   \* init_all_tlb left out

(* init_mem makes a new, empty TLB                                         *)
Restart == mmRestart /\ tlb' = EmptyTlb

Next ==
  \/ Kernel
  \/ \E p \in Pages, victim \in Entries : TlbFill(p, victim)
  \/ Restart

Spec == Init /\ [][Next]_vars

-----------------------------------------------------------------------------
Frames == 0 .. PHY_PAGES - 1
PDir == [Dirs -> Tables \union {None}]

(* Type invariant.  pt_idx \in 0 .. NR_UPT says that mm_malloc, which does *)
(* not bound pt_idx, never takes a table behind the end of uptable: the    *)
(* frames, whose bound it does assert, run out first.                      *)
TypeOK ==
  /\ program \in Programs
  /\ pc \in {"start", "init_mm", "load", "user", "stop"}
  /\ cr3 \in {"off", "kpdir", "updir"}
  /\ kpdir \in PDir
  /\ updir \in PDir
  /\ ptables \in [Tables -> [Indices -> Frames \union {None}]]
  /\ pt_idx \in 0 .. NR_UPT
  /\ pf_idx \in FirstFrame .. PHY_PAGES
  /\ brk \in Nat
  /\ dests \in Seq(Nat) /\ Len(dests) <= Len(program)
  /\ tlb \in [Entries -> [valid : BOOLEAN, vpn : Pages, pte : Frames]]

(* Pages the kernel may have left in the TLB with its own translation      *)
KernelLeftovers ==
  {PHY_PAGES - 1} \union UNION {CopyPages(s) : s \in DOMAIN dests}

(* Although nothing ever flushes the TLB while the machine runs, what it   *)
(* returns for a page is what a walk of the current tables returns, in the *)
(* kernel always and in the program everywhere but at the few addresses    *)
(* below PHY_MEM where the kernel has used the frame of that number: the   *)
(* switch of cr3 keeps the upper half and the video memory, and mm_malloc  *)
(* never changes an entry that is present.                                 *)
TranslationRight ==
  cr3 # "off" =>
    \A p \in Pages :
      Translation(p) = page_walk(p) \/ (cr3 = "updir" /\ p \in KernelLeftovers)

(* The bytes of a segment stay where the loader copied them: mm_malloc     *)
(* returns one address for a whole range and the loader copies to it       *)
(* without a break, which needs frames that follow each other, also when   *)
(* two segments share a page, and nobody may map these pages again.        *)
ImageInPlace ==
  \A s \in DOMAIN dests :
    \A k \in 0 .. program[s].memsz - 1 :
      Physical(program[s].vaddr + k) = dests[s] + k

(* Every byte up to the break is mapped for the program, the rest of the   *)
(* page the image ends in included, however often the break has moved up   *)
(* and down.                                                               *)
HeapMapped ==
  pc = "user" => \A a \in ImageEnd .. brk - 1 : UserWalk(PageOf(a)) # None

(* Pages that mm_malloc has mapped for the program                         *)
Allocated ==
  {p \in Pages : p \div NR_PTE \in NR_PT .. KOFFSET - 1 /\ UserWalk(p) # None}

(* laddr_read and laddr_write translate an access across two pages once,   *)
(* so the second page should lie in the frame after the first one's.  That *)
(* fails only where the heap begins, behind the page the image ends in:    *)
(* the stack has taken the frames in between.  And no frame is given to    *)
(* two pages.                                                              *)
FramesFollow ==
  \A p, q \in Allocated :
    /\ q # p => UserWalk(q) # UserWalk(p)
    /\ q = p + 1 /\ p # PageOf(ImageEnd) /\ q # PageOf(StackBase) =>
         UserWalk(q) = UserWalk(p) + 1

(* Until a restart a mapping of the directory in use is never taken back   *)
(* or moved: why the missing flush does not show in the program's memory.  *)
MappingsStay ==
  [][pc' # "start" /\ cr3' = cr3 /\ cr3 # "off" =>
       \A p \in Pages :
         page_walk(p) # None => Walk(CurrentDir, ptables, p)' = page_walk(p)]_vars
=============================================================================
