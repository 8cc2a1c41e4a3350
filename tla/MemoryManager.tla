---------------------------- MODULE MemoryManager ---------------------------
(***************************************************************************)
(* The page tables of the small kernel: init_page (kvm.c) maps the         *)
(* physical memory twice, at 0 and at KOFFSET; init_mm copies the upper    *)
(* half into the user's directory; the loader maps each segment and the    *)
(* stack with mm_malloc, adds the video memory and switches cr3; the       *)
(* program then moves its break.  A restart of NEMU loads the image of the *)
(* kernel again, with everything it has ever written gone.                 *)
(*                                                                         *)
(* A page directory gives each directory index a table, the tables are     *)
(* numbered: the kernel's (kptable), those of the video mapping (ptable in *)
(* vmem.c), then uptable of mm_malloc.  A table gives a frame per index.   *)
(***************************************************************************)
EXTENDS Integers, Sequences, FiniteSets

CONSTANTS
  PageSize,       \* bytes of a page, 4096
  NR_PTE,         \* entries of a table, 1024
  NR_PDE,         \* entries of a directory, 1024
  KTables,        \* PHY_MEM / PT_SIZE, 32: tables that map the memory once
  KOFFSET,        \* the directory index of 0xC0000000
  NR_PT,          \* tables of the video mapping, 1
  NR_UPT,         \* tables in uptable, 32
  FirstFrame,     \* what pf_idx starts with: the frame at 16 MB
  STACK_PAGES,    \* pages of the user's stack, 256
  Programs        \* per program its PT_LOAD segments: vaddr, memsz

Dirs == 0 .. NR_PDE - 1
Indices == 0 .. NR_PTE - 1
Pages == 0 .. NR_PDE * NR_PTE - 1
PHY_PAGES == KTables * NR_PTE
None == -1

KTable(i) == i
VideoTable(i) == KTables + i
UserTable(i) == KTables + NR_PT + i
Tables == 0 .. KTables + NR_PT + NR_PDE - 1   \* no directory needs more

PageOf(a) == a \div PageSize
KernelDirs == KOFFSET .. KOFFSET + KTables - 1
UserTop == KOFFSET * NR_PTE * PageSize
StackBase == UserTop - STACK_PAGES * PageSize

Segment == [vaddr : Nat, memsz : Nat \ {0}]

ASSUME MemoryAssumption ==
  /\ PageSize \in Nat \ {0} /\ NR_PTE \in Nat \ {0} /\ NR_PDE \in Nat
  /\ KTables \in Nat \ {0} /\ KOFFSET \in Nat /\ KOFFSET + KTables <= NR_PDE
  /\ NR_PT \in Nat /\ NR_PT <= KTables /\ KTables <= KOFFSET
  /\ NR_UPT \in Nat
  /\ FirstFrame \in Nat /\ FirstFrame <= PHY_PAGES
  /\ STACK_PAGES \in Nat \ {0} /\ STACK_PAGES <= KOFFSET * NR_PTE

(* A program has segments, linked in ascending order (as ELF says), above  *)
(* what the tables of the video mapping map and below the stack.           *)
ASSUME ProgramsAssumption ==
  \A prog \in Programs :
    /\ prog \in Seq(Segment) /\ prog # << >>
    /\ \A s \in DOMAIN prog :
         /\ prog[s].vaddr >= NR_PT * NR_PTE * PageSize
         /\ prog[s].vaddr + prog[s].memsz <= StackBase
         /\ \A r \in DOMAIN prog :
              r < s => prog[r].vaddr + prog[r].memsz <= prog[s].vaddr

(* uptable is long enough: when all frames are given out, at most a table  *)
(* less one entry is not filled at each end of a segment, and what lies    *)
(* below the stack in its table.  With 32 tables and the frames from 16 MB *)
(* to 128 MB that is so for a program of one or two segments, text and     *)
(* data; nothing in the code asks for it.                                  *)
ASSUME TablesAssumption ==
  \A prog \in Programs :
    PHY_PAGES - FirstFrame + Len(prog) * (2 * (NR_PTE - 1))
        + ((KOFFSET * NR_PTE - STACK_PAGES) % NR_PTE)
      < (NR_UPT + 1) * NR_PTE

VARIABLES
  program,     \* the one on the disk
  pc,          \* where the kernel is: "start", "init_mm", "load", "user", "stop"
  cr3,         \* "off" while cr0.pg is clear, else the directory it names
  kpdir, updir,
  ptables,     \* the entries of all tables
  pt_idx,      \* tables mm_malloc has taken of uptable
  pf_idx,      \* the next free frame
  brk,
  dests        \* the address mm_malloc returned for each segment so far

mmVars == <<program, pc, cr3, kpdir, updir, ptables, pt_idx, pf_idx, brk, dests>>

-----------------------------------------------------------------------------
(* The walk of a directory for a page: its frame, None where a present bit *)
(* is clear                                                                *)
Walk(pdir, tabs, p) ==
  IF pdir[p \div NR_PTE] = None THEN None
  ELSE tabs[pdir[p \div NR_PTE]][p % NR_PTE]

UserWalk(p) == Walk(updir, ptables, p)
Physical(a) == UserWalk(PageOf(a)) * PageSize + (a % PageSize)

PagesOf(va, len) == PageOf(va) .. PageOf(va + len - 1)

MutMissing_all(pages, pdir, tabs) == pages   \* the present bit is not tested

(* The pages of a range whose entry is not present                         *)
Missing(pages, pdir, tabs) == {p \in pages : Walk(pdir, tabs, p) = None}

(* mm_malloc, for the pages of a range in ascending order: a directory     *)
(* entry that is not present takes the next table of uptable, ...          *)
NewDirs(pages) ==
  {d \in Dirs : updir[d] = None /\ \E p \in pages : p \div NR_PTE = d}
WithTables(new) == [d \in Dirs |->
  IF d \in new THEN UserTable(pt_idx + Cardinality({e \in new : e < d}))
               ELSE updir[d]]

(* ... which is cleared, ...                                               *)
Cleared(new) == [t \in Tables |->
  IF \E i \in pt_idx .. pt_idx + Cardinality(new) - 1 : t = UserTable(i)
    THEN [x \in Indices |-> None] ELSE ptables[t]]

(* ... and a page that is not present takes the next frame                 *)
PagesAt(missing, pdir, t, x) ==
  {p \in missing : pdir[p \div NR_PTE] = t /\ p % NR_PTE = x}
Frame(missing, p) == pf_idx + Cardinality({q \in missing : q < p})
WithFrames(missing, pdir, tabs) == [t \in Tables |-> [x \in Indices |->
  IF PagesAt(missing, pdir, t, x) = {} THEN tabs[t][x]
  ELSE Frame(missing, CHOOSE p \in PagesAt(missing, pdir, t, x) : TRUE)]]

(* The call with a virtual address and a length.  ok is the assertion that *)
(* pf_idx stays below the end of memory; nothing asserts that pt_idx stays *)
(* below the end of uptable.  (len is an int, as is the increment of sbrk, *)
(* so a larger range never asks for none.)                                 *)
mm_malloc(va, len) ==
  LET pages == PagesOf(va, len)
      new == NewDirs(pages)
      pdir == WithTables(new)
      missing == Missing(pages, pdir, Cleared(new))
      tabs == WithFrames(missing, pdir, Cleared(new))
  IN [ok |-> pf_idx + Cardinality(missing) <= PHY_PAGES,
      updir |-> pdir,
      ptables |-> tabs,
      pt_idx |-> pt_idx + Cardinality(new),
      pf_idx |-> pf_idx + Cardinality(missing),
      addr |-> Walk(pdir, tabs, PageOf(va)) * PageSize + (va % PageSize)]

MutAllocate_noAssert(r, next) ==      \* frames behind the end of memory
  /\ ptables' = r.ptables
  /\ pt_idx' = r.pt_idx
  /\ pf_idx' = r.pf_idx
  /\ pc' = next

MutAllocate_sameFrame(r, next) ==     \* pf_idx is not stored
  IF r.ok THEN /\ ptables' = r.ptables
               /\ pt_idx' = r.pt_idx
               /\ UNCHANGED pf_idx
               /\ pc' = next
          ELSE pc' = "stop" /\ UNCHANGED <<ptables, pt_idx, pf_idx>>

(* What a call leaves behind; a failed assertion stops the machine         *)
Allocate(r, next) ==
  IF r.ok THEN /\ ptables' = r.ptables
               /\ pt_idx' = r.pt_idx
               /\ pf_idx' = r.pf_idx
               /\ pc' = next
          ELSE pc' = "stop" /\ UNCHANGED <<ptables, pt_idx, pf_idx>>

-----------------------------------------------------------------------------
NoDir == [d \in Dirs |-> None]
NoTables == [t \in Tables |-> [x \in Indices |-> None]]

(* A zeroed memory with the image of the kernel in it                      *)
mmInit ==
  /\ program \in Programs
  /\ pc = "start"
  /\ cr3 = "off"
  /\ kpdir = NoDir
  /\ updir = NoDir
  /\ ptables = NoTables
  /\ pt_idx = 0
  /\ pf_idx = FirstFrame
  /\ brk = 0
  /\ dests = << >>

(* init_page: the first tables of the directory and those from KOFFSET on  *)
init_page ==
  /\ pc = "start"
  /\ kpdir' = [d \in Dirs |-> IF d < KTables THEN KTable(d)
                              ELSE IF d \in KernelDirs THEN KTable(d - KOFFSET)
                              ELSE None]
  /\ ptables' = [t \in Tables |-> [x \in Indices |->
                   IF t < KTables THEN t * NR_PTE + x ELSE ptables[t][x]]]
  /\ cr3' = "kpdir"
  /\ pc' = "init_mm"
  /\ UNCHANGED <<program, updir, pt_idx, pf_idx, brk, dests>>

init_mm ==
  /\ pc = "init_mm"
  /\ updir' = [d \in Dirs |-> IF d \in KernelDirs THEN kpdir[d] ELSE None]
  /\ pc' = "load"
  /\ UNCHANGED <<program, cr3, kpdir, ptables, pt_idx, pf_idx, brk, dests>>

(* loader, one segment: it is mapped, then copied to the address that      *)
(* mm_malloc returned, through the kernel's mapping at 0                   *)
LoadSegment ==
  LET seg == program[Len(dests) + 1]
      r == mm_malloc(seg.vaddr, seg.memsz)
      end == seg.vaddr + seg.memsz - 1
  IN /\ pc = "load"
     /\ Len(dests) < Len(program)
     /\ Allocate(r, "load")
     /\ updir' = IF r.ok THEN r.updir ELSE updir
     /\ dests' = IF r.ok THEN Append(dests, r.addr) ELSE dests
     /\ brk' = IF r.ok /\ brk < end THEN end ELSE brk
     /\ UNCHANGED <<program, cr3, kpdir>>

(* create_video_mapping: its tables replace the first of the directory     *)
VideoDir(pdir) == [d \in Dirs |-> IF d < NR_PT THEN VideoTable(d) ELSE pdir[d]]
VideoTables(tabs) ==
  [t \in Tables |-> [x \in Indices |->
     IF \E i \in 0 .. NR_PT - 1 : t = VideoTable(i) THEN (t - KTables) * NR_PTE + x
                                                    ELSE tabs[t][x]]]

(* The end of loader: the stack, the video memory, and write_cr3           *)
FinishLoad ==
  LET r == mm_malloc(StackBase, STACK_PAGES * PageSize)
  IN /\ pc = "load"
     /\ Len(dests) = Len(program)
     /\ Allocate([r EXCEPT !.ptables = VideoTables(@)], "user")
     /\ updir' = IF r.ok THEN VideoDir(r.updir) ELSE updir
     /\ cr3' = IF r.ok THEN "updir" ELSE cr3
     /\ UNCHANGED <<program, kpdir, brk, dests>>

MutMmBrk_short(new_brk) ==            \* the last byte is left out
  LET r == mm_malloc(brk, new_brk - brk - 1)
  IN /\ pc = "user"
     /\ IF new_brk > brk
          THEN /\ Allocate(r, "user")
               /\ updir' = IF r.ok THEN r.updir ELSE updir
               /\ brk' = IF r.ok THEN new_brk ELSE brk
          ELSE brk' = new_brk /\ UNCHANGED <<pc, updir, ptables, pt_idx, pf_idx>>
     /\ UNCHANGED <<program, cr3, kpdir, dests>>

MutMmBrk_unmaps(new_brk) ==           \* and drops the tables above a lower break
  LET r == mm_malloc(brk, new_brk - brk)
  IN /\ pc = "user"
     /\ IF new_brk > brk
          THEN /\ Allocate(r, "user")
               /\ updir' = IF r.ok THEN r.updir ELSE updir
               /\ brk' = IF r.ok THEN new_brk ELSE brk
          ELSE /\ updir' = [d \in Dirs |->
                    IF d > PageOf(new_brk) \div NR_PTE /\ d < StackBase \div (PageSize * NR_PTE)
                      THEN None ELSE updir[d]]
               /\ brk' = new_brk
               /\ UNCHANGED <<pc, ptables, pt_idx, pf_idx>>
     /\ UNCHANGED <<program, cr3, kpdir, dests>>

(* mm_brk; a break that moves down unmaps nothing                          *)
mm_brk(new_brk) ==
  LET r == mm_malloc(brk, new_brk - brk)
  IN /\ pc = "user"
     /\ IF new_brk > brk
          THEN /\ Allocate(r, "user")
               /\ updir' = IF r.ok THEN r.updir ELSE updir
               /\ brk' = IF r.ok THEN new_brk ELSE brk
          ELSE brk' = new_brk /\ UNCHANGED <<pc, updir, ptables, pt_idx, pf_idx>>
     /\ UNCHANGED <<program, cr3, kpdir, dests>>

(* restart and load_image, whatever the machine was doing                  *)
mmRestart ==
  /\ program' \in Programs
  /\ pc' = "start"
  /\ cr3' = "off"
  /\ kpdir' = NoDir
  /\ updir' = NoDir
  /\ ptables' = NoTables
  /\ pt_idx' = 0
  /\ pf_idx' = FirstFrame
  /\ brk' = 0
  /\ dests' = << >>
=============================================================================
