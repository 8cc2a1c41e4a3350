------------------------------ MODULE PagingMC ------------------------------
(* Instances of Paging small enough for TLC: pages of two bytes, tables of *)
(* two entries, a memory of ten frames.                                    *)
EXTENDS Paging

(* A program below the end of memory whose segments share a page, as the   *)
(* game at 8 MB, and one above it with a gap, as the test programs         *)
SmallPrograms ==
  {<<[vaddr |-> 4, memsz |-> 3], [vaddr |-> 7, memsz |-> 2]>>,
   <<[vaddr |-> 21, memsz |-> 1], [vaddr |-> 23, memsz |-> 1]>>}

SmallBreaks == {8, 10, 11, 13, 15, 25}
=============================================================================
