------------------------------ MODULE L1Cache -------------------------------
(***************************************************************************)
(* The L1 data cache of NEMU, nemu/src/memory/cache.c: set-associative,    *)
(* write-through, in front of hw_mem.  paddr_read and paddr_write go       *)
(* through it for every access outside the video memory; load_image writes *)
(* hw_mem behind its back, after init_cache has emptied it.                *)
(*                                                                         *)
(* The addresses, the memory and the operators on it are FlatMemory's; in  *)
(* NEMU there are 128 groups of 8 ways and lines of 64 bytes.              *)
(***************************************************************************)
EXTENDS Naturals, FiniteSets, FiniteSetsExt

CONSTANTS
  Tags, Groups, LineSize, Lens, Values, Images,   \* as in FlatMemory
  NWays,            \* ways of a group
  PastEnd,          \* what a run may find behind hw_mem, line by line
  Reads, Writes     \* bound: the <<line, offset, length>> a run exercises

VARIABLES
  hw_mem,     \* the DRAM
  L1_dcache,  \* per group and way: valid_bit, tag, data
  ret,        \* the value the last cache_read returned
  crossed     \* history: lines a crossing write may have left wrong

vars == <<hw_mem, L1_dcache, ret, crossed>>

Mem == INSTANCE FlatMemory WITH mem <- hw_mem

Ways == 0 .. NWays - 1
CacheLine == [valid_bit : BOOLEAN, tag : 0 .. Tags - 1,
              data : [Mem!Offsets -> Values]]

ASSUME ShapeAssumption ==
  /\ Tags \in Nat \ {0}
  /\ Groups \in Nat /\ Groups >= 2
  /\ LineSize \in Nat /\ LineSize >= 4
  /\ NWays \in Nat \ {0}
  /\ Lens = {1, 2, 4}
  /\ 0 \in Values

ASSUME ImagesAssumption ==
  /\ Images \subseteq Mem!Memory
  /\ PastEnd # {} /\ PastEnd \subseteq [0 .. NWays -> [Mem!Offsets -> Values]]

ASSUME AccessesAssumption ==
  /\ Reads \union Writes \subseteq Mem!Lines \X Mem!Offsets \X Lens
  /\ \A a \in Reads \union Writes : Mem!Fits(a[1], a[2], a[3])

-----------------------------------------------------------------------------
(* Ways of the line's group that hold its tag, and those that are valid    *)
Matching(c, line) == {w \in Ways : c[line[2]][w].tag = line[1]}
Hits(c, line) == {w \in Matching(c, line) : c[line[2]][w].valid_bit}

(* A miss loads the line into the first invalid way, way 0 if there is     *)
(* none                                                                    *)
Victim(c, group) ==
  LET free == {w \in Ways : ~c[group][w].valid_bit}
  IN IF free = {} THEN 0 ELSE Min(free)

MutFill_groupInTag(c, m, line) ==     \* the address shifted by 6, not 13
  [c EXCEPT ![line[2]][Victim(c, line[2])] =
     [valid_bit |-> TRUE, tag |-> line[1] * Groups + line[2], data |-> m[line]]]

Fill(c, m, line) ==
  [c EXCEPT ![line[2]][Victim(c, line[2])] =
     [valid_bit |-> TRUE, tag |-> line[1], data |-> m[line]]]

Miss(c, m, line, off, len) ==
  [ret |-> Mem!HwRead(m, line, off, len), cache |-> Fill(c, m, line)]

(* len bytes of a cached line *)
FromLine(cl, off, len) == [k \in 0 .. len - 1 |-> cl.data[off + k]]

MutReadInLine_ignoresValid(c, m, line, off, len) ==   \* valid_bit not tested
  IF Matching(c, line) # {}
    THEN [ret |-> FromLine(c[line[2]][Min(Matching(c, line))], off, len),
          cache |-> c]
    ELSE Miss(c, m, line, off, len)

(* cache_read within one line: the first valid way with the tag *)
ReadInLine(c, m, line, off, len) ==
  IF Hits(c, line) # {}
    THEN [ret |-> FromLine(c[line[2]][Min(Hits(c, line))], off, len),
          cache |-> c]
    ELSE Miss(c, m, line, off, len)

(* cache_read across two lines.  On a hit the second line is read through  *)
(* the cache and the two parts are joined, for every valid way with the    *)
(* tag in turn; but the scan goes on, and if the last way with the tag is  *)
(* invalid the read is taken for a miss after all and the line is loaded a *)
(* second time.                                                            *)
ReadAcross(c, m, line, off, len) ==
  LET hits == Hits(c, line)
      part == LineSize - off
      way == IF len = 2 THEN Max(hits) ELSE Min(hits)
      rest == ReadInLine(c, m, Mem!NextLine(line), 0, len - part)
  IN IF hits = {}
       THEN Miss(c, m, line, off, len)
       ELSE IF Max(Matching(c, line)) \notin hits
         THEN Miss(rest.cache, m, line, off, len)
         ELSE [ret |-> [k \in 0 .. len - 1 |->
                          IF k < part THEN c[line[2]][way].data[off + k]
                                      ELSE rest.ret[k - part]],
               cache |-> rest.cache]

cache_read(c, m, line, off, len) ==
  IF Mem!Crosses(off, len) THEN ReadAcross(c, m, line, off, len)
                           ELSE ReadInLine(c, m, line, off, len)

(* The lines cache_write copies from: p starts at the line of the write    *)
(* and moves on by one line at every hit of a crossing write, over all the *)
(* ways, in the end past the memory.                                       *)
LineAtP(m, past, line, hitsBefore) ==
  LET group == line[2] + hitsBefore
      l == <<line[1] + group \div Groups, group % Groups>>
  IN IF l \in Mem!Lines THEN m[l] ELSE past[hitsBefore]

(* The ways of the line's group that were copied to before way w is        *)
HitsBefore(c, line, w) == Cardinality({v \in Hits(c, line) : v < w})

MutRefreshed_firstWay(c, m, past, line, off, len, w) ==   \* stops at a hit
  IF HitsBefore(c, line, w) = 0 THEN m[line] ELSE c[line[2]][w].data

(* What way w gets, which is a hit: every copy after a write within the    *)
(* line is memory's, but p is not set back between the copies of a line    *)
(* that is cached twice                                                    *)
Refreshed(c, m, past, line, off, len, w) ==
  LineAtP(m, past, line,
          IF Mem!Crosses(off, len) THEN HitsBefore(c, line, w) ELSE 0)

(* The second line of a crossing write is only looked for in the next      *)
(* group, at every hit of the first: what stays is the copy made at the    *)
(* last hit.  In the last group the code looks past the end of the array   *)
(* instead.                                                                *)
cache_write(c, m, past, line, off, len) ==
  LET hits == Hits(c, line)
      seconds == IF /\ Mem!Crosses(off, len)
                    /\ hits # {}
                    /\ line[2] # Groups - 1
                   THEN Hits(c, Mem!NextLine(line))
                   ELSE {}
  IN [g \in 0 .. Groups - 1 |-> [w \in Ways |->
        IF g = line[2] /\ w \in hits
          THEN [c[g][w] EXCEPT !.data = Refreshed(c, m, past, line, off, len, w)]
        ELSE IF g = line[2] + 1 /\ w \in seconds
          THEN [c[g][w] EXCEPT !.data = LineAtP(m, past, line, Cardinality(hits))]
        ELSE c[g][w]]]

-----------------------------------------------------------------------------
EmptyLine == [valid_bit |-> FALSE, tag |-> 0, data |-> [o \in Mem!Offsets |-> 0]]

(* A zeroed bss: every way invalid, with tag 0 *)
Init ==
  /\ hw_mem \in Images
  /\ L1_dcache = [g \in 0 .. Groups - 1 |-> [w \in Ways |-> EmptyLine]]
  /\ ret = [k \in 0 .. 0 |-> 0]
  /\ crossed = {}

(* paddr_read *)
Read(line, off, len) ==
  LET result == cache_read(L1_dcache, hw_mem, line, off, len)
  IN /\ ret' = result.ret
     /\ L1_dcache' = result.cache
     /\ UNCHANGED <<hw_mem, crossed>>

(* Of a crossing write, the lines whose copies may differ from memory: the *)
(* second, and the first if it is cached more than once                    *)
Misplaced(c, line, off, len) ==
  IF ~Mem!Crosses(off, len) THEN {}
  ELSE {Mem!NextLine(line)} \union
         IF Cardinality(Hits(c, line)) > 1 THEN {line} ELSE {}

(* paddr_write *)
Write(line, off, len, data, past) ==
  /\ hw_mem' = Mem!HwWrite(hw_mem, line, off, len, data)
  /\ L1_dcache' = cache_write(L1_dcache, hw_mem', past, line, off, len)
  /\ crossed' = (crossed \ {line}) \union Misplaced(L1_dcache, line, off, len)
  /\ UNCHANGED ret

(* init_cache: only the valid bits are cleared *)
init_cache(c) ==
  [g \in 0 .. Groups - 1 |-> [w \in Ways |-> [c[g][w] EXCEPT !.valid_bit = FALSE]]]

(* restart and load_image: init_mem, then the image is read into hw_mem *)
Restart ==
  /\ hw_mem' \in Images
  /\ L1_dcache' = init_cache(L1_dcache)
  /\ crossed' = {}
  /\ UNCHANGED ret

Next ==
  \/ \E a \in Reads : Read(a[1], a[2], a[3])
  \/ \E a \in Writes, past \in PastEnd :
       \E data \in Mem!Data(a[3]) : Write(a[1], a[2], a[3], data, past)
  \/ Restart

Spec == Init /\ [][Next]_vars

-----------------------------------------------------------------------------
(* Type invariant of the memory and the cache.                             *)
TypeOK ==
  /\ hw_mem \in Mem!Memory
  /\ L1_dcache \in [0 .. Groups - 1 -> [Ways -> CacheLine]]
  /\ ret \in UNION {Mem!Data(len) : len \in Lens}
  /\ crossed \subseteq Mem!Lines

Stale(g, w) ==
  LET cl == L1_dcache[g][w]
  IN cl.valid_bit /\ cl.data # hw_mem[<<cl.tag, g>>]

(* Whatever the guest does, a cached line differs from memory only if a    *)
(* write across two lines left it so, as its second line or as its first   *)
(* one cached twice, and no write has started in it since: cache_write     *)
(* refreshes every valid copy of the line a write stays in, although       *)
(* crossing reads load lines twice, and a restart leaves nothing behind.   *)
StaleOnlyIfCrossed ==
  \A g \in 0 .. Groups - 1, w \in Ways :
    Stale(g, w) => <<L1_dcache[g][w].tag, g>> \in crossed

(* While no line is left so by a crossing write the guest sees a flat      *)
(* memory, also when it reads across: the steps of cache_read and          *)
(* cache_write are FlatMemory's up to the first crossing write, and again  *)
(* once the guest has written to the lines concerned, or restarted.        *)
FlatUntilCrossed == Mem!Init /\ [][crossed' = {} => Mem!Next]_<<hw_mem, ret>>
=============================================================================
