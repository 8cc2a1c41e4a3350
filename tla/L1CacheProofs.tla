--------------------------- MODULE L1CacheProofs ----------------------------
(***************************************************************************)
(* Proofs about L1Cache, for every number of tags, groups and ways, every  *)
(* line size and every set of accesses: the type invariant, a cached line  *)
(* is stale only if a crossing write left it so, and while there is none   *)
(* such the guest sees a flat memory.                                      *)
(***************************************************************************)
EXTENDS L1Cache, FiniteSetTheorems, WellFoundedInduction, TLAPS

-----------------------------------------------------------------------------
(* Sets of ways have a least and a greatest element.                       *)
LEMMA LeastNatural ==
  ASSUME NEW T \in SUBSET Nat, T # {}
  PROVE  \E x \in T : \A y \in T : x <= y
  <1>1. \E x \in T : \A y \in T : ~ (<<y, x>> \in OpToRel(<, Nat))
    BY NatLessThanWellFounded, WFMin, Zenon
  <1>2. \A x, y \in Nat : y < x => <<y, x>> \in OpToRel(<, Nat)
    BY Zenon DEF OpToRel
  <1>3. \A x, y \in T : x \in Nat /\ y \in Nat /\ (~ (y < x) => x <= y)
    OBVIOUS
  <1> QED
    BY <1>1, <1>2, <1>3, Zenon

LEMMA MinWay ==
  ASSUME NEW S \in SUBSET Ways, S # {}
  PROVE  Min(S) \in S
  <1>1. S \in SUBSET Nat
    BY ShapeAssumption DEF Ways
  <1>2. \E x \in S : \A y \in S : x <= y
    BY <1>1, LeastNatural
  <1> QED
    BY <1>2 DEF Min

LEMMA MaxWay ==
  ASSUME NEW S \in SUBSET Ways, S # {}
  PROVE  Max(S) \in S
  <1> DEFINE T == {NWays - 1 - w : w \in S}
  <1>0. NWays \in Nat /\ \A w \in S : w \in Nat /\ NWays - 1 - w \in Nat
    BY ShapeAssumption DEF Ways
  <1>1. T \in SUBSET Nat /\ T # {}
    BY <1>0
  <1>2. PICK x \in T : \A y \in T : x <= y
    BY <1>1, LeastNatural
  <1>3. PICK w \in S : x = NWays - 1 - w
    BY <1>2
  <1>4. \A v \in S : w >= v
    <2> SUFFICES ASSUME NEW v \in S PROVE w >= v
      OBVIOUS
    <2>1. NWays - 1 - w <= NWays - 1 - v
      BY <1>2, <1>3
    <2> QED
      BY <2>1, <1>0
  <1> QED
    BY <1>4 DEF Max

-----------------------------------------------------------------------------
(* What a read may do to the cache: a way keeps its contents or holds a    *)
(* fresh copy of its line.                                                 *)
CacheArray == [0 .. Groups - 1 -> [Ways -> CacheLine]]

KeptOrFresh(c, d, m) ==
  \A g \in 0 .. Groups - 1, w \in Ways :
    d[g][w] = c[g][w] \/ d[g][w].data = m[<<d[g][w].tag, g>>]

LEMMA LineParts ==
  ASSUME NEW line \in Mem!Lines
  PROVE  /\ line[1] \in 0 .. Tags - 1 /\ line[2] \in 0 .. Groups - 1
         /\ line = <<line[1], line[2]>>
  BY DEF Mem!Lines

LEMMA NextLineType ==
  ASSUME NEW line \in Mem!Lines, NEW off, NEW len,
         Mem!Fits(line, off, len), Mem!Crosses(off, len)
  PROVE  Mem!NextLine(line) \in Mem!Lines
  BY DEF Mem!Fits

LEMMA VictimType ==
  ASSUME NEW c \in CacheArray, NEW g \in 0 .. Groups - 1
  PROVE  Victim(c, g) \in Ways
  <1> DEFINE free == {w \in Ways : ~c[g][w].valid_bit}
  <1>1. CASE free = {}
    BY <1>1, ShapeAssumption DEF Victim, Ways
  <1>2. CASE free # {}
    <2>1. Min(free) \in free
      BY <1>2, MinWay
    <2> QED
      BY <2>1, <1>2 DEF Victim
  <1> QED
    BY <1>1, <1>2

LEMMA FillProperties ==
  ASSUME NEW c \in CacheArray, NEW m \in Mem!Memory, NEW line \in Mem!Lines
  PROVE  Fill(c, m, line) \in CacheArray /\ KeptOrFresh(c, Fill(c, m, line), m)
  <1> DEFINE g == line[2]
             w == Victim(c, g)
             new == [valid_bit |-> TRUE, tag |-> line[1], data |-> m[line]]
  <1>1. /\ g \in 0 .. Groups - 1 /\ w \in Ways
        /\ line[1] \in 0 .. Tags - 1 /\ line = <<line[1], g>>
    BY LineParts, VictimType
  <1>2. m[line] \in [Mem!Offsets -> Values]
    BY DEF Mem!Memory
  <1>3. new \in CacheLine
    BY <1>1, <1>2 DEF CacheLine
  <1>4. Fill(c, m, line) = [c EXCEPT ![g] = [c[g] EXCEPT ![w] = new]]
    BY DEF Fill, CacheArray
  <1>5. [c[g] EXCEPT ![w] = new] \in [Ways -> CacheLine]
    BY <1>1, <1>3 DEF CacheArray
  <1>6. Fill(c, m, line) \in CacheArray
    BY <1>1, <1>4, <1>5 DEF CacheArray
  <1>7. ASSUME NEW h \in 0 .. Groups - 1, NEW v \in Ways
        PROVE  \/ Fill(c, m, line)[h][v] = c[h][v]
               \/ Fill(c, m, line)[h][v].data = m[<<Fill(c, m, line)[h][v].tag, h>>]
    <2>1. CASE h = g /\ v = w
      <3>1. Fill(c, m, line)[h][v] = new
        BY <1>1, <1>4, <2>1 DEF CacheArray
      <3> QED
        BY <3>1, <1>1, <2>1
    <2>2. CASE ~(h = g /\ v = w)
      BY <1>1, <1>4, <2>2 DEF CacheArray
    <2> QED  BY <2>1, <2>2
  <1> QED
    BY <1>6, <1>7 DEF KeptOrFresh

LEMMA KeptOrFreshTransitive ==
  ASSUME NEW c, NEW d, NEW e, NEW m, KeptOrFresh(c, d, m), KeptOrFresh(d, e, m)
  PROVE  KeptOrFresh(c, e, m)
  BY DEF KeptOrFresh

(* An access of the guest, or the part of one that lies in the next line.  *)
Access(line, off, len) ==
  /\ line \in Mem!Lines /\ off \in Mem!Offsets /\ len \in 1 .. 4
  /\ Mem!Fits(line, off, len)

LEMMA HwReadType ==
  ASSUME NEW m \in Mem!Memory, NEW line, NEW off, NEW len, Access(line, off, len)
  PROVE  Mem!HwRead(m, line, off, len) \in Mem!Data(len)
  <1> SUFFICES ASSUME NEW k \in 0 .. len - 1
               PROVE  (IF off + k < LineSize
                         THEN m[line][off + k]
                         ELSE m[Mem!NextLine(line)][off + k - LineSize]) \in Values
    BY DEF Mem!HwRead, Mem!Data
  <1>1. off \in 0 .. LineSize - 1 /\ len \in 1 .. 4 /\ LineSize \in Nat
        /\ LineSize >= 4
    BY ShapeAssumption DEF Access, Mem!Offsets
  <1>2. CASE off + k < LineSize
    <2>1. off + k \in Mem!Offsets
      BY <1>1, <1>2 DEF Mem!Offsets
    <2> QED
      BY <2>1, <1>2 DEF Access, Mem!Memory
  <1>3. CASE ~(off + k < LineSize)
    <2>1. Mem!Crosses(off, len) /\ off + k - LineSize \in Mem!Offsets
      BY <1>1, <1>3 DEF Mem!Crosses, Mem!Offsets
    <2>2. Mem!NextLine(line) \in Mem!Lines
      BY <2>1, NextLineType DEF Access
    <2> QED
      BY <2>1, <2>2, <1>3 DEF Mem!Memory
  <1> QED
    BY <1>2, <1>3

LEMMA MissProperties ==
  ASSUME NEW c \in CacheArray, NEW m \in Mem!Memory,
         NEW line, NEW off, NEW len, Access(line, off, len)
  PROVE  LET r == Miss(c, m, line, off, len)
         IN /\ r.ret \in Mem!Data(len)
            /\ r.ret = Mem!HwRead(m, line, off, len)
            /\ r.cache \in CacheArray
            /\ KeptOrFresh(c, r.cache, m)
  BY HwReadType, FillProperties DEF Miss, Access

-----------------------------------------------------------------------------
(* Reading.  In a cache without stale lines, every kind of read returns    *)
(* what is in memory.                                                      *)
Coherent(c, m) ==
  \A g \in 0 .. Groups - 1, w \in Ways :
    c[g][w].valid_bit => c[g][w].data = m[<<c[g][w].tag, g>>]

LEMMA HitProperties ==
  ASSUME NEW c \in CacheArray, NEW m, NEW line \in Mem!Lines,
         NEW w \in Hits(c, line)
  PROVE  /\ c[line[2]][w] \in CacheLine
         /\ Coherent(c, m) => c[line[2]][w].data = m[line]
  <1>1. /\ line[2] \in 0 .. Groups - 1 /\ line = <<line[1], line[2]>>
        /\ w \in Ways /\ c[line[2]][w].tag = line[1] /\ c[line[2]][w].valid_bit
    BY LineParts DEF Hits, Matching
  <1>2. c[line[2]][w] \in CacheLine
    BY <1>1 DEF CacheArray
  <1> QED
    BY <1>1, <1>2 DEF Coherent

LEMMA FirstAndLastHit ==
  ASSUME NEW c, NEW line, Hits(c, line) # {}
  PROVE  Min(Hits(c, line)) \in Hits(c, line) /\ Max(Hits(c, line)) \in Hits(c, line)
  <1>1. Hits(c, line) \in SUBSET Ways
    BY DEF Hits, Matching
  <1> QED
    BY <1>1, MinWay, MaxWay

LEMMA ReadInLineProperties ==
  ASSUME NEW c \in CacheArray, NEW m \in Mem!Memory,
         NEW line, NEW off, NEW len, Access(line, off, len),
         ~Mem!Crosses(off, len)
  PROVE  LET r == ReadInLine(c, m, line, off, len)
         IN /\ r.ret \in Mem!Data(len)
            /\ Coherent(c, m) => r.ret = Mem!HwRead(m, line, off, len)
            /\ r.cache \in CacheArray
            /\ KeptOrFresh(c, r.cache, m)
  <1>1. CASE Hits(c, line) = {}
    BY <1>1, MissProperties DEF ReadInLine
  <1>2. CASE Hits(c, line) # {}
    <2> DEFINE w == Min(Hits(c, line))
               cl == c[line[2]][w]
    <2>1. w \in Hits(c, line)
      BY <1>2, FirstAndLastHit
    <2>2. cl \in CacheLine /\ (Coherent(c, m) => cl.data = m[line])
      BY <2>1, HitProperties DEF Access
    <2>3. \A k \in 0 .. len - 1 : off + k \in Mem!Offsets /\ off + k < LineSize
      BY ShapeAssumption DEF Access, Mem!Offsets, Mem!Crosses
    <2>4. FromLine(cl, off, len) \in Mem!Data(len)
      BY <2>2, <2>3 DEF FromLine, Mem!Data, CacheLine
    <2>5. Coherent(c, m) => FromLine(cl, off, len) = Mem!HwRead(m, line, off, len)
      BY <2>2, <2>3 DEF FromLine, Mem!HwRead
    <2>6. KeptOrFresh(c, c, m)
      BY DEF KeptOrFresh
    <2>7. ReadInLine(c, m, line, off, len) =
            [ret |-> FromLine(cl, off, len), cache |-> c]
      BY <1>2 DEF ReadInLine
    <2> QED
      BY <2>4, <2>5, <2>6, <2>7
  <1> QED
    BY <1>1, <1>2

LEMMA ReadAcrossProperties ==
  ASSUME NEW c \in CacheArray, NEW m \in Mem!Memory,
         NEW line, NEW off, NEW len, Access(line, off, len),
         Mem!Crosses(off, len)
  PROVE  LET r == ReadAcross(c, m, line, off, len)
         IN /\ r.ret \in Mem!Data(len)
            /\ Coherent(c, m) => r.ret = Mem!HwRead(m, line, off, len)
            /\ r.cache \in CacheArray
            /\ KeptOrFresh(c, r.cache, m)
  <1> DEFINE hits == Hits(c, line)
             part == LineSize - off
             next == Mem!NextLine(line)
             way == IF len = 2 THEN Max(hits) ELSE Min(hits)
             rest == ReadInLine(c, m, next, 0, len - part)
             joined == [k \in 0 .. len - 1 |->
                          IF k < part THEN c[line[2]][way].data[off + k]
                                      ELSE rest.ret[k - part]]
  <1>1. /\ LineSize \in Nat /\ LineSize >= 4 /\ off \in 0 .. LineSize - 1
        /\ len \in 1 .. 4 /\ off + len > LineSize /\ part \in 1 .. 4
        /\ len - part \in 1 .. 4
    BY ShapeAssumption DEF Access, Mem!Offsets, Mem!Crosses
  <1>2. next \in Mem!Lines
    BY NextLineType DEF Access
  <1>3. ~Mem!Crosses(0, len - part) /\ Access(next, 0, len - part)
    BY <1>1, <1>2 DEF Access, Mem!Crosses, Mem!Fits, Mem!Offsets
  <1>4. /\ rest.ret \in Mem!Data(len - part)
        /\ Coherent(c, m) => rest.ret = Mem!HwRead(m, next, 0, len - part)
        /\ rest.cache \in CacheArray
        /\ KeptOrFresh(c, rest.cache, m)
    BY <1>3, ReadInLineProperties
  <1>5. CASE hits = {}
    BY <1>5, MissProperties DEF ReadAcross
  <1>6. CASE hits # {} /\ Max(Matching(c, line)) \notin hits
    <2>1. ReadAcross(c, m, line, off, len) = Miss(rest.cache, m, line, off, len)
      BY <1>6 DEF ReadAcross
    <2> QED
      BY <2>1, <1>4, MissProperties, KeptOrFreshTransitive
  <1>7. CASE hits # {} /\ Max(Matching(c, line)) \in hits
    <2>1. way \in hits
      BY <1>7, FirstAndLastHit
    <2>2. /\ c[line[2]][way] \in CacheLine
          /\ Coherent(c, m) => c[line[2]][way].data = m[line]
      BY <2>1, HitProperties DEF Access
    <2>3. ReadAcross(c, m, line, off, len) = [ret |-> joined, cache |-> rest.cache]
      BY <1>7 DEF ReadAcross
    <2>4. ASSUME NEW k \in 0 .. len - 1
          PROVE  /\ joined[k] \in Values
                 /\ Coherent(c, m) => joined[k] = Mem!HwRead(m, line, off, len)[k]
      <3>1. CASE k < part
        <4>1. off + k \in Mem!Offsets /\ off + k < LineSize
          BY <1>1, <3>1 DEF Mem!Offsets
        <4>2. joined[k] = c[line[2]][way].data[off + k]
          BY <3>1
        <4> QED
          BY <4>1, <4>2, <2>2 DEF CacheLine, Mem!HwRead
      <3>2. CASE ~(k < part)
        <4>1. /\ k - part \in 0 .. len - part - 1
              /\ ~(off + k < LineSize) /\ k - part = off + k - LineSize
              /\ 0 + (k - part) < LineSize
          BY <1>1, <3>2
        <4>2. joined[k] = rest.ret[k - part]
          BY <3>2
        <4>3. Mem!HwRead(m, next, 0, len - part)[k - part] = m[next][0 + (k - part)]
          BY <4>1 DEF Mem!HwRead
        <4>4. Mem!HwRead(m, line, off, len)[k] = m[next][off + k - LineSize]
          BY <4>1 DEF Mem!HwRead
        <4>5. 0 + (k - part) = off + k - LineSize
          BY <1>1, <4>1
        <4>6. joined[k] \in Values
          BY <4>1, <4>2, <1>4 DEF Mem!Data
        <4> QED
          BY <4>2, <4>3, <4>4, <4>5, <4>6, <1>4
      <3> QED
        BY <3>1, <3>2
    <2>5. joined \in Mem!Data(len)
      BY <2>4 DEF Mem!Data
    <2>6. Coherent(c, m) => joined = Mem!HwRead(m, line, off, len)
      BY <2>4 DEF Mem!HwRead
    <2> QED
      BY <2>3, <2>5, <2>6, <1>4
  <1> QED
    BY <1>5, <1>6, <1>7

LEMMA CacheReadProperties ==
  ASSUME NEW c \in CacheArray, NEW m \in Mem!Memory,
         NEW line, NEW off, NEW len, Access(line, off, len)
  PROVE  LET r == cache_read(c, m, line, off, len)
         IN /\ r.ret \in Mem!Data(len)
            /\ Coherent(c, m) => r.ret = Mem!HwRead(m, line, off, len)
            /\ r.cache \in CacheArray
            /\ KeptOrFresh(c, r.cache, m)
  BY ReadAcrossProperties, ReadInLineProperties DEF cache_read

-----------------------------------------------------------------------------
(* Writing.  Only the lines of the access change in memory; the copies of  *)
(* the first are refreshed, rightly unless the write crosses and it is     *)
(* cached twice.                                                           *)
LEMMA NextLineDiffers ==
  ASSUME NEW line \in Mem!Lines
  PROVE  Mem!NextLine(line) # line
  <1>1. line[1] \in Nat /\ line[2] \in Nat
    BY LineParts, ShapeAssumption
  <1>2. CASE line[2] = Groups - 1
    BY <1>1, <1>2 DEF Mem!NextLine
  <1>3. CASE line[2] # Groups - 1
    BY <1>1, <1>3 DEF Mem!NextLine
  <1> QED
    BY <1>2, <1>3

LEMMA HwWriteProperties ==
  ASSUME NEW m \in Mem!Memory, NEW line, NEW off, NEW len,
         Access(line, off, len), NEW data \in Mem!Data(len)
  PROVE  /\ Mem!HwWrite(m, line, off, len, data) \in Mem!Memory
         /\ \A l \in Mem!Lines :
              Mem!HwWrite(m, line, off, len, data)[l] # m[l] =>
                l = line \/ (Mem!Crosses(off, len) /\ l = Mem!NextLine(line))
  <1> DEFINE next == Mem!NextLine(line)
             first == [o \in Mem!Offsets |->
                         IF o \in off .. off + len - 1 THEN data[o - off]
                                                       ELSE m[line][o]]
             second == [o \in Mem!Offsets |->
                          IF o + LineSize < off + len THEN data[o + LineSize - off]
                                                      ELSE m[next][o]]
             W == Mem!HwWrite(m, line, off, len, data)
  <1>1. /\ LineSize \in Nat /\ LineSize >= 4 /\ off \in 0 .. LineSize - 1
        /\ len \in 1 .. 4
    BY ShapeAssumption DEF Access, Mem!Offsets
  <1>2. \A i \in 0 .. len - 1 : data[i] \in Values
    BY DEF Mem!Data
  <1>3. first \in [Mem!Offsets -> Values]
    <2> SUFFICES ASSUME NEW o \in Mem!Offsets PROVE first[o] \in Values
      OBVIOUS
    <2>1. o \in Nat /\ (o \in off .. off + len - 1 => o - off \in 0 .. len - 1)
      BY <1>1 DEF Mem!Offsets
    <2>2. m[line][o] \in Values
      BY DEF Mem!Memory, Access
    <2> QED
      BY <2>1, <2>2, <1>2
  <1>4. Mem!Crosses(off, len) =>
          next \in Mem!Lines /\ second \in [Mem!Offsets -> Values]
    <2> SUFFICES ASSUME Mem!Crosses(off, len)
                 PROVE  next \in Mem!Lines /\ second \in [Mem!Offsets -> Values]
      OBVIOUS
    <2>1. next \in Mem!Lines
      BY NextLineType DEF Access
    <2> SUFFICES ASSUME NEW o \in Mem!Offsets PROVE second[o] \in Values
      BY <2>1
    <2>2. /\ o \in Nat
          /\ o + LineSize < off + len => o + LineSize - off \in 0 .. len - 1
      BY <1>1 DEF Mem!Offsets
    <2>3. m[next][o] \in Values
      BY <2>1 DEF Mem!Memory
    <2> QED
      BY <2>2, <2>3, <1>2
  <1> HIDE DEF first, second, next
  <1>5. CASE Mem!Crosses(off, len)
    <2>1. W = [m EXCEPT ![line] = first, ![next] = second]
      BY <1>5 DEF Mem!HwWrite, first, second, next
    <2>2. next = Mem!NextLine(line)
      BY DEF next
    <2> QED
      BY <2>1, <2>2, <1>3, <1>4, <1>5 DEF Mem!Memory, Access
  <1>6. CASE ~Mem!Crosses(off, len)
    <2>1. W = [m EXCEPT ![line] = first]
      BY <1>6 DEF Mem!HwWrite, first
    <2> QED
      BY <2>1, <1>3, <1>6 DEF Mem!Memory, Access
  <1> QED
    BY <1>5, <1>6

LEMMA HitsBeforeType ==
  ASSUME NEW c, NEW line, NEW w \in Ways
  PROVE  /\ HitsBefore(c, line, w) \in 0 .. NWays
         /\ Cardinality(Hits(c, line)) \in 0 .. NWays
         /\ HitsBefore(c, line, w) # 0 /\ w \in Hits(c, line) =>
              Cardinality(Hits(c, line)) > 1
  <1> DEFINE hits == Hits(c, line)
             before == {v \in hits : v < w}
  <1>0. NWays \in Nat \ {0}
    BY ShapeAssumption
  <1>1. IsFiniteSet(Ways) /\ Cardinality(Ways) = NWays
    <2>1. IsFiniteSet(0 .. NWays - 1) /\ Cardinality(0 .. NWays - 1) = NWays - 1 - 0 + 1
      BY <1>0, FS_Interval
    <2> QED
      BY <2>1, <1>0 DEF Ways
  <1>2. hits \subseteq Ways /\ before \subseteq hits
    BY DEF Hits, Matching
  <1>3. IsFiniteSet(hits) /\ Cardinality(hits) <= NWays
    BY <1>1, <1>2, FS_Subset
  <1>4. IsFiniteSet(before) /\ Cardinality(before) <= Cardinality(hits)
    BY <1>2, <1>3, FS_Subset
  <1>5. Cardinality(hits) \in Nat /\ Cardinality(before) \in Nat
    BY <1>3, <1>4, FS_CardinalityType
  <1>6. w \in hits /\ Cardinality(before) # 0 => Cardinality(hits) > 1
    <2> SUFFICES ASSUME w \in hits, Cardinality(before) # 0
                 PROVE  Cardinality(hits) > 1
      OBVIOUS
    <2>1. w \notin before
      BY <1>0, <1>2 DEF Ways
    <2>2. before # hits
      BY <2>1
    <2>3. Cardinality(before) < Cardinality(hits)
      BY <2>2, <1>2, <1>3, <1>4, <1>5, FS_Subset
    <2> QED
      BY <2>3, <1>5
  <1> QED
    BY <1>0, <1>3, <1>4, <1>5, <1>6 DEF HitsBefore

(* The line p points at is some line's contents, and the written line's    *)
(* own before the first hit                                                *)
LEMMA LineAtPProperties ==
  ASSUME NEW m \in Mem!Memory, NEW past \in PastEnd, NEW line \in Mem!Lines,
         NEW k \in 0 .. NWays
  PROVE  /\ LineAtP(m, past, line, k) \in [Mem!Offsets -> Values]
         /\ k = 0 => LineAtP(m, past, line, k) = m[line]
  <1> DEFINE l == <<line[1] + (line[2] + k) \div Groups, (line[2] + k) % Groups>>
  <1>1. LineAtP(m, past, line, k) = IF l \in Mem!Lines THEN m[l] ELSE past[k]
    BY DEF LineAtP
  <1>2. past[k] \in [Mem!Offsets -> Values]
    BY ImagesAssumption
  <1>3. k = 0 => l = line
    <2> SUFFICES ASSUME k = 0 PROVE l = line
      OBVIOUS
    <2>1. /\ line[1] \in Nat /\ line[2] \in 0 .. Groups - 1
          /\ Groups \in Nat /\ Groups >= 2 /\ line = <<line[1], line[2]>>
      BY LineParts, ShapeAssumption
    <2>2. PICK g \in Nat : g = line[2] /\ g < Groups
      BY <2>1
    <2>3. g \div Groups = 0 /\ g % Groups = g
      BY <2>1, <2>2
    <2> QED
      BY <2>1, <2>2, <2>3
  <1> HIDE DEF l
  <1> QED
    BY <1>1, <1>2, <1>3 DEF Mem!Memory

LEMMA CacheWriteProperties ==
  ASSUME NEW c \in CacheArray, NEW m \in Mem!Memory, NEW past \in PastEnd,
         NEW line, NEW off, NEW len, Access(line, off, len)
  PROVE  LET d == cache_write(c, m, past, line, off, len)
         IN /\ d \in CacheArray
            /\ \A g \in 0 .. Groups - 1, w \in Ways :
                 LET l == <<c[g][w].tag, g>>
                 IN /\ d[g][w].valid_bit = c[g][w].valid_bit
                    /\ d[g][w].tag = c[g][w].tag
                    /\ c[g][w].valid_bit =>
                         \/ d[g][w].data = m[l]
                         \/ l \in Misplaced(c, line, off, len)
                         \/ d[g][w].data = c[g][w].data /\ l # line
  <1> DEFINE d == cache_write(c, m, past, line, off, len)
             hits == Hits(c, line)
             next == Mem!NextLine(line)
             seconds == IF Mem!Crosses(off, len) /\ hits # {} /\ line[2] # Groups - 1
                          THEN Hits(c, next) ELSE {}
             Row(g) == [w \in Ways |->
                 IF g = line[2] /\ w \in hits
                   THEN [c[g][w] EXCEPT !.data =
                           Refreshed(c, m, past, line, off, len, w)]
                 ELSE IF g = line[2] + 1 /\ w \in seconds
                   THEN [c[g][w] EXCEPT !.data =
                           LineAtP(m, past, line, Cardinality(hits))]
                 ELSE c[g][w]]
  <1>0. d = [g \in 0 .. Groups - 1 |-> Row(g)]
    BY Zenon DEF cache_write
  <1>a. line \in Mem!Lines /\ line[2] \in 0 .. Groups - 1 /\ line = <<line[1], line[2]>>
    BY LineParts DEF Access
  <1>1. ASSUME NEW g \in 0 .. Groups - 1, NEW w \in Ways
        PROVE  /\ d[g][w] \in CacheLine
               /\ d[g][w].valid_bit = c[g][w].valid_bit
               /\ d[g][w].tag = c[g][w].tag
               /\ c[g][w].valid_bit =>
                    \/ d[g][w].data = m[<<c[g][w].tag, g>>]
                    \/ <<c[g][w].tag, g>> \in Misplaced(c, line, off, len)
                    \/ d[g][w].data = c[g][w].data /\ <<c[g][w].tag, g>> # line
    <2>1. c[g][w] \in CacheLine /\ d[g][w] = Row(g)[w]
      BY <1>0 DEF CacheArray
    <2>2. CASE g = line[2] /\ w \in hits
      <3> DEFINE k == IF Mem!Crosses(off, len) THEN HitsBefore(c, line, w) ELSE 0
                 new == LineAtP(m, past, line, k)
      <3>1. d[g][w] = [c[g][w] EXCEPT !.data = new]
        BY <2>1, <2>2 DEF Refreshed
      <3>2. k \in 0 .. NWays
        BY HitsBeforeType, ShapeAssumption
      <3>3. new \in [Mem!Offsets -> Values] /\ (k = 0 => new = m[line])
        BY <3>2, <1>a, LineAtPProperties
      <3>4. <<c[g][w].tag, g>> = line
        BY <2>2, <1>a DEF Hits, Matching
      <3>5. k # 0 => line \in Misplaced(c, line, off, len)
        BY <2>2, HitsBeforeType DEF Misplaced
      <3> HIDE DEF k, new
      <3> QED
        BY <3>1, <3>3, <3>4, <3>5, <2>1 DEF CacheLine
    <2>3. CASE ~(g = line[2] /\ w \in hits) /\ g = line[2] + 1 /\ w \in seconds
      <3> DEFINE new == LineAtP(m, past, line, Cardinality(hits))
      <3>1. d[g][w] = [c[g][w] EXCEPT !.data = new]
        BY <2>1, <2>3
      <3>2. new \in [Mem!Offsets -> Values]
        BY HitsBeforeType, <1>a, LineAtPProperties
      <3>3. Mem!Crosses(off, len) /\ line[2] # Groups - 1 /\ w \in Hits(c, next)
        BY <2>3
      <3>4. next = <<line[1], line[2] + 1>>
        BY <3>3 DEF Mem!NextLine
      <3>5. <<c[g][w].tag, g>> = next
        BY <3>3, <3>4, <2>3 DEF Hits, Matching
      <3>6. next \in Misplaced(c, line, off, len)
        BY <3>3 DEF Misplaced
      <3> HIDE DEF new, next
      <3> QED
        BY <3>1, <3>2, <3>5, <3>6, <2>1 DEF CacheLine
    <2>4. CASE /\ ~(g = line[2] /\ w \in hits)
               /\ ~(g = line[2] + 1 /\ w \in seconds)
      <3>1. d[g][w] = c[g][w]
        BY <2>1, <2>4
      <3>2. c[g][w].valid_bit => <<c[g][w].tag, g>> # line
        BY <2>4, <1>a DEF Hits, Matching
      <3> QED
        BY <3>1, <3>2, <2>1
    <2> QED
      BY <2>2, <2>3, <2>4
  <1>2. d \in CacheArray
    <2>1. ASSUME NEW g \in 0 .. Groups - 1 PROVE d[g] \in [Ways -> CacheLine]
      <3>1. d[g] = [w \in Ways |-> d[g][w]]
        BY <1>0
      <3> QED
        BY <3>1, <1>1
    <2> QED
      BY <1>0, <2>1 DEF CacheArray
  <1> QED
    BY <1>1, <1>2

-----------------------------------------------------------------------------
(* The inductive invariant                                                 *)
IInv == TypeOK /\ StaleOnlyIfCrossed

LEMMA RunAccess ==
  ASSUME NEW a \in Reads \union Writes
  PROVE  Access(a[1], a[2], a[3]) /\ a[3] \in Lens
  BY AccessesAssumption, ShapeAssumption DEF Access

LEMMA InitIInv == Init => IInv
  <1> SUFFICES ASSUME Init PROVE IInv
    OBVIOUS
  <1>1. EmptyLine \in CacheLine
    BY ShapeAssumption DEF EmptyLine, CacheLine
  <1>2. L1_dcache \in [0 .. Groups - 1 -> [Ways -> CacheLine]]
    BY <1>1 DEF Init
  <1>3. ret \in Mem!Data(1) /\ 1 \in Lens
    BY ShapeAssumption DEF Init, Mem!Data
  <1>4. TypeOK
    BY <1>2, <1>3, ImagesAssumption DEF Init, TypeOK
  <1>5. \A g \in 0 .. Groups - 1, w \in Ways : ~L1_dcache[g][w].valid_bit
    BY DEF Init, EmptyLine
  <1>6. StaleOnlyIfCrossed
    BY <1>5 DEF StaleOnlyIfCrossed, Stale
  <1> QED
    BY <1>4, <1>6 DEF IInv, Init

LEMMA ReadIInv ==
  ASSUME IInv, NEW a \in Reads, Read(a[1], a[2], a[3])
  PROVE  IInv'
  <1> DEFINE r == cache_read(L1_dcache, hw_mem, a[1], a[2], a[3])
  <1>1. /\ L1_dcache \in CacheArray /\ hw_mem \in Mem!Memory
        /\ Access(a[1], a[2], a[3]) /\ a[3] \in Lens
    BY RunAccess DEF IInv, TypeOK, CacheArray
  <1>2. /\ r.ret \in Mem!Data(a[3]) /\ r.cache \in CacheArray
        /\ KeptOrFresh(L1_dcache, r.cache, hw_mem)
    BY <1>1, CacheReadProperties
  <1>3. /\ ret' = r.ret /\ L1_dcache' = r.cache
        /\ hw_mem' = hw_mem /\ crossed' = crossed
    BY DEF Read
  <1>4. TypeOK'
    BY <1>1, <1>2, <1>3 DEF IInv, TypeOK, CacheArray
  <1>5. StaleOnlyIfCrossed'
    <2> SUFFICES ASSUME NEW g \in 0 .. Groups - 1, NEW w \in Ways, Stale(g, w)'
                 PROVE  <<L1_dcache'[g][w].tag, g>> \in crossed
      BY <1>3 DEF StaleOnlyIfCrossed
    <2>1. L1_dcache'[g][w] = L1_dcache[g][w]
      BY <1>2, <1>3 DEF KeptOrFresh, Stale
    <2> QED
      BY <2>1, <1>3 DEF IInv, StaleOnlyIfCrossed, Stale
  <1> QED
    BY <1>3, <1>4, <1>5 DEF IInv

LEMMA WriteIInv ==
  ASSUME IInv, NEW a \in Writes, NEW data \in Mem!Data(a[3]), NEW past \in PastEnd,
         Write(a[1], a[2], a[3], data, past)
  PROVE  IInv'
  <1> DEFINE wrong == Misplaced(L1_dcache, a[1], a[2], a[3])
  <1>1. /\ L1_dcache \in CacheArray /\ hw_mem \in Mem!Memory
        /\ Access(a[1], a[2], a[3])
    BY RunAccess DEF IInv, TypeOK, CacheArray
  <1>2. /\ hw_mem' = Mem!HwWrite(hw_mem, a[1], a[2], a[3], data)
        /\ L1_dcache' = cache_write(L1_dcache, hw_mem', past, a[1], a[2], a[3])
        /\ crossed' = (crossed \ {a[1]}) \union wrong
        /\ ret' = ret
    BY DEF Write
  <1>3. /\ hw_mem' \in Mem!Memory
        /\ \A l \in Mem!Lines :
             hw_mem'[l] # hw_mem[l] =>
               \/ l = a[1]
               \/ Mem!Crosses(a[2], a[3]) /\ l = Mem!NextLine(a[1])
    BY <1>1, <1>2, HwWriteProperties
  <1>4. /\ wrong \subseteq Mem!Lines
        /\ Mem!Crosses(a[2], a[3]) => Mem!NextLine(a[1]) \in wrong
    <2>1. Mem!Crosses(a[2], a[3]) => Mem!NextLine(a[1]) \in Mem!Lines
      BY <1>1, NextLineType DEF Access
    <2> QED
      BY <2>1, <1>1 DEF Misplaced, Access
  <1>5. /\ L1_dcache' \in CacheArray
        /\ \A g \in 0 .. Groups - 1, w \in Ways :
             LET l == <<L1_dcache[g][w].tag, g>>
             IN /\ L1_dcache'[g][w].valid_bit = L1_dcache[g][w].valid_bit
                /\ L1_dcache'[g][w].tag = L1_dcache[g][w].tag
                /\ L1_dcache[g][w].valid_bit =>
                     \/ L1_dcache'[g][w].data = hw_mem'[l]
                     \/ l \in wrong
                     \/ L1_dcache'[g][w].data = L1_dcache[g][w].data /\ l # a[1]
    BY <1>1, <1>2, <1>3, CacheWriteProperties
  <1> HIDE DEF wrong
  <1>6. TypeOK'
    BY <1>2, <1>3, <1>4, <1>5 DEF IInv, TypeOK, CacheArray
  <1>7. StaleOnlyIfCrossed'
    <2> SUFFICES ASSUME NEW g \in 0 .. Groups - 1, NEW w \in Ways, Stale(g, w)'
                 PROVE  <<L1_dcache'[g][w].tag, g>> \in crossed'
      BY DEF StaleOnlyIfCrossed
    <2> DEFINE l == <<L1_dcache[g][w].tag, g>>
    <2>1. L1_dcache[g][w] \in CacheLine /\ l \in Mem!Lines
      BY <1>1 DEF CacheArray, CacheLine, Mem!Lines
    <2>2. /\ L1_dcache[g][w].valid_bit /\ L1_dcache'[g][w].tag = L1_dcache[g][w].tag
          /\ L1_dcache'[g][w].data # hw_mem'[l]
      BY <1>5 DEF Stale
    <2>3. l \in wrong \/ (L1_dcache'[g][w].data = L1_dcache[g][w].data /\ l # a[1])
      BY <1>5, <2>2
    <2>4. CASE l \in wrong
      BY <2>4, <2>2, <1>2
    <2>5. CASE L1_dcache'[g][w].data = L1_dcache[g][w].data /\ l # a[1]
      <3>1. CASE hw_mem'[l] = hw_mem[l]
        <4>1. Stale(g, w)
          BY <2>2, <2>5, <3>1 DEF Stale
        <4> QED
          BY <4>1, <2>2, <2>5, <1>2 DEF IInv, StaleOnlyIfCrossed
      <3>2. CASE hw_mem'[l] # hw_mem[l]
        BY <2>1, <2>2, <2>5, <3>2, <1>2, <1>3, <1>4
      <3> QED
        BY <3>1, <3>2
    <2> QED
      BY <2>3, <2>4, <2>5
  <1> QED
    BY <1>6, <1>7 DEF IInv

LEMMA RestartIInv ==
  ASSUME IInv, Restart
  PROVE  IInv'
  <1>1. ASSUME NEW g \in 0 .. Groups - 1, NEW w \in Ways
        PROVE  L1_dcache'[g][w] \in CacheLine /\ ~L1_dcache'[g][w].valid_bit
    <2>1. L1_dcache[g][w] \in CacheLine
      BY DEF IInv, TypeOK
    <2>2. L1_dcache'[g][w] = [L1_dcache[g][w] EXCEPT !.valid_bit = FALSE]
      BY DEF Restart, init_cache
    <2> QED
      BY <2>1, <2>2 DEF CacheLine
  <1>2. L1_dcache' \in [0 .. Groups - 1 -> [Ways -> CacheLine]]
    BY <1>1 DEF Restart, init_cache
  <1>3. TypeOK'
    BY <1>2, ImagesAssumption DEF Restart, IInv, TypeOK
  <1>4. StaleOnlyIfCrossed'
    BY <1>1 DEF StaleOnlyIfCrossed, Stale
  <1> QED
    BY <1>3, <1>4 DEF IInv

LEMMA StepIInv == IInv /\ [Next]_vars => IInv'
  <1>1. ASSUME IInv, UNCHANGED vars PROVE IInv'
    BY <1>1 DEF vars, IInv, TypeOK, StaleOnlyIfCrossed, Stale
  <1> QED
    BY <1>1, ReadIInv, WriteIInv, RestartIInv DEF Next

(* The strengthened invariant holds in every reachable state.              *)
THEOREM Invariance == Spec => []IInv
  BY InitIInv, StepIInv, PTL DEF Spec

(* The memory, every way of the cache and the value read stay in their     *)
(* types.                                                                  *)
THEOREM TypeCorrect == Spec => []TypeOK
  BY Invariance, PTL DEF IInv

(* A stale line of the cache was the second line of a crossing write, or   *)
(* its first one cached twice, and no write has started in it since.       *)
THEOREM StalenessNeedsACrossingWrite == Spec => []StaleOnlyIfCrossed
  BY Invariance, PTL DEF IInv

-----------------------------------------------------------------------------
LEMMA CoherentUntilCrossed ==
  ASSUME IInv, crossed = {}
  PROVE  Coherent(L1_dcache, hw_mem)
  BY DEF IInv, StaleOnlyIfCrossed, Stale, Coherent

LEMMA FlatInit == Init => Mem!Init
  <1>1. Init => ret \in Mem!Data(1) /\ 1 \in Lens
    BY ShapeAssumption DEF Init, Mem!Data
  <1> QED
    BY <1>1 DEF Init, Mem!Init

LEMMA FlatStep ==
  ASSUME IInv, [Next]_vars
  PROVE  [crossed' = {} => Mem!Next]_<<hw_mem, ret>>
  <1>1. ASSUME NEW a \in Reads, Read(a[1], a[2], a[3]), crossed' = {}
        PROVE  Mem!Next
    <2>1. /\ L1_dcache \in CacheArray /\ hw_mem \in Mem!Memory
          /\ Access(a[1], a[2], a[3]) /\ a[3] \in Lens
      BY RunAccess DEF IInv, TypeOK, CacheArray
    <2>2. Coherent(L1_dcache, hw_mem)
      BY <1>1, CoherentUntilCrossed DEF Read
    <2>3. ret' = Mem!HwRead(hw_mem, a[1], a[2], a[3]) /\ hw_mem' = hw_mem
      BY <1>1, <2>1, <2>2, CacheReadProperties DEF Read
    <2>4. Mem!Read(a[1], a[2], a[3])
      BY <2>1, <2>3 DEF Mem!Read, Access
    <2> QED
      BY <2>1, <2>4 DEF Mem!Next, Access
  <1>2. ASSUME NEW a \in Writes, NEW data \in Mem!Data(a[3]),
               NEW past \in PastEnd, Write(a[1], a[2], a[3], data, past)
        PROVE  Mem!Next
    <2>1. Access(a[1], a[2], a[3]) /\ a[3] \in Lens
      BY RunAccess
    <2>2. Mem!Write(a[1], a[2], a[3], data)
      BY <1>2, <2>1 DEF Write, Mem!Write, Access
    <2> QED
      BY <2>1, <2>2 DEF Mem!Next, Access
  <1>3. ASSUME Restart PROVE Mem!Next
    BY <1>3 DEF Restart, Mem!Restart, Mem!Next
  <1>4. ASSUME UNCHANGED vars PROVE UNCHANGED <<hw_mem, ret>>
    BY <1>4 DEF vars
  <1> QED
    BY <1>1, <1>2, <1>3, <1>4 DEF Next

(* While no line is left wrong by a write across the end of a line the     *)
(* guest sees a flat memory, whatever it reads and however often it is     *)
(* restarted.                                                              *)
THEOREM CacheIsTransparent == Spec => FlatUntilCrossed
  <1>1. IInv /\ [Next]_vars => [crossed' = {} => Mem!Next]_<<hw_mem, ret>>
    BY FlatStep
  <1> QED
    BY <1>1, FlatInit, Invariance, PTL DEF Spec, FlatUntilCrossed
=============================================================================
