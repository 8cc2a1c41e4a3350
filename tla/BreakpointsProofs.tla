------------------------- MODULE BreakpointsProofs --------------------------
(***************************************************************************)
(* Proofs about Breakpoints, for pools, programs and words of every size.  *)
(* The lists are threaded through the pool by slot numbers; what the       *)
(* proofs use of them is that their nodes can be numbered in order, which  *)
(* List and the lemmas about pushing, popping, unlinking and appending     *)
(* make precise.  From it: no slot is lost (PoolInv); with what the loop   *)
(* of exec keeps (LoopInv), what is listed is in the program whenever the  *)
(* guest can run into it (ArmInv).                                         *)
(***************************************************************************)
EXTENDS Breakpoints, FiniteSetTheorems, Recursion, TLAPS

-----------------------------------------------------------------------------
(* Lists in the pool *)

(* s numbers the nodes of the list at p from 0, s[m] is its end *)
Nodes(bps, p, m, s) ==
  /\ s[0] = p /\ s[m] = NULL
  /\ \A k \in 0 .. m - 1 : s[k] \in Slots /\ bps[s[k]].next = s[k + 1]
  /\ \A j, k \in 0 .. m - 1 : s[j] = s[k] => j = k

(* The list at p holds the slots S, each once *)
List(bps, p, S) ==
  \E m \in Nat : \E s \in [0 .. m -> Slots \union {NULL}] :
    Nodes(bps, p, m, s) /\ S = {s[k] : k \in 0 .. m - 1}

LEMMA SlotsNat == NR_BP \in Nat \ {0} /\ Slots \subseteq Nat /\ NULL \notin Slots /\ 0 \in Slots
  BY DebuggerAssumption DEF Slots, NULL

LEMMA ListIntro ==
  ASSUME NEW bps, NEW p, NEW S, NEW m \in Nat,
         NEW s \in [0 .. m -> Slots \union {NULL}],
         Nodes(bps, p, m, s), S = {s[k] : k \in 0 .. m - 1}
  PROVE  List(bps, p, S)
  BY DEF List

(* A list in the pool is not longer than the pool *)
LEMMA ListFits ==
  ASSUME NEW bps, NEW p, NEW m \in Nat,
         NEW s \in [0 .. m -> Slots \union {NULL}], Nodes(bps, p, m, s)
  PROVE  m <= NR_BP
<1> DEFINE f == [k \in 1 .. m |-> s[k - 1]]
<1>1. f \in Injection(1 .. m, Slots)
  <2>1. \A k \in 1 .. m : k - 1 \in 0 .. m - 1
    OBVIOUS
  <2>2. f \in [1 .. m -> Slots]
    BY <2>1 DEF Nodes
  <2>3. ASSUME NEW j \in 1 .. m, NEW k \in 1 .. m, f[j] = f[k] PROVE j = k
    <3>1. j - 1 = k - 1
      BY <2>1, <2>3 DEF Nodes
    <3> QED
      BY <3>1
  <2> HIDE DEF f
  <2> QED
    BY <2>2, <2>3 DEF Injection, IsInjective
<1>2. IsFiniteSet(Slots) /\ Cardinality(Slots) = NR_BP
  <2>1. 0 \in Int /\ NR_BP - 1 \in Int /\ ~(0 > NR_BP - 1) /\ (NR_BP - 1) - 0 + 1 = NR_BP
    BY SlotsNat
  <2> QED
    BY <2>1, FS_Interval DEF Slots
<1>3. Cardinality(1 .. m) = m
  <2>1. 1 \in Int /\ m \in Int /\ (IF 1 > m THEN 0 ELSE m - 1 + 1) = m
    OBVIOUS
  <2> QED
    BY <2>1, FS_Interval
<1>4. Cardinality(1 .. m) <= Cardinality(Slots)
  BY <1>1, <1>2, FS_Injection
<1> QED
  BY <1>2, <1>3, <1>4

(* The walk from a member of D stays in D *)
Closed(bps, D) == NULL \in D /\ \A h \in D : h # NULL => bps[h].next \in D

LEMMA WalkDef ==
  ASSUME NEW bps, NEW D, Closed(bps, D), NEW p \in D
  PROVE  /\ Walk(bps, p)[0] = p
         /\ \A k \in 0 .. NR_BP - 1 :
              Walk(bps, p)[k + 1] = IF Walk(bps, p)[k] = NULL THEN NULL
                                    ELSE bps[Walk(bps, p)[k]].next
<1> DEFINE F == [n_ \in Nat |-> [h \in D |-> IF h = NULL THEN NULL ELSE bps[h].next]]
<1>1. F \in [Nat -> [D -> D]]
  BY DEF Closed
<1>2. PICK f \in [Nat -> D] : Iterates(f, p, F)
  <2> HIDE DEF F
  <2> QED BY <1>1, RecursiveFunction
<1> DEFINE V == [k \in 0 .. NR_BP |-> f[k]]
<1>3. ASSUME NEW k \in 0 .. NR_BP
      PROVE  V[k] = IF k = 0 THEN p
                    ELSE IF V[k - 1] = NULL THEN NULL ELSE bps[V[k - 1]].next
  <2>1. CASE k = 0
    BY <1>2, <2>1 DEF Iterates
  <2>2. CASE k # 0
    <3>1. k - 1 \in Nat /\ k - 1 \in 0 .. NR_BP /\ (k - 1) + 1 = k
      BY <2>2, SlotsNat
    <3>2. f[k] = F[k - 1][f[k - 1]] /\ f[k - 1] \in D
      BY <1>2, <3>1 DEF Iterates
    <3>3. V[k] = f[k] /\ V[k - 1] = f[k - 1]
      BY <3>1
    <3> QED
      BY <2>2, <3>1, <3>2, <3>3
  <2> QED
    BY <2>1, <2>2
<1>4. V = [k \in 0 .. NR_BP |-> IF k = 0 THEN p
             ELSE IF V[k - 1] = NULL THEN NULL ELSE bps[V[k - 1]].next]
  <2>1. V = [k \in 0 .. NR_BP |-> V[k]]
    OBVIOUS
  <2> HIDE DEF V
  <2> QED BY <1>3, <2>1
<1>5. PICK U : U = Walk(bps, p)
  OBVIOUS
<1>6. U = [k \in 0 .. NR_BP |-> IF k = 0 THEN p
             ELSE IF U[k - 1] = NULL THEN NULL ELSE bps[U[k - 1]].next]
  <2> HIDE DEF V
  <2> QED BY <1>4, <1>5 DEF Walk
<1>7. U[0] = p
  BY <1>6, SlotsNat
<1>8. ASSUME NEW k \in 0 .. NR_BP - 1
      PROVE  U[k + 1] = IF U[k] = NULL THEN NULL ELSE bps[U[k]].next
  <2>1. k + 1 \in 0 .. NR_BP /\ k + 1 # 0 /\ (k + 1) - 1 = k
    BY SlotsNat
  <2> QED
    BY <1>6, <2>1
<1> QED
  BY <1>5, <1>7, <1>8

(* What find_breakpoint and the others walk through is the list *)
LEMMA LinkedIsList ==
  ASSUME NEW bps, NEW p, NEW S, List(bps, p, S)
  PROVE  Linked(bps, p) = S
<1>0. PICK m \in Nat : \E s \in [0 .. m -> Slots \union {NULL}] :
        Nodes(bps, p, m, s) /\ S = {s[k] : k \in 0 .. m - 1}
  BY DEF List
<1>1. PICK s \in [0 .. m -> Slots \union {NULL}] :
        Nodes(bps, p, m, s) /\ S = {s[k] : k \in 0 .. m - 1}
  BY <1>0
<1>2. m <= NR_BP
  BY <1>1, ListFits
<1> DEFINE D == {s[k] : k \in 0 .. m}
<1>3. Closed(bps, D) /\ p \in D
  BY <1>1 DEF Nodes, Closed
<1>4. PICK U : U = Walk(bps, p)
  OBVIOUS
<1>5. /\ U[0] = p
      /\ \A k \in 0 .. NR_BP - 1 : U[k + 1] = IF U[k] = NULL THEN NULL ELSE bps[U[k]].next
  <2> HIDE DEF D
  <2> QED BY <1>3, <1>4, WalkDef
<1>6. ASSUME NEW k \in 0 .. NR_BP
      PROVE  U[k] = IF k <= m THEN s[k] ELSE NULL
  <2> DEFINE T == {i \in Nat : i <= NR_BP => U[i] = IF i <= m THEN s[i] ELSE NULL}
  <2>1. 0 \in T
    BY <1>1, <1>5 DEF Nodes
  <2>2. ASSUME NEW i \in Nat, i \in T PROVE i + 1 \in T
    <3> SUFFICES ASSUME i + 1 <= NR_BP
                 PROVE  U[i + 1] = IF i + 1 <= m THEN s[i + 1] ELSE NULL
      OBVIOUS
    <3>1. /\ U[i] = IF i <= m THEN s[i] ELSE NULL
          /\ U[i + 1] = IF U[i] = NULL THEN NULL ELSE bps[U[i]].next
      BY <1>5, <2>2, SlotsNat
    <3>2. CASE i + 1 <= m
      <4>1. s[i] \in Slots /\ bps[s[i]].next = s[i + 1]
        BY <1>1, <3>2 DEF Nodes
      <4> QED
        BY <3>1, <3>2, <4>1, SlotsNat
    <3>3. CASE i + 1 > m
      <4>1. U[i] = NULL
        BY <1>1, <3>1, <3>3 DEF Nodes
      <4> QED
        BY <3>1, <3>3, <4>1
    <3> QED
      BY <3>2, <3>3
  <2>3. Nat \subseteq T
    <3> HIDE DEF T
    <3> QED BY <2>1, <2>2, Induction
  <2> QED
    BY <2>3, SlotsNat
<1>7. {U[k] : k \in 0 .. NR_BP} \ {NULL} = S
  <2>1. ASSUME NEW k \in 0 .. NR_BP, U[k] # NULL PROVE U[k] \in S
    <3>1. k <= m /\ U[k] = s[k] /\ k # m
      BY <1>1, <1>6, <2>1 DEF Nodes
    <3> QED
      BY <1>1, <3>1
  <2>2. ASSUME NEW k \in 0 .. m - 1 PROVE s[k] \in {U[i] : i \in 0 .. NR_BP} /\ s[k] # NULL
    <3>1. k \in 0 .. NR_BP /\ U[k] = s[k]
      BY <1>2, <1>6, SlotsNat
    <3> QED
      BY <1>1, <3>1, SlotsNat DEF Nodes
  <2> QED
    BY <1>1, <2>1, <2>2
<1> QED
  BY <1>4, <1>7 DEF Linked

(* Two pools link the nodes in S alike *)
SameNext(bps, bps2, S) == \A q \in S : bps2[q].next = bps[q].next

LEMMA ListSlots ==
  ASSUME NEW bps, NEW p, NEW S, List(bps, p, S)
  PROVE  /\ S \subseteq Slots
         /\ p \in S \union {NULL}
         /\ p = NULL <=> S = {}
         /\ \A q \in S : bps[q].next \in S \union {NULL} /\ bps[q].next # p
<1>0. PICK m \in Nat : \E s \in [0 .. m -> Slots \union {NULL}] :
        Nodes(bps, p, m, s) /\ S = {s[k] : k \in 0 .. m - 1}
  BY DEF List
<1>1. PICK s \in [0 .. m -> Slots \union {NULL}] :
        Nodes(bps, p, m, s) /\ S = {s[k] : k \in 0 .. m - 1}
  BY <1>0
<1>2. S \subseteq Slots
  BY <1>1 DEF Nodes
<1>3. p \in S \union {NULL} /\ (p = NULL <=> S = {})
  <2>1. CASE m = 0
    BY <1>1, <2>1 DEF Nodes
  <2>2. CASE m # 0
    <3>1. 0 \in 0 .. m - 1
      BY <2>2
    <3>2. p = s[0] /\ s[0] \in Slots
      BY <1>1, <3>1 DEF Nodes
    <3>3. p \in S
      BY <1>1, <3>1, <3>2
    <3> QED
      BY <3>2, <3>3, SlotsNat
  <2> QED
    BY <2>1, <2>2
<1>4. ASSUME NEW k \in 0 .. m - 1
      PROVE  bps[s[k]].next \in S \union {NULL} /\ bps[s[k]].next # p
  <2>1. bps[s[k]].next = s[k + 1]
    BY <1>1 DEF Nodes
  <2>2. CASE k + 1 = m
    BY <1>1, <1>3, <2>1, <2>2, SlotsNat DEF Nodes
  <2>3. CASE k + 1 # m
    <3>1. k + 1 \in 0 .. m - 1 /\ 0 \in 0 .. m - 1 /\ k + 1 # 0
      BY <2>3
    <3> QED
      BY <1>1, <2>1, <3>1 DEF Nodes
  <2> QED
    BY <2>2, <2>3
<1> QED
  BY <1>1, <1>2, <1>3, <1>4

LEMMA ListSame ==
  ASSUME NEW bps, NEW bps2, NEW p, NEW S, List(bps, p, S), SameNext(bps, bps2, S)
  PROVE  List(bps2, p, S)
<1>0. PICK m \in Nat : \E s \in [0 .. m -> Slots \union {NULL}] :
        Nodes(bps, p, m, s) /\ S = {s[k] : k \in 0 .. m - 1}
  BY DEF List
<1>1. PICK s \in [0 .. m -> Slots \union {NULL}] :
        Nodes(bps, p, m, s) /\ S = {s[k] : k \in 0 .. m - 1}
  BY <1>0
<1>2. Nodes(bps2, p, m, s)
  BY <1>1 DEF Nodes, SameNext
<1> QED
  BY <1>1, <1>2, ListIntro

LEMMA ListEmpty ==
  ASSUME NEW bps
  PROVE  List(bps, NULL, {})
<1> DEFINE s == [k \in 0 .. 0 |-> NULL]
<1>1. s \in [0 .. 0 -> Slots \union {NULL}] /\ Nodes(bps, NULL, 0, s) /\ {} = {s[k] : k \in 0 .. 0 - 1}
  BY DEF Nodes
<1> HIDE DEF s
<1> QED
  BY <1>1, ListIntro

(* init_bp_list *)
LEMMA ListAll == List(EmptyPool, 0, Slots)
<1> DEFINE s == [k \in 0 .. NR_BP |-> IF k = NR_BP THEN NULL ELSE k]
<1>1. s \in [0 .. NR_BP -> Slots \union {NULL}]
  BY SlotsNat DEF Slots
<1>2. Nodes(EmptyPool, 0, NR_BP, s)
  <2>1. s[0] = 0 /\ s[NR_BP] = NULL
    BY SlotsNat
  <2>2. ASSUME NEW k \in 0 .. NR_BP - 1
        PROVE  s[k] \in Slots /\ s[k] = k /\ EmptyPool[s[k]].next = s[k + 1]
    <3>1. s[k] = k /\ k \in Slots /\ k + 1 \in 0 .. NR_BP
      BY SlotsNat DEF Slots
    <3>2. EmptyPool[k].next = IF k + 1 \in Slots THEN k + 1 ELSE NULL
      BY <3>1 DEF EmptyPool
    <3>3. k + 1 \in Slots <=> k + 1 # NR_BP
      BY SlotsNat DEF Slots
    <3> QED
      BY <3>1, <3>2, <3>3
  <2> HIDE DEF s
  <2> QED
    BY <2>1, <2>2 DEF Nodes
<1>3. Slots = {s[k] : k \in 0 .. NR_BP - 1}
  <2>1. \A k \in 0 .. NR_BP - 1 : s[k] = k
    BY SlotsNat
  <2> HIDE DEF s
  <2> QED
    BY <2>1 DEF Slots
<1> HIDE DEF s
<1> QED
  BY <1>1, <1>2, <1>3, SlotsNat, ListIntro

(* free_BP and the end of new_BP: a slot comes in front *)
LEMMA ListPush ==
  ASSUME NEW bps, NEW bps2, NEW p, NEW S, List(bps, p, S), SameNext(bps, bps2, S),
         NEW q \in Slots, q \notin S, bps2[q].next = p
  PROVE  List(bps2, q, S \union {q})
<1>0. PICK m \in Nat : \E s \in [0 .. m -> Slots \union {NULL}] :
        Nodes(bps, p, m, s) /\ S = {s[k] : k \in 0 .. m - 1}
  BY DEF List
<1>1. PICK s \in [0 .. m -> Slots \union {NULL}] :
        Nodes(bps, p, m, s) /\ S = {s[k] : k \in 0 .. m - 1}
  BY <1>0
<1> DEFINE t == [k \in 0 .. m + 1 |-> IF k = 0 THEN q ELSE s[k - 1]]
<1>2. ASSUME NEW k \in 0 .. m PROVE t[k + 1] = s[k]
  BY SlotsNat
<1>3. t \in [0 .. m + 1 -> Slots \union {NULL}] /\ t[0] = q
  OBVIOUS
<1>4. \A k \in 0 .. m : k = 0 \/ (k - 1 \in 0 .. m - 1 /\ t[k] = s[k - 1])
  OBVIOUS
<1>5. Nodes(bps2, q, m + 1, t)
  <2>1. t[m + 1] = NULL
    BY <1>1, <1>2 DEF Nodes
  <2>2. ASSUME NEW k \in 0 .. m
        PROVE  t[k] \in Slots /\ bps2[t[k]].next = t[k + 1]
    <3>1. CASE k = 0
      BY <1>1, <1>2, <1>3, <3>1 DEF Nodes
    <3>2. CASE k # 0
      <4>1. k - 1 \in 0 .. m - 1 /\ t[k] = s[k - 1] /\ (k - 1) + 1 = k
        BY <1>4, <3>2
      <4>2. s[k - 1] \in S /\ s[k - 1] \in Slots /\ bps[s[k - 1]].next = s[k]
        BY <1>1, <4>1 DEF Nodes
      <4> HIDE DEF t
      <4> QED
        BY <1>2, <4>1, <4>2 DEF SameNext
    <3> QED
      BY <3>1, <3>2
  <2>3. ASSUME NEW j \in 0 .. m, NEW k \in 0 .. m, t[j] = t[k] PROVE j = k
    <3>1. \A i \in 0 .. m : i # 0 => t[i] \in S
      <4> HIDE DEF t
      <4> QED BY <1>1, <1>4
    <3>2. j # 0 /\ k # 0 => j - 1 = k - 1
      <4> HIDE DEF t
      <4> QED BY <1>1, <1>4, <2>3 DEF Nodes
    <3> HIDE DEF t
    <3> QED
      BY <1>3, <2>3, <3>1, <3>2
  <2>4. (m + 1) - 1 = m
    OBVIOUS
  <2> HIDE DEF t
  <2> QED
    BY <1>3, <2>1, <2>2, <2>3, <2>4 DEF Nodes
<1>6. S \union {q} = {t[k] : k \in 0 .. (m + 1) - 1}
  <2>1. ASSUME NEW k \in 0 .. m - 1 PROVE s[k] = t[k + 1] /\ k + 1 \in 0 .. m
    BY <1>2
  <2>2. ASSUME NEW k \in 0 .. m PROVE t[k] \in S \union {q}
    <3> HIDE DEF t
    <3> QED BY <1>1, <1>3, <1>4
  <2>3. (m + 1) - 1 = m /\ 0 \in 0 .. m
    OBVIOUS
  <2> HIDE DEF t
  <2> QED
    BY <1>1, <1>3, <2>1, <2>2, <2>3
<1>7. m + 1 \in Nat
  OBVIOUS
<1> HIDE DEF t
<1> QED
  BY <1>3, <1>5, <1>6, <1>7, ListIntro

(* The front of a list is taken off *)
LEMMA ListPop ==
  ASSUME NEW bps, NEW bps2, NEW p, NEW S, List(bps, p, S), p # NULL,
         SameNext(bps, bps2, S \ {p})
  PROVE  List(bps2, bps[p].next, S \ {p})
<1>0. PICK m \in Nat : \E s \in [0 .. m -> Slots \union {NULL}] :
        Nodes(bps, p, m, s) /\ S = {s[k] : k \in 0 .. m - 1}
  BY DEF List
<1>1. PICK s \in [0 .. m -> Slots \union {NULL}] :
        Nodes(bps, p, m, s) /\ S = {s[k] : k \in 0 .. m - 1}
  BY <1>0
<1>2. m # 0 /\ m - 1 \in Nat /\ 0 \in 0 .. m - 1 /\ (m - 1) + 1 = m
  BY <1>1 DEF Nodes
<1> DEFINE t == [k \in 0 .. m - 1 |-> s[k + 1]]
<1>3. t \in [0 .. m - 1 -> Slots \union {NULL}]
  OBVIOUS
<1>4. \A k \in 0 .. (m - 1) - 1 :
        /\ k + 1 \in 0 .. m - 1 /\ k + 1 # 0 /\ t[k] = s[k + 1] /\ t[k + 1] = s[(k + 1) + 1]
        /\ k \in 0 .. m - 1
  BY <1>2
<1>5. ASSUME NEW k \in 0 .. m - 1, k # 0 PROVE s[k] \in S \ {p}
  BY <1>1, <1>2, <1>5 DEF Nodes
<1>6. t[0] = bps[p].next /\ t[m - 1] = NULL
  BY <1>1, <1>2 DEF Nodes
<1>7. Nodes(bps2, bps[p].next, m - 1, t)
  <2>1. ASSUME NEW k \in 0 .. (m - 1) - 1
        PROVE  t[k] \in Slots /\ bps2[t[k]].next = t[k + 1]
    <3>1. s[k + 1] \in Slots /\ bps[s[k + 1]].next = s[(k + 1) + 1]
      BY <1>1, <1>4 DEF Nodes
    <3>2. s[k + 1] \in S \ {p}
      BY <1>4, <1>5
    <3> HIDE DEF t
    <3> QED
      BY <1>4, <3>1, <3>2 DEF SameNext
  <2>2. ASSUME NEW j \in 0 .. (m - 1) - 1, NEW k \in 0 .. (m - 1) - 1, t[j] = t[k]
        PROVE  j = k
    <3>1. j + 1 = k + 1
      <4> HIDE DEF t
      <4> QED BY <1>1, <1>4, <2>2 DEF Nodes
    <3> QED
      BY <3>1
  <2> HIDE DEF t
  <2> QED
    BY <1>6, <2>1, <2>2 DEF Nodes
<1>8. S \ {p} = {t[k] : k \in 0 .. (m - 1) - 1}
  <2>1. ASSUME NEW k \in 0 .. m - 1, k # 0
        PROVE  k - 1 \in 0 .. (m - 1) - 1 /\ s[k] = t[k - 1]
    BY <2>1
  <2>2. s[0] = p
    BY <1>1 DEF Nodes
  <2> HIDE DEF t
  <2> QED
    BY <1>1, <1>4, <1>5, <2>1, <2>2
<1> HIDE DEF t
<1> QED
  BY <1>2, <1>3, <1>7, <1>8, ListIntro

(* The nodes before p lead past it *)
Bypassed(bps, bps2, p, S) ==
  \A q \in S \ {p} :
    bps2[q].next = IF bps[q].next = p THEN bps[p].next ELSE bps[q].next

(* delete_breakpoint: a slot is taken out of the middle of a list *)
LEMMA ListRemove ==
  ASSUME NEW bps, NEW bps2, NEW h, NEW S, List(bps, h, S),
         NEW p \in S, p # h, Bypassed(bps, bps2, p, S)
  PROVE  List(bps2, h, S \ {p})
<1>0. PICK m \in Nat : \E s \in [0 .. m -> Slots \union {NULL}] :
        Nodes(bps, h, m, s) /\ S = {s[k] : k \in 0 .. m - 1}
  BY DEF List
<1>1. PICK s \in [0 .. m -> Slots \union {NULL}] :
        Nodes(bps, h, m, s) /\ S = {s[k] : k \in 0 .. m - 1}
  BY <1>0
<1>2. PICK j \in 0 .. m - 1 : s[j] = p
  BY <1>1
<1>3. j # 0 /\ m - 1 \in Nat /\ (m - 1) + 1 = m /\ j - 1 \in 0 .. m - 1
  BY <1>1, <1>2 DEF Nodes
<1> DEFINE t == [k \in 0 .. m - 1 |-> IF k < j THEN s[k] ELSE s[k + 1]]
<1>4. t \in [0 .. m - 1 -> Slots \union {NULL}]
  OBVIOUS
<1>5. t[0] = h /\ t[m - 1] = NULL
  BY <1>1, <1>3 DEF Nodes
<1>6. ASSUME NEW k \in 0 .. (m - 1) - 1
      PROVE  /\ k < j => t[k] = s[k] /\ k \in 0 .. m - 1 /\ k # j /\ k + 1 \in 0 .. m - 1
             /\ ~(k < j) => t[k] = s[k + 1] /\ k + 1 \in 0 .. m - 1 /\ k + 1 # j
             /\ k + 1 < j => t[k + 1] = s[k + 1]
             /\ ~(k + 1 < j) => t[k + 1] = s[(k + 1) + 1]
  OBVIOUS
<1>7. ASSUME NEW k \in 0 .. m - 1, k # j
      PROVE  /\ s[k] \in S \ {p} /\ s[k] \in Slots
             /\ k + 1 # j => bps2[s[k]].next = s[k + 1]
             /\ k + 1 = j => bps2[s[k]].next = s[(k + 1) + 1]
  <2>1. s[k] \in S \ {p} /\ s[k] \in Slots /\ bps[s[k]].next = s[k + 1]
    BY <1>1, <1>2, <1>7 DEF Nodes
  <2>2. bps2[s[k]].next = IF s[k + 1] = p THEN bps[p].next ELSE s[k + 1]
    BY <2>1 DEF Bypassed
  <2>3. ASSUME k + 1 # j PROVE s[k + 1] # p
    <3>1. CASE k + 1 = m
      BY <1>1, <1>2, <3>1, SlotsNat DEF Nodes
    <3>2. CASE k + 1 # m
      <4>1. k + 1 \in 0 .. m - 1
        BY <3>2
      <4> QED
        BY <1>1, <1>2, <2>3, <4>1 DEF Nodes
    <3> QED
      BY <3>1, <3>2
  <2>4. bps[p].next = s[j + 1]
    BY <1>1, <1>2 DEF Nodes
  <2> QED
    BY <1>2, <2>1, <2>2, <2>3, <2>4
<1>8. Nodes(bps2, h, m - 1, t)
  <2>1. ASSUME NEW k \in 0 .. (m - 1) - 1
        PROVE  t[k] \in Slots /\ bps2[t[k]].next = t[k + 1]
    <3>1. CASE k < j /\ k + 1 # j
      <4>1. t[k] = s[k] /\ t[k + 1] = s[k + 1] /\ k \in 0 .. m - 1 /\ k # j
        BY <1>6, <3>1
      <4> HIDE DEF t
      <4> QED BY <1>7, <3>1, <4>1
    <3>2. CASE k < j /\ k + 1 = j
      <4>1. t[k] = s[k] /\ t[k + 1] = s[(k + 1) + 1] /\ k \in 0 .. m - 1 /\ k # j
        BY <1>6, <3>2
      <4> HIDE DEF t
      <4> QED BY <1>7, <3>2, <4>1
    <3>3. CASE ~(k < j)
      <4>1. /\ t[k] = s[k + 1] /\ t[k + 1] = s[(k + 1) + 1]
            /\ k + 1 \in 0 .. m - 1 /\ k + 1 # j /\ (k + 1) + 1 # j
        BY <1>6, <3>3
      <4> HIDE DEF t
      <4> QED BY <1>7, <4>1
    <3> QED
      BY <3>1, <3>2, <3>3
  <2>2. ASSUME NEW i \in 0 .. (m - 1) - 1, NEW k \in 0 .. (m - 1) - 1, t[i] = t[k]
        PROVE  i = k
    <3> DEFINE at(x) == IF x < j THEN x ELSE x + 1
    <3>1. /\ t[i] = s[at(i)] /\ at(i) \in 0 .. m - 1
          /\ t[k] = s[at(k)] /\ at(k) \in 0 .. m - 1
      BY <1>6
    <3>2. at(i) = at(k)
      <4> HIDE DEF t, at
      <4> QED BY <1>1, <2>2, <3>1 DEF Nodes
    <3> QED
      BY <3>2
  <2> HIDE DEF t
  <2> QED
    BY <1>5, <2>1, <2>2 DEF Nodes
<1>9. S \ {p} = {t[k] : k \in 0 .. (m - 1) - 1}
  <2>1. ASSUME NEW k \in 0 .. m - 1, k # j
        PROVE  \E i \in 0 .. (m - 1) - 1 : t[i] = s[k]
    <3>1. CASE k < j
      <4>1. k \in 0 .. (m - 1) - 1 /\ t[k] = s[k]
        BY <3>1
      <4> HIDE DEF t
      <4> QED BY <4>1
    <3>2. CASE ~(k < j)
      <4>1. k - 1 \in 0 .. (m - 1) - 1 /\ t[k - 1] = s[k]
        BY <2>1, <3>2
      <4> HIDE DEF t
      <4> QED BY <4>1
    <3> QED
      BY <3>1, <3>2
  <2>2. ASSUME NEW k \in 0 .. (m - 1) - 1 PROVE t[k] \in S \ {p}
    <3> HIDE DEF t
    <3> QED BY <1>6, <1>7
  <2>3. ASSUME NEW q \in S \ {p} PROVE q \in {t[k] : k \in 0 .. (m - 1) - 1}
    <3>1. PICK k \in 0 .. m - 1 : q = s[k]
      BY <1>1
    <3> HIDE DEF t
    <3> QED BY <1>2, <2>1, <3>1
  <2> HIDE DEF t
  <2> QED
    BY <2>2, <2>3
<1> HIDE DEF t
<1> QED
  BY <1>3, <1>4, <1>8, <1>9, ListIntro

(* The end of a list leads on to f *)
Joined(bps, bps2, f, S) ==
  \A q \in S : bps2[q].next = IF bps[q].next = NULL THEN f ELSE bps[q].next

(* delete_all_breakpoint: a list is put in front of another *)
LEMMA ListAppend ==
  ASSUME NEW bps, NEW bps2, NEW h, NEW S, List(bps, h, S),
         NEW f, NEW T, List(bps, f, T), S \intersect T = {}, S # {},
         Joined(bps, bps2, f, S), SameNext(bps, bps2, T)
  PROVE  List(bps2, h, S \union T)
<1>0. PICK m \in Nat : \E s \in [0 .. m -> Slots \union {NULL}] :
        Nodes(bps, h, m, s) /\ S = {s[k] : k \in 0 .. m - 1}
  BY DEF List
<1>1. PICK s \in [0 .. m -> Slots \union {NULL}] :
        Nodes(bps, h, m, s) /\ S = {s[k] : k \in 0 .. m - 1}
  BY <1>0
<1>2. PICK l \in Nat : \E u \in [0 .. l -> Slots \union {NULL}] :
        Nodes(bps, f, l, u) /\ T = {u[k] : k \in 0 .. l - 1}
  BY DEF List
<1>3. PICK u \in [0 .. l -> Slots \union {NULL}] :
        Nodes(bps, f, l, u) /\ T = {u[k] : k \in 0 .. l - 1}
  BY <1>2
<1>4. m # 0 /\ m + l \in Nat
  BY <1>1
<1> DEFINE t == [k \in 0 .. m + l |-> IF k < m THEN s[k] ELSE u[k - m]]
<1>5. t \in [0 .. m + l -> Slots \union {NULL}]
  OBVIOUS
<1>6. \A k \in 0 .. m + l :
        /\ k < m => k \in 0 .. m - 1 /\ t[k] = s[k]
        /\ ~(k < m) => k - m \in 0 .. l /\ t[k] = u[k - m]
  OBVIOUS
<1>7. \A k \in 0 .. m - 1 : s[k] \in S /\ s[k] \in Slots /\ bps[s[k]].next = s[k + 1]
  BY <1>1 DEF Nodes
<1>8. \A k \in 0 .. l - 1 : u[k] \in T /\ u[k] \in Slots /\ bps[u[k]].next = u[k + 1]
  BY <1>3 DEF Nodes
<1>9. t[0] = h /\ t[m + l] = NULL
  <2>1. s[0] = h /\ u[l] = NULL /\ 0 < m /\ ~(m + l < m) /\ (m + l) - m = l
        /\ 0 \in 0 .. m + l /\ m + l \in 0 .. m + l
    BY <1>1, <1>3, <1>4 DEF Nodes
  <2> HIDE DEF t
  <2> QED BY <1>6, <2>1
<1>10. Nodes(bps2, h, m + l, t)
  <2>1. ASSUME NEW k \in 0 .. (m + l) - 1
        PROVE  t[k] \in Slots /\ bps2[t[k]].next = t[k + 1]
    <3>1. k \in 0 .. m + l /\ k + 1 \in 0 .. m + l
      OBVIOUS
    <3>2. CASE k < m /\ k + 1 < m
      <4>1. /\ t[k] = s[k] /\ t[k + 1] = s[k + 1]
            /\ k \in 0 .. m - 1 /\ k + 1 \in 0 .. m - 1
        BY <1>6, <3>1, <3>2
      <4>2. s[k + 1] # NULL
        BY <1>7, <4>1, SlotsNat
      <4> HIDE DEF t
      <4> QED BY <1>7, <4>1, <4>2 DEF Joined
    <3>3. CASE k < m /\ k + 1 = m
      <4>1. /\ t[k] = s[k] /\ k \in 0 .. m - 1 /\ ~(k + 1 < m) /\ (k + 1) - m = 0
            /\ t[k + 1] = u[0]
        BY <1>6, <3>1, <3>3
      <4>2. s[k + 1] = NULL /\ u[0] = f
        BY <1>1, <1>3, <3>3 DEF Nodes
      <4> HIDE DEF t
      <4> QED BY <1>7, <4>1, <4>2 DEF Joined
    <3>4. CASE ~(k < m)
      <4>1. /\ t[k] = u[k - m] /\ k - m \in 0 .. l - 1
            /\ t[k + 1] = u[(k - m) + 1]
        <5>1. ~(k + 1 < m) /\ (k + 1) - m = (k - m) + 1 /\ k - m \in 0 .. l - 1
          BY <3>4
        <5> HIDE DEF t
        <5> QED BY <1>6, <3>1, <3>4, <5>1
      <4> HIDE DEF t
      <4> QED BY <1>8, <4>1 DEF SameNext
    <3>5. k < m => k + 1 < m \/ k + 1 = m
      OBVIOUS
    <3> HIDE DEF t
    <3> QED
      BY <3>2, <3>3, <3>4, <3>5
  <2>2. ASSUME NEW i \in 0 .. (m + l) - 1, NEW k \in 0 .. (m + l) - 1, t[i] = t[k]
        PROVE  i = k
    <3>1. \A x \in 0 .. (m + l) - 1 :
            /\ x \in 0 .. m + l
            /\ x < m => t[x] = s[x] /\ x \in 0 .. m - 1 /\ t[x] \in S
            /\ ~(x < m) => t[x] = u[x - m] /\ x - m \in 0 .. l - 1 /\ t[x] \in T
      <4>1. \A x \in 0 .. (m + l) - 1 :
              x \in 0 .. m + l /\ (~(x < m) => x - m \in 0 .. l - 1)
        OBVIOUS
      <4> HIDE DEF t
      <4> QED BY <1>6, <1>7, <1>8, <4>1
    <3>2. CASE i < m /\ k < m
      <4> HIDE DEF t
      <4> QED BY <1>1, <2>2, <3>1, <3>2 DEF Nodes
    <3>3. CASE ~(i < m) /\ ~(k < m)
      <4>1. i - m = k - m
        <5> HIDE DEF t
        <5> QED BY <1>3, <2>2, <3>1, <3>3 DEF Nodes
      <4> QED
        BY <4>1
    <3>4. (i < m) <=> (k < m)
      <4> HIDE DEF t
      <4> QED BY <2>2, <3>1
    <3> HIDE DEF t
    <3> QED
      BY <3>2, <3>3, <3>4
  <2> HIDE DEF t
  <2> QED
    BY <1>9, <2>1, <2>2 DEF Nodes
<1>11. S \union T = {t[k] : k \in 0 .. (m + l) - 1}
  <2>1. ASSUME NEW k \in 0 .. m - 1 PROVE k \in 0 .. (m + l) - 1 /\ t[k] = s[k]
    OBVIOUS
  <2>2. ASSUME NEW k \in 0 .. l - 1
        PROVE  k + m \in 0 .. (m + l) - 1 /\ t[k + m] = u[k]
    <3>1. k + m \in 0 .. (m + l) - 1 /\ k + m \in 0 .. m + l /\ ~(k + m < m) /\ (k + m) - m = k
      OBVIOUS
    <3> HIDE DEF t
    <3> QED BY <1>6, <3>1
  <2>3. ASSUME NEW k \in 0 .. (m + l) - 1 PROVE t[k] \in S \union T
    <3>1. k \in 0 .. m + l /\ (~(k < m) => k - m \in 0 .. l - 1)
      OBVIOUS
    <3> HIDE DEF t
    <3> QED BY <1>6, <1>7, <1>8, <3>1
  <2>4. ASSUME NEW q \in S PROVE q \in {t[k] : k \in 0 .. (m + l) - 1}
    <3> HIDE DEF t
    <3> QED BY <1>1, <2>1
  <2>5. ASSUME NEW q \in T PROVE q \in {t[k] : k \in 0 .. (m + l) - 1}
    <3> HIDE DEF t
    <3> QED BY <1>3, <2>2
  <2> HIDE DEF t
  <2> QED
    BY <2>3, <2>4, <2>5
<1> HIDE DEF t
<1> QED
  BY <1>4, <1>5, <1>10, <1>11, ListIntro

-----------------------------------------------------------------------------
(* The pool's two lists *)

Used == {p \in Slots : bp_list[p].in_use}

ListInv == List(bp_list, head, Used) /\ List(bp_list, free_, Slots \ Used)

LEMMA IntactPool == ListInv => PoolIntact
<1> SUFFICES ASSUME ListInv PROVE PoolIntact
  OBVIOUS
<1>1. Linked(bp_list, head) = Used /\ Linked(bp_list, free_) = Slots \ Used
  BY LinkedIsList DEF ListInv
<1> QED
  BY <1>1 DEF PoolIntact, Used

(* The breakpoints and watchpoints of a pool *)
OfType(bps, type) == {p \in Slots : bps[p].in_use /\ bps[p].type = type}

LEMMA ListedAre ==
  ASSUME ListInv
  PROVE  /\ Breakpoints = OfType(bp_list, "BREAKPOINT")
         /\ Watchpoints = OfType(bp_list, "WATCHPOINT")
<1>1. Linked(bp_list, head) = Used
  BY LinkedIsList DEF ListInv
<1> QED
  BY <1>1 DEF Breakpoints, Watchpoints, OfType, Used

LEMMA ListedAreNext ==
  ASSUME ListInv'
  PROVE  /\ Breakpoints' = OfType(bp_list', "BREAKPOINT")
         /\ Watchpoints' = OfType(bp_list', "WATCHPOINT")
<1>1. List(bp_list', head', Used')
  BY DEF ListInv
<1>2. Linked(bp_list', head') = Used'
  BY <1>1, LinkedIsList
<1> QED
  BY <1>2 DEF Breakpoints, Watchpoints, OfType, Used

(* Looking for a slot in the list finds the first there is *)
LEMMA FirstFound ==
  ASSUME ListInv, NEW S, S \subseteq Used
  PROVE  /\ S = {} => FirstOf(S) = NULL
         /\ S # {} => FirstOf(S) \in S
<1>1. Linked(bp_list, head) = Used
  BY LinkedIsList DEF ListInv
<1>2. ASSUME NEW p \in S PROVE Position(p) \in Nat
  <2>1. p \in {Walk(bp_list, head)[k] : k \in 0 .. NR_BP}
    BY <1>1 DEF Linked
  <2>2. \E k \in 0 .. NR_BP : Walk(bp_list, head)[k] = p
    BY <2>1
  <2>3. Position(p) \in 0 .. NR_BP
    BY <2>2 DEF Position
  <2> QED
    BY <2>3
<1>3. ASSUME S # {} PROVE FirstOf(S) \in S
  <2> DEFINE T == {Position(p) : p \in S}
  <2>1. T \subseteq Nat /\ T # {}
    BY <1>2, <1>3
  <2>2. PICK x \in T : \A y \in T : x <= y
    <3> HIDE DEF T
    <3> QED BY <2>1, Least
  <2>3. PICK p \in S : Position(p) = x
    BY <2>2
  <2>4. \A q \in S : Position(p) <= Position(q)
    BY <2>2, <2>3
  <2> QED
    BY <1>3, <2>4 DEF FirstOf
<1> QED
  BY <1>3 DEF FirstOf

LEMMA FoundBreakpoint ==
  ASSUME ListInv, NEW a
  PROVE  /\ Found(a) # NULL =>
              Found(a) \in Breakpoints /\ Found(a) \in Slots /\ bp_list[Found(a)].addr = a
         /\ Found(a) = NULL => a \notin BreakpointAddrs
<1> DEFINE S == {p \in Breakpoints : bp_list[p].addr = a}
<1>1. S \subseteq Used /\ Breakpoints \subseteq Slots
  BY ListedAre DEF OfType, Used
<1>2. (S = {} => FirstOf(S) = NULL) /\ (S # {} => FirstOf(S) \in S)
  <2> HIDE DEF S
  <2> QED BY <1>1, FirstFound
<1>3. Found(a) = FirstOf(S)
  BY DEF Found
<1>4. S # {} => FirstOf(S) # NULL
  <2> HIDE DEF S
  <2> QED BY <1>1, <1>2, SlotsNat DEF Used
<1> QED
  BY <1>1, <1>2, <1>3, <1>4 DEF BreakpointAddrs

LEMMA ChangedWatchpoint ==
  ASSUME ListInv, NEW val
  PROVE  /\ Changed(val) # NULL =>
              /\ Changed(val) \in Watchpoints /\ Changed(val) \in Slots
              /\ bp_list[Changed(val)].old_val # val
         /\ Changed(val) = NULL => \A p \in Watchpoints : bp_list[p].old_val = val
<1> DEFINE S == {p \in Watchpoints : bp_list[p].old_val # val}
<1>1. S \subseteq Used /\ Watchpoints \subseteq Slots
  BY ListedAre DEF OfType, Used
<1>2. (S = {} => FirstOf(S) = NULL) /\ (S # {} => FirstOf(S) \in S)
  <2> HIDE DEF S
  <2> QED BY <1>1, FirstFound
<1>3. Changed(val) = FirstOf(S)
  BY DEF Changed
<1>4. S # {} => FirstOf(S) # NULL
  <2> HIDE DEF S
  <2> QED BY <1>1, <1>2, SlotsNat DEF Used
<1> QED
  BY <1>1, <1>2, <1>3, <1>4

LEMMA EmptyPoolTyped ==
  /\ EmptyPool \in [Slots -> BP]
  /\ \A p \in Slots : ~EmptyPool[p].in_use
  /\ \A p \in Slots, rest \in Slots \union {NULL} :
       Freed(p, rest) \in BP /\ Freed(p, rest).next = rest /\ ~Freed(p, rest).in_use
<1>1. 0 \in Addrs /\ 0 \in Values
  BY DebuggerAssumption DEF Addrs, Values
<1>2. ASSUME NEW p \in Slots
      PROVE  /\ EmptyPool[p] \in BP /\ ~EmptyPool[p].in_use
             /\ \A rest \in Slots \union {NULL} :
                  Freed(p, rest) \in BP /\ Freed(p, rest).next = rest /\ ~Freed(p, rest).in_use
  BY <1>1 DEF EmptyPool, Freed, BP
<1>3. DOMAIN EmptyPool = Slots /\ EmptyPool = [p \in Slots |-> EmptyPool[p]]
  BY DEF EmptyPool
<1> QED
  BY <1>2, <1>3

(* What the program and the pool are after the test of hit_break_rerun *)
LEMMA RearmedIs ==
  ASSUME TypeOK, ListInv
  PROVE  /\ Rearmed.bps \in [Slots -> BP]
         /\ \A p \in Slots :
              /\ Rearmed.bps[p].next = bp_list[p].next
              /\ Rearmed.bps[p].in_use = bp_list[p].in_use
              /\ Rearmed.bps[p].type = bp_list[p].type
              /\ Rearmed.bps[p].addr = bp_list[p].addr
              /\ Rearmed.bps[p].old_val = bp_list[p].old_val
         /\ Rearmed.code \in [Addrs -> {"op", "int3"}]
         /\ \A a \in Addrs :
              \/ Rearmed.code[a] = code[a]
              \/ a \in BreakpointAddrs /\ Rearmed.code[a] = "int3"
         /\ hit_break_rerun => \A a \in BreakpointAddrs : Rearmed.code[a] = "int3"
         /\ ~hit_break_rerun => Rearmed.code = code
<1>1. Breakpoints \subseteq Slots /\ BreakpointAddrs \subseteq Addrs
  BY ListedAre DEF OfType, BreakpointAddrs, TypeOK, BP
<1>2. CASE hit_break_rerun
  <2>1. Rearmed.code = [a \in Addrs |-> IF a \in BreakpointAddrs THEN "int3" ELSE code[a]]
    BY <1>2 DEF Rearmed, Resumed
  <2>2. Rearmed.bps = [p \in Slots |->
     IF p \in Breakpoints
       THEN [bp_list[p] EXCEPT !.ori_byte =
               IF p = Found(bp_list[p].addr) THEN code[bp_list[p].addr] ELSE "int3"]
       ELSE bp_list[p]]
    BY <1>2 DEF Rearmed, Resumed
  <2>3. ASSUME NEW p \in Slots
        PROVE  /\ Rearmed.bps[p] \in BP
               /\ Rearmed.bps[p].next = bp_list[p].next
               /\ Rearmed.bps[p].in_use = bp_list[p].in_use
               /\ Rearmed.bps[p].type = bp_list[p].type
               /\ Rearmed.bps[p].addr = bp_list[p].addr
               /\ Rearmed.bps[p].old_val = bp_list[p].old_val
    <3>1. PICK x : x = IF p = Found(bp_list[p].addr) THEN code[bp_list[p].addr] ELSE "int3"
      OBVIOUS
    <3>2. bp_list[p] \in BP
      BY DEF TypeOK
    <3>3. x \in {"op", "int3"}
      BY <3>1, <3>2 DEF TypeOK, BP
    <3>4. Rearmed.bps[p] = IF p \in Breakpoints THEN [bp_list[p] EXCEPT !.ori_byte = x]
                           ELSE bp_list[p]
      BY <2>2, <3>1
    <3> QED
      BY <3>2, <3>3, <3>4 DEF BP
  <2>4. Rearmed.bps \in [Slots -> BP]
    BY <2>2, <2>3
  <2> QED
    BY <1>1, <1>2, <2>1, <2>3, <2>4 DEF TypeOK
<1>3. CASE ~hit_break_rerun
  BY <1>3 DEF Rearmed, TypeOK
<1> QED
  BY <1>2, <1>3

-----------------------------------------------------------------------------
(* What a step of exec does to the pool: nothing the lists depend on *)
SamePool ==
  /\ bp_list' \in [Slots -> BP] /\ head' = head /\ free_' = free_
  /\ \A p \in Slots :
       /\ bp_list'[p].next = bp_list[p].next
       /\ bp_list'[p].in_use = bp_list[p].in_use
       /\ bp_list'[p].type = bp_list[p].type
       /\ bp_list'[p].addr = bp_list[p].addr

LEMMA SamePoolKeepsLists ==
  ASSUME ListInv, SamePool
  PROVE  /\ ListInv'
         /\ Breakpoints' = Breakpoints /\ Watchpoints' = Watchpoints
         /\ BreakpointAddrs' = BreakpointAddrs
<1>1. Used' = Used /\ head' = head /\ free_' = free_
  BY DEF SamePool, Used
<1>2. SameNext(bp_list, bp_list', Used) /\ SameNext(bp_list, bp_list', Slots \ Used)
  BY DEF SamePool, SameNext, Used
<1>3. List(bp_list', head, Used) /\ List(bp_list', free_, Slots \ Used)
  BY <1>2, ListSame DEF ListInv
<1>4. ListInv'
  BY <1>1, <1>3 DEF ListInv
<1>5. Breakpoints' = Breakpoints /\ Watchpoints' = Watchpoints
  <2>1. \A type : OfType(bp_list', type) = OfType(bp_list, type)
    BY DEF OfType, SamePool
  <2> QED
    BY <1>4, <2>1, ListedAre, ListedAreNext
<1>6. Breakpoints \subseteq Slots
  BY ListedAre DEF OfType
<1> QED
  BY <1>4, <1>5, <1>6 DEF BreakpointAddrs, SamePool

(* The watchpoint that changed, if one did, takes the new value *)
LEMMA WatchPool ==
  ASSUME TypeOK, ListInv, Iteration,
         NEW val \in Values, NEW state, Watch(Rearmed.bps, val, state)
  PROVE  /\ SamePool
         /\ \A p \in Slots : bp_list'[p].old_val =
              IF p = Changed(val) THEN val ELSE bp_list[p].old_val
         /\ nemu_state' = IF Changed(val) = NULL THEN state ELSE "READY"
<1> DEFINE bps == Rearmed.bps
           wp == Changed(val)
<1>1. /\ bps \in [Slots -> BP]
      /\ \A p \in Slots :
           /\ bps[p].next = bp_list[p].next /\ bps[p].in_use = bp_list[p].in_use
           /\ bps[p].type = bp_list[p].type /\ bps[p].addr = bp_list[p].addr
           /\ bps[p].old_val = bp_list[p].old_val
  BY RearmedIs
<1>2. /\ bp_list' = IF wp = NULL THEN bps ELSE [bps EXCEPT ![wp].old_val = val]
      /\ nemu_state' = IF wp = NULL THEN state ELSE "READY"
      /\ head' = head /\ free_' = free_
  BY DEF Watch, Iteration
<1>3. wp # NULL => wp \in Slots
  BY ChangedWatchpoint
<1> HIDE DEF bps, wp
<1>4. CASE wp = NULL
  BY <1>1, <1>2, <1>4, SlotsNat DEF SamePool, wp
<1>5. CASE wp # NULL
  <2>1. wp \in Slots /\ bp_list' = [bps EXCEPT ![wp].old_val = val]
    BY <1>2, <1>3, <1>5
  <2>2. ASSUME NEW p \in Slots
        PROVE  /\ bp_list'[p] \in BP
               /\ bp_list'[p].next = bps[p].next /\ bp_list'[p].in_use = bps[p].in_use
               /\ bp_list'[p].type = bps[p].type /\ bp_list'[p].addr = bps[p].addr
               /\ bp_list'[p].old_val = IF p = wp THEN val ELSE bps[p].old_val
    <3>1. bps[p] \in BP
      BY <1>1
    <3>2. CASE p = wp
      <4>1. bp_list'[p] = [bps[p] EXCEPT !.old_val = val]
        BY <1>1, <2>1, <3>2
      <4> QED
        BY <3>1, <3>2, <4>1 DEF BP
    <3>3. CASE p # wp
      BY <1>1, <2>1, <3>1, <3>3
    <3> QED
      BY <3>2, <3>3
  <2>3. bp_list' \in [Slots -> BP]
    <3>1. DOMAIN bp_list' = Slots /\ bp_list' = [p \in Slots |-> bp_list'[p]]
      BY <1>1, <2>1
    <3> QED
      BY <2>2, <3>1
  <2> QED
    BY <1>1, <1>2, <2>2, <2>3 DEF SamePool, wp
<1> QED
  BY <1>4, <1>5

(* new_BP and the command that fills the slot *)
LEMMA InsertPool ==
  ASSUME TypeOK, ListInv, NEW bp \in BP, bp.in_use, bp.next = head, Insert(bp)
  PROVE  /\ bp_list' \in [Slots -> BP]
         /\ head' \in Slots \union {NULL} /\ free_' \in Slots \union {NULL}
         /\ ListInv'
         /\ free_ \in Slots \ Used /\ bp_list'[free_] = bp
         /\ \A p \in Slots : p # free_ => bp_list'[p] = bp_list[p]
<1>1. /\ free_ # NULL /\ free_ \in Slots /\ free_ \in Slots \ Used
      /\ head \in Used \union {NULL}
      /\ bp_list[free_].next \in Slots \union {NULL}
  BY ListSlots DEF ListInv, Insert
<1>2. /\ bp_list' = [bp_list EXCEPT ![free_] = bp] /\ head' = free_
      /\ free_' = bp_list[free_].next
  BY DEF Insert
<1>3. /\ bp_list' \in [Slots -> BP] /\ bp_list'[free_] = bp
      /\ \A p \in Slots : p # free_ => bp_list'[p] = bp_list[p]
  BY <1>1, <1>2 DEF TypeOK
<1>4. SameNext(bp_list, bp_list', Used) /\ SameNext(bp_list, bp_list', (Slots \ Used) \ {free_})
  BY <1>1, <1>3 DEF SameNext, Used
<1>5. List(bp_list', free_, Used \union {free_})
  BY <1>1, <1>3, <1>4, ListPush DEF ListInv
<1>6. List(bp_list', bp_list[free_].next, (Slots \ Used) \ {free_})
  BY <1>1, <1>4, ListPop DEF ListInv
<1>7. Used' = Used \union {free_}
  BY <1>1, <1>3 DEF Used
<1>8. Slots \ Used' = (Slots \ Used) \ {free_}
  BY <1>7
<1>9. ListInv'
  BY <1>2, <1>5, <1>6, <1>7, <1>8 DEF ListInv
<1> QED
  BY <1>1, <1>2, <1>3, <1>9

(* delete_breakpoint *)
LEMMA DeletePool ==
  ASSUME TypeOK, ListInv, NEW d \in Slots, DeleteBreakpoint(d)
  PROVE  /\ bp_list' \in [Slots -> BP]
         /\ head' \in Slots \union {NULL} /\ free_' \in Slots \union {NULL}
         /\ ListInv'
         /\ \A q \in Slots : bp_list'[q].in_use =>
              /\ bp_list[q].in_use /\ bp_list'[q].type = bp_list[q].type
              /\ bp_list'[q].addr = bp_list[q].addr
              /\ bp_list'[q].old_val = bp_list[q].old_val
<1> DEFINE prev == {q \in Used : bp_list[q].next = d}
<1>1. Linked(bp_list, head) = Used
  BY LinkedIsList DEF ListInv
<1>2. /\ d \in Used /\ head' = (IF d = head THEN bp_list[d].next ELSE head) /\ free_' = d
      /\ bp_list' = [q \in Slots |->
           IF q = d THEN Freed(d, free_)
           ELSE IF q \in prev THEN [bp_list[q] EXCEPT !.next = bp_list[d].next]
           ELSE bp_list[q]]
  BY <1>1 DEF DeleteBreakpoint
<1>3. /\ Freed(d, free_) \in BP /\ Freed(d, free_).next = free_ /\ ~Freed(d, free_).in_use
      /\ \A q \in Slots : bp_list[q] \in BP
  BY EmptyPoolTyped DEF TypeOK
<1>4. bp_list[d].next \in Slots \union {NULL}
  BY <1>3 DEF BP
<1>5. ASSUME NEW q \in Slots, q # d
      PROVE  /\ bp_list'[q] \in BP
             /\ bp_list'[q].in_use = bp_list[q].in_use
             /\ bp_list'[q].type = bp_list[q].type
             /\ bp_list'[q].addr = bp_list[q].addr
             /\ bp_list'[q].old_val = bp_list[q].old_val
             /\ bp_list'[q].next = IF q \in prev THEN bp_list[d].next ELSE bp_list[q].next
  <2>1. bp_list[q] \in BP
    BY <1>3
  <2>2. bp_list'[q] = IF q \in prev THEN [bp_list[q] EXCEPT !.next = bp_list[d].next]
                      ELSE bp_list[q]
    BY <1>2, <1>5
  <2> HIDE DEF prev
  <2> QED
    BY <1>4, <2>1, <2>2 DEF BP
<1>6. bp_list'[d] = Freed(d, free_)
  BY <1>2
<1>7. bp_list' \in [Slots -> BP]
  <2>1. bp_list' = [q \in Slots |-> bp_list'[q]]
    BY <1>2
  <2> QED
    BY <1>3, <1>5, <1>6, <2>1
<1>8. Used' = Used \ {d}
  BY <1>3, <1>5, <1>6 DEF Used
<1>9. List(bp_list', head', Used \ {d})
  <2>1. CASE d = head
    <3>1. prev = {}
      BY <2>1, ListSlots DEF ListInv
    <3>2. SameNext(bp_list, bp_list', Used \ {d})
      BY <1>5, <3>1 DEF SameNext, Used
    <3>3. List(bp_list', bp_list[d].next, Used \ {d})
      BY <2>1, <3>2, ListPop, SlotsNat DEF ListInv
    <3> QED
      BY <1>2, <2>1, <3>3
  <2>2. CASE d # head
    <3>1. Bypassed(bp_list, bp_list', d, Used)
      BY <1>5 DEF Bypassed, Used
    <3>2. List(bp_list', head, Used \ {d})
      BY <1>2, <2>2, <3>1, ListRemove DEF ListInv
    <3> QED
      BY <1>2, <2>2, <3>2
  <2> QED
    BY <2>1, <2>2
<1>10. List(bp_list', d, (Slots \ Used) \union {d})
  <2>1. SameNext(bp_list, bp_list', Slots \ Used)
    BY <1>2, <1>5 DEF SameNext
  <2>2. bp_list'[d].next = free_ /\ d \notin Slots \ Used
    BY <1>2, <1>3, <1>6
  <2> QED
    BY <2>1, <2>2, ListPush DEF ListInv
<1>11. ListInv'
  <2>1. Slots \ Used' = (Slots \ Used) \union {d}
    BY <1>8
  <2> QED
    BY <1>2, <1>8, <1>9, <1>10, <2>1 DEF ListInv
<1>12. head' \in Slots \union {NULL} /\ free_' \in Slots \union {NULL}
  BY <1>2, <1>4 DEF TypeOK
<1> QED
  BY <1>3, <1>5, <1>6, <1>7, <1>11, <1>12

(* delete_all_breakpoint *)
LEMMA DeleteAllPool ==
  ASSUME TypeOK, ListInv, DeleteAll
  PROVE  /\ bp_list' \in [Slots -> BP]
         /\ head' \in Slots \union {NULL} /\ free_' \in Slots \union {NULL}
         /\ ListInv'
         /\ \A q \in Slots : ~bp_list'[q].in_use
<1>1. Linked(bp_list, head) = Used
  BY LinkedIsList DEF ListInv
<1>2. /\ Used # {} /\ head' = NULL /\ free_' = head
      /\ bp_list' = [q \in Slots |->
           IF q \notin Used THEN bp_list[q]
           ELSE Freed(q, IF bp_list[q].next = NULL THEN free_ ELSE bp_list[q].next)]
  BY <1>1 DEF DeleteAll
<1>3. ASSUME NEW q \in Slots
      PROVE  /\ bp_list'[q] \in BP /\ ~bp_list'[q].in_use
             /\ bp_list'[q].next =
                  IF q \in Used /\ bp_list[q].next = NULL THEN free_ ELSE bp_list[q].next
  <2>1. CASE q \in Used
    <3>1. PICK rest : rest = IF bp_list[q].next = NULL THEN free_ ELSE bp_list[q].next
      OBVIOUS
    <3>2. rest \in Slots \union {NULL}
      BY <3>1 DEF TypeOK, BP
    <3>3. bp_list'[q] = Freed(q, rest)
      BY <1>2, <2>1, <3>1
    <3> QED
      BY <2>1, <3>1, <3>2, <3>3, EmptyPoolTyped
  <2>2. CASE q \notin Used
    BY <1>2, <2>2 DEF Used, TypeOK
  <2> QED
    BY <2>1, <2>2
<1>4. bp_list' \in [Slots -> BP]
  <2>1. bp_list' = [q \in Slots |-> bp_list'[q]]
    BY <1>2
  <2> QED
    BY <1>3, <2>1
<1>5. Joined(bp_list, bp_list', free_, Used) /\ SameNext(bp_list, bp_list', Slots \ Used)
  BY <1>3 DEF Joined, SameNext, Used
<1>6. List(bp_list', head, Used \union (Slots \ Used))
  <2>1. Used \intersect (Slots \ Used) = {}
    OBVIOUS
  <2> QED
    BY <1>2, <1>5, <2>1, ListAppend DEF ListInv
<1>7. Used' = {} /\ Used \union (Slots \ Used) = Slots \ {}
  BY <1>3 DEF Used
<1>8. ListInv'
  BY <1>2, <1>6, <1>7, ListEmpty DEF ListInv
<1> QED
  BY <1>2, <1>3, <1>4, <1>8 DEF TypeOK

(* init_bp_list, when NEMU starts and at a restart *)
LEMMA InitPool == List(EmptyPool, NULL, {}) /\ List(EmptyPool, 0, Slots \ {})
  BY ListEmpty, ListAll

-----------------------------------------------------------------------------
(* Type correctness and the pool *)

PoolInv == TypeOK /\ ListInv

LEMMA PoolInit == Init => PoolInv
<1> SUFFICES ASSUME Init PROVE PoolInv
  OBVIOUS
<1>1. 0 \in Addrs /\ 0 \in Values /\ 0 \in Slots
  BY DebuggerAssumption, SlotsNat DEF Addrs, Values
<1>2. TypeOK
  <2>1. bp_list \in [Slots -> BP] /\ code \in [Addrs -> {"op", "int3"}]
    BY EmptyPoolTyped, DebuggerAssumption DEF Init
  <2>2. n \in 0 .. MaxN
    BY DebuggerAssumption DEF Init
  <2> QED
    BY <1>1, <2>1, <2>2 DEF Init, TypeOK
<1>3. ListInv
  <2>1. Used = {}
    BY EmptyPoolTyped DEF Init, Used
  <2> QED
    BY <2>1, InitPool DEF Init, ListInv
<1> QED
  BY <1>2, <1>3 DEF PoolInv

(* the slot b and w fill *)
LEMMA NewTyped ==
  ASSUME TypeOK, NEW a \in Addrs
  PROVE  /\ [in_use |-> TRUE, type |-> "BREAKPOINT", addr |-> a,
             ori_byte |-> code[a], old_val |-> 0, next |-> head] \in BP
         /\ [in_use |-> TRUE, type |-> "WATCHPOINT", addr |-> 0,
             ori_byte |-> "op", old_val |-> watched, next |-> head] \in BP
<1>1. 0 \in Addrs /\ 0 \in Values
  BY DebuggerAssumption DEF Addrs, Values
<1>2. code[a] \in {"op", "int3"} /\ head \in Slots \union {NULL} /\ watched \in Values
  BY DEF TypeOK
<1> QED
  BY <1>1, <1>2 DEF BP

LEMMA SetBreakpointPool ==
  ASSUME PoolInv, NEW a \in Addrs, SetBreakpoint(a)
  PROVE  /\ PoolInv'
         /\ free_ \in Slots \ Used
         /\ bp_list'[free_].in_use /\ bp_list'[free_].type = "BREAKPOINT"
         /\ bp_list'[free_].addr = a
         /\ \A p \in Slots : p # free_ => bp_list'[p] = bp_list[p]
<1> DEFINE bp == [in_use |-> TRUE, type |-> "BREAKPOINT", addr |-> a,
                  ori_byte |-> code[a], old_val |-> 0, next |-> head]
<1>2. bp \in BP /\ Insert(bp)
  BY NewTyped DEF SetBreakpoint, PoolInv
<1>3. bp.in_use /\ bp.next = head
  OBVIOUS
<1>4. /\ bp_list' \in [Slots -> BP]
      /\ head' \in Slots \union {NULL} /\ free_' \in Slots \union {NULL}
      /\ ListInv'
      /\ free_ \in Slots \ Used /\ bp_list'[free_] = bp
      /\ \A p \in Slots : p # free_ => bp_list'[p] = bp_list[p]
  <2> HIDE DEF bp
  <2> QED
    BY <1>2, <1>3, InsertPool DEF PoolInv
<1>5. TypeOK'
  BY <1>4 DEF SetBreakpoint, PoolInv, TypeOK, loop
<1>6. bp_list'[free_].in_use /\ bp_list'[free_].type = "BREAKPOINT" /\ bp_list'[free_].addr = a
  BY <1>4
<1> HIDE DEF bp
<1> QED
  BY <1>4, <1>5, <1>6 DEF PoolInv

LEMMA SetWatchpointPool ==
  ASSUME PoolInv, SetWatchpoint
  PROVE  /\ PoolInv'
         /\ free_ \in Slots \ Used
         /\ bp_list'[free_].type = "WATCHPOINT" /\ bp_list'[free_].old_val = watched
         /\ \A p \in Slots : p # free_ => bp_list'[p] = bp_list[p]
<1> DEFINE bp == [in_use |-> TRUE, type |-> "WATCHPOINT", addr |-> 0,
                  ori_byte |-> "op", old_val |-> watched, next |-> head]
<1>2. bp \in BP /\ Insert(bp)
  <2>1. 0 \in Addrs
    BY DebuggerAssumption DEF Addrs
  <2> QED
    BY <2>1, NewTyped DEF SetWatchpoint, PoolInv
<1>3. bp.in_use /\ bp.next = head
  OBVIOUS
<1>4. /\ bp_list' \in [Slots -> BP]
      /\ head' \in Slots \union {NULL} /\ free_' \in Slots \union {NULL}
      /\ ListInv'
      /\ free_ \in Slots \ Used /\ bp_list'[free_] = bp
      /\ \A p \in Slots : p # free_ => bp_list'[p] = bp_list[p]
  <2> HIDE DEF bp
  <2> QED
    BY <1>2, <1>3, InsertPool DEF PoolInv
<1>5. TypeOK'
  BY <1>4 DEF SetWatchpoint, PoolInv, TypeOK, machine, loop
<1>6. bp_list'[free_].type = "WATCHPOINT" /\ bp_list'[free_].old_val = watched
  BY <1>4
<1> HIDE DEF bp
<1> QED
  BY <1>4, <1>5, <1>6 DEF PoolInv

LEMMA RestartPool ==
  ASSUME PoolInv, Restart
  PROVE  PoolInv' /\ Breakpoints' = {} /\ Watchpoints' = {}
<1>1. bp_list' = EmptyPool /\ head' = NULL /\ free_' = 0
  BY DEF Restart
<1>2. Used' = {}
  BY <1>1, EmptyPoolTyped DEF Used
<1>3. ListInv'
  BY <1>1, <1>2, InitPool DEF ListInv
<1>4. TypeOK'
  <2>1. 0 \in Addrs /\ 0 \in Values /\ 0 \in Slots
    BY DebuggerAssumption, SlotsNat DEF Addrs, Values
  <2> QED
    BY <1>1, <2>1, EmptyPoolTyped, DebuggerAssumption DEF Restart, PoolInv, TypeOK
<1> QED
  BY <1>1, <1>3, <1>4, ListedAreNext, EmptyPoolTyped DEF PoolInv, OfType

(* An instruction, a breakpoint that is hit and one that is not known *)
LEMMA IterationPool ==
  ASSUME PoolInv, Instruction \/ BreakHit \/ BreakUnknown
  PROVE  /\ PoolInv' /\ SamePool
         /\ hit_break_rerun' = FALSE /\ done' = done
         /\ nemu_state = "RUN"
         /\ lost /\ ~hit_break_rerun => lost'
         /\ Changed(watched') = NULL /\ BreakHit => nemu_state' = "BREAK"
         /\ Changed(watched') # NULL /\ BreakHit => lost'
<1>1. Iteration
  BY DEF Instruction, BreakHit, BreakUnknown
<1>2. watched' \in Values
  BY <1>1 DEF Iteration
<1>3. PICK state \in {"RUN", "STOP", "BREAK"} :
        Watch(Rearmed.bps, watched', state) /\ (BreakHit => state = "BREAK")
  <2>1. CASE Instruction
    <3>1. ~BreakHit
      BY <2>1 DEF Instruction, BreakHit
    <3> QED
      BY <2>1, <3>1 DEF Instruction
  <2>2. CASE BreakHit \/ BreakUnknown
    BY <2>2 DEF BreakHit, BreakUnknown
  <2> QED
    BY <2>1, <2>2
<1>4. /\ SamePool
      /\ \A p \in Slots : bp_list'[p].old_val =
           IF p = Changed(watched') THEN watched' ELSE bp_list[p].old_val
      /\ nemu_state' = IF Changed(watched') = NULL THEN state ELSE "READY"
  <2>1. PICK val \in Values : val = watched'
    BY <1>2
  <2>2. Watch(Rearmed.bps, val, state)
    BY <1>3, <2>1
  <2>3. /\ SamePool
        /\ \A p \in Slots : bp_list'[p].old_val =
             IF p = Changed(val) THEN val ELSE bp_list[p].old_val
        /\ nemu_state' = IF Changed(val) = NULL THEN state ELSE "READY"
    BY <1>1, <2>2, WatchPool DEF PoolInv
  <2> QED
    BY <2>1, <2>3
<1>5. ListInv'
  BY <1>4, SamePoolKeepsLists DEF PoolInv
<1>6. eip' \in Addrs
  <2>1. (eip + 1) % NAddrs \in Addrs
    <3>0. NAddrs \in Nat \ {0} /\ eip \in 0 .. NAddrs - 1
      BY DebuggerAssumption DEF PoolInv, TypeOK, Addrs
    <3>1. eip \in Nat /\ NAddrs \in Nat /\ NAddrs > 0
      BY <3>0
    <3>2. eip + 1 \in Nat
      BY <3>1
    <3>3. (eip + 1) % NAddrs \in 0 .. NAddrs - 1
      BY <3>1, <3>2
    <3> QED
      BY <3>3 DEF Addrs
  <2>2. Handlers \subseteq Addrs /\ eip \in Addrs
    BY DebuggerAssumption DEF PoolInv, TypeOK
  <2> QED
    BY <2>1, <2>2 DEF Instruction, BreakHit, BreakUnknown
<1>7. code' \in [Addrs -> {"op", "int3"}]
  <2>1. /\ Rearmed.code \in [Addrs -> {"op", "int3"}]
        /\ Rearmed.bps \in [Slots -> BP]
    BY RearmedIs DEF PoolInv
  <2>2. CASE BreakHit
    <3>1. Found(eip) \in Slots
      BY <2>2, FoundBreakpoint DEF BreakHit, PoolInv
    <3>2. Rearmed.bps[Found(eip)].ori_byte \in {"op", "int3"}
      BY <2>1, <3>1 DEF BP
    <3> QED
      BY <2>1, <2>2, <3>2 DEF BreakHit
  <2>3. CASE Instruction \/ BreakUnknown
    BY <2>1, <2>3 DEF Instruction, BreakUnknown
  <2> QED
    BY <2>2, <2>3
<1>8. n' \in 0 .. MaxN
  <2>1. n \in 0 .. MaxN /\ n > 0 /\ n' = n - 1 /\ MaxN \in Nat
    BY <1>1, DebuggerAssumption DEF Iteration, PoolInv, TypeOK
  <2> QED
    BY <2>1
<1>9. /\ pc' \in {"prompt", "loop", "intr"}
      /\ lost' \in BOOLEAN
      /\ lost /\ ~hit_break_rerun => lost'
      /\ Changed(watched') # NULL /\ BreakHit => lost'
  BY <1>3 DEF Watch
<1>10. TypeOK'
  <2>1. nemu_state' \in {"READY", "RUN", "BREAK", "STOP"}
    BY <1>4
  <2> QED
    BY <1>1, <1>2, <1>4, <1>6, <1>7, <1>8, <1>9, <2>1
       DEF Iteration, SamePool, PoolInv, TypeOK
<1>11. hit_break_rerun' = FALSE /\ done' = done /\ nemu_state = "RUN"
  BY <1>1 DEF Iteration
<1>12. Changed(watched') = NULL /\ BreakHit => nemu_state' = "BREAK"
  BY <1>3, <1>4
<1> QED
  BY <1>4, <1>5, <1>9, <1>10, <1>11, <1>12 DEF PoolInv

(* The steps that leave the pool alone *)
LEMMA OtherPool ==
  ASSUME PoolInv, UNCHANGED pool
  PROVE  /\ ListInv'
         /\ Breakpoints' = Breakpoints /\ Watchpoints' = Watchpoints
         /\ BreakpointAddrs' = BreakpointAddrs
<1>1. SamePool
  BY DEF SamePool, pool, PoolInv, TypeOK
<1> QED
  BY <1>1, SamePoolKeepsLists DEF PoolInv

LEMMA PoolStep == PoolInv /\ [Next]_vars => PoolInv'
<1> SUFFICES ASSUME PoolInv, [Next]_vars PROVE PoolInv'
  OBVIOUS
<1>1. ASSUME NEW a \in Addrs, SetBreakpoint(a) PROVE PoolInv'
  BY <1>1, SetBreakpointPool
<1>2. CASE SetWatchpoint
  BY <1>2, SetWatchpointPool
<1>3. ASSUME NEW p \in Slots, DeleteBreakpoint(p) PROVE PoolInv'
  <2>1. /\ bp_list' \in [Slots -> BP]
        /\ head' \in Slots \union {NULL} /\ free_' \in Slots \union {NULL}
        /\ ListInv'
    BY <1>3, DeletePool DEF PoolInv
  <2> QED
    BY <1>3, <2>1 DEF DeleteBreakpoint, PoolInv, TypeOK, machine, loop
<1>4. CASE DeleteAll
  <2>1. /\ bp_list' \in [Slots -> BP]
        /\ head' \in Slots \union {NULL} /\ free_' \in Slots \union {NULL}
        /\ ListInv'
    BY <1>4, DeleteAllPool DEF PoolInv
  <2> QED
    BY <1>4, <2>1 DEF DeleteAll, PoolInv, TypeOK, machine, loop
<1>5. CASE Continue
  <2>1. ListInv'
    BY <1>5, OtherPool DEF Continue, Exec
  <2>2. n' \in 0 .. MaxN
    BY <1>5, DebuggerAssumption DEF Continue, Exec, Unlimited
  <2> QED
    BY <1>5, <2>1, <2>2 DEF Continue, Exec, PoolInv, TypeOK, machine, pool
<1>6. ASSUME NEW steps \in 1 .. MaxSteps, StepInst(steps) PROVE PoolInv'
  <2>1. ListInv'
    BY <1>6, OtherPool DEF StepInst, Exec
  <2> QED
    <3>1. n' \in 0 .. MaxN
      BY <1>6, DebuggerAssumption DEF StepInst, Exec
    <3> QED
      BY <1>6, <2>1, <3>1 DEF StepInst, Exec, PoolInv, TypeOK, machine, pool
<1>7. CASE Restart
  BY <1>7, RestartPool
<1>8. CASE Instruction \/ BreakHit \/ BreakUnknown
  BY <1>8, IterationPool
<1>9. CASE ExecReturn
  <2>1. ListInv'
    BY <1>9, OtherPool DEF ExecReturn
  <2> QED
    <3>1. n' \in 0 .. MaxN
      BY <1>9, DebuggerAssumption DEF ExecReturn
    <3>2. nemu_state' \in {"READY", "RUN", "BREAK", "STOP"} /\ lost' \in BOOLEAN
      BY <1>9 DEF ExecReturn, PoolInv, TypeOK
    <3> QED
      BY <1>9, <2>1, <3>1, <3>2 DEF ExecReturn, PoolInv, TypeOK, machine, pool
<1>10. CASE DoIntr
  <2>1. ListInv'
    BY <1>10, OtherPool DEF DoIntr
  <2>2. eip' \in Addrs /\ watched' \in Values
    BY <1>10, DebuggerAssumption DEF DoIntr, PoolInv, TypeOK
  <2> QED
    BY <1>10, <2>1, <2>2 DEF DoIntr, PoolInv, TypeOK, pool
<1>11. CASE UNCHANGED vars
  <2>1. ListInv'
    BY <1>11, OtherPool DEF vars
  <2> QED
    BY <1>11, <2>1 DEF vars, PoolInv, TypeOK, machine, loop, pool
<1> QED
  BY <1>1, <1>2, <1>3, <1>4, <1>5, <1>6, <1>7, <1>8, <1>9, <1>10, <1>11 DEF Next, ExecStep

LEMMA PoolInvariant == Spec => []PoolInv
  BY PoolInit, PoolStep, PTL DEF Spec

-----------------------------------------------------------------------------
(* The patches in the program *)

(* A step of exec changes the program at breakpoints only, and when it has *)
(* to rearm them patches all of them but the one it stops at.              *)
LEMMA IterationCode ==
  ASSUME PoolInv, Instruction \/ BreakHit \/ BreakUnknown
  PROVE  /\ \A a \in Addrs : code'[a] = code[a] \/ a \in BreakpointAddrs
         /\ ~BreakHit /\ hit_break_rerun =>
              \A a \in BreakpointAddrs : code'[a] = "int3"
         /\ ~BreakHit /\ ~hit_break_rerun => code' = code
<1>1. /\ Rearmed.code \in [Addrs -> {"op", "int3"}]
      /\ \A a \in Addrs :
           \/ Rearmed.code[a] = code[a]
           \/ a \in BreakpointAddrs /\ Rearmed.code[a] = "int3"
      /\ hit_break_rerun => \A a \in BreakpointAddrs : Rearmed.code[a] = "int3"
      /\ ~hit_break_rerun => Rearmed.code = code
  BY RearmedIs DEF PoolInv
<1>2. CASE BreakHit
  <2>1. PICK byte : code' = [Rearmed.code EXCEPT ![eip] = byte]
    BY <1>2 DEF BreakHit
  <2>2. eip \in BreakpointAddrs
    BY <1>2, FoundBreakpoint DEF BreakHit, PoolInv, BreakpointAddrs
  <2> QED
    BY <1>1, <1>2, <2>1, <2>2
<1>3. CASE ~BreakHit
  <2>1. code' = Rearmed.code
    BY <1>3 DEF Instruction, BreakUnknown
  <2> QED
    BY <1>1, <1>3, <2>1
<1> QED
  BY <1>2, <1>3

LEMMA PatchedStep ==
  PoolInv /\ OnlyBreakpointsPatched /\ [Next]_vars => OnlyBreakpointsPatched'
<1> SUFFICES ASSUME PoolInv, OnlyBreakpointsPatched, [Next]_vars
             PROVE  OnlyBreakpointsPatched'
  OBVIOUS
<1>0. Breakpoints = OfType(bp_list, "BREAKPOINT")
  BY ListedAre DEF PoolInv
<1>1. ASSUME NEW a \in Addrs, SetBreakpoint(a) PROVE OnlyBreakpointsPatched'
  <2>1. /\ PoolInv' /\ free_ \in Slots \ Used
        /\ bp_list'[free_].in_use /\ bp_list'[free_].type = "BREAKPOINT"
        /\ bp_list'[free_].addr = a
        /\ \A p \in Slots : p # free_ => bp_list'[p] = bp_list[p]
    BY <1>1, SetBreakpointPool
  <2>2. Breakpoints' = OfType(bp_list', "BREAKPOINT")
    BY <2>1, ListedAreNext DEF PoolInv
  <2>3. Breakpoints \union {free_} \subseteq Breakpoints'
    BY <1>0, <2>1, <2>2 DEF OfType, Used
  <2>4. \A p \in Breakpoints : bp_list'[p].addr = bp_list[p].addr
    BY <1>0, <2>1 DEF OfType, Used
  <2>5. BreakpointAddrs \union {a} \subseteq BreakpointAddrs'
    BY <2>1, <2>3, <2>4 DEF BreakpointAddrs
  <2>6. /\ "d" \notin done' => "d" \notin done
        /\ \A b \in Addrs : b = a \/ code'[b] = code[b]
    BY <1>1 DEF SetBreakpoint, PoolInv, TypeOK
  <2> QED
    BY <2>5, <2>6 DEF OnlyBreakpointsPatched
<1>2. CASE SetWatchpoint
  <2>1. /\ PoolInv' /\ free_ \in Slots \ Used
        /\ bp_list'[free_].type = "WATCHPOINT"
        /\ \A p \in Slots : p # free_ => bp_list'[p] = bp_list[p]
    BY <1>2, SetWatchpointPool
  <2>2. Breakpoints' = OfType(bp_list', "BREAKPOINT")
    BY <2>1, ListedAreNext DEF PoolInv
  <2>3. Breakpoints' = Breakpoints /\ \A p \in Breakpoints : bp_list'[p] = bp_list[p]
    BY <1>0, <2>1, <2>2 DEF OfType, Used
  <2>4. BreakpointAddrs' = BreakpointAddrs
    BY <2>3 DEF BreakpointAddrs
  <2> QED
    BY <1>2, <2>4 DEF SetWatchpoint, OnlyBreakpointsPatched, machine
<1>3. CASE DeleteAll \/ \E p \in Slots : DeleteBreakpoint(p)
  BY <1>3 DEF DeleteAll, DeleteBreakpoint, OnlyBreakpointsPatched
<1>4. ASSUME UNCHANGED <<code, pool>>, "d" \notin done' => "d" \notin done
      PROVE  OnlyBreakpointsPatched'
  <2>1. BreakpointAddrs' = BreakpointAddrs
    BY <1>4, OtherPool
  <2> QED
    BY <1>4, <2>1 DEF OnlyBreakpointsPatched
<1>5. CASE Continue \/ \E steps \in 1 .. MaxSteps : StepInst(steps)
  BY <1>4, <1>5 DEF Continue, StepInst, Exec, machine
<1>6. CASE Restart
  BY <1>6 DEF Restart, OnlyBreakpointsPatched
<1>7. CASE Instruction \/ BreakHit \/ BreakUnknown
  <2>1. BreakpointAddrs' = BreakpointAddrs /\ done' = done
    BY <1>7, IterationPool, SamePoolKeepsLists DEF PoolInv
  <2>2. \A a \in Addrs : code'[a] = code[a] \/ a \in BreakpointAddrs
    BY <1>7, IterationCode
  <2> QED
    BY <2>1, <2>2 DEF OnlyBreakpointsPatched
<1>8. CASE DoIntr \/ ExecReturn
  BY <1>4, <1>8 DEF DoIntr, ExecReturn, machine
<1>9. CASE UNCHANGED vars
  BY <1>4, <1>9 DEF vars, machine
<1> QED
  BY <1>1, <1>2, <1>3, <1>5, <1>6, <1>7, <1>8, <1>9 DEF Next, ExecStep

-----------------------------------------------------------------------------
(* When the breakpoints are in the program.  exec rearms only while it     *)
(* runs, before it can return.                                             *)
LoopInv ==
  hit_break_rerun => pc = "loop" /\ nemu_state = "RUN" /\ n > 0

ArmInv == PoolInv /\ LoopInv /\ Armed

LEMMA ArmInit == Init => ArmInv
<1> SUFFICES ASSUME Init PROVE ArmInv
  OBVIOUS
<1>1. PoolInv
  BY PoolInit
<1>2. Breakpoints = {} /\ Watchpoints = {}
  BY <1>1, ListedAre, EmptyPoolTyped DEF PoolInv, Init, OfType
<1> QED
  BY <1>1, <1>2 DEF Init, ArmInv, LoopInv, Armed, BreakpointAddrs

LEMMA ArmSetBreakpoint ==
  ASSUME ArmInv, NEW a \in Addrs, SetBreakpoint(a)
  PROVE  LoopInv' /\ Armed'
<1>1. /\ PoolInv' /\ free_ \in Slots \ Used
      /\ bp_list'[free_].in_use /\ bp_list'[free_].type = "BREAKPOINT"
      /\ bp_list'[free_].addr = a
      /\ \A p \in Slots : p # free_ => bp_list'[p] = bp_list[p]
  BY SetBreakpointPool DEF ArmInv
<1>2. /\ Breakpoints = OfType(bp_list, "BREAKPOINT")
      /\ Breakpoints' = OfType(bp_list', "BREAKPOINT")
  BY <1>1, ListedAre, ListedAreNext DEF ArmInv, PoolInv
<1>3. \A p \in Breakpoints' : p = free_ \/ (p \in Breakpoints /\ bp_list'[p] = bp_list[p])
  BY <1>1, <1>2 DEF OfType, Used
<1>4. BreakpointAddrs' \subseteq BreakpointAddrs \union {a}
  BY <1>1, <1>3 DEF BreakpointAddrs
<1>5. /\ UNCHANGED loop /\ lost' = lost
      /\ code' = [code EXCEPT ![a] = "int3"] /\ code \in [Addrs -> {"op", "int3"}]
  BY DEF SetBreakpoint, ArmInv, PoolInv, TypeOK
<1>6. BreakpointAddrs \subseteq Addrs
  BY <1>2 DEF OfType, BreakpointAddrs, ArmInv, PoolInv, TypeOK, BP
<1> QED
  BY <1>4, <1>5, <1>6 DEF ArmInv, LoopInv, Armed, loop

LEMMA ArmSetWatchpoint ==
  ASSUME ArmInv, SetWatchpoint
  PROVE  LoopInv' /\ Armed'
<1>1. /\ PoolInv' /\ free_ \in Slots \ Used
      /\ bp_list'[free_].type = "WATCHPOINT"
      /\ \A p \in Slots : p # free_ => bp_list'[p] = bp_list[p]
  BY SetWatchpointPool DEF ArmInv
<1>2. /\ Breakpoints = OfType(bp_list, "BREAKPOINT")
      /\ Breakpoints' = OfType(bp_list', "BREAKPOINT")
  BY <1>1, ListedAre, ListedAreNext DEF ArmInv, PoolInv
<1>3. Breakpoints' = Breakpoints /\ \A p \in Breakpoints : bp_list'[p] = bp_list[p]
  BY <1>1, <1>2 DEF OfType, Used
<1>4. BreakpointAddrs' = BreakpointAddrs
  BY <1>3 DEF BreakpointAddrs
<1> QED
  BY <1>4 DEF SetWatchpoint, machine, loop, ArmInv, LoopInv, Armed

LEMMA ArmDelete ==
  ASSUME ArmInv, DeleteAll \/ \E d \in Slots : DeleteBreakpoint(d)
  PROVE  LoopInv' /\ Armed'
<1>1. /\ ListInv'
      /\ \A q \in Slots : bp_list'[q].in_use =>
           /\ bp_list[q].in_use /\ bp_list'[q].type = bp_list[q].type
           /\ bp_list'[q].addr = bp_list[q].addr
  BY DeletePool, DeleteAllPool DEF ArmInv, PoolInv
<1>2. /\ Breakpoints = OfType(bp_list, "BREAKPOINT")
      /\ Breakpoints' = OfType(bp_list', "BREAKPOINT")
  BY <1>1, ListedAre, ListedAreNext DEF ArmInv, PoolInv
<1>3. \A p \in Breakpoints' : p \in Breakpoints /\ bp_list'[p].addr = bp_list[p].addr
  BY <1>1, <1>2 DEF OfType
<1>4. BreakpointAddrs' \subseteq BreakpointAddrs
  BY <1>3 DEF BreakpointAddrs
<1>5. UNCHANGED loop /\ lost' = lost /\ code' = code
  BY DEF DeleteAll, DeleteBreakpoint, machine
<1> QED
  BY <1>4, <1>5 DEF ArmInv, LoopInv, Armed, loop

LEMMA ArmIteration ==
  ASSUME ArmInv, Instruction \/ BreakHit \/ BreakUnknown
  PROVE  LoopInv' /\ Armed'
<1>1. /\ SamePool /\ hit_break_rerun' = FALSE /\ nemu_state = "RUN"
      /\ lost /\ ~hit_break_rerun => lost'
      /\ Changed(watched') = NULL /\ BreakHit => nemu_state' = "BREAK"
      /\ Changed(watched') # NULL /\ BreakHit => lost'
  BY IterationPool DEF ArmInv
<1>2. BreakpointAddrs' = BreakpointAddrs
  BY <1>1, SamePoolKeepsLists DEF ArmInv, PoolInv
<1>3. LoopInv'
  BY <1>1 DEF LoopInv
<1>4. Armed'
  <2> SUFFICES ASSUME ~lost', NEW a \in BreakpointAddrs
               PROVE  code'[a] = "int3" \/ nemu_state' = "BREAK"
    BY <1>2 DEF Armed
  <2>1. CASE BreakHit
    BY <1>1, <2>1
  <2>2. CASE ~BreakHit
    <3>1. CASE hit_break_rerun
      BY <2>2, <3>1, IterationCode DEF ArmInv
    <3>2. CASE ~hit_break_rerun
      <4>1. code' = code
        BY <2>2, <3>2, IterationCode DEF ArmInv
      <4>2. code[a] = "int3"
        BY <1>1, <3>2 DEF ArmInv, Armed
      <4> QED
        BY <4>1, <4>2
    <3> QED
      BY <3>1, <3>2
  <2> QED
    BY <2>1, <2>2
<1> QED
  BY <1>3, <1>4

LEMMA ArmStep == ArmInv /\ [Next]_vars => ArmInv'
<1> SUFFICES ASSUME ArmInv, [Next]_vars PROVE LoopInv' /\ Armed'
  BY PoolStep DEF ArmInv
<1>1. ASSUME NEW a \in Addrs, SetBreakpoint(a) PROVE LoopInv' /\ Armed'
  BY <1>1, ArmSetBreakpoint
<1>2. CASE SetWatchpoint
  BY <1>2, ArmSetWatchpoint
<1>3. CASE DeleteAll \/ \E d \in Slots : DeleteBreakpoint(d)
  BY <1>3, ArmDelete
<1>4. CASE Instruction \/ BreakHit \/ BreakUnknown
  BY <1>4, ArmIteration
<1>5. ASSUME UNCHANGED pool PROVE BreakpointAddrs' = BreakpointAddrs
  BY <1>5, OtherPool DEF ArmInv
<1>6. ASSUME NEW steps \in 1 .. MaxN, Exec(steps), pc = "prompt"
      PROVE  LoopInv' /\ Armed'
  <2>1. /\ BreakpointAddrs' = BreakpointAddrs /\ code' = code /\ lost' = lost
        /\ pc' = "loop" /\ n' = steps /\ nemu_state' = "RUN" /\ steps > 0
        /\ hit_break_rerun' = (nemu_state = "BREAK")
    BY <1>5, <1>6 DEF Exec, machine
  <2>2. LoopInv'
    BY <2>1 DEF LoopInv
  <2>3. Armed'
    BY <1>6, <2>1 DEF ArmInv, LoopInv, Armed
  <2> QED
    BY <2>2, <2>3
<1>7. CASE Continue \/ \E steps \in 1 .. MaxSteps : StepInst(steps)
  <2>1. MaxN \in 1 .. MaxN /\ 1 .. MaxSteps \subseteq 1 .. MaxN
    BY DebuggerAssumption
  <2> QED
    BY <1>6, <1>7, <2>1 DEF Continue, StepInst, Prompt, Unlimited
<1>8. CASE Restart
  <2>1. Breakpoints' = {}
    BY <1>8, RestartPool DEF ArmInv
  <2>2. BreakpointAddrs' = {}
    BY <2>1 DEF BreakpointAddrs
  <2> QED
    BY <1>8, <2>2 DEF Restart, ArmInv, LoopInv, Armed
<1>9. CASE DoIntr
  <2>1. /\ BreakpointAddrs' = BreakpointAddrs /\ code' = code /\ lost' = lost
        /\ nemu_state' = nemu_state /\ hit_break_rerun' = hit_break_rerun
        /\ pc = "intr"
    BY <1>5, <1>9 DEF DoIntr
  <2> QED
    BY <2>1 DEF ArmInv, LoopInv, Armed
<1>10. CASE ExecReturn
  <2>1. /\ BreakpointAddrs' = BreakpointAddrs /\ code' = code
        /\ lost' = (lost \/ (nemu_state = "BREAK" /\ n = 0))
        /\ hit_break_rerun' = FALSE
        /\ n = 0 \/ nemu_state # "RUN"
        /\ nemu_state' = IF nemu_state # "STOP" /\ n = 0 THEN "READY" ELSE nemu_state
    BY <1>5, <1>10 DEF ExecReturn, machine
  <2>2. ~hit_break_rerun
    BY <2>1 DEF ArmInv, LoopInv
  <2> QED
    BY <2>1, <2>2 DEF ArmInv, LoopInv, Armed
<1>11. CASE UNCHANGED vars
  BY <1>5, <1>11 DEF vars, machine, loop, ArmInv, LoopInv, Armed
<1> QED
  BY <1>1, <1>2, <1>3, <1>4, <1>7, <1>8, <1>9, <1>10, <1>11 DEF Next, ExecStep

-----------------------------------------------------------------------------
(* Every variable of Breakpoints keeps its type: exec's count goes down to *)
(* 0 and not below, and the pool's links stay in the pool.                 *)
THEOREM TypeCorrect == Spec => []TypeOK
<1>1. PoolInv => TypeOK
  BY DEF PoolInv
<1> QED
  BY <1>1, PoolInvariant, PTL

(* No sequence of commands, hits and restarts loses a slot of the pool or  *)
(* links one twice (new_BP, free_BP, delete_breakpoint,                    *)
(* delete_all_breakpoint).                                                 *)
THEOREM PoolStaysIntact == Spec => []PoolIntact
<1>1. PoolInv => PoolIntact
  BY IntactPool DEF PoolInv
<1> QED
  BY <1>1, PoolInvariant, PTL

(* Before the first deletion the program differs from the user's only      *)
(* where a breakpoint is set (set_breakpoint, resume_breakpoints, exec).   *)
THEOREM PatchesAreBreakpoints == Spec => []OnlyBreakpointsPatched
<1>1. Init => OnlyBreakpointsPatched
  BY DEF Init, OnlyBreakpointsPatched
<1> QED
  BY <1>1, PatchedStep, PoolInvariant, PTL DEF Spec

(* The inductive invariant of the debugger: the two lists share out the    *)
(* pool, exec does not return before it has rearmed, and the listed        *)
(* breakpoints are in the program except after a NEMU_BREAK was replaced.  *)
THEOREM DebuggerInvariant == Spec => []ArmInv
BY ArmInit, ArmStep, PTL DEF Spec

(* Unless a NEMU_BREAK was replaced by NEMU_READY and nothing rearmed      *)
(* since, a breakpoint is in the program, the machine stands at one or is  *)
(* about to rearm, wherever interrupts and commands come (exec, do_intr,   *)
(* resume_breakpoints).                                                    *)
THEOREM BreakpointsArmed == Spec => []Armed
<1>1. ArmInv => Armed
  BY DEF ArmInv
<1> QED
  BY <1>1, DebuggerInvariant, PTL
=============================================================================
