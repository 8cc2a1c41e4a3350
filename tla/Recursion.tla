----------------------------- MODULE Recursion ------------------------------
(***************************************************************************)
(* Induction on the natural numbers and functions defined by recursion, in *)
(* a form a proof can cite without an operator as parameter: the property  *)
(* is the set of the numbers that have it, the step of a recursion is a    *)
(* function.  Both come from the library's theorem that every nonempty     *)
(* subset of a well-founded set has a minimal element.                     *)
(***************************************************************************)
EXTENDS Integers, WellFoundedInduction, TLAPS

(* A nonempty set of natural numbers has a least element                   *)
LEMMA Least ==
  ASSUME NEW T, T \subseteq Nat, T # {}
  PROVE  \E x \in T : \A y \in T : x <= y
<1> DEFINE R == OpToRel(<, Nat)
<1>1. PICK x \in T : \A y \in T : ~(<<y, x>> \in R)
  BY NatLessThanWellFounded, WFMin
<1>2. ASSUME NEW y \in T PROVE x <= y
  <2>1. x \in Nat /\ y \in Nat
    OBVIOUS
  <2>2. ~(y < x)
    <3>1. y < x => <<y, x>> \in R
      BY <2>1 DEF OpToRel
    <3> QED BY <3>1, <1>1
  <2> QED BY <2>1, <2>2
<1> QED BY <1>2

(* Induction: the set S holds 0 and with every number the next one         *)
LEMMA Induction ==
  ASSUME NEW S, 0 \in S, \A n \in Nat : n \in S => n + 1 \in S
  PROVE  Nat \subseteq S
<1> DEFINE T == {n \in Nat : n \notin S}
<1> SUFFICES ASSUME T # {} PROVE FALSE
  OBVIOUS
<1>1. PICK x \in T : \A y \in T : x <= y
  BY Least
<1>2. x \in Nat /\ x # 0 /\ x \notin S
  OBVIOUS
<1>3. x - 1 \in Nat /\ x - 1 \notin T /\ (x - 1) + 1 = x
  BY <1>1, <1>2
<1>4. x - 1 \in S
  BY <1>3
<1> QED BY <1>2, <1>3, <1>4

-----------------------------------------------------------------------------
(* f starts with a and goes on with F *)
Iterates(f, a, F) == f[0] = a /\ \A n \in Nat : f[n + 1] = F[n][f[n]]

(* There is such a function: the recursive definitions of the components   *)
(* define something.                                                       *)
LEMMA RecursiveFunction ==
  ASSUME NEW D, NEW a \in D, NEW F \in [Nat -> [D -> D]]
  PROVE  \E f \in [Nat -> D] : Iterates(f, a, F)
<1> DEFINE Good(n, g) == g[0] = a /\ \A k \in 0 .. n - 1 : g[k + 1] = F[k][g[k]]
           S == {n \in Nat : \E g \in [0 .. n -> D] : Good(n, g)}
<1>1. 0 \in S
  <2> DEFINE g == [k \in 0 .. 0 |-> a]
  <2>1. g \in [0 .. 0 -> D] /\ Good(0, g)
    OBVIOUS
  <2> QED BY <2>1
<1>2. ASSUME NEW n \in Nat, n \in S PROVE n + 1 \in S
  <2>1. PICK g \in [0 .. n -> D] : Good(n, g)
    BY <1>2
  <2> DEFINE h == [k \in 0 .. n + 1 |-> IF k <= n THEN g[k] ELSE F[n][g[n]]]
  <2>2. g[n] \in D /\ F[n] \in [D -> D]
    OBVIOUS
  <2>3. F[n][g[n]] \in D
    BY <2>2
  <2>4. h \in [0 .. n + 1 -> D]
    BY <2>3
  <2>5. h[0] = a
    BY <2>1
  <2>6. ASSUME NEW k \in 0 .. (n + 1) - 1 PROVE h[k + 1] = F[k][h[k]]
    <3>1. CASE k = n
      BY <3>1
    <3>2. CASE k # n
      <4>1. k \in 0 .. n - 1 /\ k + 1 \in 0 .. n
        BY <3>2
      <4> QED BY <4>1, <2>1
    <3> QED BY <3>1, <3>2
  <2>7. Good(n + 1, h)
    BY <2>5, <2>6
  <2>8. \E e \in [0 .. n + 1 -> D] : Good(n + 1, e)
    <3> HIDE DEF h, Good
    <3> QED BY <2>4, <2>7
  <2> HIDE DEF Good
  <2> QED BY <2>8
<1>3. Nat \subseteq S
  <2> HIDE DEF S
  <2> QED BY <1>1, <1>2, Induction
<1> DEFINE G(n) == CHOOSE g \in [0 .. n -> D] : Good(n, g)
<1>4. ASSUME NEW n \in Nat PROVE G(n) \in [0 .. n -> D] /\ Good(n, G(n))
  <2>1. \E g \in [0 .. n -> D] : Good(n, g)
    BY <1>3
  <2> QED BY <2>1
<1>5. ASSUME NEW n \in Nat PROVE G(n + 1)[n] = G(n)[n]
  <2> DEFINE E == {k \in Nat : k <= n => G(n + 1)[k] = G(n)[k]}
  <2>1. G(n)[0] = a /\ (\A k \in 0 .. n - 1 : G(n)[k + 1] = F[k][G(n)[k]])
    BY <1>4
  <2>2. n + 1 \in Nat /\ (n + 1) - 1 = n
    OBVIOUS
  <2>3. G(n + 1)[0] = a /\ (\A k \in 0 .. n : G(n + 1)[k + 1] = F[k][G(n + 1)[k]])
    BY <1>4, <2>2
  <2> HIDE DEF G
  <2>4. 0 \in E
    BY <2>1, <2>3
  <2>5. ASSUME NEW k \in Nat, k \in E PROVE k + 1 \in E
    BY <2>1, <2>3, <2>5
  <2>6. Nat \subseteq E
    <3> HIDE DEF E
    <3> QED BY <2>4, <2>5, Induction
  <2>7. n \in E
    BY <2>6
  <2> QED BY <2>7
<1> DEFINE f == [n \in Nat |-> G(n)[n]]
<1>6. f \in [Nat -> D]
  <2>1. ASSUME NEW n \in Nat PROVE G(n)[n] \in D
    <3> HIDE DEF G
    <3> QED BY <1>4
  <2> HIDE DEF G
  <2> QED BY <2>1
<1>7. f[0] = a
  <2>1. 0 \in Nat /\ G(0)[0] = a
    BY <1>4
  <2> HIDE DEF G
  <2> QED BY <2>1
<1>8. ASSUME NEW n \in Nat PROVE f[n + 1] = F[n][f[n]]
  <2>1. G(n + 1)[n + 1] = F[n][G(n + 1)[n]]
    <3>1. n + 1 \in Nat /\ n \in 0 .. (n + 1) - 1
      OBVIOUS
    <3>2. Good(n + 1, G(n + 1))
      BY <1>4, <3>1
    <3> HIDE DEF G
    <3> QED BY <3>1, <3>2
  <2> HIDE DEF G
  <2> QED BY <2>1, <1>5
<1> QED
  <2> HIDE DEF f
  <2> QED BY <1>6, <1>7, <1>8 DEF Iterates
=============================================================================
