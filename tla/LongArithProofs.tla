-------------------------- MODULE LongArithProofs ---------------------------
(***************************************************************************)
(* Proofs about LongArith for words of every width and numbers of every    *)
(* length: the type invariant, that the flags of alu.c are those of the    *)
(* integers but for the one operand adc and sbb get wrong, and, by         *)
(* induction on the words, that a chain of additions or subtractions       *)
(* computes the sum, the difference and the order of the numbers.          *)
(***************************************************************************)
EXTENDS LongArith, SequenceTheorems, Recursion, TLAPS

Width == 2 * HALF

LEMMA HalfNat == HALF \in Nat /\ HALF >= 2 /\ Width \in Nat /\ Width = HALF + HALF
BY LongAssumption DEF Width

-----------------------------------------------------------------------------
(* alu.c: every operation leaves a word and flags, ... *)

LEMMA WrapTyped ==
  ASSUME NEW n \in Int, -Width <= n, n < 2 * Width
  PROVE  Wrap(n) \in Word
BY HalfNat DEF Wrap, Word, Width

LEMMA FlagsTyped ==
  ASSUME NEW CF \in Bits, NEW OF \in Bits, NEW res \in Word
  PROVE  Flags(CF, OF, res) \in Eflags
BY DEF Flags, Eflags, Bits, Bit, sign

LEMMA AluTyped ==
  ASSUME NEW op \in {"add", "adc", "sub", "sbb"}, NEW s \in Word, NEW d \in Word, NEW c \in Bits
  PROVE  /\ alu(op, s, d, c).res \in Word
         /\ alu(op, s, d, c).flags \in Eflags
<1>1. /\ Wrap(d + s) \in Word /\ Wrap(s + d + c) \in Word
      /\ Wrap(d - s) \in Word /\ Wrap(d - s - c) \in Word
  BY HalfNat, WrapTyped DEF Word, Bits, Width
<1>2. /\ \A x, y, z, u : set_CF_adc(x, y, z, u) \in Bits /\ set_CF_sbb(x, y, z) \in Bits
      /\ \A x, y, z : set_CF_add(x, y) \in Bits /\ set_CF_sub(x, y) \in Bits
                      /\ set_OF_add(x, y, z) \in Bits /\ set_OF_sub(x, y, z) \in Bits
  BY DEF Bits, Bit, set_CF_add, set_CF_adc, set_CF_sub, set_CF_sbb, set_OF_add, set_OF_sub
<1>3. CASE op = "add"
  BY <1>1, <1>2, <1>3, FlagsTyped DEF alu, alu_add
<1>4. CASE op = "adc"
  BY <1>1, <1>2, <1>4, FlagsTyped DEF alu, alu_adc
<1>5. CASE op = "sub"
  BY <1>1, <1>2, <1>5, FlagsTyped DEF alu, alu_sub
<1>6. CASE op = "sbb"
  BY <1>1, <1>2, <1>6, FlagsTyped DEF alu, alu_sbb
<1> QED BY <1>3, <1>4, <1>5, <1>6

-----------------------------------------------------------------------------
(* ... which are those of the integers *)

(* The claims of FlagsRight about one operation                            *)
SumRight(s, d, c, lost, r) ==
  /\ r.res + 2 * HALF * r.flags.CF = d + s + c
  /\ (r.flags.OF = 0 <=> InRange(Signed(d) + Signed(s) + c)) <=> ~lost
DifferenceRight(s, d, c, lost, r) ==
  /\ r.res - 2 * HALF * r.flags.CF = d - s - c
  /\ (r.flags.OF = 0 <=> InRange(Signed(d) - Signed(s) - c)) <=> ~lost
ResultRight(r) ==
  /\ r.flags.ZF = 1 <=> r.res = 0
  /\ r.flags.SF = 1 <=> Signed(r.res) < 0

LEMMA ZeroAndSign ==
  ASSUME NEW CF, NEW OF, NEW res \in Word
  PROVE  ResultRight([res |-> res, flags |-> Flags(CF, OF, res)])
BY HalfNat DEF ResultRight, Flags, Bit, sign, Signed, Word, Width

LEMMA AddRight ==
  ASSUME NEW s \in Word, NEW d \in Word
  PROVE  SumRight(s, d, 0, FALSE, alu_add(s, d)) /\ ResultRight(alu_add(s, d))
<1> DEFINE res == Wrap(d + s)
           r == alu_add(s, d)
<1>1. s \in 0 .. Width - 1 /\ d \in 0 .. Width - 1
  BY DEF Word, Width
<1>2. res = IF d + s >= Width THEN d + s - Width ELSE d + s
  BY <1>1, HalfNat DEF Wrap, Width
<1>3. r = [res |-> res, flags |-> Flags(set_CF_add(res, s), set_OF_add(res, s, d), res)]
  BY DEF alu_add
<1>4. set_CF_add(res, s) = IF d + s >= Width THEN 1 ELSE 0
  BY <1>1, <1>2, HalfNat DEF set_CF_add, Bit
<1>5. set_OF_add(res, s, d) = 0 <=> InRange(Signed(d) + Signed(s))
  BY <1>1, <1>2, HalfNat DEF set_OF_add, Bit, sign, InRange, Signed, Width
<1>6. res \in Word
  BY <1>1, <1>2, HalfNat DEF Word, Width
<1> QED BY <1>1, <1>2, <1>3, <1>4, <1>5, <1>6, ZeroAndSign, HalfNat DEF SumRight, Flags, Width, InRange, Signed

LEMMA AdcRight ==
  ASSUME NEW s \in Word, NEW d \in Word, NEW c \in Bits
  PROVE  SumRight(s, d, c, c = 1 /\ s = HALF - 1, alu_adc(s, d, c))
         /\ ResultRight(alu_adc(s, d, c))
<1> DEFINE res == Wrap(s + d + c)
           r == alu_adc(s, d, c)
<1>1. s \in 0 .. Width - 1 /\ d \in 0 .. Width - 1 /\ c \in {0, 1}
  BY DEF Word, Width, Bits
<1>2. res = IF s + d + c >= Width THEN s + d + c - Width ELSE s + d + c
  BY <1>1, HalfNat DEF Wrap, Width
<1>3. r = [res |-> res, flags |-> Flags(set_CF_adc(res, s, d, c),
                                        set_OF_add(res, Wrap(s + c), d), res)]
  BY DEF alu_adc
<1>4. /\ Wrap(d + c) = IF d + c = Width THEN 0 ELSE d + c
      /\ Wrap(s + c) = IF s + c = Width THEN 0 ELSE s + c
  BY <1>1, HalfNat DEF Wrap, Width
<1>5. set_CF_adc(res, s, d, c) = IF s + d + c >= Width THEN 1 ELSE 0
  BY <1>1, <1>2, <1>4, HalfNat DEF set_CF_adc, Bit
<1>6. (set_OF_add(res, Wrap(s + c), d) = 0 <=> InRange(Signed(d) + Signed(s) + c))
        <=> ~ (c = 1 /\ s = HALF - 1)
  BY <1>1, <1>2, <1>4, HalfNat DEF set_OF_add, Bit, sign, InRange, Signed, Width
<1>7. res \in Word
  BY <1>1, <1>2, HalfNat DEF Word, Width
<1> QED BY <1>1, <1>2, <1>3, <1>5, <1>6, <1>7, ZeroAndSign, HalfNat DEF SumRight, Flags, Width

LEMMA SubRight ==
  ASSUME NEW s \in Word, NEW d \in Word
  PROVE  DifferenceRight(s, d, 0, FALSE, alu_sub(s, d)) /\ ResultRight(alu_sub(s, d))
<1> DEFINE res == Wrap(d - s)
           r == alu_sub(s, d)
<1>1. s \in 0 .. Width - 1 /\ d \in 0 .. Width - 1
  BY DEF Word, Width
<1>2. res = IF d < s THEN d - s + Width ELSE d - s
  BY <1>1, HalfNat DEF Wrap, Width
<1>3. r = [res |-> res, flags |-> Flags(set_CF_sub(res, d), set_OF_sub(res, s, d), res)]
  BY DEF alu_sub
<1>4. set_CF_sub(res, d) = IF d < s THEN 1 ELSE 0
  BY <1>1, <1>2, HalfNat DEF set_CF_sub, Bit
<1>5. set_OF_sub(res, s, d) = 0 <=> InRange(Signed(d) - Signed(s) - 0)
  BY <1>1, <1>2, HalfNat DEF set_OF_sub, Bit, sign, InRange, Signed, Width
<1>6. res \in Word
  BY <1>1, <1>2, HalfNat DEF Word, Width
<1> QED BY <1>1, <1>2, <1>3, <1>4, <1>5, <1>6, ZeroAndSign, HalfNat DEF DifferenceRight, Flags, Width

LEMMA SbbRight ==
  ASSUME NEW s \in Word, NEW d \in Word, NEW c \in Bits
  PROVE  DifferenceRight(s, d, c, c = 1 /\ s = HALF - 1, alu_sbb(s, d, c))
         /\ ResultRight(alu_sbb(s, d, c))
<1> DEFINE res == Wrap(d - s - c)
           r == alu_sbb(s, d, c)
<1>1. s \in 0 .. Width - 1 /\ d \in 0 .. Width - 1 /\ c \in {0, 1}
  BY DEF Word, Width, Bits
<1>2. res = IF d < s + c THEN d - s - c + Width ELSE d - s - c
  BY <1>1, HalfNat DEF Wrap, Width
<1>3. r = [res |-> res, flags |-> Flags(set_CF_sbb(res, d, c),
                                        set_OF_sub(res, Wrap(s + c), d), res)]
  BY DEF alu_sbb
<1>4. /\ Wrap(d - c) = IF d < c THEN Width - 1 ELSE d - c
      /\ Wrap(s + c) = IF s + c = Width THEN 0 ELSE s + c
  BY <1>1, HalfNat DEF Wrap, Width
<1>5. set_CF_sbb(res, d, c) = IF d < s + c THEN 1 ELSE 0
  BY <1>1, <1>2, <1>4, HalfNat DEF set_CF_sbb, Bit
<1>6. (set_OF_sub(res, Wrap(s + c), d) = 0 <=> InRange(Signed(d) - Signed(s) - c))
        <=> ~ (c = 1 /\ s = HALF - 1)
  BY <1>1, <1>2, <1>4, HalfNat DEF set_OF_sub, Bit, sign, InRange, Signed, Width
<1>7. res \in Word
  BY <1>1, <1>2, HalfNat DEF Word, Width
<1> QED BY <1>1, <1>2, <1>3, <1>5, <1>6, <1>7, ZeroAndSign, HalfNat DEF DifferenceRight, Flags, Width

-----------------------------------------------------------------------------
(* The invariant *)

Operations == {"add", "adc", "sub", "sbb"}

(* The flags the program sees are those of its last operation, wherever    *)
(* an interrupt has put them                                               *)
FlagsKept ==
  last # None =>
    \E op \in Operations, s, d \in Word, c \in Bits :
      /\ last = [op |-> op, src |-> s, dest |-> d, CF |-> c, res |-> alu(op, s, d, c).res]
      /\ Mine = alu(op, s, d, c).flags

IInv == TypeOK /\ FlagsKept

LEMMA NumberTyped ==
  ASSUME NEW w \in Numbers
  PROVE  w \in Seq(Word) /\ Len(w) \in Nat /\ \A i \in 1 .. Len(w) : w[i] \in Word
<1>1. PICK n \in 1 .. MaxLen : w \in [1 .. n -> Word]
  BY DEF Numbers
<1>2. n \in Nat
  BY LongAssumption
<1>3. w \in Seq(Word)
  BY <1>1, <1>2, SeqDef
<1> QED BY <1>3, LenProperties, ElementOfSeq

LEMMA InvInit == Init => IInv
<1> SUFFICES ASSUME Init PROVE IInv
  OBVIOUS
<1>1. result \in Seq(Word) /\ Len(result) = 0 /\ Len(src) \in Nat
  BY NumberTyped, EmptySeq DEF Init
<1>2. eflags \in Eflags
  BY DEF Init, Eflags, Bits
<1> QED BY <1>1, <1>2 DEF Init, IInv, TypeOK, FlagsKept

LEMMA InvNext == IInv /\ [Next]_vars => IInv'
<1> SUFFICES ASSUME IInv, [Next]_vars PROVE IInv'
  OBVIOUS
<1> USE DEF IInv
<1>1. CASE Step
  <2> DEFINE i == Len(result) + 1
             op == Operation
             r == alu(op, src[i], dest[i], eflags.CF)
  <2>1. /\ frame = << >> /\ Len(result) < Len(src) /\ frame' = frame
        /\ result' = Append(result, r.res) /\ eflags' = r.flags
        /\ last' = [op |-> op, src |-> src[i], dest |-> dest[i], CF |-> eflags.CF, res |-> r.res]
        /\ UNCHANGED <<kind, src, dest>>
    BY <1>1 DEF Step
  <2>2. op \in Operations
    BY DEF Operation, Operations
  <2>3. /\ Len(result) \in Nat /\ Len(src) \in Nat /\ i \in 1 .. Len(src) /\ i \in 1 .. Len(dest)
    BY <2>1, NumberTyped, LenProperties DEF TypeOK
  <2>4. src[i] \in Word /\ dest[i] \in Word /\ eflags.CF \in Bits
    BY <2>3, NumberTyped DEF TypeOK, Eflags
  <2>5. r.res \in Word /\ r.flags \in Eflags
    BY <2>2, <2>4, AluTyped DEF Operations
  <2>6. result' \in Seq(Word) /\ Len(result') = Len(result) + 1
    <3> HIDE DEF r
    <3> QED BY <2>1, <2>5, AppendProperties DEF TypeOK
  <2>7. TypeOK'
    <3> HIDE DEF r, op, i
    <3> QED BY <2>1, <2>3, <2>5, <2>6 DEF TypeOK
  <2>8. FlagsKept'
    <3>1. Mine' = eflags'
      BY <2>1 DEF Mine
    <3> HIDE DEF op, i
    <3> QED BY <2>1, <2>2, <2>4, <3>1 DEF FlagsKept
  <2> QED BY <2>7, <2>8
<1>2. CASE RaiseIntr
  <2>1. frame' = <<eflags>> /\ frame' # << >> /\ frame'[1] = eflags /\ frame = << >>
    BY <1>2 DEF RaiseIntr
  <2>2. Mine' = Mine
    BY <2>1 DEF Mine
  <2> QED BY <1>2, <2>1, <2>2 DEF RaiseIntr, TypeOK, FlagsKept
<1>3. CASE Handler
  <2>1. eflags' \in Eflags
    <3>1. PICK op \in {"add", "sub"}, s \in Word, d \in Word : eflags' = alu(op, s, d, 0).flags
      BY <1>3 DEF Handler
    <3>2. op \in {"add", "adc", "sub", "sbb"} /\ 0 \in Bits
      BY DEF Bits
    <3> QED BY <3>1, <3>2, AluTyped
  <2>2. Mine' = Mine
    BY <1>3 DEF Handler, Mine
  <2> QED BY <1>3, <2>1, <2>2 DEF Handler, TypeOK, FlagsKept
<1>4. CASE iret
  <2>1. frame[1] \in Eflags /\ eflags' = frame[1] /\ frame' = << >> /\ frame # << >>
    BY <1>4 DEF iret, TypeOK
  <2>2. Mine' = Mine
    BY <2>1 DEF Mine
  <2> QED BY <1>4, <2>1, <2>2 DEF iret, TypeOK, FlagsKept
<1>5. CASE UNCHANGED vars
  BY <1>5 DEF vars, TypeOK, FlagsKept, Mine
<1> QED BY <1>1, <1>2, <1>3, <1>4, <1>5 DEF Next

(* The flags of the program survive the interrupts between its             *)
(* instructions, and are always typed.                                     *)
THEOREM ArithInvariant == Spec => []IInv
BY InvInit, InvNext, PTL DEF Spec

THEOREM TypeCorrect == Spec => []TypeOK
<1>1. IInv => TypeOK
  BY DEF IInv
<1> QED BY <1>1, ArithInvariant, PTL

(* alu.c computes result, carry, zero and sign of the integers for every   *)
(* operand and carry, and the overflow too, except where adc and sbb add   *)
(* the carry to the largest positive word: there it is always wrong.       *)
THEOREM FlagsAreRight == Spec => []FlagsRight
<1>1. ASSUME IInv PROVE FlagsRight
  <2> SUFFICES ASSUME last # None PROVE FlagsRight
    BY DEF FlagsRight
  <2>1. PICK op \in Operations, s \in Word, d \in Word, c \in Bits :
          /\ last = [op |-> op, src |-> s, dest |-> d, CF |-> c, res |-> alu(op, s, d, c).res]
          /\ Mine = alu(op, s, d, c).flags
    BY <1>1 DEF IInv, FlagsKept
  <2>2. /\ last.op = op /\ last.src = s /\ last.dest = d /\ last.CF = c
        /\ last.res = alu(op, s, d, c).res
    BY <2>1
  <2>3. CASE op = "add"
    <3>1. alu(op, s, d, c) = alu_add(s, d)
      BY <2>3 DEF alu
    <3> QED BY <2>1, <2>2, <2>3, <3>1, AddRight DEF FlagsRight, SignLost, SumRight, ResultRight
  <2>4. CASE op = "adc"
    <3>1. alu(op, s, d, c) = alu_adc(s, d, c)
      BY <2>4 DEF alu
    <3> QED BY <2>1, <2>2, <2>4, <3>1, AdcRight DEF FlagsRight, SignLost, SumRight, ResultRight
  <2>5. CASE op = "sub"
    <3>1. alu(op, s, d, c) = alu_sub(s, d)
      BY <2>5 DEF alu
    <3> QED BY <2>1, <2>2, <2>5, <3>1, SubRight DEF FlagsRight, SignLost, DifferenceRight, ResultRight
  <2>6. CASE op = "sbb"
    <3>1. alu(op, s, d, c) = alu_sbb(s, d, c)
      BY <2>6 DEF alu
    <3> QED BY <2>1, <2>2, <2>6, <3>1, SbbRight DEF FlagsRight, SignLost, DifferenceRight, ResultRight
  <2> QED BY <2>3, <2>4, <2>5, <2>6 DEF Operations
<1> QED BY <1>1, ArithInvariant, PTL

-----------------------------------------------------------------------------
LEMMA NatTimes == ASSUME NEW a \in Nat, NEW b \in Nat PROVE a * b \in Nat
OBVIOUS

LEMMA BaseDef == Base = [n \in Nat |-> IF n = 0 THEN 1 ELSE 2 * HALF * Base[n - 1]]
<1> DEFINE F == [k \in Nat |-> [m \in Nat |-> Width * m]]
<1>1. 1 \in Nat /\ F \in [Nat -> [Nat -> Nat]]
  BY HalfNat
<1>2. PICK f \in [Nat -> Nat] : Iterates(f, 1, F)
  <2> HIDE DEF F
  <2> QED BY <1>1, RecursiveFunction
<1>3. f = [n \in Nat |-> IF n = 0 THEN 1 ELSE Width * f[n - 1]]
  <2>1. ASSUME NEW n \in Nat PROVE f[n] = IF n = 0 THEN 1 ELSE Width * f[n - 1]
    <3>1. CASE n = 0
      BY <3>1, <1>2 DEF Iterates
    <3>2. CASE n # 0
      <4>1. n - 1 \in Nat /\ (n - 1) + 1 = n
        BY <3>2
      <4>2. f[n - 1] \in Nat /\ f[(n - 1) + 1] = F[n - 1][f[n - 1]]
        BY <4>1, <1>2 DEF Iterates
      <4> QED BY <4>1, <4>2, <3>2
    <3> QED BY <3>1, <3>2
  <2> QED BY <2>1
<1> QED BY <1>3 DEF Base, Width

LEMMA BaseStep ==
  /\ Base[0] = 1
  /\ \A n \in Nat : Base[n] \in Nat /\ Base[n] >= 1 /\ Base[n + 1] = Width * Base[n]
<1> DEFINE S == {n \in Nat : Base[n] \in Nat /\ Base[n] >= 1}
<1>1. Base[0] = 1
  BY BaseDef
<1>2. ASSUME NEW n \in Nat PROVE Base[n + 1] = Width * Base[n]
  <2>1. n + 1 \in Nat /\ n + 1 # 0 /\ (n + 1) - 1 = n
    OBVIOUS
  <2>2. Base[n + 1] = 2 * HALF * Base[n]
    BY <2>1, BaseDef
  <2> QED BY <2>2 DEF Width
<1>3. ASSUME NEW n \in S PROVE n + 1 \in S
  <2>1. Width * Base[n] \in Nat /\ Width * Base[n] >= 1
    BY HalfNat
  <2> QED BY <2>1, <1>2
<1>4. Nat \subseteq S
  <2>1. 0 \in S
    BY <1>1
  <2> HIDE DEF S
  <2> QED BY <1>3, <2>1, Induction
<1> QED BY <1>1, <1>2, <1>4

(* The sums Value takes the last of *)
Sums(w) ==
  CHOOSE V : V = [n \in 0 .. Len(w) |-> IF n = 0 THEN 0 ELSE V[n - 1] + w[n] * Base[n - 1]]

LEMMA SumsDef ==
  ASSUME NEW w \in Seq(Word)
  PROVE  /\ Sums(w) \in [0 .. Len(w) -> Nat]
         /\ Sums(w)[0] = 0
         /\ \A n \in 1 .. Len(w) : Sums(w)[n] = Sums(w)[n - 1] + w[n] * Base[n - 1]
         /\ Value(w) = Sums(w)[Len(w)]
<1>1. Len(w) \in Nat /\ \A k \in 1 .. Len(w) : w[k] \in Nat
  <2>1. Len(w) \in Nat /\ \A k \in 1 .. Len(w) : w[k] \in Word
    BY LenProperties, ElementOfSeq
  <2> QED BY <2>1, HalfNat DEF Word
<1> DEFINE T(k) == IF k + 1 \in 1 .. Len(w) THEN w[k + 1] * Base[k] ELSE 0
           F == [k \in Nat |-> [m \in Nat |-> m + T(k)]]
<1>2. ASSUME NEW k \in Nat PROVE T(k) \in Nat
  <2>1. Base[k] \in Nat
    BY BaseStep
  <2>2. CASE k + 1 \in 1 .. Len(w)
    <3>1. w[k + 1] \in Nat
      BY <1>1, <2>2
    <3>2. w[k + 1] * Base[k] \in Nat
      BY <2>1, <3>1
    <3> QED BY <3>2, <2>2
  <2> QED BY <2>2
<1>3. 0 \in Nat /\ F \in [Nat -> [Nat -> Nat]]
  <2> HIDE DEF T
  <2> QED BY <1>2
<1>4. PICK f \in [Nat -> Nat] : Iterates(f, 0, F)
  <2> HIDE DEF F
  <2> QED BY <1>3, RecursiveFunction
<1> DEFINE V == [n \in 0 .. Len(w) |-> f[n]]
<1>5. V = [n \in 0 .. Len(w) |-> IF n = 0 THEN 0 ELSE V[n - 1] + w[n] * Base[n - 1]]
  <2>1. ASSUME NEW n \in 0 .. Len(w)
        PROVE  V[n] = IF n = 0 THEN 0 ELSE V[n - 1] + w[n] * Base[n - 1]
    <3>1. CASE n = 0
      BY <3>1, <1>4 DEF Iterates
    <3>2. CASE n # 0
      <4>1. n - 1 \in Nat /\ n - 1 \in 0 .. Len(w) /\ (n - 1) + 1 = n /\ n \in 1 .. Len(w)
        BY <3>2, <1>1
      <4>2. f[n - 1] \in Nat /\ f[(n - 1) + 1] = F[n - 1][f[n - 1]]
        BY <4>1, <1>4 DEF Iterates
      <4>3. F[n - 1][f[n - 1]] = f[n - 1] + T(n - 1)
        BY <4>1, <4>2
      <4>4. T(n - 1) = w[n] * Base[n - 1]
        BY <4>1
      <4>5. V[n] = f[n] /\ V[n - 1] = f[n - 1]
        BY <4>1
      <4> HIDE DEF T, F, V
      <4> QED BY <4>1, <4>2, <4>3, <4>4, <4>5, <3>2
    <3> QED BY <3>1, <3>2
  <2> QED BY <2>1
<1>6. Sums(w) = [n \in 0 .. Len(w) |-> IF n = 0 THEN 0 ELSE Sums(w)[n - 1] + w[n] * Base[n - 1]]
  BY <1>5 DEF Sums
<1>7. Value(w) = Sums(w)[Len(w)]
  BY DEF Value, Sums
<1>8. /\ Sums(w)[0] = 0 /\ DOMAIN Sums(w) = 0 .. Len(w)
      /\ Sums(w) = [n \in 0 .. Len(w) |-> Sums(w)[n]]
      /\ \A n \in 1 .. Len(w) : Sums(w)[n] = Sums(w)[n - 1] + w[n] * Base[n - 1]
  <2> HIDE DEF T, F, V
  <2>1. PICK U : U = Sums(w)
    OBVIOUS
  <2>2. U = [n \in 0 .. Len(w) |-> IF n = 0 THEN 0 ELSE U[n - 1] + w[n] * Base[n - 1]]
    BY <1>6, <2>1
  <2>3. DOMAIN U = 0 .. Len(w) /\ U = [n \in 0 .. Len(w) |-> U[n]]
    BY <2>2
  <2>4. \A n \in 0 .. Len(w) : U[n] = IF n = 0 THEN 0 ELSE U[n - 1] + w[n] * Base[n - 1]
    BY <2>2
  <2>5. U[0] = 0 /\ \A n \in 1 .. Len(w) : U[n] = U[n - 1] + w[n] * Base[n - 1]
    BY <2>4, <1>1
  <2> QED BY <2>1, <2>3, <2>5
<1> HIDE DEF T, F, V
<1>9. \A n \in 0 .. Len(w) : Sums(w)[n] \in Nat
  <2> DEFINE S == {n \in Nat : n \in 0 .. Len(w) => Sums(w)[n] \in Nat}
  <2>1. 0 \in S
    BY <1>8
  <2>2. ASSUME NEW n \in Nat, n \in S PROVE n + 1 \in S
    <3> SUFFICES ASSUME n + 1 \in 0 .. Len(w) PROVE Sums(w)[n + 1] \in Nat
      OBVIOUS
    <3>1. n \in 0 .. Len(w) /\ n + 1 \in 1 .. Len(w) /\ (n + 1) - 1 = n
      BY <1>1
    <3>2. Sums(w)[n] \in Nat /\ w[n + 1] \in Nat /\ Base[n] \in Nat
      BY <3>1, <2>2, <1>1, BaseStep
    <3>3. PICK p \in Nat : p = w[n + 1] * Base[n]
      BY <3>2, NatTimes
    <3>4. PICK m \in Nat : m = Sums(w)[n]
      BY <3>2
    <3>5. Sums(w)[n + 1] = m + p
      BY <3>1, <3>3, <3>4, <1>8
    <3>6. m + p \in Nat
      OBVIOUS
    <3> QED BY <3>5, <3>6
  <2>3. Nat \subseteq S
    <3> HIDE DEF S
    <3> QED BY <2>1, <2>2, Induction
  <2> QED BY <2>3
<1> QED BY <1>7, <1>8, <1>9

LEMMA ValueEmpty == Value(<< >>) = 0
<1>1. << >> \in Seq(Word) /\ Len(<< >>) = 0
  BY EmptySeq
<1> QED BY <1>1, SumsDef

LEMMA ValueTyped ==
  ASSUME NEW w \in Seq(Word)
  PROVE  Value(w) \in Nat
BY SumsDef, LenProperties

LEMMA ValueAppend ==
  ASSUME NEW w \in Seq(Word), NEW e \in Word
  PROVE  Value(Append(w, e)) = Value(w) + e * Base[Len(w)]
<1> DEFINE u == Append(w, e)
<1>1. /\ u \in Seq(Word) /\ Len(u) = Len(w) + 1 /\ Len(w) \in Nat
      /\ \A k \in 1 .. Len(w) : u[k] = w[k]
      /\ u[Len(w) + 1] = e
  BY AppendProperties, LenProperties
<1> HIDE DEF u
<1> DEFINE S == {n \in Nat : n <= Len(w) => Sums(u)[n] = Sums(w)[n]}
<1>2. 0 \in S
  BY <1>1, SumsDef
<1>3. ASSUME NEW n \in Nat, n \in S PROVE n + 1 \in S
  <2> SUFFICES ASSUME n + 1 <= Len(w) PROVE Sums(u)[n + 1] = Sums(w)[n + 1]
    OBVIOUS
  <2>1. n + 1 \in 1 .. Len(w) /\ n + 1 \in 1 .. Len(u) /\ (n + 1) - 1 = n
    BY <1>1
  <2>2. Sums(u)[n + 1] = Sums(u)[n] + u[n + 1] * Base[n]
    BY <1>1, <2>1, SumsDef
  <2>3. Sums(w)[n + 1] = Sums(w)[n] + w[n + 1] * Base[n]
    BY <2>1, SumsDef
  <2> QED BY <1>1, <1>3, <2>1, <2>2, <2>3
<1>4. Nat \subseteq S
  <2> HIDE DEF S
  <2> QED BY <1>2, <1>3, Induction
<1>5. Sums(u)[Len(w)] = Value(w)
  BY <1>1, <1>4, SumsDef
<1>6. Value(u) = Sums(u)[Len(w)] + e * Base[Len(w)]
  <2>1. Len(u) \in 1 .. Len(u) /\ Len(u) - 1 = Len(w)
    BY <1>1
  <2> QED BY <1>1, <2>1, SumsDef
<1> QED BY <1>5, <1>6 DEF u

LEMMA ValueBound ==
  ASSUME NEW w \in Seq(Word)
  PROVE  Value(w) < Base[Len(w)]
<1>1. Len(w) \in Nat /\ \A k \in 1 .. Len(w) : w[k] \in 0 .. Width - 1
  <2>1. Len(w) \in Nat /\ \A k \in 1 .. Len(w) : w[k] \in Word
    BY LenProperties, ElementOfSeq
  <2> QED BY <2>1 DEF Word, Width
<1> DEFINE S == {n \in Nat : n <= Len(w) => Sums(w)[n] < Base[n]}
<1>2. 0 \in S
  BY SumsDef, BaseStep, <1>1
<1>3. ASSUME NEW n \in Nat, n \in S PROVE n + 1 \in S
  <2> SUFFICES ASSUME n + 1 <= Len(w) PROVE Sums(w)[n + 1] < Base[n + 1]
    OBVIOUS
  <2>1. n + 1 \in 1 .. Len(w) /\ n \in 0 .. Len(w) /\ (n + 1) - 1 = n
    BY <1>1
  <2>2. PICK B \in Nat : B = Base[n] /\ Base[n + 1] = Width * B
    BY BaseStep
  <2>3. PICK v \in Nat : v = Sums(w)[n] /\ v < B
    BY <2>1, <2>2, <1>3, SumsDef
  <2>4. PICK e \in 0 .. Width - 1 : e = w[n + 1]
    BY <2>1, <1>1
  <2>5. Sums(w)[n + 1] = v + e * B
    BY <2>1, <2>2, <2>3, <2>4, SumsDef
  <2>6. v + e * B < Width * B
    <3>1. e \in Nat /\ Width - 1 - e \in Nat /\ Width \in Nat
      BY HalfNat
    <3>2. PICK k \in Nat : k = Width - 1 - e
      BY <3>1
    <3>3. Width = e + k + 1
      BY <3>1, <3>2
    <3>4. (e + k + 1) * B = e * B + k * B + B
      BY <3>1
    <3>5. k * B \in Nat /\ e * B \in Nat
      BY <3>1, NatTimes
    <3> QED BY <2>3, <3>3, <3>4, <3>5
  <2> QED BY <2>2, <2>5, <2>6
<1>4. Nat \subseteq S
  <2> HIDE DEF S
  <2> QED BY <1>2, <1>3, Induction
<1> QED BY <1>1, <1>4, SumsDef

(* The value of the lowest n words *)
Low(w, n) == Value(SubSeq(w, 1, n))

LEMMA LowStep ==
  ASSUME NEW w \in Seq(Word), NEW n \in 0 .. Len(w)
  PROVE  /\ Low(w, n) \in Nat /\ Low(w, n) < Base[n]
         /\ Low(w, 0) = 0
         /\ Low(w, Len(w)) = Value(w)
         /\ n < Len(w) => Low(w, n + 1) = Low(w, n) + w[n + 1] * Base[n]
<1>1. Len(w) \in Nat /\ \A k \in 1 .. Len(w) : w[k] \in Word
  BY LenProperties, ElementOfSeq
<1>2. SubSeq(w, 1, n) \in Seq(Word) /\ Len(SubSeq(w, 1, n)) = n
  <2>1. \A k \in 1 .. n : w[k] \in Word
    BY <1>1
  <2> QED BY <2>1, SubSeqProperties
<1>3. Low(w, n) \in Nat /\ Low(w, n) < Base[n]
  BY <1>2, ValueTyped, ValueBound DEF Low
<1>4. Low(w, 0) = 0
  <2>1. SubSeq(w, 1, 0) = << >>
    <3>1. 1 \in Int /\ 0 \in Int /\ 0 < 1
      OBVIOUS
    <3> QED BY <3>1, SubSeqEmpty
  <2> QED BY <2>1, ValueEmpty DEF Low
<1>5. Low(w, Len(w)) = Value(w)
  BY SubSeqFull DEF Low
<1>6. ASSUME n < Len(w) PROVE Low(w, n + 1) = Low(w, n) + w[n + 1] * Base[n]
  <2>1. n + 1 \in 1 .. Len(w) /\ 1 \in 1 .. Len(w) /\ (n + 1) - 1 = n /\ w[n + 1] \in Word
    BY <1>1, <1>6
  <2>2. SubSeq(w, 1, n + 1) = SubSeq(w, 1, n) \o <<w[n + 1]>>
    <3>1. n + 1 \in 1 .. Len(w)
      BY <2>1
    <3> QED BY <2>1, <3>1, SubSeqRecursiveSecond
  <2>3. SubSeq(w, 1, n + 1) = Append(SubSeq(w, 1, n), w[n + 1])
    BY <1>2, <2>1, <2>2, AppendIsConcat
  <2> QED BY <1>2, <2>1, <2>3, ValueAppend DEF Low
<1> QED BY <1>3, <1>4, <1>5, <1>6

-----------------------------------------------------------------------------
(* The carry of the words so far is that of the numbers they make up *)

LEMMA AluSum ==
  ASSUME NEW op \in {"add", "adc"}, NEW s \in Word, NEW d \in Word, NEW c \in Bits,
         op = "add" => c = 0
  PROVE  alu(op, s, d, c).res + Width * alu(op, s, d, c).flags.CF = d + s + c
<1>1. CASE op = "add"
  <2>1. alu(op, s, d, c) = alu_add(s, d)
    BY <1>1 DEF alu
  <2> QED BY <1>1, <2>1, AddRight DEF SumRight, Width
<1>2. CASE op = "adc"
  <2>1. alu(op, s, d, c) = alu_adc(s, d, c)
    BY <1>2 DEF alu
  <2> QED BY <2>1, AdcRight DEF SumRight, Width
<1> QED BY <1>1, <1>2

LEMMA AluDifference ==
  ASSUME NEW op \in {"sub", "sbb"}, NEW s \in Word, NEW d \in Word, NEW c \in Bits,
         op = "sub" => c = 0
  PROVE  alu(op, s, d, c).res - Width * alu(op, s, d, c).flags.CF = d - s - c
<1>1. CASE op = "sub"
  <2>1. alu(op, s, d, c) = alu_sub(s, d)
    BY <1>1 DEF alu
  <2> QED BY <1>1, <2>1, SubRight DEF DifferenceRight, Width
<1>2. CASE op = "sbb"
  <2>1. alu(op, s, d, c) = alu_sbb(s, d, c)
    BY <1>2 DEF alu
  <2> QED BY <2>1, SbbRight DEF DifferenceRight, Width
<1> QED BY <1>1, <1>2

(* x and y add up to v with c carries of weight B; v is x less y with c    *)
(* borrows of that weight                                                  *)
Adds(v, B, c, x, y) == v + B * c = x + y
Subtracts(v, B, c, x, y) == v - B * c = x - y

LEMMA SumStep ==
  ASSUME NEW B \in Nat, NEW v \in Nat, NEW vd \in Nat, NEW vs \in Nat,
         NEW c \in Nat, NEW c2 \in Nat, NEW s \in Nat, NEW d \in Nat, NEW r \in Nat,
         Adds(v, B, c, vd, vs), Adds(r, Width, c2, d, s + c)
  PROVE  Adds(v + r * B, Width * B, c2, vd + d * B, vs + s * B)
<1> USE DEF Adds
<1>1. Width \in Nat
  BY HalfNat
<1>2. (r + Width * c2) * B = r * B + (Width * B) * c2
  BY <1>1
<1>3. (d + (s + c)) * B = d * B + s * B + B * c
  OBVIOUS
<1>4. r * B + (Width * B) * c2 = d * B + s * B + B * c
  BY <1>2, <1>3
<1>5. /\ r * B \in Nat /\ d * B \in Nat /\ s * B \in Nat /\ B * c \in Nat
      /\ (Width * B) * c2 \in Nat
  BY <1>1, NatTimes
<1>6. PICK rB \in Nat, dB \in Nat, sB \in Nat, Bc \in Nat, WB \in Nat :
        rB = r * B /\ dB = d * B /\ sB = s * B /\ Bc = B * c /\ WB = (Width * B) * c2
  BY <1>5
<1>7. v + Bc = vd + vs /\ rB + WB = dB + sB + Bc
  BY <1>4, <1>6
<1>8. (v + rB) + WB = (vd + dB) + (vs + sB)
  BY <1>7
<1> QED BY <1>6, <1>8

LEMMA DifferenceStep ==
  ASSUME NEW B \in Nat, NEW v \in Nat, NEW vd \in Nat, NEW vs \in Nat,
         NEW c \in Nat, NEW c2 \in Nat, NEW s \in Nat, NEW d \in Nat, NEW r \in Nat,
         Subtracts(v, B, c, vd, vs), Subtracts(r, Width, c2, d, s + c)
  PROVE  Subtracts(v + r * B, Width * B, c2, vd + d * B, vs + s * B)
<1> USE DEF Subtracts
<1>1. Width \in Nat
  BY HalfNat
<1>2. (r - Width * c2) * B = r * B - (Width * B) * c2
  BY <1>1
<1>3. (d - (s + c)) * B = d * B - s * B - B * c
  OBVIOUS
<1>4. r * B - (Width * B) * c2 = d * B - s * B - B * c
  BY <1>2, <1>3
<1>5. /\ r * B \in Nat /\ d * B \in Nat /\ s * B \in Nat /\ B * c \in Nat
      /\ (Width * B) * c2 \in Nat
  BY <1>1, NatTimes
<1>6. PICK rB \in Nat, dB \in Nat, sB \in Nat, Bc \in Nat, WB \in Nat :
        rB = r * B /\ dB = d * B /\ sB = s * B /\ Bc = B * c /\ WB = (Width * B) * c2
  BY <1>5
<1>7. v - Bc = vd - vs /\ rB - WB = dB - sB - Bc
  BY <1>4, <1>6
<1>8. (v + rB) - WB = (vd + dB) - (vs + sB)
  BY <1>7
<1> QED BY <1>6, <1>8

(* The operation of word n *)
OperationOf(n) ==
  IF kind = "sum" THEN IF n = 1 THEN "add" ELSE "adc"
                  ELSE IF n = 1 THEN "sub" ELSE "sbb"

(* The words done so far are the sum or difference of as many words of the *)
(* operands, the program's carry flag standing for the next word; and the  *)
(* last operation was the one for the last of these words, with the carry  *)
(* of the comparison of the words below it.                                *)
CarryKept ==
  LET n == Len(result)
  IN IF kind = "sum"
       THEN Adds(Value(result), Base[n], Mine.CF, Low(dest, n), Low(src, n))
       ELSE Subtracts(Value(result), Base[n], Mine.CF, Low(dest, n), Low(src, n))

LastKept ==
  LET n == Len(result)
  IN /\ n = 0 => last = None
     /\ n > 0 =>
          /\ last # None
          /\ last.op = OperationOf(n) /\ last.src = src[n] /\ last.dest = dest[n]
          /\ last.res = result[n]
          /\ kind = "difference" /\ n > 1 =>
               (last.CF = 1 <=> Low(dest, n - 1) < Low(src, n - 1))

LongInv == CarryKept /\ LastKept

LEMMA Operands ==
  ASSUME TypeOK
  PROVE  /\ src \in Seq(Word) /\ dest \in Seq(Word) /\ result \in Seq(Word)
         /\ Len(src) \in Nat /\ Len(dest) = Len(src)
         /\ Len(result) \in 0 .. Len(src)
         /\ \A k \in 1 .. Len(src) : src[k] \in Word /\ dest[k] \in Word
         /\ result = << >> <=> Len(result) = 0
<1>1. /\ src \in Seq(Word) /\ dest \in Seq(Word) /\ result \in Seq(Word)
      /\ Len(src) \in Nat /\ Len(dest) = Len(src)
      /\ \A k \in 1 .. Len(src) : src[k] \in Word /\ dest[k] \in Word
  BY NumberTyped DEF TypeOK
<1>2. Len(result) \in 0 .. Len(src)
  BY <1>1, LenProperties DEF TypeOK
<1>3. result = << >> <=> Len(result) = 0
  BY <1>1, EmptySeq
<1> QED BY <1>1, <1>2, <1>3

LEMMA MineTyped ==
  ASSUME TypeOK
  PROVE  Mine \in Eflags /\ Mine.CF \in Bits /\ Mine.CF \in Nat
<1>1. Mine \in Eflags
  BY DEF TypeOK, Mine
<1> QED BY <1>1 DEF Eflags, Bits

(* A carry stands for a difference below zero, and for nothing else        *)
LEMMA CarryCompares ==
  ASSUME TypeOK, CarryKept, kind = "difference"
  PROVE  Mine.CF = 1 <=> Low(dest, Len(result)) < Low(src, Len(result))
<1> DEFINE n == Len(result)
<1>1. n \in Nat /\ n \in 0 .. Len(src) /\ n \in 0 .. Len(dest)
      /\ src \in Seq(Word) /\ dest \in Seq(Word) /\ result \in Seq(Word)
  BY Operands
<1>2. PICK B \in Nat : B = Base[n]
  BY <1>1, BaseStep
<1>3. PICK v \in Nat : v = Value(result) /\ v < B
  BY <1>1, <1>2, ValueTyped, ValueBound
<1>4. PICK vd \in Nat, vs \in Nat : vd = Low(dest, n) /\ vs = Low(src, n)
  BY <1>1, LowStep
<1>5. PICK c \in {0, 1} : c = Mine.CF
  BY MineTyped DEF Bits
<1>6. v - B * c = vd - vs
  BY <1>2, <1>3, <1>4, <1>5 DEF CarryKept, Subtracts
<1>7. c = 1 <=> vd < vs
  <2>1. CASE c = 0
    BY <2>1, <1>6
  <2>2. CASE c = 1
    BY <2>2, <1>3, <1>6
  <2> QED BY <2>1, <2>2
<1> QED BY <1>4, <1>5, <1>7

LEMMA FirstCarry ==
  ASSUME TypeOK, CarryKept, kind \in {"sum", "difference"}, Len(result) = 0
  PROVE  Mine.CF = 0
<1>1. Low(src, 0) = 0 /\ Low(dest, 0) = 0
  <2>1. 0 \in 0 .. Len(src) /\ 0 \in 0 .. Len(dest)
    BY Operands
  <2> QED BY <2>1, Operands, LowStep
<1>2. Value(result) = 0
  BY Operands, ValueEmpty
<1>3. PICK c \in Nat : c = Mine.CF
  BY MineTyped
<1>4. 0 + 1 * c = 0 + 0 \/ 0 - 1 * c = 0 - 0
  BY <1>1, <1>2, <1>3, BaseStep DEF CarryKept, Adds, Subtracts
<1> QED BY <1>3, <1>4

LEMMA LongInit == Init => LongInv
<1> SUFFICES ASSUME Init PROVE LongInv
  OBVIOUS
<1>1. TypeOK
  BY InvInit DEF IInv
<1>2. Len(result) = 0 /\ Value(result) = 0 /\ last = None
  BY EmptySeq, ValueEmpty DEF Init
<1>3. Low(src, 0) = 0 /\ Low(dest, 0) = 0
  <2>1. 0 \in 0 .. Len(src) /\ 0 \in 0 .. Len(dest)
    BY <1>1, Operands
  <2> QED BY <1>1, <2>1, Operands, LowStep
<1>4. Mine.CF = 0
  BY DEF Init, Mine
<1> QED BY <1>2, <1>3, <1>4, BaseStep DEF LongInv, CarryKept, LastKept, Adds, Subtracts

LEMMA LongNext == IInv /\ LongInv /\ [Next]_vars => LongInv'
<1> SUFFICES ASSUME IInv, LongInv, [Next]_vars PROVE LongInv'
  OBVIOUS
<1> USE DEF IInv, LongInv
<1>1. CASE Step
  <2> DEFINE n == Len(result)
             op == Operation
             r == alu(op, src[n + 1], dest[n + 1], eflags.CF)
  <2>1. /\ frame = << >> /\ n < Len(src) /\ frame' = frame
        /\ result' = Append(result, r.res) /\ eflags' = r.flags
        /\ last' = [op |-> op, src |-> src[n + 1], dest |-> dest[n + 1], CF |-> eflags.CF,
                    res |-> r.res]
        /\ UNCHANGED <<kind, src, dest>>
    BY <1>1 DEF Step
  <2>2. /\ n \in Nat /\ n + 1 \in 1 .. Len(src) /\ n \in 0 .. Len(src) /\ n \in 0 .. Len(dest)
        /\ n < Len(dest)
        /\ src \in Seq(Word) /\ dest \in Seq(Word) /\ result \in Seq(Word)
        /\ src[n + 1] \in Word /\ dest[n + 1] \in Word
        /\ result = << >> <=> n = 0
    BY <2>1, Operands
  <2>3. PICK s \in Word, d \in Word : s = src[n + 1] /\ d = dest[n + 1]
    BY <2>2
  <2>4. PICK c \in Bits : c = eflags.CF /\ c = Mine.CF
    BY <2>1, MineTyped DEF Mine
  <2>5. op = OperationOf(n + 1) /\ op \in Operations
    BY <2>2 DEF Operation, OperationOf, Operations
  <2>6. PICK q : q = r /\ q = alu(op, s, d, c)
    BY <2>3, <2>4
  <2>7. q.res \in Word /\ q.flags \in Eflags
    BY <2>5, <2>6, AluTyped DEF Operations
  <2>8. /\ result' \in Seq(Word) /\ Len(result') = n + 1
        /\ result'[n + 1] = q.res
        /\ Value(result') = Value(result) + q.res * Base[n]
    <3> HIDE DEF r
    <3> QED BY <2>1, <2>2, <2>6, <2>7, AppendProperties, ValueAppend
  <2>9. Mine' = q.flags
    BY <2>1, <2>6 DEF Mine
  <2>10. n = 0 => c = 0
    BY <2>4, FirstCarry DEF TypeOK
  <2>11. CarryKept'
    <3>1. PICK B \in Nat : B = Base[n] /\ Base[n + 1] = Width * B
      BY <2>2, BaseStep
    <3>2. PICK v \in Nat : v = Value(result)
      BY <2>2, ValueTyped
    <3>3. PICK vd \in Nat, vs \in Nat : vd = Low(dest, n) /\ vs = Low(src, n)
      BY <2>2, LowStep
    <3>4. /\ Low(dest', n + 1) = vd + d * B
          /\ Low(src', n + 1) = vs + s * B
      BY <2>1, <2>2, <2>3, <3>1, <3>3, LowStep
    <3>5. PICK e \in Nat, c2 \in Nat : e = q.res /\ c2 = q.flags.CF
      BY <2>7, HalfNat DEF Word, Eflags, Bits
    <3>6. s \in Nat /\ d \in Nat /\ c \in Nat
      BY <2>3, <2>4, HalfNat DEF Word, Bits
    <3>7. CASE kind = "sum"
      <4>1. Adds(v, B, c, vd, vs)
        BY <3>7, <2>4, <3>1, <3>2, <3>3 DEF CarryKept
      <4>2. Adds(e, Width, c2, d, s + c)
        <5>1. op \in {"add", "adc"} /\ (op = "add" => c = 0)
          BY <3>7, <2>5, <2>10, <2>2 DEF OperationOf
        <5> QED BY <5>1, <2>6, <3>5, <3>6, HalfNat, AluSum DEF Adds
      <4>3. Adds(v + e * B, Width * B, c2, vd + d * B, vs + s * B)
        BY <3>6, <4>1, <4>2, SumStep
      <4>4. Adds(Value(result'), Base[n + 1], Mine'.CF, Low(dest', n + 1), Low(src', n + 1))
        BY <4>3, <2>8, <2>9, <3>1, <3>2, <3>4, <3>5
      <4> HIDE DEF n
      <4> QED BY <4>4, <2>1, <2>8, <3>7 DEF CarryKept
    <3>8. CASE kind = "difference"
      <4>1. Subtracts(v, B, c, vd, vs)
        BY <3>8, <2>4, <3>1, <3>2, <3>3 DEF CarryKept
      <4>2. Subtracts(e, Width, c2, d, s + c)
        <5>1. op \in {"sub", "sbb"} /\ (op = "sub" => c = 0)
          BY <3>8, <2>5, <2>10, <2>2 DEF OperationOf
        <5> QED BY <5>1, <2>6, <3>5, <3>6, HalfNat, AluDifference DEF Subtracts
      <4>3. Subtracts(v + e * B, Width * B, c2, vd + d * B, vs + s * B)
        BY <3>6, <4>1, <4>2, DifferenceStep
      <4>4. Subtracts(Value(result'), Base[n + 1], Mine'.CF, Low(dest', n + 1), Low(src', n + 1))
        BY <4>3, <2>8, <2>9, <3>1, <3>2, <3>4, <3>5
      <4> HIDE DEF n
      <4> QED BY <4>4, <2>1, <2>8, <3>8 DEF CarryKept
    <3> QED BY <3>7, <3>8 DEF TypeOK
  <2>12. LastKept'
    <3>1. kind = "difference" => (c = 1 <=> Low(dest, n) < Low(src, n))
      BY <2>4, CarryCompares
    <3>2. last' # None
      BY <2>1, <2>5 DEF None, Operations
    <3>3. /\ last'.op = op /\ last'.src = src'[n + 1] /\ last'.dest = dest'[n + 1]
          /\ last'.res = q.res /\ last'.CF = c
      BY <2>1, <2>4, <2>6
    <3>4. PICK m \in Nat : m = n + 1
      BY <2>2
    <3>5. op = OperationOf(m)' /\ m - 1 = n /\ m > 0 /\ m # 0
      BY <2>1, <2>2, <2>5, <3>4 DEF OperationOf
    <3>6. kind' = "difference" => (last'.CF = 1 <=> Low(dest', m - 1) < Low(src', m - 1))
      BY <2>1, <3>1, <3>3, <3>5
    <3> HIDE DEF n, op, r
    <3> QED BY <2>8, <3>2, <3>3, <3>4, <3>5, <3>6 DEF LastKept
  <2> QED BY <2>11, <2>12
<1>2. CASE RaiseIntr
  <2>1. Mine' = Mine /\ UNCHANGED <<kind, src, dest, result, last>>
    BY <1>2 DEF RaiseIntr, Mine
  <2> QED BY <2>1 DEF CarryKept, LastKept, OperationOf
<1>3. CASE Handler
  <2>1. Mine' = Mine /\ UNCHANGED <<kind, src, dest, result, last>>
    BY <1>3 DEF Handler, Mine
  <2> QED BY <2>1 DEF CarryKept, LastKept, OperationOf
<1>4. CASE iret
  <2>1. Mine' = Mine /\ UNCHANGED <<kind, src, dest, result, last>>
    BY <1>4 DEF iret, Mine
  <2> QED BY <2>1 DEF CarryKept, LastKept, OperationOf
<1>5. CASE UNCHANGED vars
  <2>1. Mine' = Mine /\ UNCHANGED <<kind, src, dest, result, last>>
    BY <1>5 DEF vars, Mine
  <2> QED BY <2>1 DEF CarryKept, LastKept, OperationOf
<1> QED BY <1>1, <1>2, <1>3, <1>4, <1>5 DEF Next

-----------------------------------------------------------------------------
(* The conditions after a difference *)

LEMMA SignedTyped ==
  ASSUME NEW x \in Word
  PROVE  Signed(x) \in Int /\ -HALF <= Signed(x) /\ Signed(x) < HALF
         /\ Signed(x) = x - (IF x >= HALF THEN Width ELSE 0)
BY HalfNat DEF Signed, Word, Width

LEMMA ConditionRight ==
  ASSUME NEW s \in Word, NEW d \in Word, NEW r \in Word, NEW c \in Bits, NEW lost \in BOOLEAN,
         NEW f \in Eflags,
         r - Width * f.CF = d - s - c,
         (f.OF = 0 <=> InRange(Signed(d) - Signed(s) - c)) <=> ~lost,
         f.SF = 1 <=> Signed(r) < 0
  PROVE  (condition_l(f) <=> Signed(d) - Signed(s) - c < 0) <=> ~lost
<1>1. PICK k \in Int : k = Signed(d) - Signed(s) - c /\ -Width <= k /\ k < Width
  BY SignedTyped, HalfNat DEF Bits
<1>2. f.CF \in {0, 1} /\ f.OF \in {0, 1} /\ f.SF \in {0, 1}
  BY DEF Eflags, Bits
<1>3. Signed(r) = k \/ Signed(r) = k + Width \/ Signed(r) = k - Width
  <2>1. r \in 0 .. Width - 1 /\ s \in 0 .. Width - 1 /\ d \in 0 .. Width - 1
    BY DEF Word, Width
  <2>2. r = d - s - c \/ r = d - s - c + Width
    BY <1>2, <2>1, HalfNat DEF Bits
  <2>3. PICK a \in {0, 1}, b \in {0, 1}, e \in {0, 1} :
          /\ Signed(d) = d - (IF a = 1 THEN Width ELSE 0)
          /\ Signed(s) = s - (IF b = 1 THEN Width ELSE 0)
          /\ Signed(r) = r - (IF e = 1 THEN Width ELSE 0)
    BY SignedTyped
  <2>4. -HALF <= Signed(r) /\ Signed(r) < HALF
    BY SignedTyped
  <2> QED BY <1>1, <2>1, <2>2, <2>3, <2>4, HalfNat DEF Bits
<1>4. InRange(k) <=> Signed(r) = k
  <2>1. Signed(r) \in Int /\ -HALF <= Signed(r) /\ Signed(r) < HALF
    BY SignedTyped
  <2> QED BY <1>1, <1>3, <2>1, HalfNat DEF InRange
<1>5. ~InRange(k) => (Signed(r) < 0 <=> ~(k < 0))
  BY <1>1, <1>3, <1>4, HalfNat, SignedTyped DEF InRange
<1>6. (f.SF # f.OF <=> k < 0) <=> ~lost
  <2>1. CASE InRange(k)
    BY <2>1, <1>1, <1>2, <1>4
  <2>2. CASE ~InRange(k)
    BY <2>2, <1>1, <1>2, <1>5
  <2> QED BY <2>1, <2>2
<1> QED BY <1>1, <1>6 DEF condition_l

(* The highest words decide the comparison, after the borrow of the others *)
LEMMA HighWords ==
  ASSUME NEW B \in Nat, NEW vd \in Nat, NEW vs \in Nat, vd < B, vs < B,
         NEW sd \in Int, NEW ss \in Int, NEW c \in Bits, c = 1 <=> vd < vs
  PROVE  vd + sd * B < vs + ss * B <=> sd - ss - c < 0
<1>1. PICK k \in Int : k = sd - ss
  OBVIOUS
<1>2. sd * B - ss * B = k * B /\ sd * B \in Int /\ ss * B \in Int /\ k * B \in Int
  BY <1>1
<1>3. vd + sd * B < vs + ss * B <=> k * B < vs - vd
  BY <1>2
<1>4. c \in {0, 1}
  BY DEF Bits
<1>5. CASE k < 0
  <2>1. PICK m \in Nat : k = -1 - m
    <3>1. -1 - k \in Nat /\ k = -1 - (-1 - k)
      BY <1>5
    <3> QED BY <3>1
  <2>2. m * B \in Nat /\ k * B = - B - m * B
    BY <2>1, NatTimes
  <2>3. k * B < vs - vd
    BY <2>2
  <2> QED BY <1>1, <1>3, <1>4, <1>5, <2>3
<1>6. CASE k = 0
  <2>1. k * B = 0
    BY <1>6
  <2> QED BY <1>1, <1>3, <1>4, <1>6, <2>1
<1>7. CASE k > 0
  <2>1. PICK m \in Nat : k = 1 + m
    <3>1. k - 1 \in Nat /\ k = 1 + (k - 1)
      BY <1>7
    <3> QED BY <3>1
  <2>2. m * B \in Nat /\ k * B = B + m * B
    BY <2>1, NatTimes
  <2>3. ~(k * B < vs - vd)
    BY <2>2
  <2> QED BY <1>1, <1>3, <1>4, <1>7, <2>3
<1> QED BY <1>5, <1>6, <1>7

LEMMA SignedValueLow ==
  ASSUME NEW w \in Seq(Word), NEW n \in Nat, Len(w) = n + 1
  PROVE  /\ w[n + 1] \in Word
         /\ SignedValue(w) = Low(w, n) + Signed(w[n + 1]) * Base[n]
<1>1. n \in 0 .. Len(w) /\ n + 1 \in 1 .. Len(w) /\ n < Len(w)
  OBVIOUS
<1>2. PICK x \in Word : x = w[n + 1]
  BY <1>1, ElementOfSeq
<1>3. PICK B \in Nat : B = Base[n] /\ Base[n + 1] = Width * B
  BY BaseStep
<1>4. PICK v \in Nat : v = Low(w, n)
  BY <1>1, LowStep
<1>5. Value(w) = v + x * B
  BY <1>1, <1>2, <1>3, <1>4, LowStep
<1>6. x \in Int /\ B \in Int /\ Width \in Int /\ v \in Int
  BY <1>2, HalfNat DEF Word
<1>7. w[Len(w)] = x /\ Base[Len(w)] = Width * B
  BY <1>2, <1>3
<1>8. CASE x >= HALF
  <2>1. Signed(x) = x - Width
    BY <1>2, <1>8, SignedTyped
  <2>2. PICK p \in Int, q \in Int : p = x * B /\ q = Width * B /\ (x - Width) * B = p - q
    BY <1>6
  <2>3. SignedValue(w) = Value(w) - q
    BY <1>7, <1>8, <2>2 DEF SignedValue
  <2>4. (v + p) - q = v + (p - q)
    BY <1>6
  <2> QED BY <1>2, <1>3, <1>4, <1>5, <2>1, <2>2, <2>3, <2>4
<1>9. CASE ~(x >= HALF)
  <2>1. Signed(x) = x
    BY <1>9 DEF Signed
  <2>2. SignedValue(w) = Value(w) - 0
    BY <1>7, <1>9 DEF SignedValue
  <2>3. PICK p \in Int : p = x * B /\ Value(w) = v + p
    BY <1>5, <1>6
  <2> QED BY <1>2, <1>3, <1>4, <1>6, <2>1, <2>2, <2>3
<1> QED BY <1>2, <1>8, <1>9

LEMMA LongRightHolds ==
  ASSUME IInv, LongInv, FlagsRight
  PROVE  LongRight
<1> SUFFICES ASSUME Len(result) = Len(src) PROVE LongRight
  BY DEF LongRight
<1> USE DEF IInv, LongInv
<1>1. /\ src \in Seq(Word) /\ dest \in Seq(Word) /\ result \in Seq(Word)
      /\ Len(src) \in Nat \ {0} /\ Len(dest) = Len(src)
  <2>1. Len(src) # 0
    <3>1. PICK k \in 1 .. MaxLen : src \in [1 .. k -> Word]
      BY DEF TypeOK, Numbers
    <3>2. 1 \in DOMAIN src /\ DOMAIN src = 1 .. Len(src)
      BY <3>1, Operands, LenProperties
    <3> QED BY <3>2
  <2> QED BY <2>1, Operands
<1>2. PICK n \in Nat : Len(src) = n + 1
  <2>1. Len(src) - 1 \in Nat /\ Len(src) = (Len(src) - 1) + 1
    BY <1>1
  <2> QED BY <2>1
<1>3. n \in 0 .. Len(src) /\ n \in 0 .. Len(dest) /\ n + 1 \in 1 .. Len(src)
      /\ n + 1 > 0 /\ n + 1 \in 0 .. Len(src) /\ (n + 1) - 1 = n
  BY <1>1, <1>2
<1>4. Low(dest, n + 1) = Value(dest) /\ Low(src, n + 1) = Value(src)
  BY <1>1, <1>2, <1>3, LowStep
<1>5. Value(dest) \in Nat /\ Value(src) \in Nat /\ Value(result) \in Nat /\ Mine.CF \in Nat
      /\ Base[n + 1] \in Nat
  <2>1. Value(dest) \in Nat /\ Value(src) \in Nat /\ Value(result) \in Nat
    BY <1>1, ValueTyped
  <2>2. Mine.CF \in Nat
    BY MineTyped
  <2>3. n + 1 \in Nat
    OBVIOUS
  <2> QED BY <2>1, <2>2, <2>3, BaseStep
<1>6. CASE kind = "sum"
  BY <1>2, <1>4, <1>6 DEF LongRight, CarryKept, Adds
<1>7. CASE kind = "difference"
  <2>1. Value(result) - Base[Len(src)] * Mine.CF = Value(dest) - Value(src)
    BY <1>2, <1>4, <1>7 DEF CarryKept, Subtracts
  <2>2. condition_b(Mine) <=> Value(dest) < Value(src)
    BY <1>2, <1>4, <1>7, CarryCompares DEF condition_b
  <2>3. PICK s \in Word, d \in Word, r \in Word :
          /\ s = src[n + 1] /\ d = dest[n + 1] /\ r = result[n + 1]
          /\ last # None /\ last.src = s /\ last.dest = d /\ last.res = r
          /\ last.op = IF n = 0 THEN "sub" ELSE "sbb"
          /\ n > 0 => (last.CF = 1 <=> Low(dest, n) < Low(src, n))
    <3>1. src[n + 1] \in Word /\ dest[n + 1] \in Word /\ result[n + 1] \in Word
      BY <1>1, <1>2, <1>3, ElementOfSeq
    <3>2. n + 1 > 1 <=> n > 0
      OBVIOUS
    <3> QED BY <1>2, <1>3, <1>7, <3>1, <3>2 DEF LastKept, OperationOf
  <2>4. PICK c \in Bits : /\ c = IF last.op \in {"adc", "sbb"} THEN last.CF ELSE 0
                          /\ c = 1 <=> Low(dest, n) < Low(src, n)
    <3>1. CASE n = 0
      <4>1. Low(dest, 0) = 0 /\ Low(src, 0) = 0
        BY <1>1, <1>3, <3>1, LowStep
      <4> QED BY <4>1, <2>3, <3>1 DEF Bits
    <3>2. CASE n > 0
      <4>1. last.CF \in Bits
        BY <2>3 DEF FlagsKept
      <4> QED BY <4>1, <2>3, <3>2
    <3> QED BY <3>1, <3>2
  <2>5. /\ r - 2 * HALF * Mine.CF = d - s - c
        /\ (Mine.OF = 0 <=> InRange(Signed(d) - Signed(s) - c)) <=> ~SignLost
        /\ Mine.ZF = 1 <=> r = 0
        /\ Mine.SF = 1 <=> Signed(r) < 0
    BY <2>3, <2>4 DEF FlagsRight
  <2>6. (condition_l(Mine) <=> Signed(d) - Signed(s) - c < 0) <=> ~SignLost
    <3>1. SignLost \in BOOLEAN /\ Mine \in Eflags
      BY MineTyped DEF SignLost
    <3>2. r - Width * Mine.CF = d - s - c
      BY <2>5 DEF Width
    <3> QED BY <2>5, <3>1, <3>2, ConditionRight
  <2>7. SignedValue(dest) < SignedValue(src) <=> Signed(d) - Signed(s) - c < 0
    <3>1. PICK B \in Nat : B = Base[n]
      BY BaseStep
    <3>2. PICK vd \in Nat, vs \in Nat :
            vd = Low(dest, n) /\ vs = Low(src, n) /\ vd < B /\ vs < B
      BY <1>1, <1>3, <3>1, LowStep
    <3>3. PICK sd \in Int, ss \in Int : sd = Signed(d) /\ ss = Signed(s)
      BY SignedTyped
    <3>4. SignedValue(dest) = vd + sd * B /\ SignedValue(src) = vs + ss * B
      BY <1>1, <1>2, <2>3, <3>1, <3>2, <3>3, SignedValueLow
    <3>5. c = 1 <=> vd < vs
      BY <2>4, <3>2
    <3>6. vd + sd * B < vs + ss * B <=> sd - ss - c < 0
      <4> HIDE <2>4
      <4> QED BY <3>2, <3>5, HighWords
    <3> QED BY <3>3, <3>4, <3>6
  <2>8. ASSUME Len(src) = 1
        PROVE  /\ condition_e(Mine) <=> Value(dest) = Value(src)
               /\ condition_be(Mine) <=> Value(dest) <= Value(src)
               /\ condition_le(Mine) <=> SignedValue(dest) <= SignedValue(src)
    <3>1. n = 0 /\ c = 0 /\ ~SignLost
      <4>1. n = 0
        <5>1. n + 1 = 1
          BY <1>2, <2>8
        <5> QED BY <5>1
      <4>2. last.op = "sub"
        BY <4>1, <2>3
      <4> QED BY <4>1, <4>2, <2>4 DEF SignLost
    <3>2. Base[0] = 1 /\ Low(dest, 0) = 0 /\ Low(src, 0) = 0
      BY <1>1, <1>3, <3>1, LowStep, BaseStep
    <3>3. PICK sd \in Int, ss \in Int : sd = Signed(d) /\ ss = Signed(s)
      BY SignedTyped
    <3>4. SignedValue(dest) = sd /\ SignedValue(src) = ss
      <4>1. /\ SignedValue(dest) = Low(dest, n) + Signed(dest[n + 1]) * Base[n]
            /\ SignedValue(src) = Low(src, n) + Signed(src[n + 1]) * Base[n]
        BY <1>1, <1>2, SignedValueLow
      <4>2. SignedValue(dest) = 0 + sd * 1 /\ SignedValue(src) = 0 + ss * 1
        BY <4>1, <2>3, <3>1, <3>2, <3>3
      <4> QED BY <4>2
    <3>5. s \in Nat /\ d \in Nat
      BY HalfNat DEF Word
    <3>6. Value(dest) = d /\ Value(src) = s
      <4>1. 0 < Len(dest) /\ 0 < Len(src) /\ 0 \in 0 .. Len(dest) /\ 0 \in 0 .. Len(src)
        BY <1>1, <1>2
      <4>2. Value(dest) = 0 + dest[0 + 1] * Base[0] /\ Value(src) = 0 + src[0 + 1] * Base[0]
        BY <1>1, <1>4, <3>1, <3>2, <4>1, LowStep
      <4> QED BY <4>2, <2>3, <3>1, <3>2, <3>5
    <3>7. r = 0 <=> d = s
      <4>1. r \in 0 .. Width - 1 /\ s \in 0 .. Width - 1 /\ d \in 0 .. Width - 1
        BY DEF Word, Width
      <4>2. PICK f \in {0, 1} : f = Mine.CF
        BY MineTyped DEF Bits
      <4>3. r - Width * f = d - s
        BY <2>5, <3>1, <3>5, <4>2 DEF Width
      <4>4. CASE f = 0
        BY <4>1, <4>3, <4>4, HalfNat
      <4>5. CASE f = 1
        BY <4>1, <4>3, <4>5, HalfNat
      <4> QED BY <4>4, <4>5
    <3>8. sd = ss <=> d = s
      BY <3>3, HalfNat DEF Signed, Word
    <3>9. condition_l(Mine) <=> sd < ss
      BY <2>6, <3>1, <3>3
    <3>10. condition_e(Mine) <=> d = s
      BY <2>5, <3>7 DEF condition_e
    <3>11. condition_be(Mine) <=> d <= s
      BY <2>2, <3>5, <3>6, <3>10 DEF condition_be, condition_b, condition_e
    <3>12. condition_le(Mine) <=> sd <= ss
      BY <3>3, <3>8, <3>9, <3>10 DEF condition_le, condition_l, condition_e
    <3> QED BY <3>4, <3>6, <3>10, <3>11, <3>12
  <2> QED BY <1>7, <2>1, <2>2, <2>6, <2>7, <2>8 DEF LongRight
<1> QED BY <1>6, <1>7 DEF TypeOK

(* Numbers of any length come out right, with interrupts anywhere between  *)
(* their words: the sum or difference of the carry chain is that of the    *)
(* integers, jb compares the numbers without sign, jl with sign unless the *)
(* last word lost the sign of its operand; je, jbe and jle are right for   *)
(* numbers of one word.                                                    *)
THEOREM LongNumbersRight == Spec => []LongRight
<1>1. Spec => [](IInv /\ LongInv)
  BY InvInit, InvNext, LongInit, LongNext, PTL DEF Spec
<1> QED BY <1>1, FlagsAreRight, LongRightHolds, PTL
=============================================================================
