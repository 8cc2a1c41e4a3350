----------------------------- MODULE LongArith ------------------------------
(***************************************************************************)
(* Additions, subtractions and comparisons of numbers of several words, as *)
(* compiled programs do them on the ALU (alu.c): add or sub on the lowest  *)
(* words, adc or sbb on the others, a condition on the flags at the end    *)
(* (instr_helper.h).  The carry goes through eflags from one instruction   *)
(* to the next, and an interrupt may come in between, whose handler uses   *)
(* the ALU too: raise_intr pushes eflags, iret pops them.                  *)
(*                                                                         *)
(* A word is a natural number below 2 * HALF (HALF is 2^31 in the code);   *)
(* words from HALF on have their sign bit set.  The parity flag is left    *)
(* out, as is the handler's work: it leaves any flags an addition or a     *)
(* subtraction can leave.                                                  *)
(***************************************************************************)
EXTENDS Integers, Sequences

CONSTANTS
  HALF,      \* the weight of a word's sign bit
  MaxLen     \* bound: words of a number

ASSUME LongAssumption == HALF \in Nat \ {0, 1} /\ MaxLen \in Nat \ {0}

Word == 0 .. 2 * HALF - 1
Bits == {0, 1}
Bit(b) == IF b THEN 1 ELSE 0

(* What a uint32_t keeps of a sum or difference of two words and a carry   *)
Wrap(n) == IF n < 0 THEN n + 2 * HALF
           ELSE IF n >= 2 * HALF THEN n - 2 * HALF ELSE n

sign(x) == Bit(x >= HALF)

-----------------------------------------------------------------------------
(* alu.c *)
set_CF_add(result, src) == Bit(result < src)

set_CF_adc(result, src, dest, CF) ==
  Bit(\/ Wrap(dest + CF) < dest \/ Wrap(dest + CF) < CF
      \/ result < src \/ result < Wrap(src + CF))

set_CF_sub(result, dest) == Bit(result > dest)

set_CF_sbb(result, dest, CF) ==
  Bit(Wrap(dest - CF) > dest \/ result > Wrap(dest - CF))

set_OF_add(result, src, dest) ==
  Bit(sign(src) = sign(dest) /\ sign(src) # sign(result))

set_OF_sub(result, src, dest) ==
  Bit(sign(dest) # sign(src) /\ sign(result) = sign(src))

Flags(CF, OF, result) ==
  [CF |-> CF, OF |-> OF, ZF |-> Bit(result = 0), SF |-> sign(result)]

(* The result and the flags of an operation when the carry flag is CF      *)
alu_add(src, dest) ==
  LET res == Wrap(dest + src)
  IN  [res |-> res, flags |-> Flags(set_CF_add(res, src), set_OF_add(res, src, dest), res)]

alu_adc(src, dest, CF) ==
  LET res == Wrap(src + dest + CF)
  IN  [res |-> res,
       flags |-> Flags(set_CF_adc(res, src, dest, CF),
                       set_OF_add(res, Wrap(src + CF), dest), res)]

alu_sub(src, dest) ==
  LET res == Wrap(dest - src)
  IN  [res |-> res, flags |-> Flags(set_CF_sub(res, dest), set_OF_sub(res, src, dest), res)]

MutSbb_carry(src, dest, CF) ==          \* the carry of a subtraction without borrow
  LET res == Wrap(dest - src - CF)
  IN  [res |-> res,
       flags |-> Flags(set_CF_sub(res, dest),
                       set_OF_sub(res, Wrap(src + CF), dest), res)]

alu_sbb(src, dest, CF) ==
  LET res == Wrap(dest - src - CF)
  IN  [res |-> res,
       flags |-> Flags(set_CF_sbb(res, dest, CF),
                       set_OF_sub(res, Wrap(src + CF), dest), res)]

alu(op, src, dest, CF) ==
  CASE op = "add" -> alu_add(src, dest)
    [] op = "adc" -> alu_adc(src, dest, CF)
    [] op = "sub" -> alu_sub(src, dest)
    [] op = "sbb" -> alu_sbb(src, dest, CF)

(* The conditions of jcc and setcc *)
condition_e(f) == f.ZF = 1
condition_b(f) == f.CF = 1
condition_be(f) == f.CF = 1 \/ f.ZF = 1
condition_l(f) == f.SF # f.OF
condition_le(f) == f.ZF = 1 \/ f.SF # f.OF

-----------------------------------------------------------------------------
VARIABLES
  kind,      \* "sum" or "difference"
  src, dest, \* the operands, lowest word first
  result,    \* the words computed so far
  eflags,
  frame,     \* the flags raise_intr has pushed, <<>> outside of the handler
  last       \* history: the last operation of the program and the flags it left

vars == <<kind, src, dest, result, eflags, frame, last>>

None == [op |-> "none"]
Eflags == [CF : Bits, OF : Bits, ZF : Bits, SF : Bits]
Numbers == UNION {[1 .. n -> Word] : n \in 1 .. MaxLen}

Init ==
  /\ kind \in {"sum", "difference"}
  /\ src \in Numbers /\ dest \in Numbers /\ Len(src) = Len(dest)
  /\ result = <<>>
  /\ eflags = [CF |-> 0, OF |-> 0, ZF |-> 0, SF |-> 0]
  /\ frame = <<>>
  /\ last = None

(* The instruction for the next word *)
Operation ==
  IF kind = "sum" THEN IF result = <<>> THEN "add" ELSE "adc"
                  ELSE IF result = <<>> THEN "sub" ELSE "sbb"

Step ==
  LET i == Len(result) + 1
      r == alu(Operation, src[i], dest[i], eflags.CF)
  IN  /\ frame = <<>>
      /\ Len(result) < Len(src)
      /\ result' = Append(result, r.res)
      /\ eflags' = r.flags
      /\ last' = [op |-> Operation, src |-> src[i], dest |-> dest[i], CF |-> eflags.CF,
                  res |-> r.res]
      /\ UNCHANGED <<kind, src, dest, frame>>

(* raise_intr between two instructions; HandlersNotNested of Interrupts    *)
(* says that there is one handler at most                                  *)
RaiseIntr ==
  /\ frame = <<>>
  /\ frame' = <<eflags>>
  /\ UNCHANGED <<kind, src, dest, result, eflags, last>>

(* The handler uses the ALU *)
Handler ==
  /\ frame # <<>>
  /\ \E op \in {"add", "sub"}, s, d \in Word : eflags' = alu(op, s, d, 0).flags
  /\ UNCHANGED <<kind, src, dest, result, frame, last>>

MutIret_keepsFlags ==                   \* the frame is dropped
  /\ frame # <<>>
  /\ frame' = <<>>
  /\ UNCHANGED <<kind, src, dest, result, eflags, last>>

iret ==
  /\ frame # <<>>
  /\ eflags' = frame[1]
  /\ frame' = <<>>
  /\ UNCHANGED <<kind, src, dest, result, last>>

Next == Step \/ RaiseIntr \/ Handler \/ iret

Spec == Init /\ [][Next]_vars

-----------------------------------------------------------------------------
(* Type invariant *)
TypeOK ==
  /\ kind \in {"sum", "difference"}
  /\ src \in Numbers /\ dest \in Numbers /\ Len(src) = Len(dest)
  /\ result \in Seq(Word) /\ Len(result) <= Len(src)
  /\ eflags \in Eflags
  /\ frame = <<>> \/ frame \in {<<f>> : f \in Eflags}

(* The program's flags, wherever they are *)
Mine == IF frame = <<>> THEN eflags ELSE frame[1]

Signed(x) == IF x >= HALF THEN x - 2 * HALF ELSE x
InRange(n) == -HALF <= n /\ n < HALF

(* Adding the carry to src first changes its sign here                     *)
SignLost == last.op \in {"adc", "sbb"} /\ last.CF = 1 /\ last.src = HALF - 1

(* After every operation of the program, also when a handler has run since *)
(* or is running: result and carry are those of the integers, and the      *)
(* overflow flag says whether the signed result does not fit in a word,    *)
(* except that adc and sbb get it wrong exactly when they carry into the   *)
(* largest positive word.                                                  *)
FlagsRight ==
  last # None =>
    LET c == IF last.op \in {"adc", "sbb"} THEN last.CF ELSE 0
    IN  /\ last.op \in {"add", "adc"} =>
             /\ last.res + 2 * HALF * Mine.CF = last.dest + last.src + c
             /\ (Mine.OF = 0 <=> InRange(Signed(last.dest) + Signed(last.src) + c))
                  <=> ~SignLost
        /\ last.op \in {"sub", "sbb"} =>
             /\ last.res - 2 * HALF * Mine.CF = last.dest - last.src - c
             /\ (Mine.OF = 0 <=> InRange(Signed(last.dest) - Signed(last.src) - c))
                  <=> ~SignLost
        /\ Mine.ZF = 1 <=> last.res = 0
        /\ Mine.SF = 1 <=> Signed(last.res) < 0

(* The value of a number, lowest word first *)
Base[n \in Nat] == IF n = 0 THEN 1 ELSE 2 * HALF * Base[n - 1]
Value(w) ==
  LET V[n \in 0 .. Len(w)] == IF n = 0 THEN 0 ELSE V[n - 1] + w[n] * Base[n - 1]
  IN  V[Len(w)]
SignedValue(w) ==
  Value(w) - IF w[Len(w)] >= HALF THEN Base[Len(w)] ELSE 0

(* When all words are done, with interrupts anywhere in between: the       *)
(* result is the sum or difference of the numbers and the conditions after *)
(* a difference compare them, unsigned by the carry, signed by sign and    *)
(* overflow unless the last word lost the sign of its operand; equality    *)
(* and the conditions that use it are right for numbers of one word.       *)
LongRight ==
  Len(result) = Len(src) =>
    IF kind = "sum"
      THEN Value(result) + Base[Len(src)] * Mine.CF = Value(dest) + Value(src)
      ELSE /\ Value(result) - Base[Len(src)] * Mine.CF = Value(dest) - Value(src)
           /\ condition_b(Mine) <=> Value(dest) < Value(src)
           /\ (condition_l(Mine) <=> SignedValue(dest) < SignedValue(src)) <=> ~SignLost
           /\ Len(src) = 1 =>
                /\ condition_e(Mine) <=> Value(dest) = Value(src)
                /\ condition_be(Mine) <=> Value(dest) <= Value(src)
                /\ condition_le(Mine) <=> SignedValue(dest) <= SignedValue(src)
=============================================================================
