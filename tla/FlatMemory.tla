----------------------------- MODULE FlatMemory -----------------------------
(***************************************************************************)
(* What the memory of NEMU promises to the CPU: a flat array of bytes.  A  *)
(* read of one to four bytes returns what was last written to each of      *)
(* them, whatever lines they lie in.                                       *)
(*                                                                         *)
(* An address is the triple the cache splits it into: a line is a pair of  *)
(* tag and group, a byte of it is an offset.  Lines are consecutive in the *)
(* order of NextLine.                                                      *)
(***************************************************************************)
EXTENDS Naturals

CONSTANTS
  Tags,       \* tags are 0 .. Tags - 1
  Groups,     \* groups are 0 .. Groups - 1
  LineSize,   \* bytes of a line
  Lens,       \* access sizes
  Values,     \* values of a byte
  Images      \* memory contents a restart may load

VARIABLES
  mem,        \* the byte at each offset of each line
  ret         \* the value the last read returned

vars == <<mem, ret>>

Offsets == 0 .. LineSize - 1
Lines == (0 .. Tags - 1) \X (0 .. Groups - 1)
Memory == [Lines -> [Offsets -> Values]]

NextLine(line) ==
  IF line[2] = Groups - 1 THEN <<line[1] + 1, 0>> ELSE <<line[1], line[2] + 1>>

Crosses(off, len) == off + len > LineSize

(* The accesses that stay within the memory *)
Fits(line, off, len) == Crosses(off, len) => NextLine(line) \in Lines

Data(len) == [0 .. len - 1 -> Values]

(* hw_mem_read *)
HwRead(m, line, off, len) ==
  [k \in 0 .. len - 1 |->
     IF off + k < LineSize THEN m[line][off + k]
                           ELSE m[NextLine(line)][off + k - LineSize]]

(* hw_mem_write *)
HwWrite(m, line, off, len, data) ==
  LET first == [o \in Offsets |->
                  IF o \in off .. off + len - 1 THEN data[o - off] ELSE m[line][o]]
      next == NextLine(line)
      second == [o \in Offsets |->
                   IF o + LineSize < off + len THEN data[o + LineSize - off]
                                               ELSE m[next][o]]
  IN IF Crosses(off, len) THEN [m EXCEPT ![line] = first, ![next] = second]
                          ELSE [m EXCEPT ![line] = first]

Init ==
  /\ mem \in Images
  /\ ret \in UNION {Data(len) : len \in Lens}

Read(line, off, len) ==
  /\ Fits(line, off, len)
  /\ ret' = HwRead(mem, line, off, len)
  /\ UNCHANGED mem

Write(line, off, len, data) ==
  /\ Fits(line, off, len)
  /\ mem' = HwWrite(mem, line, off, len, data)
  /\ UNCHANGED ret

Restart == mem' \in Images /\ UNCHANGED ret

Next ==
  \/ \E line \in Lines, off \in Offsets, len \in Lens :
       \/ Read(line, off, len)
       \/ \E data \in Data(len) : Write(line, off, len, data)
  \/ Restart

Spec == Init /\ [][Next]_vars
=============================================================================
