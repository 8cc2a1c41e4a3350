----------------------------- MODULE L1CacheMC ------------------------------
(* Instances of L1Cache small enough for TLC, with lines of four bytes, so *)
(* that a read of four crosses at every offset but 0.                      *)
EXTENDS L1Cache

Bits == {0, 1}

(* The image is all zero; a restart clears what the guest has written      *)
ZeroImage ==
  {[l \in (0 .. Tags - 1) \X (0 .. Groups - 1) |-> [o \in 0 .. LineSize - 1 |-> 0]]}

(* Behind the memory; the writes below stay too far from its end to copy it *)
OnesPastEnd == {[k \in 0 .. NWays |-> [o \in 0 .. LineSize - 1 |-> 1]]}

(* Accesses at two line boundaries: <<0, 0>> to <<0, 1>> within a tag and  *)
(* <<0, 1>> to <<1, 0>> across tags, where the groups wrap around          *)
CrossingReads == {<<<<0, 0>>, 2, 4>>, <<<<0, 1>>, 3, 2>>}
InLineReads == {<<<<1, 0>>, 0, 1>>}
BoundaryReads == CrossingReads \union InLineReads
BoundaryWrites == {<<<<0, 0>>, 3, 1>>, <<<<0, 0>>, 3, 2>>, <<<<0, 1>>, 3, 2>>}
=============================================================================
