--------------------------- MODULE BreakpointsMC ----------------------------
(* Instances of Breakpoints small enough for TLC.                          *)
EXTENDS Breakpoints

PlainProgram == [a \in Addrs |-> "op"]
=============================================================================
