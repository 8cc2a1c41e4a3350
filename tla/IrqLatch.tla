------------------------------ MODULE IrqLatch ------------------------------
(***************************************************************************)
(* What the interrupt path of NEMU promises to the kernel: an interrupt is *)
(* serviced only after a device raised it, and once per time it was        *)
(* raised.  The latch makes no promise of delivery: a pending interrupt    *)
(* may stay pending for ever, which is how a lost one looks.               *)
(***************************************************************************)

CONSTANTS
  Irqs,      \* the vectors devices may raise
  Idle       \* what is serviced when no interrupt is: not in Irqs

VARIABLES
  pending,   \* raised and not serviced since
  serviced   \* the interrupt the CPU is being sent to, or Idle

vars == <<pending, serviced>>

Init == pending = {} /\ serviced = Idle

Raise(i) == pending' = pending \union {i} /\ UNCHANGED serviced

Service(i) ==
  /\ serviced = Idle
  /\ i \in pending
  /\ pending' = pending \ {i}
  /\ serviced' = i

Done == serviced' = Idle /\ UNCHANGED pending

Next ==
  \/ \E i \in Irqs : Raise(i) \/ Service(i)
  \/ Done

Spec == Init /\ [][Next]_vars
=============================================================================
