----------------------------- MODULE IdeReadMC ------------------------------
(* An instance of IdeRead small enough for TLC, with the handlers the      *)
(* kernel and the typing game register.                                    *)
EXTENDS IdeRead

KernelAndGame ==
  <<[irq |-> TimerIrq, func |-> "ide_writeback", ints |-> TRUE],
    [irq |-> IdeIrq, func |-> "ide_intr", ints |-> TRUE],
    [irq |-> TimerIrq, func |-> "timer_event", ints |-> FALSE],
    [irq |-> KeyboardIrq, func |-> "keyboard_event", ints |-> FALSE]>>
=============================================================================
