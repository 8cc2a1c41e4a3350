----------------------------- MODULE Interrupts -----------------------------
(***************************************************************************)
(* The interrupt path of NEMU: two host threads that share the 8259        *)
(* controller without a lock.                                              *)
(*                                                                         *)
(*   the CPU thread   exec() of nemu/src/cpu/cpu.c: one guest instruction, *)
(*                    then do_intr(), while nemu_state is NEMU_RUN;        *)
(*   the SDL thread   NEMU_SDL_Thread of nemu/src/device/sdl.c: a timer    *)
(*                    tick, then the pending keyboard and quit events.     *)
(*                                                                         *)
(* The controller is two plain variables, intr_no and cpu.intr, written by *)
(* one thread while the other reads them; every read and write of them is  *)
(* a step of its own here, in program order.                               *)
(*                                                                         *)
(* The guest is the kernel with its program: any interleaving of the       *)
(* instructions that touch interrupts, restricted to where the kernel      *)
(* issues them.  Everything else it executes is Plain.                     *)
(***************************************************************************)
EXTENDS Naturals, Sequences

CONSTANT MaxFrames  \* bound: a guest this deep in handlers takes no interrupt

ASSUME MaxFramesAssumption == MaxFrames \in Nat

VARIABLES
  intr_no,     \* i8259_pic.c: the one vector the controller holds
  intr,        \* cpu.intr: the INTR line
  nemu_state,  \* "RUN" or "STOP"
  IFlag,       \* cpu.eflags.IF
  frames,      \* interrupt frames on the guest stack: handler and saved IF
  cpuPc,       \* where the CPU thread is
  vec,         \* intr_no, local to do_intr; NoIntr outside
  sdlPc,       \* where the SDL thread is
  raised       \* history: vectors raised and not received by the CPU since

pic == <<intr_no, intr, raised>>
guest == <<IFlag, frames>>
vars == <<intr_no, intr, nemu_state, IFlag, frames, cpuPc, vec, sdlPc, raised>>

IRQ_BASE == 32
NoIntr == 255                    \* I8259_NO_INTR is -1, stored in a uint8_t
TimerVec == IRQ_BASE + 0
KeyboardVec == IRQ_BASE + 1
IdeVec == IRQ_BASE + 14
HwVectors == {TimerVec, KeyboardVec, IdeVec}
SysVec == 128                    \* int $0x80

(* kernel/src/irq/idt.c: only the three device vectors are interrupt gates *)
InterruptGate(v) == v \in HwVectors

CpuPcs == {"loop", "ideLine", "hlt", "check", "query", "ack", "clear",
           "vector", "stopped"}
SdlPcs == {"timer", "line", "poll"}
Frame == [vec : HwVectors \union {SysVec, NoIntr}, IFlag : BOOLEAN]

(* The code the guest is running: a handler, or the program below them all *)
InMain == frames = <<>>
Handler == IF InMain THEN 0 ELSE frames[Len(frames)].vec

Init ==
  /\ intr_no = NoIntr
  /\ intr = FALSE
  /\ nemu_state = "RUN"
  /\ IFlag = FALSE
  /\ frames = <<>>
  /\ cpuPc = "loop"
  /\ vec = NoIntr
  /\ sdlPc = "timer"
  /\ raised = {}

-----------------------------------------------------------------------------
(* i8259_raise_intr(irq) is two writes: the vector, then the line.         *)

MutRaiseVector_noBase(irq) ==    \* IRQ_BASE forgotten
  /\ intr_no' = irq
  /\ raised' = raised \union {IRQ_BASE + irq}
  /\ UNCHANGED intr

RaiseVector(irq) ==
  /\ intr_no' = IRQ_BASE + irq
  /\ raised' = raised \union {IRQ_BASE + irq}
  /\ UNCHANGED intr

MutRaiseLine_missing == UNCHANGED pic   \* cpu.intr left alone

RaiseLine == intr' = TRUE /\ UNCHANGED <<intr_no, raised>>

-----------------------------------------------------------------------------
(* The SDL thread *)

(* timer_intr: a tick raises IRQ 0, but only while the machine runs *)
TimerIntr ==
  /\ sdlPc = "timer"
  /\ \/ nemu_state = "RUN" /\ RaiseVector(0) /\ sdlPc' = "line"
     \/ nemu_state # "RUN" /\ UNCHANGED pic /\ sdlPc' = "poll"
  /\ UNCHANGED <<guest, nemu_state, cpuPc, vec>>

(* keyboard_down and keyboard_up, called for each event polled *)
KeyboardEvent ==
  /\ sdlPc = "poll"
  /\ RaiseVector(1)
  /\ sdlPc' = "line"
  /\ UNCHANGED <<guest, nemu_state, cpuPc, vec>>

SdlRaiseLine ==
  /\ sdlPc = "line"
  /\ RaiseLine
  /\ sdlPc' = "poll"
  /\ UNCHANGED <<guest, nemu_state, cpuPc, vec>>

(* SDL_QUIT: the user closes the window *)
SdlQuit ==
  /\ sdlPc = "poll"
  /\ nemu_state' = "STOP"
  /\ UNCHANGED <<pic, guest, cpuPc, vec, sdlPc>>

(* no event left: wait 10 ms, next iteration *)
SdlDelay ==
  /\ sdlPc = "poll"
  /\ sdlPc' = "timer"
  /\ UNCHANGED <<pic, guest, nemu_state, cpuPc, vec>>

SdlStep ==
  \/ TimerIntr
  \/ KeyboardEvent
  \/ SdlRaiseLine
  \/ SdlQuit
  \/ SdlDelay

-----------------------------------------------------------------------------
(* The CPU thread: one instruction of the guest *)

MutExec_ignoresState(to) ==      \* the loop forgets nemu_state
  cpuPc = "loop" /\ cpuPc' = to /\ UNCHANGED <<vec, sdlPc>>

(* The while loop of exec: an instruction starts only in NEMU_RUN *)
Exec(to) ==
  /\ cpuPc = "loop"
  /\ nemu_state = "RUN"
  /\ cpuPc' = to
  /\ UNCHANGED <<vec, sdlPc>>

Plain == Exec("check") /\ UNCHANGED <<pic, guest, nemu_state>>

(* cli and sti: in the program, and around add_irq_handle in do_syscall *)
CliSti ==
  /\ InMain \/ Handler = SysVec
  /\ Exec("check")
  /\ IFlag' \in BOOLEAN
  /\ UNCHANGED <<pic, frames, nemu_state>>

MutPushFrame_leavesIF(v) ==      \* the gate type is not looked at
  /\ frames' = Append(frames, [vec |-> v, IFlag |-> IFlag])
  /\ UNCHANGED IFlag

(* raise_intr(v): push EFLAGS, CS, EIP, enter the gate; an interrupt gate  *)
(* turns interrupts off                                                    *)
PushFrame(v) ==
  /\ frames' = Append(frames, [vec |-> v, IFlag |-> IFlag])
  /\ IFlag' = (IFlag /\ ~InterruptGate(v))

(* int $0x80: raise_sw_intr *)
SoftwareInterrupt ==
  /\ InMain
  /\ Exec("check")
  /\ PushFrame(SysVec)
  /\ UNCHANGED <<pic, nemu_state>>

(* iret: pop EIP, CS, EFLAGS.  A handler entered on no vector never gets   *)
(* here: irq_handle panics.                                                *)
Iret ==
  /\ Handler \in HwVectors \union {SysVec}
  /\ Exec("check")
  /\ IFlag' = frames[Len(frames)].IFlag
  /\ frames' = SubSeq(frames, 1, Len(frames) - 1)
  /\ UNCHANGED <<pic, nemu_state>>

(* out to the IDE command port with a read command: the device raises      *)
(* IRQ 14 on the CPU thread, within the instruction                        *)
IdeReadCommand ==
  /\ InMain
  /\ Exec("ideLine")
  /\ RaiseVector(14)
  /\ UNCHANGED <<guest, nemu_state>>

IdeRaiseLine ==
  /\ cpuPc = "ideLine"
  /\ RaiseLine
  /\ cpuPc' = "check"
  /\ UNCHANGED <<guest, nemu_state, vec, sdlPc>>

(* hlt: a helper thread polls cpu.intr, the CPU thread joins it; nothing   *)
(* looks at IF or nemu_state                                               *)
Hlt == InMain /\ Exec("hlt") /\ UNCHANGED <<pic, guest, nemu_state>>

HltWake ==
  /\ cpuPc = "hlt"
  /\ intr
  /\ cpuPc' = "check"
  /\ UNCHANGED <<pic, guest, nemu_state, vec, sdlPc>>

(* nemu_trap: the program ends, or the kernel panics on a vector it does   *)
(* not know                                                                *)
NemuTrap ==
  /\ Handler \notin HwVectors
  /\ Exec("check")
  /\ nemu_state' = "STOP"
  /\ UNCHANGED <<pic, guest>>

Panic == Handler = NoIntr /\ NemuTrap

(* exec returns *)
ExecReturn ==
  /\ cpuPc = "loop"
  /\ nemu_state # "RUN"
  /\ cpuPc' = "stopped"
  /\ UNCHANGED <<pic, guest, nemu_state, vec, sdlPc>>

-----------------------------------------------------------------------------
(* The CPU thread: do_intr, after every instruction *)

DoIntr ==
  /\ cpuPc = "check"
  /\ cpuPc' = IF intr /\ IFlag /\ Len(frames) < MaxFrames THEN "query" ELSE "loop"
  /\ UNCHANGED <<pic, guest, nemu_state, vec, sdlPc>>

(* i8259_query_intr_no, and the assertion that never fires: 255 # -1 in C *)
QueryIntrNo ==
  /\ cpuPc = "query"
  /\ vec' = intr_no
  /\ raised' = raised \ {intr_no}
  /\ cpuPc' = "ack"
  /\ UNCHANGED <<guest, intr_no, intr, nemu_state, sdlPc>>

MutAckVector_keeps ==            \* the vector is not reset
  /\ cpuPc = "ack"
  /\ cpuPc' = "clear"
  /\ UNCHANGED <<pic, guest, nemu_state, vec, sdlPc>>

(* i8259_ack_intr is two writes too: the vector, then the line *)
AckVector ==
  /\ cpuPc = "ack"
  /\ intr_no' = NoIntr
  /\ cpuPc' = "clear"
  /\ UNCHANGED <<guest, intr, raised, nemu_state, vec, sdlPc>>

AckLine ==
  /\ cpuPc = "clear"
  /\ intr' = FALSE
  /\ cpuPc' = "vector"
  /\ UNCHANGED <<guest, intr_no, raised, nemu_state, vec, sdlPc>>

(* do_intr returns: its local variable is gone *)
RaiseIntr ==
  /\ cpuPc = "vector"
  /\ PushFrame(vec)
  /\ vec' = NoIntr
  /\ cpuPc' = "loop"
  /\ UNCHANGED <<pic, nemu_state, sdlPc>>

CpuStep ==
  \/ Plain
  \/ CliSti
  \/ SoftwareInterrupt
  \/ Iret
  \/ IdeReadCommand
  \/ IdeRaiseLine
  \/ Hlt
  \/ HltWake
  \/ NemuTrap
  \/ ExecReturn
  \/ DoIntr
  \/ QueryIntrNo
  \/ AckVector
  \/ AckLine
  \/ RaiseIntr

-----------------------------------------------------------------------------
Next == CpuStep \/ SdlStep

Spec == Init /\ [][Next]_vars

(* Both host threads are scheduled for ever; the SDL thread keeps          *)
(* iterating (SdlDelay: the event queue is finite); handlers return and a  *)
(* panicking kernel reaches its trap (straight-line guest code).           *)
Fairness ==
  /\ WF_vars(CpuStep)
  /\ WF_vars(TimerIntr)
  /\ WF_vars(SdlRaiseLine)
  /\ SF_vars(SdlDelay)
  /\ SF_vars(Iret)
  /\ SF_vars(Panic)

FairSpec == Spec /\ Fairness

-----------------------------------------------------------------------------
(* Type invariant of the two threads, the controller and the guest stack.  *)
TypeOK ==
  /\ intr_no \in HwVectors \union {NoIntr}
  /\ intr \in BOOLEAN
  /\ nemu_state \in {"RUN", "STOP"}
  /\ IFlag \in BOOLEAN
  /\ frames \in Seq(Frame)
  /\ cpuPc \in CpuPcs
  /\ vec \in HwVectors \union {NoIntr}
  /\ sdlPc \in SdlPcs
  /\ raised \subseteq HwVectors

(* The handler of a device interrupt is never interrupted: it is on top of *)
(* the stack, it runs with interrupts off, and the code it interrupted had *)
(* them on, so its iret turns them on again (raise_intr, iret, do_intr and *)
(* the gate types of idt.c together).                                      *)
HandlersNotNested ==
  \A k \in 1 .. Len(frames) :
    frames[k].vec \in HwVectors =>
      /\ k = Len(frames)
      /\ ~IFlag
      /\ frames[k].IFlag

(* The interrupt path implements the latch: do_intr never receives a       *)
(* device's vector twice for one i8259_raise_intr, whatever the threads'   *)
(* interleaving.                                                           *)
Latch == INSTANCE IrqLatch WITH
           Irqs <- HwVectors, Idle <- NoIntr,
           pending <- raised, serviced <- vec
LatchSpec == Latch!Spec

(* A guest that keeps running with interrupts on keeps being interrupted,  *)
(* no race of raise and acknowledge leaves the line low for good; and a    *)
(* halted CPU wakes up while the machine runs, since the timer ticks.      *)
InterruptsKeepComing ==
  /\ ([]<>(cpuPc = "check" /\ IFlag)) => []<>(cpuPc = "vector")
  /\ cpuPc = "hlt" ~> (cpuPc # "hlt" \/ nemu_state = "STOP")

(* Once nemu_state is NEMU_STOP the CPU thread leaves exec, unless a hlt   *)
(* holds it.                                                               *)
StopsUnlessHalted == nemu_state = "STOP" ~> cpuPc \in {"stopped", "hlt"}

-----------------------------------------------------------------------------
(* Claims of the repository the code does not keep *)

(* cpu.c asserts that a pending interrupt has a number when do_intr asks   *)
(* the controller for it.                                                  *)
ReceivedVectorValid == cpuPc = "ack" => vec # NoIntr

(* sdl.c says the thread terminates the machine when it receives SDL_QUIT: *)
(* once stopped, the CPU thread leaves exec.                               *)
QuitTerminates == nemu_state = "STOP" ~> cpuPc = "stopped"
=============================================================================
