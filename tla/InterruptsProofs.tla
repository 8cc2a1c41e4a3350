-------------------------- MODULE InterruptsProofs --------------------------
(***************************************************************************)
(* Proofs about Interrupts: the type invariant, handlers are never nested, *)
(* and the controller implements the latch of IrqLatch, for every bound    *)
(* MaxFrames on the depth of the guest's stack.                            *)
(***************************************************************************)
EXTENDS Interrupts, SequenceTheorems, TLAPS

(* do_intr has seen IFlag set and is on its way to raise_intr; cli and sti *)
(* are instructions of the same thread, so the flag stays set.             *)
TakenWithIF == cpuPc \in {"query", "ack", "clear", "vector"} => IFlag

(* The vector in the controller is one nobody has received yet, except     *)
(* while the CPU is between reading it and clearing it.                    *)
HeldVectorRaised ==
  cpuPc # "ack" /\ intr_no # NoIntr => intr_no \in raised

(* Outside of do_intr nothing has been received                            *)
NothingReceived == cpuPc \notin {"ack", "clear", "vector"} => vec = NoIntr

IInv ==
  /\ TypeOK
  /\ TakenWithIF
  /\ HandlersNotNested
  /\ HeldVectorRaised
  /\ NothingReceived

USE DEF IRQ_BASE, NoIntr, TimerVec, KeyboardVec, IdeVec, HwVectors, SysVec

-----------------------------------------------------------------------------
(* A sequence without its last element.                                    *)
LEMMA PrefixProperties ==
  ASSUME NEW S, NEW s \in Seq(S), NEW n \in Nat, n = Len(s) - 1
  PROVE  /\ SubSeq(s, 1, n) \in Seq(S)
         /\ Len(SubSeq(s, 1, n)) = n
         /\ \A k \in 1 .. n : SubSeq(s, 1, n)[k] = s[k]
  <1>1. \A k \in 1 .. n : s[k] \in S
    BY ElementOfSeq
  <1>2. /\ SubSeq(s, 1, n) \in Seq(S)
        /\ Len(SubSeq(s, 1, n)) = IF 1 <= n THEN n - 1 + 1 ELSE 0
        /\ \A k \in 1 .. n - 1 + 1 : SubSeq(s, 1, n)[k] = s[1 + k - 1]
    BY <1>1, SubSeqProperties
  <1> QED
    BY <1>2

(* What popping a frame off the guest's stack yields.                      *)
LEMMA PopFrame ==
  ASSUME NEW s \in Seq(Frame), s # <<>>
  PROVE  /\ SubSeq(s, 1, Len(s) - 1) \in Seq(Frame)
         /\ Len(SubSeq(s, 1, Len(s) - 1)) = Len(s) - 1
         /\ \A k \in 1 .. Len(s) - 1 : SubSeq(s, 1, Len(s) - 1)[k] = s[k]
         /\ s[Len(s)] \in Frame
  <1>1. Len(s) - 1 \in Nat /\ Len(s) \in 1 .. Len(s)
    BY EmptySeq
  <1> QED
    BY <1>1, PrefixProperties, ElementOfSeq

(* The first half of i8259_raise_intr puts a device's vector in place.     *)
LEMMA RaiseVectorProperties ==
  ASSUME TypeOK, NEW irq \in {0, 1, 14}, RaiseVector(irq)
  PROVE  /\ intr_no' \in HwVectors /\ intr_no' \in raised'
         /\ raised' \subseteq HwVectors
         /\ intr' = intr
  <1>1. IRQ_BASE + irq \in HwVectors
    OBVIOUS
  <1> QED
    BY <1>1 DEF RaiseVector, TypeOK

-----------------------------------------------------------------------------
LEMMA InitIInv == Init => IInv
  <1> SUFFICES ASSUME Init PROVE IInv
    OBVIOUS
  <1>1. frames \in Seq(Frame) /\ Len(frames) = 0
    BY EmptySeq DEF Init
  <1>2. HandlersNotNested
    BY <1>1 DEF HandlersNotNested
  <1> QED
    BY <1>1, <1>2 DEF Init, IInv, TypeOK, TakenWithIF, HeldVectorRaised,
                      NothingReceived, CpuPcs, SdlPcs

(* The steps of the SDL thread write the controller and nemu_state only.   *)
LEMMA SdlStepIInv == IInv /\ SdlStep => IInv'
  <1> SUFFICES ASSUME IInv, SdlStep PROVE IInv'
    OBVIOUS
  <1>1. HandlersNotNested' /\ TakenWithIF' /\ NothingReceived'
    BY DEF IInv, HandlersNotNested, TakenWithIF, NothingReceived, SdlStep,
           TimerIntr, KeyboardEvent, SdlRaiseLine, SdlQuit, SdlDelay, guest
  <1> USE DEF guest, pic
  <1>2. ASSUME TimerIntr PROVE TypeOK' /\ HeldVectorRaised'
    <2>1. intr_no' \in HwVectors \union {NoIntr} /\ raised' \subseteq HwVectors
      BY <1>2, RaiseVectorProperties DEF TimerIntr, IInv, TypeOK
    <2>2. TypeOK'
      BY <1>2, <2>1, RaiseVectorProperties DEF TimerIntr, IInv, TypeOK, SdlPcs
    <2> QED
      BY <1>2, <2>2, RaiseVectorProperties DEF TimerIntr, IInv, HeldVectorRaised
  <1>3. ASSUME KeyboardEvent PROVE TypeOK' /\ HeldVectorRaised'
    <2>1. TypeOK'
      BY <1>3, RaiseVectorProperties DEF KeyboardEvent, IInv, TypeOK, SdlPcs
    <2> QED
      BY <1>3, <2>1, RaiseVectorProperties
      DEF KeyboardEvent, IInv, HeldVectorRaised
  <1>4. ASSUME SdlRaiseLine \/ SdlQuit \/ SdlDelay
        PROVE  TypeOK' /\ HeldVectorRaised'
    <2> USE DEF SdlRaiseLine, SdlQuit, SdlDelay, RaiseLine
    <2>1. TypeOK'
      <3>1. CASE SdlRaiseLine  BY <3>1 DEF IInv, TypeOK, SdlPcs
      <3>2. CASE SdlQuit       BY <3>2 DEF IInv, TypeOK, SdlPcs
      <3>3. CASE SdlDelay      BY <3>3 DEF IInv, TypeOK, SdlPcs
      <3> QED  BY <1>4, <3>1, <3>2, <3>3
    <2> QED
      BY <1>4, <2>1 DEF IInv, HeldVectorRaised
  <1> QED
    BY <1>1, <1>2, <1>3, <1>4 DEF SdlStep, IInv

(* The steps of the CPU thread that leave the guest's stack and flag alone. *)
LEMMA CpuControlIInv ==
  ASSUME IInv,
         \/ Plain \/ IdeReadCommand \/ IdeRaiseLine \/ Hlt \/ HltWake
         \/ NemuTrap \/ ExecReturn \/ DoIntr \/ QueryIntrNo \/ AckVector
         \/ AckLine
  PROVE  IInv'
  <1> USE DEF Plain, IdeReadCommand, IdeRaiseLine, Hlt, HltWake, NemuTrap,
              ExecReturn, DoIntr, QueryIntrNo, AckVector, AckLine, Exec, guest
  <1>1. HandlersNotNested'
    BY DEF IInv, HandlersNotNested
  <1>2. TakenWithIF' /\ NothingReceived'
    BY DEF IInv, TakenWithIF, NothingReceived
  <1>3. TypeOK'
    <2>1. CASE IdeReadCommand
      BY <2>1, RaiseVectorProperties DEF IInv, TypeOK, CpuPcs
    <2> USE DEF IInv, TypeOK, CpuPcs
    <2>2. CASE Plain         BY <2>2 DEF pic
    <2>3. CASE IdeRaiseLine  BY <2>3 DEF RaiseLine
    <2>4. CASE Hlt           BY <2>4 DEF pic
    <2>5. CASE HltWake       BY <2>5 DEF pic
    <2>6. CASE NemuTrap      BY <2>6 DEF pic
    <2>7. CASE ExecReturn    BY <2>7 DEF pic
    <2>8. CASE DoIntr        BY <2>8 DEF pic
    <2>9. CASE QueryIntrNo   BY <2>9
    <2>10. CASE AckVector    BY <2>10
    <2>11. CASE AckLine      BY <2>11
    <2> QED
      BY <2>1, <2>2, <2>3, <2>4, <2>5, <2>6, <2>7, <2>8, <2>9, <2>10, <2>11
  <1>4. HeldVectorRaised'
    <2>1. CASE IdeReadCommand
      BY <2>1, RaiseVectorProperties DEF IInv, HeldVectorRaised
    <2>2. CASE \/ Plain \/ IdeRaiseLine \/ Hlt \/ HltWake \/ NemuTrap
               \/ ExecReturn \/ DoIntr
      BY <2>2 DEF IInv, HeldVectorRaised, RaiseLine, pic
    <2>3. CASE QueryIntrNo \/ AckVector \/ AckLine
      BY <2>3 DEF IInv, HeldVectorRaised
    <2> QED
      BY <2>1, <2>2, <2>3
  <1> QED
    BY <1>1, <1>2, <1>3, <1>4 DEF IInv

(* raise_intr, from do_intr or from an int instruction: pushing a frame    *)
(* with the interrupt flag as it is keeps the handlers apart, because no   *)
(* device handler is on the stack.                                         *)
LEMMA PushFrameIInv ==
  ASSUME IInv,
         NEW v \in HwVectors \union {SysVec, NoIntr}, PushFrame(v),
         \A k \in 1 .. Len(frames) : frames[k].vec \notin HwVectors,
         v \in HwVectors => IFlag
  PROVE  HandlersNotNested' /\ frames' \in Seq(Frame) /\ IFlag' \in BOOLEAN
  <1> DEFINE f == [vec |-> v, IFlag |-> IFlag]
  <1>1. f \in Frame
    BY DEF IInv, TypeOK, Frame
  <1>2. frames' = Append(frames, f) /\ IFlag' = (IFlag /\ ~InterruptGate(v))
    BY DEF PushFrame
  <1>3. /\ frames' \in Seq(Frame)
        /\ Len(frames') = Len(frames) + 1
        /\ \A k \in 1 .. Len(frames) : frames'[k] = frames[k]
        /\ frames'[Len(frames) + 1] = f
    BY <1>1, <1>2, AppendProperties DEF IInv, TypeOK
  <1>4. Len(frames) \in Nat
    BY DEF IInv, TypeOK
  <1>5. ASSUME NEW k \in 1 .. Len(frames'), frames'[k].vec \in HwVectors
        PROVE  k = Len(frames') /\ ~IFlag' /\ frames'[k].IFlag
    <2>1. k = Len(frames) + 1
      BY <1>3, <1>4, <1>5
    <2>2. frames'[k] = f /\ v \in HwVectors
      BY <2>1, <1>3, <1>5
    <2>3. ~IFlag'
      BY <2>2, <1>2 DEF InterruptGate
    <2>4. k = Len(frames')
      BY <2>1, <1>3
    <2>5. frames'[k].IFlag
      BY <2>2
    <2> QED
      BY <2>3, <2>4, <2>5
  <1>6. HandlersNotNested'
    BY <1>5 DEF HandlersNotNested
  <1>7. IFlag' \in BOOLEAN
    BY <1>2
  <1> QED
    BY <1>3, <1>6, <1>7

(* cli, sti, int and iret: the instructions that touch the flag.           *)
LEMMA CpuGuestIInv ==
  ASSUME IInv, CliSti \/ SoftwareInterrupt \/ Iret \/ RaiseIntr
  PROVE  IInv'
  <1>0. /\ frames \in Seq(Frame) /\ Len(frames) \in Nat
        /\ \A k \in 1 .. Len(frames) : frames[k] \in Frame
    BY DEF IInv, TypeOK
  <1> USE DEF IInv, TypeOK, TakenWithIF, HeldVectorRaised, NothingReceived, CpuPcs,
              pic, Exec
  <1>1. CASE CliSti
    <2>1. \A k \in 1 .. Len(frames) : frames[k].vec \notin HwVectors
      <3>1. CASE frames = <<>>
        BY <3>1
      <3>2. CASE frames # <<>>
        <4>1. frames[Len(frames)].vec = SysVec
          BY <1>1, <3>2 DEF CliSti, InMain, Handler
        <4> QED
          BY <4>1 DEF HandlersNotNested
      <3> QED  BY <3>1, <3>2
    <2>2. HandlersNotNested'
      BY <1>1, <2>1 DEF CliSti, HandlersNotNested
    <2> QED
      BY <1>1, <2>2 DEF CliSti
  <1>2. CASE SoftwareInterrupt
    <2>1. \A k \in 1 .. Len(frames) : frames[k].vec \notin HwVectors
      BY <1>2, <1>0 DEF SoftwareInterrupt, InMain
    <2>2. HandlersNotNested' /\ frames' \in Seq(Frame) /\ IFlag' \in BOOLEAN
      BY <1>2, <2>1, PushFrameIInv DEF SoftwareInterrupt
    <2> QED
      BY <1>2, <2>2 DEF SoftwareInterrupt
  <1>3. CASE Iret
    <2>1. frames # <<>>
      BY <1>3 DEF Iret, Handler, InMain
    <2>2. /\ frames' \in Seq(Frame)
          /\ Len(frames') = Len(frames) - 1
          /\ \A k \in 1 .. Len(frames) - 1 : frames'[k] = frames[k]
          /\ IFlag' \in BOOLEAN
      BY <1>0, <1>3, <2>1, PopFrame DEF Iret, Frame
    <2>3. ASSUME NEW k \in 1 .. Len(frames')
          PROVE  frames'[k].vec \notin HwVectors
      <3>1. k \in 1 .. Len(frames) /\ k # Len(frames) /\ frames'[k] = frames[k]
        BY <1>0, <2>2
      <3> QED
        BY <3>1 DEF HandlersNotNested
    <2>4. HandlersNotNested'
      BY <2>3 DEF HandlersNotNested
    <2> QED
      BY <1>3, <2>2, <2>4 DEF Iret
  <1>4. CASE RaiseIntr
    <2>1. IFlag
      BY <1>4 DEF RaiseIntr
    <2>2. \A k \in 1 .. Len(frames) : frames[k].vec \notin HwVectors
      BY <2>1 DEF HandlersNotNested
    <2>3. HandlersNotNested' /\ frames' \in Seq(Frame) /\ IFlag' \in BOOLEAN
      BY <1>4, <2>1, <2>2, PushFrameIInv DEF RaiseIntr
    <2> QED
      BY <1>4, <2>3 DEF RaiseIntr
  <1> QED
    BY <1>1, <1>2, <1>3, <1>4

LEMMA StepIInv == IInv /\ [Next]_vars => IInv'
  <1> SUFFICES ASSUME IInv, [Next]_vars PROVE IInv'
    OBVIOUS
  <1>1. CASE CpuStep
    BY <1>1, CpuControlIInv, CpuGuestIInv DEF CpuStep
  <1>2. CASE SdlStep
    BY <1>2, SdlStepIInv
  <1>3. CASE UNCHANGED vars
    BY <1>3 DEF vars, IInv, TypeOK, TakenWithIF, HandlersNotNested,
                HeldVectorRaised, NothingReceived
  <1> QED
    BY <1>1, <1>2, <1>3 DEF Next

(* The strengthened invariant holds in every reachable state.              *)
THEOREM Invariance == Spec => []IInv
  BY InitIInv, StepIInv, PTL DEF Spec

(* Every variable of the two threads stays in its type: the controller     *)
(* holds a device vector or NoIntr, the stack holds frames.                *)
THEOREM TypeCorrect == Spec => []TypeOK
  BY Invariance, PTL DEF IInv

(* A device handler is never interrupted and its iret turns interrupts on. *)
THEOREM HandlersNeverNested == Spec => []HandlersNotNested
  BY Invariance, PTL DEF IInv

-----------------------------------------------------------------------------
LEMMA LatchInit == Init => Latch!Init
  BY DEF Init, Latch!Init

LEMMA LatchStep == IInv /\ [Next]_vars => [Latch!Next]_(Latch!vars)
  <1> SUFFICES ASSUME IInv, [Next]_vars
               PROVE  [Latch!Next]_(Latch!vars)
    OBVIOUS
  <1> USE DEF Latch!vars
  <1>1. ASSUME NEW irq \in {0, 1, 14}, RaiseVector(irq), UNCHANGED vec
        PROVE  Latch!Next
    BY <1>1 DEF RaiseVector, Latch!Next, Latch!Raise
  <1>2. CASE QueryIntrNo
    <2>1. CASE intr_no = NoIntr
      <3>1. raised' = raised /\ vec' = NoIntr
        BY <1>2, <2>1 DEF QueryIntrNo, IInv, TypeOK
      <3> QED  BY <3>1 DEF Latch!Next, Latch!Done
    <2>2. CASE intr_no # NoIntr
      <3>1. intr_no \in raised /\ intr_no \in HwVectors
        BY <1>2, <2>2 DEF QueryIntrNo, IInv, TypeOK, HeldVectorRaised
      <3>2. Latch!Service(intr_no)
        BY <1>2, <3>1 DEF QueryIntrNo, Latch!Service, IInv, NothingReceived
      <3> QED  BY <3>1, <3>2 DEF Latch!Next
    <2> QED  BY <2>1, <2>2
  <1>3. CASE TimerIntr
    BY <1>3, <1>1 DEF TimerIntr, pic
  <1>4. CASE KeyboardEvent
    BY <1>4, <1>1 DEF KeyboardEvent
  <1>5. CASE IdeReadCommand
    BY <1>5, <1>1 DEF IdeReadCommand, Exec
  <1>6. CASE \/ SdlRaiseLine \/ SdlQuit \/ SdlDelay \/ IdeRaiseLine
    BY <1>6 DEF SdlRaiseLine, SdlQuit, SdlDelay, IdeRaiseLine, RaiseLine, pic
  <1>7. CASE \/ Plain \/ CliSti \/ SoftwareInterrupt \/ Iret \/ Hlt \/ HltWake
             \/ NemuTrap \/ ExecReturn
    BY <1>7 DEF Plain, CliSti, SoftwareInterrupt, Iret, Hlt, HltWake, NemuTrap,
                ExecReturn, Exec, pic
  <1>8. CASE DoIntr \/ AckVector \/ AckLine
    BY <1>8 DEF DoIntr, AckVector, AckLine, pic
  <1>9. CASE RaiseIntr
    BY <1>9 DEF RaiseIntr, pic, Latch!Next, Latch!Done
  <1>10. CASE UNCHANGED vars
    BY <1>10 DEF vars
  <1> QED
    BY <1>2, <1>3, <1>4, <1>5, <1>6, <1>7, <1>8, <1>9, <1>10
    DEF Next, CpuStep, SdlStep

(* The controller and its two threads implement the latch.                 *)
THEOREM ImplementsLatch == Spec => LatchSpec
  BY LatchInit, LatchStep, Invariance, PTL DEF Spec, LatchSpec, Latch!Spec
=============================================================================
