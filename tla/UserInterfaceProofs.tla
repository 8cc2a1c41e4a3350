------------------------- MODULE UserInterfaceProofs -------------------------
(***************************************************************************)
(* Proofs about the three models of what the user sees and types: the SDL  *)
(* thread with the keyboard (SdlThread), the refresh of the screen         *)
(* (VgaRefresh) and the typing game (TypingGame).  The three do not share  *)
(* variables; a section of this module is about each.                      *)
(***************************************************************************)
EXTENDS SdlThread, TypingGame, VgaRefresh, FiniteSetTheorems, SequenceTheorems,
        Recursion, TLAPS

(***************************************************************************)
(* SdlThread: for autoruns of any length, any pool of mappings and any     *)
(* number of keys, the type invariant, that a thread that is up stays the  *)
(* only one to come, that the program and the screen share their memory,   *)
(* and that the guest reads no older scan code.                            *)
(***************************************************************************)

-----------------------------------------------------------------------------
(* The steps that leave the threads, the mappings or the keyboard alone    *)

LEMMA TypeInit == Init => TypeOK
<1> SUFFICES ASSUME Init PROVE TypeOK
  OBVIOUS
<1>1. maps \in Seq(1 .. MaxMaps) /\ Len(maps) <= MaxMaps
  BY SdlAssumption, EmptySeq DEF Init
<1>2. /\ left \in 0 .. NPrograms /\ vmem_base \in 0 .. MaxMaps
      /\ keys \in 0 .. MaxKeys /\ scan_code_buf \in 0 .. MaxKeys
      /\ raised \in 0 .. MaxKeys /\ serving \in 0 .. MaxKeys
      /\ None \in 0 .. MaxKeys
  BY SdlAssumption DEF Init, None
<1>3. event \in [Threads -> 0 .. MaxKeys]
  BY <1>2 DEF Init
<1>4. threads \in [Threads -> {"none", "init", "tick", "poll", "store", "raise", "gone"}]
  BY DEF Init
<1> QED BY <1>1, <1>2, <1>3, <1>4 DEF Init, TypeOK

(* A mapping that fits                                                     *)
LEMMA MapTyped ==
  ASSUME TypeOK, MapFits, MapVideo
  PROVE  /\ maps' \in Seq(1 .. MaxMaps) /\ Len(maps') = Len(maps) + 1
         /\ Len(maps') <= MaxMaps /\ vmem_base' = Len(maps')
         /\ vmem_base' \in 0 .. MaxMaps
         /\ \A i \in 1 .. Len(maps) : maps'[i] = maps[i]
         /\ maps'[Len(maps')] = Len(maps')
<1> DEFINE S == 1 .. MaxMaps
<1>1. maps \in Seq(S) /\ Len(maps) \in Nat /\ Len(maps) + 1 \in S
  <2>1. maps \in Seq(S)
    BY DEF TypeOK
  <2>2. Len(maps) \in Nat
    BY <2>1, LenProperties
  <2> QED BY <2>1, <2>2, SdlAssumption DEF MapFits
<1> HIDE DEF S
<1>2. maps' = Append(maps, Len(maps) + 1)
  BY DEF MapVideo
<1>3. /\ maps' \in Seq(S) /\ Len(maps') = Len(maps) + 1
      /\ \A i \in 1 .. Len(maps) : maps'[i] = maps[i]
      /\ maps'[Len(maps) + 1] = Len(maps) + 1
  BY <1>1, <1>2, AppendProperties
<1> QED BY <1>1, <1>3, SdlAssumption DEF MapFits, MapVideo, S

LEMMA TypeNext == TypeOK /\ [Next]_vars => TypeOK'
<1> SUFFICES ASSUME TypeOK, [Next]_vars PROVE TypeOK'
  OBVIOUS
<1> USE DEF TypeOK, main, sdl, video, keyboard, None
<1>1. CASE Restart
  BY <1>1, SdlAssumption DEF Restart
<1>2. CASE InitSdl \/ MapFails
  BY <1>2 DEF InitSdl, MapFails
<1>8. CASE InitVga
  <2>1. /\ maps' \in Seq(1 .. MaxMaps) /\ Len(maps') <= MaxMaps
        /\ vmem_base' \in 0 .. MaxMaps
    BY <1>8, MapTyped DEF InitVga
  <2> QED BY <1>8, <2>1 DEF InitVga
<1>9. CASE CreateThread
  BY <1>9 DEF CreateThread
<1>3. CASE Load \/ ExecStart \/ NemuTrap \/ ExecReturn \/ close_sdl \/ Return
  BY <1>3 DEF Load, ExecStart, NemuTrap, ExecReturn, close_sdl, Return
<1>4. CASE TakeKey
  BY <1>4, SdlAssumption DEF TakeKey
<1>5. CASE ReadKey
  BY <1>5, SdlAssumption DEF ReadKey
<1>6. ASSUME NEW t \in Threads, ThreadStep(t) PROVE TypeOK'
  <2> USE DEF At, Goto
  <2>1. CASE Started(t)
    BY <2>1 DEF Started
  <2>2. CASE Tick(t)
    BY <2>2, SdlAssumption DEF Tick
  <2>3. CASE PollKey(t)
    <3>1. keys + 1 \in 0 .. MaxKeys
      BY <2>3, SdlAssumption DEF PollKey
    <3>2. event' \in [Threads -> 0 .. MaxKeys]
      BY <2>3, <3>1 DEF PollKey
    <3> QED BY <2>3, <3>1, <3>2 DEF PollKey
  <2>4. CASE Store(t)
    BY <2>4 DEF Store
  <2>5. CASE Raise(t)
    <3>1. event' \in [Threads -> 0 .. MaxKeys]
      BY <2>5, SdlAssumption DEF Raise
    <3> QED BY <2>5, <3>1 DEF Raise
  <2>6. CASE PollQuit(t)
    BY <2>6 DEF PollQuit
  <2>7. CASE Delay(t)
    BY <2>7 DEF Delay
  <2>8. CASE Leave(t)
    <3>1. maps' \in Seq(1 .. MaxMaps) /\ Len(maps') <= MaxMaps
      BY <2>8, EmptySeq, SdlAssumption DEF Leave
    <3> QED BY <2>8, <3>1 DEF Leave
  <2> QED BY <1>6, <2>1, <2>2, <2>3, <2>4, <2>5, <2>6, <2>7, <2>8 DEF ThreadStep
<1>7. CASE UNCHANGED vars
  BY <1>7 DEF vars
<1> QED BY <1>1, <1>2, <1>3, <1>4, <1>5, <1>6, <1>7, <1>8, <1>9 DEF Next, MainStep

THEOREM TypeCorrect == Spec => []TypeOK
BY TypeInit, TypeNext, PTL DEF Spec

-----------------------------------------------------------------------------
(* The inductive invariants *)

Ending == {"return", "exit"}

(* A thread is up exactly while main may believe so                        *)
UpKnown ==
  /\ Up # {} => initialized \/ mainPc \in Ending
  /\ initialized => Up # {}

(* Until main ends every thread has brought one mapping, the last of which *)
(* the screen is drawn from, and there are enough programs for them; at    *)
(* the end of init_sdl the mapping is there before its thread              *)
MapPerThread ==
  mainPc \notin Ending =>
    /\ Created = 1 .. Len(maps) - (IF mainPc = "create" THEN 1 ELSE 0)
    /\ Len(maps) + left + (IF mainPc \in {"init_sdl", "init_vga"} THEN 1 ELSE 0) <= NPrograms
    /\ vmem_base = Len(maps)
    /\ maps # << >> => maps[1] = 1
    /\ mainPc \in {"create", "load", "ready", "exec", "close_sdl"} => maps # << >>

Single == \A t, u \in Created : t = u

(* Of a single thread the buffer holds an event at least as late as the    *)
(* interrupt that is pending and the one that is served                    *)
BufferAhead ==
  Single =>
    /\ serving <= scan_code_buf /\ raised <= scan_code_buf /\ scan_code_buf <= keys
    /\ \A t \in Created :
         /\ threads[t] = "store" => scan_code_buf <= event[t] /\ event[t] <= keys
         /\ threads[t] = "raise" => event[t] = scan_code_buf

IInv == TypeOK /\ UpKnown /\ MapPerThread /\ BufferAhead

LEMMA InvInit == Init => IInv
<1> SUFFICES ASSUME Init PROVE IInv
  OBVIOUS
<1>1. Created = {} /\ Up = {}
  BY DEF Init, Created, Up
<1>2. UpKnown
  BY <1>1 DEF UpKnown, Init
<1>3. MapPerThread
  BY <1>1, SdlAssumption DEF MapPerThread, Init, Ending, None
<1>4. BufferAhead
  BY <1>1 DEF BufferAhead, Init, None
<1> QED BY <1>2, <1>3, <1>4, TypeInit DEF IInv

(* A thread of its own for every mapping                                   *)
LEMMA CreatedNext ==
  ASSUME IInv, CreateThread
  PROVE  /\ Len(maps) \in Nat /\ Len(maps) > 0
         /\ Len(maps) \in Threads
         /\ threads' = [threads EXCEPT ![Len(maps)] = "init"]
         /\ Created = 1 .. Len(maps) - 1
         /\ Created' = 1 .. Len(maps)
         /\ Up' = Up
<1>1. mainPc = "create" /\ mainPc \notin Ending
  BY DEF CreateThread, Ending
<1>2. Created = 1 .. Len(maps) - 1 /\ Len(maps) + left <= NPrograms /\ maps # << >>
  BY <1>1, LenProperties, SdlAssumption DEF IInv, TypeOK, MapPerThread
<1>3. Len(maps) \in Nat /\ left \in Nat /\ NPrograms \in Nat /\ Len(maps) > 0
  BY <1>2, LenProperties, EmptySeq, SdlAssumption DEF IInv, TypeOK
<1>4. PICK k \in Nat : k = Len(maps) - 1
  BY <1>3
<1>5. Cardinality(1 .. k) = k
  <2>1. 1 \in Int /\ k \in Int
    BY <1>4
  <2>2. Cardinality(1 .. k) = IF 1 > k THEN 0 ELSE k - 1 + 1
    BY <2>1, FS_Interval
  <2> QED BY <1>4, <2>2
<1>6. Cardinality(Created) + 1 = Len(maps)
  <2>1. Created = 1 .. k
    BY <1>2, <1>4
  <2> QED BY <1>3, <1>4, <1>5, <2>1
<1>7. Len(maps) \in Threads
  BY <1>2, <1>3 DEF Threads
<1>8. threads' = [threads EXCEPT ![Len(maps)] = "init"]
  BY <1>6 DEF CreateThread
<1>9. Created' = Created \union {Len(maps)}
  BY <1>7, <1>8 DEF Created, IInv, TypeOK
<1>10. Len(maps) \notin Created
  BY <1>2, <1>3
<1>11. Up' = Up
  BY <1>7, <1>8, <1>10 DEF Up, Created, IInv, TypeOK
<1> QED BY <1>2, <1>3, <1>7, <1>8, <1>9, <1>11

(* The thread steps create none, and end one only at the very end          *)
LEMMA CreatedStays ==
  ASSUME TypeOK, NEW t \in Threads, ThreadStep(t)
  PROVE  Created' = Created /\ t \in Created
<1>1. PICK place \in {"init", "tick", "poll", "store", "raise", "gone"} :
        threads' = [threads EXCEPT ![t] = place]
  <2>1. CASE PollQuit(t)
    BY <2>1 DEF PollQuit, At, sdl, TypeOK
  <2>2. CASE ~ PollQuit(t)
    BY <2>2 DEF ThreadStep, Started, Tick, PollKey, Store, Raise, Delay, Leave, Goto
  <2> QED BY <2>1, <2>2
<1>2. threads[t] # "none"
  BY DEF ThreadStep, Started, Tick, PollKey, Store, Raise, PollQuit, Delay, Leave, At
<1> QED BY <1>1, <1>2 DEF Created, TypeOK

LEMMA UpNext ==
  ASSUME IInv, [Next]_vars
  PROVE  UpKnown'
<1> USE DEF IInv, main, sdl, video, keyboard, Ending
<1>1. CASE MainStep /\ ~ CreateThread /\ ~ close_sdl
  <2>1. UNCHANGED sdl
    BY <1>1 DEF MainStep, Restart, InitSdl, InitVga, MapFails, Load, ExecStart, TakeKey,
                ReadKey, NemuTrap, ExecReturn, Return
  <2>2. mainPc \in Ending => mainPc' \in Ending \union {"exit"}
    BY <1>1 DEF MainStep, Restart, InitSdl, InitVga, MapFails, Load, ExecStart, TakeKey,
                ReadKey, NemuTrap, ExecReturn, Return
  <2>3. Up' = Up
    BY <2>1 DEF Up, Created
  <2> QED BY <2>1, <2>2, <2>3 DEF UpKnown
<1>2. CASE CreateThread
  <2>1. Up' = Up /\ initialized' = initialized /\ mainPc \notin Ending
    BY <1>2, CreatedNext DEF CreateThread
  <2> QED BY <2>1 DEF UpKnown
<1>3. CASE close_sdl
  BY <1>3 DEF close_sdl, UpKnown
<1>4. ASSUME NEW t \in Threads, ThreadStep(t) PROVE UpKnown'
  <2>1. CASE Started(t)
    <3>1. threads' = [threads EXCEPT ![t] = "tick"] /\ initialized' = TRUE
      BY <2>1 DEF Started, Goto
    <3>2. t \in Up'
      BY <3>1 DEF Up, Created, TypeOK
    <3> QED BY <3>1, <3>2 DEF UpKnown
  <2>2. CASE ~ Started(t)
    <3>1. UNCHANGED <<initialized, mainPc>>
      BY <1>4, <2>2 DEF ThreadStep, Tick, PollKey, Store, Raise, PollQuit, Delay, Leave
    <3>2. t \in Up
      BY <1>4, <2>2 DEF ThreadStep, Tick, PollKey, Store, Raise, PollQuit, Delay, Leave,
                        At, Up, Created
    <3>3. initialized => threads'[t] \notin {"none", "init"}
      <4>1. threads' = threads \/ \E place \in {"tick", "poll", "store", "raise", "gone"} :
                                    threads' = [threads EXCEPT ![t] = place]
        BY <1>4, <2>2 DEF ThreadStep, Tick, PollKey, Store, Raise, PollQuit, Delay, Leave, Goto
      <4> QED BY <3>2, <4>1 DEF Up, Created, TypeOK
    <3>4. initialized => t \in Up'
      BY <3>3 DEF Up, Created
    <3> QED BY <3>1, <3>2, <3>4 DEF UpKnown
  <2> QED BY <2>1, <2>2
<1>5. CASE UNCHANGED vars
  BY <1>5 DEF vars, UpKnown, Up, Created
<1>6. MainStep \/ (\E t \in Threads : ThreadStep(t)) \/ UNCHANGED vars
  BY DEF Next
<1> QED BY <1>1, <1>2, <1>3, <1>4, <1>5, <1>6

LEMMA MapNext ==
  ASSUME IInv, [Next]_vars
  PROVE  MapPerThread'
<1> USE DEF IInv, main, sdl, video, keyboard, Ending
<1>0. Len(maps) \in Nat /\ left \in Nat /\ NPrograms \in Nat
  BY LenProperties, SdlAssumption DEF TypeOK
<1>1. CASE MainStep /\ ~ InitVga /\ ~ CreateThread
  <2>1. UNCHANGED <<threads, video>>
    BY <1>1 DEF MainStep, Restart, InitSdl, MapFails, Load, ExecStart, TakeKey, ReadKey,
                NemuTrap, ExecReturn, close_sdl, Return
  <2>2. Created' = Created
    BY <2>1 DEF Created
  <2>3. CASE Restart
    BY <1>0, <2>1, <2>2, <2>3 DEF Restart, MapPerThread
  <2>4. CASE Load \/ ExecStart \/ TakeKey \/ ReadKey \/ NemuTrap \/ ExecReturn
    BY <1>0, <2>1, <2>2, <2>4 DEF Load, ExecStart, TakeKey, ReadKey, NemuTrap, ExecReturn, MapPerThread
  <2>5. CASE close_sdl \/ Return
    BY <2>5 DEF close_sdl, Return, MapPerThread
  <2>6. CASE MapFails
    BY <1>0, <2>1, <2>2, <2>6 DEF MapFails, MapPerThread
  <2>7. CASE InitSdl
    <3>1. /\ mainPc = "init_sdl" /\ mainPc' \in {"load", "init_vga"} /\ left' = left
          /\ mainPc' = "load" => initialized
      BY <2>7 DEF InitSdl
    <3>2. initialized => maps # << >>
      <4>1. initialized => Created # {}
        BY DEF UpKnown, Up
      <4>2. Created = 1 .. Len(maps)
        <5>1. Created = 1 .. Len(maps) - 0
          BY <3>1 DEF MapPerThread
        <5> QED BY <1>0, <5>1
      <4>3. maps = << >> => 1 .. Len(maps) = {}
        BY EmptySeq
      <4> QED BY <4>1, <4>2, <4>3
    <3>3. UNCHANGED <<vmem_base, maps>> /\ mainPc \notin Ending /\ mainPc' \notin {"create", "init_sdl"}
      BY <2>1, <3>1
    <3>4. /\ Created' = 1 .. Len(maps) - 0
          /\ Len(maps) + left + 1 <= NPrograms
          /\ vmem_base = Len(maps)
          /\ maps # << >> => maps[1] = 1
      BY <2>2, <3>1, <3>3 DEF MapPerThread
    <3> QED BY <1>0, <3>1, <3>2, <3>3, <3>4 DEF MapPerThread
  <2> QED BY <1>1, <2>3, <2>4, <2>5, <2>6, <2>7 DEF MainStep
<1>2. CASE InitVga
  <2>1. MapFits /\ MapVideo /\ mainPc = "init_vga" /\ mainPc' = "create" /\ left' = left
        /\ threads' = threads
    BY <1>2 DEF InitVga
  <2>2. Created' = Created /\ Created = 1 .. Len(maps)
    BY <1>0, <2>1 DEF Created, MapPerThread
  <2>3. /\ Len(maps') = Len(maps) + 1 /\ vmem_base' = Len(maps')
        /\ \A i \in 1 .. Len(maps) : maps'[i] = maps[i]
        /\ maps'[Len(maps')] = Len(maps')
    BY <2>1, MapTyped
  <2>4. maps'[1] = 1
    <3>1. CASE Len(maps) = 0
      BY <2>3, <3>1
    <3>2. CASE Len(maps) # 0
      <4>1. maps # << >> /\ 1 \in 1 .. Len(maps)
        BY <1>0, <3>2, EmptySeq
      <4> QED BY <2>1, <2>3, <4>1 DEF MapPerThread
    <3> QED BY <3>1, <3>2
  <2>5. maps' # << >>
    BY <1>0, <2>3, EmptySeq
  <2> QED BY <1>0, <2>1, <2>2, <2>3, <2>4, <2>5 DEF MapPerThread
<1>6. CASE CreateThread
  <2>1. mainPc = "create" /\ mainPc' = "load" /\ UNCHANGED <<left, video>>
    BY <1>6 DEF CreateThread
  <2>2. Created' = 1 .. Len(maps) /\ maps # << >>
    BY <1>6, <2>1, CreatedNext DEF MapPerThread
  <2> QED BY <1>0, <2>1, <2>2 DEF MapPerThread
<1>3. ASSUME NEW t \in Threads, ThreadStep(t) PROVE MapPerThread'
  <2>1. CASE Leave(t)
    <3>1. t \in Up /\ ~initialized /\ mainPc' = mainPc
      BY <2>1 DEF Leave, At, Up, Created
    <3> QED BY <3>1 DEF UpKnown, MapPerThread
  <2>2. CASE ~ Leave(t)
    <3>1. UNCHANGED <<mainPc, left, video>>
      BY <1>3, <2>2 DEF ThreadStep, Started, Tick, PollKey, Store, Raise, PollQuit, Delay
    <3>2. Created' = Created
      BY <1>3, CreatedStays
    <3> QED BY <3>1, <3>2 DEF MapPerThread
  <2> QED BY <2>1, <2>2
<1>4. CASE UNCHANGED vars
  BY <1>4 DEF vars, MapPerThread, Created
<1>5. MainStep \/ (\E t \in Threads : ThreadStep(t)) \/ UNCHANGED vars
  BY DEF Next
<1> QED BY <1>1, <1>2, <1>3, <1>4, <1>5, <1>6

LEMMA BufferNext ==
  ASSUME IInv, [Next]_vars
  PROVE  BufferAhead'
<1> USE DEF IInv, main, sdl, video, keyboard
<1>1. /\ serving \in Nat /\ raised \in Nat /\ scan_code_buf \in Nat /\ keys \in Nat
      /\ \A t \in Threads : event[t] \in Nat
  BY SdlAssumption DEF TypeOK
<1>2. CASE MainStep /\ ~ CreateThread
  <2>1. UNCHANGED <<threads, event>> /\ UNCHANGED <<keys, scan_code_buf>>
    BY <1>2 DEF MainStep, Restart, InitSdl, InitVga, MapFails, Load, ExecStart, TakeKey,
                ReadKey, NemuTrap, ExecReturn, close_sdl, Return
  <2>2. serving' \in {serving, raised, None} /\ raised' \in {raised, None}
    BY <1>2 DEF MainStep, Restart, InitSdl, InitVga, MapFails, Load, ExecStart, TakeKey,
                ReadKey, NemuTrap, ExecReturn, close_sdl, Return
  <2>3. Created' = Created
    BY <2>1 DEF Created
  <2> QED BY <1>1, <2>1, <2>2, <2>3 DEF BufferAhead, Single, None
<1>3. CASE CreateThread
  <2>1. UNCHANGED <<event, keyboard>>
    BY <1>3 DEF CreateThread
  <2>2. /\ Len(maps) \in Nat /\ Len(maps) > 0 /\ Len(maps) \in Threads
        /\ Created = 1 .. Len(maps) - 1 /\ Created' = 1 .. Len(maps)
        /\ threads'[Len(maps)] = "init"
    BY <1>3, CreatedNext DEF TypeOK
  <2>3. CASE Len(maps) = 1
    <3>1. Single /\ \A t \in Created' : threads'[t] = "init"
      BY <2>2, <2>3 DEF Single
    <3> QED BY <2>1, <3>1 DEF BufferAhead
  <2>4. CASE Len(maps) # 1
    <3>1. PICK k \in Nat : k = Len(maps)
      BY <2>2
    <3>2. k >= 2 /\ 1 \in 1 .. k /\ 2 \in 1 .. k
      BY <2>2, <2>4, <3>1
    <3>3. 1 \in Created' /\ 2 \in Created'
      BY <2>2, <3>1, <3>2
    <3>4. ~Single'
      BY <3>3 DEF Single
    <3> QED BY <3>4 DEF BufferAhead
  <2> QED BY <2>3, <2>4
<1>4. ASSUME NEW t \in Threads, ThreadStep(t) PROVE BufferAhead'
  <2>1. Created' = Created /\ t \in Created
    BY <1>4, CreatedStays
  <2> SUFFICES ASSUME Single
               PROVE  /\ serving' <= scan_code_buf' /\ raised' <= scan_code_buf'
                      /\ scan_code_buf' <= keys'
                      /\ threads'[t] = "store" => scan_code_buf' <= event'[t] /\ event'[t] <= keys'
                      /\ threads'[t] = "raise" => event'[t] = scan_code_buf'
    BY <2>1 DEF BufferAhead, Single
  <2>2. /\ serving <= scan_code_buf /\ raised <= scan_code_buf /\ scan_code_buf <= keys
        /\ threads[t] = "store" => scan_code_buf <= event[t] /\ event[t] <= keys
        /\ threads[t] = "raise" => event[t] = scan_code_buf
    BY <2>1 DEF BufferAhead
  <2> USE DEF At, Goto, TypeOK, None
  <2>3. CASE Started(t)
    BY <2>2, <2>3 DEF Started
  <2>4. CASE Tick(t)
    BY <1>1, <2>2, <2>4 DEF Tick
  <2>5. CASE PollKey(t)
    BY <1>1, <2>2, <2>5 DEF PollKey
  <2>6. CASE Store(t)
    BY <1>1, <2>2, <2>6 DEF Store
  <2>7. CASE Raise(t)
    BY <1>1, <2>2, <2>7 DEF Raise
  <2>8. CASE PollQuit(t)
    BY <2>2, <2>8 DEF PollQuit
  <2>9. CASE Delay(t)
    BY <2>2, <2>9 DEF Delay
  <2>10. CASE Leave(t)
    BY <2>2, <2>10 DEF Leave
  <2> QED BY <1>4, <2>3, <2>4, <2>5, <2>6, <2>7, <2>8, <2>9, <2>10 DEF ThreadStep
<1>5. CASE UNCHANGED vars
  BY <1>5 DEF vars, BufferAhead, Single, Created
<1>6. MainStep \/ (\E t \in Threads : ThreadStep(t)) \/ UNCHANGED vars
  BY DEF Next
<1> QED BY <1>2, <1>3, <1>4, <1>5, <1>6

(* The inductive invariant.                                                *)
THEOREM SdlInvariant == Spec => []IInv
<1>1. IInv /\ [Next]_vars => IInv'
  BY TypeNext, UpNext, MapNext, BufferNext DEF IInv
<1> QED BY <1>1, InvInit, PTL DEF Spec

-----------------------------------------------------------------------------
(* The theorems *)

LEMMA AtMostOneIsSingle ==
  ASSUME TypeOK, Cardinality(Created) <= 1
  PROVE  Single
<1>1. IsFiniteSet(Created) /\ Cardinality(Created) \in Nat
  <2>1. IsFiniteSet(1 .. NPrograms) /\ Created \in SUBSET (1 .. NPrograms)
    BY SdlAssumption, FS_Interval DEF Created, Threads
  <2> QED BY <2>1, FS_Subset, FS_CardinalityType
<1>2. CASE Cardinality(Created) = 0
  BY <1>1, <1>2, FS_EmptySet DEF Single
<1>3. CASE Cardinality(Created) = 1
  <2>1. \E t : Created = {t}
    BY <1>1, <1>3, FS_Singleton
  <2> QED BY <2>1 DEF Single
<1> QED BY <1>1, <1>2, <1>3

(* A single SDL thread never lets the guest's handler read a scan code     *)
(* older than the interrupt it serves, however its steps mix with those of *)
(* the machine: keyboard.c stores before it raises.                        *)
THEOREM KeysInOrder == Spec => []KeyNotOlder
<1>1. IInv => KeyNotOlder
  BY AtMostOneIsSingle DEF IInv, BufferAhead, KeyNotOlder
<1> QED BY <1>1, SdlInvariant, PTL

(* Programs that share a thread draw where the screen is copied from.      *)
THEOREM ScreenIsShared == Spec => []OneScreen
<1>1. ASSUME IInv PROVE OneScreen
  <2> SUFFICES ASSUME mainPc = "exec", Cardinality(Created) <= 1
               PROVE  maps # << >> /\ Head(maps) = vmem_base
    BY DEF OneScreen
  <2>1. /\ Created = 1 .. Len(maps) /\ vmem_base = Len(maps) /\ maps[1] = 1 /\ maps # << >>
        /\ maps \in Seq(1 .. MaxMaps) /\ Len(maps) \in Nat
    BY <1>1, LenProperties DEF IInv, MapPerThread, Ending, TypeOK
  <2>2. Single
    BY <1>1, AtMostOneIsSingle DEF IInv
  <2>3. Len(maps) = 1
    <3>1. Len(maps) # 0
      BY <2>1, EmptySeq
    <3>2. ASSUME Len(maps) >= 2 PROVE FALSE
      BY <2>1, <2>2, <3>2 DEF Single
    <3> QED BY <2>1, <3>1, <3>2
  <2> QED BY <2>1, <2>3
<1> QED BY <1>1, SdlInvariant, PTL

(* Once a thread is up with main outside of the window between init_sdl's  *)
(* test and SDL_CreateThread, no restart enters the window, creates a      *)
(* thread or maps the video memory, until NEMU ends (init_sdl,             *)
(* NEMU_SDL_Thread).                                                       *)
THEOREM NoOtherThread == Spec => NoThreadAfterUp
<1> DEFINE Settled == ~Creating' /\ Created' = Created /\ Len(maps') <= Len(maps)
<1>1. ASSUME IInv, [Next]_vars, Up # {}, ~Creating
      PROVE  Settled
  <2> USE DEF IInv, main, sdl, video, Creating
  <2>1. Len(maps) \in Nat
    BY <1>1, LenProperties DEF TypeOK
  <2>2. CASE InitSdl
    <3>1. initialized
      BY <1>1, <2>2 DEF InitSdl, UpKnown, Ending
    <3> QED BY <2>1, <2>2, <3>1 DEF InitSdl, Created
  <2>3. CASE MainStep /\ ~ InitSdl
    BY <1>1, <2>1, <2>3 DEF MainStep, Restart, InitVga, MapFails, CreateThread, Load, ExecStart,
       TakeKey, ReadKey, NemuTrap, ExecReturn, close_sdl, Return, Created
  <2>4. ASSUME NEW t \in Threads, ThreadStep(t)
        PROVE  Settled
    <3>1. Created' = Created
      BY <1>1, <2>4, CreatedStays
    <3>2. mainPc' = mainPc /\ (maps' = maps \/ maps' = << >>)
      BY <2>4 DEF ThreadStep, Started, Tick, PollKey, Store, Raise, PollQuit, Delay, Leave
    <3>3. Len(<< >>) = 0
      BY EmptySeq
    <3> QED BY <1>1, <2>1, <3>1, <3>2, <3>3
  <2>5. CASE UNCHANGED vars
    BY <1>1, <2>1, <2>5 DEF vars, Created
  <2>6. MainStep \/ (\E t \in Threads : ThreadStep(t)) \/ UNCHANGED vars
    BY <1>1 DEF Next
  <2> QED BY <2>2, <2>3, <2>4, <2>5, <2>6
<1>2. IInv /\ [Next]_vars => [Up # {} /\ ~Creating => Settled]_vars
  BY <1>1
<1> QED BY <1>2, SdlInvariant, PTL DEF Spec, NoThreadAfterUp

(***************************************************************************)
(* TypingGame: its clocks and interrupt flag, its list and the pool, and   *)
(* where the letters are, for every pool, screen, alphabet and lag.        *)
(***************************************************************************)

-----------------------------------------------------------------------------
(* The loop that catches up never runs past the tick it has read, which is *)
(* never behind now                                                        *)
ClocksTyped ==
  /\ lag \in 0 .. MaxLag
  /\ todo \in 0 .. lag
  /\ phase \in 0 .. Period - 1
  /\ pc \in {"hlt", "halted", "test", "keys", "tick", "move"}
  /\ pc \in {"keys", "tick", "move"} <=> todo > 0

GameInv == ClocksTyped /\ InterruptsOnOutsideKeys

LEMMA GameInvInit == GameInit => GameInv
BY GameAssumption DEF GameInit, GameInv, ClocksTyped, InterruptsOnOutsideKeys

LEMMA PhaseNext ==
  ASSUME phase \in 0 .. Period - 1
  PROVE  (phase + 1) % Period \in 0 .. Period - 1
BY GameAssumption

LEMMA GameInvNext == GameInv /\ [GameNext]_gameVars => GameInv'
<1> SUFFICES ASSUME GameInv, [GameNext]_gameVars PROVE GameInv'
  OBVIOUS
<1> USE DEF GameInv, ClocksTyped, InterruptsOnOutsideKeys, clock
<1>1. CASE TimerEvent
  BY <1>1, GameAssumption DEF TimerEvent, Interrupt
<1>2. ASSUME NEW key \in Keys, KeyboardEvent(key) PROVE GameInv'
  BY <1>2 DEF KeyboardEvent, Interrupt
<1>3. CASE Hlt \/ Test
  BY <1>3 DEF Hlt, Test
<1>4. CASE UpdateKeypress
  <2>1. /\ pc = "keys" /\ UNCHANGED clock
        /\ pc' = pc \/ (pc' = "tick" /\ IF_on' = TRUE)
    BY <1>4 DEF UpdateKeypress
  <2> QED BY <2>1
<1>5. ASSUME NEW t \in Letters, CreateNewLetter(t) PROVE GameInv'
  <2>1. pc = "tick" /\ pc' = "move" /\ UNCHANGED <<IF_on, clock>>
    BY <1>5 DEF CreateNewLetter
  <2> QED BY <2>1
<1>6. CASE NoNewLetter
  BY <1>6 DEF NoNewLetter
<1>7. CASE UpdateLetterPos
  <2>1. /\ pc = "move" /\ lag' = lag - 1 /\ todo' = todo - 1
        /\ phase' = (phase + 1) % Period /\ IF_on' = IF_on
        /\ pc' = IF todo' = 0 THEN "hlt" ELSE "tick"
    BY <1>7 DEF UpdateLetterPos
  <2>2. phase' \in 0 .. Period - 1
    BY <2>1, PhaseNext
  <2> QED BY <2>1, <2>2, GameAssumption
<1>8. CASE UNCHANGED gameVars
  BY <1>8 DEF gameVars
<1> QED BY <1>1, <1>2, <1>3, <1>4, <1>5, <1>6, <1>7, <1>8 DEF GameNext, Handlers, MainLoop

(* main_loop catches up with the tick it has read, no more and no less:    *)
(* target stays between now and tick.                                      *)
THEOREM ClocksAgree == GameSpec => []ClocksTyped
<1>1. GameInv => ClocksTyped
  BY DEF GameInv
<1> QED BY <1>1, GameInvInit, GameInvNext, PTL DEF GameSpec

(* Interrupts are on wherever main_loop waits or draws, also after a       *)
(* keypress has turned them off.                                           *)
THEOREM InterruptsStayOn == GameSpec => []InterruptsOnOutsideKeys
<1>1. GameInv => InterruptsOnOutsideKeys
  BY DEF GameInv
<1> QED BY <1>1, GameInvInit, GameInvNext, PTL DEF GameSpec

-----------------------------------------------------------------------------
(* Sequences of nodes *)

(* s names nodes, each once *)
Ordered(s) ==
  /\ s \in Seq(Nodes)
  /\ \A j, k \in 1 .. Len(s) : s[j] = s[k] => j = k

Members(s) == {s[k] : k \in 1 .. Len(s)}

(* The k-th node, NULL before the first and behind the last *)
Nth(s, k) == IF k \in 1 .. Len(s) THEN s[k] ELSE NULL

Pushed(n, s) == [k \in 1 .. Len(s) + 1 |-> IF k = 1 THEN n ELSE s[k - 1]]
Without(s, j) == [k \in 1 .. Len(s) - 1 |-> IF k < j THEN s[k] ELSE s[k + 1]]

LEMMA GameSizes ==
  /\ SIZE \in Nat \ {0} /\ Rise \in Nat \ {0} /\ Period \in Nat \ {0} /\ Bottom \in Nat
  /\ Nodes \subseteq Nat /\ NULL \notin Nodes /\ 0 \in Nodes
  BY GameAssumption DEF Nodes, NULL

LEMMA MakeSeq ==
  ASSUME NEW S, NEW m \in Nat, NEW g \in [1 .. m -> S]
  PROVE  g \in Seq(S) /\ Len(g) = m
<1>1. g \in Seq(S)
  BY SeqDef
<1>2. Len(g) \in Nat /\ DOMAIN g = 1 .. Len(g) /\ DOMAIN g = 1 .. m
  BY <1>1, LenProperties
<1> QED BY <1>1, <1>2

LEMMA OrderedTyped ==
  ASSUME NEW s, Ordered(s)
  PROVE  /\ Len(s) \in Nat /\ DOMAIN s = 1 .. Len(s) /\ s \in [1 .. Len(s) -> Nodes]
         /\ Members(s) \subseteq Nodes
         /\ s = << >> <=> Len(s) = 0
  BY LenProperties, EmptySeq DEF Ordered, Members

LEMMA PushedOrdered ==
  ASSUME NEW s, Ordered(s), NEW n \in Nodes, n \notin Members(s)
  PROVE  /\ Ordered(Pushed(n, s)) /\ Len(Pushed(n, s)) = Len(s) + 1
         /\ Pushed(n, s)[1] = n
         /\ \A k \in 1 .. Len(s) : Pushed(n, s)[k + 1] = s[k]
         /\ Members(Pushed(n, s)) = Members(s) \union {n}
<1>1. Len(s) \in Nat /\ s \in [1 .. Len(s) -> Nodes]
  BY OrderedTyped
<1> DEFINE t == Pushed(n, s)
<1>2. t \in [1 .. Len(s) + 1 -> Nodes]
  BY <1>1 DEF Pushed
<1>3. t \in Seq(Nodes) /\ Len(t) = Len(s) + 1
  BY <1>1, <1>2, MakeSeq
<1>4. t[1] = n /\ \A k \in 1 .. Len(s) : t[k + 1] = s[k]
  BY <1>1 DEF Pushed
<1>5. \A k \in 1 .. Len(t) : t[k] = IF k = 1 THEN n ELSE s[k - 1]
  BY <1>1, <1>3 DEF Pushed
<1> HIDE DEF t
<1>6. \A k \in 1 .. Len(t) : k # 1 => k - 1 \in 1 .. Len(s)
  BY <1>1, <1>3
<1>7. ASSUME NEW j \in 1 .. Len(t), NEW k \in 1 .. Len(t), t[j] = t[k] PROVE j = k
  <2>1. ASSUME NEW i \in 1 .. Len(s) PROVE s[i] # n
    BY DEF Members
  <2>2. CASE j = 1 \/ k = 1
    BY <1>5, <1>6, <1>7, <2>1, <2>2
  <2>3. CASE j # 1 /\ k # 1
    <3>1. j - 1 \in 1 .. Len(s) /\ k - 1 \in 1 .. Len(s) /\ s[j - 1] = s[k - 1]
      BY <1>5, <1>6, <1>7, <2>3
    <3>2. j - 1 = k - 1
      BY <3>1 DEF Ordered
    <3> QED BY <1>1, <1>3, <3>2
  <2> QED BY <2>2, <2>3
<1>8. Members(t) = Members(s) \union {n}
  <2>1. ASSUME NEW k \in 1 .. Len(t) PROVE t[k] \in Members(s) \union {n}
    BY <1>5, <1>6 DEF Members
  <2>2. ASSUME NEW k \in 1 .. Len(s) PROVE s[k] \in Members(t)
    <3>1. k + 1 \in 1 .. Len(t)
      BY <1>1, <1>3
    <3> QED BY <3>1, <1>4 DEF Members
  <2>3. n \in Members(t)
    <3>1. 1 \in 1 .. Len(t)
      BY <1>1, <1>3
    <3> QED BY <3>1, <1>4 DEF Members
  <2> QED BY <2>1, <2>2, <2>3 DEF Members
<1> QED BY <1>3, <1>4, <1>7, <1>8 DEF Ordered, t

LEMMA WithoutOrdered ==
  ASSUME NEW s, Ordered(s), NEW j \in 1 .. Len(s)
  PROVE  /\ Ordered(Without(s, j)) /\ Len(Without(s, j)) = Len(s) - 1
         /\ \A k \in 1 .. Len(s) - 1 : Without(s, j)[k] = IF k < j THEN s[k] ELSE s[k + 1]
         /\ Members(Without(s, j)) = Members(s) \ {s[j]}
<1>1. Len(s) \in Nat /\ s \in [1 .. Len(s) -> Nodes] /\ Len(s) - 1 \in Nat
  BY OrderedTyped
<1> DEFINE t == Without(s, j)
<1>2. t \in [1 .. Len(s) - 1 -> Nodes]
  BY <1>1 DEF Without
<1>3. t \in Seq(Nodes) /\ Len(t) = Len(s) - 1
  BY <1>1, <1>2, MakeSeq
<1>4. \A k \in 1 .. Len(s) - 1 : t[k] = IF k < j THEN s[k] ELSE s[k + 1]
  BY DEF Without
<1> HIDE DEF t
<1>5. ASSUME NEW i \in 1 .. Len(t), NEW k \in 1 .. Len(t), t[i] = t[k] PROVE i = k
  <2> DEFINE a == IF i < j THEN i ELSE i + 1
             b == IF k < j THEN k ELSE k + 1
  <2>1. a \in 1 .. Len(s) /\ b \in 1 .. Len(s) /\ (a = b => i = k)
    BY <1>1, <1>3
  <2>2. t[i] = s[a] /\ t[k] = s[b]
    BY <1>3, <1>4
  <2> HIDE DEF a, b
  <2> QED BY <1>5, <2>1, <2>2 DEF Ordered
<1>6. Members(t) = Members(s) \ {s[j]}
  <2>1. ASSUME NEW k \in 1 .. Len(t) PROVE t[k] \in Members(s) \ {s[j]}
    <3> DEFINE b == IF k < j THEN k ELSE k + 1
    <3>1. b \in 1 .. Len(s) /\ b # j /\ t[k] = s[b]
      BY <1>1, <1>3, <1>4
    <3> HIDE DEF b
    <3> QED BY <3>1 DEF Ordered, Members
  <2>2. ASSUME NEW i \in 1 .. Len(s), s[i] # s[j] PROVE s[i] \in Members(t)
    <3>1. CASE i < j
      <4>1. i \in 1 .. Len(t) /\ t[i] = s[i]
        BY <1>1, <1>3, <1>4, <3>1
      <4> QED BY <4>1 DEF Members
    <3>2. CASE ~ (i < j)
      <4>1. i # j
        BY <2>2
      <4>2. i - 1 \in 1 .. Len(t) /\ ~ (i - 1 < j) /\ (i - 1) + 1 = i
        BY <1>1, <1>3, <3>2, <4>1
      <4>3. t[i - 1] = s[i]
        BY <1>3, <1>4, <4>2
      <4> QED BY <4>2, <4>3 DEF Members
    <3> QED BY <3>1, <3>2
  <2> QED BY <2>1, <2>2 DEF Members
<1> QED BY <1>3, <1>4, <1>5, <1>6 DEF Ordered, t

(* There are not more nodes in a sequence than in the pool *)
LEMMA OrderedFits ==
  ASSUME NEW s, Ordered(s)
  PROVE  /\ Len(s) <= SIZE + 1
         /\ IsFiniteSet(Members(s)) /\ Cardinality(Members(s)) = Len(s)
<1>1. Len(s) \in Nat /\ s \in [1 .. Len(s) -> Nodes] /\ Members(s) \subseteq Nodes
  BY OrderedTyped
<1>2. s \in Injection(1 .. Len(s), Nodes)
  BY <1>1 DEF Injection, IsInjective, Ordered
<1>3. s \in Bijection(1 .. Len(s), Members(s))
  <2>1. s \in [1 .. Len(s) -> Members(s)]
    BY <1>1 DEF Members
  <2>2. s \in Surjection(1 .. Len(s), Members(s))
    BY <2>1 DEF Members, Surjection
  <2>3. s \in Injection(1 .. Len(s), Members(s))
    BY <2>1 DEF Injection, IsInjective, Ordered
  <2> QED BY <2>2, <2>3 DEF Bijection
<1>4. IsFiniteSet(Nodes) /\ Cardinality(Nodes) = SIZE + 1
  BY FS_Interval, GameSizes DEF Nodes
<1>5. IsFiniteSet(1 .. Len(s)) /\ Cardinality(1 .. Len(s)) = Len(s)
  BY FS_Interval, <1>1
<1>6. Len(s) <= SIZE + 1
  BY <1>2, <1>4, <1>5, FS_Injection
<1>7. ExistsBijection(1 .. Len(s), Members(s))
  BY <1>3 DEF ExistsBijection
<1> QED BY <1>5, <1>6, <1>7, FS_Bijection

-----------------------------------------------------------------------------
(* The list, pointer by pointer *)

ListType ==
  [head : Nodes \union {NULL}, free_head : Nodes \union {NULL},
   next : [Nodes -> Nodes \union {NULL}], prev : [Nodes -> Nodes \union {NULL}]]

(* From p on next leads through s *)
Threaded(l, p, s) ==
  /\ Ordered(s) /\ p = Nth(s, 1)
  /\ \A k \in 1 .. Len(s) : l.next[s[k]] = Nth(s, k + 1)

(* ... and prev leads back *)
ThreadedBack(l, s) == \A k \in 1 .. Len(s) : l.prev[s[k]] = Nth(s, k - 1)

LEMMA WalkDef ==
  ASSUME NEW l \in ListType, NEW p \in Nodes \union {NULL}
  PROVE  /\ Walk(l, p)[1] = p
         /\ \A k \in 1 .. SIZE :
              Walk(l, p)[k + 1] = IF Walk(l, p)[k] = NULL THEN NULL
                                  ELSE l.next[Walk(l, p)[k]]
<1> DEFINE D == Nodes \union {NULL}
           F == [i \in Nat |-> [n \in D |-> IF n = NULL THEN NULL ELSE l.next[n]]]
<1>1. F \in [Nat -> [D -> D]]
  <2>1. l.next \in [Nodes -> D]
    BY DEF ListType
  <2> QED BY <2>1
<1>2. PICK f \in [Nat -> D] : Iterates(f, p, F)
  <2> HIDE DEF F
  <2> QED BY <1>1, RecursiveFunction
<1> DEFINE V == [k \in 1 .. SIZE + 1 |-> f[k - 1]]
<1>3. ASSUME NEW k \in 1 .. SIZE + 1
      PROVE  V[k] = IF k = 1 THEN p
                    ELSE IF V[k - 1] = NULL THEN NULL ELSE l.next[V[k - 1]]
  <2>1. CASE k = 1
    BY <1>2, <2>1 DEF Iterates
  <2>2. CASE k # 1
    <3>1. k - 2 \in Nat /\ k - 1 \in 1 .. SIZE + 1 /\ (k - 2) + 1 = k - 1 /\ (k - 1) - 1 = k - 2
      BY <2>2, GameSizes
    <3>2. f[k - 1] = F[k - 2][f[k - 2]] /\ f[k - 2] \in D
      BY <1>2, <3>1 DEF Iterates
    <3>3. V[k] = f[k - 1] /\ V[k - 1] = f[k - 2]
      BY <3>1
    <3> QED BY <2>2, <3>1, <3>2, <3>3
  <2> QED BY <2>1, <2>2
<1>4. V = [k \in 1 .. SIZE + 1 |-> IF k = 1 THEN p
             ELSE IF V[k - 1] = NULL THEN NULL ELSE l.next[V[k - 1]]]
  <2>1. V = [k \in 1 .. SIZE + 1 |-> V[k]]
    OBVIOUS
  <2> HIDE DEF V
  <2> QED BY <1>3, <2>1
<1>5. PICK U : U = Walk(l, p)
  OBVIOUS
<1>6. U = [k \in 1 .. SIZE + 1 |-> IF k = 1 THEN p
             ELSE IF U[k - 1] = NULL THEN NULL ELSE l.next[U[k - 1]]]
  <2> HIDE DEF V
  <2> QED BY <1>4, <1>5 DEF Walk
<1>7. U[1] = p
  <2>1. 1 \in 1 .. SIZE + 1
    BY GameSizes
  <2> QED BY <1>6, <2>1
<1>8. ASSUME NEW k \in 1 .. SIZE
      PROVE  U[k + 1] = IF U[k] = NULL THEN NULL ELSE l.next[U[k]]
  <2>1. k + 1 \in 1 .. SIZE + 1 /\ k + 1 # 1 /\ (k + 1) - 1 = k
    BY GameSizes
  <2> QED BY <1>6, <2>1
<1> QED BY <1>5, <1>7, <1>8

LEMMA AtTyped ==
  ASSUME NEW s, Ordered(s), NEW k \in Int
  PROVE  Nth(s, k) \in Nodes \union {NULL} /\ (Nth(s, k) # NULL <=> k \in 1 .. Len(s))
<1>1. s \in [1 .. Len(s) -> Nodes]
  BY OrderedTyped
<1> QED BY <1>1, GameSizes DEF Nth

(* What the loops over the list meet *)
LEMMA ChainIsThread ==
  ASSUME NEW l \in ListType, NEW p, NEW s, Threaded(l, p, s)
  PROVE  Chain(l, p) = s
<1>1. Ordered(s) /\ Len(s) \in Nat /\ Len(s) <= SIZE + 1 /\ s \in [1 .. Len(s) -> Nodes]
      /\ p \in Nodes \union {NULL}
  BY OrderedTyped, OrderedFits, AtTyped DEF Threaded
<1>2. PICK W : W = Walk(l, p)
  OBVIOUS
<1>3. /\ W[1] = p
      /\ \A k \in 1 .. SIZE : W[k + 1] = IF W[k] = NULL THEN NULL ELSE l.next[W[k]]
  BY <1>1, <1>2, WalkDef
<1> DEFINE S == {i \in Nat : i \in 1 .. SIZE + 1 => W[i] = Nth(s, i)}
<1>4. 0 \in S
  OBVIOUS
<1>5. ASSUME NEW i \in Nat, i \in S PROVE i + 1 \in S
  <2> SUFFICES ASSUME i + 1 \in 1 .. SIZE + 1 PROVE W[i + 1] = Nth(s, i + 1)
    OBVIOUS
  <2>1. CASE i = 0
    BY <2>1, <1>3 DEF Threaded
  <2>2. CASE i # 0
    <3>1. i \in 1 .. SIZE /\ i \in 1 .. SIZE + 1
      BY <2>2, GameSizes
    <3>2. W[i] = Nth(s, i) /\ W[i + 1] = IF W[i] = NULL THEN NULL ELSE l.next[W[i]]
      BY <1>3, <1>5, <3>1
    <3>3. CASE i \in 1 .. Len(s)
      <4>1. W[i] = s[i] /\ W[i] # NULL /\ l.next[s[i]] = Nth(s, i + 1)
        BY <1>1, <3>2, <3>3, GameSizes DEF Nth, Threaded
      <4> QED BY <3>2, <4>1
    <3>4. CASE i \notin 1 .. Len(s)
      <4>1. W[i] = NULL
        BY <3>2, <3>4 DEF Nth
      <4>2. i + 1 \notin 1 .. Len(s)
        BY <1>1, <3>4, <2>2
      <4> QED BY <3>2, <4>1, <4>2 DEF Nth
    <3> QED BY <3>3, <3>4
  <2> QED BY <2>1, <2>2
<1>6. Nat \subseteq S
  <2> HIDE DEF S
  <2> QED BY <1>4, <1>5, Induction
<1>7. ASSUME NEW k \in 1 .. SIZE + 1 PROVE W[k] = Nth(s, k)
  BY <1>6, GameSizes
<1>8. {k \in 1 .. SIZE + 1 : W[k] # NULL} = 1 .. Len(s)
  <2>1. ASSUME NEW k \in 1 .. SIZE + 1 PROVE W[k] # NULL <=> k \in 1 .. Len(s)
    BY <1>1, <1>7, AtTyped
  <2>2. 1 .. Len(s) \subseteq 1 .. SIZE + 1
    BY <1>1, GameSizes
  <2> QED BY <2>1, <2>2
<1>9. Cardinality(1 .. Len(s)) = Len(s)
  BY FS_Interval, <1>1
<1>10. Chain(l, p) = [k \in 1 .. Len(s) |-> W[k]]
  BY <1>2, <1>8, <1>9 DEF Chain
<1>11. ASSUME NEW k \in 1 .. Len(s) PROVE W[k] = s[k]
  <2>1. k \in 1 .. SIZE + 1
    BY <1>1, GameSizes
  <2> QED BY <1>7, <2>1 DEF Nth
<1> QED BY <1>1, <1>10, <1>11

LEMMA ListFields ==
  ASSUME NEW l \in ListType
  PROVE  /\ l.head \in Nodes \union {NULL} /\ l.free_head \in Nodes \union {NULL}
         /\ l.next \in [Nodes -> Nodes \union {NULL}] /\ l.prev \in [Nodes -> Nodes \union {NULL}]
         /\ l = [head |-> l.head, free_head |-> l.free_head, next |-> l.next, prev |-> l.prev]
  BY DEF ListType

LEMMA MakeList ==
  ASSUME NEW h \in Nodes \union {NULL}, NEW fr \in Nodes \union {NULL},
         NEW nx \in [Nodes -> Nodes \union {NULL}], NEW pv \in [Nodes -> Nodes \union {NULL}],
         NEW l, l = [head |-> h, free_head |-> fr, next |-> nx, prev |-> pv]
  PROVE  l \in ListType /\ l.head = h /\ l.free_head = fr /\ l.next = nx /\ l.prev = pv
  BY DEF ListType

LEMMA SetBothLinks ==
  ASSUME NEW a, NEW b, NEW c, NEW e, NEW nx, NEW pv, NEW l,
         l = [head |-> a, free_head |-> b, next |-> c, prev |-> e]
  PROVE  [l EXCEPT !.next = nx, !.prev = pv]
           = [head |-> a, free_head |-> b, next |-> nx, prev |-> pv]
<1> DEFINE k == [l EXCEPT !.next = nx]
<1>1. k = [head |-> a, free_head |-> b, next |-> nx, prev |-> e]
  OBVIOUS
<1>2. [k EXCEPT !.prev = pv] = [head |-> a, free_head |-> b, next |-> nx, prev |-> pv]
  <2> HIDE DEF k
  <2> QED BY <1>1
<1> QED BY <1>2

LEMMA SetNextAndFree ==
  ASSUME NEW a, NEW b, NEW c, NEW e, NEW nx, NEW n, NEW l,
         l = [head |-> a, free_head |-> b, next |-> c, prev |-> e]
  PROVE  [l EXCEPT !.next = nx, !.free_head = n]
           = [head |-> a, free_head |-> n, next |-> nx, prev |-> e]
<1> DEFINE k == [l EXCEPT !.next = nx]
<1>1. k = [head |-> a, free_head |-> b, next |-> nx, prev |-> e]
  OBVIOUS
<1>2. [k EXCEPT !.free_head = n] = [head |-> a, free_head |-> n, next |-> nx, prev |-> e]
  <2> HIDE DEF k
  <2> QED BY <1>1
<1> QED BY <1>2

LEMMA SetHead ==
  ASSUME NEW a, NEW b, NEW c, NEW e, NEW h, NEW l,
         l = [head |-> a, free_head |-> b, next |-> c, prev |-> e]
  PROVE  [l EXCEPT !.head = h] = [head |-> h, free_head |-> b, next |-> c, prev |-> e]
  OBVIOUS

LEMMA RemoveFields ==
  ASSUME NEW l \in ListType, NEW n \in Nodes
  PROVE  LET d == fly_remove(l, n)
         IN /\ d \in ListType /\ d.head = l.head /\ d.free_head = l.free_head
            /\ \A m \in Nodes : /\ d.next[m] = IF m = l.prev[n] THEN l.next[n] ELSE l.next[m]
                                /\ d.prev[m] = IF m = l.next[n] THEN l.prev[n] ELSE l.prev[m]
<1> DEFINE nx == [m \in Nodes |-> IF m = l.prev[n] THEN l.next[n] ELSE l.next[m]]
           pv == [m \in Nodes |-> IF m = l.next[n] THEN l.prev[n] ELSE l.prev[m]]
           d == fly_remove(l, n)
<1>1. /\ l.head \in Nodes \union {NULL} /\ l.free_head \in Nodes \union {NULL}
      /\ nx \in [Nodes -> Nodes \union {NULL}] /\ pv \in [Nodes -> Nodes \union {NULL}]
  BY ListFields
<1>2. d = [head |-> l.head, free_head |-> l.free_head, next |-> nx, prev |-> pv]
  <2>1. l = [head |-> l.head, free_head |-> l.free_head, next |-> l.next, prev |-> l.prev]
    BY ListFields
  <2>2. d = [l EXCEPT !.next = nx, !.prev = pv]
    BY DEF fly_remove
  <2> HIDE DEF d, nx, pv
  <2> QED BY <2>1, <2>2, SetBothLinks
<1>3. d \in ListType /\ d.head = l.head /\ d.free_head = l.free_head /\ d.next = nx /\ d.prev = pv
  <2> HIDE DEF d, nx, pv
  <2> QED BY <1>1, <1>2, MakeList
<1> QED BY <1>3

LEMMA FreeFields ==
  ASSUME NEW l \in ListType, NEW n \in Nodes
  PROVE  LET d == fly_free(l, n)
         IN /\ d \in ListType /\ d.head = l.head /\ d.free_head = n /\ d.prev = l.prev
            /\ \A m \in Nodes : d.next[m] = IF m = n THEN l.free_head ELSE l.next[m]
<1> DEFINE nx == [l.next EXCEPT ![n] = l.free_head]
           d == fly_free(l, n)
<1>1. /\ l.head \in Nodes \union {NULL} /\ l.prev \in [Nodes -> Nodes \union {NULL}]
      /\ nx \in [Nodes -> Nodes \union {NULL}]
      /\ \A m \in Nodes : nx[m] = IF m = n THEN l.free_head ELSE l.next[m]
  BY ListFields
<1>2. d = [head |-> l.head, free_head |-> n, next |-> nx, prev |-> l.prev]
  <2>1. l = [head |-> l.head, free_head |-> l.free_head, next |-> l.next, prev |-> l.prev]
    BY ListFields
  <2>2. d = [l EXCEPT !.next = nx, !.free_head = n]
    BY DEF fly_free
  <2> HIDE DEF d, nx
  <2> QED BY <2>1, <2>2, SetNextAndFree
<1>3. d \in ListType /\ d.head = l.head /\ d.free_head = n /\ d.next = nx /\ d.prev = l.prev
  <2> HIDE DEF d, nx
  <2> QED BY <1>1, <1>2, MakeList
<1> QED BY <1>1, <1>3

LEMMA DroppedFields ==
  ASSUME NEW l \in ListType, NEW n \in Nodes
  PROVE  LET d == Dropped(l, n)
         IN /\ d \in ListType
            /\ d.head = IF n = l.head THEN l.next[n] ELSE l.head
            /\ d.free_head = n
            /\ \A m \in Nodes :
                 /\ d.next[m] = IF m = n THEN l.free_head
                                ELSE IF m = l.prev[n] THEN l.next[n] ELSE l.next[m]
                 /\ d.prev[m] = IF m = l.next[n] THEN l.prev[n] ELSE l.prev[m]
<1>1. PICK a : a = fly_remove(l, n)
  OBVIOUS
<1>2. /\ a \in ListType /\ a.head = l.head /\ a.free_head = l.free_head
      /\ \A m \in Nodes : /\ a.next[m] = IF m = l.prev[n] THEN l.next[n] ELSE l.next[m]
                          /\ a.prev[m] = IF m = l.next[n] THEN l.prev[n] ELSE l.prev[m]
  BY <1>1, RemoveFields
<1>3. PICK b : b = fly_free(a, n)
  OBVIOUS
<1>4. /\ b \in ListType /\ b.head = a.head /\ b.free_head = n /\ b.prev = a.prev
      /\ \A m \in Nodes : b.next[m] = IF m = n THEN a.free_head ELSE a.next[m]
  BY <1>2, <1>3, FreeFields
<1>5. Dropped(l, n) = IF n = l.head THEN [b EXCEPT !.head = l.next[n]] ELSE b
  BY <1>1, <1>3 DEF Dropped
<1>6. l.next[n] \in Nodes \union {NULL}
  BY ListFields
<1>7. PICK d : d = Dropped(l, n)
  OBVIOUS
<1>8. /\ d \in ListType /\ d.head = IF n = l.head THEN l.next[n] ELSE l.head
      /\ d.free_head = n /\ d.next = b.next /\ d.prev = b.prev
  <2>1. CASE n = l.head
    <3>1. d = [head |-> l.next[n], free_head |-> b.free_head, next |-> b.next, prev |-> b.prev]
      <4>1. d = [b EXCEPT !.head = l.next[n]]
        BY <1>5, <1>7, <2>1
      <4>2. b = [head |-> b.head, free_head |-> b.free_head, next |-> b.next, prev |-> b.prev]
        BY <1>4, ListFields
      <4> QED BY <4>1, <4>2, SetHead
    <3>2. /\ b.free_head = n /\ n \in Nodes \union {NULL}
          /\ b.next \in [Nodes -> Nodes \union {NULL}] /\ b.prev \in [Nodes -> Nodes \union {NULL}]
      BY <1>4, ListFields
    <3>3. d \in ListType /\ d.head = l.next[n] /\ d.free_head = b.free_head
          /\ d.next = b.next /\ d.prev = b.prev
      BY <1>6, <3>1, <3>2, MakeList
    <3> QED BY <2>1, <3>2, <3>3
  <2>2. CASE n # l.head
    BY <1>2, <1>4, <1>5, <1>7, <2>2
  <2> QED BY <2>1, <2>2
<1> QED BY <1>2, <1>4, <1>7, <1>8

-----------------------------------------------------------------------------
(* The letters in flight and the free nodes share the pool *)

Lists(l, f, r) ==
  /\ l \in ListType
  /\ Threaded(l, l.head, f) /\ ThreadedBack(l, f)
  /\ Threaded(l, l.free_head, r) /\ Len(r) >= 1
  /\ Members(f) \intersect Members(r) = {} /\ Members(f) \union Members(r) = Nodes

LEMMA MemberAt ==
  ASSUME NEW s, Ordered(s), NEW q \in Members(s)
  PROVE  \E k \in 1 .. Len(s) : q = s[k]
  BY DEF Members

(* A letter leaves the list, its node becomes free, the others stay *)
LEMMA DroppedLists ==
  ASSUME NEW l, NEW f, NEW r, Lists(l, f, r), NEW j \in 1 .. Len(f)
  PROVE  Lists(Dropped(l, f[j]), Without(f, j), Pushed(f[j], r))
<1> DEFINE n == f[j]
           t == Without(f, j)
<1>1. /\ l \in ListType /\ Ordered(f) /\ Ordered(r)
      /\ Len(f) \in Nat /\ f \in [1 .. Len(f) -> Nodes] /\ Len(r) \in Nat /\ r \in [1 .. Len(r) -> Nodes]
      /\ Members(r) \subseteq Nodes
  BY OrderedTyped DEF Lists, Threaded
<1>2. n \in Nodes /\ n \in Members(f) /\ n \notin Members(r)
  BY <1>1 DEF Lists, Members
<1>3. l.next[n] = Nth(f, j + 1) /\ l.prev[n] = Nth(f, j - 1)
  BY DEF Lists, Threaded, ThreadedBack
<1>4. PICK d : d = Dropped(l, n)
  OBVIOUS
<1>5. /\ d \in ListType
      /\ d.head = IF n = l.head THEN Nth(f, j + 1) ELSE l.head
      /\ d.free_head = n
  BY <1>1, <1>2, <1>3, <1>4, DroppedFields
<1>6. ASSUME NEW m \in Nodes
      PROVE  /\ d.next[m] = IF m = n THEN l.free_head
                            ELSE IF m = Nth(f, j - 1) THEN Nth(f, j + 1) ELSE l.next[m]
             /\ d.prev[m] = IF m = Nth(f, j + 1) THEN Nth(f, j - 1) ELSE l.prev[m]
  BY <1>1, <1>2, <1>3, <1>4, DroppedFields
<1>7. /\ Ordered(t) /\ Len(t) = Len(f) - 1
      /\ \A k \in 1 .. Len(f) - 1 : t[k] = IF k < j THEN f[k] ELSE f[k + 1]
      /\ Members(t) = Members(f) \ {n}
  BY <1>1, WithoutOrdered
<1> HIDE DEF t
<1>8. \A i, k \in 1 .. Len(f) : f[i] = f[k] => i = k
  BY <1>1 DEF Ordered
<1>9. ASSUME NEW k \in 1 .. Len(f), NEW i \in Int PROVE f[k] = Nth(f, i) <=> i = k
  <2>1. f[k] # NULL
    BY <1>1, GameSizes
  <2> QED BY <1>8, <2>1 DEF Nth
<1>10. ASSUME NEW k \in 1 .. Len(t)
       PROVE  d.next[t[k]] = Nth(t, k + 1) /\ d.prev[t[k]] = Nth(t, k - 1)
  <2>1. PICK i \in 1 .. Len(f) : i = IF k < j THEN k ELSE k + 1
    BY <1>1, <1>7
  <2>2. t[k] = f[i] /\ i # j /\ f[i] \in Nodes
    BY <1>1, <1>7, <2>1
  <2>3. f[i] # n /\ (f[i] = Nth(f, j - 1) <=> i = j - 1) /\ (f[i] = Nth(f, j + 1) <=> i = j + 1)
    BY <1>8, <1>9, <2>2
  <2>4. l.next[f[i]] = Nth(f, i + 1) /\ l.prev[f[i]] = Nth(f, i - 1)
    BY DEF Lists, Threaded, ThreadedBack
  <2>5. d.next[t[k]] = IF i = j - 1 THEN Nth(f, j + 1) ELSE Nth(f, i + 1)
    BY <1>6, <2>2, <2>3, <2>4
  <2>6. d.prev[t[k]] = IF i = j + 1 THEN Nth(f, j - 1) ELSE Nth(f, i - 1)
    BY <1>6, <2>2, <2>3, <2>4
  <2>7. ASSUME NEW e \in Int
        PROVE  Nth(t, e) = IF e < j THEN Nth(f, e) ELSE Nth(f, e + 1)
    BY <1>1, <1>7 DEF Nth
  <2>8. Nth(t, k + 1) = IF k + 1 < j THEN Nth(f, k + 1) ELSE Nth(f, (k + 1) + 1)
    BY <2>7
  <2>9. Nth(t, k - 1) = IF k - 1 < j THEN Nth(f, k - 1) ELSE Nth(f, (k - 1) + 1)
    BY <2>7
  <2>10. d.next[t[k]] = Nth(t, k + 1)
    <3>1. (k + 1) + 1 = k + 2
      OBVIOUS
    <3>2. CASE k < j - 1
      BY <2>1, <2>5, <2>8, <3>2
    <3>3. CASE k = j - 1
      <4>1. i = j - 1 /\ ~ (k + 1 < j) /\ (k + 1) + 1 = j + 1
        BY <2>1, <3>3
      <4> QED BY <2>5, <2>8, <4>1
    <3>4. CASE k > j - 1
      <4>1. i = k + 1 /\ i # j - 1 /\ ~ (k + 1 < j) /\ (k + 1) + 1 = i + 1
        BY <2>1, <3>4
      <4> QED BY <2>5, <2>8, <4>1
    <3> QED BY <3>2, <3>3, <3>4
  <2>11. d.prev[t[k]] = Nth(t, k - 1)
    <3>1. CASE k < j
      <4>1. i = k /\ i # j + 1 /\ k - 1 < j
        BY <2>1, <3>1
      <4> QED BY <2>6, <2>9, <4>1
    <3>2. CASE k = j
      <4>1. i = j + 1 /\ k - 1 < j
        BY <2>1, <3>2
      <4> QED BY <2>6, <2>9, <3>2, <4>1
    <3>3. CASE k > j
      <4>1. i = k + 1 /\ i # j + 1 /\ ~ (k - 1 < j) /\ (k - 1) + 1 = i - 1
        BY <2>1, <3>3
      <4> QED BY <2>6, <2>9, <4>1
    <3> QED BY <3>1, <3>2, <3>3
  <2> QED BY <2>10, <2>11
<1>11. d.head = Nth(t, 1)
  <2>1. l.head = Nth(f, 1)
    BY DEF Lists, Threaded
  <2>2. n = l.head <=> j = 1
    BY <1>9, <2>1
  <2>3. CASE j = 1
    BY <1>1, <1>5, <1>7, <2>2, <2>3 DEF Nth
  <2>4. CASE j # 1
    BY <1>1, <1>5, <1>7, <2>1, <2>2, <2>4 DEF Nth
  <2> QED BY <2>3, <2>4
<1>12. Threaded(d, d.head, t) /\ ThreadedBack(d, t)
  BY <1>7, <1>10, <1>11 DEF Threaded, ThreadedBack
<1> DEFINE u == Pushed(n, r)
<1>13. /\ Ordered(u) /\ Len(u) = Len(r) + 1 /\ u[1] = n
       /\ \A k \in 1 .. Len(r) : u[k + 1] = r[k]
       /\ Members(u) = Members(r) \union {n}
  BY <1>1, <1>2, PushedOrdered
<1> HIDE DEF u
<1>14. ASSUME NEW k \in 1 .. Len(u) PROVE d.next[u[k]] = Nth(u, k + 1)
  <2>1. CASE k = 1
    <3>1. d.next[u[k]] = l.free_head
      BY <1>2, <1>6, <1>13, <2>1
    <3>2. l.free_head = Nth(r, 1)
      BY DEF Lists, Threaded
    <3>3. 1 \in 1 .. Len(r) /\ u[2] = r[1] /\ 2 \in 1 .. Len(u)
      <4>1. 1 \in 1 .. Len(r) /\ 1 + 1 = 2
        BY <1>1 DEF Lists
      <4> QED BY <1>1, <1>13, <4>1
    <3> QED BY <2>1, <3>1, <3>2, <3>3 DEF Nth
  <2>2. CASE k # 1
    <3>1. PICK i \in 1 .. Len(r) : k = i + 1
      <4>1. k - 1 \in 1 .. Len(r) /\ k = (k - 1) + 1
        BY <1>1, <1>13, <2>2
      <4> QED BY <4>1
    <3>2. u[k] = r[i] /\ r[i] \in Nodes /\ r[i] \in Members(r) /\ r[i] # n
      BY <1>1, <1>2, <1>13, <3>1 DEF Members
    <3>3. r[i] # Nth(f, j - 1)
      <4>1. r[i] \notin Members(f)
        BY <3>2 DEF Lists
      <4> QED BY <3>2, <4>1, GameSizes DEF Nth, Members
    <3>4. d.next[u[k]] = Nth(r, i + 1)
      BY <1>6, <3>2, <3>3 DEF Lists, Threaded
    <3>5. Nth(u, k + 1) = Nth(r, i + 1)
      <4>1. k + 1 \in 1 .. Len(u) <=> i + 1 \in 1 .. Len(r)
        BY <1>1, <1>13, <3>1
      <4>2. i + 1 \in 1 .. Len(r) => u[k + 1] = r[i + 1]
        BY <1>13, <3>1
      <4> QED BY <4>1, <4>2 DEF Nth
    <3> QED BY <3>4, <3>5
  <2> QED BY <2>1, <2>2
<1>15. Threaded(d, d.free_head, u)
  <2>1. 1 \in 1 .. Len(u)
    BY <1>1, <1>13
  <2>2. d.free_head = Nth(u, 1)
    BY <1>5, <1>13, <2>1 DEF Nth
  <2> QED BY <1>13, <1>14, <2>2 DEF Threaded
<1>16. /\ Members(t) \intersect Members(u) = {} /\ Members(t) \union Members(u) = Nodes
       /\ Len(u) >= 1
  BY <1>1, <1>2, <1>7, <1>13 DEF Lists
<1> QED BY <1>4, <1>5, <1>12, <1>15, <1>16 DEF Lists, t, u

-----------------------------------------------------------------------------
(* A letter is created *)

LEMMA SetNew ==
  ASSUME NEW a, NEW b, NEW c, NEW e, NEW fr, NEW n, NEW l,
         l = [head |-> a, free_head |-> b, next |-> c, prev |-> e]
  PROVE  [l EXCEPT !.free_head = fr, !.next[n] = NULL, !.prev[n] = NULL]
           = [head |-> a, free_head |-> fr,
              next |-> [c EXCEPT ![n] = NULL], prev |-> [e EXCEPT ![n] = NULL]]
<1> DEFINE k == [l EXCEPT !.free_head = fr]
           i == [k EXCEPT !.next[n] = NULL]
<1>1. k = [head |-> a, free_head |-> fr, next |-> c, prev |-> e]
  OBVIOUS
<1>2. i = [head |-> a, free_head |-> fr, next |-> [c EXCEPT ![n] = NULL], prev |-> e]
  <2> HIDE DEF k
  <2> QED BY <1>1
<1>3. [i EXCEPT !.prev[n] = NULL]
        = [head |-> a, free_head |-> fr,
           next |-> [c EXCEPT ![n] = NULL], prev |-> [e EXCEPT ![n] = NULL]]
  <2> HIDE DEF i
  <2> QED BY <1>2
<1> QED BY <1>3

LEMMA NewFields ==
  ASSUME NEW l, NEW s \in ListType, s = Supplied(l), s.free_head \in Nodes
  PROVE  LET new == fly_new(l)
             obj == s.free_head
         IN /\ new \in ListType /\ new.head = s.head /\ new.free_head = s.next[obj]
            /\ \A m \in Nodes : /\ new.next[m] = IF m = obj THEN NULL ELSE s.next[m]
                                /\ new.prev[m] = IF m = obj THEN NULL ELSE s.prev[m]
<1> DEFINE obj == s.free_head
           nx == [s.next EXCEPT ![obj] = NULL]
           pv == [s.prev EXCEPT ![obj] = NULL]
<1>1. /\ s.head \in Nodes \union {NULL} /\ s.next[obj] \in Nodes \union {NULL}
      /\ nx \in [Nodes -> Nodes \union {NULL}] /\ pv \in [Nodes -> Nodes \union {NULL}]
      /\ \A m \in Nodes : /\ nx[m] = IF m = obj THEN NULL ELSE s.next[m]
                          /\ pv[m] = IF m = obj THEN NULL ELSE s.prev[m]
  BY ListFields
<1>2. PICK new : new = fly_new(l)
  OBVIOUS
<1>3. new = [head |-> s.head, free_head |-> s.next[obj], next |-> nx, prev |-> pv]
  <2>1. s = [head |-> s.head, free_head |-> s.free_head, next |-> s.next, prev |-> s.prev]
    BY ListFields
  <2>2. new = [s EXCEPT !.free_head = s.next[obj], !.next[obj] = NULL, !.prev[obj] = NULL]
    BY <1>2 DEF fly_new
  <2> QED BY <2>1, <2>2, SetNew
<1>4. new \in ListType /\ new.head = s.head /\ new.free_head = s.next[obj]
      /\ new.next = nx /\ new.prev = pv
  <2> DEFINE fr == s.next[obj]
  <2>1. /\ s.head \in Nodes \union {NULL} /\ fr \in Nodes \union {NULL}
        /\ nx \in [Nodes -> Nodes \union {NULL}] /\ pv \in [Nodes -> Nodes \union {NULL}]
        /\ new = [head |-> s.head, free_head |-> fr, next |-> nx, prev |-> pv]
    BY <1>1, <1>3
  <2> HIDE DEF nx, pv, fr
  <2>2. new \in ListType /\ new.head = s.head /\ new.free_head = fr
        /\ new.next = nx /\ new.prev = pv
    BY <2>1, MakeList
  <2> QED BY <2>2 DEF fr
<1> QED BY <1>1, <1>2, <1>4

LEMMA InsertFields ==
  ASSUME NEW l \in ListType, NEW h \in Nodes, NEW obj \in Nodes, h # obj,
         NEW d, d = fly_insert(l, NULL, h, obj)
  PROVE  /\ d \in ListType /\ d.head = l.head /\ d.free_head = l.free_head
         /\ d.next = [m \in Nodes |-> IF m = obj THEN h ELSE l.next[m]]
         /\ d.prev = [m \in Nodes |-> IF m = h THEN obj
                                      ELSE IF m = obj THEN NULL ELSE l.prev[m]]
<1> DEFINE nx == [m \in Nodes |-> IF m = NULL THEN obj ELSE IF m = obj THEN h ELSE l.next[m]]
           pv == [m \in Nodes |-> IF m = h THEN obj ELSE IF m = obj THEN NULL ELSE l.prev[m]]
<1>1. /\ l.head \in Nodes \union {NULL} /\ l.free_head \in Nodes \union {NULL}
      /\ nx \in [Nodes -> Nodes \union {NULL}] /\ pv \in [Nodes -> Nodes \union {NULL}]
  BY ListFields
<1>2. d = [head |-> l.head, free_head |-> l.free_head, next |-> nx, prev |-> pv]
  <2>1. l = [head |-> l.head, free_head |-> l.free_head, next |-> l.next, prev |-> l.prev]
    BY ListFields
  <2>2. d = [l EXCEPT !.next = nx, !.prev = pv]
    BY DEF fly_insert
  <2> HIDE DEF nx, pv
  <2> QED BY <2>1, <2>2, SetBothLinks
<1>3. d \in ListType /\ d.head = l.head /\ d.free_head = l.free_head /\ d.next = nx /\ d.prev = pv
  <2> HIDE DEF nx, pv
  <2> QED BY <1>1, <1>2, MakeList
<1>4. \A m \in Nodes : m # NULL
  BY GameSizes
<1> QED BY <1>3, <1>4

LEMMA CreatedFields ==
  ASSUME NEW l, NEW s \in ListType, s = Supplied(l), s.head = l.head,
         s.free_head \in Nodes, s.free_head # s.head
  PROVE  LET c == WithNewLetter(l)
             obj == s.free_head
         IN /\ c \in ListType /\ c.head = obj /\ c.free_head = s.next[obj]
            /\ \A m \in Nodes :
                 /\ c.next[m] = IF m = obj THEN s.head ELSE s.next[m]
                 /\ c.prev[m] = IF m = obj THEN NULL
                                ELSE IF m = s.head THEN obj ELSE s.prev[m]
<1> DEFINE obj == s.free_head
<1>1. PICK new : new = fly_new(l)
  OBVIOUS
<1>2. /\ new \in ListType /\ new.head = s.head /\ new.free_head = s.next[obj]
      /\ \A m \in Nodes : /\ new.next[m] = IF m = obj THEN NULL ELSE s.next[m]
                          /\ new.prev[m] = IF m = obj THEN NULL ELSE s.prev[m]
  BY <1>1, NewFields
<1>3. PICK k : k = IF l.head = NULL THEN new ELSE fly_insert(new, NULL, l.head, obj)
  OBVIOUS
<1>4. PICK c : c = [k EXCEPT !.head = obj]
  OBVIOUS
<1>5. c = WithNewLetter(l)
  BY <1>1, <1>3, <1>4 DEF WithNewLetter
<1>6. s.head \in Nodes \union {NULL}
  BY ListFields
<1>7. /\ k \in ListType /\ k.free_head = s.next[obj]
      /\ \A m \in Nodes :
           /\ k.next[m] = IF m = obj THEN s.head ELSE s.next[m]
           /\ k.prev[m] = IF m = obj THEN NULL
                          ELSE IF m = s.head THEN obj ELSE s.prev[m]
  <2>1. CASE s.head = NULL
    BY <1>2, <1>3, <2>1, GameSizes
  <2>2. CASE s.head # NULL
    <3>1. s.head \in Nodes /\ k = fly_insert(new, NULL, s.head, obj)
      BY <1>3, <1>6, <2>2
    <3>2. /\ k \in ListType /\ k.free_head = new.free_head
          /\ \A m \in Nodes : /\ k.next[m] = IF m = obj THEN s.head ELSE new.next[m]
                              /\ k.prev[m] = IF m = s.head THEN obj
                                             ELSE IF m = obj THEN NULL ELSE new.prev[m]
      <4>1. PICK h : h = s.head
        OBVIOUS
      <4>2. new \in ListType /\ h # obj /\ obj \in Nodes /\ h \in Nodes
            /\ k = fly_insert(new, NULL, h, obj)
        BY <1>2, <3>1, <4>1
      <4> HIDE DEF obj
      <4>3. /\ k \in ListType /\ k.free_head = new.free_head
            /\ \A m \in Nodes : /\ k.next[m] = IF m = obj THEN h ELSE new.next[m]
                                /\ k.prev[m] = IF m = h THEN obj
                                               ELSE IF m = obj THEN NULL ELSE new.prev[m]
        <5>1. /\ k \in ListType /\ k.free_head = new.free_head
              /\ k.next = [m \in Nodes |-> IF m = obj THEN h ELSE new.next[m]]
              /\ k.prev = [m \in Nodes |-> IF m = h THEN obj
                                           ELSE IF m = obj THEN NULL ELSE new.prev[m]]
          BY <4>2, InsertFields
        <5> QED BY <5>1
      <4> QED BY <4>1, <4>3
    <3> QED BY <1>2, <3>2
  <2> QED BY <2>1, <2>2
<1>8. c \in ListType /\ c.head = obj /\ c.free_head = k.free_head /\ c.next = k.next /\ c.prev = k.prev
  <2>1. c = [head |-> obj, free_head |-> k.free_head, next |-> k.next, prev |-> k.prev]
    <3>1. k = [head |-> k.head, free_head |-> k.free_head, next |-> k.next, prev |-> k.prev]
      BY <1>7, ListFields
    <3> QED BY <1>4, <3>1, SetHead
  <2>2. /\ obj \in Nodes \union {NULL} /\ k.free_head \in Nodes \union {NULL}
        /\ k.next \in [Nodes -> Nodes \union {NULL}] /\ k.prev \in [Nodes -> Nodes \union {NULL}]
    BY <1>7, ListFields
  <2> HIDE DEF obj
  <2> QED BY <2>1, <2>2, MakeList
<1> QED BY <1>5, <1>7, <1>8

LEMMA CreatedLists ==
  ASSUME NEW l, NEW s, s = Supplied(l), s.head = l.head,
         NEW f, NEW r, Lists(s, f, r), Len(r) >= 2
  PROVE  Lists(WithNewLetter(l), Pushed(r[1], f), Without(r, 1))
<1> DEFINE n == r[1]
           t == Pushed(n, f)
           u == Without(r, 1)
<1>1. /\ s \in ListType /\ Ordered(f) /\ Ordered(r)
      /\ Len(f) \in Nat /\ f \in [1 .. Len(f) -> Nodes] /\ Len(r) \in Nat /\ r \in [1 .. Len(r) -> Nodes]
      /\ Members(f) \subseteq Nodes
      /\ 1 \in 1 .. Len(r) /\ 2 \in 1 .. Len(r)
  BY OrderedTyped DEF Lists, Threaded
<1>2. /\ s.free_head = n /\ s.next[n] = Nth(r, 2) /\ s.head = Nth(f, 1)
      /\ n \in Nodes /\ n \in Members(r) /\ n \notin Members(f)
  <2>1. s.free_head = n /\ n \in Nodes /\ n \in Members(r) /\ s.head = Nth(f, 1)
    BY <1>1 DEF Lists, Threaded, Nth, Members
  <2>2. s.next[n] = Nth(r, 1 + 1)
    BY <1>1 DEF Lists, Threaded
  <2> QED BY <2>1, <2>2 DEF Lists
<1>3. n # Nth(f, 1)
  BY <1>2, GameSizes DEF Nth, Members
<1>4. PICK c : c = WithNewLetter(l)
  OBVIOUS
<1>5. /\ c \in ListType /\ c.head = n /\ c.free_head = Nth(r, 2)
      /\ \A m \in Nodes : /\ c.next[m] = IF m = n THEN Nth(f, 1) ELSE s.next[m]
                          /\ c.prev[m] = IF m = n THEN NULL
                                         ELSE IF m = Nth(f, 1) THEN n ELSE s.prev[m]
  <2>1. /\ s.free_head \in Nodes /\ s.free_head # s.head /\ s.free_head = n
        /\ s.next[s.free_head] = Nth(r, 2)
    BY <1>2, <1>3
  <2> HIDE DEF n
  <2>2. /\ c \in ListType /\ c.head = s.free_head /\ c.free_head = s.next[s.free_head]
        /\ \A m \in Nodes :
             /\ c.next[m] = IF m = s.free_head THEN s.head ELSE s.next[m]
             /\ c.prev[m] = IF m = s.free_head THEN NULL
                            ELSE IF m = s.head THEN s.free_head ELSE s.prev[m]
    BY <1>1, <1>4, <2>1, CreatedFields
  <2> QED BY <1>2, <2>1, <2>2
<1>6. /\ Ordered(t) /\ Len(t) = Len(f) + 1 /\ t[1] = n
      /\ \A k \in 1 .. Len(f) : t[k + 1] = f[k]
      /\ Members(t) = Members(f) \union {n}
  BY <1>1, <1>2, PushedOrdered
<1>7. /\ Ordered(u) /\ Len(u) = Len(r) - 1
      /\ \A k \in 1 .. Len(r) - 1 : u[k] = r[k + 1]
      /\ Members(u) = Members(r) \ {n}
  <2>1. \A k \in 1 .. Len(r) - 1 : ~ (k < 1)
    OBVIOUS
  <2> QED BY <1>1, <2>1, WithoutOrdered
<1> HIDE DEF t, u, n
<1>8. ASSUME NEW e \in Int, e >= 0 PROVE Nth(t, e + 1) = IF e = 0 THEN n ELSE Nth(f, e)
  <2>1. CASE e = 0
    BY <1>1, <1>6, <2>1 DEF Nth
  <2>2. CASE e # 0
    <3>1. e + 1 \in 1 .. Len(t) <=> e \in 1 .. Len(f)
      BY <1>1, <1>6, <1>8, <2>2
    <3>2. e \in 1 .. Len(f) => t[e + 1] = f[e]
      BY <1>6
    <3> QED BY <2>2, <3>1, <3>2 DEF Nth
  <2> QED BY <2>1, <2>2
<1>9. ASSUME NEW k \in 1 .. Len(t) PROVE c.next[t[k]] = Nth(t, k + 1) /\ c.prev[t[k]] = Nth(t, k - 1)
  <2>1. CASE k = 1
    <3>1. t[k] = n /\ c.next[n] = Nth(f, 1) /\ c.prev[n] = NULL
      BY <1>2, <1>5, <1>6, <2>1
    <3>2. Nth(t, 1 + 1) = Nth(f, 1)
      BY <1>8
    <3>3. Nth(t, k - 1) = NULL
      BY <2>1 DEF Nth
    <3> QED BY <2>1, <3>1, <3>2, <3>3
  <2>2. CASE k # 1
    <3>1. PICK i \in 1 .. Len(f) : k = i + 1
      <4>1. k - 1 \in 1 .. Len(f) /\ k = (k - 1) + 1
        BY <1>1, <1>6, <2>2
      <4> QED BY <4>1
    <3>2. t[k] = f[i] /\ f[i] \in Nodes /\ f[i] # n
      BY <1>1, <1>2, <1>6, <3>1 DEF Members
    <3>3. s.next[f[i]] = Nth(f, i + 1) /\ s.prev[f[i]] = Nth(f, i - 1)
      BY DEF Lists, Threaded, ThreadedBack
    <3>4. c.next[t[k]] = Nth(f, i + 1)
      BY <1>5, <3>2, <3>3
    <3>5. Nth(t, k + 1) = Nth(f, i + 1) /\ i + 1 = k
      <4>1. k \in Int /\ k >= 0 /\ k # 0
        OBVIOUS
      <4> QED BY <1>8, <4>1, <3>1
    <3>6. c.prev[t[k]] = IF i = 1 THEN n ELSE Nth(f, i - 1)
      <4>1. f[i] = Nth(f, 1) <=> i = 1
        BY <1>1 DEF Nth, Ordered
      <4> QED BY <1>5, <3>2, <3>3, <4>1
    <3>7. Nth(t, k - 1) = IF i = 1 THEN n ELSE Nth(f, i - 1)
      <4>1. i - 1 \in Int /\ i - 1 >= 0 /\ (i - 1) + 1 = k - 1 /\ (i - 1 = 0 <=> i = 1)
        BY <3>1
      <4> QED BY <1>8, <4>1
    <3> QED BY <3>4, <3>5, <3>6, <3>7
  <2> QED BY <2>1, <2>2
<1>10. Threaded(c, c.head, t) /\ ThreadedBack(c, t)
  <2>1. c.head = Nth(t, 1)
    BY <1>1, <1>5, <1>6 DEF Nth
  <2> QED BY <1>6, <1>9, <2>1 DEF Threaded, ThreadedBack
<1>11. ASSUME NEW k \in Int, k >= 1 PROVE Nth(u, k) = Nth(r, k + 1)
  <2>1. k \in 1 .. Len(u) <=> k + 1 \in 1 .. Len(r)
    BY <1>1, <1>7, <1>11
  <2>2. k \in 1 .. Len(u) => u[k] = r[k + 1]
    BY <1>7
  <2> QED BY <2>1, <2>2 DEF Nth
<1>12. Threaded(c, c.free_head, u)
  <2>1. ASSUME NEW k \in 1 .. Len(u) PROVE c.next[u[k]] = Nth(u, k + 1)
    <3>1. k + 1 \in 1 .. Len(r) /\ u[k] = r[k + 1] /\ u[k] \in Members(u)
      BY <1>1, <1>7 DEF Members
    <3>2. u[k] \in Nodes /\ u[k] # n
      BY <1>1, <1>7, <3>1
    <3>3. c.next[u[k]] = Nth(r, (k + 1) + 1)
      BY <1>5, <3>1, <3>2 DEF Lists, Threaded
    <3>4. Nth(u, k + 1) = Nth(r, (k + 1) + 1)
      BY <1>11
    <3> QED BY <3>3, <3>4
  <2>2. c.free_head = Nth(u, 1)
    <3>1. Nth(u, 1) = Nth(r, 1 + 1)
      BY <1>11
    <3> QED BY <1>5, <3>1
  <2> QED BY <1>7, <2>1, <2>2 DEF Threaded
<1>13. /\ Members(t) \intersect Members(u) = {} /\ Members(t) \union Members(u) = Nodes
       /\ Len(u) >= 1
  BY <1>1, <1>2, <1>6, <1>7 DEF Lists
<1> QED BY <1>4, <1>5, <1>10, <1>12, <1>13 DEF Lists, t, u, n

-----------------------------------------------------------------------------
(* The pool before its first use, and afterwards *)

Fresh(l) ==
  l \in ListType /\ l.head = NULL /\ l.free_head = NULL /\ \A m \in Nodes : l.next[m] = NULL

Pool(l) == Fresh(l) \/ \E f, r \in Seq(Nodes) : Lists(l, f, r)

LEMMA EmptyOrdered ==
  /\ Ordered(<< >>) /\ Len(<< >>) = 0 /\ Members(<< >>) = {}
  /\ \A k \in Int : Nth(<< >>, k) = NULL
<1>1. << >> \in Seq(Nodes) /\ Len(<< >>) = 0
  BY EmptySeq
<1> QED BY <1>1 DEF Ordered, Members, Nth

LEMMA EmptyThread ==
  ASSUME NEW l
  PROVE  Threaded(l, NULL, << >>) /\ ThreadedBack(l, << >>)
<1>1. 1 .. Len(<< >>) = {}
  BY EmptyOrdered
<1> QED BY <1>1, EmptyOrdered DEF Threaded, ThreadedBack

(* fly_new links the nodes of the pool in the order they lie in it *)
LEMMA SuppliedLists ==
  ASSUME NEW l, Fresh(l)
  PROVE  \E r \in Seq(Nodes) : Lists(Supplied(l), << >>, r)
<1> DEFINE nx == [n \in Nodes |-> IF n < SIZE THEN n + 1 ELSE l.next[n]]
           r == [k \in 1 .. SIZE + 1 |-> k - 1]
<1>1. PICK s : s = Supplied(l)
  OBVIOUS
<1>2. s = [head |-> l.head, free_head |-> 0, next |-> nx, prev |-> l.prev]
  <2>1. l = [head |-> l.head, free_head |-> l.free_head, next |-> l.next, prev |-> l.prev]
    BY ListFields DEF Fresh
  <2>2. s = [l EXCEPT !.next = nx, !.free_head = 0]
    BY <1>1 DEF Supplied, Fresh
  <2> HIDE DEF nx
  <2> QED BY <2>1, <2>2, SetNextAndFree
<1>3. /\ nx \in [Nodes -> Nodes \union {NULL}] /\ 0 \in Nodes \union {NULL}
      /\ \A n \in Nodes : nx[n] = IF n < SIZE THEN n + 1 ELSE NULL
      /\ l.head \in Nodes \union {NULL} /\ l.prev \in [Nodes -> Nodes \union {NULL}]
  BY ListFields, GameSizes DEF Fresh, Nodes
<1>4. s \in ListType /\ s.head = l.head /\ s.free_head = 0 /\ s.next = nx
  <2> HIDE DEF nx
  <2> QED BY <1>2, <1>3, MakeList
<1>5. r \in Seq(Nodes) /\ Len(r) = SIZE + 1
  <2>1. r \in [1 .. SIZE + 1 -> Nodes] /\ SIZE + 1 \in Nat
    BY GameSizes DEF Nodes
  <2> HIDE DEF r
  <2> QED BY <2>1, MakeSeq
<1>6. \A k \in 1 .. SIZE + 1 : r[k] = k - 1
  OBVIOUS
<1> HIDE DEF nx, r
<1>7. Ordered(r)
  BY <1>5, <1>6, GameSizes DEF Ordered
<1>8. Members(r) = Nodes
  <2>1. ASSUME NEW n \in Nodes PROVE n \in Members(r)
    <3>1. n + 1 \in 1 .. SIZE + 1 /\ (n + 1) - 1 = n
      BY GameSizes DEF Nodes
    <3>2. r[n + 1] = n
      BY <1>6, <3>1
    <3> QED BY <1>5, <3>1, <3>2 DEF Members
  <2> QED BY <1>7, <2>1, OrderedTyped
<1>9. Threaded(s, s.free_head, r)
  <2>1. s.free_head = Nth(r, 1)
    BY <1>4, <1>5, <1>6, GameSizes DEF Nth
  <2>2. ASSUME NEW k \in 1 .. Len(r) PROVE s.next[r[k]] = Nth(r, k + 1)
    <3>1. k - 1 \in Nodes /\ r[k] = k - 1 /\ k \in Nat
      BY <1>5, <1>6, GameSizes DEF Nodes
    <3>2. s.next[r[k]] = IF k - 1 < SIZE THEN (k - 1) + 1 ELSE NULL
      BY <1>3, <1>4, <3>1
    <3>3. Nth(r, k + 1) = IF k + 1 <= SIZE + 1 THEN (k + 1) - 1 ELSE NULL
      BY <1>5, <1>6, <3>1, GameSizes DEF Nth
    <3> QED BY <3>1, <3>2, <3>3, GameSizes
  <2> QED BY <1>7, <2>1, <2>2 DEF Threaded
<1>10. Threaded(s, s.head, << >>) /\ ThreadedBack(s, << >>)
  <2>1. s.head = NULL
    BY <1>4 DEF Fresh
  <2> QED BY <2>1, EmptyThread
<1>11. Len(r) >= 1
  BY <1>5, GameSizes
<1>12. Lists(s, << >>, r)
  BY <1>4, <1>8, <1>9, <1>10, <1>11, EmptyOrdered DEF Lists
<1> QED BY <1>1, <1>5, <1>12

LEMMA SuppliedSame ==
  ASSUME NEW l, NEW f, NEW r, Lists(l, f, r)
  PROVE  Supplied(l) = l /\ l.free_head \in Nodes
<1>1. Ordered(r) /\ 1 \in 1 .. Len(r)
  BY OrderedTyped DEF Lists, Threaded
<1>2. l.free_head = Nth(r, 1) /\ Nth(r, 1) # NULL /\ Nth(r, 1) \in Nodes \union {NULL}
  BY <1>1, AtTyped DEF Lists, Threaded
<1> QED BY <1>2 DEF Supplied

(* What the pool holds *)
LEMMA PoolHolds ==
  ASSUME NEW l, Pool(l)
  PROVE  /\ l \in ListType
         /\ \E f \in Seq(Nodes) :
              /\ Threaded(l, l.head, f) /\ ThreadedBack(l, f)
              /\ Chain(l, l.head) = f /\ ToSet(Chain(l, l.head)) = Members(f)
              /\ \E r \in Seq(Nodes) : Lists(Supplied(l), f, r) /\ Supplied(l).head = l.head
              /\ l.free_head # NULL => \E r \in Seq(Nodes) : Lists(l, f, r)
<1>1. ASSUME NEW f \in Seq(Nodes), l \in ListType, Threaded(l, l.head, f)
      PROVE  Chain(l, l.head) = f /\ ToSet(Chain(l, l.head)) = Members(f)
  <2>1. Chain(l, l.head) = f
    BY <1>1, ChainIsThread
  <2>2. DOMAIN f = 1 .. Len(f)
    BY <1>1, OrderedTyped DEF Threaded
  <2> QED BY <2>1, <2>2 DEF ToSet, Members
<1>2. CASE Fresh(l)
  <2>1. l \in ListType /\ l.head = NULL /\ l.free_head = NULL /\ << >> \in Seq(Nodes)
    BY <1>2, EmptySeq DEF Fresh
  <2>2. Threaded(l, l.head, << >>) /\ ThreadedBack(l, << >>)
    BY <2>1, EmptyThread
  <2>3. PICK r \in Seq(Nodes) : Lists(Supplied(l), << >>, r)
    BY <1>2, SuppliedLists
  <2>4. Supplied(l).head = l.head
    <3>1. Supplied(l).head = Nth(<< >>, 1)
      BY <2>3 DEF Lists, Threaded
    <3> QED BY <2>1, <3>1, EmptyOrdered
  <2>5. Chain(l, l.head) = << >> /\ ToSet(Chain(l, l.head)) = Members(<< >>)
    BY <1>1, <2>1, <2>2
  <2> QED BY <2>1, <2>2, <2>3, <2>4, <2>5
<1>3. CASE \E f, r \in Seq(Nodes) : Lists(l, f, r)
  <2>1. PICK f \in Seq(Nodes), r \in Seq(Nodes) : Lists(l, f, r)
    BY <1>3
  <2>2. l \in ListType /\ Threaded(l, l.head, f) /\ ThreadedBack(l, f)
    BY <2>1 DEF Lists
  <2>3. Supplied(l) = l
    BY <2>1, SuppliedSame
  <2>4. Chain(l, l.head) = f /\ ToSet(Chain(l, l.head)) = Members(f)
    BY <1>1, <2>2
  <2> QED BY <2>1, <2>2, <2>3, <2>4
<1> QED BY <1>2, <1>3 DEF Pool

-----------------------------------------------------------------------------
(* Letters leave the list *)

Leaves(n) == Above(n) \/ Below(n)

LEMMA LeftDef ==
  ASSUME fly \in ListType, NEW f, Ordered(f)
  PROVE  /\ Left(f)[0] = fly
         /\ \A k \in 0 .. Len(f) - 1 :
              Left(f)[k + 1] = IF Leaves(f[k + 1]) THEN Dropped(Left(f)[k], f[k + 1])
                               ELSE Left(f)[k]
<1>1. Len(f) \in Nat /\ f \in [1 .. Len(f) -> Nodes]
  BY OrderedTyped
<1> DEFINE F == [k \in Nat |-> [l \in ListType |->
                   IF k + 1 \in 1 .. Len(f) /\ Leaves(f[k + 1]) THEN Dropped(l, f[k + 1]) ELSE l]]
<1>2. F \in [Nat -> [ListType -> ListType]]
  <2>1. ASSUME NEW k \in Nat, NEW l \in ListType, k + 1 \in 1 .. Len(f)
        PROVE  Dropped(l, f[k + 1]) \in ListType
    <3>1. f[k + 1] \in Nodes
      BY <1>1, <2>1
    <3> QED BY <3>1, DroppedFields
  <2> QED BY <2>1
<1>3. PICK g \in [Nat -> ListType] : Iterates(g, fly, F)
  <2> HIDE DEF F
  <2> QED BY <1>2, RecursiveFunction
<1> DEFINE V == [k \in 0 .. Len(f) |-> g[k]]
<1>4. ASSUME NEW k \in 0 .. Len(f)
      PROVE  V[k] = IF k = 0 THEN fly
                    ELSE IF Above(f[k]) \/ Below(f[k]) THEN Dropped(V[k - 1], f[k])
                    ELSE V[k - 1]
  <2>1. CASE k = 0
    BY <1>3, <2>1 DEF Iterates
  <2>2. CASE k # 0
    <3>1. k - 1 \in Nat /\ k - 1 \in 0 .. Len(f) /\ (k - 1) + 1 = k /\ k \in 1 .. Len(f)
      BY <1>1, <2>2
    <3>2. g[k] = F[k - 1][g[k - 1]] /\ g[k - 1] \in ListType
      BY <1>3, <3>1 DEF Iterates
    <3>3. F[k - 1][g[k - 1]] = IF Leaves(f[k]) THEN Dropped(g[k - 1], f[k]) ELSE g[k - 1]
      BY <3>1, <3>2
    <3>4. V[k] = g[k] /\ V[k - 1] = g[k - 1]
      BY <3>1
    <3> QED BY <2>2, <3>2, <3>3, <3>4 DEF Leaves
  <2> QED BY <2>1, <2>2
<1>5. V = [k \in 0 .. Len(f) |-> IF k = 0 THEN fly
             ELSE IF Above(f[k]) \/ Below(f[k]) THEN Dropped(V[k - 1], f[k])
             ELSE V[k - 1]]
  <2>1. V = [k \in 0 .. Len(f) |-> V[k]]
    OBVIOUS
  <2> HIDE DEF V
  <2> QED BY <1>4, <2>1
<1>6. PICK U : U = Left(f)
  OBVIOUS
<1>7. U = [k \in 0 .. Len(f) |-> IF k = 0 THEN fly
             ELSE IF Above(f[k]) \/ Below(f[k]) THEN Dropped(U[k - 1], f[k])
             ELSE U[k - 1]]
  <2> HIDE DEF V
  <2> QED BY <1>5, <1>6 DEF Left
<1>8. U[0] = fly
  <2>1. 0 \in 0 .. Len(f)
    BY <1>1
  <2> QED BY <1>7, <2>1
<1>9. ASSUME NEW k \in 0 .. Len(f) - 1
      PROVE  U[k + 1] = IF Leaves(f[k + 1]) THEN Dropped(U[k], f[k + 1]) ELSE U[k]
  <2>1. k + 1 \in 0 .. Len(f) /\ k + 1 # 0 /\ (k + 1) - 1 = k
    BY <1>1
  <2> QED BY <1>7, <2>1 DEF Leaves
<1> QED BY <1>6, <1>8, <1>9

(* After k turns the letters among the first k that leave have left *)
Gone(f, k) == {f[i] : i \in {j \in 1 .. k : Leaves(f[j])}}

LEMMA LeftLists ==
  ASSUME NEW f, NEW r, Lists(fly, f, r)
  PROVE  \E f2, r2 \in Seq(Nodes) :
           /\ Lists(Left(f)[Len(f)], f2, r2)
           /\ Members(f2) = {n \in Members(f) : ~ Leaves(n)}
<1>1. /\ fly \in ListType /\ Ordered(f) /\ Ordered(r) /\ f \in Seq(Nodes) /\ r \in Seq(Nodes)
      /\ Len(f) \in Nat
  BY OrderedTyped DEF Lists, Threaded, Ordered
<1>2. PICK L : L = Left(f)
  OBVIOUS
<1>3. /\ L[0] = fly
      /\ \A k \in 0 .. Len(f) - 1 :
           L[k + 1] = IF Leaves(f[k + 1]) THEN Dropped(L[k], f[k + 1]) ELSE L[k]
  BY <1>1, <1>2, LeftDef
<1> DEFINE Rest(k) == \E f2, r2 \in Seq(Nodes) :
                        Lists(L[k], f2, r2) /\ Members(f2) = Members(f) \ Gone(f, k)
           S == {k \in Nat : k <= Len(f) => Rest(k)}
<1>4. 0 \in S
  <2>1. Gone(f, 0) = {}
    BY DEF Gone
  <2> QED BY <1>1, <1>3, <2>1
<1>5. ASSUME NEW k \in Nat, k \in S PROVE k + 1 \in S
  <2> SUFFICES ASSUME k + 1 <= Len(f) PROVE Rest(k + 1)
    OBVIOUS
  <2>1. PICK f2 \in Seq(Nodes), r2 \in Seq(Nodes) :
          Lists(L[k], f2, r2) /\ Members(f2) = Members(f) \ Gone(f, k)
    BY <1>1, <1>5
  <2>2. /\ L[k + 1] = IF Leaves(f[k + 1]) THEN Dropped(L[k], f[k + 1]) ELSE L[k]
        /\ k + 1 \in 1 .. Len(f)
    BY <1>1, <1>3
  <2>3. Gone(f, k + 1) = IF Leaves(f[k + 1]) THEN Gone(f, k) \union {f[k + 1]} ELSE Gone(f, k)
    <3>1. {j \in 1 .. k + 1 : Leaves(f[j])}
            = IF Leaves(f[k + 1]) THEN {j \in 1 .. k : Leaves(f[j])} \union {k + 1}
              ELSE {j \in 1 .. k : Leaves(f[j])}
      <4>1. 1 .. k + 1 = (1 .. k) \union {k + 1}
        OBVIOUS
      <4> QED BY <4>1
    <3> QED BY <3>1 DEF Gone
  <2>4. CASE ~ Leaves(f[k + 1])
    BY <2>1, <2>2, <2>3, <2>4
  <2>5. CASE Leaves(f[k + 1])
    <3>1. f[k + 1] \in Members(f) /\ f[k + 1] \notin Gone(f, k)
      <4>1. ASSUME NEW i \in 1 .. k PROVE f[i] # f[k + 1]
        <5>1. i \in 1 .. Len(f) /\ i # k + 1
          BY <1>1, <2>2
        <5> QED BY <1>1, <2>2, <5>1 DEF Ordered
      <4> QED BY <2>2, <4>1 DEF Members, Gone
    <3>2. PICK j \in 1 .. Len(f2) : f[k + 1] = f2[j]
      BY <2>1, <3>1 DEF Members
    <3>3. Lists(L[k + 1], Without(f2, j), Pushed(f2[j], r2))
      BY <2>1, <2>2, <2>5, <3>2, DroppedLists
    <3>4. Members(Without(f2, j)) = Members(f2) \ {f2[j]}
      BY <2>1, WithoutOrdered DEF Lists, Threaded
    <3>5. Without(f2, j) \in Seq(Nodes) /\ Pushed(f2[j], r2) \in Seq(Nodes)
      BY <3>3 DEF Lists, Threaded, Ordered
    <3>6. Members(Without(f2, j)) = Members(f) \ Gone(f, k + 1)
      BY <2>1, <2>3, <2>5, <3>2, <3>4
    <3> QED BY <3>3, <3>5, <3>6
  <2> QED BY <2>4, <2>5
<1>6. Nat \subseteq S
  <2> HIDE DEF S
  <2> QED BY <1>4, <1>5, Induction
<1>7. PICK f2 \in Seq(Nodes), r2 \in Seq(Nodes) :
        Lists(L[Len(f)], f2, r2) /\ Members(f2) = Members(f) \ Gone(f, Len(f))
  <2>1. Len(f) \in S
    <3> HIDE DEF S
    <3> QED BY <1>1, <1>6
  <2>2. Rest(Len(f))
    <3> HIDE DEF Rest
    <3> QED BY <1>1, <2>1
  <2> QED BY <2>2
<1>8. Members(f) \ Gone(f, Len(f)) = {n \in Members(f) : ~ Leaves(n)}
  BY DEF Members, Gone
<1> QED BY <1>2, <1>7, <1>8

-----------------------------------------------------------------------------
(* Where the letters are *)

LettersTyped ==
  /\ letter_pressed \in [Letters -> BOOLEAN]
  /\ x \in [Nodes -> -Rise .. Bottom + 1]
  /\ v \in [Nodes -> {"fall", "rise"}]
  /\ text \in [Nodes -> Letters]

(* age is the number of ticks a letter has moved; a letter that falls is   *)
(* as low as it is old, one that rises has been at most at the bottom      *)
Aged(age) ==
  /\ \A n \in InFlight :
       /\ x[n] \in 0 .. Bottom
       /\ age[n] % Period = phase
       /\ age[n] = 0 => pc = "move"
       /\ v[n] = "fall" => age[n] = x[n]
       /\ v[n] = "rise" => Rise * age[n] + x[n] <= (Rise + 1) * Bottom
  /\ \A m, n \in InFlight : age[m] = age[n] => m = n

LettersInv == LettersTyped /\ \E age \in [Nodes -> Nat] : Aged(age)

GameIInv == GameInv /\ IF_on \in BOOLEAN /\ Pool(fly) /\ LettersInv

LEMMA InFlightNodes ==
  ASSUME Pool(fly)
  PROVE  InFlight \subseteq Nodes
  BY PoolHolds, OrderedTyped DEF InFlight, Threaded

LEMMA GameTyped == GameIInv => GameTypeOK
<1> SUFFICES ASSUME GameIInv PROVE GameTypeOK
  OBVIOUS
<1>1. fly \in ListType
  BY PoolHolds DEF GameIInv
<1>2. ClocksTyped /\ IF_on \in BOOLEAN /\ LettersTyped
  BY DEF GameIInv, GameInv, LettersInv
<1> QED BY <1>1, <1>2 DEF GameTypeOK, ClocksTyped, LettersTyped, ListType

LEMMA GameIInvInit == GameInit => GameIInv
<1> SUFFICES ASSUME GameInit PROVE GameIInv
  OBVIOUS
<1>1. GameInv
  BY GameInvInit
<1>2. Fresh(fly)
  BY DEF GameInit, Fresh, ListType
<1>3. LettersTyped
  <2>1. (CHOOSE t \in Letters : TRUE) \in Letters
    BY GameAssumption
  <2>2. 0 \in -Rise .. Bottom + 1
    BY GameSizes
  <2> QED BY <2>1, <2>2 DEF GameInit, LettersTyped
<1>4. InFlight = {}
  <2>1. Threaded(fly, fly.head, << >>) /\ fly \in ListType
    BY <1>2, EmptyThread DEF Fresh
  <2>2. Chain(fly, fly.head) = << >>
    BY <2>1, ChainIsThread
  <2>3. DOMAIN << >> = 1 .. Len(<< >>) /\ Len(<< >>) = 0
    BY EmptyOrdered, OrderedTyped
  <2> QED BY <2>2, <2>3 DEF InFlight, ToSet
<1>5. [n \in Nodes |-> 0] \in [Nodes -> Nat] /\ Aged([n \in Nodes |-> 0])
  BY <1>4 DEF Aged
<1>6. IF_on \in BOOLEAN
  BY DEF GameInit
<1> QED BY <1>1, <1>2, <1>3, <1>5, <1>6 DEF GameIInv, LettersInv, Pool

(* Steps that neither move a letter nor change the list *)
LEMMA LettersKept ==
  ASSUME GameIInv, UNCHANGED <<phase, fly, x, v, text>>,
         letter_pressed' \in [Letters -> BOOLEAN],
         pc = "move" => pc' = "move"
  PROVE  Pool(fly') /\ LettersInv'
<1>1. InFlight' = InFlight /\ Pool(fly)
  BY DEF InFlight, GameIInv
<1>2. PICK age \in [Nodes -> Nat] : Aged(age)
  BY DEF GameIInv, LettersInv
<1>3. Aged(age)'
  BY <1>1, <1>2 DEF Aged
<1>4. LettersTyped'
  BY DEF GameIInv, LettersInv, LettersTyped
<1> QED BY <1>1, <1>3, <1>4 DEF LettersInv

LEMMA RiseFromBottom ==
  ASSUME NEW a \in 0 .. Bottom
  PROVE  Rise * a + a <= (Rise + 1) * Bottom
<1>1. a \in Nat /\ a <= Bottom /\ Rise + 1 \in Nat /\ Bottom \in Nat /\ Rise \in Nat
  BY GameSizes
<1>2. (Rise + 1) * a <= (Rise + 1) * Bottom
  BY <1>1
<1>3. (Rise + 1) * a = Rise * a + a
  BY <1>1
<1> QED BY <1>2, <1>3

(* A letter that is hit turns where it is *)
LEMMA KeypressKeepsLetters ==
  ASSUME GameIInv, UpdateKeypress
  PROVE  Pool(fly') /\ LettersInv'
<1>1. CASE UNCHANGED <<letter_pressed, v>>
  <2>1. UNCHANGED <<phase, fly, x, v, text>> /\ pc = "keys"
    BY <1>1 DEF UpdateKeypress, clock
  <2>2. letter_pressed' \in [Letters -> BOOLEAN]
    BY <1>1 DEF GameIInv, LettersInv, LettersTyped
  <2> QED BY <2>1, <2>2, LettersKept
<1>2. ASSUME NEW n \in InFlight, v[n] = "fall", v' = [v EXCEPT ![n] = "rise"],
             letter_pressed' = [letter_pressed EXCEPT ![text[n]] = FALSE], pc' = pc
      PROVE  Pool(fly') /\ LettersInv'
  <2>1. UNCHANGED <<phase, fly, x, text>> /\ InFlight' = InFlight /\ Pool(fly)
    BY DEF UpdateKeypress, clock, InFlight, GameIInv
  <2>2. LettersTyped'
    BY <1>2, <2>1 DEF GameIInv, LettersInv, LettersTyped
  <2>3. PICK age \in [Nodes -> Nat] : Aged(age)
    BY DEF GameIInv, LettersInv
  <2>4. n \in Nodes /\ InFlight \subseteq Nodes
    BY <1>2, InFlightNodes, <2>1
  <2>5. ASSUME NEW m \in InFlight
        PROVE  /\ v'[m] = "fall" => age[m] = x[m]
               /\ v'[m] = "rise" => Rise * age[m] + x[m] <= (Rise + 1) * Bottom
    <3>1. CASE m = n
      <4>1. x[m] \in 0 .. Bottom /\ age[m] = x[m]
        BY <1>2, <2>3, <3>1 DEF Aged
      <4>2. Rise * age[m] + x[m] <= (Rise + 1) * Bottom
        BY <4>1, RiseFromBottom
      <4>3. v'[m] = "rise"
        BY <1>2, <2>4, <3>1 DEF GameIInv, LettersInv, LettersTyped
      <4> QED BY <4>2, <4>3
    <3>2. CASE m # n
      <4>1. v'[m] = v[m]
        BY <1>2, <2>4, <3>2 DEF GameIInv, LettersInv, LettersTyped
      <4> QED BY <2>3, <4>1 DEF Aged
    <3> QED BY <3>1, <3>2
  <2>6. Aged(age)'
    BY <1>2, <2>1, <2>3, <2>5 DEF Aged
  <2> QED BY <2>1, <2>2, <2>6 DEF LettersInv
<1> QED BY <1>1, <1>2 DEF UpdateKeypress

(* A new letter is at the top, and younger than all others *)
LEMMA CreateKeepsLetters ==
  ASSUME GameIInv, NEW t \in Letters, CreateNewLetter(t)
  PROVE  Pool(fly') /\ LettersInv'
<1>1. PICK f \in Seq(Nodes) :
        /\ ToSet(Chain(fly, fly.head)) = Members(f)
        /\ \E r \in Seq(Nodes) : Lists(Supplied(fly), f, r) /\ Supplied(fly).head = fly.head
  BY PoolHolds DEF GameIInv
<1>2. PICK r \in Seq(Nodes) : Lists(Supplied(fly), f, r) /\ Supplied(fly).head = fly.head
  BY <1>1
<1>3. PICK s : s = Supplied(fly)
  OBVIOUS
<1>4. PICK obj : obj = r[1]
  OBVIOUS
<1>5. /\ Ordered(r) /\ Ordered(f) /\ s.free_head = Nth(r, 1)
      /\ Len(r) \in Nat /\ 1 \in 1 .. Len(r) /\ s.next[r[1]] = Nth(r, 2)
  <2>1. /\ Ordered(r) /\ Ordered(f) /\ Len(r) \in Nat /\ 1 \in 1 .. Len(r) /\ s.free_head = Nth(r, 1)
    BY <1>2, <1>3, OrderedTyped DEF Lists, Threaded
  <2>2. s.next[r[1]] = Nth(r, 1 + 1)
    BY <1>2, <1>3, <2>1 DEF Lists, Threaded
  <2> QED BY <2>1, <2>2
<1>6. s.free_head = obj /\ obj \in Nodes /\ obj \notin Members(f)
  <2>1. r \in [1 .. Len(r) -> Nodes] /\ obj \in Members(r)
    BY <1>4, <1>5, OrderedTyped DEF Members
  <2> QED BY <1>2, <1>4, <1>5, <2>1 DEF Nth, Lists
<1>7. Len(r) >= 2
  <2>1. s.next[s.free_head] # NULL
    BY <1>3 DEF CreateNewLetter, Available
  <2>2. Nth(r, 2) # NULL
    BY <1>4, <1>5, <1>6, <2>1
  <2> QED BY <1>5, <2>2 DEF Nth
<1>8. fly' = WithNewLetter(fly)
  BY DEF CreateNewLetter
<1>9. Lists(fly', Pushed(obj, f), Without(r, 1))
  BY <1>2, <1>4, <1>7, <1>8, CreatedLists
<1>10. /\ Pushed(obj, f) \in Seq(Nodes) /\ Without(r, 1) \in Seq(Nodes)
       /\ Members(Pushed(obj, f)) = Members(f) \union {obj}
  BY <1>5, <1>6, <1>9, PushedOrdered DEF Lists, Threaded, Ordered
<1>11. Pool(fly')
  BY <1>9, <1>10 DEF Pool
<1>12. InFlight = Members(f)
  BY <1>1 DEF InFlight
<1>13. InFlight' = InFlight \union {obj} /\ obj \notin InFlight
  <2>1. Chain(fly', fly'.head) = Pushed(obj, f)
    BY <1>9, ChainIsThread DEF Lists
  <2>2. DOMAIN Pushed(obj, f) = 1 .. Len(Pushed(obj, f))
    BY <1>9, OrderedTyped DEF Lists, Threaded
  <2>3. ToSet(Chain(fly', fly'.head)) = Members(Pushed(obj, f))
    BY <2>1, <2>2 DEF ToSet, Members
  <2> QED BY <1>6, <1>10, <1>12, <2>3 DEF InFlight
<1>14. /\ pc = "tick" /\ phase = 0 /\ pc' = "move" /\ phase' = 0
       /\ x' = [x EXCEPT ![obj] = 0] /\ v' = [v EXCEPT ![obj] = "fall"]
       /\ text' = [text EXCEPT ![obj] = t]
       /\ letter_pressed' = [letter_pressed EXCEPT ![t] = FALSE]
  BY <1>3, <1>6 DEF CreateNewLetter, clock
<1>15. LettersTyped'
  <2>1. 0 \in -Rise .. Bottom + 1
    BY GameSizes
  <2> QED BY <1>14, <2>1 DEF GameIInv, LettersInv, LettersTyped
<1>16. PICK age \in [Nodes -> Nat] : Aged(age)
  BY DEF GameIInv, LettersInv
<1> DEFINE age2 == [age EXCEPT ![obj] = 0]
<1>17. age2 \in [Nodes -> Nat] /\ age2[obj] = 0 /\ \A n \in InFlight : age2[n] = age[n]
  BY <1>6, <1>13
<1>18. /\ x'[obj] = 0 /\ v'[obj] = "fall"
       /\ \A n \in InFlight : x'[n] = x[n] /\ v'[n] = v[n]
  BY <1>6, <1>13, <1>14, InFlightNodes DEF GameIInv, LettersInv, LettersTyped
<1> HIDE DEF age2
<1>19. \A n \in InFlight : age[n] # 0
  BY <1>14, <1>16 DEF Aged
<1>20. 0 % Period = 0 /\ 0 \in 0 .. Bottom
  BY GameSizes
<1>21. ASSUME NEW n \in InFlight'
       PROVE  /\ x'[n] \in 0 .. Bottom
              /\ age2[n] % Period = phase'
              /\ v'[n] = "fall" => age2[n] = x'[n]
              /\ v'[n] = "rise" => Rise * age2[n] + x'[n] <= (Rise + 1) * Bottom
  <2>1. CASE n = obj
    BY <1>14, <1>17, <1>18, <1>20, <2>1
  <2>2. CASE n # obj
    <3>1. n \in InFlight
      BY <1>13, <2>2
    <3>2. x'[n] = x[n] /\ v'[n] = v[n] /\ age2[n] = age[n]
      BY <1>17, <1>18, <3>1
    <3> QED BY <1>14, <1>16, <3>1, <3>2 DEF Aged
  <2> QED BY <2>1, <2>2
<1>22. ASSUME NEW m \in InFlight', NEW n \in InFlight', age2[m] = age2[n] PROVE m = n
  <2>1. CASE m # obj /\ n # obj
    BY <1>13, <1>16, <1>17, <1>22, <2>1 DEF Aged
  <2>2. CASE m = obj \/ n = obj
    BY <1>13, <1>17, <1>19, <1>22, <2>2
  <2> QED BY <2>1, <2>2
<1>23. Aged(age2)'
  BY <1>14, <1>21, <1>22 DEF Aged
<1> QED BY <1>11, <1>15, <1>17, <1>23 DEF LettersInv

(* A remainder is the one number below the divisor that a whole multiple    *)
(* falls short by                                                          *)
LEMMA ModIs ==
  ASSUME NEW n \in Nat, NEW d \in Nat \ {0}, NEW q \in Nat, NEW r \in 0 .. d - 1,
         n = d * q + r
  PROVE  n % d = r
<1>1. PICK p \in Nat, s \in 0 .. d - 1 : s = n % d /\ n = d * p + s
  <2>1. n \div d \in Nat /\ n % d \in 0 .. d - 1 /\ n = d * (n \div d) + (n % d)
    OBVIOUS
  <2> QED BY <2>1
<1>2. ASSUME p >= q + 1 PROVE FALSE
  <2>1. d * p >= d * (q + 1) /\ d * (q + 1) = d * q + d
    BY <1>2
  <2>2. d * p \in Nat /\ d * q \in Nat
    OBVIOUS
  <2> QED BY <1>1, <2>1, <2>2
<1>3. ASSUME q >= p + 1 PROVE FALSE
  <2>1. d * q >= d * (p + 1) /\ d * (p + 1) = d * p + d
    BY <1>3
  <2>2. d * p \in Nat /\ d * q \in Nat
    OBVIOUS
  <2> QED BY <1>1, <2>1, <2>2
<1>4. p = q
  BY <1>2, <1>3
<1> QED BY <1>1, <1>4

LEMMA ModNext ==
  ASSUME NEW a \in Nat
  PROVE  (a + 1) % Period = ((a % Period) + 1) % Period
<1>1. Period \in Nat \ {0}
  BY GameSizes
<1>2. a \div Period \in Nat /\ a % Period \in 0 .. Period - 1
      /\ a = Period * (a \div Period) + (a % Period)
  BY <1>1
<1>3. PICK q \in Nat, r \in 0 .. Period - 1 :
        q = a \div Period /\ r = a % Period /\ a = Period * q + r
  BY <1>2
<1>4. CASE r + 1 < Period
  <2>1. a + 1 = Period * q + (r + 1) /\ r + 1 \in 0 .. Period - 1
    BY <1>1, <1>3, <1>4
  <2>2. (a + 1) % Period = r + 1
    <3>1. a + 1 \in Nat
      OBVIOUS
    <3> QED BY <1>1, <1>3, <2>1, <3>1, ModIs
  <2>3. (r + 1) % Period = r + 1
    BY <1>1, <2>1
  <2> QED BY <1>3, <2>2, <2>3
<1>5. CASE r + 1 = Period
  <2>1. a + 1 = Period * (q + 1) + 0
    BY <1>1, <1>3, <1>5
  <2>2. (a + 1) % Period = 0
    <3>1. a + 1 \in Nat /\ q + 1 \in Nat /\ 0 \in 0 .. Period - 1
      BY <1>1
    <3> QED BY <1>1, <2>1, <3>1, ModIs
  <2>3. (r + 1) % Period = 0
    BY <1>1, <1>5
  <2> QED BY <1>3, <2>2, <2>3
<1> QED BY <1>1, <1>3, <1>4, <1>5

LEMMA RiseOneTick ==
  ASSUME NEW a \in Nat, NEW h \in Int, Rise * a + h <= (Rise + 1) * Bottom
  PROVE  Rise * (a + 1) + (h - Rise) <= (Rise + 1) * Bottom
<1>1. PICK p \in Int, b \in Int : p = Rise * a /\ b = (Rise + 1) * Bottom
  BY GameSizes
<1>2. Rise * (a + 1) = p + Rise
  BY <1>1, GameSizes
<1> QED BY <1>1, <1>2, GameSizes

(* A tick moves all letters on and ages them by one; who leaves was off    *)
(* the screen                                                              *)
LEMMA MoveKeepsLetters ==
  ASSUME GameIInv, UpdateLetterPos
  PROVE  Pool(fly') /\ LettersInv'
<1>1. /\ x' = [n \in Nodes |-> IF n \in InFlight THEN Moved(n) ELSE x[n]]
      /\ fly' = Left(Chain(fly, fly.head))[Len(Chain(fly, fly.head))]
      /\ phase' = (phase + 1) % Period /\ UNCHANGED <<letter_pressed, v, text>>
      /\ pc = "move" /\ phase \in Nat
  BY GameSizes DEF UpdateLetterPos, GameIInv, GameInv, ClocksTyped
<1>2. InFlight \subseteq Nodes
  BY InFlightNodes DEF GameIInv
<1>3. Pool(fly') /\ InFlight' = {n \in InFlight : ~ Leaves(n)}
  <2>1. CASE Fresh(fly)
    <3>1. Chain(fly, fly.head) = << >>
      BY <2>1, EmptyThread, ChainIsThread DEF Fresh
    <3>2. fly' = fly
      <4>1. Left(<< >>)[0] = fly
        BY <2>1, EmptyOrdered, LeftDef DEF Fresh
      <4> QED BY <1>1, <3>1, <4>1, EmptyOrdered
    <3>3. InFlight = {}
      <4>1. DOMAIN << >> = 1 .. Len(<< >>) /\ Len(<< >>) = 0
        BY EmptyOrdered, OrderedTyped
      <4> QED BY <3>1, <4>1 DEF InFlight, ToSet
    <3>4. InFlight' = InFlight
      BY <3>2 DEF InFlight
    <3> QED BY <2>1, <3>2, <3>3, <3>4 DEF Pool
  <2>2. CASE \E f, r \in Seq(Nodes) : Lists(fly, f, r)
    <3>1. PICK f \in Seq(Nodes), r \in Seq(Nodes) : Lists(fly, f, r)
      BY <2>2
    <3>2. Chain(fly, fly.head) = f /\ InFlight = Members(f)
      <4>1. Chain(fly, fly.head) = f
        BY <3>1, ChainIsThread DEF Lists
      <4>2. DOMAIN f = 1 .. Len(f)
        BY <3>1, OrderedTyped DEF Lists, Threaded
      <4> QED BY <4>1, <4>2 DEF InFlight, ToSet, Members
    <3>3. PICK f2 \in Seq(Nodes), r2 \in Seq(Nodes) :
            /\ Lists(Left(f)[Len(f)], f2, r2)
            /\ Members(f2) = {n \in Members(f) : ~ Leaves(n)}
      BY <3>1, LeftLists
    <3>4. Lists(fly', f2, r2)
      BY <1>1, <3>2, <3>3
    <3>5. InFlight' = Members(f2)
      <4>1. Chain(fly', fly'.head) = f2
        BY <3>4, ChainIsThread DEF Lists
      <4>2. DOMAIN f2 = 1 .. Len(f2)
        BY <3>4, OrderedTyped DEF Lists, Threaded
      <4> QED BY <4>1, <4>2 DEF InFlight, ToSet, Members
    <3> QED BY <3>2, <3>3, <3>4, <3>5 DEF Pool
  <2> QED BY <2>1, <2>2 DEF GameIInv, Pool
<1>4. PICK age \in [Nodes -> Nat] : Aged(age)
  BY DEF GameIInv, LettersInv
<1>5. ASSUME NEW n \in InFlight
      PROVE  /\ x[n] \in 0 .. Bottom /\ v[n] \in {"fall", "rise"}
             /\ Moved(n) \in -Rise .. Bottom + 1
             /\ ~ Leaves(n) => Moved(n) \in 0 .. Bottom
  <2>1. x[n] \in 0 .. Bottom /\ v[n] \in {"fall", "rise"}
    BY <1>2, <1>4 DEF Aged, GameIInv, LettersInv, LettersTyped
  <2>2. Moved(n) \in -Rise .. Bottom + 1
    BY <2>1, GameSizes DEF Moved
  <2>3. ~ Leaves(n) => Moved(n) \in 0 .. Bottom
    BY <2>2, GameSizes DEF Leaves, Above, Below
  <2> QED BY <2>1, <2>2, <2>3
<1>6. LettersTyped'
  <2>1. \A n \in Nodes : x[n] \in -Rise .. Bottom + 1
    BY DEF GameIInv, LettersInv, LettersTyped
  <2>2. x' \in [Nodes -> -Rise .. Bottom + 1]
    BY <1>1, <1>5, <2>1
  <2> QED BY <1>1, <2>2 DEF GameIInv, LettersInv, LettersTyped
<1> DEFINE age2 == [n \in Nodes |-> age[n] + 1]
<1>7. age2 \in [Nodes -> Nat] /\ \A n \in Nodes : age2[n] = age[n] + 1
  OBVIOUS
<1> HIDE DEF age2
<1>8. ASSUME NEW n \in InFlight'
      PROVE  /\ x'[n] \in 0 .. Bottom
             /\ age2[n] % Period = phase'
             /\ age2[n] # 0
             /\ v'[n] = "fall" => age2[n] = x'[n]
             /\ v'[n] = "rise" => Rise * age2[n] + x'[n] <= (Rise + 1) * Bottom
  <2>1. n \in InFlight /\ n \in Nodes /\ ~ Leaves(n)
    BY <1>2, <1>3
  <2>2. x'[n] = Moved(n) /\ v'[n] = v[n] /\ age2[n] = age[n] + 1 /\ age[n] \in Nat
    BY <1>1, <1>7, <2>1
  <2>3. /\ x[n] \in 0 .. Bottom /\ age[n] % Period = phase
        /\ v[n] = "fall" => age[n] = x[n]
        /\ v[n] = "rise" => Rise * age[n] + x[n] <= (Rise + 1) * Bottom
    BY <1>4, <2>1 DEF Aged
  <2>4. age2[n] % Period = phase'
    BY <1>1, <2>2, <2>3, ModNext
  <2>5. v'[n] = "fall" => age2[n] = x'[n]
    BY <2>2, <2>3 DEF Moved
  <2>6. ASSUME v'[n] = "rise" PROVE Rise * age2[n] + x'[n] <= (Rise + 1) * Bottom
    <3>1. x'[n] = x[n] - Rise /\ x[n] \in Int
      BY <2>2, <2>3, <2>6 DEF Moved
    <3>2. Rise * age[n] + x[n] <= (Rise + 1) * Bottom
      BY <2>2, <2>3, <2>6
    <3>3. Rise * (age[n] + 1) + (x[n] - Rise) <= (Rise + 1) * Bottom
      BY <2>2, <3>1, <3>2, RiseOneTick
    <3> QED BY <2>2, <3>1, <3>3
  <2>7. x'[n] \in 0 .. Bottom
    BY <1>5, <2>1, <2>2
  <2>8. age2[n] # 0
    BY <2>2
  <2> QED BY <2>4, <2>5, <2>6, <2>7, <2>8
<1>9. ASSUME NEW m \in InFlight', NEW n \in InFlight', age2[m] = age2[n] PROVE m = n
  <2>1. m \in InFlight /\ n \in InFlight /\ m \in Nodes /\ n \in Nodes
    BY <1>2, <1>3
  <2>2. age[m] = age[n]
    BY <1>7, <1>9, <2>1
  <2> QED BY <1>4, <2>1, <2>2 DEF Aged
<1>10. Aged(age2)'
  BY <1>8, <1>9 DEF Aged
<1> QED BY <1>3, <1>6, <1>7, <1>10 DEF LettersInv

LEMMA GameIInvNext == GameIInv /\ [GameNext]_gameVars => GameIInv'
<1> SUFFICES ASSUME GameIInv, [GameNext]_gameVars PROVE GameIInv'
  OBVIOUS
<1>1. GameInv'
  BY GameInvNext DEF GameIInv
<1>2. letter_pressed \in [Letters -> BOOLEAN] /\ IF_on \in BOOLEAN
  BY DEF GameIInv, LettersInv, LettersTyped
<1>3. CASE TimerEvent
  <2>1. /\ UNCHANGED <<phase, fly, x, v, text, letter_pressed, IF_on>>
        /\ pc = "move" => pc' = "move"
    BY <1>3 DEF TimerEvent, Interrupt, nodes
  <2> QED BY <1>1, <1>2, <2>1, LettersKept DEF GameIInv
<1>4. ASSUME NEW key \in Keys, KeyboardEvent(key) PROVE GameIInv'
  <2>1. /\ UNCHANGED <<phase, fly, x, v, text, IF_on>>
        /\ letter_pressed' = [t \in Letters |-> letter_pressed[t] \/ t = key]
        /\ pc = "move" => pc' = "move"
    BY <1>4 DEF KeyboardEvent, Interrupt, nodes, clock
  <2>2. letter_pressed' \in [Letters -> BOOLEAN]
    BY <2>1
  <2> QED BY <1>1, <1>2, <2>1, <2>2, LettersKept DEF GameIInv
<1>5. CASE Hlt \/ Test
  <2>1. UNCHANGED <<phase, fly, x, v, text, letter_pressed, IF_on>> /\ pc # "move"
    BY <1>5 DEF Hlt, Test, clock, nodes
  <2> QED BY <1>1, <1>2, <2>1, LettersKept DEF GameIInv
<1>6. CASE UpdateKeypress
  <2>1. IF_on' \in BOOLEAN
    BY <1>6 DEF UpdateKeypress
  <2> QED BY <1>1, <1>6, <2>1, KeypressKeepsLetters DEF GameIInv
<1>7. ASSUME NEW t \in Letters, CreateNewLetter(t) PROVE GameIInv'
  <2>1. IF_on' = IF_on
    BY <1>7 DEF CreateNewLetter
  <2> QED BY <1>1, <1>2, <1>7, <2>1, CreateKeepsLetters DEF GameIInv
<1>8. CASE NoNewLetter
  <2>1. UNCHANGED <<phase, fly, x, v, text, letter_pressed, IF_on>> /\ pc' = "move"
    BY <1>8 DEF NoNewLetter, nodes, clock
  <2> QED BY <1>1, <1>2, <2>1, LettersKept DEF GameIInv
<1>9. CASE UpdateLetterPos
  <2>1. IF_on' = IF_on
    BY <1>9 DEF UpdateLetterPos
  <2> QED BY <1>1, <1>2, <1>9, <2>1, MoveKeepsLetters DEF GameIInv
<1>10. CASE UNCHANGED gameVars
  <2>1. UNCHANGED <<phase, fly, x, v, text, letter_pressed, IF_on, pc>>
    BY <1>10 DEF gameVars, clock, nodes
  <2> QED BY <1>1, <1>2, <2>1, LettersKept DEF GameIInv
<1> QED BY <1>3, <1>4, <1>5, <1>6, <1>7, <1>8, <1>9, <1>10 DEF GameNext, Handlers, MainLoop

LEMMA GameInvariant == GameSpec => []GameIInv
  BY GameIInvInit, GameIInvNext, PTL DEF GameSpec

(* The loop, the list and the letters keep their types; a letter is on the *)
(* screen, or one move of it off.                                          *)
THEOREM GameTypeCorrect == GameSpec => []GameTypeOK
  BY GameTyped, GameInvariant, PTL

(* The letters in flight are linked both ways, and no node of the pool is  *)
(* lost or listed twice, whatever letters leave while the loop walks the   *)
(* list.                                                                   *)
THEOREM ListStaysIntact == GameSpec => []ListIntact
<1>1. ASSUME GameIInv PROVE ListIntact
  <2>1. PICK f \in Seq(Nodes) :
          /\ Threaded(fly, fly.head, f) /\ ThreadedBack(fly, f) /\ Chain(fly, fly.head) = f
          /\ fly.free_head # NULL => \E r \in Seq(Nodes) : Lists(fly, f, r)
    BY <1>1, PoolHolds DEF GameIInv
  <2>2. DOMAIN f = 1 .. Len(f) /\ Len(f) \in Nat
    BY <2>1, OrderedTyped DEF Threaded
  <2>3. \A i \in DOMAIN f : fly.prev[f[i]] = IF i = 1 THEN NULL ELSE f[i - 1]
    <3>1. ASSUME NEW i \in 1 .. Len(f) PROVE Nth(f, i - 1) = IF i = 1 THEN NULL ELSE f[i - 1]
      BY <2>2 DEF Nth
    <3> QED BY <2>1, <2>2, <3>1 DEF ThreadedBack
  <2>4. ASSUME fly.free_head # NULL
        PROVE  LET all == f \o Chain(fly, fly.free_head)
               IN IsInjective(all) /\ ToSet(all) = Nodes
    <3>1. PICK r \in Seq(Nodes) : Lists(fly, f, r)
      BY <2>1, <2>4
    <3>2. Chain(fly, fly.free_head) = r
      BY <3>1, ChainIsThread DEF Lists
    <3>3. PICK a : a = f \o r
      OBVIOUS
    <3>4. Ordered(f) /\ Ordered(r) /\ Len(r) \in Nat
      BY <3>1, OrderedTyped DEF Lists, Threaded
    <3>5. /\ a \in Seq(Nodes) /\ Len(a) = Len(f) + Len(r) /\ DOMAIN a = 1 .. Len(a)
          /\ \A i \in 1 .. Len(f) + Len(r) : a[i] = IF i <= Len(f) THEN f[i] ELSE r[i - Len(f)]
      BY <3>3, ConcatProperties, LenProperties
    <3>6. ASSUME NEW i \in 1 .. Len(a)
          PROVE  \/ i \in 1 .. Len(f) /\ a[i] = f[i] /\ a[i] \in Members(f)
                 \/ i - Len(f) \in 1 .. Len(r) /\ a[i] = r[i - Len(f)] /\ a[i] \in Members(r)
      <4>1. CASE i <= Len(f)
        BY <2>2, <3>5, <4>1 DEF Members
      <4>2. CASE ~ (i <= Len(f))
        <5>1. i - Len(f) \in 1 .. Len(r) /\ a[i] = r[i - Len(f)]
          BY <2>2, <3>4, <3>5, <4>2
        <5> QED BY <5>1 DEF Members
      <4> QED BY <4>1, <4>2
    <3>7. Members(f) \intersect Members(r) = {} /\ Members(f) \union Members(r) = Nodes
      BY <3>1 DEF Lists
    <3>8. ASSUME NEW i \in 1 .. Len(a), NEW k \in 1 .. Len(a), a[i] = a[k] PROVE i = k
      <4>1. CASE a[i] \in Members(f)
        <5>1. i \in 1 .. Len(f) /\ k \in 1 .. Len(f) /\ f[i] = f[k]
          BY <3>6, <3>7, <3>8, <4>1
        <5> QED BY <3>4, <5>1 DEF Ordered
      <4>2. CASE a[i] \notin Members(f)
        <5>1. /\ i - Len(f) \in 1 .. Len(r) /\ k - Len(f) \in 1 .. Len(r)
              /\ r[i - Len(f)] = r[k - Len(f)]
          BY <3>6, <3>7, <3>8, <4>2
        <5>2. i - Len(f) = k - Len(f)
          BY <3>4, <5>1 DEF Ordered
        <5> QED BY <2>2, <5>2
      <4> QED BY <4>1, <4>2
    <3>9. ASSUME NEW n \in Nodes PROVE \E i \in 1 .. Len(a) : a[i] = n
      <4>1. CASE n \in Members(f)
        <5>1. PICK i \in 1 .. Len(f) : f[i] = n
          BY <4>1 DEF Members
        <5>2. i \in 1 .. Len(a) /\ a[i] = n
          BY <2>2, <3>4, <3>5, <5>1
        <5> QED BY <5>2
      <4>2. CASE n \in Members(r)
        <5>1. PICK i \in 1 .. Len(r) : r[i] = n
          BY <4>2 DEF Members
        <5>2. /\ i + Len(f) \in 1 .. Len(a) /\ ~ (i + Len(f) <= Len(f))
              /\ (i + Len(f)) - Len(f) = i
          BY <2>2, <3>4, <3>5
        <5>3. a[i + Len(f)] = n
          BY <3>5, <5>1, <5>2
        <5> QED BY <5>2, <5>3
      <4> QED BY <3>7, <4>1, <4>2
    <3>10. IsInjective(a)
      BY <3>5, <3>8 DEF IsInjective
    <3>11. ToSet(a) = Nodes
      <4>1. \A i \in 1 .. Len(a) : a[i] \in Nodes
        BY <3>5, ElementOfSeq
      <4> QED BY <3>5, <3>9, <4>1 DEF ToSet
    <3> QED BY <3>2, <3>3, <3>10, <3>11
  <2> QED BY <2>1, <2>3, <2>4 DEF ListIntact
<1> QED BY <1>1, GameInvariant, PTL

(* A falling letter is as low as it is old, so the clock tells where it    *)
(* is, and no two are equally low.                                         *)
THEOREM LettersFollowClock == GameSpec => []PositionsFollowClock
<1>1. ASSUME GameIInv PROVE PositionsFollowClock
  <2>1. PICK age \in [Nodes -> Nat] : Aged(age)
    BY <1>1 DEF GameIInv, LettersInv
  <2> QED BY <2>1 DEF Aged, PositionsFollowClock
<1> QED BY <1>1, GameInvariant, PTL

-----------------------------------------------------------------------------
(* The pool is large enough *)

Longest == (Bottom * (Rise + 1)) \div Rise

LEMMA AgeBound ==
  ASSUME NEW a \in Nat, NEW h \in 0 .. Bottom,
         a = h \/ Rise * a + h <= (Rise + 1) * Bottom
  PROVE  a <= Longest
<1>1. PICK b \in Nat : b = Bottom * (Rise + 1) /\ b = (Rise + 1) * Bottom
  BY GameSizes
<1>2. Rise * a <= b
  <2>1. CASE a = h
    <3>1. Rise * a <= Rise * Bottom /\ Rise * Bottom <= b
      BY <1>1, <2>1, GameSizes
    <3>2. Rise * a \in Int /\ Rise * Bottom \in Int
      BY GameSizes
    <3> QED BY <3>1, <3>2
  <2>2. CASE Rise * a + h <= (Rise + 1) * Bottom
    <3>1. Rise * a \in Int
      BY GameSizes
    <3> QED BY <1>1, <2>2, <3>1
  <2> QED BY <2>1, <2>2
<1>3. /\ b \div Rise \in Nat /\ b % Rise \in 0 .. Rise - 1
      /\ b = Rise * (b \div Rise) + (b % Rise)
  BY GameSizes
<1>4. PICK q \in Nat : q = b \div Rise /\ b < Rise * (q + 1)
  BY <1>3, GameSizes
<1>5. ASSUME a >= q + 1 PROVE FALSE
  <2>1. Rise * a >= Rise * (q + 1)
    BY <1>5, GameSizes
  <2>2. Rise * a \in Int /\ Rise * (q + 1) \in Int
    BY GameSizes
  <2> QED BY <1>2, <1>4, <2>1, <2>2
<1> QED BY <1>1, <1>4, <1>5 DEF Longest

(* Nth the start of a tick that creates a letter, those in flight started   *)
(* whole periods ago, no two at once                                       *)
LEMMA FewInFlight ==
  ASSUME GameIInv, pc = "tick", phase = 0
  PROVE  Cardinality(InFlight) <= SIZE - 1
<1>1. PICK age \in [Nodes -> Nat] : Aged(age)
  BY DEF GameIInv, LettersInv
<1>2. InFlight \subseteq Nodes
  BY InFlightNodes DEF GameIInv
<1>3. PICK top \in Nat : top = Longest
  <2>1. Bottom * (Rise + 1) \in Nat
    BY GameSizes
  <2>2. (Bottom * (Rise + 1)) \div Rise \in Nat
    BY <2>1, GameSizes
  <2> QED BY <2>2 DEF Longest
<1>4. PICK most \in Nat : most = top \div Period /\ top < Period * (most + 1)
  <2>1. /\ top \div Period \in Nat /\ top % Period \in 0 .. Period - 1
        /\ top = Period * (top \div Period) + (top % Period)
    BY GameSizes
  <2> QED BY <2>1, GameSizes
<1>5. ASSUME NEW n \in InFlight
      PROVE  \E q \in 1 .. most : age[n] = Period * q
  <2>1. /\ age[n] \in Nat /\ age[n] # 0 /\ age[n] % Period = 0
    BY <1>1, <1>2 DEF Aged
  <2>2. PICK q \in Nat : age[n] = Period * q
    <3>1. PICK a \in Nat : a = age[n] /\ a % Period = 0
      BY <2>1
    <3>2. PICK d \in Nat \ {0} : d = Period
      BY GameSizes
    <3>3. a \div d \in Nat /\ a = d * (a \div d) + (a % d)
      OBVIOUS
    <3>4. a = d * (a \div d)
      <4>1. PICK e \in Nat : e = d * (a \div d)
        BY <3>3
      <4>2. a = e + 0
        BY <3>1, <3>2, <3>3, <4>1
      <4> QED BY <4>1, <4>2
    <3> QED BY <3>1, <3>2, <3>3, <3>4
  <2>3. age[n] <= top
    <3>1. /\ x[n] \in 0 .. Bottom /\ v[n] \in {"fall", "rise"}
          /\ v[n] = "fall" => age[n] = x[n]
          /\ v[n] = "rise" => Rise * age[n] + x[n] <= (Rise + 1) * Bottom
      BY <1>1, <1>2 DEF Aged, GameIInv, LettersInv, LettersTyped
    <3>2. age[n] = x[n] \/ Rise * age[n] + x[n] <= (Rise + 1) * Bottom
      BY <3>1
    <3> QED BY <1>3, <2>1, <3>1, <3>2, AgeBound
  <2>4. q # 0
    BY <2>1, <2>2, GameSizes
  <2>5. ASSUME q >= most + 1 PROVE FALSE
    <3>1. Period * q >= Period * (most + 1)
      BY <2>5, GameSizes
    <3>2. Period * q \in Int /\ Period * (most + 1) \in Int
      BY GameSizes
    <3> QED BY <1>3, <1>4, <2>2, <2>3, <3>1, <3>2
  <2> QED BY <2>2, <2>4, <2>5
<1> DEFINE g == [n \in InFlight |-> CHOOSE q \in 1 .. most : age[n] = Period * q]
<1>6. ASSUME NEW n \in InFlight PROVE g[n] \in 1 .. most /\ age[n] = Period * g[n]
  BY <1>5
<1>7. g \in Injection(InFlight, 1 .. most)
  <2>1. g \in [InFlight -> 1 .. most] /\ DOMAIN g = InFlight
    BY <1>6
  <2> HIDE DEF g
  <2>2. ASSUME NEW m \in InFlight, NEW n \in InFlight, g[m] = g[n] PROVE m = n
    BY <1>1, <1>6, <2>2 DEF Aged
  <2> QED BY <2>1, <2>2 DEF Injection, IsInjective
<1>8. IsFiniteSet(1 .. most) /\ Cardinality(1 .. most) = most
  BY FS_Interval
<1>9. Cardinality(InFlight) <= most
  BY <1>7, <1>8, FS_Injection
<1>10. most <= SIZE - 1
  BY <1>3, <1>4, PoolAssumption DEF Longest
<1>11. Cardinality(InFlight) \in Nat
  BY <1>7, <1>8, FS_Injection, FS_CardinalityType
<1> QED BY <1>9, <1>10, <1>11, GameSizes

(* fly_new finds a node whenever the game asks for one: letters leave the  *)
(* screen before a pool of this size is empty.                             *)
THEOREM PoolSuffices == GameSpec => []LettersFit
<1>1. ASSUME GameIInv PROVE LettersFit
  <2> SUFFICES ASSUME pc = "tick", phase = 0 PROVE Available(fly)
    BY DEF LettersFit
  <2>1. PICK f \in Seq(Nodes) :
          /\ ToSet(Chain(fly, fly.head)) = Members(f)
          /\ \E r \in Seq(Nodes) : Lists(Supplied(fly), f, r)
    BY <1>1, PoolHolds DEF GameIInv
  <2>2. PICK r \in Seq(Nodes) : Lists(Supplied(fly), f, r)
    BY <2>1
  <2>3. PICK s : s = Supplied(fly)
    OBVIOUS
  <2>4. Ordered(r) /\ Ordered(f) /\ Len(r) \in Nat /\ Len(f) \in Nat /\ Len(r) >= 1
    BY <2>2, OrderedTyped DEF Lists, Threaded
  <2>5. Len(f) <= SIZE - 1
    BY <1>1, <2>1, <2>4, FewInFlight, OrderedFits DEF InFlight
  <2>6. Len(f) + Len(r) = SIZE + 1
    <3>1. Members(f) \intersect Members(r) = {} /\ Members(f) \union Members(r) = Nodes
      BY <2>2 DEF Lists
    <3>2. /\ IsFiniteSet(Members(f)) /\ Cardinality(Members(f)) = Len(f)
          /\ IsFiniteSet(Members(r)) /\ Cardinality(Members(r)) = Len(r)
      BY <2>4, OrderedFits
    <3>3. Cardinality(Nodes) = Len(f) + Len(r) - Cardinality({})
      BY <3>1, <3>2, FS_Union
    <3>4. Cardinality(Nodes) = SIZE + 1 /\ Cardinality({}) = 0
      BY FS_Interval, FS_EmptySet, GameSizes DEF Nodes
    <3> QED BY <2>4, <3>3, <3>4
  <2>7. 1 \in 1 .. Len(r) /\ 2 \in 1 .. Len(r)
    BY <2>4, <2>5, <2>6, GameSizes
  <2>8. s.free_head = r[1] /\ s.next[r[1]] = Nth(r, 1 + 1)
    BY <2>2, <2>3, <2>7 DEF Lists, Threaded, Nth
  <2>9. Nth(r, 2) # NULL
    BY <2>4, <2>7, AtTyped
  <2> QED BY <2>3, <2>8, <2>9 DEF Available
<1> QED BY <1>1, GameInvariant, PTL

(***************************************************************************)
(* VgaRefresh: what the two unsynchronised threads keep, for a screen of   *)
(* any height.                                                             *)
(***************************************************************************)

USE DEF Rows, cpuVars, sdlVars, screenVars

(* The guest's writes and the refresh stay within the screen.              *)
THEOREM ScreenTypeCorrect == ScreenSpec => []ScreenTypeOK
<1>1. ScreenInit => ScreenTypeOK
  <2>1. 0 \in Rows /\ 0 \in Pixels
    BY ScreenAssumption
  <2> QED
    BY <2>1, Zenon DEF ScreenInit, ScreenTypeOK
<1>2. ScreenTypeOK /\ [ScreenNext]_screenVars => ScreenTypeOK'
  <2> SUFFICES ASSUME ScreenTypeOK, [ScreenNext]_screenVars PROVE ScreenTypeOK'
    OBVIOUS
  <2>1. ASSUME NEW r \in Rows, NEW pixel \in Pixels, Write(r, pixel) PROVE ScreenTypeOK'
    BY <2>1 DEF ScreenTypeOK, Write, RacedWith
  <2>2. CASE FlagLine
    BY <2>2 DEF ScreenTypeOK, FlagLine, RacedWith
  <2>3. CASE FlagMem
    BY <2>3 DEF ScreenTypeOK, FlagMem
  <2>4. CASE UpdateScreen
    BY <2>4, ScreenAssumption DEF ScreenTypeOK, UpdateScreen
  <2>5. CASE CopyLine
    <3>1. row' \in Rows
      BY <2>5, ScreenAssumption DEF ScreenTypeOK, CopyLine
    <3>2. /\ screen' \in [Rows -> Pixels]
          /\ raced' \subseteq Rows
      BY <2>5 DEF ScreenTypeOK, CopyLine
    <3>3. sdlPc' \in {"copy", "clearMem"}
      BY <2>5 DEF CopyLine
    <3> QED
      BY <2>5, <3>1, <3>2, <3>3 DEF ScreenTypeOK, CopyLine
  <2>6. CASE ClearMem
    BY <2>6 DEF ScreenTypeOK, ClearMem
  <2>7. CASE ClearLines
    BY <2>7 DEF ScreenTypeOK, ClearLines
  <2>8. CASE UNCHANGED screenVars
    BY <2>8 DEF ScreenTypeOK
  <2> QED
    BY <2>1, <2>2, <2>3, <2>4, <2>5, <2>6, <2>7, <2>8 DEF ScreenNext, CpuStep, SdlStep
<1> QED
  BY <1>1, <1>2, PTL DEF ScreenSpec

-----------------------------------------------------------------------------
(* StaleOnlyIfRaced says of every line that it is shown, or accounted for  *)
(* as below; a step disturbs the account of one line at a time.            *)
Accounted(r) ==
  \/ screen[r] = vmem[r]
  \/ line_dirty[r] /\ (sdlPc = "idle" \/ (sdlPc = "copy" /\ row <= r))
  \/ cpuPc = "flagLine" /\ line = r
  \/ r \in raced

(* No step of either thread makes a line stale without an account of it.   *)
LEMMA StaleStep ==
  ASSUME ScreenTypeOK, NEW r \in Rows, Accounted(r), [ScreenNext]_screenVars
  PROVE  Accounted(r)'
<1>1. ASSUME NEW w \in Rows, NEW pixel \in Pixels, Write(w, pixel) PROVE Accounted(r)'
  <2>1. CASE w = r
    BY <1>1, <2>1 DEF Accounted, Write
  <2>2. CASE w # r
    <3>1. vmem'[r] = vmem[r] /\ (r \in raced => r \in raced')
      BY <1>1, <2>2 DEF ScreenTypeOK, Write, RacedWith
    <3> QED
      BY <1>1, <3>1 DEF Accounted, Write
  <2> QED
    BY <2>1, <2>2
<1>2. CASE FlagLine
  <2>1. CASE line = r
    <3>1. CASE sdlPc = "idle"
      BY <1>2, <2>1, <3>1 DEF ScreenTypeOK, Accounted, FlagLine
    <3>2. CASE sdlPc # "idle"
      BY <1>2, <2>1, <3>2 DEF Accounted, FlagLine, RacedWith, Updating
    <3> QED
      BY <3>1, <3>2
  <2>2. CASE line # r
    <3>1. line_dirty'[r] = line_dirty[r] /\ (r \in raced => r \in raced')
      BY <1>2, <2>2 DEF ScreenTypeOK, FlagLine, RacedWith
    <3> QED
      BY <1>2, <2>2, <3>1 DEF Accounted, FlagLine
  <2> QED
    BY <2>1, <2>2
<1>3. CASE FlagMem
  BY <1>3 DEF Accounted, FlagMem
<1>4. CASE UpdateScreen
  BY <1>4 DEF ScreenTypeOK, Accounted, UpdateScreen
<1>5. CASE CopyLine
  <2>1. CASE row = r
    <3>1. CASE line_dirty[row]
      BY <1>5, <2>1, <3>1 DEF ScreenTypeOK, Accounted, CopyLine
    <3>2. CASE ~line_dirty[row]
      BY <1>5, <2>1, <3>2 DEF Accounted, CopyLine
    <3> QED
      BY <3>1, <3>2
  <2>2. CASE row # r
    <3>1. screen'[r] = screen[r] /\ (r \in raced => r \in raced')
      BY <1>5, <2>2 DEF ScreenTypeOK, CopyLine
    <3>2. row <= r => sdlPc' = "copy" /\ row' <= r
      BY <1>5, <2>2 DEF ScreenTypeOK, CopyLine
    <3> QED
      BY <1>5, <3>1, <3>2 DEF Accounted, CopyLine
  <2> QED
    BY <2>1, <2>2
<1>6. CASE ClearMem
  BY <1>6 DEF Accounted, ClearMem
<1>7. CASE ClearLines
  BY <1>7 DEF Accounted, ClearLines
<1>8. CASE UNCHANGED screenVars
  BY <1>8 DEF Accounted
<1> QED
  BY <1>1, <1>2, <1>3, <1>4, <1>5, <1>6, <1>7, <1>8 DEF ScreenNext, CpuStep, SdlStep

(* An update loses a guest's write only if the two ran at the same time,   *)
(* whatever the order of the steps of update_screen and of mmio_write.     *)
THEOREM OnlyRacesLoseWrites == ScreenSpec => []StaleOnlyIfRaced
<1>1. StaleOnlyIfRaced <=> \A r \in Rows : Accounted(r)
  BY DEF StaleOnlyIfRaced, Accounted
<1>2. StaleOnlyIfRaced' <=> \A r \in Rows : Accounted(r)'
  BY DEF StaleOnlyIfRaced, Accounted
<1>3. ScreenInit => StaleOnlyIfRaced
  BY DEF ScreenInit, StaleOnlyIfRaced
<1>4. ScreenTypeOK /\ StaleOnlyIfRaced /\ [ScreenNext]_screenVars => StaleOnlyIfRaced'
  BY <1>1, <1>2, StaleStep
<1> QED
  BY <1>3, <1>4, ScreenTypeCorrect, PTL DEF ScreenSpec

(* Both threads write line_dirty and vmem_dirty in the one order that      *)
(* keeps a flagged line from being forgotten.                              *)
THEOREM FlagsKept == ScreenSpec => []DirtyLinesNoticed
<1>1. ScreenInit => DirtyLinesNoticed
  BY DEF ScreenInit, DirtyLinesNoticed
<1>2. ScreenTypeOK /\ DirtyLinesNoticed /\ [ScreenNext]_screenVars => DirtyLinesNoticed'
  <2> SUFFICES ASSUME ScreenTypeOK, DirtyLinesNoticed, [ScreenNext]_screenVars PROVE DirtyLinesNoticed'
    OBVIOUS
  <2>1. ASSUME NEW r \in Rows, NEW pixel \in Pixels, Write(r, pixel) PROVE DirtyLinesNoticed'
    BY <2>1 DEF DirtyLinesNoticed, Write
  <2>2. CASE FlagLine
    BY <2>2 DEF DirtyLinesNoticed, FlagLine
  <2>3. CASE FlagMem
    BY <2>3 DEF DirtyLinesNoticed, FlagMem
  <2>4. CASE UpdateScreen
    BY <2>4 DEF DirtyLinesNoticed, UpdateScreen
  <2>5. CASE CopyLine
    BY <2>5 DEF DirtyLinesNoticed, CopyLine
  <2>6. CASE ClearMem
    BY <2>6 DEF DirtyLinesNoticed, ClearMem
  <2>7. CASE ClearLines
    BY <2>7 DEF DirtyLinesNoticed, ClearLines
  <2>8. CASE UNCHANGED screenVars
    BY <2>8 DEF DirtyLinesNoticed
  <2> QED
    BY <2>1, <2>2, <2>3, <2>4, <2>5, <2>6, <2>7, <2>8 DEF ScreenNext, CpuStep, SdlStep
<1> QED
  BY <1>1, <1>2, ScreenTypeCorrect, PTL DEF ScreenSpec
=============================================================================
