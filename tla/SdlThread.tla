----------------------------- MODULE SdlThread ------------------------------
(***************************************************************************)
(* The life of the SDL thread (sdl.c) beside the main thread, which runs   *)
(* one program of an autorun after the other (main.c), and the keyboard    *)
(* between them (keyboard.c).  init_sdl tests initialized and then maps    *)
(* the video memory (mm_io.c) and creates a thread, but that a thread is   *)
(* up is only known when the thread itself has set initialized: a program  *)
(* that ends before, or while init_sdl is at it, starts another one.       *)
(*                                                                         *)
(* Key events are numbered in the order in which SDL hands them out.  Of   *)
(* the controller only the keyboard's interrupt is kept, and that a tick   *)
(* of the timer overwrites it; Interrupts has the rest.                    *)
(***************************************************************************)
EXTENDS Naturals, Sequences, FiniteSets

CONSTANTS
  NPrograms,   \* programs of the autorun
  MaxMaps,     \* mappings of 0x20000 bytes that fit in mmio_space_pool: 2
  MaxKeys      \* bound: key events

ASSUME SdlAssumption == NPrograms \in Nat \ {0} /\ MaxMaps \in Nat /\ MaxKeys \in Nat

Threads == 1 .. NPrograms      \* one per restart at most
None == 0

VARIABLES
  mainPc,        \* where the main thread is
  left,          \* programs still to run
  nemu_state,
  initialized,
  threads,       \* where each SDL thread is, "none" before it is created
  event,         \* the key event a thread has polled and not raised
  maps,          \* the space behind each mapping of the video memory
  vmem_base,     \* the space the screen is drawn from
  keys,          \* key events so far
  scan_code_buf, \* the event in the buffer
  raised,        \* the event whose interrupt is pending
  serving        \* the event whose interrupt the guest's handler serves

main == <<mainPc, left, nemu_state>>
sdl == <<initialized, threads, event>>
video == <<maps, vmem_base>>
keyboard == <<keys, scan_code_buf, raised, serving>>
vars == <<main, sdl, video, keyboard>>

Created == {t \in Threads : threads[t] # "none"}
Up == {t \in Created : threads[t] # "init"}

Init ==
  /\ mainPc = "restart"
  /\ left = NPrograms
  /\ nemu_state = "STOP"
  /\ initialized = FALSE
  /\ threads = [t \in Threads |-> "none"]
  /\ event = [t \in Threads |-> None]
  /\ maps = <<>>
  /\ vmem_base = None
  /\ keys = 0
  /\ scan_code_buf = None
  /\ raised = None
  /\ serving = None

-----------------------------------------------------------------------------
(* The main thread *)

(* restart up to init_sdl: init_cpu clears cpu.intr                        *)
Restart ==
  /\ mainPc = "restart"
  /\ left > 0
  /\ left' = left - 1
  /\ raised' = None
  /\ serving' = None
  /\ mainPc' = "init_sdl"
  /\ UNCHANGED <<nemu_state, sdl, video, keys, scan_code_buf>>

(* add_mmio_map for init_vga, when its assertions hold                     *)
MapFits == Len(maps) < MaxMaps
MapVideo ==
  /\ maps' = Append(maps, Len(maps) + 1)
  /\ vmem_base' = Len(maps) + 1

MutInitSdl_mapsAlways ==              \* init_vga outside of the test
  /\ mainPc = "init_sdl"
  /\ MapFits
  /\ MapVideo
  /\ mainPc' = IF initialized THEN "load" ELSE "create"
  /\ UNCHANGED <<left, nemu_state, sdl, keyboard>>

MutInitSdl_noTest ==                  \* initialized is not tested
  /\ mainPc = "init_sdl"
  /\ mainPc' = "init_vga"
  /\ UNCHANGED <<left, nemu_state, sdl, video, keyboard>>

(* init_sdl tests what the thread sets; it may be set right after the test *)
InitSdl ==
  /\ mainPc = "init_sdl"
  /\ mainPc' = IF initialized THEN "load" ELSE "init_vga"
  /\ UNCHANGED <<left, nemu_state, sdl, video, keyboard>>

InitVga ==
  /\ mainPc = "init_vga"
  /\ MapFits
  /\ MapVideo
  /\ mainPc' = "create"
  /\ UNCHANGED <<left, nemu_state, sdl, keyboard>>

(* an assertion of add_mmio_map fails, which ends NEMU                     *)
MapFails ==
  /\ mainPc = "init_vga"
  /\ ~MapFits
  /\ mainPc' = "abort"
  /\ UNCHANGED <<left, nemu_state, sdl, video, keyboard>>

CreateThread ==
  /\ mainPc = "create"
  /\ threads' = [threads EXCEPT ![Cardinality(Created) + 1] = "init"]
  /\ mainPc' = "load"
  /\ UNCHANGED <<left, nemu_state, initialized, event, video, keyboard>>

(* single_run: the images are loaded, the machine is ready                 *)
Load ==
  /\ mainPc = "load"
  /\ nemu_state' = "READY"
  /\ mainPc' = "ready"
  /\ UNCHANGED <<left, sdl, video, keyboard>>

(* exec sets NEMU_RUN, whatever a closed window has made of the state      *)
ExecStart ==
  /\ mainPc = "ready"
  /\ nemu_state' = "RUN"
  /\ mainPc' = "exec"
  /\ UNCHANGED <<left, sdl, video, keyboard>>

(* do_intr takes the keyboard's interrupt                                  *)
TakeKey ==
  /\ mainPc = "exec" /\ nemu_state = "RUN"
  /\ raised # None /\ serving = None
  /\ serving' = raised
  /\ raised' = None
  /\ UNCHANGED <<main, sdl, video, keys, scan_code_buf>>

(* the guest's handler reads the keyboard's port, and returns              *)
ReadKey ==
  /\ mainPc = "exec" /\ nemu_state = "RUN"
  /\ serving # None
  /\ serving' = None
  /\ UNCHANGED <<main, sdl, video, keys, scan_code_buf, raised>>

(* nemu_trap: the program ends                                             *)
NemuTrap ==
  /\ mainPc = "exec" /\ nemu_state = "RUN"
  /\ nemu_state' = "STOP"
  /\ UNCHANGED <<mainPc, left, sdl, video, keyboard>>

(* exec and ui_mainloop return: the next program, or the end of main       *)
ExecReturn ==
  /\ mainPc = "exec" /\ nemu_state # "RUN"
  /\ mainPc' = IF left > 0 THEN "restart" ELSE "close_sdl"
  /\ UNCHANGED <<left, nemu_state, sdl, video, keyboard>>

close_sdl ==
  /\ mainPc = "close_sdl"
  /\ initialized' = FALSE
  /\ mainPc' = "return"
  /\ UNCHANGED <<left, nemu_state, threads, event, video, keyboard>>

(* main returns, which ends every thread                                   *)
Return ==
  /\ mainPc = "return"
  /\ mainPc' = "exit"
  /\ UNCHANGED <<left, nemu_state, sdl, video, keyboard>>

MainStep ==
  \/ Restart \/ InitSdl \/ InitVga \/ MapFails \/ CreateThread \/ Load \/ ExecStart
  \/ TakeKey \/ ReadKey \/ NemuTrap \/ ExecReturn
  \/ close_sdl \/ Return

-----------------------------------------------------------------------------
(* An SDL thread; it lives while NEMU does                                 *)
At(t, pc) == threads[t] = pc /\ mainPc \notin {"abort", "exit"}
Goto(t, pc) == threads' = [threads EXCEPT ![t] = pc]

(* SDL is initialised                                                      *)
Started(t) ==
  /\ At(t, "init")
  /\ initialized' = TRUE
  /\ Goto(t, "tick")
  /\ UNCHANGED <<main, event, video, keyboard>>

(* One turn of the loop starts with timer_intr, which raises its interrupt *)
(* over the keyboard's while the machine runs; or the loop ends            *)
Tick(t) ==
  /\ At(t, "tick")
  /\ initialized
  /\ raised' = IF nemu_state = "RUN" THEN None ELSE raised
  /\ Goto(t, "poll")
  /\ UNCHANGED <<main, initialized, event, video, keys, scan_code_buf, serving>>

(* SDL_PollEvent hands a key event to this thread                          *)
PollKey(t) ==
  /\ At(t, "poll")
  /\ keys < MaxKeys
  /\ keys' = keys + 1
  /\ event' = [event EXCEPT ![t] = keys + 1]
  /\ Goto(t, "store")
  /\ UNCHANGED <<main, initialized, video, scan_code_buf, raised, serving>>

MutStore_raisesFirst(t) ==            \* the interrupt before the scan code
  /\ At(t, "store")
  /\ raised' = event[t]
  /\ Goto(t, "raise")
  /\ UNCHANGED <<main, initialized, event, video, keys, scan_code_buf, serving>>

(* keyboard_down, keyboard_up: the scan code, then the interrupt           *)
Store(t) ==
  /\ At(t, "store")
  /\ scan_code_buf' = event[t]
  /\ Goto(t, "raise")
  /\ UNCHANGED <<main, initialized, event, video, keys, raised, serving>>

Raise(t) ==
  /\ At(t, "raise")
  /\ raised' = event[t]
  /\ event' = [event EXCEPT ![t] = None]
  /\ Goto(t, "poll")
  /\ UNCHANGED <<main, initialized, video, keys, scan_code_buf, serving>>

PollQuit(t) ==
  /\ At(t, "poll")
  /\ nemu_state' = "STOP"
  /\ UNCHANGED <<mainPc, left, sdl, video, keyboard>>

(* no event left *)
Delay(t) ==
  /\ At(t, "poll")
  /\ Goto(t, "tick")
  /\ UNCHANGED <<main, initialized, event, video, keyboard>>

(* the loop ends: close_vga takes the mappings away                        *)
Leave(t) ==
  /\ At(t, "tick")
  /\ ~initialized
  /\ maps' = <<>>
  /\ Goto(t, "gone")
  /\ UNCHANGED <<main, initialized, event, vmem_base, keyboard>>

ThreadStep(t) ==
  \/ Started(t) \/ Tick(t) \/ PollKey(t) \/ Store(t) \/ Raise(t)
  \/ PollQuit(t) \/ Delay(t) \/ Leave(t)

Next == MainStep \/ \E t \in Threads : ThreadStep(t)

Spec == Init /\ [][Next]_vars

-----------------------------------------------------------------------------
(* Type invariant of the threads, the mappings and the keyboard.           *)
TypeOK ==
  /\ mainPc \in {"restart", "init_sdl", "init_vga", "create", "load", "ready", "exec",
                 "close_sdl", "return", "exit", "abort"}
  /\ left \in 0 .. NPrograms
  /\ nemu_state \in {"READY", "RUN", "STOP"}
  /\ initialized \in BOOLEAN
  /\ threads \in [Threads -> {"none", "init", "tick", "poll", "store", "raise", "gone"}]
  /\ event \in [Threads -> 0 .. MaxKeys]
  /\ maps \in Seq(1 .. MaxMaps) /\ Len(maps) <= MaxMaps
  /\ vmem_base \in 0 .. MaxMaps
  /\ keys \in 0 .. MaxKeys
  /\ scan_code_buf \in 0 .. MaxKeys
  /\ raised \in 0 .. MaxKeys
  /\ serving \in 0 .. MaxKeys

(* A guest that serves the interrupt of a key finds the scan code of this  *)
(* key or of a later one in the one-byte buffer, never that of an earlier  *)
(* one, if a single thread fills it.                                       *)
KeyNotOlder ==
  Cardinality(Created) <= 1 => serving <= scan_code_buf

(* What the program draws is what the screen shows: is_mmio finds the      *)
(* space that vmem_base names, in every program of the autorun, if they    *)
(* share one thread.                                                       *)
OneScreen ==
  mainPc = "exec" /\ Cardinality(Created) <= 1 =>
    maps # <<>> /\ Head(maps) = vmem_base

(* init_sdl has found initialized clear and is about to map and create     *)
Creating == mainPc \in {"init_vga", "create"}

(* Two threads start only when a restart runs init_sdl before the first    *)
(* one is up: once a thread is up with main outside of the window between  *)
(* init_sdl's test and its SDL_CreateThread, no restart enters the window  *)
(* again, and neither a thread nor a mapping is added.                     *)
NoThreadAfterUp ==
  [][Up # {} /\ ~Creating =>
       ~Creating' /\ Created' = Created /\ Len(maps') <= Len(maps)]_vars
=============================================================================
