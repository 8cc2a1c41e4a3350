---------------------------- MODULE Breakpoints -----------------------------
(***************************************************************************)
(* The debugger of NEMU: the pool of nemu/src/monitor/breakpoint.c, the    *)
(* commands of ui.c that use it and the loop of exec in cpu.c, which       *)
(* patches the program with INT3_CODE, takes the patch out when it is hit  *)
(* and puts it back after the next instruction.                            *)
(*                                                                         *)
(* The program is a set of one-byte instructions, any of which may go      *)
(* anywhere and change the one value the watchpoints watch, but not the    *)
(* program.  So may the debugger itself, where it patches a byte or moves  *)
(* eip, and do_intr, where it pushes a frame and goes to a handler after   *)
(* the watchpoints have been scanned.                                      *)
(***************************************************************************)
EXTENDS Integers, FiniteSets

CONSTANTS
  NAddrs,          \* the program occupies addresses 0 .. NAddrs - 1
  Program,         \* its bytes, "op" or (BREAK_POINT in the code) "int3"
  Handlers,        \* addresses do_intr may go to
  NR_BP,           \* size of the pool, 32 in NEMU
  Commands,        \* bound: the commands the user gives
  MaxBreakpoints,  \* bound: breakpoints set at a time
  MaxWatchpoints,  \* bound: watchpoints set at a time
  MaxSteps,        \* bound: the largest argument of si
  MaxN             \* the largest uint32_t, 2^32 - 1 in NEMU

Addrs == 0 .. NAddrs - 1
Slots == 0 .. NR_BP - 1
NULL == -1
Unlimited == MaxN    \* exec(-1)
Values == {0, 1}

ASSUME DebuggerAssumption ==
  /\ NAddrs \in Nat \ {0} /\ NR_BP \in Nat \ {0}
  /\ MaxSteps \in Nat /\ MaxN \in Nat \ {0} /\ MaxSteps <= MaxN
  /\ Program \in [Addrs -> {"op", "int3"}]
  /\ Handlers \subseteq Addrs
  /\ Commands \subseteq {"b", "w", "d", "c", "si", "q"}

VARIABLES
  code,        \* the program's bytes in memory, patched
  eip,
  watched,     \* the value of the watchpoints' expression
  nemu_state,
  pc,          \* at the prompt, at the head of exec's loop, before its do_intr
  n,           \* instructions left to exec
  hit_break_rerun,
  bp_list,     \* per slot: in_use, type, addr, ori_byte, old_val, next
  head, free_,
  done,        \* history: the commands since the restart that weaken the debugger
  lost         \* history: a NEMU_BREAK was replaced and no breakpoint rearmed since

machine == <<code, eip, watched>>
loop == <<nemu_state, pc, n, hit_break_rerun>>
pool == <<bp_list, head, free_>>
vars == <<machine, loop, pool, done, lost>>

-----------------------------------------------------------------------------
(* The lists.  Walk(bps, p)[k] is the k-th node from p on, NULL past the   *)
(* end.                                                                    *)
Walk(bps, p) ==
  LET node[k \in 0 .. NR_BP] ==
        IF k = 0 THEN p
        ELSE IF node[k - 1] = NULL THEN NULL ELSE bps[node[k - 1]].next
  IN node

Linked(bps, p) == {Walk(bps, p)[k] : k \in 0 .. NR_BP} \ {NULL}

Position(p) == CHOOSE k \in 0 .. NR_BP : Walk(bp_list, head)[k] = p

(* The first of the listed slots S, NULL if there is none *)
FirstOf(S) ==
  IF S = {} THEN NULL
  ELSE CHOOSE p \in S : \A q \in S : Position(p) <= Position(q)

Breakpoints == {p \in Linked(bp_list, head) : bp_list[p].type = "BREAKPOINT"}
Watchpoints == {p \in Linked(bp_list, head) : bp_list[p].type = "WATCHPOINT"}
BreakpointAddrs == {bp_list[p].addr : p \in Breakpoints}

(* find_breakpoint *)
Found(a) == FirstOf({p \in Breakpoints : bp_list[p].addr = a})

(* scan_watchpoint *)
Changed(val) == FirstOf({p \in Watchpoints : bp_list[p].old_val # val})

EmptyPool ==
  [p \in Slots |->
     [in_use |-> FALSE, type |-> "BREAKPOINT", addr |-> 0, ori_byte |-> "op",
      old_val |-> 0, next |-> IF p + 1 \in Slots THEN p + 1 ELSE NULL]]

(* free_BP.  What a slot held is left in it and set anew before it is read *)
(* again; here it goes back to its initial value at once.                  *)
Freed(p, rest) == [EmptyPool[p] EXCEPT !.next = rest]

Init ==
  /\ code = Program
  /\ eip = 0
  /\ watched = 0
  /\ nemu_state = "READY"
  /\ pc = "prompt"
  /\ n = 0
  /\ hit_break_rerun = FALSE
  /\ bp_list = EmptyPool
  /\ head = NULL
  /\ free_ = 0
  /\ done = {}
  /\ lost = FALSE

-----------------------------------------------------------------------------
(* The commands.  ui_mainloop leaves when the machine has stopped.         *)
Prompt(cmd) == pc = "prompt" /\ nemu_state # "STOP" /\ cmd \in Commands

(* new_BP, filled with bp and put in front of the list; the assertion      *)
(* free_ != NULL ends NEMU                                                 *)
Insert(bp) ==
  /\ free_ # NULL
  /\ bp_list' = [bp_list EXCEPT ![free_] = bp]
  /\ head' = free_
  /\ free_' = bp_list[free_].next

(* b: set_breakpoint; the watched value may be the patched byte *)
SetBreakpoint(a) ==
  /\ Prompt("b")
  /\ Cardinality(Breakpoints) < MaxBreakpoints
  /\ Insert([in_use |-> TRUE, type |-> "BREAKPOINT", addr |-> a, ori_byte |-> code[a],
             old_val |-> 0, next |-> head])
  /\ code' = [code EXCEPT ![a] = "int3"]
  /\ watched' \in Values
  /\ done' = IF Breakpoints = {} THEN done ELSE done \union {"second b"}
  /\ UNCHANGED <<eip, loop, lost>>

(* w: set_watchpoint *)
SetWatchpoint ==
  /\ Prompt("w")
  /\ Cardinality(Watchpoints) < MaxWatchpoints
  /\ Insert([in_use |-> TRUE, type |-> "WATCHPOINT", addr |-> 0, ori_byte |-> "op",
             old_val |-> watched, next |-> head])
  /\ UNCHANGED <<machine, loop, done, lost>>

MutDeleteBreakpoint_noPrev(p) ==     \* the list starts again at the head
  /\ Prompt("d")
  /\ p \in Linked(bp_list, head)
  /\ head' = bp_list[p].next
  /\ bp_list' = [bp_list EXCEPT ![p] = Freed(p, free_)]
  /\ free_' = p
  /\ done' = done \union {"d"}
  /\ UNCHANGED <<machine, loop, lost>>

(* d NO: delete_breakpoint unlinks the slot and frees it; the patch stays  *)
(* in the program.                                                         *)
DeleteBreakpoint(p) ==
  LET prev == {q \in Linked(bp_list, head) : bp_list[q].next = p}
  IN /\ Prompt("d")
     /\ p \in Linked(bp_list, head)
     /\ head' = IF p = head THEN bp_list[p].next ELSE head
     /\ bp_list' = [q \in Slots |->
          IF q = p THEN Freed(p, free_)
          ELSE IF q \in prev THEN [bp_list[q] EXCEPT !.next = bp_list[p].next]
          ELSE bp_list[q]]
     /\ free_' = p
     /\ done' = done \union {"d"}
     /\ UNCHANGED <<machine, loop, lost>>

(* d: delete_all_breakpoint frees the list from its tail *)
DeleteAll ==
  LET used == Linked(bp_list, head)
  IN /\ Prompt("d")
     /\ used # {}
     /\ bp_list' = [q \in Slots |->
          IF q \notin used THEN bp_list[q]
          ELSE Freed(q, IF bp_list[q].next = NULL THEN free_ ELSE bp_list[q].next)]
     /\ free_' = head
     /\ head' = NULL
     /\ done' = done \union {"d"}
     /\ UNCHANGED <<machine, loop, lost>>

(* exec(steps): a machine that is at a breakpoint remembers to rearm it *)
Exec(steps) ==
  /\ pc' = "loop"
  /\ n' = steps
  /\ hit_break_rerun' = (nemu_state = "BREAK")
  /\ nemu_state' = "RUN"
  /\ UNCHANGED <<machine, pool, done, lost>>

Continue == Prompt("c") /\ Exec(Unlimited)
StepInst(steps) == Prompt("si") /\ Exec(steps)

MutRestart_keepsImage ==             \* the image is not loaded again
  /\ pc = "prompt"
  /\ nemu_state = "STOP" \/ "q" \in Commands
  /\ eip' = 0
  /\ watched' = 0
  /\ nemu_state' = "READY"
  /\ bp_list' = EmptyPool
  /\ head' = NULL
  /\ free_' = 0
  /\ done' = {}
  /\ lost' = FALSE
  /\ UNCHANGED <<code, pc, n, hit_break_rerun>>

(* The program is over, or the user quits it: the next one of an autorun   *)
(* starts with restart and load_image.                                     *)
Restart ==
  /\ pc = "prompt"
  /\ nemu_state = "STOP" \/ "q" \in Commands
  /\ code' = Program
  /\ eip' = 0
  /\ watched' = 0
  /\ nemu_state' = "READY"
  /\ bp_list' = EmptyPool
  /\ head' = NULL
  /\ free_' = 0
  /\ done' = {}
  /\ lost' = FALSE
  /\ UNCHANGED <<pc, n, hit_break_rerun>>

-----------------------------------------------------------------------------
(* One iteration of exec                                                   *)

MutResumed_skipsPatch(c) ==          \* the opcodes are saved, not patched
  [code |-> c,
   bps |-> [p \in Slots |->
     IF p \in Breakpoints THEN [bp_list[p] EXCEPT !.ori_byte = c[bp_list[p].addr]]
                          ELSE bp_list[p]]]

(* resume_breakpoints: every listed breakpoint saves the byte in memory    *)
(* and patches it; of two at one address the second saves the patch        *)
Resumed(c) ==
  [code |-> [a \in Addrs |-> IF a \in BreakpointAddrs THEN "int3" ELSE c[a]],
   bps |-> [p \in Slots |->
     IF p \in Breakpoints
       THEN [bp_list[p] EXCEPT !.ori_byte =
               IF p = Found(bp_list[p].addr) THEN c[bp_list[p].addr] ELSE "int3"]
       ELSE bp_list[p]]]

(* The program and the pool after the test of hit_break_rerun *)
Rearmed == IF hit_break_rerun THEN Resumed(code) ELSE [code |-> code, bps |-> bp_list]

(* The rest of the iteration: a watchpoint whose value changed ends exec,  *)
(* whatever the instruction did to nemu_state; else do_intr comes          *)
Watch(bps, val, state) ==
  LET wp == Changed(val)
  IN /\ bp_list' = IF wp = NULL THEN bps ELSE [bps EXCEPT ![wp].old_val = val]
     /\ nemu_state' = IF wp = NULL THEN state ELSE "READY"
     /\ pc' = IF wp = NULL THEN "intr" ELSE "loop"
     /\ lost' = \/ lost /\ ~hit_break_rerun
                \/ wp # NULL /\ state = "BREAK"

MutIteration_onceMore ==             \* the count tested for >= 0
  /\ pc = "loop"
  /\ n >= 0
  /\ nemu_state = "RUN"
  /\ n' = n - 1
  /\ hit_break_rerun' = FALSE
  /\ watched' \in Values
  /\ UNCHANGED <<head, free_, done>>

(* The count of exec(-1) goes down as well.  When the watchpoints are      *)
(* scanned their value may be another, whatever was executed: the debugger *)
(* may have put back or patched the byte they watch, or moved eip.         *)
Iteration ==
  /\ pc = "loop"
  /\ n > 0
  /\ nemu_state = "RUN"
  /\ n' = n - 1
  /\ hit_break_rerun' = FALSE
  /\ watched' \in Values
  /\ UNCHANGED <<head, free_, done>>

(* an instruction of the program, nemu_trap among them *)
Instruction ==
  /\ Iteration
  /\ code[eip] = "op"
  /\ eip' \in Addrs
  /\ code' = Rearmed.code
  /\ \E state \in {"RUN", "STOP"} : Watch(Rearmed.bps, watched', state)

MutBreakHit_noRestore ==             \* the opcode is not put back
  /\ Iteration
  /\ code[eip] = "int3"
  /\ Found(eip) # NULL
  /\ code' = Rearmed.code
  /\ UNCHANGED eip
  /\ Watch(Rearmed.bps, watched', "BREAK")

(* INT3_CODE of a breakpoint: the opcode is restored and eip moved back *)
BreakHit ==
  /\ Iteration
  /\ code[eip] = "int3"
  /\ Found(eip) # NULL
  /\ code' = [Rearmed.code EXCEPT ![eip] = Rearmed.bps[Found(eip)].ori_byte]
  /\ UNCHANGED eip
  /\ Watch(Rearmed.bps, watched', "BREAK")

(* INT3_CODE that belongs to no breakpoint *)
BreakUnknown ==
  /\ Iteration
  /\ code[eip] = "int3"
  /\ Found(eip) = NULL
  /\ code' = Rearmed.code
  /\ eip' = (eip + 1) % NAddrs
  /\ Watch(Rearmed.bps, watched', "BREAK")

(* do_intr, in every iteration no watchpoint has ended, also one that hit  *)
(* a breakpoint: an interrupt pushes its frame and moves eip, after the    *)
(* watchpoints have been scanned                                           *)
DoIntr ==
  /\ pc = "intr"
  /\ pc' = "loop"
  /\ \/ UNCHANGED <<eip, watched>>
     \/ eip' \in Handlers /\ watched' \in Values
  /\ UNCHANGED <<code, nemu_state, n, hit_break_rerun, pool, done, lost>>

(* exec returns to the prompt *)
ExecReturn ==
  /\ pc = "loop"
  /\ n = 0 \/ nemu_state # "RUN"
  /\ pc' = "prompt"
  /\ nemu_state' = IF nemu_state # "STOP" /\ n = 0 THEN "READY" ELSE nemu_state
  /\ lost' = (lost \/ (nemu_state = "BREAK" /\ n = 0))
  /\ n' = 0
  /\ hit_break_rerun' = FALSE
  /\ UNCHANGED <<machine, pool, done>>

ExecStep == Instruction \/ BreakHit \/ BreakUnknown \/ DoIntr \/ ExecReturn

Next ==
  \/ \E a \in Addrs : SetBreakpoint(a)
  \/ SetWatchpoint
  \/ \E p \in Slots : DeleteBreakpoint(p)
  \/ DeleteAll
  \/ Continue
  \/ \E steps \in 1 .. MaxSteps : StepInst(steps)
  \/ Restart
  \/ ExecStep

Spec == Init /\ [][Next]_vars

(* exec keeps executing; the user need not do anything *)
FairSpec == Spec /\ WF_vars(ExecStep)

-----------------------------------------------------------------------------
BP == [in_use : BOOLEAN, type : {"BREAKPOINT", "WATCHPOINT"}, addr : Addrs,
       ori_byte : {"op", "int3"}, old_val : Values, next : Slots \union {NULL}]

(* Type invariant of the machine, the loop of exec and the pool.           *)
TypeOK ==
  /\ code \in [Addrs -> {"op", "int3"}]
  /\ eip \in Addrs
  /\ watched \in Values
  /\ nemu_state \in {"READY", "RUN", "BREAK", "STOP"}
  /\ pc \in {"prompt", "loop", "intr"}
  /\ n \in 0 .. MaxN
  /\ hit_break_rerun \in BOOLEAN
  /\ bp_list \in [Slots -> BP]
  /\ head \in Slots \union {NULL}
  /\ free_ \in Slots \union {NULL}
  /\ done \subseteq {"second b", "d"}
  /\ lost \in BOOLEAN

(* No sequence of commands and restarts loses a slot of the pool or lists  *)
(* one twice: the two lists of new_BP and free_BP are disjoint, hold every *)
(* slot between them and agree with in_use.                                *)
PoolIntact ==
  /\ Linked(bp_list, head) = {p \in Slots : bp_list[p].in_use}
  /\ Linked(bp_list, free_) = {p \in Slots : ~bp_list[p].in_use}

(* A breakpoint is in the program, except while the machine stands at it   *)
(* and until the instruction under it has run: the guest cannot run        *)
(* through it (set_breakpoint, exec and resume_breakpoints together),      *)
(* whatever is set, deleted or stepped over and wherever interrupts go.    *)
(* The one gap: where a NEMU_BREAK is replaced by NEMU_READY, by the end   *)
(* of a count or by a watchpoint that changed, a breakpoint stays out      *)
(* until the next one that is hit has been rearmed.                        *)
Armed ==
  ~lost =>
    \A a \in BreakpointAddrs :
      code[a] = "int3" \/ nemu_state = "BREAK" \/ hit_break_rerun

(* The program differs from the user's only where a breakpoint is set,     *)
(* until one is deleted.                                                   *)
OnlyBreakpointsPatched ==
  "d" \notin done =>
    \A a \in Addrs : code[a] # Program[a] => a \in BreakpointAddrs

(* A user who keeps continuing gets the program to run on: it does not     *)
(* stop at the same breakpoint for ever without an instruction in between, *)
(* if there is only the one of its kind and it is not deleted; not for     *)
(* interrupts either, nor for steps and watchpoints.                       *)
ContinueAdvances ==
  <>[](done = {}) /\ []<><<Continue>>_vars => []<><<Instruction \/ Restart>>_vars

-----------------------------------------------------------------------------
(* A claim of the repository the code does not keep: *)

(* exec says it restores the original opcode of a breakpoint it has found. *)
RestoresOriginal ==
  nemu_state = "BREAK" /\ pc = "intr" /\ eip \in BreakpointAddrs =>
    code[eip] = Program[eip]
=============================================================================
