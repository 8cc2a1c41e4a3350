------------------------------ MODULE IdeRead -------------------------------
(***************************************************************************)
(* Reading the disk: the kernel's driver (kernel/src/driver/ide) with its  *)
(* sector cache, the interrupt handlers it registers (irq_handle.c), the   *)
(* IDE device of NEMU (nemu/src/device/dev/ide.c) and the controller the   *)
(* device shares with timer and keyboard.                                  *)
(*                                                                         *)
(* Raise and acknowledge are atomic here; Interrupts has them store by     *)
(* store.  An interrupt handler runs to its end between two steps of the   *)
(* kernel: handlers do not nest (HandlersNotNested of Interrupts).         *)
(* Nothing calls ide_write, so no sector is ever dirty and ide_writeback,  *)
(* the timer's handler, writes nothing.                                    *)
(***************************************************************************)
EXTENDS Naturals, Sequences, FiniteSets

CONSTANTS
  NSectors,       \* sectors of the disk
  NWords,         \* words of a sector, 128 in NEMU
  NR_SEC_CACHE,   \* sectors the kernel caches, 128
  NR_IRQ_HANDLE,  \* handlers the kernel has room for, 32
  Registrations   \* the handlers registered, in order: irq, func, and ints,
                  \* whether interrupts are on meanwhile

TimerIrq == 0
KeyboardIrq == 1
IdeIrq == 14
Irqs == {TimerIrq, KeyboardIrq, IdeIrq}
NoIntr == 255

Sectors == 0 .. NSectors - 1
WordNos == 0 .. NWords - 1
Entries == 0 .. NR_SEC_CACHE - 1

(* The device keeps the position, sector * 512, in 32 bits                *)
PositionSectors == 8388608
ASSUME DiskAssumption ==
  /\ NSectors \in Nat \ {0} /\ NSectors <= PositionSectors
  /\ NWords \in Nat \ {0}
  /\ NR_SEC_CACHE \in Nat \ {0}

ASSUME RegistrationsAssumption ==
  /\ NR_IRQ_HANDLE \in Nat
  /\ Registrations \in Seq([irq : Irqs, func : STRING, ints : BOOLEAN])
  /\ Len(Registrations) <= NR_IRQ_HANDLE

(* init_ide registers ide_intr for the disk while the kernel starts; the   *)
(* function is static in ide.c, so nothing else registers it               *)
ASSUME IdeIntrAssumption ==
  /\ \E k \in 1 .. Len(Registrations) :
       Registrations[k] = [irq |-> IdeIrq, func |-> "ide_intr", ints |-> TRUE]
  /\ \A k \in 1 .. Len(Registrations) :
       Registrations[k].func = "ide_intr" => Registrations[k].irq = IdeIrq

NULL == 0
Routines == {Registrations[k].func : k \in 1 .. Len(Registrations)} \union {"none"}
PoolNodes == 1 .. NR_IRQ_HANDLE

Word(sector, w) == <<sector, w>>     \* what the disk holds
Blank == <<>>                        \* what the kernel's memory holds at first
Words == (Sectors \X WordNos) \union {Blank}

VARIABLES
  pc,                     \* where the kernel is
  handle_pool, handles, handle_count,
  step,                   \* registrations begun
  cache,                  \* sector cache: used, sector, content per entry
  target, asked,          \* the sector and word read_byte is after
  i,                      \* words disk_do_read has copied
  has_ide_intr,
  disk_idx, byte_cnt,     \* device: the sector and word it stands at
  intr_no, intr,          \* the controller
  got,                    \* the word read_byte returned, and the one it was to
  lost                    \* history: a disk interrupt was overwritten

table == <<handle_pool, handles, handle_count, step>>
request == <<target, asked, i, got>>
device == <<disk_idx, byte_cnt>>
pic == <<intr_no, intr, lost>>
vars == <<pc, table, cache, request, has_ide_intr, device, pic>>

Entry(sector) == sector % NR_SEC_CACHE

Init ==
  /\ pc = "idle"
  /\ handle_pool = [n \in PoolNodes |-> [routine |-> "none", next |-> NULL]]
  /\ handles = [irq \in Irqs |-> NULL]
  /\ handle_count = 0
  /\ step = 0
  /\ cache = [e \in Entries |->
       [used |-> FALSE, sector |-> 0, content |-> [w \in WordNos |-> Blank]]]
  /\ target = 0 /\ asked = 0 /\ i = 0
  /\ has_ide_intr = FALSE
  /\ disk_idx = 0 /\ byte_cnt = 0
  /\ intr_no = NoIntr /\ intr = FALSE
  /\ got = [word |-> Blank, of |-> Blank]
  /\ lost = FALSE

-----------------------------------------------------------------------------
(* The controller *)

Raise(irq) ==
  /\ intr_no' = irq
  /\ intr' = TRUE
  /\ lost' = (lost \/ intr_no = IdeIrq)

(* The SDL thread raises for the timer and the keyboard at any time *)
DeviceRaises(irq) ==
  /\ Raise(irq)
  /\ UNCHANGED <<pc, table, cache, request, has_ide_intr, device>>

(* The handlers irq_handle calls, in order *)
Handlers(irq) ==
  LET node[k \in PoolNodes] ==
        IF k = 1 THEN handles[irq]
        ELSE IF node[k - 1] = NULL THEN NULL ELSE handle_pool[node[k - 1]].next
  IN [k \in {m \in PoolNodes : node[m] # NULL} |-> handle_pool[node[k]].routine]

Calls(irq, func) == \E k \in DOMAIN Handlers(irq) : Handlers(irq)[k] = func

(* System call 0 registers between cli and sti; the kernel does not *)
Registering == pc \in {"link", "publish"}
InterruptsOn == Registering => Registrations[step].ints

(* An interrupt is taken between two instructions and returns where it     *)
(* came from; the halted CPU goes on behind its hlt.                       *)
TakeInterrupt ==
  /\ intr /\ InterruptsOn
  /\ pc' = IF pc = "halted" THEN "wait" ELSE pc
  /\ intr_no' = NoIntr
  /\ intr' = FALSE
  /\ has_ide_intr' = (has_ide_intr \/ Calls(intr_no, "ide_intr"))
  /\ UNCHANGED <<table, cache, request, device, lost>>

-----------------------------------------------------------------------------
(* add_irq_handle: take a node, link it, publish it *)

AddIrqHandle ==
  /\ pc = "idle"
  /\ step < Len(Registrations)
  /\ handle_count' = handle_count + 1
  /\ handle_pool' =
       [handle_pool EXCEPT ![handle_count'] =
          [routine |-> Registrations[step + 1].func, next |-> @.next]]
  /\ step' = step + 1
  /\ pc' = "link"
  /\ UNCHANGED <<handles, cache, request, has_ide_intr, device, pic>>

MutLink_publishes ==                 \* published before it is linked
  /\ pc = "link"
  /\ handles' = [handles EXCEPT ![Registrations[step].irq] = handle_count]
  /\ pc' = "publish"
  /\ UNCHANGED <<handle_pool, handle_count, step, cache, request, has_ide_intr, device, pic>>

Link ==
  /\ pc = "link"
  /\ handle_pool' =
       [handle_pool EXCEPT ![handle_count] =
          [routine |-> @.routine, next |-> handles[Registrations[step].irq]]]
  /\ pc' = "publish"
  /\ UNCHANGED <<handles, handle_count, step, cache, request, has_ide_intr, device, pic>>

Publish ==
  /\ pc = "publish"
  /\ handles' = [handles EXCEPT ![Registrations[step].irq] = handle_count]
  /\ pc' = "idle"
  /\ UNCHANGED <<handle_pool, handle_count, step, cache, request, has_ide_intr, device, pic>>

-----------------------------------------------------------------------------
(* read_byte, cache_fetch and disk_do_read *)

(* init_ide is over *)
Booted == \A k \in DOMAIN Registrations : Registrations[k].ints => k <= step

MutCached_anySector(sector) == cache[Entry(sector)].used   \* the tag ignored

Cached(sector) == cache[Entry(sector)].used /\ cache[Entry(sector)].sector = sector

ReadHit(sector, w) ==
  /\ pc = "idle" /\ Booted
  /\ Cached(sector)
  /\ got' = [word |-> cache[Entry(sector)].content[w], of |-> Word(sector, w)]
  /\ UNCHANGED <<pc, table, cache, target, asked, i, has_ide_intr, device, pic>>

ReadMiss(sector, w) ==
  /\ pc = "idle" /\ Booted
  /\ ~Cached(sector)
  /\ target' = sector
  /\ asked' = w
  /\ has_ide_intr' = FALSE           \* clear_ide_intr
  /\ pc' = "issue"
  /\ UNCHANGED <<table, cache, i, got, device, pic>>

(* ide_prepare and the read command: the device seeks and raises *)
IssueRead ==
  /\ pc = "issue"
  /\ disk_idx' = target % PositionSectors
  /\ byte_cnt' = 0
  /\ Raise(IdeIrq)
  /\ pc' = "wait"
  /\ UNCHANGED <<table, cache, request, has_ide_intr>>

MutWaitIdeIntr_clearsFirst ==        \* clear_ide_intr at the head of the loop
  /\ pc = "wait"
  /\ pc' = "hlt"
  /\ has_ide_intr' = FALSE
  /\ UNCHANGED <<table, cache, request, device, pic>>

(* wait_ide_intr tests the flag; the hlt it goes to is another instruction *)
WaitIdeIntr ==
  /\ pc = "wait"
  /\ pc' = IF has_ide_intr THEN "clear" ELSE "hlt"
  /\ UNCHANGED <<table, cache, request, has_ide_intr, device, pic>>

(* halted until intr is set, also if it was set and reset before the hlt   *)
Hlt ==
  /\ pc = "hlt"
  /\ pc' = "halted"
  /\ UNCHANGED <<table, cache, request, has_ide_intr, device, pic>>

MutClearIdeIntr_keepsFlag ==         \* clear_ide_intr forgotten
  /\ pc = "clear"
  /\ i' = 0
  /\ pc' = "copy"
  /\ UNCHANGED <<table, cache, target, asked, got, has_ide_intr, device, pic>>

ClearIdeIntr ==
  /\ pc = "clear"
  /\ has_ide_intr' = FALSE
  /\ i' = 0                          \* disk_do_read's loop begins
  /\ pc' = "copy"
  /\ UNCHANGED <<table, cache, target, asked, got, device, pic>>

(* the cache with word w of the target's entry replaced *)
CacheWith(w, word) ==
  [cache EXCEPT ![Entry(target)] =
     [used |-> @.used, sector |-> @.sector, content |-> [@.content EXCEPT ![w] = word]]]

MutCopyWord_short ==                 \* the loop ends a word early
  /\ pc = "copy"
  /\ byte_cnt <= NWords
  /\ byte_cnt' = byte_cnt + 1
  /\ cache' = CacheWith(i, Word(disk_idx, byte_cnt))
  /\ i' = i + 1
  /\ pc' = IF i + 1 < NWords - 1 THEN "copy" ELSE "filled"
  /\ UNCHANGED <<table, target, asked, got, has_ide_intr, disk_idx, pic>>

MutCopyWord_long ==                  \* the loop ends a word late
  /\ pc = "copy"
  /\ byte_cnt <= NWords
  /\ byte_cnt' = byte_cnt + 1
  /\ cache' = CacheWith(i, Word(disk_idx, byte_cnt))
  /\ i' = i + 1
  /\ pc' = IF i < NWords THEN "copy" ELSE "filled"
  /\ UNCHANGED <<table, target, asked, got, has_ide_intr, disk_idx, pic>>

(* in_long: the device's next word, and its assertion on byte_cnt *)
CopyWord ==
  /\ pc = "copy"
  /\ byte_cnt <= NWords
  /\ byte_cnt' = byte_cnt + 1
  /\ cache' = CacheWith(i, Word(disk_idx, byte_cnt))
  /\ i' = i + 1
  /\ pc' = IF i + 1 < NWords THEN "copy" ELSE "filled"
  /\ UNCHANGED <<table, target, asked, got, has_ide_intr, disk_idx, pic>>

(* cache_fetch records the sector, read_byte returns *)
Filled ==
  /\ pc = "filled"
  /\ cache' = [cache EXCEPT ![Entry(target)] =
                  [used |-> TRUE, sector |-> target, content |-> @.content]]
  /\ got' = [word |-> cache[Entry(target)].content[asked], of |-> Word(target, asked)]
  /\ pc' = "idle"
  /\ UNCHANGED <<table, target, asked, i, has_ide_intr, device, pic>>

-----------------------------------------------------------------------------
KernelStep ==
  \/ Link \/ Publish
  \/ IssueRead \/ WaitIdeIntr \/ Hlt \/ ClearIdeIntr \/ CopyWord \/ Filled

Next ==
  \/ AddIrqHandle
  \/ \E sector \in Sectors, w \in WordNos : ReadHit(sector, w) \/ ReadMiss(sector, w)
  \/ KernelStep
  \/ TakeInterrupt
  \/ \E irq \in {TimerIrq, KeyboardIrq} : DeviceRaises(irq)

Spec == Init /\ [][Next]_vars

(* The CPU executes what the kernel has begun and takes interrupts after   *)
(* its instructions; the timer of a running machine ticks.                 *)
FairSpec ==
  Spec /\ WF_vars(KernelStep) /\ WF_vars(TakeInterrupt) /\ WF_vars(DeviceRaises(TimerIrq))

-----------------------------------------------------------------------------
(* Type invariant of the kernel, the device and the controller.            *)
TypeOK ==
  /\ pc \in {"idle", "link", "publish", "issue", "wait", "hlt", "halted", "clear",
            "copy", "filled"}
  /\ handle_pool \in [PoolNodes -> [routine : Routines, next : PoolNodes \union {NULL}]]
  /\ handles \in [Irqs -> PoolNodes \union {NULL}]
  /\ handle_count = step
  /\ step \in 0 .. Len(Registrations)
  /\ Registering => step > 0
  /\ cache \in [Entries -> [used : BOOLEAN, sector : Sectors,
                            content : [WordNos -> Words]]]
  /\ target \in Sectors /\ asked \in WordNos /\ i \in 0 .. NWords
  /\ has_ide_intr \in BOOLEAN
  /\ disk_idx \in Sectors /\ byte_cnt \in 0 .. NWords
  /\ intr_no \in Irqs \union {NoIntr} /\ intr \in BOOLEAN
  /\ got \in [word : Words, of : Words]
  /\ lost \in BOOLEAN

(* read_byte returns what the disk holds, from the cache or not, whatever  *)
(* interrupts come between the words of a transfer.                        *)
ReadsDisk == got.word = got.of

(* A cached sector is the disk's, except the one that is being replaced;   *)
(* and a transfer copies the words of the sector that was asked for, the   *)
(* driver and the device keeping count alike.                              *)
Waiting == pc \in {"wait", "hlt", "halted", "clear"}
Filling == pc = "issue" \/ Waiting \/ pc \in {"copy", "filled"}

CacheHoldsDisk ==
  \A e \in Entries :
    cache[e].used /\ ~(Filling /\ e = Entry(target)) =>
      \A w \in WordNos : cache[e].content[w] = Word(cache[e].sector, w)

TransferInStep ==
  pc \in {"copy", "filled"} => disk_idx = target /\ byte_cnt = i

(* A read waits exactly while the interrupt it waits for has been raised,  *)
(* is noted in has_ide_intr or was overwritten by another device: none is  *)
(* left over from an earlier read, and only an overwritten one leaves the  *)
(* kernel waiting.                                                         *)
InterruptAccountedFor ==
  Waiting <=> (has_ide_intr \/ intr_no = IdeIrq \/ lost)

(* registrations whose node is in its list *)
published == IF Registering THEN step - 1 ELSE step
Published(irq) == {r \in 1 .. published : Registrations[r].irq = irq}

(* Whenever an interrupt can come, also halfway through add_irq_handle, it *)
(* calls the handlers registered for it so far, the last one first.        *)
HandlersListed ==
  \A irq \in Irqs :
    /\ DOMAIN Handlers(irq) = 1 .. Cardinality(Published(irq))
    /\ \A r \in Published(irq) :
         Handlers(irq)[Cardinality({q \in Published(irq) : q >= r})] = Registrations[r].func

(* A read returns, unless its interrupt is overwritten: also when the      *)
(* interrupt is handled between the test of has_ide_intr and the hlt.  The *)
(* CPU then halts although the disk is ready, and only the next tick lets  *)
(* wait_ide_intr see the flag.                                             *)
ReadReturns == Waiting ~> (pc = "idle" \/ lost)
=============================================================================
