# A TLA+ model of NEMU2, its kernel and its game

This directory holds TLA+ models of the program in this repository, the TLC
configurations that check them and proofs of their main properties. It is written for
a reader who has the source next to it; paths are relative to `src/`.

## 1. The system

The repository is a teaching stack of three programs that run on each other:

- **NEMU** (`nemu/`), an x86 emulator: a CPU interpreter with ALU, x87 unit, segmentation,
  paging, a TLB and an L1 cache; devices (timer, keyboard, VGA, IDE disk, serial line)
  behind port and memory-mapped I/O; a monitor with breakpoints, watchpoints and expressions.
  It has two host threads: the *CPU thread* (`main`, `exec`) and the *SDL thread*
  (`NEMU_SDL_Thread`), which ticks the timer, updates the screen and receives the
  keyboard. They share plain global variables and no lock.
- a **kernel** (`kernel/`) that runs in NEMU: page tables, an interrupt table with
  chained handlers, system calls, an IDE driver with a sector cache, an ELF loader.
- a **game** (`game/src/typing`, `game/src/common`) that runs on the kernel and registers
  its own interrupt handlers.

### 1.1 Inventory

| Component | State | Operations | Interacts with | Hard about it | Correct when |
|---|---|---|---|---|---|
| Interrupt path (`i8259_pic.c`, `cpu.c`, `intr.c`, `hlt.c`) | `intr_no`, `cpu.intr`, `IF`, `nemu_state`, frames on the guest stack | raise, query, acknowledge, `raise_intr`, `iret`, `hlt`, `cli`/`sti`, the loop of `exec` | devices raise on the SDL thread, the IDE device on the CPU thread | unlocked two-store raise and acknowledge; one vector for all devices; nesting; halting and stopping | no vector is received twice per raise, handlers do not nest, interrupts keep coming, a halted CPU wakes, a stopped machine stops |
| L1 cache and memory (`cache.c`, `memory.c`) | `hw_mem`, `L1_dcache` | `cache_read`, `cache_write`, `init_cache`, `load_image` | every access outside the video memory | lines loaded twice, accesses across lines, stale tags after a restart | the guest sees a flat memory |
| Debugger (`breakpoint.c`, `ui.c`, `cpu.c`) | pool of slots on two lists, patched bytes of the program, `nemu_state`, `hit_break_rerun` | `b`, `w`, `d`, `c`, `si`, hit, rearm, restart | patches guest memory under `exec` | long command sequences; the rearming decision is kept in a shared variable | breakpoints stay armed, the program is otherwise unchanged, continuing makes progress |
| VGA (`vga.c`, `mm_io.c`) | video memory, `line_dirty`, `vmem_dirty`, the screen | `mmio_write` with its callback, `update_screen` | CPU thread writes, SDL thread copies | flags set and cleared without a lock | what is written comes to be shown |
| Typing game (`game.c`, `effect.c`, `keyboard.c`, `linklist.h`) | `tick`, `now`, letters on a linked list with a pool, pressed keys | the main loop, two interrupt handlers | kernel dispatches timer and keyboard to it | interrupts anywhere; removal while walking; catching up with a clock that runs on | one move per tick and letter, no node lost, pool large enough, letters leave |
| Timer (`timer.c`) | none | tick | raises IRQ 0 | stops with the machine | ticks while the machine runs |
| Keyboard (`keyboard.c`) | one scan code | key down, key up, port read | raises IRQ 1; read by the game's handler | overwritten before it is read | the codes read are a subsequence of the keys |
| SDL thread (`sdl.c`) | `initialized` | start, loop, close | all devices | flag set by the thread that is being started | one thread and one screen at a time |
| IDE device (`dev/ide.c`) and port I/O (`port_io.c`) | sector, byte count, ports | commands, 4-byte transfers | kernel driver; raises IRQ 14 | interrupt lost to a timer tick | a sector read is the sector asked for |
| Kernel IDE driver (`driver/ide`) | `has_ide_intr`, 128 cached sectors | `disk_do_read`, `wait_ide_intr`, `read_byte` | IDE device, interrupt handlers, loader | waits for an interrupt that may be lost | bytes read are the disk's |
| Kernel interrupt table (`irq_handle.c`, `do_irq.S`, `idt.c`, `do_syscall.c`) | handler lists, pool of 32 | `add_irq_handle`, `irq_handle`, system calls | hardware vectors; game registers by system call 0 | insertion while interrupts are on; pool limit | every registered handler is called once per interrupt |
| TLB and paging (`tlb.c`, `page.c`), segmentation (`segment.c`) | 64 entries, cr0, cr3, descriptor caches | `page_translate`, `page_walk`, fill | page tables in guest memory | never flushed; accesses across pages | a translation is the page tables' |
| Kernel memory (`kvm.c`, `mm.c`, `vmem.c`) | kernel and user page tables, `brk` | `init_page`, `init_mm`, `mm_brk` | read by the page walk | shrinking and growing `brk` | mappings never change under the TLB |
| ALU, x87, string instructions, expressions | registers | pure functions | the interpreter | flags, rounding, boundaries | equal to arithmetic on integers |
| Decoder, registers, monitor UI, symbols, serial line, file stub, loader, start-up | small or none | sequential | | little | covered by the repository's test programs |
| SDLPAL, newlib, test programs | | vendored or inputs | | | not this system's logic |

`PROJECT.json` lists each of these with its sources and whether it is modelled, and the
hazards of the code at the lines where they bite.

## 2. Plan

| Step | Module | Of | Abstract specification | Proofs | State |
|---|---|---|---|---|---|
| 1 | `Interrupts` | interrupt path, timer, SDL loop | `IrqLatch` | type, nesting, refinement | done |
| 2 | `L1Cache` | cache and physical memory | `FlatMemory` | type, staleness, refinement | done |
| 3 | `Breakpoints` | debugger | | type, the pool, patches, armed breakpoints | done |
| 4 | `VgaRefresh` | screen | | type, staleness, flags | done |
| 5 | `TypingGame` | game | | type, clocks, interrupts on, the list, the pool, positions | done |
| 6 | `IdeRead` | IDE device, driver, sector cache, handler lists, with the controller's latch | | type, transfers, cached sectors and reads equal the disk, handler lists, the disk's interrupt | done |
| 7 | `MemoryManager`, `Paging` | kernel page tables, loader, `mm_brk`; TLB and page walk above them | a walk of the tables | type with the bound on the tables, mappings stay, the TLB agrees with the tables, the heap is mapped, frames follow, the image stays | done |
| 8 | `SdlThread` | start and stop of the thread, autorun, keyboard buffer, map table | a numbering of the keys | no thread past the window of `init_sdl`, one screen, order of keys | done |
| 9 | `LongArith` | add, adc, sub, sbb and conditions, with interrupts in between | integer arithmetic | results and flags for every word size, numbers of every length | done |

What is left is listed with its reasons in section 5.

Composition: `Interrupts` is the shared bottom. `VgaRefresh` is independent of it (other
shared variables of the same two threads), and so is `SdlThread`, where the same threads are created
and ended; of the controller it keeps the keyboard's interrupt only. `LongArith` uses
`HandlersNotNested` too: one frame is enough. `Paging` extends `MemoryManager`, the kernel that writes
the tables the MMU reads. `TypingGame` uses of it that handlers run
whenever `IF` is on and are not nested, which is what `HandlersNotNested` establishes.
`IdeRead` has the controller's latch with atomic raise and acknowledge,
where an overwritten vector is lost as `IrqLatch` allows.

## 3. Modules

### 3.1 `IrqLatch`, `Interrupts`, `InterruptsProofs`

`Interrupts` has one program counter per host thread. `i8259_raise_intr` stores `intr_no`,
then `cpu.intr`: two steps (`RaiseVector`, `RaiseLine`) on whichever thread the device runs;
`i8259_ack_intr` is `AckVector`, `AckLine`; `do_intr` tests (`DoIntr`), reads the vector
(`QueryIntrNo`), acknowledges and enters the gate (`RaiseIntr`, with `PushFrame`). `Exec` is
the test of `exec`'s loop, and each instruction that matters to interrupts is an action after
it: `CliSti`, `SoftwareInterrupt`, `Iret`, `IdeReadCommand`, `Hlt`, `NemuTrap`; all others
are `Plain`. `frames` is the part of the guest stack that `raise_intr` and `iret` use. Which
instruction a guest issues where is restricted to what the kernel and its programs do: `hlt`,
`int $0x80` and disk commands in the program, `cli`/`sti` in the program and in system call 0,
`iret` in handlers.

Steps of the two threads interleave in program order. The build (`-O2`) could reorder or
merge plain stores within one function; on x86 the hardware keeps stores in order.

`IrqLatch` is the promise to the kernel: an interrupt is serviced only after a raise and once
per raise. It allows the loss of an interrupt on purpose: the controller holds one vector, so
a timer tick can overwrite the disk's. The mapping takes `raised`, a history of vectors not
yet received, for `pending` and `do_intr`'s local variable for `serviced`.

| Property | Says |
|---|---|
| `HandlersNotNested` | a device handler is on top of the stack, runs with IF off, and interrupted code with IF on |
| `LatchSpec` | the refinement of `IrqLatch` |
| `InterruptsKeepComing` | a guest with interrupts on is interrupted again and again, and a halted CPU wakes while the machine runs |
| `StopsUnlessHalted` | a stopped machine leaves `exec`, unless a `hlt` holds it |
| `ReceivedVectorValid` (violated) | `cpu.c:118` asserts it; a raise between query and acknowledge breaks it, and the assertion compares a `uint8_t` with -1 |
| `QuitTerminates` (violated) | `sdl.c:25` says it; a CPU in `hlt` is not woken, since the timer stops with the machine |

Bounds: `MaxFrames = 3`; one handler, one system call and one more frame are all that
can occur except for frames of vector 255, which end in the panic.

Fairness: `WF` of the CPU thread, of the timer tick and of the pending store of the line
(the operating system schedules both threads); `SF` of `SdlDelay`, as SDL's event queue is
finite; `SF` of `Iret` and of `Panic`, as handlers are straight-line code. A user who never
stops pressing keys is not excluded otherwise.

### 3.2 `FlatMemory`, `L1Cache`, `L1CacheMC`, `L1CacheProofs`

`Read` and `Write` are `paddr_read` and `paddr_write`; `cache_read`, `cache_write` and
`init_cache` keep the source's names. An address is the triple of tag, group and offset the code
splits it into. Kept from the code: the victim is the first invalid way, else way 0; reads
across a line join two parts, the second through the cache; a scan that ends on an invalid way
with the tag loads the line a second time; a restart leaves tags and data. A write within a line
refreshes every valid copy of it. A write across lines copies through a pointer `p` that moves on
by a line at every hit and is never set back: with the first line in one way, that way and the
copies of the second line (looked up only in the next group) get their own data; with the first
line in two ways the second copy gets the next line's data and the second line that of the line
after (`LineAtP`), or what lies behind `hw_mem`: `PastEnd`, a parameter. The lookup past the end
of the array in the last group is modelled as finding nothing. `crossed` is history: the lines
whose copies a crossing write may have left wrong (`Misplaced`), until a write starts in them.

`StaleOnlyIfCrossed` bounds what is wrong: a stale line was the second line of a write across two
lines, or its first line cached twice, and has not been written to since. `FlatUntilCrossed` is
the refinement of `FlatMemory` while there is no such line: up to the first write that crosses,
and again once the lines concerned have been written to, or after a restart; compiled C with
aligned data never crosses.

Bounds: two tags, groups, ways, lines of four bytes, bits for bytes, and a selection of
accesses at both kinds of line boundary (within a tag, and from the last group to the next
tag); copies from behind the memory stay out of the instance's reach. The proofs cover every
content of `PastEnd` and every geometry with at least two groups and lines of at least four
bytes.

### 3.3 `Breakpoints`, `BreakpointsMC`, `BreakpointsProofs`

The pool is `bp_list` with `next` per slot, `head` and `free_`; insertion and deletion change the
same links as the code. `code` is the program's bytes, `"op"` or the patch `"int3"`. `exec` is
`Exec` (entry), `Instruction`, `BreakHit` and `BreakUnknown` (iterations, each counting `n` down,
then rearming, then scanning the watchpoints), `DoIntr` (the end of an iteration no watchpoint
ended: an interrupt comes after the scan, so what its frame changes is found an instruction later)
and `ExecReturn`. `watched` may change in every iteration, also where only the debugger acts, in
`DoIntr` and when a breakpoint is set: the expression may name any register or byte. The count of
`exec(-1)` goes down from `MaxN`, 2^32 - 1 in NEMU, and ends like any other. `Restart` is the next
program of an autorun, or the program loaded again.

| Run | Commands | Shows |
|---|---|---|
| `Breakpoints.cfg` | all, pool of three slots that runs empty | `PoolIntact`, `Armed`, `OnlyBreakpointsPatched`, `ContinueAdvances` |
| `BreakpointsTwo.cfg` | `b`, `c`, `si` | `RestoresOriginal` (`cpu.c:79`) is violated: rearming saves the patch as the original |

`done` and `lost` are history. `delete_breakpoint` (`d`) leaves the patch in the program, and the
guest then stops there and skips the instruction: `OnlyBreakpointsPatched` holds before the first `d`.
`lost` is set where `NEMU_READY` replaces `NEMU_BREAK`: at the end of `exec` when its count ran out on
a breakpoint (`si`, or the last of 2^32 - 1 instructions), and by a watchpoint whose change is
reported in the iteration that hits one, which may come from an interrupt or, with two
watchpoints, from an instruction earlier. The breakpoint then stays out until a later hit
rearms all of them, which resets `lost`. `Armed` says that this is the only gap; `PoolIntact` holds always.

Bounds: a program of two one-byte instructions (any instruction may go anywhere), watched
values of one bit, `si` of one step, `MaxN` = 2, so that `exec(-1)` runs out as well.

Fairness: `WF` of the steps of `exec`. The user need not do anything.

### 3.4 `VgaRefresh`, `UserInterfaceProofs`

`Write`, `FlagLine`, `FlagMem` are the three stores of a guest's write to the video memory
(`mmio_write`, `vga_vmem_io_handler`); `UpdateScreen`, `CopyLine` (once per line), `ClearMem`
and `ClearLines` are `update_screen`. A line is one pixel, as pixels of a line are copied alike;
a write touches one line, as aligned ones do. `raced` is history: lines written or flagged
during an update and not copied since.

`StaleOnlyIfRaced` and `DirtyLinesNoticed` bound what the missing lock costs;
`UnracedLinesShown` is the liveness that remains: a line that is not touched during an update comes to
be shown.

Bounds: three lines, two pixel values: a line before, at and behind the copy. Fairness: `WF`
of the SDL thread and of the two stores of a write that has begun.

### 3.5 `TypingGame`, `UserInterfaceProofs`

`MainLoop` is `main_loop` between the points where an interrupt makes a difference: `Hlt`
(`wait_intr`; an interrupt that is handled right before it does not end it), `Test`
(from `cli` to `sti`), `UpdateKeypress` (one call, under `cli`), `CreateNewLetter` or
`NoNewLetter`, and `UpdateLetterPos` with the end of a tick. `TimerEvent` and `KeyboardEvent` are
the handlers, enabled whenever `IF` is on. The list is `linklist.h` pointer by pointer, with
`fly_new`, `fly_insert`, `fly_remove` and `fly_free` under their names; `Left` is the loop of
`update_letter_pos`, which applies `Dropped` to the letters that leave, in list order. Instead of the unbounded
`tick`, `now` and `target` the state has `lag = tick - now`, `todo = target - now` and
`phase = now % Period`. Columns, the score, drawing and frame statistics are left out. `v` is 0.5 for
every new letter: `(rand() % 1000) / 2000` is an integer division.

Bounds: positions 0 to 4, speed 3 upwards, a letter every 2 ticks, two letters and one other
key, pool of 4 nodes of which 3 can be used (fewer, and `LettersFit` fails), two ticks behind.
Up to three letters are in flight and up to two leave in one tick. `PoolAssumption` is the size a
pool must have; in the game at most 13 letters are in flight when another starts, and the pool has room
for 1000.

Fairness: `WF` of the game's steps and of the timer tick. `CatchesUp` counts the halted CPU as waiting,
not as stuck: `MaxLag` may keep the tick away that would wake it.

### 3.6 `IdeRead`, `IdeReadMC`, `IdeReadProofs`, `Recursion`

A read of one byte is `ReadHit`, or `ReadMiss` (with `clear_ide_intr`), `IssueRead`
(`ide_prepare`, the command, the device's seek and its interrupt), `wait_ide_intr` in its
instructions (`WaitIdeIntr`, the test of the flag; `Hlt`; `ClearIdeIntr`), `CopyWord` once per word,
and `Filled`. `AddIrqHandle`, `Link` and `Publish` are the stores of
`add_irq_handle`, an interrupt can come between them unless system call 0 has switched
interrupts off. `TakeInterrupt` acknowledges, walks the list of handlers and runs them; it wakes the CPU only from
`"halted"`, so that an interrupt between the test and the `hlt` is over when the CPU halts;
`DeviceRaises` is the timer or the keyboard overwriting whatever vector is held. `lost` is history:
a disk interrupt was overwritten.

Assumed of the disk: sectors whose position fits in 32 bits, which are also those whose number
survives the four byte ports. Left out: writing (nothing calls `ide_write`, so no
sector is dirty and `ide_writeback` does nothing), DMA (compiled out) and the DMA port.

| Property | Says |
|---|---|
| `ReadsDisk`, `CacheHoldsDisk` | data: what is returned and cached is the disk's; `TransferInStep`, on which they rest, is proved only |
| `InterruptAccountedFor` | a read waits exactly while its interrupt is held, noted or lost |
| `HandlersListed` | at every moment an interrupt calls the handlers published so far, last one first |
| `ReadReturns` | a read returns unless its interrupt is overwritten, also when it is handled between the test and the `hlt`: the next tick wakes the CPU |

Bounds: three sectors on a cache of two, so that one entry serves two sectors; two words per
sector; the four handlers that kernel and game register.

Fairness: `WF` of the kernel's steps in a read or registration, of taking an interrupt, and of
the timer tick (the machine runs).

### 3.7 `MemoryManager`, `Paging`, `PagingMC`, `PagingProofs`

`MemoryManager` is the kernel's side. `init_page` maps the memory twice, `init_mm` copies the upper
half into the user's directory, `LoadSegment` is one turn of the loader's loop, `FinishLoad` maps
the stack and the video memory and switches `cr3`, `mm_brk` is the system call of the program's `sbrk`.
`mm_malloc` is in the repository as an object file only; it is translated from its disassembly in
`kernel.s`: directory entries that are not present take the next table, which is cleared, pages that
are not present the next frame, nothing that is present changes. A failed assertion is `"stop"`. Page
tables are numbered and a directory maps to those numbers, so that two directories can share tables, as
kernel and user do.

`Paging` adds the MMU: `TlbFill` is a miss (query, walk, a random victim), possible for every page that
the running code may use at that point (`Used`); a hit changes nothing. `Restart` (with
`init_mem`) may come at any time and alone empties the TLB.

| Property | Says |
|---|---|
| `TranslationRight` | the TLB, which nothing flushes, returns what the current tables say, but for `KernelLeftovers` in the program |
| `MappingsStay` | no step takes a mapping of the directory in use back: the reason why |
| `ImageInPlace` | each byte of a segment is still where the loader copied it, with one address for all its pages |
| `FramesFollow` | the page after a page lies in the frame after its frame, on which `laddr_read` across pages relies, except where the heap begins; and no frame is given twice |
| `HeapMapped` | all bytes up to the break are mapped, however it moved |
| `TypeOK` | with `pt_idx <= NR_UPT`: the unchecked array of tables is long enough, as frames run out first (under `TablesAssumption`, see section 4) |

`KernelLeftovers` are the low pages (the boot stack, the frames segments were copied to) whose identity
mapping the kernel leaves in the TLB; a program that mapped the same page numbers, with a heap
from 16 MB on, would see the kernel's translation. Test programs
link above the memory; a game, which links at 8 MB, gets there when its image and heap pass 16 MB.

Bounds: pages of two bytes, tables of two entries, 12 directory entries, ten frames of
which six are free, a TLB of two entries. Of the two programs one has segments that share a page below
the end of memory and one lies above it with a gap; breaks move inside a page, to its
end and across tables, and one runs out of memory.

### 3.8 `SdlThread`, `UserInterfaceProofs`

The main thread runs the programs of an autorun (`Restart`, `InitSdl`, `InitVga`, `CreateThread`, `Load`,
`ExecStart`, ..., `ExecReturn`), then `close_sdl` and `Return`. `ThreadStep(t)` is the SDL thread, as
often as it was created. `init_sdl` tests `initialized` (`InitSdl`), maps the video memory (`InitVga`) and
creates the thread, which sets `initialized` (`Started`) at any time after that. A program that starts
before, or whose `init_sdl` has made its test before, creates another thread and maps the video memory
once more; the third mapping fails the assertion of `mm_io.c:22` (`MapFails`). Key events are
numbered; `Store` and `Raise` are the two stores of `keyboard_down`, `TakeKey` and `ReadKey` the
guest's side.

`NoThreadAfterUp` says when that is over: once a thread is up and main is not between the test and the
creation (`Creating`), main never gets there again, and neither threads nor mappings are added; the one
`init_sdl` under way when the first thread comes up may still add its own. `OneScreen` and `KeyNotOlder`
are what one thread gives the guest: it draws to the mapping that is shown, and it never reads the
code of an older key than the one that interrupted it. With two threads neither holds, which
their premise says, so they say nothing about the window. Bounds: three programs, two mappings (the
real number), three keys. No fairness is
assumed: nothing here must happen.

### 3.9 `LongArith`, `LongArithProofs`, `Recursion`

A sum or difference of numbers of several words, word by word (`Step`), with an interrupt anywhere
(`RaiseIntr`, `Handler`, `iret`) whose handler leaves any flags. The operators keep the names of
`alu.c`; a word is a number below `2 * HALF` and `Wrap` is the width. `FlagsRight` relates each
operation to the integers, `LongRight` the whole number and the conditions after it. `SignLost` is the one
case in which `alu.c` is wrong: `alu_adc` and `alu_sbb` compute OF from `src + CF`, whose sign changes
when `src` is `0x7fffffff`. `alu_test.c:149` asserts OF, but random operands hardly meet that value.
Bounds: words of two bits (all operands), up to three words. The proofs cover every `HALF`.

## 4. Proofs

`tlapm` checks eight proof modules; every leaf is proved, for all values of the constants
that satisfy the modules' assumptions. The theorems of `SdlThread`, `VgaRefresh` and `TypingGame` are in
one module, `UserInterfaceProofs`, which extends all three; hence the names `ScreenSpec`, `GameSpec`, ...
of the latter two.

- `Recursion` is what the proofs about data rest on. The library's induction theorems have an operator as
  parameter, which the provers cannot instantiate; here the property is a set (`Induction`: a set that
  holds 0 and with every number the next one holds all) and the step of a recursion is a function
  (`RecursiveFunction`: the function it defines exists). Both follow from the minimal element of a
  well-founded set.
- `InterruptsProofs`: `TypeCorrect`, `HandlersNeverNested`, `ImplementsLatch`. The inductive
  invariant adds to type and nesting that IF is on from the test in `do_intr` to the gate
  (`TakenWithIF`; the CPU thread alone writes IF), that a vector in the controller is one that was
  raised and not received (`HeldVectorRaised`), and that `vec` is idle outside `do_intr`. The
  only assumption is `MaxFrames \in Nat`.
- `L1CacheProofs`: `TypeCorrect`, `StalenessNeedsACrossingWrite`, `CacheIsTransparent`
  (`Spec => FlatUntilCrossed`). The argument: a read or a miss leaves every valid way
  as it was or equal to memory (`KeptOrFresh`); a write within a line gives every copy its data, and one
  across lines copies each hit from where `p` stands (`HitsBefore`, `LineAtP`), so that what it leaves wrong is
  in `Misplaced`. While `crossed` is empty, what a hit returns is thus what memory holds.
  Assumed: at least two groups, lines of at least four bytes, accesses that fit in memory.
- `BreakpointsProofs`: `TypeCorrect`, `PoolStaysIntact`, `PatchesAreBreakpoints`, `DebuggerInvariant`,
  `BreakpointsArmed`. A list in the pool is one whose nodes can be numbered in order, each once, from
  its first to `NULL` (`List`, `Nodes`); lemmas say what taking the first, pushing, appending and unlinking do to
  it, and that the walk along `next` meets exactly its nodes (`LinkedIsList`, by induction). So the slots in
  use and the free ones are a list each (`PoolInv`), which is `PoolIntact`. `ArmInv` adds what the
  loop of `exec` keeps: rearming is pending only at the head of an iteration that will run, so `exec` does
  not return before it (`LoopInv`). Nothing is assumed of the watched values, which may change at every
  step, and the count of `exec(-1)` may run out. Pools, programs, counts and watched values of any size.
- `IdeReadProofs`: `TypeCorrect`, `TransfersInStep`, `CachedSectorsHoldDisk`, `ReadsReturnDisk`,
  `HandlersAreListed`, `DiskInterruptAccounted`. The inductive invariant says how far a transfer is in
  each of its phases (`Transfer`) and that the words copied so far are the target's (`Copied`);
  interrupts and registrations keep it (`BesideKeeps`). For the lists, `handles` names the last
  handler published for a line and `next` the one published before it (`ListInv`); by
  induction the walk meets them in that order (`WalkRanked`). The interrupt then calls `ide_intr`, which
  is in its list since the kernel started (`CallsIdeIntr`). Assumed: at least one sector, word
  and cache entry, sectors within 2^23, handlers that fit in the pool, and that `ide_intr` is
  registered for the disk's line and no other, as `init_ide` does.
- `PagingProofs`: `TypeCorrect`, `PagingInvariant`, `TranslationIsRight`, `HeapIsMapped`,
  `MappingsAreStable`, `FramesInvariant`, `FramesAreConsecutive`, `ImageStaysInPlace`. The invariant `IInv`
  has seven parts: `Shape` and `Phases` (types, and which directory is in use when),
  `KernelMap` and `UserMap` (which entries are whose), `TablesTaken` (directories name only tables
  taken so far, and there are enough for the rest), `TlbRight`, `Heap`. `TablesTaken` carries
  the argument: `mm_malloc` clears only tables no entry names yet, so whatever is present stays
  (`WalkStays`), hence so does what the TLB holds. A second invariant, `FInv`, says where the frames
  are: the pages a call finds unmapped are an interval each time (`Grown`; for a segment because the
  one before ends in the highest mapped page, for the heap because the break is in or right behind
  its highest page), so they take the frames from `pf_idx` on in order (`MallocWalk`), fresh tables
  being distinct and empty (`OwnTablesAfter`, `ClearedWalk`). Assumed (`MemoryAssumption`,
  `ProgramsAssumption`): the tables of the video memory lie within the kernel's, the kernel's half fits in the
  directory, segments are linked in ascending order between video memory and stack.

  `TypeCorrect` has the one bound the code does not check: `mm_malloc` asserts that a frame is left,
  never that a table is. The argument keeps the tables in proportion to the frames (`Covers`,
  `TablesFilled`): a call takes a table only for pages it maps, so the tables' entries, up to the highest
  page, are the frames taken and at most a table less one entry at either end of each segment, and below
  the stack. Whether the frames run out first is then a matter of sizes, which `TablesAssumption` states. The
  kernel's sizes (32 tables of 1024 entries, frames from 16 to 128 MB: 28672) satisfy it for programs of one or
  two segments, text and data. For three segments the bound no longer follows, and nothing in
  the code would notice.
- `LongArithProofs`: `TypeCorrect`, `ArithInvariant`, `FlagsAreRight`, `LongNumbersRight`. A lemma per
  operation (`AddRight`, `AdcRight`, `SubRight`, `SbbRight`) is the arithmetic; the invariant says that
  the program's flags, wherever they are, are still those of its last operation. `LongNumbersRight` is
  by induction on the words: the value of the words so far and the carry is the sum or difference of the
  operands' values so far. Assumed: `HALF > 1`.
- `UserInterfaceProofs`, on `SdlThread`: `TypeCorrect`, `SdlInvariant`, `KeysInOrder`, `ScreenIsShared`,
  `NoOtherThread`. Added to the type: a thread that is up has set `initialized` unless NEMU is closing
  (`UpKnown`), there is a mapping per thread, and one more before `init_sdl` creates it (`MapPerThread`), and event, buffer and interrupt are
  ordered when there is one thread (`BufferAhead`). Assumed: at least one program. On `VgaRefresh`:
  `ScreenTypeCorrect`, `OnlyRacesLoseWrites`, `FlagsKept`; both invariants are inductive with the type
  invariant, and a line is accounted for on its own (`Accounted`), so the proof is per step and line.
  On `TypingGame`: `ClocksAgree`, `InterruptsStayOn`, `GameTypeCorrect`, `ListStaysIntact`,
  `LettersFollowClock`, `PoolSuffices`. `ClocksTyped` bounds the catching-up loop and ties `pc` to it, and
  that interrupts are on outside of the key handling follows on its own. The rest needs `GameIInv`. Its
  `Pool` says that the pool is as the program starts, or that two sequences of nodes, each once and
  together all, are threaded from `head` and from `free_head` (`Lists`); `DroppedLists`, `CreatedLists`
  and `LeftLists` (by induction on the turns of the loop) say what becomes of the sequences. `Aged` gives every
  letter in flight an age, the ticks it has moved: a falling letter is as low as it is old, a rising one
  has turned at the bottom or above, ages differ by whole periods and no two are equal. So there
  are no more letters than periods in the longest flight, which `PoolAssumption` (`SIZE` against
  screen, speed and period) puts below the size of the pool.

Only model-checked: all liveness, and nothing else; it needs `ENABLED`.

## 5. Not modelled, and why

`PROJECT.json` gives the reason for each component. In short:

- Sequential code without state that outlives a call, which the repository's own tests exercise:
  the decoder, data movement, logic, shifts, products and string instructions, the x87 unit, registers, the
  expression evaluator, symbols, the serial line, argument handling. A model could only repeat
  their tables, at widths too small for their interesting cases.
- Formatting and output: `printk`, the log, drawing of the game, the palette.
- Stubs and code that is compiled out or never called: `fs.c`, DMA, `ide_write` with the write-back.
- Third-party code: SDLPAL with its two fonts, which is three quarters of the repository's code, and newlib.
  For this reason the definitions here, which cover the concurrent and stateful code of emulator, kernel
  and typing game, stand for a small share of all lines.

Met while reading, in code that is not modelled: `inc` and `dec` set no flags; `repe cmps` goes on while
operands differ and stops when they are equal; signed conditions after comparisons of 8 and 16 bits look
at zero-extended operands; `/` adds in `expr.c:215`; a `break` is missing at `operand.c:95`. And in
code that is: `exec` overwrites the `NEMU_STOP` of a window closed just before (`cpu.c:56`), which
`SdlThread` has as a step and the code promises nothing about.

## 6. Running

`tlc -config X.cfg M` for the pairs listed under `runs` in `PROJECT.json`; `tlapm M.tla` for
the eight proof modules. Most runs end within a minute; `l1_cache`, `breakpoints` and `typing_game` take about two.
