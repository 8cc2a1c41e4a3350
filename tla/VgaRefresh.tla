----------------------------- MODULE VgaRefresh -----------------------------
(***************************************************************************)
(* The screen of NEMU: the guest writes the video memory on the CPU        *)
(* thread, update_screen of nemu/src/device/dev/vga.c copies the lines     *)
(* flagged dirty to the screen on the SDL thread, and no lock is taken.    *)
(*                                                                         *)
(* The pixels of a line are independent of each other; a line is one pixel *)
(* here.                                                                   *)
(***************************************************************************)
EXTENDS Naturals

CONSTANTS
  CTR_ROW,   \* lines of the screen, 200 in NEMU
  Pixels     \* values of a pixel, 0 among them

ASSUME ScreenAssumption == CTR_ROW \in Nat \ {0} /\ 0 \in Pixels

Rows == 0 .. CTR_ROW - 1

VARIABLES
  vmem,        \* the video memory
  screen,      \* what the user sees
  line_dirty, vmem_dirty,
  cpuPc, line, \* the write the CPU thread is in, and its line
  sdlPc, row,  \* the update the SDL thread is in, and its next line
  raced        \* history: lines written or flagged during an update that may
               \* have missed it

cpuVars == <<cpuPc, line>>
sdlVars == <<sdlPc, row>>
screenVars == <<vmem, screen, line_dirty, vmem_dirty, cpuVars, sdlVars, raced>>

ScreenInit ==
  /\ vmem = [r \in Rows |-> 0]
  /\ screen = [r \in Rows |-> 0]
  /\ line_dirty = [r \in Rows |-> FALSE]
  /\ vmem_dirty = FALSE
  /\ cpuPc = "run"
  /\ line = 0
  /\ sdlPc = "idle"
  /\ row = 0
  /\ raced = {}

Updating == sdlPc # "idle"
RacedWith(r) == raced' = IF Updating THEN raced \union {r} ELSE raced \ {r}

-----------------------------------------------------------------------------
(* The CPU thread: mmio_write stores the data, then calls the handler *)
Write(r, pixel) ==
  /\ cpuPc = "run"
  /\ vmem' = [vmem EXCEPT ![r] = pixel]
  /\ line' = r
  /\ cpuPc' = "flagLine"
  /\ RacedWith(r)
  /\ UNCHANGED <<screen, line_dirty, vmem_dirty, sdlVars>>

MutFlagLine_missing ==               \* only the screen is flagged
  /\ cpuPc = "flagLine"
  /\ cpuPc' = "flagMem"
  /\ RacedWith(line)
  /\ UNCHANGED <<vmem, screen, line_dirty, vmem_dirty, line, sdlVars>>

(* vga_vmem_io_handler flags the line, then the screen *)
FlagLine ==
  /\ cpuPc = "flagLine"
  /\ line_dirty' = [line_dirty EXCEPT ![line] = TRUE]
  /\ cpuPc' = "flagMem"
  /\ RacedWith(line)
  /\ UNCHANGED <<vmem, screen, vmem_dirty, line, sdlVars>>

FlagMem ==
  /\ cpuPc = "flagMem"
  /\ vmem_dirty' = TRUE
  /\ cpuPc' = "run"
  /\ UNCHANGED <<vmem, screen, line_dirty, line, sdlVars, raced>>

-----------------------------------------------------------------------------
(* The SDL thread: update_screen *)
UpdateScreen ==
  /\ sdlPc = "idle"
  /\ vmem_dirty
  /\ sdlPc' = "copy"
  /\ row' = 0
  /\ UNCHANGED <<vmem, screen, line_dirty, vmem_dirty, cpuVars, raced>>

MutCopyLine_skipsLast ==             \* the loop ends a line early
  /\ sdlPc = "copy"
  /\ IF line_dirty[row] /\ row # CTR_ROW - 1
       THEN /\ screen' = [screen EXCEPT ![row] = vmem[row]]
            /\ raced' = raced \ {row}
       ELSE UNCHANGED <<screen, raced>>
  /\ IF row = CTR_ROW - 1
       THEN sdlPc' = "clearMem" /\ UNCHANGED row
       ELSE row' = row + 1 /\ UNCHANGED sdlPc
  /\ UNCHANGED <<vmem, line_dirty, vmem_dirty, cpuVars>>

MutCopyLine_overruns ==              \* the loop ends a line late
  /\ sdlPc = "copy"
  /\ IF line_dirty[row]
       THEN /\ screen' = [screen EXCEPT ![row] = vmem[row]]
            /\ raced' = raced \ {row}
       ELSE UNCHANGED <<screen, raced>>
  /\ IF row = CTR_ROW
       THEN sdlPc' = "clearMem" /\ UNCHANGED row
       ELSE row' = row + 1 /\ UNCHANGED sdlPc
  /\ UNCHANGED <<vmem, line_dirty, vmem_dirty, cpuVars>>

(* do_update_screen_graphic_mode, one line *)
CopyLine ==
  /\ sdlPc = "copy"
  /\ IF line_dirty[row]
       THEN /\ screen' = [screen EXCEPT ![row] = vmem[row]]
            /\ raced' = raced \ {row}
       ELSE UNCHANGED <<screen, raced>>
  /\ IF row = CTR_ROW - 1
       THEN sdlPc' = "clearMem" /\ UNCHANGED row
       ELSE row' = row + 1 /\ UNCHANGED sdlPc
  /\ UNCHANGED <<vmem, line_dirty, vmem_dirty, cpuVars>>

MutClearMem_after ==                 \* vmem_dirty cleared after line_dirty
  \/ /\ sdlPc = "clearMem"
     /\ line_dirty' = [r \in Rows |-> FALSE]
     /\ sdlPc' = "clearLines"
     /\ UNCHANGED <<vmem, screen, vmem_dirty, cpuVars, row, raced>>
  \/ /\ sdlPc = "clearLines"
     /\ vmem_dirty' = FALSE
     /\ sdlPc' = "idle"
     /\ UNCHANGED <<vmem, screen, line_dirty, cpuVars, row, raced>>

ClearMem ==
  /\ sdlPc = "clearMem"
  /\ vmem_dirty' = FALSE
  /\ sdlPc' = "clearLines"
  /\ UNCHANGED <<vmem, screen, line_dirty, cpuVars, row, raced>>

ClearLines ==
  /\ sdlPc = "clearLines"
  /\ line_dirty' = [r \in Rows |-> FALSE]
  /\ sdlPc' = "idle"
  /\ UNCHANGED <<vmem, screen, vmem_dirty, cpuVars, row, raced>>

-----------------------------------------------------------------------------
CpuStep == (\E r \in Rows, pixel \in Pixels : Write(r, pixel)) \/ FlagLine \/ FlagMem
SdlStep == UpdateScreen \/ CopyLine \/ ClearMem \/ ClearLines

ScreenNext == CpuStep \/ SdlStep

ScreenSpec == ScreenInit /\ [][ScreenNext]_screenVars

(* Both threads run; the guest may stop writing between two instructions. *)
Fairness == WF_screenVars(FlagLine) /\ WF_screenVars(FlagMem) /\ WF_screenVars(SdlStep)

ScreenFairSpec == ScreenSpec /\ Fairness

-----------------------------------------------------------------------------
(* Type invariant of the video memory, the flags and the two threads.      *)
ScreenTypeOK ==
  /\ vmem \in [Rows -> Pixels]
  /\ screen \in [Rows -> Pixels]
  /\ line_dirty \in [Rows -> BOOLEAN]
  /\ vmem_dirty \in BOOLEAN
  /\ cpuPc \in {"run", "flagLine", "flagMem"}
  /\ line \in Rows
  /\ sdlPc \in {"idle", "copy", "clearMem", "clearLines"}
  /\ row \in Rows
  /\ raced \subseteq Rows

(* A line the user does not see as it is in memory will be copied, is      *)
(* being flagged, or was written or flagged while an update was running:   *)
(* an update without a concurrent write misses nothing.                    *)
StaleOnlyIfRaced ==
  \A r \in Rows :
    screen[r] # vmem[r] =>
      \/ line_dirty[r] /\ (sdlPc = "idle" \/ (sdlPc = "copy" /\ row <= r))
      \/ cpuPc = "flagLine" /\ line = r
      \/ r \in raced

(* A flagged line is not forgotten: vmem_dirty, which update_screen looks  *)
(* at first, is set or about to be, unless the line's flag is about to be  *)
(* cleared.  It rests on the order in which both threads write the two.    *)
DirtyLinesNoticed ==
  (\E r \in Rows : line_dirty[r]) =>
    vmem_dirty \/ cpuPc = "flagMem" \/ sdlPc = "clearLines"

(* When the guest pauses, the screen shows all that did not race with an   *)
(* update.                                                                 *)
UnracedLinesShown ==
  <>[](cpuPc = "run") => \A r \in Rows : <>[](screen[r] = vmem[r] \/ r \in raced)
=============================================================================
