--------------------------------- MODULE Ppu ----------------------------------
(***************************************************************************)
(* The scanline timing of kernel-core/src/ppu_stub.rs: PpuStub::step walks *)
(* the dots of a frame from event to event, keeps LY and STAT, requests    *)
(* the VBlank and STAT interrupts and reports a frame when line 0 comes    *)
(* round. The CPU writes LCDC, STAT, LYC and LY between two steps; as in   *)
(* Timers, an access does the write and starts the step of the cycles it   *)
(* takes, and each iteration of the step's loop is an action. Rendering is *)
(* left out.                                                               *)
(***************************************************************************)
EXTENDS Integers

CONSTANTS
    TotalLines,     \* lines of a frame (154)
    VBlankLine,     \* the first line of the vertical blank (144)
    Dots,           \* cycles of a line (456)
    Mode2Cycles,    \* cycles of mode 2 at the start of a line (80)
    Mode3Cycles,    \* cycles of mode 3 behind them (172)
    LycValues,      \* values programs write to LYC
    Sources,        \* STAT sources programs enable: 0, 1, 2 and "lyc" as 3
    PpuSteps,       \* cycles of a step
    PushSteps       \* cycles that follow a push

ASSUME PpuAssumption ==
    /\ TotalLines \in Nat /\ VBlankLine \in 1 .. TotalLines - 1
    /\ Mode2Cycles \in Nat \ {0} /\ Mode3Cycles \in Nat \ {0}
    /\ Dots \in Nat /\ Mode2Cycles + Mode3Cycles < Dots
    /\ LycValues \subseteq Nat /\ 0 \in LycValues
    /\ Sources \subseteq 0 .. 3
    /\ PpuSteps \subseteq Nat \ {0} /\ PushSteps \subseteq Nat \ {0}

LycSource == 3

VARIABLES
    p,      \* the PPU, its registers and what its past was:
            \*   dot, ly, mode, lycEqual, frameReady, lcdWasOn   PpuStub
            \*   on          LCDC bit 7
            \*   stat        [sources, mode, equal] as the register reads
            \*   lyReg, lyc  the registers LY and LYC
            \*   vblank, request     the VBlank and STAT bits of IF
            \*   dots     dots since the LCD was started or a frame began
            \*   vblanks  VBlank requests in them
            \*   asked    LYC requests since the line began or LYC changed
            \*   armed    was their source enabled all that time?
    due     \* cycles of the current step still to run

ppuVars == <<p, due>>

(* ------------------------------ operators ----------------------------- *)

RaiseStat(s) == [s EXCEPT !.request = TRUE]

(* STAT as the PPU writes it: the sources are the CPU's.                   *)
StatOf(s, mode, equal) == [sources |-> s.stat.sources, mode |-> mode, equal |-> equal]

(* A bug: the request follows the level, not the edge.                     *)
RefreshedLevel(s) ==
    LET equal == s.ly = s.lyc
        rising == equal /\ LycSource \in s.stat.sources
    IN  [s EXCEPT !.lycEqual = equal, !.stat = StatOf(s, s.mode, equal),
                  !.request = @ \/ rising,
                  !.asked = IF rising THEN @ + 1 ELSE @]

(* refresh_coincidence.                                                    *)
Refreshed(s) ==
    LET equal == s.ly = s.lyc
        rising == ~s.lycEqual /\ equal /\ LycSource \in s.stat.sources
    IN  [s EXCEPT !.lycEqual = equal, !.stat = StatOf(s, s.mode, equal),
                  !.request = @ \/ rising,
                  !.asked = IF rising THEN @ + 1 ELSE @]

(* set_mode.                                                               *)
Moded(s, new) ==
    IF s.mode = new THEN s
    ELSE [s EXCEPT !.mode = new, !.stat = StatOf(s, new, s.lycEqual),
                   !.request = @ \/ (new # 3 /\ new \in s.stat.sources)]

(* The history starts over with a line, a frame, or a change of LYC.       *)
LineHistory(s) ==
    [s EXCEPT !.asked = 0, !.armed = LycSource \in s.stat.sources]

FrameHistory(s) == LineHistory([s EXCEPT !.dots = 0, !.vblanks = 0])

(* A line is entered: LY, and the coincidence with it.                     *)
LineEntered(s, next) ==
    LET lined == LineHistory([s EXCEPT !.ly = next, !.lyReg = next])
    IN  Refreshed(IF next = 0 THEN FrameHistory(lined) ELSE lined)

(* What a line begins with.                                                *)
LineBegun(r) ==
    CASE r.ly = 0 -> Moded([r EXCEPT !.frameReady = TRUE], 2)
      [] r.ly \in 1 .. VBlankLine - 1 -> Moded(r, 2)
      [] r.ly = VBlankLine -> Moded([r EXCEPT !.vblank = TRUE, !.vblanks = @ + 1], 1)
      [] r.ly > VBlankLine -> r

(* A bug: line 0 comes round a line too late.                              *)
AdvancedLate(s) ==
    LineBegun(LineEntered(s, IF s.ly + 1 > TotalLines THEN 0 ELSE s.ly + 1))

(* advance_line.                                                           *)
Advance(s) ==
    LineBegun(LineEntered(s, IF s.ly + 1 >= TotalLines THEN 0 ELSE s.ly + 1))

(* handle_event.                                                           *)
Handled(s) ==
    CASE s.mode = 2 -> Moded(s, 3)
      [] s.mode = 3 -> Moded(s, 0)
      [] s.mode \in {0, 1} ->
           Advance([s EXCEPT !.dot = IF @ >= Dots THEN @ - Dots ELSE 0])

(* cycles_until_next_event.                                                *)
UntilEvent(s) ==
    CASE s.mode \in {0, 1} -> Dots - s.dot
      [] s.mode = 2 -> Mode2Cycles - s.dot
      [] s.mode = 3 -> Mode2Cycles + Mode3Cycles - s.dot

(* start_lcd.                                                              *)
Started(s) ==
    FrameHistory(Moded([s EXCEPT !.lcdWasOn = TRUE, !.dot = 0, !.ly = 0, !.mode = 0,
                                 !.lycEqual = FALSE, !.frameReady = FALSE, !.lyReg = 0], 2))

(* force_lcd_off.                                                          *)
ForcedOff(s) ==
    FrameHistory([s EXCEPT !.lcdWasOn = FALSE, !.dot = 0, !.mode = 0, !.frameReady = FALSE,
                           !.ly = 0, !.lyReg = 0, !.lycEqual = (s.lyc = 0),
                           !.stat = StatOf(s, 0, s.lyc = 0)])

(* ------------------------------- actions ------------------------------ *)

StatValues == [sources : SUBSET Sources, mode : 0 .. 3, equal : BOOLEAN]

(* What is written to the low bits of STAT: all clear or all set.          *)
StatWrites ==
    {v \in StatValues : <<v.mode, v.equal>> \in {<<0, FALSE>>, <<3, TRUE>>}}

PpuBlocks ==
    [dot : 0 .. Dots, ly : 0 .. TotalLines - 1, mode : 0 .. 3, lycEqual : BOOLEAN,
     frameReady : BOOLEAN, lcdWasOn : BOOLEAN, on : BOOLEAN, stat : StatValues,
     lyReg : 0 .. TotalLines - 1, lyc : LycValues, vblank : BOOLEAN, request : BOOLEAN,
     dots : Nat, vblanks : Nat, asked : Nat, armed : BOOLEAN]

(* PpuStub::default with cleared registers.                                *)
NewPpu ==
    [dot |-> 0, ly |-> 0, mode |-> 0, lycEqual |-> FALSE, frameReady |-> FALSE,
     lcdWasOn |-> FALSE, on |-> FALSE, stat |-> [sources |-> {}, mode |-> 0, equal |-> FALSE],
     lyReg |-> 0, lyc |-> 0, vblank |-> FALSE, request |-> FALSE,
     dots |-> 0, vblanks |-> 0, asked |-> 0, armed |-> FALSE]

(* reset_post_boot: a new PpuStub, LCDC 0x91, STAT 0x85, LY 0; LYC and IF  *)
(* keep their values.                                                      *)
PostBootPpu(s) ==
    [NewPpu EXCEPT !.on = TRUE, !.stat = [sources |-> {}, mode |-> 1, equal |-> TRUE],
                   !.lyc = s.lyc, !.vblank = s.vblank, !.request = s.request]

PpuInit == p = PostBootPpu(NewPpu) /\ due = 0

(* What an access writes to LCDC, STAT, LY and LYC.                        *)
WriteLcdc(s, enable) == [s EXCEPT !.on = enable]
WriteStat(s, value) ==
    [s EXCEPT !.stat = value, !.armed = @ /\ LycSource \in value.sources]
WriteLy(s) == [s EXCEPT !.lyReg = 0]
WriteLyc(s, value) ==
    IF value = s.lyc THEN s
    ELSE LineHistory([s EXCEPT !.lyc = value])

(* PpuStub::step up to its loop.                                           *)
Begin(s, n) ==
    IF ~s.on THEN p' = ForcedOff(s) /\ due' = 0
    ELSE p' = (IF s.lcdWasOn THEN s ELSE Started(s)) /\ due' = n

(* An access writes one register; a push to a stack that lies in the       *)
(* registers writes two neighbours and is followed by more cycles.         *)
PpuAccess ==
    /\ due = 0
    /\ \/ \E n \in PpuSteps :
            \/ Begin(p, n)
            \/ \E enable \in BOOLEAN : Begin(WriteLcdc(p, enable), n)
            \/ \E value \in StatWrites : Begin(WriteStat(p, value), n)
            \/ \E value \in LycValues : Begin(WriteLyc(p, value), n)
            \/ Begin(WriteLy(p), n)
       \/ \E n \in PushSteps :
            \/ \E enable \in BOOLEAN, value \in StatWrites :
                 Begin(WriteLcdc(WriteStat(p, value), enable), n)
            \/ \E value \in LycValues : Begin(WriteLy(WriteLyc(p, value)), n)

Smaller(a, b) == IF a < b THEN a ELSE b

(* One iteration of the loop: coincidence, then up to the next event. No   *)
(* event is overdue here and the LCD is on: nothing writes LCDC in a step. *)
PpuIterate ==
    LET r == Refreshed(p)
        step == Smaller(UntilEvent(r), due)
        moved == [r EXCEPT !.dot = @ + step, !.dots = @ + step]
    IN  /\ due > 0
        /\ due' = due - step
        /\ p' = IF step = UntilEvent(r) THEN Handled(moved) ELSE moved

(* take_frame: clear_frame_ready.                                          *)
TakeFrame ==
    /\ due = 0 /\ p.frameReady
    /\ p' = [p EXCEPT !.frameReady = FALSE]
    /\ UNCHANGED due

(* The CPU services interrupts or writes IF.                               *)
ClearRequests ==
    /\ due = 0
    /\ \E v, r \in BOOLEAN : p' = [p EXCEPT !.vblank = v, !.request = r]
    /\ UNCHANGED due

(* reset_power_on, reset_post_boot.                                        *)
ResetPpu ==
    /\ due = 0
    /\ p' \in {NewPpu, PostBootPpu(p)}
    /\ UNCHANGED due

PpuNext == PpuAccess \/ PpuIterate \/ TakeFrame \/ ClearRequests \/ ResetPpu

PpuSpec == PpuInit /\ [][PpuNext]_ppuVars

(* ------------------------------ properties ---------------------------- *)

(* Shape of the state; the PPU never stands behind its next event.         *)
PpuTypeOK ==
    /\ p \in PpuBlocks /\ due \in Nat
    /\ UntilEvent(p) > 0

(* However the cycles arrive, in steps shorter or longer than a line, with *)
(* registers written and the LCD switched in between, no dot is lost or    *)
(* counted twice: line and dot are those of the dots run, the mode is that *)
(* of line and dot, and each frame has its one VBlank request and no more  *)
(* lines than the hardware's.                                              *)
FramesExact ==
    p.lcdWasOn =>
      /\ p.dots = p.ly * Dots + p.dot /\ p.dots < TotalLines * Dots
      /\ p.vblanks = IF p.ly >= VBlankLine THEN 1 ELSE 0
      /\ p.mode = CASE p.ly >= VBlankLine -> 1
                    [] p.ly < VBlankLine /\ p.dot < Mode2Cycles -> 2
                    [] p.ly < VBlankLine /\ p.dot >= Mode2Cycles + Mode3Cycles -> 0
                    [] OTHER -> 3

(* Coincidence is looked for in every step and on every line, and the LCD  *)
(* being started looks again, yet a line is reported once, if the source   *)
(* was enabled all along, and STAT shows the mode and the coincidence the  *)
(* PPU is in, whatever the CPU wrote to it.                                *)
LycOncePerLine ==
    due = 0 /\ p.lcdWasOn /\ p.on =>
      /\ p.asked <= 1
      /\ p.armed => p.asked = IF p.ly = p.lyc THEN 1 ELSE 0
      /\ p.stat.mode = p.mode /\ p.stat.equal = (p.ly = p.lyc)
===============================================================================
