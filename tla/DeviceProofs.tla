----------------------------- MODULE DeviceProofs -----------------------------
(***************************************************************************)
(* What holds of the devices of the kernel core for every value of their   *)
(* constants: the scanline timing of the PPU, the memory map of the bus,   *)
(* the serial port and the timers. They share no variable, each has its    *)
(* own specification and its own inductive invariant.                      *)
(***************************************************************************)
EXTENDS Timers, Ppu, Bus, Serial, WellFoundedInduction, TLAPS

(* ------------------------------ the PPU ------------------------------ *)
(* For frames and lines of every size, steps of every length and any       *)
(* writes between them: dots, lines and modes agree, and each line reports *)
(* its coincidence once. An access may leave coincidence and STAT behind   *)
(* the registers, and the loop of the step catches up, so the invariant    *)
(* has a part that holds at all times (Sound) and one that holds between   *)
(* steps (Coherent). Each operator gets a lemma that carries Sound.        *)

(* Where line and dot are, and the mode that belongs there.                *)
InLine(s) ==
    \/ s.ly >= VBlankLine /\ s.mode = 1 /\ s.dot < Dots
    \/ s.ly < VBlankLine /\ s.mode = 2 /\ s.dot < Mode2Cycles
    \/ /\ s.ly < VBlankLine /\ s.mode = 3
       /\ s.dot >= Mode2Cycles /\ s.dot < Mode2Cycles + Mode3Cycles
    \/ /\ s.ly < VBlankLine /\ s.mode = 0
       /\ s.dot >= Mode2Cycles + Mode3Cycles /\ s.dot < Dots

(* The dots before a line.                                                 *)
Before(ly) == ly * Dots

Framed(s) ==
    /\ s.dots = Before(s.ly) + s.dot
    /\ s.vblanks = IF s.ly >= VBlankLine THEN 1 ELSE 0

(* The coincidence the PPU remembers, if it is one, has been reported.     *)
Reported(s) ==
    /\ s.armed => LycSource \in s.stat.sources
    /\ s.asked \in {0, 1}
    /\ s.lycEqual /\ s.ly = s.lyc => (s.armed => s.asked = 1)
    /\ ~(s.lycEqual /\ s.ly = s.lyc) => s.asked = 0

Sound(s) ==
    /\ s \in PpuBlocks
    /\ s.lcdWasOn => InLine(s) /\ Framed(s) /\ Reported(s)
    /\ ~s.lcdWasOn => s.dot = 0 /\ s.mode = 0

(* STAT and the remembered coincidence are what they should be.            *)
Coherent(s) ==
    s.lycEqual = (s.ly = s.lyc) /\ s.stat.mode = s.mode /\ s.stat.equal = s.lycEqual

Resting(s) == Sound(s) /\ (s.lcdWasOn => s.on /\ Coherent(s))

PpuIInv ==
    /\ due \in Nat
    /\ due = 0 => Resting(p)
    /\ due > 0 => Sound(p) /\ p.lcdWasOn /\ p.on

LEMMA LineBounds ==
    /\ Before(0) = 0
    /\ \A ly \in Nat : Before(ly) \in Nat /\ Before(ly + 1) = Before(ly) + Dots
    /\ \A ly \in 0 .. TotalLines - 1 : Before(ly) + Dots <= TotalLines * Dots
<1> USE PpuAssumption
<1>1. \A ly \in Nat : Before(ly) \in Nat /\ Before(ly + 1) = Before(ly) + Dots
  BY DEF Before
<1>2. ASSUME NEW ly \in 0 .. TotalLines - 1
      PROVE  Before(ly) + Dots <= TotalLines * Dots
  <2>1. TotalLines * Dots = (ly + 1) * Dots + (TotalLines - 1 - ly) * Dots
    OBVIOUS
  <2>2. (TotalLines - 1 - ly) * Dots >= 0
    OBVIOUS
  <2>3. (ly + 1) * Dots = Before(ly) + Dots
    BY DEF Before
  <2>4. Before(ly) \in Nat /\ TotalLines * Dots \in Nat
    BY DEF Before
  <2> QED BY <2>1, <2>2, <2>3, <2>4
<1> QED BY <1>1, <1>2 DEF Before

(* ------------------------- what the CPU writes ------------------------ *)

LEMMA StatWrite ==
    ASSUME NEW s, Sound(s), NEW value \in StatValues
    PROVE  LET w == WriteStat(s, value)
           IN  Sound(w) /\ w.lcdWasOn = s.lcdWasOn
BY PpuAssumption DEF WriteStat, Sound, PpuBlocks, StatValues, InLine, Framed, Reported

LEMMA LcdcWrite ==
    ASSUME NEW s, Sound(s), NEW enable \in BOOLEAN
    PROVE  LET w == WriteLcdc(s, enable)
           IN  Sound(w) /\ w.lcdWasOn = s.lcdWasOn
BY PpuAssumption DEF WriteLcdc, Sound, PpuBlocks, InLine, Framed, Reported

LEMMA LyWrite ==
    ASSUME NEW s, Sound(s)
    PROVE  LET w == WriteLy(s)
           IN  Sound(w) /\ w.lcdWasOn = s.lcdWasOn
BY PpuAssumption DEF WriteLy, Sound, PpuBlocks, InLine, Framed, Reported

(* The history of a line starts over.                                      *)
LEMMA LineFields ==
    ASSUME NEW s \in PpuBlocks
    PROVE  LET w == LineHistory(s)
           IN  /\ w \in PpuBlocks /\ w.asked = 0
               /\ w.armed => LycSource \in w.stat.sources
               /\ w.dot = s.dot /\ w.ly = s.ly /\ w.mode = s.mode /\ w.lyc = s.lyc
               /\ w.lycEqual = s.lycEqual /\ w.lcdWasOn = s.lcdWasOn /\ w.on = s.on
               /\ w.stat = s.stat /\ w.dots = s.dots /\ w.vblanks = s.vblanks
<1> DEFINE w == LineHistory(s)
           armed == LycSource \in s.stat.sources
<1>1. w = [s EXCEPT !.asked = 0, !.armed = armed]
  BY DEF LineHistory
<1>2. w = [dot |-> s.dot, ly |-> s.ly, mode |-> s.mode, lycEqual |-> s.lycEqual,
           frameReady |-> s.frameReady, lcdWasOn |-> s.lcdWasOn, on |-> s.on, stat |-> s.stat,
           lyReg |-> s.lyReg, lyc |-> s.lyc, vblank |-> s.vblank, request |-> s.request,
           dots |-> s.dots, vblanks |-> s.vblanks, asked |-> 0, armed |-> armed]
  BY <1>1 DEF PpuBlocks
<1>3. armed \in BOOLEAN
  OBVIOUS
<1> HIDE DEF w, armed
<1>4. w \in PpuBlocks
  BY <1>2, <1>3 DEF PpuBlocks
<1>5. w.armed => LycSource \in w.stat.sources
  BY <1>2 DEF armed
<1> QED BY <1>2, <1>4, <1>5 DEF w

(* Only here the remembered coincidence may turn false: a new value of LYC *)
(* is no longer what LY was compared with.                                 *)
LEMMA LycWrite ==
    ASSUME NEW s, Resting(s), NEW value \in LycValues
    PROVE  LET w == WriteLyc(s, value)
           IN  Sound(w) /\ w.lcdWasOn = s.lcdWasOn
<1>1. CASE value = s.lyc
  BY <1>1 DEF WriteLyc, Resting
<1>2. CASE value # s.lyc
  <2> DEFINE u == [s EXCEPT !.lyc = value]
             w == LineHistory(u)
  <2>1. /\ u \in PpuBlocks /\ u.lyc = value /\ u.dot = s.dot /\ u.ly = s.ly
        /\ u.mode = s.mode /\ u.lycEqual = s.lycEqual /\ u.lcdWasOn = s.lcdWasOn
        /\ u.dots = s.dots /\ u.vblanks = s.vblanks
    BY DEF Resting, Sound, PpuBlocks
  <2> HIDE DEF u
  <2>2. /\ w \in PpuBlocks /\ w.asked = 0 /\ w.lyc = value
        /\ w.armed => LycSource \in w.stat.sources
        /\ w.dot = s.dot /\ w.ly = s.ly /\ w.mode = s.mode /\ w.lycEqual = s.lycEqual
        /\ w.lcdWasOn = s.lcdWasOn /\ w.dots = s.dots /\ w.vblanks = s.vblanks
    BY <2>1, LineFields
  <2>3. w = WriteLyc(s, value)
    BY <1>2 DEF WriteLyc, u
  <2> HIDE DEF w
  <2>4. Sound(w)
    BY <1>2, <2>2 DEF Resting, Sound, Coherent, InLine, Framed, Reported
  <2> QED BY <2>2, <2>3, <2>4
<1> QED BY <1>1, <1>2

(* --------------------------- what a step does ------------------------- *)

LEMMA StatOfType ==
    ASSUME NEW s \in PpuBlocks, NEW mode \in 0 .. 3, NEW equal \in BOOLEAN
    PROVE  LET v == StatOf(s, mode, equal)
           IN  v \in StatValues /\ v.sources = s.stat.sources /\ v.mode = mode /\ v.equal = equal
BY DEF StatOf, PpuBlocks, StatValues

LEMMA RefreshedFields ==
    ASSUME NEW s \in PpuBlocks
    PROVE  LET r == Refreshed(s)
               rising == ~s.lycEqual /\ s.ly = s.lyc /\ LycSource \in s.stat.sources
           IN  /\ r \in PpuBlocks /\ Coherent(r) /\ r.stat.sources = s.stat.sources
               /\ r.dot = s.dot /\ r.ly = s.ly /\ r.mode = s.mode /\ r.lyc = s.lyc
               /\ r.lcdWasOn = s.lcdWasOn /\ r.on = s.on /\ r.armed = s.armed
               /\ r.dots = s.dots /\ r.vblanks = s.vblanks
               /\ r.asked = IF rising THEN s.asked + 1 ELSE s.asked
<1> DEFINE r == Refreshed(s)
           equal == s.ly = s.lyc
           rising == ~s.lycEqual /\ equal /\ LycSource \in s.stat.sources
           stat == StatOf(s, s.mode, equal)
           request == s.request \/ rising
           asked == IF rising THEN s.asked + 1 ELSE s.asked
<1>1. r = [s EXCEPT !.lycEqual = equal, !.stat = stat, !.request = request, !.asked = asked]
  BY DEF Refreshed
<1>2. s.mode \in 0 .. 3 /\ equal \in BOOLEAN
  BY DEF PpuBlocks
<1>3. stat \in StatValues /\ stat.sources = s.stat.sources /\ stat.mode = s.mode /\ stat.equal = equal
  BY <1>2, StatOfType
<1>4. request \in BOOLEAN /\ asked \in Nat
  BY DEF PpuBlocks
<1>5. /\ asked = IF rising THEN s.asked + 1 ELSE s.asked
      /\ equal <=> s.ly = s.lyc
  OBVIOUS
<1> HIDE DEF r, equal, stat, request, asked
<1>6. r = [dot |-> s.dot, ly |-> s.ly, mode |-> s.mode, lycEqual |-> equal,
           frameReady |-> s.frameReady, lcdWasOn |-> s.lcdWasOn, on |-> s.on, stat |-> stat,
           lyReg |-> s.lyReg, lyc |-> s.lyc, vblank |-> s.vblank, request |-> request,
           dots |-> s.dots, vblanks |-> s.vblanks, asked |-> asked, armed |-> s.armed]
  BY <1>1 DEF PpuBlocks
<1>7. r \in PpuBlocks
  BY <1>2, <1>3, <1>4, <1>6 DEF PpuBlocks
<1>8. /\ r.dot = s.dot /\ r.ly = s.ly /\ r.mode = s.mode /\ r.lyc = s.lyc
      /\ r.lcdWasOn = s.lcdWasOn /\ r.on = s.on /\ r.armed = s.armed
      /\ r.dots = s.dots /\ r.vblanks = s.vblanks /\ r.asked = asked
      /\ r.lycEqual = equal /\ r.stat = stat
  BY <1>6
<1>9. Coherent(r)
  BY <1>3, <1>8 DEF Coherent, equal
<1> QED BY <1>3, <1>5, <1>7, <1>8, <1>9 DEF r, equal

LEMMA ModedFields ==
    ASSUME NEW s \in PpuBlocks, NEW new \in 0 .. 3
    PROVE  LET r == Moded(s, new)
           IN  /\ r \in PpuBlocks /\ r.mode = new /\ r.stat.sources = s.stat.sources
               /\ Coherent(s) => Coherent(r)
               /\ r.dot = s.dot /\ r.ly = s.ly /\ r.lyc = s.lyc /\ r.lycEqual = s.lycEqual
               /\ r.lcdWasOn = s.lcdWasOn /\ r.on = s.on /\ r.armed = s.armed
               /\ r.dots = s.dots /\ r.vblanks = s.vblanks /\ r.asked = s.asked
<1>1. CASE s.mode = new
  BY <1>1 DEF Moded
<1>2. CASE s.mode # new
  <2> DEFINE r == Moded(s, new)
             stat == StatOf(s, new, s.lycEqual)
             request == s.request \/ (new # 3 /\ new \in s.stat.sources)
  <2>1. r = [s EXCEPT !.mode = new, !.stat = stat, !.request = request]
    BY <1>2 DEF Moded
  <2>2. stat \in StatValues /\ stat.sources = s.stat.sources /\ stat.mode = new /\ stat.equal = s.lycEqual
    BY StatOfType DEF PpuBlocks
  <2>3. request \in BOOLEAN
    BY DEF PpuBlocks
  <2> HIDE DEF r, stat, request
  <2>4. r = [dot |-> s.dot, ly |-> s.ly, mode |-> new, lycEqual |-> s.lycEqual,
             frameReady |-> s.frameReady, lcdWasOn |-> s.lcdWasOn, on |-> s.on, stat |-> stat,
             lyReg |-> s.lyReg, lyc |-> s.lyc, vblank |-> s.vblank, request |-> request,
             dots |-> s.dots, vblanks |-> s.vblanks, asked |-> s.asked, armed |-> s.armed]
    BY <2>1 DEF PpuBlocks
  <2>5. r \in PpuBlocks
    BY <2>2, <2>3, <2>4 DEF PpuBlocks
  <2>6. Coherent(s) => Coherent(r)
    BY <2>2, <2>4 DEF Coherent
  <2> QED BY <2>2, <2>4, <2>5, <2>6 DEF r
<1> QED BY <1>1, <1>2

(* A coincidence that is found is reported if its source is enabled.       *)
LEMMA RefreshedReported ==
    ASSUME NEW s \in PpuBlocks, Reported(s)
    PROVE  Reported(Refreshed(s))
BY RefreshedFields DEF Reported, Coherent, PpuBlocks

LEMMA Zeros == 0 \in 0 .. Dots /\ 0 \in 0 .. TotalLines - 1 /\ 0 \in 0 .. 3
BY PpuAssumption

LEMMA StartedSound ==
    ASSUME NEW s \in PpuBlocks
    PROVE  LET r == Started(s) IN Sound(r) /\ r.lcdWasOn /\ r.on = s.on
<1> DEFINE o == [s EXCEPT !.lcdWasOn = TRUE, !.dot = 0, !.ly = 0, !.mode = 0]
           u == [o EXCEPT !.lycEqual = FALSE, !.frameReady = FALSE, !.lyReg = 0]
           v == Moded(u, 2)
           w == [v EXCEPT !.dots = 0, !.vblanks = 0]
           r == LineHistory(w)
<1>0. o \in PpuBlocks /\ o.lcdWasOn /\ o.dot = 0 /\ o.ly = 0 /\ o.on = s.on
  BY Zeros DEF PpuBlocks
<1> HIDE DEF o
<1>1. u \in PpuBlocks /\ u.lcdWasOn /\ u.dot = 0 /\ u.ly = 0 /\ ~u.lycEqual /\ u.on = s.on
  BY <1>0, Zeros DEF PpuBlocks
<1> HIDE DEF u
<1>2. /\ v \in PpuBlocks /\ v.lcdWasOn /\ v.dot = 0 /\ v.ly = 0 /\ ~v.lycEqual /\ v.on = s.on
      /\ v.mode = 2
  BY <1>1, ModedFields
<1> HIDE DEF v
<1>3. /\ w \in PpuBlocks /\ w.lcdWasOn /\ w.dot = 0 /\ w.ly = 0 /\ ~w.lycEqual /\ w.on = s.on
      /\ w.mode = 2 /\ w.dots = 0 /\ w.vblanks = 0
  BY <1>2 DEF PpuBlocks
<1> HIDE DEF w
<1>4. /\ r \in PpuBlocks /\ r.lcdWasOn /\ r.dot = 0 /\ r.ly = 0 /\ ~r.lycEqual /\ r.on = s.on
      /\ r.mode = 2 /\ r.dots = 0 /\ r.vblanks = 0 /\ r.asked = 0
      /\ r.armed => LycSource \in r.stat.sources
  BY <1>3, LineFields
<1>5. r = Started(s)
  BY DEF Started, FrameHistory, o, u, v, w
<1> HIDE DEF r
<1>6. Sound(r)
  BY <1>4, LineBounds, PpuAssumption DEF Sound, InLine, Framed, Reported
<1> QED BY <1>4, <1>5, <1>6

LEMMA ForcedOffResting ==
    ASSUME NEW s \in PpuBlocks
    PROVE  Resting(ForcedOff(s))
<1> DEFINE equal == s.lyc = 0
           stat == StatOf(s, 0, equal)
           o == [s EXCEPT !.lcdWasOn = FALSE, !.dot = 0, !.mode = 0, !.frameReady = FALSE]
           u == [o EXCEPT !.ly = 0, !.lyReg = 0, !.lycEqual = equal, !.stat = stat]
           w == [u EXCEPT !.dots = 0, !.vblanks = 0]
           r == LineHistory(w)
<1>1. equal \in BOOLEAN
  OBVIOUS
<1>2. r = ForcedOff(s)
  BY DEF ForcedOff, FrameHistory
<1> HIDE DEF equal
<1>3. stat \in StatValues
  BY <1>1, StatOfType
<1> HIDE DEF stat
<1>4. o \in PpuBlocks /\ ~o.lcdWasOn /\ o.dot = 0 /\ o.mode = 0
  BY Zeros DEF PpuBlocks
<1> HIDE DEF o
<1>5. u \in PpuBlocks /\ ~u.lcdWasOn /\ u.dot = 0 /\ u.mode = 0
  BY <1>1, <1>3, <1>4, Zeros DEF PpuBlocks
<1> HIDE DEF u
<1>6. w \in PpuBlocks /\ ~w.lcdWasOn /\ w.dot = 0 /\ w.mode = 0
  BY <1>5 DEF PpuBlocks
<1> HIDE DEF w
<1>7. r \in PpuBlocks /\ ~r.lcdWasOn /\ r.dot = 0 /\ r.mode = 0
  BY <1>6, LineFields
<1> QED BY <1>2, <1>7 DEF Resting, Sound

(* ------------------------------- events ------------------------------- *)

(* A mode has run all its cycles.                                          *)
AtEvent(s) ==
    \/ s.ly >= VBlankLine /\ s.mode = 1 /\ s.dot = Dots
    \/ s.ly < VBlankLine /\ s.mode = 2 /\ s.dot = Mode2Cycles
    \/ s.ly < VBlankLine /\ s.mode = 3 /\ s.dot = Mode2Cycles + Mode3Cycles
    \/ s.ly < VBlankLine /\ s.mode = 0 /\ s.dot = Dots

Running(s) == s \in PpuBlocks /\ s.lcdWasOn /\ s.on /\ Framed(s) /\ Reported(s)

(* The coincidence of the last line is no coincidence of the next one.     *)
LEMMA LineEnteredFields ==
    ASSUME NEW s \in PpuBlocks, Coherent(s), NEW next \in 0 .. TotalLines - 1, next # s.ly
    PROVE  LET r == LineEntered(s, next)
           IN  /\ r \in PpuBlocks /\ Coherent(r) /\ Reported(r)
               /\ r.lcdWasOn = s.lcdWasOn /\ r.on = s.on
               /\ r.ly = next /\ r.dot = s.dot /\ r.mode = s.mode
               /\ next = 0 => r.dots = 0 /\ r.vblanks = 0
               /\ next # 0 => r.dots = s.dots /\ r.vblanks = s.vblanks
<1> DEFINE v == [s EXCEPT !.ly = next, !.lyReg = next]
           lined == LineHistory(v)
           begun == [lined EXCEPT !.dots = 0, !.vblanks = 0]
           q == IF next = 0 THEN FrameHistory(lined) ELSE lined
           r == Refreshed(q)
<1>1. r = LineEntered(s, next)
  BY DEF LineEntered
<1>2. /\ v \in PpuBlocks /\ v.ly = next /\ v.dot = s.dot /\ v.mode = s.mode
      /\ v.lcdWasOn = s.lcdWasOn /\ v.on = s.on /\ v.lyc = s.lyc /\ v.lycEqual = s.lycEqual
      /\ v.dots = s.dots /\ v.vblanks = s.vblanks
  BY DEF PpuBlocks
<1> HIDE DEF v
<1>3. /\ lined \in PpuBlocks /\ lined.asked = 0 /\ lined.ly = next
      /\ lined.armed => LycSource \in lined.stat.sources
      /\ lined.dot = s.dot /\ lined.mode = s.mode /\ lined.lyc = s.lyc
      /\ lined.lycEqual = s.lycEqual /\ lined.lcdWasOn = s.lcdWasOn /\ lined.on = s.on
      /\ lined.dots = s.dots /\ lined.vblanks = s.vblanks
  BY <1>2, LineFields
<1> HIDE DEF lined
<1>4. /\ begun \in PpuBlocks /\ begun.ly = next
      /\ begun.dot = s.dot /\ begun.mode = s.mode /\ begun.lyc = s.lyc
      /\ begun.lycEqual = s.lycEqual /\ begun.lcdWasOn = s.lcdWasOn /\ begun.on = s.on
      /\ begun.dots = 0 /\ begun.vblanks = 0
  BY <1>3 DEF PpuBlocks
<1>5. FrameHistory(lined) = LineHistory(begun)
  BY DEF FrameHistory
<1> HIDE DEF begun
<1>6. /\ q \in PpuBlocks /\ q.asked = 0 /\ q.ly = next
      /\ q.armed => LycSource \in q.stat.sources
      /\ q.dot = s.dot /\ q.mode = s.mode /\ q.lyc = s.lyc
      /\ q.lycEqual = s.lycEqual /\ q.lcdWasOn = s.lcdWasOn /\ q.on = s.on
      /\ next = 0 => q.dots = 0 /\ q.vblanks = 0
      /\ next # 0 => q.dots = s.dots /\ q.vblanks = s.vblanks
  <2>1. CASE next = 0
    BY <1>4, <1>5, <2>1, LineFields
  <2>2. CASE next # 0
    BY <1>3, <2>2
  <2> QED BY <2>1, <2>2
<1> HIDE DEF q
<1>7. Reported(q)
  BY <1>6 DEF Reported, Coherent
<1>8. Reported(r)
  BY <1>6, <1>7, RefreshedReported
<1>9. /\ r \in PpuBlocks /\ Coherent(r) /\ r.ly = q.ly /\ r.dot = q.dot /\ r.mode = q.mode
      /\ r.lcdWasOn = q.lcdWasOn /\ r.on = q.on
      /\ r.dots = q.dots /\ r.vblanks = q.vblanks
  BY <1>6, RefreshedFields
<1> HIDE DEF r
<1> QED BY <1>1, <1>6, <1>8, <1>9

LEMMA LineBegunSound ==
    ASSUME NEW s \in PpuBlocks, Coherent(s), Reported(s), s.lcdWasOn, s.on,
           s.dot = 0, s.dots = Before(s.ly), s.ly > VBlankLine => s.mode = 1,
           s.vblanks = IF s.ly > VBlankLine THEN 1 ELSE 0
    PROVE  LET h == LineBegun(s) IN Sound(h) /\ Coherent(h) /\ h.lcdWasOn /\ h.on
<1> DEFINE h == LineBegun(s)
           framed == [s EXCEPT !.frameReady = TRUE]
           blank == [s EXCEPT !.vblank = TRUE, !.vblanks = s.vblanks + 1]
<1>1. s.ly \in 0 .. TotalLines - 1
  BY DEF PpuBlocks
<1>2. /\ s.ly = 0 => h = Moded(framed, 2)
      /\ s.ly \in 1 .. VBlankLine - 1 => h = Moded(s, 2)
      /\ s.ly = VBlankLine => h = Moded(blank, 1)
      /\ s.ly > VBlankLine => h = s
  BY <1>1, PpuAssumption DEF LineBegun
<1>3. /\ framed \in PpuBlocks /\ framed.lcdWasOn /\ framed.on /\ framed.ly = s.ly
      /\ framed.dot = s.dot /\ framed.dots = s.dots /\ framed.vblanks = s.vblanks
      /\ framed.stat = s.stat /\ framed.mode = s.mode /\ framed.lyc = s.lyc
      /\ framed.lycEqual = s.lycEqual /\ framed.armed = s.armed /\ framed.asked = s.asked
  BY DEF PpuBlocks
<1>4. s.vblanks + 1 \in Nat
  BY DEF PpuBlocks
<1>5. /\ blank \in PpuBlocks /\ blank.lcdWasOn /\ blank.on /\ blank.ly = s.ly
      /\ blank.dot = s.dot /\ blank.dots = s.dots /\ blank.vblanks = s.vblanks + 1
      /\ blank.stat = s.stat /\ blank.mode = s.mode /\ blank.lyc = s.lyc
      /\ blank.lycEqual = s.lycEqual /\ blank.armed = s.armed /\ blank.asked = s.asked
  BY <1>4 DEF PpuBlocks
<1> HIDE DEF h, framed, blank
<1>6. Coherent(framed) /\ Reported(framed) /\ Coherent(blank) /\ Reported(blank)
  BY <1>3, <1>5 DEF Coherent, Reported
<1>7. ASSUME NEW m \in 1 .. 2, NEW x \in PpuBlocks, x.lcdWasOn, x.on, Coherent(x), Reported(x)
      PROVE  LET y == Moded(x, m)
             IN  /\ y \in PpuBlocks /\ y.mode = m /\ Coherent(y) /\ Reported(y)
                 /\ y.lcdWasOn /\ y.on /\ y.ly = x.ly /\ y.dot = x.dot
                 /\ y.dots = x.dots /\ y.vblanks = x.vblanks
  BY <1>7, ModedFields DEF Reported
<1>8. CASE s.ly = 0
  <2>1. /\ h \in PpuBlocks /\ h.mode = 2 /\ Coherent(h) /\ Reported(h) /\ h.lcdWasOn /\ h.on
        /\ h.ly = 0 /\ h.dot = 0 /\ h.dots = Before(0) /\ h.vblanks = 0
    BY <1>2, <1>3, <1>6, <1>7, <1>8, PpuAssumption
  <2> QED BY <2>1, LineBounds, PpuAssumption DEF Sound, InLine, Framed, h
<1>9. CASE s.ly \in 1 .. VBlankLine - 1
  <2>1. /\ h \in PpuBlocks /\ h.mode = 2 /\ Coherent(h) /\ Reported(h) /\ h.lcdWasOn /\ h.on
        /\ h.ly = s.ly /\ h.dot = 0 /\ h.dots = Before(s.ly) /\ h.vblanks = 0
    BY <1>2, <1>7, <1>9, PpuAssumption
  <2> QED BY <1>9, <2>1, LineBounds, PpuAssumption DEF Sound, InLine, Framed, h
<1>10. CASE s.ly = VBlankLine
  <2>1. /\ h \in PpuBlocks /\ h.mode = 1 /\ Coherent(h) /\ Reported(h) /\ h.lcdWasOn /\ h.on
        /\ h.ly = s.ly /\ h.dot = 0 /\ h.dots = Before(s.ly) /\ h.vblanks = 1
    BY <1>2, <1>5, <1>6, <1>7, <1>10, PpuAssumption
  <2> QED BY <1>10, <2>1, LineBounds, PpuAssumption DEF Sound, InLine, Framed, h
<1>11. CASE s.ly > VBlankLine
  <2>1. h = s
    BY <1>2, <1>11
  <2>2. /\ s.ly \in Nat /\ VBlankLine \in Nat /\ s.ly >= VBlankLine /\ 0 < Dots
        /\ Before(s.ly) \in Nat
    BY <1>1, <1>11, LineBounds, PpuAssumption
  <2>3. InLine(s)
    BY <1>11, <2>2 DEF InLine
  <2>4. Framed(s)
    BY <1>11, <2>2 DEF Framed
  <2>5. Sound(s)
    BY <2>3, <2>4 DEF Sound
  <2> QED BY <2>1, <2>5 DEF h
<1> QED BY <1>1, <1>8, <1>9, <1>10, <1>11, PpuAssumption

(* The step of one line to the next, and of one mode to the next.          *)
LEMMA HandledSound ==
    ASSUME NEW s, Running(s), AtEvent(s), Coherent(s)
    PROVE  LET h == Handled(s) IN Sound(h) /\ Coherent(h) /\ h.lcdWasOn /\ h.on
<1> DEFINE h == Handled(s)
<1>1. CASE s.mode = 2
  <2>1. h = Moded(s, 3)
    BY <1>1 DEF Handled
  <2> HIDE DEF h
  <2>2. /\ h \in PpuBlocks /\ h.mode = 3 /\ Coherent(h) /\ h.dot = s.dot /\ h.ly = s.ly
        /\ h.lcdWasOn /\ h.on /\ h.dots = s.dots /\ h.vblanks = s.vblanks
        /\ h.stat.sources = s.stat.sources /\ h.lyc = s.lyc /\ h.lycEqual = s.lycEqual
        /\ h.armed = s.armed /\ h.asked = s.asked
    BY <2>1, ModedFields DEF Running
  <2>3. InLine(h)
    BY <1>1, <2>2, PpuAssumption DEF InLine, AtEvent, PpuBlocks
  <2>4. Framed(h) /\ Reported(h)
    BY <2>2 DEF Running, Framed, Reported
  <2> QED BY <2>2, <2>3, <2>4 DEF Sound, h
<1>2. CASE s.mode = 3
  <2>1. h = Moded(s, 0)
    BY <1>2 DEF Handled
  <2> HIDE DEF h
  <2>2. /\ h \in PpuBlocks /\ h.mode = 0 /\ Coherent(h) /\ h.dot = s.dot /\ h.ly = s.ly
        /\ h.lcdWasOn /\ h.on /\ h.dots = s.dots /\ h.vblanks = s.vblanks
        /\ h.stat.sources = s.stat.sources /\ h.lyc = s.lyc /\ h.lycEqual = s.lycEqual
        /\ h.armed = s.armed /\ h.asked = s.asked
    BY <2>1, ModedFields DEF Running
  <2>3. InLine(h)
    BY <1>2, <2>2, PpuAssumption DEF InLine, AtEvent, PpuBlocks
  <2>4. Framed(h) /\ Reported(h)
    BY <2>2 DEF Running, Framed, Reported
  <2> QED BY <2>2, <2>3, <2>4 DEF Sound, h
<1>3. CASE s.mode \in {0, 1}
  <2> DEFINE u == [s EXCEPT !.dot = 0]
             next == IF s.ly + 1 >= TotalLines THEN 0 ELSE s.ly + 1
             r == LineEntered(u, next)
  <2>1. s.dot = Dots /\ s.ly \in 0 .. TotalLines - 1
    BY <1>3, PpuAssumption DEF AtEvent, Running, PpuBlocks
  <2>2. /\ u \in PpuBlocks /\ u.dot = 0 /\ u.ly = s.ly /\ u.mode = s.mode /\ u.lcdWasOn /\ u.on
        /\ u.dots = s.dots /\ u.vblanks = s.vblanks /\ u.stat = s.stat
        /\ u.lyc = s.lyc /\ u.lycEqual = s.lycEqual
    BY Zeros DEF Running, PpuBlocks
  <2>3. Handled(s) = LineBegun(r)
    <3>1. [s EXCEPT !.dot = IF s.dot >= Dots THEN s.dot - Dots ELSE 0] = u
      BY <2>1, PpuAssumption
    <3>2. Handled(s) = Advance([s EXCEPT !.dot = IF s.dot >= Dots THEN s.dot - Dots ELSE 0])
      BY <1>3 DEF Handled
    <3>3. Advance(u) = LineBegun(r)
      BY <2>2 DEF Advance
    <3> QED BY <3>1, <3>2, <3>3
  <2>4. next \in 0 .. TotalLines - 1 /\ next # s.ly
    BY <2>1, PpuAssumption
  <2>5. Coherent(u)
    BY <2>2 DEF Coherent
  <2> HIDE DEF u
  <2>6. /\ r \in PpuBlocks /\ Coherent(r) /\ Reported(r) /\ r.lcdWasOn /\ r.on
        /\ r.ly = next /\ r.dot = 0 /\ r.mode = s.mode
        /\ next = 0 => r.dots = 0 /\ r.vblanks = 0
        /\ next # 0 => r.dots = s.dots /\ r.vblanks = s.vblanks
    BY <2>2, <2>4, <2>5, LineEnteredFields
  <2> HIDE DEF r
  <2>7. r.dots = Before(r.ly)
    BY <2>1, <2>6, LineBounds, PpuAssumption DEF Running, Framed, PpuBlocks
  <2>8. r.vblanks = IF r.ly > VBlankLine THEN 1 ELSE 0
    BY <2>1, <2>6, PpuAssumption DEF Running, Framed
  <2>9. r.ly > VBlankLine => r.mode = 1
    BY <1>3, <2>1, <2>6, PpuAssumption DEF AtEvent
  <2> QED BY <2>3, <2>6, <2>7, <2>8, <2>9, LineBegunSound
<1> QED BY <1>1, <1>2, <1>3 DEF AtEvent

(* ------------------------------- actions ------------------------------ *)

LEMMA InitInv == PpuInit => PpuIInv
<1> SUFFICES ASSUME PpuInit PROVE PpuIInv
  OBVIOUS
<1> DEFINE fresh == [sources |-> {}, mode |-> 1, equal |-> TRUE]
<1>1. fresh \in StatValues
  BY DEF StatValues
<1>2. p = [dot |-> 0, ly |-> 0, mode |-> 0, lycEqual |-> FALSE, frameReady |-> FALSE,
           lcdWasOn |-> FALSE, on |-> TRUE, stat |-> fresh, lyReg |-> 0, lyc |-> 0,
           vblank |-> FALSE, request |-> FALSE, dots |-> 0, vblanks |-> 0, asked |-> 0,
           armed |-> FALSE]
  BY DEF PpuInit, PostBootPpu, NewPpu
<1> HIDE DEF fresh
<1>3. p \in PpuBlocks
  BY <1>1, <1>2, Zeros, PpuAssumption DEF PpuBlocks
<1> QED BY <1>2, <1>3 DEF PpuInit, PpuIInv, Resting, Sound

LEMMA ResetResting ==
    ASSUME NEW s \in PpuBlocks
    PROVE  Resting(NewPpu) /\ Resting(PostBootPpu(s))
<1> DEFINE clear == [sources |-> {}, mode |-> 0, equal |-> FALSE]
           booted == [sources |-> {}, mode |-> 1, equal |-> TRUE]
           on == [NewPpu EXCEPT !.on = TRUE, !.stat = booted]
<1>1. clear \in StatValues /\ booted \in StatValues
  BY DEF StatValues
<1>2. NewPpu = [dot |-> 0, ly |-> 0, mode |-> 0, lycEqual |-> FALSE, frameReady |-> FALSE,
                lcdWasOn |-> FALSE, on |-> FALSE, stat |-> clear, lyReg |-> 0, lyc |-> 0,
                vblank |-> FALSE, request |-> FALSE, dots |-> 0, vblanks |-> 0, asked |-> 0,
                armed |-> FALSE]
  BY DEF NewPpu
<1>3. PostBootPpu(s) = [on EXCEPT !.lyc = s.lyc, !.vblank = s.vblank, !.request = s.request]
  BY DEF PostBootPpu
<1> HIDE DEF clear, booted
<1>4. NewPpu \in PpuBlocks
  BY <1>1, <1>2, Zeros, PpuAssumption DEF PpuBlocks
<1>5. on \in PpuBlocks /\ ~on.lcdWasOn /\ on.dot = 0 /\ on.mode = 0
  BY <1>1, <1>2, <1>4 DEF PpuBlocks
<1> HIDE DEF on
<1>6. LET b == PostBootPpu(s)
      IN  b \in PpuBlocks /\ ~b.lcdWasOn /\ b.dot = 0 /\ b.mode = 0
  BY <1>3, <1>5 DEF PpuBlocks
<1> QED BY <1>2, <1>4, <1>6 DEF Resting, Sound

(* Whatever was written, a step that begins leaves the PPU off and at rest *)
(* or on and in its loop.                                                  *)
LEMMA BeginInv ==
    ASSUME NEW w, Sound(w), NEW n \in Nat \ {0}, Begin(w, n)
    PROVE  PpuIInv'
<1> w \in PpuBlocks
  BY DEF Sound
<1>1. CASE ~w.on
  <2>1. p' = ForcedOff(w) /\ due' = 0
    BY <1>1 DEF Begin
  <2>2. Resting(p')
    BY <2>1, ForcedOffResting
  <2> QED BY <2>1, <2>2 DEF PpuIInv, Resting, Sound, Coherent, InLine, Framed, Reported
<1>2. CASE w.on
  <2>1. p' = (IF w.lcdWasOn THEN w ELSE Started(w)) /\ due' = n
    BY <1>2 DEF Begin
  <2>2. Sound(p') /\ p'.lcdWasOn /\ p'.on
    BY <1>2, <2>1, StartedSound
  <2> QED BY <2>1, <2>2 DEF PpuIInv, Sound, InLine, Framed, Reported
<1> QED BY <1>1, <1>2

LEMMA AccessInv == PpuIInv /\ PpuAccess => PpuIInv'
<1> SUFFICES ASSUME PpuIInv, PpuAccess PROVE PpuIInv'
  OBVIOUS
<1>1. Resting(p) /\ Sound(p)
  BY DEF PpuAccess, PpuIInv, Resting
<1>2. /\ \A n \in PpuSteps : n \in Nat \ {0}
      /\ \A n \in PushSteps : n \in Nat \ {0}
      /\ \A value \in StatWrites : value \in StatValues
  BY PpuAssumption DEF StatWrites
<1>3. CASE \E n \in PpuSteps : Begin(p, n)
  BY <1>1, <1>2, <1>3, BeginInv
<1>4. CASE \E n \in PpuSteps, enable \in BOOLEAN : Begin(WriteLcdc(p, enable), n)
  BY <1>1, <1>2, <1>4, BeginInv, LcdcWrite
<1>5. CASE \E n \in PpuSteps, value \in StatWrites : Begin(WriteStat(p, value), n)
  BY <1>1, <1>2, <1>5, BeginInv, StatWrite
<1>6. CASE \E n \in PpuSteps, value \in LycValues : Begin(WriteLyc(p, value), n)
  BY <1>1, <1>2, <1>6, BeginInv, LycWrite
<1>7. CASE \E n \in PpuSteps : Begin(WriteLy(p), n)
  BY <1>1, <1>2, <1>7, BeginInv, LyWrite
<1>8. CASE \E n \in PushSteps, enable \in BOOLEAN, value \in StatWrites :
             Begin(WriteLcdc(WriteStat(p, value), enable), n)
  BY <1>1, <1>2, <1>8, BeginInv, StatWrite, LcdcWrite
<1>9. CASE \E n \in PushSteps, value \in LycValues : Begin(WriteLy(WriteLyc(p, value)), n)
  BY <1>1, <1>2, <1>9, BeginInv, LycWrite, LyWrite
<1> QED BY <1>3, <1>4, <1>5, <1>6, <1>7, <1>8, <1>9 DEF PpuAccess

LEMMA IterateInv == PpuIInv /\ PpuIterate => PpuIInv'
<1> SUFFICES ASSUME PpuIInv, PpuIterate PROVE PpuIInv'
  OBVIOUS
<1> DEFINE r == Refreshed(p)
           step == Smaller(UntilEvent(r), due)
           moved == [r EXCEPT !.dot = r.dot + step, !.dots = r.dots + step]
<1>1. /\ due \in Nat /\ due > 0 /\ p \in PpuBlocks /\ p.lcdWasOn /\ p.on
      /\ InLine(p) /\ Framed(p) /\ Reported(p)
  BY DEF PpuIInv, PpuIterate, Sound
<1>2. /\ r \in PpuBlocks /\ Coherent(r) /\ r.lcdWasOn /\ r.on
      /\ r.dot = p.dot /\ r.ly = p.ly /\ r.mode = p.mode /\ r.dots = p.dots
      /\ r.vblanks = p.vblanks
  BY <1>1, RefreshedFields
<1>3. Reported(r)
  BY <1>1, RefreshedReported
<1>4. due' = due - step /\ p' = (IF step = UntilEvent(r) THEN Handled(moved) ELSE moved)
  BY DEF PpuIterate
<1> HIDE DEF r
<1>5. InLine(r) /\ Framed(r)
  BY <1>1, <1>2 DEF InLine, Framed
<1>6. UntilEvent(r) \in Nat \ {0} /\ r.dot + UntilEvent(r) \in 0 .. Dots
  <2>1. r.dot \in 0 .. Dots /\ r.mode \in 0 .. 3
    BY <1>2 DEF PpuBlocks
  <2>2. CASE r.mode \in {0, 1}
    BY <1>5, <2>1, <2>2, PpuAssumption DEF InLine, UntilEvent
  <2>3. CASE r.mode = 2
    BY <1>5, <2>1, <2>3, PpuAssumption DEF InLine, UntilEvent
  <2>4. CASE r.mode = 3
    BY <1>5, <2>1, <2>4, PpuAssumption DEF InLine, UntilEvent
  <2> QED BY <2>1, <2>2, <2>3, <2>4
<1>7. /\ step \in Nat \ {0} /\ step <= due /\ step <= UntilEvent(r)
      /\ r.dot + step \in 0 .. Dots /\ r.dots + step \in Nat
  BY <1>1, <1>2, <1>6, PpuAssumption DEF Smaller, PpuBlocks
<1> HIDE DEF step
<1>8. /\ moved \in PpuBlocks /\ moved.dot = r.dot + step /\ moved.dots = r.dots + step
      /\ moved.ly = r.ly /\ moved.mode = r.mode /\ moved.vblanks = r.vblanks
      /\ moved.lcdWasOn /\ moved.on /\ moved.stat = r.stat /\ moved.lyc = r.lyc
      /\ moved.lycEqual = r.lycEqual /\ moved.armed = r.armed /\ moved.asked = r.asked
  BY <1>2, <1>7 DEF PpuBlocks
<1> HIDE DEF moved
<1>9. Coherent(moved) /\ Reported(moved)
  BY <1>2, <1>3, <1>8 DEF Coherent, Reported
<1>10. Framed(moved)
  BY <1>2, <1>5, <1>7, <1>8, LineBounds DEF Framed, PpuBlocks
<1>11. Sound(p') /\ Coherent(p') /\ p'.lcdWasOn /\ p'.on
  <2>1. CASE step = UntilEvent(r)
    <3>1. AtEvent(moved)
      BY <1>2, <1>5, <1>8, <2>1, PpuAssumption DEF InLine, AtEvent, UntilEvent, PpuBlocks
    <3>2. Running(moved)
      BY <1>8, <1>9, <1>10 DEF Running
    <3> QED BY <1>4, <1>9, <2>1, <3>1, <3>2, HandledSound
  <2>2. CASE step # UntilEvent(r)
    <3>1. InLine(moved)
      BY <1>2, <1>5, <1>6, <1>7, <1>8, <2>2, PpuAssumption DEF InLine, UntilEvent, PpuBlocks
    <3> QED BY <1>4, <1>8, <1>9, <1>10, <2>2, <3>1 DEF Sound
  <2> QED BY <2>1, <2>2
<1>12. due' \in Nat
  BY <1>1, <1>4, <1>7
<1> QED BY <1>11, <1>12 DEF PpuIInv, Resting, Sound, Coherent, InLine, Framed, Reported

(* The page takes the frame, or the requests are served.                   *)
LEMMA ServedInv == PpuIInv /\ (TakeFrame \/ ClearRequests) => PpuIInv'
<1> SUFFICES ASSUME PpuIInv, TakeFrame \/ ClearRequests PROVE PpuIInv'
  OBVIOUS
<1>1. Resting(p) /\ due = 0 /\ due' = 0 /\ p \in PpuBlocks
  BY DEF PpuIInv, TakeFrame, ClearRequests, Resting, Sound
<1>2. /\ p' \in PpuBlocks /\ p'.dot = p.dot /\ p'.ly = p.ly /\ p'.mode = p.mode
      /\ p'.lycEqual = p.lycEqual /\ p'.lcdWasOn = p.lcdWasOn /\ p'.on = p.on
      /\ p'.stat = p.stat /\ p'.lyc = p.lyc /\ p'.dots = p.dots /\ p'.vblanks = p.vblanks
      /\ p'.asked = p.asked /\ p'.armed = p.armed
  <2>1. CASE TakeFrame
    <3>1. p' = [p EXCEPT !.frameReady = FALSE]
      BY <2>1 DEF TakeFrame
    <3> QED BY <1>1, <3>1 DEF PpuBlocks
  <2>2. CASE ClearRequests
    <3>1. PICK v \in BOOLEAN, r \in BOOLEAN : p' = [p EXCEPT !.vblank = v, !.request = r]
      BY <2>2 DEF ClearRequests
    <3> QED BY <1>1, <3>1 DEF PpuBlocks
  <2> QED BY <2>1, <2>2
<1> QED BY <1>1, <1>2 DEF PpuIInv, Resting, Sound, Coherent, InLine, Framed, Reported

LEMMA ResetInv == PpuIInv /\ ResetPpu => PpuIInv'
<1> SUFFICES ASSUME PpuIInv, ResetPpu PROVE PpuIInv'
  OBVIOUS
<1>1. p \in PpuBlocks /\ due' = 0 /\ p' \in {NewPpu, PostBootPpu(p)}
  BY DEF PpuIInv, ResetPpu, Resting, Sound
<1>2. Resting(p')
  BY <1>1, ResetResting
<1> QED BY <1>1, <1>2 DEF PpuIInv, Resting, Sound, Coherent, InLine, Framed, Reported

LEMMA NextInv == PpuIInv /\ [PpuNext]_ppuVars => PpuIInv'
<1>1. PpuIInv /\ UNCHANGED ppuVars => PpuIInv'
  BY DEF ppuVars, PpuIInv, Resting, Sound, Coherent, InLine, Framed, Reported
<1> QED BY <1>1, AccessInv, IterateInv, ServedInv, ResetInv DEF PpuNext

LEMMA Invariant == PpuSpec => []PpuIInv
BY InitInv, NextInv, PTL DEF PpuSpec

(* ------------------------------ theorems ------------------------------ *)

(* The PPU keeps its shape and never stands behind its next event, so the  *)
(* loop of PpuStub::step always makes progress.                            *)
THEOREM PpuTypeCorrect == PpuSpec => []PpuTypeOK
<1>1. PpuIInv => PpuTypeOK
  <2> SUFFICES ASSUME PpuIInv PROVE PpuTypeOK
    OBVIOUS
  <2>1. Sound(p) /\ p \in PpuBlocks /\ due \in Nat
    BY DEF PpuIInv, Resting, Sound
  <2>2. UntilEvent(p) > 0
    BY <2>1, PpuAssumption DEF Sound, InLine, UntilEvent, PpuBlocks
  <2> QED BY <2>1, <2>2 DEF PpuTypeOK
<1> QED BY <1>1, Invariant, PTL

(* However the cycles are cut into steps and whatever is written between   *)
(* them, line, dot, mode and VBlank requests are those of the dots run,    *)
(* and a frame of PpuStub has its 154 lines and no more.                   *)
THEOREM FramesAreExact == PpuSpec => []FramesExact
<1>1. PpuIInv => FramesExact
  <2> SUFFICES ASSUME PpuIInv, p.lcdWasOn
               PROVE  /\ p.dots = p.ly * Dots + p.dot /\ p.dots < TotalLines * Dots
                      /\ p.vblanks = IF p.ly >= VBlankLine THEN 1 ELSE 0
                      /\ p.mode = CASE p.ly >= VBlankLine -> 1
                                    [] p.ly < VBlankLine /\ p.dot < Mode2Cycles -> 2
                                    [] p.ly < VBlankLine /\ p.dot >= Mode2Cycles + Mode3Cycles -> 0
                                    [] OTHER -> 3
    BY DEF FramesExact
  <2>1. p \in PpuBlocks /\ InLine(p) /\ Framed(p)
    BY DEF PpuIInv, Resting, Sound
  <2>2. p.dots = p.ly * Dots + p.dot
    BY <2>1 DEF Framed, Before
  <2>3. p.dots < TotalLines * Dots
    <3>1. Before(p.ly) + Dots <= TotalLines * Dots /\ Before(p.ly) \in Nat
      BY <2>1, LineBounds DEF PpuBlocks
    <3>2. p.dot < Dots /\ p.dot \in Nat
      BY <2>1, PpuAssumption DEF InLine, PpuBlocks
    <3>3. TotalLines * Dots \in Nat
      BY PpuAssumption
    <3> QED BY <2>1, <3>1, <3>2, <3>3, PpuAssumption DEF Framed
  <2>4. p.mode = CASE p.ly >= VBlankLine -> 1
                   [] p.ly < VBlankLine /\ p.dot < Mode2Cycles -> 2
                   [] p.ly < VBlankLine /\ p.dot >= Mode2Cycles + Mode3Cycles -> 0
                   [] OTHER -> 3
    BY <2>1, PpuAssumption DEF InLine, PpuBlocks
  <2> QED BY <2>1, <2>2, <2>3, <2>4 DEF Framed
<1> QED BY <1>1, Invariant, PTL

(* refresh_coincidence runs in every step and on every line, and start_lcd *)
(* forgets what was found, yet a line asks for one STAT interrupt at most, *)
(* for exactly one if its source was enabled all along, and STAT is right  *)
(* whenever the CPU can read it.                                           *)
THEOREM CoincidenceOnce == PpuSpec => []LycOncePerLine
<1>1. PpuIInv => LycOncePerLine
  BY DEF PpuIInv, Resting, Sound, Reported, Coherent, LycOncePerLine, PpuBlocks
<1> QED BY <1>1, Invariant, PTL

(* ------------------------------ the bus ------------------------------ *)
(* For ROMs of every size, the switchable area of the memory map shows the *)
(* bank the program asked for.                                             *)

(***************************************************************************)
(* The inductive invariant: the selected bank follows from the ROM and the  *)
(* number written last, for a ROM of one bank too, and what is written and  *)
(* captured are bytes and rows.                                            *)
(***************************************************************************)

\* The bank a number selects.
BankOf(number, banks) == IF banks > 1 /\ number % banks = 0 THEN 1 ELSE number % banks

Boards == [banks : Nat \ {0}, bank : Nat, overlay : BOOLEAN,
           memory : [Memory -> 0 .. 255], latch : [Rows -> SUBSET Keys],
           rows : SUBSET Rows, joyp : SUBSET Rows]

States == [taken : {TRUE}, memory : [Memory -> 0 .. 255], joyp : SUBSET Rows]

BusIInv ==
    /\ board \in Boards
    /\ saved = NotSaved \/ saved \in States
    /\ wanted \in 0 .. 31
    /\ board.bank = BankOf(wanted, board.banks)

\* The bank selected is one the ROM has, and one of the 32 a number can name.
LEMMA BankInRom ==
    ASSUME NEW number \in 0 .. 31, NEW banks \in Nat \ {0}
    PROVE  /\ BankOf(number, banks) \in Nat
           /\ BankOf(number, banks) < banks
           /\ BankOf(number, banks) <= 31
PROOF
  <1> DEFINE q == number \div banks
             r == number % banks
  <1>1. /\ number \in Int /\ 0 <= number /\ number <= 31 /\ banks \in Int /\ banks > 0
        /\ q \in Int /\ r \in Int /\ 0 <= r /\ r < banks /\ number = banks * q + r
    OBVIOUS
  <1>2. BankOf(number, banks) = IF banks > 1 /\ r = 0 THEN 1 ELSE r
    BY DEF BankOf
  <1> HIDE DEF q, r
  <1>3. r <= number
    <2>1. CASE q >= 0
      <3>1. banks * q >= 0
        BY <1>1, <2>1
      <3>2. QED
        BY <1>1, <3>1
    <2>2. CASE q <= -1
      <3>1. banks * q <= -banks
        BY <1>1, <2>2
      <3>2. QED
        BY <1>1, <3>1
    <2>3. QED
      BY <1>1, <2>1, <2>2
  <1>4. QED
    BY <1>1, <1>2, <1>3

\* set_rom_bank changes the bank only.
LEMMA BankSetFacts ==
    ASSUME NEW b \in Boards, NEW number \in 0 .. 31
    PROVE  /\ BankSet(b, number) \in Boards
           /\ BankSet(b, number).banks = b.banks
           /\ BankSet(b, number).bank = BankOf(number, b.banks)
PROOF
  <1>1. b.banks \in Nat \ {0}
    BY DEF Boards
  <1>2. BankOf(number, b.banks) \in Nat
    BY <1>1, BankInRom
  <1>3. BankSet(b, number) = [b EXCEPT !.bank = BankOf(number, b.banks)]
    BY DEF BankSet, BankOf
  <1>4. QED
    BY <1>2, <1>3 DEF Boards

\* A load selects bank 1 of the ROM it inserts.
LEMMA RomReplacedFacts ==
    ASSUME NEW b \in Boards, NEW banks \in BankCounts
    PROVE  /\ RomReplaced(b, banks) \in Boards
           /\ RomReplaced(b, banks).banks = banks
           /\ RomReplaced(b, banks).bank = BankOf(1, banks)
PROOF
  <1> DEFINE c == [b EXCEPT !.banks = banks, !.overlay = BootPresent, !.rows = Rows,
                            !.latch = NoKeyPressed]
  <1>1. banks \in Nat \ {0} /\ BootPresent \in BOOLEAN
    BY BusAssumption
  <1>2. NoKeyPressed \in [Rows -> SUBSET Keys]
    BY DEF NoKeyPressed
  <1>3. c \in Boards /\ c.banks = banks
    BY <1>1, <1>2 DEF Boards
  <1>4. RomReplaced(b, banks) = BankSet(c, 1)
    BY DEF RomReplaced
  <1> HIDE DEF c
  <1>5. QED
    BY <1>3, <1>4, BankSetFacts, 1 \in 0 .. 31

\* So does a reset, of the ROM that is in.
LEMMA MemoryResetFacts ==
    ASSUME NEW b \in Boards
    PROVE  /\ MemoryReset(b) \in Boards
           /\ MemoryReset(b).banks = b.banks
           /\ MemoryReset(b).bank = BankOf(1, b.banks)
PROOF
  <1> DEFINE c == [b EXCEPT !.memory = Cleared, !.rows = Rows, !.joyp = {},
                            !.latch = NoKeyPressed, !.overlay = BootPresent]
  <1>1. BootPresent \in BOOLEAN
    BY BusAssumption
  <1>2. NoKeyPressed \in [Rows -> SUBSET Keys] /\ Cleared \in [Memory -> 0 .. 255]
    BY DEF NoKeyPressed, Cleared
  <1>3. c \in Boards /\ c.banks = b.banks
    BY <1>1, <1>2 DEF Boards
  <1>4. MemoryReset(b) = BankSet(c, 1)
    BY DEF MemoryReset
  <1> HIDE DEF c
  <1>5. QED
    BY <1>3, <1>4, BankSetFacts, 1 \in 0 .. 31

\* Leaving the boot program leaves the bank.
LEMMA PostBootFacts ==
    ASSUME NEW b \in Boards
    PROVE  /\ PostBootBus(b) \in Boards
           /\ PostBootBus(b).banks = b.banks
           /\ PostBootBus(b).bank = b.bank
PROOF
  BY DEF PostBootBus, Boards

\* What a read returns of ROM and memory is a byte.
LEMMA ReadIsByte ==
    ASSUME BusIInv, NEW region \in Readable
    PROVE  ReadByte(board, region) \in 0 .. 255
PROOF
  <1>1. /\ board.memory \in [Memory -> 0 .. 255] /\ board.overlay \in BOOLEAN
        /\ board.bank \in Nat /\ board.bank <= 31
    BY BankInRom DEF BusIInv, Boards
  <1>2. \A i \in 0 .. 31 : RomAt(board, i) \in 0 .. 255
    BY DEF RomAt, RomByte, OpenBus
  <1>3. RomAt(board, 0) \in 0 .. 255 /\ RomAt(board, board.bank) \in 0 .. 255
    BY <1>1, <1>2
  <1>4. board.memory["wram"] \in 0 .. 255 /\ \A m \in Memory : board.memory[m] \in 0 .. 255
    BY <1>1 DEF Memory
  <1>5. QED
    BY <1>3, <1>4 DEF ReadByte, Readable, Memory, BootByte, OpenBus

\* A console that was switched on shows bank 1.
LEMMA InitBusIInv == BusInit => BusIInv
PROOF
  <1> SUFFICES ASSUME BusInit PROVE BusIInv
    OBVIOUS
  <1>1. PICK banks \in BankCounts :
          LET new == BankSet([banks |-> banks, bank |-> 1, overlay |-> BootPresent,
                              memory |-> Cleared, latch |-> NoKeyPressed,
                              rows |-> Rows, joyp |-> {}], 1)
          IN  board = IF BootPresent THEN MemoryReset(new) ELSE PostBootBus(new)
    BY DEF BusInit
  <1> DEFINE b == [banks |-> banks, bank |-> 1, overlay |-> BootPresent,
                   memory |-> Cleared, latch |-> NoKeyPressed,
                   rows |-> Rows, joyp |-> {}]
             new == BankSet(b, 1)
  <1>2. banks \in Nat \ {0} /\ BootPresent \in BOOLEAN
    BY BusAssumption
  <1>3. NoKeyPressed \in [Rows -> SUBSET Keys] /\ Cleared \in [Memory -> 0 .. 255]
    BY DEF NoKeyPressed, Cleared
  <1>4. b \in Boards /\ b.banks = banks
    BY <1>2, <1>3 DEF Boards
  <1>5. board = IF BootPresent THEN MemoryReset(new) ELSE PostBootBus(new)
    BY <1>1
  <1> HIDE DEF b
  <1>6. new \in Boards /\ new.banks = banks /\ new.bank = BankOf(1, banks)
    BY <1>4, BankSetFacts, 1 \in 0 .. 31
  <1> HIDE DEF new
  <1>7. board \in Boards /\ board.bank = BankOf(1, board.banks)
    BY <1>5, <1>6, MemoryResetFacts, PostBootFacts
  <1>8. QED
    BY <1>7 DEF BusInit, BusIInv

\* Every access, load and restore preserves the invariant.
LEMMA NextBusIInv == BusIInv /\ [BusNext]_busVars => BusIInv'
PROOF
  <1> SUFFICES ASSUME BusIInv, [BusNext]_busVars PROVE BusIInv'
    OBVIOUS
  <1> USE DEF BusIInv
  <1>1. CASE WriteBank
    <2>1. PICK number \in BankNumbers :
            board' = BankSet(board, number) /\ wanted' = number /\ saved' = saved
      BY <1>1 DEF WriteBank
    <2>2. number \in 0 .. 31
      BY BusAssumption
    <2>3. QED
      BY <2>1, <2>2, BankSetFacts
  <1>2. CASE WriteMemory
    <2>1. /\ wanted' = wanted /\ saved' = saved
          /\ \/ \E region \in Memory, value \in MemoryValues : board' = Stores(board, region, value)
             \/ \E value \in MemoryValues : board' = Stores(board, "wram", value)
             \/ \E region \in Readable : board' = Transferred(board, region)
      BY <1>2 DEF WriteMemory
    <2>2. "wram" \in Memory /\ "oam" \in Memory
      BY DEF Memory
    <2>3. PICK region \in Memory, value \in 0 .. 255 : board' = Stores(board, region, value)
      <3>1. MemoryValues \subseteq 0 .. 255
        BY BusAssumption
      <3>2. \A region \in Readable : Transferred(board, region)
                                       = Stores(board, "oam", ReadByte(board, region))
        BY DEF Transferred
      <3>3. QED
        BY <2>1, <2>2, <3>1, <3>2, ReadIsByte
    <2>4. board' \in Boards /\ board'.banks = board.banks /\ board'.bank = board.bank
      BY <2>3 DEF Stores, Boards
    <2>5. QED
      BY <2>1, <2>4
  <1>3. CASE LeaveBoot
    <2>1. board' \in Boards /\ board'.banks = board.banks /\ board'.bank = board.bank
      BY <1>3 DEF LeaveBoot, Boards
    <2>2. QED
      BY <1>3, <2>1 DEF LeaveBoot
  <1>4. CASE WriteJoyp
    <2>1. PICK rows \in SUBSET Rows : board' = RowsWritten(board, rows)
      BY <1>4 DEF WriteJoyp
    <2>2. board' \in Boards /\ board'.banks = board.banks /\ board'.bank = board.bank
      BY <2>1 DEF RowsWritten, Boards
    <2>3. QED
      BY <1>4, <2>2 DEF WriteJoyp
  <1>5. CASE SetInputs
    <2>1. PICK latch \in [Rows -> SUBSET Keys] : board' = [board EXCEPT !.latch = latch]
      BY <1>5 DEF SetInputs
    <2>2. board' \in Boards /\ board'.banks = board.banks /\ board'.bank = board.bank
      BY <2>1 DEF Boards
    <2>3. QED
      BY <1>5, <2>2 DEF SetInputs
  <1>6. CASE InsertRom
    <2>1. PICK banks \in BankCounts :
            /\ \/ board' = MemoryReset(RomReplaced(board, banks))
               \/ board' = PostBootBus(RomReplaced(board, banks))
            /\ wanted' = 1 /\ saved' = saved
      BY <1>6 DEF InsertRom
    <2>2. /\ RomReplaced(board, banks) \in Boards
          /\ RomReplaced(board, banks).banks = banks
          /\ RomReplaced(board, banks).bank = BankOf(1, banks)
      BY RomReplacedFacts
    <2>3. board' \in Boards /\ board'.bank = BankOf(1, board'.banks)
      BY <2>1, <2>2, MemoryResetFacts, PostBootFacts
    <2>4. QED
      BY <2>1, <2>3
  <1>7. CASE Save
    <2>1. saved' = [taken |-> TRUE, memory |-> board.memory, joyp |-> board.joyp]
      BY <1>7 DEF Save, Captured
    <2>2. saved' \in States
      BY <2>1 DEF States, Boards
    <2>3. QED
      BY <1>7, <2>2 DEF Save
  <1>8. CASE Restore
    <2>1. saved \in States
      BY <1>8 DEF Restore, NotSaved
    <2>2. board' = Restored(board, saved) /\ saved' = saved /\ wanted' = wanted
      BY <1>8 DEF Restore
    <2>3. board' \in Boards /\ board'.banks = board.banks /\ board'.bank = board.bank
      BY <2>1, <2>2 DEF Restored, Boards, States
    <2>4. QED
      BY <2>2, <2>3
  <1>9. CASE UNCHANGED busVars
    BY <1>9 DEF busVars
  <1>10. QED
    BY <1>1, <1>2, <1>3, <1>4, <1>5, <1>6, <1>7, <1>8, <1>9 DEF BusNext

\* The invariant holds of every console, whatever ROMs are inserted in turn.
THEOREM BusInvariant == BusSpec => []BusIInv
PROOF
  BY InitBusIInv, NextBusIInv, PTL DEF BusSpec

\* set_rom_bank never selects a bank the ROM does not have, nor bank 0 of a ROM
\* with more: the switchable area shows the bank asked for, modulo the ROM.
THEOREM BankIsMapped == BusSpec => []BankMapped
PROOF
  <1>1. BusIInv => BankMapped
    <2> SUFFICES ASSUME BusIInv PROVE BankMapped
      OBVIOUS
    <2>1. /\ board.banks \in Nat \ {0} /\ wanted \in 0 .. 31
          /\ board.bank = BankOf(wanted, board.banks)
      BY DEF BusIInv, Boards
    <2>2. board.bank \in Nat /\ board.bank < board.banks /\ board.bank <= 31
      BY <2>1, BankInRom
    <2>3. RomAt(board, board.bank) = 64 + board.bank
      BY <2>2 DEF RomAt, RomByte
    <2>4. ReadByte(board, "banked") = RomAt(board, board.bank)
      BY DEF ReadByte, Memory
    <2>5. ReadByte(board, "banked") # OpenBus
      BY <2>2, <2>3, <2>4 DEF OpenBus
    <2>6. QED
      BY <2>1, <2>5 DEF BankMapped, BankOf
  <1>2. QED
    BY <1>1, BusInvariant, PTL


(* -------------------------- the serial port -------------------------- *)
(* For bytes and bits of every length, however the program writes SB and   *)
(* SC and its cycles are cut into steps. What is billed to a transfer at   *)
(* an access is shifted turn by turn, so the invariant says where it is    *)
(* between two turns, too.                                                 *)

(* The powers of two are a recursive function: that it has the values its  *)
(* definition says needs the least number for which it has not.            *)
LEMMA LeastNat ==
    ASSUME NEW T, T \subseteq Nat, T # {}
    PROVE  \E n \in T : \A m \in T : n <= m
<1> DEFINE R == OpToRel(<, Nat)
<1>1. IsWellFoundedOn(R, Nat)
  BY NatLessThanWellFounded
<1>2. PICK n \in T : \A m \in T : ~(<<m, n>> \in R)
  <2> HIDE DEF R
  <2> QED
    BY <1>1, WFMin, Zenon
<1>3. ASSUME NEW m \in T PROVE n <= m
  <2>1. <<m, n>> \notin R
    BY <1>2
  <2>2. <<m, n>> \in R <=> m < n
    BY DEF OpToRel
  <2>3. n \in Nat /\ m \in Nat /\ ~(m < n)
    <3> HIDE DEF R
    <3> QED
      BY <2>1, <2>2
  <2> QED
    BY <2>3
<1> QED
  BY <1>3

\* The first powers of two.
Tables(n) ==
    {g \in [0 .. n -> Nat] : \A k \in 0 .. n : g[k] = IF k = 0 THEN 1 ELSE 2 * g[k - 1]}

LEMMA TablesExist == \A n \in Nat : Tables(n) # {}
<1> DEFINE T == {n \in Nat : Tables(n) = {}}
<1> SUFFICES ASSUME T # {} PROVE FALSE
  OBVIOUS
<1>1. PICK n \in T : \A m \in T : n <= m
  BY LeastNat
<1>2. CASE n = 0
  <2>1. [k \in 0 .. 0 |-> 1] \in Tables(0)
    BY DEF Tables
  <2> QED
    BY <2>1, <1>2
<1>3. CASE n # 0
  <2>1. n - 1 \in Nat /\ n - 1 \notin T
    BY <1>1, <1>3
  <2>2. PICK g \in Tables(n - 1) : TRUE
    BY <2>1
  <2> DEFINE h == [k \in 0 .. n |-> IF k = n THEN 2 * g[n - 1] ELSE g[k]]
  <2>3. g \in [0 .. n - 1 -> Nat] /\ \A k \in 0 .. n - 1 : g[k] = IF k = 0 THEN 1 ELSE 2 * g[k - 1]
    BY <2>2 DEF Tables
  <2>4. h \in [0 .. n -> Nat]
    BY <2>1, <2>3
  <2>5. \A k \in 0 .. n : h[k] = IF k = 0 THEN 1 ELSE 2 * h[k - 1]
    BY <2>1, <2>3, <1>3
  <2>6. h \in Tables(n)
    BY <2>4, <2>5 DEF Tables
  <2> QED
    BY <2>6
<1> QED
  BY <1>2, <1>3

LEMMA TablesAgree ==
    ASSUME NEW n \in Nat, NEW m \in Nat, NEW g \in Tables(n), NEW h \in Tables(m)
    PROVE  \A k \in 0 .. n : k <= m => g[k] = h[k]
<1> DEFINE T == {k \in Nat : k <= n /\ k <= m /\ g[k] # h[k]}
<1> SUFFICES ASSUME T # {} PROVE FALSE
  OBVIOUS
<1>1. PICK k \in T : \A j \in T : k <= j
  BY LeastNat
<1>2. CASE k = 0
  BY <1>1, <1>2 DEF Tables
<1>3. CASE k # 0
  <2>1. k - 1 \in Nat /\ k - 1 \notin T
    BY <1>1, <1>3
  <2> QED
    BY <2>1, <1>1, <1>3 DEF Tables
<1> QED
  BY <1>2, <1>3

LEMMA PowerDef ==
    \A k \in Nat : Power[k] \in Nat \ {0} /\ Power[k + 1] = 2 * Power[k] /\ Power[0] = 1
<1> DEFINE P == [k \in Nat |-> (CHOOSE g \in Tables(k) : TRUE)[k]]
<1>1. \A k \in Nat : \A g \in Tables(k) : g[k] = P[k]
  <2> SUFFICES ASSUME NEW k \in Nat, NEW g \in Tables(k) PROVE g[k] = P[k]
    OBVIOUS
  <2> DEFINE h == CHOOSE x \in Tables(k) : TRUE
  <2>1. h \in Tables(k)
    OBVIOUS
  <2>2. P[k] = h[k]
    OBVIOUS
  <2> HIDE DEF h, P
  <2> QED
    BY <2>1, <2>2, TablesAgree
<1>2. P = [k \in Nat |-> P[k]]
  OBVIOUS
<1> HIDE DEF P
<1>3. \A k \in Nat : P[k] = IF k = 0 THEN 1 ELSE 2 * P[k - 1]
  <2> TAKE k \in Nat
  <2>1. PICK g \in Tables(k) : TRUE
    BY TablesExist
  <2>2. g[k] = P[k]
    BY <1>1
  <2>3. CASE k = 0
    BY <2>2, <2>3 DEF Tables
  <2>4. CASE k # 0
    <3>1. PICK h \in Tables(k - 1) : TRUE
      BY TablesExist, <2>4
    <3>2. h[k - 1] = P[k - 1]
      BY <1>1, <3>1, <2>4
    <3>3. h[k - 1] = g[k - 1]
      BY TablesAgree, <2>4
    <3> QED
      BY <2>2, <2>4, <3>2, <3>3 DEF Tables
  <2> QED
    BY <2>3, <2>4
<1>4. P = [k \in Nat |-> IF k = 0 THEN 1 ELSE 2 * P[k - 1]]
  BY <1>2, <1>3
<1>5. Power = [k \in Nat |-> IF k = 0 THEN 1 ELSE 2 * Power[k - 1]]
  BY <1>4 DEF Power
<1>6. \A k \in Nat : Power[k] = IF k = 0 THEN 1 ELSE 2 * Power[k - 1]
  BY <1>5
<1>7. \A k \in Nat : Power[k] \in Nat \ {0}
  <2> DEFINE T == {k \in Nat : Power[k] \notin Nat \ {0}}
  <2> SUFFICES ASSUME T # {} PROVE FALSE
    OBVIOUS
  <2>1. PICK k \in T : \A j \in T : k <= j
    BY LeastNat
  <2>2. CASE k = 0
    BY <2>1, <2>2, <1>6
  <2>3. CASE k # 0
    <3>1. k - 1 \in Nat /\ k - 1 \notin T
      BY <2>1, <2>3
    <3> QED
      BY <3>1, <2>1, <1>6, <2>3
  <2> QED
    BY <2>2, <2>3
<1>8. \A k \in Nat : Power[k + 1] = 2 * Power[k]
  <2> TAKE k \in Nat
  <2>1. k + 1 \in Nat /\ k + 1 # 0 /\ (k + 1) - 1 = k
    OBVIOUS
  <2> QED
    BY <1>6, <2>1
<1> QED
  BY <1>6, <1>7, <1>8

(* The port between two actions: a transfer that runs has shifted what its *)
(* place says, SC shows it, ...                                            *)
Links ==
    [active : BOOLEAN, internal : BOOLEAN, counter : 0 .. BitCycles, bits : 0 .. ByteBits,
     shift : SerialBytes, pending : SerialBytes, sb : SerialBytes, start : BOOLEAN,
     clock : BOOLEAN, request : BOOLEAN, out : Seq(SerialBytes), latched : SerialBytes,
     run : Nat, want : Seq(SerialBytes), owed : BOOLEAN, mixed : BOOLEAN]

Sent(s) == ByteBits - s.bits

\* The cycles of the transfer that were shifted.
Spent(s) ==
    Sent(s) * BitCycles + (IF s.counter = 0 THEN 0 ELSE BitCycles - s.counter)

Shifting(s) ==
    s.active =>
      /\ s.bits \in 1 .. ByteBits /\ s.pending = s.latched
      /\ s.shift = (Power[Sent(s)] * s.latched + Power[Sent(s)] - 1) % Power[ByteBits]

Shown(s) == ~s.mixed => s.start = s.active

Settled(s) == s.out = s.want /\ (s.owed => s.request)

(* ... and the log and the interrupts are settled, unless the transfer has *)
(* been promised the cycles to its end and is still shifting them.         *)
InTime(s, budget) ==
    IF s.active /\ s.internal /\ budget > 0
    THEN \/ Settled(s) /\ s.run = Spent(s) + budget /\ s.run < ByteBits * BitCycles
         \/ /\ s.want = Append(s.out, s.latched)
            /\ Spent(s) + budget >= ByteBits * BitCycles
    ELSE Settled(s) /\ (s.active => s.run = Spent(s))

SerialIInv ==
    /\ link \in Links /\ shifting \in Nat
    /\ Shifting(link) /\ Shown(link) /\ InTime(link, shifting)

\* The port at rest, between two accesses.
AtEase(s) == s \in Links /\ Shifting(s) /\ Shown(s) /\ Settled(s) /\ (s.active => s.run = Spent(s))

LEMMA SerialFacts ==
    /\ ByteBits \in Nat /\ ByteBits >= 1 /\ BitCycles \in Nat /\ BitCycles >= 1
    /\ Power[ByteBits] \in Nat \ {0} /\ Power[0] = 1
    /\ \A b \in SerialBytes : b \in Nat /\ b < Power[ByteBits]
    /\ \A b \in Nat : b < Power[ByteBits] => b \in SerialBytes
<1>1. ByteBits \in Nat /\ ByteBits >= 1 /\ BitCycles \in Nat /\ BitCycles >= 1
  BY SerialAssumption
<1>2. Power[ByteBits] \in Nat \ {0} /\ Power[0] = 1
  BY <1>1, PowerDef
<1> QED
  BY <1>1, <1>2 DEF SerialBytes

\* Division with remainder is unique.
LEMMA ModUnique ==
    ASSUME NEW n \in Nat \ {0}, NEW q \in Int, NEW r \in 0 .. n - 1
    PROVE  (n * q + r) % n = r
<1> DEFINE x == n * q + r d == x \div n m == x % n
<1>1. x \in Int
  OBVIOUS
<1>2. d \in Int /\ m \in 0 .. n - 1 /\ x = n * d + m
  BY <1>1
<1> HIDE DEF x, d, m
<1>3. n * (q - d) = m - r
  BY <1>2 DEF x
<1>4. q - d >= 1 => n * (q - d) >= n
  BY <1>2
<1>5. q - d <= -1 => n * (q - d) <= -n
  BY <1>2
<1>6. q - d = 0
  BY <1>2, <1>3, <1>4, <1>5
<1> QED
  BY <1>2, <1>3, <1>6 DEF m, x

\* What is left of a doubled and incremented remainder.
LEMMA Doubled ==
    ASSUME NEW n \in Nat \ {0}, NEW x \in Nat
    PROVE  (2 * (x % n) + 1) % n = (2 * x + 1) % n
<1> DEFINE q == x \div n r == x % n y == 2 * r + 1 d == y \div n m == y % n
<1>1. q \in Int /\ r \in 0 .. n - 1 /\ x = n * q + r
  OBVIOUS
<1>2. y \in Nat
  BY <1>1
<1> HIDE DEF y
<1>3. d \in Int /\ m \in 0 .. n - 1 /\ y = n * d + m
  BY <1>2
<1> HIDE DEF q, r, d, m
<1>4. 2 * x + 1 = n * (2 * q + d) + m
  BY <1>1, <1>3 DEF y
<1>5. 2 * q + d \in Int
  BY <1>1, <1>3
<1>6. (n * (2 * q + d) + m) % n = m
  BY <1>3, <1>5, ModUnique
<1> QED
  BY <1>4, <1>6 DEF m, y, r

(* A bit is shifted.                                                       *)
LEMMA ShiftedOn ==
    ASSUME NEW k \in Nat, NEW latched \in SerialBytes,
           NEW s, s = (Power[k] * latched + Power[k] - 1) % Power[ByteBits]
    PROVE  /\ (2 * s + 1) % Power[ByteBits]
                = (Power[k + 1] * latched + Power[k + 1] - 1) % Power[ByteBits]
           /\ (2 * s + 1) % Power[ByteBits] \in SerialBytes
<1> DEFINE pw == Power[k] n == Power[ByteBits] x == pw * latched + pw - 1
<1>1. pw \in Nat \ {0} /\ n \in Nat \ {0} /\ latched \in Nat /\ Power[k + 1] = 2 * pw
  BY PowerDef, SerialFacts
<1> HIDE DEF pw, n
<1>2. x \in Nat
  <2>1. pw * latched \in Nat
    BY <1>1
  <2> QED
    BY <1>1, <2>1
<1>3. 2 * x + 1 = Power[k + 1] * latched + Power[k + 1] - 1
  BY <1>1
<1>4. s = x % n
  BY DEF pw, n
<1> HIDE DEF x
<1>5. (2 * s + 1) % n = (2 * x + 1) % n
  BY <1>1, <1>2, <1>4, Doubled
<1>6. (2 * s + 1) % n \in 0 .. n - 1
  <2>1. 2 * s + 1 \in Nat
    BY <1>1, <1>2, <1>4
  <2> QED
    BY <1>1, <2>1
<1> QED
  BY <1>3, <1>5, <1>6 DEF n, SerialBytes

LEMMA AtRest == shifting = 0 => (SerialIInv <=> AtEase(link))
  BY DEF SerialIInv, AtEase, InTime

LEMMA StoppedFields ==
    ASSUME NEW s \in Links
    PROVE  /\ Stopped(s) = [s EXCEPT !.active = FALSE, !.counter = 0, !.bits = 0]
           /\ Stopped(s) \in Links
           /\ Stopped(s).active = FALSE
<1>1. 0 \in 0 .. BitCycles /\ 0 \in 0 .. ByteBits
  BY SerialFacts
<1>2. Stopped(s) = [s EXCEPT !.active = FALSE, !.counter = 0, !.bits = 0]
  BY DEF Stopped
<1>3. [s EXCEPT !.active = FALSE, !.counter = 0, !.bits = 0] \in Links
  BY <1>1 DEF Links
<1>4. [s EXCEPT !.active = FALSE, !.counter = 0, !.bits = 0].active = FALSE
  BY DEF Links
<1> QED
  BY <1>2, <1>3, <1>4

LEMMA WrittenRests ==
    ASSUME NEW s, AtEase(s), NEW start \in BOOLEAN, NEW clock \in BOOLEAN
    PROVE  AtEase(ScWritten(s, start, clock))
<1> DEFINE after == ScWritten(s, start, clock)
           written == [s EXCEPT !.start = start, !.clock = clock, !.mixed = FALSE]
<1> SUFFICES AtEase(after)
  OBVIOUS
<1>1. s \in Links
  BY DEF AtEase
<1>2. /\ written \in Links /\ written.start = start /\ written.mixed = FALSE
      /\ written.active = s.active /\ written.counter = s.counter /\ written.bits = s.bits
      /\ written.shift = s.shift /\ written.pending = s.pending /\ written.latched = s.latched
      /\ written.run = s.run /\ written.out = s.out /\ written.want = s.want
      /\ written.owed = s.owed /\ written.request = s.request /\ written.sb = s.sb
  BY <1>1 DEF Links
<1> HIDE DEF written
<1>3. CASE ~start
  <2>1. after = Stopped(written)
    BY <1>3 DEF ScWritten, written
  <2>2. after \in Links /\ after.active = FALSE
    BY <1>2, <2>1, StoppedFields
  <2>3. /\ after.start = FALSE /\ after.out = s.out /\ after.want = s.want
        /\ after.owed = s.owed /\ after.request = s.request
    BY <1>2, <1>3, <2>1 DEF Stopped, Links
  <2> HIDE DEF after
  <2>4. Settled(after)
    BY <2>3 DEF AtEase, Settled
  <2> QED
    <3>1. Shifting(after) /\ (after.active => after.run = Spent(after))
      BY <2>2 DEF Shifting
    <3>2. Shown(after)
      BY <2>2, <2>3 DEF Shown
    <3> QED
      BY <2>2, <2>4, <3>1, <3>2 DEF AtEase
<1>4. CASE start /\ s.start /\ s.active
  <2>1. after = [written EXCEPT !.internal = clock]
    BY <1>4 DEF ScWritten, written
  <2>2. /\ after \in Links /\ after.start = TRUE /\ after.active = TRUE
        /\ after.counter = s.counter /\ after.bits = s.bits
        /\ after.shift = s.shift /\ after.pending = s.pending /\ after.latched = s.latched
        /\ after.run = s.run /\ after.out = s.out /\ after.want = s.want
        /\ after.owed = s.owed /\ after.request = s.request
    BY <1>2, <1>4, <2>1 DEF Links
  <2> HIDE DEF after
  <2>3. Settled(after) /\ Spent(after) = Spent(s)
    BY <2>2 DEF AtEase, Settled, Spent, Sent
  <2>4. Shifting(after)
    BY <1>4, <2>2 DEF AtEase, Shifting, Sent
  <2> QED
    <3>1. Shown(after)
      BY <2>2 DEF Shown
    <3>2. after.run = Spent(after)
      BY <1>4, <2>2, <2>3 DEF AtEase
    <3> QED
      BY <2>2, <2>3, <2>4, <3>1, <3>2 DEF AtEase
<1>5. CASE start /\ ~(s.start /\ s.active)
  <2>1. after = [Stopped(written) EXCEPT
               !.pending = s.sb, !.shift = s.sb, !.bits = ByteBits,
               !.active = TRUE, !.internal = clock,
               !.counter = IF clock THEN BitCycles ELSE 0,
               !.latched = s.sb, !.run = 0]
    BY <1>5 DEF ScWritten, written
  <2>2. Stopped(written) \in Links /\ s.sb \in SerialBytes
    BY <1>1, <1>2, StoppedFields DEF Links
  <2>3. /\ Stopped(written).start = start /\ Stopped(written).out = s.out
        /\ Stopped(written).want = s.want /\ Stopped(written).owed = s.owed
        /\ Stopped(written).request = s.request
    BY <1>2 DEF Stopped, Links
  <2>4. /\ after \in Links /\ after.active = TRUE /\ after.start = TRUE /\ after.bits = ByteBits
        /\ after.counter = IF clock THEN BitCycles ELSE 0
        /\ after.shift = s.sb /\ after.pending = s.sb /\ after.latched = s.sb /\ after.run = 0
        /\ after.out = s.out /\ after.want = s.want /\ after.owed = s.owed /\ after.request = s.request
    <3>1. (IF clock THEN BitCycles ELSE 0) \in 0 .. BitCycles /\ ByteBits \in 0 .. ByteBits
      BY SerialFacts
    <3>2. PICK u : u = Stopped(written)
      OBVIOUS
    <3>3. start = TRUE
      BY <1>5
    <3>4. u \in Links /\ u.start = start /\ u.out = s.out /\ u.want = s.want /\ u.owed = s.owed /\ u.request = s.request
      BY <2>2, <2>3, <3>2
    <3>5. after = [u EXCEPT
               !.pending = s.sb, !.shift = s.sb, !.bits = ByteBits,
               !.active = TRUE, !.internal = clock,
               !.counter = IF clock THEN BitCycles ELSE 0,
               !.latched = s.sb, !.run = 0]
      BY <2>1, <3>2
    <3> HIDE DEF after
    <3> QED
      BY <2>2, <3>1, <3>3, <3>4, <3>5 DEF Links
  <2> HIDE DEF after
  <2>5. Sent(after) = 0 /\ Spent(after) = 0
    BY <2>4, SerialFacts DEF Sent, Spent
  <2>6. (Power[0] * s.sb + Power[0] - 1) % Power[ByteBits] = s.sb
    BY <2>2, SerialFacts
  <2> QED
    <3>1. Shifting(after)
      BY <2>4, <2>5, <2>6, SerialFacts DEF Shifting
    <3>2. Settled(after) /\ Shown(after)
      BY <2>4 DEF AtEase, Settled, Shown
    <3> QED
      BY <2>4, <2>5, <3>1, <3>2 DEF AtEase
<1> QED
  BY <1>3, <1>4, <1>5

LEMMA SbRests ==
    ASSUME NEW s, AtEase(s), NEW b \in SerialBytes
    PROVE  AtEase([s EXCEPT !.sb = b])
<1> DEFINE after == [s EXCEPT !.sb = b]
<1>1. /\ after \in Links /\ after.start = s.start /\ after.active = s.active /\ after.mixed = s.mixed
      /\ after.counter = s.counter /\ after.bits = s.bits
      /\ after.shift = s.shift /\ after.pending = s.pending /\ after.latched = s.latched
      /\ after.run = s.run /\ after.out = s.out /\ after.want = s.want
      /\ after.owed = s.owed /\ after.request = s.request
  BY DEF AtEase, Links
<1> HIDE DEF after
<1>2. AtEase(after)
  BY <1>1 DEF AtEase, Shifting, Shown, Settled, Spent, Sent
<1> QED
  BY <1>2 DEF after

\* The cycles of an access are the transfer's before they are shifted.
LEMMA BilledTimed ==
    ASSUME NEW s, AtEase(s), NEW n \in Nat \ {0}
    PROVE  LET after == Billed(s, n)
           IN  after \in Links /\ Shifting(after) /\ Shown(after) /\ InTime(after, n)
<1> DEFINE after == Billed(s, n)
<1>0. s \in Links /\ SerialAssumption
  BY SerialAssumption DEF AtEase
<1>1. CASE ~(s.active /\ s.internal)
  <2>1. after = s
    BY <1>1 DEF Billed
  <2> HIDE DEF after
  <2>2. after \in Links /\ Shifting(after) /\ Shown(after) /\ InTime(after, n)
    BY <1>1, <2>1 DEF AtEase, InTime
  <2> QED
    BY <2>2 DEF after
<1>2. CASE s.active /\ s.internal /\ s.run + n < ByteBits * BitCycles
  <2>1. after = [s EXCEPT !.run = @ + n]
    BY <1>2 DEF Billed
  <2>5. s.run + n \in Nat
    BY <1>0 DEF Links
  <2>2. /\ after \in Links /\ after.start = s.start /\ after.active = s.active /\ after.mixed = s.mixed
        /\ after.internal = s.internal /\ after.counter = s.counter /\ after.bits = s.bits
        /\ after.shift = s.shift /\ after.pending = s.pending /\ after.latched = s.latched
        /\ after.run = s.run + n /\ after.out = s.out /\ after.want = s.want
        /\ after.owed = s.owed /\ after.request = s.request
    BY <1>0, <2>1, <2>5 DEF Links
  <2> HIDE DEF after
  <2>4. Spent(after) = Spent(s) /\ Settled(after) /\ Shifting(after) /\ Shown(after)
    BY <2>2 DEF AtEase, Shifting, Shown, Settled, Spent, Sent
  <2>6. Spent(s) = s.run
    BY <1>2 DEF AtEase
  <2>3. after \in Links /\ Shifting(after) /\ Shown(after) /\ InTime(after, n)
    BY <1>2, <2>2, <2>4, <2>6 DEF InTime
  <2> QED
    BY <2>3 DEF after
<1>3. CASE s.active /\ s.internal /\ ~(s.run + n < ByteBits * BitCycles)
  <2>1. after = [s EXCEPT !.want = Append(s.want, s.latched), !.owed = TRUE]
    BY <1>0, <1>3 DEF Billed, Links
  <2>2. Append(s.want, s.latched) \in Seq(SerialBytes)
    BY <1>0 DEF Links
  <2>3. /\ after \in Links /\ after.start = s.start /\ after.active = s.active /\ after.mixed = s.mixed
        /\ after.internal = s.internal /\ after.counter = s.counter /\ after.bits = s.bits
        /\ after.shift = s.shift /\ after.pending = s.pending /\ after.latched = s.latched
        /\ after.run = s.run /\ after.out = s.out /\ after.want = Append(s.want, s.latched)
    BY <1>0, <2>1, <2>2 DEF Links
  <2> HIDE DEF after
  <2>4. Spent(after) = Spent(s) /\ Spent(s) = s.run /\ after.out = s.want
    BY <1>3, <2>3 DEF AtEase, Settled, Spent, Sent
  <2>5. Spent(after) + n >= ByteBits * BitCycles
    BY <1>0, <1>3, <2>4, SerialFacts DEF Links
  <2>6. Shifting(after) /\ Shown(after)
    BY <2>3 DEF AtEase, Shifting, Shown, Sent
  <2>7. InTime(after, n)
    BY <1>3, <2>3, <2>4, <2>5 DEF InTime
  <2> QED
    BY <2>3, <2>6, <2>7 DEF after
<1> QED
  BY <1>1, <1>2, <1>3

(* The next bit takes c cycles.                                            *)
LEMMA NextBit ==
    ASSUME NEW s \in Links, s.bits \in 1 .. ByteBits,
           NEW c, c = IF s.counter = 0 THEN BitCycles ELSE s.counter
    PROVE  /\ c \in 1 .. BitCycles /\ Sent(s) \in 0 .. ByteBits - 1
           /\ Spent(s) \in Nat /\ Spent(s) + c = (Sent(s) + 1) * BitCycles
           /\ (Sent(s) + 1) * BitCycles <= ByteBits * BitCycles
           /\ s.bits > 1 => (Sent(s) + 1) * BitCycles < ByteBits * BitCycles
           /\ s.bits = 1 => Sent(s) + 1 = ByteBits
<1> DEFINE k == Sent(s) b == BitCycles m == ByteBits
<1>1. s.counter \in 0 .. b /\ b \in Nat /\ b >= 1 /\ m \in Nat /\ m >= 1
  BY SerialFacts DEF Links
<1>2. c \in 1 .. b /\ k \in 0 .. m - 1 /\ (s.bits > 1 => k + 1 <= m - 1) /\ (s.bits = 1 => k + 1 = m)
  BY <1>1 DEF Sent
<1>3. Spent(s) = k * b + (b - c)
  BY <1>1 DEF Spent
<1> HIDE DEF k, b, m
<1>4. k * b \in Nat /\ (k + 1) * b = k * b + b
  BY <1>1, <1>2
<1>5. \A i \in Nat, j \in Nat : i <= j => i * b <= j * b
  BY <1>1
<1>6. (k + 1) * b <= m * b
  BY <1>1, <1>2, <1>5
<1>7. k + 1 <= m - 1 => (k + 1) * b < m * b
  <2>1. k + 1 <= m - 1 => (k + 1) * b <= (m - 1) * b
    BY <1>1, <1>2, <1>5
  <2>2. (m - 1) * b = m * b - b /\ m * b \in Nat /\ (k + 1) * b \in Nat
    BY <1>1, <1>2, <1>4
  <2> QED
    BY <1>1, <2>1, <2>2
<1>8. Spent(s) \in Nat /\ Spent(s) + c = (k + 1) * b
  <2>1. b - c \in Nat
    BY <1>1, <1>2
  <2> QED
    BY <1>1, <1>2, <1>3, <1>4, <2>1
<1> QED
  BY <1>2, <1>6, <1>7, <1>8 DEF k, b, m

LEMMA ClockedMore ==
    ASSUME NEW s \in Links, Shifting(s), s.active, s.bits > 1,
           NEW after, after = Clocked([s EXCEPT !.counter = 0])
    PROVE  /\ after \in Links /\ Shifting(after) /\ after.active = TRUE /\ after.counter = 0
           /\ after.bits = s.bits - 1 /\ after.internal = s.internal /\ after.start = s.start /\ after.mixed = s.mixed
           /\ after.run = s.run /\ after.out = s.out /\ after.want = s.want /\ after.latched = s.latched
           /\ after.owed = s.owed /\ after.request = s.request
<1> DEFINE moved == (2 * s.shift + 1) % Power[ByteBits]
<1>1. /\ s.bits \in 1 .. ByteBits /\ s.pending = s.latched /\ s.latched \in SerialBytes
      /\ s.shift = (Power[Sent(s)] * s.latched + Power[Sent(s)] - 1) % Power[ByteBits]
      /\ s.active = TRUE
  BY DEF Shifting, Links
<1>2. Sent(s) \in Nat /\ ByteBits \in Nat
  BY <1>1, SerialFacts DEF Sent
<1>3. /\ moved = (Power[Sent(s) + 1] * s.latched + Power[Sent(s) + 1] - 1) % Power[ByteBits]
      /\ moved \in SerialBytes
  BY <1>1, <1>2, ShiftedOn
<1>4. 0 \in 0 .. BitCycles /\ s.bits - 1 \in 1 .. ByteBits /\ s.bits - 1 \in 0 .. ByteBits
      /\ s.bits # 0 /\ s.bits - 1 # 0
  BY <1>1, SerialFacts
<1>5. after = [s EXCEPT !.counter = 0, !.shift = moved, !.sb = moved, !.bits = s.bits - 1]
  BY <1>4 DEF Clocked, Links
<1> HIDE DEF moved
<1>6. /\ after \in Links /\ after.active = TRUE /\ after.counter = 0 /\ after.shift = moved
      /\ after.bits = s.bits - 1 /\ after.internal = s.internal /\ after.start = s.start /\ after.mixed = s.mixed
      /\ after.run = s.run /\ after.out = s.out /\ after.want = s.want /\ after.latched = s.latched
      /\ after.owed = s.owed /\ after.request = s.request /\ after.pending = s.pending
  BY <1>1, <1>3, <1>4, <1>5 DEF Links
<1>7. Sent(after) = Sent(s) + 1
  BY <1>1, <1>2, <1>6 DEF Sent
<1>8. Shifting(after)
  BY <1>1, <1>3, <1>4, <1>6, <1>7 DEF Shifting
<1> QED
  BY <1>6, <1>8

LEMMA ClockedLast ==
    ASSUME NEW s \in Links, Shifting(s), s.active, s.bits = 1,
           NEW after, after = Clocked([s EXCEPT !.counter = 0])
    PROVE  /\ after \in Links /\ after.active = FALSE /\ after.start = FALSE /\ after.request = TRUE
           /\ after.out = Append(s.out, s.latched) /\ after.want = s.want
<1> DEFINE moved == (2 * s.shift + 1) % Power[ByteBits]
<1>1. /\ s.pending = s.latched /\ s.latched \in SerialBytes /\ s.shift \in Nat
      /\ s.out \in Seq(SerialBytes) /\ Power[ByteBits] \in Nat \ {0}
  <2>1. s.shift \in SerialBytes
    BY DEF Links
  <2> QED
    BY <2>1, SerialFacts DEF Shifting, Links
<1>2. moved \in SerialBytes
  <2>1. 2 * s.shift + 1 \in Nat
    BY <1>1
  <2> QED
    BY <1>1, <2>1 DEF SerialBytes
<1>3. 0 \in 0 .. BitCycles /\ 0 \in 0 .. ByteBits /\ s.bits - 1 = 0
  BY SerialFacts
<1>4. after = [s EXCEPT !.counter = 0, !.shift = moved, !.sb = moved, !.bits = 0, !.active = FALSE,
                    !.start = FALSE, !.request = TRUE, !.out = Append(s.out, s.latched)]
  BY <1>1, <1>3 DEF Clocked, Finished, Stopped, Links
<1>5. Append(s.out, s.latched) \in Seq(SerialBytes)
  BY <1>1
<1> HIDE DEF moved
<1>6. PICK longer \in Seq(SerialBytes) : longer = Append(s.out, s.latched)
  BY <1>5
<1>7. after = [s EXCEPT !.counter = 0, !.shift = moved, !.sb = moved, !.bits = 0, !.active = FALSE,
                    !.start = FALSE, !.request = TRUE, !.out = longer]
  BY <1>4, <1>6
<1>8. 0 \in 0 .. BitCycles /\ 0 \in 0 .. ByteBits
  BY <1>3
<1>9. after \in Links
  <2>1. PICK u : u = [s EXCEPT !.counter = 0, !.shift = moved, !.sb = moved, !.bits = 0]
    OBVIOUS
  <2>2. u \in Links
    BY <1>2, <1>8, <2>1 DEF Links
  <2>3. after = [u EXCEPT !.active = FALSE, !.start = FALSE, !.request = TRUE, !.out = longer]
    BY <1>7, <2>1 DEF Links
  <2> QED
    BY <2>2, <2>3 DEF Links
<1>10. /\ after.active = FALSE /\ after.start = FALSE /\ after.request = TRUE
       /\ after.out = longer /\ after.want = s.want
  BY <1>7 DEF Links
<1> QED
  BY <1>6, <1>9, <1>10

LEMMA TurnInv == SerialIInv /\ SerialTurn => SerialIInv'
<1> SUFFICES ASSUME SerialIInv, SerialTurn PROVE SerialIInv'
  OBVIOUS
<1>1. PICK s : s = link
  OBVIOUS
<1>2. PICK after : after = link'
  OBVIOUS
<1>3. PICK budget : budget = shifting
  OBVIOUS
<1>4. PICK rest : rest = shifting'
  OBVIOUS
<1>5. s \in Links /\ budget \in Nat /\ budget > 0 /\ Shifting(s) /\ Shown(s) /\ InTime(s, budget)
  BY <1>1, <1>3 DEF SerialIInv, SerialTurn
<1> DEFINE c == IF s.counter = 0 THEN BitCycles ELSE s.counter
<1>6. \/ ~(s.active /\ s.internal) /\ rest = 0 /\ after = s
      \/ /\ s.active /\ s.internal /\ budget >= c /\ rest = budget - c
         /\ after = Clocked([s EXCEPT !.counter = 0])
      \/ /\ s.active /\ s.internal /\ ~(budget >= c) /\ rest = 0
         /\ after = [s EXCEPT !.counter = c - budget]
  BY <1>1, <1>2, <1>3, <1>4 DEF SerialTurn
<1> SUFFICES after \in Links /\ rest \in Nat /\ Shifting(after) /\ Shown(after) /\ InTime(after, rest)
  BY <1>2, <1>4 DEF SerialIInv
<1>7. CASE ~(s.active /\ s.internal) /\ rest = 0 /\ after = s
  BY <1>5, <1>7 DEF InTime
<1>8. ASSUME s.active, s.internal
      PROVE  /\ c \in 1 .. BitCycles /\ Sent(s) \in 0 .. ByteBits - 1 /\ s.bits \in 1 .. ByteBits
             /\ Spent(s) \in Nat /\ Spent(s) + c = (Sent(s) + 1) * BitCycles
             /\ (Sent(s) + 1) * BitCycles <= ByteBits * BitCycles
             /\ s.bits > 1 => (Sent(s) + 1) * BitCycles < ByteBits * BitCycles
             /\ s.bits = 1 => Sent(s) + 1 = ByteBits
             /\ ByteBits * BitCycles \in Nat
             /\ \/ Settled(s) /\ s.run = Spent(s) + budget /\ s.run < ByteBits * BitCycles
                \/ /\ s.want = Append(s.out, s.latched)
                   /\ Spent(s) + budget >= ByteBits * BitCycles
  <2>1. s.bits \in 1 .. ByteBits
    BY <1>5, <1>8 DEF Shifting
  <2>2. ByteBits * BitCycles \in Nat
    BY SerialFacts
  <2>3. \/ Settled(s) /\ s.run = Spent(s) + budget /\ s.run < ByteBits * BitCycles
        \/ /\ s.want = Append(s.out, s.latched)
           /\ Spent(s) + budget >= ByteBits * BitCycles
    BY <1>5, <1>8 DEF InTime
  <2> QED
    BY <1>5, <2>1, <2>2, <2>3, NextBit
<1> DEFINE total == ByteBits * BitCycles ends == (Sent(s) + 1) * BitCycles
<1>9. CASE /\ s.active /\ s.internal /\ budget >= c /\ rest = budget - c
           /\ after = Clocked([s EXCEPT !.counter = 0])
  <2>0. /\ c \in Nat /\ total \in Nat /\ ends \in Nat /\ Spent(s) \in Nat /\ Spent(s) + c = ends
        /\ ends <= total /\ rest \in Nat /\ Spent(s) + budget = ends + rest
    <3>1. c \in 1 .. BitCycles /\ total \in Nat /\ Spent(s) \in Nat /\ Spent(s) + c = ends /\ ends <= total
          /\ BitCycles \in Nat
      BY <1>8, <1>9, SerialFacts
    <3> HIDE DEF c, total, ends
    <3> QED
      BY <1>5, <1>9, <3>1
  <2>1. CASE s.bits > 1
    <3>1. /\ after \in Links /\ Shifting(after) /\ after.active = TRUE /\ after.counter = 0
          /\ after.bits = s.bits - 1 /\ after.internal = s.internal /\ after.start = s.start /\ after.mixed = s.mixed
          /\ after.run = s.run /\ after.out = s.out /\ after.want = s.want /\ after.latched = s.latched
          /\ after.owed = s.owed /\ after.request = s.request
      BY <1>5, <1>9, <2>1, ClockedMore
    <3>2. Spent(after) = ends /\ ends < total
      <4>1. s.bits \in 1 .. ByteBits /\ ByteBits \in Nat
        BY <1>8, <1>9, SerialFacts
      <4>2. Sent(after) = Sent(s) + 1
        BY <3>1, <4>1 DEF Sent
      <4>3. ends \in Nat
        BY <2>0
      <4>4. Spent(after) = ends
        BY <3>1, <4>2, <4>3 DEF Spent
      <4> QED
        BY <1>8, <1>9, <2>1, <4>4
    <3>3. Shown(after)
      <4>1. s.active = TRUE
        BY <1>5, <1>9 DEF Links
      <4> QED
        BY <1>5, <3>1, <4>1 DEF Shown
    <3>4. InTime(after, rest)
      <4>1. CASE Settled(s) /\ s.run = Spent(s) + budget /\ s.run < total
        <5>1. Settled(after) /\ after.run = Spent(after) + rest /\ after.run < total
          BY <2>0, <3>1, <3>2, <4>1 DEF Settled
        <5>2. rest = 0 => after.run = Spent(after)
          BY <2>0, <3>2, <5>1
        <5> QED
          BY <2>0, <3>1, <5>1, <5>2, <1>9 DEF InTime
      <4>2. CASE s.want = Append(s.out, s.latched) /\ Spent(s) + budget >= total
        <5>1. rest > 0 /\ Spent(after) + rest >= total
          BY <2>0, <3>2, <4>2
        <5> QED
          BY <1>9, <3>1, <4>2, <5>1 DEF InTime
      <4> QED
        BY <1>8, <1>9, <4>1, <4>2
    <3> QED
      BY <2>0, <3>1, <3>3, <3>4
  <2>2. CASE s.bits = 1
    <3>1. /\ after \in Links /\ after.active = FALSE /\ after.start = FALSE /\ after.request = TRUE
          /\ after.out = Append(s.out, s.latched) /\ after.want = s.want
      BY <1>5, <1>9, <2>2, ClockedLast
    <3>2. ends = total
      BY <1>8, <1>9, <2>2
    <3>3. s.want = Append(s.out, s.latched)
      <4>1. ~(s.run = Spent(s) + budget /\ s.run < total)
        BY <2>0, <3>2
      <4> QED
        BY <1>8, <1>9, <4>1
    <3>4. Shifting(after) /\ Shown(after)
      BY <3>1 DEF Shifting, Shown
    <3>5. InTime(after, rest)
      BY <3>1, <3>3 DEF InTime, Settled
    <3> QED
      BY <2>0, <3>1, <3>4, <3>5
  <2> QED
    <3>1. s.bits \in 1 .. ByteBits
      BY <1>8, <1>9
    <3> QED
      BY <2>1, <2>2, <3>1, SerialFacts
<1>10. CASE /\ s.active /\ s.internal /\ ~(budget >= c) /\ rest = 0
            /\ after = [s EXCEPT !.counter = c - budget]
  <2>1. c \in 1 .. BitCycles /\ total \in Nat /\ Spent(s) \in Nat /\ Spent(s) + c = ends /\ ends <= total
        /\ BitCycles \in Nat /\ Sent(s) \in Nat
    BY <1>8, <1>10, SerialFacts
  <2>2. c - budget \in 1 .. BitCycles /\ Spent(s) + budget < total
    <3> HIDE DEF c, total, ends
    <3> QED
      BY <1>5, <1>10, <2>1
  <2>3. /\ after \in Links /\ after.counter = c - budget /\ after.active = s.active /\ after.bits = s.bits
        /\ after.internal = s.internal /\ after.start = s.start /\ after.mixed = s.mixed
        /\ after.run = s.run /\ after.out = s.out /\ after.want = s.want /\ after.latched = s.latched
        /\ after.owed = s.owed /\ after.request = s.request /\ after.pending = s.pending /\ after.shift = s.shift
    <3>1. PICK u : u = c - budget
      OBVIOUS
    <3>2. u \in 0 .. BitCycles /\ after = [s EXCEPT !.counter = u]
      BY <1>10, <2>2, <3>1
    <3> HIDE DEF c
    <3> QED
      BY <1>5, <3>1, <3>2 DEF Links
  <2>4. Spent(after) = Spent(s) + budget
    <3>1. Sent(after) = Sent(s) /\ Sent(s) * BitCycles \in Nat
      BY <2>1, <2>3 DEF Sent
    <3>2. Spent(after) = Sent(s) * BitCycles + (BitCycles - (c - budget))
      BY <2>2, <2>3, <3>1 DEF Spent
    <3>3. Spent(s) = Sent(s) * BitCycles + (BitCycles - c)
      <4>1. s.counter \in 0 .. BitCycles
        BY <1>5 DEF Links
      <4> QED
        BY <2>1, <3>1, <4>1 DEF Spent
    <3> HIDE DEF c
    <3> QED
      BY <1>5, <2>1, <3>1, <3>2, <3>3
  <2>5. Settled(s) /\ s.run = Spent(s) + budget
    <3>1. Spent(s) + budget \in Nat /\ total \in Nat
      BY <1>5, <2>1
    <3> QED
      BY <1>8, <1>10, <2>2, <3>1
  <2>6. Settled(after) /\ after.run = Spent(after)
    BY <2>3, <2>4, <2>5 DEF Settled
  <2>7. Shifting(after) /\ Shown(after)
    BY <1>5, <2>3 DEF Shifting, Shown, Sent
  <2> QED
    BY <1>10, <2>3, <2>6, <2>7 DEF InTime
<1> QED
  BY <1>6, <1>7, <1>9, <1>10

(* What a port at rest may change without disturbing its transfer.         *)
SameTransfer(after, s) ==
    /\ after.active = s.active /\ after.counter = s.counter /\ after.bits = s.bits /\ after.shift = s.shift
    /\ after.pending = s.pending /\ after.latched = s.latched /\ after.run = s.run

LEMMA StaysResting ==
    ASSUME NEW s, AtEase(s), NEW after \in Links, Shown(after), Settled(after),
           SameTransfer(after, s) \/ after.active = FALSE
    PROVE  AtEase(after)
<1>1. CASE after.active = FALSE
  <2>1. Shifting(after) /\ (after.active => after.run = Spent(after))
    BY <1>1 DEF Shifting
  <2> QED
    BY <2>1 DEF AtEase
<1>2. CASE SameTransfer(after, s)
  <2>1. Sent(after) = Sent(s)
    BY <1>2 DEF SameTransfer, Sent
  <2>2. Spent(after) = Spent(s)
    BY <1>2, <2>1 DEF SameTransfer, Spent
  <2>3. Shifting(after)
    BY <1>2, <2>1 DEF AtEase, Shifting, SameTransfer
  <2>4. after.active => after.run = Spent(after)
    BY <1>2, <2>2 DEF AtEase, SameTransfer
  <2> QED
    BY <2>3, <2>4 DEF AtEase
<1> QED
  BY <1>1, <1>2

LEMMA InitSerialIInv == SerialInit => SerialIInv
<1> SUFFICES ASSUME SerialInit PROVE SerialIInv
  OBVIOUS
<1>1. link = NewLink /\ shifting = 0
  BY DEF SerialInit
<1>2. 0 \in SerialBytes /\ 0 \in 0 .. BitCycles /\ 0 \in 0 .. ByteBits
  BY SerialFacts
<1>3. NewLink \in Links
  BY <1>2 DEF NewLink, Links
<1>4. Shifting(NewLink) /\ Shown(NewLink) /\ InTime(NewLink, 0)
  BY DEF NewLink, Shifting, Shown, InTime, Settled
<1> QED
  BY <1>1, <1>3, <1>4 DEF SerialIInv

LEMMA NextSerialIInv == SerialIInv /\ [SerialNext]_serialVars => SerialIInv'
<1> SUFFICES ASSUME SerialIInv, [SerialNext]_serialVars PROVE SerialIInv'
  OBVIOUS
<1>1. CASE SerialAccess
  <2>1. /\ shifting = 0 /\ AtEase(link)
    BY <1>1, AtRest DEF SerialAccess
  <2>2. PICK n \in SerialSteps :
          \E written \in {link}
                 \cup {[link EXCEPT !.sb = b] : b \in SerialBytes}
                 \cup {ScWritten(link, start, clock) : start \in BOOLEAN, clock \in BOOLEAN} :
            link' = Billed(written, n) /\ shifting' = n
    BY <1>1 DEF SerialAccess
  <2>3. PICK written : AtEase(written) /\ link' = Billed(written, n) /\ shifting' = n
    BY <2>1, <2>2, SbRests, WrittenRests
  <2>4. n \in Nat \ {0}
    BY SerialAssumption
  <2> QED
    BY <2>3, <2>4, BilledTimed DEF SerialIInv
<1>2. CASE SerialTurn
  BY <1>2, TurnInv
<1>3. ASSUME shifting = 0, shifting' = 0, AtEase(link')
      PROVE  SerialIInv'
  BY <1>3 DEF SerialIInv, AtEase, InTime
<1>4. CASE TakeSerial
  <2>1. shifting = 0 /\ shifting' = 0 /\ AtEase(link) /\ link' = [link EXCEPT !.out = <<>>, !.want = <<>>]
    BY <1>4, AtRest DEF TakeSerial
  <2>2. link \in Links /\ Shown(link) /\ Settled(link) /\ <<>> \in Seq(SerialBytes)
    BY <2>1 DEF AtEase
  <2>3. link' \in Links /\ SameTransfer(link', link)
    BY <2>1, <2>2 DEF Links, SameTransfer
  <2>4. Shown(link') /\ Settled(link')
    BY <2>1, <2>2 DEF Links, Shown, Settled
  <2> QED
    BY <1>3, <2>1, <2>3, <2>4, StaysResting
<1>5. CASE AcknowledgeSerial
  <2>1. shifting = 0 /\ shifting' = 0 /\ AtEase(link)
    BY <1>5, AtRest DEF AcknowledgeSerial
  <2>2. PICK request \in BOOLEAN : link' = [link EXCEPT !.request = request, !.owed = FALSE]
    BY <1>5 DEF AcknowledgeSerial
  <2>3. link \in Links /\ Shown(link) /\ Settled(link)
    BY <2>1 DEF AtEase
  <2>4. link' \in Links /\ SameTransfer(link', link)
    BY <2>2, <2>3 DEF Links, SameTransfer
  <2>5. Shown(link') /\ Settled(link')
    BY <2>2, <2>3 DEF Links, Shown, Settled
  <2> QED
    BY <1>3, <2>1, <2>4, <2>5, StaysResting
<1>6. CASE LoadRomSerial
  <2>1. shifting = 0 /\ shifting' = 0 /\ AtEase(link) /\ link \in Links
    BY <1>6, AtRest DEF LoadRomSerial, AtEase
  <2>2. PICK u : u = Stopped(link)
    OBVIOUS
  <2>3. /\ u \in Links /\ u.active = FALSE /\ u.owed = link.owed /\ u.request = link.request
    BY <2>1, <2>2, StoppedFields DEF Stopped, Links
  <2>4. link' = [u EXCEPT !.out = <<>>, !.want = <<>>, !.run = 0, !.mixed = TRUE]
    BY <1>6, <2>2 DEF LoadRomSerial
  <2>7. <<>> \in Seq(SerialBytes) /\ 0 \in Nat
    OBVIOUS
  <2>5. link' \in Links /\ link'.active = FALSE
    BY <2>3, <2>4, <2>7 DEF Links
  <2>6. Shown(link') /\ Settled(link')
    BY <2>1, <2>3, <2>4 DEF AtEase, Links, Shown, Settled
  <2> QED
    BY <1>3, <2>1, <2>5, <2>6, StaysResting
<1>7. CASE ResetMemorySerial
  <2>1. shifting = 0 /\ shifting' = 0 /\ AtEase(link) /\ link \in Links
    BY <1>7, AtRest DEF ResetMemorySerial, AtEase
  <2>2. PICK u : u = Stopped(link)
    OBVIOUS
  <2>3. u \in Links /\ u.active = FALSE
    BY <2>1, <2>2, StoppedFields
  <2>7. 0 \in SerialBytes
    BY SerialFacts
  <2>4. link' = [u EXCEPT !.out = <<>>, !.pending = 0, !.internal = TRUE,
                                     !.sb = 0, !.start = FALSE, !.clock = FALSE,
                                     !.request = FALSE, !.want = <<>>, !.run = 0,
                                     !.owed = FALSE, !.mixed = FALSE]
    BY <1>7, <2>2 DEF ResetMemorySerial
  <2>8. PICK v : v = [u EXCEPT !.out = <<>>, !.want = <<>>, !.run = 0, !.pending = 0, !.sb = 0]
    OBVIOUS
  <2>9. v \in Links /\ v.active = FALSE
    <3>1. <<>> \in Seq(SerialBytes) /\ 0 \in Nat
      OBVIOUS
    <3> QED
      BY <2>3, <2>7, <2>8, <3>1 DEF Links
  <2>10. link' = [v EXCEPT !.internal = TRUE, !.start = FALSE, !.clock = FALSE,
                           !.request = FALSE, !.owed = FALSE, !.mixed = FALSE]
    BY <2>3, <2>4, <2>8 DEF Links
  <2>5. link' \in Links /\ link'.active = FALSE
    BY <2>9, <2>10 DEF Links
  <2>6. Shown(link') /\ Settled(link')
    BY <2>3, <2>4 DEF Links, Shown, Settled
  <2> QED
    BY <1>3, <2>1, <2>5, <2>6, StaysResting
<1>8. CASE RestoreSerial
  <2>1. shifting = 0 /\ shifting' = 0 /\ AtEase(link) /\ 0 \in SerialBytes
    BY <1>8, AtRest, SerialFacts DEF RestoreSerial
  <2>2. PICK start, clock, request \in BOOLEAN :
          link' = [link EXCEPT !.start = start, !.clock = clock, !.request = request,
                               !.sb = 0, !.owed = FALSE, !.mixed = TRUE]
    BY <1>8 DEF RestoreSerial
  <2>3. link \in Links /\ Settled(link)
    BY <2>1 DEF AtEase
  <2>4. link' \in Links /\ SameTransfer(link', link)
    <3>1. link' \in Links
      <4>1. PICK v : v = [link EXCEPT !.start = start, !.clock = clock, !.request = request]
        OBVIOUS
      <4>2. v \in Links
        BY <2>3, <4>1 DEF Links
      <4>3. link' = [v EXCEPT !.sb = 0, !.owed = FALSE, !.mixed = TRUE]
        BY <2>2, <2>3, <4>1 DEF Links
      <4>4. 0 \in SerialBytes
        BY <2>1
      <4> QED
        BY <4>2, <4>3, <4>4 DEF Links
    <3>2. SameTransfer(link', link)
      BY <2>2, <2>3 DEF Links, SameTransfer
    <3> QED
      BY <3>1, <3>2
  <2>5. Shown(link') /\ Settled(link')
    BY <2>2, <2>3 DEF Links, Shown, Settled
  <2> QED
    BY <1>3, <2>1, <2>4, <2>5, StaysResting
<1>9. CASE UNCHANGED serialVars
  BY <1>9 DEF serialVars, SerialIInv
<1> QED
  BY <1>1, <1>2, <1>4, <1>5, <1>6, <1>7, <1>8, <1>9 DEF SerialNext

(* The log holds exactly the bytes whose transfers had all their cycles,   *)
(* each requested its interrupt, SC shows a transfer while one runs, and   *)
(* its bits are in time (advance_serial, write_serial_control).            *)
THEOREM TransferIsExact == SerialSpec => []TransferExact
<1>1. SerialInit => SerialIInv
  BY InitSerialIInv
<1>2. SerialIInv /\ [SerialNext]_serialVars => SerialIInv'
  BY NextSerialIInv
<1>3. SerialIInv => TransferExact
  <2> SUFFICES ASSUME SerialIInv, shifting = 0 PROVE TransferExact
    BY DEF TransferExact
  <2>1. AtEase(link)
    BY AtRest
  <2>2. BitsTimely
    BY <2>1 DEF AtEase, Shifting, Spent, Sent, BitsTimely
  <2> QED
    BY <2>1, <2>2 DEF TransferExact, AtEase, Shown, Settled
<1> QED
  BY <1>1, <1>2, <1>3, PTL DEF SerialSpec

(* ----------------------------- the timers ---------------------------- *)
(* For registers of every width, any choice of clocks and any sequence of  *)
(* writes: their shape, the remembered input, the counting of edges and    *)
(* the service of every overflow. The last rests on the distance of two    *)
(* edges, hence on ClocksAssumption. Each operator gets a lemma that says  *)
(* which fields it leaves alone, the lemmas of the actions follow.         *)

Timed(s) == s \in Blocks /\ (s.delay > 0 <=> s.phase = "overflow")

(* As many overflows are owed as are pending.                              *)
Owes(s) == s.owed = IF s.phase = "overflow" THEN 1 ELSE 0

(* The modulo the reload will take is the register's.                      *)
Modulo == t.reload = t.tma

IInv == TypeOK /\ InputCoherent /\ Modulo

USE DEF Counts, ReloadDelay

LEMMA SignalType == \A div, tac : Signal(div, tac) \in BOOLEAN
BY DEF Signal, Bit

LEMMA IncrementFields ==
    ASSUME NEW s, Timed(s)
    PROVE  LET r == Increment(s)
           IN  /\ Timed(r) /\ r.ticked
               /\ r.div = s.div /\ r.tac = s.tac /\ r.input = s.input /\ r.tma = s.tma
               /\ s.reload = s.tma => r.reload = r.tma
               /\ Owes(s) /\ s.phase # "overflow" => Owes(r)
               /\ r.phase = "reloading" => s.phase = "reloading"
<1> USE TimersAssumption DEF Owes
<1>1. CASE s.tima = TimaSpan - 1
  <2> DEFINE r == Increment(s)
  <2>1. r = [s EXCEPT !.tima = 0, !.reload = s.tma, !.delay = 4, !.phase = "overflow",
                      !.ticked = TRUE, !.owed = s.owed + 1]
    BY <1>1 DEF Increment
  <2>2. r = [div |-> s.div, input |-> s.input, phase |-> "overflow", reload |-> s.tma,
             delay |-> 4, tima |-> 0, tma |-> s.tma, tac |-> s.tac, flag |-> s.flag,
             ticked |-> TRUE, owed |-> s.owed + 1]
    BY <2>1 DEF Timed, Blocks
  <2> HIDE DEF r
  <2>3. r \in Blocks
    BY <2>2 DEF Timed, Blocks
  <2> QED BY <2>2, <2>3 DEF Timed, r
<1>2. CASE s.tima # TimaSpan - 1
  <2> DEFINE r == Increment(s)
  <2>1. r = [s EXCEPT !.tima = s.tima + 1, !.ticked = TRUE]
    BY <1>2 DEF Increment
  <2>2. r = [div |-> s.div, input |-> s.input, phase |-> s.phase, reload |-> s.reload,
             delay |-> s.delay, tima |-> s.tima + 1, tma |-> s.tma, tac |-> s.tac,
             flag |-> s.flag, ticked |-> TRUE, owed |-> s.owed]
    BY <2>1 DEF Timed, Blocks
  <2> HIDE DEF r
  <2>3. r \in Blocks
    BY <1>2, <2>2 DEF Timed, Blocks
  <2> QED BY <1>2, <2>2, <2>3 DEF Timed, r
<1> QED BY <1>1, <1>2

(* A step that may increment TIMA and then remembers an input.             *)
LEMMA CountedFields ==
    ASSUME NEW s, Timed(s), NEW i \in BOOLEAN, NEW fallen \in BOOLEAN
    PROVE  LET r == [(IF fallen THEN Increment(s) ELSE s) EXCEPT !.input = i]
           IN  /\ Timed(r) /\ r.input = i
               /\ r.ticked <=> fallen \/ s.ticked
               /\ r.div = s.div /\ r.tac = s.tac /\ r.tma = s.tma
               /\ s.reload = s.tma => r.reload = r.tma
               /\ Owes(s) /\ (fallen => s.phase # "overflow") => Owes(r)
               /\ r.phase = "reloading" => s.phase = "reloading"
               /\ ~fallen => r.phase = s.phase /\ r.delay = s.delay /\ r.tima = s.tima
<1> DEFINE u == IF fallen THEN Increment(s) ELSE s
<1>1. /\ Timed(u) /\ (u.ticked <=> fallen \/ s.ticked)
      /\ u.div = s.div /\ u.tac = s.tac /\ u.tma = s.tma
      /\ s.reload = s.tma => u.reload = u.tma
      /\ Owes(s) /\ (fallen => s.phase # "overflow") => Owes(u)
      /\ u.phase = "reloading" => s.phase = "reloading"
      /\ ~fallen => u.phase = s.phase /\ u.delay = s.delay /\ u.tima = s.tima
  BY IncrementFields DEF Timed, Blocks
<1> HIDE DEF u
<1>2. LET r == [u EXCEPT !.input = i]
      IN  /\ Timed(r) /\ r.input = i /\ r.ticked = u.ticked
          /\ r.div = u.div /\ r.tac = u.tac /\ r.tma = u.tma /\ r.reload = u.reload
          /\ r.phase = u.phase /\ r.delay = u.delay /\ r.tima = u.tima /\ r.owed = u.owed
  BY <1>1 DEF Timed, Blocks
<1> HIDE DEF Timed
<1> QED BY <1>1, <1>2 DEF u, Owes

LEMMA TimaFields ==
    ASSUME NEW s, Timed(s), NEW v \in Counts
    PROVE  LET r == TimaWritten(s, v)
           IN  /\ Timed(r)
               /\ r.div = s.div /\ r.tac = s.tac /\ r.input = s.input /\ r.ticked = s.ticked
               /\ r.tma = s.tma /\ r.reload = s.reload
               /\ Owes(s) => Owes(r)
               /\ r.phase # "overflow"
               /\ r.phase = "reloading" => s.phase = "reloading" /\ r.tima = s.reload
<1> USE DEF Owes
<1>1. CASE s.phase = "running"
  BY <1>1 DEF TimaWritten, Timed, Blocks
<1>2. CASE s.phase = "overflow"
  <2> DEFINE r == TimaWritten(s, v)
  <2>1. r = [s EXCEPT !.tima = v, !.phase = "running", !.delay = 0, !.owed = s.owed - 1]
    BY <1>2 DEF TimaWritten
  <2>2. r = [div |-> s.div, input |-> s.input, phase |-> "running", reload |-> s.reload,
             delay |-> 0, tima |-> v, tma |-> s.tma, tac |-> s.tac,
             flag |-> s.flag, ticked |-> s.ticked, owed |-> s.owed - 1]
    BY <2>1 DEF Timed, Blocks
  <2> HIDE DEF r
  <2>3. r \in Blocks
    BY <1>2, <2>2 DEF Timed, Blocks
  <2> QED BY <1>2, <2>2, <2>3 DEF Timed, r
<1>3. CASE s.phase = "reloading"
  BY <1>3 DEF TimaWritten, Timed, Blocks
<1> QED BY <1>1, <1>2, <1>3 DEF Timed, Blocks

LEMMA TmaFields ==
    ASSUME NEW s, Timed(s), NEW v \in Counts
    PROVE  LET r == TmaWritten(s, v)
           IN  /\ Timed(r)
               /\ r.div = s.div /\ r.tac = s.tac /\ r.input = s.input /\ r.ticked = s.ticked
               /\ r.tma = s.tma /\ r.reload = v
               /\ r.phase = s.phase /\ r.delay = s.delay /\ r.owed = s.owed
               /\ r.phase = "reloading" => r.tima = v
BY DEF TmaWritten, Timed, Blocks

LEMMA AdvancedFields ==
    ASSUME NEW s, Timed(s), NEW n \in 1 .. Chunk
    PROVE  LET r == Advanced(s, n)
           IN  /\ Timed(r)
               /\ r.div = s.div /\ r.tac = s.tac /\ r.input = s.input /\ r.ticked = s.ticked
               /\ r.tma = s.tma /\ r.reload = s.reload
               /\ Owes(s) => Owes(r)
               /\ r.phase = "reloading" => s.phase = "overflow" /\ r.tima = r.reload
               /\ r.phase = "overflow" => s.phase = "overflow" /\ r.delay = s.delay - n
<1> USE DEF Owes
<1>1. CASE s.phase = "running"
  BY <1>1 DEF Advanced, Timed, Blocks
<1>2. CASE s.phase = "overflow" /\ s.delay > n
  BY <1>2 DEF Advanced, Timed, Blocks, Chunk
<1>3. CASE s.phase = "overflow" /\ s.delay <= n
  <2> DEFINE r == Advanced(s, n)
  <2>1. r = [s EXCEPT !.delay = 0, !.tima = s.reload, !.flag = TRUE, !.phase = "reloading", !.owed = s.owed - 1]
    BY <1>3 DEF Advanced
  <2>2. r = [div |-> s.div, input |-> s.input, phase |-> "reloading", reload |-> s.reload,
             delay |-> 0, tima |-> s.reload, tma |-> s.tma, tac |-> s.tac,
             flag |-> TRUE, ticked |-> s.ticked, owed |-> s.owed - 1]
    BY <2>1 DEF Timed, Blocks
  <2> HIDE DEF r
  <2>3. r \in Blocks
    BY <1>3, <2>2 DEF Timed, Blocks, Chunk
  <2> QED BY <1>3, <2>2, <2>3 DEF Timed, r, Chunk
<1>4. CASE s.phase = "reloading"
  BY <1>4 DEF Advanced, Timed, Blocks
<1> QED BY <1>1, <1>2, <1>3, <1>4 DEF Timed, Blocks, Chunk

(* Accesses that do not write DIV and TAC together, which are no           *)
(* neighbours.                                                             *)
Writes ==
    {w \in [div : BOOLEAN, tima : Counts \cup {None}, tma : Counts \cup {None},
            tac : Controls \cup {NoControl}] : w.div => w.tac = NoControl}

LEMMA WriteType ==
    ASSUME NEW d \in BOOLEAN, NEW v \in Counts \cup {None}, NEW u \in Counts \cup {None},
           NEW c \in Controls \cup {NoControl}, d => c = NoControl
    PROVE  Write(d, v, u, c) \in Writes
BY DEF Write, Writes

LEMMA AllWrites == {NoWrite} \cup SingleWrites \cup PushWrites \subseteq Writes
<1>1. NoWrite \in Writes
  BY WriteType DEF NoWrite
<1>2. ASSUME NEW w \in SingleWrites PROVE w \in Writes
  <2>1. CASE w = Write(TRUE, None, None, NoControl)
    BY <2>1, WriteType
  <2>2. CASE \E v \in Counts : w = Write(FALSE, v, None, NoControl)
    BY <2>2, WriteType
  <2>3. CASE \E u \in Counts : w = Write(FALSE, None, u, NoControl)
    BY <2>3, WriteType
  <2>4. CASE \E c \in Controls : w = Write(FALSE, None, None, c)
    BY <2>4, WriteType
  <2> QED BY <2>1, <2>2, <2>3, <2>4, Zenon DEF SingleWrites
<1>3. ASSUME NEW w \in PushWrites PROVE w \in Writes
  <2> DEFINE DivTima == {Write(TRUE, v, None, NoControl) : v \in Counts}
             TimaTma == UNION {{Write(FALSE, v, u, NoControl) : v \in Counts} : u \in Counts}
             TmaTac == UNION {{Write(FALSE, None, u, c) : u \in Counts} : c \in Controls}
  <2>1. CASE w \in DivTima
    BY <2>1, WriteType
  <2>2. CASE w \in TimaTma
    <3>1. PICK u \in Counts : w \in {Write(FALSE, v, u, NoControl) : v \in Counts}
      BY <2>2
    <3>2. PICK v \in Counts : w = Write(FALSE, v, u, NoControl)
      BY <3>1
    <3> QED BY <3>2, WriteType
  <2>3. CASE w \in TmaTac
    <3>1. PICK c \in Controls : w \in {Write(FALSE, None, u, c) : u \in Counts}
      BY <2>3
    <3>2. PICK u \in Counts : w = Write(FALSE, None, u, c)
      BY <3>1
    <3> QED BY <3>2, WriteType
  <2>4. PushWrites = DivTima \cup TimaTma \cup TmaTac
    BY DEF PushWrites
  <2> HIDE DEF DivTima, TimaTma, TmaTac
  <2> QED BY <1>3, <2>1, <2>2, <2>3, <2>4
<1> QED BY <1>1, <1>2, <1>3

LEMMA StoredFields ==
    ASSUME NEW s, Timed(s), NEW w \in Writes
    PROVE  LET r == Stored(s, w)
           IN  /\ Timed(r) /\ ~r.ticked
               /\ r.div = s.div /\ r.input = s.input /\ r.reload = s.reload
               /\ r.tma = IF w.tma # None THEN w.tma ELSE s.tma
               /\ r.tac = IF w.tac # NoControl THEN w.tac ELSE s.tac
               /\ r.phase = s.phase /\ r.delay = s.delay /\ r.owed = s.owed
               /\ w.tima = None => r.tima = s.tima
<1> DEFINE tima == IF w.tima # None THEN w.tima ELSE s.tima
           tma == IF w.tma # None THEN w.tma ELSE s.tma
           tac == IF w.tac # NoControl THEN w.tac ELSE s.tac
           r == Stored(s, w)
<1>1. tima \in Counts /\ tma \in Counts /\ tac \in Controls
  BY DEF Writes, Timed, Blocks
<1>2. r = [s EXCEPT !.tima = tima, !.tma = tma, !.tac = tac, !.ticked = FALSE]
  BY DEF Stored
<1> HIDE DEF tima, tma, tac, r
<1>3. r = [div |-> s.div, input |-> s.input, phase |-> s.phase, reload |-> s.reload,
           delay |-> s.delay, tima |-> tima, tma |-> tma, tac |-> tac, flag |-> s.flag,
           ticked |-> FALSE, owed |-> s.owed]
  BY <1>2 DEF Timed, Blocks
<1>4. r \in Blocks
  BY <1>1, <1>3 DEF Timed, Blocks
<1> QED BY <1>3, <1>4 DEF Timed, r, tima, tma, tac

(* The counter at zero, before the edge of a write to DIV is looked at.    *)
LEMMA ZeroedFields ==
    ASSUME NEW s, Timed(s), NEW d \in 0 .. DivSpan - 1
    PROVE  LET r == [s EXCEPT !.div = d]
           IN  /\ Timed(r) /\ r.div = d /\ r.tac = s.tac /\ r.input = s.input
               /\ r.ticked = s.ticked /\ r.tma = s.tma /\ r.reload = s.reload
               /\ r.phase = s.phase /\ r.delay = s.delay /\ r.tima = s.tima /\ r.owed = s.owed
<1> DEFINE r == [s EXCEPT !.div = d]
<1>1. r = [div |-> d, input |-> s.input, phase |-> s.phase, reload |-> s.reload,
           delay |-> s.delay, tima |-> s.tima, tma |-> s.tma, tac |-> s.tac, flag |-> s.flag,
           ticked |-> s.ticked, owed |-> s.owed]
  BY DEF Timed, Blocks
<1> HIDE DEF r
<1>2. r \in Blocks
  BY <1>1 DEF Timed, Blocks
<1> QED BY <1>1, <1>2 DEF Timed, r

LEMMA DivResetFields ==
    ASSUME NEW s, Timed(s), ~s.ticked
    PROVE  LET r == DivReset(s)
           IN  /\ Timed(r) /\ r.input = Signal(0, s.tac)
               /\ r.ticked <=> (s.input /\ ~Signal(0, s.tac))
               /\ r.div = 0 /\ r.tac = s.tac /\ r.tma = s.tma
               /\ s.reload = s.tma => r.reload = r.tma
               /\ Owes(s) /\ (s.input /\ ~Signal(0, s.tac) => s.phase # "overflow") => Owes(r)
               /\ r.phase = "reloading" => s.phase = "reloading" /\ (~r.ticked => r.tima = s.tima)
<1> DEFINE u == [s EXCEPT !.div = 0]
           fallen == s.input /\ ~Signal(0, s.tac)
<1>1. /\ Timed(u) /\ u.div = 0 /\ u.tac = s.tac /\ ~u.ticked /\ u.tma = s.tma
      /\ u.reload = s.reload /\ u.phase = s.phase /\ u.tima = s.tima /\ u.owed = s.owed
  BY ZeroedFields, TimersAssumption
<1>2. fallen \in BOOLEAN /\ Signal(0, s.tac) \in BOOLEAN
  BY SignalType DEF Timed, Blocks
<1>3. DivReset(s) = [(IF fallen THEN Increment(u) ELSE u) EXCEPT !.input = Signal(0, s.tac)]
  BY DEF DivReset
<1> HIDE DEF u
<1>4. LET r == DivReset(s)
      IN  /\ Timed(r) /\ r.input = Signal(0, s.tac)
          /\ r.ticked <=> fallen \/ u.ticked
          /\ r.div = u.div /\ r.tac = u.tac /\ r.tma = u.tma
          /\ u.reload = u.tma => r.reload = r.tma
          /\ Owes(u) /\ (fallen => u.phase # "overflow") => Owes(r)
          /\ r.phase = "reloading" => u.phase = "reloading"
          /\ ~fallen => r.tima = u.tima
  <2> HIDE DEF fallen
  <2> QED BY <1>1, <1>2, <1>3, CountedFields
<1> QED BY <1>1, <1>4 DEF Owes

LEMMA TacFields ==
    ASSUME NEW s, Timed(s), NEW old, NEW new, ~s.ticked
    PROVE  LET r == TacWritten(s, old, new)
           IN  /\ Timed(r) /\ r.input = Signal(s.div, new)
               /\ r.ticked <=> (Signal(s.div, old) /\ ~Signal(s.div, new))
               /\ r.div = s.div /\ r.tac = s.tac /\ r.tma = s.tma
               /\ s.reload = s.tma => r.reload = r.tma
               /\ Owes(s) /\ (Signal(s.div, old) => s.phase # "overflow") => Owes(r)
               /\ r.phase = "reloading" => s.phase = "reloading" /\ (~r.ticked => r.tima = s.tima)
               /\ ~r.ticked => r.phase = s.phase
<1> DEFINE fallen == old.on /\ Bit(s.div, old) /\ (~new.on \/ ~Bit(s.div, new))
<1>1. fallen \in BOOLEAN /\ (fallen <=> Signal(s.div, old) /\ ~Signal(s.div, new))
  BY Zenon DEF Signal, Bit
<1>2. TacWritten(s, old, new)
        = [(IF fallen THEN Increment(s) ELSE s) EXCEPT !.input = Signal(s.div, new)]
  BY DEF TacWritten
<1> HIDE DEF fallen
<1> QED BY <1>1, <1>2, CountedFields, SignalType

LEMMA DivAdvancedFields ==
    ASSUME NEW s, Timed(s), ~s.ticked, NEW n \in 1 .. Chunk
    PROVE  LET r == DivAdvanced(s, n)
           IN  /\ Timed(r) /\ r.input = Signal(r.div, r.tac)
               /\ r.ticked <=> (Signal(s.div, s.tac) /\ ~Signal(r.div, r.tac))
               /\ r.tac = s.tac /\ r.tma = s.tma /\ r.div = (s.div + n) % DivSpan
               /\ s.reload = s.tma => r.reload = r.tma
               /\ Owes(s) /\ (r.ticked => s.phase # "overflow") => Owes(r)
               /\ r.phase = "reloading" => s.phase = "reloading"
               /\ ~r.ticked => r.phase = s.phase /\ r.delay = s.delay /\ r.tima = s.tima
<1> DEFINE d == (s.div + n) % DivSpan
           u == [s EXCEPT !.div = d]
           fallen == s.tac.on /\ Bit(s.div, s.tac) /\ ~Bit(d, s.tac)
<1>1. d \in 0 .. DivSpan - 1
  BY TimersAssumption DEF Timed, Blocks, Chunk
<1>2. fallen \in BOOLEAN /\ (fallen <=> Signal(s.div, s.tac) /\ ~Signal(d, s.tac))
  BY Zenon DEF Signal, Bit
<1>3. DivAdvanced(s, n) = [(IF fallen THEN Increment(u) ELSE u) EXCEPT !.input = Signal(d, s.tac)]
  BY DEF DivAdvanced
<1> HIDE DEF d, fallen
<1>4. /\ Timed(u) /\ u.div = d /\ u.tac = s.tac /\ ~u.ticked /\ u.tma = s.tma
      /\ u.reload = s.reload /\ u.phase = s.phase /\ u.delay = s.delay /\ u.tima = s.tima
      /\ u.owed = s.owed
  BY <1>1, ZeroedFields
<1> HIDE DEF u
<1>5. LET r == DivAdvanced(s, n)
      IN  /\ Timed(r) /\ r.input = Signal(d, s.tac)
          /\ r.ticked <=> fallen
          /\ r.div = d /\ r.tac = s.tac /\ r.tma = s.tma
          /\ s.reload = s.tma => r.reload = r.tma
          /\ Owes(u) /\ (fallen => s.phase # "overflow") => Owes(r)
          /\ r.phase = "reloading" => s.phase = "reloading"
          /\ ~fallen => r.phase = s.phase /\ r.delay = s.delay /\ r.tima = s.tima
  BY <1>2, <1>3, <1>4, CountedFields, SignalType
<1> QED BY <1>2, <1>4, <1>5 DEF d, Owes

(* One access, whatever it writes.                                         *)
LEMMA AccessStep ==
    ASSUME IInv, NEW w \in Writes, t' = Processed(t, w)
    PROVE  /\ Timed(t') /\ InputCoherent' /\ Modulo'
           /\ t'.ticked <=> Signal(t.div, t.tac) /\ ~Signal(t'.div, t'.tac)
<1> DEFINE a == Stored(t, w)
           b == IF w.div THEN DivReset(a) ELSE a
           c == IF w.tima # None THEN TimaWritten(b, w.tima) ELSE b
           d == IF w.tma # None THEN TmaWritten(c, w.tma) ELSE c
           e == IF w.tac # NoControl THEN TacWritten(d, t.tac, w.tac) ELSE d
<1>0. Timed(t) /\ t.input = Signal(t.div, t.tac) /\ t.reload = t.tma
  BY DEF IInv, TypeOK, Timed, InputCoherent, Modulo
<1>1. t' = e
  BY DEF Processed
<1>2. /\ w.tima # None => w.tima \in Counts
      /\ w.tma # None => w.tma \in Counts
      /\ w.div \in BOOLEAN /\ (w.div => w.tac = NoControl)
  BY DEF Writes
<1>3. /\ Timed(a) /\ ~a.ticked /\ a.div = t.div /\ a.input = t.input /\ a.reload = t.reload
      /\ a.tma = IF w.tma # None THEN w.tma ELSE t.tma
      /\ a.tac = IF w.tac # NoControl THEN w.tac ELSE t.tac
  BY <1>0, StoredFields
<1> HIDE DEF a
<1>4. /\ Timed(b) /\ b.tac = a.tac /\ b.tma = a.tma
      /\ a.reload = a.tma => b.reload = b.tma
      /\ w.div => b.div = 0 /\ b.input = Signal(0, t.tac)
                  /\ (b.ticked <=> Signal(t.div, t.tac) /\ ~Signal(0, t.tac))
      /\ ~w.div => b.div = t.div /\ b.input = t.input /\ ~b.ticked
  BY <1>0, <1>2, <1>3, DivResetFields
<1> HIDE DEF b
<1>5. /\ Timed(c) /\ c.tac = b.tac /\ c.tma = b.tma /\ c.div = b.div /\ c.input = b.input
      /\ c.ticked = b.ticked /\ c.reload = b.reload
  BY <1>2, <1>4, TimaFields
<1> HIDE DEF c
<1>6. /\ Timed(d) /\ d.tac = c.tac /\ d.tma = c.tma /\ d.div = c.div /\ d.input = c.input
      /\ d.ticked = c.ticked /\ d.reload = d.tma
  <2>1. CASE w.tma # None
    BY <1>2, <1>3, <1>4, <1>5, <2>1, TmaFields
  <2>2. CASE w.tma = None
    BY <1>0, <1>3, <1>4, <1>5, <2>2
  <2> QED BY <2>1, <2>2
<1> HIDE DEF d
<1>7. CASE w.tac # NoControl
  <2>1. ~w.div /\ ~d.ticked /\ d.div = t.div /\ d.tac = w.tac
    BY <1>2, <1>3, <1>4, <1>5, <1>6, <1>7
  <2>2. /\ Timed(e) /\ e.input = Signal(d.div, w.tac)
        /\ e.ticked <=> (Signal(d.div, t.tac) /\ ~Signal(d.div, w.tac))
        /\ e.div = d.div /\ e.tac = d.tac /\ e.reload = e.tma
    BY <1>6, <1>7, <2>1, TacFields
  <2> HIDE DEF e
  <2> QED BY <1>1, <2>1, <2>2, SignalType DEF InputCoherent, Modulo
<1>8. CASE w.tac = NoControl
  <2>1. t' = d /\ d.tac = t.tac
    BY <1>1, <1>3, <1>4, <1>5, <1>6, <1>8
  <2>2. CASE w.div
    BY <1>4, <1>5, <1>6, <2>1, <2>2, SignalType DEF InputCoherent, Modulo
  <2>3. CASE ~w.div
    BY <1>0, <1>4, <1>5, <1>6, <2>1, <2>3, SignalType DEF InputCoherent, Modulo
  <2> QED BY <1>2, <2>2, <2>3
<1> QED BY <1>7, <1>8

LEMMA ChunkStep ==
    ASSUME IInv, RunChunk
    PROVE  /\ Timed(t') /\ InputCoherent' /\ Modulo' /\ left' \in Nat
           /\ t'.ticked <=> Signal(t.div, t.tac) /\ ~Signal(t'.div, t'.tac)
<1> DEFINE n == Lesser(left, Chunk)
           a == [t EXCEPT !.ticked = FALSE]
           b == Advanced(a, n)
<1>1. n \in 1 .. Chunk /\ left' = left - n /\ n <= left
  BY DEF RunChunk, IInv, TypeOK, Lesser, Chunk
<1>2. t' = DivAdvanced(b, n)
  BY DEF RunChunk
<1>3. Timed(t) /\ t.reload = t.tma
  BY DEF IInv, TypeOK, Timed, Modulo
<1> HIDE DEF n, b
<1>4. Timed(a) /\ ~a.ticked /\ a.div = t.div /\ a.tac = t.tac /\ a.reload = a.tma
  <2>0. a = [t EXCEPT !.ticked = FALSE] /\ t \in Blocks
    BY <1>3 DEF Timed
  <2> HIDE DEF a
  <2>1. a = [div |-> t.div, input |-> t.input, phase |-> t.phase, reload |-> t.reload,
             delay |-> t.delay, tima |-> t.tima, tma |-> t.tma, tac |-> t.tac,
             flag |-> t.flag, ticked |-> FALSE, owed |-> t.owed]
    BY <2>0 DEF Blocks
  <2>2. a \in Blocks
    BY <1>3, <2>1 DEF Timed, Blocks
  <2> QED BY <1>3, <2>1, <2>2 DEF Timed
<1> HIDE DEF a
<1>5. Timed(b) /\ ~b.ticked /\ b.div = t.div /\ b.tac = t.tac /\ b.reload = b.tma
  BY <1>1, <1>4, AdvancedFields DEF b
<1>6. LET r == t'
      IN  /\ Timed(r) /\ r.input = Signal(r.div, r.tac)
          /\ r.ticked <=> (Signal(b.div, b.tac) /\ ~Signal(r.div, r.tac))
          /\ r.reload = r.tma
  BY <1>1, <1>2, <1>5, DivAdvancedFields
<1>7. left' \in Nat
  BY <1>1 DEF IInv, TypeOK, Chunk
<1> QED BY <1>5, <1>6, <1>7 DEF InputCoherent, Modulo

LEMMA FreshIInv ==
    /\ Timed(Fresh) /\ Fresh.input = Signal(Fresh.div, Fresh.tac) /\ Fresh.reload = Fresh.tma
<1>1. Fresh \in Blocks
  BY TimersAssumption DEF Fresh, Blocks, Controls
<1>2. Signal(Fresh.div, Fresh.tac) = FALSE
  BY DEF Fresh, Signal
<1>3. Fresh.input = FALSE /\ Fresh.delay = 0 /\ Fresh.phase = "running" /\ Fresh.reload = Fresh.tma
  BY DEF Fresh
<1>4. Timed(Fresh)
  BY <1>1, <1>3 DEF Timed
<1> QED BY <1>2, <1>3, <1>4

LEMMA InitIInv == Init => IInv
BY FreshIInv DEF Init, IInv, TypeOK, Timed, InputCoherent, Modulo

LEMMA SetFlagIInv ==
    ASSUME IInv, NEW raised \in BOOLEAN, SetFlag(raised)
    PROVE  IInv'
<1>1. t' = [t EXCEPT !.flag = raised, !.ticked = FALSE] /\ t \in Blocks /\ left' = left
  BY DEF SetFlag, IInv, TypeOK
<1>2. t' = [div |-> t.div, input |-> t.input, phase |-> t.phase, reload |-> t.reload,
            delay |-> t.delay, tima |-> t.tima, tma |-> t.tma, tac |-> t.tac,
            flag |-> raised, ticked |-> FALSE, owed |-> t.owed]
  BY <1>1 DEF Blocks
<1>3. t' \in Blocks
  BY <1>1, <1>2 DEF Blocks
<1> QED BY <1>1, <1>2, <1>3 DEF IInv, TypeOK, InputCoherent, Modulo

LEMMA PostBootIInv ==
    ASSUME IInv, PostBoot
    PROVE  IInv'
<1>1. /\ t' = [t EXCEPT !.div = PostBootDiv, !.input = Signal(PostBootDiv, t.tac),
                        !.phase = "running", !.reload = t.tma, !.delay = 0,
                        !.ticked = FALSE, !.owed = 0]
      /\ t \in Blocks /\ left' = left
  BY DEF PostBoot, IInv, TypeOK
<1>2. t' = [div |-> PostBootDiv, input |-> Signal(PostBootDiv, t.tac), phase |-> "running",
            reload |-> t.tma, delay |-> 0, tima |-> t.tima, tma |-> t.tma, tac |-> t.tac,
            flag |-> t.flag, ticked |-> FALSE, owed |-> 0]
  BY <1>1 DEF Blocks
<1>3. t' \in Blocks
  <2>1. Signal(PostBootDiv, t.tac) \in BOOLEAN
    BY SignalType
  <2>2. t.tima \in Counts /\ t.tma \in Counts /\ t.tac \in Controls /\ t.flag \in BOOLEAN
    BY <1>1 DEF Blocks
  <2> QED BY <1>2, <2>1, <2>2, TimersAssumption DEF Blocks
<1> QED BY <1>1, <1>2, <1>3 DEF IInv, TypeOK, InputCoherent, Modulo

LEMMA StepIInv ==
    ASSUME IInv, Step
    PROVE  /\ IInv'
           /\ t'.ticked <=> Signal(t.div, t.tac) /\ ~Signal(t'.div, t'.tac)
<1>1. PICK w \in Writes, n \in Nat : Access(w, n)
  BY TimersAssumption, AllWrites DEF Step, Chunk
<1>2. w \in Writes /\ t' = Processed(t, w) /\ left' \in Nat
  BY <1>1 DEF Access
<1> QED BY <1>2, AccessStep DEF IInv, TypeOK, Timed

(* Every action keeps the invariant.                                       *)
LEMMA NextIInv == IInv /\ [Next]_vars => IInv'
<1> SUFFICES ASSUME IInv, [Next]_vars PROVE IInv'
  OBVIOUS
<1>1. CASE Step
  BY <1>1, StepIInv
<1>2. CASE RunChunk
  BY <1>2, ChunkStep DEF IInv, TypeOK, Timed
<1>3. CASE \E raised \in BOOLEAN : SetFlag(raised)
  BY <1>3, SetFlagIInv
<1>4. CASE PowerOn
  BY <1>4, FreshIInv DEF PowerOn, IInv, TypeOK, Timed, InputCoherent, Modulo
<1>5. CASE PostBoot
  BY <1>5, PostBootIInv
<1>6. CASE UNCHANGED vars
  BY <1>6 DEF vars, IInv, TypeOK, InputCoherent, Modulo
<1> QED BY <1>1, <1>2, <1>3, <1>4, <1>5, <1>6 DEF Next

(* ------------------- no overflow is overtaken ------------------------- *)

(* While the reload is pending no edge can come: a bit falls where all     *)
(* lower bits fall, and the delay ends before the next such place. An      *)
(* access changes the signal at will, but the whole chunk that follows it  *)
(* ends the delay.                                                         *)
Reloaded == t.phase = "reloading" /\ (left = 0 \/ ~t.ticked) => t.tima = t.tma

Quiet ==
    t.phase = "overflow" =>
        IF left < Chunk THEN ~Signal(t.div, t.tac) /\ (t.div % 16) + t.delay <= 7
                        ELSE ~Signal(t.div, t.tac) \/ t.div % 16 <= 6

Kept == Owes(t) /\ Reloaded /\ Quiet

(* What the selected bit is made of.                                       *)
LEMMA BitFacts ==
    ASSUME NEW x \in Nat, NEW tac \in Controls
    PROVE  \E k \in Nat \ {0}, q \in Nat :
             /\ Weight[tac.clock] = 8 * k
             /\ q * (8 * k) <= x /\ x < (q + 1) * (8 * k)
             /\ Bit(x, tac) <=> q % 2 = 1
<1> DEFINE w == Weight[tac.clock]
           k == w \div 8
           q == x \div w
<1>1. w \in Nat \ {0} /\ w % 8 = 0
  BY TimersAssumption, ClocksAssumption DEF Controls
<1>2. k \in Nat \ {0} /\ w = 8 * k
  BY <1>1
<1>3. q \in Nat /\ q * w <= x /\ x < (q + 1) * w
  <2> HIDE DEF w, k
  <2> QED BY <1>1
<1>4. Bit(x, tac) <=> q % 2 = 1
  BY DEF Bit
<1> HIDE DEF w, k, q
<1> QED BY <1>2, <1>3, <1>4 DEF w

(* A bit falls only where all lower bits do: just behind a multiple of 16. *)
LEMMA FallAligned ==
    ASSUME NEW x \in 0 .. DivSpan - 1, NEW n \in 1 .. Chunk, NEW tac \in Controls,
           Bit(x, tac), ~Bit((x + n) % DivSpan, tac)
    PROVE  x % 16 >= 12 /\ ((x + n) % DivSpan) % 16 <= 3
<1> USE TimersAssumption, ClocksAssumption DEF Chunk
<1>1. CASE x + n < DivSpan
  <2>1. (x + n) % DivSpan = x + n
    BY <1>1
  <2>2. PICK k \in Nat \ {0}, q \in Nat :
          /\ Weight[tac.clock] = 8 * k
          /\ q * (8 * k) <= x /\ x < (q + 1) * (8 * k)
          /\ Bit(x, tac) <=> q % 2 = 1
    BY BitFacts
  <2>3. PICK l \in Nat \ {0}, r \in Nat :
          /\ Weight[tac.clock] = 8 * l
          /\ r * (8 * l) <= x + n /\ x + n < (r + 1) * (8 * l)
          /\ Bit(x + n, tac) <=> r % 2 = 1
    BY BitFacts, x + n \in Nat
  <2>4. l = k /\ q % 2 = 1 /\ r % 2 = 0
    BY <2>1, <2>2, <2>3
  <2>5. r = q + 1
    <3>1. r # q
      BY <2>4
    <3>2. CASE r <= q - 1
      <4>1. (r + 1) * (8 * k) <= q * (8 * k)
        BY <3>2
      <4> QED BY <2>2, <2>3, <2>4, <4>1
    <3>3. CASE r >= q + 2
      <4>1. (q + 2) * (8 * k) <= r * (8 * k)
        BY <3>3
      <4>2. (q + 2) * (8 * k) = (q + 1) * (8 * k) + 8 * k
        OBVIOUS
      <4> QED BY <2>2, <2>3, <2>4, <4>1, <4>2
    <3> QED BY <3>1, <3>2, <3>3
  <2>6. PICK m \in Nat : r = 2 * m
    BY <2>4
  <2> DEFINE j == m * k
  <2>7. j \in Nat /\ r * (8 * k) = 16 * j
    BY <2>6
  <2> HIDE DEF j
  <2>8. 16 * j <= x + n /\ x < 16 * j
    BY <2>2, <2>3, <2>4, <2>5, <2>7
  <2> QED BY <2>1, <2>7, <2>8
<1>2. CASE x + n >= DivSpan
  <2>1. (x + n) % DivSpan = x + n - DivSpan
    BY <1>2
  <2>2. PICK j \in Nat : DivSpan = 16 * j
    <3>1. DivSpan = 16 * (DivSpan \div 16) /\ DivSpan \div 16 \in Nat
      BY DivSpan % 16 = 0, DivSpan \in Nat
    <3> QED BY <3>1
  <2> QED BY <1>2, <2>1, <2>2
<1> QED BY <1>1, <1>2

(* Below a multiple of 8 the divider moves without changing a selected bit. *)
LEMMA BitStays ==
    ASSUME NEW x \in 0 .. DivSpan - 1, NEW n \in 1 .. Chunk, NEW tac \in Controls,
           (x % 16) + n <= 7
    PROVE  LET y == (x + n) % DivSpan
           IN  /\ y % 16 = (x % 16) + n
               /\ Bit(y, tac) = Bit(x, tac)
<1> USE TimersAssumption, ClocksAssumption DEF Chunk
<1>1. x + n < DivSpan /\ (x + n) % 16 = (x % 16) + n
  BY DivSpan \in Nat
<1>2. (x + n) % DivSpan = x + n
  BY <1>1
<1>3. PICK k \in Nat \ {0}, q \in Nat :
        /\ Weight[tac.clock] = 8 * k
        /\ q * (8 * k) <= x /\ x < (q + 1) * (8 * k)
        /\ Bit(x, tac) <=> q % 2 = 1
  BY BitFacts, x \in Nat
<1>4. x + n < (q + 1) * (8 * k)
  <2> DEFINE j == (q + 1) * k
  <2>1. j \in Nat /\ (q + 1) * (8 * k) = 8 * j
    OBVIOUS
  <2> HIDE DEF j
  <2> QED BY <1>3, <2>1
<1>5. (x + n) \div (8 * k) = q /\ x \div (8 * k) = q
  <2> DEFINE w == 8 * k
  <2>1. w \in Nat \ {0} /\ q * w <= x /\ x + n < (q + 1) * w
    BY <1>3, <1>4
  <2> HIDE DEF w
  <2>2. ASSUME NEW z \in Nat, q * w <= z, z < (q + 1) * w
        PROVE  z \div w = q
    BY <2>1, <2>2
  <2>3. x + n \in Nat /\ x \in Nat /\ q * w <= x + n /\ x < (q + 1) * w
    BY <2>1
  <2> QED BY <2>1, <2>2, <2>3 DEF w
<1> QED BY <1>1, <1>2, <1>3, <1>5 DEF Bit

(* An access, which is followed by a whole chunk.                          *)
LEMMA AccessKept ==
    ASSUME IInv, Kept, left = 0, NEW w \in Writes, t' = Processed(t, w),
           NEW n \in Nat, n >= Chunk, left' = n
    PROVE  Kept'
<1> DEFINE a == Stored(t, w)
           b == IF w.div THEN DivReset(a) ELSE a
           c == IF w.tima # None THEN TimaWritten(b, w.tima) ELSE b
           d == IF w.tma # None THEN TmaWritten(c, w.tma) ELSE c
           e == IF w.tac # NoControl THEN TacWritten(d, t.tac, w.tac) ELSE d
           silent == ~Signal(t.div, t.tac)
<1>0. Timed(t) /\ t.input = Signal(t.div, t.tac) /\ t.reload = t.tma
  BY DEF IInv, TypeOK, Timed, InputCoherent, Modulo
<1>1. /\ Owes(t)
      /\ t.phase = "reloading" => t.tima = t.tma
      /\ t.phase = "overflow" => silent /\ t.div % 16 <= 6
  <2>1. t.phase = "overflow" => t.delay >= 1 /\ t.delay \in Nat /\ t.div \in Nat
    BY <1>0 DEF Timed, Blocks
  <2> QED BY <2>1 DEF Kept, Reloaded, Quiet, Chunk
<1>2. t' = e
  BY DEF Processed
<1>3. /\ w.tima # None => w.tima \in Counts
      /\ w.tma # None => w.tma \in Counts
      /\ w.div \in BOOLEAN /\ (w.div => w.tac = NoControl)
  BY DEF Writes
<1>4. /\ Timed(a) /\ ~a.ticked /\ a.div = t.div /\ a.input = t.input /\ a.reload = t.reload
      /\ a.tma = IF w.tma # None THEN w.tma ELSE t.tma
      /\ a.tac = IF w.tac # NoControl THEN w.tac ELSE t.tac
      /\ a.phase = t.phase /\ a.owed = t.owed
      /\ w.tima = None => a.tima = t.tima
  BY <1>0, StoredFields
<1>5. Owes(a)
  BY <1>1, <1>4 DEF Owes
<1> HIDE DEF a
(* A write to DIV.                                                         *)
<1>6. /\ Timed(b) /\ Owes(b) /\ b.tma = a.tma /\ b.tac = a.tac
      /\ w.div => b.div = 0
      /\ ~w.div => b = a
      /\ b.phase = "reloading" =>
             t.phase = "reloading" /\ (w.tima = None /\ ~b.ticked => b.tima = t.tima)
      /\ w.tma = None => b.reload = b.tma
  <2>1. CASE w.div
    <3>1. a.tac = t.tac /\ (a.input /\ ~Signal(0, a.tac) => a.phase # "overflow")
      BY <1>0, <1>1, <1>3, <1>4, <2>1
    <3>2. LET r == DivReset(a)
          IN  /\ Timed(r) /\ r.div = 0 /\ r.tma = a.tma /\ r.tac = a.tac /\ Owes(r)
              /\ a.reload = a.tma => r.reload = r.tma
              /\ r.phase = "reloading" => a.phase = "reloading" /\ (~r.ticked => r.tima = a.tima)
      BY <1>4, <1>5, <3>1, DivResetFields
    <3> QED BY <1>0, <1>4, <2>1, <3>2
  <2>2. CASE ~w.div
    BY <1>0, <1>4, <1>5, <2>2
  <2> QED BY <1>3, <2>1, <2>2
<1> HIDE DEF b
(* Writes to TIMA and TMA.                                                 *)
<1>7. /\ Timed(c) /\ Owes(c) /\ c.tma = b.tma /\ c.div = b.div /\ c.ticked = b.ticked
      /\ c.reload = b.reload /\ c.tac = b.tac
      /\ c.phase = "overflow" => c = b
      /\ c.phase = "reloading" =>
             t.phase = "reloading" /\ (w.tma = None /\ ~c.ticked => c.tima = c.tma)
  <2>1. CASE w.tima # None
    <3>1. LET r == TimaWritten(b, w.tima)
          IN  /\ Timed(r) /\ Owes(r) /\ r.tma = b.tma /\ r.div = b.div /\ r.ticked = b.ticked
              /\ r.reload = b.reload /\ r.tac = b.tac /\ r.phase # "overflow"
              /\ r.phase = "reloading" => b.phase = "reloading" /\ r.tima = b.reload
      BY <1>3, <1>6, <2>1, TimaFields
    <3> QED BY <1>6, <2>1, <3>1
  <2>2. CASE w.tima = None
    BY <1>1, <1>4, <1>6, <2>2
  <2> QED BY <2>1, <2>2
<1> HIDE DEF c
<1>8. /\ Timed(d) /\ Owes(d) /\ d.div = b.div /\ d.ticked = b.ticked /\ d.tac = a.tac
      /\ d.phase = "overflow" => b.phase = "overflow"
      /\ d.phase = "reloading" => t.phase = "reloading" /\ (~d.ticked => d.tima = d.tma)
  <2>1. CASE w.tma # None
    <3>1. LET r == TmaWritten(c, w.tma)
          IN  /\ Timed(r) /\ r.div = c.div /\ r.ticked = c.ticked /\ r.tma = c.tma /\ r.tac = c.tac
              /\ r.phase = c.phase /\ r.owed = c.owed
              /\ r.phase = "reloading" => r.tima = w.tma
      BY <1>3, <1>7, <2>1, TmaFields
    <3>2. c.tma = w.tma
      BY <1>4, <1>6, <1>7, <2>1
    <3> QED BY <1>6, <1>7, <2>1, <3>1, <3>2 DEF Owes
  <2>2. CASE w.tma = None
    BY <1>6, <1>7, <2>2
  <2> QED BY <2>1, <2>2
<1> HIDE DEF d
(* A write to TAC.                                                         *)
<1>9. /\ Owes(e)
      /\ e.phase = "reloading" /\ ~e.ticked => e.tima = e.tma
      /\ e.phase = "overflow" => ~Signal(e.div, e.tac) \/ e.div % 16 <= 6
  <2>1. CASE w.tac # NoControl
    <3>1. ~w.div /\ ~d.ticked /\ d.div = t.div /\ (d.phase = "overflow" => t.phase = "overflow")
      BY <1>3, <1>4, <1>6, <1>8, <2>1
    <3>2. /\ Owes(e) /\ e.div = d.div /\ e.tma = d.tma
          /\ e.ticked <=> (Signal(d.div, t.tac) /\ ~Signal(d.div, w.tac))
          /\ e.phase = "reloading" => d.phase = "reloading" /\ (~e.ticked => e.tima = d.tima)
          /\ ~e.ticked => e.phase = d.phase
          /\ e.input = Signal(d.div, w.tac)
      BY <1>1, <1>8, <2>1, <3>1, TacFields
    <3>3. e.tac = w.tac
      BY <1>4, <1>8, <2>1, <3>1, TacFields
    <3> HIDE DEF e
    <3>4. e.phase = "overflow" => ~Signal(e.div, e.tac) \/ e.div % 16 <= 6
      BY <1>1, <3>1, <3>2, <3>3
    <3> QED BY <1>8, <3>1, <3>2, <3>4
  <2>2. CASE w.tac = NoControl
    <3>1. e = d
      BY <2>2
    <3>2. d.phase = "overflow" => ~Signal(d.div, d.tac) \/ d.div % 16 <= 6
      <4>1. CASE w.div
        BY <1>6, <1>8, <4>1
      <4>2. CASE ~w.div
        BY <1>1, <1>4, <1>6, <1>8, <4>2
      <4> QED BY <1>3, <4>1, <4>2
    <3> QED BY <1>8, <3>1, <3>2
  <2> QED BY <2>1, <2>2
<1> HIDE DEF e
<1>10. Owes(t)' /\ Quiet' /\ Reloaded'
  <2>1. left' # 0 /\ ~(left' < Chunk)
    BY DEF Chunk
  <2> QED BY <1>2, <1>9, <2>1 DEF Owes, Quiet, Reloaded
<1> QED BY <1>10 DEF Kept

LEMMA StepKept ==
    ASSUME IInv, Kept, Step
    PROVE  Kept'
<1>1. CASE \E n \in 1 .. Chunk : Access(NoWrite, n)
  <2>1. PICK n \in 1 .. Chunk : Access(NoWrite, n)
    BY <1>1
  <2>2. t' = Stored(t, NoWrite) /\ left = 0
    BY <2>1 DEF Access, Processed, NoWrite, Write
  <2>3. NoWrite \in Writes /\ NoWrite.tima = None /\ NoWrite.tma = None /\ NoWrite.tac = NoControl
    BY AllWrites DEF NoWrite, Write
  <2>4. Timed(t)
    BY DEF IInv, TypeOK, Timed
  <2>5. LET r == t'
        IN  /\ r.div = t.div /\ r.tac = t.tac /\ r.tma = t.tma /\ r.tima = t.tima
            /\ r.phase = t.phase /\ r.delay = t.delay /\ r.owed = t.owed
    BY <2>2, <2>3, <2>4, StoredFields
  <2>6. t.phase = "overflow" => t.div % 16 <= 6
    <3>1. t.phase = "overflow" => t.delay >= 1 /\ t.delay \in Nat /\ t.div \in Nat
      BY <2>4 DEF Timed, Blocks
    <3> QED BY <2>2, <3>1 DEF Kept, Quiet, Chunk
  <2> QED BY <2>2, <2>5, <2>6 DEF Kept, Owes, Reloaded, Quiet, Chunk
<1>2. CASE \E w \in SingleWrites \cup PushWrites, n \in Nat : n >= Chunk /\ Access(w, n)
  <2>1. PICK w \in SingleWrites \cup PushWrites, n \in Nat : n >= Chunk /\ Access(w, n)
    BY <1>2
  <2>2. w \in Writes /\ t' = Processed(t, w) /\ left = 0 /\ left' = n
    BY <2>1, AllWrites DEF Access
  <2> QED BY <2>1, <2>2, AccessKept
<1>3. CASE \E w \in SingleWrites : Access(w, Chunk)
  BY <1>2, <1>3 DEF Chunk
<1>4. CASE \E w \in PushWrites, n \in PushCycles : Access(w, n)
  BY <1>2, <1>4, TimersAssumption, ClocksAssumption DEF Chunk
<1> QED BY <1>1, <1>3, <1>4 DEF Step

LEMMA ChunkKept ==
    ASSUME IInv, Kept, RunChunk
    PROVE  Kept'
<1> DEFINE n == Lesser(left, Chunk)
           a == [t EXCEPT !.ticked = FALSE]
           b == Advanced(a, n)
           y == (t.div + n) % DivSpan
           fallen == Signal(t.div, t.tac) /\ ~Signal(y, t.tac)
<1>1. /\ n \in 1 .. Chunk /\ left' = left - n /\ n <= left /\ left \in Nat /\ left > 0
      /\ left < Chunk => n = left
      /\ left >= Chunk => n = Chunk
  BY DEF RunChunk, IInv, TypeOK, Lesser, Chunk
<1>2. t' = DivAdvanced(b, n)
  BY DEF RunChunk
<1>3. /\ Timed(t) /\ t.reload = t.tma /\ t.tac \in Controls /\ t.div \in 0 .. DivSpan - 1
      /\ t.phase = "overflow" => t.delay \in 1 .. ReloadDelay
  BY DEF IInv, TypeOK, Timed, Modulo, Blocks
<1>4. /\ Timed(a) /\ ~a.ticked /\ a.div = t.div /\ a.tac = t.tac /\ a.tma = t.tma
      /\ a.reload = t.reload /\ a.phase = t.phase /\ a.delay = t.delay /\ a.owed = t.owed
  <2>0. a = [t EXCEPT !.ticked = FALSE] /\ t \in Blocks
    BY <1>3 DEF Timed
  <2> HIDE DEF a
  <2>1. a = [div |-> t.div, input |-> t.input, phase |-> t.phase, reload |-> t.reload,
             delay |-> t.delay, tima |-> t.tima, tma |-> t.tma, tac |-> t.tac,
             flag |-> t.flag, ticked |-> FALSE, owed |-> t.owed]
    BY <2>0 DEF Blocks
  <2>2. a \in Blocks
    BY <1>3, <2>1 DEF Timed, Blocks
  <2> QED BY <1>3, <2>1, <2>2 DEF Timed
<1>5. Owes(a)
  BY <1>4 DEF Kept, Owes
<1> HIDE DEF a, n
<1>6. /\ Timed(b) /\ ~b.ticked /\ b.div = t.div /\ b.tac = t.tac /\ b.tma = t.tma
      /\ b.reload = t.reload /\ Owes(b)
      /\ b.phase = "reloading" => t.phase = "overflow" /\ b.tima = b.reload
      /\ b.phase = "overflow" => t.phase = "overflow" /\ b.delay = t.delay - n
  BY <1>1, <1>4, <1>5, AdvancedFields
<1> HIDE DEF b
(* A pending overflow sees no edge: the signal is low, or no bit can fall. *)
<1>7. fallen => t.phase # "overflow" /\ t.div % 16 >= 12 /\ y % 16 <= 3
  <2>1. SUFFICES ASSUME fallen
                 PROVE  t.phase # "overflow" /\ t.div % 16 >= 12 /\ y % 16 <= 3
    OBVIOUS
  <2>2. Bit(t.div, t.tac) /\ ~Bit(y, t.tac)
    BY <2>1 DEF Signal
  <2>3. t.div % 16 >= 12 /\ y % 16 <= 3
    BY <1>1, <1>3, <2>2, FallAligned
  <2>4. t.phase # "overflow"
    <3>1. t.phase = "overflow" => ~Signal(t.div, t.tac) \/ t.div % 16 <= 7
      BY <1>3 DEF Kept, Quiet, ReloadDelay
    <3>2. t.div % 16 \in Nat
      BY <1>3, TimersAssumption
    <3> QED BY <2>1, <2>3, <3>1, <3>2
  <2> QED BY <2>3, <2>4
<1>8. LET r == t'
      IN  /\ Timed(r) /\ r.div = y /\ r.tac = t.tac /\ r.tma = t.tma /\ r.reload = r.tma
          /\ r.ticked <=> fallen
          /\ Owes(r)
          /\ r.phase = "reloading" => b.phase = "reloading"
          /\ ~fallen => r.phase = b.phase /\ r.delay = b.delay /\ r.tima = b.tima
  <2>1. LET r == DivAdvanced(b, n)
        IN  /\ Timed(r) /\ r.input = Signal(r.div, r.tac)
            /\ r.ticked <=> (Signal(b.div, b.tac) /\ ~Signal(r.div, r.tac))
            /\ r.tac = b.tac /\ r.tma = b.tma /\ r.div = (b.div + n) % DivSpan
            /\ b.reload = b.tma => r.reload = r.tma
            /\ Owes(b) /\ (r.ticked => b.phase # "overflow") => Owes(r)
            /\ r.phase = "reloading" => b.phase = "reloading"
            /\ ~r.ticked => r.phase = b.phase /\ r.delay = b.delay /\ r.tima = b.tima
    BY <1>1, <1>6, DivAdvancedFields
  <2> QED BY <1>2, <1>3, <1>6, <1>7, <2>1
<1>9. Owes(t)'
  BY <1>8 DEF Owes
<1>10. Reloaded'
  <2>1. SUFFICES ASSUME t'.phase = "reloading" PROVE t'.tima = t'.tma
    BY DEF Reloaded
  <2>2. t.phase = "overflow" /\ b.tima = t.tma
    BY <1>3, <1>6, <1>8, <2>1
  <2> QED BY <1>7, <1>8, <2>2
<1>11. Quiet'
  <2>1. SUFFICES ASSUME t'.phase = "overflow"
                 PROVE  /\ ~Signal(y, t.tac)
                        /\ left' < Chunk => (y % 16) + (t.delay)' <= 7
    BY <1>8 DEF Quiet
  <2>2. CASE fallen
    <3>1. (t.delay)' \in 0 .. ReloadDelay
      BY <1>8 DEF Timed, Blocks
    <3>2. y \in Nat
      BY <1>8 DEF Timed, Blocks
    <3>3. (y % 16) + (t.delay)' <= 7
      <4>1. y % 16 \in Nat /\ y % 16 <= 3
        BY <1>7, <2>2, <3>2
      <4> QED BY <3>1, <4>1 DEF ReloadDelay
    <3> QED BY <2>2, <3>3
  <2>3. CASE ~fallen
    <3>1. /\ t.phase = "overflow" /\ (t.delay)' = t.delay - n
          /\ (t.delay)' >= 1
      <4>1. (t.delay)' \in 0 .. ReloadDelay /\ (t.delay)' > 0
        BY <1>8, <2>1 DEF Timed, Blocks
      <4> QED BY <1>6, <1>8, <2>1, <2>3, <4>1
    <3>2. left < Chunk
      BY <1>1, <1>3, <3>1 DEF ReloadDelay, Chunk
    <3>3. ~Signal(t.div, t.tac) /\ (t.div % 16) + t.delay <= 7
      BY <3>1, <3>2 DEF Kept, Quiet
    <3>4. (t.div % 16) + n <= 7
      BY <1>1, <1>3, <3>1, <3>3 DEF ReloadDelay
    <3>5. y % 16 = (t.div % 16) + n /\ Bit(y, t.tac) = Bit(t.div, t.tac)
      BY <1>1, <1>3, <3>4, BitStays
    <3>6. ~Signal(y, t.tac)
      BY <3>3, <3>5 DEF Signal
    <3>7. (y % 16) + (t.delay)' <= 7
      BY <1>1, <1>3, <3>1, <3>3, <3>5 DEF ReloadDelay
    <3> QED BY <3>6, <3>7
  <2> QED BY <2>2, <2>3
<1> QED BY <1>9, <1>10, <1>11 DEF Kept

LEMMA InitKept == Init => Kept
BY DEF Init, Fresh, Kept, Owes, Reloaded, Quiet

LEMMA NextKept == IInv /\ Kept /\ [Next]_vars => Kept'
<1> SUFFICES ASSUME IInv, Kept, [Next]_vars PROVE Kept'
  OBVIOUS
<1>1. CASE Step
  BY <1>1, StepKept
<1>2. CASE RunChunk
  BY <1>2, ChunkKept
<1>3. CASE \E raised \in BOOLEAN : SetFlag(raised)
  <2>1. PICK raised \in BOOLEAN : SetFlag(raised)
    BY <1>3
  <2>2. t' = [t EXCEPT !.flag = raised, !.ticked = FALSE] /\ t \in Blocks /\ left' = left /\ left = 0
    BY <2>1 DEF SetFlag, IInv, TypeOK
  <2>3. t' = [div |-> t.div, input |-> t.input, phase |-> t.phase, reload |-> t.reload,
              delay |-> t.delay, tima |-> t.tima, tma |-> t.tma, tac |-> t.tac,
              flag |-> raised, ticked |-> FALSE, owed |-> t.owed]
    BY <2>2 DEF Blocks
  <2> QED BY <2>2, <2>3 DEF Kept, Owes, Reloaded, Quiet
<1>4. CASE PowerOn
  BY <1>4 DEF PowerOn, Fresh, Kept, Owes, Reloaded, Quiet
<1>5. CASE PostBoot
  <2>1. t \in Blocks
    BY DEF IInv, TypeOK
  <2>2. t'.phase = "running" /\ t'.owed = 0
    BY <1>5, <2>1 DEF PostBoot, Blocks
  <2> QED BY <2>2 DEF Kept, Owes, Reloaded, Quiet
<1>6. CASE UNCHANGED vars
  BY <1>6 DEF vars, Kept, Owes, Reloaded, Quiet
<1> QED BY <1>1, <1>2, <1>3, <1>4, <1>5, <1>6 DEF Next

THEOREM Inductive == Spec => []IInv
BY InitIInv, NextIInv, PTL DEF Spec

(* The timer block keeps its shape, for registers of every width.          *)
THEOREM TypeCorrect == Spec => []TypeOK
BY Inductive, PTL DEF IInv

(* The input remembered from the last step is never stale                  *)
(* (compute_timer_input and the places that store its value).              *)
THEOREM InputNeverStale == Spec => []InputCoherent
BY Inductive, PTL DEF IInv

(* TIMA counts the falling edges of the signal, every one and no other,    *)
(* wherever the code looks for them.                                       *)
THEOREM EdgesExact == Spec => EdgesCounted
<1> DEFINE Exact == (Step \/ RunChunk) =>
                      (t'.ticked <=> Signal(t.div, t.tac) /\ ~Signal(t'.div, t'.tac))
<1>1. IInv /\ [Next]_vars => [Exact]_vars
  BY StepIInv, ChunkStep
<1> QED BY <1>1, Inductive, PTL DEF Spec, EdgesCounted

THEOREM InductiveKept == Spec => [](IInv /\ Kept)
<1>1. IInv /\ Kept /\ [Next]_vars => (IInv /\ Kept)'
  BY NextIInv, NextKept
<1> QED BY InitIInv, InitKept, <1>1, PTL DEF Spec

(* No overflow is forgotten or doubled (increment_tima), whatever edges,   *)
(* writes and resets come between it and its reload, and the reload takes  *)
(* the modulo of its time (advance_tima_state, process_register_writes).   *)
THEOREM NoOverflowLost == Spec => []OverflowServed
<1>1. IInv /\ Kept => OverflowServed
  BY DEF IInv, Modulo, Kept, Owes, Reloaded, OverflowServed, ReloadFollowsModulo
<1> QED BY <1>1, InductiveKept, PTL
==============================================================================
