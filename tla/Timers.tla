------------------------------- MODULE Timers --------------------------------
(***************************************************************************)
(* kernel-core/src/timers.rs with the timer registers of mmu.rs: a divider *)
(* that counts cycles, and TIMA, which counts the falling edges of one     *)
(* divider bit gated by TAC. When TIMA overflows it reads zero for four    *)
(* cycles, then takes the modulo TMA and requests an interrupt.            *)
(*                                                                         *)
(* A bus access latches what it wrote to the timer registers, and the      *)
(* cycles consumed for it make Timers::step apply the latches and then     *)
(* advance in chunks of at most four cycles. Nothing else touches the      *)
(* registers between the write and the step, so Access does both; each     *)
(* chunk is an action of its own. The registers' widths are constants.     *)
(***************************************************************************)
EXTENDS Integers

CONSTANTS
    DivSpan,        \* values of div_counter (2^16)
    TimaSpan,       \* values of TIMA and TMA (2^8)
    Clocks,         \* TAC clock selects (0 to 3)
    FirstClock,     \* the clock select of a cleared TAC (0)
    Weight,         \* clock select -> weight of its bit (2^9, 2^3, 2^5, 2^7)
    InitDiv,        \* div_counter of Timers::new (8)
    PostBootDiv,    \* div_counter after the boot program (16#0308)
    PushCycles      \* cycles that follow a push to the stack (12, 20)

ASSUME TimersAssumption ==
    /\ DivSpan \in Nat \ {0} /\ TimaSpan \in Nat \ {0}
    /\ FirstClock \in Clocks /\ Weight \in [Clocks -> Nat \ {0}]
    /\ InitDiv \in 0 .. DivSpan - 1 /\ PostBootDiv \in 0 .. DivSpan - 1
    /\ PushCycles \subseteq Nat \ {0}

(* The selected bits are no lighter than 2^3 and the divider is wider; an  *)
(* access that writes is followed by at least one whole chunk.             *)
ASSUME ClocksAssumption ==
    /\ DivSpan % 16 = 0
    /\ \A c \in Clocks : Weight[c] % 8 = 0
    /\ \A n \in PushCycles : n >= 4

Counts == 0 .. TimaSpan - 1
Controls == [on : BOOLEAN, clock : Clocks]      \* TAC
ReloadDelay == 4
Chunk == 4          \* cycles of one iteration of Timers::step

None == -1          \* a register that was not written
NoControl == [on |-> FALSE, clock |-> None]

VARIABLES
    t,      \* the timer block, its registers and what the last action did:
            \*   div, input, phase, reload, delay   fields of Timers
            \*   tima, tma, tac                     IO registers
            \*   flag                               the timer bit of IF
            \*   ticked   did the last action increment TIMA? (history)
            \*   owed     overflows neither served nor cancelled (history)
    left    \* cycles of the current step still to run

vars == <<t, left>>

(* ------------------------------ operators ----------------------------- *)

Bit(div, tac) == (div \div Weight[tac.clock]) % 2 = 1

(* compute_timer_input: the signal whose falling edges TIMA counts.        *)
Signal(div, tac) == tac.on /\ Bit(div, tac)

(* increment_tima.                                                         *)
Increment(s) ==
    IF s.tima = TimaSpan - 1
    THEN [s EXCEPT !.tima = 0, !.reload = s.tma, !.delay = ReloadDelay,
                   !.phase = "overflow", !.ticked = TRUE, !.owed = @ + 1]
    ELSE [s EXCEPT !.tima = @ + 1, !.ticked = TRUE]

(* What write8_scalar stores at once; w names the registers written.       *)
Stored(s, w) ==
    [s EXCEPT !.tima = IF w.tima # None THEN w.tima ELSE @,
              !.tma = IF w.tma # None THEN w.tma ELSE @,
              !.tac = IF w.tac # NoControl THEN w.tac ELSE @,
              !.ticked = FALSE]

(* A bug: a write to DIV starts the whole timer over.                      *)
DivResetAll(s) ==
    [s EXCEPT !.div = 0, !.input = Signal(0, s.tac), !.phase = "running", !.delay = 0,
              !.ticked = s.input /\ ~Signal(0, s.tac)]

(* process_register_writes, one register after the other.                  *)
DivReset(s) ==
    LET fallen == s.input /\ ~Signal(0, s.tac)
        zeroed == [s EXCEPT !.div = 0]
    IN  [(IF fallen THEN Increment(zeroed) ELSE zeroed)
            EXCEPT !.input = Signal(0, s.tac)]

TimaWritten(s, v) ==
    CASE s.phase = "running" -> [s EXCEPT !.tima = v]
      [] s.phase = "overflow" ->
           [s EXCEPT !.tima = v, !.phase = "running", !.delay = 0, !.owed = @ - 1]
      [] s.phase = "reloading" -> [s EXCEPT !.tima = s.reload]

TmaWritten(s, v) ==
    [s EXCEPT !.reload = v, !.tima = IF s.phase = "reloading" THEN v ELSE @]

(* A bug: disabling the timer is not an edge.                              *)
TacWrittenEnabled(s, old, new) ==
    [(IF old.on /\ Bit(s.div, old) /\ new.on /\ ~Bit(s.div, new)
      THEN Increment(s) ELSE s) EXCEPT !.input = Signal(s.div, new)]

TacWritten(s, old, new) ==
    [(IF old.on /\ Bit(s.div, old) /\ (~new.on \/ ~Bit(s.div, new))
      THEN Increment(s) ELSE s) EXCEPT !.input = Signal(s.div, new)]

Processed(s, w) ==
    LET a == Stored(s, w)
        b == IF w.div THEN DivReset(a) ELSE a
        c == IF w.tima # None THEN TimaWritten(b, w.tima) ELSE b
        d == IF w.tma # None THEN TmaWritten(c, w.tma) ELSE c
    IN  IF w.tac # NoControl THEN TacWritten(d, s.tac, w.tac) ELSE d

(* advance_tima_state.                                                     *)
Advanced(s, n) ==
    CASE s.phase = "running" -> s
      [] s.phase = "overflow" /\ s.delay > n -> [s EXCEPT !.delay = @ - n]
      [] s.phase = "overflow" /\ s.delay <= n ->
           [s EXCEPT !.delay = 0, !.tima = s.reload, !.flag = TRUE,
                     !.phase = "reloading", !.owed = @ - 1]
      [] s.phase = "reloading" -> [s EXCEPT !.phase = "running"]

(* apply_div_increment.                                                    *)
DivAdvanced(s, n) ==
    LET new == (s.div + n) % DivSpan
        moved == [s EXCEPT !.div = new]
        fallen == s.tac.on /\ Bit(s.div, s.tac) /\ ~Bit(new, s.tac)
    IN  [(IF fallen THEN Increment(moved) ELSE moved)
            EXCEPT !.input = Signal(new, s.tac)]

(* ------------------------------- actions ------------------------------ *)

Blocks ==
    [div : 0 .. DivSpan - 1, input : BOOLEAN,
     phase : {"running", "overflow", "reloading"}, reload : Counts,
     delay : 0 .. ReloadDelay, tima : Counts, tma : Counts,
     tac : Controls, flag : BOOLEAN, ticked : BOOLEAN, owed : Int]

Fresh ==
    [div |-> InitDiv, input |-> FALSE, phase |-> "running", reload |-> 0,
     delay |-> 0, tima |-> 0, tma |-> 0,
     tac |-> [on |-> FALSE, clock |-> FirstClock], flag |-> FALSE, ticked |-> FALSE, owed |-> 0]

Init == t = Fresh /\ left = 0

(* What an access writes to the registers FF04 to FF07: DIV, TIMA, TMA and *)
(* TAC; one of them, or two neighbours by a push.                          *)
Write(d, v, u, c) == [div |-> d, tima |-> v, tma |-> u, tac |-> c]

NoWrite == Write(FALSE, None, None, NoControl)

SingleWrites ==
    {Write(TRUE, None, None, NoControl)}
    \cup {Write(FALSE, v, None, NoControl) : v \in Counts}
    \cup {Write(FALSE, None, u, NoControl) : u \in Counts}
    \cup {Write(FALSE, None, None, c) : c \in Controls}

PushWrites ==
    {Write(TRUE, v, None, NoControl) : v \in Counts}
    \cup (UNION {{Write(FALSE, v, u, NoControl) : v \in Counts} : u \in Counts})
    \cup (UNION {{Write(FALSE, None, u, c) : u \in Counts} : c \in Controls})

Access(w, n) ==
    /\ left = 0
    /\ t' = Processed(t, w)
    /\ left' = n

(* An access takes four cycles and writes one register; a push to a stack  *)
(* that lies in the registers writes two neighbours and is followed by     *)
(* more cycles. A halted CPU writes none and runs up to the end of its     *)
(* budget, which may leave fewer than four.                                *)
Step ==
    \/ \E n \in 1 .. Chunk : Access(NoWrite, n)
    \/ \E w \in SingleWrites : Access(w, Chunk)
    \/ \E w \in PushWrites, n \in PushCycles : Access(w, n)

Lesser(a, b) == IF a < b THEN a ELSE b

RunChunk ==
    /\ left > 0
    /\ LET n == Lesser(left, Chunk)
       IN  /\ t' = DivAdvanced(Advanced([t EXCEPT !.ticked = FALSE], n), n)
           /\ left' = left - n

(* The CPU services the interrupt or writes IF.                            *)
SetFlag(raised) ==
    /\ left = 0
    /\ t' = [t EXCEPT !.flag = raised, !.ticked = FALSE]
    /\ UNCHANGED left

(* reset_power_on: registers and timer start over.                         *)
PowerOn ==
    /\ left = 0
    /\ t' = Fresh
    /\ UNCHANGED left

(* reset_post_boot, initialize_post_boot: the registers keep their values. *)
PostBoot ==
    /\ left = 0
    /\ t' = [t EXCEPT !.div = PostBootDiv, !.input = Signal(PostBootDiv, t.tac),
                      !.phase = "running", !.reload = t.tma, !.delay = 0,
                      !.ticked = FALSE, !.owed = 0]
    /\ UNCHANGED left

Next ==
    \/ Step
    \/ RunChunk
    \/ \E raised \in BOOLEAN : SetFlag(raised)
    \/ PowerOn
    \/ PostBoot

Spec == Init /\ [][Next]_vars

(* ------------------------------ properties ---------------------------- *)

(* Shape of the state; the delay runs exactly while an overflow is pending. *)
TypeOK ==
    /\ t \in Blocks
    /\ left \in Nat
    /\ t.delay > 0 <=> t.phase = "overflow"

(* The input the timer remembers from its last step, which decides whether *)
(* a write to DIV is an edge, is the signal of the registers: it is never  *)
(* stale, whichever register was written and however the program started.  *)
InputCoherent == t.input = Signal(t.div, t.tac)

(* TIMA is incremented exactly when the signal falls. Four places of the   *)
(* code look for edges, each in its own way: a write to DIV, a write to    *)
(* TAC, the divider's advance, and none for the other registers.           *)
EdgesCounted ==
    [][\/ t'.ticked <=> Signal(t.div, t.tac) /\ ~Signal(t'.div, t'.tac)
       \/ ~(Step \/ RunChunk)]_vars

(* What a reload stores is the modulo at that time, not at the overflow,   *)
(* and a write to TIMA in the cycles of the reload does not win over it.   *)
ReloadFollowsModulo ==
    /\ t.reload = t.tma
    /\ t.phase = "reloading" /\ ~t.ticked => t.tima = t.tma

(* Every overflow ends in an interrupt request unless a write to TIMA      *)
(* cancels it: none is forgotten when a second edge, another write or a    *)
(* reload comes in between; and the reload has the modulo of its time.     *)
OverflowServed ==
    /\ t.owed = IF t.phase = "overflow" THEN 1 ELSE 0
    /\ ReloadFollowsModulo
=============================================================================
