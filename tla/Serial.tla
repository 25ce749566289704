-------------------------------- MODULE Serial --------------------------------
(***************************************************************************)
(* The serial port of kernel-core/src/bus.rs. A program writes SB and SC;  *)
(* a transfer latches SB and shifts it out bit by bit while the partner,   *)
(* which is not there, sends ones; at its end SC shows it, the serial      *)
(* interrupt is requested and the byte joins the log that take_serial      *)
(* empties. As in Timers, an access does the write and starts the step of  *)
(* the cycles it takes, and each turn of the loop of advance_serial is an  *)
(* action. Resets, loads and restored states come between two accesses.    *)
(***************************************************************************)
EXTENDS Integers, Sequences

CONSTANTS
    ByteBits,       \* bits of a transfer (8)
    BitCycles,      \* cycles of a bit with the internal clock (512)
    SerialSteps,    \* cycles of a step
    OutCap          \* bound on the log

ASSUME SerialAssumption ==
    /\ ByteBits \in Nat \ {0} /\ BitCycles \in Nat \ {0}
    /\ SerialSteps \subseteq Nat \ {0} /\ OutCap \in Nat

VARIABLES
    link,   \* the port: the serial_* fields of BusScalar, the registers
            \*   sb, start and clock (SC bits 7 and 0), request (bit 3 of
            \*   IF), and what its past was:
            \*   latched  SB when the transfer began
            \*   run      cycles of the internal clock since then
            \*   want     the bytes whose transfers had all their cycles,
            \*            since the log was emptied
            \*   owed     did a transfer end since IF was written?
            \*   mixed    were SC or the transfer replaced by a load of a ROM
            \*            or of a state since SC was written?
    shifting    \* cycles of the current step still to run

serialVars == <<link, shifting>>

(* ------------------------------ operators ----------------------------- *)

Power[k \in Nat] == IF k = 0 THEN 1 ELSE 2 * Power[k - 1]

SerialBytes == 0 .. Power[ByteBits] - 1

(* reset_serial_state.                                                     *)
Stopped(s) == [s EXCEPT !.active = FALSE, !.counter = 0, !.bits = 0]

(* write_serial_control: clearing bit 7 stops a transfer; setting it again *)
(* while one runs changes its clock only.                                  *)
ScWritten(s, start, clock) ==
    LET written == [s EXCEPT !.start = start, !.clock = clock, !.mixed = FALSE]
        startedNow == ~s.start \/ ~s.active
        began == [Stopped(written) EXCEPT
                    !.pending = s.sb, !.shift = s.sb, !.bits = ByteBits,
                    !.active = TRUE, !.internal = clock,
                    !.counter = IF clock THEN BitCycles ELSE 0,
                    !.latched = s.sb, !.run = 0]
    IN  CASE ~start -> Stopped(written)
          [] start /\ ~startedNow -> [written EXCEPT !.internal = clock]
          [] start /\ startedNow -> began

(* finish_serial_transfer: SC keeps its clock bit.                         *)
Finished(s) ==
    [Stopped(s) EXCEPT !.start = FALSE, !.request = TRUE, !.out = Append(@, s.pending)]

(* clock_serial_bit, with serial_input_bit.                                *)
Clocked(s) ==
    LET moved == (2 * s.shift + 1) % Power[ByteBits]
        next == [s EXCEPT !.shift = moved, !.sb = moved, !.bits = IF @ = 0 THEN 0 ELSE @ - 1]
    IN  IF next.bits = 0 THEN Finished(next) ELSE next

(* History: the transfer gets n more cycles, in one piece.                 *)
Billed(s, n) ==
    CASE ~(s.active /\ s.internal) -> s
      [] s.active /\ s.internal /\ s.run + n < ByteBits * BitCycles -> [s EXCEPT !.run = @ + n]
      [] OTHER -> [s EXCEPT !.want = Append(@, s.latched), !.owed = TRUE]

(* ------------------------------- actions ------------------------------ *)

NewLink ==
    [active |-> FALSE, internal |-> TRUE, counter |-> 0, bits |-> 0, shift |-> 0,
     pending |-> 0, sb |-> 0, start |-> FALSE, clock |-> FALSE, request |-> FALSE,
     out |-> <<>>, latched |-> 0, run |-> 0, want |-> <<>>, owed |-> FALSE, mixed |-> FALSE]

SerialInit == link = NewLink /\ shifting = 0

(* An access, which may write SB or SC, and the cycles it takes.           *)
SerialAccess ==
    /\ shifting = 0 /\ Len(link.out) < OutCap
    /\ \E n \in SerialSteps :
         /\ \E written \in {link}
                 \cup {[link EXCEPT !.sb = b] : b \in SerialBytes}
                 \cup {ScWritten(link, start, clock) : start \in BOOLEAN, clock \in BOOLEAN} :
              link' = Billed(written, n)
         /\ shifting' = n

(* A bug: the cycles left over at a bit are dropped.                       *)
SerialTurnRounded ==
    /\ shifting > 0
    /\ IF ~link.active \/ ~link.internal THEN shifting' = 0 /\ UNCHANGED link
       ELSE LET counter == IF link.counter = 0 THEN BitCycles ELSE link.counter
            IN  IF shifting >= counter
                THEN /\ shifting' = 0
                     /\ link' = Clocked([link EXCEPT !.counter = 0])
                ELSE /\ shifting' = 0
                     /\ link' = [link EXCEPT !.counter = counter - shifting]

(* One turn of advance_serial.                                             *)
SerialTurn ==
    /\ shifting > 0
    /\ IF ~link.active \/ ~link.internal THEN shifting' = 0 /\ UNCHANGED link
       ELSE LET counter == IF link.counter = 0 THEN BitCycles ELSE link.counter
            IN  IF shifting >= counter
                THEN /\ shifting' = shifting - counter
                     /\ link' = Clocked([link EXCEPT !.counter = 0])
                ELSE /\ shifting' = 0
                     /\ link' = [link EXCEPT !.counter = counter - shifting]

(* take_serial.                                                            *)
TakeSerial ==
    /\ shifting = 0 /\ link.out # <<>>
    /\ link' = [link EXCEPT !.out = <<>>, !.want = <<>>]
    /\ UNCHANGED shifting

(* The CPU services interrupts or writes IF.                               *)
AcknowledgeSerial ==
    /\ shifting = 0
    /\ \E request \in BOOLEAN : link' = [link EXCEPT !.request = request, !.owed = FALSE]
    /\ UNCHANGED shifting

(* BusScalar::load_rom: the registers stay.                                *)
LoadRomSerial ==
    /\ shifting = 0
    /\ link' = [Stopped(link) EXCEPT !.out = <<>>, !.want = <<>>, !.run = 0, !.mixed = TRUE]
    /\ UNCHANGED shifting

(* BusScalar::reset_memory.                                                *)
ResetMemorySerial ==
    /\ shifting = 0
    /\ link' = [Stopped(link) EXCEPT !.out = <<>>, !.pending = 0, !.internal = TRUE,
                                     !.sb = 0, !.start = FALSE, !.clock = FALSE,
                                     !.request = FALSE, !.want = <<>>, !.run = 0,
                                     !.owed = FALSE, !.mixed = FALSE]
    /\ UNCHANGED shifting

(* Core::load_state: the registers of another moment, the port of this one. *)
RestoreSerial ==
    /\ shifting = 0
    /\ \E start, clock, request \in BOOLEAN :
         link' = [link EXCEPT !.start = start, !.clock = clock, !.request = request,
                              !.sb = 0, !.owed = FALSE, !.mixed = TRUE]
    /\ UNCHANGED shifting

SerialNext ==
    \/ SerialAccess \/ SerialTurn \/ TakeSerial \/ AcknowledgeSerial
    \/ LoadRomSerial \/ ResetMemorySerial \/ RestoreSerial

SerialSpec == SerialInit /\ [][SerialNext]_serialVars

(* ------------------------------ properties ---------------------------- *)

(* A running transfer has shifted as many bits as the internal clock had   *)
(* time for, without losing a cycle at a bit, a change of the clock or the *)
(* end of a step; what was shifted in are ones.                            *)
BitsTimely ==
    link.active =>
      LET sent == ByteBits - link.bits
      IN  /\ link.run = sent * BitCycles
                        + (IF link.counter = 0 THEN 0 ELSE BitCycles - link.counter)
          /\ link.shift = (Power[sent] * link.latched + Power[sent] - 1) % Power[ByteBits]

(* However a program plays with SB, SC and the clock while a transfer      *)
(* runs, and however its cycles are cut into steps, the log holds exactly  *)
(* the bytes that were in SB when the transfers began which had all their  *)
(* cycles; each of them requested the interrupt; SC shows a transfer       *)
(* exactly while one runs, loads of ROMs and states apart; and the bits of *)
(* a transfer that still runs are in time.                                 *)
TransferExact ==
    shifting = 0 =>
      /\ link.out = link.want
      /\ link.owed => link.request
      /\ ~link.mixed => link.start = link.active
      /\ BitsTimely

(* SC shows a transfer exactly while one runs, after loads as well. This   *)
(* does not hold of the code.                                              *)
TransferShown == link.start = link.active
===============================================================================
