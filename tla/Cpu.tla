-------------------------------- MODULE Cpu ----------------------------------
(***************************************************************************)
(* The control of the CPU in kernel-core/src/core.rs: the loop of          *)
(* step_cycles, which services an interrupt, idles in HALT or executes one *)
(* opcode, with EI, DI, HALT, STOP and RETI of instr.rs and the registers  *)
(* IE and IF. Registers, memory and the arithmetic are left out.           *)
(*                                                                         *)
(* The devices run inside consume_cycles, so a request may be raised after *)
(* the opcode fetch, before the instruction has its effect, and again      *)
(* after it. An instruction is therefore two actions, Fetch and Execute,   *)
(* and each action that consumes cycles ends with the requests raised in   *)
(* them. The program is any sequence of instructions.                      *)
(***************************************************************************)
EXTENDS Integers

CONSTANTS
    Lines,      \* bits of IE and IF that have an interrupt vector (0 to 4)
    Upper,      \* the bits above them, which IF always reads as set (5 to 7)
    IeBits      \* bits of IE the programs ever set

ASSUME CpuAssumption ==
    /\ Lines \cup Upper \subseteq Nat
    /\ \A l \in Lines, u \in Upper : l < u
    /\ IeBits \subseteq Lines \cup Upper

VARIABLES
    cpu,            \* [ime, eiPending, halted, haltBug] of Cpu
    ie,             \* bits set in IE
    ifReg,          \* bits of Lines set in IF
    op,             \* the instruction fetched and not yet executed
    pendingBefore,  \* eiPending at the fetch of the last instruction
    vector,         \* the bit serviced last
    past            \* history: what keeps interrupts off
                    \*   mask    "handler" in a handler, "di" after a DI
                    \*   stray   was an EI outstanding when it began?
                    \*   shadow  does an EI wait for the next instruction?

vars == <<cpu, ie, ifReg, op, pendingBefore, vector, past>>

None == -1

Ops == {"other", "ei", "di", "halt", "stop", "reti", "write_ie", "write_if"}
Idling == "none"    \* no instruction is in progress

(* ------------------------------ operators ----------------------------- *)

(* read_ie() & read_if().                                                  *)
Pending == ie \cap (ifReg \cup Upper)

Serviceable == Pending # {} /\ cpu.ime

(* A bug: a request does not wake a CPU whose interrupts are disabled.     *)
AwakeWithIme == ~cpu.halted

(* service_interrupts ends HALT although interrupts are disabled.          *)
Awake == ~cpu.halted \/ Pending # {}

(* A bug: HALT has its bug whatever the IME.                               *)
HaltedWithIme(c) ==
    IF ie \cap ifReg \cap Lines = {}
    THEN [c EXCEPT !.halted = TRUE] ELSE [c EXCEPT !.haltBug = TRUE]

(* op_halt looks at the lines only.                                        *)
Halted(c) ==
    IF c.ime \/ ie \cap ifReg \cap Lines = {}
    THEN [c EXCEPT !.halted = TRUE] ELSE [c EXCEPT !.haltBug = TRUE]

(* What the instruction does to the control state.                         *)
Effect(o, c) ==
    CASE o = "ei" -> [c EXCEPT !.eiPending = TRUE]
      [] o = "di" -> [c EXCEPT !.ime = FALSE, !.eiPending = FALSE]
      [] o = "halt" -> Halted(c)
      [] o = "stop" -> [c EXCEPT !.halted = TRUE]
      [] o = "reti" -> [c EXCEPT !.ime = TRUE]
      [] OTHER -> c

(* A bug: EI takes effect at once.                                         *)
EnabledAtOnce(o, c) ==
    IF pendingBefore \/ o = "ei"
    THEN [c EXCEPT !.ime = TRUE, !.eiPending = (o = "ei")] ELSE c

(* The end of execute_opcode: an EI before this instruction takes effect.  *)
Enabled(o, c) ==
    IF pendingBefore
    THEN [c EXCEPT !.ime = TRUE, !.eiPending = (o = "ei")] ELSE c

(* ------------------------------- actions ------------------------------ *)

CpuStates == [ime : BOOLEAN, eiPending : BOOLEAN, halted : BOOLEAN, haltBug : BOOLEAN]

NewCpu == [ime |-> FALSE, eiPending |-> FALSE, halted |-> FALSE, haltBug |-> FALSE]
NoPast == [mask |-> "none", stray |-> FALSE, shadow |-> FALSE]

(* Instance creation without a boot program: new, then reset_post_boot.    *)
Init ==
    /\ cpu = [NewCpu EXCEPT !.ime = TRUE]
    /\ ie = {} /\ ifReg = {}
    /\ op = Idling /\ pendingBefore = FALSE
    /\ vector = None
    /\ past = NoPast

(* The program ran into VECTORS[bit] out of bounds: nothing runs any more. *)
Alive == vector \notin Upper

Raised(before) == \E raised \in SUBSET Lines : ifReg' = before \cup raised

(* A bug: interrupts stay enabled in the handler.                          *)
InterruptedNested(c) == [c EXCEPT !.halted = FALSE]

Interrupted(c) == [c EXCEPT !.halted = FALSE, !.ime = FALSE]

(* service_interrupts. The return address is pushed to a stack that may    *)
(* lie on IE or on IF.                                                     *)
Service ==
    /\ op = Idling /\ Alive /\ Serviceable
    /\ \E bit \in Pending :
         /\ \A other \in Pending : bit <= other
         /\ cpu' = Interrupted(cpu)
         /\ vector' = bit
         /\ \/ Raised(ifReg \ {bit}) /\ UNCHANGED ie
            \/ Raised(ifReg \ {bit}) /\ ie' \in SUBSET IeBits
            \/ (\E pushed \in SUBSET Lines : Raised(pushed)) /\ UNCHANGED ie
    /\ past' = [mask |-> "handler", stray |-> cpu.eiPending, shadow |-> FALSE]
    /\ UNCHANGED <<op, pendingBefore>>

(* A halted CPU lets the devices run.                                      *)
Idle ==
    /\ op = Idling /\ Alive /\ ~Serviceable /\ ~Awake
    /\ Raised(ifReg)
    /\ UNCHANGED <<cpu, ie, op, pendingBefore, vector, past>>

(* execute_opcode up to the dispatch; fetch8 ends the HALT bug.            *)
Fetch(o) ==
    /\ op = Idling /\ Alive /\ ~Serviceable /\ Awake
    /\ op' = o
    /\ pendingBefore' = cpu.eiPending
    /\ cpu' = [cpu EXCEPT !.halted = FALSE, !.haltBug = FALSE]
    /\ Raised(ifReg)
    /\ UNCHANGED <<ie, vector, past>>

(* What an instruction means for the history.                              *)
PastAfter(o) ==
    [mask |-> CASE o = "di" -> "di" [] o \in {"ei", "reti"} -> "none" [] OTHER -> past.mask,
     stray |-> CASE o = "di" -> pendingBefore [] o \in {"ei", "reti"} -> FALSE [] OTHER -> past.stray,
     shadow |-> o = "ei" /\ ~cpu.ime /\ ~pendingBefore]

(* The instruction itself and the rest of execute_opcode.                  *)
Execute ==
    /\ op # Idling
    /\ cpu' = Enabled(op, Effect(op, cpu))
    /\ IF op = "write_ie" THEN ie' \in SUBSET IeBits ELSE UNCHANGED ie
    /\ \E written \in IF op = "write_if" THEN SUBSET Lines ELSE {ifReg} : Raised(written)
    /\ op' = Idling
    /\ past' = PastAfter(op)
    /\ UNCHANGED <<pendingBefore, vector>>

(* reset_power_on, at a load with a boot program.                          *)
PowerOn ==
    /\ op = Idling /\ Alive
    /\ cpu' = NewCpu
    /\ ie' = {} /\ ifReg' = {}
    /\ past' = NoPast
    /\ vector' = None
    /\ UNCHANGED <<op, pendingBefore>>

(* reset_post_boot, at a load without one: IE and IF are left alone.       *)
PostBoot ==
    /\ op = Idling /\ Alive
    /\ cpu' = [NewCpu EXCEPT !.ime = TRUE]
    /\ past' = NoPast
    /\ vector' = None
    /\ UNCHANGED <<ie, ifReg, op, pendingBefore>>

Iterate == Service \/ Idle \/ (\E o \in Ops : Fetch(o)) \/ Execute

Next == Iterate \/ PowerOn \/ PostBoot

(* Ticks keep coming, each runs the loop until its budget is spent.        *)
Spec == Init /\ [][Next]_vars /\ WF_vars(Iterate)

(* ------------------------------ properties ---------------------------- *)

(* Shape of the state; a sleeping CPU has no instruction in progress and   *)
(* no HALT bug waiting for a fetch.                                        *)
TypeOK ==
    /\ cpu \in CpuStates
    /\ ie \subseteq IeBits /\ ifReg \subseteq Lines
    /\ op \in Ops \cup {Idling} /\ pendingBefore \in BOOLEAN
    /\ vector \in Lines \cup Upper \cup {None}
    /\ past \in [mask : {"none", "di", "handler"}, stray : BOOLEAN, shadow : BOOLEAN]
    /\ cpu.halted => op = Idling /\ ~cpu.haltBug

(* A handler, and the code behind a DI, runs with interrupts disabled      *)
(* until it executes EI or RETI, whatever is requested meanwhile. The one  *)
(* exception is an EI that was outstanding when it began.                  *)
Masked == past.mask # "none" /\ ~past.stray => ~cpu.ime /\ ~cpu.eiPending

(* An EI that turns interrupts on lets exactly one instruction pass: none  *)
(* is serviced before it, and after it they are enabled.                   *)
EiAfterOne ==
    [][/\ past.shadow => ~Service
       /\ past.shadow /\ Execute => cpu'.ime]_vars

(* The HALT bug repeats the byte behind the HALT. It could reach a         *)
(* handler only if an interrupt came in between, and that takes a HALT     *)
(* executed right behind an EI.                                            *)
HaltBugShadowed == cpu.haltBug /\ cpu.ime => pendingBefore

(* An enabled request ends HALT and STOP, also with interrupts disabled    *)
(* and also when it was raised while HALT was being fetched.               *)
SleepersWake == (cpu.halted /\ Pending # {}) ~> ~cpu.halted

(* The statements below do not hold of the code.                           *)

(* Every serviced bit has a vector.                                        *)
VectorExists == vector \notin Upper

(* DI disables interrupts.                                                 *)
DiImmediate == past.mask = "di" => ~cpu.ime

(* A handler is not interrupted before it executes EI or RETI.             *)
HandlerMasked == past.mask = "handler" => ~cpu.ime

(* The HALT bug never reaches a handler.                                   *)
HaltBugLocal == [][Service => ~cpu.haltBug]_vars

(* A game that was just loaded is not interrupted by requests of the game  *)
(* before it.                                                              *)
CleanStart == [][PostBoot => Pending' = {}]_vars
=============================================================================
