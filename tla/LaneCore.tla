------------------------------ MODULE LaneCore -------------------------------
(***************************************************************************)
(* The instruction set on both execution backends: the scalar core and the *)
(* lane-parallel core, with the same ROM and inputs in every lane, execute *)
(* the same program side by side. Programs and register contents are taken *)
(* from a constant set; a program ends at its finish address. Memory is    *)
(* plain here: what the addresses mean is the subject of module Bus.       *)
(***************************************************************************)
EXTENDS LaneExec

CONSTANTS
    Programs    \* records of a program and the registers it starts with:
                \*   code      address -> byte, the memory it starts with
                \*   entry, finish      where it starts and ends
                \*   a, x, hl, sp       A; B, C, D and E; HL; SP
                \*   z, n, h, c         flags
                \*   kind      "single"   one instruction
                \*             "decimal"  ALU instruction on digits, DAA
                \*             "nest"     code that calls and returns

IsDecimal(x) == x % 16 < 10 /\ x \div 16 < 10

(* Memory holds bytes, registers bytes and words, and a program is in      *)
(* memory: for a decimal one ADD, ADC, SUB or SBC of B on digits, and DAA. *)
WellFormed(p) ==
    /\ p.code = [at \in DOMAIN p.code |-> p.code[at]]
    /\ DOMAIN p.code \subseteq Word
    /\ \A at \in DOMAIN p.code : p.code[at] \in Byte
    /\ {p.a, p.x} \subseteq Byte /\ {p.hl, p.sp, p.entry} \subseteq Word
    /\ {p.z, p.n, p.h, p.c} \subseteq BOOLEAN
    /\ p.entry \in DOMAIN p.code
    /\ p.kind = "decimal" =>
         /\ p.code[p.entry] \in {128, 136, 144, 152}
         /\ p.entry + 1 \in DOMAIN p.code /\ p.code[p.entry + 1] = 39
         /\ p.finish = p.entry + 2 /\ p.finish \in Word
         /\ IsDecimal(p.a) /\ IsDecimal(p.x)

ASSUME ProgramsAssumption == \A p \in Programs : WellFormed(p)

MaxSteps == 12      \* bound on the instructions of a program

(* Core<Scalar, BusScalar>.                                                *)
S == INSTANCE Instructions WITH
       FromU8 <- Scalar!FromU8, FromU16 <- Scalar!FromU16,
       ToU8 <- Scalar!ToU8, ToU16 <- Scalar!ToU16,
       Combine <- Scalar!Combine, SplitHi <- Scalar!SplitHi, SplitLo <- Scalar!SplitLo,
       And <- Scalar!And, Or <- Scalar!Or, Xor <- Scalar!Xor,
       Add8 <- Scalar!Add8, Sub8 <- Scalar!Sub8, Load <- Scalar!Load, Store <- Scalar!Store

(* Core<SimdExec, BusSimd>.                                                *)
V == INSTANCE Instructions

VARIABLES
    program,    \* the program that runs
    scalar,     \* the scalar machine
    lanes,      \* the lane-parallel machine
    billed,     \* cycles the instructions reported (history)
    steps       \* instructions executed

laneVars == <<program, scalar, lanes, billed, steps>>

(* ------------------------------- actions ------------------------------ *)

Registers(p) ==
    [k \in S!Codes |-> CASE k = 7 -> p.a [] k = 4 -> p.hl \div 256
                         [] k = 5 -> p.hl % 256 [] OTHER -> p.x]

(* What both cores start with, in the representation of each.              *)
ScalarStart(p) ==
    [r |-> Registers(p), z |-> p.z, n |-> p.n, h |-> p.h, c |-> p.c,
     sp |-> p.sp, pc |-> p.entry, ime |-> FALSE, halted |-> FALSE,
     eiPending |-> FALSE, haltBug |-> FALSE, mem |-> p.code, clock |-> 0, credit |-> 0]

(* The state of every lane.                                                *)
Splat(m) ==
    [m EXCEPT !.r = [k \in S!Codes |-> FromU8(m.r[k])], !.sp = FromU16(m.sp),
              !.pc = FromU16(m.pc), !.mem = [l \in Lane |-> m.mem]]

LaneStart(p) ==
    /\ program = p
    /\ scalar = ScalarStart(p)
    /\ lanes = Splat(ScalarStart(p))
    /\ billed = 0 /\ steps = 0

LaneInit == \E p \in Programs : LaneStart(p)

Running == scalar.pc # program.finish /\ ~scalar.halted /\ steps < MaxSteps

Executed(s, v) ==
    /\ scalar' = s.m /\ lanes' = v.m
    /\ billed' = billed + s.cost

(* One instruction, on both cores. A single instruction ends its program   *)
(* wherever it leads.                                                      *)
Instruction ==
    /\ Running /\ (program.kind = "single" => steps = 0)
    /\ Executed(S!ExecuteOpcode(scalar), V!ExecuteOpcode(lanes))
    /\ steps' = steps + 1
    /\ UNCHANGED program

LaneNext == Instruction

(* ------------------------------ properties ---------------------------- *)

(* The devices are given exactly the cycles the instructions report, and   *)
(* the lane-parallel core gives the same. An instruction that made more    *)
(* accesses than its cycles allow would give more; the code does not look. *)
CyclesExact ==
    scalar.clock = billed /\ lanes.clock = billed /\ scalar.credit = 0

(* Same ROM, same steps, equal state: the lane-parallel core is in every   *)
(* lane what the scalar core is, registers, flags, memory and control,     *)
(* although it computes flags, branches and byte results from lane 0 only. *)
LanesMatchScalar == lanes = Splat(scalar)

Finished == steps > 0 /\ ~(Running /\ program.kind # "single")

(* The arithmetic, for comparison: what an ALU instruction that adds or    *)
(* subtracts leaves in A (CP apart) and in the flags.                      *)
AluResult(p, opcode) ==
    LET cin == Num(opcode % 2 = 1 /\ opcode < 7 /\ p.c)
        minus == opcode \in {2, 3, 7}
        total == IF minus THEN p.a - p.x - cin ELSE p.a + p.x + cin
        low == IF minus THEN (p.a % 16) - (p.x % 16) - cin ELSE (p.a % 16) + (p.x % 16) + cin
    IN  [a |-> IF opcode = 7 THEN p.a ELSE total % 256, z |-> total % 256 = 0, n |-> minus,
         h |-> low \notin 0 .. 15, c |-> total \notin 0 .. 255]

Decimal(x) == (x \div 16) * 10 + (x % 16)
ToDecimal(d) == (d \div 10) * 16 + (d % 10)

DecimalTotal(p, alu) ==
    LET cin == Num(alu % 2 = 1 /\ p.c)
    IN  IF alu < 2 THEN Decimal(p.a) + Decimal(p.x) + cin ELSE Decimal(p.a) - Decimal(p.x) - cin

(* The parts: an ALU operation on A and B, ADD HL,BC, and DAA behind one.  *)
AluExact(p, opcode, alu) ==
    LET want == AluResult(p, alu)
    IN  (Finished /\ p.kind = "single" /\ opcode % 8 = 0 /\ opcode \in 128 .. 191
          /\ alu \in {0, 1, 2, 3, 7}) =>
             /\ scalar.r[7] = want.a
             /\ <<scalar.z, scalar.n, scalar.h, scalar.c>> = <<want.z, want.n, want.h, want.c>>

AddHlExact(p, opcode) ==
    (Finished /\ p.kind = "single" /\ opcode = 9) =>
      /\ scalar.r[4] * 256 + scalar.r[5] = (p.hl + 257 * p.x) % 65536
      /\ scalar.c = (p.hl + 257 * p.x > 65535) /\ scalar.z = p.z

DecimalExact(p, alu) ==
    LET total == DecimalTotal(p, alu)
    IN  (Finished /\ p.kind = "decimal") =>
             /\ scalar.r[7] = ToDecimal(total % 100)
             /\ scalar.c = (total \notin 0 .. 99) /\ scalar.z = (total % 100 = 0)

(* Carry and half carry, which the code reads off single bits of operands  *)
(* and result, are those of the numbers, and DAA turns the sum or the      *)
(* difference of two decimal numbers, with their carry, into the decimal   *)
(* one: multi-byte additions and comparisons rest on both.                 *)
ArithmeticExact ==
    LET p == program
        opcode == p.code[p.entry]
        alu == (opcode \div 8) % 8
    IN  AluExact(p, opcode, alu) /\ AddHlExact(p, opcode) /\ DecimalExact(p, alu)

(* Calls, restarts and pushes nest: code that returns comes back to the    *)
(* instruction behind the call with the stack where it was, and a pair     *)
(* popped is the pair pushed, the flags included, also if the stack        *)
(* pointer crosses a page and whichever conditions held.                   *)
CallsReturn ==
    Finished /\ program.kind = "nest" =>
      /\ scalar.pc = program.finish
      /\ scalar.sp = program.sp
      /\ scalar.r = Registers(program)
      /\ <<scalar.z, scalar.n, scalar.h, scalar.c>>
           = <<program.z, program.n, program.h, program.c>>
=============================================================================
