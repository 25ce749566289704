-------------------------------- MODULE MCCpu ---------------------------------
(* The CPU for TLC: either the control of module Cpu, with any program and *)
(* any requests of the devices, or the instructions of module LaneCore,    *)
(* with the programs below. Control leaves the arithmetic out, and the     *)
(* instructions leave interrupts out: each is explored while the other     *)
(* rests.                                                                  *)
EXTENDS Cpu, LaneCore, Sequences, TLC

(* Programs of the instructions: every opcode once, digits through the     *)
(* decimal adjust, and nested pushes and calls.                            *)

Entry == 49152
Subroutine == 49408
Pointer == 49663        \* HL, at the end of a page

At(addr, bytes) == [i \in addr .. addr + Len(bytes) - 1 |-> bytes[i - addr + 1]]

Program(kind, code, finish, a, x, sp, z, n, h, c) ==
    [kind |-> kind, code |-> code, entry |-> Entry, finish |-> finish, a |-> a, x |-> x,
     hl |-> Pointer, sp |-> sp, z |-> z, n |-> n, h |-> h, c |-> c]

CONSTANTS Samples, Digits, Immediates, Stacks

(* An opcode, or a CB opcode, with an operand at HL.                       *)
Single(bytes, a, x, c) ==
    Program("single", At(Entry, bytes) @@ (Pointer :> x), Entry + 8, a, x, 53246,
            FALSE, FALSE, FALSE, c)

Singles ==
    {Single(<<opcode, i, 193>>, a, x, c) :
        opcode \in Byte \ {203}, i \in Immediates, a \in Samples, x \in Samples, c \in BOOLEAN}
    \cup {Single(<<203, sub>>, 18, x, c) : sub \in Byte, x \in Samples, c \in BOOLEAN}

Decimals ==
    {Program("decimal", At(Entry, <<128 + 8 * alu, 39>>), Entry + 2,
             16 * t + u, 16 * v + w, 53246, FALSE, FALSE, FALSE, c) :
        alu \in 0 .. 3, t \in Digits, u \in Digits, v \in Digits, w \in Digits, c \in BOOLEAN}

(* PUSH AF, PUSH rr, a call, POP rr, POP AF around a body that overwrites  *)
(* rr and AF and returns on a condition, or else behind it.                *)
Body(rp, cc, ret) == <<16 * rp + 1, 1, 2, 175, 192 + 8 * cc, ret>>

Nest(rp, call, cc, ret, sp, z, c) ==
    LET code == <<245, 197 + 16 * rp>> \o call \o <<193 + 16 * rp, 241>>
    IN  Program("nest",
                At(Entry, code) @@ At(Subroutine, Body(rp, cc, ret)) @@ At(8, Body(rp, cc, ret))
                  @@ At(56, Body(rp, cc, ret)),
                Entry + Len(code), 18, 52, sp, z, FALSE, TRUE, c)

Calls == {<<opcode, 0, 193>> : opcode \in {205, 196, 204, 212, 220}} \cup {<<207>>, <<255>>}

Nests ==
    {Nest(rp, call, cc, ret, sp, z, c) :
        rp \in 0 .. 2, call \in Calls, cc \in 0 .. 3, ret \in {201, 217}, sp \in Stacks,
        z \in BOOLEAN, c \in BOOLEAN}

AllPrograms == Singles \cup Decimals \cup Nests

VARIABLE explored       \* "control" or "instructions"

bothVars == <<explored, cpu, ie, ifReg, op, pendingBefore, vector, past,
              program, scalar, lanes, billed, steps>>

BothInit ==
    /\ Init
    /\ \/ explored = "instructions" /\ LaneInit
       \/ explored = "control" /\ LaneStart(CHOOSE p \in Programs : TRUE)

BothNext ==
    /\ \/ explored = "control" /\ Next /\ UNCHANGED laneVars
       \/ explored = "instructions" /\ LaneNext /\ UNCHANGED vars
    /\ UNCHANGED explored

(* The fairness of module Cpu, for the control.                            *)
BothSpec ==
    BothInit /\ [][BothNext]_bothVars
      /\ WF_bothVars(explored = "control" /\ Iterate /\ UNCHANGED <<laneVars, explored>>)
=============================================================================
