---------------------------- MODULE Instructions -----------------------------
(***************************************************************************)
(* The instructions of kernel-core: cpu.rs, instr.rs and execute_opcode of *)
(* core.rs, generic in the execution backend as they are in the code. The  *)
(* backend's operations are the constants of this module.                  *)
(*                                                                         *)
(* A machine m is a record of the fields of Cpu and what an instruction    *)
(* reaches of Core:                                                        *)
(*   r           B, C, D, E, H, L, A by their codes 0 to 5 and 7           *)
(*   z, n, h, c  the flags, sp, pc, ime, halted, eiPending, haltBug        *)
(*   mem         the memory behind the bus                                 *)
(*   clock       cycles the devices were given (cycles_this_frame)         *)
(*   credit      those of them given inside this instruction               *)
(* An operation takes the machine after the opcode fetch and gives the new *)
(* machine and the cycles the instruction reports.                         *)
(***************************************************************************)
EXTENDS Bytes

CONSTANTS
    FromU8(_), FromU16(_), ToU8(_), ToU16(_),
    Combine(_, _), SplitHi(_), SplitLo(_),
    And(_, _), Or(_, _), Xor(_, _), Add8(_, _, _), Sub8(_, _, _),
    Load(_, _), Store(_, _, _)

A == 7          \* the accumulator's code
Indirect == 6   \* the code of (HL)

Codes == 0 .. 7 \ {Indirect}

IeAddress == 65535
IfAddress == 65295
HighPage == 65280

Done(m, cost) == [m |-> m, cost |-> cost]

(* What follows a fetch or a read, in the machine it leaves and with the   *)
(* value it got.                                                           *)
Then(got, Rest(_, _)) == Rest(got.m, got.value)

Plus(x, d) == FromU16(AsWord(ToU16(x) + d))

SetFlags(m, z, n, h, c) == [m EXCEPT !.z = z, !.n = n, !.h = h, !.c = c]

(* --------------------------- registers, pairs ------------------------- *)

RegPair(m, rp) == Combine(m.r[2 * rp], m.r[2 * rp + 1])

SetRegPair(m, rp, x) ==
    [m EXCEPT !.r[2 * rp] = SplitHi(x), !.r[2 * rp + 1] = SplitLo(x)]

HL(m) == RegPair(m, 2)

(* Pairs 0 to 2 and SP.                                                    *)
Wide(m, rp) == IF rp = 3 THEN m.sp ELSE RegPair(m, rp)
SetWide(m, rp, x) == IF rp = 3 THEN [m EXCEPT !.sp = x] ELSE SetRegPair(m, rp, x)

(* Flags::to_byte, from_byte.                                              *)
FlagByte(m) == 128 * Num(m.z) + 64 * Num(m.n) + 32 * Num(m.h) + 16 * Num(m.c)
WithFlagByte(m, f) == SetFlags(m, Bit(f, 128), Bit(f, 64), Bit(f, 32), Bit(f, 16))

AF(m) == Combine(m.r[A], FromU8(FlagByte(m)))

SetAF(m, x) == WithFlagByte([m EXCEPT !.r[A] = SplitHi(x)], ToU8(SplitLo(x)))

(* ------------------------ memory and the clock ------------------------ *)

(* consume_cycles.                                                         *)
Consume(m, cycles) == [m EXCEPT !.clock = @ + cycles]

(* An access inside an instruction: its four cycles are on credit.         *)
Credited(m) == [Consume(m, 4) EXCEPT !.credit = @ + 4]

Fetch8(m) ==
    [value |-> Load(m.mem, m.pc),
     m |-> [m EXCEPT !.pc = IF m.haltBug THEN @ ELSE Plus(@, 1), !.haltBug = FALSE]]

FetchImm8(m) == [Fetch8(m) EXCEPT !.m = Credited(@)]

FetchImm16(m) ==
    Then(FetchImm8(m), LAMBDA n, low : [FetchImm8(n) EXCEPT !.value = Combine(@, low)])

Read8(m, addr) == [value |-> Load(m.mem, addr), m |-> Credited(m)]

(* A bug: a write is billed but its cycles are not given.                  *)
Write8Unbilled(m, addr, x) ==
    [m EXCEPT !.mem = Store(m.mem, addr, x), !.credit = @ + 4]

Write8(m, addr, x) == Credited([m EXCEPT !.mem = Store(m.mem, addr, x)])

(* push16, pop16: they go to the bus and give no cycles.                   *)
Push8(m, x) == [m EXCEPT !.mem = Store(@, Plus(m.sp, -1), x), !.sp = Plus(@, -1)]
Push16(m, x) == Push8(Push8(m, SplitHi(x)), SplitLo(x))

(* A bug: the high byte comes off the stack first.                         *)
Pop16Swapped(m) ==
    [value |-> Combine(Load(m.mem, m.sp), Load(m.mem, Plus(m.sp, 1))),
     m |-> [m EXCEPT !.sp = Plus(@, 2)]]

Pop16(m) ==
    [value |-> Combine(Load(m.mem, Plus(m.sp, 1)), Load(m.mem, m.sp)),
     m |-> [m EXCEPT !.sp = Plus(@, 2)]]

(* The operand a code selects, and the cycles of reading it.               *)
ReadR8(m, code) ==
    IF code = Indirect THEN Read8(m, HL(m)) ELSE [value |-> m.r[code], m |-> m]

WriteR8(m, code, x) ==
    IF code = Indirect THEN Write8(m, HL(m), x) ELSE [m EXCEPT !.r[code] = x]

Extra(code) == IF code = Indirect THEN 4 ELSE 0

(* The conditions NZ, Z, NC, C.                                            *)
Cond(m, cc) ==
    CASE cc = 0 -> ~m.z [] cc = 1 -> m.z [] cc = 2 -> ~m.c [] cc = 3 -> m.c

(* -------------------------------- loads ------------------------------- *)

LdRrD16(m, rp) == Then(FetchImm16(m), LAMBDA n, x : Done(SetWide(n, rp, x), 12))

LdMemRrA(m, rp) == Done(Write8(m, RegPair(m, rp), m.r[A]), 8)

(* A is loaded from memory.                                                *)
LoadA(m, addr) == Then(Read8(m, addr), LAMBDA n, x : [n EXCEPT !.r[A] = x])

LdAMemRr(m, rp) == Done(LoadA(m, RegPair(m, rp)), 8)

LdRD8(m, code) ==
    Then(FetchImm8(m), LAMBDA n, x : Done(WriteR8(n, code, x), 8 + Extra(code)))

LdHlD8(m) == Then(FetchImm8(m), LAMBDA n, x : Done(Write8(n, HL(n), x), 12))

LdMemA16Sp(m) ==
    Then(FetchImm16(m), LAMBDA n, to :
      Done(Write8(Write8(n, to, SplitLo(n.sp)), Plus(to, 1), SplitHi(n.sp)), 20))

HighAddress(x) == FromU16(HighPage + ToU8(x))

LdhA8A(m) == Then(FetchImm8(m), LAMBDA n, x : Done(Write8(n, HighAddress(x), n.r[A]), 12))

LdhAA8(m) == Then(FetchImm8(m), LAMBDA n, x : Done(LoadA(n, HighAddress(x)), 12))

LdhCA(m) == Done(Write8(m, HighAddress(m.r[1]), m.r[A]), 8)

LdhAC(m) == Done(LoadA(m, HighAddress(m.r[1])), 8)

LdAA16(m) == Then(FetchImm16(m), LAMBDA n, at : Done(LoadA(n, at), 16))

LdA16A(m) == Then(FetchImm16(m), LAMBDA n, at : Done(Write8(n, at, n.r[A]), 16))

LdRR(m, op) ==
    Then(ReadR8(m, op % 8), LAMBDA n, x :
      Done(WriteR8(n, (op \div 8) % 8, x), 4 + Extra(op % 8) + Extra((op \div 8) % 8)))

LdSpHl(m) == Done([m EXCEPT !.sp = HL(m)], 8)

(* LD (HL+/-),A and LD A,(HL+/-).                                          *)
StepHl(m, d) == SetRegPair(m, 2, Plus(HL(m), d))

LdStepHlA(m, d) == Done(StepHl(Write8(m, HL(m), m.r[A]), d), 8)

LdStepAHl(m, d) == Done(StepHl(LoadA(m, HL(m)), d), 8)

(* ------------------------------ arithmetic ---------------------------- *)

(* inc_reg, dec_reg: the carry is kept.                                    *)
Stepped(m, old, new, down) ==
    [value |-> FromU8(new),
     m |-> SetFlags(m, new = 0, down, Bit(old, 16) # Bit(new, 16), m.c)]

IncReg(m, x) == Stepped(m, ToU8(x), AsByte(ToU8(x) + 1), FALSE)
DecReg(m, x) == Stepped(m, ToU8(x), AsByte(ToU8(x) - 1), TRUE)

(* An operand is read, changed and written back.                           *)
ReadModifyWrite(m, code, Change(_, _)) ==
    Then(Then(ReadR8(m, code), Change), LAMBDA n, x : WriteR8(n, code, x))

IncR(m, code) == Done(ReadModifyWrite(m, code, IncReg), 4 + 2 * Extra(code))
DecR(m, code) == Done(ReadModifyWrite(m, code, DecReg), 4 + 2 * Extra(code))

IncRr(m, rp) == Done(SetWide(m, rp, Plus(Wide(m, rp), 1)), 8)
DecRr(m, rp) == Done(SetWide(m, rp, Plus(Wide(m, rp), -1)), 8)

(* add16_hl: Z is kept.                                                    *)
AddHl(m, x, y) ==
    SetFlags(SetRegPair(m, 2, FromU16(AsWord(x + y))),
             m.z, FALSE, (x % 4096) + (y % 4096) > 4095, x + y > 65535)

AddHlRr(m, rp) == Done(AddHl(m, ToU16(HL(m)), ToU16(Wide(m, rp))), 8)

(* add_sp_e8: carries out of bit 3 and bit 7, whatever the sign.           *)
CarryInto(w, sp, off) == (Bit(sp, w) # Bit(off, w)) # Bit(AsWord(sp + off), w)

SpPlus(m, sp, off) ==
    [value |-> FromU16(AsWord(sp + off)),
     m |-> SetFlags(m, FALSE, FALSE, CarryInto(16, sp, off), CarryInto(256, sp, off))]

SpPlusImm(m) ==
    Then(FetchImm8(m), LAMBDA n, x : SpPlus(n, ToU16(n.sp), AsWord(Signed(ToU8(x)))))

AddSpE8(m) == Then(SpPlusImm(m), LAMBDA n, sum : Done([n EXCEPT !.sp = sum], 16))

LdHlSpE8(m) == Then(SpPlusImm(m), LAMBDA n, sum : Done(SetRegPair(n, 2, sum), 12))

(* A result in A and the flags.                                            *)
SetA(m, x, n, h, c) == SetFlags([m EXCEPT !.r[A] = FromU8(x)], x = 0, n, h, c)

(* The logic operations keep nothing of the flags.                         *)
Logic(m, x, h) ==
    SetFlags([m EXCEPT !.r[A] = x], ToU8(x) = 0, FALSE, h, FALSE)

Sum(m, res) == SetFlags([m EXCEPT !.r[A] = res.value], res.z, res.n, res.h, res.c)

(* alu_assign: ADD ADC SUB SBC AND XOR OR CP, numbered 0 to 7.             *)
AluAssign(m, x, op) ==
    CASE op = 0 -> Sum(m, Add8(m.r[A], x, FALSE))
      [] op = 1 -> Sum(m, Add8(m.r[A], x, m.c))
      [] op = 2 -> Sum(m, Sub8(m.r[A], x, FALSE))
      [] op = 3 -> Sum(m, Sub8(m.r[A], x, m.c))
      [] op = 4 -> Logic(m, And(m.r[A], x), TRUE)
      [] op = 5 -> Logic(m, Xor(m.r[A], x), FALSE)
      [] op = 6 -> Logic(m, Or(m.r[A], x), FALSE)
      [] op = 7 -> [Sum(m, Sub8(m.r[A], x, FALSE)) EXCEPT !.r[A] = m.r[A]]

AluAR(m, op) ==
    Then(ReadR8(m, op % 8), LAMBDA n, x :
      Done(AluAssign(n, x, (op \div 8) % 8), 4 + Extra(op % 8)))

AluAD8(m, op) ==
    Then(FetchImm8(m), LAMBDA n, x : Done(AluAssign(n, x, (op \div 8) % 8), 8))

(* The digits of a sum or a difference are corrected: the high one first,  *)
(* then the low one of the result.                                         *)
HighDigit(m, a, carry) == IF m.n THEN a - 96 * Num(m.c) ELSE a + 96 * Num(carry)

LowDigit(m, a) ==
    IF ~(m.h \/ (~m.n /\ AsByte(a) % 16 > 9)) THEN a ELSE IF m.n THEN a - 6 ELSE a + 6

Adjusted(m, a, carry) ==
    SetA(m, AsByte(LowDigit(m, HighDigit(m, a, carry))), m.n, FALSE, carry)

(* A bug: the high digit is corrected only if it is no digit itself.       *)
DaaHigh(m) ==
    Done(Adjusted(m, ToU8(m.r[A]), m.c \/ (~m.n /\ ToU8(m.r[A]) > 159)), 4)

Daa(m) ==
    Done(Adjusted(m, ToU8(m.r[A]), m.c \/ (~m.n /\ ToU8(m.r[A]) > 153)), 4)

Cpl(m) == Done(SetFlags([m EXCEPT !.r[A] = FromU8(255 - ToU8(@))], m.z, TRUE, TRUE, m.c), 4)
Scf(m) == Done(SetFlags(m, m.z, FALSE, FALSE, TRUE), 4)
Ccf(m) == Done(SetFlags(m, m.z, FALSE, FALSE, ~m.c), 4)

(* ------------------------- rotations and bits ------------------------- *)

Rlc(x) == [value |-> AsByte(2 * x) + Num(Bit(x, 128)), c |-> Bit(x, 128)]
Rrc(x) == [value |-> x \div 2 + 128 * (x % 2), c |-> Bit(x, 1)]
Rl(x, carry) == [value |-> AsByte(2 * x) + Num(carry), c |-> Bit(x, 128)]
Rr(x, carry) == [value |-> x \div 2 + 128 * Num(carry), c |-> Bit(x, 1)]
Sla(x) == [value |-> AsByte(2 * x), c |-> Bit(x, 128)]
Sra(x) == [value |-> x \div 2 + 128 * Num(Bit(x, 128)), c |-> Bit(x, 1)]
Swap(x) == [value |-> 16 * (x % 16) + x \div 16, c |-> FALSE]
Srl(x) == [value |-> x \div 2, c |-> Bit(x, 1)]

Rotated(variant, x, carry) ==
    CASE variant = 0 -> Rlc(x) [] variant = 1 -> Rrc(x)
      [] variant = 2 -> Rl(x, carry) [] variant = 3 -> Rr(x, carry)
      [] variant = 4 -> Sla(x) [] variant = 5 -> Sra(x)
      [] variant = 6 -> Swap(x) [] variant = 7 -> Srl(x)

(* RLCA, RRCA, RLA, RRA: op_rlca to op_rra rotate like the above and       *)
(* clear Z.                                                                *)
WithRotated(m, rot) ==
    SetFlags([m EXCEPT !.r[A] = FromU8(rot.value)], FALSE, FALSE, FALSE, rot.c)

RotateA(m, variant) == Done(WithRotated(m, Rotated(variant, ToU8(m.r[A]), m.c)), 4)

RotatedInto(m, rot) ==
    [value |-> FromU8(rot.value), m |-> SetFlags(m, rot.value = 0, FALSE, FALSE, rot.c)]

CbRotate(m, variant, code) ==
    ReadModifyWrite(m, code, LAMBDA n, x : RotatedInto(n, Rotated(variant, ToU8(x), n.c)))

CbBit(m, bit, code) ==
    Then(ReadR8(m, code), LAMBDA n, x :
      SetFlags(n, ~Bit(ToU8(x), 2 ^ bit), FALSE, TRUE, n.c))

CbRes(m, bit, code) ==
    ReadModifyWrite(m, code, LAMBDA n, x :
      [value |-> FromU8(ToU8(x) - 2 ^ bit * Num(Bit(ToU8(x), 2 ^ bit))), m |-> n])

CbSet(m, bit, code) ==
    ReadModifyWrite(m, code, LAMBDA n, x :
      [value |-> FromU8(ToU8(x) + 2 ^ bit * Num(~Bit(ToU8(x), 2 ^ bit))), m |-> n])

CbOp(m, variant, y, code) ==
    CASE variant = 0 -> Done(CbRotate(m, y, code), 8 + 2 * Extra(code))
      [] variant = 1 -> Done(CbBit(m, y, code), 8 + Extra(code))
      [] variant = 2 -> Done(CbRes(m, y, code), 8 + 2 * Extra(code))
      [] variant = 3 -> Done(CbSet(m, y, code), 8 + 2 * Extra(code))

Cb(m) ==
    Then(FetchImm8(m), LAMBDA n, x :
      CbOp(n, ToU8(x) \div 64, (ToU8(x) \div 8) % 8, ToU8(x) % 8))

(* ------------------------------- control ------------------------------ *)

Jump(m, addr) == [m EXCEPT !.pc = addr]

(* jump_relative.                                                          *)
Relative(m, off) == Jump(m, Plus(m.pc, Signed(ToU8(off))))

Jr(m) == Then(FetchImm8(m), LAMBDA n, off : Done(Relative(n, off), 12))

JrCc(m, cc) ==
    Then(FetchImm8(m), LAMBDA n, off :
      IF Cond(n, cc) THEN Done(Relative(n, off), 12) ELSE Done(n, 8))

JpA16(m) == Then(FetchImm16(m), LAMBDA n, to : Done(Jump(n, to), 16))

JpCcA16(m, cc) ==
    Then(FetchImm16(m), LAMBDA n, to :
      IF Cond(n, cc) THEN Done(Jump(n, to), 16) ELSE Done(n, 12))

JpHl(m) == Done(Jump(m, HL(m)), 4)

Call(m, to) == Jump(Push16(m, m.pc), to)

CallA16(m) == Then(FetchImm16(m), LAMBDA n, to : Done(Call(n, to), 24))

CallCcA16(m, cc) ==
    Then(FetchImm16(m), LAMBDA n, to :
      IF Cond(n, cc) THEN Done(Call(n, to), 24) ELSE Done(n, 12))

Rst(m, op) == Done(Call(m, FromU16(op - 192 - (op % 8))), 16)

Return(m) == Then(Pop16(m), Jump)

Ret(m) == Done(Return(m), 16)

RetCc(m, cc) == IF Cond(m, cc) THEN Done(Return(m), 20) ELSE Done(m, 8)

Reti(m) == Done([Return(m) EXCEPT !.ime = TRUE], 16)

PushRr(m, rp) == Done(Push16(m, IF rp = 3 THEN AF(m) ELSE RegPair(m, rp)), 16)

PopRr(m, rp) ==
    Then(Pop16(m), LAMBDA n, x :
      Done(IF rp = 3 THEN SetAF(n, x) ELSE SetRegPair(n, rp, x), 12))

Di(m) == Done([m EXCEPT !.ime = FALSE, !.eiPending = FALSE], 4)
Ei(m) == Done([m EXCEPT !.eiPending = TRUE], 4)

RegisterAt(m, addr) == ToU8(Load(m.mem, FromU16(addr)))

Halt(m) ==
    IF m.ime \/ AndByte(RegisterAt(m, IeAddress), RegisterAt(m, IfAddress)) % 32 = 0
    THEN Done([m EXCEPT !.halted = TRUE], 4) ELSE Done([m EXCEPT !.haltBug = TRUE], 4)

Stop(m) == Done([m EXCEPT !.halted = TRUE], 4)

(* op_nop; op_unimplemented, for the opcodes without an instruction.       *)
Nop(m) == Done(m, 4)

(* ------------------------------- dispatch ----------------------------- *)

(* The match of execute_opcode.                                            *)
Dispatch(m, op, high, cc, code) ==
    CASE op = 118 -> Halt(m)
      [] op \in 64 .. 127 \ {118} -> LdRR(m, op)
      [] op \in 128 .. 191 -> AluAR(m, op)
      [] op \in 192 .. 255 /\ op % 8 = 6 -> AluAD8(m, op)
      [] op < 64 /\ op % 16 = 1 -> LdRrD16(m, high)
      [] op \in {2, 18} -> LdMemRrA(m, high)
      [] op \in {10, 26} -> LdAMemRr(m, high)
      [] op = 34 -> LdStepHlA(m, 1) [] op = 42 -> LdStepAHl(m, 1)
      [] op = 50 -> LdStepHlA(m, -1) [] op = 58 -> LdStepAHl(m, -1)
      [] op < 64 /\ op % 16 = 3 -> IncRr(m, high)
      [] op < 64 /\ op % 16 = 11 -> DecRr(m, high)
      [] op < 64 /\ op % 16 = 9 -> AddHlRr(m, high)
      [] op < 64 /\ op % 8 = 4 -> IncR(m, code)
      [] op < 64 /\ op % 8 = 5 -> DecR(m, code)
      [] op = 54 -> LdHlD8(m)
      [] op < 64 /\ op % 8 = 6 /\ op # 54 -> LdRD8(m, code)
      [] op \in {7, 15, 23, 31} -> RotateA(m, code)
      [] op = 8 -> LdMemA16Sp(m)
      [] op = 16 -> Stop(m)
      [] op = 24 -> Jr(m)
      [] op \in {32, 40, 48, 56} -> JrCc(m, cc)
      [] op = 39 -> Daa(m) [] op = 47 -> Cpl(m)
      [] op = 55 -> Scf(m) [] op = 63 -> Ccf(m)
      [] op \in {192, 200, 208, 216} -> RetCc(m, cc)
      [] op \in {194, 202, 210, 218} -> JpCcA16(m, cc)
      [] op \in {196, 204, 212, 220} -> CallCcA16(m, cc)
      [] op \in 192 .. 255 /\ op % 8 = 7 -> Rst(m, op)
      [] op \in 192 .. 255 /\ op % 16 = 1 -> PopRr(m, high - 12)
      [] op \in 192 .. 255 /\ op % 16 = 5 -> PushRr(m, high - 12)
      [] op = 195 -> JpA16(m) [] op = 201 -> Ret(m)
      [] op = 203 -> Cb(m) [] op = 205 -> CallA16(m)
      [] op = 217 -> Reti(m) [] op = 233 -> JpHl(m)
      [] op = 224 -> LdhA8A(m) [] op = 240 -> LdhAA8(m)
      [] op = 226 -> LdhCA(m) [] op = 242 -> LdhAC(m)
      [] op = 234 -> LdA16A(m) [] op = 250 -> LdAA16(m)
      [] op = 232 -> AddSpE8(m) [] op = 248 -> LdHlSpE8(m)
      [] op = 249 -> LdSpHl(m)
      [] op = 243 -> Di(m) [] op = 251 -> Ei(m)
      [] OTHER -> Nop(m)

(* execute_opcode: the cycles an instruction reports beyond those given    *)
(* inside it are given at its end, after an EI of before took effect.      *)
Enabled(m, pending, op) ==
    IF pending THEN [m EXCEPT !.ime = TRUE, !.eiPending = (op = 251)] ELSE m

Settle(m, cost) ==
    [Consume(m, IF cost > m.credit THEN cost - m.credit ELSE 0) EXCEPT !.credit = 0]

Finish(done, pending, op) ==
    Done(Settle(Enabled(done.m, pending, op), done.cost), done.cost)

Decoded(m, pending, op) ==
    Finish(Dispatch(m, op, op \div 16, (op \div 8) % 4, (op \div 8) % 8), pending, op)

ExecuteOpcode(m) ==
    Then(Fetch8([m EXCEPT !.credit = 0]), LAMBDA n, opcode :
      Decoded(Credited(n), m.eiPending, ToU8(opcode)))
=============================================================================
