------------------------------- MODULE CpuProofs -------------------------------
(***************************************************************************)
(* What holds of the CPU: its control, for any lines, programs and devices, *)
(* and its instructions, on the scalar core and on the lane-parallel one,  *)
(* for any number of lanes and any programs.                               *)
(***************************************************************************)
EXTENDS Cpu, LaneCore, TLAPS

(* ------------------------------ control ------------------------------- *)
(* For every set of interrupt lines, whatever the programs execute and     *)
(* whatever the devices request. Masked is not inductive: an instruction   *)
(* in progress remembers, in pendingBefore, an EI that will take effect at *)
(* its end.                                                                *)

(* An instruction in progress will complete the EI that is outstanding,    *)
(* and its fetch has ended the HALT bug.                                   *)
InProgress == op # Idling => pendingBefore = cpu.eiPending /\ ~cpu.haltBug

(* An EI that turns interrupts on is outstanding until the next            *)
(* instruction ends.                                                       *)
Shadow == past.shadow => ~cpu.ime /\ cpu.eiPending

IInv == TypeOK /\ Masked /\ HaltBugShadowed /\ InProgress /\ Shadow

(* The lines requested by devices stay lines.                              *)
LEMMA RaisedType ==
    ASSUME NEW before, before \subseteq Lines, Raised(before)
    PROVE  ifReg' \subseteq Lines
BY DEF Raised

(* The two states a reset leaves the CPU in.                               *)
LEMMA ResetCpu ==
    /\ NewCpu \in CpuStates /\ [NewCpu EXCEPT !.ime = TRUE] \in CpuStates
    /\ ~NewCpu.ime /\ ~NewCpu.halted /\ ~NewCpu.haltBug /\ ~NewCpu.eiPending
    /\ LET on == [NewCpu EXCEPT !.ime = TRUE]
       IN  ~on.halted /\ ~on.haltBug /\ ~on.eiPending
BY DEF NewCpu, CpuStates

LEMMA InitIInv == Init => IInv
<1> SUFFICES ASSUME Init PROVE IInv
  OBVIOUS
<1>1. TypeOK
  BY ResetCpu DEF Init, TypeOK, NoPast, Idling, None
<1>2. Masked /\ HaltBugShadowed /\ InProgress /\ Shadow
  BY ResetCpu DEF Init, Masked, HaltBugShadowed, InProgress, Shadow, NoPast, Idling
<1> QED BY <1>1, <1>2 DEF IInv

LEMMA ServiceIInv ==
    ASSUME IInv, Service
    PROVE  IInv'
<1> USE DEF IInv, Service
<1>1. cpu' = Interrupted(cpu) /\ op' = op /\ op = Idling /\ pendingBefore' = pendingBefore
  OBVIOUS
<1>2. past' = [mask |-> "handler", stray |-> cpu.eiPending, shadow |-> FALSE]
  OBVIOUS
<1>3. TypeOK'
  <2>1. cpu' \in CpuStates
    BY <1>1 DEF Interrupted, TypeOK, CpuStates
  <2>2. ie' \subseteq IeBits /\ ifReg' \subseteq Lines
    BY RaisedType DEF TypeOK, Raised
  <2>3. vector' \in Lines \cup Upper \cup {None}
    BY CpuAssumption DEF Pending, TypeOK
  <2>4. past' \in [mask : {"none", "di", "handler"}, stray : BOOLEAN, shadow : BOOLEAN]
    BY <1>2 DEF TypeOK, CpuStates
  <2>5. cpu'.halted => op' = Idling /\ ~cpu'.haltBug
    BY <1>1 DEF Interrupted, TypeOK, CpuStates
  <2> QED BY <1>1, <2>1, <2>2, <2>3, <2>4, <2>5 DEF TypeOK
<1>4. cpu'.ime = FALSE /\ cpu'.eiPending = cpu.eiPending
  BY <1>1 DEF Interrupted, TypeOK, CpuStates
<1>5. Masked' /\ HaltBugShadowed' /\ Shadow'
  BY <1>2, <1>4 DEF Masked, HaltBugShadowed, Shadow
<1>6. InProgress'
  BY <1>1 DEF InProgress
<1> QED BY <1>3, <1>5, <1>6

LEMMA FetchIInv ==
    ASSUME IInv, NEW o \in Ops, Fetch(o)
    PROVE  IInv'
<1> USE DEF IInv, Fetch
<1>1. TypeOK'
  <2>1. ifReg' \subseteq Lines
    BY RaisedType DEF TypeOK
  <2> QED BY <2>1 DEF TypeOK, CpuStates, Ops, Idling
<1>2. Masked' /\ HaltBugShadowed' /\ InProgress' /\ Shadow'
  BY DEF Masked, HaltBugShadowed, InProgress, Shadow, TypeOK, CpuStates
<1> QED BY <1>1, <1>2

(* What execute_opcode may do to the CPU, one instruction at a time.       *)
LEMMA EffectFields ==
    ASSUME NEW c \in CpuStates, NEW o \in Ops, ~c.halted
    PROVE  LET e == Effect(o, c)
           IN  /\ e \in CpuStates
               /\ o = "di" => ~e.ime /\ ~e.eiPending
               /\ o = "ei" => e.ime = c.ime /\ e.eiPending
               /\ o \notin {"di", "ei"} => e.eiPending = c.eiPending
               /\ o \notin {"di", "reti"} => e.ime = c.ime
               /\ e.halted => e.haltBug = c.haltBug
               /\ e.haltBug => c.haltBug \/ ~e.ime
<1>1. CASE o = "ei"
  BY <1>1 DEF Effect, CpuStates
<1>2. CASE o = "di"
  BY <1>2 DEF Effect, CpuStates
<1>3. CASE o = "halt"
  <2>1. CASE c.ime \/ ie \cap ifReg \cap Lines = {}
    BY <1>3, <2>1 DEF Effect, Halted, CpuStates
  <2>2. CASE ~(c.ime \/ ie \cap ifReg \cap Lines = {})
    BY <1>3, <2>2 DEF Effect, Halted, CpuStates
  <2> QED BY <2>1, <2>2
<1>4. CASE o = "stop"
  BY <1>4 DEF Effect, CpuStates
<1>5. CASE o = "reti"
  BY <1>5 DEF Effect, CpuStates
<1>6. CASE o \in {"other", "write_ie", "write_if"}
  BY <1>6 DEF Effect, CpuStates
<1> QED BY <1>1, <1>2, <1>3, <1>4, <1>5, <1>6 DEF Ops

LEMMA ExecuteIInv ==
    ASSUME IInv, Execute
    PROVE  IInv'
<1> DEFINE e == Effect(op, cpu)
<1>1. /\ op \in Ops /\ cpu \in CpuStates /\ ~cpu.halted
      /\ op' = Idling /\ pendingBefore' = pendingBefore /\ pendingBefore = cpu.eiPending
      /\ ~cpu.haltBug
  BY DEF IInv, Execute, TypeOK, InProgress
<1>2. e \in CpuStates
  BY <1>1, EffectFields
<1>3. cpu' = IF pendingBefore THEN [e EXCEPT !.ime = TRUE, !.eiPending = (op = "ei")] ELSE e
  BY DEF Execute, Enabled
<1>4. ie' \subseteq IeBits /\ ifReg' \subseteq Lines
  BY RaisedType DEF IInv, TypeOK, Execute, Raised
<1>5. /\ op = "di" => past'.mask = "di" /\ past'.stray = pendingBefore
      /\ op \in {"ei", "reti"} => past'.mask = "none" /\ past'.stray = FALSE
      /\ op \notin {"di", "ei", "reti"} => past'.mask = past.mask /\ past'.stray = past.stray
      /\ past'.shadow = (op = "ei" /\ ~cpu.ime /\ ~pendingBefore)
      /\ past' = [mask |-> past'.mask, stray |-> past'.stray, shadow |-> past'.shadow]
  BY <1>1 DEF Execute, PastAfter, Ops
<1> HIDE DEF e
<1>6. /\ cpu' \in CpuStates /\ cpu'.halted = e.halted /\ cpu'.haltBug = e.haltBug
      /\ pendingBefore => cpu'.ime /\ (cpu'.eiPending <=> op = "ei")
      /\ ~pendingBefore => cpu'.ime = e.ime /\ cpu'.eiPending = e.eiPending
  BY <1>2, <1>3 DEF CpuStates
<1>7. TypeOK'
  <2>1. past' \in [mask : {"none", "di", "handler"}, stray : BOOLEAN, shadow : BOOLEAN]
    BY <1>1, <1>5 DEF IInv, TypeOK
  <2> QED BY <1>1, <1>4, <1>6, <2>1, EffectFields DEF IInv, TypeOK, Execute, e
<1>8. Masked'
  BY <1>1, <1>5, <1>6, EffectFields DEF IInv, Masked, e
<1>9. HaltBugShadowed'
  BY <1>1, <1>6, EffectFields DEF IInv, HaltBugShadowed, e
<1>10. Shadow'
  BY <1>1, <1>5, <1>6, EffectFields DEF IInv, Shadow, e
<1>11. InProgress'
  BY <1>1 DEF InProgress
<1> QED BY <1>7, <1>8, <1>9, <1>10, <1>11 DEF IInv

LEMMA ResetIInv ==
    ASSUME IInv, PowerOn \/ PostBoot
    PROVE  IInv'
<1>1. /\ cpu' \in {NewCpu, [NewCpu EXCEPT !.ime = TRUE]}
      /\ past' = NoPast /\ op' = op /\ op = Idling /\ pendingBefore' = pendingBefore
      /\ ie' \in {ie, {}} /\ ifReg' \in {ifReg, {}} /\ vector' = None
  BY DEF PowerOn, PostBoot
<1>2. TypeOK'
  BY <1>1, ResetCpu DEF IInv, TypeOK, NoPast
<1>3. Masked' /\ HaltBugShadowed' /\ InProgress' /\ Shadow'
  BY <1>1, ResetCpu DEF Masked, HaltBugShadowed, InProgress, Shadow, NoPast
<1> QED BY <1>2, <1>3 DEF IInv

(* Every step keeps the invariant: what each action can disturb is shown   *)
(* by the lemma of that action.                                            *)
LEMMA NextIInv == IInv /\ [Next]_vars => IInv'
<1> SUFFICES ASSUME IInv, [Next]_vars PROVE IInv'
  OBVIOUS
<1>1. CASE Service
  BY <1>1, ServiceIInv
<1>2. CASE Idle
  BY <1>2, RaisedType
  DEF Idle, IInv, TypeOK, Masked, HaltBugShadowed, InProgress, Shadow
<1>3. CASE \E o \in Ops : Fetch(o)
  BY <1>3, FetchIInv
<1>4. CASE Execute
  BY <1>4, ExecuteIInv
<1>5. CASE PowerOn \/ PostBoot
  BY <1>5, ResetIInv
<1>6. CASE UNCHANGED vars
  BY <1>6 DEF vars, IInv, TypeOK, Masked, HaltBugShadowed, InProgress, Shadow
<1> QED BY <1>1, <1>2, <1>3, <1>4, <1>5, <1>6 DEF Next, Iterate

THEOREM Inductive == Spec => []IInv
BY InitIInv, NextIInv, PTL DEF Spec

(* The control state keeps its shape, and a sleeping CPU has neither an    *)
(* instruction in progress nor the HALT bug (op_halt, service_interrupts). *)
THEOREM TypeCorrect == Spec => []TypeOK
BY Inductive, PTL DEF IInv

(* Handlers, and code behind a DI, run with interrupts disabled unless an  *)
(* EI was outstanding (service_interrupts, op_di, execute_opcode).         *)
THEOREM HandlersMasked == Spec => []Masked
BY Inductive, PTL DEF IInv

(* The HALT bug can reach a handler only behind EI and HALT in sequence    *)
(* (op_halt, fetch8).                                                      *)
THEOREM HaltBugNeedsShadow == Spec => []HaltBugShadowed
BY Inductive, PTL DEF IInv

(* EI lets one instruction pass, and no more (op_ei, execute_opcode).      *)
THEOREM EiExact == Spec => EiAfterOne
<1> DEFINE Exact == /\ past.shadow => ~Service
                    /\ past.shadow /\ Execute => cpu'.ime
<1>1. IInv /\ [Next]_vars => [Exact]_vars
  <2> SUFFICES ASSUME IInv, past.shadow PROVE ~Service /\ (Execute => cpu'.ime)
    BY DEF Exact
  <2>1. ~cpu.ime /\ cpu.eiPending
    BY DEF IInv, Shadow
  <2>2. ~Service
    BY <2>1 DEF Service, Serviceable
  <2>3. ASSUME Execute PROVE cpu'.ime
    <3>1. pendingBefore
      BY <2>1, <2>3 DEF Execute, IInv, InProgress
    <3>2. Effect(op, cpu) \in CpuStates
      BY <2>3, EffectFields DEF Execute, IInv, TypeOK
    <3> QED BY <2>3, <3>1, <3>2 DEF Execute, Enabled, CpuStates
  <2> QED BY <2>2, <2>3
<1> QED BY <1>1, Inductive, PTL DEF Spec, EiAfterOne

(* Memories of bytes, whichever of their addresses are in use.             *)
Memories == UNION {[D -> Byte] : D \in SUBSET Word}

(* The states of the scalar machine.                                       *)
Machines ==
    [r : [S!Codes -> Byte], z : BOOLEAN, n : BOOLEAN, h : BOOLEAN, c : BOOLEAN,
     sp : Word, pc : Word, ime : BOOLEAN, halted : BOOLEAN, eiPending : BOOLEAN,
     haltBug : BOOLEAN, mem : Memories, clock : Nat, credit : Nat]

(* n is a machine to which m came while the devices were given this many   *)
(* cycles, all of them on credit.                                          *)
Spends(m, n, cycles) ==
    n \in Machines /\ n.clock = m.clock + cycles /\ n.credit = m.credit + cycles

(* ... and v is the same machine in every lane.                            *)
Lifts(m, n, v, cycles) == Spends(m, n, cycles) /\ v = Splat(n)

(* The same for what reads a byte, or a word, and for an instruction: the  *)
(* opcode fetch and the accesses are within the cycles it reports.         *)
Reads8(m, got, vgot, cycles) ==
    /\ Lifts(m, got.m, vgot.m, cycles)
    /\ got.value \in Byte /\ vgot.value = FromU8(got.value)

Reads16(m, got, vgot, cycles) ==
    /\ Lifts(m, got.m, vgot.m, cycles)
    /\ got.value \in Word /\ vgot.value = FromU16(got.value)

Pays(m, done, vdone) ==
    /\ done.cost \in Nat /\ vdone.cost = done.cost
    /\ \E cycles \in Nat : Lifts(m, done.m, vdone.m, cycles) /\ cycles + 4 <= done.cost

(* ------------------------- bytes and memory --------------------------- *)

LEMMA LaneZero == 0 \in Lane
BY LaneAssumption DEF Lane

LEMMA InByte == \A x : x \in Byte <=> x \in Int /\ 0 <= x /\ x <= 255
BY SMT DEF Byte

LEMMA InWord == \A x : x \in Word <=> x \in Int /\ 0 <= x /\ x < 65536
<1> DEFINE last == 65535
<1>1. last \in Int
  BY SMT
<1>2. last < 65536 /\ (\A x \in Int : x < 65536 => x <= last)
  BY SMT
<1>3. Word = 0 .. last
  BY SMT DEF Word
<1> HIDE DEF last
<1>4. \A x : x \in Word <=> x \in Int /\ 0 <= x /\ x <= last
  BY <1>1, <1>3, SMT
<1> QED BY <1>1, <1>2, <1>4, SMT

(* What an integer keeps in a byte or a word.                              *)
LEMMA LowBits == ASSUME NEW x \in Int PROVE AsByte(x) \in Byte /\ AsWord(x) \in Word
<1>1. x % 256 \in Int /\ 0 <= x % 256 /\ x % 256 <= 255
  BY SMT
<1>2. x % 65536 \in Int /\ 0 <= x % 65536 /\ x % 65536 < 65536
  BY SMT
<1>3. x % 256 \in Byte
  BY <1>1, InByte
<1>4. x % 65536 \in Word
  BY <1>2, InWord
<1> QED BY <1>3, <1>4 DEF AsByte, AsWord

(* A word is its two bytes.                                                *)
LEMMA HalvesOf == ASSUME NEW x \in Word PROVE x \div 256 \in Byte /\ x % 256 \in Byte
<1>1. x \in Int /\ 0 <= x /\ x < 65536
  BY InWord
<1>2. x \div 256 \in Int /\ 0 <= x \div 256 /\ x \div 256 <= 255
  BY <1>1, SMT
<1>3. x % 256 \in Int /\ 0 <= x % 256 /\ x % 256 <= 255
  BY <1>1, SMT
<1> QED BY <1>2, <1>3, InByte

LEMMA Joined == ASSUME NEW a \in Byte, NEW b \in Byte PROVE a * 256 + b \in Word
<1>1. a \in Int /\ 0 <= a /\ a <= 255 /\ b \in Int /\ 0 <= b /\ b <= 255
  BY InByte
<1>2. a * 256 + b \in Int /\ 0 <= a * 256 + b /\ a * 256 + b < 65536
  BY <1>1, SMT
<1> QED BY <1>2, InWord

(* The modules that include Bytes mean the same by it.                     *)
LEMMA SameBit ==
    ASSUME NEW x, NEW w
    PROVE Scalar!Bit(x, w) = Bit(x, w) /\ S!Bit(x, w) = Bit(x, w) /\ V!Bit(x, w) = Bit(x, w)
BY DEF Scalar!Bit, S!Bit, V!Bit, Bit

LEMMA SameNum ==
    ASSUME NEW b
    PROVE Scalar!Num(b) = Num(b) /\ S!Num(b) = Num(b) /\ V!Num(b) = Num(b)
BY Zenon DEF Scalar!Num, S!Num, V!Num, Num

LEMMA SameLow ==
    ASSUME NEW x
    PROVE /\ Scalar!AsByte(x) = AsByte(x) /\ S!AsByte(x) = AsByte(x) /\ V!AsByte(x) = AsByte(x)
          /\ S!AsWord(x) = AsWord(x) /\ V!AsWord(x) = AsWord(x)
          /\ S!Signed(x) = Signed(x) /\ V!Signed(x) = Signed(x)
BY DEF Scalar!AsByte, S!AsByte, V!AsByte, AsByte, S!AsWord, V!AsWord, AsWord,
       S!Signed, V!Signed, Signed

LEMMA BitBoolean == ASSUME NEW x, NEW w PROVE Bit(x, w) \in BOOLEAN
BY DEF Bit

LEMMA NumIs == ASSUME NEW b PROVE Num(b) \in {0, 1}
BY DEF Num

LEMMA ByteOfByte ==
    ASSUME NEW a, NEW b
    PROVE AndByte(a, b) \in Byte /\ OrByte(a, b) \in Byte /\ XorByte(a, b) \in Byte
<1>1. AndByte(a, b) \in Byte
  BY DEF AndByte, ByteOf, Byte, Num
<1>2. OrByte(a, b) \in Byte
  BY DEF OrByte, ByteOf, Byte, Num
<1>3. XorByte(a, b) \in Byte
  BY DEF XorByte, ByteOf, Byte, Num
<1> QED BY <1>1, <1>2, <1>3

(* The bitwise operations give bytes.                                      *)
LEMMA SameLogic ==
    ASSUME NEW a, NEW b
    PROVE /\ Scalar!AndByte(a, b) = AndByte(a, b) /\ Scalar!OrByte(a, b) = OrByte(a, b)
          /\ Scalar!XorByte(a, b) = XorByte(a, b)
          /\ S!AndByte(a, b) = AndByte(a, b) /\ V!AndByte(a, b) = AndByte(a, b)
<1>1. /\ Scalar!AndByte(a, b) = AndByte(a, b) /\ S!AndByte(a, b) = AndByte(a, b)
      /\ V!AndByte(a, b) = AndByte(a, b)
  BY Zenon DEF Scalar!AndByte, AndByte, S!AndByte, V!AndByte, Scalar!ByteOf, S!ByteOf, V!ByteOf,
     ByteOf,
       Scalar!Num, S!Num, V!Num, Num, Scalar!Bit, S!Bit, V!Bit, Bit
<1>2. Scalar!OrByte(a, b) = OrByte(a, b)
  BY Zenon DEF Scalar!OrByte, OrByte, Scalar!ByteOf, ByteOf, Scalar!Num, Num, Scalar!Bit, Bit
<1>3. Scalar!XorByte(a, b) = XorByte(a, b)
  BY Zenon DEF Scalar!XorByte, XorByte, Scalar!ByteOf, ByteOf, Scalar!Num, Num, Scalar!Bit, Bit
<1> QED BY <1>1, <1>2, <1>3

(* ------------------- the operations of the backends ------------------- *)

(* A value in every lane is read back from lane 0.                         *)
LEMMA LeavesLanes == ASSUME NEW x PROVE ToU8(FromU8(x)) = x /\ ToU16(FromU16(x)) = x
BY LaneZero DEF ToU8, FromU8, ToU16, FromU16

LEMMA CombineLifts ==
    ASSUME NEW a \in Byte, NEW b \in Byte
    PROVE /\ Combine(FromU8(a), FromU8(b)) = FromU16(Scalar!Combine(a, b))
          /\ Scalar!Combine(a, b) \in Word
BY Joined DEF Combine, FromU8, FromU16, Scalar!Combine

LEMMA SplitLifts ==
    ASSUME NEW x \in Word
    PROVE /\ SplitHi(FromU16(x)) = FromU8(Scalar!SplitHi(x)) /\ Scalar!SplitHi(x) \in Byte
          /\ SplitLo(FromU16(x)) = FromU8(Scalar!SplitLo(x)) /\ Scalar!SplitLo(x) \in Byte
BY HalvesOf DEF SplitHi, SplitLo, FromU8, FromU16, Scalar!SplitHi, Scalar!SplitLo

LEMMA LogicLifts ==
    ASSUME NEW a, NEW b
    PROVE /\ And(FromU8(a), FromU8(b)) = FromU8(Scalar!And(a, b)) /\ Scalar!And(a, b) \in Byte
          /\ Or(FromU8(a), FromU8(b)) = FromU8(Scalar!Or(a, b)) /\ Scalar!Or(a, b) \in Byte
          /\ Xor(FromU8(a), FromU8(b)) = FromU8(Scalar!Xor(a, b)) /\ Scalar!Xor(a, b) \in Byte
<1>1. And(FromU8(a), FromU8(b)) = FromU8(AndByte(a, b))
  BY DEF And, FromU8
<1>2. Or(FromU8(a), FromU8(b)) = FromU8(OrByte(a, b))
  BY DEF Or, FromU8
<1>3. Xor(FromU8(a), FromU8(b)) = FromU8(XorByte(a, b))
  BY DEF Xor, FromU8
<1> QED BY <1>1, <1>2, <1>3, SameLogic, ByteOfByte DEF Scalar!And, Scalar!Or, Scalar!Xor

(* The result of an addition or a subtraction, in every lane.              *)
SumLifts(res, vres) ==
    /\ res.value \in Byte /\ vres.value = FromU8(res.value)
    /\ res.z \in BOOLEAN /\ res.n \in BOOLEAN /\ res.h \in BOOLEAN /\ res.c \in BOOLEAN
    /\ vres.z = res.z /\ vres.n = res.n /\ vres.h = res.h /\ vres.c = res.c

LEMMA Add8Lifts ==
    ASSUME NEW a \in Byte, NEW b \in Byte, NEW carry \in BOOLEAN
    PROVE SumLifts(Scalar!Add8(a, b, carry), Add8(FromU8(a), FromU8(b), carry))
<1> DEFINE sum == AsByte(a + b + Num(carry))
           lsum == [l \in Lane |-> AsByte(FromU8(a)[l] + FromU8(b)[l] + Num(carry))]
<1>1. lsum = FromU8(sum)
  BY DEF FromU8
<1>2. sum \in Byte
  <2>1. a + b + Num(carry) \in Int
    BY NumIs DEF Byte
  <2> QED BY <2>1, LowBits
<1>3. FromU8(a)[0] = a /\ FromU8(b)[0] = b /\ lsum[0] = sum
  BY <1>1, LaneZero DEF FromU8
<1>4. (\A l \in Lane : lsum[l] = 0) = (sum = 0)
  BY <1>1, LaneZero DEF FromU8
<1> HIDE DEF sum, lsum
<1>5. Scalar!Add8(a, b, carry) =
        [value |-> sum, z |-> sum = 0, n |-> FALSE,
         h |-> Scalar!HalfOf(a, b, sum), c |-> Scalar!CarryOf(a, b, sum)]
  BY SameLow, SameNum, Zenon DEF Scalar!Add8, sum
<1>6. Add8(FromU8(a), FromU8(b), carry) =
        [value |-> FromU8(sum), z |-> \A l \in Lane : lsum[l] = 0, n |-> FALSE,
         h |-> Scalar!HalfOf(a, b, sum), c |-> Scalar!CarryOf(a, b, sum)]
  BY <1>1, <1>3, Zenon DEF Add8, lsum
<1>7. PICK z \in BOOLEAN, h \in BOOLEAN, c \in BOOLEAN :
        z = (sum = 0) /\ h = Scalar!HalfOf(a, b, sum) /\ c = Scalar!CarryOf(a, b, sum)
  BY DEF Scalar!HalfOf, Scalar!CarryOf, Scalar!Bit
<1>8. /\ Scalar!Add8(a, b, carry) = [value |-> sum, z |-> z, n |-> FALSE, h |-> h, c |-> c]
      /\ Add8(FromU8(a), FromU8(b), carry)
           = [value |-> FromU8(sum), z |-> z, n |-> FALSE, h |-> h, c |-> c]
  BY <1>4, <1>5, <1>6, <1>7, Zenon
<1> QED BY <1>2, <1>8 DEF SumLifts

LEMMA Sub8Lifts ==
    ASSUME NEW a \in Byte, NEW b \in Byte, NEW borrow \in BOOLEAN
    PROVE SumLifts(Scalar!Sub8(a, b, borrow), Sub8(FromU8(a), FromU8(b), borrow))
<1> DEFINE diff == AsByte(a - b - Num(borrow))
           ldiff == [l \in Lane |-> AsByte(FromU8(a)[l] - FromU8(b)[l] - Num(borrow))]
<1>1. ldiff = FromU8(diff)
  BY DEF FromU8
<1>2. diff \in Byte
  <2>1. a - b - Num(borrow) \in Int
    BY NumIs DEF Byte
  <2> QED BY <2>1, LowBits
<1>3. FromU8(a)[0] = a /\ FromU8(b)[0] = b /\ ldiff[0] = diff
  BY <1>1, LaneZero DEF FromU8
<1>4. (\A l \in Lane : ldiff[l] = 0) = (diff = 0)
  BY <1>1, LaneZero DEF FromU8
<1> HIDE DEF diff, ldiff
<1>5. Scalar!Sub8(a, b, borrow) =
        [value |-> diff, z |-> diff = 0, n |-> TRUE,
         h |-> Scalar!HalfOf(a, b, diff), c |-> Scalar!BorrowOf(a, b, diff)]
  BY SameLow, SameNum, Zenon DEF Scalar!Sub8, diff
<1>6. Sub8(FromU8(a), FromU8(b), borrow) =
        [value |-> FromU8(diff), z |-> \A l \in Lane : ldiff[l] = 0, n |-> TRUE,
         h |-> Scalar!HalfOf(a, b, diff), c |-> Scalar!BorrowOf(a, b, diff)]
  BY <1>1, <1>3, Zenon DEF Sub8, ldiff
<1>7. PICK z \in BOOLEAN, h \in BOOLEAN, c \in BOOLEAN :
        z = (diff = 0) /\ h = Scalar!HalfOf(a, b, diff) /\ c = Scalar!BorrowOf(a, b, diff)
  BY DEF Scalar!HalfOf, Scalar!BorrowOf, Scalar!Bit
<1>8. /\ Scalar!Sub8(a, b, borrow) = [value |-> diff, z |-> z, n |-> TRUE, h |-> h, c |-> c]
      /\ Sub8(FromU8(a), FromU8(b), borrow)
           = [value |-> FromU8(diff), z |-> z, n |-> TRUE, h |-> h, c |-> c]
  BY <1>4, <1>5, <1>6, <1>7, Zenon
<1> QED BY <1>2, <1>8 DEF SumLifts

(* Every lane has a memory of its own, all of them equal.                  *)
LEMMA LoadLifts ==
    ASSUME NEW mem \in Memories, NEW addr
    PROVE /\ Load([l \in Lane |-> mem], FromU16(addr)) = FromU8(Scalar!Load(mem, addr))
          /\ Scalar!Load(mem, addr) \in Byte
<1>1. PICK D \in SUBSET Word : mem \in [D -> Byte]
  BY DEF Memories
<1>2. Scalar!Load(mem, addr) \in Byte
  BY <1>1 DEF Scalar!Load, Byte
<1>3. Load([l \in Lane |-> mem], FromU16(addr)) = FromU8(Scalar!Load(mem, addr))
  BY DEF Load, FromU16, FromU8
<1> QED BY <1>2, <1>3

LEMMA StoreLifts ==
    ASSUME NEW mem \in Memories, NEW addr \in Word, NEW x \in Byte
    PROVE /\ Store([l \in Lane |-> mem], FromU16(addr), FromU8(x))
               = [l \in Lane |-> Scalar!Store(mem, addr, x)]
          /\ Scalar!Store(mem, addr, x) \in Memories
<1>1. PICK D \in SUBSET Word : mem \in [D -> Byte]
  BY DEF Memories
<1>2. Scalar!Store(mem, addr, x) \in [D \cup {addr} -> Byte]
  BY <1>1 DEF Scalar!Store
<1>3. Scalar!Store(mem, addr, x) \in Memories
  BY <1>2 DEF Memories
<1>4. Store([l \in Lane |-> mem], FromU16(addr), FromU8(x))
               = [l \in Lane |-> Scalar!Store(mem, addr, x)]
  BY DEF Store, FromU8, FromU16
<1> QED BY <1>3, <1>4

(* A machine in every lane, field by field; then one lemma for each field   *)
(* an instruction writes: writing it in one machine and in every lane.     *)
LEMMA SplatRecord == \A m \in Machines :
  Splat(m) = [r |-> [k \in S!Codes |-> FromU8(m.r[k])], z |-> m.z, n |-> m.n, h |-> m.h, c |-> m.c,
              sp |-> FromU16(m.sp), pc |-> FromU16(m.pc), ime |-> m.ime, halted |-> m.halted,
              eiPending |-> m.eiPending, haltBug |-> m.haltBug, mem |-> [l \in Lane |-> m.mem],
              clock |-> m.clock, credit |-> m.credit]
<1> SUFFICES ASSUME NEW m \in Machines PROVE
  Splat(m) = [r |-> [k \in S!Codes |-> FromU8(m.r[k])], z |-> m.z, n |-> m.n, h |-> m.h, c |-> m.c,
              sp |-> FromU16(m.sp), pc |-> FromU16(m.pc), ime |-> m.ime, halted |-> m.halted,
              eiPending |-> m.eiPending, haltBug |-> m.haltBug, mem |-> [l \in Lane |-> m.mem],
              clock |-> m.clock, credit |-> m.credit]
  OBVIOUS
<1> DEFINE Rec(r, sp, pc, mem) ==
             [r |-> r, z |-> m.z, n |-> m.n, h |-> m.h, c |-> m.c, sp |-> sp, pc |-> pc,
              ime |-> m.ime, halted |-> m.halted, eiPending |-> m.eiPending,
              haltBug |-> m.haltBug, mem |-> mem, clock |-> m.clock, credit |-> m.credit]
<1>1. m = Rec(m.r, m.sp, m.pc, m.mem)
  BY SMT DEF Machines
<1>2. \A r, sp, pc, mem, y :
            /\ [Rec(r, sp, pc, mem) EXCEPT !.r = y] = Rec(y, sp, pc, mem)
            /\ [Rec(r, sp, pc, mem) EXCEPT !.sp = y] = Rec(r, y, pc, mem)
            /\ [Rec(r, sp, pc, mem) EXCEPT !.pc = y] = Rec(r, sp, y, mem)
            /\ [Rec(r, sp, pc, mem) EXCEPT !.mem = y] = Rec(r, sp, pc, y)
  BY SMT
<1> HIDE DEF Rec
<1>3. Splat(m)
          = Rec([k \in S!Codes |-> FromU8(m.r[k])], FromU16(m.sp), FromU16(m.pc),
                [l \in Lane |-> m.mem])
  <2> DEFINE R == [k \in S!Codes |-> FromU8(m.r[k])]
  <2> DEFINE P == FromU16(m.sp)
  <2> DEFINE Q == FromU16(m.pc)
  <2> DEFINE M == [l \in Lane |-> m.mem]
  <2>1. PICK w : w = Rec(m.r, m.sp, m.pc, m.mem)
    OBVIOUS
  <2> HIDE DEF R, P, Q, M
  <2>2. PICK w1 : w1 = [w EXCEPT !.r = R]
    OBVIOUS
  <2>3. PICK w2 : w2 = [w1 EXCEPT !.sp = P]
    OBVIOUS
  <2>4. PICK w3 : w3 = [w2 EXCEPT !.pc = Q]
    OBVIOUS
  <2>5. w1 = Rec(R, m.sp, m.pc, m.mem)
    BY <2>1, <2>2, <1>2
  <2>6. w2 = Rec(R, P, m.pc, m.mem)
    BY <2>3, <2>5, <1>2
  <2>7. w3 = Rec(R, P, Q, m.mem)
    BY <2>4, <2>6, <1>2
  <2>8. [w3 EXCEPT !.mem = M] = Rec(R, P, Q, M)
    BY <2>7, <1>2
  <2>9. w = m
    BY <2>1, <1>1
  <2>10. [[[[m EXCEPT !.r = R] EXCEPT !.sp = P] EXCEPT !.pc = Q] EXCEPT !.mem = M] = Rec(R, P, Q, M)
    BY <2>2, <2>3, <2>4, <2>8, <2>9, Zenon
  <2> QED BY <2>10, Zenon DEF Splat, R, P, Q, M
<1> QED BY <1>3, Zenon DEF Rec

LEMMA ZLifts ==
    ASSUME NEW m \in Machines, NEW x \in BOOLEAN
    PROVE Lifts(m, [m EXCEPT !.z = x], [Splat(m) EXCEPT !.z = x], 0)
<1>1. [m EXCEPT !.z = x] \in Machines
  BY SMT DEF Machines
<1>2. [m EXCEPT !.z = x].clock = m.clock + 0 /\ [m EXCEPT !.z = x].credit = m.credit + 0
  BY SMT DEF Machines
<1>3. [Splat(m) EXCEPT !.z = x] = Splat([m EXCEPT !.z = x])
  BY <1>1, SplatRecord, SMT DEF Machines
<1> QED BY <1>1, <1>2, <1>3 DEF Lifts, Spends

LEMMA NLifts ==
    ASSUME NEW m \in Machines, NEW x \in BOOLEAN
    PROVE Lifts(m, [m EXCEPT !.n = x], [Splat(m) EXCEPT !.n = x], 0)
<1>1. [m EXCEPT !.n = x] \in Machines
  BY SMT DEF Machines
<1>2. [m EXCEPT !.n = x].clock = m.clock + 0 /\ [m EXCEPT !.n = x].credit = m.credit + 0
  BY SMT DEF Machines
<1>3. [Splat(m) EXCEPT !.n = x] = Splat([m EXCEPT !.n = x])
  BY <1>1, SplatRecord, SMT DEF Machines
<1> QED BY <1>1, <1>2, <1>3 DEF Lifts, Spends

LEMMA HLifts ==
    ASSUME NEW m \in Machines, NEW x \in BOOLEAN
    PROVE Lifts(m, [m EXCEPT !.h = x], [Splat(m) EXCEPT !.h = x], 0)
<1>1. [m EXCEPT !.h = x] \in Machines
  BY SMT DEF Machines
<1>2. [m EXCEPT !.h = x].clock = m.clock + 0 /\ [m EXCEPT !.h = x].credit = m.credit + 0
  BY SMT DEF Machines
<1>3. [Splat(m) EXCEPT !.h = x] = Splat([m EXCEPT !.h = x])
  BY <1>1, SplatRecord, SMT DEF Machines
<1> QED BY <1>1, <1>2, <1>3 DEF Lifts, Spends

LEMMA CLifts ==
    ASSUME NEW m \in Machines, NEW x \in BOOLEAN
    PROVE Lifts(m, [m EXCEPT !.c = x], [Splat(m) EXCEPT !.c = x], 0)
<1>1. [m EXCEPT !.c = x] \in Machines
  BY SMT DEF Machines
<1>2. [m EXCEPT !.c = x].clock = m.clock + 0 /\ [m EXCEPT !.c = x].credit = m.credit + 0
  BY SMT DEF Machines
<1>3. [Splat(m) EXCEPT !.c = x] = Splat([m EXCEPT !.c = x])
  BY <1>1, SplatRecord, SMT DEF Machines
<1> QED BY <1>1, <1>2, <1>3 DEF Lifts, Spends

LEMMA ImeLifts ==
    ASSUME NEW m \in Machines, NEW x \in BOOLEAN
    PROVE Lifts(m, [m EXCEPT !.ime = x], [Splat(m) EXCEPT !.ime = x], 0)
<1>1. [m EXCEPT !.ime = x] \in Machines
  BY SMT DEF Machines
<1>2. [m EXCEPT !.ime = x].clock = m.clock + 0 /\ [m EXCEPT !.ime = x].credit = m.credit + 0
  BY SMT DEF Machines
<1>3. [Splat(m) EXCEPT !.ime = x] = Splat([m EXCEPT !.ime = x])
  BY <1>1, SplatRecord, SMT DEF Machines
<1> QED BY <1>1, <1>2, <1>3 DEF Lifts, Spends

LEMMA HaltedLifts ==
    ASSUME NEW m \in Machines, NEW x \in BOOLEAN
    PROVE Lifts(m, [m EXCEPT !.halted = x], [Splat(m) EXCEPT !.halted = x], 0)
<1>1. [m EXCEPT !.halted = x] \in Machines
  BY SMT DEF Machines
<1>2. [m EXCEPT !.halted = x].clock = m.clock + 0 /\ [m EXCEPT !.halted = x].credit = m.credit + 0
  BY SMT DEF Machines
<1>3. [Splat(m) EXCEPT !.halted = x] = Splat([m EXCEPT !.halted = x])
  BY <1>1, SplatRecord, SMT DEF Machines
<1> QED BY <1>1, <1>2, <1>3 DEF Lifts, Spends

LEMMA EiLifts ==
    ASSUME NEW m \in Machines, NEW x \in BOOLEAN
    PROVE Lifts(m, [m EXCEPT !.eiPending = x], [Splat(m) EXCEPT !.eiPending = x], 0)
<1>1. [m EXCEPT !.eiPending = x] \in Machines
  BY SMT DEF Machines
<1>2. /\ [m EXCEPT !.eiPending = x].clock = m.clock + 0
      /\ [m EXCEPT !.eiPending = x].credit = m.credit + 0
  BY SMT DEF Machines
<1>3. [Splat(m) EXCEPT !.eiPending = x] = Splat([m EXCEPT !.eiPending = x])
  BY <1>1, SplatRecord, SMT DEF Machines
<1> QED BY <1>1, <1>2, <1>3 DEF Lifts, Spends

LEMMA HaltBugLifts ==
    ASSUME NEW m \in Machines, NEW x \in BOOLEAN
    PROVE Lifts(m, [m EXCEPT !.haltBug = x], [Splat(m) EXCEPT !.haltBug = x], 0)
<1>1. [m EXCEPT !.haltBug = x] \in Machines
  BY SMT DEF Machines
<1>2. [m EXCEPT !.haltBug = x].clock = m.clock + 0 /\ [m EXCEPT !.haltBug = x].credit = m.credit + 0
  BY SMT DEF Machines
<1>3. [Splat(m) EXCEPT !.haltBug = x] = Splat([m EXCEPT !.haltBug = x])
  BY <1>1, SplatRecord, SMT DEF Machines
<1> QED BY <1>1, <1>2, <1>3 DEF Lifts, Spends

LEMMA SpLifts ==
    ASSUME NEW m \in Machines, NEW x \in Word
    PROVE Lifts(m, [m EXCEPT !.sp = x], [Splat(m) EXCEPT !.sp = FromU16(x)], 0)
<1>1. [m EXCEPT !.sp = x] \in Machines
  BY SMT DEF Machines
<1>2. [m EXCEPT !.sp = x].clock = m.clock + 0 /\ [m EXCEPT !.sp = x].credit = m.credit + 0
  BY SMT DEF Machines
<1>3. [Splat(m) EXCEPT !.sp = FromU16(x)] = Splat([m EXCEPT !.sp = x])
  BY <1>1, SplatRecord, SMT DEF Machines
<1> QED BY <1>1, <1>2, <1>3 DEF Lifts, Spends

LEMMA PcLifts ==
    ASSUME NEW m \in Machines, NEW x \in Word
    PROVE Lifts(m, [m EXCEPT !.pc = x], [Splat(m) EXCEPT !.pc = FromU16(x)], 0)
<1>1. [m EXCEPT !.pc = x] \in Machines
  BY SMT DEF Machines
<1>2. [m EXCEPT !.pc = x].clock = m.clock + 0 /\ [m EXCEPT !.pc = x].credit = m.credit + 0
  BY SMT DEF Machines
<1>3. [Splat(m) EXCEPT !.pc = FromU16(x)] = Splat([m EXCEPT !.pc = x])
  BY <1>1, SplatRecord, SMT DEF Machines
<1> QED BY <1>1, <1>2, <1>3 DEF Lifts, Spends

LEMMA MemLifts ==
    ASSUME NEW m \in Machines, NEW x \in Memories
    PROVE Lifts(m, [m EXCEPT !.mem = x], [Splat(m) EXCEPT !.mem = [l \in Lane |-> x]], 0)
<1>1. [m EXCEPT !.mem = x] \in Machines
  BY SMT DEF Machines
<1>2. [m EXCEPT !.mem = x].clock = m.clock + 0 /\ [m EXCEPT !.mem = x].credit = m.credit + 0
  BY SMT DEF Machines
<1>3. [Splat(m) EXCEPT !.mem = [l \in Lane |-> x]] = Splat([m EXCEPT !.mem = x])
  BY <1>1, SplatRecord, SMT DEF Machines
<1> QED BY <1>1, <1>2, <1>3 DEF Lifts, Spends

LEMMA RegisterLifts ==
    ASSUME NEW m \in Machines, NEW code \in S!Codes, NEW x \in Byte
    PROVE Lifts(m, [m EXCEPT !.r[code] = x], [Splat(m) EXCEPT !.r[code] = FromU8(x)], 0)
<1> DEFINE R == [m.r EXCEPT ![code] = x]
<1>1. R \in [S!Codes -> Byte]
  BY DEF Machines
<1>2. [m EXCEPT !.r = R] \in Machines
  BY <1>1, SMT DEF Machines
<1>3. [m EXCEPT !.r = R].clock = m.clock + 0 /\ [m EXCEPT !.r = R].credit = m.credit + 0
  BY SMT DEF Machines
<1>4. m.r \in [S!Codes -> Byte]
  BY DEF Machines
<1>5. Splat(m).r = [k \in S!Codes |-> FromU8(m.r[k])]
  BY SplatRecord
<1>6. [Splat(m).r EXCEPT ![code] = FromU8(x)] = [k \in S!Codes |-> FromU8(R[k])]
  BY <1>4, <1>5
<1> HIDE DEF R
<1>7. [Splat(m) EXCEPT !.r = [k \in S!Codes |-> FromU8(R[k])]] = Splat([m EXCEPT !.r = R])
  BY <1>2, SplatRecord, SMT DEF Machines
<1>8. [Splat(m) EXCEPT !.r[code] = FromU8(x)] = Splat([m EXCEPT !.r[code] = x])
  BY <1>6, <1>7, Zenon DEF R
<1> QED BY <1>2, <1>3, <1>8, Zenon DEF R, Lifts, Spends

(* One change after the other.                                             *)
LEMMA LiftsChain ==
    ASSUME NEW m \in Machines, NEW n, NEW k, NEW v, NEW w, NEW i \in Nat, NEW j \in Nat,
           Lifts(m, n, v, i), Lifts(n, k, w, j)
    PROVE Lifts(m, k, w, i + j)
<1>1. m.clock \in Nat /\ m.credit \in Nat /\ n \in Machines /\ k \in Machines
  BY DEF Machines, Lifts, Spends
<1> QED BY <1>1 DEF Lifts, Spends

LEMMA LiftsAfter ==
    ASSUME NEW m \in Machines, NEW n, NEW k, NEW v, NEW w, NEW i \in Nat,
           Lifts(m, n, v, i), Lifts(n, k, w, 0)
    PROVE Lifts(m, k, w, i)
<1>1. Lifts(m, k, w, i + 0)
  BY LiftsChain
<1>2. i + 0 = i
  OBVIOUS
<1> QED BY <1>1, <1>2, Zenon

LEMMA SetFlagsLifts ==
    ASSUME NEW m \in Machines,
           NEW z \in BOOLEAN, NEW n \in BOOLEAN, NEW h \in BOOLEAN, NEW c \in BOOLEAN
    PROVE Lifts(m, S!SetFlags(m, z, n, h, c), V!SetFlags(Splat(m), z, n, h, c), 0)
<1>1. PICK m1, v1 : m1 = [m EXCEPT !.z = z] /\ v1 = [Splat(m) EXCEPT !.z = z]
  OBVIOUS
<1>2. PICK m2, v2 : m2 = [m1 EXCEPT !.n = n] /\ v2 = [v1 EXCEPT !.n = n]
  OBVIOUS
<1>3. PICK m3, v3 : m3 = [m2 EXCEPT !.h = h] /\ v3 = [v2 EXCEPT !.h = h]
  OBVIOUS
<1>4. PICK m4, v4 : m4 = [m3 EXCEPT !.c = c] /\ v4 = [v3 EXCEPT !.c = c]
  OBVIOUS
<1>5. m1 \in Machines /\ v1 = Splat(m1) /\ Lifts(m, m1, v1, 0)
  BY <1>1, ZLifts DEF Lifts, Spends
<1>6. m2 \in Machines /\ v2 = Splat(m2) /\ Lifts(m1, m2, v2, 0)
  BY <1>2, <1>5, NLifts DEF Lifts, Spends
<1>7. m3 \in Machines /\ v3 = Splat(m3) /\ Lifts(m2, m3, v3, 0)
  BY <1>3, <1>6, HLifts DEF Lifts, Spends
<1>8. Lifts(m3, m4, v4, 0)
  BY <1>4, <1>7, CLifts DEF Lifts, Spends
<1>9. Lifts(m, m4, v4, 0)
  <2>1. Lifts(m, m2, v2, 0 + 0)
    BY <1>5, <1>6, LiftsChain
  <2>2. Lifts(m, m3, v3, 0 + 0)
    BY <2>1, <1>7, LiftsChain
  <2>3. Lifts(m, m4, v4, 0 + 0)
    BY <2>2, <1>8, LiftsChain
  <2> QED BY <2>3
<1>10. m4 = S!SetFlags(m, z, n, h, c) /\ v4 = V!SetFlags(Splat(m), z, n, h, c)
  BY <1>1, <1>2, <1>3, <1>4, Zenon DEF S!SetFlags, V!SetFlags
<1> QED BY <1>9, <1>10

(* Cycles given to the devices are the same for all lanes.                 *)
LEMMA ClockLifts ==
    ASSUME NEW m \in Machines, NEW x \in Nat
    PROVE /\ [m EXCEPT !.clock = x] \in Machines /\ [m EXCEPT !.credit = x] \in Machines
          /\ [Splat(m) EXCEPT !.clock = x] = Splat([m EXCEPT !.clock = x])
          /\ [Splat(m) EXCEPT !.credit = x] = Splat([m EXCEPT !.credit = x])
          /\ [m EXCEPT !.clock = x].clock = x /\ [m EXCEPT !.clock = x].credit = m.credit
          /\ [m EXCEPT !.credit = x].credit = x /\ [m EXCEPT !.credit = x].clock = m.clock
<1>1. [m EXCEPT !.clock = x] \in Machines
  BY SMT DEF Machines
<1>2. [m EXCEPT !.credit = x] \in Machines
  BY SMT DEF Machines
<1>3. [Splat(m) EXCEPT !.clock = x] = Splat([m EXCEPT !.clock = x])
  BY <1>1, SplatRecord, SMT DEF Machines
<1>4. [Splat(m) EXCEPT !.credit = x] = Splat([m EXCEPT !.credit = x])
  BY <1>2, SplatRecord, SMT DEF Machines
<1>5. /\ [m EXCEPT !.clock = x].clock = x /\ [m EXCEPT !.clock = x].credit = m.credit
      /\ [m EXCEPT !.credit = x].credit = x /\ [m EXCEPT !.credit = x].clock = m.clock
  BY SMT DEF Machines
<1> QED BY <1>1, <1>2, <1>3, <1>4, <1>5

LEMMA SplatFields ==
    ASSUME NEW m \in Machines
    PROVE /\ Splat(m).z = m.z /\ Splat(m).n = m.n /\ Splat(m).h = m.h /\ Splat(m).c = m.c
          /\ Splat(m).sp = FromU16(m.sp) /\ Splat(m).pc = FromU16(m.pc)
          /\ Splat(m).ime = m.ime /\ Splat(m).eiPending = m.eiPending
          /\ Splat(m).haltBug = m.haltBug /\ Splat(m).mem = [l \in Lane |-> m.mem]
          /\ Splat(m).clock = m.clock /\ Splat(m).credit = m.credit
BY SplatRecord

LEMMA MachineFields ==
    ASSUME NEW m \in Machines
    PROVE /\ m.z \in BOOLEAN /\ m.n \in BOOLEAN /\ m.h \in BOOLEAN /\ m.c \in BOOLEAN
          /\ m.sp \in Word /\ m.pc \in Word /\ m.mem \in Memories
          /\ m.eiPending \in BOOLEAN /\ m.clock \in Nat /\ m.credit \in Nat
BY DEF Machines

LEMMA RegisterValue ==
    ASSUME NEW m \in Machines, NEW code \in S!Codes
    PROVE m.r[code] \in Byte /\ Splat(m).r[code] = FromU8(m.r[code])
<1>1. m.r[code] \in Byte
  BY DEF Machines
<1>2. Splat(m).r = [k \in S!Codes |-> FromU8(m.r[k])]
  BY SplatRecord
<1> QED BY <1>1, <1>2

LEMMA SomeCodes ==
    /\ S!A = 7 /\ V!A = 7 /\ S!Indirect = 6 /\ V!Indirect = 6
    /\ 7 \in S!Codes /\ 1 \in S!Codes
    /\ \A rp \in 0 .. 2 : 2 * rp \in S!Codes /\ 2 * rp + 1 \in S!Codes
    /\ \A code \in 0 .. 7 : code # 6 => code \in S!Codes
BY DEF S!A, V!A, S!Indirect, V!Indirect, S!Codes

LEMMA PlusLifts ==
    ASSUME NEW x \in Word, NEW d \in Int
    PROVE S!Plus(x, d) \in Word /\ V!Plus(FromU16(x), d) = FromU16(S!Plus(x, d))
<1>1. x + d \in Int
  BY InWord
<1>2. AsWord(x + d) \in Word
  BY <1>1, LowBits
<1>3. S!Plus(x, d) = AsWord(x + d)
  BY SameLow, Zenon DEF S!Plus, Scalar!FromU16, Scalar!ToU16
<1>4. V!Plus(FromU16(x), d) = FromU16(AsWord(x + d))
  BY SameLow, LeavesLanes, Zenon DEF V!Plus
<1> QED BY <1>2, <1>3, <1>4

(* The register pairs.                                                     *)
LEMMA RegPairLifts ==
    ASSUME NEW m \in Machines, NEW rp \in 0 .. 2
    PROVE S!RegPair(m, rp) \in Word /\ V!RegPair(Splat(m), rp) = FromU16(S!RegPair(m, rp))
<1>1. 2 * rp \in S!Codes /\ 2 * rp + 1 \in S!Codes
  BY SomeCodes
<1> QED BY <1>1, RegisterValue, CombineLifts, Zenon DEF S!RegPair, V!RegPair

LEMMA HLLifts ==
    ASSUME NEW m \in Machines
    PROVE S!HL(m) \in Word /\ V!HL(Splat(m)) = FromU16(S!HL(m))
<1>1. 2 \in 0 .. 2
  OBVIOUS
<1> QED BY <1>1, RegPairLifts, Zenon DEF S!HL, V!HL

LEMMA SetRegPairLifts ==
    ASSUME NEW m \in Machines, NEW rp \in 0 .. 2, NEW x \in Word
    PROVE Lifts(m, S!SetRegPair(m, rp, x), V!SetRegPair(Splat(m), rp, FromU16(x)), 0)
<1>1. 2 * rp \in S!Codes /\ 2 * rp + 1 \in S!Codes
  BY SomeCodes
<1>2. PICK high, low, vhigh, vlow :
        /\ high = Scalar!SplitHi(x) /\ low = Scalar!SplitLo(x)
        /\ vhigh = SplitHi(FromU16(x)) /\ vlow = SplitLo(FromU16(x))
  OBVIOUS
<1>3. high \in Byte /\ low \in Byte /\ vhigh = FromU8(high) /\ vlow = FromU8(low)
  BY <1>2, SplitLifts
<1>4. PICK m1, v1 : m1 = [m EXCEPT !.r[2 * rp] = high] /\ v1 = [Splat(m) EXCEPT !.r[2 * rp] = vhigh]
  OBVIOUS
<1>5. PICK m2, v2 : /\ m2 = [m1 EXCEPT !.r[2 * rp + 1] = low]
                    /\ v2 = [v1 EXCEPT !.r[2 * rp + 1] = vlow]
  OBVIOUS
<1>6. Lifts(m, m1, v1, 0) /\ m1 \in Machines /\ v1 = Splat(m1)
  BY <1>1, <1>3, <1>4, RegisterLifts DEF Lifts, Spends
<1>7. Lifts(m1, m2, v2, 0)
  BY <1>1, <1>3, <1>5, <1>6, RegisterLifts
<1>8. Lifts(m, m2, v2, 0)
  <2>1. Lifts(m, m2, v2, 0 + 0)
    BY <1>6, <1>7, LiftsChain
  <2> QED BY <2>1
<1>9. m2 = S!SetRegPair(m, rp, x) /\ v2 = V!SetRegPair(Splat(m), rp, FromU16(x))
  BY <1>2, <1>4, <1>5, Zenon DEF S!SetRegPair, V!SetRegPair
<1> QED BY <1>8, <1>9

LEMMA WideLifts ==
    ASSUME NEW m \in Machines, NEW rp \in 0 .. 3
    PROVE S!Wide(m, rp) \in Word /\ V!Wide(Splat(m), rp) = FromU16(S!Wide(m, rp))
<1>1. CASE rp = 3
  BY <1>1, SplatFields, MachineFields DEF S!Wide, V!Wide
<1>2. CASE rp # 3
  <2>1. rp \in 0 .. 2
    BY <1>2
  <2> QED BY <1>2, <2>1, RegPairLifts DEF S!Wide, V!Wide
<1> QED BY <1>1, <1>2

LEMMA SetWideLifts ==
    ASSUME NEW m \in Machines, NEW rp \in 0 .. 3, NEW x \in Word
    PROVE Lifts(m, S!SetWide(m, rp, x), V!SetWide(Splat(m), rp, FromU16(x)), 0)
<1>1. CASE rp = 3
  BY <1>1, SpLifts, Zenon DEF S!SetWide, V!SetWide
<1>2. CASE rp # 3
  <2>1. rp \in 0 .. 2
    BY <1>2
  <2> QED BY <1>2, <2>1, SetRegPairLifts, Zenon DEF S!SetWide, V!SetWide
<1> QED BY <1>1, <1>2

(* AF, whose low byte is made of the flags.                                *)
LEMMA FlagByteLifts ==
    ASSUME NEW m \in Machines
    PROVE S!FlagByte(m) \in Byte /\ V!FlagByte(Splat(m)) = S!FlagByte(m)
<1>1. \A x \in {0, 1}, y \in {0, 1}, z \in {0, 1}, w \in {0, 1} :
        128 * x + 64 * y + 32 * z + 16 * w \in Byte
  BY InByte
<1>2. S!FlagByte(m) = 128 * Num(m.z) + 64 * Num(m.n) + 32 * Num(m.h) + 16 * Num(m.c)
  BY SameNum DEF S!FlagByte
<1>3. V!FlagByte(Splat(m)) = 128 * Num(m.z) + 64 * Num(m.n) + 32 * Num(m.h) + 16 * Num(m.c)
  BY SameNum, SplatFields DEF V!FlagByte
<1> QED BY <1>1, <1>2, <1>3, NumIs

LEMMA AFLifts ==
    ASSUME NEW m \in Machines
    PROVE S!AF(m) \in Word /\ V!AF(Splat(m)) = FromU16(S!AF(m))
<1>1. S!FlagByte(m) \in Byte /\ V!FlagByte(Splat(m)) = S!FlagByte(m)
  BY FlagByteLifts
<1>2. m.r[7] \in Byte /\ Splat(m).r[7] = FromU8(m.r[7])
  BY RegisterValue, SomeCodes
<1>3. S!AF(m) = Scalar!Combine(m.r[7], S!FlagByte(m))
  BY SomeCodes, Zenon DEF S!AF, Scalar!FromU8
<1>4. V!AF(Splat(m)) = Combine(FromU8(m.r[7]), FromU8(S!FlagByte(m)))
  BY <1>1, <1>2, SomeCodes, Zenon DEF V!AF
<1> QED BY <1>1, <1>2, <1>3, <1>4, CombineLifts

LEMMA SetAFLifts ==
    ASSUME NEW m \in Machines, NEW x \in Word
    PROVE Lifts(m, S!SetAF(m, x), V!SetAF(Splat(m), FromU16(x)), 0)
<1>1. PICK high, low, vhigh, vlow :
        /\ high = Scalar!SplitHi(x) /\ low = Scalar!SplitLo(x)
        /\ vhigh = SplitHi(FromU16(x)) /\ vlow = SplitLo(FromU16(x))
  OBVIOUS
<1>2. high \in Byte /\ low \in Byte /\ vhigh = FromU8(high) /\ vlow = FromU8(low)
  BY <1>1, SplitLifts
<1>3. PICK m1, v1 : m1 = [m EXCEPT !.r[7] = high] /\ v1 = [Splat(m) EXCEPT !.r[7] = vhigh]
  OBVIOUS
<1>4. Lifts(m, m1, v1, 0) /\ m1 \in Machines /\ v1 = Splat(m1)
  BY <1>2, <1>3, RegisterLifts, SomeCodes DEF Lifts, Spends
<1>5. Scalar!ToU8(low) = low /\ ToU8(vlow) = low
  BY <1>2, LeavesLanes DEF Scalar!ToU8
<1>6. S!SetAF(m, x) = S!SetFlags(m1, Bit(low, 128), Bit(low, 64), Bit(low, 32), Bit(low, 16))
  <2>1. S!SetAF(m, x) = S!WithFlagByte(m1, low)
    BY <1>1, <1>3, <1>5, SomeCodes, Zenon DEF S!SetAF
  <2> QED BY <2>1, SameBit, Zenon DEF S!WithFlagByte
<1>7. V!SetAF(Splat(m), FromU16(x))
          = V!SetFlags(v1, Bit(low, 128), Bit(low, 64), Bit(low, 32), Bit(low, 16))
  <2>1. V!SetAF(Splat(m), FromU16(x)) = V!WithFlagByte(v1, low)
    BY <1>1, <1>3, <1>5, SomeCodes, Zenon DEF V!SetAF
  <2> QED BY <2>1, SameBit, Zenon DEF V!WithFlagByte
<1>8. Lifts(m1, S!SetAF(m, x), V!SetAF(Splat(m), FromU16(x)), 0)
  BY <1>4, <1>6, <1>7, BitBoolean, SetFlagsLifts
<1>9. Lifts(m, S!SetAF(m, x), V!SetAF(Splat(m), FromU16(x)), 0 + 0)
  BY <1>4, <1>8, LiftsChain
<1> QED BY <1>9

(* The accesses, each of which costs its cycles: fetches, reads, writes and the*)
(* stack.                                                                  *)
LEMMA CreditedLifts ==
    ASSUME NEW m \in Machines
    PROVE Lifts(m, S!Credited(m), V!Credited(Splat(m)), 4)
<1>1. m.clock + 4 \in Nat /\ m.credit + 4 \in Nat
  BY MachineFields
<1>2. PICK m1, v1 : /\ m1 = [m EXCEPT !.clock = m.clock + 4]
                    /\ v1 = [Splat(m) EXCEPT !.clock = m.clock + 4]
  OBVIOUS
<1>3. m1 \in Machines /\ v1 = Splat(m1) /\ m1.clock = m.clock + 4 /\ m1.credit = m.credit
  BY <1>1, <1>2, ClockLifts
<1>4. PICK m2, v2 : /\ m2 = [m1 EXCEPT !.credit = m.credit + 4]
                    /\ v2 = [v1 EXCEPT !.credit = m.credit + 4]
  OBVIOUS
<1>5. m2 \in Machines /\ v2 = Splat(m2) /\ m2.clock = m.clock + 4 /\ m2.credit = m.credit + 4
  BY <1>1, <1>3, <1>4, ClockLifts
<1>6. v1.credit = m.credit /\ Splat(m).clock = m.clock
  BY <1>3, SplatFields
<1>7. S!Credited(m) = m2
  BY <1>2, <1>3, <1>4, Zenon DEF S!Credited, S!Consume
<1>8. V!Credited(Splat(m)) = v2
  BY <1>2, <1>4, <1>6, Zenon DEF V!Credited, V!Consume
<1> QED BY <1>5, <1>7, <1>8 DEF Lifts, Spends

LEMMA Fetch8Reads ==
    ASSUME NEW m \in Machines
    PROVE Reads8(m, S!Fetch8(m), V!Fetch8(Splat(m)), 0)
<1>1. PICK pc, vpc :
        /\ pc = IF m.haltBug THEN m.pc ELSE S!Plus(m.pc, 1)
        /\ vpc = IF Splat(m).haltBug THEN Splat(m).pc ELSE V!Plus(Splat(m).pc, 1)
  OBVIOUS
<1>2. pc \in Word /\ vpc = FromU16(pc)
  BY <1>1, MachineFields, SplatFields, PlusLifts
<1>3. PICK m1, v1 : m1 = [m EXCEPT !.pc = pc] /\ v1 = [Splat(m) EXCEPT !.pc = vpc]
  OBVIOUS
<1>4. Lifts(m, m1, v1, 0) /\ m1 \in Machines /\ v1 = Splat(m1)
  BY <1>2, <1>3, PcLifts DEF Lifts, Spends
<1>5. PICK m2, v2 : m2 = [m1 EXCEPT !.haltBug = FALSE] /\ v2 = [v1 EXCEPT !.haltBug = FALSE]
  OBVIOUS
<1>6. Lifts(m1, m2, v2, 0)
  BY <1>4, <1>5, HaltBugLifts
<1>7. Lifts(m, m2, v2, 0)
  <2>1. Lifts(m, m2, v2, 0 + 0)
    BY <1>4, <1>6, LiftsChain
  <2> QED BY <2>1
<1>8. S!Fetch8(m) = [value |-> Scalar!Load(m.mem, m.pc), m |-> m2]
  BY <1>1, <1>3, <1>5, Zenon DEF S!Fetch8
<1>9. V!Fetch8(Splat(m)) = [value |-> Load(Splat(m).mem, Splat(m).pc), m |-> v2]
  BY <1>1, <1>3, <1>5, Zenon DEF V!Fetch8
<1>10. /\ Scalar!Load(m.mem, m.pc) \in Byte
       /\ Load(Splat(m).mem, Splat(m).pc) = FromU8(Scalar!Load(m.mem, m.pc))
  BY MachineFields, SplatFields, LoadLifts
<1> QED BY <1>7, <1>8, <1>9, <1>10 DEF Reads8

LEMMA FetchImm8Reads ==
    ASSUME NEW m \in Machines
    PROVE Reads8(m, S!FetchImm8(m), V!FetchImm8(Splat(m)), 4)
<1>1. PICK f, g : f = S!Fetch8(m) /\ g = V!Fetch8(Splat(m))
  OBVIOUS
<1>2. Reads8(m, f, g, 0)
  BY <1>1, Fetch8Reads
<1>3. f.m \in Machines /\ g.m = Splat(f.m)
  BY <1>2 DEF Reads8, Lifts, Spends
<1>4. Lifts(f.m, S!Credited(f.m), V!Credited(g.m), 4)
  BY <1>3, CreditedLifts
<1>5. Lifts(m, S!Credited(f.m), V!Credited(g.m), 4)
  <2>1. Lifts(m, S!Credited(f.m), V!Credited(g.m), 0 + 4)
    BY <1>2, <1>4, LiftsChain DEF Reads8
  <2> QED BY <2>1
<1>6. S!FetchImm8(m).m = S!Credited(f.m) /\ S!FetchImm8(m).value = f.value
  BY <1>1 DEF S!FetchImm8, S!Fetch8
<1>7. V!FetchImm8(Splat(m)).m = V!Credited(g.m) /\ V!FetchImm8(Splat(m)).value = g.value
  BY <1>1 DEF V!FetchImm8, V!Fetch8
<1> QED BY <1>2, <1>5, <1>6, <1>7 DEF Reads8

LEMMA FetchImm8Shape ==
    ASSUME NEW m
    PROVE /\ S!FetchImm8(m) = [value |-> S!FetchImm8(m).value, m |-> S!FetchImm8(m).m]
          /\ V!FetchImm8(m) = [value |-> V!FetchImm8(m).value, m |-> V!FetchImm8(m).m]
BY DEF S!FetchImm8, S!Fetch8, V!FetchImm8, V!Fetch8

LEMMA FetchImm16Reads ==
    ASSUME NEW m \in Machines
    PROVE Reads16(m, S!FetchImm16(m), V!FetchImm16(Splat(m)), 8)
<1>1. PICK f, g : f = S!FetchImm8(m) /\ g = V!FetchImm8(Splat(m))
  OBVIOUS
<1>2. Reads8(m, f, g, 4)
  BY <1>1, FetchImm8Reads
<1>3. f.m \in Machines /\ g.m = Splat(f.m)
  BY <1>2 DEF Reads8, Lifts, Spends
<1>4. PICK a, b : a = S!FetchImm8(f.m) /\ b = V!FetchImm8(g.m)
  OBVIOUS
<1>5. Reads8(f.m, a, b, 4)
  BY <1>3, <1>4, FetchImm8Reads
<1>6. Lifts(m, a.m, b.m, 8)
  <2>1. Lifts(m, a.m, b.m, 4 + 4)
    BY <1>2, <1>5, LiftsChain DEF Reads8
  <2> QED BY <2>1
<1>7. /\ a = [value |-> a.value, m |-> a.m] /\ b = [value |-> b.value, m |-> b.m]
  BY <1>4, FetchImm8Shape
<1>8. S!FetchImm16(m) = [a EXCEPT !.value = Scalar!Combine(a.value, f.value)]
  BY <1>1, <1>4, Zenon DEF S!FetchImm16, S!Then
<1>9. V!FetchImm16(Splat(m)) = [b EXCEPT !.value = Combine(b.value, g.value)]
  BY <1>1, <1>4, Zenon DEF V!FetchImm16, V!Then
<1>10. S!FetchImm16(m).m = a.m /\ S!FetchImm16(m).value = Scalar!Combine(a.value, f.value)
  BY <1>7, <1>8
<1>11. V!FetchImm16(Splat(m)).m = b.m /\ V!FetchImm16(Splat(m)).value = Combine(b.value, g.value)
  BY <1>7, <1>9
<1> QED BY <1>2, <1>5, <1>6, <1>10, <1>11, CombineLifts DEF Reads8, Reads16

LEMMA Read8Reads ==
    ASSUME NEW m \in Machines, NEW addr \in Word
    PROVE Reads8(m, S!Read8(m, addr), V!Read8(Splat(m), FromU16(addr)), 4)
<1>1. /\ Scalar!Load(m.mem, addr) \in Byte
      /\ Load(Splat(m).mem, FromU16(addr)) = FromU8(Scalar!Load(m.mem, addr))
  BY MachineFields, SplatFields, LoadLifts
<1> QED BY <1>1, CreditedLifts DEF Reads8, S!Read8, V!Read8

LEMMA Write8Lifts ==
    ASSUME NEW m \in Machines, NEW addr \in Word, NEW x \in Byte
    PROVE Lifts(m, S!Write8(m, addr, x), V!Write8(Splat(m), FromU16(addr), FromU8(x)), 4)
<1>1. PICK mem, vmem :
        mem = Scalar!Store(m.mem, addr, x) /\ vmem = Store(Splat(m).mem, FromU16(addr), FromU8(x))
  OBVIOUS
<1>2. mem \in Memories /\ vmem = [l \in Lane |-> mem]
  <2>1. m.mem \in Memories /\ Splat(m).mem = [l \in Lane |-> m.mem]
    BY MachineFields, SplatFields
  <2>2. /\ Store([l \in Lane |-> m.mem], FromU16(addr), FromU8(x))
             = [l \in Lane |-> Scalar!Store(m.mem, addr, x)]
        /\ Scalar!Store(m.mem, addr, x) \in Memories
    BY <2>1, StoreLifts
  <2> QED BY <1>1, <2>1, <2>2, Zenon
<1>3. PICK n, v : n = [m EXCEPT !.mem = mem] /\ v = [Splat(m) EXCEPT !.mem = vmem]
  OBVIOUS
<1>4. Lifts(m, n, v, 0) /\ n \in Machines /\ v = Splat(n)
  BY <1>2, <1>3, MemLifts DEF Lifts, Spends
<1>5. Lifts(n, S!Credited(n), V!Credited(v), 4)
  BY <1>4, CreditedLifts
<1>6. Lifts(m, S!Credited(n), V!Credited(v), 0 + 4)
  BY <1>4, <1>5, LiftsChain
<1>7. S!Write8(m, addr, x) = S!Credited(n)
  BY <1>1, <1>3, Zenon DEF S!Write8
<1>8. V!Write8(Splat(m), FromU16(addr), FromU8(x)) = V!Credited(v)
  BY <1>1, <1>3, Zenon DEF V!Write8
<1> QED BY <1>6, <1>7, <1>8

LEMMA Push8Lifts ==
    ASSUME NEW m \in Machines, NEW x \in Byte
    PROVE Lifts(m, S!Push8(m, x), V!Push8(Splat(m), FromU8(x)), 0)
<1>1. PICK sp, vsp : sp = S!Plus(m.sp, -1) /\ vsp = V!Plus(Splat(m).sp, -1)
  OBVIOUS
<1>2. sp \in Word /\ vsp = FromU16(sp)
  BY <1>1, MachineFields, SplatFields, PlusLifts
<1>3. PICK mem, vmem :
        mem = Scalar!Store(m.mem, sp, x) /\ vmem = Store(Splat(m).mem, vsp, FromU8(x))
  OBVIOUS
<1>4. mem \in Memories /\ vmem = [l \in Lane |-> mem]
  <2>1. m.mem \in Memories /\ Splat(m).mem = [l \in Lane |-> m.mem]
    BY MachineFields, SplatFields
  <2>2. /\ Store([l \in Lane |-> m.mem], FromU16(sp), FromU8(x))
             = [l \in Lane |-> Scalar!Store(m.mem, sp, x)]
        /\ Scalar!Store(m.mem, sp, x) \in Memories
    BY <1>2, <2>1, StoreLifts
  <2> QED BY <1>2, <1>3, <2>1, <2>2, Zenon
<1>5. PICK n, v : n = [m EXCEPT !.mem = mem] /\ v = [Splat(m) EXCEPT !.mem = vmem]
  OBVIOUS
<1>6. Lifts(m, n, v, 0) /\ n \in Machines /\ v = Splat(n)
  BY <1>4, <1>5, MemLifts DEF Lifts, Spends
<1>7. PICK k, w : k = [n EXCEPT !.sp = sp] /\ w = [v EXCEPT !.sp = vsp]
  OBVIOUS
<1>8. Lifts(n, k, w, 0)
  BY <1>2, <1>6, <1>7, SpLifts
<1>9. Lifts(m, k, w, 0 + 0)
  BY <1>6, <1>8, LiftsChain
<1>10. n.sp = m.sp
  BY <1>5 DEF Machines
<1>11. v.sp = Splat(m).sp
  BY <1>6, <1>10, SplatFields
<1>12. S!Push8(m, x) = k
  BY <1>1, <1>3, <1>5, <1>7, <1>10, Zenon DEF S!Push8
<1>13. V!Push8(Splat(m), FromU8(x)) = w
  BY <1>1, <1>3, <1>5, <1>7, <1>11, Zenon DEF V!Push8
<1> QED BY <1>9, <1>12, <1>13

LEMMA Push16Lifts ==
    ASSUME NEW m \in Machines, NEW x \in Word
    PROVE Lifts(m, S!Push16(m, x), V!Push16(Splat(m), FromU16(x)), 0)
<1>1. PICK high, low, vhigh, vlow :
        /\ high = Scalar!SplitHi(x) /\ low = Scalar!SplitLo(x)
        /\ vhigh = SplitHi(FromU16(x)) /\ vlow = SplitLo(FromU16(x))
  OBVIOUS
<1>2. high \in Byte /\ low \in Byte /\ vhigh = FromU8(high) /\ vlow = FromU8(low)
  BY <1>1, SplitLifts
<1>3. PICK n, v : n = S!Push8(m, high) /\ v = V!Push8(Splat(m), vhigh)
  OBVIOUS
<1>4. Lifts(m, n, v, 0) /\ n \in Machines /\ v = Splat(n)
  BY <1>2, <1>3, Push8Lifts DEF Lifts, Spends
<1>5. Lifts(n, S!Push8(n, low), V!Push8(v, vlow), 0)
  BY <1>2, <1>4, Push8Lifts
<1>6. Lifts(m, S!Push8(n, low), V!Push8(v, vlow), 0 + 0)
  BY <1>4, <1>5, LiftsChain
<1> QED BY <1>1, <1>3, <1>6 DEF S!Push16, V!Push16

LEMMA Pop16Reads ==
    ASSUME NEW m \in Machines
    PROVE Reads16(m, S!Pop16(m), V!Pop16(Splat(m)), 0)
<1>1. PICK next, vnext : next = S!Plus(m.sp, 1) /\ vnext = V!Plus(Splat(m).sp, 1)
  OBVIOUS
<1>2. PICK sp, vsp : sp = S!Plus(m.sp, 2) /\ vsp = V!Plus(Splat(m).sp, 2)
  OBVIOUS
<1>3. next \in Word /\ vnext = FromU16(next) /\ sp \in Word /\ vsp = FromU16(sp)
  BY <1>1, <1>2, MachineFields, SplatFields, PlusLifts
<1>4. PICK high, low, vhigh, vlow :
        /\ high = Scalar!Load(m.mem, next) /\ low = Scalar!Load(m.mem, m.sp)
        /\ vhigh = Load(Splat(m).mem, vnext) /\ vlow = Load(Splat(m).mem, Splat(m).sp)
  OBVIOUS
<1>5. high \in Byte /\ low \in Byte /\ vhigh = FromU8(high) /\ vlow = FromU8(low)
  BY <1>3, <1>4, LoadLifts, MachineFields, SplatFields
<1>6. Lifts(m, [m EXCEPT !.sp = sp], [Splat(m) EXCEPT !.sp = vsp], 0)
  BY <1>3, SpLifts
<1>7. S!Pop16(m) = [value |-> Scalar!Combine(high, low), m |-> [m EXCEPT !.sp = sp]]
  BY <1>1, <1>2, <1>4, Zenon DEF S!Pop16
<1>8. V!Pop16(Splat(m)) = [value |-> Combine(vhigh, vlow), m |-> [Splat(m) EXCEPT !.sp = vsp]]
  BY <1>1, <1>2, <1>4, Zenon DEF V!Pop16
<1>9. /\ S!Pop16(m).value = Scalar!Combine(high, low) /\ S!Pop16(m).m = [m EXCEPT !.sp = sp]
      /\ V!Pop16(Splat(m)).value = Combine(vhigh, vlow)
      /\ V!Pop16(Splat(m)).m = [Splat(m) EXCEPT !.sp = vsp]
  BY <1>7, <1>8
<1> QED BY <1>5, <1>6, <1>9, CombineLifts, Zenon DEF Reads16

(* The operand of a register code, memory at HL for code 6.                *)
LEMMA ReadR8Reads ==
    ASSUME NEW m \in Machines, NEW code \in 0 .. 7
    PROVE Reads8(m, S!ReadR8(m, code), V!ReadR8(Splat(m), code), S!Extra(code))
<1>1. CASE code = 6
  <2>1. Reads8(m, S!Read8(m, S!HL(m)), V!Read8(Splat(m), V!HL(Splat(m))), 4)
    BY HLLifts, Read8Reads
  <2> QED BY <1>1, <2>1, SomeCodes, Zenon DEF S!ReadR8, V!ReadR8, S!Extra
<1>2. CASE code # 6
  <2>1. code \in S!Codes
    BY <1>2, SomeCodes
  <2>2. Lifts(m, m, Splat(m), 0)
    BY MachineFields DEF Lifts, Spends
  <2>3. m.r[code] \in Byte /\ Splat(m).r[code] = FromU8(m.r[code])
    BY <2>1, RegisterValue
  <2>4. /\ S!ReadR8(m, code) = [value |-> m.r[code], m |-> m]
        /\ V!ReadR8(Splat(m), code) = [value |-> Splat(m).r[code], m |-> Splat(m)]
        /\ S!Extra(code) = 0
    BY <1>2, SomeCodes DEF S!ReadR8, V!ReadR8, S!Extra
  <2> QED BY <2>2, <2>3, <2>4 DEF Reads8
<1> QED BY <1>1, <1>2

LEMMA WriteR8Lifts ==
    ASSUME NEW m \in Machines, NEW code \in 0 .. 7, NEW x \in Byte
    PROVE Lifts(m, S!WriteR8(m, code, x), V!WriteR8(Splat(m), code, FromU8(x)), S!Extra(code))
<1>1. CASE code = 6
  <2>1. Lifts(m, S!Write8(m, S!HL(m), x), V!Write8(Splat(m), V!HL(Splat(m)), FromU8(x)), 4)
    BY HLLifts, Write8Lifts
  <2> QED BY <1>1, <2>1, SomeCodes, Zenon DEF S!WriteR8, V!WriteR8, S!Extra
<1>2. CASE code # 6
  <2>1. code \in S!Codes
    BY <1>2, SomeCodes
  <2> QED BY <1>2, <2>1, SomeCodes, RegisterLifts, Zenon DEF S!WriteR8, V!WriteR8, S!Extra
<1> QED BY <1>1, <1>2

(* Conditions and what they cost read the flags the lanes share.           *)
LEMMA SameCond ==
    ASSUME NEW m \in Machines, NEW cc \in 0 .. 3
    PROVE V!Cond(Splat(m), cc) = S!Cond(m, cc)
BY SplatFields DEF V!Cond, S!Cond

LEMMA SameExtra ==
    ASSUME NEW code PROVE V!Extra(code) = S!Extra(code) /\ S!Extra(code) \in {0, 4}
BY DEF V!Extra, S!Extra, V!Indirect, S!Indirect

(* From a machine and the cycles spent so far to an instruction that reports*)
(* them.                                                                   *)
LEMMA Paid ==
    ASSUME NEW m \in Machines, NEW n, NEW v, NEW i \in Nat, NEW cost \in Nat,
           Lifts(m, n, v, i), i + 4 <= cost
    PROVE Pays(m, S!Done(n, cost), V!Done(v, cost))
BY DEF Pays, S!Done, V!Done

LEMMA Free ==
    ASSUME NEW m \in Machines, NEW n, NEW v, Lifts(m, n, v, 0)
    PROVE Pays(m, S!Done(n, 4), V!Done(v, 4))
BY Paid

LEMMA Paid8 ==
    ASSUME NEW m \in Machines, NEW f, NEW g, NEW n, NEW v, NEW i \in Nat, NEW j \in Nat,
           NEW cost \in Nat,
           Reads8(m, f, g, i), Lifts(f.m, n, v, j), i + j + 4 <= cost
    PROVE Pays(m, S!Done(n, cost), V!Done(v, cost))
<1>1. Lifts(m, n, v, i + j)
  BY LiftsChain DEF Reads8
<1> QED BY <1>1, Paid

LEMMA Paid16 ==
    ASSUME NEW m \in Machines, NEW f, NEW g, NEW n, NEW v, NEW i \in Nat, NEW j \in Nat,
           NEW cost \in Nat,
           Reads16(m, f, g, i), Lifts(f.m, n, v, j), i + j + 4 <= cost
    PROVE Pays(m, S!Done(n, cost), V!Done(v, cost))
<1>1. Lifts(m, n, v, i + j)
  BY LiftsChain DEF Reads16
<1> QED BY <1>1, Paid

LEMMA Accumulator ==
    ASSUME NEW m \in Machines
    PROVE m.r[S!A] \in Byte /\ Splat(m).r[V!A] = FromU8(m.r[S!A])
BY RegisterValue, SomeCodes

LEMMA SetALifts ==
    ASSUME NEW m \in Machines, NEW x \in Byte
    PROVE Lifts(m, [m EXCEPT !.r[S!A] = x], [Splat(m) EXCEPT !.r[V!A] = FromU8(x)], 0)
BY RegisterLifts, SomeCodes, Zenon

LEMMA LoadALifts ==
    ASSUME NEW m \in Machines, NEW addr \in Word
    PROVE Lifts(m, S!LoadA(m, addr), V!LoadA(Splat(m), FromU16(addr)), 4)
<1>1. PICK f, g : f = S!Read8(m, addr) /\ g = V!Read8(Splat(m), FromU16(addr))
  OBVIOUS
<1>2. Reads8(m, f, g, 4)
  BY <1>1, Read8Reads
<1>3. f.m \in Machines /\ g.m = Splat(f.m) /\ f.value \in Byte /\ g.value = FromU8(f.value)
  BY <1>2 DEF Reads8, Lifts, Spends
<1>4. Lifts(f.m, [f.m EXCEPT !.r[S!A] = f.value], [g.m EXCEPT !.r[V!A] = g.value], 0)
  BY <1>3, SetALifts
<1>5. Lifts(m, [f.m EXCEPT !.r[S!A] = f.value], [g.m EXCEPT !.r[V!A] = g.value], 4 + 0)
  BY <1>2, <1>4, LiftsChain DEF Reads8
<1>6. S!LoadA(m, addr) = [f.m EXCEPT !.r[S!A] = f.value]
  BY <1>1, Zenon DEF S!LoadA, S!Then
<1>7. V!LoadA(Splat(m), FromU16(addr)) = [g.m EXCEPT !.r[V!A] = g.value]
  BY <1>1, Zenon DEF V!LoadA, V!Then
<1> QED BY <1>5, <1>6, <1>7

LEMMA HighAddressLifts ==
    ASSUME NEW x \in Byte
    PROVE S!HighAddress(x) \in Word /\ V!HighAddress(FromU8(x)) = FromU16(S!HighAddress(x))
<1>1. 65280 + x \in Word
  BY InByte, InWord
<1>2. S!HighAddress(x) = 65280 + x
  BY DEF S!HighAddress, S!HighPage, Scalar!FromU16, Scalar!ToU8
<1>3. V!HighAddress(FromU8(x)) = FromU16(65280 + x)
  BY LeavesLanes DEF V!HighAddress, V!HighPage
<1> QED BY <1>1, <1>2, <1>3

LEMMA StepHlLifts ==
    ASSUME NEW m \in Machines, NEW d \in Int
    PROVE Lifts(m, S!StepHl(m, d), V!StepHl(Splat(m), d), 0)
<1>1. 2 \in 0 .. 2
  OBVIOUS
<1> QED BY <1>1, HLLifts, PlusLifts, SetRegPairLifts DEF S!StepHl, V!StepHl

(* The loads.                                                              *)
LEMMA LdRrD16Pays ==
    ASSUME NEW m \in Machines, NEW rp \in 0 .. 3
    PROVE Pays(m, S!LdRrD16(m, rp), V!LdRrD16(Splat(m), rp))
<1>1. PICK f, g : f = S!FetchImm16(m) /\ g = V!FetchImm16(Splat(m))
  OBVIOUS
<1>2. Reads16(m, f, g, 8)
  BY <1>1, FetchImm16Reads
<1>3. f.m \in Machines /\ g.m = Splat(f.m) /\ f.value \in Word /\ g.value = FromU16(f.value)
  BY <1>2 DEF Reads16, Lifts, Spends
<1>4. Lifts(f.m, S!SetWide(f.m, rp, f.value),
            V!SetWide(g.m, rp, g.value), 0)
  BY <1>3, SetWideLifts
<1>5. S!LdRrD16(m, rp) = S!Done(S!SetWide(f.m, rp, f.value), 12)
  BY <1>1, Zenon DEF S!LdRrD16, S!Then
<1>6. V!LdRrD16(Splat(m), rp) = V!Done(V!SetWide(g.m, rp, g.value), 12)
  BY <1>1, Zenon DEF V!LdRrD16, V!Then
<1> QED BY <1>2, <1>4, <1>5, <1>6, Paid16

LEMMA LdMemRrAPays ==
    ASSUME NEW m \in Machines, NEW rp \in 0 .. 2
    PROVE Pays(m, S!LdMemRrA(m, rp), V!LdMemRrA(Splat(m), rp))
<1>1. Lifts(m, S!Write8(m, S!RegPair(m, rp), m.r[S!A]),
            V!Write8(Splat(m), V!RegPair(Splat(m), rp), Splat(m).r[V!A]), 4)
  BY RegPairLifts, Accumulator, Write8Lifts
<1>2. Pays(m, S!Done(S!Write8(m, S!RegPair(m, rp), m.r[S!A]), 8),
           V!Done(V!Write8(Splat(m), V!RegPair(Splat(m), rp), Splat(m).r[V!A]), 8))
  BY <1>1, Paid
<1> QED BY <1>2, Zenon DEF S!LdMemRrA, V!LdMemRrA

LEMMA LdAMemRrPays ==
    ASSUME NEW m \in Machines, NEW rp \in 0 .. 2
    PROVE Pays(m, S!LdAMemRr(m, rp), V!LdAMemRr(Splat(m), rp))
<1>1. Lifts(m, S!LoadA(m, S!RegPair(m, rp)), V!LoadA(Splat(m), V!RegPair(Splat(m), rp)), 4)
  BY RegPairLifts, LoadALifts
<1>2. Pays(m, S!Done(S!LoadA(m, S!RegPair(m, rp)), 8),
           V!Done(V!LoadA(Splat(m), V!RegPair(Splat(m), rp)), 8))
  BY <1>1, Paid
<1> QED BY <1>2, Zenon DEF S!LdAMemRr, V!LdAMemRr

LEMMA LdHlD8Pays ==
    ASSUME NEW m \in Machines
    PROVE Pays(m, S!LdHlD8(m), V!LdHlD8(Splat(m)))
<1>1. PICK f, g : f = S!FetchImm8(m) /\ g = V!FetchImm8(Splat(m))
  OBVIOUS
<1>2. Reads8(m, f, g, 4)
  BY <1>1, FetchImm8Reads
<1>3. f.m \in Machines /\ g.m = Splat(f.m) /\ f.value \in Byte /\ g.value = FromU8(f.value)
  BY <1>2 DEF Reads8, Lifts, Spends
<1>4. Lifts(f.m, S!Write8(f.m, S!HL(f.m), f.value),
            V!Write8(g.m, V!HL(g.m), g.value), 4)
  BY <1>3, HLLifts, Write8Lifts
<1>5. S!LdHlD8(m) = S!Done(S!Write8(f.m, S!HL(f.m), f.value), 12)
  BY <1>1, Zenon DEF S!LdHlD8, S!Then
<1>6. V!LdHlD8(Splat(m)) = V!Done(V!Write8(g.m, V!HL(g.m), g.value), 12)
  BY <1>1, Zenon DEF V!LdHlD8, V!Then
<1> QED BY <1>2, <1>4, <1>5, <1>6, Paid8

LEMMA LdhA8APays ==
    ASSUME NEW m \in Machines
    PROVE Pays(m, S!LdhA8A(m), V!LdhA8A(Splat(m)))
<1>1. PICK f, g : f = S!FetchImm8(m) /\ g = V!FetchImm8(Splat(m))
  OBVIOUS
<1>2. Reads8(m, f, g, 4)
  BY <1>1, FetchImm8Reads
<1>3. f.m \in Machines /\ g.m = Splat(f.m) /\ f.value \in Byte /\ g.value = FromU8(f.value)
  BY <1>2 DEF Reads8, Lifts, Spends
<1>4. Lifts(f.m, S!Write8(f.m, S!HighAddress(f.value), f.m.r[S!A]),
            V!Write8(g.m, V!HighAddress(g.value), g.m.r[V!A]), 4)
  BY <1>3, HighAddressLifts, Accumulator, Write8Lifts
<1>5. S!LdhA8A(m) = S!Done(S!Write8(f.m, S!HighAddress(f.value), f.m.r[S!A]), 12)
  BY <1>1, Zenon DEF S!LdhA8A, S!Then
<1>6. V!LdhA8A(Splat(m)) = V!Done(V!Write8(g.m, V!HighAddress(g.value), g.m.r[V!A]), 12)
  BY <1>1, Zenon DEF V!LdhA8A, V!Then
<1> QED BY <1>2, <1>4, <1>5, <1>6, Paid8

LEMMA LdhAA8Pays ==
    ASSUME NEW m \in Machines
    PROVE Pays(m, S!LdhAA8(m), V!LdhAA8(Splat(m)))
<1>1. PICK f, g : f = S!FetchImm8(m) /\ g = V!FetchImm8(Splat(m))
  OBVIOUS
<1>2. Reads8(m, f, g, 4)
  BY <1>1, FetchImm8Reads
<1>3. f.m \in Machines /\ g.m = Splat(f.m) /\ f.value \in Byte /\ g.value = FromU8(f.value)
  BY <1>2 DEF Reads8, Lifts, Spends
<1>4. Lifts(f.m, S!LoadA(f.m, S!HighAddress(f.value)),
            V!LoadA(g.m, V!HighAddress(g.value)), 4)
  BY <1>3, HighAddressLifts, LoadALifts
<1>5. S!LdhAA8(m) = S!Done(S!LoadA(f.m, S!HighAddress(f.value)), 12)
  BY <1>1, Zenon DEF S!LdhAA8, S!Then
<1>6. V!LdhAA8(Splat(m)) = V!Done(V!LoadA(g.m, V!HighAddress(g.value)), 12)
  BY <1>1, Zenon DEF V!LdhAA8, V!Then
<1> QED BY <1>2, <1>4, <1>5, <1>6, Paid8

LEMMA LdhCAPays ==
    ASSUME NEW m \in Machines
    PROVE Pays(m, S!LdhCA(m), V!LdhCA(Splat(m)))
<1>1. Lifts(m, S!Write8(m, S!HighAddress(m.r[1]), m.r[S!A]),
            V!Write8(Splat(m), V!HighAddress(Splat(m).r[1]), Splat(m).r[V!A]), 4)
  BY SomeCodes, RegisterValue, HighAddressLifts, Accumulator, Write8Lifts
<1>2. Pays(m, S!Done(S!Write8(m, S!HighAddress(m.r[1]), m.r[S!A]), 8),
           V!Done(V!Write8(Splat(m), V!HighAddress(Splat(m).r[1]), Splat(m).r[V!A]), 8))
  BY <1>1, Paid
<1> QED BY <1>2, Zenon DEF S!LdhCA, V!LdhCA

LEMMA LdhACPays ==
    ASSUME NEW m \in Machines
    PROVE Pays(m, S!LdhAC(m), V!LdhAC(Splat(m)))
<1>1. Lifts(m, S!LoadA(m, S!HighAddress(m.r[1])),
            V!LoadA(Splat(m), V!HighAddress(Splat(m).r[1])), 4)
  BY SomeCodes, RegisterValue, HighAddressLifts, LoadALifts
<1>2. Pays(m, S!Done(S!LoadA(m, S!HighAddress(m.r[1])), 8),
           V!Done(V!LoadA(Splat(m), V!HighAddress(Splat(m).r[1])), 8))
  BY <1>1, Paid
<1> QED BY <1>2, Zenon DEF S!LdhAC, V!LdhAC

LEMMA LdAA16Pays ==
    ASSUME NEW m \in Machines
    PROVE Pays(m, S!LdAA16(m), V!LdAA16(Splat(m)))
<1>1. PICK f, g : f = S!FetchImm16(m) /\ g = V!FetchImm16(Splat(m))
  OBVIOUS
<1>2. Reads16(m, f, g, 8)
  BY <1>1, FetchImm16Reads
<1>3. f.m \in Machines /\ g.m = Splat(f.m) /\ f.value \in Word /\ g.value = FromU16(f.value)
  BY <1>2 DEF Reads16, Lifts, Spends
<1>4. Lifts(f.m, S!LoadA(f.m, f.value),
            V!LoadA(g.m, g.value), 4)
  BY <1>3, LoadALifts
<1>5. S!LdAA16(m) = S!Done(S!LoadA(f.m, f.value), 16)
  BY <1>1, Zenon DEF S!LdAA16, S!Then
<1>6. V!LdAA16(Splat(m)) = V!Done(V!LoadA(g.m, g.value), 16)
  BY <1>1, Zenon DEF V!LdAA16, V!Then
<1> QED BY <1>2, <1>4, <1>5, <1>6, Paid16

LEMMA LdA16APays ==
    ASSUME NEW m \in Machines
    PROVE Pays(m, S!LdA16A(m), V!LdA16A(Splat(m)))
<1>1. PICK f, g : f = S!FetchImm16(m) /\ g = V!FetchImm16(Splat(m))
  OBVIOUS
<1>2. Reads16(m, f, g, 8)
  BY <1>1, FetchImm16Reads
<1>3. f.m \in Machines /\ g.m = Splat(f.m) /\ f.value \in Word /\ g.value = FromU16(f.value)
  BY <1>2 DEF Reads16, Lifts, Spends
<1>4. Lifts(f.m, S!Write8(f.m, f.value, f.m.r[S!A]),
            V!Write8(g.m, g.value, g.m.r[V!A]), 4)
  BY <1>3, Accumulator, Write8Lifts
<1>5. S!LdA16A(m) = S!Done(S!Write8(f.m, f.value, f.m.r[S!A]), 16)
  BY <1>1, Zenon DEF S!LdA16A, S!Then
<1>6. V!LdA16A(Splat(m)) = V!Done(V!Write8(g.m, g.value, g.m.r[V!A]), 16)
  BY <1>1, Zenon DEF V!LdA16A, V!Then
<1> QED BY <1>2, <1>4, <1>5, <1>6, Paid16

LEMMA LdSpHlPays ==
    ASSUME NEW m \in Machines
    PROVE Pays(m, S!LdSpHl(m), V!LdSpHl(Splat(m)))
<1>1. Lifts(m, [m EXCEPT !.sp = S!HL(m)], [Splat(m) EXCEPT !.sp = V!HL(Splat(m))], 0)
  BY HLLifts, SpLifts
<1>2. Pays(m, S!Done([m EXCEPT !.sp = S!HL(m)], 8),
           V!Done([Splat(m) EXCEPT !.sp = V!HL(Splat(m))], 8))
  BY <1>1, Paid
<1> QED BY <1>2, Zenon DEF S!LdSpHl, V!LdSpHl

(* The fields of an opcode.                                                *)
LEMMA CodesOf ==
    ASSUME NEW opcode \in Byte
    PROVE /\ opcode % 8 \in 0 .. 7 /\ (opcode \div 8) % 8 \in 0 .. 7
          /\ (opcode \div 8) % 4 \in 0 .. 3
          /\ opcode \div 16 \in 0 .. 15 /\ opcode \div 64 \in 0 .. 3
<1>1. opcode \in Int /\ 0 <= opcode /\ opcode <= 255
  BY InByte
<1>2. /\ opcode % 8 \in Int /\ 0 <= opcode % 8 /\ opcode % 8 <= 7
      /\ (opcode \div 8) % 8 \in Int /\ 0 <= (opcode \div 8) % 8 /\ (opcode \div 8) % 8 <= 7
      /\ (opcode \div 8) % 4 \in Int /\ 0 <= (opcode \div 8) % 4 /\ (opcode \div 8) % 4 <= 3
      /\ opcode \div 16 \in Int /\ 0 <= opcode \div 16 /\ opcode \div 16 <= 15
      /\ opcode \div 64 \in Int /\ 0 <= opcode \div 64 /\ opcode \div 64 <= 3
  BY <1>1, SMT
<1> QED BY <1>2

LEMMA LdRD8Pays ==
    ASSUME NEW m \in Machines, NEW code \in 0 .. 7
    PROVE Pays(m, S!LdRD8(m, code), V!LdRD8(Splat(m), code))
<1>1. PICK f, g : f = S!FetchImm8(m) /\ g = V!FetchImm8(Splat(m))
  OBVIOUS
<1>2. Reads8(m, f, g, 4)
  BY <1>1, FetchImm8Reads
<1>3. f.m \in Machines /\ g.m = Splat(f.m) /\ f.value \in Byte /\ g.value = FromU8(f.value)
  BY <1>2 DEF Reads8, Lifts, Spends
<1>4. Lifts(f.m, S!WriteR8(f.m, code, f.value), V!WriteR8(g.m, code, g.value), S!Extra(code))
  BY <1>3, WriteR8Lifts
<1>5. S!LdRD8(m, code) = S!Done(S!WriteR8(f.m, code, f.value), 8 + S!Extra(code))
  BY <1>1, Zenon DEF S!LdRD8, S!Then
<1>6. V!LdRD8(Splat(m), code) = V!Done(V!WriteR8(g.m, code, g.value), 8 + S!Extra(code))
  BY <1>1, SameExtra, Zenon DEF V!LdRD8, V!Then
<1>7. /\ S!Extra(code) \in Nat /\ 8 + S!Extra(code) \in Nat
      /\ 4 + S!Extra(code) + 4 <= 8 + S!Extra(code)
  BY SameExtra
<1> QED BY <1>2, <1>4, <1>5, <1>6, <1>7, Paid8

LEMMA LdRRPays ==
    ASSUME NEW m \in Machines, NEW opcode \in Byte
    PROVE Pays(m, S!LdRR(m, opcode), V!LdRR(Splat(m), opcode))
<1>1. PICK src \in 0 .. 7, dst \in 0 .. 7 : src = opcode % 8 /\ dst = (opcode \div 8) % 8
  BY CodesOf
<1>2. PICK f, g : f = S!ReadR8(m, src) /\ g = V!ReadR8(Splat(m), src)
  OBVIOUS
<1>3. Reads8(m, f, g, S!Extra(src))
  BY <1>2, ReadR8Reads
<1>4. f.m \in Machines /\ g.m = Splat(f.m) /\ f.value \in Byte /\ g.value = FromU8(f.value)
  BY <1>3 DEF Reads8, Lifts, Spends
<1>5. Lifts(f.m, S!WriteR8(f.m, dst, f.value), V!WriteR8(g.m, dst, g.value), S!Extra(dst))
  BY <1>4, WriteR8Lifts
<1>6. PICK cost : cost = 4 + S!Extra(src) + S!Extra(dst)
  OBVIOUS
<1>7. S!LdRR(m, opcode) = S!Done(S!WriteR8(f.m, dst, f.value), cost)
  BY <1>1, <1>2, <1>6, Zenon DEF S!LdRR, S!Then
<1>8. V!LdRR(Splat(m), opcode) = V!Done(V!WriteR8(g.m, dst, g.value), cost)
  <2>1. V!Extra(src) = S!Extra(src) /\ V!Extra(dst) = S!Extra(dst)
    BY SameExtra
  <2> QED BY <1>1, <1>2, <1>6, <2>1, Zenon DEF V!LdRR, V!Then
<1>9. /\ S!Extra(src) \in Nat /\ S!Extra(dst) \in Nat /\ cost \in Nat
      /\ S!Extra(src) + S!Extra(dst) + 4 <= cost
  BY <1>6, SameExtra
<1> QED BY <1>3, <1>5, <1>7, <1>8, <1>9, Paid8

LEMMA LdMemA16SpPays ==
    ASSUME NEW m \in Machines
    PROVE Pays(m, S!LdMemA16Sp(m), V!LdMemA16Sp(Splat(m)))
<1>1. PICK f, g : f = S!FetchImm16(m) /\ g = V!FetchImm16(Splat(m))
  OBVIOUS
<1>2. Reads16(m, f, g, 8)
  BY <1>1, FetchImm16Reads
<1>3. f.m \in Machines /\ g.m = Splat(f.m) /\ f.value \in Word /\ g.value = FromU16(f.value)
  BY <1>2 DEF Reads16, Lifts, Spends
<1>4. PICK high, low, vhigh, vlow :
        /\ high = Scalar!SplitHi(f.m.sp) /\ low = Scalar!SplitLo(f.m.sp)
        /\ vhigh = SplitHi(g.m.sp) /\ vlow = SplitLo(g.m.sp)
  OBVIOUS
<1>5. high \in Byte /\ low \in Byte /\ vhigh = FromU8(high) /\ vlow = FromU8(low)
  BY <1>3, <1>4, MachineFields, SplatFields, SplitLifts
<1>6. PICK n, v : n = S!Write8(f.m, f.value, low) /\ v = V!Write8(g.m, g.value, vlow)
  OBVIOUS
<1>7. Lifts(f.m, n, v, 4) /\ n \in Machines /\ v = Splat(n)
  BY <1>3, <1>5, <1>6, Write8Lifts DEF Lifts, Spends
<1>8. PICK k, w : /\ k = S!Write8(n, S!Plus(f.value, 1), high)
                  /\ w = V!Write8(v, V!Plus(g.value, 1), vhigh)
  OBVIOUS
<1>9. Lifts(n, k, w, 4)
  BY <1>3, <1>5, <1>7, <1>8, PlusLifts, Write8Lifts
<1>10. Lifts(f.m, k, w, 4 + 4)
  BY <1>3, <1>7, <1>9, LiftsChain
<1>11. S!LdMemA16Sp(m) = S!Done(k, 20) /\ V!LdMemA16Sp(Splat(m)) = V!Done(w, 20)
  BY <1>1, <1>4, <1>6, <1>8, Zenon DEF S!LdMemA16Sp, S!Then, V!LdMemA16Sp, V!Then
<1> QED BY <1>2, <1>10, <1>11, Paid16

LEMMA LdStepHlAPays ==
    ASSUME NEW m \in Machines, NEW d \in Int
    PROVE Pays(m, S!LdStepHlA(m, d), V!LdStepHlA(Splat(m), d))
<1>1. PICK n, v : /\ n = S!Write8(m, S!HL(m), m.r[S!A])
                  /\ v = V!Write8(Splat(m), V!HL(Splat(m)), Splat(m).r[V!A])
  OBVIOUS
<1>2. Lifts(m, n, v, 4) /\ n \in Machines /\ v = Splat(n)
  <2>1. PICK at \in Word, x \in Byte :
          /\ at = S!HL(m) /\ V!HL(Splat(m)) = FromU16(at)
          /\ x = m.r[S!A] /\ Splat(m).r[V!A] = FromU8(x)
    BY HLLifts, Accumulator
  <2>2. Lifts(m, S!Write8(m, at, x), V!Write8(Splat(m), FromU16(at), FromU8(x)), 4)
    BY Write8Lifts
  <2> QED BY <1>1, <2>1, <2>2 DEF Lifts, Spends
<1>3. Lifts(m, S!StepHl(n, d), V!StepHl(v, d), 4 + 0)
  BY <1>2, StepHlLifts, LiftsChain
<1> QED BY <1>1, <1>3, Paid DEF S!LdStepHlA, V!LdStepHlA

LEMMA LdStepAHlPays ==
    ASSUME NEW m \in Machines, NEW d \in Int
    PROVE Pays(m, S!LdStepAHl(m, d), V!LdStepAHl(Splat(m), d))
<1>1. PICK n, v : n = S!LoadA(m, S!HL(m)) /\ v = V!LoadA(Splat(m), V!HL(Splat(m)))
  OBVIOUS
<1>2. Lifts(m, n, v, 4) /\ n \in Machines /\ v = Splat(n)
  BY <1>1, HLLifts, LoadALifts DEF Lifts, Spends
<1>3. Lifts(m, S!StepHl(n, d), V!StepHl(v, d), 4 + 0)
  BY <1>2, StepHlLifts, LiftsChain
<1> QED BY <1>1, <1>3, Paid DEF S!LdStepAHl, V!LdStepAHl

(* Jumps, calls and returns.                                               *)
LEMMA Stays == ASSUME NEW m \in Machines PROVE Lifts(m, m, Splat(m), 0)
BY MachineFields DEF Lifts, Spends

LEMMA JumpLifts ==
    ASSUME NEW m \in Machines, NEW to \in Word
    PROVE Lifts(m, S!Jump(m, to), V!Jump(Splat(m), FromU16(to)), 0)
BY PcLifts, Zenon DEF S!Jump, V!Jump

LEMMA RelativeLifts ==
    ASSUME NEW m \in Machines, NEW off \in Byte
    PROVE Lifts(m, S!Relative(m, off), V!Relative(Splat(m), FromU8(off)), 0)
<1>1. Signed(off) \in Int
  BY InByte DEF Signed
<1>2. PICK to, vto : to = S!Plus(m.pc, Signed(off)) /\ vto = V!Plus(Splat(m).pc, Signed(off))
  OBVIOUS
<1>3. to \in Word /\ vto = FromU16(to)
  BY <1>1, <1>2, MachineFields, SplatFields, PlusLifts
<1>4. S!Relative(m, off) = S!Jump(m, to)
  BY <1>2, SameLow, Zenon DEF S!Relative, Scalar!ToU8
<1>5. V!Relative(Splat(m), FromU8(off)) = V!Jump(Splat(m), vto)
  BY <1>2, SameLow, LeavesLanes, Zenon DEF V!Relative
<1> QED BY <1>3, <1>4, <1>5, JumpLifts

LEMMA CallLifts ==
    ASSUME NEW m \in Machines, NEW to \in Word
    PROVE Lifts(m, S!Call(m, to), V!Call(Splat(m), FromU16(to)), 0)
<1>1. PICK n, v : n = S!Push16(m, m.pc) /\ v = V!Push16(Splat(m), Splat(m).pc)
  OBVIOUS
<1>2. Lifts(m, n, v, 0) /\ n \in Machines /\ v = Splat(n)
  <2>1. m.pc \in Word /\ Splat(m).pc = FromU16(m.pc)
    BY MachineFields, SplatFields
  <2> QED BY <1>1, <2>1, Push16Lifts DEF Lifts, Spends
<1>3. Lifts(m, S!Jump(n, to), V!Jump(v, FromU16(to)), 0 + 0)
  BY <1>2, JumpLifts, LiftsChain
<1> QED BY <1>1, <1>3 DEF S!Call, V!Call

LEMMA ReturnLifts ==
    ASSUME NEW m \in Machines
    PROVE Lifts(m, S!Return(m), V!Return(Splat(m)), 0)
<1>1. PICK f, g : f = S!Pop16(m) /\ g = V!Pop16(Splat(m))
  OBVIOUS
<1>2. Reads16(m, f, g, 0)
  BY <1>1, Pop16Reads
<1>3. f.m \in Machines /\ g.m = Splat(f.m) /\ f.value \in Word /\ g.value = FromU16(f.value)
  BY <1>2 DEF Reads16, Lifts, Spends
<1>4. Lifts(m, S!Jump(f.m, f.value), V!Jump(g.m, g.value), 0 + 0)
  BY <1>2, <1>3, JumpLifts, LiftsChain DEF Reads16
<1> QED BY <1>1, <1>4 DEF S!Return, V!Return, S!Then, V!Then

LEMMA JrPays ==
    ASSUME NEW m \in Machines
    PROVE Pays(m, S!Jr(m), V!Jr(Splat(m)))
<1>1. PICK f, g : f = S!FetchImm8(m) /\ g = V!FetchImm8(Splat(m))
  OBVIOUS
<1>2. Reads8(m, f, g, 4)
  BY <1>1, FetchImm8Reads
<1>3. f.m \in Machines /\ g.m = Splat(f.m) /\ f.value \in Byte /\ g.value = FromU8(f.value)
  BY <1>2 DEF Reads8, Lifts, Spends
<1>4. Lifts(f.m, S!Relative(f.m, f.value),
            V!Relative(g.m, g.value), 0)
  BY <1>3, RelativeLifts
<1>5. S!Jr(m) = S!Done(S!Relative(f.m, f.value), 12)
  BY <1>1, Zenon DEF S!Jr, S!Then
<1>6. V!Jr(Splat(m)) = V!Done(V!Relative(g.m, g.value), 12)
  BY <1>1, Zenon DEF V!Jr, V!Then
<1> QED BY <1>2, <1>4, <1>5, <1>6, Paid8

LEMMA JrCcPays ==
    ASSUME NEW m \in Machines, NEW cc \in 0 .. 3
    PROVE Pays(m, S!JrCc(m, cc), V!JrCc(Splat(m), cc))
<1>1. PICK f, g : f = S!FetchImm8(m) /\ g = V!FetchImm8(Splat(m))
  OBVIOUS
<1>2. Reads8(m, f, g, 4)
  BY <1>1, FetchImm8Reads
<1>3. f.m \in Machines /\ g.m = Splat(f.m) /\ f.value \in Byte /\ g.value = FromU8(f.value)
  BY <1>2 DEF Reads8, Lifts, Spends
<1>4. S!JrCc(m, cc)
          = IF S!Cond(f.m, cc) THEN S!Done(S!Relative(f.m, f.value), 12) ELSE S!Done(f.m, 8)
  BY <1>1, Zenon DEF S!JrCc, S!Then
<1>5. V!JrCc(Splat(m), cc)
        = IF V!Cond(g.m, cc) THEN V!Done(V!Relative(g.m, g.value), 12) ELSE V!Done(g.m, 8)
  BY <1>1, Zenon DEF V!JrCc, V!Then
<1>6. V!Cond(g.m, cc) = S!Cond(f.m, cc)
  BY <1>3, SameCond
<1>7. Pays(m, S!Done(S!Relative(f.m, f.value), 12), V!Done(V!Relative(g.m, g.value), 12))
  <2>1. Lifts(f.m, S!Relative(f.m, f.value), V!Relative(g.m, g.value), 0)
    BY <1>3, RelativeLifts
  <2> QED BY <1>2, <2>1, Paid8
<1>8. Pays(m, S!Done(f.m, 8), V!Done(g.m, 8))
  BY <1>2, Paid DEF Reads8
<1> QED BY <1>4, <1>5, <1>6, <1>7, <1>8, Zenon

LEMMA JpA16Pays ==
    ASSUME NEW m \in Machines
    PROVE Pays(m, S!JpA16(m), V!JpA16(Splat(m)))
<1>1. PICK f, g : f = S!FetchImm16(m) /\ g = V!FetchImm16(Splat(m))
  OBVIOUS
<1>2. Reads16(m, f, g, 8)
  BY <1>1, FetchImm16Reads
<1>3. f.m \in Machines /\ g.m = Splat(f.m) /\ f.value \in Word /\ g.value = FromU16(f.value)
  BY <1>2 DEF Reads16, Lifts, Spends
<1>4. Lifts(f.m, S!Jump(f.m, f.value),
            V!Jump(g.m, g.value), 0)
  BY <1>3, JumpLifts
<1>5. S!JpA16(m) = S!Done(S!Jump(f.m, f.value), 16)
  BY <1>1, Zenon DEF S!JpA16, S!Then
<1>6. V!JpA16(Splat(m)) = V!Done(V!Jump(g.m, g.value), 16)
  BY <1>1, Zenon DEF V!JpA16, V!Then
<1> QED BY <1>2, <1>4, <1>5, <1>6, Paid16

LEMMA JpCcA16Pays ==
    ASSUME NEW m \in Machines, NEW cc \in 0 .. 3
    PROVE Pays(m, S!JpCcA16(m, cc), V!JpCcA16(Splat(m), cc))
<1>1. PICK f, g : f = S!FetchImm16(m) /\ g = V!FetchImm16(Splat(m))
  OBVIOUS
<1>2. Reads16(m, f, g, 8)
  BY <1>1, FetchImm16Reads
<1>3. f.m \in Machines /\ g.m = Splat(f.m) /\ f.value \in Word /\ g.value = FromU16(f.value)
  BY <1>2 DEF Reads16, Lifts, Spends
<1>4. S!JpCcA16(m, cc)
          = IF S!Cond(f.m, cc) THEN S!Done(S!Jump(f.m, f.value), 16) ELSE S!Done(f.m, 12)
  BY <1>1, Zenon DEF S!JpCcA16, S!Then
<1>5. V!JpCcA16(Splat(m), cc)
        = IF V!Cond(g.m, cc) THEN V!Done(V!Jump(g.m, g.value), 16) ELSE V!Done(g.m, 12)
  BY <1>1, Zenon DEF V!JpCcA16, V!Then
<1>6. V!Cond(g.m, cc) = S!Cond(f.m, cc)
  BY <1>3, SameCond
<1>7. Pays(m, S!Done(S!Jump(f.m, f.value), 16), V!Done(V!Jump(g.m, g.value), 16))
  <2>1. Lifts(f.m, S!Jump(f.m, f.value), V!Jump(g.m, g.value), 0)
    BY <1>3, JumpLifts
  <2> QED BY <1>2, <2>1, Paid16
<1>8. Pays(m, S!Done(f.m, 12), V!Done(g.m, 12))
  BY <1>2, Paid DEF Reads16
<1> QED BY <1>4, <1>5, <1>6, <1>7, <1>8, Zenon

LEMMA JpHlPays ==
    ASSUME NEW m \in Machines
    PROVE Pays(m, S!JpHl(m), V!JpHl(Splat(m)))
<1>1. Lifts(m, S!Jump(m, S!HL(m)), V!Jump(Splat(m), V!HL(Splat(m))), 0)
  BY HLLifts, JumpLifts
<1>2. Pays(m, S!Done(S!Jump(m, S!HL(m)), 4), V!Done(V!Jump(Splat(m), V!HL(Splat(m))), 4))
  BY <1>1, Paid
<1> QED BY <1>2, Zenon DEF S!JpHl, V!JpHl

LEMMA CallA16Pays ==
    ASSUME NEW m \in Machines
    PROVE Pays(m, S!CallA16(m), V!CallA16(Splat(m)))
<1>1. PICK f, g : f = S!FetchImm16(m) /\ g = V!FetchImm16(Splat(m))
  OBVIOUS
<1>2. Reads16(m, f, g, 8)
  BY <1>1, FetchImm16Reads
<1>3. f.m \in Machines /\ g.m = Splat(f.m) /\ f.value \in Word /\ g.value = FromU16(f.value)
  BY <1>2 DEF Reads16, Lifts, Spends
<1>4. Lifts(f.m, S!Call(f.m, f.value),
            V!Call(g.m, g.value), 0)
  BY <1>3, CallLifts
<1>5. S!CallA16(m) = S!Done(S!Call(f.m, f.value), 24)
  BY <1>1, Zenon DEF S!CallA16, S!Then
<1>6. V!CallA16(Splat(m)) = V!Done(V!Call(g.m, g.value), 24)
  BY <1>1, Zenon DEF V!CallA16, V!Then
<1> QED BY <1>2, <1>4, <1>5, <1>6, Paid16

LEMMA CallCcA16Pays ==
    ASSUME NEW m \in Machines, NEW cc \in 0 .. 3
    PROVE Pays(m, S!CallCcA16(m, cc), V!CallCcA16(Splat(m), cc))
<1>1. PICK f, g : f = S!FetchImm16(m) /\ g = V!FetchImm16(Splat(m))
  OBVIOUS
<1>2. Reads16(m, f, g, 8)
  BY <1>1, FetchImm16Reads
<1>3. f.m \in Machines /\ g.m = Splat(f.m) /\ f.value \in Word /\ g.value = FromU16(f.value)
  BY <1>2 DEF Reads16, Lifts, Spends
<1>4. S!CallCcA16(m, cc)
          = IF S!Cond(f.m, cc) THEN S!Done(S!Call(f.m, f.value), 24) ELSE S!Done(f.m, 12)
  BY <1>1, Zenon DEF S!CallCcA16, S!Then
<1>5. V!CallCcA16(Splat(m), cc)
        = IF V!Cond(g.m, cc) THEN V!Done(V!Call(g.m, g.value), 24) ELSE V!Done(g.m, 12)
  BY <1>1, Zenon DEF V!CallCcA16, V!Then
<1>6. V!Cond(g.m, cc) = S!Cond(f.m, cc)
  BY <1>3, SameCond
<1>7. Pays(m, S!Done(S!Call(f.m, f.value), 24), V!Done(V!Call(g.m, g.value), 24))
  <2>1. Lifts(f.m, S!Call(f.m, f.value), V!Call(g.m, g.value), 0)
    BY <1>3, CallLifts
  <2> QED BY <1>2, <2>1, Paid16
<1>8. Pays(m, S!Done(f.m, 12), V!Done(g.m, 12))
  BY <1>2, Paid DEF Reads16
<1> QED BY <1>4, <1>5, <1>6, <1>7, <1>8, Zenon

LEMMA RstPays ==
    ASSUME NEW m \in Machines, NEW opcode \in Byte, opcode >= 192, opcode % 8 = 7
    PROVE Pays(m, S!Rst(m, opcode), V!Rst(Splat(m), opcode))
<1>1. opcode - 192 - (opcode % 8) \in Word
  <2>1. opcode \in Int /\ opcode <= 255
    BY InByte
  <2>2. opcode - 192 - 7 \in Int /\ 0 <= opcode - 192 - 7 /\ opcode - 192 - 7 < 65536
    BY <2>1, opcode % 8 = 7, SMT
  <2> QED BY <2>2, opcode % 8 = 7, InWord
<1>2. PICK to : to = opcode - 192 - (opcode % 8)
  OBVIOUS
<1>3. Lifts(m, S!Call(m, to), V!Call(Splat(m), FromU16(to)), 0)
  BY <1>1, <1>2, CallLifts
<1>4. Pays(m, S!Done(S!Call(m, to), 16), V!Done(V!Call(Splat(m), FromU16(to)), 16))
  BY <1>3, Paid
<1> QED BY <1>2, <1>4, Zenon DEF S!Rst, V!Rst, Scalar!FromU16

LEMMA RetPays ==
    ASSUME NEW m \in Machines
    PROVE Pays(m, S!Ret(m), V!Ret(Splat(m)))
<1>1. Lifts(m, S!Return(m), V!Return(Splat(m)), 0)
  BY ReturnLifts
<1>2. Pays(m, S!Done(S!Return(m), 16), V!Done(V!Return(Splat(m)), 16))
  BY <1>1, Paid
<1> QED BY <1>2, Zenon DEF S!Ret, V!Ret

LEMMA RetCcPays ==
    ASSUME NEW m \in Machines, NEW cc \in 0 .. 3
    PROVE Pays(m, S!RetCc(m, cc), V!RetCc(Splat(m), cc))
<1>1. Pays(m, S!Done(S!Return(m), 20), V!Done(V!Return(Splat(m)), 20))
  BY ReturnLifts, Paid
<1>2. Pays(m, S!Done(m, 8), V!Done(Splat(m), 8))
  BY Stays, Paid
<1> QED BY <1>1, <1>2, SameCond, Zenon DEF S!RetCc, V!RetCc

LEMMA RetiPays ==
    ASSUME NEW m \in Machines
    PROVE Pays(m, S!Reti(m), V!Reti(Splat(m)))
<1>1. PICK n, v : n = S!Return(m) /\ v = V!Return(Splat(m))
  OBVIOUS
<1>2. Lifts(m, n, v, 0) /\ n \in Machines /\ v = Splat(n)
  BY <1>1, ReturnLifts DEF Lifts, Spends
<1>3. Lifts(m, [n EXCEPT !.ime = TRUE], [v EXCEPT !.ime = TRUE], 0 + 0)
  BY <1>2, ImeLifts, LiftsChain
<1>4. Pays(m, S!Done([n EXCEPT !.ime = TRUE], 16), V!Done([v EXCEPT !.ime = TRUE], 16))
  BY <1>3, Paid
<1> QED BY <1>1, <1>4, Zenon DEF S!Reti, V!Reti

(* The stack and the control of the CPU.                                   *)
LEMMA PushRrPays ==
    ASSUME NEW m \in Machines, NEW rp \in 0 .. 3
    PROVE Pays(m, S!PushRr(m, rp), V!PushRr(Splat(m), rp))
<1>1. PICK x, y : /\ x = IF rp = 3 THEN S!AF(m) ELSE S!RegPair(m, rp)
                  /\ y = IF rp = 3 THEN V!AF(Splat(m)) ELSE V!RegPair(Splat(m), rp)
  OBVIOUS
<1>2. x \in Word /\ y = FromU16(x)
  <2>1. CASE rp = 3
    BY <1>1, <2>1, AFLifts
  <2>2. CASE rp # 3
    <3>1. rp \in 0 .. 2
      BY <2>2
    <3> QED BY <1>1, <2>2, <3>1, RegPairLifts
  <2> QED BY <2>1, <2>2
<1>3. Pays(m, S!Done(S!Push16(m, x), 16), V!Done(V!Push16(Splat(m), y), 16))
  BY <1>2, Push16Lifts, Paid
<1> QED BY <1>1, <1>3, Zenon DEF S!PushRr, V!PushRr

LEMMA PopRrPays ==
    ASSUME NEW m \in Machines, NEW rp \in 0 .. 3
    PROVE Pays(m, S!PopRr(m, rp), V!PopRr(Splat(m), rp))
<1>1. PICK f, g : f = S!Pop16(m) /\ g = V!Pop16(Splat(m))
  OBVIOUS
<1>2. Reads16(m, f, g, 0)
  BY <1>1, Pop16Reads
<1>3. f.m \in Machines /\ g.m = Splat(f.m) /\ f.value \in Word /\ g.value = FromU16(f.value)
  BY <1>2 DEF Reads16, Lifts, Spends
<1>4. PICK n, v : /\ n = IF rp = 3 THEN S!SetAF(f.m, f.value) ELSE S!SetRegPair(f.m, rp, f.value)
                  /\ v = IF rp = 3 THEN V!SetAF(g.m, g.value) ELSE V!SetRegPair(g.m, rp, g.value)
  OBVIOUS
<1>5. Lifts(f.m, n, v, 0)
  <2>1. CASE rp = 3
    BY <1>3, <1>4, <2>1, SetAFLifts
  <2>2. CASE rp # 3
    <3>1. rp \in 0 .. 2
      BY <2>2
    <3> QED BY <1>3, <1>4, <2>2, <3>1, SetRegPairLifts
  <2> QED BY <2>1, <2>2
<1>6. S!PopRr(m, rp) = S!Done(n, 12) /\ V!PopRr(Splat(m), rp) = V!Done(v, 12)
  BY <1>1, <1>4, Zenon DEF S!PopRr, V!PopRr, S!Then, V!Then
<1> QED BY <1>2, <1>5, <1>6, Paid16

LEMMA DiPays ==
    ASSUME NEW m \in Machines
    PROVE Pays(m, S!Di(m), V!Di(Splat(m)))
<1>1. PICK n, v : n = [m EXCEPT !.ime = FALSE] /\ v = [Splat(m) EXCEPT !.ime = FALSE]
  OBVIOUS
<1>2. Lifts(m, n, v, 0) /\ n \in Machines /\ v = Splat(n)
  BY <1>1, ImeLifts DEF Lifts, Spends
<1>3. PICK k, w : k = [n EXCEPT !.eiPending = FALSE] /\ w = [v EXCEPT !.eiPending = FALSE]
  OBVIOUS
<1>4. Lifts(m, k, w, 0 + 0)
  BY <1>2, <1>3, EiLifts, LiftsChain
<1>5. Pays(m, S!Done(k, 4), V!Done(w, 4))
  BY <1>4, Paid
<1> QED BY <1>1, <1>3, <1>5, Zenon DEF S!Di, V!Di

LEMMA EiPays ==
    ASSUME NEW m \in Machines
    PROVE Pays(m, S!Ei(m), V!Ei(Splat(m)))
<1>1. Lifts(m, [m EXCEPT !.eiPending = TRUE], [Splat(m) EXCEPT !.eiPending = TRUE], 0)
  BY EiLifts
<1>2. Pays(m, S!Done([m EXCEPT !.eiPending = TRUE], 4),
           V!Done([Splat(m) EXCEPT !.eiPending = TRUE], 4))
  BY <1>1, Paid
<1> QED BY <1>2, Zenon DEF S!Ei, V!Ei

LEMMA StopPays ==
    ASSUME NEW m \in Machines
    PROVE Pays(m, S!Stop(m), V!Stop(Splat(m)))
<1>1. Lifts(m, [m EXCEPT !.halted = TRUE], [Splat(m) EXCEPT !.halted = TRUE], 0)
  BY HaltedLifts
<1>2. Pays(m, S!Done([m EXCEPT !.halted = TRUE], 4), V!Done([Splat(m) EXCEPT !.halted = TRUE], 4))
  BY <1>1, Paid
<1> QED BY <1>2, Zenon DEF S!Stop, V!Stop

LEMMA NopPays ==
    ASSUME NEW m \in Machines
    PROVE Pays(m, S!Nop(m), V!Nop(Splat(m)))
<1>1. Lifts(m, m, Splat(m), 0)
  BY Stays
<1>2. Pays(m, S!Done(m, 4), V!Done(Splat(m), 4))
  BY <1>1, Paid
<1> QED BY <1>2, Zenon DEF S!Nop, V!Nop

LEMMA HaltPays ==
    ASSUME NEW m \in Machines
    PROVE Pays(m, S!Halt(m), V!Halt(Splat(m)))
<1>1. \A addr : V!RegisterAt(Splat(m), addr) = S!RegisterAt(m, addr)
  <2> TAKE addr
  <2>1. Load(Splat(m).mem, FromU16(addr)) = FromU8(Scalar!Load(m.mem, addr))
    BY MachineFields, SplatFields, LoadLifts
  <2> QED BY <2>1, LeavesLanes DEF V!RegisterAt, S!RegisterAt, Scalar!ToU8, Scalar!FromU16
<1>2. PICK sleeps \in BOOLEAN :
        sleeps
            = (m.ime \/ S!AndByte(S!RegisterAt(m, S!IeAddress),
                                  S!RegisterAt(m, S!IfAddress)) % 32 = 0)
  OBVIOUS
<1>3. S!Halt(m) = IF sleeps THEN S!Done([m EXCEPT !.halted = TRUE], 4)
                  ELSE S!Done([m EXCEPT !.haltBug = TRUE], 4)
  BY <1>2, Zenon DEF S!Halt
<1>4. V!IeAddress = S!IeAddress /\ V!IfAddress = S!IfAddress
  BY DEF V!IeAddress, S!IeAddress, V!IfAddress, S!IfAddress
<1>5. V!AndByte(V!RegisterAt(Splat(m), V!IeAddress), V!RegisterAt(Splat(m), V!IfAddress))
        = S!AndByte(S!RegisterAt(m, S!IeAddress), S!RegisterAt(m, S!IfAddress))
  BY <1>1, <1>4, SameLogic, Zenon
<1>6. Splat(m).ime = m.ime
  BY SplatFields
<1>7. V!Halt(Splat(m)) = IF sleeps THEN V!Done([Splat(m) EXCEPT !.halted = TRUE], 4)
                         ELSE V!Done([Splat(m) EXCEPT !.haltBug = TRUE], 4)
  BY <1>2, <1>5, <1>6, Zenon DEF V!Halt
<1>8. Pays(m, S!Done([m EXCEPT !.halted = TRUE], 4), V!Done([Splat(m) EXCEPT !.halted = TRUE], 4))
  <2>1. Lifts(m, [m EXCEPT !.halted = TRUE], [Splat(m) EXCEPT !.halted = TRUE], 0)
    BY HaltedLifts
  <2> QED BY <2>1, Paid
<1>9. Pays(m, S!Done([m EXCEPT !.haltBug = TRUE], 4), V!Done([Splat(m) EXCEPT !.haltBug = TRUE], 4))
  <2>1. Lifts(m, [m EXCEPT !.haltBug = TRUE], [Splat(m) EXCEPT !.haltBug = TRUE], 0)
    BY HaltBugLifts
  <2> QED BY <2>1, Paid
<1> QED BY <1>3, <1>7, <1>8, <1>9, Zenon

(* Arithmetic: its steps leave clock and credit alone.                     *)
(* What an operand is changed to, by an instruction that reads, changes    *)
(* and writes it back.                                                     *)
LEMMA RmwPaid ==
    ASSUME NEW m \in Machines, NEW code \in 0 .. 7, NEW f, NEW g, NEW a, NEW b, NEW cost \in Nat,
           Reads8(m, f, g, S!Extra(code)), Reads8(f.m, a, b, 0), 2 * S!Extra(code) + 4 <= cost
    PROVE Pays(m, S!Done(S!WriteR8(a.m, code, a.value), cost),
                  V!Done(V!WriteR8(b.m, code, b.value), cost))
<1>1. S!Extra(code) \in Nat
  BY SameExtra
<1>2. /\ f.m \in Machines /\ a.m \in Machines /\ b.m = Splat(a.m) /\ a.value \in Byte
      /\ b.value = FromU8(a.value)
  BY DEF Reads8, Lifts, Spends
<1>3. Lifts(a.m, S!WriteR8(a.m, code, a.value), V!WriteR8(b.m, code, b.value), S!Extra(code))
  BY <1>2, WriteR8Lifts
<1>4. Lifts(m, a.m, b.m, S!Extra(code))
  <2>1. Lifts(m, a.m, b.m, S!Extra(code) + 0)
    BY <1>1, LiftsChain DEF Reads8
  <2> QED BY <1>1, <2>1
<1>5. Lifts(m, S!WriteR8(a.m, code, a.value), V!WriteR8(b.m, code, b.value),
            S!Extra(code) + S!Extra(code))
  BY <1>1, <1>3, <1>4, LiftsChain
<1> QED BY <1>1, <1>5, Paid

LEMMA SteppedReads ==
    ASSUME NEW m \in Machines, NEW old \in Byte, NEW new \in Byte, NEW down \in BOOLEAN
    PROVE Reads8(m, S!Stepped(m, old, new, down), V!Stepped(Splat(m), old, new, down), 0)
<1>1. PICK half \in BOOLEAN, zero \in BOOLEAN :
        half = (Bit(old, 16) # Bit(new, 16)) /\ zero = (new = 0)
  OBVIOUS
<1>2. m.c \in BOOLEAN /\ Splat(m).c = m.c
  BY MachineFields, SplatFields
<1>3. Lifts(m, S!SetFlags(m, zero, down, half, m.c), V!SetFlags(Splat(m), zero, down, half, m.c), 0)
  BY <1>2, SetFlagsLifts
<1>4. S!Stepped(m, old, new, down) = [value |-> new, m |-> S!SetFlags(m, zero, down, half, m.c)]
  BY <1>1, SameBit, Zenon DEF S!Stepped, Scalar!FromU8
<1>5. V!Stepped(Splat(m), old, new, down)
        = [value |-> FromU8(new), m |-> V!SetFlags(Splat(m), zero, down, half, m.c)]
  BY <1>1, <1>2, SameBit, Zenon DEF V!Stepped
<1> QED BY <1>3, <1>4, <1>5 DEF Reads8

LEMMA IncRegReads ==
    ASSUME NEW m \in Machines, NEW x \in Byte
    PROVE /\ Reads8(m, S!IncReg(m, x), V!IncReg(Splat(m), FromU8(x)), 0)
          /\ Reads8(m, S!DecReg(m, x), V!DecReg(Splat(m), FromU8(x)), 0)
<1>1. AsByte(x + 1) \in Byte /\ AsByte(x - 1) \in Byte
  BY InByte, LowBits
<1>2. /\ S!IncReg(m, x) = S!Stepped(m, x, AsByte(x + 1), FALSE)
      /\ S!DecReg(m, x) = S!Stepped(m, x, AsByte(x - 1), TRUE)
  BY SameLow, Zenon DEF S!IncReg, S!DecReg, Scalar!ToU8
<1>3. /\ V!IncReg(Splat(m), FromU8(x)) = V!Stepped(Splat(m), x, AsByte(x + 1), FALSE)
      /\ V!DecReg(Splat(m), FromU8(x)) = V!Stepped(Splat(m), x, AsByte(x - 1), TRUE)
  BY SameLow, LeavesLanes, Zenon DEF V!IncReg, V!DecReg
<1> QED BY <1>1, <1>2, <1>3, SteppedReads

LEMMA IncRPays ==
    ASSUME NEW m \in Machines, NEW code \in 0 .. 7
    PROVE Pays(m, S!IncR(m, code), V!IncR(Splat(m), code))
<1>1. PICK f, g : f = S!ReadR8(m, code) /\ g = V!ReadR8(Splat(m), code)
  OBVIOUS
<1>2. Reads8(m, f, g, S!Extra(code))
  BY <1>1, ReadR8Reads
<1>3. f.m \in Machines /\ g.m = Splat(f.m) /\ f.value \in Byte /\ g.value = FromU8(f.value)
  BY <1>2 DEF Reads8, Lifts, Spends
<1>4. PICK a, b : a = S!IncReg(f.m, f.value) /\ b = V!IncReg(g.m, g.value)
  OBVIOUS
<1>5. Reads8(f.m, a, b, 0)
  BY <1>3, <1>4, IncRegReads
<1>6. PICK cost \in Nat : cost = 4 + 2 * S!Extra(code)
  BY SameExtra
<1>7. S!IncR(m, code) = S!Done(S!WriteR8(a.m, code, a.value), cost)
  BY <1>1, <1>4, <1>6, Zenon DEF S!IncR, S!ReadModifyWrite, S!Then
<1>8. V!IncR(Splat(m), code) = V!Done(V!WriteR8(b.m, code, b.value), cost)
  <2>1. V!Extra(code) = S!Extra(code)
    BY SameExtra
  <2> QED BY <1>1, <1>4, <1>6, <2>1, Zenon DEF V!IncR, V!ReadModifyWrite, V!Then
<1>9. 2 * S!Extra(code) + 4 <= cost
  BY <1>6, SameExtra
<1> QED BY <1>2, <1>5, <1>7, <1>8, <1>9, RmwPaid

LEMMA DecRPays ==
    ASSUME NEW m \in Machines, NEW code \in 0 .. 7
    PROVE Pays(m, S!DecR(m, code), V!DecR(Splat(m), code))
<1>1. PICK f, g : f = S!ReadR8(m, code) /\ g = V!ReadR8(Splat(m), code)
  OBVIOUS
<1>2. Reads8(m, f, g, S!Extra(code))
  BY <1>1, ReadR8Reads
<1>3. f.m \in Machines /\ g.m = Splat(f.m) /\ f.value \in Byte /\ g.value = FromU8(f.value)
  BY <1>2 DEF Reads8, Lifts, Spends
<1>4. PICK a, b : a = S!DecReg(f.m, f.value) /\ b = V!DecReg(g.m, g.value)
  OBVIOUS
<1>5. Reads8(f.m, a, b, 0)
  BY <1>3, <1>4, IncRegReads
<1>6. PICK cost \in Nat : cost = 4 + 2 * S!Extra(code)
  BY SameExtra
<1>7. S!DecR(m, code) = S!Done(S!WriteR8(a.m, code, a.value), cost)
  BY <1>1, <1>4, <1>6, Zenon DEF S!DecR, S!ReadModifyWrite, S!Then
<1>8. V!DecR(Splat(m), code) = V!Done(V!WriteR8(b.m, code, b.value), cost)
  <2>1. V!Extra(code) = S!Extra(code)
    BY SameExtra
  <2> QED BY <1>1, <1>4, <1>6, <2>1, Zenon DEF V!DecR, V!ReadModifyWrite, V!Then
<1>9. 2 * S!Extra(code) + 4 <= cost
  BY <1>6, SameExtra
<1> QED BY <1>2, <1>5, <1>7, <1>8, <1>9, RmwPaid

LEMMA IncRrPays ==
    ASSUME NEW m \in Machines, NEW rp \in 0 .. 3
    PROVE Pays(m, S!IncRr(m, rp), V!IncRr(Splat(m), rp))
<1>1. Lifts(m, S!SetWide(m, rp, S!Plus(S!Wide(m, rp), 1)),
            V!SetWide(Splat(m), rp, V!Plus(V!Wide(Splat(m), rp), 1)), 0)
  BY WideLifts, PlusLifts, SetWideLifts
<1>2. Pays(m, S!Done(S!SetWide(m, rp, S!Plus(S!Wide(m, rp), 1)), 8),
           V!Done(V!SetWide(Splat(m), rp, V!Plus(V!Wide(Splat(m), rp), 1)), 8))
  BY <1>1, Paid
<1> QED BY <1>2, Zenon DEF S!IncRr, V!IncRr

LEMMA DecRrPays ==
    ASSUME NEW m \in Machines, NEW rp \in 0 .. 3
    PROVE Pays(m, S!DecRr(m, rp), V!DecRr(Splat(m), rp))
<1>1. Lifts(m, S!SetWide(m, rp, S!Plus(S!Wide(m, rp), -1)),
            V!SetWide(Splat(m), rp, V!Plus(V!Wide(Splat(m), rp), -1)), 0)
  BY WideLifts, PlusLifts, SetWideLifts
<1>2. Pays(m, S!Done(S!SetWide(m, rp, S!Plus(S!Wide(m, rp), -1)), 8),
           V!Done(V!SetWide(Splat(m), rp, V!Plus(V!Wide(Splat(m), rp), -1)), 8))
  BY <1>1, Paid
<1> QED BY <1>2, Zenon DEF S!DecRr, V!DecRr

(* Arithmetic on words.                                                    *)
LEMMA AddHlLifts ==
    ASSUME NEW m \in Machines, NEW x \in Word, NEW y \in Word
    PROVE Lifts(m, S!AddHl(m, x, y), V!AddHl(Splat(m), x, y), 0)
<1>1. AsWord(x + y) \in Word
  BY InWord, LowBits
<1>2. PICK n, v : /\ n = S!SetRegPair(m, 2, AsWord(x + y))
                  /\ v = V!SetRegPair(Splat(m), 2, FromU16(AsWord(x + y)))
  OBVIOUS
<1>3. Lifts(m, n, v, 0) /\ n \in Machines /\ v = Splat(n)
  <2>1. 2 \in 0 .. 2
    OBVIOUS
  <2> QED BY <1>1, <1>2, <2>1, SetRegPairLifts DEF Lifts, Spends
<1> DEFINE h == (x % 4096) + (y % 4096) > 4095
           c == x + y > 65535
<1>4. h \in BOOLEAN /\ c \in BOOLEAN
  BY DEF h, c
<1>5. m.z \in BOOLEAN /\ Splat(m).z = m.z
  BY MachineFields, SplatFields
<1>7. S!AddHl(m, x, y) = S!SetFlags(n, m.z, FALSE, h, c)
  <2>1. S!AddHl(m, x, y)
          = S!SetFlags(S!SetRegPair(m, 2, Scalar!FromU16(S!AsWord(x + y))), m.z, FALSE, h, c)
    BY SMT DEF S!AddHl, h, c
  <2>2. Scalar!FromU16(S!AsWord(x + y)) = AsWord(x + y)
    BY SameLow DEF Scalar!FromU16
  <2> HIDE DEF h, c
  <2> QED BY <1>2, <2>1, <2>2
<1>8. V!AddHl(Splat(m), x, y) = V!SetFlags(v, m.z, FALSE, h, c)
  <2>1. V!AddHl(Splat(m), x, y)
          = V!SetFlags(V!SetRegPair(Splat(m), 2, FromU16(V!AsWord(x + y))), Splat(m).z, FALSE, h, c)
    BY SMT DEF V!AddHl, h, c
  <2>2. V!AsWord(x + y) = AsWord(x + y)
    BY SameLow
  <2> HIDE DEF h, c
  <2> QED BY <1>2, <1>5, <2>1, <2>2
<1> HIDE DEF h, c
<1>6. Lifts(n, S!SetFlags(n, m.z, FALSE, h, c), V!SetFlags(v, m.z, FALSE, h, c), 0)
  BY <1>3, <1>4, <1>5, FALSE \in BOOLEAN, SetFlagsLifts
<1>9. Lifts(m, S!SetFlags(n, m.z, FALSE, h, c), V!SetFlags(v, m.z, FALSE, h, c), 0)
  <2>1. PICK p, w : p = S!SetFlags(n, m.z, FALSE, h, c) /\ w = V!SetFlags(v, m.z, FALSE, h, c)
    OBVIOUS
  <2>2. Lifts(n, p, w, 0)
    BY <1>6, <2>1, Zenon
  <2>3. Lifts(m, p, w, 0)
    BY <1>3, <2>2, LiftsAfter
  <2> QED BY <2>1, <2>3, Zenon
<1> QED BY <1>7, <1>8, <1>9

LEMMA AddHlRrPays ==
    ASSUME NEW m \in Machines, NEW rp \in 0 .. 3
    PROVE Pays(m, S!AddHlRr(m, rp), V!AddHlRr(Splat(m), rp))
<1>1. PICK x \in Word, y \in Word : x = S!HL(m) /\ y = S!Wide(m, rp)
  BY HLLifts, WideLifts
<1>2. ToU16(V!HL(Splat(m))) = x /\ ToU16(V!Wide(Splat(m), rp)) = y
  BY <1>1, HLLifts, WideLifts, LeavesLanes
<1>3. Lifts(m, S!AddHl(m, x, y), V!AddHl(Splat(m), x, y), 0)
  BY AddHlLifts
<1>4. Pays(m, S!Done(S!AddHl(m, x, y), 8), V!Done(V!AddHl(Splat(m), x, y), 8))
  BY <1>3, Paid
<1> QED BY <1>1, <1>2, <1>4, Zenon DEF S!AddHlRr, V!AddHlRr, Scalar!ToU16

LEMMA SpPlusReads ==
    ASSUME NEW m \in Machines, NEW sp \in Word, NEW off \in Word
    PROVE Reads16(m, S!SpPlus(m, sp, off), V!SpPlus(Splat(m), sp, off), 0)
<1>1. AsWord(sp + off) \in Word
  BY InWord, LowBits
<1> DEFINE carry(w) == (Bit(sp, w) # Bit(off, w)) # Bit(AsWord(sp + off), w)
<1>2. \A w : S!CarryInto(w, sp, off) = carry(w) /\ V!CarryInto(w, sp, off) = carry(w)
  BY SameBit, SameLow, Zenon DEF S!CarryInto, V!CarryInto
<1>6. PICK h \in BOOLEAN, c \in BOOLEAN : h = carry(16) /\ c = carry(256)
  OBVIOUS
<1> HIDE DEF carry
<1>3. Lifts(m, S!SetFlags(m, FALSE, FALSE, h, c), V!SetFlags(Splat(m), FALSE, FALSE, h, c), 0)
  BY SetFlagsLifts
<1>4. S!SpPlus(m, sp, off) = [value |-> AsWord(sp + off), m |-> S!SetFlags(m, FALSE, FALSE, h, c)]
  BY <1>2, <1>6, SameLow DEF S!SpPlus, Scalar!FromU16
<1>5. V!SpPlus(Splat(m), sp, off)
        = [value |-> FromU16(AsWord(sp + off)), m |-> V!SetFlags(Splat(m), FALSE, FALSE, h, c)]
  BY <1>2, <1>6, SameLow DEF V!SpPlus
<1>7. /\ S!SpPlus(m, sp, off).value = AsWord(sp + off)
      /\ S!SpPlus(m, sp, off).m = S!SetFlags(m, FALSE, FALSE, h, c)
      /\ V!SpPlus(Splat(m), sp, off).value = FromU16(AsWord(sp + off))
      /\ V!SpPlus(Splat(m), sp, off).m = V!SetFlags(Splat(m), FALSE, FALSE, h, c)
  BY <1>4, <1>5
<1> QED BY <1>1, <1>3, <1>7, Zenon DEF Reads16

LEMMA SpPlusImmReads ==
    ASSUME NEW m \in Machines
    PROVE Reads16(m, S!SpPlusImm(m), V!SpPlusImm(Splat(m)), 4)
<1>1. PICK f, g : f = S!FetchImm8(m) /\ g = V!FetchImm8(Splat(m))
  OBVIOUS
<1>2. Reads8(m, f, g, 4)
  BY <1>1, FetchImm8Reads
<1>3. f.m \in Machines /\ g.m = Splat(f.m) /\ f.value \in Byte /\ g.value = FromU8(f.value)
  BY <1>2 DEF Reads8, Lifts, Spends
<1>4. PICK off \in Word : off = AsWord(Signed(f.value))
  <2>1. Signed(f.value) \in Int
    BY <1>3, InByte DEF Signed
  <2> QED BY <2>1, LowBits
<1>5. PICK sp \in Word : sp = f.m.sp /\ g.m.sp = FromU16(sp)
  BY <1>3, MachineFields, SplatFields
<1>6. Reads16(f.m, S!SpPlus(f.m, sp, off), V!SpPlus(g.m, sp, off), 0)
  BY <1>3, SpPlusReads
<1>7. S!SpPlusImm(m) = S!SpPlus(f.m, sp, off)
  BY <1>1, <1>4, <1>5, SameLow, Zenon DEF S!SpPlusImm, S!Then, Scalar!ToU16, Scalar!ToU8
<1>8. V!SpPlusImm(Splat(m)) = V!SpPlus(g.m, sp, off)
  <2>1. ToU8(g.value) = f.value /\ ToU16(g.m.sp) = sp
    BY <1>3, <1>5, LeavesLanes
  <2> QED BY <1>1, <1>4, <2>1, SameLow, Zenon DEF V!SpPlusImm, V!Then
<1>9. Lifts(m, S!SpPlus(f.m, sp, off).m, V!SpPlus(g.m, sp, off).m, 4 + 0)
  BY <1>2, <1>3, <1>6, LiftsChain DEF Reads8, Reads16
<1> QED BY <1>6, <1>7, <1>8, <1>9 DEF Reads16

LEMMA AddSpE8Pays ==
    ASSUME NEW m \in Machines
    PROVE Pays(m, S!AddSpE8(m), V!AddSpE8(Splat(m)))
<1>1. PICK f, g : f = S!SpPlusImm(m) /\ g = V!SpPlusImm(Splat(m))
  OBVIOUS
<1>2. Reads16(m, f, g, 4)
  BY <1>1, SpPlusImmReads
<1>3. f.m \in Machines /\ g.m = Splat(f.m) /\ f.value \in Word /\ g.value = FromU16(f.value)
  BY <1>2 DEF Reads16, Lifts, Spends
<1>4. Lifts(f.m, [f.m EXCEPT !.sp = f.value], [g.m EXCEPT !.sp = g.value], 0)
  <2>1. 2 \in 0 .. 2
    OBVIOUS
  <2> QED BY <1>3, <2>1, SpLifts
<1>5. S!AddSpE8(m) = S!Done([f.m EXCEPT !.sp = f.value], 16)
  BY <1>1, Zenon DEF S!AddSpE8, S!Then
<1>6. V!AddSpE8(Splat(m)) = V!Done([g.m EXCEPT !.sp = g.value], 16)
  BY <1>1, Zenon DEF V!AddSpE8, V!Then
<1>8. PICK n, v : n = [f.m EXCEPT !.sp = f.value] /\ v = [g.m EXCEPT !.sp = g.value]
  OBVIOUS
<1>9. Lifts(f.m, n, v, 0)
  BY <1>4, <1>8, Zenon
<1>7. Pays(m, S!Done(n, 16), V!Done(v, 16))
  BY <1>2, <1>9, Paid16
<1> QED BY <1>5, <1>6, <1>7, <1>8, Zenon

LEMMA LdHlSpE8Pays ==
    ASSUME NEW m \in Machines
    PROVE Pays(m, S!LdHlSpE8(m), V!LdHlSpE8(Splat(m)))
<1>1. PICK f, g : f = S!SpPlusImm(m) /\ g = V!SpPlusImm(Splat(m))
  OBVIOUS
<1>2. Reads16(m, f, g, 4)
  BY <1>1, SpPlusImmReads
<1>3. f.m \in Machines /\ g.m = Splat(f.m) /\ f.value \in Word /\ g.value = FromU16(f.value)
  BY <1>2 DEF Reads16, Lifts, Spends
<1>4. Lifts(f.m, S!SetRegPair(f.m, 2, f.value), V!SetRegPair(g.m, 2, g.value), 0)
  <2>1. 2 \in 0 .. 2
    OBVIOUS
  <2> QED BY <1>3, <2>1, SetRegPairLifts
<1>5. S!LdHlSpE8(m) = S!Done(S!SetRegPair(f.m, 2, f.value), 12)
  BY <1>1, Zenon DEF S!LdHlSpE8, S!Then
<1>6. V!LdHlSpE8(Splat(m)) = V!Done(V!SetRegPair(g.m, 2, g.value), 12)
  BY <1>1, Zenon DEF V!LdHlSpE8, V!Then
<1>8. PICK n, v : n = S!SetRegPair(f.m, 2, f.value) /\ v = V!SetRegPair(g.m, 2, g.value)
  OBVIOUS
<1>9. Lifts(f.m, n, v, 0)
  BY <1>4, <1>8, Zenon
<1>7. Pays(m, S!Done(n, 12), V!Done(v, 12))
  BY <1>2, <1>9, Paid16
<1> QED BY <1>5, <1>6, <1>7, <1>8, Zenon

(* A value in A, and flags.                                                *)
LEMMA AAndFlagsLift ==
    ASSUME NEW m \in Machines, NEW x \in Byte,
           NEW z \in BOOLEAN, NEW n \in BOOLEAN, NEW h \in BOOLEAN, NEW c \in BOOLEAN
    PROVE Lifts(m, S!SetFlags([m EXCEPT !.r[S!A] = x], z, n, h, c),
                   V!SetFlags([Splat(m) EXCEPT !.r[V!A] = FromU8(x)], z, n, h, c), 0)
<1>1. PICK k, w : k = [m EXCEPT !.r[S!A] = x] /\ w = [Splat(m) EXCEPT !.r[V!A] = FromU8(x)]
  OBVIOUS
<1>2. Lifts(m, k, w, 0) /\ k \in Machines /\ w = Splat(k)
  BY <1>1, SetALifts DEF Lifts, Spends
<1>3. Lifts(m, S!SetFlags(k, z, n, h, c), V!SetFlags(w, z, n, h, c), 0 + 0)
  BY <1>2, SetFlagsLifts, LiftsChain
<1> QED BY <1>1, <1>3

LEMMA SumLiftsA ==
    ASSUME NEW m \in Machines, NEW res, NEW vres, SumLifts(res, vres)
    PROVE Lifts(m, S!Sum(m, res), V!Sum(Splat(m), vres), 0)
<1>1. Lifts(m, S!SetFlags([m EXCEPT !.r[S!A] = res.value], res.z, res.n, res.h, res.c),
               V!SetFlags([Splat(m) EXCEPT !.r[V!A] = FromU8(res.value)], res.z, res.n, res.h,
                          res.c), 0)
  BY AAndFlagsLift DEF SumLifts
<1>2. S!Sum(m, res) = S!SetFlags([m EXCEPT !.r[S!A] = res.value], res.z, res.n, res.h, res.c)
  BY Zenon DEF S!Sum
<1>3. V!Sum(Splat(m), vres)
        = V!SetFlags([Splat(m) EXCEPT !.r[V!A] = FromU8(res.value)], res.z, res.n, res.h, res.c)
  BY Zenon DEF V!Sum, SumLifts
<1> QED BY <1>1, <1>2, <1>3

LEMMA LogicOpLifts ==
    ASSUME NEW m \in Machines, NEW x \in Byte, NEW h \in BOOLEAN
    PROVE Lifts(m, S!Logic(m, x, h), V!Logic(Splat(m), FromU8(x), h), 0)
<1>1. PICK z \in BOOLEAN : z = (x = 0)
  OBVIOUS
<1>2. S!Logic(m, x, h) = S!SetFlags([m EXCEPT !.r[S!A] = x], z, FALSE, h, FALSE)
  BY <1>1, Zenon DEF S!Logic, Scalar!ToU8
<1>3. V!Logic(Splat(m), FromU8(x), h)
        = V!SetFlags([Splat(m) EXCEPT !.r[V!A] = FromU8(x)], z, FALSE, h, FALSE)
  BY <1>1, LeavesLanes, Zenon DEF V!Logic
<1> QED BY <1>2, <1>3, AAndFlagsLift

LEMMA AluAssignLifts ==
    ASSUME NEW m \in Machines, NEW x \in Byte, NEW opcode \in 0 .. 7
    PROVE Lifts(m, S!AluAssign(m, x, opcode), V!AluAssign(Splat(m), FromU8(x), opcode), 0)
<1>1. PICK a \in Byte, c \in BOOLEAN :
        a = m.r[S!A] /\ Splat(m).r[V!A] = FromU8(a) /\ c = m.c /\ Splat(m).c = c
  BY Accumulator, MachineFields, SplatFields
<1>2. \A carry \in BOOLEAN :
        /\ Lifts(m, S!Sum(m, Scalar!Add8(a, x, carry)),
                 V!Sum(Splat(m), Add8(FromU8(a), FromU8(x), carry)), 0)
        /\ Lifts(m, S!Sum(m, Scalar!Sub8(a, x, carry)),
                 V!Sum(Splat(m), Sub8(FromU8(a), FromU8(x), carry)), 0)
  BY Add8Lifts, Sub8Lifts, SumLiftsA
<1>3. CASE opcode = 0
  <2>1. S!AluAssign(m, x, opcode) = S!Sum(m, Scalar!Add8(a, x, FALSE))
    BY <1>1, <1>3 DEF S!AluAssign
  <2>2. V!AluAssign(Splat(m), FromU8(x), opcode)
            = V!Sum(Splat(m), Add8(FromU8(a), FromU8(x), FALSE))
    BY <1>1, <1>3 DEF V!AluAssign
  <2> QED BY <1>1, <1>2, <2>1, <2>2, FALSE \in BOOLEAN, Zenon
<1>4. CASE opcode = 1
  <2>1. S!AluAssign(m, x, opcode) = S!Sum(m, Scalar!Add8(a, x, c))
    BY <1>1, <1>4 DEF S!AluAssign
  <2>2. V!AluAssign(Splat(m), FromU8(x), opcode) = V!Sum(Splat(m), Add8(FromU8(a), FromU8(x), c))
    BY <1>1, <1>4 DEF V!AluAssign
  <2> QED BY <1>1, <1>2, <2>1, <2>2, FALSE \in BOOLEAN, Zenon
<1>5. CASE opcode = 2
  <2>1. S!AluAssign(m, x, opcode) = S!Sum(m, Scalar!Sub8(a, x, FALSE))
    BY <1>1, <1>5 DEF S!AluAssign
  <2>2. V!AluAssign(Splat(m), FromU8(x), opcode)
            = V!Sum(Splat(m), Sub8(FromU8(a), FromU8(x), FALSE))
    BY <1>1, <1>5 DEF V!AluAssign
  <2> QED BY <1>1, <1>2, <2>1, <2>2, FALSE \in BOOLEAN, Zenon
<1>6. CASE opcode = 3
  <2>1. S!AluAssign(m, x, opcode) = S!Sum(m, Scalar!Sub8(a, x, c))
    BY <1>1, <1>6 DEF S!AluAssign
  <2>2. V!AluAssign(Splat(m), FromU8(x), opcode) = V!Sum(Splat(m), Sub8(FromU8(a), FromU8(x), c))
    BY <1>1, <1>6 DEF V!AluAssign
  <2> QED BY <1>1, <1>2, <2>1, <2>2, FALSE \in BOOLEAN, Zenon
<1>7. CASE opcode = 4
  <2>1. S!AluAssign(m, x, opcode) = S!Logic(m, Scalar!And(a, x), TRUE)
    BY <1>1, <1>7 DEF S!AluAssign
  <2>2. V!AluAssign(Splat(m), FromU8(x), opcode)
            = V!Logic(Splat(m), And(FromU8(a), FromU8(x)), TRUE)
    BY <1>1, <1>7 DEF V!AluAssign
  <2>3. Scalar!And(a, x) \in Byte /\ And(FromU8(a), FromU8(x)) = FromU8(Scalar!And(a, x))
    BY LogicLifts
  <2>4. Lifts(m, S!Logic(m, Scalar!And(a, x), TRUE),
              V!Logic(Splat(m), FromU8(Scalar!And(a, x)), TRUE), 0)
    BY <2>3, LogicOpLifts, TRUE \in BOOLEAN
  <2> QED BY <2>1, <2>2, <2>3, <2>4, Zenon
<1>8. CASE opcode = 5
  <2>1. S!AluAssign(m, x, opcode) = S!Logic(m, Scalar!Xor(a, x), FALSE)
    BY <1>1, <1>8 DEF S!AluAssign
  <2>2. V!AluAssign(Splat(m), FromU8(x), opcode)
            = V!Logic(Splat(m), Xor(FromU8(a), FromU8(x)), FALSE)
    BY <1>1, <1>8 DEF V!AluAssign
  <2>3. Scalar!Xor(a, x) \in Byte /\ Xor(FromU8(a), FromU8(x)) = FromU8(Scalar!Xor(a, x))
    BY LogicLifts
  <2>4. Lifts(m, S!Logic(m, Scalar!Xor(a, x), FALSE),
              V!Logic(Splat(m), FromU8(Scalar!Xor(a, x)), FALSE), 0)
    BY <2>3, LogicOpLifts, FALSE \in BOOLEAN
  <2> QED BY <2>1, <2>2, <2>3, <2>4, Zenon
<1>9. CASE opcode = 6
  <2>1. S!AluAssign(m, x, opcode) = S!Logic(m, Scalar!Or(a, x), FALSE)
    BY <1>1, <1>9 DEF S!AluAssign
  <2>2. V!AluAssign(Splat(m), FromU8(x), opcode)
            = V!Logic(Splat(m), Or(FromU8(a), FromU8(x)), FALSE)
    BY <1>1, <1>9 DEF V!AluAssign
  <2>3. Scalar!Or(a, x) \in Byte /\ Or(FromU8(a), FromU8(x)) = FromU8(Scalar!Or(a, x))
    BY LogicLifts
  <2>4. Lifts(m, S!Logic(m, Scalar!Or(a, x), FALSE),
              V!Logic(Splat(m), FromU8(Scalar!Or(a, x)), FALSE), 0)
    BY <2>3, LogicOpLifts, FALSE \in BOOLEAN
  <2> QED BY <2>1, <2>2, <2>3, <2>4, Zenon
<1>10. CASE opcode = 7
  <2>1. PICK n, v : /\ n = S!Sum(m, Scalar!Sub8(a, x, FALSE))
                    /\ v = V!Sum(Splat(m), Sub8(FromU8(a), FromU8(x), FALSE))
    OBVIOUS
  <2>2. Lifts(m, n, v, 0) /\ n \in Machines /\ v = Splat(n)
    BY <1>2, <2>1, FALSE \in BOOLEAN DEF Lifts, Spends
  <2>3. Lifts(m, [n EXCEPT !.r[S!A] = a], [v EXCEPT !.r[V!A] = FromU8(a)], 0 + 0)
    BY <2>2, SetALifts, LiftsChain
  <2>4. S!AluAssign(m, x, 7) = [n EXCEPT !.r[S!A] = a]
    BY <1>1, <2>1 DEF S!AluAssign
  <2>5. V!AluAssign(Splat(m), FromU8(x), 7) = [v EXCEPT !.r[V!A] = FromU8(a)]
    BY <1>1, <2>1 DEF V!AluAssign
  <2> QED BY <1>10, <2>3, <2>4, <2>5
<1> QED BY <1>3, <1>4, <1>5, <1>6, <1>7, <1>8, <1>9, <1>10

LEMMA AluARPays ==
    ASSUME NEW m \in Machines, NEW opcode \in Byte
    PROVE Pays(m, S!AluAR(m, opcode), V!AluAR(Splat(m), opcode))
<1>1. PICK src \in 0 .. 7, alu \in 0 .. 7 : src = opcode % 8 /\ alu = (opcode \div 8) % 8
  BY CodesOf
<1>2. PICK f, g : f = S!ReadR8(m, src) /\ g = V!ReadR8(Splat(m), src)
  OBVIOUS
<1>3. Reads8(m, f, g, S!Extra(src))
  BY <1>2, ReadR8Reads
<1>4. f.m \in Machines /\ g.m = Splat(f.m) /\ f.value \in Byte /\ g.value = FromU8(f.value)
  BY <1>3 DEF Reads8, Lifts, Spends
<1>5. Lifts(f.m, S!AluAssign(f.m, f.value, alu), V!AluAssign(g.m, g.value, alu), 0)
  BY <1>4, AluAssignLifts
<1>6. PICK cost : cost = 4 + S!Extra(src)
  OBVIOUS
<1>7. S!AluAR(m, opcode) = S!Done(S!AluAssign(f.m, f.value, alu), cost)
  BY <1>1, <1>2, <1>6, Zenon DEF S!AluAR, S!Then
<1>8. V!AluAR(Splat(m), opcode) = V!Done(V!AluAssign(g.m, g.value, alu), cost)
  <2>1. V!Extra(src) = S!Extra(src)
    BY SameExtra
  <2> QED BY <1>1, <1>2, <1>6, <2>1, Zenon DEF V!AluAR, V!Then
<1>9. S!Extra(src) \in Nat /\ cost \in Nat /\ S!Extra(src) + 0 + 4 <= cost
  BY <1>6, SameExtra
<1> QED BY <1>3, <1>5, <1>7, <1>8, <1>9, Paid8

LEMMA AluAD8Pays ==
    ASSUME NEW m \in Machines, NEW opcode \in Byte
    PROVE Pays(m, S!AluAD8(m, opcode), V!AluAD8(Splat(m), opcode))
<1>1. PICK alu \in 0 .. 7 : alu = (opcode \div 8) % 8
  BY CodesOf
<1>2. PICK f, g : f = S!FetchImm8(m) /\ g = V!FetchImm8(Splat(m))
  OBVIOUS
<1>3. Reads8(m, f, g, 4)
  BY <1>2, FetchImm8Reads
<1>4. f.m \in Machines /\ g.m = Splat(f.m) /\ f.value \in Byte /\ g.value = FromU8(f.value)
  BY <1>3 DEF Reads8, Lifts, Spends
<1>5. Lifts(f.m, S!AluAssign(f.m, f.value, alu), V!AluAssign(g.m, g.value, alu), 0)
  BY <1>4, AluAssignLifts
<1>6. S!AluAD8(m, opcode) = S!Done(S!AluAssign(f.m, f.value, alu), 8)
  BY <1>1, <1>2, Zenon DEF S!AluAD8, S!Then
<1>7. V!AluAD8(Splat(m), opcode) = V!Done(V!AluAssign(g.m, g.value, alu), 8)
  BY <1>1, <1>2, Zenon DEF V!AluAD8, V!Then
<1> QED BY <1>3, <1>5, <1>6, <1>7, Paid8

LEMMA SetAResultLifts ==
    ASSUME NEW m \in Machines, NEW x \in Byte, NEW n \in BOOLEAN, NEW h \in BOOLEAN,
           NEW c \in BOOLEAN
    PROVE Lifts(m, S!SetA(m, x, n, h, c), V!SetA(Splat(m), x, n, h, c), 0)
<1>1. PICK z \in BOOLEAN : z = (x = 0)
  OBVIOUS
<1> QED BY <1>1, AAndFlagsLift, Zenon DEF S!SetA, V!SetA, Scalar!FromU8

(* Decimal adjustment, complement and carry.                               *)
LEMMA DaaPays ==
    ASSUME NEW m \in Machines
    PROVE Pays(m, S!Daa(m), V!Daa(Splat(m)))
<1>1. PICK a \in Byte : a = m.r[S!A] /\ Splat(m).r[V!A] = FromU8(a)
  BY Accumulator
<1>2. PICK carry \in BOOLEAN : carry = (m.c \/ (~m.n /\ a > 153))
  OBVIOUS
<1>3. PICK high \in Int : high = IF m.n THEN a - 96 * Num(m.c) ELSE a + 96 * Num(carry)
  BY InByte, NumIs
<1>4. PICK low \in Int :
        low = IF ~(m.h \/ (~m.n /\ AsByte(high) % 16 > 9)) THEN high
              ELSE IF m.n THEN high - 6 ELSE high + 6
  OBVIOUS
<1>5. PICK x \in Byte : x = AsByte(low)
  BY LowBits
<1>6. m.n \in BOOLEAN /\ Splat(m).n = m.n /\ Splat(m).c = m.c /\ Splat(m).h = m.h
  BY MachineFields, SplatFields
<1>7. S!Adjusted(m, a, carry) = S!SetA(m, x, m.n, FALSE, carry)
  <2>1. S!HighDigit(m, a, carry) = high
    BY <1>3, SameNum, Zenon DEF S!HighDigit
  <2>2. S!LowDigit(m, high) = low
    BY <1>4, SameLow, Zenon DEF S!LowDigit
  <2> QED BY <1>5, <2>1, <2>2, SameLow, Zenon DEF S!Adjusted
<1>8. V!Adjusted(Splat(m), a, carry) = V!SetA(Splat(m), x, m.n, FALSE, carry)
  <2>1. V!HighDigit(Splat(m), a, carry) = high
    BY <1>3, <1>6, SameNum, Zenon DEF V!HighDigit
  <2>2. V!LowDigit(Splat(m), high) = low
    BY <1>4, <1>6, SameLow, Zenon DEF V!LowDigit
  <2> QED BY <1>5, <1>6, <2>1, <2>2, SameLow, Zenon DEF V!Adjusted
<1>9. Lifts(m, S!SetA(m, x, m.n, FALSE, carry), V!SetA(Splat(m), x, m.n, FALSE, carry), 0)
  BY <1>6, SetAResultLifts
<1>10. S!Daa(m) = S!Done(S!Adjusted(m, a, carry), 4)
  BY <1>1, <1>2, Zenon DEF S!Daa, Scalar!ToU8
<1>11. V!Daa(Splat(m)) = V!Done(V!Adjusted(Splat(m), a, carry), 4)
  <2>1. ToU8(Splat(m).r[V!A]) = a
    BY <1>1, LeavesLanes
  <2> QED BY <1>2, <1>6, <2>1, Zenon DEF V!Daa
<1>12. Lifts(m, S!Adjusted(m, a, carry), V!Adjusted(Splat(m), a, carry), 0)
  BY <1>7, <1>8, <1>9, Zenon
<1>13. Pays(m, S!Done(S!Adjusted(m, a, carry), 4), V!Done(V!Adjusted(Splat(m), a, carry), 4))
  BY <1>12, Paid
<1> QED BY <1>10, <1>11, <1>13, Zenon

LEMMA CplPays ==
    ASSUME NEW m \in Machines
    PROVE Pays(m, S!Cpl(m), V!Cpl(Splat(m)))
<1>1. PICK a \in Byte : a = m.r[S!A] /\ Splat(m).r[V!A] = FromU8(a)
  BY Accumulator
<1>2. PICK x \in Byte : x = 255 - a
  BY InByte
<1>3. m.z \in BOOLEAN /\ m.c \in BOOLEAN /\ Splat(m).z = m.z /\ Splat(m).c = m.c
  BY MachineFields, SplatFields
<1>4. PICK n, v : /\ n = S!SetFlags([m EXCEPT !.r[S!A] = x], m.z, TRUE, TRUE, m.c)
                  /\ v = V!SetFlags([Splat(m) EXCEPT !.r[V!A] = FromU8(x)], m.z, TRUE, TRUE, m.c)
  OBVIOUS
<1>5. Lifts(m, n, v, 0)
  BY <1>3, <1>4, TRUE \in BOOLEAN, AAndFlagsLift, Zenon
<1>6. S!Cpl(m) = S!Done(n, 4)
  BY <1>1, <1>2, <1>4, Zenon DEF S!Cpl, Scalar!FromU8, Scalar!ToU8
<1>7. V!Cpl(Splat(m)) = V!Done(v, 4)
  <2>1. ToU8(Splat(m).r[V!A]) = a
    BY <1>1, LeavesLanes
  <2> QED BY <1>2, <1>3, <1>4, <2>1, Zenon DEF V!Cpl
<1> QED BY <1>5, <1>6, <1>7, Paid

LEMMA ScfCcfPay ==
    ASSUME NEW m \in Machines
    PROVE Pays(m, S!Scf(m), V!Scf(Splat(m))) /\ Pays(m, S!Ccf(m), V!Ccf(Splat(m)))
<1>1. m.z \in BOOLEAN /\ Splat(m).z = m.z /\ Splat(m).c = m.c
  BY MachineFields, SplatFields
<1>2. PICK kept \in BOOLEAN : kept = ~m.c
  OBVIOUS
<1>3. \A c \in BOOLEAN : Lifts(m, S!SetFlags(m, m.z, FALSE, FALSE, c),
                               V!SetFlags(Splat(m), m.z, FALSE, FALSE, c), 0)
  BY <1>1, SetFlagsLifts
<1>4. \A c \in BOOLEAN : Pays(m, S!Done(S!SetFlags(m, m.z, FALSE, FALSE, c), 4),
                                 V!Done(V!SetFlags(Splat(m), m.z, FALSE, FALSE, c), 4))
  <2> TAKE c \in BOOLEAN
  <2>1. Lifts(m, S!SetFlags(m, m.z, FALSE, FALSE, c), V!SetFlags(Splat(m), m.z, FALSE, FALSE, c), 0)
    BY <1>3
  <2> QED BY <2>1, Free, Zenon
<1> QED BY <1>1, <1>2, <1>4, Zenon DEF S!Scf, V!Scf, S!Ccf, V!Ccf

(* Rotations and shifts.                                                   *)
LEMMA RotatedBytes ==
    ASSUME NEW x \in Byte, NEW b \in {0, 1}
    PROVE /\ AsByte(2 * x) + b \in Byte /\ x \div 2 + 128 * b \in Byte
          /\ AsByte(2 * x) \in Byte /\ x \div 2 \in Byte
          /\ x \div 2 + 128 * (x % 2) \in Byte
          /\ 16 * (x % 16) + x \div 16 \in Byte
<1>1. x \in Int /\ 0 <= x /\ x <= 255
  BY InByte
<1>2. (2 * x) % 256 \in Int /\ 0 <= (2 * x) % 256 /\ (2 * x) % 256 <= 254
  BY <1>1, SMT
<1>3. x \div 2 \in Int /\ 0 <= x \div 2 /\ x \div 2 <= 127 /\ x % 2 \in {0, 1}
  BY <1>1, SMT
<1>4. x \div 16 \in Int /\ 0 <= x \div 16 /\ x \div 16 <= 15
  BY <1>1, SMT
<1>5. x % 16 \in Int /\ 0 <= x % 16 /\ x % 16 <= 15
  BY <1>1, SMT
<1>6. AsByte(2 * x) + b \in Byte /\ AsByte(2 * x) \in Byte
  BY <1>2, InByte DEF AsByte
<1>7. x \div 2 + 128 * b \in Byte /\ x \div 2 \in Byte /\ x \div 2 + 128 * (x % 2) \in Byte
  BY <1>3, InByte
<1>8. 16 * (x % 16) + x \div 16 \in Byte
  BY <1>4, <1>5, InByte
<1> QED BY <1>6, <1>7, <1>8

LEMMA SameRotated ==
    ASSUME NEW variant \in 0 .. 7, NEW x \in Byte, NEW carry \in BOOLEAN
    PROVE /\ V!Rotated(variant, x, carry) = S!Rotated(variant, x, carry)
          /\ S!Rotated(variant, x, carry).value \in Byte
          /\ S!Rotated(variant, x, carry).c \in BOOLEAN
<1> DEFINE top == Bit(x, 128)
           last == Bit(x, 1)
<1>1. top \in BOOLEAN /\ last \in BOOLEAN /\ Num(top) \in {0, 1} /\ Num(carry) \in {0, 1}
  BY BitBoolean, NumIs
<1>2. /\ AsByte(2 * x) + Num(top) \in Byte /\ AsByte(2 * x) + Num(carry) \in Byte
      /\ x \div 2 + 128 * (x % 2) \in Byte /\ x \div 2 + 128 * Num(carry) \in Byte
      /\ AsByte(2 * x) \in Byte /\ x \div 2 \in Byte /\ x \div 2 + 128 * Num(top) \in Byte
      /\ 16 * (x % 16) + x \div 16 \in Byte
  BY <1>1, RotatedBytes
<1>3. /\ S!Rlc(x) = [value |-> AsByte(2 * x) + Num(top), c |-> top]
      /\ V!Rlc(x) = [value |-> AsByte(2 * x) + Num(top), c |-> top]
  BY SameBit, SameNum, SameLow, Zenon DEF S!Rlc, V!Rlc
<1>4. /\ S!Rrc(x) = [value |-> x \div 2 + 128 * (x % 2), c |-> last]
      /\ V!Rrc(x) = [value |-> x \div 2 + 128 * (x % 2), c |-> last]
  BY SameBit, SameNum, SameLow, Zenon DEF S!Rrc, V!Rrc
<1>5. /\ S!Rl(x, carry) = [value |-> AsByte(2 * x) + Num(carry), c |-> top]
      /\ V!Rl(x, carry) = [value |-> AsByte(2 * x) + Num(carry), c |-> top]
  BY SameBit, SameNum, SameLow, Zenon DEF S!Rl, V!Rl
<1>6. /\ S!Rr(x, carry) = [value |-> x \div 2 + 128 * Num(carry), c |-> last]
      /\ V!Rr(x, carry) = [value |-> x \div 2 + 128 * Num(carry), c |-> last]
  BY SameBit, SameNum, SameLow, Zenon DEF S!Rr, V!Rr
<1>7. /\ S!Sla(x) = [value |-> AsByte(2 * x), c |-> top]
      /\ V!Sla(x) = [value |-> AsByte(2 * x), c |-> top]
  BY SameBit, SameNum, SameLow, Zenon DEF S!Sla, V!Sla
<1>8. /\ S!Sra(x) = [value |-> x \div 2 + 128 * Num(top), c |-> last]
      /\ V!Sra(x) = [value |-> x \div 2 + 128 * Num(top), c |-> last]
  BY SameBit, SameNum, SameLow, Zenon DEF S!Sra, V!Sra
<1>9. /\ S!Swap(x) = [value |-> 16 * (x % 16) + x \div 16, c |-> FALSE]
      /\ V!Swap(x) = [value |-> 16 * (x % 16) + x \div 16, c |-> FALSE]
  BY Zenon DEF S!Swap, V!Swap
<1>10. /\ S!Srl(x) = [value |-> x \div 2, c |-> last]
       /\ V!Srl(x) = [value |-> x \div 2, c |-> last]
  BY SameBit, Zenon DEF S!Srl, V!Srl
<1> HIDE DEF top, last
<1> DEFINE Good(r) == r.value \in Byte /\ r.c \in BOOLEAN
<1>11. /\ Good(S!Rlc(x)) /\ Good(S!Rrc(x)) /\ Good(S!Rl(x, carry)) /\ Good(S!Rr(x, carry))
       /\ Good(S!Sla(x)) /\ Good(S!Sra(x)) /\ Good(S!Swap(x)) /\ Good(S!Srl(x))
  BY <1>1, <1>2, <1>3, <1>4, <1>5, <1>6, <1>7, <1>8, <1>9, <1>10
<1>12. /\ V!Rlc(x) = S!Rlc(x) /\ V!Rrc(x) = S!Rrc(x) /\ V!Rl(x, carry) = S!Rl(x, carry)
       /\ V!Rr(x, carry) = S!Rr(x, carry) /\ V!Sla(x) = S!Sla(x) /\ V!Sra(x) = S!Sra(x)
       /\ V!Swap(x) = S!Swap(x) /\ V!Srl(x) = S!Srl(x)
  BY <1>3, <1>4, <1>5, <1>6, <1>7, <1>8, <1>9, <1>10, Zenon
<1> HIDE DEF Good
<1>13. /\ S!Rotated(variant, x, carry) \in
            {S!Rlc(x), S!Rrc(x), S!Rl(x, carry), S!Rr(x, carry), S!Sla(x), S!Sra(x),
             S!Swap(x), S!Srl(x)}
       /\ V!Rotated(variant, x, carry) = S!Rotated(variant, x, carry)
  BY <1>12 DEF S!Rotated, V!Rotated
<1>14. Good(S!Rotated(variant, x, carry))
  BY <1>11, <1>13
<1> QED BY <1>13, <1>14 DEF Good

LEMMA RotateAPays ==
    ASSUME NEW m \in Machines, NEW variant \in 0 .. 7
    PROVE Pays(m, S!RotateA(m, variant), V!RotateA(Splat(m), variant))
<1>1. PICK a \in Byte, carry \in BOOLEAN :
        a = m.r[S!A] /\ Splat(m).r[V!A] = FromU8(a) /\ carry = m.c /\ Splat(m).c = carry
  BY Accumulator, MachineFields, SplatFields
<1>2. PICK rot : rot = S!Rotated(variant, a, carry)
  OBVIOUS
<1>3. V!Rotated(variant, a, carry) = rot /\ rot.value \in Byte /\ rot.c \in BOOLEAN
  BY <1>2, SameRotated
<1>4. Lifts(m, S!WithRotated(m, rot), V!WithRotated(Splat(m), rot), 0)
  BY <1>3, FALSE \in BOOLEAN, AAndFlagsLift, Zenon DEF S!WithRotated, V!WithRotated, Scalar!FromU8
<1>5. Pays(m, S!Done(S!WithRotated(m, rot), 4), V!Done(V!WithRotated(Splat(m), rot), 4))
  BY <1>4, Paid
<1>6. S!RotateA(m, variant) = S!Done(S!WithRotated(m, rot), 4)
  BY <1>1, <1>2, Zenon DEF S!RotateA, Scalar!ToU8
<1>7. V!RotateA(Splat(m), variant) = V!Done(V!WithRotated(Splat(m), rot), 4)
  BY <1>1, <1>3, LeavesLanes, Zenon DEF V!RotateA
<1> QED BY <1>5, <1>6, <1>7, Zenon

(* ... whose write-back takes as many cycles as its read.                  *)
LEMMA RmwLifts ==
    ASSUME NEW m \in Machines, NEW code \in 0 .. 7, NEW f, NEW g, NEW a, NEW b,
           Reads8(m, f, g, S!Extra(code)), Reads8(f.m, a, b, 0)
    PROVE Lifts(m, S!WriteR8(a.m, code, a.value), V!WriteR8(b.m, code, b.value), 2 * S!Extra(code))
<1>1. S!Extra(code) \in Nat /\ S!Extra(code) + S!Extra(code) = 2 * S!Extra(code)
  BY SameExtra
<1>2. /\ f.m \in Machines /\ a.m \in Machines /\ b.m = Splat(a.m) /\ a.value \in Byte
      /\ b.value = FromU8(a.value)
  BY DEF Reads8, Lifts, Spends
<1>3. Lifts(a.m, S!WriteR8(a.m, code, a.value), V!WriteR8(b.m, code, b.value), S!Extra(code))
  BY <1>2, WriteR8Lifts
<1>4. Lifts(m, a.m, b.m, S!Extra(code))
  BY <1>1, LiftsAfter DEF Reads8
<1>5. Lifts(m, S!WriteR8(a.m, code, a.value), V!WriteR8(b.m, code, b.value),
            S!Extra(code) + S!Extra(code))
  BY <1>1, <1>3, <1>4, LiftsChain
<1> QED BY <1>1, <1>5, Zenon

LEMMA RotatedIntoReads ==
    ASSUME NEW m \in Machines, NEW rot, rot.value \in Byte, rot.c \in BOOLEAN
    PROVE Reads8(m, S!RotatedInto(m, rot), V!RotatedInto(Splat(m), rot), 0)
<1>1. PICK z \in BOOLEAN : z = (rot.value = 0)
  OBVIOUS
<1>2. Lifts(m, S!SetFlags(m, z, FALSE, FALSE, rot.c),
            V!SetFlags(Splat(m), z, FALSE, FALSE, rot.c), 0)
  BY FALSE \in BOOLEAN, SetFlagsLifts
<1>3. /\ S!RotatedInto(m, rot) = [value |-> rot.value, m |-> S!SetFlags(m, z, FALSE, FALSE, rot.c)]
      /\ V!RotatedInto(Splat(m), rot)
           = [value |-> FromU8(rot.value), m |-> V!SetFlags(Splat(m), z, FALSE, FALSE, rot.c)]
  BY <1>1, Zenon DEF S!RotatedInto, V!RotatedInto, Scalar!FromU8
<1>4. PICK p, w : /\ p = S!SetFlags(m, z, FALSE, FALSE, rot.c)
                  /\ w = V!SetFlags(Splat(m), z, FALSE, FALSE, rot.c)
  OBVIOUS
<1>5. /\ Lifts(m, p, w, 0) /\ S!RotatedInto(m, rot) = [value |-> rot.value, m |-> p]
      /\ V!RotatedInto(Splat(m), rot) = [value |-> FromU8(rot.value), m |-> w]
  BY <1>2, <1>3, <1>4, Zenon
<1> QED BY <1>5 DEF Reads8

LEMMA CbRotateLifts ==
    ASSUME NEW m \in Machines, NEW variant \in 0 .. 7, NEW code \in 0 .. 7
    PROVE Lifts(m, S!CbRotate(m, variant, code), V!CbRotate(Splat(m), variant, code),
                2 * S!Extra(code))
<1>1. PICK f, g : f = S!ReadR8(m, code) /\ g = V!ReadR8(Splat(m), code)
  OBVIOUS
<1>2. Reads8(m, f, g, S!Extra(code))
  BY <1>1, ReadR8Reads
<1>3. f.m \in Machines /\ g.m = Splat(f.m) /\ f.value \in Byte /\ g.value = FromU8(f.value)
  BY <1>2 DEF Reads8, Lifts, Spends
<1>4. PICK rot : rot = S!Rotated(variant, f.value, f.m.c)
  OBVIOUS
<1>5. f.m.c \in BOOLEAN /\ g.m.c = f.m.c
  BY <1>3, MachineFields, SplatFields
<1>6. V!Rotated(variant, f.value, f.m.c) = rot /\ rot.value \in Byte /\ rot.c \in BOOLEAN
  BY <1>3, <1>4, <1>5, SameRotated
<1>7. PICK a, b : a = S!RotatedInto(f.m, rot) /\ b = V!RotatedInto(g.m, rot)
  OBVIOUS
<1>8. Reads8(f.m, a, b, 0)
  BY <1>3, <1>6, <1>7, RotatedIntoReads
<1>9. S!CbRotate(m, variant, code) = S!WriteR8(a.m, code, a.value)
  BY <1>1, <1>4, <1>7, Zenon DEF S!CbRotate, S!ReadModifyWrite, S!Then, Scalar!ToU8
<1>10. V!CbRotate(Splat(m), variant, code) = V!WriteR8(b.m, code, b.value)
  <2>1. ToU8(g.value) = f.value
    BY <1>3, LeavesLanes
  <2> QED BY <1>1, <1>5, <1>6, <1>7, <2>1, Zenon DEF V!CbRotate, V!ReadModifyWrite, V!Then
<1> QED BY <1>2, <1>8, <1>9, <1>10, RmwLifts

(* The weights of the bits of a byte, and what setting and clearing a bit  *)
(* makes of it.                                                            *)
LEMMA Weights ==
    ASSUME NEW bit \in 0 .. 7
    PROVE \E w \in {1, 2, 4, 8, 16, 32, 64, 128} : w = 2 ^ bit
<1>1. bit \in {0, 1, 2, 3, 4, 5, 6, 7}
  OBVIOUS
<1>2. /\ 2 ^ 0 = 1 /\ 2 ^ 1 = 2 /\ 2 ^ 2 = 4 /\ 2 ^ 3 = 8 /\ 2 ^ 4 = 16 /\ 2 ^ 5 = 32
      /\ 2 ^ 6 = 64 /\ 2 ^ 7 = 128
  OBVIOUS
<1> DEFINE p(k) == 2 ^ k
<1>3. /\ p(0) = 1 /\ p(1) = 2 /\ p(2) = 4 /\ p(3) = 8 /\ p(4) = 16 /\ p(5) = 32 /\ p(6) = 64
      /\ p(7) = 128
  BY <1>2
<1> HIDE DEF p
<1>4. p(bit) \in {1, 2, 4, 8, 16, 32, 64, 128}
  BY <1>1, <1>3
<1> QED BY <1>4, Zenon DEF p

LEMMA SetAndCleared ==
    ASSUME NEW x \in Byte, NEW w \in {1, 2, 4, 8, 16, 32, 64, 128}
    PROVE x - w * Num(Bit(x, w)) \in Byte /\ x + w * Num(~Bit(x, w)) \in Byte
<1>1. x \in Int /\ 0 <= x /\ x <= 255
  BY InByte
<1>2. ASSUME Bit(x, w) PROVE w <= x
  BY <1>1, <1>2, SMT DEF Bit
<1>3. ASSUME ~Bit(x, w) PROVE x + w <= 255
  BY <1>1, <1>3, SMT DEF Bit
<1> QED BY <1>1, <1>2, <1>3, InByte DEF Num

LEMMA WriteBackLifts ==
    ASSUME NEW m \in Machines, NEW code \in 0 .. 7, NEW n, NEW v, NEW x \in Byte,
           Lifts(m, n, v, S!Extra(code))
    PROVE Lifts(m, S!WriteR8(n, code, x), V!WriteR8(v, code, FromU8(x)), 2 * S!Extra(code))
<1>1. S!Extra(code) \in Nat /\ S!Extra(code) + S!Extra(code) = 2 * S!Extra(code)
  BY SameExtra
<1>2. n \in Machines /\ v = Splat(n)
  BY DEF Lifts, Spends
<1>3. Lifts(n, S!WriteR8(n, code, x), V!WriteR8(v, code, FromU8(x)), S!Extra(code))
  BY <1>2, WriteR8Lifts
<1>4. Lifts(m, S!WriteR8(n, code, x), V!WriteR8(v, code, FromU8(x)), S!Extra(code) + S!Extra(code))
  BY <1>1, <1>3, LiftsChain
<1> QED BY <1>1, <1>4, Zenon

LEMMA CbResIs ==
    ASSUME NEW m, NEW bit, NEW code, NEW f, NEW x, NEW w, NEW y, w = 2 ^ bit,
           y = x - w * Num(Bit(x, w))
    PROVE /\ (f = S!ReadR8(m, code) /\ f.value = x) =>
               S!CbRes(m, bit, code) = S!WriteR8(f.m, code, y)
          /\ (f = V!ReadR8(m, code) /\ ToU8(f.value) = x) =>
                V!CbRes(m, bit, code) = V!WriteR8(f.m, code, FromU8(y))
<1>1. ASSUME f = S!ReadR8(m, code), f.value = x
      PROVE S!CbRes(m, bit, code) = S!WriteR8(f.m, code, y)
  <2>1. S!CbRes(m, bit, code)
            = S!WriteR8([value |-> y, m |-> f.m].m, code, [value |-> y, m |-> f.m].value)
    BY <1>1, SameBit, SameNum, Zenon DEF S!CbRes, S!ReadModifyWrite, S!Then, Scalar!ToU8,
       Scalar!FromU8
  <2> QED BY <2>1
<1>2. ASSUME f = V!ReadR8(m, code), ToU8(f.value) = x
      PROVE V!CbRes(m, bit, code) = V!WriteR8(f.m, code, FromU8(y))
  <2>1. V!CbRes(m, bit, code)
          = V!WriteR8([value |-> FromU8(y), m |-> f.m].m, code,
                      [value |-> FromU8(y), m |-> f.m].value)
    BY <1>2, SameBit, SameNum, Zenon DEF V!CbRes, V!ReadModifyWrite, V!Then
  <2> QED BY <2>1
<1> QED BY <1>1, <1>2

LEMMA CbResLifts ==
    ASSUME NEW m \in Machines, NEW bit \in 0 .. 7, NEW code \in 0 .. 7
    PROVE Lifts(m, S!CbRes(m, bit, code), V!CbRes(Splat(m), bit, code), 2 * S!Extra(code))
<1>1. PICK f, g : f = S!ReadR8(m, code) /\ g = V!ReadR8(Splat(m), code)
  OBVIOUS
<1>2. Reads8(m, f, g, S!Extra(code))
  BY <1>1, ReadR8Reads
<1>3. f.value \in Byte /\ ToU8(g.value) = f.value
  BY <1>2, LeavesLanes DEF Reads8
<1>4. PICK w \in {1, 2, 4, 8, 16, 32, 64, 128} : w = 2 ^ bit
  BY Weights
<1>5. PICK y \in Byte : y = f.value - w * Num(Bit(f.value, w))
  BY <1>3, SetAndCleared
<1>6. S!CbRes(m, bit, code) = S!WriteR8(f.m, code, y)
  BY <1>1, <1>4, <1>5, CbResIs
<1>7. V!CbRes(Splat(m), bit, code) = V!WriteR8(g.m, code, FromU8(y))
  BY <1>1, <1>3, <1>4, <1>5, CbResIs
<1> QED BY <1>2, <1>6, <1>7, WriteBackLifts DEF Reads8

LEMMA CbSetIs ==
    ASSUME NEW m, NEW bit, NEW code, NEW f, NEW x, NEW w, NEW y, w = 2 ^ bit,
           y = x + w * Num(~Bit(x, w))
    PROVE /\ (f = S!ReadR8(m, code) /\ f.value = x) =>
               S!CbSet(m, bit, code) = S!WriteR8(f.m, code, y)
          /\ (f = V!ReadR8(m, code) /\ ToU8(f.value) = x) =>
                V!CbSet(m, bit, code) = V!WriteR8(f.m, code, FromU8(y))
<1>1. ASSUME f = S!ReadR8(m, code), f.value = x
      PROVE S!CbSet(m, bit, code) = S!WriteR8(f.m, code, y)
  <2>1. S!CbSet(m, bit, code)
            = S!WriteR8([value |-> y, m |-> f.m].m, code, [value |-> y, m |-> f.m].value)
    BY <1>1, SameBit, SameNum, Zenon DEF S!CbSet, S!ReadModifyWrite, S!Then, Scalar!ToU8,
       Scalar!FromU8
  <2> QED BY <2>1
<1>2. ASSUME f = V!ReadR8(m, code), ToU8(f.value) = x
      PROVE V!CbSet(m, bit, code) = V!WriteR8(f.m, code, FromU8(y))
  <2>1. V!CbSet(m, bit, code)
          = V!WriteR8([value |-> FromU8(y), m |-> f.m].m, code,
                      [value |-> FromU8(y), m |-> f.m].value)
    BY <1>2, SameBit, SameNum, Zenon DEF V!CbSet, V!ReadModifyWrite, V!Then
  <2> QED BY <2>1
<1> QED BY <1>1, <1>2

LEMMA CbSetLifts ==
    ASSUME NEW m \in Machines, NEW bit \in 0 .. 7, NEW code \in 0 .. 7
    PROVE Lifts(m, S!CbSet(m, bit, code), V!CbSet(Splat(m), bit, code), 2 * S!Extra(code))
<1>1. PICK f, g : f = S!ReadR8(m, code) /\ g = V!ReadR8(Splat(m), code)
  OBVIOUS
<1>2. Reads8(m, f, g, S!Extra(code))
  BY <1>1, ReadR8Reads
<1>3. f.value \in Byte /\ ToU8(g.value) = f.value
  BY <1>2, LeavesLanes DEF Reads8
<1>4. PICK w \in {1, 2, 4, 8, 16, 32, 64, 128} : w = 2 ^ bit
  BY Weights
<1>5. PICK y \in Byte : y = f.value + w * Num(~Bit(f.value, w))
  BY <1>3, SetAndCleared
<1>6. S!CbSet(m, bit, code) = S!WriteR8(f.m, code, y)
  BY <1>1, <1>4, <1>5, CbSetIs
<1>7. V!CbSet(Splat(m), bit, code) = V!WriteR8(g.m, code, FromU8(y))
  BY <1>1, <1>3, <1>4, <1>5, CbSetIs
<1> QED BY <1>2, <1>6, <1>7, WriteBackLifts DEF Reads8

LEMMA CbBitLifts ==
    ASSUME NEW m \in Machines, NEW bit \in 0 .. 7, NEW code \in 0 .. 7
    PROVE Lifts(m, S!CbBit(m, bit, code), V!CbBit(Splat(m), bit, code), S!Extra(code))
<1>1. PICK f, g : f = S!ReadR8(m, code) /\ g = V!ReadR8(Splat(m), code)
  OBVIOUS
<1>2. Reads8(m, f, g, S!Extra(code))
  BY <1>1, ReadR8Reads
<1>3. f.m \in Machines /\ g.m = Splat(f.m) /\ f.value \in Byte /\ g.value = FromU8(f.value)
  BY <1>2 DEF Reads8, Lifts, Spends
<1>4. f.m.c \in BOOLEAN /\ g.m.c = f.m.c
  BY <1>3, MachineFields, SplatFields
<1>5. PICK z \in BOOLEAN : z = ~Bit(f.value, 2 ^ bit)
  OBVIOUS
<1>6. PICK n, v : /\ n = S!SetFlags(f.m, z, FALSE, TRUE, f.m.c)
                  /\ v = V!SetFlags(g.m, z, FALSE, TRUE, f.m.c)
  OBVIOUS
<1>7. Lifts(f.m, n, v, 0)
  BY <1>3, <1>4, <1>6, TRUE \in BOOLEAN, FALSE \in BOOLEAN, SetFlagsLifts, Zenon
<1>8. S!CbBit(m, bit, code) = n
  BY <1>1, <1>5, <1>6, SameBit, Zenon DEF S!CbBit, S!Then, Scalar!ToU8
<1>9. V!CbBit(Splat(m), bit, code) = v
  <2>1. ToU8(g.value) = f.value
    BY <1>3, LeavesLanes
  <2> QED BY <1>1, <1>4, <1>5, <1>6, <2>1, SameBit, Zenon DEF V!CbBit, V!Then
<1>10. S!Extra(code) \in Nat
  BY SameExtra
<1> QED BY <1>2, <1>7, <1>8, <1>9, <1>10, LiftsAfter DEF Reads8

(* The second opcode byte is fetched before: four cycles more.             *)
PaysLess(m, done, vdone) ==
    /\ done.cost \in Nat /\ vdone.cost = done.cost
    /\ \E cycles \in Nat : Lifts(m, done.m, vdone.m, cycles) /\ cycles + 8 <= done.cost

LEMMA PaidLess ==
    ASSUME NEW m, NEW n, NEW v, NEW cycles \in Nat, NEW cost \in Nat,
           Lifts(m, n, v, cycles), cycles + 8 <= cost
    PROVE PaysLess(m, S!Done(n, cost), V!Done(v, cost))
BY DEF PaysLess, S!Done, V!Done

LEMMA CbOpPays ==
    ASSUME NEW m \in Machines, NEW variant \in 0 .. 3, NEW y \in 0 .. 7, NEW code \in 0 .. 7
    PROVE PaysLess(m, S!CbOp(m, variant, y, code), V!CbOp(Splat(m), variant, y, code))
<1>1. PICK extra \in Nat : extra = S!Extra(code) /\ extra = V!Extra(code)
  BY SameExtra
<1>2. 2 * extra \in Nat /\ 8 + 2 * extra \in Nat /\ 8 + extra \in Nat
      /\ 2 * extra + 8 <= 8 + 2 * extra /\ extra + 8 <= 8 + extra
  OBVIOUS
<1>3. /\ PaysLess(m, S!Done(S!CbRotate(m, y, code), 8 + 2 * extra),
                  V!Done(V!CbRotate(Splat(m), y, code), 8 + 2 * extra))
      /\ PaysLess(m, S!Done(S!CbBit(m, y, code), 8 + extra),
                  V!Done(V!CbBit(Splat(m), y, code), 8 + extra))
      /\ PaysLess(m, S!Done(S!CbRes(m, y, code), 8 + 2 * extra),
                  V!Done(V!CbRes(Splat(m), y, code), 8 + 2 * extra))
      /\ PaysLess(m, S!Done(S!CbSet(m, y, code), 8 + 2 * extra),
                  V!Done(V!CbSet(Splat(m), y, code), 8 + 2 * extra))
  BY <1>1, <1>2, PaidLess, CbRotateLifts, CbBitLifts, CbResLifts, CbSetLifts
<1>4. variant \in {0, 1, 2, 3}
  OBVIOUS
<1> QED BY <1>1, <1>3, <1>4 DEF S!CbOp, V!CbOp

LEMMA CbCodes ==
    ASSUME NEW x \in Byte
    PROVE x \div 64 \in 0 .. 3 /\ (x \div 8) % 8 \in 0 .. 7 /\ x % 8 \in 0 .. 7
<1>1. x \in Int /\ 0 <= x /\ x <= 255
  BY InByte
<1> QED BY <1>1, SMT

LEMMA CbPays ==
    ASSUME NEW m \in Machines
    PROVE Pays(m, S!Cb(m), V!Cb(Splat(m)))
<1>1. PICK f, g : f = S!FetchImm8(m) /\ g = V!FetchImm8(Splat(m))
  OBVIOUS
<1>2. Reads8(m, f, g, 4)
  BY <1>1, FetchImm8Reads
<1>3. f.m \in Machines /\ g.m = Splat(f.m) /\ f.value \in Byte /\ g.value = FromU8(f.value)
  BY <1>2 DEF Reads8, Lifts, Spends
<1>4. PICK variant \in 0 .. 3, y \in 0 .. 7, code \in 0 .. 7 :
        variant = f.value \div 64 /\ y = (f.value \div 8) % 8 /\ code = f.value % 8
  BY <1>3, CbCodes
<1>5. PICK a, b : a = S!CbOp(f.m, variant, y, code) /\ b = V!CbOp(g.m, variant, y, code)
  OBVIOUS
<1>6. PaysLess(f.m, a, b)
  BY <1>3, <1>5, CbOpPays
<1>7. PICK cycles \in Nat : Lifts(f.m, a.m, b.m, cycles) /\ cycles + 8 <= a.cost
  BY <1>6 DEF PaysLess
<1>8. Lifts(m, a.m, b.m, 4 + cycles)
  BY <1>2, <1>7, LiftsChain DEF Reads8
<1>9. 4 + cycles \in Nat /\ (4 + cycles) + 4 <= a.cost
  BY <1>6, <1>7 DEF PaysLess
<1>10. S!Cb(m) = a
  BY <1>1, <1>4, <1>5, Zenon DEF S!Cb, S!Then, Scalar!ToU8
<1>11. V!Cb(Splat(m)) = b
  <2>1. ToU8(g.value) = f.value
    BY <1>3, LeavesLanes
  <2> QED BY <1>1, <1>4, <1>5, <2>1, Zenon DEF V!Cb, V!Then
<1> QED BY <1>6, <1>8, <1>9, <1>10, <1>11 DEF Pays, PaysLess

(* Every opcode's instruction, in the machine after the opcode fetch.      *)
LEMMA DispatchPays ==
    ASSUME NEW m \in Machines, NEW opcode \in Byte, NEW high, NEW cc \in 0 .. 3,
           NEW code \in 0 .. 7,
           high = opcode \div 16
    PROVE Pays(m, S!Dispatch(m, opcode, high, cc, code),
               V!Dispatch(Splat(m), opcode, high, cc, code))
<1>1. opcode \in Int /\ 0 <= opcode /\ opcode <= 255
  BY InByte
<1>2. /\ opcode < 64 => high \in 0 .. 3
      /\ opcode \in {2, 18, 10, 26} => high \in 0 .. 2
      /\ opcode \in 192 .. 255 => high - 12 \in 0 .. 3
  BY <1>1, SMT
<1> DEFINE g0 == opcode = 118
           g1 == opcode \in 64 .. 127 \ {118}
           g2 == opcode \in 128 .. 191
           g3 == opcode \in 192 .. 255 /\ opcode % 8 = 6
           g4 == opcode < 64 /\ opcode % 16 = 1
           g5 == opcode \in {2, 18}
           g6 == opcode \in {10, 26}
           g7 == opcode = 34
           g8 == opcode = 42
           g9 == opcode = 50
           g10 == opcode = 58
           g11 == opcode < 64 /\ opcode % 16 = 3
           g12 == opcode < 64 /\ opcode % 16 = 11
           g13 == opcode < 64 /\ opcode % 16 = 9
           g14 == opcode < 64 /\ opcode % 8 = 4
           g15 == opcode < 64 /\ opcode % 8 = 5
           g16 == opcode = 54
           g17 == opcode < 64 /\ opcode % 8 = 6 /\ opcode # 54
           g18 == opcode \in {7, 15, 23, 31}
           g19 == opcode = 8
           g20 == opcode = 16
           g21 == opcode = 24
           g22 == opcode \in {32, 40, 48, 56}
           g23 == opcode = 39
           g24 == opcode = 47
           g25 == opcode = 55
           g26 == opcode = 63
           g27 == opcode \in {192, 200, 208, 216}
           g28 == opcode \in {194, 202, 210, 218}
           g29 == opcode \in {196, 204, 212, 220}
           g30 == opcode \in 192 .. 255 /\ opcode % 8 = 7
           g31 == opcode \in 192 .. 255 /\ opcode % 16 = 1
           g32 == opcode \in 192 .. 255 /\ opcode % 16 = 5
           g33 == opcode = 195
           g34 == opcode = 201
           g35 == opcode = 203
           g36 == opcode = 205
           g37 == opcode = 217
           g38 == opcode = 233
           g39 == opcode = 224
           g40 == opcode = 240
           g41 == opcode = 226
           g42 == opcode = 242
           g43 == opcode = 234
           g44 == opcode = 250
           g45 == opcode = 232
           g46 == opcode = 248
           g47 == opcode = 249
           g48 == opcode = 243
           g49 == opcode = 251
<1>3. Pays(m, S!Halt(m), V!Halt(Splat(m)))
  BY HaltPays
<1>4. Pays(m, S!LdRR(m, opcode), V!LdRR(Splat(m), opcode))
  BY LdRRPays
<1>5. Pays(m, S!AluAR(m, opcode), V!AluAR(Splat(m), opcode))
  BY AluARPays
<1>6. Pays(m, S!AluAD8(m, opcode), V!AluAD8(Splat(m), opcode))
  BY AluAD8Pays
<1>7. g4 => Pays(m, S!LdRrD16(m, high), V!LdRrD16(Splat(m), high))
  BY <1>2, LdRrD16Pays
<1>8. g5 => Pays(m, S!LdMemRrA(m, high), V!LdMemRrA(Splat(m), high))
  BY <1>2, LdMemRrAPays
<1>9. g6 => Pays(m, S!LdAMemRr(m, high), V!LdAMemRr(Splat(m), high))
  BY <1>2, LdAMemRrPays
<1>10. Pays(m, S!LdStepHlA(m, 1), V!LdStepHlA(Splat(m), 1))
  BY LdStepHlAPays
<1>11. Pays(m, S!LdStepAHl(m, 1), V!LdStepAHl(Splat(m), 1))
  BY LdStepAHlPays
<1>12. Pays(m, S!LdStepHlA(m, -1), V!LdStepHlA(Splat(m), -1))
  BY LdStepHlAPays
<1>13. Pays(m, S!LdStepAHl(m, -1), V!LdStepAHl(Splat(m), -1))
  BY LdStepAHlPays
<1>14. g11 => Pays(m, S!IncRr(m, high), V!IncRr(Splat(m), high))
  BY <1>2, IncRrPays
<1>15. g12 => Pays(m, S!DecRr(m, high), V!DecRr(Splat(m), high))
  BY <1>2, DecRrPays
<1>16. g13 => Pays(m, S!AddHlRr(m, high), V!AddHlRr(Splat(m), high))
  BY <1>2, AddHlRrPays
<1>17. Pays(m, S!IncR(m, code), V!IncR(Splat(m), code))
  BY IncRPays
<1>18. Pays(m, S!DecR(m, code), V!DecR(Splat(m), code))
  BY DecRPays
<1>19. Pays(m, S!LdHlD8(m), V!LdHlD8(Splat(m)))
  BY LdHlD8Pays
<1>20. Pays(m, S!LdRD8(m, code), V!LdRD8(Splat(m), code))
  BY LdRD8Pays
<1>21. Pays(m, S!RotateA(m, code), V!RotateA(Splat(m), code))
  BY RotateAPays
<1>22. Pays(m, S!LdMemA16Sp(m), V!LdMemA16Sp(Splat(m)))
  BY LdMemA16SpPays
<1>23. Pays(m, S!Stop(m), V!Stop(Splat(m)))
  BY StopPays
<1>24. Pays(m, S!Jr(m), V!Jr(Splat(m)))
  BY JrPays
<1>25. Pays(m, S!JrCc(m, cc), V!JrCc(Splat(m), cc))
  BY JrCcPays
<1>26. Pays(m, S!Daa(m), V!Daa(Splat(m)))
  BY DaaPays
<1>27. Pays(m, S!Cpl(m), V!Cpl(Splat(m)))
  BY CplPays
<1>28. Pays(m, S!Scf(m), V!Scf(Splat(m)))
  BY ScfCcfPay
<1>29. Pays(m, S!Ccf(m), V!Ccf(Splat(m)))
  BY ScfCcfPay
<1>30. Pays(m, S!RetCc(m, cc), V!RetCc(Splat(m), cc))
  BY RetCcPays
<1>31. Pays(m, S!JpCcA16(m, cc), V!JpCcA16(Splat(m), cc))
  BY JpCcA16Pays
<1>32. Pays(m, S!CallCcA16(m, cc), V!CallCcA16(Splat(m), cc))
  BY CallCcA16Pays
<1>33. g30 => Pays(m, S!Rst(m, opcode), V!Rst(Splat(m), opcode))
  BY <1>1, RstPays
<1>34. g31 => Pays(m, S!PopRr(m, high - 12), V!PopRr(Splat(m), high - 12))
  BY <1>2, PopRrPays
<1>35. g32 => Pays(m, S!PushRr(m, high - 12), V!PushRr(Splat(m), high - 12))
  BY <1>2, PushRrPays
<1>36. Pays(m, S!JpA16(m), V!JpA16(Splat(m)))
  BY JpA16Pays
<1>37. Pays(m, S!Ret(m), V!Ret(Splat(m)))
  BY RetPays
<1>38. Pays(m, S!Cb(m), V!Cb(Splat(m)))
  BY CbPays
<1>39. Pays(m, S!CallA16(m), V!CallA16(Splat(m)))
  BY CallA16Pays
<1>40. Pays(m, S!Reti(m), V!Reti(Splat(m)))
  BY RetiPays
<1>41. Pays(m, S!JpHl(m), V!JpHl(Splat(m)))
  BY JpHlPays
<1>42. Pays(m, S!LdhA8A(m), V!LdhA8A(Splat(m)))
  BY LdhA8APays
<1>43. Pays(m, S!LdhAA8(m), V!LdhAA8(Splat(m)))
  BY LdhAA8Pays
<1>44. Pays(m, S!LdhCA(m), V!LdhCA(Splat(m)))
  BY LdhCAPays
<1>45. Pays(m, S!LdhAC(m), V!LdhAC(Splat(m)))
  BY LdhACPays
<1>46. Pays(m, S!LdA16A(m), V!LdA16A(Splat(m)))
  BY LdA16APays
<1>47. Pays(m, S!LdAA16(m), V!LdAA16(Splat(m)))
  BY LdAA16Pays
<1>48. Pays(m, S!AddSpE8(m), V!AddSpE8(Splat(m)))
  BY AddSpE8Pays
<1>49. Pays(m, S!LdHlSpE8(m), V!LdHlSpE8(Splat(m)))
  BY LdHlSpE8Pays
<1>50. Pays(m, S!LdSpHl(m), V!LdSpHl(Splat(m)))
  BY LdSpHlPays
<1>51. Pays(m, S!Di(m), V!Di(Splat(m)))
  BY DiPays
<1>52. Pays(m, S!Ei(m), V!Ei(Splat(m)))
  BY EiPays
<1>53. Pays(m, S!Nop(m), V!Nop(Splat(m)))
  BY NopPays
<1>101. S!Dispatch(m, opcode, high, cc, code)
          = CASE g0 -> S!Halt(m)
              [] g1 -> S!LdRR(m, opcode)
              [] g2 -> S!AluAR(m, opcode)
              [] g3 -> S!AluAD8(m, opcode)
              [] g4 -> S!LdRrD16(m, high)
              [] g5 -> S!LdMemRrA(m, high)
              [] g6 -> S!LdAMemRr(m, high)
              [] g7 -> S!LdStepHlA(m, 1)
              [] g8 -> S!LdStepAHl(m, 1)
              [] g9 -> S!LdStepHlA(m, -1)
              [] g10 -> S!LdStepAHl(m, -1)
              [] g11 -> S!IncRr(m, high)
              [] g12 -> S!DecRr(m, high)
              [] g13 -> S!AddHlRr(m, high)
              [] g14 -> S!IncR(m, code)
              [] g15 -> S!DecR(m, code)
              [] g16 -> S!LdHlD8(m)
              [] g17 -> S!LdRD8(m, code)
              [] g18 -> S!RotateA(m, code)
              [] g19 -> S!LdMemA16Sp(m)
              [] g20 -> S!Stop(m)
              [] g21 -> S!Jr(m)
              [] g22 -> S!JrCc(m, cc)
              [] g23 -> S!Daa(m)
              [] g24 -> S!Cpl(m)
              [] g25 -> S!Scf(m)
              [] g26 -> S!Ccf(m)
              [] g27 -> S!RetCc(m, cc)
              [] g28 -> S!JpCcA16(m, cc)
              [] g29 -> S!CallCcA16(m, cc)
              [] g30 -> S!Rst(m, opcode)
              [] g31 -> S!PopRr(m, high - 12)
              [] g32 -> S!PushRr(m, high - 12)
              [] g33 -> S!JpA16(m)
              [] g34 -> S!Ret(m)
              [] g35 -> S!Cb(m)
              [] g36 -> S!CallA16(m)
              [] g37 -> S!Reti(m)
              [] g38 -> S!JpHl(m)
              [] g39 -> S!LdhA8A(m)
              [] g40 -> S!LdhAA8(m)
              [] g41 -> S!LdhCA(m)
              [] g42 -> S!LdhAC(m)
              [] g43 -> S!LdA16A(m)
              [] g44 -> S!LdAA16(m)
              [] g45 -> S!AddSpE8(m)
              [] g46 -> S!LdHlSpE8(m)
              [] g47 -> S!LdSpHl(m)
              [] g48 -> S!Di(m)
              [] g49 -> S!Ei(m)
              [] OTHER -> S!Nop(m)
  BY Zenon DEF S!Dispatch
<1>102. V!Dispatch(Splat(m), opcode, high, cc, code)
          = CASE g0 -> V!Halt(Splat(m))
              [] g1 -> V!LdRR(Splat(m), opcode)
              [] g2 -> V!AluAR(Splat(m), opcode)
              [] g3 -> V!AluAD8(Splat(m), opcode)
              [] g4 -> V!LdRrD16(Splat(m), high)
              [] g5 -> V!LdMemRrA(Splat(m), high)
              [] g6 -> V!LdAMemRr(Splat(m), high)
              [] g7 -> V!LdStepHlA(Splat(m), 1)
              [] g8 -> V!LdStepAHl(Splat(m), 1)
              [] g9 -> V!LdStepHlA(Splat(m), -1)
              [] g10 -> V!LdStepAHl(Splat(m), -1)
              [] g11 -> V!IncRr(Splat(m), high)
              [] g12 -> V!DecRr(Splat(m), high)
              [] g13 -> V!AddHlRr(Splat(m), high)
              [] g14 -> V!IncR(Splat(m), code)
              [] g15 -> V!DecR(Splat(m), code)
              [] g16 -> V!LdHlD8(Splat(m))
              [] g17 -> V!LdRD8(Splat(m), code)
              [] g18 -> V!RotateA(Splat(m), code)
              [] g19 -> V!LdMemA16Sp(Splat(m))
              [] g20 -> V!Stop(Splat(m))
              [] g21 -> V!Jr(Splat(m))
              [] g22 -> V!JrCc(Splat(m), cc)
              [] g23 -> V!Daa(Splat(m))
              [] g24 -> V!Cpl(Splat(m))
              [] g25 -> V!Scf(Splat(m))
              [] g26 -> V!Ccf(Splat(m))
              [] g27 -> V!RetCc(Splat(m), cc)
              [] g28 -> V!JpCcA16(Splat(m), cc)
              [] g29 -> V!CallCcA16(Splat(m), cc)
              [] g30 -> V!Rst(Splat(m), opcode)
              [] g31 -> V!PopRr(Splat(m), high - 12)
              [] g32 -> V!PushRr(Splat(m), high - 12)
              [] g33 -> V!JpA16(Splat(m))
              [] g34 -> V!Ret(Splat(m))
              [] g35 -> V!Cb(Splat(m))
              [] g36 -> V!CallA16(Splat(m))
              [] g37 -> V!Reti(Splat(m))
              [] g38 -> V!JpHl(Splat(m))
              [] g39 -> V!LdhA8A(Splat(m))
              [] g40 -> V!LdhAA8(Splat(m))
              [] g41 -> V!LdhCA(Splat(m))
              [] g42 -> V!LdhAC(Splat(m))
              [] g43 -> V!LdA16A(Splat(m))
              [] g44 -> V!LdAA16(Splat(m))
              [] g45 -> V!AddSpE8(Splat(m))
              [] g46 -> V!LdHlSpE8(Splat(m))
              [] g47 -> V!LdSpHl(Splat(m))
              [] g48 -> V!Di(Splat(m))
              [] g49 -> V!Ei(Splat(m))
              [] OTHER -> V!Nop(Splat(m))
  BY Zenon DEF V!Dispatch
<1> HIDE DEF g0, g1, g2, g3, g4, g5, g6, g7, g8, g9, g10, g11, g12, g13, g14, g15, g16, g17, g18,
             g19, g20, g21, g22, g23, g24, g25, g26, g27, g28, g29, g30, g31, g32, g33, g34, g35,
             g36, g37, g38, g39, g40, g41, g42, g43, g44, g45, g46, g47, g48, g49
<1> QED BY <1>3, <1>4, <1>5, <1>6, <1>7, <1>8, <1>9, <1>10, <1>11, <1>12, <1>13, <1>14, <1>15,
           <1>16, <1>17, <1>18, <1>19, <1>20, <1>21, <1>22, <1>23, <1>24, <1>25, <1>26, <1>27,
           <1>28, <1>29, <1>30, <1>31, <1>32, <1>33, <1>34, <1>35, <1>36, <1>37, <1>38, <1>39,
           <1>40, <1>41, <1>42, <1>43, <1>44, <1>45, <1>46, <1>47, <1>48, <1>49, <1>50, <1>51,
           <1>52, <1>53, <1>101, <1>102, SMT

(* EI takes effect after the instruction that follows.                     *)
LEMMA EnabledLifts ==
    ASSUME NEW m \in Machines, NEW pending \in BOOLEAN, NEW opcode
    PROVE Lifts(m, S!Enabled(m, pending, opcode), V!Enabled(Splat(m), pending, opcode), 0)
<1>1. CASE ~pending
  BY <1>1, Stays, Zenon DEF S!Enabled, V!Enabled
<1>2. CASE pending
  <2>1. PICK soon \in BOOLEAN : soon = (opcode = 251)
    OBVIOUS
  <2>2. PICK n, v : n = [m EXCEPT !.ime = TRUE] /\ v = [Splat(m) EXCEPT !.ime = TRUE]
    OBVIOUS
  <2>3. Lifts(m, n, v, 0) /\ n \in Machines /\ v = Splat(n)
    BY <2>2, TRUE \in BOOLEAN, ImeLifts DEF Lifts, Spends
  <2>4. PICK k, w : k = [n EXCEPT !.eiPending = soon] /\ w = [v EXCEPT !.eiPending = soon]
    OBVIOUS
  <2>5. Lifts(n, k, w, 0)
    BY <2>3, <2>4, EiLifts
  <2>6. Lifts(m, k, w, 0)
    BY <2>3, <2>5, LiftsAfter
  <2>7. S!Enabled(m, pending, opcode) = k
    BY <1>2, <2>1, <2>2, <2>4 DEF S!Enabled
  <2>8. V!Enabled(Splat(m), pending, opcode) = w
    BY <1>2, <2>1, <2>2, <2>4 DEF V!Enabled
  <2> QED BY <2>6, <2>7, <2>8, Zenon
<1> QED BY <1>1, <1>2

(* The rest of what an instruction reports is given at its end.            *)
LEMMA SettleLifts ==
    ASSUME NEW m \in Machines, NEW cost \in Nat, m.credit <= cost
    PROVE /\ S!Settle(m, cost) \in Machines /\ V!Settle(Splat(m), cost) = Splat(S!Settle(m, cost))
          /\ S!Settle(m, cost).clock = m.clock + cost - m.credit /\ S!Settle(m, cost).credit = 0
<1>1. m.clock \in Nat /\ m.credit \in Nat /\ Splat(m).clock = m.clock /\ Splat(m).credit = m.credit
  BY MachineFields, SplatFields
<1>2. PICK x \in Nat : x = m.clock + (IF cost > m.credit THEN cost - m.credit ELSE 0)
  BY <1>1
<1>3. x = m.clock + cost - m.credit
  BY <1>1, <1>2
<1>4. PICK n, v : n = [m EXCEPT !.clock = x] /\ v = [Splat(m) EXCEPT !.clock = x]
  OBVIOUS
<1>5. n \in Machines /\ v = Splat(n) /\ n.clock = x
  BY <1>4, ClockLifts
<1>6. /\ [n EXCEPT !.credit = 0] \in Machines
      /\ [v EXCEPT !.credit = 0] = Splat([n EXCEPT !.credit = 0])
      /\ [n EXCEPT !.credit = 0].credit = 0 /\ [n EXCEPT !.credit = 0].clock = x
  BY <1>5, ClockLifts, 0 \in Nat
<1>7. S!Settle(m, cost) = [n EXCEPT !.credit = 0]
  BY <1>2, <1>4, Zenon DEF S!Settle, S!Consume
<1>8. V!Settle(Splat(m), cost) = [v EXCEPT !.credit = 0]
  BY <1>1, <1>2, <1>4, Zenon DEF V!Settle, V!Consume
<1> QED BY <1>3, <1>6, <1>7, <1>8

(* One instruction: the lane-parallel core does in every lane what the     *)
(* scalar core does, and both give the devices the cycles they report.     *)
LEMMA ExecuteOpcodeLifts ==
    ASSUME NEW m \in Machines, NEW done, NEW vdone,
           done = S!ExecuteOpcode(m), vdone = V!ExecuteOpcode(Splat(m))
    PROVE /\ done.m \in Machines /\ vdone.m = Splat(done.m)
          /\ done.cost \in Nat /\ done.m.clock = m.clock + done.cost /\ done.m.credit = 0
<1>1. PICK s, t : s = [m EXCEPT !.credit = 0] /\ t = [Splat(m) EXCEPT !.credit = 0]
  OBVIOUS
<1>2. s \in Machines /\ t = Splat(s) /\ s.credit = 0 /\ s.clock = m.clock
  BY <1>1, ClockLifts, 0 \in Nat
<1>3. PICK f, g : f = S!Fetch8(s) /\ g = V!Fetch8(t)
  OBVIOUS
<1>4. Reads8(s, f, g, 0)
  BY <1>2, <1>3, Fetch8Reads
<1>5. PICK n, v : n = S!Credited(f.m) /\ v = V!Credited(g.m)
  OBVIOUS
<1>6. Lifts(f.m, n, v, 4) /\ n \in Machines /\ v = Splat(n)
  BY <1>4, <1>5, CreditedLifts DEF Reads8, Lifts, Spends
<1>7. PICK opcode \in Byte : opcode = f.value /\ ToU8(g.value) = opcode
  BY <1>4, LeavesLanes DEF Reads8
<1>8. m.eiPending \in BOOLEAN /\ Splat(m).eiPending = m.eiPending /\ m.clock \in Nat
  BY MachineFields, SplatFields
<1>9. n.clock = m.clock + 4 /\ n.credit = 4
  BY <1>2, <1>4, <1>6, <1>8 DEF Reads8, Lifts, Spends
<1>10. PICK d, e : /\ d
                          = S!Dispatch(n, opcode, opcode \div 16, (opcode \div 8) % 4,
                                       (opcode \div 8) % 8)
                   /\ e
                          = V!Dispatch(v, opcode, opcode \div 16, (opcode \div 8) % 4,
                                       (opcode \div 8) % 8)
  OBVIOUS
<1>11. Pays(n, d, e)
  <2>1. (opcode \div 8) % 4 \in 0 .. 3 /\ (opcode \div 8) % 8 \in 0 .. 7
    BY CodesOf
  <2> QED BY <1>6, <1>10, <2>1, DispatchPays
<1>12. PICK cycles \in Nat : Lifts(n, d.m, e.m, cycles) /\ cycles + 4 <= d.cost
  BY <1>11 DEF Pays
<1>13. PICK p, w : /\ p = S!Enabled(d.m, m.eiPending, opcode)
                   /\ w = V!Enabled(e.m, m.eiPending, opcode)
  OBVIOUS
<1>14. Lifts(d.m, p, w, 0)
  BY <1>8, <1>12, <1>13, EnabledLifts DEF Lifts, Spends
<1>15. d.cost \in Nat /\ e.cost = d.cost
  BY <1>11 DEF Pays
<1>16. /\ p \in Machines /\ w = Splat(p)
       /\ p.clock = m.clock + 4 + cycles /\ p.credit = 4 + cycles
  BY <1>8, <1>9, <1>12, <1>14 DEF Lifts, Spends
<1>17. /\ S!Settle(p, d.cost) \in Machines /\ V!Settle(w, d.cost) = Splat(S!Settle(p, d.cost))
       /\ S!Settle(p, d.cost).clock = p.clock + d.cost - p.credit /\ S!Settle(p, d.cost).credit = 0
  <2>1. p.credit <= d.cost
    BY <1>12, <1>15, <1>16
  <2> QED BY <1>15, <1>16, <2>1, SettleLifts
<1>18. S!ExecuteOpcode(m) = S!Done(S!Settle(p, d.cost), d.cost)
  BY <1>1, <1>3, <1>5, <1>7, <1>10, <1>13, Zenon
     DEF S!ExecuteOpcode, S!Then, S!Decoded, S!Finish, Scalar!ToU8
<1>19. V!ExecuteOpcode(Splat(m)) = V!Done(V!Settle(w, d.cost), d.cost)
  BY <1>1, <1>3, <1>5, <1>7, <1>8, <1>10, <1>13, <1>15, Zenon
     DEF V!ExecuteOpcode, V!Then, V!Decoded, V!Finish
<1>20. /\ done.m = S!Settle(p, d.cost) /\ done.cost = d.cost
       /\ vdone.m = V!Settle(w, d.cost)
  BY <1>18, <1>19 DEF S!Done, V!Done
<1> QED BY <1>8, <1>15, <1>16, <1>17, <1>20

(* ----------------------- both cores side by side ---------------------- *)

(* The two cores, one instruction at a time.                               *)
LaneSpec == LaneInit /\ [][LaneNext]_laneVars

(* The invariant behind both promises: the lane-parallel machine is the scalar*)
(* one in every lane, and between instructions the devices were given what was*)
(* billed, with nothing on credit.                                         *)
LanesIInv ==
    /\ scalar \in Machines /\ lanes = Splat(scalar)
    /\ scalar.clock = billed /\ scalar.credit = 0

(* A program starts on a machine with nothing spent.                       *)
LEMMA StartIsMachine ==
    ASSUME NEW p \in Programs
    PROVE  /\ ScalarStart(p) \in Machines
           /\ ScalarStart(p).clock = 0 /\ ScalarStart(p).credit = 0
<1>1. WellFormed(p)
  BY ProgramsAssumption
<1>2. p.code \in Memories
  <2>1. DOMAIN p.code \in SUBSET Word /\ p.code \in [DOMAIN p.code -> Byte]
    BY <1>1 DEF WellFormed
  <2> QED BY <2>1 DEF Memories
<1>3. Registers(p) \in [S!Codes -> Byte]
  <2>1. p.a \in Byte /\ p.x \in Byte /\ p.hl \div 256 \in Byte /\ p.hl % 256 \in Byte
    BY <1>1, HalvesOf DEF WellFormed
  <2> QED BY <2>1, Zenon DEF Registers
<1>4. /\ p.sp \in Word /\ p.entry \in Word /\ p.z \in BOOLEAN /\ p.n \in BOOLEAN
      /\ p.h \in BOOLEAN /\ p.c \in BOOLEAN
  BY <1>1 DEF WellFormed
<1> QED BY <1>2, <1>3, <1>4 DEF ScalarStart, Machines

LEMMA LaneInitIInv == LaneInit => LanesIInv
BY StartIsMachine DEF LaneInit, LaneStart, LanesIInv

LEMMA LaneNextIInv == LanesIInv /\ [LaneNext]_laneVars => LanesIInv'
<1> SUFFICES ASSUME LanesIInv, [LaneNext]_laneVars PROVE LanesIInv'
  OBVIOUS
<1>1. CASE Instruction
  <2>1. PICK s, v : s = S!ExecuteOpcode(scalar) /\ v = V!ExecuteOpcode(lanes)
    OBVIOUS
  <2>2. scalar' = s.m /\ lanes' = v.m /\ billed' = billed + s.cost
    BY <1>1, <2>1, Zenon DEF Instruction, Executed
  <2>3. /\ s.m \in Machines /\ v.m = Splat(s.m)
        /\ s.cost \in Nat /\ s.m.clock = scalar.clock + s.cost /\ s.m.credit = 0
    BY <2>1, ExecuteOpcodeLifts, Zenon DEF LanesIInv
  <2> QED BY <2>2, <2>3, Zenon DEF LanesIInv
<1>2. CASE UNCHANGED laneVars
  BY <1>2, Zenon DEF laneVars, LanesIInv
<1> QED BY <1>1, <1>2 DEF LaneNext

(* That holds after every number of instructions, for any programs: each of the*)
(* instructions keeps it (ExecuteOpcodeLifts).                             *)
THEOREM LanesInductive == LaneSpec => []LanesIInv
BY LaneInitIInv, LaneNextIInv, PTL DEF LaneSpec

(* Every lane holds the registers, flags, memory and clock of the scalar core*)
(* after the same instructions (Core::execute_opcode over ScalarExec and over*)
(* SimdExec).                                                              *)
THEOREM LanesMatch == LaneSpec => []LanesMatchScalar
<1>1. LanesIInv => LanesMatchScalar
  BY DEF LanesIInv, LanesMatchScalar
<1> QED BY <1>1, LanesInductive, PTL

(* The devices are given exactly the cycles the instructions report, on both*)
(* cores: no access of an instruction costs more than its own count        *)
(* (Core::execute_opcode, consume_cycles).                                 *)
THEOREM CyclesStayExact == LaneSpec => []CyclesExact
<1>1. LanesIInv => CyclesExact
  BY SplatFields DEF LanesIInv, CyclesExact
<1> QED BY <1>1, LanesInductive, PTL

LEMMA TopBit == ASSUME NEW x \in Int, 0 <= x, x <= 255 PROVE Bit(x, 128) <=> x >= 128
BY SMT DEF Bit

(* Of three, one or all.                                                   *)
Odd(p, q, r) == (p /\ q /\ r) \/ (p /\ ~q /\ ~r) \/ (~p /\ q /\ ~r) \/ (~p /\ ~q /\ r)

LEMMA OddSum ==
    ASSUME NEW i \in Int, NEW k \in Int, NEW carry \in {0, 1}
    PROVE /\ Odd(i % 2 = 1, k % 2 = 1, (i + k + carry) % 2 = 1) <=> carry = 1
          /\ Odd(i % 2 = 1, k % 2 = 1, (i - k - carry) % 2 = 1) <=> carry = 1
BY SMT DEF Odd

LEMMA HalfIsOdd ==
    ASSUME NEW a, NEW b, NEW s
    PROVE Scalar!HalfOf(a, b, s) <=> Odd(Bit(a, 16), Bit(b, 16), Bit(s, 16))
<1>1. PICK p \in BOOLEAN, q \in BOOLEAN, r \in BOOLEAN :
        p = Bit(a, 16) /\ q = Bit(b, 16) /\ r = Bit(s, 16)
  BY BitBoolean
<1>2. Scalar!HalfOf(a, b, s) <=> (p # q) # r
  BY <1>1, SameBit, Zenon DEF Scalar!HalfOf
<1>3. (p # q) # r <=> Odd(p, q, r)
  BY Zenon DEF Odd
<1> QED BY <1>1, <1>2, <1>3, Zenon

LEMMA HighHalf ==
    ASSUME NEW i \in Int, NEW l \in Int, 0 <= l, l <= 15
    PROVE (((16 * i + l) % 256) \div 16) % 2 = i % 2
BY SMT

LEMMA LowByte ==
    ASSUME NEW x \in Int, -256 <= x, x < 512
    PROVE x % 256 = IF x < 0 THEN x + 256 ELSE IF x < 256 THEN x ELSE x - 256
BY SMT

(* The flags of an addition are those of the numbers.                      *)
LEMMA HalfIsCarry ==
    ASSUME NEW a \in Byte, NEW b \in Byte, NEW c \in {0, 1}
    PROVE Scalar!HalfOf(a, b, (a + b + c) % 256) <=> (a % 16) + (b % 16) + c > 15
<1>1. PICK i \in Int, k \in Int, u \in Int, v \in Int :
        /\ a = 16 * i + u /\ 0 <= u /\ u <= 15 /\ u = a % 16 /\ i = a \div 16
        /\ b = 16 * k + v /\ 0 <= v /\ v <= 15 /\ v = b % 16 /\ k = b \div 16
  BY InByte, SMT
<1>2. PICK carry \in {0, 1}, l \in Int :
        /\ carry = IF u + v + c > 15 THEN 1 ELSE 0
        /\ l = u + v + c - 16 * carry /\ 0 <= l /\ l <= 15
  BY <1>1
<1>3. a + b + c = 16 * (i + k + carry) + l
  BY <1>1, <1>2
<1>4. (((a + b + c) % 256) \div 16) % 2 = (i + k + carry) % 2
  BY <1>2, <1>3, HighHalf
<1>5. /\ Bit(a, 16) = (i % 2 = 1)
      /\ Bit(b, 16) = (k % 2 = 1)
      /\ Bit((a + b + c) % 256, 16) = ((i + k + carry) % 2 = 1)
  BY <1>1, <1>4 DEF Bit
<1>6. carry = 1 <=> u + v + c > 15
  BY <1>2
<1>7. Scalar!HalfOf(a, b, (a + b + c) % 256) <=> carry = 1
  <2>1. Odd(i % 2 = 1, k % 2 = 1, (i + k + carry) % 2 = 1) <=> carry = 1
    BY OddSum
  <2> QED BY <1>5, <2>1, HalfIsOdd, Zenon
<1> QED BY <1>1, <1>6, <1>7

LEMMA HalfIsBorrow ==
    ASSUME NEW a \in Byte, NEW b \in Byte, NEW c \in {0, 1}
    PROVE Scalar!HalfOf(a, b, (a - b - c) % 256) <=> (a % 16) - (b % 16) - c < 0
<1>1. PICK i \in Int, k \in Int, u \in Int, v \in Int :
        /\ a = 16 * i + u /\ 0 <= u /\ u <= 15 /\ u = a % 16 /\ i = a \div 16
        /\ b = 16 * k + v /\ 0 <= v /\ v <= 15 /\ v = b % 16 /\ k = b \div 16
  BY InByte, SMT
<1>2. PICK carry \in {0, 1}, l \in Int :
        /\ carry = IF u - v - c < 0 THEN 1 ELSE 0
        /\ l = u - v - c + 16 * carry /\ 0 <= l /\ l <= 15
  BY <1>1
<1>3. a - b - c = 16 * (i - k - carry) + l
  BY <1>1, <1>2
<1>4. (((a - b - c) % 256) \div 16) % 2 = (i - k - carry) % 2
  BY <1>2, <1>3, HighHalf
<1>5. /\ Bit(a, 16) = (i % 2 = 1)
      /\ Bit(b, 16) = (k % 2 = 1)
      /\ Bit((a - b - c) % 256, 16) = ((i - k - carry) % 2 = 1)
  BY <1>1, <1>4 DEF Bit
<1>6. carry = 1 <=> u - v - c < 0
  BY <1>2
<1>7. Scalar!HalfOf(a, b, (a - b - c) % 256) <=> carry = 1
  <2>1. Odd(i % 2 = 1, k % 2 = 1, (i - k - carry) % 2 = 1) <=> carry = 1
    BY OddSum
  <2> QED BY <1>5, <2>1, HalfIsOdd, Zenon
<1> QED BY <1>1, <1>6, <1>7

LEMMA CarryIsCarry ==
    ASSUME NEW a \in Byte, NEW b \in Byte, NEW c \in {0, 1}
    PROVE Scalar!CarryOf(a, b, (a + b + c) % 256) <=> a + b + c > 255
<1>1. a \in Int /\ 0 <= a /\ a <= 255 /\ b \in Int /\ 0 <= b /\ b <= 255
  BY InByte
<1>2. PICK s \in Int : /\ s = (a + b + c) % 256
                       /\ s = IF a + b + c < 256 THEN a + b + c ELSE a + b + c - 256
  BY <1>1, LowByte
<1>3. /\ Bit(a, 128) <=> a >= 128
      /\ Bit(b, 128) <=> b >= 128
      /\ Bit(s, 128) <=> s >= 128
  BY <1>1, <1>2, TopBit
<1>4. Scalar!CarryOf(a, b, s) <=> (a >= 128 /\ b >= 128) \/ ((a >= 128 \/ b >= 128) /\ ~(s >= 128))
  BY <1>3, SameBit DEF Scalar!CarryOf
<1>5. (a >= 128 /\ b >= 128) \/ ((a >= 128 \/ b >= 128) /\ ~(s >= 128)) <=> a + b + c > 255
  BY <1>1, <1>2, SMT
<1> QED BY <1>2, <1>4, <1>5

LEMMA BorrowIsBorrow ==
    ASSUME NEW a \in Byte, NEW b \in Byte, NEW c \in {0, 1}
    PROVE Scalar!BorrowOf(a, b, (a - b - c) % 256) <=> a - b - c < 0
<1>1. a \in Int /\ 0 <= a /\ a <= 255 /\ b \in Int /\ 0 <= b /\ b <= 255
  BY InByte
<1>2. PICK s \in Int : /\ s = (a - b - c) % 256
                       /\ s = IF a - b - c < 0 THEN a - b - c + 256 ELSE a - b - c
  BY <1>1, LowByte
<1>3. /\ Bit(a, 128) <=> a >= 128
      /\ Bit(b, 128) <=> b >= 128
      /\ Bit(s, 128) <=> s >= 128
  BY <1>1, <1>2, TopBit
<1>6. Scalar!BorrowOf(a, b,
                      s) <=> (~Bit(a, 128) /\ Bit(b,
                                                  128)) \/ ((Bit(a, 128) <=> Bit(b, 128)) /\ Bit(s, 128))
  <2>1. PICK p \in BOOLEAN, q \in BOOLEAN, r \in BOOLEAN :
          p = Bit(a, 128) /\ q = Bit(b, 128) /\ r = Bit(s, 128)
    BY BitBoolean
  <2>2. Scalar!BorrowOf(a, b, s) <=> (~p /\ q) \/ ((p = q) /\ r)
    <3>1. Scalar!Bit(a, 128) = p /\ Scalar!Bit(b, 128) = q /\ Scalar!Bit(s, 128) = r
      BY <2>1, SameBit, Zenon
    <3> QED BY <3>1, SMT DEF Scalar!BorrowOf
  <2>3. ((~p /\ q) \/ ((p = q) /\ r)) <=> ((~p /\ q) \/ ((p <=> q) /\ r))
    BY Zenon
  <2> QED BY <2>1, <2>2, <2>3, Zenon
<1>4. Scalar!BorrowOf(a, b, s)
        <=> (~(a >= 128) /\ b >= 128) \/ (((a >= 128) <=> (b >= 128)) /\ s >= 128)
  BY <1>3, <1>6, Zenon
<1>5. (~(a >= 128) /\ b >= 128) \/ (((a >= 128) <=> (b >= 128)) /\ s >= 128) <=> a - b - c < 0
  BY <1>1, <1>2, SMT
<1> QED BY <1>2, <1>4, <1>5

(* What a sum or a difference is in numbers, and what of it are the lower  *)
(* digits.                                                                 *)
IsSum(res, total, low, minus) ==
    /\ res.value = total % 256 /\ res.value \in Byte
    /\ res.z = (total % 256 = 0) /\ res.n = minus
    /\ res.h = (low \notin 0 .. 15) /\ res.c = (total \notin 0 .. 255)

LEMMA Add8Exact ==
    ASSUME NEW a \in Byte, NEW b \in Byte, NEW carry \in BOOLEAN
    PROVE IsSum(Scalar!Add8(a, b, carry), a + b + Num(carry),
                (a % 16) + (b % 16) + Num(carry), FALSE)
<1>0. PICK total, res : total = a + b + Num(carry) /\ res = Scalar!Add8(a, b, carry)
  OBVIOUS
<1>1. PICK i \in {0, 1} : i = Num(carry)
  BY NumIs
<1>2. PICK h \in BOOLEAN, c \in BOOLEAN :
        h = Scalar!HalfOf(a, b, total % 256) /\ c = Scalar!CarryOf(a, b, total % 256)
  BY DEF Scalar!HalfOf, Scalar!CarryOf, Scalar!Bit
<1>3. h = ((a % 16) + (b % 16) + i > 15) /\ c = (total > 255)
  <2>1. h <=> (a % 16) + (b % 16) + i > 15
    BY <1>0, <1>1, <1>2, HalfIsCarry
  <2>2. c <=> total > 255
    BY <1>0, <1>1, <1>2, CarryIsCarry
  <2> QED BY <2>1, <2>2
<1>4. PICK sum \in Byte, z \in BOOLEAN : sum = total % 256 /\ z = (sum = 0)
  <2>1. total \in Int
    BY <1>0, <1>1, InByte
  <2>2. total % 256 \in Byte
    BY <2>1, LowBits DEF AsByte
  <2> QED BY <2>2
<1>5. res = [value |-> sum, z |-> z, n |-> FALSE, h |-> h, c |-> c]
  <2> DEFINE low == AsByte(a + b + Num(carry))
  <2>1. low = sum
    BY <1>0, <1>4 DEF AsByte
  <2> HIDE DEF low
  <2>2. Scalar!Add8(a, b, carry)
          = [value |-> low, z |-> low = 0, n |-> FALSE,
             h |-> Scalar!HalfOf(a, b, low), c |-> Scalar!CarryOf(a, b, low)]
    BY SameLow, SameNum, Zenon DEF Scalar!Add8, low
  <2>3. Scalar!HalfOf(a, b, low) = h /\ Scalar!CarryOf(a, b, low) = c
    BY <1>2, <1>4, <2>1
  <2> QED BY <1>0, <1>4, <2>1, <2>2, <2>3, Zenon
<1>6. PICK low \in Int : low = (a % 16) + (b % 16) + Num(carry) /\ h = (low \notin 0 .. 15)
  <2>1. (a % 16) + (b % 16) + i \in Int /\ (a % 16) + (b % 16) + i \in 0 .. 31
    BY <1>1, InByte, SMT
  <2> QED BY <1>1, <1>3, <2>1
<1>7. c = (total \notin 0 .. 255)
  <2>1. total \in Int /\ total >= 0
    BY <1>0, <1>1, InByte
  <2> QED BY <1>3, <2>1
<1>8. IsSum(res, total, low, FALSE)
  BY <1>4, <1>5, <1>6, <1>7 DEF IsSum
<1> QED BY <1>0, <1>6, <1>8

LEMMA Sub8Exact ==
    ASSUME NEW a \in Byte, NEW b \in Byte, NEW carry \in BOOLEAN
    PROVE IsSum(Scalar!Sub8(a, b, carry), a - b - Num(carry),
                (a % 16) - (b % 16) - Num(carry), TRUE)
<1>0. PICK total, res : total = a - b - Num(carry) /\ res = Scalar!Sub8(a, b, carry)
  OBVIOUS
<1>1. PICK i \in {0, 1} : i = Num(carry)
  BY NumIs
<1>2. PICK h \in BOOLEAN, c \in BOOLEAN :
        h = Scalar!HalfOf(a, b, total % 256) /\ c = Scalar!BorrowOf(a, b, total % 256)
  BY DEF Scalar!HalfOf, Scalar!BorrowOf, Scalar!Bit
<1>3. h = ((a % 16) - (b % 16) - i < 0) /\ c = (total < 0)
  <2>1. h <=> (a % 16) - (b % 16) - i < 0
    BY <1>0, <1>1, <1>2, HalfIsBorrow
  <2>2. c <=> total < 0
    BY <1>0, <1>1, <1>2, BorrowIsBorrow
  <2> QED BY <2>1, <2>2
<1>4. PICK diff \in Byte, z \in BOOLEAN : diff = total % 256 /\ z = (diff = 0)
  <2>1. total \in Int
    BY <1>0, <1>1, InByte
  <2>2. total % 256 \in Byte
    BY <2>1, LowBits DEF AsByte
  <2> QED BY <2>2
<1>5. res = [value |-> diff, z |-> z, n |-> TRUE, h |-> h, c |-> c]
  <2> DEFINE low == AsByte(a - b - Num(carry))
  <2>1. low = diff
    BY <1>0, <1>4 DEF AsByte
  <2> HIDE DEF low
  <2>2. Scalar!Sub8(a, b, carry)
          = [value |-> low, z |-> low = 0, n |-> TRUE,
             h |-> Scalar!HalfOf(a, b, low), c |-> Scalar!BorrowOf(a, b, low)]
    BY SameLow, SameNum, Zenon DEF Scalar!Sub8, low
  <2>3. Scalar!HalfOf(a, b, low) = h /\ Scalar!BorrowOf(a, b, low) = c
    BY <1>2, <1>4, <2>1
  <2> QED BY <1>0, <1>4, <2>1, <2>2, <2>3, Zenon
<1>6. PICK low \in Int : low = (a % 16) - (b % 16) - Num(carry) /\ h = (low \notin 0 .. 15)
  <2>1. (a % 16) - (b % 16) - i \in Int /\ (a % 16) - (b % 16) - i \in -16 .. 15
    BY <1>1, InByte, SMT
  <2> QED BY <1>1, <1>3, <2>1
<1>7. c = (total \notin 0 .. 255)
  <2>1. total \in Int /\ total <= 255
    BY <1>0, <1>1, InByte
  <2> QED BY <1>3, <2>1
<1>8. IsSum(res, total, low, TRUE)
  BY <1>4, <1>5, <1>6, <1>7 DEF IsSum
<1> QED BY <1>0, <1>6, <1>8

(* What a program sees of the machine: all but the clock and the interrupt *)
(* enable.                                                                 *)
Shown(m) == <<m.r, m.z, m.n, m.h, m.c, m.sp, m.pc, m.mem, m.halted, m.haltBug>>

LEMMA UnshownChange ==
    ASSUME NEW m \in Machines
    PROVE /\ \A x \in Nat : /\ [m EXCEPT !.clock = x] \in Machines
                            /\ Shown([m EXCEPT !.clock = x]) = Shown(m)
                            /\ [m EXCEPT !.credit = x] \in Machines
                            /\ Shown([m EXCEPT !.credit = x]) = Shown(m)
          /\ \A b \in BOOLEAN : /\ [m EXCEPT !.ime = b] \in Machines
                                /\ Shown([m EXCEPT !.ime = b]) = Shown(m)
                                /\ [m EXCEPT !.eiPending = b] \in Machines
                                /\ Shown([m EXCEPT !.eiPending = b]) = Shown(m)
<1>1. \A x \in Nat : [m EXCEPT !.clock = x] \in Machines /\ Shown([m EXCEPT !.clock = x]) = Shown(m)
  BY SMT DEF Machines, Shown
<1>2. \A x \in Nat : [m EXCEPT !.credit = x] \in Machines /\ Shown([m EXCEPT !.credit = x])
          = Shown(m)
  BY SMT DEF Machines, Shown
<1>3. \A b \in BOOLEAN : [m EXCEPT !.ime = b] \in Machines /\ Shown([m EXCEPT !.ime = b]) = Shown(m)
  BY SMT DEF Machines, Shown
<1>4. \A b \in BOOLEAN : [m EXCEPT !.eiPending = b] \in Machines /\ Shown([m EXCEPT !.eiPending = b]) = Shown(m)
  BY SMT DEF Machines, Shown
<1> QED BY <1>1, <1>2, <1>3, <1>4

Decode(n, opcode) == S!Dispatch(n, opcode, opcode \div 16, (opcode \div 8) % 4, (opcode \div 8) % 8)

(* An instruction is what Dispatch makes of the machine behind the opcode  *)
(* fetch, but for the clock and the interrupt enable.                      *)
LEMMA ExecuteIs ==
    ASSUME NEW m \in Machines, ~m.haltBug, NEW opcode \in Byte, opcode = Scalar!Load(m.mem, m.pc)
    PROVE \E n \in Machines :
            /\ Shown(n) = Shown([m EXCEPT !.pc = S!Plus(m.pc, 1)])
            /\ Decode(n, opcode).m \in Machines
            /\ Shown(S!ExecuteOpcode(m).m) = Shown(Decode(n, opcode).m)
<1>1. PICK s : s = [m EXCEPT !.credit = 0]
  OBVIOUS
<1>2. s \in Machines /\ Shown(s) = Shown(m)
  BY <1>1, 0 \in Nat, UnshownChange
<1>3. PICK next \in Word : next = S!Plus(s.pc, 1) /\ next = S!Plus(m.pc, 1)
  BY <1>2, MachineFields, PlusLifts DEF Shown
<1>4. PICK j : j = [s EXCEPT !.pc = next]
  OBVIOUS
<1>5. j \in Machines /\ Shown(j) = Shown([m EXCEPT !.pc = next]) /\ ~j.haltBug
  <2>1. s.r = m.r /\ s.z = m.z /\ s.n = m.n /\ s.h = m.h /\ s.c = m.c /\ s.sp = m.sp
        /\ s.mem = m.mem /\ s.halted = m.halted /\ s.haltBug = m.haltBug
    BY <1>2 DEF Shown
  <2> QED BY <1>2, <1>4, <2>1, SMT DEF Machines, Shown
<1>6. PICK k : k = [j EXCEPT !.haltBug = FALSE]
  OBVIOUS
<1>7. k \in Machines /\ Shown(k) = Shown(j)
  <2>1. PICK bug \in BOOLEAN : bug = FALSE /\ bug = j.haltBug
    BY <1>5 DEF Machines
  <2>2. k = [j EXCEPT !.haltBug = bug]
    BY <1>6, <2>1, Zenon
  <2> QED BY <1>5, <2>1, <2>2, SMT DEF Machines, Shown
<1>8. S!Fetch8(s) = [value |-> opcode, m |-> k]
  <2>1. s.mem = m.mem /\ s.pc = m.pc /\ ~s.haltBug
    BY <1>2 DEF Shown
  <2>2. k = [s EXCEPT !.pc = next, !.haltBug = FALSE]
    BY <1>4, <1>6, Zenon
  <2> QED BY <1>3, <2>1, <2>2, Zenon DEF S!Fetch8
<1>9. PICK n : n = S!Credited(k)
  OBVIOUS
<1>10. n \in Machines /\ Shown(n) = Shown(k)
  <2>1. PICK x \in Nat, y \in Nat : x = k.clock + 4 /\ y = k.credit + 4
    BY <1>7, MachineFields
  <2>2. PICK i : i = [k EXCEPT !.clock = x]
    OBVIOUS
  <2>3. i \in Machines /\ Shown(i) = Shown(k) /\ i.credit = k.credit
    BY <1>7, <2>2, UnshownChange, ClockLifts
  <2>4. n = [i EXCEPT !.credit = y]
    BY <1>9, <2>1, <2>2, <2>3, Zenon DEF S!Credited, S!Consume
  <2> QED BY <2>3, <2>4, UnshownChange
<1>11. PICK d : d = Decode(n, opcode)
  OBVIOUS
<1>12. d.m \in Machines /\ d.cost \in Nat
  <2>1. (opcode \div 8) % 4 \in 0 .. 3 /\ (opcode \div 8) % 8 \in 0 .. 7
    BY CodesOf
  <2> QED BY <1>10, <1>11, <2>1, DispatchPays DEF Decode, Pays, Lifts, Spends
<1>13. PICK p : p = S!Enabled(d.m, m.eiPending, opcode)
  OBVIOUS
<1>14. p \in Machines /\ Shown(p) = Shown(d.m)
  <2>1. CASE ~m.eiPending
    BY <1>12, <1>13, <2>1, Zenon DEF S!Enabled
  <2>2. CASE m.eiPending
    <3>1. PICK soon \in BOOLEAN : soon = (opcode = 251)
      OBVIOUS
    <3>2. PICK i : i = [d.m EXCEPT !.ime = TRUE]
      OBVIOUS
    <3>3. i \in Machines /\ Shown(i) = Shown(d.m)
      BY <1>12, <3>2, TRUE \in BOOLEAN, UnshownChange
    <3>4. p = [i EXCEPT !.eiPending = soon]
      BY <1>13, <2>2, <3>1, <3>2 DEF S!Enabled
    <3> QED BY <3>3, <3>4, UnshownChange
  <2> QED BY <2>1, <2>2
<1>15. S!ExecuteOpcode(m) = S!Done(S!Settle(p, d.cost), d.cost)
  <2>1. PICK f : f = S!Fetch8(s)
    OBVIOUS
  <2>2. f.m = k /\ f.value = opcode
    BY <1>8, <2>1
  <2> QED BY <1>1, <1>9, <1>11, <1>13, <2>1, <2>2, Zenon
          DEF S!ExecuteOpcode, S!Then, S!Decoded, S!Finish, Decode, Scalar!ToU8
<1>16. PICK q : q = S!Settle(p, d.cost)
  OBVIOUS
<1>17. Shown(q) = Shown(p)
  <2>1. PICK x \in Nat : x = p.clock + (IF d.cost > p.credit THEN d.cost - p.credit ELSE 0)
    BY <1>12, <1>14, MachineFields
  <2>2. PICK i : i = [p EXCEPT !.clock = x]
    OBVIOUS
  <2>3. i \in Machines /\ Shown(i) = Shown(p)
    BY <1>14, <2>2, UnshownChange
  <2>4. q = [i EXCEPT !.credit = 0]
    BY <1>16, <2>1, <2>2, Zenon DEF S!Settle, S!Consume
  <2> QED BY <2>3, <2>4, 0 \in Nat, UnshownChange
<1>18. S!ExecuteOpcode(m).m = q
  BY <1>15, <1>16 DEF S!Done
<1> QED BY <1>3, <1>5, <1>7, <1>10, <1>11, <1>12, <1>14, <1>17, <1>18

(* What an instruction that writes A and the flags leaves.                 *)
Computed(n, k, a, z, minus, h, c) ==
    /\ k \in Machines
    /\ k.r = [n.r EXCEPT ![7] = a] /\ k.r[7] = a /\ \A i \in S!Codes \ {7} : k.r[i] = n.r[i]
    /\ k.z = z /\ k.n = minus /\ k.h = h /\ k.c = c
    /\ k.pc = n.pc /\ k.mem = n.mem /\ k.halted = n.halted /\ k.haltBug = n.haltBug

(* What else a program sees.                                               *)
SameRest(k, m) == k.pc = m.pc /\ k.mem = m.mem /\ k.halted = m.halted /\ k.haltBug = m.haltBug

SetsA(m, k, x) ==
    /\ k \in Machines /\ k.r = [m.r EXCEPT ![7] = x] /\ SameRest(k, m)
    /\ k.z = m.z /\ k.n = m.n /\ k.h = m.h /\ k.c = m.c

SetsFlags(m, k, z, minus, h, c) ==
    /\ k \in Machines /\ k.r = m.r /\ SameRest(k, m)
    /\ k.z = z /\ k.n = minus /\ k.h = h /\ k.c = c

LEMMA AIsSet ==
    ASSUME NEW m \in Machines, NEW x \in Byte
    PROVE SetsA(m, [m EXCEPT !.r[S!A] = x], x)
<1>1. PICK r : r = [m.r EXCEPT ![7] = x]
  OBVIOUS
<1>2. r \in [S!Codes -> Byte]
  BY <1>1, SomeCodes DEF Machines
<1>3. [m EXCEPT !.r[S!A] = x] = [m EXCEPT !.r = r]
  BY <1>1, Zenon DEF S!A
<1> QED BY <1>1, <1>2, <1>3, SMT DEF Machines, SetsA, SameRest

LEMMA FlagsAreSet ==
    ASSUME NEW m \in Machines, NEW z \in BOOLEAN, NEW minus \in BOOLEAN, NEW h \in BOOLEAN,
           NEW c \in BOOLEAN
    PROVE SetsFlags(m, S!SetFlags(m, z, minus, h, c), z, minus, h, c)
<1>1. PICK k1 : k1 = [m EXCEPT !.z = z]
  OBVIOUS
<1>2. PICK k2 : k2 = [k1 EXCEPT !.n = minus]
  OBVIOUS
<1>3. PICK k3 : k3 = [k2 EXCEPT !.h = h]
  OBVIOUS
<1>4. PICK k : k = [k3 EXCEPT !.c = c]
  OBVIOUS
<1>5. S!SetFlags(m, z, minus, h, c) = k
  BY <1>1, <1>2, <1>3, <1>4, Zenon DEF S!SetFlags
<1>6. k1 \in Machines /\ k1.r = m.r /\ k1.z = z /\ SameRest(k1, m)
  BY <1>1, SMT DEF Machines, SameRest
<1>7. k2 \in Machines /\ k2.r = m.r /\ k2.z = z /\ k2.n = minus /\ SameRest(k2, m)
  BY <1>2, <1>6, SMT DEF Machines, SameRest
<1>8. k3 \in Machines /\ k3.r = m.r /\ k3.z = z /\ k3.n = minus /\ k3.h = h /\ SameRest(k3, m)
  BY <1>3, <1>7, SMT DEF Machines, SameRest
<1>9. SetsFlags(m, k, z, minus, h, c)
  BY <1>4, <1>8, SMT DEF Machines, SameRest, SetsFlags
<1> QED BY <1>5, <1>9, Zenon

LEMMA AAndFlagsAreSet ==
    ASSUME NEW m \in Machines, NEW x \in Byte, NEW z \in BOOLEAN, NEW minus \in BOOLEAN,
           NEW h \in BOOLEAN, NEW c \in BOOLEAN
    PROVE Computed(m, S!SetFlags([m EXCEPT !.r[S!A] = x], z, minus, h, c), x, z, minus, h, c)
<1>1. PICK j : j = [m EXCEPT !.r[S!A] = x]
  OBVIOUS
<1>2. SetsA(m, j, x) /\ j \in Machines
  BY <1>1, AIsSet DEF SetsA
<1>3. PICK k : k = S!SetFlags(j, z, minus, h, c)
  OBVIOUS
<1>4. SetsFlags(j, k, z, minus, h, c)
  BY <1>2, <1>3, FlagsAreSet
<1>5. k.r[7] = x /\ \A i \in S!Codes \ {7} : k.r[i] = m.r[i]
  BY <1>2, <1>4, SomeCodes DEF Machines, SetsA, SetsFlags
<1>6. Computed(m, k, x, z, minus, h, c)
  BY <1>2, <1>4, <1>5 DEF Computed, SetsA, SetsFlags, SameRest
<1> QED BY <1>1, <1>3, <1>6, Zenon

LEMMA SumIsSet ==
    ASSUME NEW m \in Machines, NEW res, res.value \in Byte, res.z \in BOOLEAN, res.n \in BOOLEAN,
           res.h \in BOOLEAN, res.c \in BOOLEAN
    PROVE Computed(m, S!Sum(m, res), res.value, res.z, res.n, res.h, res.c)
<1>1. S!Sum(m, res) = S!SetFlags([m EXCEPT !.r[S!A] = res.value], res.z, res.n, res.h, res.c)
  BY Zenon DEF S!Sum
<1>2. PICK x \in Byte, z \in BOOLEAN, minus \in BOOLEAN, h \in BOOLEAN, c \in BOOLEAN :
        x = res.value /\ z = res.z /\ minus = res.n /\ h = res.h /\ c = res.c
  BY Zenon
<1>3. Computed(m, S!SetFlags([m EXCEPT !.r[S!A] = x], z, minus, h, c), x, z, minus, h, c)
  BY AAndFlagsAreSet
<1> QED BY <1>1, <1>2, <1>3, Zenon

(* The arithmetic of an ALU instruction, in numbers.                       *)
LEMMA AluIsExact ==
    ASSUME NEW m \in Machines, NEW x \in Byte, NEW alu \in {0, 1, 2, 3, 7},
           NEW p, p.a = m.r[7], p.x = x, p.c = m.c,
           NEW want, want = AluResult(p, alu)
    PROVE Computed(m, S!AluAssign(m, x, alu), want.a, want.z, want.n, want.h, want.c)
<1>1. PICK a \in Byte : a = m.r[7] /\ a = m.r[S!A]
  BY SomeCodes DEF Machines, S!A
<1>2. PICK c \in BOOLEAN : c = m.c
  BY MachineFields
<1>3. PICK carry \in BOOLEAN : carry <=> (alu \in {1, 3} /\ c)
  OBVIOUS
<1>4. PICK minus \in BOOLEAN : minus <=> (alu \in {2, 3, 7})
  OBVIOUS
<1>5. PICK i \in {0, 1} : i = Num(carry)
  BY NumIs
<1>6. PICK total \in Int, low \in Int :
        /\ total = IF minus THEN a - x - i ELSE a + x + i
        /\ low = IF minus THEN (a % 16) - (x % 16) - i ELSE (a % 16) + (x % 16) + i
  BY InByte
<1>7. want = [a |-> IF alu = 7 THEN a ELSE total % 256, z |-> total % 256 = 0, n |-> minus,
              h |-> low \notin 0 .. 15, c |-> total \notin 0 .. 255]
  <2>1. (alu % 2 = 1 /\ alu < 7 /\ p.c) = carry
    BY <1>2, <1>3
  <2>2. Num(alu % 2 = 1 /\ alu < 7 /\ p.c) = i
    BY <1>5, <2>1
  <2>3. AluResult(p, alu)
          = [a |-> IF alu = 7 THEN a ELSE total % 256, z |-> total % 256 = 0, n |-> minus,
             h |-> low \notin 0 .. 15, c |-> total \notin 0 .. 255]
    <3>1. total = IF minus THEN p.a - p.x - i ELSE p.a + p.x + i
      BY <1>1, <1>6
    <3>2. low = IF minus THEN (p.a % 16) - (p.x % 16) - i ELSE (p.a % 16) + (p.x % 16) + i
      BY <1>1, <1>6
    <3> QED BY <1>1, <1>4, <2>2, <3>1, <3>2 DEF AluResult
  <2> QED BY <2>3
<1>8. PICK res : res = IF minus THEN Scalar!Sub8(a, x, carry) ELSE Scalar!Add8(a, x, carry)
  OBVIOUS
<1>9. IsSum(res, total, low, minus)
  <2>1. CASE minus
    <3>1. IsSum(Scalar!Sub8(a, x, carry), a - x - i, (a % 16) - (x % 16) - i, TRUE)
      BY <1>5, Sub8Exact
    <3> QED BY <1>6, <1>8, <2>1, <3>1
  <2>2. CASE ~minus
    <3>1. IsSum(Scalar!Add8(a, x, carry), a + x + i, (a % 16) + (x % 16) + i, FALSE)
      BY <1>5, Add8Exact
    <3> QED BY <1>6, <1>8, <2>2, <3>1
  <2> QED BY <2>1, <2>2
<1>10. PICK k : k = S!Sum(m, res)
  OBVIOUS
<1>11. Computed(m, k, res.value, res.z, res.n, res.h, res.c)
  <2>1. res.z \in BOOLEAN /\ res.n \in BOOLEAN /\ res.h \in BOOLEAN /\ res.c \in BOOLEAN
    BY <1>9 DEF IsSum
  <2>2. res.value \in Byte
    BY <1>9 DEF IsSum
  <2> QED BY <1>10, <2>1, <2>2, SumIsSet, Zenon
<1>12. S!AluAssign(m, x, alu) = IF alu = 7 THEN [k EXCEPT !.r[S!A] = a] ELSE k
  <2>1. CASE alu = 0
    <3>1. S!AluAssign(m, x, alu) = S!Sum(m, Scalar!Add8(a, x, FALSE))
      BY <1>1, <2>1 DEF S!AluAssign
    <3>2. carry = FALSE /\ ~minus
      BY <1>3, <1>4, <2>1
    <3>3. res = Scalar!Add8(a, x, FALSE)
      BY <1>8, <3>2, Zenon
    <3>4. S!AluAssign(m, x, alu) = k
      BY <1>10, <3>1, <3>3, Zenon
    <3> QED BY <2>1, <3>4
  <2>2. CASE alu = 1
    <3>1. S!AluAssign(m, x, alu) = S!Sum(m, Scalar!Add8(a, x, c))
      BY <1>1, <1>2, <2>2 DEF S!AluAssign
    <3>2. carry = c /\ ~minus
      BY <1>3, <1>4, <2>2
    <3>3. res = Scalar!Add8(a, x, c)
      BY <1>8, <3>2, Zenon
    <3>4. S!AluAssign(m, x, alu) = k
      BY <1>10, <3>1, <3>3, Zenon
    <3> QED BY <2>2, <3>4
  <2>3. CASE alu = 2
    <3>1. S!AluAssign(m, x, alu) = S!Sum(m, Scalar!Sub8(a, x, FALSE))
      BY <1>1, <2>3 DEF S!AluAssign
    <3>2. carry = FALSE /\ minus
      BY <1>3, <1>4, <2>3
    <3>3. res = Scalar!Sub8(a, x, FALSE)
      BY <1>8, <3>2, Zenon
    <3>4. S!AluAssign(m, x, alu) = k
      BY <1>10, <3>1, <3>3, Zenon
    <3> QED BY <2>3, <3>4
  <2>4. CASE alu = 3
    <3>1. S!AluAssign(m, x, alu) = S!Sum(m, Scalar!Sub8(a, x, c))
      BY <1>1, <1>2, <2>4 DEF S!AluAssign
    <3>2. carry = c /\ minus
      BY <1>3, <1>4, <2>4
    <3>3. res = Scalar!Sub8(a, x, c)
      BY <1>8, <3>2, Zenon
    <3>4. S!AluAssign(m, x, alu) = k
      BY <1>10, <3>1, <3>3, Zenon
    <3> QED BY <2>4, <3>4
  <2>5. CASE alu = 7
    <3>1. S!AluAssign(m, x, alu) = [S!Sum(m, Scalar!Sub8(a, x, FALSE)) EXCEPT !.r[S!A] = a]
      BY <1>1, <2>5 DEF S!AluAssign
    <3>2. carry = FALSE /\ minus
      BY <1>3, <1>4, <2>5
    <3>3. res = Scalar!Sub8(a, x, FALSE)
      BY <1>8, <3>2, Zenon
    <3> QED BY <1>10, <2>5, <3>1, <3>3, Zenon
  <2> QED BY <2>1, <2>2, <2>3, <2>4, <2>5
<1>13. want.z = res.z /\ want.n = res.n /\ want.h = res.h /\ want.c = res.c
  BY <1>7, <1>9 DEF IsSum
<1>14. CASE alu = 7
  <2>1. PICK j : j = [k EXCEPT !.r[S!A] = a]
    OBVIOUS
  <2>2. k \in Machines
    BY <1>11 DEF Computed
  <2>3. SetsA(k, j, a)
    BY <2>1, <2>2, AIsSet
  <2>4. /\ j.r = [m.r EXCEPT ![7] = a] /\ j.r[7] = a
        /\ \A o \in S!Codes \ {7} : j.r[o] = m.r[o]
    BY <1>11, <2>3, SomeCodes DEF Machines, Computed, SetsA
  <2>5. Computed(m, j, a, res.z, res.n, res.h, res.c)
    BY <1>11, <2>3, <2>4 DEF Computed, SetsA, SameRest
  <2>6. want.a = a
    BY <1>7, <1>14
  <2> QED BY <1>12, <1>13, <1>14, <2>1, <2>5, <2>6
<1>15. CASE alu # 7
  <2>1. want.a = res.value
    BY <1>7, <1>9, <1>15 DEF IsSum
  <2> QED BY <1>11, <1>12, <1>13, <1>15, <2>1
<1> QED BY <1>14, <1>15

(* The instructions of the arithmetic among the opcodes.                   *)
LEMMA DispatchOfArithmetic ==
    ASSUME NEW m \in Machines, NEW opcode \in Byte, NEW high, NEW cc, NEW code
    PROVE /\ opcode \in 128 .. 191 => S!Dispatch(m, opcode, high, cc, code) = S!AluAR(m, opcode)
          /\ opcode = 39 => S!Dispatch(m, opcode, high, cc, code) = S!Daa(m)
          /\ opcode = 9 => S!Dispatch(m, opcode, high, cc, code) = S!AddHlRr(m, high)
<1> DEFINE g0 == opcode = 118
           g1 == opcode \in 64 .. 127 \ {118}
           g2 == opcode \in 128 .. 191
           g3 == opcode \in 192 .. 255 /\ opcode % 8 = 6
           g4 == opcode < 64 /\ opcode % 16 = 1
           g5 == opcode \in {2, 18}
           g6 == opcode \in {10, 26}
           g7 == opcode = 34
           g8 == opcode = 42
           g9 == opcode = 50
           g10 == opcode = 58
           g11 == opcode < 64 /\ opcode % 16 = 3
           g12 == opcode < 64 /\ opcode % 16 = 11
           g13 == opcode < 64 /\ opcode % 16 = 9
           g14 == opcode < 64 /\ opcode % 8 = 4
           g15 == opcode < 64 /\ opcode % 8 = 5
           g16 == opcode = 54
           g17 == opcode < 64 /\ opcode % 8 = 6 /\ opcode # 54
           g18 == opcode \in {7, 15, 23, 31}
           g19 == opcode = 8
           g20 == opcode = 16
           g21 == opcode = 24
           g22 == opcode \in {32, 40, 48, 56}
           g23 == opcode = 39
           g24 == opcode = 47
           g25 == opcode = 55
           g26 == opcode = 63
           g27 == opcode \in {192, 200, 208, 216}
           g28 == opcode \in {194, 202, 210, 218}
           g29 == opcode \in {196, 204, 212, 220}
           g30 == opcode \in 192 .. 255 /\ opcode % 8 = 7
           g31 == opcode \in 192 .. 255 /\ opcode % 16 = 1
           g32 == opcode \in 192 .. 255 /\ opcode % 16 = 5
           g33 == opcode = 195
           g34 == opcode = 201
           g35 == opcode = 203
           g36 == opcode = 205
           g37 == opcode = 217
           g38 == opcode = 233
           g39 == opcode = 224
           g40 == opcode = 240
           g41 == opcode = 226
           g42 == opcode = 242
           g43 == opcode = 234
           g44 == opcode = 250
           g45 == opcode = 232
           g46 == opcode = 248
           g47 == opcode = 249
           g48 == opcode = 243
           g49 == opcode = 251
<1>1. opcode \in 128 .. 191 => g2
                    /\ ~g0 /\ ~g1 /\ ~g3 /\ ~g4 /\ ~g5 /\ ~g6 /\ ~g7 /\ ~g8 /\ ~g9 /\ ~g10 /\ ~g11
                    /\ ~g12 /\ ~g13 /\ ~g14 /\ ~g15 /\ ~g16 /\ ~g17 /\ ~g18 /\ ~g19 /\ ~g20
                    /\ ~g21 /\ ~g22 /\ ~g23
                    /\ ~g24 /\ ~g25 /\ ~g26 /\ ~g27 /\ ~g28 /\ ~g29 /\ ~g30 /\ ~g31 /\ ~g32
                    /\ ~g33 /\ ~g34 /\ ~g35
                    /\ ~g36 /\ ~g37 /\ ~g38 /\ ~g39 /\ ~g40 /\ ~g41 /\ ~g42 /\ ~g43 /\ ~g44
                    /\ ~g45 /\ ~g46 /\ ~g47
                    /\ ~g48 /\ ~g49
  BY InByte
<1>2. opcode = 39 => g23
                    /\ ~g0 /\ ~g1 /\ ~g2 /\ ~g3 /\ ~g4 /\ ~g5 /\ ~g6 /\ ~g7 /\ ~g8 /\ ~g9 /\ ~g10
                    /\ ~g11
                    /\ ~g12 /\ ~g13 /\ ~g14 /\ ~g15 /\ ~g16 /\ ~g17 /\ ~g18 /\ ~g19 /\ ~g20
                    /\ ~g21 /\ ~g22
                    /\ ~g24 /\ ~g25 /\ ~g26 /\ ~g27 /\ ~g28 /\ ~g29 /\ ~g30 /\ ~g31 /\ ~g32
                    /\ ~g33 /\ ~g34 /\ ~g35
                    /\ ~g36 /\ ~g37 /\ ~g38 /\ ~g39 /\ ~g40 /\ ~g41 /\ ~g42 /\ ~g43 /\ ~g44
                    /\ ~g45 /\ ~g46 /\ ~g47
                    /\ ~g48 /\ ~g49
  BY InByte
<1>3. opcode = 9 => g13
                    /\ ~g0 /\ ~g1 /\ ~g2 /\ ~g3 /\ ~g4 /\ ~g5 /\ ~g6 /\ ~g7 /\ ~g8 /\ ~g9 /\ ~g10
                    /\ ~g11
                    /\ ~g12 /\ ~g14 /\ ~g15 /\ ~g16 /\ ~g17 /\ ~g18 /\ ~g19 /\ ~g20 /\ ~g21
                    /\ ~g22 /\ ~g23
                    /\ ~g24 /\ ~g25 /\ ~g26 /\ ~g27 /\ ~g28 /\ ~g29 /\ ~g30 /\ ~g31 /\ ~g32
                    /\ ~g33 /\ ~g34 /\ ~g35
                    /\ ~g36 /\ ~g37 /\ ~g38 /\ ~g39 /\ ~g40 /\ ~g41 /\ ~g42 /\ ~g43 /\ ~g44
                    /\ ~g45 /\ ~g46 /\ ~g47
                    /\ ~g48 /\ ~g49
  BY InByte
<1>4. S!Dispatch(m, opcode, high, cc, code)
        = CASE g0 -> S!Halt(m)
              [] g1 -> S!LdRR(m, opcode)
              [] g2 -> S!AluAR(m, opcode)
              [] g3 -> S!AluAD8(m, opcode)
              [] g4 -> S!LdRrD16(m, high)
              [] g5 -> S!LdMemRrA(m, high)
              [] g6 -> S!LdAMemRr(m, high)
              [] g7 -> S!LdStepHlA(m, 1)
              [] g8 -> S!LdStepAHl(m, 1)
              [] g9 -> S!LdStepHlA(m, -1)
              [] g10 -> S!LdStepAHl(m, -1)
              [] g11 -> S!IncRr(m, high)
              [] g12 -> S!DecRr(m, high)
              [] g13 -> S!AddHlRr(m, high)
              [] g14 -> S!IncR(m, code)
              [] g15 -> S!DecR(m, code)
              [] g16 -> S!LdHlD8(m)
              [] g17 -> S!LdRD8(m, code)
              [] g18 -> S!RotateA(m, code)
              [] g19 -> S!LdMemA16Sp(m)
              [] g20 -> S!Stop(m)
              [] g21 -> S!Jr(m)
              [] g22 -> S!JrCc(m, cc)
              [] g23 -> S!Daa(m)
              [] g24 -> S!Cpl(m)
              [] g25 -> S!Scf(m)
              [] g26 -> S!Ccf(m)
              [] g27 -> S!RetCc(m, cc)
              [] g28 -> S!JpCcA16(m, cc)
              [] g29 -> S!CallCcA16(m, cc)
              [] g30 -> S!Rst(m, opcode)
              [] g31 -> S!PopRr(m, high - 12)
              [] g32 -> S!PushRr(m, high - 12)
              [] g33 -> S!JpA16(m)
              [] g34 -> S!Ret(m)
              [] g35 -> S!Cb(m)
              [] g36 -> S!CallA16(m)
              [] g37 -> S!Reti(m)
              [] g38 -> S!JpHl(m)
              [] g39 -> S!LdhA8A(m)
              [] g40 -> S!LdhAA8(m)
              [] g41 -> S!LdhCA(m)
              [] g42 -> S!LdhAC(m)
              [] g43 -> S!LdA16A(m)
              [] g44 -> S!LdAA16(m)
              [] g45 -> S!AddSpE8(m)
              [] g46 -> S!LdHlSpE8(m)
              [] g47 -> S!LdSpHl(m)
              [] g48 -> S!Di(m)
              [] g49 -> S!Ei(m)
              [] OTHER -> S!Nop(m)
  BY Zenon DEF S!Dispatch
<1> HIDE DEF g0, g1, g2, g3, g4, g5, g6, g7, g8, g9, g10, g11, g12, g13, g14, g15, g16, g17, g18,
             g19, g20, g21, g22, g23, g24, g25, g26, g27, g28, g29, g30, g31, g32, g33, g34, g35,
             g36, g37, g38, g39, g40, g41, g42, g43, g44, g45, g46, g47, g48, g49
<1> QED BY <1>1, <1>2, <1>3, <1>4

LEMMA AluOfB ==
    ASSUME NEW n \in Machines, NEW opcode \in Byte, opcode \in 128 .. 191, opcode % 8 = 0
    PROVE Decode(n, opcode).m = S!AluAssign(n, n.r[0], (opcode \div 8) % 8)
<1>1. PICK high, cc, code : /\ high = opcode \div 16 /\ cc = (opcode \div 8) % 4
                            /\ code = (opcode \div 8) % 8
  OBVIOUS
<1>2. opcode # 118 /\ opcode \notin 64 .. 127 \ {118}
  OBVIOUS
<1>3. S!Dispatch(n, opcode, high, cc, code) = S!AluAR(n, opcode)
  BY DispatchOfArithmetic
<1>4. S!ReadR8(n, opcode % 8) = [value |-> n.r[0], m |-> n]
  BY DEF S!ReadR8, S!Indirect
<1>5. PICK f : f = S!ReadR8(n, opcode % 8)
  OBVIOUS
<1>6. f.m = n /\ f.value = n.r[0]
  BY <1>4, <1>5
<1>7. S!AluAR(n, opcode).m = S!AluAssign(f.m, f.value, (opcode \div 8) % 8)
  BY <1>5, Zenon DEF S!AluAR, S!Then, S!Done
<1> QED BY <1>1, <1>3, <1>6, <1>7, Zenon DEF Decode

(* The decimal adjustment of a sum and of a difference: hi and lo are the  *)
(* sums of the high and of the low digits.                                 *)
LEMMA SumAdjusted ==
    ASSUME NEW hi \in 0 .. 18, NEW lo \in 0 .. 19, NEW r \in Int, r = (16 * hi + lo) % 256,
           NEW q \in Int, q = IF 16 * hi + lo > 255 \/ r > 153 THEN r + 96 ELSE r,
           NEW w \in Int, w = IF lo > 15 \/ (q % 256) % 16 > 9 THEN q + 6 ELSE q,
           NEW d \in Int, d = (10 * hi + lo) % 100
    PROVE /\ w % 256 = (d \div 10) * 16 + (d % 10)
          /\ (16 * hi + lo > 255 \/ r > 153) <=> 10 * hi + lo > 99
<1>1. PICK l \in 0 .. 9, e \in {0, 1} : lo = l + 10 * e
  OBVIOUS
<1>2. PICK h \in 0 .. 9, f \in {0, 1} : hi + e = h + 10 * f
  OBVIOUS
<1>3. d = 10 * h + l
  BY <1>1, <1>2
<1>4. d \div 10 = h /\ d % 10 = l
  BY <1>3
<1>5. (16 * hi + lo > 255 \/ r > 153) <=> f = 1
  BY <1>1, <1>2, SMT
<1>6. 10 * hi + lo > 99 <=> f = 1
  BY <1>1, <1>2, SMT
<1>7. q = r + 96 * f
  BY <1>5
<1>8. 16 * hi + lo = 16 * (h + 10 * f) + l - 6 * e
  BY <1>1, <1>2
<1>9. q % 256 = (16 * h + l - 6 * e) % 256
  BY <1>7, <1>8, SMT
<1>10. (lo > 15 \/ (q % 256) % 16 > 9) <=> e = 1
  BY <1>1, <1>9, SMT
<1>11. w = q + 6 * e
  BY <1>10
<1>12. w % 256 = 16 * h + l
  BY <1>9, <1>11, SMT
<1> QED BY <1>4, <1>5, <1>6, <1>12

LEMMA DifferenceAdjusted ==
    ASSUME NEW hi \in -9 .. 9, NEW lo \in -10 .. 9, NEW r \in Int, r = (16 * hi + lo) % 256,
           NEW q \in Int, q = IF 16 * hi + lo < 0 THEN r - 96 ELSE r,
           NEW w \in Int, w = IF lo < 0 THEN q - 6 ELSE q,
           NEW d \in Int, d = (10 * hi + lo) % 100
    PROVE /\ w % 256 = (d \div 10) * 16 + (d % 10)
          /\ 16 * hi + lo < 0 <=> 10 * hi + lo < 0
<1>1. PICK l \in 0 .. 9, e \in {0, 1} : lo = l - 10 * e
  OBVIOUS
<1>2. PICK h \in 0 .. 9, f \in {0, 1} : hi - e = h - 10 * f
  OBVIOUS
<1>3. d = 10 * h + l
  BY <1>1, <1>2
<1>4. d \div 10 = h /\ d % 10 = l
  BY <1>3
<1>5. 16 * hi + lo < 0 <=> f = 1
  BY <1>1, <1>2, SMT
<1>6. 10 * hi + lo < 0 <=> f = 1
  BY <1>1, <1>2, SMT
<1>7. q = r - 96 * f /\ w = q - 6 * e
  BY <1>1, <1>5
<1>8. 16 * hi + lo = 16 * (h - 10 * f) + l + 6 * e
  BY <1>1, <1>2
<1>9. w % 256 = 16 * h + l
  BY <1>7, <1>8, SMT
<1> QED BY <1>4, <1>5, <1>6, <1>9

(* What DAA does to the machine.                                           *)
DaaCarry(m) == m.c \/ (~m.n /\ m.r[7] > 153)
DaaByte(m) == AsByte(S!LowDigit(m, S!HighDigit(m, m.r[7], DaaCarry(m))))

LEMMA DaaComputes ==
    ASSUME NEW m \in Machines
    PROVE Computed(m, S!Daa(m).m, DaaByte(m), DaaByte(m) = 0, m.n, FALSE, DaaCarry(m))
<1>1. PICK r \in Int : r = m.r[7] /\ r = m.r[S!A]
  BY SomeCodes, InByte DEF Machines
<1>2. PICK over : over = DaaCarry(m)
  OBVIOUS
<1>3. over \in BOOLEAN
  BY <1>2, MachineFields, Zenon DEF DaaCarry
<1>4. S!Daa(m) = S!Done(S!Adjusted(m, r, over), 4)
  BY <1>1, <1>2, Zenon DEF S!Daa, Scalar!ToU8, DaaCarry
<1>5. PICK a \in Byte : a = DaaByte(m) /\ a = AsByte(S!LowDigit(m, S!HighDigit(m, r, over)))
  <2>1. PICK i \in {0, 1}, k \in {0, 1} : i = S!Num(m.c) /\ k = S!Num(over)
    BY NumIs, SameNum
  <2>2. r - 96 * i \in Int /\ r + 96 * k \in Int
    BY <1>1, <2>1
  <2>3. S!HighDigit(m, r, over) = IF m.n THEN r - 96 * i ELSE r + 96 * k
    BY <2>1, Zenon DEF S!HighDigit
  <2>4. PICK q \in Int : q = S!HighDigit(m, r, over)
    BY <2>2, <2>3
  <2>5. S!LowDigit(m, q) \in Int
    BY <2>4 DEF S!LowDigit
  <2> QED BY <1>1, <1>2, <2>4, <2>5, LowBits DEF DaaByte
<1>6. S!Adjusted(m, r, over) = S!SetFlags([m EXCEPT !.r[S!A] = a], a = 0, m.n, FALSE, over)
  <2>1. S!AsByte(S!LowDigit(m, S!HighDigit(m, r, over))) = a
    BY <1>5, SameLow
  <2> QED BY <2>1, Zenon DEF S!Adjusted, S!SetA, Scalar!FromU8
<1>7. PICK z \in BOOLEAN, minus \in BOOLEAN, h \in BOOLEAN : z = (a = 0) /\ minus = m.n /\ h = FALSE
  BY MachineFields
<1>8. Computed(m, S!SetFlags([m EXCEPT !.r[S!A] = a], z, minus, h, over), a, z, minus, h, over)
  <2>1. z \in BOOLEAN /\ minus \in BOOLEAN /\ h \in BOOLEAN
    BY <1>7
  <2>2. \A c \in BOOLEAN : Computed(m, S!SetFlags([m EXCEPT !.r[S!A] = a], z, minus, h, c), a,
                                    z, minus, h, c)
    BY <1>5, <2>1, AAndFlagsAreSet
  <2> QED BY <1>3, <2>2, Zenon
<1>9. S!Daa(m).m = S!Adjusted(m, r, over)
  BY <1>4 DEF S!Done
<1> QED BY <1>2, <1>5, <1>6, <1>7, <1>8, <1>9, Zenon

(* DAA behind an addition or a subtraction of decimal digits.              *)
(* What DAA is given, 16 * hi + lo of two decimal operands in the byte and *)
(* the flags, and what it makes of it.                                     *)
ColumnBounds(minus, hi, lo) ==
    /\ hi \in Int /\ lo \in Int
    /\ IF minus THEN hi \in -9 .. 9 /\ lo \in -10 .. 9 ELSE hi \in 0 .. 18 /\ lo \in 0 .. 19

DaaInput(m, minus, h, c, hi, lo) ==
    /\ m.n = minus /\ m.h = h /\ m.c = c /\ m.r[7] = (16 * hi + lo) % 256
    /\ h <=> lo \notin 0 .. 15
    /\ c <=> 16 * hi + lo \notin 0 .. 255
    /\ ColumnBounds(minus, hi, lo)

DaaOutput(hi, lo, d, z, carry) ==
    /\ d = (10 * hi + lo) % 100
    /\ z <=> d = 0
    /\ carry <=> 10 * hi + lo \notin 0 .. 99

DaaCase(m, minus, h, c, hi, lo, d, z, carry) ==
    /\ m \in Machines /\ hi \in Int /\ lo \in Int /\ d \in Int
    /\ {minus, h, c, z, carry} \subseteq BOOLEAN
    /\ DaaInput(m, minus, h, c, hi, lo) /\ DaaOutput(hi, lo, d, z, carry)

LEMMA DaaOnDigits ==
    ASSUME NEW m, NEW minus, NEW h, NEW c, NEW hi, NEW lo, NEW d, NEW z, NEW carry,
           DaaCase(m, minus, h, c, hi, lo, d, z, carry)
    PROVE Computed(m, S!Daa(m).m, ToDecimal(d), z, minus, FALSE, carry)
<1> SUFFICES ASSUME m \in Machines, hi \in Int, lo \in Int, d \in Int,
                    minus \in BOOLEAN, h \in BOOLEAN, c \in BOOLEAN, z \in BOOLEAN, carry \in BOOLEAN,
                    DaaInput(m, minus, h, c, hi, lo), DaaOutput(hi, lo, d, z, carry)
             PROVE  Computed(m, S!Daa(m).m, ToDecimal(d), z, minus, FALSE, carry)
  BY DEF DaaCase
<1> SUFFICES ASSUME d = (10 * hi + lo) % 100, z <=> d = 0, carry <=> 10 * hi + lo \notin 0 .. 99
             PROVE  Computed(m, S!Daa(m).m, ToDecimal(d), z, minus, FALSE, carry)
  BY Zenon DEF DaaOutput
<1> SUFFICES ASSUME m.n = minus, m.h = h, m.c = c, m.r[7] = (16 * hi + lo) % 256
             PROVE  Computed(m, S!Daa(m).m, ToDecimal(d), z, minus, FALSE, carry)
  BY Zenon DEF DaaInput
<1> SUFFICES ASSUME h <=> lo \notin 0 .. 15, c <=> 16 * hi + lo \notin 0 .. 255
             PROVE  Computed(m, S!Daa(m).m, ToDecimal(d), z, minus, FALSE, carry)
  BY Zenon DEF DaaInput
<1> SUFFICES ASSUME IF minus THEN hi \in -9 .. 9 /\ lo \in -10 .. 9
                             ELSE hi \in 0 .. 18 /\ lo \in 0 .. 19
             PROVE  Computed(m, S!Daa(m).m, ToDecimal(d), z, minus, FALSE, carry)
  BY Zenon DEF DaaInput, ColumnBounds
<1>1. PICK r \in Byte : r = m.r[7] /\ r = m.r[S!A] /\ r \in Int
  BY SomeCodes, InByte DEF Machines
<1>2. PICK over \in BOOLEAN : over <=> (c \/ (~minus /\ r > 153))
  OBVIOUS
<1>3. PICK i \in {0, 1}, k \in {0, 1} :
        /\ i = Num(c) /\ i = (IF c THEN 1 ELSE 0)
        /\ k = Num(over) /\ k = (IF over THEN 1 ELSE 0)
  BY DEF Num
<1>4. PICK q \in Int : q = IF minus THEN r - 96 * i ELSE r + 96 * k
  <2>1. r - 96 * i \in Int /\ r + 96 * k \in Int
    BY <1>1, <1>3
  <2> QED BY <2>1
<1>5. PICK w \in Int : w
                           = IF ~(h \/ (~minus /\ (q % 256) % 16 > 9)) THEN q ELSE IF minus THEN q - 6 ELSE q + 6
  BY <1>4
<1>6. w % 256 = (d \div 10) * 16 + (d % 10) /\ (over <=> carry)
  <2>1. CASE minus
    <3>1. hi \in -9 .. 9 /\ lo \in -10 .. 9 /\ r = (16 * hi + lo) % 256
      BY <1>1, <2>1
    <3>2. (c <=> 16 * hi + lo < 0) /\ (h <=> lo < 0)
      BY <3>1
    <3>3. i = IF 16 * hi + lo < 0 THEN 1 ELSE 0
      BY <1>3, <3>2
    <3>4. q = IF 16 * hi + lo < 0 THEN r - 96 ELSE r
      BY <1>1, <1>4, <2>1, <3>3
    <3>5. w = IF lo < 0 THEN q - 6 ELSE q
      BY <1>5, <2>1, <3>2
    <3>6. /\ w % 256 = (d \div 10) * 16 + (d % 10)
          /\ 16 * hi + lo < 0 <=> 10 * hi + lo < 0
      BY <1>1, <1>4, <1>5, <3>1, <3>4, <3>5, DifferenceAdjusted
    <3>7. carry <=> 10 * hi + lo < 0
      BY <3>1
    <3> QED BY <1>2, <2>1, <3>2, <3>6, <3>7
  <2>2. CASE ~minus
    <3>1. hi \in 0 .. 18 /\ lo \in 0 .. 19 /\ r = (16 * hi + lo) % 256
      BY <1>1, <2>2
    <3>2. (c <=> 16 * hi + lo > 255) /\ (h <=> lo > 15)
      BY <3>1
    <3>3. k = IF 16 * hi + lo > 255 \/ r > 153 THEN 1 ELSE 0
      BY <1>2, <1>3, <2>2, <3>2
    <3>4. q = IF 16 * hi + lo > 255 \/ r > 153 THEN r + 96 ELSE r
      BY <1>1, <1>4, <2>2, <3>3
    <3>5. w = IF lo > 15 \/ (q % 256) % 16 > 9 THEN q + 6 ELSE q
      BY <1>5, <2>2, <3>2
    <3>6. /\ w % 256 = (d \div 10) * 16 + (d % 10)
          /\ (16 * hi + lo > 255 \/ r > 153) <=> 10 * hi + lo > 99
      BY <1>1, <1>4, <1>5, <3>1, <3>4, <3>5, SumAdjusted
    <3>7. carry <=> 10 * hi + lo > 99
      BY <3>1
    <3> QED BY <1>2, <2>2, <3>2, <3>6, <3>7
  <2> QED BY <2>1, <2>2
<1>7. PICK a \in Byte : a = ToDecimal(d) /\ a = w % 256
  <2>1. ToDecimal(d) = w % 256
    BY <1>6 DEF ToDecimal
  <2>2. w % 256 \in Byte
    BY <1>5, LowBits DEF AsByte
  <2> QED BY <2>1, <2>2
<1>8. z = (a = 0)
  <2>1. d \in 0 .. 99
    OBVIOUS
  <2>2. a = 0 <=> d = 0
    BY <1>6, <1>7, <2>1
  <2> QED BY <2>2
<1>9. over = carry
  BY <1>2, <1>6
<1>10. S!HighDigit(m, r, over) = q
  <2>1. S!HighDigit(m, r, over) = IF m.n THEN r - 96 * S!Num(m.c) ELSE r + 96 * S!Num(over)
    BY Zenon DEF S!HighDigit
  <2>2. S!Num(m.c) = i /\ S!Num(over) = k
    <3>1. Num(m.c) = i /\ Num(over) = k
      BY <1>3
    <3>2. S!Num(m.c) = Num(m.c)
      BY SameNum
    <3>3. S!Num(over) = Num(over)
      BY SameNum
    <3> QED BY <3>1, <3>2, <3>3, Zenon
  <2> QED BY <1>4, <2>1, <2>2
<1>11. S!LowDigit(m, q) = w
  BY <1>5, SameLow DEF S!LowDigit, AsByte
<1>12. DaaCarry(m) = carry /\ DaaByte(m) = a
  <2>1. DaaCarry(m) = over
    BY <1>1, <1>2 DEF DaaCarry
  <2>2. S!LowDigit(m, S!HighDigit(m, m.r[7], DaaCarry(m))) = w
    BY <1>1, <1>10, <1>11, <2>1, Zenon
  <2> QED BY <1>7, <1>9, <2>1, <2>2 DEF AsByte, DaaByte
<1>13. Computed(m, S!Daa(m).m, DaaByte(m), DaaByte(m) = 0, m.n, FALSE, DaaCarry(m))
  BY DaaComputes
<1>14. PICK after, b, zero, v : /\ after = S!Daa(m).m /\ b = DaaByte(m) /\ zero = (DaaByte(m) = 0)
                                /\ v = DaaCarry(m)
  OBVIOUS
<1>15. Computed(m, after, b, zero, m.n, FALSE, v)
  BY <1>13, <1>14, Zenon
<1>16. b = ToDecimal(d) /\ zero = z /\ v = carry
  BY <1>7, <1>8, <1>12, <1>14
<1>17. Computed(m, after, ToDecimal(d), z, minus, FALSE, carry)
  <2>1. m.n = minus
    OBVIOUS
  <2> QED BY <1>15, <1>16, <2>1, Zenon
<1> QED BY <1>14, <1>17, Zenon

DaaReady(m, hi, lo) ==
    /\ m \in Machines /\ m.r[7] = (16 * hi + lo) % 256
    /\ m.h <=> lo \notin 0 .. 15
    /\ m.c <=> 16 * hi + lo \notin 0 .. 255
    /\ ColumnBounds(m.n, hi, lo)

DaaDone(m, hi, lo, k) ==
    \E d \in Int, z \in BOOLEAN, carry \in BOOLEAN :
      /\ DaaOutput(hi, lo, d, z, carry)
      /\ Computed(m, k, ToDecimal(d), z, m.n, FALSE, carry)

LEMMA DaaIsExact ==
    ASSUME NEW m, NEW hi, NEW lo, DaaReady(m, hi, lo)
    PROVE DaaDone(m, hi, lo, S!Daa(m).m)
<1>1. m \in Machines /\ hi \in Int /\ lo \in Int
  BY DEF DaaReady, ColumnBounds
<1>2. PICK d : d \in Int /\ d = (10 * hi + lo) % 100
  BY <1>1
<1>3. PICK z : z \in BOOLEAN /\ (z <=> d = 0)
  OBVIOUS
<1>4. PICK carry : carry \in BOOLEAN /\ (carry <=> 10 * hi + lo \notin 0 .. 99)
  OBVIOUS
<1>5. DaaOutput(hi, lo, d, z, carry)
  BY <1>2, <1>3, <1>4 DEF DaaOutput
<1>6. PICK minus, h, c : /\ m.n = minus /\ m.h = h /\ m.c = c
                         /\ minus \in BOOLEAN /\ h \in BOOLEAN /\ c \in BOOLEAN
  BY <1>1, MachineFields
<1>7. DaaInput(m, minus, h, c, hi, lo)
  BY <1>6 DEF DaaReady, DaaInput
<1>8. Computed(m, S!Daa(m).m, ToDecimal(d), z, minus, FALSE, carry)
  <2>1. {minus, h, c, z, carry} \subseteq BOOLEAN
    BY <1>3, <1>4, <1>6
  <2>2. DaaCase(m, minus, h, c, hi, lo, d, z, carry)
    BY <1>1, <1>2, <1>5, <1>7, <2>1, Zenon DEF DaaCase
  <2> QED BY <2>2, DaaOnDigits, Zenon
<1>9. Computed(m, S!Daa(m).m, ToDecimal(d), z, m.n, FALSE, carry)
  BY <1>6, <1>8
<1> QED BY <1>2, <1>3, <1>4, <1>5, <1>9, Zenon DEF DaaDone

(* ADD HL, BC, in numbers.                                                 *)
LEMMA AddHlIsExact ==
    ASSUME NEW m \in Machines, NEW k, k = S!AddHlRr(m, 0).m,
           NEW total \in Int, total = (m.r[4] * 256 + m.r[5]) + (m.r[0] * 256 + m.r[1])
    PROVE k.r[4] * 256 + k.r[5] = total % 65536 /\ k.c = (total > 65535) /\ k.z = m.z
<1>1. /\ m.r \in [S!Codes -> Byte] /\ {0, 1, 4, 5} \subseteq S!Codes
  BY SomeCodes DEF Machines
<1>2. PICK x \in Word, y \in Word : x = m.r[4] * 256 + m.r[5] /\ y = m.r[0] * 256 + m.r[1]
  BY <1>1, Joined
<1>3. Scalar!ToU16(S!HL(m)) = x /\ Scalar!ToU16(S!Wide(m, 0)) = y
  BY <1>2, SMT DEF S!HL, S!Wide, S!RegPair, Scalar!Combine, Scalar!ToU16
<1>4. PICK j : j = S!AddHl(m, x, y)
  OBVIOUS
<1>5. k = j
  <2>1. S!AddHlRr(m, 0) = S!Done(j, 8)
    BY <1>3, <1>4, Zenon DEF S!AddHlRr
  <2> QED BY <2>1 DEF S!Done
<1>6. PICK w \in Word : w = S!AsWord(x + y) /\ w = total % 65536
  <2>1. x + y = total /\ total \in Int
    BY <1>2
  <2> QED BY <2>1, LowBits, SameLow DEF AsWord
<1>7. PICK high \in Byte, low \in Byte : high = w \div 256 /\ low = w % 256 /\ high * 256 + low = w
  <2>1. w \in Int
    BY InWord
  <2>2. (w \div 256) * 256 + (w % 256) = w
    BY <2>1
  <2> QED BY <2>2, HalvesOf
<1>8. PICK u : u = S!SetRegPair(m, 2, w)
  OBVIOUS
<1>9. PICK u1, u2 : u1 = [m EXCEPT !.r[2 * 2] = high] /\ u2 = [u1 EXCEPT !.r[2 * 2 + 1] = low]
  OBVIOUS
<1>10. u = u2
  BY <1>7, <1>8, <1>9, Zenon DEF S!SetRegPair, Scalar!SplitHi, Scalar!SplitLo
<1>11. u1 \in Machines /\ u1.r = [m.r EXCEPT ![4] = high] /\ u1.z = m.z
  <2>1. PICK r : r = [m.r EXCEPT ![4] = high]
    OBVIOUS
  <2>2. r \in [S!Codes -> Byte]
    BY <1>1, <2>1
  <2>3. u1 = [m EXCEPT !.r = r]
    <3>1. 2 * 2 = 4
      OBVIOUS
    <3> QED BY <1>9, <2>1, <3>1, Zenon
  <2> QED BY <2>1, <2>2, <2>3, SMT DEF Machines
<1>12. u \in Machines /\ u.r[4] = high /\ u.r[5] = low /\ u.z = m.z
  <2>1. PICK r : r = [u1.r EXCEPT ![5] = low]
    OBVIOUS
  <2>2. u1.r \in [S!Codes -> Byte]
    BY <1>11 DEF Machines
  <2>3. r \in [S!Codes -> Byte] /\ r[5] = low /\ r[4] = high
    BY <1>1, <1>11, <2>1, <2>2
  <2>4. u2 = [u1 EXCEPT !.r = r]
    <3>1. 2 * 2 + 1 = 5
      OBVIOUS
    <3> QED BY <1>9, <2>1, <3>1, Zenon
  <2> QED BY <1>10, <1>11, <2>3, <2>4, SMT DEF Machines
<1> DEFINE half == (x % 4096) + (y % 4096) > 4095
           over == x + y > 65535
<1>13. half \in BOOLEAN /\ over \in BOOLEAN
  BY DEF half, over
<1>14. j = S!SetFlags(u, m.z, FALSE, half, over)
  <2>1. S!AddHl(m, x, y)
          = S!SetFlags(S!SetRegPair(m, 2, Scalar!FromU16(S!AsWord(x + y))), m.z, FALSE, half, over)
    BY SMT DEF S!AddHl, half, over
  <2>2. Scalar!FromU16(S!AsWord(x + y)) = w
    BY <1>6 DEF Scalar!FromU16
  <2> HIDE DEF half, over
  <2> QED BY <1>4, <1>8, <2>1, <2>2
<1>16. over = (total > 65535)
  BY <1>2 DEF over
<1> HIDE DEF half, over
<1>15. SetsFlags(u, j, m.z, FALSE, half, over)
  BY <1>12, <1>13, <1>14, MachineFields, FALSE \in BOOLEAN, FlagsAreSet
<1> QED BY <1>5, <1>6, <1>7, <1>12, <1>15, <1>16 DEF SetsFlags

(* The first instruction of a program, and the next one.                   *)
First(p) == S!ExecuteOpcode(ScalarStart(p)).m
Second(p) == S!ExecuteOpcode(First(p)).m

(* n is the machine a program starts with, behind its first opcode.        *)
Started(p, n) ==
    /\ n \in Machines /\ n.r = Registers(p)
    /\ n.z = p.z /\ n.n = p.n /\ n.h = p.h /\ n.c = p.c
    /\ n.pc = S!Plus(p.entry, 1) /\ n.mem = p.code /\ n.halted = FALSE /\ n.haltBug = FALSE

LEMMA ShownFields ==
    ASSUME NEW k, NEW m, Shown(k) = Shown(m)
    PROVE /\ k.r = m.r /\ k.z = m.z /\ k.n = m.n /\ k.h = m.h /\ k.c = m.c
          /\ k.pc = m.pc /\ k.mem = m.mem /\ k.halted = m.halted /\ k.haltBug = m.haltBug
BY DEF Shown

LEMMA FirstIs ==
    ASSUME NEW p \in Programs, NEW opcode, opcode = p.code[p.entry]
    PROVE /\ opcode \in Byte /\ First(p) \in Machines
          /\ \E n : /\ Started(p, n) /\ Decode(n, opcode).m \in Machines
                    /\ Shown(First(p)) = Shown(Decode(n, opcode).m)
<1>1. WellFormed(p)
  BY ProgramsAssumption
<1>2. PICK m : m = ScalarStart(p)
  OBVIOUS
<1>3. /\ m \in Machines /\ m.r = Registers(p) /\ m.z = p.z /\ m.n = p.n /\ m.h = p.h /\ m.c = p.c
      /\ m.pc = p.entry /\ m.mem = p.code /\ m.halted = FALSE /\ m.haltBug = FALSE
  BY <1>2, StartIsMachine DEF ScalarStart
<1>4. opcode \in Byte /\ opcode = Scalar!Load(m.mem, m.pc)
  BY <1>1, <1>3 DEF WellFormed, Scalar!Load
<1>5. PICK n \in Machines :
        /\ Shown(n) = Shown([m EXCEPT !.pc = S!Plus(m.pc, 1)])
        /\ Decode(n, opcode).m \in Machines
        /\ Shown(S!ExecuteOpcode(m).m) = Shown(Decode(n, opcode).m)
  BY <1>3, <1>4, ExecuteIs
<1>6. Started(p, n)
  <2>1. PICK next \in Word : next = S!Plus(p.entry, 1) /\ next = S!Plus(m.pc, 1)
    BY <1>3, MachineFields, PlusLifts
  <2>2. PICK k : k = [m EXCEPT !.pc = next]
    OBVIOUS
  <2>3. /\ k.r = m.r /\ k.z = m.z /\ k.n = m.n /\ k.h = m.h /\ k.c = m.c
        /\ k.pc = next /\ k.mem = m.mem /\ k.halted = m.halted /\ k.haltBug = m.haltBug
    BY <1>3, <2>2, SMT DEF Machines
  <2>4. Shown(n) = Shown(k)
    BY <1>5, <2>1, <2>2
  <2>5. /\ n.r = k.r /\ n.z = k.z /\ n.n = k.n /\ n.h = k.h /\ n.c = k.c
        /\ n.pc = k.pc /\ n.mem = k.mem /\ n.halted = k.halted /\ n.haltBug = k.haltBug
    BY <2>4, ShownFields
  <2> QED BY <1>3, <1>5, <2>1, <2>3, <2>5, Zenon DEF Started
<1>7. First(p) \in Machines
  <2>1. PICK done, vdone : done = S!ExecuteOpcode(m) /\ vdone = V!ExecuteOpcode(Splat(m))
    OBVIOUS
  <2>2. done.m \in Machines
    BY <1>3, <2>1, ExecuteOpcodeLifts
  <2> QED BY <1>2, <2>1, <2>2 DEF First
<1> QED BY <1>2, <1>4, <1>5, <1>6, <1>7, Zenon DEF First

LEMMA StartRegisters ==
    ASSUME NEW p \in Programs
    PROVE /\ Registers(p)[7] = p.a /\ Registers(p)[0] = p.x /\ Registers(p)[1] = p.x
          /\ Registers(p)[4] = p.hl \div 256 /\ Registers(p)[5] = p.hl % 256
          /\ p.a \in Byte /\ p.x \in Byte /\ p.hl \in Word
<1>1. 7 \in S!Codes /\ 0 \in S!Codes /\ 1 \in S!Codes /\ 4 \in S!Codes /\ 5 \in S!Codes
  BY DEF S!Codes, S!Indirect
<1>2. p.a \in Byte /\ p.x \in Byte /\ p.hl \in Word
  BY ProgramsAssumption DEF WellFormed
<1> QED BY <1>1, <1>2 DEF Registers

(* The arithmetic of a program's first instruction.                        *)
LEMMA AluFirst ==
    ASSUME NEW p \in Programs, NEW opcode, opcode = p.code[p.entry],
           opcode \in 128 .. 191, opcode % 8 = 0,
           NEW alu, alu = (opcode \div 8) % 8, alu \in {0, 1, 2, 3, 7}
    PROVE \E n : /\ Started(p, n)
                 /\ \E k : /\ Computed(n, k, AluResult(p, alu).a, AluResult(p, alu).z,
                                       AluResult(p, alu).n,
                                         AluResult(p, alu).h, AluResult(p, alu).c)
                           /\ Shown(First(p)) = Shown(k)
<1>1. PICK n : /\ Started(p, n) /\ Decode(n, opcode).m \in Machines
               /\ Shown(First(p)) = Shown(Decode(n, opcode).m)
  BY FirstIs
<1>2. opcode \in Byte
  BY FirstIs
<1>3. PICK k : k = Decode(n, opcode).m
  OBVIOUS
<1>4. k = S!AluAssign(n, n.r[0], alu)
  BY <1>1, <1>2, <1>3, AluOfB DEF Started
<1>5. n.r[0] = p.x /\ n.r[7] = p.a /\ p.x \in Byte /\ n \in Machines /\ n.c = p.c
  BY <1>1, StartRegisters DEF Started
<1>6. PICK want : want = AluResult(p, alu)
  OBVIOUS
<1>7. Computed(n, k, want.a, want.z, want.n, want.h, want.c)
  <2>1. Computed(n, S!AluAssign(n, p.x, alu), want.a, want.z, want.n, want.h, want.c)
    BY <1>5, <1>6, AluIsExact
  <2> QED BY <1>4, <1>5, <2>1
<1> QED BY <1>1, <1>3, <1>6, <1>7

LEMMA AddHlFirst ==
    ASSUME NEW p \in Programs, p.code[p.entry] = 9, NEW s, s = First(p)
    PROVE /\ s.r[4] * 256 + s.r[5] = (p.hl + 257 * p.x) % 65536
          /\ s.c = (p.hl + 257 * p.x > 65535) /\ s.z = p.z
<1>1. PICK n : /\ Started(p, n) /\ Decode(n, 9).m \in Machines
               /\ Shown(First(p)) = Shown(Decode(n, 9).m)
  BY FirstIs
<1>2. PICK k : k = S!AddHlRr(n, 0).m
  OBVIOUS
<1>3. Decode(n, 9).m = k
  <2>1. 9 \in Byte /\ 9 \div 16 = 0 /\ n \in Machines
    BY <1>1, InByte DEF Started
  <2> QED BY <1>2, <2>1, DispatchOfArithmetic DEF Decode
<1>4. /\ n.r[4] = p.hl \div 256 /\ n.r[5] = p.hl % 256 /\ n.r[0] = p.x /\ n.r[1] = p.x
      /\ p.x \in Byte /\ p.hl \in Word /\ n \in Machines /\ n.z = p.z
  BY <1>1, StartRegisters DEF Started
<1>5. PICK total \in Int : /\ total = p.hl + 257 * p.x
                           /\ total = (n.r[4] * 256 + n.r[5]) + (n.r[0] * 256 + n.r[1])
  <2>1. p.hl \in Int /\ p.x \in Int
    BY <1>4, InByte, InWord
  <2> QED BY <1>4, <2>1
<1>6. k.r[4] * 256 + k.r[5] = total % 65536 /\ k.c = (total > 65535) /\ k.z = n.z
  BY <1>2, <1>4, <1>5, AddHlIsExact
<1>7. s.r = k.r /\ s.c = k.c /\ s.z = k.z
  BY <1>1, <1>3, ShownFields
<1> QED BY <1>4, <1>5, <1>6, <1>7

LEMMA NextAddress ==
    ASSUME NEW at \in Word, at + 1 \in Word
    PROVE S!Plus(at, 1) = at + 1
<1>1. S!Plus(at, 1) = (at + 1) % 65536
  BY SameLow DEF S!Plus, AsWord, Scalar!ToU16, Scalar!FromU16
<1>2. 0 <= at + 1 /\ at + 1 < 65536 /\ at + 1 \in Int
  BY InWord
<1> QED BY <1>1, <1>2

LEMMA DecimalProgram ==
    ASSUME NEW p \in Programs, p.kind = "decimal"
    PROVE /\ p.code[p.entry] \in {128, 136, 144, 152}
          /\ p.entry \in Word /\ p.entry + 1 \in DOMAIN p.code /\ p.code[p.entry + 1] = 39
          /\ p.entry + 1 \in Word /\ p.finish \in Word /\ p.finish = p.entry + 1 + 1
          /\ S!Plus(p.entry, 1) = p.entry + 1 /\ S!Plus(p.entry + 1, 1) = p.finish
<1>1. WellFormed(p)
  BY ProgramsAssumption
<1>2. /\ p.code[p.entry] \in {128, 136, 144, 152}
      /\ p.entry \in Word /\ p.entry + 1 \in DOMAIN p.code /\ p.code[p.entry + 1] = 39
      /\ p.entry + 1 \in Word /\ p.finish \in Word /\ p.finish = p.entry + 2
  BY <1>1 DEF WellFormed
<1>3. p.entry \in Int /\ p.finish = p.entry + 1 + 1
  BY <1>2, InWord
<1> QED BY <1>2, <1>3, NextAddress

(* What the first instruction leaves to the second: A, flags and the rest. *)
DecimalMiddle(p, s, want) ==
    /\ s \in Machines /\ s.r[7] = want.a
    /\ s.n = want.n /\ s.h = want.h /\ s.c = want.c
    /\ s.pc = p.entry + 1 /\ s.mem = p.code /\ s.halted = FALSE /\ s.haltBug = FALSE

LEMMA DecimalFirst ==
    ASSUME NEW p \in Programs, p.kind = "decimal", NEW alu, alu = (p.code[p.entry] \div 8) % 8,
           NEW s, s = First(p), NEW want, want = AluResult(p, alu)
    PROVE DecimalMiddle(p, s, want)
<1>1. PICK opcode : opcode = p.code[p.entry]
  OBVIOUS
<1>2. opcode \in {128, 136, 144, 152}
  BY <1>1, DecimalProgram
<1>3. opcode \in 128 .. 191 /\ opcode % 8 = 0 /\ alu \in {0, 1, 2, 3, 7}
  BY <1>1, <1>2
<1>4. PICK n, k : /\ Started(p, n) /\ Computed(n, k, want.a, want.z, want.n, want.h, want.c)
                  /\ Shown(s) = Shown(k)
  BY <1>1, <1>3, AluFirst
<1>5. /\ s.r = k.r /\ s.n = k.n /\ s.h = k.h /\ s.c = k.c
      /\ s.pc = k.pc /\ s.mem = k.mem /\ s.halted = k.halted /\ s.haltBug = k.haltBug
  BY <1>4, ShownFields
<1>6. /\ k.r[7] = want.a /\ k.n = want.n /\ k.h = want.h /\ k.c = want.c
      /\ k.pc = n.pc /\ k.mem = n.mem /\ k.halted = n.halted /\ k.haltBug = n.haltBug
  BY <1>4 DEF Computed
<1>7. n.pc = p.entry + 1 /\ n.mem = p.code /\ n.halted = FALSE /\ n.haltBug = FALSE
  BY <1>4, DecimalProgram DEF Started
<1>8. s \in Machines
  BY FirstIs
<1> QED BY <1>5, <1>6, <1>7, <1>8 DEF DecimalMiddle

Digit == 0 .. 9
CarryIn == {0, 1}
Opcodes == 0 .. 3      \* ADD, ADC, SUB and SBC

LEMMA Digits ==
    ASSUME NEW x \in Byte, IsDecimal(x)
    PROVE \E t \in Digit, u \in Digit : x = 16 * t + u /\ t = x \div 16 /\ u = x % 16
<1>1. x \in Int /\ 0 <= x /\ x % 16 < 10 /\ x \div 16 < 10
  BY InByte DEF IsDecimal
<1>2. PICK t, u : t = x \div 16 /\ u = x % 16
  OBVIOUS
<1>3. t \in 0 .. 9 /\ u \in 0 .. 9 /\ x = 16 * t + u
  BY <1>1, <1>2
<1> QED BY <1>2, <1>3 DEF Digit

(* The two columns of a sum or of a difference, with the carry.            *)
Columns(alu, t, u, v, w, i, hi, lo) ==
    /\ hi \in Int /\ lo \in Int
    /\ \A minus \in BOOLEAN : (minus <=> ~(alu < 2)) => ColumnBounds(minus, hi, lo)
    /\ alu < 2 => /\ (10 * t + u) + (10 * v + w) + i = 10 * hi + lo
                  /\ (16 * t + u) + (16 * v + w) + i = 16 * hi + lo
                  /\ u + w + i = lo
    /\ ~(alu < 2) => /\ (10 * t + u) - (10 * v + w) - i = 10 * hi + lo
                     /\ (16 * t + u) - (16 * v + w) - i = 16 * hi + lo
                     /\ u - w - i = lo

LEMMA ColumnsExist ==
    ASSUME NEW alu \in Opcodes, NEW i \in CarryIn, NEW t \in Digit, NEW u \in Digit,
           NEW v \in Digit, NEW w \in Digit
    PROVE \E hi, lo : Columns(alu, t, u, v, w, i, hi, lo)
<1> USE DEF CarryIn, Digit, Opcodes
<1>1. CASE alu < 2
  <2>1. PICK hi, lo : hi = t + v /\ lo = u + w + i
    OBVIOUS
  <2>2. hi \in 0 .. 18 /\ lo \in 0 .. 19 /\ hi \in Int /\ lo \in Int
    BY <2>1
  <2>3. /\ (10 * t + u) + (10 * v + w) + i = 10 * hi + lo
        /\ (16 * t + u) + (16 * v + w) + i = 16 * hi + lo
        /\ u + w + i = lo
    BY <2>1
  <2>4. \A minus \in BOOLEAN : (minus <=> ~(alu < 2)) => ColumnBounds(minus, hi, lo)
    BY <1>1, <2>2, Zenon DEF ColumnBounds
  <2> QED BY <1>1, <2>2, <2>3, <2>4, Zenon DEF Columns
<1>2. CASE ~(alu < 2)
  <2>1. PICK hi, lo : hi = t - v /\ lo = u - w - i
    OBVIOUS
  <2>2. hi \in -9 .. 9 /\ lo \in -10 .. 9 /\ hi \in Int /\ lo \in Int
    BY <2>1
  <2>3. /\ (10 * t + u) - (10 * v + w) - i = 10 * hi + lo
        /\ (16 * t + u) - (16 * v + w) - i = 16 * hi + lo
        /\ u - w - i = lo
    BY <2>1
  <2>4. \A minus \in BOOLEAN : (minus <=> ~(alu < 2)) => ColumnBounds(minus, hi, lo)
    BY <1>2, <2>2, Zenon DEF ColumnBounds
  <2> QED BY <1>2, <2>2, <2>3, <2>4, Zenon DEF Columns
<1> QED BY <1>1, <1>2

LEMMA DecimalSecond ==
    ASSUME NEW p \in Programs, p.kind = "decimal", NEW alu, alu = (p.code[p.entry] \div 8) % 8,
           NEW s, s = Second(p), NEW total, total = DecimalTotal(p, alu)
    PROVE /\ s.pc = p.finish /\ s.r[7] = ToDecimal(total % 100)
          /\ s.c = (total \notin 0 .. 99) /\ s.z = (total % 100 = 0)
<1>1. PICK m, want : m = First(p) /\ want = AluResult(p, alu)
  OBVIOUS
<1>2. DecimalMiddle(p, m, want)
  BY <1>1, DecimalFirst, Zenon
<1>21. /\ m \in Machines /\ m.r[7] = want.a
       /\ m.n = want.n /\ m.h = want.h /\ m.c = want.c
       /\ m.pc = p.entry + 1 /\ m.mem = p.code /\ m.haltBug = FALSE
  BY <1>2 DEF DecimalMiddle
<1>3. alu \in 0 .. 3 /\ alu \in Opcodes
  BY DecimalProgram DEF Opcodes
<1>4. PICK i \in CarryIn : i = Num(alu % 2 = 1 /\ p.c) /\ i = Num(alu % 2 = 1 /\ alu < 7 /\ p.c)
  <2>1. (alu % 2 = 1 /\ p.c) <=> (alu % 2 = 1 /\ alu < 7 /\ p.c)
    BY <1>3
  <2> QED BY <2>1 DEF Num, CarryIn
<1>5. IsDecimal(p.a) /\ IsDecimal(p.x) /\ p.a \in Byte /\ p.x \in Byte
  BY ProgramsAssumption DEF WellFormed
<1>51. PICK t \in Digit, u \in Digit : p.a = 16 * t + u /\ t = p.a \div 16 /\ u = p.a % 16
  BY <1>5, Digits
<1>52. PICK v \in Digit, w \in Digit : p.x = 16 * v + w /\ v = p.x \div 16 /\ w = p.x % 16
  BY <1>5, Digits
<1>6. PICK hi, lo : Columns(alu, t, u, v, w, i, hi, lo)
  BY <1>3, <1>4, <1>51, <1>52, ColumnsExist, Zenon
<1>61. /\ hi \in Int /\ lo \in Int
       /\ \A minus \in BOOLEAN : (minus <=> ~(alu < 2)) => ColumnBounds(minus, hi, lo)
       /\ alu < 2 => /\ (10 * t + u) + (10 * v + w) + i = 10 * hi + lo
                     /\ (16 * t + u) + (16 * v + w) + i = 16 * hi + lo
                     /\ u + w + i = lo
       /\ ~(alu < 2) => /\ (10 * t + u) - (10 * v + w) - i = 10 * hi + lo
                        /\ (16 * t + u) - (16 * v + w) - i = 16 * hi + lo
                        /\ u - w - i = lo
  BY <1>6, Zenon DEF Columns
<1>7. total = 10 * hi + lo /\ total \in Int
  <2>1. Decimal(p.a) = t * 10 + u /\ Decimal(p.x) = v * 10 + w
    BY <1>51, <1>52, Zenon DEF Decimal
  <2>2. t * 10 = 10 * t /\ v * 10 = 10 * v
    BY <1>51, <1>52 DEF Digit
  <2>3. Decimal(p.a) = 10 * t + u /\ Decimal(p.x) = 10 * v + w
    BY <2>1, <2>2, Zenon
  <2>4. total = IF alu < 2 THEN Decimal(p.a) + Decimal(p.x) + i ELSE Decimal(p.a) - Decimal(p.x) - i
    BY <1>4 DEF DecimalTotal
  <2>5. CASE alu < 2
    <3>1. total = (10 * t + u) + (10 * v + w) + i
      BY <2>3, <2>4, <2>5, Zenon
    <3>2. (10 * t + u) + (10 * v + w) + i = 10 * hi + lo
      BY <1>61, <2>5, Zenon
    <3> QED BY <1>61, <3>1, <3>2
  <2>6. CASE ~(alu < 2)
    <3>1. total = (10 * t + u) - (10 * v + w) - i
      BY <2>3, <2>4, <2>6, Zenon
    <3>2. (10 * t + u) - (10 * v + w) - i = 10 * hi + lo
      BY <1>61, <2>6, Zenon
    <3> QED BY <1>61, <3>1, <3>2
  <2> QED BY <2>5, <2>6
<1>8. PICK minus \in BOOLEAN : minus <=> ~(alu < 2)
  OBVIOUS
<1>81. PICK h \in BOOLEAN : h <=> lo \notin 0 .. 15
  OBVIOUS
<1>82. PICK c \in BOOLEAN : c <=> 16 * hi + lo \notin 0 .. 255
  OBVIOUS
<1>9. want.a = (16 * hi + lo) % 256 /\ want.n = minus /\ want.h = h /\ want.c = c
  <2>1. PICK sum, low : /\ sum = (IF minus THEN p.a - p.x - i ELSE p.a + p.x + i)
                        /\ low
                               = (IF minus THEN (p.a % 16) - (p.x % 16) - i ELSE (p.a % 16) + (p.x % 16) + i)
    OBVIOUS
  <2>2. sum = 16 * hi + lo /\ low = lo
    <3>1. p.a % 16 = u /\ p.x % 16 = w /\ p.a = 16 * t + u /\ p.x = 16 * v + w
      BY <1>51, <1>52, Zenon
    <3>2. /\ sum
                 = (IF minus THEN (16 * t + u) - (16 * v + w) - i ELSE (16 * t + u) + (16 * v + w) + i)
          /\ low = (IF minus THEN u - w - i ELSE u + w + i)
      BY <2>1, <3>1, Zenon
    <3>3. CASE alu < 2
      <4>1. sum = (16 * t + u) + (16 * v + w) + i /\ low = u + w + i
        BY <1>8, <3>2, <3>3, Zenon
      <4> QED BY <1>61, <3>3, <4>1, Zenon
    <3>4. CASE ~(alu < 2)
      <4>1. sum = (16 * t + u) - (16 * v + w) - i /\ low = u - w - i
        BY <1>8, <3>2, <3>4, Zenon
      <4> QED BY <1>61, <3>4, <4>1, Zenon
    <3> QED BY <3>3, <3>4, Zenon
  <2>3. alu # 7 /\ (alu \in {2, 3, 7} <=> minus)
    BY <1>3, <1>8
  <2>4. /\ AluResult(p, alu).a = sum % 256 /\ AluResult(p, alu).n = (alu \in {2, 3, 7})
        /\ AluResult(p, alu).h = (low \notin 0 .. 15) /\ AluResult(p, alu).c = (sum \notin 0 .. 255)
    BY <1>4, <2>1, <2>3, Zenon DEF AluResult
  <2>5. /\ want.h = (lo \notin 0 .. 15) /\ want.c = (16 * hi + lo \notin 0 .. 255)
        /\ want.a = (16 * hi + lo) % 256
    BY <1>1, <2>2, <2>4
  <2>6. want.n = minus
    BY <1>1, <2>3, <2>4
  <2> QED BY <1>81, <1>82, <2>5, <2>6
<1>11. 39 \in Byte /\ Scalar!Load(m.mem, m.pc) = 39
  BY <1>21, InByte, DecimalProgram DEF Scalar!Load
<1>12. PICK n \in Machines :
        /\ Shown(n) = Shown([m EXCEPT !.pc = S!Plus(m.pc, 1)])
        /\ Shown(S!ExecuteOpcode(m).m) = Shown(Decode(n, 39).m)
  BY <1>21, <1>11, ExecuteIs
<1>13. n.r = m.r /\ n.n = m.n /\ n.h = m.h /\ n.c = m.c /\ n.pc = p.finish
  <2>1. PICK next \in Word : next = S!Plus(m.pc, 1) /\ next = p.finish
    BY <1>21, DecimalProgram
  <2>2. PICK k : k = [m EXCEPT !.pc = next]
    OBVIOUS
  <2>3. k.r = m.r /\ k.n = m.n /\ k.h = m.h /\ k.c = m.c /\ k.pc = next
    BY <1>21, <2>2, SMT DEF Machines
  <2>4. Shown(n) = Shown(k)
    BY <1>12, <2>1, <2>2
  <2>5. n.r = k.r /\ n.n = k.n /\ n.h = k.h /\ n.c = k.c /\ n.pc = k.pc
    BY <2>4, ShownFields
  <2> QED BY <2>1, <2>3, <2>5
<1>14. PICK k : k = S!Daa(n).m
  OBVIOUS
<1>15. Decode(n, 39).m = k
  BY <1>11, <1>14, DispatchOfArithmetic DEF Decode
<1>16. PICK d \in Int, z \in BOOLEAN, carry \in BOOLEAN :
         /\ DaaOutput(hi, lo, d, z, carry)
         /\ Computed(n, k, ToDecimal(d), z, n.n, FALSE, carry)
  <2>1. n.n = minus /\ n.h = h /\ n.c = c /\ n.r[7] = (16 * hi + lo) % 256
    BY <1>21, <1>9, <1>13
  <2>2. ColumnBounds(n.n, hi, lo)
    BY <1>61, <1>8, <2>1
  <2>3. DaaReady(n, hi, lo)
    BY <1>12, <1>81, <1>82, <2>1, <2>2 DEF DaaReady
  <2>4. DaaDone(n, hi, lo, k)
    BY <1>14, <2>3, DaaIsExact
  <2> QED BY <2>4, Zenon DEF DaaDone
<1>17. Shown(s) = Shown(k)
  BY <1>1, <1>12, <1>15 DEF Second
<1>18. s.r = k.r /\ s.z = k.z /\ s.c = k.c /\ s.pc = k.pc
  BY <1>17, ShownFields
<1>19. k.r[7] = ToDecimal(d) /\ k.z = z /\ k.c = carry /\ k.pc = n.pc
  BY <1>16 DEF Computed
<1>20. z = (total % 100 = 0) /\ carry = (total \notin 0 .. 99) /\ d = total % 100
  BY <1>7, <1>16 DEF DaaOutput
<1> QED BY <1>13, <1>18, <1>19, <1>20

(* What is left after one instruction and after two.                       *)
ArithmeticIInv ==
    /\ program \in Programs /\ steps \in Nat
    /\ steps = 0 => scalar = ScalarStart(program)
    /\ steps = 1 => scalar = First(program)
    /\ program.kind = "single" => steps < 2
    /\ program.kind = "decimal" => steps < 3 /\ (steps = 2 => scalar = Second(program))

LEMMA ArithmeticInitIInv == LaneInit => ArithmeticIInv
BY DEF LaneInit, LaneStart, ArithmeticIInv

LEMMA ArithmeticNextIInv == ArithmeticIInv /\ [LaneNext]_laneVars => ArithmeticIInv'
<1> SUFFICES ASSUME ArithmeticIInv, [LaneNext]_laneVars PROVE ArithmeticIInv'
  OBVIOUS
<1>1. CASE Instruction
  <2>1. /\ Running /\ (program.kind = "single" => steps = 0)
        /\ scalar' = S!ExecuteOpcode(scalar).m /\ steps' = steps + 1 /\ program' = program
    BY <1>1, Zenon DEF Instruction, Executed
  <2>2. program.kind = "decimal" => steps < 2
    <3>1. ASSUME program.kind = "decimal", steps = 2 PROVE FALSE
      <4>1. Second(program).pc = program.finish
        BY <3>1, DecimalSecond DEF ArithmeticIInv
      <4> QED BY <2>1, <3>1, <4>1 DEF ArithmeticIInv, Running
    <3> QED BY <3>1 DEF ArithmeticIInv
  <2>3. steps = 0 => scalar' = First(program)
    BY <2>1 DEF ArithmeticIInv, First
  <2>4. steps = 1 => scalar' = Second(program)
    BY <2>1 DEF ArithmeticIInv, Second
  <2> QED BY <2>1, <2>2, <2>3, <2>4 DEF ArithmeticIInv
<1>2. CASE UNCHANGED laneVars
  BY <1>2 DEF laneVars, ArithmeticIInv
<1> QED BY <1>1, <1>2 DEF LaneNext

LEMMA ArithmeticIInvExact == ArithmeticIInv => ArithmeticExact
<1> SUFFICES ASSUME ArithmeticIInv PROVE ArithmeticExact
  OBVIOUS
<1>1. PICK p, opcode, alu : p = program /\ opcode = p.code[p.entry] /\ alu = (opcode \div 8) % 8
  OBVIOUS
<1>2. PICK want : want = AluResult(p, alu)
  OBVIOUS
<1>3. ASSUME Finished, p.kind = "single"
      PROVE  scalar = First(p) /\ p \in Programs
  BY <1>1, <1>3 DEF ArithmeticIInv, Finished
<1>4. ASSUME Finished, p.kind = "single", opcode % 8 = 0, opcode \in 128 .. 191,
             alu \in {0, 1, 2, 3, 7}
      PROVE  /\ scalar.r[7] = want.a
             /\ <<scalar.z, scalar.n, scalar.h, scalar.c>> = <<want.z, want.n, want.h, want.c>>
  <2>1. PICK n, k : /\ Computed(n, k, want.a, want.z, want.n, want.h, want.c)
                    /\ Shown(scalar) = Shown(k)
    BY <1>1, <1>2, <1>3, <1>4, AluFirst
  <2>2. scalar.r = k.r /\ scalar.z = k.z /\ scalar.n = k.n /\ scalar.h = k.h /\ scalar.c = k.c
    BY <2>1, ShownFields
  <2> QED BY <2>1, <2>2 DEF Computed
<1>5. ASSUME Finished, p.kind = "single", opcode = 9
      PROVE  /\ scalar.r[4] * 256 + scalar.r[5] = (p.hl + 257 * p.x) % 65536
             /\ scalar.c = (p.hl + 257 * p.x > 65535) /\ scalar.z = p.z
  <2>1. PICK s : s = First(p)
    OBVIOUS
  <2>2. p \in Programs /\ p.code[p.entry] = 9 /\ scalar = s
    BY <1>1, <1>3, <1>5, <2>1
  <2> QED BY <2>1, <2>2, AddHlFirst
<1>6. ASSUME Finished, p.kind = "decimal"
      PROVE  scalar = Second(p) /\ p \in Programs
  <2>1. p \in Programs
    BY <1>1 DEF ArithmeticIInv
  <2>2. steps # 1
    <3>1. ASSUME steps = 1 PROVE FALSE
      <4>1. scalar = First(p)
        BY <1>1, <3>1 DEF ArithmeticIInv
      <4>2. scalar.pc = p.entry + 1 /\ scalar.halted = FALSE
        BY <1>6, <2>1, <4>1, DecimalFirst DEF DecimalMiddle
      <4>3. p.entry + 1 # p.finish
        BY <1>6, <2>1, InWord, DecimalProgram
      <4> QED BY <1>1, <1>6, <3>1, <4>2, <4>3 DEF Finished, Running, MaxSteps
    <3> QED BY <3>1
  <2> QED BY <1>1, <1>6, <2>1, <2>2 DEF ArithmeticIInv, Finished
<1>7. ASSUME Finished, p.kind = "decimal", NEW total, total = DecimalTotal(p, alu)
      PROVE  /\ scalar.r[7] = ToDecimal(total % 100)
             /\ scalar.c = (total \notin 0 .. 99) /\ scalar.z = (total % 100 = 0)
  BY <1>1, <1>6, <1>7, DecimalSecond
<1>8. DecimalExact(p, alu)
  <2>1. PICK total : total = DecimalTotal(p, alu)
    OBVIOUS
  <2> QED BY <1>7, <2>1, Zenon DEF DecimalExact
<1>9. AluExact(p, opcode, alu)
  BY <1>2, <1>4, Zenon DEF AluExact
<1>10. AddHlExact(p, opcode)
  BY <1>5 DEF AddHlExact
<1> QED BY <1>1, <1>8, <1>9, <1>10, Zenon DEF ArithmeticExact

(* For every byte, every digit and every carry: an ALU operation that adds *)
(* or subtracts leaves the byte of the sum or the difference and the flags *)
(* of the numbers, although alu_assign reads carry and half carry off      *)
(* single bits; op_add_hl adds words; and op_daa behind an addition or a   *)
(* subtraction of two decimal numbers leaves the decimal result.           *)
THEOREM ArithmeticHolds == LaneSpec => []ArithmeticExact
BY ArithmeticInitIInv, ArithmeticNextIInv, ArithmeticIInvExact, PTL DEF LaneSpec
================================================================================
