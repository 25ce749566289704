----------------------------- MODULE ScalarExec ------------------------------
(***************************************************************************)
(* The scalar execution backend of kernel-core/src/exec.rs: a value is one *)
(* byte or one word. Carry and half carry are computed from the bits of    *)
(* operands and result, as the code does, not from the size of the sum.    *)
(* Memory is a function of the addresses in use; other addresses read 0.   *)
(***************************************************************************)
EXTENDS Bytes

FromU8(x) == x
FromU16(x) == x
ToU8(x) == x
ToU16(x) == x

Combine(high, low) == high * 256 + low
SplitHi(x) == x \div 256
SplitLo(x) == x % 256

And(a, b) == AndByte(a, b)
Or(a, b) == OrByte(a, b)
Xor(a, b) == XorByte(a, b)

(* The bits the carry and the half carry of a sum are read from.           *)
HalfOf(a, b, result) == (Bit(a, 16) # Bit(b, 16)) # Bit(result, 16)
CarryOf(a, b, sum) ==
    (Bit(a, 128) /\ Bit(b, 128)) \/ ((Bit(a, 128) \/ Bit(b, 128)) /\ ~Bit(sum, 128))
BorrowOf(a, b, diff) ==
    (~Bit(a, 128) /\ Bit(b, 128)) \/ (Bit(a, 128) = Bit(b, 128) /\ Bit(diff, 128))

Add8(a, b, carry) ==
    LET sum == AsByte(a + b + Num(carry))
    IN  [value |-> sum, z |-> sum = 0, n |-> FALSE,
         h |-> HalfOf(a, b, sum), c |-> CarryOf(a, b, sum)]

Sub8(a, b, borrow) ==
    LET diff == AsByte(a - b - Num(borrow))
    IN  [value |-> diff, z |-> diff = 0, n |-> TRUE,
         h |-> HalfOf(a, b, diff), c |-> BorrowOf(a, b, diff)]

(* The memory behind Bus::read8 and Bus::write8.                           *)
Load(mem, addr) == IF addr \in DOMAIN mem THEN mem[addr] ELSE 0
Store(mem, addr, x) ==
    [at \in DOMAIN mem \cup {addr} |-> IF at = addr THEN x ELSE mem[at]]
=============================================================================
