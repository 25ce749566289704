------------------------------ MODULE LaneExec -------------------------------
(***************************************************************************)
(* The lane-parallel backend: exec_simd.rs and the accesses of             *)
(* bus_simd.rs. A value has one component per lane, numbered from 0.       *)
(* Whatever leaves the lanes, to_u8, to_u16 and the flags, is taken from   *)
(* lane 0; Z after an addition holds only if every lane is zero. What      *)
(* enters them is the same in every lane.                                  *)
(***************************************************************************)
EXTENDS Bytes

CONSTANT LaneCount      \* LANES

ASSUME LaneAssumption == LaneCount \in Nat \ {0}

Lane == 0 .. LaneCount - 1

Scalar == INSTANCE ScalarExec

FromU8(x) == [l \in Lane |-> x]
FromU16(x) == [l \in Lane |-> x]
ToU8(x) == x[0]
ToU16(x) == x[0]

Combine(high, low) == [l \in Lane |-> high[l] * 256 + low[l]]
SplitHi(x) == [l \in Lane |-> x[l] \div 256]
SplitLo(x) == [l \in Lane |-> x[l] % 256]

And(a, b) == [l \in Lane |-> AndByte(a[l], b[l])]
Or(a, b) == [l \in Lane |-> OrByte(a[l], b[l])]
Xor(a, b) == [l \in Lane |-> XorByte(a[l], b[l])]

(* The flags of simd additions and subtractions.                           *)
Add8(a, b, carry) ==
    LET sum == [l \in Lane |-> AsByte(a[l] + b[l] + Num(carry))]
    IN  [value |-> sum, z |-> \A l \in Lane : sum[l] = 0, n |-> FALSE,
         h |-> Scalar!HalfOf(a[0], b[0], sum[0]), c |-> Scalar!CarryOf(a[0], b[0], sum[0])]

Sub8(a, b, borrow) ==
    LET diff == [l \in Lane |-> AsByte(a[l] - b[l] - Num(borrow))]
    IN  [value |-> diff, z |-> \A l \in Lane : diff[l] = 0, n |-> TRUE,
         h |-> Scalar!HalfOf(a[0], b[0], diff[0]), c |-> Scalar!BorrowOf(a[0], b[0], diff[0])]

(* Each lane has a bus of its own and accesses its own address.            *)
Load(mem, addr) == [l \in Lane |-> Scalar!Load(mem[l], addr[l])]

(* A bug: only lane 0 is written.                                          *)
StoreFirst(mem, addr, x) == [mem EXCEPT ![0] = Scalar!Store(@, addr[0], x[0])]

Store(mem, addr, x) == [l \in Lane |-> Scalar!Store(mem[l], addr[l], x[l])]
=============================================================================
