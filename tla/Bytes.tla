-------------------------------- MODULE Bytes ---------------------------------
(* Bytes, words and their bits, as the core of the emulator uses them.     *)
EXTENDS Integers

Byte == 0 .. 255
Word == 0 .. 65535

AsByte(x) == x % 256
AsWord(x) == x % 65536

(* Is the bit of the given weight set?                                     *)
Bit(x, weight) == (x \div weight) % 2 = 1

Num(b) == IF b THEN 1 ELSE 0

(* The byte whose bits satisfy P, highest first.                           *)
ByteOf(P(_)) ==
    128 * Num(P(128)) + 64 * Num(P(64)) + 32 * Num(P(32)) + 16 * Num(P(16))
      + 8 * Num(P(8)) + 4 * Num(P(4)) + 2 * Num(P(2)) + Num(P(1))

AndByte(a, b) == ByteOf(LAMBDA w : Bit(a, w) /\ Bit(b, w))
OrByte(a, b) == ByteOf(LAMBDA w : Bit(a, w) \/ Bit(b, w))
XorByte(a, b) == ByteOf(LAMBDA w : Bit(a, w) # Bit(b, w))

(* A byte read as a two's complement number.                               *)
Signed(x) == IF x < 128 THEN x ELSE x - 256
=============================================================================
