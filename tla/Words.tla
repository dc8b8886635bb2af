------------------------------- MODULE Words -------------------------------
(***************************************************************************)
(* The 16-bit words of the processor and the operations the SystemVerilog  *)
(* sources apply to them.  A word is the natural number its bits encode;   *)
(* every operation keeps the width, so that arithmetic wraps modulo 2^16   *)
(* as it does in the hardware.                                             *)
(***************************************************************************)
EXTENDS Integers

WordSize == 65536
Word     == {w \in Nat : w < WordSize}

Bit(w, i) == (w \div 2^i) % 2

(* Bit 15 of a word, its sign in two's complement. *)
Sign(w) == IF w >= 32768 THEN 1 ELSE 0

(* The signed number a word encodes. *)
Signed(w) == IF w < 32768 THEN w ELSE w - WordSize

Plus(a, b)  == (a + b) % WordSize
Minus(a, b) == (a - b) % WordSize

(***************************************************************************)
(* Bitwise operations: Pack puts sixteen bits together, bit 0 first.       *)
(***************************************************************************)
LowByte(bit) ==
    bit[0] + 2 * bit[1] + 4 * bit[2] + 8 * bit[3]
  + 16 * bit[4] + 32 * bit[5] + 64 * bit[6] + 128 * bit[7]

HighByte(bit) ==
    bit[8] + 2 * bit[9] + 4 * bit[10] + 8 * bit[11]
  + 16 * bit[12] + 32 * bit[13] + 64 * bit[14] + 128 * bit[15]

Pack(bit) == LowByte(bit) + 256 * HighByte(bit)

BitAnd(a, b) == Pack([i \in 0 .. 15 |-> IF Bit(a, i) = 1 /\ Bit(b, i) = 1 THEN 1 ELSE 0])
BitOr(a, b)  == Pack([i \in 0 .. 15 |-> IF Bit(a, i) = 1 \/ Bit(b, i) = 1 THEN 1 ELSE 0])
BitXor(a, b) == Pack([i \in 0 .. 15 |-> IF Bit(a, i) = Bit(b, i) THEN 0 ELSE 1])

(* As if the complement were not cut back to sixteen bits. *)
BitNotUntruncated(a) == -a - 1
BitNot(a)            == WordSize - 1 - a

(* t2: an 8-bit offset extended with its sign to a word. *)
SignExtend(offset) == IF offset >= 128 THEN 65280 + offset ELSE offset
=============================================================================
