------------------------------- MODULE Word16 -------------------------------
(***************************************************************************)
(* The 16 bit words of the MCPC and the eight results its ALU computes, as *)
(* interpreter/vm.go computes them on Go's uint16: every result is cut to  *)
(* 16 bits.  A word is a number of 0..65535.                               *)
(***************************************************************************)
EXTENDS Integers

WordSize == 65536
Word     == 0 .. WordSize - 1

(* A comparison yields all ones or all zeros.                              *)
True16  == WordSize - 1
False16 == 0
Truth(b) == IF b THEN True16 ELSE False16

Inc(x) == (x + 1) % WordSize
Dec(x) == (x + WordSize - 1) % WordSize

(***************************************************************************)
(* Bits, least significant first: Bits(x)[0] is the low bit.               *)
(***************************************************************************)
Pow2 == <<1, 2, 4, 8, 16, 32, 64, 128, 256, 512, 1024, 2048, 4096, 8192,
          16384, 32768>>

Bits(x) == [k \in 0 .. 15 |-> (x \div Pow2[k + 1]) % 2]

Byte(b, i) ==
  b[i] + 2 * b[i + 1] + 4 * b[i + 2] + 8 * b[i + 3] + 16 * b[i + 4]
  + 32 * b[i + 5] + 64 * b[i + 6] + 128 * b[i + 7]

FromBits(b) == Byte(b, 0) + 256 * Byte(b, 8)

BitAnd(x, y) == FromBits([k \in 0 .. 15 |-> Bits(x)[k] * Bits(y)[k]])
BitOr(x, y)  == FromBits([k \in 0 .. 15 |->
                    IF Bits(x)[k] = 1 \/ Bits(y)[k] = 1 THEN 1 ELSE 0])
BitXor(x, y) == FromBits([k \in 0 .. 15 |-> (Bits(x)[k] + Bits(y)[k]) % 2])

(* A shift by 16 or more leaves nothing, as Go's shifts do.                *)
ShiftBy(x, n) ==
  FromBits([k \in 0 .. 15 |-> IF k + n \in 0 .. 15 THEN Bits(x)[k + n] ELSE 0])

(* SHFT: the low byte of the operand is the distance; a zero high byte     *)
(* means right, any other high byte means left.                            *)
Shift(x, by) == IF by < 256 THEN ShiftBy(x, by) ELSE ShiftBy(x, -(by % 256))

(* The product modulo 2^16, one byte of y at a time so that no             *)
(* intermediate result leaves the integers TLC computes with.              *)
Times(x, y) == (((x * (y \div 256)) % 256) * 256 + x * (y % 256)) % WordSize

PlusBug(x, y) == x + y   \* seeded bug: the carry is kept
Plus(x, y) == (x + y) % WordSize

(* Two's complement reading of a word, for the signed comparison.          *)
Signed(x) == IF x < 32768 THEN x ELSE x - WordSize

=============================================================================
