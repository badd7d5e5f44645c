-------------------------- MODULE OperatorsProofs --------------------------
(***************************************************************************)
(* The commands M-Script compiles its operators to compute them, on every  *)
(* pair of 16 bit words.  AND, OR, XOR, MUL, ADD and EQ are instructions   *)
(* of the machine; the others are macros of base.mlib, and what they yield *)
(* is worked out here from the bits of their operands.                     *)
(***************************************************************************)
EXTENDS Operators, TLAPS

(* The weights of the sixteen bits.                                        *)
LEMMA Pow2Is ==
  /\ Pow2[1] = 1 /\ Pow2[2] = 2 /\ Pow2[3] = 4 /\ Pow2[4] = 8
  /\ Pow2[5] = 16 /\ Pow2[6] = 32 /\ Pow2[7] = 64 /\ Pow2[8] = 128
  /\ Pow2[9] = 256 /\ Pow2[10] = 512 /\ Pow2[11] = 1024 /\ Pow2[12] = 2048
  /\ Pow2[13] = 4096 /\ Pow2[14] = 8192 /\ Pow2[15] = 16384 /\ Pow2[16] = 32768
  BY SMT DEF Pow2

(* A bit is what is left of the word above its weight, modulo 2.           *)
LEMMA BitAt ==
  ASSUME NEW x, NEW k \in 0 .. 15
  PROVE Bits(x)[k] = (x \div Pow2[k + 1]) % 2
BY DEF Bits

(* The same with the weights written out.                                  *)
LEMMA BitsIs == \A x \in Word :
  /\ Bits(x)[0] = (x \div 1) % 2 /\ Bits(x)[1] = (x \div 2) % 2
  /\ Bits(x)[2] = (x \div 4) % 2 /\ Bits(x)[3] = (x \div 8) % 2
  /\ Bits(x)[4] = (x \div 16) % 2 /\ Bits(x)[5] = (x \div 32) % 2
  /\ Bits(x)[6] = (x \div 64) % 2 /\ Bits(x)[7] = (x \div 128) % 2
  /\ Bits(x)[8] = (x \div 256) % 2 /\ Bits(x)[9] = (x \div 512) % 2
  /\ Bits(x)[10] = (x \div 1024) % 2 /\ Bits(x)[11] = (x \div 2048) % 2
  /\ Bits(x)[12] = (x \div 4096) % 2 /\ Bits(x)[13] = (x \div 8192) % 2
  /\ Bits(x)[14] = (x \div 16384) % 2 /\ Bits(x)[15] = (x \div 32768) % 2
  BY BitAt, Pow2Is, SMT

(* What a word is, in plain arithmetic.                                    *)
LEMMA WordSizeIs == WordSize = 65536 /\ WordSize \in Nat /\ WordSize > 0
  BY SMT DEF WordSize

LEMMA WordBounds ==
  /\ \A n \in Int : n \in Word <=> 0 <= n /\ n < WordSize
  /\ \A n \in Word : n \in Int
<1>1. WordSize \in Nat
  BY WordSizeIs
<1> QED
  BY <1>1, SMT DEF Word

LEMMA WordRange ==
  /\ \A x \in Word : x \in Int /\ 0 <= x /\ x < 65536
  /\ \A n \in Int : 0 <= n /\ n < 65536 => n \in Word
  BY WordBounds, WordSizeIs, SMT

(* A word lies below the weight of a seventeenth bit.                      *)
LEMMA WordDiv == \A x \in Word : x \in Int /\ x \div 1 = x /\ x \div 65536 = 0
<1> SUFFICES ASSUME NEW x \in Word PROVE x \in Int /\ x \div 1 = x /\ x \div 65536 = 0
  OBVIOUS
<1>1. x \in Int /\ 0 <= x /\ x < 65536
  BY WordRange
<1>2. x \div 1 = x
  BY <1>1, SMT
<1>3. x \div 65536 = 0
  BY <1>1, SMT
<1> QED
  BY <1>1, <1>2, <1>3

(* What lies above a weight is its lowest bit and twice what lies above the*)
(* next weight.                                                            *)
LEMMA Halve == \A x \in Int :
  /\ x \div 1 = ((x \div 1) % 2) + 2 * (x \div 2)
  /\ x \div 2 = ((x \div 2) % 2) + 2 * (x \div 4)
  /\ x \div 4 = ((x \div 4) % 2) + 2 * (x \div 8)
  /\ x \div 8 = ((x \div 8) % 2) + 2 * (x \div 16)
  /\ x \div 16 = ((x \div 16) % 2) + 2 * (x \div 32)
  /\ x \div 32 = ((x \div 32) % 2) + 2 * (x \div 64)
  /\ x \div 64 = ((x \div 64) % 2) + 2 * (x \div 128)
  /\ x \div 128 = ((x \div 128) % 2) + 2 * (x \div 256)
  /\ x \div 256 = ((x \div 256) % 2) + 2 * (x \div 512)
  /\ x \div 512 = ((x \div 512) % 2) + 2 * (x \div 1024)
  /\ x \div 1024 = ((x \div 1024) % 2) + 2 * (x \div 2048)
  /\ x \div 2048 = ((x \div 2048) % 2) + 2 * (x \div 4096)
  /\ x \div 4096 = ((x \div 4096) % 2) + 2 * (x \div 8192)
  /\ x \div 8192 = ((x \div 8192) % 2) + 2 * (x \div 16384)
  /\ x \div 16384 = ((x \div 16384) % 2) + 2 * (x \div 32768)
  /\ x \div 32768 = ((x \div 32768) % 2) + 2 * (x \div 65536)
  BY SMTT(60)

(* So every bit of a word carries it from one weight to the next.          *)
LEMMA BitSteps ==
  ASSUME NEW x \in Word
  PROVE  /\ x \div 1 = Bits(x)[0] + 2 * (x \div 2)
         /\ x \div 2 = Bits(x)[1] + 2 * (x \div 4)
         /\ x \div 4 = Bits(x)[2] + 2 * (x \div 8)
         /\ x \div 8 = Bits(x)[3] + 2 * (x \div 16)
         /\ x \div 16 = Bits(x)[4] + 2 * (x \div 32)
         /\ x \div 32 = Bits(x)[5] + 2 * (x \div 64)
         /\ x \div 64 = Bits(x)[6] + 2 * (x \div 128)
         /\ x \div 128 = Bits(x)[7] + 2 * (x \div 256)
         /\ x \div 256 = Bits(x)[8] + 2 * (x \div 512)
         /\ x \div 512 = Bits(x)[9] + 2 * (x \div 1024)
         /\ x \div 1024 = Bits(x)[10] + 2 * (x \div 2048)
         /\ x \div 2048 = Bits(x)[11] + 2 * (x \div 4096)
         /\ x \div 4096 = Bits(x)[12] + 2 * (x \div 8192)
         /\ x \div 8192 = Bits(x)[13] + 2 * (x \div 16384)
         /\ x \div 16384 = Bits(x)[14] + 2 * (x \div 32768)
         /\ x \div 32768 = Bits(x)[15] + 2 * (x \div 65536)
<1>1. x \in Int
  BY WordDiv
<1>2. /\ Bits(x)[0] = (x \div 1) % 2
      /\ Bits(x)[1] = (x \div 2) % 2
      /\ Bits(x)[2] = (x \div 4) % 2
      /\ Bits(x)[3] = (x \div 8) % 2
      /\ Bits(x)[4] = (x \div 16) % 2
      /\ Bits(x)[5] = (x \div 32) % 2
      /\ Bits(x)[6] = (x \div 64) % 2
      /\ Bits(x)[7] = (x \div 128) % 2
      /\ Bits(x)[8] = (x \div 256) % 2
      /\ Bits(x)[9] = (x \div 512) % 2
      /\ Bits(x)[10] = (x \div 1024) % 2
      /\ Bits(x)[11] = (x \div 2048) % 2
      /\ Bits(x)[12] = (x \div 4096) % 2
      /\ Bits(x)[13] = (x \div 8192) % 2
      /\ Bits(x)[14] = (x \div 16384) % 2
      /\ Bits(x)[15] = (x \div 32768) % 2
  BY BitsIs
<1>3. /\ x \div 1 = ((x \div 1) % 2) + 2 * (x \div 2)
      /\ x \div 2 = ((x \div 2) % 2) + 2 * (x \div 4)
      /\ x \div 4 = ((x \div 4) % 2) + 2 * (x \div 8)
      /\ x \div 8 = ((x \div 8) % 2) + 2 * (x \div 16)
      /\ x \div 16 = ((x \div 16) % 2) + 2 * (x \div 32)
      /\ x \div 32 = ((x \div 32) % 2) + 2 * (x \div 64)
      /\ x \div 64 = ((x \div 64) % 2) + 2 * (x \div 128)
      /\ x \div 128 = ((x \div 128) % 2) + 2 * (x \div 256)
      /\ x \div 256 = ((x \div 256) % 2) + 2 * (x \div 512)
      /\ x \div 512 = ((x \div 512) % 2) + 2 * (x \div 1024)
      /\ x \div 1024 = ((x \div 1024) % 2) + 2 * (x \div 2048)
      /\ x \div 2048 = ((x \div 2048) % 2) + 2 * (x \div 4096)
      /\ x \div 4096 = ((x \div 4096) % 2) + 2 * (x \div 8192)
      /\ x \div 8192 = ((x \div 8192) % 2) + 2 * (x \div 16384)
      /\ x \div 16384 = ((x \div 16384) % 2) + 2 * (x \div 32768)
      /\ x \div 32768 = ((x \div 32768) % 2) + 2 * (x \div 65536)
  BY <1>1, Halve
<1> QED
  BY <1>2, <1>3

(* A bit is 0 or 1.                                                        *)
LEMMA BitType == \A x \in Word : \A k \in 0 .. 15 : Bits(x)[k] \in {0, 1}
<1> SUFFICES ASSUME NEW x \in Word, NEW k \in 0 .. 15 PROVE Bits(x)[k] \in {0, 1}
  OBVIOUS
<1>1. x \in Int
  BY WordDiv
<1>2. k \in {0, 1, 2, 3, 4, 5, 6, 7, 8, 9, 10, 11, 12, 13, 14, 15}
  OBVIOUS
<1>3. Pow2[k + 1] \in Nat \ {0}
  BY <1>2, Pow2Is, SMT
<1>4. x \div Pow2[k + 1] \in Int
  BY <1>1, <1>3, SMT
<1> QED
  BY <1>4, BitAt, SMT

(* Eight such steps make a byte.                                           *)
LEMMA EightBits ==
  ASSUME NEW b \in [0 .. 7 -> Int], NEW d \in [0 .. 8 -> Int],
         d[0] = b[0] + 2 * d[1], d[1] = b[1] + 2 * d[2], d[2] = b[2] + 2 * d[3],
         d[3] = b[3] + 2 * d[4], d[4] = b[4] + 2 * d[5], d[5] = b[5] + 2 * d[6],
         d[6] = b[6] + 2 * d[7], d[7] = b[7] + 2 * d[8]
  PROVE  b[0] + 2 * b[1] + 4 * b[2] + 8 * b[3] + 16 * b[4] + 32 * b[5]
         + 64 * b[6] + 128 * b[7] = d[0] - 256 * d[8]
<1>1. b[0] + 2 * b[1] = d[0] - 4 * d[2]
  BY SMT
<1>2. b[2] + 2 * b[3] = d[2] - 4 * d[4]
  BY SMT
<1>3. b[4] + 2 * b[5] = d[4] - 4 * d[6]
  BY SMT
<1>4. b[6] + 2 * b[7] = d[6] - 4 * d[8]
  BY SMT
<1>5. b[0] + 2 * b[1] + 4 * b[2] + 8 * b[3] = d[0] - 16 * d[4]
  BY <1>1, <1>2, SMT
<1>6. b[4] + 2 * b[5] + 4 * b[6] + 8 * b[7] = d[4] - 16 * d[8]
  BY <1>3, <1>4, SMT
<1> QED
  BY <1>5, <1>6, SMT

(* A word put together from its bits is the word.                          *)
LEMMA FromBitsBits == \A x \in Word : FromBits(Bits(x)) = x
<1> SUFFICES ASSUME NEW x \in Word PROVE FromBits(Bits(x)) = x
  OBVIOUS
<1>1. x \in Int /\ x \div 1 = x /\ x \div 65536 = 0
  BY WordDiv
<1> DEFINE B == Bits(x)
<1>2. \A k \in 0 .. 15 : B[k] \in Int
  BY BitType, SMT
<1>3. /\ x \div 1 = B[0] + 2 * (x \div 2)
      /\ x \div 2 = B[1] + 2 * (x \div 4)
      /\ x \div 4 = B[2] + 2 * (x \div 8)
      /\ x \div 8 = B[3] + 2 * (x \div 16)
      /\ x \div 16 = B[4] + 2 * (x \div 32)
      /\ x \div 32 = B[5] + 2 * (x \div 64)
      /\ x \div 64 = B[6] + 2 * (x \div 128)
      /\ x \div 128 = B[7] + 2 * (x \div 256)
      /\ x \div 256 = B[8] + 2 * (x \div 512)
      /\ x \div 512 = B[9] + 2 * (x \div 1024)
      /\ x \div 1024 = B[10] + 2 * (x \div 2048)
      /\ x \div 2048 = B[11] + 2 * (x \div 4096)
      /\ x \div 4096 = B[12] + 2 * (x \div 8192)
      /\ x \div 8192 = B[13] + 2 * (x \div 16384)
      /\ x \div 16384 = B[14] + 2 * (x \div 32768)
      /\ x \div 32768 = B[15] + 2 * (x \div 65536)
  BY BitSteps
<1> HIDE DEF B
<1>4. /\ x \div 1 \in Int /\ x \div 2 \in Int /\ x \div 4 \in Int /\ x \div 8 \in Int
      /\ x \div 16 \in Int /\ x \div 32 \in Int /\ x \div 64 \in Int /\ x \div 128 \in Int
      /\ x \div 256 \in Int /\ x \div 512 \in Int /\ x \div 1024 \in Int /\ x \div 2048 \in Int
      /\ x \div 4096 \in Int /\ x \div 8192 \in Int /\ x \div 16384 \in Int /\ x \div 32768 \in Int
      /\ x \div 65536 \in Int
  BY <1>1, SMT
<1>5. /\ B[0] \in Int /\ B[1] \in Int /\ B[2] \in Int /\ B[3] \in Int
      /\ B[4] \in Int /\ B[5] \in Int /\ B[6] \in Int /\ B[7] \in Int
      /\ B[8] \in Int /\ B[9] \in Int /\ B[10] \in Int /\ B[11] \in Int
      /\ B[12] \in Int /\ B[13] \in Int /\ B[14] \in Int /\ B[15] \in Int
  BY <1>2, SMT
<1>6. Byte(B, 0) = B[0] + 2 * B[1] + 4 * B[2] + 8 * B[3] + 16 * B[4] + 32 * B[5]
                   + 64 * B[6] + 128 * B[7]
  BY SMT DEF Byte
<1>7. Byte(B, 8) = B[8] + 2 * B[9] + 4 * B[10] + 8 * B[11] + 16 * B[12]
                   + 32 * B[13] + 64 * B[14] + 128 * B[15]
  BY SMT DEF Byte
<1>8. Byte(B, 0) = x \div 1 - 256 * (x \div 256)
  <2> DEFINE b == [k \in 0 .. 7 |-> B[k]]
             d == [k \in 0 .. 8 |-> x \div (CASE k = 0 -> 1 [] k = 1 -> 2 [] k = 2 -> 4
               [] k = 3 -> 8 [] k = 4 -> 16 [] k = 5 -> 32 [] k = 6 -> 64 [] k = 7 -> 128 [] k = 8 -> 256)]
  <2>1. b \in [0 .. 7 -> Int]
    BY <1>2, SMT
  <2>2. /\ d[0] = x \div 1 /\ d[1] = x \div 2 /\ d[2] = x \div 4
        /\ d[3] = x \div 8 /\ d[4] = x \div 16 /\ d[5] = x \div 32
        /\ d[6] = x \div 64 /\ d[7] = x \div 128 /\ d[8] = x \div 256
    BY SMT
  <2>3. d \in [0 .. 8 -> Int]
    BY <2>2, <1>4, SMT
  <2>4. /\ b[0] = B[0] /\ b[1] = B[1] /\ b[2] = B[2] /\ b[3] = B[3]
        /\ b[4] = B[4] /\ b[5] = B[5] /\ b[6] = B[6] /\ b[7] = B[7]
    OBVIOUS
  <2> HIDE DEF b, d
  <2> QED
    BY <2>1, <2>2, <2>3, <2>4, <1>3, <1>6, EightBits
<1>9. Byte(B, 8) = x \div 256 - 256 * (x \div 65536)
  <2> DEFINE b == [k \in 0 .. 7 |-> B[k + 8]]
             d == [k \in 0 .. 8 |-> x \div (CASE k = 0 -> 256 [] k = 1 -> 512 [] k = 2 -> 1024
               [] k = 3 -> 2048 [] k = 4 -> 4096 [] k = 5 -> 8192 [] k = 6 -> 16384 [] k = 7 -> 32768 [] k = 8 -> 65536)]
  <2>1. b \in [0 .. 7 -> Int]
    BY <1>2, SMT
  <2>2. /\ d[0] = x \div 256 /\ d[1] = x \div 512 /\ d[2] = x \div 1024
        /\ d[3] = x \div 2048 /\ d[4] = x \div 4096 /\ d[5] = x \div 8192
        /\ d[6] = x \div 16384 /\ d[7] = x \div 32768 /\ d[8] = x \div 65536
    BY SMT
  <2>3. d \in [0 .. 8 -> Int]
    BY <2>2, <1>4, SMT
  <2>4. /\ b[0] = B[8] /\ b[1] = B[9] /\ b[2] = B[10] /\ b[3] = B[11]
        /\ b[4] = B[12] /\ b[5] = B[13] /\ b[6] = B[14] /\ b[7] = B[15]
    OBVIOUS
  <2> HIDE DEF b, d
  <2> QED
    BY <2>1, <2>2, <2>3, <2>4, <1>3, <1>7, EightBits
<1> QED
  BY <1>4, <1>1, <1>8, <1>9, SMT DEF FromBits, B

(* All ones and all zeros.                                                 *)
LEMMA OnesIs == \A k \in 0 .. 15 : Bits(65535)[k] = 1 /\ Bits(0)[k] = 0
<1> SUFFICES ASSUME NEW k \in 0 .. 15 PROVE Bits(65535)[k] = 1 /\ Bits(0)[k] = 0
  OBVIOUS
<1>1. k \in {0, 1, 2, 3, 4, 5, 6, 7, 8, 9, 10, 11, 12, 13, 14, 15}
  OBVIOUS
<1>2. (65535 \div Pow2[k + 1]) % 2 = 1
  BY <1>1, Pow2Is, SMT
<1>3. (0 \div Pow2[k + 1]) % 2 = 0
  BY <1>1, Pow2Is, SMT
<1> QED
  BY <1>2, <1>3, BitAt, SMT

(* A byte of equal bits.                                                   *)
LEMMA ByteConst ==
  ASSUME NEW b, NEW i \in {0, 8}, NEW c \in Int,
         \A k \in i .. i + 7 : b[k] = c
  PROVE  Byte(b, i) = 255 * c
  BY SMT DEF Byte

(* The complement of a byte.                                               *)
LEMMA ByteComplement ==
  ASSUME NEW b, NEW c, NEW i \in {0, 8},
         \A k \in i .. i + 7 : b[k] \in Int /\ c[k] = 1 - b[k]
  PROVE  Byte(c, i) = 255 - Byte(b, i)
<1>1. PICK b0 \in Int : b[i] = b0 /\ c[i] = 1 - b0
  BY SMT
<1>2. PICK b1 \in Int : b[i + 1] = b1 /\ c[i + 1] = 1 - b1
  BY SMT
<1>3. PICK b2 \in Int : b[i + 2] = b2 /\ c[i + 2] = 1 - b2
  BY SMT
<1>4. PICK b3 \in Int : b[i + 3] = b3 /\ c[i + 3] = 1 - b3
  BY SMT
<1>5. PICK b4 \in Int : b[i + 4] = b4 /\ c[i + 4] = 1 - b4
  BY SMT
<1>6. PICK b5 \in Int : b[i + 5] = b5 /\ c[i + 5] = 1 - b5
  BY SMT
<1>7. PICK b6 \in Int : b[i + 6] = b6 /\ c[i + 6] = 1 - b6
  BY SMT
<1>8. PICK b7 \in Int : b[i + 7] = b7 /\ c[i + 7] = 1 - b7
  BY SMT
<1>9. Byte(b, i) = b0 + 2 * b1 + 4 * b2 + 8 * b3 + 16 * b4 + 32 * b5 + 64 * b6 + 128 * b7
  BY <1>1, <1>2, <1>3, <1>4, <1>5, <1>6, <1>7, <1>8 DEF Byte
<1>10. Byte(c, i) = (1 - b0) + 2 * (1 - b1) + 4 * (1 - b2) + 8 * (1 - b3)
                     + 16 * (1 - b4) + 32 * (1 - b5)
                     + 64 * (1 - b6) + 128 * (1 - b7)
  BY <1>1, <1>2, <1>3, <1>4, <1>5, <1>6, <1>7, <1>8 DEF Byte
<1> QED
  BY <1>9, <1>10, SMT

(* A byte depends on its own eight bits only.                              *)
LEMMA ByteEqual ==
  ASSUME NEW b, NEW c, NEW i \in {0, 8},
         \A k \in i .. i + 7 : b[k] = c[k]
  PROVE  Byte(c, i) = Byte(b, i)
  BY SMT DEF Byte

(* The two truth values are words.                                         *)
LEMMA WordNumbers == 65535 \in Word /\ 0 \in Word /\ True16 = 65535 /\ False16 = 0
  BY WordRange, SMT DEF WordSize, True16, False16

(* BitXor, to be cited without expanding it.                               *)
LEMMA XorOf ==
  \A x, y : BitXor(x, y) = FromBits([k \in 0 .. 15 |-> (Bits(x)[k] + Bits(y)[k]) % 2])
  BY DEF BitXor

(* NOT is XOR with all ones, and that is the complement of the number: what*)
(* the macro NOT of base.mlib relies on.                                   *)
LEMMA NotIs == \A x \in Word : Not(x) = 65535 - x
<1> SUFFICES ASSUME NEW x \in Word PROVE Not(x) = 65535 - x
  OBVIOUS
<1> DEFINE b == Bits(x)
           c == [k \in 0 .. 15 |-> (Bits(x)[k] + Bits(65535)[k]) % 2]
<1>1. \A k \in 0 .. 15 : b[k] \in Int /\ c[k] = 1 - b[k]
  <2> SUFFICES ASSUME NEW k \in 0 .. 15 PROVE b[k] \in Int /\ c[k] = 1 - b[k]
    OBVIOUS
  <2>1. b[k] \in {0, 1} /\ Bits(65535)[k] = 1
    BY BitType, OnesIs
  <2>2. c[k] = (b[k] + Bits(65535)[k]) % 2
    OBVIOUS
  <2> HIDE DEF b, c
  <2> QED
    BY <2>1, <2>2, SMT
<1>2. Not(x) = FromBits(c)
  <2>1. Not(x) = BitXor(x, 65535)
    BY WordNumbers, SMT DEF Not
  <2> QED
    BY <2>1, XorOf
<1>3. FromBits(b) = x
  BY FromBitsBits
<1>4. x \in Int
  BY WordDiv
<1> HIDE DEF b, c
<1>5. \A k \in 0 .. 7 : b[k] \in Int /\ c[k] = 1 - b[k]
  BY <1>1, SMT
<1>6. \A k \in 8 .. 15 : b[k] \in Int /\ c[k] = 1 - b[k]
  BY <1>1, SMT
<1>7. Byte(c, 0) = 255 - Byte(b, 0)
  BY <1>5, ByteComplement, SMT
<1>8. Byte(c, 8) = 255 - Byte(b, 8)
  BY <1>6, ByteComplement, SMT
<1>9. Byte(b, 0) \in Int /\ Byte(b, 8) \in Int
  BY <1>1, SMT DEF Byte
<1> QED
  BY <1>2, <1>3, <1>4, <1>7, <1>8, <1>9, SMT DEF FromBits

(* BitOr, to be cited without expanding it.                                *)
LEMMA OrOf ==
  \A x, y : BitOr(x, y) = FromBits([k \in 0 .. 15 |->
               IF Bits(x)[k] = 1 \/ Bits(y)[k] = 1 THEN 1 ELSE 0])
  BY DEF BitOr

(* Shift, to be cited without expanding it.                                *)
LEMMA ShiftOf ==
  \A x, n : /\ n < 256 => Shift(x, n) = ShiftBy(x, n)
            /\ ~(n < 256) => Shift(x, n) = ShiftBy(x, -(n % 256))
  BY Zenon DEF Shift

(* OR of words that are all ones or all zeros.                             *)
LEMMA OrOnes ==
  ASSUME NEW x \in {0, 65535}, NEW y \in {0, 65535}
  PROVE  BitOr(x, y) = IF x = 65535 \/ y = 65535 THEN 65535 ELSE 0
<1> DEFINE c == [k \in 0 .. 15 |-> IF Bits(x)[k] = 1 \/ Bits(y)[k] = 1 THEN 1 ELSE 0]
           v == IF x = 65535 \/ y = 65535 THEN 1 ELSE 0
<1>1. \A k \in 0 .. 15 : c[k] = v
  <2> SUFFICES ASSUME NEW k \in 0 .. 15 PROVE c[k] = v
    OBVIOUS
  <2>1. Bits(65535)[k] = 1 /\ Bits(0)[k] = 0
    BY OnesIs
  <2>2. Bits(x)[k] = (IF x = 65535 THEN 1 ELSE 0)
    BY <2>1, SMT
  <2>3. Bits(y)[k] = (IF y = 65535 THEN 1 ELSE 0)
    BY <2>1, SMT
  <2> QED
    BY <2>2, <2>3, SMT
<1>2. BitOr(x, y) = FromBits(c)
  BY OrOf
<1>3. v \in Int
  OBVIOUS
<1> HIDE DEF c, v
<1>4. Byte(c, 0) = 255 * v /\ Byte(c, 8) = 255 * v
  BY <1>1, <1>3, ByteConst, SMT
<1> QED
  BY <1>2, <1>3, <1>4, SMT DEF FromBits, v

(* OR of two results of comparisons is their disjunction: what GTOE and LTOE*)
(* rely on.                                                                *)
LEMMA TruthOr ==
  ASSUME NEW p \in BOOLEAN, NEW q \in BOOLEAN
  PROVE  BitOr(Truth(p), Truth(q)) = Truth(p \/ q)
<1>1. Truth(p) \in {0, 65535} /\ Truth(q) \in {0, 65535}
  BY WordNumbers, SMT DEF Truth
<1>2. BitOr(Truth(p), Truth(q)) = IF Truth(p) = 65535 \/ Truth(q) = 65535 THEN 65535 ELSE 0
  BY <1>1, OrOnes
<1> QED
  BY <1>2, WordNumbers, SMT DEF Truth

(* NOT of the result of a comparison is its negation: what NEQ relies on.  *)
LEMMA TruthNot ==
  ASSUME NEW p \in BOOLEAN
  PROVE  Not(Truth(p)) = Truth(~p)
<1>1. Not(65535) = 65535 - 65535 /\ Not(0) = 65535 - 0
  BY NotIs, WordNumbers
<1> QED
  BY <1>1, WordNumbers, SMT DEF Truth

(* NOT and an increment negate a word, zero and 32768 included: what NEG and*)
(* SUB rely on.                                                            *)
LEMMA NegIs == \A x \in Word : Neg(x) = (65536 - x) % 65536
<1> SUFFICES ASSUME NEW x \in Word PROVE Neg(x) = (65536 - x) % 65536
  OBVIOUS
<1>1. x \in Int
  BY WordDiv
<1>2. Neg(x) = (Not(x) + 1) % WordSize
  BY Zenon DEF Neg, Plus
<1>3. Not(x) = 65535 - x
  BY NotIs
<1> QED
  BY <1>1, <1>2, <1>3, SMT DEF WordSize

(* OR with 0xFF00 sets the high byte of a distance and keeps its low byte: *)
(* how SHFL asks SHFT for the other direction.                             *)
LEMMA HighByte ==
  ASSUME NEW b \in 0 .. 255
  PROVE  BitOr(65280, b) = 65280 + b
<1>1. b \in Word /\ 65280 \in Word /\ b \in Int
  BY WordRange, SMT
<1>2. \A k \in 0 .. 7 : Bits(65280)[k] = 0
  <2> SUFFICES ASSUME NEW k \in 0 .. 7 PROVE (65280 \div Pow2[k + 1]) % 2 = 0
    BY BitAt, SMT
  <2> QED
    BY Pow2Is, SMT
<1>3. \A k \in 8 .. 15 : Bits(65280)[k] = 1
  <2> SUFFICES ASSUME NEW k \in 8 .. 15 PROVE (65280 \div Pow2[k + 1]) % 2 = 1
    BY BitAt, SMT
  <2> QED
    BY Pow2Is, SMT
<1> DEFINE d == Bits(b)
           c == [k \in 0 .. 15 |-> IF Bits(65280)[k] = 1 \/ Bits(b)[k] = 1 THEN 1 ELSE 0]
<1>4. \A k \in 0 .. 7 : d[k] = c[k]
  BY <1>1, <1>2, BitType, SMT
<1>5. \A k \in 8 .. 15 : c[k] = 1
  BY <1>3, SMT
<1>6. FromBits(d) = b
  BY <1>1, FromBitsBits
<1>7. BitOr(65280, b) = FromBits(c)
  BY OrOf
<1>8. \A k \in 8 .. 15 : d[k] = 0
  <2> SUFFICES ASSUME NEW k \in 8 .. 15 PROVE (b \div Pow2[k + 1]) % 2 = 0
    BY <1>1, BitAt, SMT
  <2>1. Pow2[k + 1] \in {256, 512, 1024, 2048, 4096, 8192, 16384, 32768}
    BY Pow2Is, SMT
  <2>2. b \div Pow2[k + 1] = 0
    BY <2>1, SMT
  <2> QED
    BY <2>2, SMT
<1>9. \A k \in 0 .. 15 : d[k] \in Int
  BY <1>1, BitType, SMT
<1> HIDE DEF c, d
<1>10. Byte(c, 0) = Byte(d, 0)
  BY <1>4, ByteEqual, SMT
<1>11. Byte(c, 8) = 255
  BY <1>5, ByteConst, SMT
<1>12. Byte(d, 8) = 0
  BY <1>8, ByteConst, SMT
<1>13. Byte(d, 0) \in Int
  BY <1>9, SMT DEF Byte
<1> QED
  BY <1>1, <1>6, <1>7, <1>10, <1>11, <1>12, <1>13, SMT DEF FromBits

(* The signed reading of a word is a number, and no two words share it.    *)
LEMMA SignedIs ==
  ASSUME NEW x \in Word, NEW y \in Word
  PROVE  /\ Signed(x) \in Int /\ Signed(y) \in Int
         /\ x = y <=> Signed(x) = Signed(y)
<1>1. /\ x \in Int /\ 0 <= x /\ x < 65536
      /\ y \in Int /\ 0 <= y /\ y < 65536
  BY WordRange
<1>2. /\ Signed(x) = IF x < 32768 THEN x ELSE x - 65536
      /\ Signed(y) = IF y < 32768 THEN y ELSE y - 65536
  BY SMT DEF Signed, WordSize
<1>3. Signed(x) \in Int
  BY <1>1, <1>2, SMT
<1>4. Signed(y) \in Int
  BY <1>1, <1>2, SMT
<1>5. x = y <=> Signed(x) = Signed(y)
  BY <1>1, <1>2, SMT
<1> QED
  BY <1>3, <1>4, <1>5

(* symbolToALUFuncName, operator by operator.                              *)
LEMMA NameOfOp ==
  /\ symbolToALUFuncName["*"] = "MUL" /\ symbolToALUFuncName["+"] = "ADD"
  /\ symbolToALUFuncName["-"] = "SUB" /\ symbolToALUFuncName["^"] = "XOR"
  /\ symbolToALUFuncName["&"] = "AND" /\ symbolToALUFuncName["|"] = "OR"
  /\ symbolToALUFuncName["=="] = "EQ" /\ symbolToALUFuncName["!="] = "NEQ"
  /\ symbolToALUFuncName[">"] = "GT" /\ symbolToALUFuncName["<"] = "LT"
  /\ symbolToALUFuncName["<="] = "LTOE" /\ symbolToALUFuncName[">="] = "GTOE"
  /\ symbolToALUFuncName["<<"] = "SHFL" /\ symbolToALUFuncName[">>"] = "SHFR"
  BY SMT DEF symbolToALUFuncName

(* Alu, command by command.                                                *)
LEMMA AluOf == \A x, y :
  /\ Alu("ADD", x, y) = Plus(x, y) /\ Alu("SUB", x, y) = Plus(x, Neg(y))
  /\ Alu("MUL", x, y) = Times(x, y) /\ Alu("XOR", x, y) = BitXor(x, y)
  /\ Alu("AND", x, y) = BitAnd(x, y) /\ Alu("OR", x, y) = BitOr(x, y)
  /\ Alu("EQ", x, y) = Truth(x = y) /\ Alu("NEQ", x, y) = Not(Truth(x = y))
  /\ Alu("GT", x, y) = Greater(x, y) /\ Alu("LT", x, y) = Greater(y, x)
  /\ Alu("GTOE", x, y) = BitOr(Greater(x, y), Truth(x = y))
  /\ Alu("LTOE", x, y) = BitOr(Greater(y, x), Truth(y = x))
  /\ Alu("SHFR", x, y) = Shift(x, y)
  /\ Alu("SHFL", x, y) = Shift(x, BitOr(65280, y))
  BY SMT DEF Alu

(* BinOp, operator by operator.                                            *)
LEMMA BinOpOf == \A a, b :
  /\ BinOp("+", a, b) = (a + b) % WordSize
  /\ BinOp("-", a, b) = (a - b) % WordSize
  /\ BinOp("*", a, b) = Times(a, b) /\ BinOp("^", a, b) = BitXor(a, b)
  /\ BinOp("&", a, b) = BitAnd(a, b) /\ BinOp("|", a, b) = BitOr(a, b)
  /\ BinOp("==", a, b) = Truth(a = b) /\ BinOp("!=", a, b) = Truth(a # b)
  /\ BinOp("<", a, b) = Truth(Signed(a) < Signed(b))
  /\ BinOp(">", a, b) = Truth(Signed(a) > Signed(b))
  /\ BinOp("<=", a, b) = Truth(Signed(a) <= Signed(b))
  /\ BinOp(">=", a, b) = Truth(Signed(a) >= Signed(b))
  /\ BinOp("<<", a, b) = ShiftBy(a, -b) /\ BinOp(">>", a, b) = ShiftBy(a, b)
  BY SMT DEF BinOp

(* The command the compiler emits for an operator computes that operator, for*)
(* every pair of words, and for every distance of a shift.                 *)
OperatorsRight ==
  /\ \A o \in BinaryOps : \A a \in Word, b \in Second(o) :
       Alu(symbolToALUFuncName[o], a, b) = BinOp(o, a, b)
  /\ \A a \in Word : Neg(a) = UnOp(".-", a) /\ Not(a) = UnOp("~", a)

(* For every operator of M-Script the command of asm_calc_resolver.go and its*)
(* macro in base.mlib agree with it on all words: in particular a subtraction*)
(* by complement and increment, comparisons of signed words put together from*)
(* GT and EQ, an inequality by complement, shifts to the left by a high byte.*)
THEOREM OperatorsAgree == OperatorsRight
<1>0. BinaryOps = {"*", "+", "-", "^", "&", "|", "==", "!=", ">", "<", "<=", ">=", "<<", ">>"}
  BY Zenon DEF BinaryOps, symbolToALUFuncName
<1>1. ASSUME NEW o \in BinaryOps, NEW a \in Word, NEW b \in Second(o)
      PROVE  Alu(symbolToALUFuncName[o], a, b) = BinOp(o, a, b)
  <2>9. b \in Word
    <3>1. CASE o \in {"<<", ">>"}
      <4>1. b \in 0 .. 255
        BY <3>1, Zenon DEF Second, Distances
      <4> QED
        BY <4>1, WordRange, SMT
    <3>2. CASE o \notin {"<<", ">>"}
      BY <3>2, Zenon DEF Second
    <3> QED
      BY <3>1, <3>2
  <2>0. b \in Word /\ a \in Int /\ b \in Int
    BY <2>9, WordDiv
  <2>1. CASE o \in {"*", "+", "^", "&", "|", "=="}
    BY <2>1, NameOfOp, AluOf, BinOpOf, SMT DEF Plus
  <2>2. CASE o = "-"
    <3>1. Alu(symbolToALUFuncName[o], a, b) = Plus(a, Neg(b))
      BY <2>2, NameOfOp, AluOf, SMT
    <3>2. BinOp(o, a, b) = (a - b) % WordSize
      BY <2>2, BinOpOf, SMT
    <3>3. Neg(b) = (65536 - b) % 65536
      BY <2>0, NegIs
    <3>4. (a + ((65536 - b) % 65536)) % 65536 = (a - b) % 65536
      BY <2>0, SMT
    <3> QED
      BY <3>1, <3>2, <3>3, <3>4, SMT DEF Plus, WordSize
  <2>3. CASE o = "!="
    <3>1. Alu(symbolToALUFuncName[o], a, b) = Not(Truth(a = b))
      BY <2>3, NameOfOp, AluOf, SMT
    <3>2. BinOp(o, a, b) = Truth(a # b)
      BY <2>3, BinOpOf, SMT
    <3> QED
      BY <3>1, <3>2, TruthNot
  <2>4. CASE o \in {">", "<"}
    <3>1. /\ o = ">" => Alu(symbolToALUFuncName[o], a, b) = Truth(Signed(a) > Signed(b))
          /\ o = "<" => Alu(symbolToALUFuncName[o], a, b) = Truth(Signed(b) > Signed(a))
      BY <2>4, NameOfOp, AluOf, SMT DEF Greater
    <3>2. /\ o = ">" => BinOp(o, a, b) = Truth(Signed(a) > Signed(b))
          /\ o = "<" => BinOp(o, a, b) = Truth(Signed(a) < Signed(b))
      BY <2>4, BinOpOf, SMT
    <3>3. (Signed(b) > Signed(a)) = (Signed(a) < Signed(b))
      BY <2>0, SignedIs, SMT
    <3> QED
      BY <2>4, <3>1, <3>2, <3>3, Zenon
  <2>5. CASE o = ">="
    <3>1. Alu(symbolToALUFuncName[o], a, b) = BitOr(Truth(Signed(a) > Signed(b)), Truth(a = b))
      BY <2>5, NameOfOp, AluOf, SMT DEF Greater
    <3>2. BinOp(o, a, b) = Truth(Signed(a) >= Signed(b))
      BY <2>5, BinOpOf, SMT
    <3>3. (Signed(a) > Signed(b) \/ a = b) = (Signed(a) >= Signed(b))
      BY <2>0, SignedIs, SMT
    <3>4. BitOr(Truth(Signed(a) > Signed(b)), Truth(a = b)) = Truth(Signed(a) > Signed(b) \/ a = b)
      <4> DEFINE p == Signed(a) > Signed(b)
                 q == a = b
      <4>1. p \in BOOLEAN /\ q \in BOOLEAN
        OBVIOUS
      <4> HIDE DEF p, q
      <4>2. BitOr(Truth(p), Truth(q)) = Truth(p \/ q)
        BY <4>1, TruthOr
      <4> QED
        BY <4>2 DEF p, q
    <3> QED
      BY <3>1, <3>2, <3>3, <3>4, Zenon
  <2>6. CASE o = "<="
    <3>1. Alu(symbolToALUFuncName[o], a, b) = BitOr(Truth(Signed(b) > Signed(a)), Truth(b = a))
      BY <2>6, NameOfOp, AluOf, SMT DEF Greater
    <3>2. BinOp(o, a, b) = Truth(Signed(a) <= Signed(b))
      BY <2>6, BinOpOf, SMT
    <3>3. (Signed(b) > Signed(a) \/ b = a) = (Signed(a) <= Signed(b))
      BY <2>0, SignedIs, SMT
    <3>4. BitOr(Truth(Signed(b) > Signed(a)), Truth(b = a)) = Truth(Signed(b) > Signed(a) \/ b = a)
      <4> DEFINE p == Signed(b) > Signed(a)
                 q == b = a
      <4>1. p \in BOOLEAN /\ q \in BOOLEAN
        OBVIOUS
      <4> HIDE DEF p, q
      <4>2. BitOr(Truth(p), Truth(q)) = Truth(p \/ q)
        BY <4>1, TruthOr
      <4> QED
        BY <4>2 DEF p, q
    <3> QED
      BY <3>1, <3>2, <3>3, <3>4, Zenon
  <2>7. CASE o = ">>"
    <3>1. Alu(symbolToALUFuncName[o], a, b) = Shift(a, b)
      BY <2>7, NameOfOp, AluOf, SMT
    <3>2. BinOp(o, a, b) = ShiftBy(a, b)
      BY <2>7, BinOpOf, SMT
    <3>3. b < 256
      BY <2>7, SMT DEF Second, Distances
    <3> QED
      BY <3>1, <3>2, <3>3, ShiftOf
  <2>8. CASE o = "<<"
    <3>1. Alu(symbolToALUFuncName[o], a, b) = Shift(a, BitOr(65280, b))
      BY <2>8, NameOfOp, AluOf, SMT
    <3>2. BinOp(o, a, b) = ShiftBy(a, -b)
      BY <2>8, BinOpOf, SMT
    <3>3. b \in 0 .. 255
      BY <2>8, Zenon DEF Second, Distances
    <3>4. BitOr(65280, b) = 65280 + b
      BY <3>3, HighByte
    <3>5. ~(65280 + b < 256) /\ (65280 + b) % 256 = b
      BY <3>3, SMT
    <3>6. Shift(a, 65280 + b) = ShiftBy(a, -b)
      BY <3>5, ShiftOf, SMT
    <3> QED
      BY <3>1, <3>2, <3>4, <3>6
  <2> QED
    BY <1>0, <2>1, <2>2, <2>3, <2>4, <2>5, <2>6, <2>7, <2>8, Zenon
<1>2. ASSUME NEW a \in Word
      PROVE  Neg(a) = UnOp(".-", a) /\ Not(a) = UnOp("~", a)
  <2>1. a \in Int
    BY WordDiv
  <2>2. Neg(a) = (65536 - a) % 65536 /\ Not(a) = 65535 - a
    BY NegIs, NotIs
  <2>3. UnOp(".-", a) = (-a) % WordSize /\ UnOp("~", a) = WordSize - 1 - a
    BY Zenon DEF UnOp
  <2> QED
    BY <2>1, <2>2, <2>3, SMT DEF WordSize
<1> QED
  BY <1>1, <1>2, Zenon DEF OperatorsRight

=============================================================================
