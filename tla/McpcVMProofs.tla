---------------------------- MODULE McpcVMProofs ----------------------------
(***************************************************************************)
(* What holds of the machine for every program, every payload, every queue *)
(* capacity and every screen.                                              *)
(*                                                                         *)
(* The inductive invariant IInv joins the type invariant, the constants in *)
(* both register files and the empty queue while interrupts are off.  All  *)
(* three are carried through a step by the same argument: what the entry   *)
(* into the handler yields (Files, Pages, Queue, DataBuf) is sound, and an *)
(* instruction changes a sound register file only at a writeable register. *)
(***************************************************************************)
EXTENDS McpcVM, TLAPS

-----------------------------------------------------------------------------
(* Every result of the ALU is a word again, and Inc undoes Dec.            *)

(* The proofs see the number 65536 only where its value matters.           *)
LEMMA WordSizeIs == WordSize = 65536 /\ WordSize \in Nat /\ WordSize > 0
  BY SMTT(60) DEF WordSize

LEMMA WordSizeNat == WordSize \in Nat /\ WordSize > 0
  BY WordSizeIs

(* What a word is, in plain arithmetic.                                    *)
LEMMA WordBounds ==
  /\ \A n \in Int : n \in Word <=> 0 <= n /\ n < WordSize
  /\ \A n \in Word : n \in Int
  BY WordSizeNat, SMT DEF Word

LEMMA WordIs ==
  /\ \A n \in Int : n \in Word <=> 0 <= n /\ n < 65536
  /\ \A n \in Word : n \in Int
  BY WordBounds, WordSizeIs, SMT

(* Reducing modulo 2^16 makes a word of any number.                        *)
LEMMA ModWord == \A n \in Int : n % WordSize \in Word
<1>1. \A n \in Int : n % 65536 \in Int /\ 0 <= n % 65536 /\ n % 65536 < 65536
  BY SMT
<1> QED
  BY <1>1, WordIs, WordSizeIs, SMT

(* Counting stays within 16 bits, in both directions.                      *)
LEMMA IncDecType == \A x \in Word : Inc(x) \in Word /\ Dec(x) \in Word
<1> SUFFICES ASSUME NEW x \in Word PROVE Inc(x) \in Word /\ Dec(x) \in Word
  OBVIOUS
<1>1. x + 1 \in Int /\ x + WordSize - 1 \in Int
  BY WordSizeNat, WordBounds, SMT
<1>2. QED
  BY <1>1, ModWord DEF Inc, Dec

(* A decrement followed by an increment leaves the word as it was, also at *)
(* zero: what the exit from an interrupt handler relies on.                *)
LEMMA IncDec == \A x \in Word : Inc(Dec(x)) = x
<1> SUFFICES ASSUME NEW x \in Word PROVE Inc(Dec(x)) = x
  OBVIOUS
<1>0. x \in Int /\ 0 <= x /\ x < 65536
  BY WordIs, SMT
<1>1. Dec(x) = IF x = 0 THEN 65535 ELSE x - 1
  BY <1>0 DEF Dec, WordSize
<1>2. QED
  BY <1>0, <1>1 DEF Inc, WordSize

(* A comparison yields a word.                                             *)
LEMMA TruthType == \A b \in BOOLEAN : Truth(b) \in Word
  BY WordSizeNat, WordBounds, SMT DEF Truth, True16, False16

(* The weights of the bits are positive.                                   *)
LEMMA Pow2Type == \A k \in 0 .. 15 : Pow2[k + 1] \in Nat \ {0}
<1> SUFFICES ASSUME NEW k \in 0 .. 15 PROVE Pow2[k + 1] \in Nat \ {0}
  OBVIOUS
<1>1. k \in {0, 1, 2, 3, 4, 5, 6, 7, 8, 9, 10, 11, 12, 13, 14, 15}
  OBVIOUS
<1>2. QED
  BY <1>1 DEF Pow2

(* Eight bits make a byte, wherever they start, and sixteen a word.        *)
LEMMA EightBits ==
  ASSUME NEW p \in {0, 1}, NEW q \in {0, 1}, NEW r \in {0, 1},
         NEW s \in {0, 1}, NEW t \in {0, 1}, NEW u \in {0, 1},
         NEW v \in {0, 1}, NEW w \in {0, 1}
  PROVE  LET n == p + 2 * q + 4 * r + 8 * s + 16 * t + 32 * u + 64 * v + 128 * w
         IN  n \in Int /\ 0 <= n /\ n < 256
  OBVIOUS

LEMMA ByteType ==
  ASSUME NEW b \in [0 .. 15 -> {0, 1}], NEW i \in {0, 8}
  PROVE  Byte(b, i) \in Int /\ 0 <= Byte(b, i) /\ Byte(b, i) < 256
<1>1. /\ b[i] \in {0, 1} /\ b[i + 1] \in {0, 1}
      /\ b[i + 2] \in {0, 1} /\ b[i + 3] \in {0, 1}
      /\ b[i + 4] \in {0, 1} /\ b[i + 5] \in {0, 1}
      /\ b[i + 6] \in {0, 1} /\ b[i + 7] \in {0, 1}
  OBVIOUS
<1>2. QED
  BY <1>1, EightBits DEF Byte

LEMMA FromBitsType ==
  ASSUME NEW b \in [0 .. 15 -> {0, 1}]
  PROVE  FromBits(b) \in Word
<1>1. /\ Byte(b, 0) \in Int /\ 0 <= Byte(b, 0) /\ Byte(b, 0) < 256
      /\ Byte(b, 8) \in Int /\ 0 <= Byte(b, 8) /\ Byte(b, 8) < 256
  BY ByteType, ZenonT(60)
<1>2. /\ Byte(b, 0) + 256 * Byte(b, 8) \in Int
      /\ 0 <= Byte(b, 0) + 256 * Byte(b, 8)
      /\ Byte(b, 0) + 256 * Byte(b, 8) < 65536
  BY <1>1
<1>3. QED
  BY <1>2, WordIs DEF FromBits

(* The bits of a word are bits.                                            *)
LEMMA BitsType == \A x \in Word : Bits(x) \in [0 .. 15 -> {0, 1}]
<1> SUFFICES ASSUME NEW x \in Word, NEW k \in 0 .. 15
             PROVE  (x \div Pow2[k + 1]) % 2 \in {0, 1}
  BY DEF Bits
<1>1. x \div Pow2[k + 1] \in Int
  BY Pow2Type, WordBounds, SMT
<1>2. QED
  BY <1>1

(* The bitwise operations and the shifts yield words.                      *)
LEMMA BitwiseType ==
  \A x, y \in Word : /\ BitAnd(x, y) \in Word
                     /\ BitOr(x, y) \in Word
                     /\ BitXor(x, y) \in Word
<1> SUFFICES ASSUME NEW x \in Word, NEW y \in Word
             PROVE  /\ BitAnd(x, y) \in Word
                    /\ BitOr(x, y) \in Word
                    /\ BitXor(x, y) \in Word
  OBVIOUS
<1>0. \A k \in 0 .. 15 : Bits(x)[k] \in {0, 1} /\ Bits(y)[k] \in {0, 1}
  BY BitsType
<1>1. [k \in 0 .. 15 |-> Bits(x)[k] * Bits(y)[k]] \in [0 .. 15 -> {0, 1}]
  BY <1>0
<1>2. [k \in 0 .. 15 |-> IF Bits(x)[k] = 1 \/ Bits(y)[k] = 1 THEN 1 ELSE 0]
        \in [0 .. 15 -> {0, 1}]
  OBVIOUS
<1>3. [k \in 0 .. 15 |-> (Bits(x)[k] + Bits(y)[k]) % 2]
        \in [0 .. 15 -> {0, 1}]
  BY <1>0
<1>4. QED
  BY <1>1, <1>2, <1>3, FromBitsType DEF BitAnd, BitOr, BitXor

LEMMA ShiftByType ==
  ASSUME NEW x \in Word, NEW n \in Int
  PROVE  ShiftBy(x, n) \in Word
<1>1. [k \in 0 .. 15 |-> IF k + n \in 0 .. 15 THEN Bits(x)[k + n] ELSE 0]
        \in [0 .. 15 -> {0, 1}]
  BY BitsType
<1>2. QED
  BY <1>1, FromBitsType DEF ShiftBy

LEMMA ShiftType == \A x, by \in Word : Shift(x, by) \in Word
<1> SUFFICES ASSUME NEW x \in Word, NEW by \in Word PROVE Shift(x, by) \in Word
  OBVIOUS
<1>1. by \in Int /\ -(by % 256) \in Int
  BY DEF Word
<1>2. QED
  BY <1>1, ShiftByType DEF Shift

(* Sums and products are cut to 16 bits.                                   *)
LEMMA ArithmeticType ==
  \A x, y \in Word : Plus(x, y) \in Word /\ Times(x, y) \in Word
<1> SUFFICES ASSUME NEW x \in Word, NEW y \in Word
             PROVE  Plus(x, y) \in Word /\ Times(x, y) \in Word
  OBVIOUS
<1>1. x \in Int /\ y \in Int
  BY DEF Word
<1>2. x + y \in Int /\ y \div 256 \in Int /\ y % 256 \in Int
  BY <1>1
<1>3. x * (y \div 256) \in Int /\ x * (y % 256) \in Int
  BY <1>1, <1>2
<1>4. ((x * (y \div 256)) % 256) * 256 + x * (y % 256) \in Int
  BY <1>3
<1>5. QED
  BY <1>2, <1>4, ModWord DEF Plus, Times

-----------------------------------------------------------------------------
(* A sound register file: sixteen words, the last four constant.           *)
FileOK(f) ==
  /\ f \in [Register -> Word]
  /\ f[Zero] = 0 /\ f[One] = 1 /\ f[NegOne] = 65535 /\ f[BUS] = 0

Payload == [hi : Word, lo : Word]

IInv == TypeOK /\ ConstRegs /\ NoStaleIrq

-----------------------------------------------------------------------------
(* The numbers the machine itself produces are words.                      *)
LEMMA WordFacts ==
  /\ 0 \in Word /\ 1 \in Word /\ 65535 \in Word /\ 32769 \in Word
  /\ \A x \in Word : x \in Nat
<1>1. /\ 0 \in Word /\ 1 \in Word /\ 65535 \in Word /\ 32769 \in Word
  BY WordIs, SMT
<1>2. \A x \in Word : x \in Nat
  BY WordIs, SMT
<1>3. QED
  BY <1>1, <1>2

LEMMA BaseFacts == EepromBase \in Nat /\ VgaBase \in Nat
  BY DEF EepromBase, VgaBase

LEMMA RegisterFacts ==
  /\ Zero \in Register /\ One \in Register /\ NegOne \in Register
  /\ BUS \in Register /\ PC \in Register /\ PC \in Writeable
  /\ Writeable \subseteq Register
  /\ Zero \notin Writeable /\ One \notin Writeable
  /\ NegOne \notin Writeable /\ BUS \notin Writeable
  BY DEF Register, Writeable, Zero, One, NegOne, BUS, PC

(* The register file a handler starts with is sound.                       *)
LEMMA EmptyRegsOK == \A pc \in Word : FileOK(EmptyRegs(pc))
<1> SUFFICES ASSUME NEW pc \in Word PROVE FileOK(EmptyRegs(pc))
  OBVIOUS
<1>1. EmptyRegs(pc) \in [Register -> Word]
  BY WordFacts DEF EmptyRegs
<1>2. QED
  BY <1>1 DEF FileOK, EmptyRegs, Register, Zero, One, NegOne, BUS, PC

(* Writing a word to a writeable register keeps a file sound.              *)
LEMMA WriteOK ==
  ASSUME NEW f, FileOK(f), NEW r \in Writeable, NEW v \in Word
  PROVE  FileOK([f EXCEPT ![r] = v])
  BY RegisterFacts DEF FileOK

(* So does moving the program counter on.                                  *)
LEMMA AdvanceOK ==
  ASSUME NEW f, FileOK(f)
  PROVE  FileOK([f EXCEPT ![PC] = Inc(@)])
<1>1. f[PC] \in Word
  BY RegisterFacts DEF FileOK
<1>2. Inc(f[PC]) \in Word
  BY <1>1, IncDecType
<1>3. QED
  BY <1>2, WriteOK, RegisterFacts

(* The register part of the invariant, file by file.                       *)
LEMMA FilesOK ==
  ASSUME TypeOK, ConstRegs
  PROVE  /\ reg \in [Banks -> [Register -> Word]]
         /\ \A b \in Banks : FileOK(reg[b])
  BY DEF TypeOK, ConstRegs, FileOK

(* What the entry into the handler leaves for the instruction is sound.    *)
LEMMA EntryOK ==
  ASSUME IInv
  PROVE  /\ Files \in [Banks -> [Register -> Word]]
         /\ \A b \in Banks : FileOK(Files[b])
         /\ Pages \in [Banks -> Word]
         /\ Queue \in Seq(Payload)
         /\ Len(Queue) <= IrqQueueCap
         /\ ~irqEn => Queue = <<>>
         /\ DataBuf \in Payload
         /\ Serving \in BOOLEAN
         /\ Bank \in Banks
         /\ FileOK(Regs)
         /\ Page \in Word
<1>1. /\ reg \in [Banks -> [Register -> Word]]
      /\ \A b \in Banks : FileOK(reg[b])
  BY FilesOK DEF IInv
<1>2. FileOK(EmptyRegs(irqHandler))
  BY EmptyRegsOK DEF IInv, TypeOK
<1>3. /\ Files \in [Banks -> [Register -> Word]]
      /\ \A b \in Banks : FileOK(Files[b])
  <2>1. EmptyRegs(irqHandler) \in [Register -> Word]
    BY <1>2 DEF FileOK
  <2>2. QED
    BY <1>1, <1>2, <2>1 DEF Files, Banks
<1>4. Pages \in [Banks -> Word]
  BY WordFacts DEF Pages, Banks, IInv, TypeOK
<1>5. /\ irqQueue \in Seq(Payload)
      /\ Len(irqQueue) <= IrqQueueCap
      /\ IrqQueueCap \in Nat
      /\ irqDataBuf \in Payload
  BY QueueAssumption DEF IInv, TypeOK, Payload
<1>6. /\ Queue \in Seq(Payload)
      /\ Len(Queue) <= IrqQueueCap
      /\ DataBuf \in Payload
  BY <1>5 DEF Queue, DataBuf, Entering
<1>7. ~irqEn => Queue = <<>>
  BY DEF IInv, NoStaleIrq, Queue, Entering
<1>8. Serving \in BOOLEAN /\ Bank \in Banks
  BY DEF Serving, Entering, Bank, Banks, IInv, TypeOK
<1>9. QED
  BY <1>3, <1>4, <1>6, <1>7, <1>8 DEF Regs, Page

(* An instruction that can be fetched names registers.                     *)
LEMMA DecodeOK ==
  ASSUME IInv, NEW op, Fetches(op)
  PROVE  /\ From \in Register /\ To \in Register /\ Third \in Register
         /\ Regs[From] \in Word /\ Regs[Third] \in Word
         /\ Regs[PC] \in Word
<1>1. FileOK(Regs)
  BY EntryOK
<1>2. Regs[PC] \in Nat /\ Regs[PC] < Len(eeprom) /\ Regs[PC] \in Word
  BY <1>1, WordFacts, RegisterFacts DEF FileOK, Fetches
<1>3. Ins \in Nat
  <2>1. eeprom \in Seq(Word)
    BY DEF IInv, TypeOK
  <2>2. Regs[PC] + 1 \in 1 .. Len(eeprom)
    BY <1>2, <2>1
  <2>3. eeprom[Regs[PC] + 1] \in Word
    BY <2>1, <2>2
  <2>4. QED
    BY <2>3, WordFacts DEF Ins
<1>4. From \in Register /\ To \in Register /\ Third \in Register
  BY <1>3 DEF From, To, Third, Register
<1>5. QED
  BY <1>1, <1>2, <1>4 DEF FileOK

-----------------------------------------------------------------------------
(* The register part of a step: the running bank gets a sound file.        *)
LEMMA AdvanceTypeOK ==
  ASSUME IInv, NEW rs, FileOK(rs), Advance(rs)
  PROVE  /\ reg' \in [Banks -> [Register -> Word]]
         /\ \A b \in Banks : FileOK(reg'[b])
<1> DEFINE f == [rs EXCEPT ![PC] = Inc(@)]
<1>1. FileOK(f)
  BY AdvanceOK
<1>2. reg' = [Files EXCEPT ![Bank] = f]
  BY DEF Advance
<1>3. f \in [Register -> Word]
  BY <1>1 DEF FileOK
<1>4. QED
  <2> HIDE DEF f
  <2> QED
    BY <1>1, <1>2, <1>3, EntryOK

(* What remains to be shown of a step once the registers are sound.        *)
LEMMA InvFromParts ==
  ASSUME IInv,
         reg' \in [Banks -> [Register -> Word]],
         \A b \in Banks : FileOK(reg'[b]),
         UNCHANGED eeprom,
         DOMAIN sram' \subseteq Cells,
         \A c \in DOMAIN sram' : sram'[c] \in Word,
         sramPage' \in [Banks -> Word],
         vga' \in [VgaCells -> Word],
         halted' \in BOOLEAN, irqEn' \in BOOLEAN, inIrq' \in BOOLEAN,
         irqHandler' \in Word,
         irqQueue' \in Seq(Payload),
         Len(irqQueue') <= IrqQueueCap,
         ~irqEn' => irqQueue' = <<>>,
         irqDataBuf' \in Payload,
         result' \in {"ok", "brk", "error", "panic"}
  PROVE  IInv'
<1>1. ConstRegs'
  BY DEF ConstRegs, FileOK
<1>2. TypeOK'
  BY DEF TypeOK, IInv, Payload
<1>3. NoStaleIrq'
  BY DEF NoStaleIrq
<1>4. QED
  BY <1>1, <1>2, <1>3 DEF IInv

LEMMA RegStepOK ==
  ASSUME IInv, NEW rs, FileOK(rs), NEW res \in {"ok", "brk", "error"},
         RegStep(rs, res)
  PROVE  IInv'
<1>1. /\ reg' \in [Banks -> [Register -> Word]]
      /\ \A b \in Banks : FileOK(reg'[b])
  BY AdvanceTypeOK DEF RegStep, Finish
<1>2. /\ UNCHANGED <<eeprom, sram, vga, halted, irqEn, irqHandler>>
      /\ irqQueue' = Queue /\ irqDataBuf' = DataBuf
      /\ sramPage' = Pages /\ inIrq' = Serving /\ result' = res
  BY DEF RegStep, Finish, TakeIrq
<1>3. QED
  BY <1>1, <1>2, EntryOK, InvFromParts DEF IInv, TypeOK

LEMMA WriteToOK ==
  ASSUME IInv, NEW v \in Word, WriteTo(v)
  PROVE  IInv'
<1>0. FileOK(Regs)
  BY EntryOK
<1>1. CASE To \in Writeable /\ RegStep([Regs EXCEPT ![To] = v], "ok")
  <2>1. FileOK([Regs EXCEPT ![To] = v])
    BY <1>0, <1>1, WriteOK
  <2>2. QED
    BY <1>1, <2>1, RegStepOK
<1>2. CASE To \notin Writeable /\ RegStep(Regs, "error")
  BY <1>0, <1>2, RegStepOK
<1>3. QED
  BY <1>1, <1>2 DEF WriteTo

LEMMA PanicOK == IInv /\ Panic => IInv'
  BY DEF IInv, TypeOK, ConstRegs, NoStaleIrq, Panic

LEMMA MoveOK ==
  ASSUME IInv, NEW op, Fetches(op), Move
  PROVE  IInv'
<1>1. (IF To = PC THEN Dec(Regs[From]) ELSE Regs[From]) \in Word
  BY DecodeOK, IncDecType
<1>2. QED
  BY <1>1, WriteToOK DEF Move

(* Every address MEMR may read yields a word.                              *)
LEMMA LoadedType ==
  ASSUME IInv, NEW addr \in Word, ~BeyondEeprom(addr)
  PROVE  Loaded(addr) \in Word
<1>1. \A c : SramAt(c) \in Word
  BY WordFacts DEF SramAt, IInv, TypeOK
<1>2. Truth(irqEn) \in Word /\ Truth(Serving) \in Word
  BY TruthType, EntryOK DEF IInv, TypeOK
<1>3. DataBuf.lo \in Word /\ DataBuf.hi \in Word
  BY EntryOK DEF Payload
<1>4. ASSUME InEeprom(addr) PROVE eeprom[addr - EepromBase + 1] \in Word
  <2>1. eeprom \in Seq(Word)
    BY DEF IInv, TypeOK
  <2>2. addr \in EepromBase .. EepromBase + 2047
    BY <1>4 DEF InEeprom
  <2>3. addr - EepromBase < Len(eeprom)
    BY <1>4, <2>1, <2>2, BaseFacts DEF BeyondEeprom
  <2>4. addr - EepromBase + 1 \in 1 .. Len(eeprom)
    BY <2>1, <2>2, <2>3, BaseFacts
  <2>5. QED
    BY <2>1, <2>4
<1>5. Width \in Word /\ Height \in Word
  <2>1. Width \in Nat /\ Width <= 120 /\ Height \in Nat /\ Height <= 65
    BY ScreenAssumption DEF Width, Height
  <2>2. QED
    BY <2>1, WordIs
<1>6. (VgaBase + Width * Height - 1) % WordSize \in Word
  <2>1. Width \in Nat /\ Height \in Nat
    BY <1>5, WordFacts
  <2>2. Width * Height \in Nat
    BY <2>1
  <2>3. VgaBase + Width * Height - 1 \in Int
    BY <2>2, BaseFacts
  <2>4. QED
    BY <2>3, ModWord
<1>7. ASSUME InVga(addr) PROVE vga[addr - VgaBase] \in Word
  BY <1>7 DEF InVga, IInv, TypeOK
<1>8. Page \in Word /\ irqHandler \in Word
  BY EntryOK DEF IInv, TypeOK
<1>9. QED
  BY <1>1, <1>2, <1>3, <1>4, <1>5, <1>6, <1>7, <1>8, WordFacts DEF Loaded

-----------------------------------------------------------------------------
(* The invariant holds of the machine NewVM makes.                         *)
LEMMA InitOK == Init => IInv
<1> SUFFICES ASSUME Init PROVE IInv
  OBVIOUS
<1>1. FileOK(EmptyRegs(0))
  BY EmptyRegsOK, WordFacts
<1>2. EmptyRegs(0) \in [Register -> Word]
  BY <1>1 DEF FileOK
<1>3. ConstRegs
  BY <1>1, <1>2 DEF Init, ConstRegs, FileOK
<1>4. TypeOK
  <2>1. eeprom \in Seq(Word)
    BY ProgramsAssumption DEF Init
  <2>2. reg \in [Banks -> [Register -> Word]]
    BY <1>2 DEF Init
  <2>3. DOMAIN sram = {}
    BY DEF Init
  <2>4. /\ sramPage \in [Banks -> Word]
        /\ vga \in [VgaCells -> Word]
        /\ irqHandler \in Word
    BY WordFacts DEF Init
  <2>5. irqDataBuf \in [hi : Word, lo : Word]
    BY WordFacts DEF Init
  <2>6. /\ irqQueue \in Seq([hi : Word, lo : Word])
        /\ Len(irqQueue) <= IrqQueueCap
    BY QueueAssumption DEF Init
  <2>7. /\ halted \in BOOLEAN /\ irqEn \in BOOLEAN /\ inIrq \in BOOLEAN
        /\ result \in {"ok", "brk", "error", "panic"}
    BY DEF Init
  <2>8. QED
    BY <2>1, <2>2, <2>3, <2>4, <2>5, <2>6, <2>7 DEF TypeOK
<1>5. QED
  BY <1>3, <1>4 DEF IInv, NoStaleIrq, Init

(* The actions that are more than a RegStep, one by one.                   *)
LEMMA OutOfRangeOK == IInv /\ OutOfRange => IInv'
<1> SUFFICES ASSUME IInv, OutOfRange PROVE IInv'
  OBVIOUS
<1>1. /\ reg' \in [Banks -> [Register -> Word]]
      /\ \A b \in Banks : FileOK(reg'[b])
  BY EntryOK DEF OutOfRange
<1>2. QED
  BY <1>1, EntryOK, InvFromParts DEF IInv, TypeOK, OutOfRange, TakeIrq

LEMMA HaltOK == IInv /\ HALT => IInv'
<1> SUFFICES ASSUME IInv, HALT PROVE IInv'
  OBVIOUS
<1>1. /\ reg' \in [Banks -> [Register -> Word]]
      /\ \A b \in Banks : FileOK(reg'[b])
  BY AdvanceTypeOK, EntryOK DEF HALT, Finish
<1>2. QED
  BY <1>1, EntryOK, InvFromParts DEF IInv, TypeOK, HALT, TakeIrq, Finish

LEMMA MemrOK == IInv /\ MEMR => IInv'
<1> SUFFICES ASSUME IInv, MEMR PROVE IInv'
  OBVIOUS
<1>1. Regs[From] \in Word
  BY DecodeOK DEF MEMR
<1>2. CASE To \in Writeable /\ BeyondEeprom(Regs[From])
  BY <1>2, PanicOK DEF MEMR
<1>3. CASE ~BeyondEeprom(Regs[From])
  BY <1>1, <1>3, LoadedType, WriteToOK DEF MEMR
<1>4. CASE To \notin Writeable
  BY <1>4, EntryOK, RegStepOK DEF MEMR, WriteTo
<1>5. QED
  BY <1>2, <1>3, <1>4

LEMMA SetOK == IInv /\ SET => IInv'
<1> SUFFICES ASSUME IInv, SET PROVE IInv'
  OBVIOUS
<1> DEFINE operand == Inc(Regs[PC])
           rs      == [Regs EXCEPT ![PC] = operand]
<1>1. FileOK(Regs) /\ operand \in Word
  BY EntryOK, DecodeOK, IncDecType DEF SET
<1>2. FileOK(rs)
  BY <1>1, WriteOK, RegisterFacts
<1>3. CASE RegStep(rs, "error")
  <2> HIDE DEF rs
  <2> QED
    BY <1>2, <1>3, RegStepOK
<1>4. CASE Panic
  BY <1>4, PanicOK
<1>5. CASE /\ To \in Writeable
           /\ operand < Len(eeprom)
           /\ RegStep([rs EXCEPT ![To] = eeprom[operand + 1]], "ok")
  <2>1. eeprom \in Seq(Word)
    BY DEF IInv, TypeOK
  <2>2. operand + 1 \in 1 .. Len(eeprom)
    <3> HIDE DEF operand
    <3> QED
      BY <1>1, <1>5, <2>1, WordFacts
  <2>3. eeprom[operand + 1] \in Word
    BY <2>1, <2>2
  <2>4. FileOK([rs EXCEPT ![To] = eeprom[operand + 1]])
    <3> HIDE DEF operand, rs
    <3> QED
      BY <1>2, <1>5, <2>3, WriteOK
  <2>5. QED
    <3> HIDE DEF operand, rs
    <3> QED
      BY <1>5, <2>4, RegStepOK
<1>6. operand >= Len(eeprom) \/ operand < Len(eeprom)
  <2>1. Len(eeprom) \in Nat
    BY DEF IInv, TypeOK
  <2>2. operand \in Nat
    BY <1>1, WordFacts
  <2>3. QED
    <3> HIDE DEF operand
    <3> QED
      BY <2>1, <2>2
<1>7. QED
  BY <1>3, <1>4, <1>5, <1>6 DEF SET

(* A store that leaves the running bank's registers alone.                 *)
LEMMA StoreRegs ==
  ASSUME IInv, Finish(Regs, "ok")
  PROVE  /\ reg' \in [Banks -> [Register -> Word]]
         /\ \A b \in Banks : FileOK(reg'[b])
  BY AdvanceTypeOK, EntryOK DEF Finish

LEMMA StoreDecode ==
  ASSUME IInv, Stores
  PROVE  Addr \in Word /\ Data \in Word
  BY DecodeOK DEF Stores, Addr, Data

LEMMA CellType ==
  ASSUME NEW page \in Word, NEW addr \in Word, InSram(addr)
  PROVE  Cell(page, addr) \in Cells
<1>1. page \in Nat /\ addr \in Nat /\ addr <= 32767
  BY WordFacts DEF InSram
<1>2. page % 16 \in Nat /\ page % 16 <= 15
  BY <1>1
<1>3. QED
  BY <1>1, <1>2 DEF Cell, Cells

LEMMA MemwSramOK == IInv /\ MEMW_Sram => IInv'
<1> SUFFICES ASSUME IInv, MEMW_Sram PROVE IInv'
  OBVIOUS
<1>1. Addr \in Word /\ Data \in Word /\ Cell(Page, Addr) \in Cells
  BY StoreDecode, CellType, EntryOK DEF MEMW_Sram
<1>2. /\ DOMAIN sram' \subseteq Cells
      /\ \A c \in DOMAIN sram' : sram'[c] \in Word
  BY <1>1 DEF MEMW_Sram, IInv, TypeOK
<1>3. QED
  BY <1>2, StoreRegs, EntryOK, InvFromParts
     DEF IInv, TypeOK, MEMW_Sram, TakeIrq, Finish

LEMMA MemwVgaOK == IInv /\ MEMW_Vga => IInv'
<1> SUFFICES ASSUME IInv, MEMW_Vga PROVE IInv'
  OBVIOUS
<1>1. Data \in Word
  BY StoreDecode DEF MEMW_Vga
<1>2. vga' \in [VgaCells -> Word]
  BY <1>1 DEF MEMW_Vga, IInv, TypeOK
<1>3. QED
  BY <1>2, StoreRegs, EntryOK, InvFromParts
     DEF IInv, TypeOK, MEMW_Vga, TakeIrq, Finish

LEMMA MemwHandlerOK == IInv /\ MEMW_Handler => IInv'
<1> SUFFICES ASSUME IInv, MEMW_Handler PROVE IInv'
  OBVIOUS
<1>1. Data \in Word
  BY StoreDecode DEF MEMW_Handler
<1>2. QED
  BY <1>1, StoreRegs, EntryOK, InvFromParts
     DEF IInv, TypeOK, MEMW_Handler, TakeIrq, Finish

LEMMA MemwIrqEnOK == IInv /\ MEMW_IrqEn => IInv'
<1> SUFFICES ASSUME IInv, MEMW_IrqEn PROVE IInv'
  OBVIOUS
<1>1. /\ irqQueue' \in Seq(Payload)
      /\ Len(irqQueue') <= IrqQueueCap
      /\ ~irqEn' => irqQueue' = <<>>
  <2>1. CASE Data = 0
    <3>1. irqQueue' = <<>>
      BY <2>1 DEF MEMW_IrqEn
    <3>2. <<>> \in Seq(Payload) /\ Len(<<>>) <= IrqQueueCap
      BY QueueAssumption
    <3>3. QED
      BY <3>1, <3>2
  <2>2. CASE Data # 0
    <3>1. irqQueue' = Queue /\ irqEn'
      BY <2>2 DEF MEMW_IrqEn
    <3>2. QED
      BY <3>1, EntryOK
  <2>3. QED
    BY <2>1, <2>2
<1>2. QED
  BY <1>1, StoreRegs, EntryOK, InvFromParts
     DEF IInv, TypeOK, MEMW_IrqEn, Finish

LEMMA MemwIrqExitOK == IInv /\ MEMW_IrqExit => IInv'
<1> SUFFICES ASSUME IInv, MEMW_IrqExit PROVE IInv'
  OBVIOUS
<1> DEFINE f == [Files["DEF"] EXCEPT ![PC] = Inc(Dec(@))]
<1>1. FileOK(Files["DEF"])
  BY EntryOK DEF Banks
<1>2. Inc(Dec(Files["DEF"][PC])) \in Word
  BY <1>1, IncDecType, RegisterFacts DEF FileOK
<1>3. FileOK(f)
  BY <1>1, <1>2, WriteOK, RegisterFacts
<1>4. reg' = [Files EXCEPT !["DEF"] = f]
  BY EntryOK DEF MEMW_IrqExit, Banks
<1>5. /\ reg' \in [Banks -> [Register -> Word]]
      /\ \A b \in Banks : FileOK(reg'[b])
  <2> f \in [Register -> Word]
    BY <1>3 DEF FileOK
  <2> HIDE DEF f
  <2> QED
    BY <1>3, <1>4, EntryOK
<1>6. QED
  BY <1>5, EntryOK, InvFromParts DEF IInv, TypeOK, MEMW_IrqExit, TakeIrq

LEMMA MemwPageOK == IInv /\ MEMW_Page => IInv'
<1> SUFFICES ASSUME IInv, MEMW_Page PROVE IInv'
  OBVIOUS
<1>1. sramPage' \in [Banks -> Word]
  BY StoreDecode, EntryOK DEF MEMW_Page
<1>2. QED
  BY <1>1, StoreRegs, EntryOK, InvFromParts
     DEF IInv, TypeOK, MEMW_Page, TakeIrq, Finish

LEMMA InjectOK == \A data \in IrqData : IInv /\ InjectIRQ(data) => IInv'
<1> SUFFICES ASSUME NEW data \in IrqData, IInv, InjectIRQ(data) PROVE IInv'
  OBVIOUS
<1>1. data \in Payload
  BY IrqDataAssumption DEF Payload
<1>2. /\ irqQueue \in Seq(Payload)
      /\ Len(irqQueue) < IrqQueueCap
      /\ irqQueue' = Append(irqQueue, data)
  BY DEF IInv, TypeOK, Payload, InjectIRQ
<1>3. irqQueue' \in Seq(Payload) /\ Len(irqQueue') <= IrqQueueCap
  BY <1>1, <1>2, QueueAssumption
<1>4. QED
  BY <1>3, FilesOK, InvFromParts DEF IInv, TypeOK, Payload, InjectIRQ

(* Every step keeps the invariant.                                         *)
LEMMA StepOK == IInv /\ Step => IInv'
<1> SUFFICES ASSUME IInv, Step PROVE IInv'
  OBVIOUS
<1>0. FileOK(Regs)
  BY EntryOK
<1>1. CASE OutOfRange \/ HALT \/ MEMR \/ SET
  BY <1>1, OutOfRangeOK, HaltOK, MemrOK, SetOK
<1>2. CASE MOV
  BY <1>2, MoveOK DEF MOV
<1>3. CASE MOVNZ
  BY <1>0, <1>3, MoveOK, RegStepOK DEF MOVNZ
<1>4. CASE MOVEZ
  BY <1>0, <1>4, MoveOK, RegStepOK DEF MOVEZ
<1>5. CASE BRK
  BY <1>0, <1>5, RegStepOK DEF BRK
<1>6. CASE MEMW_Sram \/ MEMW_Vga \/ MEMW_Handler
  BY <1>6, MemwSramOK, MemwVgaOK, MemwHandlerOK
<1>7. CASE MEMW_IrqEn \/ MEMW_IrqExit \/ MEMW_Page
  BY <1>7, MemwIrqEnOK, MemwIrqExitOK, MemwPageOK
<1>8. CASE MEMW_Other
  BY <1>0, <1>8, RegStepOK DEF MEMW_Other
<1>9. CASE AND \/ OR \/ XOR
  BY <1>9, DecodeOK, BitwiseType, WriteToOK DEF AND, OR, XOR
<1>10. CASE ADD \/ MUL
  BY <1>10, DecodeOK, ArithmeticType, WriteToOK DEF ADD, MUL
<1>11. CASE SHFT
  BY <1>11, DecodeOK, ShiftType, WriteToOK DEF SHFT
<1>12. CASE GT \/ EQ
  <2>1. \A b \in BOOLEAN : Truth(b) \in Word
    BY TruthType
  <2>2. (Signed(Regs[From]) > Signed(Regs[Third])) \in BOOLEAN
    OBVIOUS
  <2>3. QED
    BY <1>12, <2>1, <2>2, WriteToOK DEF GT, EQ
<1>13. QED
  BY <1>1, <1>2, <1>3, <1>4, <1>5, <1>6, <1>7, <1>8, <1>9, <1>10, <1>11,
     <1>12 DEF Step

(* The inductive invariant holds in every reachable state.                 *)
THEOREM Invariance == Spec => []IInv
<1>1. IInv /\ [Next]_vars => IInv'
  <2> SUFFICES ASSUME IInv, [Next]_vars PROVE IInv'
    OBVIOUS
  <2>1. CASE Step
    BY <2>1, StepOK
  <2>2. CASE \E data \in IrqData : InjectIRQ(data)
    BY <2>2, InjectOK
  <2>3. CASE UNCHANGED vars
    BY <2>3 DEF vars, IInv, TypeOK, ConstRegs, NoStaleIrq
  <2>4. QED
    BY <2>1, <2>2, <2>3 DEF Next
<1>2. QED
  BY <1>1, InitOK, PTL DEF Spec

(* Type correctness: every value stays within its 16 bits and the queue    *)
(* within its channel.                                                     *)
THEOREM TypeCorrect == Spec => []TypeOK
<1>1. IInv => TypeOK
  BY DEF IInv
<1>2. QED
  BY <1>1, Invariance, PTL

(* The constant registers are constant.                                    *)
THEOREM ConstantRegisters == Spec => []ConstRegs
<1>1. IInv => ConstRegs
  BY DEF IInv
<1>2. QED
  BY <1>1, Invariance, PTL

(* Disabling interrupts forgets the ones that wait.                        *)
THEOREM NoStaleInterrupt == Spec => []NoStaleIrq
<1>1. IInv => NoStaleIrq
  BY DEF IInv
<1>2. QED
  BY <1>1, Invariance, PTL

-----------------------------------------------------------------------------
(* While a handler is served the instruction works on the handler's bank,  *)
(* and the entry has left the program's registers and page alone.          *)
LEMMA HandlerBank ==
  ASSUME IInv, Serving
  PROVE  /\ Bank = "IRQ"
         /\ Files["DEF"] = reg["DEF"]
         /\ Pages["DEF"] = sramPage["DEF"]
  BY DEF Bank, Files, Pages, Banks, IInv, TypeOK

(* What an instruction on the handler's bank leaves of the program's.      *)
LEMMA AdvanceTransparent ==
  ASSUME IInv, Serving, NEW rs, Advance(rs)
  PROVE  reg'["DEF"] = reg["DEF"]
<1> DEFINE f == [rs EXCEPT ![PC] = Inc(@)]
<1>1. reg' = [Files EXCEPT !["IRQ"] = f]
  BY HandlerBank DEF Advance
<1>2. Files \in [Banks -> [Register -> Word]]
  BY EntryOK
<1>3. reg'["DEF"] = Files["DEF"]
  <2> HIDE DEF f
  <2> QED
    BY <1>1, <1>2 DEF Banks
<1>4. QED
  BY <1>3, HandlerBank

Untouched == reg'["DEF"] = reg["DEF"] /\ sramPage'["DEF"] = sramPage["DEF"]

LEMMA RegStepTransparent ==
  ASSUME IInv, Serving, NEW rs, NEW res, RegStep(rs, res)
  PROVE  Untouched
  BY AdvanceTransparent, HandlerBank DEF RegStep, Finish, Untouched

LEMMA WriteToTransparent ==
  ASSUME IInv, Serving, NEW v, WriteTo(v)
  PROVE  Untouched
  BY RegStepTransparent DEF WriteTo

LEMMA StepTransparent == IInv /\ Serving /\ Step => Untouched
<1> SUFFICES ASSUME IInv, Serving, Step PROVE Untouched
  OBVIOUS
<1>1. CASE OutOfRange
  BY <1>1, HandlerBank DEF OutOfRange, Untouched
<1>2. CASE HALT
  BY <1>2, AdvanceTransparent, HandlerBank DEF HALT, Finish, Untouched
<1>3. CASE MOV \/ MOVNZ \/ MOVEZ \/ BRK
  BY <1>3, WriteToTransparent, RegStepTransparent
     DEF MOV, MOVNZ, MOVEZ, BRK, Move
<1>4. CASE Panic
  BY <1>4 DEF Panic, Untouched
<1>5. CASE MEMR
  BY <1>4, <1>5, WriteToTransparent DEF MEMR
<1>6. CASE SET
  BY <1>4, <1>6, RegStepTransparent DEF SET
<1>7. CASE MEMW_Sram \/ MEMW_Vga \/ MEMW_Handler
  BY <1>7, AdvanceTransparent, HandlerBank
     DEF MEMW_Sram, MEMW_Vga, MEMW_Handler, Finish, Untouched
<1>8. CASE MEMW_IrqEn
  BY <1>8, AdvanceTransparent, HandlerBank DEF MEMW_IrqEn, Finish, Untouched
<1>9. CASE MEMW_IrqExit
  <2>1. Files["DEF"] \in [Register -> Word] /\ Files["DEF"][PC] \in Word
    BY EntryOK, RegisterFacts DEF FileOK, Banks
  <2>2. Inc(Dec(Files["DEF"][PC])) = Files["DEF"][PC]
    BY <2>1, IncDec
  <2>3. reg'["DEF"] = [Files["DEF"] EXCEPT ![PC] = Inc(Dec(@))]
    BY <1>9, EntryOK DEF MEMW_IrqExit, Banks
  <2>4. reg'["DEF"] = Files["DEF"]
    BY <2>1, <2>2, <2>3
  <2>5. QED
    BY <1>9, <2>4, HandlerBank DEF MEMW_IrqExit, Untouched
<1>10. CASE MEMW_Page
  <2>1. Pages \in [Banks -> Word] /\ Bank = "IRQ"
    BY EntryOK, HandlerBank
  <2>2. sramPage'["DEF"] = Pages["DEF"]
    BY <1>10, <2>1 DEF MEMW_Page, Banks
  <2>3. QED
    BY <1>10, <2>2, AdvanceTransparent, HandlerBank
       DEF MEMW_Page, Finish, Untouched
<1>11. CASE MEMW_Other
  BY <1>11, RegStepTransparent DEF MEMW_Other
<1>12. CASE AND \/ OR \/ XOR \/ ADD \/ SHFT \/ MUL \/ GT \/ EQ
  BY <1>12, WriteToTransparent DEF AND, OR, XOR, ADD, SHFT, MUL, GT, EQ
<1>13. QED
  BY <1>1, <1>2, <1>3, <1>5, <1>6, <1>7, <1>8, <1>9, <1>10, <1>11, <1>12
     DEF Step

(* Whatever the handler executes, the interrupted program finds its        *)
(* registers, its program counter and its page as they were.               *)
THEOREM Transparency == Spec => IrqTransparent
<1>1. IInv /\ [Next]_vars =>
        [Serving => /\ reg'["DEF"] = reg["DEF"]
                    /\ sramPage'["DEF"] = sramPage["DEF"]]_vars
  <2> SUFFICES ASSUME IInv, Next, Serving PROVE Untouched
    BY DEF Untouched
  <2>1. CASE Step
    BY <2>1, StepTransparent
  <2>2. CASE \E data \in IrqData : InjectIRQ(data)
    BY <2>2 DEF InjectIRQ, Untouched
  <2>3. QED
    BY <2>1, <2>2 DEF Next
<1>2. QED
  BY <1>1, Invariance, PTL DEF Spec, IrqTransparent

-----------------------------------------------------------------------------
(* The interrupt logic of an instruction that is not about interrupts.     *)
Plain == TakeIrq /\ inIrq' = Serving /\ irqEn' = irqEn

LEMMA PlainIsWork ==
  ASSUME Plain
  PROVE  Line!Work
  BY DEF Plain, TakeIrq, Line!Work, Line!Taken, Line!Served, Line!Left,
         Line!Due, Serving, Queue, DataBuf, Entering

LEMMA WriteToPlain ==
  ASSUME NEW v, WriteTo(v)
  PROVE  Plain
  BY DEF WriteTo, RegStep, Finish, Plain

(* Every instruction is one cycle of the interrupt line.                   *)
LEMMA StepIsCycle == Step => [Line!Next]_(Line!vars)
<1> SUFFICES ASSUME Step PROVE [Line!Next]_(Line!vars)
  OBVIOUS
<1> USE DEF Line!Next
<1>1. CASE OutOfRange \/ HALT
  BY <1>1, PlainIsWork DEF OutOfRange, HALT, Finish, Plain
<1>2. CASE MOV \/ MOVNZ \/ MOVEZ \/ BRK
  BY <1>2, PlainIsWork, WriteToPlain
     DEF MOV, MOVNZ, MOVEZ, BRK, Move, RegStep, Finish, Plain
<1>3. CASE Panic
  BY <1>3 DEF Panic, Line!vars
<1>4. CASE MEMR
  BY <1>3, <1>4, PlainIsWork, WriteToPlain DEF MEMR
<1>5. CASE SET
  BY <1>3, <1>5, PlainIsWork DEF SET, RegStep, Finish, Plain
<1>6. CASE MEMW_Sram \/ MEMW_Vga \/ MEMW_Handler \/ MEMW_Page \/ MEMW_Other
  BY <1>6, PlainIsWork
     DEF MEMW_Sram, MEMW_Vga, MEMW_Handler, MEMW_Page, MEMW_Other, RegStep,
         Finish, Plain
<1>7. CASE MEMW_IrqEn
  <2>1. CASE Data = 0
    BY <1>7, <2>1 DEF MEMW_IrqEn, Finish, Line!Disable, Line!Taken,
       Line!Served, Line!Due, Serving, DataBuf, Entering
  <2>2. CASE Data # 0
    BY <1>7, <2>2 DEF MEMW_IrqEn, Finish, Line!Enable, Line!Taken,
       Line!Served, Line!Left, Line!Due, Serving, Queue, DataBuf, Entering
  <2>3. QED
    BY <2>1, <2>2
<1>8. CASE MEMW_IrqExit
  BY <1>8 DEF MEMW_IrqExit, TakeIrq, Line!Done, Line!Taken, Line!Left,
     Line!Due, Queue, DataBuf, Entering
<1>9. CASE AND \/ OR \/ XOR \/ ADD \/ SHFT \/ MUL \/ GT \/ EQ
  BY <1>9, PlainIsWork, WriteToPlain
     DEF AND, OR, XOR, ADD, SHFT, MUL, GT, EQ
<1>10. QED
  BY <1>1, <1>2, <1>4, <1>5, <1>6, <1>7, <1>8, <1>9 DEF Step

(* The machine implements the interrupt line, whatever program it runs.    *)
THEOREM ImplementsLine == Spec => LineSpec
<1>1. Init => Line!Init
  BY DEF Init, Line!Init
<1>2. [Next]_vars => [Line!Next]_(Line!vars)
  <2> SUFFICES ASSUME [Next]_vars PROVE [Line!Next]_(Line!vars)
    OBVIOUS
  <2>1. CASE Step
    BY <2>1, StepIsCycle
  <2>2. CASE \E data \in IrqData : InjectIRQ(data)
    BY <2>2 DEF InjectIRQ, Line!Next, Line!Raise
  <2>3. CASE UNCHANGED vars
    BY <2>3 DEF vars, Line!vars
  <2>4. QED
    BY <2>1, <2>2, <2>3 DEF Next
<1>3. QED
  BY <1>1, <1>2, PTL DEF Spec, LineSpec, Line!Spec

-----------------------------------------------------------------------------
(* SRAM is written by one action only, at the one cell it addresses.       *)
SramKept == sram' = sram

LEMMA RegStepKeepsSram ==
  ASSUME NEW rs, NEW res, RegStep(rs, res)
  PROVE  SramKept
  BY DEF RegStep, SramKept

LEMMA WriteToKeepsSram ==
  ASSUME NEW v, WriteTo(v)
  PROVE  SramKept
  BY RegStepKeepsSram DEF WriteTo

LEMMA StepKeepsSram == Step => SramKept \/ MEMW_Sram
<1> SUFFICES ASSUME Step, ~MEMW_Sram PROVE SramKept
  OBVIOUS
<1>1. CASE OutOfRange \/ HALT
  BY <1>1 DEF OutOfRange, HALT, SramKept
<1>2. CASE MOV \/ MOVNZ \/ MOVEZ \/ BRK
  BY <1>2, WriteToKeepsSram, RegStepKeepsSram
     DEF MOV, MOVNZ, MOVEZ, BRK, Move
<1>3. CASE Panic
  BY <1>3 DEF Panic, SramKept
<1>4. CASE MEMR \/ SET
  BY <1>3, <1>4, WriteToKeepsSram, RegStepKeepsSram DEF MEMR, SET
<1>5. CASE MEMW_Vga \/ MEMW_Handler \/ MEMW_IrqEn \/ MEMW_IrqExit \/ MEMW_Page
  BY <1>5 DEF MEMW_Vga, MEMW_Handler, MEMW_IrqEn, MEMW_IrqExit, MEMW_Page,
              SramKept
<1>6. CASE MEMW_Other
  BY <1>6, RegStepKeepsSram DEF MEMW_Other
<1>7. CASE AND \/ OR \/ XOR \/ ADD \/ SHFT \/ MUL \/ GT \/ EQ
  BY <1>7, WriteToKeepsSram DEF AND, OR, XOR, ADD, SHFT, MUL, GT, EQ
<1>8. QED
  BY <1>1, <1>2, <1>4, <1>5, <1>6, <1>7 DEF Step

(* The page part of a cell's number is the page's low four bits: an        *)
(* address in SRAM never carries into it.                                  *)
LEMMA CellPage ==
  ASSUME NEW page \in Word, NEW addr \in Word, InSram(addr)
  PROVE  Cell(page, addr) \div 65536 = page % 16
<1> DEFINE p == page % 16
<1>1. page \in Nat /\ addr \in Nat /\ addr <= 32767
  BY WordFacts DEF InSram
<1>2. p \in Nat
  BY <1>1
<1>3. (p * 65536 + addr) \div 65536 = p
  <2> HIDE DEF p
  <2> QED
    BY <1>1, <1>2, SMTT(60)
<1>4. QED
  BY <1>3 DEF Cell

(* The page the instruction works in, before the entry is taken into       *)
(* account: the handler starts on page 0.                                  *)
SelectedPage == CASE inIrq    -> sramPage["IRQ"] % 16
                  [] Entering -> 0
                  [] OTHER    -> sramPage["DEF"] % 16

LEMMA PageIsSelected == IInv => Page % 16 = SelectedPage
<1> SUFFICES ASSUME IInv PROVE Page % 16 = SelectedPage
  OBVIOUS
<1>1. CASE inIrq
  BY <1>1 DEF Page, Pages, Bank, Serving, Entering, SelectedPage
<1>2. CASE ~inIrq /\ Entering
  <2>1. Page = 0
    BY <1>2 DEF Page, Pages, Bank, Serving, Banks, IInv, TypeOK
  <2>2. SelectedPage = 0
    BY <1>2 DEF SelectedPage
  <2>3. QED
    BY <2>1, <2>2
<1>3. CASE ~inIrq /\ ~Entering
  BY <1>3 DEF Page, Pages, Bank, Serving, SelectedPage
<1>4. QED
  BY <1>1, <1>2, <1>3

(* No instruction reaches SRAM outside the page its bank has selected.     *)
THEOREM PagesIsolated == Spec => PageIsolation
<1> DEFINE Isolated ==
      \A c \in DOMAIN sram' : sram'[c] # SramAt(c) =>
         c \div 65536 = CASE inIrq    -> sramPage["IRQ"] % 16
                          [] Entering -> 0
                          [] OTHER    -> sramPage["DEF"] % 16
<1>1. IInv /\ [Next]_vars => [Isolated]_vars
  <2> SUFFICES ASSUME IInv, Next PROVE Isolated
    OBVIOUS
  <2>1. CASE SramKept
    BY <2>1 DEF SramKept, SramAt
  <2>2. CASE MEMW_Sram
    <3> SUFFICES ASSUME NEW c \in DOMAIN sram', sram'[c] # SramAt(c)
                 PROVE  c \div 65536 = SelectedPage
      BY DEF SelectedPage
    <3>1. c = Cell(Page, Addr)
      BY <2>2 DEF MEMW_Sram, SramAt
    <3>2. /\ Page \in Word /\ Addr \in Word
          /\ InSram(Addr)
      BY <2>2, EntryOK, StoreDecode DEF MEMW_Sram
    <3>3. QED
      BY <3>1, <3>2, CellPage, PageIsSelected
  <2>3. CASE \E data \in IrqData : InjectIRQ(data)
    BY <2>1, <2>3 DEF InjectIRQ, SramKept
  <2>4. QED
    BY <2>1, <2>2, <2>3, StepKeepsSram DEF Next
<1>2. QED
  BY <1>1, Invariance, PTL DEF Spec, PageIsolation

-----------------------------------------------------------------------------
(* Refused instructions.                                                   *)
Inert ==
  /\ UNCHANGED <<sram, vga, halted, irqEn, irqHandler>>
  /\ \A b \in Banks : \A r \in Register \ {PC} :
        reg'[b][r] \in {reg[b][r], Files[b][r]}

(* Only the program counter differs when the file advanced is the running  *)
(* bank's own, possibly with another program counter.                      *)
LEMMA AdvanceInert ==
  ASSUME IInv, NEW rs, FileOK(rs),
         \A r \in Register \ {PC} : rs[r] = Regs[r],
         Advance(rs)
  PROVE  \A b \in Banks : \A r \in Register \ {PC} : reg'[b][r] = Files[b][r]
<1> DEFINE f == [rs EXCEPT ![PC] = Inc(@)]
<1> SUFFICES ASSUME NEW b \in Banks, NEW r \in Register \ {PC}
             PROVE  reg'[b][r] = Files[b][r]
  OBVIOUS
<1>1. reg' = [Files EXCEPT ![Bank] = f]
  BY DEF Advance
<1>2. f[r] = Files[Bank][r]
  BY DEF FileOK, Regs
<1>3. QED
  <2> HIDE DEF f
  <2> QED
    BY <1>1, <1>2, EntryOK

LEMMA RegStepInert ==
  ASSUME IInv, NEW rs, FileOK(rs), NEW res,
         \A r \in Register \ {PC} : rs[r] = Regs[r],
         RegStep(rs, res)
  PROVE  Inert
  BY AdvanceInert DEF RegStep, Finish, Inert

LEMMA WriteToInert ==
  ASSUME IInv, NEW v, WriteTo(v), result' = "error"
  PROVE  Inert
<1>1. RegStep(Regs, "error")
  BY DEF WriteTo, RegStep, Finish
<1>2. FileOK(Regs)
  BY EntryOK
<1>3. QED
  BY <1>1, <1>2, RegStepInert

LEMMA StepInert == IInv /\ Step /\ result' = "error" => Inert
<1> SUFFICES ASSUME IInv, Step, result' = "error" PROVE Inert
  OBVIOUS
<1>0. FileOK(Regs)
  BY EntryOK
<1>1. CASE OutOfRange
  BY <1>1 DEF OutOfRange, Inert
<1>2. ~HALT /\ ~BRK /\ ~Panic
  BY DEF HALT, BRK, RegStep, Finish, Panic
<1>3. CASE MOV \/ MOVNZ \/ MOVEZ
  BY <1>0, <1>3, WriteToInert, RegStepInert DEF MOV, MOVNZ, MOVEZ, Move
<1>4. CASE MEMR
  BY <1>2, <1>4, WriteToInert DEF MEMR
<1>5. CASE SET
  <2> DEFINE rs == [Regs EXCEPT ![PC] = Inc(Regs[PC])]
  <2>1. RegStep(rs, "error")
    <3>1. \A f : ~RegStep(f, "ok")
      BY DEF RegStep, Finish
    <3>2. QED
      BY <1>2, <1>5, <3>1 DEF SET
  <2>2. FileOK(rs)
    BY <1>0, <1>5, DecodeOK, IncDecType, WriteOK, RegisterFacts DEF SET
  <2>3. \A r \in Register \ {PC} : rs[r] = Regs[r]
    BY <1>0 DEF FileOK
  <2>4. QED
    <3> HIDE DEF rs
    <3> QED
      BY <2>1, <2>2, <2>3, RegStepInert
<1>6. CASE MEMW_Sram \/ MEMW_Vga \/ MEMW_Handler \/ MEMW_IrqEn
           \/ MEMW_IrqExit \/ MEMW_Page
  BY <1>6 DEF MEMW_Sram, MEMW_Vga, MEMW_Handler, MEMW_IrqEn, MEMW_IrqExit,
              MEMW_Page, Finish
<1>7. CASE MEMW_Other
  BY <1>0, <1>7, RegStepInert DEF MEMW_Other
<1>8. CASE AND \/ OR \/ XOR \/ ADD \/ SHFT \/ MUL \/ GT \/ EQ
  BY <1>8, WriteToInert DEF AND, OR, XOR, ADD, SHFT, MUL, GT, EQ
<1>9. QED
  BY <1>1, <1>2, <1>3, <1>4, <1>5, <1>6, <1>7, <1>8 DEF Step

(* A Step that reports an error has changed nothing but the program        *)
(* counter, besides entering the handler it may have entered before.       *)
THEOREM RefusedInert == Spec => RefusedIsInert
<1>1. IInv /\ [Next]_vars =>
        [result' = "error" =>
           /\ UNCHANGED <<sram, vga, halted, irqEn, irqHandler>>
           /\ \A b \in Banks : \A r \in Register \ {PC} :
                 reg'[b][r] \in {reg[b][r], Files[b][r]}]_vars
  <2> SUFFICES ASSUME IInv, Next, result' = "error" PROVE Inert
    BY DEF Inert
  <2>1. CASE Step
    BY <2>1, StepInert
  <2>2. CASE \E data \in IrqData : InjectIRQ(data)
    BY <2>2 DEF InjectIRQ, Inert
  <2>3. QED
    BY <2>1, <2>2 DEF Next
<1>2. QED
  BY <1>1, Invariance, PTL DEF Spec, RefusedIsInert

=============================================================================
