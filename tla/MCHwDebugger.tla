---------------------------- MODULE MCHwDebugger ----------------------------
(***************************************************************************)
(* Bytes of three bits, a ROM of five words of which fewer than three get  *)
(* a HALT, dumps of the two registers that can differ, and a processor     *)
(* whose other registers are one, A.                                       *)
(***************************************************************************)
EXTENDS HwDebugger

(* Bytes are numbers of three bits.                                        *)
Bit(a, i)   == (a \div i) % 2
MCXor(a, b) ==
  ((Bit(a, 1) + Bit(b, 1)) % 2) + 2 * ((Bit(a, 2) + Bit(b, 2)) % 2)
    + 4 * ((Bit(a, 4) + Bit(b, 4)) % 2)

(* The instructions, with the opcodes of the code; a destination other     *)
(* than A is PC, which SET refuses, or a constant.                         *)
JMP     == 1       \* MOV A -> PC
MOVNC   == 1 + 16  \* MOV A -> a constant, refused
JMPNZ   == 2       \* MOVNZ A -> PC if A
MEMR    == 5       \* MEMR A <- [A]
SETA    == 6
SETPC   == 6 + 16  \* refused
ADDA    == 11      \* A := A + A
MCRefused(w) == w \in {MOVNC, SETPC}

(* EEPROM is read at the addresses from Eeprom on, 0xD000 in the code.     *)
Eeprom == 8
MCEepromAt(w, pc, a) ==
  IF a \in Eeprom .. Eeprom + RomSize - 1 THEN a - Eeprom ELSE -1

MCNextPC(w, pc, a, d) ==
  IF w = JMP \/ (w = JMPNZ /\ a # 0) THEN a ELSE (pc + 1) % (Base * Base)
MCNewRest(w, pc, a, d) ==
  CASE w \in {MEMR, SETA} -> d
    [] w = ADDA           -> (a + a) % (Base * Base)
    [] OTHER              -> a
MCShown(r, a) == IF r = 0 THEN a ELSE 0
MCFound ==
  {[pc |-> p, rest |-> p + 1, halted |-> h] : p \in {0, 3}, h \in BOOLEAN}

(* Programs that end, loop, stop at a break point, jump behind what is     *)
(* kept of them, or by a pointer read from the ROM; that read a word kept  *)
(* or one cut off; that are refused a register; that run into a literal;   *)
(* that cannot be shown, or hold nothing.                                  *)
MCPrograms == {
  <<Brk, Brk, 0, 0, 0>>,        <<SETA, 0, JMP, 0, 0>>,
  <<SETA, 3, JMP, 0, 0>>,       <<SETA, 4, JMPNZ, 0, 0>>,
  <<SETA, 12, MEMR, 0, 0>>,     <<SETA, 10, MEMR, JMP, MEMR>>,
  <<MOVNC, ADDA, Brk, 0, JMP>>, <<SETA, 4, JMP, SETA, SETPC>>,
  <<SETA, 4, JMP, SETA, SETA>>, <<SETPC, 0, SETA, 0, 0>>,
  <<SETA, 12, 0, MEMR, 0>>,     <<0, 0, 0, 0, 0>>}
MCRoms == {[i \in 0 .. RomSize - 1 |-> p[i + 1]] : p \in MCPrograms}

MCDumpRegs == <<0, 11>>

=============================================================================
