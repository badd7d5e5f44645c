------------------------------ MODULE MCMcpcVM ------------------------------
(***************************************************************************)
(* Programs for model checking McpcVM.  They are written as the assembler  *)
(* would emit them, from the instruction formats of vm.go.                 *)
(***************************************************************************)
EXTENDS McpcVM

A == 0
B == 1
C == 2
D == 3

Word4(op, from, to, third) == op + 16 * from + 256 * to + 4096 * third

halt            == <<0>>
mov(from, to)   == <<Word4(1, from, to, 0)>>
memr(addr, to)  == <<Word4(5, addr, to, 0)>>
set(to, w)      == <<Word4(6, 0, to, 0), w>>
memw(addr, val) == <<Word4(7, addr, 0, val)>>

-----------------------------------------------------------------------------
(* Programs that take interrupts.  The main program installs a handler,    *)
(* enables interrupts and repeats a block; the handler runs a block and    *)
(* leaves.  B holds the address of IrqEnReg in the main program, A that of *)
(* InIrqReg in the handler.                                                *)
Program(main, handler) ==
  set(A, 11 + Len(main)) \o set(B, HandlerReg) \o memw(B, A)
  \o set(B, IrqEnReg) \o memw(B, NegOne)
  \o main \o set(C, 8) \o mov(C, PC)
  \o set(A, InIrqReg) \o handler \o memw(A, Zero)

MainBlocks == {
  memw(B, Zero) \o memw(B, One),                       \* interrupts off, on
  set(D, PageReg) \o memw(D, One) \o memw(D, D),       \* pages 1, 0
  memw(Zero, NegOne) \o memr(Zero, D),                 \* a cell of SRAM
  mov(B, Zero),                                        \* refused
  mov(One, D) \o mov(Zero, D) }

HandlerBlocks == {
  set(B, DataLoReg) \o memr(B, C) \o memw(Zero, C),    \* keep the payload
  set(B, PageReg) \o memw(B, NegOne) \o memw(One, B),  \* a page of its own
  set(B, IrqEnReg) \o memw(B, Zero),                   \* interrupts off
  memw(A, One) \o mov(One, NegOne) }                   \* both refused

StoppingBlocks == {halt, memw(A, Zero) \o memw(A, Zero), mov(NegOne, PC)}

IrqPrograms ==
  {Program(m, h) : m \in MainBlocks, h \in HandlerBlocks}
  \cup {Program(m, h) : m \in MainBlocks, h \in StoppingBlocks}
  \cup {Program(halt, h) : h \in HandlerBlocks}

(* Payloads: a pressed key, its low word 0xA, and an invalid one, 0xB.     *)
KeyA     == [hi |-> 65, lo |-> 10]
Invalid  == [hi |-> 0, lo |-> 11]
Payloads == {KeyA, Invalid}

-----------------------------------------------------------------------------
(* Programs of one instruction of every kind, on operands at the borders   *)
(* of the memory map and of the words.                                     *)
Operands == {
  0, 1, 15, 16, 255, 256, 32767, 32768, 65535,
  PageReg, HandlerReg, IrqEnReg, InIrqReg, DataLoReg, DataHiReg,
  EepromBase, EepromBase + 4, EepromBase + 5, EepromBase + 2048,
  WidthReg, HeightReg, VgaMaxReg, VgaBase, VgaBase + 3, VgaBase + 4}

Instructions ==
  {Word4(op, from, to, third) :
     op \in 0 .. 15, from \in {A, B}, to \in {C, PC, Zero}, third \in {B, Zero}}

OpPrograms ==
  {set(A, a) \o set(B, b) \o <<i>> :
     a \in Operands, b \in {0, 2, 32769, 65535}, i \in Instructions}



MCPrograms == IrqPrograms \cup OpPrograms

=============================================================================
