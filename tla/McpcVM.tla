------------------------------- MODULE McpcVM -------------------------------
(***************************************************************************)
(* The MCPC virtual machine of interpreter/vm.go: a 16 bit processor with  *)
(* two register files, one for the program and one for the interrupt       *)
(* handler, paged SRAM, an EEPROM it runs from, a text screen and a queue  *)
(* of interrupts.                                                          *)
(*                                                                         *)
(* VM.Step executes one instruction.  It is one atomic step here too: the  *)
(* machine is only touched by the goroutine that calls Step and InjectIRQ. *)
(* Before the instruction a Step may enter the interrupt handler, so every *)
(* instruction is written over the state *after* that entry: the operators *)
(* Serving, Files, Pages, Queue and DataBuf below.                         *)
(***************************************************************************)
EXTENDS Word16, Sequences

CONSTANTS
  Programs,     \* the EEPROM images NewVM may be given
  IrqData,      \* the payloads InjectIRQ may be given, as [hi, lo] words
  IrqQueueCap,  \* capacity of the channel IrqQueue, 256 in the code
  VgaWidth,     \* screen size asked for
  VgaHeight

ASSUME ProgramsAssumption == Programs \subseteq Seq(Word)
ASSUME IrqDataAssumption  == IrqData \subseteq [hi : Word, lo : Word]
ASSUME QueueAssumption    == IrqQueueCap \in Nat \ {0}
ASSUME ScreenAssumption   == VgaWidth \in Nat /\ VgaHeight \in Nat

VARIABLES
  eeprom,      \* the program, addressed from 0 by the machine
  reg,         \* the register files: RegDef and RegIrq
  sram,        \* the cells of SRAM written so far; all others hold 0
  sramPage,    \* SRAMPageDef and SRAMPageIrq
  vga,         \* VgaBuffer
  halted,
  irqEn,
  inIrq,
  irqHandler,
  irqQueue,
  irqDataBuf,
  result       \* how the last Step ended: "ok", "brk", "error" or "panic"

vars == <<eeprom, reg, sram, sramPage, vga, halted, irqEn, inIrq, irqHandler,
          irqQueue, irqDataBuf, result>>

-----------------------------------------------------------------------------
(* Registers.  Instructions name them by number; the last four cannot be   *)
(* written.                                                                *)
Register  == 0 .. 15
SP        == 10
PC        == 11
Zero      == 12
One       == 13
NegOne    == 14
BUS       == 15
WriteableBug == 0 .. Zero   \* seeded bug: one register too many
Writeable == 0 .. PC

EmptyRegs(pc) ==
  [r \in Register |-> CASE r = PC     -> pc
                        [] r = One    -> 1
                        [] r = NegOne -> 65535
                        [] OTHER      -> 0]

Banks == {"DEF", "IRQ"}

(* The screen NewVM makes is never larger than 120 by 65 characters.       *)
Width     == IF VgaWidth > 120 THEN 120 ELSE VgaWidth
Height    == IF VgaHeight > 65 THEN 65 ELSE VgaHeight
VgaCells  == 0 .. Width * Height - 1

(* The memory map of MEMR and MEMW: below 0x8000 the selected page of      *)
(* SRAM, above it the configuration registers.                             *)
VersionReg  == 32768               \* 0x8000
PageReg     == 34816               \* 0x8800
HandlerReg  == 36864               \* 0x9000
IrqEnReg    == 36865               \* 0x9001
InIrqReg    == 36866               \* 0x9002
DataLoReg   == 36880               \* 0x9010
DataHiReg   == 36881               \* 0x9011
EepromBase  == 53248               \* 0xD000, up to 0xD7FF
WidthReg    == 57341               \* 0xDFFD
HeightReg   == 57342               \* 0xDFFE
VgaMaxReg   == 57343               \* 0xDFFF
VgaBase     == 57344               \* 0xE000
BreakReg    == 65535               \* 0xFFFF

InSram(addr)   == addr < 32768
InEeprom(addr) == addr \in EepromBase .. EepromBase + 2047
InVga(addr)    == addr - VgaBase \in VgaCells

(* A cell of SRAM: four page bits above the address.                       *)
Cell(page, addr) == (page % 16) * 65536 + addr
Cells            == {c \in Nat : c <= 15 * 65536 + 32767}
SramAt(c)        == IF c \in DOMAIN sram THEN sram[c] ELSE 0

-----------------------------------------------------------------------------
(* Seeded bugs: an interrupt nested in the one being served; the last one  *)
(* left in the queue.                                                      *)
EnteringBug  == irqEn /\ irqQueue # <<>>
EnteringLate == irqEn /\ ~inIrq /\ Len(irqQueue) > 1

(* Entering the handler at the start of a Step: a fresh register file that *)
(* starts at the handler's address, SRAM page 0, the oldest payload.       *)
Entering == irqEn /\ ~inIrq /\ irqQueue # <<>>
Serving  == inIrq \/ Entering
Queue    == IF Entering THEN Tail(irqQueue) ELSE irqQueue
DataBuf  == IF Entering THEN Head(irqQueue) ELSE irqDataBuf
Files    == IF Entering THEN [reg EXCEPT !["IRQ"] = EmptyRegs(irqHandler)]
                        ELSE reg
Pages    == IF Entering THEN [sramPage EXCEPT !["IRQ"] = 0] ELSE sramPage

(* Arbitration: the register file and the page the instruction works on.   *)
Bank == IF Serving THEN "IRQ" ELSE "DEF"
Regs == Files[Bank]
PageBug == Pages["DEF"]     \* seeded bug: the handler is not arbitrated
Page == Pages[Bank]

(* Decoding: opcode in the low nibble, then three register numbers.        *)
Ins    == eeprom[Regs[PC] + 1]
Opcode == Ins % 16
From   == (Ins \div 16) % 16
To     == (Ins \div 256) % 16
Third  == (Ins \div 4096) % 16

Running     == ~halted /\ result # "panic"
Fetches(op) == Running /\ Regs[PC] < Len(eeprom) /\ Opcode = op

(* What every instruction does besides its own effect: the entry becomes   *)
(* permanent and the program counter of the running bank moves on.         *)
TakeIrq     == irqQueue' = Queue /\ irqDataBuf' = DataBuf
Advance(rs) == reg' = [Files EXCEPT ![Bank] = [rs EXCEPT ![PC] = Inc(@)]]

Finish(rs, res) == Advance(rs) /\ inIrq' = Serving /\ result' = res

(* A step that changes no more than registers.                             *)
RegStep(rs, res) ==
  /\ TakeIrq
  /\ sramPage' = Pages
  /\ Finish(rs, res)
  /\ UNCHANGED <<eeprom, sram, vga, halted, irqEn, irqHandler>>

(* Seeded bug: the refused write takes place all the same.                 *)
WriteToBug(v) ==
  RegStep([Regs EXCEPT ![To] = v], IF To \in Writeable THEN "ok" ELSE "error")

(* The result v of an instruction goes to register To, if it can be        *)
(* written; if not the Step reports an error.                              *)
WriteTo(v) ==
  \/ To \in Writeable /\ RegStep([Regs EXCEPT ![To] = v], "ok")
  \/ To \notin Writeable /\ RegStep(Regs, "error")

(* An index out of range: the Go program ends in a panic.                  *)
Panic ==
  /\ result' = "panic"
  /\ UNCHANGED <<eeprom, reg, sram, sramPage, vga, halted, irqEn, inIrq,
                 irqHandler, irqQueue, irqDataBuf>>

-----------------------------------------------------------------------------
Init ==
  /\ eeprom \in Programs
  /\ reg = [b \in Banks |-> EmptyRegs(0)]
  /\ sram = [c \in {} |-> 0]
  /\ sramPage = [b \in Banks |-> 0]
  /\ vga = [c \in VgaCells |-> 0]
  /\ halted = FALSE
  /\ irqEn = FALSE
  /\ inIrq = FALSE
  /\ irqHandler = 0
  /\ irqQueue = <<>>
  /\ irqDataBuf = [hi |-> 0, lo |-> 0]
  /\ result = "ok"

(* The program counter is not within the EEPROM.                           *)
OutOfRange ==
  /\ Running
  /\ Regs[PC] >= Len(eeprom)
  /\ TakeIrq
  /\ reg' = Files
  /\ inIrq' = Serving
  /\ sramPage' = Pages
  /\ result' = "error"
  /\ UNCHANGED <<eeprom, sram, vga, halted, irqEn, irqHandler>>

HALT ==
  /\ Fetches(0)
  /\ halted' = TRUE
  /\ TakeIrq
  /\ sramPage' = Pages
  /\ Finish(Regs, "ok")
  /\ UNCHANGED <<eeprom, sram, vga, irqEn, irqHandler>>

(* A move into PC is a jump: one less is written, for the increment that   *)
(* ends the Step.                                                          *)
Move == WriteTo(IF To = PC THEN Dec(Regs[From]) ELSE Regs[From])

MOV   == Fetches(1) /\ Move
MOVNZ == Fetches(2) /\ IF Regs[Third] # 0 THEN Move ELSE RegStep(Regs, "ok")
MOVEZ == Fetches(3) /\ IF Regs[Third] = 0 THEN Move ELSE RegStep(Regs, "ok")

BRK == Fetches(4) /\ RegStep(Regs, "brk")

(* What MEMR reads at addr, an address that is not beyond the EEPROM.      *)
Loaded(addr) ==
  CASE InSram(addr)      -> SramAt(Cell(Page, addr))
    [] addr = VersionReg -> 32769
    [] addr = PageReg    -> Page
    [] addr = HandlerReg -> irqHandler
    [] addr = IrqEnReg   -> Truth(irqEn)
    [] addr = InIrqReg   -> Truth(Serving)
    [] addr = DataLoReg  -> IF Serving THEN DataBuf.lo ELSE 0
    [] addr = DataHiReg  -> IF Serving THEN DataBuf.hi ELSE 0
    [] InEeprom(addr)    -> eeprom[addr - EepromBase + 1]
    [] addr = WidthReg   -> Width
    [] addr = HeightReg  -> Height
    [] addr = VgaMaxReg  -> (VgaBase + Width * Height - 1) % WordSize
    [] InVga(addr)       -> vga[addr - VgaBase]
    [] OTHER             -> 0

BeyondEeprom(addr) == InEeprom(addr) /\ addr - EepromBase >= Len(eeprom)

MEMR ==
  /\ Fetches(5)
  /\ IF To \in Writeable /\ BeyondEeprom(Regs[From])
     THEN Panic
     ELSE WriteTo(Loaded(Regs[From]))

(* SET takes the word that follows it; PC has moved onto that word even    *)
(* when the instruction is refused.                                        *)
SET ==
  LET operand == Inc(Regs[PC])
      rs      == [Regs EXCEPT ![PC] = operand]
  IN /\ Fetches(6)
     /\ IF To \notin Writeable \/ To = PC THEN RegStep(rs, "error")
        ELSE IF operand >= Len(eeprom) THEN Panic
        ELSE RegStep([rs EXCEPT ![To] = eeprom[operand + 1]], "ok")

(* MEMW: address in register From, data in register Third.                 *)
Stores == Fetches(7)
Addr   == Regs[From]
Data   == Regs[Third]

MEMW_Sram ==
  /\ Stores
  /\ InSram(Addr)
  /\ sram' = LET c == Cell(Page, Addr)
             IN [x \in DOMAIN sram \cup {c} |-> IF x = c THEN Data ELSE sram[x]]
  /\ TakeIrq
  /\ sramPage' = Pages
  /\ Finish(Regs, "ok")
  /\ UNCHANGED <<eeprom, vga, halted, irqEn, irqHandler>>

MEMW_Vga ==
  /\ Stores
  /\ InVga(Addr)
  /\ vga' = [vga EXCEPT ![Addr - VgaBase] = Data]
  /\ TakeIrq
  /\ sramPage' = Pages
  /\ Finish(Regs, "ok")
  /\ UNCHANGED <<eeprom, sram, halted, irqEn, irqHandler>>

MEMW_Handler ==
  /\ Stores
  /\ Addr = HandlerReg
  /\ irqHandler' = Data
  /\ TakeIrq
  /\ sramPage' = Pages
  /\ Finish(Regs, "ok")
  /\ UNCHANGED <<eeprom, sram, vga, halted, irqEn>>

(* Seeded bug: disabling interrupts leaves the queue as it is.             *)
MEMW_IrqEnBug ==
  /\ Stores
  /\ Addr = IrqEnReg
  /\ irqEn' = (Data # 0)
  /\ TakeIrq
  /\ sramPage' = Pages
  /\ Finish(Regs, "ok")
  /\ UNCHANGED <<eeprom, sram, vga, halted, irqHandler>>

(* Disabling interrupts also empties the queue.                            *)
MEMW_IrqEn ==
  /\ Stores
  /\ Addr = IrqEnReg
  /\ irqEn' = (Data # 0)
  /\ irqQueue' = IF Data = 0 THEN <<>> ELSE Queue
  /\ irqDataBuf' = DataBuf
  /\ sramPage' = Pages
  /\ Finish(Regs, "ok")
  /\ UNCHANGED <<eeprom, sram, vga, halted, irqHandler>>

(* Seeded bug: the decrement forgotten.                                    *)
MEMW_IrqExitSkips ==
  /\ Stores
  /\ Addr = InIrqReg
  /\ Data = 0
  /\ inIrq' = FALSE
  /\ reg' = [Files EXCEPT !["DEF"][PC] = Inc(@)]
  /\ TakeIrq
  /\ sramPage' = Pages
  /\ result' = "ok"
  /\ UNCHANGED <<eeprom, sram, vga, halted, irqEn, irqHandler>>

(* Leaving the handler: the arbitration changes within the instruction, so *)
(* the program's own PC is decremented and then incremented.  Outside a    *)
(* handler the same happens to the instruction's own PC.                   *)
MEMW_IrqExit ==
  /\ Stores
  /\ Addr = InIrqReg
  /\ Data = 0
  /\ inIrq' = FALSE
  /\ reg' = [Files EXCEPT !["DEF"][PC] = Inc(Dec(@))]
  /\ TakeIrq
  /\ sramPage' = Pages
  /\ result' = "ok"
  /\ UNCHANGED <<eeprom, sram, vga, halted, irqEn, irqHandler>>

MEMW_Page ==
  /\ Stores
  /\ Addr = PageReg
  /\ sramPage' = [Pages EXCEPT ![Bank] = Data]
  /\ TakeIrq
  /\ Finish(Regs, "ok")
  /\ UNCHANGED <<eeprom, sram, vga, halted, irqEn, irqHandler>>

(* All other addresses, and a refused exit, are ignored; 0xFFFF breaks.    *)
MEMW_Other ==
  /\ Stores
  /\ ~InSram(Addr) /\ ~InVga(Addr)
  /\ Addr \notin {HandlerReg, IrqEnReg, PageReg}
  /\ Addr = InIrqReg => Data # 0
  /\ RegStep(Regs, IF Addr = BreakReg THEN "brk" ELSE "ok")

AND == Fetches(8)  /\ WriteTo(BitAnd(Regs[From], Regs[Third]))
OR  == Fetches(9)  /\ WriteTo(BitOr(Regs[From], Regs[Third]))
XOR == Fetches(10) /\ WriteTo(BitXor(Regs[From], Regs[Third]))
ADD == Fetches(11) /\ WriteTo(Plus(Regs[From], Regs[Third]))
SHFT == Fetches(12) /\ WriteTo(Shift(Regs[From], Regs[Third]))
MUL == Fetches(13) /\ WriteTo(Times(Regs[From], Regs[Third]))
GT  == Fetches(14) /\ WriteTo(Truth(Signed(Regs[From]) > Signed(Regs[Third])))
EQ  == Fetches(15) /\ WriteTo(Truth(Regs[From] = Regs[Third]))

Step ==
  \/ OutOfRange \/ HALT \/ MOV \/ MOVNZ \/ MOVEZ \/ BRK \/ MEMR \/ SET
  \/ MEMW_Sram \/ MEMW_Vga \/ MEMW_Handler \/ MEMW_IrqEn \/ MEMW_IrqExit
  \/ MEMW_Page \/ MEMW_Other
  \/ AND \/ OR \/ XOR \/ ADD \/ SHFT \/ MUL \/ GT \/ EQ

(* Seeded bug: the length of the queue is not tested.                      *)
InjectIRQBug(data) ==
  /\ result # "panic"
  /\ irqEn
  /\ Len(irqQueue) <= IrqQueueCap
  /\ irqQueue' = Append(irqQueue, data)
  /\ UNCHANGED <<eeprom, reg, sram, sramPage, vga, halted, irqEn, inIrq,
                 irqHandler, irqDataBuf, result>>

(* An interrupt raised while disabled, or on a full queue, is discarded.   *)
InjectIRQ(data) ==
  /\ result # "panic"
  /\ irqEn
  /\ Len(irqQueue) < IrqQueueCap
  /\ irqQueue' = Append(irqQueue, data)
  /\ UNCHANGED <<eeprom, reg, sram, sramPage, vga, halted, irqEn, inIrq,
                 irqHandler, irqDataBuf, result>>

Next == Step \/ \E data \in IrqData : InjectIRQ(data)

Spec == Init /\ [][Next]_vars

(* The run loop (vmrun.go) calls Step again and again, until one fails.    *)
FairSpec == Spec /\ WF_vars(result # "error" /\ Step)

-----------------------------------------------------------------------------
(* Type invariant.  SRAM and the configuration hold words, a register file *)
(* sixteen of them, and the queue never exceeds its channel.               *)
TypeOK ==
  /\ eeprom \in Seq(Word)
  /\ reg \in [Banks -> [Register -> Word]]
  /\ DOMAIN sram \subseteq Cells
  /\ \A c \in DOMAIN sram : sram[c] \in Word
  /\ sramPage \in [Banks -> Word]
  /\ vga \in [VgaCells -> Word]
  /\ halted \in BOOLEAN
  /\ irqEn \in BOOLEAN
  /\ inIrq \in BOOLEAN
  /\ irqHandler \in Word
  /\ irqQueue \in Seq([hi : Word, lo : Word])
  /\ Len(irqQueue) <= IrqQueueCap
  /\ irqDataBuf \in [hi : Word, lo : Word]
  /\ result \in {"ok", "brk", "error", "panic"}

(* The registers 0, 1 and -1 that all compiled code relies on keep their   *)
(* values in both register files, whatever is executed (checked by every   *)
(* instruction on its own in vm.go, with the Writeable flag).              *)
ConstRegs ==
  \A b \in Banks : /\ reg[b][Zero] = 0
                   /\ reg[b][One] = 1
                   /\ reg[b][NegOne] = 65535
                   /\ reg[b][BUS] = 0

(* No interrupt survives a disable: while interrupts are off the queue is  *)
(* empty, so that enabling them again never delivers an old key.           *)
NoStaleIrq == ~irqEn => irqQueue = <<>>

(* The interrupted program cannot tell: no step taken on behalf of a       *)
(* handler, the entering and the leaving step included, changes the        *)
(* program's registers, its PC or its SRAM page.                           *)
IrqTransparent ==
  [][Serving => /\ reg'["DEF"] = reg["DEF"]
                /\ sramPage'["DEF"] = sramPage["DEF"]]_vars

(* Pages protect: a step only ever changes SRAM in the page the running    *)
(* bank has selected, so code that selects a page of its own cannot reach  *)
(* the memory of the others.                                               *)
PageIsolation ==
  [][\A c \in DOMAIN sram' :
        sram'[c] # SramAt(c) =>
          c \div 65536 = CASE inIrq    -> sramPage["IRQ"] % 16
                           [] Entering -> 0
                           [] OTHER    -> sramPage["DEF"] % 16]_vars

(* A refused instruction has no effect but on the program counter.         *)
RefusedIsInert ==
  [][result' = "error" =>
       /\ UNCHANGED <<sram, vga, halted, irqEn, irqHandler>>
       /\ \A b \in Banks : \A r \in Register \ {PC} :
             reg'[b][r] \in {reg[b][r], Files[b][r]}]_vars

(* The interrupt logic spread over Step, MEMW and InjectIRQ implements the *)
(* interrupt line.                                                         *)
Line == INSTANCE IrqLine WITH
          Payload <- IrqData, Idle <- [hi |-> 0, lo |-> 0],
          Cap <- IrqQueueCap, enabled <- irqEn, serving <- inIrq,
          waiting <- irqQueue, current <- irqDataBuf

LineSpec == Line!Spec

(* No interrupt is forgotten: one that waits comes into service, unless    *)
(* the program disables interrupts, stops or fails.  This needs a handler  *)
(* that returns, unless it stops the machine.                              *)
Delivery ==
  \A data \in IrqData :
     (\E i \in 1 .. Len(irqQueue) : irqQueue[i] = data)
        ~> (irqDataBuf = data \/ ~irqEn \/ halted \/ result = "error")

=============================================================================
