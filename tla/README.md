# A TLA+ model of the MCPC software

This directory specifies and verifies parts of the MCPC toolchain: the virtual
machine of the 16 bit MCPC processor, the way of a key from the terminal to the
program it runs, the console of its boot loader, the M-Script compiler with its
register allocator, the assembler, and the hardware debugger with the device at
the other end of its line. The modules are checked with TLC on small instances;
their main invariants are proved with TLAPS for every value of the constants.

Every definition is translated from the source. `PROJECT.json` names, for each
one, the file and lines it stands for ("map"), the runs, what a plausible bug in
the code would do to them ("mutants"), and the hazards the properties are for.

## The system

| part | state | operations | interacts with |
|---|---|---|---|
| `interpreter/vm.go` the machine | two register files, paged SRAM, screen buffer, interrupt queue, flags | `Step`, `InjectIRQ` | the event loop calls both; programs use the memory map |
| `interpreter/vmrun.go` event loop | `cpuIrqChan` (256), `closeChan` (1) | a goroutine turns keys into interrupts; the loop drains them into the machine and steps it | vm.go, the terminal |
| `interpreter/hardware.go`, `debugger.go` | serial port, a VM in lockstep | register access, step, ROM dump with checksum | a device that answers, or whose answer is lost or changed |
| `mcpc-bootloader/asm.ma`, `keyboard.mscr`, `entry.mscr` | cells 0..0xFF of page 1, two pointers, shift state | interrupt handler appends; input loop takes | the interrupt line |
| `mcpc-bootloader/memalloc.mscr`, `vga.mscr`, `shell.mscr`, `strings.mscr`, `expr.mscr`, `interpreter.mscr` | heap headers, cursor, screen | malloc, realloc, print, scroll, parse | page 2 of SRAM, the screen |
| `mscr/compiler/asm_resolver.go`, `asm_generators.go` | which register holds which variable, which are dirty, which variables are always in memory | resolve one meta-assembly command | transformer (before), assembler (after) |
| `mscr/compiler/asm_transformer.go`, `asm_helpers.go`, `asm_calc_resolver.go` | variable and function tables, frames | meta-assembly for calls, branches, loops, expressions | resolver |
| `mscr/compiler/asm_optimizer.go` | a list of commands | rewrite passes | resolver output |
| `assembler/assembler.go`, `assembler-libs/` | tokens, label map | macro expansion to a fixed point, labels, encoding | compiler output, vm.go's decoder |
| `autotest/autotest.go` | none | compile, assemble, run, compare | all of the above |
| `mcpc.go`, `ast.go`, `parser.go`, `compiler_main.go` | none | command line, grammar, files | - |

What is hard in it:

* **Interleaving.** An interrupt comes between any two instructions of a program
  that shares page 1 of SRAM with the handler. The event goroutine and the run
  loop share two bounded channels.
* **Bounded resources.** The machine's queue and the handler's FIFO discard
  what does not fit; neither tells anyone.
* **Stale state.** The register allocator's books describe what memory and
  registers *will* hold; a wrong dirty mark shows up many commands later, as a
  lost value, a wrong read or a panic of the compiler.
* **Numeric edges.** 16 bit wrap-around, a FIFO without wrap, frame offsets,
  label addresses.
* **Unreliable delivery.** The debugger's serial line may lose or change a byte,
  and a read of it has no timeout.
* **Passes over data that changes under them.** Macros are expanded in the very
  tokens that are walked over; an optimizer pass looks at its input after it has
  changed the output.

What makes each part correct:

* machine: the interrupted program cannot tell that it was interrupted; no
  interrupt is nested, duplicated, reordered or delivered after a disable;
  pages isolate; a refused instruction has no effect;
* FIFO: keys are taken once, in order, none invented, none lost, as long as no reset
  comes between the two loads of the pointers;
* key path: the program reads the strokes that were typed, with their shift; a
  loss somewhere on the way is not felt for ever; Ctrl-C always ends the program;
* console: the screen shows the line that the shell will get, and nothing else
  behind it;
* allocator: a use of a variable sees the value last given to it; memory is
  current where someone else will look; no register has two owners; no panic;
* compiler: the code does what the source says, optimized or not; a call leaves
  its caller's frame and stack alone;
* assembler: the words are those of the lines, decoded by the machine as they were
  written; a label is the address of its line; expansion ends;
* hardware debugger: question and answer stay in step; the program attached is
  the ROM; as long as the program stays in what was kept of it, VM and device stay
  in lockstep, and a difference is reported if and only if there is a cause for it.

## Modules

| module | models | extends |
|---|---|---|
| `Word16` | 16 bit words and the ALU's eight results | |
| `McpcVM` | the machine | `Word16` |
| `IrqLine` | what the interrupt line promises (abstract) | |
| `KeyFifo` | keyboard FIFO: handler and reader | |
| `KeyPath` | event goroutine, channels, run loop, make and break decoder | instances of `IrqLine`, `KeyFifo` |
| `Console` | the firmware's line editor and screen functions | |
| `RegAlloc` | register allocator and the code it emits | |
| `Operators` | the operators of M-Script, their commands and what the commands' macros compute | `Word16` |
| `MScript` | expressions, functions, branches, loops and the optimizer, and the machine code they become | `Operators` |
| `Assembler` | `Compile`: tokens, expansion, labels, offset, encoding | |
| `HwDebugger` | the debugger's host side, the serial line and the device | |
| `MCMcpcVM`, `MCKeyFifo`, `MCKeyPath`, `MCConsole`, `MCRegAlloc`, `MCMScript`, `MCAssembler`, `MCHwDebugger` | instances for TLC | the above |
| `McpcVMProofs`, `KeyFifoProofs`, `KeyPathProofs`, `ConsoleProofs`, `RegAllocProofs`, `HwDebuggerProofs`, `AssemblerProofs`, `OperatorsProofs` | theorems | the above |

### McpcVM

One action per opcode, and one per kind of memory-mapped write
(`MEMW_Sram`, `MEMW_Vga`, `MEMW_Handler`, `MEMW_IrqEn`, `MEMW_IrqExit`,
`MEMW_Page`, `MEMW_Other`). `VM.Step` may enter the interrupt handler before it
executes an instruction, in the same call; so every action is written over the
state after that entry (`Serving`, `Files`, `Pages`, `Queue`, `DataBuf`).
`result` is how the last `Step` ended: an error leaves the machine as the code
leaves it (it can be stepped again), "panic" is a Go panic (an EEPROM read
beyond the program, a `SET` without operand) and ends the behaviour. `sram` is
the set of cells written so far, since all others hold 0. Step and InjectIRQ
are called from one goroutine only, so both are atomic. Tracing is left out.

`IrqLine` is the promise: raised while enabled and not full, an interrupt waits
its turn; a cycle that starts with one due takes the oldest; disabling forgets
what waits. `LineSpec` says that `McpcVM` implements it: the queue, the two
flags and the data buffer map to `waiting`, `enabled`, `serving`, `current`.
This is not a rewording of the code: there the logic is spread over the entry,
two register writes in the middle of `MEMW` and `InjectIRQ`.

### KeyFifo

The handler runs to its end before the program executes again and leaves the
program's registers alone: `McpcVM` shows that (`IrqTransparent`), and here it
is one atomic step `AppendToFifo`. The reader is interrupted between any two
instructions: each of its four accesses to page 1 is a step (`LoadRd`,
`LoadWr`, `LoadKey`, `StoreRd`) with registers A, B, C in between. `pc` is where
it is. Instructions that touch registers only commute with the handler and are
joined with the access next to them. A key is a number; what the firmware then
makes of make and break codes is not in this module. A read above SRAM returns
what the memory map gives there (`ConfigWords`).

`torn` is a history variable: it becomes true when the reader goes on with a
read pointer that a reset has made invalid. `Conservation` holds without
reservation as long as that has not happened - so this is the only way to lose
or invent a key once it is in the FIFO - and the run `fifo_torn` shows that it
does happen. Its shortest behaviour loses a key: the reader has loaded the old read pointer
1, the handler resets and appends two keys at 0 and 1, the reader loads the new write
pointer 2 and takes the key at 1; the one at 0 is never read.

### KeyPath

This module composes the others into the way of a key: terminal event, codes of
the stroke, `cpuIrqChan`, the machine's queue, the handler, the FIFO, the reader,
the decoder. The goroutine of `VMRun` is `Type` (`PollEvent` returns) and `Send`
(one send to a channel, which blocks while the channel is full); the loop of
`VMRun` is `Inject`, `InjectDone` and `Step`. The machine is used through
`IrqLine`, which `McpcVM` implements, and its program through the actions of
`KeyFifo`; a `Step` is `Boot` (the reset of the pointers and the enabling of
interrupts), `TakeIrq`, `HandlerEnd` or `Program`. `Decode` is the second half of
`kb_getKeyPressed` and is joined with `StoreRd`, the last instruction of the
first half, because it touches registers and variables of the program only.

`lostAt` is a history variable that remembers when a code was last dropped: by
`InjectIRQ` (line disabled or queue full) or by the handler (FIFO at its limit).
The right reading of every stroke is claimed up to the first loss (`AsTyped`),
and recovery after any (`Recovers`). Left out: `EventInterrupt` and
`EventError` of the terminal, which the code does not provoke; the second shift
key (0x59), which the host never sends; instructions of the program that touch
neither the FIFO nor the decoder.

### Console

A console is a record of the cursor and the cells, and every function of
`vga.mscr` is an operator on it. `PrintChar` wraps and scrolls, `OffsetLineCursor`
moves the cursor with its two loops (`TurnsUp`, `TurnsDown`; the comparisons of
the machine are signed, so that a cursor left of the screen is negative and the
first loop brings it to the line above). A step of the module is one turn of the
input loop of `main` - without a key, with a character, with backspace, with
enter - or one character printed by the shell, the welcome text or the prompt.
The buffer on the heap is `buf`. The cursor mark is a symbol of its own; in the
code it is a `_`, which can be typed too.

The line that is typed and the cells that show it are related by nothing but the
arithmetic of the cursor: that they agree is `LineShown`. The assumption that
prompt and longest input fit the screen with one line to spare is necessary:
with one character more, TLC finds a deletion that moves the cursor off the top.
Prompt and input have 7 + 256 characters. That fits the 98 by 35 screen of the
debugger and the autotest; `VMRun` makes the screen from the size of the
terminal, and neither it nor the firmware checks that it is large enough.

### RegAlloc

The compiler resolves the commands of a function one after the other. An action
is one command: what it does to the allocator's books (`assignment`, `dirty`,
`marks`) *and* what the code emitted for it does when it runs (`regs`, `heap`),
beside what the source program means (`store`). At every join of control flow
the transformer flushes and clears, so that a path through the program is the
sequence of the commands along it; branches need no model of their own.

`ReadFound`/`ReadLoaded` and `WriteFound`/`WriteLoaded` are the two ways the
parameter loop of `resolve` takes (`Found`: the variable is in a register and
may be looked for there). `Pick` is the choice of a register: the last clean
one, else one that depends on the variable's place in its frame. `InternalError`
is the panic of `evictRegister`. `ForceKept`, `ForceMoved`, `ForceSwapped`,
`ForceLoaded` are the four cases of `__FORCESCOPE`, which `_reg_assign` emits,
and `Asm` an `_asm` block that then uses that register. `SetDirect`,
`ReadThrough`, `WriteThrough` are pointers; `Call` runs a function that leaves
junk in the registers and may write what it has a pointer to; `Return` ends the
function with `__FLUSHGLOBALS`.

Abstractions: a command has one variable parameter (`autoCalcBracket` turns
everything else into a calc, which puts its operands on the stack one by one);
`_reg_assign` names one of the registers A..D; Go's map iteration is a
choice over at most one owner (`OneOwner`). `__ASSUMESCOPE` and `__EVICT` are
documented but never emitted.

`unsafe` is a history variable: it becomes true at a command the books cannot
follow. There are six of them, each written at the action where it bites, and
each is necessary: without it TLC finds a wrong read. They are

1. `__SET_DIRECT` on a variable whose register is dirty (`SetDirect`);
2. `__FORCESCOPE` on a variable marked direct (all four `Force` actions);
3. a swap that leaves the other variable in a register not marked dirty,
   though it was dirty (`ForceSwapped`);
4. a swap that gives a direct variable a dirty register (`ForceSwapped`);
5. a pointer read of a variable whose mark was dropped and which is dirty in a
   register (`ReadThrough`);
6. a pointer write to a variable whose mark was dropped and which is in a
   register (`WriteThrough`).

The properties say: *only* these go wrong. The run `alloc_flush` shows that 3
occurs in an ordinary program.

### MScript

The compiler from the parsed program to assembly, and the assembly running.
`Calc` is `resolveCalcInternal`: the reverse polish form of an expression
(`Shunted`) becomes stack code over F and E, with the check that it comes out even
and the shortcut at its end. `Statement`, `Conditional`, `While`, `Prologue` and
`Function` are the cases of `asmForNodePre` and `asmForNodePost`;
`optimizePushPop`, `optimizeMov` and `optimizeDoubleMov` the passes, chosen by
`optimize`. The behaviour is that of the code: one action per command of the
library (`PushValue`, `PopValue`, `Call`, `Return`, ...), over the registers,
the stack and the frames below H. The initial state also holds what the program
means (`Meaning`, an evaluator of the source tree), and `calls` is a history
variable: what the stack, the frame pointer and the memory were at each call.

A variable is read and written in memory: `RegAlloc` is about keeping it in
a register, and the two share no state but the commands (`__FLUSHSCOPE` and the
like) that the transformer emits for the allocator, which do nothing here. They are
dropped before the optimizer runs; in the code `resolveMetaAsm` has by then turned them into
loads and stores, so that here a pass finds more pairs to rewrite than there, and
other ones.
The tree of an expression is given; its text is turned into
reverse polish form by an external script, which `Shunted` stands for.
`Operators` holds what does not depend on the program: which command
`symbolToALUFuncName` names for an operator, what the command's macro in `base.mlib`
computes from the instructions of the machine (`Alu`), and what the operator
means (`BinOp`, `UnOp`). A shift
is by 0 to 255: the sign of a distance is its upper byte. `Return` is the two
increments of `RET` behind the pushed address. Memory outside `0 .. Top` reads
as `Garbage`; no checked program reaches it.

### Assembler

A file is a sequence of lines; `phase` is the step of `Compile`. Expansion is an
action per token (`Expand`, `Keep`) and its loops are `NextLib` and `Round`, since
tokens are replaced while they are walked over; `parseLabels`,
`replaceLabels`, `prependOffset` and `encode` are one action each. A line has
a label or none, and a body; what its text looks like is left out, apart from
where it decides what a line is: a number is recognised only without a label
before it. `Words`, `Start` and `Address` say, from the lines alone, which words
a program should have and where: `Unfold` replaces all macros of a text at once,
and `Words` is what `Depth` rounds of it make of the lines. `Compile` has no such
order; it replaces one token after the other, one library after the other, and
looks at what it put in when it comes round again. `Decodes` takes the fields of a
word apart as `VM.Step` does.

What a file and a library may be is stated as assumptions. `FilesOK` and `LibsOK`:
lines have the shape described above, a line of a macro has no label, a macro is
not empty, in one library only, and gets the operands it puts in. That is so for
the three libraries of the repository, which share no name; a line with too few
operands does not match the regular expression of the macro and is, here as there,
an unknown command. `WordsOK`: `Depth` rounds leave no macro (macros
that need each other in a circle are expanded for ever), the instructions that are left
have registers where the code calls `ParseRegister` (it ends the program on
anything else), and there are at most 65536 words.

### HwDebugger

Three parties. The host: each function of `hardware.go` is a script of commands
of one byte (`setRegister`, `getMCPCReg`, ...), sent by `Write` and answered
through `waitForResponse`, `ReadRegister`, `ReadRomWord`, `ReadChecksum`,
`ReadRegDump`; `phase` is where `Interpret` is: reset, sanity checks, ROM dump,
trimming (`Trim`), ready, and the loop of `step`, `run` and `runfor` (`Enter`,
`StepVM`, `Compare`, `RunEnds`). A read takes what has arrived, at least one byte,
as the serial port does; where the code insists on more it exits. The device
answers as the host relies on, and in lockstep may at any step do something the VM
would not (`deviates`). The line may change bytes, one between two commands, and
may lose one (`Change`, `Lose`). The device and the line are no code of this
repository. Debugging from a file, errors of the port itself and the text user
interface are left out.

A processor is its program counter, whether it is halted, and all the rest (registers,
memory, page, interrupt flags: `Rest`). Four instructions are told apart by their opcodes,
because they concern the debugger: HALT; BUS, which is a break to the VM; SET, which takes
the next word of the program, so that a literal may look like an instruction; MEMR, which may
read a word of the EEPROM (`EepromAt`). Any other may put any value into the program
counter (`NextPC`), as MOV, MOVNZ, MOVEZ and the ALU instructions may, and change the rest
in any way (`NewRest`); so may MEMR with the word it reads. These operators are
parameters: the theorems hold for every choice of them, and the run takes a small
instruction set with jumps, a conditional jump and pointers. An instruction that may not write its
register (`Refused`) is skipped, with an error, in VM and device.

The VM runs from the trimmed image, the device from the whole ROM. `Astray` is
when the program counter is behind the image: there the VM reports an error and stands
still, the device finds HALT and goes on. A jump is all it takes, and a wrong difference
is reported then; `Lockstep` and `AlarmRight` are claimed up to there. Where the program
stays inside but reads a word cut off, the debugger dies (`StepPanics`,
`DisplayPanics`, `cause = "panic"`): in `VM.Step` itself, in the message about an error of a run, which
shows the word before the program counter, or in the disassembly, which is shown after every `step` and
every run and looks up what each MEMR in the image would read with the present registers.

## Runs

| run | bounds | result |
|---|---|---|
| `vm` | 39 programs of a main block and a handler block with a queue of 2 and 2 payloads; every opcode and register pattern on operands at the borders of the memory map | `TypeOK`, `ConstRegs`, `NoStaleIrq`, `IrqTransparent`, `PageIsolation`, `RefusedIsInert`, `LineSpec`, `Delivery` hold |
| `fifo` | FIFO limit 3, 2 keys, 5 keys accepted | `TypeOK`, `Conservation`, `KeysArrive` hold |
| `keys` | 1 key, unknown key, Ctrl-C; 2 events; channel 1, queue 1, FIFO limit 3; no torn read | `TypeOK`, `AsTyped`, `Recovers` hold |
| `keys_live` | as `keys`, 1 event, torn reads too | `StrokesArrive`, `Quits` hold |
| `console` | 3 by 3 screen, prompt of 1, input of 5, 1 character | `TypeOK`, `LineShown`, `NothingBehind` hold |
| `alloc` | 2 locals, 1 global, 2 registers, 2 values | five invariants hold |
| `mscript` | every operator on 5 edge words, 156 expressions of nested subtractions and calls, 7 programs with recursion, loops, pointers and structs; with and without optimizer | `TypeOK`, `ResultRight`, `CallsReturn`, `Ends` hold |
| `asm` | every instruction; every file of 2 of 10 lines and of 3 of 6; 7 macros in 2 libraries; offsets 0, 2, 4 with and without auto-jump | `TypeOK`, `WordsRight`, `LabelsRight`, `StartsRight`, `Terminates` hold |
| `hw` | bytes of 3 bits, 12 ROMs of 5 words, a device found in 4 states, dumps of 2 registers, 1 changed and 1 lost byte, runs of up to 3 steps | `TypeOK`, `InStep`, `ImageRight`, `SanityRight`, `Lockstep`, `AlarmRight`, `Responds` hold, `Lockstep` and `AlarmRight` as long as the program is not astray |
| `fifo_torn` | as `fifo` | `InputFifo` violated: pointers torn apart by a reset skip a key, which is lost |
| `alloc_flush` | no pointers | `FlushSavesScope` violated: swapped dirty marks lose a value |
| `mscript_struct` | a struct of two words behind two parameters, or as the only variable | `FrameHolds` violated: its words lie outside the frame or over other variables |

Why the bounds are enough. `vm`: a queue of two is empty, partly full and
full; the blocks pair every interrupt-related write in main with every one in
the handler (page changes on both sides, disable inside and outside, refused
instructions in both, early exits, a handler that halts, jumps out of the EEPROM
or leaves twice). For single instructions there is an operand
on each side of every border of the memory map, and constants, PC and a plain
register as targets. `fifo`: a limit of 3
lets the pointers meet, reset and reach the limit, and 5 accepted keys allow two
resets and a full FIFO; key codes differ from pointer values, so that one taken
for the other shows. `keys`: a shifted stroke has six codes, so that channel, queue and FIFO all fill
up within one stroke (the bound on what the FIFO accepts, twelve, is that of two such
strokes and never holds the handler up) and every code of it is dropped in some behaviour; the
second event shows what a loss in the first does to the next. The constraint
`NotTorn` cuts off the reads with an old pointer, which `fifo_torn` is about; no
liveness is checked under it. `console`: the prompt and the longest input fill two
of the three lines exactly; a line wraps twice, the screen scrolls while a line is
typed and while the mark is shown in the last cell. `alloc`: two registers for three variables make eviction
happen at once (the code has four; the theorems hold for any number); two
values tell a stale one from a current one. `mscript`: subtraction does not
commute and does not associate, so that operands in the wrong order show in
every shape of an expression of depth two; recursion runs with operands waiting
on the stack, and memory starts as a value no program computes. `asm`: in three
lines a macro stands before, behind and between two labels and their uses; CALL
needs three rounds over two libraries, and `Depth` 2 leaves no macro. `hw`: programs that end, loop,
break, jump inside what was kept of them and behind it, take a target of a jump from the ROM,
read a word kept and one cut off, are refused a register, run into a literal; a ROM
that cannot be shown and one that holds nothing; and images of which one zero, several or
none were cut off. Every kind of panic, an alarm without a cause astray, and a device that
deviates while the line is noisy are reached. Bytes of three bits
make a changed byte, a wrong checksum and one that is right by chance; one
loss falls anywhere, before, within and behind every exchange. CHECK_DEADLOCK is off where
the system stops: a halted machine, a function that returned, a panic, a
finished compilation, a host that has exited or waits for a lost byte.

Fairness. `vm` (`Delivery`): the run loop calls `Step` for ever until one fails
(`log.Fatal`), so `WF(result # "error" /\ Step)`. Nothing is assumed of
interrupts. `fifo` (`KeysArrive`): the input loop of `main` calls `kb_getKeyPressed` for
ever, so `WF(GetKeyPressed)`; the handler is not fair. `keys_live`:
`WF(Send)`, since the goroutine is runnable whenever its channel has room, and
`WF(Loop)`, since the loop of `VMRun` never waits; nothing makes a user type. `hw`
(`Responds`): the host's program goes on whenever it does not wait for a byte,
and the device answers, so `WF(Host)` and `WF(Device)`; the user's commands and the
faults of the line are not fair. `asm` and `mscript` (`Terminates`, `Ends`): one
sequential program, so `WF(Next)`.

## Proofs

TLAPS proves, for any program, queue, screen, FIFO length, set of variables and
number of registers, and for any file and libraries:

* `McpcVMProofs`: `TypeCorrect`, `ConstantRegisters`, `NoStaleInterrupt` from the
  inductive invariant `TypeOK /\ ConstRegs /\ NoStaleIrq`; `Transparency` (the
  action property: one step at a time, with the type invariant for the
  decrement-increment of the program's PC at the exit, `Inc(Dec(pc)) = pc`);
  `PagesIsolated` (only one action writes SRAM, and the address never carries into
  the page bits of the cell it writes); `RefusedInert` (an error is reported only
  where the target register or the program counter was refused, and what is left of
  the step is the entry and the program counter);
  and `ImplementsLine`, the refinement of `IrqLine`, one abstract step per
  action. Every ALU result is a word.
* `KeyFifoProofs`: `ConservedUnlessTorn` from `TypeOK /\ Conservation /\ ReaderView`:
  `Conservation` is not inductive, since what the reader will store depends on
  its registers. `ReaderView` says what they hold at each point of its program
  as long as nothing is torn. As the name says, the theorem has the reservation of the
  property: with a torn read, keys are lost.
* `KeyPathProofs`: `TypeCorrect`; `ImplementsFifo`, that the program as it is
  interrupted by this machine implements `KeyFifo` (every step is one of its steps
  or a stutter; the one invariant needed is that only payloads of known and
  unknown keys wait on the line); and `CodesConserved`, which takes the
  conservation of codes over from `KeyFifoProofs` by that refinement. On top of
  that `StrokesAsTyped` and `LossForgotten`, for any keys and any sizes of channel,
  queue and FIFO. Their inductive invariant `WayInv` reads the whole way at once: what is
  still to be sent, the channel, the queue, the interrupt in service and the keys in
  the FIFO, one after the other (`Way`). It says that there is a sequence of tags, one for each
  code under way and one for the code last read, that tell of which event it is
  which code; that the tags follow each other without a gap from the first event
  after the last loss to the end of the last event (`InOrder`, `UpToDate`); and
  what the decoder holds after the code last read (`Decoded`): a broken key is awaited exactly after
  a break code, shift is right as soon as nothing was lost or a shifted stroke has come through, and
  as many strokes are read as have shown their key. An action moves a code from one
  place to the next (`Same`: the way and the tags stay), drops one (`Cut`: a
  tag goes too, and the order begins anew) or delivers the first one. `DecodedNext` is
  the step of the decoder.
* `ConsoleProofs`: `TypeCorrect`, `ShowsTheLine` and `LeavesNothingBehind`, for a
  screen of any size. Each screen function is described by its effect on the
  cells in linear order: write one, move the cursor, shift all by a line or not,
  the latter only from the last cell. The inductive invariant adds that the
  cursor is at least as far from the first cell as the input is long (else a
  deletion would leave the screen) and that no new line is printed over a mark.
* `RegAllocProofs`: `ReadsAreRight`, `MemoryIsCurrent`, `OwnersUnique` and
  `NoPanic`. `ReadsRight` speaks of the next
  read only; the strengthening `Books` says what the books mean as long as the
  program is safe: a dirty register has an owner, a direct variable's register
  is never dirty, the register of a variable that can be found holds its value,
  memory holds the value of all whose register is not dirty, a flush leaves
  nothing dirty, and a bound variable is in a dirty register. One lemma per
  action; `LastRegister` (a finite set of registers has a last one) is
  by well-foundedness of the naturals.

* `HwDebuggerProofs`: `TypeCorrect` and `QuestionsAnswered`, for any ROM size,
  dump, byte width and number of faults. `InStep` alone is not inductive: while
  the host waits, the invariant `Turn` says that either its command alone is under
  way, or what was read, what is on the line and what the device has still to send
  make up the answer exactly, and fall short of it if a byte was lost. So an answer
  that was taken completely leaves nothing behind. `Scripted` says which commands
  can be left in which phase, and how much of a ROM dump has been read.
  `SanityChecks`, `ImageIsRom`, `StaysTogether` and
  `AlarmsJustified` are proved on top of that, for any ROM, any dump with register 0 in it and
  any line. The inductive invariant `LInv` has five parts.
  `AttachInv` follows host and device command by command: what is left to send is
  the end of the phase's script (`ScriptLeft`), so the number of commands the device
  has still to get (`Left`) says which debug register is selected, what it holds,
  that the reset is done, and which byte of a value is on its way.
  `DumpInv`: the device's checksum is that of the bytes sent; as long as none was lost
  at most one byte that has arrived is wrong (`OnlyWrong`); and the host's checksum
  is right exactly if all it has read is right. The step for a word is `WordSum`:
  an exclusive or that can be undone tells one wrong byte. So a dump with a wrong byte
  meets the right checksum and is read again, and one whose checksum is wrong too
  cannot be. `Sums`, the checksums over the dump, is a recursive
  function; that it exists is an induction over its length (`RecursionExists`).
  `ImageInv`: the copy is the ROM, and trimming takes off zeros only.
  `LockInv`: until the program goes astray, VM and device are in the same state, or
  the VM is ahead by the one step the device has still to take. The argument is `StepSame`: a step that
  starts inside the image and does not panic reads the same words there as in
  the ROM, its instruction and the word it takes or looks up, and so does the same
  whatever the instruction is. It needs `ImageRight`, and it needs that the debugger dies on a
  read of a word cut off.
  `AlarmInv`: an undisturbed register dump holds the device's registers, on
  the line and read.

* `AssemblerProofs`: `TypeCorrect`, `WordsCorrect`, `LabelsCorrect` and
  `StartsCorrect`, for any files, libraries, depth and offsets. Three of the four
  properties speak of the end only; the inductive invariant (`AssemblerInv`) has to say
  what stays the same while tokens are replaced in an order nobody planned. That is the
  final text, what all macros together will become (`Final`): rounds of
  replacement distribute over concatenation (`RoundsConcat`), and a round
  more does not change a text without macros, so putting the replacement in for one
  token changes neither the final text of the tokens (`FinalReplaced`) nor how many
  words come before any label (`Placed`, `ReplacedToks`). `Scanned` says what the
  round has passed without a replacement, so that the loops end only when no macro is
  left. Then the place of a token is its index, the last token with a label is at the
  start of the last line that bears it (`StartsGrow`, `AddressIs`), and `parseLabels`
  finds the addresses (`Mapped`); `Linked` and `Written` carry them through
  `replaceLabels`, `prependOffset` and `encode`. `TokensAll` shows what `tokenize`
  makes of a file, line by line: its commands in order, and each label at the command
  that follows it. `CommandEncoded` shows for each instruction that its four digits
  decode to it. Recursive functions and `FlattenSeq` are described by induction on a
  number (`Induction`, `RecursionExists`, `JoinExists`).

* `OperatorsProofs`: `OperatorsAgree`, for all words. The machine has neither a
  subtraction nor a negation, only the comparisons GT and EQ, and one instruction
  for both directions of a shift; `base.mlib` makes the rest of them out of XOR, ADD
  and OR. The proof goes through the bits: a word is put together from its bits
  (`FromBitsBits`), XOR with all ones is the complement (`NotIs`), so an increment
  behind it negates, and OR with 0xFF00 puts the sign on a distance (`HighByte`). The
  hypothesis on shifts is that the distance is at most 255. AND, OR, XOR, MUL, ADD and
  EQ are the machine's own instructions and agree by definition.

The assumptions are the named `ASSUME`s of the modules: sets of the right type,
at least one register, a queue of at least one entry, the pointers inside SRAM,
effects of instructions that stay within words and the rest of the processor
(`ProcessorAssumption`), an exclusive or that can be undone and whose operands may be swapped, a limit for
the appended HALT that is not above the ROM's size (1024 of 2048), a
register dump with register 0 in it (the code dumps all 16), where a deviating device
shows, and those on files and libraries described under Assembler.
TLC evaluates them in every run.

Model-checked only: the properties of `MScript`, that is `TypeOK`, `ResultRight` and
`CallsReturn` (expressions are trees of any depth; its compiler and the evaluator it
is checked against are RECURSIVE operators over them, and that the two agree is an
induction over the tree; what is proved is that each operator is right), and liveness under fairness, which is out of the prover's reach: `Delivery`, `KeysArrive`, `StrokesArrive`, `Quits`,
`Responds`, `Terminates`, `Ends`.

## Findings

See "findings" in `PROJECT.json`; each has a run that shows it.

* `keyboard.mscr:26`: the reader loads two pointers with interrupts on; a reset
  between the loads tears them apart, and a key is skipped and lost, or keys come back
  (`fifo_torn`).
* `asm_resolver.go:183`: a swap of two registers by `__FORCESCOPE` does not swap
  their dirty marks (`alloc_flush`).
* `asm_helpers.go:71`: the words of a struct overlap other variables or lie
  outside the frame, unless it comes behind words that are one more than a
  multiple of its size (`mscript_struct`).

Seen while modelling, without a run of their own:

* `asm.ma:48`: at its limit the FIFO refuses keys for ever, even when all of it
  has been read, since the test for overflow comes before the reset.
* `asm_resolver.go:49`: `__SET_DIRECT` writes a register back but leaves it dirty;
  a later eviction then panics. `asm_resolver.go:22`: `__CLEARSCOPE` drops the
  marks of variables whose address is known (conditions 1, 5 and 6 above).
* `assembler.go:144`: label addresses do not include the offset, though
  `assembler.go:21` asks to be careful with it; a program with an offset is
  meant to be moved to 0 when it is loaded.
* `assembler.go:275`: a program that ends in a literal 0 gets no HALT.
* `assembler.go:555`: a number behind a label is an unknown command.
* `assembler.go:535`: a line that is only a label drops the `__LABEL_SET` labels
  that wait for the next line.
* `debugger.go:149`: the length compared with 2048 is in bytes, so that a ROM whose program
  fills half of its words or more gets no HALT back after trimming. In this image and in any
  other, a jump behind the end makes the VM report "PC out of range" and stand still where the
  device halts: a difference is reported although the device is right, and in a run the error
  message itself reads `vm.EEPROM[PC-1]` (`debugger.go:427`) and panics if the jump went further than
  one word. A MEMR of a word that was cut off panics (`vm.go:226`), and so does
  the disassembly (`debugger.go:690`) as soon as some MEMR in the program would
  read one with the registers as they are, executed or not.
* `mcpc.go:93`: the command "attach" is taken by the branch that compiles M-Script,
  which tests for it before the branch of the debugger at line 98 does.
* `debugger.go:145`: an empty ROM is an index out of range.
* `debugger.go:450`: `run <to>` does not stop at a BRK, the help text at
  `debugger.go:342` says that it does.
* `base.mlib:27`: a shift by 256 or more, or by a negative distance that was
  computed, does not shift by that distance.
* `ast.go:527`: argp is pushed before argc, so a program that names its parameters
  argc, argp gets them in the other order; both are 0.
* `asm_transformer.go:25`: the variables of a function are kept under its name
  alone: two functions of one name with different parameters share a frame.

## Not modelled

* `autotest/autotest.go`: it runs compiler, assembler and VM on files and
  compares one register; no state survives a test.
* `memalloc.mscr`: `malloc` moves a pointer down and nothing is ever given back.
  `realloc`, `free` and `memcopy` are not called; `realloc` keeps the block exactly
  when it is too small, and `memcopy` copies one word too far.
* `strings.mscr`, `expr.mscr`, `interpreter.mscr` and the commands of `shell.mscr`:
  string algorithms over memory, without concurrency.
* The tables of key codes in `vmrun.go` and `keyboard.mscr`: data.
* Of the assembler: character literals, `#declare`, BUS, HOLD, the symbol file, and
  macros whose names are the beginning of another's.
* Of M-Script: string globals, `_asm` blocks within expressions, the addresses of
  locals (`$$` of globals only; `RegAlloc` has those of locals), functions that
  share a name.
* Of the debugger: attaching once more to a device that still sends the rest of an
  aborted dump, debugging from a file, the views.
* Grammar and preprocessing (`parser.go`, `compiler_main.go`), file handling, the
  command line, text user interfaces: pure functions or pure output.
* `mscr/yard/bindata.go`, `gppbin`, `dijkstra-shunting-yard`, `mcpc-code`:
  third-party or generated.
