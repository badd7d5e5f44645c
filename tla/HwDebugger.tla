----------------------------- MODULE HwDebugger -----------------------------
(***************************************************************************)
(* The hardware debugger: the host program of interpreter/debugger.go and  *)
(* hardware.go, a serial line, and a physical MCPC at its other end.       *)
(*                                                                         *)
(* The host only ever writes one command byte and reads what the device    *)
(* answers before it writes the next one; an operation of hardware.go is a *)
(* script of such exchanges.  Attaching resets the device, checks two of   *)
(* its constant registers, reads its ROM with a checksum and trims it.     *)
(* From then on a VM with that image and the device run in lockstep.       *)
(*                                                                         *)
(* The device is no code of this repository: it answers as the host relies *)
(* on.  The line may lose a byte or change one.  A read returns what has   *)
(* arrived, at least one byte; there is no timeout.                        *)
(***************************************************************************)
EXTENDS Integers, Sequences

CONSTANTS
  Base,        \* values of a byte of registers and ROM, 256 in the code
  Xor(_, _),   \* exclusive or of two bytes
  Roms,        \* what the device's ROM may hold
  RomSize,     \* words of ROM, 2048
  Rest,        \* what registers other than PC, and memory, may hold
  Fresh,       \* what they hold after a reset
  Found,       \* the states of the processor in which a device is attached
  Refused(_),  \* whether an instruction writes a register it may not
  EepromAt(_, _, _), \* the word of EEPROM a MEMR addresses, or Nowhere
  NextPC(_, _, _, _), NewRest(_, _, _, _), \* what an instruction does
  Shown(_, _), \* what a register other than PC holds
  HaltLimit,   \* a ROM trimmed to fewer words gets a HALT, 1024
  DumpRegs,    \* the registers of a register dump, <<0, ..., 15>>
  MaxRun,      \* steps a run may take, 10000
  Counts,      \* numbers of steps runfor may be given
  Targets,     \* addresses run may be given
  MaxChanged,  \* bytes the line may change
  MayLose      \* whether it may lose one

Byte == 0 .. Base - 1
Word == 0 .. Base * Base - 1

(* A processor.  An instruction is known by its low four bits; HALT, BUS   *)
(* (a break point to the VM), MEMR and SET are told apart, since they alone *)
(* concern the debugger.  Any other may go anywhere and change anything:   *)
(* MOV and the ALU may well write PC.                                      *)
Processor == [pc : Word, rest : Rest, halted : BOOLEAN]
Op(w) == w % 16
Halt == 0
Brk  == 4
Memr == 5
Set  == 6
Nowhere == -1

ASSUME BaseAssumption == Base \in Nat /\ Base * Base > Set
ASSUME ProcessorAssumption ==
  /\ Fresh \in Rest /\ Found \subseteq Processor
  /\ \A w \in Word : Refused(w) \in BOOLEAN
  /\ \A w, pc \in Word, x \in Rest :
       EepromAt(w, pc, x) \in {Nowhere} \cup 0 .. RomSize - 1
  /\ \A w \in Word : EepromAt(w, 0, Fresh) = Nowhere
  /\ \A w, pc, d \in Word, x \in Rest :
       NextPC(w, pc, x, d) \in Word /\ NewRest(w, pc, x, d) \in Rest
  /\ \A r \in 0 .. 255, x \in Rest : Shown(r, x) \in Word
ASSUME RomAssumption ==
  /\ RomSize \in Nat \ {0} /\ RomSize + 1 \in Word
  /\ Roms \subseteq [0 .. RomSize - 1 -> Word]
ASSUME XorAssumption ==
  /\ \A a, b \in Byte : Xor(a, b) \in Byte
  /\ \A a, b, c \in Byte : Xor(a, c) = Xor(b, c) => a = b
  /\ \A a, b, c \in Byte : Xor(c, a) = Xor(c, b) => a = b
  /\ \A a, b, c \in Byte : Xor(Xor(a, b), c) = Xor(Xor(a, c), b)
ASSUME LimitAssumption ==
  /\ HaltLimit \in 0 .. RomSize /\ MaxRun \in Nat /\ MaxChanged \in Nat
  /\ MayLose \in BOOLEAN
  /\ Targets \subseteq Nat /\ Counts \subseteq Nat
ASSUME DumpAssumption ==
  DumpRegs \in Seq(0 .. 15) /\ \E i \in DOMAIN DumpRegs : DumpRegs[i] = 0

VARIABLES
  \* the host
  phase,     \* what it does
  todo,      \* commands it still has to send for that
  waiting,   \* whether it waits for the answer to the first of them
  got,       \* the bytes it keeps of the answers
  sum,       \* checksumLocal
  image,     \* the program its VM runs
  vm, brk,   \* the VM, and whether its last step was a break
  mode,      \* the command the user gave
  steps,     \* the variable timeout of a run
  alarm,     \* "Difference in device registers found"
  cause,     \* why the host has exited
  \* the line
  toDev, toHost,
  changed,   \* bytes changed so far
  noisy,     \* whether one was since the last command
  lost,      \* whether one got lost
  \* the device
  rom,
  debug,     \* its debug registers
  reply,     \* the dump it is sending
  cpu,       \* its processor
  deviates   \* whether it has done something the VM would not

session == <<phase, todo, waiting, got, sum, cause>>
program == <<image, vm, brk, mode, steps, alarm>>
line    == <<toDev, toHost, changed, noisy, lost>>
device  == <<rom, debug, reply, cpu, deviates>>
vars    == <<session, program, line, device>>

-----------------------------------------------------------------------------
(* The operations of hardware.go as scripts of commands.                   *)
Command(op, arg) == [op |-> op, arg |-> arg]

setRegister(r, data) ==
  <<Command("SET", r), Command("HI", data \div 16), Command("LO", data % 16)>>
getRegister(r) == <<Command("GET", r)>>
(* Seeded bug: the high byte is read first.                                *)
getMCPCRegSwapped(r) ==
  setRegister(0, 3) \o setRegister(1, r % 16)
    \o getRegister(9) \o getRegister(8) \o setRegister(0, 1)

getMCPCReg(r) ==
  setRegister(0, 3) \o setRegister(1, r % 16)
    \o getRegister(8) \o getRegister(9) \o setRegister(0, 1)

(* Seeded bug: the device is not reset.                                    *)
ScriptNoReset(p) ==
  CASE p = "reset"            -> setRegister(0, 0) \o setRegister(0, 1)
    [] p \in {"check1", "check3"} -> getMCPCReg(14)
    [] p = "check2"           -> getMCPCReg(13)
    [] p = "dump"             -> <<Command("DUMP_ROM", 0)>>
    [] p = "off"              -> setRegister(0, 1)
    [] p = "compare"          -> <<Command("STEP", 0), Command("DUMP_REGS", 0)>>
    [] OTHER                  -> <<>>

Script(p) ==
  CASE p = "reset"            -> setRegister(0, 0) \o setRegister(0, 5) \o setRegister(0, 1)
    [] p \in {"check1", "check3"} -> getMCPCReg(14)
    [] p = "check2"           -> getMCPCReg(13)
    [] p = "dump"             -> <<Command("DUMP_ROM", 0)>>
    [] p = "off"              -> setRegister(0, 1)
    [] p = "compare"          -> <<Command("STEP", 0), Command("DUMP_REGS", 0)>>
    [] OTHER                  -> <<>>

NoTarget  == -1
NoCommand == [op |-> "step", to |-> NoTarget, max |-> 0]

Reset == [pc |-> 0, rest |-> Fresh, halted |-> FALSE]
Idle  == [kind |-> "idle", at |-> 0, sum |-> 0]

(* The processor of the device may be anywhere when the host attaches.     *)
Init ==
  /\ phase = "reset" /\ todo = Script("reset") /\ waiting = FALSE
  /\ got = <<>> /\ sum = 0 /\ cause = "none"
  /\ image = <<>> /\ vm = Reset /\ brk = FALSE
  /\ mode = NoCommand /\ steps = 0 /\ alarm = FALSE
  /\ toDev = <<>> /\ toHost = <<>>
  /\ changed = 0 /\ noisy = FALSE /\ lost = FALSE
  /\ rom \in Roms
  /\ debug = [sel |-> 0, reg |-> [r \in 0 .. 15 |-> 0]] /\ reply = Idle
  /\ cpu \in Found /\ deviates = FALSE

-----------------------------------------------------------------------------
(* Where instruction w of a processor m reads a word of the program.       *)
Source(w, m) ==
  CASE Refused(w)              -> Nowhere
    [] ~Refused(w) /\ Op(w) = Set  -> m.pc + 1
    [] ~Refused(w) /\ Op(w) = Memr -> EepromAt(w, m.pc, m.rest)
    [] OTHER                   -> Nowhere

(* What it does, once it has read d there.  A refused one is skipped.      *)
After(pc, n) == (pc + n) % (Base * Base)
Exec(w, m, d) ==
  [pc     |-> CASE Op(w) = Set -> After(m.pc, 2)
                [] Op(w) \in {Halt, Brk} \/ (Refused(w) /\ Op(w) # Set) -> After(m.pc, 1)
                [] OTHER -> NextPC(w, m.pc, m.rest, d),
   rest   |-> IF Op(w) \in {Halt, Brk} \/ Refused(w) THEN m.rest
              ELSE NewRest(w, m.pc, m.rest, d),
   halted |-> Op(w) = Halt]

(* VM.Step does nothing on a halted machine, and reports an error behind   *)
(* the end of its image.  The device runs on in the zeros of its ROM.      *)
Runs(m, size) == ~m.halted /\ m.pc < size
ImageWord(a)  == IF a + 1 \in DOMAIN image THEN image[a + 1] ELSE Halt
RomWord(a)    == IF a \in DOMAIN rom THEN rom[a] ELSE Halt

Fetched == ImageWord(vm.pc)
VmStepped ==
  IF Runs(vm, Len(image))
  THEN Exec(Fetched, vm, ImageWord(Source(Fetched, vm)))
  ELSE vm
CpuStepped ==
  IF Runs(cpu, RomSize)
  THEN Exec(rom[cpu.pc], cpu, RomWord(Source(rom[cpu.pc], cpu)))
  ELSE cpu

(* What the registers of a machine hold: constants, the program counter,   *)
(* and the others.  In A shows that the device has gone its own way.       *)
RegisterValue(r, m, off) ==
  CASE r = 11 -> m.pc
    [] r = 13 -> 1
    [] r = 14 -> Base * Base - 1
    [] r = 0  -> IF off THEN (Shown(0, m.rest) + 1) % (Base * Base)
                        ELSE Shown(0, m.rest)
    [] OTHER  -> Shown(r, m.rest)

Low(w)  == w % Base
High(w) == w \div Base
ByteOf(w, i) == IF i % 2 = 0 THEN Low(w) ELSE High(w)

-----------------------------------------------------------------------------
(* The host.                                                               *)
Exit(why) ==
  /\ phase' = "exited" /\ cause' = why
  /\ UNCHANGED <<todo, waiting, got, sum>>

(* Seeded bug: nobody waits for the answer to a step.                      *)
WriteNoWait ==
  /\ phase # "exited" /\ todo # <<>> /\ ~waiting
  /\ waiting' = (Head(todo).op # "STEP")
  /\ todo' = IF waiting' THEN todo ELSE Tail(todo)
  /\ toDev' = Append(toDev, Head(todo))
  /\ noisy' = FALSE
  /\ UNCHANGED <<phase, got, sum, cause, toHost, changed, lost>>
  /\ UNCHANGED <<program, device>>

Write ==
  /\ phase # "exited" /\ todo # <<>> /\ ~waiting
  /\ waiting' = TRUE
  /\ toDev' = Append(toDev, Head(todo))
  /\ noisy' = FALSE
  /\ UNCHANGED <<phase, todo, got, sum, cause, toHost, changed, lost>>
  /\ UNCHANGED <<program, device>>

(* The bytes read are taken from the line.                                 *)
Take(n) ==
  /\ toHost' = SubSeq(toHost, n + 1, Len(toHost))
  /\ UNCHANGED <<toDev, changed, noisy, lost>>

Reads(ops) ==
  /\ phase # "exited" /\ waiting /\ toHost # <<>>
  /\ Head(todo).op \in ops
  /\ UNCHANGED <<program, device>>

Answered == todo' = Tail(todo) /\ waiting' = FALSE

(* waitForResponse discards what it reads.                                 *)
waitForResponse ==
  /\ Reads({"SET", "HI", "LO", "STEP"})
  /\ Take(1)
  /\ Answered
  /\ UNCHANGED <<phase, got, sum, cause>>

ReadRegister ==
  /\ Reads({"GET"})
  /\ Take(1)
  /\ Answered
  /\ got' = Append(got, Head(toHost))
  /\ UNCHANGED <<phase, sum, cause>>

(* Seeded bug: the checksum is a sum, and not cut to a byte.               *)
ReadRomWordAdds ==
  /\ Reads({"DUMP_ROM"})
  /\ Len(got) < 2 * RomSize
  /\ \/ /\ Len(toHost) >= 2
        /\ Take(2)
        /\ got' = got \o <<toHost[1], toHost[2]>>
        /\ sum' = sum + toHost[2] + toHost[1]
        /\ UNCHANGED <<phase, todo, waiting, cause>>
     \/ (Len(toHost) = 1 /\ Take(1) /\ Exit("short read"))

(* A word of the ROM: less than two bytes are fatal.                       *)
ReadRomWord ==
  /\ Reads({"DUMP_ROM"})
  /\ Len(got) < 2 * RomSize
  /\ \/ /\ Len(toHost) >= 2
        /\ Take(2)
        /\ got' = got \o <<toHost[1], toHost[2]>>
        /\ sum' = Xor(Xor(sum, toHost[2]), toHost[1])
        /\ UNCHANGED <<phase, todo, waiting, cause>>
     \/ (Len(toHost) = 1 /\ Take(1) /\ Exit("short read"))

(* Seeded bugs: the checksum is read but not compared; after a mismatch no *)
(* new dump is asked for.                                                  *)
ReadChecksumIgnored ==
  /\ Reads({"DUMP_ROM"})
  /\ Len(got) = 2 * RomSize
  /\ Take(1)
  /\ Answered
  /\ UNCHANGED <<phase, got, sum, cause>>

ReadChecksumWaits ==
  /\ Reads({"DUMP_ROM"})
  /\ Len(got) = 2 * RomSize
  /\ Take(1)
  /\ \/ Head(toHost) = sum /\ Answered /\ UNCHANGED <<got, sum>>
     \/ /\ Head(toHost) # sum
        /\ got' = <<>> /\ sum' = 0
        /\ UNCHANGED <<todo, waiting>>
  /\ UNCHANGED <<phase, cause>>

(* The checksum: if it does not match, everything is read again.           *)
ReadChecksum ==
  /\ Reads({"DUMP_ROM"})
  /\ Len(got) = 2 * RomSize
  /\ Take(1)
  /\ waiting' = FALSE
  /\ \/ /\ Head(toHost) = sum
        /\ todo' = Tail(todo)
        /\ UNCHANGED <<got, sum>>
     \/ /\ Head(toHost) # sum
        /\ got' = <<>> /\ sum' = 0
        /\ UNCHANGED todo
  /\ UNCHANGED <<phase, cause>>

(* A register dump is read at once; less than all of it is fatal.          *)
ReadRegDump ==
  /\ Reads({"DUMP_REGS"})
  /\ \/ /\ Len(toHost) >= 2 * Len(DumpRegs)
        /\ Take(2 * Len(DumpRegs))
        /\ got' = SubSeq(toHost, 1, 2 * Len(DumpRegs))
        /\ Answered
        /\ UNCHANGED <<phase, sum, cause>>
     \/ /\ Len(toHost) < 2 * Len(DumpRegs)
        /\ Take(Len(toHost))
        /\ Exit("short read")

-----------------------------------------------------------------------------
(* What Interpret goes on with once an operation is done.                  *)
Begin(p) ==
  /\ phase' = p /\ todo' = Script(p)
  /\ waiting' = FALSE /\ got' = <<>> /\ sum' = 0
  /\ UNCHANGED cause

Done(p) == phase = p /\ todo = <<>> /\ UNCHANGED <<line, device>>

WordAt(i) == got[2 * i - 1] + Base * got[2 * i]

Check(p, value, next) ==
  /\ Done(p)
  /\ \/ (WordAt(1) = value /\ Begin(next))
     \/ (WordAt(1) # value /\ Exit("sanity check"))
  /\ UNCHANGED program

Attach ==
  \/ (Done("reset") /\ Begin("check1") /\ UNCHANGED program)
  \/ Check("check1", Base * Base - 1, "check2")
  \/ Check("check2", 1, "dump")
  \/ /\ Done("dump")
     /\ Begin("off")
     /\ image' = [i \in 1 .. RomSize |-> WordAt(i)]
     /\ UNCHANGED <<vm, brk, mode, steps, alarm>>
  \/ (Done("off") /\ Begin("check3") /\ UNCHANGED program)

(* The trailing zero words are cut off, which runs off the front of a ROM  *)
(* that holds nothing else, and a short rest gets one of them back.        *)
Used(data) == {i \in DOMAIN data : data[i] # Halt}
Trimmed(data) ==
  LET last == CHOOSE i \in Used(data) : \A j \in Used(data) : j <= i
      kept == SubSeq(data, 1, last)
  IN IF last < HaltLimit THEN Append(kept, Halt) ELSE kept

(* Where the disassembly takes a word for a SET, not for a literal; it     *)
(* gives up on a SET at the end.                                           *)
IsSet(data) ==
  LET at[i \in 0 .. Len(data)] ==
        i > 0 /\ Op(data[i]) = Set /\ ~at[i - 1]
  IN at

Trim ==
  /\ Done("check3")
  /\ \/ /\ WordAt(1) # Base * Base - 1
        /\ Exit("sanity check")
        /\ UNCHANGED image
     \/ /\ WordAt(1) = Base * Base - 1
        /\ \/ (Used(image) = {} /\ Exit("panic") /\ UNCHANGED image)
           \/ /\ Used(image) # {}
              /\ image' = Trimmed(image)
              /\ IF IsSet(image')[Len(image')] THEN Exit("SET is last")
                                               ELSE Begin("ready")
  /\ UNCHANGED <<vm, brk, mode, steps, alarm>>

-----------------------------------------------------------------------------
(* The commands of the user, and lockstep.                                 *)
Modes ==
  {NoCommand}
    \cup [op : {"run"}, to : Targets \cup {NoTarget}, max : {MaxRun}]
    \cup [op : {"runfor"}, to : {NoTarget}, max : Counts]

Enter(m) ==
  /\ phase = "ready"
  /\ Begin("loop")
  /\ mode' = m /\ steps' = 0
  /\ UNCHANGED <<image, vm, brk, alarm, line, device>>

(* The disassembly looks up what every MEMR in the image would read now,   *)
(* and the debugger dies on one that would read behind the image.          *)
DisplayPanics(m) ==
  \E i \in DOMAIN image :
     /\ ~IsSet(image)[i - 1] /\ Op(image[i]) = Memr
     /\ EepromAt(image[i], m.pc, m.rest) >= Len(image)

(* So does it when VM.Step itself reads there, and when in a run an error  *)
(* is reported, with the word before PC, of a step that led behind it.     *)
StepFails  == ~vm.halted /\ (vm.pc >= Len(image) \/ Refused(Fetched))
StepPanics ==
  \/ Runs(vm, Len(image)) /\ Source(Fetched, vm) >= Len(image)
  \/ mode.op = "step" /\ DisplayPanics(VmStepped)
  \/ mode.op # "step" /\ StepFails /\ VmStepped.pc - 1 >= Len(image)

(* One step of the VM, then one of the device, then the comparison.        *)
StepVM ==
  /\ phase = "loop"
  /\ mode.op = "step" \/ (~vm.halted /\ steps < mode.max)
  /\ vm' = VmStepped
  /\ brk' = (Runs(vm, Len(image)) /\ Op(Fetched) = Brk)
  /\ \/ (StepPanics /\ Exit("panic"))
     \/ (~StepPanics /\ Begin("compare"))
  /\ UNCHANGED <<image, mode, steps, alarm, line, device>>

(* At the end of a run the disassembly is shown again.                     *)
Pause ==
  \/ (mode.op # "step" /\ DisplayPanics(vm) /\ Exit("panic"))
  \/ (~(mode.op # "step" /\ DisplayPanics(vm)) /\ Begin("ready"))

RunEnds ==
  /\ phase = "loop"
  /\ mode.op # "step" /\ (vm.halted \/ steps >= mode.max)
  /\ Pause
  /\ UNCHANGED <<program, line, device>>

(* Seeded bug: the first register is left out.                             *)
compareButFirst ==
  \E i \in 2 .. Len(DumpRegs) :
     WordAt(i) # RegisterValue(DumpRegs[i], vm, FALSE)

compareRegistersWithDevice ==
  \E i \in 1 .. Len(DumpRegs) :
     WordAt(i) # RegisterValue(DumpRegs[i], vm, FALSE)

Compare ==
  /\ Done("compare")
  /\ alarm' = compareRegistersWithDevice
  /\ \/ /\ \/ mode.op = "step" \/ alarm' \/ vm.pc = mode.to
           \/ (mode.op = "run" /\ mode.to = NoTarget /\ brk)
        /\ Pause
        /\ UNCHANGED steps
     \/ /\ mode.op # "step" /\ ~alarm' /\ vm.pc # mode.to
        /\ ~(mode.op = "run" /\ mode.to = NoTarget /\ brk)
        /\ Begin("loop")
        /\ steps' = steps + 1
  /\ UNCHANGED <<image, vm, brk, mode>>

Host ==
  \/ Write \/ waitForResponse \/ ReadRegister \/ ReadRomWord \/ ReadChecksum
  \/ ReadRegDump \/ Attach \/ Trim \/ StepVM \/ RunEnds \/ Compare

-----------------------------------------------------------------------------
(* The device.                                                             *)
Send(b) ==
  /\ toHost' = Append(toHost, b)
  /\ UNCHANGED <<changed, noisy, lost>>

Receives(op) ==
  /\ reply = Idle /\ toDev # <<>> /\ Head(toDev).op = op
  /\ toDev' = Tail(toDev)
  /\ UNCHANGED <<session, program, rom>>

Arg == Head(toDev).arg

DeviceSelect ==
  /\ Receives("SET") /\ Send(0)
  /\ debug' = [debug EXCEPT !.sel = Arg]
  /\ UNCHANGED <<reply, cpu, deviates>>

DeviceHigh ==
  /\ Receives("HI") /\ Send(0)
  /\ debug' = [debug EXCEPT !.reg[debug.sel] = 16 * Arg + (@ % 16)]
  /\ UNCHANGED <<reply, cpu, deviates>>

(* Bit 2 of register 0 resets the processor.                               *)
DeviceLow ==
  /\ Receives("LO") /\ Send(0)
  /\ debug' = [debug EXCEPT !.reg[debug.sel] = 16 * (@ \div 16) + Arg]
  /\ cpu' = IF debug.sel = 0 /\ (Arg \div 4) % 2 = 1 THEN Reset ELSE cpu
  /\ UNCHANGED <<reply, deviates>>

(* Registers 8 and 9 show the register of the processor that register 1    *)
(* selects, while bit 1 of register 0 is set.                              *)
DeviceGet ==
  /\ Receives("GET")
  /\ Send(IF Arg \in {8, 9} /\ (debug.reg[0] \div 2) % 2 = 1
          THEN ByteOf(RegisterValue(debug.reg[1], cpu, deviates), Arg)
          ELSE Low(debug.reg[Arg]))
  /\ UNCHANGED <<debug, reply, cpu, deviates>>

DeviceStep ==
  /\ Receives("STEP") /\ Send(0)
  /\ cpu' = CpuStepped
  /\ deviates' \in {deviates, TRUE}
  /\ UNCHANGED <<debug, reply>>

DeviceDump ==
  /\ Receives("DUMP_ROM") \/ Receives("DUMP_REGS")
  /\ reply' = [kind |-> Head(toDev).op, at |-> 0, sum |-> 0]
  /\ UNCHANGED <<toHost, changed, noisy, lost, debug, cpu, deviates>>

(* A dump is sent byte by byte, a ROM dump with the checksum at its end.   *)
DeviceSends ==
  /\ reply # Idle
  /\ LET rest  == reply.kind = "DUMP_ROM" /\ reply.at = 2 * RomSize
         b     == IF rest THEN reply.sum
                  ELSE ByteOf(IF reply.kind = "DUMP_ROM" THEN rom[reply.at \div 2]
                              ELSE RegisterValue(DumpRegs[reply.at \div 2 + 1], cpu, deviates),
                              reply.at)
         ends  == rest \/ (reply.kind = "DUMP_REGS" /\ reply.at + 1 = 2 * Len(DumpRegs))
     IN /\ Send(b)
        /\ reply' = IF ends THEN Idle
                    ELSE [reply EXCEPT !.at = @ + 1, !.sum = Xor(@, b)]
  /\ UNCHANGED <<toDev, session, program, rom, debug, cpu, deviates>>

Device ==
  \/ DeviceSelect \/ DeviceHigh \/ DeviceLow \/ DeviceGet \/ DeviceStep
  \/ DeviceDump \/ DeviceSends

-----------------------------------------------------------------------------
(* The line.                                                               *)
Change ==
  /\ changed < MaxChanged /\ ~noisy
  /\ \E i \in DOMAIN toHost : \E b \in Byte \ {toHost[i]} :
        toHost' = [toHost EXCEPT ![i] = b]
  /\ changed' = changed + 1 /\ noisy' = TRUE
  /\ UNCHANGED <<toDev, lost, session, program, device>>

Lose ==
  /\ MayLose /\ ~lost
  /\ \/ /\ toDev # <<>> /\ toDev' = Tail(toDev)
        /\ UNCHANGED toHost
     \/ /\ toHost # <<>> /\ toHost' = Tail(toHost)
        /\ UNCHANGED toDev
  /\ lost' = TRUE
  /\ UNCHANGED <<changed, noisy, session, program, device>>

Next == Host \/ (\E m \in Modes : Enter(m)) \/ Device \/ Change \/ Lose

Spec == Init /\ [][Next]_vars

(* The host and the device go on; nobody has to type a command.            *)
FairSpec == Spec /\ WF_vars(Host) /\ WF_vars(Device)

-----------------------------------------------------------------------------
Phases == {"reset", "check1", "check2", "dump", "off", "check3", "ready",
           "loop", "compare", "exited"}

Commands == [op : {"SET", "HI", "LO", "GET", "STEP", "DUMP_ROM", "DUMP_REGS"},
             arg : 0 .. 15]

(* Type invariant.                                                         *)
TypeOK ==
  /\ phase \in Phases /\ todo \in Seq(Commands) /\ waiting \in BOOLEAN
  /\ got \in Seq(Byte) /\ sum \in Byte
  /\ cause \in {"none", "short read", "sanity check", "panic", "SET is last"}
  /\ image \in Seq(Word) /\ vm \in Processor /\ brk \in BOOLEAN
  /\ mode \in Modes /\ steps \in Nat /\ alarm \in BOOLEAN
  /\ toDev \in Seq(Commands) /\ toHost \in Seq(Byte)
  /\ changed \in 0 .. MaxChanged /\ noisy \in BOOLEAN /\ lost \in BOOLEAN
  /\ rom \in Roms
  /\ debug \in [sel : 0 .. 15, reg : [0 .. 15 -> 0 .. 255]]
  /\ reply \in {Idle}
       \cup [kind : {"DUMP_ROM"}, at : 0 .. 2 * RomSize, sum : Byte]
       \cup [kind : {"DUMP_REGS"}, at : 0 .. 2 * Len(DumpRegs) - 1, sum : Byte]
  /\ cpu \in Processor /\ deviates \in BOOLEAN

(* Question and answer stay in step: when the host is about to send a      *)
(* command, and while it sends none, nothing is under way on the line and  *)
(* the device has nothing left to send.  A lost byte does not break this:  *)
(* the host then waits for ever or exits.                                  *)
InStep ==
  ~waiting /\ phase # "exited" =>
     ~lost /\ toDev = <<>> /\ toHost = <<>> /\ reply = Idle

Attached == phase \in {"ready", "loop", "compare"}

(* The image is the ROM, with nothing but HALT behind its end, although    *)
(* the line may change a byte in every dump.                               *)
ImageRight ==
  Attached =>
    \A a \in DOMAIN rom :
       rom[a] = IF a < Len(image) THEN image[a + 1] ELSE Halt

(* The sanity checks find fault only with a line that changed a byte.      *)
SanityRight == cause = "sanity check" => changed > 0

(* The program has left what was kept of the ROM.  In the zeros cut off,   *)
(* the device finds HALT, where the VM reports an error and stands still.  *)
Astray == ~vm.halted /\ vm.pc >= Len(image)

(* Lockstep: while nothing is being executed, VM and device are in the     *)
(* same state, unless the program has gone astray.                         *)
Lockstep == phase \in {"ready", "loop"} /\ ~Astray => vm = cpu

(* Short of that, a difference is reported for good reason: the device     *)
(* deviates, or the line has changed the dump.  And a run does not go on   *)
(* with a device that deviates once an undisturbed dump has been compared. *)
AlarmRight ==
  /\ phase = "ready" /\ alarm /\ ~Astray => deviates \/ noisy
  /\ phase = "loop" /\ steps > 0 /\ deviates /\ ~Astray => noisy

(* Attaching and every command come to an end, unless a byte was lost.     *)
Responds ==
  (phase \notin {"ready", "exited"}) ~> (phase \in {"ready", "exited"} \/ lost)

=============================================================================
