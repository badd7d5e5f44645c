-------------------------- MODULE HwDebuggerProofs --------------------------
(***************************************************************************)
(* Host and device of HwDebugger keep their types, and question and answer *)
(* stay in step, for any ROM, any register dump and any line that changes  *)
(* bytes or loses one.  Then what attaching to a device and stepping with  *)
(* it comes to: the sanity checks, the image, and VM and device in         *)
(* lockstep.                                                               *)
(***************************************************************************)
EXTENDS HwDebugger, WellFoundedInduction, TLAPS

(* TypeOK in four parts, one for each group of variables.                  *)
SessionType ==
  /\ phase \in Phases /\ todo \in Seq(Commands) /\ waiting \in BOOLEAN
  /\ got \in Seq(Byte) /\ sum \in Byte
  /\ cause \in {"none", "short read", "sanity check", "panic", "SET is last"}

ProgramType ==
  /\ image \in Seq(Word) /\ vm \in Processor /\ brk \in BOOLEAN
  /\ mode \in Modes /\ steps \in Nat /\ alarm \in BOOLEAN

LineType ==
  /\ toDev \in Seq(Commands) /\ toHost \in Seq(Byte)
  /\ changed \in 0 .. MaxChanged /\ noisy \in BOOLEAN /\ lost \in BOOLEAN

RomReplies  == [kind : {"DUMP_ROM"}, at : 0 .. 2 * RomSize, sum : Byte]
RegsReplies == [kind : {"DUMP_REGS"}, at : 0 .. 2 * Len(DumpRegs) - 1, sum : Byte]

DeviceType ==
  /\ rom \in Roms
  /\ debug \in [sel : 0 .. 15, reg : [0 .. 15 -> 0 .. 255]]
  /\ reply \in {Idle} \cup RomReplies \cup RegsReplies
  /\ cpu \in Processor /\ deviates \in BOOLEAN

(* The four parts are the type invariant.                                  *)
LEMMA TypeParts ==
  /\ TypeOK <=> SessionType /\ ProgramType /\ LineType /\ DeviceType
  /\ TypeOK' <=> SessionType' /\ ProgramType' /\ LineType' /\ DeviceType'
BY DEF TypeOK, SessionType, ProgramType, LineType, DeviceType, RomReplies, RegsReplies

(* What the host still has to send belongs to its phase.  Only the phase   *)
(* that reads the ROM asks for a ROM dump, and when it is done it has one. *)
PlainCommands ==
  [op : {"SET", "HI", "LO", "GET", "STEP", "DUMP_REGS"}, arg : 0 .. 15]

Scripted ==
  /\ phase = "dump" => todo \in {<<>>, <<Command("DUMP_ROM", 0)>>}
  /\ phase = "dump" /\ todo = <<>> => Len(got) = 2 * RomSize
  /\ phase \notin {"dump", "exited"} => todo \in Seq(PlainCommands)
  /\ phase \in {"ready", "loop"} => todo = <<>>

-----------------------------------------------------------------------------
(* Tuples and concatenations are sequences.                                *)
LEMMA SeqOf ==
  ASSUME NEW S
  PROVE  /\ <<>> \in Seq(S)
         /\ \A a \in S : <<a>> \in Seq(S)
         /\ \A a, b \in S : <<a, b>> \in Seq(S)
         /\ \A a, b, c \in S : <<a, b, c>> \in Seq(S)
         /\ \A s, t \in Seq(S) : s \o t \in Seq(S)
OBVIOUS

LEMMA SeqParts ==
  ASSUME NEW S
  PROVE  /\ \A s \in Seq(S), a \in S : Append(s, a) \in Seq(S)
         /\ \A s \in Seq(S) : s # <<>> => Head(s) \in S /\ Tail(s) \in Seq(S)
OBVIOUS

(* Scripts consist of commands.                                            *)
LEMMA RegisterScripts ==
  ASSUME NEW r \in 0 .. 15, NEW data \in 0 .. 255
  PROVE  /\ setRegister(r, data) \in Seq(PlainCommands)
         /\ getRegister(r) \in Seq(PlainCommands)
<1>1. /\ Command("SET", r) \in PlainCommands
      /\ Command("HI", data \div 16) \in PlainCommands
      /\ Command("LO", data % 16) \in PlainCommands
      /\ Command("GET", r) \in PlainCommands
  BY DEF Command, PlainCommands
<1>2. /\ <<Command("SET", r), Command("HI", data \div 16), Command("LO", data % 16)>>
           \in Seq(PlainCommands)
      /\ <<Command("GET", r)>> \in Seq(PlainCommands)
  BY <1>1, SeqOf
<1> QED
  BY <1>2 DEF setRegister, getRegister

LEMMA ReadScript ==
  ASSUME NEW r \in 0 .. 15
  PROVE  getMCPCReg(r) \in Seq(PlainCommands)
<1>1. r % 16 \in 0 .. 255
  OBVIOUS
<1>2. /\ setRegister(0, 3) \in Seq(PlainCommands)
      /\ setRegister(1, r % 16) \in Seq(PlainCommands)
      /\ getRegister(8) \in Seq(PlainCommands)
      /\ getRegister(9) \in Seq(PlainCommands)
      /\ setRegister(0, 1) \in Seq(PlainCommands)
  <2>1. \A a \in 0 .. 15 : \A d \in 0 .. 255 :
          setRegister(a, d) \in Seq(PlainCommands) /\ getRegister(a) \in Seq(PlainCommands)
    BY RegisterScripts
  <2>2. 0 \in 0 .. 15 /\ 1 \in 0 .. 15 /\ 8 \in 0 .. 15 /\ 9 \in 0 .. 15
          /\ 3 \in 0 .. 255 /\ 1 \in 0 .. 255
    OBVIOUS
  <2> QED
    BY <1>1, <2>1, <2>2, ZenonT(60)
<1> DEFINE X == setRegister(0, 3) \o setRegister(1, r % 16)
<1>3. X \in Seq(PlainCommands)
  BY <1>2, SeqOf
<1>4. X \o getRegister(8) \in Seq(PlainCommands)
  BY <1>2, <1>3, SeqOf
<1>5. X \o getRegister(8) \o getRegister(9) \in Seq(PlainCommands)
  BY <1>2, <1>4, SeqOf
<1>6. X \o getRegister(8) \o getRegister(9) \o setRegister(0, 1) \in Seq(PlainCommands)
  BY <1>2, <1>5, SeqOf
<1> QED
  BY <1>6 DEF getMCPCReg

LEMMA Scripts ==
  /\ Script("dump") = <<Command("DUMP_ROM", 0)>>
  /\ Script("ready") = <<>> /\ Script("loop") = <<>>
  /\ \A p \in Phases \ {"dump"} : Script(p) \in Seq(PlainCommands)
<1>1. /\ Script("dump") = <<Command("DUMP_ROM", 0)>>
      /\ Script("ready") = <<>> /\ Script("loop") = <<>> /\ Script("exited") = <<>>
  BY DEF Script
<1>2. Script("reset") \in Seq(PlainCommands) /\ Script("off") \in Seq(PlainCommands)
  <2>1. /\ setRegister(0, 0) \in Seq(PlainCommands)
        /\ setRegister(0, 5) \in Seq(PlainCommands)
        /\ setRegister(0, 1) \in Seq(PlainCommands)
    BY 0 \in 0 .. 15, 0 \in 0 .. 255, 5 \in 0 .. 255, 1 \in 0 .. 255, RegisterScripts
  <2>2. /\ Script("reset") = setRegister(0, 0) \o setRegister(0, 5) \o setRegister(0, 1)
        /\ Script("off") = setRegister(0, 1)
    BY DEF Script
  <2>3. setRegister(0, 0) \o setRegister(0, 5) \in Seq(PlainCommands)
    BY <2>1, SeqOf
  <2> QED
    BY <2>1, <2>2, <2>3, SeqOf
<1>3. \A p \in {"check1", "check2", "check3"} : Script(p) \in Seq(PlainCommands)
  <2>1. Script("check1") = getMCPCReg(14) /\ Script("check2") = getMCPCReg(13)
          /\ Script("check3") = getMCPCReg(14)
    BY DEF Script
  <2>2. getMCPCReg(14) \in Seq(PlainCommands) /\ getMCPCReg(13) \in Seq(PlainCommands)
    BY ReadScript
  <2> QED
    BY <2>1, <2>2
<1>4. Script("compare") \in Seq(PlainCommands)
  <2>1. Script("compare") = <<Command("STEP", 0), Command("DUMP_REGS", 0)>>
    BY DEF Script
  <2>2. Command("STEP", 0) \in PlainCommands /\ Command("DUMP_REGS", 0) \in PlainCommands
    BY DEF Command, PlainCommands
  <2> QED
    BY <2>1, <2>2, SeqOf
<1> QED
  BY <1>1, <1>2, <1>3, <1>4, SeqOf DEF Phases

LEMMA PlainAreCommands ==
  /\ PlainCommands \subseteq Commands
  /\ Command("DUMP_ROM", 0) \in Commands
  /\ \A s \in Seq(PlainCommands) : s \in Seq(Commands)
  /\ \A p \in Phases : Script(p) \in Seq(Commands)
<1>1. PlainCommands \subseteq Commands /\ Command("DUMP_ROM", 0) \in Commands
  BY DEF PlainCommands, Commands, Command
<1>2. \A s \in Seq(PlainCommands) : s \in Seq(Commands)
  BY <1>1
<1>3. <<Command("DUMP_ROM", 0)>> \in Seq(Commands)
  BY <1>1
<1> QED
  BY <1>1, <1>2, <1>3, Scripts

(* Bytes.                                                                  *)
LEMMA Bytes ==
  /\ 0 \in Byte /\ Base \in Nat /\ Base >= 3
  /\ \A w \in Word : Low(w) \in Byte /\ High(w) \in Byte
  /\ \A w \in Word, i \in Nat : ByteOf(w, i) \in Byte
  /\ \A a, b \in Byte : a + Base * b \in Word
<1>1. Base \in Nat /\ Base * Base > 6
  BY BaseAssumption DEF Set
<1>2. Base >= 3
  <2>1. Base # 0 /\ Base # 1 /\ Base # 2
    BY <1>1
  <2> QED
    BY <1>1, <2>1
<1>3. \A w \in Word : w % Base \in Byte /\ w \div Base \in Byte
  <2> SUFFICES ASSUME NEW w \in Word
               PROVE  w % Base \in Byte /\ w \div Base \in Byte
    OBVIOUS
  <2>1. w \in Nat /\ w < Base * Base
    BY <1>1 DEF Word
  <2>2. w % Base \in 0 .. Base - 1
    BY <1>1, <1>2, <2>1
  <2> DEFINE q == w \div Base
  <2>3. q \in Nat /\ Base * q <= w
    BY <1>1, <1>2, <2>1
  <2>4. q < Base
    <3> HIDE DEF q
    <3>1. CASE q >= Base
      <4>1. Base * q >= Base * Base
        BY <1>1, <2>3, <3>1
      <4> QED
        BY <4>1, <2>1, <2>3, <1>1
    <3> QED
      BY <3>1, <2>3, <1>1
  <2> QED
    BY <1>1, <2>2, <2>3, <2>4 DEF Byte
<1>4. \A a, b \in Byte : a + Base * b \in Word
  <2> SUFFICES ASSUME NEW a \in Byte, NEW b \in Byte
               PROVE  a + Base * b \in Word
    OBVIOUS
  <2>1. a \in Nat /\ b \in Nat /\ a < Base /\ b + 1 <= Base
    BY <1>1 DEF Byte
  <2>2. Base * (b + 1) <= Base * Base
    BY <1>1, <2>1
  <2>3. Base * (b + 1) = Base * b + Base
    BY <1>1, <2>1
  <2>4. Base * b \in Nat /\ Base * Base \in Nat
    BY <1>1, <2>1
  <2> QED
    BY <1>1, <2>1, <2>2, <2>3, <2>4 DEF Word
<1> QED
  BY <1>1, <1>2, <1>3, <1>4 DEF Low, High, ByteOf, Byte

(* Exclusive or.                                                           *)
LEMMA XorLaws ==
  ASSUME NEW a \in Byte, NEW b \in Byte, NEW c \in Byte
  PROVE  /\ Xor(a, b) \in Byte
         /\ a # b => Xor(a, c) # Xor(b, c) /\ Xor(c, a) # Xor(c, b)
         /\ Xor(Xor(a, b), c) = Xor(Xor(a, c), b)
<1>1. Xor(a, b) \in Byte
  BY XorAssumption
<1>2. a # b => Xor(a, c) # Xor(b, c)
  BY XorAssumption
<1>3. a # b => Xor(c, a) # Xor(c, b)
  BY XorAssumption
<1>4. Xor(Xor(a, b), c) = Xor(Xor(a, c), b)
  BY XorAssumption
<1> QED
  BY <1>1, <1>2, <1>3, <1>4

(* The largest of some indices, which trimming looks for, exists.          *)
LEMMA HasLast ==
  ASSUME NEW n \in Nat, NEW S, S \subseteq 1 .. n, S # {}
  PROVE  \E i \in S : \A j \in S : j <= i
<1>1. PICK c \in S : TRUE
  OBVIOUS
<1> DEFINE T == {k \in Nat : n - k \in S}
<1>2. n - c \in T
  OBVIOUS
<1>3. PICK m \in T : \A k \in T : ~ (<<k, m>> \in OpToRel(<, Nat))
  <2> HIDE DEF T
  <2>1. T \subseteq Nat
    BY DEF T
  <2> QED
    BY <1>2, <2>1, NatLessThanWellFounded, WFMin
<1>4. \A k \in T : ~ (k < m)
  BY <1>3 DEF OpToRel
<1>5. n - m \in S /\ m \in Nat
  BY <1>3
<1>6. ASSUME NEW j \in S
      PROVE  j <= n - m
  <2>1. n - j \in T
    BY <1>6
  <2> QED
    BY <1>4, <1>5, <1>6, <2>1
<1> QED
  BY <1>5, <1>6

-----------------------------------------------------------------------------
(* Type correctness.                                                       *)
LEMMA ResetType == Reset \in Processor /\ Halt \in Word /\ 1 \in Word
<1>1. 0 \in Word /\ 1 \in Word
  BY BaseAssumption DEF Word, Set
<1> QED
  BY <1>1, ProcessorAssumption DEF Reset, Processor, Halt

LEMMA InitType == Init => TypeOK /\ Scripted
<1> SUFFICES ASSUME Init
             PROVE  TypeOK /\ Scripted
  OBVIOUS
<1>1. Script("reset") \in Seq(PlainCommands) /\ Script("reset") \in Seq(Commands)
  BY Scripts, PlainAreCommands DEF Phases
<1>2. SessionType
  <2>1. /\ phase = "reset" /\ todo = Script("reset") /\ waiting = FALSE
        /\ got = <<>> /\ sum = 0 /\ cause = "none"
    BY DEF Init
  <2> QED
    BY <1>1, <2>1, Bytes, SeqOf DEF SessionType, Phases
<1>3. ProgramType
  <2>1. /\ image = <<>> /\ vm = Reset /\ brk = FALSE
        /\ mode = NoCommand /\ steps = 0 /\ alarm = FALSE
    BY DEF Init
  <2>2. mode \in Modes /\ vm \in Processor
    BY <2>1, ResetType DEF Modes
  <2> QED
    BY <2>1, <2>2, SeqOf DEF ProgramType
<1>4. LineType
  <2>1. /\ toDev = <<>> /\ toHost = <<>>
        /\ changed = 0 /\ noisy = FALSE /\ lost = FALSE
    BY DEF Init
  <2>2. changed \in 0 .. MaxChanged
    BY <2>1, LimitAssumption
  <2>3. toDev \in Seq(Commands) /\ toHost \in Seq(Byte)
    BY <2>1, SeqOf
  <2> QED
    BY <2>1, <2>2, <2>3 DEF LineType
<1>5. DeviceType
  <2>1. /\ rom \in Roms /\ debug = [sel |-> 0, reg |-> [r \in 0 .. 15 |-> 0]]
        /\ reply = Idle /\ cpu \in Found
        /\ deviates = FALSE
    BY DEF Init
  <2>2. [r \in 0 .. 15 |-> 0] \in [0 .. 15 -> 0 .. 255]
    OBVIOUS
  <2>3. debug \in [sel : 0 .. 15, reg : [0 .. 15 -> 0 .. 255]]
    BY <2>1, <2>2
  <2>5. cpu \in Processor
    BY <2>1, ProcessorAssumption
  <2> QED
    BY <2>1, <2>3, <2>5 DEF DeviceType
<1>6. Scripted
  BY <1>1 DEF Init, Scripted
<1> QED
  BY <1>2, <1>3, <1>4, <1>5, <1>6, TypeParts

(* Going on to the next operation, and exiting.                            *)
LEMMA BeginType ==
  ASSUME TypeOK, NEW p \in Phases, Begin(p)
  PROVE  SessionType'
BY TypeParts, PlainAreCommands, Bytes, SeqOf DEF Begin, SessionType

LEMMA BeginScripted ==
  ASSUME NEW p \in Phases \ {"exited"}, Begin(p)
  PROVE  Scripted'
BY Scripts, SeqOf DEF Begin, Scripted, Command

LEMMA ExitType ==
  ASSUME TypeOK, NEW why \in {"short read", "sanity check", "panic", "SET is last"}, Exit(why)
  PROVE  SessionType' /\ Scripted'
BY TypeParts DEF Exit, SessionType, Phases, Scripted

(* The host's reads leave the line with what has not been read.            *)
LEMMA TakeType ==
  ASSUME TypeOK, NEW n \in 0 .. Len(toHost), Take(n)
  PROVE  /\ LineType' /\ Len(toHost') = Len(toHost) - n
<1>1. toHost \in Seq(Byte)
  BY TypeParts DEF LineType
<1>2. SubSeq(toHost, n + 1, Len(toHost)) \in Seq(Byte)
        /\ Len(SubSeq(toHost, n + 1, Len(toHost))) = Len(toHost) - n
  BY <1>1
<1>3. toHost' \in Seq(Byte) /\ Len(toHost') = Len(toHost) - n
  BY <1>2 DEF Take
<1> QED
  BY <1>3, TypeParts DEF Take, LineType

LEMMA AnsweredType ==
  ASSUME TypeOK, todo # <<>>, Answered
  PROVE  /\ todo' \in Seq(Commands) /\ waiting' = FALSE
         /\ todo \in Seq(PlainCommands) => todo' \in Seq(PlainCommands)
         /\ \A c : todo = <<c>> => todo' = <<>>
<1>1. todo \in Seq(Commands)
  BY TypeParts DEF SessionType
<1>2. Tail(todo) \in Seq(Commands)
  BY <1>1, SeqParts
<1>3. todo \in Seq(PlainCommands) => Tail(todo) \in Seq(PlainCommands)
  BY SeqParts
<1>4. \A c : todo = <<c>> => Tail(todo) = <<>>
  OBVIOUS
<1> QED
  BY <1>2, <1>3, <1>4 DEF Answered

(* A host that waits for an answer has asked something.                    *)
AskedSomething == waiting /\ phase # "exited" => todo # <<>>

LEMMA WriteType ==
  ASSUME TypeOK, Scripted, Write
  PROVE  TypeOK' /\ Scripted'
<1>1. Head(todo) \in Commands
  BY TypeParts, SeqParts DEF Write, SessionType
<1>2. toDev' \in Seq(Commands)
  BY <1>1, TypeParts, SeqParts DEF Write, LineType
<1>3. SessionType' /\ ProgramType' /\ DeviceType'
  BY TypeParts DEF Write, SessionType, ProgramType, DeviceType, program, device
<1>4. LineType'
  BY <1>2, TypeParts DEF Write, LineType
<1>5. Scripted'
  BY DEF Write, Scripted
<1> QED
  BY <1>3, <1>4, <1>5, TypeParts

LEMMA waitForResponseType ==
  ASSUME TypeOK, Scripted, AskedSomething, waitForResponse
  PROVE  TypeOK' /\ Scripted'
<1>1. ProgramType' /\ DeviceType'
  BY TypeParts DEF waitForResponse, Reads, ProgramType, DeviceType, program, device
<1>2. todo # <<>> /\ Answered /\ toHost # <<>> /\ phase # "exited"
        /\ Head(todo).op # "DUMP_ROM" /\ Take(1)
  BY DEF waitForResponse, Reads, AskedSomething
<1>3. LineType'
  <2>1. 1 \in 0 .. Len(toHost)
    BY <1>2, TypeParts DEF LineType
  <2> QED
    BY <1>2, <2>1, TakeType
<1>4. SessionType'
  BY <1>2, AnsweredType, TypeParts DEF waitForResponse, SessionType
<1>5. phase # "dump"
  BY <1>2 DEF Scripted, Command
<1>6. Scripted'
  BY <1>2, <1>5, AnsweredType DEF waitForResponse, Scripted
<1> QED
  BY <1>1, <1>3, <1>4, <1>6, TypeParts

LEMMA ReadRegisterType ==
  ASSUME TypeOK, Scripted, AskedSomething, ReadRegister
  PROVE  TypeOK' /\ Scripted'
<1>1. ProgramType' /\ DeviceType'
  BY TypeParts DEF ReadRegister, Reads, ProgramType, DeviceType, program, device
<1>2. todo # <<>> /\ Answered /\ toHost # <<>> /\ phase # "exited"
        /\ Head(todo).op # "DUMP_ROM" /\ Take(1)
  BY DEF ReadRegister, Reads, AskedSomething
<1>3. LineType'
  <2>1. 1 \in 0 .. Len(toHost)
    BY <1>2, TypeParts DEF LineType
  <2> QED
    BY <1>2, <2>1, TakeType
<1>4. got' \in Seq(Byte)
  BY <1>2, TypeParts, SeqParts DEF ReadRegister, SessionType, LineType
<1>5. SessionType'
  BY <1>2, <1>4, AnsweredType, TypeParts DEF ReadRegister, SessionType
<1>6. phase # "dump"
  BY <1>2 DEF Scripted, Command
<1>7. Scripted'
  BY <1>2, <1>6, AnsweredType DEF ReadRegister, Scripted
<1> QED
  BY <1>1, <1>3, <1>5, <1>7, TypeParts

LEMMA ReadRomWordType ==
  ASSUME TypeOK, Scripted, AskedSomething, ReadRomWord
  PROVE  TypeOK' /\ Scripted'
<1>1. ProgramType' /\ DeviceType'
  BY TypeParts DEF ReadRomWord, Reads, ProgramType, DeviceType, program, device
<1>2. /\ todo # <<>> /\ phase # "exited" /\ Head(todo).op = "DUMP_ROM"
      /\ toHost \in Seq(Byte)
  BY TypeParts DEF ReadRomWord, Reads, AskedSomething, LineType
<1>3. CASE /\ Len(toHost) >= 2 /\ Take(2)
           /\ got' = got \o <<toHost[1], toHost[2]>>
           /\ sum' = Xor(Xor(sum, toHost[2]), toHost[1])
           /\ UNCHANGED <<phase, todo, waiting, cause>>
  <2>1. toHost[1] \in Byte /\ toHost[2] \in Byte
    BY <1>2, <1>3
  <2>2. got' \in Seq(Byte)
    BY <1>3, <2>1, TypeParts, SeqOf DEF SessionType
  <2>3. sum' \in Byte
    BY <1>3, <2>1, TypeParts, XorLaws DEF SessionType
  <2>4. SessionType'
    BY <1>3, <2>2, <2>3, TypeParts DEF SessionType
  <2>5. LineType'
    <3>1. Len(toHost) \in Nat
      BY <1>2
    <3>2. 2 \in 0 .. Len(toHost)
      BY <1>3, <3>1
    <3> QED
      BY <1>3, <3>2, TakeType
  <2>6. Scripted'
    BY <1>2, <1>3 DEF Scripted
  <2> QED
    BY <1>1, <2>4, <2>5, <2>6, TypeParts
<1>4. CASE Len(toHost) = 1 /\ Take(1) /\ Exit("short read")
  <2>1. LineType'
    <3>1. Len(toHost) = 1
      BY <1>4
    <3>2. 1 \in 0 .. Len(toHost)
      BY <3>1
    <3> QED
      BY <1>4, <3>2, TakeType
  <2> QED
    BY <1>1, <1>4, <2>1, ExitType, TypeParts
<1> QED
  BY <1>3, <1>4 DEF ReadRomWord

LEMMA ReadChecksumType ==
  ASSUME TypeOK, Scripted, AskedSomething, ReadChecksum
  PROVE  TypeOK' /\ Scripted'
<1>1. ProgramType' /\ DeviceType'
  BY TypeParts DEF ReadChecksum, Reads, ProgramType, DeviceType, program, device
<1>2. /\ todo # <<>> /\ phase # "exited" /\ Head(todo).op = "DUMP_ROM"
      /\ toHost # <<>> /\ toHost \in Seq(Byte) /\ Take(1)
  BY TypeParts DEF ReadChecksum, Reads, AskedSomething, LineType
<1>3. LineType'
  <2>1. 1 \in 0 .. Len(toHost)
    BY <1>2
  <2> QED
    BY <1>2, <2>1, TakeType
<1>4. Tail(todo) \in Seq(Commands)
  BY <1>2, TypeParts, SeqParts DEF SessionType
<1>5. SessionType'
  <2>1. /\ todo' \in {todo, Tail(todo)} /\ got' \in {got, <<>>} /\ sum' \in {sum, 0}
        /\ waiting' = FALSE /\ phase' = phase /\ cause' = cause
    BY DEF ReadChecksum
  <2>2. todo \in Seq(Commands) /\ got \in Seq(Byte) /\ sum \in Byte
    BY TypeParts DEF SessionType
  <2>3. todo' \in Seq(Commands) /\ got' \in Seq(Byte) /\ sum' \in Byte
    BY <1>4, <2>1, <2>2, Bytes, SeqOf
  <2> QED
    BY <2>1, <2>3, TypeParts DEF SessionType
<1>6. phase = "dump"
  <2>1. phase # "dump" => Head(todo) \in PlainCommands
    BY <1>2, SeqParts DEF Scripted
  <2> QED
    BY <1>2, <2>1 DEF PlainCommands
<1>7. Scripted'
  <2>1. todo = <<Command("DUMP_ROM", 0)>>
    BY <1>2, <1>6 DEF Scripted
  <2>2. Tail(todo) = <<>>
    BY <2>1
  <2>3. CASE todo' = todo
    BY <1>6, <2>1, <2>3 DEF ReadChecksum, Scripted
  <2>4. CASE todo' = <<>> /\ got' = got /\ Len(got) = 2 * RomSize
    BY <1>6, <2>4 DEF ReadChecksum, Scripted
  <2> QED
    BY <2>2, <2>3, <2>4 DEF ReadChecksum
<1> QED
  BY <1>1, <1>3, <1>5, <1>7, TypeParts

LEMMA ReadRegDumpType ==
  ASSUME TypeOK, Scripted, AskedSomething, ReadRegDump
  PROVE  TypeOK' /\ Scripted'
<1>1. ProgramType' /\ DeviceType'
  BY TypeParts DEF ReadRegDump, Reads, ProgramType, DeviceType, program, device
<1>2. /\ todo # <<>> /\ phase # "exited" /\ Head(todo).op # "DUMP_ROM"
      /\ toHost \in Seq(Byte) /\ Len(DumpRegs) \in Nat
  <2>1. toHost \in Seq(Byte)
    BY TypeParts DEF LineType
  <2>2. Len(DumpRegs) \in Nat
    BY DumpAssumption
  <2> QED
    BY <2>1, <2>2 DEF ReadRegDump, Reads, AskedSomething
<1> DEFINE n == 2 * Len(DumpRegs)
<1>3. CASE /\ Len(toHost) >= n /\ Take(n) /\ got' = SubSeq(toHost, 1, n)
           /\ Answered /\ UNCHANGED <<phase, sum, cause>>
  <2>1. n \in 0 .. Len(toHost)
    BY <1>2, <1>3
  <2>2. LineType'
    <3> HIDE DEF n
    <3> QED
      BY <1>3, <2>1, TakeType
  <2>3. got' \in Seq(Byte)
    <3> HIDE DEF n
    <3> QED
      BY <1>2, <1>3, <2>1
  <2>4. SessionType'
    BY <1>2, <1>3, <2>3, AnsweredType, TypeParts DEF SessionType
  <2>5. phase # "dump"
    BY <1>2 DEF Scripted, Command
  <2>6. Scripted'
    BY <1>2, <1>3, <2>5, AnsweredType DEF Scripted
  <2> QED
    BY <1>1, <2>2, <2>4, <2>6, TypeParts
<1>4. CASE Take(Len(toHost)) /\ Exit("short read")
  <2>1. LineType'
    <3>1. Len(toHost) \in 0 .. Len(toHost)
      BY <1>2
    <3> QED
      BY <1>4, <3>1, TakeType
  <2> QED
    BY <1>1, <1>4, <2>1, ExitType, TypeParts
<1> QED
  BY <1>3, <1>4 DEF ReadRegDump

-----------------------------------------------------------------------------
(* The host's other steps leave the line and the device alone, and end     *)
(* what was to be sent.                                                    *)
LEMMA AttachType ==
  ASSUME TypeOK, Scripted, Attach
  PROVE  TypeOK' /\ Scripted'
<1>1. LineType' /\ DeviceType'
  BY TypeParts, ZenonT(60) DEF Attach, Check, Done, LineType, DeviceType, line, device
<1>2. \/ \E p \in Phases \ {"exited"} : Begin(p)
      \/ Exit("sanity check")
  BY DEF Attach, Check, Phases
<1>3. SessionType' /\ Scripted'
  BY <1>2, BeginType, BeginScripted, ExitType
<1>4. ProgramType'
  <2>1. CASE Done("dump") /\ image' = [i \in 1 .. RomSize |-> WordAt(i)]
               /\ UNCHANGED <<vm, brk, mode, steps, alarm>>
    <3>1. got \in Seq(Byte) /\ Len(got) = 2 * RomSize
      BY <2>1, TypeParts DEF Done, Scripted, SessionType
    <3>2. ASSUME NEW i \in 1 .. RomSize
          PROVE  WordAt(i) \in Word
      <4>1. 2 * i - 1 \in 1 .. Len(got) /\ 2 * i \in 1 .. Len(got)
        BY <3>1, RomAssumption
      <4>2. got[2 * i - 1] \in Byte /\ got[2 * i] \in Byte
        BY <3>1, <4>1
      <4> QED
        BY <4>2, Bytes DEF WordAt
    <3>3. image' \in Seq(Word)
      BY <2>1, <3>2, RomAssumption
    <3> QED
      BY <2>1, <3>3, TypeParts DEF ProgramType
  <2>2. CASE UNCHANGED program
    BY <2>2, TypeParts DEF ProgramType, program
  <2> QED
    BY <2>1, <2>2 DEF Attach, Check
<1> QED
  BY <1>1, <1>3, <1>4, TypeParts

LEMMA TrimType ==
  ASSUME TypeOK, Scripted, Trim
  PROVE  TypeOK' /\ Scripted'
<1>1. LineType' /\ DeviceType'
  BY TypeParts DEF Trim, Done, LineType, DeviceType, line, device
<1>2. Begin("ready") \/ \E why \in {"sanity check", "panic", "SET is last"} : Exit(why)
  BY DEF Trim
<1>3. SessionType' /\ Scripted'
  BY <1>2, BeginType, BeginScripted, ExitType DEF Phases
<1>4. image \in Seq(Word)
  BY TypeParts DEF ProgramType
<1>5. CASE Used(image) # {} /\ image' = Trimmed(image)
  <2> DEFINE last == CHOOSE i \in Used(image) : \A j \in Used(image) : j <= i
  <2>1. Used(image) \subseteq 1 .. Len(image) /\ Len(image) \in Nat
    BY <1>4 DEF Used
  <2>2. \E i \in Used(image) : \A j \in Used(image) : j <= i
    BY <1>5, <2>1, HasLast
  <2>3. last \in 1 .. Len(image)
    BY <2>1, <2>2
  <2> DEFINE kept == SubSeq(image, 1, last)
  <2>4. kept \in Seq(Word)
    <3> HIDE DEF last
    <3> QED
      BY <1>4, <2>3
  <2>5. Halt \in Word
    BY BaseAssumption DEF Halt, Word, Set
  <2>6. Append(kept, Halt) \in Seq(Word)
    <3> HIDE DEF kept
    <3> QED
      BY <2>4, <2>5, SeqParts
  <2>7. Trimmed(image) \in {kept, Append(kept, Halt)}
    BY DEF Trimmed
  <2> QED
    <3> HIDE DEF kept
    <3>1. image' \in Seq(Word)
      BY <1>5, <2>4, <2>6, <2>7
    <3> QED
      BY <1>1, <1>3, <3>1, TypeParts DEF Trim, ProgramType
<1>6. CASE UNCHANGED image
  BY <1>1, <1>3, <1>6, TypeParts DEF Trim, ProgramType
<1> QED
  BY <1>5, <1>6 DEF Trim

LEMMA EnterType ==
  ASSUME TypeOK, Scripted, NEW m \in Modes, Enter(m)
  PROVE  TypeOK' /\ Scripted'
<1>1. LineType' /\ DeviceType' /\ ProgramType'
  BY TypeParts DEF Enter, LineType, DeviceType, ProgramType, line, device
<1>2. SessionType' /\ Scripted'
  BY BeginType, BeginScripted DEF Enter, Phases
<1> QED
  BY <1>1, <1>2, TypeParts

(* A step of a processor.                                                  *)
LEMMA Wraps ==
  ASSUME NEW k \in Int
  PROVE  k % (Base * Base) \in 0 .. Base * Base - 1
<1> DEFINE n == Base * Base
<1>1. n \in Nat /\ n > 0
  BY BaseAssumption DEF Set
<1> HIDE DEF n
<1>2. k % n \in 0 .. n - 1
  BY <1>1
<1> QED
  BY <1>2 DEF n

LEMMA ExecType ==
  ASSUME NEW m \in Processor, NEW w \in Word, NEW d \in Word
  PROVE  Exec(w, m, d) \in Processor
<1>1. m.pc \in Word /\ m.rest \in Rest
  BY DEF Processor
<1>2. After(m.pc, 1) \in Word /\ After(m.pc, 2) \in Word
  BY <1>1, Wraps DEF After, Word
<1>3. NextPC(w, m.pc, m.rest, d) \in Word /\ NewRest(w, m.pc, m.rest, d) \in Rest
  BY <1>1, ProcessorAssumption
<1> DEFINE pc == CASE Op(w) = Set -> After(m.pc, 2)
                   [] Op(w) \in {Halt, Brk} \/ (Refused(w) /\ Op(w) # Set) -> After(m.pc, 1)
                   [] OTHER -> NextPC(w, m.pc, m.rest, d)
           rest == IF Op(w) \in {Halt, Brk} \/ Refused(w) THEN m.rest
                   ELSE NewRest(w, m.pc, m.rest, d)
<1>4. pc \in Word /\ rest \in Rest
  BY <1>1, <1>2, <1>3
<1>5. Exec(w, m, d) = [pc |-> pc, rest |-> rest, halted |-> Op(w) = Halt]
  BY DEF Exec
<1> HIDE DEF pc, rest
<1> QED
  BY <1>4, <1>5 DEF Processor

LEMMA SteppedTypes ==
  ASSUME TypeOK
  PROVE  VmStepped \in Processor /\ CpuStepped \in Processor
<1>1. /\ image \in Seq(Word) /\ rom \in Roms
      /\ vm \in Processor /\ cpu \in Processor
  BY TypeParts DEF ProgramType, DeviceType
<1>2. \A a : ImageWord(a) \in Word /\ RomWord(a) \in Word
  BY <1>1, ResetType, RomAssumption DEF ImageWord, RomWord
<1>3. Fetched \in Word
  BY <1>2 DEF Fetched
<1>4. VmStepped \in Processor
  <2>1. CASE Runs(vm, Len(image))
    <3>1. VmStepped = Exec(Fetched, vm, ImageWord(Source(Fetched, vm)))
      BY <2>1 DEF VmStepped
    <3> QED
      BY <1>1, <1>2, <1>3, <3>1, ExecType
  <2> QED
    BY <1>1, <2>1 DEF VmStepped
<1>5. CpuStepped \in Processor
  <2>1. CASE Runs(cpu, RomSize)
    <3>1. CpuStepped = Exec(rom[cpu.pc], cpu, RomWord(Source(rom[cpu.pc], cpu)))
      BY <2>1 DEF CpuStepped
    <3>2. cpu.pc \in 0 .. RomSize - 1
      BY <1>1, <2>1, RomAssumption, BaseAssumption DEF Runs, Processor, Word
    <3>3. rom[cpu.pc] \in Word
      BY <1>1, <3>2, RomAssumption
    <3> QED
      BY <1>1, <1>2, <3>1, <3>3, ExecType
  <2> QED
    BY <1>1, <2>1 DEF CpuStepped
<1> QED
  BY <1>4, <1>5

LEMMA StepVMType ==
  ASSUME TypeOK, Scripted, StepVM
  PROVE  TypeOK' /\ Scripted'
<1>1. LineType' /\ DeviceType'
  BY TypeParts DEF StepVM, LineType, DeviceType, line, device
<1>2. Exit("panic") \/ Begin("compare")
  BY DEF StepVM
<1>3. SessionType' /\ Scripted'
  BY <1>2, BeginType, BeginScripted, ExitType DEF Phases
<1>4. brk' \in BOOLEAN
  BY DEF StepVM
<1>5. ProgramType'
  BY <1>4, SteppedTypes, TypeParts DEF StepVM, ProgramType
<1> QED
  BY <1>1, <1>3, <1>5, TypeParts

LEMMA RunEndsType ==
  ASSUME TypeOK, Scripted, RunEnds
  PROVE  TypeOK' /\ Scripted'
<1>1. LineType' /\ DeviceType' /\ ProgramType'
  BY TypeParts DEF RunEnds, LineType, DeviceType, ProgramType, line, device, program
<1>2. SessionType' /\ Scripted'
  BY BeginType, BeginScripted, ExitType DEF RunEnds, Pause, Phases
<1> QED
  BY <1>1, <1>2, TypeParts

LEMMA CompareType ==
  ASSUME TypeOK, Scripted, Compare
  PROVE  TypeOK' /\ Scripted'
<1>1. LineType' /\ DeviceType'
  BY TypeParts DEF Compare, Done, LineType, DeviceType, line, device
<1>2. Begin("ready") \/ Begin("loop") \/ Exit("panic")
  BY DEF Compare, Pause
<1>3. SessionType' /\ Scripted'
  BY <1>2, BeginType, BeginScripted, ExitType DEF Phases
<1>4. alarm' \in BOOLEAN
  BY DEF Compare, compareRegistersWithDevice
<1>5. steps' \in Nat
  BY TypeParts DEF Compare, ProgramType
<1>6. ProgramType'
  BY <1>4, <1>5, TypeParts DEF Compare, ProgramType
<1> QED
  BY <1>1, <1>3, <1>6, TypeParts

-----------------------------------------------------------------------------
(* The device.                                                             *)
LEMMA SendType ==
  ASSUME TypeOK, NEW b \in Byte, Send(b), toDev' \in Seq(Commands)
  PROVE  LineType'
BY TypeParts, SeqParts DEF Send, LineType

LEMMA ReceivesType ==
  ASSUME TypeOK, Scripted, NEW op, Receives(op)
  PROVE  /\ SessionType' /\ ProgramType' /\ Scripted'
         /\ toDev' \in Seq(Commands) /\ Arg \in 0 .. 15 /\ rom' \in Roms
         /\ Head(toDev) \in Commands
<1>1. toDev \in Seq(Commands) /\ toDev # <<>>
  BY TypeParts DEF Receives, LineType
<1>2. Head(toDev) \in Commands /\ Tail(toDev) \in Seq(Commands)
  BY <1>1, SeqParts
<1>3. toDev' \in Seq(Commands) /\ Arg \in 0 .. 15
  BY <1>2 DEF Receives, Arg, Commands
<1>4. SessionType' /\ ProgramType' /\ rom' \in Roms
  BY TypeParts DEF Receives, SessionType, ProgramType, DeviceType, session, program
<1>5. Scripted'
  BY DEF Receives, Scripted, session
<1> QED
  BY <1>2, <1>3, <1>4, <1>5

(* What a debug register holds after it was written.                       *)
LEMMA DebugType ==
  ASSUME TypeOK, NEW v \in 0 .. 255, debug' = [debug EXCEPT !.reg[debug.sel] = v]
  PROVE  debug' \in [sel : 0 .. 15, reg : [0 .. 15 -> 0 .. 255]]
BY TypeParts DEF DeviceType

LEMMA DebugRegisters ==
  ASSUME TypeOK
  PROVE  debug.sel \in 0 .. 15 /\ \A r \in 0 .. 15 : debug.reg[r] \in 0 .. 255
<1>1. debug \in [sel : 0 .. 15, reg : [0 .. 15 -> 0 .. 255]]
  BY TypeParts DEF DeviceType
<1> QED
  BY <1>1

LEMMA Nibbles ==
  ASSUME NEW a \in 0 .. 15, NEW x \in 0 .. 255
  PROVE  16 * a + (x % 16) \in 0 .. 255 /\ 16 * (x \div 16) + a \in 0 .. 255
OBVIOUS

(* What a register shows is a word.                                        *)
LEMMA RegisterType ==
  ASSUME NEW m \in Processor, NEW r \in 0 .. 255, NEW off \in BOOLEAN
  PROVE  RegisterValue(r, m, off) \in Word
<1>1. m.pc \in Word /\ m.rest \in Rest /\ 0 \in 0 .. 255
  BY DEF Processor
<1>2. Shown(r, m.rest) \in Word /\ Shown(0, m.rest) \in Word
  BY <1>1, ProcessorAssumption
<1>3. (Shown(0, m.rest) + 1) % (Base * Base) \in Word
  BY <1>2, Wraps DEF Word
<1>4. 1 \in Word /\ Base * Base - 1 \in Word
  BY BaseAssumption DEF Word, Set
<1> QED
  BY <1>1, <1>2, <1>3, <1>4 DEF RegisterValue

LEMMA RegisterBytes ==
  ASSUME TypeOK, NEW r \in 0 .. 255, NEW i \in Nat
  PROVE  ByteOf(RegisterValue(r, cpu, deviates), i) \in Byte
<1>1. cpu \in Processor /\ deviates \in BOOLEAN
  BY TypeParts DEF DeviceType
<1>2. RegisterValue(r, cpu, deviates) \in Word
  BY <1>1, RegisterType
<1> QED
  BY <1>2, Bytes

LEMMA DeviceCommandType ==
  ASSUME TypeOK, Scripted,
         DeviceSelect \/ DeviceHigh \/ DeviceLow \/ DeviceGet \/ DeviceStep
  PROVE  TypeOK' /\ Scripted'
<1>1. CASE DeviceSelect
  <2>1. LineType' /\ Arg \in 0 .. 15 /\ rom' \in Roms
    BY <1>1, ReceivesType, SendType, Bytes DEF DeviceSelect
  <2>2. debug' \in [sel : 0 .. 15, reg : [0 .. 15 -> 0 .. 255]]
    BY <1>1, <2>1, TypeParts DEF DeviceSelect, DeviceType
  <2>3. DeviceType'
    BY <1>1, <2>1, <2>2, TypeParts DEF DeviceSelect, DeviceType
  <2> QED
    BY <1>1, <2>1, <2>3, ReceivesType, TypeParts DEF DeviceSelect
<1>2. CASE DeviceHigh
  <2>1. LineType' /\ Arg \in 0 .. 15 /\ rom' \in Roms
    BY <1>2, ReceivesType, SendType, Bytes DEF DeviceHigh
  <2> DEFINE v == 16 * Arg + (debug.reg[debug.sel] % 16)
  <2>2. debug.reg[debug.sel] \in 0 .. 255
    BY DebugRegisters
  <2>3. v \in 0 .. 255
    BY <2>1, <2>2, Nibbles
  <2>4. debug' = [debug EXCEPT !.reg[debug.sel] = v]
    BY <1>2 DEF DeviceHigh
  <2>5. debug' \in [sel : 0 .. 15, reg : [0 .. 15 -> 0 .. 255]]
    <3> HIDE DEF v
    <3> QED
      BY <2>3, <2>4, DebugType
  <2>6. DeviceType'
    BY <1>2, <2>1, <2>5, TypeParts DEF DeviceHigh, DeviceType
  <2> QED
    BY <1>2, <2>1, <2>6, ReceivesType, TypeParts DEF DeviceHigh
<1>3. CASE DeviceLow
  <2>1. LineType' /\ Arg \in 0 .. 15 /\ rom' \in Roms
    BY <1>3, ReceivesType, SendType, Bytes DEF DeviceLow
  <2> DEFINE v == 16 * (debug.reg[debug.sel] \div 16) + Arg
  <2>2. debug.reg[debug.sel] \in 0 .. 255
    BY DebugRegisters
  <2>3. v \in 0 .. 255
    BY <2>1, <2>2, Nibbles
  <2>4. debug' = [debug EXCEPT !.reg[debug.sel] = v]
    BY <1>3 DEF DeviceLow
  <2>5. debug' \in [sel : 0 .. 15, reg : [0 .. 15 -> 0 .. 255]]
    <3> HIDE DEF v
    <3> QED
      BY <2>3, <2>4, DebugType
  <2>6. cpu' \in Processor
    <3>1. cpu' \in {cpu, Reset}
      BY <1>3 DEF DeviceLow
    <3>2. cpu \in Processor
      BY TypeParts DEF DeviceType
    <3> QED
      BY <3>1, <3>2, ResetType
  <2>7. DeviceType'
    BY <1>3, <2>1, <2>5, <2>6, TypeParts DEF DeviceLow, DeviceType
  <2> QED
    BY <1>3, <2>1, <2>7, ReceivesType, TypeParts DEF DeviceLow
<1>4. CASE DeviceGet
  <2>1. Arg \in 0 .. 15 /\ rom' \in Roms /\ toDev' \in Seq(Commands)
    BY <1>4, ReceivesType DEF DeviceGet
  <2>2. debug.reg[1] \in 0 .. 255 /\ debug.reg[Arg] \in 0 .. 255
    <3>1. \A r \in 0 .. 15 : debug.reg[r] \in 0 .. 255
      BY DebugRegisters
    <3>2. debug.reg[Arg] \in 0 .. 255
      BY <2>1, <3>1
    <3>3. 1 \in 0 .. 15
      OBVIOUS
    <3>4. debug.reg[1] \in 0 .. 255
      BY <3>1, <3>3, Zenon
    <3> QED
      BY <3>2, <3>4
  <2>3. Low(debug.reg[Arg]) \in Byte
    BY <2>2, Bytes DEF Low, Byte
  <2>4. ByteOf(RegisterValue(debug.reg[1], cpu, deviates), Arg) \in Byte
    <3>1. debug.reg[1] \in 0 .. 255
      BY <2>2
    <3>2. Arg \in Nat
      BY <2>1
    <3> QED
      BY <3>1, <3>2, RegisterBytes
  <2>5. LineType'
    BY <1>4, <2>1, <2>3, <2>4, SendType DEF DeviceGet
  <2>6. DeviceType'
    BY <1>4, <2>1, TypeParts DEF DeviceGet, DeviceType
  <2> QED
    BY <1>4, <2>5, <2>6, ReceivesType, TypeParts DEF DeviceGet
<1>5. CASE DeviceStep
  <2>1. LineType' /\ rom' \in Roms
    BY <1>5, ReceivesType, SendType, Bytes DEF DeviceStep
  <2>3. CpuStepped \in Processor
    BY SteppedTypes
  <2>4. deviates' \in BOOLEAN
    BY <1>5, TypeParts DEF DeviceStep, DeviceType
  <2>5. DeviceType'
    BY <1>5, <2>1, <2>3, <2>4, TypeParts DEF DeviceStep, DeviceType
  <2> QED
    BY <1>5, <2>1, <2>5, ReceivesType, TypeParts DEF DeviceStep
<1> QED
  BY <1>1, <1>2, <1>3, <1>4, <1>5

LEMMA DeviceDumpType ==
  ASSUME TypeOK, Scripted, DeviceDump
  PROVE  TypeOK' /\ Scripted'
<1>1. PICK op \in {"DUMP_ROM", "DUMP_REGS"} : Receives(op)
  BY DEF DeviceDump
<1>2. toDev' \in Seq(Commands) /\ rom' \in Roms /\ SessionType' /\ ProgramType' /\ Scripted'
  BY <1>1, ReceivesType
<1>3. LineType'
  BY <1>2, TypeParts DEF DeviceDump, LineType
<1>4. reply' = [kind |-> op, at |-> 0, sum |-> 0]
  BY <1>1 DEF DeviceDump, Receives
<1>5. reply' \in RomReplies \cup RegsReplies
  <2>1. 0 \in 0 .. 2 * RomSize
    BY RomAssumption
  <2>2. 0 \in 0 .. 2 * Len(DumpRegs) - 1
    BY DumpAssumption
  <2> QED
    BY <1>1, <1>4, <2>1, <2>2, Bytes DEF RomReplies, RegsReplies
<1>6. DeviceType'
  BY <1>2, <1>5, TypeParts DEF DeviceDump, DeviceType
<1> QED
  BY <1>2, <1>3, <1>6, TypeParts

LEMMA DeviceSendsType ==
  ASSUME TypeOK, Scripted, DeviceSends
  PROVE  TypeOK' /\ Scripted'
<1>1. SessionType' /\ ProgramType' /\ Scripted' /\ toDev' \in Seq(Commands)
  BY TypeParts DEF DeviceSends, SessionType, ProgramType, LineType, Scripted, session, program
<1>2. reply \in RomReplies \cup RegsReplies /\ rom \in [0 .. RomSize - 1 -> Word]
  BY TypeParts, RomAssumption DEF DeviceSends, DeviceType
<1>3. CASE reply \in RomReplies /\ reply.at = 2 * RomSize
  <2>1. reply.kind = "DUMP_ROM" /\ reply.sum \in Byte
    BY <1>3 DEF RomReplies
  <2>2. Send(reply.sum) /\ reply' = Idle /\ UNCHANGED <<rom, debug, cpu, deviates>>
    BY <1>3, <2>1 DEF DeviceSends
  <2>3. LineType'
    BY <1>1, <2>1, <2>2, SendType
  <2>4. DeviceType'
    BY <2>2, TypeParts DEF DeviceType
  <2> QED
    BY <1>1, <2>3, <2>4, TypeParts
<1>4. CASE reply \in RomReplies /\ reply.at # 2 * RomSize
  <2> DEFINE b == ByteOf(rom[reply.at \div 2], reply.at)
  <2>1. reply.kind = "DUMP_ROM" /\ reply.at \in 0 .. 2 * RomSize - 1 /\ reply.sum \in Byte
    BY <1>4, RomAssumption DEF RomReplies
  <2>2. reply.at \div 2 \in 0 .. RomSize - 1 /\ reply.at \in Nat
    BY <2>1, RomAssumption
  <2>3. b \in Byte
    BY <1>2, <2>2, Bytes
  <2>4. /\ Send(b) /\ reply' = [reply EXCEPT !.at = @ + 1, !.sum = Xor(@, b)]
        /\ UNCHANGED <<rom, debug, cpu, deviates>>
    BY <1>4, <2>1 DEF DeviceSends
  <2> HIDE DEF b
  <2>5. LineType'
    BY <1>1, <2>3, <2>4, SendType
  <2>6. reply.at + 1 \in 0 .. 2 * RomSize /\ Xor(reply.sum, b) \in Byte
    <3>1. reply.at + 1 \in 0 .. 2 * RomSize
      BY <2>1, RomAssumption
    <3>2. Xor(reply.sum, b) \in Byte
      BY <2>1, <2>3, XorLaws
    <3> QED
      BY <3>1, <3>2
  <2>7. reply' \in RomReplies
    BY <1>4, <2>4, <2>6 DEF RomReplies
  <2>8. DeviceType'
    BY <2>4, <2>7, TypeParts DEF DeviceType
  <2> QED
    BY <1>1, <2>5, <2>8, TypeParts
<1>5. CASE reply \in RegsReplies
  <2> DEFINE b == ByteOf(RegisterValue(DumpRegs[reply.at \div 2 + 1], cpu, deviates), reply.at)
  <2>1. /\ reply.kind = "DUMP_REGS" /\ reply.at \in 0 .. 2 * Len(DumpRegs) - 1
        /\ reply.sum \in Byte /\ Len(DumpRegs) \in Nat /\ reply.at \in Nat
    BY <1>5, DumpAssumption DEF RegsReplies
  <2>2. reply.at \div 2 + 1 \in 1 .. Len(DumpRegs)
    BY <2>1
  <2>3. b \in Byte
    <3>1. DumpRegs[reply.at \div 2 + 1] \in 0 .. 15
      BY <2>2, DumpAssumption
    <3>2. DumpRegs[reply.at \div 2 + 1] \in 0 .. 255
      BY <3>1
    <3> QED
      BY <2>1, <3>2, RegisterBytes
  <2>4. /\ Send(b)
        /\ reply' = IF reply.at + 1 = 2 * Len(DumpRegs) THEN Idle
                    ELSE [reply EXCEPT !.at = @ + 1, !.sum = Xor(@, b)]
        /\ UNCHANGED <<rom, debug, cpu, deviates>>
    BY <2>1 DEF DeviceSends
  <2> HIDE DEF b
  <2>5. LineType'
    BY <1>1, <2>3, <2>4, SendType
  <2>6. Xor(reply.sum, b) \in Byte
    BY <2>1, <2>3, XorLaws
  <2>7. reply' \in {Idle} \cup RegsReplies
    <3>1. CASE reply.at + 1 = 2 * Len(DumpRegs)
      BY <2>4, <3>1
    <3>2. CASE reply.at + 1 # 2 * Len(DumpRegs)
      <4>1. reply.at + 1 \in 0 .. 2 * Len(DumpRegs) - 1
        BY <2>1, <3>2
      <4> QED
        BY <1>5, <2>4, <2>6, <3>2, <4>1 DEF RegsReplies
    <3> QED
      BY <3>1, <3>2
  <2>8. DeviceType'
    BY <2>4, <2>7, TypeParts DEF DeviceType
  <2> QED
    BY <1>1, <2>5, <2>8, TypeParts
<1> QED
  BY <1>2, <1>3, <1>4, <1>5

-----------------------------------------------------------------------------
(* The line.                                                               *)
LEMMA OthersType ==
  ASSUME TypeOK, Scripted, UNCHANGED session, UNCHANGED program, UNCHANGED device
  PROVE  SessionType' /\ ProgramType' /\ DeviceType' /\ Scripted'
<1>1. SessionType'
  BY TypeParts DEF SessionType, session
<1>2. ProgramType'
  BY TypeParts DEF ProgramType, program
<1>3. DeviceType'
  BY TypeParts DEF DeviceType, device
<1>4. Scripted'
  BY DEF Scripted, session
<1> QED
  BY <1>1, <1>2, <1>3, <1>4

LEMMA ChangeType ==
  ASSUME TypeOK, Scripted, Change
  PROVE  TypeOK' /\ Scripted'
<1>1. SessionType' /\ ProgramType' /\ DeviceType' /\ Scripted'
  <2>1. UNCHANGED session /\ UNCHANGED program /\ UNCHANGED device
    BY DEF Change
  <2> QED
    BY <2>1, OthersType
<1>2. toHost \in Seq(Byte) /\ changed \in 0 .. MaxChanged
  BY TypeParts DEF LineType
<1>3. toHost' \in Seq(Byte)
  <2>1. PICK i \in DOMAIN toHost, b \in Byte : toHost' = [toHost EXCEPT ![i] = b]
    BY DEF Change
  <2> QED
    BY <1>2, <2>1
<1>4. changed' \in 0 .. MaxChanged
  BY <1>2, LimitAssumption DEF Change
<1>5. LineType'
  BY <1>3, <1>4, TypeParts DEF Change, LineType
<1> QED
  BY <1>1, <1>5, TypeParts

LEMMA LoseType ==
  ASSUME TypeOK, Scripted, Lose
  PROVE  TypeOK' /\ Scripted'
<1>1. SessionType' /\ ProgramType' /\ DeviceType' /\ Scripted'
  <2>1. UNCHANGED session /\ UNCHANGED program /\ UNCHANGED device
    BY DEF Lose
  <2> QED
    BY <2>1, OthersType
<1>2. toHost \in Seq(Byte) /\ toDev \in Seq(Commands)
  BY TypeParts DEF LineType
<1>3. toHost' \in Seq(Byte) /\ toDev' \in Seq(Commands)
  BY <1>2, SeqParts DEF Lose
<1>4. LineType'
  BY <1>3, TypeParts DEF Lose, LineType
<1> QED
  BY <1>1, <1>4, TypeParts

-----------------------------------------------------------------------------
(* Question and answer.  While the host waits, either its command is all   *)
(* there is, or it has arrived and what was read of the answer, is on the  *)
(* line and will be sent makes up the whole answer at most, and less once  *)
(* a byte was lost: then the end of it will not be read.                   *)
AnswerLength(op) ==
  CASE op = "DUMP_ROM"  -> 2 * RomSize + 1
    [] op = "DUMP_REGS" -> 2 * Len(DumpRegs)
    [] OTHER            -> 1
Unsent      == IF reply = Idle THEN 0 ELSE AnswerLength(reply.kind) - reply.at
AlreadyRead == IF Head(todo).op = "DUMP_ROM" THEN Len(got) ELSE 0

Sent ==
  /\ toDev = <<Head(todo)>> /\ toHost = <<>> /\ reply = Idle
  /\ ~lost /\ AlreadyRead = 0
Received ==
  /\ toDev = <<>>
  /\ reply # Idle => reply.kind = Head(todo).op
  /\ AlreadyRead + Len(toHost) + Unsent <= AnswerLength(Head(todo).op)
  /\ lost => AlreadyRead + Len(toHost) + Unsent < AnswerLength(Head(todo).op)
  /\ ~lost => AlreadyRead + Len(toHost) + Unsent = AnswerLength(Head(todo).op)

Turn ==
  /\ InStep
  /\ waiting /\ phase # "exited" => todo # <<>> /\ (Sent \/ Received)
  /\ ~waiting /\ phase = "dump" /\ todo # <<>> => got = <<>>

LEMMA Lengths ==
  ASSUME TypeOK
  PROVE  /\ \A op : AnswerLength(op) \in Nat \ {0}
         /\ \A op : op \notin {"DUMP_ROM", "DUMP_REGS"} => AnswerLength(op) = 1
         /\ AnswerLength("DUMP_ROM") = 2 * RomSize + 1
         /\ AnswerLength("DUMP_REGS") = 2 * Len(DumpRegs)
         /\ Unsent \in Nat /\ AlreadyRead \in Nat /\ Len(toHost) \in Nat
         /\ Unsent = 0 => reply = Idle
<1>1. 2 * RomSize + 1 \in Nat \ {0} /\ 2 * Len(DumpRegs) \in Nat \ {0}
  BY RomAssumption, DumpAssumption
<1>2. /\ \A op : AnswerLength(op) \in Nat \ {0}
      /\ \A op : op \notin {"DUMP_ROM", "DUMP_REGS"} => AnswerLength(op) = 1
      /\ AnswerLength("DUMP_ROM") = 2 * RomSize + 1
      /\ AnswerLength("DUMP_REGS") = 2 * Len(DumpRegs)
  BY <1>1 DEF AnswerLength
<1>3. Len(got) \in Nat /\ Len(toHost) \in Nat
  <2>1. got \in Seq(Byte) /\ toHost \in Seq(Byte)
    BY TypeParts DEF SessionType, LineType
  <2> QED
    BY <2>1
<1>4. CASE reply = Idle
  BY <1>2, <1>3, <1>4 DEF Unsent, AlreadyRead
<1>5. CASE reply \in RomReplies
  <2>1. reply.kind = "DUMP_ROM" /\ reply.at \in 0 .. 2 * RomSize
    BY <1>5 DEF RomReplies
  <2>2. reply # Idle
    BY <2>1 DEF Idle
  <2>3. Unsent \in Nat /\ Unsent # 0
    BY <1>2, <2>1, <2>2, RomAssumption DEF Unsent
  <2> QED
    BY <1>2, <1>3, <2>3 DEF AlreadyRead
<1>6. CASE reply \in RegsReplies
  <2>1. reply.kind = "DUMP_REGS" /\ reply.at \in 0 .. 2 * Len(DumpRegs) - 1
    BY <1>6 DEF RegsReplies
  <2>2. reply # Idle
    BY <2>1 DEF Idle
  <2>3. Unsent \in Nat /\ Unsent # 0
    BY <1>1, <1>2, <2>1, <2>2, DumpAssumption DEF Unsent
  <2> QED
    BY <1>2, <1>3, <2>3 DEF AlreadyRead
<1>7. Unsent \in Nat /\ (Unsent = 0 => reply = Idle)
  <2>1. reply \in {Idle} \cup RomReplies \cup RegsReplies
    BY TypeParts DEF DeviceType
  <2> QED
    BY <1>4, <1>5, <1>6, <2>1 DEF Unsent
<1> QED
  BY <1>2, <1>3, <1>7 DEF AlreadyRead

(* Who reads the end of an answer leaves nothing behind.                   *)
LEMMA LastRead ==
  ASSUME TypeOK, Turn, waiting, phase # "exited", NEW n \in 1 .. Len(toHost),
         AlreadyRead + n = AnswerLength(Head(todo).op)
  PROVE  ~lost /\ toDev = <<>> /\ reply = Idle /\ Len(toHost) = n
<1>1. toHost \in Seq(Byte) /\ n \in Nat /\ n # 0
  BY TypeParts DEF LineType
<1>2. toHost # <<>>
  BY <1>1
<1>3. Received
  BY <1>2 DEF Turn, Sent
<1> QED
  BY <1>1, <1>3, Lengths DEF Received

(* Starting the next operation finds everything clear and leaves it so.    *)
LEMMA BeginTurn ==
  ASSUME Turn, phase # "exited", todo = <<>>, UNCHANGED <<line, device>>,
         NEW p, Begin(p)
  PROVE  Turn'
<1>1. ~waiting
  BY DEF Turn
<1>2. ~lost /\ toDev = <<>> /\ toHost = <<>> /\ reply = Idle
  BY <1>1 DEF Turn, InStep
<1> QED
  BY <1>2 DEF Turn, InStep, Begin, line, device

LEMMA ExitTurn ==
  ASSUME NEW why, Exit(why)
  PROVE  Turn'
BY DEF Exit, Turn, InStep

LEMMA HostStepsTurn ==
  ASSUME Scripted, Turn,
         Attach \/ Trim \/ StepVM \/ RunEnds \/ Compare \/ (\E m \in Modes : Enter(m))
  PROVE  Turn'
<1>1. phase # "exited" /\ todo = <<>> /\ UNCHANGED <<line, device>>
  <2>1. CASE Attach \/ Trim \/ Compare
    BY <2>1 DEF Attach, Check, Trim, Compare, Done
  <2>2. CASE StepVM
    BY <2>2 DEF StepVM, Scripted
  <2>3. CASE RunEnds
    BY <2>3 DEF RunEnds, Scripted
  <2>4. CASE \E m \in Modes : Enter(m)
    BY <2>4 DEF Enter, Scripted
  <2> QED
    BY <2>1, <2>2, <2>3, <2>4
<1>2. (\E p : Begin(p)) \/ (\E why : Exit(why))
  <2>1. CASE Attach
    BY <2>1 DEF Attach, Check
  <2>2. CASE Trim
    BY <2>2 DEF Trim
  <2>3. CASE Compare
    BY <2>3 DEF Compare, Pause
  <2>4. CASE StepVM \/ RunEnds
    BY <2>4 DEF StepVM, RunEnds, Pause
  <2>5. CASE \E m \in Modes : Enter(m)
    BY <2>5 DEF Enter
  <2> QED
    BY <2>1, <2>2, <2>3, <2>4, <2>5
<1> QED
  BY <1>1, <1>2, BeginTurn, ExitTurn

LEMMA WriteTurn ==
  ASSUME TypeOK, Scripted, Turn, Write
  PROVE  Turn'
<1>1. /\ phase # "exited" /\ todo # <<>> /\ ~waiting /\ waiting' = TRUE
      /\ toDev' = Append(toDev, Head(todo))
      /\ UNCHANGED <<phase, todo, got, toHost, lost, reply>>
  BY DEF Write, device
<1>2. ~lost /\ toDev = <<>> /\ toHost = <<>> /\ reply = Idle
  BY <1>1 DEF Turn, InStep
<1>3. toDev' = <<Head(todo)>>
  BY <1>1, <1>2
<1>4. AlreadyRead = 0
  <2>1. CASE phase = "dump"
    BY <1>1, <2>1 DEF Turn, AlreadyRead
  <2>2. CASE phase # "dump"
    <3>1. Head(todo) \in PlainCommands
      BY <1>1, <2>2, SeqParts DEF Scripted
    <3> QED
      BY <3>1 DEF PlainCommands, AlreadyRead
  <2> QED
    BY <2>1, <2>2
<1>5. Sent'
  BY <1>1, <1>2, <1>3, <1>4 DEF Sent, AlreadyRead
<1> QED
  BY <1>1, <1>5 DEF Turn, InStep

LEMMA AnswerTurn ==
  ASSUME TypeOK, Scripted, Turn, waitForResponse \/ ReadRegister
  PROVE  Turn'
<1>1. /\ phase # "exited" /\ waiting /\ toHost # <<>>
      /\ Head(todo).op \notin {"DUMP_ROM", "DUMP_REGS"}
      /\ Take(1) /\ waiting' = FALSE /\ todo' = Tail(todo)
      /\ UNCHANGED <<phase, reply>>
  BY DEF waitForResponse, ReadRegister, Reads, Answered, device
<1>2. toHost \in Seq(Byte)
  BY TypeParts DEF LineType
<1>3. 1 \in 1 .. Len(toHost)
  BY <1>1, <1>2
<1>4. AlreadyRead + 1 = AnswerLength(Head(todo).op)
  BY <1>1, Lengths DEF AlreadyRead
<1>5. ~lost /\ toDev = <<>> /\ reply = Idle /\ Len(toHost) = 1
  BY <1>1, <1>3, <1>4, LastRead
<1>6. Len(toHost') = 0 /\ toHost' \in Seq(Byte)
  <2>1. 1 \in 0 .. Len(toHost)
    BY <1>3
  <2>2. LineType' /\ Len(toHost') = Len(toHost) - 1
    BY <1>1, <2>1, TakeType
  <2> QED
    BY <1>5, <2>2 DEF LineType
<1>7. toHost' = <<>>
  BY <1>6
<1>8. ~lost' /\ toDev' = <<>> /\ reply' = Idle
  BY <1>1, <1>5 DEF Take
<1>9. phase # "dump"
  <2>1. todo # <<>>
    BY <1>1 DEF Turn
  <2> QED
    BY <1>1, <2>1 DEF Scripted, Command
<1> QED
  BY <1>1, <1>7, <1>8, <1>9 DEF Turn, InStep

LEMMA ReadRomWordTurn ==
  ASSUME TypeOK, Turn, ReadRomWord
  PROVE  Turn'
<1>1. /\ phase # "exited" /\ waiting /\ toHost # <<>> /\ Head(todo).op = "DUMP_ROM"
      /\ UNCHANGED reply
  BY DEF ReadRomWord, Reads, device
<1>2. CASE \E why : Exit(why)
  BY <1>2, ExitTurn
<1>3. CASE /\ Len(toHost) >= 2 /\ Take(2)
           /\ got' = got \o <<toHost[1], toHost[2]>>
           /\ UNCHANGED <<phase, todo, waiting, cause>>
  <2>1. toHost \in Seq(Byte) /\ got \in Seq(Byte)
    BY TypeParts DEF LineType, SessionType
  <2>2. Len(toHost) \in Nat /\ Len(toHost) >= 2
    BY <1>3, <2>1
  <2>3. Len(toHost') = Len(toHost) - 2
    <3>1. 2 \in 0 .. Len(toHost)
      BY <2>2
    <3> QED
      BY <1>3, <3>1, TakeType
  <2>4. Len(got') = Len(got) + 2 /\ Len(got) \in Nat
    BY <1>3, <2>1
  <2>5. Received /\ todo # <<>>
    BY <1>1 DEF Turn, Sent
  <2>6. UNCHANGED <<todo, toDev, lost, reply>>
    BY <1>1, <1>3 DEF Take
  <2>7. Unsent' = Unsent /\ AlreadyRead' = AlreadyRead + 2
    BY <1>1, <2>4, <2>6 DEF Unsent, AlreadyRead
  <2>8. AlreadyRead' + Len(toHost') + Unsent' = AlreadyRead + Len(toHost) + Unsent
    BY <2>3, <2>7, Lengths
  <2>9. Received'
    BY <2>5, <2>6, <2>8 DEF Received
  <2> QED
    BY <1>1, <1>3, <2>5, <2>6, <2>9 DEF Turn, InStep
<1> QED
  BY <1>2, <1>3 DEF ReadRomWord

LEMMA ReadChecksumTurn ==
  ASSUME TypeOK, Scripted, Turn, ReadChecksum
  PROVE  Turn'
<1>1. /\ phase # "exited" /\ waiting /\ toHost # <<>> /\ Head(todo).op = "DUMP_ROM"
      /\ Len(got) = 2 * RomSize /\ Take(1) /\ waiting' = FALSE
      /\ UNCHANGED <<phase, reply>>
      /\ todo' = Tail(todo) \/ got' = <<>>
  BY DEF ReadChecksum, Reads, device
<1>2. toHost \in Seq(Byte) /\ todo # <<>>
  BY <1>1, TypeParts DEF LineType, Turn
<1>3. 1 \in 1 .. Len(toHost)
  BY <1>1, <1>2
<1>4. AlreadyRead + 1 = AnswerLength(Head(todo).op)
  BY <1>1, Lengths DEF AlreadyRead
<1>5. ~lost /\ toDev = <<>> /\ reply = Idle /\ Len(toHost) = 1
  BY <1>1, <1>3, <1>4, LastRead
<1>6. Len(toHost') = 0 /\ toHost' \in Seq(Byte)
  <2>1. 1 \in 0 .. Len(toHost)
    BY <1>3
  <2>2. LineType' /\ Len(toHost') = Len(toHost) - 1
    BY <1>1, <2>1, TakeType
  <2> QED
    BY <1>5, <2>2 DEF LineType
<1>7. toHost' = <<>>
  BY <1>6
<1>8. ~lost' /\ toDev' = <<>> /\ reply' = Idle
  BY <1>1, <1>5 DEF Take
<1>9. phase = "dump" => Tail(todo) = <<>>
  <2>1. phase = "dump" => \E c : todo = <<c>>
    BY <1>2 DEF Scripted
  <2>2. \A c : todo = <<c>> => Tail(todo) = <<>>
    OBVIOUS
  <2> QED
    BY <2>1, <2>2
<1>10. ~waiting' /\ phase' = "dump" /\ todo' # <<>> => got' = <<>>
  BY <1>1, <1>9
<1>11. InStep'
  BY <1>7, <1>8 DEF InStep
<1>12. ~waiting'
  BY <1>1
<1> QED
  BY <1>10, <1>11, <1>12 DEF Turn

LEMMA ReadRegDumpTurn ==
  ASSUME TypeOK, Scripted, Turn, ReadRegDump
  PROVE  Turn'
<1>1. /\ phase # "exited" /\ waiting /\ toHost # <<>> /\ Head(todo).op = "DUMP_REGS"
      /\ UNCHANGED reply
  BY DEF ReadRegDump, Reads, device
<1> DEFINE n == 2 * Len(DumpRegs)
<1>2. CASE \E why : Exit(why)
  BY <1>2, ExitTurn
<1>3. CASE Len(toHost) >= n /\ Take(n) /\ Answered /\ phase' = phase
  <2>1. n \in Nat \ {0} /\ n = AnswerLength("DUMP_REGS")
    BY Lengths
  <2> HIDE DEF n
  <2>2. Len(toHost) \in Nat /\ Len(toHost) >= n
    BY <1>3, Lengths
  <2>3. n \in 1 .. Len(toHost) /\ n \in 0 .. Len(toHost)
    BY <2>1, <2>2
  <2>4. AlreadyRead + n = AnswerLength(Head(todo).op)
    BY <1>1, <2>1 DEF AlreadyRead
  <2>5. ~lost /\ toDev = <<>> /\ reply = Idle /\ Len(toHost) = n
    BY <1>1, <2>3, <2>4, LastRead
  <2>6. LineType' /\ Len(toHost') = Len(toHost) - n
    BY <1>3, <2>3, TakeType
  <2>7. toHost' \in Seq(Byte) /\ Len(toHost') = 0
    BY <2>1, <2>5, <2>6 DEF LineType
  <2>8. toHost' = <<>>
    BY <2>7
  <2>9. /\ ~lost' /\ toDev' = <<>> /\ reply' = Idle
        /\ waiting' = FALSE /\ phase' = phase
    BY <1>1, <1>3, <2>5 DEF Take, Answered
  <2>10. phase # "dump"
    <3>1. todo # <<>>
      BY <1>1 DEF Turn
    <3> QED
      BY <1>1, <3>1 DEF Scripted, Command
  <2> QED
    BY <2>8, <2>9, <2>10 DEF Turn, InStep
<1> QED
  BY <1>2, <1>3 DEF ReadRegDump

LEMMA DeviceAnswersTurn ==
  ASSUME TypeOK, Scripted, Turn,
         DeviceSelect \/ DeviceHigh \/ DeviceLow \/ DeviceGet \/ DeviceStep
  PROVE  Turn'
<1>1. PICK b : Send(b)
  BY DEF DeviceSelect, DeviceHigh, DeviceLow, DeviceGet, DeviceStep
<1>2. PICK op \in {"SET", "HI", "LO", "GET", "STEP"} : Receives(op)
  BY DEF DeviceSelect, DeviceHigh, DeviceLow, DeviceGet, DeviceStep
<1>3. /\ reply = Idle /\ toDev # <<>> /\ Head(toDev).op = op /\ toDev' = Tail(toDev)
      /\ UNCHANGED <<phase, todo, waiting, got>>
  BY <1>2 DEF Receives, session
<1>4. UNCHANGED reply
  BY DEF DeviceSelect, DeviceHigh, DeviceLow, DeviceGet, DeviceStep
<1>5. CASE phase = "exited"
  BY <1>3, <1>5 DEF Turn, InStep
<1>6. CASE phase # "exited"
  <2>1. waiting /\ todo # <<>> /\ Sent
    BY <1>3, <1>6 DEF Turn, InStep, Received
  <2>2. Head(todo).op = op
    BY <1>3, <2>1 DEF Sent
  <2>3. toDev' = <<>> /\ toHost' = <<b>> /\ ~lost'
    BY <1>1, <1>3, <2>1 DEF Send, Sent
  <2>4. AlreadyRead' = 0 /\ Unsent' = 0 /\ Len(toHost') = 1 /\ reply' = Idle
    BY <1>3, <1>4, <2>1, <2>2, <2>3 DEF AlreadyRead, Unsent, Sent
  <2>5. AnswerLength(Head(todo').op) = 1
    BY <1>3, <2>2, Lengths
  <2>6. Received'
    BY <2>3, <2>4, <2>5 DEF Received
  <2> QED
    BY <1>3, <1>6, <2>1, <2>6 DEF Turn, InStep
<1> QED
  BY <1>5, <1>6

LEMMA DeviceDumpTurn ==
  ASSUME TypeOK, Scripted, Turn, DeviceDump
  PROVE  Turn'
<1>1. PICK op \in {"DUMP_ROM", "DUMP_REGS"} : Receives(op)
  BY DEF DeviceDump
<1>2. /\ reply = Idle /\ toDev # <<>> /\ Head(toDev).op = op /\ toDev' = Tail(toDev)
      /\ UNCHANGED <<phase, todo, waiting, got, toHost, lost>>
      /\ reply' = [kind |-> op, at |-> 0, sum |-> 0]
  BY <1>1 DEF Receives, session, DeviceDump
<1>3. CASE phase = "exited"
  BY <1>2, <1>3 DEF Turn, InStep
<1>4. CASE phase # "exited"
  <2>1. waiting /\ todo # <<>> /\ Sent
    BY <1>2, <1>4 DEF Turn, InStep, Received
  <2>2. Head(todo).op = op /\ ~lost /\ toHost = <<>> /\ AlreadyRead = 0
    BY <1>2, <2>1 DEF Sent
  <2>3. toDev' = <<>>
    BY <1>2, <2>1 DEF Sent
  <2>4. reply'.kind = op /\ reply'.at = 0 /\ reply' # Idle
    BY <1>2 DEF Idle
  <2>5. AnswerLength(op) \in Nat
    BY Lengths
  <2>6. Unsent' = AnswerLength(op)
    BY <2>4, <2>5 DEF Unsent
  <2>7. AlreadyRead' = 0 /\ Len(toHost') = 0 /\ ~lost'
    BY <1>2, <2>2 DEF AlreadyRead
  <2>8. Received'
    BY <1>2, <2>2, <2>3, <2>4, <2>5, <2>6, <2>7 DEF Received
  <2> QED
    BY <1>2, <1>4, <2>1, <2>8 DEF Turn, InStep
<1> QED
  BY <1>3, <1>4

LEMMA DeviceSendsTurn ==
  ASSUME TypeOK, Scripted, Turn, DeviceSends
  PROVE  Turn'
<1>1. PICK b : Send(b)
  BY DEF DeviceSends
<1>2. reply # Idle /\ UNCHANGED <<phase, todo, waiting, got, toDev, lost>>
  BY DEF DeviceSends, Send, session
<1>3. CASE phase = "exited"
  BY <1>2, <1>3 DEF Turn, InStep
<1>4. CASE phase # "exited"
  <2>1. waiting /\ todo # <<>> /\ Received
    BY <1>2, <1>4 DEF Turn, InStep, Sent
  <2>2. toHost' = Append(toHost, b) /\ toHost \in Seq(Byte)
    BY <1>1, TypeParts DEF Send, LineType
  <2>3. Len(toHost') = Len(toHost) + 1
    BY <2>2
  <2>4. (reply' # Idle => reply'.kind = reply.kind) /\ Unsent' = Unsent - 1
    <3>1. CASE reply \in RomReplies
      <4>1. reply.kind = "DUMP_ROM" /\ reply.at \in 0 .. 2 * RomSize
        BY <3>1 DEF RomReplies
      <4>2. Unsent = (2 * RomSize + 1) - reply.at
        <5>1. Unsent = AnswerLength(reply.kind) - reply.at
          BY <1>2 DEF Unsent
        <5>2. AnswerLength(reply.kind) = 2 * RomSize + 1
          BY <4>1, Lengths
        <5> QED
          BY <5>1, <5>2, Zenon
      <4>3. CASE reply.at = 2 * RomSize
        <5>1. reply' = Idle
          BY <4>1, <4>3 DEF DeviceSends
        <5> QED
          BY <4>2, <4>3, <5>1, RomAssumption DEF Unsent
      <4>4. CASE reply.at # 2 * RomSize
        <5>1. PICK x : reply' = [reply EXCEPT !.at = @ + 1, !.sum = x]
          BY <4>1, <4>4 DEF DeviceSends
        <5>2. reply'.kind = "DUMP_ROM" /\ reply'.at = reply.at + 1
          BY <3>1, <4>1, <5>1 DEF RomReplies
        <5>3. reply' # Idle
          BY <5>2 DEF Idle
        <5>4. Unsent' = (2 * RomSize + 1) - (reply.at + 1)
          <6>1. Unsent' = AnswerLength(reply'.kind) - reply'.at
            BY <5>3 DEF Unsent
          <6>2. AnswerLength(reply'.kind) = 2 * RomSize + 1
            BY <5>2, Lengths
          <6> QED
            BY <5>2, <6>1, <6>2, Zenon
        <5> QED
          BY <4>1, <4>2, <5>2, <5>4, RomAssumption
      <4> QED
        BY <4>3, <4>4
    <3>2. CASE reply \in RegsReplies
      <4> DEFINE n == 2 * Len(DumpRegs)
      <4>1. reply.kind = "DUMP_REGS" /\ reply.at \in 0 .. n - 1 /\ n \in Nat
        BY <3>2, DumpAssumption DEF RegsReplies
      <4>2. Unsent = n - reply.at
        BY <1>2, <4>1, Lengths DEF Unsent
      <4>3. CASE reply.at + 1 = n
        <5>1. reply' = Idle
          BY <4>1, <4>3 DEF DeviceSends
        <5>2. Unsent' = 0
          BY <5>1 DEF Unsent
        <5> HIDE DEF n
        <5> QED
          BY <4>1, <4>2, <4>3, <5>1, <5>2
      <4>4. CASE reply.at + 1 # n
        <5>1. PICK x : reply' = [reply EXCEPT !.at = @ + 1, !.sum = x]
          BY <4>1, <4>4 DEF DeviceSends
        <5>2. reply'.kind = "DUMP_REGS" /\ reply'.at = reply.at + 1
          BY <3>2, <4>1, <5>1 DEF RegsReplies
        <5>3. reply' # Idle
          BY <5>2 DEF Idle
        <5>4. Unsent' = n - (reply.at + 1)
          BY <5>2, <5>3, Lengths DEF Unsent
        <5> HIDE DEF n
        <5> QED
          BY <4>1, <4>2, <5>2, <5>4
      <4> QED
        BY <4>3, <4>4
    <3> QED
      BY <1>2, <3>1, <3>2, TypeParts DEF DeviceType
  <2>5. AlreadyRead' = AlreadyRead
    BY <1>2 DEF AlreadyRead
  <2>6. AlreadyRead' + Len(toHost') + Unsent' = AlreadyRead + Len(toHost) + Unsent
    BY <2>3, <2>4, <2>5, Lengths
  <2>7. Received'
    BY <1>2, <2>1, <2>4, <2>6 DEF Received
  <2> QED
    BY <1>2, <1>4, <2>1, <2>7 DEF Turn, InStep
<1> QED
  BY <1>3, <1>4

LEMMA ChangeTurn ==
  ASSUME TypeOK, Turn, Change
  PROVE  Turn'
<1>1. UNCHANGED <<phase, todo, waiting, got, toDev, lost, reply>>
  BY DEF Change, session, device
<1>2. toHost \in Seq(Byte)
  BY TypeParts DEF LineType
<1>3. PICK i \in DOMAIN toHost, b \in Byte : toHost' = [toHost EXCEPT ![i] = b]
  BY DEF Change
<1>4. toHost # <<>> /\ Len(toHost') = Len(toHost)
  BY <1>2, <1>3
<1>5. CASE phase = "exited"
  BY <1>1, <1>5 DEF Turn, InStep
<1>6. CASE phase # "exited"
  <2>1. waiting /\ todo # <<>> /\ Received
    BY <1>4, <1>6 DEF Turn, InStep, Sent
  <2>2. AlreadyRead' = AlreadyRead /\ Unsent' = Unsent
    BY <1>1 DEF AlreadyRead, Unsent
  <2>3. Received'
    BY <1>1, <1>4, <2>1, <2>2 DEF Received
  <2> QED
    BY <1>1, <1>6, <2>1, <2>3 DEF Turn, InStep
<1> QED
  BY <1>5, <1>6

LEMMA LoseTurn ==
  ASSUME TypeOK, Turn, Lose
  PROVE  Turn'
<1>1. UNCHANGED <<phase, todo, waiting, got, reply>> /\ ~lost /\ lost'
  BY DEF Lose, session, device
<1>2. AlreadyRead' = AlreadyRead /\ Unsent' = Unsent
  BY <1>1 DEF AlreadyRead, Unsent
<1>3. CASE phase = "exited"
  BY <1>1, <1>3 DEF Turn, InStep
<1>4. CASE phase # "exited"
  <2>1. waiting /\ todo # <<>> /\ (Sent \/ Received)
    BY <1>4 DEF Lose, Turn, InStep
  <2>2. CASE Sent
    <3>1. toDev' = <<>> /\ toHost' = <<>> /\ reply = Idle /\ AlreadyRead = 0
      BY <2>2 DEF Lose, Sent
    <3>2. AnswerLength(Head(todo').op) \in Nat \ {0}
      BY Lengths
    <3>3. AlreadyRead' = 0 /\ Unsent' = 0 /\ Len(toHost') = 0
      BY <1>1, <1>2, <3>1 DEF Unsent
    <3>4. Received'
      BY <1>1, <3>1, <3>2, <3>3 DEF Received
    <3> QED
      BY <1>1, <1>4, <2>1, <3>4 DEF Turn, InStep
  <2>3. CASE Received
    <3>1. toDev = <<>> /\ toHost # <<>> /\ toHost' = Tail(toHost) /\ toDev' = toDev
      BY <2>3 DEF Lose, Received
    <3>2. Len(toHost') = Len(toHost) - 1
      BY <3>1, TypeParts DEF LineType
    <3>3. AnswerLength(Head(todo).op) \in Nat
      BY Lengths
    <3>4. /\ AlreadyRead' + Len(toHost') + Unsent' < AnswerLength(Head(todo).op)
          /\ AlreadyRead' + Len(toHost') + Unsent' <= AnswerLength(Head(todo).op)
      <4>1. AlreadyRead + Len(toHost) + Unsent <= AnswerLength(Head(todo).op)
        BY <2>3 DEF Received
      <4>2. AlreadyRead \in Nat /\ Len(toHost) \in Nat /\ Unsent \in Nat
        BY Lengths
      <4>3. \A a, l, u, n \in Nat : a + l + u <= n => a + (l - 1) + u < n /\ a + (l - 1) + u <= n
        OBVIOUS
      <4>4. /\ AlreadyRead + (Len(toHost) - 1) + Unsent < AnswerLength(Head(todo).op)
            /\ AlreadyRead + (Len(toHost) - 1) + Unsent <= AnswerLength(Head(todo).op)
        BY <3>3, <4>1, <4>2, <4>3
      <4> QED
        BY <1>2, <3>2, <4>4, Zenon
    <3>5. Received'
      BY <1>1, <2>3, <3>1, <3>4 DEF Received
    <3> QED
      BY <1>1, <1>4, <2>1, <3>5 DEF Turn, InStep
  <2> QED
    BY <2>1, <2>2, <2>3
<1> QED
  BY <1>3, <1>4

-----------------------------------------------------------------------------
IInv == TypeOK /\ Scripted /\ Turn

LEMMA InitTurn == Init => Turn
BY Scripts DEF Init, Turn, InStep

LEMMA Inductive == IInv /\ [Next]_vars => IInv'
<1> SUFFICES ASSUME IInv, [Next]_vars
             PROVE  IInv'
  OBVIOUS
<1>1. TypeOK /\ Scripted /\ Turn /\ AskedSomething
  BY DEF IInv, Turn, AskedSomething
<1>2. CASE Write
  BY <1>1, <1>2, WriteType, WriteTurn DEF IInv
<1>3. CASE waitForResponse
  BY <1>1, <1>3, waitForResponseType, AnswerTurn DEF IInv
<1>4. CASE ReadRegister
  BY <1>1, <1>4, ReadRegisterType, AnswerTurn DEF IInv
<1>5. CASE ReadRomWord
  BY <1>1, <1>5, ReadRomWordType, ReadRomWordTurn DEF IInv
<1>6. CASE ReadChecksum
  BY <1>1, <1>6, ReadChecksumType, ReadChecksumTurn DEF IInv
<1>7. CASE ReadRegDump
  BY <1>1, <1>7, ReadRegDumpType, ReadRegDumpTurn DEF IInv
<1>8. CASE Attach
  BY <1>1, <1>8, AttachType, HostStepsTurn DEF IInv
<1>9. CASE Trim
  BY <1>1, <1>9, TrimType, HostStepsTurn DEF IInv
<1>10. CASE StepVM
  BY <1>1, <1>10, StepVMType, HostStepsTurn DEF IInv
<1>11. CASE RunEnds
  BY <1>1, <1>11, RunEndsType, HostStepsTurn DEF IInv
<1>12. CASE Compare
  BY <1>1, <1>12, CompareType, HostStepsTurn DEF IInv
<1>13. CASE \E m \in Modes : Enter(m)
  BY <1>1, <1>13, EnterType, HostStepsTurn DEF IInv
<1>14. CASE DeviceSelect \/ DeviceHigh \/ DeviceLow \/ DeviceGet \/ DeviceStep
  BY <1>1, <1>14, DeviceCommandType, DeviceAnswersTurn DEF IInv
<1>15. CASE DeviceDump
  BY <1>1, <1>15, DeviceDumpType, DeviceDumpTurn DEF IInv
<1>16. CASE DeviceSends
  BY <1>1, <1>16, DeviceSendsType, DeviceSendsTurn DEF IInv
<1>17. CASE Change
  BY <1>1, <1>17, ChangeType, ChangeTurn DEF IInv
<1>18. CASE Lose
  BY <1>1, <1>18, LoseType, LoseTurn DEF IInv
<1>19. CASE UNCHANGED vars
  <2>1. UNCHANGED session /\ UNCHANGED program /\ UNCHANGED line /\ UNCHANGED device
    BY <1>19 DEF vars
  <2>2. SessionType' /\ ProgramType' /\ DeviceType' /\ Scripted'
    BY <1>1, <2>1, OthersType
  <2>3. LineType'
    BY <1>1, <2>1, TypeParts DEF LineType, line
  <2>4. Turn'
    BY <1>1, <2>1 DEF Turn, InStep, Sent, Received, AlreadyRead, Unsent,
                      session, line, device
  <2> QED
    BY <2>2, <2>3, <2>4, TypeParts DEF IInv
<1>20. CASE Next
  BY <1>2, <1>3, <1>4, <1>5, <1>6, <1>7, <1>8, <1>9, <1>10, <1>11, <1>12,
     <1>13, <1>14, <1>15, <1>16, <1>17, <1>18, <1>20 DEF Next, Host, Device
<1> QED
  BY <1>19, <1>20

THEOREM Invariance == Spec => []IInv
<1>1. Init => IInv
  BY InitType, InitTurn DEF IInv
<1> QED
  BY <1>1, Inductive, PTL DEF Spec

(* Commands, answers, image and both processors keep their types, for any  *)
(* ROM, register dump and line.                                            *)
THEOREM TypeCorrect == Spec => []TypeOK
<1>1. IInv => TypeOK
  BY DEF IInv
<1> QED
  BY <1>1, Invariance, PTL

(* Whenever the host is about to send a command, the answers to all before *)
(* it have been read to the end, however often a dump was repeated: no     *)
(* byte of one answer is ever taken for a part of another.                 *)
THEOREM QuestionsAnswered == Spec => []InStep
<1>1. IInv => InStep
  BY DEF IInv, Turn
<1> QED
  BY <1>1, Invariance, PTL

-----------------------------------------------------------------------------
(* Induction, and functions by recursion on their argument.                *)
LEMMA Induction ==
  ASSUME NEW G, 0 \in G, \A m \in Nat : m \in G => m + 1 \in G
  PROVE  Nat \subseteq G
<1> DEFINE T == {k \in Nat : k \notin G}
<1> SUFFICES ASSUME T # {}
             PROVE  FALSE
  OBVIOUS
<1>1. PICK m \in T : \A k \in T : ~ (<<k, m>> \in OpToRel(<, Nat))
  <2>1. PICK c \in T : TRUE
    OBVIOUS
  <2> HIDE DEF T
  <2>2. T \subseteq Nat
    BY DEF T
  <2> QED
    BY <2>1, <2>2, NatLessThanWellFounded, WFMin
<1>2. m \in Nat /\ m \notin G /\ m # 0 /\ \A k \in T : ~ (k < m)
  BY <1>1 DEF OpToRel
<1>3. m - 1 \in Nat /\ m - 1 \in G
  <2>1. m - 1 \in Nat /\ m - 1 < m
    BY <1>2
  <2> QED
    BY <1>2, <2>1
<1> QED
  BY <1>2, <1>3

Follows(f, k, a, F) == f[0] = a /\ \A i \in 1 .. k : f[i] = F[i][f[i - 1]]

LEMMA RecursionExists ==
  ASSUME NEW S, NEW a \in S, NEW n \in Nat, NEW F \in [1 .. n -> [S -> S]]
  PROVE  \E f \in [0 .. n -> S] : Follows(f, n, a, F)
<1> DEFINE Upto(k, f) == Follows(f, k, a, F)
           G == {k \in Nat : k <= n => \E f \in [0 .. k -> S] : Upto(k, f)}
<1> USE DEF Follows
<1>1. 0 \in G
  <2> DEFINE f == [i \in 0 .. 0 |-> a]
  <2>1. f \in [0 .. 0 -> S] /\ Upto(0, f)
    OBVIOUS
  <2> QED
    BY <2>1
<1>2. ASSUME NEW k \in Nat, k \in G
      PROVE  k + 1 \in G
  <2> SUFFICES ASSUME k + 1 <= n
               PROVE  \E f \in [0 .. k + 1 -> S] : Upto(k + 1, f)
    OBVIOUS
  <2>1. PICK f \in [0 .. k -> S] : Upto(k, f)
    BY <1>2
  <2> DEFINE g == [i \in 0 .. k + 1 |-> IF i <= k THEN f[i] ELSE F[k + 1][f[k]]]
  <2>2. F[k + 1][f[k]] \in S
    <3>1. k + 1 \in 1 .. n /\ k \in 0 .. k
      OBVIOUS
    <3> QED
      BY <2>1, <3>1
  <2>3. g \in [0 .. k + 1 -> S]
    BY <2>1, <2>2
  <2>4. g[0] = a
    BY <2>1
  <2>5. ASSUME NEW i \in 1 .. k + 1
        PROVE  g[i] = F[i][g[i - 1]]
    <3>1. i \in 0 .. k + 1 /\ i - 1 \in 0 .. k + 1 /\ i - 1 <= k
      OBVIOUS
    <3>2. g[i - 1] = f[i - 1]
      BY <3>1
    <3>3. CASE i <= k
      <4>1. i \in 1 .. k
        BY <3>3
      <4> QED
        BY <2>1, <3>1, <3>2, <3>3, <4>1
    <3>4. CASE i = k + 1
      <4>1. g[i] = F[k + 1][f[k]] /\ i - 1 = k
        BY <3>1, <3>4
      <4> QED
        BY <3>2, <3>4, <4>1
    <3> QED
      BY <3>3, <3>4
  <2> QED
    BY <2>3, <2>4, <2>5
<1>3. Nat \subseteq G
  <2> HIDE DEF G
  <2> QED
    BY <1>1, <1>2, Induction
<1> QED
  BY <1>3

-----------------------------------------------------------------------------
(* The bytes of a ROM dump as the device sends them, and its checksums.    *)
RomByte(data, i) == ByteOf(data[i \div 2], i)

Sums(data) ==
  LET upto[i \in 0 .. 2 * RomSize] ==
        IF i = 0 THEN 0 ELSE Xor(upto[i - 1], RomByte(data, i - 1))
  IN upto

LEMMA RomBytes ==
  ASSUME NEW data \in Roms
  PROVE  /\ \A a \in 0 .. RomSize - 1 : data[a] \in Word
         /\ DOMAIN data = 0 .. RomSize - 1
         /\ \A i \in 0 .. 2 * RomSize - 1 :
               i \div 2 \in 0 .. RomSize - 1 /\ RomByte(data, i) \in Byte
<1>1. data \in [0 .. RomSize - 1 -> Word] /\ RomSize \in Nat
  BY RomAssumption
<1>2. ASSUME NEW i \in 0 .. 2 * RomSize - 1
      PROVE  i \div 2 \in 0 .. RomSize - 1 /\ RomByte(data, i) \in Byte
  <2>1. i \div 2 \in 0 .. RomSize - 1 /\ i \in Nat
    BY <1>1, <1>2
  <2> QED
    BY <1>1, <2>1, Bytes DEF RomByte
<1> QED
  BY <1>1, <1>2

LEMMA SumsStep ==
  ASSUME NEW data \in Roms
  PROVE  /\ Sums(data) \in [0 .. 2 * RomSize -> Byte]
         /\ Sums(data)[0] = 0
         /\ \A i \in 0 .. 2 * RomSize - 1 :
               Sums(data)[i + 1] = Xor(Sums(data)[i], RomByte(data, i))
<1> DEFINE n == 2 * RomSize
           F == [i \in 1 .. n |-> [b \in Byte |-> Xor(b, RomByte(data, i - 1))]]
<1>1. n \in Nat
  BY RomAssumption
<1>2. F \in [1 .. n -> [Byte -> Byte]]
  <2>1. ASSUME NEW i \in 1 .. n, NEW b \in Byte
        PROVE  Xor(b, RomByte(data, i - 1)) \in Byte
    <3>1. i - 1 \in 0 .. 2 * RomSize - 1
      BY <1>1
    <3>2. RomByte(data, i - 1) \in Byte
      BY <3>1, RomBytes
    <3> QED
      BY <3>2, XorLaws
  <2> QED
    BY <2>1
<1>3. PICK f \in [0 .. n -> Byte] : Follows(f, n, 0, F)
  <2> HIDE DEF F, n
  <2>1. 0 \in Byte
    BY Bytes
  <2> QED
    BY <1>1, <1>2, <2>1, RecursionExists, Zenon
<1>4. \A i \in 1 .. n : f[i] = Xor(f[i - 1], RomByte(data, i - 1))
  <2> SUFFICES ASSUME NEW i \in 1 .. n
               PROVE  f[i] = Xor(f[i - 1], RomByte(data, i - 1))
    OBVIOUS
  <2>1. i - 1 \in 0 .. n
    BY <1>1
  <2>2. f[i - 1] \in Byte
    BY <1>3, <2>1
  <2>3. f[i] = F[i][f[i - 1]]
    BY <1>3 DEF Follows
  <2> QED
    BY <2>2, <2>3
<1> DEFINE IsSums(g) == g = [i \in 0 .. n |-> IF i = 0 THEN 0
                                              ELSE Xor(g[i - 1], RomByte(data, i - 1))]
<1>5. IsSums(f)
  <2>1. \A i \in 0 .. n : f[i] = IF i = 0 THEN 0 ELSE Xor(f[i - 1], RomByte(data, i - 1))
    <3> HIDE DEF n
    <3> QED
      BY <1>1, <1>3, <1>4 DEF Follows
  <2> HIDE DEF n
  <2> QED
    BY <1>3, <2>1
<1>6. IsSums(Sums(data))
  <2>1. Sums(data) = CHOOSE g : IsSums(g)
    BY DEF Sums
  <2> HIDE DEF IsSums
  <2> QED
    BY <1>5, <2>1
<1>7. /\ Sums(data) = [i \in 0 .. n |-> IF i = 0 THEN 0
                          ELSE Xor(Sums(data)[i - 1], RomByte(data, i - 1))]
  BY <1>6
<1>8. /\ DOMAIN Sums(data) = 0 .. n
      /\ \A i \in 0 .. n : Sums(data)[i] = IF i = 0 THEN 0
                          ELSE Xor(Sums(data)[i - 1], RomByte(data, i - 1))
  <2> HIDE DEF n
  <2> QED
    BY <1>7
<1> HIDE DEF IsSums
<1>9. Sums(data)[0] = 0 /\ \A i \in 0 .. n - 1 :
               Sums(data)[i + 1] = Xor(Sums(data)[i], RomByte(data, i))
  <2>1. Sums(data)[0] = 0
    BY <1>1, <1>8
  <2>2. ASSUME NEW i \in 0 .. n - 1
        PROVE  Sums(data)[i + 1] = Xor(Sums(data)[i], RomByte(data, i))
    <3>1. i + 1 \in 0 .. n /\ i + 1 # 0 /\ (i + 1) - 1 = i
      BY <1>1
    <3> QED
      BY <1>8, <3>1, Zenon
  <2> QED
    BY <2>1, <2>2
<1>10. 0 .. n \subseteq {i \in 0 .. n : Sums(data)[i] \in Byte}
  <2> DEFINE G == {i \in Nat : i <= n => Sums(data)[i] \in Byte}
  <2>1. 0 \in G
    BY <1>9, Bytes
  <2>2. ASSUME NEW i \in Nat, i \in G
        PROVE  i + 1 \in G
    <3> SUFFICES ASSUME i + 1 <= n
                 PROVE  Sums(data)[i + 1] \in Byte
      OBVIOUS
    <3>1. i \in 0 .. 2 * RomSize - 1 /\ i \in 0 .. n - 1 /\ Sums(data)[i] \in Byte
      BY <1>1, <2>2
    <3>2. RomByte(data, i) \in Byte
      BY <3>1, RomBytes
    <3>3. Xor(Sums(data)[i], RomByte(data, i)) \in Byte
      BY <3>1, <3>2, XorLaws
    <3> QED
      BY <1>9, <3>1, <3>3, Zenon
  <2>3. Nat \subseteq G
    <3> HIDE DEF G
    <3> QED
      BY <2>1, <2>2, Induction
  <2> HIDE DEF n
  <2> QED
    BY <1>1, <2>3
<1> QED
  BY <1>7, <1>9, <1>10

-----------------------------------------------------------------------------
(* The scripts, command by command.                                        *)
ThenSet(s, r, data, t) ==
  /\ t \in Seq(Commands) /\ Len(t) = Len(s) + 3
  /\ \A i \in 1 .. Len(s) : t[i] = s[i]
  /\ t[Len(s) + 1] = Command("SET", r)
  /\ t[Len(s) + 2] = Command("HI", 0)
  /\ t[Len(s) + 3] = Command("LO", data)

ThenGet(s, r, t) ==
  /\ t \in Seq(Commands) /\ Len(t) = Len(s) + 1
  /\ \A i \in 1 .. Len(s) : t[i] = s[i]
  /\ t[Len(s) + 1] = Command("GET", r)

LEMMA AddSet ==
  ASSUME NEW s \in Seq(Commands), NEW r \in 0 .. 15, NEW data \in 0 .. 15
  PROVE  ThenSet(s, r, data, s \o setRegister(r, data))
<1>1. data \div 16 = 0 /\ data % 16 = data
  OBVIOUS
<1>2. setRegister(r, data) = <<Command("SET", r), Command("HI", 0), Command("LO", data)>>
  BY <1>1 DEF setRegister
<1>3. /\ Command("SET", r) \in Commands /\ Command("HI", 0) \in Commands
      /\ Command("LO", data) \in Commands
  BY DEF Command, Commands
<1> QED
  BY <1>2, <1>3 DEF ThenSet

LEMMA AddGet ==
  ASSUME NEW s \in Seq(Commands), NEW r \in 0 .. 15
  PROVE  ThenGet(s, r, s \o getRegister(r))
<1>1. Command("GET", r) \in Commands
  BY DEF Command, Commands
<1> QED
  BY <1>1 DEF getRegister, ThenGet

LEMMA OneSet ==
  ASSUME NEW r \in 0 .. 15, NEW data \in 0 .. 15
  PROVE  LET t == setRegister(r, data)
         IN /\ t \in Seq(Commands) /\ Len(t) = 3
            /\ t[1] = Command("SET", r) /\ t[2] = Command("HI", 0)
            /\ t[3] = Command("LO", data)
<1>1. data \div 16 = 0 /\ data % 16 = data
  OBVIOUS
<1>2. setRegister(r, data) = <<Command("SET", r), Command("HI", 0), Command("LO", data)>>
  BY <1>1 DEF setRegister
<1>3. /\ Command("SET", r) \in Commands /\ Command("HI", 0) \in Commands
      /\ Command("LO", data) \in Commands
  BY DEF Command, Commands
<1> QED
  BY <1>2, <1>3

LEMMA ResetScript ==
  LET s == Script("reset")
  IN /\ Len(s) = 9
     /\ s[1] = Command("SET", 0) /\ s[2] = Command("HI", 0) /\ s[3] = Command("LO", 0)
     /\ s[4] = Command("SET", 0) /\ s[5] = Command("HI", 0) /\ s[6] = Command("LO", 5)
     /\ s[7] = Command("SET", 0) /\ s[8] = Command("HI", 0) /\ s[9] = Command("LO", 1)
<1> DEFINE a == setRegister(0, 0)
           b == a \o setRegister(0, 5)
           c == b \o setRegister(0, 1)
<1>1. 0 \in 0 .. 15 /\ 5 \in 0 .. 15 /\ 1 \in 0 .. 15
  OBVIOUS
<1>2. Script("reset") = c
  BY DEF Script
<1>3. /\ a \in Seq(Commands) /\ Len(a) = 3
      /\ a[1] = Command("SET", 0) /\ a[2] = Command("HI", 0) /\ a[3] = Command("LO", 0)
  BY <1>1, OneSet, Zenon
<1> HIDE DEF a
<1>4. ThenSet(a, 0, 5, b)
  BY <1>1, <1>3, AddSet, Zenon
<1> HIDE DEF b
<1>5. ThenSet(b, 0, 1, c)
  BY <1>1, <1>4, AddSet, ZenonT(60) DEF ThenSet
<1> HIDE DEF c
<1> QED
  BY <1>2, <1>3, <1>4, <1>5 DEF ThenSet

LEMMA CheckScript ==
  ASSUME NEW r \in 0 .. 15
  PROVE  LET s == getMCPCReg(r)
         IN /\ Len(s) = 11
            /\ s[1] = Command("SET", 0) /\ s[2] = Command("HI", 0) /\ s[3] = Command("LO", 3)
            /\ s[4] = Command("SET", 1) /\ s[5] = Command("HI", 0) /\ s[6] = Command("LO", r)
            /\ s[7] = Command("GET", 8) /\ s[8] = Command("GET", 9)
            /\ s[9] = Command("SET", 0) /\ s[10] = Command("HI", 0) /\ s[11] = Command("LO", 1)
<1> DEFINE a == setRegister(0, 3)
           b == a \o setRegister(1, r)
           c == b \o getRegister(8)
           d == c \o getRegister(9)
           e == d \o setRegister(0, 1)
<1>1. 0 \in 0 .. 15 /\ 1 \in 0 .. 15 /\ 3 \in 0 .. 15 /\ 8 \in 0 .. 15 /\ 9 \in 0 .. 15
  OBVIOUS
<1>2. getMCPCReg(r) = e
  <2>1. r % 16 = r
    OBVIOUS
  <2> QED
    BY <2>1 DEF getMCPCReg
<1>3. /\ a \in Seq(Commands) /\ Len(a) = 3
      /\ a[1] = Command("SET", 0) /\ a[2] = Command("HI", 0) /\ a[3] = Command("LO", 3)
  BY <1>1, OneSet, Zenon
<1> HIDE DEF a
<1>4. ThenSet(a, 1, r, b)
  BY <1>1, <1>3, AddSet, Zenon
<1> HIDE DEF b
<1>5. ThenGet(b, 8, c)
  BY <1>1, <1>4, AddGet, Zenon DEF ThenSet
<1> HIDE DEF c
<1>6. ThenGet(c, 9, d)
  BY <1>1, <1>5, AddGet, Zenon DEF ThenGet
<1> HIDE DEF d
<1>7. ThenSet(d, 0, 1, e)
  BY <1>1, <1>6, AddSet, Zenon DEF ThenGet
<1> HIDE DEF e
<1>8. /\ Len(b) = 6 /\ \A i \in 1 .. 3 : b[i] = a[i]
      /\ b[4] = Command("SET", 1) /\ b[5] = Command("HI", 0) /\ b[6] = Command("LO", r)
  BY <1>3, <1>4 DEF ThenSet
<1>9. /\ Len(d) = 8 /\ \A i \in 1 .. 6 : d[i] = b[i]
      /\ d[7] = Command("GET", 8) /\ d[8] = Command("GET", 9)
  BY <1>5, <1>6, <1>8 DEF ThenGet
<1>10. /\ Len(e) = 11 /\ \A i \in 1 .. 8 : e[i] = d[i]
       /\ e[9] = Command("SET", 0) /\ e[10] = Command("HI", 0) /\ e[11] = Command("LO", 1)
  BY <1>7, <1>9 DEF ThenSet
<1> QED
  BY <1>2, <1>3, <1>8, <1>9, <1>10

(* What is left to send is the end of the script of the phase.             *)
ScriptLeft ==
  phase # "exited" =>
    /\ Len(todo) <= Len(Script(phase))
    /\ \A j \in 1 .. Len(todo) :
          todo[j] = Script(phase)[Len(Script(phase)) - Len(todo) + j]

(* So the number of commands left tells the next one.                      *)
LEMMA NextCommand ==
  ASSUME TypeOK, ScriptLeft, phase # "exited", todo # <<>>
  PROVE  /\ Len(todo) \in 1 .. Len(Script(phase))
         /\ Head(todo) = Script(phase)[Len(Script(phase)) - Len(todo) + 1]
<1>1. todo \in Seq(Commands)
  BY TypeParts DEF SessionType
<1>2. Len(todo) \in Nat /\ Len(todo) # 0 /\ Head(todo) = todo[1]
  BY <1>1
<1>3. Len(Script(phase)) \in Nat
  <2>1. Script(phase) \in Seq(Commands)
    BY PlainAreCommands, TypeParts DEF SessionType
  <2> QED
    BY <2>1
<1> QED
  BY <1>2, <1>3 DEF ScriptLeft

ResetNext(n, c) ==
  /\ n \in 1 .. 9
  /\ n \in {9, 6, 3} => c = Command("SET", 0)
  /\ n \in {8, 5, 2} => c = Command("HI", 0)
  /\ n = 7 => c = Command("LO", 0)
  /\ n = 4 => c = Command("LO", 5)
  /\ n = 1 => c = Command("LO", 1)

CheckNext(r, n, c) ==
  /\ n \in 1 .. 11
  /\ n \in {11, 3} => c = Command("SET", 0)
  /\ n = 8 => c = Command("SET", 1)
  /\ n \in {10, 7, 2} => c = Command("HI", 0)
  /\ n = 9 => c = Command("LO", 3)
  /\ n = 6 => c = Command("LO", r)
  /\ n = 5 => c = Command("GET", 8)
  /\ n = 4 => c = Command("GET", 9)
  /\ n = 1 => c = Command("LO", 1)

OffNext(n, c) ==
  /\ n \in 1 .. 3
  /\ n = 3 => c = Command("SET", 0)
  /\ n = 2 => c = Command("HI", 0)
  /\ n = 1 => c = Command("LO", 1)

CompareNext(n, c) ==
  /\ n \in 1 .. 2
  /\ n = 2 => c = Command("STEP", 0)
  /\ n = 1 => c = Command("DUMP_REGS", 0)

Checking == phase \in {"check1", "check2", "check3"}
Asked    == IF phase = "check2" THEN 13 ELSE 14

LEMMA Positions ==
  ASSUME NEW s, NEW n, NEW c
  PROVE  /\ n \in 1 .. 9 /\ s = Script("reset") /\ c = s[9 - n + 1] => ResetNext(n, c)
         /\ \A r \in 0 .. 15 :
               n \in 1 .. 11 /\ s = getMCPCReg(r) /\ c = s[11 - n + 1] => CheckNext(r, n, c)
         /\ n \in 1 .. 3 /\ s = setRegister(0, 1) /\ c = s[3 - n + 1] => OffNext(n, c)
         /\ /\ n \in 1 .. 2 /\ s = <<Command("STEP", 0), Command("DUMP_REGS", 0)>>
            /\ c = s[2 - n + 1]
            => CompareNext(n, c)
<1>1. ASSUME n \in 1 .. 9, s = Script("reset"), c = s[9 - n + 1]
      PROVE  ResetNext(n, c)
  <2>1. /\ s[1] = Command("SET", 0) /\ s[2] = Command("HI", 0) /\ s[3] = Command("LO", 0)
        /\ s[4] = Command("SET", 0) /\ s[5] = Command("HI", 0) /\ s[6] = Command("LO", 5)
        /\ s[7] = Command("SET", 0) /\ s[8] = Command("HI", 0) /\ s[9] = Command("LO", 1)
    BY <1>1, ResetScript
  <2> QED
    BY <1>1, <2>1 DEF ResetNext
<1>2. ASSUME NEW r \in 0 .. 15, n \in 1 .. 11, s = getMCPCReg(r), c = s[11 - n + 1]
      PROVE  CheckNext(r, n, c)
  <2>1. /\ s[1] = Command("SET", 0) /\ s[2] = Command("HI", 0) /\ s[3] = Command("LO", 3)
        /\ s[4] = Command("SET", 1) /\ s[5] = Command("HI", 0) /\ s[6] = Command("LO", r)
        /\ s[7] = Command("GET", 8) /\ s[8] = Command("GET", 9)
        /\ s[9] = Command("SET", 0) /\ s[10] = Command("HI", 0) /\ s[11] = Command("LO", 1)
    BY <1>2, CheckScript
  <2> QED
    BY <1>2, <2>1 DEF CheckNext
<1>3. ASSUME n \in 1 .. 3, s = setRegister(0, 1), c = s[3 - n + 1]
      PROVE  OffNext(n, c)
  <2>1. 0 \in 0 .. 15 /\ 1 \in 0 .. 15
    OBVIOUS
  <2>2. s[1] = Command("SET", 0) /\ s[2] = Command("HI", 0) /\ s[3] = Command("LO", 1)
    BY <1>3, <2>1, OneSet
  <2> QED
    BY <1>3, <2>2 DEF OffNext
<1>4. ASSUME n \in 1 .. 2, s = <<Command("STEP", 0), Command("DUMP_REGS", 0)>>,
             c = s[2 - n + 1]
      PROVE  CompareNext(n, c)
  <2>1. s[1] = Command("STEP", 0) /\ s[2] = Command("DUMP_REGS", 0)
    BY <1>4
  <2> QED
    BY <1>4, <2>1 DEF CompareNext
<1> QED
  BY <1>1, <1>2, <1>3, <1>4

LEMMA Table ==
  ASSUME TypeOK, Scripted, ScriptLeft, phase # "exited", todo # <<>>
  PROVE  /\ phase = "reset"   => ResetNext(Len(todo), Head(todo))
         /\ Checking          => CheckNext(Asked, Len(todo), Head(todo))
         /\ phase = "dump"    => todo = <<Command("DUMP_ROM", 0)>>
         /\ phase = "off"     => OffNext(Len(todo), Head(todo))
         /\ phase = "compare" => CompareNext(Len(todo), Head(todo))
         /\ \/ phase \in {"reset", "dump", "off", "compare"}
            \/ Checking
<1> DEFINE s == Script(phase)
<1>1. /\ Len(todo) \in 1 .. Len(s)
      /\ Head(todo) = s[Len(s) - Len(todo) + 1]
  BY NextCommand
<1>2. CASE phase = "reset"
  <2>1. Len(s) = 9
    BY <1>2, ResetScript
  <2>2. Len(todo) \in 1 .. 9 /\ Head(todo) = Script("reset")[9 - Len(todo) + 1]
    BY <1>1, <1>2, <2>1
  <2>3. ResetNext(Len(todo), Head(todo))
    BY <2>2, Positions
  <2> QED
    BY <1>2, <2>3 DEF Checking
<1>3. CASE Checking
  <2>1. Asked \in 0 .. 15
    BY DEF Asked
  <2>2. s = getMCPCReg(Asked)
    BY <1>3 DEF Checking, Asked, Script
  <2>3. Len(s) = 11
    BY <2>1, <2>2, CheckScript
  <2>4. Len(todo) \in 1 .. 11 /\ Head(todo) = s[11 - Len(todo) + 1]
    BY <1>1, <2>3
  <2>5. CheckNext(Asked, Len(todo), Head(todo))
    <3> HIDE DEF s
    <3> QED
      BY <2>1, <2>2, <2>4, Positions
  <2> QED
    BY <1>3, <2>5 DEF Checking
<1>4. CASE phase = "dump"
  BY <1>4 DEF Scripted, Checking
<1>5. CASE phase = "off"
  <2>1. s = setRegister(0, 1)
    BY <1>5 DEF Script
  <2>2. 0 \in 0 .. 15 /\ 1 \in 0 .. 15
    OBVIOUS
  <2>3. /\ Len(s) = 3 /\ s[1] = Command("SET", 0) /\ s[2] = Command("HI", 0)
        /\ s[3] = Command("LO", 1)
    BY <2>1, <2>2, OneSet
  <2>4. OffNext(Len(todo), Head(todo))
    <3> HIDE DEF s
    <3> QED
      BY <1>1, <2>1, <2>3, Positions
  <2> QED
    BY <1>5, <2>4 DEF Checking
<1>6. CASE phase = "compare"
  <2>1. s = <<Command("STEP", 0), Command("DUMP_REGS", 0)>>
    BY <1>6 DEF Script
  <2>2. Len(s) = 2 /\ s[1] = Command("STEP", 0) /\ s[2] = Command("DUMP_REGS", 0)
    BY <2>1
  <2>3. CompareNext(Len(todo), Head(todo))
    <3> HIDE DEF s
    <3> QED
      BY <1>1, <2>1, <2>2, Positions
  <2> QED
    BY <1>6, <2>3 DEF Checking
<1> QED
  BY <1>2, <1>3, <1>4, <1>5, <1>6, TypeParts DEF SessionType, Phases, Checking, Scripted


-----------------------------------------------------------------------------
(* Attaching.  How many commands of its script the device has still to get *)
(* tells how far it is.                                                    *)
Togo == Len(todo)
Left == IF waiting /\ toDev = <<>> THEN Togo - 1 ELSE Togo

(* The reset leaves the processor at the start.                            *)
ResetDone ==
  phase = "reset" /\ ~lost =>
    /\ Left <= 8 => debug.sel = 0
    /\ Left <= 3 => cpu = Reset

(* From then on nothing moves it or the VM until the user does.            *)
Attaching == Checking \/ phase \in {"dump", "off"}

AtStart ==
  /\ Attaching \/ phase = "reset" => vm = Reset /\ ~alarm
  /\ Attaching => cpu = Reset

(* To read a register of the processor, it is first selected.              *)
Selected ==
  Checking /\ ~lost =>
    /\ Left \in 8 .. 10 => debug.sel = 0
    /\ Left \in 3 .. 7  => debug.sel = 1
    /\ Left \in 4 .. 8  => (debug.reg[0] \div 2) % 2 = 1
    /\ Left = 6         => debug.reg[1] < 16
    /\ Left \in 4 .. 5  => debug.reg[1] = Asked

Value == IF phase = "check2" THEN 1 ELSE Base * Base - 1

(* Its bytes arrive if the line lets them.                                 *)
ValueRead ==
  Checking /\ ~lost /\ changed = 0 =>
    /\ waiting /\ toHost # <<>> /\ Togo = 5 => toHost[1] = Low(Value)
    /\ waiting /\ toHost # <<>> /\ Togo = 4 => toHost[1] = High(Value)
    /\ Togo >= 5 => Len(got) = 0
    /\ Togo = 4  => Len(got) = 1 /\ got[1] = Low(Value)
    /\ Togo <= 3 => Len(got) = 2 /\ got[1] = Low(Value) /\ got[2] = High(Value)

AttachInv ==
  ScriptLeft /\ ResetDone /\ AtStart /\ Selected /\ ValueRead /\ SanityRight

(* A word is made of its two bytes again.                                  *)
LEMMA TwoBytes ==
  ASSUME NEW w \in Word
  PROVE  Low(w) + Base * High(w) = w
<1>1. Base \in Nat /\ Base > 0 /\ w \in Nat
  BY Bytes, BaseAssumption DEF Word
<1>2. (w % Base) + (Base * (w \div Base)) = w
  BY <1>1
<1> QED
  BY <1>2 DEF Low, High

(* While it sends nothing, nothing is under way; while it waits, there is  *)
(* something it waits for.                                                 *)
LEMMA Waits ==
  ASSUME IInv, phase # "exited"
  PROVE  /\ ~waiting => ~lost /\ toDev = <<>> /\ toHost = <<>> /\ reply = Idle
         /\ toHost # <<>> => waiting /\ Received
         /\ toDev # <<>> => waiting /\ Sent
         /\ reply # Idle => waiting /\ Received
         /\ waiting => todo # <<>>
         /\ todo \in Seq(Commands) /\ Togo \in Nat
         /\ todo = <<>> <=> Togo = 0
<1>1. Turn /\ TypeOK
  BY DEF IInv
<1>2. todo \in Seq(Commands) /\ waiting \in BOOLEAN
  BY <1>1, TypeParts DEF SessionType
<1>3. Togo \in Nat /\ (todo = <<>> <=> Togo = 0)
  BY <1>2 DEF Togo
<1>4. /\ ~waiting => ~lost /\ toDev = <<>> /\ toHost = <<>> /\ reply = Idle
      /\ waiting => todo # <<>> /\ (Sent \/ Received)
  BY <1>1 DEF Turn, InStep
<1>5. Sent => toHost = <<>> /\ reply = Idle
  BY DEF Sent
<1>6. Received => toDev = <<>>
  BY DEF Received
<1> QED
  BY <1>2, <1>3, <1>4, <1>5, <1>6

(* The answers of one byte.                                                *)
LEMMA ShortAnswer ==
  ASSUME IInv, waitForResponse \/ ReadRegister
  PROVE  /\ phase # "exited" /\ waiting /\ todo # <<>> /\ toHost # <<>>
         /\ waiting' = FALSE /\ toDev = <<>>
         /\ Togo' = Togo - 1
         /\ \A j \in 1 .. Len(todo') : todo'[j] = todo[j + 1]
         /\ UNCHANGED <<phase, sum, cause, toDev, changed, noisy, lost, program, device>>
         /\ Left' = Left
<1>1. /\ phase # "exited" /\ waiting /\ toHost # <<>>
      /\ waiting' = FALSE /\ todo' = Tail(todo)
      /\ UNCHANGED <<phase, sum, cause, toDev, changed, noisy, lost, program, device>>
  BY DEF waitForResponse, ReadRegister, Reads, Answered, Take
<1>2. todo # <<>> /\ todo \in Seq(Commands) /\ toDev = <<>>
  BY <1>1, Waits DEF Received
<1>3. /\ Togo' = Togo - 1
      /\ \A j \in 1 .. Len(todo') : todo'[j] = todo[j + 1]
  BY <1>1, <1>2 DEF Togo
<1>4. Left' = Left
  BY <1>1, <1>2, <1>3 DEF Left
<1> QED
  BY <1>1, <1>2, <1>3, <1>4

(* Whatever answer the host takes, it goes on in the script.               *)
LEMMA TailLeft ==
  ASSUME ScriptLeft, phase' = phase, Togo \in Nat, Togo # 0, Togo' = Togo - 1,
         \A j \in 1 .. Len(todo') : todo'[j] = todo[j + 1],
         phase \in Phases
  PROVE  ScriptLeft'
<1>1. Len(Script(phase)) \in Nat
  BY PlainAreCommands
<1>0. Len(todo) \in Nat \ {0} /\ Len(todo') = Len(todo) - 1
  BY DEF Togo
<1> SUFFICES ASSUME phase # "exited"
             PROVE  /\ Len(todo') <= Len(Script(phase))
                    /\ \A j \in 1 .. Len(todo') :
                         todo'[j] = Script(phase)[Len(Script(phase)) - Len(todo') + j]
  BY DEF ScriptLeft
<1>2. Len(todo) <= Len(Script(phase))
  BY DEF ScriptLeft
<1>3. ASSUME NEW j \in 1 .. Len(todo')
      PROVE  todo'[j] = Script(phase)[Len(Script(phase)) - Len(todo') + j]
  <2>1. j + 1 \in 1 .. Len(todo)
    BY <1>0
  <2>2. todo[j + 1] = Script(phase)[Len(Script(phase)) - Len(todo) + (j + 1)]
    BY <2>1 DEF ScriptLeft
  <2>3. Len(Script(phase)) - Len(todo) + (j + 1) = Len(Script(phase)) - Len(todo') + j
    BY <1>0, <1>1
  <2> QED
    BY <2>2, <2>3
<1> QED
  BY <1>0, <1>1, <1>2, <1>3

LEMMA BeginLeft ==
  ASSUME NEW p \in Phases, Begin(p)
  PROVE  ScriptLeft'
<1>1. Len(Script(p)) \in Nat
  BY PlainAreCommands
<1>2. todo' = Script(p) /\ phase' = p
  BY DEF Begin
<1> QED
  BY <1>1, <1>2 DEF ScriptLeft

LEMMA KeepsLeft ==
  ASSUME ScriptLeft, UNCHANGED <<phase, todo>>
  PROVE  ScriptLeft'
BY DEF ScriptLeft

(* A step that neither gives the device a command nor starts an operation. *)
LEMMA QuietAttach ==
  ASSUME AttachInv, UNCHANGED <<phase, vm, alarm, debug, cpu, lost>>, Left' = Left
  PROVE  ResetDone' /\ AtStart' /\ Selected'
BY DEF AttachInv, ResetDone, AtStart, Selected, Checking, Attaching, Asked

LEMMA WriteAttach ==
  ASSUME IInv, AttachInv, Write
  PROVE  AttachInv'
<1>1. /\ phase # "exited" /\ todo # <<>> /\ ~waiting
      /\ toDev' = Append(toDev, Head(todo)) /\ waiting' = TRUE
      /\ UNCHANGED <<phase, todo, got, cause, toHost, changed, lost>>
      /\ UNCHANGED <<vm, alarm, debug, cpu>>
  BY DEF Write, program, device
<1>2. toDev = <<>> /\ toHost = <<>>
  BY <1>1, Waits
<1>3. toDev' # <<>>
  BY <1>1, <1>2
<1>4. Left' = Left
  BY <1>1, <1>3 DEF Left, Togo
<1>5. ScriptLeft' /\ ResetDone' /\ AtStart' /\ Selected'
  BY <1>1, <1>4, QuietAttach, KeepsLeft DEF AttachInv
<1>6. ValueRead' /\ SanityRight'
  BY <1>1, <1>2 DEF AttachInv, ValueRead, SanityRight, Checking, Value, Togo
<1> QED
  BY <1>5, <1>6 DEF AttachInv

LEMMA ShortAttach ==
  ASSUME IInv, AttachInv, waitForResponse \/ ReadRegister
  PROVE  AttachInv'
<1>1. /\ phase # "exited" /\ waiting /\ todo # <<>> /\ toHost # <<>>
      /\ waiting' = FALSE /\ Togo' = Togo - 1
      /\ \A j \in 1 .. Len(todo') : todo'[j] = todo[j + 1]
      /\ UNCHANGED <<phase, cause, changed, lost, vm, alarm, debug, cpu>>
      /\ Left' = Left
  BY ShortAnswer DEF program, device
<1>2. Togo \in Nat /\ Togo # 0 /\ phase \in Phases
  BY <1>1, Waits, TypeParts DEF IInv, SessionType
<1>3. ScriptLeft'
  BY <1>1, <1>2, TailLeft DEF AttachInv
<1>4. ResetDone' /\ AtStart' /\ Selected'
  BY <1>1, QuietAttach
<1>5. ValueRead'
  <2> SUFFICES ASSUME Checking, ~lost, changed = 0
               PROVE  /\ Togo' >= 5 => Len(got') = 0
                      /\ Togo' = 4  => Len(got') = 1 /\ got'[1] = Low(Value)
                      /\ Togo' <= 3 =>
                           Len(got') = 2 /\ got'[1] = Low(Value) /\ got'[2] = High(Value)
    BY <1>1 DEF ValueRead, Checking, Value
  <2>1. CheckNext(Asked, Togo, Head(todo))
    BY <1>1, Table DEF IInv, AttachInv, Togo
  <2>2. /\ Togo = 5 => toHost[1] = Low(Value)
        /\ Togo = 4 => toHost[1] = High(Value)
        /\ Togo >= 5 => Len(got) = 0
        /\ Togo = 4  => Len(got) = 1 /\ got[1] = Low(Value)
        /\ Togo <= 3 => Len(got) = 2 /\ got[1] = Low(Value) /\ got[2] = High(Value)
    BY <1>1 DEF AttachInv, ValueRead
  <2>3. CASE waitForResponse
    <3>1. Head(todo).op # "GET" /\ got' = got
      BY <2>3 DEF waitForResponse, Reads
    <3>2. Togo # 5 /\ Togo # 4
      BY <2>1, <3>1 DEF CheckNext, Command
    <3> QED
      BY <1>1, <1>2, <2>2, <3>1, <3>2
  <2>4. CASE ReadRegister
    <3>1. Head(todo).op = "GET" /\ got' = Append(got, toHost[1])
      BY <2>4 DEF ReadRegister, Reads
    <3>2. Togo = 5 \/ Togo = 4
      BY <2>1, <3>1 DEF CheckNext, Command
    <3>3. /\ got \in Seq(Byte) /\ toHost[1] \in Byte
          /\ Len(got') = Len(got) + 1 /\ got'[Len(got) + 1] = toHost[1]
          /\ \A i \in 1 .. Len(got) : got'[i] = got[i]
      <4>1. got \in Seq(Byte) /\ toHost \in Seq(Byte)
        BY TypeParts DEF IInv, SessionType, LineType
      <4> QED
        BY <1>1, <3>1, <4>1
    <3>4. CASE Togo = 5
      <4>1. Len(got) = 0 /\ toHost[1] = Low(Value)
        BY <2>2, <3>4
      <4> QED
        BY <1>1, <3>3, <3>4, <4>1
    <3>5. CASE Togo = 4
      <4>1. Len(got) = 1 /\ got[1] = Low(Value) /\ toHost[1] = High(Value)
        BY <2>2, <3>5
      <4>2. Len(got') = 2 /\ got'[1] = Low(Value) /\ got'[2] = High(Value)
        BY <3>3, <4>1
      <4> QED
        BY <1>1, <3>5, <4>2
    <3> QED
      BY <3>2, <3>4, <3>5
  <2> QED
    BY <2>3, <2>4
<1>6. SanityRight'
  BY <1>1 DEF AttachInv, SanityRight
<1> QED
  BY <1>3, <1>4, <1>5, <1>6 DEF AttachInv

(* Dumps are only read in the phases for them.                             *)
LEMMA DumpPhases ==
  ASSUME IInv, ScriptLeft, phase # "exited", todo # <<>>
  PROVE  /\ Head(todo).op = "DUMP_ROM"  => phase = "dump"
         /\ Head(todo).op = "DUMP_REGS" => phase = "compare" /\ Togo = 1
         /\ Head(todo).op = "STEP"      => phase = "compare" /\ Togo = 2
<1> DEFINE n == Togo
           c == Head(todo)
<1>1. /\ phase = "reset"   => ResetNext(n, c)
      /\ Checking          => CheckNext(Asked, n, c)
      /\ phase = "off"     => OffNext(n, c)
      /\ phase = "compare" => CompareNext(n, c)
      /\ phase = "dump"    => c = Command("DUMP_ROM", 0)
      /\ phase \in {"reset", "dump", "off", "compare"} \/ Checking
  <2>1. \A a : Head(<<a>>) = a
    OBVIOUS
  <2> QED
    BY <2>1, Table DEF IInv, Togo
<1> HIDE DEF n, c
<1>2. c.op = "DUMP_ROM" => phase = "dump"
  BY <1>1 DEF ResetNext, CheckNext, OffNext, CompareNext, Command
<1>3. c.op = "DUMP_REGS" => phase = "compare" /\ n = 1
  BY <1>1 DEF ResetNext, CheckNext, OffNext, CompareNext, Command
<1>4. c.op = "STEP" => phase = "compare" /\ n = 2
  BY <1>1 DEF ResetNext, CheckNext, OffNext, CompareNext, Command
<1> QED
  BY <1>2, <1>3, <1>4 DEF n, c

LEMMA DumpReadAttach ==
  ASSUME IInv, AttachInv, ReadRomWord \/ ReadChecksum \/ ReadRegDump
  PROVE  AttachInv'
<1>1. /\ phase # "exited" /\ waiting /\ UNCHANGED <<vm, alarm, cpu, changed>>
      /\ Head(todo).op \in {"DUMP_ROM", "DUMP_REGS"}
      /\ phase' \in {phase, "exited"} /\ cause' \in {cause, "short read"}
  BY DEF ReadRomWord, ReadChecksum, ReadRegDump, Reads, Exit, Take, program, device
<1>2. todo # <<>> /\ Togo \in Nat /\ Togo # 0 /\ phase \in Phases /\ todo \in Seq(Commands)
  BY <1>1, Waits, TypeParts DEF IInv, SessionType
<1>3. phase \in {"dump", "compare"}
  BY <1>1, <1>2, DumpPhases DEF AttachInv
<1>4. AtStart' /\ ResetDone' /\ Selected' /\ ValueRead' /\ SanityRight'
  BY <1>1, <1>3 DEF AttachInv, AtStart, ResetDone, Selected, ValueRead, SanityRight,
                    Checking, Attaching
<1>5. ScriptLeft'
  <2>1. CASE phase' = "exited"
    BY <2>1 DEF ScriptLeft
  <2>2. CASE phase' = phase /\ todo' = todo
    BY <2>2, KeepsLeft DEF AttachInv
  <2>3. CASE phase' = phase /\ todo' = Tail(todo)
    <3>1. Togo' = Togo - 1 /\ \A j \in 1 .. Len(todo') : todo'[j] = todo[j + 1]
      BY <1>2, <2>3 DEF Togo
    <3> QED
      BY <1>2, <2>3, <3>1, TailLeft DEF AttachInv
  <2> QED
    BY <1>1, <2>1, <2>2, <2>3 DEF ReadRomWord, ReadChecksum, ReadRegDump, Exit, Answered
<1> QED
  BY <1>4, <1>5 DEF AttachInv

(* The host goes on to its next operation.                                 *)
LEMMA AtEnd ==
  ASSUME IInv, phase # "exited", todo = <<>>
  PROVE  ~waiting /\ ~lost /\ Left = 0 /\ toDev = <<>> /\ toHost = <<>> /\ reply = Idle
<1>1. ~waiting
  BY Waits
<1>2. Togo = 0
  BY Waits
<1> QED
  BY <1>1, <1>2, Waits DEF Left

LEMMA BeginCheck ==
  ASSUME AttachInv, NEW p \in Phases, Begin(p), UNCHANGED <<line, device>>,
         p \notin {"reset", "exited"},
         p \in {"check1", "check2", "check3", "dump", "off"} =>
           cpu = Reset /\ vm' = Reset /\ ~alarm'
  PROVE  AttachInv'
<1>1. /\ phase' = p /\ todo' = Script(p) /\ waiting' = FALSE /\ got' = <<>>
      /\ UNCHANGED <<toDev, toHost, changed, lost, debug, cpu, cause>>
  BY DEF Begin, line, device
<1>2. ScriptLeft'
  BY BeginLeft
<1>3. AtStart' /\ ResetDone' /\ SanityRight'
  BY <1>1 DEF AttachInv, AtStart, ResetDone, SanityRight, Checking, Attaching
<1>4. Checking' => Togo' = 11 /\ Left' = 11
  <2>1. Checking' => Script(p) = getMCPCReg(13) \/ Script(p) = getMCPCReg(14)
    BY <1>1 DEF Checking, Script
  <2>2. Checking' => Togo' = 11
    BY <1>1, <2>1, CheckScript, 13 \in 0 .. 15, 14 \in 0 .. 15 DEF Togo
  <2> QED
    BY <1>1, <2>2 DEF Left
<1>5. Selected'
  BY <1>4 DEF Selected
<1>6. ValueRead'
  <2> SUFFICES ASSUME Checking'
               PROVE  ValueRead'
    BY DEF ValueRead
  <2>1. Len(got') = 0 /\ ~waiting' /\ Togo' = 11
    BY <1>1, <1>4
  <2>2. /\ ~ (11 = 5) /\ ~ (11 = 4) /\ ~ (11 <= 3)
    OBVIOUS
  <2> QED
    BY <2>1, <2>2, Zenon DEF ValueRead
<1> QED
  BY <1>2, <1>3, <1>5, <1>6 DEF AttachInv

(* A check that fails has read a wrong byte.                               *)
LEMMA ChecksFault ==
  ASSUME IInv, AttachInv, Checking, todo = <<>>, changed = 0
  PROVE  WordAt(1) = Value
<1>1. phase # "exited"
  BY DEF Checking
<1>2. ~lost /\ Togo = 0
  BY <1>1, AtEnd, Waits
<1>3. got[1] = Low(Value) /\ got[2] = High(Value)
  BY <1>2 DEF AttachInv, ValueRead
<1>4. WordAt(1) = Low(Value) + Base * High(Value)
  BY <1>3 DEF WordAt
<1>5. Value \in Word
  <2>1. Base * Base > 6 /\ Base * Base \in Nat
    BY BaseAssumption DEF Set
  <2> QED
    BY <2>1 DEF Value, Word
<1> QED
  BY <1>4, <1>5, TwoBytes

LEMMA ExitAttach ==
  ASSUME IInv, AttachInv, NEW why, Exit(why), UNCHANGED changed,
         why = "sanity check" => changed > 0
  PROVE  AttachInv'
<1>1. phase' = "exited" /\ cause' = why
  BY DEF Exit
<1> QED
  BY <1>1 DEF AttachInv, ScriptLeft, ResetDone, AtStart, Selected, ValueRead,
              SanityRight, Checking, Attaching

LEMMA CheckAttach ==
  ASSUME IInv, AttachInv, NEW p \in {"check1", "check2"}, NEW next \in {"check2", "dump"},
         NEW v, Check(p, v, next), phase = p => v = Value
  PROVE  AttachInv'
<1>1. phase = p /\ todo = <<>> /\ UNCHANGED <<line, device>> /\ UNCHANGED program
  BY DEF Check, Done
<1>2. UNCHANGED <<vm, alarm>> /\ UNCHANGED changed /\ Checking
  BY <1>1 DEF program, line, Checking
<1>3. CASE Begin(next)
  <2>1. cpu = Reset /\ vm' = Reset /\ ~alarm'
    BY <1>2 DEF AttachInv, AtStart, Attaching
  <2> QED
    BY <1>1, <1>2, <1>3, <2>1, BeginCheck DEF Phases
<1>4. CASE WordAt(1) # v /\ Exit("sanity check")
  <2>1. changed # 0
    BY <1>1, <1>2, <1>4, ChecksFault
  <2>2. changed > 0
    BY <2>1, TypeParts DEF IInv, LineType
  <2> QED
    BY <1>2, <1>4, <2>2, ExitAttach
<1> QED
  BY <1>3, <1>4 DEF Check

LEMMA AttachAttach ==
  ASSUME IInv, AttachInv, Attach
  PROVE  AttachInv'
<1>1. CASE Done("reset") /\ Begin("check1") /\ UNCHANGED program
  <2>1. phase = "reset" /\ todo = <<>> /\ UNCHANGED <<line, device>>
    BY <1>1 DEF Done
  <2>2. ~lost /\ Left = 0
    BY <2>1, AtEnd
  <2>3. cpu = Reset /\ vm' = Reset /\ ~alarm'
    BY <1>1, <2>1, <2>2 DEF AttachInv, ResetDone, AtStart, program
  <2> QED
    BY <1>1, <2>1, <2>3, BeginCheck DEF Phases
<1>2. CASE Check("check1", Base * Base - 1, "check2")
  BY <1>2, CheckAttach DEF Value
<1>3. CASE Check("check2", 1, "dump")
  BY <1>3, CheckAttach DEF Value
<1>4. CASE Done("dump") /\ Begin("off") /\ UNCHANGED <<vm, brk, mode, steps, alarm>>
  <2>1. phase = "dump" /\ UNCHANGED <<line, device>>
    BY <1>4 DEF Done
  <2>2. cpu = Reset /\ vm' = Reset /\ ~alarm'
    BY <1>4, <2>1 DEF AttachInv, AtStart, Attaching
  <2> QED
    BY <1>4, <2>1, <2>2, BeginCheck DEF Phases
<1>5. CASE Done("off") /\ Begin("check3") /\ UNCHANGED program
  <2>1. phase = "off" /\ UNCHANGED <<line, device>>
    BY <1>5 DEF Done
  <2>2. cpu = Reset /\ vm' = Reset /\ ~alarm'
    BY <1>5, <2>1 DEF AttachInv, AtStart, Attaching, program
  <2> QED
    BY <1>5, <2>1, <2>2, BeginCheck DEF Phases
<1> QED
  BY <1>1, <1>2, <1>3, <1>4, <1>5 DEF Attach

LEMMA TrimAttach ==
  ASSUME IInv, AttachInv, Trim
  PROVE  AttachInv'
<1>1. phase = "check3" /\ todo = <<>> /\ UNCHANGED <<line, device>>
  BY DEF Trim, Done
<1>2. UNCHANGED changed /\ Checking /\ Value = Base * Base - 1
  BY <1>1 DEF line, Checking, Value
<1>3. CASE WordAt(1) # Base * Base - 1 /\ Exit("sanity check")
  <2>1. changed # 0
    BY <1>1, <1>2, <1>3, ChecksFault
  <2>2. changed > 0
    BY <2>1, TypeParts DEF IInv, LineType
  <2> QED
    BY <1>2, <1>3, <2>2, ExitAttach
<1>4. CASE \E why \in {"panic", "SET is last"} : Exit(why)
  BY <1>2, <1>4, ExitAttach
<1>5. CASE Begin("ready")
  BY <1>1, <1>5, BeginCheck DEF Phases
<1> QED
  BY <1>3, <1>4, <1>5 DEF Trim

LEMMA UserAttach ==
  ASSUME IInv, AttachInv,
         StepVM \/ RunEnds \/ Compare \/ (\E m \in Modes : Enter(m))
  PROVE  AttachInv'
<1>1. /\ Exit("panic") \/ \E p \in {"ready", "loop", "compare"} : Begin(p)
      /\ UNCHANGED <<line, device>>
  BY DEF StepVM, RunEnds, Compare, Pause, Done, Enter
<1>2. UNCHANGED changed
  BY <1>1 DEF line
<1> QED
  BY <1>1, <1>2, BeginCheck, ExitAttach DEF Phases

(* What a command of an operation is for.                                  *)
LEMMA ByOp ==
  ASSUME NEW n, NEW c, NEW r
  PROVE  /\ ResetNext(n, c) =>
              \/ c.op = "SET" /\ n \in {9, 6, 3} /\ c.arg = 0
              \/ c.op = "HI"  /\ n \in {8, 5, 2} /\ c.arg = 0
              \/ c.op = "LO"  /\ ((n = 7 /\ c.arg = 0) \/ (n = 4 /\ c.arg = 5) \/ (n = 1 /\ c.arg = 1))
         /\ CheckNext(r, n, c) =>
              \/ c.op = "SET" /\ ((n \in {11, 3} /\ c.arg = 0) \/ (n = 8 /\ c.arg = 1))
              \/ c.op = "HI"  /\ n \in {10, 7, 2} /\ c.arg = 0
              \/ c.op = "LO"  /\ ((n = 9 /\ c.arg = 3) \/ (n = 6 /\ c.arg = r) \/ (n = 1 /\ c.arg = 1))
              \/ c.op = "GET" /\ ((n = 5 /\ c.arg = 8) \/ (n = 4 /\ c.arg = 9))
         /\ OffNext(n, c) =>
              \/ c.op = "SET" /\ n = 3 /\ c.arg = 0
              \/ c.op = "HI"  /\ n = 2 /\ c.arg = 0
              \/ c.op = "LO"  /\ n = 1 /\ c.arg = 1
         /\ CompareNext(n, c) =>
              (c.op = "STEP" /\ n = 2) \/ (c.op = "DUMP_REGS" /\ n = 1)
<1>1. ResetNext(n, c) =>
        \/ c.op = "SET" /\ n \in {9, 6, 3} /\ c.arg = 0
        \/ c.op = "HI"  /\ n \in {8, 5, 2} /\ c.arg = 0
        \/ c.op = "LO"  /\ ((n = 7 /\ c.arg = 0) \/ (n = 4 /\ c.arg = 5) \/ (n = 1 /\ c.arg = 1))
  BY DEF ResetNext, Command
<1>2. CheckNext(r, n, c) =>
        \/ c.op = "SET" /\ ((n \in {11, 3} /\ c.arg = 0) \/ (n = 8 /\ c.arg = 1))
        \/ c.op = "HI"  /\ n \in {10, 7, 2} /\ c.arg = 0
        \/ c.op = "LO"  /\ ((n = 9 /\ c.arg = 3) \/ (n = 6 /\ c.arg = r) \/ (n = 1 /\ c.arg = 1))
        \/ c.op = "GET" /\ ((n = 5 /\ c.arg = 8) \/ (n = 4 /\ c.arg = 9))
  BY DEF CheckNext, Command
<1>3. OffNext(n, c) =>
        \/ c.op = "SET" /\ n = 3 /\ c.arg = 0
        \/ c.op = "HI"  /\ n = 2 /\ c.arg = 0
        \/ c.op = "LO"  /\ n = 1 /\ c.arg = 1
  BY DEF OffNext, Command
<1>4. CompareNext(n, c) =>
        (c.op = "STEP" /\ n = 2) \/ (c.op = "DUMP_REGS" /\ n = 1)
  BY DEF CompareNext, Command
<1> QED
  BY <1>1, <1>2, <1>3, <1>4

(* A command that arrives at the device is the next of the script.         *)
LEMMA CommandArrives ==
  ASSUME IInv, ScriptLeft, phase # "exited", NEW op, Receives(op)
  PROVE  /\ Head(toDev) = Head(todo) /\ Head(todo).op = op /\ Arg = Head(todo).arg
         /\ Left = Togo /\ Left' = Left - 1 /\ Left \in Nat /\ Left # 0
         /\ waiting /\ todo # <<>> /\ ~lost /\ toHost = <<>> /\ toDev' = <<>>
         /\ reply = Idle /\ UNCHANGED <<session, program, rom>>
<1>1. /\ reply = Idle /\ toDev # <<>> /\ Head(toDev).op = op /\ toDev' = Tail(toDev)
      /\ UNCHANGED <<session, program, rom>>
  BY DEF Receives
<1>2. waiting /\ Sent /\ todo # <<>> /\ Togo \in Nat /\ Togo # 0
  BY <1>1, Waits
<1>3. toDev = <<Head(todo)>> /\ toHost = <<>> /\ ~lost
  BY <1>2 DEF Sent
<1>4. Head(toDev) = Head(todo) /\ toDev' = <<>>
  BY <1>1, <1>3
<1>5. Left = Togo /\ Left' = Togo - 1
  BY <1>1, <1>2, <1>4 DEF Left, Togo, session
<1> QED
  BY <1>1, <1>2, <1>3, <1>4, <1>5 DEF Arg

LEMMA CommandFits ==
  ASSUME IInv, ScriptLeft, phase # "exited", NEW op, Receives(op)
  PROVE  /\ phase = "reset" =>
              \/ op = "SET" /\ Left \in {9, 6, 3} /\ Arg = 0
              \/ op = "HI"  /\ Left \in {8, 5, 2} /\ Arg = 0
              \/ op = "LO"  /\ ((Left = 7 /\ Arg = 0) \/ (Left = 4 /\ Arg = 5) \/ (Left = 1 /\ Arg = 1))
         /\ Checking =>
              \/ op = "SET" /\ ((Left \in {11, 3} /\ Arg = 0) \/ (Left = 8 /\ Arg = 1))
              \/ op = "HI"  /\ Left \in {10, 7, 2} /\ Arg = 0
              \/ op = "LO"  /\ ((Left = 9 /\ Arg = 3) \/ (Left = 6 /\ Arg = Asked)
                                  \/ (Left = 1 /\ Arg = 1))
              \/ op = "GET" /\ ((Left = 5 /\ Arg = 8) \/ (Left = 4 /\ Arg = 9))
         /\ phase = "off" => (op = "LO" => Arg = 1) /\ op \in {"SET", "HI", "LO"}
         /\ phase = "dump" => op = "DUMP_ROM"
         /\ phase = "compare" => (op = "STEP" /\ Left = 2) \/ (op = "DUMP_REGS" /\ Left = 1)
         /\ phase \in {"reset", "dump", "off", "compare"} \/ Checking
<1> DEFINE n == Togo
           c == Head(todo)
<1>1. c.op = op /\ c.arg = Arg /\ Left = n /\ todo # <<>>
  BY CommandArrives
<1>2. /\ phase = "reset"   => ResetNext(n, c)
      /\ Checking          => CheckNext(Asked, n, c)
      /\ phase = "off"     => OffNext(n, c)
      /\ phase = "compare" => CompareNext(n, c)
      /\ phase = "dump"    => c = Command("DUMP_ROM", 0)
      /\ phase \in {"reset", "dump", "off", "compare"} \/ Checking
  <2>1. \A a : Head(<<a>>) = a
    OBVIOUS
  <2> QED
    BY <1>1, <2>1, Table DEF IInv, Togo
<1>3. phase = "dump" => c.op = "DUMP_ROM"
  BY <1>2 DEF Command
<1> HIDE DEF n, c
<1>4. phase = "reset" =>
        \/ c.op = "SET" /\ n \in {9, 6, 3} /\ c.arg = 0
        \/ c.op = "HI"  /\ n \in {8, 5, 2} /\ c.arg = 0
        \/ c.op = "LO"  /\ ((n = 7 /\ c.arg = 0) \/ (n = 4 /\ c.arg = 5) \/ (n = 1 /\ c.arg = 1))
  BY <1>2, ByOp
<1>5. Checking =>
        \/ c.op = "SET" /\ ((n \in {11, 3} /\ c.arg = 0) \/ (n = 8 /\ c.arg = 1))
        \/ c.op = "HI"  /\ n \in {10, 7, 2} /\ c.arg = 0
        \/ c.op = "LO"  /\ ((n = 9 /\ c.arg = 3) \/ (n = 6 /\ c.arg = Asked)
                              \/ (n = 1 /\ c.arg = 1))
        \/ c.op = "GET" /\ ((n = 5 /\ c.arg = 8) \/ (n = 4 /\ c.arg = 9))
  BY <1>2, ByOp
<1>6. phase = "off" => (c.op = "LO" => c.arg = 1) /\ c.op \in {"SET", "HI", "LO"}
  BY <1>2, ByOp
<1>7. phase = "compare" => (c.op = "STEP" /\ n = 2) \/ (c.op = "DUMP_REGS" /\ n = 1)
  BY <1>2, ByOp
<1> QED
  BY <1>1, <1>2, <1>3, <1>4, <1>5, <1>6, <1>7

LEMMA DeviceKeeps ==
  ASSUME IInv, AttachInv, UNCHANGED <<session, program, changed>>
  PROVE  /\ ScriptLeft' /\ SanityRight'
         /\ phase = "exited" => AttachInv'
<1>1. UNCHANGED <<phase, todo, waiting, got, cause, vm, alarm, changed>>
  BY DEF session, program
<1>2. ScriptLeft' /\ SanityRight'
  BY <1>1, KeepsLeft DEF AttachInv, SanityRight
<1>3. phase = "exited" => AttachInv'
  BY <1>1, <1>2 DEF AttachInv, ResetDone, AtStart, Selected, ValueRead, Checking, Attaching
<1> QED
  BY <1>2, <1>3

LEMMA SelectAttach ==
  ASSUME IInv, AttachInv, DeviceSelect, phase # "exited"
  PROVE  AttachInv'
<1>1. /\ Receives("SET") /\ Send(0) /\ debug' = [debug EXCEPT !.sel = Arg] /\ cpu' = cpu
  BY DEF DeviceSelect
<1>2. /\ Left = Togo /\ Left' = Left - 1 /\ Left \in Nat /\ Left # 0 /\ ~lost
      /\ UNCHANGED <<session, program, rom>> /\ UNCHANGED <<changed, lost>>
  BY <1>1, CommandArrives DEF AttachInv, Send
<1>3. UNCHANGED <<phase, todo, waiting, got, vm, alarm>>
  BY <1>2 DEF session, program
<1>4. debug'.sel = Arg /\ debug'.reg = debug.reg
  BY <1>1, TypeParts DEF IInv, DeviceType
<1>5. /\ phase = "reset" => Left \in {9, 6, 3} /\ Arg = 0
      /\ Checking => (Left \in {11, 3} /\ Arg = 0) \/ (Left = 8 /\ Arg = 1)
  BY <1>1, CommandFits DEF AttachInv
<1>6. ResetDone'
  BY <1>1, <1>2, <1>3, <1>4, <1>5 DEF AttachInv, ResetDone
<1>7. Selected'
  BY <1>2, <1>3, <1>4, <1>5 DEF AttachInv, Selected, Checking, Asked
<1>8. AtStart'
  BY <1>1, <1>3 DEF AttachInv, AtStart, Checking, Attaching
<1>9. ValueRead'
  <2>1. Checking => Togo # 5 /\ Togo # 4
    BY <1>2, <1>5
  <2>2. Togo' = Togo
    BY <1>3 DEF Togo
  <2> QED
    BY <1>2, <1>3, <2>1, <2>2 DEF AttachInv, ValueRead, Checking, Value
<1>10. ScriptLeft' /\ SanityRight'
  BY <1>2, DeviceKeeps
<1> QED
  BY <1>6, <1>7, <1>8, <1>9, <1>10 DEF AttachInv

LEMMA HighAttach ==
  ASSUME IInv, AttachInv, DeviceHigh, phase # "exited"
  PROVE  AttachInv'
<1> DEFINE v == 16 * Arg + (debug.reg[debug.sel] % 16)
<1>1. /\ Receives("HI") /\ Send(0) /\ debug' = [debug EXCEPT !.reg[debug.sel] = v]
      /\ cpu' = cpu
  BY DEF DeviceHigh
<1>2. /\ Left = Togo /\ Left' = Left - 1 /\ Left \in Nat /\ Left # 0 /\ ~lost
      /\ UNCHANGED <<session, program, rom>> /\ UNCHANGED <<changed, lost>>
  BY <1>1, CommandArrives DEF AttachInv, Send
<1>3. UNCHANGED <<phase, todo, waiting, got, vm, alarm>> /\ Togo' = Togo
  BY <1>2 DEF session, program, Togo
<1>4. /\ phase = "reset" => Left \in {8, 5, 2}
      /\ Checking => Left \in {10, 7, 2} /\ Arg = 0
  BY <1>1, CommandFits DEF AttachInv
<1>5. debug.sel \in 0 .. 15 /\ debug.reg[debug.sel] \in 0 .. 255
  BY DebugRegisters DEF IInv
<1>6. Checking => v < 16
  BY <1>4, <1>5
<1> HIDE DEF v
<1>7. /\ debug'.sel = debug.sel
      /\ \A r \in 0 .. 15 : debug'.reg[r] = IF r = debug.sel THEN v ELSE debug.reg[r]
  BY <1>1, TypeParts DEF IInv, DeviceType
<1>8. ResetDone'
  BY <1>1, <1>2, <1>3, <1>4, <1>7 DEF AttachInv, ResetDone
<1>9. Selected'
  <2> SUFFICES ASSUME Checking, ~lost
               PROVE  /\ Left' \in 8 .. 10 => debug'.sel = 0
                      /\ Left' \in 3 .. 7  => debug'.sel = 1
                      /\ Left' \in 4 .. 8  => (debug'.reg[0] \div 2) % 2 = 1
                      /\ Left' = 6         => debug'.reg[1] < 16
                      /\ Left' \in 4 .. 5  => debug'.reg[1] = Asked
    BY <1>2, <1>3 DEF Selected, Checking, Asked
  <2>1. CASE Left = 10
    BY <1>2, <1>7, <2>1 DEF AttachInv, Selected
  <2>2. CASE Left = 7
    <3>1. debug.sel = 1 /\ (debug.reg[0] \div 2) % 2 = 1
      BY <2>2 DEF AttachInv, Selected
    <3>2. debug'.reg[0] = debug.reg[0] /\ debug'.reg[1] = v
      BY <1>7, <3>1
    <3> QED
      BY <1>2, <1>6, <1>7, <2>2, <3>1, <3>2
  <2>3. CASE Left = 2
    BY <1>2, <2>3
  <2> QED
    BY <1>4, <2>1, <2>2, <2>3
<1>10. AtStart'
  BY <1>1, <1>3 DEF AttachInv, AtStart, Checking, Attaching
<1>11. ValueRead'
  <2>1. Checking => Togo # 5 /\ Togo # 4
    BY <1>2, <1>4
  <2> QED
    BY <1>2, <1>3, <2>1 DEF AttachInv, ValueRead, Checking, Value
<1>12. ScriptLeft' /\ SanityRight'
  BY <1>2, DeviceKeeps
<1> QED
  BY <1>8, <1>9, <1>10, <1>11, <1>12 DEF AttachInv

LEMMA LowAttach ==
  ASSUME IInv, AttachInv, DeviceLow, phase # "exited"
  PROVE  AttachInv'
<1> DEFINE x == debug.reg[debug.sel]
           v == 16 * (x \div 16) + Arg
<1>1. /\ Receives("LO") /\ Send(0) /\ debug' = [debug EXCEPT !.reg[debug.sel] = v]
      /\ cpu' = IF debug.sel = 0 /\ (Arg \div 4) % 2 = 1 THEN Reset ELSE cpu
  BY DEF DeviceLow
<1>2. /\ Left = Togo /\ Left' = Left - 1 /\ Left \in Nat /\ Left # 0 /\ ~lost
      /\ UNCHANGED <<session, program, rom>> /\ UNCHANGED <<changed, lost>>
  BY <1>1, CommandArrives DEF AttachInv, Send
<1>3. UNCHANGED <<phase, todo, waiting, got, vm, alarm>> /\ Togo' = Togo
  BY <1>2 DEF session, program, Togo
<1>4. /\ phase = "reset" =>
           (Left = 7 /\ Arg = 0) \/ (Left = 4 /\ Arg = 5) \/ (Left = 1 /\ Arg = 1)
      /\ Checking =>
           (Left = 9 /\ Arg = 3) \/ (Left = 6 /\ Arg = Asked) \/ (Left = 1 /\ Arg = 1)
      /\ phase = "off" => Arg = 1
      /\ phase # "dump" /\ phase # "compare"
  BY <1>1, CommandFits DEF AttachInv
<1>5. x \in 0 .. 255 /\ debug.sel \in 0 .. 15
  BY DebugRegisters DEF IInv
<1>6. /\ (v = 16 * (x \div 16) + 3 => (v \div 2) % 2 = 1)
      /\ (x < 16 => v = Arg)
  <2>1. Arg \in 0 .. 15
    BY <1>1, ReceivesType DEF IInv
  <2> HIDE DEF x
  <2> QED
    BY <1>5, <2>1
<1>7. /\ (0 \div 4) % 2 = 0 /\ (1 \div 4) % 2 = 0 /\ (3 \div 4) % 2 = 0
      /\ (5 \div 4) % 2 = 1
  OBVIOUS
<1>8. v = 16 * (x \div 16) + 3 \/ Arg # 3
  OBVIOUS
<1>9. /\ debug'.sel = debug.sel
      /\ \A r \in 0 .. 15 : debug'.reg[r] = IF r = debug.sel THEN v ELSE debug.reg[r]
  <2> HIDE DEF v
  <2> QED
    BY <1>1, TypeParts DEF IInv, DeviceType
<1> HIDE DEF x, v
<1>10. ResetDone'
  <2> SUFFICES ASSUME phase = "reset"
               PROVE  /\ Left' <= 8 => debug'.sel = 0
                      /\ Left' <= 3 => cpu' = Reset
    BY <1>2, <1>3 DEF ResetDone
  <2>1. debug.sel = 0 /\ (Left <= 3 => cpu = Reset)
    BY <1>2, <1>4 DEF AttachInv, ResetDone
  <2>2. Left = 4 => cpu' = Reset
    BY <1>1, <1>4, <1>7, <2>1
  <2>3. Left = 1 => cpu' = Reset
    BY <1>1, <2>1
  <2> QED
    BY <1>2, <1>4, <1>9, <2>1, <2>2, <2>3
<1>11. Checking /\ Left = 9 => debug.sel = 0
  BY <1>2 DEF AttachInv, Selected
<1>12. Checking /\ Left = 6 =>
         debug.sel = 1 /\ (debug.reg[0] \div 2) % 2 = 1 /\ debug.reg[1] < 16
  BY <1>2 DEF AttachInv, Selected
<1>13. Selected'
  <2> SUFFICES ASSUME Checking, ~lost
               PROVE  /\ Left' \in 8 .. 10 => debug'.sel = 0
                      /\ Left' \in 3 .. 7  => debug'.sel = 1
                      /\ Left' \in 4 .. 8  => (debug'.reg[0] \div 2) % 2 = 1
                      /\ Left' = 6         => debug'.reg[1] < 16
                      /\ Left' \in 4 .. 5  => debug'.reg[1] = Asked
    BY <1>2, <1>3 DEF Selected, Checking, Asked
  <2>1. CASE Left = 9
    <3>1. Arg = 3
      BY <1>4, <2>1
    <3>2. debug'.reg[0] = v /\ (v \div 2) % 2 = 1
      BY <1>6, <1>8, <1>9, <1>11, <2>1, <3>1
    <3>3. debug'.sel = 0 /\ Left' = 8
      BY <1>2, <1>9, <1>11, <2>1
    <3> QED
      BY <3>2, <3>3
  <2>2. CASE Left = 6
    <3>1. Arg = Asked /\ Left' = 5
      BY <1>2, <1>4, <2>2
    <3>2. debug'.reg[1] = v /\ debug'.reg[0] = debug.reg[0] /\ debug'.sel = 1
      BY <1>9, <1>12, <2>2
    <3>3. v = Arg
      BY <1>6, <1>12, <2>2 DEF x
    <3> QED
      BY <1>12, <2>2, <3>1, <3>2, <3>3
  <2>3. CASE Left = 1
    BY <1>2, <2>3
  <2> QED
    BY <1>4, <2>1, <2>2, <2>3
<1>14. Attaching => cpu' = cpu
  <2>1. CASE phase = "off"
    BY <1>1, <1>4, <1>7, <2>1
  <2>2. CASE Checking
    BY <1>1, <1>4, <1>7, <1>12, <2>2
  <2> QED
    BY <1>4, <2>1, <2>2 DEF Attaching
<1>15. AtStart'
  BY <1>3, <1>14 DEF AttachInv, AtStart, Checking, Attaching
<1>16. ValueRead'
  <2>1. Checking => Togo # 5 /\ Togo # 4
    BY <1>2, <1>4
  <2> QED
    BY <1>2, <1>3, <2>1 DEF AttachInv, ValueRead, Checking, Value
<1>17. ScriptLeft' /\ SanityRight'
  BY <1>2, DeviceKeeps
<1> QED
  BY <1>10, <1>13, <1>15, <1>16, <1>17 DEF AttachInv

LEMMA GetAttach ==
  ASSUME IInv, AttachInv, DeviceGet, phase # "exited"
  PROVE  AttachInv'
<1> DEFINE b == IF Arg \in {8, 9} /\ (debug.reg[0] \div 2) % 2 = 1
                THEN ByteOf(RegisterValue(debug.reg[1], cpu, deviates), Arg)
                ELSE Low(debug.reg[Arg])
<1>1. Receives("GET") /\ Send(b) /\ UNCHANGED <<debug, cpu>>
  BY DEF DeviceGet
<1>2. /\ Left = Togo /\ Left' = Left - 1 /\ Left \in Nat /\ Left # 0 /\ ~lost
      /\ UNCHANGED <<session, program, rom>> /\ UNCHANGED <<changed, lost>>
      /\ toHost = <<>> /\ waiting
  BY <1>1, CommandArrives DEF AttachInv, Send
<1>3. UNCHANGED <<phase, todo, waiting, got, vm, alarm>> /\ Togo' = Togo
  BY <1>2 DEF session, program, Togo
<1>4. Checking /\ ((Left = 5 /\ Arg = 8) \/ (Left = 4 /\ Arg = 9))
  BY <1>1, CommandFits DEF AttachInv
<1>5. (debug.reg[0] \div 2) % 2 = 1 /\ debug.reg[1] = Asked /\ debug.sel = 1
  BY <1>2, <1>4 DEF AttachInv, Selected
<1>6. RegisterValue(Asked, cpu, deviates) = Value
  BY <1>4 DEF Asked, Value, RegisterValue, Checking
<1>7. b = ByteOf(Value, Arg)
  BY <1>4, <1>5, <1>6
<1>8. (Left = 5 => b = Low(Value)) /\ (Left = 4 => b = High(Value))
  <2>1. 8 % 2 = 0 /\ 9 % 2 # 0
    OBVIOUS
  <2> HIDE DEF b
  <2> QED
    BY <1>4, <1>7, <2>1 DEF ByteOf
<1> HIDE DEF b
<1>9. toHost'[1] = b
  BY <1>1, <1>2 DEF Send
<1>10. ValueRead'
  BY <1>2, <1>3, <1>4, <1>8, <1>9 DEF AttachInv, ValueRead, Checking, Value
<1>11. Selected'
  BY <1>1, <1>2, <1>3, <1>4, <1>5 DEF AttachInv, Selected, Checking, Asked
<1>12. AtStart' /\ ResetDone'
  BY <1>1, <1>3, <1>4 DEF AttachInv, AtStart, ResetDone, Checking, Attaching
<1>13. ScriptLeft' /\ SanityRight'
  BY <1>2, DeviceKeeps
<1> QED
  BY <1>10, <1>11, <1>12, <1>13 DEF AttachInv

(* Stepping and dumping are not part of selecting or reading a register.   *)
LEMMA StepDumpAttach ==
  ASSUME IInv, AttachInv, DeviceStep \/ DeviceDump \/ DeviceSends, phase # "exited"
  PROVE  AttachInv'
<1>1. /\ UNCHANGED <<session, program, rom>> /\ UNCHANGED <<changed, lost>>
      /\ DeviceStep \/ cpu' = cpu
  BY DEF DeviceStep, DeviceDump, DeviceSends, Receives, Send
<1>2. DeviceStep => phase = "compare"
  <2>1. DeviceStep => Receives("STEP")
    BY DEF DeviceStep
  <2>2. Receives("STEP") => phase = "compare"
    BY CommandFits DEF AttachInv
  <2> QED
    BY <2>1, <2>2
<1>3. DeviceDump => phase \in {"dump", "compare"}
  <2>1. DeviceDump => Receives("DUMP_ROM") \/ Receives("DUMP_REGS")
    BY DEF DeviceDump
  <2>2. Receives("DUMP_ROM") \/ Receives("DUMP_REGS") => phase \in {"dump", "compare"}
    BY CommandFits DEF AttachInv
  <2> QED
    BY <2>1, <2>2
<1>4. DeviceSends => phase \in {"dump", "compare"}
  <2> SUFFICES ASSUME DeviceSends
               PROVE  phase \in {"dump", "compare"}
    OBVIOUS
  <2>1. reply # Idle /\ todo # <<>> /\ reply.kind = Head(todo).op
    BY Waits DEF DeviceSends, Received
  <2>2. reply.kind \in {"DUMP_ROM", "DUMP_REGS"}
    BY <2>1, TypeParts DEF IInv, DeviceType, RomReplies, RegsReplies
  <2> QED
    BY <2>1, <2>2, DumpPhases DEF AttachInv
<1>5. phase \in {"dump", "compare"} /\ (DeviceStep => phase = "compare")
  BY <1>2, <1>3, <1>4
<1>6. UNCHANGED <<phase, vm, alarm>>
  BY <1>1 DEF session, program
<1>7. AtStart' /\ ResetDone' /\ Selected' /\ ValueRead'
  BY <1>1, <1>5, <1>6 DEF AttachInv, AtStart, ResetDone, Selected, ValueRead,
                          Checking, Attaching
<1>8. ScriptLeft' /\ SanityRight'
  BY <1>1, DeviceKeeps
<1> QED
  BY <1>7, <1>8 DEF AttachInv

LEMMA LineAttach ==
  ASSUME IInv, AttachInv, Change \/ Lose
  PROVE  AttachInv'
<1>1. /\ UNCHANGED <<session, program, device>>
      /\ \/ (changed' = changed + 1 /\ UNCHANGED <<toDev, lost>>)
         \/ (lost' /\ UNCHANGED changed)
  BY DEF Change, Lose
<1>2. UNCHANGED <<phase, todo, waiting, got, cause, vm, alarm, debug, cpu>> /\ Togo' = Togo
  BY <1>1 DEF session, program, device, Togo
<1>3. changed \in Nat
  BY TypeParts, LimitAssumption DEF IInv, LineType
<1>4. ScriptLeft'
  BY <1>2, KeepsLeft DEF AttachInv
<1>5. CASE changed' = changed + 1 /\ UNCHANGED <<toDev, lost>>
  <2>1. Left' = Left
    BY <1>2, <1>5 DEF Left
  <2>2. ResetDone' /\ AtStart' /\ Selected'
    BY <1>2, <1>5, <2>1, QuietAttach
  <2>3. changed' # 0 /\ changed' > 0
    BY <1>3, <1>5
  <2>4. ValueRead' /\ SanityRight'
    BY <2>3 DEF ValueRead, SanityRight
  <2> QED
    BY <1>4, <2>2, <2>4 DEF AttachInv
<1>6. CASE lost' /\ UNCHANGED changed
  <2>1. ResetDone' /\ Selected' /\ ValueRead'
    BY <1>6 DEF ResetDone, Selected, ValueRead
  <2>2. AtStart' /\ SanityRight'
    BY <1>2, <1>6 DEF AttachInv, AtStart, SanityRight, Checking, Attaching
  <2> QED
    BY <1>4, <2>1, <2>2 DEF AttachInv
<1> QED
  BY <1>1, <1>5, <1>6

LEMMA DeviceAttach ==
  ASSUME IInv, AttachInv, Device
  PROVE  AttachInv'
<1>1. CASE phase = "exited"
  <2>1. UNCHANGED <<session, program, changed>>
    BY DEF Device, DeviceSelect, DeviceHigh, DeviceLow, DeviceGet, DeviceStep,
           DeviceDump, DeviceSends, Receives, Send
  <2> QED
    BY <1>1, <2>1, DeviceKeeps
<1>2. CASE phase # "exited"
  BY <1>2, SelectAttach, HighAttach, LowAttach, GetAttach, StepDumpAttach DEF Device
<1> QED
  BY <1>1, <1>2

LEMMA InitAttach == Init => AttachInv
<1> SUFFICES ASSUME Init
             PROVE  AttachInv
  OBVIOUS
<1>1. /\ phase = "reset" /\ todo = Script("reset") /\ waiting = FALSE
      /\ cause = "none" /\ vm = Reset /\ alarm = FALSE
  BY DEF Init
<1>2. Togo = 9 /\ Left = 9
  BY <1>1, ResetScript DEF Togo, Left
<1>3. ScriptLeft
  BY <1>1, ResetScript DEF ScriptLeft
<1>4. ResetDone
  BY <1>2 DEF ResetDone
<1>5. AtStart /\ Selected /\ ValueRead /\ SanityRight
  BY <1>1 DEF AtStart, Selected, ValueRead, SanityRight, Checking, Attaching
<1> QED
  BY <1>3, <1>4, <1>5 DEF AttachInv

LEMMA AttachInductive == IInv /\ AttachInv /\ [Next]_vars => AttachInv'
<1> SUFFICES ASSUME IInv, AttachInv, [Next]_vars
             PROVE  AttachInv'
  OBVIOUS
<1>1. CASE Host
  BY <1>1, WriteAttach, ShortAttach, DumpReadAttach, AttachAttach, TrimAttach,
     UserAttach DEF Host
<1>2. CASE \E m \in Modes : Enter(m)
  BY <1>2, UserAttach
<1>3. CASE Device
  BY <1>3, DeviceAttach
<1>4. CASE Change \/ Lose
  BY <1>4, LineAttach
<1>5. CASE UNCHANGED vars
  <2>1. UNCHANGED <<phase, todo, waiting, got, cause, vm, alarm, debug, cpu,
                    toDev, toHost, changed, lost>>
    BY <1>5 DEF vars, session, program, line, device
  <2>2. Togo' = Togo /\ Left' = Left
    BY <2>1 DEF Togo, Left
  <2>3. ScriptLeft' /\ ResetDone' /\ AtStart' /\ Selected'
    BY <2>1, <2>2, QuietAttach, KeepsLeft DEF AttachInv
  <2>4. ValueRead' /\ SanityRight'
    BY <2>1, <2>2 DEF AttachInv, ValueRead, SanityRight, Checking, Value
  <2> QED
    BY <2>3, <2>4 DEF AttachInv
<1> QED
  BY <1>1, <1>2, <1>3, <1>4, <1>5 DEF Next

LEMMA AttachInvariant == Spec => []AttachInv
BY InitAttach, AttachInductive, Invariance, PTL DEF Spec

-----------------------------------------------------------------------------
(* Reading the ROM.  A byte of the answer, and what the host has of it.    *)
Answer(data, i) == IF i <= 2 * RomSize THEN RomByte(data, i - 1) ELSE Sums(data)[2 * RomSize]

GotRight == \A i \in 1 .. Len(got) : got[i] = RomByte(rom, i - 1)

(* Of the bytes that have arrived only the k-th may be wrong.              *)
OnlyWrong(k) ==
  /\ \A i \in 1 .. Len(got) : i # k => got[i] = Answer(rom, i)
  /\ \A i \in 1 .. Len(toHost) :
        Len(got) + i # k => toHost[i] = Answer(rom, Len(got) + i)

(* The device's checksum is that of what it has sent.                      *)
ReplySum ==
  reply # Idle /\ reply.kind = "DUMP_ROM" => reply.sum = Sums(rom)[reply.at]

(* The host's is right exactly if it has read the right bytes, for the     *)
(* line changes at most one byte of an answer.                             *)
DumpRight ==
  phase = "dump" /\ todo # <<>> /\ ~lost =>
    /\ \E q \in 0 .. RomSize : Len(got) = 2 * q
    /\ \E k \in Nat : OnlyWrong(k)
    /\ ~noisy => OnlyWrong(0)
    /\ sum = Sums(rom)[Len(got)] <=> GotRight

DumpDone == phase = "dump" /\ todo = <<>> => GotRight

DumpInv == ReplySum /\ DumpRight /\ DumpDone

LEMMA SumBytes ==
  ASSUME TypeOK
  PROVE  /\ rom \in Roms
         /\ Sums(rom)[0] = 0
         /\ \A i \in 0 .. 2 * RomSize : Sums(rom)[i] \in Byte
         /\ \A i \in 0 .. 2 * RomSize - 1 :
              /\ RomByte(rom, i) \in Byte
              /\ Sums(rom)[i + 1] = Xor(Sums(rom)[i], RomByte(rom, i))
<1>1. rom \in Roms
  BY TypeParts DEF DeviceType
<1> QED
  BY <1>1, SumsStep, RomBytes

(* One word more, with at most one wrong byte in all.                      *)
OneWrong(s, t, a, b, x, y) ==
  (s # t /\ x = a /\ y = b) \/ (s = t /\ (x = a \/ y = b))
TellsWrong(s, t, a, b, x, y) ==
  Xor(Xor(s, y), x) = Xor(Xor(t, a), b) <=> s = t /\ x = a /\ y = b

LEMMA WordSum ==
  ASSUME NEW s \in Byte, NEW t \in Byte, NEW a \in Byte, NEW b \in Byte,
         NEW x \in Byte, NEW y \in Byte, OneWrong(s, t, a, b, x, y)
  PROVE  TellsWrong(s, t, a, b, x, y)
<1> USE DEF TellsWrong, OneWrong
<1>1. Xor(Xor(s, y), x) = Xor(Xor(s, x), y)
  BY XorLaws
<1>2. /\ Xor(s, x) \in Byte /\ Xor(t, a) \in Byte /\ Xor(s, a) \in Byte
  BY XorLaws
<1>3. CASE s # t /\ x = a /\ y = b
  <2>1. Xor(s, a) # Xor(t, a)
    BY <1>3, XorLaws
  <2>2. Xor(Xor(s, a), b) # Xor(Xor(t, a), b)
    BY <1>2, <2>1, XorLaws
  <2> QED
    BY <1>1, <1>3, <2>2
<1>4. CASE s = t /\ y = b
  <2>1. x # a => Xor(s, x) # Xor(s, a)
    BY XorAssumption
  <2>2. x # a => Xor(Xor(s, x), b) # Xor(Xor(s, a), b)
    BY <1>2, <2>1, XorAssumption
  <2> QED
    BY <1>1, <1>4, <2>2
<1>5. CASE s = t /\ x = a
  <2>1. y # b => Xor(Xor(s, a), y) # Xor(Xor(s, a), b)
    BY <1>2, XorAssumption
  <2> QED
    BY <1>1, <1>5, <2>1
<1> QED
  BY <1>3, <1>4, <1>5

LEMMA InDump ==
  ASSUME IInv, phase = "dump", todo # <<>>
  PROVE  /\ Head(todo).op = "DUMP_ROM" /\ AlreadyRead = Len(got)
         /\ todo = <<Command("DUMP_ROM", 0)>> /\ Tail(todo) = <<>>
         /\ AnswerLength(Head(todo).op) = 2 * RomSize + 1
         /\ Len(got) \in Nat /\ Len(toHost) \in Nat
         /\ got \in Seq(Byte) /\ toHost \in Seq(Byte) /\ sum \in Byte
<1>1. todo = <<Command("DUMP_ROM", 0)>>
  BY DEF IInv, Scripted
<1>2. Head(todo).op = "DUMP_ROM" /\ Tail(todo) = <<>>
  BY <1>1 DEF Command
<1>3. got \in Seq(Byte) /\ toHost \in Seq(Byte) /\ sum \in Byte
  BY TypeParts DEF IInv, SessionType, LineType
<1> QED
  BY <1>1, <1>2, <1>3, Lengths DEF IInv, AlreadyRead

LEMMA ReadRomWordDump ==
  ASSUME IInv, DumpInv, ReadRomWord
  PROVE  phase = "dump" => DumpInv'
<1> SUFFICES ASSUME phase = "dump"
             PROVE  DumpInv'
  OBVIOUS
<1>1. /\ phase # "exited" /\ waiting /\ toHost # <<>> /\ Head(todo).op = "DUMP_ROM"
      /\ Len(got) < 2 * RomSize /\ UNCHANGED <<reply, rom>>
  BY DEF ReadRomWord, Reads, device
<1>2. todo # <<>>
  BY <1>1, Waits
<1>3. ReplySum'
  BY <1>1 DEF DumpInv, ReplySum
<1>4. CASE phase' = "exited"
  BY <1>3, <1>4 DEF DumpInv, DumpRight, DumpDone
<1>5. CASE /\ Len(toHost) >= 2 /\ Take(2)
           /\ got' = got \o <<toHost[1], toHost[2]>>
           /\ sum' = Xor(Xor(sum, toHost[2]), toHost[1])
           /\ UNCHANGED <<phase, todo, waiting, cause>>
  <2>1. DumpDone'
    BY <1>2, <1>5 DEF DumpDone
  <2> SUFFICES ASSUME ~lost
               PROVE  /\ \E q \in 0 .. RomSize : Len(got') = 2 * q
                      /\ \E k \in Nat : OnlyWrong(k)'
                      /\ ~noisy => OnlyWrong(0)'
                      /\ sum' = Sums(rom)[Len(got')] <=> GotRight'
    BY <1>1, <1>3, <1>5, <2>1 DEF DumpInv, DumpRight, Take
  <2>2. /\ got \in Seq(Byte) /\ toHost \in Seq(Byte) /\ sum \in Byte
        /\ Len(got) \in Nat /\ Len(toHost) \in Nat
    BY <1>2, InDump
  <2> DEFINE n == Len(got)
             x == toHost[1]
             y == toHost[2]
  <2>3. /\ \E q \in 0 .. RomSize : n = 2 * q
        /\ \E k \in Nat : OnlyWrong(k)
        /\ ~noisy => OnlyWrong(0)
        /\ sum = Sums(rom)[n] <=> GotRight
    BY <1>2 DEF DumpInv, DumpRight
  <2>4. PICK q \in 0 .. RomSize : n = 2 * q
    BY <2>3
  <2>5. q + 1 \in 0 .. RomSize /\ n + 2 = 2 * (q + 1) /\ n + 1 <= 2 * RomSize /\ n + 2 <= 2 * RomSize
    BY <1>1, <2>2, <2>4, RomAssumption
  <2> HIDE DEF n
  <2>6. x \in Byte /\ y \in Byte
    BY <1>5, <2>2
  <2>7. /\ Len(got') = n + 2
        /\ \A i \in 1 .. n : got'[i] = got[i]
        /\ got'[n + 1] = x /\ got'[n + 2] = y
    BY <1>5, <2>2, <2>6 DEF n
  <2>8. /\ Len(toHost') = Len(toHost) - 2
        /\ \A i \in 1 .. Len(toHost) - 2 : toHost'[i] = toHost[i + 2]
    BY <1>5, <2>2 DEF Take
  <2>9. ASSUME NEW k \in Nat, OnlyWrong(k)
        PROVE  OnlyWrong(k)'
    <3>1. /\ \A i \in 1 .. n : i # k => got[i] = Answer(rom, i)
          /\ \A i \in 1 .. Len(toHost) : n + i # k => toHost[i] = Answer(rom, n + i)
      BY <2>9 DEF OnlyWrong, n
    <3>2. /\ 1 \in 1 .. Len(toHost) /\ 2 \in 1 .. Len(toHost)
      BY <1>5, <2>2
    <3>3. /\ n + 1 # k => x = Answer(rom, n + 1)
          /\ n + 2 # k => y = Answer(rom, n + 2)
      BY <3>1, <3>2
    <3>4. ASSUME NEW i \in 1 .. Len(got'), i # k
          PROVE  got'[i] = Answer(rom, i)
      <4>1. i \in 1 .. n \/ i = n + 1 \/ i = n + 2
        BY <2>2, <2>7 DEF n
      <4> QED
        BY <2>7, <3>1, <3>3, <3>4, <4>1
    <3>5. ASSUME NEW i \in 1 .. Len(toHost'), Len(got') + i # k
          PROVE  toHost'[i] = Answer(rom, Len(got') + i)
      <4>1. /\ i + 2 \in 1 .. Len(toHost) /\ i \in 1 .. Len(toHost) - 2
            /\ Len(got') + i = n + (i + 2)
        BY <2>2, <2>7, <2>8 DEF n
      <4>2. toHost[i + 2] = Answer(rom, n + (i + 2))
        BY <3>1, <3>5, <4>1
      <4> QED
        BY <2>8, <4>1, <4>2
    <3> QED
      BY <1>1, <3>4, <3>5 DEF OnlyWrong
  <2> DEFINE S == Sums(rom)
             a == RomByte(rom, n)
             b == RomByte(rom, n + 1)
  <2>10. /\ a \in Byte /\ b \in Byte /\ S[n] \in Byte
         /\ S[n + 2] = Xor(Xor(S[n], a), b)
    <3>1. n \in 0 .. 2 * RomSize - 1 /\ n + 1 \in 0 .. 2 * RomSize - 1 /\ n \in 0 .. 2 * RomSize
            /\ (n + 1) + 1 = n + 2
      <4>1. n \in Nat /\ 2 * RomSize \in Nat
        BY <2>2, RomAssumption DEF n
      <4> QED
        BY <2>5, <4>1
    <3>2. S[n + 1] = Xor(S[n], a) /\ S[(n + 1) + 1] = Xor(S[n + 1], b)
      BY <3>1, SumBytes, Zenon DEF IInv
    <3>3. a \in Byte /\ b \in Byte /\ S[n] \in Byte
      BY <3>1, SumBytes, Zenon DEF IInv
    <3> QED
      BY <3>1, <3>2, <3>3
  <2>11. Answer(rom, n + 1) = a /\ Answer(rom, n + 2) = b
    <3>1. (n + 1) - 1 = n /\ (n + 2) - 1 = n + 1
      BY <2>2 DEF n
    <3> QED
      BY <2>5, <3>1 DEF Answer
  <2>12. GotRight' <=> GotRight /\ x = a /\ y = b
    <3>1. GotRight' <=> \A i \in 1 .. n + 2 : got'[i] = RomByte(rom, i - 1)
      BY <1>1, <2>7 DEF GotRight
    <3>2. \A i \in 1 .. n + 2 : i \in 1 .. n \/ i = n + 1 \/ i = n + 2
      BY <2>2 DEF n
    <3>3. /\ \A i \in 1 .. n : i \in 1 .. n + 2
          /\ n + 1 \in 1 .. n + 2 /\ n + 2 \in 1 .. n + 2
          /\ (n + 1) - 1 = n /\ (n + 2) - 1 = n + 1
      BY <2>2 DEF n
    <3> HIDE DEF x, y
    <3> QED
      BY <2>7, <3>1, <3>2, <3>3 DEF GotRight, n
  <2>13. OneWrong(sum, S[n], a, b, x, y)
    <3>1. PICK k \in Nat : OnlyWrong(k)
      BY <2>3
    <3>2. /\ \A i \in 1 .. n : i # k => got[i] = Answer(rom, i)
          /\ \A i \in 1 .. Len(toHost) : n + i # k => toHost[i] = Answer(rom, n + i)
      BY <3>1 DEF OnlyWrong, n
    <3>3. /\ 1 \in 1 .. Len(toHost) /\ 2 \in 1 .. Len(toHost)
      BY <1>5, <2>2
    <3>4. (n + 1 # k => x = a) /\ (n + 2 # k => y = b)
      BY <2>11, <3>2, <3>3
    <3>5. CASE GotRight
      <4>1. n + 1 # k \/ n + 2 # k
        BY <2>2 DEF n
      <4>2. x = a \/ y = b
        BY <3>4, <4>1
      <4> QED
        BY <2>3, <3>5, <4>2 DEF OneWrong
    <3>6. CASE ~GotRight
      <4>1. PICK i \in 1 .. n : got[i] # RomByte(rom, i - 1)
        BY <3>6 DEF GotRight, n
      <4>2. Answer(rom, i) = RomByte(rom, i - 1)
        <5>1. i <= 2 * RomSize
          BY <2>2, <2>5, RomAssumption DEF n
        <5> QED
          BY <5>1 DEF Answer
      <4>3. i = k
        BY <3>2, <4>1, <4>2
      <4>4. k # n + 1 /\ k # n + 2
        BY <2>2, <4>3 DEF n
      <4> QED
        BY <2>3, <3>4, <3>6, <4>4 DEF OneWrong
    <3> QED
      BY <3>5, <3>6 DEF OneWrong
  <2>14. sum' = S[n + 2] <=> sum = S[n] /\ x = a /\ y = b
    <3>1. sum' = Xor(Xor(sum, y), x)
      BY <1>5
    <3> HIDE DEF S, a, b, x, y
    <3>2. sum \in Byte /\ S[n] \in Byte /\ a \in Byte /\ b \in Byte
      BY <2>2, <2>10
    <3>3. TellsWrong(sum, S[n], a, b, x, y)
      BY <2>6, <2>13, <3>2, WordSum, Zenon
    <3> QED
      BY <2>10, <3>1, <3>3 DEF TellsWrong
  <2>15. sum' = Sums(rom)[Len(got')] <=> GotRight'
    BY <2>3, <2>7, <2>12, <2>14
  <2>16. \E r \in 0 .. RomSize : Len(got') = 2 * r
    BY <2>5, <2>7
  <2>17. \E k \in Nat : OnlyWrong(k)'
    BY <2>3, <2>9
  <2>18. ~noisy => OnlyWrong(0)'
    BY <2>3, <2>9
  <2> QED
    BY <2>15, <2>16, <2>17, <2>18
<1> QED
  BY <1>4, <1>5 DEF ReadRomWord, Exit

LEMMA OutsideDump ==
  ASSUME DumpInv, UNCHANGED <<reply, rom>>, phase' # "dump"
  PROVE  DumpInv'
BY DEF DumpInv, ReplySum, DumpRight, DumpDone

(* With nothing read yet and nothing under way.                            *)
LEMMA DumpStarts ==
  ASSUME TypeOK, ReplySum', rom' = rom, todo' # <<>>, got' = <<>>, toHost' = <<>>, sum' = 0
  PROVE  DumpInv'
<1>1. Len(got') = 0 /\ Len(toHost') = 0
  OBVIOUS
<1>2. 0 \in 0 .. RomSize /\ 0 = 2 * 0 /\ 0 \in Nat
  BY RomAssumption
<1>3. sum' = Sums(rom)[Len(got')]
  BY <1>1, SumBytes
<1>4. GotRight' /\ OnlyWrong(0)'
  BY <1>1 DEF GotRight, OnlyWrong
<1> QED
  BY <1>1, <1>2, <1>3, <1>4 DEF DumpInv, DumpRight, DumpDone

LEMMA ReadChecksumDump ==
  ASSUME IInv, DumpInv, ReadChecksum
  PROVE  phase = "dump" => DumpInv'
<1> SUFFICES ASSUME phase = "dump"
             PROVE  DumpInv'
  OBVIOUS
<1>1. /\ phase # "exited" /\ waiting /\ toHost # <<>> /\ Head(todo).op = "DUMP_ROM"
      /\ Len(got) = 2 * RomSize /\ UNCHANGED <<reply, rom>> /\ Take(1) /\ phase' = phase
  BY DEF ReadChecksum, Reads, device
<1>2. todo # <<>>
  BY <1>1, Waits
<1>3. ReplySum'
  BY <1>1 DEF DumpInv, ReplySum
<1>4. /\ got \in Seq(Byte) /\ toHost \in Seq(Byte)
      /\ AlreadyRead + 1 = AnswerLength(Head(todo).op) /\ Tail(todo) = <<>>
  BY <1>1, <1>2, InDump, RomAssumption
<1>5. 1 \in 1 .. Len(toHost)
  BY <1>1, <1>4
<1>6. ~lost /\ Len(toHost) = 1
  BY <1>1, <1>4, <1>5, LastRead DEF IInv
<1>7. toHost' = <<>>
  BY <1>1, <1>4, <1>6 DEF Take
<1>8. CASE Head(toHost) # sum /\ got' = <<>> /\ sum' = 0 /\ todo' = todo
  BY <1>1, <1>2, <1>3, <1>7, <1>8, DumpStarts DEF IInv
<1>9. CASE Head(toHost) = sum /\ todo' = Tail(todo) /\ got' = got
  <2>1. GotRight
    <3> SUFFICES ASSUME ~GotRight
                 PROVE  FALSE
      OBVIOUS
    <3>1. /\ \E k \in Nat : OnlyWrong(k)
          /\ sum = Sums(rom)[Len(got)] <=> GotRight
      BY <1>2, <1>6 DEF DumpInv, DumpRight
    <3>2. PICK k \in Nat : OnlyWrong(k)
      BY <3>1
    <3>3. PICK i \in 1 .. Len(got) : got[i] # RomByte(rom, i - 1)
      BY DEF GotRight
    <3>4. i <= 2 * RomSize /\ i # Len(got) + 1
      BY <1>1, <1>4, RomAssumption
    <3>5. i = k
      BY <3>2, <3>3, <3>4 DEF OnlyWrong, Answer
    <3>6. toHost[1] = Answer(rom, Len(got) + 1)
      BY <1>5, <3>2, <3>4, <3>5 DEF OnlyWrong
    <3>7. ~(Len(got) + 1 <= 2 * RomSize)
      BY <1>1, RomAssumption
    <3>8. toHost[1] = Sums(rom)[2 * RomSize]
      BY <3>6, <3>7 DEF Answer
    <3>9. Head(toHost) = toHost[1]
      BY <1>1, <1>4
    <3> QED
      BY <1>1, <1>9, <3>1, <3>8, <3>9
  <2>2. GotRight'
    BY <1>1, <1>9, <2>1 DEF GotRight
  <2> QED
    BY <1>3, <1>4, <1>9, <2>2 DEF DumpInv, DumpRight, DumpDone
<1> QED
  BY <1>8, <1>9 DEF ReadChecksum

LEMMA WriteDump ==
  ASSUME IInv, DumpInv, Write
  PROVE  DumpInv'
<1>1. /\ phase # "exited" /\ todo # <<>> /\ ~waiting
      /\ UNCHANGED <<phase, todo, got, sum, toHost, rom, reply>>
  BY DEF Write, device
<1>2. CASE phase = "dump"
  <2>1. got = <<>> /\ toHost = <<>>
    BY <1>1, <1>2, Waits DEF IInv, Turn
  <2>2. ReplySum'
    BY <1>1 DEF DumpInv, ReplySum
  <2>3. sum = 0
    <3>1. Len(got) = 0 /\ GotRight
      BY <2>1 DEF GotRight
    <3>2. ~lost
      BY <1>1, Waits
    <3>3. sum = Sums(rom)[0]
      BY <1>1, <1>2, <3>1, <3>2 DEF DumpInv, DumpRight
    <3> QED
      BY <3>3, SumBytes DEF IInv
  <2> QED
    BY <1>1, <2>1, <2>2, <2>3, DumpStarts DEF IInv
<1>3. CASE phase # "dump"
  BY <1>1, <1>3, OutsideDump
<1> QED
  BY <1>2, <1>3

(* The host's other steps.                                                 *)
LEMMA BeginDump ==
  ASSUME IInv, DumpInv, phase # "exited", todo = <<>>, NEW p \in Phases, Begin(p),
         UNCHANGED <<line, device>>
  PROVE  DumpInv'
<1>1. /\ phase' = p /\ todo' = Script(p) /\ got' = <<>> /\ sum' = 0
      /\ UNCHANGED <<toHost, reply, rom>>
  BY DEF Begin, line, device
<1>2. CASE p = "dump"
  <2>1. todo' # <<>>
    BY <1>1, <1>2, Scripts
  <2>2. toHost' = <<>>
    BY <1>1, AtEnd
  <2>3. ReplySum'
    BY <1>1 DEF DumpInv, ReplySum
  <2> QED
    BY <1>1, <2>1, <2>2, <2>3, DumpStarts DEF IInv
<1>3. CASE p # "dump"
  BY <1>1, <1>3, OutsideDump
<1> QED
  BY <1>2, <1>3

LEMMA ExitDump ==
  ASSUME DumpInv, NEW why, Exit(why), UNCHANGED <<reply, rom>>
  PROVE  DumpInv'
BY OutsideDump DEF Exit

LEMMA HostDump ==
  ASSUME IInv, ScriptLeft, DumpInv, Host \/ (\E m \in Modes : Enter(m))
  PROVE  DumpInv'
<1>1. CASE Write
  BY <1>1, WriteDump
<1>2. CASE waitForResponse \/ ReadRegister
  <2>1. /\ phase # "exited" /\ todo # <<>> /\ phase' = phase /\ UNCHANGED <<reply, rom>>
    BY <1>2, ShortAnswer DEF device
  <2>2. Head(todo).op # "DUMP_ROM"
    BY <1>2 DEF waitForResponse, ReadRegister, Reads
  <2>3. phase # "dump"
    BY <2>1, <2>2, InDump
  <2> QED
    BY <2>1, <2>3, OutsideDump
<1>3. CASE ReadRomWord \/ ReadChecksum
  <2>1. phase # "exited" /\ waiting /\ Head(todo).op = "DUMP_ROM"
    BY <1>3 DEF ReadRomWord, ReadChecksum, Reads
  <2>2. phase = "dump"
    BY <2>1, Waits, DumpPhases
  <2> QED
    BY <1>3, <2>2, ReadRomWordDump, ReadChecksumDump
<1>4. CASE ReadRegDump
  <2>1. /\ phase # "exited" /\ waiting /\ Head(todo).op = "DUMP_REGS"
        /\ phase' \in {phase, "exited"} /\ UNCHANGED <<reply, rom>>
    BY <1>4 DEF ReadRegDump, Reads, Exit, device
  <2>2. phase = "compare"
    BY <2>1, Waits, DumpPhases
  <2> QED
    BY <2>1, <2>2, OutsideDump
<1>5. ASSUME NEW p \in Phases, Done(p)
      PROVE  /\ phase = p /\ todo = <<>> /\ UNCHANGED <<line, device, reply, rom>>
  BY <1>5 DEF Done, device
<1>6. CASE Attach
  <2>1. \/ Done("reset") /\ Begin("check1")
        \/ Done("check1") /\ (Begin("check2") \/ Exit("sanity check"))
        \/ Done("check2") /\ (Begin("dump") \/ Exit("sanity check"))
        \/ Done("dump") /\ Begin("off")
        \/ Done("off") /\ Begin("check3")
    BY <1>6 DEF Attach, Check
  <2>2. {"reset", "check1", "check2", "check3", "dump", "off"} \subseteq Phases \ {"exited"}
    BY DEF Phases
  <2> QED
    BY <1>5, <2>1, <2>2, BeginDump, ExitDump
<1>7. CASE Trim
  <2>1. /\ Done("check3")
        /\ \/ Begin("ready") \/ Exit("sanity check") \/ Exit("panic") \/ Exit("SET is last")
    BY <1>7 DEF Trim
  <2>2. "check3" \in Phases /\ "ready" \in Phases
    BY DEF Phases
  <2> QED
    BY <1>5, <2>1, <2>2, BeginDump, ExitDump
<1>8. CASE StepVM \/ RunEnds \/ (\E m \in Modes : Enter(m))
  <2>1. /\ phase \in {"ready", "loop"} /\ UNCHANGED <<line, device>>
        /\ Begin("compare") \/ Begin("ready") \/ Begin("loop") \/ Exit("panic")
    BY <1>8 DEF StepVM, RunEnds, Pause, Enter
  <2>2. phase # "exited" /\ todo = <<>>
    BY <2>1 DEF IInv, Scripted
  <2>3. {"compare", "ready", "loop"} \subseteq Phases
    BY DEF Phases
  <2>4. UNCHANGED <<reply, rom>>
    BY <2>1 DEF device
  <2> QED
    BY <2>1, <2>2, <2>3, <2>4, BeginDump, ExitDump
<1>9. CASE Compare
  <2>1. Done("compare") /\ (Begin("ready") \/ Begin("loop") \/ Exit("panic"))
    BY <1>9 DEF Compare, Pause
  <2>2. {"compare", "ready", "loop"} \subseteq Phases
    BY DEF Phases
  <2> QED
    BY <1>5, <2>1, <2>2, BeginDump, ExitDump
<1> QED
  BY <1>1, <1>2, <1>3, <1>4, <1>6, <1>7, <1>8, <1>9 DEF Host

(* The device's and the line's.                                            *)
LEMMA DeviceDumpDump ==
  ASSUME IInv, ScriptLeft, DumpInv, phase # "exited",
         DeviceSelect \/ DeviceHigh \/ DeviceLow \/ DeviceGet \/ DeviceStep \/ DeviceDump
  PROVE  DumpInv'
<1>1. CASE DeviceSelect \/ DeviceHigh \/ DeviceLow \/ DeviceGet \/ DeviceStep
  <2>1. PICK op \in {"SET", "HI", "LO", "GET", "STEP"} : Receives(op)
    BY <1>1 DEF DeviceSelect, DeviceHigh, DeviceLow, DeviceGet, DeviceStep
  <2>2. phase # "dump" /\ phase' = phase /\ rom' = rom
    BY <2>1, CommandFits, CommandArrives DEF session
  <2>3. reply' = reply
    BY <1>1 DEF DeviceSelect, DeviceHigh, DeviceLow, DeviceGet, DeviceStep
  <2> QED
    BY <2>2, <2>3, OutsideDump
<1>2. CASE DeviceDump
  <2>1. /\ Receives("DUMP_ROM") \/ Receives("DUMP_REGS")
        /\ reply'.sum = 0 /\ reply'.at = 0 /\ UNCHANGED <<toHost, lost, noisy>>
    BY <1>2 DEF DeviceDump
  <2>2. /\ toHost = <<>> /\ todo # <<>>
        /\ UNCHANGED <<phase, todo, got, sum, rom>>
    BY <2>1, CommandArrives DEF session
  <2>3. ReplySum'
    BY <2>1, <2>2, SumBytes DEF ReplySum, IInv
  <2>4. GotRight' = GotRight /\ \A k : OnlyWrong(k)' = OnlyWrong(k)
    BY <2>1, <2>2 DEF GotRight, OnlyWrong
  <2> QED
    BY <2>1, <2>2, <2>3, <2>4 DEF DumpInv, DumpRight, DumpDone
<1> QED
  BY <1>1, <1>2

LEMMA DeviceSendsDump ==
  ASSUME IInv, ScriptLeft, DumpInv, DeviceSends
  PROVE  DumpInv'
<1>1. /\ reply # Idle /\ UNCHANGED <<toDev, session, program, rom, debug, cpu, deviates>>
      /\ UNCHANGED <<changed, noisy, lost>>
  BY DEF DeviceSends, Send
<1>2. CASE reply.kind # "DUMP_ROM"
  <2>1. reply' = Idle \/ (reply'.kind = reply.kind /\ reply' # Idle)
    BY <1>2, TypeParts DEF DeviceSends, IInv, DeviceType, RegsReplies, RomReplies, Idle
  <2>2. ReplySum'
    BY <1>2, <2>1 DEF ReplySum
  <2>3. phase = "dump" => todo = <<>>
    <3> SUFFICES ASSUME phase = "dump", todo # <<>>
                 PROVE  FALSE
      OBVIOUS
    <3>1. reply.kind = Head(todo).op
      BY <1>1, Waits DEF Received
    <3> QED
      BY <1>2, <3>1, InDump
  <2>4. GotRight' = GotRight
    BY <1>1 DEF GotRight, session
  <2> QED
    BY <1>1, <2>2, <2>3, <2>4 DEF DumpInv, DumpRight, DumpDone, session
<1>3. CASE reply.kind = "DUMP_ROM"
  <2> DEFINE at == reply.at
             b  == IF at = 2 * RomSize THEN reply.sum ELSE RomByte(rom, at)
  <2>1. reply \in RomReplies
    BY <1>1, <1>3, TypeParts DEF IInv, DeviceType, RegsReplies
  <2>2. at \in 0 .. 2 * RomSize /\ reply.sum = Sums(rom)[at]
    BY <1>1, <1>3, <2>1 DEF RomReplies, DumpInv, ReplySum
  <2>3. /\ toHost' = Append(toHost, b)
        /\ reply' = IF at = 2 * RomSize THEN Idle
                    ELSE [reply EXCEPT !.at = at + 1, !.sum = Xor(reply.sum, b)]
    BY <1>3 DEF DeviceSends, Send, RomByte
  <2>4. b = Answer(rom, at + 1)
    <3>1. (at + 1) - 1 = at /\ (at + 1 <= 2 * RomSize <=> at # 2 * RomSize)
      BY <2>2, RomAssumption
    <3> QED
      BY <2>2, <3>1 DEF Answer
  <2>5. ReplySum'
    <3>1. CASE at = 2 * RomSize
      BY <2>3, <3>1 DEF ReplySum
    <3>2. CASE at # 2 * RomSize
      <4>1. at \in 0 .. 2 * RomSize - 1
        BY <2>2, <3>2, RomAssumption
      <4>2. Sums(rom)[at + 1] = Xor(Sums(rom)[at], RomByte(rom, at))
        BY <4>1, SumBytes DEF IInv
      <4>3. reply'.at = at + 1 /\ reply'.sum = Xor(reply.sum, b)
        BY <2>1, <2>3, <3>2 DEF RomReplies
      <4> QED
        BY <1>1, <2>2, <3>2, <4>2, <4>3 DEF ReplySum
    <3> QED
      BY <3>1, <3>2
  <2>6. GotRight' = GotRight
    BY <1>1 DEF GotRight, session
  <2>7. ASSUME phase = "dump", todo # <<>>, ~lost, NEW k \in Nat, OnlyWrong(k)
        PROVE  OnlyWrong(k)'
    <3>1. toHost \in Seq(Byte) /\ Len(got) \in Nat
      BY <2>7, InDump
    <3>2. Received
      BY <1>1, <2>7, Waits
    <3>3. at = Len(got) + Len(toHost)
      <4>1. AlreadyRead = Len(got) /\ AnswerLength(Head(todo).op) = 2 * RomSize + 1
        BY <2>7, InDump
      <4>2. Unsent = 2 * RomSize + 1 - at
        <5>1. AnswerLength("DUMP_ROM") = 2 * RomSize + 1
          BY DEF AnswerLength
        <5>2. Unsent = AnswerLength(reply.kind) - at
          BY <1>1 DEF Unsent
        <5>3. AnswerLength(reply.kind) = 2 * RomSize + 1
          BY <1>3, <5>1, Zenon
        <5> QED
          BY <2>2, <5>2, <5>3, RomAssumption
      <4>3. AlreadyRead + Len(toHost) + Unsent = AnswerLength(Head(todo).op)
        BY <2>7, <3>2 DEF Received
      <4> QED
        BY <2>2, <3>1, <4>1, <4>2, <4>3, RomAssumption, SMTT(60)
    <3>4. /\ \A i \in 1 .. Len(got) : i # k => got[i] = Answer(rom, i)
          /\ \A i \in 1 .. Len(toHost) :
                Len(got) + i # k => toHost[i] = Answer(rom, Len(got) + i)
      BY <2>7 DEF OnlyWrong
    <3>5. b \in Byte
      <4>1. reply.sum \in Byte
        BY <2>1 DEF RomReplies
      <4>2. at # 2 * RomSize => at \in 0 .. 2 * RomSize - 1
        BY <2>2, RomAssumption
      <4>3. at # 2 * RomSize => RomByte(rom, at) \in Byte
        BY <4>2, SumBytes DEF IInv
      <4> QED
        BY <4>1, <4>3
    <3> HIDE DEF b, at
    <3>6. /\ Len(toHost') = Len(toHost) + 1
          /\ \A i \in 1 .. Len(toHost) : toHost'[i] = toHost[i]
          /\ toHost'[Len(toHost) + 1] = b
      BY <2>3, <3>1, <3>5
    <3>7. ASSUME NEW i \in 1 .. Len(toHost'), Len(got) + i # k
          PROVE  toHost'[i] = Answer(rom, Len(got) + i)
      <4>1. i \in 1 .. Len(toHost) \/ (i = Len(toHost) + 1 /\ Len(got) + i = at + 1)
        BY <3>1, <3>3, <3>6
      <4> QED
        BY <2>4, <3>4, <3>6, <3>7, <4>1
    <3> QED
      BY <1>1, <3>4, <3>7 DEF OnlyWrong, session
  <2> QED
    BY <1>1, <2>5, <2>6, <2>7 DEF DumpInv, DumpRight, DumpDone, session
<1> QED
  BY <1>2, <1>3

LEMMA LineDump ==
  ASSUME IInv, DumpInv, Change \/ Lose
  PROVE  DumpInv'
<1>1. UNCHANGED <<session, program, device>>
  BY DEF Change, Lose
<1>2. ReplySum' /\ GotRight' = GotRight
  BY <1>1 DEF DumpInv, ReplySum, GotRight, session, device
<1>3. DumpDone'
  BY <1>1, <1>2 DEF DumpInv, DumpDone, session
<1>4. CASE Lose
  <2>1. lost'
    BY <1>4 DEF Lose
  <2> QED
    BY <1>2, <1>3, <2>1 DEF DumpInv, DumpRight
<1>5. CASE Change
  <2>1. /\ ~noisy /\ noisy' /\ lost' = lost
        /\ \E i \in DOMAIN toHost : \E b \in Byte \ {toHost[i]} :
              toHost' = [toHost EXCEPT ![i] = b]
    BY <1>5 DEF Change
  <2>2. PICK i \in DOMAIN toHost : \E b \in Byte : toHost' = [toHost EXCEPT ![i] = b]
    BY <2>1
  <2>3. toHost \in Seq(Byte) /\ got \in Seq(Byte)
    BY TypeParts DEF IInv, LineType, SessionType
  <2>4. /\ i \in Nat /\ Len(got) \in Nat /\ Len(toHost') = Len(toHost)
        /\ \A j \in 1 .. Len(toHost) : j # i => toHost'[j] = toHost[j]
    BY <2>2, <2>3
  <2>5. ASSUME OnlyWrong(0), NEW m \in Nat, m = Len(got) + i
        PROVE  OnlyWrong(m)'
    <3>1. ASSUME NEW j \in 1 .. Len(got)
          PROVE  got[j] = Answer(rom, j)
      BY <2>3, <2>5 DEF OnlyWrong
    <3>2. ASSUME NEW j \in 1 .. Len(toHost'), Len(got) + j # m
          PROVE  toHost'[j] = Answer(rom, Len(got) + j)
      <4>1. j # i /\ j \in 1 .. Len(toHost) /\ Len(got) + j # 0
        BY <2>3, <2>4, <2>5, <3>2
      <4> QED
        BY <2>4, <2>5, <4>1 DEF OnlyWrong
    <3> QED
      BY <1>1, <3>1, <3>2 DEF OnlyWrong, session, device
  <2>6. Len(got) + i \in Nat
    BY <2>4
  <2>7. UNCHANGED <<phase, todo, got, sum, rom>>
    BY <1>1 DEF session, device
  <2>8. phase = "dump" /\ todo # <<>> /\ ~lost => \E k \in Nat : OnlyWrong(k)'
    <3> SUFFICES ASSUME phase = "dump", todo # <<>>, ~lost
                 PROVE  \E k \in Nat : OnlyWrong(k)'
      OBVIOUS
    <3>1. OnlyWrong(0)
      BY <2>1 DEF DumpInv, DumpRight
    <3>2. PICK m \in Nat : m = Len(got) + i
      BY <2>6
    <3>3. OnlyWrong(m)'
      BY <2>5, <3>1, <3>2
    <3> QED
      BY <3>3
  <2> QED
    BY <1>2, <1>3, <2>1, <2>7, <2>8 DEF DumpInv, DumpRight
<1> QED
  BY <1>4, <1>5

LEMMA InitDump == Init => DumpInv
BY DEF Init, DumpInv, ReplySum, DumpRight, DumpDone

LEMMA DumpInductive == IInv /\ ScriptLeft /\ DumpInv /\ [Next]_vars => DumpInv'
<1> SUFFICES ASSUME IInv, ScriptLeft, DumpInv, [Next]_vars
             PROVE  DumpInv'
  OBVIOUS
<1>1. CASE Host \/ (\E m \in Modes : Enter(m))
  BY <1>1, HostDump
<1>2. CASE Device
  <2>1. CASE DeviceSends
    BY <2>1, DeviceSendsDump
  <2>2. CASE ~DeviceSends /\ phase # "exited"
    BY <1>2, <2>2, DeviceDumpDump DEF Device
  <2>3. CASE ~DeviceSends /\ phase = "exited"
    <3>1. phase' = phase /\ rom' = rom
      BY <1>2, <2>3 DEF Device, DeviceSelect, DeviceHigh, DeviceLow, DeviceGet,
                        DeviceStep, DeviceDump, Receives, session
    <3>2. reply' = reply \/ (reply'.at = 0 /\ reply'.sum = 0)
      <4>1. CASE DeviceDump
        BY <4>1 DEF DeviceDump
      <4>2. CASE ~DeviceDump
        <5>1. DeviceSelect \/ DeviceHigh \/ DeviceLow \/ DeviceGet \/ DeviceStep
          BY <1>2, <2>3, <4>2 DEF Device
        <5> QED
          BY <5>1 DEF DeviceSelect, DeviceHigh, DeviceLow, DeviceGet, DeviceStep
      <4> QED
        BY <4>1, <4>2
    <3>3. ReplySum'
      BY <3>1, <3>2, SumBytes DEF DumpInv, ReplySum, IInv
    <3> QED
      BY <2>3, <3>1, <3>3 DEF DumpInv, DumpRight, DumpDone
  <2> QED
    BY <2>1, <2>2, <2>3
<1>3. CASE Change \/ Lose
  BY <1>3, LineDump
<1>4. CASE UNCHANGED vars
  <2>1. UNCHANGED <<phase, todo, got, sum, toHost, noisy, lost, rom, reply>>
    BY <1>4 DEF vars, session, line, device
  <2>2. GotRight' = GotRight /\ \A k : OnlyWrong(k)' = OnlyWrong(k)
    BY <2>1 DEF GotRight, OnlyWrong
  <2> QED
    BY <2>1, <2>2 DEF DumpInv, ReplySum, DumpRight, DumpDone
<1> QED
  BY <1>1, <1>2, <1>3, <1>4 DEF Next

-----------------------------------------------------------------------------
(* The image.  What was read is the ROM, word by word, until it is trimmed. *)
Copied ==
  phase \in {"off", "check3"} =>
    Len(image) = RomSize /\ \A i \in 1 .. RomSize : image[i] = rom[i - 1]

Kept == Attached => ImageRight /\ Len(image) \in 1 .. RomSize

ImageInv == Copied /\ Kept

(* Trimming cuts off zeros only, at least one word is left.                *)
SameBut(data, t) ==
  /\ Len(t) \in 1 .. Len(data)
  /\ \A i \in 1 .. Len(data) : data[i] = IF i <= Len(t) THEN t[i] ELSE Halt

LEMMA TrimmedSame ==
  ASSUME NEW data \in Seq(Word), Len(data) = RomSize, Used(data) # {}
  PROVE  SameBut(data, Trimmed(data))
<1> DEFINE last == CHOOSE i \in Used(data) : \A j \in Used(data) : j <= i
           kept == SubSeq(data, 1, last)
<1>1. Used(data) \subseteq 1 .. Len(data) /\ Len(data) \in Nat
  BY DEF Used
<1>2. \E i \in Used(data) : \A j \in Used(data) : j <= i
  BY <1>1, HasLast
<1>3. last \in Used(data) /\ \A j \in Used(data) : j <= last
  BY <1>2
<1>4. Trimmed(data) = IF last < HaltLimit THEN Append(kept, Halt) ELSE kept
  BY DEF Trimmed
<1> HIDE DEF last
<1>5. last \in 1 .. Len(data)
  BY <1>1, <1>3
<1>6. \A i \in 1 .. Len(data) : i \notin 1 .. last => data[i] = Halt
  BY <1>1, <1>3, <1>5 DEF Used
<1>7. /\ kept \in Seq(Word) /\ Len(kept) = last
      /\ \A i \in 1 .. last : kept[i] = data[i]
  BY <1>1, <1>5
<1> HIDE DEF kept
<1>8. CASE last < HaltLimit
  <2>1. last + 1 <= Len(data)
    BY <1>1, <1>5, <1>8, LimitAssumption, RomAssumption
  <2>2. /\ Len(Trimmed(data)) = last + 1
        /\ \A i \in 1 .. last : Trimmed(data)[i] = data[i]
        /\ Trimmed(data)[last + 1] = Halt
    BY <1>4, <1>5, <1>7, <1>8
  <2>3. ASSUME NEW i \in 1 .. Len(data)
        PROVE  data[i] = IF i <= Len(Trimmed(data)) THEN Trimmed(data)[i] ELSE Halt
    <3>1. i \in 1 .. last \/ i = last + 1 \/ ~(i <= last + 1)
      BY <1>5
    <3>2. i \notin 1 .. last => data[i] = Halt
      BY <1>6
    <3>3. i = last + 1 \/ ~(i <= last + 1) => i \notin 1 .. last
      BY <1>5
    <3> QED
      BY <2>2, <3>1, <3>2, <3>3
  <2> QED
    BY <1>1, <1>5, <2>1, <2>2, <2>3 DEF SameBut
<1>9. CASE ~(last < HaltLimit)
  BY <1>1, <1>4, <1>5, <1>6, <1>7, <1>9 DEF SameBut
<1> QED
  BY <1>8, <1>9

LEMMA KeptSame ==
  ASSUME TypeOK, Copied, phase = "check3", Used(image) # {}, image' = Trimmed(image),
         rom' = rom
  PROVE  ImageRight' /\ Len(image') \in 1 .. RomSize
<1>1. /\ Len(image) = RomSize /\ RomSize \in Nat
      /\ \A i \in 1 .. RomSize : image[i] = rom[i - 1]
  BY RomAssumption DEF Copied
<1>2. SameBut(image, image')
  <2>1. image \in Seq(Word)
    BY TypeParts DEF ProgramType
  <2> QED
    BY <1>1, <2>1, TrimmedSame
<1>3. DOMAIN rom = 0 .. RomSize - 1
  BY SumBytes, RomBytes
<1>4. ASSUME NEW a \in DOMAIN rom
      PROVE  rom[a] = IF a < Len(image') THEN image'[a + 1] ELSE Halt
  <2>1. a + 1 \in 1 .. RomSize /\ (a + 1) - 1 = a
    BY <1>1, <1>3
  <2>2. Len(image') \in Nat /\ (a < Len(image') <=> a + 1 <= Len(image'))
    BY <1>1, <1>2, <1>3 DEF SameBut
  <2>3. image[a + 1] = IF a + 1 <= Len(image') THEN image'[a + 1] ELSE Halt
    BY <1>1, <1>2, <2>1 DEF SameBut
  <2> QED
    BY <1>1, <2>1, <2>2, <2>3
<1> QED
  BY <1>1, <1>2, <1>4 DEF ImageRight, SameBut

(* The words read are the words of the ROM.                                *)
LEMMA CopiedRight ==
  ASSUME IInv, DumpInv, phase = "dump", todo = <<>>,
         image' = [i \in 1 .. RomSize |-> WordAt(i)], image' \in Seq(Word), rom' = rom
  PROVE  Len(image') = RomSize /\ \A i \in 1 .. RomSize : image'[i] = rom'[i - 1]
<1>1. Len(got) = 2 * RomSize /\ GotRight /\ RomSize \in Nat /\ rom \in Roms
  BY SumBytes, RomAssumption DEF IInv, Scripted, DumpInv, DumpDone
<1>2. Len(image') = RomSize
  BY <1>1
<1>3. ASSUME NEW i \in 1 .. RomSize
      PROVE  image'[i] = rom[i - 1]
  <2>1. /\ 2 * i - 1 \in 1 .. Len(got) /\ 2 * i \in 1 .. Len(got)
        /\ i - 1 \in 0 .. RomSize - 1
        /\ (2 * i - 1 - 1) \div 2 = i - 1 /\ (2 * i - 1 - 1) % 2 = 0
        /\ (2 * i - 1) \div 2 = i - 1 /\ (2 * i - 1) % 2 = 1
    BY <1>1
  <2>2. got[2 * i - 1] = RomByte(rom, 2 * i - 1 - 1) /\ got[2 * i] = RomByte(rom, 2 * i - 1)
    BY <1>1, <2>1 DEF GotRight
  <2>3. got[2 * i - 1] = Low(rom[i - 1]) /\ got[2 * i] = High(rom[i - 1])
    BY <2>1, <2>2 DEF RomByte, ByteOf
  <2>4. rom[i - 1] \in Word
    BY <1>1, <2>1, RomBytes
  <2> QED
    BY <2>3, <2>4, TwoBytes DEF WordAt
<1> QED
  BY <1>2, <1>3

LEMMA ImageStays ==
  ASSUME ImageInv, UNCHANGED <<image, rom>>,
         phase' \in {"off", "check3"} => phase \in {"off", "check3"},
         Attached' => Attached
  PROVE  ImageInv'
BY DEF ImageInv, Copied, Kept, ImageRight

LEMMA ImageInductive ==
  ASSUME IInv, IInv', DumpInv, ImageInv, [Next]_vars
  PROVE  ImageInv'
<1>1. CASE Write \/ waitForResponse \/ ReadRegister \/ ReadRomWord \/ ReadChecksum
             \/ ReadRegDump
  <2>1. UNCHANGED <<image, rom>> /\ phase' \in {phase, "exited"}
    BY <1>1 DEF Write, waitForResponse, ReadRegister, ReadRomWord, ReadChecksum, ReadRegDump,
                Reads, Exit, program, device
  <2> QED
    BY <2>1, ImageStays DEF Attached
<1>2. CASE Attach
  <2>1. CASE /\ Done("dump") /\ phase' = "off"
             /\ image' = [i \in 1 .. RomSize |-> WordAt(i)]
    <3>1. phase = "dump" /\ todo = <<>> /\ rom' = rom /\ image' \in Seq(Word)
      BY <2>1, TypeParts DEF Done, device, IInv, ProgramType
    <3> QED
      BY <2>1, <3>1, CopiedRight DEF ImageInv, Copied, Kept, Attached
  <2>2. CASE Done("off") /\ phase' = "check3" /\ UNCHANGED program
    BY <2>2, ImageStays DEF Done, program, device, Attached
  <2>3. CASE phase' \in {"check1", "check2", "dump", "exited"}
    BY <2>3 DEF ImageInv, Copied, Kept, Attached
  <2> QED
    BY <1>2, <2>1, <2>2, <2>3 DEF Attach, Check, Begin, Exit
<1>3. CASE Trim
  <2>1. phase = "check3" /\ rom' = rom
    BY <1>3 DEF Trim, Done, device
  <2>2. CASE phase' = "exited"
    BY <2>2 DEF ImageInv, Copied, Kept, Attached
  <2>3. CASE Used(image) # {} /\ image' = Trimmed(image) /\ phase' = "ready"
    BY <2>1, <2>3, KeptSame DEF ImageInv, Copied, Kept, IInv
  <2> QED
    BY <1>3, <2>2, <2>3 DEF Trim, Begin, Exit
<1>4. CASE StepVM \/ RunEnds \/ Compare \/ (\E m \in Modes : Enter(m))
  <2>1. /\ UNCHANGED <<image, rom>> /\ Attached
        /\ phase' \in {"ready", "loop", "compare", "exited"}
    BY <1>4 DEF StepVM, RunEnds, Compare, Pause, Enter, Done, Begin, Exit, program, device,
                Attached
  <2> QED
    BY <2>1, ImageStays
<1>5. CASE Device
  <2>1. UNCHANGED <<image, rom, phase>>
    BY <1>5 DEF Device, DeviceSelect, DeviceHigh, DeviceLow, DeviceGet, DeviceStep,
                DeviceDump, DeviceSends, Receives, session, program
  <2> QED
    BY <2>1, ImageStays DEF Attached
<1>6. CASE Change \/ Lose \/ UNCHANGED vars
  <2>1. UNCHANGED <<image, rom, phase>>
    BY <1>6 DEF Change, Lose, vars, session, program, device
  <2> QED
    BY <2>1, ImageStays DEF Attached
<1> QED
  BY <1>1, <1>2, <1>3, <1>4, <1>5, <1>6 DEF Next, Host

-----------------------------------------------------------------------------
(* Lockstep.  The VM makes its step before the device.  Once it is astray,  *)
(* it stands still and remains so.                                         *)
LockInv ==
  Attached /\ ~Astray =>
    /\ phase \in {"ready", "loop"} => vm = cpu
    /\ phase = "compare" /\ ~lost => IF Left = 2 THEN vm = CpuStepped ELSE vm = cpu

(* A step that does not panic reads the same words in image and ROM.       *)
LEMMA StepSame ==
  ASSUME TypeOK, Kept, Attached, ~Astray, vm = cpu, ~StepPanics
  PROVE  VmStepped = CpuStepped
<1>1. /\ Len(image) \in 1 .. RomSize /\ RomSize \in Nat /\ Len(image) \in Nat
      /\ DOMAIN image = 1 .. Len(image) /\ vm.pc \in Nat /\ cpu = vm
  <2>1. image \in Seq(Word) /\ vm \in Processor
    BY TypeParts DEF ProgramType
  <2>2. vm.pc \in Nat
    BY <2>1, BaseAssumption DEF Processor, Word
  <2> QED
    BY <2>1, <2>2, RomAssumption DEF Kept
<1>2. DOMAIN rom = 0 .. RomSize - 1
  BY SumBytes, RomBytes
<1>3. \A a \in 0 .. Len(image) - 1 :
        ImageWord(a) = image[a + 1] /\ RomWord(a) = rom[a] /\ rom[a] = image[a + 1]
  BY <1>1, <1>2 DEF Kept, ImageRight, ImageWord, RomWord
<1>4. CASE vm.halted
  BY <1>1, <1>4 DEF VmStepped, CpuStepped, Runs
<1>5. CASE ~vm.halted
  <2>1. vm.pc \in 0 .. Len(image) - 1
    BY <1>1, <1>5 DEF Astray
  <2>2. Runs(vm, Len(image)) /\ Runs(cpu, RomSize)
    BY <1>1, <1>5, <2>1 DEF Runs
  <2> DEFINE w == rom[cpu.pc]
             a == Source(w, vm)
  <2>3. Fetched = w
    BY <1>1, <1>3, <2>1 DEF Fetched
  <2>4. ~(a >= Len(image))
    BY <2>2, <2>3 DEF StepPanics
  <2>5. w \in Word /\ vm.pc \in Word /\ vm.rest \in Rest
    <3>1. rom \in Roms /\ cpu.pc \in 0 .. RomSize - 1 /\ vm \in Processor
      BY <1>1, <2>1, TypeParts, SMTT(60) DEF DeviceType, ProgramType
    <3> QED
      BY <3>1, RomAssumption DEF Processor
  <2>6. a = Nowhere \/ a \in Nat
    <3>1. EepromAt(w, vm.pc, vm.rest) \in {Nowhere} \cup 0 .. RomSize - 1
      BY <2>5, ProcessorAssumption
    <3> HIDE DEF w
    <3>2. a \in {Nowhere, vm.pc + 1, EepromAt(w, vm.pc, vm.rest)}
      BY DEF Source
    <3> HIDE DEF a
    <3> QED
      BY <1>1, <3>1, <3>2
  <2>7. ImageWord(a) = RomWord(a)
    <3> HIDE DEF a
    <3>1. CASE a = Nowhere
      BY <1>1, <1>2, <3>1 DEF Nowhere, ImageWord, RomWord
    <3>2. CASE a \in Nat
      <4>1. a \in 0 .. Len(image) - 1
        BY <1>1, <2>4, <3>2
      <4> QED
        BY <1>3, <4>1
    <3> QED
      BY <2>6, <3>1, <3>2
  <2> HIDE DEF w
  <2>8. VmStepped = Exec(w, vm, ImageWord(a))
    BY <2>2, <2>3 DEF VmStepped
  <2>9. CpuStepped = Exec(w, vm, RomWord(a))
    BY <1>1, <2>2 DEF CpuStepped, w
  <2> QED
    BY <2>7, <2>8, <2>9, Zenon
<1> QED
  BY <1>4, <1>5

(* The host's steps that execute nothing and tell the device nothing.      *)
LEMMA LockStays ==
  ASSUME LockInv, UNCHANGED <<phase, image, vm, cpu, rom, lost>>, Left' = Left
  PROVE  LockInv'
<1>1. Attached' = Attached /\ Astray' = Astray /\ CpuStepped' = CpuStepped
  BY DEF Attached, Astray, CpuStepped, RomWord
<1> QED
  BY <1>1 DEF LockInv

LEMMA LockApart ==
  ASSUME phase' \notin {"ready", "loop", "compare"}
  PROVE  LockInv'
BY DEF LockInv, Attached

LEMMA HostLock ==
  ASSUME IInv, IInv', AttachInv, Kept, Kept', LockInv, Host \/ (\E m \in Modes : Enter(m))
  PROVE  LockInv'
<1>1. CASE Write
  <2>1. UNCHANGED <<phase, todo, image, vm, cpu, rom, lost>> /\ ~waiting /\ waiting'
        /\ toDev' # <<>>
    <3>1. toDev \in Seq(Commands) /\ toDev' = Append(toDev, Head(todo))
      BY <1>1, TypeParts DEF IInv, LineType, Write
    <3>2. toDev' # <<>>
      BY <3>1
    <3> QED
      BY <1>1, <3>2 DEF Write, program, device
  <2>2. Left' = Left
    BY <2>1 DEF Left, Togo
  <2> QED
    BY <2>1, <2>2, LockStays
<1>2. CASE waitForResponse \/ ReadRegister
  <2>1. /\ UNCHANGED <<phase, lost, program, device>> /\ Left' = Left
    BY <1>2, ShortAnswer
  <2>2. UNCHANGED <<image, vm, cpu, rom>>
    BY <2>1 DEF program, device
  <2> QED
    BY <2>1, <2>2, LockStays
<1>3. CASE ReadRomWord \/ ReadChecksum
  <2>1. /\ phase # "exited" /\ waiting /\ Head(todo).op = "DUMP_ROM"
        /\ phase' \in {phase, "exited"}
    BY <1>3 DEF ReadRomWord, ReadChecksum, Reads, Exit
  <2>2. phase = "dump"
    BY <2>1, Waits, DumpPhases DEF AttachInv
  <2> QED
    BY <2>1, <2>2, LockApart
<1>4. CASE ReadRegDump
  <2>1. /\ phase # "exited" /\ waiting /\ Head(todo).op = "DUMP_REGS"
        /\ UNCHANGED <<image, vm, cpu, rom, lost, toDev>> /\ toHost # <<>>
    BY <1>4 DEF ReadRegDump, Reads, Take, program, device
  <2>2. phase = "compare" /\ Togo = 1 /\ toDev = <<>>
    BY <2>1, Waits, DumpPhases DEF AttachInv, Received
  <2>3. CASE phase' = "exited"
    BY <2>3, LockApart
  <2>4. CASE phase' = phase /\ Answered
    <3>1. Left = 0
      BY <2>1, <2>2 DEF Left
    <3>2. todo \in Seq(Commands) /\ todo # <<>> /\ todo' = Tail(todo) /\ ~waiting'
      BY <2>1, <2>4, Waits DEF Answered
    <3>3. Len(todo') = Len(todo) - 1
      BY <3>2
    <3>4. Left' = 0
      BY <2>2, <3>2, <3>3 DEF Left, Togo
    <3> QED
      BY <2>1, <2>4, <3>1, <3>4, LockStays
  <2> QED
    BY <1>4, <2>3, <2>4 DEF ReadRegDump, Exit
<1>5. CASE Attach
  <2>1. phase' \in {"check1", "check2", "dump", "off", "check3", "exited"}
    BY <1>5 DEF Attach, Check, Begin, Exit
  <2> QED
    BY <2>1, LockApart
<1>6. CASE Trim
  <2>1. phase = "check3" /\ phase' \in {"ready", "exited"} /\ UNCHANGED <<vm, cpu>>
    BY <1>6 DEF Trim, Done, device, Begin, Exit
  <2>2. CASE phase' = "exited"
    BY <2>2, LockApart
  <2>3. CASE phase' = "ready"
    <3>1. vm' = Reset /\ cpu' = Reset
      BY <2>1 DEF AttachInv, AtStart, Attaching, Checking
    <3> QED
      BY <2>3, <3>1 DEF LockInv
  <2> QED
    BY <2>1, <2>2, <2>3
<1>7. CASE RunEnds \/ (\E m \in Modes : Enter(m))
  <2>1. /\ phase \in {"ready", "loop"} /\ phase' \in {"ready", "loop", "exited"}
        /\ UNCHANGED <<image, vm, cpu, rom>>
    BY <1>7 DEF RunEnds, Pause, Enter, Begin, Exit, program, device
  <2>2. Attached /\ Astray' = Astray
    BY <2>1 DEF Attached, Astray
  <2>3. CASE phase' = "exited"
    BY <2>3, LockApart
  <2>4. CASE phase' \in {"ready", "loop"}
    BY <2>1, <2>2, <2>4 DEF LockInv
  <2> QED
    BY <2>1, <2>3, <2>4
<1>8. CASE Compare
  <2>1. /\ phase = "compare" /\ todo = <<>> /\ phase' \in {"ready", "loop", "exited"}
        /\ UNCHANGED <<image, vm, cpu, rom>>
    BY <1>8 DEF Compare, Pause, Done, device, Begin, Exit
  <2>2. ~lost /\ Left = 0
    BY <2>1, AtEnd
  <2>3. Attached /\ Astray' = Astray
    BY <2>1 DEF Attached, Astray
  <2>4. ~Astray => vm = cpu
    BY <2>1, <2>2, <2>3 DEF LockInv
  <2>5. CASE phase' = "exited"
    BY <2>5, LockApart
  <2>6. CASE phase' \in {"ready", "loop"}
    BY <2>1, <2>3, <2>4, <2>6 DEF LockInv
  <2> QED
    BY <2>1, <2>5, <2>6
<1>9. CASE StepVM
  <2>1. /\ phase = "loop" /\ vm' = VmStepped /\ UNCHANGED <<image, cpu, rom>>
        /\ Exit("panic") \/ (~StepPanics /\ Begin("compare"))
    BY <1>9 DEF StepVM, device
  <2>2. CASE Exit("panic")
    BY <2>2, LockApart DEF Exit
  <2>3. CASE ~StepPanics /\ Begin("compare")
    <3>1. Attached /\ CpuStepped' = CpuStepped /\ phase' = "compare"
      BY <2>1, <2>3 DEF Attached, CpuStepped, RomWord, Begin
    <3>2. Left' = 2
      <4>1. todo' = <<Command("STEP", 0), Command("DUMP_REGS", 0)>> /\ ~waiting'
        BY <2>3 DEF Begin, Script
      <4>2. Len(todo') = 2
        BY <4>1
      <4> QED
        BY <4>1, <4>2 DEF Left, Togo
    <3>3. Astray => Astray'
      <4>1. image \in Seq(Word) /\ vm.pc \in Word
        BY TypeParts DEF IInv, ProgramType, Processor
      <4>2. Len(image) \in Nat /\ vm.pc \in Nat
        BY <4>1, BaseAssumption DEF Word
      <4>3. Astray => ~Runs(vm, Len(image))
        BY <4>2 DEF Astray, Runs
      <4> QED
        BY <2>1, <4>3 DEF Astray, VmStepped
    <3>4. ~Astray => vm' = CpuStepped'
      <4>1. ~Astray => vm = cpu
        BY <2>1, <3>1 DEF LockInv
      <4> QED
        BY <2>1, <2>3, <3>1, <4>1, StepSame DEF IInv
    <3> QED
      BY <3>1, <3>2, <3>3, <3>4 DEF LockInv
  <2> QED
    BY <2>1, <2>2, <2>3
<1> QED
  BY <1>1, <1>2, <1>3, <1>4, <1>5, <1>6, <1>7, <1>8, <1>9 DEF Host

LEMMA OthersLock ==
  ASSUME IInv, ScriptLeft, LockInv, Device \/ Change \/ Lose \/ UNCHANGED vars
  PROVE  LockInv'
<1>1. CASE phase = "exited"
  <2>1. phase' = phase
    BY DEF Device, DeviceSelect, DeviceHigh, DeviceLow, DeviceGet, DeviceStep,
           DeviceDump, DeviceSends, Receives, Change, Lose, vars, session
  <2> QED
    BY <1>1, <2>1, LockApart
<1>2. CASE phase # "exited" /\ (DeviceSelect \/ DeviceHigh \/ DeviceLow \/ DeviceGet)
  <2>1. PICK op \in {"SET", "HI", "LO", "GET"} : Receives(op)
    BY <1>2 DEF DeviceSelect, DeviceHigh, DeviceLow, DeviceGet
  <2>2. phase' = phase /\ phase \notin {"ready", "loop", "compare"}
    BY <1>2, <2>1, CommandFits, CommandArrives DEF session, Checking
  <2> QED
    BY <2>2, LockApart
<1>3. CASE phase # "exited" /\ DeviceStep
  <2>1. Receives("STEP") /\ cpu' = CpuStepped
    BY <1>3 DEF DeviceStep
  <2>2. /\ Left = 2 /\ phase = "compare"
    BY <1>3, <2>1, CommandFits DEF Checking
  <2>3. /\ UNCHANGED <<phase, image, vm>> /\ ~lost /\ Left' = Left - 1
    BY <1>3, <2>1, CommandArrives DEF session, program
  <2>4. Left' = 1
    BY <2>2, <2>3
  <2>5. Attached /\ Astray' = Astray
    BY <2>2, <2>3 DEF Attached, Astray
  <2> QED
    BY <2>1, <2>2, <2>3, <2>4, <2>5 DEF LockInv
<1>4. CASE phase # "exited" /\ DeviceDump
  <2>1. PICK op \in {"DUMP_ROM", "DUMP_REGS"} : Receives(op)
    BY <1>4 DEF DeviceDump
  <2>2. UNCHANGED <<phase, image, vm, rom, cpu, lost>>
    BY <1>4, <2>1, CommandArrives DEF session, program, DeviceDump
  <2>3. CASE phase = "compare"
    <3>1. Left = 1
      BY <1>4, <2>1, <2>3, CommandFits
    <3>2. Left' = Left - 1
      BY <1>4, <2>1, CommandArrives
    <3>3. Left' = 0
      BY <3>1, <3>2
    <3>4. Attached /\ Astray' = Astray
      BY <2>2, <2>3 DEF Attached, Astray
    <3> QED
      BY <2>2, <2>3, <3>1, <3>3, <3>4 DEF LockInv
  <2>4. CASE phase # "compare"
    <3>1. phase \notin {"ready", "loop"}
      BY <1>4, <2>1, CommandFits DEF Checking
    <3> QED
      BY <2>2, <2>4, <3>1, LockApart
  <2> QED
    BY <2>3, <2>4
<1>5. CASE DeviceSends \/ Change \/ UNCHANGED vars
  <2>1. UNCHANGED <<phase, todo, waiting, toDev, image, vm, cpu, rom, lost>>
    BY <1>5 DEF DeviceSends, Send, Change, vars, session, program, line, device
  <2>2. Left' = Left
    BY <2>1 DEF Left, Togo
  <2> QED
    BY <2>1, <2>2, LockStays
<1>6. CASE Lose
  <2>1. UNCHANGED <<phase, image, vm, cpu, rom>> /\ lost'
    BY <1>6 DEF Lose, session, program, device
  <2>2. Attached' = Attached /\ Astray' = Astray
    BY <2>1 DEF Attached, Astray
  <2> QED
    BY <2>1, <2>2 DEF LockInv
<1> QED
  BY <1>1, <1>2, <1>3, <1>4, <1>5, <1>6 DEF Device

-----------------------------------------------------------------------------
(* Reporting a difference.  The bytes of a register dump, as long as the   *)
(* line has left them alone.                                               *)
RegByte(i) == ByteOf(RegisterValue(DumpRegs[i \div 2 + 1], cpu, deviates), i)

RegsArrived ==
  phase = "compare" /\ Togo = 1 /\ ~lost /\ ~noisy =>
    \A i \in 1 .. Len(toHost) : toHost[i] = RegByte(i - 1)

RegsRight ==
  phase = "compare" /\ todo = <<>> /\ ~noisy =>
    /\ Len(got) = 2 * Len(DumpRegs)
    /\ \A i \in 1 .. Len(got) : got[i] = RegByte(i - 1)

Alarms ==
  /\ phase \in {"ready", "loop"} /\ alarm /\ ~Astray => deviates \/ noisy
  /\ phase = "loop" /\ steps > 0 /\ deviates /\ ~Astray => noisy

AlarmInv == RegsArrived /\ RegsRight /\ Alarms

(* What an undisturbed dump tells of a register.                           *)
LEMMA RegisterWords ==
  ASSUME TypeOK, NEW i \in DOMAIN DumpRegs
  PROVE  RegisterValue(DumpRegs[i], cpu, deviates) \in Word
<1>1. /\ DumpRegs[i] \in 0 .. 15 /\ cpu \in Processor /\ deviates \in BOOLEAN
  BY DumpAssumption, TypeParts DEF DeviceType
<1>2. DumpRegs[i] \in 0 .. 255
  BY <1>1
<1> QED
  BY <1>1, <1>2, RegisterType

LEMMA RegBytes ==
  ASSUME NEW k, NEW j, k \div 2 + 1 = j
  PROVE  /\ k % 2 = 0 => RegByte(k) = Low(RegisterValue(DumpRegs[j], cpu, deviates))
         /\ k % 2 = 1 => RegByte(k) = High(RegisterValue(DumpRegs[j], cpu, deviates))
BY DEF RegByte, ByteOf

LEMMA WordRead ==
  ASSUME TypeOK, RegsRight, phase = "compare", todo = <<>>, ~noisy, NEW i \in DOMAIN DumpRegs
  PROVE  WordAt(i) = RegisterValue(DumpRegs[i], cpu, deviates)
<1>1. /\ Len(got) = 2 * Len(DumpRegs)
      /\ \A j \in 1 .. Len(got) : got[j] = RegByte(j - 1)
  BY DEF RegsRight
<1>2. Len(DumpRegs) \in Nat /\ i \in 1 .. Len(DumpRegs)
  BY DumpAssumption
<1>3. /\ 2 * i - 1 \in 1 .. Len(got) /\ 2 * i \in 1 .. Len(got)
      /\ (2 * i - 1 - 1) \div 2 + 1 = i /\ (2 * i - 1 - 1) % 2 = 0
      /\ (2 * i - 1) \div 2 + 1 = i /\ (2 * i - 1) % 2 = 1
  <2>1. i \in Nat \ {0}
    BY <1>2
  <2>2. /\ (2 * i - 1 - 1) \div 2 + 1 = i /\ (2 * i - 1 - 1) % 2 = 0
        /\ (2 * i - 1) \div 2 + 1 = i /\ (2 * i - 1) % 2 = 1
    <3>1. 2 * i - 1 - 1 = 2 * (i - 1) /\ i - 1 \in Nat
      BY <2>1
    <3>2. \A k \in Nat : (2 * k) \div 2 = k /\ (2 * k) % 2 = 0
      OBVIOUS
    <3>3. \A k \in Nat : (2 * k + 1) \div 2 = k /\ (2 * k + 1) % 2 = 1
      OBVIOUS
    <3>4. 2 * i - 1 = 2 * (i - 1) + 1 /\ (i - 1) + 1 = i
      BY <2>1
    <3> QED
      BY <3>1, <3>2, <3>3, <3>4
  <2>3. 2 * i - 1 \in 1 .. 2 * Len(DumpRegs) /\ 2 * i \in 1 .. 2 * Len(DumpRegs)
    BY <1>2
  <2> QED
    BY <1>1, <2>2, <2>3
<1> DEFINE v == RegisterValue(DumpRegs[i], cpu, deviates)
<1>4. got[2 * i - 1] = RegByte(2 * i - 1 - 1) /\ got[2 * i] = RegByte(2 * i - 1)
  BY <1>1, <1>3
<1>5. got[2 * i - 1] = Low(v) /\ got[2 * i] = High(v)
  BY <1>3, <1>4, RegBytes
<1>6. v \in Word
  BY RegisterWords
<1> HIDE DEF v
<1>7. WordAt(i) = v
  BY <1>5, <1>6, TwoBytes DEF WordAt
<1> QED
  BY <1>7 DEF v

(* The next word is another one.                                           *)
LEMMA NextWord ==
  ASSUME NEW x \in Word
  PROVE  (x + 1) % (Base * Base) # x
<1> DEFINE n == Base * Base
<1>1. n \in Nat /\ n > 1 /\ x \in 0 .. n - 1
  BY BaseAssumption DEF Word, Set
<1> HIDE DEF n
<1>2. (x + 1) % n # x
  <2>1. CASE x + 1 = n
    <3>1. n % n = 0
      BY <1>1
    <3> QED
      BY <1>1, <2>1, <3>1
  <2>2. CASE x + 1 # n
    <3>1. x + 1 \in 0 .. n - 1
      BY <1>1, <2>2
    <3>2. (x + 1) % n = x + 1
      BY <1>1, <3>1
    <3> QED
      BY <1>1, <3>2
  <2> QED
    BY <2>1, <2>2
<1> QED
  BY <1>2 DEF n

LEMMA CompareAlarm ==
  ASSUME IInv, AttachInv, Kept, LockInv, AlarmInv, Compare
  PROVE  AlarmInv'
<1>1. /\ phase = "compare" /\ todo = <<>> /\ phase' \in {"ready", "loop", "exited"}
      /\ UNCHANGED <<image, vm, cpu, noisy, deviates>>
      /\ alarm' = compareRegistersWithDevice
      /\ phase' = "loop" => ~alarm'
  BY DEF Compare, Pause, Done, Begin, Exit, line, device
<1>2. Attached /\ Astray' = Astray /\ ~lost /\ Left = 0
  BY <1>1, AtEnd DEF Attached, Astray
<1>3. ~Astray => vm = cpu
  BY <1>1, <1>2 DEF LockInv
<1>4. ASSUME ~noisy, ~Astray, ~deviates
      PROVE  ~alarm'
  <2>1. ASSUME NEW i \in 1 .. Len(DumpRegs)
        PROVE  WordAt(i) = RegisterValue(DumpRegs[i], vm, FALSE)
    <3>1. i \in DOMAIN DumpRegs /\ deviates = FALSE
      BY <1>4, DumpAssumption, TypeParts DEF IInv, DeviceType
    <3> QED
      BY <1>1, <1>3, <1>4, <3>1, WordRead DEF AlarmInv, IInv
  <2> QED
    BY <1>1, <2>1 DEF compareRegistersWithDevice
<1>5. ASSUME ~noisy, ~Astray, deviates
      PROVE  alarm'
  <2>1. PICK i \in DOMAIN DumpRegs : DumpRegs[i] = 0
    BY DumpAssumption
  <2>2. WordAt(i) = RegisterValue(DumpRegs[i], cpu, deviates)
    BY <1>1, <1>5, WordRead DEF AlarmInv, IInv
  <2> DEFINE x == Shown(0, vm.rest)
  <2>3. RegisterValue(DumpRegs[i], cpu, deviates) = (x + 1) % (Base * Base)
    BY <1>3, <1>5, <2>1 DEF RegisterValue
  <2>4. RegisterValue(DumpRegs[i], vm, FALSE) = x
    BY <2>1 DEF RegisterValue
  <2>5. i \in 1 .. Len(DumpRegs)
    BY <2>1, DumpAssumption
  <2>6. x \in Word
    <3>1. vm.rest \in Rest /\ 0 \in 0 .. 255
      BY TypeParts DEF IInv, ProgramType, Processor
    <3> QED
      BY <3>1, ProcessorAssumption
  <2> HIDE DEF x
  <2>7. WordAt(i) # RegisterValue(DumpRegs[i], vm, FALSE)
    <3>1. (x + 1) % (Base * Base) # x
      BY <2>6, NextWord
    <3> QED
      BY <2>2, <2>3, <2>4, <3>1, Zenon
  <2> QED
    BY <1>1, <2>5, <2>7 DEF compareRegistersWithDevice
<1> QED
  BY <1>1, <1>2, <1>4, <1>5 DEF AlarmInv, RegsArrived, RegsRight, Alarms

LEMMA ReadRegDumpAlarm ==
  ASSUME IInv, ScriptLeft, AlarmInv, ReadRegDump
  PROVE  AlarmInv'
<1>1. /\ phase # "exited" /\ waiting /\ Head(todo).op = "DUMP_REGS"
      /\ UNCHANGED <<noisy, lost, cpu, deviates>>
  BY DEF ReadRegDump, Reads, Take, program, device
<1>2. phase = "compare" /\ Togo = 1 /\ todo # <<>>
  BY <1>1, Waits, DumpPhases
<1>3. CASE phase' = "exited"
  BY <1>3 DEF AlarmInv, RegsArrived, RegsRight, Alarms
<1>4. CASE /\ Len(toHost) >= 2 * Len(DumpRegs) /\ phase' = phase /\ Answered
           /\ got' = SubSeq(toHost, 1, 2 * Len(DumpRegs))
  <2>1. toHost \in Seq(Byte) /\ Len(DumpRegs) \in Nat \ {0} /\ todo \in Seq(Commands)
    <3>1. toHost \in Seq(Byte) /\ todo \in Seq(Commands)
      BY TypeParts DEF IInv, LineType, SessionType
    <3>2. Len(DumpRegs) \in Nat
      BY DumpAssumption
    <3>3. 2 * Len(DumpRegs) \in Nat \ {0}
      BY Lengths DEF IInv
    <3>4. Len(DumpRegs) # 0
      BY <3>3
    <3> QED
      BY <3>1, <3>2, <3>4
  <2>2. /\ 2 * Len(DumpRegs) \in 1 .. Len(toHost)
        /\ AlreadyRead + 2 * Len(DumpRegs) = AnswerLength(Head(todo).op)
    <3>1. 2 * Len(DumpRegs) \in 1 .. Len(toHost)
      BY <1>4, <2>1
    <3>2. AlreadyRead = 0 /\ AnswerLength("DUMP_REGS") = 2 * Len(DumpRegs)
      BY <1>1 DEF AlreadyRead, AnswerLength
    <3>3. AnswerLength(Head(todo).op) = 2 * Len(DumpRegs)
      BY <1>1, <3>2, Zenon
    <3> QED
      BY <2>1, <3>1, <3>2, <3>3
  <2>3. ~lost
    BY <1>1, <2>2, LastRead DEF IInv
  <2>4. /\ Len(got') = 2 * Len(DumpRegs)
        /\ \A i \in 1 .. Len(got') : got'[i] = toHost[i] /\ i \in 1 .. Len(toHost)
    BY <1>4, <2>1, <2>2
  <2>5. Togo' # 1
    <3>1. Len(todo') = Len(todo) - 1
      BY <1>2, <1>4, <2>1 DEF Answered
    <3> QED
      BY <1>2, <3>1 DEF Togo
  <2>6. \A i : RegByte(i)' = RegByte(i)
    BY <1>1 DEF RegByte
  <2>7. RegsRight'
    BY <1>1, <1>2, <2>3, <2>4, <2>6 DEF RegsRight, AlarmInv, RegsArrived
  <2> QED
    BY <1>2, <1>4, <2>5, <2>7 DEF AlarmInv, RegsArrived, Alarms
<1> QED
  BY <1>3, <1>4 DEF ReadRegDump, Exit

LEMMA HostAlarm ==
  ASSUME IInv, IInv', AttachInv, Kept, LockInv, AlarmInv, Host \/ (\E m \in Modes : Enter(m))
  PROVE  AlarmInv'
<1>1. CASE Write
  <2>1. /\ phase # "exited" /\ ~waiting /\ todo # <<>>
        /\ UNCHANGED <<phase, todo, toHost>>
    BY <1>1 DEF Write
  <2>2. toHost' = <<>> /\ todo' # <<>>
    BY <2>1, Waits
  <2>3. phase \notin {"ready", "loop"}
    BY <2>1 DEF IInv, Scripted
  <2> QED
    BY <2>1, <2>2, <2>3 DEF AlarmInv, RegsArrived, RegsRight, Alarms
<1>2. CASE waitForResponse \/ ReadRegister
  <2>1. /\ phase # "exited" /\ todo # <<>> /\ ~waiting' /\ phase' = phase
        /\ Togo' = Togo - 1
    BY <1>2, ShortAnswer
  <2>2. toHost' = <<>>
    BY <2>1 DEF IInv, Turn, InStep
  <2>3. phase \notin {"ready", "loop"}
    BY <2>1 DEF IInv, Scripted
  <2>4. phase = "compare" => Togo = 2
    <3>1. Head(todo).op # "DUMP_REGS"
      BY <1>2 DEF waitForResponse, ReadRegister, Reads
    <3>2. phase = "compare" => CompareNext(Togo, Head(todo))
      BY <2>1, Table DEF IInv, AttachInv, Togo
    <3> QED
      BY <3>1, <3>2, ByOp DEF CompareNext
  <2>5. phase = "compare" => todo' # <<>>
    <3>1. phase = "compare" => Togo' = 1
      BY <2>1, <2>4
    <3> QED
      BY <3>1 DEF Togo
  <2> QED
    BY <2>1, <2>2, <2>3, <2>5 DEF AlarmInv, RegsArrived, RegsRight, Alarms
<1>3. CASE ReadRomWord \/ ReadChecksum
  <2>1. /\ phase # "exited" /\ waiting /\ Head(todo).op = "DUMP_ROM"
        /\ phase' \in {phase, "exited"}
    BY <1>3 DEF ReadRomWord, ReadChecksum, Reads, Exit
  <2>2. phase = "dump"
    BY <2>1, Waits, DumpPhases DEF AttachInv
  <2> QED
    BY <2>1, <2>2 DEF AlarmInv, RegsArrived, RegsRight, Alarms
<1>4. CASE ReadRegDump
  BY <1>4, ReadRegDumpAlarm DEF AttachInv
<1>5. CASE Attach
  <2>1. phase' \in {"check1", "check2", "dump", "off", "check3", "exited"}
    BY <1>5 DEF Attach, Check, Begin, Exit
  <2> QED
    BY <2>1 DEF AlarmInv, RegsArrived, RegsRight, Alarms
<1>6. CASE Trim
  <2>1. phase = "check3" /\ phase' \in {"ready", "exited"} /\ alarm' = alarm
    BY <1>6 DEF Trim, Done, Begin, Exit
  <2>2. ~alarm'
    BY <2>1 DEF AttachInv, AtStart, Attaching, Checking
  <2> QED
    BY <2>1, <2>2 DEF AlarmInv, RegsArrived, RegsRight, Alarms
<1>7. CASE RunEnds \/ (\E m \in Modes : Enter(m))
  <2>1. /\ phase \in {"ready", "loop"} /\ phase' \in {"ready", "loop", "exited"}
        /\ UNCHANGED <<image, vm, alarm, noisy, deviates>>
        /\ phase' = "loop" => steps' = 0
    BY <1>7 DEF RunEnds, Pause, Enter, Begin, Exit, program, line, device
  <2>2. Astray' = Astray
    BY <2>1 DEF Astray
  <2> QED
    BY <2>1, <2>2 DEF AlarmInv, RegsArrived, RegsRight, Alarms
<1>8. CASE StepVM
  <2>1. CASE Exit("panic")
    BY <2>1 DEF Exit, AlarmInv, RegsArrived, RegsRight, Alarms
  <2>2. CASE Begin("compare")
    <3>1. phase' = "compare" /\ todo' = <<Command("STEP", 0), Command("DUMP_REGS", 0)>>
      BY <2>2 DEF Begin, Script
    <3>2. Len(todo') = 2
      BY <3>1
    <3>3. todo' # <<>> /\ Togo' # 1
      BY <3>2 DEF Togo
    <3> QED
      BY <3>1, <3>3 DEF AlarmInv, RegsArrived, RegsRight, Alarms
  <2> QED
    BY <1>8, <2>1, <2>2 DEF StepVM
<1>9. CASE Compare
  BY <1>9, CompareAlarm
<1> QED
  BY <1>1, <1>2, <1>3, <1>4, <1>5, <1>6, <1>7, <1>8, <1>9 DEF Host

LEMMA DeviceSendsAlarm ==
  ASSUME IInv, ScriptLeft, AlarmInv, DeviceSends
  PROVE  AlarmInv'
<1>1. /\ reply # Idle /\ UNCHANGED <<changed, noisy, lost>>
      /\ UNCHANGED <<phase, todo, got, image, vm, alarm, steps, cpu, deviates>>
  BY DEF DeviceSends, Send, session, program
<1>2. Astray' = Astray /\ \A i : RegByte(i)' = RegByte(i)
  BY <1>1 DEF Astray, RegByte
<1>3. ASSUME phase = "compare", Togo = 1, ~lost, ~noisy
      PROVE  \A i \in 1 .. Len(toHost') : toHost'[i] = RegByte(i - 1)
  <2>1. waiting /\ Received /\ todo # <<>>
    BY <1>1, <1>3, Waits
  <2>2. Head(todo).op = "DUMP_REGS"
    <3>1. CompareNext(Togo, Head(todo))
      BY <1>3, <2>1, Table DEF IInv, Togo
    <3> QED
      BY <1>3, <3>1 DEF CompareNext, Command
  <2>3. reply.kind = "DUMP_REGS"
    BY <1>1, <2>1, <2>2 DEF Received
  <2>4. reply \in RegsReplies
    BY <1>1, <2>3, TypeParts DEF IInv, DeviceType, RomReplies
  <2>5. toHost \in Seq(Byte) /\ Len(DumpRegs) \in Nat \ {0} /\ reply.at \in Nat
    BY <2>4, DumpAssumption, TypeParts DEF IInv, LineType, RegsReplies
  <2>6. reply.at = Len(toHost)
    <3>1. AnswerLength("DUMP_REGS") = 2 * Len(DumpRegs) /\ AlreadyRead = 0
      BY <2>2 DEF AnswerLength, AlreadyRead
    <3>2. Unsent = AnswerLength(reply.kind) - reply.at
      BY <1>1 DEF Unsent
    <3>3. AlreadyRead + Len(toHost) + Unsent = AnswerLength(Head(todo).op)
      BY <1>3, <2>1 DEF Received
    <3>4. /\ AnswerLength(reply.kind) = 2 * Len(DumpRegs)
          /\ AnswerLength(Head(todo).op) = 2 * Len(DumpRegs)
      BY <2>2, <2>3, <3>1, Zenon
    <3> QED
      BY <2>5, <3>1, <3>2, <3>3, <3>4
  <2>7. toHost' = Append(toHost, RegByte(reply.at))
    BY <2>3 DEF DeviceSends, Send, RegByte
  <2>8. RegByte(reply.at) \in Byte
    <3>1. 2 * Len(DumpRegs) - 1 \in Nat /\ reply.at \in 0 .. 2 * Len(DumpRegs) - 1
      BY <2>4, <2>5 DEF RegsReplies
    <3>2. reply.at \div 2 + 1 \in DOMAIN DumpRegs
      BY <2>5, <3>1, DumpAssumption
    <3> QED
      BY <2>5, <3>2, RegisterWords, Bytes DEF RegByte, IInv
  <2> DEFINE b == RegByte(reply.at)
  <2> HIDE DEF b
  <2>9. /\ Len(toHost') = Len(toHost) + 1
        /\ \A i \in 1 .. Len(toHost) : toHost'[i] = toHost[i]
        /\ toHost'[Len(toHost) + 1] = b
    BY <2>5, <2>7, <2>8 DEF b
  <2>10. ASSUME NEW i \in 1 .. Len(toHost')
         PROVE  toHost'[i] = RegByte(i - 1)
    <3>1. i \in 1 .. Len(toHost) \/ (i = Len(toHost) + 1 /\ i - 1 = reply.at)
      BY <2>5, <2>6, <2>9
    <3> QED
      BY <1>3, <2>9, <3>1 DEF AlarmInv, RegsArrived, b
  <2> QED
    BY <2>10
<1>4. RegsArrived'
  <2>1. Togo' = Togo
    BY <1>1 DEF Togo
  <2> QED
    BY <1>1, <1>2, <1>3, <2>1 DEF RegsArrived
<1> QED
  BY <1>1, <1>2, <1>4 DEF AlarmInv, RegsRight, Alarms

LEMMA OthersAlarm ==
  ASSUME IInv, ScriptLeft, AlarmInv, Device \/ Change \/ Lose \/ UNCHANGED vars
  PROVE  AlarmInv'
<1>1. CASE phase = "exited"
  <2>1. phase' = phase
    BY DEF Device, DeviceSelect, DeviceHigh, DeviceLow, DeviceGet, DeviceStep,
           DeviceDump, DeviceSends, Receives, Change, Lose, vars, session
  <2> QED
    BY <1>1, <2>1 DEF AlarmInv, RegsArrived, RegsRight, Alarms
<1>2. CASE phase # "exited" /\ ~DeviceSends /\ Device
  <2>1. PICK op \in {"SET", "HI", "LO", "GET", "STEP", "DUMP_ROM", "DUMP_REGS"} : Receives(op)
    BY <1>2 DEF Device, DeviceSelect, DeviceHigh, DeviceLow, DeviceGet, DeviceStep, DeviceDump
  <2>2. /\ UNCHANGED <<phase, todo>> /\ toHost = <<>> /\ todo # <<>>
        /\ phase \notin {"ready", "loop"} /\ Left = Togo
        /\ phase = "compare" => (op = "STEP" /\ Left = 2) \/ (op = "DUMP_REGS" /\ Left = 1)
    BY <1>2, <2>1, CommandFits, CommandArrives DEF session, Checking
  <2>3. Togo' = Togo
    BY <2>2 DEF Togo
  <2>4. CASE op = "DUMP_REGS"
    <3>1. Head(toDev).op = "DUMP_REGS"
      BY <2>1, <2>4 DEF Receives
    <3>2. DeviceDump
      BY <1>2, <3>1 DEF Device, DeviceSelect, DeviceHigh, DeviceLow, DeviceGet, DeviceStep,
                        Receives
    <3>3. toHost' = <<>>
      BY <2>2, <3>2 DEF DeviceDump
    <3> QED
      BY <2>2, <3>3 DEF AlarmInv, RegsArrived, RegsRight, Alarms
  <2>5. CASE op # "DUMP_REGS"
    BY <2>2, <2>3, <2>5 DEF AlarmInv, RegsArrived, RegsRight, Alarms
  <2> QED
    BY <2>4, <2>5
<1>3. CASE DeviceSends
  BY <1>3, DeviceSendsAlarm
<1>4. CASE Change \/ Lose \/ UNCHANGED vars
  <2>1. UNCHANGED <<phase, todo, got, image, vm, alarm, steps, cpu, deviates>>
    BY <1>4 DEF Change, Lose, vars, session, program, device
  <2>2. Astray' = Astray /\ Togo' = Togo /\ \A i : RegByte(i)' = RegByte(i)
    BY <2>1 DEF Astray, Togo, RegByte
  <2>3. noisy' \/ lost' \/ UNCHANGED <<toHost, noisy, lost>>
    BY <1>4 DEF Change, Lose, vars, line
  <2>4. noisy => noisy'
    BY <1>4 DEF Change, Lose, vars, line
  <2>5. lost => lost'
    BY <1>4 DEF Change, Lose, vars, line
  <2> QED
    BY <2>1, <2>2, <2>3, <2>4, <2>5 DEF AlarmInv, RegsArrived, RegsRight, Alarms
<1> QED
  BY <1>1, <1>2, <1>3, <1>4

-----------------------------------------------------------------------------
(* All of it together is inductive.                                        *)
LInv == AttachInv /\ DumpInv /\ ImageInv /\ LockInv /\ AlarmInv

LEMMA InitLockstep == Init => LInv
<1> SUFFICES ASSUME Init
             PROVE  LInv
  OBVIOUS
<1>1. phase = "reset"
  BY DEF Init
<1>2. ImageInv /\ LockInv /\ AlarmInv
  BY <1>1 DEF ImageInv, Copied, Kept, Attached, LockInv,
              AlarmInv, RegsArrived, RegsRight, Alarms
<1> QED
  BY <1>2, InitAttach, InitDump DEF LInv

LEMMA LockstepInductive == IInv /\ LInv /\ [Next]_vars => LInv'
<1> SUFFICES ASSUME IInv, LInv, [Next]_vars
             PROVE  LInv'
  OBVIOUS
<1>1. IInv'
  BY Inductive
<1>2. AttachInv' /\ DumpInv'
  BY AttachInductive, DumpInductive DEF LInv, AttachInv
<1>3. ImageInv'
  BY <1>1, ImageInductive DEF LInv
<1>4. LockInv' /\ AlarmInv'
  <2>1. CASE Host \/ (\E m \in Modes : Enter(m))
    BY <1>1, <1>3, <2>1, HostLock, HostAlarm DEF LInv, ImageInv
  <2>2. CASE Device \/ Change \/ Lose \/ UNCHANGED vars
    BY <2>2, OthersLock, OthersAlarm DEF LInv, AttachInv
  <2> QED
    BY <2>1, <2>2 DEF Next
<1> QED
  BY <1>2, <1>3, <1>4 DEF LInv

THEOREM LockstepInvariance == Spec => [](IInv /\ LInv)
BY InitLockstep, LockstepInductive, Invariance, PTL DEF Spec

(* The sanity checks of attaching find fault only with a line that changed *)
(* a byte: the reset and the selections before them have reached the       *)
(* device by then, and nothing has disturbed the two bytes read.           *)
THEOREM SanityChecks == Spec => []SanityRight
<1>1. IInv /\ LInv => SanityRight
  BY DEF LInv, AttachInv
<1> QED
  BY <1>1, LockstepInvariance, PTL

(* An attached host has the ROM in its image, for any ROM and although a   *)
(* byte of every dump may be changed: the checksum finds the one wrong     *)
(* byte or is it, and trimming cuts off nothing but zeros.                 *)
THEOREM ImageIsRom == Spec => []ImageRight
<1>1. IInv /\ LInv => ImageRight
  BY DEF LInv, ImageInv, Kept, ImageRight
<1> QED
  BY <1>1, LockstepInvariance, PTL

(* While nothing is being executed, VM and device are in the same state,   *)
(* for any ROM and any effect of its instructions, jumps and reads of the  *)
(* ROM included, until the program leaves what was kept of the ROM.        *)
THEOREM StaysTogether == Spec => []Lockstep
<1>1. IInv /\ LInv => Lockstep
  BY DEF LInv, LockInv, Lockstep, Attached
<1> QED
  BY <1>1, LockstepInvariance, PTL

(* Until then, a difference is reported only of a device that deviates or  *)
(* a dump that was changed, and a run goes on with neither unnoticed.      *)
THEOREM AlarmsJustified == Spec => []AlarmRight
<1>1. IInv /\ LInv => AlarmRight
  BY DEF LInv, AlarmInv, Alarms, AlarmRight
<1> QED
  BY <1>1, LockstepInvariance, PTL

=============================================================================
