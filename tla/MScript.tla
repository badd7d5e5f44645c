------------------------------ MODULE MScript ------------------------------
(***************************************************************************)
(* The M-Script compiler from the parsed program to assembly, and what the *)
(* assembly does when it runs (mscr/compiler: asm_transformer.go,          *)
(* asm_calc_resolver.go, asm_generators.go, asm_helpers.go and             *)
(* asm_optimizer.go).  Expressions become stack code with the registers F  *)
(* and E; a call pushes the arguments and a return address; a frame lies   *)
(* below the VarHeap pointer H.                                            *)
(*                                                                         *)
(* A variable is read and written in memory here.  RegAlloc shows when     *)
(* keeping it in a register makes no difference.                           *)
(*                                                                         *)
(* A function is [void, params, locals, body]; params is a sequence of     *)
(* names, locals the declarations [name, size] of the body in their order. *)
(* A variable is named with a member of it, <<name, k>>; the word x is     *)
(* <<x, 0>>.  Expressions and statements are tuples, see Eval and Exec.    *)
(***************************************************************************)
EXTENDS Operators, SequencesExt

CONSTANTS
  Programs,     \* the programs: functions from names to functions
  GlobalAt,     \* the address of each global and view
  GlobalInit,   \* its value at the start
  HeapStart,    \* the end of the code, where the first frame begins
  Top,          \* where the stack begins, 0x7FFF in the code
  Garbage       \* what memory holds at the start

Memory == 0 .. Top

VARIABLES
  program, optimize,
  expected,     \* what the program should do
  code,
  status,       \* "running", "halted", "faulted", or "failed" to compile
  pc, regs, mem,
  calls         \* history: the calls that have not returned

vars == <<program, optimize, expected, code, status, pc, regs, mem, calls>>

-----------------------------------------------------------------------------
(* Operands.                                                               *)
A == <<"A">>
E == <<"E">>
F == <<"F">>
G == <<"G">>
H == <<"H">>
SP == <<"SP">>
Lit(n) == <<"lit", n>>

(* addVariable: the parameters are popped, and so declared, in reverse.    *)
Declared(f) == [k \in 1 .. Len(f.params) |->
                  [name |-> Reverse(f.params)[k], size |-> 1]] \o f.locals

addVariable(orders, v) ==
  Append(orders, FoldLeft(LAMBDA new, o : IF o >= new THEN o + v.size ELSE new,
                          0, orders))
OrderNumbers(f) == FoldLeft(addVariable, <<>>, Declared(f))
ScopeVarCount(f) == FoldLeft(LAMBDA n, v : n + v.size, 0, Declared(f))

(* getAsmVar: a variable of the function, as its distance below H, or a    *)
(* global.                                                                 *)
getAsmVar(f, x) ==
  LET named == {k \in DOMAIN Declared(f) : Declared(f)[k].name = x[1]}
  IN IF named = {} THEN <<"global", GlobalAt[x[1]]>>
     ELSE <<"frame", OrderNumbers(f)[CHOOSE k \in named : TRUE] - x[2]>>

-----------------------------------------------------------------------------
(* The shunting yard parser: an expression in reverse polish notation.     *)
RECURSIVE Shunted(_)
Shunted(e) ==
  CASE e[1] \in {"num", "var"} -> <<<<"OPRND", e>>>>
    [] e[1] = "addr" -> <<<<"OPRND", <<"var", e[2]>>>>, <<"INVOKE", "$$", 1>>>>
    [] e[1] = "peek" -> Shunted(e[2]) \o <<<<"INVOKE", "$", 1>>>>
    [] e[1] = "un"   -> Shunted(e[3]) \o <<<<"OPER1", e[2]>>>>
    [] e[1] = "op"   -> Shunted(e[3]) \o Shunted(e[4]) \o <<<<"OPER", e[2]>>>>
    [] e[1] = "call" -> FlattenSeq([k \in DOMAIN e[3] |-> Shunted(e[3][k])])
                          \o <<<<"INVOKE", e[2], Len(e[3])>>>>

Push(x) == <<"PUSH", x>>
Pop(x)  == <<"POP", x>>
Mov(x, y) == <<"MOV", x, y>>
Meta    == <<"META">>      \* a command of the register allocator
CallCode(name) == <<Meta, Meta, <<"CALL", <<name>>>>, <<"ADD", SP, SP, Lit(1)>>>>

(* callCalcFunc.  $$ takes the address of the operand before it.           *)
callCalcFunc(token, lastVar) ==
  CASE token[2] = "$"  -> <<Pop(F), <<"LOAD", F, F>>, Push(F)>>
    [] token[2] = "$$" ->
         <<Pop(F), Meta>>
         \o (IF lastVar[1] = "frame"
             THEN <<Mov(Lit(lastVar[2]), F), <<"SUB", H, F, F>>, Mov(F, F)>>
             ELSE <<Mov(Lit(lastVar[2]), F), Mov(F, F)>>)
         \o <<Push(F)>>
    [] OTHER -> CallCode(token[2]) \o <<Push(A), Meta>>

Operator(name) == <<Pop(E), Pop(F), <<name, F, F, E>>, Push(F)>>

TokenCode(f, rpn, i) ==
  LET t == rpn[i]
  IN CASE t[1] = "OPRND"  -> <<Mov(IF t[2][1] = "num" THEN Lit(t[2][2])
                                   ELSE getAsmVar(f, t[2][2]), F), Push(F)>>
       [] t[1] = "INVOKE" -> callCalcFunc(t, IF t[2] = "$$"
                                             THEN getAsmVar(f, rpn[i - 1][2][2]) ELSE <<>>)
       [] t[1] = "OPER"   -> Operator(symbolToALUFuncName[t[2]])
       [] t[1] = "OPER1"  -> <<Pop(F), <<IF t[2] = ".-" THEN "NEG" ELSE "COM", F, F>>,
                               Push(F)>>

(* The compiler counts what the code pushes and pops; a called function    *)
(* pops its arguments.  Code that does not come out even is an error.      *)
Count(c, ins) == Len(SelectSeq(c, LAMBDA x : x[1] = ins))
ArgsPopped(rpn) ==
  FoldLeft(LAMBDA n, t : IF t[1] = "INVOKE" /\ t[2] \notin {"$", "$$"} THEN n + t[3] ELSE n,
           0, rpn)

(* resolveCalcInternal: the value ends in F.  A push of F at the end is    *)
(* left out together with the pop behind it.                               *)
Calc(f, e) ==
  IF e[1] = "num" THEN <<Mov(Lit(e[2]), F)>>
  ELSE LET rpn == Shunted(e)
           c   == FlattenSeq([i \in DOMAIN rpn |-> TokenCode(f, rpn, i)]) \o <<Pop(F)>>
           n   == Len(c)
       IN IF Count(c, "PUSH") - Count(c, "POP") - ArgsPopped(rpn) # 0 THEN <<<<"PANIC">>>>
          ELSE IF n > 1 /\ c[n - 1] = Push(F) THEN SubSeq(c, 1, n - 2)
          ELSE c

(* runtimeValueToAsmParam: a variable is used as it is.                    *)
ValueCode(f, e) == IF e[1] = "var" THEN <<>> ELSE Calc(f, e)
Value(f, e)     == IF e[1] = "var" THEN getAsmVar(f, e[2]) ELSE F

-----------------------------------------------------------------------------
(* asmForNodePre and asmForNodePost.                                       *)
funcPushState(f) == <<Mov(Lit(ScopeVarCount(f)), G), <<"ADD", G, H, H>>>>
funcPopState(f)  == <<Mov(Lit(ScopeVarCount(f)), G), <<"SUB", H, H, G>>>>
LeaveKeepsFrame(f) == <<Meta, <<"RET">>>>   \* seeded bug
Leave(f) == funcPopState(f) \o <<Meta, <<"RET">>>>

Label(path)      == <<"LABEL", path>>
Jmp(path)        == <<"JMP", path>>
Jmpez(path)      == <<"JMPEZ", path>>

(* Seeded bug: the labels of the loop exchanged in the exit.               *)
WhileStays(path, cond, body) ==
  <<Meta, Meta, Label(path \o <<"start">>)>> \o cond
  \o <<Mov(F, F), Jmpez(path \o <<"start">>)>>
  \o body \o <<Meta, Jmp(path \o <<"start">>), Label(path \o <<"end">>), Meta>>

While(path, cond, body) ==
  <<Meta, Meta, Label(path \o <<"start">>)>> \o cond
  \o <<Mov(F, F), Jmpez(path \o <<"end">>)>>
  \o body \o <<Meta, Jmp(path \o <<"start">>), Label(path \o <<"end">>), Meta>>

Conditional(path, cond, body, bodyElse) ==
  <<Meta, Meta>> \o cond \o <<Jmpez(path \o <<"else">>)>>
  \o body \o <<Meta, Jmp(path \o <<"end">>), Meta, Label(path \o <<"else">>)>>
  \o bodyElse \o <<Meta, Meta, Label(path \o <<"end">>)>>

RECURSIVE Statement(_, _, _)
Body(f, path, stmts) ==
  FlattenSeq([k \in DOMAIN stmts |-> Statement(f, Append(path, k), stmts[k])])
Statement(f, path, s) ==
  CASE s[1] = "set"    -> ValueCode(f, s[3]) \o <<Mov(Value(f, s[3]), getAsmVar(f, s[2]))>>
    [] s[1] = "return" -> ValueCode(f, s[2]) \o <<Mov(Value(f, s[2]), A)>> \o Leave(f)
    [] s[1] = "do"     -> FlattenSeq([k \in DOMAIN s[3] |->
                            ValueCode(f, s[3][k]) \o <<Push(Value(f, s[3][k]))>>])
                          \o CallCode(s[2]) \o <<Meta>>
    [] s[1] = "poke"   -> ValueCode(f, s[3]) \o <<Push(Value(f, s[3]))>>
                          \o ValueCode(f, s[2]) \o <<Mov(Value(f, s[2]), F)>>
                          \o <<Pop(G), <<"STOR", G, F>>>>
    [] s[1] = "if"     -> Conditional(path, Calc(f, s[2]), Body(f, path \o <<"then">>, s[3]),
                                      Body(f, path \o <<"other">>, s[4]))
    [] s[1] = "while"  -> While(path, Calc(f, s[2]), Body(f, path \o <<"do">>, s[3]))

(* The return address is kept in E while the parameters are popped.        *)
Prologue(f) ==
  <<Meta>> \o funcPushState(f) \o <<Pop(E)>>
  \o [k \in DOMAIN f.params |-> Pop(getAsmVar(f, <<Reverse(f.params)[k], 0>>))]
  \o <<Push(E)>>

Function(p, name) ==
  <<Label(<<name>>)>> \o Prologue(p[name]) \o Body(p[name], <<name>>, p[name].body)
  \o (IF p[name].void THEN Leave(p[name]) ELSE <<>>) \o <<<<"FAULT">>>>

(* initializationAsm is not compiled: it is put before the code.           *)
Initialization == <<Push(Lit(0)), Push(Lit(0))>>
                  \o <<<<"CALL", <<"main">>>>, <<"ADD", SP, SP, Lit(1)>>, Mov(A, H), <<"HALT">>>>

-----------------------------------------------------------------------------
(* The optimizer.  A pass looks at a command and the one before it in its  *)
(* input, where a push turned into a move stays a move.                    *)
Pairs(c, P(_, _)) == {i \in 2 .. Len(c) : P(c[i - 1], c[i])}
Without(c, drop) ==
  LET kept == SelectSeq([i \in DOMAIN c |-> i], LAMBDA i : i \notin drop)
  IN [k \in DOMAIN kept |-> c[kept[k]]]

optimizePushPop(c) ==
  LET pops == Pairs(c, LAMBDA x, y : x[1] = "PUSH" /\ y[1] = "POP")
  IN Without([i \in DOMAIN c |-> IF i + 1 \in pops THEN Mov(c[i][2], c[i + 1][2]) ELSE c[i]],
             pops)

optimizeMov(c) == SelectSeq(c, LAMBDA x : ~(x[1] = "MOV" /\ x[2] = x[3]))

(* Seeded bug: any move of what was just moved is dropped.                 *)
optimizeMovChain(c) ==
  Without(c, Pairs(c, LAMBDA x, y : /\ x[1] = "MOV" /\ y[1] = "MOV" /\ x[3] = y[2]))

optimizeDoubleMov(c) ==
  Without(c, Pairs(c, LAMBDA x, y : /\ x[1] = "MOV" /\ y[1] = "MOV"
                                    /\ x[2] = y[3] /\ x[3] = y[2]))

optimizeAsmAll(c) == optimizeDoubleMov(optimizeMov(optimizePushPop(c)))

(* What the commands of the allocator leave behind is moves to and from    *)
(* memory, none here.                                                      *)
resolveMetaAsm(c) == SelectSeq(c, LAMBDA x : x # Meta)

Compiled(p, opt) ==
  LET names == SetToSeq(DOMAIN p \ {"main"})
      c     == resolveMetaAsm(FlattenSeq([k \in 1 .. Len(names) + 1 |->
                                Function(p, Append(names, "main")[k])]))
  IN Initialization \o (IF opt THEN optimizeAsmAll(c) ELSE c)

-----------------------------------------------------------------------------
(* What a program means.                                                   *)
(* st is [env, glob, fault]: the variables of the function, the globals by *)
(* address, and whether a function ended without a return.                 *)
RECURSIVE Eval(_, _, _), Args(_, _, _), Run(_, _, _, _), Exec(_, _, _)
Result(v, st) == [v |-> v, st |-> st]
Eval(p, e, st) ==
  CASE e[1] = "num"  -> Result(e[2], st)
    [] e[1] = "var"  -> Result(IF e[2] \in DOMAIN st.env THEN st.env[e[2]]
                               ELSE st.glob[GlobalAt[e[2][1]]], st)
    [] e[1] = "addr" -> Result(GlobalAt[e[2][1]], st)
    [] e[1] = "peek" -> LET a == Eval(p, e[2], st) IN Result(a.st.glob[a.v], a.st)
    [] e[1] = "un"   -> LET a == Eval(p, e[3], st) IN Result(UnOp(e[2], a.v), a.st)
    [] e[1] = "op"   -> LET a == Eval(p, e[3], st)
                            b == Eval(p, e[4], a.st)
                        IN Result(BinOp(e[2], a.v, b.v), b.st)
    [] e[1] = "call" -> LET a == Args(p, e[3], st) IN Run(p, e[2], a.v, a.st)
Args(p, es, st) ==
  FoldLeft(LAMBDA acc, e : LET r == Eval(p, e, acc.st) IN Result(Append(acc.v, r.v), r.st),
           Result(<<>>, st), es)
Run(p, name, args, st) ==
  LET f   == p[name]
      env == [x \in {<<d.name, k>> : d \in Range(Declared(f)), k \in 0 .. 3} |->
                IF \E i \in DOMAIN f.params : x = <<f.params[i], 0>>
                THEN args[CHOOSE i \in DOMAIN f.params : x = <<f.params[i], 0>>]
                ELSE Garbage]
      r   == Exec(p, f.body, Result(<<>>, [st EXCEPT !.env = env]))
  IN Result(IF r.v = <<>> THEN 0 ELSE r.v[1],
            [env |-> st.env, glob |-> r.st.glob,
             fault |-> r.st.fault \/ (r.v = <<>> /\ ~f.void)])
Assigned(x, r) ==
  IF x \in DOMAIN r.st.env THEN [r.st EXCEPT !.env[x] = r.v]
                           ELSE [r.st EXCEPT !.glob[GlobalAt[x[1]]] = r.v]
(* acc.v holds the returned value once there is one.                       *)
Exec(p, stmts, acc) ==
  IF stmts = <<>> \/ acc.v # <<>> THEN acc
  ELSE LET s == Head(stmts)
           rest(st) == Exec(p, Tail(stmts), Result(<<>>, st))
       IN CASE s[1] = "set"    -> rest(Assigned(s[2], Eval(p, s[3], acc.st)))
            [] s[1] = "return" -> LET r == Eval(p, s[2], acc.st) IN Result(<<r.v>>, r.st)
            [] s[1] = "do"     -> LET a == Args(p, s[3], acc.st)
                                  IN rest(Run(p, s[2], a.v, a.st).st)
            [] s[1] = "poke"   -> LET v == Eval(p, s[3], acc.st)
                                      a == Eval(p, s[2], v.st)
                                  IN rest([a.st EXCEPT !.glob[a.v] = v.v])
            [] s[1] = "if"     -> LET c == Eval(p, s[2], acc.st)
                                  IN Exec(p, (IF c.v # 0 THEN s[3] ELSE s[4]) \o Tail(stmts),
                                          Result(<<>>, c.st))
            [] s[1] = "while"  -> LET c == Eval(p, s[2], acc.st)
                                  IN IF c.v = 0 THEN rest(c.st)
                                     ELSE Exec(p, s[3] \o stmts, Result(<<>>, c.st))

Meaning(p) ==
  Run(p, "main", <<0, 0>>,
      [env |-> <<>>, fault |-> FALSE,
       glob |-> [a \in Range(GlobalAt) |->
                   GlobalInit[CHOOSE g \in DOMAIN GlobalAt : GlobalAt[g] = a]]])

-----------------------------------------------------------------------------
(* Running the code.  FAULT does not return, and a program whose code does *)
(* not come out even is not compiled.                                      *)
Init ==
  /\ program \in Programs /\ optimize \in BOOLEAN
  /\ expected = Meaning(program)
  /\ code = Compiled(program, optimize)
  /\ status = IF <<"PANIC">> \in Range(code) THEN "failed" ELSE "running"
  /\ pc = 1
  /\ regs = [A |-> Garbage, E |-> Garbage, F |-> Garbage, G |-> Garbage,
             H |-> HeapStart, SP |-> Top]
  /\ mem = [a \in Memory |->
              IF \E g \in DOMAIN GlobalAt : GlobalAt[g] = a
              THEN GlobalInit[CHOOSE g \in DOMAIN GlobalAt : GlobalAt[g] = a] ELSE Garbage]
  /\ calls = <<>>

Fetched(ins) == status = "running" /\ pc \in DOMAIN code /\ code[pc][1] = ins
Arg(n) == code[pc][n + 1]

At(a) == IF a \in Memory THEN mem[a] ELSE Garbage
Stored(a, v) == IF a \in Memory THEN [mem EXCEPT ![a] = v] ELSE mem

(* varFromHeap and varToHeap compute the address in G.                     *)
InMemory(x) == x[1] \in {"frame", "global"}
Address(x)  == IF x[1] = "frame" THEN (regs.H - x[2]) % WordSize ELSE x[2]
Read(x) == IF x[1] = "lit" THEN x[2] ELSE IF InMemory(x) THEN At(Address(x)) ELSE regs[x[1]]

(* The registers once v is in x, and G holds the address that was used.    *)
Written(x, v) == IF InMemory(x) THEN [regs EXCEPT !.G = Address(x)]
                                ELSE [regs EXCEPT ![x[1]] = v]
Scratched(x, rs) == IF InMemory(x) THEN [rs EXCEPT !.G = Address(x)] ELSE rs
WrittenMem(x, v) == IF InMemory(x) THEN Stored(Address(x), v) ELSE mem

Move ==
  /\ Fetched("MOV")
  /\ regs' = Scratched(Arg(1), Written(Arg(2), Read(Arg(1))))
  /\ mem' = WrittenMem(Arg(2), Read(Arg(1)))
  /\ pc' = pc + 1
  /\ UNCHANGED <<program, optimize, expected, code, status, calls>>

Compute ==
  /\ \E name \in AluNames :
       /\ Fetched(name)
       /\ regs' = Written(Arg(2), Alu(name, Read(Arg(1)), Read(Arg(3))))
  /\ pc' = pc + 1
  /\ UNCHANGED <<program, optimize, expected, code, status, mem, calls>>

Complement ==
  /\ Fetched("NEG") \/ Fetched("COM")
  /\ regs' = Written(Arg(2), IF code[pc][1] = "NEG" THEN Neg(Read(Arg(1)))
                                                    ELSE Not(Read(Arg(1))))
  /\ pc' = pc + 1
  /\ UNCHANGED <<program, optimize, expected, code, status, mem, calls>>

PushValue ==
  /\ Fetched("PUSH")
  /\ mem' = Stored(Dec(regs.SP), Read(Arg(1)))
  /\ regs' = Scratched(Arg(1), [regs EXCEPT !.SP = Dec(@)])
  /\ pc' = pc + 1
  /\ UNCHANGED <<program, optimize, expected, code, status, calls>>

PopValue ==
  /\ Fetched("POP")
  /\ LET v == At(regs.SP)
     IN /\ mem' = WrittenMem(Arg(1), v)
        /\ regs' = [Written(Arg(1), v) EXCEPT !.SP = Inc(@)]
  /\ pc' = pc + 1
  /\ UNCHANGED <<program, optimize, expected, code, status, calls>>

Load ==
  /\ Fetched("LOAD")
  /\ regs' = Written(Arg(1), At(Read(Arg(2))))
  /\ pc' = pc + 1
  /\ UNCHANGED <<program, optimize, expected, code, status, mem, calls>>

Store ==
  /\ Fetched("STOR")
  /\ mem' = Stored(Read(Arg(2)), Read(Arg(1)))
  /\ pc' = pc + 1
  /\ UNCHANGED <<program, optimize, expected, code, status, regs, calls>>

Target(path) == CHOOSE k \in DOMAIN code : code[k] = Label(path)

(* The return address is that of the command that drops it again.          *)
Call ==
  /\ Fetched("CALL")
  /\ mem' = Stored(Dec(regs.SP), pc + 1)
  /\ regs' = [regs EXCEPT !.SP = Dec(@)]
  /\ pc' = Target(Arg(1))
  /\ calls' = Append(calls, [name |-> Arg(1)[1], back |-> pc + 1, sp |-> regs.SP,
                             h |-> regs.H, mem |-> mem])
  /\ UNCHANGED <<program, optimize, expected, code, status>>

Return ==
  /\ Fetched("RET")
  /\ pc' = At(regs.SP)
  /\ calls' = IF calls = <<>> THEN calls ELSE Front(calls)
  /\ UNCHANGED <<program, optimize, expected, code, status, regs, mem>>

Jump ==
  /\ Fetched("JMP")
  /\ pc' = Target(Arg(1))
  /\ UNCHANGED <<program, optimize, expected, code, status, regs, mem, calls>>

JumpIfZero ==
  /\ Fetched("JMPEZ")
  /\ pc' = IF regs.F = 0 THEN Target(Arg(1)) ELSE pc + 1
  /\ UNCHANGED <<program, optimize, expected, code, status, regs, mem, calls>>

Skip ==
  /\ Fetched("LABEL")
  /\ pc' = pc + 1
  /\ UNCHANGED <<program, optimize, expected, code, status, regs, mem, calls>>

Stop ==
  /\ Fetched("HALT") \/ Fetched("FAULT")
  /\ status' = IF Fetched("HALT") THEN "halted" ELSE "faulted"
  /\ UNCHANGED <<program, optimize, expected, code, pc, regs, mem, calls>>

Next ==
  \/ Move \/ Compute \/ Complement \/ PushValue \/ PopValue \/ Load \/ Store
  \/ Call \/ Return \/ Jump \/ JumpIfZero \/ Skip \/ Stop

Spec == Init /\ [][Next]_vars

FairSpec == Spec /\ WF_vars(Next)

-----------------------------------------------------------------------------
(* Type invariant.                                                         *)
TypeOK ==
  /\ program \in Programs /\ optimize \in BOOLEAN
  /\ status \in {"running", "halted", "faulted", "failed"}
  /\ pc \in DOMAIN code
  /\ regs \in [{"A", "E", "F", "G", "H", "SP"} -> Word]
  /\ \A a \in Memory : mem[a] \in Word

(* A compiled program ends as its source says, optimized or not: main's    *)
(* value in A, every global as assigned last, and a FAULT exactly if a     *)
(* function with a value ends without one.  Nothing stays on the stack.    *)
ResultRight ==
  /\ status = "halted" =>
       /\ ~expected.st.fault
       /\ regs.A = expected.v
       /\ \A a \in DOMAIN expected.st.glob : mem[a] = expected.st.glob[a]
       /\ regs.SP = Top
  /\ status = "faulted" => expected.st.fault

(* A call returns behind itself, whatever the function called in its turn: *)
(* its arguments and the return address are off the stack (the latter once *)
(* the next command has run), and what the caller had on the stack and in  *)
(* its frame is untouched.                                                 *)
Caller(n) == program[calls[n].name]
CallsReturn ==
  [][Return =>
       LET n == Len(calls)
           c == calls[n]
       IN /\ pc' = c.back /\ regs'.H = c.h
          /\ regs'.SP = c.sp + Len(program[c.name].params) - 1
          /\ \A a \in regs'.SP + 1 .. Top - 1 : mem'[a] = c.mem[a]
          /\ n > 1 => \A a \in c.h - ScopeVarCount(Caller(n - 1)) + 1 .. c.h :
                        mem'[a] = c.mem[a]]_vars

(* The code of a program comes to an end where the source does.            *)
Ends == <>(status \in {"halted", "faulted"})

(* asm_resolver.go:253: the frame of a function has a word for every word  *)
(* of its variables.  While it runs, they lie in it, apart.                *)
WordsOf(f) == {<<k, m>> : k \in DOMAIN Declared(f), m \in 0 .. 3}
FrameHolds ==
  \A n \in DOMAIN calls :
    LET f  == program[calls[n].name]
        ws == {w \in WordsOf(f) : w[2] < Declared(f)[w[1]].size}
        below(w) == OrderNumbers(f)[w[1]] - w[2]
    IN /\ \A w \in ws : below(w) \in 0 .. ScopeVarCount(f) - 1
       /\ \A v, w \in ws : below(v) = below(w) => v = w

=============================================================================
