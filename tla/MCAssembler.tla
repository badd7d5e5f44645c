---------------------------- MODULE MCAssembler ----------------------------
(***************************************************************************)
(* Macros of base.mlib and sram.mlib that need each other: PUSH and CALL   *)
(* need DEC and, from the other library, STOR; GOTO needs JMP.             *)
(***************************************************************************)
EXTENDS Assembler

A   == Register(0)
B   == Register(1)
C   == Register(2)
Scr2 == Register(9)
SP  == Register(10)
One == Register(13)
Neg == Register(14)

Plain(name, args) == Line(NoLabel, name, args)

Base ==
  [m \in {"DEC", "PUSH", "JMP", "GOTO", "CALL"} |->
     CASE m = "DEC"  -> <<Plain("ADD", <<Param(1), Param(1), Neg>>)>>
       [] m = "PUSH" -> <<Plain("DEC", <<SP>>), Plain("STOR", <<Param(1), SP>>)>>
       [] m = "JMP"  -> <<Plain("SET", <<SCR1>>), Plain("RAW", <<Param(1)>>),
                          Plain("MOV", <<SCR1, PC>>)>>
       [] m = "GOTO" -> <<Plain("JMP", <<Param(1)>>)>>
       [] m = "CALL" -> <<Plain("DEC", <<SP>>), Plain("SET", <<Scr2>>),
                          Plain("RAW", <<Param(1)>>), Plain("STOR", <<PC, SP>>),
                          Plain("MOV", <<Scr2, PC>>), Plain("ADD", <<SP, SP, One>>)>>]

Sram ==
  [m \in {"STOR", "STORLA"} |->
     CASE m = "STOR"   -> <<Plain("MEMW", <<Param(2), Param(1)>>)>>
       [] m = "STORLA" -> <<Plain("SET", <<Scr2>>), Plain("RAW", <<Param(2)>>),
                            Plain("STOR", <<Param(1), Scr2>>)>>]

MCLibs == <<Base, Sram>>

MCNames == Known \cup DOMAIN Base \cup DOMAIN Sram \cup {"NOSUCH", "invalid"}

(* Lines with two labels, used before and behind their definition.         *)
Core == {
  Line("x", "PUSH", <<A>>), Plain("GOTO", <<Label("x")>>),
  Plain("CALL", <<Label("y")>>), Line("x", "__LABEL_SET", <<>>),
  Line("x", "", <<>>), Line("y", "STORLA", <<B, Number(34816)>>)}
Lines == Core \cup {
  Line("y", "HALT", <<>>), Plain("RAW", <<Number(5)>>),
  Line("y", "RAW", <<Number(5)>>), Plain("JMP", <<Number(0)>>)}

(* Every instruction once, with three different registers.                 *)
Singles == {<<Plain(name, <<A, B, C>>)>> : name \in Known \ {"RAW", "HALT"}}
             \cup {<<Plain("NOSUCH", <<>>)>>, <<>>}

MCFiles == Singles \cup UNION {[1 .. n -> Lines] : n \in 1 .. 2} \cup [1 .. 3 -> Core]

=============================================================================
