------------------------------ MODULE Operators ------------------------------
(***************************************************************************)
(* The operators of M-Script: which command the compiler emits for one     *)
(* (symbolToALUFuncName in asm_calc_resolver.go), what the command's macro *)
(* in base.mlib computes, and what the operator means.                     *)
(***************************************************************************)
EXTENDS Word16

symbolToALUFuncName ==
  [o \in {"*", "+", "-", "^", "&", "|", "==", "!=", ">", "<", "<=", ">=", "<<", ">>"} |->
     CASE o = "*" -> "MUL"  [] o = "+" -> "ADD"  [] o = "-" -> "SUB"
       [] o = "^" -> "XOR"  [] o = "&" -> "AND"  [] o = "|" -> "OR"
       [] o = "==" -> "EQ"  [] o = "!=" -> "NEQ" [] o = ">" -> "GT"
       [] o = "<" -> "LT"   [] o = "<=" -> "LTOE" [] o = ">=" -> "GTOE"
       [] o = "<<" -> "SHFL" [] o = ">>" -> "SHFR"]

BinaryOps == DOMAIN symbolToALUFuncName

(* The library's commands on registers: what their macros compute.         *)
Not(x)     == BitXor(x, True16)
Neg(x)     == Plus(Not(x), 1)
Greater(x, y) == Truth(Signed(x) > Signed(y))
Alu(name, x, y) ==
  CASE name = "ADD" -> Plus(x, y)       [] name = "SUB" -> Plus(x, Neg(y))
    [] name = "MUL" -> Times(x, y)      [] name = "XOR" -> BitXor(x, y)
    [] name = "AND" -> BitAnd(x, y)     [] name = "OR" -> BitOr(x, y)
    [] name = "EQ" -> Truth(x = y)      [] name = "NEQ" -> Not(Truth(x = y))
    [] name = "GT" -> Greater(x, y)     [] name = "LT" -> Greater(y, x)
    [] name = "GTOE" -> BitOr(Greater(x, y), Truth(x = y))
    [] name = "LTOE" -> BitOr(Greater(y, x), Truth(y = x))
    [] name = "SHFR" -> Shift(x, y)     [] name = "SHFL" -> Shift(x, BitOr(65280, y))
AluNames == {"ADD", "SUB"} \cup {symbolToALUFuncName[o] : o \in BinaryOps}

-----------------------------------------------------------------------------
(* What an operator means.                                                 *)
BinOp(o, a, b) ==
  CASE o = "+" -> (a + b) % WordSize    [] o = "-" -> (a - b) % WordSize
    [] o = "*" -> Times(a, b)           [] o = "^" -> BitXor(a, b)
    [] o = "&" -> BitAnd(a, b)          [] o = "|" -> BitOr(a, b)
    [] o = "==" -> Truth(a = b)         [] o = "!=" -> Truth(a # b)
    [] o = "<" -> Truth(Signed(a) < Signed(b))
    [] o = ">" -> Truth(Signed(a) > Signed(b))
    [] o = "<=" -> Truth(Signed(a) <= Signed(b))
    [] o = ">=" -> Truth(Signed(a) >= Signed(b))
    [] o = "<<" -> ShiftBy(a, -b)       [] o = ">>" -> ShiftBy(a, b)
UnOp(o, a) == IF o = ".-" THEN (-a) % WordSize ELSE WordSize - 1 - a

(* A shift is by 0 to 255: the sign of a distance is its upper byte.       *)
Distances  == 0 .. 255
Second(o)  == IF o \in {"<<", ">>"} THEN Distances ELSE Word

=============================================================================
