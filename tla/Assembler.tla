------------------------------ MODULE Assembler ------------------------------
(***************************************************************************)
(* The assembler, assembler/assembler.go: Compile turns the lines of a     *)
(* file into words.  It makes tokens of the lines, replaces tokens that    *)
(* name a macro of a library until none does, gives every label the index  *)
(* of its token, puts the addresses in, prepends the offset and encodes.   *)
(*                                                                         *)
(* A line is a label or none, and a body: a command with its operands, a   *)
(* number, nothing ("", the line then stands for the address of its label) *)
(* or __LABEL_SET.  An operand is a register, a number or a label.  What   *)
(* the text of a line looks like is left out, and #declare with it.        *)
(***************************************************************************)
EXTENDS Integers, Sequences, FiniteSets, SequencesExt

CONSTANTS
  Files,     \* the files Compile may be given
  Libs,      \* the libraries: a sequence of functions from macros to lines
  Offsets,   \* values of --offset
  Depth,     \* how deep macros need each other
  Names,     \* the names of commands, macros and those unknown included
  Labels,
  NoLabel

Register(r) == <<"reg", r>>
Number(n)   == <<"num", n>>
Label(l)    == <<"label", l>>
Param(i)    == <<"param", i>>      \* in a library: operand i of the macro

Line(label, name, args) == [label |-> label, name |-> name, args |-> args]

VARIABLES
  file,      \* the lines
  offset, autoJump,
  phase,
  tokens,
  lib, i,    \* the library and the token that are looked at
  replaced,  \* how many tokens were replaced in this round
  labelMap,
  output,
  cause      \* what Compile complained of, "" if nothing

vars == <<file, offset, autoJump, phase, tokens, lib, i, replaced, labelMap,
          output, cause>>

-----------------------------------------------------------------------------
(* tokenize.                                                               *)
Token(labels, name, args) == [labels |-> labels, name |-> name, args |-> args]

(* A number behind a label is not recognised as one, but taken for a       *)
(* command, which does not exist.                                          *)
NameOf(line) == IF line.name = "RAW" /\ line.label # NoLabel THEN "invalid"
                                                             ELSE line.name

(* A line that is only a label stands for its address, and takes nothing   *)
(* of the labels that wait for the next token: those are forgotten.        *)
tokenizeLine(state, line) ==
  CASE line.name = "" ->
         [tokens |-> Append(state.tokens, Token(<<>>, "RAW", <<Label(line.label)>>)),
          next   |-> <<>>]
    [] line.name = "__LABEL_SET" ->
         [state EXCEPT !.next = Append(@, line.label)]
    [] OTHER ->
         LET labels == IF line.label = NoLabel THEN state.next
                                               ELSE Append(state.next, line.label)
         IN [tokens |-> Append(state.tokens, Token(labels, NameOf(line), line.args)),
             next   |-> <<>>]

Tokenized(lines) ==
  LET after[n \in 0 .. Len(lines)] ==
        IF n = 0 THEN [tokens |-> <<>>, next |-> <<>>]
                 ELSE tokenizeLine(after[n - 1], lines[n])
  IN after

tokenize(lines) == Tokenized(lines)[Len(lines)].tokens

(* An entry of a library, with the operands of the token put in.  A line   *)
(* of it that is only an operand is an address or a number.                *)
Filled(x, args) == IF x[1] = "param" THEN args[x[2]] ELSE x
WithArgs(line, args) == [a \in DOMAIN line.args |-> Filled(line.args[a], args)]

replacement(entry, args) ==
  tokenize([k \in DOMAIN entry |->
              LET l == entry[k]
                  x == WithArgs(l, args)
              IN IF l.name # "RAW"           THEN Line(NoLabel, l.name, x)
                 ELSE IF x[1][1] = "label"   THEN Line(x[1][2], "", <<>>)
                 ELSE Line(NoLabel, "RAW", x)])

Init ==
  /\ file \in Files /\ offset \in Offsets
  \* an impossible auto-jump is turned off
  /\ autoJump \in {FALSE, offset >= 3}
  /\ tokens = tokenize(file)
  /\ phase = "expand" /\ lib = 1 /\ i = 1 /\ replaced = 0
  /\ labelMap = <<>> /\ output = <<>> /\ cause = ""

-----------------------------------------------------------------------------
(* Expansion: one library after the other over all tokens, then again      *)
(* until a round has replaced nothing.                                     *)
Looking == phase = "expand" /\ lib <= Len(Libs) /\ i <= Len(tokens)

(* Seeded bugs: the hole opened one too small; the labels of the replaced  *)
(* token lost.                                                             *)
ExpandIntoNext ==
  /\ Looking
  /\ tokens[i].name \in DOMAIN Libs[lib]
  /\ LET new == replacement(Libs[lib][tokens[i].name], tokens[i].args)
     IN /\ tokens' = SubSeq(tokens, 1, i - 1)
                       \o [new EXCEPT ![1].labels = tokens[i].labels]
                       \o SubSeq(tokens, i + Len(new), Len(tokens))
        /\ i' = i + Len(new)
  /\ replaced' = replaced + 1
  /\ UNCHANGED <<file, offset, autoJump, phase, lib, labelMap, output, cause>>

ExpandUnlabelled ==
  /\ Looking
  /\ tokens[i].name \in DOMAIN Libs[lib]
  /\ LET new == replacement(Libs[lib][tokens[i].name], tokens[i].args)
     IN /\ tokens' = SubSeq(tokens, 1, i - 1) \o new \o SubSeq(tokens, i + 1, Len(tokens))
        /\ i' = i + Len(new)
  /\ replaced' = replaced + 1
  /\ UNCHANGED <<file, offset, autoJump, phase, lib, labelMap, output, cause>>

Expand ==
  /\ Looking
  /\ tokens[i].name \in DOMAIN Libs[lib]
  /\ LET new == replacement(Libs[lib][tokens[i].name], tokens[i].args)
     IN /\ tokens' = SubSeq(tokens, 1, i - 1)
                       \o [new EXCEPT ![1].labels = tokens[i].labels]
                       \o SubSeq(tokens, i + 1, Len(tokens))
        /\ i' = i + Len(new)
  /\ replaced' = replaced + 1
  /\ UNCHANGED <<file, offset, autoJump, phase, lib, labelMap, output, cause>>

Keep ==
  /\ Looking
  /\ tokens[i].name \notin DOMAIN Libs[lib]
  /\ i' = i + 1
  /\ UNCHANGED <<file, offset, autoJump, phase, tokens, lib, replaced, labelMap,
                 output, cause>>

NextLib ==
  /\ phase = "expand" /\ lib <= Len(Libs) /\ i > Len(tokens)
  /\ lib' = lib + 1 /\ i' = 1
  /\ UNCHANGED <<file, offset, autoJump, phase, tokens, replaced, labelMap,
                 output, cause>>

(* Seeded bug: the replacements of earlier rounds are counted, too.        *)
RoundCountsOn ==
  /\ phase = "expand" /\ lib > Len(Libs)
  /\ lib' = 1 /\ i' = 1
  /\ phase' = IF replaced > 0 THEN "expand" ELSE "labels"
  /\ UNCHANGED <<file, offset, autoJump, tokens, replaced, labelMap, output, cause>>

Round ==
  /\ phase = "expand" /\ lib > Len(Libs)
  /\ replaced' = 0 /\ lib' = 1 /\ i' = 1
  /\ phase' = IF replaced > 0 THEN "expand" ELSE "labels"
  /\ UNCHANGED <<file, offset, autoJump, tokens, labelMap, output, cause>>

-----------------------------------------------------------------------------
(* The label map: of several tokens with the label the last one counts.    *)
Holders(l) == {k \in DOMAIN tokens : \E n \in DOMAIN tokens[k].labels :
                                         tokens[k].labels[n] = l}
Held == UNION {Range(tokens[k].labels) : k \in DOMAIN tokens}

(* Seeded bug: addresses counted from 1.                                   *)
parseLabelsFrom1 ==
  /\ phase = "labels"
  /\ labelMap' = [l \in Held |->
                    CHOOSE k \in Holders(l) : \A m \in Holders(l) : m <= k]
  /\ phase' = "replace"
  /\ UNCHANGED <<file, offset, autoJump, tokens, lib, i, replaced, output, cause>>

parseLabels ==
  /\ phase = "labels"
  /\ labelMap' = [l \in Held |->
                    (CHOOSE k \in Holders(l) : \A m \in Holders(l) : m <= k) - 1]
  /\ phase' = "replace"
  /\ UNCHANGED <<file, offset, autoJump, tokens, lib, i, replaced, output, cause>>

IsReference(token) == token.name = "RAW" /\ token.args[1][1] = "label"

replaceLabels ==
  /\ phase = "replace"
  /\ LET refs == {k \in DOMAIN tokens : IsReference(tokens[k])}
     IN \/ /\ \E k \in refs : tokens[k].args[1][2] \notin DOMAIN labelMap
           /\ phase' = "exited" /\ cause' = "Undefined label referenced"
           /\ UNCHANGED tokens
        \/ /\ \A k \in refs : tokens[k].args[1][2] \in DOMAIN labelMap
           /\ phase' = "offset"
           /\ tokens' = [k \in DOMAIN tokens |->
                           IF k \in refs
                           THEN [tokens[k] EXCEPT
                                   !.args = <<Number(labelMap[tokens[k].args[1][2]])>>]
                           ELSE tokens[k]]
           /\ UNCHANGED cause
  /\ UNCHANGED <<file, offset, autoJump, lib, i, replaced, labelMap, output>>

SCR1 == Register(8)
PC   == Register(11)

(* Seeded bug: the address in bytes.                                       *)
autoJumpToByte(n) == <<Token(<<>>, "SET", <<SCR1>>), Token(<<>>, "RAW", <<Number(2 * n)>>),
                       Token(<<>>, "MOV", <<SCR1, PC>>)>>

(* The offset is filled with zeros, or with a jump behind it.              *)
autoJumpTo(n) == <<Token(<<>>, "SET", <<SCR1>>), Token(<<>>, "RAW", <<Number(n)>>),
                   Token(<<>>, "MOV", <<SCR1, PC>>)>>

prependOffset ==
  /\ phase = "offset"
  /\ tokens' = [k \in 1 .. offset |->
                  IF autoJump /\ k <= 3 THEN autoJumpTo(offset)[k]
                  ELSE Token(<<>>, "RAW", <<Number(0)>>)] \o tokens
  /\ phase' = "encode"
  /\ UNCHANGED <<file, offset, autoJump, lib, i, replaced, labelMap, output, cause>>

-----------------------------------------------------------------------------
(* The instruction formats.                                                *)
Alu == <<"AND", "OR", "XOR", "ADD", "SHFT", "MUL", "GT", "EQ">>

AluCode(name) == 7 + CHOOSE k \in DOMAIN Alu : Alu[k] = name

aluCmd(name, a, b, c) == AluCode(name) + 16 * a + 256 * (b + 16 * c)

Encoded(token) ==
  LET name == token.name
      r(k) == token.args[k][2]      \* ParseRegister, parseHex
  IN CASE name = "RAW"      -> r(1) % 65536
       [] name = "HALT"     -> 0
       [] name = "MOV"      -> 256 * r(2) + 16 * r(1) + 1
       [] name = "MOVNZ"    -> 256 * (16 * r(3) + r(2)) + 16 * r(1) + 2
       [] name = "MOVEZ"    -> 256 * (16 * r(3) + r(2)) + 16 * r(1) + 3
       [] name = "MEMR"     -> 256 * r(2) + 16 * r(1) + 5
       [] name = "SET"      -> 256 * r(1) + 6
       [] name = "MEMW"     -> 256 * 16 * r(2) + 16 * r(1) + 7
       [] name \in Range(Alu) -> aluCmd(name, r(1), r(2), r(3))
       [] OTHER             -> 0

Known == {"RAW", "HALT", "MOV", "MOVNZ", "MOVEZ", "MEMR", "SET", "MEMW"}
           \cup Range(Alu)

(* An unknown command is complained of and leaves a zero.  A HALT is added *)
(* unless the last word is zero.                                           *)
encode ==
  /\ phase = "encode"
  /\ LET words == [k \in DOMAIN tokens |-> Encoded(tokens[k])]
     IN output' = IF words # <<>> /\ words[Len(words)] # 0 THEN Append(words, 0)
                                                           ELSE words
  /\ cause' = IF \A k \in DOMAIN tokens : tokens[k].name \in Known THEN cause
              ELSE "Invalid instruction encountered"
  /\ phase' = "done"
  /\ UNCHANGED <<file, offset, autoJump, tokens, lib, i, replaced, labelMap>>

Next ==
  \/ Expand \/ Keep \/ NextLib \/ Round
  \/ parseLabels \/ replaceLabels \/ prependOffset \/ encode

Spec == Init /\ [][Next]_vars

FairSpec == Spec /\ WF_vars(Next)

-----------------------------------------------------------------------------
(* What a program should become, without regard to how Compile gets there: *)
(* all macros at once, round after round.                                  *)
Commands(line) ==
  CASE line.name = ""            -> <<[name |-> "RAW", args |-> <<Label(line.label)>>]>>
    [] line.name = "__LABEL_SET" -> <<>>
    [] OTHER                     -> <<[name |-> NameOf(line), args |-> line.args]>>

Text(lines) == FlattenSeq([k \in DOMAIN lines |-> Commands(lines[k])])

MacroLibs(name) == {n \in DOMAIN Libs : name \in DOMAIN Libs[n]}
Entry(name)     == Libs[CHOOSE n \in MacroLibs(name) : TRUE][name]

Unfolded(command) ==
  IF MacroLibs(command.name) = {} THEN <<command>>
  ELSE LET entry == Entry(command.name)
       IN [k \in DOMAIN entry |->
             [name |-> entry[k].name, args |-> WithArgs(entry[k], command.args)]]

Unfold(text) == FlattenSeq([k \in DOMAIN text |-> Unfolded(text[k])])

Rounds(text) ==
  LET round[n \in 0 .. Depth] == IF n = 0 THEN text ELSE Unfold(round[n - 1])
  IN round

Words(lines) == Rounds(Text(lines))[Depth]

(* The index, from 0 and without offset, of the first word of line k.      *)
Start(k) == Len(Words(SubSeq(file, 1, k - 1)))
AllWords == Words(file)

(* The lines that give label l an address.  A __LABEL_SET does so only if  *)
(* a command follows it.                                                   *)
Follows(k) == {m \in k + 1 .. Len(file) : file[m].name # "__LABEL_SET"}
Carries(k) ==
  \/ file[k].name \notin {"", "__LABEL_SET"} /\ file[k].label # NoLabel
  \/ /\ file[k].name = "__LABEL_SET" /\ Follows(k) # {}
     /\ file[CHOOSE m \in Follows(k) : \A n \in Follows(k) : m <= n].name # ""
Bearers(l) == {k \in DOMAIN file : file[k].label = l /\ Carries(k)}
Address(l) == Start(CHOOSE k \in Bearers(l) : \A m \in Bearers(l) : m <= k)

(* The fields of an instruction as the VM decodes it, and which of them    *)
(* the operands of a command name.                                         *)
VmCode ==
  [HALT |-> 0, MOV |-> 1, MOVNZ |-> 2, MOVEZ |-> 3, MEMR |-> 5, SET |-> 6,
   MEMW |-> 7, AND |-> 8, OR |-> 9, XOR |-> 10, ADD |-> 11, SHFT |-> 12,
   MUL |-> 13, GT |-> 14, EQ |-> 15]
FieldAt == [from |-> 16, to |-> 256, third |-> 4096]
Field(w, f) == (w \div FieldAt[f]) % 16
Operands(name) ==
  CASE name = "HALT"             -> <<>>
    [] name \in {"MOV", "MEMR"}  -> <<"from", "to">>
    [] name = "SET"              -> <<"to">>
    [] name = "MEMW"             -> <<"from", "third">>
    [] OTHER                     -> <<"from", "to", "third">>
Decodes(w, name, args) ==
  /\ w % 16 = VmCode[name]
  /\ \A n \in DOMAIN Operands(name) : Field(w, Operands(name)[n]) = args[n][2]

-----------------------------------------------------------------------------
(* What files and libraries look like.                                     *)
RegisterNumbers == 0 .. 15
Numbers         == 0 .. 65535
Operand == ({"reg"} \X RegisterNumbers) \cup ({"num"} \X Numbers) \cup ({"label"} \X Labels)

FileLine  == [label : {NoLabel} \cup Labels, name : Names \cup {"", "__LABEL_SET"},
              args  : Seq(Operand)]
EntryLine == [label : {NoLabel}, name : Names, args : Seq(Operand \cup ({"param"} \X Nat))]

(* Every operand that a macro puts in is there.                            *)
Served(name, args) ==
  \A n \in MacroLibs(name) : \A k \in DOMAIN Libs[n][name] :
     \A a \in DOMAIN Libs[n][name][k].args :
        LET x == Libs[n][name][k].args[a] IN x[1] = "param" => x[2] \in DOMAIN args

LineOK(line) == /\ line.name = "RAW" => Len(line.args) = 1
                /\ Served(line.name, line.args)

NamesOK ==
  /\ Known \cup {"invalid"} \subseteq Names /\ {"", "__LABEL_SET"} \cap Names = {}
  /\ NoLabel \notin Labels

FilesOK ==
  \A f \in Files : /\ f \in Seq(FileLine)
                  /\ \A k \in DOMAIN f :
                       /\ LineOK(f[k])
                       /\ f[k].name \in {"", "__LABEL_SET"} => f[k].label # NoLabel

(* A macro is in one library, and is not a number.  A line with too few    *)
(* operands for it does not match it: its name is one that is unknown.     *)
LibsOK ==
  /\ Libs \in Seq({Libs[n] : n \in DOMAIN Libs})
  /\ \A n \in DOMAIN Libs : \A m \in DOMAIN Libs[n] :
       /\ m \in Names \ {"RAW", "invalid"} /\ MacroLibs(m) = {n}
       /\ Libs[n][m] \in Seq(EntryLine) /\ Len(Libs[n][m]) > 0
       /\ \A k \in DOMAIN Libs[n][m] : LineOK(Libs[n][m][k])

(* Macros do not need each other in a circle; what is left when none is    *)
(* has the operands of its instruction, and fits into the address space.   *)
Fits(word) ==
  /\ word.name = "RAW" => Len(word.args) = 1 /\ word.args[1][1] \in {"num", "label"}
  /\ word.name \in Known \ {"RAW"} =>
       \A n \in DOMAIN Operands(word.name) :
          n \in DOMAIN word.args /\ word.args[n][1] = "reg"

WordsOK ==
  /\ Depth \in Nat
  /\ \A f \in Files : /\ Len(Words(f)) <= 65536
                     /\ \A k \in DOMAIN Words(f) : /\ MacroLibs(Words(f)[k].name) = {}
                                                   /\ Fits(Words(f)[k])

ASSUME NamesAssumption   == NamesOK
ASSUME FilesAssumption   == FilesOK
ASSUME LibsAssumption    == LibsOK
ASSUME WordsAssumption   == WordsOK
ASSUME OffsetsAssumption == Offsets \subseteq Numbers

Compiled == phase = "done" /\ cause = ""
At(n)    == output[offset + n]

-----------------------------------------------------------------------------
(* Type invariant.                                                         *)
TypeOK ==
  /\ file \in Files /\ offset \in Offsets /\ autoJump \in BOOLEAN
  /\ phase \in {"expand", "labels", "replace", "offset", "encode", "done", "exited"}
  /\ tokens \in Seq([labels : Seq(Labels), name : Names, args : Seq(Operand)])
  /\ lib \in 1 .. Len(Libs) + 1 /\ i \in 1 .. Len(tokens) + 1
  /\ replaced \in Nat
  /\ \A l \in DOMAIN labelMap : labelMap[l] \in 0 .. Len(tokens) - 1
  /\ output \in Seq(Numbers)
  /\ cause \in {"", "Undefined label referenced", "Invalid instruction encountered"}

(* Whatever order the libraries replace tokens in, a program that compiles *)
(* consists of the words of its lines one after the other, and the VM      *)
(* decodes them as the commands and registers that were written.           *)
WordsRight ==
  Compiled =>
    /\ Len(output) \in offset + Len(AllWords) .. offset + Len(AllWords) + 1
    /\ \A n \in DOMAIN AllWords :
         LET w == AllWords[n]
         IN /\ w.name # "RAW"              => Decodes(At(n), w.name, w.args)
            /\ w.name = "RAW" /\ w.args[1][1] = "num" => At(n) = w.args[1][2]

(* Without an offset a label stands for the address of the first word of   *)
(* its line, through every expansion around it; a label is only reported   *)
(* as undefined if no line gives it an address.                            *)
Referred == {AllWords[n].args[1][2] :
               n \in {m \in DOMAIN AllWords : AllWords[m].name = "RAW"
                                                /\ AllWords[m].args[1][1] = "label"}}
References(n) == AllWords[n].name = "RAW" /\ AllWords[n].args[1][1] = "label"
LabelsRight ==
  /\ Compiled /\ offset = 0 =>
       \A n \in DOMAIN AllWords :
          References(n) => At(n) = Address(AllWords[n].args[1][2])
  /\ cause = "Undefined label referenced" => \E l \in Referred : Bearers(l) = {}

(* A program with an offset starts where it should: the VM runs the jump   *)
(* at 0 into its first word, or halts at once without one.                 *)
StartsRight ==
  Compiled /\ offset > 0 =>
    IF autoJump
    THEN /\ Decodes(output[1], "SET", <<SCR1>>)
         /\ output[2] = offset
         /\ Decodes(output[3], "MOV", <<SCR1, PC>>)
    ELSE Decodes(output[1], "HALT", <<>>)

(* Expansion comes to an end for libraries whose macros do not need each   *)
(* other in a circle.                                                      *)
Terminates == <>(phase \in {"done", "exited"})

=============================================================================
