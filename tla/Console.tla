------------------------------ MODULE Console ------------------------------
(***************************************************************************)
(* The console of the boot loader: the line editor of main (entry.mscr)    *)
(* over the screen functions of vga.mscr.  The line being typed is kept    *)
(* twice, in a buffer on the heap and on the screen, and each function     *)
(* moves the cursor with its own arithmetic, which wraps lines and         *)
(* scrolls.                                                                *)
(*                                                                         *)
(* A step is one turn of the input loop, or one character that the shell   *)
(* or main prints.  Cells that hold 0 or a space look the same and are     *)
(* both Blank.                                                             *)
(***************************************************************************)
EXTENDS Integers, Sequences

CONSTANTS
  Width, Height,  \* of the screen, vga_dim_x and vga_dim_y
  Chars,          \* what keys and programs print, but for
  Blank, Mark,    \* the space; the '_' that shows the cursor (a typed '_'
                  \* looks the same and is one of Chars)
  NewLine,        \* '\n'
  Prompt,         \* "mVIRA> "
  MaxInput        \* PROMPT_INPUT_MAX_LENGTH, 256

(* The screen has two lines at least, and one more than the longest input  *)
(* needs: nothing in the code checks it.                                   *)
ASSUME SizeAssumption ==
  /\ Width \in Nat \ {0} /\ Height \in Nat \ {0, 1}
  /\ MaxInput \in Nat
  /\ Len(Prompt) + MaxInput <= Width * (Height - 1)
ASSUME CharsAssumption ==
  /\ {Blank, Mark, NewLine} \cap Chars = {}
  /\ Blank \notin {Mark, NewLine} /\ Mark # NewLine
  /\ Prompt \in Seq(Chars) /\ Prompt # <<>>

VARIABLES
  con,   \* the console: cursor x, y and the cells, row by row
  buf,   \* the input buffer on the heap
  off,   \* currentInputOffset
  shown, \* how much of the prompt has been printed
  mode   \* is main printing the prompt or reading; is the shell about to
         \* print or printing; has it halted the machine

vars == <<con, buf, off, shown, mode>>

Cells == 0 .. Width * Height - 1
Printed == Chars \cup {Blank}

-----------------------------------------------------------------------------
(* vga.mscr                                                                *)

Pos(c) == c.y * Width + c.x

(* A write beside the screen changes nothing.                              *)
Put(c, char) == IF Pos(c) \in Cells THEN [c.cells EXCEPT ![Pos(c)] = char]
                                    ELSE c.cells

ShiftConsoleDown(cells) ==
  [i \in Cells |-> IF i < Width * (Height - 1) THEN cells[i + Width] ELSE Blank]

(* Seeded bug: the cursor goes down on the last line too.                  *)
LineFeedBelow(c) ==
  [c EXCEPT !.y = @ + 1,
            !.cells = IF c.y + 1 = Height THEN ShiftConsoleDown(@) ELSE @]

LineFeed(c) ==
  IF c.y + 1 = Height THEN [c EXCEPT !.cells = ShiftConsoleDown(@)]
                      ELSE [c EXCEPT !.y = @ + 1]

PrintChar(c, char) ==
  LET put == [c EXCEPT !.cells = Put(c, char)]
  IN IF char = NewLine       THEN LineFeed([c EXCEPT !.x = 0])
     ELSE IF c.x + 1 = Width THEN LineFeed([put EXCEPT !.x = 0])
     ELSE [put EXCEPT !.x = @ + 1]

(* How often the loops for a cursor left or right of the screen turn; the  *)
(* second may end at the width itself.                                     *)
TurnsUp(at)   == CHOOSE k \in 0 .. -at : at + k * Width \in 0 .. Width - 1
TurnsDown(at) == CHOOSE k \in 0 .. at : at - k * Width \in 1 .. Width

(* Seeded bug: the cursor stays on its line.                               *)
OffsetOnLine(c, offset) == [c EXCEPT !.x = (@ + offset) % Width]

OffsetLineCursor(c, offset) ==
  LET at == c.x + offset
  IN IF at < 0
     THEN [c EXCEPT !.x = at + TurnsUp(at) * Width, !.y = @ - TurnsUp(at)]
     ELSE IF at > Width
     THEN [c EXCEPT !.x = at - TurnsDown(at) * Width, !.y = @ + TurnsDown(at)]
     ELSE [c EXCEPT !.x = at]

Cleared == [x |-> 0, y |-> 0, cells |-> [i \in Cells |-> Blank]]

ShowMark(c) == OffsetLineCursor(PrintChar(c, Mark), -1)

-----------------------------------------------------------------------------
(* entry.mscr                                                              *)

(* main clears the screen and prints the welcome text.  What the heap      *)
(* holds at first is never looked at.                                      *)
Init ==
  /\ con = Cleared
  /\ buf = [i \in 0 .. MaxInput |-> Blank]
  /\ off = 0
  /\ shown = 0
  /\ mode = "output"

PrintPrompt ==
  /\ mode = "prompt"
  /\ con' = PrintChar(con, Prompt[shown + 1])
  /\ IF shown + 1 = Len(Prompt) THEN shown' = 0 /\ mode' = "read"
                                ELSE shown' = shown + 1 /\ UNCHANGED mode
  /\ UNCHANGED <<buf, off>>

(* A turn without a key.                                                   *)
NoKey ==
  /\ mode = "read"
  /\ con' = ShowMark(con)
  /\ UNCHANGED <<buf, off, shown, mode>>

Key(char) ==
  /\ mode = "read"
  /\ IF off < MaxInput
     THEN /\ con' = ShowMark(PrintChar(con, char))
          /\ buf' = [buf EXCEPT ![off] = char]
          /\ off' = off + 1
     ELSE con' = ShowMark(con) /\ UNCHANGED <<buf, off>>
  /\ UNCHANGED <<shown, mode>>

(* Seeded bug: the mark is not wiped.                                      *)
BackspaceLeavesMark ==
  /\ mode = "read"
  /\ IF off > 0
     THEN /\ con' = ShowMark(OffsetLineCursor(PrintChar(
                      OffsetLineCursor(con, -1), Blank), -1))
          /\ off' = off - 1
     ELSE con' = ShowMark(con) /\ UNCHANGED off
  /\ UNCHANGED <<buf, shown, mode>>

Backspace ==
  /\ mode = "read"
  /\ IF off > 0
     THEN /\ con' = ShowMark(OffsetLineCursor(PrintChar(
                      OffsetLineCursor(PrintChar(con, Blank), -2), Blank), -1))
          /\ off' = off - 1
     ELSE con' = ShowMark(con) /\ UNCHANGED off
  /\ UNCHANGED <<buf, shown, mode>>

(* The turn ends as every other: with a mark, on the new line.             *)
Enter ==
  /\ mode = "read"
  /\ con' = ShowMark(PrintChar(
              OffsetLineCursor(PrintChar(con, Blank), -1), NewLine))
  /\ IF off > 0 THEN buf' = [buf EXCEPT ![off] = Blank] /\ mode' = "shell"
                ELSE mode' = "prompt" /\ UNCHANGED buf
  /\ UNCHANGED <<off, shown>>

(* Every command prints something first that is not a new line; cls clears *)
(* the screen instead.                                                     *)
ShellPrint(char) ==
  /\ mode \in {"shell", "output"}
  /\ char = NewLine => mode = "output"
  /\ con' = PrintChar(con, char)
  /\ mode' = "output"
  /\ UNCHANGED <<buf, off, shown>>

ShellClear ==
  /\ mode = "shell"
  /\ con' = Cleared
  /\ mode' = "output"
  /\ UNCHANGED <<buf, off, shown>>

(* The new line at the end of a command, or of the welcome text.           *)
ShellEnd ==
  /\ mode = "output"
  /\ con' = PrintChar(con, NewLine)
  /\ off' = 0
  /\ mode' = "prompt"
  /\ UNCHANGED <<buf, shown>>

ShellHalt ==
  /\ mode = "output"
  /\ off > 0
  /\ mode' = "halted"
  /\ UNCHANGED <<con, buf, off, shown>>

Next ==
  \/ NoKey
  \/ \E char \in Printed : Key(char)
  \/ Backspace
  \/ Enter
  \/ PrintPrompt
  \/ \E char \in Printed \cup {NewLine} : ShellPrint(char)
  \/ ShellClear
  \/ ShellEnd
  \/ ShellHalt

Spec == Init /\ [][Next]_vars

-----------------------------------------------------------------------------
(* Type invariant; the cursor never leaves the screen.                     *)
TypeOK ==
  /\ con \in [x : 0 .. Width - 1, y : 0 .. Height - 1,
              cells : [Cells -> Printed \cup {Mark}]]
  /\ buf \in [0 .. MaxInput -> Printed]
  /\ off \in 0 .. MaxInput
  /\ shown \in 0 .. Len(Prompt) - 1
  /\ mode \in {"prompt", "read", "shell", "output", "halted"}

(* What the user sees is what the shell will get: the cells before the     *)
(* cursor show the buffer, across wrapped and scrolled lines.              *)
LineShown ==
  mode = "read" =>
    \A i \in 0 .. off - 1 :
       Pos(con) - off + i \in Cells => con.cells[Pos(con) - off + i] = buf[i]

(* No mark is left behind, and nothing stands after the cursor: what was   *)
(* deleted is gone from the screen.                                        *)
NothingBehind ==
  \A i \in Cells :
     /\ con.cells[i] = Mark => i = Pos(con)
     /\ i > Pos(con) => con.cells[i] = Blank

=============================================================================
