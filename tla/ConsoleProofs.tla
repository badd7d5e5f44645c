--------------------------- MODULE ConsoleProofs ---------------------------
(***************************************************************************)
(* The screen shows the line that is being typed, for a screen of any size *)
(* on which the longest input fits.                                        *)
(*                                                                         *)
(* Every function of vga.mscr is described by its effect on the cells in   *)
(* linear order: it writes one of them, moves the cursor, and shifts them  *)
(* all up by one line or not (Drawn).  The cursor cannot run off the top,  *)
(* as the prompt and the input lie between the first cell and it (Room).   *)
(***************************************************************************)
EXTENDS Console, TLAPS

Consoles == [x : 0 .. Width - 1, y : 0 .. Height - 1,
             cells : [Cells -> Printed \cup {Mark}]]

Size == Width * Height

(* The cells of d are those of c, shifted up, with char at its cursor.     *)
Drawn(c, d, up, char) ==
  \A i \in Cells :
     d.cells[i] = IF i + up \notin Cells THEN Blank
                  ELSE IF i + up = Pos(c) THEN char
                  ELSE c.cells[i + up]

(* The screen scrolls by a line only from the last cell.                   *)
Scrolls(c, up) == up \in {0, Width} /\ (up = Width => Pos(c) = Size - 1)

-----------------------------------------------------------------------------
(* The cursor in linear order.                                             *)

LEMMA Times == \A m, n \in Nat : m <= n => m * Width <= n * Width
<1> SUFFICES ASSUME NEW m \in Nat, NEW n \in Nat, m <= n
             PROVE  m * Width <= n * Width
  OBVIOUS
<1>1. Width \in Nat
  BY SizeAssumption
<1>2. (n - m) \in Nat /\ (n - m) * Width \in Nat
  BY <1>1
<1>3. n * Width = m * Width + (n - m) * Width
  BY <1>1
<1>4. m * Width \in Nat /\ n * Width \in Nat
  BY <1>1
<1>5. QED
  BY <1>2, <1>3, <1>4

LEMMA SizeFacts ==
  /\ Width \in Nat \ {0} /\ Height \in Nat \ {0, 1} /\ Size \in Nat
  /\ Size = (Height - 1) * Width + Width
  /\ Width <= (Height - 1) * Width
  /\ (Height - 1) * Width \in Nat
<1>1. Width \in Nat \ {0} /\ Height \in Nat \ {0, 1}
  BY SizeAssumption
<1>2. 1 * Width <= (Height - 1) * Width
  BY <1>1, Times
<1>3. QED
  BY <1>1, <1>2 DEF Size

LEMMA PosFacts ==
  ASSUME NEW c \in Consoles
  PROVE  /\ Pos(c) \in Cells /\ Pos(c) \in 0 .. Size - 1
         /\ c.x \in 0 .. Width - 1 /\ c.y \in 0 .. Height - 1
         /\ c.y * Width \in Nat
         /\ c.cells \in [Cells -> Printed \cup {Mark}]
         /\ Pos(c) = Size - 1 <=> c.x = Width - 1 /\ c.y = Height - 1
<1>1. c.x \in 0 .. Width - 1 /\ c.y \in 0 .. Height - 1
      /\ c.cells \in [Cells -> Printed \cup {Mark}]
  BY DEF Consoles
<1>2. c.y * Width \in Nat /\ c.y * Width <= (Height - 1) * Width
  BY <1>1, Times, SizeFacts
<1>3. c.y # Height - 1 => c.y * Width + Width <= (Height - 1) * Width
  <2> SUFFICES ASSUME c.y # Height - 1
               PROVE  c.y * Width + Width <= (Height - 1) * Width
    OBVIOUS
  <2>1. (c.y + 1) * Width <= (Height - 1) * Width
    BY <1>1, Times, SizeFacts
  <2>2. (c.y + 1) * Width = c.y * Width + Width
    BY <1>1, SizeFacts
  <2>3. QED
    BY <2>1, <2>2
<1>4. Pos(c) = c.y * Width + c.x
  BY DEF Pos
<1>5. Pos(c) \in 0 .. Size - 1
  BY <1>1, <1>2, <1>4, SizeFacts
<1>6. Pos(c) = Size - 1 <=> c.x = Width - 1 /\ c.y = Height - 1
  BY <1>1, <1>2, <1>3, <1>4, SizeFacts
<1>7. QED
  BY <1>1, <1>2, <1>5, <1>6 DEF Cells, Size

-----------------------------------------------------------------------------
(* What each function draws.                                               *)

LEMMA ShiftFacts ==
  ASSUME NEW cells \in [Cells -> Printed \cup {Mark}]
  PROVE  /\ ShiftConsoleDown(cells) \in [Cells -> Printed \cup {Mark}]
         /\ \A i \in Cells : ShiftConsoleDown(cells)[i] =
               IF i + Width \notin Cells THEN Blank ELSE cells[i + Width]
<1>1. \A i \in Cells : i < Width * (Height - 1) <=> i + Width \in Cells
  BY SizeFacts DEF Cells, Size
<1>2. Blank \in Printed
  BY DEF Printed
<1>3. QED
  BY <1>1, <1>2 DEF ShiftConsoleDown

LEMMA SetX ==
  ASSUME NEW c, NEW a, NEW b, NEW e, NEW n, c = [x |-> a, y |-> b, cells |-> e]
  PROVE  [c EXCEPT !.x = n] = [x |-> n, y |-> b, cells |-> e]
  OBVIOUS

(* A line feed from the first column of a line.                            *)
LEMMA LineFeedEffect ==
  ASSUME NEW c \in Consoles
  PROVE  LET d == LineFeed(c)
         IN \E up \in {0, Width} :
              /\ d \in Consoles /\ d.x = c.x
              /\ Pos(d) = Pos(c) + Width - up
              /\ up = Width <=> c.y + 1 = Height
              /\ \A i \in Cells : d.cells[i] =
                    IF i + up \notin Cells THEN Blank ELSE c.cells[i + up]
<1> DEFINE d == LineFeed(c)
<1>1. /\ c.x \in 0 .. Width - 1 /\ c.y \in 0 .. Height - 1
      /\ c.cells \in [Cells -> Printed \cup {Mark}]
      /\ Pos(c) = c.y * Width + c.x /\ c.y * Width \in Nat
  BY PosFacts DEF Pos
<1>2. CASE c.y + 1 = Height
  <2>1. d = [c EXCEPT !.cells = ShiftConsoleDown(c.cells)]
    BY <1>2 DEF LineFeed
  <2>2. /\ d.x = c.x /\ d.y = c.y /\ d.cells = ShiftConsoleDown(c.cells)
        /\ d = [x |-> c.x, y |-> c.y, cells |-> ShiftConsoleDown(c.cells)]
    BY <2>1 DEF Consoles
  <2>3. d \in Consoles
    BY <1>1, <2>2, ShiftFacts DEF Consoles
  <2>4. Pos(d) = Pos(c) + Width - Width
    BY <1>1, <2>2, SizeFacts DEF Pos
  <2>5. QED
    BY <1>1, <1>2, <2>2, <2>3, <2>4, ShiftFacts
<1>3. CASE c.y + 1 # Height
  <2>1. d = [c EXCEPT !.y = c.y + 1]
    BY <1>3 DEF LineFeed
  <2>2. /\ d.x = c.x /\ d.y = c.y + 1 /\ d.cells = c.cells
        /\ d = [x |-> c.x, y |-> c.y + 1, cells |-> c.cells]
    BY <2>1 DEF Consoles
  <2>3. c.y + 1 \in 0 .. Height - 1
    <3>1. c.y \in 0 .. Height - 1 /\ Height \in Nat /\ c.y + 1 # Height
      BY <1>1, <1>3, SizeFacts
    <3> HIDE DEF d
    <3> QED
      BY <3>1
  <2>4. d \in Consoles
    BY <1>1, <2>2, <2>3 DEF Consoles
  <2>5. (c.y + 1) * Width = c.y * Width + Width
    BY <1>1, SizeFacts
  <2>6. Pos(d) = Pos(c) + Width - 0
    BY <1>1, <2>2, <2>5, SizeFacts DEF Pos
  <2>7. \A i \in Cells : i + 0 \in Cells /\ i + 0 = i
    BY SizeFacts DEF Cells, Size
  <2>8. 0 # Width
    BY SizeFacts
  <2>9. QED
    BY <1>3, <2>2, <2>4, <2>6, <2>7, <2>8
<1>4. QED
  BY <1>2, <1>3

LEMMA PutFacts ==
  ASSUME NEW c \in Consoles, NEW char \in Printed \cup {Mark}
  PROVE  /\ Put(c, char) \in [Cells -> Printed \cup {Mark}]
         /\ \A i \in Cells :
              Put(c, char)[i] = IF i = Pos(c) THEN char ELSE c.cells[i]
  BY PosFacts DEF Put

(* A character that is no new line moves the cursor on by one cell.        *)
LEMMA PrintEffect ==
  ASSUME NEW c \in Consoles, NEW char \in Printed \cup {Mark}
  PROVE  \E up \in {0, Width} :
            /\ PrintChar(c, char) \in Consoles
            /\ Pos(PrintChar(c, char)) = Pos(c) + 1 - up
            /\ Scrolls(c, up)
            /\ Drawn(c, PrintChar(c, char), up, char)
<1> DEFINE put == [c EXCEPT !.cells = Put(c, char)]
<1>1. /\ c.x \in 0 .. Width - 1 /\ c.y \in 0 .. Height - 1
      /\ Pos(c) = c.y * Width + c.x /\ c.y * Width \in Nat
  BY PosFacts DEF Pos
<1>2. char # NewLine
  BY CharsAssumption DEF Printed
<1>3. put = [x |-> c.x, y |-> c.y, cells |-> Put(c, char)]
  BY DEF Consoles
<1>4. CASE c.x + 1 = Width
  <2> DEFINE left == [x |-> 0, y |-> c.y, cells |-> Put(c, char)]
  <2>1. PrintChar(c, char) = LineFeed(left)
    <3>1. [put EXCEPT !.x = 0] = left
      <4> HIDE DEF put
      <4> QED
        BY <1>3, SetX
    <3>2. QED
      BY <1>2, <1>4, <3>1 DEF PrintChar
  <2>2. left \in Consoles
    BY <1>1, PutFacts, SizeFacts DEF Consoles
  <2>3. Pos(left) + Width = Pos(c) + 1
    BY <1>1, <1>4, SizeFacts DEF Pos
  <2> HIDE DEF left
  <2>4. PICK up \in {0, Width} :
           /\ LineFeed(left) \in Consoles
           /\ Pos(LineFeed(left)) = Pos(left) + Width - up
           /\ up = Width <=> left.y + 1 = Height
           /\ \A i \in Cells : LineFeed(left).cells[i] =
                 IF i + up \notin Cells THEN Blank ELSE left.cells[i + up]
    BY <2>2, LineFeedEffect
  <2> USE DEF left
  <2>5. Scrolls(c, up)
    <3>1. up = Width => Pos(c) = Size - 1
      BY <1>1, <1>4, <2>4, PosFacts, SizeFacts
    <3>2. QED
      BY <3>1 DEF Scrolls
  <2>6. Drawn(c, LineFeed(left), up, char)
    BY <2>4, PutFacts DEF Drawn
  <2>7. Pos(LineFeed(left)) = Pos(c) + 1 - up
    <3>1. Pos(left) \in Int /\ Pos(c) \in Int /\ up \in Int
      BY <2>2, <2>4, PosFacts, SizeFacts
    <3>2. QED
      BY <2>3, <2>4, <3>1, SizeFacts
  <2> HIDE DEF left
  <2>8. QED
    BY <2>1, <2>4, <2>5, <2>6, <2>7
<1>5. CASE c.x + 1 # Width
  <2> DEFINE right == [x |-> c.x + 1, y |-> c.y, cells |-> Put(c, char)]
  <2>1. PrintChar(c, char) = right
    <3>1. [put EXCEPT !.x = put.x + 1] = right
      <4> HIDE DEF put
      <4>1. put.x = c.x
        BY <1>3
      <4> QED
        BY <1>3, <4>1, SetX
    <3>2. QED
      BY <1>2, <1>5, <3>1 DEF PrintChar
  <2>2. c.x + 1 \in 0 .. Width - 1
    BY <1>1, <1>5, SizeFacts
  <2>3. right \in Consoles
    BY <1>1, <2>2, PutFacts DEF Consoles
  <2>4. Pos(right) = Pos(c) + 1 - 0
    BY <1>1 DEF Pos
  <2>5. Scrolls(c, 0)
    BY SizeFacts DEF Scrolls
  <2>6. \A i \in Cells : i + 0 \in Cells /\ i + 0 = i
    BY SizeFacts DEF Cells, Size
  <2>7. Drawn(c, right, 0, char)
    BY <2>6, PutFacts DEF Drawn
  <2>8. QED
    BY <2>1, <2>3, <2>4, <2>5, <2>7
<1>6. QED
  BY <1>4, <1>5

(* A cursor moved back by one or two cells that exist wraps to the line    *)
(* above.                                                                  *)
LEMMA BackEffect ==
  ASSUME NEW c \in Consoles, NEW n \in {1, 2}, n <= Pos(c)
  PROVE  /\ OffsetLineCursor(c, -n) \in Consoles
         /\ Pos(OffsetLineCursor(c, -n)) = Pos(c) - n
         /\ OffsetLineCursor(c, -n).cells = c.cells
<1> DEFINE at == c.x + -n
           d == OffsetLineCursor(c, -n)
<1>1. /\ c.x \in 0 .. Width - 1 /\ c.y \in 0 .. Height - 1
      /\ Pos(c) = c.y * Width + c.x /\ c.y * Width \in Nat
      /\ Width \in Nat \ {0} /\ Height \in Nat \ {0, 1}
      /\ c.cells \in [Cells -> Printed \cup {Mark}]
  BY PosFacts, SizeFacts DEF Pos
<1>2. at \in Int /\ at = c.x - n /\ n \in {1, 2} /\ at <= Width /\ at >= -2
  BY <1>1
<1>3. c = [x |-> c.x, y |-> c.y, cells |-> c.cells]
  BY DEF Consoles
<1>4. CASE at >= 0
  <2>1. d = [c EXCEPT !.x = at]
    <3>1. ~(at < 0) /\ ~(at > Width)
      <4> HIDE DEF at
      <4> QED
        BY <1>1, <1>2, <1>4
    <3>2. QED
      BY <3>1 DEF OffsetLineCursor
  <2>2. d = [x |-> at, y |-> c.y, cells |-> c.cells]
    <3> HIDE DEF at, d
    <3> QED
      BY <1>3, <2>1, SetX
  <2>3. at \in 0 .. Width - 1
    BY <1>1, <1>4
  <2> HIDE DEF d
  <2>4. d \in Consoles
    BY <1>1, <2>2, <2>3 DEF Consoles
  <2>5. Pos(d) = c.y * Width + at
    BY <2>2 DEF Pos
  <2>6. QED
    BY <1>1, <2>2, <2>4, <2>5 DEF d
<1>5. CASE at < 0
  <2> DEFINE k == TurnsUp(at)
  <2>1. d = [c EXCEPT !.x = at + k * Width, !.y = c.y - k]
    BY <1>2, <1>5 DEF OffsetLineCursor
  <2>2. \E j \in 0 .. -at : at + j * Width \in 0 .. Width - 1
    <3>1. CASE at + Width >= 0
      <4>1. at + 1 * Width \in 0 .. Width - 1 /\ 1 \in 0 .. -at
        BY <1>1, <1>2, <1>5, <3>1
      <4>2. QED
        BY <4>1
    <3>2. CASE at + Width < 0
      <4> HIDE DEF at
      <4>1. at = -2 /\ Width = 1
        <5>1. Width \in Nat \ {0} /\ at >= -2
          BY <1>1, <1>2
        <5>2. QED
          BY <1>2, <3>2, <5>1
      <4>2. at + 2 * Width = 0
        BY <4>1
      <4>3. 0 \in 0 .. Width - 1
        BY <4>1
      <4>4. 2 \in 0 .. -at
        BY <1>2, <4>1
      <4>5. QED
        BY <4>2, <4>3, <4>4
    <3>3. QED
      BY <1>1, <1>2, <3>1, <3>2
  <2>3. k \in 0 .. -at /\ at + k * Width \in 0 .. Width - 1
    <3> HIDE DEF at
    <3> QED
      BY <2>2 DEF TurnsUp
  <2>4. d = [x |-> at + k * Width, y |-> c.y - k, cells |-> c.cells]
    <3> HIDE DEF at, k, d
    <3>1. c \in [x : 0 .. Width - 1, y : 0 .. Height - 1,
                cells : [Cells -> Printed \cup {Mark}]]
      BY DEF Consoles
    <3>2. QED
      BY <2>1, <3>1
  <2>5. k \in {1, 2} /\ c.y - k \in 0 .. Height - 1
    <3>1. k # 0
      <4> HIDE DEF k, at
      <4> QED
        BY <1>1, <1>2, <1>5, <2>3
    <3>2. CASE k = 1
      <4>1. c.y # 0
        BY <1>1, <1>2, <1>5
      <4>2. QED
        BY <1>1, <3>2, <4>1
    <3>3. CASE k = 2
      <4> HIDE DEF k
      <4>1. at = -2
        BY <1>1, <1>2, <1>5, <2>3, <3>3
      <4>2. at + 2 * Width <= Width - 1
        BY <2>3, <3>3
      <4>3. Width = 1 /\ c.x = 0
        BY <1>1, <4>1, <4>2
      <4>4. c.y >= 2
        BY <1>1, <4>1, <4>3
      <4>5. QED
        BY <1>1, <3>3, <4>4
    <3>4. k \in 0 .. 2
      <4> HIDE DEF k
      <4> QED
        BY <1>1, <1>2, <1>5, <2>3
    <3>5. QED
      BY <3>1, <3>2, <3>3, <3>4
  <2> HIDE DEF d, k, at
  <2>6. d \in Consoles
    BY <1>1, <2>3, <2>4, <2>5 DEF Consoles
  <2>7. (c.y - k) * Width = c.y * Width - k * Width
    BY <1>1, <2>5
  <2>8. Pos(d) = (c.y - k) * Width + (at + k * Width)
    BY <2>4 DEF Pos
  <2>9. k * Width \in Int
    BY <1>1, <2>5
  <2>10. Pos(d) = Pos(c) - n
    <3>1. Pos(d) = c.y * Width - k * Width + (at + k * Width)
      BY <2>7, <2>8
    <3>2. Pos(c) - n = c.y * Width + at
      BY <1>1, <1>2
    <3>3. c.y * Width \in Int /\ at \in Int
      BY <1>1, <1>2
    <3>4. QED
      BY <2>9, <3>1, <3>2, <3>3
  <2>11. QED
    BY <2>4, <2>6, <2>10 DEF d
<1>6. QED
  BY <1>2, <1>4, <1>5

-----------------------------------------------------------------------------
(* What holds of a console while a line is typed.                          *)

Stamp(c, char) == OffsetLineCursor(PrintChar(c, char), -1)
Rubout(c)      == OffsetLineCursor(PrintChar(c, Blank), -2)

Clear(c) == \A i \in Cells : c.cells[i] # Mark

Neat(c) == \A i \in Cells : /\ c.cells[i] = Mark => i = Pos(c)
                            /\ i > Pos(c) => c.cells[i] = Blank

(* The o cells before the cursor, as many as have not scrolled off, show b.*)
Line(c, o, b) ==
  \A i \in 0 .. o - 1 :
     Pos(c) - o + i \in Cells => c.cells[Pos(c) - o + i] = b[i]

Good(c, o, b) == c \in Consoles /\ Neat(c) /\ Line(c, o, b) /\ o <= Pos(c)

(* Printing leaves at most one mark, the one it prints.                    *)
LEMMA PrintNeat ==
  ASSUME NEW c \in Consoles, NEW char \in Printed \cup {Mark}, Neat(c)
  PROVE  LET d == PrintChar(c, char)
         IN /\ d \in Consoles
            /\ 1 <= Pos(d)
            /\ \A i \in Cells : /\ d.cells[i] = Mark => i = Pos(d) - 1 /\ char = Mark
                                /\ i >= Pos(d) => d.cells[i] = Blank
                                /\ i = Pos(d) - 1 => d.cells[i] = char
<1> DEFINE d == PrintChar(c, char)
<1>1. PICK up \in {0, Width} :
        /\ d \in Consoles /\ Pos(d) = Pos(c) + 1 - up
        /\ Scrolls(c, up) /\ Drawn(c, d, up, char)
  BY PrintEffect
<1> HIDE DEF d
<1>2. /\ Pos(c) \in 0 .. Size - 1 /\ (up = Width => Pos(c) = Size - 1)
      /\ Cells = 0 .. Size - 1
  BY <1>1, PosFacts DEF Scrolls, Cells, Size
<1>3. 1 <= Pos(d)
  BY <1>1, <1>2, SizeFacts
<1>4. ASSUME NEW i \in Cells
      PROVE  /\ d.cells[i] = Mark => i = Pos(d) - 1 /\ char = Mark
             /\ i >= Pos(d) => d.cells[i] = Blank
             /\ i = Pos(d) - 1 => d.cells[i] = char
  <2>1. d.cells[i] = IF i + up \notin Cells THEN Blank
                     ELSE IF i + up = Pos(c) THEN char ELSE c.cells[i + up]
    BY <1>1 DEF Drawn
  <2>2. i = Pos(d) - 1 <=> i + up = Pos(c)
    BY <1>1, <1>2, SizeFacts
  <2>3. i >= Pos(d) <=> i + up > Pos(c)
    BY <1>1, <1>2, SizeFacts
  <2>4. Pos(c) \in Cells /\ Blank # Mark
    BY PosFacts, CharsAssumption
  <2>5. i + up \in Cells =>
          /\ c.cells[i + up] = Mark => i + up = Pos(c)
          /\ i + up > Pos(c) => c.cells[i + up] = Blank
    BY DEF Neat
  <2>6. i + up > Pos(c) => i + up # Pos(c)
    BY <1>1, <1>2, SizeFacts
  <2>7. QED
    BY <2>1, <2>2, <2>3, <2>4, <2>5, <2>6
<1>5. QED
  BY <1>1, <1>3, <1>4 DEF d

(* Printing a character adds it to the line.                               *)
LEMMA PrintLine ==
  ASSUME NEW c \in Consoles, NEW char \in Printed \cup {Mark},
         NEW o \in 0 .. Size, NEW b, NEW e, Line(c, o, b),
         \A i \in 0 .. o - 1 : e[i] = b[i], e[o] = char
  PROVE  Line(PrintChar(c, char), o + 1, e)
<1> DEFINE d == PrintChar(c, char)
<1>1. PICK up \in {0, Width} :
        /\ d \in Consoles /\ Pos(d) = Pos(c) + 1 - up
        /\ Scrolls(c, up) /\ Drawn(c, d, up, char)
  BY PrintEffect
<1> HIDE DEF d
<1>2. Pos(c) \in 0 .. Size - 1 /\ Cells = 0 .. Size - 1 /\ Pos(c) \in Cells
  BY PosFacts DEF Cells, Size
<1> SUFFICES ASSUME NEW i \in 0 .. o, Pos(d) - (o + 1) + i \in Cells
             PROVE  d.cells[Pos(d) - (o + 1) + i] = e[i]
  BY SizeFacts DEF Line, d
<1> DEFINE at == Pos(d) - (o + 1) + i
<1>3. at + up = Pos(c) - o + i
  BY <1>1, <1>2, SizeFacts
<1>4. at + up \in Cells /\ at \in Cells
  BY <1>1, <1>2, <1>3, SizeFacts
<1>5. d.cells[at] = IF at + up = Pos(c) THEN char ELSE c.cells[at + up]
  BY <1>1, <1>4 DEF Drawn
<1> HIDE DEF at
<1>6. CASE i = o
  <2>1. at + up = Pos(c)
    BY <1>2, <1>3, <1>6
  <2>2. QED
    BY <1>5, <1>6, <2>1 DEF at
<1>7. CASE i # o
  <2>1. i \in 0 .. o - 1 /\ at + up # Pos(c)
    BY <1>2, <1>3, <1>7
  <2>2. c.cells[at + up] = b[i]
    BY <1>3, <1>4, <2>1 DEF Line
  <2>3. QED
    BY <1>5, <2>1, <2>2 DEF at
<1>8. QED
  BY <1>6, <1>7

(* Going back takes the last characters off it.                            *)
LEMMA BackLine ==
  ASSUME NEW c \in Consoles, NEW n \in {1, 2}, n <= Pos(c),
         NEW o \in Nat, n <= o, NEW b, Line(c, o, b)
  PROVE  Line(OffsetLineCursor(c, -n), o - n, b)
<1> DEFINE d == OffsetLineCursor(c, -n)
<1>1. Pos(d) = Pos(c) - n /\ d.cells = c.cells /\ Pos(c) \in Int
  BY BackEffect, PosFacts
<1> HIDE DEF d
<1> SUFFICES ASSUME NEW i \in 0 .. (o - n) - 1, Pos(d) - (o - n) + i \in Cells
             PROVE  d.cells[Pos(d) - (o - n) + i] = b[i]
  BY DEF Line, d
<1>2. Pos(d) - (o - n) + i = Pos(c) - o + i /\ i \in 0 .. o - 1
  BY <1>1
<1>3. QED
  BY <1>1, <1>2 DEF Line

-----------------------------------------------------------------------------
(* What each turn of the input loop is made of.                            *)

LEMMA RoomFacts ==
  MaxInput \in Nat /\ MaxInput < Size - Width /\ MaxInput <= Size
<1>1. Len(Prompt) \in Nat /\ Len(Prompt) # 0
  BY CharsAssumption
<1>2. Size - Width = Width * (Height - 1)
  BY SizeFacts DEF Size
<1>3. QED
  BY <1>1, <1>2, SizeFacts, SizeAssumption

LEMMA GoodPrint ==
  ASSUME NEW c, NEW char \in Printed, NEW o \in 0 .. MaxInput - 1,
         NEW b, NEW e, Good(c, o, b),
         \A i \in 0 .. o - 1 : e[i] = b[i], e[o] = char
  PROVE  Good(PrintChar(c, char), o + 1, e)
<1> DEFINE d == PrintChar(c, char)
<1>1. c \in Consoles /\ Neat(c) /\ Line(c, o, b) /\ o <= Pos(c)
  BY DEF Good
<1>2. char # Mark
  BY CharsAssumption DEF Printed
<1>3. /\ d \in Consoles
      /\ \A i \in Cells : d.cells[i] # Mark /\ (i >= Pos(d) => d.cells[i] = Blank)
  BY <1>1, <1>2, PrintNeat
<1>4. Neat(d)
  BY <1>3, PosFacts DEF Neat, Cells
<1>5. o \in 0 .. Size
  BY RoomFacts, SizeFacts
<1>6. Line(d, o + 1, e)
  BY <1>1, <1>5, PrintLine
<1>7. o + 1 <= Pos(d)
  <2>1. PICK up \in {0, Width} : Pos(d) = Pos(c) + 1 - up /\ Scrolls(c, up)
    BY <1>1, PrintEffect
  <2> HIDE DEF d
  <2>2. Pos(c) \in 0 .. Size - 1 /\ (up = Width => Pos(c) = Size - 1)
    BY <1>1, <2>1, PosFacts DEF Scrolls
  <2>3. QED
    BY <1>1, <2>1, <2>2, RoomFacts, SizeFacts
<1>8. QED
  BY <1>3, <1>4, <1>6, <1>7 DEF Good

(* A mark, or a blank where the mark was.                                  *)
LEMMA GoodStamp ==
  ASSUME NEW c \in Consoles, NEW char \in Printed \cup {Mark}, Neat(c)
  PROVE  /\ Stamp(c, char) \in Consoles /\ Neat(Stamp(c, char))
         /\ char # Mark => Clear(Stamp(c, char))
         /\ \A o \in 0 .. MaxInput : \A b :
               Good(c, o, b) => Good(Stamp(c, char), o, b)
<1> DEFINE d == PrintChar(c, char)
           s == Stamp(c, char)
<1>1. /\ d \in Consoles /\ 1 <= Pos(d)
      /\ \A i \in Cells : /\ d.cells[i] = Mark => i = Pos(d) - 1 /\ char = Mark
                          /\ i >= Pos(d) => d.cells[i] = Blank
  BY PrintNeat
<1>2. s = OffsetLineCursor(d, -1)
  BY DEF Stamp
<1> HIDE DEF d, s
<1>3. s \in Consoles /\ Pos(s) = Pos(d) - 1 /\ s.cells = d.cells
  BY <1>1, <1>2, BackEffect
<1>4. Neat(s)
  <2>1. Pos(d) \in Int /\ \A i \in Cells : i \in Int
    BY <1>1, PosFacts DEF Cells
  <2>2. QED
    BY <1>1, <1>3, <2>1 DEF Neat
<1>5. char # Mark => Clear(s)
  BY <1>1, <1>3 DEF Clear
<1>6. ASSUME NEW o \in 0 .. MaxInput, NEW b, Good(c, o, b)
      PROVE  Good(s, o, b)
  <2> DEFINE e == [i \in 0 .. o |-> IF i < o THEN b[i] ELSE char]
  <2>1. Line(c, o, b) /\ o <= Pos(c) /\ o \in 0 .. Size
    BY <1>6, RoomFacts, SizeFacts DEF Good
  <2>2. /\ \A i \in 0 .. o - 1 : e[i] = b[i]
        /\ e[o] = char
    BY RoomFacts
  <2> HIDE DEF e
  <2>3. Line(d, o + 1, e)
    BY <2>1, <2>2, PrintLine DEF d
  <2>4. o + 1 \in Nat /\ 1 <= o + 1 /\ (o + 1) - 1 = o
    BY RoomFacts
  <2>5. Line(s, o, e)
    <3>1. Line(OffsetLineCursor(d, -1), (o + 1) - 1, e)
      BY <1>1, <2>3, <2>4, BackLine
    <3>2. QED
      BY <1>2, <2>4, <3>1
  <2>6. Line(s, o, b)
    BY <2>2, <2>5 DEF Line
  <2>7. o <= Pos(s)
    <3>1. PICK up \in {0, Width} : Pos(d) = Pos(c) + 1 - up /\ Scrolls(c, up)
      BY PrintEffect DEF d
    <3>2. Pos(c) \in 0 .. Size - 1 /\ (up = Width => Pos(c) = Size - 1)
      BY <3>1, PosFacts DEF Scrolls
    <3>3. QED
      BY <1>3, <2>1, <3>1, <3>2, RoomFacts, SizeFacts
  <2>8. QED
    BY <1>3, <1>4, <2>6, <2>7 DEF Good
<1>7. QED
  BY <1>3, <1>4, <1>5, <1>6 DEF s

(* The mark wiped, the cursor on the last character.                       *)
LEMMA GoodRubout ==
  ASSUME NEW c, NEW o \in 1 .. MaxInput, NEW b, Good(c, o, b)
  PROVE  Good(Rubout(c), o - 1, b)
<1> DEFINE d == PrintChar(c, Blank)
           r == Rubout(c)
           e == [i \in 0 .. o |-> IF i < o THEN b[i] ELSE Blank]
<1>1. c \in Consoles /\ Neat(c) /\ Line(c, o, b) /\ o <= Pos(c)
  BY DEF Good
<1>2. Blank \in Printed \cup {Mark} /\ Blank # Mark
  BY CharsAssumption DEF Printed
<1>3. /\ d \in Consoles
      /\ \A i \in Cells : /\ d.cells[i] # Mark
                          /\ i >= Pos(d) => d.cells[i] = Blank
                          /\ i = Pos(d) - 1 => d.cells[i] = Blank
  BY <1>1, <1>2, PrintNeat
<1>4. /\ \A i \in 0 .. o - 1 : e[i] = b[i]
      /\ e[o] = Blank /\ o \in 0 .. Size
  BY RoomFacts, SizeFacts
<1> HIDE DEF e
<1>5. Line(d, o + 1, e)
  BY <1>1, <1>2, <1>4, PrintLine
<1>6. PICK up \in {0, Width} : Pos(d) = Pos(c) + 1 - up /\ Scrolls(c, up)
  BY <1>1, <1>2, PrintEffect
<1>7. r = OffsetLineCursor(d, -2)
  BY DEF Rubout
<1> HIDE DEF d, r
<1>8. Pos(c) \in 0 .. Size - 1 /\ (up = Width => Pos(c) = Size - 1)
  BY <1>1, <1>6, PosFacts DEF Scrolls
<1>9. o + 1 <= Pos(d)
  BY <1>1, <1>6, <1>8, RoomFacts, SizeFacts
<1>10. 2 <= Pos(d) /\ o + 1 \in Nat /\ 2 <= o + 1 /\ (o + 1) - 2 = o - 1
  BY <1>3, <1>9, PosFacts, RoomFacts
<1>11. r \in Consoles /\ Pos(r) = Pos(d) - 2 /\ r.cells = d.cells
  BY <1>3, <1>7, <1>10, BackEffect
<1>12. Neat(r)
  <2>1. Pos(d) \in Int /\ \A i \in Cells : i \in Int
    BY <1>3, PosFacts DEF Cells
  <2>2. \A i \in Cells : i > Pos(r) => i >= Pos(d) \/ i = Pos(d) - 1
    BY <1>11, <2>1
  <2>3. QED
    BY <1>3, <1>11, <2>2 DEF Neat
<1>13. Line(r, o - 1, b)
  <2>1. Line(OffsetLineCursor(d, -2), (o + 1) - 2, e)
    BY <1>3, <1>5, <1>10, BackLine
  <2>2. Line(r, o - 1, e)
    BY <1>7, <1>10, <2>1
  <2>3. \A i \in 0 .. (o - 1) - 1 : i \in 0 .. o - 1
    BY RoomFacts
  <2>4. QED
    BY <1>4, <2>2, <2>3 DEF Line
<1>14. o - 1 <= Pos(r)
  BY <1>3, <1>9, <1>11, PosFacts
<1>15. QED
  BY <1>11, <1>12, <1>13, <1>14 DEF Good, r

LEMMA NewLineNeat ==
  ASSUME NEW c \in Consoles, Neat(c), Clear(c)
  PROVE  LET d == PrintChar(c, NewLine)
         IN d \in Consoles /\ Neat(d) /\ Clear(d)
<1> DEFINE left == [x |-> 0, y |-> c.y, cells |-> c.cells]
           d == LineFeed(left)
<1>1. /\ c.x \in 0 .. Width - 1 /\ c.y \in 0 .. Height - 1
      /\ c.cells \in [Cells -> Printed \cup {Mark}]
      /\ Pos(c) = c.y * Width + c.x /\ c.y * Width \in Nat
  BY PosFacts DEF Pos
<1>2. PrintChar(c, NewLine) = d
  <2>1. c = [x |-> c.x, y |-> c.y, cells |-> c.cells]
    BY DEF Consoles
  <2>2. [c EXCEPT !.x = 0] = left
    BY <2>1, SetX
  <2>3. QED
    BY <2>2 DEF PrintChar
<1>3. left \in Consoles
  BY <1>1, SizeFacts DEF Consoles
<1>4. /\ Pos(left) + c.x = Pos(c) /\ left.cells = c.cells /\ left.y = c.y
      /\ left.x = 0
  BY <1>1 DEF Pos
<1> HIDE DEF left
<1>5. PICK up \in {0, Width} :
         /\ d \in Consoles
         /\ Pos(d) = Pos(left) + Width - up
         /\ up = Width <=> left.y + 1 = Height
         /\ \A i \in Cells : d.cells[i] =
               IF i + up \notin Cells THEN Blank ELSE left.cells[i + up]
  BY <1>3, LineFeedEffect
<1> HIDE DEF d
<1>6. Blank # Mark
  BY CharsAssumption
<1>7. Clear(d)
  BY <1>4, <1>5, <1>6 DEF Clear
<1>8. ASSUME NEW i \in Cells, i > Pos(d)
      PROVE  d.cells[i] = Blank
  <2>1. i \in Nat /\ Pos(d) \in Nat /\ Pos(left) \in Nat /\ Pos(c) \in Nat
    BY <1>3, <1>5, PosFacts DEF Cells
  <2>2. i + up > Pos(c)
    <3>1. c.x < Width /\ c.x \in Nat /\ up \in Nat
      BY <1>1, <1>5, SizeFacts
    <3>2. i + up > Pos(left) + Width
      BY <1>5, <1>8, <2>1, <3>1, SizeFacts
    <3>3. QED
      BY <1>4, <2>1, <3>1, <3>2, SizeFacts
  <2>3. QED
    BY <1>4, <1>5, <2>2 DEF Neat
<1>9. QED
  BY <1>2, <1>5, <1>7, <1>8 DEF Neat, Clear

-----------------------------------------------------------------------------
(* The inductive invariant.  While a line is typed, the screen holds all   *)
(* of it before the cursor or has scrolled it off the top; no new line is  *)
(* printed over a mark.                                                    *)
Inv ==
  /\ TypeOK
  /\ Neat(con)
  /\ mode = "read"   => Good(con, off, buf)
  /\ mode = "output" => Clear(con)
  /\ mode = "prompt" => off = 0

LEMMA PromptFacts ==
  /\ Prompt \in Seq(Chars) /\ Len(Prompt) \in Nat \ {0}
  /\ \A n \in 0 .. Len(Prompt) - 1 : Prompt[n + 1] \in Printed
  /\ Blank \in Printed /\ Mark \in Printed \cup {Mark} /\ Mark # Blank
  /\ Mark \notin Printed
<1>1. Prompt \in Seq(Chars) /\ Len(Prompt) \in Nat \ {0}
  BY CharsAssumption
<1>2. QED
  BY <1>1, CharsAssumption DEF Printed

(* The empty screen is neat.                                               *)
LEMMA ClearedFacts == Cleared \in Consoles /\ Neat(Cleared) /\ Clear(Cleared)
  BY SizeFacts, PromptFacts DEF Cleared, Consoles, Neat, Clear

(* A mark on a console leaves the line as it is.                           *)
LEMMA GoodMark ==
  ASSUME NEW c, NEW o \in 0 .. MaxInput, NEW b, Good(c, o, b)
  PROVE  Good(ShowMark(c), o, b)
<1>1. c \in Consoles /\ Neat(c)
  BY DEF Good
<1>2. ShowMark(c) = Stamp(c, Mark)
  BY DEF ShowMark, Stamp
<1>3. QED
  BY <1>1, <1>2, GoodStamp, PromptFacts

(* A turn that reads and goes on reading keeps the invariant if it keeps   *)
(* the line good.                                                          *)
LEMMA ReadOn ==
  ASSUME Good(con', off', buf'), off' \in 0 .. MaxInput,
         buf' \in [0 .. MaxInput -> Printed], TypeOK,
         mode' = "read", shown' \in 0 .. Len(Prompt) - 1
  PROVE  Inv'
  BY DEF Inv, TypeOK, Good, Consoles

LEMMA InitInv == Init => Inv
<1> SUFFICES ASSUME Init PROVE Inv
  OBVIOUS
<1>1. con \in Consoles /\ Neat(con) /\ Clear(con)
  BY ClearedFacts DEF Init
<1>2. off \in 0 .. MaxInput /\ shown \in 0 .. Len(Prompt) - 1
  BY RoomFacts, PromptFacts DEF Init
<1>3. buf \in [0 .. MaxInput -> Printed]
  BY PromptFacts DEF Init
<1>4. QED
  BY <1>1, <1>2, <1>3 DEF Inv, TypeOK, Init, Consoles

LEMMA NextInv == Inv /\ [Next]_vars => Inv'
<1> SUFFICES ASSUME Inv, [Next]_vars PROVE Inv'
  OBVIOUS
<1>1. /\ con \in Consoles /\ Neat(con)
      /\ buf \in [0 .. MaxInput -> Printed] /\ off \in 0 .. MaxInput
      /\ shown \in 0 .. Len(Prompt) - 1 /\ TypeOK
      /\ mode \in {"prompt", "read", "shell", "output", "halted"}
  BY DEF Inv, TypeOK, Consoles
<1>2. mode = "read" => Good(con, off, buf)
  BY DEF Inv
<1>3. CASE PrintPrompt
  <2> DEFINE char == Prompt[shown + 1]
  <2>1. char \in Printed /\ char # Mark
    BY <1>1, PromptFacts
  <2> HIDE DEF char
  <2>2. con' = PrintChar(con, char)
    BY <1>3 DEF PrintPrompt, char
  <2>3. /\ con' \in Consoles
        /\ \A i \in Cells : con'.cells[i] # Mark
                            /\ (i >= Pos(con') => con'.cells[i] = Blank)
    BY <1>1, <2>1, <2>2, PrintNeat
  <2>4. Neat(con') /\ Pos(con') \in Nat
    BY <2>3, PosFacts DEF Neat, Cells
  <2>5. off = 0 /\ off' = 0 /\ buf' = buf
    BY <1>3 DEF PrintPrompt, Inv
  <2>6. Good(con', off', buf')
    BY <2>3, <2>4, <2>5 DEF Good, Line
  <2>7. shown' \in 0 .. Len(Prompt) - 1
    BY <1>1, <1>3, PromptFacts DEF PrintPrompt
  <2>8. mode' \in {"prompt", "read"}
    BY <1>3 DEF PrintPrompt
  <2>9. QED
    BY <1>1, <2>3, <2>4, <2>5, <2>6, <2>7, <2>8 DEF Inv, TypeOK, Consoles
<1>4. CASE NoKey
  <2>1. Good(con, off, buf) /\ con' = ShowMark(con)
        /\ UNCHANGED <<buf, off, shown, mode>> /\ mode = "read"
    BY <1>2, <1>4 DEF NoKey
  <2>2. Good(con', off', buf')
    BY <1>1, <2>1, GoodMark
  <2>3. QED
    BY <1>1, <2>1, <2>2, ReadOn
<1>5. ASSUME NEW char \in Printed, Key(char)
      PROVE  Inv'
  <2>1. Good(con, off, buf) /\ mode = "read" /\ UNCHANGED <<shown, mode>>
    BY <1>2, <1>5 DEF Key
  <2>2. CASE off < MaxInput
    <3>1. /\ con' = ShowMark(PrintChar(con, char))
          /\ buf' = [buf EXCEPT ![off] = char]
          /\ off' = off + 1
      BY <1>5, <2>2 DEF Key
    <3>2. off \in 0 .. MaxInput - 1 /\ off + 1 \in 0 .. MaxInput
      BY <1>1, <2>2, RoomFacts
    <3>3. /\ \A i \in 0 .. off - 1 : buf'[i] = buf[i]
          /\ buf'[off] = char
          /\ buf' \in [0 .. MaxInput -> Printed]
      BY <1>1, <3>1, <3>2
    <3>4. Good(PrintChar(con, char), off + 1, buf')
      BY <2>1, <3>2, <3>3, GoodPrint
    <3>5. Good(con', off', buf')
      BY <3>1, <3>2, <3>4, GoodMark
    <3>6. QED
      BY <1>1, <2>1, <3>1, <3>2, <3>3, <3>5, ReadOn
  <2>3. CASE ~(off < MaxInput)
    <3>1. con' = ShowMark(con) /\ UNCHANGED <<buf, off>>
      BY <1>5, <2>3 DEF Key
    <3>2. Good(con', off', buf')
      BY <1>1, <2>1, <3>1, GoodMark
    <3>3. QED
      BY <1>1, <2>1, <3>1, <3>2, ReadOn
  <2>4. QED
    BY <2>2, <2>3
<1>6. CASE Backspace
  <2>1. /\ Good(con, off, buf) /\ mode = "read"
        /\ UNCHANGED <<buf, shown, mode>>
    BY <1>2, <1>6 DEF Backspace
  <2>2. CASE off > 0
    <3>1. con' = ShowMark(Stamp(Rubout(con), Blank)) /\ off' = off - 1
      BY <1>6, <2>2 DEF Backspace, Stamp, Rubout
    <3>2. off \in 1 .. MaxInput /\ off - 1 \in 0 .. MaxInput
      BY <1>1, <2>2, RoomFacts
    <3>3. Good(Rubout(con), off - 1, buf)
      BY <2>1, <3>2, GoodRubout
    <3>4. Good(Stamp(Rubout(con), Blank), off - 1, buf)
      <4>1. Rubout(con) \in Consoles /\ Neat(Rubout(con))
        BY <3>3 DEF Good
      <4>2. QED
        BY <3>2, <3>3, <4>1, GoodStamp, PromptFacts
    <3>5. Good(con', off', buf')
      BY <2>1, <3>1, <3>2, <3>4, GoodMark
    <3>6. QED
      BY <1>1, <2>1, <3>1, <3>2, <3>5, ReadOn
  <2>3. CASE ~(off > 0)
    <3>1. con' = ShowMark(con) /\ UNCHANGED off
      BY <1>6, <2>3 DEF Backspace
    <3>2. Good(con', off', buf')
      BY <1>1, <2>1, <3>1, GoodMark
    <3>3. QED
      BY <1>1, <2>1, <3>1, <3>2, ReadOn
  <2>4. QED
    BY <2>2, <2>3
<1>7. CASE Enter
  <2> DEFINE s == Stamp(con, Blank)
             d == PrintChar(s, NewLine)
  <2>1. con' = Stamp(d, Mark)
    BY <1>7 DEF Enter, ShowMark, Stamp
  <2>2. s \in Consoles /\ Neat(s) /\ Clear(s)
    BY <1>1, GoodStamp, PromptFacts
  <2> HIDE DEF s
  <2>3. d \in Consoles /\ Neat(d)
    BY <2>2, NewLineNeat
  <2> HIDE DEF d
  <2>4. con' \in Consoles /\ Neat(con')
    BY <2>1, <2>3, GoodStamp, PromptFacts
  <2>5. /\ off' = off /\ shown' = shown
        /\ mode' \in {"shell", "prompt"} /\ (mode' = "prompt" => ~(off > 0))
        /\ buf' = buf \/ buf' = [buf EXCEPT ![off] = Blank]
    BY <1>7 DEF Enter
  <2>6. buf' \in [0 .. MaxInput -> Printed] /\ (~(off > 0) => off = 0)
    BY <1>1, <2>5, PromptFacts, RoomFacts
  <2>7. QED
    BY <1>1, <2>4, <2>5, <2>6 DEF Inv, TypeOK, Consoles
<1>8. ASSUME NEW char \in Printed \cup {NewLine}, ShellPrint(char)
      PROVE  Inv'
  <2>1. con' = PrintChar(con, char) /\ mode' = "output"
        /\ UNCHANGED <<buf, off, shown>>
    BY <1>8 DEF ShellPrint
  <2>2. con' \in Consoles /\ Neat(con') /\ Clear(con')
    <3>1. CASE char = NewLine
      <4>1. Clear(con)
        BY <1>8, <3>1 DEF ShellPrint, Inv
      <4>2. QED
        BY <1>1, <2>1, <3>1, <4>1, NewLineNeat
    <3>2. CASE char \in Printed
      <4>1. char # Mark
        BY <3>2, PromptFacts
      <4>2. /\ con' \in Consoles
            /\ \A i \in Cells : con'.cells[i] # Mark
                                /\ (i >= Pos(con') => con'.cells[i] = Blank)
        BY <1>1, <2>1, <3>2, <4>1, PrintNeat
      <4>3. QED
        BY <4>2, PosFacts DEF Neat, Clear, Cells
    <3>3. QED
      BY <3>1, <3>2
  <2>3. QED
    BY <1>1, <2>1, <2>2 DEF Inv, TypeOK, Consoles
<1>9. CASE ShellClear
  <2>1. con' = Cleared /\ mode' = "output" /\ UNCHANGED <<buf, off, shown>>
    BY <1>9 DEF ShellClear
  <2>2. con' \in Consoles /\ Neat(con') /\ Clear(con')
    BY <2>1, ClearedFacts
  <2>3. QED
    BY <1>1, <2>1, <2>2 DEF Inv, TypeOK, Consoles
<1>10. CASE ShellEnd
  <2>1. con' = PrintChar(con, NewLine) /\ off' = 0 /\ mode' = "prompt"
        /\ UNCHANGED <<buf, shown>> /\ Clear(con)
    BY <1>10 DEF ShellEnd, Inv
  <2>2. con' \in Consoles /\ Neat(con')
    BY <1>1, <2>1, NewLineNeat
  <2>3. off' \in 0 .. MaxInput
    BY <2>1, RoomFacts
  <2>4. QED
    BY <1>1, <2>1, <2>2, <2>3 DEF Inv, TypeOK, Consoles
<1>11. CASE ShellHalt
  <2>1. mode' = "halted" /\ UNCHANGED <<con, buf, off, shown>>
    BY <1>11 DEF ShellHalt
  <2>2. con' \in Consoles /\ Neat(con')
    BY <1>1, <2>1
  <2>3. QED
    BY <1>1, <2>1, <2>2 DEF Inv, TypeOK, Consoles
<1>12. CASE UNCHANGED vars
  BY <1>12 DEF vars, Inv, TypeOK, Neat, Good, Line, Clear, Pos
<1>13. QED
  BY <1>3, <1>4, <1>5, <1>6, <1>7, <1>8, <1>9, <1>10, <1>11, <1>12 DEF Next

LEMMA Inductive == Spec => []Inv
<1> QED
  BY InitInv, NextInv, PTL DEF Spec

-----------------------------------------------------------------------------
(* Whatever is typed, deleted and printed, the cursor stays on the screen  *)
(* and the input in its buffer.                                            *)
THEOREM TypeCorrect == Spec => []TypeOK
<1>1. Inv => TypeOK
  BY DEF Inv
<1> QED
  BY <1>1, Inductive, PTL

(* The screen shows what the shell will get, on every screen that the      *)
(* longest input fits, across wrapped lines, scrolling and deletions.      *)
THEOREM ShowsTheLine == Spec => []LineShown
<1>1. Inv => LineShown
  BY DEF Inv, Good, Line, LineShown
<1> QED
  BY <1>1, Inductive, PTL

(* A deleted character is gone from the screen, and no cursor mark stays.  *)
THEOREM LeavesNothingBehind == Spec => []NothingBehind
<1>1. Inv => NothingBehind
  BY DEF Inv, Neat, NothingBehind
<1> QED
  BY <1>1, Inductive, PTL

=============================================================================
