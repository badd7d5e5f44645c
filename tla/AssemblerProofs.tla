-------------------------- MODULE AssemblerProofs --------------------------
(***************************************************************************)
(* What the assembler makes of a file, for all files, libraries and        *)
(* offsets that its assumptions allow.                                     *)
(*                                                                         *)
(* Final(t) is what becomes of a text of commands when all macros in it    *)
(* are replaced, round after round.  It distributes over concatenation     *)
(* (FinalConcat), so that one token can be replaced without changing the   *)
(* final text of the rest (FinalReplaced): the final text of the tokens is *)
(* AllWords in every state of the expansion, however far the libraries     *)
(* have come.                                                              *)
(*                                                                         *)
(* Before(toks, j) is how many words the tokens before j become, and so    *)
(* where token j begins.  Placed says that the places of the tokens with a *)
(* label are the starts of the lines that bear it; the first token of a    *)
(* replacement inherits the labels, and its place (ReplacedToks).  When no *)
(* macro is left the place of a token is its index, and the last token     *)
(* with a label is at the label's address (AddressIs), since lines further *)
(* down do not start earlier.                                              *)
(*                                                                         *)
(* What recursive functions compute is shown by induction over the number  *)
(* of lines, of tokens or of rounds; Induction states it for a set, as a   *)
(* consequence of the well-foundedness of the naturals.                    *)
(***************************************************************************)
EXTENDS Assembler, SequenceTheorems, WellFoundedInduction, TLAPS

-----------------------------------------------------------------------------
(* Induction, and functions by recursion on their argument.                *)

LEMMA Induction ==
  ASSUME NEW G, 0 \in G, \A m \in Nat : m \in G => m + 1 \in G
  PROVE  Nat \subseteq G
<1> DEFINE T == {k \in Nat : k \notin G}
<1> SUFFICES ASSUME T # {}
             PROVE  FALSE
  OBVIOUS
<1>1. PICK m \in T : \A k \in T : ~ (<<k, m>> \in OpToRel(<, Nat))
  <2>1. PICK c \in T : TRUE
    OBVIOUS
  <2> HIDE DEF T
  <2>2. T \subseteq Nat
    BY DEF T
  <2> QED
    BY <2>1, <2>2, NatLessThanWellFounded, WFMin
<1>2. m \in Nat /\ m \notin G /\ m # 0 /\ \A k \in T : ~ (k < m)
  BY <1>1 DEF OpToRel
<1>3. m - 1 \in Nat /\ m - 1 \in G
  <2>1. m - 1 \in Nat /\ m - 1 < m
    BY <1>2
  <2> QED
    BY <1>2, <2>1
<1> QED
  BY <1>2, <1>3

Recurs(f, k, a, F) == f[0] = a /\ \A j \in 1 .. k : f[j] = F[j][f[j - 1]]

LEMMA RecursionExists ==
  ASSUME NEW S, NEW a \in S, NEW n \in Nat, NEW F \in [1 .. n -> [S -> S]]
  PROVE  \E f \in [0 .. n -> S] : Recurs(f, n, a, F)
<1> DEFINE Upto(k, f) == Recurs(f, k, a, F)
           G == {k \in Nat : k <= n => \E f \in [0 .. k -> S] : Upto(k, f)}
<1> USE DEF Recurs
<1>1. 0 \in G
  <2> DEFINE f == [j \in 0 .. 0 |-> a]
  <2>1. f \in [0 .. 0 -> S] /\ Upto(0, f)
    OBVIOUS
  <2> QED
    BY <2>1
<1>2. ASSUME NEW k \in Nat, k \in G
      PROVE  k + 1 \in G
  <2> SUFFICES ASSUME k + 1 <= n
               PROVE  \E f \in [0 .. k + 1 -> S] : Upto(k + 1, f)
    OBVIOUS
  <2>1. PICK f \in [0 .. k -> S] : Upto(k, f)
    BY <1>2
  <2> DEFINE g == [j \in 0 .. k + 1 |-> IF j <= k THEN f[j] ELSE F[k + 1][f[k]]]
  <2>2. F[k + 1][f[k]] \in S
    <3>1. k + 1 \in 1 .. n /\ k \in 0 .. k
      OBVIOUS
    <3> QED
      BY <2>1, <3>1
  <2>3. g \in [0 .. k + 1 -> S]
    BY <2>1, <2>2
  <2>4. g[0] = a
    BY <2>1
  <2>5. ASSUME NEW j \in 1 .. k + 1
        PROVE  g[j] = F[j][g[j - 1]]
    <3>1. j \in 0 .. k + 1 /\ j - 1 \in 0 .. k + 1 /\ j - 1 <= k
      OBVIOUS
    <3>2. g[j - 1] = f[j - 1]
      BY <3>1
    <3>3. CASE j <= k
      <4>1. j \in 1 .. k
        BY <3>3
      <4> QED
        BY <2>1, <3>1, <3>2, <3>3, <4>1
    <3>4. CASE j = k + 1
      <4>1. g[j] = F[k + 1][f[k]] /\ j - 1 = k
        BY <3>1, <3>4
      <4> QED
        BY <3>2, <3>4, <4>1
    <3> QED
      BY <3>3, <3>4
  <2> QED
    BY <2>3, <2>4, <2>5
<1>3. Nat \subseteq G
  <2> HIDE DEF G
  <2> QED
    BY <1>1, <1>2, Induction
<1> QED
  BY <1>3

(* A sequence is known by its length and its elements.                     *)
LEMMA MakeSeq ==
  ASSUME NEW S, NEW n \in Nat, NEW s, s = [j \in 1 .. n |-> s[j]],
         \A j \in 1 .. n : s[j] \in S
  PROVE  s \in Seq(S) /\ Len(s) = n
<1>1. s \in [1 .. n -> S]
  OBVIOUS
<1>2. s \in Seq(S)
  BY <1>1, SeqDef
<1>3. DOMAIN s = 1 .. n /\ DOMAIN s = 1 .. Len(s) /\ Len(s) \in Nat
  BY <1>1, <1>2, LenProperties
<1> QED
  BY <1>2, <1>3

LEMMA ConcatRight ==
  \A S : \A s, t, u \in Seq(S) : s \o (t \o u) = (s \o t) \o u
BY ConcatAssociative

-----------------------------------------------------------------------------
(* FlattenSeq: one sequence after the other.                               *)
Joins(g, s) == g[0] = <<>> /\ \A j \in 1 .. Len(s) : g[j] = g[j - 1] \o s[j]

LEMMA JoinExists ==
  ASSUME NEW X, NEW s \in Seq(Seq(X))
  PROVE  \E g \in [0 .. Len(s) -> Seq(X)] : Joins(g, s)
<1> DEFINE n == Len(s)
           H == [j \in 1 .. n |-> [u \in Seq(X) |-> u \o s[j]]]
<1>1. n \in Nat /\ \A j \in 1 .. n : s[j] \in Seq(X)
  BY LenProperties, ElementOfSeq
<1>2. H \in [1 .. n -> [Seq(X) -> Seq(X)]]
  BY <1>1
<1>3. <<>> \in Seq(X)
  BY EmptySeq
<1>4. PICK g \in [0 .. n -> Seq(X)] : Recurs(g, n, <<>>, H)
  <2> HIDE DEF H, n
  <2> QED
    BY <1>1, <1>2, <1>3, RecursionExists, Zenon
<1>5. ASSUME NEW j \in 1 .. n
      PROVE  g[j] = g[j - 1] \o s[j]
  <2>0. j - 1 \in 0 .. n
    BY <1>1
  <2>1. g[j - 1] \in Seq(X)
    <3> HIDE DEF n, H
    <3> QED
      BY <1>4, <2>0
  <2>2. g[j] = H[j][g[j - 1]]
    BY <1>4 DEF Recurs
  <2> QED
    BY <2>1, <2>2
<1> QED
  BY <1>4, <1>5 DEF Joins, Recurs

(* Whatever joins s step by step ends at FlattenSeq(s).                    *)
LEMMA FlatIs ==
  ASSUME NEW X, NEW s \in Seq(Seq(X)), NEW g \in [0 .. Len(s) -> Seq(X)], Joins(g, s)
  PROVE  FlattenSeq(s) = g[Len(s)]
<1> DEFINE n == Len(s)
           Eq(f) == f = [j \in 1 .. n |-> IF j = 1 THEN s[j] ELSE f[j - 1] \o s[j]]
<1>1. n \in Nat /\ \A j \in 1 .. n : s[j] \in Seq(X)
  BY LenProperties, ElementOfSeq
<1>2. CASE n = 0
  <2>1. s = <<>>
    BY <1>2, EmptySeq
  <2>2. g[n] = <<>>
    BY <1>2 DEF Joins
  <2> QED
    BY <1>2, <2>1, <2>2 DEF FlattenSeq
<1>3. CASE n # 0
  <2> DEFINE h == [j \in 1 .. n |-> g[j]]
  <2>1. g[1] = s[1]
    <3>1. 1 \in 1 .. n /\ 1 - 1 = 0 /\ s[1] \in Seq(X)
      BY <1>1, <1>3
    <3>2. g[1] = <<>> \o s[1]
      BY <3>1 DEF Joins
    <3> QED
      BY <3>1, <3>2, ConcatEmptySeq
  <2>2. ASSUME NEW j \in 1 .. n
        PROVE  g[j] = IF j = 1 THEN s[j] ELSE h[j - 1] \o s[j]
    <3>1. CASE j = 1
      BY <2>1, <3>1
    <3>2. CASE j # 1
      <4>1. j - 1 \in 1 .. n
        BY <1>1, <3>2
      <4> QED
        BY <3>2, <4>1 DEF Joins
    <3> QED
      BY <3>1, <3>2
  <2>3. Eq(h)
    BY <2>2
  <2> DEFINE f == CHOOSE f : Eq(f)
  <2>4. Eq(f)
    <3> HIDE DEF Eq
    <3> QED
      BY <2>3
  <2>5. FlattenSeq(s) = f[n]
    BY <1>3 DEF FlattenSeq
  <2> HIDE DEF f
  <2>6. \A j \in 1 .. n : f[j] = IF j = 1 THEN s[j] ELSE f[j - 1] \o s[j]
    BY <2>4
  <2> HIDE DEF Eq, h
  <2> DEFINE G == {k \in Nat : k \in 1 .. n => f[k] = g[k]}
  <2>7. 0 \in G
    OBVIOUS
  <2>8. ASSUME NEW k \in Nat, k \in G
        PROVE  k + 1 \in G
    <3> SUFFICES ASSUME k + 1 \in 1 .. n
                 PROVE  f[k + 1] = g[k + 1]
      OBVIOUS
    <3>1. CASE k = 0
      BY <2>1, <2>6, <3>1
    <3>2. CASE k # 0
      <4>1. k \in 1 .. n /\ k + 1 # 1 /\ (k + 1) - 1 = k
        BY <1>1, <3>2
      <4>2. f[k + 1] = f[k] \o s[k + 1]
        BY <2>6, <4>1
      <4>3. g[k + 1] = g[k] \o s[k + 1]
        BY <4>1 DEF Joins
      <4> QED
        BY <2>8, <4>1, <4>2, <4>3
    <3> QED
      BY <3>1, <3>2
  <2>9. Nat \subseteq G
    <3> HIDE DEF G
    <3> QED
      BY <2>7, <2>8, Induction
  <2>10. n \in 1 .. n /\ n \in Nat
    BY <1>1, <1>3
  <2> QED
    BY <2>5, <2>9, <2>10
<1> QED
  BY <1>2, <1>3

LEMMA FlatType ==
  ASSUME NEW X, NEW s \in Seq(Seq(X))
  PROVE  FlattenSeq(s) \in Seq(X)
<1>1. PICK g \in [0 .. Len(s) -> Seq(X)] : Joins(g, s)
  BY JoinExists
<1>2. Len(s) \in 0 .. Len(s)
  BY LenProperties
<1> QED
  BY <1>1, <1>2, FlatIs

LEMMA FlatConcat ==
  ASSUME NEW X, NEW s \in Seq(Seq(X)), NEW t \in Seq(Seq(X))
  PROVE  FlattenSeq(s \o t) = FlattenSeq(s) \o FlattenSeq(t)
<1> DEFINE m == Len(s)
           n == Len(t)
<1>1. /\ m \in Nat /\ n \in Nat /\ s \o t \in Seq(Seq(X)) /\ Len(s \o t) = m + n
      /\ \A j \in 1 .. m + n : (s \o t)[j] = IF j <= m THEN s[j] ELSE t[j - m]
      /\ \A j \in 1 .. n : t[j] \in Seq(X)
  BY LenProperties, ConcatProperties, ElementOfSeq
<1>2. PICK g \in [0 .. m -> Seq(X)] : Joins(g, s)
  BY JoinExists
<1>3. PICK h \in [0 .. n -> Seq(X)] : Joins(h, t)
  BY JoinExists
<1>4. FlattenSeq(s) = g[m] /\ FlattenSeq(t) = h[n]
  BY <1>2, <1>3, FlatIs
<1> HIDE DEF m, n
<1> DEFINE gh == [j \in 0 .. m + n |-> IF j <= m THEN g[j] ELSE g[m] \o h[j - m]]
<1>5. g[m] \in Seq(X) /\ h[0] = <<>> /\ h[n] \in Seq(X) /\ g[m] \o h[0] = g[m]
  <2>1. g[m] \in Seq(X) /\ h[0] = <<>> /\ h[n] \in Seq(X)
    BY <1>1, <1>2, <1>3 DEF Joins
  <2> QED
    BY <2>1, ConcatEmptySeq
<1>6. gh \in [0 .. m + n -> Seq(X)]
  <2> SUFFICES ASSUME NEW j \in 0 .. m + n
               PROVE  gh[j] \in Seq(X)
    OBVIOUS
  <2>1. CASE j <= m
    BY <1>1, <1>2, <2>1
  <2>2. CASE ~ (j <= m)
    <3>1. j - m \in 0 .. n
      BY <1>1, <2>2
    <3>2. h[j - m] \in Seq(X)
      BY <1>3, <3>1
    <3> QED
      BY <1>5, <2>2, <3>2, ConcatProperties
  <2> QED
    BY <2>1, <2>2
<1>7. gh[0] = <<>>
  BY <1>1, <1>2 DEF Joins
<1>8. ASSUME NEW j \in 1 .. m + n
      PROVE  gh[j] = gh[j - 1] \o (s \o t)[j]
  <2>0. j \in 0 .. m + n /\ j - 1 \in 0 .. m + n
    BY <1>1
  <2>1. CASE j <= m
    <3>1. j \in 1 .. m /\ j - 1 <= m
      BY <1>1, <2>1
    <3>2. gh[j] = g[j] /\ gh[j - 1] = g[j - 1]
      BY <2>0, <3>1
    <3>3. g[j] = g[j - 1] \o s[j]
      BY <1>2, <3>1 DEF Joins, m
    <3>4. (s \o t)[j] = s[j]
      <4> HIDE DEF gh
      <4> QED
        BY <1>1, <2>1
    <3> QED
      BY <3>2, <3>3, <3>4
  <2>2. CASE ~ (j <= m)
    <3> DEFINE k == j - m
    <3>1. k \in 1 .. n /\ k - 1 \in 0 .. n /\ (j - 1) - m = k - 1
      BY <1>1, <2>2
    <3>2. gh[j] = g[m] \o h[k]
      BY <2>0, <2>2
    <3>3. gh[j - 1] = g[m] \o h[k - 1]
      <4>1. CASE j - 1 <= m
        <5>1. j - 1 = m /\ k - 1 = 0
          BY <1>1, <2>2, <4>1
        <5>2. gh[j - 1] = g[m] /\ h[k - 1] = h[0]
          BY <2>0, <5>1
        <5> QED
          BY <1>5, <5>2, Zenon
      <4>2. CASE ~ (j - 1 <= m)
        BY <2>0, <3>1, <4>2
      <4> QED
        BY <4>1, <4>2
    <3> HIDE DEF k
    <3>4. h[k] = h[k - 1] \o t[k]
      BY <1>3, <3>1 DEF Joins, n
    <3>5. (s \o t)[j] = t[k]
      BY <1>1, <2>2 DEF k
    <3>6. h[k - 1] \in Seq(X) /\ t[k] \in Seq(X)
      BY <1>1, <1>3, <3>1
    <3>7. g[m] \in Seq(X)
      BY <1>5
    <3> HIDE DEF gh
    <3>8. g[m] \o (h[k - 1] \o t[k]) = (g[m] \o h[k - 1]) \o t[k]
      <4> DEFINE a == g[m]
                 b == h[k - 1]
                 c == t[k]
      <4>1. a \in Seq(X) /\ b \in Seq(X) /\ c \in Seq(X)
        BY <3>6, <3>7
      <4> HIDE DEF a, b, c
      <4>2. a \o (b \o c) = (a \o b) \o c
        BY <4>1, ConcatRight, SMTT(60)
      <4> QED
        BY <4>2 DEF a, b, c
    <3> QED
      BY <3>2, <3>3, <3>4, <3>5, <3>8
  <2> QED
    BY <2>1, <2>2
<1>9. gh[m + n] = g[m] \o h[n]
  <2>1. m + n \in 0 .. m + n
    BY <1>1
  <2>2. CASE n = 0
    BY <1>1, <1>5, <2>1, <2>2, SMTT(60)
  <2>3. CASE n # 0
    <3>1. ~ (m + n <= m) /\ (m + n) - m = n
      BY <1>1, <2>3
    <3> QED
      BY <2>1, <3>1
  <2> QED
    BY <2>2, <2>3
<1>10. Joins(gh, s \o t)
  <2> HIDE DEF gh
  <2> QED
    BY <1>1, <1>7, <1>8 DEF Joins
<1>11. FlattenSeq(s \o t) = gh[m + n]
  <2> HIDE DEF gh
  <2> QED
    BY <1>1, <1>6, <1>10, FlatIs
<1> QED
  BY <1>4, <1>9, <1>11

LEMMA FlatEmpty == FlattenSeq(<<>>) = <<>>
  BY EmptySeq DEF FlattenSeq

LEMMA FlatOne ==
  ASSUME NEW X, NEW w \in Seq(X)
  PROVE  FlattenSeq(<<w>>) = w
<1> DEFINE s == <<w>>
           g == [j \in 0 .. 1 |-> IF j = 0 THEN <<>> ELSE w]
<1>1. s \in Seq(Seq(X)) /\ Len(s) = 1 /\ s[1] = w
  OBVIOUS
<1>2. g \in [0 .. 1 -> Seq(X)]
  OBVIOUS
<1>3. Joins(g, s)
  <2>1. ASSUME NEW j \in 1 .. 1
        PROVE  g[j] = g[j - 1] \o s[j]
    <3>1. j = 1 /\ j - 1 = 0 /\ g[1] = w /\ g[0] = <<>>
      OBVIOUS
    <3>2. <<>> \o w = w
      BY ConcatEmptySeq
    <3> QED
      BY <1>1, <3>1, <3>2
  <2>2. g[0] = <<>>
    OBVIOUS
  <2> HIDE DEF g
  <2> QED
    BY <1>1, <2>1, <2>2 DEF Joins
<1>4. g[1] = w
  OBVIOUS
<1> HIDE DEF s, g
<1>5. FlattenSeq(s) = g[1]
  BY <1>1, <1>2, <1>3, FlatIs
<1> QED
  BY <1>4, <1>5 DEF s

(* Flattening a sequence of single elements gives the elements.            *)
LEMMA FlatSingles ==
  ASSUME NEW X, NEW v \in Seq(X), NEW s \in Seq(Seq(X)), Len(s) = Len(v),
         \A j \in 1 .. Len(v) : s[j] = <<v[j]>>
  PROVE  FlattenSeq(s) = v
<1> DEFINE n == Len(v)
           g == [j \in 0 .. n |-> SubSeq(v, 1, j)]
<1>1. n \in Nat /\ \A j \in 1 .. n : v[j] \in X
  BY LenProperties, ElementOfSeq
<1>2. \A j \in 0 .. n : SubSeq(v, 1, j) \in Seq(X)
  BY <1>1, SubSeqProperties
<1>3. g \in [0 .. n -> Seq(X)]
  BY <1>2
<1>4. g[0] = <<>>
  BY <1>1, SubSeqEmpty
<1>5. ASSUME NEW j \in 1 .. n
      PROVE  g[j] = g[j - 1] \o s[j]
  <2>1. 1 \in 1 .. Len(v) /\ j \in 1 .. Len(v)
    BY <1>1
  <2>2. SubSeq(v, 1, j) = SubSeq(v, 1, j - 1) \o <<v[j]>>
    BY <2>1, SubSeqRecursiveSecond
  <2>3. j \in 0 .. n /\ j - 1 \in 0 .. n
    BY <1>1
  <2> QED
    BY <2>2, <2>3
<1>6. g[n] = v
  BY <1>1, SubSeqFull
<1> HIDE DEF g
<1>7. Joins(g, s)
  BY <1>4, <1>5 DEF Joins
<1> QED
  BY <1>3, <1>6, <1>7, FlatIs

-----------------------------------------------------------------------------
(* Commands and macros.                                                    *)
Cmd == {c \in [name : Names, args : Seq(Operand)] : Served(c.name, c.args)}

MacroFree(t) == \A k \in DOMAIN t : MacroLibs(t[k].name) = {}

IsMacro(name) == MacroLibs(name) # {}

LEMMA EntryIs ==
  ASSUME NEW name, NEW n \in MacroLibs(name)
  PROVE  /\ MacroLibs(name) = {n} /\ Entry(name) = Libs[n][name]
         /\ Entry(name) \in Seq(EntryLine) /\ Len(Entry(name)) > 0
         /\ \A k \in DOMAIN Entry(name) : LineOK(Entry(name)[k])
<1>1. n \in DOMAIN Libs /\ name \in DOMAIN Libs[n]
  BY DEF MacroLibs
<1>2. /\ MacroLibs(name) = {n} /\ Libs[n][name] \in Seq(EntryLine)
      /\ Len(Libs[n][name]) > 0
      /\ \A k \in DOMAIN Libs[n][name] : LineOK(Libs[n][name][k])
  BY <1>1, LibsAssumption DEF LibsOK
<1>3. (CHOOSE m \in MacroLibs(name) : TRUE) = n
  BY <1>2
<1>4. Entry(name) = Libs[n][name]
  BY <1>3 DEF Entry
<1> QED
  BY <1>2, <1>4

LEMMA ServedByDomain ==
  ASSUME NEW name, NEW a, NEW b, DOMAIN a = DOMAIN b, Served(name, a)
  PROVE  Served(name, b)
BY DEF Served

(* The operands of a line of a macro are operands once they are put in.    *)
LEMMA WithArgsType ==
  ASSUME NEW c \in Cmd, NEW n \in MacroLibs(c.name), NEW k \in DOMAIN Libs[n][c.name]
  PROVE  LET l == Libs[n][c.name][k]
         IN /\ l \in EntryLine
            /\ WithArgs(l, c.args) \in Seq(Operand)
            /\ Len(WithArgs(l, c.args)) = Len(l.args)
            /\ DOMAIN WithArgs(l, c.args) = DOMAIN l.args
            /\ Served(l.name, WithArgs(l, c.args))
<1> DEFINE l == Libs[n][c.name][k]
           x == WithArgs(l, c.args)
<1>1. Entry(c.name) = Libs[n][c.name] /\ Entry(c.name) \in Seq(EntryLine) /\ LineOK(l)
  BY EntryIs
<1>2. l \in EntryLine
  BY <1>1, LenProperties, ElementOfSeq
<1>3. l.args \in Seq(Operand \cup ({"param"} \X Nat))
  BY <1>2 DEF EntryLine
<1>4. /\ DOMAIN l.args = 1 .. Len(l.args) /\ Len(l.args) \in Nat
      /\ \A a \in DOMAIN l.args : l.args[a] \in Operand \cup ({"param"} \X Nat)
  BY <1>3, LenProperties, ElementOfSeq
<1>5. c.args \in Seq(Operand) /\ Served(c.name, c.args)
  BY DEF Cmd
<1>6. \A a \in DOMAIN c.args : c.args[a] \in Operand
  BY <1>5, LenProperties, ElementOfSeq
<1>7. ASSUME NEW a \in DOMAIN l.args
      PROVE  Filled(l.args[a], c.args) \in Operand
  <2> DEFINE y == l.args[a]
  <2>1. y \in Operand \cup ({"param"} \X Nat)
    BY <1>4
  <2>2. y[1] = "param" => y[2] \in DOMAIN c.args
    BY <1>5 DEF Served
  <2> HIDE DEF y
  <2>3. CASE y[1] = "param"
    BY <1>6, <2>2, <2>3 DEF Filled, y
  <2>4. CASE y[1] # "param"
    BY <2>1, <2>4 DEF Filled, y
  <2> QED
    BY <2>3, <2>4
<1>8. x = [a \in 1 .. Len(l.args) |-> Filled(l.args[a], c.args)]
  BY <1>4 DEF WithArgs
<1>9. x \in Seq(Operand) /\ Len(x) = Len(l.args)
  <2> DEFINE m == Len(l.args)
  <2>1. x = [a \in 1 .. m |-> x[a]] /\ \A a \in 1 .. m : x[a] \in Operand
    BY <1>4, <1>7, <1>8, ZenonT(60)
  <2>2. m \in Nat
    BY <1>4
  <2> HIDE DEF x, m
  <2>3. x \in Seq(Operand) /\ Len(x) = m
    BY <2>1, <2>2, MakeSeq
  <2> QED
    BY <2>3 DEF m
<1>10. DOMAIN x = DOMAIN l.args
  BY DEF WithArgs
<1>11. Served(l.name, x)
  <2>1. Served(l.name, l.args)
    BY <1>1 DEF LineOK
  <2> HIDE DEF x, l
  <2> QED
    BY <1>10, <2>1, ServedByDomain
<1> QED
  BY <1>2, <1>9, <1>10, <1>11

LEMMA UnfoldedIs ==
  ASSUME NEW c \in Cmd, NEW n \in MacroLibs(c.name)
  PROVE  LET e == Libs[n][c.name]
         IN Unfolded(c) = [k \in DOMAIN e |->
                             [name |-> e[k].name, args |-> WithArgs(e[k], c.args)]]
<1>1. Entry(c.name) = Libs[n][c.name]
  BY EntryIs
<1>2. MacroLibs(c.name) # {}
  OBVIOUS
<1> QED
  BY <1>1, <1>2 DEF Unfolded

LEMMA UnfoldedType ==
  ASSUME NEW c \in Cmd
  PROVE  /\ Unfolded(c) \in Seq(Cmd)
         /\ MacroLibs(c.name) = {} => Unfolded(c) = <<c>>
<1>1. CASE MacroLibs(c.name) = {}
  <2>1. Unfolded(c) = <<c>>
    BY <1>1 DEF Unfolded
  <2> QED
    BY <2>1
<1>2. CASE MacroLibs(c.name) # {}
  <2>1. PICK n \in MacroLibs(c.name) : TRUE
    BY <1>2
  <2> DEFINE e == Libs[n][c.name]
             u == Unfolded(c)
             m == Len(e)
  <2>2. e \in Seq(EntryLine)
    BY EntryIs
  <2>3. m \in Nat /\ DOMAIN e = 1 .. m
    BY <2>2, LenProperties
  <2>4. u = [k \in DOMAIN e |->
               [name |-> e[k].name, args |-> WithArgs(e[k], c.args)]]
    BY UnfoldedIs
  <2>5. ASSUME NEW k \in 1 .. m
        PROVE  u[k] \in Cmd
    <3>1. k \in DOMAIN e
      BY <2>3
    <3>2. /\ e[k] \in EntryLine /\ WithArgs(e[k], c.args) \in Seq(Operand)
          /\ Served(e[k].name, WithArgs(e[k], c.args))
      BY <3>1, WithArgsType
    <3>3. u[k] = [name |-> e[k].name, args |-> WithArgs(e[k], c.args)]
      BY <2>4, <3>1
    <3>4. e[k].name \in Names
      BY <3>2 DEF EntryLine
    <3> HIDE DEF u, e
    <3>5. u[k] \in [name : Names, args : Seq(Operand)] /\ Served(u[k].name, u[k].args)
      BY <3>2, <3>3, <3>4
    <3> QED
      BY <3>5 DEF Cmd
  <2>6. u = [k \in 1 .. m |-> u[k]]
    BY <2>3, <2>4
  <2> HIDE DEF u, m
  <2>7. u \in Seq(Cmd)
    BY <2>3, <2>5, <2>6, MakeSeq
  <2> QED
    BY <1>2, <2>7 DEF u
<1> QED
  BY <1>1, <1>2

(* One round replaces every macro of a text by the commands of its entry.  *)
Pieces(t) == [k \in DOMAIN t |-> Unfolded(t[k])]

LEMMA PiecesType ==
  ASSUME NEW t \in Seq(Cmd)
  PROVE  Pieces(t) \in Seq(Seq(Cmd)) /\ Len(Pieces(t)) = Len(t)
<1> DEFINE m == Len(t)
           p == Pieces(t)
<1>1. m \in Nat /\ DOMAIN t = 1 .. m /\ \A k \in 1 .. m : t[k] \in Cmd
  BY LenProperties, ElementOfSeq
<1>2. p = [k \in 1 .. m |-> p[k]] /\ \A k \in 1 .. m : p[k] = Unfolded(t[k])
  BY <1>1 DEF Pieces
<1>3. \A k \in 1 .. m : p[k] \in Seq(Cmd)
  BY <1>1, <1>2, UnfoldedType
<1> HIDE DEF p, m
<1>4. p \in Seq(Seq(Cmd)) /\ Len(p) = m
  BY <1>1, <1>2, <1>3, MakeSeq
<1> QED
  BY <1>4 DEF p, m

LEMMA UnfoldType ==
  ASSUME NEW t \in Seq(Cmd)
  PROVE  Unfold(t) \in Seq(Cmd)
<1>1. Unfold(t) = FlattenSeq(Pieces(t))
  BY DEF Unfold, Pieces
<1> QED
  BY <1>1, PiecesType, FlatType

LEMMA PiecesConcat ==
  ASSUME NEW s \in Seq(Cmd), NEW t \in Seq(Cmd)
  PROVE  Pieces(s \o t) = Pieces(s) \o Pieces(t)
<1> DEFINE m == Len(s)
           n == Len(t)
           p == Pieces(s \o t)
           q == Pieces(s) \o Pieces(t)
<1>1. /\ m \in Nat /\ n \in Nat /\ s \o t \in Seq(Cmd) /\ Len(s \o t) = m + n
      /\ DOMAIN s = 1 .. m /\ DOMAIN t = 1 .. n /\ DOMAIN (s \o t) = 1 .. m + n
      /\ \A j \in 1 .. m + n : (s \o t)[j] = IF j <= m THEN s[j] ELSE t[j - m]
  BY LenProperties, ConcatProperties
<1>2. /\ Pieces(s) \in Seq(Seq(Cmd)) /\ Len(Pieces(s)) = m
      /\ Pieces(t) \in Seq(Seq(Cmd)) /\ Len(Pieces(t)) = n
      /\ p \in Seq(Seq(Cmd)) /\ Len(p) = m + n
  BY <1>1, PiecesType
<1>3. /\ q \in Seq(Seq(Cmd)) /\ Len(q) = m + n
      /\ \A j \in 1 .. m + n : q[j] = IF j <= m THEN Pieces(s)[j] ELSE Pieces(t)[j - m]
  <2> DEFINE x == Pieces(s)
             y == Pieces(t)
  <2>1. x \in Seq(Seq(Cmd)) /\ Len(x) = m /\ y \in Seq(Seq(Cmd)) /\ Len(y) = n
    BY <1>2
  <2> HIDE DEF x, y, m, n
  <2>2. /\ x \o y \in Seq(Seq(Cmd)) /\ Len(x \o y) = m + n
        /\ \A j \in 1 .. m + n : (x \o y)[j] = IF j <= m THEN x[j] ELSE y[j - m]
    BY <2>1, ConcatProperties
  <2> QED
    BY <2>2 DEF x, y
<1>4. ASSUME NEW j \in 1 .. m + n
      PROVE  p[j] = q[j]
  <2>1. p[j] = Unfolded((s \o t)[j])
    BY <1>1 DEF Pieces
  <2>2. CASE j <= m
    <3>1. j \in DOMAIN s
      BY <1>1, <2>2
    <3>2. (s \o t)[j] = s[j] /\ q[j] = Pieces(s)[j]
      <4> HIDE DEF q, m, n
      <4> QED
        BY <1>1, <1>3, <2>2
    <3> QED
      BY <2>1, <3>1, <3>2 DEF Pieces
  <2>3. CASE ~ (j <= m)
    <3>1. j - m \in DOMAIN t
      BY <1>1, <2>3
    <3>2. (s \o t)[j] = t[j - m] /\ q[j] = Pieces(t)[j - m]
      <4> HIDE DEF q, m, n
      <4> QED
        BY <1>1, <1>3, <2>3
    <3> QED
      BY <2>1, <3>1, <3>2 DEF Pieces
  <2> QED
    BY <2>2, <2>3
<1> HIDE DEF p, q, m, n
<1>5. p = q
  BY <1>2, <1>3, <1>4, SeqEqual
<1> QED
  BY <1>5 DEF p, q

LEMMA UnfoldConcat ==
  ASSUME NEW s \in Seq(Cmd), NEW t \in Seq(Cmd)
  PROVE  Unfold(s \o t) = Unfold(s) \o Unfold(t)
<1>1. Pieces(s) \in Seq(Seq(Cmd)) /\ Pieces(t) \in Seq(Seq(Cmd))
  BY PiecesType
<1>2. FlattenSeq(Pieces(s) \o Pieces(t)) = FlattenSeq(Pieces(s)) \o FlattenSeq(Pieces(t))
  BY <1>1, FlatConcat
<1>3. Pieces(s \o t) = Pieces(s) \o Pieces(t)
  BY PiecesConcat
<1>4. \A u : Unfold(u) = FlattenSeq(Pieces(u))
  BY DEF Unfold, Pieces
<1> QED
  BY <1>2, <1>3, <1>4

LEMMA UnfoldOne ==
  ASSUME NEW c \in Cmd
  PROVE  Unfold(<<c>>) = Unfolded(c)
<1>1. Pieces(<<c>>) = <<Unfolded(c)>>
  BY DEF Pieces
<1>2. Unfold(<<c>>) = FlattenSeq(<<Unfolded(c)>>)
  BY <1>1 DEF Unfold, Pieces
<1> QED
  BY <1>2, UnfoldedType, FlatOne

(* A text without macros stays as it is.                                   *)
LEMMA UnfoldFree ==
  ASSUME NEW t \in Seq(Cmd), MacroFree(t)
  PROVE  Unfold(t) = t
<1>1. Len(t) \in Nat /\ DOMAIN t = 1 .. Len(t) /\ \A k \in 1 .. Len(t) : t[k] \in Cmd
  BY LenProperties, ElementOfSeq
<1>2. ASSUME NEW k \in 1 .. Len(t)
      PROVE  Pieces(t)[k] = <<t[k]>>
  <2>1. Pieces(t)[k] = Unfolded(t[k])
    BY <1>1 DEF Pieces
  <2>2. t[k] \in Cmd /\ MacroLibs(t[k].name) = {}
    BY <1>1 DEF MacroFree
  <2> QED
    BY <2>1, <2>2, UnfoldedType
<1>3. Pieces(t) \in Seq(Seq(Cmd)) /\ Len(Pieces(t)) = Len(t)
  BY PiecesType
<1>4. FlattenSeq(Pieces(t)) = t
  BY <1>2, <1>3, FlatSingles
<1> QED
  BY <1>4 DEF Unfold, Pieces

-----------------------------------------------------------------------------
(* Round after round.                                                      *)
IsRounds(g, t) == g[0] = t /\ \A j \in 1 .. Depth : g[j] = Unfold(g[j - 1])

LEMMA DepthNat == Depth \in Nat
  BY WordsAssumption DEF WordsOK

LEMMA RoundsIs ==
  ASSUME NEW t \in Seq(Cmd)
  PROVE  Rounds(t) \in [0 .. Depth -> Seq(Cmd)] /\ IsRounds(Rounds(t), t)
<1> DEFINE U == [u \in Seq(Cmd) |-> Unfold(u)]
           H == [j \in 1 .. Depth |-> U]
           Eq(f) == f = [n \in 0 .. Depth |-> IF n = 0 THEN t ELSE Unfold(f[n - 1])]
<1>1. U \in [Seq(Cmd) -> Seq(Cmd)]
  BY UnfoldType
<1>2. H \in [1 .. Depth -> [Seq(Cmd) -> Seq(Cmd)]]
  <2> HIDE DEF U
  <2> QED
    BY <1>1
<1>3. PICK g \in [0 .. Depth -> Seq(Cmd)] : Recurs(g, Depth, t, H)
  <2> HIDE DEF H
  <2> QED
    BY <1>2, DepthNat, RecursionExists
<1>4. ASSUME NEW j \in 1 .. Depth
      PROVE  g[j] = Unfold(g[j - 1])
  <2>1. j - 1 \in 0 .. Depth
    BY DepthNat
  <2>2. g[j - 1] \in Seq(Cmd)
    BY <1>3, <2>1
  <2>3. g[j] = H[j][g[j - 1]]
    BY <1>3 DEF Recurs
  <2> QED
    BY <2>2, <2>3
<1>5. g[0] = t
  BY <1>3 DEF Recurs
<1>6. Eq(g)
  <2>1. ASSUME NEW n \in 0 .. Depth
        PROVE  g[n] = IF n = 0 THEN t ELSE Unfold(g[n - 1])
    <3>1. n = 0 \/ n \in 1 .. Depth
      BY DepthNat
    <3> QED
      BY <1>4, <1>5, <3>1
  <2> QED
    BY <1>3, <2>1
<1>7. Eq(Rounds(t))
  <2>1. Rounds(t) = CHOOSE f : Eq(f)
    BY DEF Rounds
  <2> HIDE DEF Eq
  <2> QED
    BY <1>6, <2>1
<1>8. /\ DOMAIN Rounds(t) = 0 .. Depth
      /\ \A n \in 0 .. Depth : Rounds(t)[n] = IF n = 0 THEN t ELSE Unfold(Rounds(t)[n - 1])
      /\ Rounds(t) = [n \in 0 .. Depth |-> Rounds(t)[n]]
  BY <1>7
<1> HIDE DEF Eq
<1>9. IsRounds(Rounds(t), t)
  <2>1. 0 \in 0 .. Depth /\ \A j \in 1 .. Depth : j \in 0 .. Depth /\ j # 0
    BY DepthNat
  <2> QED
    BY <1>8, <2>1 DEF IsRounds
<1> DEFINE G == {n \in Nat : n <= Depth => Rounds(t)[n] \in Seq(Cmd)}
<1>10. 0 \in G
  BY <1>9 DEF IsRounds
<1>11. ASSUME NEW n \in Nat, n \in G
       PROVE  n + 1 \in G
  <2> SUFFICES ASSUME n + 1 <= Depth
               PROVE  Rounds(t)[n + 1] \in Seq(Cmd)
    OBVIOUS
  <2>1. n + 1 \in 1 .. Depth /\ (n + 1) - 1 = n /\ n <= Depth
    BY DepthNat
  <2>2. Rounds(t)[n + 1] = Unfold(Rounds(t)[n])
    BY <1>9, <2>1 DEF IsRounds
  <2>3. Rounds(t)[n] \in Seq(Cmd)
    BY <1>11, <2>1
  <2> QED
    BY <2>2, <2>3, UnfoldType
<1>12. Nat \subseteq G
  <2> HIDE DEF G
  <2> QED
    BY <1>10, <1>11, Induction
<1>13. \A n \in 0 .. Depth : Rounds(t)[n] \in Seq(Cmd)
  BY <1>12, DepthNat
<1> QED
  BY <1>8, <1>9, <1>13

LEMMA RoundsUnique ==
  ASSUME NEW t \in Seq(Cmd), NEW g, IsRounds(g, t)
  PROVE  \A n \in 0 .. Depth : g[n] = Rounds(t)[n]
<1>1. IsRounds(Rounds(t), t)
  BY RoundsIs
<1> DEFINE G == {n \in Nat : n <= Depth => g[n] = Rounds(t)[n]}
<1>2. 0 \in G
  BY <1>1 DEF IsRounds
<1>3. ASSUME NEW n \in Nat, n \in G
      PROVE  n + 1 \in G
  <2> SUFFICES ASSUME n + 1 <= Depth
               PROVE  g[n + 1] = Rounds(t)[n + 1]
    OBVIOUS
  <2>1. n + 1 \in 1 .. Depth /\ (n + 1) - 1 = n /\ n <= Depth
    BY DepthNat
  <2>2. g[n] = Rounds(t)[n]
    BY <1>3, <2>1
  <2>3. g[n + 1] = Unfold(g[n]) /\ Rounds(t)[n + 1] = Unfold(Rounds(t)[n])
    BY <1>1, <2>1 DEF IsRounds
  <2> QED
    BY <2>2, <2>3
<1>4. Nat \subseteq G
  <2> HIDE DEF G
  <2> QED
    BY <1>2, <1>3, Induction
<1> QED
  BY <1>4, DepthNat

LEMMA RoundsConcat ==
  ASSUME NEW s \in Seq(Cmd), NEW t \in Seq(Cmd)
  PROVE  \A n \in 0 .. Depth : Rounds(s \o t)[n] = Rounds(s)[n] \o Rounds(t)[n]
<1> DEFINE g == [n \in 0 .. Depth |-> Rounds(s)[n] \o Rounds(t)[n]]
<1>1. /\ Rounds(s) \in [0 .. Depth -> Seq(Cmd)] /\ IsRounds(Rounds(s), s)
      /\ Rounds(t) \in [0 .. Depth -> Seq(Cmd)] /\ IsRounds(Rounds(t), t)
      /\ s \o t \in Seq(Cmd)
  BY RoundsIs, ConcatProperties
<1>2. g[0] = s \o t
  BY <1>1, DepthNat DEF IsRounds
<1>3. ASSUME NEW j \in 1 .. Depth
      PROVE  g[j] = Unfold(g[j - 1])
  <2>1. j \in 0 .. Depth /\ j - 1 \in 0 .. Depth
    BY DepthNat
  <2>2. Rounds(s)[j] = Unfold(Rounds(s)[j - 1]) /\ Rounds(t)[j] = Unfold(Rounds(t)[j - 1])
    BY <1>1 DEF IsRounds
  <2>3. Rounds(s)[j - 1] \in Seq(Cmd) /\ Rounds(t)[j - 1] \in Seq(Cmd)
    BY <1>1, <2>1
  <2>4. Unfold(Rounds(s)[j - 1] \o Rounds(t)[j - 1])
          = Unfold(Rounds(s)[j - 1]) \o Unfold(Rounds(t)[j - 1])
    BY <2>3, UnfoldConcat
  <2>5. g[j] = Rounds(s)[j] \o Rounds(t)[j] /\ g[j - 1] = Rounds(s)[j - 1] \o Rounds(t)[j - 1]
    BY <2>1
  <2> QED
    BY <2>2, <2>4, <2>5
<1>4. \A n \in 0 .. Depth : g[n] = Rounds(s)[n] \o Rounds(t)[n]
  OBVIOUS
<1> HIDE DEF g
<1>5. IsRounds(g, s \o t)
  BY <1>2, <1>3 DEF IsRounds
<1>6. \A n \in 0 .. Depth : g[n] = Rounds(s \o t)[n]
  BY <1>1, <1>5, RoundsUnique
<1> QED
  BY <1>4, <1>6

(* One round first, and the others then.                                   *)
LEMMA RoundsShift ==
  ASSUME NEW t \in Seq(Cmd)
  PROVE  \A n \in 1 .. Depth : Rounds(t)[n] = Rounds(Unfold(t))[n - 1]
<1> DEFINE g == [n \in 0 .. Depth |-> IF n = 0 THEN t ELSE Rounds(Unfold(t))[n - 1]]
<1>1. Unfold(t) \in Seq(Cmd)
  BY UnfoldType
<1>2. IsRounds(Rounds(Unfold(t)), Unfold(t))
  BY <1>1, RoundsIs
<1>3. g[0] = t
  BY DepthNat
<1>4. ASSUME NEW j \in 1 .. Depth
      PROVE  g[j] = Unfold(g[j - 1])
  <2>1. j \in 0 .. Depth /\ j # 0 /\ j - 1 \in 0 .. Depth
    BY DepthNat
  <2>2. g[j] = Rounds(Unfold(t))[j - 1]
    BY <2>1
  <2>3. CASE j = 1
    <3>1. j - 1 = 0
      BY <2>3
    <3> QED
      BY <1>2, <1>3, <2>2, <3>1 DEF IsRounds
  <2>4. CASE j # 1
    <3>1. j - 1 \in 1 .. Depth /\ j - 1 # 0
      BY <2>4, DepthNat
    <3>2. g[j - 1] = Rounds(Unfold(t))[(j - 1) - 1]
      BY <2>1, <3>1
    <3>3. Rounds(Unfold(t))[j - 1] = Unfold(Rounds(Unfold(t))[(j - 1) - 1])
      BY <1>2, <3>1 DEF IsRounds
    <3> QED
      BY <2>2, <3>2, <3>3
  <2> QED
    BY <2>3, <2>4
<1>5. \A n \in 1 .. Depth : g[n] = Rounds(Unfold(t))[n - 1]
  BY DepthNat
<1> HIDE DEF g
<1>6. IsRounds(g, t)
  BY <1>3, <1>4 DEF IsRounds
<1>7. \A n \in 0 .. Depth : g[n] = Rounds(t)[n]
  BY <1>6, RoundsUnique
<1>8. \A n \in 1 .. Depth : n \in 0 .. Depth
  BY DepthNat
<1> QED
  BY <1>5, <1>7, <1>8

LEMMA RoundsFree ==
  ASSUME NEW t \in Seq(Cmd), MacroFree(t)
  PROVE  \A n \in 0 .. Depth : Rounds(t)[n] = t
<1> DEFINE g == [n \in 0 .. Depth |-> t]
<1>1. Unfold(t) = t
  BY UnfoldFree
<1>2. ASSUME NEW j \in 1 .. Depth
      PROVE  g[j] = Unfold(g[j - 1])
  <2>1. j \in 0 .. Depth /\ j - 1 \in 0 .. Depth
    BY DepthNat
  <2> QED
    BY <1>1, <2>1
<1>3. g[0] = t /\ \A n \in 0 .. Depth : g[n] = t
  BY DepthNat
<1> HIDE DEF g
<1>4. IsRounds(g, t)
  BY <1>2, <1>3 DEF IsRounds
<1>5. \A n \in 0 .. Depth : g[n] = Rounds(t)[n]
  BY <1>4, RoundsUnique
<1> QED
  BY <1>3, <1>5

(* What is left of a text after all rounds.                                *)
Final(t) == Rounds(t)[Depth]

LEMMA FinalType ==
  ASSUME NEW t \in Seq(Cmd)
  PROVE  Final(t) \in Seq(Cmd)
BY RoundsIs, DepthNat DEF Final

LEMMA FinalConcat ==
  ASSUME NEW s \in Seq(Cmd), NEW t \in Seq(Cmd)
  PROVE  Final(s \o t) = Final(s) \o Final(t)
<1>1. Depth \in 0 .. Depth
  BY DepthNat
<1>2. Rounds(s \o t)[Depth] = Rounds(s)[Depth] \o Rounds(t)[Depth]
  BY <1>1, RoundsConcat
<1> QED
  BY <1>2 DEF Final

LEMMA FinalFree ==
  ASSUME NEW t \in Seq(Cmd), MacroFree(t)
  PROVE  Final(t) = t
BY RoundsFree, DepthNat DEF Final

(* Putting a macro's entry in its place changes nothing about what is left *)
(* in the end, if no macro is.                                             *)
LEMMA FinalUnfolded ==
  ASSUME NEW c \in Cmd, MacroFree(Final(<<c>>))
  PROVE  Final(Unfolded(c)) = Final(<<c>>)
<1>1. Unfolded(c) \in Seq(Cmd) /\ <<c>> \in Seq(Cmd) /\ Unfold(<<c>>) = Unfolded(c)
  BY UnfoldedType, UnfoldOne
<1>2. CASE Depth = 0
  <2>1. Final(<<c>>) = <<c>>
    BY <1>1, <1>2, RoundsIs DEF Final, IsRounds
  <2>2. MacroLibs(c.name) = {}
    BY <2>1 DEF MacroFree
  <2> QED
    BY <2>2, UnfoldedType
<1>3. CASE Depth # 0
  <2>1. Depth \in 1 .. Depth /\ Depth - 1 \in 0 .. Depth
    BY <1>3, DepthNat
  <2> DEFINE r == Rounds(Unfolded(c))[Depth - 1]
  <2>2. Final(<<c>>) = r
    BY <1>1, <2>1, RoundsShift DEF Final
  <2>3. r \in Seq(Cmd) /\ Final(Unfolded(c)) = Unfold(r)
    BY <1>1, <2>1, RoundsIs DEF Final, IsRounds
  <2> HIDE DEF r
  <2>4. Unfold(r) = r
    BY <2>2, <2>3, UnfoldFree
  <2> QED
    BY <2>2, <2>3, <2>4
<1> QED
  BY <1>2, <1>3

LEMMA FreeConcat ==
  ASSUME NEW s \in Seq(Cmd), NEW t \in Seq(Cmd)
  PROVE  MacroFree(s \o t) <=> MacroFree(s) /\ MacroFree(t)
<1> DEFINE m == Len(s)
           n == Len(t)
<1>1. /\ m \in Nat /\ n \in Nat /\ DOMAIN s = 1 .. m /\ DOMAIN t = 1 .. n
      /\ DOMAIN (s \o t) = 1 .. m + n
      /\ \A j \in 1 .. m + n : (s \o t)[j] = IF j <= m THEN s[j] ELSE t[j - m]
  BY LenProperties, ConcatProperties
<1> HIDE DEF m, n
<1>2. ASSUME MacroFree(s \o t)
      PROVE  MacroFree(s) /\ MacroFree(t)
  <2>1. ASSUME NEW j \in 1 .. m
        PROVE  MacroLibs(s[j].name) = {}
    <3>1. j \in 1 .. m + n /\ j <= m
      BY <1>1
    <3>2. (s \o t)[j] = s[j]
      BY <1>1, <3>1
    <3> QED
      BY <1>1, <1>2, <3>1, <3>2 DEF MacroFree
  <2>2. ASSUME NEW j \in 1 .. n
        PROVE  MacroLibs(t[j].name) = {}
    <3>1. j + m \in 1 .. m + n /\ ~ (j + m <= m) /\ (j + m) - m = j
      BY <1>1
    <3>2. (s \o t)[j + m] = t[j]
      BY <1>1, <3>1
    <3> QED
      BY <1>1, <1>2, <3>1, <3>2 DEF MacroFree
  <2> QED
    BY <1>1, <2>1, <2>2 DEF MacroFree
<1>3. ASSUME MacroFree(s), MacroFree(t)
      PROVE  MacroFree(s \o t)
  <2> SUFFICES ASSUME NEW j \in 1 .. m + n
               PROVE  MacroLibs((s \o t)[j].name) = {}
    BY <1>1 DEF MacroFree
  <2>1. CASE j <= m
    <3>1. j \in 1 .. m /\ (s \o t)[j] = s[j]
      BY <1>1, <2>1
    <3> QED
      BY <1>1, <1>3, <3>1 DEF MacroFree
  <2>2. CASE ~ (j <= m)
    <3>1. j - m \in 1 .. n /\ (s \o t)[j] = t[j - m]
      BY <1>1, <2>2
    <3> QED
      BY <1>1, <1>3, <3>1 DEF MacroFree
  <2> QED
    BY <2>1, <2>2
<1> QED
  BY <1>2, <1>3

(* The same within a text.                                                 *)
LEMMA FinalReplaced ==
  ASSUME NEW p \in Seq(Cmd), NEW c \in Cmd, NEW q \in Seq(Cmd),
         MacroFree(Final((p \o <<c>>) \o q))
  PROVE  /\ Final((p \o Unfolded(c)) \o q) = Final((p \o <<c>>) \o q)
         /\ Final(p \o Unfolded(c)) = Final(p \o <<c>>)
         /\ MacroFree(Final(p)) /\ MacroFree(Final(<<c>>)) /\ MacroFree(Final(q))
<1>1. <<c>> \in Seq(Cmd) /\ Unfolded(c) \in Seq(Cmd)
  BY UnfoldedType
<1>2. p \o <<c>> \in Seq(Cmd) /\ p \o Unfolded(c) \in Seq(Cmd)
  BY <1>1, ConcatProperties
<1>3. /\ Final((p \o <<c>>) \o q) = Final(p \o <<c>>) \o Final(q)
      /\ Final((p \o Unfolded(c)) \o q) = Final(p \o Unfolded(c)) \o Final(q)
      /\ Final(p \o <<c>>) = Final(p) \o Final(<<c>>)
      /\ Final(p \o Unfolded(c)) = Final(p) \o Final(Unfolded(c))
  BY <1>1, <1>2, FinalConcat
<1>4. /\ Final(p) \in Seq(Cmd) /\ Final(<<c>>) \in Seq(Cmd) /\ Final(q) \in Seq(Cmd)
      /\ Final(p \o <<c>>) \in Seq(Cmd)
  BY <1>1, <1>2, FinalType
<1>5. MacroFree(Final(p \o <<c>>)) /\ MacroFree(Final(q))
  <2>1. MacroFree(Final(p \o <<c>>) \o Final(q))
    BY <1>3
  <2> QED
    BY <1>4, <2>1, FreeConcat
<1>6. MacroFree(Final(p)) /\ MacroFree(Final(<<c>>))
  <2>1. MacroFree(Final(p) \o Final(<<c>>))
    BY <1>3, <1>5
  <2> QED
    BY <1>4, <2>1, FreeConcat
<1>7. Final(Unfolded(c)) = Final(<<c>>)
  BY <1>6, FinalUnfolded
<1> QED
  BY <1>3, <1>5, <1>6, <1>7

-----------------------------------------------------------------------------
(* Tokens, their commands, and the text of the lines they are made of.     *)
Tok   == [labels : Seq(Labels), name : Names, args : Seq(Operand)]
FLine == {l \in FileLine : /\ LineOK(l)
                           /\ l.name \in {"", "__LABEL_SET"} => l.label # NoLabel}

CmdOf(t)  == [name |-> t.name, args |-> t.args]
Cmds(toks) == [k \in DOMAIN toks |-> CmdOf(toks[k])]

LEMMA NoMacros == MacroLibs("RAW") = {} /\ MacroLibs("invalid") = {}
  BY LibsAssumption DEF LibsOK, MacroLibs

LEMMA OperandIs ==
  /\ \A l \in Labels : Label(l) \in Operand
  /\ \A n \in Numbers : Number(n) \in Operand
  /\ \A r \in RegisterNumbers : Register(r) \in Operand
<1>1. \A l \in Labels : Label(l) \in {"label"} \X Labels
  BY DEF Label
<1>2. \A n \in Numbers : Number(n) \in {"num"} \X Numbers
  BY DEF Number
<1>3. \A r \in RegisterNumbers : Register(r) \in {"reg"} \X RegisterNumbers
  BY DEF Register
<1> QED
  BY <1>1, <1>2, <1>3, Zenon DEF Operand

LEMMA CommandsIs ==
  ASSUME NEW l \in FLine
  PROVE  /\ l.name = "__LABEL_SET" => Commands(l) = <<>>
         /\ l.name = "" => Commands(l) = <<[name |-> "RAW", args |-> <<Label(l.label)>>]>>
         /\ l.name \notin {"", "__LABEL_SET"} =>
              Commands(l) = <<[name |-> NameOf(l), args |-> l.args]>>
         /\ Commands(l) \in Seq(Cmd)
         /\ l.args \in Seq(Operand)
         /\ l.name \in {"", "__LABEL_SET"} => l.label \in Labels
         /\ l.label # NoLabel => l.label \in Labels
         /\ l.name \notin {"", "__LABEL_SET"} => NameOf(l) \in Names
         /\ l.name = "" => Label(l.label) \in Operand
<1>1. /\ l.args \in Seq(Operand) /\ LineOK(l)
      /\ l.name \in {"", "__LABEL_SET"} => l.label \in Labels
      /\ l.label # NoLabel => l.label \in Labels
      /\ l.name \notin {"", "__LABEL_SET"} => l.name \in Names
  BY DEF FLine, FileLine
<1>2. "RAW" \in Names /\ "invalid" \in Names
  BY NamesAssumption DEF NamesOK, Known
<1>3. CASE l.name = "__LABEL_SET"
  <2>1. Commands(l) = <<>>
    BY <1>3 DEF Commands
  <2> QED
    BY <1>1, <1>3, <2>1
<1>4. CASE l.name = ""
  <2>1. Commands(l) = <<[name |-> "RAW", args |-> <<Label(l.label)>>]>>
    BY <1>4 DEF Commands
  <2>2. Label(l.label) \in Operand
    <3>1. l.label \in Labels
      BY <1>1, <1>4
    <3> QED
      BY <3>1, OperandIs, Zenon
  <2>3. <<Label(l.label)>> \in Seq(Operand)
    BY <2>2
  <2>4. Served("RAW", <<Label(l.label)>>)
    BY NoMacros DEF Served
  <2>5. [name |-> "RAW", args |-> <<Label(l.label)>>] \in Cmd
    BY <1>2, <2>3, <2>4 DEF Cmd
  <2> DEFINE c == [name |-> "RAW", args |-> <<Label(l.label)>>]
  <2>6. c \in Cmd /\ Commands(l) = <<c>>
    BY <2>1, <2>5
  <2> HIDE DEF c
  <2>7. Commands(l) \in Seq(Cmd)
    BY <2>6
  <2>8. l.name # "__LABEL_SET" /\ l.name \in {"", "__LABEL_SET"}
    BY <1>4
  <2> QED
    BY <1>1, <2>1, <2>2, <2>7, <2>8, Zenon
<1>5. CASE l.name \notin {"", "__LABEL_SET"}
  <2>1. Commands(l) = <<[name |-> NameOf(l), args |-> l.args]>>
    BY <1>5 DEF Commands
  <2>2. Served(NameOf(l), l.args)
    <3>1. CASE NameOf(l) = l.name
      BY <1>1, <3>1 DEF LineOK
    <3>2. CASE NameOf(l) = "invalid"
      BY <3>2, NoMacros DEF Served
    <3> QED
      BY <3>1, <3>2 DEF NameOf
  <2>3. NameOf(l) \in Names
    BY <1>1, <1>2, <1>5 DEF NameOf
  <2>4. [name |-> NameOf(l), args |-> l.args] \in Cmd
    BY <1>1, <2>2, <2>3 DEF Cmd
  <2> DEFINE c == [name |-> NameOf(l), args |-> l.args]
  <2>5. c \in Cmd /\ Commands(l) = <<c>>
    BY <2>1, <2>4
  <2> HIDE DEF c
  <2>6. Commands(l) \in Seq(Cmd)
    BY <2>5
  <2>7. l.name # "__LABEL_SET" /\ l.name # ""
    BY <1>5
  <2> QED
    BY <1>1, <1>5, <2>1, <2>3, <2>6, <2>7, Zenon
<1> QED
  BY <1>3, <1>4, <1>5

Parts(lines) == [k \in DOMAIN lines |-> Commands(lines[k])]

LEMMA TextAppend ==
  ASSUME NEW lines \in Seq(FLine), NEW l \in FLine
  PROVE  Text(lines \o <<l>>) = Text(lines) \o Commands(l) /\ Text(lines) \in Seq(Cmd)
<1> DEFINE m == Len(lines)
           p == Parts(lines)
           q == Parts(lines \o <<l>>)
           w == Commands(l)
<1>1. /\ m \in Nat /\ DOMAIN lines = 1 .. m /\ \A k \in 1 .. m : lines[k] \in FLine
      /\ DOMAIN (lines \o <<l>>) = 1 .. m + 1
      /\ (lines \o <<l>>)[m + 1] = l
      /\ \A k \in 1 .. m : (lines \o <<l>>)[k] = lines[k]
  BY LenProperties, ElementOfSeq
<1>2. p \in Seq(Seq(Cmd)) /\ Len(p) = m
  <2>1. p = [k \in 1 .. m |-> p[k]]
    BY <1>1 DEF Parts
  <2>2. \A k \in 1 .. m : p[k] \in Seq(Cmd)
    BY <1>1, CommandsIs DEF Parts
  <2>3. m \in Nat
    BY <1>1
  <2> HIDE DEF p, m
  <2> QED
    BY <2>1, <2>2, <2>3, MakeSeq
<1>3. w \in Seq(Cmd)
  BY CommandsIs
<1>4. DOMAIN q = 1 .. m + 1 /\ q[m + 1] = w /\ \A k \in 1 .. m : q[k] = p[k]
  BY <1>1 DEF Parts
<1>5. q = [k \in 1 .. m + 1 |-> q[k]]
  BY <1>1 DEF Parts
<1> HIDE DEF m, p, q, w
<1>6. q = p \o <<w>>
  <2>1. /\ p \o <<w>> \in Seq(Seq(Cmd)) /\ Len(p \o <<w>>) = m + 1
        /\ (p \o <<w>>)[m + 1] = w /\ \A k \in 1 .. m : (p \o <<w>>)[k] = p[k]
    <3>1. <<w>> \in Seq(Seq(Cmd)) /\ Len(<<w>>) = 1 /\ <<w>>[1] = w
      BY <1>3
    <3>2. /\ p \o <<w>> \in Seq(Seq(Cmd)) /\ Len(p \o <<w>>) = m + 1
          /\ \A k \in 1 .. m + 1 : (p \o <<w>>)[k] = IF k <= m THEN p[k] ELSE <<w>>[k - m]
      BY <1>2, <3>1, ConcatProperties
    <3>3. m + 1 \in 1 .. m + 1 /\ ~ (m + 1 <= m) /\ (m + 1) - m = 1
      BY <1>1
    <3>4. \A k \in 1 .. m : k \in 1 .. m + 1 /\ k <= m
      BY <1>1
    <3> QED
      BY <3>1, <3>2, <3>3, <3>4
  <2>2. \A k \in 1 .. m + 1 : q[k] = (p \o <<w>>)[k] /\ q[k] \in Seq(Cmd)
    <3> SUFFICES ASSUME NEW k \in 1 .. m + 1
                 PROVE  q[k] = (p \o <<w>>)[k] /\ q[k] \in Seq(Cmd)
      OBVIOUS
    <3>1. k \in 1 .. m \/ k = m + 1
      BY <1>1
    <3>2. CASE k \in 1 .. m
      BY <1>2, <1>4, <2>1, <3>2
    <3>3. CASE k = m + 1
      BY <1>3, <1>4, <2>1, <3>3
    <3> QED
      BY <3>1, <3>2, <3>3
  <2>3. m + 1 \in Nat
    BY <1>1
  <2>4. q \in Seq(Seq(Cmd)) /\ Len(q) = m + 1
    BY <1>5, <2>2, <2>3, MakeSeq
  <2> QED
    BY <2>1, <2>2, <2>4, SeqEqual, SMTT(60)
<1>7. <<w>> \in Seq(Seq(Cmd))
  BY <1>3
<1>8. FlattenSeq(p \o <<w>>) = FlattenSeq(p) \o FlattenSeq(<<w>>)
  BY <1>2, <1>7, FlatConcat
<1>9. FlattenSeq(<<w>>) = w
  BY <1>3, FlatOne
<1>10. Text(lines) = FlattenSeq(p) /\ Text(lines \o <<l>>) = FlattenSeq(q)
  BY DEF Text, Parts, p, q
<1>11. FlattenSeq(p) \in Seq(Cmd)
  BY <1>2, FlatType
<1> QED
  BY <1>6, <1>8, <1>9, <1>10, <1>11 DEF w

LEMMA TextEmpty == Text(<<>>) = <<>>
<1>1. Parts(<<>>) = <<>>
  BY DEF Parts
<1> QED
  BY <1>1, FlatEmpty DEF Text, Parts

(* The commands of the first n lines.                                      *)
Prefix(lines, n) == Text(SubSeq(lines, 1, n))

LEMMA PrefixIs ==
  ASSUME NEW lines \in Seq(FLine)
  PROVE  /\ Prefix(lines, 0) = <<>>
         /\ \A n \in 0 .. Len(lines) : Prefix(lines, n) \in Seq(Cmd)
         /\ \A n \in 1 .. Len(lines) :
              Prefix(lines, n) = Prefix(lines, n - 1) \o Commands(lines[n])
         /\ Prefix(lines, Len(lines)) = Text(lines)
<1>1. Len(lines) \in Nat /\ \A n \in 1 .. Len(lines) : lines[n] \in FLine
  BY LenProperties, ElementOfSeq
<1>2. SubSeq(lines, 1, 0) = <<>>
  BY SubSeqEmpty
<1>3. \A n \in 0 .. Len(lines) : SubSeq(lines, 1, n) \in Seq(FLine)
  <2> SUFFICES ASSUME NEW n \in 0 .. Len(lines)
               PROVE  SubSeq(lines, 1, n) \in Seq(FLine)
    OBVIOUS
  <2>1. \A k \in 1 .. n : lines[k] \in FLine
    BY <1>1
  <2> QED
    BY <2>1, SubSeqProperties
<1>4. ASSUME NEW n \in 1 .. Len(lines)
      PROVE  /\ Prefix(lines, n) = Prefix(lines, n - 1) \o Commands(lines[n])
             /\ Prefix(lines, n - 1) \in Seq(Cmd)
  <2>1. SubSeq(lines, 1, n) = SubSeq(lines, 1, n - 1) \o <<lines[n]>>
    <3>1. 1 \in 1 .. Len(lines)
      BY <1>1
    <3> QED
      BY <3>1, SubSeqRecursiveSecond
  <2>2. SubSeq(lines, 1, n - 1) \in Seq(FLine) /\ lines[n] \in FLine
    <3>1. n - 1 \in 0 .. Len(lines)
      BY <1>1
    <3> QED
      BY <1>1, <1>3, <3>1
  <2> DEFINE s == SubSeq(lines, 1, n - 1)
             l == lines[n]
  <2>3. s \in Seq(FLine) /\ l \in FLine
    BY <2>2
  <2> HIDE DEF s, l
  <2>4. Text(s \o <<l>>) = Text(s) \o Commands(l) /\ Text(s) \in Seq(Cmd)
    BY <2>3, TextAppend
  <2> QED
    BY <2>1, <2>4 DEF Prefix, s, l
<1>5. Prefix(lines, 0) = <<>>
  BY <1>2, TextEmpty DEF Prefix
<1>6. ASSUME NEW n \in 0 .. Len(lines)
      PROVE  Prefix(lines, n) \in Seq(Cmd)
  <2>1. CASE n = 0
    <3>1. <<>> \in Seq(Cmd)
      BY EmptySeq
    <3> QED
      BY <1>5, <2>1, <3>1
  <2>2. CASE n # 0
    <3>1. n \in 1 .. Len(lines)
      BY <1>1, <2>2
    <3>2. lines[n] \in FLine
      BY <1>1, <3>1
    <3>3. Commands(lines[n]) \in Seq(Cmd)
      BY <3>2, CommandsIs
    <3> QED
      BY <1>4, <3>1, <3>3, ConcatProperties
  <2> QED
    BY <2>1, <2>2
<1>7. Prefix(lines, Len(lines)) = Text(lines)
  BY SubSeqFull DEF Prefix
<1> QED
  BY <1>4, <1>5, <1>6, <1>7

-----------------------------------------------------------------------------
(* tokenize, line by line.                                                 *)
State == [tokens : Seq(Tok), next : Seq(Labels)]

LabelsFor(st, l) ==
  IF l.name = "" THEN <<>>
  ELSE IF l.label = NoLabel THEN st.next ELSE Append(st.next, l.label)

LEMMA TokenizeLine ==
  ASSUME NEW st \in State, NEW l \in FLine
  PROVE  LET nx == tokenizeLine(st, l)
         IN /\ nx \in State
            /\ l.name = "__LABEL_SET" =>
                 nx.tokens = st.tokens /\ nx.next = Append(st.next, l.label)
                   /\ Commands(l) = <<>>
            /\ l.name # "__LABEL_SET" =>
                 /\ nx.next = <<>>
                 /\ \E t \in Tok : /\ nx.tokens = Append(st.tokens, t)
                                   /\ t.labels = LabelsFor(st, l)
                                   /\ Commands(l) = <<CmdOf(t)>>
<1> DEFINE nx == tokenizeLine(st, l)
<1>1. st.tokens \in Seq(Tok) /\ st.next \in Seq(Labels)
      /\ st = [tokens |-> st.tokens, next |-> st.next]
  BY DEF State
<1>2. /\ l.name = "__LABEL_SET" => Commands(l) = <<>>
      /\ l.name = "" => Commands(l) = <<[name |-> "RAW", args |-> <<Label(l.label)>>]>>
      /\ l.name \notin {"", "__LABEL_SET"} =>
           Commands(l) = <<[name |-> NameOf(l), args |-> l.args]>>
      /\ l.args \in Seq(Operand)
      /\ l.name \in {"", "__LABEL_SET"} => l.label \in Labels
      /\ l.label # NoLabel => l.label \in Labels
      /\ l.name \notin {"", "__LABEL_SET"} => NameOf(l) \in Names
      /\ l.name = "" => Label(l.label) \in Operand
  BY CommandsIs
<1>3. <<>> \in Seq(Labels)
  BY EmptySeq
<1>4. CASE l.name = "__LABEL_SET"
  <2>1. nx = [st EXCEPT !.next = Append(@, l.label)]
    BY <1>4 DEF tokenizeLine
  <2>2. nx.tokens = st.tokens /\ nx.next = Append(st.next, l.label)
        /\ nx = [tokens |-> st.tokens, next |-> Append(st.next, l.label)]
    BY <1>1, <2>1
  <2>3. Append(st.next, l.label) \in Seq(Labels)
    BY <1>1, <1>2, <1>4
  <2>4. nx \in State
    BY <1>1, <2>2, <2>3 DEF State
  <2> HIDE DEF nx
  <2> QED
    BY <1>2, <1>4, <2>2, <2>4 DEF nx
<1>5. CASE l.name = ""
  <2> DEFINE t == Token(<<>>, "RAW", <<Label(l.label)>>)
  <2>1. nx = [tokens |-> Append(st.tokens, t), next |-> <<>>]
    BY <1>5 DEF tokenizeLine
  <2>2. "RAW" \in Names
    BY NamesAssumption DEF NamesOK, Known
  <2>3. <<Label(l.label)>> \in Seq(Operand)
    <3>1. Label(l.label) \in Operand
      BY <1>2, <1>5
    <3> QED
      BY <3>1
  <2>4. /\ t.labels = <<>> /\ t.name = "RAW" /\ t.args = <<Label(l.label)>>
        /\ t = [labels |-> <<>>, name |-> "RAW", args |-> <<Label(l.label)>>]
    BY DEF Token
  <2>5. t \in Tok
    BY <1>3, <2>2, <2>3, <2>4 DEF Tok
  <2>6. Commands(l) = <<CmdOf(t)>>
    BY <1>2, <1>5, <2>4 DEF CmdOf
  <2>7. t.labels = LabelsFor(st, l)
    BY <1>5, <2>4 DEF LabelsFor
  <2> HIDE DEF t
  <2>8. Append(st.tokens, t) \in Seq(Tok)
    BY <1>1, <2>5
  <2>9. nx \in State /\ nx.tokens = Append(st.tokens, t) /\ nx.next = <<>>
    BY <1>3, <2>1, <2>8 DEF State
  <2>10. l.name # "__LABEL_SET"
    BY <1>5
  <2> HIDE DEF nx
  <2> QED
    BY <2>5, <2>6, <2>7, <2>9, <2>10, Zenon DEF nx
<1>6. CASE l.name \notin {"", "__LABEL_SET"}
  <2> DEFINE lbs == IF l.label = NoLabel THEN st.next ELSE Append(st.next, l.label)
             t == Token(lbs, NameOf(l), l.args)
  <2>1. nx = [tokens |-> Append(st.tokens, t), next |-> <<>>]
    BY <1>6 DEF tokenizeLine
  <2>2. lbs \in Seq(Labels) /\ lbs = LabelsFor(st, l)
    <3>1. CASE l.label = NoLabel
      BY <1>1, <1>6, <3>1 DEF LabelsFor
    <3>2. CASE l.label # NoLabel
      <4>1. Append(st.next, l.label) \in Seq(Labels)
        <5>1. l.label \in Labels /\ st.next \in Seq(Labels)
          BY <1>1, <1>2, <3>2
        <5> QED
          BY <5>1
      <4> QED
        BY <1>6, <3>2, <4>1 DEF LabelsFor
    <3> QED
      BY <3>1, <3>2
  <2> HIDE DEF lbs
  <2>3. /\ t.labels = lbs /\ t.name = NameOf(l) /\ t.args = l.args
        /\ t = [labels |-> lbs, name |-> NameOf(l), args |-> l.args]
    BY DEF Token
  <2>4. t \in Tok
    BY <1>2, <1>6, <2>2, <2>3 DEF Tok
  <2>5. Commands(l) = <<CmdOf(t)>>
    BY <1>2, <1>6, <2>3 DEF CmdOf
  <2>6. t.labels = LabelsFor(st, l)
    BY <2>2, <2>3
  <2> HIDE DEF t
  <2>7. Append(st.tokens, t) \in Seq(Tok)
    BY <1>1, <2>4
  <2>8. nx \in State /\ nx.tokens = Append(st.tokens, t) /\ nx.next = <<>>
    BY <1>3, <2>1, <2>7 DEF State
  <2>9. l.name # "__LABEL_SET"
    BY <1>6
  <2> HIDE DEF nx
  <2> QED
    BY <2>4, <2>5, <2>6, <2>8, <2>9, Zenon DEF nx
<1> QED
  BY <1>4, <1>5, <1>6

LEMMA TokenizedIs ==
  ASSUME NEW lines \in Seq(FLine)
  PROVE  /\ \A n \in 0 .. Len(lines) : Tokenized(lines)[n] \in State
         /\ Tokenized(lines)[0] = [tokens |-> <<>>, next |-> <<>>]
         /\ \A n \in 1 .. Len(lines) :
              Tokenized(lines)[n] = tokenizeLine(Tokenized(lines)[n - 1], lines[n])
<1> DEFINE m == Len(lines)
           st0 == [tokens |-> <<>>, next |-> <<>>]
           H == [j \in 1 .. m |-> [st \in State |-> tokenizeLine(st, lines[j])]]
           Eq(f) == f = [n \in 0 .. m |-> IF n = 0 THEN st0 ELSE tokenizeLine(f[n - 1], lines[n])]
<1>1. m \in Nat /\ \A j \in 1 .. m : lines[j] \in FLine
  BY LenProperties, ElementOfSeq
<1>2. st0 \in State
  <2>1. <<>> \in Seq(Tok) /\ <<>> \in Seq(Labels)
    BY EmptySeq
  <2> QED
    BY <2>1 DEF State
<1>3. H \in [1 .. m -> [State -> State]]
  <2>1. \A j \in 1 .. m : \A st \in State : tokenizeLine(st, lines[j]) \in State
    BY <1>1, TokenizeLine
  <2> HIDE DEF m
  <2> QED
    BY <2>1
<1> HIDE DEF st0
<1>4. PICK g \in [0 .. m -> State] : Recurs(g, m, st0, H)
  <2> HIDE DEF H, m
  <2> QED
    BY <1>1, <1>2, <1>3, RecursionExists
<1>5. ASSUME NEW j \in 1 .. m
      PROVE  g[j] = tokenizeLine(g[j - 1], lines[j])
  <2>1. j - 1 \in 0 .. m
    BY <1>1
  <2>2. g[j - 1] \in State
    <3> HIDE DEF m
    <3> QED
      BY <1>4, <2>1
  <2>3. g[j] = H[j][g[j - 1]]
    BY <1>4 DEF Recurs
  <2> QED
    BY <2>2, <2>3
<1>6. g[0] = st0
  BY <1>4 DEF Recurs
<1>7. Eq(g)
  <2>1. ASSUME NEW n \in 0 .. m
        PROVE  g[n] = IF n = 0 THEN st0 ELSE tokenizeLine(g[n - 1], lines[n])
    <3>1. n = 0 \/ n \in 1 .. m
      BY <1>1
    <3> QED
      BY <1>5, <1>6, <3>1
  <2> HIDE DEF m, H
  <2> QED
    BY <1>4, <2>1
<1> DEFINE f == Tokenized(lines)
<1>8. Eq(f)
  <2>1. f = CHOOSE h : Eq(h)
    BY DEF Tokenized, st0
  <2> HIDE DEF Eq, f
  <2> QED
    BY <1>7, <2>1
<1> HIDE DEF f, m
<1>9. \A n \in 0 .. m : f[n] = IF n = 0 THEN st0 ELSE tokenizeLine(f[n - 1], lines[n])
  BY <1>8
<1>10. f[0] = st0
  <2>1. 0 \in 0 .. m
    BY <1>1
  <2> QED
    BY <1>9, <2>1
<1>11. ASSUME NEW n \in 1 .. m
       PROVE  f[n] = tokenizeLine(f[n - 1], lines[n])
  <2>1. n \in 0 .. m /\ n # 0
    BY <1>1
  <2> QED
    BY <1>9, <2>1
<1> DEFINE G == {n \in Nat : n <= m => f[n] \in State}
<1>12. 0 \in G
  BY <1>2, <1>10
<1>13. ASSUME NEW n \in Nat, n \in G
       PROVE  n + 1 \in G
  <2> SUFFICES ASSUME n + 1 <= m
               PROVE  f[n + 1] \in State
    OBVIOUS
  <2>1. n + 1 \in 1 .. m /\ (n + 1) - 1 = n /\ n <= m
    BY <1>1
  <2>2. f[n + 1] = tokenizeLine(f[n], lines[n + 1])
    BY <1>11, <2>1
  <2>3. f[n] \in State /\ lines[n + 1] \in FLine
    BY <1>1, <1>13, <2>1
  <2> QED
    BY <2>2, <2>3, TokenizeLine
<1>14. Nat \subseteq G
  <2> HIDE DEF G
  <2> QED
    BY <1>12, <1>13, Induction
<1>15. \A n \in 0 .. m : f[n] \in State
  BY <1>1, <1>14
<1> QED
  BY <1>10, <1>11, <1>15 DEF f, m, st0

-----------------------------------------------------------------------------
(* Which label comes to which token.                                       *)
Has(s, l)      == \E m \in DOMAIN s : s[m] = l
Sets(line)     == line.name = "__LABEL_SET"
Ordinary(line) == line.name \notin {"", "__LABEL_SET"}

(* Of the first n lines, line k has given its label to a token, or still   *)
(* keeps it for the next.                                                  *)
Carried(lines, k, n) ==
  \/ Ordinary(lines[k]) /\ lines[k].label # NoLabel
  \/ /\ Sets(lines[k])
     /\ \E m \in k + 1 .. n : Ordinary(lines[m]) /\ \A o \in k + 1 .. m - 1 : Sets(lines[o])
Waits(lines, k, n) == Sets(lines[k]) /\ \A o \in k + 1 .. n : Sets(lines[o])

LEMMA CarriedStep ==
  ASSUME NEW lines, NEW n \in Nat
  PROVE  /\ \A k \in 1 .. n :
              /\ Waits(lines, k, n + 1) <=> Waits(lines, k, n) /\ Sets(lines[n + 1])
              /\ Carried(lines, k, n + 1) <=>
                   Carried(lines, k, n) \/ (Waits(lines, k, n) /\ Ordinary(lines[n + 1]))
         /\ Waits(lines, n + 1, n + 1) <=> Sets(lines[n + 1])
         /\ Carried(lines, n + 1, n + 1) <=>
              Ordinary(lines[n + 1]) /\ lines[n + 1].label # NoLabel
<1>1. ASSUME NEW k \in 1 .. n
      PROVE  Waits(lines, k, n + 1) <=> Waits(lines, k, n) /\ Sets(lines[n + 1])
  <2>1. k + 1 .. n + 1 = (k + 1 .. n) \cup {n + 1}
    OBVIOUS
  <2> QED
    BY <2>1, Zenon DEF Waits
<1>2. ASSUME NEW k \in 1 .. n
      PROVE  Carried(lines, k, n + 1) <=>
               Carried(lines, k, n) \/ (Waits(lines, k, n) /\ Ordinary(lines[n + 1]))
  <2>1. k + 1 .. n + 1 = (k + 1 .. n) \cup {n + 1} /\ (n + 1) - 1 = n
    OBVIOUS
  <2> QED
    BY <2>1, Zenon DEF Waits, Carried
<1>3. n + 2 .. n + 1 = {} /\ (n + 1) + 1 = n + 2
  OBVIOUS
<1>4. Waits(lines, n + 1, n + 1) <=> Sets(lines[n + 1])
  BY <1>3 DEF Waits
<1>5. Carried(lines, n + 1, n + 1) <=>
        Ordinary(lines[n + 1]) /\ lines[n + 1].label # NoLabel
  BY <1>3 DEF Carried
<1> QED
  BY <1>1, <1>2, <1>4, <1>5

Count(lines, n) == Len(Prefix(lines, n))

LEMMA CountStep ==
  ASSUME NEW lines \in Seq(FLine)
  PROVE  /\ Count(lines, 0) = 0
         /\ \A n \in 0 .. Len(lines) : Count(lines, n) \in Nat
         /\ \A n \in 1 .. Len(lines) :
              Count(lines, n) = IF Sets(lines[n]) THEN Count(lines, n - 1)
                                ELSE Count(lines, n - 1) + 1
<1>1. Len(lines) \in Nat /\ \A n \in 1 .. Len(lines) : lines[n] \in FLine
  BY LenProperties, ElementOfSeq
<1>2. /\ Prefix(lines, 0) = <<>>
      /\ \A n \in 0 .. Len(lines) : Prefix(lines, n) \in Seq(Cmd)
      /\ \A n \in 1 .. Len(lines) :
           Prefix(lines, n) = Prefix(lines, n - 1) \o Commands(lines[n])
  BY PrefixIs
<1>3. Count(lines, 0) = 0
  BY <1>2, EmptySeq DEF Count
<1>4. \A n \in 0 .. Len(lines) : Count(lines, n) \in Nat
  BY <1>2, LenProperties DEF Count
<1>5. ASSUME NEW n \in 1 .. Len(lines)
      PROVE  Count(lines, n) = IF Sets(lines[n]) THEN Count(lines, n - 1)
                               ELSE Count(lines, n - 1) + 1
  <2> DEFINE p == Prefix(lines, n - 1)
             w == Commands(lines[n])
  <2>1. p \in Seq(Cmd) /\ w \in Seq(Cmd) /\ Len(p) \in Nat
    <3>1. n - 1 \in 0 .. Len(lines) /\ lines[n] \in FLine
      BY <1>1
    <3> QED
      BY <1>2, <3>1, CommandsIs, LenProperties
  <2>2. Prefix(lines, n) = p \o w
    BY <1>2
  <2>3. Len(w) = IF Sets(lines[n]) THEN 0 ELSE 1
    <3>1. lines[n] \in FLine
      BY <1>1
    <3>2. CASE Sets(lines[n])
      <4>1. w = <<>>
        BY <3>1, <3>2, CommandsIs DEF Sets
      <4> QED
        BY <3>2, <4>1
    <3>3. CASE ~ Sets(lines[n])
      <4>1. \E c : w = <<c>>
        BY <3>1, <3>3, CommandsIs DEF Sets
      <4> QED
        BY <3>3, <4>1
    <3> QED
      BY <3>2, <3>3
  <2> HIDE DEF p, w
  <2>4. Len(p \o w) = Len(p) + Len(w)
    BY <2>1, ConcatProperties
  <2>5. Count(lines, n) = Len(p) + Len(w) /\ Count(lines, n - 1) = Len(p)
    BY <2>2, <2>4 DEF Count, p
  <2> QED
    BY <2>1, <2>3, <2>5
<1> QED
  BY <1>3, <1>4, <1>5

Counted(lines, n) ==
  /\ \A k \in 1 .. n : Waits(lines, k, n) => Count(lines, k - 1) = Count(lines, n)
  /\ \A k \in 1 .. n : Carried(lines, k, n) => Count(lines, k - 1) < Count(lines, n)
  /\ \A k \in 0 .. n : Count(lines, k) <= Count(lines, n)

LEMMA CountedAll ==
  ASSUME NEW lines \in Seq(FLine)
  PROVE  \A n \in 0 .. Len(lines) : Counted(lines, n)
<1> DEFINE G == {n \in Nat : n <= Len(lines) => Counted(lines, n)}
<1>1. Len(lines) \in Nat
  BY LenProperties
<1>2. /\ Count(lines, 0) = 0
      /\ \A n \in 0 .. Len(lines) : Count(lines, n) \in Nat
      /\ \A n \in 1 .. Len(lines) :
           Count(lines, n) = IF Sets(lines[n]) THEN Count(lines, n - 1)
                             ELSE Count(lines, n - 1) + 1
  BY CountStep
<1>3. 0 \in G
  BY <1>2 DEF Counted
<1>4. ASSUME NEW n \in Nat, n \in G
      PROVE  n + 1 \in G
  <2> SUFFICES ASSUME n + 1 <= Len(lines)
               PROVE  Counted(lines, n + 1)
    OBVIOUS
  <2>1. n + 1 \in 1 .. Len(lines) /\ (n + 1) - 1 = n /\ n <= Len(lines) /\ n \in 0 .. Len(lines)
    BY <1>1
  <2>2. Counted(lines, n)
    BY <1>4, <2>1
  <2> DEFINE cn == Count(lines, n)
             cm == Count(lines, n + 1)
  <2>3. /\ cn \in Nat /\ cm \in Nat
        /\ Sets(lines[n + 1]) => cm = cn
        /\ ~ Sets(lines[n + 1]) => cm = cn + 1
    <3>1. n + 1 \in 0 .. Len(lines)
      BY <2>1
    <3> QED
      BY <1>2, <2>1, <3>1
  <2>4. Ordinary(lines[n + 1]) => ~ Sets(lines[n + 1])
    BY DEF Ordinary, Sets
  <2>5. /\ \A k \in 1 .. n :
              /\ Waits(lines, k, n + 1) <=> Waits(lines, k, n) /\ Sets(lines[n + 1])
              /\ Carried(lines, k, n + 1) <=>
                   Carried(lines, k, n) \/ (Waits(lines, k, n) /\ Ordinary(lines[n + 1]))
        /\ Waits(lines, n + 1, n + 1) <=> Sets(lines[n + 1])
        /\ Carried(lines, n + 1, n + 1) <=>
              Ordinary(lines[n + 1]) /\ lines[n + 1].label # NoLabel
    BY CarriedStep
  <2>6. \A k \in 0 .. n : Count(lines, k) \in Nat
    BY <1>2, <2>1
  <2>7. ASSUME NEW k \in 1 .. n + 1, Waits(lines, k, n + 1)
        PROVE  Count(lines, k - 1) = cm
    <3>1. CASE k \in 1 .. n
      <4>1. Waits(lines, k, n) /\ Sets(lines[n + 1])
        BY <2>5, <2>7, <3>1
      <4>2. Count(lines, k - 1) = cn
        BY <2>2, <3>1, <4>1 DEF Counted
      <4> QED
        BY <2>3, <4>1, <4>2
    <3>2. CASE k = n + 1
      <4>1. Sets(lines[n + 1]) /\ k - 1 = n
        BY <2>1, <2>5, <2>7, <3>2
      <4> QED
        BY <2>3, <4>1
    <3> QED
      BY <3>1, <3>2
  <2>8. ASSUME NEW k \in 1 .. n + 1, Carried(lines, k, n + 1)
        PROVE  Count(lines, k - 1) < cm
    <3>1. CASE k \in 1 .. n
      <4>0. k - 1 \in 0 .. n
        BY <3>1
      <4>1. Carried(lines, k, n) \/ (Waits(lines, k, n) /\ Ordinary(lines[n + 1]))
        BY <2>5, <2>8, <3>1
      <4>2. CASE Carried(lines, k, n)
        <5>1. Count(lines, k - 1) < cn
          BY <2>2, <3>1, <4>2 DEF Counted
        <5>2. Count(lines, k - 1) \in Nat
          BY <2>6, <4>0
        <5> HIDE DEF cn, cm
        <5> QED
          BY <2>3, <5>1, <5>2
      <4>3. CASE Waits(lines, k, n) /\ Ordinary(lines[n + 1])
        <5>1. Count(lines, k - 1) = cn
          BY <2>2, <3>1, <4>3 DEF Counted
        <5> HIDE DEF cn, cm
        <5> QED
          BY <2>3, <2>4, <4>3, <5>1
      <4> QED
        BY <4>1, <4>2, <4>3
    <3>2. CASE k = n + 1
      <4>1. Ordinary(lines[n + 1]) /\ k - 1 = n
        BY <2>1, <2>5, <2>8, <3>2
      <4> QED
        BY <2>3, <2>4, <4>1
    <3> QED
      BY <3>1, <3>2
  <2>9. ASSUME NEW k \in 0 .. n + 1
        PROVE  Count(lines, k) <= cm
    <3>1. CASE k \in 0 .. n
      <4>1. Count(lines, k) <= cn
        BY <2>2, <3>1 DEF Counted
      <4>2. Count(lines, k) \in Nat
        BY <2>6, <3>1
      <4> HIDE DEF cn, cm
      <4> QED
        BY <2>3, <4>1, <4>2
    <3>2. CASE k = n + 1
      BY <2>3, <3>2
    <3> QED
      BY <3>1, <3>2
  <2> QED
    BY <2>7, <2>8, <2>9 DEF Counted
<1>5. Nat \subseteq G
  <2> HIDE DEF G
  <2> QED
    BY <1>3, <1>4, Induction
<1> QED
  BY <1>1, <1>5

(* A token more is a command more.                                         *)
LEMMA CmdsAppend ==
  ASSUME NEW toks \in Seq(Tok), NEW t \in Tok
  PROVE  Cmds(Append(toks, t)) = Cmds(toks) \o <<CmdOf(t)>>
<1> DEFINE m == Len(toks)
           p == Cmds(toks)
           q == Cmds(Append(toks, t))
           c == CmdOf(t)
           X == [name : Names, args : Seq(Operand)]
<1>1. /\ m \in Nat /\ DOMAIN toks = 1 .. m /\ \A k \in 1 .. m : toks[k] \in Tok
      /\ DOMAIN Append(toks, t) = 1 .. m + 1
      /\ Append(toks, t)[m + 1] = t
      /\ \A k \in 1 .. m : Append(toks, t)[k] = toks[k]
  BY LenProperties, ElementOfSeq
<1>2. \A k \in Tok : CmdOf(k) \in X
  BY DEF Tok, CmdOf
<1>3. p = [k \in 1 .. m |-> p[k]] /\ \A k \in 1 .. m : p[k] \in X
  BY <1>1, <1>2 DEF Cmds
<1>4. /\ q = [k \in 1 .. m + 1 |-> q[k]] /\ q[m + 1] = c /\ c \in X
      /\ \A k \in 1 .. m : q[k] = p[k]
  BY <1>1, <1>2 DEF Cmds
<1> HIDE DEF m, p, q, c, X
<1>5. p \in Seq(X) /\ Len(p) = m
  BY <1>1, <1>3, MakeSeq
<1>6. <<c>> \in Seq(X) /\ Len(<<c>>) = 1 /\ <<c>>[1] = c
  BY <1>4
<1>7. /\ p \o <<c>> \in Seq(X) /\ Len(p \o <<c>>) = m + 1
      /\ \A k \in 1 .. m + 1 : (p \o <<c>>)[k] = IF k <= m THEN p[k] ELSE <<c>>[k - m]
  BY <1>5, <1>6, ConcatProperties
<1>8. ASSUME NEW k \in 1 .. m + 1
      PROVE  q[k] = (p \o <<c>>)[k] /\ q[k] \in X
  <2>1. CASE k <= m
    <3>1. k \in 1 .. m
      BY <1>1, <2>1
    <3> QED
      BY <1>3, <1>4, <1>7, <2>1, <3>1
  <2>2. CASE ~ (k <= m)
    <3>1. k = m + 1 /\ k - m = 1
      BY <1>1, <2>2
    <3> QED
      BY <1>4, <1>6, <1>7, <2>2, <3>1
  <2> QED
    BY <2>1, <2>2
<1>9. m + 1 \in Nat
  BY <1>1
<1>10. q \in Seq(X) /\ Len(q) = m + 1
  BY <1>4, <1>8, <1>9, MakeSeq
<1>11. q = p \o <<c>>
  BY <1>7, <1>8, <1>10, SeqEqual
<1> QED
  BY <1>11 DEF p, q, c

Waiting(lines, n, next) ==
  \A l \in Labels : Has(next, l) <=>
                      \E k \in 1 .. n : lines[k].label = l /\ Waits(lines, k, n)
Labelled(lines, n, j, s) ==
  \A l \in Labels : Has(s, l) <=>
                      \E k \in 1 .. n : /\ lines[k].label = l /\ Carried(lines, k, n)
                                        /\ Count(lines, k - 1) = j - 1
Tokens(lines, n, st) ==
  /\ Cmds(st.tokens) = Prefix(lines, n) /\ Len(st.tokens) = Count(lines, n)
  /\ Waiting(lines, n, st.next)
  /\ \A j \in 1 .. Len(st.tokens) : Labelled(lines, n, j, st.tokens[j].labels)

LEMMA HasAppend ==
  ASSUME NEW s \in Seq(Labels), NEW x \in Labels
  PROVE  \A l \in Labels : Has(Append(s, x), l) <=> Has(s, l) \/ l = x
<1>1. /\ Len(s) \in Nat /\ DOMAIN s = 1 .. Len(s)
      /\ DOMAIN Append(s, x) = 1 .. Len(s) + 1
      /\ Append(s, x)[Len(s) + 1] = x
      /\ \A m \in 1 .. Len(s) : Append(s, x)[m] = s[m]
  BY LenProperties
<1>2. 1 .. Len(s) + 1 = (1 .. Len(s)) \cup {Len(s) + 1}
  BY <1>1
<1> QED
  BY <1>1, <1>2 DEF Has

LEMMA HasEmpty == \A l : ~ Has(<<>>, l)
  BY DEF Has

LEMMA TokensStep ==
  ASSUME NEW lines \in Seq(FLine), NEW n \in Nat, n + 1 <= Len(lines),
         NEW st \in State, Tokens(lines, n, st)
  PROVE  Tokens(lines, n + 1, tokenizeLine(st, lines[n + 1]))
<1> DEFINE l == lines[n + 1]
           nx == tokenizeLine(st, l)
           cn == Count(lines, n)
           cm == Count(lines, n + 1)
<1>1. /\ n + 1 \in 1 .. Len(lines) /\ (n + 1) - 1 = n /\ n \in 0 .. Len(lines)
      /\ n + 1 \in 0 .. Len(lines) /\ Len(lines) \in Nat
  BY LenProperties
<1>2. l \in FLine
  BY <1>1, ElementOfSeq
<1>3. /\ cn \in Nat /\ cm \in Nat
      /\ Sets(l) => cm = cn
      /\ ~ Sets(l) => cm = cn + 1
  BY <1>1, CountStep
<1>4. Prefix(lines, n + 1) = Prefix(lines, n) \o Commands(l) /\ Prefix(lines, n) \in Seq(Cmd)
  BY <1>1, PrefixIs
<1>5. Counted(lines, n) /\ Counted(lines, n + 1)
  BY <1>1, CountedAll
<1>6. /\ \A k \in 1 .. n :
            /\ Waits(lines, k, n + 1) <=> Waits(lines, k, n) /\ Sets(l)
            /\ Carried(lines, k, n + 1) <=>
                 Carried(lines, k, n) \/ (Waits(lines, k, n) /\ Ordinary(l))
      /\ Waits(lines, n + 1, n + 1) <=> Sets(l)
      /\ Carried(lines, n + 1, n + 1) <=> Ordinary(l) /\ l.label # NoLabel
  BY CarriedStep
<1>7. /\ Cmds(st.tokens) = Prefix(lines, n) /\ Len(st.tokens) = cn
      /\ Waiting(lines, n, st.next)
      /\ \A j \in 1 .. cn : Labelled(lines, n, j, st.tokens[j].labels)
  BY DEF Tokens
<1>8. st.tokens \in Seq(Tok) /\ st.next \in Seq(Labels)
  BY DEF State
<1>9. /\ Sets(l) => nx.tokens = st.tokens /\ nx.next = Append(st.next, l.label)
                      /\ Commands(l) = <<>>
      /\ ~ Sets(l) =>
           /\ nx.next = <<>>
           /\ \E t \in Tok : /\ nx.tokens = Append(st.tokens, t)
                             /\ t.labels = LabelsFor(st, l)
                             /\ Commands(l) = <<CmdOf(t)>>
  BY <1>2, TokenizeLine DEF Sets
<1>10. 1 .. n + 1 = (1 .. n) \cup {n + 1}
  OBVIOUS
<1>11. Ordinary(l) => ~ Sets(l)
  BY DEF Ordinary, Sets
<1>12. \A k \in 0 .. n : Count(lines, k) \in Nat
  BY <1>1, CountStep
<1> HIDE DEF l, nx, cn, cm
\* The labels of the tokens there were.
<1>13. ASSUME NEW j \in 1 .. cn
       PROVE  Labelled(lines, n + 1, j, st.tokens[j].labels)
  <2> SUFFICES ASSUME NEW x \in Labels
               PROVE  Has(st.tokens[j].labels, x) <=>
                        \E k \in 1 .. n + 1 : /\ lines[k].label = x /\ Carried(lines, k, n + 1)
                                              /\ Count(lines, k - 1) = j - 1
    BY DEF Labelled
  <2>1. Has(st.tokens[j].labels, x) <=>
          \E k \in 1 .. n : /\ lines[k].label = x /\ Carried(lines, k, n)
                            /\ Count(lines, k - 1) = j - 1
    BY <1>7 DEF Labelled
  <2>2. ASSUME NEW k \in 1 .. n, Waits(lines, k, n)
        PROVE  Count(lines, k - 1) # j - 1
    <3>1. Count(lines, k - 1) = cn
      BY <1>5, <2>2 DEF Counted, cn
    <3> QED
      BY <1>3, <3>1
  <2>3. Count(lines, (n + 1) - 1) # j - 1
    <3>1. Count(lines, (n + 1) - 1) = cn
      BY <1>1 DEF cn
    <3> QED
      BY <1>3, <3>1
  <2> QED
    BY <1>6, <1>10, <2>1, <2>2, <2>3, Zenon
<1>14. CASE Sets(l)
  <2>1. l.label \in Labels
    BY <1>2, <1>14, CommandsIs DEF Sets
  <2>2. Waiting(lines, n + 1, nx.next)
    <3> SUFFICES ASSUME NEW x \in Labels
                 PROVE  Has(nx.next, x) <=>
                          \E k \in 1 .. n + 1 : lines[k].label = x /\ Waits(lines, k, n + 1)
      BY DEF Waiting
    <3>0. Has(Append(st.next, l.label), x) <=> Has(st.next, x) \/ x = l.label
      BY <1>8, <2>1, HasAppend
    <3>1. Has(nx.next, x) <=> Has(st.next, x) \/ x = l.label
      <4>1. nx.next = Append(st.next, l.label)
        BY <1>9, <1>14
      <4> QED
        BY <3>0, <4>1
    <3>2. Has(st.next, x) <=> \E k \in 1 .. n : lines[k].label = x /\ Waits(lines, k, n)
      BY <1>7 DEF Waiting
    <3>3. lines[n + 1].label = l.label
      BY DEF l
    <3> QED
      BY <1>6, <1>10, <1>14, <3>1, <3>2, <3>3, Zenon
  <2>3. Prefix(lines, n) \o <<>> = Prefix(lines, n)
    BY <1>4, ConcatEmptySeq
  <2>4. Cmds(nx.tokens) = Prefix(lines, n + 1) /\ Len(nx.tokens) = cm
    BY <1>3, <1>4, <1>7, <1>9, <1>14, <2>3
  <2>5. \A j \in 1 .. Len(nx.tokens) : Labelled(lines, n + 1, j, nx.tokens[j].labels)
    BY <1>3, <1>9, <1>13, <1>14, <2>4
  <2> QED
    BY <2>2, <2>4, <2>5 DEF Tokens, nx, l, cm
<1>15. CASE ~ Sets(l)
  <2>1. PICK t \in Tok : /\ nx.tokens = Append(st.tokens, t)
                         /\ t.labels = LabelsFor(st, l)
                         /\ Commands(l) = <<CmdOf(t)>>
    BY <1>9, <1>15
  <2>2. nx.next = <<>>
    BY <1>9, <1>15
  <2>3. Waiting(lines, n + 1, nx.next)
    <3> SUFFICES ASSUME NEW x \in Labels
                 PROVE  ~ \E k \in 1 .. n + 1 : lines[k].label = x /\ Waits(lines, k, n + 1)
      BY <2>2, HasEmpty, Zenon DEF Waiting
    <3> QED
      BY <1>6, <1>10, <1>15, Zenon
  <2>4. Cmds(nx.tokens) = Prefix(lines, n + 1)
    <3>1. Cmds(Append(st.tokens, t)) = Cmds(st.tokens) \o <<CmdOf(t)>>
      BY <1>8, CmdsAppend
    <3> QED
      BY <1>4, <1>7, <2>1, <3>1
  <2>5. /\ Len(nx.tokens) = cm /\ cm = cn + 1 /\ nx.tokens[cn + 1] = t
        /\ \A j \in 1 .. cn : nx.tokens[j] = st.tokens[j]
    <3>1. Len(st.tokens) = cn /\ cm = cn + 1
      BY <1>3, <1>7, <1>15
    <3>2. /\ Len(Append(st.tokens, t)) = Len(st.tokens) + 1
          /\ Append(st.tokens, t)[Len(st.tokens) + 1] = t
          /\ \A j \in 1 .. Len(st.tokens) : Append(st.tokens, t)[j] = st.tokens[j]
      BY <1>8
    <3> QED
      BY <2>1, <3>1, <3>2
  <2>6. Labelled(lines, n + 1, cn + 1, t.labels)
    <3> SUFFICES ASSUME NEW x \in Labels
                 PROVE  Has(t.labels, x) <=>
                          \E k \in 1 .. n + 1 : /\ lines[k].label = x /\ Carried(lines, k, n + 1)
                                                /\ Count(lines, k - 1) = (cn + 1) - 1
      BY DEF Labelled
    <3>1. (cn + 1) - 1 = cn /\ Count(lines, (n + 1) - 1) = cn
      BY <1>1, <1>3 DEF cn
    <3>2. ASSUME NEW k \in 1 .. n
          PROVE  Carried(lines, k, n + 1) /\ Count(lines, k - 1) = cn
                   <=> Waits(lines, k, n) /\ Ordinary(l)
      <4>1. Waits(lines, k, n) => Count(lines, k - 1) = cn
        BY <1>5 DEF Counted, cn
      <4>2. Carried(lines, k, n) => Count(lines, k - 1) # cn
        <5>1. Carried(lines, k, n) => Count(lines, k - 1) < cn
          BY <1>5 DEF Counted, cn
        <5>2. k - 1 \in 0 .. n
          OBVIOUS
        <5>3. Count(lines, k - 1) \in Nat
          BY <1>12, <5>2
        <5> QED
          BY <1>3, <5>1, <5>3
      <4> QED
        BY <1>6, <4>1, <4>2, Zenon
    <3>3. Has(st.next, x) <=> \E k \in 1 .. n : lines[k].label = x /\ Waits(lines, k, n)
      BY <1>7 DEF Waiting
    <3>4. lines[n + 1].label = l.label
      BY DEF l
    <3>5. (\E k \in 1 .. n + 1 : /\ lines[k].label = x /\ Carried(lines, k, n + 1)
                                 /\ Count(lines, k - 1) = cn)
            <=> Ordinary(l) /\ (Has(st.next, x) \/ (l.label # NoLabel /\ l.label = x))
      BY <1>6, <1>10, <3>1, <3>2, <3>3, <3>4, Zenon
    <3>6. CASE l.name = ""
      <4>1. t.labels = <<>> /\ ~ Ordinary(l)
        BY <2>1, <3>6 DEF LabelsFor, Ordinary
      <4> QED
        BY <3>1, <3>5, <4>1, HasEmpty, Zenon
    <3>7. CASE l.name # ""
      <4>1. Ordinary(l)
        BY <1>15, <3>7 DEF Ordinary, Sets
      <4>2. CASE l.label = NoLabel
        <5>1. t.labels = st.next
          BY <2>1, <3>7, <4>2 DEF LabelsFor
        <5> QED
          BY <3>1, <3>5, <4>1, <4>2, <5>1, Zenon
      <4>3. CASE l.label # NoLabel
        <5>1. t.labels = Append(st.next, l.label)
          BY <2>1, <3>7, <4>3 DEF LabelsFor
        <5>2. l.label \in Labels
          BY <1>2, <4>3, CommandsIs
        <5>3. Has(t.labels, x) <=> Has(st.next, x) \/ x = l.label
          BY <1>8, <5>1, <5>2, HasAppend
        <5> QED
          BY <3>1, <3>5, <4>1, <4>3, <5>3, Zenon
      <4> QED
        BY <4>2, <4>3
    <3> QED
      BY <3>6, <3>7
  <2>7. ASSUME NEW j \in 1 .. Len(nx.tokens)
        PROVE  Labelled(lines, n + 1, j, nx.tokens[j].labels)
    <3>1. j \in 1 .. cn \/ j = cn + 1
      BY <1>3, <2>5
    <3>2. CASE j \in 1 .. cn
      BY <1>13, <2>5, <3>2
    <3>3. CASE j = cn + 1
      BY <2>5, <2>6, <3>3
    <3> QED
      BY <3>1, <3>2, <3>3
  <2> QED
    BY <2>3, <2>4, <2>5, <2>7 DEF Tokens, nx, l, cm
<1> QED
  BY <1>14, <1>15

LEMMA TokensAll ==
  ASSUME NEW lines \in Seq(FLine)
  PROVE  \A n \in 0 .. Len(lines) : Tokens(lines, n, Tokenized(lines)[n])
<1> DEFINE G == {n \in Nat : n <= Len(lines) => Tokens(lines, n, Tokenized(lines)[n])}
<1>1. Len(lines) \in Nat
  BY LenProperties
<1>2. /\ \A n \in 0 .. Len(lines) : Tokenized(lines)[n] \in State
      /\ Tokenized(lines)[0] = [tokens |-> <<>>, next |-> <<>>]
      /\ \A n \in 1 .. Len(lines) :
           Tokenized(lines)[n] = tokenizeLine(Tokenized(lines)[n - 1], lines[n])
  BY TokenizedIs
<1>3. 0 \in G
  <2> DEFINE st == [tokens |-> <<>>, next |-> <<>>]
  <2>1. Cmds(<<>>) = <<>>
    BY DEF Cmds
  <2>2. Prefix(lines, 0) = <<>> /\ Count(lines, 0) = 0
    BY PrefixIs, CountStep
  <2>3. Waiting(lines, 0, <<>>)
    BY HasEmpty DEF Waiting
  <2>4. Tokens(lines, 0, st)
    BY <2>1, <2>2, <2>3 DEF Tokens
  <2> QED
    BY <1>2, <2>4
<1>4. ASSUME NEW n \in Nat, n \in G
      PROVE  n + 1 \in G
  <2> SUFFICES ASSUME n + 1 <= Len(lines)
               PROVE  Tokens(lines, n + 1, Tokenized(lines)[n + 1])
    OBVIOUS
  <2>1. n + 1 \in 1 .. Len(lines) /\ (n + 1) - 1 = n /\ n <= Len(lines) /\ n \in 0 .. Len(lines)
    BY <1>1
  <2>2. Tokenized(lines)[n + 1] = tokenizeLine(Tokenized(lines)[n], lines[n + 1])
    BY <1>2, <2>1
  <2>3. Tokenized(lines)[n] \in State /\ Tokens(lines, n, Tokenized(lines)[n])
    BY <1>2, <1>4, <2>1
  <2> QED
    BY <2>2, <2>3, TokensStep
<1>5. Nat \subseteq G
  <2> HIDE DEF G
  <2> QED
    BY <1>3, <1>4, Induction
<1> QED
  BY <1>1, <1>5

(* What tokenize makes of lines.                                           *)
LEMMA TokenizeIs ==
  ASSUME NEW lines \in Seq(FLine)
  PROVE  /\ tokenize(lines) \in Seq(Tok)
         /\ Cmds(tokenize(lines)) = Text(lines)
         /\ \A j \in 1 .. Len(tokenize(lines)) :
              Labelled(lines, Len(lines), j, tokenize(lines)[j].labels)
<1>1. Len(lines) \in 0 .. Len(lines)
  BY LenProperties
<1> DEFINE st == Tokenized(lines)[Len(lines)]
<1>2. st \in State /\ Tokens(lines, Len(lines), st)
  BY <1>1, TokenizedIs, TokensAll
<1>3. Prefix(lines, Len(lines)) = Text(lines)
  BY PrefixIs
<1>4. tokenize(lines) = st.tokens
  BY DEF tokenize
<1> HIDE DEF st
<1> QED
  BY <1>2, <1>3, <1>4 DEF State, Tokens

-----------------------------------------------------------------------------
(* Parts of sequences.                                                     *)
LEMMA SubSeqLeft ==
  ASSUME NEW X, NEW s \in Seq(X), NEW t \in Seq(X), NEW n \in 0 .. Len(s)
  PROVE  SubSeq(s \o t, 1, n) = SubSeq(s, 1, n)
<1>1. Len(s) \in Nat
  BY LenProperties
<1>2. CASE n = 0
  <2>1. SubSeq(s \o t, 1, n) = <<>> /\ SubSeq(s, 1, n) = <<>>
    BY <1>2, SubSeqEmpty
  <2> QED
    BY <2>1
<1>3. CASE n # 0
  <2>1. 1 \in 1 .. Len(s) /\ n \in 1 .. Len(s)
    BY <1>1, <1>3
  <2> QED
    BY <2>1, SubSeqOfConcat1
<1> QED
  BY <1>2, <1>3

LEMMA SubSeqType ==
  ASSUME NEW X, NEW s \in Seq(X), NEW n \in 0 .. Len(s)
  PROVE  /\ SubSeq(s, 1, n) \in Seq(X) /\ Len(SubSeq(s, 1, n)) = n
         /\ \A k \in 1 .. n : SubSeq(s, 1, n)[k] = s[k]
<1>1. Len(s) \in Nat /\ \A k \in 1 .. Len(s) : s[k] \in X
  BY LenProperties, ElementOfSeq
<1>2. \A k \in 1 .. n : s[k] \in X
  BY <1>1
<1>3. n \in Int /\ 1 \in Int
  BY <1>1
<1>4. /\ SubSeq(s, 1, n) \in Seq(X)
      /\ Len(SubSeq(s, 1, n)) = IF 1 <= n THEN (n - 1) + 1 ELSE 0
      /\ \A k \in 1 .. (n - 1) + 1 : SubSeq(s, 1, n)[k] = s[(1 + k) - 1]
  BY <1>2, <1>3, SubSeqProperties
<1> QED
  BY <1>1, <1>4

LEMMA SubSeqRight ==
  ASSUME NEW X, NEW s \in Seq(X), NEW t \in Seq(X), NEW n \in 0 .. Len(t)
  PROVE  SubSeq(s \o t, 1, Len(s) + n) = s \o SubSeq(t, 1, n)
<1> DEFINE m == Len(s)
           u == SubSeq(s \o t, 1, m + n)
           w == SubSeq(t, 1, n)
<1>1. /\ m \in Nat /\ Len(t) \in Nat /\ s \o t \in Seq(X) /\ Len(s \o t) = m + Len(t)
      /\ \A k \in 1 .. m + Len(t) : (s \o t)[k] = IF k <= m THEN s[k] ELSE t[k - m]
      /\ \A k \in 1 .. m + Len(t) : (s \o t)[k] \in X
      /\ \A k \in 1 .. Len(t) : t[k] \in X
  BY LenProperties, ConcatProperties, ElementOfSeq
<1>2. m + n \in 0 .. Len(s \o t) /\ n \in Nat
  BY <1>1
<1>3. u \in Seq(X) /\ Len(u) = m + n
  BY <1>1, <1>2, SubSeqType
<1>4. w \in Seq(X) /\ Len(w) = n
  BY SubSeqType
<1>5. \A k \in 1 .. m + n : u[k] = (s \o t)[k]
  <2> HIDE DEF m
  <2> QED
    BY <1>1, <1>2, SubSeqType
<1>6. \A k \in 1 .. n : w[k] = t[k]
  BY SubSeqType
<1> HIDE DEF m, u, w
<1>7. /\ s \o w \in Seq(X) /\ Len(s \o w) = m + n
      /\ \A k \in 1 .. m + n : (s \o w)[k] = IF k <= m THEN s[k] ELSE w[k - m]
  BY <1>4, ConcatProperties DEF m
<1>8. ASSUME NEW k \in 1 .. m + n
      PROVE  u[k] = (s \o w)[k]
  <2>1. k \in 1 .. m + Len(t)
    BY <1>1
  <2>2. CASE k <= m
    BY <1>1, <1>5, <1>7, <2>1, <2>2
  <2>3. CASE ~ (k <= m)
    <3>1. k - m \in 1 .. n
      BY <1>1, <1>2, <2>3
    <3> QED
      BY <1>1, <1>5, <1>6, <1>7, <2>1, <2>3, <3>1
  <2> QED
    BY <2>2, <2>3
<1>9. u = s \o w
  BY <1>3, <1>7, <1>8, SeqEqual
<1> QED
  BY <1>9 DEF u, w, m

(* The commands of the first lines are the first commands of all lines.    *)
LEMMA PrefixOfText ==
  ASSUME NEW lines \in Seq(FLine)
  PROVE  \A n \in 0 .. Len(lines) :
            /\ Count(lines, n) \in 0 .. Len(Text(lines))
            /\ Prefix(lines, n) = SubSeq(Text(lines), 1, Count(lines, n))
<1> DEFINE Inside(m) == \A n \in 0 .. m :
                           Prefix(lines, n) = SubSeq(Prefix(lines, m), 1, Count(lines, n))
           G == {m \in Nat : m <= Len(lines) => Inside(m)}
<1>1. Len(lines) \in Nat
  BY LenProperties
<1>2. /\ Prefix(lines, 0) = <<>>
      /\ \A n \in 0 .. Len(lines) : Prefix(lines, n) \in Seq(Cmd)
      /\ \A n \in 1 .. Len(lines) :
           Prefix(lines, n) = Prefix(lines, n - 1) \o Commands(lines[n])
      /\ Prefix(lines, Len(lines)) = Text(lines)
  BY PrefixIs
<1>3. \A m \in 0 .. Len(lines) : \A n \in 0 .. m :
         Count(lines, n) \in Nat /\ Count(lines, n) <= Count(lines, m)
  <2> TAKE m \in 0 .. Len(lines)
  <2> TAKE n \in 0 .. m
  <2>1. n \in 0 .. Len(lines)
    BY <1>1
  <2> QED
    BY <2>1, CountStep, CountedAll DEF Counted
<1>4. 0 \in G
  <2>1. SubSeq(<<>>, 1, 0) = <<>>
    BY SubSeqEmpty
  <2>2. Inside(0)
    BY <1>2, <2>1, CountStep
  <2> QED
    BY <2>2
<1>5. ASSUME NEW m \in Nat, m \in G
      PROVE  m + 1 \in G
  <2> SUFFICES ASSUME m + 1 <= Len(lines), NEW n \in 0 .. m + 1
               PROVE  Prefix(lines, n) = SubSeq(Prefix(lines, m + 1), 1, Count(lines, n))
    OBVIOUS
  <2>1. /\ m + 1 \in 1 .. Len(lines) /\ (m + 1) - 1 = m /\ m \in 0 .. Len(lines)
        /\ m + 1 \in 0 .. Len(lines) /\ m <= Len(lines)
    BY <1>1
  <2> DEFINE p == Prefix(lines, m)
             w == Commands(lines[m + 1])
             v == Prefix(lines, m + 1)
  <2>2. v = p \o w /\ p \in Seq(Cmd) /\ v \in Seq(Cmd)
    BY <1>2, <2>1
  <2>3. w \in Seq(Cmd)
    <3>1. lines[m + 1] \in FLine
      BY <2>1, ElementOfSeq
    <3> QED
      BY <3>1, CommandsIs
  <2>4. CASE n \in 0 .. m
    <3>1. Prefix(lines, n) = SubSeq(p, 1, Count(lines, n))
      BY <1>5, <2>1, <2>4
    <3>2. Count(lines, n) \in 0 .. Len(p)
      BY <1>3, <2>1, <2>4 DEF Count
    <3> HIDE DEF p, w, v
    <3>3. SubSeq(p \o w, 1, Count(lines, n)) = SubSeq(p, 1, Count(lines, n))
      BY <2>2, <2>3, <3>2, SubSeqLeft
    <3>4. SubSeq(v, 1, Count(lines, n)) = SubSeq(p, 1, Count(lines, n))
      BY <2>2, <3>3
    <3> QED
      BY <3>1, <3>4 DEF v
  <2>5. CASE n = m + 1
    <3>1. SubSeq(v, 1, Len(v)) = v
      BY <2>2, SubSeqFull
    <3> QED
      BY <2>5, <3>1 DEF Count
  <2> QED
    BY <2>4, <2>5
<1>6. Nat \subseteq G
  <2> HIDE DEF G
  <2> QED
    BY <1>4, <1>5, Induction
<1>7. Inside(Len(lines)) /\ Count(lines, Len(lines)) = Len(Text(lines))
  <2>1. Len(lines) \in G
    BY <1>1, <1>6
  <2>2. Len(lines) <= Len(lines)
    BY <1>1
  <2>3. Inside(Len(lines))
    BY <2>1, <2>2
  <2> QED
    BY <1>2, <2>3 DEF Count
<1>8. Len(lines) \in 0 .. Len(lines)
  BY <1>1
<1>9. ASSUME NEW n \in 0 .. Len(lines)
      PROVE  Count(lines, n) \in 0 .. Len(Text(lines))
  <2>1. Count(lines, n) \in Nat /\ Count(lines, Len(lines)) \in Nat
        /\ Count(lines, n) <= Count(lines, Len(lines))
    BY <1>3, <1>8
  <2> QED
    BY <1>7, <2>1
<1> QED
  BY <1>2, <1>7, <1>9

LEMMA FileSeq ==
  ASSUME NEW f \in Files
  PROVE  f \in Seq(FLine)
<1> DEFINE m == Len(f)
<1>1. /\ f \in Seq(FileLine)
      /\ \A k \in DOMAIN f : /\ LineOK(f[k])
                             /\ f[k].name \in {"", "__LABEL_SET"} => f[k].label # NoLabel
  BY FilesAssumption DEF FilesOK
<1>2. m \in Nat /\ DOMAIN f = 1 .. m /\ f = [k \in 1 .. m |-> f[k]]
      /\ \A k \in 1 .. m : f[k] \in FileLine
  BY <1>1, LenProperties, ElementOfSeq
<1>3. \A k \in 1 .. m : f[k] \in FLine
  BY <1>1, <1>2, Zenon DEF FLine
<1> HIDE DEF m
<1> QED
  BY <1>2, <1>3, MakeSeq

-----------------------------------------------------------------------------
(* Which lines give a label an address.                                    *)
LEMMA MinExists ==
  ASSUME NEW T, T \subseteq Nat, T # {}
  PROVE  \E m \in T : \A k \in T : m <= k
<1>1. PICK m \in T : \A k \in T : ~ (<<k, m>> \in OpToRel(<, Nat))
  <2>1. PICK c \in T : TRUE
    OBVIOUS
  <2> QED
    BY <2>1, NatLessThanWellFounded, WFMin
<1>2. ASSUME NEW k \in T
      PROVE  m <= k
  <2>1. k \in Nat /\ m \in Nat
    OBVIOUS
  <2>2. ~ (k < m)
    BY <1>1, <2>1 DEF OpToRel
  <2> QED
    BY <2>1, <2>2
<1> QED
  BY <1>2

LEMMA CarriesIs ==
  ASSUME file \in Files, NEW k \in DOMAIN file
  PROVE  Carries(k) <=> Carried(file, k, Len(file))
<1> DEFINE m == Len(file)
           F == Follows(k)
           first == CHOOSE j \in F : \A n \in F : j <= n
<1>1. m \in Nat /\ k \in 1 .. m
  BY FileSeq, LenProperties
<1>2. \A j : j \in F <=> j \in k + 1 .. m /\ file[j].name # "__LABEL_SET"
  BY DEF Follows
<1>3. F \subseteq Nat
  BY <1>1, <1>2
<1>4. CASE file[k].name = "__LABEL_SET"
  <2>1. Carries(k) <=> F # {} /\ file[first].name # ""
    BY <1>4, Zenon DEF Carries
  <2>2. Carried(file, k, m) <=>
          \E j \in k + 1 .. m : Ordinary(file[j]) /\ \A o \in k + 1 .. j - 1 : Sets(file[o])
    <3>1. Sets(file[k]) /\ ~ Ordinary(file[k])
      BY <1>4 DEF Sets, Ordinary
    <3> QED
      BY <3>1, Zenon DEF Carried
  <2> HIDE DEF F
  <2>3. F # {} => first \in F /\ \A n \in F : first <= n
    <3>1. ASSUME F # {}
          PROVE  \E j \in F : \A n \in F : j <= n
      BY <1>3, <3>1, MinExists
    <3> QED
      BY <3>1, Zenon
  <2> HIDE DEF first
  <2>4. ASSUME F # {}, file[first].name # ""
        PROVE  \E j \in k + 1 .. m : Ordinary(file[j]) /\ \A o \in k + 1 .. j - 1 : Sets(file[o])
    <3>1. first \in k + 1 .. m /\ Ordinary(file[first])
      BY <1>2, <2>3, <2>4 DEF Ordinary
    <3>2. ASSUME NEW o \in k + 1 .. first - 1
          PROVE  Sets(file[o])
      <4>1. o \in k + 1 .. m /\ ~ (first <= o)
        BY <1>1, <3>1
      <4>2. o \notin F
        BY <2>3, <4>1
      <4> QED
        BY <1>2, <4>1, <4>2 DEF Sets
    <3> QED
      BY <3>1, <3>2
  <2>5. ASSUME NEW j \in k + 1 .. m, Ordinary(file[j]), \A o \in k + 1 .. j - 1 : Sets(file[o])
        PROVE  F # {} /\ file[first].name # ""
    <3>1. j \in F
      BY <1>2, <2>5 DEF Ordinary
    <3>2. first \in F /\ first <= j
      BY <2>3, <3>1
    <3>3. ~ (first < j)
      <4>1. ASSUME first < j
            PROVE  FALSE
        <5>1. first \in k + 1 .. j - 1
          BY <1>1, <1>2, <3>2, <4>1
        <5>2. Sets(file[first])
          BY <2>5, <5>1
        <5> QED
          BY <1>2, <3>2, <5>2 DEF Sets
      <4> QED
        BY <4>1
    <3>4. first = j
      BY <1>3, <3>1, <3>2, <3>3
    <3> QED
      BY <2>5, <3>1, <3>4 DEF Ordinary
  <2> QED
    BY <2>1, <2>2, <2>4, <2>5, Zenon DEF m
<1>5. CASE file[k].name # "__LABEL_SET"
  <2>1. ~ Sets(file[k]) /\ (Ordinary(file[k]) <=> file[k].name \notin {"", "__LABEL_SET"})
    BY <1>5 DEF Sets, Ordinary
  <2>2. Carries(k) <=> file[k].name \notin {"", "__LABEL_SET"} /\ file[k].label # NoLabel
    BY <1>5, Zenon DEF Carries
  <2>3. Carried(file, k, m) <=> Ordinary(file[k]) /\ file[k].label # NoLabel
    BY <2>1, Zenon DEF Carried
  <2> QED
    BY <2>1, <2>2, <2>3 DEF m
<1> QED
  BY <1>4, <1>5

-----------------------------------------------------------------------------
(* Tokens whose macros find their operands.                                *)
ServedTok == {t \in Tok : CmdOf(t) \in Cmd}

LEMMA CmdsIs ==
  ASSUME NEW toks \in Seq(ServedTok)
  PROVE  /\ toks \in Seq(Tok)
         /\ Cmds(toks) \in Seq(Cmd) /\ Len(Cmds(toks)) = Len(toks)
         /\ \A k \in 1 .. Len(toks) : Cmds(toks)[k] = CmdOf(toks[k])
<1> DEFINE m == Len(toks)
           p == Cmds(toks)
<1>1. /\ m \in Nat /\ DOMAIN toks = 1 .. m /\ toks = [k \in 1 .. m |-> toks[k]]
      /\ \A k \in 1 .. m : toks[k] \in ServedTok
  BY LenProperties, ElementOfSeq
<1>2. p = [k \in 1 .. m |-> p[k]] /\ \A k \in 1 .. m : p[k] = CmdOf(toks[k])
  BY <1>1 DEF Cmds
<1>3. \A k \in 1 .. m : toks[k] \in Tok /\ CmdOf(toks[k]) \in Cmd
  BY <1>1 DEF ServedTok
<1> HIDE DEF m, p
<1>4. toks \in Seq(Tok)
  BY <1>1, <1>3, MakeSeq
<1>5. p \in Seq(Cmd) /\ Len(p) = m
  BY <1>1, <1>2, <1>3, MakeSeq
<1> QED
  BY <1>2, <1>4, <1>5 DEF m, p

LEMMA ServedToks ==
  ASSUME NEW toks \in Seq(Tok), Cmds(toks) \in Seq(Cmd)
  PROVE  toks \in Seq(ServedTok)
<1> DEFINE m == Len(toks)
           p == Cmds(toks)
<1>1. /\ m \in Nat /\ DOMAIN toks = 1 .. m /\ toks = [k \in 1 .. m |-> toks[k]]
      /\ \A k \in 1 .. m : toks[k] \in Tok
  BY LenProperties, ElementOfSeq
<1>2. DOMAIN p = 1 .. m /\ \A k \in 1 .. m : p[k] = CmdOf(toks[k])
  BY <1>1 DEF Cmds
<1>3. Len(p) \in Nat /\ DOMAIN p = 1 .. Len(p) /\ \A k \in 1 .. Len(p) : p[k] \in Cmd
  BY LenProperties, ElementOfSeq
<1>4. \A k \in 1 .. m : toks[k] \in ServedTok
  <2> HIDE DEF m, p
  <2> QED
    BY <1>1, <1>2, <1>3 DEF ServedTok
<1> HIDE DEF m
<1> QED
  BY <1>1, <1>4, MakeSeq

LEMMA CmdsConcat ==
  ASSUME NEW s \in Seq(ServedTok), NEW t \in Seq(ServedTok)
  PROVE  Cmds(s \o t) = Cmds(s) \o Cmds(t)
<1> DEFINE m == Len(s)
           n == Len(t)
           p == Cmds(s)
           q == Cmds(t)
           r == Cmds(s \o t)
<1>1. /\ m \in Nat /\ n \in Nat /\ s \o t \in Seq(ServedTok) /\ Len(s \o t) = m + n
      /\ \A k \in 1 .. m + n : (s \o t)[k] = IF k <= m THEN s[k] ELSE t[k - m]
  BY LenProperties, ConcatProperties
<1>2. /\ p \in Seq(Cmd) /\ Len(p) = m /\ \A k \in 1 .. m : p[k] = CmdOf(s[k])
      /\ q \in Seq(Cmd) /\ Len(q) = n /\ \A k \in 1 .. n : q[k] = CmdOf(t[k])
  BY CmdsIs
<1>3. r \in Seq(Cmd) /\ Len(r) = m + n /\ \A k \in 1 .. m + n : r[k] = CmdOf((s \o t)[k])
  BY <1>1, CmdsIs
<1> HIDE DEF m, n, p, q, r
<1>4. /\ p \o q \in Seq(Cmd) /\ Len(p \o q) = m + n
      /\ \A k \in 1 .. m + n : (p \o q)[k] = IF k <= m THEN p[k] ELSE q[k - m]
  BY <1>2, ConcatProperties
<1>5. ASSUME NEW k \in 1 .. m + n
      PROVE  r[k] = (p \o q)[k]
  <2>1. CASE k <= m
    <3>1. k \in 1 .. m
      BY <1>1, <2>1
    <3> QED
      BY <1>1, <1>2, <1>3, <1>4, <2>1, <3>1
  <2>2. CASE ~ (k <= m)
    <3>1. k - m \in 1 .. n
      BY <1>1, <2>2
    <3> QED
      BY <1>1, <1>2, <1>3, <1>4, <2>2, <3>1, ZenonT(60)
  <2> QED
    BY <2>1, <2>2
<1> QED
  BY <1>3, <1>4, <1>5, SeqEqual DEF p, q, r

-----------------------------------------------------------------------------
(* Where the labels of tokens stand once every macro is unfolded: the      *)
(* number of words in front of the token.                                  *)
Before(toks, j) == Len(Final(SubSeq(Cmds(toks), 1, j - 1)))
Holding(toks, l) == {j \in DOMAIN toks : Has(toks[j].labels, l)}
Spots(toks, l)  == {Before(toks, j) : j \in Holding(toks, l)}
Size(toks)      == Len(Final(Cmds(toks)))
Shifted(n, S)   == {n + x : x \in S}

LEMMA BeforeConcat ==
  ASSUME NEW s \in Seq(ServedTok), NEW t \in Seq(ServedTok)
  PROVE  /\ Size(s) \in Nat
         /\ \A j \in 1 .. Len(s) : Before(s \o t, j) = Before(s, j)
         /\ \A j \in 1 .. Len(t) : Before(s \o t, Len(s) + j) = Size(s) + Before(t, j)
<1> DEFINE m == Len(s)
           n == Len(t)
           p == Cmds(s)
           q == Cmds(t)
<1>1. m \in Nat /\ n \in Nat /\ Cmds(s \o t) = p \o q
  BY LenProperties, CmdsConcat
<1>2. p \in Seq(Cmd) /\ Len(p) = m /\ q \in Seq(Cmd) /\ Len(q) = n
  BY CmdsIs
<1>3. Size(s) \in Nat
  BY <1>2, FinalType, LenProperties DEF Size
<1>4. ASSUME NEW j \in 1 .. m
      PROVE  Before(s \o t, j) = Before(s, j)
  <2>1. j - 1 \in 0 .. Len(p)
    BY <1>1, <1>2
  <2> HIDE DEF p, q
  <2>2. SubSeq(p \o q, 1, j - 1) = SubSeq(p, 1, j - 1)
    BY <1>2, <2>1, SubSeqLeft
  <2> QED
    BY <1>1, <2>2 DEF Before, p
<1>5. ASSUME NEW j \in 1 .. n
      PROVE  Before(s \o t, m + j) = Size(s) + Before(t, j)
  <2>1. j - 1 \in 0 .. Len(q) /\ (m + j) - 1 = Len(p) + (j - 1)
    BY <1>1, <1>2
  <2> DEFINE r == SubSeq(q, 1, j - 1)
  <2> HIDE DEF p, q, m, n
  <2>2. SubSeq(p \o q, 1, Len(p) + (j - 1)) = p \o r
    BY <1>2, <2>1, SubSeqRight
  <2>3. r \in Seq(Cmd)
    BY <1>2, <2>1, SubSeqType
  <2> HIDE DEF r
  <2>4. /\ Final(p \o r) = Final(p) \o Final(r)
        /\ Final(p) \in Seq(Cmd) /\ Final(r) \in Seq(Cmd)
    BY <1>2, <2>3, FinalConcat, FinalType
  <2>5. Len(Final(p) \o Final(r)) = Len(Final(p)) + Len(Final(r))
    BY <2>4, ConcatProperties
  <2>6. Before(s \o t, m + j) = Len(Final(SubSeq(p \o q, 1, Len(p) + (j - 1))))
    BY <1>1, <2>1 DEF Before
  <2>7. Before(t, j) = Len(Final(r)) /\ Size(s) = Len(Final(p))
    BY DEF Before, Size, r, q, p
  <2> QED
    BY <2>2, <2>4, <2>5, <2>6, <2>7
<1> QED
  BY <1>3, <1>4, <1>5 DEF m, n

LEMMA SpotsConcat ==
  ASSUME NEW s \in Seq(ServedTok), NEW t \in Seq(ServedTok), NEW l
  PROVE  Spots(s \o t, l) = Spots(s, l) \cup Shifted(Size(s), Spots(t, l))
<1> DEFINE m == Len(s)
           n == Len(t)
           u == s \o t
<1>1. /\ m \in Nat /\ n \in Nat /\ u \in Seq(ServedTok) /\ Len(u) = m + n
      /\ DOMAIN s = 1 .. m /\ DOMAIN t = 1 .. n /\ DOMAIN u = 1 .. m + n
      /\ \A k \in 1 .. m + n : u[k] = IF k <= m THEN s[k] ELSE t[k - m]
  BY LenProperties, ConcatProperties
<1>2. /\ \A j \in 1 .. m : Before(u, j) = Before(s, j)
      /\ \A j \in 1 .. n : Before(u, m + j) = Size(s) + Before(t, j)
  BY BeforeConcat
<1> HIDE DEF m, n, u
<1>3. \A j \in 1 .. m : j \in Holding(u, l) <=> j \in Holding(s, l)
  <2> SUFFICES ASSUME NEW j \in 1 .. m
               PROVE  j \in Holding(u, l) <=> j \in Holding(s, l)
    OBVIOUS
  <2>1. j \in 1 .. m + n /\ u[j] = s[j]
    BY <1>1
  <2> QED
    BY <1>1, <2>1 DEF Holding
<1>4. \A j \in 1 .. n : m + j \in Holding(u, l) <=> j \in Holding(t, l)
  <2> SUFFICES ASSUME NEW j \in 1 .. n
               PROVE  m + j \in Holding(u, l) <=> j \in Holding(t, l)
    OBVIOUS
  <2>1. m + j \in 1 .. m + n /\ ~ (m + j <= m) /\ (m + j) - m = j
    BY <1>1
  <2>2. u[m + j] = t[j]
    BY <1>1, <2>1
  <2> QED
    BY <1>1, <2>1, <2>2 DEF Holding
<1>5. /\ Holding(s, l) \subseteq 1 .. m /\ Holding(t, l) \subseteq 1 .. n
      /\ Holding(u, l) \subseteq 1 .. m + n
  BY <1>1 DEF Holding
<1>6. ASSUME NEW x \in Spots(u, l)
      PROVE  x \in Spots(s, l) \cup Shifted(Size(s), Spots(t, l))
  <2>1. PICK j \in Holding(u, l) : x = Before(u, j)
    BY DEF Spots
  <2>2. CASE j \in 1 .. m
    <3>1. j \in Holding(s, l) /\ x = Before(s, j)
      BY <1>2, <1>3, <2>1, <2>2
    <3> QED
      BY <3>1, Zenon DEF Spots
  <2>3. CASE j \notin 1 .. m
    <3>1. j - m \in 1 .. n /\ m + (j - m) = j
      BY <1>1, <1>5, <2>1, <2>3
    <3>2. j - m \in Holding(t, l) /\ x = Size(s) + Before(t, j - m)
      BY <1>2, <1>4, <2>1, <3>1
    <3> QED
      BY <3>2, Zenon DEF Spots, Shifted
  <2> QED
    BY <2>2, <2>3
<1>7. ASSUME NEW x \in Spots(s, l)
      PROVE  x \in Spots(u, l)
  <2>1. PICK j \in Holding(s, l) : x = Before(s, j)
    BY DEF Spots
  <2>2. j \in Holding(u, l) /\ x = Before(u, j)
    BY <1>2, <1>3, <1>5, <2>1
  <2> QED
    BY <2>2, Zenon DEF Spots
<1>8. ASSUME NEW y \in Spots(t, l)
      PROVE  Size(s) + y \in Spots(u, l)
  <2>1. PICK j \in Holding(t, l) : y = Before(t, j)
    BY DEF Spots
  <2>2. m + j \in Holding(u, l) /\ Size(s) + y = Before(u, m + j)
    BY <1>2, <1>4, <1>5, <2>1
  <2> QED
    BY <2>2, Zenon DEF Spots
<1> QED
  BY <1>6, <1>7, <1>8, Zenon DEF u, Shifted

(* The labels of the file's tokens stand where the words of their lines    *)
(* start.                                                                  *)
Homes(l)     == {Start(k) : k \in Bearers(l)}
Placed(toks) == \A l \in Labels : Spots(toks, l) = Homes(l)

LEMMA StartIs ==
  ASSUME file \in Files, NEW k \in DOMAIN file
  PROVE  /\ Start(k) = Len(Final(Prefix(file, k - 1)))
         /\ k \in 1 .. Len(file) /\ k - 1 \in 0 .. Len(file)
<1>1. k \in 1 .. Len(file) /\ Len(file) \in Nat
  BY FileSeq, LenProperties
<1> QED
  BY <1>1 DEF Start, Words, Final, Prefix

LEMMA PlacedInit ==
  ASSUME file \in Files
  PROVE  Placed(tokenize(file))
<1> DEFINE toks == tokenize(file)
           m == Len(file)
<1>1. file \in Seq(FLine) /\ m \in Nat /\ DOMAIN file = 1 .. m /\ m \in 0 .. m
  BY FileSeq, LenProperties
<1>2. /\ toks \in Seq(Tok) /\ Cmds(toks) = Text(file)
      /\ \A j \in 1 .. Len(toks) : Labelled(file, m, j, toks[j].labels)
  BY <1>1, TokenizeIs
<1>3. /\ Text(file) \in Seq(Cmd) /\ Count(file, m) = Len(Text(file))
  BY <1>1, PrefixIs DEF Count
<1>4. toks \in Seq(ServedTok)
  BY <1>2, <1>3, ServedToks
<1>5. Len(toks) = Len(Text(file)) /\ Len(toks) \in Nat /\ DOMAIN toks = 1 .. Len(toks)
  BY <1>2, <1>4, CmdsIs, LenProperties
<1>6. \A k \in 1 .. m : Carries(k) <=> Carried(file, k, m)
  BY <1>1, CarriesIs
<1>7. \A k \in 1 .. m : /\ Count(file, k - 1) \in Nat
                        /\ Start(k) = Len(Final(SubSeq(Text(file), 1, Count(file, k - 1))))
  <2> SUFFICES ASSUME NEW k \in 1 .. m
               PROVE  /\ Count(file, k - 1) \in Nat
                      /\ Start(k) = Len(Final(SubSeq(Text(file), 1, Count(file, k - 1))))
    OBVIOUS
  <2>1. Start(k) = Len(Final(Prefix(file, k - 1))) /\ k - 1 \in 0 .. m
    BY <1>1, StartIs
  <2>2. /\ Prefix(file, k - 1) = SubSeq(Text(file), 1, Count(file, k - 1))
        /\ Count(file, k - 1) \in Nat
    BY <1>1, <2>1, PrefixOfText, CountStep
  <2> QED
    BY <2>1, <2>2
<1>8. \A k \in 1 .. m : Carried(file, k, m) => Count(file, k - 1) < Count(file, m)
  BY <1>1, CountedAll DEF Counted
<1>9. \A j : Before(toks, j) = Len(Final(SubSeq(Text(file), 1, j - 1)))
  BY <1>2 DEF Before
<1> HIDE DEF toks, m
<1>10. SUFFICES ASSUME NEW l \in Labels
                PROVE  Spots(toks, l) = {Start(k) : k \in Bearers(l)}
  BY DEF Placed, Homes, toks
<1>11. ASSUME NEW j \in 1 .. Len(toks)
       PROVE  Has(toks[j].labels, l) <=>
                \E k \in 1 .. m : /\ file[k].label = l /\ Carries(k)
                                  /\ Count(file, k - 1) = j - 1
  <2>1. Has(toks[j].labels, l) <=>
          \E k \in 1 .. m : /\ file[k].label = l /\ Carried(file, k, m)
                            /\ Count(file, k - 1) = j - 1
    BY <1>2, Zenon DEF Labelled
  <2> QED
    BY <1>6, <2>1, Zenon
<1>12. ASSUME NEW x \in Spots(toks, l)
       PROVE  \E k \in Bearers(l) : x = Start(k)
  <2>1. PICK j \in 1 .. Len(toks) : Has(toks[j].labels, l) /\ x = Before(toks, j)
    BY <1>5 DEF Spots, Holding
  <2>2. PICK k \in 1 .. m : /\ file[k].label = l /\ Carries(k)
                            /\ Count(file, k - 1) = j - 1
    BY <1>11, <2>1
  <2>3. x = Start(k)
    BY <1>7, <1>9, <2>1, <2>2
  <2> QED
    BY <1>1, <2>2, <2>3 DEF Bearers
<1>13. ASSUME NEW k \in Bearers(l)
       PROVE  Start(k) \in Spots(toks, l)
  <2>1. k \in 1 .. m /\ file[k].label = l /\ Carries(k)
    BY <1>1 DEF Bearers
  <2> DEFINE j == Count(file, k - 1) + 1
  <2>2. j \in 1 .. Len(toks) /\ j - 1 = Count(file, k - 1)
    BY <1>3, <1>5, <1>6, <1>7, <1>8, <2>1
  <2>3. Start(k) = Before(toks, j)
    BY <1>7, <1>9, <2>1, <2>2
  <2> HIDE DEF j
  <2>4. Has(toks[j].labels, l)
    BY <1>11, <2>1, <2>2
  <2> QED
    BY <1>5, <2>2, <2>3, <2>4 DEF Spots, Holding
<1> QED
  BY <1>12, <1>13, Zenon

-----------------------------------------------------------------------------
(* What stands in the place of a token that names a macro.                 *)
FilledLine(l, x) ==
  IF l.name # "RAW" THEN Line(NoLabel, l.name, x)
  ELSE IF x[1][1] = "label" THEN Line(x[1][2], "", <<>>)
  ELSE Line(NoLabel, "RAW", x)

LEMMA NamesAre ==
  /\ "RAW" \in Names /\ "" \notin Names /\ "__LABEL_SET" \notin Names
  /\ NoLabel \notin Labels /\ MacroLibs("") = {}
<1>1. /\ "RAW" \in Names /\ "" \notin Names /\ "__LABEL_SET" \notin Names
      /\ NoLabel \notin Labels
  BY NamesAssumption DEF NamesOK, Known
<1> QED
  BY <1>1, LibsAssumption DEF LibsOK, MacroLibs

LEMMA LabelOperand ==
  ASSUME NEW o \in Operand, o[1] = "label"
  PROVE  o[2] \in Labels /\ o = Label(o[2])
<1>1. o \notin {"reg"} \X RegisterNumbers /\ o \notin {"num"} \X Numbers
  OBVIOUS
<1>2. o \in {"label"} \X Labels
  BY <1>1, Zenon DEF Operand
<1> QED
  BY <1>2 DEF Label

LEMMA FilledLineIs ==
  ASSUME NEW l \in EntryLine, NEW x \in Seq(Operand), Served(l.name, x),
         l.name = "RAW" => Len(x) = 1
  PROVE  /\ FilledLine(l, x) \in FLine
         /\ Commands(FilledLine(l, x)) = <<[name |-> l.name, args |-> x]>>
         /\ ~ Sets(FilledLine(l, x))
         /\ Ordinary(FilledLine(l, x)) => FilledLine(l, x).label = NoLabel
<1>1. l.name \in Names /\ l.name # "" /\ l.name # "__LABEL_SET"
  BY NamesAre DEF EntryLine
<1>2. CASE l.name # "RAW"
  <2> DEFINE f == Line(NoLabel, l.name, x)
  <2>1. FilledLine(l, x) = f
    BY <1>2 DEF FilledLine
  <2>2. f.label = NoLabel /\ f.name = l.name /\ f.args = x
    BY DEF Line
  <2>3. f \in FileLine
    BY <1>1 DEF Line, FileLine
  <2>4. f \in FLine
    BY <1>1, <1>2, <2>2, <2>3 DEF FLine, LineOK
  <2>5. NameOf(f) = l.name
    BY <1>2, <2>2 DEF NameOf
  <2> HIDE DEF f
  <2>6. Commands(f) = <<[name |-> l.name, args |-> x]>>
    BY <1>1, <2>2, <2>5 DEF Commands
  <2> QED
    BY <1>1, <2>1, <2>2, <2>4, <2>6 DEF Sets, Ordinary
<1>3. CASE l.name = "RAW" /\ x[1][1] = "label"
  <2> DEFINE f == Line(x[1][2], "", <<>>)
  <2>1. FilledLine(l, x) = f
    BY <1>3 DEF FilledLine
  <2>2. f.label = x[1][2] /\ f.name = "" /\ f.args = <<>>
    BY DEF Line
  <2>3. Len(x) = 1 /\ x[1] \in Operand
    BY <1>3, ElementOfSeq
  <2>4. x[1][2] \in Labels /\ x[1] = Label(x[1][2])
    BY <1>3, <2>3, LabelOperand
  <2>5. x = <<x[1]>>
    BY <2>3, LenProperties
  <2>6. <<>> \in Seq(Operand)
    BY EmptySeq
  <2>7. f \in FileLine
    BY <2>4, <2>6 DEF Line, FileLine
  <2>8. Served("", <<>>)
    BY NamesAre DEF Served
  <2>9. f \in FLine
    BY <2>2, <2>4, <2>7, <2>8, NamesAre DEF FLine, LineOK
  <2> HIDE DEF f
  <2>10. Commands(f) = <<[name |-> "RAW", args |-> <<Label(x[1][2])>>]>>
    BY <2>2 DEF Commands
  <2> QED
    BY <1>3, <2>1, <2>2, <2>4, <2>5, <2>9, <2>10 DEF Sets, Ordinary
<1>4. CASE l.name = "RAW" /\ x[1][1] # "label"
  <2> DEFINE f == Line(NoLabel, "RAW", x)
  <2>1. FilledLine(l, x) = f
    BY <1>4 DEF FilledLine
  <2>2. f.label = NoLabel /\ f.name = "RAW" /\ f.args = x
    BY DEF Line
  <2>3. f \in FileLine
    BY NamesAre DEF Line, FileLine
  <2>4. f \in FLine
    BY <1>4, <2>2, <2>3 DEF FLine, LineOK
  <2>5. NameOf(f) = "RAW"
    BY <2>2 DEF NameOf
  <2> HIDE DEF f
  <2>6. Commands(f) = <<[name |-> "RAW", args |-> x]>>
    BY <2>2, <2>5 DEF Commands
  <2> QED
    BY <1>4, <2>1, <2>2, <2>4, <2>6 DEF Sets, Ordinary
<1> QED
  BY <1>2, <1>3, <1>4

LEMMA ReplacementIs ==
  ASSUME NEW t \in ServedTok, NEW n \in MacroLibs(t.name)
  PROVE  LET new == replacement(Libs[n][t.name], t.args)
         IN /\ new \in Seq(ServedTok) /\ Len(new) > 0
            /\ Cmds(new) = Unfolded(CmdOf(t))
            /\ \A j \in 1 .. Len(new) : \A l \in Labels : ~ Has(new[j].labels, l)
<1> DEFINE c == CmdOf(t)
           e == Libs[n][t.name]
           new == replacement(e, t.args)
           m == Len(e)
           u == Unfolded(c)
           X(k) == WithArgs(e[k], t.args)
           lines == [k \in DOMAIN e |-> FilledLine(e[k], X(k))]
<1>1. c \in Cmd /\ c.name = t.name /\ c.args = t.args /\ n \in MacroLibs(c.name)
  BY DEF ServedTok, CmdOf
<1>2. /\ e \in Seq(EntryLine) /\ m > 0 /\ m \in Nat /\ DOMAIN e = 1 .. m
      /\ \A k \in 1 .. m : LineOK(e[k])
  BY EntryIs, LenProperties
<1>3. \A k \in 1 .. m : /\ e[k] \in EntryLine /\ X(k) \in Seq(Operand)
                        /\ Len(X(k)) = Len(e[k].args) /\ Served(e[k].name, X(k))
  BY <1>1, <1>2, WithArgsType
<1>4. new = tokenize(lines)
  BY DEF replacement, FilledLine
<1>5. u = [k \in 1 .. m |-> [name |-> e[k].name, args |-> X(k)]]
  BY <1>1, <1>2, UnfoldedIs
<1>6. u \in Seq(Cmd) /\ Len(u) = m
  <2>1. u \in Seq(Cmd)
    BY <1>1, UnfoldedType
  <2>2. DOMAIN u = 1 .. m
    BY <1>5
  <2> HIDE DEF u, m
  <2> QED
    BY <1>2, <2>1, <2>2, LenProperties
<1>7. lines = [k \in 1 .. m |-> lines[k]] /\ \A k \in 1 .. m : lines[k] = FilledLine(e[k], X(k))
  BY <1>2
<1>8. ASSUME NEW k \in 1 .. m
      PROVE  /\ lines[k] \in FLine
             /\ Commands(lines[k]) = <<u[k]>>
             /\ ~ Sets(lines[k])
             /\ Ordinary(lines[k]) => lines[k].label = NoLabel
  <2> DEFINE x == X(k)
             l == e[k]
  <2>1. l \in EntryLine /\ x \in Seq(Operand) /\ Served(l.name, x)
    BY <1>3
  <2>2. l.name = "RAW" => Len(x) = 1
    BY <1>2, <1>3 DEF LineOK
  <2>3. lines[k] = FilledLine(l, x) /\ u[k] = [name |-> l.name, args |-> x]
    BY <1>5, <1>7
  <2> HIDE DEF x, l, u, lines
  <2> QED
    BY <2>1, <2>2, <2>3, FilledLineIs
<1> HIDE DEF lines, u, m, c, new, e
<1>9. lines \in Seq(FLine) /\ Len(lines) = m
  BY <1>2, <1>7, <1>8, MakeSeq
<1>10. Text(lines) = u
  <2> DEFINE p == Parts(lines)
  <2>1. DOMAIN lines = 1 .. m
    BY <1>7
  <2>2. p = [k \in 1 .. m |-> p[k]] /\ \A k \in 1 .. m : p[k] = Commands(lines[k])
    BY <2>1 DEF Parts
  <2>3. \A k \in 1 .. m : p[k] = <<u[k]>>
    BY <1>8, <2>2
  <2>4. \A k \in 1 .. m : p[k] \in Seq(Cmd)
    BY <1>8, <2>2, CommandsIs
  <2>5. Text(lines) = FlattenSeq(p)
    BY DEF Text, Parts
  <2> HIDE DEF p
  <2>6. p \in Seq(Seq(Cmd)) /\ Len(p) = m
    BY <1>2, <2>2, <2>4, MakeSeq
  <2> QED
    BY <1>6, <2>3, <2>5, <2>6, FlatSingles
<1>11. /\ new \in Seq(Tok) /\ Cmds(new) = u
       /\ \A j \in 1 .. Len(new) : Labelled(lines, m, j, new[j].labels)
  BY <1>4, <1>9, <1>10, TokenizeIs
<1>12. new \in Seq(ServedTok)
  BY <1>6, <1>11, ServedToks
<1>13. Len(new) = m
  BY <1>6, <1>11, <1>12, CmdsIs
<1>14. ASSUME NEW j \in 1 .. Len(new), NEW l \in Labels
       PROVE  ~ Has(new[j].labels, l)
  <2>1. ASSUME NEW k \in 1 .. m, Carried(lines, k, m)
        PROVE  FALSE
    BY <1>8, <2>1, Zenon DEF Carried
  <2> QED
    BY <1>11, <2>1, Zenon DEF Labelled
<1> QED
  BY <1>1, <1>2, <1>11, <1>12, <1>13, <1>14 DEF new, e, u, c

-----------------------------------------------------------------------------
(* A replacement disturbs neither the words nor the places of labels.      *)
LEMMA FinalEmpty == Final(<<>>) = <<>>
<1>1. <<>> \in Seq(Cmd) /\ MacroFree(<<>>)
  BY EmptySeq DEF MacroFree
<1> QED
  BY <1>1, FinalFree

LEMMA SpotsHead ==
  ASSUME NEW s \in Seq(ServedTok), Len(s) > 0, NEW l,
         \A k \in 2 .. Len(s) : ~ Has(s[k].labels, l)
  PROVE  Spots(s, l) = IF Has(s[1].labels, l) THEN {0} ELSE {}
<1>1. Len(s) \in Nat /\ DOMAIN s = 1 .. Len(s)
  BY LenProperties
<1>2. 1 .. Len(s) = {1} \cup (2 .. Len(s))
  BY <1>1
<1>3. Holding(s, l) = IF Has(s[1].labels, l) THEN {1} ELSE {}
  BY <1>1, <1>2, Zenon DEF Holding
<1>4. Before(s, 1) = 0
  <2>1. SubSeq(Cmds(s), 1, 1 - 1) = <<>>
    BY SubSeqEmpty
  <2> QED
    BY <2>1, FinalEmpty, EmptySeq DEF Before
<1>5. CASE Has(s[1].labels, l)
  <2>1. Holding(s, l) = {1}
    BY <1>3, <1>5
  <2> QED
    BY <1>4, <1>5, <2>1 DEF Spots
<1>6. CASE ~ Has(s[1].labels, l)
  <2>1. Holding(s, l) = {}
    BY <1>3, <1>6
  <2> QED
    BY <1>6, <2>1 DEF Spots
<1> QED
  BY <1>5, <1>6

LEMMA Split ==
  ASSUME NEW X, NEW s \in Seq(X), NEW j \in 1 .. Len(s)
  PROVE  LET p == SubSeq(s, 1, j - 1)
             q == SubSeq(s, j + 1, Len(s))
         IN /\ p \in Seq(X) /\ q \in Seq(X) /\ s[j] \in X
            /\ s = (p \o <<s[j]>>) \o q
            /\ Len(p) = j - 1 /\ Len(q) = Len(s) - j
<1> DEFINE m == Len(s)
           p == SubSeq(s, 1, j - 1)
           q == SubSeq(s, j + 1, m)
<1>1. m \in Nat /\ j \in 1 .. m /\ \A k \in 1 .. m : s[k] \in X
  BY LenProperties, ElementOfSeq
<1>2. j - 1 \in 0 .. Len(s)
  BY <1>1
<1>3. p \in Seq(X) /\ Len(p) = j - 1
  BY <1>2, SubSeqType
<1>4. j + 1 \in Int /\ m \in Int /\ \A k \in j + 1 .. m : s[k] \in X
  BY <1>1
<1>5. q \in Seq(X) /\ Len(q) = IF j + 1 <= m THEN (m - (j + 1)) + 1 ELSE 0
  BY <1>4, SubSeqProperties
<1>6. Len(q) = m - j
  BY <1>1, <1>5
<1>7. SubSeq(s, 1, j) = p \o <<s[j]>>
  <2>1. 1 \in 1 .. Len(s) /\ j \in 1 .. Len(s)
    BY <1>1
  <2> QED
    BY <2>1, SubSeqRecursiveSecond
<1>8. SubSeq(s, 1, j) \o q = s
  <2>1. 1 \in 1 .. Len(s) + 1 /\ j \in 1 - 1 .. m /\ m \in j .. Len(s)
    BY <1>1
  <2>2. SubSeq(s, 1, j) \o q = SubSeq(s, 1, m)
    BY <2>1, ConcatAdjacentSubSeq
  <2>3. SubSeq(s, 1, m) = s
    BY SubSeqFull
  <2> QED
    BY <2>2, <2>3
<1> QED
  BY <1>1, <1>3, <1>5, <1>6, <1>7, <1>8

LEMMA OneServed ==
  ASSUME NEW t \in ServedTok
  PROVE  <<t>> \in Seq(ServedTok) /\ Cmds(<<t>>) = <<CmdOf(t)>>
<1>1. Cmds(<<t>>) = <<CmdOf(t)>>
  BY DEF Cmds
<1> QED
  BY <1>1

LEMMA ReplacedToks ==
  ASSUME NEW toks \in Seq(ServedTok), NEW j \in 1 .. Len(toks),
         NEW n \in MacroLibs(toks[j].name), MacroFree(Final(Cmds(toks)))
  PROVE  LET new == replacement(Libs[n][toks[j].name], toks[j].args)
             nx  == SubSeq(toks, 1, j - 1) \o [new EXCEPT ![1].labels = toks[j].labels]
                      \o SubSeq(toks, j + 1, Len(toks))
         IN /\ nx \in Seq(ServedTok)
            /\ Final(Cmds(nx)) = Final(Cmds(toks))
            /\ \A l \in Labels : Spots(nx, l) = Spots(toks, l)
            /\ Len(new) \in Nat /\ Len(nx) = (Len(toks) - 1) + Len(new)
<1> DEFINE t   == toks[j]
           p   == SubSeq(toks, 1, j - 1)
           q   == SubSeq(toks, j + 1, Len(toks))
           new == replacement(Libs[n][t.name], t.args)
           w   == [new EXCEPT ![1].labels = t.labels]
           nx  == p \o w \o q
           c   == CmdOf(t)
           P   == Cmds(p)
           Q   == Cmds(q)
<1>1. /\ p \in Seq(ServedTok) /\ q \in Seq(ServedTok) /\ t \in ServedTok
      /\ toks = (p \o <<t>>) \o q /\ Len(p) = j - 1 /\ Len(q) = Len(toks) - j
  BY Split
<1>2. /\ new \in Seq(ServedTok) /\ Len(new) > 0 /\ Len(new) \in Nat
      /\ Cmds(new) = Unfolded(c)
      /\ \A k \in 1 .. Len(new) : \A l \in Labels : ~ Has(new[k].labels, l)
  BY <1>1, ReplacementIs, LenProperties
<1>3. t \in Tok /\ c \in Cmd
  BY <1>1 DEF ServedTok
<1>4. Len(toks) \in Nat
  BY LenProperties
<1> HIDE DEF t, p, q, new, c
<1>5. /\ w \in Seq(ServedTok) /\ Len(w) = Len(new)
      /\ w[1].labels = t.labels
      /\ \A k \in 1 .. Len(w) : CmdOf(w[k]) = CmdOf(new[k])
      /\ \A k \in 2 .. Len(w) : w[k] = new[k]
  <2> DEFINE o == [new[1] EXCEPT !.labels = t.labels]
  <2>1. 1 \in 1 .. Len(new) /\ new[1] \in ServedTok
    BY <1>2, ElementOfSeq
  <2>2. new[1] \in Tok /\ CmdOf(new[1]) \in Cmd
    BY <2>1 DEF ServedTok
  <2>3. o \in Tok /\ CmdOf(o) = CmdOf(new[1]) /\ o.labels = t.labels
    BY <1>3, <2>2 DEF Tok, CmdOf
  <2>4. o \in ServedTok
    BY <2>2, <2>3 DEF ServedTok
  <2>5. w = [new EXCEPT ![1] = o]
    OBVIOUS
  <2> HIDE DEF o, w
  <2>6. /\ w \in Seq(ServedTok) /\ Len(w) = Len(new)
        /\ \A k \in 1 .. Len(new) : w[k] = IF k = 1 THEN o ELSE new[k]
    BY <1>2, <2>1, <2>4, <2>5, ExceptSeq
  <2>7. w[1] = o
    BY <2>1, <2>6
  <2>8. \A k \in 2 .. Len(w) : w[k] = new[k]
    BY <1>2, <2>6
  <2>9. ASSUME NEW k \in 1 .. Len(w)
        PROVE  CmdOf(w[k]) = CmdOf(new[k])
    <3>1. CASE k = 1
      BY <2>3, <2>7, <3>1
    <3>2. CASE k # 1
      <4>1. k \in 2 .. Len(w)
        BY <1>2, <2>6, <3>2
      <4> QED
        BY <2>8, <4>1
    <3> QED
      BY <3>1, <3>2
  <2> QED
    BY <2>3, <2>6, <2>7, <2>8, <2>9
<1> HIDE DEF w
<1>6. Cmds(w) = Unfolded(c)
  <2>1. /\ Cmds(w) \in Seq(Cmd) /\ Len(Cmds(w)) = Len(w)
        /\ \A k \in 1 .. Len(w) : Cmds(w)[k] = CmdOf(w[k])
    BY <1>5, CmdsIs
  <2>2. /\ Cmds(new) \in Seq(Cmd) /\ Len(Cmds(new)) = Len(new)
        /\ \A k \in 1 .. Len(new) : Cmds(new)[k] = CmdOf(new[k])
    BY <1>2, CmdsIs
  <2>3. \A k \in 1 .. Len(Cmds(w)) : Cmds(w)[k] = Cmds(new)[k]
    BY <1>5, <2>1, <2>2
  <2>4. Cmds(w) = Cmds(new)
    BY <1>5, <2>1, <2>2, <2>3, SeqEqual
  <2> QED
    BY <1>2, <2>4
<1> DEFINE one == <<t>>
<1>7. /\ one \in Seq(ServedTok) /\ Cmds(one) = <<c>>
      /\ Len(one) = 1 /\ one[1] = t /\ toks = (p \o one) \o q
  BY <1>1, OneServed DEF c
<1> HIDE DEF one
<1>8. /\ p \o one \in Seq(ServedTok) /\ p \o w \in Seq(ServedTok)
      /\ Len(p \o w) = (j - 1) + Len(new)
  <2>1. p \o one \in Seq(ServedTok)
    BY <1>1, <1>7, ConcatProperties
  <2>2. p \o w \in Seq(ServedTok) /\ Len(p \o w) = Len(p) + Len(w)
    BY <1>1, <1>5, ConcatProperties
  <2> QED
    BY <1>1, <1>5, <2>1, <2>2
<1>9. nx \in Seq(ServedTok) /\ Len(nx) = ((j - 1) + Len(new)) + (Len(toks) - j)
  <2>1. (p \o w) \o q \in Seq(ServedTok) /\ Len((p \o w) \o q) = Len(p \o w) + Len(q)
    BY <1>1, <1>8, ConcatProperties
  <2> QED
    BY <1>1, <1>8, <2>1
<1>10. /\ Cmds(p \o one) = P \o <<c>> /\ Cmds(p \o w) = P \o Unfolded(c)
       /\ Cmds(toks) = (P \o <<c>>) \o Q /\ Cmds(nx) = (P \o Unfolded(c)) \o Q
  <2>1. Cmds(p \o one) = P \o <<c>> /\ Cmds(p \o w) = P \o Unfolded(c)
    BY <1>1, <1>5, <1>6, <1>7, CmdsConcat, ZenonT(60)
  <2>2. Cmds((p \o one) \o q) = Cmds(p \o one) \o Q
    BY <1>1, <1>8, CmdsConcat
  <2>3. Cmds((p \o w) \o q) = Cmds(p \o w) \o Q
    BY <1>1, <1>8, CmdsConcat
  <2> QED
    BY <1>7, <2>1, <2>2, <2>3
<1>11. P \in Seq(Cmd) /\ Q \in Seq(Cmd)
  BY <1>1, CmdsIs
<1>12. /\ Final((P \o Unfolded(c)) \o Q) = Final((P \o <<c>>) \o Q)
       /\ Final(P \o Unfolded(c)) = Final(P \o <<c>>)
  <2> HIDE DEF P, Q
  <2>1. MacroFree(Final((P \o <<c>>) \o Q))
    BY <1>10
  <2> QED
    BY <1>3, <1>11, <2>1, FinalReplaced
<1>13. Size(p \o w) = Size(p \o one)
  BY <1>10, <1>12 DEF Size
<1>14. ASSUME NEW l \in Labels
       PROVE  Spots(nx, l) = Spots(toks, l)
  <2>1. Spots(w, l) = Spots(one, l)
    <3>1. \A k \in 2 .. Len(w) : ~ Has(w[k].labels, l)
      BY <1>2, <1>5
    <3>2. Spots(w, l) = IF Has(t.labels, l) THEN {0} ELSE {}
      BY <1>2, <1>5, <3>1, SpotsHead
    <3>3. 2 .. 1 = {}
      OBVIOUS
    <3>4. Spots(one, l) = IF Has(t.labels, l) THEN {0} ELSE {}
      <4>1. Len(one) > 0 /\ \A k \in 2 .. Len(one) : ~ Has(one[k].labels, l)
        BY <1>7, <3>3
      <4> QED
        BY <1>7, <4>1, SpotsHead
    <3> QED
      BY <3>2, <3>4
  <2>2. Spots(p \o w, l) = Spots(p, l) \cup Shifted(Size(p), Spots(w, l))
    BY <1>1, <1>5, SpotsConcat
  <2>3. Spots(p \o one, l) = Spots(p, l) \cup Shifted(Size(p), Spots(one, l))
    BY <1>1, <1>7, SpotsConcat
  <2> DEFINE pw == p \o w
             po == p \o one
  <2>4. pw \in Seq(ServedTok) /\ po \in Seq(ServedTok)
    BY <1>8
  <2> HIDE DEF pw, po
  <2>5. Spots(pw \o q, l) = Spots(pw, l) \cup Shifted(Size(pw), Spots(q, l))
    BY <1>1, <2>4, SpotsConcat
  <2>6. Spots(po \o q, l) = Spots(po, l) \cup Shifted(Size(po), Spots(q, l))
    BY <1>1, <2>4, SpotsConcat
  <2> QED
    BY <1>7, <1>13, <2>1, <2>2, <2>3, <2>5, <2>6 DEF pw, po
<1>15. Len(nx) = (Len(toks) - 1) + Len(new)
  BY <1>2, <1>4, <1>9
<1> QED
  BY <1>2, <1>9, <1>10, <1>12, <1>14, <1>15 DEF t, p, q, new, w

-----------------------------------------------------------------------------
(* The last of the places of a label.                                      *)
LEMMA MaxExists ==
  ASSUME NEW n \in Nat, NEW T, T \subseteq 1 .. n, T # {}
  PROVE  \E m \in T : \A k \in T : k <= m
<1> DEFINE U == {j \in Nat : n - j \in T}
<1>1. U # {}
  <2>1. PICK k \in T : TRUE
    OBVIOUS
  <2>2. n - k \in Nat /\ n - (n - k) = k
    OBVIOUS
  <2> QED
    BY <2>1, <2>2
<1>2. U \subseteq Nat
  OBVIOUS
<1> HIDE DEF U
<1>3. PICK j \in U : \A o \in U : j <= o
  BY <1>1, <1>2, MinExists
<1>4. j \in Nat /\ n - j \in T
  BY <1>3 DEF U
<1>5. ASSUME NEW k \in T
      PROVE  k <= n - j
  <2>1. n - k \in Nat /\ n - (n - k) = k /\ k \in Nat
    OBVIOUS
  <2>2. n - k \in U
    BY <2>1 DEF U
  <2>3. j <= n - k
    BY <1>3, <2>2
  <2> QED
    BY <1>4, <2>1, <2>3
<1> QED
  BY <1>4, <1>5

Words0(lines, n) == Len(Final(Prefix(lines, n)))

LEMMA PrefixGrows ==
  ASSUME NEW lines \in Seq(FLine)
  PROVE  \A n \in 0 .. Len(lines) :
            /\ Words0(lines, n) \in Nat
            /\ \A k \in 0 .. n : Words0(lines, k) <= Words0(lines, n)
<1> DEFINE L(n) == Words0(lines, n)
           G == {n \in Nat : n <= Len(lines) => \A k \in 0 .. n : L(k) <= L(n)}
<1>1. Len(lines) \in Nat
  BY LenProperties
<1>2. \A n \in 0 .. Len(lines) : L(n) \in Nat
  BY PrefixIs, FinalType, LenProperties DEF Words0
<1>3. \A n \in 0 .. Len(lines) - 1 : L(n) <= L(n + 1)
  <2> SUFFICES ASSUME NEW n \in 0 .. Len(lines) - 1
               PROVE  L(n) <= L(n + 1)
    OBVIOUS
  <2>1. n + 1 \in 1 .. Len(lines) /\ n \in 0 .. Len(lines) /\ (n + 1) - 1 = n
    BY <1>1
  <2> DEFINE p == Prefix(lines, n)
             w == Commands(lines[n + 1])
  <2>2. Prefix(lines, n + 1) = p \o w /\ p \in Seq(Cmd)
    BY <2>1, PrefixIs
  <2>3. lines[n + 1] \in FLine
    BY <2>1, ElementOfSeq
  <2>4. w \in Seq(Cmd)
    BY <2>3, CommandsIs
  <2> HIDE DEF p, w
  <2>5. Final(p \o w) = Final(p) \o Final(w) /\ Final(p) \in Seq(Cmd) /\ Final(w) \in Seq(Cmd)
    BY <2>2, <2>4, FinalConcat, FinalType
  <2>6. Len(Final(p) \o Final(w)) = Len(Final(p)) + Len(Final(w))
        /\ Len(Final(p)) \in Nat /\ Len(Final(w)) \in Nat
    BY <2>5, ConcatProperties, LenProperties
  <2>7. L(n + 1) = Len(Final(p)) + Len(Final(w)) /\ L(n) = Len(Final(p))
    BY <2>2, <2>5, <2>6 DEF Words0, p
  <2> QED
    BY <2>6, <2>7
<1> HIDE DEF L
<1>4. 0 \in G
  <2>1. 0 \in 0 .. Len(lines)
    BY <1>1
  <2> QED
    BY <1>2, <2>1
<1>5. ASSUME NEW n \in Nat, n \in G
      PROVE  n + 1 \in G
  <2> SUFFICES ASSUME n + 1 <= Len(lines), NEW k \in 0 .. n + 1
               PROVE  L(k) <= L(n + 1)
    OBVIOUS
  <2>1. n \in 0 .. Len(lines) - 1 /\ n \in 0 .. Len(lines) /\ n + 1 \in 0 .. Len(lines)
        /\ n <= Len(lines) /\ k \in 0 .. Len(lines)
    BY <1>1
  <2>2. L(n) <= L(n + 1) /\ L(n) \in Nat /\ L(n + 1) \in Nat /\ L(k) \in Nat
    BY <1>2, <1>3, <2>1
  <2>3. CASE k \in 0 .. n
    <3>1. L(k) <= L(n)
      BY <1>5, <2>1, <2>3
    <3> QED
      BY <2>2, <3>1
  <2>4. CASE k = n + 1
    BY <2>2, <2>4
  <2> QED
    BY <2>3, <2>4
<1>6. Nat \subseteq G
  <2> HIDE DEF G
  <2> QED
    BY <1>4, <1>5, Induction
<1> QED
  BY <1>1, <1>2, <1>6 DEF L

LEMMA StartsGrow ==
  ASSUME file \in Files
  PROVE  \A k, m \in DOMAIN file : /\ Start(k) \in Nat
                                   /\ k <= m => Start(k) <= Start(m)
<1> SUFFICES ASSUME NEW k \in DOMAIN file, NEW m \in DOMAIN file
             PROVE  Start(k) \in Nat /\ (k <= m => Start(k) <= Start(m))
  OBVIOUS
<1>1. /\ Start(k) = Words0(file, k - 1) /\ k - 1 \in 0 .. Len(file)
      /\ Start(m) = Words0(file, m - 1) /\ m - 1 \in 0 .. Len(file)
      /\ k \in 1 .. Len(file) /\ m \in 1 .. Len(file) /\ Len(file) \in Nat
  BY StartIs, FileSeq, LenProperties DEF Words0
<1>2. k <= m => k - 1 \in 0 .. m - 1
  BY <1>1
<1> QED
  BY <1>1, <1>2, FileSeq, PrefixGrows

(* The address of a label is the last place where one of its lines starts. *)
LEMMA AddressIs ==
  ASSUME file \in Files, NEW l \in Labels, Bearers(l) # {}
  PROVE  Address(l) \in Homes(l) /\ \A x \in Homes(l) : x <= Address(l)
<1> DEFINE B == Bearers(l)
           last == CHOOSE k \in B : \A m \in B : m <= k
<1>1. B \subseteq 1 .. Len(file) /\ Len(file) \in Nat /\ DOMAIN file = 1 .. Len(file)
  BY FileSeq, LenProperties DEF Bearers
<1>2. Address(l) = Start(last)
  BY DEF Address
<1> HIDE DEF B
<1>3. \E k \in B : \A m \in B : m <= k
  BY <1>1, MaxExists DEF B
<1>4. last \in B /\ \A m \in B : m <= last
  BY <1>3, Zenon
<1> HIDE DEF last
<1>5. \A m \in B : Start(m) <= Start(last)
  BY <1>1, <1>4, StartsGrow
<1> QED
  BY <1>2, <1>4, <1>5 DEF Homes, B

-----------------------------------------------------------------------------
(* The words of the program.                                               *)
LEMMA WordsAre ==
  ASSUME file \in Files
  PROVE  /\ AllWords \in Seq(Cmd) /\ AllWords = Final(Text(file)) /\ MacroFree(AllWords)
         /\ Len(AllWords) \in Nat /\ Len(AllWords) <= 65536
         /\ DOMAIN AllWords = 1 .. Len(AllWords)
         /\ \A n \in DOMAIN AllWords : Fits(AllWords[n])
<1>1. AllWords = Words(file) /\ AllWords = Final(Text(file))
  BY DEF AllWords, Words, Final
<1>2. AllWords \in Seq(Cmd)
  BY <1>1, FileSeq, PrefixIs, FinalType
<1>3. Len(AllWords) <= 65536
  <2>1. Len(Words(file)) <= 65536
    BY WordsAssumption DEF WordsOK
  <2> QED
    BY <1>1, <2>1
<1>4. Len(AllWords) \in Nat /\ DOMAIN AllWords = 1 .. Len(AllWords)
  BY <1>2, LenProperties
<1>5. \A n \in DOMAIN AllWords : MacroLibs(AllWords[n].name) = {} /\ Fits(AllWords[n])
  <2>1. \A n \in DOMAIN Words(file) : /\ MacroLibs(Words(file)[n].name) = {}
                                       /\ Fits(Words(file)[n])
    BY WordsAssumption, SMT DEF WordsOK
  <2> QED
    BY <1>1, <2>1
<1>6. MacroFree(AllWords)
  BY <1>5 DEF MacroFree
<1>7. \A n \in DOMAIN AllWords : Fits(AllWords[n])
  BY <1>5
<1> QED
  BY <1>1, <1>2, <1>3, <1>4, <1>6, <1>7

(* Of tokens without macros every one is a word.                           *)
LEMMA BeforeFree ==
  ASSUME NEW toks \in Seq(ServedTok), MacroFree(Cmds(toks))
  PROVE  \A j \in 1 .. Len(toks) : Before(toks, j) = j - 1
<1> SUFFICES ASSUME NEW j \in 1 .. Len(toks)
             PROVE  Before(toks, j) = j - 1
  OBVIOUS
<1> DEFINE p == Cmds(toks)
           s == SubSeq(p, 1, j - 1)
<1>1. Len(toks) \in Nat /\ p \in Seq(Cmd) /\ Len(p) = Len(toks) /\ DOMAIN p = 1 .. Len(p)
  BY CmdsIs, LenProperties
<1>2. j - 1 \in 0 .. Len(p)
  BY <1>1
<1> HIDE DEF p
<1>3. s \in Seq(Cmd) /\ Len(s) = j - 1 /\ \A k \in 1 .. j - 1 : s[k] = p[k]
  BY <1>1, <1>2, SubSeqType
<1>4. MacroFree(s)
  <2>1. DOMAIN s = 1 .. j - 1
    BY <1>3, LenProperties
  <2>2. \A k \in 1 .. j - 1 : k \in DOMAIN p
    BY <1>1, <1>2
  <2> QED
    BY <1>3, <2>1, <2>2 DEF MacroFree, p
<1>5. Final(s) = s
  BY <1>3, <1>4, FinalFree
<1> QED
  BY <1>3, <1>5 DEF Before, p

-----------------------------------------------------------------------------
(* The inductive invariant.                                                *)
NotIn(toks, m) == \A j \in DOMAIN toks : toks[j].name \notin DOMAIN Libs[m]

(* What the round has passed without replacing anything.                   *)
Scanned ==
  replaced = 0 =>
    /\ \A m \in DOMAIN Libs : m < lib => NotIn(tokens, m)
    /\ lib \in DOMAIN Libs =>
         \A j \in DOMAIN tokens : j < i => tokens[j].name \notin DOMAIN Libs[lib]

Expanding == phase = "expand" =>
  /\ tokens \in Seq(ServedTok)
  /\ Final(Cmds(tokens)) = AllWords /\ Placed(tokens) /\ Scanned

Expanded == phase \in {"labels", "replace"} =>
  tokens \in Seq(ServedTok) /\ Cmds(tokens) = AllWords /\ Placed(tokens)

(* A label that a line gives an address has that address, and no other     *)
(* label has one.                                                          *)
Mapped == phase = "replace" =>
  /\ DOMAIN labelMap \subseteq Labels
  /\ \A l \in Labels : /\ l \in DOMAIN labelMap <=> Bearers(l) # {}
                       /\ l \in DOMAIN labelMap => labelMap[l] = Address(l)

Resolved(n) ==
  IF References(n) THEN <<Number(Address(AllWords[n].args[1][2]))>> ELSE AllWords[n].args

(* Behind o words the tokens are those of the program.                     *)
LinkedAt(o) ==
  /\ Len(tokens) = o + Len(AllWords)
  /\ \A n \in DOMAIN AllWords :
       tokens[o + n].name = AllWords[n].name /\ tokens[o + n].args = Resolved(n)

Filler(k) == IF autoJump /\ k <= 3 THEN autoJumpTo(offset)[k]
                                    ELSE Token(<<>>, "RAW", <<Number(0)>>)
Filling == \A k \in 1 .. offset : tokens[k] = Filler(k)

Linked == /\ phase = "offset" => LinkedAt(0)
          /\ phase \in {"encode", "done"} => LinkedAt(offset) /\ Filling

Written == phase = "done" =>
  /\ Len(output) \in Len(tokens) .. Len(tokens) + 1
  /\ \A k \in DOMAIN tokens : output[k] = Encoded(tokens[k])
  /\ cause = "" => \A k \in DOMAIN tokens : tokens[k].name \in Known

Causes ==
  /\ phase \notin {"done", "exited"} => cause = ""
  /\ phase = "done" => cause # "Undefined label referenced"
  /\ phase = "exited" => \E l \in Referred : Bearers(l) = {}

IInv ==
  /\ TypeOK
  /\ autoJump => offset >= 3
  /\ Expanding /\ Expanded /\ Mapped /\ Linked /\ Written /\ Causes

(* A step that keeps the file keeps what the program should become.        *)
LEMMA FileKept ==
  ASSUME file' = file
  PROVE  /\ AllWords' = AllWords /\ Referred' = Referred
         /\ \A k : Start(k)' = Start(k)
         /\ \A l : /\ Bearers(l)' = Bearers(l) /\ Homes(l)' = Homes(l)
                   /\ Address(l)' = Address(l)
         /\ \A n : References(n)' = References(n) /\ Resolved(n)' = Resolved(n)
<1>1. AllWords' = AllWords
  BY DEF AllWords
<1>2. \A k : Start(k)' = Start(k)
  BY DEF Start
<1>3. \A k : Carries(k)' = Carries(k)
  BY DEF Carries, Follows
<1>4. \A l : Bearers(l)' = Bearers(l)
  BY <1>3 DEF Bearers
<1>5. \A l : Homes(l)' = Homes(l)
  BY <1>2, <1>4 DEF Homes
<1>6. \A l : Address(l)' = Address(l)
  BY <1>2, <1>4 DEF Address
<1>7. Referred' = Referred
  BY <1>1 DEF Referred
<1>8. \A n : References(n)' = References(n)
  BY <1>1 DEF References
<1>9. \A n : Resolved(n)' = Resolved(n)
  BY <1>1, <1>6, <1>8 DEF Resolved
<1> QED
  BY <1>1, <1>2, <1>4, <1>5, <1>6, <1>7, <1>8, <1>9

LEMMA LibsAre ==
  /\ Len(Libs) \in Nat /\ DOMAIN Libs = 1 .. Len(Libs)
  BY LibsAssumption, LenProperties DEF LibsOK

LEMMA InitInv == Init => IInv
<1> SUFFICES ASSUME Init
             PROVE  IInv
  OBVIOUS
<1>1. /\ file \in Files /\ offset \in Offsets
      /\ tokens = tokenize(file) /\ phase = "expand" /\ lib = 1 /\ i = 1
      /\ replaced = 0 /\ labelMap = <<>> /\ output = <<>> /\ cause = ""
  BY DEF Init
<1>2. file \in Seq(FLine) /\ file \in Files
  BY <1>1, FileSeq
<1>3. tokens \in Seq(Tok) /\ Cmds(tokens) = Text(file) /\ Text(file) \in Seq(Cmd)
  <2>1. tokenize(file) \in Seq(Tok) /\ Cmds(tokenize(file)) = Text(file)
    BY <1>2, TokenizeIs
  <2>2. Len(file) \in 0 .. Len(file)
    BY <1>2, LenProperties
  <2>3. Text(file) \in Seq(Cmd)
    BY <1>2, <2>2, PrefixIs
  <2>4. tokens = tokenize(file)
    BY <1>1
  <2> QED
    BY <2>1, <2>3, <2>4
<1>4. tokens \in Seq(ServedTok) /\ Len(tokens) \in Nat /\ DOMAIN tokens = 1 .. Len(tokens)
  BY <1>3, ServedToks, LenProperties
<1>5. Final(Cmds(tokens)) = AllWords
  <2>1. AllWords = Final(Text(file))
    BY <1>2, WordsAre
  <2> QED
    BY <1>3, <2>1
<1>6. Placed(tokens)
  <2>1. Placed(tokenize(file))
    BY <1>2, PlacedInit
  <2>2. tokens = tokenize(file)
    BY <1>1
  <2> QED
    BY <2>1, <2>2
<1>7. Scanned
  <2>1. \A m \in DOMAIN Libs : ~ (m < lib)
    <3>1. lib = 1
      BY <1>1
    <3> QED
      BY <3>1, LibsAre
  <2>2. \A j \in DOMAIN tokens : ~ (j < i)
    <3>1. i = 1
      BY <1>1
    <3> QED
      BY <1>4, <3>1
  <2> QED
    BY <2>1, <2>2 DEF Scanned
<1>8. autoJump \in BOOLEAN /\ (autoJump => offset >= 3)
  <2>1. autoJump = FALSE \/ autoJump = (offset >= 3)
    BY DEF Init
  <2>2. CASE autoJump = FALSE
    BY <2>2
  <2>3. CASE autoJump = (offset >= 3)
    <3> DEFINE far == offset >= 3
    <3>1. autoJump = far /\ far \in BOOLEAN
      BY <2>3
    <3> HIDE DEF far
    <3>2. autoJump \in BOOLEAN /\ (autoJump => far)
      BY <3>1, Zenon
    <3> QED
      BY <3>2 DEF far
  <2> QED
    BY <2>1, <2>2, <2>3
<1>9. TypeOK
  <2>1. lib \in 1 .. Len(Libs) + 1 /\ i \in 1 .. Len(tokens) + 1
    <3>1. lib = 1 /\ i = 1
      BY <1>1
    <3> QED
      BY <1>4, <3>1, LibsAre
  <2>2. output \in Seq(Numbers)
    BY <1>1, EmptySeq
  <2>3. \A l \in DOMAIN labelMap : labelMap[l] \in 0 .. Len(tokens) - 1
    <3>1. labelMap = <<>>
      BY <1>1
    <3>2. DOMAIN labelMap = {}
      BY <3>1
    <3> QED
      BY <3>2
  <2>4. /\ phase = "expand" /\ replaced \in Nat /\ cause = ""
        /\ file \in Files /\ offset \in Offsets
    BY <1>1
  <2> QED
    BY <1>3, <1>8, <2>1, <2>2, <2>3, <2>4 DEF TypeOK, Tok
<1>10. phase = "expand" /\ cause = ""
  BY <1>1
<1> QED
  BY <1>4, <1>5, <1>6, <1>7, <1>8, <1>9, <1>10
  DEF IInv, Expanding, Expanded, Mapped, Linked, Written, Causes

LEMMA StepExpand == IInv /\ Expand => IInv'
<1> SUFFICES ASSUME IInv, Expand
             PROVE  IInv'
  OBVIOUS
<1> DEFINE new == replacement(Libs[lib][tokens[i].name], tokens[i].args)
           nx  == SubSeq(tokens, 1, i - 1) \o [new EXCEPT ![1].labels = tokens[i].labels]
                    \o SubSeq(tokens, i + 1, Len(tokens))
<1>1. /\ phase = "expand" /\ lib <= Len(Libs) /\ i <= Len(tokens)
      /\ tokens[i].name \in DOMAIN Libs[lib]
      /\ tokens' = nx /\ i' = i + Len(new) /\ replaced' = replaced + 1
      /\ file' = file /\ offset' = offset /\ autoJump' = autoJump /\ phase' = phase
      /\ lib' = lib /\ labelMap' = labelMap /\ output' = output /\ cause' = cause
  BY DEF Expand, Looking
<1>2. /\ TypeOK /\ (autoJump => offset >= 3) /\ Causes
      /\ tokens \in Seq(ServedTok) /\ Final(Cmds(tokens)) = AllWords /\ Placed(tokens)
  BY <1>1 DEF IInv, Expanding
<1>3. Len(tokens) \in Nat /\ i \in 1 .. Len(tokens) /\ lib \in MacroLibs(tokens[i].name)
      /\ replaced \in Nat /\ file \in Files
  <2>1. /\ lib \in 1 .. Len(Libs) + 1 /\ i \in 1 .. Len(tokens) + 1
        /\ replaced \in Nat /\ file \in Files
    BY <1>2 DEF TypeOK
  <2>2. Len(tokens) \in Nat
    BY <1>2, LenProperties
  <2>3. i \in 1 .. Len(tokens) /\ lib \in DOMAIN Libs
    BY <1>1, <2>1, <2>2, LibsAre
  <2>4. lib \in MacroLibs(tokens[i].name)
    BY <1>1, <2>3 DEF MacroLibs
  <2> QED
    BY <2>1, <2>2, <2>3, <2>4
<1>4. MacroFree(Final(Cmds(tokens)))
  BY <1>2, <1>3, WordsAre
<1>5. /\ nx \in Seq(ServedTok) /\ Final(Cmds(nx)) = Final(Cmds(tokens))
      /\ \A l \in Labels : Spots(nx, l) = Spots(tokens, l)
      /\ Len(new) \in Nat /\ Len(nx) = (Len(tokens) - 1) + Len(new) /\ Len(new) > 0
  <2>1. tokens[i] \in ServedTok
    BY <1>2, <1>3, ElementOfSeq
  <2>2. Len(new) > 0
    BY <1>3, <2>1, ReplacementIs
  <2> QED
    BY <1>2, <1>3, <1>4, <2>2, ReplacedToks
<1> HIDE DEF nx, new
<1>6. Final(Cmds(tokens'))= AllWords' /\ tokens' \in Seq(ServedTok)
  BY <1>1, <1>2, <1>5, FileKept
<1>7. Placed(tokens)'
  <2>1. \A l \in Labels : Spots(tokens', l) = Homes(l)
    BY <1>1, <1>2, <1>5 DEF Placed
  <2> QED
    BY <1>1, <2>1, FileKept DEF Placed
<1>8. Scanned'
  BY <1>1, <1>3 DEF Scanned
<1>9. TypeOK'
  <2>1. tokens' \in Seq(Tok)
    BY <1>6, CmdsIs
  <2>2. i' \in 1 .. Len(tokens') + 1
    BY <1>1, <1>3, <1>5
  <2>3. \A l \in DOMAIN labelMap' : labelMap'[l] \in 0 .. Len(tokens') - 1
    <3>1. \A l \in DOMAIN labelMap : labelMap[l] \in 0 .. Len(tokens) - 1
      BY <1>2 DEF TypeOK
    <3> QED
      BY <1>1, <1>3, <1>5, <3>1
  <2>4. replaced' \in Nat
    BY <1>1, <1>3
  <2> QED
    BY <1>1, <1>2, <2>1, <2>2, <2>3, <2>4 DEF TypeOK, Tok
<1>10. Causes'
  BY <1>1, <1>2 DEF Causes
<1> QED
  BY <1>1, <1>2, <1>6, <1>7, <1>8, <1>9, <1>10
  DEF IInv, Expanding, Expanded, Mapped, Linked, Written

(* The steps that only move on keep everything but what was passed.        *)
LEMMA Moves ==
  ASSUME TypeOK, autoJump => offset >= 3, Expanding, Causes, phase = "expand",
         UNCHANGED <<file, offset, autoJump, phase, tokens, labelMap, output, cause>>,
         lib' \in 1 .. Len(Libs) + 1, i' \in 1 .. Len(tokens) + 1, replaced' \in Nat,
         Scanned'
  PROVE  IInv'
<1>1. /\ file' = file /\ offset' = offset /\ autoJump' = autoJump /\ phase' = phase
      /\ tokens' = tokens /\ labelMap' = labelMap /\ output' = output /\ cause' = cause
  OBVIOUS
<1>2. TypeOK'
  BY <1>1 DEF TypeOK
<1>3. /\ tokens \in Seq(ServedTok)
      /\ Final(Cmds(tokens)) = AllWords /\ Placed(tokens)
  BY DEF Expanding
<1>4. Final(Cmds(tokens')) = AllWords'
  BY <1>1, <1>3, FileKept
<1>5. Placed(tokens)'
  BY <1>1, <1>3, FileKept DEF Placed
<1>6. Expanding'
  BY <1>1, <1>3, <1>4, <1>5 DEF Expanding
<1>7. Causes'
  BY <1>1 DEF Causes
<1> QED
  BY <1>1, <1>2, <1>6, <1>7
  DEF IInv, Expanded, Mapped, Linked, Written

LEMMA StepKeep == IInv /\ Keep => IInv'
<1> SUFFICES ASSUME IInv, Keep
             PROVE  IInv'
  OBVIOUS
<1>1. /\ phase = "expand" /\ lib <= Len(Libs) /\ i <= Len(tokens)
      /\ tokens[i].name \notin DOMAIN Libs[lib]
      /\ i' = i + 1 /\ lib' = lib /\ replaced' = replaced
  BY DEF Keep, Looking
<1>2. UNCHANGED <<file, offset, autoJump, phase, tokens, labelMap, output, cause>>
  BY DEF Keep
<1>3. TypeOK /\ (autoJump => offset >= 3) /\ Causes /\ Expanding /\ Scanned
  BY <1>1 DEF IInv, Expanding
<1>4. /\ lib \in 1 .. Len(Libs) + 1 /\ i \in 1 .. Len(tokens) + 1 /\ replaced \in Nat
      /\ Len(tokens) \in Nat /\ DOMAIN tokens = 1 .. Len(tokens)
  BY <1>3, LenProperties DEF TypeOK
<1>5. \A j \in DOMAIN tokens : j < i' => j < i \/ j = i
  BY <1>1, <1>4
<1>6. tokens' = tokens
  BY <1>2
<1>7. Scanned'
  BY <1>1, <1>3, <1>5, <1>6 DEF Scanned, NotIn
<1>8. i' \in 1 .. Len(tokens) + 1
  BY <1>1, <1>4
<1>9. lib' \in 1 .. Len(Libs) + 1 /\ replaced' \in Nat
  BY <1>1, <1>4
<1> QED
  BY <1>1, <1>2, <1>3, <1>7, <1>8, <1>9, Moves

LEMMA StepNextLib == IInv /\ NextLib => IInv'
<1> SUFFICES ASSUME IInv, NextLib
             PROVE  IInv'
  OBVIOUS
<1>1. /\ phase = "expand" /\ lib <= Len(Libs) /\ i > Len(tokens)
      /\ i' = 1 /\ lib' = lib + 1 /\ replaced' = replaced
  BY DEF NextLib
<1>2. UNCHANGED <<file, offset, autoJump, phase, tokens, labelMap, output, cause>>
  BY DEF NextLib
<1>3. TypeOK /\ (autoJump => offset >= 3) /\ Causes /\ Expanding /\ Scanned
  BY <1>1 DEF IInv, Expanding
<1>4. /\ lib \in 1 .. Len(Libs) + 1 /\ i \in 1 .. Len(tokens) + 1 /\ replaced \in Nat
      /\ Len(tokens) \in Nat /\ DOMAIN tokens = 1 .. Len(tokens)
  BY <1>3, LenProperties DEF TypeOK
<1>5. /\ \A j \in DOMAIN tokens : j < i
      /\ \A j \in DOMAIN tokens : ~ (j < i')
      /\ \A m \in DOMAIN Libs : m < lib' => m < lib \/ m = lib
      /\ lib \in DOMAIN Libs
  BY <1>1, <1>4, LibsAre
<1>6. tokens' = tokens
  BY <1>2
<1>7. Scanned'
  BY <1>1, <1>3, <1>5, <1>6 DEF Scanned, NotIn
<1>8. i' \in 1 .. Len(tokens) + 1 /\ lib' \in 1 .. Len(Libs) + 1 /\ replaced' \in Nat
  BY <1>1, <1>4, LibsAre
<1> QED
  BY <1>1, <1>2, <1>3, <1>7, <1>8, Moves

LEMMA StepRound == IInv /\ Round => IInv'
<1> SUFFICES ASSUME IInv, Round
             PROVE  IInv'
  OBVIOUS
<1>1. /\ phase = "expand" /\ lib > Len(Libs)
      /\ replaced' = 0 /\ lib' = 1 /\ i' = 1
      /\ phase' = IF replaced > 0 THEN "expand" ELSE "labels"
  BY DEF Round
<1>2. UNCHANGED <<file, offset, autoJump, tokens, labelMap, output, cause>>
  BY DEF Round
<1>3. /\ TypeOK /\ (autoJump => offset >= 3) /\ Causes /\ Expanding /\ Scanned
      /\ tokens \in Seq(ServedTok) /\ Final(Cmds(tokens)) = AllWords /\ Placed(tokens)
  BY <1>1 DEF IInv, Expanding
<1>4. /\ lib \in 1 .. Len(Libs) + 1 /\ replaced \in Nat
      /\ Len(tokens) \in Nat /\ DOMAIN tokens = 1 .. Len(tokens)
  BY <1>3, LenProperties DEF TypeOK
<1>5. i' \in 1 .. Len(tokens) + 1 /\ lib' \in 1 .. Len(Libs) + 1 /\ replaced' \in Nat
  BY <1>1, <1>4, LibsAre
<1>6. CASE replaced > 0
  <2>1. phase' = phase
    BY <1>1, <1>6
  <2>2. /\ \A j \in DOMAIN tokens : ~ (j < i')
        /\ \A m \in DOMAIN Libs : ~ (m < lib')
    BY <1>1, <1>4, LibsAre
  <2>3. tokens' = tokens
    BY <1>2
  <2>4. Scanned'
    BY <2>2, <2>3 DEF Scanned
  <2>5. UNCHANGED <<file, offset, autoJump, phase, tokens, labelMap, output, cause>>
    BY <1>2, <2>1
  <2> QED
    BY <1>1, <1>3, <1>5, <2>4, <2>5, Moves
<1>7. CASE ~ (replaced > 0)
  <2>1. phase' = "labels" /\ replaced = 0
    BY <1>1, <1>4, <1>7
  <2>2. \A m \in DOMAIN Libs : m < lib
    BY <1>1, <1>4, LibsAre
  <2>3. \A m \in DOMAIN Libs : NotIn(tokens, m)
    BY <1>3, <2>1, <2>2 DEF Scanned
  <2>4. MacroFree(Cmds(tokens))
    <3>1. \A j \in DOMAIN tokens : MacroLibs(tokens[j].name) = {}
      BY <2>3 DEF NotIn, MacroLibs
    <3>2. DOMAIN Cmds(tokens) = DOMAIN tokens
          /\ \A j \in DOMAIN tokens : Cmds(tokens)[j].name = tokens[j].name
      BY DEF Cmds, CmdOf
    <3> QED
      BY <3>1, <3>2 DEF MacroFree
  <2>5. Cmds(tokens) = AllWords
    BY <1>3, <2>4, CmdsIs, FinalFree
  <2>6. Expanded'
    <3>1. tokens' \in Seq(ServedTok) /\ Cmds(tokens') = AllWords'
      BY <1>2, <1>3, <2>5, FileKept
    <3>2. Placed(tokens)'
      BY <1>2, <1>3, FileKept DEF Placed
    <3> QED
      BY <3>1, <3>2 DEF Expanded
  <2>7. TypeOK'
    BY <1>2, <1>3, <1>5, <2>1 DEF TypeOK
  <2>8. Causes'
    BY <1>1, <1>2, <1>3, <2>1 DEF Causes
  <2> QED
    BY <1>2, <1>3, <2>1, <2>6, <2>7, <2>8
    DEF IInv, Expanding, Mapped, Linked, Written
<1> QED
  BY <1>6, <1>7

-----------------------------------------------------------------------------
(* Labels and addresses.                                                   *)
LEMMA StepParseLabels == IInv /\ parseLabels => IInv'
<1> SUFFICES ASSUME IInv, parseLabels
             PROVE  IInv'
  OBVIOUS
<1> DEFINE last(l) == CHOOSE k \in Holders(l) : \A m \in Holders(l) : m <= k
<1>1. phase = "labels" /\ phase' = "replace" /\ labelMap' = [l \in Held |-> last(l) - 1]
  BY DEF parseLabels
<1>2. UNCHANGED <<file, offset, autoJump, tokens, lib, i, replaced, output, cause>>
  BY DEF parseLabels
<1>3. /\ TypeOK /\ (autoJump => offset >= 3) /\ Causes /\ file \in Files
      /\ tokens \in Seq(ServedTok) /\ Cmds(tokens) = AllWords /\ Placed(tokens)
  BY <1>1 DEF IInv, Expanded, TypeOK
<1>4. /\ Len(tokens) \in Nat /\ DOMAIN tokens = 1 .. Len(tokens)
      /\ \A k \in 1 .. Len(tokens) : tokens[k].labels \in Seq(Labels)
  <2>1. tokens \in Seq(Tok)
    BY <1>3, CmdsIs
  <2>2. \A k \in 1 .. Len(tokens) : tokens[k] \in Tok
    BY <2>1, ElementOfSeq
  <2> QED
    BY <2>1, <2>2, LenProperties DEF Tok
<1>5. Held \subseteq Labels
  <2> SUFFICES ASSUME NEW l \in Held
               PROVE  l \in Labels
    OBVIOUS
  <2>1. PICK k \in 1 .. Len(tokens) : l \in Range(tokens[k].labels)
    BY <1>4 DEF Held
  <2>2. PICK n \in DOMAIN tokens[k].labels : l = tokens[k].labels[n]
    BY <2>1 DEF Range
  <2> QED
    BY <1>4, <2>1, <2>2, LenProperties, ElementOfSeq
<1>6. \A l : Holders(l) = Holding(tokens, l) /\ Holders(l) \subseteq 1 .. Len(tokens)
  BY <1>4 DEF Holders, Holding, Has
<1>7. \A l : l \in Held <=> Holders(l) # {}
  BY DEF Held, Holders, Range
<1>8. \A j \in 1 .. Len(tokens) : Before(tokens, j) = j - 1
  BY <1>3, WordsAre, BeforeFree
<1>9. \A l \in Labels : Homes(l) = {j - 1 : j \in Holders(l)}
  <2> SUFFICES ASSUME NEW l \in Labels
               PROVE  Homes(l) = {j - 1 : j \in Holders(l)}
    OBVIOUS
  <2>1. Homes(l) = {Before(tokens, j) : j \in Holders(l)}
    BY <1>3, <1>6 DEF Placed, Spots
  <2> QED
    BY <1>6, <1>8, <2>1
<1>10. \A l : Holders(l) # {} => last(l) \in Holders(l) /\ \A m \in Holders(l) : m <= last(l)
  <2> SUFFICES ASSUME NEW l, Holders(l) # {}
               PROVE  last(l) \in Holders(l) /\ \A m \in Holders(l) : m <= last(l)
    OBVIOUS
  <2>1. \E k \in Holders(l) : \A m \in Holders(l) : m <= k
    BY <1>4, <1>6, MaxExists
  <2> QED
    BY <2>1, Zenon
<1> HIDE DEF last
<1>11. \A l \in Labels : Holders(l) # {} <=> Bearers(l) # {}
  BY <1>9 DEF Homes
<1>12. ASSUME NEW l \in Held
       PROVE  last(l) - 1 = Address(l) /\ last(l) - 1 \in 0 .. Len(tokens) - 1
  <2>1. l \in Labels /\ Holders(l) # {} /\ Bearers(l) # {}
    BY <1>5, <1>7, <1>11
  <2>2. Address(l) \in Homes(l) /\ \A x \in Homes(l) : x <= Address(l)
    BY <1>3, <2>1, AddressIs
  <2>3. last(l) \in Holders(l) /\ \A m \in Holders(l) : m <= last(l)
    BY <1>10, <2>1
  <2>4. PICK j \in Holders(l) : Address(l) = j - 1
    BY <1>9, <2>1, <2>2
  <2>5. last(l) - 1 \in Homes(l)
    BY <1>9, <2>1, <2>3
  <2>6. last(l) - 1 <= Address(l) /\ j <= last(l)
    BY <2>2, <2>3, <2>5
  <2>7. j \in 1 .. Len(tokens) /\ last(l) \in 1 .. Len(tokens)
    BY <1>6, <2>3
  <2> QED
    BY <1>4, <2>4, <2>6, <2>7
<1>13. Mapped'
  <2>1. /\ DOMAIN labelMap' \subseteq Labels
        /\ \A l \in Labels : /\ l \in DOMAIN labelMap' <=> Bearers(l) # {}
                             /\ l \in DOMAIN labelMap' => labelMap'[l] = Address(l)
    BY <1>1, <1>5, <1>7, <1>11, <1>12
  <2> QED
    BY <1>2, <2>1, FileKept DEF Mapped
<1>14. Expanded'
  <2>1. tokens' \in Seq(ServedTok) /\ Cmds(tokens') = AllWords'
    BY <1>2, <1>3, FileKept
  <2>2. Placed(tokens)'
    BY <1>2, <1>3, FileKept DEF Placed
  <2> QED
    BY <2>1, <2>2 DEF Expanded
<1>15. TypeOK'
  <2>1. \A l \in DOMAIN labelMap' : labelMap'[l] \in 0 .. Len(tokens') - 1
    BY <1>1, <1>2, <1>12
  <2> QED
    BY <1>1, <1>2, <1>3, <2>1 DEF TypeOK
<1>16. Causes'
  BY <1>1, <1>2, <1>3 DEF Causes
<1> QED
  BY <1>1, <1>2, <1>3, <1>13, <1>14, <1>15, <1>16
  DEF IInv, Expanding, Linked, Written

(* The provers see the bounds of a number rather than all numbers.         *)
LEMMA NumbersAre == \A a : a \in Numbers <=> a \in Int /\ 0 <= a /\ a <= 65535
<1> DEFINE K == 65535
           Between(a) == a \in Int /\ 0 <= a /\ a <= K
<1>1. Numbers = 0 .. K
  BY SMT DEF Numbers
<1>2. K \in Int
  BY SMT
<1>3. \A a : Between(a) <=> a \in Int /\ 0 <= a /\ a <= 65535
  BY SMT
<1> HIDE DEF K
<1>4. \A a : a \in 0 .. K <=> Between(a)
  BY <1>2, SMT
<1> HIDE DEF Between
<1>5. \A a : a \in Numbers <=> Between(a)
  BY <1>1, <1>4, SMT
<1> QED
  BY <1>3, <1>5, SMT

LEMMA AddressFits ==
  ASSUME file \in Files
  PROVE  \A a \in 0 .. Len(AllWords) - 1 : a \in Numbers
<1> SUFFICES ASSUME NEW a \in 0 .. Len(AllWords) - 1
             PROVE  a \in Numbers
  OBVIOUS
<1>1. Len(AllWords) \in Nat
  BY WordsAre, SMT
<1>2. Len(AllWords) <= 65536
  BY WordsAre, SMT
<1> DEFINE m == Len(AllWords)
<1>3. m \in Nat /\ m <= 65536 /\ a \in 0 .. m - 1
  BY <1>1, <1>2, SMT
<1> HIDE DEF m
<1>4. a \in Int /\ 0 <= a /\ a <= 65535
  BY <1>3, SMT
<1> QED
  BY <1>4, NumbersAre, SMT

LEMMA WordIs ==
  ASSUME file \in Files, NEW n \in DOMAIN AllWords
  PROVE  /\ AllWords[n].name \in Names /\ AllWords[n].args \in Seq(Operand)
         /\ Fits(AllWords[n])
         /\ References(n) => /\ AllWords[n].args[1][2] \in Labels
                             /\ AllWords[n].args[1][2] \in Referred
<1> DEFINE w == AllWords[n]
<1>1. AllWords \in Seq(Cmd) /\ DOMAIN AllWords = 1 .. Len(AllWords) /\ Fits(w)
  BY WordsAre
<1>2. w \in Cmd
  BY <1>1, ElementOfSeq
<1>3. w.name \in Names /\ w.args \in Seq(Operand)
  BY <1>2 DEF Cmd
<1>4. ASSUME References(n)
      PROVE  w.args[1][2] \in Labels /\ w.args[1][2] \in Referred
  <2>1. w.name = "RAW" /\ w.args[1][1] = "label"
    BY <1>4 DEF References
  <2>2. Len(w.args) = 1
    BY <1>1, <2>1 DEF Fits
  <2>3. w.args[1] \in Operand
    BY <1>3, <2>2, ElementOfSeq
  <2>4. w.args[1][2] \in Labels
    BY <2>1, <2>3, LabelOperand
  <2> QED
    BY <2>1, <2>4 DEF Referred
<1> QED
  BY <1>1, <1>3, <1>4

LEMMA StepReplaceLabels == IInv /\ replaceLabels => IInv'
<1> SUFFICES ASSUME IInv, replaceLabels
             PROVE  IInv'
  OBVIOUS
<1> DEFINE refs == {k \in DOMAIN tokens : IsReference(tokens[k])}
           target(k) == tokens[k].args[1][2]
           linked(k) == IF k \in refs
                        THEN [tokens[k] EXCEPT !.args = <<Number(labelMap[target(k)])>>]
                        ELSE tokens[k]
<1>1. phase = "replace"
  BY DEF replaceLabels
<1>2. UNCHANGED <<file, offset, autoJump, lib, i, replaced, labelMap, output>>
  BY DEF replaceLabels
<1>3. /\ TypeOK /\ (autoJump => offset >= 3) /\ Causes /\ file \in Files
      /\ tokens \in Seq(ServedTok) /\ Cmds(tokens) = AllWords /\ Placed(tokens) /\ cause = ""
  BY <1>1 DEF IInv, Expanded, TypeOK, Causes
<1>4. /\ DOMAIN labelMap \subseteq Labels
      /\ \A l \in Labels : /\ l \in DOMAIN labelMap <=> Bearers(l) # {}
                           /\ l \in DOMAIN labelMap => labelMap[l] = Address(l)
  BY <1>1 DEF IInv, Mapped
<1>5. /\ Len(tokens) \in Nat /\ DOMAIN tokens = 1 .. Len(tokens)
      /\ Len(AllWords) = Len(tokens) /\ DOMAIN AllWords = 1 .. Len(tokens)
      /\ \A k \in 1 .. Len(tokens) : tokens[k] \in Tok
  <2>1. tokens \in Seq(Tok) /\ Len(AllWords) = Len(tokens)
    BY <1>3, CmdsIs
  <2>2. Len(tokens) \in Nat /\ DOMAIN tokens = 1 .. Len(tokens)
    BY <2>1, LenProperties
  <2>0. file \in Files
    BY <1>3
  <2>3. AllWords \in Seq(Cmd)
    BY <2>0, WordsAre, SMT
  <2>5. DOMAIN AllWords = 1 .. Len(AllWords)
    BY <2>3, LenProperties
  <2>4. \A k \in 1 .. Len(tokens) : tokens[k] \in Tok
    BY <2>1, ElementOfSeq
  <2> QED
    BY <2>1, <2>2, <2>4, <2>5
<1>6. \A k \in 1 .. Len(tokens) : /\ AllWords[k].name = tokens[k].name
                                  /\ AllWords[k].args = tokens[k].args
  BY <1>3, <1>5 DEF Cmds, CmdOf
<1>7. \A k \in 1 .. Len(tokens) : k \in refs <=> References(k)
  BY <1>5, <1>6 DEF IsReference, References
<1>8. \A k \in refs : target(k) \in Labels /\ target(k) \in Referred
                      /\ target(k) = AllWords[k].args[1][2]
  <2> SUFFICES ASSUME NEW k \in refs
               PROVE  target(k) \in Labels /\ target(k) \in Referred
                      /\ target(k) = AllWords[k].args[1][2]
    OBVIOUS
  <2>1. k \in 1 .. Len(tokens) /\ References(k)
    BY <1>5, <1>7
  <2> QED
    BY <1>3, <1>5, <1>6, <2>1, WordIs
<1>9. \/ /\ \E k \in refs : target(k) \notin DOMAIN labelMap
         /\ phase' = "exited" /\ cause' = "Undefined label referenced" /\ tokens' = tokens
      \/ /\ \A k \in refs : target(k) \in DOMAIN labelMap
         /\ phase' = "offset" /\ cause' = cause
         /\ tokens' = [k \in DOMAIN tokens |-> linked(k)]
  BY DEF replaceLabels
<1>10. CASE /\ \E k \in refs : target(k) \notin DOMAIN labelMap
            /\ phase' = "exited" /\ cause' = "Undefined label referenced" /\ tokens' = tokens
  <2>1. PICK k \in refs : target(k) \notin DOMAIN labelMap
    BY <1>10
  <2>2. Bearers(target(k)) = {} /\ target(k) \in Referred
    BY <1>4, <1>8, <2>1
  <2>3. \E l \in Referred' : Bearers(l)' = {}
    BY <1>2, <2>2, FileKept
  <2>4. Causes'
    BY <1>10, <2>3 DEF Causes
  <2>5. TypeOK'
    BY <1>2, <1>3, <1>10 DEF TypeOK
  <2> QED
    BY <1>2, <1>3, <1>10, <2>4, <2>5
    DEF IInv, Expanding, Expanded, Mapped, Linked, Written
<1>11. CASE /\ \A k \in refs : target(k) \in DOMAIN labelMap
            /\ phase' = "offset" /\ cause' = cause
            /\ tokens' = [k \in DOMAIN tokens |-> linked(k)]
  <2>1. ASSUME NEW k \in 1 .. Len(tokens)
        PROVE  /\ linked(k) \in Tok
               /\ linked(k).name = AllWords[k].name /\ linked(k).args = Resolved(k)
    <3>1. CASE k \in refs
      <4> DEFINE a == labelMap[target(k)]
      <4>1. target(k) \in Labels /\ target(k) \in DOMAIN labelMap /\ a = Address(target(k))
        BY <1>4, <1>8, <1>11, <3>1
      <4>2. a \in 0 .. Len(tokens) - 1
        BY <1>3, <4>1 DEF TypeOK
      <4>3. Len(tokens) = Len(AllWords)
        BY <1>5
      <4> HIDE DEF a
      <4>4. a \in Numbers
        BY <1>3, <4>2, <4>3, AddressFits
      <4>5. Number(a) \in Operand
        BY <4>4, OperandIs
      <4>6. <<Number(a)>> \in Seq(Operand)
        BY <4>5
      <4>7. linked(k) = [tokens[k] EXCEPT !.args = <<Number(a)>>]
        BY <3>1 DEF a
      <4>8. /\ linked(k) \in Tok /\ linked(k).name = tokens[k].name
            /\ linked(k).args = <<Number(a)>>
        <5> HIDE DEF linked
        <5> QED
          BY <1>5, <4>6, <4>7 DEF Tok
      <4>9. Resolved(k) = <<Number(a)>>
        BY <1>7, <1>8, <3>1, <4>1 DEF Resolved
      <4> QED
        BY <1>6, <4>8, <4>9
    <3>2. CASE k \notin refs
      BY <1>5, <1>6, <1>7, <3>2 DEF Resolved
    <3> QED
      BY <3>1, <3>2
  <2> HIDE DEF linked
  <2>2. tokens' = [k \in 1 .. Len(tokens) |-> tokens'[k]]
        /\ \A k \in 1 .. Len(tokens) : tokens'[k] = linked(k)
    BY <1>5, <1>11
  <2>3. tokens' \in Seq(Tok) /\ Len(tokens') = Len(tokens)
    <3>1. \A k \in 1 .. Len(tokens) : tokens'[k] \in Tok
      BY <2>1, <2>2
    <3> DEFINE m == Len(tokens)
               s == tokens'
    <3>2. m \in Nat /\ s = [k \in 1 .. m |-> s[k]] /\ \A k \in 1 .. m : s[k] \in Tok
      BY <1>5, <2>2, <3>1
    <3> HIDE DEF m, s
    <3>3. s \in Seq(Tok) /\ Len(s) = m
      BY <3>2, MakeSeq
    <3> QED
      BY <3>3 DEF s, m
  <2>4. LinkedAt(0)'
    <3>1. Len(tokens') = 0 + Len(AllWords)
      BY <1>5, <2>3
    <3>2. \A n \in DOMAIN AllWords : /\ tokens'[0 + n].name = AllWords[n].name
                                     /\ tokens'[0 + n].args = Resolved(n)
      <4> SUFFICES ASSUME NEW n \in DOMAIN AllWords
                   PROVE  /\ tokens'[0 + n].name = AllWords[n].name
                          /\ tokens'[0 + n].args = Resolved(n)
        OBVIOUS
      <4>1. n \in 1 .. Len(tokens) /\ 0 + n = n
        BY <1>5
      <4> QED
        BY <2>1, <2>2, <4>1
    <3> QED
      BY <1>2, <3>1, <3>2, FileKept DEF LinkedAt
  <2>5. TypeOK'
    BY <1>2, <1>3, <1>11, <2>3 DEF TypeOK, Tok
  <2>6. Causes'
    BY <1>3, <1>11 DEF Causes
  <2> QED
    BY <1>2, <1>3, <1>11, <2>4, <2>5, <2>6
    DEF IInv, Expanding, Expanded, Mapped, Linked, Written
<1> QED
  BY <1>9, <1>10, <1>11

-----------------------------------------------------------------------------
(* What the VM decodes of an encoded command.                              *)
LEMMA FieldsAre ==
  \A w : /\ Field(w, "from") = (w \div 16) % 16 /\ Field(w, "to") = (w \div 256) % 16
         /\ Field(w, "third") = (w \div 4096) % 16
  BY DEF Field, FieldAt

(* Four digits that are the code and the operands make a word that is      *)
(* decoded as the command.                                                 *)
Digit(f, a, b, c) == IF f = "from" THEN a ELSE IF f = "to" THEN b ELSE c
Spelled(name, args, a, b, c) ==
  \A n \in DOMAIN Operands(name) :
     /\ Operands(name)[n] \in {"from", "to", "third"}
     /\ args[n][2] = Digit(Operands(name)[n], a, b, c)

WordOf(d, a, b, c) == d + 16 * a + 256 * b + 4096 * c

LEMMA DigitsDecode ==
  ASSUME NEW name, NEW args,
         NEW d \in RegisterNumbers, NEW a \in RegisterNumbers,
         NEW b \in RegisterNumbers, NEW c \in RegisterNumbers,
         VmCode[name] = d, Spelled(name, args, a, b, c)
  PROVE  WordOf(d, a, b, c) \in Numbers /\ Decodes(WordOf(d, a, b, c), name, args)
<1> DEFINE w == WordOf(d, a, b, c)
<1>0. /\ d \in 0 .. 15 /\ a \in 0 .. 15 /\ b \in 0 .. 15 /\ c \in 0 .. 15
      /\ w = d + 16 * a + 256 * b + 4096 * c
  BY SMT DEF RegisterNumbers, WordOf
<1> HIDE DEF w
<1>1. /\ 0 <= w /\ w <= 65535
      /\ w % 16 = d /\ (w \div 16) % 16 = a /\ (w \div 256) % 16 = b
      /\ (w \div 4096) % 16 = c
  <2>1. /\ w \in Int /\ w = d + 16 * a + 256 * b + 4096 * c
        /\ d \in 0 .. 15 /\ a \in 0 .. 15 /\ b \in 0 .. 15 /\ c \in 0 .. 15
    BY <1>0, SMT
  <2>2. 0 <= w /\ w <= 65535
    BY <2>1, SMT
  <2>3. w % 16 = d
    BY <2>1, SMT
  <2>4. w \div 16 = a + 16 * b + 256 * c
    BY <2>1, SMT
  <2>5. (w \div 16) % 16 = a
    BY <2>1, <2>4, SMT
  <2>6. w \div 256 = b + 16 * c
    BY <2>1, SMT
  <2>7. (w \div 256) % 16 = b
    BY <2>1, <2>6, SMT
  <2>8. w \div 4096 = c
    BY <2>1, SMT
  <2>9. (w \div 4096) % 16 = c
    BY <2>1, <2>8, SMT
  <2> QED
    BY <2>2, <2>3, <2>5, <2>7, <2>9, SMT
<1>2. w \in Numbers
  BY <1>0, <1>1, NumbersAre, SMT
<1>3. Field(w, "from") = a /\ Field(w, "to") = b /\ Field(w, "third") = c
  BY <1>1, FieldsAre, SMT
<1>4. ASSUME NEW n \in DOMAIN Operands(name)
      PROVE  Field(w, Operands(name)[n]) = args[n][2]
  <2>0. /\ Operands(name)[n] \in {"from", "to", "third"}
        /\ args[n][2] = Digit(Operands(name)[n], a, b, c)
    BY SMT DEF Spelled
  <2>1. CASE Operands(name)[n] = "from"
    BY <1>3, <2>0, <2>1, SMT DEF Digit
  <2>2. CASE Operands(name)[n] = "to"
    BY <1>3, <2>0, <2>2, SMT DEF Digit
  <2>3. CASE Operands(name)[n] = "third"
    BY <1>3, <2>0, <2>3, SMT DEF Digit
  <2> QED
    BY <2>0, <2>1, <2>2, <2>3, SMT
<1>5. w % 16 = VmCode[name]
  BY <1>1, SMT
<1>6. Decodes(w, name, args)
  BY <1>4, <1>5, Zenon DEF Decodes
<1> QED
  BY <1>2, <1>6, Zenon DEF w

AluNames == {"AND", "OR", "XOR", "ADD", "SHFT", "MUL", "GT", "EQ"}

LEMMA AluIs ==
  /\ Range(Alu) = AluNames
  /\ \A name \in AluNames : AluCode(name) = VmCode[name] /\ VmCode[name] \in 8 .. 15
                            /\ Operands(name) = <<"from", "to", "third">>
<1>1. /\ DOMAIN Alu = 1 .. 8 /\ Alu[1] = "AND" /\ Alu[2] = "OR" /\ Alu[3] = "XOR"
      /\ Alu[4] = "ADD" /\ Alu[5] = "SHFT" /\ Alu[6] = "MUL" /\ Alu[7] = "GT"
      /\ Alu[8] = "EQ"
  BY DEF Alu
<1>2. 1 .. 8 = {1, 2, 3, 4, 5, 6, 7, 8}
  OBVIOUS
<1>3. Range(Alu) = AluNames
  BY <1>1, <1>2 DEF Range, AluNames
<1>4. ASSUME NEW k \in 1 .. 8
      PROVE  (CHOOSE j \in DOMAIN Alu : Alu[j] = Alu[k]) = k
  <2>1. \A j \in DOMAIN Alu : Alu[j] = Alu[k] => j = k
    BY <1>1, <1>2
  <2> QED
    BY <1>1, <2>1
<1>5. \A k \in 1 .. 8 : AluCode(Alu[k]) = 7 + k
  BY <1>4 DEF AluCode
<1>6. /\ VmCode["AND"] = 8 /\ VmCode["OR"] = 9 /\ VmCode["XOR"] = 10 /\ VmCode["ADD"] = 11
      /\ VmCode["SHFT"] = 12 /\ VmCode["MUL"] = 13 /\ VmCode["GT"] = 14 /\ VmCode["EQ"] = 15
  BY DEF VmCode
<1>7. \A k \in 1 .. 8 : VmCode[Alu[k]] = 7 + k
  BY <1>1, <1>2, <1>6
<1>8. \A name \in AluNames : \E k \in 1 .. 8 : name = Alu[k]
  BY <1>1 DEF AluNames
<1>9. \A name \in AluNames : Operands(name) = <<"from", "to", "third">>
  BY DEF AluNames, Operands
<1> QED
  BY <1>3, <1>5, <1>7, <1>8, <1>9

LEMMA EncodedIs ==
  ASSUME NEW t
  PROVE  /\ t.name = "RAW"   => Encoded(t) = t.args[1][2] % 65536
         /\ t.name = "HALT"  => Encoded(t) = 0
         /\ t.name = "MOV"   => Encoded(t) = 256 * t.args[2][2] + 16 * t.args[1][2] + 1
         /\ t.name = "MOVNZ" =>
              Encoded(t) = 256 * (16 * t.args[3][2] + t.args[2][2]) + 16 * t.args[1][2] + 2
         /\ t.name = "MOVEZ" =>
              Encoded(t) = 256 * (16 * t.args[3][2] + t.args[2][2]) + 16 * t.args[1][2] + 3
         /\ t.name = "MEMR"  => Encoded(t) = 256 * t.args[2][2] + 16 * t.args[1][2] + 5
         /\ t.name = "SET"   => Encoded(t) = 256 * t.args[1][2] + 6
         /\ t.name = "MEMW"  => Encoded(t) = 256 * 16 * t.args[2][2] + 16 * t.args[1][2] + 7
         /\ t.name \in AluNames =>
              Encoded(t) = aluCmd(t.name, t.args[1][2], t.args[2][2], t.args[3][2])
         /\ t.name \notin Known => Encoded(t) = 0
<1>1. t.name = "RAW"   => Encoded(t) = t.args[1][2] % 65536
  BY AluIs, SMT DEF Encoded, AluNames
<1>2. t.name = "HALT"  => Encoded(t) = 0
  BY AluIs, SMT DEF Encoded, AluNames
<1>3. t.name = "MOV"   => Encoded(t) = 256 * t.args[2][2] + 16 * t.args[1][2] + 1
  BY AluIs, SMT DEF Encoded, AluNames
<1>4. t.name = "MOVNZ" =>
        Encoded(t) = 256 * (16 * t.args[3][2] + t.args[2][2]) + 16 * t.args[1][2] + 2
  BY AluIs, SMT DEF Encoded, AluNames
<1>5. t.name = "MOVEZ" =>
        Encoded(t) = 256 * (16 * t.args[3][2] + t.args[2][2]) + 16 * t.args[1][2] + 3
  BY AluIs, SMT DEF Encoded, AluNames
<1>6. t.name = "MEMR"  => Encoded(t) = 256 * t.args[2][2] + 16 * t.args[1][2] + 5
  BY AluIs, SMT DEF Encoded, AluNames
<1>7. t.name = "SET"   => Encoded(t) = 256 * t.args[1][2] + 6
  BY AluIs, SMT DEF Encoded, AluNames
<1>8. t.name = "MEMW"  => Encoded(t) = 256 * 16 * t.args[2][2] + 16 * t.args[1][2] + 7
  BY AluIs, SMT DEF Encoded, AluNames
<1>9. t.name \in AluNames =>
        Encoded(t) = aluCmd(t.name, t.args[1][2], t.args[2][2], t.args[3][2])
  BY AluIs, SMT DEF Encoded, AluNames
<1>10. t.name \notin Known => Encoded(t) = 0
  BY AluIs, SMT DEF Encoded, AluNames, Known
<1> QED
  BY <1>1, <1>2, <1>3, <1>4, <1>5, <1>6, <1>7, <1>8, <1>9, <1>10, SMT

LEMMA OperandsAre ==
  /\ Operands("HALT") = <<>> /\ Operands("SET") = <<"to">>
  /\ Operands("MOV") = <<"from", "to">> /\ Operands("MEMR") = <<"from", "to">>
  /\ Operands("MEMW") = <<"from", "third">>
  /\ Operands("MOVNZ") = <<"from", "to", "third">>
  /\ Operands("MOVEZ") = <<"from", "to", "third">>
  BY SMT DEF Operands

LEMMA CodesAre ==
  /\ VmCode["HALT"] = 0 /\ VmCode["MOV"] = 1 /\ VmCode["MOVNZ"] = 2 /\ VmCode["MOVEZ"] = 3
  /\ VmCode["MEMR"] = 5 /\ VmCode["SET"] = 6 /\ VmCode["MEMW"] = 7
  BY SMT DEF VmCode

(* The operands of a command in the order its digits hold them.            *)
LEMMA SpelledIs ==
  ASSUME NEW name, NEW args, NEW a, NEW b, NEW c
  PROVE  /\ Operands(name) = <<>> => Spelled(name, args, a, b, c)
         /\ Operands(name) = <<"to">> /\ args[1][2] = b => Spelled(name, args, a, b, c)
         /\ Operands(name) = <<"from", "to">> /\ args[1][2] = a /\ args[2][2] = b
              => Spelled(name, args, a, b, c)
         /\ Operands(name) = <<"from", "third">> /\ args[1][2] = a /\ args[2][2] = c
              => Spelled(name, args, a, b, c)
         /\ Operands(name) = <<"from", "to", "third">> /\ args[1][2] = a
              /\ args[2][2] = b /\ args[3][2] = c => Spelled(name, args, a, b, c)
<1>1. 1 .. 1 = {1} /\ 1 .. 2 = {1, 2} /\ 1 .. 3 = {1, 2, 3}
  BY SMT
<1>2. ASSUME Operands(name) = <<>>
      PROVE  Spelled(name, args, a, b, c)
  BY <1>1, <1>2, SMT DEF Spelled, Digit
<1>3. ASSUME Operands(name) = <<"to">> /\ args[1][2] = b
      PROVE  Spelled(name, args, a, b, c)
  BY <1>1, <1>3, SMT DEF Spelled, Digit
<1>4. ASSUME Operands(name) = <<"from", "to">> /\ args[1][2] = a /\ args[2][2] = b
      PROVE  Spelled(name, args, a, b, c)
  BY <1>1, <1>4, SMT DEF Spelled, Digit
<1>5. ASSUME Operands(name) = <<"from", "third">> /\ args[1][2] = a /\ args[2][2] = c
      PROVE  Spelled(name, args, a, b, c)
  BY <1>1, <1>5, SMT DEF Spelled, Digit
<1>6. ASSUME Operands(name) = <<"from", "to", "third">> /\ args[1][2] = a /\ args[2][2] = b /\ args[3][2] = c
      PROVE  Spelled(name, args, a, b, c)
  BY <1>1, <1>6, SMT DEF Spelled, Digit
<1> QED
  BY <1>2, <1>3, <1>4, <1>5, <1>6, Zenon

(* The instructions with their registers come out as the VM reads them.    *)
LEMMA CommandEncoded ==
  ASSUME NEW t, t.name \in Known \ {"RAW"},
         \A n \in DOMAIN Operands(t.name) : t.args[n][2] \in RegisterNumbers
  PROVE  Encoded(t) \in Numbers /\ Decodes(Encoded(t), t.name, t.args)
<1> DEFINE w == Encoded(t)
           r(n) == t.args[n][2]
<1>0. t.name \in {"HALT", "MOV", "MOVNZ", "MOVEZ", "MEMR", "SET", "MEMW"} \cup AluNames
  BY AluIs, SMT DEF Known
<1>1. CASE t.name = "HALT"
  <2> DEFINE d == 0
             a == 0
             b == 0
             c == 0
  <2>1. Operands(t.name) = <<>> /\ VmCode[t.name] = d
    BY <1>1, OperandsAre, CodesAre, SMT
  <2>3. /\ a \in RegisterNumbers /\ b \in RegisterNumbers
        /\ c \in RegisterNumbers /\ d \in RegisterNumbers
    <3>1. 0 \in RegisterNumbers /\ d \in RegisterNumbers
      BY <2>1, SMT DEF RegisterNumbers
    <3> QED
      BY <3>1, SMT
  <2>4. Spelled(t.name, t.args, a, b, c)
    BY <2>1, SpelledIs, SMT
  <2>5. w = 0
    BY <1>1, EncodedIs, SMT
  <2>6. a = 0 /\ b = 0 /\ c = 0 /\ d = 0
    OBVIOUS
  <2> HIDE DEF w, a, b, c, d
  <2>7. w = WordOf(d, a, b, c)
    BY <2>3, <2>5, <2>6, SMT DEF WordOf, RegisterNumbers
  <2>8. WordOf(d, a, b, c) \in Numbers /\ Decodes(WordOf(d, a, b, c), t.name, t.args)
    BY <2>1, <2>3, <2>4, DigitsDecode, Zenon
  <2> QED
    BY <2>7, <2>8, Zenon DEF w
<1>2. CASE t.name = "MOV"
  <2> DEFINE d == 1
             a == r(1)
             b == r(2)
             c == 0
  <2>1. Operands(t.name) = <<"from", "to">> /\ VmCode[t.name] = d
    BY <1>2, OperandsAre, CodesAre, SMT
  <2>2. 1 \in DOMAIN Operands(t.name) /\ 2 \in DOMAIN Operands(t.name)
    BY <2>1, SMT
  <2>3. /\ a \in RegisterNumbers /\ b \in RegisterNumbers
        /\ c \in RegisterNumbers /\ d \in RegisterNumbers
    <3>1. 0 \in RegisterNumbers /\ d \in RegisterNumbers
      BY <2>1, SMT DEF RegisterNumbers
    <3> QED
      BY <2>2, <3>1, SMT
  <2>4. Spelled(t.name, t.args, a, b, c)
    BY <2>1, SpelledIs, SMT
  <2>5. w = 256 * b + 16 * a + 1
    BY <1>2, EncodedIs, SMT
  <2>6. c = 0 /\ d = 1
    OBVIOUS
  <2> HIDE DEF w, a, b, c, d
  <2>7. w = WordOf(d, a, b, c)
    BY <2>3, <2>5, <2>6, SMT DEF WordOf, RegisterNumbers
  <2>8. WordOf(d, a, b, c) \in Numbers /\ Decodes(WordOf(d, a, b, c), t.name, t.args)
    BY <2>1, <2>3, <2>4, DigitsDecode, Zenon
  <2> QED
    BY <2>7, <2>8, Zenon DEF w
<1>3. CASE t.name = "MOVNZ"
  <2> DEFINE d == 2
             a == r(1)
             b == r(2)
             c == r(3)
  <2>1. Operands(t.name) = <<"from", "to", "third">> /\ VmCode[t.name] = d
    BY <1>3, OperandsAre, CodesAre, SMT
  <2>2. 1 \in DOMAIN Operands(t.name) /\ 2 \in DOMAIN Operands(t.name) /\ 3 \in DOMAIN Operands(t.name)
    BY <2>1, SMT
  <2>3. /\ a \in RegisterNumbers /\ b \in RegisterNumbers
        /\ c \in RegisterNumbers /\ d \in RegisterNumbers
    <3>1. 0 \in RegisterNumbers /\ d \in RegisterNumbers
      BY <2>1, SMT DEF RegisterNumbers
    <3> QED
      BY <2>2, <3>1, SMT
  <2>4. Spelled(t.name, t.args, a, b, c)
    BY <2>1, SpelledIs, SMT
  <2>5. w = 256 * (16 * c + b) + 16 * a + 2
    BY <1>3, EncodedIs, SMT
  <2>6. d = 2
    OBVIOUS
  <2> HIDE DEF w, a, b, c, d
  <2>7. w = WordOf(d, a, b, c)
    BY <2>3, <2>5, <2>6, SMT DEF WordOf, RegisterNumbers
  <2>8. WordOf(d, a, b, c) \in Numbers /\ Decodes(WordOf(d, a, b, c), t.name, t.args)
    BY <2>1, <2>3, <2>4, DigitsDecode, Zenon
  <2> QED
    BY <2>7, <2>8, Zenon DEF w
<1>4. CASE t.name = "MOVEZ"
  <2> DEFINE d == 3
             a == r(1)
             b == r(2)
             c == r(3)
  <2>1. Operands(t.name) = <<"from", "to", "third">> /\ VmCode[t.name] = d
    BY <1>4, OperandsAre, CodesAre, SMT
  <2>2. 1 \in DOMAIN Operands(t.name) /\ 2 \in DOMAIN Operands(t.name) /\ 3 \in DOMAIN Operands(t.name)
    BY <2>1, SMT
  <2>3. /\ a \in RegisterNumbers /\ b \in RegisterNumbers
        /\ c \in RegisterNumbers /\ d \in RegisterNumbers
    <3>1. 0 \in RegisterNumbers /\ d \in RegisterNumbers
      BY <2>1, SMT DEF RegisterNumbers
    <3> QED
      BY <2>2, <3>1, SMT
  <2>4. Spelled(t.name, t.args, a, b, c)
    BY <2>1, SpelledIs, SMT
  <2>5. w = 256 * (16 * c + b) + 16 * a + 3
    BY <1>4, EncodedIs, SMT
  <2>6. d = 3
    OBVIOUS
  <2> HIDE DEF w, a, b, c, d
  <2>7. w = WordOf(d, a, b, c)
    BY <2>3, <2>5, <2>6, SMT DEF WordOf, RegisterNumbers
  <2>8. WordOf(d, a, b, c) \in Numbers /\ Decodes(WordOf(d, a, b, c), t.name, t.args)
    BY <2>1, <2>3, <2>4, DigitsDecode, Zenon
  <2> QED
    BY <2>7, <2>8, Zenon DEF w
<1>5. CASE t.name = "MEMR"
  <2> DEFINE d == 5
             a == r(1)
             b == r(2)
             c == 0
  <2>1. Operands(t.name) = <<"from", "to">> /\ VmCode[t.name] = d
    BY <1>5, OperandsAre, CodesAre, SMT
  <2>2. 1 \in DOMAIN Operands(t.name) /\ 2 \in DOMAIN Operands(t.name)
    BY <2>1, SMT
  <2>3. /\ a \in RegisterNumbers /\ b \in RegisterNumbers
        /\ c \in RegisterNumbers /\ d \in RegisterNumbers
    <3>1. 0 \in RegisterNumbers /\ d \in RegisterNumbers
      BY <2>1, SMT DEF RegisterNumbers
    <3> QED
      BY <2>2, <3>1, SMT
  <2>4. Spelled(t.name, t.args, a, b, c)
    BY <2>1, SpelledIs, SMT
  <2>5. w = 256 * b + 16 * a + 5
    BY <1>5, EncodedIs, SMT
  <2>6. c = 0 /\ d = 5
    OBVIOUS
  <2> HIDE DEF w, a, b, c, d
  <2>7. w = WordOf(d, a, b, c)
    BY <2>3, <2>5, <2>6, SMT DEF WordOf, RegisterNumbers
  <2>8. WordOf(d, a, b, c) \in Numbers /\ Decodes(WordOf(d, a, b, c), t.name, t.args)
    BY <2>1, <2>3, <2>4, DigitsDecode, Zenon
  <2> QED
    BY <2>7, <2>8, Zenon DEF w
<1>6. CASE t.name = "SET"
  <2> DEFINE d == 6
             a == 0
             b == r(1)
             c == 0
  <2>1. Operands(t.name) = <<"to">> /\ VmCode[t.name] = d
    BY <1>6, OperandsAre, CodesAre, SMT
  <2>2. 1 \in DOMAIN Operands(t.name)
    BY <2>1, SMT
  <2>3. /\ a \in RegisterNumbers /\ b \in RegisterNumbers
        /\ c \in RegisterNumbers /\ d \in RegisterNumbers
    <3>1. 0 \in RegisterNumbers /\ d \in RegisterNumbers
      BY <2>1, SMT DEF RegisterNumbers
    <3> QED
      BY <2>2, <3>1, SMT
  <2>4. Spelled(t.name, t.args, a, b, c)
    BY <2>1, SpelledIs, SMT
  <2>5. w = 256 * b + 6
    BY <1>6, EncodedIs, SMT
  <2>6. a = 0 /\ c = 0 /\ d = 6
    OBVIOUS
  <2> HIDE DEF w, a, b, c, d
  <2>7. w = WordOf(d, a, b, c)
    BY <2>3, <2>5, <2>6, SMT DEF WordOf, RegisterNumbers
  <2>8. WordOf(d, a, b, c) \in Numbers /\ Decodes(WordOf(d, a, b, c), t.name, t.args)
    BY <2>1, <2>3, <2>4, DigitsDecode, Zenon
  <2> QED
    BY <2>7, <2>8, Zenon DEF w
<1>7. CASE t.name = "MEMW"
  <2> DEFINE d == 7
             a == r(1)
             b == 0
             c == r(2)
  <2>1. Operands(t.name) = <<"from", "third">> /\ VmCode[t.name] = d
    BY <1>7, OperandsAre, CodesAre, SMT
  <2>2. 1 \in DOMAIN Operands(t.name) /\ 2 \in DOMAIN Operands(t.name)
    BY <2>1, SMT
  <2>3. /\ a \in RegisterNumbers /\ b \in RegisterNumbers
        /\ c \in RegisterNumbers /\ d \in RegisterNumbers
    <3>1. 0 \in RegisterNumbers /\ d \in RegisterNumbers
      BY <2>1, SMT DEF RegisterNumbers
    <3> QED
      BY <2>2, <3>1, SMT
  <2>4. Spelled(t.name, t.args, a, b, c)
    BY <2>1, SpelledIs, SMT
  <2>5. w = 256 * 16 * c + 16 * a + 7
    BY <1>7, EncodedIs, SMT
  <2>6. b = 0 /\ d = 7
    OBVIOUS
  <2> HIDE DEF w, a, b, c, d
  <2>7. w = WordOf(d, a, b, c)
    BY <2>3, <2>5, <2>6, SMT DEF WordOf, RegisterNumbers
  <2>8. WordOf(d, a, b, c) \in Numbers /\ Decodes(WordOf(d, a, b, c), t.name, t.args)
    BY <2>1, <2>3, <2>4, DigitsDecode, Zenon
  <2> QED
    BY <2>7, <2>8, Zenon DEF w
<1>8. CASE t.name \in AluNames
  <2> DEFINE d == VmCode[t.name]
             a == r(1)
             b == r(2)
             c == r(3)
  <2>1. /\ Operands(t.name) = <<"from", "to", "third">> /\ VmCode[t.name] = d
        /\ d \in 8 .. 15 /\ AluCode(t.name) = d
    BY <1>8, AluIs, SMT
  <2>2. 1 \in DOMAIN Operands(t.name) /\ 2 \in DOMAIN Operands(t.name) /\ 3 \in DOMAIN Operands(t.name)
    BY <2>1, SMT
  <2>3. /\ a \in RegisterNumbers /\ b \in RegisterNumbers
        /\ c \in RegisterNumbers /\ d \in RegisterNumbers
    <3>1. 0 \in RegisterNumbers /\ d \in RegisterNumbers
      BY <2>1, SMT DEF RegisterNumbers
    <3> QED
      BY <2>2, <3>1, SMT
  <2>4. Spelled(t.name, t.args, a, b, c)
    BY <2>1, SpelledIs, SMT
  <2>5. w = aluCmd(t.name, a, b, c)
    BY <1>8, EncodedIs, SMT
  <2> HIDE DEF w, a, b, c, d
  <2>7. w = WordOf(d, a, b, c)
    BY <2>3, <2>5, <2>1, SMT DEF WordOf, RegisterNumbers, aluCmd
  <2>8. WordOf(d, a, b, c) \in Numbers /\ Decodes(WordOf(d, a, b, c), t.name, t.args)
    BY <2>1, <2>3, <2>4, DigitsDecode, Zenon
  <2> QED
    BY <2>7, <2>8, Zenon DEF w
<1> QED
  BY <1>0, <1>1, <1>2, <1>3, <1>4, <1>5, <1>6, <1>7, <1>8, SMT DEF AluNames

LEMMA NumberOperand ==
  ASSUME NEW o \in Operand, o[1] = "num"
  PROVE  o[2] \in Numbers
<1>1. o \notin {"reg"} \X RegisterNumbers /\ o \notin {"label"} \X Labels
  OBVIOUS
<1>2. o \in {"num"} \X Numbers
  BY <1>1, Zenon DEF Operand
<1> QED
  BY <1>2

LEMMA RegisterOperand ==
  ASSUME NEW o \in Operand, o[1] = "reg"
  PROVE  o[2] \in RegisterNumbers
<1>1. o \notin {"num"} \X Numbers /\ o \notin {"label"} \X Labels
  OBVIOUS
<1>2. o \in {"reg"} \X RegisterNumbers
  BY <1>1, Zenon DEF Operand
<1> QED
  BY <1>2

(* A number is its own word.                                               *)
LEMMA NumberEncoded ==
  ASSUME NEW t, t.name = "RAW", t.args[1][2] \in Numbers
  PROVE  Encoded(t) = t.args[1][2] /\ Encoded(t) \in Numbers
<1> DEFINE a == t.args[1][2]
<1>1. Encoded(t) = a % 65536
  BY EncodedIs, SMT
<1>2. a \in Int /\ 0 <= a /\ a <= 65535
  BY NumbersAre, SMT
<1> HIDE DEF a
<1>3. a % 65536 = a
  BY <1>2, SMT
<1>4. Encoded(t) = a
  BY <1>1, <1>3, SMT
<1> QED
  BY <1>4, SMT DEF a

(* What a token is encoded to, when its labels are resolved: the number,   *)
(* the address or the instruction of its word.                             *)
LEMMA EncodedWord ==
  ASSUME file \in Files, NEW n \in DOMAIN AllWords, NEW t \in Tok,
         t.name = AllWords[n].name, t.args = Resolved(n)
  PROVE  /\ Encoded(t) \in Numbers
         /\ t.name \in Known \ {"RAW"} =>
              Decodes(Encoded(t), AllWords[n].name, AllWords[n].args)
         /\ t.name = "RAW" /\ AllWords[n].args[1][1] = "num" =>
              Encoded(t) = AllWords[n].args[1][2]
         /\ References(n) => Encoded(t) = Address(AllWords[n].args[1][2])
<1> DEFINE w == AllWords[n]
<1>1. w.name \in Names /\ w.args \in Seq(Operand) /\ Fits(w) /\ t.args \in Seq(Operand)
  BY WordIs, SMT DEF Tok
<1>2. t.name # "RAW" => ~ References(n)
  BY SMT DEF References
<1>3. CASE t.name \in Known \ {"RAW"}
  <2>1. t.args = w.args /\ w.name = t.name
    BY <1>2, <1>3, SMT DEF Resolved
  <2>2. ASSUME NEW k \in DOMAIN Operands(t.name)
        PROVE  t.args[k][2] \in RegisterNumbers
    <3>1. k \in DOMAIN w.args /\ w.args[k][1] = "reg"
      BY <1>1, <1>3, <2>1, Zenon DEF Fits
    <3>2. k \in 1 .. Len(w.args)
      BY <1>1, <3>1, LenProperties, SMT
    <3>3. w.args[k] \in Operand
      BY <1>1, <3>2, ElementOfSeq, SMT
    <3> QED
      BY <2>1, <3>1, <3>3, RegisterOperand, SMT
  <2>3. Encoded(t) \in Numbers /\ Decodes(Encoded(t), t.name, t.args)
    BY <1>3, <2>2, CommandEncoded, Zenon
  <2> QED
    BY <1>2, <1>3, <2>1, <2>3, Zenon
<1>4. CASE t.name = "RAW"
  <2>1. Len(w.args) = 1 /\ w.args[1][1] \in {"num", "label"}
    BY <1>1, <1>4, Zenon DEF Fits
  <2>2. CASE w.args[1][1] = "num"
    <3>1. ~ References(n) /\ t.args = w.args
      BY <2>2, SMT DEF References, Resolved
    <3>2. w.args[1] \in Operand
      BY <1>1, <2>1, ElementOfSeq, SMT
    <3>3. t.args[1][2] \in Numbers
      BY <2>2, <3>1, <3>2, NumberOperand, SMT
    <3>4. Encoded(t) = t.args[1][2] /\ Encoded(t) \in Numbers
      BY <1>4, <3>3, NumberEncoded, Zenon
    <3> QED
      BY <1>4, <3>1, <3>4, Zenon
  <2>3. CASE w.args[1][1] = "label"
    <3> DEFINE a == Address(w.args[1][2])
    <3>1. References(n)
      BY <1>4, <2>3, Zenon DEF References
    <3>2. t.args = <<Number(a)>>
      BY <3>1, Zenon DEF Resolved
    <3> HIDE DEF a
    <3>3. Len(t.args) = 1 /\ t.args[1] = Number(a)
      BY <3>2, SMT
    <3>4. t.args[1][1] = "num" /\ t.args[1][2] = a
      BY <3>3, SMT DEF Number
    <3>0. 1 \in 1 .. Len(t.args)
      BY <3>3, SMT
    <3>5. t.args[1] \in Operand
      BY <1>1, <3>0, ElementOfSeq, Zenon
    <3>6. t.args[1][2] \in Numbers
      BY <3>4, <3>5, NumberOperand, SMT
    <3>7. Encoded(t) = a /\ Encoded(t) \in Numbers
      BY <1>4, <3>4, <3>6, NumberEncoded, Zenon
    <3> QED
      BY <1>4, <2>3, <3>7, SMT DEF a
  <2> QED
    BY <2>1, <2>2, <2>3, Zenon
<1>5. CASE t.name \notin Known
  <2>1. Encoded(t) = 0
    BY <1>5, EncodedIs, SMT
  <2>2. "RAW" \in Known
    BY Zenon DEF Known
  <2>3. Encoded(t) \in Numbers
    BY <2>1, NumbersAre, SMT
  <2> QED
    BY <1>2, <1>5, <2>2, <2>3, Zenon
<1> QED
  BY <1>3, <1>4, <1>5, Zenon

(* The words in front of the program.                                      *)
LEMMA JumpIs ==
  /\ autoJumpTo(offset)[1] = Token(<<>>, "SET", <<SCR1>>)
  /\ autoJumpTo(offset)[2] = Token(<<>>, "RAW", <<Number(offset)>>)
  /\ autoJumpTo(offset)[3] = Token(<<>>, "MOV", <<SCR1, PC>>)
  BY SMT DEF autoJumpTo

LEMMA TokenIs ==
  ASSUME NEW name \in Names, NEW args \in Seq(Operand)
  PROVE  Token(<<>>, name, args) \in Tok
<1>1. <<>> \in Seq(Labels)
  BY EmptySeq, Zenon
<1> QED
  BY <1>1, SMT DEF Token, Tok

LEMMA OffsetIs ==
  ASSUME offset \in Offsets
  PROVE  offset \in Numbers /\ offset \in Nat
<1>1. offset \in Numbers
  BY OffsetsAssumption, Zenon
<1>2. offset \in Int /\ 0 <= offset
  BY <1>1, NumbersAre, SMT
<1> QED
  BY <1>1, <1>2, SMT

LEMMA FillerIs ==
  ASSUME offset \in Offsets
  PROVE  \A k \in 1 .. offset : Filler(k) \in Tok
<1> SUFFICES ASSUME NEW k \in 1 .. offset
             PROVE  Filler(k) \in Tok
  OBVIOUS
<1>0. k \in Int /\ 1 <= k
  BY OffsetIs, SMT
<1>1. "RAW" \in Names /\ "SET" \in Names /\ "MOV" \in Names
  BY NamesAssumption, Zenon DEF NamesOK, Known
<1>2. SCR1 \in Operand /\ PC \in Operand
  <2>1. 8 \in RegisterNumbers /\ 11 \in RegisterNumbers
    BY SMT DEF RegisterNumbers
  <2> QED
    BY <2>1, OperandIs, SMT DEF SCR1, PC
<1>3. Number(0) \in Operand /\ Number(offset) \in Operand
  <2>1. 0 \in Numbers
    BY NumbersAre, SMT
  <2> QED
    BY <2>1, OffsetIs, OperandIs, SMT
<1>4. /\ <<SCR1>> \in Seq(Operand) /\ <<SCR1, PC>> \in Seq(Operand)
      /\ <<Number(0)>> \in Seq(Operand) /\ <<Number(offset)>> \in Seq(Operand)
  <2> HIDE DEF Operand, SCR1, PC, Number
  <2> QED
    BY <1>2, <1>3, SMT
<1>5. CASE ~ (autoJump /\ k <= 3)
  BY <1>1, <1>4, <1>5, TokenIs, Zenon DEF Filler
<1>6. CASE autoJump /\ k <= 3
  <2>1. Filler(k) = autoJumpTo(offset)[k]
    BY <1>6, Zenon DEF Filler
  <2>2. k = 1 \/ k = 2 \/ k = 3
    BY <1>0, <1>6, SMT
  <2>3. /\ Token(<<>>, "SET", <<SCR1>>) \in Tok
        /\ Token(<<>>, "RAW", <<Number(offset)>>) \in Tok
        /\ Token(<<>>, "MOV", <<SCR1, PC>>) \in Tok
    BY <1>1, <1>4, TokenIs, Zenon
  <2> QED
    BY <2>1, <2>2, <2>3, JumpIs, Zenon
<1> QED
  BY <1>5, <1>6, Zenon

LEMMA StepPrependOffset == IInv /\ prependOffset => IInv'
<1> SUFFICES ASSUME IInv, prependOffset
             PROVE  IInv'
  OBVIOUS
<1> DEFINE head == [k \in 1 .. offset |-> Filler(k)]
           nx   == tokens'
<1>1. phase = "offset" /\ phase' = "encode" /\ nx = head \o tokens
  BY DEF prependOffset, Filler
<1>2. UNCHANGED <<file, offset, autoJump, lib, i, replaced, labelMap, output, cause>>
  BY DEF prependOffset
<1>3. /\ TypeOK /\ (autoJump => offset >= 3) /\ Causes /\ LinkedAt(0)
      /\ file \in Files /\ offset \in Offsets /\ tokens \in Seq(Tok)
  BY <1>1 DEF IInv, Linked, TypeOK, Tok
<1>4. offset \in Nat /\ Len(tokens) \in Nat /\ Len(AllWords) \in Nat
      /\ DOMAIN AllWords = 1 .. Len(AllWords) /\ Len(tokens) = 0 + Len(AllWords)
      /\ \A n \in DOMAIN AllWords : /\ tokens[0 + n].name = AllWords[n].name
                                    /\ tokens[0 + n].args = Resolved(n)
  <2>1. offset \in Nat
    BY <1>3, OffsetIs, SMT
  <2>2. Len(AllWords) \in Nat /\ DOMAIN AllWords = 1 .. Len(AllWords)
    BY <1>3, WordsAre, SMT
  <2>3. Len(tokens) \in Nat
    BY <1>3, LenProperties, SMT
  <2> QED
    BY <1>3, <2>1, <2>2, <2>3 DEF LinkedAt
<1>5. head \in Seq(Tok) /\ Len(head) = offset /\ \A k \in 1 .. offset : head[k] = Filler(k)
  <2>1. \A k \in 1 .. offset : head[k] \in Tok /\ head[k] = Filler(k)
    BY <1>3, FillerIs
  <2>2. head = [k \in 1 .. offset |-> head[k]]
    BY <2>1
  <2> HIDE DEF head
  <2>3. head \in Seq(Tok) /\ Len(head) = offset
    BY <1>4, <2>1, <2>2, MakeSeq, Zenon
  <2> QED
    BY <2>1, <2>3
<1> HIDE DEF head, nx
<1>6. /\ nx \in Seq(Tok) /\ Len(nx) = offset + Len(tokens)
      /\ \A k \in 1 .. offset + Len(tokens) :
           nx[k] = IF k <= offset THEN head[k] ELSE tokens[k - offset]
  BY <1>1, <1>3, <1>5, ConcatProperties
<1>7. \A k \in 1 .. offset : nx[k] = Filler(k)
  BY <1>4, <1>5, <1>6, SMT
<1>8. \A n \in 1 .. Len(tokens) : nx[offset + n] = tokens[n]
  BY <1>4, <1>6, SMT
<1>9. LinkedAt(offset)'
  <2>1. \A n \in DOMAIN AllWords : /\ nx[offset + n].name = AllWords[n].name
                                   /\ nx[offset + n].args = Resolved(n)
    BY <1>4, <1>8, SMT
  <2>2. Len(nx) = offset + Len(AllWords)
    BY <1>4, <1>6, SMT
  <2> QED
    BY <1>2, <2>1, <2>2, FileKept DEF LinkedAt, nx
<1>10. Filling'
  BY <1>2, <1>7 DEF Filling, Filler, nx
<1>11. TypeOK'
  <2>1. i \in 1 .. Len(tokens) + 1 /\ \A l \in DOMAIN labelMap : labelMap[l] \in 0 .. Len(tokens) - 1
    BY <1>3 DEF TypeOK
  <2>2. i' \in 1 .. Len(nx) + 1
    BY <1>2, <1>4, <1>6, <2>1, SMT
  <2>3. \A l \in DOMAIN labelMap' : labelMap'[l] \in 0 .. Len(nx) - 1
    BY <1>2, <1>4, <1>6, <2>1, SMT
  <2> QED
    BY <1>1, <1>2, <1>3, <1>6, <2>2, <2>3 DEF TypeOK, Tok, nx
<1>12. Causes'
  BY <1>1, <1>2, <1>3 DEF Causes
<1> QED
  BY <1>1, <1>2, <1>3, <1>9, <1>10, <1>11, <1>12
  DEF IInv, Expanding, Expanded, Mapped, Linked, Written

LEMMA FillerEncoded ==
  ASSUME offset \in Offsets
  PROVE  /\ Decodes(Encoded(autoJumpTo(offset)[1]), "SET", <<SCR1>>)
         /\ Encoded(autoJumpTo(offset)[2]) = offset
         /\ Decodes(Encoded(autoJumpTo(offset)[3]), "MOV", <<SCR1, PC>>)
         /\ Encoded(Token(<<>>, "RAW", <<Number(0)>>)) = 0
         /\ Decodes(0, "HALT", <<>>)
         /\ \A k \in 1 .. offset : Encoded(Filler(k)) \in Numbers
<1> DEFINE set  == Token(<<>>, "SET", <<SCR1>>)
           raw  == Token(<<>>, "RAW", <<Number(offset)>>)
           mov  == Token(<<>>, "MOV", <<SCR1, PC>>)
           zero == Token(<<>>, "RAW", <<Number(0)>>)
           halt == Token(<<>>, "HALT", <<>>)
<1>1. /\ set.name = "SET" /\ set.args = <<SCR1>> /\ mov.name = "MOV" /\ mov.args = <<SCR1, PC>>
      /\ halt.name = "HALT" /\ halt.args = <<>>
      /\ raw.name = "RAW" /\ raw.args[1][2] = offset
      /\ zero.name = "RAW" /\ zero.args[1][2] = 0
      /\ set.args[1][2] = 8 /\ mov.args[1][2] = 8 /\ mov.args[2][2] = 11
  BY SMT DEF Token, Number, SCR1, PC, Register
<1> HIDE DEF set, raw, mov, zero, halt
<1>2. {"SET", "MOV", "HALT"} \subseteq Known \ {"RAW"}
  BY SMT DEF Known
<1>3. 8 \in RegisterNumbers /\ 11 \in RegisterNumbers
  BY SMT DEF RegisterNumbers
<1>4. Encoded(set) \in Numbers /\ Decodes(Encoded(set), set.name, set.args)
  <2>1. Operands(set.name) = <<"to">>
    BY <1>1, OperandsAre, SMT
  <2>2. \A n \in DOMAIN Operands(set.name) : n = 1
    BY <2>1, SMT
  <2>3. \A n \in DOMAIN Operands(set.name) : set.args[n][2] \in RegisterNumbers
    BY <1>1, <1>3, <2>2, SMT
  <2>4. set.name \in Known \ {"RAW"}
    BY <1>1, <1>2, SMT
  <2> QED
    BY <2>3, <2>4, CommandEncoded, Zenon
<1>5. Encoded(mov) \in Numbers /\ Decodes(Encoded(mov), mov.name, mov.args)
  <2>1. Operands(mov.name) = <<"from", "to">>
    BY <1>1, OperandsAre, SMT
  <2>2. \A n \in DOMAIN Operands(mov.name) : n = 1 \/ n = 2
    BY <2>1, SMT
  <2>3. \A n \in DOMAIN Operands(mov.name) : mov.args[n][2] \in RegisterNumbers
    BY <1>1, <1>3, <2>2, SMT
  <2>4. mov.name \in Known \ {"RAW"}
    BY <1>1, <1>2, SMT
  <2> QED
    BY <2>3, <2>4, CommandEncoded, Zenon
<1>6. Encoded(halt) = 0 /\ Decodes(Encoded(halt), halt.name, halt.args)
  <2>1. Operands(halt.name) = <<>>
    BY <1>1, OperandsAre, SMT
  <2>2. \A n \in DOMAIN Operands(halt.name) : halt.args[n][2] \in RegisterNumbers
    BY <2>1, SMT
  <2>3. halt.name \in Known \ {"RAW"}
    BY <1>1, <1>2, SMT
  <2>4. Decodes(Encoded(halt), halt.name, halt.args)
    BY <2>2, <2>3, CommandEncoded, Zenon
  <2> QED
    BY <1>1, <2>4, EncodedIs, SMT
<1>7. Encoded(raw) = offset /\ Encoded(raw) \in Numbers
  BY <1>1, OffsetIs, NumberEncoded, SMT
<1>8. Encoded(zero) = 0 /\ Encoded(zero) \in Numbers
  <2>1. 0 \in Numbers
    BY NumbersAre, SMT
  <2> QED
    BY <1>1, <2>1, NumberEncoded, SMT
<1>9. /\ autoJumpTo(offset)[1] = set /\ autoJumpTo(offset)[2] = raw
      /\ autoJumpTo(offset)[3] = mov
  BY JumpIs, Zenon DEF set, raw, mov
<1>10. ASSUME NEW k \in 1 .. offset
       PROVE  Encoded(Filler(k)) \in Numbers
  <2>0. k \in Int /\ 1 <= k
    BY OffsetIs, SMT
  <2>1. CASE ~ (autoJump /\ k <= 3)
    BY <1>8, <2>1, Zenon DEF Filler, zero
  <2>2. CASE autoJump /\ k <= 3
    <3>1. Filler(k) = autoJumpTo(offset)[k]
      BY <2>2, Zenon DEF Filler
    <3>2. k = 1 \/ k = 2 \/ k = 3
      BY <2>0, <2>2, SMT
    <3> QED
      BY <1>4, <1>5, <1>7, <1>9, <3>1, <3>2, Zenon
  <2> QED
    BY <2>1, <2>2, Zenon
<1>11. /\ Decodes(Encoded(set), "SET", <<SCR1>>) /\ Decodes(Encoded(mov), "MOV", <<SCR1, PC>>)
       /\ Decodes(0, "HALT", <<>>)
  BY <1>1, <1>4, <1>5, <1>6, Zenon
<1>12. Encoded(Token(<<>>, "RAW", <<Number(0)>>)) = 0
  BY <1>8, Zenon DEF zero
<1> QED
  BY <1>7, <1>9, <1>10, <1>11, <1>12, Zenon

(* Every token that is encoded gives a word of 16 bits.                    *)
LEMMA TokensEncoded ==
  ASSUME TypeOK, LinkedAt(offset), Filling
  PROVE  \A k \in DOMAIN tokens : Encoded(tokens[k]) \in Numbers
<1>1. file \in Files /\ offset \in Offsets /\ tokens \in Seq(Tok)
  BY Zenon DEF TypeOK, Tok
<1>2. offset \in Nat /\ Len(AllWords) \in Nat /\ DOMAIN AllWords = 1 .. Len(AllWords)
  BY <1>1, OffsetIs, WordsAre, SMT
<1>3. /\ Len(tokens) = offset + Len(AllWords)
      /\ \A n \in DOMAIN AllWords : /\ tokens[offset + n].name = AllWords[n].name
                                    /\ tokens[offset + n].args = Resolved(n)
  BY Zenon DEF LinkedAt
<1>4. DOMAIN tokens = 1 .. Len(tokens) /\ \A k \in 1 .. Len(tokens) : tokens[k] \in Tok
  BY <1>1, LenProperties, ElementOfSeq
<1> SUFFICES ASSUME NEW k \in DOMAIN tokens
             PROVE  Encoded(tokens[k]) \in Numbers
  OBVIOUS
<1>5. k \in 1 .. offset + Len(AllWords) /\ tokens[k] \in Tok
  BY <1>3, <1>4, SMT
<1>6. CASE k \in 1 .. offset
  BY <1>1, <1>6, FillerEncoded, Zenon DEF Filling
<1>7. CASE k \notin 1 .. offset
  <2> DEFINE n == k - offset
             t == tokens[k]
  <2>1. n \in DOMAIN AllWords /\ offset + n = k
    BY <1>2, <1>5, <1>7, SMT
  <2>2. t.name = AllWords[n].name /\ t.args = Resolved(n) /\ t \in Tok
    <3> HIDE DEF n
    <3> QED
      BY <1>3, <1>5, <2>1, SMT
  <2> HIDE DEF n, t
  <2>3. Encoded(t) \in Numbers
    BY <1>1, <2>1, <2>2, EncodedWord, Zenon
  <2> QED
    BY <2>3, Zenon DEF t
<1> QED
  BY <1>6, <1>7, Zenon

LEMMA StepEncode == IInv /\ encode => IInv'
<1> SUFFICES ASSUME IInv, encode
             PROVE  IInv'
  OBVIOUS
<1> DEFINE words == [k \in DOMAIN tokens |-> Encoded(tokens[k])]
           known == \A k \in DOMAIN tokens : tokens[k].name \in Known
           out   == output'
<1>1. /\ phase = "encode" /\ phase' = "done"
      /\ out = IF words # <<>> /\ words[Len(words)] # 0 THEN Append(words, 0) ELSE words
      /\ cause' = IF known THEN cause ELSE "Invalid instruction encountered"
  BY DEF encode
<1>2. UNCHANGED <<file, offset, autoJump, tokens, lib, i, replaced, labelMap>>
  BY DEF encode
<1>3. /\ TypeOK /\ (autoJump => offset >= 3) /\ cause = "" /\ LinkedAt(offset) /\ Filling
      /\ file \in Files /\ offset \in Offsets /\ tokens \in Seq(Tok)
  BY <1>1 DEF IInv, Linked, TypeOK, Tok, Causes
<1>4. Len(tokens) \in Nat /\ DOMAIN tokens = 1 .. Len(tokens)
  <2>1. tokens \in Seq(Tok)
    BY <1>3, Zenon
  <2> QED
    BY <2>1, LenProperties
<1>5. \A k \in 1 .. Len(tokens) : words[k] = Encoded(tokens[k]) /\ words[k] \in Numbers
  BY <1>3, <1>4, TokensEncoded
<1>6. words = [k \in 1 .. Len(tokens) |-> words[k]]
  BY <1>4
<1> HIDE DEF words, out
<1>7. words \in Seq(Numbers) /\ Len(words) = Len(tokens)
  BY <1>4, <1>5, <1>6, MakeSeq, Zenon
<1>8. 0 \in Numbers
  BY NumbersAre, SMT
<1>9. /\ out \in Seq(Numbers) /\ Len(out) \in Len(tokens) .. Len(tokens) + 1
      /\ \A k \in 1 .. Len(tokens) : out[k] = Encoded(tokens[k])
  <2>1. CASE out = words
    BY <1>4, <1>5, <1>7, <2>1, SMT
  <2>2. CASE out = Append(words, 0)
    <3>1. /\ out \in Seq(Numbers) /\ Len(out) = Len(words) + 1
          /\ \A k \in 1 .. Len(words) : out[k] = words[k]
      BY <1>7, <1>8, <2>2, AppendProperties
    <3> QED
      BY <1>4, <1>5, <1>7, <3>1, SMT
  <2> QED
    BY <1>1, <2>1, <2>2, Zenon
<1>10. Written'
  <2>1. cause' = "" => known
    <3> HIDE DEF known
    <3>1. cause' = IF known THEN cause ELSE "Invalid instruction encountered"
      BY <1>1, Zenon
    <3>2. CASE known
      BY <3>2, Zenon
    <3>3. CASE ~ known
      BY <3>1, <3>3, Zenon
    <3> QED
      BY <3>2, <3>3, Zenon
  <2> QED
    BY <1>2, <1>4, <1>9, <2>1 DEF Written, out
<1>11. LinkedAt(offset)' /\ Filling'
  <2>1. LinkedAt(offset)'
    BY <1>2, <1>3, FileKept DEF LinkedAt
  <2>2. Filling'
    BY <1>2, <1>3 DEF Filling, Filler
  <2> QED
    BY <2>1, <2>2
<1>12. TypeOK'
  BY <1>1, <1>2, <1>3, <1>9 DEF TypeOK, out
<1>13. Causes'
  <2>1. cause' \in {"", "Invalid instruction encountered"}
    <3> HIDE DEF known
    <3>1. cause' = IF known THEN cause ELSE "Invalid instruction encountered"
      BY <1>1, Zenon
    <3>2. cause = ""
      BY <1>3, Zenon
    <3> QED
      BY <3>1, <3>2, Zenon
  <2>2. phase' = "done"
    BY <1>1, Zenon
  <2>3. cause' # "Undefined label referenced" /\ phase' # "exited"
    BY <2>1, <2>2, Zenon
  <2> QED
    BY <2>2, <2>3, Zenon DEF Causes
<1> QED
  BY <1>1, <1>2, <1>3, <1>10, <1>11, <1>12, <1>13
  DEF IInv, Expanding, Expanded, Mapped, Linked

-----------------------------------------------------------------------------
(* The invariant, and the theorems.                                        *)
LEMMA StepStutter == IInv /\ UNCHANGED vars => IInv'
<1> SUFFICES ASSUME IInv, UNCHANGED vars
             PROVE  IInv'
  OBVIOUS
<1>1. UNCHANGED <<file, offset, autoJump, phase, tokens, lib, i, replaced, labelMap,
                  output, cause>>
  BY DEF vars
<1>2. file' = file
  BY <1>1
<1>3. TypeOK' /\ (autoJump' => offset' >= 3)
  BY <1>1 DEF IInv, TypeOK
<1>4. Placed(tokens)' <=> Placed(tokens)
  BY <1>1, FileKept DEF Placed
<1>5. Expanding' /\ Expanded'
  BY <1>1, <1>4, FileKept DEF IInv, Expanding, Expanded, Scanned, NotIn
<1>6. Mapped'
  BY <1>1, FileKept DEF IInv, Mapped
<1>7. LinkedAt(0)' <=> LinkedAt(0)
  BY <1>1, FileKept DEF LinkedAt
<1>8. LinkedAt(offset)' <=> LinkedAt(offset)
  BY <1>1, FileKept DEF LinkedAt
<1>9. Linked'
  BY <1>1, <1>7, <1>8 DEF IInv, Linked, Filling, Filler
<1>10. Written'
  BY <1>1 DEF IInv, Written
<1>11. Causes'
  BY <1>1, FileKept DEF IInv, Causes
<1> QED
  BY <1>3, <1>5, <1>6, <1>9, <1>10, <1>11 DEF IInv

(* In every state of Compile the invariant holds: every token belongs to a *)
(* word of the program, whatever was replaced so far.                      *)
THEOREM AssemblerInv == Spec => []IInv
<1>1. IInv /\ [Next]_vars => IInv'
  <2> SUFFICES ASSUME IInv, [Next]_vars
               PROVE  IInv'
    OBVIOUS
  <2>1. CASE Expand
    BY <2>1, StepExpand
  <2>2. CASE Keep
    BY <2>2, StepKeep
  <2>3. CASE NextLib
    BY <2>3, StepNextLib
  <2>4. CASE Round
    BY <2>4, StepRound
  <2>5. CASE parseLabels
    BY <2>5, StepParseLabels
  <2>6. CASE replaceLabels
    BY <2>6, StepReplaceLabels
  <2>7. CASE prependOffset
    BY <2>7, StepPrependOffset
  <2>8. CASE encode
    BY <2>8, StepEncode
  <2>9. CASE UNCHANGED vars
    BY <2>9, StepStutter
  <2> QED
    BY <2>1, <2>2, <2>3, <2>4, <2>5, <2>6, <2>7, <2>8, <2>9 DEF Next
<1> QED
  BY InitInv, <1>1, PTL DEF Spec

(* A program that compiled: behind the offset, word n of the output is the *)
(* encoding of token n, which is word n of the text with its address.      *)
LEMMA CompiledIs ==
  ASSUME IInv, Compiled
  PROVE  /\ file \in Files /\ offset \in Offsets /\ offset \in Nat
         /\ Len(output) \in offset + Len(AllWords) .. offset + Len(AllWords) + 1
         /\ \A k \in 1 .. offset : output[k] = Encoded(Filler(k))
         /\ \A n \in DOMAIN AllWords : \E t \in Tok :
              /\ t.name = AllWords[n].name /\ t.args = Resolved(n)
              /\ At(n) = Encoded(t) /\ t.name \in Known
<1>1. phase = "done" /\ cause = ""
  BY Zenon DEF Compiled
<1>2. TypeOK /\ LinkedAt(offset) /\ Filling
  BY <1>1 DEF IInv, Linked
<1>3. /\ Len(output) \in Len(tokens) .. Len(tokens) + 1
      /\ \A k \in DOMAIN tokens : output[k] = Encoded(tokens[k])
      /\ \A k \in DOMAIN tokens : tokens[k].name \in Known
  BY <1>1 DEF IInv, Written
<1>4. file \in Files /\ offset \in Offsets /\ tokens \in Seq(Tok)
  BY <1>2, Zenon DEF TypeOK, Tok
<1>5. offset \in Nat /\ Len(AllWords) \in Nat /\ DOMAIN AllWords = 1 .. Len(AllWords)
  BY <1>4, OffsetIs, WordsAre, SMT
<1>6. /\ Len(tokens) = offset + Len(AllWords)
      /\ \A n \in DOMAIN AllWords : /\ tokens[offset + n].name = AllWords[n].name
                                    /\ tokens[offset + n].args = Resolved(n)
  BY <1>2, Zenon DEF LinkedAt
<1>7. DOMAIN tokens = 1 .. Len(tokens) /\ \A k \in 1 .. Len(tokens) : tokens[k] \in Tok
  BY <1>4, LenProperties, ElementOfSeq
<1>8. \A k \in 1 .. offset : output[k] = Encoded(Filler(k))
  <2>1. \A k \in 1 .. offset : k \in DOMAIN tokens
    BY <1>5, <1>6, <1>7, SMT
  <2> QED
    BY <1>2, <1>3, <2>1, Zenon DEF Filling
<1>9. ASSUME NEW n \in DOMAIN AllWords
      PROVE  \E t \in Tok : /\ t.name = AllWords[n].name /\ t.args = Resolved(n)
                            /\ At(n) = Encoded(t) /\ t.name \in Known
  <2> DEFINE t == tokens[offset + n]
  <2>1. offset + n \in DOMAIN tokens /\ offset + n \in 1 .. Len(tokens)
    BY <1>5, <1>6, <1>7, SMT
  <2>2. t \in Tok /\ t.name = AllWords[n].name /\ t.args = Resolved(n)
    BY <1>6, <1>7, <2>1, Zenon
  <2>3. At(n) = Encoded(t) /\ t.name \in Known
    BY <1>3, <2>1, Zenon DEF At
  <2> HIDE DEF t
  <2> QED
    BY <2>2, <2>3, Zenon
<1>10. Len(output) \in offset + Len(AllWords) .. offset + Len(AllWords) + 1
  BY <1>3, <1>6, Zenon
<1> QED
  BY <1>4, <1>5, <1>8, <1>9, <1>10, Zenon

(* Tokens, library, index, label map and output have their types in every  *)
(* state: no loop of Compile leaves the tokens or the libraries.           *)
THEOREM TypeCorrect == Spec => []TypeOK
<1>1. IInv => TypeOK
  BY DEF IInv
<1> QED
  BY AssemblerInv, <1>1, PTL

(* WordsRight for all files, libraries, depths and offsets: whatever order *)
(* the rounds replace tokens in, a program that compiles consists of the   *)
(* words of its lines, decoded by the VM as the commands written.          *)
THEOREM WordsCorrect == Spec => []WordsRight
<1>1. IInv => WordsRight
  <2> SUFFICES ASSUME IInv, Compiled
               PROVE  /\ Len(output) \in offset + Len(AllWords) .. offset + Len(AllWords) + 1
                      /\ \A n \in DOMAIN AllWords :
                           /\ AllWords[n].name # "RAW" =>
                                Decodes(At(n), AllWords[n].name, AllWords[n].args)
                           /\ AllWords[n].name = "RAW" /\ AllWords[n].args[1][1] = "num" =>
                                At(n) = AllWords[n].args[1][2]
    BY Zenon DEF WordsRight
  <2>1. Len(output) \in offset + Len(AllWords) .. offset + Len(AllWords) + 1
        /\ file \in Files
    BY CompiledIs, Zenon
  <2>2. ASSUME NEW n \in DOMAIN AllWords
        PROVE  /\ AllWords[n].name # "RAW" =>
                    Decodes(At(n), AllWords[n].name, AllWords[n].args)
               /\ AllWords[n].name = "RAW" /\ AllWords[n].args[1][1] = "num" =>
                    At(n) = AllWords[n].args[1][2]
    <3>1. PICK t \in Tok : /\ t.name = AllWords[n].name /\ t.args = Resolved(n)
                           /\ At(n) = Encoded(t) /\ t.name \in Known
      BY CompiledIs, Zenon
    <3>2. /\ t.name \in Known \ {"RAW"} =>
               Decodes(Encoded(t), AllWords[n].name, AllWords[n].args)
          /\ t.name = "RAW" /\ AllWords[n].args[1][1] = "num" =>
               Encoded(t) = AllWords[n].args[1][2]
      BY <2>1, <3>1, EncodedWord, Zenon
    <3> QED
      BY <3>1, <3>2, Zenon
  <2> QED
    BY <2>1, <2>2, Zenon
<1> QED
  BY AssemblerInv, <1>1, PTL

(* LabelsRight for all files, libraries and depths: without an offset, a   *)
(* label that is referred to stands for the address of the first word of   *)
(* its line, whatever was expanded in front of it; and Compile complains   *)
(* of one only if no line gives it an address.                             *)
THEOREM LabelsCorrect == Spec => []LabelsRight
<1>1. IInv => LabelsRight
  <2> SUFFICES ASSUME IInv
               PROVE  LabelsRight
    OBVIOUS
  <2>1. ASSUME Compiled, NEW n \in DOMAIN AllWords, References(n)
        PROVE  At(n) = Address(AllWords[n].args[1][2])
    <3>1. PICK t \in Tok : /\ t.name = AllWords[n].name /\ t.args = Resolved(n)
                           /\ At(n) = Encoded(t) /\ t.name \in Known
      BY <2>1, CompiledIs, Zenon
    <3>2. file \in Files
      BY <2>1, CompiledIs, Zenon
    <3>3. Encoded(t) = Address(AllWords[n].args[1][2])
      BY <2>1, <3>1, <3>2, EncodedWord, Zenon
    <3> QED
      BY <3>1, <3>3, Zenon
  <2>2. ASSUME cause = "Undefined label referenced"
        PROVE  \E l \in Referred : Bearers(l) = {}
    <3>1. phase = "exited"
      BY <2>2, Zenon DEF IInv, Causes
    <3> QED
      BY <3>1, Zenon DEF IInv, Causes
  <2> QED
    BY <2>1, <2>2, Zenon DEF LabelsRight
<1> QED
  BY AssemblerInv, <1>1, PTL

(* StartsRight for all files and offsets: the VM starts a program with an  *)
(* offset with the jump to its first word, or halts at once.               *)
THEOREM StartsCorrect == Spec => []StartsRight
<1>1. IInv => StartsRight
  <2> SUFFICES ASSUME IInv, Compiled, offset > 0
               PROVE  IF autoJump
                      THEN /\ Decodes(output[1], "SET", <<SCR1>>)
                           /\ output[2] = offset
                           /\ Decodes(output[3], "MOV", <<SCR1, PC>>)
                      ELSE Decodes(output[1], "HALT", <<>>)
    BY Zenon DEF StartsRight
  <2>1. /\ offset \in Offsets /\ offset \in Nat
        /\ \A k \in 1 .. offset : output[k] = Encoded(Filler(k))
    BY CompiledIs, Zenon
  <2>2. CASE autoJump
    <3>1. offset >= 3
      BY <2>2, Zenon DEF IInv
    <3>2. 1 \in 1 .. offset /\ 2 \in 1 .. offset /\ 3 \in 1 .. offset
      BY <2>1, <3>1, SMT
    <3>3. 1 <= 3 /\ 2 <= 3 /\ 3 <= 3
      BY SMT
    <3>4. /\ output[1] = Encoded(autoJumpTo(offset)[1])
          /\ output[2] = Encoded(autoJumpTo(offset)[2])
          /\ output[3] = Encoded(autoJumpTo(offset)[3])
      BY <2>1, <2>2, <3>2, <3>3, Zenon DEF Filler
    <3> QED
      BY <2>1, <2>2, <3>4, FillerEncoded, Zenon
  <2>3. CASE ~ autoJump
    <3>1. 1 \in 1 .. offset
      BY <2>1, SMT
    <3>2. output[1] = Encoded(Token(<<>>, "RAW", <<Number(0)>>))
      BY <2>1, <2>3, <3>1, Zenon DEF Filler
    <3>3. output[1] = 0 /\ Decodes(0, "HALT", <<>>)
      BY <2>1, <3>2, FillerEncoded, Zenon
    <3> QED
      BY <2>3, <3>3, Zenon
  <2> QED
    BY <2>2, <2>3, Zenon
<1> QED
  BY AssemblerInv, <1>1, PTL

=============================================================================
