--------------------------- MODULE KeyFifoProofs ---------------------------
(***************************************************************************)
(* No key is lost, doubled or reordered by the FIFO as long as no stale    *)
(* read pointer is used: for any size of the FIFO and any keys.            *)
(*                                                                         *)
(* Conservation is not inductive on its own: while the program is between  *)
(* its check of the pointers and the store of the new one, its registers   *)
(* must still describe the FIFO (ReaderView).  They do, because then the   *)
(* pointers differ and the handler does not reset them.                    *)
(***************************************************************************)
EXTENDS KeyFifo, TLAPS

ReaderView ==
  ~torn =>
    /\ pc \in {"load_key", "store_rd"} => B = rd /\ rd < wr
    /\ pc = "store_rd" => A = p1[rd]

IInv == TypeOK /\ Conservation /\ ReaderView

(* The pointers are two cells beyond the keys.                             *)
LEMMA Layout ==
  /\ RdPtr \in 0 .. MaxCell /\ WrPtr \in 0 .. MaxCell
  /\ RdPtr # WrPtr
  /\ \A c \in 0 .. Limit : c \in 0 .. MaxCell /\ c # RdPtr /\ c # WrPtr
  /\ Limit + 2 <= MaxWord
  BY SizeAssumption DEF RdPtr, WrPtr

LEMMA InitOK == Init => IInv
<1> SUFFICES ASSUME Init PROVE IInv
  OBVIOUS
<1>1. p1 = [c \in 0 .. MaxCell |-> 0] /\ rd = 0 /\ wr = 0
  BY Layout DEF Init, rd, wr
<1>2. TypeOK
  <2>1. 0 \in Words /\ 0 \in 0 .. Limit
    BY SizeAssumption DEF Words
  <2>2. /\ accepted \in Seq(Keys) /\ Len(accepted) <= MaxAccepted
        /\ delivered \in Seq(Words)
    BY BoundAssumption DEF Init
  <2>3. QED
    BY <1>1, <2>1, <2>2 DEF Init, TypeOK
<1>3. Conservation /\ ReaderView
  BY <1>1 DEF Init, Conservation, Matching, ReaderView
<1>4. QED
  BY <1>2, <1>3 DEF IInv

(* What the handler does to page 1: one key, one pointer or both.          *)
LEMMA AppendToPage ==
  ASSUME TypeOK, NEW key \in Keys, AppendToFifo(key)
  PROVE  LET at == IF Reset THEN 0 ELSE wr
         IN /\ at \in 0 .. Limit - 1
            /\ p1' \in [0 .. MaxCell -> Words]
            /\ rd' = IF Reset THEN 0 ELSE rd
            /\ wr' = at + 1
            /\ p1'[at] = key
            /\ \A c \in 0 .. Limit : c # at => p1'[c] = p1[c]
<1> DEFINE at == IF Reset THEN 0 ELSE wr
<1>1. wr \in 0 .. Limit - 1
  BY SizeAssumption DEF TypeOK, AppendToFifo, Overflow
<1>2. at \in 0 .. Limit - 1
  BY <1>1, SizeAssumption
<1>3. at \in 0 .. MaxCell /\ at # RdPtr /\ at # WrPtr
  <2> HIDE DEF at
  <2> QED
    BY <1>2, SizeAssumption DEF RdPtr, WrPtr
<1>4. key \in Words /\ 0 \in Words /\ rd \in Words /\ at + 1 \in Words
  <2>1. key \in Words /\ 0 \in Words
    BY KeysAssumption, SizeAssumption DEF Words
  <2>2. rd \in Words
    BY Layout DEF TypeOK, rd
  <2>3. at + 1 \in Words
    <3> HIDE DEF at
    <3> QED
      BY <1>2, SizeAssumption DEF Words
  <2>4. QED
    BY <2>1, <2>2, <2>3
<1>5. p1' = [p1 EXCEPT ![RdPtr] = IF Reset THEN 0 ELSE rd,
                       ![at]    = key,
                       ![WrPtr] = at + 1]
  BY DEF AppendToFifo
<1>6. p1 \in [0 .. MaxCell -> Words]
  BY DEF TypeOK
<1> HIDE DEF at
<1>7. p1' \in [0 .. MaxCell -> Words]
  BY <1>4, <1>5, <1>6
<1>8. p1'[RdPtr] = IF Reset THEN 0 ELSE rd
  BY <1>3, <1>5, <1>6, Layout
<1>9. p1'[WrPtr] = at + 1 /\ p1'[at] = key
  BY <1>3, <1>5, <1>6, Layout
<1>10. \A c \in 0 .. Limit : c # at => p1'[c] = p1[c]
  BY <1>3, <1>5, <1>6, Layout
<1>11. QED
  BY <1>2, <1>7, <1>8, <1>9, <1>10 DEF at, rd, wr

-----------------------------------------------------------------------------
LEMMA AppendOK == \A key \in Keys : IInv /\ AppendToFifo(key) => IInv'
<1> SUFFICES ASSUME NEW key \in Keys, IInv, AppendToFifo(key) PROVE IInv'
  OBVIOUS
<1> DEFINE at == IF Reset THEN 0 ELSE wr
<1>1. /\ at \in 0 .. Limit - 1
      /\ p1' \in [0 .. MaxCell -> Words]
      /\ rd' = IF Reset THEN 0 ELSE rd
      /\ wr' = at + 1
      /\ p1'[at] = key
      /\ \A c \in 0 .. Limit : c # at => p1'[c] = p1[c]
  BY AppendToPage DEF IInv
<1>2. /\ accepted' = Append(accepted, key)
      /\ UNCHANGED <<pc, A, B, C, delivered, torn>>
      /\ Len(accepted) < MaxAccepted
  BY DEF AppendToFifo
<1>3. /\ wr \in 0 .. Limit
      /\ rd \in Nat
      /\ accepted \in Seq(Keys) /\ delivered \in Seq(Words)
  BY Layout DEF IInv, TypeOK, rd, Words
<1>4. TypeOK'
  <2>1. wr' \in 0 .. Limit
    <3> HIDE DEF at
    <3> QED
      BY <1>1, SizeAssumption
  <2>2. accepted' \in Seq(Keys) /\ Len(accepted') <= MaxAccepted
    BY <1>2, <1>3, BoundAssumption
  <2>3. QED
    BY <1>1, <1>2, <2>1, <2>2 DEF IInv, TypeOK
<1>5. Conservation'
  <2> SUFFICES ASSUME ~torn' PROVE Matching'
    BY DEF Conservation
  <2>0. ~torn
    BY <1>2
  <2>1. /\ rd <= wr
        /\ Len(accepted) = Len(delivered) + (wr - rd)
        /\ \A i \in 1 .. Len(delivered) : delivered[i] = accepted[i]
        /\ \A i \in 1 .. wr - rd : p1[rd + i - 1] = accepted[Len(delivered) + i]
    BY <2>0 DEF IInv, Conservation, Matching
  <2>2. /\ Len(accepted') = Len(accepted) + 1
        /\ accepted'[Len(accepted) + 1] = key
        /\ \A i \in 1 .. Len(accepted) : accepted'[i] = accepted[i]
        /\ Len(accepted) \in Nat /\ Len(delivered) \in Nat
    BY <1>2, <1>3
  <2>3. \A i \in 1 .. Len(delivered) : delivered'[i] = accepted'[i]
    BY <1>2, <1>3, <2>1, <2>2
  <2>4. CASE Reset
    <3>1. rd = wr /\ at = 0 /\ rd' = 0 /\ wr' = 1 /\ p1'[0] = key
      BY <1>1, <2>4 DEF Reset
    <3>2. \A i \in 1 .. wr' - rd' :
             p1'[rd' + i - 1] = accepted'[Len(delivered') + i]
      BY <1>2, <1>3, <2>1, <2>2, <3>1
    <3>3. rd' <= wr' /\ Len(accepted') = Len(delivered') + (wr' - rd')
      BY <1>2, <1>3, <2>1, <2>2, <3>1
    <3>4. QED
      BY <1>2, <2>3, <3>2, <3>3 DEF Matching
  <2>5. CASE ~Reset
    <3>1. at = wr /\ rd' = rd /\ wr' = wr + 1 /\ p1'[wr] = key
      BY <1>1, <2>5
    <3>2. rd' <= wr' /\ Len(accepted') = Len(delivered') + (wr' - rd')
      BY <1>2, <1>3, <2>1, <2>2, <3>1
    <3>3. ASSUME NEW i \in 1 .. wr' - rd'
          PROVE  p1'[rd' + i - 1] = accepted'[Len(delivered') + i]
      <4>1. CASE i = wr - rd + 1
        <5>1. rd' + i - 1 = wr /\ Len(delivered') + i = Len(accepted) + 1
          BY <1>2, <1>3, <2>1, <2>2, <3>1, <4>1
        <5>2. QED
          BY <2>2, <3>1, <5>1
      <4>2. CASE i # wr - rd + 1
        <5>1. /\ i \in 1 .. wr - rd
              /\ rd + i - 1 \in 0 .. Limit /\ rd + i - 1 # wr
              /\ Len(delivered) + i \in 1 .. Len(accepted)
          BY <1>3, <2>1, <2>2, <3>1, <4>2, SizeAssumption
        <5>2. p1'[rd + i - 1] = p1[rd + i - 1]
          BY <1>1, <3>1, <5>1
        <5>3. QED
          BY <1>2, <2>1, <2>2, <3>1, <5>1, <5>2
      <4>3. QED
        BY <4>1, <4>2
    <3>4. QED
      BY <1>2, <2>3, <3>2, <3>3 DEF Matching
  <2>6. QED
    BY <2>4, <2>5
<1>6. ReaderView'
  <2> SUFFICES ASSUME ~torn', pc' \in {"load_key", "store_rd"}
               PROVE  B' = rd' /\ rd' < wr' /\ (pc' = "store_rd" => A' = p1'[rd'])
    BY DEF ReaderView
  <2>1. B = rd /\ rd < wr /\ (pc = "store_rd" => A = p1[rd])
    BY <1>2 DEF IInv, ReaderView
  <2>2. ~Reset
    BY <1>3, <2>1 DEF Reset
  <2>3. rd' = rd /\ wr' = wr + 1 /\ at = wr
    BY <1>1, <2>2
  <2>4. rd \in 0 .. Limit /\ rd # wr
    BY <1>3, <2>1, SizeAssumption
  <2>5. p1'[rd] = p1[rd]
    BY <1>1, <2>3, <2>4
  <2>6. QED
    BY <1>2, <1>3, <2>1, <2>3, <2>5
<1>7. QED
  BY <1>4, <1>5, <1>6 DEF IInv

LEMMA LoadRdOK == IInv /\ LoadRd => IInv'
<1> SUFFICES ASSUME IInv, LoadRd PROVE IInv'
  OBVIOUS
<1>1. rd \in Words
  BY Layout DEF IInv, TypeOK, rd
<1>2. UNCHANGED <<rd, wr>>
  BY DEF LoadRd, rd, wr
<1>3. TypeOK'
  BY <1>1, <1>2 DEF IInv, TypeOK, LoadRd
<1>4. Conservation' /\ ReaderView'
  BY <1>2 DEF IInv, Conservation, Matching, ReaderView, LoadRd
<1>5. QED
  BY <1>3, <1>4 DEF IInv

(* A call goes on only with the current read pointer, or is torn.          *)
LEMMA LoadWrOK == IInv /\ LoadWr => IInv'
<1> SUFFICES ASSUME IInv, LoadWr PROVE IInv'
  OBVIOUS
<1>1. wr \in 0 .. Limit /\ wr \in Words /\ rd \in Nat
  BY Layout DEF IInv, TypeOK, rd, wr, Words
<1>2. UNCHANGED <<rd, wr>>
  BY DEF LoadWr, rd, wr
<1>3. TypeOK'
  BY <1>1, <1>2 DEF IInv, TypeOK, LoadWr
<1>4. Conservation'
  BY <1>2 DEF IInv, Conservation, Matching, LoadWr
<1>5. ReaderView'
  <2> SUFFICES ASSUME ~torn', pc' \in {"load_key", "store_rd"}
               PROVE  B' = rd' /\ rd' < wr' /\ pc' # "store_rd"
    BY DEF ReaderView
  <2>1. ~torn /\ B # wr /\ B = rd /\ pc' = "load_key" /\ B' = B
    BY DEF LoadWr
  <2>2. rd <= wr
    BY <2>1 DEF IInv, Conservation, Matching
  <2>3. QED
    BY <1>1, <1>2, <2>1, <2>2
<1>6. QED
  BY <1>3, <1>4, <1>5 DEF IInv

LEMMA LoadKeyOK == IInv /\ LoadKey => IInv'
<1> SUFFICES ASSUME IInv, LoadKey PROVE IInv'
  OBVIOUS
<1>1. UNCHANGED <<rd, wr>>
  BY DEF LoadKey, rd, wr
<1>2. A' \in Words
  <2>1. CASE B <= MaxCell
    <3>1. B \in 0 .. MaxCell
      BY <2>1, SizeAssumption DEF IInv, TypeOK, Words
    <3>2. QED
      BY <2>1, <3>1 DEF IInv, TypeOK, LoadKey
  <2>2. CASE ~(B <= MaxCell)
    BY <2>2, ConfigAssumption DEF LoadKey, Words
  <2>3. QED
    BY <2>1, <2>2
<1>3. TypeOK'
  BY <1>1, <1>2 DEF IInv, TypeOK, LoadKey
<1>4. Conservation'
  BY <1>1 DEF IInv, Conservation, Matching, LoadKey
<1>5. ReaderView'
  <2> SUFFICES ASSUME ~torn', pc' \in {"load_key", "store_rd"}
               PROVE  B' = rd' /\ rd' < wr' /\ A' = p1'[rd']
    BY DEF ReaderView
  <2>1. B = rd /\ rd < wr
    BY DEF LoadKey, IInv, ReaderView
  <2>2. B <= MaxCell
    BY <2>1, SizeAssumption DEF IInv, TypeOK, Words
  <2>3. QED
    BY <1>1, <2>1, <2>2 DEF LoadKey
<1>6. QED
  BY <1>3, <1>4, <1>5 DEF IInv

LEMMA StoreRdOK == IInv /\ StoreRd => IInv'
<1> SUFFICES ASSUME IInv, StoreRd PROVE IInv'
  OBVIOUS
<1>1. /\ B' \in Words
      /\ p1' = [p1 EXCEPT ![RdPtr] = B']
      /\ UNCHANGED <<A, C, accepted, torn>>
      /\ pc' = "load_rd"
  BY SizeAssumption DEF IInv, TypeOK, StoreRd, Words
<1>2. /\ p1 \in [0 .. MaxCell -> Words]
      /\ wr \in 0 .. Limit /\ rd \in Nat /\ A \in Words
      /\ accepted \in Seq(Keys) /\ Len(accepted) <= MaxAccepted
      /\ delivered \in Seq(Words)
  BY Layout DEF IInv, TypeOK, rd, Words
<1>3. /\ p1' \in [0 .. MaxCell -> Words]
      /\ rd' = B' /\ wr' = wr
      /\ \A c \in 0 .. Limit : p1'[c] = p1[c]
  BY <1>1, <1>2, Layout DEF rd, wr
<1>4. delivered' \in Seq(Words)
  BY <1>2 DEF StoreRd
<1>5. TypeOK'
  BY <1>1, <1>2, <1>3, <1>4 DEF IInv, TypeOK
<1>6. ReaderView'
  BY <1>1 DEF ReaderView
<1>7. Conservation'
  <2> SUFFICES ASSUME ~torn' PROVE Matching'
    BY DEF Conservation
  <2>1. Matching /\ B = rd /\ rd < wr /\ A = p1[rd]
    BY <1>1 DEF IInv, Conservation, ReaderView, StoreRd
  <2>2. /\ Len(accepted) = Len(delivered) + (wr - rd)
        /\ \A i \in 1 .. Len(delivered) : delivered[i] = accepted[i]
        /\ \A i \in 1 .. wr - rd : p1[rd + i - 1] = accepted[Len(delivered) + i]
    BY <2>1 DEF Matching
  <2>3. rd' = rd + 1
    <3>1. rd + 1 \in 0 .. MaxWord
      BY <1>2, <2>1, SizeAssumption
    <3>2. (rd + 1) % (MaxWord + 1) = rd + 1
      BY <3>1, SizeAssumption
    <3>3. QED
      BY <1>3, <2>1, <3>2 DEF StoreRd
  <2>4. Len(delivered) \in Nat /\ Len(accepted) \in Nat
    BY <1>2
  <2>5. Len(delivered) <= MaxAccepted
    BY <1>2, <2>1, <2>2, <2>4, BoundAssumption
  <2>6. delivered' = Append(delivered, A)
    BY <2>5 DEF StoreRd
  <2>7. /\ Len(delivered') = Len(delivered) + 1
        /\ delivered'[Len(delivered) + 1] = A
        /\ \A i \in 1 .. Len(delivered) : delivered'[i] = delivered[i]
    BY <1>2, <2>6
  <2>8. A = accepted[Len(delivered) + 1]
    <3>1. 1 \in 1 .. wr - rd /\ rd + 1 - 1 = rd
      BY <1>2, <2>1
    <3>2. QED
      BY <2>1, <2>2, <3>1
  <2>9. \A i \in 1 .. Len(delivered') : delivered'[i] = accepted'[i]
    BY <1>1, <2>2, <2>4, <2>7, <2>8
  <2>10. ASSUME NEW i \in 1 .. wr' - rd'
         PROVE  p1'[rd' + i - 1] = accepted'[Len(delivered') + i]
    <3>1. /\ i + 1 \in 1 .. wr - rd
          /\ rd' + i - 1 = rd + (i + 1) - 1
          /\ rd + (i + 1) - 1 \in 0 .. Limit
          /\ Len(delivered') + i = Len(delivered) + (i + 1)
      BY <1>2, <1>3, <2>1, <2>3, <2>4, <2>7, SizeAssumption
    <3>2. p1[rd + (i + 1) - 1] = accepted[Len(delivered) + (i + 1)]
      BY <2>2, <3>1
    <3>3. QED
      BY <1>1, <1>3, <3>1, <3>2
  <2>11. rd' <= wr' /\ Len(accepted') = Len(delivered') + (wr' - rd')
    BY <1>1, <1>2, <1>3, <2>1, <2>2, <2>3, <2>4, <2>7
  <2>12. QED
    BY <2>9, <2>10, <2>11 DEF Matching
<1>8. QED
  BY <1>5, <1>6, <1>7 DEF IInv

-----------------------------------------------------------------------------
(* The inductive invariant holds in every reachable state.                 *)
THEOREM Invariance == Spec => []IInv
<1>1. IInv /\ [Next]_vars => IInv'
  <2> SUFFICES ASSUME IInv, [Next]_vars PROVE IInv'
    OBVIOUS
  <2>1. CASE GetKeyPressed
    BY <2>1, LoadRdOK, LoadWrOK, LoadKeyOK, StoreRdOK DEF GetKeyPressed
  <2>2. CASE \E key \in Keys : AppendToFifo(key)
    BY <2>2, AppendOK
  <2>3. CASE UNCHANGED vars
    BY <2>3 DEF vars, IInv, TypeOK, Conservation, Matching, ReaderView, rd, wr
  <2>4. QED
    BY <2>1, <2>2, <2>3 DEF Next
<1>2. QED
  BY <1>1, InitOK, PTL DEF Spec

(* Type correctness, with the write pointer within the cells for keys.     *)
THEOREM TypeCorrect == Spec => []TypeOK
<1>1. IInv => TypeOK
  BY DEF IInv
<1>2. QED
  BY <1>1, Invariance, PTL

(* As long as no reset has torn the pointers a read has loaded apart, no   *)
(* key is lost, doubled or reordered, for every size of the FIFO.          *)
THEOREM ConservedUnlessTorn == Spec => []Conservation
<1>1. IInv => Conservation
  BY DEF IInv
<1>2. QED
  BY <1>1, Invariance, PTL

=============================================================================
