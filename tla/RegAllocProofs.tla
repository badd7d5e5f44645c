--------------------------- MODULE RegAllocProofs ---------------------------
(***************************************************************************)
(* Proofs about RegAlloc, for any number of variables and registers.       *)
(***************************************************************************)
EXTENDS RegAlloc, WellFoundedInduction, NaturalsInduction, TLAPS

(* While a function is compiled and its program is safe: every dirty       *)
(* register has an owner; the register of a direct variable is not dirty;  *)
(* the register of any other is current; memory is current unless the      *)
(* register is dirty; a flush leaves nothing dirty; and what _reg_assign   *)
(* has bound is in a dirty register.                                       *)
DirtyOwned  == \A r \in dirty : \E v \in Names : assignment[v] = r
DirectClean == \A v \in Names : Direct(v) => assignment[v] \notin dirty
RegsCurrent == \A v \in Names : Found(v) => regs[assignment[v]] = store[v]
HeapCurrent == \A v \in Names : assignment[v] \notin dirty => heap[v] = store[v]
FlushClean  == flushed => dirty = {}
ForcedBound == \A v \in forced : Found(v) /\ assignment[v] \in dirty

Books == DirtyOwned /\ DirectClean /\ RegsCurrent /\ HeapCurrent /\ FlushClean
         /\ ForcedBound

IInv ==
  /\ TypeOK
  /\ OneOwner
  /\ status = "open" /\ ~unsafe => Books
  /\ ReadsRight
  /\ MemoryCurrent
  /\ NoInternalError

-----------------------------------------------------------------------------
(* A set of registers that is not empty has a last one.                    *)
LEMMA LastRegister ==
  ASSUME NEW S \in SUBSET Registers, S # {}
  PROVE  \E r \in S : \A s \in S : s <= r
<1> DEFINE D == {n \in Nat : NumRegs - 1 - n \in S}
<1>1. D # {}
  <2>1. PICK r \in S : TRUE
    OBVIOUS
  <2>2. NumRegs - 1 - r \in D
    BY <2>1, RegsAssumption DEF Registers
  <2> QED BY <2>2
<1>2. PICK d \in D : \A e \in D : ~ (<<e, d>> \in OpToRel(<, Nat))
  <2> HIDE DEF D
  <2>1. D \subseteq Nat
    BY DEF D
  <2> QED BY <1>1, <2>1, NatLessThanWellFounded, WFMin
<1>3. \A e \in D : ~ (e < d)
  BY <1>2 DEF OpToRel
<1>4. \A s \in S : NumRegs - 1 - s \in D
  BY RegsAssumption DEF Registers
<1>5. NumRegs - 1 - d \in S /\ d \in Nat
  BY <1>2
<1>6. ASSUME NEW s \in S
      PROVE  s <= NumRegs - 1 - d
  <2>1. NumRegs - 1 - s \in Nat /\ ~ (NumRegs - 1 - s < d)
    <3> HIDE DEF D
    <3>1. NumRegs - 1 - s \in D /\ ~ (NumRegs - 1 - s < d)
      BY <1>3, <1>4
    <3> QED BY <3>1 DEF D
  <2> QED BY <2>1, <1>5, RegsAssumption DEF Registers
<1> QED BY <1>5, <1>6

(* The register picked is one, and it is dirty only if all are.            *)
LEMMA PickType ==
  ASSUME TypeOK, NEW v \in Names
  PROVE  /\ Pick(v) \in Registers
         /\ Pick(v) \in dirty => Clean = {}
<1>1. CASE Clean # {}
  BY <1>1, LastRegister DEF Clean, Pick
<1>2. CASE Clean = {}
  BY <1>2, OrderAssumption, RegsAssumption DEF Pick, Registers
<1> QED BY <1>1, <1>2

(* What the books are once register r is v's.                              *)
LEMMA ReboundBooks ==
  ASSUME TypeOK, OneOwner, NEW v \in Names, NEW r \in Registers
  PROVE  /\ Rebound(v, r) \in [Names -> Registers \cup {NoReg}]
         /\ Rebound(v, r)[v] = r
         /\ \A w \in Names \ {v} :
               /\ assignment[w] = r => Rebound(v, r)[w] = NoReg
               /\ assignment[w] # r => Rebound(v, r)[w] = assignment[w]
         /\ \A w, u \in Names :
               Rebound(v, r)[w] # NoReg /\ Rebound(v, r)[w] = Rebound(v, r)[u]
                 => w = u
BY RegsAssumption
   DEF TypeOK, OneOwner, CheckedOut, Rebound, Released, Registers, NoReg

(* Writing registers back keeps memory typed, and moves their contents.    *)
LEMMA SavedHeap ==
  ASSUME TypeOK, NEW rs \in SUBSET Registers,
         NEW values \in [Registers -> Values]
  PROVE  /\ Saved(rs, values) \in [Names -> Values]
         /\ \A v \in Names :
               /\ assignment[v] \in rs
                    => Saved(rs, values)[v] = values[assignment[v]]
               /\ assignment[v] \notin rs => Saved(rs, values)[v] = heap[v]
BY DEF TypeOK, Saved

LEMMA EvictedHeap ==
  ASSUME TypeOK, NEW r \in Registers
  PROVE  /\ Evicted(r) \in [Names -> Values]
         /\ \A v \in Names :
               /\ assignment[v] = r /\ r \in dirty => Evicted(r)[v] = regs[r]
               /\ assignment[v] # r \/ r \notin dirty
                    => Evicted(r)[v] = heap[v]
<1>1. CASE r \in dirty
  <2>1. {r} \in SUBSET Registers /\ regs \in [Registers -> Values]
    BY DEF TypeOK
  <2>2. Evicted(r) = Saved({r}, regs)
    BY <1>1 DEF Evicted
  <2>3. Saved({r}, regs) \in [Names -> Values]
    BY <2>1, SavedHeap
  <2>4. \A v \in Names :
          /\ assignment[v] \in {r} => Saved({r}, regs)[v] = regs[assignment[v]]
          /\ assignment[v] \notin {r} => Saved({r}, regs)[v] = heap[v]
    BY <2>1, SavedHeap
  <2> QED BY <1>1, <2>2, <2>3, <2>4
<1>2. CASE r \notin dirty
  BY <1>2 DEF TypeOK, Evicted
<1> QED BY <1>1, <1>2

-----------------------------------------------------------------------------
(* In an open function the rest of the invariant follows from the books.   *)
LEMMA BooksSuffice ==
  ASSUME TypeOK', OneOwner', ~unsafe' => Books', ReadsRight',
         status' = "open"
  PROVE  IInv'
<1>1. MemoryCurrent'
  BY DEF MemoryCurrent, Books, DirectClean, HeapCurrent, FlushClean
<1>2. NoInternalError'
  BY DEF NoInternalError
<1> QED BY <1>1, <1>2 DEF IInv

LEMMA ReadFoundStep ==
  ASSUME IInv, NEW v \in Names, ReadFound(v)
  PROVE  IInv'
<1> USE DEF ReadFound, IInv
<1>1. TypeOK'
  BY DEF TypeOK
<1>2. OneOwner'
  BY DEF OneOwner, CheckedOut
<1>3. ASSUME ~unsafe'
      PROVE  Books'
  BY <1>3 DEF Books, DirtyOwned, DirectClean, RegsCurrent, HeapCurrent,
              FlushClean, ForcedBound, Direct, Found, CheckedOut
<1>4. ReadsRight'
  BY DEF ReadsRight, Books, RegsCurrent
<1> QED BY <1>1, <1>2, <1>3, <1>4, BooksSuffice

LEMMA ReadLoadedStep ==
  ASSUME IInv, NEW v \in Names, ReadLoaded(v)
  PROVE  IInv'
<1> DEFINE r == Pick(v)
<1> USE DEF ReadLoaded, IInv
<1>1. r \in Registers /\ (r \in dirty => Clean = {})
  BY PickType
<1> HIDE DEF r
<1>2. /\ assignment' = Rebound(v, r)
      /\ heap' = Evicted(r)
      /\ regs' = [regs EXCEPT ![r] = heap'[v]]
      /\ dirty' = dirty \ {r}
      /\ ~Found(v)
  BY DEF r
<1>3. TypeOK'
  <2>1. assignment' \in [Names -> Registers \cup {NoReg}]
    BY <1>1, <1>2, ReboundBooks
  <2>2. heap' \in [Names -> Values]
    BY <1>1, <1>2, EvictedHeap
  <2>3. regs' \in [Registers -> Values] /\ dirty' \subseteq Registers
    BY <1>1, <1>2, <2>2 DEF TypeOK
  <2>4. misread' \in BOOLEAN
    OBVIOUS
  <2> QED BY <2>1, <2>2, <2>3, <2>4 DEF TypeOK
<1>4. OneOwner'
  BY <1>1, <1>2, ReboundBooks DEF OneOwner, CheckedOut
<1>5. ASSUME ~unsafe
      PROVE  Books' /\ heap'[v] = store[v]
  <2> USE <1>5 DEF Books
  <2>1. assignment[v] \notin dirty /\ heap[v] = store[v]
    BY <1>2, RegsAssumption
       DEF TypeOK, Found, CheckedOut, DirectClean, HeapCurrent, Registers,
           NoReg
  <2>2. heap'[v] = store[v]
    BY <1>1, <1>2, <2>1, EvictedHeap
  <2>3. \A w \in Names \ {v} :
           /\ assignment[w] = r => assignment'[w] = NoReg
           /\ assignment[w] # r => assignment'[w] = assignment[w]
    BY <1>1, <1>2, ReboundBooks
  <2>4. assignment'[v] = r
    BY <1>1, <1>2, ReboundBooks
  <2>5. DirtyOwned'
    BY <1>2, <2>1, <2>3 DEF DirtyOwned, TypeOK
  <2>6. DirectClean'
    BY <1>1, <1>2, <2>3, <2>4, RegsAssumption
       DEF DirectClean, Direct, TypeOK, Registers, NoReg
  <2>7. RegsCurrent'
    BY <1>1, <1>2, <2>2, <2>3, <2>4
       DEF RegsCurrent, Found, Direct, CheckedOut, TypeOK
  <2>8. HeapCurrent'
    <3> SUFFICES ASSUME NEW w \in Names, assignment'[w] \notin dirty'
                 PROVE  heap'[w] = store[w]
      BY DEF HeapCurrent
    <3>1. CASE w = v
      BY <3>1, <2>2
    <3>2. CASE w # v /\ assignment[w] # r
      BY <1>1, <1>2, <2>3, <3>2, EvictedHeap DEF HeapCurrent
    <3>3. CASE w # v /\ assignment[w] = r /\ r \notin dirty
      BY <1>1, <1>2, <3>3, EvictedHeap DEF HeapCurrent
    <3>4. CASE w # v /\ assignment[w] = r /\ r \in dirty
      <4>1. heap'[w] = regs[r]
        BY <1>1, <1>2, <3>4, EvictedHeap
      <4>2. Found(w)
        BY <1>1, <3>4, RegsAssumption
           DEF DirectClean, Found, CheckedOut, Registers, NoReg
      <4> QED BY <4>1, <4>2, <3>4 DEF RegsCurrent
    <3> QED BY <3>1, <3>2, <3>3, <3>4
  <2>9. FlushClean' /\ ForcedBound'
    BY <1>2 DEF FlushClean, ForcedBound
  <2> QED BY <2>2, <2>5, <2>6, <2>7, <2>8, <2>9
<1>6. ReadsRight'
  BY <1>5 DEF ReadsRight
<1> QED BY <1>3, <1>4, <1>5, <1>6, BooksSuffice

LEMMA WriteFoundStep ==
  ASSUME IInv, NEW v \in Names, NEW x \in Values, WriteFound(v, x)
  PROVE  IInv'
<1> USE DEF WriteFound, IInv
<1>1. assignment[v] \in Registers /\ assignment[v] # NoReg /\ ~Direct(v)
  BY DEF TypeOK, Found, CheckedOut
<1>2. TypeOK'
  BY <1>1 DEF TypeOK
<1>3. OneOwner'
  BY DEF OneOwner, CheckedOut
<1>4. ASSUME ~unsafe'
      PROVE  Books'
  <2> USE <1>4 DEF Books
  <2>1. \A w \in Names \ {v} : assignment[w] # assignment[v]
    BY <1>1 DEF OneOwner, CheckedOut
  <2>2. DirtyOwned'
    BY <1>1 DEF DirtyOwned
  <2>3. DirectClean'
    BY <1>1, <2>1 DEF DirectClean, Direct
  <2>4. RegsCurrent'
    BY <1>1, <2>1 DEF RegsCurrent, Found, Direct, CheckedOut, TypeOK
  <2>5. HeapCurrent'
    BY <1>1, <2>1 DEF HeapCurrent, TypeOK
  <2>6. FlushClean' /\ ForcedBound'
    BY DEF FlushClean, ForcedBound
  <2> QED BY <2>2, <2>3, <2>4, <2>5, <2>6
<1>5. ReadsRight'
  BY DEF ReadsRight
<1> QED BY <1>2, <1>3, <1>4, <1>5, BooksSuffice

LEMMA WriteLoadedStep ==
  ASSUME IInv, NEW v \in Names, NEW x \in Values, WriteLoaded(v, x)
  PROVE  IInv'
<1> DEFINE r == Pick(v)
<1> USE DEF WriteLoaded, IInv
<1>1. r \in Registers /\ (r \in dirty => Clean = {})
  BY PickType
<1> HIDE DEF r
<1>2. /\ assignment' = Rebound(v, r)
      /\ heap' = IF Direct(v) THEN [Evicted(r) EXCEPT ![v] = x] ELSE Evicted(r)
      /\ regs' = [regs EXCEPT ![r] = x]
      /\ dirty' = IF Direct(v) THEN dirty \ {r} ELSE dirty \cup {r}
      /\ ~Found(v)
  BY DEF r
<1>3. TypeOK'
  <2>1. assignment' \in [Names -> Registers \cup {NoReg}]
    BY <1>1, <1>2, ReboundBooks
  <2>2. heap' \in [Names -> Values]
    <3>1. Evicted(r) \in [Names -> Values]
      BY <1>1, EvictedHeap
    <3> QED BY <1>2, <3>1
  <2>3. regs' \in [Registers -> Values] /\ dirty' \subseteq Registers
    BY <1>1, <1>2 DEF TypeOK
  <2>4. store' \in [Names -> Values]
    BY DEF TypeOK
  <2> QED BY <2>1, <2>2, <2>3, <2>4 DEF TypeOK
<1>4. OneOwner'
  BY <1>1, <1>2, ReboundBooks DEF OneOwner, CheckedOut
<1>5. ASSUME ~unsafe'
      PROVE  Books'
  <2> USE <1>5 DEF Books
  <2>1. assignment[v] \notin dirty
    BY <1>2, RegsAssumption
       DEF TypeOK, Found, CheckedOut, DirectClean, Registers, NoReg
  <2>2. \A w \in Names \ {v} :
           /\ assignment[w] = r => assignment'[w] = NoReg
           /\ assignment[w] # r => assignment'[w] = assignment[w]
           /\ store'[w] = store[w]
    BY <1>1, <1>2, ReboundBooks DEF TypeOK
  <2>3. assignment'[v] = r /\ store'[v] = x
    BY <1>1, <1>2, ReboundBooks DEF TypeOK
  <2>4. DirtyOwned'
    BY <1>2, <2>1, <2>2, <2>3 DEF DirtyOwned, TypeOK
  <2>5. DirectClean'
    <3> SUFFICES ASSUME NEW w \in Names, Direct(w)
                 PROVE  assignment'[w] \notin dirty'
      BY DEF DirectClean, Direct
    <3>1. CASE w = v
      BY <3>1, <1>2, <2>3
    <3>2. CASE w # v /\ assignment[w] = r
      BY <3>2, <1>1, <1>2, <2>2, RegsAssumption DEF TypeOK, Registers, NoReg
    <3>3. CASE w # v /\ assignment[w] # r
      BY <3>3, <1>2, <2>2 DEF DirectClean
    <3> QED BY <3>1, <3>2, <3>3
  <2>6. RegsCurrent'
    <3> SUFFICES ASSUME NEW w \in Names, Found(w)'
                 PROVE  regs'[assignment'[w]] = store'[w]
      BY DEF RegsCurrent
    <3>1. CASE w = v
      BY <3>1, <1>1, <1>2, <2>3 DEF TypeOK
    <3>2. CASE w # v
      <4>1. assignment[w] # r /\ assignment'[w] = assignment[w]
        BY <3>2, <2>2 DEF Found, CheckedOut
      <4>2. Found(w) /\ assignment[w] \in Registers
        BY <4>1 DEF Found, Direct, CheckedOut, TypeOK
      <4> QED BY <3>2, <4>1, <4>2, <1>1, <1>2, <2>2 DEF RegsCurrent, TypeOK
    <3> QED BY <3>1, <3>2
  <2>7. HeapCurrent'
    <3> SUFFICES ASSUME NEW w \in Names, assignment'[w] \notin dirty'
                 PROVE  heap'[w] = store'[w]
      BY DEF HeapCurrent
    <3>1. CASE w = v
      <4>1. Direct(v)
        BY <3>1, <1>2, <2>3
      <4> QED BY <3>1, <4>1, <1>1, <1>2, <2>3, EvictedHeap
    <3>2. CASE w # v
      <4>1. heap'[w] = Evicted(r)[w]
        BY <3>2, <1>1, <1>2, EvictedHeap
      <4>2. CASE assignment[w] # r
        BY <1>1, <1>2, <2>2, <3>2, <4>1, <4>2, EvictedHeap DEF HeapCurrent
      <4>3. CASE assignment[w] = r /\ r \notin dirty
        BY <1>1, <2>2, <3>2, <4>1, <4>3, EvictedHeap DEF HeapCurrent
      <4>4. CASE assignment[w] = r /\ r \in dirty
        <5>1. Evicted(r)[w] = regs[r]
          BY <1>1, <4>4, EvictedHeap
        <5>2. Found(w)
          BY <1>1, <4>4, RegsAssumption
             DEF DirectClean, Found, CheckedOut, Registers, NoReg
        <5> QED BY <5>1, <5>2, <4>1, <4>4, <2>2, <3>2 DEF RegsCurrent
      <4> QED BY <4>2, <4>3, <4>4
    <3> QED BY <3>1, <3>2
  <2>8. FlushClean' /\ ForcedBound'
    BY DEF FlushClean, ForcedBound
  <2> QED BY <2>4, <2>5, <2>6, <2>7, <2>8
<1>6. ReadsRight'
  BY DEF ReadsRight
<1> QED BY <1>3, <1>4, <1>5, <1>6, BooksSuffice

(* The panic needs a dirty register without an owner, which a safe program *)
(* never leaves.                                                           *)
LEMMA InternalErrorStep ==
  ASSUME IInv, NEW v \in Names, InternalError(v)
  PROVE  IInv'
<1> USE DEF InternalError, IInv
<1>1. unsafe
  BY DEF Orphan, Owners, Books, DirtyOwned
<1>2. TypeOK' /\ OneOwner'
  BY DEF TypeOK, OneOwner, CheckedOut
<1>3. ReadsRight' /\ NoInternalError' /\ MemoryCurrent'
  BY <1>1 DEF ReadsRight, NoInternalError, MemoryCurrent
<1> QED BY <1>1, <1>2, <1>3

-----------------------------------------------------------------------------
(* __FORCESCOPE.                                                           *)
LEMMA ForceKeptStep ==
  ASSUME IInv, NEW v \in Forced, NEW r \in Registers, ForceKept(v, r)
  PROVE  IInv'
<1> USE DEF ForceKept, Forces, IInv
<1>1. v \in Names /\ v \in Locals /\ assignment[v] # NoReg
  BY NamesAssumption, RegsAssumption DEF Names, Registers, NoReg
<1>2. TypeOK'
  BY <1>1 DEF TypeOK
<1>3. OneOwner'
  BY DEF OneOwner, CheckedOut
<1>4. ASSUME ~unsafe'
      PROVE  Books'
  <2> USE <1>4 DEF Books
  <2>1. Found(v)
    BY <1>1, NamesAssumption DEF Found, Direct, CheckedOut
  <2>2. DirtyOwned'
    BY <1>1 DEF DirtyOwned
  <2>3. DirectClean'
    BY <1>1, <2>1 DEF DirectClean, Direct, Found, OneOwner, CheckedOut
  <2>4. RegsCurrent' /\ HeapCurrent' /\ FlushClean'
    BY DEF RegsCurrent, HeapCurrent, FlushClean, Found, Direct, CheckedOut
  <2>5. ForcedBound'
    BY <2>1 DEF ForcedBound, Found, Direct, CheckedOut
  <2> QED BY <2>2, <2>3, <2>4, <2>5
<1>5. ReadsRight'
  BY DEF ReadsRight
<1> QED BY <1>2, <1>3, <1>4, <1>5, BooksSuffice

LEMMA ForceMovedStep ==
  ASSUME IInv, NEW v \in Forced, NEW r \in Registers, ForceMoved(v, r)
  PROVE  IInv'
<1> DEFINE old == assignment[v]
<1>1. v \in Names /\ v \in Locals
  BY NamesAssumption DEF Names
<1>2. TypeOK /\ OneOwner /\ ReadsRight
  BY DEF IInv
<1>3. /\ status = "open" /\ status' = "open" /\ misread' = misread
      /\ regs' = [regs EXCEPT ![r] = regs[old]]
      /\ dirty' = (dirty \cup {r}) \ {old}
      /\ heap' = heap /\ store' = store /\ marks' = marks
      /\ flushed' = FALSE /\ escaped' = escaped
      /\ forced' = {u \in forced : assignment'[u] = assignment[u]} \cup {v}
      /\ unsafe' = (unsafe \/ v \in marks)
  BY DEF ForceMoved, Forces
<1>4. /\ old \in Registers /\ old # r /\ old # NoReg
      /\ \A w \in Names \ {v} : /\ assignment'[w] = assignment[w]
                                /\ assignment[w] # r
                                /\ assignment[w] # old
      /\ assignment'[v] = r
  BY <1>1, <1>2 DEF ForceMoved, TypeOK, CheckedOut, OneOwner, Owners
<1>5. TypeOK'
  <2>1. assignment' \in [Names -> Registers \cup {NoReg}]
    BY <1>1, <1>2 DEF ForceMoved, TypeOK
  <2>2. regs' \in [Registers -> Values] /\ dirty' \subseteq Registers
    BY <1>2, <1>3, <1>4 DEF TypeOK
  <2>3. forced' \subseteq Locals /\ unsafe' \in BOOLEAN
    BY <1>1, <1>2, <1>3 DEF TypeOK
  <2> QED BY <1>2, <1>3, <2>1, <2>2, <2>3 DEF TypeOK
<1>6. OneOwner'
  BY <1>2, <1>4 DEF OneOwner, CheckedOut
<1>7. ASSUME ~unsafe'
      PROVE  Books'
  <2>1. Books /\ v \notin marks /\ Found(v)
    BY <1>1, <1>3, <1>4, <1>7, NamesAssumption
       DEF IInv, Found, Direct, CheckedOut
  <2> USE <2>1 DEF Books
  <2> HIDE DEF old
  <2>2. \A w \in Names \ {v} : assignment[w] \in dirty' <=> assignment[w] \in dirty
    BY <1>3, <1>4
  <2>3. DirtyOwned'
    <3> SUFFICES ASSUME NEW s \in dirty'
                 PROVE  \E w \in Names : assignment'[w] = s
      BY DEF DirtyOwned
    <3>1. CASE s = r
      BY <3>1, <1>1, <1>4
    <3>2. CASE s # r
      <4>1. PICK w \in Names : assignment[w] = s
        BY <3>2, <1>3 DEF DirtyOwned
      <4>2. w # v
        BY <4>1, <1>3 DEF old
      <4> QED BY <4>1, <4>2, <1>4
    <3> QED BY <3>1, <3>2
  <2>4. DirectClean'
    <3> SUFFICES ASSUME NEW w \in Names, Direct(w)'
                 PROVE  assignment'[w] \notin dirty'
      BY DEF DirectClean
    <3>1. Direct(w) /\ w # v
      BY <1>3 DEF Direct, Found
    <3> QED BY <3>1, <2>2, <1>4 DEF DirectClean
  <2>5. RegsCurrent'
    <3> SUFFICES ASSUME NEW w \in Names, Found(w)'
                 PROVE  regs'[assignment'[w]] = store[w]
      BY <1>3 DEF RegsCurrent
    <3>1. CASE w = v
      BY <3>1, <1>2, <1>3, <1>4 DEF RegsCurrent, TypeOK, old
    <3>2. CASE w # v
      <4>1. Found(w) /\ assignment[w] \in Registers
        BY <3>2, <1>2, <1>3, <1>4 DEF Found, Direct, CheckedOut, TypeOK
      <4> QED BY <3>2, <4>1, <1>2, <1>3, <1>4 DEF RegsCurrent, TypeOK
    <3> QED BY <3>1, <3>2
  <2>6. HeapCurrent'
    <3> SUFFICES ASSUME NEW w \in Names, assignment'[w] \notin dirty'
                 PROVE  heap[w] = store[w]
      BY <1>3 DEF HeapCurrent
    <3>1. w # v
      BY <1>3, <1>4
    <3> QED BY <3>1, <2>2, <1>4 DEF HeapCurrent
  <2>7. FlushClean'
    BY <1>3 DEF FlushClean
  <2>8. ForcedBound'
    <3> SUFFICES ASSUME NEW u \in forced'
                 PROVE  Found(u)' /\ assignment'[u] \in dirty'
      BY DEF ForcedBound
    <3>1. CASE u = v
      BY <3>1, <1>3, <1>4, RegsAssumption
         DEF Found, Direct, CheckedOut, Registers, NoReg
    <3>2. CASE u # v
      <4>1. u \in forced /\ u \in Names
        BY <3>2, <1>2, <1>3 DEF TypeOK, Names
      <4>2. Found(u) /\ assignment[u] \in dirty
        BY <4>1 DEF ForcedBound
      <4> QED BY <3>2, <4>1, <4>2, <2>2, <1>3, <1>4
              DEF Found, Direct, CheckedOut
    <3> QED BY <3>1, <3>2
  <2> QED BY <2>3, <2>4, <2>5, <2>6, <2>7, <2>8
<1>8. ReadsRight'
  BY <1>2, <1>3 DEF ReadsRight
<1> QED BY <1>3, <1>5, <1>6, <1>7, <1>8, BooksSuffice

(* The other variable inherits v's dirty mark.  If that is set, it is too  *)
(* much; if not, the variable was not dirty before, or unsafe is set.      *)
LEMMA ForceSwappedStep ==
  ASSUME IInv, NEW v \in Forced, NEW r \in Registers, ForceSwapped(v, r)
  PROVE  IInv'
<1> DEFINE old == assignment[v]
<1> USE DEF ForceSwapped, Forces, IInv
<1>1. v \in Names /\ v \in Locals
  BY NamesAssumption DEF Names
<1>2. PICK o \in Names : assignment[o] = r
  BY DEF Owners
<1>3. /\ old \in Registers /\ old # r /\ o # v
      /\ assignment'[v] = r /\ assignment'[o] = old
      /\ \A w \in Names \ {v, o} : /\ assignment'[w] = assignment[w]
                                   /\ assignment[w] # r
                                   /\ assignment[w] # old
  BY <1>1, <1>2, RegsAssumption
     DEF TypeOK, CheckedOut, OneOwner, Registers, NoReg
<1>4. /\ regs' = [regs EXCEPT ![r] = regs[old], ![old] = regs[r]]
      /\ dirty' = dirty \cup {r}
      /\ ~unsafe' => /\ ~unsafe /\ v \notin marks
                     /\ r \in dirty => old \in dirty
                     /\ old \in dirty => ~Direct(o)
  BY <1>2 DEF Owners
<1>5. TypeOK'
  <2>1. assignment' \in [Names -> Registers \cup {NoReg}]
    BY <1>3 DEF TypeOK
  <2>2. regs' \in [Registers -> Values] /\ dirty' \subseteq Registers
    BY <1>3, <1>4 DEF TypeOK
  <2>3. forced' \subseteq Locals
    BY <1>1 DEF TypeOK
  <2>4. unsafe' \in BOOLEAN
    OBVIOUS
  <2> QED BY <2>1, <2>2, <2>3, <2>4 DEF TypeOK
<1>6. OneOwner'
  BY <1>3 DEF OneOwner, CheckedOut
<1> HIDE DEF old
<1>7. ASSUME ~unsafe'
      PROVE  Books'
  <2> USE <1>7 DEF Books
  <2>1. Found(v) /\ old = assignment[v]
    BY <1>1, <1>4, NamesAssumption DEF Found, Direct, old
  <2>2. DirtyOwned'
    BY <1>1, <1>2, <1>3, <1>4 DEF DirtyOwned
  <2>3. DirectClean'
    BY <1>2, <1>3, <1>4, <2>1 DEF DirectClean, Direct, Found
  <2>4. RegsCurrent'
    <3> SUFFICES ASSUME NEW w \in Names, Found(w)'
                 PROVE  regs'[assignment'[w]] = store[w]
      BY DEF RegsCurrent
    <3>1. CASE w = v
      BY <3>1, <1>3, <1>4, <2>1 DEF RegsCurrent, TypeOK
    <3>2. CASE w = o
      <4>1. Found(o)
        BY <3>2, <1>2, RegsAssumption
           DEF Found, Direct, CheckedOut, Registers, NoReg
      <4>2. regs[r] = store[o]
        BY <4>1, <1>2 DEF RegsCurrent
      <4> QED BY <3>2, <4>2, <1>3, <1>4 DEF TypeOK
    <3>3. CASE w \notin {v, o}
      <4>1. Found(w) /\ assignment[w] \in Registers
        BY <3>3, <1>3 DEF Found, Direct, CheckedOut, TypeOK
      <4> QED BY <3>3, <4>1, <1>3, <1>4 DEF RegsCurrent, TypeOK
    <3> QED BY <3>1, <3>2, <3>3
  <2>5. HeapCurrent'
    BY <1>2, <1>3, <1>4 DEF HeapCurrent
  <2>6. FlushClean'
    BY DEF FlushClean
  <2>7. ForcedBound'
    <3> SUFFICES ASSUME NEW u \in forced'
                 PROVE  Found(u)' /\ assignment'[u] \in dirty'
      BY DEF ForcedBound
    <3>1. CASE u = v
      BY <3>1, <1>3, <1>4, <2>1, RegsAssumption
         DEF Found, Direct, CheckedOut, Registers, NoReg
    <3>2. CASE u # v
      BY <3>2, <1>4 DEF ForcedBound, Found, Direct, CheckedOut
    <3> QED BY <3>1, <3>2
  <2> QED BY <2>2, <2>3, <2>4, <2>5, <2>6, <2>7
<1>8. ReadsRight'
  BY <1>4 DEF ReadsRight
<1> QED BY <1>5, <1>6, <1>7, <1>8, BooksSuffice

LEMMA ForceLoadedStep ==
  ASSUME IInv, NEW v \in Forced, NEW r \in Registers, ForceLoaded(v, r)
  PROVE  IInv'
<1>1. v \in Names /\ v \in Locals
  BY NamesAssumption DEF Names
<1>2. TypeOK /\ OneOwner /\ ReadsRight
  BY DEF IInv
<1>3. /\ status = "open" /\ status' = "open" /\ misread' = misread
      /\ ~CheckedOut(v)
      /\ assignment' = Rebound(v, r)
      /\ heap' = Evicted(r)
      /\ regs' = [regs EXCEPT ![r] = heap'[v]]
      /\ dirty' = dirty \cup {r}
      /\ store' = store /\ marks' = marks
      /\ flushed' = FALSE /\ escaped' = escaped
      /\ forced' = {u \in forced : assignment'[u] = assignment[u]} \cup {v}
      /\ unsafe' = (unsafe \/ v \in marks)
  BY DEF ForceLoaded, Forces
<1>4. TypeOK'
  <2>1. assignment' \in [Names -> Registers \cup {NoReg}]
    BY <1>1, <1>2, <1>3, ReboundBooks
  <2>2. heap' \in [Names -> Values]
    BY <1>2, <1>3, EvictedHeap
  <2>3. regs' \in [Registers -> Values] /\ dirty' \subseteq Registers
    BY <1>1, <1>2, <1>3, <2>2 DEF TypeOK
  <2>4. forced' \subseteq Locals /\ unsafe' \in BOOLEAN
    BY <1>1, <1>2, <1>3 DEF TypeOK
  <2> QED BY <1>2, <1>3, <2>1, <2>2, <2>3, <2>4 DEF TypeOK
<1>5. OneOwner'
  BY <1>1, <1>2, <1>3, ReboundBooks DEF OneOwner, CheckedOut
<1>6. ASSUME ~unsafe'
      PROVE  Books'
  <2>1. Books /\ v \notin marks
    BY <1>3, <1>6 DEF IInv
  <2> USE <2>1 DEF Books
  <2>2. assignment[v] = NoReg /\ NoReg \notin Registers /\ ~Direct(v)
    BY <1>1, <1>3, NamesAssumption, RegsAssumption
       DEF CheckedOut, Registers, NoReg, Direct
  <2>3. /\ NoReg \notin dirty /\ NoReg \notin dirty' /\ dirty \subseteq Registers
    BY <1>2, <1>3, <2>2 DEF TypeOK
  <2>4. heap'[v] = store[v]
    BY <1>1, <1>2, <1>3, <2>2, <2>3, EvictedHeap DEF HeapCurrent
  <2>5. /\ assignment'[v] = r
        /\ \A w \in Names \ {v} :
             /\ assignment[w] = r => assignment'[w] = NoReg
             /\ assignment[w] # r => assignment'[w] = assignment[w]
    BY <1>1, <1>2, <1>3, ReboundBooks
  <2>6. DirtyOwned'
    <3> SUFFICES ASSUME NEW s \in dirty'
                 PROVE  \E w \in Names : assignment'[w] = s
      BY DEF DirtyOwned
    <3>1. CASE s = r
      BY <3>1, <1>1, <2>5
    <3>2. CASE s # r
      <4>1. PICK w \in Names : assignment[w] = s
        BY <3>2, <1>3 DEF DirtyOwned
      <4>2. w # v
        BY <4>1, <3>2, <1>3, <2>2, <2>3
      <4> QED BY <4>1, <4>2, <3>2, <2>5
    <3> QED BY <3>1, <3>2
  <2>7. DirectClean'
    <3> SUFFICES ASSUME NEW w \in Names, Direct(w)'
                 PROVE  assignment'[w] \notin dirty'
      BY DEF DirectClean
    <3>1. Direct(w) /\ w # v
      BY <1>3, <2>2 DEF Direct
    <3> QED BY <3>1, <1>3, <2>3, <2>5 DEF DirectClean
  <2>8. RegsCurrent'
    <3> SUFFICES ASSUME NEW w \in Names, Found(w)'
                 PROVE  regs'[assignment'[w]] = store[w]
      BY <1>3 DEF RegsCurrent
    <3>1. CASE w = v
      BY <3>1, <1>2, <1>3, <2>4, <2>5 DEF TypeOK
    <3>2. CASE w # v
      <4>1. assignment[w] # r /\ assignment'[w] = assignment[w]
        BY <3>2, <2>5 DEF Found, CheckedOut
      <4>2. Found(w) /\ assignment[w] \in Registers
        BY <4>1, <1>2, <1>3 DEF Found, Direct, CheckedOut, TypeOK
      <4> QED BY <4>1, <4>2, <1>2, <1>3 DEF RegsCurrent, TypeOK
    <3> QED BY <3>1, <3>2
  <2>9. HeapCurrent'
    <3> SUFFICES ASSUME NEW w \in Names, assignment'[w] \notin dirty'
                 PROVE  heap'[w] = store[w]
      BY <1>3 DEF HeapCurrent
    <3>1. CASE w = v
      BY <3>1, <2>4
    <3>2. CASE w # v /\ assignment[w] # r
      BY <1>2, <1>3, <2>5, <3>2, EvictedHeap DEF HeapCurrent
    <3>3. CASE w # v /\ assignment[w] = r /\ r \notin dirty
      BY <1>2, <1>3, <3>3, EvictedHeap DEF HeapCurrent
    <3>4. CASE w # v /\ assignment[w] = r /\ r \in dirty
      <4>1. heap'[w] = regs[r]
        BY <1>2, <1>3, <3>4, EvictedHeap
      <4>2. Found(w)
        BY <3>4, <2>2 DEF DirectClean, Found, CheckedOut
      <4> QED BY <4>1, <4>2, <3>4 DEF RegsCurrent
    <3> QED BY <3>1, <3>2, <3>3, <3>4
  <2>10. FlushClean'
    BY <1>3 DEF FlushClean
  <2>11. ForcedBound'
    <3> SUFFICES ASSUME NEW u \in forced'
                 PROVE  Found(u)' /\ assignment'[u] \in dirty'
      BY DEF ForcedBound
    <3>1. CASE u = v
      BY <3>1, <1>3, <2>2, <2>5 DEF Found, Direct, CheckedOut
    <3>2. CASE u # v
      <4>1. u \in forced /\ assignment'[u] = assignment[u]
        BY <3>2, <1>3
      <4>2. Found(u) /\ assignment[u] \in dirty
        BY <4>1 DEF ForcedBound
      <4> QED BY <4>1, <4>2, <1>3 DEF Found, Direct, CheckedOut
    <3> QED BY <3>1, <3>2
  <2> QED BY <2>6, <2>7, <2>8, <2>9, <2>10, <2>11
<1>7. ReadsRight'
  BY <1>2, <1>3 DEF ReadsRight
<1> QED BY <1>3, <1>4, <1>5, <1>6, <1>7, BooksSuffice

LEMMA AsmStep ==
  ASSUME IInv, NEW v \in Locals, NEW x \in Values, Asm(v, x)
  PROVE  IInv'
<1> USE DEF Asm, IInv
<1>1. v \in Names
  BY DEF Names
<1>2. TypeOK'
  BY <1>1 DEF TypeOK
<1>3. OneOwner'
  BY DEF OneOwner, CheckedOut
<1>4. ASSUME ~unsafe'
      PROVE  Books' /\ regs[assignment[v]] = store[v]
  <2> USE <1>4 DEF Books
  <2>1. Found(v) /\ assignment[v] \in dirty /\ assignment[v] \in Registers
    BY DEF ForcedBound, TypeOK
  <2>2. \A w \in Names \ {v} : assignment[w] # assignment[v]
    BY <1>1, <2>1 DEF OneOwner, CheckedOut, Found
  <2>3. DirtyOwned' /\ DirectClean' /\ FlushClean' /\ ForcedBound'
    BY <2>1 DEF DirtyOwned, DirectClean, FlushClean, ForcedBound, Direct,
                Found, CheckedOut
  <2>4. RegsCurrent'
    BY <1>1, <2>1, <2>2 DEF RegsCurrent, Found, Direct, CheckedOut, TypeOK
  <2>5. HeapCurrent'
    BY <1>1, <2>1 DEF HeapCurrent, TypeOK
  <2> QED BY <1>1, <2>1, <2>3, <2>4, <2>5 DEF RegsCurrent
<1>5. ReadsRight'
  BY <1>4 DEF ReadsRight
<1> QED BY <1>2, <1>3, <1>4, <1>5, BooksSuffice

-----------------------------------------------------------------------------
(* Pointers.                                                               *)
LEMMA SetDirectStep ==
  ASSUME IInv, NEW v \in Pointed, SetDirect(v)
  PROVE  IInv'
<1> USE DEF SetDirect, IInv
<1>1. v \in Names /\ v \in Locals
  BY NamesAssumption DEF Names
<1>2. TypeOK'
  <2>1. heap' \in [Names -> Values]
    BY <1>1, SavedHeap DEF TypeOK
  <2> QED BY <1>1, <2>1 DEF TypeOK
<1>3. OneOwner'
  BY DEF OneOwner, CheckedOut
<1>4. ASSUME ~unsafe'
      PROVE  Books'
  BY <1>4 DEF Books, DirtyOwned, DirectClean, RegsCurrent, HeapCurrent,
              FlushClean, ForcedBound, Direct, Found, CheckedOut
<1>5. ReadsRight'
  BY DEF ReadsRight
<1> QED BY <1>2, <1>3, <1>4, <1>5, BooksSuffice

LEMMA ReadThroughStep ==
  ASSUME IInv, NEW v \in Names, ReadThrough(v)
  PROVE  IInv'
<1> USE DEF ReadThrough, IInv
<1>1. TypeOK'
  BY DEF TypeOK
<1>2. OneOwner'
  BY DEF OneOwner, CheckedOut
<1>3. ASSUME ~unsafe'
      PROVE  Books' /\ heap[v] = store[v]
  <2> USE <1>3
  <2>1. NoReg \notin dirty
    BY RegsAssumption DEF TypeOK, Registers, NoReg
  <2>2. assignment[v] \notin dirty
    BY <2>1 DEF Cached, Books, DirectClean, Direct, CheckedOut
  <2>3. Books'
    BY DEF Books, DirtyOwned, DirectClean, RegsCurrent, HeapCurrent,
           FlushClean, ForcedBound, Direct, Found, CheckedOut
  <2> QED BY <2>2, <2>3 DEF Books, HeapCurrent
<1>4. ReadsRight'
  BY <1>3 DEF ReadsRight
<1> QED BY <1>1, <1>2, <1>3, <1>4, BooksSuffice

LEMMA WriteThroughStep ==
  ASSUME IInv, NEW v \in Names, NEW x \in Values, WriteThrough(v, x)
  PROVE  IInv'
<1> USE DEF WriteThrough, IInv
<1>1. TypeOK'
  BY DEF TypeOK
<1>2. OneOwner'
  BY DEF OneOwner, CheckedOut
<1>3. ASSUME ~unsafe'
      PROVE  Books'
  <2> USE <1>3 DEF Books
  <2>1. ~Found(v)
    BY DEF Cached, Found, Direct
  <2>2. RegsCurrent'
    BY <2>1 DEF RegsCurrent, Found, Direct, CheckedOut, TypeOK
  <2>3. HeapCurrent'
    BY DEF HeapCurrent, TypeOK
  <2>4. DirtyOwned' /\ DirectClean' /\ FlushClean' /\ ForcedBound'
    BY DEF DirtyOwned, DirectClean, FlushClean, ForcedBound, Direct
  <2> QED BY <2>2, <2>3, <2>4
<1>4. ReadsRight'
  BY DEF ReadsRight
<1> QED BY <1>1, <1>2, <1>3, <1>4, BooksSuffice

-----------------------------------------------------------------------------
(* Flushing, clearing, calling and returning.                              *)
LEMMA FlushScopeStep ==
  ASSUME IInv, FlushScope
  PROVE  IInv'
<1> USE DEF FlushScope, IInv
<1>1. dirty \subseteq Registers /\ NoReg \notin dirty
  BY RegsAssumption DEF TypeOK, Registers, NoReg
<1>2. TypeOK'
  <2>1. heap' \in [Names -> Values]
    BY <1>1, SavedHeap DEF TypeOK
  <2> QED BY <2>1 DEF TypeOK
<1>3. OneOwner'
  BY DEF OneOwner, CheckedOut
<1>4. ASSUME ~unsafe'
      PROVE  Books'
  <2> USE <1>4 DEF Books
  <2>1. RegsCurrent' /\ DirtyOwned' /\ DirectClean' /\ FlushClean'
        /\ ForcedBound'
    BY DEF RegsCurrent, Found, Direct, CheckedOut, DirtyOwned, DirectClean,
           FlushClean, ForcedBound
  <2>2. HeapCurrent'
    <3> SUFFICES ASSUME NEW w \in Names
                 PROVE  heap'[w] = store[w]
      BY DEF HeapCurrent
    <3>1. CASE assignment[w] \in dirty
      <4>1. Found(w)
        BY <3>1, <1>1 DEF DirectClean, Found, CheckedOut
      <4>2. heap'[w] = regs[assignment[w]]
        BY <3>1, <1>1, SavedHeap DEF TypeOK
      <4> QED BY <4>1, <4>2 DEF RegsCurrent
    <3>2. CASE assignment[w] \notin dirty
      BY <3>2, <1>1, SavedHeap DEF TypeOK, HeapCurrent
    <3> QED BY <3>1, <3>2
  <2> QED BY <2>1, <2>2
<1>5. ReadsRight'
  BY DEF ReadsRight
<1> QED BY <1>2, <1>3, <1>4, <1>5, BooksSuffice

LEMMA ClearScopeStep ==
  ASSUME IInv, ClearScope
  PROVE  IInv'
<1> USE DEF ClearScope, IInv
<1>1. TypeOK'
  BY DEF TypeOK
<1>2. OneOwner'
  BY DEF OneOwner, CheckedOut
<1>3. ASSUME ~unsafe'
      PROVE  Books'
  BY <1>3 DEF Books, DirtyOwned, DirectClean, RegsCurrent, HeapCurrent,
              FlushClean, ForcedBound, Direct, Found, CheckedOut
<1>4. ReadsRight'
  BY DEF ReadsRight
<1> QED BY <1>1, <1>2, <1>3, <1>4, BooksSuffice

LEMMA CallStep ==
  ASSUME IInv, NEW v \in Names, NEW x \in Values, NEW junk \in Values,
         Call(v, x, junk)
  PROVE  IInv'
<1> USE DEF Call, IInv
<1>1. TypeOK'
  BY DEF TypeOK
<1>2. OneOwner'
  BY DEF OneOwner, CheckedOut
<1>3. ASSUME ~unsafe'
      PROVE  Books'
  <2> USE <1>3 DEF Books
  <2>1. HeapCurrent'
    BY DEF HeapCurrent, TypeOK
  <2>2. RegsCurrent' /\ DirtyOwned' /\ DirectClean' /\ FlushClean'
        /\ ForcedBound'
    BY DEF RegsCurrent, Found, Direct, CheckedOut, DirtyOwned, DirectClean,
           FlushClean, ForcedBound
  <2> QED BY <2>1, <2>2
<1>4. ReadsRight'
  BY DEF ReadsRight
<1> QED BY <1>1, <1>2, <1>3, <1>4, BooksSuffice

(* Register A may belong to a global, but a dirty register never does.     *)
LEMMA ReturnStep ==
  ASSUME IInv, NEW x \in Values, Return(x)
  PROVE  IInv'
<1> USE DEF Return, IInv
<1>1. TypeOK'
  <2>1. regs' \in [Registers -> Values] /\ dirty \subseteq Registers
    BY DEF TypeOK
  <2>2. Saved(dirty, regs') \in [Names -> Values]
    BY <2>1, SavedHeap
  <2>3. heap' \in [Names -> Values]
    BY <2>2 DEF TypeOK
  <2> QED BY <2>1, <2>3 DEF TypeOK
<1>2. OneOwner'
  BY DEF OneOwner, CheckedOut
<1>3. MemoryCurrent'
  <2> SUFFICES ASSUME ~unsafe, NEW v \in Names, flushed \/ Direct(v)
               PROVE  heap'[v] = store[v]
    BY DEF MemoryCurrent, Direct
  <2>1. assignment[v] \notin dirty
    BY DEF Books, FlushClean, DirectClean
  <2>2. heap'[v] = heap[v]
    BY <2>1 DEF Saved
  <2> QED BY <2>1, <2>2 DEF Books, HeapCurrent
<1>4. ReadsRight' /\ NoInternalError'
  BY DEF ReadsRight, NoInternalError
<1> QED BY <1>1, <1>2, <1>3, <1>4

-----------------------------------------------------------------------------
(* The invariant holds at the start of a function, and every command keeps *)
(* it.                                                                     *)
THEOREM Invariance == Spec => []IInv
<1>1. Init => IInv
  BY RegsAssumption
     DEF Init, IInv, TypeOK, OneOwner, CheckedOut, Books, DirtyOwned,
         DirectClean, RegsCurrent, HeapCurrent, FlushClean, ForcedBound,
         Direct, Found, ReadsRight, MemoryCurrent, NoInternalError
<1>2. IInv /\ [Next]_vars => IInv'
  <2> SUFFICES ASSUME IInv, [Next]_vars
               PROVE  IInv'
    OBVIOUS
  <2>1. ASSUME NEW v \in Names,
               ReadFound(v) \/ ReadLoaded(v) \/ InternalError(v)
        PROVE  IInv'
    BY <2>1, ReadFoundStep, ReadLoadedStep, InternalErrorStep
  <2>2. ASSUME NEW v \in Names, NEW x \in Values,
               WriteFound(v, x) \/ WriteLoaded(v, x)
        PROVE  IInv'
    BY <2>2, WriteFoundStep, WriteLoadedStep
  <2>3. ASSUME NEW v \in Forced, NEW r \in Registers,
               ForceKept(v, r) \/ ForceMoved(v, r) \/ ForceSwapped(v, r)
               \/ ForceLoaded(v, r)
        PROVE  IInv'
    BY <2>3, ForceKeptStep, ForceMovedStep, ForceSwappedStep, ForceLoadedStep
  <2>4. ASSUME NEW v \in Locals, NEW x \in Values, Asm(v, x)
        PROVE  IInv'
    BY <2>4, AsmStep
  <2>5. ASSUME NEW v \in Pointed, SetDirect(v)
        PROVE  IInv'
    BY <2>5, SetDirectStep
  <2>6. ASSUME NEW v \in Names, ReadThrough(v)
        PROVE  IInv'
    BY <2>6, ReadThroughStep
  <2>7. ASSUME NEW v \in Names, NEW x \in Values, WriteThrough(v, x)
        PROVE  IInv'
    BY <2>7, WriteThroughStep
  <2>8. CASE FlushScope
    BY <2>8, FlushScopeStep
  <2>9. CASE ClearScope
    BY <2>9, ClearScopeStep
  <2>10. ASSUME NEW v \in Names, NEW x \in Values, NEW junk \in Values,
                Call(v, x, junk)
         PROVE  IInv'
    BY <2>10, CallStep
  <2>11. ASSUME NEW x \in Values, Return(x)
         PROVE  IInv'
    BY <2>11, ReturnStep
  <2>12. CASE UNCHANGED vars
    BY <2>12
       DEF vars, IInv, TypeOK, OneOwner, CheckedOut, Books, DirtyOwned,
           DirectClean, RegsCurrent, HeapCurrent, FlushClean, ForcedBound,
           Direct, Found, ReadsRight, MemoryCurrent, NoInternalError
  <2> QED BY <2>1, <2>2, <2>3, <2>4, <2>5, <2>6, <2>7, <2>8, <2>9, <2>10,
             <2>11, <2>12 DEF Next
<1> QED BY <1>1, <1>2, PTL DEF Spec

(* The books and the run-time state keep their types.                      *)
THEOREM TypeCorrect == Spec => []TypeOK
<1>1. IInv => TypeOK
  BY DEF IInv
<1> QED BY <1>1, Invariance, PTL

(* asm_resolver.go never has two variables in one register, whatever is    *)
(* loaded, bound, moved and swapped.                                       *)
THEOREM OwnersUnique == Spec => []OneOwner
<1>1. IInv => OneOwner
  BY DEF IInv
<1> QED BY <1>1, Invariance, PTL

(* The code generated reads the value last written, for any number of      *)
(* variables and registers: a wrong read needs an unsafe program.          *)
THEOREM ReadsAreRight == Spec => []ReadsRight
<1>1. IInv => ReadsRight
  BY DEF IInv
<1> QED BY <1>1, Invariance, PTL

(* Behind a flush memory holds every variable, and always those that       *)
(* others may look at there.                                               *)
THEOREM MemoryIsCurrent == Spec => []MemoryCurrent
<1>1. IInv => MemoryCurrent
  BY DEF IInv
<1> QED BY <1>1, Invariance, PTL

(* evictRegister panics for unsafe programs only.                          *)
THEOREM NoPanic == Spec => []NoInternalError
<1>1. IInv => NoInternalError
  BY DEF IInv
<1> QED BY <1>1, Invariance, PTL

=============================================================================
