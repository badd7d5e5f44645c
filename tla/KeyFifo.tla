------------------------------ MODULE KeyFifo ------------------------------
(***************************************************************************)
(* The keyboard FIFO of the boot loader, on page 1 of SRAM: cells 0..Limit *)
(* hold keys, the next two cells the read and the write pointer.  The      *)
(* interrupt handler (asm.ma) appends, kb_getKeyPressed (keyboard.mscr)    *)
(* removes.                                                                *)
(*                                                                         *)
(* The handler runs to its end before the program takes another            *)
(* instruction, and leaves the program's registers alone (IrqTransparent   *)
(* of McpcVM): it is one atomic step.  The program is interrupted between  *)
(* any two instructions: each of its accesses to page 1 is a step, with    *)
(* the registers A, B and C in between.                                    *)
(***************************************************************************)
EXTENDS Naturals, Sequences

CONSTANTS
  Keys,         \* the key codes, '?' for an invalid key among them
  Limit,        \* 0xFF in the code
  MaxCell,      \* the last address of SRAM, 0x7FFF in the code
  MaxWord,      \* the last address, 0xFFFF in the code
  ConfigWords,  \* what a read above SRAM may return
  MaxAccepted   \* bound on the keys accepted, for model checking only

ASSUME KeysAssumption   == Keys \subseteq 0 .. MaxWord
ASSUME ConfigAssumption == ConfigWords \subseteq 0 .. MaxWord
ASSUME SizeAssumption ==
  /\ Limit \in Nat \ {0}
  /\ MaxCell \in Nat /\ Limit + 2 <= MaxCell
  /\ MaxWord \in Nat /\ MaxCell <= MaxWord
ASSUME BoundAssumption == MaxAccepted \in Nat

VARIABLES
  p1,         \* page 1 of SRAM
  pc,         \* what kb_getKeyPressed does next
  A, B, C,    \* its registers: the key, rdptr and wrptr
  accepted,   \* history: the keys the handler appended
  delivered,  \* history: the keys kb_getKeyPressed took, kept up to one
              \* more than can be accepted
  torn        \* history: was a read pointer used that was no longer current

vars == <<p1, pc, A, B, C, accepted, delivered, torn>>

RdPtr == Limit + 1
WrPtr == Limit + 2
rd    == p1[RdPtr]
wr    == p1[WrPtr]

Words == 0 .. MaxWord

(* main resets the pointers before it enables interrupts.                  *)
Init ==
  /\ p1 = [c \in 0 .. MaxCell |-> 0]
  /\ pc = "load_rd"
  /\ A = 0 /\ B = 0 /\ C = 0
  /\ accepted = <<>>
  /\ delivered = <<>>
  /\ torn = FALSE

-----------------------------------------------------------------------------
(* The handler, for a key that arrives.                                    *)

Overflow == wr = Limit

(* Both pointers go back to 0 when all keys have been read.                *)
Reset == rd = wr /\ rd # 0

(* Seeded bugs: the overflow is not tested; only wr is reset.              *)
AppendPastLimit(key) ==
  /\ Len(accepted) < MaxAccepted
  /\ LET at == IF Reset THEN 0 ELSE wr
     IN p1' = [p1 EXCEPT ![RdPtr] = IF Reset THEN 0 ELSE rd,
                         ![at]    = key,
                         ![WrPtr] = at + 1]
  /\ accepted' = Append(accepted, key)
  /\ UNCHANGED <<pc, A, B, C, delivered, torn>>

AppendHalfReset(key) ==
  /\ ~Overflow
  /\ Len(accepted) < MaxAccepted
  /\ LET at == IF Reset THEN 0 ELSE wr
     IN p1' = [p1 EXCEPT ![at] = key, ![WrPtr] = at + 1]
  /\ accepted' = Append(accepted, key)
  /\ UNCHANGED <<pc, A, B, C, delivered, torn>>

AppendToFifo(key) ==
  /\ ~Overflow
  /\ Len(accepted) < MaxAccepted
  /\ LET at == IF Reset THEN 0 ELSE wr
     IN p1' = [p1 EXCEPT ![RdPtr] = IF Reset THEN 0 ELSE rd,
                         ![at]    = key,
                         ![WrPtr] = at + 1]
  /\ accepted' = Append(accepted, key)
  /\ UNCHANGED <<pc, A, B, C, delivered, torn>>

-----------------------------------------------------------------------------
(* kb_getKeyPressed, called over and over by the input loop.               *)

LoadRd ==
  /\ pc = "load_rd"
  /\ B' = rd
  /\ pc' = "load_wr"
  /\ UNCHANGED <<p1, A, C, accepted, delivered, torn>>

(* Seeded bug: the comparison is inverted.                                 *)
LoadWrBug ==
  /\ pc = "load_wr"
  /\ C' = wr
  /\ pc' = IF B = wr THEN "load_key" ELSE "load_rd"
  /\ torn' = (torn \/ (B = wr /\ B # rd))
  /\ UNCHANGED <<p1, A, B, accepted, delivered>>

(* Equal pointers mean that there is no key: the call returns.             *)
LoadWr ==
  /\ pc = "load_wr"
  /\ C' = wr
  /\ pc' = IF B # wr THEN "load_key" ELSE "load_rd"
  /\ torn' = (torn \/ (B # wr /\ B # rd))
  /\ UNCHANGED <<p1, A, B, accepted, delivered>>

LoadKey ==
  /\ pc = "load_key"
  /\ A' \in IF B <= MaxCell THEN {p1[B]} ELSE ConfigWords
  /\ pc' = "store_rd"
  /\ UNCHANGED <<p1, B, C, accepted, delivered, torn>>

StoreRd ==
  /\ pc = "store_rd"
  /\ B' = (B + 1) % (MaxWord + 1)
  /\ p1' = [p1 EXCEPT ![RdPtr] = B']
  /\ delivered' = IF Len(delivered) <= MaxAccepted THEN Append(delivered, A)
                                                   ELSE delivered
  /\ pc' = "load_rd"
  /\ UNCHANGED <<A, C, accepted, torn>>

GetKeyPressed == LoadRd \/ LoadWr \/ LoadKey \/ StoreRd

Next == GetKeyPressed \/ \E key \in Keys : AppendToFifo(key)

Spec == Init /\ [][Next]_vars

(* The input loop of main polls without end.                               *)
FairSpec == Spec /\ WF_vars(GetKeyPressed)

-----------------------------------------------------------------------------
(* Type invariant; the handler never lets the write pointer pass Limit, so *)
(* that no key is written over the pointers.                               *)
TypeOK ==
  /\ p1 \in [0 .. MaxCell -> Words]
  /\ wr \in 0 .. Limit
  /\ pc \in {"load_rd", "load_wr", "load_key", "store_rd"}
  /\ A \in Words /\ B \in Words /\ C \in Words
  /\ accepted \in Seq(Keys) /\ Len(accepted) <= MaxAccepted
  /\ delivered \in Seq(Words)
  /\ torn \in BOOLEAN

(* The keys taken are the first of those appended, and the cells between   *)
(* the pointers hold the others.                                           *)
Matching ==
  /\ rd <= wr
  /\ Len(accepted) = Len(delivered) + (wr - rd)
  /\ \A i \in 1 .. Len(delivered) : delivered[i] = accepted[i]
  /\ \A i \in 1 .. wr - rd : p1[rd + i - 1] = accepted[Len(delivered) + i]

(* Every key the handler appends is taken once, in order, and none that    *)
(* was not appended, whatever the resets in between -- unless the program  *)
(* once went on with an old read pointer.                                  *)
Conservation == ~torn => Matching

(* Every key appended is taken in the end, with the same reservation.      *)
KeysArrive ==
  \A n \in 1 .. MaxAccepted :
     (Len(accepted) >= n) ~> (Len(delivered) >= n \/ torn)

(* asm.ma calls the cells an "input fifo": the keys taken are the keys     *)
(* appended, in their order.                                               *)
InputFifo ==
  /\ Len(delivered) <= Len(accepted)
  /\ \A i \in 1 .. Len(delivered) : delivered[i] = accepted[i]

=============================================================================
