------------------------------ MODULE RegAlloc ------------------------------
(***************************************************************************)
(* Register allocation in the M-Script compiler (asm_resolver.go).         *)
(*                                                                         *)
(* The compiler goes through the meta-assembly of a function and keeps     *)
(* books of which variable each of the registers A..D holds and which of   *)
(* the registers are newer than memory.  Each action is a command: what it *)
(* does to the books while compiling, and what the code emitted for it     *)
(* does to registers and memory when it runs.  The books where control     *)
(* flow joins are empty, so that a path through the function is the        *)
(* commands along it, one after the other.                                 *)
(*                                                                         *)
(* store is what the source program says its variables hold.               *)
(***************************************************************************)
EXTENDS Naturals

CONSTANTS
  Locals,   \* the variables of the function
  Globals,  \* the global variables it names
  Pointed,  \* the locals whose address it takes, with $$
  Forced,   \* the locals it binds to a register, with _reg_assign
  Values,
  NumRegs,  \* AssigneableRegisters, 4 in the code
  Order     \* orderNumber of each variable

Names     == Locals \cup Globals
Registers == 0 .. NumRegs - 1
NoReg     == NumRegs
A         == 0

ASSUME NamesAssumption == /\ Locals \cap Globals = {}
                          /\ Pointed \subseteq Locals
                          /\ Forced \subseteq Locals
ASSUME RegsAssumption  == NumRegs \in Nat \ {0}
ASSUME OrderAssumption == Order \in [Names -> Nat]

VARIABLES
  assignment, \* scopeRegisterAssignment: the register of each variable
  dirty,      \* scopeRegisterDirty: the registers newer than memory
  marks,      \* scopeVariableDirectMarks: variables always kept in memory
  regs,       \* the registers, when the code runs
  heap,       \* the memory of the variables, when the code runs
  store,      \* the variables as the source program has them
  escaped,    \* the locals a pointer has been taken to so far
  forced,     \* the locals bound to a register since the last statement
  flushed,    \* has no statement run since the last __FLUSHSCOPE
  status,     \* "open", "returned", or "failed" when the compiler panics
  misread,    \* history: did a use of a variable see a wrong value
  unsafe      \* history: did the program do what the books cannot follow

vars == <<assignment, dirty, marks, regs, heap, store, escaped, forced,
          flushed, status, misread, unsafe>>

-----------------------------------------------------------------------------
(* Reading the books.  A register never has two owners (OneOwner), so that *)
(* getNameForRegister has one answer at most, whatever the order in which  *)
(* Go goes through the map.                                                *)
Owners(r)  == {v \in Names : assignment[v] = r}
CheckedOut(v) == assignment[v] # NoReg

(* Globals and marked variables are looked for in memory only.             *)
Direct(v) == v \in Globals \cup marks
Found(v)  == ~Direct(v) /\ CheckedOut(v)

(* The register for a variable that is not found: the last one that is not *)
(* dirty, and one that depends on the variable if all are.                 *)
Clean   == Registers \ dirty
PickUnbounded(v) == IF Clean # {} THEN CHOOSE r \in Clean : TRUE
                                  ELSE Order[v]   \* seeded bug: no modulus
Pick(v) == IF Clean # {} THEN CHOOSE r \in Clean : \A s \in Clean : s <= r
                         ELSE Order[v] % NumRegs

(* evictRegister finds no variable to write the register to.               *)
Orphan(r) == r \in dirty /\ Owners(r) = {}

(* Memory once the registers rs are written back, with contents values.    *)
Saved(rs, values) ==
  [v \in Names |-> IF assignment[v] \in rs THEN values[assignment[v]]
                                           ELSE heap[v]]

Evicted(r) == IF r \in dirty THEN Saved({r}, regs) ELSE heap

(* The books once register r is free, and once it is v's.                  *)
Released(r)   == [v \in Names |-> IF assignment[v] = r THEN NoReg
                                                      ELSE assignment[v]]
ReboundShared(v, r) == [assignment EXCEPT ![v] = r] \* seeded bug: no release
Rebound(v, r) == [Released(r) EXCEPT ![v] = r]

-----------------------------------------------------------------------------
(* __CLEARSCOPE at the start of a function.                                *)
Init ==
  /\ assignment = [v \in Names |-> NoReg]
  /\ dirty = {}
  /\ marks = {}
  /\ regs \in [Registers -> Values]
  /\ heap \in [Names -> Values]
  /\ store = heap
  /\ escaped = {}
  /\ forced = {}
  /\ flushed = TRUE
  /\ status = "open"
  /\ misread = FALSE
  /\ unsafe = FALSE

(* A command that reads a variable.                                        *)
ReadFound(v) ==
  /\ status = "open"
  /\ Found(v)
  /\ misread' = (misread \/ regs[assignment[v]] # store[v])
  /\ forced' = {}
  /\ UNCHANGED <<assignment, dirty, marks, regs, heap, store, escaped,
                 flushed, status, unsafe>>

ReadLoaded(v) ==
  /\ status = "open"
  /\ ~Found(v) /\ ~Orphan(Pick(v))
  /\ LET r == Pick(v)
     IN /\ assignment' = Rebound(v, r)
        /\ heap' = Evicted(r)
        /\ regs' = [regs EXCEPT ![r] = heap'[v]]
        /\ dirty' = dirty \ {r}
  /\ misread' = (misread \/ heap'[v] # store[v])
  /\ forced' = {}
  /\ UNCHANGED <<marks, store, escaped, flushed, status, unsafe>>

(* A command that writes a variable.                                       *)
WriteFound(v, x) ==
  /\ status = "open"
  /\ Found(v)
  /\ regs' = [regs EXCEPT ![assignment[v]] = x]
  /\ dirty' = dirty \cup {assignment[v]}
  /\ store' = [store EXCEPT ![v] = x]
  /\ flushed' = FALSE
  /\ forced' = {}
  /\ UNCHANGED <<assignment, marks, heap, escaped, status, misread, unsafe>>

(* Seeded bug: the register is taken without writing its owner back.       *)
WriteOver(v, x) ==
  /\ status = "open"
  /\ ~Found(v) /\ ~Orphan(Pick(v))
  /\ LET r == Pick(v)
     IN /\ assignment' = Rebound(v, r)
        /\ regs' = [regs EXCEPT ![r] = x]
        /\ heap' = IF Direct(v) THEN [heap EXCEPT ![v] = x] ELSE heap
        /\ dirty' = IF Direct(v) THEN dirty \ {r} ELSE dirty \cup {r}
  /\ store' = [store EXCEPT ![v] = x]
  /\ flushed' = FALSE
  /\ forced' = {}
  /\ UNCHANGED <<marks, escaped, status, misread, unsafe>>

(* A direct variable is written back by the command that follows.          *)
WriteLoaded(v, x) ==
  /\ status = "open"
  /\ ~Found(v) /\ ~Orphan(Pick(v))
  /\ LET r == Pick(v)
     IN /\ assignment' = Rebound(v, r)
        /\ regs' = [regs EXCEPT ![r] = x]
        /\ heap' = IF Direct(v) THEN [Evicted(r) EXCEPT ![v] = x]
                                ELSE Evicted(r)
        /\ dirty' = IF Direct(v) THEN dirty \ {r} ELSE dirty \cup {r}
  /\ store' = [store EXCEPT ![v] = x]
  /\ flushed' = FALSE
  /\ forced' = {}
  /\ UNCHANGED <<marks, escaped, status, misread, unsafe>>

(* The panic of evictRegister.                                             *)
InternalError(v) ==
  /\ status = "open"
  /\ ~Found(v) /\ Orphan(Pick(v))
  /\ status' = "failed"
  /\ UNCHANGED <<assignment, dirty, marks, regs, heap, store, escaped,
                 forced, flushed, misread, unsafe>>

-----------------------------------------------------------------------------
(* __FORCESCOPE: v is to be in register r, which is assumed dirty from now *)
(* on.  A marked variable is beyond the books: its register need not be    *)
(* current, and what is written to it there is not written to memory.      *)
Forces(v) ==
  /\ status = "open"
  /\ forced' = {u \in forced : assignment'[u] = assignment[u]} \cup {v}
  /\ flushed' = FALSE
  /\ UNCHANGED <<marks, store, escaped, status, misread>>

ForceKept(v, r) ==
  /\ assignment[v] = r
  /\ dirty' = dirty \cup {r}
  /\ unsafe' = (unsafe \/ v \in marks)
  /\ UNCHANGED <<assignment, regs, heap>>
  /\ Forces(v)

(* Seeded bug: the register v leaves stays dirty.                          *)
ForceMovedAway(v, r) ==
  /\ CheckedOut(v) /\ assignment[v] # r
  /\ Owners(r) = {}
  /\ assignment' = [assignment EXCEPT ![v] = r]
  /\ regs' = [regs EXCEPT ![r] = regs[assignment[v]]]
  /\ dirty' = dirty \cup {r}
  /\ unsafe' = (unsafe \/ v \in marks)
  /\ UNCHANGED heap
  /\ Forces(v)

ForceMoved(v, r) ==
  /\ CheckedOut(v) /\ assignment[v] # r
  /\ Owners(r) = {}
  /\ assignment' = [assignment EXCEPT ![v] = r]
  /\ regs' = [regs EXCEPT ![r] = regs[assignment[v]]]
  /\ dirty' = (dirty \cup {r}) \ {assignment[v]}
  /\ unsafe' = (unsafe \/ v \in marks)
  /\ UNCHANGED heap
  /\ Forces(v)

(* Both registers have an owner: they are swapped, the dirty marks are not.*)
(* The other variable then has the mark that was v's, wrongly if its own   *)
(* register was dirty, and wrongly if it is a direct one.                  *)
ForceSwapped(v, r) ==
  LET old == assignment[v]
  IN /\ CheckedOut(v) /\ old # r
     /\ Owners(r) # {}
     /\ assignment' = [w \in Names |-> CASE assignment[w] = old -> r
                                         [] assignment[w] = r   -> old
                                         [] OTHER -> assignment[w]]
     /\ regs' = [regs EXCEPT ![r] = regs[old], ![old] = regs[r]]
     /\ dirty' = dirty \cup {r}
     /\ unsafe' = \/ unsafe \/ v \in marks
                  \/ r \in dirty /\ old \notin dirty
                  \/ old \in dirty /\ \E w \in Owners(r) : Direct(w)
     /\ UNCHANGED heap
     /\ Forces(v)

ForceLoaded(v, r) ==
  /\ ~CheckedOut(v)
  /\ heap' = Evicted(r)
  /\ assignment' = Rebound(v, r)
  /\ regs' = [regs EXCEPT ![r] = heap'[v]]
  /\ dirty' = dirty \cup {r}
  /\ unsafe' = (unsafe \/ v \in marks)
  /\ Forces(v)

(* An _asm block uses and changes a variable bound to a register.          *)
Asm(v, x) ==
  /\ status = "open"
  /\ v \in forced
  /\ misread' = (misread \/ regs[assignment[v]] # store[v])
  /\ regs' = [regs EXCEPT ![assignment[v]] = x]
  /\ store' = [store EXCEPT ![v] = x]
  /\ flushed' = FALSE
  /\ UNCHANGED <<assignment, dirty, marks, heap, escaped, forced, status,
                 unsafe>>

-----------------------------------------------------------------------------
(* __SET_DIRECT, when the address of v is taken.  A dirty register is      *)
(* written back, but stays dirty.                                          *)
SetDirect(v) ==
  /\ status = "open"
  /\ marks' = marks \cup {v}
  /\ escaped' = escaped \cup {v}
  /\ heap' = IF assignment[v] \in dirty THEN Saved({assignment[v]}, regs)
                                        ELSE heap
  /\ unsafe' = (unsafe \/ assignment[v] \in dirty)
  /\ forced' = {}
  /\ UNCHANGED <<assignment, dirty, regs, store, flushed, status, misread>>

(* A read and a write through a pointer to v, both of memory.  They are    *)
(* beyond the books if v is no longer marked and in a register.            *)
Cached(v) == v \notin Globals \cup marks /\ CheckedOut(v)

ReadThrough(v) ==
  /\ status = "open"
  /\ v \in Globals \cup escaped
  /\ misread' = (misread \/ heap[v] # store[v])
  /\ unsafe' = (unsafe \/ (Cached(v) /\ assignment[v] \in dirty))
  /\ forced' = {}
  /\ UNCHANGED <<assignment, dirty, marks, regs, heap, store, escaped,
                 flushed, status>>

WriteThrough(v, x) ==
  /\ status = "open"
  /\ v \in Globals \cup escaped
  /\ heap' = [heap EXCEPT ![v] = x]
  /\ store' = [store EXCEPT ![v] = x]
  /\ unsafe' = (unsafe \/ Cached(v))
  /\ forced' = {}
  /\ flushed' = FALSE
  /\ UNCHANGED <<assignment, dirty, marks, regs, escaped, status, misread>>

-----------------------------------------------------------------------------
(* Seeded bug: the locals are left to the next command.                    *)
FlushGlobalsOnly ==
  /\ status = "open"
  /\ heap' = [v \in Names |-> IF v \in Globals THEN Saved(dirty, regs)[v]
                                               ELSE heap[v]]
  /\ dirty' = {}
  /\ flushed' = TRUE
  /\ forced' = {}
  /\ UNCHANGED <<assignment, marks, regs, store, escaped, status, misread,
                 unsafe>>

(* __FLUSHSCOPE writes all dirty registers back that have an owner.  It    *)
(* comes before every call, branch and join.                               *)
FlushScope ==
  /\ status = "open"
  /\ heap' = Saved(dirty, regs)
  /\ dirty' = {}
  /\ flushed' = TRUE
  /\ forced' = {}
  /\ UNCHANGED <<assignment, marks, regs, store, escaped, status, misread,
                 unsafe>>

(* __CLEARSCOPE empties the books, the marks among them.  No statement has *)
(* run since the flush; the condition of an if or a while may have been    *)
(* read.                                                                   *)
ClearScope ==
  /\ status = "open"
  /\ flushed
  /\ assignment' = [v \in Names |-> NoReg]
  /\ dirty' = {}
  /\ marks' = {}
  /\ forced' = {}
  /\ UNCHANGED <<regs, heap, store, escaped, flushed, status, misread,
                 unsafe>>

(* A call, between two __CLEARSCOPEs.  The function called leaves anything *)
(* in the registers and may write a variable it has a pointer to.          *)
Call(v, x, junk) ==
  /\ status = "open"
  /\ flushed
  /\ dirty = {} /\ marks = {}
  /\ \A w \in Names : ~CheckedOut(w)
  /\ v \in Globals \cup escaped
  /\ heap' = [heap EXCEPT ![v] = x]
  /\ store' = [store EXCEPT ![v] = x]
  /\ regs' = [r \in Registers |-> junk]
  /\ forced' = {}
  /\ UNCHANGED <<assignment, dirty, marks, escaped, flushed, status, misread,
                 unsafe>>

(* A return statement: the value goes to register A, then __FLUSHGLOBALS   *)
(* writes back the globals that are dirty.                                 *)
Return(x) ==
  /\ status = "open"
  /\ regs' = [regs EXCEPT ![A] = x]
  /\ heap' = [v \in Names |-> IF v \in Globals THEN Saved(dirty, regs')[v]
                                               ELSE heap[v]]
  /\ dirty' = {}
  /\ status' = "returned"
  /\ UNCHANGED <<assignment, marks, store, escaped, forced, flushed, misread,
                 unsafe>>

Next ==
  \/ \E v \in Names : ReadFound(v) \/ ReadLoaded(v) \/ InternalError(v)
  \/ \E v \in Names, x \in Values : WriteFound(v, x) \/ WriteLoaded(v, x)
  \/ \E v \in Forced, r \in Registers :
        ForceKept(v, r) \/ ForceMoved(v, r) \/ ForceSwapped(v, r)
        \/ ForceLoaded(v, r)
  \/ \E v \in Locals, x \in Values : Asm(v, x)
  \/ \E v \in Pointed : SetDirect(v)
  \/ \E v \in Names : ReadThrough(v)
  \/ \E v \in Names, x \in Values : WriteThrough(v, x)
  \/ FlushScope
  \/ ClearScope
  \/ \E v \in Names, x, junk \in Values : Call(v, x, junk)
  \/ \E x \in Values : Return(x)

Spec == Init /\ [][Next]_vars

-----------------------------------------------------------------------------
(* Type invariant.                                                         *)
TypeOK ==
  /\ assignment \in [Names -> Registers \cup {NoReg}]
  /\ dirty \subseteq Registers
  /\ marks \subseteq Locals
  /\ regs \in [Registers -> Values]
  /\ heap \in [Names -> Values]
  /\ store \in [Names -> Values]
  /\ escaped \subseteq Locals
  /\ forced \subseteq Locals
  /\ flushed \in BOOLEAN
  /\ status \in {"open", "returned", "failed"}
  /\ misread \in BOOLEAN
  /\ unsafe \in BOOLEAN

(* No register is ever held for two variables.                             *)
OneOwner ==
  \A v, w \in Names : CheckedOut(v) /\ assignment[v] = assignment[w] => v = w

(* Every use of a variable, by a statement, an _asm block or a pointer,    *)
(* sees the value last given to it, whatever was evicted, moved, flushed   *)
(* and loaded in between -- unless the program did what makes it unsafe.   *)
ReadsRight == misread => unsafe

(* Where control flow joins, and when another function takes over, memory  *)
(* holds the value of every variable; it always holds those of the direct  *)
(* variables.                                                              *)
MemoryCurrent ==
  ~unsafe => \A v \in Names : flushed \/ Direct(v) => heap[v] = store[v]

(* The compiler does not panic on a register that is dirty for no one.     *)
NoInternalError == status = "failed" => unsafe

-----------------------------------------------------------------------------
(* asm_resolver.go on __FLUSHSCOPE: "Save entire scope to VarHeap".        *)
FlushSavesScope == flushed => heap = store

=============================================================================
