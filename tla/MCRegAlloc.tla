----------------------------- MODULE MCRegAlloc -----------------------------
(***************************************************************************)
(* A function of a few variables on two registers, so that registers have  *)
(* to be evicted.                                                          *)
(***************************************************************************)
EXTENDS RegAlloc

CONSTANTS x, y, g

(* A local has a place in the frame, a global an address.                  *)
MCOrder == [v \in Names |-> CASE v = x -> 0 [] v = y -> 1 [] OTHER -> 5]

=============================================================================
