----------------------------- MODULE MCKeyFifo -----------------------------
(***************************************************************************)
(* A FIFO of a few cells.  Key codes differ from the values pointers take, *)
(* so that a pointer read as a key is told apart.                          *)
(***************************************************************************)
EXTENDS KeyFifo

MCKeys == {10, 11}

=============================================================================
