----------------------------- MODULE MCKeyPath -----------------------------
(***************************************************************************)
(* Strokes of one key, with and without shift, an unknown key and Ctrl-C.  *)
(* Codes differ from the values of the pointers.  Channel, queue and FIFO  *)
(* are shorter than what can be typed, so that each of them fills up.      *)
(***************************************************************************)
EXTENDS KeyPath

MCPlain == {20}

(* No read with an old pointer, to look at losses.                         *)
NotTorn == ~torn

=============================================================================
