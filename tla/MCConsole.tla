----------------------------- MODULE MCConsole -----------------------------
(***************************************************************************)
(* A screen of three lines on which the longest input just fits.           *)
(***************************************************************************)
EXTENDS Console

CONSTANTS a, nl

MCPrompt == <<a>>

=============================================================================
