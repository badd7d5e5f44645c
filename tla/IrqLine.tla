------------------------------- MODULE IrqLine ------------------------------
(***************************************************************************)
(* What the interrupt line of the MCPC promises, whatever program it runs. *)
(*                                                                         *)
(* A device raises interrupts with a payload.  While the line is enabled   *)
(* at most Cap of them wait, in the order they were raised; one raised     *)
(* while the line is disabled or full is lost.  The processor works in     *)
(* cycles.  A cycle that starts with the line enabled, no interrupt in     *)
(* service and one waiting takes the oldest into service, always: no       *)
(* instruction of the interrupted program runs in between.  Then the       *)
(* instruction of the cycle may enable the line, disable it (which forgets *)
(* all that wait) or declare the service done.                             *)
(***************************************************************************)
EXTENDS Naturals, Sequences

CONSTANTS
  Payload,  \* what a raised interrupt carries
  Idle,     \* the payload register before the first interrupt
  Cap       \* how many raised interrupts may wait

VARIABLES
  enabled,  \* is the line enabled
  serving,  \* is an interrupt in service
  waiting,  \* the payloads raised and not yet taken, oldest first
  current   \* the payload last taken

vars == <<enabled, serving, waiting, current>>

TypeOK ==
  /\ enabled \in BOOLEAN
  /\ serving \in BOOLEAN
  /\ waiting \in Seq(Payload)
  /\ current \in Payload \cup {Idle}

Init ==
  /\ enabled = FALSE
  /\ serving = FALSE
  /\ waiting = <<>>
  /\ current = Idle

Raise(p) ==
  /\ enabled
  /\ Len(waiting) < Cap
  /\ waiting' = Append(waiting, p)
  /\ UNCHANGED <<enabled, serving, current>>

Due == enabled /\ ~serving /\ waiting # <<>>

(* What the interrupt logic holds once the cycle has taken what is due.    *)
Left    == IF Due THEN Tail(waiting) ELSE waiting
Served  == serving \/ Due
Taken   == IF Due THEN Head(waiting) ELSE current

Work ==
  /\ current' = Taken
  /\ serving' = Served
  /\ waiting' = Left
  /\ enabled' = enabled

Enable ==
  /\ current' = Taken
  /\ serving' = Served
  /\ waiting' = Left
  /\ enabled' = TRUE

Disable ==
  /\ current' = Taken
  /\ serving' = Served
  /\ waiting' = <<>>
  /\ enabled' = FALSE

Done ==
  /\ current' = Taken
  /\ serving' = FALSE
  /\ waiting' = Left
  /\ enabled' = enabled

Next ==
  \/ \E p \in Payload : Raise(p)
  \/ Work
  \/ Enable
  \/ Disable
  \/ Done

Spec == Init /\ [][Next]_vars

=============================================================================
