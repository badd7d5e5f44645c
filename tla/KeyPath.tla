------------------------------ MODULE KeyPath ------------------------------
(***************************************************************************)
(* A key from the terminal to the program: the two threads of VMRun        *)
(* (vmrun.go), the interrupt line, the FIFO of the boot loader, and the    *)
(* decoder of make and break codes behind it (keyboard.mscr).              *)
(*                                                                         *)
(* One goroutine waits for terminal events and sends the codes of a        *)
(* stroke, one by one, to a bounded channel; Ctrl-C goes to another        *)
(* channel first.  The loop of VMRun empties the channel into the          *)
(* interrupt line, lets the machine take one step, and ends when Ctrl-C    *)
(* has come.  The machine appears here as IrqLine, which McpcVM            *)
(* implements, and its program as KeyFifo, each step of which is one       *)
(* cycle; instructions between those steps touch nothing seen here.        *)
(***************************************************************************)
EXTENDS Naturals, Sequences

CONSTANTS
  Plain,      \* codes of keys, without shift and break
  Shift,      \* the code of the shift key, 0x12
  Break,      \* the code before that of a released key, 0xF0
  Question,   \* what the handler appends for an unknown key, '?'
  Invalid,    \* the payload of an interrupt for an unknown key
  Quit,       \* what Ctrl-C sends to its channel
  ChanCap,    \* the size of the interrupt channel, 256
  QueueCap,   \* the size of the machine's interrupt queue, 256
  MaxTyped,   \* bound on the events typed, for model checking only
  Limit, MaxCell, MaxWord, ConfigWords, MaxAccepted  \* see KeyFifo

Codes == Plain \cup {Shift, Break, Question}

ASSUME CodesAssumption ==
  /\ Codes \subseteq 1 .. MaxWord
  /\ Plain \cap {Shift, Break, Question} = {}
  /\ Shift # Break /\ Question \notin {Shift, Break}
ASSUME PayloadAssumption ==
  Invalid \notin Codes /\ Quit \notin Codes \cup {Invalid}
ASSUME CapAssumption ==
  ChanCap \in Nat \ {0} /\ QueueCap \in Nat \ {0} /\ MaxTyped \in Nat
ASSUME FifoAssumption ==
  /\ Limit \in Nat \ {0}
  /\ MaxCell \in Nat /\ Limit + 2 <= MaxCell
  /\ MaxWord \in Nat /\ MaxCell <= MaxWord
  /\ ConfigWords \subseteq 0 .. MaxWord
  /\ MaxAccepted \in Nat /\ 6 * MaxTyped <= MaxAccepted

VARIABLES
  typed,      \* history: the events of the terminal
  sending,    \* what the goroutine still sends for the last of them
  irqChan,    \* cpuIrqChan
  closeChan,  \* does closeChan hold a value (its size is 1)
  loop,       \* where the loop of VMRun is
  enabled, serving, waiting, current,          \* the machine: see IrqLine
  p1, pc, A, B, C, accepted, delivered, torn,  \* its program: see KeyFifo
  release,    \* kb_releaseKeyWasPressed
  shift,      \* kb_shiftKeyPressed
  strokes,    \* history: the keys kb_getKeyPressed returned, with shift
  lostAt      \* history: how many events had been typed when a code was
              \* last dropped on the way, 0 if none has been

goroutine == <<typed, sending>>
chans     == <<irqChan, closeChan>>
line      == <<enabled, serving, waiting, current>>
fifo      == <<p1, pc, A, B, C, accepted, delivered, torn>>
decoder   == <<release, shift, strokes>>

vars == <<goroutine, chans, loop, line, fifo, decoder, lostAt>>

Line == INSTANCE IrqLine
          WITH Payload <- Codes \cup {Invalid}, Idle <- 0, Cap <- QueueCap
Fifo == INSTANCE KeyFifo WITH Keys <- Codes

-----------------------------------------------------------------------------
(* An event: a key of the tables or none, a character that needs shift or  *)
(* not, Ctrl-C or not.                                                     *)
Events ==
  [key : Plain \cup {Invalid}, shifted : BOOLEAN, quit : {FALSE}]
    \cup {[key |-> Invalid, shifted |-> FALSE, quit |-> TRUE]}

(* What the goroutine sends: make, break and code again, or the payload of *)
(* an unknown key; around it shift, and before it Ctrl-C.                  *)
Sent(e) ==
  LET stroke == IF e.key = Invalid THEN <<Invalid>>
                                   ELSE <<e.key, Break, e.key>>
  IN (IF e.quit THEN <<Quit>> ELSE <<>>)
       \o (IF e.shifted THEN <<Shift>> \o stroke \o <<Break, Shift>>
                        ELSE stroke)

(* What the program should read of it.                                     *)
Stroke(e) ==
  [key |-> IF e.key = Invalid THEN Question ELSE e.key, shift |-> e.shifted]

Init ==
  /\ typed = <<>> /\ sending = <<>>
  /\ irqChan = <<>> /\ closeChan = FALSE
  /\ loop = "inject"
  /\ Line!Init
  /\ Fifo!Init
  /\ release = FALSE /\ shift = FALSE /\ strokes = <<>>
  /\ lostAt = 0

-----------------------------------------------------------------------------
(* The goroutine.                                                          *)

Type(e) ==
  /\ loop # "returned"
  /\ sending = <<>>
  /\ Len(typed) < MaxTyped
  /\ typed' = Append(typed, e)
  /\ sending' = Sent(e)
  /\ UNCHANGED <<chans, loop, line, fifo, decoder, lostAt>>

(* Seeded bugs: closeChan has no buffer, and the loop looks at its length  *)
(* without ever receiving from it; the other channel is not bounded.       *)
SendUnbuffered ==
  /\ loop # "returned"
  /\ sending # <<>> /\ Head(sending) # Quit
  /\ sending' = Tail(sending)
  /\ Len(irqChan) < ChanCap
  /\ irqChan' = Append(irqChan, Head(sending))
  /\ UNCHANGED <<typed, closeChan, loop, line, fifo, decoder, lostAt>>

SendUnbounded ==
  /\ loop # "returned"
  /\ sending # <<>>
  /\ sending' = Tail(sending)
  /\ \/ /\ Head(sending) = Quit
        /\ ~closeChan
        /\ closeChan' = TRUE
        /\ UNCHANGED irqChan
     \/ /\ Head(sending) # Quit
        /\ irqChan' = Append(irqChan, Head(sending))
        /\ UNCHANGED closeChan
  /\ UNCHANGED <<typed, loop, line, fifo, decoder, lostAt>>

(* A send waits until its channel has room.                                *)
Send ==
  /\ loop # "returned"
  /\ sending # <<>>
  /\ sending' = Tail(sending)
  /\ \/ /\ Head(sending) = Quit
        /\ ~closeChan
        /\ closeChan' = TRUE
        /\ UNCHANGED irqChan
     \/ /\ Head(sending) # Quit
        /\ Len(irqChan) < ChanCap
        /\ irqChan' = Append(irqChan, Head(sending))
        /\ UNCHANGED closeChan
  /\ UNCHANGED <<typed, loop, line, fifo, decoder, lostAt>>

-----------------------------------------------------------------------------
(* The loop of VMRun.                                                      *)

(* Seeded bug: InjectIRQ waits for room in the queue.                      *)
InjectWaits ==
  /\ loop = "inject" /\ irqChan # <<>>
  /\ irqChan' = Tail(irqChan)
  /\ \/ Line!Raise(Head(irqChan)) /\ UNCHANGED lostAt
     \/ /\ ~enabled
        /\ lostAt' = Len(typed)
        /\ UNCHANGED line
  /\ UNCHANGED <<goroutine, closeChan, loop, fifo, decoder>>

(* InjectIRQ drops what comes while the line is disabled or its queue      *)
(* full.                                                                   *)
Inject ==
  /\ loop = "inject" /\ irqChan # <<>>
  /\ irqChan' = Tail(irqChan)
  /\ \/ Line!Raise(Head(irqChan)) /\ UNCHANGED lostAt
     \/ /\ ~enabled \/ Len(waiting) = QueueCap
        /\ lostAt' = Len(typed)
        /\ UNCHANGED line
  /\ UNCHANGED <<goroutine, closeChan, loop, fifo, decoder>>

InjectDone ==
  /\ loop = "inject" /\ irqChan = <<>>
  /\ loop' = "step"
  /\ UNCHANGED <<goroutine, chans, line, fifo, decoder, lostAt>>

(* main resets the pointers and turns interrupts on.                       *)
Boot ==
  /\ ~enabled
  /\ Line!Enable
  /\ UNCHANGED <<fifo, decoder, lostAt>>

TakeIrq ==
  /\ Line!Due
  /\ Line!Work
  /\ UNCHANGED <<fifo, decoder, lostAt>>

(* The handler: the code of a known key, '?' for another.                  *)
HandlerEnd ==
  /\ serving
  /\ Line!Done
  /\ \/ /\ Fifo!AppendToFifo(IF current = Invalid THEN Question ELSE current)
        /\ UNCHANGED lostAt
     \/ /\ Fifo!Overflow
        /\ lostAt' = Len(typed)
        /\ UNCHANGED fifo
  /\ UNCHANGED decoder

(* kb_getKeyPressed once it has taken key k: the key is a stroke, unless   *)
(* it was let go of or is 0, which stands for no key.  Kept is one more    *)
(* stroke than there can be codes.                                         *)
Returned(k) ==
  IF release \/ k = 0 \/ Len(strokes) > MaxAccepted
  THEN strokes
  ELSE Append(strokes, [key |-> k, shift |-> shift])

(* Seeded bugs: letting go of shift counts as pressing it; every code of   *)
(* the shift key toggles it.                                               *)
DecodePressed(k) ==
  \/ /\ k = Shift
     /\ shift' = TRUE
     /\ release' = FALSE
     /\ UNCHANGED strokes
  \/ /\ k = Break
     /\ release' = TRUE
     /\ UNCHANGED <<shift, strokes>>
  \/ /\ k \notin {Shift, Break}
     /\ release' = FALSE
     /\ strokes' = Returned(k)
     /\ UNCHANGED shift

DecodeToggles(k) ==
  \/ /\ k = Shift
     /\ shift' = ~shift
     /\ release' = FALSE
     /\ UNCHANGED strokes
  \/ /\ k = Break
     /\ release' = TRUE
     /\ UNCHANGED <<shift, strokes>>
  \/ /\ k \notin {Shift, Break}
     /\ release' = FALSE
     /\ strokes' = Returned(k)
     /\ UNCHANGED shift

(* The code of a shift key, made or broken, sets the flag; that of another *)
(* broken key is dropped.                                                  *)
Decode(k) ==
  \/ /\ k = Shift
     /\ shift' = ~release
     /\ release' = FALSE
     /\ UNCHANGED strokes
  \/ /\ k = Break
     /\ release' = TRUE
     /\ UNCHANGED <<shift, strokes>>
  \/ /\ k \notin {Shift, Break}
     /\ release' = FALSE
     /\ strokes' = Returned(k)
     /\ UNCHANGED shift

(* The program runs when there is no interrupt to take or to serve.        *)
Program ==
  /\ enabled /\ ~serving /\ ~Line!Due
  /\ Line!Work
  /\ \/ (Fifo!LoadRd \/ Fifo!LoadWr \/ Fifo!LoadKey) /\ UNCHANGED decoder
     \/ Fifo!StoreRd /\ Decode(A)
  /\ UNCHANGED lostAt

(* One step of the machine; then the loop looks for Ctrl-C.                *)
Step ==
  /\ loop = "step"
  /\ Boot \/ TakeIrq \/ HandlerEnd \/ Program
  /\ loop' = IF closeChan THEN "returned" ELSE "inject"
  /\ UNCHANGED <<goroutine, chans>>

Loop == Inject \/ InjectDone \/ Step

Next == (\E e \in Events : Type(e)) \/ Send \/ Loop

Spec == Init /\ [][Next]_vars

(* Both threads run; a user need not type.                                 *)
FairSpec == Spec /\ WF_vars(Send) /\ WF_vars(Loop)

-----------------------------------------------------------------------------
(* Type invariant: channel and queue never hold more than their size.      *)
TypeOK ==
  /\ typed \in Seq(Events) /\ Len(typed) <= MaxTyped
  /\ sending \in Seq(Codes \cup {Invalid, Quit})
  /\ irqChan \in Seq(Codes \cup {Invalid}) /\ Len(irqChan) <= ChanCap
  /\ closeChan \in BOOLEAN
  /\ loop \in {"inject", "step", "returned"}
  /\ Line!TypeOK /\ Len(waiting) <= QueueCap
  /\ Fifo!TypeOK
  /\ release \in BOOLEAN /\ shift \in BOOLEAN
  /\ strokes \in Seq([key : Fifo!Words, shift : BOOLEAN])
  /\ lostAt \in 0 .. Len(typed)

(* Nothing is between the goroutine and the decoder.                       *)
Quiet ==
  /\ sending = <<>> /\ irqChan = <<>> /\ waiting = <<>> /\ ~serving
  /\ Fifo!rd = Fifo!wr /\ pc = "load_rd"

(* The program reads the strokes that were typed, in order, each once and  *)
(* with its shift, and all of them once the way is clear; then the decoder *)
(* waits for a new stroke.  A code dropped on the way, or a read with an   *)
(* old read pointer, may spoil this.                                       *)
AsTyped ==
  lostAt = 0 /\ ~torn =>
    /\ Len(strokes) <= Len(typed)
    /\ \A i \in 1 .. Len(strokes) : strokes[i] = Stroke(typed[i])
    /\ Quiet => Len(strokes) = Len(typed) /\ ~release /\ ~shift

(* A loss does not stay: once a whole stroke has come through after it, no *)
(* broken code is awaited, and once a shifted one has, shift is off.       *)
Recovers ==
  Quiet /\ ~torn /\ Len(typed) > lostAt =>
    /\ ~release
    /\ (\E i \in lostAt + 1 .. Len(typed) : typed[i].shifted) => ~shift

(* Every stroke is read in the end, with the same reservations.            *)
StrokesArrive ==
  \A n \in 1 .. MaxTyped :
     (Len(typed) >= n)
        ~> (Len(strokes) >= n \/ lostAt # 0 \/ torn \/ loop = "returned")

(* Ctrl-C ends VMRun, however many codes wait and whatever the machine is  *)
(* doing.                                                                  *)
Quits == (\E i \in 1 .. Len(typed) : typed[i].quit) ~> (loop = "returned")

=============================================================================
