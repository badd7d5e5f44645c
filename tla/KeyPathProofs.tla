--------------------------- MODULE KeyPathProofs ---------------------------
(***************************************************************************)
(* The program of the machine, run step by step by VMRun with interrupts   *)
(* taken in between, is an instance of KeyFifo: what KeyFifoProofs proves  *)
(* of the FIFO alone holds of the whole path of a key.                     *)
(*                                                                         *)
(* For this the handler must only ever get codes: the payloads keep their  *)
(* types all the way from the goroutine (Payloads).                        *)
(*                                                                         *)
(* That the strokes are read as they were typed (AsTyped, Recovers) needs  *)
(* an invariant of the whole way: each code under way, in whichever of     *)
(* five places it is, is a certain code of a certain event.  WayInv says   *)
(* that a sequence of such tags exists, in the order of sending after the  *)
(* last loss, and that the decoder is where the tag of the last code read  *)
(* puts it.  Actions move a code from place to place (Same), drop one or   *)
(* deliver one (Cut); lemmas about sequences of tags do the rest.          *)
(***************************************************************************)
EXTENDS KeyPath, SequenceTheorems, TLAPS

F == INSTANCE KeyFifoProofs WITH Keys <- Codes

Payload == Codes \cup {Invalid}

(* The payloads on their way, and a code in the register of the handler.   *)
Payloads ==
  /\ sending \in Seq(Payload \cup {Quit})
  /\ irqChan \in Seq(Payload)
  /\ waiting \in Seq(Payload)
  /\ current \in Payload \cup {0}
  /\ serving => current \in Payload

LEMMA SentType == ASSUME NEW e \in Events PROVE Sent(e) \in Seq(Payload \cup {Quit})
<1> DEFINE P == Payload \cup {Quit}
           stroke == IF e.key = Invalid THEN <<Invalid>>
                                        ELSE <<e.key, Break, e.key>>
<1>1. Shift \in P /\ Break \in P /\ Invalid \in P /\ Quit \in P
  BY DEF Payload, Codes
<1>2. e.key \in P
  <2>1. e.key \in Plain \cup {Invalid}
    <3>1. CASE e \in [key : Plain \cup {Invalid}, shifted : BOOLEAN, quit : {FALSE}]
      BY <3>1
    <3>2. CASE e = [key |-> Invalid, shifted |-> FALSE, quit |-> TRUE]
      BY <3>2
    <3>3. QED
      BY <3>1, <3>2 DEF Events
  <2>2. QED
    BY <2>1 DEF Payload, Codes
<1> HIDE DEF P
<1>3. stroke \in Seq(P)
  BY <1>1, <1>2
<1> HIDE DEF stroke
<1>4. <<Shift>> \o stroke \o <<Break, Shift>> \in Seq(P)
  BY <1>1, <1>3
<1>5. <<Quit>> \in Seq(P) /\ <<>> \in Seq(P)
  BY <1>1
<1>6. Sent(e) \in Seq(P)
  BY <1>3, <1>4, <1>5 DEF Sent, stroke
<1>7. QED
  BY <1>6 DEF P

(* Taking the oldest interrupt, when one is due.                           *)
LEMMA TakenType ==
  ASSUME Payloads
  PROVE  /\ Line!Left \in Seq(Payload)
         /\ Line!Taken \in Payload \cup {0}
         /\ Line!Served => Line!Taken \in Payload
<1>1. CASE Line!Due
  <2>1. waiting \in Seq(Payload) /\ waiting # <<>>
    BY <1>1 DEF Payloads, Line!Due
  <2>2. Head(waiting) \in Payload /\ Tail(waiting) \in Seq(Payload)
    BY <2>1
  <2>3. QED
    BY <1>1, <2>2 DEF Line!Left, Line!Taken
<1>2. CASE ~Line!Due
  BY <1>2 DEF Payloads, Line!Left, Line!Taken, Line!Served
<1>3. QED
  BY <1>1, <1>2

-----------------------------------------------------------------------------
LEMMA PayloadsInit == Init => Payloads
  BY DEF Init, Line!Init, Payloads

LEMMA TypePayloads == \A e \in Events : Payloads /\ Type(e) => Payloads'
  BY SentType DEF Payloads, Type, chans, line

LEMMA SendPayloads == Payloads /\ Send => Payloads'
<1> SUFFICES ASSUME Payloads, Send PROVE Payloads'
  OBVIOUS
<1>1. sending \in Seq(Payload \cup {Quit}) /\ sending # <<>>
  BY DEF Payloads, Send
<1>2. /\ Head(sending) \in Payload \cup {Quit}
      /\ Tail(sending) \in Seq(Payload \cup {Quit})
  BY <1>1
<1>3. irqChan' \in Seq(Payload)
  <2>1. CASE Head(sending) = Quit
    BY <2>1 DEF Payloads, Send
  <2>2. CASE Head(sending) # Quit
    <3>1. Head(sending) \in Payload /\ irqChan \in Seq(Payload)
      BY <1>2, <2>2 DEF Payloads
    <3>2. irqChan' = Append(irqChan, Head(sending))
      BY <2>2 DEF Send
    <3>3. QED
      BY <3>1, <3>2
  <2>3. QED
    BY <2>1, <2>2
<1>4. QED
  BY <1>2, <1>3 DEF Payloads, Send, line

LEMMA InjectPayloads == Payloads /\ Inject => Payloads'
<1> SUFFICES ASSUME Payloads, Inject PROVE Payloads'
  OBVIOUS
<1>1. irqChan \in Seq(Payload) /\ irqChan # <<>> /\ waiting \in Seq(Payload)
  BY DEF Payloads, Inject
<1>2. Head(irqChan) \in Payload /\ Tail(irqChan) \in Seq(Payload)
  BY <1>1
<1>3. waiting' \in Seq(Payload) /\ UNCHANGED <<serving, current>>
  <2>1. CASE Line!Raise(Head(irqChan))
    <3>1. waiting' = Append(waiting, Head(irqChan)) /\ UNCHANGED <<serving, current>>
      BY <2>1 DEF Line!Raise
    <3>2. QED
      BY <1>1, <1>2, <3>1
  <2>2. CASE UNCHANGED line
    BY <1>1, <2>2 DEF line
  <2>3. QED
    BY <2>1, <2>2 DEF Inject
<1>4. QED
  BY <1>2, <1>3 DEF Payloads, Inject, goroutine

LEMMA StepPayloads == Payloads /\ Step => Payloads'
<1> SUFFICES ASSUME Payloads, Step PROVE Payloads'
  OBVIOUS
<1>1. UNCHANGED <<sending, irqChan>>
  BY DEF Step, goroutine, chans
<1>2. /\ waiting' = Line!Left \/ waiting' = <<>>
      /\ current' = Line!Taken
      /\ serving' = Line!Served \/ serving' = FALSE
  BY DEF Step, Boot, TakeIrq, HandlerEnd, Program,
         Line!Enable, Line!Work, Line!Done
<1>3. /\ Line!Left \in Seq(Payload)
      /\ Line!Taken \in Payload \cup {0}
      /\ Line!Served => Line!Taken \in Payload
  BY TakenType
<1>4. waiting' \in Seq(Payload)
  <2>1. <<>> \in Seq(Payload)
    OBVIOUS
  <2>2. QED
    BY <1>2, <1>3, <2>1
<1>5. QED
  BY <1>1, <1>2, <1>3, <1>4 DEF Payloads

LEMMA PayloadsKept == Payloads /\ [Next]_vars => Payloads'
<1> SUFFICES ASSUME Payloads, [Next]_vars PROVE Payloads'
  OBVIOUS
<1>1. CASE InjectDone
  BY <1>1 DEF Payloads, InjectDone, goroutine, chans, line
<1>2. CASE UNCHANGED vars
  BY <1>2 DEF Payloads, vars, goroutine, chans, line
<1>3. QED
  BY <1>1, <1>2, TypePayloads, SendPayloads, InjectPayloads, StepPayloads
  DEF Next, Loop

(* The payloads keep their types, in the channel, in the queue and in the  *)
(* register of the handler.                                                *)
THEOREM PayloadsCorrect == Spec => []Payloads
  BY PayloadsInit, PayloadsKept, PTL DEF Spec

-----------------------------------------------------------------------------
(* What a step of the whole does to the FIFO is a step of KeyFifo or none. *)
LEMMA StepMaps == Payloads /\ [Next]_vars => [F!Next]_F!vars
<1> SUFFICES ASSUME Payloads, [Next]_vars PROVE [F!Next]_F!vars
  OBVIOUS
<1>1. CASE HandlerEnd
  <2>1. CASE Fifo!AppendToFifo(IF current = Invalid THEN Question ELSE current)
    <3>1. current \in Codes \cup {Invalid}
      BY <1>1 DEF Payloads, Payload, HandlerEnd
    <3>2. (IF current = Invalid THEN Question ELSE current) \in Codes
      BY <3>1 DEF Codes
    <3>3. F!AppendToFifo(IF current = Invalid THEN Question ELSE current)
      BY <2>1 DEF Fifo!AppendToFifo, F!AppendToFifo, Fifo!Overflow, F!Overflow,
                  Fifo!Reset, F!Reset, Fifo!rd, F!rd, Fifo!wr, F!wr,
                  Fifo!RdPtr, F!RdPtr, Fifo!WrPtr, F!WrPtr
    <3>4. QED
      BY <3>2, <3>3 DEF F!Next
  <2>2. CASE UNCHANGED fifo
    BY <2>2 DEF fifo, F!vars
  <2>3. QED
    BY <1>1, <2>1, <2>2 DEF HandlerEnd
<1>2. CASE Program
  BY <1>2 DEF Program, F!Next, F!GetKeyPressed,
     Fifo!LoadRd, F!LoadRd, Fifo!LoadWr, F!LoadWr, Fifo!LoadKey, F!LoadKey,
     Fifo!StoreRd, F!StoreRd, Fifo!rd, F!rd, Fifo!wr, F!wr,
     Fifo!RdPtr, F!RdPtr, Fifo!WrPtr, F!WrPtr
<1>3. CASE UNCHANGED fifo
  BY <1>3 DEF fifo, F!vars
<1>4. [Next]_vars => HandlerEnd \/ Program \/ UNCHANGED fifo
  BY DEF Next, Loop, Type, Send, Inject, InjectDone, Step, Boot, TakeIrq, vars
<1>5. QED
  BY <1>1, <1>2, <1>3, <1>4

(* The boot loader's FIFO, as VMRun drives it, behaves as KeyFifo says.    *)
THEOREM ImplementsFifo == Spec => F!Spec
<1>1. Init => F!Init
  BY DEF Init, Fifo!Init, F!Init
<1>2. QED
  BY <1>1, StepMaps, PayloadsCorrect, PTL DEF Spec, F!Spec

LEMMA FifoAssumptions ==
  /\ F!KeysAssumption
  /\ F!ConfigAssumption
  /\ F!SizeAssumption
  /\ F!BoundAssumption
  BY CodesAssumption, FifoAssumption
  DEF F!KeysAssumption, F!ConfigAssumption, F!SizeAssumption, F!BoundAssumption

(* No code that the handler appended is lost, doubled or reordered on the  *)
(* way to the decoder, as long as no old read pointer is used.             *)
THEOREM CodesConserved == Spec => []F!Conservation
  BY ImplementsFifo, F!ConservedUnlessTorn, FifoAssumptions, PTL

-----------------------------------------------------------------------------
(* The types of what is neither a payload nor part of the FIFO.            *)
OwnTypes ==
  /\ typed \in Seq(Events) /\ Len(typed) <= MaxTyped
  /\ Len(irqChan) <= ChanCap
  /\ closeChan \in BOOLEAN
  /\ loop \in {"inject", "step", "returned"}
  /\ enabled \in BOOLEAN /\ serving \in BOOLEAN /\ Len(waiting) <= QueueCap
  /\ release \in BOOLEAN /\ shift \in BOOLEAN
  /\ strokes \in Seq([key : F!Words, shift : BOOLEAN])
  /\ lostAt \in 0 .. Len(typed)

LEMMA OwnInit == Init => OwnTypes
<1> SUFFICES ASSUME Init PROVE OwnTypes
  OBVIOUS
<1>1. typed = <<>> /\ irqChan = <<>> /\ waiting = <<>> /\ strokes = <<>> /\ lostAt = 0
  BY DEF Init, Line!Init
<1>2. /\ typed \in Seq(Events) /\ Len(typed) = 0 /\ lostAt \in 0 .. Len(typed)
      /\ Len(irqChan) = 0 /\ Len(waiting) = 0
  BY <1>1
<1>3. strokes \in Seq([key : F!Words, shift : BOOLEAN])
  BY <1>1
<1>4. /\ closeChan = FALSE /\ loop = "inject" /\ enabled = FALSE
      /\ serving = FALSE /\ release = FALSE /\ shift = FALSE
  BY DEF Init, Line!Init
<1>5. Len(typed) <= MaxTyped /\ Len(irqChan) <= ChanCap /\ Len(waiting) <= QueueCap
  BY <1>2, CapAssumption
<1>6. QED
  BY <1>2, <1>3, <1>4, <1>5 DEF OwnTypes

LEMMA OwnType == \A e \in Events : OwnTypes /\ Type(e) => OwnTypes'
<1> SUFFICES ASSUME NEW e \in Events, OwnTypes, Type(e) PROVE OwnTypes'
  OBVIOUS
<1>1. typed' = Append(typed, e) /\ Len(typed) < MaxTyped /\ lostAt' = lostAt
  BY DEF Type
<1>2. typed \in Seq(Events) /\ lostAt \in 0 .. Len(typed)
  BY DEF OwnTypes
<1>3. typed' \in Seq(Events) /\ Len(typed') = Len(typed) + 1
  BY <1>1, <1>2
<1>4. Len(typed') <= MaxTyped /\ lostAt' \in 0 .. Len(typed')
  BY <1>1, <1>2, <1>3, CapAssumption
<1>5. QED
  BY <1>3, <1>4 DEF OwnTypes, Type, chans, line, decoder

LEMMA OwnSend == Payloads /\ OwnTypes /\ Send => OwnTypes'
<1> SUFFICES ASSUME Payloads, OwnTypes, Send PROVE OwnTypes'
  OBVIOUS
<1>1. Len(irqChan') <= ChanCap /\ closeChan' \in BOOLEAN
  <2>1. CASE Head(sending) = Quit
    BY <2>1 DEF Send, OwnTypes
  <2>2. CASE Head(sending) # Quit
    <3>1. /\ irqChan' = Append(irqChan, Head(sending))
          /\ Len(irqChan) < ChanCap /\ closeChan' = closeChan
      BY <2>2 DEF Send
    <3>2. Len(irqChan') = Len(irqChan) + 1 /\ Len(irqChan) \in Nat
      BY <3>1 DEF Payloads
    <3>3. QED
      BY <3>1, <3>2, CapAssumption DEF OwnTypes
  <2>3. QED
    BY <2>1, <2>2
<1>2. QED
  BY <1>1 DEF OwnTypes, Send, line, decoder

LEMMA OwnInject == Payloads /\ OwnTypes /\ Inject => OwnTypes'
<1> SUFFICES ASSUME Payloads, OwnTypes, Inject PROVE OwnTypes'
  OBVIOUS
<1>1. Len(irqChan') <= ChanCap
  <2>1. irqChan \in Seq(Payload) /\ irqChan # <<>> /\ irqChan' = Tail(irqChan)
    BY DEF Payloads, Inject
  <2>2. Len(irqChan') = Len(irqChan) - 1 /\ Len(irqChan) \in Nat
    BY <2>1
  <2>3. QED
    BY <2>2, CapAssumption DEF OwnTypes
<1>2. CASE Line!Raise(Head(irqChan)) /\ UNCHANGED lostAt
  <2>1. /\ waiting' = Append(waiting, Head(irqChan)) /\ Len(waiting) < QueueCap
        /\ UNCHANGED <<enabled, serving, lostAt>>
    BY <1>2 DEF Line!Raise
  <2>2. Len(waiting') = Len(waiting) + 1 /\ Len(waiting) \in Nat
    BY <2>1 DEF Payloads
  <2>3. Len(waiting') <= QueueCap
    BY <2>1, <2>2, CapAssumption
  <2>4. QED
    BY <1>1, <2>1, <2>3 DEF OwnTypes, Inject, goroutine, decoder
<1>3. CASE lostAt' = Len(typed) /\ UNCHANGED line
  <2>1. typed' = typed /\ lostAt' \in 0 .. Len(typed')
    BY <1>3 DEF OwnTypes, Inject, goroutine
  <2>2. QED
    BY <1>1, <1>3, <2>1 DEF OwnTypes, Inject, goroutine, line, decoder
<1>4. QED
  BY <1>2, <1>3 DEF Inject

(* What a step of the machine does to the line and to the books.           *)
LEMMA OwnStep == Payloads /\ F!TypeOK /\ OwnTypes /\ Step => OwnTypes'
<1> SUFFICES ASSUME Payloads, F!TypeOK, OwnTypes, Step PROVE OwnTypes'
  OBVIOUS
<1>1. UNCHANGED <<typed, irqChan, closeChan>>
  BY DEF Step, goroutine, chans
<1>2. loop' \in {"inject", "step", "returned"}
  BY DEF Step
<1>3. /\ enabled' \in BOOLEAN /\ serving' \in BOOLEAN
      /\ waiting' = Line!Left \/ waiting' = <<>>
  BY DEF Step, Boot, TakeIrq, HandlerEnd, Program, OwnTypes,
         Line!Enable, Line!Work, Line!Done, Line!Served, Line!Due
<1>4. Len(waiting') <= QueueCap
  <2>1. Len(<<>>) = 0
    OBVIOUS
  <2>2. Len(Line!Left) <= QueueCap
    <3>1. CASE Line!Due
      <4>1. waiting \in Seq(Payload) /\ waiting # <<>> /\ Line!Left = Tail(waiting)
        BY <3>1 DEF Payloads, Line!Due, Line!Left
      <4>2. Len(Tail(waiting)) = Len(waiting) - 1 /\ Len(waiting) \in Nat
        BY <4>1
      <4>3. QED
        BY <4>1, <4>2, CapAssumption DEF OwnTypes
    <3>2. CASE ~Line!Due
      BY <3>2 DEF OwnTypes, Line!Left
    <3>3. QED
      BY <3>1, <3>2
  <2>3. QED
    BY <1>3, <2>1, <2>2, CapAssumption
<1>5. lostAt' \in 0 .. Len(typed')
  <2>1. lostAt' = lostAt \/ lostAt' = Len(typed)
    BY DEF Step, Boot, TakeIrq, HandlerEnd, Program
  <2>2. typed \in Seq(Events) /\ lostAt \in 0 .. Len(typed)
    BY DEF OwnTypes
  <2>3. QED
    BY <1>1, <2>1, <2>2
<1>6. /\ release' \in BOOLEAN /\ shift' \in BOOLEAN
      /\ strokes' \in Seq([key : F!Words, shift : BOOLEAN])
  <2>1. CASE UNCHANGED decoder
    BY <2>1 DEF OwnTypes, decoder
  <2>2. CASE Decode(A)
    <3>1. release' \in BOOLEAN /\ shift' \in BOOLEAN
      BY <2>2 DEF OwnTypes, Decode
    <3>2. A \in F!Words /\ shift \in BOOLEAN
      BY DEF F!TypeOK, OwnTypes
    <3>3. strokes \in Seq([key : F!Words, shift : BOOLEAN])
      BY DEF OwnTypes
    <3>4. [key |-> A, shift |-> shift] \in [key : F!Words, shift : BOOLEAN]
      BY <3>2
    <3>5. Append(strokes, [key |-> A, shift |-> shift])
             \in Seq([key : F!Words, shift : BOOLEAN])
      BY <3>3, <3>4
    <3>6. QED
      BY <2>2, <3>1, <3>3, <3>5 DEF Decode, Returned
  <2>3. QED
    BY <2>1, <2>2 DEF Step, Boot, TakeIrq, HandlerEnd, Program
<1>7. QED
  BY <1>1, <1>2, <1>3, <1>4, <1>5, <1>6 DEF OwnTypes

LEMMA OwnKept == Payloads /\ F!TypeOK /\ OwnTypes /\ [Next]_vars => OwnTypes'
<1> SUFFICES ASSUME Payloads, F!TypeOK, OwnTypes, [Next]_vars PROVE OwnTypes'
  OBVIOUS
<1>1. CASE InjectDone
  BY <1>1 DEF OwnTypes, InjectDone, goroutine, chans, line, decoder
<1>2. CASE UNCHANGED vars
  BY <1>2 DEF OwnTypes, vars, goroutine, chans, line, decoder
<1>3. QED
  BY <1>1, <1>2, OwnType, OwnSend, OwnInject, OwnStep DEF Next, Loop

(* Type correctness of the whole path, for channels, queue and FIFO of any *)
(* size.                                                                   *)
THEOREM TypeCorrect == Spec => []TypeOK
<1>1. Spec => []F!TypeOK
  BY ImplementsFifo, F!TypeCorrect, FifoAssumptions, PTL
<1>2. Spec => []OwnTypes
  BY <1>1, OwnInit, OwnKept, PayloadsCorrect, PTL DEF Spec
<1>3. Payloads /\ F!TypeOK /\ OwnTypes => TypeOK
  <2> SUFFICES ASSUME Payloads, F!TypeOK, OwnTypes PROVE TypeOK
    OBVIOUS
  <2>1. Fifo!TypeOK
    BY DEF F!TypeOK, Fifo!TypeOK, F!wr, Fifo!wr, F!WrPtr, Fifo!WrPtr,
           F!Words, Fifo!Words
  <2>2. Line!TypeOK
    BY DEF Payloads, OwnTypes, Payload, Line!TypeOK
  <2>3. /\ sending \in Seq(Codes \cup {Invalid, Quit})
        /\ irqChan \in Seq(Codes \cup {Invalid})
    <3>1. Payload \cup {Quit} = Codes \cup {Invalid, Quit}
      BY DEF Payload
    <3>2. QED
      BY <3>1 DEF Payloads, Payload
  <2>4. strokes \in Seq([key : Fifo!Words, shift : BOOLEAN])
    BY DEF OwnTypes, F!Words, Fifo!Words
  <2>5. QED
    BY <2>1, <2>2, <2>3, <2>4 DEF OwnTypes, TypeOK
<1>4. QED
  BY <1>1, <1>2, <1>3, PayloadsCorrect, PTL

-----------------------------------------------------------------------------
(* The strokes.  A code on its way is the at-th of the event ev of the     *)
(* terminal, Ctrl-C apart: shift, the key, its break and the key again, or *)
(* just an unknown key, and then the break of shift.                       *)
Read(c) == IF c = Invalid THEN Question ELSE c

Pre(e)  == IF e.shifted THEN 1 ELSE 0
Mid(e)  == IF e.key = Invalid THEN 1 ELSE 3
Size(e) == IF e.shifted THEN Mid(e) + 3 ELSE Mid(e)

Code(e, j) ==
  IF j <= Pre(e) \/ j = Pre(e) + Mid(e) + 2 THEN Shift
  ELSE IF j = Pre(e) + Mid(e) + 1 \/ (j = Pre(e) + 2 /\ e.key # Invalid) THEN Break
  ELSE Stroke(e).key

Shown(s) == IF s # <<>> /\ Head(s) = Quit THEN Tail(s) ELSE s

(* What is known of an event.                                              *)
LEMMA EventParts ==
  ASSUME NEW e \in Events
  PROVE  /\ e.key \in Plain \cup {Invalid} /\ e.shifted \in BOOLEAN /\ e.quit \in BOOLEAN
         /\ e.quit => e.key = Invalid /\ ~e.shifted
         /\ Stroke(e).key \in Codes \ {Shift, Break}
         /\ e.key = Invalid => Stroke(e).key = Question
         /\ e.key # Invalid => Stroke(e).key = e.key /\ e.key \in Codes /\ e.key # Quit
<1>1. CASE e \in [key : Plain \cup {Invalid}, shifted : BOOLEAN, quit : {FALSE}]
  <2>1. e.key \in Plain \cup {Invalid} /\ e.shifted \in BOOLEAN /\ e.quit = FALSE
    BY <1>1
  <2>2. Stroke(e).key = IF e.key = Invalid THEN Question ELSE e.key
    BY DEF Stroke
  <2> QED
    BY <2>1, <2>2, CodesAssumption, PayloadAssumption DEF Codes
<1>2. CASE e = [key |-> Invalid, shifted |-> FALSE, quit |-> TRUE]
  <2>1. e.key = Invalid /\ e.shifted = FALSE /\ e.quit = TRUE
    BY <1>2
  <2>2. Stroke(e).key = Question
    BY <2>1 DEF Stroke
  <2> QED
    BY <2>1, <2>2, CodesAssumption DEF Codes
<1> QED
  BY <1>1, <1>2 DEF Events

(* Which code is which.                                                    *)
LEMMA CodeShape ==
  ASSUME NEW e \in Events
  PROVE  /\ Size(e) \in Nat \ {0} /\ Pre(e) \in 0 .. 1 /\ Pre(e) < Size(e)
         /\ \A j \in 1 .. Size(e) : Code(e, j) \in Codes
         /\ Code(e, Size(e)) # Break
         /\ e.shifted => /\ Size(e) >= 4 /\ Pre(e) = 1
                         /\ Code(e, 1) = Shift /\ Code(e, Size(e)) = Shift
                         /\ Code(e, Size(e) - 1) = Break
                         /\ \A j \in 2 .. Size(e) - 1 : Code(e, j) # Shift
         /\ ~e.shifted => Pre(e) = 0 /\ \A j \in 1 .. Size(e) : Code(e, j) # Shift
         /\ \A j \in 1 .. Size(e) :
               /\ j = Pre(e) + 1 => Code(e, j) = Stroke(e).key
               /\ j <= Pre(e) => Code(e, j) = Shift
               /\ j > Pre(e) + 1 /\ Code(e, j) \notin {Shift, Break} =>
                    Code(e, j - 1) = Break
<1>1. /\ e.shifted \in BOOLEAN /\ Stroke(e).key \in Codes \ {Shift, Break}
  BY EventParts
<1>2. Shift # Break /\ Shift \in Codes /\ Break \in Codes
  BY CodesAssumption DEF Codes
<1>3. CASE e.shifted /\ e.key = Invalid
  <2>1. Pre(e) = 1 /\ Mid(e) = 1 /\ Size(e) = 4
    BY <1>3 DEF Pre, Mid, Size
  <2>2. Code(e, 1) = Shift /\ Code(e, 2) = Stroke(e).key /\ Code(e, 3) = Break /\ Code(e, 4) = Shift
    BY <1>3, <2>1 DEF Code
  <2>3. \A j \in 1 .. 4 : j \in {1, 2, 3, 4}
    OBVIOUS
  <2> QED
    BY <1>1, <1>2, <1>3, <2>1, <2>2, <2>3
<1>4. CASE e.shifted /\ e.key # Invalid
  <2>1. Pre(e) = 1 /\ Mid(e) = 3 /\ Size(e) = 6
    BY <1>4 DEF Pre, Mid, Size
  <2>2. /\ Code(e, 1) = Shift /\ Code(e, 2) = Stroke(e).key /\ Code(e, 3) = Break
        /\ Code(e, 4) = Stroke(e).key /\ Code(e, 5) = Break /\ Code(e, 6) = Shift
    BY <1>4, <2>1 DEF Code
  <2>3. \A j \in 1 .. 6 : j \in {1, 2, 3, 4, 5, 6}
    OBVIOUS
  <2> QED
    BY <1>1, <1>2, <1>4, <2>1, <2>2, <2>3
<1>5. CASE ~e.shifted /\ e.key = Invalid
  <2>1. Pre(e) = 0 /\ Mid(e) = 1 /\ Size(e) = 1
    BY <1>5 DEF Pre, Mid, Size
  <2>2. Code(e, 1) = Stroke(e).key
    BY <1>5, <2>1 DEF Code
  <2>3. \A j \in 1 .. 1 : j = 1
    OBVIOUS
  <2> QED
    BY <1>1, <1>2, <1>5, <2>1, <2>2, <2>3
<1>6. CASE ~e.shifted /\ e.key # Invalid
  <2>1. Pre(e) = 0 /\ Mid(e) = 3 /\ Size(e) = 3
    BY <1>6 DEF Pre, Mid, Size
  <2>2. Code(e, 1) = Stroke(e).key /\ Code(e, 2) = Break /\ Code(e, 3) = Stroke(e).key
    BY <1>6, <2>1 DEF Code
  <2>3. \A j \in 1 .. 3 : j \in {1, 2, 3}
    OBVIOUS
  <2> QED
    BY <1>1, <1>2, <1>6, <2>1, <2>2, <2>3
<1> QED
  BY <1>3, <1>4, <1>5, <1>6

(* Ctrl-C is followed by one code.                                         *)
LEMMA PairParts ==
  ASSUME NEW P, NEW a, NEW b \in P
  PROVE  LET s == <<a>> \o <<b>>
         IN /\ s # <<>> /\ Head(s) = a
            /\ Tail(s) \in Seq(P) /\ Len(Tail(s)) = 1 /\ Tail(s)[1] = b
<1> DEFINE R == P \cup {a}
           s == <<a>> \o <<b>>
<1>1. <<a>> \in Seq(R) /\ <<b>> \in Seq(R) /\ Len(<<a>>) = 1 /\ Len(<<b>>) = 1
  OBVIOUS
<1>2. s \in Seq(R) /\ Len(s) = 2 /\ s[1] = a /\ s[2] = b
  BY <1>1
<1> HIDE DEF s, R
<1>3. s # <<>> /\ Head(s) = a
  BY <1>2
<1> DEFINE t == Tail(s)
<1>4. t \in Seq(R) /\ Len(t) = 1 /\ t[1] = b
  BY <1>2, <1>3
<1> HIDE DEF t
<1>5. t \in Seq(P)
  <2>1. t \in [1 .. 1 -> R] /\ \A k \in 1 .. 1 : t[k] \in P
    BY <1>4
  <2>2. t \in [1 .. 1 -> P]
    BY <2>1
  <2> QED
    BY <2>2, SeqDef
<1> QED
  BY <1>3, <1>4, <1>5 DEF s, t

(* The codes the goroutine sends are those.                                *)
LEMMA SentCodes ==
  ASSUME NEW e \in Events
  PROVE  LET s == Shown(Sent(e))
         IN /\ s \in Seq(Payload) /\ Len(s) = Size(e)
            /\ \A j \in 1 .. Size(e) : Read(s[j]) = Code(e, j)
<1> DEFINE K == e.key
<1>1. /\ e.shifted \in BOOLEAN /\ e.quit \in BOOLEAN
      /\ e.quit => K = Invalid /\ ~e.shifted
      /\ K = Invalid => Stroke(e).key = Question
      /\ K # Invalid => Stroke(e).key = K /\ K \in Codes /\ K # Quit
      /\ K \in Payload
  BY EventParts DEF Payload, Codes
<1>2. /\ Shift # Quit /\ Invalid # Quit /\ Shift # Invalid /\ Break # Invalid
      /\ Shift \in Payload /\ Break \in Payload /\ Invalid \in Payload
  BY PayloadAssumption DEF Codes, Payload
<1>3. CASE e.quit
  <2>1. Sent(e) = <<Quit>> \o <<Invalid>>
    BY <1>1, <1>3 DEF Sent
  <2>2. /\ Sent(e) # <<>> /\ Head(Sent(e)) = Quit
        /\ Tail(Sent(e)) \in Seq(Payload) /\ Len(Tail(Sent(e))) = 1
        /\ Tail(Sent(e))[1] = Invalid
    <3>1. LET s == <<Quit>> \o <<Invalid>>
          IN /\ s # <<>> /\ Head(s) = Quit
             /\ Tail(s) \in Seq(Payload) /\ Len(Tail(s)) = 1 /\ Tail(s)[1] = Invalid
      BY <1>2, PairParts, Zenon
    <3> QED
      BY <2>1, <3>1
  <2>4. /\ Shown(Sent(e)) \in Seq(Payload) /\ Len(Shown(Sent(e))) = 1
        /\ Shown(Sent(e))[1] = Invalid
    BY <2>2 DEF Shown
  <2>5. Size(e) = 1 /\ Code(e, 1) = Question
    BY <1>1, <1>3 DEF Size, Mid, Code, Pre
  <2> QED
    BY <2>4, <2>5 DEF Read
<1>4. CASE ~e.quit /\ e.shifted /\ K = Invalid
  <2>1. Sent(e) = <<>> \o (<<Shift>> \o <<Invalid>> \o <<Break, Shift>>)
    BY <1>4 DEF Sent
  <2>2. /\ Sent(e) \in Seq(Payload) /\ Len(Sent(e)) = 4
        /\ Sent(e)[1] = Shift /\ Sent(e)[2] = Invalid
        /\ Sent(e)[3] = Break /\ Sent(e)[4] = Shift
    BY <1>2, <2>1
  <2>3. Shown(Sent(e)) = Sent(e)
    BY <1>2, <2>2 DEF Shown
  <2>4. /\ Size(e) = 4 /\ Code(e, 1) = Shift /\ Code(e, 2) = Question
        /\ Code(e, 3) = Break /\ Code(e, 4) = Shift
    BY <1>1, <1>4 DEF Size, Mid, Code, Pre
  <2>5. \A j \in 1 .. 4 : j \in {1, 2, 3, 4}
    OBVIOUS
  <2> QED
    BY <1>2, <2>2, <2>3, <2>4, <2>5 DEF Read
<1>5. CASE ~e.quit /\ e.shifted /\ K # Invalid
  <2>1. Sent(e) = <<>> \o (<<Shift>> \o <<K, Break, K>> \o <<Break, Shift>>)
    BY <1>5 DEF Sent
  <2>2. /\ Sent(e) \in Seq(Payload) /\ Len(Sent(e)) = 6
        /\ Sent(e)[1] = Shift /\ Sent(e)[2] = K /\ Sent(e)[3] = Break
        /\ Sent(e)[4] = K /\ Sent(e)[5] = Break /\ Sent(e)[6] = Shift
    BY <1>1, <1>2, <2>1
  <2>3. Shown(Sent(e)) = Sent(e)
    BY <1>2, <2>2 DEF Shown
  <2>4. /\ Size(e) = 6 /\ Code(e, 1) = Shift /\ Code(e, 2) = K /\ Code(e, 3) = Break
        /\ Code(e, 4) = K /\ Code(e, 5) = Break /\ Code(e, 6) = Shift
    BY <1>1, <1>5 DEF Size, Mid, Code, Pre
  <2>5. \A j \in 1 .. 6 : j \in {1, 2, 3, 4, 5, 6}
    OBVIOUS
  <2> QED
    BY <1>2, <1>5, <2>2, <2>3, <2>4, <2>5 DEF Read
<1>6. CASE ~e.quit /\ ~e.shifted /\ K = Invalid
  <2>1. Sent(e) = <<>> \o <<Invalid>>
    BY <1>6 DEF Sent
  <2>2. Sent(e) \in Seq(Payload) /\ Len(Sent(e)) = 1 /\ Sent(e)[1] = Invalid
    BY <1>2, <2>1
  <2>3. Shown(Sent(e)) = Sent(e)
    BY <1>2, <2>2 DEF Shown
  <2>4. Size(e) = 1 /\ Code(e, 1) = Question
    BY <1>1, <1>6 DEF Size, Mid, Code, Pre
  <2> QED
    BY <2>2, <2>3, <2>4 DEF Read
<1>7. CASE ~e.quit /\ ~e.shifted /\ K # Invalid
  <2>1. Sent(e) = <<>> \o <<K, Break, K>>
    BY <1>7 DEF Sent
  <2>2. /\ Sent(e) \in Seq(Payload) /\ Len(Sent(e)) = 3
        /\ Sent(e)[1] = K /\ Sent(e)[2] = Break /\ Sent(e)[3] = K
    BY <1>1, <1>2, <2>1
  <2>3. Shown(Sent(e)) = Sent(e)
    BY <1>1, <1>7, <2>2 DEF Shown
  <2>4. Size(e) = 3 /\ Code(e, 1) = K /\ Code(e, 2) = Break /\ Code(e, 3) = K
    BY <1>1, <1>7 DEF Size, Mid, Code, Pre
  <2>5. \A j \in 1 .. 3 : j \in {1, 2, 3}
    OBVIOUS
  <2> QED
    BY <1>2, <1>7, <2>2, <2>3, <2>4, <2>5 DEF Read
<1> QED
  BY <1>1, <1>3, <1>4, <1>5, <1>6, <1>7

-----------------------------------------------------------------------------
(* What is on its way, as the handler or the program will read it: keys    *)
(* appended and not taken, the one in service, the queue, the channel, and *)
(* what is still to be sent.                                               *)
Pend == [k \in 1 .. Len(accepted) - Len(delivered) |-> accepted[Len(delivered) + k]]
Cur  == IF serving THEN <<current>> ELSE <<>>
Way  == Pend \o (Cur \o (waiting \o (irqChan \o Shown(sending))))

(* A tag says which code of which event of y a payload is; the tag of the  *)
(* code last read comes before those of the codes on their way.            *)
Tags == [ev : Nat, at : Nat]

TagOK(y, t) ==
  /\ t.ev <= Len(y)
  /\ t.ev # 0 => t.at \in 1 .. Size(y[t.ev])
  /\ t.ev = 0 => t.at = 0

Ended(y, t) == t.ev = 0 \/ t.at = Size(y[t.ev])

Fits(y, t, c) == t.ev # 0 /\ TagOK(y, t) /\ Read(c) = Code(y[t.ev], t.at)

(* The code after that of s, if none is dropped between them.              *)
Follows(y, s, t) ==
  IF Ended(y, s) THEN t.ev = s.ev + 1 /\ t.at = 1
                 ELSE t.ev = s.ev /\ t.at = s.at + 1

(* The codes of the events after the first l are complete.                 *)
InOrder(y, l, T) ==
  \A k \in 1 .. Len(T) - 1 :
     T[k + 1].ev > l =>
       IF T[k].ev > l THEN Follows(y, T[k], T[k + 1])
                      ELSE T[k + 1].ev = l + 1 /\ T[k + 1].at = 1

UpToDate(y, l, T) ==
  Len(y) > l => T[Len(T)].ev = Len(y) /\ Ended(y, T[Len(T)])

Tagged(y, l, T, w) ==
  /\ T \in Seq(Tags) /\ Len(T) = Len(w) + 1
  /\ TagOK(y, T[1])
  /\ \A k \in 1 .. Len(w) : Fits(y, T[k + 1], w[k])
  /\ InOrder(y, l, T)
  /\ UpToDate(y, l, T)

(* What the decoder holds after code d: a shift it has seen since the last *)
(* loss, and as many strokes as have shown their key.                      *)
Awaits(y, d) == d.ev # 0 /\ Code(y[d.ev], d.at) = Break

Should(y, d) == d.ev # 0 /\ y[d.ev].shifted /\ ~Ended(y, d)

Known(y, l, d) ==
  l = 0 \/ \E i \in l + 1 .. d.ev : y[i].shifted /\ (i < d.ev \/ Ended(y, d))

Count(y, d) == IF d.ev # 0 /\ d.at <= Pre(y[d.ev]) THEN d.ev - 1 ELSE d.ev

Decoded(y, l, d, rel, sh, st) ==
  /\ rel = Awaits(y, d)
  /\ Known(y, l, d) => sh = Should(y, d)
  /\ l = 0 => /\ Len(st) = Count(y, d)
              /\ \A i \in 1 .. Len(st) : st[i] = Stroke(y[i])

-----------------------------------------------------------------------------
(* Changes of the way: the codes move on, or one is taken from it.         *)
Same(s, t) ==
  /\ s \in Seq(Payload) /\ t \in Seq(Payload)
  /\ Len(s) = Len(t)
  /\ \A k \in 1 .. Len(s) : Read(s[k]) = Read(t[k])

Cut(s, t, i) ==
  /\ s \in Seq(Payload) /\ t \in Seq(Payload)
  /\ i \in 1 .. Len(s) /\ Len(t) = Len(s) - 1
  /\ \A k \in 1 .. Len(t) : t[k] = s[IF k < i THEN k ELSE k + 1]

LEMMA SameRefl == ASSUME NEW s \in Seq(Payload) PROVE Same(s, s)
  BY DEF Same

LEMMA SameAfter ==
  ASSUME NEW r \in Seq(Payload), NEW s, NEW t, Same(s, t)
  PROVE  Same(r \o s, r \o t)
<1> DEFINE a == r \o s
           b == r \o t
<1>1. /\ s \in Seq(Payload) /\ t \in Seq(Payload) /\ Len(s) = Len(t)
      /\ \A k \in 1 .. Len(s) : Read(s[k]) = Read(t[k])
  BY DEF Same
<1>2. /\ a \in Seq(Payload) /\ Len(a) = Len(r) + Len(s)
      /\ \A k \in 1 .. Len(r) + Len(s) :
            a[k] = IF k <= Len(r) THEN r[k] ELSE s[k - Len(r)]
  BY <1>1, ConcatProperties
<1>3. /\ b \in Seq(Payload) /\ Len(b) = Len(r) + Len(t)
      /\ \A k \in 1 .. Len(r) + Len(t) :
            b[k] = IF k <= Len(r) THEN r[k] ELSE t[k - Len(r)]
  BY <1>1, ConcatProperties
<1>4. Len(r) \in Nat /\ Len(s) \in Nat
  BY <1>1, LenProperties
<1> HIDE DEF a, b
<1>5. ASSUME NEW k \in 1 .. Len(a) PROVE Read(a[k]) = Read(b[k])
  <2>1. CASE k <= Len(r)
    BY <1>1, <1>2, <1>3, <1>4, <2>1
  <2>2. CASE k > Len(r)
    <3>1. k - Len(r) \in 1 .. Len(s)
      BY <1>2, <1>4, <2>2
    <3>2. a[k] = s[k - Len(r)] /\ b[k] = t[k - Len(r)]
      BY <1>1, <1>2, <1>3, <1>4, <2>2
    <3> QED
      BY <1>1, <3>1, <3>2
  <2>3. k <= Len(r) \/ k > Len(r)
    BY <1>2, <1>4
  <2> QED
    BY <2>1, <2>2, <2>3
<1> QED
  BY <1>1, <1>2, <1>3, <1>5 DEF Same, a, b

LEMMA CutAfter ==
  ASSUME NEW r \in Seq(Payload), NEW s, NEW t, NEW i, Cut(s, t, i)
  PROVE  Cut(r \o s, r \o t, Len(r) + i)
<1> DEFINE a == r \o s
           b == r \o t
           n == Len(r) + i
<1>1. /\ s \in Seq(Payload) /\ t \in Seq(Payload)
      /\ i \in 1 .. Len(s) /\ Len(t) = Len(s) - 1
      /\ \A k \in 1 .. Len(t) : t[k] = s[IF k < i THEN k ELSE k + 1]
  BY DEF Cut
<1>2. /\ a \in Seq(Payload) /\ Len(a) = Len(r) + Len(s)
      /\ \A k \in 1 .. Len(r) + Len(s) :
            a[k] = IF k <= Len(r) THEN r[k] ELSE s[k - Len(r)]
  BY <1>1, ConcatProperties
<1>3. /\ b \in Seq(Payload) /\ Len(b) = Len(r) + Len(t)
      /\ \A k \in 1 .. Len(r) + Len(t) :
            b[k] = IF k <= Len(r) THEN r[k] ELSE t[k - Len(r)]
  BY <1>1, ConcatProperties
<1>4. Len(r) \in Nat /\ Len(s) \in Nat
  BY <1>1, LenProperties
<1> HIDE DEF a, b
<1>5. ASSUME NEW k \in 1 .. Len(b)
      PROVE  b[k] = a[IF k < n THEN k ELSE k + 1]
  <2>1. CASE k <= Len(r)
    BY <1>1, <1>2, <1>3, <1>4, <2>1
  <2>2. CASE k > Len(r)
    <3> DEFINE j == k - Len(r)
    <3>1. j \in 1 .. Len(t) /\ b[k] = t[j]
      <4>1. j \in 1 .. Len(t) /\ ~(k <= Len(r))
        BY <1>1, <1>3, <1>4, <2>2
      <4> QED
        BY <1>3, <4>1
    <3>2. t[j] = s[IF j < i THEN j ELSE j + 1]
      BY <1>1, <3>1
    <3>3. CASE j < i
      <4>1. a[k] = s[j] /\ k < n
        BY <1>1, <1>2, <1>3, <1>4, <2>2, <3>3
      <4> HIDE DEF j, n
      <4> QED
        BY <3>1, <3>2, <3>3, <4>1
    <3>4. CASE ~(j < i)
      <4>1. a[k + 1] = s[j + 1] /\ ~(k < n)
        <5>1. k + 1 \in 1 .. Len(r) + Len(s) /\ ~(k + 1 <= Len(r))
          BY <1>1, <1>3, <1>4, <2>2
        <5>2. a[k + 1] = s[(k + 1) - Len(r)]
          BY <1>2, <5>1
        <5>3. (k + 1) - Len(r) = j + 1 /\ ~(k < n)
          BY <1>1, <1>3, <1>4, <3>4
        <5> QED
          BY <5>2, <5>3
      <4> HIDE DEF j, n
      <4> QED
        BY <3>1, <3>2, <3>4, <4>1
    <3> QED
      BY <3>3, <3>4
  <2>3. k <= Len(r) \/ k > Len(r)
    BY <1>1, <1>3, <1>4
  <2> HIDE DEF n
  <2> QED
    BY <2>1, <2>2, <2>3
<1>6. n \in 1 .. Len(a) /\ Len(b) = Len(a) - 1
  BY <1>1, <1>2, <1>3, <1>4
<1> QED
  BY <1>2, <1>3, <1>5, <1>6 DEF Cut, a, b, n

LEMMA CutHead ==
  ASSUME NEW s \in Seq(Payload), s # <<>>
  PROVE  Cut(s, Tail(s), 1)
<1>1. /\ Tail(s) \in Seq(Payload) /\ Len(Tail(s)) = Len(s) - 1 /\ Len(s) \in Nat \ {0}
      /\ \A k \in 1 .. Len(Tail(s)) : Tail(s)[k] = s[k + 1]
  BY HeadTailProperties, EmptySeq
<1> QED
  BY <1>1 DEF Cut

LEMMA CutBefore ==
  ASSUME NEW s \in Seq(Payload), s # <<>>, NEW t \in Seq(Payload)
  PROVE  Cut(s \o t, Tail(s) \o t, 1) /\ (s \o t)[1] = Head(s)
<1> DEFINE u == s \o t
           v == Tail(s) \o t
<1>1. /\ Tail(s) \in Seq(Payload) /\ Len(Tail(s)) = Len(s) - 1 /\ Len(s) \in Nat \ {0}
      /\ \A k \in 1 .. Len(Tail(s)) : Tail(s)[k] = s[k + 1]
      /\ Head(s) = s[1]
  BY HeadTailProperties, EmptySeq
<1>2. /\ u \in Seq(Payload) /\ Len(u) = Len(s) + Len(t) /\ u[1] = Head(s)
      /\ v \in Seq(Payload) /\ Len(v) = Len(u) - 1
      /\ Len(t) \in Nat /\ Len(u) \in Nat
  BY <1>1
<1>3. \A k \in 1 .. Len(v) : v[k] = u[k + 1]
  <2> SUFFICES ASSUME NEW k \in 1 .. Len(v) PROVE v[k] = u[k + 1]
    OBVIOUS
  <2>1. CASE k <= Len(Tail(s))
    <3>1. v[k] = Tail(s)[k] /\ u[k + 1] = s[k + 1]
      BY <1>1, <1>2, <2>1
    <3> QED
      BY <1>1, <1>2, <2>1, <3>1
  <2>2. CASE k > Len(Tail(s))
    <3>1. v[k] = t[k - (Len(s) - 1)] /\ u[k + 1] = t[(k + 1) - Len(s)]
      BY <1>1, <1>2, <2>2
    <3>2. k - (Len(s) - 1) = (k + 1) - Len(s)
      BY <1>1, <1>2
    <3> QED
      BY <3>1, <3>2
  <2> QED
    BY <1>1, <1>2, <2>1, <2>2
<1> HIDE DEF u, v
<1>4. Cut(u, v, 1)
  BY <1>1, <1>2, <1>3 DEF Cut
<1> QED
  BY <1>2, <1>4 DEF u, v

(* A payload moves over to the end of r, read or unread.                   *)
LEMMA SameMove ==
  ASSUME NEW r \in Seq(Payload), NEW u, NEW v, Cut(u, v, 1),
         NEW c \in Payload, Read(c) = Read(u[1])
  PROVE  Same(r \o u, Append(r, c) \o v)
<1> DEFINE q == Append(r, c)
           a == r \o u
           b == q \o v
<1>1. /\ u \in Seq(Payload) /\ v \in Seq(Payload)
      /\ Len(u) \in Nat \ {0} /\ Len(v) = Len(u) - 1
      /\ \A k \in 1 .. Len(v) : v[k] = u[k + 1]
  BY DEF Cut
<1>2. Len(r) \in Nat
  BY LenProperties
<1>3. /\ q \in Seq(Payload) /\ Len(q) = Len(r) + 1 /\ q[Len(r) + 1] = c
      /\ \A k \in 1 .. Len(r) : q[k] = r[k]
  BY <1>2
<1> HIDE DEF q
<1>4. /\ a \in Seq(Payload) /\ Len(a) = Len(r) + Len(u)
      /\ \A k \in 1 .. Len(r) + Len(u) :
            a[k] = IF k <= Len(r) THEN r[k] ELSE u[k - Len(r)]
  BY <1>1, ConcatProperties
<1>5. /\ b \in Seq(Payload) /\ Len(b) = Len(q) + Len(v)
      /\ \A k \in 1 .. Len(q) + Len(v) :
            b[k] = IF k <= Len(q) THEN q[k] ELSE v[k - Len(q)]
  BY <1>1, <1>3, ConcatProperties
<1> HIDE DEF a, b
<1>6. Len(a) = Len(b) /\ Len(a) = Len(r) + Len(u) /\ Len(q) + Len(v) = Len(a)
  BY <1>1, <1>2, <1>3, <1>4, <1>5
<1>7. ASSUME NEW k \in 1 .. Len(a) PROVE Read(a[k]) = Read(b[k])
  <2>1. CASE k <= Len(r)
    <3>1. a[k] = r[k] /\ b[k] = q[k]
      BY <1>2, <1>3, <1>4, <1>5, <1>6, <2>1
    <3> QED
      BY <1>2, <1>3, <2>1, <3>1
  <2>2. CASE k = Len(r) + 1
    <3>1. a[k] = u[k - Len(r)] /\ k - Len(r) = 1
      BY <1>2, <1>4, <1>6, <2>2, SMTT(60)
    <3>2. b[k] = q[k]
      BY <1>2, <1>3, <1>5, <1>6, <2>2
    <3> QED
      BY <1>3, <2>2, <3>1, <3>2
  <2>3. CASE k > Len(r) + 1
    <3> DEFINE j == k - (Len(r) + 1)
    <3>1. j \in 1 .. Len(v) /\ k - Len(r) = j + 1
      BY <1>1, <1>2, <1>6, <2>3
    <3>2. a[k] = u[k - Len(r)]
      BY <1>2, <1>4, <1>6, <2>3
    <3>3. b[k] = v[j]
      BY <1>2, <1>3, <1>5, <1>6, <2>3
    <3> QED
      BY <1>1, <3>1, <3>2, <3>3
  <2>4. k <= Len(r) \/ k = Len(r) + 1 \/ k > Len(r) + 1
    BY <1>2
  <2> QED
    BY <2>1, <2>2, <2>3, <2>4
<1> QED
  BY <1>4, <1>5, <1>6, <1>7 DEF Same, a, b, q

-----------------------------------------------------------------------------
(* The tags when the codes move on.                                        *)
LEMMA TaggedParts ==
  ASSUME NEW y, NEW l, NEW T, NEW w \in Seq(Payload), Tagged(y, l, T, w)
  PROVE  /\ Len(w) \in Nat /\ Len(T) = Len(w) + 1
         /\ \A k \in 1 .. Len(T) : T[k] \in Tags /\ TagOK(y, T[k])
<1>1. T \in Seq(Tags) /\ Len(T) = Len(w) + 1 /\ Len(w) \in Nat
  BY LenProperties DEF Tagged
<1>2. ASSUME NEW k \in 1 .. Len(T) PROVE TagOK(y, T[k])
  <2>1. CASE k = 1
    BY <2>1 DEF Tagged
  <2>2. CASE k # 1
    <3>1. k - 1 \in 1 .. Len(w) /\ (k - 1) + 1 = k
      BY <1>1, <2>2
    <3>2. Fits(y, T[(k - 1) + 1], w[k - 1])
      BY <3>1 DEF Tagged
    <3> QED
      BY <3>1, <3>2 DEF Fits
  <2> QED
    BY <2>1, <2>2
<1> QED
  BY <1>1, <1>2

LEMMA TaggedSame ==
  ASSUME NEW y, NEW l, NEW T, NEW w, NEW v, Tagged(y, l, T, w), Same(w, v)
  PROVE  Tagged(y, l, T, v)
<1>1. Len(w) = Len(v) /\ \A k \in 1 .. Len(w) : Read(w[k]) = Read(v[k])
  BY DEF Same
<1>2. \A k \in 1 .. Len(v) : Fits(y, T[k + 1], v[k])
  BY <1>1 DEF Tagged, Fits
<1> QED
  BY <1>1, <1>2 DEF Tagged

(* One more event changes nothing for the codes of the others.             *)
LEMMA TagGrow ==
  ASSUME NEW y \in Seq(Events), NEW e \in Events, NEW t \in Tags, TagOK(y, t)
  PROVE  LET z == Append(y, e)
         IN /\ TagOK(z, t) /\ (Ended(z, t) <=> Ended(y, t))
            /\ (Awaits(z, t) <=> Awaits(y, t)) /\ (Should(z, t) <=> Should(y, t))
            /\ Count(z, t) = Count(y, t)
            /\ \A c : Fits(y, t, c) => Fits(z, t, c)
            /\ \A u : Follows(y, t, u) => Follows(z, t, u)
            /\ \A l \in Nat : Known(z, l, t) <=> Known(y, l, t)
<1> DEFINE z == Append(y, e)
<1>1. Len(y) \in Nat /\ Len(z) = Len(y) + 1 /\ \A i \in 1 .. Len(y) : z[i] = y[i]
  BY LenProperties
<1> HIDE DEF z
<1>2. t.ev \in 0 .. Len(y) /\ t.at \in Nat
  BY <1>1 DEF TagOK, Tags
<1>3. t.ev # 0 => z[t.ev] = y[t.ev]
  BY <1>1, <1>2
<1>4. TagOK(z, t)
  BY <1>1, <1>2, <1>3 DEF TagOK
<1>5. Ended(z, t) <=> Ended(y, t)
  BY <1>3 DEF Ended
<1>6. (Awaits(z, t) <=> Awaits(y, t)) /\ (Should(z, t) <=> Should(y, t))
  BY <1>3, <1>5 DEF Awaits, Should
<1>7. Count(z, t) = Count(y, t)
  BY <1>3 DEF Count
<1>8. \A c : Fits(y, t, c) => Fits(z, t, c)
  BY <1>3, <1>4 DEF Fits
<1>9. \A u : Follows(y, t, u) => Follows(z, t, u)
  BY <1>5 DEF Follows
<1>10. ASSUME NEW l \in Nat PROVE Known(z, l, t) <=> Known(y, l, t)
  <2>1. \A i \in l + 1 .. t.ev : z[i] = y[i]
    BY <1>1, <1>2
  <2> QED
    BY <1>5, <2>1 DEF Known
<1> QED
  BY <1>4, <1>5, <1>6, <1>7, <1>8, <1>9, <1>10 DEF z

(* A new event: its codes come at the end of the way.                      *)
LEMMA TaggedMore ==
  ASSUME NEW y \in Seq(Events), NEW e \in Events, NEW l \in 0 .. Len(y), NEW T,
         NEW w \in Seq(Payload), Tagged(y, l, T, w)
  PROVE  \E U : Tagged(Append(y, e), l, U, w \o Shown(Sent(e))) /\ U[1] = T[1]
<1> DEFINE z == Append(y, e)
           s == Shown(Sent(e))
           v == w \o s
           n == Len(y)
           m == Len(T)
           z0 == Size(e)
           U == [k \in 1 .. m + z0 |->
                   IF k <= m THEN T[k] ELSE [ev |-> n + 1, at |-> k - m]]
<1>1. n \in Nat /\ Len(z) = n + 1 /\ z[n + 1] = e
  BY LenProperties
<1>2. s \in Seq(Payload) /\ Len(s) = z0 /\ \A j \in 1 .. z0 : Read(s[j]) = Code(e, j)
  BY SentCodes
<1>3. z0 \in Nat \ {0}
  BY CodeShape
<1>4. /\ Len(w) \in Nat /\ m = Len(w) + 1
      /\ \A k \in 1 .. m : T[k] \in Tags /\ TagOK(y, T[k])
  BY TaggedParts
<1>5. /\ \A k \in 1 .. Len(w) : Fits(y, T[k + 1], w[k])
      /\ InOrder(y, l, T) /\ UpToDate(y, l, T)
  BY DEF Tagged
<1>6. /\ v \in Seq(Payload) /\ Len(v) = Len(w) + z0
      /\ \A k \in 1 .. Len(w) + z0 : v[k] = IF k <= Len(w) THEN w[k] ELSE s[k - Len(w)]
  <2> HIDE DEF s, z0
  <2>1. /\ v \in Seq(Payload) /\ Len(v) = Len(w) + Len(s)
        /\ \A k \in 1 .. Len(w) + Len(s) : v[k] = IF k <= Len(w) THEN w[k] ELSE s[k - Len(w)]
    BY <1>2, ConcatProperties
  <2> QED
    BY <1>2, <2>1
<1>7. ASSUME NEW k \in 1 .. m
      PROVE  /\ T[k] \in Tags /\ TagOK(z, T[k]) /\ T[k].ev \in 0 .. n
             /\ Ended(z, T[k]) <=> Ended(y, T[k])
             /\ \A c : Fits(y, T[k], c) => Fits(z, T[k], c)
             /\ \A u : Follows(y, T[k], u) => Follows(z, T[k], u)
  <2>1. T[k] \in Tags /\ TagOK(y, T[k])
    BY <1>4
  <2>2. T[k].ev \in 0 .. n
    BY <1>1, <2>1 DEF Tags, TagOK
  <2> QED
    BY <2>1, <2>2, TagGrow
<1> HIDE DEF z, s, v, n, m, z0
<1>8. /\ \A k \in 1 .. m : U[k] = T[k]
      /\ \A k \in m + 1 .. m + z0 : U[k] = [ev |-> n + 1, at |-> k - m]
  BY <1>3, <1>4
<1>9. \A k \in m + 1 .. m + z0 : U[k].ev = n + 1 /\ U[k].at = k - m /\ k - m \in 1 .. z0
  BY <1>3, <1>4, <1>8
<1>10. U \in Seq(Tags) /\ Len(U) = m + z0
  <2>1. U \in [1 .. m + z0 -> Tags]
    <3>1. ASSUME NEW k \in 1 .. m + z0
          PROVE  (IF k <= m THEN T[k] ELSE [ev |-> n + 1, at |-> k - m]) \in Tags
      BY <1>1, <1>3, <1>4 DEF Tags
    <3> QED
      BY <3>1
  <2>2. m + z0 \in Nat
    BY <1>3, <1>4
  <2>3. U \in Seq(Tags)
    BY <2>1, <2>2, SeqDef, ZenonT(60)
  <2> QED
    BY <2>2, <2>3, LenProperties
<1> HIDE DEF U
<1>11. ASSUME NEW k \in m + 1 .. m + z0
       PROVE  /\ TagOK(z, U[k]) /\ z[U[k].ev] = e
              /\ Ended(z, U[k]) <=> k = m + z0
  <2>1. U[k].ev = n + 1 /\ U[k].at = k - m /\ k - m \in 1 .. z0 /\ z[U[k].ev] = e
    BY <1>1, <1>9
  <2>2. TagOK(z, U[k])
    BY <1>1, <2>1 DEF TagOK, z0
  <2>3. Ended(z, U[k]) <=> k - m = z0
    BY <1>1, <2>1 DEF Ended, z0
  <2>4. k - m = z0 <=> k = m + z0
    BY <1>3, <1>4
  <2> QED
    BY <2>1, <2>2, <2>3, <2>4
<1>12. U[1] = T[1] /\ TagOK(z, U[1])
  BY <1>4, <1>7, <1>8
<1>13. ASSUME NEW k \in 1 .. Len(v) PROVE Fits(z, U[k + 1], v[k])
  <2>1. CASE k <= Len(w)
    <3>1. k \in 1 .. Len(w) /\ k + 1 \in 1 .. m
      BY <1>4, <2>1
    <3>2. U[k + 1] = T[k + 1] /\ v[k] = w[k]
      BY <1>3, <1>4, <1>6, <1>8, <2>1, <3>1
    <3> QED
      BY <1>5, <1>7, <3>1, <3>2
  <2>2. CASE k > Len(w)
    <3> DEFINE j == k - Len(w)
    <3>1. j \in 1 .. z0 /\ k + 1 \in m + 1 .. m + z0 /\ (k + 1) - m = j
      <4>1. k \in Nat /\ k <= Len(w) + z0 /\ k >= Len(w) + 1
        BY <1>4, <1>6, <2>2
      <4>2. Len(w) \in Nat /\ z0 \in Nat /\ m = Len(w) + 1
        BY <1>3, <1>4
      <4> QED
        BY <4>1, <4>2
    <3>2. v[k] = s[j]
      BY <1>4, <1>6, <2>2
    <3>3. U[k + 1].ev = n + 1 /\ U[k + 1].at = j /\ z[U[k + 1].ev] = e /\ TagOK(z, U[k + 1])
      BY <1>9, <1>11, <3>1
    <3>4. Read(v[k]) = Code(z[U[k + 1].ev], U[k + 1].at)
      BY <1>2, <3>1, <3>2, <3>3
    <3>5. n + 1 # 0
      BY <1>1
    <3> QED
      BY <3>3, <3>4, <3>5 DEF Fits
  <2>3. k <= Len(w) \/ k > Len(w)
    BY <1>4
  <2> QED
    BY <2>1, <2>2, <2>3
<1>14. InOrder(z, l, U)
  <2> SUFFICES ASSUME NEW k \in 1 .. Len(U) - 1, U[k + 1].ev > l
               PROVE  IF U[k].ev > l THEN Follows(z, U[k], U[k + 1])
                                     ELSE U[k + 1].ev = l + 1 /\ U[k + 1].at = 1
    BY DEF InOrder
  <2>1. CASE k + 1 <= m
    <3>1. k \in 1 .. m /\ k \in 1 .. m - 1 /\ k + 1 \in 1 .. m
      BY <1>4, <2>1
    <3>2. U[k] = T[k] /\ U[k + 1] = T[k + 1]
      BY <1>8, <3>1
    <3>3. IF T[k].ev > l THEN Follows(y, T[k], T[k + 1])
                         ELSE T[k + 1].ev = l + 1 /\ T[k + 1].at = 1
      BY <1>5, <3>1, <3>2 DEF InOrder, m
    <3> QED
      BY <1>7, <3>1, <3>2, <3>3
  <2>2. CASE k = m
    <3>1. m \in 1 .. m /\ m + 1 \in m + 1 .. m + z0 /\ (m + 1) - m = 1
      BY <1>3, <1>4
    <3>2. U[k] = T[m] /\ U[k + 1].ev = n + 1 /\ U[k + 1].at = 1
      BY <1>8, <1>9, <2>2, <3>1
    <3>3. T[m].ev \in 0 .. n
      BY <1>7, <3>1
    <3>4. n > l => T[m].ev = n /\ Ended(y, T[m])
      BY <1>5 DEF UpToDate, n, m
    <3>5. l \in 0 .. n
      BY DEF n
    <3>6. CASE T[m].ev > l
      <4>1. n > l
        BY <1>1, <3>3, <3>5, <3>6
      <4>2. T[m].ev = n /\ Ended(z, T[m])
        BY <1>7, <3>1, <3>4, <4>1
      <4> QED
        BY <3>2, <3>6, <4>2 DEF Follows
    <3>7. CASE ~(T[m].ev > l)
      <4>1. n = l
        BY <1>1, <3>4, <3>5, <3>7
      <4> QED
        BY <3>2, <3>7, <4>1
    <3> QED
      BY <3>6, <3>7
  <2>3. CASE k > m
    <3>1. k \in m + 1 .. m + z0 /\ k + 1 \in m + 1 .. m + z0 /\ k # m + z0
          /\ (k + 1) - m = (k - m) + 1
      BY <1>3, <1>4, <1>10, <2>3
    <3>2. /\ U[k].ev = n + 1 /\ U[k].at = k - m /\ ~Ended(z, U[k])
          /\ U[k + 1].ev = n + 1 /\ U[k + 1].at = (k - m) + 1
      BY <1>9, <1>11, <3>1
    <3> QED
      BY <3>2 DEF Follows
  <2>4. k + 1 <= m \/ k = m \/ k > m
    BY <1>4
  <2> QED
    BY <2>1, <2>2, <2>3, <2>4
<1>15. UpToDate(z, l, U)
  <2>1. m + z0 \in m + 1 .. m + z0
    BY <1>3, <1>4
  <2>2. U[m + z0].ev = n + 1 /\ Ended(z, U[m + z0])
    BY <1>9, <1>11, <2>1
  <2> QED
    BY <1>1, <1>10, <2>2 DEF UpToDate
<1>16. Len(U) = Len(v) + 1
  BY <1>3, <1>4, <1>6, <1>10
<1>17. Tagged(z, l, U, v)
  BY <1>10, <1>12, <1>13, <1>14, <1>15, <1>16 DEF Tagged
<1> QED
  BY <1>12, <1>17 DEF z, v, s

(* A code dropped: nothing is known of the order any more.                 *)
LEMMA TaggedDrop ==
  ASSUME NEW y \in Seq(Events), NEW l, NEW T, NEW w, NEW v, NEW i,
         Tagged(y, l, T, w), Cut(w, v, i)
  PROVE  Len(y) # 0 /\ \E U : Tagged(y, Len(y), U, v) /\ U[1] = T[1]
<1> DEFINE n == Len(T) - 1
           U == [k \in 1 .. n |-> T[IF k <= i THEN k ELSE k + 1]]
<1>1. /\ w \in Seq(Payload) /\ v \in Seq(Payload)
      /\ i \in 1 .. Len(w) /\ Len(v) = Len(w) - 1
      /\ \A k \in 1 .. Len(v) : v[k] = w[IF k < i THEN k ELSE k + 1]
  BY DEF Cut
<1>2. /\ Len(w) \in Nat /\ Len(T) = Len(w) + 1
      /\ \A k \in 1 .. Len(T) : T[k] \in Tags /\ TagOK(y, T[k])
  BY <1>1, TaggedParts
<1>3. Len(y) \in Nat
  BY LenProperties
<1>4. \A k \in 1 .. Len(w) : Fits(y, T[k + 1], w[k])
  BY DEF Tagged
<1>5. n = Len(w) /\ n \in Nat /\ i <= n
  BY <1>1, <1>2
<1> HIDE DEF n
<1>6. \A k \in 1 .. n : U[k] = T[IF k <= i THEN k ELSE k + 1]
  OBVIOUS
<1>7. U \in Seq(Tags) /\ Len(U) = n
  <2>1. ASSUME NEW k \in 1 .. n PROVE T[IF k <= i THEN k ELSE k + 1] \in Tags
    BY <1>2, <1>5
  <2>2. U \in [1 .. n -> Tags]
    BY <2>1
  <2>3. U \in Seq(Tags)
    BY <1>5, <2>2, SeqDef
  <2> QED
    BY <1>5, <2>3, LenProperties
<1> HIDE DEF U
<1>8. U[1] = T[1] /\ TagOK(y, U[1])
  <2>1. 1 \in 1 .. n /\ 1 <= i /\ 1 \in 1 .. Len(T)
    BY <1>1, <1>2, <1>5
  <2> QED
    BY <1>2, <1>6, <2>1
<1>9. ASSUME NEW k \in 1 .. Len(v) PROVE Fits(y, U[k + 1], v[k])
  <2>1. CASE k < i
    <3>1. k + 1 \in 1 .. n /\ k + 1 <= i /\ k \in 1 .. Len(w)
      BY <1>1, <1>2, <1>5, <2>1
    <3>2. U[k + 1] = T[k + 1] /\ v[k] = w[k]
      BY <1>1, <1>6, <2>1, <3>1
    <3> QED
      BY <1>4, <3>1, <3>2
  <2>2. CASE ~(k < i)
    <3>1. k + 1 \in 1 .. n /\ ~(k + 1 <= i) /\ k + 1 \in 1 .. Len(w)
      BY <1>1, <1>2, <1>5, <2>2
    <3>2. U[k + 1] = T[(k + 1) + 1] /\ v[k] = w[k + 1]
      BY <1>1, <1>6, <2>2, <3>1
    <3> QED
      BY <1>4, <3>1, <3>2
  <2> QED
    BY <2>1, <2>2
<1>10. InOrder(y, Len(y), U)
  <2>1. ASSUME NEW k \in 1 .. Len(U) - 1 PROVE ~(U[k + 1].ev > Len(y))
    <3>1. k + 1 \in 1 .. n
      BY <1>5, <1>7
    <3>2. (IF k + 1 <= i THEN k + 1 ELSE (k + 1) + 1) \in 1 .. Len(T)
      BY <1>1, <1>2, <1>5, <3>1
    <3>3. U[k + 1] \in Tags /\ TagOK(y, U[k + 1])
      BY <1>2, <1>6, <3>1, <3>2
    <3> QED
      BY <1>3, <3>3 DEF Tags, TagOK
  <2> QED
    BY <2>1 DEF InOrder
<1>11. UpToDate(y, Len(y), U)
  BY <1>3 DEF UpToDate
<1>12. Tagged(y, Len(y), U, v)
  BY <1>1, <1>2, <1>5, <1>7, <1>8, <1>9, <1>10, <1>11 DEF Tagged
<1>13. Len(y) # 0
  <2>1. 1 \in 1 .. Len(w) /\ 1 + 1 \in 1 .. Len(T)
    BY <1>1, <1>2
  <2>2. Fits(y, T[1 + 1], w[1]) /\ T[1 + 1] \in Tags
    BY <1>2, <1>4, <2>1
  <2> QED
    BY <1>3, <2>2 DEF Fits, TagOK, Tags
<1> QED
  BY <1>8, <1>12, <1>13

(* A code read: its tag is now the first.                                  *)
LEMMA TaggedNext ==
  ASSUME NEW y \in Seq(Events), NEW l, NEW T, NEW w, NEW v,
         Tagged(y, l, T, w), Cut(w, v, 1)
  PROVE  /\ Tagged(y, l, Tail(T), v) /\ Tail(T)[1] = T[2]
         /\ T[1] \in Tags /\ TagOK(y, T[1]) /\ T[2] \in Tags /\ Fits(y, T[2], w[1])
         /\ T[2].ev > l => IF T[1].ev > l THEN Follows(y, T[1], T[2])
                                         ELSE T[2].ev = l + 1 /\ T[2].at = 1
<1> DEFINE U == Tail(T)
<1>1. /\ w \in Seq(Payload) /\ v \in Seq(Payload)
      /\ 1 \in 1 .. Len(w) /\ Len(v) = Len(w) - 1
      /\ \A k \in 1 .. Len(v) : v[k] = w[k + 1]
  BY DEF Cut
<1>2. /\ Len(w) \in Nat /\ Len(T) = Len(w) + 1
      /\ \A k \in 1 .. Len(T) : T[k] \in Tags /\ TagOK(y, T[k])
  BY <1>1, TaggedParts
<1>3. /\ \A k \in 1 .. Len(w) : Fits(y, T[k + 1], w[k])
      /\ T \in Seq(Tags)
      /\ InOrder(y, l, T) /\ UpToDate(y, l, T)
  BY DEF Tagged
<1>4. /\ U \in Seq(Tags) /\ Len(U) = Len(w)
      /\ \A k \in 1 .. Len(w) : U[k] = T[k + 1]
  <2>1. T # <<>>
    BY <1>2, <1>3, EmptySeq
  <2>2. U \in Seq(Tags) /\ Len(U) = Len(T) - 1 /\ \A k \in 1 .. Len(U) : U[k] = T[k + 1]
    BY <1>3, <2>1, HeadTailProperties
  <2> QED
    BY <1>2, <2>2
<1> HIDE DEF U
<1>5. U[1] = T[1 + 1] /\ 1 + 1 = 2 /\ 2 \in 1 .. Len(T) /\ 1 \in 1 .. Len(T) - 1
  BY <1>1, <1>2, <1>4
<1>6. T[2] \in Tags /\ TagOK(y, T[2]) /\ T[1] \in Tags /\ TagOK(y, T[1])
  BY <1>2, <1>5
<1>7. Fits(y, T[2], w[1])
  BY <1>1, <1>3, <1>5
<1>8. T[2].ev > l => IF T[1].ev > l THEN Follows(y, T[1], T[2])
                                    ELSE T[2].ev = l + 1 /\ T[2].at = 1
  BY <1>3, <1>5 DEF InOrder
<1>9. \A k \in 1 .. Len(v) : Fits(y, U[k + 1], v[k])
  <2> SUFFICES ASSUME NEW k \in 1 .. Len(v) PROVE Fits(y, U[k + 1], v[k])
    OBVIOUS
  <2>1. k + 1 \in 1 .. Len(w)
    BY <1>1, <1>2
  <2> QED
    BY <1>1, <1>3, <1>4, <2>1
<1>10. InOrder(y, l, U)
  <2> SUFFICES ASSUME NEW k \in 1 .. Len(U) - 1, U[k + 1].ev > l
               PROVE  IF U[k].ev > l THEN Follows(y, U[k], U[k + 1])
                                     ELSE U[k + 1].ev = l + 1 /\ U[k + 1].at = 1
    BY DEF InOrder
  <2>1. k \in 1 .. Len(w) /\ k + 1 \in 1 .. Len(w) /\ k + 1 \in 1 .. Len(T) - 1
    BY <1>2, <1>4
  <2>2. U[k] = T[k + 1] /\ U[k + 1] = T[(k + 1) + 1]
    BY <1>4, <2>1
  <2> QED
    BY <1>3, <2>1, <2>2 DEF InOrder
<1>11. UpToDate(y, l, U)
  <2>1. U[Len(U)] = T[Len(T)]
    BY <1>1, <1>2, <1>4
  <2> QED
    BY <1>3, <2>1 DEF UpToDate
<1>12. Tagged(y, l, U, v)
  <2>1. Len(U) = Len(v) + 1
    BY <1>1, <1>2, <1>4
  <2>2. TagOK(y, U[1])
    BY <1>5, <1>6
  <2> QED
    BY <1>4, <1>9, <1>10, <1>11, <2>1, <2>2 DEF Tagged
<1> QED
  BY <1>5, <1>6, <1>7, <1>8, <1>12 DEF U

-----------------------------------------------------------------------------
(* Tag t comes after tag d and fits payload c; the decoder takes the code  *)
(* of c.                                                                   *)
After(y, l, d, t, c) ==
  /\ d \in Tags /\ TagOK(y, d) /\ t \in Tags /\ Fits(y, t, c)
  /\ t.ev > l => IF d.ev > l THEN Follows(y, d, t) ELSE t.ev = l + 1 /\ t.at = 1

Takes(l, k, rel, sh, st, rel2, sh2, st2) ==
  /\ k \in F!Words /\ rel \in BOOLEAN /\ sh \in BOOLEAN
  /\ st \in Seq([key : F!Words, shift : BOOLEAN])
  /\ rel2 = (k = Break)
  /\ sh2 = IF k = Shift THEN ~rel ELSE sh
  /\ l = 0 => st2 = IF rel \/ k \in {Shift, Break} THEN st
                    ELSE Append(st, [key |-> k, shift |-> sh])

LEMMA DecodedNext ==
  ASSUME NEW y \in Seq(Events), NEW l \in Nat, NEW d, NEW t, NEW c,
         NEW rel, NEW sh, NEW st, NEW rel2, NEW sh2, NEW st2,
         After(y, l, d, t, c), Takes(l, Read(c), rel, sh, st, rel2, sh2, st2),
         Decoded(y, l, d, rel, sh, st)
  PROVE  Decoded(y, l, t, rel2, sh2, st2)
<1>0. /\ d \in Tags /\ TagOK(y, d) /\ t \in Tags /\ Fits(y, t, c)
      /\ t.ev > l => IF d.ev > l THEN Follows(y, d, t) ELSE t.ev = l + 1 /\ t.at = 1
      /\ Read(c) \in F!Words /\ rel \in BOOLEAN /\ sh \in BOOLEAN
      /\ st \in Seq([key : F!Words, shift : BOOLEAN])
      /\ rel2 = (Read(c) = Break)
      /\ sh2 = IF Read(c) = Shift THEN ~rel ELSE sh
      /\ l = 0 => st2 = IF rel \/ Read(c) \in {Shift, Break} THEN st
                        ELSE Append(st, [key |-> Read(c), shift |-> sh])
  BY DEF After, Takes
<1> USE <1>0
<1> DEFINE e == y[t.ev]
           k == Read(c)
<1>1. t.ev \in Nat \ {0} /\ t.ev <= Len(y) /\ t.at \in 1 .. Size(e) /\ k = Code(e, t.at)
  BY DEF Fits, TagOK, Tags
<1>2. e \in Events
  BY <1>1, LenProperties, ElementOfSeq
<1>3. d.ev \in Nat /\ d.at \in Nat /\ d.ev <= Len(y) /\ Len(y) \in Nat
  BY LenProperties DEF Tags, TagOK
<1>4. d.ev # 0 => y[d.ev] \in Events /\ d.at \in 1 .. Size(y[d.ev])
  BY <1>3, ElementOfSeq DEF TagOK
<1>5. /\ Size(e) \in Nat \ {0} /\ Pre(e) \in 0 .. 1 /\ Pre(e) < Size(e)
      /\ \A j \in 1 .. Size(e) : Code(e, j) \in Codes
      /\ e.shifted => /\ Size(e) >= 4 /\ Pre(e) = 1
                      /\ Code(e, 1) = Shift /\ Code(e, Size(e)) = Shift
                      /\ Code(e, Size(e) - 1) = Break
                      /\ \A j \in 2 .. Size(e) - 1 : Code(e, j) # Shift
      /\ ~e.shifted => Pre(e) = 0 /\ \A j \in 1 .. Size(e) : Code(e, j) # Shift
  BY <1>2, CodeShape
<1>6. /\ t.at = Pre(e) + 1 => k = Stroke(e).key
      /\ t.at <= Pre(e) => k = Shift
      /\ t.at > Pre(e) + 1 /\ k \notin {Shift, Break} => Code(e, t.at - 1) = Break
  BY <1>1, <1>2, CodeShape
<1>7. d.ev # 0 => Code(y[d.ev], Size(y[d.ev])) # Break /\ Size(y[d.ev]) \in Nat
  BY <1>4, CodeShape
<1>8. /\ e.shifted \in BOOLEAN /\ Stroke(e).key \in Codes \ {Shift, Break}
  BY <1>2, EventParts
<1>9. /\ rel = Awaits(y, d)
      /\ Known(y, l, d) => sh = Should(y, d)
      /\ l = 0 => Len(st) = Count(y, d) /\ \A i \in 1 .. Len(st) : st[i] = Stroke(y[i])
  BY DEF Decoded
(* Either the code continues the event, or it starts one.                  *)
<1> DEFINE Continues == d.ev = t.ev /\ t.at = d.at + 1 /\ d.ev > l
           Starts    == t.at = 1 /\ Ended(y, d) /\ t.ev = d.ev + 1
           AfterLoss == t.at = 1 /\ t.ev = l + 1 /\ d.ev <= l
<1>10. t.ev > l => Continues \/ Starts \/ AfterLoss
  BY <1>3 DEF Follows
<1>11. t.ev > l /\ l = 0 => Continues \/ Starts
  <2> SUFFICES ASSUME t.ev > l, l = 0, AfterLoss PROVE Starts
    BY <1>10
  <2>1. d.ev = 0
    BY <1>3
  <2> QED
    BY <2>1 DEF Ended
<1>12. ASSUME Starts PROVE ~rel /\ ~Should(y, d)
  BY <1>7, <1>9, <1>12 DEF Ended, Awaits, Should
<1>13. ASSUME Continues PROVE rel = (Code(e, t.at - 1) = Break) /\ d.at \in 1 .. Size(e) /\ d.at = t.at - 1
  <2>1. d.ev # 0 /\ y[d.ev] = e /\ d.at = t.at - 1
    BY <1>1, <1>3, <1>13
  <2> QED
    BY <1>4, <1>9, <2>1 DEF Awaits
<1>14. rel2 = Awaits(y, t)
  BY <1>1 DEF Awaits
<1> HIDE DEF e, k
<1>15. ASSUME Known(y, l, t) PROVE sh2 = Should(y, t)
  <2>1. l = 0 \/ \E i \in l + 1 .. t.ev : y[i].shifted /\ (i < t.ev \/ Ended(y, t))
    BY <1>15 DEF Known
  <2>2. t.ev > l
    BY <1>1, <2>1
  <2>3. /\ Should(y, t) \in BOOLEAN
        /\ Should(y, t) <=> e.shifted /\ t.at # Size(e)
        /\ Ended(y, t) <=> t.at = Size(e)
    BY <1>1 DEF Should, Ended, e
  <2>4. CASE Continues
    <3>1. /\ d.at = t.at - 1 /\ d.at \in 1 .. Size(e) /\ (rel <=> Code(e, t.at - 1) = Break)
          /\ d.ev # 0 /\ y[d.ev] = e /\ d.ev = t.ev
      BY <1>1, <1>13, <2>4 DEF e
    <3>2. CASE e.shifted /\ t.at = Size(e)
      <4>1. rel /\ k = Shift
        BY <1>1, <1>5, <3>1, <3>2
      <4> QED
        BY <2>3, <3>2, <4>1 DEF k
    <3>3. CASE e.shifted /\ t.at # Size(e)
      <4>1. k # Shift
        BY <1>1, <1>5, <3>1, <3>3
      <4>2. Known(y, l, d)
        BY <2>1, <2>3, <3>1, <3>3 DEF Known
      <4>3. d.at # Size(e)
        BY <1>1, <1>5, <3>1, <3>3
      <4>4. Should(y, d)
        BY <3>1, <3>3, <4>3 DEF Should, Ended
      <4> QED
        BY <1>9, <2>3, <3>3, <4>1, <4>2, <4>4 DEF k
    <3>4. CASE ~e.shifted
      <4>1. k # Shift
        BY <1>1, <1>5, <3>4
      <4>2. Known(y, l, d)
        <5>1. \A i \in l + 1 .. t.ev : y[i].shifted => i < t.ev
          BY <1>1, <3>1, <3>4
        <5> QED
          BY <2>1, <3>1, <5>1 DEF Known
      <4>3. ~Should(y, d) /\ Should(y, d) \in BOOLEAN
        BY <3>1, <3>4 DEF Should
      <4> QED
        BY <1>9, <2>3, <3>4, <4>1, <4>2, <4>3 DEF k
    <3> QED
      BY <3>2, <3>3, <3>4
  <2>5. CASE Starts
    <3>1. ~rel /\ ~Should(y, d) /\ Should(y, d) \in BOOLEAN
      BY <1>12, <2>5 DEF Should
    <3>2. CASE e.shifted
      <4>1. k = Shift /\ t.at # Size(e)
        BY <1>1, <1>5, <2>5, <3>2
      <4> QED
        BY <2>3, <3>1, <3>2, <4>1 DEF k
    <3>3. CASE ~e.shifted
      <4>1. k # Shift
        BY <1>1, <1>5, <3>3
      <4>2. Known(y, l, d)
        <5>1. \A i \in l + 1 .. t.ev : y[i].shifted => i \in l + 1 .. d.ev
          BY <1>1, <1>3, <2>5, <3>3 DEF e
        <5> QED
          BY <2>1, <2>5, <5>1 DEF Known
      <4> QED
        BY <1>9, <2>3, <3>1, <3>3, <4>1, <4>2 DEF k
    <3> QED
      BY <3>2, <3>3
  <2>6. CASE AfterLoss /\ l # 0
    <3>1. \A i \in l + 1 .. t.ev : i = t.ev
      BY <2>6
    <3>2. e.shifted /\ t.at = Size(e)
      BY <1>1, <2>1, <2>3, <2>6, <3>1 DEF e
    <3> QED
      BY <1>5, <2>6, <3>2
  <2> HIDE DEF Continues, Starts, AfterLoss
  <2> QED
    BY <1>10, <1>11, <2>2, <2>4, <2>5, <2>6
<1>16. ASSUME l = 0
       PROVE  Len(st2) = Count(y, t) /\ \A i \in 1 .. Len(st2) : st2[i] = Stroke(y[i])
  <2>1. Len(st) = Count(y, d) /\ \A i \in 1 .. Len(st) : st[i] = Stroke(y[i])
    BY <1>9, <1>16
  <2>2. Known(y, l, t)
    BY <1>16 DEF Known
  <2>3. Continues \/ Starts
    BY <1>1, <1>11, <1>16
  <2>4. Starts => Count(y, d) = d.ev
    <3> SUFFICES ASSUME Starts, d.ev # 0 PROVE ~(d.at <= Pre(y[d.ev]))
      BY DEF Count
    <3>1. Pre(y[d.ev]) \in 0 .. 1 /\ Pre(y[d.ev]) < Size(y[d.ev]) /\ Size(y[d.ev]) \in Nat
      BY <1>4, CodeShape
    <3>2. d.at = Size(y[d.ev])
      BY DEF Ended
    <3> QED
      BY <3>1, <3>2
  <2>5. Continues => /\ Count(y, d) = IF d.at <= Pre(e) THEN t.ev - 1 ELSE t.ev
                     /\ d.at = t.at - 1 /\ d.at >= 1
                     /\ (rel <=> Code(e, t.at - 1) = Break)
    BY <1>1, <1>13 DEF Count, e
  <2>6. Count(y, t) = IF t.at <= Pre(e) THEN t.ev - 1 ELSE t.ev
    BY <1>1 DEF Count, e
  <2>7. CASE t.at = Pre(e) + 1
    <3>1. k = Stroke(e).key /\ k \notin {Shift, Break}
      BY <1>6, <1>8, <2>7
    <3>2. ~rel
      <4>1. CASE Starts
        BY <1>12, <4>1
      <4>2. CASE Continues
        <5>1. Pre(e) = 1 /\ e.shifted /\ t.at - 1 = 1
          <6>1. t.at - 1 >= 1 /\ t.at \in Nat /\ Pre(e) \in 0 .. 1
            BY <1>1, <1>5, <2>5, <4>2
          <6>2. Pre(e) = 1 /\ t.at - 1 = 1
            BY <2>7, <6>1
          <6> QED
            BY <1>5, <1>8, <6>2
        <5>2. Shift # Break
          BY CodesAssumption
        <5> QED
          BY <1>5, <2>5, <4>2, <5>1, <5>2
      <4> QED
        BY <2>3, <4>1, <4>2
    <3>3. sh = e.shifted
      <4>1. sh2 = sh /\ sh2 = Should(y, t)
        BY <1>15, <2>2, <3>1 DEF k
      <4>2. Should(y, t) = (e.shifted /\ t.at # Size(e))
        BY <1>1 DEF Should, Ended, e
      <4>3. e.shifted => t.at # Size(e)
        BY <1>1, <1>5, <2>7
      <4> QED
        BY <1>8, <4>1, <4>2, <4>3
    <3>4. st2 = Append(st, [key |-> k, shift |-> sh])
      BY <1>16, <3>1, <3>2 DEF k
    <3>5. [key |-> k, shift |-> sh] = Stroke(e)
      <4>1. Stroke(e).key = IF e.key = Invalid THEN Question ELSE e.key
        BY DEF Stroke
      <4> QED
        BY <3>1, <3>3, <4>1 DEF Stroke
    <3>6. Count(y, d) = t.ev - 1
      <4>1. CASE Starts
        BY <1>3, <2>4, <4>1
      <4>2. CASE Continues
        BY <1>1, <1>5, <2>5, <2>7, <4>2
      <4> QED
        BY <2>3, <4>1, <4>2
    <3>7. Count(y, t) = t.ev
      BY <1>5, <2>6, <2>7
    <3>8. k \in F!Words
      BY DEF k
    <3>9. [key |-> k, shift |-> sh] \in [key : F!Words, shift : BOOLEAN]
      BY <3>8
    <3> DEFINE r == [key |-> k, shift |-> sh]
    <3>10. /\ Len(st) = t.ev - 1 /\ Len(st2) = Len(st) + 1
           /\ \A i \in 1 .. Len(st) : st2[i] = st[i]
           /\ st2[Len(st) + 1] = r
      <4> HIDE DEF r
      <4>1. r \in [key : F!Words, shift : BOOLEAN] /\ st2 = Append(st, r)
        BY <3>4, <3>9 DEF r
      <4> QED
        BY <2>1, <3>6, <4>1
    <3>11. Len(st2) = t.ev /\ st2[t.ev] = Stroke(y[t.ev])
      BY <1>1, <3>5, <3>10 DEF e
    <3>12. ASSUME NEW i \in 1 .. Len(st2) PROVE st2[i] = Stroke(y[i])
      <4>1. CASE i = t.ev
        BY <3>11, <4>1
      <4>2. CASE i # t.ev
        <5>1. i \in 1 .. Len(st)
          BY <1>1, <3>10, <3>11, <4>2
        <5> QED
          BY <2>1, <3>10, <5>1
      <4> QED
        BY <4>1, <4>2
    <3> QED
      BY <3>7, <3>11, <3>12
  <2>8. CASE t.at <= Pre(e)
    <3>1. k = Shift /\ t.at = 1
      BY <1>1, <1>5, <1>6, <2>8
    <3>2. st2 = st
      BY <1>16, <3>1 DEF k
    <3>3. Starts
      BY <2>3, <2>5, <3>1
    <3>4. Count(y, d) = t.ev - 1
      BY <1>3, <2>4, <3>3
    <3> HIDE DEF Starts
    <3> QED
      BY <2>1, <2>6, <2>8, <3>2, <3>4
  <2>9. CASE t.at > Pre(e) + 1
    <3>1. Continues
      BY <1>5, <2>3, <2>9
    <3>2. st2 = st
      BY <1>6, <1>16, <2>5, <2>9, <3>1 DEF k
    <3>3. Count(y, d) = t.ev /\ Count(y, t) = t.ev
      BY <1>1, <1>5, <2>5, <2>6, <2>9, <3>1
    <3> QED
      BY <2>1, <3>2, <3>3
  <2>10. t.at = Pre(e) + 1 \/ t.at <= Pre(e) \/ t.at > Pre(e) + 1
    BY <1>1, <1>5
  <2> QED
    BY <2>7, <2>8, <2>9, <2>10
<1> QED
  BY <1>14, <1>15, <1>16 DEF Decoded, k

-----------------------------------------------------------------------------
(* The invariant: tags can be given to all that is on the way.             *)
OneQuit == \A k \in 2 .. Len(sending) : sending[k] # Quit

WayInv ==
  ~torn => \E T : /\ Tagged(typed, lostAt, T, Way)
                  /\ Decoded(typed, lostAt, T[1], release, shift, strokes)

Base == F!IInv /\ Payloads /\ OwnTypes /\ OneQuit

PendShape ==
  /\ Pend \in Seq(Payload)
  /\ Len(Pend) = Len(accepted) - Len(delivered)
  /\ \A k \in 1 .. Len(Pend) : Pend[k] = accepted[Len(delivered) + k]

LEMMA PendType ==
  ASSUME F!IInv, ~torn
  PROVE  /\ Pend \in Seq(Payload)
         /\ Len(Pend) = Len(accepted) - Len(delivered)
         /\ \A k \in 1 .. Len(Pend) : Pend[k] = accepted[Len(delivered) + k]
         /\ Len(accepted) - Len(delivered) = F!wr - F!rd
         /\ Len(accepted) - Len(delivered) \in Nat
         /\ Len(accepted) \in Nat /\ Len(delivered) \in Nat
<1> DEFINE n == Len(accepted) - Len(delivered)
<1>1. accepted \in Seq(Codes) /\ delivered \in Seq(F!Words)
  BY DEF F!IInv, F!TypeOK
<1>2. Len(accepted) \in Nat /\ Len(delivered) \in Nat
  BY <1>1, LenProperties
<1>3. n = F!wr - F!rd /\ n \in Nat
  <2>1. F!rd <= F!wr /\ Len(accepted) = Len(delivered) + (F!wr - F!rd)
    BY DEF F!IInv, F!Conservation, F!Matching
  <2>2. F!wr \in Nat /\ F!rd \in Nat
    <3>1. F!wr \in Nat
      BY DEF F!IInv, F!TypeOK
    <3>2. F!RdPtr \in 0 .. MaxCell
      BY FifoAssumption DEF F!RdPtr
    <3>3. F!rd \in F!Words
      BY <3>2 DEF F!IInv, F!TypeOK, F!rd
    <3> QED
      BY <3>1, <3>3, FifoAssumption DEF F!Words
  <2> HIDE DEF n
  <2>3. n = F!wr - F!rd
    BY <1>2, <2>1, <2>2 DEF n
  <2> QED
    BY <2>1, <2>2, <2>3
<1>4. ASSUME NEW k \in 1 .. n PROVE accepted[Len(delivered) + k] \in Payload
  <2>1. Len(delivered) + k \in 1 .. Len(accepted)
    BY <1>2
  <2>2. accepted[Len(delivered) + k] \in Codes
    BY <1>1, <2>1, ElementOfSeq
  <2> QED
    BY <2>2 DEF Payload
<1> HIDE DEF n
<1>5. Pend = [k \in 1 .. n |-> accepted[Len(delivered) + k]]
  BY DEF Pend, n
<1>6. Pend \in [1 .. n -> Payload]
  BY <1>4, <1>5
<1>7. Pend \in Seq(Payload)
  BY <1>3, <1>6, SeqDef
<1>8. Len(Pend) = n
  BY <1>3, <1>6, <1>7, LenProperties
<1> QED
  BY <1>2, <1>3, <1>5, <1>7, <1>8 DEF n

LEMMA PendIs == F!IInv /\ ~torn => PendShape
  BY PendType DEF PendShape

LEMMA ShownType ==
  ASSUME Payloads, OneQuit
  PROVE  /\ Shown(sending) \in Seq(Payload)
         /\ sending # <<>> /\ Head(sending) = Quit =>
              Shown(sending) = Tail(sending) /\ Shown(Tail(sending)) = Tail(sending)
         /\ sending # <<>> /\ Head(sending) # Quit =>
              Shown(sending) = sending /\ Shown(Tail(sending)) = Tail(sending)
         /\ \A k \in 2 .. Len(Tail(sending)) : sending # <<>> => Tail(sending)[k] # Quit
<1> DEFINE P == Payload \cup {Quit}
           t == Tail(sending)
<1>1. sending \in Seq(P) /\ \A k \in 2 .. Len(sending) : sending[k] # Quit
  BY DEF Payloads, OneQuit
<1> HIDE DEF P
<1>2. CASE sending = <<>>
  <2>1. <<>> \in Seq(Payload)
    BY EmptySeq
  <2> QED
    BY <1>2, <2>1 DEF Shown
<1>3. CASE sending # <<>>
  <2>1. /\ t \in Seq(P) /\ Len(t) = Len(sending) - 1 /\ Len(sending) \in Nat \ {0}
        /\ \A k \in 1 .. Len(t) : t[k] = sending[k + 1]
        /\ Head(sending) = sending[1]
    BY <1>1, <1>3, HeadTailProperties, EmptySeq
  <2> HIDE DEF t
  <2>2. \A k \in 1 .. Len(t) : t[k] # Quit
    BY <1>1, <2>1
  <2>3. t \in Seq(Payload)
    <3>1. t \in [1 .. Len(t) -> P]
      BY <2>1, LenProperties
    <3>2. \A k \in 1 .. Len(t) : t[k] \in Payload
      BY <2>2, <3>1 DEF P
    <3>3. t \in [1 .. Len(t) -> Payload] /\ Len(t) \in Nat
      BY <2>1, <3>1, <3>2
    <3> QED
      BY <3>3, SeqDef
  <2>4. Shown(t) = t
    <3>1. t # <<>> => Head(t) # Quit
      <4> SUFFICES ASSUME t # <<>> PROVE Head(t) # Quit
        OBVIOUS
      <4>1. 1 \in 1 .. Len(t) /\ Head(t) = t[1]
        BY <2>1, EmptySeq
      <4> QED
        BY <2>2, <4>1
    <3> QED
      BY <3>1 DEF Shown
  <2>5. Head(sending) # Quit => sending \in Seq(Payload)
    <3> SUFFICES ASSUME Head(sending) # Quit PROVE sending \in Seq(Payload)
      OBVIOUS
    <3>1. sending \in [1 .. Len(sending) -> P]
      BY <1>1, LenProperties
    <3>2. \A k \in 1 .. Len(sending) : sending[k] \in Payload
      <4>1. \A k \in 1 .. Len(sending) : sending[k] # Quit
        BY <1>1, <2>1
      <4> QED
        BY <3>1, <4>1 DEF P
    <3>3. sending \in [1 .. Len(sending) -> Payload]
      BY <3>1, <3>2
    <3> QED
      BY <2>1, <3>3, SeqDef
  <2>6. Shown(sending) = IF Head(sending) = Quit THEN t ELSE sending
    BY <1>3 DEF Shown, t
  <2>7. \A k \in 2 .. Len(t) : t[k] # Quit
    BY <2>1, <2>2
  <2> QED
    BY <1>3, <2>3, <2>4, <2>5, <2>6, <2>7 DEF t
<1> QED
  BY <1>2, <1>3

(* The parts of the way, and the way from each of them on.                 *)
LEMMA WayTypes ==
  ASSUME Base, ~torn
  PROVE  /\ Pend \in Seq(Payload) /\ Cur \in Seq(Payload) /\ waiting \in Seq(Payload)
         /\ irqChan \in Seq(Payload) /\ Shown(sending) \in Seq(Payload)
         /\ irqChan \o Shown(sending) \in Seq(Payload)
         /\ waiting \o (irqChan \o Shown(sending)) \in Seq(Payload)
         /\ Cur \o (waiting \o (irqChan \o Shown(sending))) \in Seq(Payload)
         /\ Way \in Seq(Payload)
<1>1. Pend \in Seq(Payload)
  BY PendType DEF Base
<1>2. Shown(sending) \in Seq(Payload)
  BY ShownType DEF Base
<1>3. waiting \in Seq(Payload) /\ irqChan \in Seq(Payload)
  BY DEF Base, Payloads
<1>4. Cur \in Seq(Payload)
  <2>1. serving => current \in Payload
    BY DEF Base, Payloads
  <2> QED
    BY <2>1 DEF Cur
<1>5. irqChan \o Shown(sending) \in Seq(Payload)
  BY <1>2, <1>3, ConcatProperties
<1>6. waiting \o (irqChan \o Shown(sending)) \in Seq(Payload)
  BY <1>3, <1>5, ConcatProperties
<1>7. Cur \o (waiting \o (irqChan \o Shown(sending))) \in Seq(Payload)
  BY <1>4, <1>6, ConcatProperties
<1>8. Way \in Seq(Payload)
  BY <1>1, <1>7, ConcatProperties DEF Way
<1> QED
  BY <1>1, <1>2, <1>3, <1>4, <1>5, <1>6, <1>7, <1>8

-----------------------------------------------------------------------------
(* What each action does to the way.                                       *)
LEMMA WayKept ==
  ASSUME Base, ~torn, UNCHANGED <<accepted, delivered, serving, current>>,
         UNCHANGED waiting, UNCHANGED irqChan, UNCHANGED sending
  PROVE  Same(Way, Way')
<1>1. Way' = Way
  BY DEF Way, Pend, Cur, Shown
<1> QED
  BY <1>1, WayTypes, SameRefl

LEMMA Assoc ==
  ASSUME NEW r \in Seq(Payload), NEW s \in Seq(Payload), NEW t \in Seq(Payload)
  PROVE  r \o (s \o t) = (r \o s) \o t
<1>1. (r \o s) \o t = r \o (s \o t)
  BY ConcatAssociative
<1> QED
  BY <1>1

LEMMA WayMore ==
  \A e \in Events : Base /\ ~torn /\ Type(e) => Way' = Way \o Shown(Sent(e))
<1> SUFFICES ASSUME NEW e \in Events, Base, ~torn, Type(e)
             PROVE  Way' = Way \o Shown(Sent(e))
  OBVIOUS
<1> DEFINE s == Shown(Sent(e))
<1>1. /\ Pend \in Seq(Payload) /\ Cur \in Seq(Payload) /\ waiting \in Seq(Payload)
      /\ irqChan \in Seq(Payload)
  BY WayTypes
<1>2. s \in Seq(Payload)
  BY SentCodes
<1>3. Shown(sending) = <<>>
  BY DEF Type, Shown
<1>4. Shown(sending)' = s
  BY DEF Type, Shown
<1>5. /\ accepted' = accepted /\ delivered' = delivered /\ serving' = serving
      /\ current' = current /\ waiting' = waiting /\ irqChan' = irqChan
  BY DEF Type, chans, line, fifo
<1>6. Pend' = Pend /\ Cur' = Cur
  BY <1>5 DEF Pend, Cur
<1> HIDE DEF s
<1>7. Way = Pend \o (Cur \o (waiting \o irqChan))
  BY <1>1, <1>3, ConcatEmptySeq DEF Way
<1>8. Way' = Pend \o (Cur \o (waiting \o (irqChan \o s)))
  BY <1>4, <1>5, <1>6 DEF Way
<1> DEFINE a == waiting \o irqChan
           b == Cur \o a
<1>9. a \in Seq(Payload) /\ b \in Seq(Payload)
  BY <1>1, ConcatProperties
<1>10. waiting \o (irqChan \o s) = a \o s
  BY <1>1, <1>2, Assoc, SMTT(60)
<1> HIDE DEF a
<1>11. Cur \o (a \o s) = b \o s
  <2>1. Cur \in Seq(Payload) /\ a \in Seq(Payload) /\ s \in Seq(Payload)
    BY <1>1, <1>2, <1>9
  <2> QED
    BY <2>1, Assoc, SMTT(60)
<1> HIDE DEF b
<1>12. Pend \o (b \o s) = (Pend \o b) \o s
  <2>1. Pend \in Seq(Payload) /\ b \in Seq(Payload) /\ s \in Seq(Payload)
    BY <1>1, <1>2, <1>9
  <2> QED
    BY <2>1, Assoc, SMTT(60)
<1> QED
  BY <1>7, <1>8, <1>10, <1>11, <1>12 DEF s, a, b

LEMMA WaySend == Base /\ ~torn /\ Send => Same(Way, Way')
<1> SUFFICES ASSUME Base, ~torn, Send PROVE Same(Way, Way')
  OBVIOUS
<1>1. /\ Pend \in Seq(Payload) /\ Cur \in Seq(Payload) /\ waiting \in Seq(Payload)
      /\ irqChan \in Seq(Payload) /\ Shown(sending) \in Seq(Payload)
  BY WayTypes
<1>2. /\ accepted' = accepted /\ delivered' = delivered /\ serving' = serving
      /\ current' = current /\ waiting' = waiting
      /\ sending # <<>> /\ sending' = Tail(sending)
  BY DEF Send, line, fifo
<1>3. Pend' = Pend /\ Cur' = Cur
  BY <1>2 DEF Pend, Cur
<1> DEFINE u == irqChan \o Shown(sending)
           v == irqChan' \o Shown(sending')
<1>4. Same(u, v)
  <2>1. CASE Head(sending) = Quit
    <3>1. Shown(sending') = Shown(sending)
      BY <1>2, <2>1, ShownType DEF Base
    <3>2. irqChan' = irqChan
      BY <2>1 DEF Send
    <3>3. u \in Seq(Payload)
      BY WayTypes
    <3> QED
      BY <3>1, <3>2, <3>3, SameRefl
  <2>2. CASE Head(sending) # Quit
    <3>1. Shown(sending) = sending /\ Shown(sending') = Tail(sending)
      BY <1>2, <2>2, ShownType DEF Base
    <3>2. irqChan' = Append(irqChan, Head(sending))
      BY <2>2 DEF Send
    <3>3. Cut(sending, Tail(sending), 1)
      BY <1>1, <1>2, <3>1, CutHead
    <3>4. Head(sending) \in Payload /\ Head(sending) = sending[1]
      BY <1>1, <1>2, <3>1, HeadTailProperties
    <3>5. Same(irqChan \o sending, Append(irqChan, Head(sending)) \o Tail(sending))
      BY <1>1, <3>3, <3>4, SameMove
    <3> QED
      BY <3>1, <3>2, <3>5
  <2> QED
    BY <2>1, <2>2
<1> HIDE DEF u, v
<1>5. Same(waiting \o u, waiting \o v)
  BY <1>1, <1>4, SameAfter
<1>6. Same(Cur \o (waiting \o u), Cur \o (waiting \o v))
  BY <1>1, <1>5, SameAfter
<1>7. Same(Pend \o (Cur \o (waiting \o u)), Pend \o (Cur \o (waiting \o v)))
  BY <1>1, <1>6, SameAfter
<1>8. Way' = Pend \o (Cur \o (waiting \o v))
  BY <1>2, <1>3 DEF Way, v, Shown
<1> QED
  BY <1>7, <1>8 DEF Way, u

LEMMA WayInject ==
  Base /\ ~torn /\ Inject =>
    \/ Same(Way, Way') /\ lostAt' = lostAt
    \/ (\E i : Cut(Way, Way', i)) /\ lostAt' = Len(typed)
<1> SUFFICES ASSUME Base, ~torn, Inject
             PROVE  \/ Same(Way, Way') /\ lostAt' = lostAt
                    \/ (\E i : Cut(Way, Way', i)) /\ lostAt' = Len(typed)
  OBVIOUS
<1> DEFINE s == Shown(sending)
           u == irqChan \o s
           v == Tail(irqChan) \o s
<1>1. /\ Pend \in Seq(Payload) /\ Cur \in Seq(Payload) /\ waiting \in Seq(Payload)
      /\ irqChan \in Seq(Payload) /\ s \in Seq(Payload)
  BY WayTypes
<1>2. /\ accepted' = accepted /\ delivered' = delivered /\ sending' = sending
      /\ irqChan # <<>> /\ irqChan' = Tail(irqChan)
      /\ serving' = serving /\ current' = current
  BY DEF Inject, goroutine, fifo, line, Line!Raise
<1>3. Pend' = Pend /\ Cur' = Cur /\ s' = s
  BY <1>2 DEF Pend, Cur, Shown
<1>4. Way = Pend \o (Cur \o (waiting \o u)) /\ Way' = Pend \o (Cur \o (waiting' \o v))
  BY <1>2, <1>3 DEF Way
<1> HIDE DEF s
<1>5. Cut(u, v, 1) /\ u[1] = Head(irqChan) /\ Head(irqChan) \in Payload
  BY <1>1, <1>2, CutBefore, HeadTailProperties
<1> HIDE DEF u, v
<1>6. CASE Line!Raise(Head(irqChan)) /\ UNCHANGED lostAt
  <2>1. waiting' = Append(waiting, Head(irqChan))
    BY <1>6 DEF Line!Raise
  <2>2. Same(waiting \o u, waiting' \o v)
    BY <1>1, <1>5, <2>1, SameMove
  <2>3. Same(Cur \o (waiting \o u), Cur \o (waiting' \o v))
    BY <1>1, <2>2, SameAfter
  <2>4. Same(Pend \o (Cur \o (waiting \o u)), Pend \o (Cur \o (waiting' \o v)))
    BY <1>1, <2>3, SameAfter
  <2> QED
    BY <1>4, <1>6, <2>4
<1>7. CASE lostAt' = Len(typed) /\ UNCHANGED line
  <2>1. waiting' = waiting
    BY <1>7 DEF line
  <2>2. Cut(waiting \o u, waiting \o v, Len(waiting) + 1)
    BY <1>1, <1>5, CutAfter
  <2>3. PICK j : Cut(Cur \o (waiting \o u), Cur \o (waiting \o v), j)
    BY <1>1, <2>2, CutAfter
  <2>4. PICK i : Cut(Pend \o (Cur \o (waiting \o u)), Pend \o (Cur \o (waiting \o v)), i)
    BY <1>1, <2>3, CutAfter
  <2> QED
    BY <1>4, <1>7, <2>1, <2>4
<1> QED
  BY <1>6, <1>7 DEF Inject

LEMMA WayBoot == Base /\ ~torn /\ Step /\ Boot => Same(Way, Way')
<1> SUFFICES ASSUME Base, ~torn, Step, Boot PROVE Same(Way, Way')
  OBVIOUS
<1>1. ~Line!Due
  BY DEF Boot, Line!Due
<1>2. serving' = serving /\ current' = current /\ waiting' = waiting
  BY <1>1 DEF Base, OwnTypes, Boot, Line!Enable, Line!Served, Line!Taken, Line!Left
<1> QED
  BY <1>2, WayKept DEF Step, Boot, goroutine, chans, fifo

(* The machine takes an interrupt: it goes from the queue into service.    *)
LEMMA WayTake == Base /\ ~torn /\ Step /\ TakeIrq => Same(Way, Way')
<1> SUFFICES ASSUME Base, ~torn, Step, TakeIrq PROVE Same(Way, Way')
  OBVIOUS
<1> DEFINE r == irqChan \o Shown(sending)
           e == <<>>
           u == waiting \o r
           v == Tail(waiting) \o r
<1>1. /\ Pend \in Seq(Payload) /\ waiting \in Seq(Payload) /\ r \in Seq(Payload)
      /\ e \in Seq(Payload)
  BY WayTypes, EmptySeq
<1>2. /\ ~serving /\ waiting # <<>>
      /\ serving' = TRUE /\ current' = Head(waiting) /\ waiting' = Tail(waiting)
  BY DEF TakeIrq, Line!Work, Line!Due, Line!Served, Line!Taken, Line!Left
<1>3. /\ accepted' = accepted /\ delivered' = delivered /\ sending' = sending
      /\ irqChan' = irqChan
  BY DEF Step, TakeIrq, goroutine, chans, fifo
<1>4. Pend' = Pend /\ r' = r /\ Cur = e /\ Cur' = <<Head(waiting)>>
  BY <1>2, <1>3 DEF Pend, Cur, Shown
<1>5. Cur' = Append(e, Head(waiting))
  BY <1>4
<1>6. Way = Pend \o (e \o u) /\ Way' = Pend \o (Append(e, Head(waiting)) \o v)
  BY <1>2, <1>3, <1>4, <1>5 DEF Way
<1> HIDE DEF r, e
<1>7. Cut(u, v, 1) /\ u[1] = Head(waiting) /\ Head(waiting) \in Payload
  BY <1>1, <1>2, CutBefore, HeadTailProperties
<1> HIDE DEF u, v
<1>8. Same(e \o u, Append(e, Head(waiting)) \o v)
  BY <1>1, <1>7, SameMove
<1>9. Same(Pend \o (e \o u), Pend \o (Append(e, Head(waiting)) \o v))
  BY <1>1, <1>8, SameAfter
<1> QED
  BY <1>6, <1>9

(* The handler appends what it serves, or drops it.                        *)
LEMMA WayHandle ==
  Base /\ Base' /\ ~torn /\ Step /\ HandlerEnd =>
    \/ Same(Way, Way') /\ lostAt' = lostAt
    \/ (\E i : Cut(Way, Way', i)) /\ lostAt' = Len(typed)
<1> SUFFICES ASSUME Base, Base', ~torn, Step, HandlerEnd
             PROVE  \/ Same(Way, Way') /\ lostAt' = lostAt
                    \/ (\E i : Cut(Way, Way', i)) /\ lostAt' = Len(typed)
  OBVIOUS
<1> DEFINE r == waiting \o (irqChan \o Shown(sending))
           u == Cur \o r
           v == Tail(Cur) \o r
           c == IF current = Invalid THEN Question ELSE current
<1>1. /\ Pend \in Seq(Payload) /\ Cur \in Seq(Payload) /\ r \in Seq(Payload)
  BY WayTypes
<1>2. /\ serving /\ serving' = FALSE /\ waiting' = waiting
  BY DEF HandlerEnd, Line!Done, Line!Due, Line!Left
<1>3. sending' = sending /\ irqChan' = irqChan
  BY DEF Step, goroutine, chans
<1>4. current \in Payload
  BY <1>2 DEF Base, Payloads
<1>5. Cur = <<current>> /\ Cur # <<>> /\ Head(Cur) = current /\ Tail(Cur) = <<>>
  BY <1>2 DEF Cur
<1>6. r' = r /\ Cur' = Tail(Cur)
  <2>1. r' = r
    BY <1>2, <1>3 DEF Shown
  <2>2. Cur' = <<>>
    BY <1>2 DEF Cur
  <2> QED
    BY <1>5, <2>1, <2>2
<1>7. Way = Pend \o u /\ Way' = Pend' \o v
  BY <1>6 DEF Way
<1> HIDE DEF r
<1>8. Cut(u, v, 1) /\ u[1] = current
  BY <1>1, <1>5, CutBefore
<1> HIDE DEF u, v
<1>9. CASE Fifo!AppendToFifo(c) /\ UNCHANGED lostAt
  <2>1. /\ accepted' = Append(accepted, c) /\ delivered' = delivered /\ torn' = torn
    BY <1>9 DEF Fifo!AppendToFifo
  <2>2. c \in Codes /\ c \in Payload /\ Read(c) = Read(current)
    <3>1. Question # Invalid /\ Question \in Codes
      BY PayloadAssumption DEF Codes
    <3> QED
      BY <1>4, <3>1 DEF Payload, Read
  <2> HIDE DEF c
  <2>3. accepted \in Seq(Codes)
    BY DEF Base, F!IInv, F!TypeOK
  <2> DEFINE a == Len(accepted)
             d == Len(delivered)
             q == accepted'
  <2>4. /\ Pend = [k \in 1 .. a - d |-> accepted[d + k]]
        /\ Len(Pend) = a - d /\ a - d \in Nat /\ a \in Nat /\ d \in Nat
    BY PendType DEF Base, Pend
  <2>5. /\ Pend' \in Seq(Payload) /\ Len(Pend') = Len(q) - d
        /\ \A k \in 1 .. Len(Pend') : Pend'[k] = q[d + k]
    <3>1. (F!IInv)' /\ (~torn)' /\ delivered' = delivered
      BY <2>1 DEF Base
    <3>2. PendShape'
      BY <3>1, PendIs, PTL
    <3> QED
      BY <3>1, <3>2 DEF PendShape
  <2>6. Len(q) = a + 1 /\ q[a + 1] = c /\ \A k \in 1 .. a : q[k] = accepted[k]
    BY <2>1, <2>2, <2>3
  <2>7. Pend' = Append(Pend, c)
    <3> DEFINE p == Append(Pend, c)
    <3>1. /\ p \in Seq(Payload) /\ Len(p) = (a - d) + 1 /\ p[(a - d) + 1] = c
          /\ \A k \in 1 .. a - d : p[k] = Pend[k]
      BY <1>1, <2>2, <2>4
    <3> HIDE DEF p, q, a, d
    <3>2. Len(Pend') = (a - d) + 1 /\ d + ((a - d) + 1) = a + 1
      BY <2>4, <2>5, <2>6
    <3>3. ASSUME NEW k \in 1 .. Len(p) PROVE Pend'[k] = p[k]
      <4>1. CASE k = (a - d) + 1
        BY <2>4, <2>5, <2>6, <3>1, <3>2, <4>1
      <4>2. CASE k # (a - d) + 1
        <5>1. k \in 1 .. a - d /\ d + k \in 1 .. a
          BY <2>4, <3>1, <4>2
        <5>2. Pend[k] = accepted[d + k]
          BY <2>4, <5>1
        <5>3. Pend'[k] = q[d + k]
          BY <2>5, <3>1, <3>2
        <5> QED
          BY <2>6, <3>1, <5>1, <5>2, <5>3
      <4> QED
        BY <4>1, <4>2
    <3>4. Pend' = p
      BY <2>5, <3>1, <3>2, <3>3, SeqEqual
    <3> QED
      BY <3>4 DEF p
  <2>8. Same(Pend \o u, Append(Pend, c) \o v)
    BY <1>1, <1>8, <2>2, SameMove
  <2> QED
    BY <1>7, <1>9, <2>7, <2>8
<1>10. CASE lostAt' = Len(typed) /\ UNCHANGED fifo
  <2>1. Pend' = Pend
    BY <1>10 DEF fifo, Pend
  <2>2. Cut(Pend \o u, Pend \o v, Len(Pend) + 1)
    BY <1>1, <1>8, CutAfter
  <2> QED
    BY <1>7, <1>10, <2>1, <2>2
<1> QED
  BY <1>9, <1>10 DEF HandlerEnd

(* The program takes the oldest code from the FIFO.                        *)
LEMMA WayRead ==
  Base /\ Base' /\ ~torn /\ Step /\ Program /\ Fifo!StoreRd =>
    Cut(Way, Way', 1) /\ Way[1] = A /\ A \in Codes
<1> SUFFICES ASSUME Base, Base', ~torn, Step, Program, Fifo!StoreRd
             PROVE  Cut(Way, Way', 1) /\ Way[1] = A /\ A \in Codes
  OBVIOUS
<1> DEFINE r == Cur \o (waiting \o (irqChan \o Shown(sending)))
           a == Len(accepted)
           d == Len(delivered)
           p == Tail(Pend)
<1>1. Pend \in Seq(Payload) /\ r \in Seq(Payload)
  BY WayTypes
<1>2. sending' = sending /\ irqChan' = irqChan
  BY DEF Step, goroutine, chans
<1>3. serving' = serving /\ current' = current /\ waiting' = waiting
  BY DEF Base, OwnTypes, Program, Line!Work, Line!Served, Line!Taken, Line!Left
<1>4. pc = "store_rd" /\ accepted' = accepted /\ torn' = torn
  BY DEF Fifo!StoreRd
<1>5. /\ Len(Pend) = a - d /\ a - d \in Nat /\ a \in Nat /\ d \in Nat
      /\ \A k \in 1 .. Len(Pend) : Pend[k] = accepted[d + k]
      /\ a - d = F!wr - F!rd
  BY PendType DEF Base
<1>6. F!rd < F!wr /\ A = p1[F!rd] /\ F!wr \in Nat /\ F!rd \in Nat
  <2>1. F!rd < F!wr /\ A = p1[F!rd] /\ F!wr \in Nat
    BY <1>4 DEF Base, F!IInv, F!ReaderView, F!TypeOK
  <2>2. F!RdPtr \in 0 .. MaxCell
    BY FifoAssumption DEF F!RdPtr
  <2>3. F!rd \in Nat
    <3>1. p1 \in [0 .. MaxCell -> F!Words]
      BY DEF Base, F!IInv, F!TypeOK
    <3>2. F!rd \in F!Words
      BY <2>2, <3>1 DEF F!rd
    <3> QED
      BY <3>2, FifoAssumption, SMTT(60) DEF F!Words
  <2> QED
    BY <2>1, <2>3
<1>7. a - d >= 1 /\ A = accepted[d + 1]
  <2>1. 1 \in 1 .. F!wr - F!rd /\ F!rd + 1 - 1 = F!rd
    BY <1>6
  <2>2. p1[F!rd + 1 - 1] = accepted[d + 1]
    BY <2>1 DEF Base, F!IInv, F!Conservation, F!Matching
  <2>3. a - d >= 1
    BY <1>5, <1>6
  <2> QED
    BY <1>6, <2>1, <2>2, <2>3
<1>13. A \in Codes
  <2>1. d + 1 \in 1 .. a /\ accepted \in Seq(Codes)
    BY <1>5, <1>7 DEF Base, F!IInv, F!TypeOK
  <2>2. accepted[d + 1] \in Codes
    BY <2>1, ElementOfSeq
  <2> QED
    BY <1>7, <2>2
<1>8. /\ Pend # <<>> /\ Head(Pend) = A
  <2>1. 1 \in 1 .. Len(Pend)
    BY <1>5, <1>7
  <2> QED
    BY <1>1, <1>5, <1>7, <2>1, EmptySeq
<1>9. Len(delivered') = d + 1
  <2>1. a <= MaxAccepted /\ delivered \in Seq(F!Words) /\ A \in F!Words
    BY DEF Base, F!IInv, F!TypeOK
  <2>2. d <= MaxAccepted
    BY <1>5, <2>1, FifoAssumption
  <2>3. delivered' = Append(delivered, A)
    BY <2>2 DEF Fifo!StoreRd
  <2> QED
    BY <2>1, <2>3
<1>10. Pend' = p
  <2>1. /\ p \in Seq(Payload) /\ Len(p) = (a - d) - 1
        /\ \A k \in 1 .. Len(p) : p[k] = Pend[k + 1]
    BY <1>1, <1>5, <1>8, HeadTailProperties
  <2>2. /\ Pend' \in Seq(Payload)
        /\ Len(Pend') = Len(accepted') - Len(delivered')
        /\ \A k \in 1 .. Len(Pend') : Pend'[k] = (accepted')[Len(delivered') + k]
    <3>1. (F!IInv)' /\ (~torn)'
      BY <1>4 DEF Base
    <3>2. PendShape'
      BY <3>1, PendIs, PTL
    <3> QED
      BY <3>2 DEF PendShape
  <2> HIDE DEF p, a, d
  <2>3. Len(Pend') = (a - d) - 1
    BY <1>4, <1>5, <1>9, <2>2 DEF a
  <2>4. ASSUME NEW k \in 1 .. Len(p) PROVE Pend'[k] = p[k]
    <3>1. k + 1 \in 1 .. Len(Pend) /\ k \in 1 .. Len(Pend')
      BY <1>5, <2>1, <2>3
    <3>2. Pend'[k] = accepted[(d + 1) + k]
      BY <1>4, <1>9, <2>2, <3>1
    <3>3. p[k] = accepted[d + (k + 1)]
      BY <1>5, <2>1, <3>1
    <3>4. (d + 1) + k = d + (k + 1)
      BY <1>5, <3>1
    <3> QED
      BY <3>2, <3>3, <3>4
  <2> QED
    BY <2>1, <2>2, <2>3, <2>4, SeqEqual
<1>11. Way = Pend \o r /\ Way' = p \o r
  BY <1>2, <1>3, <1>10 DEF Way, Cur, Shown
<1> HIDE DEF r
<1>12. Cut(Pend \o r, p \o r, 1) /\ (Pend \o r)[1] = Head(Pend)
  BY <1>1, <1>8, CutBefore
<1> QED
  BY <1>8, <1>11, <1>12, <1>13

-----------------------------------------------------------------------------
LEMMA OneQuitInit == Init => OneQuit
<1> SUFFICES ASSUME Init PROVE OneQuit
  OBVIOUS
<1>1. Len(sending) = 0
  BY EmptySeq DEF Init
<1> QED
  BY <1>1 DEF OneQuit

LEMMA SentOneQuit ==
  ASSUME NEW e \in Events PROVE \A k \in 2 .. Len(Sent(e)) : Sent(e)[k] # Quit
<1> DEFINE s == Sent(e)
           P == Payload \cup {Quit}
<1>1. s \in Seq(P) /\ Shown(s) \in Seq(Payload)
  BY SentType, SentCodes
<1>2. Quit \notin Payload
  BY PayloadAssumption DEF Payload
<1> HIDE DEF s, P
<1> SUFFICES ASSUME NEW k \in 2 .. Len(s) PROVE s[k] # Quit
  BY DEF s
<1>3. Len(s) \in Nat /\ s # <<>>
  BY <1>1, LenProperties, EmptySeq
<1>4. CASE Head(s) = Quit
  <2>1. Shown(s) = Tail(s)
    BY <1>3, <1>4 DEF Shown
  <2>2. Len(Tail(s)) = Len(s) - 1 /\ \A i \in 1 .. Len(Tail(s)) : Tail(s)[i] = s[i + 1]
    BY <1>1, <1>3, HeadTailProperties
  <2>3. k - 1 \in 1 .. Len(Tail(s)) /\ (k - 1) + 1 = k
    BY <1>3, <2>2
  <2>4. Tail(s)[k - 1] \in Payload
    BY <1>1, <2>1, <2>3, ElementOfSeq
  <2> QED
    BY <1>2, <2>2, <2>3, <2>4
<1>5. CASE Head(s) # Quit
  <2>1. Shown(s) = s
    BY <1>5 DEF Shown
  <2>2. k \in 1 .. Len(s)
    BY <1>3
  <2>3. s[k] \in Payload
    BY <1>1, <2>1, <2>2, ElementOfSeq
  <2> QED
    BY <1>2, <2>3
<1> QED
  BY <1>4, <1>5

LEMMA OneQuitKept == Payloads /\ OneQuit /\ [Next]_vars => OneQuit'
<1> SUFFICES ASSUME Payloads, OneQuit, [Next]_vars PROVE OneQuit'
  OBVIOUS
<1>1. CASE \E e \in Events : Type(e)
  <2>1. PICK e \in Events : Type(e)
    BY <1>1
  <2>2. sending' = Sent(e)
    BY <2>1 DEF Type
  <2> QED
    BY <2>2, SentOneQuit DEF OneQuit
<1>2. CASE Send
  <2>1. sending # <<>> /\ sending' = Tail(sending)
    BY <1>2 DEF Send
  <2> QED
    BY <2>1, ShownType DEF OneQuit
<1>3. CASE sending' = sending
  BY <1>3 DEF OneQuit
<1>4. Loop \/ UNCHANGED vars => sending' = sending
  BY DEF Loop, Inject, InjectDone, Step, vars, goroutine
<1> QED
  BY <1>1, <1>2, <1>3, <1>4 DEF Next

LEMMA BaseHolds == Spec => []Base
<1>1. Spec => []F!IInv
  BY ImplementsFifo, F!Invariance, FifoAssumptions, PTL
<1>2. Spec => []OwnTypes
  <2>1. F!IInv => F!TypeOK
    BY DEF F!IInv
  <2> QED
    BY <1>1, <2>1, OwnInit, OwnKept, PayloadsCorrect, PTL DEF Spec
<1>3. Spec => []OneQuit
  BY OneQuitInit, OneQuitKept, PayloadsCorrect, PTL DEF Spec
<1> QED
  BY <1>1, <1>2, <1>3, PayloadsCorrect, PTL DEF Base

-----------------------------------------------------------------------------
(* Nothing is on the way when all is quiet, and at first.                  *)
LEMMA QuietWay == Base /\ ~torn /\ Quiet => Way = <<>>
<1> SUFFICES ASSUME Base, ~torn, Quiet PROVE Way = <<>>
  OBVIOUS
<1>1. F!rd = F!wr
  BY DEF Quiet, F!rd, F!wr, Fifo!rd, Fifo!wr, F!RdPtr, F!WrPtr, Fifo!RdPtr, Fifo!WrPtr
<1>2. F!wr \in Nat
  BY DEF Base, F!IInv, F!TypeOK
<1>3. Pend \in Seq(Payload) /\ Len(Pend) = F!wr - F!rd
  BY PendType DEF Base
<1>4. Len(Pend) = 0
  BY <1>1, <1>2, <1>3
<1>5. Pend = <<>>
  BY <1>3, <1>4, EmptySeq
<1>6. Cur = <<>> /\ waiting = <<>> /\ irqChan = <<>> /\ Shown(sending) = <<>>
  BY DEF Quiet, Cur, Shown
<1>7. Way = <<>> \o (<<>> \o (<<>> \o (<<>> \o <<>>)))
  BY <1>5, <1>6 DEF Way
<1> QED
  BY <1>7, EmptySeq, ConcatEmptySeq

LEMMA WayInit == Init /\ Base => WayInv
<1> SUFFICES ASSUME Init, Base PROVE WayInv
  OBVIOUS
<1> DEFINE t == [ev |-> 0, at |-> 0]
           T == <<t>>
<1>1. ~torn
  BY DEF Init, Fifo!Init
<1>2. Quiet
  <2>1. F!RdPtr \in 0 .. MaxCell /\ F!WrPtr \in 0 .. MaxCell
    BY FifoAssumption DEF F!RdPtr, F!WrPtr
  <2>2. Fifo!rd = Fifo!wr
    BY <2>1 DEF Init, Fifo!Init, Fifo!rd, Fifo!wr, Fifo!RdPtr, Fifo!WrPtr, F!RdPtr, F!WrPtr
  <2> QED
    BY <2>2 DEF Init, Line!Init, Fifo!Init, Quiet
<1>3. Way = <<>> /\ Len(Way) = 0
  BY <1>1, <1>2, QuietWay, EmptySeq
<1>4. typed = <<>> /\ Len(typed) = 0 /\ lostAt = 0 /\ ~release /\ ~shift /\ strokes = <<>> /\ Len(strokes) = 0
  BY EmptySeq DEF Init
<1>5. t \in Tags /\ t.ev = 0 /\ t.at = 0
  BY DEF Tags
<1> HIDE DEF t
<1>6. T \in Seq(Tags) /\ Len(T) = 1 /\ T[1] = t
  BY <1>5
<1> HIDE DEF T
<1>7. TagOK(typed, T[1])
  BY <1>4, <1>5, <1>6 DEF TagOK
<1>8. InOrder(typed, lostAt, T) /\ UpToDate(typed, lostAt, T)
  BY <1>4, <1>6 DEF InOrder, UpToDate
<1>9. Tagged(typed, lostAt, T, Way)
  BY <1>3, <1>6, <1>7, <1>8 DEF Tagged
<1>10. Decoded(typed, lostAt, T[1], release, shift, strokes)
  <2>1. ~Awaits(typed, t) /\ ~Should(typed, t) /\ Count(typed, t) = 0
    BY <1>5 DEF Awaits, Should, Count
  <2>2. Awaits(typed, t) \in BOOLEAN /\ Should(typed, t) \in BOOLEAN /\ release \in BOOLEAN /\ shift \in BOOLEAN
    BY DEF Awaits, Should, Base, OwnTypes
  <2> QED
    BY <1>4, <1>6, <2>1, <2>2 DEF Decoded
<1> QED
  BY <1>9, <1>10 DEF WayInv

LEMMA DecodedMore ==
  ASSUME NEW y \in Seq(Events), NEW e \in Events, NEW l \in Nat, NEW d \in Tags,
         NEW rel, NEW sh, NEW st, TagOK(y, d), Decoded(y, l, d, rel, sh, st)
  PROVE  Decoded(Append(y, e), l, d, rel, sh, st)
<1> DEFINE z == Append(y, e)
<1>1. /\ (Awaits(z, d) <=> Awaits(y, d)) /\ (Should(z, d) <=> Should(y, d))
      /\ Count(z, d) = Count(y, d) /\ (Known(z, l, d) <=> Known(y, l, d))
  BY TagGrow
<1>2. Len(y) \in Nat /\ \A i \in 1 .. Len(y) : z[i] = y[i]
  BY LenProperties
<1>3. /\ Awaits(z, d) \in BOOLEAN /\ Awaits(y, d) \in BOOLEAN
      /\ Should(z, d) \in BOOLEAN /\ Should(y, d) \in BOOLEAN
  BY DEF Awaits, Should
<1> HIDE DEF z
<1>4. Count(y, d) <= Len(y) /\ Count(y, d) \in Int
  BY <1>2 DEF Count, TagOK, Tags
<1>5. rel = Awaits(z, d) /\ (Known(z, l, d) => sh = Should(z, d))
  BY <1>1, <1>3 DEF Decoded
<1>6. l = 0 => Len(st) = Count(z, d) /\ \A i \in 1 .. Len(st) : st[i] = Stroke(z[i])
  BY <1>1, <1>2, <1>4 DEF Decoded
<1> QED
  BY <1>5, <1>6 DEF Decoded, z

LEMMA DecodedDrop ==
  ASSUME NEW y \in Seq(Events), NEW l, NEW d \in Tags,
         NEW rel, NEW sh, NEW st, TagOK(y, d), Decoded(y, l, d, rel, sh, st), Len(y) # 0
  PROVE  Decoded(y, Len(y), d, rel, sh, st)
<1>1. Len(y) \in Nat \ {0}
  BY LenProperties
<1>2. d.ev \in Nat /\ d.ev <= Len(y)
  BY DEF Tags, TagOK
<1>3. ~Known(y, Len(y), d)
  BY <1>1, <1>2 DEF Known
<1> QED
  BY <1>1, <1>3 DEF Decoded

-----------------------------------------------------------------------------
(* The invariant, action by action.                                        *)
LEMMA WayStays ==
  ASSUME Base, WayInv, Same(Way, Way'), ~torn, UNCHANGED <<typed, lostAt, decoder>>
  PROVE  WayInv'
<1>1. PICK T : /\ Tagged(typed, lostAt, T, Way)
               /\ Decoded(typed, lostAt, T[1], release, shift, strokes)
  BY DEF WayInv
<1>2. Tagged(typed, lostAt, T, Way')
  BY <1>1, TaggedSame
<1>3. /\ typed' = typed /\ lostAt' = lostAt
      /\ release' = release /\ shift' = shift /\ strokes' = strokes
  BY DEF decoder
<1> QED
  BY <1>1, <1>2, <1>3 DEF WayInv

LEMMA WayLoses ==
  ASSUME Base, WayInv, NEW i, Cut(Way, Way', i), ~torn, UNCHANGED <<typed, decoder>>,
         lostAt' = Len(typed)
  PROVE  WayInv'
<1>1. PICK T : /\ Tagged(typed, lostAt, T, Way)
               /\ Decoded(typed, lostAt, T[1], release, shift, strokes)
  BY DEF WayInv
<1>2. typed \in Seq(Events)
  BY DEF Base, OwnTypes
<1>3. Len(typed) # 0 /\ \E U : Tagged(typed, Len(typed), U, Way') /\ U[1] = T[1]
  BY <1>1, <1>2, TaggedDrop
<1>4. PICK U : Tagged(typed, Len(typed), U, Way') /\ U[1] = T[1]
  BY <1>3
<1>5. T[1] \in Tags /\ TagOK(typed, T[1])
  <2>1. Way \in Seq(Payload)
    BY DEF Cut
  <2>2. /\ Len(Way) \in Nat /\ Len(T) = Len(Way) + 1
        /\ \A k \in 1 .. Len(T) : T[k] \in Tags /\ TagOK(typed, T[k])
    BY <1>1, <2>1, TaggedParts
  <2>3. 1 \in 1 .. Len(T)
    BY <2>2
  <2> QED
    BY <2>2, <2>3
<1>6. Decoded(typed, Len(typed), T[1], release, shift, strokes)
  BY <1>1, <1>2, <1>3, <1>5, DecodedDrop
<1>7. /\ typed' = typed /\ lostAt' = Len(typed)
      /\ release' = release /\ shift' = shift /\ strokes' = strokes
  BY DEF decoder
<1> QED
  BY <1>4, <1>6, <1>7 DEF WayInv

LEMMA WayType == \A e \in Events : Base /\ WayInv /\ ~torn /\ Type(e) => WayInv'
<1> SUFFICES ASSUME NEW e \in Events, Base, WayInv, ~torn, Type(e) PROVE WayInv'
  OBVIOUS
<1>1. PICK T : /\ Tagged(typed, lostAt, T, Way)
               /\ Decoded(typed, lostAt, T[1], release, shift, strokes)
  BY DEF WayInv
<1>2. typed \in Seq(Events) /\ lostAt \in 0 .. Len(typed) /\ Way \in Seq(Payload)
  BY WayTypes DEF Base, OwnTypes
<1>3. lostAt \in Nat
  BY <1>2, LenProperties
<1> DEFINE s == Shown(Sent(e))
<1>4. PICK U : Tagged(Append(typed, e), lostAt, U, Way \o s) /\ U[1] = T[1]
  BY <1>1, <1>2, TaggedMore
<1>5. T[1] \in Tags /\ TagOK(typed, T[1])
  <2>1. /\ Len(Way) \in Nat /\ Len(T) = Len(Way) + 1
        /\ \A k \in 1 .. Len(T) : T[k] \in Tags /\ TagOK(typed, T[k])
    BY <1>1, <1>2, TaggedParts
  <2>2. 1 \in 1 .. Len(T)
    BY <2>1
  <2> QED
    BY <2>1, <2>2
<1>6. Decoded(Append(typed, e), lostAt, T[1], release, shift, strokes)
  BY <1>1, <1>2, <1>3, <1>5, DecodedMore
<1>7. /\ typed' = Append(typed, e) /\ lostAt' = lostAt
      /\ release' = release /\ shift' = shift /\ strokes' = strokes
  BY DEF Type, decoder
<1>8. Way' = Way \o s
  BY WayMore
<1> QED
  BY <1>4, <1>6, <1>7, <1>8 DEF WayInv

LEMMA WayDecode ==
  Base /\ Base' /\ WayInv /\ ~torn /\ Step /\ Program /\ Fifo!StoreRd /\ Decode(A) => WayInv'
<1> SUFFICES ASSUME Base, Base', WayInv, ~torn, Step, Program, Fifo!StoreRd, Decode(A)
             PROVE  WayInv'
  OBVIOUS
<1>1. PICK T : /\ Tagged(typed, lostAt, T, Way)
               /\ Decoded(typed, lostAt, T[1], release, shift, strokes)
  BY DEF WayInv
<1>2. /\ typed \in Seq(Events) /\ lostAt \in 0 .. Len(typed) /\ Len(typed) <= MaxTyped
      /\ release \in BOOLEAN /\ shift \in BOOLEAN
      /\ strokes \in Seq([key : F!Words, shift : BOOLEAN])
      /\ A \in F!Words
  BY DEF Base, OwnTypes, F!IInv, F!TypeOK
<1>3. lostAt \in Nat /\ Len(typed) \in Nat
  BY <1>2, LenProperties
<1>4. Cut(Way, Way', 1) /\ Way[1] = A /\ A \in Codes
  BY WayRead
<1>5. A # 0 /\ Read(A) = A
  BY <1>4, CodesAssumption, PayloadAssumption DEF Read
<1>6. /\ Tagged(typed, lostAt, Tail(T), Way') /\ Tail(T)[1] = T[2]
      /\ T[1] \in Tags /\ TagOK(typed, T[1]) /\ T[2] \in Tags /\ Fits(typed, T[2], Way[1])
      /\ T[2].ev > lostAt =>
           IF T[1].ev > lostAt THEN Follows(typed, T[1], T[2])
                               ELSE T[2].ev = lostAt + 1 /\ T[2].at = 1
  BY <1>1, <1>2, <1>4, TaggedNext
<1>7. lostAt = 0 => Len(strokes) <= MaxAccepted
  <2> SUFFICES ASSUME lostAt = 0 PROVE Len(strokes) <= MaxAccepted
    OBVIOUS
  <2>1. Len(strokes) = Count(typed, T[1])
    BY <1>1 DEF Decoded
  <2>2. Count(typed, T[1]) <= Len(typed) /\ Count(typed, T[1]) \in Int
    BY <1>3, <1>6 DEF Count, TagOK, Tags
  <2> QED
    BY <1>2, <1>3, <2>1, <2>2, CapAssumption, FifoAssumption
<1>8. Shift # Break
  BY CodesAssumption
<1>9. /\ shift' = IF A = Shift THEN ~release ELSE shift
      /\ release' = (A = Break)
  BY <1>8 DEF Decode
<1>10. lostAt = 0 => strokes' = IF release \/ A \in {Shift, Break} THEN strokes
                                ELSE Append(strokes, [key |-> A, shift |-> shift])
  <2> SUFFICES ASSUME lostAt = 0
               PROVE  strokes' = IF release \/ A \in {Shift, Break} THEN strokes
                                 ELSE Append(strokes, [key |-> A, shift |-> shift])
    OBVIOUS
  <2>1. ~(Len(strokes) > MaxAccepted)
    BY <1>2, <1>7, LenProperties, FifoAssumption
  <2>2. CASE A \in {Shift, Break}
    BY <2>2 DEF Decode
  <2>3. CASE A \notin {Shift, Break}
    BY <1>5, <2>1, <2>3 DEF Decode, Returned
  <2> QED
    BY <2>2, <2>3
<1>11. Decoded(typed, lostAt, T[2], release', shift', strokes')
  <2>1. Takes(lostAt, Read(A), release, shift, strokes, release', shift', strokes')
    BY <1>2, <1>5, <1>9, <1>10 DEF Takes
  <2>2. After(typed, lostAt, T[1], T[2], A)
    BY <1>4, <1>6 DEF After
  <2> QED
    BY <1>1, <1>2, <1>3, <2>1, <2>2, DecodedNext, Zenon
<1>12. typed' = typed /\ lostAt' = lostAt
  BY DEF Step, Program, goroutine
<1> QED
  BY <1>6, <1>9, <1>11, <1>12 DEF WayInv

(* One step of the machine.                                                *)
LEMMA WayStep == Base /\ Base' /\ WayInv /\ ~torn /\ ~torn' /\ Step => WayInv'
<1> SUFFICES ASSUME Base, Base', WayInv, ~torn, ~torn', Step PROVE WayInv'
  OBVIOUS
<1>1. typed' = typed /\ sending' = sending /\ irqChan' = irqChan
  BY DEF Step, goroutine, chans
<1>2. CASE Boot
  <2>1. UNCHANGED <<typed, lostAt, decoder>>
    BY <1>1, <1>2 DEF Boot
  <2> QED
    BY <1>2, <2>1, WayBoot, WayStays
<1>3. CASE TakeIrq
  <2>1. UNCHANGED <<typed, lostAt, decoder>>
    BY <1>1, <1>3 DEF TakeIrq
  <2> QED
    BY <1>3, <2>1, WayTake, WayStays
<1>4. CASE HandlerEnd
  <2>1. UNCHANGED <<typed, decoder>>
    BY <1>1, <1>4 DEF HandlerEnd
  <2>2. CASE Same(Way, Way') /\ lostAt' = lostAt
    <3>1. UNCHANGED <<typed, lostAt, decoder>>
      BY <2>1, <2>2
    <3> QED
      BY <2>2, <3>1, WayStays
  <2>3. CASE (\E i : Cut(Way, Way', i)) /\ lostAt' = Len(typed)
    BY <2>1, <2>3, WayLoses
  <2> QED
    BY <1>4, <2>2, <2>3, WayHandle
<1>5. CASE Program /\ Fifo!StoreRd /\ Decode(A)
  BY <1>5, WayDecode
<1>6. CASE Program /\ (Fifo!LoadRd \/ Fifo!LoadWr \/ Fifo!LoadKey) /\ UNCHANGED decoder
  <2>1. serving' = serving /\ current' = current /\ waiting' = waiting
    BY <1>6 DEF Base, OwnTypes, Program, Line!Work, Line!Served, Line!Taken, Line!Left
  <2>2. accepted' = accepted /\ delivered' = delivered
    BY <1>6 DEF Fifo!LoadRd, Fifo!LoadWr, Fifo!LoadKey
  <2>3. UNCHANGED <<typed, lostAt, decoder>>
    BY <1>1, <1>6 DEF Program
  <2>4. Same(Way, Way')
    BY <1>1, <2>1, <2>2, WayKept
  <2> QED
    BY <2>3, <2>4, WayStays
<1>7. Program => \/ Fifo!StoreRd /\ Decode(A)
                 \/ (Fifo!LoadRd \/ Fifo!LoadWr \/ Fifo!LoadKey) /\ UNCHANGED decoder
  BY DEF Program
<1> QED
  BY <1>2, <1>3, <1>4, <1>5, <1>6, <1>7 DEF Step

LEMMA WayHolds == Base /\ Base' /\ WayInv /\ [Next]_vars => WayInv'
<1> SUFFICES ASSUME Base, Base', WayInv, [Next]_vars, ~torn' PROVE WayInv'
  BY DEF WayInv
<1>1. ~torn
  <2>1. torn \in BOOLEAN /\ torn' \in BOOLEAN
    BY DEF Base, F!IInv, F!TypeOK
  <2>2. [Next]_vars => torn' = torn \/ torn' = (torn \/ (B # Fifo!wr /\ B # Fifo!rd))
    BY DEF Next, Loop, Type, Send, Inject, InjectDone, Step, Boot, TakeIrq, HandlerEnd,
           Program, vars, fifo, Fifo!AppendToFifo, Fifo!LoadRd, Fifo!LoadWr,
           Fifo!LoadKey, Fifo!StoreRd
  <2> QED
    BY <2>1, <2>2
<1>2. CASE \E e \in Events : Type(e)
  BY <1>1, <1>2, WayType
<1>3. CASE Send
  <2>1. UNCHANGED <<typed, lostAt, decoder>>
    BY <1>3 DEF Send
  <2> QED
    BY <1>1, <1>3, <2>1, WaySend, WayStays
<1>4. CASE Inject
  <2>1. UNCHANGED <<typed, decoder>>
    BY <1>4 DEF Inject, goroutine
  <2>2. CASE Same(Way, Way') /\ lostAt' = lostAt
    <3>1. UNCHANGED <<typed, lostAt, decoder>>
      BY <2>1, <2>2
    <3> QED
      BY <1>1, <2>2, <3>1, WayStays
  <2>3. CASE (\E i : Cut(Way, Way', i)) /\ lostAt' = Len(typed)
    BY <1>1, <2>1, <2>3, WayLoses
  <2> QED
    BY <1>1, <1>4, <2>2, <2>3, WayInject
<1>5. CASE Step
  BY <1>1, <1>5, WayStep
<1>6. CASE InjectDone \/ UNCHANGED vars
  <2>1. /\ UNCHANGED <<accepted, delivered, serving, current>>
        /\ UNCHANGED waiting /\ UNCHANGED irqChan /\ UNCHANGED sending
        /\ UNCHANGED <<typed, lostAt, decoder>>
    BY <1>6 DEF InjectDone, vars, goroutine, chans, line, fifo
  <2>2. Same(Way, Way')
    BY <1>1, <2>1, WayKept
  <2> QED
    BY <1>1, <2>1, <2>2, WayStays
<1> QED
  BY <1>2, <1>3, <1>4, <1>5, <1>6 DEF Next, Loop

LEMMA WayInvariance == Spec => [](Base /\ WayInv)
<1>1. Spec => []Base
  BY BaseHolds
<1>2. Init /\ Base => WayInv
  BY WayInit
<1>3. Base /\ Base' /\ WayInv /\ [Next]_vars => WayInv'
  BY WayHolds
<1> QED
  BY <1>1, <1>2, <1>3, PTL DEF Spec

-----------------------------------------------------------------------------
(* When nothing is on the way, the last code read ends the last event.     *)
LEMMA LastTag ==
  ASSUME Base, ~torn, NEW T, Tagged(typed, lostAt, T, Way)
  PROVE  /\ T[1] \in Tags /\ TagOK(typed, T[1])
         /\ Quiet /\ Len(typed) > lostAt => T[1].ev = Len(typed) /\ Ended(typed, T[1])
<1>1. Way \in Seq(Payload)
  BY WayTypes
<1>2. /\ Len(Way) \in Nat /\ Len(T) = Len(Way) + 1
      /\ \A k \in 1 .. Len(T) : T[k] \in Tags /\ TagOK(typed, T[k])
  BY <1>1, TaggedParts
<1>3. 1 \in 1 .. Len(T)
  BY <1>2
<1>4. ASSUME Quiet, Len(typed) > lostAt
      PROVE  T[1].ev = Len(typed) /\ Ended(typed, T[1])
  <2>1. Len(Way) = 0
    BY <1>4, QuietWay, EmptySeq
  <2>2. Len(T) = 1
    BY <1>2, <2>1
  <2> QED
    BY <1>4, <2>2 DEF Tagged, UpToDate
<1> QED
  BY <1>2, <1>3, <1>4

LEMMA EndOfStroke ==
  ASSUME NEW y \in Seq(Events), NEW d \in Tags, TagOK(y, d), Ended(y, d)
  PROVE  ~Awaits(y, d) /\ ~Should(y, d) /\ Count(y, d) = d.ev
<1>1. CASE d.ev = 0
  BY <1>1 DEF Awaits, Should, Count
<1>2. CASE d.ev # 0
  <2>1. d.ev \in 1 .. Len(y) /\ d.at = Size(y[d.ev])
    BY <1>2, LenProperties DEF Tags, TagOK, Ended
  <2>2. y[d.ev] \in Events
    BY <2>1, ElementOfSeq
  <2>3. /\ Code(y[d.ev], Size(y[d.ev])) # Break /\ Size(y[d.ev]) \in Nat
        /\ Pre(y[d.ev]) \in 0 .. 1 /\ Pre(y[d.ev]) < Size(y[d.ev])
    BY <2>2, CodeShape
  <2>4. ~(d.at <= Pre(y[d.ev]))
    BY <2>1, <2>3
  <2> QED
    BY <2>1, <2>3, <2>4 DEF Awaits, Should, Count
<1> QED
  BY <1>1, <1>2

LEMMA TypedRight == Base /\ WayInv => AsTyped
<1> SUFFICES ASSUME Base, WayInv, lostAt = 0, ~torn
             PROVE  /\ Len(strokes) <= Len(typed)
                    /\ \A i \in 1 .. Len(strokes) : strokes[i] = Stroke(typed[i])
                    /\ Quiet => Len(strokes) = Len(typed) /\ ~release /\ ~shift
  BY DEF AsTyped
<1>1. PICK T : /\ Tagged(typed, lostAt, T, Way)
               /\ Decoded(typed, lostAt, T[1], release, shift, strokes)
  BY DEF WayInv
<1>2. typed \in Seq(Events) /\ Len(typed) \in Nat
  BY LenProperties DEF Base, OwnTypes
<1>3. /\ T[1] \in Tags /\ TagOK(typed, T[1])
      /\ Quiet /\ Len(typed) > lostAt => T[1].ev = Len(typed) /\ Ended(typed, T[1])
  BY <1>1, LastTag
<1>4. /\ release = Awaits(typed, T[1]) /\ shift = Should(typed, T[1])
      /\ Len(strokes) = Count(typed, T[1])
      /\ \A i \in 1 .. Len(strokes) : strokes[i] = Stroke(typed[i])
  BY <1>1 DEF Decoded, Known
<1>5. Len(strokes) <= Len(typed)
  BY <1>2, <1>3, <1>4 DEF Count, TagOK, Tags
<1>6. ASSUME Quiet PROVE Len(strokes) = Len(typed) /\ ~release /\ ~shift
  <2>1. T[1].ev = Len(typed) /\ Ended(typed, T[1])
    <3>1. CASE Len(typed) = 0
      BY <1>2, <1>3, <3>1 DEF TagOK, Tags, Ended
    <3>2. CASE Len(typed) # 0
      BY <1>2, <1>3, <1>6, <3>2
    <3> QED
      BY <3>1, <3>2
  <2> QED
    BY <1>2, <1>3, <1>4, <2>1, EndOfStroke
<1> QED
  BY <1>4, <1>5, <1>6

LEMMA LossRight == Base /\ WayInv => Recovers
<1> SUFFICES ASSUME Base, WayInv, Quiet, ~torn, Len(typed) > lostAt
             PROVE  /\ ~release
                    /\ (\E i \in lostAt + 1 .. Len(typed) : typed[i].shifted) => ~shift
  BY DEF Recovers
<1>1. PICK T : /\ Tagged(typed, lostAt, T, Way)
               /\ Decoded(typed, lostAt, T[1], release, shift, strokes)
  BY DEF WayInv
<1>2. typed \in Seq(Events)
  BY DEF Base, OwnTypes
<1>3. /\ T[1] \in Tags /\ TagOK(typed, T[1])
      /\ T[1].ev = Len(typed) /\ Ended(typed, T[1])
  BY <1>1, LastTag
<1>4. ~Awaits(typed, T[1]) /\ ~Should(typed, T[1])
  BY <1>2, <1>3, EndOfStroke
<1>5. (\E i \in lostAt + 1 .. Len(typed) : typed[i].shifted) => Known(typed, lostAt, T[1])
  BY <1>3 DEF Known
<1> QED
  BY <1>1, <1>4, <1>5 DEF Decoded

(* The program reads the strokes that were typed, each once, in order and  *)
(* with its shift, however the threads interleave, as long as no code is   *)
(* dropped and no old read pointer used.                                   *)
THEOREM StrokesAsTyped == Spec => []AsTyped
  BY WayInvariance, TypedRight, PTL

(* A code dropped anywhere on the way spoils the decoder only until a      *)
(* stroke has come through after it.                                       *)
THEOREM LossForgotten == Spec => []Recovers
  BY WayInvariance, LossRight, PTL

=============================================================================
