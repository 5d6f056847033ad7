--------------------------- MODULE AltSoftSerial ---------------------------
(***************************************************************************)
(* The serial port library of the Kalman sketches: two interrupt driven    *)
(* halves around one 16-bit timer, with a ring buffer each.  The transmit  *)
(* pin is wired to the receive pin, so what is written must come back.     *)
(* end() is never called by the sketches and is left out.  Values nobody   *)
(* reads again (locals of a finished call, compare values switched off,    *)
(* slots outside the live part of a ring) are set back to one value.       *)
(*                                                                         *)
(* The main program runs one call at a time, in steps between which the    *)
(* interrupt handlers run; a handler and a section with interrupts off are *)
(* one step.  The timer, its compare and capture units and the pins are    *)
(* hardware: the pin changes at the compare match, not when a handler runs.*)
(***************************************************************************)
EXTENDS Integers, Sequences, FiniteSetsExt

CONSTANTS
    Bytes,     \* the bytes written
    DataBits,  \* bits of a byte, 8 in the code
    BitTicks,  \* ticks_per_bit
    Wrap,      \* values of the timer, 65536 in the code
    Lead,      \* ticks before a first edge, 16 in the code
    Latency,   \* most ticks an interrupt waits
    RxSize,    \* RX_BUFFER_SIZE
    TxSize     \* TX_BUFFER_SIZE

ASSUME BitsAssumption == DataBits \in Nat \ {0} /\ Bytes \subseteq [1 .. DataBits -> {0, 1}]
ASSUME SizeAssumption == RxSize \in Nat \ {0, 1} /\ TxSize \in Nat \ {0, 1}
(* MAX_COUNTS_PER_BIT is 65536 / 10.5, ten and a half bits being a frame   *)
(* and half a bit.  A bit has a middle (in the code it is no shorter than  *)
(* the 16 ticks of Lead).                                                  *)
ASSUME RateAssumption ==
    /\ BitTicks \in Nat \ {0, 1} /\ Wrap \in Nat
    /\ (2 * DataBits + 5) * BitTicks < 2 * Wrap
(* An interrupt may wait for other handlers and for sections with          *)
(* interrupts off, but not for three quarters of a bit: then the next start*)
(* bit can come before the stop bit of this byte has been waited for.      *)
ASSUME LatencyAssumption ==
    /\ Lead \in 1 .. BitTicks
    /\ Latency \in Nat /\ 4 * Latency < 3 * BitTicks

VARIABLES
    line,    \* level of the wire between the two pins
    timer,   \* counter, compare units A and B, capture unit
    tx,      \* the tx_... variables
    rx,      \* the rx_... variables
    main,    \* where the main program is, and its local variables
    answer,  \* what the last call returned, see SerialPipe
    flying   \* ghost: bytes written, their reception not finished

vars == <<line, timer, tx, rx, main, answer, flying>>

Zero == [i \in 1 .. DataBits |-> 0]

StopState == DataBits + 1   \* the state in which the stop bit follows
SentState == DataBits + 2   \* all bits are out
TailState == DataBits + 3   \* the stop bit is being waited for

(* Mutant of RxStopTicks: until the end of the stop bit. *)
RxStopTicksLong == BitTicks * (DataBits + 2)

(* rx_stop_ticks, a quarter of a bit into the stop bit. *)
RxStopTicks == (BitTicks * (4 * DataBits + 5)) \div 4

After(t, n) == (t + n) % Wrap

(* Mutant of Succ: the end of the ring is missed by one. *)
SuccLate(i, size) == IF i + 1 > size THEN 0 ELSE i + 1

Succ(i, size) == IF i + 1 >= size THEN 0 ELSE i + 1

Count(head, tail, size) == IF head >= tail THEN head - tail ELSE size + head - tail

Contents(ring, size) ==
    [i \in 1 .. Count(ring.head, ring.tail, size) |-> ring.buffer[(ring.tail + i) % size]]

(* Between two calls there are no local variables. *)
Idle == [at |-> "idle", head |-> 0, tail |-> 0, byte |-> Zero]

(* Slots outside the live part of a ring are never read again. *)
Live(ring, size) == {(ring.tail + i) % size : i \in 1 .. Count(ring.head, ring.tail, size)}

Tidy(ring, size) ==
    [ring EXCEPT !.buffer = [i \in 0 .. size - 1 |-> IF i \in Live(ring, size) THEN @[i] ELSE Zero]]

Init ==
    /\ line = 1
    /\ timer = [count |-> 0, late |-> 0,
                ocrA |-> 0, matchA |-> "normal", onA |-> FALSE, flagA |-> FALSE,
                ocrB |-> 0, onB |-> FALSE, flagB |-> FALSE,
                icr |-> 0, edge |-> "falling", flagC |-> FALSE]
    /\ tx = [state |-> 0, byte |-> Zero, bit |-> 0, head |-> 0, tail |-> 0,
             buffer |-> [i \in 0 .. TxSize - 1 |-> Zero]]
    /\ rx = [state |-> 0, byte |-> Zero, bit |-> 0, target |-> 0, head |-> 0, tail |-> 0,
             buffer |-> [i \in 0 .. RxSize - 1 |-> Zero]]
    /\ main = Idle
    /\ answer = <<>>
    /\ flying = <<>>

-----------------------------------------------------------------------------
(* The hardware.                                                           *)

WantC(t) == t.flagC
WantA(t) == t.onA /\ t.flagA
WantB(t) == t.onB /\ t.flagB

Pending(t) == WantA(t) \/ WantB(t) \/ WantC(t)

(* Ticks until the counter reaches v. *)
Until(v) == IF v = timer.count THEN Wrap ELSE (v - timer.count) % Wrap

(* How far time moves in a step.  While a byte is being sent nobody reads  *)
(* the counter before the next match.                                      *)
Stride ==
    IF Pending(timer) \/ tx.state = 0 THEN 1
    ELSE Min({Until(timer.ocrA)} \cup IF timer.onB THEN {Until(timer.ocrB)} ELSE {})

(* Compare unit A drives the pin; the capture unit stores the time of an   *)
(* edge of the kind it waits for.                                          *)
Tick ==
    /\ Pending(timer) => timer.late < Latency
    /\ LET now   == After(timer.count, Stride)
           isA   == timer.onA /\ now = timer.ocrA
           isB   == timer.onB /\ now = timer.ocrB
           level == IF ~isA THEN line ELSE IF timer.matchA = "set" THEN 1 ELSE 0
           edge  == \/ level < line /\ timer.edge = "falling"
                    \/ level > line /\ timer.edge = "rising"
       IN /\ line' = level
          /\ timer' = [timer EXCEPT !.count = now,
                                    !.late = IF Pending(timer) THEN @ + 1 ELSE 0,
                                    !.flagA = @ \/ isA,
                                    !.flagB = @ \/ isB,
                                    !.flagC = @ \/ edge,
                                    !.icr = IF edge THEN now ELSE @]
    /\ UNCHANGED <<tx, rx, main, answer, flying>>

(* The timer after a handler has left it as t. *)
Served(t) == [t EXCEPT !.late = IF Pending(t) THEN @ ELSE 0]

-----------------------------------------------------------------------------
(* Transmission.                                                           *)

(* Mutant of StartNow: the compare interrupt is not switched on. *)
StartNowSilent(t) ==
    [t EXCEPT !.flagA = FALSE, !.matchA = "clear", !.ocrA = After(t.count, Lead)]

(* A start bit Lead ticks from now, by the compare unit. *)
StartNow(t) ==
    [t EXCEPT !.onA = TRUE, !.flagA = FALSE, !.matchA = "clear",
              !.ocrA = After(t.count, Lead)]

WriteCall(b) ==
    /\ main.at = "idle"
    /\ main' = [main EXCEPT !.at = "write_wait", !.head = Succ(tx.head, TxSize), !.byte = b]
    /\ answer' = <<>>
    /\ UNCHANGED <<line, timer, tx, rx, flying>>

WriteRoom ==
    /\ main.at = "write_wait"
    /\ tx.tail # main.head
    /\ main' = [main EXCEPT !.at = "write_cli"]
    /\ UNCHANGED <<line, timer, tx, rx, answer, flying>>

(* From cli() to the restored SREG. *)
WriteByte ==
    /\ main.at = "write_cli"
    /\ \/ /\ tx.state # 0
          /\ tx' = [tx EXCEPT !.buffer[main.head] = main.byte, !.head = main.head]
          /\ UNCHANGED timer
       \/ /\ tx.state = 0
          /\ tx' = [tx EXCEPT !.state = 1, !.byte = main.byte, !.bit = 0]
          /\ timer' = StartNow(timer)
    /\ flying' = Append(flying, main.byte)
    /\ main' = Idle
    /\ UNCHANGED <<line, rx, answer>>

FlushCall ==
    /\ main.at = "idle"
    /\ main' = [main EXCEPT !.at = "flush"]
    /\ answer' = <<>>
    /\ UNCHANGED <<line, timer, tx, rx, flying>>

FlushDone ==
    /\ main.at = "flush"
    /\ tx.state = 0
    /\ main' = Idle
    /\ UNCHANGED <<line, timer, tx, rx, answer, flying>>

(* tx_byte is kept whole here: in state i the code has shifted it i - 1    *)
(* times and its lowest bit is bit i.                                      *)
Level(i) == IF i < StopState THEN tx.byte[i] ELSE 1

(* The states whose bit differs from the level of the line. *)
Changes == {i \in tx.state .. StopState : Level(i) # tx.bit}

(* The first of them gets the next edge. *)
SendEdge(t) ==
    \E i \in Changes :
        /\ \A j \in Changes : i <= j
        /\ tx' = [tx EXCEPT !.state = i + 1, !.bit = 1 - @]
        /\ timer' = Served([t EXCEPT
                      !.ocrA = After(@, (i + 1 - tx.state) * BitTicks),
                      !.matchA = IF tx.bit = 0 THEN "set" ELSE "clear"])

(* Mutant of SendTail: the stop bit is not waited for. *)
SendTailShort(t) ==
    /\ tx' = [tx EXCEPT !.state = 0, !.byte = Zero, !.bit = 0]
    /\ timer' = Served([t EXCEPT !.matchA = "normal", !.onA = FALSE, !.ocrA = 0])

(* Nothing is queued: wait for the end of the stop bit, then switch off.   *)
SendTail(t) ==
    IF tx.state < TailState
    THEN /\ tx' = [tx EXCEPT !.state = TailState]
         /\ timer' = Served([t EXCEPT
                       !.ocrA = After(@, (SentState + 1 - tx.state) * BitTicks)])
    ELSE /\ tx' = [tx EXCEPT !.state = 0]
         /\ timer' = Served([t EXCEPT !.matchA = "normal", !.onA = FALSE, !.ocrA = 0])

(* Mutant of SendNext: always counted from the last match. *)
SendNextStale(t) ==
    LET tail == Succ(tx.tail, TxSize)
    IN /\ tx' = Tidy([tx EXCEPT !.tail = tail, !.byte = tx.buffer[tail], !.bit = 0, !.state = 1],
                 TxSize)
       /\ timer' = Served([t EXCEPT
                     !.matchA = "clear",
                     !.ocrA = After(@, IF tx.state < TailState
                                       THEN (SentState + 1 - tx.state) * BitTicks ELSE Lead)])

SendNext(t) ==
    LET tail == Succ(tx.tail, TxSize)
    IN /\ tx' = Tidy([tx EXCEPT !.tail = tail, !.byte = tx.buffer[tail], !.bit = 0, !.state = 1],
                 TxSize)
       /\ timer' = Served([t EXCEPT
                     !.matchA = "clear",
                     !.ocrA = IF tx.state < TailState
                              THEN After(@, (SentState + 1 - tx.state) * BitTicks)
                              ELSE After(t.count, Lead)])

(* Mutant of Queued: a byte written during the last stop bit is missed. *)
QueuedBefore == tx.head # tx.tail /\ tx.state < TailState

Queued == tx.head # tx.tail

(* ISR(COMPARE_A_INTERRUPT) *)
CompareA ==
    /\ WantA(timer) /\ ~WantC(timer)
    /\ LET t == [timer EXCEPT !.flagA = FALSE]
       IN IF Changes # {} THEN SendEdge(t)
          ELSE IF Queued THEN SendNext(t)
          ELSE SendTail(t)
    /\ UNCHANGED <<line, rx, main, answer, flying>>

-----------------------------------------------------------------------------
(* Reception.                                                              *)

(* Mutant of Push: a full buffer is overwritten. *)
PushOver(r, b) ==
    LET head == Succ(r.head, RxSize)
    IN [r EXCEPT !.buffer[head] = b, !.head = head]

Push(r, b) ==
    LET head == Succ(r.head, RxSize)
    IN IF head # r.tail THEN [r EXCEPT !.buffer[head] = b, !.head = head] ELSE r

(* n bits of level v are shifted into b from above. *)
Shift(b, n, v) == [i \in 1 .. DataBits |-> IF i + n <= DataBits THEN b[i + n] ELSE v]

(* A byte is complete: it is stored and the next start bit awaited. *)
Complete(b) ==
    /\ rx' = [Push(rx, b) EXCEPT !.state = 0, !.bit = 0, !.byte = Zero, !.target = 0]
    /\ flying' = IF flying = <<>> THEN <<>> ELSE Tail(flying)

(* The unsigned difference in the handler's loop says that the middle of   *)
(* bit n from here is still to come.                                       *)
Ahead(n) == (timer.icr - rx.target - n * BitTicks) % Wrap > Wrap - 1 - BitTicks

(* Bits whose middle has passed, as far as the byte goes. *)
Passed ==
    LET left == StopState - rx.state
        next == {n \in 0 .. left : Ahead(n)}
    IN IF next = {} THEN left ELSE Min(next)

(* ISR(CAPTURE_INTERRUPT) *)
Capture ==
    /\ WantC(timer)
    /\ LET level == 1 - rx.bit      \* rx_bit once it has been turned over
           t     == [timer EXCEPT !.flagC = FALSE, !.icr = 0,
                                  !.edge = IF rx.bit = 1 THEN "falling" ELSE "rising"]
           state == rx.state + Passed
           b     == Shift(rx.byte, Passed, level)
       IN \/ /\ rx.state = 0 /\ rx.bit = 0
             /\ rx' = [rx EXCEPT !.bit = level, !.state = 1,
                                 !.target = After(timer.icr, BitTicks + BitTicks \div 2)]
             /\ timer' = Served([t EXCEPT !.ocrB = After(timer.icr, RxStopTicks),
                                          !.onB = TRUE, !.flagB = FALSE])
             /\ UNCHANGED flying
          \/ /\ rx.state = 0 /\ rx.bit = 1
             /\ rx' = [rx EXCEPT !.bit = level]
             /\ timer' = Served(t)
             /\ UNCHANGED flying
          \/ /\ rx.state # 0 /\ state < StopState
             /\ rx' = [rx EXCEPT !.bit = level, !.byte = b, !.state = state,
                                 !.target = After(@, Passed * BitTicks)]
             /\ timer' = Served(t)
             /\ UNCHANGED flying
          \/ /\ rx.state # 0 /\ state >= StopState
             /\ Complete(b)
             /\ timer' = Served([t EXCEPT !.onB = FALSE, !.flagB = FALSE, !.ocrB = 0,
                                       !.edge = "falling"])
    /\ UNCHANGED <<line, tx, main, answer>>

(* ISR(COMPARE_B_INTERRUPT): no edge came until the stop bit, so the bits  *)
(* still missing have the level of the line.                               *)
CompareB ==
    /\ WantB(timer) /\ ~WantC(timer) /\ ~WantA(timer)
    /\ Complete(IF rx.state < StopState
                THEN Shift(rx.byte, StopState - rx.state, 1 - rx.bit) ELSE rx.byte)
    /\ timer' = Served([timer EXCEPT !.flagB = FALSE, !.onB = FALSE, !.ocrB = 0,
                                 !.edge = "falling"])
    /\ UNCHANGED <<line, tx, main, answer>>

(* read(), peek() and available() begin with a copy of the head ... *)
LoadHead(call) ==
    /\ main.at = "idle"
    /\ main' = [main EXCEPT !.at = call, !.head = rx.head]
    /\ answer' = <<>>
    /\ UNCHANGED <<line, timer, tx, rx, flying>>

(* ... and a copy of the tail; with both equal there is nothing to read.   *)
LoadTail ==
    /\ main.at \in {"read", "peek"}
    /\ IF main.head = rx.tail
       THEN main' = Idle /\ answer' = <<-1>>
       ELSE /\ main' = [main EXCEPT !.tail = Succ(rx.tail, RxSize),
                                    !.at = IF @ = "read" THEN "read_out" ELSE "peek_out"]
            /\ UNCHANGED answer
    /\ UNCHANGED <<line, timer, tx, rx, flying>>

PeekOut ==
    /\ main.at = "peek_out"
    /\ answer' = rx.buffer[main.tail]
    /\ main' = Idle
    /\ UNCHANGED <<line, timer, tx, rx, flying>>

ReadOut ==
    /\ main.at = "read_out"
    /\ main' = [main EXCEPT !.at = "read_tail", !.byte = rx.buffer[main.tail]]
    /\ UNCHANGED <<line, timer, tx, rx, answer, flying>>

ReadTail ==
    /\ main.at = "read_tail"
    /\ rx' = Tidy([rx EXCEPT !.tail = main.tail], RxSize)
    /\ answer' = main.byte
    /\ main' = Idle
    /\ UNCHANGED <<line, timer, tx, flying>>

AvailableOut ==
    /\ main.at = "available"
    /\ answer' = <<Count(main.head, rx.tail, RxSize)>>
    /\ main' = Idle
    /\ UNCHANGED <<line, timer, tx, rx, flying>>

(* flushInput(): the tail is loaded, then stored as the head. *)
FlushInputCall ==
    /\ main.at = "idle"
    /\ main' = [main EXCEPT !.at = "flush_input", !.tail = rx.tail]
    /\ answer' = <<>>
    /\ UNCHANGED <<line, timer, tx, rx, flying>>

FlushInput ==
    /\ main.at = "flush_input"
    /\ rx' = Tidy([rx EXCEPT !.head = main.tail], RxSize)
    /\ main' = Idle
    /\ UNCHANGED <<line, timer, tx, answer, flying>>

-----------------------------------------------------------------------------
Call ==
    \/ \E b \in Bytes : WriteCall(b)
    \/ \E c \in {"read", "peek", "available"} : LoadHead(c)
    \/ FlushCall
    \/ FlushInputCall

Continue ==
    \/ WriteRoom \/ WriteByte \/ FlushDone
    \/ LoadTail \/ PeekOut \/ ReadOut \/ ReadTail \/ AvailableOut
    \/ FlushInput

Isr == Capture \/ CompareA \/ CompareB

Next == Tick \/ Isr \/ Call \/ Continue

Spec == Init /\ [][Next]_vars

FairSpec == Spec /\ WF_vars(Tick) /\ WF_vars(Isr) /\ WF_vars(Continue)
-----------------------------------------------------------------------------
(* The variables of both halves keep their types and the rings their     *)
(* bounds; rx_buffer and tx_buffer are never left by an index.             *)
TypeOK ==
    /\ line \in {0, 1}
    /\ timer.count \in 0 .. Wrap - 1 /\ timer.late \in 0 .. Latency
    /\ tx.state \in 0 .. TailState /\ tx.bit \in {0, 1}
    /\ tx.head \in 0 .. TxSize - 1 /\ tx.tail \in 0 .. TxSize - 1
    /\ rx.state \in 0 .. DataBits /\ rx.bit \in {0, 1}
    /\ rx.head \in 0 .. RxSize - 1 /\ rx.tail \in 0 .. RxSize - 1

(* writeByte() looks at tx_state to choose between starting the transmitter*)
(* and queueing, the compare handler looks at the ring before it stops: no *)
(* byte may be left in the ring with nobody to send it, whatever the order.*)
NoIdleBacklog == tx.state = 0 => tx.head = tx.tail /\ line = 1

(* What read() and available() will answer is decided when they load the   *)
(* head.                                                                   *)
Pipe == INSTANCE SerialPipe WITH
    Room  <- RxSize - 1,
    pipe  <- flying,
    inbox <- Contents(rx, RxSize),
    answer <- CASE main.at \in {"read", "peek"} /\ main.head = rx.tail -> <<-1>>
                [] main.at = "available" -> <<Count(main.head, rx.tail, RxSize)>>
                [] OTHER -> answer

(* The bits found between the edges are the bytes written, in their order, *)
(* also when bytes follow each other without a pause, interrupts come late *)
(* and both rings wrap; read(), peek() and available() see the ring of one *)
(* instant although the capture handlers add to it between their steps.    *)
Implements == Pipe!Spec

(* flushOutput() returns after the last stop bit: by then the receiver has *)
(* every byte.                                                             *)
FlushedIsSent == [][FlushDone => flying = <<>>]_vars

(* Ticks until the next match of compare unit A; negative while one has not*)
(* been served.                                                            *)
NextEdge ==
    IF timer.flagA THEN -((timer.count - timer.ocrA) % Wrap) ELSE Until(timer.ocrA)

(* The most ticks a byte takes from the ring, from its start bit to the end*)
(* of its stop bit, with what may be lost between two bytes.               *)
Turn == BitTicks * (DataBits + 2) + Lead + Latency

(* The most ticks until the transmitter stops, if nothing more is written. *)
TimeLeft ==
    IF tx.state = 0 THEN 0
    ELSE NextEdge + BitTicks * (TailState - tx.state) + Latency + 1
         + Turn * Count(tx.head, tx.tail, TxSize)

(* The transmitter stops in time: only a byte written adds to the time it  *)
(* still needs, and every tick takes away from it.  A match moved into the *)
(* past, which the timer would only reach a turn later, or a byte started  *)
(* twice, would add to it.                                                 *)
Drains ==
    [][/\ ~WriteByte => TimeLeft' <= TimeLeft
       /\ Tick /\ tx.state # 0 => TimeLeft' < TimeLeft]_vars

(* It is running only while there is time left, and that is never more than*)
(* it takes to send what fits into the ring: writeByte() and flushOutput() *)
(* wait no longer.                                                         *)
StopsInTime == tx.state # 0 => TimeLeft \in 1 .. Turn * (TxSize + 1)

(* No call waits for ever: a full ring drains and the transmitter stops.   *)
CallsReturn == (main.at # "idle") ~> (main.at = "idle")
=============================================================================
