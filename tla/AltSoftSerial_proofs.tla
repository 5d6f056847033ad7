------------------------ MODULE AltSoftSerial_proofs ------------------------
(***************************************************************************)
(* For every baud rate, buffer size and interrupt latency.                 *)
(*                                                                         *)
(* NothingIsLeftBehind: the transmitter never stops with a byte in its     *)
(* ring, and it leaves the line high.  tx_bit is the level the compare unit*)
(* will give the line at the next match, and once that match has happened  *)
(* it is the level of the line.  After the stop bit was scheduled both are *)
(* 1 and stay so until the next byte.                                      *)
(*                                                                         *)
(* TypesCorrect: the indices the main program keeps between two steps lie  *)
(* in their rings, and Passed never takes a byte beyond its stop bit       *)
(* without completing it.                                                  *)
(*                                                                         *)
(* FlushWaits and PortIsPipe follow from one more invariant, PortInv.  At  *)
(* any time the bytes under way are those of the frames on the wire,       *)
(* followed by what waits in the transmit ring (Fly).  The next match of   *)
(* unit A is d ticks away (Due) and the frame being received began g ticks *)
(* from now, both negative when past; where the receiver is in the frame   *)
(* follows from d and g (Phase).  The handlers may run late, but never by  *)
(* as much as a bit, so that the differences of 16-bit times they look at  *)
(* are those of the real times.                                            *)
(*                                                                         *)
(* StopsInBoundedTime and RingDrains read off the same d how long the      *)
(* transmitter still needs (Need): every handler moves the next match into *)
(* the future, by no more than it takes off what is left to send.          *)
(***************************************************************************)
EXTENDS AltSoftSerial, TLAPS, WellFoundedInduction, SequenceTheorems

Shapes ==
    /\ DOMAIN timer = {"count", "late", "ocrA", "matchA", "onA", "flagA", "ocrB", "onB",
                       "flagB", "icr", "edge", "flagC"}
    /\ DOMAIN tx = {"state", "byte", "bit", "head", "tail", "buffer"}
    /\ tx.state \in 0 .. TailState /\ tx.bit \in {0, 1}

Stopped == tx.state = 0 => ~timer.onA /\ tx.head = tx.tail /\ line = 1

Driven ==
    tx.state # 0 =>
        /\ timer.matchA = IF tx.bit = 1 THEN "set" ELSE "clear"
        /\ timer.onA /\ timer.flagA => line = tx.bit

Ended ==
    /\ tx.state >= SentState => tx.bit = 1
    /\ tx.state = TailState => line = 1

IInv == Shapes /\ Stopped /\ Driven /\ Ended

USE BitsAssumption

LEMMA StatesLemma ==
    /\ DataBits \in Nat \ {0}
    /\ StopState = DataBits + 1 /\ SentState = DataBits + 2 /\ TailState = DataBits + 3
BY DEF StopState, SentState, TailState

LEMMA InitIInv == Init => IInv
BY StatesLemma DEF Init, IInv, Shapes, Stopped, Driven, Ended

LEMMA SameIInv ==
    ASSUME IInv, UNCHANGED <<line, tx>>, DOMAIN timer' = DOMAIN timer,
           timer'.onA = timer.onA, timer'.flagA = timer.flagA, timer'.matchA = timer.matchA
    PROVE  IInv'
BY DEF IInv, Shapes, Stopped, Driven, Ended

LEMMA TickIInv == ASSUME IInv, Tick PROVE IInv'
<1> DEFINE now == After(timer.count, Stride)
           isA == timer.onA /\ now = timer.ocrA
           level == IF ~isA THEN line ELSE IF timer.matchA = "set" THEN 1 ELSE 0
<1>1. line' = level /\ UNCHANGED tx
  BY DEF Tick
<1>2. /\ DOMAIN timer' = DOMAIN timer
      /\ timer'.onA = timer.onA /\ timer'.matchA = timer.matchA
      /\ timer'.flagA = (timer.flagA \/ isA)
  BY DEF Tick, IInv, Shapes
<1> HIDE DEF now
<1>3. CASE ~isA
  <2>1. line' = line /\ (timer'.flagA <=> timer.flagA)
    BY <1>1, <1>2, <1>3
  <2> QED BY <1>1, <1>2, <2>1 DEF IInv, Shapes, Stopped, Driven, Ended
<1>4. CASE isA
  <2>1. tx.state # 0
    BY <1>4 DEF IInv, Stopped
  <2>2. line' = tx.bit
    BY <1>1, <1>4, <2>1 DEF IInv, Driven, Shapes
  <2>3. tx.state = TailState => tx.bit = 1
    BY StatesLemma DEF IInv, Ended
  <2> QED BY <1>1, <1>2, <2>1, <2>2, <2>3 DEF IInv, Shapes, Stopped, Driven, Ended
<1> QED BY <1>3, <1>4

LEMMA WriteIInv == ASSUME IInv, WriteByte PROVE IInv'
<1>1. CASE tx.state # 0
  <2>1. /\ UNCHANGED <<line, timer>>
        /\ tx' = [tx EXCEPT !.buffer[main.head] = main.byte, !.head = main.head]
    BY <1>1 DEF WriteByte
  <2>2. DOMAIN tx' = DOMAIN tx /\ tx'.state = tx.state /\ tx'.bit = tx.bit
    BY <2>1 DEF IInv, Shapes
  <2> QED BY <1>1, <2>1, <2>2 DEF IInv, Shapes, Stopped, Driven, Ended
<1>2. CASE tx.state = 0
  <2>1. /\ line' = line /\ timer' = StartNow(timer)
        /\ tx' = [tx EXCEPT !.state = 1, !.byte = main.byte, !.bit = 0]
    BY <1>2 DEF WriteByte
  <2>2. /\ DOMAIN timer' = DOMAIN timer
        /\ timer'.matchA = "clear" /\ timer'.flagA = FALSE
    BY <2>1 DEF StartNow, IInv, Shapes
  <2>3. DOMAIN tx' = DOMAIN tx /\ tx'.state = 1 /\ tx'.bit = 0
    BY <2>1 DEF IInv, Shapes
  <2> QED BY StatesLemma, <2>2, <2>3 DEF IInv, Shapes, Stopped, Driven, Ended
<1> QED BY <1>1, <1>2

LEMMA ServedLemma ==
    ASSUME NEW t, DOMAIN t = DOMAIN timer, Shapes
    PROVE  /\ DOMAIN Served(t) = DOMAIN timer
           /\ Served(t).onA = t.onA /\ Served(t).flagA = t.flagA
           /\ Served(t).matchA = t.matchA
BY DEF Served, Shapes

LEMMA CompareAIInv == ASSUME IInv, CompareA PROVE IInv'
<1> DEFINE t == [timer EXCEPT !.flagA = FALSE]
<1>1. /\ DOMAIN t = DOMAIN timer /\ t.flagA = FALSE
      /\ t.onA = timer.onA /\ t.matchA = timer.matchA
  BY DEF IInv, Shapes
<1>2. line' = line /\ line = tx.bit /\ tx.state # 0
  BY DEF CompareA, WantA, IInv, Stopped, Driven
<1>3. \/ Changes # {} /\ SendEdge(t)
      \/ Changes = {} /\ Queued /\ SendNext(t)
      \/ Changes = {} /\ ~Queued /\ SendTail(t)
  BY DEF CompareA
<1> HIDE DEF t
<1>4. CASE SendEdge(t)
  <2>1. PICK i \in Changes :
          /\ tx' = [tx EXCEPT !.state = i + 1, !.bit = 1 - @]
          /\ timer' = Served([t EXCEPT
                        !.ocrA = After(@, (i + 1 - tx.state) * BitTicks),
                        !.matchA = IF tx.bit = 0 THEN "set" ELSE "clear"])
    BY <1>4 DEF SendEdge
  <2> DEFINE u == [t EXCEPT
                        !.ocrA = After(@, (i + 1 - tx.state) * BitTicks),
                        !.matchA = IF tx.bit = 0 THEN "set" ELSE "clear"]
  <2>2. /\ DOMAIN u = DOMAIN timer /\ u.flagA = FALSE
        /\ u.matchA = IF tx.bit = 0 THEN "set" ELSE "clear"
    BY <1>1 DEF IInv, Shapes
  <2>3. timer' = Served(u)
    BY <2>1
  <2> HIDE DEF u
  <2>4. /\ DOMAIN timer' = DOMAIN timer /\ timer'.flagA = FALSE
        /\ timer'.matchA = IF tx.bit = 0 THEN "set" ELSE "clear"
    BY <2>2, <2>3, ServedLemma DEF IInv
  <2>5. DOMAIN tx' = DOMAIN tx /\ tx'.state = i + 1 /\ tx'.bit = 1 - tx.bit
    BY <2>1 DEF IInv, Shapes
  <2>6. i \in 1 .. StopState /\ (i = StopState => tx.bit = 0)
    BY <1>2, StatesLemma DEF Changes, Level, IInv, Shapes
  <2>7. tx'.state \in 2 .. SentState /\ tx'.bit \in {0, 1}
    BY <2>5, <2>6, StatesLemma DEF IInv, Shapes
  <2>8. tx'.state >= SentState => tx'.bit = 1
    BY <2>5, <2>6, StatesLemma
  <2>9. timer'.matchA = IF tx'.bit = 1 THEN "set" ELSE "clear"
    BY <2>4, <2>5 DEF IInv, Shapes
  <2> QED BY <2>4, <2>5, <2>7, <2>8, <2>9, StatesLemma DEF IInv, Shapes, Stopped, Driven, Ended
<1>5. CASE SendNext(t)
  <2> DEFINE u == [t EXCEPT
                     !.matchA = "clear",
                     !.ocrA = IF tx.state < TailState
                              THEN After(@, (SentState + 1 - tx.state) * BitTicks)
                              ELSE After(t.count, Lead)]
             v == [tx EXCEPT !.tail = Succ(tx.tail, TxSize),
                             !.byte = tx.buffer[Succ(tx.tail, TxSize)],
                             !.bit = 0, !.state = 1]
  <2>1. timer' = Served(u) /\ tx' = Tidy(v, TxSize)
    BY <1>5 DEF SendNext
  <2>2. DOMAIN u = DOMAIN timer /\ u.flagA = FALSE /\ u.matchA = "clear"
    BY <1>1 DEF IInv, Shapes
  <2>3. DOMAIN v = DOMAIN tx /\ v.state = 1 /\ v.bit = 0
    BY DEF IInv, Shapes
  <2> HIDE DEF u, v
  <2>4. DOMAIN timer' = DOMAIN timer /\ timer'.flagA = FALSE /\ timer'.matchA = "clear"
    BY <2>1, <2>2, ServedLemma DEF IInv
  <2>5. DOMAIN tx' = DOMAIN tx /\ tx'.state = 1 /\ tx'.bit = 0
    BY <2>1, <2>3 DEF Tidy, IInv, Shapes
  <2> QED BY <2>4, <2>5, StatesLemma DEF IInv, Shapes, Stopped, Driven, Ended
<1>6. CASE Changes = {} /\ ~Queued /\ SendTail(t)
  <2>1. tx.bit = 1
    <3>1. CASE tx.state <= StopState
      <4>1. StopState \in tx.state .. StopState /\ Level(StopState) = 1
        BY <3>1, StatesLemma DEF Level, IInv, Shapes
      <4> QED BY <1>6, <4>1 DEF Changes
    <3>2. CASE tx.state > StopState
      BY <3>2, StatesLemma DEF IInv, Ended, Shapes
    <3> QED BY <3>1, <3>2, StatesLemma DEF IInv, Shapes
  <2>2. line' = 1
    BY <1>2, <2>1
  <2>3. CASE tx.state < TailState
    <3> DEFINE u == [t EXCEPT !.ocrA = After(@, (SentState + 1 - tx.state) * BitTicks)]
    <3>1. timer' = Served(u) /\ tx' = [tx EXCEPT !.state = TailState]
      BY <1>6, <2>3 DEF SendTail
    <3>2. DOMAIN u = DOMAIN timer /\ u.flagA = FALSE /\ u.matchA = timer.matchA
      BY <1>1 DEF IInv, Shapes
    <3> HIDE DEF u
    <3>3. DOMAIN timer' = DOMAIN timer /\ timer'.flagA = FALSE /\ timer'.matchA = timer.matchA
      BY <3>1, <3>2, ServedLemma DEF IInv
    <3>4. DOMAIN tx' = DOMAIN tx /\ tx'.state = TailState /\ tx'.bit = tx.bit
      BY <3>1 DEF IInv, Shapes
    <3> QED BY <1>2, <2>1, <2>2, <3>3, <3>4, StatesLemma
            DEF IInv, Shapes, Stopped, Driven, Ended
  <2>4. CASE ~(tx.state < TailState)
    <3> DEFINE u == [t EXCEPT !.matchA = "normal", !.onA = FALSE, !.ocrA = 0]
    <3>1. timer' = Served(u) /\ tx' = [tx EXCEPT !.state = 0]
      BY <1>6, <2>4 DEF SendTail
    <3>2. DOMAIN u = DOMAIN timer /\ u.onA = FALSE
      BY <1>1 DEF IInv, Shapes
    <3> HIDE DEF u
    <3>3. DOMAIN timer' = DOMAIN timer /\ timer'.onA = FALSE
      BY <3>1, <3>2, ServedLemma DEF IInv
    <3>4. /\ DOMAIN tx' = DOMAIN tx /\ tx'.state = 0 /\ tx'.bit = tx.bit
          /\ tx'.head = tx.head /\ tx'.tail = tx.tail
      BY <3>1 DEF IInv, Shapes
    <3> QED BY <1>6, <2>1, <2>2, <3>3, <3>4, StatesLemma
            DEF IInv, Shapes, Stopped, Driven, Ended, Queued
  <2> QED BY <2>3, <2>4
<1> QED BY <1>3, <1>4, <1>5, <1>6

LEMMA CaptureIInv == ASSUME IInv, Capture PROVE IInv'
<1>1. UNCHANGED <<line, tx>>
  BY DEF Capture
<1> DEFINE t == [timer EXCEPT !.flagC = FALSE, !.icr = 0,
                              !.edge = IF rx.bit = 1 THEN "falling" ELSE "rising"]
           t1 == [t EXCEPT !.ocrB = After(timer.icr, RxStopTicks),
                           !.onB = TRUE, !.flagB = FALSE]
           t2 == [t EXCEPT !.onB = FALSE, !.flagB = FALSE, !.ocrB = 0, !.edge = "falling"]
           Alike(u) == /\ DOMAIN u = DOMAIN timer
                       /\ u.onA = timer.onA /\ u.flagA = timer.flagA
                       /\ u.matchA = timer.matchA
<1>2. timer' = Served(t) \/ timer' = Served(t1) \/ timer' = Served(t2)
  BY DEF Capture
<1>3. Alike(t)
  BY DEF IInv, Shapes
<1> HIDE DEF t
<1>4. Alike(t1)
  BY <1>3 DEF IInv, Shapes
<1>5. Alike(t2)
  BY <1>3 DEF IInv, Shapes
<1> HIDE DEF t1, t2
<1>6. DOMAIN timer' = DOMAIN timer /\ timer'.onA = timer.onA
  BY <1>2, <1>3, <1>4, <1>5, ServedLemma DEF IInv
<1>7. timer'.flagA = timer.flagA /\ timer'.matchA = timer.matchA
  BY <1>2, <1>3, <1>4, <1>5, ServedLemma DEF IInv
<1> QED BY <1>1, <1>6, <1>7, SameIInv

LEMMA CompareBIInv == ASSUME IInv, CompareB PROVE IInv'
<1> DEFINE t == [timer EXCEPT !.flagB = FALSE, !.onB = FALSE, !.ocrB = 0, !.edge = "falling"]
<1>1. timer' = Served(t) /\ UNCHANGED <<line, tx>>
  BY DEF CompareB
<1>2. /\ DOMAIN t = DOMAIN timer
      /\ t.onA = timer.onA /\ t.flagA = timer.flagA /\ t.matchA = timer.matchA
  BY DEF IInv, Shapes
<1> HIDE DEF t
<1>3. /\ DOMAIN timer' = DOMAIN timer /\ timer'.onA = timer.onA
      /\ timer'.flagA = timer.flagA /\ timer'.matchA = timer.matchA
  BY <1>1, <1>2, ServedLemma DEF IInv
<1> QED BY <1>1, <1>3, SameIInv

LEMMA NextIInv == IInv /\ [Next]_vars => IInv'
<1> SUFFICES ASSUME IInv, [Next]_vars PROVE IInv'
  OBVIOUS
<1>1. CASE Tick
  BY <1>1, TickIInv
<1>2. CASE Isr
  BY <1>2, CompareAIInv, CompareBIInv, CaptureIInv DEF Isr
<1>3. CASE WriteByte
  BY <1>3, WriteIInv
<1>4. CASE Call
  <2>1. UNCHANGED <<line, timer, tx>>
    BY <1>4 DEF Call, WriteCall, LoadHead, FlushCall, FlushInputCall
  <2> QED BY <2>1, SameIInv
<1>5. CASE Continue /\ ~WriteByte
  <2>1. UNCHANGED <<line, timer, tx>>
    BY <1>5 DEF Continue, WriteRoom, FlushDone, LoadTail, PeekOut, ReadOut, ReadTail,
                AvailableOut, FlushInput
  <2> QED BY <2>1, SameIInv
<1>6. CASE UNCHANGED vars
  BY <1>6, SameIInv DEF vars
<1> QED BY <1>1, <1>2, <1>3, <1>4, <1>5, <1>6 DEF Next

(* A transmitter that has stopped has sent everything and released the     *)
(* line, in whatever order writeByte() and the compare handler ran.        *)
THEOREM NothingIsLeftBehind == Spec => []NoIdleBacklog
<1>1. IInv => NoIdleBacklog
  BY DEF IInv, Stopped, NoIdleBacklog
<1> QED BY InitIInv, NextIInv, <1>1, PTL DEF Spec

-----------------------------------------------------------------------------
(* Types, with the shapes of the records and the local variables the main  *)
(* program will store: an index taken from a ring lies in that ring.       *)
Locals ==
    /\ DOMAIN main = {"at", "head", "tail", "byte"}
    /\ main.at \in {"write_wait", "write_cli"} => main.head \in 0 .. TxSize - 1
    /\ main.at \in {"read_out", "read_tail", "peek_out", "flush_input"} =>
          main.tail \in 0 .. RxSize - 1

TimerOK ==
    /\ timer.count \in 0 .. Wrap - 1 /\ timer.late \in 0 .. Latency
    /\ timer.ocrA \in Int /\ timer.ocrB \in Int /\ timer.icr \in Int

TxOK == tx.head \in 0 .. TxSize - 1 /\ tx.tail \in 0 .. TxSize - 1

RxOK ==
    /\ DOMAIN rx = {"state", "byte", "bit", "target", "head", "tail", "buffer"}
    /\ rx.state \in 0 .. DataBits /\ rx.bit \in {0, 1}
    /\ rx.head \in 0 .. RxSize - 1 /\ rx.tail \in 0 .. RxSize - 1

TInv == IInv /\ line \in {0, 1} /\ TimerOK /\ TxOK /\ RxOK /\ Locals

LEMMA SizesLemma ==
    /\ TxSize \in Nat /\ TxSize > 0 /\ RxSize \in Nat /\ RxSize > 0
    /\ Lead \in Int /\ BitTicks \in Int /\ Latency \in Nat
BY SizeAssumption, RateAssumption, LatencyAssumption

LEMMA WrapLemma == Wrap \in Nat \ {0} /\ \A a, b \in Int : After(a, b) \in 0 .. Wrap - 1
<1> DEFINE p == (2 * DataBits + 5) * BitTicks
<1>1. p \in Nat
  <2> DEFINE d == 2 * DataBits + 5
  <2>1. d \in Nat
    OBVIOUS
  <2> HIDE DEF d
  <2>2. d * BitTicks \in Nat
    BY <2>1, RateAssumption
  <2> QED BY <2>2 DEF d
<1>2. Wrap \in Nat /\ p < 2 * Wrap
  BY RateAssumption
<1> HIDE DEF p
<1>3. Wrap \in Nat \ {0}
  BY <1>1, <1>2
<1>4. ASSUME NEW a \in Int, NEW b \in Int PROVE After(a, b) \in 0 .. Wrap - 1
  <2> DEFINE c == a + b
  <2>1. c \in Int
    OBVIOUS
  <2> HIDE DEF c
  <2>2. c % Wrap \in 0 .. Wrap - 1
    BY <1>3, <2>1
  <2> QED BY <2>2 DEF After, c
<1> QED BY <1>3, <1>4

LEMMA CountLemma == \A t \in 0 .. Wrap - 1 : t \in Int
OBVIOUS

LEMMA SuccLemma ==
    ASSUME NEW size \in Nat, size > 0, NEW i \in 0 .. size - 1
    PROVE  Succ(i, size) \in 0 .. size - 1
BY DEF Succ

(* A set of natural numbers has its least element for its Min.             *)
Less == {p \in Nat \X Nat : p[1] < p[2]}

LEMMA LessWF == IsWellFoundedOn(Less, Nat)
BY NatLessThanWellFounded, Zenon DEF OpToRel, Less

LEMMA MinLemma ==
    ASSUME NEW S \in SUBSET Nat, S # {}
    PROVE  Min(S) \in S /\ \A x \in S : Min(S) <= x
<1>1. PICK m \in S : \A y \in S : ~(<<y, m>> \in Less)
  BY LessWF, WFMin
<1>2. \A y \in S : m <= y
  <2> SUFFICES ASSUME NEW y \in S PROVE m <= y
    OBVIOUS
  <2>1. ~(<<y, m>> \in Less) /\ y \in Nat /\ m \in Nat
    BY <1>1
  <2> QED BY <2>1 DEF Less
<1> QED BY <1>2 DEF Min

LEMMA UntilType == ASSUME TimerOK PROVE \A v \in Int : Until(v) \in Nat
<1> SUFFICES ASSUME NEW v \in Int PROVE Until(v) \in Nat
  OBVIOUS
<1>1. timer.count \in Int
  BY CountLemma DEF TimerOK
<1> DEFINE c == v - timer.count
<1>2. c \in Int
  BY <1>1
<1> HIDE DEF c
<1>3. c % Wrap \in Nat /\ Wrap \in Nat
  BY <1>2, WrapLemma
<1> QED BY <1>3 DEF Until, c

LEMMA StrideLemma == ASSUME TInv PROVE Stride \in Nat
<1>1. \A v \in Int : Until(v) \in Nat
  BY UntilType DEF TInv
<1> DEFINE S == {Until(timer.ocrA)} \cup IF timer.onB THEN {Until(timer.ocrB)} ELSE {}
<1>2. S \in SUBSET Nat /\ S # {}
  BY <1>1 DEF TInv, TimerOK
<1>3. Min(S) \in Nat
  BY <1>2, MinLemma
<1> HIDE DEF S
<1> QED BY <1>3 DEF Stride, S

LEMMA InitTInv == Init => TInv
<1> SUFFICES ASSUME Init PROVE TInv
  OBVIOUS
<1>1. IInv
  BY InitIInv
<1>2. TimerOK
  BY WrapLemma, SizesLemma DEF Init, TimerOK
<1>3. TxOK
  BY SizesLemma DEF Init, TxOK
<1>4. RxOK
  BY SizesLemma DEF Init, RxOK
<1>5. line \in {0, 1} /\ Locals
  BY DEF Init, Locals, Idle
<1> QED BY <1>1, <1>2, <1>3, <1>4, <1>5 DEF TInv

(* Served only ever clears the wait of an interrupt.                       *)
LEMMA ServedTimer ==
    ASSUME NEW t, TimerOK, DOMAIN t = DOMAIN timer, Shapes, timer' = Served(t),
           t.count = timer.count, t.late = timer.late, t.ocrA \in Int, t.ocrB \in Int, t.icr \in Int
    PROVE  TimerOK'
<1>1. /\ timer'.count = timer.count /\ timer'.ocrA = t.ocrA /\ timer'.ocrB = t.ocrB
      /\ timer'.icr = t.icr
      /\ timer'.late = IF Pending(t) THEN timer.late ELSE 0
  BY DEF Served, Shapes
<1>2. 0 \in 0 .. Latency
  BY SizesLemma
<1> QED BY <1>1, <1>2 DEF TimerOK

LEMMA TickTimer == ASSUME TInv, Tick PROVE TimerOK' /\ line' \in {0, 1}
<1> DEFINE now == After(timer.count, Stride)
           level == IF ~(timer.onA /\ now = timer.ocrA) THEN line
                    ELSE IF timer.matchA = "set" THEN 1 ELSE 0
<1>1. TimerOK /\ line \in {0, 1} /\ Shapes
  BY DEF TInv, IInv
<1>2. now \in 0 .. Wrap - 1
  <2>1. timer.count \in Int /\ Stride \in Int
    BY <1>1, StrideLemma, CountLemma DEF TimerOK
  <2> QED BY <2>1, WrapLemma
<1> HIDE DEF now
<1>3. /\ line' = level
      /\ timer'.count = now /\ timer'.ocrA = timer.ocrA /\ timer'.ocrB = timer.ocrB
      /\ timer'.icr = now \/ timer'.icr = timer.icr
      /\ timer'.late = IF Pending(timer) THEN timer.late + 1 ELSE 0
      /\ Pending(timer) => timer.late < Latency
  BY <1>1 DEF Tick, Shapes, now
<1>4. timer'.late \in 0 .. Latency
  BY <1>1, <1>3, SizesLemma DEF TimerOK
<1>5. now \in Int
  BY <1>2, CountLemma
<1> QED BY <1>1, <1>2, <1>3, <1>4, <1>5 DEF TimerOK

(* Edges are scheduled a whole number of ticks after the one before.       *)
LEMMA LaterLemma ==
    ASSUME NEW a \in Int, NEW n \in Int
    PROVE  After(a, n * BitTicks) \in Int /\ After(a, Lead) \in Int
<1> DEFINE m == n * BitTicks
<1>1. m \in Int /\ Lead \in Int
  BY SizesLemma
<1> HIDE DEF m
<1>2. After(a, m) \in 0 .. Wrap - 1 /\ After(a, Lead) \in 0 .. Wrap - 1
  BY <1>1, WrapLemma
<1>3. After(a, m) \in Int /\ After(a, Lead) \in Int
  BY <1>2, WrapLemma
<1> QED BY <1>3 DEF m

LEMMA CompareATInv == ASSUME TInv, CompareA PROVE TimerOK' /\ TxOK'
<1> DEFINE t == [timer EXCEPT !.flagA = FALSE]
<1>1. TimerOK /\ TxOK /\ Shapes /\ tx.state \in Int
  BY StatesLemma DEF TInv, IInv, Shapes
<1>2. /\ DOMAIN t = DOMAIN timer /\ t.count = timer.count /\ t.late = timer.late
      /\ t.ocrA = timer.ocrA /\ t.ocrB = timer.ocrB /\ t.icr = timer.icr
  BY <1>1 DEF Shapes
<1>3. /\ timer.ocrA \in Int /\ timer.ocrB \in Int /\ timer.icr \in Int
      /\ timer.count \in Int
  BY <1>1, CountLemma DEF TimerOK
<1>4. \/ SendEdge(t) \/ SendNext(t) \/ SendTail(t)
  BY DEF CompareA
<1> HIDE DEF t
<1>5. CASE SendEdge(t)
  <2>1. PICK i \in Changes :
          /\ tx' = [tx EXCEPT !.state = i + 1, !.bit = 1 - @]
          /\ timer' = Served([t EXCEPT
                        !.ocrA = After(@, (i + 1 - tx.state) * BitTicks),
                        !.matchA = IF tx.bit = 0 THEN "set" ELSE "clear"])
    BY <1>5, Zenon DEF SendEdge
  <2> DEFINE u == [t EXCEPT
                        !.ocrA = After(@, (i + 1 - tx.state) * BitTicks),
                        !.matchA = IF tx.bit = 0 THEN "set" ELSE "clear"]
  <2>2. i + 1 - tx.state \in Int
    BY <1>1, StatesLemma DEF Changes
  <2>3. After(t.ocrA, (i + 1 - tx.state) * BitTicks) \in Int
    BY <1>2, <1>3, <2>2, LaterLemma
  <2>4. /\ DOMAIN u = DOMAIN timer /\ u.count = timer.count /\ u.late = timer.late
        /\ u.ocrA \in Int /\ u.ocrB \in Int /\ u.icr \in Int /\ timer' = Served(u)
    BY <1>1, <1>2, <1>3, <2>1, <2>3 DEF Shapes
  <2> HIDE DEF u
  <2>5. TimerOK'
    BY <1>1, <2>4, ServedTimer
  <2>6. TxOK'
    BY <1>1, <2>1 DEF TxOK, Shapes
  <2> QED BY <2>5, <2>6
<1>6. CASE SendNext(t)
  <2> DEFINE at == IF tx.state < TailState
                   THEN After(t.ocrA, (SentState + 1 - tx.state) * BitTicks)
                   ELSE After(t.count, Lead)
             u == [t EXCEPT !.matchA = "clear", !.ocrA = at]
             tail == Succ(tx.tail, TxSize)
             v == [tx EXCEPT !.tail = tail, !.byte = tx.buffer[tail], !.bit = 0, !.state = 1]
  <2>1. timer' = Served(u) /\ tx' = Tidy(v, TxSize)
    BY <1>6 DEF SendNext
  <2>2. at \in Int
    <3>1. SentState + 1 - tx.state \in Int
      BY <1>1, StatesLemma
    <3>2. /\ After(t.ocrA, (SentState + 1 - tx.state) * BitTicks) \in Int
          /\ After(t.count, Lead) \in Int
      BY <1>2, <1>3, <3>1, LaterLemma
    <3> QED BY <3>2, Zenon
  <2> HIDE DEF at
  <2>3. /\ DOMAIN u = DOMAIN timer /\ u.count = timer.count /\ u.late = timer.late
        /\ u.ocrA \in Int /\ u.ocrB \in Int /\ u.icr \in Int
    BY <1>1, <1>2, <1>3, <2>2 DEF Shapes
  <2> HIDE DEF u
  <2>4. TimerOK'
    BY <1>1, <2>1, <2>3, ServedTimer
  <2>5. tail \in 0 .. TxSize - 1
    BY <1>1, SizesLemma, SuccLemma DEF TxOK
  <2> HIDE DEF tail
  <2>6. DOMAIN v = DOMAIN tx /\ v.tail = tail /\ v.head = tx.head
    BY <1>1 DEF Shapes
  <2> HIDE DEF v
  <2>7. tx'.tail = tail /\ tx'.head = tx.head
    BY <1>1, <2>1, <2>6 DEF Tidy, Shapes
  <2> QED BY <1>1, <2>4, <2>5, <2>7 DEF TxOK
<1>7. CASE SendTail(t)
  <2>1. CASE tx.state < TailState
    <3> DEFINE at == After(t.ocrA, (SentState + 1 - tx.state) * BitTicks)
               u == [t EXCEPT !.ocrA = at]
    <3>1. timer' = Served(u) /\ tx' = [tx EXCEPT !.state = TailState]
      BY <1>7, <2>1 DEF SendTail
    <3>2. at \in Int
      <4>1. SentState + 1 - tx.state \in Int
        BY <1>1, StatesLemma
      <4> QED BY <1>2, <1>3, <4>1, LaterLemma
    <3> HIDE DEF at
    <3>3. /\ DOMAIN u = DOMAIN timer /\ u.count = timer.count /\ u.late = timer.late
          /\ u.ocrA \in Int /\ u.ocrB \in Int /\ u.icr \in Int
      BY <1>1, <1>2, <1>3, <3>2 DEF Shapes
    <3> HIDE DEF u
    <3> QED BY <1>1, <3>1, <3>3, ServedTimer DEF TxOK, Shapes
  <2>2. CASE ~(tx.state < TailState)
    <3> DEFINE u == [t EXCEPT !.matchA = "normal", !.onA = FALSE, !.ocrA = 0]
    <3>1. timer' = Served(u) /\ tx' = [tx EXCEPT !.state = 0]
      BY <1>7, <2>2 DEF SendTail
    <3>2. /\ DOMAIN u = DOMAIN timer /\ u.count = timer.count /\ u.late = timer.late
          /\ u.ocrA \in Int /\ u.ocrB \in Int /\ u.icr \in Int
      BY <1>1, <1>2, <1>3 DEF Shapes
    <3> HIDE DEF u
    <3> QED BY <1>1, <3>1, <3>2, ServedTimer DEF TxOK, Shapes
  <2> QED BY <2>1, <2>2
<1> QED BY <1>4, <1>5, <1>6, <1>7

(* The rest of a byte is no longer than the byte.                          *)
LEMMA PassedLemma == ASSUME RxOK PROVE Passed \in Nat
<1> DEFINE left == StopState - rx.state
           S == {n \in 0 .. left : Ahead(n)}
<1>1. left \in Nat
  BY StatesLemma DEF RxOK
<1> HIDE DEF left
<1>2. S \in SUBSET Nat
  BY <1>1
<1>3. S # {} => Min(S) \in Nat
  BY <1>2, MinLemma
<1> HIDE DEF S
<1> QED BY <1>1, <1>3 DEF Passed, S, left

LEMMA CompleteRx == ASSUME RxOK, NEW b, Complete(b) PROVE RxOK'
<1> DEFINE p == Push(rx, b)
<1>1. Succ(rx.head, RxSize) \in 0 .. RxSize - 1
  BY SuccLemma, SizesLemma DEF RxOK
<1>2. /\ DOMAIN p = DOMAIN rx /\ p.tail = rx.tail /\ p.head \in 0 .. RxSize - 1
  BY <1>1 DEF Push, RxOK
<1>3. rx' = [p EXCEPT !.state = 0, !.bit = 0, !.byte = Zero, !.target = 0]
  BY DEF Complete
<1> HIDE DEF p
<1>4. 0 \in 0 .. DataBits
  BY StatesLemma
<1> QED BY <1>2, <1>3, <1>4 DEF RxOK

LEMMA CaptureTInv == ASSUME TInv, Capture PROVE TimerOK' /\ RxOK'
<1> DEFINE t == [timer EXCEPT !.flagC = FALSE, !.icr = 0,
                              !.edge = IF rx.bit = 1 THEN "falling" ELSE "rising"]
           stop == After(timer.icr, RxStopTicks)
           t1 == [t EXCEPT !.ocrB = stop, !.onB = TRUE, !.flagB = FALSE]
           t2 == [t EXCEPT !.onB = FALSE, !.flagB = FALSE, !.ocrB = 0, !.edge = "falling"]
           state == rx.state + Passed
           b == Shift(rx.byte, Passed, 1 - rx.bit)
<1>1. TimerOK /\ RxOK /\ Shapes
  BY DEF TInv, IInv
<1>2. \/ /\ rx.state = 0 /\ rx.bit = 0 /\ timer' = Served(t1)
         /\ rx' = [rx EXCEPT !.bit = 1 - rx.bit, !.state = 1,
                             !.target = After(timer.icr, BitTicks + BitTicks \div 2)]
      \/ /\ rx.state = 0 /\ rx.bit = 1 /\ timer' = Served(t)
         /\ rx' = [rx EXCEPT !.bit = 1 - rx.bit]
      \/ /\ rx.state # 0 /\ state < StopState /\ timer' = Served(t)
         /\ rx' = [rx EXCEPT !.bit = 1 - rx.bit, !.byte = b, !.state = state,
                             !.target = After(@, Passed * BitTicks)]
      \/ Complete(b) /\ timer' = Served(t2)
  BY Zenon DEF Capture
<1>3. /\ timer.ocrA \in Int /\ timer.ocrB \in Int /\ timer.icr \in Int
  BY <1>1 DEF TimerOK
<1>4. stop \in Int
  <2> DEFINE d == 4 * DataBits + 5
  <2>1. d \in Int /\ BitTicks \in Int
    BY SizesLemma
  <2> HIDE DEF d
  <2> DEFINE m == BitTicks * d
  <2>2. m \in Int
    BY <2>1
  <2> HIDE DEF m
  <2>3. m \div 4 \in Int
    BY <2>2
  <2>4. RxStopTicks \in Int
    BY <2>3 DEF RxStopTicks, m, d
  <2>5. stop \in 0 .. Wrap - 1
    BY <1>3, <2>4, WrapLemma
  <2> HIDE DEF stop
  <2> QED BY <2>5, CountLemma
<1> HIDE DEF stop
<1>5. TimerOK'
  <2> DEFINE Fit(u) == /\ DOMAIN u = DOMAIN timer /\ u.count = timer.count /\ u.late = timer.late
                       /\ u.ocrA \in Int /\ u.ocrB \in Int /\ u.icr \in Int
  <2>1. Fit(t) /\ Fit(t1) /\ Fit(t2)
    <3>1. Fit(t)
      BY <1>1, <1>3 DEF Shapes
    <3> HIDE DEF t
    <3>2. Fit(t1)
      BY <1>1, <1>4, <3>1 DEF Shapes
    <3>3. Fit(t2)
      BY <1>1, <3>1 DEF Shapes
    <3> QED BY <3>1, <3>2, <3>3
  <2>2. timer' = Served(t) \/ timer' = Served(t1) \/ timer' = Served(t2)
    BY <1>2
  <2> HIDE DEF t, t1, t2
  <2> QED BY <1>1, <2>1, <2>2, ServedTimer
<1>6. Passed \in Nat
  BY <1>1, PassedLemma
<1>7. CASE Complete(b)
  BY <1>1, <1>5, <1>7, CompleteRx
<1>8. CASE rx' = [rx EXCEPT !.bit = 1 - rx.bit, !.state = 1,
                            !.target = After(timer.icr, BitTicks + BitTicks \div 2)]
  BY <1>1, <1>5, <1>8, StatesLemma DEF RxOK
<1>9. CASE rx' = [rx EXCEPT !.bit = 1 - rx.bit]
  BY <1>1, <1>5, <1>9 DEF RxOK
<1>10. CASE /\ state < StopState
            /\ rx' = [rx EXCEPT !.bit = 1 - rx.bit, !.byte = b, !.state = state,
                                !.target = After(@, Passed * BitTicks)]
  <2>1. state \in 0 .. DataBits
    BY <1>1, <1>6, <1>10, StatesLemma DEF RxOK
  <2>2. 1 - rx.bit \in {0, 1}
    BY <1>1 DEF RxOK
  <2> HIDE DEF state, b
  <2> QED BY <1>1, <1>5, <1>10, <2>1, <2>2 DEF RxOK
<1> QED BY <1>2, <1>7, <1>8, <1>9, <1>10

LEMMA CompareBTInv == ASSUME TInv, CompareB PROVE TimerOK' /\ RxOK'
<1> DEFINE t == [timer EXCEPT !.flagB = FALSE, !.onB = FALSE, !.ocrB = 0, !.edge = "falling"]
<1>1. TimerOK /\ RxOK /\ Shapes
  BY DEF TInv, IInv
<1>2. timer' = Served(t)
  BY DEF CompareB
<1>3. /\ DOMAIN t = DOMAIN timer /\ t.count = timer.count /\ t.late = timer.late
      /\ t.ocrA \in Int /\ t.ocrB \in Int /\ t.icr \in Int
  BY <1>1 DEF TimerOK, Shapes
<1> HIDE DEF t
<1>4. TimerOK'
  BY <1>1, <1>2, <1>3, ServedTimer
<1>5. RxOK'
  BY <1>1, CompleteRx DEF CompareB
<1> QED BY <1>4, <1>5

LEMMA WriteTInv == ASSUME TInv, WriteByte PROVE TimerOK' /\ TxOK'
<1>1. TimerOK /\ TxOK /\ Shapes /\ main.head \in 0 .. TxSize - 1
  BY DEF TInv, IInv, WriteByte, Locals
<1>2. CASE tx.state # 0
  <2>1. /\ timer' = timer
        /\ tx' = [tx EXCEPT !.buffer[main.head] = main.byte, !.head = main.head]
    BY <1>2 DEF WriteByte
  <2> QED BY <1>1, <2>1 DEF TimerOK, TxOK, Shapes
<1>3. CASE tx.state = 0
  <2>1. /\ timer' = StartNow(timer)
        /\ tx' = [tx EXCEPT !.state = 1, !.byte = main.byte, !.bit = 0]
    BY <1>3 DEF WriteByte
  <2>2. After(timer.count, Lead) \in Int
    BY <1>1, CountLemma, LaterLemma DEF TimerOK
  <2>3. TimerOK'
    BY <1>1, <2>1, <2>2 DEF StartNow, TimerOK, Shapes
  <2> QED BY <1>1, <2>1, <2>3 DEF TxOK, Shapes
<1> QED BY <1>2, <1>3

LEMMA NextTInv == TInv /\ [Next]_vars => TInv'
<1> SUFFICES ASSUME TInv, [Next]_vars PROVE TInv'
  OBVIOUS
<1>1. /\ IInv /\ line \in {0, 1} /\ TimerOK /\ TxOK /\ RxOK /\ Locals
      /\ IInv'
  BY NextIInv DEF TInv
<1>2. ASSUME UNCHANGED main PROVE Locals'
  BY <1>1, <1>2 DEF Locals
<1>3. ASSUME main' = Idle PROVE Locals'
  BY <1>3 DEF Locals, Idle
<1>4. CASE Tick
  <2>1. UNCHANGED <<tx, rx, main>>
    BY <1>4 DEF Tick
  <2> QED BY <1>1, <1>2, <1>4, <2>1, TickTimer DEF TInv, TxOK, RxOK
<1>5. CASE Capture
  <2>1. UNCHANGED <<line, tx, main>>
    BY <1>5 DEF Capture
  <2> QED BY <1>1, <1>2, <1>5, <2>1, CaptureTInv DEF TInv, TxOK
<1>6. CASE CompareA
  <2>1. UNCHANGED <<line, rx, main>>
    BY <1>6 DEF CompareA
  <2> QED BY <1>1, <1>2, <1>6, <2>1, CompareATInv DEF TInv, RxOK
<1>7. CASE CompareB
  <2>1. UNCHANGED <<line, tx, main>>
    BY <1>7 DEF CompareB
  <2> QED BY <1>1, <1>2, <1>7, <2>1, CompareBTInv DEF TInv, TxOK
<1>8. CASE WriteByte
  <2>1. UNCHANGED <<line, rx>> /\ main' = Idle
    BY <1>8 DEF WriteByte
  <2> QED BY <1>1, <1>3, <1>8, <2>1, WriteTInv DEF TInv, RxOK
<1>9. CASE Call
  <2>1. UNCHANGED <<line, timer, tx, rx>>
    <3>1. ASSUME NEW b \in Bytes, WriteCall(b) PROVE UNCHANGED <<line, timer, tx, rx>>
      BY <3>1 DEF WriteCall
    <3>2. ASSUME NEW c \in {"read", "peek", "available"}, LoadHead(c)
          PROVE  UNCHANGED <<line, timer, tx, rx>>
      BY <3>2 DEF LoadHead
    <3> QED BY <1>9, <3>1, <3>2 DEF Call, FlushCall, FlushInputCall
  <2>2. /\ Succ(tx.head, TxSize) \in 0 .. TxSize - 1 /\ rx.tail \in 0 .. RxSize - 1
        /\ DOMAIN main = {"at", "head", "tail", "byte"}
    BY <1>1, SuccLemma, SizesLemma DEF TxOK, RxOK, Locals
  <2>3. Locals'
    <3>1. ASSUME NEW b \in Bytes, WriteCall(b) PROVE Locals'
      BY <2>2, <3>1 DEF WriteCall, Locals
    <3>2. ASSUME NEW c \in {"read", "peek", "available"}, LoadHead(c) PROVE Locals'
      BY <2>2, <3>2 DEF LoadHead, Locals
    <3>3. CASE FlushCall
      BY <2>2, <3>3 DEF FlushCall, Locals
    <3>4. CASE FlushInputCall
      BY <2>2, <3>4 DEF FlushInputCall, Locals
    <3> QED BY <1>9, <3>1, <3>2, <3>3, <3>4 DEF Call
  <2> QED BY <1>1, <2>1, <2>3 DEF TInv, TimerOK, TxOK, RxOK
<1>10. CASE Continue /\ ~WriteByte
  <2>1. UNCHANGED <<line, timer, tx>>
    BY <1>10 DEF Continue, WriteRoom, FlushDone, LoadTail, PeekOut, ReadOut, ReadTail,
                AvailableOut, FlushInput
  <2>2. Succ(rx.tail, RxSize) \in 0 .. RxSize - 1
    BY <1>1, SuccLemma, SizesLemma DEF RxOK
  <2>3. Locals' /\ RxOK'
    <3>1. CASE WriteRoom
      BY <1>1, <3>1 DEF WriteRoom, Locals, RxOK
    <3>2. CASE FlushDone \/ PeekOut \/ AvailableOut
      BY <1>1, <1>3, <3>2 DEF FlushDone, PeekOut, AvailableOut, RxOK
    <3>3. CASE LoadTail
      <4>1. RxOK'
        BY <1>1, <3>3 DEF LoadTail, RxOK
      <4>2. CASE main.head = rx.tail
        BY <1>3, <3>3, <4>1, <4>2 DEF LoadTail
      <4>3. CASE main.head # rx.tail
        BY <1>1, <2>2, <3>3, <4>1, <4>3 DEF LoadTail, Locals
      <4> QED BY <4>2, <4>3
    <3>4. CASE ReadOut
      BY <1>1, <3>4 DEF ReadOut, Locals, RxOK
    <3>5. CASE ReadTail
      <4> DEFINE r == [rx EXCEPT !.tail = main.tail]
      <4>1. main.tail \in 0 .. RxSize - 1 /\ rx' = Tidy(r, RxSize) /\ main' = Idle
        BY <1>1, <3>5 DEF ReadTail, Locals
      <4>2. DOMAIN r = DOMAIN rx /\ r.tail = main.tail /\ r.head = rx.head
            /\ r.state = rx.state /\ r.bit = rx.bit
        BY <1>1 DEF RxOK
      <4> HIDE DEF r
      <4>3. RxOK'
        BY <1>1, <4>1, <4>2 DEF Tidy, RxOK
      <4> QED BY <1>3, <4>1, <4>3
    <3>6. CASE FlushInput
      <4> DEFINE r == [rx EXCEPT !.head = main.tail]
      <4>1. main.tail \in 0 .. RxSize - 1 /\ rx' = Tidy(r, RxSize) /\ main' = Idle
        BY <1>1, <3>6 DEF FlushInput, Locals
      <4>2. DOMAIN r = DOMAIN rx /\ r.head = main.tail /\ r.tail = rx.tail
            /\ r.state = rx.state /\ r.bit = rx.bit
        BY <1>1 DEF RxOK
      <4> HIDE DEF r
      <4>3. RxOK'
        BY <1>1, <4>1, <4>2 DEF Tidy, RxOK
      <4> QED BY <1>3, <4>1, <4>3
    <3> QED BY <1>10, <3>1, <3>2, <3>3, <3>4, <3>5, <3>6 DEF Continue
  <2> QED BY <1>1, <2>1, <2>3 DEF TInv, TimerOK, TxOK
<1>11. CASE UNCHANGED vars
  BY <1>1, <1>2, <1>11 DEF TInv, vars, TimerOK, TxOK, RxOK
<1> QED BY <1>4, <1>5, <1>6, <1>7, <1>8, <1>9, <1>10, <1>11 DEF Next, Isr

(* Whatever interrupts what: no index leaves its ring, no state its byte   *)
(* and no interrupt waits longer than it may.                              *)
THEOREM TypesCorrect == Spec => []TypeOK
<1>1. TInv => TypeOK
  BY DEF TInv, IInv, Shapes, TimerOK, TxOK, RxOK, TypeOK
<1> QED BY <1>1, InitTInv, NextTInv, PTL DEF Spec

-----------------------------------------------------------------------------
(* Arithmetic of bit times and of the 16-bit timer.                        *)

(* The length of n bits. *)
Ticks(n) == n * BitTicks

LEMMA TicksLemma ==
    /\ \A n \in Int : Ticks(n) \in Int
    /\ \A m, n \in Int : Ticks(m + n) = Ticks(m) + Ticks(n)
    /\ Ticks(0) = 0 /\ Ticks(1) = BitTicks
    /\ \A m, n \in Int : m <= n => Ticks(m) <= Ticks(n)
    /\ \A m, n \in Int : m < n => Ticks(m) + BitTicks <= Ticks(n)
<1>1. BitTicks \in Nat \ {0, 1}
  BY RateAssumption
<1>2. \A n \in Int : Ticks(n) \in Int
  BY <1>1 DEF Ticks
<1>3. \A m, n \in Int : Ticks(m + n) = Ticks(m) + Ticks(n)
  BY <1>1 DEF Ticks
<1>4. Ticks(0) = 0 /\ Ticks(1) = BitTicks
  BY <1>1 DEF Ticks
<1>5. ASSUME NEW k \in Nat PROVE Ticks(k) >= 0
  BY <1>1 DEF Ticks
<1>6. ASSUME NEW m \in Int, NEW n \in Int, m <= n PROVE Ticks(m) <= Ticks(n)
  <2>1. n - m \in Nat /\ n = m + (n - m) /\ n - m \in Int
    BY <1>6
  <2>2. Ticks(n) = Ticks(m) + Ticks(n - m) /\ Ticks(n - m) >= 0
    BY <1>3, <1>5, <2>1
  <2> QED BY <1>2, <2>1, <2>2
<1>7. ASSUME NEW m \in Int, NEW n \in Int, m < n PROVE Ticks(m) + BitTicks <= Ticks(n)
  <2>1. m + 1 \in Int /\ m + 1 <= n /\ 1 \in Int
    BY <1>7
  <2>2. Ticks(m + 1) <= Ticks(n) /\ Ticks(m + 1) = Ticks(m) + Ticks(1)
    BY <1>3, <1>6, <2>1
  <2> QED BY <1>4, <2>2
<1> QED BY <1>2, <1>3, <1>4, <1>6, <1>7

HalfBit == BitTicks \div 2

(* The stop bit has begun, and the next start bit is further away than an  *)
(* interrupt waits.                                                        *)
LEMMA StopLemma ==
    /\ RxStopTicks \in Int
    /\ Ticks(DataBits + 1) <= RxStopTicks
    /\ RxStopTicks + Latency < Ticks(DataBits + 2)
    /\ Ticks(DataBits + 2) = Ticks(DataBits + 1) + BitTicks
    /\ Ticks(DataBits + 2) < Wrap
    /\ Latency \in Nat /\ Latency < BitTicks /\ BitTicks \in Nat \ {0, 1}
    /\ HalfBit \in 1 .. BitTicks - 1
<1>1. BitTicks \in Nat \ {0, 1} /\ Wrap \in Nat
  BY RateAssumption
<1>2. Latency \in Nat /\ 4 * Latency < 3 * BitTicks
  BY LatencyAssumption
<1> DEFINE t == Ticks(DataBits + 1)
<1>3. t \in Int /\ Ticks(DataBits + 2) = t + BitTicks
  <2>1. DataBits + 1 \in Int /\ (DataBits + 1) + 1 = DataBits + 2 /\ 1 \in Int
    OBVIOUS
  <2>2. Ticks((DataBits + 1) + 1) = Ticks(DataBits + 1) + Ticks(1)
    BY <2>1, TicksLemma
  <2> QED BY <2>1, <2>2, TicksLemma
<1>4. BitTicks * (4 * DataBits + 5) = 4 * t + BitTicks
  BY <1>1 DEF Ticks
<1>5. (2 * DataBits + 5) * BitTicks = 2 * t + 3 * BitTicks
  BY <1>1 DEF Ticks
<1>6. 2 * t + 3 * BitTicks < 2 * Wrap
  BY <1>5, RateAssumption
<1>7. RxStopTicks = (4 * t + BitTicks) \div 4
  BY <1>4 DEF RxStopTicks
<1> HIDE DEF t
<1>8. /\ (4 * t + BitTicks) \div 4 \in Int
      /\ 4 * ((4 * t + BitTicks) \div 4) <= 4 * t + BitTicks
      /\ t <= (4 * t + BitTicks) \div 4
  BY <1>1, <1>3
<1>9. /\ RxStopTicks \in Int /\ t <= RxStopTicks /\ 4 * RxStopTicks <= 4 * t + BitTicks
  BY <1>7, <1>8
<1>10. RxStopTicks + Latency < t + BitTicks
  BY <1>1, <1>2, <1>3, <1>9
<1>11. t + BitTicks < Wrap
  BY <1>1, <1>3, <1>6
<1>12. HalfBit \in 1 .. BitTicks - 1
  BY <1>1 DEF HalfBit
<1>13. Latency < BitTicks
  BY <1>1, <1>2
<1> QED BY <1>1, <1>2, <1>3, <1>9, <1>10, <1>11, <1>12, <1>13 DEF t

(* Quotients and remainders. *)
LEMMA ModUnique ==
    ASSUME NEW x \in Int, NEW w \in Nat \ {0}, NEW q \in Int, NEW r \in 0 .. w - 1, x = w * q + r
    PROVE  x % w = r
<1> DEFINE p == x \div w
           s == x % w
<1>1. x = w * p + s /\ p \in Int /\ s \in 0 .. w - 1
  OBVIOUS
<1> HIDE DEF p, s
<1>2. p >= q + 1 => w * p >= w * q + w
  BY <1>1
<1>3. p <= q - 1 => w * p <= w * q - w
  BY <1>1
<1>4. p = q
  BY <1>1, <1>2, <1>3
<1>5. s = r
  BY <1>1, <1>4
<1> QED BY <1>5 DEF s

LEMMA ModAdd ==
    ASSUME NEW x \in Int, NEW y \in Int, NEW w \in Nat \ {0}
    PROVE  ((x % w) + y) % w = (x + y) % w
<1> DEFINE q == x \div w
           r == x % w
           p == (r + y) \div w
           s == (r + y) % w
<1>1. x = w * q + r /\ q \in Int /\ r \in 0 .. w - 1
  OBVIOUS
<1> HIDE DEF q, r
<1>2. r + y = w * p + s /\ p \in Int /\ s \in 0 .. w - 1
  <2> DEFINE z == r + y
  <2>1. z \in Int
    BY <1>1
  <2> HIDE DEF z
  <2>2. z = w * (z \div w) + (z % w) /\ z \div w \in Int /\ z % w \in 0 .. w - 1
    BY <2>1
  <2> QED BY <2>2 DEF z
<1> HIDE DEF p, s
<1>3. w * q + w * p = w * (q + p) /\ q + p \in Int
  BY <1>1, <1>2
<1>4. x + y = w * (q + p) + s
  BY <1>1, <1>2, <1>3
<1>5. (x + y) % w = s
  <2> DEFINE z == x + y
             k == q + p
  <2>1. z \in Int /\ k \in Int /\ z = w * k + s
    BY <1>3, <1>4
  <2> HIDE DEF z, k
  <2>2. z % w = s
    BY <1>2, <2>1, ModUnique
  <2> QED BY <2>2 DEF z
<1> QED BY <1>5 DEF s, r

(* x ticks after t are x - n ticks after t + n.                            *)
LEMMA MovedLemma ==
    ASSUME NEW t \in Int, NEW n \in Int, NEW x \in Int
    PROVE  After(After(t, n), x - n) = After(t, x) /\ After(After(t, n), x) = After(t, n + x)
<1>1. Wrap \in Nat \ {0}
  BY WrapLemma
<1> DEFINE a == t + n
           y == x - n
<1>2. a \in Int /\ y \in Int /\ a + y = t + x /\ a + x = t + (n + x)
  OBVIOUS
<1> HIDE DEF a, y
<1>3. ((a % Wrap) + y) % Wrap = (a + y) % Wrap /\ ((a % Wrap) + x) % Wrap = (a + x) % Wrap
  BY <1>1, <1>2, ModAdd
<1> QED BY <1>2, <1>3 DEF After, a, y

LEMMA DistanceLemma ==
    ASSUME NEW t \in Int, NEW x \in Int, NEW y \in Int,
           After(t, x) = After(t, y), x - y < Wrap, y - x < Wrap
    PROVE  x = y
<1>1. Wrap \in Nat \ {0}
  BY WrapLemma
<1> DEFINE a == t + x
           b == t + y
           p == a \div Wrap
           q == b \div Wrap
           r == a % Wrap
           s == b % Wrap
<1>2. a \in Int /\ b \in Int /\ a - b = x - y
  OBVIOUS
<1> HIDE DEF a, b
<1>3. /\ a = Wrap * p + r /\ p \in Int /\ r \in 0 .. Wrap - 1
      /\ b = Wrap * q + s /\ q \in Int /\ s \in 0 .. Wrap - 1
  BY <1>1, <1>2
<1>4. r = s
  BY DEF After, a, b
<1> HIDE DEF p, q, r, s
<1>5. p >= q + 1 => Wrap * p >= Wrap * q + Wrap
  BY <1>1, <1>3
<1>6. p <= q - 1 => Wrap * p <= Wrap * q - Wrap
  BY <1>1, <1>3
<1>7. p = q
  <2> DEFINE u == Wrap * p
             v == Wrap * q
  <2>1. u \in Int /\ v \in Int
    BY <1>1, <1>3
  <2>2. /\ a = u + r /\ b = v + s
        /\ p >= q + 1 => u >= v + Wrap
        /\ p <= q - 1 => u <= v - Wrap
    BY <1>3, <1>5, <1>6
  <2> HIDE DEF u, v
  <2> QED BY <1>1, <1>2, <1>3, <1>4, <2>1, <2>2
<1>8. a = b
  BY <1>3, <1>4, <1>7
<1> QED BY <1>2, <1>8

(* An instant less than a turn ahead is as many ticks ahead as it is.      *)
LEMMA AheadLemma ==
    ASSUME NEW c \in 0 .. Wrap - 1, NEW x \in 1 .. Wrap - 1
    PROVE  After(c, x) # c /\ (After(c, x) - c) % Wrap = x
<1>1. Wrap \in Nat \ {0} /\ c \in Int /\ x \in Int
  BY WrapLemma
<1>2. c = After(c, 0)
  <2>1. c + 0 = c /\ c = Wrap * 0 + c /\ 0 \in Int
    BY <1>1
  <2>2. c % Wrap = c
    BY <1>1, <2>1, ModUnique
  <2> QED BY <2>1, <2>2 DEF After
<1>3. After(c, x) # c
  <2> SUFFICES ASSUME After(c, x) = c PROVE FALSE
    OBVIOUS
  <2>1. After(c, x) = After(c, 0)
    BY <1>2
  <2>2. x - 0 < Wrap /\ 0 - x < Wrap /\ 0 \in Int
    BY <1>1
  <2>3. x = 0
    BY <1>1, <2>1, <2>2, DistanceLemma
  <2> QED BY <2>3
<1>4. (After(c, x) - c) % Wrap = x
  <2>1. PICK m \in Int, a \in Int, v \in Int :
          m = -c /\ a = c + x /\ v = a % Wrap /\ v = After(c, x)
    <3>1. After(c, x) \in 0 .. Wrap - 1
      BY <1>1, WrapLemma
    <3> DEFINE v == After(c, x)
    <3>2. v \in Int
      BY <1>1, <3>1
    <3>3. v = (c + x) % Wrap
      BY DEF After
    <3> HIDE DEF v
    <3>4. -c \in Int /\ c + x \in Int
      BY <1>1
    <3>5. v = After(c, x)
      BY DEF v
    <3> QED BY <3>2, <3>3, <3>4, <3>5
  <2>2. ((a % Wrap) + m) % Wrap = (a + m) % Wrap
    BY <1>1, ModAdd
  <2>3. a + m = x /\ v - c = v + m
    BY <1>1, <2>1
  <2>4. x % Wrap = x
    <3>1. x = Wrap * 0 + x /\ x \in 0 .. Wrap - 1 /\ 0 \in Int
      BY <1>1
    <3> QED BY <1>1, <3>1, ModUnique
  <2> QED BY <2>1, <2>2, <2>3, <2>4
<1> QED BY <1>3, <1>4

LEMMA UntilLemma ==
    ASSUME timer.count \in 0 .. Wrap - 1, NEW x \in 1 .. Wrap - 1
    PROVE  Until(After(timer.count, x)) = x
BY AheadLemma DEF Until

-----------------------------------------------------------------------------
(* The invariant that ties the two halves to the wire between them.        *)

InRing == Count(tx.head, tx.tail, TxSize)

(* Behind its first k bytes, flying is what waits in the transmit ring.    *)
Fly(k) ==
    /\ Len(flying) = k + InRing
    /\ \A i \in 1 .. InRing : flying[k + i] = tx.buffer[(tx.tail + i) % TxSize]

(* The next edge, or the one not yet served, is d ticks from now.          *)
Due(d) ==
    tx.state # 0 =>
        /\ timer.onA /\ timer.ocrA = After(timer.count, d)
        /\ d <= Ticks(DataBits + 2) /\ -d <= timer.late
        /\ timer.flagA <=> d <= 0
        /\ tx.state \in 1 .. SentState /\ ~timer.flagA => line = 1 - tx.bit
        /\ tx.state = 1 => tx.bit = 0
        /\ tx.state \in 2 .. StopState => tx.bit = tx.byte[tx.state - 1]

Deaf == rx.state = 0 /\ rx.bit = 0 /\ ~timer.onB

(* The start bit of b began g ticks from now, which is in the past.        *)
Receiving(g, b) ==
    /\ rx.state \in 1 .. DataBits
    /\ timer.onB /\ timer.ocrB = After(timer.count, g + RxStopTicks)
    /\ rx.target = After(timer.count, g + Ticks(rx.state) + HalfBit)
    /\ timer.flagB <=> g + RxStopTicks <= 0
    /\ -(g + RxStopTicks) <= timer.late
    /\ \A j \in 1 .. rx.state - 1 : rx.byte[DataBits + 1 - rx.state + j] = b[j]

(* No byte is under way: none was written, or the stop bit is being sent.  *)
Done ==
    /\ Deaf /\ ~timer.flagC /\ Fly(0)
    /\ tx.state \in {0, TailState} \/ (tx.state = SentState /\ timer.flagA)

(* The start bit has not been captured.                                    *)
Starting ==
    /\ Deaf /\ Fly(1) /\ flying[1] = tx.byte
    /\ tx.state = 1 /\ (timer.flagC <=> timer.flagA)
    /\ timer.flagC => timer.icr = timer.ocrA

(* The byte being sent is the one being received, ...                      *)
Same(d, g, b) ==
    /\ tx.state \in 1 .. SentState /\ g = d - Ticks(tx.state - 1) /\ g <= 0
    /\ Receiving(g, b) /\ b = tx.byte
    /\ Fly(1) /\ flying[1] = b

(* ... the next edge is still to be captured, ...                          *)
Behind ==
    /\ timer.flagC <=> timer.flagA
    /\ timer.flagC => timer.icr = timer.ocrA
    /\ rx.state < tx.state /\ rx.bit = tx.bit
    /\ \A j \in rx.state .. tx.state - 2 : tx.byte[j] = 1 - tx.bit

(* ... or has been, before its compare handler ran.                        *)
Captured ==
    /\ timer.flagA /\ ~timer.flagC /\ rx.bit = 1 - tx.bit
    /\ rx.state = IF tx.state = 1 THEN 1 ELSE tx.state - 1

(* All edges of b have been captured and served, its stop bit lasts.       *)
Resting(d, g, b) ==
    /\ tx.state \in {1, TailState} /\ d > 0 /\ ~timer.flagC
    /\ g = d - Ticks(DataBits + 2) /\ g <= 0
    /\ Receiving(g, b) /\ rx.bit = 0
    /\ \A j \in rx.state .. DataBits : b[j] = 1
    /\ flying # <<>> /\ flying[1] = b
    /\ IF tx.state = 1 THEN Fly(2) /\ flying[2] = tx.byte ELSE Fly(1)

Phase(d, g, b) ==
    \/ Done \/ Starting
    \/ Same(d, g, b) /\ Behind
    \/ Same(d, g, b) /\ Captured
    \/ Resting(d, g, b)

Timing ==
    /\ flying \in Seq(Bytes)
    /\ timer.edge = IF rx.bit = 0 THEN "falling" ELSE "rising"
    /\ \E d \in Int, g \in Int, b \in [1 .. DataBits -> {0, 1}] : Due(d) /\ Phase(d, g, b)

-----------------------------------------------------------------------------
(* A step of the clock.                                                    *)
Moves(n) ==
    /\ timer'.count = After(timer.count, n)
    /\ IF Pending(timer) THEN n = 1 /\ timer.late < Latency /\ timer'.late = timer.late + 1
                         ELSE timer'.late = 0
    /\ timer'.onA = timer.onA /\ timer'.onB = timer.onB
    /\ timer'.ocrA = timer.ocrA /\ timer'.ocrB = timer.ocrB
    /\ timer'.matchA = timer.matchA /\ timer'.edge = timer.edge

(* A match sets its flag and, of unit A, the level of the line.             *)
HitA(n) == timer.onA /\ After(timer.count, n) = timer.ocrA

HitB(n) == timer.onB /\ After(timer.count, n) = timer.ocrB

Edge ==
    \/ line' < line /\ timer.edge = "falling"
    \/ line' > line /\ timer.edge = "rising"

Flags(n) ==
    /\ timer'.flagA <=> timer.flagA \/ HitA(n)
    /\ timer'.flagB <=> timer.flagB \/ HitB(n)
    /\ timer'.flagC <=> timer.flagC \/ Edge
    /\ timer'.icr = IF Edge THEN After(timer.count, n) ELSE timer.icr
    /\ line' = IF ~HitA(n) THEN line ELSE IF timer.matchA = "set" THEN 1 ELSE 0

(* No match is passed over.                                                *)
Nearest(n) ==
    tx.state # 0 =>
        \A x \in 1 .. Wrap - 1 :
            /\ timer.ocrA = After(timer.count, x) => n <= x
            /\ timer.onB /\ timer.ocrB = After(timer.count, x) => n <= x

LEMMA TickMoves ==
    ASSUME TInv, Tick
    PROVE  \E n \in Nat : n = Stride /\ Moves(n) /\ Flags(n) /\ Nearest(n)
<1>1. Shapes /\ TimerOK /\ Stride \in Nat
  BY StrideLemma DEF TInv, IInv
<1>2. PICK n \in Nat : n = Stride
  BY <1>1
<1> DEFINE now == After(timer.count, n)
           isA == timer.onA /\ now = timer.ocrA
           isB == timer.onB /\ now = timer.ocrB
           level == IF ~isA THEN line ELSE IF timer.matchA = "set" THEN 1 ELSE 0
           edge == \/ level < line /\ timer.edge = "falling"
                   \/ level > line /\ timer.edge = "rising"
<1>3. /\ line' = level
      /\ timer' = [timer EXCEPT !.count = now,
                                !.late = IF Pending(timer) THEN @ + 1 ELSE 0,
                                !.flagA = @ \/ isA,
                                !.flagB = @ \/ isB,
                                !.flagC = @ \/ edge,
                                !.icr = IF edge THEN now ELSE @]
      /\ Pending(timer) => timer.late < Latency
  BY <1>2, ZenonT(60) DEF Tick
<1>4. \A x \in 1 .. Wrap - 1 :
         /\ tx.state # 0 /\ timer.ocrA = After(timer.count, x) => (~Pending(timer) => n <= x)
         /\ tx.state # 0 /\ timer.onB /\ timer.ocrB = After(timer.count, x)
               => (~Pending(timer) => n <= x)
  <2> SUFFICES ASSUME NEW x \in 1 .. Wrap - 1, tx.state # 0, ~Pending(timer)
               PROVE  /\ timer.ocrA = After(timer.count, x) => n <= x
                      /\ timer.onB /\ timer.ocrB = After(timer.count, x) => n <= x
    OBVIOUS
  <2> DEFINE T == {Until(timer.ocrA)} \cup IF timer.onB THEN {Until(timer.ocrB)} ELSE {}
  <2>1. n = Min(T)
    BY <1>2 DEF Stride
  <2>2. T \in SUBSET Nat /\ T # {}
    <3>1. \A v \in Int : Until(v) \in Nat
      BY <1>1, UntilType
    <3> QED BY <1>1, <3>1 DEF TimerOK
  <2>3. \A y \in T : n <= y
    <3> HIDE DEF T
    <3> QED BY <2>1, <2>2, MinLemma
  <2>4. Until(After(timer.count, x)) = x
    BY <1>1, UntilLemma DEF TimerOK
  <2> QED BY <2>3, <2>4
<1>5. Pending(timer) => n = 1
  BY <1>2 DEF Stride
<1>6. Moves(n)
  BY <1>1, <1>3, <1>5 DEF Moves, Shapes
<1>7. /\ timer'.flagA = (timer.flagA \/ isA) /\ timer'.flagB = (timer.flagB \/ isB)
      /\ timer'.flagC = (timer.flagC \/ edge)
      /\ timer'.icr = IF edge THEN now ELSE timer.icr
  BY <1>1, <1>3 DEF Shapes
<1> HIDE DEF isA, isB, edge
<1>8. /\ timer'.flagA <=> timer.flagA \/ isA
      /\ timer'.flagB <=> timer.flagB \/ isB
      /\ timer'.flagC <=> timer.flagC \/ edge
  BY <1>7, Zenon
<1>9. Nearest(n)
  BY <1>4, <1>5 DEF Nearest
<1> USE DEF edge, isA, isB
<1>10. edge <=> Edge
  BY <1>3 DEF Edge
<1>11. (isA <=> HitA(n)) /\ (isB <=> HitB(n))
  BY DEF HitA, HitB
<1>12. line' = IF ~HitA(n) THEN line ELSE IF timer.matchA = "set" THEN 1 ELSE 0
  BY <1>3, <1>11
<1> HIDE DEF edge, isA, isB
<1>13. Flags(n)
  BY <1>7, <1>8, <1>10, <1>11, <1>12 DEF Flags
<1> QED BY <1>2, <1>6, <1>9, <1>13

(* Where a compare unit stands after n ticks.                              *)
LEMMA UnitLemma ==
    ASSUME NEW c \in Int, NEW n \in Nat, NEW x \in Int, x < Wrap,
           x >= 1 => n <= x, x <= 0 => n = 1 /\ 1 - x < Wrap
    PROVE  /\ After(c, x) = After(After(c, n), x - n)
           /\ After(c, n) = After(c, x) <=> n = x
           /\ x - n <= 0 <=> x <= 0 \/ n = x
<1>1. After(c, x) = After(After(c, n), x - n)
  BY MovedLemma
<1>2. n - x < Wrap /\ x - n < Wrap
  BY WrapLemma
<1>3. After(c, n) = After(c, x) => n = x
  BY <1>2, DistanceLemma
<1> QED BY <1>1, <1>3

(* Frames fit into the timer's range, with the latency to spare.           *)
LEMMA FrameLemma ==
    /\ Ticks(DataBits + 2) \in Int /\ Ticks(DataBits + 2) < Wrap
    /\ RxStopTicks \in Int /\ 0 < RxStopTicks /\ RxStopTicks < Wrap
    /\ Latency + 1 < Wrap /\ Latency \in Nat /\ Wrap \in Int
    /\ RxStopTicks + Latency < Ticks(DataBits + 2)
    /\ Latency + RxStopTicks < Wrap
<1>1. /\ 1 < DataBits + 1 /\ DataBits + 1 \in Int /\ DataBits + 2 \in Int /\ 1 \in Int
  OBVIOUS
<1>2. Ticks(1) + BitTicks <= Ticks(DataBits + 1) /\ Ticks(1) = BitTicks
      /\ Ticks(DataBits + 1) \in Int /\ Ticks(DataBits + 2) \in Int
  BY <1>1, TicksLemma
<1>3. Wrap \in Nat \ {0}
  BY WrapLemma
<1> DEFINE t == Ticks(DataBits + 1)
           u == Ticks(DataBits + 2)
<1>4. /\ t \in Int /\ u \in Int /\ 2 * BitTicks <= t /\ BitTicks \in Nat \ {0, 1}
      /\ t <= RxStopTicks /\ RxStopTicks \in Int /\ RxStopTicks + Latency < u
      /\ u = t + BitTicks /\ u < Wrap /\ Latency \in Nat /\ Latency < BitTicks
  BY <1>2, StopLemma
<1> HIDE DEF t, u
<1>5. /\ 0 < RxStopTicks /\ RxStopTicks < Wrap /\ Latency + 1 < Wrap
      /\ Latency + RxStopTicks < Wrap
  BY <1>3, <1>4
<1> QED BY <1>3, <1>4, <1>5 DEF t, u

LEMMA FlyFrame == ASSUME UNCHANGED <<tx, flying>> PROVE \A k : Fly(k) => Fly(k)'
BY DEF Fly, InRing

LEMMA DeafFrame == ASSUME UNCHANGED rx, timer'.onB = timer.onB PROVE Deaf => Deaf'
BY DEF Deaf

LEMMA TickReceiving ==
    ASSUME TInv, NEW n \in Nat, Moves(n), Flags(n), Nearest(n), UNCHANGED rx, tx.state # 0,
           NEW g \in Int, g <= 0, NEW b, NEW h \in Int, h = g - n, Receiving(g, b)
    PROVE  /\ Receiving(h, b)' /\ h <= 0
           /\ g + RxStopTicks > 0 => n <= g + RxStopTicks
<1>1. /\ timer.count \in Int /\ TimerOK /\ timer.late \in 0 .. Latency
  BY CountLemma DEF TInv, TimerOK
<1>2. PICK s \in Int, y \in Int, c \in Int :
        s = RxStopTicks /\ y = g + s /\ c = timer.count
  BY <1>1, FrameLemma
<1>3. /\ timer.onB /\ timer.ocrB = After(c, y)
      /\ timer.flagB <=> y <= 0
      /\ -y <= timer.late /\ y < Wrap
  BY <1>2, FrameLemma DEF Receiving
<1>4. y <= 0 => Pending(timer)
  BY <1>3 DEF Pending, WantB
<1>5. y <= 0 => n = 1 /\ 1 - y < Wrap /\ timer.late < Latency /\ timer'.late = timer.late + 1
  BY <1>1, <1>3, <1>4, FrameLemma DEF Moves
<1>6. y >= 1 => n <= y
  <2>1. y >= 1 => y \in 1 .. Wrap - 1
    BY <1>2, <1>3, FrameLemma
  <2> QED BY <1>2, <1>3, <2>1 DEF Nearest
<1>7. /\ After(c, y) = After(After(c, n), y - n)
      /\ After(c, n) = After(c, y) <=> n = y
      /\ y - n <= 0 <=> y <= 0 \/ n = y
  BY <1>2, <1>3, <1>5, <1>6, UnitLemma
<1>8. y - n = h + s /\ timer'.count = After(c, n)
  BY <1>2 DEF Moves
<1>9. timer'.onB /\ timer'.ocrB = After(timer'.count, h + s)
  BY <1>3, <1>7, <1>8 DEF Moves
<1>10. timer'.flagB <=> h + s <= 0
  <2>1. HitB(n) <=> n = y
    BY <1>2, <1>3, <1>7 DEF HitB
  <2> QED BY <1>2, <1>3, <1>7, <1>8, <2>1 DEF Flags
<1>11. -(h + s) <= timer'.late
  <2>1. CASE y <= 0
    BY <1>1, <1>2, <1>3, <1>5, <1>8, <2>1
  <2>2. CASE y >= 1
    <3>1. timer'.late \in Int /\ timer'.late >= 0
      BY <1>1 DEF Moves, TimerOK
    <3>2. y - n >= 0
      BY <1>2, <1>6, <2>2
    <3> QED BY <1>2, <1>8, <3>1, <3>2
  <2> QED BY <1>2, <2>1, <2>2
<1>12. rx'.target = After(timer'.count, h + Ticks(rx'.state) + HalfBit)
  <2>1. rx.state \in Int /\ Ticks(rx.state) \in Int /\ HalfBit \in Int
    <3>1. rx.state \in Int
      BY DEF Receiving
    <3>2. Ticks(rx.state) \in Int
      BY <3>1, TicksLemma
    <3>3. HalfBit \in Int
      BY StopLemma
    <3> QED BY <3>1, <3>2, <3>3
  <2>2. PICK z \in Int : z = g + Ticks(rx.state) + HalfBit
    BY <2>1
  <2>3. z - n = h + Ticks(rx.state) + HalfBit
    BY <2>1, <2>2
  <2>4. After(After(c, n), z - n) = After(c, z)
    <3>1. \A t, x \in Int : After(After(t, n), x - n) = After(t, x)
      BY MovedLemma
    <3> QED BY <3>1
  <2>5. rx.target = After(c, z)
    BY <1>2, <2>2 DEF Receiving
  <2> QED BY <1>8, <2>3, <2>4, <2>5
<1>13. h <= 0
  OBVIOUS
<1>14. Receiving(h, b)'
  BY <1>2, <1>9, <1>10, <1>11, <1>12 DEF Receiving
<1> QED BY <1>2, <1>6, <1>13, <1>14

LEMMA TickDue ==
    ASSUME TInv, Tick, NEW n \in Nat, Moves(n), Flags(n), Nearest(n), NEW d \in Int, Due(d),
           tx.state # 0, NEW e \in Int, e = d - n
    PROVE  /\ Due(e)'
           /\ d > 0 => n <= d
           /\ HitA(n) <=> n = d
           /\ line' = IF n = d THEN tx.bit ELSE line
<1>1. /\ timer.count \in Int /\ TimerOK /\ timer.late \in 0 .. Latency /\ UNCHANGED tx
  BY CountLemma DEF TInv, TimerOK, Tick
<1>2. /\ timer.onA /\ timer.ocrA = After(timer.count, d) /\ d < Wrap
      /\ timer.flagA <=> d <= 0
      /\ -d <= timer.late /\ d <= Ticks(DataBits + 2)
  BY FrameLemma DEF Due
<1>3. d <= 0 => n = 1 /\ 1 - d < Wrap /\ timer.late < Latency /\ timer'.late = timer.late + 1
  <2>1. d <= 0 => Pending(timer)
    BY <1>2 DEF Pending, WantA
  <2> QED BY <1>1, <1>2, <2>1, FrameLemma DEF Moves
<1>4. d >= 1 => n <= d
  <2>1. d >= 1 => d \in 1 .. Wrap - 1
    BY <1>2, FrameLemma
  <2> QED BY <1>2, <2>1 DEF Nearest
<1>5. PICK c \in Int : c = timer.count
  BY <1>1
<1>6. /\ After(c, d) = After(After(c, n), d - n)
      /\ After(c, n) = After(c, d) <=> n = d
      /\ d - n <= 0 <=> d <= 0 \/ n = d
  BY <1>2, <1>3, <1>4, UnitLemma
<1>7. HitA(n) <=> n = d
  BY <1>2, <1>5, <1>6 DEF HitA
<1>8. line' = IF n = d THEN tx.bit ELSE line
  <2>1. timer.matchA = IF tx.bit = 1 THEN "set" ELSE "clear"
    BY DEF TInv, IInv, Driven
  <2>2. tx.bit \in {0, 1}
    BY DEF TInv, IInv, Shapes
  <2> QED BY <1>7, <2>1, <2>2 DEF Flags
<1>9. /\ timer'.onA /\ timer'.ocrA = After(timer'.count, e) /\ e <= Ticks(DataBits + 2)
  <2>1. e <= Ticks(DataBits + 2)
    BY <1>2, FrameLemma
  <2> QED BY <1>2, <1>5, <1>6, <2>1 DEF Moves
<1>10. timer'.flagA <=> e <= 0
  BY <1>2, <1>6, <1>7 DEF Flags
<1>11. -e <= timer'.late
  <2>1. CASE d <= 0
    BY <1>1, <1>2, <1>3, <2>1
  <2>2. CASE d >= 1
    <3>1. timer'.late \in Int /\ timer'.late >= 0
      BY <1>1 DEF Moves, TimerOK
    <3> QED BY <1>4, <2>2, <3>1
  <2> QED BY <2>1, <2>2
<1>12. tx.state \in 1 .. SentState /\ ~timer'.flagA => line' = 1 - tx.bit
  <2>1. ~timer'.flagA => ~timer.flagA /\ n # d
    BY <1>7 DEF Flags
  <2> QED BY <1>1, <1>8, <2>1 DEF Due
<1>13. Due(e)'
  BY <1>1, <1>9, <1>10, <1>11, <1>12 DEF Due
<1> QED BY <1>4, <1>7, <1>8, <1>13

LEMMA TickTiming == ASSUME TInv, Timing, Tick PROVE Timing'
<1>1. UNCHANGED <<tx, rx, flying>>
  BY DEF Tick
<1>2. PICK n \in Nat : Moves(n) /\ Flags(n) /\ Nearest(n)
  BY TickMoves
<1>3. PICK d \in Int, g \in Int, b \in [1 .. DataBits -> {0, 1}] : Due(d) /\ Phase(d, g, b)
  BY DEF Timing
<1>4. PICK e \in Int, h \in Int : e = d - n /\ h = g - n
  OBVIOUS
<1>5. /\ flying' \in Seq(Bytes)
      /\ timer'.edge = IF rx'.bit = 0 THEN "falling" ELSE "rising"
  BY <1>1, <1>2 DEF Timing, Moves
<1>6. /\ tx.state \in 0 .. TailState /\ tx.bit \in {0, 1} /\ line \in {0, 1}
      /\ tx.state = 0 => ~timer.onA /\ line = 1
      /\ tx.state = TailState => line = 1 /\ tx.bit = 1
      /\ rx.bit \in {0, 1}
  BY StatesLemma DEF TInv, IInv, Shapes, Stopped, Ended, RxOK
<1>7. SUFFICES Due(e)' /\ Phase(e, h, b)'
  BY <1>5 DEF Timing
<1>8. Deaf => Deaf'
  BY <1>1, <1>2, DeafFrame DEF Moves
<1>9. Fly(0) => Fly(0)'
  BY <1>1, FlyFrame
<1>10. Fly(1) => Fly(1)'
  BY <1>1, FlyFrame
<1>11. Fly(2) => Fly(2)'
  BY <1>1, FlyFrame
<1>12. CASE tx.state = 0
  <2>1. Done
    BY <1>3, <1>12, StatesLemma DEF Phase, Starting, Same, Resting
  <2>2. ~HitA(n)
    BY <1>6, <1>12 DEF HitA
  <2>3. line' = line
    BY <1>2, <2>2 DEF Flags
  <2>4. ~timer'.flagC
    BY <1>2, <1>6, <2>1, <2>3 DEF Flags, Edge, Done
  <2>5. Done'
    BY <1>1, <1>8, <1>9, <1>12, <2>1, <2>4 DEF Done
  <2> QED BY <1>1, <1>12, <2>5 DEF Due, Phase
<1>13. CASE tx.state # 0
  <2>1. /\ Due(e)'
        /\ d > 0 => n <= d
        /\ HitA(n) <=> n = d
        /\ line' = IF n = d THEN tx.bit ELSE line
    BY <1>2, <1>3, <1>4, <1>13, TickDue
  <2>2. /\ timer.flagA <=> d <= 0
        /\ tx.state \in 1 .. SentState /\ d > 0 => line = 1 - tx.bit
        /\ timer.ocrA = After(timer.count, d)
    BY <1>3, <1>13 DEF Due
  <2>3. Edge <=> n = d /\ tx.state # TailState /\ ~timer.flagA /\ rx.bit = tx.bit
    <3>1. CASE n # d
      <4>1. line' = line
        BY <2>1, <3>1
      <4> QED BY <1>6, <3>1, <4>1 DEF Edge
    <3>2. CASE n = d /\ tx.state = TailState
      <4>1. line' = line
        BY <1>6, <2>1, <3>2
      <4> QED BY <1>6, <3>2, <4>1 DEF Edge
    <3>3. CASE n = d /\ d <= 0
      <4>1. n = 1
        BY <1>2, <1>3, <1>13, <2>2, <3>3 DEF Moves, Pending, WantA, Due
      <4> QED BY <1>2, <3>3, <4>1
    <3>4. CASE n = d /\ d > 0 /\ tx.state # TailState
      <4>1. tx.state \in 1 .. SentState
        BY <1>6, <1>13, <3>4, StatesLemma
      <4>2. line = 1 - tx.bit /\ line' = tx.bit
        BY <2>1, <2>2, <3>4, <4>1
      <4>3. timer.edge = IF rx.bit = 0 THEN "falling" ELSE "rising"
        BY DEF Timing
      <4> QED BY <1>6, <2>2, <3>4, <4>2, <4>3 DEF Edge
    <3> QED BY <3>1, <3>2, <3>3, <3>4
  <2>4. timer'.flagA <=> timer.flagA \/ n = d
    BY <1>2, <2>1 DEF Flags
  <2>5. /\ timer'.flagC <=> timer.flagC \/ Edge
        /\ timer'.icr = IF Edge THEN After(timer.count, n) ELSE timer.icr
    BY <1>2 DEF Flags
  <2>6. timer'.ocrA = timer.ocrA
    BY <1>2 DEF Moves
  <2>7. CASE Done
    <3>1. (tx.state = SentState /\ timer.flagA) \/ tx.state = TailState
      BY <1>13, <2>7 DEF Done
    <3>2. ~timer'.flagC
      BY <2>3, <2>5, <2>7, <3>1 DEF Done
    <3>3. Done'
      BY <1>1, <1>8, <1>9, <2>4, <2>7, <3>1, <3>2 DEF Done
    <3> QED BY <2>1, <3>3 DEF Phase
  <2>8. CASE Starting
    <3>1. rx.bit = tx.bit /\ tx.state = 1 /\ tx.state # TailState
      BY <1>3, <2>8, StatesLemma DEF Starting, Deaf, Due
    <3>2. timer'.flagC <=> timer'.flagA
      BY <2>3, <2>4, <2>5, <2>8, <3>1 DEF Starting
    <3>3. timer'.flagC => timer'.icr = timer'.ocrA
      BY <2>2, <2>3, <2>5, <2>6, <2>8 DEF Starting
    <3>4. Starting'
      BY <1>1, <1>8, <1>10, <2>8, <3>2, <3>3 DEF Starting
    <3> QED BY <2>1, <3>4 DEF Phase
  <2>9. Same(d, g, b) => Same(e, h, b)'
    <3> SUFFICES ASSUME Same(d, g, b) PROVE Same(e, h, b)'
      OBVIOUS
    <3>1. Receiving(h, b)' /\ h <= 0
      BY <1>1, <1>2, <1>4, <1>13, TickReceiving DEF Same
    <3>2. h = e - Ticks(tx'.state - 1)
      <4>1. PICK s \in Int : s = Ticks(tx.state - 1)
        <5>1. tx.state - 1 \in Int
          BY DEF Same
        <5> QED BY <5>1, TicksLemma
      <4>2. g = d - s
        BY <4>1 DEF Same
      <4>3. h = e - s
        BY <1>4, <4>2
      <4> QED BY <1>1, <4>1, <4>3
    <3> QED BY <1>1, <1>10, <3>1, <3>2 DEF Same
  <2>10. CASE Same(d, g, b) /\ Behind
    <3>1. tx.state # TailState
      BY <2>10, StatesLemma DEF Same
    <3>2. timer'.flagC <=> timer'.flagA
      BY <2>3, <2>4, <2>5, <2>10, <3>1 DEF Behind
    <3>3. timer'.flagC => timer'.icr = timer'.ocrA
      BY <2>2, <2>3, <2>5, <2>6, <2>10 DEF Behind
    <3>4. Behind'
      BY <1>1, <2>10, <3>2, <3>3 DEF Behind
    <3> QED BY <2>1, <2>9, <2>10, <3>4 DEF Phase
  <2>11. CASE Same(d, g, b) /\ Captured
    <3>1. timer'.flagA /\ ~timer'.flagC
      BY <2>3, <2>4, <2>5, <2>11 DEF Captured
    <3>2. Captured'
      BY <1>1, <2>11, <3>1 DEF Captured
    <3> QED BY <2>1, <2>9, <2>11, <3>2 DEF Phase
  <2>12. CASE Resting(d, g, b)
    <3>1. /\ Receiving(h, b)' /\ h <= 0
          /\ g + RxStopTicks > 0 => n <= g + RxStopTicks
      BY <1>1, <1>2, <1>4, <1>13, <2>12, TickReceiving DEF Resting
    <3>2. PICK f \in Int, s \in Int : f = Ticks(DataBits + 2) /\ s = RxStopTicks
      BY FrameLemma
    <3>3. g = d - f /\ s + Latency < f /\ Latency \in Nat
      BY <2>12, <3>2, FrameLemma DEF Resting
    <3>4. n < d
      <4>1. CASE g + s > 0
        <5>1. n <= g + s
          BY <3>1, <3>2, <4>1
        <5> QED BY <3>3, <5>1
      <4>2. CASE g + s <= 0
        <5>1. timer.late \in 0 .. Latency /\ -(g + s) <= timer.late
          BY <2>12, <3>2 DEF TInv, TimerOK, Resting, Receiving
        <5>2. Pending(timer)
          BY <2>12, <3>2, <4>2 DEF Pending, WantB, Resting, Receiving
        <5>3. n = 1 /\ timer.late < Latency
          BY <1>2, <5>2 DEF Moves
        <5> QED BY <3>3, <5>1, <5>3
      <4> QED BY <3>3, <4>1, <4>2
    <3>6. e > 0 /\ h = e - f /\ n # d
      BY <1>4, <3>3, <3>4
    <3>7. ~timer'.flagC
      BY <2>3, <2>5, <2>12, <3>6 DEF Resting
    <3>8. Resting(e, h, b)'
      BY <1>1, <1>10, <1>11, <2>12, <3>1, <3>2, <3>6, <3>7 DEF Resting
    <3> QED BY <2>1, <3>8 DEF Phase
  <2> QED BY <1>3, <2>7, <2>8, <2>10, <2>11, <2>12 DEF Phase
<1> QED BY <1>12, <1>13

-----------------------------------------------------------------------------
(* The handlers.                                                           *)
LEMMA MovedSum == \A t, x, y \in Int : After(After(t, x), y) = After(t, x + y)
<1> SUFFICES ASSUME NEW t \in Int, NEW x \in Int, NEW y \in Int
             PROVE  After(After(t, x), y) = After(t, x + y)
  OBVIOUS
<1> QED BY MovedLemma

LEMMA TicksType == \A n \in Int : Ticks(n) \in Int
BY TicksLemma

LEMMA TicksSum == \A m, n \in Int : Ticks(m + n) = Ticks(m) + Ticks(n)
BY TicksLemma

LEMMA TicksOrder ==
    Ticks(1) = BitTicks /\ \A m, n \in Int : m <= n => Ticks(m) <= Ticks(n)
BY TicksLemma

LEMMA ServedFields ==
    ASSUME NEW u, DOMAIN u = DOMAIN timer, Shapes
    PROVE  /\ Served(u).count = u.count /\ Served(u).icr = u.icr /\ Served(u).edge = u.edge
           /\ Served(u).ocrA = u.ocrA /\ Served(u).onA = u.onA /\ Served(u).flagA = u.flagA
           /\ Served(u).ocrB = u.ocrB /\ Served(u).onB = u.onB /\ Served(u).flagB = u.flagB
           /\ Served(u).flagC = u.flagC
           /\ Served(u).late = IF Pending(u) THEN u.late ELSE 0
BY DEF Served, Shapes

(* What a handler does to the wait of the other interrupts.                *)
Waited == timer'.late = IF Pending(timer') THEN timer.late ELSE 0

LEMMA KeepReceiving ==
    ASSUME TInv, UNCHANGED rx, timer'.count = timer.count, timer'.onB = timer.onB,
           timer'.ocrB = timer.ocrB, timer'.flagB = timer.flagB, Waited,
           NEW g \in Int, NEW b, Receiving(g, b)
    PROVE  Receiving(g, b)'
<1>1. timer.onB /\ RxStopTicks \in Int /\ timer.late \in Int
  BY FrameLemma DEF Receiving, TInv, TimerOK
<1>2. -(g + RxStopTicks) <= timer'.late
  <2>1. CASE timer.flagB
    <3>1. Pending(timer')
      BY <1>1, <2>1 DEF Pending, WantB
    <3> QED BY <3>1 DEF Waited, Receiving
  <2>2. CASE ~timer.flagB
    <3>1. g + RxStopTicks > 0
      BY <1>1, <2>2 DEF Receiving
    <3>2. timer'.late = timer.late \/ timer'.late = 0
      BY DEF Waited
    <3> QED BY <1>1, <3>1, <3>2 DEF Receiving
  <2> QED BY <2>1, <2>2
<1> QED BY <1>2 DEF Receiving

(* What every branch of the compare handler has in common.                 *)
Rearmed ==
    /\ UNCHANGED <<line, rx, flying>> /\ Waited /\ ~timer'.flagA
    /\ timer'.count = timer.count /\ timer'.onB = timer.onB /\ timer'.ocrB = timer.ocrB
    /\ timer'.flagB = timer.flagB /\ timer'.flagC = timer.flagC /\ timer'.edge = timer.edge

LEMMA RearmedLemma ==
    ASSUME TInv, NEW u, DOMAIN u = DOMAIN timer, timer' = Served(u),
           UNCHANGED <<line, rx, flying>>,
           u.flagA = FALSE, u.late = timer.late, u.count = timer.count, u.onB = timer.onB,
           u.ocrB = timer.ocrB, u.flagB = timer.flagB, u.flagC = timer.flagC,
           u.edge = timer.edge
    PROVE  Rearmed /\ timer'.onA = u.onA /\ timer'.ocrA = u.ocrA
<1>1. Shapes
  BY DEF TInv, IInv
<1>2. /\ timer'.count = u.count /\ timer'.edge = u.edge
      /\ timer'.ocrA = u.ocrA /\ timer'.onA = u.onA /\ timer'.flagA = u.flagA
      /\ timer'.ocrB = u.ocrB /\ timer'.onB = u.onB /\ timer'.flagB = u.flagB
      /\ timer'.flagC = u.flagC
      /\ timer'.late = IF Pending(u) THEN u.late ELSE 0
  BY <1>1, ServedFields
<1>3. Pending(timer') <=> Pending(u)
  BY <1>2 DEF Pending, WantA, WantB, WantC
<1> QED BY <1>2, <1>3 DEF Rearmed, Waited

(* When the compare handler of unit A runs, the edge it was called for has *)
(* been captured, or there was none.                                       *)
LEMMA ServingLemma ==
    ASSUME TInv, CompareA, NEW d \in Int, NEW g \in Int, NEW b, Due(d), Phase(d, g, b)
    PROVE  /\ d <= 0 /\ -d <= Latency /\ tx.state \in 1 .. TailState /\ timer.flagA /\ timer.onA
           /\ ~timer.flagC /\ line = tx.bit /\ timer.ocrA = After(timer.count, d)
           /\ \/ Same(d, g, b) /\ Captured
              \/ Done /\ tx.state \in {SentState, TailState}
<1>1. timer.onA /\ timer.flagA /\ ~timer.flagC
  BY DEF CompareA, WantA, WantC
<1>2. tx.state \in 1 .. TailState /\ line = tx.bit
  BY <1>1, StatesLemma DEF TInv, IInv, Shapes, Stopped, Driven
<1>3. /\ timer.ocrA = After(timer.count, d) /\ -d <= timer.late
      /\ timer.flagA <=> d <= 0
  BY <1>2 DEF Due
<1>4. -d <= Latency
  BY <1>3, FrameLemma DEF TInv, TimerOK
<1>5. ~Starting /\ ~Behind /\ ~Resting(d, g, b)
  BY <1>1, <1>3 DEF Starting, Behind, Resting
<1>6. Done => tx.state \in {SentState, TailState}
  BY <1>2 DEF Done
<1> QED BY <1>1, <1>2, <1>3, <1>4, <1>5, <1>6 DEF Phase

(* The next edge of the same byte.                                         *)
LEMMA EdgeTiming ==
    ASSUME TInv, Timing, CompareA, Rearmed, UNCHANGED <<flying>>,
           NEW i \in Changes, \A j \in Changes : i <= j,
           tx'.state = i + 1, tx'.bit = 1 - tx.bit, tx'.byte = tx.byte,
           tx'.head = tx.head, tx'.tail = tx.tail, tx'.buffer = tx.buffer,
           timer'.onA, timer'.ocrA = After(timer.ocrA, Ticks(i + 1 - tx.state))
    PROVE  Timing'
<1>1. PICK d \in Int, g \in Int, b \in [1 .. DataBits -> {0, 1}] : Due(d) /\ Phase(d, g, b)
  BY DEF Timing
<1>2. /\ d <= 0 /\ -d <= Latency /\ tx.state \in 1 .. TailState /\ timer.flagA
      /\ ~timer.flagC /\ line = tx.bit /\ timer.ocrA = After(timer.count, d)
      /\ \/ Same(d, g, b) /\ Captured
         \/ Done /\ tx.state \in {SentState, TailState}
  BY <1>1, ServingLemma
<1>3. tx.state \in 1 .. StopState /\ i \in tx.state .. StopState /\ i \in 1 .. StopState
  BY <1>2, StatesLemma DEF Changes
<1>4. Same(d, g, b) /\ Captured
  BY <1>2, <1>3, StatesLemma
<1>5. PICK s \in Int, m \in Int, k \in Int :
        s = tx.state /\ m = i + 1 - s /\ k = Ticks(m)
  <2>1. PICK s \in Int, m \in Int : s = tx.state /\ m = i + 1 - s
    BY <1>3, StatesLemma
  <2>2. Ticks(m) \in Int
    BY TicksType
  <2> QED BY <2>1, <2>2
<1>6. PICK e \in Int : e = d + k
  OBVIOUS
<1>7. Latency < BitTicks /\ BitTicks \in Int /\ Latency \in Int
  BY StopLemma
<1>8. BitTicks <= k /\ k <= Ticks(DataBits + 2)
  <2>1. 1 <= m /\ m <= DataBits + 2 /\ m \in Int /\ 1 \in Int /\ DataBits + 2 \in Int
    <3>1. s \in Int /\ i \in Int /\ 1 <= s /\ s <= i /\ i <= DataBits + 1
      BY <1>3, <1>5, StatesLemma
    <3>2. DataBits \in Nat /\ m = i + 1 - s
      BY <1>5
    <3> QED BY <3>1, <3>2
  <2>2. Ticks(1) <= Ticks(m) /\ Ticks(m) <= Ticks(DataBits + 2) /\ Ticks(1) = BitTicks
    BY <2>1, TicksOrder
  <2> QED BY <1>5, <2>2
<1>9. e > 0 /\ e <= Ticks(DataBits + 2)
  BY <1>2, <1>6, <1>7, <1>8, FrameLemma
<1>10. timer'.ocrA = After(timer'.count, e)
  <2>1. timer'.ocrA = After(After(timer.count, d), k)
    BY <1>2, <1>5
  <2>2. timer.count \in Int
    BY CountLemma DEF TInv, TimerOK
  <2>4. PICK c \in Int : c = timer.count
    BY <2>2
  <2>5. After(After(c, d), k) = After(c, d + k)
    BY MovedSum
  <2> QED BY <1>6, <2>1, <2>4, <2>5 DEF Rearmed
<1>11. b = tx.byte /\ \A j \in 1 .. StopState : Level(j) = IF j < StopState THEN b[j] ELSE 1
  BY <1>4 DEF Same, Level
<1>12. b \in [1 .. DataBits -> {0, 1}] /\ tx.bit \in {0, 1}
  BY DEF TInv, IInv, Shapes
<1>13. i < StopState => b[i] = 1 - tx.bit
  <2>1. Level(i) # tx.bit
    BY DEF Changes
  <2> QED BY <1>3, <1>11, <1>12, <2>1, StatesLemma
<1>14. Due(e)'
  <2>1. -e <= timer'.late
    <3>1. timer'.late \in Int /\ timer'.late >= 0
      <4>1. timer'.late = timer.late \/ timer'.late = 0
        BY DEF Rearmed, Waited
      <4> QED BY <4>1 DEF TInv, TimerOK
    <3> QED BY <1>9, <3>1
  <2>2. line' = 1 - tx'.bit
    BY <1>2, <1>12 DEF Rearmed
  <2>3. tx'.state # 1
    BY <1>3, StatesLemma
  <2>4. tx'.state \in 2 .. StopState => tx'.bit = tx'.byte[tx'.state - 1]
    <3>1. tx'.state \in 2 .. StopState => i < StopState /\ tx'.state - 1 = i
      BY <1>3, StatesLemma
    <3> QED BY <1>11, <1>13, <3>1
  <2> QED BY <1>9, <1>10, <2>1, <2>2, <2>3, <2>4 DEF Due, Rearmed
<1>15. \A j \in s .. i - 1 : b[j] = tx.bit
  <2> SUFFICES ASSUME NEW j \in s .. i - 1 PROVE b[j] = tx.bit
    OBVIOUS
  <2>1. j \in 1 .. StopState /\ j < StopState /\ j \in tx.state .. StopState /\ ~(i <= j)
    BY <1>3, <1>5, StatesLemma
  <2>2. j \notin Changes
    BY <2>1
  <2>3. Level(j) = tx.bit
    BY <2>1, <2>2 DEF Changes
  <2> QED BY <1>11, <2>1, <2>3
<1>16. Behind'
  <2>1. rx'.state < tx'.state /\ rx'.bit = tx'.bit
    BY <1>3, <1>4, <1>5, StatesLemma DEF Captured, Rearmed
  <2>2. ASSUME NEW j \in rx'.state .. tx'.state - 2 PROVE tx'.byte[j] = 1 - tx'.bit
    <3>1. 1 - tx'.bit = tx.bit /\ tx'.byte = b
      BY <1>11, <1>12
    <3>2. j \in rx.state .. i - 1 /\ rx.state = IF s = 1 THEN 1 ELSE s - 1
      BY <1>3, <1>4, <1>5, <2>2, StatesLemma DEF Captured, Rearmed
    <3>3. CASE j \in s .. i - 1
      BY <1>15, <3>1, <3>3
    <3>4. CASE j = s - 1 /\ s \in 2 .. StopState
      <4>1. tx.bit = tx.byte[tx.state - 1]
        BY <1>1, <1>5, <3>4, StatesLemma DEF Due
      <4> QED BY <1>5, <1>11, <3>1, <3>4, <4>1
    <3>5. j \in s .. i - 1 \/ (j = s - 1 /\ s \in 2 .. StopState)
      <4>1. PICK r \in Int : r = rx.state /\ r = (IF s = 1 THEN 1 ELSE s - 1)
        BY <3>2
      <4>2. s \in 1 .. StopState /\ i \in Int /\ StopState \in Int
        BY <1>3, <1>5, StatesLemma
      <4>3. j \in r .. i - 1
        BY <3>2, <4>1
      <4>4. CASE s = 1
        BY <4>1, <4>2, <4>3, <4>4
      <4>5. CASE s # 1
        <5>1. s \in 2 .. StopState /\ r = s - 1
          BY <4>1, <4>2, <4>5
        <5>2. j = s - 1 \/ j \in s .. i - 1
          BY <4>2, <4>3, <5>1
        <5> QED BY <5>1, <5>2
      <4> QED BY <4>4, <4>5
    <3> QED BY <3>3, <3>4, <3>5
  <2> QED BY <1>2, <2>1, <2>2 DEF Behind, Rearmed
<1>17. Same(e, g, b)'
  <2>1. Receiving(g, b)'
    BY <1>4, KeepReceiving DEF Same, Rearmed
  <2>2. tx'.state \in 1 .. SentState
    BY <1>3, StatesLemma
  <2>3. g = e - Ticks(tx'.state - 1)
    <3>1. PICK p \in Int, q \in Int : p = Ticks(s - 1) /\ q = Ticks(i)
      <4>1. s - 1 \in Int /\ i \in Int
        BY <1>3, <1>5, StatesLemma
      <4> QED BY <4>1, TicksLemma
    <3>2. q = p + k
      <4>1. s - 1 \in Int /\ m \in Int /\ i = (s - 1) + m
        BY <1>3, <1>5, StatesLemma
      <4>2. Ticks((s - 1) + m) = Ticks(s - 1) + Ticks(m)
        BY <4>1, TicksSum
      <4> QED BY <1>5, <3>1, <4>1, <4>2
    <3>3. g = d - p
      BY <1>4, <1>5, <3>1 DEF Same
    <3>4. tx'.state - 1 = i
      BY <1>3, StatesLemma
    <3>5. g = e - q
      BY <1>6, <3>2, <3>3
    <3> QED BY <3>1, <3>4, <3>5
  <2>4. Fly(1)'
    BY <1>4 DEF Same, Fly, InRing, Rearmed
  <2> QED BY <1>4, <2>1, <2>2, <2>3, <2>4 DEF Same, Rearmed
<1>18. Phase(e, g, b)'
  BY <1>16, <1>17 DEF Phase
<1> QED BY <1>14, <1>18 DEF Timing, Rearmed

-----------------------------------------------------------------------------
(* The rings.                                                              *)
LEMMA RoundLemma ==
    ASSUME NEW size \in Nat, size > 1, NEW t \in 0 .. size - 1
    PROVE  /\ Succ(t, size) = (t + 1) % size /\ Succ(t, size) \in 0 .. size - 1
           /\ \A i \in Nat : (Succ(t, size) + i) % size = (t + (1 + i)) % size
<1>1. PICK n \in Nat \ {0} : n = size
  OBVIOUS
<1>2. PICK u \in Int : u = t + 1
  OBVIOUS
<1>3. Succ(t, size) \in 0 .. size - 1
  BY SuccLemma
<1>4. u % n = Succ(t, size)
  <2>1. CASE u < n
    <3>1. u = n * 0 + u /\ u \in 0 .. n - 1 /\ 0 \in Int
      BY <1>1, <1>2, <2>1
    <3>2. u % n = u
      BY <3>1, ModUnique
    <3> QED BY <1>1, <1>2, <2>1, <3>2 DEF Succ
  <2>2. CASE ~(u < n)
    <3>1. u = n * 1 + 0 /\ 0 \in 0 .. n - 1 /\ 1 \in Int
      BY <1>1, <1>2, <2>2
    <3>2. u % n = 0
      BY <3>1, ModUnique
    <3> QED BY <1>1, <1>2, <2>2, <3>2 DEF Succ
  <2> QED BY <2>1, <2>2
<1>5. ASSUME NEW i \in Nat PROVE (Succ(t, size) + i) % size = (t + (1 + i)) % size
  <2>1. i \in Int /\ t + (1 + i) = u + i
    BY <1>2
  <2>2. ((u % n) + i) % n = (u + i) % n
    BY <2>1, ModAdd
  <2> QED BY <1>1, <1>4, <2>1, <2>2
<1> QED BY <1>1, <1>2, <1>3, <1>4, <1>5

LEMMA FilledLemma ==
    ASSUME NEW size \in Nat, size > 1, NEW h \in 0 .. size - 1, NEW t \in 0 .. size - 1
    PROVE  /\ Count(h, t, size) \in 0 .. size - 1
           /\ Count(h, t, size) = 0 <=> h = t
           /\ h # t => Count(h, Succ(t, size), size) = Count(h, t, size) - 1
           /\ Succ(h, size) # t => Count(Succ(h, size), t, size) = Count(h, t, size) + 1
           /\ Succ(h, size) = t => Count(h, t, size) = size - 1
<1>1. PICK n \in Nat : n = size
  OBVIOUS
<1>2. /\ Succ(t, size) = IF t + 1 < n THEN t + 1 ELSE 0
      /\ Succ(h, size) = IF h + 1 < n THEN h + 1 ELSE 0
  BY <1>1 DEF Succ
<1>3. \A x, y \in 0 .. n - 1 : Count(x, y, size) = IF x >= y THEN x - y ELSE n + x - y
  BY <1>1 DEF Count
<1>4. Count(h, t, size) = IF h >= t THEN h - t ELSE n + h - t
  BY <1>1, <1>3
<1>5. h # t => Count(h, Succ(t, size), size) = Count(h, t, size) - 1
  <2>1. PICK s \in 0 .. n - 1 : s = Succ(t, size)
    BY <1>1, <1>2
  <2>2. Count(h, s, size) = IF h >= s THEN h - s ELSE n + h - s
    BY <1>1, <1>3
  <2> QED BY <1>1, <1>2, <1>4, <2>1, <2>2
<1>6. Succ(h, size) # t => Count(Succ(h, size), t, size) = Count(h, t, size) + 1
  <2>1. PICK s \in 0 .. n - 1 : s = Succ(h, size)
    BY <1>1, <1>2
  <2>2. Count(s, t, size) = IF s >= t THEN s - t ELSE n + s - t
    BY <1>1, <1>3
  <2> QED BY <1>1, <1>2, <1>4, <2>1, <2>2
<1>7. Succ(h, size) = t => Count(h, t, size) = n - 1
  BY <1>1, <1>2, <1>4
<1> QED BY <1>1, <1>4, <1>5, <1>6, <1>7

(* The live slots of a ring survive its tidying.                           *)
LEMMA TidyLemma ==
    ASSUME NEW r, NEW size \in Nat, size > 1, r.tail \in 0 .. size - 1, r.head \in 0 .. size - 1,
           "buffer" \in DOMAIN r
    PROVE  /\ DOMAIN Tidy(r, size) = DOMAIN r
           /\ \A f \in DOMAIN r \ {"buffer"} : Tidy(r, size)[f] = r[f]
           /\ \A i \in 1 .. Count(r.head, r.tail, size) :
                 Tidy(r, size).buffer[(r.tail + i) % size] = r.buffer[(r.tail + i) % size]
<1>1. DOMAIN Tidy(r, size) = DOMAIN r
  BY DEF Tidy
<1>2. \A f \in DOMAIN r \ {"buffer"} : Tidy(r, size)[f] = r[f]
  BY DEF Tidy
<1>3. Tidy(r, size).buffer = [i \in 0 .. size - 1 |-> IF i \in Live(r, size) THEN r.buffer[i] ELSE Zero]
  BY DEF Tidy
<1>4. ASSUME NEW i \in 1 .. Count(r.head, r.tail, size)
      PROVE  Tidy(r, size).buffer[(r.tail + i) % size] = r.buffer[(r.tail + i) % size]
  <2>1. (r.tail + i) % size \in Live(r, size)
    BY DEF Live
  <2>2. (r.tail + i) % size \in 0 .. size - 1
    <3>1. Count(r.head, r.tail, size) \in 0 .. size - 1
      BY FilledLemma
    <3>2. i \in Nat
      BY <3>1
    <3>3. PICK x \in Int, n \in Nat : x = r.tail + i /\ n = size /\ n > 1
      BY <3>2
    <3>4. x % n \in 0 .. n - 1
      BY <3>3
    <3> QED BY <3>3, <3>4
  <2> QED BY <1>3, <2>1, <2>2
<1> QED BY <1>1, <1>2, <1>4

LEMMA TxSizes == TxSize \in Nat /\ TxSize > 1 /\ RxSize \in Nat /\ RxSize > 1
BY SizeAssumption

LEMMA TxFilled ==
    \A h, t \in 0 .. TxSize - 1 :
        /\ Count(h, t, TxSize) \in 0 .. TxSize - 1
        /\ h # t => /\ Count(h, t, TxSize) # 0
                    /\ Count(h, Succ(t, TxSize), TxSize) = Count(h, t, TxSize) - 1
        /\ Succ(h, TxSize) # t => Count(Succ(h, TxSize), t, TxSize) = Count(h, t, TxSize) + 1
        /\ h = t => Count(h, t, TxSize) = 0
<1> SUFFICES ASSUME NEW h \in 0 .. TxSize - 1, NEW t \in 0 .. TxSize - 1
             PROVE  /\ Count(h, t, TxSize) \in 0 .. TxSize - 1
                    /\ h # t => /\ Count(h, t, TxSize) # 0
                                /\ Count(h, Succ(t, TxSize), TxSize) = Count(h, t, TxSize) - 1
                    /\ Succ(h, TxSize) # t =>
                          Count(Succ(h, TxSize), t, TxSize) = Count(h, t, TxSize) + 1
                    /\ h = t => Count(h, t, TxSize) = 0
  OBVIOUS
<1> QED BY FilledLemma, TxSizes

(* The oldest byte of the ring becomes the one being sent.                 *)
LEMMA FlyNext ==
    ASSUME TxOK, Queued, NEW k \in Nat, Fly(k), UNCHANGED flying,
           tx'.head = tx.head, tx'.tail = Succ(tx.tail, TxSize),
           tx'.byte = tx.buffer[Succ(tx.tail, TxSize)],
           \A i \in 1 .. Count(tx'.head, tx'.tail, TxSize) :
              tx'.buffer[(tx'.tail + i) % TxSize] = tx.buffer[(tx'.tail + i) % TxSize],
           NEW m \in Nat, m = k + 1
    PROVE  Fly(m)' /\ flying'[m] = tx'.byte
<1>1. /\ tx.head \in 0 .. TxSize - 1 /\ tx.tail \in 0 .. TxSize - 1 /\ tx.head # tx.tail
  BY DEF TxOK, Queued
<1>2. PICK c \in Nat, e \in Nat : c = InRing /\ e = InRing' /\ e = c - 1
  <2>1. /\ Count(tx.head, tx.tail, TxSize) \in 0 .. TxSize - 1
        /\ Count(tx.head, tx.tail, TxSize) # 0
        /\ Count(tx.head, Succ(tx.tail, TxSize), TxSize) = Count(tx.head, tx.tail, TxSize) - 1
    <3>1. PICK h \in 0 .. TxSize - 1, t \in 0 .. TxSize - 1 :
            h = tx.head /\ t = tx.tail /\ h # t
      BY <1>1
    <3>2. /\ Count(h, t, TxSize) \in 0 .. TxSize - 1 /\ Count(h, t, TxSize) # 0
          /\ Count(h, Succ(t, TxSize), TxSize) = Count(h, t, TxSize) - 1
      BY <3>1, TxFilled
    <3> QED BY <3>1, <3>2
  <2> QED BY <2>1 DEF InRing
<1>3. \A i \in Nat : (Succ(tx.tail, TxSize) + i) % TxSize = (tx.tail + (1 + i)) % TxSize
  BY <1>1, RoundLemma, TxSizes
<1>4. Succ(tx.tail, TxSize) = (tx.tail + 1) % TxSize
  BY <1>1, RoundLemma, TxSizes
<1>5. \A i \in 1 .. c : flying[k + i] = tx.buffer[(tx.tail + i) % TxSize]
  BY <1>2 DEF Fly
<1>6. flying'[m] = tx'.byte
  <2>1. 1 \in 1 .. c
    BY <1>2
  <2>2. flying[k + 1] = tx.buffer[(tx.tail + 1) % TxSize]
    BY <1>5, <2>1
  <2> QED BY <1>4, <2>2
<1>7. Len(flying') = m + e
  <2>1. Len(flying) = k + c
    BY <1>2 DEF Fly
  <2> QED BY <1>2, <2>1
<1>8. ASSUME NEW i \in 1 .. e
      PROVE  flying'[m + i] = tx'.buffer[(tx'.tail + i) % TxSize]
  <2>1. PICK j \in 1 .. c : j = 1 + i /\ m + i = k + j
    BY <1>2
  <2>2. flying[k + j] = tx.buffer[(tx.tail + j) % TxSize]
    BY <1>5
  <2>3. (tx'.tail + i) % TxSize = (tx.tail + j) % TxSize
    BY <1>3, <2>1
  <2>4. i \in 1 .. Count(tx'.head, tx'.tail, TxSize)
    BY <1>2 DEF InRing
  <2>5. tx'.buffer[(tx'.tail + i) % TxSize] = tx.buffer[(tx'.tail + i) % TxSize]
    BY <2>4
  <2> QED BY <2>1, <2>2, <2>3, <2>5
<1> QED BY <1>2, <1>6, <1>7, <1>8 DEF Fly

(* With no change of level to come the line is high, and so are the bits   *)
(* the receiver still waits for.                                           *)
LEMMA QuietLemma ==
    ASSUME TInv, CompareA, Changes = {}, NEW d \in Int, NEW g \in Int,
           NEW b \in [1 .. DataBits -> {0, 1}], Due(d), Phase(d, g, b)
    PROVE  /\ tx.bit = 1 /\ line = 1
           /\ Same(d, g, b) /\ Captured => rx.bit = 0 /\ \A j \in rx.state .. DataBits : b[j] = 1
<1>1. tx.state \in 1 .. TailState /\ line = tx.bit
  BY ServingLemma
<1>2. tx.bit = 1
  <2>1. CASE tx.state <= StopState
    <3>1. StopState \in tx.state .. StopState /\ Level(StopState) = 1
      BY <1>1, <2>1, StatesLemma DEF Level
    <3> QED BY <3>1 DEF Changes
  <2>2. CASE tx.state > StopState
    BY <1>1, <2>2, StatesLemma DEF TInv, IInv, Ended
  <2> QED BY <1>1, <2>1, <2>2, StatesLemma
<1>3. ASSUME Same(d, g, b), Captured, NEW j \in rx.state .. DataBits
      PROVE  b[j] = 1
  <2>1. /\ b = tx.byte /\ rx.state \in 1 .. DataBits
        /\ rx.state = IF tx.state = 1 THEN 1 ELSE tx.state - 1
    BY <1>3 DEF Same, Captured, Receiving
  <2>2. j \in 1 .. DataBits
    BY <1>3, <2>1
  <2>3. CASE j >= tx.state
    <3>1. j \in tx.state .. StopState /\ j < StopState
      BY <1>1, <2>2, <2>3, StatesLemma
    <3>2. Level(j) = tx.bit
      BY <3>1 DEF Changes
    <3> QED BY <1>2, <2>1, <3>1, <3>2 DEF Level
  <2>4. CASE j < tx.state
    <3>1. j = tx.state - 1 /\ tx.state \in 2 .. StopState
      BY <1>1, <1>3, <2>1, <2>2, <2>4, StatesLemma
    <3>2. tx.bit = tx.byte[tx.state - 1]
      BY <3>1, StatesLemma DEF Due
    <3> QED BY <1>2, <2>1, <3>1, <3>2
  <2> QED BY <1>1, <2>2, <2>3, <2>4
<1> QED BY <1>1, <1>2, <1>3 DEF Captured

(* The edge after the last is the end of the stop bit, e ticks from now.   *)
LEMMA FrameEndLemma ==
    ASSUME TInv, Rearmed, NEW d \in Int, d <= 0, -d <= Latency,
           tx.state \in 1 .. SentState, timer.ocrA = After(timer.count, d),
           timer'.ocrA = After(timer.ocrA, Ticks(SentState + 1 - tx.state))
    PROVE  \E e \in Int :
             /\ e > 0 /\ e <= Ticks(DataBits + 2)
             /\ timer'.ocrA = After(timer'.count, e)
             /\ d - Ticks(tx.state - 1) = e - Ticks(DataBits + 2)
<1>1. PICK s \in Int, m \in Int, p \in Int, f \in Int :
        s = tx.state /\ m = SentState + 1 - s /\ p = s - 1 /\ f = DataBits + 2
  BY StatesLemma
<1>2. 1 <= s /\ 1 <= m /\ m <= f /\ f = p + m
  <2>1. PICK z \in Int : z = SentState /\ z = DataBits + 2 /\ DataBits \in Nat
    BY StatesLemma
  <2>2. 1 <= s /\ s <= z
    BY <1>1, <2>1
  <2>3. m = z + 1 - s
    BY <1>1, <2>1
  <2>4. m <= z
    BY <2>2, <2>3
  <2>5. 1 <= m
    BY <2>2, <2>3
  <2>6. z = p + m /\ f = z
    BY <1>1, <2>1, <2>3
  <2> QED BY <2>2, <2>4, <2>5, <2>6
<1>3. PICK k \in Int, q \in Int, w \in Int : k = Ticks(m) /\ q = Ticks(p) /\ w = Ticks(f)
  BY TicksType
<1>4. w = q + k
  BY <1>2, <1>3, TicksSum
<1>5. BitTicks <= k /\ k <= w
  <2>1. 1 \in Int /\ Ticks(1) <= Ticks(m) /\ Ticks(m) <= Ticks(f) /\ Ticks(1) = BitTicks
    BY <1>2, TicksOrder
  <2> QED BY <1>3, <2>1
<1>6. Latency < BitTicks /\ BitTicks \in Int /\ Latency \in Int
  BY StopLemma
<1>7. PICK e \in Int : e = d + k
  OBVIOUS
<1>8. e > 0 /\ e <= w /\ d - q = e - w
  BY <1>4, <1>5, <1>6, <1>7
<1>9. timer'.ocrA = After(timer'.count, e)
  <2>1. timer'.ocrA = After(After(timer.count, d), k)
    BY <1>1, <1>3
  <2>2. timer.count \in Int
    BY CountLemma DEF TInv, TimerOK
  <2>4. PICK c \in Int : c = timer.count
    BY <2>2
  <2>5. After(After(c, d), k) = After(c, d + k)
    BY MovedSum
  <2> QED BY <1>7, <2>1, <2>4, <2>5 DEF Rearmed
<1> QED BY <1>1, <1>3, <1>8, <1>9

LEMMA LateLemma == ASSUME TInv, Rearmed PROVE timer'.late \in Int /\ timer'.late >= 0
<1>1. timer'.late = timer.late \/ timer'.late = 0
  BY DEF Rearmed, Waited
<1> QED BY <1>1 DEF TInv, TimerOK

(* Nothing is queued: the stop bit is waited for, then there is silence.   *)
LEMMA TailTiming ==
    ASSUME TInv, Timing, CompareA, Changes = {}, Rearmed,
           UNCHANGED <<tx.bit, tx.byte, tx.head, tx.tail, tx.buffer>>,
           \/ /\ tx.state < TailState /\ tx'.state = TailState /\ timer'.onA
              /\ timer'.ocrA = After(timer.ocrA, Ticks(SentState + 1 - tx.state))
           \/ tx.state = TailState /\ tx'.state = 0
    PROVE  Timing'
<1>1. PICK d \in Int, g \in Int, b \in [1 .. DataBits -> {0, 1}] : Due(d) /\ Phase(d, g, b)
  BY DEF Timing
<1>2. /\ d <= 0 /\ -d <= Latency /\ tx.state \in 1 .. TailState
      /\ ~timer.flagC /\ timer.ocrA = After(timer.count, d)
      /\ \/ Same(d, g, b) /\ Captured
         \/ Done /\ tx.state \in {SentState, TailState}
  BY <1>1, ServingLemma
<1>3. /\ Same(d, g, b) /\ Captured => rx.bit = 0 /\ \A j \in rx.state .. DataBits : b[j] = 1
  BY <1>1, QuietLemma
<1>4. Fly(0) => Fly(0)'
  BY DEF Fly, InRing, Rearmed
<1>5. Fly(1) => Fly(1)'
  BY DEF Fly, InRing, Rearmed
<1>6. Deaf => Deaf'
  BY DEF Deaf, Rearmed
<1>7. Done => Done'
  BY <1>2, <1>4, <1>6, StatesLemma DEF Done, Rearmed
<1>8. CASE tx.state = TailState /\ tx'.state = 0
  <2>1. Done
    BY <1>2, <1>8, StatesLemma DEF Same
  <2> QED BY <1>1, <1>7, <1>8, <2>1 DEF Timing, Phase, Due, Rearmed
<1>9. CASE /\ tx.state < TailState /\ tx'.state = TailState /\ timer'.onA
           /\ timer'.ocrA = After(timer.ocrA, Ticks(SentState + 1 - tx.state))
  <2>1. tx.state \in 1 .. SentState
    BY <1>2, <1>9, StatesLemma
  <2>2. PICK e \in Int :
          /\ e > 0 /\ e <= Ticks(DataBits + 2)
          /\ timer'.ocrA = After(timer'.count, e)
          /\ d - Ticks(tx.state - 1) = e - Ticks(DataBits + 2)
    BY <1>2, <1>9, <2>1, FrameEndLemma
  <2>3. Due(e)'
    <3>1. -e <= timer'.late
      BY <2>2, LateLemma
    <3> QED BY <1>9, <2>2, <3>1, StatesLemma DEF Due, Rearmed
  <2>4. CASE Done
    BY <1>1, <1>7, <2>3, <2>4 DEF Timing, Phase, Rearmed
  <2>5. CASE Same(d, g, b) /\ Captured
    <3>1. Receiving(g, b)'
      BY <2>5, KeepReceiving DEF Same, Rearmed
    <3>2. flying # <<>>
      <4>1. Count(tx.head, tx.tail, TxSize) \in 0 .. TxSize - 1
        BY FilledLemma, TxSizes DEF TInv, TxOK
      <4>2. Len(flying) >= 1
        BY <2>5, <4>1, TxSizes DEF Same, Fly, InRing
      <4> QED BY <4>2
    <3>3. g = e - Ticks(DataBits + 2) /\ g <= 0
      BY <2>2, <2>5 DEF Same
    <3>4. Resting(e, g, b)'
      BY <1>2, <1>3, <1>5, <1>9, <2>2, <2>5, <3>1, <3>2, <3>3, StatesLemma
      DEF Resting, Same, Rearmed
    <3> QED BY <2>3, <3>4 DEF Timing, Phase, Rearmed
  <2> QED BY <1>2, <2>4, <2>5
<1> QED BY <1>8, <1>9

(* The next byte of the ring follows the stop bit.                         *)
LEMMA NextTiming ==
    ASSUME TInv, Timing, CompareA, Changes = {}, Queued, Rearmed, timer'.onA,
           tx'.state = 1, tx'.bit = 0,
           tx'.head = tx.head, tx'.tail = Succ(tx.tail, TxSize),
           tx'.byte = tx.buffer[Succ(tx.tail, TxSize)],
           \A i \in 1 .. Count(tx'.head, tx'.tail, TxSize) :
              tx'.buffer[(tx'.tail + i) % TxSize] = tx.buffer[(tx'.tail + i) % TxSize],
           timer'.ocrA = IF tx.state < TailState
                         THEN After(timer.ocrA, Ticks(SentState + 1 - tx.state))
                         ELSE After(timer.count, Lead)
    PROVE  Timing'
<1>1. PICK d \in Int, g \in Int, b \in [1 .. DataBits -> {0, 1}] : Due(d) /\ Phase(d, g, b)
  BY DEF Timing
<1>2. /\ d <= 0 /\ -d <= Latency /\ tx.state \in 1 .. TailState
      /\ ~timer.flagC /\ timer.ocrA = After(timer.count, d)
      /\ \/ Same(d, g, b) /\ Captured
         \/ Done /\ tx.state \in {SentState, TailState}
  BY <1>1, ServingLemma
<1>3. /\ Same(d, g, b) /\ Captured => rx.bit = 0 /\ \A j \in rx.state .. DataBits : b[j] = 1
      /\ line = 1
  BY <1>1, QuietLemma
<1>4. TxOK /\ UNCHANGED flying
  BY DEF TInv, Rearmed
<1>5. Fly(0) => Fly(1)' /\ flying'[1] = tx'.byte
  <2>1. \A k, m \in Nat : Fly(k) /\ m = k + 1 => Fly(m)' /\ flying'[m] = tx'.byte
    BY <1>4, FlyNext
  <2> QED BY <2>1
<1>6. Fly(1) => Fly(2)' /\ flying'[2] = tx'.byte
  <2>1. \A k, m \in Nat : Fly(k) /\ m = k + 1 => Fly(m)' /\ flying'[m] = tx'.byte
    BY <1>4, FlyNext
  <2> QED BY <2>1
<1>7. Deaf => Deaf'
  BY DEF Deaf, Rearmed
<1>8. PICK e \in Int :
        /\ e > 0 /\ e <= Ticks(DataBits + 2)
        /\ timer'.ocrA = After(timer'.count, e)
        /\ tx.state < TailState => d - Ticks(tx.state - 1) = e - Ticks(DataBits + 2)
  <2>1. CASE tx.state < TailState
    <3>1. tx.state \in 1 .. SentState
      BY <1>2, <2>1, StatesLemma
    <3>2. timer'.ocrA = After(timer.ocrA, Ticks(SentState + 1 - tx.state))
      BY <2>1
    <3> QED BY <1>2, <3>1, <3>2, FrameEndLemma
  <2>2. CASE ~(tx.state < TailState)
    <3>1. Lead \in Int /\ Lead >= 1 /\ Lead <= BitTicks /\ BitTicks \in Nat
      BY LatencyAssumption, RateAssumption
    <3>2. 1 <= DataBits + 2 /\ DataBits + 2 \in Int
      OBVIOUS
    <3>3. BitTicks <= Ticks(DataBits + 2) /\ Ticks(DataBits + 2) \in Int
      BY <3>2, TicksOrder, TicksType
    <3> QED BY <2>2, <3>1, <3>3 DEF Rearmed
  <2> QED BY <2>1, <2>2
<1>9. Due(e)'
  <2>1. -e <= timer'.late
    BY <1>8, LateLemma
  <2> QED BY <1>3, <1>8, <2>1, StatesLemma DEF Due, Rearmed
<1>10. CASE Done
  <2>1. Starting'
    BY <1>2, <1>5, <1>7, <1>10 DEF Done, Starting, Rearmed
  <2> QED BY <1>1, <1>9, <2>1 DEF Timing, Phase, Rearmed
<1>11. CASE Same(d, g, b) /\ Captured
  <2>1. Receiving(g, b)'
    BY <1>11, KeepReceiving DEF Same, Rearmed
  <2>2. flying # <<>>
    <3>1. Count(tx.head, tx.tail, TxSize) \in 0 .. TxSize - 1
      BY <1>4, FilledLemma, TxSizes DEF TxOK
    <3>2. Len(flying) >= 1
      BY <1>11, <3>1, TxSizes DEF Same, Fly, InRing
    <3> QED BY <3>2
  <2>3. g = e - Ticks(DataBits + 2) /\ g <= 0
    BY <1>8, <1>11, StatesLemma DEF Same
  <2>4. Resting(e, g, b)'
    BY <1>2, <1>3, <1>4, <1>6, <1>8, <1>11, <2>1, <2>2, <2>3
    DEF Resting, Same, Rearmed
  <2> QED BY <1>9, <2>4 DEF Timing, Phase, Rearmed
<1> QED BY <1>2, <1>10, <1>11

(* What the handler does to the transmitter, in each of its branches.      *)
EdgeSet ==
    \E i \in Changes :
        /\ \A j \in Changes : i <= j
        /\ tx'.state = i + 1 /\ tx'.bit = 1 - tx.bit /\ tx'.byte = tx.byte
        /\ tx'.head = tx.head /\ tx'.tail = tx.tail /\ tx'.buffer = tx.buffer
        /\ timer'.onA /\ timer'.ocrA = After(timer.ocrA, Ticks(i + 1 - tx.state))

NextSet ==
    /\ Changes = {} /\ Queued /\ timer'.onA
    /\ tx'.state = 1 /\ tx'.bit = 0
    /\ tx'.head = tx.head /\ tx'.tail = Succ(tx.tail, TxSize)
    /\ tx'.byte = tx.buffer[Succ(tx.tail, TxSize)]
    /\ \A i \in 1 .. Count(tx'.head, tx'.tail, TxSize) :
          tx'.buffer[(tx'.tail + i) % TxSize] = tx.buffer[(tx'.tail + i) % TxSize]
    /\ timer'.ocrA = IF tx.state < TailState
                     THEN After(timer.ocrA, Ticks(SentState + 1 - tx.state))
                     ELSE After(timer.count, Lead)

TailSet ==
    /\ Changes = {}
    /\ UNCHANGED <<tx.bit, tx.byte, tx.head, tx.tail, tx.buffer>>
    /\ \/ /\ tx.state < TailState /\ tx'.state = TailState /\ timer'.onA
          /\ timer'.ocrA = After(timer.ocrA, Ticks(SentState + 1 - tx.state))
       \/ tx.state = TailState /\ tx'.state = 0

LEMMA CompareABranches ==
    ASSUME TInv, Timing, CompareA
    PROVE  Rearmed /\ (EdgeSet \/ NextSet \/ TailSet)
<1> DEFINE t == [timer EXCEPT !.flagA = FALSE]
<1>1. Shapes /\ UNCHANGED <<line, rx, flying>>
  BY DEF TInv, IInv, CompareA
<1>2. /\ DOMAIN t = DOMAIN timer /\ t.flagA = FALSE /\ t.late = timer.late
      /\ t.count = timer.count /\ t.onB = timer.onB /\ t.ocrB = timer.ocrB
      /\ t.flagB = timer.flagB /\ t.flagC = timer.flagC /\ t.edge = timer.edge
      /\ t.onA = timer.onA /\ t.ocrA = timer.ocrA
  BY <1>1 DEF Shapes
<1>3. \/ Changes # {} /\ SendEdge(t)
      \/ Changes = {} /\ Queued /\ SendNext(t)
      \/ Changes = {} /\ ~Queued /\ SendTail(t)
  BY DEF CompareA
<1>4. timer.onA /\ tx.state \in 1 .. TailState
  <2>1. PICK d \in Int, g \in Int, b \in [1 .. DataBits -> {0, 1}] : Due(d) /\ Phase(d, g, b)
    BY DEF Timing
  <2> QED BY <2>1, ServingLemma
<1> HIDE DEF t
<1>5. CASE SendEdge(t)
  <2>1. PICK i \in Changes :
          /\ \A j \in Changes : i <= j
          /\ tx' = [tx EXCEPT !.state = i + 1, !.bit = 1 - @]
          /\ timer' = Served([t EXCEPT
                        !.ocrA = After(@, (i + 1 - tx.state) * BitTicks),
                        !.matchA = IF tx.bit = 0 THEN "set" ELSE "clear"])
    BY <1>5, Zenon DEF SendEdge
  <2> DEFINE at == After(t.ocrA, Ticks(i + 1 - tx.state))
             u == [t EXCEPT !.ocrA = at, !.matchA = IF tx.bit = 0 THEN "set" ELSE "clear"]
  <2>2. timer' = Served(u)
    BY <2>1 DEF Ticks
  <2>3. at = After(timer.ocrA, Ticks(i + 1 - tx.state))
    BY <1>2
  <2> HIDE DEF at
  <2>4. /\ DOMAIN u = DOMAIN timer /\ u.flagA = FALSE /\ u.late = timer.late
        /\ u.count = timer.count /\ u.onB = timer.onB /\ u.ocrB = timer.ocrB
        /\ u.flagB = timer.flagB /\ u.flagC = timer.flagC /\ u.edge = timer.edge
        /\ u.onA = timer.onA /\ u.ocrA = at
    BY <1>1, <1>2 DEF Shapes
  <2> HIDE DEF u
  <2>5. Rearmed /\ timer'.onA = u.onA /\ timer'.ocrA = u.ocrA
    BY <1>1, <2>2, <2>4, RearmedLemma
  <2>6. /\ tx'.state = i + 1 /\ tx'.bit = 1 - tx.bit /\ tx'.byte = tx.byte
        /\ tx'.head = tx.head /\ tx'.tail = tx.tail /\ tx'.buffer = tx.buffer
    BY <1>1, <2>1 DEF Shapes
  <2>7. timer'.onA /\ timer'.ocrA = After(timer.ocrA, Ticks(i + 1 - tx.state))
    BY <1>4, <2>3, <2>4, <2>5
  <2> QED BY <2>1, <2>5, <2>6, <2>7 DEF EdgeSet
<1>6. CASE Changes = {} /\ Queued /\ SendNext(t)
  <2> DEFINE at == IF tx.state < TailState
                   THEN After(t.ocrA, Ticks(SentState + 1 - tx.state))
                   ELSE After(t.count, Lead)
             u == [t EXCEPT !.matchA = "clear", !.ocrA = at]
             tail == Succ(tx.tail, TxSize)
             v == [tx EXCEPT !.tail = tail, !.byte = tx.buffer[tail], !.bit = 0, !.state = 1]
  <2>1. timer' = Served(u) /\ tx' = Tidy(v, TxSize)
    BY <1>6 DEF SendNext, Ticks
  <2>2. at = IF tx.state < TailState
             THEN After(timer.ocrA, Ticks(SentState + 1 - tx.state))
             ELSE After(timer.count, Lead)
    BY <1>2
  <2> HIDE DEF at
  <2>3. /\ DOMAIN u = DOMAIN timer /\ u.flagA = FALSE /\ u.late = timer.late
        /\ u.count = timer.count /\ u.onB = timer.onB /\ u.ocrB = timer.ocrB
        /\ u.flagB = timer.flagB /\ u.flagC = timer.flagC /\ u.edge = timer.edge
        /\ u.onA = timer.onA /\ u.ocrA = at
    BY <1>1, <1>2 DEF Shapes
  <2> HIDE DEF u
  <2>4. Rearmed /\ timer'.onA = u.onA /\ timer'.ocrA = u.ocrA
    BY <1>1, <2>1, <2>3, RearmedLemma
  <2>5. /\ tail \in 0 .. TxSize - 1 /\ tx.head \in 0 .. TxSize - 1
    BY TxSizes, SuccLemma DEF TInv, TxOK
  <2>6. /\ DOMAIN v = {"state", "byte", "bit", "head", "tail", "buffer"}
        /\ v.tail = tail /\ v.head = tx.head /\ v.state = 1 /\ v.bit = 0
        /\ v.byte = tx.buffer[tail] /\ v.buffer = tx.buffer
    BY <1>1 DEF Shapes
  <2> HIDE DEF v
  <2>7. /\ \A f \in DOMAIN v \ {"buffer"} : tx'[f] = v[f]
        /\ \A i \in 1 .. Count(v.head, v.tail, TxSize) :
              tx'.buffer[(v.tail + i) % TxSize] = v.buffer[(v.tail + i) % TxSize]
    <3>1. "buffer" \in DOMAIN v /\ v.tail \in 0 .. TxSize - 1 /\ v.head \in 0 .. TxSize - 1
      BY <2>5, <2>6
    <3> QED BY <2>1, <3>1, TidyLemma, TxSizes
  <2>8. /\ tx'.state = 1 /\ tx'.bit = 0 /\ tx'.head = tx.head /\ tx'.tail = tail
        /\ tx'.byte = tx.buffer[tail]
    BY <2>6, <2>7
  <2>9. \A i \in 1 .. Count(tx'.head, tx'.tail, TxSize) :
          tx'.buffer[(tx'.tail + i) % TxSize] = tx.buffer[(tx'.tail + i) % TxSize]
    BY <2>6, <2>7, <2>8
  <2>10. timer'.onA /\ timer'.ocrA = at
    BY <1>4, <2>3, <2>4
  <2> QED BY <1>6, <2>2, <2>4, <2>8, <2>9, <2>10 DEF NextSet
<1>7. CASE Changes = {} /\ ~Queued /\ SendTail(t)
  <2>1. CASE tx.state < TailState
    <3> DEFINE at == After(t.ocrA, Ticks(SentState + 1 - tx.state))
               u == [t EXCEPT !.ocrA = at]
    <3>1. timer' = Served(u) /\ tx' = [tx EXCEPT !.state = TailState]
      BY <1>7, <2>1 DEF SendTail, Ticks
    <3>2. at = After(timer.ocrA, Ticks(SentState + 1 - tx.state))
      BY <1>2
    <3> HIDE DEF at
    <3>3. /\ DOMAIN u = DOMAIN timer /\ u.flagA = FALSE /\ u.late = timer.late
          /\ u.count = timer.count /\ u.onB = timer.onB /\ u.ocrB = timer.ocrB
          /\ u.flagB = timer.flagB /\ u.flagC = timer.flagC /\ u.edge = timer.edge
          /\ u.onA = timer.onA /\ u.ocrA = at
      BY <1>1, <1>2 DEF Shapes
    <3> HIDE DEF u
    <3>4. Rearmed /\ timer'.onA = u.onA /\ timer'.ocrA = u.ocrA
      BY <1>1, <3>1, <3>3, RearmedLemma
    <3>5. UNCHANGED <<tx.bit, tx.byte, tx.head, tx.tail, tx.buffer>> /\ tx'.state = TailState
      BY <1>1, <3>1 DEF Shapes
    <3>6. timer'.onA /\ timer'.ocrA = After(timer.ocrA, Ticks(SentState + 1 - tx.state))
      BY <1>4, <3>2, <3>3, <3>4
    <3> QED BY <1>7, <2>1, <3>4, <3>5, <3>6 DEF TailSet
  <2>2. CASE ~(tx.state < TailState)
    <3> DEFINE u == [t EXCEPT !.matchA = "normal", !.onA = FALSE, !.ocrA = 0]
    <3>1. timer' = Served(u) /\ tx' = [tx EXCEPT !.state = 0]
      BY <1>7, <2>2 DEF SendTail
    <3>2. /\ DOMAIN u = DOMAIN timer /\ u.flagA = FALSE /\ u.late = timer.late
          /\ u.count = timer.count /\ u.onB = timer.onB /\ u.ocrB = timer.ocrB
          /\ u.flagB = timer.flagB /\ u.flagC = timer.flagC /\ u.edge = timer.edge
      BY <1>1, <1>2 DEF Shapes
    <3> HIDE DEF u
    <3>3. Rearmed
      BY <1>1, <3>1, <3>2, RearmedLemma
    <3>4. UNCHANGED <<tx.bit, tx.byte, tx.head, tx.tail, tx.buffer>> /\ tx'.state = 0
      BY <1>1, <3>1 DEF Shapes
    <3>5. tx.state = TailState
      BY <1>4, <2>2, StatesLemma
    <3> QED BY <1>7, <3>3, <3>4, <3>5 DEF TailSet
  <2> QED BY <2>1, <2>2
<1> QED BY <1>3, <1>5, <1>6, <1>7

LEMMA CompareATiming == ASSUME TInv, Timing, CompareA PROVE Timing'
<1>1. Rearmed /\ (EdgeSet \/ NextSet \/ TailSet)
  BY CompareABranches
<1>2. CASE EdgeSet
  BY <1>1, <1>2, EdgeTiming DEF EdgeSet, Rearmed
<1>3. CASE NextSet
  BY <1>1, <1>3, NextTiming DEF NextSet
<1>4. CASE TailSet
  BY <1>1, <1>4, TailTiming DEF TailSet
<1> QED BY <1>1, <1>2, <1>3, <1>4

-----------------------------------------------------------------------------
(* Reception.                                                              *)

LEMMA DivLemma ==
    ASSUME NEW w \in Nat \ {0}, NEW x \in Int
    PROVE  \E p \in Int, s \in 0 .. w - 1 : x = w * p + s /\ s = x % w
<1> DEFINE p == x \div w
           s == x % w
<1>1. x = w * p + s /\ p \in Int /\ s \in 0 .. w - 1
  OBVIOUS
<1>2. s = x % w
  OBVIOUS
<1> HIDE DEF p, s
<1> QED BY <1>1, <1>2

LEMMA ModShift ==
    ASSUME NEW w \in Nat \ {0}, NEW x \in Int, NEW q \in Int
    PROVE  (x + w * q) % w = x % w
<1>1. PICK p \in Int, s \in 0 .. w - 1 : x = w * p + s /\ s = x % w
  BY DivLemma
<1> DEFINE y == x + w * q
           k == p + q
<1>2. y \in Int /\ k \in Int /\ w * k = w * p + w * q
  OBVIOUS
<1>3. y = w * k + s
  BY <1>1, <1>2
<1> HIDE DEF y, k
<1>4. y % w = s
  BY <1>2, <1>3, ModUnique
<1> QED BY <1>1, <1>4 DEF y

LEMMA ModDiff ==
    ASSUME NEW w \in Nat \ {0}, NEW v \in Int, NEW u \in Int, NEW j \in Int
    PROVE  ((v % w) - (u % w) - j) % w = (v - u - j) % w
<1>1. PICK p \in Int, s \in 0 .. w - 1 : u = w * p + s /\ s = u % w
  BY DivLemma
<1>2. PICK o \in Int, r \in 0 .. w - 1 : v = w * o + r /\ r = v % w
  BY DivLemma
<1> DEFINE a == -s - j
           y == v + a
           x == v - u - j
<1>3. a \in Int /\ y \in Int /\ x \in Int /\ r - s - j = r + a
  OBVIOUS
<1>4. y = x + w * p
  <2> DEFINE e == w * p
  <2>1. e \in Int /\ u = e + s
    BY <1>1
  <2> HIDE DEF e
  <2>2. y = x + e
    BY <2>1
  <2> QED BY <2>2 DEF e
<1>5. ((v % w) + a) % w = y % w
  <2> HIDE DEF a
  <2> QED BY <1>3, ModAdd
<1>6. y % w = x % w
  <2> HIDE DEF x, y
  <2> QED BY <1>3, <1>4, ModShift
<1> HIDE DEF a, x, y
<1>7. (r + a) % w = x % w
  BY <1>2, <1>5, <1>6
<1>8. (r - s - j) % w = x % w
  BY <1>3, <1>7
<1> QED BY <1>1, <1>2, <1>8 DEF x

LEMMA WrapDiff ==
    \A v, u, j \in Int : ((v % Wrap) - (u % Wrap) - j) % Wrap = (v - u - j) % Wrap
<1> SUFFICES ASSUME NEW v \in Int, NEW u \in Int, NEW j \in Int
             PROVE  ((v % Wrap) - (u % Wrap) - j) % Wrap = (v - u - j) % Wrap
  OBVIOUS
<1>1. Wrap \in Nat \ {0}
  BY WrapLemma
<1> QED BY <1>1, ModDiff

(* From the middle of bit r + n to the end of bit r + m - 1.               *)
Gap(x, r, m, n) ==
    /\ x = Ticks(r + m) - (Ticks(r) + HalfBit) - Ticks(n)
    /\ n = m => x = -HalfBit
    /\ n # m => 0 <= x /\ x < Wrap - 1 - BitTicks

LEMMA GapLemma ==
    ASSUME NEW r \in Int, NEW m \in 0 .. DataBits, NEW n \in 0 .. m
    PROVE  \E x \in Int : Gap(x, r, m, n)
<1>1. PICK k \in Int : k = m - n /\ 0 <= k /\ k <= DataBits
  OBVIOUS
<1>2. r \in Int /\ m \in Int /\ n \in Int /\ r + m = r + (n + k) /\ n + k \in Int
  BY <1>1
<1>3. Ticks(r + m) = Ticks(r) + (Ticks(n) + Ticks(k))
  BY <1>1, <1>2, TicksSum
<1>4. PICK y \in Int, p \in Int, j \in Int, q \in Int :
        y = Ticks(r + m) /\ p = Ticks(r) /\ j = Ticks(n) /\ q = Ticks(k)
  BY <1>2, TicksType
<1>5. PICK h \in Int : h = HalfBit
  BY StopLemma
<1>6. PICK x \in Int : x = q - h
  OBVIOUS
<1>7. y = p + (j + q)
  BY <1>3, <1>4
<1>8. x = y - (p + h) - j
  BY <1>6, <1>7
<1>9. n = m => x = -h
  <2>1. n = m => k = 0
    BY <1>1
  <2>2. k = 0 => q = 0
    BY <1>4, TicksLemma
  <2> QED BY <1>6, <2>1, <2>2
<1>10. n # m => 0 <= x /\ x < Wrap - 1 - BitTicks
  <2> SUFFICES ASSUME n # m PROVE 0 <= x /\ x < Wrap - 1 - BitTicks
    OBVIOUS
  <2>1. 1 <= k
    BY <1>1
  <2>2. PICK f \in Int, w \in Int : f = Ticks(DataBits) /\ w = Ticks(DataBits + 1)
    BY TicksType
  <2>3. BitTicks <= q /\ q <= f
    <3>1. 1 \in Int /\ k \in Int /\ DataBits \in Int
      OBVIOUS
    <3>2. Ticks(1) <= Ticks(k) /\ Ticks(k) <= Ticks(DataBits) /\ Ticks(1) = BitTicks
      BY <1>1, <2>1, <3>1, TicksOrder
    <3> QED BY <1>4, <2>2, <3>2
  <2>4. w = f + BitTicks /\ w + BitTicks < Wrap
    <3>1. Ticks(DataBits + 1) = Ticks(DataBits) + Ticks(1) /\ Ticks(1) = BitTicks
      BY TicksSum, TicksOrder
    <3>2. Ticks(DataBits + 2) = Ticks(DataBits + 1) + BitTicks
      BY StopLemma
    <3> QED BY <2>2, <3>1, <3>2, FrameLemma
  <2>5. h \in 1 .. BitTicks - 1 /\ BitTicks \in Nat \ {0, 1} /\ Wrap \in Int
    BY <1>5, StopLemma, FrameLemma
  <2> QED BY <1>6, <2>3, <2>4, <2>5
<1>11. Gap(x, r, m, n)
  BY <1>4, <1>5, <1>8, <1>9, <1>10 DEF Gap
<1> QED BY <1>11

LEMMA GapMod ==
    ASSUME NEW x \in Int
    PROVE  /\ x = -HalfBit => x % Wrap > Wrap - 1 - BitTicks
           /\ 0 <= x /\ x < Wrap - 1 - BitTicks => ~(x % Wrap > Wrap - 1 - BitTicks)
<1>1. Wrap \in Nat \ {0} /\ BitTicks \in Nat \ {0, 1} /\ HalfBit \in 1 .. BitTicks - 1
  BY WrapLemma, StopLemma
<1>2. BitTicks < Wrap
  <2>1. 1 \in Int /\ DataBits + 2 \in Int /\ 1 <= DataBits + 2
    OBVIOUS
  <2>2. Ticks(1) <= Ticks(DataBits + 2) /\ Ticks(1) = BitTicks
    BY <2>1, TicksOrder
  <2> QED BY <1>1, <2>2, FrameLemma
<1>3. CASE x = -HalfBit
  <2>1. PICK s \in 0 .. Wrap - 1 : s = Wrap - HalfBit
    BY <1>1, <1>2
  <2>2. x = Wrap * (-1) + s /\ -1 \in Int
    BY <1>1, <1>3, <2>1
  <2>3. x % Wrap = s
    BY <1>1, <2>2, ModUnique
  <2> QED BY <1>1, <1>3, <2>1, <2>3
<1>4. CASE 0 <= x /\ x < Wrap - 1 - BitTicks
  <2>1. x = Wrap * 0 + x /\ 0 \in Int /\ x \in 0 .. Wrap - 1
    BY <1>1, <1>4
  <2>2. x % Wrap = x
    BY <1>1, <2>1, ModUnique
  <2> QED BY <1>1, <1>4, <2>2
<1> QED BY <1>3, <1>4

(* Of the bits between two edges, m bits apart, the middles have passed.   *)
Between(r, m, c, g, y, z) ==
    /\ rx.state = r /\ z = Ticks(r) + HalfBit /\ y = Ticks(r + m)
    /\ timer.icr = After(c, g + y) /\ rx.target = After(c, g + z)

LEMMA PassedBits ==
    ASSUME NEW r \in 1 .. DataBits, NEW m \in 0 .. StopState - r, NEW c \in Int, NEW g \in Int,
           NEW y \in Int, NEW z \in Int, Between(r, m, c, g, y, z)
    PROVE  Passed = m
<1> USE DEF Between
<1>1. Wrap \in Nat \ {0}
  BY WrapLemma
<1>2. PICK left \in Nat : left = StopState - r /\ m \in 0 .. left /\ m \in 0 .. DataBits
  BY StatesLemma
<1>3. ASSUME NEW n \in 0 .. m PROVE Ahead(n) <=> n = m
  <2>1. PICK x \in Int : Gap(x, r, m, n)
    <3>1. r \in Int
      OBVIOUS
    <3> QED BY <1>2, <3>1, GapLemma
  <2>2. PICK j \in Int : j = n * BitTicks /\ j = Ticks(n)
    <3>1. n \in Int /\ Ticks(n) = n * BitTicks
      BY <1>2 DEF Ticks
    <3> QED BY <3>1, TicksType
  <2>3. PICK v \in Int, w \in Int : v = c + (g + y) /\ w = c + (g + z)
    OBVIOUS
  <2>4. timer.icr = v % Wrap /\ rx.target = w % Wrap
    BY <2>3 DEF After
  <2>5. v - w - j = x
    <3>1. v - w = y - z
      BY <2>3
    <3>2. x = y - z - j
      BY <2>1, <2>2 DEF Gap
    <3> QED BY <3>1, <3>2
  <2>6. ((v % Wrap) - (w % Wrap) - j) % Wrap = (v - w - j) % Wrap
    BY WrapDiff
  <2>7. Ahead(n) <=> x % Wrap > Wrap - 1 - BitTicks
    BY <2>2, <2>4, <2>5, <2>6 DEF Ahead
  <2> QED BY <2>1, <2>7, GapMod DEF Gap
<1> DEFINE S == {n \in 0 .. left : Ahead(n)}
<1>4. m \in S /\ S \in SUBSET Nat /\ S # {}
  <2>1. m \in 0 .. m
    BY <1>2
  <2>2. Ahead(m)
    BY <1>3, <2>1
  <2> QED BY <1>2, <2>2
<1>5. Passed = Min(S)
  BY <1>2, <1>4 DEF Passed
<1>6. \A n \in S : m <= n
  <2> SUFFICES ASSUME NEW n \in S PROVE m <= n
    OBVIOUS
  <2>1. CASE n \in 0 .. m
    BY <1>3, <2>1
  <2>2. CASE n \notin 0 .. m
    <3>1. n \in 0 .. left
      OBVIOUS
    <3> QED BY <1>2, <2>2, <3>1
  <2> QED BY <2>1, <2>2
<1>7. Min(S) \in S /\ \A x \in S : Min(S) <= x
  <2> HIDE DEF S
  <2> QED BY <1>4, MinLemma
<1> HIDE DEF S
<1>8. PICK k \in Int : k = Min(S) /\ k <= m /\ m <= k
  <2>1. Min(S) \in Nat
    BY <1>4, <1>7
  <2>2. Min(S) <= m /\ m <= Min(S)
    BY <1>4, <1>6, <1>7
  <2> QED BY <2>1, <2>2
<1> QED BY <1>2, <1>5, <1>8

LEMMA DueFrame ==
    ASSUME UNCHANGED <<line, tx>>, timer'.count = timer.count, timer'.onA = timer.onA,
           timer'.ocrA = timer.ocrA, timer'.flagA = timer.flagA,
           NEW d \in Int, Due(d), tx.state # 0 => -d <= timer'.late
    PROVE  Due(d)'
BY DEF Due

(* The oldest byte under way leaves it.                                    *)
Written == flying \in Seq(Bytes)

Leaves == flying' = Tail(flying)

LEMMA FlyTail ==
    ASSUME TInv, UNCHANGED tx, Written, NEW k \in Nat, NEW m \in Nat, m = k + 1,
           Fly(m), Leaves
    PROVE  /\ Fly(k)' /\ flying' \in Seq(Bytes) /\ flying # <<>>
           /\ k >= 1 => flying'[k] = flying[m]
<1>1. PICK c \in Nat : c = InRing /\ c = InRing'
  <2>1. Count(tx.head, tx.tail, TxSize) \in 0 .. TxSize - 1
    BY TxFilled DEF TInv, TxOK
  <2>2. Count(tx.head, tx.tail, TxSize) \in Nat
    BY <2>1, TxSizes
  <2> QED BY <2>2 DEF InRing
<1>2. Len(flying) = m + c /\ flying # <<>>
  BY <1>1 DEF Fly
<1>3. /\ flying' \in Seq(Bytes) /\ Len(flying') = Len(flying) - 1
      /\ \A j \in 1 .. Len(flying) - 1 : flying'[j] = flying[j + 1]
  BY <1>2 DEF Written, Leaves
<1> DEFINE n == Len(flying)
<1>4. n = m + c /\ Len(flying') = n - 1 /\ \A j \in 1 .. n - 1 : flying'[j] = flying[j + 1]
  BY <1>2, <1>3
<1> HIDE DEF n
<1>5. Len(flying') = k + c
  <2> DEFINE o == Len(flying')
  <2>1. o = n - 1 /\ n = m + c
    BY <1>4
  <2> HIDE DEF o
  <2>2. o = k + c
    BY <2>1
  <2> QED BY <2>2 DEF o
<1>6. ASSUME NEW i \in 1 .. c PROVE flying'[k + i] = tx'.buffer[(tx'.tail + i) % TxSize]
  <2>1. k + i \in 1 .. n - 1 /\ (k + i) + 1 = m + i
    BY <1>4
  <2>2. flying'[k + i] = flying[m + i]
    BY <1>4, <2>1
  <2>3. flying[m + i] = tx.buffer[(tx.tail + i) % TxSize]
    BY <1>1 DEF Fly
  <2> QED BY <2>2, <2>3
<1>7. k >= 1 => flying'[k] = flying[m]
  <2>1. k >= 1 => k \in 1 .. n - 1
    BY <1>4
  <2> QED BY <1>4, <2>1
<1>8. Fly(k)'
  BY <1>1, <1>5, <1>6 DEF Fly
<1> QED BY <1>2, <1>3, <1>7, <1>8

LEMMA CompleteFields ==
    ASSUME RxOK, NEW b, Complete(b)
    PROVE  rx'.state = 0 /\ rx'.bit = 0
<1>1. DOMAIN Push(rx, b) = DOMAIN rx
  BY DEF Push
<1>2. rx' = [Push(rx, b) EXCEPT !.state = 0, !.bit = 0, !.byte = Zero, !.target = 0]
  BY DEF Complete
<1> QED BY <1>1, <1>2 DEF RxOK

(* What the receiver assembled so far, and m bits of one level.            *)
LEMMA ShiftBits ==
    ASSUME NEW b \in [1 .. DataBits -> {0, 1}], NEW r \in 1 .. DataBits, NEW m \in 0 .. StopState - r,
           NEW v, NEW a,
           \A j \in 1 .. r - 1 : a[DataBits + 1 - r + j] = b[j],
           \A j \in r .. r + m - 1 : j <= DataBits => b[j] = v
    PROVE  /\ \A j \in 1 .. r + m - 1 :
                 Shift(a, m, v)[DataBits + 1 - (r + m) + j] = b[j]
           /\ m = StopState - r => Shift(a, m, v) = b
<1>1. StopState = DataBits + 1 /\ DataBits \in Nat
  BY StatesLemma
<1>2. ASSUME NEW j \in 1 .. r + m - 1
      PROVE  Shift(a, m, v)[DataBits + 1 - (r + m) + j] = b[j]
  <2>1. PICK i \in Int : i = DataBits + 1 - (r + m) + j
    BY <1>1
  <2>2. i \in 1 .. DataBits /\ j \in 1 .. DataBits
    BY <1>1, <2>1
  <2>3. Shift(a, m, v)[i] = IF i + m <= DataBits THEN a[i + m] ELSE v
    BY <2>2 DEF Shift
  <2>4. CASE i + m <= DataBits
    <3>1. j \in 1 .. r - 1 /\ i + m = DataBits + 1 - r + j
      BY <1>1, <2>1, <2>2, <2>4
    <3> QED BY <2>1, <2>3, <2>4, <3>1
  <2>5. CASE ~(i + m <= DataBits)
    <3>1. j \in r .. r + m - 1 /\ j <= DataBits
      BY <1>1, <2>1, <2>2, <2>5
    <3> QED BY <2>1, <2>3, <2>5, <3>1
  <2> QED BY <2>4, <2>5
<1>3. ASSUME m = StopState - r PROVE Shift(a, m, v) = b
  <2>1. ASSUME NEW j \in 1 .. DataBits PROVE Shift(a, m, v)[j] = b[j]
    <3>1. j \in 1 .. r + m - 1 /\ DataBits + 1 - (r + m) + j = j
      BY <1>1, <1>3
    <3>2. Shift(a, m, v)[DataBits + 1 - (r + m) + j] = b[j]
      BY <1>2, <3>1
    <3> QED BY <3>1, <3>2
  <2>2. Shift(a, m, v) = [i \in 1 .. DataBits |-> Shift(a, m, v)[i]]
    BY DEF Shift
  <2>3. b = [i \in 1 .. DataBits |-> b[i]]
    OBVIOUS
  <2> QED BY <2>1, <2>2, <2>3
<1> QED BY <1>2, <1>3

(* An interrupt of the receiver either leaves its ring as it is or stores  *)
(* the oldest byte that is under way.                                      *)
Received ==
    \/ /\ flying' = flying
       /\ rx'.head = rx.head /\ rx'.tail = rx.tail /\ rx'.buffer = rx.buffer
    \/ flying # <<>> /\ Complete(flying[1])

LEMMA CaptureTiming == ASSUME TInv, Timing, Capture PROVE Timing' /\ Received
<1> DEFINE t == [timer EXCEPT !.flagC = FALSE, !.icr = 0,
                              !.edge = IF rx.bit = 1 THEN "falling" ELSE "rising"]
           stop == After(timer.icr, RxStopTicks)
           t1 == [t EXCEPT !.ocrB = stop, !.onB = TRUE, !.flagB = FALSE]
           t2 == [t EXCEPT !.onB = FALSE, !.flagB = FALSE, !.ocrB = 0, !.edge = "falling"]
           state == rx.state + Passed
           a == Shift(rx.byte, Passed, 1 - rx.bit)
<1>1. Shapes /\ RxOK /\ timer.count \in Int /\ UNCHANGED <<line, tx>> /\ timer.flagC
  BY CountLemma DEF TInv, IInv, TimerOK, Capture, WantC
<1>2. PICK d \in Int, g \in Int, b \in [1 .. DataBits -> {0, 1}] : Due(d) /\ Phase(d, g, b)
  BY DEF Timing
<1>3. Starting \/ (Same(d, g, b) /\ Behind)
  BY <1>1, <1>2 DEF Phase, Done, Captured, Resting
<1>4. /\ tx.state \in 1 .. SentState /\ timer.flagA /\ timer.icr = timer.ocrA
  BY <1>1, <1>3, StatesLemma DEF Starting, Same, Behind
<1>5. /\ timer.onA /\ d <= 0 /\ -d <= timer.late /\ timer.icr = After(timer.count, d)
  BY <1>2, <1>4 DEF Due
<1>6. /\ DOMAIN t = DOMAIN timer /\ t.flagC = FALSE
      /\ t.edge = IF rx.bit = 1 THEN "falling" ELSE "rising"
      /\ t.late = timer.late /\ t.count = timer.count /\ t.onA = timer.onA
      /\ t.ocrA = timer.ocrA /\ t.flagA = timer.flagA
      /\ t.onB = timer.onB /\ t.ocrB = timer.ocrB /\ t.flagB = timer.flagB
  BY <1>1 DEF Shapes
<1> HIDE DEF t
<1>7. /\ DOMAIN t1 = DOMAIN timer /\ t1.flagC = FALSE /\ t1.edge = t.edge
      /\ t1.late = timer.late /\ t1.count = timer.count /\ t1.onA = timer.onA
      /\ t1.ocrA = timer.ocrA /\ t1.flagA = timer.flagA
      /\ t1.onB /\ t1.ocrB = stop /\ t1.flagB = FALSE
  BY <1>1, <1>6 DEF Shapes
<1>8. /\ DOMAIN t2 = DOMAIN timer /\ t2.flagC = FALSE /\ t2.edge = "falling"
      /\ t2.late = timer.late /\ t2.count = timer.count /\ t2.onA = timer.onA
      /\ t2.ocrA = timer.ocrA /\ t2.flagA = timer.flagA
      /\ t2.onB = FALSE
  BY <1>1, <1>6 DEF Shapes
<1>9. \/ /\ rx.state = 0 /\ rx.bit = 0 /\ timer' = Served(t1) /\ flying' = flying
         /\ rx' = [rx EXCEPT !.bit = 1 - rx.bit, !.state = 1,
                             !.target = After(timer.icr, BitTicks + BitTicks \div 2)]
      \/ rx.state = 0 /\ rx.bit = 1
      \/ /\ rx.state # 0 /\ state < StopState /\ timer' = Served(t) /\ flying' = flying
         /\ rx' = [rx EXCEPT !.bit = 1 - rx.bit, !.byte = a, !.state = state,
                             !.target = After(@, Passed * BitTicks)]
      \/ /\ rx.state # 0 /\ state >= StopState
         /\ Complete(a) /\ timer' = Served(t2)
  BY Zenon DEF Capture, t
<1> HIDE DEF t1, t2, stop
<1>10. ASSUME NEW u, DOMAIN u = DOMAIN timer, timer' = Served(u), u.flagC = FALSE,
              u.late = timer.late, u.count = timer.count, u.onA = timer.onA,
              u.ocrA = timer.ocrA, u.flagA = timer.flagA
       PROVE  /\ Due(d)' /\ ~timer'.flagC /\ timer'.flagA /\ timer'.edge = u.edge
              /\ timer'.count = timer.count /\ timer'.onB = u.onB
              /\ timer'.ocrB = u.ocrB /\ timer'.flagB = u.flagB /\ timer'.late = timer.late
  <2>1. /\ timer'.count = u.count /\ timer'.edge = u.edge
        /\ timer'.ocrA = u.ocrA /\ timer'.onA = u.onA /\ timer'.flagA = u.flagA
        /\ timer'.ocrB = u.ocrB /\ timer'.onB = u.onB /\ timer'.flagB = u.flagB
        /\ timer'.flagC = u.flagC
        /\ timer'.late = IF Pending(u) THEN u.late ELSE 0
    BY <1>1, <1>10, ServedFields
  <2>2. Pending(u)
    BY <1>4, <1>5, <1>10 DEF Pending, WantA
  <2>3. timer'.late = timer.late
    BY <1>10, <2>1, <2>2
  <2>4. Due(d)'
    BY <1>1, <1>2, <1>5, <1>10, <2>1, <2>3, DueFrame
  <2> QED BY <1>4, <1>10, <2>1, <2>3, <2>4
<1>11. CASE Starting
  <2>1. /\ rx.state = 0 /\ rx.bit = 0 /\ tx.state = 1 /\ ~(rx.bit = 1)
        /\ Fly(1) /\ flying[1] = tx.byte
    BY <1>11 DEF Starting, Deaf
  <2>2. /\ timer' = Served(t1) /\ flying' = flying
        /\ rx' = [rx EXCEPT !.bit = 1 - rx.bit, !.state = 1,
                            !.target = After(timer.icr, BitTicks + BitTicks \div 2)]
    BY <1>9, <2>1
  <2>3. /\ Due(d)' /\ ~timer'.flagC /\ timer'.flagA /\ timer'.edge = "rising"
        /\ timer'.count = timer.count /\ timer'.onB /\ timer'.ocrB = stop
        /\ timer'.flagB = FALSE /\ timer'.late = timer.late
    BY <1>6, <1>7, <1>10, <2>1, <2>2
  <2>4. /\ rx'.bit = 1 /\ rx'.state = 1 /\ rx'.target = After(timer.icr, BitTicks + HalfBit)
        /\ rx'.head = rx.head /\ rx'.tail = rx.tail /\ rx'.buffer = rx.buffer
    BY <1>1, <2>1, <2>2 DEF RxOK, HalfBit
  <2>5. PICK s \in Int, h \in Int, c \in Int :
          s = RxStopTicks /\ h = HalfBit /\ c = timer.count /\ BitTicks \in Int
          /\ Ticks(1) = BitTicks /\ Ticks(0) = 0 /\ timer.icr = After(c, d)
          /\ timer.late <= Latency /\ timer.late \in Int
          /\ Latency < BitTicks /\ Latency \in Int /\ BitTicks <= s
    <3>1. RxStopTicks \in Int /\ HalfBit \in Int /\ BitTicks \in Int /\ Latency < BitTicks
      BY StopLemma
    <3>2. Ticks(1) = BitTicks /\ Ticks(0) = 0
      BY TicksLemma
    <3>3. timer.late <= Latency /\ timer.late \in Int /\ Latency \in Int
      BY FrameLemma DEF TInv, TimerOK
    <3>4. BitTicks <= RxStopTicks
      <4>1. 1 \in Int /\ DataBits + 1 \in Int /\ 1 <= DataBits + 1
        OBVIOUS
      <4>2. Ticks(1) <= Ticks(DataBits + 1) /\ Ticks(DataBits + 1) \in Int
        BY <4>1, TicksOrder, TicksType
      <4> QED BY <3>1, <3>2, <4>2, StopLemma
    <3> QED BY <1>1, <1>5, <3>1, <3>2, <3>3, <3>4
  <2>6. /\ After(After(c, d), s) = After(c, d + s)
        /\ After(After(c, d), BitTicks + h) = After(c, d + (BitTicks + h))
    <3>1. After(After(c, d), s) = After(c, d + s)
      BY MovedSum
    <3>2. PICK x \in Int : x = BitTicks + h
      BY <2>5
    <3>3. After(After(c, d), x) = After(c, d + x)
      BY MovedSum
    <3> QED BY <3>1, <3>2, <3>3
  <2>7. d + s > 0
    BY <1>5, <2>5
  <2>8. d + Ticks(1) + h = d + (BitTicks + h)
    BY <2>5
  <2>9. -(d + s) <= timer'.late
    <3>1. timer.late >= 0
      BY DEF TInv, TimerOK
    <3> QED BY <2>3, <2>5, <2>7, <3>1
  <2>10. tx.byte \in [1 .. DataBits -> {0, 1}]
    <3>1. Len(flying) >= 1
      <4>1. Count(tx.head, tx.tail, TxSize) \in 0 .. TxSize - 1
        BY TxFilled DEF TInv, TxOK
      <4> QED BY <2>1, <4>1, TxSizes DEF Fly, InRing
    <3>2. flying[1] \in Bytes
      BY <3>1 DEF Timing
    <3> QED BY <2>1, <3>2, BitsAssumption
  <2>11. PICK f \in [1 .. DataBits -> {0, 1}] : f = tx.byte
    BY <2>10
  <2>12. Receiving(d, f)'
    <3>1. timer'.ocrB = After(timer'.count, d + RxStopTicks)
      BY <2>3, <2>5, <2>6 DEF stop
    <3>2. rx'.target = After(timer'.count, d + Ticks(rx'.state) + HalfBit)
      BY <2>3, <2>4, <2>5, <2>6, <2>8
    <3>3. rx'.state \in 1 .. DataBits
      BY <2>4
    <3>4. timer'.flagB <=> d + RxStopTicks <= 0
      BY <2>3, <2>5, <2>7
    <3>5. -(d + RxStopTicks) <= timer'.late
      BY <2>5, <2>9
    <3>6. \A j \in 1 .. rx'.state - 1 : rx'.byte[DataBits + 1 - rx'.state + j] = f[j]
      BY <2>4
    <3> QED BY <2>3, <3>1, <3>2, <3>3, <3>4, <3>5, <3>6 DEF Receiving
  <2>13. d = d - Ticks(tx'.state - 1)
    BY <1>1, <2>1, <2>5
  <2>14. Fly(1)'
    BY <1>1, <2>1, <2>2, FlyFrame
  <2>15. Same(d, d, f)'
    BY <1>1, <1>4, <1>5, <2>1, <2>2, <2>11, <2>12, <2>13, <2>14 DEF Same
  <2>16. Captured'
    BY <1>1, <1>2, <1>4, <2>1, <2>3, <2>4 DEF Captured, Due
  <2>17. timer'.edge = IF rx'.bit = 0 THEN "falling" ELSE "rising"
    BY <2>3, <2>4
  <2> QED BY <2>2, <2>3, <2>4, <2>15, <2>16, <2>17 DEF Timing, Phase, Received
<1>12. CASE Same(d, g, b) /\ Behind
  <2>1. PICK r \in 1 .. DataBits, s \in 2 .. SentState, m \in Int :
          r = rx.state /\ s = tx.state /\ m = s - 1 - r /\ m \in 0 .. StopState - r
    BY <1>12, StatesLemma DEF Same, Behind, Receiving
  <2>2. PICK y \in Int, z \in Int, h \in Int, q \in Int :
          y = Ticks(r + m) /\ h = HalfBit /\ q = Ticks(r) /\ z = q + h
    <3>1. PICK h \in Int, q \in Int : h = HalfBit /\ q = Ticks(r)
      <4>1. r \in Int
        OBVIOUS
      <4> QED BY <4>1, TicksType, StopLemma
    <3>2. Ticks(r + m) \in Int
      <4>1. r + m \in Int
        OBVIOUS
      <4> QED BY <4>1, TicksType
    <3> QED BY <3>1, <3>2
  <2>3. r + m = s - 1 /\ g = d - y
    <3>1. r + m = s - 1
      <4>1. s \in Int /\ r \in Int
        BY StatesLemma
      <4> QED BY <2>1, <4>1
    <3> QED BY <1>12, <2>1, <2>2, <3>1 DEF Same
  <2>4. PICK c \in Int : c = timer.count
    BY <1>1
  <2>5. timer.icr = After(c, g + y) /\ rx.target = After(c, g + z)
    <3>1. g + y = d
      BY <2>3
    <3>2. g + z = g + q + h
      BY <2>2
    <3>3. rx.target = After(timer.count, g + Ticks(rx.state) + HalfBit)
      BY <1>12 DEF Same, Receiving
    <3> QED BY <1>5, <2>1, <2>2, <2>4, <3>1, <3>2, <3>3
  <2>6. Passed = m
    <3>1. Between(r, m, c, g, y, z) /\ m \in 0 .. StopState - r
      BY <2>1, <2>2, <2>5 DEF Between
    <3> QED BY <3>1, PassedBits
  <2>7. /\ \A j \in 1 .. r - 1 : rx.byte[DataBits + 1 - r + j] = b[j]
        /\ \A j \in r .. r + m - 1 : j <= DataBits => b[j] = 1 - rx.bit
    <3>1. \A j \in 1 .. r - 1 : rx.byte[DataBits + 1 - r + j] = b[j]
      BY <1>12, <2>1 DEF Same, Receiving
    <3>2. \A j \in r .. s - 2 : b[j] = 1 - rx.bit
      BY <1>12, <2>1 DEF Same, Behind
    <3>3. r + m - 1 = s - 2
      <4>1. s \in Int /\ r \in Int
        BY StatesLemma
      <4>2. r + m = s - 1
        BY <2>3
      <4> QED BY <4>1, <4>2
    <3>4. \A j \in r .. r + m - 1 : b[j] = 1 - rx.bit
      BY <3>2, <3>3
    <3> QED BY <3>1, <3>4
  <2>8. /\ \A j \in 1 .. r + m - 1 : a[DataBits + 1 - (r + m) + j] = b[j]
        /\ m = StopState - r => a = b
    <3>1. a = Shift(rx.byte, m, 1 - rx.bit) /\ m \in 0 .. StopState - r
      BY <2>1, <2>6
    <3> HIDE DEF a
    <3> QED BY <2>7, <3>1, ShiftBits
  <2>9. state = r + m /\ rx.state # 0
    BY <2>1, <2>6
  <2> HIDE DEF state, a
  <2>10. Fly(1) /\ flying[1] = b /\ flying \in Seq(Bytes) /\ rx.bit \in {0, 1}
    BY <1>1, <1>12 DEF Same, Timing, RxOK
  <2>11. CASE r + m < StopState
    <3>1. /\ timer' = Served(t) /\ flying' = flying
          /\ rx' = [rx EXCEPT !.bit = 1 - rx.bit, !.byte = a, !.state = state,
                              !.target = After(@, Passed * BitTicks)]
      BY <1>9, <2>9, <2>11, StatesLemma
    <3>2. /\ Due(d)' /\ ~timer'.flagC /\ timer'.flagA /\ timer'.edge = t.edge
          /\ timer'.count = timer.count /\ timer'.onB = timer.onB
          /\ timer'.ocrB = timer.ocrB
          /\ timer'.flagB = timer.flagB /\ timer'.late = timer.late
      BY <1>6, <1>10, <3>1
    <3>3. PICK k \in Int : k = Ticks(m) /\ k = m * BitTicks
      <4>1. m \in Int
        BY <2>1
      <4> QED BY <4>1, TicksType DEF Ticks
    <3>4. /\ rx'.bit = 1 - rx.bit /\ rx'.state = r + m /\ rx'.byte = a
          /\ rx'.target = After(rx.target, k)
          /\ rx'.head = rx.head /\ rx'.tail = rx.tail /\ rx'.buffer = rx.buffer
      BY <1>1, <2>6, <2>9, <3>1, <3>3 DEF RxOK
    <3>5. rx'.target = After(timer'.count, g + Ticks(rx'.state) + HalfBit)
      <4>1. After(After(c, g + z), k) = After(c, (g + z) + k)
        <5>1. g + z \in Int
          OBVIOUS
        <5> QED BY <5>1, MovedSum
      <4>2. Ticks(r + m) = Ticks(r) + k
        <5>1. r \in Int /\ m \in Int
          OBVIOUS
        <5>2. Ticks(r + m) = Ticks(r) + Ticks(m)
          BY <5>1, TicksSum
        <5> QED BY <3>3, <5>2
      <4>3. (g + z) + k = g + y + h
        <5>1. y = q + k /\ z = q + h
          BY <2>2, <4>2
        <5> QED BY <5>1
      <4> QED BY <2>2, <2>4, <2>5, <3>2, <3>4, <4>1, <4>3
    <3>6. Receiving(g, b)'
      <4>1. rx'.state \in 1 .. DataBits
        BY <2>1, <2>11, <3>4, StatesLemma
      <4>2. /\ timer'.onB /\ timer'.ocrB = After(timer'.count, g + RxStopTicks)
            /\ timer'.flagB <=> g + RxStopTicks <= 0
            /\ -(g + RxStopTicks) <= timer'.late
        BY <1>12, <3>2 DEF Same, Receiving
      <4>3. \A j \in 1 .. rx'.state - 1 : rx'.byte[DataBits + 1 - rx'.state + j] = b[j]
        BY <2>8, <3>4
      <4> QED BY <3>5, <4>1, <4>2, <4>3 DEF Receiving
    <3>7. Fly(1)'
      BY <1>1, <2>10, <3>1, FlyFrame
    <3>8. Same(d, g, b)'
      BY <1>1, <1>12, <3>1, <3>6, <3>7 DEF Same
    <3>9. Captured'
      BY <1>1, <1>12, <2>1, <2>3, <3>2, <3>4 DEF Captured, Behind
    <3>10. timer'.edge = IF rx'.bit = 0 THEN "falling" ELSE "rising"
      BY <1>6, <2>10, <3>2, <3>4
    <3> QED BY <2>10, <3>1, <3>2, <3>4, <3>8, <3>9, <3>10 DEF Timing, Phase, Received
  <2>12. CASE ~(r + m < StopState)
    <3>1. Complete(a) /\ timer' = Served(t2)
      BY <1>9, <2>9, <2>12, StatesLemma
    <3>2. /\ Due(d)' /\ ~timer'.flagC /\ timer'.flagA /\ timer'.edge = "falling"
          /\ ~timer'.onB
      BY <1>8, <1>10, <3>1
    <3>3. a = b /\ s = SentState
      BY <2>1, <2>3, <2>8, <2>12, StatesLemma
    <3>4. flying # <<>> /\ Fly(0)' /\ flying' \in Seq(Bytes)
      <4>1. flying # <<>>
        <5>1. Count(tx.head, tx.tail, TxSize) \in 0 .. TxSize - 1
          BY TxFilled DEF TInv, TxOK
        <5>2. Len(flying) >= 1
          BY <2>10, <5>1, TxSizes DEF Fly, InRing
        <5> QED BY <5>2
      <4>2. Leaves /\ Written
        BY <2>10, <3>1, <4>1 DEF Complete, Leaves, Written
      <4>3. 0 \in Nat /\ 1 \in Nat /\ 1 = 0 + 1
        OBVIOUS
      <4> QED BY <1>1, <2>10, <4>1, <4>2, <4>3, FlyTail
    <3>5. rx'.state = 0 /\ rx'.bit = 0
      BY <1>1, <3>1, CompleteFields
    <3>6. Done'
      BY <1>1, <2>1, <3>2, <3>3, <3>4, <3>5 DEF Done, Deaf
    <3> QED BY <2>10, <3>1, <3>2, <3>3, <3>4, <3>5, <3>6 DEF Timing, Phase, Received
  <2> QED BY <2>11, <2>12
<1> QED BY <1>3, <1>11, <1>12

LEMMA CompareBTiming == ASSUME TInv, Timing, CompareB PROVE Timing' /\ Received
<1> DEFINE u == [timer EXCEPT !.flagB = FALSE, !.onB = FALSE, !.ocrB = 0, !.edge = "falling"]
<1>1. /\ Shapes /\ RxOK /\ UNCHANGED <<line, tx>> /\ timer.onB /\ timer.flagB /\ ~timer.flagC
      /\ ~(timer.onA /\ timer.flagA) /\ timer' = Served(u)
  BY DEF TInv, IInv, CompareB, WantA, WantB, WantC
<1>2. PICK d \in Int, g \in Int, b \in [1 .. DataBits -> {0, 1}] : Due(d) /\ Phase(d, g, b)
  BY DEF Timing
<1>3. Same(d, g, b) \/ Resting(d, g, b)
  BY <1>1, <1>2 DEF Phase, Done, Starting, Deaf
<1>4. tx.state # 0 /\ Receiving(g, b)
  BY <1>3, StatesLemma DEF Same, Resting
<1>5. timer.onA /\ ~timer.flagA /\ d > 0
  BY <1>1, <1>2, <1>4 DEF Due
<1>6. g + RxStopTicks <= 0
  BY <1>1, <1>4 DEF Receiving
<1>7. ~Same(d, g, b)
  <2> SUFFICES ASSUME Same(d, g, b) PROVE FALSE
    OBVIOUS
  <2>1. tx.state - 1 \in Int /\ tx.state - 1 <= DataBits + 1 /\ DataBits + 1 \in Int
    BY StatesLemma DEF Same
  <2>2. Ticks(tx.state - 1) <= Ticks(DataBits + 1)
    BY <2>1, TicksOrder
  <2>3. PICK y \in Int, z \in Int, s \in Int :
          y = Ticks(tx.state - 1) /\ z = Ticks(DataBits + 1) /\ s = RxStopTicks /\ y <= z /\ z <= s
    BY <2>1, <2>2, TicksType, StopLemma
  <2>4. g = d - y
    BY <2>3 DEF Same
  <2>5. g + s <= 0
    BY <1>6, <2>3
  <2> QED BY <1>5, <2>3, <2>4, <2>5
<1>8. Resting(d, g, b)
  BY <1>3, <1>7
<1>9. PICK r \in 1 .. DataBits, m \in Int :
        r = rx.state /\ m = StopState - r /\ m \in 0 .. StopState - r
  BY <1>4, StatesLemma DEF Receiving
<1>10. Complete(b)
  <2> DEFINE a == Shift(rx.byte, m, 1)
  <2>1. /\ \A j \in 1 .. r - 1 : rx.byte[DataBits + 1 - r + j] = b[j]
        /\ \A j \in r .. r + m - 1 : j <= DataBits => b[j] = 1
    <3>1. \A j \in 1 .. r - 1 : rx.byte[DataBits + 1 - r + j] = b[j]
      BY <1>4, <1>9 DEF Receiving
    <3>2. \A j \in r .. DataBits : b[j] = 1
      BY <1>8, <1>9 DEF Resting
    <3>3. r + m - 1 = DataBits
      BY <1>9, StatesLemma
    <3> QED BY <3>1, <3>2, <3>3
  <2>2. a = b
    <3>1. a = Shift(rx.byte, m, 1) /\ m \in 0 .. StopState - r /\ m = StopState - r
      BY <1>9
    <3> HIDE DEF a
    <3> QED BY <2>1, <3>1, ShiftBits
  <2>3. rx.bit = 0 /\ 1 - rx.bit = 1 /\ rx.state < StopState
    BY <1>8, <1>9, StatesLemma DEF Resting
  <2>4. Complete(Shift(rx.byte, StopState - rx.state, 1 - rx.bit))
    BY <2>3 DEF CompareB
  <2> QED BY <1>9, <2>2, <2>3, <2>4
<1>11. flying # <<>> /\ flying[1] = b /\ flying \in Seq(Bytes)
  BY <1>8 DEF Resting, Timing
<1>12. Leaves /\ Written
  BY <1>10, <1>11 DEF Complete, Leaves, Written
<1>13. rx'.state = 0 /\ rx'.bit = 0
  BY <1>1, <1>10, CompleteFields
<1>14. /\ DOMAIN u = DOMAIN timer /\ u.flagC = timer.flagC /\ u.edge = "falling"
       /\ u.late = timer.late /\ u.count = timer.count /\ u.onA = timer.onA
       /\ u.ocrA = timer.ocrA /\ u.flagA = timer.flagA /\ u.onB = FALSE
  BY <1>1 DEF Shapes
<1> HIDE DEF u
<1>15. /\ timer'.flagC = timer.flagC /\ timer'.edge = "falling" /\ timer'.count = timer.count
       /\ timer'.onA = timer.onA /\ timer'.ocrA = timer.ocrA /\ timer'.flagA = timer.flagA
       /\ timer'.onB = FALSE /\ (timer'.late = timer.late \/ timer'.late = 0)
  BY <1>1, <1>14, ServedFields
<1>16. Due(d)'
  <2>1. timer'.late \in Int /\ timer'.late >= 0
    BY <1>15 DEF TInv, TimerOK
  <2>2. -d <= timer'.late
    BY <1>5, <2>1
  <2> QED BY <1>1, <1>2, <1>15, <2>2, DueFrame
<1>17. Deaf' /\ ~timer'.flagC
  BY <1>1, <1>13, <1>15 DEF Deaf
<1>18. CASE tx.state = TailState
  <2>1. Fly(1) /\ 0 \in Nat /\ 1 \in Nat /\ 1 = 0 + 1
    BY <1>8, <1>18, StatesLemma DEF Resting
  <2>2. Fly(0)' /\ flying' \in Seq(Bytes)
    BY <1>1, <1>12, <2>1, FlyTail
  <2>3. Done'
    BY <1>1, <1>17, <1>18, <2>2 DEF Done
  <2> QED BY <1>10, <1>11, <1>13, <1>15, <1>16, <2>2, <2>3 DEF Timing, Phase, Received
<1>19. CASE tx.state = 1
  <2>1. Fly(2) /\ flying[2] = tx.byte /\ 1 \in Nat /\ 2 \in Nat /\ 2 = 1 + 1 /\ 1 >= 1
    BY <1>8, <1>19 DEF Resting
  <2>2. Fly(1)' /\ flying' \in Seq(Bytes) /\ flying'[1] = flying[2]
    BY <1>1, <1>12, <2>1, FlyTail
  <2>3. Starting'
    BY <1>1, <1>5, <1>15, <1>17, <1>19, <2>1, <2>2 DEF Starting
  <2> QED BY <1>10, <1>11, <1>13, <1>15, <1>16, <2>2, <2>3 DEF Timing, Phase, Received
<1> QED BY <1>8, <1>18, <1>19 DEF Resting

-----------------------------------------------------------------------------
(* A byte is written.                                                      *)
LEMMA RoundApart ==
    ASSUME NEW n \in Nat, n > 1, NEW t \in Int, NEW x \in Int, NEW y \in Int,
           x - y < n, y - x < n, (t + x) % n = (t + y) % n
    PROVE  x = y
<1>1. n \in Nat \ {0} /\ t + x \in Int /\ t + y \in Int
  OBVIOUS
<1>2. PICK p \in Int, r \in 0 .. n - 1 : t + x = n * p + r /\ r = (t + x) % n
  BY <1>1, DivLemma
<1>3. PICK q \in Int, s \in 0 .. n - 1 : t + y = n * q + s /\ s = (t + y) % n
  BY <1>1, DivLemma
<1>4. p >= q + 1 => n * p >= n * q + n
  OBVIOUS
<1>5. p <= q - 1 => n * p <= n * q - n
  OBVIOUS
<1> DEFINE u == n * p
           v == n * q
<1>6. u \in Int /\ v \in Int
  OBVIOUS
<1>7. /\ t + x = u + r /\ t + y = v + r
      /\ p >= q + 1 => u >= v + n
      /\ p <= q - 1 => u <= v - n
  BY <1>2, <1>3, <1>4, <1>5
<1>8. p = q => u = v
  OBVIOUS
<1> HIDE DEF u, v
<1> QED BY <1>6, <1>7, <1>8

LEMMA HeadLemma ==
    ASSUME NEW n \in Nat, n > 1, NEW h \in 0 .. n - 1, NEW t \in 0 .. n - 1
    PROVE  /\ (t + Count(h, t, n)) % n = h
           /\ (t + (Count(h, t, n) + 1)) % n = Succ(h, n)
<1>1. PICK c \in Int : c = Count(h, t, n) /\ (c = h - t \/ c = n + h - t)
  <2>1. h - t \in Int /\ n + h - t \in Int
    OBVIOUS
  <2> QED BY <2>1 DEF Count
<1>2. PICK x \in Int : x = t + c /\ (x = h \/ x = n + h)
  BY <1>1
<1>3. n \in Nat \ {0} /\ h \in Int
  OBVIOUS
<1>4. x % n = h
  <2>1. x = n * 0 + h \/ x = n * 1 + h
    BY <1>2
  <2> QED BY <1>3, <2>1, ModUnique
<1>5. ((x % n) + 1) % n = (x + 1) % n
  <2>1. \A y \in Int : ((x % n) + y) % n = (x + y) % n
    BY <1>3, ModAdd
  <2> QED BY <2>1
<1>6. (h + 1) % n = Succ(h, n)
  BY RoundLemma
<1>7. x + 1 = t + (c + 1)
  BY <1>2
<1> QED BY <1>1, <1>2, <1>4, <1>5, <1>6, <1>7

Rings ==
    /\ DOMAIN tx.buffer = 0 .. TxSize - 1
    /\ DOMAIN rx.buffer = 0 .. RxSize - 1

(* The local variables of the main program: what a handler may do between  *)
(* two steps of a call leaves them true.                                   *)
Holding ==
    /\ main.at \in {"write_cli", "write_wait"} =>
          main.head = Succ(tx.head, TxSize) /\ main.byte \in Bytes
    /\ main.at = "write_cli" => main.head # tx.tail
    /\ main.at \in {"read", "peek"} /\ main.head # rx.tail => rx.head # rx.tail
    /\ main.at \in {"read_out", "peek_out", "read_tail"} =>
          main.tail = Succ(rx.tail, RxSize) /\ rx.head # rx.tail
    /\ main.at = "read_tail" => main.byte = rx.buffer[main.tail]
    /\ main.at = "flush_input" => main.tail = rx.tail

PortInv == TInv /\ Timing /\ Rings /\ Holding

LEMMA FilledTx ==
    ASSUME TInv
    PROVE  InRing \in Nat /\ InRing <= TxSize - 1
<1>1. Count(tx.head, tx.tail, TxSize) \in 0 .. TxSize - 1
  BY TxFilled DEF TInv, TxOK
<1>2. PICK c \in Int : c = Count(tx.head, tx.tail, TxSize) /\ c \in 0 .. TxSize - 1
  BY <1>1, TxSizes
<1> QED BY <1>2, TxSizes DEF InRing

Queues ==
    /\ main.head = Succ(tx.head, TxSize) /\ main.head # tx.tail
    /\ tx' = [tx EXCEPT !.buffer[main.head] = main.byte, !.head = main.head]

Joins == main.byte \in Bytes /\ flying' = Append(flying, main.byte)

LEMMA JoinLemma ==
    ASSUME Written, Joins
    PROVE  /\ Written' /\ Len(flying') = Len(flying) + 1
           /\ flying'[Len(flying) + 1] = main.byte
           /\ \A i \in 1 .. Len(flying) : flying'[i] = flying[i]
BY DEF Written, Joins

LEMMA FlyAppend ==
    ASSUME TInv, Rings, Written, Queues, Joins, NEW k \in Nat, Fly(k)
    PROVE  /\ Fly(k)'
           /\ \A i \in 1 .. k : flying'[i] = flying[i]
<1>1. PICK n \in Nat, h \in Int, t \in Int, c \in Nat :
        /\ n = TxSize /\ h = tx.head /\ t = tx.tail /\ c = InRing /\ c <= n - 1 /\ n > 1
        /\ h \in 0 .. n - 1 /\ t \in 0 .. n - 1
  <2>1. TxSize \in Nat /\ TxSize > 1 /\ InRing \in Nat /\ InRing <= TxSize - 1
    BY FilledTx, TxSizes
  <2>2. tx.head \in 0 .. TxSize - 1 /\ tx.tail \in 0 .. TxSize - 1
    BY DEF TInv, TxOK
  <2>3. tx.head \in Int /\ tx.tail \in Int
    BY <2>1, <2>2
  <2> QED BY <2>1, <2>2, <2>3
<1>2. /\ DOMAIN tx = {"state", "byte", "bit", "head", "tail", "buffer"}
  BY DEF TInv, IInv, Shapes
<1>3. Succ(h, n) \in 0 .. n - 1
  BY <1>1, SuccLemma
<1>4. /\ tx'.tail = t /\ tx'.head = Succ(h, n)
      /\ tx'.buffer[Succ(h, n)] = main.byte
      /\ \A x : x # Succ(h, n) => tx'.buffer[x] = tx.buffer[x]
  <2>1. tx'.buffer = [tx.buffer EXCEPT ![main.head] = main.byte]
    BY <1>2 DEF Queues
  <2>2. main.head \in DOMAIN tx.buffer /\ main.head = Succ(h, n)
    BY <1>1, <1>3 DEF Queues, Rings
  <2>3. ASSUME NEW x, x # Succ(h, n) PROVE tx'.buffer[x] = tx.buffer[x]
    BY <2>1, <2>2, <2>3
  <2> QED BY <1>1, <1>2, <2>1, <2>2, <2>3 DEF Queues
<1>5. InRing' = c + 1
  <2>1. Succ(h, n) # t
    BY <1>1 DEF Queues
  <2>2. Count(Succ(h, n), t, n) = Count(h, t, n) + 1
    BY <1>1, <2>1, TxFilled
  <2> QED BY <1>1, <1>4, <2>2 DEF InRing
<1>6. (t + (c + 1)) % n = Succ(h, n)
  BY <1>1, HeadLemma DEF InRing
<1>7. ASSUME NEW i \in 1 .. c
      PROVE  tx'.buffer[(t + i) % n] = tx.buffer[(t + i) % n]
  <2>1. (t + i) % n # (t + (c + 1)) % n
    <3>1. PICK x \in Int, y \in Int : x = i /\ y = c + 1 /\ x - y < n /\ y - x < n /\ x # y
      BY <1>1
    <3>2. t \in Int
      OBVIOUS
    <3> QED BY <1>1, <3>1, <3>2, RoundApart
  <2> QED BY <1>4, <1>6, <2>1
<1> DEFINE l == Len(flying)
<1>8. /\ l = k + c /\ Len(flying') = l + 1 /\ flying'[l + 1] = main.byte
      /\ \A i \in 1 .. l : flying'[i] = flying[i]
      /\ \A i \in 1 .. c : flying[k + i] = tx.buffer[(t + i) % n]
  BY <1>1, JoinLemma DEF Fly
<1> HIDE DEF l
<1>9. ASSUME NEW i \in 1 .. c + 1
      PROVE  flying'[k + i] = tx'.buffer[(t + i) % n]
  <2>1. CASE i = c + 1
    <3>1. k + i = l + 1
      BY <1>8, <2>1
    <3> QED BY <1>4, <1>6, <1>8, <2>1, <3>1
  <2>2. CASE i # c + 1
    <3>1. i \in 1 .. c /\ k + i \in 1 .. l
      BY <1>8, <2>2
    <3> QED BY <1>7, <1>8, <3>1
  <2> QED BY <2>1, <2>2
<1>10. Len(flying') = k + (c + 1)
  <2> DEFINE o == Len(flying')
  <2>1. o = l + 1 /\ l = k + c
    BY <1>8
  <2> HIDE DEF o
  <2>2. o = k + (c + 1)
    BY <2>1
  <2> QED BY <2>2 DEF o
<1>11. \A i \in 1 .. k : flying'[i] = flying[i]
  BY <1>8
<1> QED BY <1>1, <1>4, <1>5, <1>9, <1>10, <1>11 DEF Fly

LEMMA WriteTiming == ASSUME PortInv, WriteByte PROVE Timing'
<1>1. /\ TInv /\ Timing /\ Rings /\ Written /\ UNCHANGED <<line, rx>> /\ Joins
      /\ main.head = Succ(tx.head, TxSize) /\ main.head # tx.tail
  BY DEF PortInv, Holding, WriteByte, Timing, Written, Joins
<1>2. Written'
  BY <1>1, JoinLemma
<1>3. PICK d \in Int, g \in Int, b \in [1 .. DataBits -> {0, 1}] : Due(d) /\ Phase(d, g, b)
  BY <1>1 DEF Timing
<1>4. Shapes /\ timer.count \in Int /\ timer.late \in Int /\ timer.late >= 0
  BY <1>1, CountLemma DEF TInv, TimerOK, IInv
<1>5. CASE tx.state # 0
  <2>1. /\ timer' = timer
        /\ tx' = [tx EXCEPT !.buffer[main.head] = main.byte, !.head = main.head]
    BY <1>5 DEF WriteByte
  <2>2. Queues
    BY <1>1, <2>1 DEF Queues
  <2>3. tx'.state = tx.state /\ tx'.bit = tx.bit /\ tx'.byte = tx.byte
    BY <1>4, <2>1 DEF Shapes
  <2>4. Due(d)'
    BY <1>1, <1>3, <2>1, <2>3 DEF Due
  <2>5. Fly(0) => Fly(0)'
    BY <1>1, <2>2, FlyAppend
  <2>6. Fly(1) => Fly(1)' /\ flying'[1] = flying[1]
    BY <1>1, <2>2, FlyAppend
  <2>7. Fly(2) => Fly(2)' /\ flying'[1] = flying[1] /\ flying'[2] = flying[2]
    BY <1>1, <2>2, FlyAppend
  <2>8. flying' # <<>>
    BY <1>1, JoinLemma DEF Joins, Written
  <2>9. Receiving(g, b) => Receiving(g, b)'
    BY <1>1, <2>1 DEF Receiving
  <2>10. Deaf => Deaf'
    BY <1>1, <2>1 DEF Deaf
  <2>11. Done => Done'
    BY <2>1, <2>3, <2>5, <2>10 DEF Done
  <2>12. Starting => Starting'
    BY <2>1, <2>3, <2>6, <2>10 DEF Starting
  <2>13. Same(d, g, b) => Same(d, g, b)'
    BY <2>3, <2>6, <2>9 DEF Same
  <2>14. Behind => Behind'
    BY <1>1, <2>1, <2>3 DEF Behind
  <2>15. Captured => Captured'
    BY <1>1, <2>1, <2>3 DEF Captured
  <2>16. Resting(d, g, b) => Resting(d, g, b)'
    BY <1>1, <2>1, <2>3, <2>6, <2>7, <2>8, <2>9 DEF Resting
  <2>17. Phase(d, g, b)'
    BY <1>3, <2>11, <2>12, <2>13, <2>14, <2>15, <2>16 DEF Phase
  <2>18. timer'.edge = IF rx'.bit = 0 THEN "falling" ELSE "rising"
    BY <1>1, <2>1 DEF Timing
  <2> QED BY <1>2, <2>4, <2>17, <2>18 DEF Timing, Written
<1>6. CASE tx.state = 0
  <2>1. /\ timer' = StartNow(timer)
        /\ tx' = [tx EXCEPT !.state = 1, !.byte = main.byte, !.bit = 0]
    BY <1>6 DEF WriteByte
  <2>2. Done
    BY <1>3, <1>6, StatesLemma DEF Phase, Starting, Same, Resting
  <2>3. /\ tx'.state = 1 /\ tx'.bit = 0 /\ tx'.byte = main.byte
        /\ tx'.head = tx.head /\ tx'.tail = tx.tail /\ tx'.buffer = tx.buffer
    BY <1>4, <2>1 DEF Shapes
  <2>4. /\ timer'.onA = TRUE /\ timer'.flagA = FALSE /\ timer'.ocrA = After(timer.count, Lead)
        /\ timer'.count = timer.count /\ timer'.late = timer.late
        /\ timer'.onB = timer.onB /\ timer'.flagC = timer.flagC /\ timer'.edge = timer.edge
    BY <1>4, <2>1 DEF StartNow, Shapes
  <2>5. PICK e \in Int : e = Lead /\ e > 0 /\ e <= Ticks(DataBits + 2)
    <3>1. Lead \in Int /\ Lead >= 1 /\ Lead <= BitTicks /\ BitTicks \in Nat
      BY LatencyAssumption, RateAssumption
    <3>2. 1 \in Int /\ 1 <= DataBits + 2 /\ DataBits + 2 \in Int
      OBVIOUS
    <3>3. BitTicks <= Ticks(DataBits + 2) /\ Ticks(DataBits + 2) \in Int
      BY <3>2, TicksOrder, TicksType
    <3> QED BY <3>1, <3>3
  <2>6. Due(e)'
    <3>1. line' = 1
      BY <1>1, <1>6 DEF TInv, IInv, Stopped
    <3>2. -e <= timer'.late
      BY <1>4, <2>4, <2>5
    <3> QED BY <2>3, <2>4, <2>5, <3>1, <3>2, StatesLemma DEF Due
  <2>7. Fly(1)' /\ flying'[1] = main.byte
    <3>1. InRing = 0 /\ InRing' = 0
      <4>1. tx.head = tx.tail /\ tx.head \in 0 .. TxSize - 1
        BY <1>1, <1>6 DEF TInv, IInv, Stopped, TxOK
      <4>2. Count(tx.head, tx.tail, TxSize) = 0
        BY <4>1, TxFilled
      <4> QED BY <2>3, <4>2 DEF InRing
    <3> DEFINE l == Len(flying)
    <3>2. /\ l = 0 + InRing /\ Len(flying') = l + 1 /\ flying'[l + 1] = main.byte
      BY <1>1, <2>2, JoinLemma DEF Done, Fly
    <3> HIDE DEF l
    <3>3. l = 0
      BY <3>1, <3>2
    <3>4. Len(flying') = 1 + 0 /\ flying'[1] = main.byte
      BY <3>2, <3>3
    <3> QED BY <3>1, <3>4 DEF Fly
  <2>8. Starting'
    <3>1. Deaf'
      BY <1>1, <2>2, <2>4 DEF Done, Deaf
    <3> QED BY <2>2, <2>3, <2>4, <2>7, <3>1 DEF Starting, Done
  <2>9. timer'.edge = IF rx'.bit = 0 THEN "falling" ELSE "rising"
    BY <1>1, <2>4 DEF Timing
  <2> QED BY <1>2, <1>3, <2>6, <2>8, <2>9 DEF Timing, Phase, Written
<1> QED BY <1>5, <1>6

(* A step of the main program that touches neither the line nor the        *)
(* transmitter, and of the receiver at most the ring.                      *)
LEMMA FrameTiming ==
    ASSUME Timing, UNCHANGED <<line, timer, tx, flying>>,
           rx'.state = rx.state, rx'.bit = rx.bit, rx'.byte = rx.byte, rx'.target = rx.target
    PROVE  Timing'
<1>1. PICK d \in Int, g \in Int, b \in [1 .. DataBits -> {0, 1}] : Due(d) /\ Phase(d, g, b)
  BY DEF Timing
<1>2. Due(d)'
  BY <1>1 DEF Due
<1>3. (Fly(0) => Fly(0)') /\ (Fly(1) => Fly(1)') /\ (Fly(2) => Fly(2)')
  BY FlyFrame
<1>4. Receiving(g, b) => Receiving(g, b)'
  BY DEF Receiving
<1>5. Deaf => Deaf'
  BY DEF Deaf
<1>6. /\ Done => Done'
      /\ Starting => Starting'
      /\ Same(d, g, b) => Same(d, g, b)'
      /\ Behind => Behind'
      /\ Captured => Captured'
      /\ Resting(d, g, b) => Resting(d, g, b)'
  BY <1>3, <1>4, <1>5 DEF Done, Starting, Same, Behind, Captured, Resting
<1>7. Phase(d, g, b)'
  BY <1>1, <1>6 DEF Phase
<1> QED BY <1>2, <1>7 DEF Timing

LEMMA SuccApart ==
    ASSUME NEW size \in Nat, size > 1, NEW x \in 0 .. size - 1, NEW y \in 0 .. size - 1, x # y
    PROVE  Succ(x, size) # Succ(y, size)
BY DEF Succ

(* What an interrupt of the receiver does to its ring.                     *)
Kept == rx'.head = rx.head /\ rx'.tail = rx.tail /\ rx'.buffer = rx.buffer

Stores(b) ==
    /\ Succ(rx.head, RxSize) # rx.tail
    /\ rx'.head = Succ(rx.head, RxSize) /\ rx'.tail = rx.tail
    /\ rx'.buffer = [rx.buffer EXCEPT ![Succ(rx.head, RxSize)] = b]

Drops == Succ(rx.head, RxSize) = rx.tail /\ Kept

LEMMA CompleteStores ==
    ASSUME RxOK, NEW b, Complete(b)
    PROVE  Stores(b) \/ Drops
<1> DEFINE s == Succ(rx.head, RxSize)
           p == Push(rx, b)
<1>1. /\ DOMAIN p = DOMAIN rx /\ p.tail = rx.tail
      /\ s # rx.tail => p.head = s /\ p.buffer = [rx.buffer EXCEPT ![s] = b]
      /\ s = rx.tail => p.head = rx.head /\ p.buffer = rx.buffer
  <2> HIDE DEF s
  <2>1. p = IF s # rx.tail THEN [rx EXCEPT !.buffer[s] = b, !.head = s] ELSE rx
    BY DEF Push, s
  <2> HIDE DEF p
  <2> QED BY <2>1 DEF RxOK
<1>2. rx' = [p EXCEPT !.state = 0, !.bit = 0, !.byte = Zero, !.target = 0]
  BY DEF Complete
<1> HIDE DEF s, p
<1>3. rx'.head = p.head /\ rx'.tail = p.tail /\ rx'.buffer = p.buffer
  BY <1>1, <1>2 DEF RxOK
<1> QED BY <1>1, <1>3 DEF Stores, Drops, Kept, s

LEMMA ReceivedRing ==
    ASSUME RxOK, Rings, Received
    PROVE  /\ rx'.tail = rx.tail /\ DOMAIN rx'.buffer = DOMAIN rx.buffer
           /\ rx.head # rx.tail =>
                 /\ rx'.head # rx'.tail
                 /\ rx'.buffer[Succ(rx.tail, RxSize)] = rx.buffer[Succ(rx.tail, RxSize)]
<1>1. Kept \/ \E b : Stores(b)
  BY CompleteStores DEF Received, Kept, Drops
<1>2. CASE Kept
  BY <1>2 DEF Kept
<1>3. ASSUME NEW b, Stores(b)
      PROVE  /\ rx'.tail = rx.tail /\ DOMAIN rx'.buffer = DOMAIN rx.buffer
             /\ rx.head # rx.tail =>
                   /\ rx'.head # rx'.tail
                   /\ rx'.buffer[Succ(rx.tail, RxSize)] = rx.buffer[Succ(rx.tail, RxSize)]
  <2>1. rx'.tail = rx.tail /\ DOMAIN rx'.buffer = DOMAIN rx.buffer /\ rx'.head # rx'.tail
    BY <1>3 DEF Stores
  <2>2. rx.head # rx.tail => Succ(rx.tail, RxSize) # Succ(rx.head, RxSize)
    <3>1. PICK h \in 0 .. RxSize - 1, t \in 0 .. RxSize - 1 : h = rx.head /\ t = rx.tail
      BY DEF RxOK
    <3>2. h # t => Succ(t, RxSize) # Succ(h, RxSize)
      BY SuccApart, TxSizes
    <3> QED BY <3>1, <3>2
  <2>3. Succ(rx.tail, RxSize) \in DOMAIN rx.buffer
    <3>1. RxSize \in Nat /\ RxSize > 0 /\ rx.tail \in 0 .. RxSize - 1
      BY TxSizes DEF RxOK
    <3>2. Succ(rx.tail, RxSize) \in 0 .. RxSize - 1
      BY <3>1, SuccLemma
    <3> QED BY <3>2 DEF Rings
  <2>4. rx.head # rx.tail =>
           rx'.buffer[Succ(rx.tail, RxSize)] = rx.buffer[Succ(rx.tail, RxSize)]
    BY <1>3, <2>2, <2>3 DEF Stores
  <2> QED BY <2>1, <2>4
<1> QED BY <1>1, <1>2, <1>3

LEMMA ReceivedHolding ==
    ASSUME TInv, Rings, Holding, Received, UNCHANGED <<tx, main>>
    PROVE  Rings' /\ Holding'
<1>1. /\ rx'.tail = rx.tail /\ DOMAIN rx'.buffer = DOMAIN rx.buffer
      /\ rx.head # rx.tail =>
            /\ rx'.head # rx'.tail
            /\ rx'.buffer[Succ(rx.tail, RxSize)] = rx.buffer[Succ(rx.tail, RxSize)]
  BY ReceivedRing DEF TInv
<1>2. Rings'
  BY <1>1 DEF Rings
<1>3. Holding'
  BY <1>1 DEF Holding
<1> QED BY <1>2, <1>3

(* The compare handler of the transmitter takes at most the oldest byte.   *)
LEMMA SendHolding ==
    ASSUME TInv, Rings, Holding, CompareA
    PROVE  Rings' /\ Holding'
<1> DEFINE t == [timer EXCEPT !.flagA = FALSE]
<1>1. \/ SendEdge(t)
      \/ Queued /\ SendNext(t)
      \/ SendTail(t)
  BY DEF CompareA
<1> HIDE DEF t
<1>2. UNCHANGED <<rx, main>> /\ Shapes /\ TxOK
  BY DEF CompareA, TInv, IInv
<1>3. /\ tx'.head = tx.head /\ DOMAIN tx'.buffer = 0 .. TxSize - 1
      /\ tx'.tail = tx.tail \/ (Queued /\ tx'.tail = Succ(tx.tail, TxSize))
  <2>1. CASE SendEdge(t)
    <3>1. PICK i : tx' = [tx EXCEPT !.state = i + 1, !.bit = 1 - @]
      BY <2>1, Zenon DEF SendEdge
    <3> QED BY <1>2, <3>1 DEF Shapes, Rings
  <2>2. CASE Queued /\ SendNext(t)
    <3> DEFINE v == [tx EXCEPT !.tail = Succ(tx.tail, TxSize),
                               !.byte = tx.buffer[Succ(tx.tail, TxSize)],
                               !.bit = 0, !.state = 1]
    <3>1. tx' = Tidy(v, TxSize)
      BY <2>2 DEF SendNext
    <3>2. DOMAIN v = DOMAIN tx /\ v.head = tx.head /\ v.tail = Succ(tx.tail, TxSize)
      BY <1>2 DEF Shapes
    <3> HIDE DEF v
    <3>3. tx'.head = v.head /\ tx'.tail = v.tail /\ DOMAIN tx'.buffer = 0 .. TxSize - 1
      BY <1>2, <3>1, <3>2 DEF Tidy, Shapes
    <3> QED BY <2>2, <3>2, <3>3
  <2>3. CASE SendTail(t)
    <3>1. tx' = [tx EXCEPT !.state = TailState] \/ tx' = [tx EXCEPT !.state = 0]
      BY <2>3 DEF SendTail
    <3> QED BY <1>2, <3>1 DEF Shapes, Rings
  <2> QED BY <1>1, <2>1, <2>2, <2>3
<1>4. Rings'
  BY <1>2, <1>3 DEF Rings
<1>5. main.at = "write_cli" => main.head # tx'.tail
  <2>1. Queued => Succ(tx.tail, TxSize) # Succ(tx.head, TxSize)
    BY <1>2, SuccApart, TxSizes DEF TxOK, Queued
  <2> QED BY <1>3, <2>1 DEF Holding
<1>6. Holding'
  BY <1>2, <1>3, <1>5 DEF Holding
<1> QED BY <1>4, <1>6

LEMMA RingTidied ==
    ASSUME RxOK, Rings, NEW r, DOMAIN r = DOMAIN rx, rx' = Tidy(r, RxSize)
    PROVE  DOMAIN rx'.buffer = 0 .. RxSize - 1
BY DEF RxOK, Tidy

LEMMA WriteHolding == ASSUME TInv, Rings, WriteByte PROVE Rings' /\ Holding'
<1>1. /\ UNCHANGED rx /\ main' = Idle
      /\ \/ tx' = [tx EXCEPT !.buffer[main.head] = main.byte, !.head = main.head]
         \/ tx' = [tx EXCEPT !.state = 1, !.byte = main.byte, !.bit = 0]
  BY DEF WriteByte
<1>2. DOMAIN tx = {"state", "byte", "bit", "head", "tail", "buffer"}
  BY DEF TInv, IInv, Shapes
<1>3. CASE tx' = [tx EXCEPT !.buffer[main.head] = main.byte, !.head = main.head]
  <2>1. tx'.buffer = [tx.buffer EXCEPT ![main.head] = main.byte]
    BY <1>2, <1>3
  <2> QED BY <1>1, <2>1 DEF Rings, Holding, Idle
<1>4. CASE tx' = [tx EXCEPT !.state = 1, !.byte = main.byte, !.bit = 0]
  <2>1. tx'.buffer = tx.buffer
    BY <1>2, <1>4
  <2> QED BY <1>1, <2>1 DEF Rings, Holding, Idle
<1> QED BY <1>1, <1>3, <1>4

LEMMA CallFrame == ASSUME Call PROVE UNCHANGED <<line, timer, tx, rx, flying>>
<1>1. CASE \E b \in Bytes : WriteCall(b)
  BY <1>1 DEF WriteCall
<1>2. CASE \E c \in {"read", "peek", "available"} : LoadHead(c)
  <2>1. PICK c : LoadHead(c)
    BY <1>2
  <2> QED BY <2>1 DEF LoadHead
<1>3. CASE FlushCall
  BY <1>3 DEF FlushCall
<1>4. CASE FlushInputCall
  BY <1>4 DEF FlushInputCall
<1> QED BY <1>1, <1>2, <1>3, <1>4 DEF Call

LEMMA CallHolding == ASSUME TInv, Rings, Holding, Call PROVE Rings' /\ Holding'
<1>1. UNCHANGED <<line, timer, tx, rx, flying>> /\ DOMAIN main = {"at", "head", "tail", "byte"}
  BY CallFrame DEF TInv, Locals
<1>2. Rings'
  BY <1>1 DEF Rings
<1>3. ASSUME NEW b \in Bytes, WriteCall(b) PROVE Holding'
  BY <1>1, <1>3 DEF WriteCall, Holding
<1>4. ASSUME NEW c \in {"read", "peek", "available"}, LoadHead(c) PROVE Holding'
  <2>1. main'.at \in {"read", "peek", "available"} /\ main'.head = rx.head
    BY <1>1, <1>4 DEF LoadHead
  <2> QED BY <1>1, <2>1 DEF Holding
<1>5. CASE FlushCall
  <2>1. main'.at = "flush"
    BY <1>1, <1>5 DEF FlushCall
  <2> QED BY <1>2, <2>1 DEF Holding
<1>6. CASE FlushInputCall
  <2>1. main'.at = "flush_input" /\ main'.tail = rx.tail
    BY <1>1, <1>6 DEF FlushInputCall
  <2> QED BY <1>1, <1>2, <2>1 DEF Holding
<1> QED BY <1>2, <1>3, <1>4, <1>5, <1>6 DEF Call

LEMMA ContinueHolding == ASSUME TInv, Rings, Holding, Continue PROVE Rings' /\ Holding'
<1>1. DOMAIN main = {"at", "head", "tail", "byte"} /\ RxOK
  BY DEF TInv, Locals
<1>2. CASE WriteRoom
  BY <1>1, <1>2 DEF WriteRoom, Rings, Holding
<1>3. CASE WriteByte
  BY <1>3, WriteHolding
<1>4. CASE FlushDone \/ PeekOut \/ AvailableOut
  BY <1>4 DEF FlushDone, PeekOut, AvailableOut, Rings, Holding, Idle
<1>5. CASE LoadTail
  <2>1. UNCHANGED <<tx, rx>>
    BY <1>5 DEF LoadTail
  <2>2. CASE main' = Idle
    BY <2>1, <2>2 DEF Rings, Holding, Idle
  <2>3. CASE main' # Idle
    <3>1. /\ main.at \in {"read", "peek"} /\ main.head # rx.tail
          /\ main' = [main EXCEPT !.tail = Succ(rx.tail, RxSize),
                                  !.at = IF @ = "read" THEN "read_out" ELSE "peek_out"]
      BY <1>5, <2>3 DEF LoadTail
    <3>2. main'.at \in {"read_out", "peek_out"} /\ main'.tail = Succ(rx.tail, RxSize)
      BY <1>1, <3>1
    <3> QED BY <2>1, <3>1, <3>2 DEF Rings, Holding
  <2> QED BY <2>2, <2>3
<1>6. CASE ReadOut
  BY <1>1, <1>6 DEF ReadOut, Rings, Holding
<1>7. CASE ReadTail
  <2> DEFINE r == [rx EXCEPT !.tail = main.tail]
  <2>1. rx' = Tidy(r, RxSize) /\ DOMAIN r = DOMAIN rx /\ main' = Idle /\ UNCHANGED tx
    BY <1>1, <1>7 DEF ReadTail
  <2> HIDE DEF r
  <2>2. DOMAIN rx'.buffer = 0 .. RxSize - 1
    BY <1>1, <2>1, RingTidied
  <2> QED BY <2>1, <2>2 DEF Rings, Holding, Idle
<1>8. CASE FlushInput
  <2> DEFINE r == [rx EXCEPT !.head = main.tail]
  <2>1. rx' = Tidy(r, RxSize) /\ DOMAIN r = DOMAIN rx /\ main' = Idle /\ UNCHANGED tx
    BY <1>1, <1>8 DEF FlushInput
  <2> HIDE DEF r
  <2>2. DOMAIN rx'.buffer = 0 .. RxSize - 1
    BY <1>1, <2>1, RingTidied
  <2> QED BY <2>1, <2>2 DEF Rings, Holding, Idle
<1> QED BY <1>2, <1>3, <1>4, <1>5, <1>6, <1>7, <1>8 DEF Continue

LEMMA InitPortInv == Init => PortInv
<1> SUFFICES ASSUME Init PROVE PortInv
  OBVIOUS
<1>1. TInv
  BY InitTInv
<1>2. Rings /\ Holding
  BY DEF Init, Rings, Holding, Idle
<1>3. flying = <<>> /\ flying \in Seq(Bytes) /\ Len(flying) = 0
  BY DEF Init
<1>4. InRing = 0
  BY SizesLemma DEF Init, InRing, Count
<1>5. tx.state = 0 /\ rx.state = 0 /\ rx.bit = 0 /\ ~timer.onB /\ ~timer.flagC
      /\ timer.edge = "falling"
  BY DEF Init
<1>6. Fly(0) /\ Deaf
  BY <1>3, <1>4, <1>5 DEF Fly, Deaf
<1>7. Done
  BY <1>5, <1>6 DEF Done
<1>8. Zero \in [1 .. DataBits -> {0, 1}]
  BY DEF Zero
<1>9. Due(0) /\ Phase(0, 0, Zero)
  BY <1>5, <1>7 DEF Due, Phase
<1>10. Timing
  BY <1>3, <1>5, <1>8, <1>9 DEF Timing
<1> QED BY <1>1, <1>2, <1>10 DEF PortInv

LEMMA NextPortInv == PortInv /\ [Next]_vars => PortInv'
<1> SUFFICES ASSUME PortInv, [Next]_vars PROVE PortInv'
  OBVIOUS
<1>1. TInv /\ Timing /\ Rings /\ Holding
  BY DEF PortInv
<1>2. TInv'
  BY <1>1, NextTInv
<1>3. CASE Tick
  <2>1. Timing'
    BY <1>1, <1>3, TickTiming
  <2>2. Rings' /\ Holding'
    BY <1>1, <1>3 DEF Tick, Rings, Holding
  <2> QED BY <1>2, <2>1, <2>2 DEF PortInv
<1>4. CASE Capture
  <2>1. Timing' /\ Received /\ UNCHANGED <<tx, main>>
    BY <1>1, <1>4, CaptureTiming DEF Capture
  <2> QED BY <1>1, <1>2, <2>1, ReceivedHolding DEF PortInv
<1>5. CASE CompareB
  <2>1. Timing' /\ Received /\ UNCHANGED <<tx, main>>
    BY <1>1, <1>5, CompareBTiming DEF CompareB
  <2> QED BY <1>1, <1>2, <2>1, ReceivedHolding DEF PortInv
<1>6. CASE CompareA
  BY <1>1, <1>2, <1>6, CompareATiming, SendHolding DEF PortInv
<1>7. CASE WriteByte
  BY <1>1, <1>2, <1>7, WriteTiming, WriteHolding DEF PortInv
<1>8. CASE Call
  <2>1. UNCHANGED <<line, timer, tx, rx, flying>>
    BY <1>8, CallFrame
  <2>2. Timing'
    BY <1>1, <2>1, FrameTiming
  <2> QED BY <1>1, <1>2, <1>8, <2>2, CallHolding DEF PortInv
<1>9. CASE Continue /\ ~WriteByte
  <2>1. /\ UNCHANGED <<line, timer, tx, flying>>
        /\ rx' = rx \/ ReadTail \/ FlushInput
    BY <1>9 DEF Continue, WriteRoom, FlushDone, LoadTail, PeekOut, ReadOut, ReadTail,
                AvailableOut, FlushInput
  <2>2. /\ rx'.state = rx.state /\ rx'.bit = rx.bit /\ rx'.byte = rx.byte
        /\ rx'.target = rx.target
    <3>1. RxOK
      BY <1>1 DEF TInv
    <3>2. CASE ReadTail
      <4> DEFINE r == [rx EXCEPT !.tail = main.tail]
      <4>1. /\ rx' = Tidy(r, RxSize) /\ DOMAIN r = DOMAIN rx
            /\ r.state = rx.state /\ r.bit = rx.bit /\ r.byte = rx.byte /\ r.target = rx.target
        BY <3>1, <3>2 DEF ReadTail, RxOK
      <4> HIDE DEF r
      <4> QED BY <3>1, <4>1 DEF Tidy, RxOK
    <3>3. CASE FlushInput
      <4> DEFINE r == [rx EXCEPT !.head = main.tail]
      <4>1. /\ rx' = Tidy(r, RxSize) /\ DOMAIN r = DOMAIN rx
            /\ r.state = rx.state /\ r.bit = rx.bit /\ r.byte = rx.byte /\ r.target = rx.target
        BY <3>1, <3>3 DEF FlushInput, RxOK
      <4> HIDE DEF r
      <4> QED BY <3>1, <4>1 DEF Tidy, RxOK
    <3> QED BY <2>1, <3>2, <3>3
  <2>3. Timing'
    BY <1>1, <2>1, <2>2, FrameTiming
  <2> QED BY <1>1, <1>2, <1>9, <2>3, ContinueHolding DEF PortInv
<1>10. CASE UNCHANGED vars
  <2>1. UNCHANGED <<line, timer, tx, rx, main, flying>>
    BY <1>10 DEF vars
  <2>2. Timing'
    BY <1>1, <2>1, FrameTiming
  <2> QED BY <1>1, <1>2, <2>1, <2>2 DEF PortInv, Rings, Holding
<1> QED BY <1>3, <1>4, <1>5, <1>6, <1>7, <1>8, <1>9, <1>10 DEF Next, Isr

(* flushOutput() returns after the last stop bit.  tx_state 0 leaves only  *)
(* the phase in which nothing is on the wire, and the ring is empty, so    *)
(* every byte written has been received whole.                             *)
THEOREM FlushWaits == Spec => FlushedIsSent
<1>1. PortInv /\ [Next]_vars => [FlushDone => flying = <<>>]_vars
  <2> SUFFICES ASSUME PortInv, FlushDone PROVE flying = <<>>
    OBVIOUS
  <2>1. tx.state = 0
    BY DEF FlushDone
  <2>2. PICK d \in Int, g \in Int, b \in [1 .. DataBits -> {0, 1}] : Due(d) /\ Phase(d, g, b)
    BY DEF PortInv, Timing
  <2>3. Done
    BY <2>1, <2>2, StatesLemma DEF Phase, Starting, Same, Resting
  <2>4. InRing = 0
    <3>1. tx.head = tx.tail /\ tx.head \in 0 .. TxSize - 1
      BY <2>1 DEF PortInv, TInv, IInv, Stopped, TxOK
    <3>2. Count(tx.head, tx.tail, TxSize) = 0
      BY <3>1, TxFilled
    <3> QED BY <3>2 DEF InRing
  <2>5. Len(flying) = 0 + InRing
    BY <2>3 DEF Done, Fly
  <2>6. Len(flying) = 0
    BY <2>4, <2>5
  <2>7. flying \in Seq(Bytes)
    BY DEF PortInv, Timing
  <2> QED BY <2>6, <2>7
<1> QED BY InitPortInv, NextPortInv, <1>1, PTL DEF Spec, FlushedIsSent

-----------------------------------------------------------------------------
(* The time the transmitter still needs.  With the next match d ticks away *)
(* in state s and n bytes in the ring it is Need(d, s, n); what remains is *)
(* to find d before and after a step.                                      *)
Distance(count, ocr, flag) ==
    IF flag THEN -((count - ocr) % Wrap)
    ELSE IF ocr = count THEN Wrap ELSE (ocr - count) % Wrap

Need(d, s, n) == d + Ticks(DataBits + 2) - Ticks(s - 1) + Latency + 1 + Turn * n

LEMMA DistanceIs ==
    ASSUME NEW c \in 0 .. Wrap - 1, NEW d \in Int, -d < Wrap, d < Wrap, NEW f, f <=> d <= 0
    PROVE  Distance(c, After(c, d), f) = d
<1>1. Wrap \in Nat \ {0} /\ c \in Int
  BY WrapLemma
<1>2. CASE d > 0
  <2>1. d \in 1 .. Wrap - 1 /\ ~f
    BY <1>1, <1>2
  <2> QED BY <2>1, AheadLemma DEF Distance
<1>3. CASE d <= 0
  <2>1. PICK v \in 0 .. Wrap - 1, k \in Int : v = After(c, d) /\ k = -d
    <3>1. After(c, d) \in 0 .. Wrap - 1 /\ -d \in Int
      BY <1>1, WrapLemma
    <3> QED BY <3>1
  <2>2. After(v, k) = c
    <3>1. After(v, k) = After(c, d + k) /\ d + k = 0
      BY <1>1, <2>1, MovedSum
    <3>2. c + 0 = c /\ c = Wrap * 0 + c /\ 0 \in Int
      BY <1>1
    <3>3. c % Wrap = c
      BY <1>1, <3>2, ModUnique
    <3> QED BY <3>1, <3>2, <3>3 DEF After
  <2>3. (c - v) % Wrap = k
    <3>1. CASE k = 0
      <4>1. v = c
        <5>1. v + 0 = v /\ v = Wrap * 0 + v /\ 0 \in Int /\ v \in Int
          BY <1>1
        <5>2. v % Wrap = v
          BY <1>1, <5>1, ModUnique
        <5> QED BY <2>2, <3>1, <5>1, <5>2 DEF After
      <4>2. c - v = 0 /\ 0 = Wrap * 0 + 0 /\ 0 \in 0 .. Wrap - 1
        BY <1>1, <4>1
      <4>3. 0 % Wrap = 0
        BY <1>1, <4>2, ModUnique
      <4> QED BY <3>1, <4>2, <4>3
    <3>2. CASE k # 0
      <4>1. k \in 1 .. Wrap - 1
        BY <1>1, <1>3, <2>1, <3>2
      <4> QED BY <2>2, <4>1, AheadLemma
    <3> QED BY <3>1, <3>2
  <2> QED BY <1>1, <1>3, <2>1, <2>3 DEF Distance
<1> QED BY <1>2, <1>3

LEMMA TurnLemma ==
    /\ Turn \in Nat /\ Turn = Ticks(DataBits + 2) + Lead + Latency
    /\ Lead \in Nat /\ Lead >= 1 /\ Latency \in Nat /\ Ticks(DataBits + 2) \in Nat
    /\ \A s \in Int : BitTicks * (TailState - s) = Ticks(DataBits + 2) - Ticks(s - 1)
<1>1. BitTicks \in Nat /\ Lead \in Nat /\ Lead >= 1 /\ Latency \in Nat
  BY RateAssumption, LatencyAssumption
<1>2. Turn = Ticks(DataBits + 2) + Lead + Latency
  BY <1>1 DEF Turn, Ticks
<1>3. Ticks(DataBits + 2) \in Nat
  <2>1. DataBits + 2 \in Int /\ 0 \in Int /\ 0 <= DataBits + 2
    OBVIOUS
  <2>2. Ticks(0) <= Ticks(DataBits + 2) /\ Ticks(0) = 0 /\ Ticks(DataBits + 2) \in Int
    BY <2>1, TicksLemma
  <2> QED BY <2>2
<1>4. ASSUME NEW s \in Int
      PROVE  BitTicks * (TailState - s) = Ticks(DataBits + 2) - Ticks(s - 1)
  <2>1. PICK p \in Int, q \in Int, m \in Int :
          p = DataBits + 2 /\ q = s - 1 /\ m = TailState - s /\ p = q + m
    BY StatesLemma
  <2>2. Ticks(p) = Ticks(q) + Ticks(m) /\ Ticks(q) \in Int /\ Ticks(m) \in Int
    BY <2>1, TicksSum, TicksType
  <2>3. Ticks(m) = BitTicks * m
    BY <1>1, <2>1 DEF Ticks
  <2>4. Ticks(m) = Ticks(p) - Ticks(q)
    BY <2>2
  <2> QED BY <2>1, <2>3, <2>4
<1>5. Turn \in Nat
  BY <1>1, <1>2, <1>3
<1> QED BY <1>1, <1>2, <1>3, <1>4, <1>5

LEMMA TimeLeftNow ==
    ASSUME TInv, NEW d \in Int, Due(d), tx.state # 0
    PROVE  /\ TimeLeft = Need(d, tx.state, InRing)
           /\ tx.state \in 1 .. TailState /\ d <= Ticks(DataBits + 2) /\ -d <= Latency
<1>1. /\ timer.ocrA = After(timer.count, d) /\ d <= Ticks(DataBits + 2) /\ -d <= timer.late
      /\ timer.flagA <=> d <= 0
  BY DEF Due
<1>2. timer.count \in 0 .. Wrap - 1 /\ timer.late \in 0 .. Latency /\ tx.state \in 1 .. TailState
  BY StatesLemma DEF TInv, TimerOK, IInv, Shapes
<1>3. d < Wrap /\ -d < Wrap /\ -d <= Latency
  BY <1>1, <1>2, FrameLemma
<1>4. Distance(timer.count, timer.ocrA, timer.flagA) = d
  BY <1>1, <1>2, <1>3, DistanceIs
<1>5. NextEdge = d
  BY <1>4 DEF NextEdge, Until, Distance
<1>6. BitTicks * (TailState - tx.state) = Ticks(DataBits + 2) - Ticks(tx.state - 1)
  <2>1. tx.state \in Int
    BY <1>2
  <2> QED BY <2>1, TurnLemma
<1>7. TimeLeft = d + BitTicks * (TailState - tx.state) + Latency + 1 + Turn * InRing
  BY <1>5 DEF TimeLeft, InRing
<1>8. Ticks(tx.state - 1) \in Int
  BY <1>2, TicksType
<1>9. TimeLeft = Need(d, tx.state, InRing)
  BY <1>6, <1>7, <1>8, TurnLemma DEF Need
<1> QED BY <1>1, <1>2, <1>3, <1>9

LEMMA TimeLeftThen ==
    ASSUME NEW e \in Int, -e < Wrap, e < Wrap, timer'.count \in 0 .. Wrap - 1,
           timer'.ocrA = After(timer'.count, e), timer'.flagA <=> e <= 0,
           tx'.state \in Int, tx'.state # 0, InRing' \in Nat
    PROVE  TimeLeft' = Need(e, tx'.state, InRing')
<1>1. Distance(timer'.count, timer'.ocrA, timer'.flagA) = e
  BY DistanceIs
<1>2. NextEdge' = e
  BY <1>1 DEF NextEdge, Until, Distance
<1>3. BitTicks * (TailState - tx'.state) = Ticks(DataBits + 2) - Ticks(tx'.state - 1)
  BY TurnLemma
<1>4. TimeLeft' = e + BitTicks * (TailState - tx'.state) + Latency + 1 + Turn * InRing'
  BY <1>2 DEF TimeLeft, InRing, TailState
<1>5. Ticks(tx'.state - 1) \in Int /\ Turn * InRing' \in Int
  <2>1. PICK T \in Int, n \in Int : T = Turn /\ n = InRing'
    BY TurnLemma
  <2>2. T * n \in Int /\ tx'.state - 1 \in Int
    OBVIOUS
  <2>3. Ticks(tx'.state - 1) \in Int
    BY <2>2, TicksType
  <2> QED BY <2>1, <2>2, <2>3
<1>6. PICK t \in Int, q \in Int, x \in Int :
        t = Ticks(DataBits + 2) /\ q = Ticks(tx'.state - 1) /\ x = Turn * InRing'
  BY <1>5, TurnLemma
<1>7. e + (t - q) + Latency + 1 + x = e + t - q + Latency + 1 + x
  BY TurnLemma
<1> QED BY <1>3, <1>4, <1>6, <1>7 DEF Need

(* At most two frames beside what waits in the ring. *)
LEMMA NeedBounds ==
    ASSUME NEW d \in Int, NEW s \in 1 .. TailState, NEW n \in Nat, n <= TxSize - 1,
           d <= Ticks(DataBits + 2), -d <= Latency
    PROVE  Need(d, s, n) \in 1 .. Turn * (TxSize + 1)
<1>1. PICK t \in Nat, k \in Nat, q \in Int, T \in Nat, L \in Nat :
        /\ t = Ticks(DataBits + 2) /\ k = Lead /\ q = Ticks(s - 1) /\ T = Turn /\ L = Latency
        /\ T = t + k + L /\ k >= 1
  <2>1. s - 1 \in Int
    BY StatesLemma
  <2>2. Ticks(s - 1) \in Int
    BY <2>1, TicksType
  <2> QED BY <2>2, TurnLemma, Zenon
<1>2. 0 <= q /\ q <= t
  <2>1. s - 1 \in Int /\ DataBits + 2 \in Int /\ 0 <= s - 1 /\ s - 1 <= DataBits + 2 /\ 0 \in Int
    BY StatesLemma
  <2>2. Ticks(0) <= Ticks(s - 1) /\ Ticks(s - 1) <= Ticks(DataBits + 2) /\ Ticks(0) = 0
    BY <2>1, TicksLemma
  <2> QED BY <1>1, <2>2
<1>3. PICK u \in Nat, v \in Nat :
        u = T * n /\ v = T * (TxSize - 1) /\ u <= v /\ T * (TxSize + 1) = v + 2 * T
  <2>1. PICK m \in Nat, z \in Nat : m = TxSize - 1 /\ z = m - n
    BY TxSizes
  <2>2. T * m = T * n + T * z /\ T * z \in Nat /\ T * n \in Nat /\ T * m \in Nat
    BY <2>1
  <2>3. TxSize + 1 = m + 2 /\ T * (m + 2) = T * m + 2 * T
    BY <2>1, TxSizes
  <2>4. PICK u \in Nat, v \in Nat, w \in Nat : u = T * n /\ v = T * m /\ w = T * z
    BY <2>2
  <2>5. u <= v
    BY <2>2, <2>4
  <2>6. T * (TxSize + 1) = v + 2 * T
    BY <2>3, <2>4
  <2>7. T * (TxSize - 1) = v
    BY <2>1, <2>4
  <2> QED BY <2>4, <2>5, <2>6, <2>7
<1>4. PICK x \in Int : x = d + t - q + L + 1 + u
  OBVIOUS
<1>5. x >= 1 /\ x <= v + 2 * T
  <2>1. d <= t /\ -d <= L
    BY <1>1
  <2>2. T = t + k + L /\ k >= 1 /\ u <= v
    BY <1>1, <1>3, Zenon
  <2> QED BY <1>2, <1>4, <2>1, <2>2
<1>6. Need(d, s, n) = x
  BY <1>1, <1>3, <1>4 DEF Need
<1> QED BY <1>1, <1>3, <1>5, <1>6

(* However late the interrupts come, the transmitter never needs longer    *)
(* than for the byte it sends and those that fit into its ring: nobody     *)
(* waits longer in writeByte() and flushOutput().                          *)
THEOREM StopsInBoundedTime == Spec => []StopsInTime
<1>1. PortInv => StopsInTime
  <2> SUFFICES ASSUME PortInv, tx.state # 0 PROVE TimeLeft \in 1 .. Turn * (TxSize + 1)
    BY DEF StopsInTime
  <2>1. PICK d \in Int : Due(d)
    BY DEF PortInv, Timing
  <2>2. /\ TimeLeft = Need(d, tx.state, InRing)
        /\ tx.state \in 1 .. TailState /\ d <= Ticks(DataBits + 2) /\ -d <= Latency
    BY <2>1, TimeLeftNow DEF PortInv
  <2>3. InRing \in Nat /\ InRing <= TxSize - 1
    BY FilledTx DEF PortInv
  <2> QED BY <2>2, <2>3, NeedBounds
<1> QED BY InitPortInv, NextPortInv, <1>1, PTL DEF Spec

LEMMA LeaveCount ==
    ASSUME NEW n \in Nat, n > 1, NEW h \in 0 .. n - 1, NEW t \in 0 .. n - 1, h # t
    PROVE  /\ Succ(t, n) \in 0 .. n - 1
           /\ \E e \in Nat : Count(h, t, n) = e + 1 /\ Count(h, Succ(t, n), n) = e
<1>1. Succ(t, n) \in 0 .. n - 1
  BY SuccLemma
<1>2. Count(h, t, n) \in 0 .. n - 1 /\ Count(h, Succ(t, n), n) = Count(h, t, n) - 1
  BY FilledLemma
<1>3. PICK k \in 0 .. n - 1 : k = Succ(t, n)
  BY <1>1
<1>4. Count(h, k, n) \in 0 .. n - 1
  BY FilledLemma
<1>5. PICK e \in Nat : e = Count(h, k, n)
  BY <1>4
<1>6. Count(h, t, n) = e + 1
  BY <1>2, <1>3, <1>5
<1> QED BY <1>1, <1>3, <1>5, <1>6

(* The receiver's handlers and the calls that only read do not touch it.   *)
Untouched ==
    /\ UNCHANGED tx
    /\ timer'.count = timer.count /\ timer'.ocrA = timer.ocrA /\ timer'.flagA = timer.flagA

LEMMA UntouchedTime == ASSUME Untouched PROVE TimeLeft' = TimeLeft
BY DEF Untouched, TimeLeft, NextEdge, Until

LEMMA ReceiverTime == ASSUME TInv, Capture \/ CompareB PROVE Untouched
<1> DEFINE t == [timer EXCEPT !.flagC = FALSE, !.icr = 0,
                              !.edge = IF rx.bit = 1 THEN "falling" ELSE "rising"]
           t1 == [t EXCEPT !.ocrB = After(timer.icr, RxStopTicks),
                           !.onB = TRUE, !.flagB = FALSE]
           t2 == [t EXCEPT !.onB = FALSE, !.flagB = FALSE, !.ocrB = 0, !.edge = "falling"]
           t3 == [timer EXCEPT !.flagB = FALSE, !.onB = FALSE, !.ocrB = 0, !.edge = "falling"]
           Alike(u) == /\ DOMAIN u = DOMAIN timer
                       /\ u.count = timer.count /\ u.ocrA = timer.ocrA
                       /\ u.flagA = timer.flagA
<1>1. Shapes /\ UNCHANGED tx
  BY DEF TInv, IInv, Capture, CompareB
<1>2. PICK u \in {t, t1, t2, t3} : timer' = Served(u)
  BY Zenon DEF Capture, CompareB
<1>3. Alike(t) /\ Alike(t3)
  BY <1>1 DEF Shapes
<1> HIDE DEF t, t3
<1>4. Alike(t1) /\ Alike(t2)
  BY <1>1, <1>3 DEF Shapes
<1> HIDE DEF t1, t2
<1>5. Alike(u)
  BY <1>2, <1>3, <1>4
<1>6. timer'.count = u.count /\ timer'.ocrA = u.ocrA /\ timer'.flagA = u.flagA
  BY <1>1, <1>2, <1>5, ServedFields
<1> QED BY <1>1, <1>5, <1>6 DEF Untouched

LEMMA NeedMoves ==
    ASSUME NEW d \in Int, NEW e \in Int, NEW s \in Int, NEW n \in Nat
    PROVE  /\ Need(d, s, n) \in Int
           /\ e < d => Need(e, s, n) < Need(d, s, n)
<1>1. PICK t \in Int, q \in Int, T \in Int, L \in Int :
        t = Ticks(DataBits + 2) /\ q = Ticks(s - 1) /\ T = Turn /\ L = Latency
  <2>1. s - 1 \in Int
    OBVIOUS
  <2>2. Ticks(s - 1) \in Int
    BY <2>1, TicksType
  <2> QED BY <2>2, TurnLemma
<1>2. PICK x \in Int : x = T * n
  OBVIOUS
<1>3. Need(d, s, n) = d + t - q + L + 1 + x /\ Need(e, s, n) = e + t - q + L + 1 + x
  BY <1>1, <1>2 DEF Need
<1> QED BY <1>3

LEMMA TimeLeftType == ASSUME PortInv PROVE TimeLeft \in Int
<1>1. CASE tx.state = 0
  BY <1>1 DEF TimeLeft
<1>2. CASE tx.state # 0
  <2>1. PICK d \in Int : Due(d)
    BY DEF PortInv, Timing
  <2>2. TimeLeft = Need(d, tx.state, InRing) /\ tx.state \in Int /\ InRing \in Nat
    BY <1>2, <2>1, TimeLeftNow, FilledTx, StatesLemma DEF PortInv
  <2> QED BY <2>2, NeedMoves
<1> QED BY <1>1, <1>2

LEMMA ProgramTime == ASSUME Call \/ (Continue /\ ~WriteByte) PROVE Untouched
<1>1. CASE Call
  BY <1>1, CallFrame DEF Untouched
<1>2. CASE Continue /\ ~WriteByte
  BY <1>2 DEF Continue, WriteRoom, FlushDone, LoadTail, PeekOut, ReadOut, ReadTail,
              AvailableOut, FlushInput, Untouched
<1> QED BY <1>1, <1>2

(* The clock is never between two matches with nothing to wait for.        *)
LEMMA StrideForward == ASSUME TInv, Timing, tx.state # 0 PROVE Stride >= 1
<1>1. PICK d \in Int, g \in Int, b \in [1 .. DataBits -> {0, 1}] : Due(d) /\ Phase(d, g, b)
  BY DEF Timing
<1>2. CASE Pending(timer)
  BY <1>2 DEF Stride
<1>3. CASE ~Pending(timer)
  <2> DEFINE S == {Until(timer.ocrA)} \cup IF timer.onB THEN {Until(timer.ocrB)} ELSE {}
  <2>1. Stride = Min(S)
    BY <1>3 DEF Stride
  <2>2. timer.count \in 0 .. Wrap - 1 /\ TimerOK
    BY DEF TInv, TimerOK
  <2>3. Until(timer.ocrA) \in Nat /\ Until(timer.ocrA) >= 1
    <3>1. /\ timer.onA /\ timer.ocrA = After(timer.count, d) /\ d <= Ticks(DataBits + 2)
          /\ timer.flagA <=> d <= 0
      BY <1>1 DEF Due
    <3>2. d \in 1 .. Wrap - 1
      BY <1>3, <3>1, FrameLemma DEF Pending, WantA
    <3>3. Until(timer.ocrA) = d
      BY <2>2, <3>1, <3>2, UntilLemma
    <3> QED BY <3>2, <3>3
  <2>4. timer.onB => Until(timer.ocrB) \in Nat /\ Until(timer.ocrB) >= 1
    <3> SUFFICES ASSUME timer.onB PROVE Until(timer.ocrB) \in Nat /\ Until(timer.ocrB) >= 1
      OBVIOUS
    <3>1. Receiving(g, b) /\ g <= 0
      BY <1>1 DEF Phase, Done, Starting, Deaf, Same, Resting
    <3>2. PICK y \in Int : y = g + RxStopTicks
      BY FrameLemma
    <3>3. timer.ocrB = After(timer.count, y) /\ (timer.flagB <=> y <= 0)
      BY <3>1, <3>2 DEF Receiving
    <3>4. y \in 1 .. Wrap - 1
      BY <1>3, <3>1, <3>2, <3>3, FrameLemma DEF Pending, WantB
    <3>5. Until(timer.ocrB) = y
      BY <2>2, <3>3, <3>4, UntilLemma
    <3> QED BY <3>2, <3>4, <3>5
  <2>5. S \in SUBSET Nat /\ S # {} /\ \A x \in S : x >= 1
    BY <2>3, <2>4
  <2> HIDE DEF S
  <2> QED BY <2>1, <2>5, MinLemma
<1> QED BY <1>2, <1>3

(* n ticks later the next match is n ticks nearer. *)
LEMMA TickTime ==
    ASSUME PortInv, PortInv', Tick
    PROVE  TimeLeft' <= TimeLeft /\ (tx.state # 0 => TimeLeft' < TimeLeft)
<1>1. UNCHANGED tx /\ TInv /\ TInv' /\ InRing \in Nat
  BY FilledTx DEF Tick, PortInv
<1>2. CASE tx.state = 0
  <2>1. TimeLeft = 0 /\ TimeLeft' = 0
    BY <1>1, <1>2 DEF TimeLeft
  <2> QED BY <1>2, <2>1
<1>3. CASE tx.state # 0
  <2>1. PICK n \in Nat : n = Stride /\ Moves(n) /\ Flags(n) /\ Nearest(n)
    BY <1>1, TickMoves
  <2>2. PICK d \in Int : Due(d)
    BY DEF PortInv, Timing
  <2>3. PICK e \in Int : e = d - n
    OBVIOUS
  <2>4. Due(e)'
    BY <1>1, <1>3, <2>1, <2>2, <2>3, TickDue
  <2>5. TimeLeft = Need(d, tx.state, InRing) /\ tx.state \in 1 .. TailState
    BY <1>1, <1>3, <2>2, TimeLeftNow
  <2>6. TimeLeft' = Need(e, tx.state, InRing)
    <3>1. /\ timer'.ocrA = After(timer'.count, e) /\ e <= Ticks(DataBits + 2)
          /\ -e <= timer'.late /\ (timer'.flagA <=> e <= 0)
      BY <1>1, <1>3, <2>4 DEF Due
    <3>2. timer'.count \in 0 .. Wrap - 1 /\ timer'.late \in 0 .. Latency
      BY <1>1 DEF TInv, TimerOK
    <3>3. e < Wrap /\ -e < Wrap
      BY <3>1, <3>2, FrameLemma
    <3>4. tx'.state \in Int /\ tx'.state # 0 /\ tx'.state = tx.state
      BY <1>1, <2>5
    <3>5. InRing' = InRing
      BY <1>1 DEF InRing
    <3> QED BY <1>1, <3>1, <3>2, <3>3, <3>4, <3>5, TimeLeftThen
  <2>7. n >= 1
    BY <1>1, <1>3, <2>1, StrideForward DEF PortInv
  <2>8. e < d /\ tx.state \in Int
    BY <2>3, <2>5, <2>7
  <2>9. /\ Need(d, tx.state, InRing) \in Int /\ Need(e, tx.state, InRing) \in Int
        /\ Need(e, tx.state, InRing) < Need(d, tx.state, InRing)
    BY <1>1, <2>8, NeedMoves
  <2> QED BY <2>5, <2>6, <2>9
<1> QED BY <1>2, <1>3

(* A new edge, or the end of the stop bit, is part of the frame being sent;*)
(* the next byte takes its turn from the ring, and what is lost before it  *)
(* is at most the wait for this handler.                                   *)
LEMMA ServedTime == ASSUME PortInv, PortInv', CompareA PROVE TimeLeft' <= TimeLeft
<1>1. TInv /\ TInv' /\ Timing /\ TxOK /\ Rearmed /\ (EdgeSet \/ NextSet \/ TailSet)
  BY CompareABranches DEF PortInv, TInv
<1>2. PICK d \in Int, g \in Int, b \in [1 .. DataBits -> {0, 1}] : Due(d) /\ Phase(d, g, b)
  BY <1>1 DEF Timing
<1>3. /\ d <= 0 /\ -d <= Latency /\ tx.state \in 1 .. TailState
      /\ timer.ocrA = After(timer.count, d)
  BY <1>1, <1>2, ServingLemma
<1>4. PICK s \in Int, n \in Nat :
        /\ s = tx.state /\ n = InRing /\ n <= TxSize - 1 /\ TimeLeft = Need(d, s, n)
        /\ s \in 1 .. TailState /\ s # 0
  <2>1. InRing \in Nat /\ InRing <= TxSize - 1
    BY <1>1, FilledTx
  <2>2. tx.state \in Int /\ tx.state # 0
    BY <1>3, StatesLemma
  <2>3. TimeLeft = Need(d, tx.state, InRing)
    BY <1>1, <1>2, <2>2, TimeLeftNow
  <2> QED BY <1>3, <2>1, <2>2, <2>3
<1>5. timer'.count = timer.count /\ timer'.count \in 0 .. Wrap - 1 /\ ~timer'.flagA
      /\ timer.count \in Int
  BY <1>1, CountLemma DEF Rearmed, TInv, TimerOK
<1>6. PICK t \in Nat, k \in Nat, L \in Nat :
        /\ t = Ticks(DataBits + 2) /\ k = Lead /\ L = Latency /\ k >= 1
        /\ Turn \in Nat /\ Turn = t + k + L /\ t < Wrap /\ L < Wrap /\ k <= t
  <2>1. 1 \in Int /\ 1 <= DataBits + 2 /\ DataBits + 2 \in Int
    OBVIOUS
  <2>2. BitTicks <= Ticks(DataBits + 2)
    BY <2>1, TicksOrder
  <2>3. Lead <= Ticks(DataBits + 2)
    BY <2>2, TurnLemma, LatencyAssumption, RateAssumption
  <2>4. Latency < Wrap
    BY FrameLemma
  <2> QED BY <2>3, <2>4, TurnLemma, FrameLemma
<1>7. ASSUME NEW e \in Int, e > 0, e <= t, timer'.ocrA = After(timer'.count, e),
             NEW z \in Int, z # 0, tx'.state = z, NEW m \in Nat, InRing' = m
      PROVE  TimeLeft' = Need(e, z, m)
  <2>1. e < Wrap /\ -e < Wrap /\ (timer'.flagA <=> e <= 0)
    <3>1. PICK w \in Nat : w = Wrap /\ t < w
      BY <1>6, WrapLemma
    <3>2. e > 0 /\ e <= t
      BY <1>7
    <3>3. e < w /\ -e < w /\ ~(e <= 0)
      BY <3>1, <3>2
    <3>4. ~timer'.flagA
      BY <1>5
    <3> QED BY <3>1, <3>3, <3>4
  <2>2. tx'.state \in Int /\ tx'.state # 0 /\ InRing' \in Nat
    BY <1>7
  <2> QED BY <1>5, <1>7, <2>1, <2>2, TimeLeftThen
<1>8. CASE EdgeSet
  <2>1. PICK i \in Changes :
          /\ tx'.state = i + 1 /\ tx'.head = tx.head /\ tx'.tail = tx.tail
          /\ timer'.ocrA = After(timer.ocrA, Ticks(i + 1 - tx.state))
    BY <1>8 DEF EdgeSet
  <2>2. i \in s .. StopState /\ i \in Int
    BY <1>4, StatesLemma DEF Changes
  <2>3. InRing' = n
    BY <1>4, <2>1 DEF InRing
  <2>4. PICK q \in Int, w \in Int, j \in Int :
          q = Ticks(s - 1) /\ w = Ticks(i) /\ j = Ticks(i + 1 - s)
    <3>1. s - 1 \in Int /\ i + 1 - s \in Int
      BY <2>2
    <3>2. Ticks(s - 1) \in Int /\ Ticks(i) \in Int /\ Ticks(i + 1 - s) \in Int
      BY <2>2, <3>1, TicksType
    <3> QED BY <3>2
  <2>5. w = q + j
    <3>1. PICK x \in Int, y \in Int : x = s - 1 /\ y = i + 1 - s /\ x + y = i
      BY <2>2
    <3>2. Ticks(x + y) = Ticks(x) + Ticks(y)
      BY TicksSum
    <3> QED BY <2>4, <3>1, <3>2
  <2>6. BitTicks <= j /\ j <= t
    <3>1. PICK y \in Int, f \in Int : y = i + 1 - s /\ f = DataBits + 2 /\ 1 <= y /\ y <= f
      <4>1. 1 <= s /\ s <= i /\ i <= DataBits + 1
        BY <1>4, <2>2, StatesLemma
      <4>2. 1 <= i + 1 - s /\ i + 1 - s <= DataBits + 2
        BY <2>2, <4>1
      <4> QED BY <2>2, <4>2
    <3>2. 1 \in Int /\ Ticks(1) <= Ticks(y) /\ Ticks(y) <= Ticks(f) /\ Ticks(1) = BitTicks
      BY <3>1, TicksOrder
    <3> QED BY <1>6, <2>4, <3>1, <3>2
  <2>7. PICK e \in Int : e = d + j
    OBVIOUS
  <2>8. e > 0 /\ e <= t
    BY <1>3, <2>6, <2>7, StopLemma
  <2>9. timer'.ocrA = After(timer'.count, e)
    <3>1. PICK c \in Int : c = timer.count
      BY <1>5
    <3>2. After(After(c, d), j) = After(c, d + j)
      BY MovedSum
    <3> QED BY <1>3, <1>4, <1>5, <2>1, <2>4, <2>7, <3>1, <3>2
  <2>10. PICK z \in Int : z = i + 1 /\ z # 0 /\ z - 1 = i
    BY <1>4, <2>2, StatesLemma
  <2>11. TimeLeft' = Need(e, z, n)
    BY <1>7, <2>1, <2>3, <2>8, <2>9, <2>10
  <2>12. Need(e, z, n) = Need(d, s, n)
    <3>1. PICK x \in Int : x = Turn * n
      BY <1>6
    <3>2. Need(d, s, n) = d + t - q + L + 1 + x /\ Need(e, z, n) = e + t - w + L + 1 + x
      BY <1>6, <2>4, <2>10, <3>1 DEF Need
    <3> QED BY <2>5, <2>7, <3>2
  <2>13. Need(d, s, n) \in Int
    BY NeedMoves
  <2> QED BY <1>4, <2>11, <2>12, <2>13
<1>9. CASE NextSet
  <2>1. PICK m \in Nat : n = m + 1 /\ InRing' = m
    <3>1. PICK m \in Nat : Count(tx.head, tx.tail, TxSize) = m + 1
                           /\ Count(tx.head, Succ(tx.tail, TxSize), TxSize) = m
      <4>1. /\ tx.head # tx.tail /\ TxSize \in Nat /\ TxSize > 1
            /\ tx.head \in 0 .. TxSize - 1 /\ tx.tail \in 0 .. TxSize - 1
        BY <1>1, <1>9, TxSizes DEF NextSet, Queued, TxOK
      <4> QED BY <4>1, LeaveCount
    <3> QED BY <1>4, <1>9, <3>1 DEF InRing, NextSet
  <2>2. tx'.state = 1
    BY <1>9 DEF NextSet
  <2>3. PICK q \in Int : q = Ticks(s - 1)
    <3>1. s - 1 \in Int
      OBVIOUS
    <3> QED BY <3>1, TicksType
  <2>4. PICK e \in Int :
          /\ e > 0 /\ e <= t /\ timer'.ocrA = After(timer'.count, e)
          /\ e = d + t - q \/ (e = k /\ q = t)
    <3>1. CASE tx.state < TailState
      <4>1. tx.state \in 1 .. SentState
        BY <1>3, <3>1, StatesLemma
      <4>2. timer'.ocrA = After(timer.ocrA, Ticks(SentState + 1 - tx.state))
        BY <1>9, <3>1 DEF NextSet
      <4>3. PICK e \in Int :
              /\ e > 0 /\ e <= Ticks(DataBits + 2)
              /\ timer'.ocrA = After(timer'.count, e)
              /\ d - Ticks(tx.state - 1) = e - Ticks(DataBits + 2)
        BY <1>1, <1>3, <4>1, <4>2, FrameEndLemma
      <4>4. e > 0 /\ e <= t /\ d - q = e - t
        BY <1>4, <1>6, <2>3, <4>3
      <4>5. e = d + t - q
        BY <4>4
      <4> QED BY <4>3, <4>4, <4>5
    <3>2. CASE ~(tx.state < TailState)
      <4>1. s = DataBits + 3
        BY <1>4, <3>2, StatesLemma
      <4>2. q = t
        <5>1. s - 1 = DataBits + 2
          BY <4>1
        <5> QED BY <1>6, <2>3, <5>1
      <4>3. timer'.ocrA = After(timer'.count, k)
        BY <1>5, <1>6, <1>9, <3>2 DEF NextSet
      <4> QED BY <1>6, <4>2, <4>3
    <3> QED BY <3>1, <3>2
  <2>5. TimeLeft' = Need(e, 1, m)
    <3>1. 1 \in Int /\ 1 # 0
      OBVIOUS
    <3> QED BY <1>7, <2>1, <2>2, <2>4, <3>1
  <2>6. Need(e, 1, m) <= Need(d, s, n)
    <3>1. PICK x \in Int, y \in Int : x = Turn * m /\ y = Turn * n
      <4>1. PICK T \in Nat : T = Turn
        BY <1>6
      <4>2. T * m \in Int /\ T * n \in Int
        OBVIOUS
      <4> QED BY <4>1, <4>2
    <3>2. y = x + t + k + L
      <4>1. PICK T \in Nat : T = Turn /\ T = t + k + L
        BY <1>6
      <4>2. T * (m + 1) = T * m + T
        OBVIOUS
      <4> QED BY <2>1, <3>1, <4>1, <4>2
    <3>3. Need(d, s, n) = d + t - q + L + 1 + y
      BY <1>6, <2>3, <3>1 DEF Need
    <3>4. Need(e, 1, m) = e + t - 0 + L + 1 + x
      <4>1. 1 - 1 = 0 /\ Ticks(0) = 0
        BY TicksLemma
      <4> QED BY <1>6, <3>1, <4>1 DEF Need
    <3>5. -d <= L
      BY <1>3, <1>6
    <3> QED BY <2>4, <3>2, <3>3, <3>4, <3>5
  <2> QED BY <1>4, <2>5, <2>6
<1>10. CASE TailSet
  <2>1. InRing' = n
    BY <1>4, <1>10 DEF TailSet, InRing
  <2>2. PICK q \in Int : q = Ticks(s - 1)
    <3>1. s - 1 \in Int
      OBVIOUS
    <3> QED BY <3>1, TicksType
  <2>3. CASE tx'.state = 0
    <3>1. TimeLeft' = 0
      BY <2>3 DEF TimeLeft
    <3>2. Need(d, s, n) \in 1 .. Turn * (TxSize + 1)
      <4>1. d <= Ticks(DataBits + 2)
        BY <1>3, <1>6
      <4> QED BY <1>3, <1>4, <4>1, NeedBounds
    <3> QED BY <1>4, <3>1, <3>2
  <2>4. CASE tx'.state # 0
    <3>1. /\ tx.state < TailState /\ tx'.state = TailState
          /\ timer'.ocrA = After(timer.ocrA, Ticks(SentState + 1 - tx.state))
      BY <1>10, <2>4 DEF TailSet
    <3>2. tx.state \in 1 .. SentState
      BY <1>3, <3>1, StatesLemma
    <3>3. PICK e \in Int :
            /\ e > 0 /\ e <= Ticks(DataBits + 2)
            /\ timer'.ocrA = After(timer'.count, e)
            /\ d - Ticks(tx.state - 1) = e - Ticks(DataBits + 2)
      BY <1>1, <1>3, <3>1, <3>2, FrameEndLemma
    <3>4. PICK z \in Int : z = TailState /\ z # 0 /\ z - 1 = DataBits + 2
      BY StatesLemma
    <3>5. e <= t /\ d - q = e - t
      BY <1>4, <1>6, <2>2, <3>3
    <3>6. TimeLeft' = Need(e, z, n)
      BY <1>7, <2>1, <3>1, <3>3, <3>4, <3>5
    <3>7. Need(e, z, n) = Need(d, s, n)
      <4>1. PICK x \in Int : x = Turn * n
        BY <1>6
      <4>2. Need(d, s, n) = d + t - q + L + 1 + x /\ Need(e, z, n) = e + t - t + L + 1 + x
        BY <1>6, <2>2, <3>4, <4>1 DEF Need
      <4> QED BY <3>5, <4>2
    <3>8. Need(d, s, n) \in Int
      BY NeedMoves
    <3> QED BY <1>4, <3>6, <3>7, <3>8
  <2> QED BY <2>3, <2>4
<1> QED BY <1>1, <1>8, <1>9, <1>10

(* The transmitter stops in time, whatever the bytes and however late the  *)
(* interrupts: no step but a byte written adds to the time it still needs, *)
(* and every tick takes away from it.                                      *)
THEOREM RingDrains == Spec => Drains
<1> DEFINE Step == /\ ~WriteByte => TimeLeft' <= TimeLeft
                   /\ Tick /\ tx.state # 0 => TimeLeft' < TimeLeft
<1>1. PortInv /\ PortInv' /\ [Next]_vars => [Step]_vars
  <2> SUFFICES ASSUME PortInv, PortInv', Next PROVE Step
    OBVIOUS
  <2>1. CASE Tick
    BY <2>1, TickTime
  <2>2. CASE ~Tick
    <3>1. SUFFICES ASSUME ~WriteByte PROVE TimeLeft' <= TimeLeft
      BY <2>2
    <3>2. CASE CompareA
      BY <3>2, ServedTime
    <3>3. CASE ~CompareA
      <4>1. Untouched
        BY <2>2, <3>1, <3>3, ReceiverTime, ProgramTime DEF Next, Isr, PortInv
      <4>2. TimeLeft \in Int
        BY TimeLeftType
      <4> QED BY <4>1, <4>2, UntouchedTime
    <3> QED BY <3>2, <3>3
  <2> QED BY <2>1, <2>2
<1>2. [Step]_vars => [/\ ~WriteByte => TimeLeft' <= TimeLeft
                      /\ Tick /\ tx.state # 0 => TimeLeft' < TimeLeft]_vars
  OBVIOUS
<1> HIDE DEF Step
<1> QED BY InitPortInv, NextPortInv, <1>1, <1>2, PTL DEF Spec, Drains

-----------------------------------------------------------------------------
(* What the ring holds, as a sequence.                                     *)
Spans(r, n, t, c, S) ==
    /\ r.tail = t /\ c \in Nat /\ c = Count(r.head, t, n)
    /\ \A i \in 1 .. c : r.buffer[(t + i) % n] \in S

Reads(s, r, n, t, c, S) ==
    /\ s \in Seq(S) /\ Len(s) = c
    /\ \A i \in 1 .. c : s[i] = r.buffer[(t + i) % n]

LEMMA ContentsSeq ==
    ASSUME NEW r, NEW n, NEW t, NEW c, NEW S, Spans(r, n, t, c, S)
    PROVE  Reads(Contents(r, n), r, n, t, c, S)
<1> DEFINE s == Contents(r, n)
<1>1. s = [i \in 1 .. c |-> r.buffer[(t + i) % n]] /\ c \in Nat
  BY DEF Contents, Spans
<1> HIDE DEF s
<1>2. s \in [1 .. c -> S]
  BY <1>1 DEF Spans
<1>3. s \in Seq(S) /\ Len(s) = c
  BY <1>1, <1>2
<1> QED BY <1>1, <1>3 DEF s, Reads

LEMMA JoinCount ==
    ASSUME NEW n \in Nat, n > 1, NEW h \in 0 .. n - 1, NEW t \in 0 .. n - 1, Succ(h, n) # t
    PROVE  /\ Succ(h, n) \in 0 .. n - 1
           /\ \E c \in Nat : /\ c = Count(h, t, n) /\ Count(Succ(h, n), t, n) = c + 1
                            /\ c + 1 <= n - 1
<1>1. Succ(h, n) \in 0 .. n - 1
  BY SuccLemma
<1>2. Count(h, t, n) \in 0 .. n - 1 /\ Count(Succ(h, n), t, n) = Count(h, t, n) + 1
  BY FilledLemma
<1>3. PICK k \in 0 .. n - 1 : k = Succ(h, n)
  BY <1>1
<1>4. Count(k, t, n) \in 0 .. n - 1
  BY FilledLemma
<1>5. Count(h, t, n) \in Nat /\ Count(h, t, n) + 1 <= n - 1
  BY <1>2, <1>3, <1>4
<1> QED BY <1>1, <1>2, <1>5

(* A ring q that has one byte more than r, and one that has one less.      *)
Longer(n, r, q, b, h, t) ==
    /\ n \in Nat /\ n > 1 /\ h \in 0 .. n - 1 /\ t \in 0 .. n - 1
    /\ r.head = h /\ r.tail = t /\ DOMAIN r.buffer = 0 .. n - 1
    /\ Succ(h, n) # t /\ q.head = Succ(h, n) /\ q.tail = t
    /\ q.buffer = [r.buffer EXCEPT ![Succ(h, n)] = b]

LEMMA ContentsJoin ==
    ASSUME NEW n, NEW r, NEW q, NEW b, NEW h, NEW t, Longer(n, r, q, b, h, t)
    PROVE  Len(Contents(r, n)) < n - 1 /\ Contents(q, n) = Append(Contents(r, n), b)
<1> SUFFICES ASSUME n \in Nat, n > 1, h \in 0 .. n - 1, t \in 0 .. n - 1,
                    r.head = h, r.tail = t, DOMAIN r.buffer = 0 .. n - 1,
                    Succ(h, n) # t, q.head = Succ(h, n), q.tail = t,
                    q.buffer = [r.buffer EXCEPT ![Succ(h, n)] = b]
             PROVE  Len(Contents(r, n)) < n - 1 /\ Contents(q, n) = Append(Contents(r, n), b)
  BY DEF Longer
<1>1. PICK k \in 0 .. n - 1 : k = Succ(h, n)
  BY JoinCount
<1>2. PICK c \in Nat : c = Count(h, t, n) /\ Count(k, t, n) = c + 1 /\ c + 1 <= n - 1
  BY <1>1, JoinCount
<1>3. (t + (c + 1)) % n = k
  BY <1>1, <1>2, HeadLemma
<1>4. ASSUME NEW i \in 1 .. c PROVE (t + i) % n # k /\ (t + i) % n \in 0 .. n - 1
  <2>1. PICK x \in Int, y \in Int, z \in Int :
          x = i /\ y = c + 1 /\ x - y < n /\ y - x < n /\ x # y /\ z = t + i
    BY <1>2
  <2>2. t \in Int
    OBVIOUS
  <2>3. (t + x) % n # (t + y) % n
    BY <2>1, <2>2, RoundApart
  <2>4. z % n \in 0 .. n - 1
    OBVIOUS
  <2> QED BY <1>3, <2>1, <2>3, <2>4
<1> DEFINE S == {r.buffer[i] : i \in 0 .. n - 1} \cup {b}
<1>5. \A i \in 1 .. c : r.buffer[(t + i) % n] \in S /\ q.buffer[(t + i) % n] = r.buffer[(t + i) % n]
  BY <1>1, <1>4
<1>6. q.buffer[(t + (c + 1)) % n] = b /\ b \in S
  BY <1>1, <1>3
<1>7. \A i \in 1 .. c + 1 : q.buffer[(t + i) % n] \in S
  <2> SUFFICES ASSUME NEW i \in 1 .. c + 1 PROVE q.buffer[(t + i) % n] \in S
    OBVIOUS
  <2>1. i \in 1 .. c \/ i = c + 1
    BY <1>2
  <2> QED BY <1>5, <1>6, <2>1
<1> HIDE DEF S
<1>8. /\ Contents(r, n) \in Seq(S) /\ Len(Contents(r, n)) = c
      /\ \A i \in 1 .. c : Contents(r, n)[i] = r.buffer[(t + i) % n]
  <2>1. Spans(r, n, t, c, S)
    BY <1>2, <1>5 DEF Spans
  <2>2. Reads(Contents(r, n), r, n, t, c, S)
    BY <2>1, ContentsSeq
  <2> QED BY <2>2 DEF Reads
<1>9. /\ Contents(q, n) \in Seq(S) /\ Len(Contents(q, n)) = c + 1
      /\ \A i \in 1 .. c + 1 : Contents(q, n)[i] = q.buffer[(t + i) % n]
  <2>1. PICK m \in Nat : m = c + 1
    OBVIOUS
  <2>2. Spans(q, n, t, m, S)
    BY <1>1, <1>2, <1>7, <2>1 DEF Spans
  <2>3. Reads(Contents(q, n), q, n, t, m, S)
    BY <2>2, ContentsSeq
  <2> QED BY <2>1, <2>3 DEF Reads
<1> DEFINE s == Contents(r, n)
           u == Contents(q, n)
<1>10. /\ s \in Seq(S) /\ Len(s) = c /\ u \in Seq(S) /\ Len(u) = c + 1
       /\ \A i \in 1 .. c : u[i] = s[i]
       /\ u[c + 1] = b
  <2>1. \A i \in 1 .. c : i \in 1 .. c + 1
    BY <1>2
  <2>2. c + 1 \in 1 .. c + 1
    BY <1>2
  <2>3. s \in Seq(S) /\ Len(s) = c /\ u \in Seq(S) /\ Len(u) = c + 1
    BY <1>8, <1>9
  <2>4. \A i \in 1 .. c : u[i] = s[i]
    BY <1>5, <1>8, <1>9, <2>1
  <2>5. u[c + 1] = b
    BY <1>6, <1>9, <2>2
  <2> QED BY <2>3, <2>4, <2>5
<1> HIDE DEF s, u
<1>11. /\ Append(s, b) \in Seq(S) /\ Len(Append(s, b)) = c + 1
       /\ \A i \in 1 .. c : Append(s, b)[i] = s[i]
       /\ Append(s, b)[c + 1] = b
  BY <1>6, <1>10
<1>12. u = Append(s, b)
  <2>1. \A i \in 1 .. c + 1 : u[i] = Append(s, b)[i]
    <3> SUFFICES ASSUME NEW i \in 1 .. c + 1 PROVE u[i] = Append(s, b)[i]
      OBVIOUS
    <3>1. i \in 1 .. c \/ i = c + 1
      BY <1>2
    <3> QED BY <1>10, <1>11, <3>1
  <2> QED BY <1>10, <1>11, <2>1, SeqEqual
<1>13. Len(s) < n - 1
  <2>1. c < n - 1
    BY <1>2
  <2> QED BY <1>10, <2>1
<1> QED BY <1>12, <1>13 DEF s, u

Shorter(n, r, q, h, t, k) ==
    /\ n \in Nat /\ n > 1 /\ h \in 0 .. n - 1 /\ t \in 0 .. n - 1 /\ h # t
    /\ r.head = h /\ r.tail = t /\ k = Succ(t, n) /\ q.head = h /\ q.tail = k
    /\ \A i \in 1 .. Count(h, k, n) : q.buffer[(k + i) % n] = r.buffer[(k + i) % n]

LEMMA ContentsLeave ==
    ASSUME NEW n, NEW r, NEW q, NEW h, NEW t, NEW k, Shorter(n, r, q, h, t, k)
    PROVE  /\ Contents(r, n) # <<>> /\ Head(Contents(r, n)) = r.buffer[k]
           /\ Contents(q, n) = Tail(Contents(r, n))
<1> SUFFICES ASSUME n \in Nat, n > 1, h \in 0 .. n - 1, t \in 0 .. n - 1, h # t,
                    r.head = h, r.tail = t, k = Succ(t, n), q.head = h, q.tail = k,
                    \A i \in 1 .. Count(h, k, n) : q.buffer[(k + i) % n] = r.buffer[(k + i) % n]
             PROVE  /\ Contents(r, n) # <<>> /\ Head(Contents(r, n)) = r.buffer[k]
                    /\ Contents(q, n) = Tail(Contents(r, n))
  BY DEF Shorter
<1>1. k \in 0 .. n - 1
  BY LeaveCount
<1>2. PICK c \in Nat, e \in Nat : c = Count(h, t, n) /\ e = Count(h, k, n) /\ c = e + 1
  BY LeaveCount
<1>3. k = (t + 1) % n /\ \A i \in Nat : (k + i) % n = (t + (1 + i)) % n
  BY <1>1, RoundLemma
<1> DEFINE S == {r.buffer[(t + i) % n] : i \in 1 .. c}
<1>4. \A i \in 1 .. c : r.buffer[(t + i) % n] \in S
  OBVIOUS
<1>5. ASSUME NEW i \in 1 .. e
      PROVE  /\ q.buffer[(k + i) % n] = r.buffer[(t + (i + 1)) % n] /\ i + 1 \in 1 .. c
             /\ q.buffer[(k + i) % n] \in S
  <2>1. PICK j \in 1 .. c : j = i + 1 /\ j = 1 + i
    BY <1>2
  <2>2. i \in Nat /\ i \in 1 .. Count(h, k, n)
    BY <1>1, <1>2
  <2>3. q.buffer[(k + i) % n] = r.buffer[(k + i) % n]
    BY <1>1, <2>2
  <2>4. q.buffer[(k + i) % n] = r.buffer[(t + j) % n]
    BY <1>3, <2>1, <2>2, <2>3
  <2> QED BY <2>1, <2>4
<1> HIDE DEF S
<1>6. /\ Contents(r, n) \in Seq(S) /\ Len(Contents(r, n)) = c
      /\ \A i \in 1 .. c : Contents(r, n)[i] = r.buffer[(t + i) % n]
  <2>1. Spans(r, n, t, c, S)
    BY <1>2, <1>4 DEF Spans
  <2>2. Reads(Contents(r, n), r, n, t, c, S)
    BY <2>1, ContentsSeq
  <2> QED BY <2>2 DEF Reads
<1>7. /\ Contents(q, n) \in Seq(S) /\ Len(Contents(q, n)) = e
      /\ \A i \in 1 .. e : Contents(q, n)[i] = q.buffer[(k + i) % n]
  <2>1. Spans(q, n, k, e, S)
    BY <1>2, <1>5 DEF Spans
  <2>2. Reads(Contents(q, n), q, n, k, e, S)
    BY <2>1, ContentsSeq
  <2> QED BY <2>2 DEF Reads
<1> DEFINE s == Contents(r, n)
           u == Contents(q, n)
<1>8. /\ s \in Seq(S) /\ Len(s) = c /\ u \in Seq(S) /\ Len(u) = e
      /\ \A i \in 1 .. e : u[i] = s[i + 1]
      /\ s[1] = r.buffer[k]
  <2>1. 1 \in 1 .. c
    BY <1>2
  <2> QED BY <1>3, <1>5, <1>6, <1>7, <2>1
<1> HIDE DEF s, u
<1>9. s # <<>>
  BY <1>2, <1>8
<1>10. Head(s) = s[1] /\ Tail(s) \in Seq(S) /\ Len(Tail(s)) = c - 1
       /\ \A i \in 1 .. Len(Tail(s)) : Tail(s)[i] = s[i + 1]
  BY <1>8, <1>9, HeadTailProperties
<1>11. Len(Tail(s)) = e
  BY <1>2, <1>10
<1>12. u = Tail(s)
  BY <1>8, <1>10, <1>11, SeqEqual
<1> QED BY <1>1, <1>8, <1>9, <1>10, <1>12 DEF s, u

LEMMA ContentsLen ==
    ASSUME NEW n \in Nat, n > 1, NEW r, r.head \in 0 .. n - 1, r.tail \in 0 .. n - 1
    PROVE  /\ Len(Contents(r, n)) = Count(r.head, r.tail, n)
           /\ r.head = r.tail => Contents(r, n) = <<>>
           /\ Succ(r.head, n) = r.tail => Len(Contents(r, n)) = n - 1
<1>1. PICK h \in 0 .. n - 1, t \in 0 .. n - 1 : h = r.head /\ t = r.tail
  OBVIOUS
<1>2. /\ Count(h, t, n) \in 0 .. n - 1
      /\ Count(h, t, n) = 0 <=> h = t
      /\ Succ(h, n) = t => Count(h, t, n) = n - 1
  BY FilledLemma
<1>3. PICK c \in Nat : c = Count(h, t, n)
  BY <1>2
<1> DEFINE S == {r.buffer[(t + i) % n] : i \in 1 .. c}
<1>4. \A i \in 1 .. c : r.buffer[(t + i) % n] \in S
  OBVIOUS
<1> HIDE DEF S
<1>5. Spans(r, n, t, c, S)
  BY <1>1, <1>3, <1>4 DEF Spans
<1>6. Reads(Contents(r, n), r, n, t, c, S)
  BY <1>5, ContentsSeq
<1>7. Contents(r, n) \in Seq(S) /\ Len(Contents(r, n)) = c
  BY <1>6 DEF Reads
<1>8. c = 0 => Contents(r, n) = <<>>
  BY <1>7
<1> QED BY <1>1, <1>2, <1>3, <1>7, <1>8

-----------------------------------------------------------------------------
(* The refinement mapping.                                                 *)
Inbox == Contents(rx, RxSize)

Ans(m, tail, a) ==
    CASE m.at \in {"read", "peek"} /\ m.head = tail -> <<-1>>
      [] m.at = "available" -> <<Count(m.head, tail, RxSize)>>
      [] OTHER -> a

Answer == Ans(main, rx.tail, answer)

LEMMA AnsLemma ==
    ASSUME NEW m, NEW tail, NEW a
    PROVE  /\ m.at \in {"read", "peek"} /\ m.head = tail => Ans(m, tail, a) = <<-1>>
           /\ m.at = "available" => Ans(m, tail, a) = <<Count(m.head, tail, RxSize)>>
           /\ m.at # "available" /\ ~(m.at \in {"read", "peek"} /\ m.head = tail)
                 => Ans(m, tail, a) = a
BY DEF Ans

PipeStep == [Pipe!Next]_(Pipe!vars)

LEMMA PipeSame == ASSUME UNCHANGED <<flying, Inbox, Answer>> PROVE PipeStep
BY DEF PipeStep, Pipe!vars, Inbox, Answer, Ans

LEMMA PipeCall == ASSUME UNCHANGED <<flying, Inbox>>, Answer' = <<>> PROVE PipeStep
BY DEF PipeStep, Pipe!Next, Pipe!Call, Inbox, Answer, Ans

LEMMA PipeNothing ==
    ASSUME UNCHANGED <<flying, Inbox>>, Inbox = <<>>, Answer' = <<-1>> PROVE PipeStep
BY DEF PipeStep, Pipe!Next, Pipe!FindNothing, Inbox, Answer, Ans

LEMMA PipeAvailable ==
    ASSUME UNCHANGED <<flying, Inbox>>, Answer' = <<Len(Inbox)>> PROVE PipeStep
BY DEF PipeStep, Pipe!Next, Pipe!Available, Inbox, Answer, Ans

LEMMA PipeWrite ==
    ASSUME NEW b \in Bytes, UNCHANGED <<Inbox, Answer>>, flying' = Append(flying, b) PROVE PipeStep
BY DEF PipeStep, Pipe!Next, Pipe!Write, Inbox, Answer, Ans

LEMMA PipeArrive ==
    ASSUME UNCHANGED Answer, flying # <<>>, Len(Inbox) < RxSize - 1,
           Inbox' = Append(Inbox, Head(flying)), flying' = Tail(flying)
    PROVE  PipeStep
BY DEF PipeStep, Pipe!Next, Pipe!Arrive, Inbox, Answer, Ans

LEMMA PipeLose ==
    ASSUME UNCHANGED <<Inbox, Answer>>, flying # <<>>, Len(Inbox) = RxSize - 1,
           flying' = Tail(flying)
    PROVE  PipeStep
BY DEF PipeStep, Pipe!Next, Pipe!Lose, Inbox, Answer, Ans

LEMMA PipePeek ==
    ASSUME UNCHANGED <<flying, Inbox>>, Inbox # <<>>, Answer' = Head(Inbox) PROVE PipeStep
BY DEF PipeStep, Pipe!Next, Pipe!Peek, Inbox, Answer, Ans

LEMMA PipeRead ==
    ASSUME UNCHANGED flying, Inbox # <<>>, Answer' = Head(Inbox), Inbox' = Tail(Inbox)
    PROVE  PipeStep
BY DEF PipeStep, Pipe!Next, Pipe!Read, Inbox, Answer, Ans

LEMMA PipeFlush ==
    ASSUME UNCHANGED <<flying, Answer>>, Inbox' = <<>> PROVE PipeStep
BY DEF PipeStep, Pipe!Next, Pipe!FlushInput, Inbox, Answer, Ans

-----------------------------------------------------------------------------
LEMMA SameInbox == ASSUME UNCHANGED rx PROVE UNCHANGED Inbox
BY DEF Inbox

LEMMA ReceivedStep ==
    ASSUME PortInv, Received, UNCHANGED <<main, answer>> PROVE PipeStep
<1>1. RxOK /\ Rings /\ flying \in Seq(Bytes)
  BY DEF PortInv, TInv, Timing
<1>2. UNCHANGED Answer
  <2>1. rx'.tail = rx.tail
    BY <1>1, ReceivedRing
  <2> QED BY <2>1 DEF Answer
<1>3. Kept => UNCHANGED Inbox
  BY DEF Kept, Inbox, Contents
<1>4. CASE flying' = flying /\ Kept
  BY <1>2, <1>3, <1>4, PipeSame
<1>5. CASE flying # <<>> /\ Complete(flying[1])
  <2>1. flying' = Tail(flying) /\ Head(flying) = flying[1]
    BY <1>5 DEF Complete
  <2>2. PICK n \in Nat, h \in Int, t \in Int :
          n = RxSize /\ n > 1 /\ h = rx.head /\ t = rx.tail /\ h \in 0 .. n - 1 /\ t \in 0 .. n - 1
    <3>1. rx.head \in 0 .. RxSize - 1 /\ rx.tail \in 0 .. RxSize - 1
      BY <1>1 DEF RxOK
    <3>2. rx.head \in Int /\ rx.tail \in Int
      BY <3>1, TxSizes
    <3> QED BY <3>1, <3>2, TxSizes
  <2>3. CASE Stores(flying[1])
    <3>1. Longer(n, rx, rx', flying[1], h, t)
      BY <1>1, <2>2, <2>3 DEF Stores, Rings, Longer
    <3>2. Len(Contents(rx, n)) < n - 1 /\ Contents(rx', n) = Append(Contents(rx, n), flying[1])
      BY <3>1, ContentsJoin
    <3>3. Len(Inbox) < RxSize - 1 /\ Inbox' = Append(Inbox, Head(flying))
      BY <2>1, <2>2, <3>2 DEF Inbox
    <3> QED BY <1>2, <1>5, <2>1, <3>3, PipeArrive
  <2>4. CASE Drops
    <3>1. Succ(rx.head, n) = rx.tail /\ UNCHANGED Inbox
      BY <1>3, <2>2, <2>4 DEF Drops
    <3>2. Len(Contents(rx, n)) = n - 1
      BY <2>2, <3>1, ContentsLen
    <3>3. Len(Inbox) = RxSize - 1
      BY <2>2, <3>2 DEF Inbox
    <3> QED BY <1>2, <1>5, <2>1, <3>1, <3>3, PipeLose
  <2> QED BY <1>1, <1>5, <2>3, <2>4, CompleteStores
<1> QED BY <1>4, <1>5 DEF Received, Kept

LEMMA CallStep == ASSUME PortInv, Call PROVE PipeStep
<1>1. UNCHANGED <<rx, flying>> /\ DOMAIN main = {"at", "head", "tail", "byte"}
  BY CallFrame DEF PortInv, TInv, Locals
<1>2. UNCHANGED Inbox
  BY <1>1, SameInbox
<1>3. ASSUME answer' = <<>>, main'.at \notin {"read", "peek", "available"}
      PROVE  PipeStep
  <2>1. Answer' = <<>>
    BY <1>3, AnsLemma DEF Answer
  <2> QED BY <1>1, <1>2, <2>1, PipeCall
<1>4. ASSUME NEW b \in Bytes, WriteCall(b) PROVE PipeStep
  <2>1. answer' = <<>> /\ main'.at = "write_wait"
    BY <1>1, <1>4 DEF WriteCall
  <2> QED BY <1>3, <2>1
<1>5. CASE FlushCall
  <2>1. answer' = <<>> /\ main'.at = "flush"
    BY <1>1, <1>5 DEF FlushCall
  <2> QED BY <1>3, <2>1
<1>6. CASE FlushInputCall
  <2>1. answer' = <<>> /\ main'.at = "flush_input"
    BY <1>1, <1>6 DEF FlushInputCall
  <2> QED BY <1>3, <2>1
<1>7. ASSUME NEW c \in {"read", "peek", "available"}, LoadHead(c) PROVE PipeStep
  <2>1. main'.at = c /\ main'.head = rx.head /\ answer' = <<>> /\ rx' = rx
    BY <1>1, <1>7 DEF LoadHead
  <2>2. /\ RxSize \in Nat /\ RxSize > 1
        /\ rx.head \in 0 .. RxSize - 1 /\ rx.tail \in 0 .. RxSize - 1
    BY TxSizes DEF PortInv, TInv, RxOK
  <2>3. /\ Len(Inbox) = Count(rx.head, rx.tail, RxSize)
        /\ rx.head = rx.tail => Inbox = <<>>
    BY <2>2, ContentsLen DEF Inbox
  <2>4. CASE c = "available"
    <3>1. Answer' = <<Count(rx.head, rx.tail, RxSize)>>
      BY <2>1, <2>4, AnsLemma DEF Answer
    <3> QED BY <1>1, <1>2, <2>3, <3>1, PipeAvailable
  <2>5. CASE c # "available" /\ rx.head = rx.tail
    <3>1. Answer' = <<-1>>
      BY <2>1, <2>5, AnsLemma DEF Answer
    <3> QED BY <1>1, <1>2, <2>3, <2>5, <3>1, PipeNothing
  <2>6. CASE c # "available" /\ rx.head # rx.tail
    <3>1. Answer' = <<>>
      BY <2>1, <2>6, AnsLemma DEF Answer
    <3> QED BY <1>1, <1>2, <3>1, PipeCall
  <2> QED BY <2>4, <2>5, <2>6
<1> QED BY <1>4, <1>5, <1>6, <1>7 DEF Call

(* The oldest byte of the receive ring is the one a call is looking at.    *)
LEMMA LookingAt ==
    ASSUME PortInv, main.at \in {"read_out", "peek_out", "read_tail"}
    PROVE  Inbox # <<>> /\ Head(Inbox) = rx.buffer[main.tail]
<1>1. main.tail = Succ(rx.tail, RxSize) /\ rx.head # rx.tail
  BY DEF PortInv, Holding
<1>2. PICK n \in Nat, h \in Int, t \in Int :
        n = RxSize /\ n > 1 /\ h = rx.head /\ t = rx.tail /\ h \in 0 .. n - 1 /\ t \in 0 .. n - 1
  <2>1. rx.head \in 0 .. RxSize - 1 /\ rx.tail \in 0 .. RxSize - 1
    BY DEF PortInv, TInv, RxOK
  <2>2. rx.head \in Int /\ rx.tail \in Int
    BY <2>1, TxSizes
  <2> QED BY <2>1, <2>2, TxSizes
<1> DEFINE q == [head |-> h, tail |-> Succ(t, n), buffer |-> rx.buffer]
<1>3. Shorter(n, rx, q, h, t, Succ(t, n))
  <2>1. q.head = h /\ q.tail = Succ(t, n) /\ q.buffer = rx.buffer
    OBVIOUS
  <2> HIDE DEF q
  <2> QED BY <1>1, <1>2, <2>1 DEF Shorter
<1> HIDE DEF q
<1>4. Contents(rx, n) # <<>> /\ Head(Contents(rx, n)) = rx.buffer[Succ(t, n)]
  BY <1>3, ContentsLeave
<1> QED BY <1>1, <1>2, <1>4 DEF Inbox

LEMMA ReadStep == ASSUME PortInv, ReadTail PROVE PipeStep
<1>1. /\ main.at = "read_tail" /\ rx' = Tidy([rx EXCEPT !.tail = main.tail], RxSize)
      /\ answer' = main.byte /\ main' = Idle /\ flying' = flying
  BY DEF ReadTail
<1>2. /\ main.tail = Succ(rx.tail, RxSize) /\ rx.head # rx.tail
      /\ main.byte = rx.buffer[main.tail] /\ RxOK
  BY <1>1 DEF PortInv, TInv, Holding
<1>3. PICK n \in Nat, h \in Int, t \in Int :
        n = RxSize /\ n > 1 /\ h = rx.head /\ t = rx.tail /\ h \in 0 .. n - 1 /\ t \in 0 .. n - 1
  <2>1. rx.head \in 0 .. RxSize - 1 /\ rx.tail \in 0 .. RxSize - 1
    BY <1>2 DEF RxOK
  <2>2. rx.head \in Int /\ rx.tail \in Int
    BY <2>1, TxSizes
  <2> QED BY <2>1, <2>2, TxSizes
<1> DEFINE r == [rx EXCEPT !.tail = main.tail]
<1>4. /\ rx' = Tidy(r, n) /\ DOMAIN r = DOMAIN rx /\ "buffer" \in DOMAIN r
      /\ r.head = h /\ r.tail = Succ(t, n) /\ r.buffer = rx.buffer
  BY <1>1, <1>2, <1>3 DEF RxOK
<1> HIDE DEF r
<1>5. Succ(t, n) \in 0 .. n - 1
  BY <1>3, SuccLemma
<1>6. /\ rx'.head = h /\ rx'.tail = Succ(t, n)
      /\ \A i \in 1 .. Count(h, Succ(t, n), n) :
            rx'.buffer[(Succ(t, n) + i) % n] = rx.buffer[(Succ(t, n) + i) % n]
  <2>1. r.head \in 0 .. n - 1 /\ r.tail \in 0 .. n - 1
    BY <1>3, <1>4, <1>5
  <2>2. /\ \A f \in DOMAIN r \ {"buffer"} : Tidy(r, n)[f] = r[f]
        /\ \A i \in 1 .. Count(r.head, r.tail, n) :
              Tidy(r, n).buffer[(r.tail + i) % n] = r.buffer[(r.tail + i) % n]
    BY <1>3, <1>4, <2>1, TidyLemma
  <2>3. rx'.head = r.head /\ rx'.tail = r.tail
    BY <1>2, <1>4, <2>2 DEF RxOK
  <2> QED BY <1>4, <2>2, <2>3
<1>7. /\ Contents(rx, n) # <<>> /\ Head(Contents(rx, n)) = rx.buffer[Succ(t, n)]
      /\ Contents(rx', n) = Tail(Contents(rx, n))
  <2>1. Shorter(n, rx, rx', h, t, Succ(t, n))
    BY <1>2, <1>3, <1>6 DEF Shorter
  <2> QED BY <2>1, ContentsLeave
<1>8. Answer' = answer'
  BY <1>1, AnsLemma DEF Answer, Idle
<1>9. /\ Inbox # <<>> /\ Head(Inbox) = rx.buffer[Succ(t, n)]
      /\ Inbox' = Tail(Inbox)
  BY <1>3, <1>7 DEF Inbox
<1>10. Answer' = Head(Inbox)
  BY <1>1, <1>2, <1>3, <1>8, <1>9
<1> QED BY <1>1, <1>9, <1>10, PipeRead

LEMMA FlushStep == ASSUME PortInv, FlushInput PROVE PipeStep
<1>1. /\ main.at = "flush_input" /\ rx' = Tidy([rx EXCEPT !.head = main.tail], RxSize)
      /\ main' = Idle /\ UNCHANGED <<answer, flying>>
  BY DEF FlushInput
<1>2. main.tail = rx.tail /\ RxOK
  BY <1>1 DEF PortInv, TInv, Holding
<1> DEFINE r == [rx EXCEPT !.head = main.tail]
<1>3. rx' = Tidy(r, RxSize) /\ DOMAIN r = DOMAIN rx /\ r.head = rx.tail /\ r.tail = rx.tail
  BY <1>1, <1>2 DEF RxOK
<1> HIDE DEF r
<1>4. rx'.head = rx.tail /\ rx'.tail = rx.tail
  BY <1>2, <1>3 DEF Tidy, RxOK
<1>5. Contents(rx', RxSize) = <<>>
  <2>1. PICK q : q = rx'
    OBVIOUS
  <2>2. q.head \in 0 .. RxSize - 1 /\ q.tail \in 0 .. RxSize - 1 /\ q.head = q.tail
    BY <1>2, <1>4, <2>1 DEF RxOK
  <2>3. Contents(q, RxSize) = <<>>
    BY <2>2, TxSizes, ContentsLen
  <2> QED BY <2>1, <2>3
<1>6. Answer' = answer' /\ Answer = answer
  BY <1>1, AnsLemma DEF Answer, Idle
<1>7. Inbox' = <<>>
  BY <1>5 DEF Inbox
<1> QED BY <1>1, <1>6, <1>7, PipeFlush

LEMMA ContinueStep == ASSUME PortInv, Continue PROVE PipeStep
<1>1. DOMAIN main = {"at", "head", "tail", "byte"}
  BY DEF PortInv, TInv, Locals
<1>2. CASE WriteRoom
  <2>1. /\ UNCHANGED <<rx, answer, flying>> /\ main.at = "write_wait" /\ main'.at = "write_cli"
    BY <1>1, <1>2 DEF WriteRoom
  <2>2. Answer = answer /\ Answer' = answer'
    BY <2>1, AnsLemma DEF Answer
  <2> QED BY <2>1, <2>2, SameInbox, PipeSame
<1>3. CASE WriteByte
  <2>1. /\ UNCHANGED <<rx, answer>> /\ main.at = "write_cli" /\ main'.at = "idle"
        /\ flying' = Append(flying, main.byte)
    BY <1>3 DEF WriteByte, Idle
  <2>2. Answer = answer /\ Answer' = answer'
    BY <2>1, AnsLemma DEF Answer
  <2>3. main.byte \in Bytes
    BY <2>1 DEF PortInv, Holding
  <2>4. UNCHANGED <<Inbox, Answer>>
    BY <2>1, <2>2, SameInbox
  <2> QED BY <2>1, <2>3, <2>4, PipeWrite
<1>4. CASE FlushDone
  <2>1. UNCHANGED <<rx, answer, flying>> /\ main.at = "flush" /\ main'.at = "idle"
    BY <1>4 DEF FlushDone, Idle
  <2>2. Answer = answer /\ Answer' = answer'
    BY <2>1, AnsLemma DEF Answer
  <2> QED BY <2>1, <2>2, SameInbox, PipeSame
<1>5. CASE LoadTail
  <2>1. UNCHANGED <<rx, flying>> /\ main.at \in {"read", "peek"}
    BY <1>5 DEF LoadTail
  <2>2. CASE main.head = rx.tail
    <3>1. main'.at = "idle" /\ answer' = <<-1>>
      BY <1>5, <2>2 DEF LoadTail, Idle
    <3>2. Answer = <<-1>> /\ Answer' = <<-1>>
      BY <2>1, <2>2, <3>1, AnsLemma DEF Answer
    <3> QED BY <2>1, <3>2, SameInbox, PipeSame
  <2>3. CASE main.head # rx.tail
    <3>1. main'.at \in {"read_out", "peek_out"} /\ answer' = answer
      BY <1>1, <1>5, <2>3 DEF LoadTail
    <3>2. Answer = answer /\ Answer' = answer
      BY <2>1, <2>3, <3>1, AnsLemma DEF Answer
    <3> QED BY <2>1, <3>2, SameInbox, PipeSame
  <2> QED BY <2>2, <2>3
<1>6. CASE PeekOut
  <2>1. /\ UNCHANGED <<rx, flying>> /\ main.at = "peek_out" /\ main'.at = "idle"
        /\ answer' = rx.buffer[main.tail]
    BY <1>6 DEF PeekOut, Idle
  <2>2. Answer' = answer'
    BY <2>1, AnsLemma DEF Answer
  <2>3. Inbox # <<>> /\ Head(Inbox) = rx.buffer[main.tail]
    BY <2>1, LookingAt
  <2> QED BY <2>1, <2>2, <2>3, SameInbox, PipePeek
<1>7. CASE ReadOut
  <2>1. UNCHANGED <<rx, answer, flying>> /\ main.at = "read_out" /\ main'.at = "read_tail"
    BY <1>1, <1>7 DEF ReadOut
  <2>2. Answer = answer /\ Answer' = answer'
    BY <2>1, AnsLemma DEF Answer
  <2> QED BY <2>1, <2>2, SameInbox, PipeSame
<1>8. CASE ReadTail
  BY <1>8, ReadStep
<1>9. CASE AvailableOut
  <2>1. /\ UNCHANGED <<rx, flying>> /\ main.at = "available" /\ main'.at = "idle"
        /\ answer' = <<Count(main.head, rx.tail, RxSize)>>
    BY <1>9 DEF AvailableOut, Idle
  <2>2. Answer = answer' /\ Answer' = answer'
    BY <2>1, AnsLemma DEF Answer
  <2> QED BY <2>1, <2>2, SameInbox, PipeSame
<1>10. CASE FlushInput
  BY <1>10, FlushStep
<1> QED BY <1>2, <1>3, <1>4, <1>5, <1>6, <1>7, <1>8, <1>9, <1>10 DEF Continue

(* The two halves, the interrupt handlers and the ring buffers are a serial*)
(* pipe: bytes arrive in the order and with the bits they were written, one*)
(* is lost only to a full receive buffer, and each call of the main program*)
(* sees that buffer at one instant.                                        *)
THEOREM PortIsPipe == Spec => Implements
<1>1. Init => Pipe!Init
  <2> SUFFICES ASSUME Init PROVE Pipe!Init
    OBVIOUS
  <2>1. flying = <<>> /\ Answer = <<>>
    <3>1. main.at = "idle" /\ answer = <<>>
      BY DEF Init, Idle
    <3> QED BY <3>1, AnsLemma DEF Init, Answer
  <2>2. Inbox = <<>>
    <3>1. rx.head = 0 /\ rx.tail = 0 /\ 0 \in 0 .. RxSize - 1
      BY TxSizes DEF Init
    <3> QED BY <3>1, TxSizes, ContentsLen DEF Inbox
  <2> QED BY <2>1, <2>2 DEF Pipe!Init, Inbox, Answer, Ans
<1>2. PortInv /\ [Next]_vars => PipeStep
  <2> SUFFICES ASSUME PortInv, [Next]_vars PROVE PipeStep
    OBVIOUS
  <2>1. TInv /\ Timing
    BY DEF PortInv
  <2>2. CASE Capture
    <3>1. Received /\ UNCHANGED <<main, answer>>
      BY <2>1, <2>2, CaptureTiming DEF Capture
    <3> QED BY <3>1, ReceivedStep
  <2>3. CASE CompareB
    <3>1. Received /\ UNCHANGED <<main, answer>>
      BY <2>1, <2>3, CompareBTiming DEF CompareB
    <3> QED BY <3>1, ReceivedStep
  <2>4. CASE Tick \/ CompareA \/ UNCHANGED vars
    <3>1. UNCHANGED <<rx, main, answer, flying>>
      BY <2>4 DEF Tick, CompareA, vars
    <3>2. UNCHANGED Answer
      BY <3>1 DEF Answer
    <3> QED BY <3>1, <3>2, SameInbox, PipeSame
  <2>5. CASE Call
    BY <2>5, CallStep
  <2>6. CASE Continue
    BY <2>6, ContinueStep
  <2> QED BY <2>2, <2>3, <2>4, <2>5, <2>6 DEF Next, Isr
<1>3. PortInv /\ [Next]_vars => [Pipe!Next]_(Pipe!vars)
  BY <1>2 DEF PipeStep
<1> QED BY InitPortInv, NextPortInv, <1>1, <1>3, PTL DEF Spec, Implements, Pipe!Spec
=============================================================================
