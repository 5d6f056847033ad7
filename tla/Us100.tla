------------------------------- MODULE Us100 -------------------------------
(***************************************************************************)
(* The distance alarm: a US-100 sensor is asked for a distance, answers    *)
(* with the two bytes of a number of millimetres, and a display and a      *)
(* buzzer warn of what is near.  One step is one stretch of loop() between *)
(* two delay() calls.                                                      *)
(*                                                                         *)
(* SoftwareSerial is not part of the repository.  Its flush() emptied the  *)
(* receive buffer in older Arduino cores and only waits for output in newer*)
(* ones: "empties" says which one the program was built with.  Each byte   *)
(* received carries its origin as ghost: the half of the answer it is, and *)
(* whether it answers the latest request.                                  *)
(***************************************************************************)
EXTENDS Integers, Sequences

CONSTANTS
    Distances,  \* what the sensor may measure, in mm
    Noise,      \* values of a byte nobody sent
    Buffer      \* bytes the receive buffer holds

Octet       == 0 .. 255
Millimetres == 0 .. 65535
Centimetre  == 0 .. 6553           \* a tenth of 16 bits
Shown       == {-1} \cup 2 .. 999  \* distances in range, none yet

ASSUME DistancesAssumption == Distances \subseteq Millimetres /\ Noise \subseteq Octet
ASSUME BufferAssumption == Buffer \in Nat \ {0, 1}

VARIABLES
    pc,        \* before the request, waiting for the answer, or measured
    empties,   \* flush() empties the receive buffer
    received,  \* bytes in the receive buffer
    disturbed, \* ghost: a byte was lost or added since the request
    cmDist,    \* the last distance read
    heard,     \* ghost: what it was made from: this answer, other bytes, nothing
    lcd,       \* distance on the display (-1 none yet), and the caution
    buzzer,    \* its pin is HIGH
    sounded    \* ghost: the last distance in range made the buzzer sound

vars == <<pc, empties, received, disturbed, cmDist, heard, lcd, buzzer, sounded>>

Byte == [val : Octet, half : {"ms", "ls", "none"}, new : BOOLEAN]

Init ==
    /\ pc = "ask"
    /\ empties \in BOOLEAN
    /\ received = <<>>
    /\ disturbed = FALSE
    /\ cmDist = 0
    /\ heard = "nothing"
    /\ lcd = [dist |-> -1, caution |-> FALSE]
    /\ buzzer = FALSE
    /\ sounded = FALSE

(* Mutant of Flushed: flush() is left out. *)
FlushedNot == received

(* What flush() leaves in the buffer. *)
Flushed == IF empties THEN <<>> ELSE received

(* The request.  What is still in the buffer answers an earlier one.       *)
Ask ==
    /\ pc = "ask"
    /\ pc' = "wait"
    /\ received' = [i \in 1 .. Len(Flushed) |-> [Flushed[i] EXCEPT !.new = FALSE]]
    /\ disturbed' = FALSE
    /\ UNCHANGED <<empties, cmDist, heard, lcd, buzzer, sounded>>

Room(s) == SubSeq(s, 1, IF Len(s) < Buffer THEN Len(s) ELSE Buffer)

Ms(mm)   == [val |-> mm \div 256, half |-> "ms", new |-> TRUE]
Ls(mm)   == [val |-> mm % 256, half |-> "ls", new |-> TRUE]
Stray(v) == [val |-> v, half |-> "none", new |-> TRUE]

(* The sensor's answer; a half of it may be lost, or noise come before it. *)
Answer ==
    /\ pc = "wait"
    /\ pc' = "read"
    /\ \E mm \in Distances, noise \in {<<>>} \cup {<<Stray(v)>> : v \in Noise} :
       \E ms \in {<<>>, <<Ms(mm)>>}, ls \in {<<>>, <<Ls(mm)>>} :
         LET all == received \o noise \o ms \o ls
         IN /\ received' = Room(all)
            /\ disturbed' = (noise # <<>> \/ ms = <<>> \/ ls = <<>> \/ Len(all) > Buffer)
    /\ UNCHANGED <<empties, cmDist, heard, lcd, buzzer, sounded>>

(* Mutant of Centimetres: in a signed int. *)
CentimetresInt(ms, ls) ==
    LET mm == ms * 256 + ls IN IF mm > 32767 THEN (mm - 65536) \div 10 ELSE mm \div 10

Centimetres(ms, ls) == (ms * 256 + ls) \div 10

InRange(d) == d > 1 /\ d < 1000

(* Mutant of Beeps: both ends of the bands exclusive. *)
BeepsShort(d) == (d > 20 /\ d < 30) \/ (d > 10 /\ d < 20) \/ (d > 5 /\ d < 10)

(* The three bands with a beep of 400, 200 and 80 ms. *)
Beeps(d) == (d > 20 /\ d < 30) \/ (d > 10 /\ d <= 20) \/ (d > 5 /\ d <= 10)

(* Mutant of Show: the display is never cleared. *)
ShowOver(d) == [dist |-> d, caution |-> lcd.caution \/ d < 30]

(* clear() comes with the far distances only; the near ones are printed over*)
(* what is there, with the caution in the second row.                      *)
Show(d) ==
    IF d >= 30 THEN [dist |-> d, caution |-> FALSE] ELSE [dist |-> d, caution |-> TRUE]

(* The two halves of the answer to the latest request. *)
Whole(b, c) == b.half = "ms" /\ c.half = "ls" /\ b.new /\ c.new

(* Two bytes make a distance; one out of range changes nothing but cmDist. *)
Measure ==
    /\ pc = "read"
    /\ pc' = "ask"
    /\ Len(received) >= 2
    /\ LET d == Centimetres(received[1].val, received[2].val)
       IN /\ cmDist' = d
          /\ IF InRange(d)
             THEN /\ lcd' = Show(d)
                  /\ buzzer' = (d <= 5)
                  /\ sounded' = (Beeps(d) \/ d <= 5)
             ELSE UNCHANGED <<lcd, buzzer, sounded>>
    /\ heard' = IF Whole(received[1], received[2]) THEN "answer" ELSE "bytes"
    /\ received' = SubSeq(received, 3, Len(received))
    /\ UNCHANGED <<empties, disturbed>>

Nothing ==
    /\ pc = "read"
    /\ pc' = "ask"
    /\ Len(received) < 2
    /\ heard' = "nothing"
    /\ UNCHANGED <<empties, received, disturbed, cmDist, lcd, buzzer, sounded>>

Next == Ask \/ Answer \/ Measure \/ Nothing

Spec == Init /\ [][Next]_vars
-----------------------------------------------------------------------------
(* The variables keep their types; cmDist is a quotient of 16 bits.        *)
TypeOK ==
    /\ pc \in {"ask", "wait", "read"}
    /\ empties \in BOOLEAN /\ disturbed \in BOOLEAN
    /\ received \in Seq(Byte) /\ Len(received) <= Buffer
    /\ cmDist \in Centimetre
    /\ heard \in {"answer", "bytes", "nothing"}
    /\ lcd \in [dist : Shown, caution : BOOLEAN]
    /\ buzzer \in BOOLEAN /\ sounded \in BOOLEAN

(* Where flush() empties the buffer, a lost or added byte costs its own    *)
(* pass at most: the next undisturbed one pairs the halves of its own      *)
(* answer.  Without it they stay shifted.                                  *)
Resynchronised == pc = "ask" /\ empties /\ ~disturbed => heard # "bytes"

(* Every distance the program accepts below 30 cm is heard: the bands leave*)
(* no gap at their ends.                                                   *)
NearIsHeard == pc = "ask" /\ heard # "nothing" /\ InRange(cmDist) /\ cmDist < 30 => sounded

(* The caution is on the display exactly while the last distance shown is a*)
(* near one, and the held alarm implies it: whatever comes in between, out *)
(* of range readings and silence included, buzzer and display agree.       *)
WarningsAgree ==
    /\ lcd.dist # -1 => (lcd.caution <=> lcd.dist < 30)
    /\ buzzer => lcd.caution /\ lcd.dist <= 5
=============================================================================
