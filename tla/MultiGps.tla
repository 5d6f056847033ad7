------------------------------ MODULE MultiGps ------------------------------
(***************************************************************************)
(* One Arduino reads several GPS receivers in turn, each on a serial port  *)
(* of its own.  A receiver sends whether or not it is its turn; what comes *)
(* meanwhile is kept in a receive buffer shorter than a sentence, which    *)
(* drops what does not fit.  The program looks for the header of a GGA     *)
(* sentence, splits the rest of the line at its commas into nmea[][], and  *)
(* after the last receiver converts two elements of each of them.          *)
(*                                                                         *)
(* Text is kept in pieces that end with a comma or the end of a line: a    *)
(* header, the fields that are used, any other.  A buffer may end within a *)
(* piece, which is then torn.  Receivers, ports and their buffers are      *)
(* hardware or libraries.  Left out are the numbers of the Kalman filter,  *)
(* the altitude, which is stored and fed to it as it is, and lines with    *)
(* more than the 15 fields nmea[n] has room for.                           *)
(***************************************************************************)
EXTENDS Integers, Sequences

CONSTANTS
    Devices,  \* number of receivers
    Burst,    \* what each of them sends over and over: a sequence of texts
    Size      \* pieces a receive buffer holds

Places == <<"lat", "lng">>   \* elements 1 and 3 of nmea[n]
Texts  == {"hdr", "lat", "lng", "other", "eol"}

ASSUME DevicesAssumption == Devices \in Nat \ {0}
ASSUME BurstAssumption == Burst \in [1 .. Devices -> Seq(Texts) \ {<<>>}]
(* A longitude comes right after the latitude of its sentence. *)
ASSUME SentenceAssumption ==
    \A n \in 1 .. Devices : \A k \in DOMAIN Burst[n] :
        Burst[n][k] = "lng" => k > 1 /\ Burst[n][k - 1] = "lat"
(* 64 bytes are less than a sentence with a position. *)
ASSUME SizeAssumption == Size \in 1 .. Len(Places) + 1

VARIABLES
    pc,          \* "idle"; in a turn "find", "collect"; "convert", "fed"
    dev,         \* the receiver whose turn it is
    line,        \* the fields read after the header
    nmea,        \* nmea[n][1] and nmea[n][3]
    sent,        \* how far in Burst each receiver is
    id,          \* ghost: number of the sentence it is sending
    buffer,      \* receive buffers
    overflowed,  \* ghost: pieces were dropped since the receiver's last turn
    gap          \* ghost: overflowed, as it was when that turn was over

vars == <<pc, dev, line, nmea, sent, id, buffer, overflowed, gap>>

Device == 1 .. Devices

(* Numbers enough to tell the sentences apart that can meet; 0 for none,   *)
(* and for text of which it does not matter.                               *)
Ids == 0 .. Size + 2 * Len(Places) + 2

Piece == [text : Texts, id : Ids, torn : BOOLEAN]

Field == [text : {"lat", "lng", "other", "bad"}, id : Ids, torn : BOOLEAN]

(* An element: the field that belongs there, raw or converted to degrees,  *)
(* or text that is no position (spliced, cut, of another field, converted  *)
(* twice, none yet).  It is new if it was stored in this pass.             *)
Element == [text : {"lat", "lng", "deg", "junk"}, id : Ids, new : BOOLEAN]

Junk == [text |-> "junk", id |-> 0, new |-> FALSE]

Old(e) == [text |-> e.text, id |-> 0, new |-> FALSE]

Init ==
    /\ pc = "idle" /\ dev = 1
    /\ line = <<>>
    /\ nmea = [n \in Device |-> [p \in DOMAIN Places |-> Junk]]
    /\ sent = [n \in Device |-> 0]
    /\ id = [n \in Device |-> 0]
    /\ buffer = [n \in Device |-> <<>>]
    /\ overflowed = [n \in Device |-> FALSE]
    /\ gap = [n \in Device |-> FALSE]

-----------------------------------------------------------------------------
(* The receivers and their ports.                                          *)

Listening(n) == pc \in {"find", "collect"} /\ dev = n

UsedIds(n) ==
    {buffer[n][i].id : i \in DOMAIN buffer[n]}
      \cup {nmea[n][p].id : p \in DOMAIN Places}
      \cup (IF dev = n THEN {line[i].id : i \in DOMAIN line} ELSE {})

(* A sentence gets its number with its first field. *)
NextId(n) ==
    IF id[n] = 0 THEN CHOOSE i \in Ids \ {0} : i \notin UsedIds(n) ELSE id[n]

(* The next piece receiver n sends. *)
NextPiece(n) ==
    LET text == Burst[n][sent[n] + 1]
    IN [text |-> text, id |-> IF text \in {"lat", "lng"} THEN NextId(n) ELSE 0, torn |-> FALSE]

(* The next piece arrives.  A program that listens is faster than the line,*)
(* so it has emptied the buffer by then.                                   *)
Talk(n) ==
    LET piece == NextPiece(n)
    IN /\ Listening(n) => buffer[n] = <<>>
       /\ sent' = [sent EXCEPT ![n] = (@ + 1) % Len(Burst[n])]
       /\ id' = [id EXCEPT ![n] = CASE piece.text = "eol" -> 0
                                    [] piece.id # 0 -> piece.id
                                    [] OTHER -> @]
       /\ \/ /\ Len(buffer[n]) < Size
             /\ buffer' = [buffer EXCEPT ![n] = Append(@, piece)]
             /\ UNCHANGED overflowed
          \/ /\ Len(buffer[n]) = Size - 1 /\ ~Listening(n)
             /\ buffer' = [buffer EXCEPT ![n] = Append(@, [piece EXCEPT !.torn = TRUE])]
             /\ overflowed' = [overflowed EXCEPT ![n] = TRUE]
          \/ /\ Len(buffer[n]) = Size
             /\ overflowed' = [overflowed EXCEPT ![n] = TRUE]
             /\ UNCHANGED buffer
    /\ UNCHANGED <<pc, dev, line, nmea, gap>>

-----------------------------------------------------------------------------
(* A pass of setup() or loop().                                            *)

(* setup() starts the first pass, loop() the others, two seconds or more   *)
(* after the start of the one before.                                      *)
Start ==
    /\ pc \in {"idle", "fed"}
    /\ pc' = "find" /\ dev' = 1
    /\ nmea' = [n \in Device |-> [p \in DOMAIN Places |-> Old(nmea[n][p])]]
    /\ gap' = [n \in Device |-> FALSE]
    /\ UNCHANGED <<line, sent, id, buffer, overflowed>>

(* Mutant of EndTurn: n <= 3. *)
EndTurnLate ==
    /\ pc' = IF dev > Devices THEN "convert" ELSE "find"
    /\ dev' = IF dev > Devices THEN 1 ELSE dev + 1
    /\ line' = <<>>
    /\ overflowed' = [overflowed EXCEPT ![dev] = FALSE]
    /\ gap' = [gap EXCEPT ![dev] = overflowed[dev]]

(* Mutant of EndTurn: after the last receiver it is the first one's turn.  *)
EndTurnAround ==
    /\ pc' = "find"
    /\ dev' = IF dev = Devices THEN 1 ELSE dev + 1
    /\ line' = <<>>
    /\ overflowed' = [overflowed EXCEPT ![dev] = FALSE]
    /\ gap' = [gap EXCEPT ![dev] = overflowed[dev]]

(* The turn goes to the next receiver, after the last one to the program.  *)
EndTurn ==
    /\ pc' = IF dev = Devices THEN "convert" ELSE "find"
    /\ dev' = IF dev = Devices THEN 1 ELSE dev + 1
    /\ line' = <<>>
    /\ overflowed' = [overflowed EXCEPT ![dev] = FALSE]
    /\ gap' = [gap EXCEPT ![dev] = overflowed[dev]]

Taken == buffer' = [buffer EXCEPT ![dev] = Tail(@)]

(* find(): text is thrown away up to and including a header.  The read()   *)
(* before it takes one character of what is thrown away anyway, or the $ of*)
(* the header, which is not looked for.                                    *)
Find ==
    /\ pc = "find" /\ buffer[dev] # <<>>
    /\ LET piece == Head(buffer[dev])
       IN pc' = IF piece.text = "hdr" /\ ~piece.torn THEN "collect" ELSE "find"
    /\ Taken
    /\ UNCHANGED <<dev, line, nmea, sent, id, overflowed, gap>>

(* Mutant of FindTimeout: find() waits as long as it takes. *)
FindForever == FALSE /\ UNCHANGED vars

(* No character for a second: this receiver's elements stay as they are.   *)
FindTimeout ==
    /\ pc = "find" /\ buffer[dev] = <<>>
    /\ EndTurn
    /\ UNCHANGED <<nmea, sent, id, buffer>>

AsField(piece) ==
    [piece EXCEPT !.text = IF piece.text \in {"hdr", "eol"} THEN "other" ELSE @]

(* The fields with one more piece: what follows a torn one belongs to the  *)
(* same field.  Fields after those that are used make no difference.       *)
Grown(piece) ==
    IF line # <<>> /\ line[Len(line)].torn
    THEN [line EXCEPT ![Len(line)] = [text |-> "bad", id |-> 0, torn |-> piece.torn]]
    ELSE IF Len(line) < Len(Places) + 1 THEN Append(line, AsField(piece))
    ELSE line

(* nmea[n] after the fields f were stored from its first element on. *)
Stored(old, f) ==
    [p \in DOMAIN Places |->
        IF p \notin DOMAIN f THEN old[p]
        ELSE IF f[p].text # Places[p] \/ f[p].torn THEN Junk
        ELSE [text |-> f[p].text, id |-> f[p].id, new |-> TRUE]]

(* readStringUntil('\n') takes one piece; after a line's end it is split.  *)
Collect ==
    /\ pc = "collect" /\ buffer[dev] # <<>>
    /\ LET piece == Head(buffer[dev])
       IN IF piece.text = "eol" /\ ~piece.torn
          THEN /\ nmea' = [nmea EXCEPT ![dev] = Stored(@, Grown(piece))]
               /\ EndTurn
          ELSE /\ line' = Grown(piece)
               /\ UNCHANGED <<pc, dev, nmea, overflowed, gap>>
    /\ Taken
    /\ UNCHANGED <<sent, id>>

(* No character for a second: the line ends where it is, often within a    *)
(* field; right after a comma the next element becomes that comma.         *)
CollectTimeout ==
    /\ pc = "collect" /\ buffer[dev] = <<>>
    /\ nmea' = [nmea EXCEPT ![dev] =
                    Stored(@, IF line = <<>> THEN line
                              ELSE Grown([text |-> "other", id |-> 0, torn |-> TRUE]))]
    /\ EndTurn
    /\ UNCHANGED <<sent, id, buffer>>

Degrees(e) == [text |-> "deg", id |-> e.id, new |-> e.new]

(* Mutants of Converted: what has been converted is left alone, both or    *)
(* longitudes only.                                                        *)
ConvertedOnce(e, p) ==
    IF e.text \in {Places[p], "deg"} THEN Degrees(e) ELSE Junk

ConvertedLng(e, p) ==
    IF e.text = Places[p] \/ (p = 2 /\ e.text = "deg") THEN Degrees(e) ELSE Junk

(* ConvertLat() and ConvertLng() take an element for degrees and minutes,  *)
(* whatever it is. *)
Converted(e, p) ==
    IF e.text = Places[p] THEN Degrees(e) ELSE Junk

Convert ==
    /\ pc = "convert"
    /\ nmea' = [n \in Device |-> [p \in DOMAIN Places |-> Converted(nmea[n][p], p)]]
    /\ pc' = "fed"
    /\ UNCHANGED <<dev, line, sent, id, buffer, overflowed, gap>>

Pass == Find \/ FindTimeout \/ Collect \/ CollectTimeout \/ Convert

Next == Start \/ Pass \/ \E n \in Device : Talk(n)

Spec == Init /\ [][Next]_vars

(* The program runs; that a receiver is silent for a second or sends again *)
(* is up to the receiver.                                                  *)
FairSpec == Spec /\ WF_vars(Pass)
-----------------------------------------------------------------------------
(* The variables keep their types and a buffer its size. *)
TypeOK ==
    /\ pc \in {"idle", "find", "collect", "convert", "fed"}
    /\ dev \in Device
    /\ line \in Seq(Field) /\ Len(line) <= Len(Places) + 1
    /\ nmea \in [Device -> [DOMAIN Places -> Element]]
    /\ \A n \in Device : sent[n] \in 0 .. Len(Burst[n]) - 1
    /\ id \in [Device -> Ids]
    /\ \A n \in Device : buffer[n] \in Seq(Piece) /\ Len(buffer[n]) <= Size
    /\ overflowed \in [Device -> BOOLEAN] /\ gap \in [Device -> BOOLEAN]

Fed(n, p) == nmea[n][p].text = "deg"

(* Where a receiver was silent or its sentence was cut, the old position is*)
(* still in nmea[][]; it never reaches the filter again as a position: what*)
(* the filter gets is of this pass or the junk of a second conversion.     *)
FedIsNew == pc = "fed" => \A n \in Device : \A p \in DOMAIN Places : Fed(n, p) => nmea[n][p].new

(* A longitude given to the filter comes with the latitude of its own     *)
(* sentence, unless the receiver's buffer overflowed before its turn: then *)
(* the line read is the start of an old sentence and the end of a new one. *)
PositionWhole ==
    pc = "fed" =>
        \A n \in Device :
            Fed(n, 2) /\ ~gap[n] => Fed(n, 1) /\ nmea[n][1].id = nmea[n][2].id

(* The most steps that are left of a pass if no receiver says anything:    *)
(* a turn takes what is in the buffer and gives up, the last is Convert.   *)
Work ==
    CASE pc \in {"find", "collect"} ->
             (Devices - dev) * (Size + 1) + Len(buffer[dev]) + 1 + 1
      [] pc = "convert" -> 1
      [] OTHER -> 0

(* Every step of a pass brings its end closer; what a receiver says puts it*)
(* off by a step at most, and only while it is that receiver's turn.       *)
PassAdvances ==
    [][ \/ Start
        \/ Work' < Work
        \/ \E n \in Device :
              Talk(n) /\ Work' <= Work + (IF Listening(n) THEN 1 ELSE 0) ]_vars

(* "refresh every 2 second": a pass that has begun comes to its end.       *)
PassEnds == (pc = "find") ~> (pc = "fed")
=============================================================================
