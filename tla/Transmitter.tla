---------------------------- MODULE Transmitter ----------------------------
(***************************************************************************)
(* The drone: prototype1_after_first_award.ino.  loop() calls the sensor   *)
(* helpers one after the other, composes four messages and hands them to   *)
(* the radio without waiting for anybody.                                  *)
(*                                                                         *)
(* The station's receive FIFO "air" is all the drone has to do with it.    *)
(***************************************************************************)
EXTENDS Radio, Dht22Driver, SequencesExt

CONSTANTS
    RadioCuts,  \* TRUE: a text over 32 bytes reaches the other side cut off
    CutPoints,  \* numbers of whole fields a received GGA sentence may have
    MaxSeq      \* bound: rounds of loop() that are examined

ASSUME TransmitterAssumption ==
    /\ RadioCuts \in BOOLEAN
    /\ CutPoints \subseteq 0 .. 14
    /\ MaxSeq \in Nat \ {0}

VARIABLES
    pc,       \* the part of setup() or loop() that runs next
    nmea,     \* the five elements of nmea[] that are sent
    located,  \* ghost: a GGA sentence was found since power-on
    dht,      \* the DHT22 object
    outbox,   \* messages of this round that txPL()/send() have not had yet
    seq       \* ghost: rounds composed so far, reboots included

txvars == <<pc, nmea, located, dht, outbox, seq>>

NmeaValue == [form : {"empty", "comma", "text", "deg", "junk"}, lag : 0 .. MaxLag]
Blank     == [f \in PositionFields |-> [form |-> "empty", lag |-> 0]]

TxInit ==
    /\ pc = "setup"
    /\ nmea = Blank
    /\ located = FALSE
    /\ dht = PowerOn
    /\ outbox = <<>>
    /\ seq = 0
    /\ air = <<>>

-----------------------------------------------------------------------------
(* callGPS().  A sentence is what readStringUntil('\n') returned: all of   *)
(* it, or what came before the one-second timeout.                         *)

(* nmea[] index of each field, in the order of the sentence. *)
Index == [lat |-> 1, ns |-> 2, lng |-> 3, ew |-> 4, alt |-> 8]

New(form) == [form |-> form, lag |-> 0]

(* A whole field; without a fix the receiver leaves the field empty. *)
Whole(f, fix) ==
    New(CASE ~fix -> "empty"
          [] fix /\ f \in {"lat", "lng"} -> "raw"
          [] fix /\ f \notin {"lat", "lng"} -> "text")

(* What the element after the last comma can be.  The last character is    *)
(* left out, which empties a hemisphere letter and leaves part of a longer *)
(* field; when that character is the comma itself, substring() is called   *)
(* with its bounds swapped and returns the comma.                          *)
Tails(cut, fix) ==
    {"comma"} \cup (IF fix THEN {"empty"} ELSE {})
          \cup (IF fix /\ cut \notin {Index["ns"], Index["ew"]} THEN {"junk"} ELSE {})

(* nmea[] after the loop over tempMsg: fields before the cut are new, the  *)
(* one at the cut is the tail, the ones behind it keep the old sentence's. *)
Split(old, cut, fix, tail) ==
    [f \in PositionFields |->
        CASE Index[f] < cut -> Whole(f, fix)
          [] Index[f] = cut -> New(tail)
          [] Index[f] > cut -> Older(old[f])]

(* Mutants of Convert: a converted element is left alone, an empty one is. *)
ConvertOnce(v) ==
    [v EXCEPT !.form = CASE @ = "raw" -> "deg" [] @ = "deg" -> "deg" [] OTHER -> "junk"]
ConvertSome(v) ==
    [v EXCEPT !.form = CASE @ = "raw" -> "deg" [] @ = "empty" -> "empty" [] OTHER -> "junk"]

(* ConvertLat() and ConvertLng() work on whatever the element holds: from  *)
(* anything but a raw coordinate they compute a text that means nothing    *)
(* (from an uninitialised float when the element has no decimal point).    *)
Convert(v) == [v EXCEPT !.form = IF @ = "raw" THEN "deg" ELSE "junk"]

(* Mutant of Located: the longitude is sent as it was received. *)
LocatedLat(s) == [s EXCEPT !.lat = Convert(@)]

Located(s) == [s EXCEPT !.lat = Convert(@), !.lng = Convert(@)]

(* find("GPGGA,") and readStringUntil('\n') allow a second for each         *)
(* character, not for the whole: a receiver that talks on without what     *)
(* they look for keeps the drone here for ever.                            *)
CallGPS ==
    /\ pc = "gps"
    /\ seq < MaxSeq
    /\ \/ /\ pc' \in {"humid", "hung"}  \* no header within a second, or for ever
          /\ UNCHANGED <<nmea, located>>
       \/ /\ \E cut \in CutPoints, fix \in BOOLEAN :
                \E tail \in Tails(cut, fix) :
                    nmea' = Located(Split(nmea, cut, fix, tail))
          /\ located' = TRUE
          /\ pc' = "humid"
    /\ UNCHANGED <<dht, outbox, seq, air>>

(* Mutant of CallHumid: the test for a failed read comes between the two. *)
CallHumidEarly ==
    /\ pc = "humid"
    /\ \E due1, due2 \in BOOLEAN : \E r1 \in ReadResults(dht, due1) :
         \/ ~r1.ok /\ dht' = SetHumidity(r1)
         \/ /\ r1.ok
            /\ \E r2 \in ReadResults(SetHumidity(r1), due2 /\ ~r1.fresh) :
                  dht' = SetTemperature(r2)
    /\ pc' = "pressure"
    /\ UNCHANGED <<nmea, located, outbox, seq, air>>

(* callHumid().  readTemperature() follows readHumidity() at once, so it   *)
(* cannot be due when that one has just read the sensor.  The isnan() test *)
(* at the end returns from the helper and changes nothing.                 *)
CallHumid ==
    /\ pc = "humid"
    /\ \E due1, due2 \in BOOLEAN : \E r1 \in ReadResults(dht, due1) :
         \E r2 \in ReadResults(SetHumidity(r1), due2 /\ ~r1.fresh) :
            dht' = SetTemperature(r2)
    /\ pc' = "pressure"
    /\ UNCHANGED <<nmea, located, outbox, seq, air>>

(* callDust() and callPresTemp().  The BMP085 is read with loops that wait *)
(* for bytes on the I2C bus: if they do not come, they wait for ever.      *)
CallPresTemp ==
    /\ pc = "pressure"
    /\ pc' \in {"compose", "hung"}
    /\ UNCHANGED <<nmea, located, dht, outbox, seq, air>>

(* setup() reads the calibration words of the BMP085 with the same loops.  *)
Setup ==
    /\ pc = "setup"
    /\ pc' \in {"gps", "hung"}
    /\ UNCHANGED <<nmea, located, dht, outbox, seq, air>>

-----------------------------------------------------------------------------
(* Composing and sending.                                                  *)

Body(kind) ==
    CASE kind = 1 -> Locats(nmea)
      [] kind = 2 -> Humids(dht.rh.form, dht.tc.form)
      [] kind = 3 -> Dusts
      [] kind = 4 -> GyPrs

(* The texts that can exceed the 32 bytes of a radio payload: a position   *)
(* with converted coordinates, which carry nine characters each (the NUL   *)
(* of charVal[] among them) behind their degrees, and a humidity message   *)
(* whose five numbers are all printed.                                     *)
MayBeLong(kind) ==
    \/ kind = 1 /\ nmea.lat.form # "empty"
    \/ kind = 2 /\ "nan" \notin {dht.rh.form, dht.tc.form}

(* Wherever a text is cut, its closing x is gone; the parser never gets    *)
(* through, so it makes no difference how much more is missing.            *)
Message(kind, cut) ==
    [kind |-> kind, seq |-> seq + 1, located |-> located, cut |-> cut,
     body |-> IF cut THEN Front(Body(kind)) ELSE Body(kind)]

Compose ==
    /\ pc = "compose"
    /\ \E long \in SUBSET {k \in Kinds : RadioCuts /\ MayBeLong(k)} :
          outbox' = [k \in Kinds |-> Message(k, k \in long)]
    /\ seq' = seq + 1
    /\ pc' = "send"
    /\ UNCHANGED <<nmea, located, dht, air>>

(* Mutant of Send: it waits until the station has room. *)
SendWaiting ==
    /\ pc = "send" /\ Len(air) < Depth
    /\ Transmit(Head(outbox))
    /\ outbox' = Tail(outbox)
    /\ pc' = IF Len(outbox) = 1 THEN "gps" ELSE "send"
    /\ UNCHANGED <<nmea, located, dht, seq>>

(* txPL(); send(FAST): nobody acknowledges.  After the last one loop()     *)
(* starts over.                                                            *)
Send ==
    /\ pc = "send"
    /\ Transmit(Head(outbox))
    /\ outbox' = Tail(outbox)
    /\ pc' = IF Len(outbox) = 1 THEN "gps" ELSE "send"
    /\ UNCHANGED <<nmea, located, dht, seq>>

(* The only way out of "hung", and possible at any time. *)
PowerCycle ==
    /\ pc' = "setup"
    /\ nmea' = Blank
    /\ located' = FALSE
    /\ dht' = PowerOn
    /\ outbox' = <<>>
    /\ UNCHANGED <<seq, air>>

Loop == Setup \/ CallGPS \/ CallHumid \/ CallPresTemp \/ Compose \/ Send

TxNext == Loop \/ PowerCycle

(* The station, seen from here: it takes messages out of its FIFO. *)
Taken == air # <<>> /\ air' = Tail(air) /\ UNCHANGED txvars

TxSpec == TxInit /\ [][TxNext \/ Taken]_<<txvars, air>>

(* The processor keeps executing; nothing is assumed of the station.       *)
TxFairSpec == TxSpec /\ WF_<<txvars, air>>(Loop)

-----------------------------------------------------------------------------
(* The program counter, the sensor values and the messages in both queues  *)
(* are of the kinds the sketch declares; the FIFO never exceeds its size.  *)
TxTypeOK ==
    /\ pc \in {"setup", "gps", "humid", "pressure", "compose", "send", "hung"}
    /\ nmea \in [PositionFields -> NmeaValue]
    /\ located \in BOOLEAN
    /\ dht \in Driver
    /\ outbox \in Seq(Packet) /\ (pc = "send" <=> outbox # <<>>)
    /\ seq \in Nat
    /\ air \in Seq(Packet) /\ Len(air) <= Depth

(* callGPS() keeps the parts of a position together: a latitude that is a  *)
(* proper conversion goes with the hemisphere of the same, newest sentence *)
(* and a proper longitude goes with a proper latitude and hemisphere,      *)
(* however many sentences were cut short or missed before.                 *)
PairedFix ==
    /\ nmea.lat.form = "deg" => nmea.lat.lag = 0 /\ nmea.ns.lag = 0
    /\ nmea.lng.form = "deg" =>
          nmea.lng.lag = 0 /\ nmea.ew.lag = 0 /\ nmea.lat.form = "deg"

(* callHumid() leaves a temperature of the newest transfer and a humidity  *)
(* of that transfer or the one before, so a "2:" message never mixes       *)
(* readings further apart, whenever the two-second limit falls between the *)
(* two calls.                                                              *)
HumidTogether == ~dht.first => dht.tc.lag = 0 /\ dht.rh.lag <= 1

(* Sending never waits for the station, nor for anything but two devices:  *)
(* loop() completes round after round, up to the last one examined, unless *)
(* it is caught for good by a GPS receiver that talks on or a BMP085 that  *)
(* does not answer, or power cycles never cease.                           *)
KeepsSending ==
    \/ <>(seq = MaxSeq /\ pc = "gps")
    \/ <>[](pc = "hung")
    \/ []<>(pc = "setup")

(* The comment in callHumid(): "Check if any reads failed and exit early   *)
(* (to try again)".  No message with a failed reading is then ever sent.   *)
FailedReadNotSent ==
    \A i \in 1 .. Len(outbox) : \A k \in 1 .. Len(outbox[i].body) :
        outbox[i].body[k].form # "nan"
=============================================================================
