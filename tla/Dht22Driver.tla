---------------------------- MODULE Dht22Driver ----------------------------
(***************************************************************************)
(* The DHT22 driver of cactus_io (Arduino/libraries/cactus_io_DHT22) as    *)
(* operators on the record of an object's fields, apart from the clock:    *)
(*                                                                         *)
(*   first   firstreading                                                  *)
(*   data    what data[] holds: "zero" (nothing read yet), "good" (40 bits *)
(*           and a matching checksum) or "bad" (a failed transfer)         *)
(*   rh      humidity, tc  temperature_C (temperature_F goes with it)      *)
(*                                                                         *)
(* A value is a record: form "nan" is NAN, the other forms name the data   *)
(* the number was computed from; lag counts the sensor transfers begun     *)
(* since the value was assigned (saturating at MaxLag, nothing looks       *)
(* further back).                                                          *)
(***************************************************************************)
EXTENDS Naturals

MaxLag == 2

Outcomes == {"good", "bad"}
Value    == [form : {"zero", "good", "bad", "nan"}, lag : 0 .. MaxLag]
Driver   == [first : BOOLEAN, data : {"zero"} \cup Outcomes,
             rh : Value, tc : Value]

Zero    == [form |-> "zero", lag |-> 0]
PowerOn == [first |-> TRUE, data |-> "zero", rh |-> Zero, tc |-> Zero]

Older(v) == [v EXCEPT !.lag = IF @ < MaxLag THEN @ + 1 ELSE @]

(* The transfer in read(): data[] is cleared and refilled bit by bit, so   *)
(* its old contents are gone whatever the outcome.                         *)
Transfer(d, outcome) ==
    [first |-> FALSE, data |-> outcome, rh |-> Older(d.rh), tc |-> Older(d.tc)]

(* read(): the results it may return, with the object it leaves behind.    *)
(* "due" is the test of the two-second limit; when it fails read() says    *)
(* true without looking at how the last transfer ended.                    *)
ReadResults(d, due) ==
    IF d.first \/ due
    THEN {[fresh |-> TRUE, ok |-> o = "good", d |-> Transfer(d, o)] : o \in Outcomes}
    ELSE {[fresh |-> FALSE, ok |-> TRUE, d |-> d]}

Decoded(r) == [form |-> IF r.ok THEN r.d.data ELSE "nan", lag |-> 0]

(* The assignments of readHumidity() and readTemperature() after read().   *)
SetHumidity(r)    == [r.d EXCEPT !.rh = Decoded(r)]
SetTemperature(r) == [r.d EXCEPT !.tc = Decoded(r)]
=============================================================================
