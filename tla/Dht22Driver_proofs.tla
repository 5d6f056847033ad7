------------------------- MODULE Dht22Driver_proofs -------------------------
(***************************************************************************)
(* What a call of the DHT22 driver does to the object, whatever the sensor *)
(* answers.                                                                *)
(***************************************************************************)
EXTENDS Dht22Driver, TLAPS

(* What read() leaves of the object is an object, and no longer a first    *)
(* reading when the sensor was addressed or had been before.               *)
LEMMA DriverLemma ==
    ASSUME NEW d \in Driver, NEW due \in BOOLEAN, NEW r \in ReadResults(d, due)
    PROVE  /\ r.d \in Driver
           /\ r.fresh \in BOOLEAN
           /\ r.fresh <=> d.first \/ due
           /\ SetHumidity(r) \in Driver /\ SetTemperature(r) \in Driver
           /\ ~r.d.first
           /\ SetHumidity(r).first = r.d.first
           /\ SetTemperature(r).first = r.d.first
<1> DEFINE D == r.d
<1>1. CASE d.first \/ due
  <2>1. PICK o \in Outcomes : r = [fresh |-> TRUE, ok |-> o = "good", d |-> Transfer(d, o)]
    BY <1>1 DEF ReadResults
  <2>2. Older(d.rh) \in Value /\ Older(d.tc) \in Value
    BY DEF Older, Driver, Value, MaxLag
  <2>3. D \in Driver /\ ~D.first /\ D.data \in Outcomes
    BY <2>1, <2>2 DEF Transfer, Driver, Outcomes
  <2>4. Decoded(r) \in Value
    BY <2>1, <2>3 DEF Decoded, Value, Outcomes, MaxLag
  <2> QED
    BY <1>1, <2>1, <2>3, <2>4 DEF SetHumidity, SetTemperature, Driver
<1>2. CASE ~(d.first \/ due)
  <2>1. r = [fresh |-> FALSE, ok |-> TRUE, d |-> d]
    BY <1>2 DEF ReadResults
  <2>2. D \in Driver /\ ~D.first
    BY <1>2, <2>1
  <2>3. Decoded(r) \in Value
    BY <2>1, <2>2 DEF Decoded, Value, Outcomes, MaxLag, Driver
  <2> QED
    BY <1>2, <2>1, <2>2, <2>3 DEF SetHumidity, SetTemperature, Driver
<1> QED BY <1>1, <1>2
=============================================================================
