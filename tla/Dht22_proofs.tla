---------------------------- MODULE Dht22_proofs ----------------------------
(***************************************************************************)
(* The two-second limit of the DHT22 driver holds for every period, every  *)
(* wrap of millis() and every polling gap that Dht22 allows.               *)
(*                                                                         *)
(* The argument: three situations are possible once the sensor has been    *)
(* read.  Either millis() has not wrapped since, or it has and read() has  *)
(* not been called yet, or read() has noticed and counts from 0.           *)
(***************************************************************************)
EXTENDS Dht22, Dht22Driver_proofs, TLAPS

Counting ==
    /\ clock >= lastreadtime
    /\ age = clock - lastreadtime
    /\ age - idle <= Period - 1

Wrapped ==
    /\ clock < lastreadtime
    /\ age = clock + Wrap - lastreadtime
    /\ idle > clock
    /\ age - idle <= Period - 1

Restarted ==
    /\ lastreadtime = 0
    /\ age >= clock
    /\ clock - idle <= Period - 1
    /\ age - clock <= Period - 1 + Gap

Fresh == dht.first /\ age = 0 /\ lastreadtime = 0

IInv == TypeOK /\ (Fresh \/ (~dht.first /\ (Counting \/ Wrapped \/ Restarted)))

USE PeriodAssumption, GapAssumption, WrapAssumption

LEMMA InitIInv == Init => IInv
BY DEF Init, IInv, TypeOK, Fresh, PowerOn, Driver, Value, Zero, Outcomes, MaxLag

LEMMA TickIInv == IInv /\ Tick => IInv'
<1> SUFFICES ASSUME IInv, Tick PROVE IInv'
  OBVIOUS
<1> USE DEF IInv, Tick, TypeOK
<1>1. clock' = IF clock = Wrap - 1 THEN 0 ELSE clock + 1
  OBVIOUS
<1>2. TypeOK'
  BY <1>1
<1>3. CASE Fresh
  BY <1>2, <1>3 DEF Fresh
<1>4. CASE ~dht.first /\ Counting
  BY <1>1, <1>2, <1>4 DEF Counting, Wrapped
<1>5. CASE ~dht.first /\ Wrapped
  BY <1>1, <1>2, <1>5 DEF Wrapped
<1>6. CASE ~dht.first /\ Restarted
  BY <1>1, <1>2, <1>6 DEF Restarted
<1> QED BY <1>3, <1>4, <1>5, <1>6

(* One call of read(), whichever field the caller assigns afterwards.      *)
LEMMA ReadStep ==
    ASSUME IInv, NEW r \in ReadResults(dht, Due), NEW d \in Driver,
           dht' = d, d.first = r.d.first,
           lastreadtime' = IF r.fresh THEN clock ELSE RolledOver,
           age' = IF r.fresh THEN 0 ELSE age,
           idle' = 0, clock' = clock
    PROVE  IInv' /\ (age' < age => age >= Period)
<1> USE DEF IInv, TypeOK
<1>1. Due \in BOOLEAN
  BY DEF Due
<1>2. ~d.first /\ (r.fresh <=> dht.first \/ Due) /\ r.fresh \in BOOLEAN
  BY <1>1, DriverLemma
<1>3. RolledOver \in 0 .. Wrap - 1 /\ RolledOver <= clock
  BY DEF RolledOver
<1>4. TypeOK'
  BY <1>2, <1>3
<1>5. CASE Fresh
  <2>1. r.fresh /\ ~dht'.first /\ age' = 0 /\ age = 0
    BY <1>2, <1>5 DEF Fresh
  <2>2. Counting'
    BY <1>4, <2>1 DEF Counting
  <2> QED BY <1>4, <2>1, <2>2
<1>6. CASE ~dht.first /\ Counting
  BY <1>2, <1>4, <1>6 DEF Counting, Due, RolledOver
<1>7. CASE ~dht.first /\ Wrapped
  BY <1>2, <1>4, <1>7 DEF Wrapped, Counting, Restarted, Due, RolledOver
<1>8. CASE ~dht.first /\ Restarted
  BY <1>2, <1>4, <1>8 DEF Restarted, Counting, Due, RolledOver
<1> QED BY <1>5, <1>6, <1>7, <1>8

LEMMA NextIInv == IInv /\ [Next]_vars => IInv' /\ (age' < age => age >= Period)
<1> SUFFICES ASSUME IInv, [Next]_vars
             PROVE  IInv' /\ (age' < age => age >= Period)
  OBVIOUS
<1>1. Due \in BOOLEAN /\ dht \in Driver
  BY DEF Due, IInv, TypeOK
<1>2. CASE Tick
  BY <1>2, TickIInv DEF Tick, IInv, TypeOK, Fresh
<1>3. CASE ReadHumidity
  <2>1. PICK r \in ReadResults(dht, Due) :
           /\ dht' = SetHumidity(r)
           /\ lastreadtime' = IF r.fresh THEN clock ELSE RolledOver
           /\ age' = IF r.fresh THEN 0 ELSE age
           /\ idle' = 0
           /\ UNCHANGED clock
    BY <1>3 DEF ReadHumidity, Read
  <2>2. SetHumidity(r) \in Driver /\ SetHumidity(r).first = r.d.first
    BY <1>1, DriverLemma
  <2> QED BY <2>1, <2>2, ReadStep
<1>4. CASE ReadTemperature
  <2>1. PICK r \in ReadResults(dht, Due) :
           /\ dht' = SetTemperature(r)
           /\ lastreadtime' = IF r.fresh THEN clock ELSE RolledOver
           /\ age' = IF r.fresh THEN 0 ELSE age
           /\ idle' = 0
           /\ UNCHANGED clock
    BY <1>4 DEF ReadTemperature, Read
  <2>2. SetTemperature(r) \in Driver /\ SetTemperature(r).first = r.d.first
    BY <1>1, DriverLemma
  <2> QED BY <2>1, <2>2, ReadStep
<1>5. CASE UNCHANGED vars
  BY <1>5 DEF vars, IInv, TypeOK, Fresh, Counting, Wrapped, Restarted
<1> QED BY <1>2, <1>3, <1>4, <1>5 DEF Next

LEMMA Inductive == Spec => []IInv
<1>1. IInv /\ [Next]_vars => IInv'
  BY NextIInv
<1> QED BY InitIInv, <1>1, PTL DEF Spec

(* The variables of the driver keep their types. *)
THEOREM TypeCorrect == Spec => []TypeOK
<1>1. IInv => TypeOK
  BY DEF IInv
<1> QED BY Inductive, <1>1, PTL

(* No reading served is older than two limits and a gap. *)
THEOREM ServedAgeBounded == Spec => []AgeBounded
<1>1. IInv => AgeBounded
  BY DEF IInv, TypeOK, AgeBounded, ServedAge, Fresh, Counting, Wrapped, Restarted
<1> QED BY Inductive, <1>1, PTL

(* The sensor is never addressed twice within the limit. *)
THEOREM SensorNotHurried == Spec => RateLimit
<1>1. IInv /\ [Next]_vars => [age' < age => age >= Period]_vars
  BY NextIInv
<1> QED BY Inductive, <1>1, PTL DEF Spec, RateLimit
=============================================================================
