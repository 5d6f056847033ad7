----------------------------- MODULE DronePass -----------------------------
(***************************************************************************)
(* What a pass of the drone's loop() computes on board besides its         *)
(* messages (see Transmitter): temperature and pressure from the BMP085,   *)
(* the average of the last altitudes, and the page of the drone's display, *)
(* in the order of the program.                                            *)
(***************************************************************************)
EXTENDS Bmp085, Sequences

CONSTANTS
    Calibrations,  \* what bmp085Calibration() may have read
    Uts, Ups,      \* raw temperatures and pressures above the offset b3
    Altitudes,     \* what nmea[8].toFloat() may give
    Beyond,        \* what the memory after altitudeTemp[] may hold
    MySize,        \* MY_SIZE
    Width          \* values of an int, 65536 in the code

ASSUME SizeAssumption == MySize \in Nat \ {0} /\ Width \in Nat /\ Width > 2 * MySize
ASSUME ValuesAssumption ==
    /\ Altitudes \subseteq Int /\ Beyond \subseteq Int /\ Uts \subseteq Nat
    /\ Ups \subseteq Nat \ {0}

(* 50000 * up fits into an unsigned long, for the next reading as well. *)
ASSUME RawAssumption == \A d \in Ups : d < 85899

ASSUME CalibrationAssumption ==
    Calibrations \subseteq
        [{"ac1", "ac2", "ac3", "ac4", "ac5", "ac6", "b1", "b2", "mc", "md"} -> Int]

(* Neither division of the program is by zero: by x1 + md, or by b4, which *)
(* is ac4 (16 bits) times a factor around 1, some 33000 in the example of  *)
(* the data sheet.                                                         *)
ASSUME DivisorAssumption ==
    \A c \in Calibrations, t \in Uts :
        /\ Shr((t - c.ac6) * c.ac5, 15) + c.md > 0
        /\ B4(c, B5(c, t)) \in Nat \ {0}
        /\ B4(c, B5(c, t)) <= 100000

(* (p >> 8) * (p >> 8) * 3038 fits into a long: 840 is the largest p >> 8. *)
ASSUME LongAssumption ==
    \A c \in Calibrations, t \in Uts, d \in Ups : Uncorrected(d, B4(c, B5(c, t))) < 841 * 256

VARIABLES
    pc,            \* what loop() does next
    calibration,
    raw,           \* ghost: the raw readings of this pass
    b5,
    pressure,      \* 0 before the first
    altitudeTemp,
    recent,        \* ghost: the last MySize altitudes, oldest first
    altMean,       \* the sum behind the average, <<>> when there is none
    count, countFinal, monitorCount,
    lcd            \* page on the display: 1, 2, 3, or 0 before the first

bmp   == <<calibration, raw, b5, pressure>>
means == <<altitudeTemp, recent, altMean>>
vars  == <<pc, bmp, means, count, countFinal, monitorCount, lcd>>

NoRaw == [ut |-> 0, up |-> 0]

Init ==
    /\ pc = "temperature"
    /\ calibration \in Calibrations
    /\ raw = NoRaw /\ b5 = 0 /\ pressure = 0
    /\ altitudeTemp = [i \in 0 .. MySize - 1 |-> 0]
    /\ recent = <<>>
    /\ altMean = <<>>
    /\ count = 0 /\ countFinal = 0 /\ monitorCount = 0
    /\ lcd = 0

(* Mutant of B5Stored: the pressure is computed first. *)
B5StoredLate(t) == IF b5 = 0 THEN B5(calibration, t) ELSE b5

(* What bmp085GetTemperature() leaves for bmp085GetPressure(). *)
B5Stored(t) == B5(calibration, t)

(* A device keeps the pass waiting for ever: the loops that wait for bytes *)
(* of the BMP085 have no limit, nor has callGPS() as long as its receiver  *)
(* talks on (see Transmitter).                                             *)
Hangs ==
    /\ pc' = "hung"
    /\ UNCHANGED <<bmp, means, count, countFinal, monitorCount, lcd>>

(* The start of a pass, callGPS() and the raw temperature included. *)
Temperature ==
    /\ pc = "temperature"
    /\ \/ Hangs
       \/ /\ pc' = "pressure"
          /\ \E t \in Uts :
               /\ raw' = [raw EXCEPT !.ut = t]
               /\ b5' = B5Stored(t)
          /\ UNCHANGED <<calibration, pressure, means, count, countFinal, monitorCount, lcd>>

Pressure ==
    /\ pc = "pressure"
    /\ \/ Hangs
       \/ /\ pc' = "altitude"
          /\ \E d \in Ups :
               LET up == d + B3(calibration, b5)
               IN /\ raw' = [raw EXCEPT !.up = up]
                  /\ pressure' = Pascals(calibration, b5, up)
          /\ UNCHANGED <<calibration, b5, means, count, countFinal, monitorCount, lcd>>

(* An altitude that is no number is 0 by toFloat() already.                *)
Altitude ==
    /\ pc = "altitude"
    /\ pc' = "average"
    /\ \E a \in Altitudes :
         /\ altitudeTemp' = [altitudeTemp EXCEPT ![count] = a]
         /\ recent' = IF Len(recent) < MySize THEN Append(recent, a)
                      ELSE Append(Tail(recent), a)
    /\ UNCHANGED <<bmp, altMean, count, countFinal, monitorCount, lcd>>

(* The sum of f[first] to f[last]. *)
Total(f, first, last) ==
    LET sum[i \in first - 1 .. last] == IF i < first THEN 0 ELSE sum[i - 1] + f[i]
    IN sum[last]

(* Mutant of Averaging: one pass too early. *)
AveragingEarly == countFinal >= MySize - 2

Averaging == countFinal >= MySize - 1

(* The loop adds one number more than altitudeTemp[] has.                  *)
Average ==
    /\ pc = "average"
    /\ pc' = "count"
    /\ IF Averaging
       THEN \E v \in Beyond :
               altMean' = <<Total(altitudeTemp, 0, MySize - 1) + v>>
       ELSE UNCHANGED altMean
    /\ UNCHANGED <<bmp, altitudeTemp, recent, count, countFinal, monitorCount, lcd>>

(* Mutant of NextCount: count runs past the array. *)
NextCountPast == IF count > MySize THEN 0 ELSE count + 1

NextCount == IF count + 1 = MySize THEN 0 ELSE count + 1

(* After the four messages; countFinal is never reset and wraps below 0.   *)
Count ==
    /\ pc = "count"
    /\ pc' = "page"
    /\ count' = NextCount
    /\ countFinal' = ((countFinal + 1 + Width \div 2) % Width) - Width \div 2
    /\ UNCHANGED <<bmp, means, monitorCount, lcd>>

(* Mutant of PageOf: the third page is left out. *)
PageOfTwo(m) == IF m \in 0 .. 7 THEN (m \div 4) + 1 ELSE 0

(* The page drawn for a monitorCount, 0 for none: then it starts again.    *)
PageOf(m) == IF m \in 0 .. 11 THEN (m \div 4) + 1 ELSE 0

Page ==
    /\ pc = "page"
    /\ pc' = "temperature"
    /\ IF PageOf(monitorCount) # 0
       THEN lcd' = PageOf(monitorCount) /\ monitorCount' = monitorCount + 1
       ELSE monitorCount' = 0 /\ UNCHANGED lcd
    /\ altMean' = <<>>
    /\ raw' = NoRaw
    /\ UNCHANGED <<calibration, b5, pressure, altitudeTemp, recent, count, countFinal>>

(* while (!Wire.available()) ; *)
Waiting == pc = "hung" /\ UNCHANGED vars

Next == Temperature \/ Pressure \/ Altitude \/ Average \/ Count \/ Page \/ Waiting

Spec == Init /\ [][Next]_vars

(* loop() is called for ever, and the processor gets on wherever it does   *)
(* not wait for a device.                                                  *)
FairSpec == Spec /\ WF_vars(Next)
-----------------------------------------------------------------------------
(* The counters keep their ranges: count stays inside altitudeTemp[], and  *)
(* monitorCount never runs away.                                           *)
TypeOK ==
    /\ pc \in {"temperature", "pressure", "altitude", "average", "count", "page", "hung"}
    /\ DOMAIN altitudeTemp = 0 .. MySize - 1
    /\ count \in 0 .. MySize - 1
    /\ countFinal \in -(Width \div 2) .. Width - 1 - Width \div 2
    /\ monitorCount \in 0 .. 12
    /\ lcd \in 0 .. 3

(* When an average is made the window is full and holds the last MySize    *)
(* altitudes, also after countFinal has wrapped; what is wrong with it is  *)
(* the one number from beyond the array.                                   *)
AverageOfRecent ==
    altMean # <<>> =>
        /\ Len(recent) = MySize
        /\ altMean[1] - Total(recent, 1, MySize) \in Beyond

Measured == pc = "altitude"

(* "must be called before": the pressure of a pass is compensated with the *)
(* temperature of the same pass.                                           *)
PressureOfThisPass ==
    Measured => pressure = Pascals(calibration, B5(calibration, raw.ut), raw.up)

(* What the product made before the shift can cost: the offsets differ by  *)
(* Slack raw units at most, the quotients p by Step.                       *)
Slack(c) == (IF c.b2 < 0 THEN -c.b2 ELSE c.b2) \div 8192 + 1

Step(c, b4) == (100000 * Slack(c)) \div b4 + 2

(* In pascals: the step itself, and what it adds to the square of p >> 8 in*)
(* the last correction, some 9 pascals at sea level.                       *)
Tolerance(c, b4, p) ==
    LET step == Step(c, b4)
        high == (p + step) \div 256
    IN step + 1 + ((2 * (step \div 256 + 1) * high * 3038) \div 65536 + 1) \div 16

(* As long as the product fits into a long, and the raw pressure lies above*)
(* both offsets, the pressure is that of the data sheet up to a Tolerance. *)
PressureNearReference ==
    Measured /\ Fits(calibration, b5) /\ raw.up >= ReferenceB3(calibration, b5) =>
        LET reference == ReferencePascals(calibration, b5, raw.up)
            b4        == B4(calibration, b5)
            tolerance == Tolerance(calibration, b4, Uncorrected(raw.up - B3(calibration, b5), b4))
        IN pressure - reference \in -tolerance .. tolerance

(* A higher raw pressure never gives a lower one, least of all where b7    *)
(* reaches bit 31 and the division comes first.                            *)
PressureMonotone ==
    Measured =>
        LET at == Half + B3(calibration, b5)
        IN \A up \in {raw.up} \cup {at - 1, at} :
               Pascals(calibration, b5, up) <= Pascals(calibration, b5, up + 1)

(* The passes take every page of the display in turn for ever, unless one  *)
(* of them never ends: nothing else on board can leave a page out or stay  *)
(* with one.                                                               *)
PagesRotate == (\A p \in 1 .. 3 : []<>(lcd = p)) \/ <>[](pc = "hung")
=============================================================================
