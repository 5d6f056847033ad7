-------------------------- MODULE DronePass_proofs --------------------------
(***************************************************************************)
(* For every calibration, window length and width of an int: the counters  *)
(* of a pass keep their ranges, a pressure is compensated with the         *)
(* temperature of its own pass, an average is that of the last altitudes,  *)
(* a higher raw pressure never gives a lower one, and where the product of *)
(* the offset fits into a long the pressure is that of the data sheet up to*)
(* a Tolerance.                                                            *)
(*                                                                         *)
(* The arguments: only Temperature assigns b5, and Pressure always comes   *)
(* right after it; altitudeTemp[] is filled from its start while           *)
(* countFinal counts with count, then is a ring (Window), whose sum is     *)
(* that of its numbers in any rotation (RingTotal, by induction on the     *)
(* partial sums); each step of the pressure arithmetic is monotone; and    *)
(* what the early product and the late doubling cost is followed through   *)
(* offset, quotient and correction (OffsetsNear, QuotientsNear,            *)
(* CorrectedNear).                                                         *)
(***************************************************************************)
EXTENDS DronePass, TLAPS, WellFoundedInduction, SequenceTheorems

USE SizeAssumption

LEMMA WrapLemma ==
    ASSUME NEW x \in Int
    PROVE  ((x + Width \div 2) % Width) - Width \div 2
             \in -(Width \div 2) .. Width - 1 - Width \div 2
<1>1. Width \in Nat \ {0} /\ Width \div 2 \in Int
  OBVIOUS
<1>2. (x + Width \div 2) % Width \in 0 .. Width - 1
  <2> DEFINE y == x + Width \div 2
  <2>1. y \in Int
    BY <1>1
  <2> HIDE DEF y
  <2>2. y % Width \in 0 .. Width - 1
    BY <1>1, <2>1
  <2> QED BY <2>2 DEF y
<1> DEFINE z == (x + Width \div 2) % Width
           h == Width \div 2
<1> HIDE DEF z, h
<1>3. z \in 0 .. Width - 1 /\ h \in Int
  BY <1>1, <1>2 DEF z, h
<1>4. z - h \in -h .. Width - 1 - h
  BY <1>1, <1>3
<1> QED BY <1>4 DEF z, h

LEMMA SmallModulo == \A y \in 0 .. Width - 1 : y % Width = y
<1> SUFFICES ASSUME NEW y \in 0 .. Width - 1 PROVE y % Width = y
  OBVIOUS
<1> DEFINE q == y \div Width
           r == y % Width
<1>1. q \in Int /\ r \in 0 .. Width - 1 /\ y = Width * q + r
  OBVIOUS
<1> HIDE DEF q, r
<1>2. q >= 1 => Width * q >= Width
  BY <1>1
<1>3. q <= -1 => Width * q <= -Width
  BY <1>1
<1>4. q = 0
  BY <1>1, <1>2, <1>3
<1>5. y = r
  BY <1>1, <1>4
<1> QED BY <1>5 DEF r

LEMMA PageLemma ==
    ASSUME NEW m \in 0 .. 12
    PROVE  /\ PageOf(m) \in 0 .. 3
           /\ PageOf(m) # 0 => m + 1 \in 0 .. 12
BY DEF PageOf

LEMMA InitTypeOK == Init => TypeOK
<1> SUFFICES ASSUME Init PROVE TypeOK
  OBVIOUS
<1>1. countFinal \in -(Width \div 2) .. Width - 1 - Width \div 2
  BY DEF Init
<1> QED BY <1>1 DEF Init, TypeOK

LEMMA NextTypeOK == TypeOK /\ [Next]_vars => TypeOK'
<1> SUFFICES ASSUME TypeOK, [Next]_vars PROVE TypeOK'
  OBVIOUS
<1> DEFINE Finals == -(Width \div 2) .. Width - 1 - Width \div 2
<1>1. CASE Temperature
  BY <1>1 DEF Temperature, Hangs, TypeOK, means
<1>2. CASE Pressure
  BY <1>2 DEF Pressure, Hangs, TypeOK, means
<1>3. CASE Altitude
  BY <1>3 DEF Altitude, TypeOK
<1>4. CASE Average
  BY <1>4 DEF Average, TypeOK
<1>5. CASE Count
  <2>1. count' \in 0 .. MySize - 1
    BY <1>5 DEF Count, NextCount, TypeOK
  <2>2. countFinal \in Int
    BY DEF TypeOK
  <2>3. countFinal' \in Finals
    <3>1. countFinal' = (((countFinal + 1) + Width \div 2) % Width) - Width \div 2
      BY <1>5 DEF Count
    <3>2. countFinal + 1 \in Int
      BY <2>2
    <3> QED BY <3>1, <3>2, WrapLemma
  <2> QED BY <1>5, <2>1, <2>3 DEF Count, TypeOK, means
<1>6. CASE Page
  <2>1. monitorCount' \in 0 .. 12 /\ lcd' \in 0 .. 3
    BY <1>6, PageLemma DEF Page, TypeOK
  <2> QED BY <1>6, <2>1 DEF Page, TypeOK
<1>7. CASE UNCHANGED vars
  BY <1>7 DEF vars, means, TypeOK
<1> QED BY <1>1, <1>2, <1>3, <1>4, <1>5, <1>6, <1>7 DEF Next, Waiting

(* The counters keep their ranges for ever: nothing is stored beyond       *)
(* altitudeTemp[], also after countFinal has wrapped.                      *)
THEOREM CountersInRange == Spec => []TypeOK
BY InitTypeOK, NextTypeOK, PTL DEF Spec
-----------------------------------------------------------------------------
B5OfThisPass == pc = "pressure" => b5 = B5(calibration, raw.ut)

IInv ==
    /\ raw = [ut |-> raw.ut, up |-> raw.up]
    /\ B5OfThisPass
    /\ PressureOfThisPass

LEMMA NextIInv == IInv /\ [Next]_vars => IInv'
<1> SUFFICES ASSUME IInv, [Next]_vars PROVE IInv'
  OBVIOUS
<1>1. CASE Temperature
  BY <1>1 DEF Temperature, Hangs, B5Stored, IInv, B5OfThisPass, PressureOfThisPass, Measured, bmp
<1>2. CASE Pressure
  BY <1>2 DEF Pressure, Hangs, IInv, B5OfThisPass, PressureOfThisPass, Measured, bmp
<1>3. CASE Altitude
  BY <1>3 DEF Altitude, IInv, B5OfThisPass, PressureOfThisPass, Measured, bmp
<1>4. CASE Average
  BY <1>4 DEF Average, IInv, B5OfThisPass, PressureOfThisPass, Measured, bmp
<1>5. CASE Count
  BY <1>5 DEF Count, IInv, B5OfThisPass, PressureOfThisPass, Measured, bmp
<1>6. CASE Page
  BY <1>6 DEF Page, IInv, B5OfThisPass, PressureOfThisPass, Measured, NoRaw
<1>7. CASE UNCHANGED vars
  BY <1>7 DEF vars, bmp, IInv, B5OfThisPass, PressureOfThisPass, Measured
<1> QED BY <1>1, <1>2, <1>3, <1>4, <1>5, <1>6, <1>7 DEF Next, Waiting

(* "must be called before": the pressure of a pass is made with the        *)
(* temperature of the same pass, whatever the sensor's calibration.        *)
THEOREM PressureUsesThisTemperature == Spec => []PressureOfThisPass
<1>1. Init => IInv
  BY DEF Init, NoRaw, IInv, B5OfThisPass, PressureOfThisPass, Measured
<1>2. IInv => PressureOfThisPass
  BY DEF IInv
<1> QED BY <1>1, <1>2, NextIInv, PTL DEF Spec
-----------------------------------------------------------------------------
(* Induction over Nat in the form the provers can use: a set that holds 0  *)
(* and is closed under + 1 holds every number, as the least number outside *)
(* it would have a predecessor.                                            *)
Less == OpToRel(<, Nat)
LEMMA LessDef == \A x, y \in Nat : <<x, y>> \in Less <=> x < y
BY DEF Less, OpToRel
LEMMA LessWF == IsWellFoundedOn(Less, Nat)
BY NatLessThanWellFounded, Zenon DEF Less
LEMMA NatSetInduction ==
   ASSUME NEW S, 0 \in S, \A n \in Nat : n \in S => n + 1 \in S
   PROVE  Nat \subseteq S
<1> DEFINE T == Nat \ S
<1> SUFFICES ASSUME T # {} PROVE FALSE
  OBVIOUS
<1>1. T \subseteq Nat
  OBVIOUS
<1> HIDE DEF T
<1>2. PICK x \in T : \A y \in T : ~(<<y, x>> \in Less)
  BY <1>1, LessWF, WFMin
<1>3. x \in Nat /\ x \notin S
  BY DEF T
<1>4. x # 0
  BY <1>3
<1>5. x - 1 \in Nat /\ (x - 1) + 1 = x
  BY <1>3, <1>4
<1>6. x - 1 \notin S
  BY <1>3, <1>5
<1>7. x - 1 \in T
  BY <1>5, <1>6 DEF T
<1>8. x - 1 < x
  BY <1>3
<1>9. <<x - 1, x>> \in Less
  BY <1>3, <1>5, <1>8, LessDef
<1> QED BY <1>2, <1>7, <1>9
-----------------------------------------------------------------------------
(* s holds the partial sums of f from first on. *)
IsSum(s, f, first, last) ==
    s = [i \in first - 1 .. last |-> IF i < first THEN 0 ELSE s[i - 1] + f[i]]

LEMMA SumStep ==
    ASSUME NEW f, NEW s, NEW a \in Int, NEW b \in Int, IsSum(s, f, a, b), a - 1 <= b
    PROVE  /\ DOMAIN s = a - 1 .. b
           /\ s[a - 1] = 0
           /\ \A i \in a .. b : s[i] = s[i - 1] + f[i]
<1>1. a - 1 \in a - 1 .. b
  OBVIOUS
<1>2. \A i \in a .. b : i \in a - 1 .. b /\ ~(i < a)
  OBVIOUS
<1> DEFINE F == [i \in a - 1 .. b |-> IF i < a THEN 0 ELSE s[i - 1] + f[i]]
<1>3. s = F
  BY DEF IsSum
<1>4. DOMAIN F = a - 1 .. b /\ F[a - 1] = 0
  BY <1>1
<1>5. \A i \in a .. b : F[i] = s[i - 1] + f[i]
  BY <1>2
<1> HIDE DEF F
<1> QED BY <1>3, <1>4, <1>5

LEMMA SumExists ==
    ASSUME NEW f, NEW a \in Int
    PROVE  \A n \in Nat : \E s : IsSum(s, f, a, a - 1 + n)
<1> DEFINE S == {n \in Nat : \E s : IsSum(s, f, a, a - 1 + n)}
<1>1. 0 \in S
  <2> DEFINE s == [i \in {a - 1} |-> 0]
  <2>1. a - 1 .. a - 1 + 0 = {a - 1}
    OBVIOUS
  <2>2. s = [i \in {a - 1} |-> IF i < a THEN 0 ELSE s[i - 1] + f[i]]
    OBVIOUS
  <2>3. IsSum(s, f, a, a - 1 + 0)
    BY <2>1, <2>2 DEF IsSum
  <2> QED BY <2>3
<1>2. \A n \in Nat : n \in S => n + 1 \in S
  <2> SUFFICES ASSUME NEW n \in Nat, n \in S PROVE n + 1 \in S
    OBVIOUS
  <2> DEFINE b == a - 1 + n
  <2>1. PICK s : IsSum(s, f, a, b)
    OBVIOUS
  <2>2. b \in Int /\ a - 1 <= b /\ a - 1 + (n + 1) = b + 1 /\ a <= b + 1
    OBVIOUS
  <2> HIDE DEF b
  <2>3. /\ s[a - 1] = 0
        /\ \A i \in a .. b : s[i] = s[i - 1] + f[i]
    BY <2>1, <2>2, SumStep
  <2> DEFINE t == [i \in a - 1 .. b + 1 |-> IF i = b + 1 THEN s[b] + f[i] ELSE s[i]]
  <2>4. ASSUME NEW i \in a - 1 .. b + 1
        PROVE  t[i] = IF i < a THEN 0 ELSE t[i - 1] + f[i]
    <3>1. CASE i < a
      <4>1. i = a - 1 /\ i # b + 1
        BY <3>1, <2>2
      <4> QED BY <3>1, <4>1, <2>3
    <3>2. CASE i = b + 1
      <4>1. ~(i < a) /\ i - 1 = b /\ b # b + 1 /\ b \in a - 1 .. b + 1
        BY <3>2, <2>2
      <4>2. t[b] = s[b]
        BY <4>1
      <4>3. t[i] = s[b] + f[i]
        BY <3>2
      <4> QED BY <4>1, <4>2, <4>3
    <3>3. CASE i \in a .. b
      <4>1. ~(i < a) /\ i # b + 1 /\ i - 1 # b + 1 /\ i - 1 \in a - 1 .. b + 1
        BY <3>3, <2>2
      <4>2. t[i] = s[i] /\ t[i - 1] = s[i - 1]
        BY <4>1
      <4> QED BY <3>3, <4>1, <4>2, <2>3
    <3> QED BY <3>1, <3>2, <3>3, <2>2
  <2>5. t = [i \in a - 1 .. b + 1 |-> t[i]]
    OBVIOUS
  <2> HIDE DEF t
  <2>6. IsSum(t, f, a, b + 1)
    BY <2>4, <2>5 DEF IsSum
  <2> QED BY <2>6, <2>2
<1> HIDE DEF S
<1>3. Nat \subseteq S
  BY <1>1, <1>2, NatSetInduction
<1> QED BY <1>3 DEF S

LEMMA TotalIsSum ==
    ASSUME NEW f, NEW a \in Int, NEW b \in Int, a - 1 <= b
    PROVE  \E s : IsSum(s, f, a, b) /\ Total(f, a, b) = s[b]
<1>1. b - (a - 1) \in Nat /\ a - 1 + (b - (a - 1)) = b
  OBVIOUS
<1>2. \E s : IsSum(s, f, a, b)
  <2> DEFINE n == b - (a - 1)
  <2>1. n \in Nat /\ a - 1 + n = b
    OBVIOUS
  <2> HIDE DEF n
  <2>2. \E s : IsSum(s, f, a, a - 1 + n)
    BY <2>1, SumExists
  <2> QED BY <2>1, <2>2
<1>3. IsSum(CHOOSE s : IsSum(s, f, a, b), f, a, b)
  BY <1>2, Zenon
<1>4. Total(f, a, b) = (CHOOSE s : IsSum(s, f, a, b))[b]
  BY Zenon DEF Total, IsSum
<1> QED BY <1>3, <1>4, Zenon

(* Two stretches of the same numbers have the same partial sums. *)
LEMMA SumShift ==
    ASSUME NEW f, NEW g, NEW s, NEW t, NEW a \in Int, NEW b \in Int, NEW c \in Int, NEW d \in Int,
           IsSum(s, f, a, b), IsSum(t, g, c, d), a - 1 <= b, b - a <= d - c,
           \A j \in 0 .. b - a : f[a + j] = g[c + j]
    PROVE  \A j \in 0 .. b - a + 1 : s[a - 1 + j] = t[c - 1 + j]
<1> DEFINE S == {n \in Nat : n <= b - a + 1 => s[a - 1 + n] = t[c - 1 + n]}
<1>0. c - 1 <= d
  OBVIOUS
<1>1. s[a - 1] = 0 /\ \A i \in a .. b : s[i] = s[i - 1] + f[i]
  BY SumStep
<1>2. t[c - 1] = 0 /\ \A i \in c .. d : t[i] = t[i - 1] + g[i]
  BY <1>0, SumStep
<1>3. 0 \in S
  BY <1>1, <1>2
<1>4. \A n \in Nat : n \in S => n + 1 \in S
  <2> SUFFICES ASSUME NEW n \in Nat, n \in S, n + 1 <= b - a + 1 PROVE s[a - 1 + (n + 1)] = t[c - 1 + (n + 1)]
    OBVIOUS
  <2>1. a + n \in a .. b /\ c + n \in c .. d /\ n \in 0 .. b - a
    OBVIOUS
  <2>2. a + n - 1 = a - 1 + n /\ c + n - 1 = c - 1 + n /\ a - 1 + (n + 1) = a + n /\ c - 1 + (n + 1) = c + n
    OBVIOUS
  <2>3. s[a + n] = s[a - 1 + n] + f[a + n]
    BY <1>1, <2>1, <2>2
  <2>4. t[c + n] = t[c - 1 + n] + g[c + n]
    BY <1>2, <2>1, <2>2
  <2>5. s[a - 1 + n] = t[c - 1 + n]
    OBVIOUS
  <2>6. f[a + n] = g[c + n]
    BY <2>1
  <2> QED BY <2>2, <2>3, <2>4, <2>5, <2>6
<1> HIDE DEF S
<1>5. Nat \subseteq S
  BY <1>3, <1>4, NatSetInduction
<1>6. ASSUME NEW j \in 0 .. b - a + 1 PROVE s[a - 1 + j] = t[c - 1 + j]
  <2>1. j \in Nat /\ j <= b - a + 1
    OBVIOUS
  <2> QED BY <2>1, <1>5 DEF S
<1> QED BY <1>6

(* f from a on and g from c on have the same n + 1 numbers. *)
Same(f, a, g, c, n) == \A j \in 0 .. n : f[a + j] = g[c + j]

LEMMA TotalSame ==
    ASSUME NEW f, NEW g, NEW a \in Int, NEW c \in Int, NEW n \in Int, -1 <= n,
           Same(f, a, g, c, n)
    PROVE  Total(f, a, a + n) = Total(g, c, c + n)
<1> DEFINE b == a + n
           d == c + n
<1>1. b \in Int /\ d \in Int /\ a - 1 <= b /\ b - a = n /\ d - c = n /\ c - 1 <= d
  OBVIOUS
<1> HIDE DEF b, d
<1>2. PICK s : IsSum(s, f, a, b) /\ Total(f, a, b) = s[b]
  BY <1>1, TotalIsSum
<1>3. PICK t : IsSum(t, g, c, d) /\ Total(g, c, d) = t[d]
  BY <1>1, TotalIsSum
<1>4. b - a <= d - c /\ \A j \in 0 .. b - a : f[a + j] = g[c + j]
  BY <1>1 DEF Same
<1>5. \A j \in 0 .. b - a + 1 : s[a - 1 + j] = t[c - 1 + j]
  BY <1>1, <1>2, <1>3, <1>4, SumShift
<1>6. s[b] = t[d]
  <2> DEFINE j == b - a + 1
  <2>1. j \in 0 .. b - a + 1 /\ a - 1 + j = b /\ c - 1 + j = d
    BY <1>1
  <2> HIDE DEF j
  <2> QED BY <2>1, <1>5
<1>7. Total(f, a, b) = Total(g, c, d)
  BY <1>2, <1>3, <1>6
<1> QED BY <1>7 DEF b, d

LEMMA TotalInt ==
    ASSUME NEW f, NEW a \in Int, NEW b \in Int, a - 1 <= b, \A i \in a .. b : f[i] \in Int
    PROVE  Total(f, a, b) \in Int
<1>1. PICK s : IsSum(s, f, a, b) /\ Total(f, a, b) = s[b]
  BY TotalIsSum
<1>2. s[a - 1] = 0 /\ \A i \in a .. b : s[i] = s[i - 1] + f[i]
  BY <1>1, SumStep
<1> DEFINE S == {n \in Nat : n <= b - a + 1 => s[a - 1 + n] \in Int}
<1>3. 0 \in S
  BY <1>2
<1>4. \A n \in Nat : n \in S => n + 1 \in S
  <2> SUFFICES ASSUME NEW n \in Nat, n \in S, n + 1 <= b - a + 1 PROVE s[a - 1 + (n + 1)] \in Int
    OBVIOUS
  <2>1. a + n \in a .. b
    OBVIOUS
  <2>2. a + n - 1 = a - 1 + n /\ a - 1 + (n + 1) = a + n
    OBVIOUS
  <2>3. s[a + n] = s[a - 1 + n] + f[a + n]
    BY <1>2, <2>1, <2>2
  <2>4. s[a - 1 + n] \in Int /\ f[a + n] \in Int
    BY <2>1
  <2> QED BY <2>2, <2>3, <2>4
<1> HIDE DEF S
<1>5. Nat \subseteq S
  BY <1>3, <1>4, NatSetInduction
<1>6. b - a + 1 \in Nat /\ a - 1 + (b - a + 1) = b
  OBVIOUS
<1>7. s[b] \in Int
  <2> DEFINE j == b - a + 1
  <2>1. j \in Nat /\ a - 1 + j = b /\ j <= b - a + 1
    BY <1>6
  <2> HIDE DEF j
  <2> QED BY <2>1, <1>5 DEF S
<1> QED BY <1>1, <1>7

LEMMA TotalSplit ==
    ASSUME NEW f, NEW a \in Int, NEW b \in Int, NEW c \in Int, a - 1 <= b, b <= c,
           \A i \in a .. c : f[i] \in Int
    PROVE  Total(f, a, c) = Total(f, a, b) + Total(f, b + 1, c)
<1>0. a - 1 <= c /\ (b + 1) - 1 <= c /\ b + 1 \in Int /\ (b + 1) - 1 = b
  OBVIOUS
<1>1. PICK s : IsSum(s, f, a, c) /\ Total(f, a, c) = s[c]
  BY <1>0, TotalIsSum
<1>2. PICK u : IsSum(u, f, b + 1, c) /\ Total(f, b + 1, c) = u[c]
  BY <1>0, TotalIsSum
<1>3. PICK r : IsSum(r, f, a, b) /\ Total(f, a, b) = r[b]
  BY TotalIsSum
<1>4. s[b] = r[b]
  <2>1. b - a <= c - a /\ \A j \in 0 .. b - a : f[a + j] = f[a + j]
    OBVIOUS
  <2>2. \A j \in 0 .. b - a + 1 : r[a - 1 + j] = s[a - 1 + j]
    BY <1>1, <1>3, <2>1, SumShift
  <2> DEFINE j == b - a + 1
  <2>3. j \in 0 .. b - a + 1 /\ a - 1 + j = b
    OBVIOUS
  <2> HIDE DEF j
  <2> QED BY <2>2, <2>3
<1>5. \A i \in a .. c : s[i] = s[i - 1] + f[i]
  BY <1>0, <1>1, SumStep
<1>6. u[b] = 0 /\ \A i \in b + 1 .. c : u[i] = u[i - 1] + f[i]
  BY <1>0, <1>2, SumStep
<1>7. s[b] \in Int
  <2>1. \A i \in a .. b : f[i] \in Int
    OBVIOUS
  <2> QED BY <1>3, <1>4, <2>1, TotalInt
<1> DEFINE S == {n \in Nat : n <= c - b => s[b + n] = s[b] + u[b + n] /\ u[b + n] \in Int}
<1>8. 0 \in S
  BY <1>6, <1>7
<1>9. \A n \in Nat : n \in S => n + 1 \in S
  <2> SUFFICES ASSUME NEW n \in Nat, n \in S, n + 1 <= c - b
               PROVE s[b + (n + 1)] = s[b] + u[b + (n + 1)] /\ u[b + (n + 1)] \in Int
    OBVIOUS
  <2> DEFINE m == b + n + 1
  <2>1. m \in a .. c /\ m \in b + 1 .. c /\ m - 1 = b + n /\ b + (n + 1) = m
    OBVIOUS
  <2>2. s[b + n] = s[b] + u[b + n] /\ u[b + n] \in Int
    OBVIOUS
  <2> HIDE DEF m
  <2>3. s[m] = s[b + n] + f[m] /\ u[m] = u[b + n] + f[m] /\ f[m] \in Int
    BY <1>5, <1>6, <2>1
  <2>4. s[m] = s[b] + u[m] /\ u[m] \in Int
    BY <2>2, <2>3, <1>7
  <2> QED BY <2>1, <2>4
<1> HIDE DEF S
<1>10. Nat \subseteq S
  BY <1>8, <1>9, NatSetInduction
<1>11. s[c] = s[b] + u[c]
  <2> DEFINE j == c - b
  <2>1. j \in Nat /\ b + j = c /\ j <= c - b
    OBVIOUS
  <2> HIDE DEF j
  <2> QED BY <2>1, <1>10 DEF S
<1> QED BY <1>1, <1>2, <1>3, <1>4, <1>11
-----------------------------------------------------------------------------
(* The new altitude is stored and count does not point behind it yet.      *)
Stored == pc \in {"average", "count"}

NextSlot == IF Stored THEN NextCount ELSE count

(* Where altitudeTemp[] has the i-th of the last altitudes when the oldest *)
(* of them is in slot k.                                                   *)
Slot(k, i) == IF k + i - 1 < MySize THEN k + i - 1 ELSE k + i - 1 - MySize

(* altitudeTemp[] is filled from its start, while countFinal counts with   *)
(* count, and then is a ring whose oldest altitude is overwritten next.    *)
Window ==
    /\ Len(recent) <= MySize
    /\ Len(recent) < MySize =>
          /\ Len(recent) = (IF Stored THEN count + 1 ELSE count)
          /\ countFinal = count
          /\ \A i \in 1 .. Len(recent) : recent[i] = altitudeTemp[i - 1]
    /\ Len(recent) = MySize =>
          \A i \in 1 .. MySize : recent[i] = altitudeTemp[Slot(NextSlot, i)]

WInv ==
    /\ TypeOK
    /\ recent \in Seq(Int) /\ altitudeTemp \in [0 .. MySize - 1 -> Int]
    /\ Window
    /\ pc \notin {"count", "page"} => altMean = <<>>
    /\ AverageOfRecent

(* The ring and the last altitudes have the same sum.                      *)
LEMMA RingTotal ==
    ASSUME NEW T, NEW r, \A i \in 0 .. MySize - 1 : T[i] \in Int,
           NEW k \in 0 .. MySize - 1, \A i \in 1 .. MySize : r[i] = T[Slot(k, i)]
    PROVE  Total(T, 0, MySize - 1) = Total(r, 1, MySize)
<1> DEFINE m == MySize - k
<1>1. /\ m \in 1 .. MySize /\ MySize = m + k /\ MySize \in Int
      /\ k \in Int /\ m \in Int /\ 0 <= m /\ 0 <= k /\ MySize - 1 \in Int
  OBVIOUS
<1>2. \A i \in 1 .. MySize : r[i] \in Int
  <2> SUFFICES ASSUME NEW i \in 1 .. MySize PROVE r[i] \in Int
    OBVIOUS
  <2>1. Slot(k, i) \in 0 .. MySize - 1
    BY DEF Slot
  <2> QED BY <2>1
<1>3. \A i \in 0 .. MySize - 1 : T[i] \in Int
  OBVIOUS
<1> HIDE DEF m
<1>4. Total(r, 1, MySize) = Total(r, 1, m) + Total(r, m + 1, MySize)
  <2>1. 1 \in Int /\ 1 - 1 <= m /\ m <= MySize
    BY <1>1
  <2> QED BY <1>1, <1>2, <2>1, TotalSplit
<1>5. Total(T, 0, MySize - 1) = Total(T, 0, k - 1) + Total(T, k, MySize - 1)
  <2>1. 0 \in Int /\ k - 1 \in Int /\ 0 - 1 <= k - 1 /\ k - 1 <= MySize - 1 /\ (k - 1) + 1 = k
    BY <1>1
  <2>2. Total(T, 0, MySize - 1) = Total(T, 0, k - 1) + Total(T, (k - 1) + 1, MySize - 1)
    BY <1>1, <1>3, <2>1, TotalSplit
  <2> QED BY <2>1, <2>2
<1>6. Total(r, 1, m) = Total(T, k, MySize - 1)
  <2> DEFINE n == m - 1
  <2>1. n \in Int /\ -1 <= n /\ 1 + n = m /\ k + n = MySize - 1
    BY <1>1
  <2> HIDE DEF n
  <2>2. Same(r, 1, T, k, n)
    <3> SUFFICES ASSUME NEW i \in 0 .. n PROVE r[1 + i] = T[k + i]
      BY DEF Same
    <3>1. 1 + i \in 1 .. MySize /\ Slot(k, 1 + i) = k + i
      BY <1>1, <2>1 DEF Slot
    <3> QED BY <3>1
  <2>3. Total(r, 1, 1 + n) = Total(T, k, k + n)
    BY <1>1, <2>1, <2>2, TotalSame
  <2> QED BY <2>1, <2>3, Zenon
<1>7. Total(r, m + 1, MySize) = Total(T, 0, k - 1)
  <2> DEFINE n    == k - 1
             from == m + 1
  <2>1. n \in Int /\ -1 <= n /\ from + n = MySize /\ 0 + n = k - 1 /\ from \in Int /\ from = m + 1
    BY <1>1
  <2> HIDE DEF n, from
  <2>2. Same(r, from, T, 0, n)
    <3> SUFFICES ASSUME NEW i \in 0 .. n PROVE r[from + i] = T[0 + i]
      BY DEF Same
    <3>1. from + i \in 1 .. MySize /\ Slot(k, from + i) = 0 + i
      BY <1>1, <2>1 DEF Slot
    <3> QED BY <3>1
  <2>3. Total(r, from, from + n) = Total(T, 0, 0 + n)
    BY <2>1, <2>2, TotalSame
  <2> QED BY <2>1, <2>3, Zenon
<1>8. Total(T, 0, k - 1) \in Int /\ Total(T, k, MySize - 1) \in Int
  <2>1. \A i \in 0 .. k - 1 : T[i] \in Int
    BY <1>1, <1>3
  <2>2. \A i \in k .. MySize - 1 : T[i] \in Int
    BY <1>1, <1>3
  <2>3. 0 - 1 <= k - 1 /\ k - 1 \in Int /\ k - 1 <= MySize - 1
    BY <1>1
  <2>4. Total(T, 0, k - 1) \in Int
    BY <2>1, <2>3, TotalInt
  <2>5. Total(T, k, MySize - 1) \in Int
    BY <1>1, <2>2, <2>3, TotalInt
  <2> QED BY <2>4, <2>5
<1> QED BY <1>4, <1>5, <1>6, <1>7, <1>8

LEMMA ValuesInt == Altitudes \subseteq Int /\ Beyond \subseteq Int
BY ValuesAssumption, SMT

LEMMA InitWInv == Init => WInv
<1> SUFFICES ASSUME Init PROVE WInv
  OBVIOUS
<1>1. recent \in Seq(Int) /\ Len(recent) = 0
  BY EmptySeq DEF Init
<1>2. altitudeTemp \in [0 .. MySize - 1 -> Int]
  BY DEF Init
<1>3. Window
  BY <1>1 DEF Init, Window, Stored
<1> QED BY <1>1, <1>2, <1>3, InitTypeOK DEF Init, WInv, AverageOfRecent

(* What the steps that store nothing and count nothing keep. *)
LEMMA QuietWInv ==
    ASSUME WInv, TypeOK', Stored' = Stored,
           UNCHANGED <<altitudeTemp, recent, count, countFinal>>,
           altMean' = <<>> \/ (altMean' = altMean /\ pc' = pc)
    PROVE  WInv'
<1>1. Window'
  BY DEF WInv, Window, NextSlot, NextCount, Slot
<1>2. AverageOfRecent'
  BY DEF WInv, AverageOfRecent
<1> QED BY <1>1, <1>2 DEF WInv

LEMMA AltitudeWInv == WInv /\ Altitude /\ TypeOK' => WInv'
<1> SUFFICES ASSUME WInv, Altitude, TypeOK' PROVE WInv'
  OBVIOUS
<1> USE DEF WInv
<1>0. /\ count \in 0 .. MySize - 1 /\ pc = "altitude" /\ pc' = "average" /\ count' = count
      /\ countFinal' = countFinal /\ altMean = <<>> /\ altMean' = <<>>
  BY DEF TypeOK, Altitude
<1>1. PICK a \in Altitudes :
         /\ altitudeTemp' = [altitudeTemp EXCEPT ![count] = a]
         /\ recent' = IF Len(recent) < MySize THEN Append(recent, a) ELSE Append(Tail(recent), a)
  <2> HIDE DEF WInv
  <2> QED BY Zenon DEF Altitude
<1>a. a \in Int
  BY ValuesInt
<1>2. altitudeTemp' \in [0 .. MySize - 1 -> Int]
  BY <1>0, <1>1, <1>a
<1>3. \A i \in 0 .. MySize - 1 : altitudeTemp'[i] = IF i = count THEN a ELSE altitudeTemp[i]
  BY <1>0, <1>1
<1>4. ~Stored /\ Stored' /\ NextSlot = count /\ NextSlot' = NextCount
  BY <1>0 DEF Stored, NextSlot, NextCount
<1>5. Len(recent) \in Nat /\ Len(recent) <= MySize
  BY DEF Window
<1>6. CASE Len(recent) < MySize
  <2>1. /\ recent' \in Seq(Int) /\ Len(recent') = Len(recent) + 1
        /\ \A i \in 1 .. Len(recent) : recent'[i] = recent[i]
        /\ recent'[Len(recent) + 1] = a
    BY <1>1, <1>a, <1>6, AppendProperties
  <2>2. Len(recent) = count /\ countFinal = count
    BY <1>4, <1>6 DEF Window
  <2>3. \A i \in 1 .. count + 1 : recent'[i] = altitudeTemp'[i - 1]
    <3> SUFFICES ASSUME NEW i \in 1 .. count + 1 PROVE recent'[i] = altitudeTemp'[i - 1]
      OBVIOUS
    <3>1. CASE i = count + 1
      <4>1. i - 1 = count /\ i - 1 \in 0 .. MySize - 1
        BY <1>0, <3>1
      <4> QED BY <4>1, <3>1, <2>1, <2>2, <1>3
    <3>2. CASE i \in 1 .. count
      <4>1. i - 1 # count /\ i - 1 \in 0 .. MySize - 1
        BY <1>0, <3>2
      <4>2. recent[i] = altitudeTemp[i - 1]
        BY <1>6, <2>2, <3>2 DEF Window
      <4> QED BY <4>1, <4>2, <3>2, <2>1, <2>2, <1>3
    <3> QED BY <1>0, <3>1, <3>2
  <2>4. CASE count + 1 = MySize
    <3>1. NextSlot' = 0
      BY <1>4, <2>4 DEF NextCount
    <3>2. \A i \in 1 .. MySize : Slot(0, i) = i - 1
      BY DEF Slot
    <3>3. Window'
      BY <2>1, <2>2, <2>3, <2>4, <3>1, <3>2 DEF Window
    <3> QED BY <1>0, <1>2, <2>1, <3>3 DEF AverageOfRecent
  <2>5. CASE count + 1 < MySize
    <3>1. Window'
      BY <1>0, <1>4, <2>1, <2>2, <2>3, <2>5 DEF Window
    <3> QED BY <1>0, <1>2, <2>1, <3>1 DEF AverageOfRecent
  <2> QED BY <1>0, <2>4, <2>5
<1>7. CASE Len(recent) = MySize
  <2>1. recent # <<>>
    BY <1>7
  <2>2. /\ Tail(recent) \in Seq(Int) /\ Len(Tail(recent)) = MySize - 1
        /\ \A i \in 1 .. MySize - 1 : Tail(recent)[i] = recent[i + 1]
    BY <1>7, <2>1, HeadTailProperties
  <2>3. recent' = Append(Tail(recent), a)
    BY <1>1, <1>7
  <2>4. /\ recent' \in Seq(Int) /\ Len(recent') = MySize
        /\ \A i \in 1 .. MySize - 1 : recent'[i] = recent[i + 1]
        /\ recent'[MySize] = a
    <3> DEFINE rest == Tail(recent)
    <3>1. rest \in Seq(Int) /\ Len(rest) = MySize - 1 /\ \A i \in 1 .. MySize - 1 : rest[i] = recent[i + 1]
      BY <2>2
    <3>2. recent' = Append(rest, a)
      BY <2>3
    <3> HIDE DEF rest
    <3>3. /\ Append(rest, a) \in Seq(Int) /\ Len(Append(rest, a)) = Len(rest) + 1
          /\ \A i \in 1 .. Len(rest) : Append(rest, a)[i] = rest[i]
          /\ Append(rest, a)[Len(rest) + 1] = a
      BY <1>a, <3>1, AppendProperties
    <3>4. Len(rest) + 1 = MySize
      BY <3>1
    <3> QED BY <3>1, <3>2, <3>3, <3>4
  <2>5. \A i \in 1 .. MySize : recent'[i] = altitudeTemp'[Slot(NextCount, i)]
    <3> SUFFICES ASSUME NEW i \in 1 .. MySize
                 PROVE  recent'[i] = altitudeTemp'[Slot(NextCount, i)]
      OBVIOUS
    <3>1. CASE i = MySize
      <4>1. Slot(NextCount, i) = count
        BY <1>0, <3>1 DEF Slot, NextCount
      <4> QED BY <1>0, <1>3, <2>4, <3>1, <4>1
    <3>2. CASE i \in 1 .. MySize - 1
      <4>1. /\ i + 1 \in 1 .. MySize /\ Slot(NextCount, i) = Slot(count, i + 1)
            /\ Slot(count, i + 1) # count /\ Slot(count, i + 1) \in 0 .. MySize - 1
        BY <1>0, <3>2 DEF Slot, NextCount
      <4>2. recent[i + 1] = altitudeTemp[Slot(count, i + 1)]
        BY <1>4, <1>7, <4>1 DEF Window
      <4> QED BY <1>3, <2>4, <3>2, <4>1, <4>2
    <3> QED BY <3>1, <3>2
  <2>6. Window'
    BY <1>4, <2>4, <2>5 DEF Window
  <2> QED BY <1>0, <1>2, <2>4, <2>6 DEF AverageOfRecent
<1> QED BY <1>5, <1>6, <1>7

LEMMA AverageWInv == WInv /\ Average /\ TypeOK' => WInv'
<1> SUFFICES ASSUME WInv, Average, TypeOK' PROVE WInv'
  OBVIOUS
<1> USE DEF WInv
<1>0. /\ count \in 0 .. MySize - 1 /\ pc = "average" /\ pc' = "count" /\ altMean = <<>>
      /\ UNCHANGED <<altitudeTemp, recent, count, countFinal>>
  BY DEF TypeOK, Average
<1>1. Stored /\ Stored' /\ NextSlot = NextCount /\ NextSlot' = NextCount
  BY <1>0 DEF Stored, NextSlot, NextCount
<1>2. Window'
  BY <1>0, <1>1 DEF Window
<1>3. AverageOfRecent'
  <2>1. CASE Averaging
    <3>1. PICK v \in Beyond : altMean' = <<Total(altitudeTemp, 0, MySize - 1) + v>>
      BY <2>1 DEF Average
    <3>2. Len(recent) = MySize
      <4>1. Len(recent) \in Nat
        OBVIOUS
      <4> QED BY <1>0, <1>1, <2>1, <4>1 DEF Window, Averaging
    <3>3. NextCount \in 0 .. MySize - 1
      BY <1>0 DEF NextCount
    <3>4. \A i \in 1 .. MySize : recent[i] = altitudeTemp[Slot(NextCount, i)]
      BY <1>1, <3>2 DEF Window
    <3>5. \A i \in 0 .. MySize - 1 : altitudeTemp[i] \in Int
      OBVIOUS
    <3>6. Total(altitudeTemp, 0, MySize - 1) = Total(recent, 1, MySize)
      <4> DEFINE k == NextCount
      <4>1. k \in 0 .. MySize - 1 /\ \A i \in 1 .. MySize : recent[i] = altitudeTemp[Slot(k, i)]
        BY <3>3, <3>4
      <4> HIDE DEF k, WInv
      <4> QED BY <4>1, <3>5, RingTotal
    <3>7. Total(altitudeTemp, 0, MySize - 1) \in Int
      BY <3>5, TotalInt
    <3> DEFINE sum == Total(recent, 1, MySize)
    <3>8. altMean'[1] = sum + v /\ sum \in Int /\ v \in Int
      <4> HIDE DEF WInv
      <4>1. v \in Int
        BY ValuesInt
      <4>2. altMean' = <<sum + v>> /\ sum \in Int
        BY <3>1, <3>6, <3>7, Zenon
      <4> HIDE DEF sum
      <4>3. altMean'[1] = sum + v
        BY <4>2
      <4> QED BY <4>1, <4>2, <4>3
    <3>9. altMean'[1] - Total(recent, 1, MySize) = v
      <4> HIDE DEF sum
      <4>1. altMean'[1] - sum = v
        BY <3>8
      <4> QED BY <4>1 DEF sum
    <3> QED BY <1>0, <3>2, <3>9 DEF AverageOfRecent
  <2>2. CASE ~Averaging
    BY <1>0, <2>2 DEF Average, AverageOfRecent
  <2> QED BY <2>1, <2>2
<1> QED BY <1>0, <1>2, <1>3

LEMMA CountWInv == WInv /\ Count /\ TypeOK' => WInv'
<1> SUFFICES ASSUME WInv, Count, TypeOK' PROVE WInv'
  OBVIOUS
<1> USE DEF WInv
<1>0. /\ count \in 0 .. MySize - 1 /\ pc = "count" /\ pc' = "page" /\ count' = NextCount
      /\ UNCHANGED <<altitudeTemp, recent, altMean>>
  BY DEF TypeOK, Count, means
<1>1. Stored /\ ~Stored' /\ NextSlot = NextCount /\ NextSlot' = count'
  BY <1>0 DEF Stored, NextSlot, NextCount
<1>2. Len(recent) < MySize => Len(recent) = count' /\ countFinal' = count'
  <2> SUFFICES ASSUME Len(recent) < MySize PROVE Len(recent) = count' /\ countFinal' = count'
    OBVIOUS
  <2>1. Len(recent) = count + 1 /\ countFinal = count
    BY <1>1 DEF Window
  <2>2. count' = count + 1 /\ count + 1 < MySize
    BY <1>0, <2>1 DEF NextCount
  <2>3. countFinal' = ((count + 1 + Width \div 2) % Width) - Width \div 2
    BY <2>1 DEF Count
  <2>4. (count + 1 + Width \div 2) % Width = count + 1 + Width \div 2
    <3> DEFINE y == count + 1 + Width \div 2
    <3>1. y \in 0 .. Width - 1
      BY <1>0, <2>2
    <3> HIDE DEF y
    <3> QED BY <3>1, SmallModulo DEF y
  <2>5. countFinal' = count + 1
    <3> DEFINE h == Width \div 2
    <3>1. h \in Int
      OBVIOUS
    <3>2. countFinal' = (count + 1 + h) - h
      BY <2>3, <2>4
    <3> HIDE DEF h
    <3> QED BY <1>0, <3>1, <3>2
  <2> QED BY <2>1, <2>2, <2>5
<1>3. Window'
  BY <1>0, <1>1, <1>2 DEF Window
<1>4. AverageOfRecent'
  BY <1>0 DEF AverageOfRecent
<1> QED BY <1>0, <1>3, <1>4

LEMMA NextWInv == WInv /\ [Next]_vars => WInv'
<1> SUFFICES ASSUME WInv, [Next]_vars PROVE WInv'
  OBVIOUS
<1>0. TypeOK'
  BY NextTypeOK DEF WInv
<1>1. CASE Temperature
  <2>1. altMean = <<>> /\ Stored' = Stored
    BY <1>1 DEF Temperature, Hangs, WInv, Stored
  <2> QED BY <1>0, <1>1, <2>1, QuietWInv DEF Temperature, Hangs, means
<1>2. CASE Pressure
  <2>1. altMean = <<>> /\ Stored' = Stored
    BY <1>2 DEF Pressure, Hangs, WInv, Stored
  <2> QED BY <1>0, <1>2, <2>1, QuietWInv DEF Pressure, Hangs, means
<1>3. CASE Altitude
  BY <1>0, <1>3, AltitudeWInv
<1>4. CASE Average
  BY <1>0, <1>4, AverageWInv
<1>5. CASE Count
  BY <1>0, <1>5, CountWInv
<1>6. CASE Page
  <2>1. altMean' = <<>> /\ Stored' = Stored
    BY <1>6 DEF Page, Stored
  <2> QED BY <1>0, <1>6, <2>1, QuietWInv DEF Page
<1>7. CASE UNCHANGED vars
  <2>1. pc' = pc /\ Stored' = Stored
    BY <1>7 DEF vars, Stored
  <2> QED BY <1>0, <1>7, <2>1, QuietWInv DEF vars, means
<1> QED BY <1>1, <1>2, <1>3, <1>4, <1>5, <1>6, <1>7 DEF Next, Waiting

(* Whenever an average is made, the window is full and the sum behind it   *)
(* is that of the last MySize altitudes and one number from beyond the     *)
(* array, for every length of the window and after countFinal has wrapped. *)
THEOREM AverageIsOfTheWindow == Spec => []AverageOfRecent
<1>1. WInv => AverageOfRecent
  BY DEF WInv
<1> QED BY <1>1, InitWInv, NextWInv, PTL DEF Spec
-----------------------------------------------------------------------------
LEMMA Powers == 2^4 = 16 /\ 2^8 = 256 /\ 2^16 = 65536
BY SMT

LEMMA DivMono ==
    ASSUME NEW x \in Int, NEW y \in Int, NEW b \in Nat \ {0}, x <= y
    PROVE  x \div b <= y \div b
<1> DEFINE p == x \div b
           q == y \div b
           r == x % b
           s == y % b
<1>1. /\ x = b * p + r /\ y = b * q + s /\ p \in Int /\ q \in Int
      /\ r \in 0 .. b - 1 /\ s \in 0 .. b - 1
  OBVIOUS
<1> HIDE DEF p, q, r, s
<1>2. p >= q + 1 => b * p >= b * q + b
  BY <1>1
<1>3. p <= q
  BY <1>1, <1>2
<1> QED BY <1>3 DEF p, q

LEMMA DivUnique ==
    ASSUME NEW y \in Int, NEW b \in Nat \ {0}, NEW q \in Int, NEW r \in 0 .. b - 1, y = b * q + r
    PROVE  y \div b = q
<1> DEFINE p == y \div b
           s == y % b
<1>1. y = b * p + s /\ p \in Int /\ s \in 0 .. b - 1
  OBVIOUS
<1> HIDE DEF p, s
<1>2. p >= q + 1 => b * p >= b * q + b
  BY <1>1
<1>3. p <= q - 1 => b * p <= b * q - b
  BY <1>1
<1>4. p = q
  BY <1>1, <1>2, <1>3
<1> QED BY <1>4 DEF p

(* One step of the long division. *)
LEMMA LongStep ==
    ASSUME NEW x \in Int, NEW b \in Nat \ {0}, NEW q \in Int, NEW r \in Int, NEW f \in Int,
           x = b * q + r
    PROVE  /\ x * f = b * (q * f + (r * f) \div b) + ((r * f) % b)
           /\ q * f + (r * f) \div b \in Int
           /\ (r * f) % b \in 0 .. b - 1
<1> DEFINE y == r * f
           p == y \div b
           s == y % b
<1>1. y \in Int
  OBVIOUS
<1>2. y = b * p + s /\ p \in Int /\ s \in 0 .. b - 1
  <2> HIDE DEF y
  <2> QED BY <1>1
<1>3. x * f = b * (q * f) + y /\ q * f \in Int
  OBVIOUS
<1> HIDE DEF p, s, y
<1> DEFINE z == q * f
<1>4. z \in Int /\ x * f = b * z + y
  BY <1>3
<1> HIDE DEF z
<1>5. b * z + (b * p + s) = b * (z + p) + s /\ z + p \in Int
  BY <1>2, <1>4
<1>6. x * f = b * (z + p) + s
  BY <1>2, <1>4, <1>5
<1> QED BY <1>2, <1>5, <1>6 DEF p, s, y, z

LEMMA ScaledExact ==
    ASSUME NEW x \in Int, NEW f \in Int, NEW g \in Int, NEW h \in Int, NEW b \in Nat \ {0}
    PROVE  Scaled(x, f, g, h, b) = (x * f * g * h) \div b
<1> DEFINE q0 == x \div b
           r0 == x % b
           q1 == q0 * f + (r0 * f) \div b
           r1 == (r0 * f) % b
           q2 == q1 * g + (r1 * g) \div b
           r2 == (r1 * g) % b
           q3 == q2 * h + (r2 * h) \div b
           r3 == (r2 * h) % b
<1>1. x = b * q0 + r0 /\ q0 \in Int /\ r0 \in Int
  OBVIOUS
<1>2. x * f = b * q1 + r1 /\ q1 \in Int /\ r1 \in 0 .. b - 1
  <2> HIDE DEF q0, r0
  <2>1. /\ x * f = b * (q0 * f + (r0 * f) \div b) + ((r0 * f) % b)
        /\ q0 * f + (r0 * f) \div b \in Int
        /\ (r0 * f) % b \in 0 .. b - 1
    BY <1>1, LongStep, Zenon
  <2> QED BY <2>1, Zenon
<1>3. x * f * g = b * q2 + r2 /\ q2 \in Int /\ r2 \in 0 .. b - 1
  <2> DEFINE y == x * f
  <2>1. y \in Int /\ y = b * q1 + r1 /\ r1 \in Int /\ q1 \in Int
    BY <1>2
  <2> HIDE DEF q1, r1, y
  <2>2. /\ y * g = b * (q1 * g + (r1 * g) \div b) + ((r1 * g) % b)
        /\ q1 * g + (r1 * g) \div b \in Int
        /\ (r1 * g) % b \in 0 .. b - 1
    BY <2>1, LongStep, Zenon
  <2> QED BY <2>2, Zenon DEF y
<1>4. x * f * g * h = b * q3 + r3 /\ q3 \in Int /\ r3 \in 0 .. b - 1
  <2> DEFINE y == x * f * g
  <2>1. y \in Int /\ y = b * q2 + r2 /\ r2 \in Int /\ q2 \in Int
    BY <1>3
  <2> HIDE DEF q2, r2, y
  <2>2. /\ y * h = b * (q2 * h + (r2 * h) \div b) + ((r2 * h) % b)
        /\ q2 * h + (r2 * h) \div b \in Int
        /\ (r2 * h) % b \in 0 .. b - 1
    BY <2>1, LongStep, Zenon
  <2> QED BY <2>2, Zenon DEF y
<1>5. Scaled(x, f, g, h, b) = q3
  BY DEF Scaled
<1>6. (x * f * g * h) \div b = q3
  <2> DEFINE y == x * f * g * h
  <2>1. y \in Int /\ y = b * q3 + r3 /\ q3 \in Int /\ r3 \in 0 .. b - 1
    BY <1>4
  <2> HIDE DEF y, q3, r3
  <2>2. y \div b = q3
    BY <2>1, DivUnique
  <2> QED BY <2>2 DEF y
<1> QED BY <1>5, <1>6

LEMMA HundredThousand ==
    ASSUME NEW d \in Int, NEW b \in Nat \ {0}
    PROVE  Scaled(d, 100, 100, 10, b) = (d * 100000) \div b
<1>1. Scaled(d, 100, 100, 10, b) = (d * 100 * 100 * 10) \div b
  BY ScaledExact, SMT
<1>2. d * 100 * 100 * 10 = d * 100000
  BY SMT
<1> QED BY <1>1, <1>2, SMT

(* The two ways of the program to make p are the same quotient up to the   *)
(* place where the doubling is done.                                       *)
LEMMA UncorrectedExact ==
    ASSUME NEW d \in Int, NEW b \in Nat \ {0}
    PROVE  Uncorrected(d, b) = IF d < Half THEN (d * 100000) \div b
                                           ELSE ((d * 50000) \div b) * 2
<1>1. Scaled(d, 100, 100, 10, b) = (d * 100000) \div b
  BY HundredThousand, SMT
<1>2. Scaled(d, 100, 100, 5, b) = (d * 50000) \div b
  <2>1. Scaled(d, 100, 100, 5, b) = (d * 100 * 100 * 5) \div b
    BY ScaledExact, SMT
  <2>2. d * 100 * 100 * 5 = d * 50000
    BY SMT
  <2> QED BY <2>1, <2>2, SMT
<1> QED BY <1>1, <1>2, SMT DEF Uncorrected

LEMMA UncorrectedMonotone ==
    ASSUME NEW d \in Nat, NEW b \in Nat \ {0}, b <= 100000
    PROVE  /\ Uncorrected(d, b) \in Nat /\ Uncorrected(d + 1, b) \in Nat
           /\ Uncorrected(d, b) <= Uncorrected(d + 1, b)
<1>1. b \in Nat \ {0} /\ d \in Int /\ d + 1 \in Int
  BY SMT
<1>2. ASSUME NEW x \in Nat PROVE x \div b \in Nat
  <2> DEFINE q == x \div b
             r == x % b
  <2>1. x = b * q + r /\ q \in Int /\ r \in 0 .. b - 1
    BY <1>1, SMT
  <2> HIDE DEF q, r
  <2>2. q <= -1 => b * q <= -b
    BY <2>1, <1>1, SMT
  <2>3. q \in Nat
    BY <1>1, <2>1, <2>2, SMT
  <2> QED BY <2>3, SMT DEF q
<1>3. CASE d + 1 < Half
  <2> DEFINE x == d * 100000
             y == (d + 1) * 100000
  <2>1. x \in Nat /\ y \in Nat /\ x <= y
    BY SMT
  <2>2. Uncorrected(d, b) = x \div b /\ Uncorrected(d + 1, b) = y \div b
    BY <1>1, <1>3, UncorrectedExact, SMT DEF Half
  <2> HIDE DEF x, y
  <2>3. x \div b <= y \div b
    BY <1>1, <2>1, DivMono, SMT
  <2> QED BY <1>2, <2>1, <2>2, <2>3, SMT
<1>4. CASE d >= Half
  <2> DEFINE x == d * 50000
             y == (d + 1) * 50000
             u == x \div b
             v == y \div b
  <2>1. x \in Nat /\ y \in Nat /\ x <= y
    BY SMT
  <2>2. Uncorrected(d, b) = u * 2 /\ Uncorrected(d + 1, b) = v * 2
    BY <1>1, <1>4, UncorrectedExact, SMT DEF Half
  <2> HIDE DEF x, y
  <2>3. u <= v /\ u \in Nat /\ v \in Nat
    BY <1>1, <1>2, <2>1, DivMono, SMT
  <2> HIDE DEF u, v
  <2> QED BY <2>2, <2>3, SMT
<1>5. CASE d + 1 = Half
  <2> DEFINE y == (d + 1) * 50000
             x == d * 100000
             p == x \div b
             q == y \div b
             r == x % b
             s == y % b
  <2>1. x \in Nat /\ y \in Nat /\ x = 2 * y - 100000
    BY SMT
  <2>2. Uncorrected(d, b) = p /\ Uncorrected(d + 1, b) = q * 2
    BY <1>1, <1>5, UncorrectedExact, SMT DEF Half
  <2>3. p \in Nat /\ q \in Nat
    <3> HIDE DEF x, y
    <3> QED BY <1>2, <2>1, SMT
  <2>4. x = b * p + r /\ y = b * q + s /\ r \in 0 .. b - 1 /\ s \in 0 .. b - 1
    <3> HIDE DEF x, y
    <3> QED BY <1>1, <2>1, SMT
  <2> HIDE DEF x, y, p, q, r, s
  <2>5. p >= 2 * q + 1 => b * p >= 2 * (b * q) + b
    BY <1>1, <2>3, SMT
  <2>6. b * p \in Int /\ b * q \in Int
    BY <1>1, <2>3, SMT
  <2> DEFINE bp == b * p
             bq == b * q
  <2>7. p >= 2 * q + 1 => bp >= 2 * bq + b
    BY <2>5, SMT
  <2>8. x = bp + r /\ y = bq + s /\ bp \in Int /\ bq \in Int
    BY <2>4, <2>6, SMT
  <2> HIDE DEF bp, bq
  <2>9. p <= 2 * q
    BY <2>1, <2>3, <2>4, <2>7, <2>8, SMT
  <2> QED BY <2>2, <2>3, <2>9, SMT
<1> QED BY <1>3, <1>4, <1>5, SMT DEF Half

LEMMA CorrectedMonotone ==
    ASSUME NEW p \in Nat, NEW n \in Nat, p <= n
    PROVE  Corrected(p) <= Corrected(n)
<1> DEFINE u == p \div 256
           v == n \div 256
<1>1. u \in Nat /\ v \in Nat /\ u <= v
  BY SMT
<1> DEFINE a == (u * u * 3038) \div 65536
           b == (v * v * 3038) \div 65536
<1>2. a \in Int /\ b \in Int /\ a <= b
  <2> HIDE DEF u, v
  <2>1. u * u \in Nat /\ v * v \in Nat /\ u * u <= v * v
    BY <1>1, SMT
  <2> DEFINE uu == u * u
             vv == v * v
  <2>2. uu \in Nat /\ vv \in Nat /\ uu <= vv
    BY <2>1, SMT
  <2>3. a = (uu * 3038) \div 65536 /\ b = (vv * 3038) \div 65536
    BY SMT
  <2> HIDE DEF uu, vv, a, b
  <2> QED BY <2>2, <2>3, SMT
<1> DEFINE k == n - p
           x == (-7357 * p) \div 65536
           y == (-7357 * n) \div 65536
<1>3. k \in Nat /\ x \in Int /\ y \in Int /\ y >= x - k
  BY SMT
<1>4. Corrected(p) = p + ((a + x + 3791) \div 16) /\ Corrected(n) = n + ((b + y + 3791) \div 16)
  BY Powers, SMT DEF Corrected, Shr
<1>5. n = p + k /\ k \in Nat
  BY SMT
<1> HIDE DEF a, b, x, y, k
<1>6. (a + x + 3791) \div 16 <= (b + y + 3791) \div 16 + k
  BY <1>2, <1>3, SMT
<1> QED BY <1>2, <1>3, <1>4, <1>5, <1>6, SMT
-----------------------------------------------------------------------------
Fields == {"ac1", "ac2", "ac3", "ac4", "ac5", "ac6", "b1", "b2", "mc", "md"}
LEMMA CalibrationInt ==
    ASSUME NEW c \in Calibrations
    PROVE  /\ c.ac1 \in Int /\ c.ac2 \in Int /\ c.ac3 \in Int /\ c.ac4 \in Int /\ c.ac5 \in Int
           /\ c.ac6 \in Int /\ c.b1 \in Int /\ c.b2 \in Int /\ c.mc \in Int /\ c.md \in Int
<1>1. c \in [Fields -> Int]
  BY CalibrationAssumption DEF Fields
<1> QED BY <1>1, SMT DEF Fields

LEMMA B5Int ==
    ASSUME NEW c \in Calibrations, NEW t \in Uts
    PROVE  B5(c, t) \in Int
<1> DEFINE x == Shr((t - c.ac6) * c.ac5, 15)
           d == x + c.md
           n == c.mc * 2048
<1>1. t \in Int
  BY ValuesAssumption, SMT
<1>2. 2^15 \in Nat \ {0}
  BY SMT
<1>3. x \in Int
  <2> DEFINE y == (t - c.ac6) * c.ac5
  <2>1. y \in Int
    BY <1>1, CalibrationInt, SMT
  <2> HIDE DEF y
  <2>2. Shr(y, 15) \in Int
    BY <1>2, <2>1, SMT DEF Shr
  <2> QED BY <2>2 DEF y
<1>4. d \in Nat \ {0} /\ n \in Int
  <2>1. d > 0
    BY DivisorAssumption, SMT
  <2> HIDE DEF x
  <2> QED BY <1>3, <2>1, CalibrationInt, SMT
<1> HIDE DEF d, n, x
<1>5. Quotient(n, d) \in Int
  <2>1. n \div d \in Int /\ (-n) \div d \in Int
    BY <1>4, SMT
  <2> QED BY <2>1, SMT DEF Quotient
<1>6. B5(c, t) = x + Quotient(n, d)
  BY DEF B5, x, d, n
<1> QED BY <1>3, <1>5, <1>6, SMT

LEMMA B3Int ==
    ASSUME NEW c \in Calibrations, NEW b \in Int
    PROVE  B3(c, b) \in Int
<1> DEFINE e == b - 4000
<1>1. e \in Int
  BY SMT
<1>2. /\ 2^2 \in Nat \ {0} /\ 2^11 \in Nat \ {0} /\ 2^12 \in Nat \ {0}
      /\ 2^19 \in Nat \ {0} /\ 2^20 \in Nat \ {0}
  BY SMT
<1>3. ASSUME NEW x \in Int PROVE Shr(x, 2) \in Int /\ Shr(x, 11) \in Int /\ Shr(x, 12) \in Int
  BY <1>2, SMT DEF Shr
<1> HIDE DEF e
<1>4. Product(c, e) \in Int
  <2> DEFINE square == e * e
             low == square % 4096
             exact == c.b2 * Shr(square, 12) + Shr(c.b2 * low, 12)
             m == exact + 2^19
  <2>1. square \in Int
    BY <1>1, SMT
  <2> HIDE DEF square
  <2>2. low \in Int /\ Shr(square, 12) \in Int
    BY <2>1, <1>3, SMT
  <2> HIDE DEF low
  <2>3. c.b2 * low \in Int
    BY <2>2, CalibrationInt, SMT
  <2>4. Shr(c.b2 * low, 12) \in Int
    BY <2>3, <1>3, SMT
  <2>5. exact \in Int
    BY <2>2, <2>4, CalibrationInt, SMT
  <2> HIDE DEF exact
  <2>6. m \in Int
    BY <2>5, <1>2, SMT
  <2> HIDE DEF m
  <2>7. m % 2^20 \in Int
    BY <2>6, <1>2, SMT
  <2>8. Product(c, e) = (m % 2^20) - 2^19
    BY DEF Product, m, exact, low, square
  <2> QED BY <2>7, <2>8, <1>2, SMT
<1>5. Shr(Product(c, e), 11) \in Int
  BY <1>3, <1>4, SMT
<1>6. Shr(c.ac2 * e, 11) \in Int
  <2>1. c.ac2 * e \in Int
    BY <1>1, CalibrationInt, SMT
  <2> QED BY <1>3, <2>1, SMT
<1> DEFINE s == c.ac1 * 4 + (Shr(Product(c, e), 11) + Shr(c.ac2 * e, 11)) + 2
<1>7. s \in Int
  BY <1>5, <1>6, CalibrationInt, SMT
<1>8. B3(c, b) = Shr(s, 2)
  BY DEF B3, e, s
<1> HIDE DEF s
<1> QED BY <1>3, <1>7, <1>8, SMT

(* What PressureMonotone says for a reading d above the offset. *)
LEMMA PascalsMonotone ==
    ASSUME NEW c \in Calibrations, NEW t \in Uts, NEW b, b = B5(c, t), NEW d \in Nat
    PROVE  Pascals(c, b, d + B3(c, b)) <= Pascals(c, b, d + B3(c, b) + 1)
<1> DEFINE o == B3(c, b)
           v == B4(c, b)
<1>1. o \in Int
  BY B5Int, B3Int, SMT
<1>2. v \in Nat \ {0} /\ v <= 100000
  <2>1. B4(c, b) \in Nat \ {0} /\ B4(c, b) <= 100000
    BY DivisorAssumption, SMT
  <2> QED BY <2>1
<1>3. (d + o) - o = d /\ (d + o + 1) - o = d + 1
  <2> HIDE DEF o
  <2> QED BY <1>1, SMT
<1>4. /\ Pascals(c, b, d + o) = Corrected(Uncorrected((d + o) - o, v))
      /\ Pascals(c, b, d + o + 1) = Corrected(Uncorrected((d + o + 1) - o, v))
  BY DEF Pascals
<1> HIDE DEF o, v
<1>5. Corrected(Uncorrected(d, v)) <= Corrected(Uncorrected(d + 1, v))
  <2>1. /\ Uncorrected(d, v) \in Nat /\ Uncorrected(d + 1, v) \in Nat
        /\ Uncorrected(d, v) <= Uncorrected(d + 1, v)
    BY <1>2, UncorrectedMonotone, SMT
  <2> QED BY <2>1, CorrectedMonotone, SMT
<1>6. Pascals(c, b, d + o) <= Pascals(c, b, d + o + 1)
  BY <1>3, <1>4, <1>5
<1> QED BY <1>6 DEF o

(* The temperature of the pass comes from a raw reading, and the pressure  *)
(* from one above the offset.                                              *)
Readings ==
    /\ raw = [ut |-> raw.ut, up |-> raw.up]
    /\ calibration \in Calibrations
    /\ pc \in {"pressure", "altitude"} => raw.ut \in Uts /\ b5 = B5(calibration, raw.ut)
    /\ pc = "altitude" => \E d \in Ups : raw.up = d + B3(calibration, b5)

LEMMA NextReadings == Readings /\ [Next]_vars => Readings'
<1> SUFFICES ASSUME Readings, [Next]_vars PROVE Readings'
  OBVIOUS
<1>1. CASE Temperature
  BY <1>1 DEF Temperature, Hangs, B5Stored, Readings, bmp
<1>2. CASE Pressure
  BY <1>2 DEF Pressure, Hangs, Readings, bmp
<1>3. CASE Altitude
  BY <1>3 DEF Altitude, Readings, bmp
<1>4. CASE Average
  BY <1>4 DEF Average, Readings, bmp
<1>5. CASE Count
  BY <1>5 DEF Count, Readings, bmp
<1>6. CASE Page
  BY <1>6 DEF Page, Readings, NoRaw
<1>7. CASE UNCHANGED vars
  BY <1>7 DEF vars, bmp, Readings
<1> QED BY <1>1, <1>2, <1>3, <1>4, <1>5, <1>6, <1>7 DEF Next, Waiting

LEMMA ReadingsMonotone == Readings => PressureMonotone
<1> SUFFICES ASSUME Readings, pc = "altitude" PROVE PressureMonotone
  BY DEF PressureMonotone, Measured
<1> DEFINE o == B3(calibration, b5)
<1>1. /\ calibration \in Calibrations /\ raw.ut \in Uts /\ b5 = B5(calibration, raw.ut)
  BY DEF Readings
<1>2. o \in Int
  BY <1>1, B5Int, B3Int
<1>3. ASSUME NEW d \in Nat PROVE Pascals(calibration, b5, d + o) <= Pascals(calibration, b5, d + o + 1)
  BY <1>1, PascalsMonotone
<1>4. PICK d \in Ups : raw.up = d + o
  BY DEF Readings
<1>5. d \in Nat
  BY ValuesAssumption, SMT
<1> HIDE DEF o
<1> DEFINE at == Half + o
<1>6. Half \in Nat /\ Half - 1 \in Nat /\ at = Half + o /\ at - 1 = (Half - 1) + o
  BY <1>2, SMT DEF Half
<1> DEFINE Up(u) == Pascals(calibration, b5, u) <= Pascals(calibration, b5, u + 1)
<1>7. Up(raw.up) /\ Up(at) /\ Up(at - 1)
  <2>1. Up(d + o) /\ Up(Half + o) /\ Up((Half - 1) + o)
    BY <1>3, <1>5, <1>6
  <2> HIDE DEF Up
  <2> QED BY <2>1, <1>4, <1>6
<1>8. \A u \in {raw.up} \cup {at - 1, at} : Up(u)
  <2> HIDE DEF Up, at
  <2> QED BY <1>7
<1> HIDE DEF at
<1>9. at = Half + B3(calibration, b5)
  BY DEF at, o
<1> QED BY <1>8, <1>9 DEF PressureMonotone

(* A higher raw pressure never gives a lower one, whatever the calibration *)
(* and the temperature, nor where the program turns from doubling before   *)
(* the division to doubling after it.                                      *)
THEOREM PressureNeverStepsDown == Spec => []PressureMonotone
<1>1. Init => Readings
  BY DEF Init, NoRaw, Readings
<1> QED BY <1>1, NextReadings, ReadingsMonotone, PTL DEF Spec
-----------------------------------------------------------------------------
(* Quotients of numbers k apart. *)
LEMMA DivNear ==
    ASSUME NEW x \in Int, NEW y \in Int, NEW b \in Nat \ {0}, NEW k \in Nat, x <= y, y - x <= k
    PROVE  /\ x \div b \in Int /\ y \div b \in Int /\ k \div b \in Nat
           /\ x \div b <= y \div b /\ y \div b <= x \div b + k \div b + 1
<1> DEFINE p == x \div b
           q == y \div b
           m == k \div b
           r == x % b
           s == y % b
           t == k % b
<1>1. /\ x = b * p + r /\ y = b * q + s /\ k = b * m + t
      /\ p \in Int /\ q \in Int /\ m \in Int
      /\ r \in 0 .. b - 1 /\ s \in 0 .. b - 1 /\ t \in 0 .. b - 1
  OBVIOUS
<1>2. p <= q
  BY DivMono
<1> HIDE DEF p, q, m, r, s, t
<1>3. m \in Nat
  <2>1. m <= -1 => b * m <= -b
    BY <1>1
  <2> QED BY <1>1, <2>1
<1>4. q <= p + m + 1
  <2>1. q >= p + m + 2 => b * q >= b * (p + m + 2)
    BY <1>1
  <2>2. b * (p + m + 2) = b * p + b * m + 2 * b
    BY <1>1
  <2>3. PICK u \in Int, v \in Int, w \in Int : u = b * p /\ v = b * q /\ w = b * m
    BY <1>1
  <2>4. x = u + r /\ y = v + s /\ k = w + t /\ (q >= p + m + 2 => v >= u + w + 2 * b)
    BY <1>1, <2>1, <2>2, <2>3
  <2>5. ~(q >= p + m + 2)
    BY <1>1, <2>4
  <2> QED BY <1>1, <2>5
<1> QED BY <1>1, <1>2, <1>3, <1>4 DEF p, q, m

LEMMA PowersOfOffset == 2^2 = 4 /\ 2^11 = 2048 /\ 2^12 = 4096 /\ 2^19 = 524288 /\ 2^20 = 1048576
BY SMT

(* As long as it fits, the product made before the shift is the exact one, *)
(* and less than b2 away from the one of the data sheet.                   *)
LEMMA ProductNear ==
    ASSUME NEW c \in Calibrations, NEW e \in Int, NEW s, s = Shr(e * e, 12),
           c.b2 * (s + 1) < 2^19, c.b2 * (s + 1) > -2^19
    PROVE  /\ Product(c, e) \in Int /\ c.b2 * s \in Int
           /\ c.b2 >= 0 => Product(c, e) - c.b2 * s \in 0 .. c.b2
           /\ c.b2 < 0 => Product(c, e) - c.b2 * s \in c.b2 .. 0
<1>1. PICK n \in Int, k \in Int : n = e * e /\ k = c.b2
  BY CalibrationInt, SMT
<1>2. n >= 0
  <2>1. e >= 0 => e * e >= 0
    BY SMT
  <2>2. e <= 0 => e * e >= 0
    BY SMT
  <2> QED BY <1>1, <2>1, <2>2, SMT
<1>3. s = n \div 4096 /\ s \in Nat
  BY <1>1, <1>2, PowersOfOffset, SMT DEF Shr
<1>4. PICK l \in 0 .. 4095 : l = n % 4096
  BY <1>1, SMT
<1>5. PICK low \in Int, z \in Int, m \in Int :
        low = k * l /\ z = low \div 4096 /\ m = k * s
  BY <1>1, <1>3, <1>4, SMT
<1>6. (k >= 0 => 0 <= low /\ low <= 4096 * k) /\ (k < 0 => 4096 * k <= low /\ low <= 0)
  <2>1. k >= 0 => 0 <= k * l /\ k * l <= k * 4096
    BY <1>4, SMT
  <2>2. k < 0 => k * 4096 <= k * l /\ k * l <= 0
    BY <1>4, SMT
  <2> QED BY <1>5, <2>1, <2>2, SMT
<1>7. (k >= 0 => 0 <= z /\ z <= k) /\ (k < 0 => k <= z /\ z <= 0)
  <2>1. z = low \div 4096
    BY <1>5, SMT
  <2> QED BY <1>6, <2>1, SMT
<1>8. (k >= 0 => m >= 0) /\ (k < 0 => m <= 0)
  <2>1. (k >= 0 => k * s >= 0) /\ (k < 0 => k * s <= 0)
    BY <1>1, <1>3, SMT
  <2> QED BY <1>5, <2>1, SMT
<1>9. m + k < 524288 /\ m + k > -524288
  <2>1. k * (s + 1) = k * s + k
    BY <1>1, <1>3, SMT
  <2> QED BY <1>1, <1>5, <2>1, PowersOfOffset, SMT
<1>10. m + z \in Int /\ m + z >= -524288 /\ m + z < 524288
  BY <1>1, <1>5, <1>7, <1>8, <1>9, SMT
<1>11. Product(c, e) = ((m + z + 524288) % 1048576) - 524288
  BY <1>1, <1>3, <1>4, <1>5, PowersOfOffset, SMT DEF Product, Shr
<1>12. Product(c, e) = m + z
  BY <1>10, <1>11, SMT
<1> QED BY <1>1, <1>5, <1>7, <1>12, SMT

LEMMA OffsetsNear ==
    ASSUME NEW c \in Calibrations, NEW b \in Int, Fits(c, b)
    PROVE  /\ B3(c, b) \in Int /\ ReferenceB3(c, b) \in Int /\ Slack(c) \in Nat
           /\ B3(c, b) - ReferenceB3(c, b) \in -Slack(c) .. Slack(c)
<1>1. PICK e \in Int : e = b - 4000
  BY SMT
<1>2. PICK s : s = Shr(e * e, 12)
  BY SMT
<1>3. c.b2 * (s + 1) < 2^19 /\ c.b2 * (s + 1) > -2^19
  BY <1>1, <1>2, SMT DEF Fits
<1>4. PICK k \in Int, x \in Int, y \in Int :
        /\ k = c.b2 /\ x = Product(c, e) /\ y = c.b2 * s
        /\ k >= 0 => x - y \in 0 .. k
        /\ k < 0 => x - y \in k .. 0
  BY <1>2, <1>3, ProductNear, CalibrationInt, SMT
<1>5. PICK a \in Int, m \in Int : a = c.ac1 /\ m = Shr(c.ac2 * e, 11)
  <2>1. PICK n \in Int : n = c.ac2 * e
    BY CalibrationInt, SMT
  <2>2. n \div 2048 \in Int
    BY SMT
  <2> QED BY <2>1, <2>2, CalibrationInt, PowersOfOffset, SMT DEF Shr
<1>6. B3(c, b) = (a * 4 + (x \div 2048 + m) + 2) \div 4
  BY <1>1, <1>4, <1>5, PowersOfOffset, SMT DEF B3, Shr
<1>7. ReferenceB3(c, b) = (a * 4 + (y \div 2048 + m) + 2) \div 4
  BY <1>1, <1>2, <1>4, <1>5, PowersOfOffset, SMT DEF ReferenceB3, Shr
<1>8. PICK j \in Nat : j = IF k < 0 THEN -k ELSE k
  BY <1>4, SMT
<1>9. Slack(c) = j \div 8192 + 1 /\ j \div 8192 \in Nat
  BY <1>4, <1>8, SMT DEF Slack
<1>10. x - y <= j /\ y - x <= j
  BY <1>4, <1>8, SMT
<1>11. PICK u \in Int, v \in Int :
         u = (a * 4 + (x \div 2048 + m) + 2) \div 4 /\ v = (a * 4 + (y \div 2048 + m) + 2) \div 4
  <2>1. x \div 2048 \in Int /\ y \div 2048 \in Int
    BY <1>4, SMT
  <2> QED BY <2>1, SMT
<1>12. u <= v + (j \div 8192) + 1 /\ v <= u + (j \div 8192) + 1
  BY <1>10, <1>11, SMT
<1>13. u - v \in -(j \div 8192 + 1) .. (j \div 8192 + 1)
  BY <1>9, <1>12, SMT
<1> QED BY <1>6, <1>7, <1>9, <1>11, <1>13, SMT

(* Raw pressures o units apart, doubled before or after the division. *)
QuotientOf(d, b) == (d * 100000) \div b

QuotientsAgree(d, f, o, b) ==
    \E p \in Int, q \in Int, m \in Nat :
        /\ p = Uncorrected(d, b) /\ q = QuotientOf(f, b) /\ m = QuotientOf(o, b)
        /\ p - q \in -(m + 2) .. m + 2

LEMMA QuotientsNear ==
    ASSUME NEW d \in Int, NEW f \in Int, NEW o \in Nat, d - f \in -o .. o, NEW b \in Nat \ {0}
    PROVE  QuotientsAgree(d, f, o, b)
<1>1. PICK x \in Int, y \in Int, n \in Int, k \in Nat :
        x = d * 100000 /\ y = f * 100000 /\ n = d * 50000 /\ k = o * 100000
  BY SMT
<1>2. x = n + n /\ x - y <= k /\ y - x <= k
  BY <1>1, SMT
<1>3. PICK p \in Int, q \in Int, m \in Nat, h \in Int :
        p = x \div b /\ q = y \div b /\ m = k \div b /\ h = n \div b
  <2>1. x \div b \in Int /\ y \div b \in Int /\ n \div b \in Int /\ k - 0 <= k /\ 0 <= k
    BY SMT
  <2>2. k \div b \in Nat
    BY <2>1, DivNear, SMT
  <2> QED BY <2>1, <2>2, SMT
<1>4. p <= q + m + 1 /\ q <= p + m + 1
  <2>1. CASE x <= y
    BY <1>2, <1>3, <2>1, DivNear, SMT
  <2>2. CASE y <= x
    BY <1>2, <1>3, <2>2, DivNear, SMT
  <2> QED BY <2>1, <2>2, SMT
<1>5. 2 * h <= p /\ p <= 2 * h + 1
  <2>1. PICK r \in 0 .. b - 1, t \in 0 .. b - 1 : x = b * p + r /\ n = b * h + t
    <3>1. x % b \in 0 .. b - 1 /\ n % b \in 0 .. b - 1
          /\ x = b * (x \div b) + (x % b) /\ n = b * (n \div b) + (n % b)
      BY SMT
    <3> QED BY <1>3, <3>1, SMT
  <2>2. PICK u \in Int, v \in Int : u = b * p /\ v = b * h
    BY SMT
  <2>3. p >= 2 * h + 2 => u >= 2 * v + 2 * b
    <3>1. p >= 2 * h + 2 => b * p >= b * (2 * h + 2)
      BY SMT
    <3>2. b * (2 * h + 2) = 2 * (b * h) + 2 * b
      BY SMT
    <3> QED BY <2>2, <3>1, <3>2, SMT
  <2>4. p <= 2 * h - 1 => u <= 2 * v - b
    <3>1. p <= 2 * h - 1 => b * p <= b * (2 * h - 1)
      BY SMT
    <3>2. b * (2 * h - 1) = 2 * (b * h) - b
      BY SMT
    <3> QED BY <2>2, <3>1, <3>2, SMT
  <2>5. x = u + r /\ n = v + t
    BY <2>1, <2>2, SMT
  <2> HIDE <2>1, <2>2
  <2> QED BY <1>2, <2>3, <2>4, <2>5, SMT
<1>6. Uncorrected(d, b) = IF d < Half THEN p ELSE h * 2
  BY <1>1, <1>3, UncorrectedExact, SMT
<1>7. PICK w \in Int : w = Uncorrected(d, b) /\ p - 1 <= w /\ w <= p
  BY <1>5, <1>6, SMT
<1>8. w - q \in -(m + 2) .. m + 2
  BY <1>4, <1>7, SMT
<1>9. p \in Int /\ q = QuotientOf(f, b) /\ m = QuotientOf(o, b)
  BY <1>1, <1>3, SMT DEF QuotientOf
<1> QED BY <1>7, <1>8, <1>9, SMT DEF QuotientsAgree

(* The last correction of pressures up to 256 * high + 255 that differ by  *)
(* no more than g.                                                         *)
LastStep(g, high) == ((2 * (g \div 256 + 1) * high * 3038) \div 65536 + 1) \div 16

CorrectionsAgree(p, q, g, high) ==
    \E x \in Int, y \in Int, last \in Int :
        /\ x = Corrected(p) /\ y = Corrected(q) /\ last = LastStep(g, high)
        /\ x - y \in -(g + 1 + last) .. g + 1 + last

ToleranceOf(m, p) == (m + 2) + 1 + LastStep(m + 2, (p + (m + 2)) \div 256)

LEMMA CorrectedNear ==
    ASSUME NEW p \in Nat, NEW q \in Nat, NEW g \in Nat, NEW high \in Nat,
           p <= q, q - p <= g, q \div 256 <= high
    PROVE  CorrectionsAgree(p, q, g, high) /\ CorrectionsAgree(q, p, g, high)
<1>1. PICK u \in Nat, v \in Nat, k \in Nat :
        u = p \div 256 /\ v = q \div 256 /\ k = g \div 256 + 1
  BY SMT
<1>2. u <= v /\ v <= u + k /\ v <= high
  BY <1>1, SMT
<1>3. PICK uu \in Nat, vv \in Nat, n \in Nat : uu = u * u /\ vv = v * v /\ n = 2 * k * high
  BY SMT
<1>4. vv <= uu + n
  <2>1. PICK w \in Nat, z \in Nat : w = v - u /\ z = u + v /\ w <= k /\ z <= 2 * high
    BY <1>2, SMT
  <2>2. v * v = u * u + w * z
    BY <2>1, SMT
  <2>3. w * z <= k * z /\ k * z <= k * (2 * high)
    BY <2>1, SMT
  <2>4. k * (2 * high) = 2 * k * high
    BY SMT
  <2>5. PICK i \in Nat, j \in Nat : i = w * z /\ j = k * z
    BY <2>1, SMT
  <2> QED BY <1>3, <2>2, <2>3, <2>4, <2>5, SMT
<1>5. PICK a \in Int, b \in Int, m \in Nat :
        a = (uu * 3038) \div 65536 /\ b = (vv * 3038) \div 65536 /\ m = (n * 3038) \div 65536
  BY SMT
<1>6. b <= a + m + 1
  BY <1>3, <1>4, <1>5, SMT
<1>7. PICK x \in Int, y \in Int : x = (-7357 * p) \div 65536 /\ y = (-7357 * q) \div 65536
  BY SMT
<1>8. y <= x
  BY <1>7, SMT
<1>9. Corrected(p) = p + ((a + x + 3791) \div 16) /\ Corrected(q) = q + ((b + y + 3791) \div 16)
  BY <1>1, <1>3, <1>5, <1>7, Powers, SMT DEF Corrected, Shr
<1>10. (b + y + 3791) \div 16 <= (a + x + 3791) \div 16 + (m + 1) \div 16 + 1
  BY <1>6, <1>8, SMT
<1>11. Corrected(p) <= Corrected(q)
  BY CorrectedMonotone, SMT
<1>12. (2 * (g \div 256 + 1) * high * 3038) \div 65536 = m
  BY <1>1, <1>3, <1>5, SMT
<1>13. PICK i \in Int, j \in Int, l \in Int :
         /\ i = (a + x + 3791) \div 16 /\ j = (b + y + 3791) \div 16 /\ l = (m + 1) \div 16
         /\ j <= i + l + 1
  BY <1>10, SMT
<1>14. Corrected(p) = p + i /\ Corrected(q) = q + j
  BY <1>9, <1>13, SMT
<1>15. (q + j) - (p + i) <= g + 1 + l
  BY <1>13, SMT
<1>16. l = LastStep(g, high)
  BY <1>12, <1>13, SMT DEF LastStep
<1>17. PICK cp \in Int, cq \in Int : cp = Corrected(p) /\ cq = Corrected(q) /\ cp = p + i /\ cq = q + j
  BY <1>13, <1>14, SMT
<1>18. cp <= cq /\ cq - cp <= g + 1 + l
  BY <1>11, <1>15, <1>17, SMT
<1>19. cp - cq \in -(g + 1 + l) .. g + 1 + l /\ cq - cp \in -(g + 1 + l) .. g + 1 + l
  BY <1>13, <1>18, SMT
<1>20. l \in Int
  BY <1>13, SMT
<1>21. CorrectionsAgree(p, q, g, high)
  BY <1>20, <1>16, <1>17, <1>19, Zenon DEF CorrectionsAgree
<1>22. CorrectionsAgree(q, p, g, high)
  BY <1>20, <1>16, <1>17, <1>19, Zenon DEF CorrectionsAgree
<1> QED BY <1>21, <1>22

LEMMA QuotientIsNat ==
    ASSUME NEW f \in Nat, NEW b \in Nat \ {0}
    PROVE  QuotientOf(f, b) \in Nat
<1>1. PICK x \in Nat : x = f * 100000
  BY SMT
<1>2. 0 <= x /\ x - 0 <= x
  BY SMT
<1>3. x \div b \in Nat
  BY <1>2, DivNear, SMT
<1> QED BY <1>1, <1>3, SMT DEF QuotientOf

LEMMA UncorrectedIsNat ==
    ASSUME NEW d \in Nat, NEW b \in Nat \ {0}, b <= 100000
    PROVE  Uncorrected(d, b) \in Nat
BY UncorrectedMonotone, SMT

(* The two quotients of raw pressures o units apart, after the correction. *)
LEMMA QuotientsCorrected ==
    ASSUME NEW d \in Nat, NEW f \in Nat, NEW o \in Nat, d - f \in -o .. o,
           NEW v \in Nat \ {0}, NEW p \in Nat, p = Uncorrected(d, v),
           NEW z, z = ToleranceOf(QuotientOf(o, v), p)
    PROVE  Corrected(p) - Corrected(QuotientOf(f, v)) \in -z .. z
<1>1. d \in Int /\ f \in Int
  BY SMT
<1>2. QuotientsAgree(d, f, o, v)
  BY <1>1, QuotientsNear, Zenon
<1>3. PICK q \in Int, m \in Nat :
        q = QuotientOf(f, v) /\ m = QuotientOf(o, v) /\ p - q \in -(m + 2) .. m + 2
  BY <1>2, Zenon DEF QuotientsAgree
<1>4. q \in Nat
  BY <1>3, QuotientIsNat, Zenon
<1>5. PICK g \in Nat, high \in Nat : g = m + 2 /\ high = (p + g) \div 256
  <2>1. m + 2 \in Nat /\ (p + (m + 2)) \div 256 \in Nat
    BY <1>3, SMT
  <2> QED BY <2>1, SMT
<1>6. p \div 256 <= high /\ q \div 256 <= high /\ p - q <= g /\ q - p <= g
  BY <1>3, <1>4, <1>5, SMT
<1>7. z = g + 1 + LastStep(g, high)
  BY <1>3, <1>5 DEF ToleranceOf
<1>8. CorrectionsAgree(p, q, g, high)
  <2>1. CASE p <= q
    BY <1>4, <1>5, <1>6, <2>1, CorrectedNear, Zenon
  <2>2. CASE q <= p
    BY <1>4, <1>5, <1>6, <2>2, CorrectedNear, Zenon
  <2>3. p <= q \/ q <= p
    BY <1>4, SMT
  <2> QED BY <2>1, <2>2, <2>3
<1>9. Corrected(p) - Corrected(q) \in -(g + 1 + LastStep(g, high)) .. g + 1 + LastStep(g, high)
  BY <1>8, Zenon DEF CorrectionsAgree
<1> QED BY <1>3, <1>7, <1>9, Zenon

LEMMA ScaledIsQuotient ==
    ASSUME NEW f \in Int, NEW v \in Nat \ {0}
    PROVE  Scaled(f, 100, 100, 10, v) = QuotientOf(f, v)
BY HundredThousand, SMT DEF QuotientOf

LEMMA ReferenceIsCorrected ==
    ASSUME NEW c \in Calibrations, NEW b \in Int, NEW up \in Int,
           up - ReferenceB3(c, b) \in Int, B4(c, b) \in Nat \ {0}
    PROVE  ReferencePascals(c, b, up)
             = Corrected(QuotientOf(up - ReferenceB3(c, b), B4(c, b)))
<1>1. Scaled(up - ReferenceB3(c, b), 100, 100, 10, B4(c, b))
        = QuotientOf(up - ReferenceB3(c, b), B4(c, b))
  BY ScaledIsQuotient, SMT
<1> QED BY <1>1 DEF ReferencePascals

LEMMA ToleranceIsStep ==
    ASSUME NEW c \in Calibrations, Slack(c) \in Nat, NEW v \in Nat \ {0}, NEW p \in Nat
    PROVE  Tolerance(c, v, p) = ToleranceOf(QuotientOf(Slack(c), v), p)
<1>1. 100000 * Slack(c) = Slack(c) * 100000
  <2>1. PICK o \in Nat : o = Slack(c)
    BY Zenon
  <2> QED BY <2>1, SMT
<1>2. Step(c, v) = QuotientOf(Slack(c), v) + 2
  BY <1>1, SMT DEF Step, QuotientOf
<1> QED BY <1>2 DEF Tolerance, LastStep, ToleranceOf

LEMMA PascalsNear ==
    ASSUME NEW c \in Calibrations, NEW t \in Uts, NEW b, b = B5(c, t), Fits(c, b),
           NEW up \in Int, up >= B3(c, b), up >= ReferenceB3(c, b),
           NEW v, v = B4(c, b), NEW z, z = Tolerance(c, v, Uncorrected(up - B3(c, b), v))
    PROVE  Pascals(c, b, up) - ReferencePascals(c, b, up) \in -z .. z
<1>1. b \in Int /\ v \in Nat \ {0} /\ v <= 100000
  <2>1. B4(c, b) \in Nat \ {0} /\ B4(c, b) <= 100000
    BY DivisorAssumption, SMT
  <2> QED BY <2>1, B5Int, SMT
<1>2. PICK d \in Nat, f \in Nat, o \in Nat :
        /\ d = up - B3(c, b) /\ f = up - ReferenceB3(c, b) /\ o = Slack(c)
        /\ d - f \in -o .. o
  <2>1. PICK x \in Int, y \in Int, o \in Nat :
          x = B3(c, b) /\ y = ReferenceB3(c, b) /\ o = Slack(c) /\ x - y \in -o .. o
    BY <1>1, OffsetsNear, SMT
  <2>2. up - x \in Nat /\ up - y \in Nat /\ (up - x) - (up - y) \in -o .. o
    BY <2>1, SMT
  <2> QED BY <2>1, <2>2, SMT
<1>3. PICK p \in Nat : p = Uncorrected(d, v)
  BY <1>1, UncorrectedIsNat, SMT
<1>4. v \in Nat \ {0} /\ f \in Int /\ b \in Int
  BY <1>1, SMT
<1>5. z = ToleranceOf(QuotientOf(o, v), p)
  <2>1. z = Tolerance(c, v, p)
    BY <1>2, <1>3, Zenon
  <2>2. Tolerance(c, v, p) = ToleranceOf(QuotientOf(Slack(c), v), p)
    BY <1>2, <1>4, ToleranceIsStep, Zenon
  <2> QED BY <1>2, <2>1, <2>2
<1>6. Corrected(p) - Corrected(QuotientOf(f, v)) \in -z .. z
  BY <1>2, <1>3, <1>4, <1>5, QuotientsCorrected, Zenon
<1>7. Pascals(c, b, up) = Corrected(p)
  BY <1>2, <1>3, Zenon DEF Pascals
<1>8. ReferencePascals(c, b, up) = Corrected(QuotientOf(f, v))
  <2>1. up - ReferenceB3(c, b) \in Int /\ B4(c, b) \in Nat \ {0} /\ b \in Int
    BY <1>2, <1>4, Zenon
  <2>2. ReferencePascals(c, b, up)
          = Corrected(QuotientOf(up - ReferenceB3(c, b), B4(c, b)))
    BY <2>1, ReferenceIsCorrected, Zenon
  <2> QED BY <1>2, <2>2
<1> QED BY <1>6, <1>7, <1>8

(* The pressure is that of the data sheet up to a few pascals, whatever    *)
(* the calibration and the readings: the earlier product moves the offset  *)
(* by less than Slack units, the later doubling loses at most one, and the *)
(* last correction adds little to either.                                  *)
THEOREM PressureIsNear == Spec => []PressureNearReference
<1> DEFINE Inv == IInv /\ Readings
<1>1. Init => IInv /\ Readings
  BY DEF Init, NoRaw, Readings, IInv
<1>2. IInv /\ Readings => PressureNearReference
  <2> SUFFICES ASSUME Readings, IInv, pc = "altitude", Fits(calibration, b5),
                      raw.up >= ReferenceB3(calibration, b5),
                      NEW v, v = B4(calibration, b5),
                      NEW z, z = Tolerance(calibration, v, Uncorrected(raw.up - B3(calibration, b5), v))
               PROVE  pressure - ReferencePascals(calibration, b5, raw.up) \in -z .. z
    BY DEF PressureNearReference, Measured
  <2>1. calibration \in Calibrations /\ raw.ut \in Uts /\ b5 = B5(calibration, raw.ut)
    BY DEF Readings
  <2>2. PICK d \in Ups : raw.up = d + B3(calibration, b5)
    BY DEF Readings
  <2>3. raw.up \in Int /\ raw.up >= B3(calibration, b5)
    <3>1. d \in Nat
      BY ValuesAssumption
    <3>2. PICK o \in Int : o = B3(calibration, b5)
      BY <2>1, B5Int, B3Int
    <3> QED BY <2>2, <3>1, <3>2
  <2>4. pressure = Pascals(calibration, b5, raw.up)
    BY <2>1, <2>2 DEF IInv, PressureOfThisPass, Measured
  <2>5. PICK c \in Calibrations, t \in Uts, b \in Int, up \in Int :
          c = calibration /\ t = raw.ut /\ b = b5 /\ up = raw.up
    BY <2>1, <2>3, B5Int
  <2>6. Pascals(c, b, up) - ReferencePascals(c, b, up) \in -z .. z
    BY <2>1, <2>3, <2>5, PascalsNear
  <2> QED BY <2>4, <2>5, <2>6
<1> QED BY <1>1, <1>2, NextReadings, NextIInv, PTL DEF Spec
=============================================================================
