---------------------------- MODULE Us100_proofs ----------------------------
(***************************************************************************)
(* For every set of distances, every noise and every buffer size: buzzer   *)
(* and display agree, what is near is heard, and a program whose flush()   *)
(* empties the receive buffer pairs the two bytes of one answer again as   *)
(* soon as an answer comes undisturbed.                                    *)
(*                                                                         *)
(* The argument for the last: the buffer is empty when the answer arrives, *)
(* so an undisturbed answer is all it holds when it is read.               *)
(***************************************************************************)
EXTENDS Us100, TLAPS

USE BufferAssumption

EmptyBefore == pc = "wait" /\ empties => received = <<>>

AnswerOnly ==
    pc = "read" /\ empties /\ ~disturbed =>
        Len(received) = 2 /\ Whole(received[1], received[2])

IInv ==
    /\ TypeOK
    /\ EmptyBefore /\ AnswerOnly
    /\ Resynchronised /\ NearIsHeard /\ WarningsAgree

(* A distance is a number of centimetres below 6554. *)
LEMMA CentimetresLemma ==
    ASSUME NEW ms \in Octet, NEW ls \in Octet
    PROVE  Centimetres(ms, ls) \in Centimetre
BY SMT DEF Octet, Centimetres, Centimetre

LEMMA IntegersLemma == Centimetre \subseteq Int /\ Shown \subseteq Int /\ -1 \in Shown /\ 0 \in Centimetre
BY SMT DEF Centimetre, Shown

(* The sensor's two bytes. *)
LEMMA BytesLemma ==
    ASSUME NEW mm \in Millimetres
    PROVE  Ms(mm) \in Byte /\ Ls(mm) \in Byte
<1>1. mm \div 256 \in Octet
  <2>1. mm \in Nat
    BY SMT DEF Millimetres
  <2>2. mm \div 256 \in Int
    BY <2>1, SMT
  <2>3. mm \div 256 <= 255
    BY SMT DEF Millimetres
  <2>4. mm \div 256 >= 0
    BY SMT DEF Millimetres
  <2> QED BY <2>2, <2>3, <2>4, SMT DEF Octet
<1>2. mm % 256 \in Octet
  BY SMT DEF Millimetres, Octet
<1> QED BY <1>1, <1>2 DEF Ms, Ls, Byte

(* The bands and the held alarm leave no gap. *)
LEMMA BandsLemma ==
    ASSUME NEW d \in Int, InRange(d), d < 30
    PROVE  Beeps(d) \/ d <= 5
BY SMT DEF InRange, Beeps

LEMMA ShowLemma ==
    ASSUME NEW d \in Int, InRange(d)
    PROVE  /\ Show(d) \in [dist : Shown, caution : BOOLEAN]
           /\ Show(d).dist = d
           /\ Show(d).caution <=> d < 30
<1>1. d \in Shown
  BY SMT DEF InRange, Shown
<1> QED BY <1>1 DEF Show

LEMMA RoomLemma ==
    ASSUME NEW s \in Seq(Byte)
    PROVE  /\ Room(s) \in Seq(Byte) /\ Len(Room(s)) <= Buffer
           /\ Len(s) <= Buffer =>
                Len(Room(s)) = Len(s) /\ \A i \in 1 .. Len(s) : Room(s)[i] = s[i]
BY DEF Room

LEMMA ConcatLemma ==
    ASSUME NEW S, NEW a \in Seq(S), NEW b \in Seq(S), NEW c \in Seq(S), NEW d \in Seq(S)
    PROVE  a \o b \o c \o d \in Seq(S)
<1>1. a \o b \in Seq(S)
  OBVIOUS
<1>2. a \o b \o c \in Seq(S)
  BY <1>1
<1> QED BY <1>2

LEMMA PairLemma ==
    ASSUME NEW S, NEW x \in S, NEW y \in S
    PROVE  LET s == <<>> \o <<>> \o <<x>> \o <<y>>
           IN Len(s) = 2 /\ s[1] = x /\ s[2] = y
<1>1. <<>> \o <<>> = <<>>
  OBVIOUS
<1>2. <<>> \o <<x>> = <<x>>
  OBVIOUS
<1>3. LET s == <<x>> \o <<y>> IN Len(s) = 2 /\ s[1] = x /\ s[2] = y
  OBVIOUS
<1> QED BY <1>1, <1>2, <1>3

LEMMA InitIInv == Init => IInv
<1> SUFFICES ASSUME Init PROVE IInv
  OBVIOUS
<1>1. lcd \in [dist : Shown, caution : BOOLEAN]
  BY IntegersLemma DEF Init
<1>2. received \in Seq(Byte) /\ Len(received) <= Buffer
  BY DEF Init
<1>3. TypeOK
  BY <1>1, <1>2, IntegersLemma DEF Init, TypeOK
<1> QED BY <1>3 DEF Init, IInv, EmptyBefore, AnswerOnly, Resynchronised, NearIsHeard, WarningsAgree

LEMMA AskIInv == ASSUME IInv, Ask PROVE IInv'
<1>1. Flushed \in Seq(Byte) /\ Len(Flushed) <= Buffer
  BY DEF Flushed, IInv, TypeOK
<1>2. received' = [i \in 1 .. Len(Flushed) |-> [Flushed[i] EXCEPT !.new = FALSE]]
  BY DEF Ask
<1>3. \A i \in 1 .. Len(Flushed) : [Flushed[i] EXCEPT !.new = FALSE] \in Byte
  <2>1. ASSUME NEW b \in Byte PROVE [b EXCEPT !.new = FALSE] \in Byte
    BY DEF Byte
  <2> QED BY <1>1, <2>1
<1>4. received' \in Seq(Byte) /\ Len(received') = Len(Flushed)
  BY <1>1, <1>2, <1>3
<1>5. empties' => received' = <<>>
  BY <1>1, <1>2 DEF Flushed, Ask
<1>6. TypeOK'
  BY <1>1, <1>4 DEF Ask, IInv, TypeOK
<1> QED BY <1>5, <1>6 DEF Ask, IInv, EmptyBefore, AnswerOnly, Resynchronised, NearIsHeard, WarningsAgree

LEMMA AnswerIInv == ASSUME IInv, Answer PROVE IInv'
<1>1. PICK mm \in Distances, noise \in {<<>>} \cup {<<Stray(v)>> : v \in Noise} :
        \E ms \in {<<>>, <<Ms(mm)>>}, ls \in {<<>>, <<Ls(mm)>>} :
          /\ received' = Room(received \o noise \o ms \o ls)
          /\ disturbed' = (noise # <<>> \/ ms = <<>> \/ ls = <<>>
                             \/ Len(received \o noise \o ms \o ls) > Buffer)
  BY DEF Answer
<1>2. PICK ms \in {<<>>, <<Ms(mm)>>}, ls \in {<<>>, <<Ls(mm)>>} :
          /\ received' = Room(received \o noise \o ms \o ls)
          /\ disturbed' = (noise # <<>> \/ ms = <<>> \/ ls = <<>>
                             \/ Len(received \o noise \o ms \o ls) > Buffer)
  BY <1>1
<1> DEFINE all == received \o noise \o ms \o ls
<1>3. Ms(mm) \in Byte /\ Ls(mm) \in Byte
  BY DistancesAssumption, BytesLemma
<1>4. noise \in Seq(Byte)
  <2>1. \A v \in Noise : Stray(v) \in Byte
    BY DistancesAssumption DEF Stray, Byte
  <2>2. CASE noise = <<>>
    BY <2>2
  <2>3. ASSUME NEW v \in Noise, noise = <<Stray(v)>> PROVE noise \in Seq(Byte)
    BY <2>1, <2>3
  <2> QED BY <2>2, <2>3
<1>5. ms \in Seq(Byte) /\ ls \in Seq(Byte)
  <2>1. <<>> \in Seq(Byte) /\ <<Ms(mm)>> \in Seq(Byte) /\ <<Ls(mm)>> \in Seq(Byte)
    BY <1>3
  <2> QED BY <2>1
<1>6. all \in Seq(Byte)
  BY <1>4, <1>5, ConcatLemma DEF IInv, TypeOK
<1> HIDE DEF all
<1>a. received' = Room(all)
  BY <1>2 DEF all
<1>b. disturbed' = (noise # <<>> \/ ms = <<>> \/ ls = <<>> \/ Len(all) > Buffer)
  BY <1>2 DEF all
<1>7. received' \in Seq(Byte) /\ Len(received') <= Buffer
  BY <1>a, <1>6, RoomLemma
<1>8. disturbed' \in BOOLEAN
  BY <1>b, Zenon
<1>9. TypeOK'
  BY <1>7, <1>8 DEF Answer, IInv, TypeOK
<1>10. ASSUME empties', ~disturbed'
       PROVE  Len(received') = 2 /\ Whole(received'[1], received'[2])
  <2>1. received = <<>> /\ noise = <<>> /\ ms = <<Ms(mm)>> /\ ls = <<Ls(mm)>>
    BY <1>b, <1>10 DEF Answer, IInv, EmptyBefore
  <2>3. Len(all) = 2 /\ all[1] = Ms(mm) /\ all[2] = Ls(mm)
    BY <1>3, <2>1, PairLemma DEF all
  <2>4. Len(received') = 2 /\ received'[1] = Ms(mm) /\ received'[2] = Ls(mm)
    <3>1. Len(all) <= Buffer
      BY <2>3
    <3>2. Len(Room(all)) = Len(all) /\ \A i \in 1 .. Len(all) : Room(all)[i] = all[i]
      BY <1>6, <3>1, RoomLemma
    <3> QED BY <1>a, <2>3, <3>2
  <2> QED BY <2>4 DEF Whole, Ms, Ls
<1>11. pc' = "read"
  BY DEF Answer
<1> QED BY <1>9, <1>10, <1>11
        DEF Answer, IInv, EmptyBefore, AnswerOnly, Resynchronised, NearIsHeard, WarningsAgree

LEMMA MeasureIInv == ASSUME IInv, Measure PROVE IInv'
<1> DEFINE d == Centimetres(received[1].val, received[2].val)
<1>1. received[1] \in Byte /\ received[2] \in Byte
  BY DEF Measure, IInv, TypeOK
<1>2. d \in Centimetre
  BY <1>1, CentimetresLemma DEF Byte
<1>i. d \in Int
  BY <1>2, IntegersLemma
<1>3. /\ pc = "read" /\ pc' = "ask" /\ cmDist' = d
      /\ UNCHANGED <<empties, disturbed>>
      /\ heard' = IF Whole(received[1], received[2]) THEN "answer" ELSE "bytes"
      /\ received' = SubSeq(received, 3, Len(received))
  BY DEF Measure
<1>4. received' \in Seq(Byte) /\ Len(received') <= Buffer
  BY <1>3 DEF IInv, TypeOK
<1>5. EmptyBefore' /\ AnswerOnly'
  BY <1>3 DEF EmptyBefore, AnswerOnly
<1>6. Resynchronised'
  BY <1>3 DEF IInv, AnswerOnly, Resynchronised
<1>7. CASE InRange(d)
  <2>1. /\ lcd' = Show(d)
        /\ buzzer' = (d <= 5)
        /\ sounded' = (Beeps(d) \/ d <= 5)
    BY <1>7 DEF Measure
  <2> HIDE DEF d
  <2>2. lcd' \in [dist : Shown, caution : BOOLEAN]
    BY <1>i, <1>7, <2>1, ShowLemma
  <2>3. lcd'.dist = d /\ (lcd'.caution <=> d < 30)
    BY <1>i, <1>7, <2>1, ShowLemma
  <2>4. buzzer' \in BOOLEAN /\ sounded' \in BOOLEAN
    <3>1. buzzer' = (d <= 5)
      BY <2>1
    <3>2. sounded' = (Beeps(d) \/ d <= 5)
      BY <2>1
    <3>3. buzzer' \in BOOLEAN
      BY <1>i, <3>1
    <3>4. sounded' \in BOOLEAN
      BY <1>i, <3>2
    <3> QED BY <3>3, <3>4
  <2>5. TypeOK'
    BY <1>2, <1>3, <1>4, <2>2, <2>4 DEF IInv, TypeOK
  <2>6. d < 30 => sounded'
    BY <1>i, <1>7, <2>1, BandsLemma
  <2>7. NearIsHeard'
    BY <1>3, <2>6 DEF NearIsHeard
  <2>8. WarningsAgree'
    <3>1. buzzer' = (d <= 5)
      BY <2>1
    <3>2. buzzer' => d <= 5
      BY <1>i, <3>1
    <3> QED BY <1>i, <2>3, <3>2 DEF WarningsAgree
  <2> QED BY <1>5, <1>6, <2>5, <2>7, <2>8 DEF IInv
<1>8. CASE ~InRange(d)
  <2>1. UNCHANGED <<lcd, buzzer, sounded>>
    BY <1>8 DEF Measure
  <2> HIDE DEF d
  <2>2. TypeOK'
    BY <1>2, <1>3, <1>4, <2>1 DEF IInv, TypeOK
  <2>3. NearIsHeard'
    BY <1>3, <1>8 DEF NearIsHeard, InRange
  <2>4. WarningsAgree'
    BY <2>1 DEF IInv, WarningsAgree
  <2> QED BY <1>5, <1>6, <2>2, <2>3, <2>4 DEF IInv
<1> QED BY <1>7, <1>8

LEMMA NothingIInv == ASSUME IInv, Nothing PROVE IInv'
BY DEF Nothing, IInv, TypeOK, EmptyBefore, AnswerOnly, Resynchronised, NearIsHeard, WarningsAgree

LEMMA NextIInv == IInv /\ [Next]_vars => IInv'
<1> SUFFICES ASSUME IInv, [Next]_vars PROVE IInv'
  OBVIOUS
<1>1. CASE UNCHANGED vars
  BY <1>1 DEF vars, IInv, TypeOK, EmptyBefore, AnswerOnly, Resynchronised, NearIsHeard, WarningsAgree
<1> QED BY <1>1, AskIInv, AnswerIInv, MeasureIInv, NothingIInv DEF Next

LEMMA SpecIInv == Spec => []IInv
BY InitIInv, NextIInv, PTL DEF Spec

(* No distance needs more than its 16 bits, and the buffer keeps its size. *)
THEOREM TypeCorrect == Spec => []TypeOK
<1>1. IInv => TypeOK
  BY DEF IInv
<1> QED BY SpecIInv, <1>1, PTL

(* With a flush() that empties the buffer no disturbance outlives its pass.*)
THEOREM HalvesPairAgain == Spec => []Resynchronised
<1>1. IInv => Resynchronised
  BY DEF IInv
<1> QED BY SpecIInv, <1>1, PTL

(* No accepted distance below 30 cm is silent.                             *)
THEOREM NothingNearIsSilent == Spec => []NearIsHeard
<1>1. IInv => NearIsHeard
  BY DEF IInv
<1> QED BY SpecIInv, <1>1, PTL

(* Display and buzzer never contradict each other.                         *)
THEOREM BuzzerMeansCaution == Spec => []WarningsAgree
<1>1. IInv => WarningsAgree
  BY DEF IInv
<1> QED BY SpecIInv, <1>1, PTL
=============================================================================
