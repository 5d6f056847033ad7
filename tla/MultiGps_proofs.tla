-------------------------- MODULE MultiGps_proofs --------------------------
(***************************************************************************)
(* For any number of receivers, whatever they send and however much of it  *)
(* their buffers keep.                                                     *)
(*                                                                         *)
(* NothingOldIsFed: an element that can still be converted was stored in   *)
(* the pass that is running, because the conversion at the end of a pass   *)
(* leaves none behind.                                                     *)
(*                                                                         *)
(* TypesCorrect: what takes thought is that a sentence always finds a      *)
(* number of its own, because there are more numbers than places that hold *)
(* one.                                                                    *)
(*                                                                         *)
(* PassesAdvance: what is left of a pass is the full buffers of the turns  *)
(* to come and what this turn's buffer holds; every step takes from that,  *)
(* and a receiver adds to it only in its turn, whose buffer is then empty. *)
(*                                                                         *)
(* PositionsWhole: what a buffer holds without an overflow is text as it   *)
(* was sent, so a longitude follows its latitude in it, from it to the next*)
(* piece the receiver sends, from the line to it, and within the line.     *)
(* After an overflow one piece of old text may be left over, but it is     *)
(* before the header the next line starts at.                              *)
(***************************************************************************)
EXTENDS MultiGps, TLAPS, SequenceTheorems, FiniteSetTheorems

Raw(n, p) == nmea[n][p].text = Places[p]

RawIsNew ==
    \A n \in Device : \A p \in DOMAIN Places :
        Raw(n, p) => nmea[n][p].new /\ pc \notin {"idle", "fed"}

IInv ==
    /\ nmea = [n \in Device |-> nmea[n]]
    /\ dev \in Device
    /\ RawIsNew
    /\ FedIsNew

USE DevicesAssumption DEF Device

LEMMA PlacesLemma ==
    /\ DOMAIN Places = {1, 2}
    /\ Places[1] = "lat" /\ Places[2] = "lng"
BY DEF Places

LEMMA InitIInv == Init => IInv
BY PlacesLemma DEF Init, IInv, RawIsNew, Raw, FedIsNew, Fed, Junk

LEMMA TurnIInv ==
    ASSUME IInv, EndTurn, pc \in {"find", "collect"},
           NEW f, nmea' = nmea \/ nmea' = [nmea EXCEPT ![dev] = Stored(@, f)]
    PROVE  IInv'
<1>1. dev' \in Device /\ pc' \in {"find", "convert"}
  BY DEF EndTurn, IInv
<1>2. CASE nmea' = nmea
  BY <1>1, <1>2 DEF IInv, RawIsNew, Raw, FedIsNew
<1>3. CASE nmea' = [nmea EXCEPT ![dev] = Stored(@, f)]
  <2>1. nmea' = [n \in Device |-> IF n = dev THEN Stored(nmea[dev], f) ELSE nmea[n]]
    BY <1>3 DEF IInv
  <2>2. ASSUME NEW n \in Device, NEW p \in DOMAIN Places, Raw(n, p)'
        PROVE  nmea'[n][p].new
    <3>1. CASE n # dev
      BY <2>1, <2>2, <3>1 DEF IInv, RawIsNew, Raw
    <3>2. CASE n = dev /\ p \notin DOMAIN f
      BY <2>1, <2>2, <3>2 DEF IInv, RawIsNew, Raw, Stored
    <3>3. CASE n = dev /\ p \in DOMAIN f
      BY <2>1, <2>2, <3>3, PlacesLemma DEF Raw, Stored, Junk
    <3> QED BY <3>1, <3>2, <3>3
  <2> QED BY <1>1, <2>1, <2>2 DEF IInv, RawIsNew, FedIsNew
<1> QED BY <1>2, <1>3

LEMMA NextIInv == IInv /\ [Next]_vars => IInv'
<1> SUFFICES ASSUME IInv, [Next]_vars PROVE IInv'
  OBVIOUS
<1>1. CASE Start
  <2>1. \A n \in Device : \A p \in DOMAIN Places : ~Raw(n, p)
    BY <1>1 DEF Start, IInv, RawIsNew
  <2>2. nmea' = [n \in Device |-> [p \in DOMAIN Places |-> Old(nmea[n][p])]]
    BY <1>1 DEF Start
  <2>3. \A n \in Device : \A p \in DOMAIN Places : ~Raw(n, p)'
    BY <2>1, <2>2 DEF Raw, Old
  <2>4. pc' = "find" /\ dev' = 1
    BY <1>1 DEF Start
  <2> QED BY <2>2, <2>3, <2>4 DEF IInv, RawIsNew, FedIsNew
<1>2. CASE Find
  BY <1>2 DEF Find, IInv, RawIsNew, Raw, FedIsNew
<1>3. CASE FindTimeout
  BY <1>3, TurnIInv DEF FindTimeout
<1>4. CASE Collect
  BY <1>4, TurnIInv DEF Collect, IInv, RawIsNew, Raw, FedIsNew
<1>5. CASE CollectTimeout
  BY <1>5, TurnIInv DEF CollectTimeout
<1>6. CASE Convert
  <2>1. /\ nmea' = [n \in Device |->
                      [p \in DOMAIN Places |-> Converted(nmea[n][p], p)]]
        /\ pc' = "fed" /\ dev' = dev
    BY <1>6 DEF Convert
  <2>2. ASSUME NEW n \in Device, NEW p \in DOMAIN Places
        PROVE  ~Raw(n, p)' /\ (Fed(n, p)' => nmea'[n][p].new)
    <3>1. nmea'[n][p] = Converted(nmea[n][p], p)
      BY <2>1
    <3>2. CASE Raw(n, p)
      BY <3>1, <3>2, PlacesLemma DEF Converted, Degrees, Raw, Fed, IInv, RawIsNew
    <3>3. CASE ~Raw(n, p)
      BY <3>1, <3>3, PlacesLemma DEF Converted, Junk, Raw, Fed
    <3> QED BY <3>2, <3>3
  <2> QED BY <2>1, <2>2 DEF IInv, RawIsNew, FedIsNew
<1>7. ASSUME NEW n \in Device, Talk(n) PROVE IInv'
  BY <1>7 DEF Talk, IInv, RawIsNew, Raw, FedIsNew, Fed
<1>8. CASE UNCHANGED vars
  BY <1>8 DEF vars, IInv, RawIsNew, Raw, FedIsNew, Fed
<1> QED BY <1>1, <1>2, <1>3, <1>4, <1>5, <1>6, <1>7, <1>8 DEF Next, Pass

(* What the filter is fed as a position was received in the same pass.     *)
THEOREM NothingOldIsFed == Spec => []FedIsNew
<1>1. IInv /\ [Next]_vars => IInv'
  BY NextIInv
<1>2. IInv => FedIsNew
  BY DEF IInv
<1> QED BY InitIInv, <1>1, <1>2, PTL DEF Spec

-----------------------------------------------------------------------------
(* Types.                                                                  *)

LEMMA LenPlaces == Len(Places) = 2
BY DEF Places

LEMMA BurstLemma ==
    \A n \in Device : Burst[n] \in Seq(Texts) /\ Len(Burst[n]) \in Nat \ {0}
<1> SUFFICES ASSUME NEW n \in Device
             PROVE  Burst[n] \in Seq(Texts) /\ Len(Burst[n]) \in Nat \ {0}
  OBVIOUS
<1>1. Burst[n] \in Seq(Texts) /\ Burst[n] # <<>>
  BY BurstAssumption
<1> QED BY <1>1, EmptySeq

LEMMA SizeLemma == Size \in 1 .. 3 /\ Ids = 0 .. Size + 6
BY SizeAssumption, LenPlaces DEF Ids

(* TypeOK, with what it leaves out of buffer and sent. *)
TInv ==
    /\ TypeOK
    /\ buffer \in [Device -> Seq(Piece)]
    /\ sent \in [Device -> Nat]

(* The id in place k of what can hold one of receiver n's sentences: its   *)
(* buffer, its elements of nmea[][], the line being read.                  *)
Holds(n, k) ==
    IF k <= Size THEN IF k <= Len(buffer[n]) THEN buffer[n][k].id ELSE 0
    ELSE IF k = Size + 1 THEN nmea[n][1].id
    ELSE IF k = Size + 2 THEN nmea[n][2].id
    ELSE IF k - Size - 2 <= Len(line) THEN line[k - Size - 2].id ELSE 0

(* There are more numbers than places that can hold one.                   *)
LEMMA NumberLeft ==
    ASSUME TInv, NEW n \in Device
    PROVE  \E i \in Ids \ {0} : i \notin UsedIds(n)
<1> DEFINE g == [k \in 1 .. Size + 5 |-> Holds(n, k)]
           S == {g[k] : k \in 1 .. Size + 5}
           T == 1 .. Size + 6
<1>1. Size \in Nat /\ Size + 5 \in Nat /\ Ids = 0 .. Size + 6 /\ Size \in Int
  BY SizeLemma
<1>2. /\ Len(buffer[n]) \in Nat /\ Len(buffer[n]) <= Size /\ DOMAIN buffer[n] = 1 .. Len(buffer[n])
      /\ Len(line) \in Nat /\ Len(line) <= 3 /\ DOMAIN line = 1 .. Len(line)
  <2>1. buffer[n] \in Seq(Piece) /\ line \in Seq(Field)
    BY DEF TInv, TypeOK
  <2> QED BY <2>1, LenPlaces, LenProperties DEF TInv, TypeOK
<1>3. UsedIds(n) \subseteq S
  <2> SUFFICES ASSUME NEW i \in UsedIds(n) PROVE \E k \in 1 .. Size + 5 : g[k] = i
    OBVIOUS
  <2>1. CASE i \in {buffer[n][j].id : j \in DOMAIN buffer[n]}
    <3>1. PICK j \in DOMAIN buffer[n] : i = buffer[n][j].id
      BY <2>1
    <3>2. j \in 1 .. Size + 5 /\ j <= Size /\ j <= Len(buffer[n])
      <4> DEFINE m == Len(buffer[n])
      <4>1. j \in 1 .. m /\ m \in Nat /\ m <= Size
        BY <1>2
      <4> HIDE DEF m
      <4>2. j \in 1 .. Size + 5 /\ j <= Size /\ j <= m
        BY <1>1, <4>1
      <4> QED BY <4>2 DEF m
    <3>3. Holds(n, j) = buffer[n][j].id
      BY <3>2, Zenon DEF Holds
    <3>4. g[j] = i
      BY <3>1, <3>2, <3>3
    <3> QED BY <3>2, <3>4
  <2>2. CASE i \in {nmea[n][p].id : p \in DOMAIN Places}
    <3>1. i = nmea[n][1].id \/ i = nmea[n][2].id
      BY <2>2, PlacesLemma
    <3>2. /\ Size + 1 \in 1 .. Size + 5 /\ Size + 2 \in 1 .. Size + 5
          /\ ~(Size + 1 <= Size) /\ ~(Size + 2 <= Size) /\ Size + 1 # Size + 2
      BY <1>1
    <3>3. g[Size + 1] = nmea[n][1].id /\ g[Size + 2] = nmea[n][2].id
      BY <3>2 DEF Holds
    <3> QED BY <3>1, <3>2, <3>3
  <2>3. CASE i \in {line[j].id : j \in DOMAIN line}
    <3>1. PICK j \in DOMAIN line : i = line[j].id
      BY <2>3
    <3> DEFINE k == j + Size + 2
    <3>2. /\ k \in 1 .. Size + 5 /\ ~(k <= Size) /\ k # Size + 1 /\ k # Size + 2
          /\ k - Size - 2 = j /\ j <= Len(line)
      <4> DEFINE m == Len(line)
      <4>1. j \in 1 .. m /\ m \in Nat /\ m <= 3
        BY <1>2
      <4> HIDE DEF m
      <4>2. /\ k \in 1 .. Size + 5 /\ ~(k <= Size) /\ k # Size + 1 /\ k # Size + 2
            /\ k - Size - 2 = j /\ j <= m
        <5>1. Size \in Int /\ 0 <= Size
          BY <1>1
        <5> QED BY <4>1, <5>1 DEF k
      <4> QED BY <4>2 DEF m
    <3> HIDE DEF k
    <3>3. g[k] = i
      BY <3>1, <3>2 DEF Holds
    <3> QED BY <3>2, <3>3
  <2> QED BY <2>1, <2>2, <2>3 DEF UsedIds
<1>4. IsFiniteSet(S) /\ Cardinality(S) <= Size + 5
  <2>1. g \in Surjection(1 .. Size + 5, S)
    <3>1. g \in [1 .. Size + 5 -> S]
      OBVIOUS
    <3>2. \A y \in S : \E k \in 1 .. Size + 5 : g[k] = y
      OBVIOUS
    <3> HIDE DEF g, S
    <3> QED BY <3>1, <3>2 DEF Surjection
  <2>2. ExistsSurjection(1 .. Size + 5, S)
    BY <2>1 DEF ExistsSurjection
  <2> HIDE DEF S, g
  <2> QED BY <1>1, <2>2, FS_SurjCardinalityBound, FS_NatSurjection
<1>5. IsFiniteSet(T) /\ Cardinality(T) = Size + 6
  BY <1>1, FS_Interval
<1> HIDE DEF S, T
<1>6. ~(T \subseteq S)
  <2> SUFFICES ASSUME T \in SUBSET S PROVE FALSE
    OBVIOUS
  <2>1. Cardinality(T) <= Cardinality(S)
    BY <1>4, FS_Subset
  <2>2. Cardinality(S) \in Nat
    BY <1>4, FS_CardinalityType
  <2> QED BY <1>1, <1>4, <1>5, <2>1, <2>2
<1>7. PICK i \in T : i \notin S
  BY <1>6
<1>8. i \in Ids \ {0}
  BY <1>1, <1>7 DEF T
<1> QED BY <1>3, <1>7, <1>8

LEMMA NextIdLemma ==
    ASSUME TInv, NEW n \in Device
    PROVE  NextId(n) \in Ids \ {0} /\ (id[n] # 0 => NextId(n) = id[n])
<1>1. (CHOOSE i \in Ids \ {0} : i \notin UsedIds(n)) \in Ids \ {0}
  BY NumberLeft
<1>2. id[n] \in Ids
  BY DEF TInv, TypeOK
<1> QED BY <1>1, <1>2 DEF NextId

LEMMA AsFieldLemma ==
    ASSUME NEW piece \in Piece
    PROVE  /\ AsField(piece) \in Field
           /\ AsField(piece).id = piece.id /\ AsField(piece).torn = piece.torn
           /\ AsField(piece).text = IF piece.text \in {"hdr", "eol"} THEN "other" ELSE piece.text
BY DEF AsField, Piece, Field, Texts

(* What Grown does to the fields, element by element.                      *)
LEMMA GrownLemma ==
    ASSUME line \in Seq(Field), Len(line) <= 3, NEW piece \in Piece
    PROVE  /\ Grown(piece) \in Seq(Field) /\ Len(Grown(piece)) <= 3
           /\ (line # <<>> /\ line[Len(line)].torn) =>
                 /\ Len(Grown(piece)) = Len(line)
                 /\ \A i \in 1 .. Len(line) - 1 : Grown(piece)[i] = line[i]
                 /\ Grown(piece)[Len(line)] = [text |-> "bad", id |-> 0, torn |-> piece.torn]
           /\ ~(line # <<>> /\ line[Len(line)].torn) /\ Len(line) < 3 =>
                 /\ Len(Grown(piece)) = Len(line) + 1
                 /\ \A i \in 1 .. Len(line) : Grown(piece)[i] = line[i]
                 /\ Grown(piece)[Len(line) + 1] = AsField(piece)
           /\ ~(line # <<>> /\ line[Len(line)].torn) /\ Len(line) = 3 => Grown(piece) = line
<1>1. Len(line) \in Nat
  BY LenProperties
<1> DEFINE bad == [text |-> "bad", id |-> 0, torn |-> piece.torn]
           last == line # <<>> /\ line[Len(line)].torn
<1>2. bad \in Field /\ AsField(piece) \in Field
  <2>1. piece.torn \in BOOLEAN /\ 0 \in Ids
    BY SizeLemma DEF Piece
  <2> QED BY <2>1, AsFieldLemma DEF Field
<1>3. CASE last
  <2> DEFINE k == Len(line)
             new == [line EXCEPT ![k] = bad]
  <2>1. line # <<>> /\ k \in 1 .. Len(line)
    <3>1. Len(line) # 0
      BY <1>3, EmptySeq, <1>1
    <3> QED BY <1>1, <1>3, <3>1
  <2>2. new \in Seq(Field) /\ Len(new) = Len(line) /\ new[k] = bad
        /\ \A i \in 1 .. Len(line) : i # k => new[i] = line[i]
    <3> HIDE DEF bad, last
    <3> QED BY <1>1, <1>2, <2>1, ExceptSeq
  <2>3. Grown(piece) = new
    BY <1>3 DEF Grown
  <2>4. \A i \in 1 .. Len(line) - 1 : i \in 1 .. Len(line) /\ i # k
    BY <1>1
  <2> HIDE DEF new, bad
  <2>5. \A i \in 1 .. Len(line) - 1 : new[i] = line[i]
    BY <2>2, <2>4
  <2> QED BY <1>3, <2>2, <2>3, <2>5 DEF bad
<1>4. CASE ~last /\ Len(line) < 3
  <2> DEFINE new == Append(line, AsField(piece))
  <2>1. /\ new \in Seq(Field) /\ Len(new) = Len(line) + 1
        /\ \A i \in 1 .. Len(line) : new[i] = line[i]
        /\ new[Len(line) + 1] = AsField(piece)
    BY <1>2, AppendProperties
  <2>2. Grown(piece) = new
    BY <1>1, <1>4, LenPlaces DEF Grown
  <2> HIDE DEF new
  <2> QED BY <1>1, <1>4, <2>1, <2>2
<1>5. CASE ~last /\ Len(line) = 3
  <2>1. Grown(piece) = line
    BY <1>5, LenPlaces DEF Grown
  <2> HIDE DEF last
  <2>2. Len(line) = 3 /\ ~last
    BY <1>5
  <2>3. ~(Len(line) < 3)
    BY <2>2
  <2>4. Grown(piece) \in Seq(Field) /\ Len(Grown(piece)) <= 3
    BY <2>1, Zenon
  <2> QED BY <2>1, <2>2, <2>3, <2>4, Zenon DEF last
<1>6. Len(line) < 3 \/ Len(line) = 3
  <2> DEFINE m == Len(line)
  <2>1. m \in Nat /\ m <= 3
    BY <1>1
  <2> HIDE DEF m
  <2>2. m < 3 \/ m = 3
    BY <2>1
  <2> QED BY <2>2 DEF m
<1> HIDE DEF bad
<1> QED BY <1>3, <1>4, <1>5, <1>6, Zenon

LEMMA StoredLemma ==
    ASSUME NEW old \in [DOMAIN Places -> Element], NEW f \in Seq(Field)
    PROVE  Stored(old, f) \in [DOMAIN Places -> Element]
<1> SUFFICES ASSUME NEW p \in DOMAIN Places PROVE Stored(old, f)[p] \in Element
  BY DEF Stored
<1>1. CASE p \notin DOMAIN f
  BY <1>1 DEF Stored
<1>2. CASE p \in DOMAIN f /\ (f[p].text # Places[p] \/ f[p].torn)
  <2>1. Junk \in Element
    BY SizeLemma DEF Junk, Element
  <2> QED BY <1>2, <2>1 DEF Stored
<1>3. CASE p \in DOMAIN f /\ ~(f[p].text # Places[p] \/ f[p].torn)
  <2>1. f[p] \in Field
    <3>1. p \in 1 .. Len(f)
      BY <1>3
    <3> QED BY <3>1, ElementOfSeq
  <2>2. f[p].text \in {"lat", "lng"} /\ f[p].id \in Ids
    BY <1>3, <2>1, PlacesLemma DEF Field
  <2> DEFINE e == [text |-> f[p].text, id |-> f[p].id, new |-> TRUE]
  <2>3. e \in Element
    BY <2>2 DEF Element
  <2>4. Stored(old, f)[p] = e
    BY <1>3 DEF Stored
  <2> QED BY <2>3, <2>4
<1> QED BY <1>1, <1>2, <1>3

LEMMA StoredTyped ==
    ASSUME TInv, NEW f \in Seq(Field), nmea' = [nmea EXCEPT ![dev] = Stored(@, f)]
    PROVE  nmea' \in [Device -> [DOMAIN Places -> Element]]
<1>1. nmea \in [Device -> [DOMAIN Places -> Element]] /\ dev \in Device
  BY DEF TInv, TypeOK
<1>2. Stored(nmea[dev], f) \in [DOMAIN Places -> Element]
  BY <1>1, StoredLemma
<1> QED BY <1>1, <1>2

LEMMA EndTurnLemma ==
    ASSUME TInv, EndTurn
    PROVE  /\ pc' \in {"find", "convert"} /\ dev' \in Device /\ line' = <<>>
           /\ overflowed' \in [Device -> BOOLEAN] /\ gap' \in [Device -> BOOLEAN]
<1>1. dev \in Device /\ overflowed \in [Device -> BOOLEAN] /\ gap \in [Device -> BOOLEAN]
  BY DEF TInv, TypeOK
<1>0. dev \in Device
  BY DEF TInv, TypeOK
<1>2. dev' \in Device
  BY <1>0 DEF EndTurn
<1>3. overflowed' \in [Device -> BOOLEAN]
  BY <1>1 DEF EndTurn
<1>4. overflowed[dev] \in BOOLEAN
  BY <1>1
<1>5. gap' \in [Device -> BOOLEAN]
  BY <1>1, <1>4 DEF EndTurn
<1>6. pc' \in {"find", "convert"} /\ line' = <<>>
  BY DEF EndTurn
<1> QED BY <1>2, <1>3, <1>5, <1>6

LEMMA TakenLemma ==
    ASSUME TInv, Taken, buffer[dev] # <<>>
    PROVE  /\ buffer' \in [Device -> Seq(Piece)] /\ Head(buffer[dev]) \in Piece
           /\ buffer'[dev] = Tail(buffer[dev])
           /\ \A n \in Device : n # dev => buffer'[n] = buffer[n]
           /\ \A n \in Device : buffer'[n] \in Seq(Piece) /\ Len(buffer'[n]) <= Size
<1> DEFINE b == buffer[dev]
           t == Tail(b)
<1>1. /\ dev \in Device /\ b \in Seq(Piece) /\ Len(b) <= Size
      /\ buffer \in [Device -> Seq(Piece)]
  BY DEF TInv, TypeOK
<1>2. Head(b) \in Piece /\ t \in Seq(Piece) /\ Len(t) = Len(b) - 1
  <2> HIDE DEF b
  <2>1. b # <<>>
    BY DEF b
  <2> QED BY <1>1, <2>1, HeadTailProperties
<1>3. Len(t) <= Size
  <2>1. Len(b) \in Nat /\ Size \in Nat
    BY <1>1, SizeLemma, LenProperties
  <2> HIDE DEF b, t
  <2> QED BY <1>1, <1>2, <2>1
<1>4. buffer' = [buffer EXCEPT ![dev] = t]
  BY DEF Taken
<1> HIDE DEF t
<1>5. \A n \in Device : Len(buffer[n]) <= Size
  BY DEF TInv, TypeOK
<1>6. /\ buffer' \in [Device -> Seq(Piece)] /\ buffer'[dev] = t
      /\ \A n \in Device : n # dev => buffer'[n] = buffer[n]
  BY <1>1, <1>2, <1>4
<1>7. \A n \in Device : buffer'[n] \in Seq(Piece) /\ Len(buffer'[n]) <= Size
  BY <1>1, <1>2, <1>3, <1>5, <1>6
<1> QED BY <1>2, <1>6, <1>7 DEF t, b

LEMMA InitTInv == Init => TInv
<1> SUFFICES ASSUME Init PROVE TInv
  OBVIOUS
<1>1. Junk \in Element /\ 0 \in Ids
  BY SizeLemma DEF Junk, Element
<1>2. line \in Seq(Field) /\ Len(line) <= Len(Places) + 1
  BY EmptySeq, LenPlaces DEF Init
<1>3. nmea \in [Device -> [DOMAIN Places -> Element]]
  BY <1>1 DEF Init
<1>4. \A n \in Device : sent[n] \in 0 .. Len(Burst[n]) - 1
  <2> SUFFICES ASSUME NEW n \in Device PROVE sent[n] \in 0 .. Len(Burst[n]) - 1
    OBVIOUS
  <2>1. Len(Burst[n]) \in Nat \ {0}
    BY BurstLemma
  <2>2. sent[n] = 0
    BY DEF Init
  <2> HIDE DEF Device
  <2> QED BY <2>1, <2>2
<1>5. buffer \in [Device -> Seq(Piece)] /\ \A n \in Device : Len(buffer[n]) <= Size
  <2>1. <<>> \in Seq(Piece) /\ Len(<<>>) = 0
    BY EmptySeq
  <2>2. 0 <= Size
    BY SizeLemma
  <2> QED BY <2>1, <2>2 DEF Init
<1>6. sent \in [Device -> Nat] /\ id \in [Device -> Ids]
  BY <1>1 DEF Init
<1>7. \A n \in Device : buffer[n] \in Seq(Piece)
  BY <1>5
<1>8. pc = "idle" /\ dev \in Device
  BY DEF Init
<1>9. overflowed \in [Device -> BOOLEAN] /\ gap \in [Device -> BOOLEAN]
  BY DEF Init
<1> HIDE DEF Device
<1>10. TypeOK
  BY <1>2, <1>3, <1>4, <1>5, <1>6, <1>7, <1>8, <1>9 DEF TypeOK
<1> QED BY <1>5, <1>6, <1>10 DEF TInv

LEMMA TalkTInv == ASSUME TInv, NEW n \in Device, Talk(n) PROVE TInv'
<1> DEFINE piece == NextPiece(n)
           cut   == [piece EXCEPT !.torn = TRUE]
<1>1. piece \in Piece /\ cut \in Piece
  <2>1. sent[n] + 1 \in 1 .. Len(Burst[n]) /\ Burst[n] \in Seq(Texts)
    <3>1. sent[n] \in 0 .. Len(Burst[n]) - 1
      BY DEF TInv, TypeOK
    <3>2. Len(Burst[n]) \in Nat
      BY BurstLemma
    <3> QED BY <3>1, <3>2, BurstLemma
  <2>2. Burst[n][sent[n] + 1] \in Texts
    BY <2>1, ElementOfSeq
  <2>3. NextId(n) \in Ids /\ 0 \in Ids
    BY NextIdLemma, SizeLemma
  <2> QED BY <2>2, <2>3 DEF NextPiece, Piece
<1>2. sent' \in [Device -> Nat] /\ \A m \in Device : sent'[m] \in 0 .. Len(Burst[m]) - 1
  <2> DEFINE l == Len(Burst[n])
             v == (sent[n] + 1) % l
  <2>1. l \in Nat \ {0} /\ sent[n] \in Nat /\ sent \in [Device -> Nat]
    BY BurstLemma DEF TInv
  <2>2. v \in 0 .. l - 1
    <3> DEFINE y == sent[n] + 1
    <3>1. y \in Int
      BY <2>1
    <3> HIDE DEF l, y
    <3>2. y % l \in 0 .. l - 1
      BY <2>1, <3>1
    <3> QED BY <3>2 DEF y
  <2>3. sent' = [sent EXCEPT ![n] = v]
    BY DEF Talk
  <2>4. \A m \in Device : sent[m] \in 0 .. Len(Burst[m]) - 1
    BY DEF TInv, TypeOK
  <2>5. v \in Nat
    BY <2>1, <2>2
  <2> HIDE DEF v
  <2>6. sent' \in [Device -> Nat] /\ \A m \in Device : sent'[m] = IF m = n THEN v ELSE sent[m]
    BY <2>1, <2>3, <2>5
  <2> HIDE DEF Device
  <2> QED BY <2>2, <2>4, <2>6
<1>3. id' \in [Device -> Ids]
  <2> DEFINE v == CASE piece.text = "eol" -> 0 [] piece.id # 0 -> piece.id [] OTHER -> id[n]
  <2>1. id \in [Device -> Ids] /\ 0 \in Ids /\ piece.id \in Ids
    BY <1>1, SizeLemma DEF TInv, TypeOK, Piece
  <2> HIDE DEF piece
  <2>2. v \in Ids
    BY <2>1
  <2>3. id' = [id EXCEPT ![n] = v]
    BY DEF Talk, piece
  <2> HIDE DEF v
  <2> QED BY <2>1, <2>2, <2>3
<1>4. /\ buffer' \in [Device -> Seq(Piece)] /\ overflowed' \in [Device -> BOOLEAN]
      /\ \A m \in Device : buffer'[m] \in Seq(Piece) /\ Len(buffer'[m]) <= Size
  <2>1. /\ buffer \in [Device -> Seq(Piece)] /\ overflowed \in [Device -> BOOLEAN]
        /\ \A m \in Device : Len(buffer[m]) <= Size
    BY DEF TInv, TypeOK
  <2>2. ASSUME NEW e \in Piece, Len(buffer[n]) < Size, buffer' = [buffer EXCEPT ![n] = Append(@, e)]
        PROVE  /\ buffer' \in [Device -> Seq(Piece)]
               /\ \A m \in Device : buffer'[m] \in Seq(Piece) /\ Len(buffer'[m]) <= Size
    <3> DEFINE b == buffer[n]
               c == Append(b, e)
    <3>1. b \in Seq(Piece) /\ Len(b) \in Nat
      BY <2>1, LenProperties
    <3>2. c \in Seq(Piece) /\ Len(c) = Len(b) + 1
      <4> HIDE DEF b
      <4> QED BY <3>1, AppendProperties
    <3>3. Len(c) <= Size
      <4> HIDE DEF c
      <4>1. Len(b) < Size /\ Size \in Nat
        BY <2>2, SizeLemma
      <4> QED BY <3>1, <3>2, <4>1
    <3> HIDE DEF c
    <3>4. \A m \in Device : buffer'[m] = IF m = n THEN c ELSE buffer[m]
      BY <2>1, <2>2 DEF c
    <3>5. buffer' \in [Device -> Seq(Piece)]
      BY <2>1, <2>2, <3>2 DEF c
    <3> QED BY <2>1, <3>2, <3>3, <3>4, <3>5
  <2>3. CASE Len(buffer[n]) < Size /\ buffer' = [buffer EXCEPT ![n] = Append(@, piece)] /\ UNCHANGED overflowed
    <3> HIDE DEF piece
    <3> QED BY <1>1, <2>1, <2>2, <2>3
  <2>4. CASE /\ Len(buffer[n]) = Size - 1 /\ buffer' = [buffer EXCEPT ![n] = Append(@, cut)]
             /\ overflowed' = [overflowed EXCEPT ![n] = TRUE]
    <3>1. Len(buffer[n]) < Size
      BY <2>4, SizeLemma
    <3> HIDE DEF cut
    <3>2. overflowed' \in [Device -> BOOLEAN]
      BY <2>1, <2>4
    <3> QED BY <1>1, <2>2, <2>4, <3>1, <3>2
  <2>5. CASE overflowed' = [overflowed EXCEPT ![n] = TRUE] /\ UNCHANGED buffer
    BY <2>1, <2>5
  <2> QED BY <2>3, <2>4, <2>5 DEF Talk
<1> QED BY <1>2, <1>3, <1>4 DEF Talk, TInv, TypeOK

LEMMA NextTInv == TInv /\ [Next]_vars => TInv'
<1> SUFFICES ASSUME TInv, [Next]_vars PROVE TInv'
  OBVIOUS
<1>1. CASE Start
  <2>1. nmea' \in [Device -> [DOMAIN Places -> Element]]
    <3>1. ASSUME NEW n \in Device, NEW p \in DOMAIN Places PROVE Old(nmea[n][p]) \in Element
      <4>1. nmea[n][p] \in Element /\ 0 \in Ids
        BY SizeLemma DEF TInv, TypeOK
      <4> QED BY <4>1 DEF Old, Element
    <3> QED BY <1>1, <3>1 DEF Start
  <2>2. dev' \in Device /\ gap' \in [Device -> BOOLEAN]
    BY <1>1 DEF Start
  <2> QED BY <1>1, <2>1, <2>2 DEF Start, TInv, TypeOK
<1>2. CASE Find
  BY <1>2, TakenLemma DEF Find, TInv, TypeOK
<1>3. CASE FindTimeout
  <2>1. line' \in Seq(Field) /\ Len(line') <= Len(Places) + 1
    BY <1>3, EndTurnLemma, EmptySeq, LenPlaces DEF FindTimeout
  <2> QED BY <1>3, <2>1, EndTurnLemma DEF FindTimeout, TInv, TypeOK
<1>4. CASE Collect
  <2> DEFINE piece == Head(buffer[dev])
  <2>1. Taken /\ buffer[dev] # <<>> /\ UNCHANGED <<sent, id>>
    BY <1>4 DEF Collect
  <2>2. /\ buffer' \in [Device -> Seq(Piece)] /\ piece \in Piece
        /\ \A n \in Device : buffer'[n] \in Seq(Piece) /\ Len(buffer'[n]) <= Size
    BY <2>1, TakenLemma
  <2> HIDE DEF piece
  <2>3. line \in Seq(Field) /\ Len(line) <= 3
    BY LenPlaces DEF TInv, TypeOK
  <2>4. Grown(piece) \in Seq(Field) /\ Len(Grown(piece)) <= 3
    BY <2>2, <2>3, GrownLemma
  <2>5. CASE EndTurn /\ nmea' = [nmea EXCEPT ![dev] = Stored(@, Grown(piece))]
    <3>1. nmea' \in [Device -> [DOMAIN Places -> Element]]
      BY <2>4, <2>5, StoredTyped
    <3>2. line' \in Seq(Field) /\ Len(line') <= Len(Places) + 1
      BY <2>5, EndTurnLemma, EmptySeq, LenPlaces
    <3> QED BY <2>1, <2>2, <2>5, <3>1, <3>2, EndTurnLemma DEF TInv, TypeOK
  <2>6. CASE line' = Grown(piece) /\ UNCHANGED <<pc, dev, nmea, overflowed, gap>>
    <3>1. line' \in Seq(Field) /\ Len(line') <= Len(Places) + 1
      BY <2>4, <2>6, LenPlaces
    <3> QED BY <2>1, <2>2, <2>6, <3>1 DEF TInv, TypeOK
  <2> QED BY <1>4, <2>5, <2>6 DEF Collect, piece
<1>5. CASE CollectTimeout
  <2> DEFINE f == IF line = <<>> THEN line ELSE Grown([text |-> "other", id |-> 0, torn |-> TRUE])
  <2>1. f \in Seq(Field)
    <3>1. [text |-> "other", id |-> 0, torn |-> TRUE] \in Piece
      BY SizeLemma DEF Piece, Texts
    <3>2. line \in Seq(Field) /\ Len(line) <= 3
      BY LenPlaces DEF TInv, TypeOK
    <3> QED BY <3>1, <3>2, GrownLemma
  <2>2. nmea' = [nmea EXCEPT ![dev] = Stored(@, f)] /\ EndTurn /\ UNCHANGED <<sent, id, buffer>>
    BY <1>5 DEF CollectTimeout
  <2> HIDE DEF f
  <2>3. nmea' \in [Device -> [DOMAIN Places -> Element]]
    BY <2>1, <2>2, StoredTyped
  <2>4. line' \in Seq(Field) /\ Len(line') <= Len(Places) + 1
    BY <2>2, EndTurnLemma, EmptySeq, LenPlaces
  <2> QED BY <2>2, <2>3, <2>4, EndTurnLemma DEF TInv, TypeOK
<1>6. CASE Convert
  <2>1. nmea' \in [Device -> [DOMAIN Places -> Element]]
    <3>1. ASSUME NEW n \in Device, NEW p \in DOMAIN Places PROVE Converted(nmea[n][p], p) \in Element
      <4>1. nmea[n][p] \in Element /\ 0 \in Ids
        BY SizeLemma DEF TInv, TypeOK
      <4> QED BY <4>1 DEF Converted, Degrees, Junk, Element
    <3> QED BY <1>6, <3>1 DEF Convert
  <2> QED BY <1>6, <2>1 DEF Convert, TInv, TypeOK
<1>7. ASSUME NEW n \in Device, Talk(n) PROVE TInv'
  BY <1>7, TalkTInv
<1>8. CASE UNCHANGED vars
  BY <1>8 DEF vars, TInv, TypeOK
<1> QED BY <1>1, <1>2, <1>3, <1>4, <1>5, <1>6, <1>7, <1>8 DEF Next, Pass

(* Every buffer keeps its size, every line its length and every sentence   *)
(* finds a number that nothing of another one still bears.                 *)
THEOREM TypesCorrect == Spec => []TypeOK
<1>1. TInv => TypeOK
  BY DEF TInv
<1> QED BY <1>1, InitTInv, NextTInv, PTL DEF Spec

-----------------------------------------------------------------------------
(* The end of a pass comes closer. *)

TurnWork(d, l) == (Devices - d) * (Size + 1) + l + 1 + 1

LEMMA WorkOfTurn == pc \in {"find", "collect"} => Work = TurnWork(dev, Len(buffer[dev]))
BY DEF Work, TurnWork

LEMMA TurnsWork ==
    ASSUME NEW d \in Device
    PROVE  (Devices - d) * (Size + 1) \in Nat
<1>1. Devices - d \in Nat
  BY SMT
<1>2. Size + 1 \in Nat
  BY SizeAssumption, LenPlaces, SMT
<1>3. \A k, s \in Nat : k * s \in Nat
  BY SMT
<1> QED BY <1>1, <1>2, <1>3, Zenon

LEMMA TurnWorkLemma ==
    ASSUME NEW d \in Device, NEW l \in Nat
    PROVE  TurnWork(d, l) \in Nat /\ TurnWork(d, l) > 1
<1>1. PICK m \in Nat : m = (Devices - d) * (Size + 1)
  BY TurnsWork
<1> QED BY <1>1 DEF TurnWork

(* A buffer that loses a piece has less to take. *)
LEMMA ShorterBuffer ==
    ASSUME NEW d \in Device, NEW l \in Nat, NEW k \in Nat
    PROVE  /\ k < l => TurnWork(d, k) < TurnWork(d, l)
           /\ k <= l + 1 => TurnWork(d, k) <= TurnWork(d, l) + 1
<1>1. PICK m \in Nat : m = (Devices - d) * (Size + 1)
  BY TurnsWork
<1> QED BY <1>1 DEF TurnWork

(* The next turn, with a full buffer at most, is less than what was left.  *)
LEMMA NextTurnLess ==
    ASSUME NEW d \in Device, d # Devices, NEW l \in Nat, NEW k \in Nat, k <= Size
    PROVE  TurnWork(d + 1, k) < TurnWork(d, l)
<1>1. PICK m \in Int, s \in Nat : m = Devices - d /\ s = Size /\ k <= s
  <2>1. Devices - d \in Int
    BY SMT
  <2>2. Size \in Nat
    BY SizeAssumption, LenPlaces, SMT
  <2> QED BY <2>1, <2>2
<1>2. Devices - (d + 1) = m - 1
  BY <1>1
<1>3. (m - 1) * (s + 1) = m * (s + 1) - (s + 1)
  BY <1>1
<1>4. PICK n \in Int : n = m * (s + 1)
  BY <1>1
<1>5. TurnWork(d, l) = n + l + 1 + 1
  BY <1>1, <1>4 DEF TurnWork
<1>6. TurnWork(d + 1, k) = n - (s + 1) + k + 1 + 1
  BY <1>1, <1>2, <1>3, <1>4 DEF TurnWork
<1> QED BY <1>1, <1>4, <1>5, <1>6

LEMMA BufferLength ==
    ASSUME TInv, NEW n \in Device
    PROVE  Len(buffer[n]) \in Nat /\ Len(buffer[n]) <= Size
<1>1. buffer[n] \in Seq(Piece) /\ Len(buffer[n]) <= Size
  BY DEF TInv, TypeOK
<1> QED BY <1>1, LenProperties

(* Whoever is next finds no more in the buffer than it holds. *)
LEMMA EndTurnAdvances ==
    ASSUME TInv, TInv', EndTurn, pc \in {"find", "collect"},
           \A n \in Device : n # dev => buffer'[n] = buffer[n]
    PROVE  Work' < Work
<1>1. dev \in Device /\ dev' \in Device
  BY DEF TInv, TypeOK
<1>2. Work = TurnWork(dev, Len(buffer[dev]))
  BY WorkOfTurn
<1>3. Len(buffer[dev]) \in Nat /\ Len(buffer'[dev']) \in Nat /\ Len(buffer'[dev']) <= Size
  <2>1. Len(buffer'[dev']) <= Size /\ buffer'[dev'] \in Seq(Piece)
    BY <1>1 DEF TInv, TypeOK
  <2> QED BY <1>1, <2>1, BufferLength, LenProperties
<1>4. CASE dev = Devices
  <2>1. Work' = 1
    BY <1>4 DEF EndTurn, Work
  <2> QED BY <1>1, <1>2, <1>3, <2>1, TurnWorkLemma
<1>5. CASE dev # Devices
  <2>1. pc' = "find" /\ dev' = dev + 1
    BY <1>5 DEF EndTurn
  <2>2. Work' = TurnWork(dev + 1, Len(buffer'[dev']))
    BY <2>1 DEF Work, TurnWork
  <2> QED BY <1>1, <1>2, <1>3, <1>5, <2>2, NextTurnLess
<1> QED BY <1>4, <1>5

LEMMA TakenAdvances ==
    ASSUME TInv, Taken, buffer[dev] # <<>>, UNCHANGED dev,
           pc \in {"find", "collect"}, pc' \in {"find", "collect"}
    PROVE  Work' < Work
<1>1. dev \in Device /\ buffer[dev] \in Seq(Piece)
  BY DEF TInv, TypeOK
<1>2. Work = TurnWork(dev, Len(buffer[dev])) /\ Work' = TurnWork(dev, Len(buffer'[dev]))
  BY DEF Work, TurnWork
<1>3. buffer'[dev] = Tail(buffer[dev])
  BY TakenLemma
<1>4. /\ Len(buffer[dev]) \in Nat /\ Len(Tail(buffer[dev])) \in Nat
      /\ Len(Tail(buffer[dev])) < Len(buffer[dev])
  <2> DEFINE b == buffer[dev]
  <2> HIDE DEF b
  <2>1. b \in Seq(Piece) /\ b # <<>>
    BY <1>1 DEF b
  <2>2. Tail(b) \in Seq(Piece) /\ Len(Tail(b)) = Len(b) - 1
    BY <2>1, HeadTailProperties
  <2>3. Len(b) \in Nat /\ Len(Tail(b)) \in Nat
    BY <2>1, <2>2, LenProperties
  <2>4. Len(Tail(b)) < Len(b)
    BY <2>2, <2>3
  <2> QED BY <2>3, <2>4 DEF b
<1> QED BY <1>1, <1>2, <1>3, <1>4, ShorterBuffer

LEMMA TalkAdvances ==
    ASSUME TInv, TInv', NEW n \in Device, Talk(n)
    PROVE  Work' <= Work + (IF Listening(n) THEN 1 ELSE 0)
<1>1. dev \in Device /\ UNCHANGED <<pc, dev>>
  BY DEF Talk, TInv, TypeOK
<1>2. pc \in {"idle", "find", "collect", "convert", "fed"}
  BY DEF TInv, TypeOK
<1>3. CASE pc \notin {"find", "collect"}
  <2>1. Work' = Work /\ Work \in Nat
    BY <1>1, <1>3 DEF Work
  <2> QED BY <2>1
<1>4. CASE pc \in {"find", "collect"}
  <2>1. Work = TurnWork(dev, Len(buffer[dev])) /\ Work' = TurnWork(dev, Len(buffer'[dev]))
    BY <1>1, <1>4 DEF Work, TurnWork
  <2>2. Len(buffer[dev]) \in Nat /\ Len(buffer'[dev]) \in Nat
    <3>1. buffer'[dev] \in Seq(Piece)
      BY <1>1 DEF TInv, TypeOK
    <3> QED BY <1>1, <3>1, BufferLength, LenProperties
  <2>3. TurnWork(dev, Len(buffer[dev])) \in Nat
    BY <1>1, <2>2, TurnWorkLemma
  <2>4. CASE dev # n
    <3>1. buffer'[dev] = buffer[dev]
      BY <1>1, <2>4 DEF Talk, TInv, TypeOK
    <3> QED BY <2>1, <2>3, <3>1
  <2>5. CASE dev = n
    <3>1. Listening(n)
      BY <1>4, <2>5 DEF Listening
    <3>2. Len(buffer[dev]) = 0
      <4>1. buffer[dev] = <<>>
        BY <2>5, <3>1 DEF Talk
      <4> QED BY <4>1, EmptySeq
    <3>3. Len(buffer'[dev]) <= 1
      <4>1. buffer[dev] = <<>> /\ buffer \in [Device -> Seq(Piece)]
        BY <2>5, <3>1 DEF Talk, TInv
      <4>2. CASE UNCHANGED buffer
        BY <2>2, <3>2, <4>2
      <4>3. CASE buffer' = [buffer EXCEPT ![n] = Append(@, NextPiece(n))]
        <5>1. buffer'[dev] = Append(<<>>, NextPiece(n))
          BY <1>1, <2>5, <4>1, <4>3
        <5> QED BY <5>1
      <4> QED BY <3>1, <4>2, <4>3 DEF Talk
    <3>4. TurnWork(dev, Len(buffer'[dev])) <= TurnWork(dev, Len(buffer[dev])) + 1
      BY <1>1, <2>2, <3>2, <3>3, ShorterBuffer
    <3> QED BY <2>1, <3>1, <3>4
  <2> QED BY <2>4, <2>5
<1> QED BY <1>3, <1>4

LEMMA PassLowersWork == ASSUME TInv, TInv', Pass PROVE Work' < Work
<1>1. CASE Find
  <2>1. pc' \in {"find", "collect"} /\ pc = "find"
    BY <1>1 DEF Find
  <2> QED BY <1>1, <2>1, TakenAdvances DEF Find
<1>2. CASE FindTimeout
  BY <1>2, EndTurnAdvances DEF FindTimeout
<1>3. CASE Collect
  <2>1. Taken /\ buffer[dev] # <<>> /\ pc = "collect"
    BY <1>3 DEF Collect
  <2>2. \A n \in Device : n # dev => buffer'[n] = buffer[n]
    BY <2>1, TakenLemma
  <2>3. CASE EndTurn
    BY <2>1, <2>2, <2>3, EndTurnAdvances
  <2>4. CASE UNCHANGED <<pc, dev>>
    BY <2>1, <2>4, TakenAdvances
  <2> QED BY <1>3, <2>3, <2>4 DEF Collect
<1>4. CASE CollectTimeout
  BY <1>4, EndTurnAdvances DEF CollectTimeout
<1>5. CASE Convert
  BY <1>5 DEF Convert, Work
<1> QED BY <1>1, <1>2, <1>3, <1>4, <1>5 DEF Pass

(* No step of a pass is wasted: each lowers the number of steps that can   *)
(* be left, and only the receiver whose turn it is can raise it, by one.   *)
THEOREM PassesAdvance == Spec => PassAdvances
<1>1. ASSUME TInv, TInv', [Next]_vars
      PROVE  [ \/ Start
               \/ Work' < Work
               \/ \E n \in Device :
                     Talk(n) /\ Work' <= Work + (IF Listening(n) THEN 1 ELSE 0) ]_vars
  <2>1. CASE Pass
    BY <1>1, <2>1, PassLowersWork
  <2>2. ASSUME NEW n \in Device, Talk(n)
        PROVE  Work' <= Work + (IF Listening(n) THEN 1 ELSE 0)
    BY <1>1, <2>2, TalkAdvances
  <2> QED BY <1>1, <2>1, <2>2 DEF Next
<1> QED BY <1>1, InitTInv, NextTInv, PTL DEF Spec, PassAdvances

-----------------------------------------------------------------------------
(* Longitudes and their latitudes.                                         *)

(* b follows a in its sentence, as far as that matters: a longitude comes  *)
(* after the latitude of the same sentence.                                *)
Chained(a, b) == b.text = "lng" => a.text = "lat" /\ a.id = b.id

(* So will what receiver n sends next follow a.                            *)
NextChained(n, a) ==
    Burst[n][sent[n] + 1] = "lng" => a.text = "lat" /\ a.id = id[n] /\ id[n] # 0

(* From piece k on b is text as it was sent.                               *)
Whole(b, k) ==
    \A i \in k .. Len(b) : ~b[i].torn /\ (i > k => Chained(b[i - 1], b[i]))

(* Without an overflow a buffer holds what was sent last.  Its first piece *)
(* may be left from a turn before which it did overflow; the header a      *)
(* sentence is taken from comes at or after that one.                      *)
From(n) == IF pc = "collect" /\ dev = n THEN 1 ELSE 2

Sound(n) ==
    /\ Whole(buffer[n], From(n))
    /\ Len(buffer[n]) >= From(n) => NextChained(n, buffer[n][Len(buffer[n])])

LineSound ==
    /\ \A i \in 1 .. Len(line) : ~line[i].torn
    /\ Len(line) = 1 => IF buffer[dev] = <<>> THEN NextChained(dev, line[1])
                        ELSE Chained(line[1], buffer[dev][1])
    /\ Len(line) >= 2 => Chained(line[1], line[2])

PairStored ==
    /\ pc \in {"find", "collect"} =>
          \A n \in Device : n >= dev => ~Raw(n, 1) /\ ~Raw(n, 2)
    /\ pc \in {"idle", "fed"} => \A n \in Device : ~Raw(n, 1) /\ ~Raw(n, 2)
    /\ \A n \in Device : Raw(n, 2) /\ ~gap[n] => Raw(n, 1) /\ nmea[n][1].id = nmea[n][2].id

PInv ==
    /\ TInv
    /\ pc # "collect" => line = <<>>
    /\ pc = "collect" => Len(buffer[dev]) <= 2
    /\ \A n \in Device : ~overflowed[n] => Sound(n)
    /\ pc = "collect" /\ ~overflowed[dev] => LineSound
    /\ PairStored
    /\ PositionWhole

LEMMA WholeTail ==
    ASSUME NEW b \in Seq(Piece), b # <<>>, NEW k \in {1, 2}, Whole(b, k)
    PROVE  Whole(Tail(b), 1) /\ Whole(Tail(b), 2)
<1> DEFINE t == Tail(b)
<1>1. Len(b) \in Nat /\ Len(t) = Len(b) - 1 /\ \A i \in 1 .. Len(t) : t[i] = b[i + 1]
  BY HeadTailProperties, LenProperties
<1> HIDE DEF t
<1>2. ASSUME NEW i \in 1 .. Len(t)
      PROVE  ~t[i].torn /\ (i > 1 => Chained(t[i - 1], t[i]))
  <2>1. i + 1 \in k .. Len(b) /\ (i > 1 => i + 1 > k)
    BY <1>1
  <2>2. ~b[i + 1].torn /\ (i > 1 => Chained(b[(i + 1) - 1], b[i + 1]))
    BY <2>1 DEF Whole
  <2>3. i > 1 => i - 1 \in 1 .. Len(t) /\ t[i - 1] = b[i] /\ (i + 1) - 1 = i
    <3>1. i > 1 => i - 1 \in 1 .. Len(t) /\ (i - 1) + 1 = i /\ (i + 1) - 1 = i
      BY <1>1
    <3> QED BY <1>1, <3>1
  <2>4. t[i] = b[i + 1]
    BY <1>1
  <2> QED BY <2>2, <2>3, <2>4
<1>3. Whole(t, 1)
  BY <1>2 DEF Whole
<1>4. Whole(t, 2)
  <2>1. \A i \in 2 .. Len(t) : i \in 1 .. Len(t) /\ i > 1
    BY <1>1
  <2> QED BY <1>2, <2>1 DEF Whole
<1> QED BY <1>3, <1>4 DEF t

LEMMA TailLast ==
    ASSUME NEW b \in Seq(Piece), b # <<>>
    PROVE  /\ Tail(b) \in Seq(Piece) /\ Len(Tail(b)) = Len(b) - 1 /\ Len(b) \in Nat \ {0}
           /\ Len(b) >= 2 => Tail(b)[Len(Tail(b))] = b[Len(b)] /\ Tail(b)[1] = b[2]
           /\ Head(b) = b[1]
<1> DEFINE t == Tail(b)
<1>1. /\ Len(b) \in Nat \ {0} /\ Len(t) = Len(b) - 1 /\ t \in Seq(Piece)
      /\ \A i \in 1 .. Len(t) : t[i] = b[i + 1]
  BY HeadTailProperties, EmptySeq
<1>2. Head(b) = b[1]
  OBVIOUS
<1> HIDE DEF t
<1>3. Len(b) >= 2 => t[Len(t)] = b[Len(b)] /\ t[1] = b[2]
  <2>1. Len(b) >= 2 => Len(t) \in 1 .. Len(t) /\ 1 \in 1 .. Len(t) /\ Len(t) + 1 = Len(b) /\ 1 + 1 = 2
    BY <1>1
  <2> QED BY <1>1, <2>1
<1> QED BY <1>1, <1>2, <1>3 DEF t

LEMMA WholeAppend ==
    ASSUME NEW b \in Seq(Piece), NEW e \in Piece, NEW k \in {1, 2}, Whole(b, k), ~e.torn,
           Len(b) >= k => Chained(b[Len(b)], e)
    PROVE  Whole(Append(b, e), k)
<1> DEFINE c == Append(b, e)
<1>1. /\ Len(b) \in Nat /\ Len(c) = Len(b) + 1 /\ c[Len(b) + 1] = e
      /\ \A i \in 1 .. Len(b) : c[i] = b[i]
  BY AppendProperties, LenProperties
<1> HIDE DEF c
<1>2. ASSUME NEW i \in k .. Len(c)
      PROVE  ~c[i].torn /\ (i > k => Chained(c[i - 1], c[i]))
  <2>1. CASE i = Len(b) + 1
    <3>1. i > k => Len(b) >= k /\ i - 1 = Len(b) /\ Len(b) \in 1 .. Len(b)
      BY <1>1, <2>1
    <3> QED BY <1>1, <2>1, <3>1
  <2>2. CASE i \in k .. Len(b)
    <3>1. i \in 1 .. Len(b) /\ (i > k => i - 1 \in 1 .. Len(b))
      BY <1>1, <2>2
    <3>2. ~b[i].torn /\ (i > k => Chained(b[i - 1], b[i]))
      BY <2>2 DEF Whole
    <3> QED BY <1>1, <3>1, <3>2
  <2> QED BY <1>1, <2>1, <2>2
<1> QED BY <1>2 DEF Whole, c

(* What a receiver sends next follows what it sends now, and has its       *)
(* number.                                                                 *)
LEMMA ModuloLemma ==
    ASSUME NEW l \in Nat \ {0}, NEW x \in 1 .. l
    PROVE  x % l = IF x = l THEN 0 ELSE x
<1> DEFINE q == x \div l
           r == x % l
<1>1. q \in Int /\ r \in 0 .. l - 1 /\ x = l * q + r
  OBVIOUS
<1> HIDE DEF q, r
<1>2. q >= 2 => l * q >= 2 * l
  BY <1>1
<1>3. q <= -1 => l * q <= -l
  BY <1>1
<1>4. q = 0 \/ q = 1
  BY <1>1, <1>2, <1>3
<1>5. r = IF x = l THEN 0 ELSE x
  BY <1>1, <1>4
<1> QED BY <1>5 DEF r

LEMMA NextPieceChained ==
    ASSUME TInv, NEW n \in Device, Talk(n)
    PROVE  /\ NextPiece(n) \in Piece /\ ~NextPiece(n).torn
           /\ \A a : NextChained(n, a) => Chained(a, NextPiece(n))
           /\ \A e : e = NextPiece(n) => NextChained(n, e)'
<1> DEFINE piece == NextPiece(n)
           l == Len(Burst[n])
           x == sent[n] + 1
           text == Burst[n][x]
<1>1. l \in Nat \ {0} /\ x \in 1 .. l /\ Burst[n] \in Seq(Texts)
  <2>1. sent[n] \in 0 .. l - 1
    BY DEF TInv, TypeOK
  <2>2. l \in Nat \ {0}
    BY BurstLemma
  <2> HIDE DEF l
  <2>3. x \in 1 .. l
    BY <2>1, <2>2
  <2> QED BY <2>2, <2>3, BurstLemma
<1>2. text \in Texts
  BY <1>1, ElementOfSeq
<1>3. NextId(n) \in Ids \ {0} /\ (id[n] # 0 => NextId(n) = id[n])
  BY NextIdLemma
<1>4. piece = [text |-> text, id |-> IF text \in {"lat", "lng"} THEN NextId(n) ELSE 0, torn |-> FALSE]
  BY DEF NextPiece
<1> HIDE DEF text
<1>5. piece \in Piece /\ ~piece.torn
  BY <1>2, <1>3, <1>4, SizeLemma DEF Piece
<1>6. ASSUME NEW a, NextChained(n, a) PROVE Chained(a, piece)
  BY <1>3, <1>4, <1>6 DEF NextChained, Chained, text
<1>7. ASSUME NEW e, e = piece PROVE NextChained(n, e)'
  <2>1. sent'[n] = x % l
    BY DEF Talk, TInv
  <2>2. sent'[n] = IF x = l THEN 0 ELSE x
    <3> HIDE DEF x, l
    <3> QED BY <1>1, <2>1, ModuloLemma
  <2>3. SUFFICES ASSUME Burst[n][sent'[n] + 1] = "lng"
                 PROVE  piece.text = "lat" /\ piece.id = id'[n] /\ id'[n] # 0
    BY <1>7 DEF NextChained
  <2>4. sent'[n] + 1 > 1 /\ Burst[n][(sent'[n] + 1) - 1] = "lat"
    <3> DEFINE k == sent'[n] + 1
    <3>1. k \in 1 .. l
      <4> HIDE DEF x, l
      <4> QED BY <1>1, <2>2
    <3>2. k \in DOMAIN Burst[n]
      BY <1>1, <3>1
    <3> HIDE DEF k
    <3>3. Burst[n][k] = "lng"
      BY <2>3 DEF k
    <3>4. k > 1 /\ Burst[n][k - 1] = "lat"
      BY <3>2, <3>3, SentenceAssumption
    <3> QED BY <3>4 DEF k
  <2>5. sent'[n] = x /\ x \in Int
    <3> HIDE DEF x, l
    <3> QED BY <1>1, <2>2, <2>4
  <2>6. text = "lat"
    <3>1. (sent'[n] + 1) - 1 = x
      <4> HIDE DEF x
      <4> QED BY <2>5
    <3> QED BY <2>4, <3>1 DEF text
  <2>7. piece.text = "lat" /\ piece.id = NextId(n) /\ piece.id # 0
    BY <1>3, <1>4, <2>6
  <2>8. id'[n] = piece.id
    <3>1. id' = [id EXCEPT ![n] = CASE piece.text = "eol" -> 0 [] piece.id # 0 -> piece.id [] OTHER -> @]
      BY DEF Talk
    <3>2. id \in [Device -> Ids]
      BY DEF TInv, TypeOK
    <3> HIDE DEF piece
    <3> QED BY <2>7, <3>1, <3>2
  <2> QED BY <2>7, <2>8
<1> QED BY <1>5, <1>6, <1>7

(* What a step must leave alone for a receiver that is not concerned.      *)
LEMMA SoundKept ==
    ASSUME NEW n \in Device, Sound(n), buffer'[n] = buffer[n], sent'[n] = sent[n], id'[n] = id[n],
           From(n)' = From(n)
    PROVE  Sound(n)'
BY DEF Sound, NextChained

LEMMA TalkPInv == ASSUME PInv, NEW n \in Device, Talk(n) PROVE PInv'
<1> DEFINE piece == NextPiece(n)
           b == buffer[n]
<1>1. TInv /\ TInv'
  BY TalkTInv DEF PInv
<1>2. /\ UNCHANGED <<pc, dev, line, nmea, gap>>
      /\ \A m \in Device : From(m)' = From(m)
      /\ \A m \in Device : Raw(m, 1)' = Raw(m, 1) /\ Raw(m, 2)' = Raw(m, 2)
  BY DEF Talk, From, Raw
<1>3. \A m \in Device : m # n =>
         /\ buffer'[m] = buffer[m] /\ sent'[m] = sent[m] /\ id'[m] = id[m]
         /\ overflowed'[m] = overflowed[m]
  BY <1>1 DEF Talk, TInv, TypeOK
<1>4. b \in Seq(Piece) /\ Len(b) \in Nat /\ n \in DOMAIN buffer /\ n \in DOMAIN overflowed
  BY <1>1, LenProperties DEF TInv, TypeOK
<1>5. /\ piece \in Piece /\ ~piece.torn
      /\ \A a : NextChained(n, a) => Chained(a, piece)
      /\ \A e : e = piece => NextChained(n, e)'
  BY <1>1, NextPieceChained
<1> HIDE DEF piece
<1>6. ASSUME ~overflowed'[n]
      PROVE  Sound(n)' /\ (pc = "collect" /\ dev = n => LineSound')
  <2>1. ~overflowed[n] /\ buffer'[n] = Append(b, piece)
    BY <1>4, <1>6 DEF Talk, piece
  <2>2. Sound(n)
    BY <2>1 DEF PInv
  <2> DEFINE c == Append(b, piece)
             k == From(n)
  <2>3. k \in {1, 2}
    BY DEF From
  <2>4. Whole(b, k) /\ (Len(b) >= k => NextChained(n, b[Len(b)]))
    BY <2>2 DEF Sound
  <2> HIDE DEF b, k
  <2>5. Whole(c, k)
    BY <1>4, <1>5, <2>3, <2>4, WholeAppend
  <2>6. c[Len(c)] = piece /\ c[1] = IF b = <<>> THEN piece ELSE b[1]
    <3>1. /\ Len(c) = Len(b) + 1 /\ c[Len(b) + 1] = piece
          /\ \A i \in 1 .. Len(b) : c[i] = b[i]
      BY <1>4, <1>5, AppendProperties
    <3>2. b # <<>> => 1 \in 1 .. Len(b)
      BY <1>4, EmptySeq
    <3>3. b = <<>> => Len(b) = 0
      BY EmptySeq
    <3> HIDE DEF c
    <3>4. b = <<>> => c[1] = piece
      BY <1>4, <3>1, <3>3
    <3> QED BY <1>4, <3>1, <3>2, <3>4
  <2>7. NextChained(n, buffer[n][Len(buffer[n])])'
    <3>1. buffer'[n][Len(buffer'[n])] = piece
      <4>1. buffer'[n] = c
        BY <2>1
      <4> HIDE DEF c
      <4> QED BY <2>6, <4>1
    <3>2. Burst[n][sent'[n] + 1] = "lng" => piece.text = "lat" /\ piece.id = id'[n] /\ id'[n] # 0
      BY <1>5 DEF NextChained
    <3> HIDE DEF c
    <3> QED BY <3>1, <3>2 DEF NextChained
  <2>8. Whole(buffer'[n], From(n)')
    <3>1. buffer'[n] = c /\ From(n)' = k
      BY <1>2, <2>1 DEF k
    <3> HIDE DEF c
    <3> QED BY <2>5, <3>1, Zenon
  <2>9. Sound(n)'
    BY <2>7, <2>8 DEF Sound
  <2>10. ASSUME pc = "collect", dev = n PROVE LineSound'
    <3>1. LineSound /\ b = <<>>
      BY <2>1, <2>10 DEF PInv, Talk, Listening, b
    <3>2. Len(line) = 1 => Chained(line[1], piece)
      BY <1>5, <2>10, <3>1 DEF LineSound, b
    <3>3. buffer'[dev] = c /\ c[1] = piece /\ c # <<>>
      <4>1. c # <<>>
        BY <1>4, <1>5, AppendProperties
      <4> QED BY <2>1, <2>6, <2>10, <3>1, <4>1
    <3>4. line' = line /\ dev' = dev
      BY <1>2
    <3> HIDE DEF c
    <3>5. Len(line) = 1 => buffer'[dev] # <<>> /\ Chained(line[1], buffer'[dev][1])
      BY <3>2, <3>3
    <3> QED BY <3>1, <3>4, <3>5 DEF LineSound
  <2> QED BY <2>9, <2>10
<1>7. \A m \in Device : ~overflowed'[m] => Sound(m)'
  <2> SUFFICES ASSUME NEW m \in Device, ~overflowed'[m], m # n PROVE Sound(m)'
    BY <1>6
  <2>1. Sound(m)
    BY <1>3 DEF PInv
  <2> QED BY <1>2, <1>3, <2>1, SoundKept
<1>8. pc' = "collect" /\ ~overflowed'[dev'] => LineSound'
  <2> SUFFICES ASSUME pc = "collect", ~overflowed'[dev], dev # n PROVE LineSound'
    BY <1>2, <1>6
  <2>1. dev \in Device
    BY <1>1 DEF TInv, TypeOK
  <2>2. LineSound /\ buffer'[dev] = buffer[dev] /\ sent'[dev] = sent[dev] /\ id'[dev] = id[dev]
    BY <1>3, <2>1 DEF PInv
  <2> QED BY <1>2, <2>2 DEF LineSound, NextChained
<1>9. pc' = "collect" => Len(buffer'[dev']) <= 2
  <2> SUFFICES ASSUME pc = "collect" PROVE Len(buffer'[dev]) <= 2
    BY <1>2
  <2>1. dev \in Device /\ Len(buffer[dev]) <= 2
    BY <1>1 DEF PInv, TInv, TypeOK
  <2>2. CASE dev # n
    BY <1>3, <2>1, <2>2
  <2>3. CASE dev = n
    <3>1. b = <<>> /\ Len(b) = 0 /\ Size \in 1 .. 3
      BY <2>3, EmptySeq, SizeLemma DEF Talk, Listening
    <3>2. buffer'[n] = Append(b, piece) \/ buffer'[n] = b
      BY <1>4, <2>3 DEF Talk, Listening, piece
    <3> DEFINE c == Append(b, piece)
    <3>3. Len(c) = 1
      BY <1>4, <1>5, <3>1, AppendProperties
    <3> HIDE DEF c, b
    <3>4. Len(buffer'[n]) = 1 \/ Len(buffer'[n]) = 0
      BY <3>1, <3>2, <3>3 DEF c
    <3> QED BY <2>3, <3>4
  <2> QED BY <2>2, <2>3
<1>10. PairStored'
  BY <1>2 DEF PInv, PairStored
<1>11. PositionWhole'
  BY <1>2 DEF PInv, PositionWhole, Fed
<1> QED BY <1>1, <1>2, <1>7, <1>8, <1>9, <1>10, <1>11 DEF PInv

(* Elements of nmea[][] and gaps where the turn is not over.               *)
LEMMA EndTurnPInv ==
    ASSUME PInv, EndTurn, pc \in {"find", "collect"}, UNCHANGED <<sent, id>>, TInv',
           buffer' = [buffer EXCEPT ![dev] = buffer'[dev]], Len(buffer'[dev]) <= 1,
           NEW f \in Seq(Field), nmea' = [nmea EXCEPT ![dev] = Stored(@, f)],
           ~overflowed[dev] /\ Len(f) >= 2 /\ ~f[2].torn => ~f[1].torn /\ Chained(f[1], f[2])
    PROVE  PInv'
<1>1. /\ dev \in Device /\ buffer \in [Device -> Seq(Piece)] /\ overflowed \in [Device -> BOOLEAN]
      /\ gap \in [Device -> BOOLEAN] /\ nmea \in [Device -> [DOMAIN Places -> Element]]
  BY DEF PInv, TInv, TypeOK
<1>2. /\ pc' = IF dev = Devices THEN "convert" ELSE "find"
      /\ dev' = IF dev = Devices THEN 1 ELSE dev + 1
      /\ line' = <<>> /\ pc' \in {"convert", "find"}
  BY DEF EndTurn
<1>3. /\ \A n \in Device : n # dev =>
            /\ buffer'[n] = buffer[n] /\ overflowed'[n] = overflowed[n] /\ gap'[n] = gap[n]
            /\ nmea'[n] = nmea[n]
      /\ gap'[dev] = overflowed[dev] /\ overflowed'[dev] = FALSE
      /\ nmea'[dev] = Stored(nmea[dev], f)
  BY <1>1 DEF EndTurn
<1>4. \A n \in Device : From(n)' = 2 /\ (n # dev => From(n) = 2)
  BY <1>2 DEF From
<1>5. ASSUME NEW n \in Device, ~overflowed'[n] PROVE Sound(n)'
  <2>1. CASE n # dev
    BY <1>3, <1>4, <1>5, <2>1, SoundKept DEF PInv
  <2>2. CASE n = dev
    <3>1. Len(buffer'[dev]) \in Nat
      <4>1. buffer'[dev] \in Seq(Piece)
        BY <1>1 DEF TInv, TypeOK
      <4> QED BY <4>1, LenProperties
    <3> DEFINE m == Len(buffer'[dev])
    <3>2. m \in Nat /\ m <= 1
      BY <3>1
    <3> HIDE DEF m
    <3>3. ~(m >= 2) /\ \A i \in 2 .. m : FALSE
      BY <3>2
    <3>4. Whole(buffer'[n], 2) /\ ~(Len(buffer'[n]) >= 2)
      BY <2>2, <3>3 DEF Whole, m
    <3>5. From(n)' = 2
      BY <1>4
    <3> QED BY <3>4, <3>5 DEF Sound
  <2> QED BY <2>1, <2>2
<1>6. PairStored'
  <2>1. ASSUME NEW n \in Device, n # dev
        PROVE  Raw(n, 1)' = Raw(n, 1) /\ Raw(n, 2)' = Raw(n, 2)
    BY <1>3, <2>1 DEF Raw
  <2>2. pc' = "find" => \A n \in Device : n >= dev' => n >= dev /\ n # dev
    BY <1>1, <1>2
  <2>3. \A n \in Device : n >= dev => ~Raw(n, 1) /\ ~Raw(n, 2)
    BY DEF PInv, PairStored
  <2>4. pc' \in {"find", "collect"} => \A n \in Device : n >= dev' => ~Raw(n, 1)' /\ ~Raw(n, 2)'
    BY <1>2, <2>1, <2>2, <2>3
  <2>5. ASSUME NEW n \in Device, Raw(n, 2)', ~gap'[n]
        PROVE  Raw(n, 1)' /\ nmea'[n][1].id = nmea'[n][2].id
    <3>1. CASE n # dev
      BY <1>3, <2>1, <2>5, <3>1 DEF PInv, PairStored
    <3>2. CASE n = dev
      <4>1. ~overflowed[dev] /\ ~Raw(dev, 2)
        BY <1>1, <1>3, <2>3, <2>5, <3>2
      <4>2. Stored(nmea[dev], f)[2].text = "lng"
        BY <1>3, <2>5, <3>2, PlacesLemma DEF Raw
      <4>3. 2 \in DOMAIN f /\ f[2].text = "lng" /\ ~f[2].torn
        BY <4>1, <4>2, PlacesLemma DEF Stored, Raw, Junk
      <4>4. Len(f) >= 2 /\ 1 \in DOMAIN f
        <5>1. DOMAIN f = 1 .. Len(f) /\ Len(f) \in Nat
          BY LenProperties
        <5> QED BY <4>3, <5>1
      <4>5. ~f[1].torn /\ f[1].text = "lat" /\ f[1].id = f[2].id
        BY <4>1, <4>3, <4>4 DEF Chained
      <4>6. /\ Stored(nmea[dev], f)[1].text = "lat"
            /\ Stored(nmea[dev], f)[1].id = Stored(nmea[dev], f)[2].id
        BY <4>3, <4>4, <4>5, PlacesLemma DEF Stored
      <4> QED BY <1>3, <3>2, <4>6, PlacesLemma DEF Raw
    <3> QED BY <3>1, <3>2
  <2>6. pc' \notin {"idle", "fed"}
    BY <1>2
  <2> QED BY <2>4, <2>5, <2>6 DEF PairStored
<1>7. PositionWhole'
  BY <1>2 DEF PositionWhole
<1> QED BY <1>2, <1>5, <1>6, <1>7 DEF PInv

LEMMA InitPInv == Init => PInv
<1> SUFFICES ASSUME Init PROVE PInv
  OBVIOUS
<1>1. /\ pc = "idle" /\ line = <<>>
      /\ \A n \in Device : buffer[n] = <<>> /\ nmea[n] = [p \in DOMAIN Places |-> Junk]
  BY DEF Init
<1>2. \A n \in Device : ~Raw(n, 1) /\ ~Raw(n, 2)
  BY <1>1, PlacesLemma DEF Raw, Junk
<1>3. \A n \in Device : Sound(n)
  <2> SUFFICES ASSUME NEW n \in Device PROVE Sound(n)
    OBVIOUS
  <2>1. From(n) = 2 /\ Len(buffer[n]) = 0
    BY <1>1, EmptySeq DEF From
  <2>2. ~(0 >= 2) /\ \A i \in 2 .. 0 : FALSE
    OBVIOUS
  <2> QED BY <2>1, <2>2 DEF Sound, Whole
<1>4. PairStored /\ PositionWhole
  BY <1>1, <1>2 DEF PairStored, PositionWhole
<1> QED BY <1>1, <1>3, <1>4, InitTInv DEF PInv

LEMMA StartPInv == ASSUME PInv, Start, TInv' PROVE PInv'
<1>1. /\ pc \in {"idle", "fed"} /\ pc' = "find" /\ line' = <<>>
      /\ UNCHANGED <<sent, id, buffer, overflowed>>
  BY DEF Start, PInv
<1>2. \A n \in Device : From(n) = 2 /\ From(n)' = 2
  BY <1>1 DEF From
<1>3. \A n \in Device : ~overflowed'[n] => Sound(n)'
  BY <1>1, <1>2, SoundKept DEF PInv
<1>4. \A n \in Device : ~Raw(n, 1) /\ ~Raw(n, 2)
  BY <1>1 DEF PInv, PairStored
<1>5. \A n \in Device : ~Raw(n, 1)' /\ ~Raw(n, 2)'
  <2> SUFFICES ASSUME NEW n \in Device PROVE ~Raw(n, 1)' /\ ~Raw(n, 2)'
    OBVIOUS
  <2>1. nmea'[n] = [p \in DOMAIN Places |-> Old(nmea[n][p])]
    BY DEF Start
  <2>2. nmea'[n][1].text = nmea[n][1].text /\ nmea'[n][2].text = nmea[n][2].text
    BY <2>1, PlacesLemma DEF Old
  <2> QED BY <1>4, <2>2 DEF Raw
<1>6. PairStored' /\ PositionWhole'
  BY <1>1, <1>5 DEF PairStored, PositionWhole
<1> QED BY <1>1, <1>3, <1>6 DEF PInv

(* A piece read from a buffer leaves the rest of it sound.                 *)
LEMMA TakenSound ==
    ASSUME TInv, NEW n \in Device, n = dev, Taken, buffer[n] # <<>>, Sound(n),
           UNCHANGED <<sent, id>>
    PROVE  /\ Sound(n)'
           /\ buffer'[n] = <<>> \/ Len(buffer'[n]) >= 1
           /\ From(n) = 1 => ~Head(buffer[n]).torn
           /\ From(n) = 1 /\ buffer'[n] = <<>> => NextChained(n, Head(buffer[n]))
           /\ From(n) = 1 /\ buffer'[n] # <<>> => Chained(Head(buffer[n]), buffer'[n][1])
<1> DEFINE b == buffer[n]
           t == Tail(b)
           k == From(n)
<1>1. b \in Seq(Piece) /\ b # <<>> /\ buffer'[n] = t
  BY TakenLemma DEF TInv, TypeOK
<1>2. k \in {1, 2} /\ From(n)' \in {1, 2}
  BY DEF From
<1>3. Whole(b, k) /\ (Len(b) >= k => NextChained(n, b[Len(b)]))
  BY DEF Sound
<1> HIDE DEF b, k
<1>4. Whole(t, 1) /\ Whole(t, 2)
  BY <1>1, <1>2, <1>3, WholeTail
<1>5. /\ t \in Seq(Piece) /\ Len(t) = Len(b) - 1 /\ Len(b) \in Nat \ {0}
      /\ Len(b) >= 2 => t[Len(t)] = b[Len(b)] /\ t[1] = b[2]
      /\ Head(b) = b[1]
  BY <1>1, TailLast
<1> HIDE DEF t
<1>6. /\ Len(t) >= 1 => Len(b) >= k /\ Len(b) >= 2
      /\ t = <<>> => Len(b) = 1
      /\ t = <<>> \/ Len(t) >= 1
  <2>1. t = <<>> => Len(t) = 0
    BY EmptySeq
  <2>2. t # <<>> => Len(t) # 0
    BY <1>5, EmptySeq
  <2> QED BY <1>2, <1>5, <2>1, <2>2
<1>7. Sound(n)'
  <2>1. Len(t) >= From(n)' => Len(t) >= 1
    BY <1>2, <1>5
  <2>2. Len(t) >= From(n)' => NextChained(n, t[Len(t)])
    BY <1>3, <1>5, <1>6, <2>1
  <2>3. Whole(t, From(n)')
    BY <1>2, <1>4
  <2>4. buffer'[n] = t /\ sent' = sent /\ id' = id
    BY <1>1
  <2> QED BY <2>2, <2>3, <2>4, Zenon DEF Sound, NextChained
<1>8. k = 1 => /\ ~b[1].torn
               /\ t = <<>> => NextChained(n, b[1])
               /\ t # <<>> => Chained(b[1], t[1])
  <2> SUFFICES ASSUME k = 1
               PROVE  /\ ~b[1].torn
                      /\ t = <<>> => NextChained(n, b[1])
                      /\ t # <<>> => Chained(b[1], t[1])
    OBVIOUS
  <2>1. 1 \in 1 .. Len(b) /\ 1 > 0
    BY <1>5
  <2>2. ~b[1].torn
    BY <1>3, <2>1 DEF Whole
  <2>3. t = <<>> => NextChained(n, b[1])
    <3>1. t = <<>> => Len(b) = 1 /\ Len(b) >= k
      BY <1>6
    <3> QED BY <1>3, <3>1
  <2>4. t # <<>> => Chained(b[1], t[1])
    <3>1. t # <<>> => 2 \in 1 .. Len(b) /\ 2 > 1 /\ 2 - 1 = 1 /\ t[1] = b[2]
      BY <1>5, <1>6
    <3>2. 2 \in 1 .. Len(b) /\ 2 > 1 => Chained(b[2 - 1], b[2])
      BY <1>3 DEF Whole
    <3> QED BY <3>1, <3>2
  <2> QED BY <2>2, <2>3, <2>4
<1> QED BY <1>1, <1>5, <1>6, <1>7, <1>8, Zenon DEF b, k

LEMMA FindPInv == ASSUME PInv, Find, TInv' PROVE PInv'
<1>1. /\ pc = "find" /\ buffer[dev] # <<>> /\ pc' \in {"find", "collect"}
      /\ Taken /\ UNCHANGED <<dev, line, nmea, sent, id, overflowed, gap>>
  BY DEF Find
<1>2. TInv /\ dev \in Device /\ line = <<>>
  BY <1>1 DEF PInv, TInv, TypeOK
<1>3. \A n \in Device : n # dev => buffer'[n] = buffer[n] /\ From(n)' = From(n)
  BY <1>1, <1>2, TakenLemma DEF From
<1>4. ASSUME NEW n \in Device, ~overflowed'[n] PROVE Sound(n)'
  <2>1. Sound(n)
    BY <1>1, <1>4 DEF PInv
  <2>2. CASE n # dev
    BY <1>1, <1>3, <2>1, <2>2, SoundKept
  <2>3. CASE n = dev
    BY <1>1, <1>2, <2>1, <2>3, TakenSound
  <2> QED BY <2>2, <2>3
<1>5. pc' = "collect" => Len(buffer'[dev']) <= 2
  <2> DEFINE b == buffer[dev]
             t == Tail(b)
  <2>1. b \in Seq(Piece) /\ b # <<>> /\ Len(b) <= Size /\ buffer'[dev] = t
    BY <1>1, <1>2, TakenLemma DEF TInv, TypeOK
  <2> HIDE DEF b
  <2>2. Len(t) = Len(b) - 1 /\ Len(b) \in Nat
    BY <2>1, TailLast
  <2> HIDE DEF t
  <2>3. Len(t) <= 2
    BY <2>1, <2>2, SizeLemma
  <2> QED BY <1>1, <2>1, <2>3
<1>6. LineSound'
  <2>1. line' = <<>> /\ Len(<<>>) = 0
    BY <1>1, <1>2, EmptySeq
  <2>2. ~(0 >= 2) /\ ~(0 = 1) /\ \A i \in 1 .. 0 : FALSE
    OBVIOUS
  <2> QED BY <2>1, <2>2 DEF LineSound
<1>7. PairStored' /\ PositionWhole'
  <2>1. \A n \in Device : Raw(n, 1)' = Raw(n, 1) /\ Raw(n, 2)' = Raw(n, 2)
    BY <1>1 DEF Raw
  <2> QED BY <1>1, <2>1 DEF PInv, PairStored, PositionWhole
<1> QED BY <1>1, <1>2, <1>4, <1>5, <1>6, <1>7 DEF PInv

(* The fields of a line in which nothing is torn, with one more piece.     *)
LEMMA GrownWhole ==
    ASSUME line \in Seq(Field), Len(line) <= 3, \A i \in 1 .. Len(line) : ~line[i].torn,
           NEW piece \in Piece
    PROVE  LET f == Grown(piece)
           IN /\ f \in Seq(Field) /\ Len(f) \in 1 .. 3
              /\ Len(f) = 1 => Len(line) = 0 /\ f[1] = AsField(piece)
              /\ Len(f) >= 2 => \/ Len(line) = 1 /\ f[1] = line[1] /\ f[2] = AsField(piece)
                                \/ Len(line) >= 2 /\ f[1] = line[1] /\ f[2] = line[2]
              /\ ~piece.torn => \A i \in 1 .. Len(f) : ~f[i].torn
<1> DEFINE f == Grown(piece)
           m == Len(line)
           a == AsField(piece)
<1>1. m \in 0 .. 3
  <2>1. m \in Nat /\ m <= 3
    BY LenProperties
  <2> HIDE DEF m
  <2> QED BY <2>1
<1>2. ~(line # <<>> /\ line[m].torn)
  <2>1. line # <<>> => m # 0
    BY <1>1, EmptySeq
  <2> QED BY <1>1, <2>1
<1>3. /\ f \in Seq(Field)
      /\ m < 3 => /\ Len(f) = m + 1
                  /\ \A i \in 1 .. m : f[i] = line[i]
                  /\ f[m + 1] = a
      /\ m = 3 => f = line
  BY <1>2, GrownLemma
<1>4. a.torn = piece.torn /\ \A i \in 1 .. m : ~line[i].torn
  BY AsFieldLemma
<1> HIDE DEF f, a
<1>5. CASE m = 3
  <2>1. f = line
    BY <1>3, <1>5
  <2>2. Len(f) = m
    BY <2>1
  <2>3. \A i \in 1 .. Len(f) : ~f[i].torn
    BY <2>1
  <2>4. f[1] = line[1] /\ f[2] = line[2]
    BY <2>1, Zenon
  <2> HIDE DEF m
  <2> QED BY <1>3, <1>5, <2>2, <2>3, <2>4 DEF f, a, m
<1>6. CASE m < 3
  <2> DEFINE l == Len(f)
  <2>0. l = m + 1 /\ f[m + 1] = a /\ \A i \in 1 .. m : f[i] = line[i]
    BY <1>3, <1>6
  <2> HIDE DEF m, l
  <2>1. l \in 1 .. 3
    BY <1>1, <1>6, <2>0
  <2>2. l = 1 => m = 0 /\ f[1] = a
    <3>1. l = 1 => m = 0 /\ m + 1 = 1
      BY <1>1, <2>0
    <3> QED BY <2>0, <3>1, Zenon
  <2>3. l >= 2 => \/ m = 1 /\ f[1] = line[1] /\ f[2] = a
                  \/ m >= 2 /\ f[1] = line[1] /\ f[2] = line[2]
    <3>1. l >= 2 => \/ m = 1 /\ 1 \in 1 .. m /\ m + 1 = 2
                    \/ m >= 2 /\ 1 \in 1 .. m /\ 2 \in 1 .. m
      BY <1>1, <2>0
    <3> QED BY <2>0, <3>1, Zenon
  <2>4. ~piece.torn => \A i \in 1 .. l : ~f[i].torn
    <3>1. \A i \in 1 .. l : i \in 1 .. m \/ i = m + 1
      BY <1>1, <2>0
    <3>2. \A i \in 1 .. m : ~line[i].torn
      BY <1>4
    <3> QED BY <1>4, <2>0, <3>1, <3>2, Zenon
  <2> QED BY <1>3, <2>1, <2>2, <2>3, <2>4, Zenon DEF f, m, a, l
<1>7. m = 3 \/ m < 3
  <2> HIDE DEF m
  <2> QED BY <1>1
<1> QED BY <1>5, <1>6, <1>7

(* Being split as a field does not change what a piece follows.            *)
LEMMA AsFieldChained ==
    ASSUME NEW piece \in Piece, NEW e
    PROVE  /\ Chained(e, piece) => Chained(e, AsField(piece))
           /\ Chained(piece, e) => Chained(AsField(piece), e)
           /\ \A n : NextChained(n, piece) => NextChained(n, AsField(piece))
           /\ piece.text \in {"eol", "other"} => Chained(e, AsField(piece))
BY AsFieldLemma DEF Chained, NextChained

(* The fields stored when a turn is over that began with a sentence.       *)
LEMMA StoredChained ==
    ASSUME line \in Seq(Field), Len(line) <= 3, LineSound,
           NEW piece \in Piece, piece.text \in {"eol", "other"}
    PROVE  LET f == Grown(piece)
           IN Len(f) >= 2 => ~f[1].torn /\ Chained(f[1], f[2])
<1> DEFINE f == Grown(piece)
<1>1. \A i \in 1 .. Len(line) : ~line[i].torn
  BY DEF LineSound
<1>2. Len(f) >= 2 => \/ Len(line) = 1 /\ f[1] = line[1] /\ f[2] = AsField(piece)
                     \/ Len(line) >= 2 /\ f[1] = line[1] /\ f[2] = line[2]
  BY <1>1, GrownWhole
<1>3. \A e : Chained(e, AsField(piece))
  BY AsFieldChained
<1>4. Len(line) >= 2 => Chained(line[1], line[2])
  BY DEF LineSound
<1>5. Len(line) = 1 \/ Len(line) >= 2 => 1 \in 1 .. Len(line)
  <2> DEFINE m == Len(line)
  <2>1. m \in Nat
    BY LenProperties
  <2> HIDE DEF m
  <2>2. m = 1 \/ m >= 2 => 1 \in 1 .. m
    BY <2>1
  <2> QED BY <2>2 DEF m
<1> HIDE DEF f
<1>6. Len(f) >= 2 => ~f[1].torn /\ Chained(f[1], f[2])
  BY <1>1, <1>2, <1>3, <1>4, <1>5, Zenon
<1> QED BY <1>6 DEF f

LEMMA CollectPInv == ASSUME PInv, Collect, TInv' PROVE PInv'
<1> DEFINE piece == Head(buffer[dev])
           f == Grown(piece)
<1>1. /\ pc = "collect" /\ buffer[dev] # <<>> /\ Taken /\ UNCHANGED <<sent, id>>
      /\ \/ /\ piece.text = "eol" /\ EndTurn
            /\ nmea' = [nmea EXCEPT ![dev] = Stored(@, f)]
         \/ line' = f /\ UNCHANGED <<pc, dev, nmea, overflowed, gap>>
  BY DEF Collect
<1>2. /\ TInv /\ dev \in Device /\ line \in Seq(Field) /\ Len(line) <= 3
      /\ buffer \in [Device -> Seq(Piece)]
  <2>1. /\ TInv /\ dev \in Device /\ line \in Seq(Field) /\ Len(line) <= Len(Places) + 1
        /\ buffer \in [Device -> Seq(Piece)]
    BY DEF PInv, TInv, TypeOK
  <2>2. Len(line) <= 3
    BY <2>1, LenPlaces
  <2> QED BY <2>1, <2>2, Zenon
<1>3. /\ piece \in Piece /\ buffer'[dev] = Tail(buffer[dev])
      /\ \A n \in Device : n # dev => buffer'[n] = buffer[n]
  BY <1>1, <1>2, TakenLemma
<1>4. Len(buffer'[dev]) <= 1
  <2> DEFINE b == buffer[dev]
             t == Tail(b)
  <2>1. b \in Seq(Piece) /\ b # <<>> /\ Len(b) <= 2 /\ buffer'[dev] = t
    BY <1>1, <1>2, <1>3 DEF PInv
  <2> HIDE DEF b
  <2>2. Len(t) = Len(b) - 1 /\ Len(b) \in Nat
    BY <2>1, TailLast
  <2> HIDE DEF t
  <2>3. Len(t) <= 1
    BY <2>1, <2>2
  <2> QED BY <2>1, <2>3
<1>5. f \in Seq(Field) /\ Len(f) <= 3
  BY <1>2, <1>3, GrownLemma
<1> HIDE DEF piece, f
<1>6. ASSUME ~overflowed[dev]
      PROVE  /\ LineSound /\ Sound(dev) /\ ~piece.torn
             /\ buffer'[dev] = <<>> \/ Len(buffer'[dev]) >= 1
             /\ buffer'[dev] = <<>> => NextChained(dev, piece)
             /\ buffer'[dev] # <<>> => Chained(piece, buffer'[dev][1])
             /\ \A n \in Device : n = dev => Sound(n)'
  <2>1. LineSound /\ Sound(dev) /\ From(dev) = 1
    BY <1>1, <1>2, <1>6 DEF PInv, From
  <2> QED BY <1>1, <1>2, <2>1, TakenSound DEF piece
<1>7. CASE /\ piece.text = "eol" /\ EndTurn
           /\ nmea' = [nmea EXCEPT ![dev] = Stored(@, f)]
  <2>1. ~overflowed[dev] /\ Len(f) >= 2 => ~f[1].torn /\ Chained(f[1], f[2])
    BY <1>2, <1>3, <1>6, <1>7, StoredChained DEF f
  <2>2. buffer' = [buffer EXCEPT ![dev] = buffer'[dev]]
    BY <1>1, <1>2, <1>3 DEF Taken
  <2> QED BY <1>1, <1>4, <1>5, <1>7, <2>1, <2>2, EndTurnPInv
<1>8. CASE line' = f /\ UNCHANGED <<pc, dev, nmea, overflowed, gap>>
  <2>1. ASSUME NEW n \in Device, ~overflowed'[n] PROVE Sound(n)'
    <3>1. CASE n # dev
      BY <1>1, <1>3, <1>8, <2>1, <3>1, SoundKept DEF PInv, From
    <3>2. CASE n = dev
      BY <1>6, <1>8, <2>1, <3>2
    <3> QED BY <3>1, <3>2
  <2>2. ASSUME ~overflowed[dev] PROVE LineSound'
    <3>1. /\ LineSound /\ ~piece.torn
          /\ buffer'[dev] = <<>> => NextChained(dev, AsField(piece))
          /\ buffer'[dev] # <<>> => Chained(AsField(piece), buffer'[dev][1])
      BY <1>3, <1>6, <2>2, AsFieldChained
    <3>2. \A i \in 1 .. Len(line) : ~line[i].torn
      BY <3>1 DEF LineSound
    <3>3. /\ Len(f) = 1 => f[1] = AsField(piece)
          /\ Len(f) >= 2 => \/ Len(line) = 1 /\ f[1] = line[1] /\ f[2] = AsField(piece)
                            \/ Len(line) >= 2 /\ f[1] = line[1] /\ f[2] = line[2]
          /\ \A i \in 1 .. Len(f) : ~f[i].torn
      BY <1>2, <1>3, <3>1, <3>2, GrownWhole DEF f
    <3>4. Len(f) >= 2 => Chained(f[1], f[2])
      <4>1. Len(line) = 1 => Chained(line[1], AsField(piece))
        <5>1. buffer[dev][1] = piece
          BY <1>1, <1>2, TailLast DEF piece
        <5>2. Len(line) = 1 => Chained(line[1], piece)
          BY <1>1, <3>1, <5>1 DEF LineSound
        <5> QED BY <1>3, <5>2, AsFieldChained
      <4>2. Len(line) >= 2 => Chained(line[1], line[2])
        BY <3>1 DEF LineSound
      <4> QED BY <3>3, <4>1, <4>2, Zenon
    <3>5. line' = f /\ dev' = dev /\ sent' = sent /\ id' = id
      BY <1>1, <1>8
    <3>6. Len(f) = 1 => IF buffer'[dev] = <<>> THEN NextChained(dev, f[1])
                        ELSE Chained(f[1], buffer'[dev][1])
      BY <3>1, <3>3, Zenon
    <3> QED BY <3>3, <3>4, <3>5, <3>6, Zenon DEF LineSound, NextChained
  <2>3. PairStored' /\ PositionWhole'
    <3>1. \A n \in Device : Raw(n, 1)' = Raw(n, 1) /\ Raw(n, 2)' = Raw(n, 2)
      BY <1>8 DEF Raw
    <3> QED BY <1>1, <1>8, <3>1 DEF PInv, PairStored, PositionWhole
  <2>4. 1 <= 2 /\ Len(buffer'[dev]) <= 2
    <3> DEFINE m == Len(buffer'[dev])
    <3>1. m \in Nat
      BY <1>2 DEF TInv, TypeOK
    <3> QED BY <1>4, <3>1
  <2> QED BY <1>1, <1>8, <2>1, <2>2, <2>3, <2>4 DEF PInv
<1> QED BY <1>1, <1>7, <1>8

(* An empty buffer is one with at most one piece, and stays as it is.      *)
LEMMA SilentTurn ==
    ASSUME TInv, buffer[dev] = <<>>, UNCHANGED buffer
    PROVE  buffer' = [buffer EXCEPT ![dev] = buffer'[dev]] /\ Len(buffer'[dev]) <= 1
<1>1. buffer \in [Device -> Seq(Piece)] /\ dev \in Device
  BY DEF TInv, TypeOK
<1>2. Len(<<>>) = 0 /\ 0 <= 1
  BY EmptySeq
<1>3. Len(buffer'[dev]) <= 1
  BY <1>2
<1>4. buffer' = [buffer EXCEPT ![dev] = buffer'[dev]]
  BY <1>1
<1> QED BY <1>3, <1>4

LEMMA FindTimeoutPInv == ASSUME PInv, FindTimeout, TInv' PROVE PInv'
<1>1. /\ pc = "find" /\ buffer[dev] = <<>> /\ EndTurn
      /\ UNCHANGED <<nmea, sent, id, buffer>> /\ TInv
  BY DEF FindTimeout, PInv
<1>2. dev \in Device /\ nmea \in [Device -> [DOMAIN Places -> Element]]
  BY <1>1 DEF TInv, TypeOK
<1> DEFINE f == <<>>
<1>3. f \in Seq(Field) /\ DOMAIN f = {} /\ ~(Len(f) >= 2)
  <2>1. f \in Seq(Field) /\ Len(f) = 0 /\ DOMAIN f = 1 .. Len(f)
    BY EmptySeq, LenProperties
  <2>2. 1 .. 0 = {} /\ ~(0 >= 2)
    OBVIOUS
  <2> QED BY <2>1, <2>2, Zenon
<1> HIDE DEF f
<1>4. Stored(nmea[dev], f) = nmea[dev]
  <2>1. nmea[dev] \in [DOMAIN Places -> Element]
    BY <1>2
  <2>2. Stored(nmea[dev], f) = [p \in DOMAIN Places |-> nmea[dev][p]]
    BY <1>3 DEF Stored
  <2> QED BY <2>1, <2>2
<1>5. nmea' = [nmea EXCEPT ![dev] = Stored(@, f)]
  BY <1>1, <1>2, <1>4
<1>6. buffer' = [buffer EXCEPT ![dev] = buffer'[dev]] /\ Len(buffer'[dev]) <= 1
  BY <1>1, SilentTurn
<1> QED BY <1>1, <1>3, <1>5, <1>6, EndTurnPInv

LEMMA CollectTimeoutPInv == ASSUME PInv, CollectTimeout, TInv' PROVE PInv'
<1> DEFINE torn == [text |-> "other", id |-> 0, torn |-> TRUE]
           f == IF line = <<>> THEN line ELSE Grown(torn)
<1>1. /\ pc = "collect" /\ buffer[dev] = <<>> /\ EndTurn
      /\ nmea' = [nmea EXCEPT ![dev] = Stored(@, f)]
      /\ UNCHANGED <<sent, id, buffer>> /\ TInv
  BY DEF CollectTimeout, PInv
<1>2. line \in Seq(Field) /\ Len(line) <= 3
  <2>1. line \in Seq(Field) /\ Len(line) <= Len(Places) + 1
    BY <1>1 DEF TInv, TypeOK
  <2> QED BY <2>1, LenPlaces
<1>3. torn \in Piece /\ torn.text = "other"
  BY SizeLemma DEF Piece, Texts
<1> HIDE DEF torn
<1>4. f \in Seq(Field)
  BY <1>2, <1>3, GrownLemma
<1>5. ~overflowed[dev] /\ Len(f) >= 2 => ~f[1].torn /\ Chained(f[1], f[2])
  <2> SUFFICES ASSUME ~overflowed[dev], Len(f) >= 2 PROVE ~f[1].torn /\ Chained(f[1], f[2])
    OBVIOUS
  <2>1. LineSound
    BY <1>1 DEF PInv
  <2>2. line # <<>>
    <3>1. Len(<<>>) = 0 /\ ~(0 >= 2)
      BY EmptySeq
    <3>2. line = <<>> => Len(f) = 0
      BY <3>1, Zenon
    <3> HIDE DEF f
    <3> QED BY <3>1, <3>2
  <2>3. f = Grown(torn)
    BY <2>2
  <2>4. Len(Grown(torn)) >= 2 => ~Grown(torn)[1].torn /\ Chained(Grown(torn)[1], Grown(torn)[2])
    BY <1>2, <1>3, <2>1, StoredChained
  <2> HIDE DEF f
  <2> QED BY <2>3, <2>4, Zenon
<1> HIDE DEF f
<1>6. buffer' = [buffer EXCEPT ![dev] = buffer'[dev]] /\ Len(buffer'[dev]) <= 1
  BY <1>1, SilentTurn
<1> QED BY <1>1, <1>4, <1>5, <1>6, EndTurnPInv

LEMMA ConvertPInv == ASSUME PInv, Convert, TInv' PROVE PInv'
<1>1. /\ pc = "convert" /\ pc' = "fed"
      /\ UNCHANGED <<dev, line, sent, id, buffer, overflowed, gap>>
  BY DEF Convert
<1>2. ASSUME NEW n \in Device
      PROVE  /\ ~Raw(n, 1)' /\ ~Raw(n, 2)'
             /\ Fed(n, 2)' /\ ~gap[n] => Fed(n, 1)' /\ nmea'[n][1].id = nmea'[n][2].id
  <2>1. nmea'[n] = [p \in DOMAIN Places |-> Converted(nmea[n][p], p)]
    BY DEF Convert
  <2>2. /\ nmea'[n][1] = IF Raw(n, 1) THEN Degrees(nmea[n][1]) ELSE Junk
        /\ nmea'[n][2] = IF Raw(n, 2) THEN Degrees(nmea[n][2]) ELSE Junk
    BY <2>1, PlacesLemma DEF Converted, Raw
  <2>3. ~Raw(n, 1)' /\ ~Raw(n, 2)'
    BY <2>2, PlacesLemma DEF Raw, Degrees, Junk
  <2>4. ASSUME Fed(n, 2)', ~gap[n] PROVE Fed(n, 1)' /\ nmea'[n][1].id = nmea'[n][2].id
    <3>1. Raw(n, 2)
      BY <2>2, <2>4 DEF Fed, Junk
    <3>2. Raw(n, 1) /\ nmea[n][1].id = nmea[n][2].id
      BY <2>4, <3>1 DEF PInv, PairStored
    <3> QED BY <2>2, <3>1, <3>2 DEF Fed, Degrees
  <2> QED BY <2>3, <2>4
<1>3. PairStored' /\ PositionWhole'
  BY <1>1, <1>2 DEF PairStored, PositionWhole
<1>4. \A n \in Device : ~overflowed'[n] => Sound(n)'
  BY <1>1, SoundKept DEF PInv, From
<1> QED BY <1>1, <1>3, <1>4 DEF PInv

LEMMA NextPInv == PInv /\ [Next]_vars => PInv'
<1> SUFFICES ASSUME PInv, [Next]_vars PROVE PInv'
  OBVIOUS
<1>1. TInv'
  BY NextTInv DEF PInv
<1>2. CASE Start
  BY <1>1, <1>2, StartPInv
<1>3. CASE Find
  BY <1>1, <1>3, FindPInv
<1>4. CASE FindTimeout
  BY <1>1, <1>4, FindTimeoutPInv
<1>5. CASE Collect
  BY <1>1, <1>5, CollectPInv
<1>6. CASE CollectTimeout
  BY <1>1, <1>6, CollectTimeoutPInv
<1>7. CASE Convert
  BY <1>1, <1>7, ConvertPInv
<1>8. ASSUME NEW n \in Device, Talk(n) PROVE PInv'
  BY <1>8, TalkPInv
<1>9. CASE UNCHANGED vars
  <2>1. \A n \in Device : ~overflowed'[n] => Sound(n)'
    BY <1>9, SoundKept DEF PInv, From, vars
  <2>2. pc' = "collect" /\ ~overflowed'[dev'] => LineSound'
    BY <1>9 DEF PInv, LineSound, NextChained, vars
  <2>3. PairStored' /\ PositionWhole'
    BY <1>9 DEF PInv, PairStored, PositionWhole, Raw, Fed, vars
  <2> QED BY <1>1, <1>9, <2>1, <2>2, <2>3 DEF PInv, vars
<1> QED BY <1>2, <1>3, <1>4, <1>5, <1>6, <1>7, <1>8, <1>9 DEF Next, Pass

(* Whatever the receivers send and however their turns end: without an     *)
(* overflow the longitude the filter gets belongs to the latitude it gets. *)
THEOREM PositionsWhole == Spec => []PositionWhole
<1>1. PInv => PositionWhole
  BY DEF PInv
<1> QED BY <1>1, InitPInv, NextPInv, PTL DEF Spec
=============================================================================
