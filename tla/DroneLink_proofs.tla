-------------------------- MODULE DroneLink_proofs --------------------------
(***************************************************************************)
(* The link between drone and ground station for every FIFO depth, every   *)
(* number of rounds, every way sentences are cut and every use of the      *)
(* buttons: the variables keep their types, the station can only be caught *)
(* by the messages StuckExplained names, the display never runs out of its *)
(* pages, and values arrive in the order of the drone's rounds, so that    *)
(* the link implements Telemetry.                                          *)
(***************************************************************************)
EXTENDS DroneLink, Dht22Driver_proofs, Payload_proofs

-----------------------------------------------------------------------------
(* The drone's helpers.                                                    *)

(* Every element callGPS() leaves in nmea[] is a field, an old value or a  *)
(* tail; both coordinates hold some text once they have been converted.    *)
LEMMA LocatedType ==
    ASSUME nmea \in [PositionFields -> NmeaValue],
           NEW cut \in CutPoints, NEW fix \in BOOLEAN, NEW tail \in Tails(cut, fix)
    PROVE  LET s == Located(Split(nmea, cut, fix, tail))
           IN  /\ s \in [PositionFields -> NmeaValue]
               /\ s.lat.form \in {"deg", "junk"} /\ s.lng.form \in {"deg", "junk"}
<1> DEFINE Mid == [form : {"empty", "comma", "text", "deg", "junk", "raw"},
                   lag : 0 .. MaxLag]
           s == Split(nmea, cut, fix, tail)
<1>1. cut \in Nat
  BY TransmitterAssumption
<1>2. tail \in {"comma", "empty", "junk"}
  BY DEF Tails
<1>3. \A f \in PositionFields : Index[f] \in Nat
  BY DEF PositionFields, Index
<1>4. ASSUME NEW f \in PositionFields
      PROVE  s[f] \in Mid /\ (f \notin {"lat", "lng"} => s[f] \in NmeaValue)
  <2>1. s[f] = CASE Index[f] < cut -> Whole(f, fix)
                 [] Index[f] = cut -> New(tail)
                 [] Index[f] > cut -> Older(nmea[f])
    BY DEF Split
  <2>2. Whole(f, fix) \in Mid /\ (f \notin {"lat", "lng"} => Whole(f, fix) \in NmeaValue)
    <3>1. CASE ~fix
      BY <3>1 DEF Whole, New, NmeaValue, MaxLag
    <3>2. CASE fix /\ f \in {"lat", "lng"}
      BY <3>2 DEF Whole, New, NmeaValue, MaxLag
    <3>3. CASE fix /\ f \notin {"lat", "lng"}
      BY <3>3 DEF Whole, New, NmeaValue, MaxLag
    <3> QED BY <3>1, <3>2, <3>3
  <2>3. New(tail) \in NmeaValue
    BY <1>2 DEF New, NmeaValue, MaxLag
  <2>4. Older(nmea[f]) \in NmeaValue
    BY DEF Older, NmeaValue, MaxLag
  <2>5. NmeaValue \subseteq Mid
    BY DEF NmeaValue
  <2> QED BY <1>1, <1>3, <2>1, <2>2, <2>3, <2>4, <2>5
<1>5. s \in [PositionFields -> Mid]
  BY <1>4 DEF Split
<1> HIDE DEF s
<1>6. \A v \in Mid : Convert(v) \in NmeaValue /\ Convert(v).form \in {"deg", "junk"}
  BY DEF Convert, NmeaValue
<1>7. Located(s) = [[s EXCEPT !["lat"] = Convert(s["lat"])]
                       EXCEPT !["lng"] = Convert(s["lng"])]
  BY <1>5 DEF Located
<1>8. "lat" \in PositionFields /\ "lng" \in PositionFields
  BY DEF PositionFields
<1>9. Located(s).lat = Convert(s["lat"]) /\ Located(s).lng = Convert(s["lng"])
  BY <1>5, <1>7, <1>8
<1>10. \A f \in PositionFields : Located(s)[f] \in NmeaValue
  BY <1>4, <1>5, <1>6, <1>7, <1>8
<1> QED BY <1>5, <1>6, <1>7, <1>8, <1>9, <1>10 DEF s

(* The forms the sensors leave are forms of tokens.                        *)
LEMMA SensorForms ==
    ASSUME nmea \in [PositionFields -> NmeaValue], dht \in Driver
    PROVE  /\ \A f \in PositionFields : nmea[f].form \in Forms \cup {"empty"}
           /\ dht.rh.form \in Forms /\ dht.tc.form \in Forms
BY DEF NmeaValue, Driver, Value, Forms

(* What loop() composes are packets, and the parser gets through every one *)
(* that is not cut, once both coordinates hold something.                  *)
LEMMA MessageType ==
    ASSUME nmea \in [PositionFields -> NmeaValue], dht \in Driver,
           located \in BOOLEAN, seq \in Nat,
           NEW kind \in Kinds, NEW cut \in BOOLEAN
    PROVE  /\ Message(kind, cut) \in Packet
           /\ Message(kind, cut).kind = kind /\ Message(kind, cut).seq = seq + 1
           /\ \/ cut /\ Message(kind, cut).cut
              \/ kind = 1 /\ "empty" \in {nmea.lat.form, nmea.lng.form}
              \/ Parse(kind, Message(kind, cut).body).done
<1>1. /\ Body(kind) \in Seq(Token)
      /\ \/ kind = 1 /\ "empty" \in {nmea.lat.form, nmea.lng.form}
         \/ Parse(kind, Body(kind)).done
  <2>1. CASE kind = 1
    <3>1. Body(kind) = Locats(nmea) /\ Parse(kind, Body(kind)) = ParsePosition(Locats(nmea))
      BY <2>1 DEF Body, Parse
    <3> QED BY <2>1, <3>1, SensorForms, LocatsParses
  <2>2. CASE kind = 2
    <3>1. /\ Body(kind) = Humids(dht.rh.form, dht.tc.form)
          /\ Parse(kind, Body(kind)) = ParseHumidity(Body(kind))
      BY <2>2 DEF Body, Parse
    <3> QED BY <3>1, SensorForms, HumidsParses
  <2>3. CASE kind = 3
    <3>1. Body(kind) = Dusts /\ Parse(kind, Body(kind)) = ParseDust(Body(kind))
      BY <2>3 DEF Body, Parse
    <3> QED BY <3>1, DustsParses
  <2>4. CASE kind = 4
    <3>1. Body(kind) = GyPrs /\ Parse(kind, Body(kind)) = ParsePressure(Body(kind))
      BY <2>4 DEF Body, Parse
    <3> QED BY <3>1, GyPrsParses
  <2> QED BY <2>1, <2>2, <2>3, <2>4 DEF Kinds
<1>2. Front(Body(kind)) \in Seq(Token)
  <2>1. Len(Body(kind)) \in Nat
    BY <1>1, LenProperties
  <2>2. \A i \in 1 .. Len(Body(kind)) - 1 : Body(kind)[i] \in Token
    BY <1>1, ElementOfSeq
  <2>3. SubSeq(Body(kind), 1, Len(Body(kind)) - 1) \in Seq(Token)
    BY <1>1, <2>1, <2>2, SubSeqProperties
  <2> QED BY <2>3 DEF Front
<1> QED BY <1>1, <1>2 DEF Message, Packet

-----------------------------------------------------------------------------
(* Type correctness.                                                       *)

(* The page counter is only past the last page between the flip button and *)
(* the end of loop(), which HttpGet() can stretch.                         *)
Pages ==
    /\ rpc \in {"wifi", "loop", "buttons"} => j \in 1 .. 4
    /\ rpc = "buttons" => lcd = j

LEMMA EmptyQueue ==
    ASSUME NEW q, q = <<>>
    PROVE  q \in Seq(Packet) /\ Len(q) = 0 /\ Len(q) <= Depth
BY DepthAssumption, EmptySeq

LEMMA EmptyByLen ==
    ASSUME NEW q \in Seq(Packet)
    PROVE  q = <<>> <=> Len(q) = 0
BY EmptySeq

LEMMA InitType == Init => TypeOK /\ Pages
<1> SUFFICES ASSUME Init PROVE TypeOK /\ Pages
  OBVIOUS
<1> USE DEF Init, TxInit, RxInit
<1>1. Blank \in [PositionFields -> NmeaValue]
  BY DEF Blank, NmeaValue, MaxLag
<1>2. PowerOn \in Driver
  BY DEF PowerOn, Zero, Driver, Value, Outcomes, MaxLag
<1>3. NoGroups \in [Kinds -> Group]
  BY DEF NoGroups, NoGroup, Group
<1>4. air \in Seq(Packet) /\ Len(air) <= Depth
  BY EmptyQueue
<1>5. outbox \in Seq(Packet) /\ outbox = <<>> /\ stuck \in Seq(Packet)
  BY EmptyQueue
<1>6. TxTypeOK
  BY <1>1, <1>2, <1>4, <1>5 DEF TxTypeOK
<1>7. TypeOK
  <2>1. delivered \in BOOLEAN
    BY Zenon
  <2>2. /\ rpc \in {"wifi", "loop", "stuck", "buttons", "connect", "await"}
        /\ groups \in [Kinds -> Group] /\ j \in 1 .. 5 /\ lcd \in 0 .. 5
    BY <1>3 DEF Cleared
  <2> QED BY <1>5, <1>6, <2>1, <2>2, Zenon DEF TypeOK
<1>8. Pages
  BY DEF Pages
<1> QED BY <1>7, <1>8

(* What a packet on the air does to the FIFO.                              *)
LEMMA TransmitType ==
    ASSUME air \in Seq(Packet), Len(air) <= Depth, NEW m \in Packet, Transmit(m)
    PROVE  air' \in Seq(Packet) /\ Len(air') <= Depth
<1>1. CASE UNCHANGED air
  BY <1>1
<1>2. CASE Len(air) < Depth /\ air' = Append(air, m)
  <2>1. Append(air, m) \in Seq(Packet) /\ Len(Append(air, m)) = Len(air) + 1
    BY AppendProperties
  <2> QED BY <1>2, <2>1, DepthAssumption, LenProperties
<1> QED BY <1>1, <1>2 DEF Transmit

LEMMA DroneType ==
    ASSUME TxTypeOK, TxNext
    PROVE  TxTypeOK'
<1> USE DEF TxTypeOK
<1>1. CASE Setup
  BY <1>1 DEF Setup
<1>2. CASE CallGPS
  <2>1. nmea' \in [PositionFields -> NmeaValue] /\ located' \in BOOLEAN
    <3>1. CASE UNCHANGED <<nmea, located>>
      BY <3>1
    <3>2. ASSUME NEW cut \in CutPoints, NEW fix \in BOOLEAN, NEW tail \in Tails(cut, fix),
                 nmea' = Located(Split(nmea, cut, fix, tail)), located' = TRUE
          PROVE  nmea' \in [PositionFields -> NmeaValue] /\ located' \in BOOLEAN
      BY <3>2, LocatedType
    <3> QED BY <1>2, <3>1, <3>2 DEF CallGPS
  <2> QED BY <1>2, <2>1 DEF CallGPS
<1>3. CASE CallHumid
  <2>1. PICK due1 \in BOOLEAN, due2 \in BOOLEAN :
           \E r1 \in ReadResults(dht, due1) :
              \E r2 \in ReadResults(SetHumidity(r1), due2 /\ ~r1.fresh) :
                 dht' = SetTemperature(r2)
    BY <1>3 DEF CallHumid
  <2>2. PICK r1 \in ReadResults(dht, due1) :
           \E r2 \in ReadResults(SetHumidity(r1), due2 /\ ~r1.fresh) :
              dht' = SetTemperature(r2)
    BY <2>1
  <2>3. SetHumidity(r1) \in Driver /\ r1.fresh \in BOOLEAN
    BY DriverLemma
  <2>4. \A d \in BOOLEAN : \A r2 \in ReadResults(SetHumidity(r1), d) :
           SetTemperature(r2) \in Driver
    BY <2>3, DriverLemma
  <2>5. dht' \in Driver
    BY <2>2, <2>3, <2>4
  <2> QED BY <1>3, <2>5 DEF CallHumid
<1>4. CASE CallPresTemp
  BY <1>4 DEF CallPresTemp
<1>5. CASE Compose
  <2>1. PICK long \in SUBSET {k \in Kinds : RadioCuts /\ MayBeLong(k)} :
           outbox' = [k \in Kinds |-> Message(k, k \in long)]
    BY <1>5 DEF Compose
  <2>2. \A k \in Kinds : Message(k, k \in long) \in Packet
    <3>1. \A k \in Kinds : (k \in long) \in BOOLEAN
      OBVIOUS
    <3> QED BY <3>1, MessageType
  <2>3. outbox' \in Seq(Packet) /\ Len(outbox') = 4
    BY <2>1, <2>2 DEF Kinds
  <2>4. outbox' # <<>>
    <3>1. outbox' \in Seq(Packet) /\ Len(outbox') # 0
      BY <2>3
    <3> QED BY ONLY <3>1, EmptyByLen, Zenon
  <2> QED BY <1>5, <2>3, <2>4 DEF Compose
<1>6. CASE Send
  <2>1. outbox # <<>>
    BY <1>6 DEF Send
  <2>2. Head(outbox) \in Packet /\ Tail(outbox) \in Seq(Packet)
        /\ Len(Tail(outbox)) = Len(outbox) - 1
    BY <2>1, HeadTailProperties
  <2>3. air' \in Seq(Packet) /\ Len(air') <= Depth
    BY <1>6, <2>2, TransmitType DEF Send
  <2>4. Tail(outbox) = <<>> <=> Len(outbox) = 1
    <3>1. Len(outbox) \in Nat
      BY LenProperties
    <3> QED BY <2>2, <3>1, EmptyByLen
  <2> QED BY <1>6, <2>2, <2>3, <2>4 DEF Send
<1>7. CASE PowerCycle
  <2>1. Blank \in [PositionFields -> NmeaValue]
    BY DEF Blank, NmeaValue, MaxLag
  <2>2. PowerOn \in Driver
    BY DEF PowerOn, Zero, Driver, Value, Outcomes, MaxLag
  <2>3. <<>> \in Seq(Packet)
    OBVIOUS
  <2> QED BY <1>7, <2>1, <2>2, <2>3 DEF PowerCycle
<1> QED BY <1>1, <1>2, <1>3, <1>4, <1>5, <1>6, <1>7 DEF TxNext, Loop

(* The station's own variables and the FIFO it empties.                    *)
LEMMA StationType ==
    ASSUME TypeOK, Pages, RxNext, UNCHANGED txvars
    PROVE  TypeOK' /\ Pages'
<1> USE DEF TypeOK, TxTypeOK, txvars, Pages
<1>1. air # <<>> =>
         /\ Head(air) \in Packet /\ Tail(air) \in Seq(Packet)
         /\ Len(Tail(air)) <= Depth
  BY HeadTailProperties, DepthAssumption, LenProperties
<1>2. NoGroup \in Group /\ NoGroups \in [Kinds -> Group]
  BY DEF NoGroups, NoGroup, Group
<1>3. \A p \in 1 .. 5 : WrapPage(p) \in 1 .. 4
  BY DEF WrapPage
<1>4. CASE WifiUp
  BY <1>4 DEF WifiUp
<1>5. CASE Idle
  BY <1>5 DEF Idle
<1>6. CASE Receive
  <2> DEFINE m == Head(air)
             p == Parse(m.kind, m.body)
  <2>1. m \in Packet /\ p.done
    BY <1>1, <1>6 DEF Receive, Parsing
  <2>2. m.kind \in Kinds /\ m.seq \in Nat /\ m.body \in Seq(Token)
    BY <2>1 DEF Packet
  <2>3. p.fields \in Seq(Seq(Token))
    BY <2>1, <2>2, ParseType
  <2>4. groups' = [groups EXCEPT ![m.kind] = [from |-> m.seq, fields |-> p.fields]]
    BY <1>6 DEF Receive
  <2> HIDE DEF m, p
  <2>5. [from |-> m.seq, fields |-> p.fields] \in Group
    BY <2>2, <2>3 DEF Group
  <2>6. groups' \in [Kinds -> Group]
    BY <2>2, <2>4, <2>5
  <2> QED BY <1>1, <1>6, <2>6 DEF Receive, Parsing
<1>7. CASE GetStuck
  <2>1. groups' = [groups EXCEPT ![Head(air).kind] = NoGroup]
        /\ stuck' = <<Head(air)>> /\ lcd' \in {j, lcd}
    BY <1>7 DEF GetStuck
  <2>2. Head(air) \in Packet
    BY <1>1, <1>7 DEF GetStuck, Parsing
  <2>3. groups' \in [Kinds -> Group] /\ stuck' \in Seq(Packet)
    <3>1. Head(air).kind \in Kinds
      BY <2>2 DEF Packet
    <3>2. groups' \in [Kinds -> Group]
      BY <1>2, <2>1, <3>1
    <3>3. <<Head(air)>> \in Seq(Packet)
      BY <2>2
    <3> QED BY <2>1, <3>2, <3>3
  <2>4. lcd' \in 0 .. 5
    BY <2>1
  <2> QED BY <1>1, <1>7, <2>3, <2>4 DEF GetStuck, Parsing
<1>8. CASE Buttons
  <2>1. rpc = "buttons" /\ j \in 1 .. 4
    BY <1>8 DEF Buttons
  <2>2. PICK press \in Presses :
           LET p == IF "flip" \in press THEN j + 1 ELSE j
           IN  IF "upload" \in press
               THEN rpc' = "connect" /\ j' = p
               ELSE rpc' = "loop" /\ j' = WrapPage(p)
    BY <1>8 DEF Buttons
  <2> DEFINE p == IF "flip" \in press THEN j + 1 ELSE j
  <2>3. p \in 1 .. 5
    BY <2>1
  <2> HIDE DEF p
  <2>4. \/ rpc' = "connect" /\ j' \in 1 .. 5
        \/ rpc' = "loop" /\ j' \in 1 .. 4
    BY <1>3, <2>2, <2>3 DEF p
  <2>5. UNCHANGED <<groups, lcd, stuck, air>> /\ delivered' \in BOOLEAN
    BY <1>8, Zenon DEF Buttons
  <2>6. Pages'
    BY <2>4
  <2>7. TypeOK'
    BY <2>4, <2>5
  <2> QED BY <2>6, <2>7
<1>9. CASE Connect
  BY <1>9 DEF Connect
<1>10. CASE AfterHttpGet
  BY <1>3, <1>10 DEF AfterHttpGet, Uploaded
<1>11. CASE Restart /\ air' \in {air, <<>>}
  <2>1. air' \in Seq(Packet) /\ Len(air') <= Depth
    BY <1>11, EmptyQueue
  <2>2. stuck' \in Seq(Packet)
    BY <1>11, EmptyQueue DEF Restart
  <2>3. rpc' = "wifi" /\ groups' \in [Kinds -> Group] /\ j' = 1 /\ lcd' = 0
    BY <1>2, <1>11 DEF Restart, Cleared
  <2>4. delivered' \in BOOLEAN
    BY <1>11, Zenon DEF Restart
  <2>5. Pages'
    BY <2>3
  <2> QED BY <2>1, <2>2, <2>3, <2>4, <2>5
<1>12. CASE AnswerBegins
  BY <1>3, <1>12 DEF AnswerBegins
<1> QED BY <1>4, <1>5, <1>6, <1>7, <1>8, <1>9, <1>10, <1>11, <1>12
        DEF RxNext, Run, ConnectFails, Answered, Timeout, Watchdog, Unplugged

LEMMA StepType == TypeOK /\ Pages /\ [Next]_vars => TypeOK' /\ Pages'
<1> SUFFICES ASSUME TypeOK, Pages, [Next]_vars PROVE TypeOK' /\ Pages'
  OBVIOUS
<1>1. CASE DroneStep
  <2>1. UNCHANGED rxvars /\ TxTypeOK'
    BY <1>1, DroneType DEF DroneStep, TypeOK
  <2> QED BY <2>1 DEF TypeOK, Pages, rxvars
<1>2. CASE StationStep
  BY <1>2, StationType DEF StationStep
<1>3. CASE UNCHANGED vars
  BY <1>3 DEF vars, txvars, rxvars, TypeOK, TxTypeOK, Pages
<1> QED BY <1>1, <1>2, <1>3 DEF Next

(* Everywhere and always, every variable of drone and station has a value  *)
(* of its type, and the FIFO stays within its depth.                       *)
THEOREM TypeCorrect == Spec => []TypeOK
<1>1. Init => TypeOK /\ Pages
  BY InitType
<1>2. TypeOK /\ Pages /\ [Next]_vars => TypeOK' /\ Pages'
  BY StepType
<1> QED BY <1>1, <1>2, PTL DEF Spec

(* The page the flip button selects exists, and it is the one drawn,       *)
(* whichever buttons are held and however an upload ends.                  *)
THEOREM PagesExist == Spec => []PageDrawn
<1>1. Init => TypeOK /\ Pages
  BY InitType
<1>2. TypeOK /\ Pages /\ [Next]_vars => TypeOK' /\ Pages'
  BY StepType
<1>3. Pages => PageDrawn
  BY DEF Pages, PageDrawn
<1> QED BY <1>1, <1>2, <1>3, PTL DEF Spec

-----------------------------------------------------------------------------
(* Order.  The invariant ties together the three places a round's number   *)
(* can be in: what the drone still has to send is from the newest round,   *)
(* what is on the air is older than that and rises, and what the station   *)
(* holds is older than anything of its kind still to come.                 *)

AirRises ==
    \A a, b \in 1 .. Len(air) :
        a < b /\ air[a].kind = air[b].kind => air[a].seq < air[b].seq

AirBounded == \A a \in 1 .. Len(air) : air[a].seq <= seq

OutboxNew ==
    /\ \A b \in 1 .. Len(outbox) : outbox[b].seq = seq
    /\ \A a, b \in 1 .. Len(outbox) : a # b => outbox[a].kind # outbox[b].kind
    /\ \A a \in 1 .. Len(air), b \in 1 .. Len(outbox) :
          air[a].kind = outbox[b].kind => air[a].seq < seq

GroupsOld ==
    /\ \A k \in Kinds : groups[k].from <= seq
    /\ \A a \in 1 .. Len(air) : groups[air[a].kind].from < air[a].seq
    /\ \A b \in 1 .. Len(outbox) : groups[outbox[b].kind].from < seq

Order == AirRises /\ AirBounded /\ OutboxNew /\ GroupsOld

(* What can be asked of the elements of a queue of packets.                *)
LEMMA QueueType ==
    ASSUME NEW q \in Seq(Packet)
    PROVE  /\ Len(q) \in Nat
           /\ \A i \in 1 .. Len(q) : q[i].kind \in Kinds /\ q[i].seq \in Nat
<1>1. \A i \in 1 .. Len(q) : q[i] \in Packet
  BY ElementOfSeq
<1>2. \A m \in Packet : m.kind \in Kinds /\ m.seq \in Nat
  BY DEF Packet
<1> QED BY <1>1, <1>2, LenProperties

(* Taking the first packet off a queue shifts the others.                  *)
LEMMA TailShifts ==
    ASSUME NEW q \in Seq(Packet), q # <<>>
    PROVE  /\ 1 \in 1 .. Len(q) /\ Head(q) = q[1]
           /\ Len(Tail(q)) = Len(q) - 1
           /\ \A i \in 1 .. Len(Tail(q)) : Tail(q)[i] = q[i + 1] /\ i + 1 \in 1 .. Len(q)
<1>1. Len(q) \in Nat \ {0}
  BY EmptyByLen
<1> QED BY <1>1, HeadTailProperties

(* The places of a queue that has grown by one.                            *)
LEMMA GrownPlaces ==
    ASSUME NEW n \in Nat, NEW a \in 1 .. n + 1, NEW b \in 1 .. n + 1
    PROVE  /\ a \in 1 .. n \/ a = n + 1
           /\ a < b => a \in 1 .. n
OBVIOUS

LEMMA InitOrder == Init => Order
<1> SUFFICES ASSUME Init PROVE Order
  OBVIOUS
<1>1. Len(air) = 0 /\ Len(outbox) = 0
  BY EmptyQueue DEF Init, TxInit
<1>2. \A k \in Kinds : groups[k].from <= seq
  BY DEF Init, TxInit, RxInit, NoGroups, NoGroup
<1> QED BY <1>1, <1>2 DEF Order, AirRises, AirBounded, OutboxNew, GroupsOld

LEMMA DroneOrder ==
    ASSUME TypeOK, Order, DroneStep
    PROVE  Order'
<1> USE DEF Order, AirRises, AirBounded, OutboxNew, GroupsOld
<1>1. outbox \in Seq(Packet) /\ air \in Seq(Packet) /\ seq \in Nat
      /\ groups \in [Kinds -> Group] /\ groups' = groups
  BY DEF TypeOK, TxTypeOK, DroneStep, rxvars
<1>2. /\ Len(outbox) \in Nat /\ Len(air) \in Nat
      /\ \A i \in 1 .. Len(air) : air[i].kind \in Kinds /\ air[i].seq \in Nat
      /\ \A i \in 1 .. Len(outbox) : outbox[i].kind \in Kinds /\ outbox[i].seq \in Nat
  BY <1>1, QueueType
<1>3. \A k \in Kinds : groups[k].from \in Nat
  BY <1>1 DEF Group
<1>4. CASE UNCHANGED <<outbox, seq, air>>
  BY <1>1, <1>4
<1>5. CASE Compose
  <2>1. PICK long \in SUBSET {k \in Kinds : RadioCuts /\ MayBeLong(k)} :
           outbox' = [k \in Kinds |-> Message(k, k \in long)]
    BY <1>5 DEF Compose
  <2>2. seq' = seq + 1 /\ air' = air
    BY <1>5 DEF Compose
  <2>3. \A k \in Kinds : Message(k, k \in long).kind = k
                       /\ Message(k, k \in long).seq = seq + 1
    BY DEF Message
  <2>4. Len(outbox') = 4
    BY <2>1 DEF Kinds
  <2>5. \A b \in 1 .. Len(outbox') : outbox'[b].kind = b /\ outbox'[b].seq = seq'
    BY <2>1, <2>2, <2>3, <2>4 DEF Kinds
  <2>6. \A b \in 1 .. Len(outbox') : b \in Kinds
    BY <2>4 DEF Kinds
  <2>7. AirRises' /\ AirBounded'
    BY <1>1, <1>2, <2>2
  <2>8. OutboxNew'
    BY <1>1, <1>2, <2>2, <2>5
  <2>9. GroupsOld'
    BY <1>1, <1>2, <1>3, <2>2, <2>5, <2>6
  <2> QED BY <2>7, <2>8, <2>9
<1>6. CASE Send
  <2>1. outbox # <<>>
    BY <1>6 DEF Send, TypeOK, TxTypeOK
  <2>2. /\ 1 \in 1 .. Len(outbox) /\ Head(outbox) = outbox[1]
        /\ Len(Tail(outbox)) = Len(outbox) - 1
        /\ \A i \in 1 .. Len(Tail(outbox)) :
              Tail(outbox)[i] = outbox[i + 1] /\ i + 1 \in 1 .. Len(outbox)
    BY <1>1, <2>1, TailShifts
  <2>3. outbox' = Tail(outbox) /\ seq' = seq
    BY <1>6 DEF Send
  <2>4. CASE UNCHANGED air
    <3>1. AirRises' /\ AirBounded'
      BY <1>1, <2>3, <2>4
    <3>2. OutboxNew'
      BY <1>1, <1>2, <2>2, <2>3, <2>4
    <3>3. GroupsOld'
      BY <1>1, <1>2, <1>3, <2>2, <2>3, <2>4
    <3> QED BY <3>1, <3>2, <3>3
  <2>5. CASE air' = Append(air, Head(outbox))
    <3>1. Head(outbox) \in Packet
      BY <1>1, <2>1, HeadTailProperties
    <3>2. /\ Len(air') = Len(air) + 1 /\ air'[Len(air) + 1] = outbox[1]
          /\ \A i \in 1 .. Len(air) : air'[i] = air[i]
      BY <1>1, <2>2, <2>5, <3>1, AppendProperties
    <3>3. AirRises'
      <4> SUFFICES ASSUME NEW a \in 1 .. Len(air'), NEW b \in 1 .. Len(air'),
                          a < b, air'[a].kind = air'[b].kind
                   PROVE  air'[a].seq < air'[b].seq
        OBVIOUS
      <4>1. a \in 1 .. Len(air) /\ (b \in 1 .. Len(air) \/ b = Len(air) + 1)
        BY <1>2, <3>2, GrownPlaces
      <4>2. CASE b \in 1 .. Len(air)
        BY <3>2, <4>1, <4>2
      <4>3. CASE b = Len(air) + 1
        BY <2>2, <3>2, <4>1, <4>3
      <4> QED BY <4>1, <4>2, <4>3
    <3>4. AirBounded'
      <4>1. \A a \in 1 .. Len(air') : a \in 1 .. Len(air) \/ a = Len(air) + 1
        BY <1>2, <3>2
      <4>2. air'[Len(air) + 1].seq <= seq'
        BY <1>1, <2>2, <2>3, <3>2
      <4> QED BY <2>3, <3>2, <4>1, <4>2
    <3>5. OutboxNew'
      <4>1. /\ \A b \in 1 .. Len(outbox') : outbox'[b].seq = seq'
            /\ \A a, b \in 1 .. Len(outbox') : a # b => outbox'[a].kind # outbox'[b].kind
        BY <1>1, <1>2, <2>2, <2>3
      <4>2. \A b \in 1 .. Len(outbox') : outbox'[b].kind # outbox[1].kind
        BY <1>1, <1>2, <2>2, <2>3
      <4>3. ASSUME NEW a \in 1 .. Len(air'), NEW b \in 1 .. Len(outbox'),
                   air'[a].kind = outbox'[b].kind
            PROVE  air'[a].seq < seq'
        <5>1. a \in 1 .. Len(air)
          BY <1>2, <3>2, <4>2, <4>3, GrownPlaces
        <5> QED BY <2>2, <2>3, <3>2, <4>3, <5>1
      <4> QED BY <4>1, <4>3
    <3>6. GroupsOld'
      BY <1>1, <1>2, <1>3, <2>2, <2>3, <3>2
    <3> QED BY <3>3, <3>4, <3>5, <3>6
  <2> QED BY <1>6, <2>4, <2>5 DEF Send, Transmit
<1>7. CASE PowerCycle
  <2>1. Len(outbox') = 0 /\ seq' = seq /\ air' = air
    BY <1>7, EmptyQueue DEF PowerCycle
  <2> QED BY <1>1, <2>1
<1> QED BY <1>4, <1>5, <1>6, <1>7
        DEF DroneStep, TxNext, Loop, Setup, CallGPS, CallHumid, CallPresTemp

LEMMA StationOrder ==
    ASSUME TypeOK, Order, StationStep
    PROVE  Order'
<1> USE DEF Order, AirRises, AirBounded, OutboxNew, GroupsOld
<1>1. outbox \in Seq(Packet) /\ air \in Seq(Packet) /\ seq \in Nat
      /\ groups \in [Kinds -> Group] /\ outbox' = outbox /\ seq' = seq
  BY DEF TypeOK, TxTypeOK, StationStep, txvars
<1>2. /\ Len(outbox) \in Nat /\ Len(air) \in Nat
      /\ \A i \in 1 .. Len(air) : air[i].kind \in Kinds /\ air[i].seq \in Nat
      /\ \A i \in 1 .. Len(outbox) : outbox[i].kind \in Kinds /\ outbox[i].seq \in Nat
  BY <1>1, QueueType
<1>3. \A k \in Kinds : groups[k].from \in Nat
  BY <1>1 DEF Group
<1>4. air # <<>> =>
        /\ 1 \in 1 .. Len(air) /\ Head(air) = air[1] /\ Len(Tail(air)) = Len(air) - 1
        /\ \A i \in 1 .. Len(Tail(air)) :
              Tail(air)[i] = air[i + 1] /\ i + 1 \in 1 .. Len(air)
  BY <1>1, TailShifts
<1>5. ASSUME air # <<>>, air' = Tail(air)
      PROVE  AirRises' /\ AirBounded' /\ OutboxNew'
  <2>1. /\ Len(air') = Len(air) - 1
        /\ \A i \in 1 .. Len(air') : air'[i] = air[i + 1] /\ i + 1 \in 1 .. Len(air)
    BY <1>4, <1>5
  <2>2. AirRises'
    <3> SUFFICES ASSUME NEW a \in 1 .. Len(air'), NEW b \in 1 .. Len(air'),
                        a < b, air'[a].kind = air'[b].kind
                 PROVE  air'[a].seq < air'[b].seq
      OBVIOUS
    <3>1. a + 1 < b + 1 /\ air[a + 1].kind = air[b + 1].kind
      BY <2>1
    <3> QED BY <2>1, <3>1
  <2>3. AirBounded'
    BY <1>1, <2>1
  <2>4. OutboxNew'
    BY <1>1, <2>1
  <2> QED BY <2>2, <2>3, <2>4
<1>6. ASSUME \A k \in Kinds : groups'[k].from \in Nat /\ groups'[k].from <= groups[k].from,
             air' = air \/ Len(air') = 0 \/ (air # <<>> /\ air' = Tail(air))
      PROVE  Order'
  <2>1. \A k \in Kinds, n \in Nat :
           /\ groups[k].from < n => groups'[k].from < n
           /\ groups[k].from <= n => groups'[k].from <= n
    BY <1>3, <1>6
  <2>2. CASE air' = air
    <3>1. AirRises' /\ AirBounded' /\ OutboxNew'
      BY <1>1, <2>2
    <3>2. GroupsOld'
      BY <1>1, <1>2, <2>1, <2>2
    <3> QED BY <3>1, <3>2
  <2>3. CASE Len(air') = 0
    BY <1>1, <1>2, <1>3, <1>6, <2>3
  <2>4. CASE air # <<>> /\ air' = Tail(air)
    <3>1. AirRises' /\ AirBounded' /\ OutboxNew'
      BY <1>5, <2>4
    <3>2. \A a \in 1 .. Len(air') :
             air'[a] = air[a + 1] /\ a + 1 \in 1 .. Len(air)
      BY <1>4, <2>4
    <3>3. \A a \in 1 .. Len(air') : groups'[air'[a].kind].from < air'[a].seq
      BY <1>2, <2>1, <3>2
    <3>4. GroupsOld'
      BY <1>1, <1>2, <2>1, <3>3
    <3> QED BY <3>1, <3>4
  <2> QED BY <1>6, <2>2, <2>3, <2>4
<1>7. CASE UNCHANGED <<groups, air>>
  BY <1>3, <1>6, <1>7
<1>8. CASE Receive
  <2>1. air # <<>> /\ air' = Tail(air)
    BY <1>8 DEF Receive, Parsing
  <2>2. /\ groups'[air[1].kind].from = air[1].seq
        /\ \A k \in Kinds : k # air[1].kind => groups'[k] = groups[k]
    BY <1>1, <1>2, <1>4, <1>8, <2>1 DEF Receive
  <2>3. AirRises' /\ AirBounded' /\ OutboxNew'
    BY <1>5, <2>1
  <2>4. \A k \in Kinds : groups'[k].from <= seq'
    BY <1>1, <1>2, <1>4, <2>1, <2>2
  <2>5. \A a \in 1 .. Len(air') : groups'[air'[a].kind].from < air'[a].seq
    BY <1>1, <1>2, <1>4, <2>1, <2>2
  <2>6. \A b \in 1 .. Len(outbox') : groups'[outbox'[b].kind].from < seq'
    BY <1>1, <1>2, <1>4, <2>1, <2>2
  <2> QED BY <2>3, <2>4, <2>5, <2>6
<1>9. CASE GetStuck
  <2>1. air # <<>> /\ air' = Tail(air)
        /\ groups' = [groups EXCEPT ![Head(air).kind] = NoGroup]
    BY <1>9 DEF GetStuck, Parsing
  <2>2. \A k \in Kinds : groups'[k].from \in Nat /\ groups'[k].from <= groups[k].from
    BY <1>1, <1>3, <2>1 DEF NoGroup
  <2> QED BY <1>6, <2>1, <2>2
<1>10. CASE Restart /\ air' \in {air, <<>>}
  <2>1. \A k \in Kinds : groups'[k].from = 0
    BY <1>10 DEF Restart, NoGroups, NoGroup
  <2>2. air' = air \/ Len(air') = 0
    BY <1>10, EmptyQueue
  <2> QED BY <1>3, <1>6, <2>1, <2>2
<1> QED BY <1>7, <1>8, <1>9, <1>10
        DEF StationStep, RxNext, Run, WifiUp, Idle, Buttons, Connect, ConnectFails,
            Answered, AnswerBegins, Timeout, AfterHttpGet, Watchdog, Unplugged

OrderInv == TypeOK /\ Pages /\ Order

LEMMA InitOrderInv == Init => OrderInv
BY InitType, InitOrder DEF OrderInv

LEMMA StepOrderInv == OrderInv /\ [Next]_vars => OrderInv'
<1> SUFFICES ASSUME OrderInv, [Next]_vars PROVE OrderInv'
  OBVIOUS
<1>1. TypeOK' /\ Pages'
  BY StepType DEF OrderInv
<1>2. CASE DroneStep
  BY <1>1, <1>2, DroneOrder DEF OrderInv
<1>3. CASE StationStep
  BY <1>1, <1>3, StationOrder DEF OrderInv
<1>4. CASE UNCHANGED vars
  <2>1. UNCHANGED <<air, outbox, seq, groups>>
    BY <1>4 DEF vars, txvars, rxvars
  <2>2. Order'
    BY <2>1 DEF OrderInv, Order, AirRises, AirBounded, OutboxNew, GroupsOld
  <2> QED BY <1>1, <2>2 DEF OrderInv
<1> QED BY <1>2, <1>3, <1>4 DEF Next

(* What a step of the station does to the rounds it shows: it takes over   *)
(* the values of one newer round, forgets, or leaves them.                 *)
LEMMA ReceiveRises ==
    ASSUME OrderInv, Receive
    PROVE  LET m == Head(air)
           IN  /\ m.kind \in Kinds /\ m.seq \in groups[m.kind].from + 1 .. seq
               /\ groups'[m.kind].from = m.seq
               /\ \A k \in Kinds \ {m.kind} : groups'[k] = groups[k]
               /\ rpc = "loop" /\ rpc' = "buttons"
<1> DEFINE m == Head(air)
<1>1. air # <<>> /\ rpc = "loop" /\ rpc' = "buttons"
  BY DEF Receive, Parsing
<1>2. air \in Seq(Packet) /\ seq \in Nat /\ groups \in [Kinds -> Group]
  BY DEF OrderInv, TypeOK, TxTypeOK
<1>3. 1 \in 1 .. Len(air) /\ m = air[1]
  BY <1>1, <1>2, TailShifts
<1>4. m.kind \in Kinds /\ m.seq \in Nat
  BY <1>2, <1>3, QueueType
<1>5. groups[m.kind].from < m.seq /\ m.seq <= seq
  BY <1>3 DEF OrderInv, Order, AirBounded, GroupsOld
<1>6. groups[m.kind].from \in Nat
  BY <1>2, <1>4 DEF Group
<1>7. groups' = [groups EXCEPT ![m.kind] =
                    [from |-> m.seq, fields |-> Parse(m.kind, m.body).fields]]
  BY DEF Receive
<1> HIDE DEF m
<1>8. /\ groups'[m.kind].from = m.seq
      /\ \A k \in Kinds \ {m.kind} : groups'[k] = groups[k]
  BY <1>2, <1>4, <1>7
<1>9. m.seq \in groups[m.kind].from + 1 .. seq
  BY <1>2, <1>4, <1>5, <1>6
<1> QED BY <1>1, <1>4, <1>8, <1>9 DEF m

(* The values on the station never go back to an earlier round of the      *)
(* drone's loop(): receiver1's String variables only ever change to those  *)
(* of a newer message, or are lost in a restart or in the parser.          *)
THEOREM ValuesNeverGoBack == Spec => NeverBack
<1>1. ASSUME OrderInv, [Next]_vars
      PROVE  [\A k \in Kinds : groups'[k] # groups[k] =>
                 groups'[k].from > groups[k].from \/ rpc' \in {"wifi", "stuck"}]_vars
  <2>1. CASE UNCHANGED groups
    BY <2>1
  <2>2. CASE Receive
    <3> DEFINE m == Head(air)
    <3>1. /\ m.kind \in Kinds /\ m.seq \in groups[m.kind].from + 1 .. seq
          /\ groups'[m.kind].from = m.seq
          /\ \A k \in Kinds \ {m.kind} : groups'[k] = groups[k]
      BY <1>1, <2>2, ReceiveRises
    <3>2. groups[m.kind].from \in Nat /\ seq \in Nat
      BY <1>1, <3>1 DEF OrderInv, TypeOK, TxTypeOK, Group
    <3> HIDE DEF m
    <3>3. groups'[m.kind].from > groups[m.kind].from
      BY <3>1, <3>2
    <3> QED BY <3>1, <3>3
  <2>3. CASE rpc' \in {"wifi", "stuck"}
    BY <2>3
  <2> QED
    BY <1>1, <2>1, <2>2, <2>3
       DEF Next, vars, rxvars, DroneStep, StationStep, RxNext, Run, WifiUp, Idle, GetStuck,
           Buttons, Connect, ConnectFails, Answered, AnswerBegins, Timeout, AfterHttpGet, Watchdog,
           Unplugged, Restart
<1>2. Init => OrderInv
  BY InitOrderInv
<1>3. OrderInv /\ [Next]_vars => OrderInv'
  BY StepOrderInv
<1> QED BY <1>1, <1>2, <1>3, PTL DEF Spec, NeverBack

-----------------------------------------------------------------------------
(* Refinement: the link implements Telemetry.                              *)

LEMMA InitPromise == Init => Promise!Init
BY DEF Init, TxInit, RxInit, NoGroups, NoGroup, Promise!Init, Shown

LEMMA StepPromise ==
    ASSUME OrderInv, [Next]_vars
    PROVE  [Promise!Next]_<<seq, Shown>>
<1>1. groups \in [Kinds -> Group] /\ seq \in Nat
  BY DEF OrderInv, TypeOK, TxTypeOK
<1>2. CASE DroneStep
  <2>1. UNCHANGED Shown
    BY <1>2 DEF DroneStep, rxvars, Shown
  <2>2. seq' = seq + 1 \/ seq' = seq
    BY <1>2 DEF DroneStep, TxNext, Loop, Setup, CallGPS, CallHumid, CallPresTemp, Compose,
                Send, PowerCycle
  <2> QED BY <2>1, <2>2 DEF Promise!Next, Promise!Compose
<1>3. CASE Receive /\ UNCHANGED txvars
  <2> DEFINE m == Head(air)
  <2>1. /\ m.kind \in Kinds /\ m.seq \in groups[m.kind].from + 1 .. seq
        /\ groups'[m.kind].from = m.seq
        /\ \A k \in Kinds \ {m.kind} : groups'[k] = groups[k]
        /\ rpc = "loop" /\ rpc' = "buttons"
    BY <1>3, ReceiveRises
  <2> HIDE DEF m
  <2>2. Shown = [k \in Kinds |-> groups[k].from] /\ Shown' = [k \in Kinds |-> groups'[k].from]
    BY <2>1 DEF Shown
  <2>3. Shown' = [Shown EXCEPT ![m.kind] = m.seq] /\ m.seq \in Shown[m.kind] + 1 .. seq
    BY <2>1, <2>2
  <2>4. Promise!Show(m.kind)
    BY <1>3, <2>3 DEF Promise!Show, txvars
  <2> QED BY <2>1, <2>4 DEF Promise!Next
<1>4. CASE (GetStuck \/ Watchdog \/ Unplugged) /\ UNCHANGED txvars
  <2>1. Shown' = [k \in Kinds |-> 0]
    BY <1>4 DEF GetStuck, Watchdog, Unplugged, Restart, NoGroups, NoGroup, Shown
  <2>2. seq' = seq
    BY <1>4 DEF txvars
  <2> QED BY <2>1, <2>2 DEF Promise!Next, Promise!Forget
<1>5. CASE (WifiUp \/ Idle \/ Buttons \/ Connect \/ ConnectFails \/ AnswerBegins \/ Answered
               \/ Timeout)
           /\ UNCHANGED txvars
  <2>1. groups' = groups /\ rpc # "stuck" /\ rpc' # "stuck"
    BY <1>5 DEF WifiUp, Idle, Buttons, Connect, ConnectFails, AnswerBegins, Answered, Timeout,
                AfterHttpGet
  <2>2. Shown' = Shown /\ seq' = seq
    BY <1>5, <2>1 DEF Shown, txvars
  <2> QED BY <2>2
<1>6. CASE UNCHANGED vars
  <2>1. Shown' = Shown /\ seq' = seq
    BY <1>6 DEF vars, txvars, rxvars, Shown
  <2> QED BY <2>1
<1> QED BY <1>2, <1>3, <1>4, <1>5, <1>6 DEF Next, StationStep, RxNext, Run

(* The two programs together implement Telemetry: what the display shows   *)
(* is, kind by kind, a rising selection of the rounds the drone composed,  *)
(* forgotten in restarts, whatever the radio loses.                        *)
THEOREM LinkImplementsTelemetry == Spec => Implements
<1>1. Init => Promise!Init
  BY InitPromise
<1>2. OrderInv /\ [Next]_vars => [Promise!Next]_<<seq, Shown>>
  BY StepPromise
<1>3. Init => OrderInv
  BY InitOrderInv
<1>4. OrderInv /\ [Next]_vars => OrderInv'
  BY StepOrderInv
<1> QED BY <1>1, <1>2, <1>3, <1>4, PTL DEF Spec, Implements, Promise!Spec

-----------------------------------------------------------------------------
(* What can catch the station in its parser.                               *)

Readable(m) == m.cut \/ (m.kind = 1 /\ ~m.located) \/ Parse(m.kind, m.body).done

(* What the parser makes of a message it gets through is Faithful.         *)
Takable(m) ==
    Parse(m.kind, m.body).done => Faithful(m.kind, m.body, Parse(m.kind, m.body).fields)

Parsable ==
    /\ \A a \in 1 .. Len(air) : Readable(air[a]) /\ Takable(air[a])
    /\ \A b \in 1 .. Len(outbox) : Readable(outbox[b]) /\ Takable(outbox[b])
    /\ located => nmea.lat.form \in {"deg", "junk"} /\ nmea.lng.form \in {"deg", "junk"}
    /\ ~located => nmea = Blank
    /\ StuckExplained

(* Only the closing x of a body is one.                                    *)
NoCross(s) == s \in Seq(Token) /\ \A i \in 1 .. Len(s) : s[i].form # "x"

LEMMA NoCrossConcat ==
    ASSUME NEW s, NEW t, NoCross(s), NoCross(t) PROVE NoCross(s \o t)
<1> USE DEF NoCross
<1>1. /\ s \o t \in Seq(Token) /\ Len(s \o t) = Len(s) + Len(t)
      /\ \A i \in 1 .. Len(s) + Len(t) :
            (s \o t)[i] = IF i <= Len(s) THEN s[i] ELSE t[i - Len(s)]
  BY ConcatProperties
<1>2. Len(s) \in Nat /\ Len(t) \in Nat
  BY LenProperties
<1> QED BY <1>1, <1>2

LEMMA NoCrossPut ==
    ASSUME NEW f \in Fields, NEW form \in Forms \cup {"empty"}, form # "x"
    PROVE  NoCross(Put(f, form))
<1>1. CASE form = "empty"
  <2>1. Put(f, form) \in Seq(Token) /\ Len(Put(f, form)) = 0
    BY <1>1, EmptySeq DEF Put
  <2> QED BY <2>1 DEF NoCross
<1>2. CASE form # "empty"
  <2>1. Tok(f, form) \in Token
    BY <1>2, TokenType
  <2>2. Put(f, form) = <<Tok(f, form)>>
    BY <1>2 DEF Put
  <2> QED BY <2>1, <2>2 DEF NoCross, Tok
<1> QED BY <1>1, <1>2

LEMMA FrontOfClosed ==
    ASSUME NEW s \in Seq(Token) PROVE Front(s \o <<Cross>>) = s
<1> DEFINE c == s \o <<Cross>>
<1>1. Cross \in Token /\ Len(s) \in Nat
  BY TokenType, LenProperties
<1>2. <<Cross>> \in Seq(Token) /\ Len(<<Cross>>) = 1
  BY <1>1
<1>3. /\ c \in Seq(Token) /\ Len(c) = Len(s) + 1
      /\ \A i \in 1 .. Len(s) : c[i] = s[i]
  BY <1>1, <1>2, ConcatProperties
<1> HIDE DEF c
<1>4. \A i \in 1 .. Len(s) : c[i] \in Token
  BY <1>3, ElementOfSeq
<1>5. /\ SubSeq(c, 1, Len(s)) \in Seq(Token) /\ Len(SubSeq(c, 1, Len(s))) = Len(s)
      /\ \A i \in 1 .. Len(s) : SubSeq(c, 1, Len(s))[i] = c[i]
  BY <1>1, <1>3, <1>4, SubSeqProperties
<1>6. SubSeq(c, 1, Len(s)) = s
  BY <1>3, <1>5, SeqEqual
<1>7. Len(c) - 1 = Len(s)
  BY <1>1, <1>3
<1> QED BY <1>6, <1>7 DEF Front, c

LEMMA CutNeverEnds ==
    ASSUME nmea \in [PositionFields -> NmeaValue], dht \in Driver, NEW kind \in {1, 2}
    PROVE  ~Parse(kind, Front(Body(kind))).done
<1>1. NoCross(<<Comma>>)
  BY TokenType DEF NoCross, Comma, Tok
<1>2. CASE kind = 1
  <2> DEFINE P(f) == Put(f, nmea[f].form)
             s == (P("ns") \o P("lat")) \o <<Comma>> \o (P("ew") \o P("lng")) \o <<Comma>> \o P("alt")
  <2>1. ASSUME NEW f \in PositionFields PROVE NoCross(P(f))
    <3>1. f \in Fields /\ nmea[f].form \in Forms \cup {"empty"} /\ nmea[f].form # "x"
      BY DEF Fields, NmeaValue, Forms
    <3> QED BY <3>1, NoCrossPut
  <2>2. NoCross(P("ns")) /\ NoCross(P("lat")) /\ NoCross(P("ew")) /\ NoCross(P("lng"))
        /\ NoCross(P("alt"))
    BY <2>1 DEF PositionFields
  <2>3. Body(1) = s \o <<Cross>>
    BY DEF Body, Locats
  <2> HIDE DEF P
  <2>4. NoCross(P("ns") \o P("lat")) /\ NoCross(P("ew") \o P("lng"))
    BY <2>2, NoCrossConcat
  <2>5. NoCross((P("ns") \o P("lat")) \o <<Comma>>)
    BY <1>1, <2>4, NoCrossConcat
  <2>6. NoCross((P("ns") \o P("lat")) \o <<Comma>> \o (P("ew") \o P("lng")))
    BY <2>4, <2>5, NoCrossConcat
  <2>7. NoCross((P("ns") \o P("lat")) \o <<Comma>> \o (P("ew") \o P("lng")) \o <<Comma>>)
    BY <1>1, <2>6, NoCrossConcat
  <2>8. NoCross(s)
    BY <2>2, <2>7, NoCrossConcat
  <2> HIDE DEF s
  <2>9. Front(Body(1)) = s
    BY <2>3, <2>8, FrontOfClosed DEF NoCross
  <2>10. ~ParsePosition(s).done
    BY <2>8, NoCrossNoEnd DEF NoCross
  <2> QED BY <1>2, <2>9, <2>10 DEF Parse
<1>3. CASE kind = 2
  <2> DEFINE h == dht.rh.form
             t == dht.tc.form
             s == <<Tok("rh", h), Comma, Tok("tc", t), Comma, Tok("tf", t), Comma,
                    Tok("hic", HeatForm(h, t)), Comma, Tok("hif", HeatForm(h, t))>>
  <2>1. h \in Forms /\ t \in Forms /\ h # "x" /\ t # "x"
    BY DEF Driver, Value, Forms
  <2>2. HeatForm(h, t) \in Forms /\ HeatForm(h, t) # "x"
    BY DEF HeatForm, Forms
  <2>3. /\ Tok("rh", h) \in Token /\ Tok("tc", t) \in Token /\ Tok("tf", t) \in Token
        /\ Tok("hic", HeatForm(h, t)) \in Token /\ Tok("hif", HeatForm(h, t)) \in Token
    BY <2>1, <2>2, TokenType DEF Fields
  <2>4. NoCross(s)
    <3>1. s \in Seq(Token) /\ Len(s) = 9
      BY <2>3, TokenType
    <3>2. \A i \in 1 .. 9 : s[i].form # "x"
      BY <2>1, <2>2 DEF Tok, Comma
    <3> QED BY <3>1, <3>2 DEF NoCross
  <2>5. Body(2) = s \o <<Cross>>
    BY DEF Body, Humids
  <2> HIDE DEF s
  <2>6. Front(Body(2)) = s
    BY <2>4, <2>5, FrontOfClosed DEF NoCross
  <2>7. ~ParseHumidity(s).done
    BY <2>4, NoCrossNoEnd DEF NoCross
  <2> QED BY <1>3, <2>6, <2>7 DEF Parse
<1> QED BY <1>2, <1>3

LEMMA Singles ==
    ASSUME NEW x \in Token, NEW y \in Token, NEW z \in Token
    PROVE  <<x>> \o <<y>> = <<x, y>> /\ <<x, y>> \o <<z>> = <<x, y, z>>
<1> DEFINE a == <<x>>
           b == <<y>>
           c == <<z>>
           ab == <<x, y>>
           abc == <<x, y, z>>
<1>1. /\ a \in Seq(Token) /\ Len(a) = 1 /\ a[1] = x
      /\ b \in Seq(Token) /\ Len(b) = 1 /\ b[1] = y
      /\ c \in Seq(Token) /\ Len(c) = 1 /\ c[1] = z
      /\ ab \in Seq(Token) /\ Len(ab) = 2 /\ ab[1] = x /\ ab[2] = y
      /\ abc \in Seq(Token) /\ Len(abc) = 3 /\ abc[1] = x /\ abc[2] = y /\ abc[3] = z
  OBVIOUS
<1> HIDE DEF a, b, c, ab, abc
<1>2. a \o b = ab
  <2>1. a \o b \in Seq(Token) /\ Len(a \o b) = 2 /\ (a \o b)[1] = x /\ (a \o b)[2] = y
    <3>1. /\ a \o b \in Seq(Token) /\ Len(a \o b) = Len(a) + Len(b)
          /\ \A i \in 1 .. Len(a) + Len(b) :
                (a \o b)[i] = IF i <= Len(a) THEN a[i] ELSE b[i - Len(a)]
      BY <1>1, ConcatProperties
    <3> QED BY <1>1, <3>1
  <2>2. \A i \in 1 .. 2 : (a \o b)[i] = ab[i]
    <3>1. \A i \in 1 .. 2 : i = 1 \/ i = 2
      OBVIOUS
    <3> QED BY <1>1, <2>1, <3>1
  <2> QED BY <1>1, <2>1, <2>2, SeqEqual
<1>3. ab \o c = abc
  <2>1. /\ ab \o c \in Seq(Token) /\ Len(ab \o c) = 3
        /\ (ab \o c)[1] = x /\ (ab \o c)[2] = y /\ (ab \o c)[3] = z
    <3>1. /\ ab \o c \in Seq(Token) /\ Len(ab \o c) = Len(ab) + Len(c)
          /\ \A i \in 1 .. Len(ab) + Len(c) :
                (ab \o c)[i] = IF i <= Len(ab) THEN ab[i] ELSE c[i - Len(ab)]
      BY <1>1, ConcatProperties
    <3> QED BY <1>1, <3>1
  <2>2. \A i \in 1 .. 3 : (ab \o c)[i] = abc[i]
    <3>1. \A i \in 1 .. 3 : i = 1 \/ i = 2 \/ i = 3
      OBVIOUS
    <3> QED BY <1>1, <2>1, <3>1
  <2> QED BY <1>1, <2>1, <2>2, SeqEqual
<1> QED BY <1>2, <1>3 DEF a, b, c, ab, abc

(* A composed message either keeps the parser for ever or comes out of it  *)
(* with every text in the variable it was meant for.                       *)
LEMMA MessageTakable ==
    ASSUME nmea \in [PositionFields -> NmeaValue], dht \in Driver,
           located => nmea.lat.form \in {"deg", "junk"} /\ nmea.lng.form \in {"deg", "junk"},
           ~located => nmea = Blank, located \in BOOLEAN,
           NEW kind \in Kinds, NEW cut \in BOOLEAN, cut => kind \in {1, 2}
    PROVE  Takable(Message(kind, cut))
<1>1. /\ Message(kind, cut).kind = kind
      /\ Message(kind, cut).body = IF cut THEN Front(Body(kind)) ELSE Body(kind)
  BY DEF Message
<1>2. CASE cut
  BY <1>1, <1>2, CutNeverEnds DEF Takable
<1>3. CASE ~cut
  <2>1. SUFFICES Parse(kind, Body(kind)).done =>
                    Faithful(kind, Body(kind), Parse(kind, Body(kind)).fields)
    BY <1>1, <1>3 DEF Takable
  <2>2. CASE kind = 1 /\ ~located
    <3>1. Body(1) = <<Comma, Comma, Cross>>
      <4>1. \A f \in PositionFields : Put(f, nmea[f].form) = <<>>
        BY <2>2 DEF Blank, Put
      <4>2. /\ Put("ns", nmea.ns.form) = <<>> /\ Put("lat", nmea.lat.form) = <<>>
            /\ Put("ew", nmea.ew.form) = <<>> /\ Put("lng", nmea.lng.form) = <<>>
            /\ Put("alt", nmea.alt.form) = <<>>
        BY <4>1 DEF PositionFields
      <4>3. Body(1) = (<<>> \o <<>>) \o <<Comma>> \o (<<>> \o <<>>) \o <<Comma>> \o <<>> \o <<Cross>>
        BY <4>2 DEF Body, Locats
      <4>4. Comma \in Token /\ Cross \in Token
        BY TokenType
      <4> HIDE DEF Body
      <4>5. (<<>> \o <<>>) \o <<Comma>> = <<Comma>>
        BY <4>4
      <4>6. <<Comma>> \o (<<>> \o <<>>) = <<Comma>>
        BY <4>4
      <4>7. <<Comma>> \o <<Comma>> = <<Comma, Comma>>
        BY <4>4, Singles
      <4>8. <<Comma, Comma>> \o <<>> = <<Comma, Comma>>
        BY <4>4
      <4>9. <<Comma, Comma>> \o <<Cross>> = <<Comma, Comma, Cross>>
        BY <4>4, Singles
      <4> QED BY <4>3, <4>5, <4>6, <4>7, <4>8, <4>9, Zenon
    <3> QED BY <2>2, <3>1, BlankNeverEnds DEF Parse
  <2>3. CASE kind = 1 /\ located
    <3>1. /\ \A f \in PositionFields : nmea[f].form \in Forms \cup {"empty"}
          /\ nmea.lat.form \notin {"empty", "comma"} /\ nmea.lng.form \notin {"empty", "comma"}
          /\ nmea.alt.form # "x"
      BY <2>3, SensorForms DEF NmeaValue, PositionFields
    <3>2. Faithful(1, Locats(nmea), ParsePosition(Locats(nmea)).fields)
      BY <3>1, LocatsTaken
    <3> QED BY <2>3, <3>2 DEF Parse, Body
  <2>4. CASE kind = 2
    <3>1. Parse(2, Body(2)) = ParseHumidity(Humids(dht.rh.form, dht.tc.form))
      BY DEF Parse, Body
    <3>2. Faithful(2, Body(2), ParseHumidity(Body(2)).fields)
      BY SensorForms, FixedFaithful DEF Body
    <3> QED BY <2>4, <3>1, <3>2 DEF Body
  <2>5. CASE kind = 3
    <3>1. Parse(3, Body(3)) = ParseDust(Dusts)
      BY DEF Parse, Body
    <3> QED BY <2>5, <3>1, FixedFaithful DEF Body
  <2>6. CASE kind = 4
    <3>1. Parse(4, Body(4)) = ParsePressure(GyPrs)
      BY DEF Parse, Body
    <3> QED BY <2>6, <3>1, FixedFaithful DEF Body
  <2> QED BY <2>2, <2>3, <2>4, <2>5, <2>6 DEF Kinds
<1> QED BY <1>2, <1>3

LEMMA InitParsable == Init => Parsable
<1> SUFFICES ASSUME Init PROVE Parsable
  OBVIOUS
<1>1. Len(air) = 0 /\ Len(outbox) = 0 /\ Len(stuck) = 0
  BY EmptyQueue DEF Init, TxInit, RxInit
<1>2. ~located /\ nmea = Blank
  BY DEF Init, TxInit
<1> QED BY <1>1, <1>2 DEF Parsable, StuckExplained

LEMMA StepParsable ==
    ASSUME TypeOK, Parsable, [Next]_vars
    PROVE  Parsable'
<1> USE DEF Parsable
<1>1. /\ outbox \in Seq(Packet) /\ air \in Seq(Packet)
      /\ Len(outbox) \in Nat /\ Len(air) \in Nat
  BY QueueType DEF TypeOK, TxTypeOK
<1>2. CASE DroneStep
  <2>1. StuckExplained'
    BY <1>2 DEF DroneStep, rxvars, StuckExplained
  <2>2. CASE UNCHANGED <<outbox, air, located, nmea>>
    BY <2>1, <2>2
  <2>3. CASE CallGPS
    <3>1. UNCHANGED <<outbox, air>>
      BY <2>3 DEF CallGPS
    <3>2. /\ located' => nmea'.lat.form \in {"deg", "junk"} /\ nmea'.lng.form \in {"deg", "junk"}
          /\ ~located' => nmea' = Blank
      <4>1. CASE UNCHANGED <<nmea, located>>
        BY <4>1
      <4>2. ASSUME NEW cut \in CutPoints, NEW fix \in BOOLEAN, NEW tail \in Tails(cut, fix),
                   nmea' = Located(Split(nmea, cut, fix, tail))
            PROVE  nmea'.lat.form \in {"deg", "junk"} /\ nmea'.lng.form \in {"deg", "junk"}
        BY <4>2, LocatedType DEF TypeOK, TxTypeOK
      <4> QED BY <2>3, <4>1, <4>2 DEF CallGPS
    <3> QED BY <2>1, <3>1, <3>2
  <2>4. CASE Compose
    <3>1. PICK long \in SUBSET {k \in Kinds : RadioCuts /\ MayBeLong(k)} :
             outbox' = [k \in Kinds |-> Message(k, k \in long)]
      BY <2>4 DEF Compose
    <3>2. ASSUME NEW k \in Kinds
          PROVE  Readable(Message(k, k \in long)) /\ Takable(Message(k, k \in long))
      <4> DEFINE m == Message(k, k \in long)
      <4>1. m.kind = k /\ m.located = located
        BY DEF Message
      <4>2. \/ m.cut
            \/ k = 1 /\ "empty" \in {nmea.lat.form, nmea.lng.form}
            \/ Parse(k, m.body).done
        <5>1. (k \in long) \in BOOLEAN
          OBVIOUS
        <5> QED BY <5>1, MessageType DEF TypeOK, TxTypeOK
      <4>3. Takable(m)
        <5>1. (k \in long) \in BOOLEAN /\ (k \in long => k \in {1, 2})
          BY DEF MayBeLong
        <5> QED BY <5>1, MessageTakable DEF TypeOK, TxTypeOK
      <4> HIDE DEF m
      <4>4. Readable(m)
        BY <4>1, <4>2 DEF Readable
      <4> QED BY <4>3, <4>4 DEF m
    <3>3. /\ Len(outbox') = 4
          /\ \A b \in 1 .. 4 : b \in Kinds /\ Readable(outbox'[b]) /\ Takable(outbox'[b])
      BY <3>1, <3>2 DEF Kinds
    <3>4. UNCHANGED <<nmea, located, air>>
      BY <2>4 DEF Compose
    <3> QED BY <2>1, <3>3, <3>4
  <2>5. CASE Send
    <3>1. outbox # <<>>
      BY <2>5 DEF Send, TypeOK, TxTypeOK
    <3>2. /\ 1 \in 1 .. Len(outbox) /\ Head(outbox) = outbox[1]
          /\ Len(Tail(outbox)) = Len(outbox) - 1
          /\ \A i \in 1 .. Len(Tail(outbox)) :
                Tail(outbox)[i] = outbox[i + 1] /\ i + 1 \in 1 .. Len(outbox)
      BY <1>1, <3>1, TailShifts
    <3>3. outbox' = Tail(outbox) /\ UNCHANGED <<nmea, located>>
      BY <2>5 DEF Send
    <3>4. \A b \in 1 .. Len(outbox') : Readable(outbox'[b]) /\ Takable(outbox'[b])
      BY <3>2, <3>3
    <3>5. \A a \in 1 .. Len(air') : Readable(air'[a]) /\ Takable(air'[a])
      <4>1. CASE UNCHANGED air
        BY <4>1
      <4>2. CASE air' = Append(air, Head(outbox))
        <5>1. /\ Len(air') = Len(air) + 1 /\ air'[Len(air) + 1] = outbox[1]
              /\ \A i \in 1 .. Len(air) : air'[i] = air[i]
          BY <1>1, <3>1, <3>2, <4>2, HeadTailProperties, AppendProperties
        <5>2. \A a \in 1 .. Len(air') : a \in 1 .. Len(air) \/ a = Len(air) + 1
          BY <1>1, <5>1, GrownPlaces
        <5> QED BY <3>2, <5>1, <5>2
      <4> QED BY <2>5, <4>1, <4>2 DEF Send, Transmit
    <3> QED BY <2>1, <3>3, <3>4, <3>5
  <2>6. CASE PowerCycle
    <3>1. Len(outbox') = 0 /\ ~located' /\ nmea' = Blank /\ air' = air
      BY <2>6, EmptyQueue DEF PowerCycle
    <3> QED BY <2>1, <3>1
  <2> QED BY <1>2, <2>2, <2>3, <2>4, <2>5, <2>6
          DEF DroneStep, TxNext, Loop, Setup, CallHumid, CallPresTemp
<1>3. CASE StationStep
  <2>1. UNCHANGED <<outbox, located, nmea>>
    BY <1>3 DEF StationStep, txvars
  <2>2. air' = air \/ Len(air') = 0 \/ (air # <<>> /\ air' = Tail(air))
    BY <1>3, EmptyQueue
       DEF StationStep, RxNext, Run, WifiUp, Idle, Receive, GetStuck, Parsing, Buttons,
           Connect, ConnectFails, Answered, AnswerBegins, Timeout, AfterHttpGet, Watchdog, Unplugged
  <2>3. air # <<>> => \A i \in 1 .. Len(Tail(air)) :
                         Tail(air)[i] = air[i + 1] /\ i + 1 \in 1 .. Len(air)
    BY <1>1, TailShifts
  <2>4. \A a \in 1 .. Len(air') : Readable(air'[a]) /\ Takable(air'[a])
    <3>1. CASE air' = air
      BY <3>1
    <3>2. CASE Len(air') = 0
      BY <3>2
    <3>3. CASE air # <<>> /\ air' = Tail(air)
      BY <2>3, <3>3
    <3> QED BY <2>2, <3>1, <3>2, <3>3
  <2>5. StuckExplained'
    <3>1. CASE GetStuck
      <4>1. air # <<>> /\ stuck' = <<Head(air)>> /\ ~Parse(Head(air).kind, Head(air).body).done
        BY <3>1 DEF GetStuck, Parsing
      <4>2. Head(air) = air[1] /\ 1 \in 1 .. Len(air)
        BY <1>1, <4>1, TailShifts
      <4>3. Head(air).cut \/ (Head(air).kind = 1 /\ ~Head(air).located)
        BY <4>1, <4>2 DEF Readable
      <4>4. Len(stuck') = 1 /\ stuck'[1] = Head(air)
        BY <4>1
      <4> QED BY <4>3, <4>4 DEF StuckExplained
    <3>2. CASE stuck' = <<>>
      <4>1. Len(stuck') = 0
        BY <3>2, EmptyQueue
      <4> QED BY <4>1 DEF StuckExplained
    <3>3. CASE stuck' = stuck
      BY <3>3 DEF StuckExplained
    <3> QED BY <1>3, <3>1, <3>2, <3>3
            DEF StationStep, RxNext, Run, WifiUp, Idle, Receive, Buttons, Connect,
                ConnectFails, Answered, AnswerBegins, Timeout, AfterHttpGet, Watchdog, Unplugged, Restart
  <2> QED BY <2>1, <2>4, <2>5
<1>4. CASE UNCHANGED vars
  BY <1>4 DEF vars, txvars, rxvars, StuckExplained
<1> QED BY <1>2, <1>3, <1>4 DEF Next

(* The endless do-while of the station's parser is only ever entered on a  *)
(* position sent before the drone's first GGA sentence or on a message the *)
(* radio cut: no reading of a sensor, no sentence cut short and no order   *)
(* of losses and restarts makes the drone compose another one.             *)
THEOREM OnlyExplainedHangs == Spec => []StuckExplained
<1>1. Init => TypeOK /\ Pages /\ Parsable
  BY InitType, InitParsable
<1>2. TypeOK /\ Pages /\ Parsable /\ [Next]_vars => TypeOK' /\ Pages' /\ Parsable'
  BY StepType, StepParsable
<1>3. Parsable => StuckExplained
  BY DEF Parsable
<1> QED BY <1>1, <1>2, <1>3, PTL DEF Spec

(* Only a completed parse gives the station new values. *)
LEMMA StepInPlace ==
    ASSUME TypeOK, Parsable, [Next]_vars,
           NEW k \in Kinds, groups'[k] # groups[k], groups'[k].from > 0
    PROVE  Head(air).kind = k /\ Faithful(k, Head(air).body, groups'[k].fields)
<1>1. air \in Seq(Packet) /\ groups \in [Kinds -> Group]
  BY DEF TypeOK, TxTypeOK
<1>2. CASE Receive
  <2> DEFINE m == Head(air)
             g == Parse(m.kind, m.body).fields
  <2>1. air # <<>> /\ Parse(m.kind, m.body).done
    BY <1>2 DEF Receive, Parsing
  <2>2. m = air[1] /\ 1 \in 1 .. Len(air) /\ m \in Packet
    BY <1>1, <2>1, TailShifts, HeadTailProperties
  <2>3. Faithful(m.kind, m.body, g) /\ m.kind \in Kinds
    BY <2>1, <2>2 DEF Parsable, Takable, Packet
  <2>4. groups' = [groups EXCEPT ![m.kind] = [from |-> m.seq, fields |-> g]]
    BY <1>2 DEF Receive
  <2> HIDE DEF m, g
  <2>5. k = m.kind /\ groups'[k].fields = g
    BY <1>1, <2>3, <2>4
  <2> QED BY <2>3, <2>5 DEF m
<1>3. CASE GetStuck
  <2>1. Head(air).kind \in Kinds
    BY <1>1, <1>3, HeadTailProperties DEF GetStuck, Parsing, Packet
  <2>2. groups' = [groups EXCEPT ![Head(air).kind] = NoGroup]
    BY <1>3 DEF GetStuck
  <2>3. groups'[k] = groups[k] \/ groups'[k].from = 0
    BY <1>1, <2>1, <2>2 DEF NoGroup
  <2> QED BY <2>3
<1>4. CASE groups' = NoGroups
  BY <1>4 DEF NoGroups, NoGroup
<1>5. CASE groups' = groups
  BY <1>5
<1>6. CASE DroneStep \/ UNCHANGED vars
  BY <1>5, <1>6 DEF DroneStep, rxvars, vars
<1>7. CASE StationStep
  BY <1>2, <1>3, <1>4, <1>5, <1>7
     DEF StationStep, RxNext, Run, WifiUp, Idle, Buttons, Connect, ConnectFails, AnswerBegins,
         Answered, Timeout, AfterHttpGet, Watchdog, Unplugged, Restart
<1> QED BY <1>6, <1>7 DEF Next

(* Every variable of the station that gets a new value gets the whole of   *)
(* its own field of the message received, and nothing of another's,        *)
(* whatever is lost, cut off or forgotten on the way; an altitude keeps    *)
(* its last character.                                                     *)
THEOREM FieldsStayInPlace == Spec => FieldsInPlace
<1>1. Init => TypeOK /\ Pages /\ Parsable
  BY InitType, InitParsable
<1>2. TypeOK /\ Pages /\ Parsable /\ [Next]_vars => TypeOK' /\ Pages' /\ Parsable'
  BY StepType, StepParsable
<1>3. TypeOK /\ Parsable /\ [Next]_vars =>
         [\A k \in Kinds : groups'[k] # groups[k] /\ groups'[k].from > 0 =>
             Head(air).kind = k /\ Faithful(k, Head(air).body, groups'[k].fields)]_vars
  BY StepInPlace
<1> QED BY <1>1, <1>2, <1>3, PTL DEF Spec, FieldsInPlace

-----------------------------------------------------------------------------
(* The drone alone: what one message takes from one sensor belongs         *)
(* together.  PairedFix needs that no raw coordinate is left in nmea[]     *)
(* between two calls, HumidTogether the object's type.                     *)

TxInv ==
    /\ nmea \in [PositionFields -> NmeaValue]
    /\ dht \in Driver
    /\ PairedFix
    /\ HumidTogether

LEMMA LocatedPaired ==
    ASSUME nmea \in [PositionFields -> NmeaValue],
           NEW cut \in CutPoints, NEW fix \in BOOLEAN, NEW tail \in Tails(cut, fix)
    PROVE  LET s == Located(Split(nmea, cut, fix, tail))
           IN  /\ s.lat.form = "deg" => s.lat.lag = 0 /\ s.ns.lag = 0
               /\ s.lng.form = "deg" =>
                     s.lng.lag = 0 /\ s.ew.lag = 0 /\ s.lat.form = "deg"
<1> DEFINE s == Split(nmea, cut, fix, tail)
<1>1. cut \in Nat
  BY TransmitterAssumption
<1>2. tail # "raw"
  BY DEF Tails
<1>3. /\ "lat" \in PositionFields /\ "lng" \in PositionFields
      /\ "ns" \in PositionFields /\ "ew" \in PositionFields
      /\ Index["lat"] = 1 /\ Index["ns"] = 2 /\ Index["lng"] = 3 /\ Index["ew"] = 4
  BY DEF PositionFields, Index
<1>4. ASSUME NEW f \in PositionFields
      PROVE  s[f] = CASE Index[f] < cut -> Whole(f, fix)
                      [] Index[f] = cut -> New(tail)
                      [] Index[f] > cut -> Older(nmea[f])
  BY DEF Split
<1>5. ASSUME NEW f \in PositionFields, Index[f] \in Nat, s[f].form = "raw"
      PROVE  Index[f] < cut /\ fix
  <2>1. CASE Index[f] < cut
    <3>1. s[f] = Whole(f, fix)
      BY <1>1, <1>4, <1>5, <2>1
    <3> QED BY <1>5, <2>1, <3>1 DEF Whole, New
  <2>2. CASE Index[f] = cut
    <3>1. s[f] = New(tail)
      BY <1>1, <1>4, <1>5, <2>2
    <3> QED BY <1>2, <1>5, <3>1 DEF New
  <2>3. CASE Index[f] > cut
    <3>1. s[f] = Older(nmea[f])
      BY <1>1, <1>4, <1>5, <2>3
    <3>2. Older(nmea[f]).form # "raw"
      BY DEF Older, NmeaValue
    <3> QED BY <1>5, <3>1, <3>2
  <2> QED BY <1>1, <1>5, <2>1, <2>2, <2>3
<1>6. ASSUME NEW f \in PositionFields, Index[f] \in Nat, Index[f] <= cut
      PROVE  s[f].lag = 0
  <2>1. CASE Index[f] < cut
    <3>1. s[f] = Whole(f, fix)
      BY <1>1, <1>4, <1>6, <2>1
    <3> QED BY <3>1 DEF Whole, New
  <2>2. CASE Index[f] = cut
    <3>1. s[f] = New(tail)
      BY <1>1, <1>4, <1>6, <2>2
    <3> QED BY <3>1 DEF New
  <2> QED BY <1>1, <1>6, <2>1, <2>2
<1>7. ASSUME fix, 1 < cut PROVE s["lat"].form = "raw"
  <2>1. ASSUME NEW f \in PositionFields, Index[f] \in Nat, Index[f] < cut
        PROVE  s[f] = Whole(f, fix)
    BY <1>1, <1>4, <2>1
  <2> HIDE DEF s
  <2>2. s["lat"] = Whole("lat", fix)
    <3>1. "lat" \in PositionFields /\ Index["lat"] \in Nat /\ Index["lat"] < cut
      BY <1>3, <1>7
    <3> QED BY <2>1, <3>1, Zenon
  <2>3. ASSUME NEW f \in {"lat", "lng"} PROVE Whole(f, fix) = New("raw")
    BY <1>7 DEF Whole
  <2> QED BY <2>2, <2>3 DEF New
<1>8. \A f \in PositionFields : s[f] = [form |-> s[f].form, lag |-> s[f].lag]
  <2>1. ASSUME NEW f \in PositionFields
        PROVE  Older(nmea[f]) = [form |-> Older(nmea[f]).form, lag |-> Older(nmea[f]).lag]
    BY DEF Older, NmeaValue
  <2>2. ASSUME NEW f \in PositionFields
        PROVE  Whole(f, fix) = [form |-> Whole(f, fix).form, lag |-> Whole(f, fix).lag]
    BY DEF Whole, New
  <2>3. New(tail) = [form |-> New(tail).form, lag |-> New(tail).lag]
    BY DEF New
  <2>4. \A f \in PositionFields : Index[f] \in Nat
    BY DEF PositionFields, Index
  <2>5. ASSUME NEW f \in PositionFields
        PROVE  s[f] = Whole(f, fix) \/ s[f] = New(tail) \/ s[f] = Older(nmea[f])
    <3>1. Index[f] \in Nat
      BY <2>4
    <3> QED BY <1>1, <1>4, <3>1
  <2> QED BY <2>1, <2>2, <2>3, <2>5
<1>9. DOMAIN s = PositionFields
  BY DEF Split
<1> HIDE DEF s
<1>10. ASSUME NEW v, v = [form |-> v.form, lag |-> v.lag]
       PROVE  /\ Convert(v).form = "deg" <=> v.form = "raw"
              /\ Convert(v).lag = v.lag
  BY <1>10 DEF Convert
<1>11. /\ Located(s).lat = Convert(s["lat"]) /\ Located(s).lng = Convert(s["lng"])
       /\ Located(s).ns = s["ns"] /\ Located(s).ew = s["ew"]
  BY <1>3, <1>9 DEF Located
<1>12. ASSUME s["lat"].form = "raw" PROVE s["lat"].lag = 0 /\ s["ns"].lag = 0
  <2>1. 1 < cut
    BY <1>3, <1>5, <1>12
  <2> QED BY <1>1, <1>3, <1>6, <2>1
<1>13. ASSUME s["lng"].form = "raw"
       PROVE  s["lng"].lag = 0 /\ s["ew"].lag = 0 /\ s["lat"].form = "raw"
  <2>1. 3 < cut /\ fix
    BY <1>3, <1>5, <1>13
  <2> QED BY <1>1, <1>3, <1>6, <1>7, <2>1
<1>14. ASSUME NEW f \in PositionFields
       PROVE  /\ Convert(s[f]).form = "deg" <=> s[f].form = "raw"
              /\ Convert(s[f]).lag = s[f].lag
  <2>1. s[f] = [form |-> s[f].form, lag |-> s[f].lag]
    BY <1>8
  <2> QED BY <1>10, <2>1
<1>15. /\ Convert(s["lat"]).form = "deg" <=> s["lat"].form = "raw"
       /\ Convert(s["lat"]).lag = s["lat"].lag
       /\ Convert(s["lng"]).form = "deg" <=> s["lng"].form = "raw"
       /\ Convert(s["lng"]).lag = s["lng"].lag
  BY <1>3, <1>14
<1>16. /\ Located(s).lat.form = "deg" <=> s["lat"].form = "raw"
       /\ Located(s).lat.lag = s["lat"].lag
       /\ Located(s).lng.form = "deg" <=> s["lng"].form = "raw"
       /\ Located(s).lng.lag = s["lng"].lag
  BY ONLY <1>11, <1>15
<1> QED BY <1>11, <1>12, <1>13, <1>16 DEF s

LEMMA HumidPair ==
    ASSUME NEW d \in Driver, NEW due1 \in BOOLEAN, NEW due2 \in BOOLEAN,
           NEW r1 \in ReadResults(d, due1), NEW r2 \in ReadResults(SetHumidity(r1), due2)
    PROVE  LET n == SetTemperature(r2)
           IN  n \in Driver /\ ~n.first /\ n.tc.lag = 0 /\ n.rh.lag <= 1
<1> DEFINE h == SetHumidity(r1)
<1>1. r1.d \in Driver /\ h \in Driver
  BY DriverLemma
<1>2. h.rh.lag = 0
  BY <1>1 DEF SetHumidity, Decoded, Driver
<1> HIDE DEF h
<1>3. r2 \in ReadResults(h, due2)
  BY DEF h
<1>4. r2.d \in Driver /\ ~r2.d.first
  BY <1>1, <1>3, DriverLemma
<1>5. r2.d.rh.lag <= 1
  <2>1. CASE r2.d = h
    BY <1>2, <2>1
  <2>2. CASE \E o \in Outcomes : r2.d = Transfer(h, o)
    BY <1>1, <1>2, <2>2 DEF Transfer, Older, Driver, Value, MaxLag
  <2>3. r2.d = h \/ \E o \in Outcomes : r2.d = Transfer(h, o)
    BY <1>3 DEF ReadResults
  <2> QED BY <2>1, <2>2, <2>3
<1>6. LET n == SetTemperature(r2) IN n.first = r2.d.first /\ n.tc.lag = 0 /\ n.rh = r2.d.rh
  BY <1>4 DEF SetTemperature, Decoded, Driver
<1>7. SetTemperature(r2) \in Driver
  BY <1>1, <1>3, DriverLemma
<1> QED BY <1>4, <1>5, <1>6, <1>7

LEMMA PowerOnPaired == nmea = Blank /\ dht = PowerOn => TxInv
<1>1. Blank \in [PositionFields -> NmeaValue] /\ PowerOn \in Driver
  BY DEF Blank, NmeaValue, PowerOn, Zero, Driver, Value, MaxLag
<1>2. Blank.lat.form = "empty" /\ Blank.lng.form = "empty" /\ PowerOn.first
  BY DEF Blank, PositionFields, PowerOn
<1> QED BY <1>1, <1>2 DEF TxInv, PairedFix, HumidTogether

LEMMA StepTxInv == TxInv /\ [TxNext \/ Taken]_<<txvars, air>> => TxInv'
<1> SUFFICES ASSUME TxInv, [TxNext \/ Taken]_<<txvars, air>> PROVE TxInv'
  OBVIOUS
<1>1. CASE CallGPS
  <2>1. CASE UNCHANGED nmea
    BY <1>1, <2>1 DEF CallGPS, TxInv, PairedFix, HumidTogether
  <2>2. ASSUME NEW cut \in CutPoints, NEW fix \in BOOLEAN, NEW tail \in Tails(cut, fix),
               nmea' = Located(Split(nmea, cut, fix, tail))
        PROVE  TxInv'
    BY <1>1, <2>2, LocatedType, LocatedPaired DEF CallGPS, TxInv, PairedFix, HumidTogether
  <2> QED BY <1>1, <2>1, <2>2 DEF CallGPS
<1>2. CASE CallHumid
  <2>1. PICK due1 \in BOOLEAN, due2 \in BOOLEAN : \E r1 \in ReadResults(dht, due1) :
           \E r2 \in ReadResults(SetHumidity(r1), due2 /\ ~r1.fresh) :
              dht' = SetTemperature(r2)
    BY <1>2 DEF CallHumid
  <2>2. PICK r1 \in ReadResults(dht, due1) :
           \E r2 \in ReadResults(SetHumidity(r1), due2 /\ ~r1.fresh) :
              dht' = SetTemperature(r2)
    BY <2>1
  <2>3. PICK r2 \in ReadResults(SetHumidity(r1), due2 /\ ~r1.fresh) :
           dht' = SetTemperature(r2)
    BY <2>2
  <2>4. (due2 /\ ~r1.fresh) \in BOOLEAN
    BY Zenon
  <2>5. dht' \in Driver /\ dht'.tc.lag = 0 /\ dht'.rh.lag <= 1
    BY <2>3, <2>4, HumidPair DEF TxInv
  <2> QED BY <1>2, <2>5 DEF CallHumid, TxInv, PairedFix, HumidTogether
<1>3. CASE PowerCycle
  <2>1. nmea' = Blank /\ dht' = PowerOn
    BY <1>3 DEF PowerCycle
  <2>2. Blank \in [PositionFields -> NmeaValue] /\ PowerOn \in Driver
    BY DEF Blank, NmeaValue, PowerOn, Zero, Driver, Value, MaxLag
  <2>3. Blank.lat.form = "empty" /\ Blank.lng.form = "empty" /\ PowerOn.first
    BY DEF Blank, PositionFields, PowerOn
  <2> QED BY <2>1, <2>2, <2>3 DEF TxInv, PairedFix, HumidTogether
<1>4. CASE UNCHANGED <<nmea, dht>>
  BY <1>4 DEF TxInv, PairedFix, HumidTogether
<1>5. Setup \/ CallPresTemp \/ Compose \/ Send \/ Taken => UNCHANGED <<nmea, dht>>
  BY DEF Setup, CallPresTemp, Compose, Send, Taken, txvars
<1>6. UNCHANGED <<txvars, air>> => UNCHANGED <<nmea, dht>>
  BY DEF txvars
<1> QED BY <1>1, <1>2, <1>3, <1>4, <1>5, <1>6 DEF TxNext, Loop

LEMMA TxSpecInv == TxSpec => []TxInv
<1>1. TxInit => TxInv
  BY PowerOnPaired DEF TxInit
<1> QED BY <1>1, StepTxInv, PTL DEF TxSpec

(* The drone alone, its station emptying the FIFO at any moment, keeps the *)
(* types of its variables, and the FIFO its depth.                         *)
THEOREM DroneTypeCorrect == TxSpec => []TxTypeOK
<1>1. TxInit => TxTypeOK
  <2> SUFFICES ASSUME TxInit PROVE TxTypeOK
    OBVIOUS
  <2>1. Blank \in [PositionFields -> NmeaValue]
    BY DEF Blank, NmeaValue, MaxLag
  <2>2. PowerOn \in Driver
    BY DEF PowerOn, Zero, Driver, Value, Outcomes, MaxLag
  <2>3. air \in Seq(Packet) /\ Len(air) <= Depth /\ outbox \in Seq(Packet) /\ outbox = <<>>
    BY EmptyQueue DEF TxInit
  <2> QED BY <2>1, <2>2, <2>3 DEF TxInit, TxTypeOK
<1>2. TxTypeOK /\ [TxNext \/ Taken]_<<txvars, air>> => TxTypeOK'
  <2> SUFFICES ASSUME TxTypeOK, [TxNext \/ Taken]_<<txvars, air>> PROVE TxTypeOK'
    OBVIOUS
  <2>1. CASE TxNext
    BY <2>1, DroneType
  <2>2. CASE Taken
    <3>1. air' = Tail(air) /\ air # <<>> /\ UNCHANGED txvars
      BY <2>2 DEF Taken
    <3>2. air \in Seq(Packet) /\ Len(air) <= Depth
      BY DEF TxTypeOK
    <3>3. air' \in Seq(Packet) /\ Len(air') = Len(air) - 1
      <4> DEFINE rest == Tail(air)
      <4>1. rest \in Seq(Packet) /\ Len(rest) = Len(air) - 1
        BY <3>1, <3>2, HeadTailProperties
      <4>2. air' = rest
        BY <3>1
      <4> HIDE DEF rest
      <4> QED BY <4>1, <4>2, Zenon
    <3>4. Len(air) \in Nat
      BY <3>2, LenProperties, Zenon
    <3>5. Len(air') <= Depth
      BY <3>2, <3>3, <3>4, DepthAssumption
    <3> QED BY <3>1, <3>3, <3>5 DEF txvars, TxTypeOK
  <2>3. CASE UNCHANGED <<txvars, air>>
    BY <2>3 DEF txvars, TxTypeOK
  <2> QED BY <2>1, <2>2, <2>3
<1> QED BY <1>1, <1>2, PTL DEF TxSpec

(* A converted coordinate is of the newest sentence and goes with the      *)
(* hemisphere of the same sentence, wherever sentences are cut.            *)
THEOREM PositionsArePaired == TxSpec => []PairedFix
<1>1. TxInv => PairedFix
  BY DEF TxInv
<1> QED BY TxSpecInv, <1>1, PTL

(* Humidity and temperature are at most one transfer apart.                *)
THEOREM HumidityGoesWithTemperature == TxSpec => []HumidTogether
<1>1. TxInv => HumidTogether
  BY DEF TxInv
<1> QED BY TxSpecInv, <1>1, PTL
=============================================================================
