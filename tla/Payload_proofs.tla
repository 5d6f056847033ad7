--------------------------- MODULE Payload_proofs ---------------------------
(***************************************************************************)
(* Facts about the messages that hold for messages of any length: the      *)
(* parser's loops stop where a delimiter is, its fields are texts, and it  *)
(* finishes on what the drone's loop() composes.                           *)
(***************************************************************************)
EXTENDS Payload, SequenceTheorems, WellFoundedInduction, TLAPS

LEMMA MinProperties ==
    ASSUME NEW S \in SUBSET Nat, S # {}
    PROVE  Min(S) \in S /\ \A n \in S : Min(S) <= n
<1>1. PICK x \in S : \A y \in S : ~ (<<y, x>> \in OpToRel(<, Nat))
  BY NatLessThanWellFounded, WFMin
<1>2. ASSUME NEW y \in S PROVE ~(y < x)
  <2>1. <<y, x>> \notin OpToRel(<, Nat)
    BY <1>1
  <2>2. <<y, x>> \in Nat \X Nat
    OBVIOUS
  <2>3. OpToRel(<, Nat) = {ss \in Nat \X Nat : ss[1] < ss[2]}
    BY Zenon DEF OpToRel
  <2> QED BY <2>1, <2>2, <2>3
<1>3. \A y \in S : x <= y
  BY <1>2
<1> QED BY <1>3 DEF Min

(* A do-while loop of the parser stops at the first delimiter behind its   *)
(* starting point, or never.                                               *)
LEMMA NextDelimProperties ==
    ASSUME NEW b \in Seq(Token), NEW i \in Nat, NEW c
    PROVE  LET n == NextDelim(b, i, c)
           IN  /\ n \in 1 .. Len(b) + 1
               /\ n <= Len(b) => n > i /\ At(b, n, c)
               /\ \A k \in i + 1 .. Len(b) : At(b, k, c) => n <= k
<1> DEFINE S == {k \in i + 1 .. Len(b) : At(b, k, c)} \cup {Len(b) + 1}
<1>1. Len(b) \in Nat
  OBVIOUS
<1>2. S \in SUBSET Nat /\ S # {}
  BY <1>1
<1>3. NextDelim(b, i, c) = Min(S)
  BY DEF NextDelim
<1>4. Min(S) \in S /\ \A n \in S : Min(S) <= n
  BY <1>2, MinProperties
<1> HIDE DEF S
<1>5. \A n \in S : n \in 1 .. Len(b) + 1 /\ (n <= Len(b) => n > i /\ At(b, n, c))
  BY <1>1 DEF S
<1>6. \A k \in i + 1 .. Len(b) : At(b, k, c) => k \in S
  BY DEF S
<1> QED BY <1>3, <1>4, <1>5, <1>6

LEMMA FieldType ==
    ASSUME NEW b \in Seq(Token), NEW from \in Nat \ {0}, NEW stop \in 1 .. Len(b) + 1
    PROVE  Field(b, from, stop) \in Seq(Token)
<1>1. \A i \in from .. stop - 1 : b[i] \in Token
  OBVIOUS
<1> QED BY <1>1, SubSeqProperties DEF Field

LEMMA TokenType ==
    /\ \A f \in Fields, form \in Forms : Tok(f, form) \in Token
    /\ Comma \in Token /\ Cross \in Token
    /\ \A t \in Token : LastChar(t) \in Token
<1>1. \A f \in Fields, form \in Forms : Tok(f, form) \in Token
  BY DEF Tok, Token
<1>2. Comma \in Token /\ Cross \in Token
  BY DEF Comma, Cross, Tok, Token, Fields, Forms
<1>3. \A t \in Token : LastChar(t) \in Token
  BY DEF LastChar, Token, Forms
<1> QED BY <1>1, <1>2, <1>3

(* The fields of a message the parser gets through are texts.              *)
LEMMA ParseType ==
    ASSUME NEW kind \in Kinds, NEW b \in Seq(Token), Parse(kind, b).done
    PROVE  Parse(kind, b).fields \in Seq(Seq(Token))
<1> DEFINE ends == 1 .. Len(b) + 1
           p == NextDelim(b, 1, "comma")
           q == NextDelim(b, p + 1, "comma")
<1>1. Len(b) \in Nat
  OBVIOUS
<1>2. p \in ends
  BY NextDelimProperties
<1> HIDE DEF p
<1>3. p + 1 \in Nat \ {0} /\ 1 \in Nat \ {0}
  BY <1>1, <1>2
<1>4. q \in ends
  BY <1>3, NextDelimProperties
<1> HIDE DEF q
<1>5. q + 1 \in Nat \ {0}
  BY <1>1, <1>4
<1>6. Field(b, 1, p) \in Seq(Token) /\ Field(b, p + 1, q) \in Seq(Token)
  BY <1>2, <1>3, <1>4, FieldType
<1>7. CASE kind = 1
  <2> DEFINE none == q + 1 <= Len(b) /\ At(b, q + 1, "x")
             e == NextDelim(b, q + 1, "x")
             r == IF none THEN q + 1 ELSE e
             alt == IF none \/ r > Len(b) THEN AltitudeZero ELSE <<LastChar(b[r - 1])>>
  <2>1. AltitudeZero \in Seq(Token)
    <3>1. Tok("none", "digit") \in Token
      BY TokenType DEF Fields, Forms
    <3> QED BY <3>1 DEF AltitudeZero
  <2>2. e \in ends /\ (e <= Len(b) => e > q + 1)
    BY <1>5, NextDelimProperties
  <2> HIDE DEF e
  <2>3. ASSUME ~(none \/ r > Len(b)) PROVE LastChar(b[r - 1]) \in Token
    <3>1. r - 1 \in 1 .. Len(b)
      BY <1>1, <1>5, <2>2, <2>3
    <3>2. b[r - 1] \in Token
      BY <3>1
    <3> QED BY <3>2, TokenType
  <2>4. alt \in Seq(Token)
    BY <2>1, <2>3
  <2>5. Parse(kind, b).fields = <<Field(b, 1, p), Field(b, p + 1, q), alt>>
    <3>1. Parse(kind, b) = ParsePosition(b)
      BY <1>7 DEF Parse
    <3>2. ParsePosition(b).fields = <<Field(b, 1, p), Field(b, p + 1, q), alt>>
      BY Zenon DEF ParsePosition, Parsed, p, q, e
    <3> QED BY <3>1, <3>2
  <2> HIDE DEF alt
  <2> QED BY <1>6, <2>4, <2>5
<1>8. CASE kind = 2
  <2> DEFINE r == NextDelim(b, q + 1, "comma")
             s == NextDelim(b, r + 1, "comma")
             t == NextDelim(b, s + 1, "x")
  <2>1. r \in ends
    BY <1>5, NextDelimProperties
  <2> HIDE DEF r
  <2>2. r + 1 \in Nat \ {0}
    BY <1>1, <2>1
  <2>3. s \in ends
    BY <2>2, NextDelimProperties
  <2> HIDE DEF s
  <2>4. s + 1 \in Nat \ {0}
    BY <1>1, <2>3
  <2>5. t \in ends
    BY <2>4, NextDelimProperties
  <2> HIDE DEF t
  <2>6. /\ Field(b, q + 1, r) \in Seq(Token) /\ Field(b, r + 1, s) \in Seq(Token)
        /\ Field(b, s + 1, t) \in Seq(Token)
    BY <1>5, <2>1, <2>2, <2>3, <2>4, <2>5, FieldType
  <2>7. Parse(kind, b).fields = <<Field(b, 1, p), Field(b, p + 1, q), Field(b, q + 1, r),
                                  Field(b, r + 1, s), Field(b, s + 1, t)>>
    <3>1. Parse(kind, b) = ParseHumidity(b)
      BY <1>8 DEF Parse
    <3>2. ParseHumidity(b).fields = <<Field(b, 1, p), Field(b, p + 1, q), Field(b, q + 1, r),
                                  Field(b, r + 1, s), Field(b, s + 1, t)>>
      BY Zenon DEF ParseHumidity, Parsed, p, q, r, s, t
    <3> QED BY <3>1, <3>2
  <2> QED BY <1>6, <2>6, <2>7
<1>9. CASE kind = 3
  <2> DEFINE r == NextDelim(b, q + 1, "x")
  <2>1. r \in ends
    BY <1>5, NextDelimProperties
  <2> HIDE DEF r
  <2>2. Field(b, q + 1, r) \in Seq(Token)
    BY <1>5, <2>1, FieldType
  <2>3. Parse(kind, b).fields = <<Field(b, 1, p), Field(b, p + 1, q), Field(b, q + 1, r)>>
    <3>1. Parse(kind, b) = ParseDust(b)
      BY <1>9 DEF Parse
    <3>2. ParseDust(b).fields = <<Field(b, 1, p), Field(b, p + 1, q), Field(b, q + 1, r)>>
      BY Zenon DEF ParseDust, Parsed, p, q, r
    <3> QED BY <3>1, <3>2
  <2> QED BY <1>6, <2>2, <2>3
<1>10. CASE kind = 4
  <2> DEFINE r == NextDelim(b, p + 1, "x")
  <2>1. r \in ends
    BY <1>3, NextDelimProperties
  <2> HIDE DEF r
  <2>2. Field(b, p + 1, r) \in Seq(Token)
    BY <1>3, <2>1, FieldType
  <2>3. Parse(kind, b).fields = <<Field(b, 1, p), Field(b, p + 1, r)>>
    <3>1. Parse(kind, b) = ParsePressure(b)
      BY <1>10 DEF Parse
    <3>2. ParsePressure(b).fields = <<Field(b, 1, p), Field(b, p + 1, r)>>
      BY Zenon DEF ParsePressure, Parsed, p, r
    <3> QED BY <3>1, <3>2
  <2> QED BY <1>6, <2>2, <2>3
<1> QED BY <1>7, <1>8, <1>9, <1>10 DEF Kinds

-----------------------------------------------------------------------------
(* What the drone composes, the station can take apart.                    *)

(* A position gets through the parser when it has a comma behind its first *)
(* token, another further on and an x at its end, whatever other commas    *)
(* are in it.                                                              *)
LEMMA PositionDone ==
    ASSUME NEW b \in Seq(Token), NEW i \in Nat, NEW k \in Nat,
           1 < i, i + 1 < k, k < Len(b),
           At(b, i, "comma"), At(b, k, "comma"), At(b, Len(b), "x")
    PROVE  ParsePosition(b).done
<1> DEFINE p == NextDelim(b, 1, "comma")
           q == NextDelim(b, p + 1, "comma")
           none == q + 1 <= Len(b) /\ At(b, q + 1, "x")
           e == NextDelim(b, q + 1, "x")
           r == IF none THEN q + 1 ELSE e
<1>1. Len(b) \in Nat
  OBVIOUS
<1>2. p \in 1 .. Len(b) + 1 /\ p <= i
  <2>1. i \in 1 + 1 .. Len(b)
    BY <1>1
  <2> QED BY <2>1, NextDelimProperties
<1> HIDE DEF p
<1>3. q \in 1 .. Len(b) + 1 /\ q <= k
  <2>1. p + 1 \in Nat /\ k \in (p + 1) + 1 .. Len(b)
    BY <1>1, <1>2
  <2> QED BY <2>1, NextDelimProperties
<1> HIDE DEF q
<1>4. ASSUME ~none PROVE e <= Len(b)
  <2>1. q + 1 \in Nat /\ Len(b) \in (q + 1) + 1 .. Len(b)
    BY <1>1, <1>3, <1>4
  <2> QED BY <2>1, NextDelimProperties
<1> HIDE DEF e
<1>5. r <= Len(b)
  BY <1>4
<1>6. ParsePosition(b).done <=> r <= Len(b)
  BY Zenon DEF ParsePosition, Parsed, p, q, e
<1> QED BY <1>5, <1>6

LEMMA InFirst ==
    ASSUME NEW s \in Seq(Token), NEW t \in Seq(Token), NEW i \in 1 .. Len(s)
    PROVE  (s \o t)[i] = s[i]
<1>1. i \in 1 .. Len(s) + Len(t)
  OBVIOUS
<1> QED BY <1>1, ConcatProperties

LEMMA AddOne ==
    ASSUME NEW s \in Seq(Token), NEW t \in Token
    PROVE  /\ s \o <<t>> \in Seq(Token)
           /\ Len(s \o <<t>>) = Len(s) + 1
           /\ (s \o <<t>>)[Len(s) + 1] = t
           /\ \A i \in 1 .. Len(s) : (s \o <<t>>)[i] = s[i]
<1>1. s \o <<t>> = Append(s, t)
  BY AppendIsConcat
<1> QED BY <1>1, AppendProperties

LEMMA ConcatAt ==
    ASSUME NEW s \in Seq(Token), NEW t \in Seq(Token)
    PROVE  /\ s \o t \in Seq(Token) /\ Len(s \o t) = Len(s) + Len(t)
           /\ \A i \in 1 .. Len(s) : (s \o t)[i] = s[i]
           /\ \A i \in 1 .. Len(t) : (s \o t)[Len(s) + i] = t[i]
<1>1. Len(s) \in Nat /\ Len(t) \in Nat
  BY LenProperties
<1>2. ASSUME NEW i \in 1 .. Len(t)
      PROVE  (s \o t)[Len(s) + i] = t[i]
  <2>1. Len(s) + i \in 1 .. Len(s) + Len(t) /\ ~(Len(s) + i <= Len(s))
    BY <1>1
  <2>2. (Len(s) + i) - Len(s) = i
    BY <1>1
  <2> QED BY <2>1, <2>2, ConcatProperties
<1> QED BY <1>2, InFirst, ConcatProperties

(* Where the tokens of a position are.                                     *)
LEMMA PositionLayout ==
    ASSUME NEW A \in Seq(Token), NEW B \in Seq(Token), NEW C \in Seq(Token)
    PROVE  LET b == A \o <<Comma>> \o B \o <<Comma>> \o C \o <<Cross>>
               p == Len(A) + 1
               q == p + Len(B) + 1
           IN  /\ b \in Seq(Token) /\ Len(b) = q + Len(C) + 1
               /\ \A i \in 1 .. Len(A) : b[i] = A[i]
               /\ b[p] = Comma
               /\ \A i \in 1 .. Len(B) : b[p + i] = B[i]
               /\ b[q] = Comma
               /\ \A i \in 1 .. Len(C) : b[q + i] = C[i]
               /\ b[Len(b)] = Cross
<1> DEFINE s1 == A \o <<Comma>>
           s2 == s1 \o B
           s3 == s2 \o <<Comma>>
           s4 == s3 \o C
           b  == s4 \o <<Cross>>
           p  == Len(A) + 1
           q  == p + Len(B) + 1
<1>1. Len(A) \in Nat /\ Len(B) \in Nat /\ Len(C) \in Nat /\ p \in Nat /\ q \in Nat
  BY LenProperties
<1>2. /\ s1 \in Seq(Token) /\ Len(s1) = p /\ s1[p] = Comma
      /\ \A i \in 1 .. Len(A) : s1[i] = A[i]
  BY TokenType, AddOne
<1> HIDE DEF s1
<1>3. /\ s2 \in Seq(Token) /\ Len(s2) = p + Len(B)
      /\ \A i \in 1 .. p : s2[i] = s1[i]
      /\ \A i \in 1 .. Len(B) : s2[p + i] = B[i]
  <2>1. /\ s2 \in Seq(Token) /\ Len(s2) = Len(s1) + Len(B)
        /\ \A i \in 1 .. Len(s1) : s2[i] = s1[i]
        /\ \A i \in 1 .. Len(B) : s2[Len(s1) + i] = B[i]
    BY <1>2, ConcatAt
  <2> QED BY <1>2, <2>1
<1> HIDE DEF s2
<1>4. /\ s3 \in Seq(Token) /\ Len(s3) = q /\ s3[q] = Comma
      /\ \A i \in 1 .. p + Len(B) : s3[i] = s2[i]
  <2>1. /\ s3 \in Seq(Token) /\ Len(s3) = Len(s2) + 1 /\ s3[Len(s2) + 1] = Comma
        /\ \A i \in 1 .. Len(s2) : s3[i] = s2[i]
    BY <1>3, TokenType, AddOne
  <2> QED BY <1>1, <1>3, <2>1
<1> HIDE DEF s3
<1>5. /\ s4 \in Seq(Token) /\ Len(s4) = q + Len(C)
      /\ \A i \in 1 .. q : s4[i] = s3[i]
      /\ \A i \in 1 .. Len(C) : s4[q + i] = C[i]
  <2>1. /\ s4 \in Seq(Token) /\ Len(s4) = Len(s3) + Len(C)
        /\ \A i \in 1 .. Len(s3) : s4[i] = s3[i]
        /\ \A i \in 1 .. Len(C) : s4[Len(s3) + i] = C[i]
    BY <1>4, ConcatAt
  <2> QED BY <1>4, <2>1
<1> HIDE DEF s4
<1>6. /\ b \in Seq(Token) /\ Len(b) = q + Len(C) + 1 /\ b[q + Len(C) + 1] = Cross
      /\ \A i \in 1 .. q + Len(C) : b[i] = s4[i]
  <2>1. /\ b \in Seq(Token) /\ Len(b) = Len(s4) + 1 /\ b[Len(s4) + 1] = Cross
        /\ \A i \in 1 .. Len(s4) : b[i] = s4[i]
    BY <1>5, TokenType, AddOne
  <2> QED BY <1>1, <1>5, <2>1
<1> HIDE DEF b
<1>7. \A i \in 1 .. p : b[i] = s1[i]
  <2> TAKE i \in 1 .. p
  <2>1. i \in 1 .. p + Len(B) /\ i \in 1 .. q /\ i \in 1 .. q + Len(C)
    BY <1>1
  <2> QED BY <1>3, <1>4, <1>5, <1>6, <2>1
<1>8. \A i \in 1 .. Len(A) : b[i] = A[i]
  BY <1>1, <1>2, <1>7
<1>9. b[p] = Comma
  BY <1>1, <1>2, <1>7
<1>10. \A i \in 1 .. Len(B) : b[p + i] = B[i]
  <2> TAKE i \in 1 .. Len(B)
  <2>1. p + i \in 1 .. p + Len(B) /\ p + i \in 1 .. q /\ p + i \in 1 .. q + Len(C)
    BY <1>1
  <2> QED BY <1>3, <1>4, <1>5, <1>6, <2>1
<1>11. b[q] = Comma
  <2>1. q \in 1 .. q /\ q \in 1 .. q + Len(C)
    BY <1>1
  <2> QED BY <1>4, <1>5, <1>6, <2>1
<1>12. \A i \in 1 .. Len(C) : b[q + i] = C[i]
  <2> TAKE i \in 1 .. Len(C)
  <2>1. q + i \in 1 .. q + Len(C)
    BY <1>1
  <2> QED BY <1>5, <1>6, <2>1
<1> QED BY <1>6, <1>8, <1>9, <1>10, <1>11, <1>12 DEF b, s4, s3, s2, s1

(* A position gets through the parser when neither coordinate text is      *)
(* empty.                                                                  *)
LEMMA PositionParses ==
    ASSUME NEW A \in Seq(Token), NEW B \in Seq(Token), NEW C \in Seq(Token),
           A # <<>>, B # <<>>
    PROVE  LET b == A \o <<Comma>> \o B \o <<Comma>> \o C \o <<Cross>>
           IN  b \in Seq(Token) /\ ParsePosition(b).done
<1> DEFINE b == A \o <<Comma>> \o B \o <<Comma>> \o C \o <<Cross>>
           p == Len(A) + 1
           q == p + Len(B) + 1
<1>1. Len(A) \in Nat \ {0} /\ Len(B) \in Nat \ {0} /\ Len(C) \in Nat
  BY EmptySeq, LenProperties
<1>2. /\ b \in Seq(Token) /\ Len(b) = q + Len(C) + 1
      /\ b[p] = Comma /\ b[q] = Comma /\ b[Len(b)] = Cross
  BY PositionLayout
<1> HIDE DEF b
<1>3. Comma.form = "comma" /\ Cross.form = "x"
  BY DEF Comma, Cross, Tok
<1>4. At(b, p, "comma") /\ At(b, q, "comma") /\ At(b, Len(b), "x")
  BY <1>2, <1>3 DEF At
<1>5. p \in Nat /\ q \in Nat /\ 1 < p /\ p + 1 < q /\ q < Len(b)
  BY <1>1, <1>2
<1> HIDE DEF p, q
<1>6. ParsePosition(b).done
  BY <1>2, <1>4, <1>5, PositionDone
<1> QED BY <1>2, <1>6 DEF b

LEMMA PutType ==
    ASSUME NEW f \in Fields, NEW form \in Forms \cup {"empty"}
    PROVE  Put(f, form) \in Seq(Token) /\ (form # "empty" => Put(f, form) # <<>>)
<1>1. form # "empty" => Tok(f, form) \in Token
  BY TokenType
<1> QED BY <1>1 DEF Put

LEMMA ConcatType ==
    ASSUME NEW s \in Seq(Token), NEW t \in Seq(Token)
    PROVE  s \o t \in Seq(Token) /\ (s # <<>> \/ t # <<>> => s \o t # <<>>)
BY ConcatProperties, ConcatEqualIffEmpty, ConcatEmptySeq

(* locats is a text, and one the parser gets through once both coordinates *)
(* hold something.                                                         *)
LEMMA LocatsParses ==
    ASSUME NEW nmea, \A f \in PositionFields : nmea[f].form \in Forms \cup {"empty"}
    PROVE  /\ Locats(nmea) \in Seq(Token)
           /\ nmea.lat.form # "empty" /\ nmea.lng.form # "empty" =>
                 ParsePosition(Locats(nmea)).done
<1> DEFINE P(f) == Put(f, nmea[f].form)
           A == P("ns") \o P("lat")
           B == P("ew") \o P("lng")
           C == P("alt")
<1>1. \A f \in PositionFields :
         P(f) \in Seq(Token) /\ (nmea[f].form # "empty" => P(f) # <<>>)
  <2>1. PositionFields \subseteq Fields
    BY DEF Fields
  <2> QED BY <2>1, PutType
<1>2. {"ns", "lat", "ew", "lng", "alt"} = PositionFields
  BY DEF PositionFields
<1> HIDE DEF P
<1>3. /\ A \in Seq(Token) /\ B \in Seq(Token) /\ C \in Seq(Token)
      /\ nmea["lat"].form # "empty" => A # <<>>
      /\ nmea["lng"].form # "empty" => B # <<>>
  BY <1>1, <1>2, ConcatType
<1>4. Locats(nmea) = A \o <<Comma>> \o B \o <<Comma>> \o C \o <<Cross>>
  BY DEF Locats, P
<1> HIDE DEF A, B, C
<1>5. Locats(nmea) \in Seq(Token)
  <2>1. <<Comma>> \in Seq(Token) /\ <<Cross>> \in Seq(Token)
    BY TokenType
  <2>2. A \o <<Comma>> \in Seq(Token)
    BY <1>3, <2>1, ConcatType
  <2>3. A \o <<Comma>> \o B \in Seq(Token)
    BY <1>3, <2>2, ConcatType
  <2>4. A \o <<Comma>> \o B \o <<Comma>> \in Seq(Token)
    BY <2>1, <2>3, ConcatType
  <2>5. A \o <<Comma>> \o B \o <<Comma>> \o C \in Seq(Token)
    BY <1>3, <2>4, ConcatType
  <2> QED BY <1>4, <2>1, <2>5, ConcatType
<1>6. ASSUME nmea.lat.form # "empty", nmea.lng.form # "empty"
      PROVE  ParsePosition(Locats(nmea)).done
  BY <1>3, <1>4, <1>6, PositionParses
<1> QED BY <1>5, <1>6

(* A loop that enters before a delimiter stops there at the latest, and    *)
(* behind its starting point.                                              *)
LEMMA StopsBy ==
    ASSUME NEW b \in Seq(Token), NEW i \in Nat, NEW c, NEW k \in i + 1 .. Len(b),
           At(b, k, c)
    PROVE  NextDelim(b, i, c) \in i + 1 .. k
BY NextDelimProperties

(* The same over a stretch without other delimiters: it stops there.       *)
LEMMA StopsAt ==
    ASSUME NEW b \in Seq(Token), NEW i \in Nat, NEW c, NEW k \in i + 1 .. Len(b),
           At(b, k, c), \A m \in i + 1 .. k - 1 : ~At(b, m, c)
    PROVE  NextDelim(b, i, c) = k
<1> DEFINE n == NextDelim(b, i, c)
<1>1. n \in i + 1 .. k /\ (n <= Len(b) => At(b, n, c))
  BY StopsBy, NextDelimProperties
<1> HIDE DEF n
<1>2. n <= Len(b) /\ Len(b) \in Nat
  BY <1>1
<1>3. n \in i + 1 .. k - 1 \/ n = k
  BY <1>1
<1> QED BY <1>1, <1>2, <1>3 DEF n

(* A field of one token.                                                   *)
LEMMA FieldOne ==
    ASSUME NEW b \in Seq(Token), NEW i \in 1 .. Len(b)
    PROVE  Field(b, i, i + 1) = <<b[i]>>
<1>1. i \in Nat /\ (i + 1) - 1 = i
  OBVIOUS
<1>2. SubSeq(b, i, i) \in Seq(Token) /\ Len(SubSeq(b, i, i)) = 1 /\ SubSeq(b, i, i)[1] = b[i]
  <2>1. \A m \in i .. i : b[m] \in Token
    BY ElementOfSeq
  <2> QED BY <1>1, <2>1, SubSeqProperties
<1>3. SubSeq(b, i, i) = <<b[i]>>
  <2> DEFINE s == SubSeq(b, i, i)
             t == <<b[i]>>
  <2>1. s \in Seq(Token) /\ t \in Seq(Token)
    BY <1>2, ElementOfSeq
  <2>2. Len(s) = 1 /\ Len(t) = 1 /\ t[1] = b[i]
    BY <1>2
  <2>3. s[1] = b[i]
    BY <1>2
  <2> HIDE DEF s, t
  <2>4. \A m \in 1 .. Len(s) : s[m] = t[m]
    BY <2>2, <2>3
  <2>5. s = t
    BY <2>1, <2>2, <2>4, SeqEqual
  <2> QED BY <2>5 DEF s, t
<1> QED BY <1>1, <1>3 DEF Field

(* Without an x the parser never gets through a position or a humidity.    *)
LEMMA NoCrossNoEnd ==
    ASSUME NEW b \in Seq(Token), \A i \in 1 .. Len(b) : b[i].form # "x"
    PROVE  ~ParsePosition(b).done /\ ~ParseHumidity(b).done
<1> DEFINE p == NextDelim(b, 1, "comma")
           q == NextDelim(b, p + 1, "comma")
           none == q + 1 <= Len(b) /\ At(b, q + 1, "x")
           e == NextDelim(b, q + 1, "x")
           r == IF none THEN q + 1 ELSE e
           h3 == NextDelim(b, q + 1, "comma")
           h4 == NextDelim(b, h3 + 1, "comma")
           h5 == NextDelim(b, h4 + 1, "x")
<1>1. ASSUME NEW i \in Nat
      PROVE  NextDelim(b, i, "x") \in 1 .. Len(b) + 1 /\ ~(NextDelim(b, i, "x") <= Len(b))
  BY <1>1, NextDelimProperties DEF At
<1>2. p \in Nat
  BY NextDelimProperties
<1> HIDE DEF p
<1>3. q \in Nat
  BY <1>2, NextDelimProperties
<1> HIDE DEF q
<1>4. ~none
  BY <1>3 DEF At
<1>5. ~(r <= Len(b))
  BY <1>1, <1>3, <1>4
<1>6. h3 \in Nat
  BY <1>3, NextDelimProperties
<1> HIDE DEF h3
<1>7. h4 \in Nat
  BY <1>6, NextDelimProperties
<1> HIDE DEF h4
<1>8. ~(h5 <= Len(b))
  BY <1>1, <1>7
<1> HIDE DEF none, e, h5
<1>9. ParsePosition(b).done <=> r <= Len(b)
  BY Zenon DEF ParsePosition, Parsed, p, q, none, e
<1>10. ParseHumidity(b).done <=> h5 <= Len(b)
  BY Zenon DEF ParseHumidity, Parsed, p, q, h3, h4, h5
<1> QED BY <1>5, <1>8, <1>9, <1>10

LEMMA HumidsParses ==
    ASSUME NEW h \in Forms, NEW t \in Forms
    PROVE  /\ Humids(h, t) \in Seq(Token) /\ ParseHumidity(Humids(h, t)).done
           /\ ParseHumidity(Humids(h, t)).fields =
                 <<<<Tok("rh", h)>>, <<Tok("tc", t)>>, <<Tok("tf", t)>>,
                   <<Tok("hic", HeatForm(h, t))>>, <<Tok("hif", HeatForm(h, t))>>>>
<1> DEFINE b  == Humids(h, t)
           e1 == NextDelim(b, 1, "comma")
           e2 == NextDelim(b, e1 + 1, "comma")
           e3 == NextDelim(b, e2 + 1, "comma")
           e4 == NextDelim(b, e3 + 1, "comma")
           e5 == NextDelim(b, e4 + 1, "x")
<1>1. HeatForm(h, t) \in Forms
  BY DEF HeatForm, Forms
<1>2. /\ Tok("rh", h) \in Token /\ Tok("tc", t) \in Token /\ Tok("tf", t) \in Token
      /\ Tok("hic", HeatForm(h, t)) \in Token /\ Tok("hif", HeatForm(h, t)) \in Token
  BY <1>1, TokenType DEF Fields
<1>3. b \in Seq(Token) /\ Len(b) = 10
  BY <1>2, TokenType DEF Humids
<1>4. b[2] = Comma /\ b[4] = Comma /\ b[6] = Comma /\ b[8] = Comma /\ b[10] = Cross
  BY DEF Humids
<1>5. /\ At(b, 2, "comma") /\ At(b, 4, "comma") /\ At(b, 6, "comma") /\ At(b, 8, "comma")
      /\ At(b, 10, "x")
  BY <1>4 DEF At, Comma, Cross, Tok
<1> HIDE DEF b
<1>6. e1 = 2
  <2>1. 1 \in Nat /\ 2 \in (1) + 1 .. Len(b)
    BY <1>3, <1>5
  <2>2. e1 \in (1) + 1 .. 2
    BY <1>3, <1>5, <2>1, StopsBy
  <2> QED BY <1>3, <1>5, <2>2
<1> HIDE DEF e1
<1>7. e2 = 4
  <2>1. e1 + 1 \in Nat /\ 4 \in (e1 + 1) + 1 .. Len(b)
    BY <1>3, <1>5, <1>6
  <2>2. e2 \in (e1 + 1) + 1 .. 4
    BY <1>3, <1>5, <1>6, <2>1, StopsBy
  <2> QED BY <1>3, <1>5, <1>6, <2>2
<1> HIDE DEF e2
<1>8. e3 = 6
  <2>1. e2 + 1 \in Nat /\ 6 \in (e2 + 1) + 1 .. Len(b)
    BY <1>3, <1>5, <1>7
  <2>2. e3 \in (e2 + 1) + 1 .. 6
    BY <1>3, <1>5, <1>7, <2>1, StopsBy
  <2> QED BY <1>3, <1>5, <1>7, <2>2
<1> HIDE DEF e3
<1>9. e4 = 8
  <2>1. e3 + 1 \in Nat /\ 8 \in (e3 + 1) + 1 .. Len(b)
    BY <1>3, <1>5, <1>8
  <2>2. e4 \in (e3 + 1) + 1 .. 8
    BY <1>3, <1>5, <1>8, <2>1, StopsBy
  <2> QED BY <1>3, <1>5, <1>8, <2>2
<1> HIDE DEF e4
<1>10. e5 = 10
  <2>1. e4 + 1 \in Nat /\ 10 \in (e4 + 1) + 1 .. Len(b)
    BY <1>3, <1>5, <1>9
  <2>2. e5 \in (e4 + 1) + 1 .. 10
    BY <1>3, <1>5, <1>9, <2>1, StopsBy
  <2> QED BY <1>3, <1>5, <1>9, <2>2
<1> HIDE DEF e5
<1>11. ParseHumidity(b).done <=> e5 <= Len(b)
  BY Zenon DEF ParseHumidity, Parsed, e1, e2, e3, e4, e5
<1>12. ParseHumidity(b).fields =
          <<Field(b, 1, e1), Field(b, e1 + 1, e2), Field(b, e2 + 1, e3),
            Field(b, e3 + 1, e4), Field(b, e4 + 1, e5)>>
  BY Zenon DEF ParseHumidity, Parsed, e1, e2, e3, e4, e5
<1>13. /\ Field(b, 1, 2) = <<b[1]>> /\ Field(b, 3, 4) = <<b[3]>> /\ Field(b, 5, 6) = <<b[5]>>
       /\ Field(b, 7, 8) = <<b[7]>> /\ Field(b, 9, 10) = <<b[9]>>
  <2>1. ASSUME NEW i \in {1, 3, 5, 7, 9} PROVE Field(b, i, i + 1) = <<b[i]>>
    <3>1. b \in Seq(Token) /\ i \in 1 .. Len(b)
      BY <1>3
    <3> QED BY <3>1, FieldOne
  <2> QED BY <2>1
<1>14. /\ b[1] = Tok("rh", h) /\ b[3] = Tok("tc", t) /\ b[5] = Tok("tf", t)
       /\ b[7] = Tok("hic", HeatForm(h, t)) /\ b[9] = Tok("hif", HeatForm(h, t))
  BY DEF b, Humids
<1> QED BY <1>3, <1>6, <1>7, <1>8, <1>9, <1>10, <1>11, <1>12, <1>13, <1>14 DEF b

LEMMA DustsParses ==
    /\ Dusts \in Seq(Token) /\ ParseDust(Dusts).done
    /\ ParseDust(Dusts).fields =
          <<<<Tok("signal", "text")>>, <<Tok("volt", "text")>>, <<Tok("dens", "text")>>>>
<1> DEFINE b  == Dusts
           e1 == NextDelim(b, 1, "comma")
           e2 == NextDelim(b, e1 + 1, "comma")
           e3 == NextDelim(b, e2 + 1, "x")
<1>1. /\ Tok("signal", "text") \in Token /\ Tok("volt", "text") \in Token
      /\ Tok("dens", "text") \in Token
  BY TokenType DEF Fields, Forms
<1>2. b \in Seq(Token) /\ Len(b) = 6
  BY <1>1, TokenType DEF Dusts
<1>3. At(b, 2, "comma") /\ At(b, 4, "comma") /\ At(b, 6, "x")
  BY DEF Dusts, At, Comma, Cross, Tok
<1> HIDE DEF b
<1>4. e1 = 2
  <2>1. 1 \in Nat /\ 2 \in (1) + 1 .. Len(b)
    BY <1>2, <1>3
  <2>2. e1 \in (1) + 1 .. 2
    BY <1>2, <1>3, <2>1, StopsBy
  <2> QED BY <1>2, <1>3, <2>2
<1> HIDE DEF e1
<1>5. e2 = 4
  <2>1. e1 + 1 \in Nat /\ 4 \in (e1 + 1) + 1 .. Len(b)
    BY <1>2, <1>3, <1>4
  <2>2. e2 \in (e1 + 1) + 1 .. 4
    BY <1>2, <1>3, <1>4, <2>1, StopsBy
  <2> QED BY <1>2, <1>3, <1>4, <2>2
<1> HIDE DEF e2
<1>6. e3 = 6
  <2>1. e2 + 1 \in Nat /\ 6 \in (e2 + 1) + 1 .. Len(b)
    BY <1>2, <1>3, <1>5
  <2>2. e3 \in (e2 + 1) + 1 .. 6
    BY <1>2, <1>3, <1>5, <2>1, StopsBy
  <2> QED BY <1>2, <1>3, <1>5, <2>2
<1> HIDE DEF e3
<1>7. ParseDust(b).done <=> e3 <= Len(b)
  BY Zenon DEF ParseDust, Parsed, e1, e2, e3
<1>8. ParseDust(b).fields = <<Field(b, 1, e1), Field(b, e1 + 1, e2), Field(b, e2 + 1, e3)>>
  BY Zenon DEF ParseDust, Parsed, e1, e2, e3
<1>9. /\ Field(b, 1, 2) = <<b[1]>> /\ Field(b, 3, 4) = <<b[3]>> /\ Field(b, 5, 6) = <<b[5]>>
  <2>1. ASSUME NEW i \in {1, 3, 5} PROVE Field(b, i, i + 1) = <<b[i]>>
    <3>1. b \in Seq(Token) /\ i \in 1 .. Len(b)
      BY <1>2
    <3> QED BY <3>1, FieldOne
  <2> QED BY <2>1
<1>10. /\ b[1] = Tok("signal", "text") /\ b[3] = Tok("volt", "text")
       /\ b[5] = Tok("dens", "text")
  BY DEF b, Dusts
<1> QED BY <1>2, <1>4, <1>5, <1>6, <1>7, <1>8, <1>9, <1>10 DEF b

LEMMA GyPrsParses ==
    /\ GyPrs \in Seq(Token) /\ ParsePressure(GyPrs).done
    /\ ParsePressure(GyPrs).fields = <<<<Tok("pres", "text")>>, <<Tok("atm", "text")>>>>
<1> DEFINE b  == GyPrs
           e1 == NextDelim(b, 1, "comma")
           e2 == NextDelim(b, e1 + 1, "x")
<1>1. Tok("pres", "text") \in Token /\ Tok("atm", "text") \in Token
  BY TokenType DEF Fields, Forms
<1>2. b \in Seq(Token) /\ Len(b) = 4
  BY <1>1, TokenType DEF GyPrs
<1>3. At(b, 2, "comma") /\ At(b, 4, "x")
  BY DEF GyPrs, At, Comma, Cross, Tok
<1> HIDE DEF b
<1>4. e1 = 2
  <2>1. 1 \in Nat /\ 2 \in (1) + 1 .. Len(b)
    BY <1>2, <1>3
  <2>2. e1 \in (1) + 1 .. 2
    BY <1>2, <1>3, <2>1, StopsBy
  <2> QED BY <1>2, <1>3, <2>2
<1> HIDE DEF e1
<1>5. e2 = 4
  <2>1. e1 + 1 \in Nat /\ 4 \in (e1 + 1) + 1 .. Len(b)
    BY <1>2, <1>3, <1>4
  <2>2. e2 \in (e1 + 1) + 1 .. 4
    BY <1>2, <1>3, <1>4, <2>1, StopsBy
  <2> QED BY <1>2, <1>3, <1>4, <2>2
<1> HIDE DEF e2
<1>6. ParsePressure(b).done <=> e2 <= Len(b)
  BY Zenon DEF ParsePressure, Parsed, e1, e2
<1>7. ParsePressure(b).fields = <<Field(b, 1, e1), Field(b, e1 + 1, e2)>>
  BY Zenon DEF ParsePressure, Parsed, e1, e2
<1>8. /\ Field(b, 1, 2) = <<b[1]>> /\ Field(b, 3, 4) = <<b[3]>>
  <2>1. ASSUME NEW i \in {1, 3} PROVE Field(b, i, i + 1) = <<b[i]>>
    <3>1. b \in Seq(Token) /\ i \in 1 .. Len(b)
      BY <1>2
    <3> QED BY <3>1, FieldOne
  <2> QED BY <2>1
<1>9. b[1] = Tok("pres", "text") /\ b[3] = Tok("atm", "text")
  BY DEF b, GyPrs
<1> QED BY <1>2, <1>4, <1>5, <1>6, <1>7, <1>8, <1>9 DEF b

(* The one token written for f is all that b has of it.                    *)
LEMMA OneIsAll ==
    ASSUME NEW b \in Seq(Token), NEW i \in 1 .. Len(b), NEW f \in Fields, f \notin Letters,
           \A k \in 1 .. Len(b) : b[k].f = f <=> k = i
    PROVE  AllOf(<<b[i]>>, b, {f})
<1>1. Len(b) \in Nat
  BY LenProperties
<1>2. <<b[i]>> = SubSeq(b, i, i)
  <2>1. (i + 1) - 1 = i
    BY <1>1
  <2> QED BY <2>1, FieldOne DEF Field
<1>3. \A k \in 1 .. Len(b) : k \in i .. i <=> k = i
  BY <1>1
<1>4. \A k \in 1 .. Len(b) : b[k].f \in {f} <=> k \in i .. i
  BY <1>3
<1>5. \A g \in {f} \ Letters : \E k \in i .. i : b[k].f = g
  BY <1>1
<1> QED BY <1>2, <1>4, <1>5 DEF AllOf

(* What the parser makes of the messages of fixed layout.                  *)
LEMMA FixedFaithful ==
    /\ \A h \in Forms, t \in Forms :
          Faithful(2, Humids(h, t), ParseHumidity(Humids(h, t)).fields)
    /\ Faithful(3, Dusts, ParseDust(Dusts).fields)
    /\ Faithful(4, GyPrs, ParsePressure(GyPrs).fields)
<1> USE DEF Letters, Comma, Cross, Tok
<1>1. ASSUME NEW h \in Forms, NEW t \in Forms
      PROVE  Faithful(2, Humids(h, t), ParseHumidity(Humids(h, t)).fields)
  <2> DEFINE b == Humids(h, t)
             g == ParseHumidity(b).fields
  <2>1. b \in Seq(Token)
    BY HumidsParses
  <2>2. g = <<<<Tok("rh", h)>>, <<Tok("tc", t)>>, <<Tok("tf", t)>>,
              <<Tok("hic", HeatForm(h, t))>>, <<Tok("hif", HeatForm(h, t))>>>>
    BY HumidsParses
  <2>3. /\ Len(b) = 10
        /\ b[1] = Tok("rh", h) /\ b[3] = Tok("tc", t) /\ b[5] = Tok("tf", t)
        /\ b[7] = Tok("hic", HeatForm(h, t)) /\ b[9] = Tok("hif", HeatForm(h, t))
        /\ b[2] = Comma /\ b[4] = Comma /\ b[6] = Comma /\ b[8] = Comma /\ b[10] = Cross
    BY DEF Humids
  <2> HIDE DEF b
  <2>4. /\ b[1].f = "rh" /\ b[3].f = "tc" /\ b[5].f = "tf" /\ b[7].f = "hic" /\ b[9].f = "hif"
        /\ \A k \in {2, 4, 6, 8, 10} : b[k].f = "sep"
    BY <2>3
  <2>5. \A k \in 1 .. 10 : k \in {1, 2, 3, 4, 5, 6, 7, 8, 9, 10}
    OBVIOUS
  <2>6. /\ AllOf(<<b[1]>>, b, {"rh"}) /\ AllOf(<<b[3]>>, b, {"tc"}) /\ AllOf(<<b[5]>>, b, {"tf"})
        /\ AllOf(<<b[7]>>, b, {"hic"}) /\ AllOf(<<b[9]>>, b, {"hif"})
    <3>1. /\ \A k \in 1 .. Len(b) : b[k].f = "rh" <=> k = 1
          /\ \A k \in 1 .. Len(b) : b[k].f = "tc" <=> k = 3
          /\ \A k \in 1 .. Len(b) : b[k].f = "tf" <=> k = 5
          /\ \A k \in 1 .. Len(b) : b[k].f = "hic" <=> k = 7
          /\ \A k \in 1 .. Len(b) : b[k].f = "hif" <=> k = 9
      BY <2>3, <2>4, <2>5
    <3>2. {"rh", "tc", "tf", "hic", "hif"} \subseteq Fields
      BY DEF Fields
    <3>3. \A i \in {1, 3, 5, 7, 9} : i \in 1 .. Len(b)
      BY <2>3
    <3> QED BY <2>1, <3>1, <3>2, <3>3, OneIsAll
  <2> HIDE DEF g
  <2>7. /\ Len(g) = 5
        /\ g[1] = <<b[1]>> /\ g[2] = <<b[3]>> /\ g[3] = <<b[5]>>
        /\ g[4] = <<b[7]>> /\ g[5] = <<b[9]>>
    BY <2>2, <2>3
  <2>8. /\ Len(Places[2]) = 5
        /\ Places[2][1] = {"rh"} /\ Places[2][2] = {"tc"} /\ Places[2][3] = {"tf"}
        /\ Places[2][4] = {"hic"} /\ Places[2][5] = {"hif"}
    BY DEF Places
  <2>9. \A n \in 1 .. 5 : n \in {1, 2, 3, 4, 5}
    OBVIOUS
  <2>10. \A n \in 1 .. 5 : AllOf(g[n], b, Places[2][n])
    <3>1. AllOf(g[1], b, Places[2][1]) /\ AllOf(g[2], b, Places[2][2])
      BY <2>6, <2>7, <2>8
    <3>2. AllOf(g[3], b, Places[2][3]) /\ AllOf(g[4], b, Places[2][4])
      BY <2>6, <2>7, <2>8
    <3>3. AllOf(g[5], b, Places[2][5])
      BY <2>6, <2>7, <2>8
    <3> QED BY <2>9, <3>1, <3>2, <3>3
  <2>11. Faithful(2, b, g)
    BY <2>7, <2>8, <2>10 DEF Faithful
  <2> QED BY <2>11 DEF b, g
<1>2. Faithful(3, Dusts, ParseDust(Dusts).fields)
  <2> DEFINE b == Dusts
             g == ParseDust(b).fields
  <2>1. b \in Seq(Token)
    BY DustsParses
  <2>2. g = <<<<Tok("signal", "text")>>, <<Tok("volt", "text")>>, <<Tok("dens", "text")>>>>
    BY DustsParses
  <2>3. /\ Len(b) = 6
        /\ b[1] = Tok("signal", "text") /\ b[3] = Tok("volt", "text")
        /\ b[5] = Tok("dens", "text") /\ b[2] = Comma /\ b[4] = Comma /\ b[6] = Cross
    BY DEF Dusts
  <2> HIDE DEF b
  <2>4. /\ b[1].f = "signal" /\ b[3].f = "volt" /\ b[5].f = "dens"
        /\ \A k \in {2, 4, 6} : b[k].f = "sep"
    BY <2>3
  <2>5. \A k \in 1 .. 6 : k \in {1, 2, 3, 4, 5, 6}
    OBVIOUS
  <2>6. /\ AllOf(<<b[1]>>, b, {"signal"}) /\ AllOf(<<b[3]>>, b, {"volt"})
        /\ AllOf(<<b[5]>>, b, {"dens"})
    <3>1. /\ \A k \in 1 .. Len(b) : b[k].f = "signal" <=> k = 1
          /\ \A k \in 1 .. Len(b) : b[k].f = "volt" <=> k = 3
          /\ \A k \in 1 .. Len(b) : b[k].f = "dens" <=> k = 5
      BY <2>3, <2>4, <2>5
    <3>2. {"signal", "volt", "dens"} \subseteq Fields
      BY DEF Fields
    <3>3. \A i \in {1, 3, 5} : i \in 1 .. Len(b)
      BY <2>3
    <3> QED BY <2>1, <3>1, <3>2, <3>3, OneIsAll
  <2> HIDE DEF g
  <2>7. Len(g) = 3 /\ g[1] = <<b[1]>> /\ g[2] = <<b[3]>> /\ g[3] = <<b[5]>>
    BY <2>2, <2>3
  <2>8. /\ Len(Places[3]) = 3
        /\ Places[3][1] = {"signal"} /\ Places[3][2] = {"volt"} /\ Places[3][3] = {"dens"}
    BY DEF Places
  <2>9. \A n \in 1 .. 3 : n \in {1, 2, 3}
    OBVIOUS
  <2>10. \A n \in 1 .. 3 : AllOf(g[n], b, Places[3][n])
    BY <2>6, <2>7, <2>8, <2>9
  <2>11. Faithful(3, b, g)
    BY <2>7, <2>8, <2>10 DEF Faithful
  <2> QED BY <2>11 DEF b, g
<1>3. Faithful(4, GyPrs, ParsePressure(GyPrs).fields)
  <2> DEFINE b == GyPrs
             g == ParsePressure(b).fields
  <2>1. b \in Seq(Token)
    BY GyPrsParses
  <2>2. g = <<<<Tok("pres", "text")>>, <<Tok("atm", "text")>>>>
    BY GyPrsParses
  <2>3. /\ Len(b) = 4
        /\ b[1] = Tok("pres", "text") /\ b[3] = Tok("atm", "text")
        /\ b[2] = Comma /\ b[4] = Cross
    BY DEF GyPrs
  <2> HIDE DEF b
  <2>4. b[1].f = "pres" /\ b[3].f = "atm" /\ b[2].f = "sep" /\ b[4].f = "sep"
    BY <2>3
  <2>5. \A k \in 1 .. 4 : k \in {1, 2, 3, 4}
    OBVIOUS
  <2>6. AllOf(<<b[1]>>, b, {"pres"}) /\ AllOf(<<b[3]>>, b, {"atm"})
    <3>1. /\ \A k \in 1 .. Len(b) : b[k].f = "pres" <=> k = 1
          /\ \A k \in 1 .. Len(b) : b[k].f = "atm" <=> k = 3
      BY <2>3, <2>4, <2>5
    <3>2. {"pres", "atm"} \subseteq Fields
      BY DEF Fields
    <3>3. 1 \in 1 .. Len(b) /\ 3 \in 1 .. Len(b)
      BY <2>3
    <3> QED BY <2>1, <3>1, <3>2, <3>3, OneIsAll
  <2> HIDE DEF g
  <2>7. Len(g) = 2 /\ g[1] = <<b[1]>> /\ g[2] = <<b[3]>>
    BY <2>2, <2>3
  <2>8. Len(Places[4]) = 2 /\ Places[4][1] = {"pres"} /\ Places[4][2] = {"atm"}
    BY DEF Places
  <2>9. \A n \in 1 .. 2 : n \in {1, 2}
    OBVIOUS
  <2>10. \A n \in 1 .. 2 : AllOf(g[n], b, Places[4][n])
    BY <2>6, <2>7, <2>8, <2>9
  <2>11. Faithful(4, b, g)
    BY <2>7, <2>8, <2>10 DEF Faithful
  <2> QED BY <2>11 DEF b, g
<1> QED BY <1>1, <1>2, <1>3

(* A stretch of a text that reads like A is A.                             *)
LEMMA FieldIs ==
    ASSUME NEW b \in Seq(Token), NEW A \in Seq(Token), NEW from \in Nat \ {0}, NEW stop \in Nat,
           stop = from + Len(A), stop <= Len(b) + 1,
           \A i \in 1 .. Len(A) : b[from - 1 + i] = A[i]
    PROVE  Field(b, from, stop) = A
<1> DEFINE s == SubSeq(b, from, stop - 1)
<1>1. Len(A) \in Nat /\ Len(b) \in Nat
  BY LenProperties
<1>2. \A i \in from .. stop - 1 : b[i] \in Token
  BY <1>1, ElementOfSeq
<1>3. /\ s \in Seq(Token) /\ Len(s) = Len(A)
      /\ \A i \in 1 .. Len(A) : s[i] = b[from + i - 1]
  BY <1>1, <1>2, SubSeqProperties
<1>4. \A i \in 1 .. Len(A) : from + i - 1 = from - 1 + i
  BY <1>1
<1> HIDE DEF s
<1>5. \A i \in 1 .. Len(s) : s[i] = A[i]
  BY <1>3, <1>4
<1>6. s = A
  BY <1>3, <1>5, SeqEqual
<1> QED BY <1>6 DEF Field, s

(* A coordinate text with its letter: not empty, of these fields, with no  *)
(* comma behind its first token, and with nothing but a letter missing.    *)
Worded(A, fs) ==
    /\ A \in Seq(Token) /\ A # <<>>
    /\ \A i \in 1 .. Len(A) : A[i].f \in fs
    /\ \A i \in 2 .. Len(A) : A[i].form # "comma"
    /\ \A f \in fs \ Letters : \E i \in 1 .. Len(A) : A[i].f = f

(* An altitude, or none. *)
Height(C) ==
    /\ C \in Seq(Token) /\ Len(C) <= 1
    /\ \A i \in 1 .. Len(C) : C[i].f = "alt" /\ C[i].form # "x"

(* A field that holds such a text, while no other place of b has anything  *)
(* of it.                                                                  *)
LEMMA StretchIsAll ==
    ASSUME NEW b \in Seq(Token), NEW fs, NEW A, Worded(A, fs),
           NEW from \in Nat \ {0}, NEW stop \in Nat, stop = from + Len(A), stop <= Len(b) + 1,
           Field(b, from, stop) = A,
           \A i \in 1 .. Len(A) : b[from - 1 + i] = A[i],
           \A k \in 1 .. Len(b) : b[k].f \in fs => k \in from .. stop - 1
    PROVE  AllOf(A, b, fs)
<1>1. A \in Seq(Token) /\ Len(A) \in Nat /\ Len(A) # 0 /\ Len(b) \in Nat
  BY EmptySeq, LenProperties DEF Worded
<1>2. from \in 1 .. Len(b) /\ stop - 1 \in 1 .. Len(b)
  BY <1>1
<1>3. A = SubSeq(b, from, stop - 1)
  BY DEF Field
<1>4. ASSUME NEW k \in from .. stop - 1
      PROVE  b[k].f \in fs
  <2>1. (k - from) + 1 \in 1 .. Len(A) /\ from - 1 + ((k - from) + 1) = k
    BY <1>1
  <2>2. b[k] = A[(k - from) + 1]
    BY <2>1
  <2> QED BY <2>1, <2>2 DEF Worded
<1>5. ASSUME NEW f \in fs \ Letters
      PROVE  \E k \in from .. stop - 1 : b[k].f = f
  <2>1. PICK i \in 1 .. Len(A) : A[i].f = f
    BY DEF Worded
  <2>2. from - 1 + i \in from .. stop - 1
    BY <1>1
  <2>3. b[from - 1 + i].f = f
    BY <2>1
  <2> QED BY <2>2, <2>3
<1>6. \A k \in 1 .. Len(b) : b[k].f \in fs <=> k \in from .. stop - 1
  BY <1>4
<1> QED BY <1>2, <1>3, <1>5, <1>6 DEF AllOf

(* The parser takes such a position apart where it was put together, and of*)
(* the altitude it keeps the last character.                               *)
LEMMA PositionTaken ==
    ASSUME NEW A, NEW B, NEW C, Worded(A, {"ns", "lat"}), Worded(B, {"ew", "lng"}), Height(C),
           NEW b, b = A \o <<Comma>> \o B \o <<Comma>> \o C \o <<Cross>>
    PROVE  Faithful(1, b, ParsePosition(b).fields)
<1> DEFINE p == Len(A) + 1
           q == p + Len(B) + 1
           none == q + 1 <= Len(b) /\ At(b, q + 1, "x")
           e == NextDelim(b, q + 1, "x")
           r == IF none THEN q + 1 ELSE e
           last == IF none \/ r > Len(b) THEN AltitudeZero ELSE <<LastChar(b[r - 1])>>
           g == ParsePosition(b).fields
<1>0. A \in Seq(Token) /\ B \in Seq(Token) /\ C \in Seq(Token) /\ A # <<>> /\ B # <<>>
  BY DEF Worded, Height
<1>1. Len(A) \in Nat \ {0} /\ Len(B) \in Nat \ {0} /\ Len(C) \in {0, 1}
  <2>1. Len(A) \in Nat /\ Len(B) \in Nat /\ Len(C) \in Nat /\ Len(A) # 0 /\ Len(B) # 0
    BY <1>0, EmptySeq, LenProperties
  <2>2. \A n \in Nat : n <= 1 => n \in {0, 1}
    OBVIOUS
  <2>3. Len(C) <= 1
    BY DEF Height
  <2> QED BY <2>1, <2>2, <2>3
<1>2. /\ b \in Seq(Token) /\ Len(b) = q + Len(C) + 1
      /\ \A i \in 1 .. Len(A) : b[i] = A[i]
      /\ b[p] = Comma
      /\ \A i \in 1 .. Len(B) : b[p + i] = B[i]
      /\ b[q] = Comma
      /\ \A i \in 1 .. Len(C) : b[q + i] = C[i]
      /\ b[Len(b)] = Cross
  <2> DEFINE d == A \o <<Comma>> \o B \o <<Comma>> \o C \o <<Cross>>
  <2>1. /\ d \in Seq(Token) /\ Len(d) = q + Len(C) + 1
        /\ \A i \in 1 .. Len(A) : d[i] = A[i]
        /\ d[p] = Comma
        /\ \A i \in 1 .. Len(B) : d[p + i] = B[i]
        /\ d[q] = Comma
        /\ \A i \in 1 .. Len(C) : d[q + i] = C[i]
        /\ d[Len(d)] = Cross
    BY <1>0, PositionLayout, Zenon
  <2>2. d = b
    OBVIOUS
  <2> HIDE DEF d
  <2> QED BY <2>1, <2>2
<1>3. Comma.form = "comma" /\ Cross.form = "x"
  BY DEF Comma, Cross, Tok
<1>4. NextDelim(b, 1, "comma") = p
  <2>1. 1 \in Nat /\ p \in 1 + 1 .. Len(b)
    BY <1>1, <1>2
  <2>2. At(b, p, "comma")
    BY <1>2, <1>3 DEF At
  <2>3. \A m \in 1 + 1 .. p - 1 : ~At(b, m, "comma")
    <3> TAKE m \in 1 + 1 .. p - 1
    <3>1. m \in 1 .. Len(A) /\ m \in 2 .. Len(A)
      BY <1>1
    <3> QED BY <1>2, <3>1 DEF At, Worded
  <2> HIDE DEF p
  <2> QED BY <1>2, <2>1, <2>2, <2>3, StopsAt
<1>5. NextDelim(b, p + 1, "comma") = q
  <2>1. p + 1 \in Nat /\ q \in (p + 1) + 1 .. Len(b)
    BY <1>1, <1>2
  <2>2. At(b, q, "comma")
    BY <1>2, <1>3 DEF At
  <2>3. \A m \in (p + 1) + 1 .. q - 1 : ~At(b, m, "comma")
    <3> TAKE m \in (p + 1) + 1 .. q - 1
    <3>1. m - p \in 1 .. Len(B) /\ m - p \in 2 .. Len(B) /\ p + (m - p) = m
      BY <1>1
    <3>2. b[p + (m - p)] = B[m - p]
      BY <1>2, <3>1
    <3> QED BY <3>1, <3>2 DEF At, Worded
  <2> HIDE DEF p, q
  <2> QED BY <1>2, <2>1, <2>2, <2>3, StopsAt
<1>6. Field(b, 1, p) = A
  <2>1. /\ 1 \in Nat \ {0} /\ p \in Nat /\ p = 1 + Len(A) /\ p <= Len(b) + 1
        /\ \A i \in 1 .. Len(A) : b[1 - 1 + i] = A[i]
    BY <1>1, <1>2
  <2> HIDE DEF p
  <2> QED BY <1>0, <1>2, <2>1, FieldIs, Zenon
<1>7. Field(b, p + 1, q) = B
  <2>1. p + 1 \in Nat \ {0} /\ q \in Nat /\ q = (p + 1) + Len(B) /\ q <= Len(b) + 1
    BY <1>1, <1>2
  <2>2. \A i \in 1 .. Len(B) : b[(p + 1) - 1 + i] = B[i]
    <3> TAKE i \in 1 .. Len(B)
    <3>1. (p + 1) - 1 + i = p + i
      BY <1>1
    <3> QED BY <1>2, <3>1
  <2> HIDE DEF p, q
  <2> QED BY <1>0, <1>2, <2>1, <2>2, FieldIs, Zenon
<1>8. ASSUME NEW k \in 1 .. Len(b)
      PROVE  /\ b[k].f \in {"ns", "lat"} => k \in 1 .. p - 1
             /\ b[k].f \in {"ew", "lng"} => k \in p + 1 .. q - 1
             /\ b[k].f = "alt" => Len(C) = 1
  <2>1. /\ p = Len(A) + 1 /\ q = p + Len(B) + 1 /\ Len(b) = q + Len(C) + 1
        /\ p \in Nat /\ q \in Nat
    BY <1>1, <1>2
  <2>2. /\ b[p] = Comma /\ b[q] = Comma /\ b[Len(b)] = Cross
        /\ \A i \in 1 .. Len(A) : b[i] = A[i]
        /\ \A i \in 1 .. Len(B) : b[p + i] = B[i]
        /\ \A i \in 1 .. Len(C) : b[q + i] = C[i]
    BY <1>2
  <2> HIDE DEF p, q
  <2>3. CASE k \in 1 .. Len(A)
    <3>1. k \in 1 .. p - 1
      BY <1>1, <2>1, <2>3
    <3>2. b[k].f \in {"ns", "lat"}
      BY <2>2, <2>3 DEF Worded
    <3> QED BY <3>1, <3>2
  <2>4. CASE k \in p + 1 .. q - 1
    <3>1. k - p \in 1 .. Len(B) /\ p + (k - p) = k
      BY <1>1, <2>1, <2>4
    <3>2. b[k] = B[k - p]
      BY <2>2, <3>1
    <3>3. b[k].f \in {"ew", "lng"}
      BY <3>1, <3>2 DEF Worded
    <3> QED BY <2>4, <3>3
  <2>5. CASE k = p \/ k = q \/ k = Len(b)
    <3>1. b[k].f = "sep"
      BY <2>2, <2>5 DEF Comma, Cross, Tok
    <3> QED BY <3>1
  <2>6. CASE k = q + 1 /\ Len(C) = 1
    <3>1. Len(C) = 1 /\ k = q + 1 /\ 1 \in 1 .. Len(C)
      BY <2>6
    <3>2. b[k] = C[1]
      BY <2>2, <3>1
    <3>3. C[1].f = "alt"
      BY <3>1 DEF Height
    <3>4. b[k].f = "alt"
      BY <3>2, <3>3
    <3> QED BY <3>1, <3>4
  <2>7. \/ k \in 1 .. Len(A) \/ k \in p + 1 .. q - 1 \/ k = p \/ k = q \/ k = Len(b)
        \/ k = q + 1 /\ Len(C) = 1
    <3>1. Len(A) \in Nat /\ Len(B) \in Nat
      BY <1>1
    <3> DEFINE la == Len(A)
               lb == Len(B)
               lc == Len(C)
               n == Len(b)
    <3>2. /\ la \in Nat /\ lb \in Nat /\ lc \in {0, 1} /\ p = la + 1 /\ q = p + lb + 1
          /\ n = q + lc + 1 /\ k \in 1 .. n
      BY <1>1, <2>1, <3>1
    <3> HIDE DEF la, lb, lc, n
    <3>3. \/ k \in 1 .. la \/ k \in p + 1 .. q - 1 \/ k = p \/ k = q \/ k = n
          \/ k = q + 1 /\ lc = 1
      BY <3>2, SMT
    <3> QED BY <3>3 DEF la, lb, lc, n
  <2> QED BY <2>3, <2>4, <2>5, <2>6, <2>7, Zenon
<1>9. AltitudeLeft(last, b)
  <2>1. CASE Len(C) = 0
    <3>1. none
      BY <1>1, <1>2, <1>3, <2>1 DEF At
    <3>2. last = <<Tok("none", "digit")>>
      BY <3>1 DEF AltitudeZero
    <3>3. \A k \in 1 .. Len(b) : b[k].f # "alt"
      BY <1>8, <2>1
    <3> HIDE DEF last
    <3> QED BY <3>2, <3>3 DEF AltitudeLeft
  <2>2. CASE Len(C) = 1
    <3>1. b[q + 1] = C[1] /\ C[1].f = "alt" /\ C[1].form # "x" /\ C[1] \in Token
      BY <1>0, <1>2, <2>2, ElementOfSeq DEF Height
    <3>2. ~none
      BY <3>1 DEF At
    <3>3. e = q + 2
      <4>1. q + 1 \in Nat /\ q + 2 \in (q + 1) + 1 .. Len(b)
        BY <1>1, <1>2, <2>2
      <4>2. At(b, q + 2, "x")
        BY <1>1, <1>2, <1>3, <2>2 DEF At
      <4>3. \A m \in (q + 1) + 1 .. (q + 2) - 1 : ~At(b, m, "x")
        BY <1>1
      <4> HIDE DEF q
      <4> QED BY <1>2, <4>1, <4>2, <4>3, StopsAt
    <3>4. r = q + 2 /\ (q + 2) - 1 = q + 1 /\ q + 2 <= Len(b) /\ q + 1 \in 1 .. Len(b)
      <4>1. (q + 2) - 1 = q + 1 /\ q + 2 <= Len(b) /\ q + 1 \in 1 .. Len(b)
        BY <1>1, <1>2, <2>2
      <4> HIDE DEF none, e, q
      <4> QED BY <3>2, <3>3, <4>1
    <3>5. ~(r > Len(b))
      <4> HIDE DEF r, q
      <4> QED BY <1>2, <3>4, LenProperties
    <3> HIDE DEF q, r, none
    <3>6. last = <<LastChar(C[1])>>
      BY <3>1, <3>2, <3>4, <3>5
    <3> HIDE DEF last
    <3>7. LastChar(C[1]) = Tok("alt", IF C[1].form = "comma" THEN "comma" ELSE "digit")
      BY <3>1 DEF LastChar, Token, Tok
    <3> QED BY <3>1, <3>4, <3>6, <3>7 DEF AltitudeLeft
  <2> QED BY <1>1, <2>1, <2>2
<1>10. AllOf(A, b, {"ns", "lat"})
  <2>1. /\ 1 \in Nat \ {0} /\ p \in Nat /\ p = 1 + Len(A) /\ p <= Len(b) + 1
        /\ \A i \in 1 .. Len(A) : b[1 - 1 + i] = A[i]
    BY <1>1, <1>2
  <2> HIDE DEF p, q
  <2> QED BY <1>2, <1>6, <1>8, <2>1, StretchIsAll
<1>11. AllOf(B, b, {"ew", "lng"})
  <2>1. p + 1 \in Nat \ {0} /\ q \in Nat /\ q = (p + 1) + Len(B) /\ q <= Len(b) + 1
    BY <1>1, <1>2
  <2>2. \A i \in 1 .. Len(B) : b[(p + 1) - 1 + i] = B[i]
    <3> TAKE i \in 1 .. Len(B)
    <3>1. (p + 1) - 1 + i = p + i
      BY <1>1
    <3> QED BY <1>2, <3>1
  <2> HIDE DEF p, q
  <2> QED BY <1>2, <1>7, <1>8, <2>1, <2>2, StretchIsAll
<1> HIDE DEF p, q
<1>12. g = <<Field(b, 1, p), Field(b, p + 1, q), last>>
  <2>1. g = LET p1 == NextDelim(b, 1, "comma")
                q1 == NextDelim(b, p1 + 1, "comma")
                none1 == q1 + 1 <= Len(b) /\ At(b, q1 + 1, "x")
                r1 == IF none1 THEN q1 + 1 ELSE NextDelim(b, q1 + 1, "x")
            IN  <<Field(b, 1, p1), Field(b, p1 + 1, q1),
                  IF none1 \/ r1 > Len(b) THEN AltitudeZero ELSE <<LastChar(b[r1 - 1])>>>>
    BY Zenon DEF ParsePosition, Parsed
  <2> QED BY <1>4, <1>5, <2>1
<1> HIDE DEF last, g
<1>13. Len(g) = 3 /\ g[1] = A /\ g[2] = B /\ g[3] = last
  BY <1>6, <1>7, <1>12
<1>14. Len(Places[1]) = 2 /\ Places[1][1] = {"ns", "lat"} /\ Places[1][2] = {"ew", "lng"}
  BY DEF Places
<1>15. \A n \in 1 .. 2 : AllOf(g[n], b, Places[1][n])
  <2>1. \A n \in 1 .. 2 : n = 1 \/ n = 2
    OBVIOUS
  <2>2. AllOf(g[1], b, Places[1][1]) /\ AllOf(g[2], b, Places[1][2])
    BY <1>10, <1>11, <1>13, <1>14, Zenon
  <2> QED BY <2>1, <2>2, Zenon
<1>16. Faithful(1, b, g)
  <2>1. Len(g) = Len(Places[1]) + (IF 1 = 1 THEN 1 ELSE 0)
    BY <1>13, <1>14
  <2>2. AltitudeLeft(g[3], b)
    BY <1>9, <1>13, Zenon
  <2>3. \A n \in 1 .. Len(Places[1]) : AllOf(g[n], b, Places[1][n])
    BY <1>14, <1>15, Zenon
  <2> QED BY <2>1, <2>2, <2>3, Zenon DEF Faithful
<1> QED BY <1>16 DEF g

(* Two texts in a row: the first may be missing.                           *)
LEMMA TwoPuts ==
    ASSUME NEW f \in Fields, NEW g \in Fields,
           NEW u \in Forms \cup {"empty"}, NEW v \in Forms, v \notin {"empty", "comma"},
           f \in Letters
    PROVE  Worded(Put(f, u) \o Put(g, v), {f, g})
<1>1. Tok(g, v) \in Token /\ (u # "empty" => Tok(f, u) \in Token)
  BY TokenType
<1>2. CASE u = "empty"
  <2>1. Put(f, u) \o Put(g, v) = <<Tok(g, v)>>
    BY <1>2 DEF Put
  <2> QED BY <1>1, <2>1 DEF Tok, Worded
<1>3. CASE u # "empty"
  <2>1. Put(f, u) = <<Tok(f, u)>> /\ Put(g, v) = <<Tok(g, v)>>
    BY <1>3 DEF Put
  <2> DEFINE s == <<Tok(f, u)>>
             A == s \o <<Tok(g, v)>>
  <2>2. s \in Seq(Token) /\ Len(s) = 1 /\ s[1] = Tok(f, u)
    BY <1>1, <1>3
  <2> HIDE DEF s
  <2>3. /\ A \in Seq(Token) /\ Len(A) = Len(s) + 1 /\ A[Len(s) + 1] = Tok(g, v)
        /\ \A i \in 1 .. Len(s) : A[i] = s[i]
    BY <1>1, <2>2, AddOne
  <2>4. Put(f, u) \o Put(g, v) = A
    BY <2>1 DEF s
  <2> HIDE DEF A
  <2>5. Len(A) = 2 /\ A[1] = Tok(f, u) /\ A[2] = Tok(g, v)
    BY <2>2, <2>3
  <2>6. A # <<>>
    BY <2>3, <2>5, EmptySeq
  <2>7. A[1].f = f /\ A[2].f = g /\ A[2].form = v
    BY <2>5 DEF Tok
  <2>8. \A i \in 1 .. Len(A) : A[i].f \in {f, g}
    <3>1. \A i \in 1 .. Len(A) : i = 1 \/ i = 2
      BY <2>5
    <3> QED BY <2>7, <3>1
  <2>9. \A i \in 2 .. Len(A) : A[i].form # "comma"
    <3>1. \A i \in 2 .. Len(A) : i = 2
      BY <2>5
    <3> QED BY <2>7, <3>1
  <2>10. \A h \in {f, g} \ Letters : \E i \in 1 .. Len(A) : A[i].f = h
    <3>1. 2 \in 1 .. Len(A) /\ A[2].f = g
      BY <2>5, <2>7
    <3> QED BY <3>1
  <2>11. Worded(A, {f, g})
    BY <2>3, <2>6, <2>8, <2>9, <2>10 DEF Worded
  <2> QED BY <2>4, <2>11
<1> QED BY <1>2, <1>3

(* Of what the drone composes once both coordinates have been converted    *)
(* every field the parser takes is in its place.                           *)
LEMMA LocatsTaken ==
    ASSUME NEW nmea, \A f \in PositionFields : nmea[f].form \in Forms \cup {"empty"},
           nmea.lat.form \notin {"empty", "comma"}, nmea.lng.form \notin {"empty", "comma"},
           nmea.alt.form # "x"
    PROVE  Faithful(1, Locats(nmea), ParsePosition(Locats(nmea)).fields)
<1> DEFINE A == Put("ns", nmea.ns.form) \o Put("lat", nmea.lat.form)
           B == Put("ew", nmea.ew.form) \o Put("lng", nmea.lng.form)
           C == Put("alt", nmea.alt.form)
<1>1. /\ nmea.ns.form \in Forms \cup {"empty"} /\ nmea.ew.form \in Forms \cup {"empty"}
      /\ nmea.alt.form \in Forms \cup {"empty"}
      /\ nmea.lat.form \in Forms /\ nmea.lng.form \in Forms
  <2>1. \A f \in {"ns", "lat", "ew", "lng", "alt"} : nmea[f].form \in Forms \cup {"empty"}
    BY DEF PositionFields
  <2> QED BY <2>1
<1>2. /\ "ns" \in Fields /\ "lat" \in Fields /\ "ew" \in Fields /\ "lng" \in Fields
      /\ "alt" \in Fields
  BY DEF Fields, PositionFields
<1>3. Worded(A, {"ns", "lat"}) /\ Worded(B, {"ew", "lng"})
  BY <1>1, <1>2, TwoPuts DEF Letters
<1>4. Height(C)
  <2>1. C \in Seq(Token)
    BY <1>1, <1>2, PutType
  <2>2. CASE nmea.alt.form = "empty"
    BY <2>1, <2>2 DEF Put, Height
  <2>3. CASE nmea.alt.form # "empty"
    BY <2>1, <2>3 DEF Put, Tok, Height
  <2> QED BY <2>2, <2>3
<1>5. Locats(nmea) = A \o <<Comma>> \o B \o <<Comma>> \o C \o <<Cross>>
  BY Zenon DEF Locats
<1> HIDE DEF A, B, C
<1> QED BY <1>3, <1>4, <1>5, PositionTaken

(* Before the first sentence the parser never gets through a position.     *)
LEMMA BlankNeverEnds ==
    LET b == <<Comma, Comma, Cross>> IN b \in Seq(Token) /\ ~ParsePosition(b).done
<1> DEFINE b == <<Comma, Comma, Cross>>
           p == NextDelim(b, 1, "comma")
           q == NextDelim(b, p + 1, "comma")
           none == q + 1 <= Len(b) /\ At(b, q + 1, "x")
           e == NextDelim(b, q + 1, "x")
           r == IF none THEN q + 1 ELSE e
<1>1. b \in Seq(Token) /\ Len(b) = 3
  BY TokenType
<1>2. At(b, 2, "comma")
  BY DEF At, Comma, Tok
<1> HIDE DEF b
<1>3. p = 2
  <2>1. 1 \in Nat /\ 2 \in 1 + 1 .. Len(b)
    BY <1>1
  <2>2. p \in 1 + 1 .. 2
    BY <1>1, <1>2, <2>1, StopsBy
  <2> QED BY <2>2
<1> HIDE DEF p
<1>4. q = 4
  <2>1. p + 1 \in Nat
    BY <1>3
  <2>2. q \in 1 .. Len(b) + 1 /\ (q <= Len(b) => q > p + 1)
    BY <1>1, <2>1, NextDelimProperties
  <2> QED BY <1>1, <1>3, <2>2
<1> HIDE DEF q
<1>5. ~none
  BY <1>1, <1>4
<1>6. e = 4
  <2>1. q + 1 \in Nat
    BY <1>4
  <2>2. e \in 1 .. Len(b) + 1 /\ (e <= Len(b) => e > q + 1)
    BY <1>1, <2>1, NextDelimProperties
  <2> QED BY <1>1, <1>4, <2>2
<1> HIDE DEF none, e
<1>7. ~(r <= Len(b))
  BY <1>1, <1>5, <1>6
<1>8. ParsePosition(b).done <=> r <= Len(b)
  BY Zenon DEF ParsePosition, Parsed, p, q, none, e
<1> QED BY <1>1, <1>7, <1>8 DEF b
=============================================================================
