------------------------------ MODULE Payload ------------------------------
(***************************************************************************)
(* The text messages between drone and ground station: how the drone's     *)
(* loop() strings the fields together and how the receiver's loop() takes  *)
(* them apart again.                                                       *)
(*                                                                         *)
(* A body (what follows the "1:" ... "5:" prefix) is a sequence of tokens. *)
(* A token is a run of characters written by one +=; it remembers the field*)
(* f it was written for and its form: "comma" and "x" are the delimiter    *)
(* characters, the other forms are non-empty texts that contain neither.   *)
(* An empty string leaves no token behind.                                 *)
(***************************************************************************)
EXTENDS Naturals, Sequences, FiniteSetsExt

PositionFields == {"ns", "lat", "ew", "lng", "alt"}
Fields == PositionFields \cup {"rh", "tc", "tf", "hic", "hif", "signal", "volt",
                               "dens", "pres", "atm", "mean", "sep", "none"}
Forms == {"comma", "x", "text", "deg", "junk", "digit",
          "zero", "good", "bad", "nan"}
Token == [f : Fields, form : Forms]

Tok(f, form) == [f |-> f, form |-> form]
Comma == Tok("sep", "comma")
Cross == Tok("sep", "x")

(* String += of a field: nothing when the string is empty. *)
Put(f, form) == IF form = "empty" THEN <<>> ELSE <<Tok(f, form)>>

-----------------------------------------------------------------------------
(* Composing, prototype1_after_first_award loop().                         *)

(* locats, from the fields of the last GGA sentences. *)
Locats(nmea) ==
    (Put("ns", nmea.ns.form) \o Put("lat", nmea.lat.form)) \o <<Comma>> \o
    (Put("ew", nmea.ew.form) \o Put("lng", nmea.lng.form)) \o <<Comma>> \o
    Put("alt", nmea.alt.form) \o <<Cross>>

(* A heat index is a number only when both its arguments are. *)
HeatForm(h, t) == IF "nan" \in {h, t} THEN "nan" ELSE "text"

(* humids: a float always prints as something. *)
Humids(h, t) ==
    <<Tok("rh", h), Comma, Tok("tc", t), Comma, Tok("tf", t), Comma,
      Tok("hic", HeatForm(h, t)), Comma, Tok("hif", HeatForm(h, t)), Cross>>

Dusts == <<Tok("signal", "text"), Comma, Tok("volt", "text"), Comma,
           Tok("dens", "text"), Cross>>

GyPrs == <<Tok("pres", "text"), Comma, Tok("atm", "text"), Cross>>

-----------------------------------------------------------------------------
(* Parsing, receiver1 loop().                                              *)

At(b, k, c) == b[k].form = c  \* message.charAt(k) == c

(* Mutant of NextDelim: a while loop, which may stop where it starts. *)
NextDelimWhile(b, i, c) ==
    Min({k \in i .. Len(b) : At(b, k, c)} \cup {Len(b) + 1})

(* Where do { ... i++; } while (message.charAt(i) != c) stops when entered *)
(* at i: the character at i is consumed whatever it is, and past the end   *)
(* charAt() yields 0 for ever.  Len(b) + 1 stands for "never".             *)
NextDelim(b, i, c) ==
    Min({k \in i + 1 .. Len(b) : At(b, k, c)} \cup {Len(b) + 1})

Field(b, from, stop) == SubSeq(b, from, stop - 1)

(* Every parser gives the fields it fills and whether it ever finishes. *)
Parsed(b, last, fields) == [done |-> last <= Len(b), fields |-> fields]

(* The Altitude loop empties the string before it appends, so only the     *)
(* last character before the x is left of what it consumed.                *)
LastChar(tok) == IF tok.form = "comma" THEN tok ELSE [tok EXCEPT !.form = "digit"]

AltitudeZero == <<Tok("none", "digit")>>  \* Altitude = "0"

ParsePosition(b) ==
    LET p == NextDelim(b, 1, "comma")
        q == NextDelim(b, p + 1, "comma")
        none == q + 1 <= Len(b) /\ At(b, q + 1, "x")
        r == IF none THEN q + 1 ELSE NextDelim(b, q + 1, "x")
    IN  Parsed(b, r, <<Field(b, 1, p), Field(b, p + 1, q),
                       IF none \/ r > Len(b) THEN AltitudeZero ELSE <<LastChar(b[r - 1])>>>>)

ParseHumidity(b) ==
    LET p == NextDelim(b, 1, "comma")
        q == NextDelim(b, p + 1, "comma")
        r == NextDelim(b, q + 1, "comma")
        s == NextDelim(b, r + 1, "comma")
        t == NextDelim(b, s + 1, "x")
    IN  Parsed(b, t, <<Field(b, 1, p), Field(b, p + 1, q), Field(b, q + 1, r),
                       Field(b, r + 1, s), Field(b, s + 1, t)>>)

ParseDust(b) ==
    LET p == NextDelim(b, 1, "comma")
        q == NextDelim(b, p + 1, "comma")
        r == NextDelim(b, q + 1, "x")
    IN  Parsed(b, r, <<Field(b, 1, p), Field(b, p + 1, q), Field(b, q + 1, r)>>)

ParsePressure(b) ==
    LET p == NextDelim(b, 1, "comma")
        q == NextDelim(b, p + 1, "x")
    IN  Parsed(b, q, <<Field(b, 1, p), Field(b, p + 1, q)>>)

Kinds == 1 .. 4  \* the prefixes this transmitter sends

Parse(kind, b) ==
    CASE kind = 1 -> ParsePosition(b)
      [] kind = 2 -> ParseHumidity(b)
      [] kind = 3 -> ParseDust(b)
      [] kind = 4 -> ParsePressure(b)
-----------------------------------------------------------------------------
(* What a parse should give, told by the fields the texts were written for.*)

(* For each kind, the fields whose text belongs into each of the station's *)
(* variables, in the order the parser fills them; an altitude, the third   *)
(* of a position, is treated apart.                                        *)
Places ==
    << << {"ns", "lat"}, {"ew", "lng"} >>,
       << {"rh"}, {"tc"}, {"tf"}, {"hic"}, {"hif"} >>,
       << {"signal"}, {"volt"}, {"dens"} >>,
       << {"pres"}, {"atm"} >> >>

Letters == {"ns", "ew"}  \* the letter of a hemisphere may be empty

(* text is all that b has of the fields fs, in one piece, and b has them.  *)
AllOf(text, b, fs) ==
    \E first, last \in 1 .. Len(b) :
        /\ text = SubSeq(b, first, last)
        /\ \A k \in 1 .. Len(b) : b[k].f \in fs <=> k \in first .. last
        /\ \A f \in fs \ Letters : \E k \in first .. last : b[k].f = f

(* The last character of the altitude in b; "0" when b has none.           *)
AltitudeLeft(text, b) ==
    \/ \E k \in 1 .. Len(b) :
          /\ b[k].f = "alt"
          /\ text = <<Tok("alt", IF b[k].form = "comma" THEN "comma" ELSE "digit")>>
    \/ text = <<Tok("none", "digit")>> /\ \A k \in 1 .. Len(b) : b[k].f # "alt"

Faithful(kind, b, fields) ==
    /\ Len(fields) = Len(Places[kind]) + (IF kind = 1 THEN 1 ELSE 0)
    /\ \A n \in 1 .. Len(Places[kind]) : AllOf(fields[n], b, Places[kind][n])
    /\ kind = 1 => AltitudeLeft(fields[3], b)
=============================================================================
