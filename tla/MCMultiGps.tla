----------------------------- MODULE MCMultiGps -----------------------------
(* Two receivers for TLC: the first with a position, the second without a  *)
(* fix; or both sending sentences of another kind only.                    *)
EXTENDS MultiGps

Sentence == <<"hdr", "lat", "lng", "eol">>

Positions   == [n \in Device |-> IF n = 1 THEN Sentence ELSE <<"hdr", "eol">>]
NoPositions == [n \in Device |-> <<"other", "eol">>]
=============================================================================
