--------------------------- MODULE MCTransmitter ---------------------------
(* The drone alone for three rounds of loop(), with sentences cut at every *)
(* field that is sent, before the first and after the last of them.        *)
EXTENDS Transmitter

AllCutPoints == {0, 1, 2, 3, 4, 8, 14}
FewCutPoints == {2, 14}
=============================================================================
