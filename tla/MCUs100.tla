------------------------------ MODULE MCUs100 ------------------------------
(* The alarm with the distances at both sides of every threshold (1 and    *)
(* 1000 cm, 30, 20, 10 and 5 cm) and a buffer of four bytes.               *)
EXTENDS Us100

MCDistances == {19, 59, 109, 209, 299, 300, 10000}
MCNoise     == {0}
=============================================================================
