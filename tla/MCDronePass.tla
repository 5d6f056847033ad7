---------------------------- MODULE MCDronePass ----------------------------
(* The drone's on-board computations for TLC: the calibration of the data  *)
(* sheet's example and one with a larger b2, raw temperatures of -12 and 80*)
(* degrees (at 80 the product with that b2 no longer fits), a window of    *)
(* three altitudes, and an int of 3 bits.                                  *)
EXTENDS DronePass

DataSheet ==
    [ac1 |-> 408, ac2 |-> -72, ac3 |-> -14383, ac4 |-> 32741, ac5 |-> 32757, ac6 |-> 23153,
     b1 |-> 6190, b2 |-> 4, mc |-> -8711, md |-> 2868]

MCCalibrations == {DataSheet, [DataSheet EXCEPT !.b2 = 33]}
MCUts          == {25000, 37000}
MCUps          == {23421, 42949}
MCBeyond       == {7}
=============================================================================
