---------------------------- MODULE MCDroneLink ----------------------------
(* Drone and station together, for a few rounds of the drone's loop().     *)
EXTENDS DroneLink

WholeOnly == {14}
SomeCut   == {2, 14}

NoPress  == {{}}
AnyPress == SUBSET {"flip", "upload"}
=============================================================================
