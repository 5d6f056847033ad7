------------------------------ MODULE MCDht22 ------------------------------
(* The driver with a two-second limit of four ticks, polled at least every *)
(* three ticks, against a millisecond counter that wraps after 14 ticks.   *)
EXTENDS Dht22
=============================================================================
