------------------------------- MODULE Radio -------------------------------
(***************************************************************************)
(* The air between drone and ground station, as the sketches use the       *)
(* nRF24L01p library: one direction, no acknowledgement, and at the far    *)
(* end a receive FIFO of Depth messages that drops what arrives when it is *)
(* full.  Messages may be lost; they are not reordered or duplicated.      *)
(***************************************************************************)
EXTENDS Payload

CONSTANT Depth  \* messages the receive FIFO holds (3 on the nRF24L01+)

ASSUME DepthAssumption == Depth \in Nat \ {0}

VARIABLE air  \* contents of the receive FIFO

(* What travels: a text, whole or cut off by the radio, and three ghosts:  *)
(* the round of the drone's loop() it was composed in, whether the drone   *)
(* had found a GGA sentence by then, and whether it was cut.               *)
Packet == [kind : Kinds, seq : Nat, located : BOOLEAN, cut : BOOLEAN,
           body : Seq(Token)]

(* transmitter.send(FAST) *)
Transmit(m) ==
    \/ UNCHANGED air  \* lost, or no room left
    \/ Len(air) < Depth /\ air' = Append(air, m)
=============================================================================
