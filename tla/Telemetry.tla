----------------------------- MODULE Telemetry -----------------------------
(***************************************************************************)
(* What the radio link promises its user, seen from the display: for every *)
(* kind of message the station shows the values of one round of the drone, *)
(* rounds are shown in the order they happened and none twice, any may be  *)
(* missed, and a restart of the station forgets them all.                  *)
(***************************************************************************)
EXTENDS Naturals

CONSTANT Kinds

VARIABLES
    latest,  \* rounds the drone has composed
    shown    \* kind -> round whose values the station holds, 0 for none

Init == latest = 0 /\ shown = [k \in Kinds |-> 0]

Compose == latest' = latest + 1 /\ UNCHANGED shown

Show(k) ==
    /\ \E n \in shown[k] + 1 .. latest : shown' = [shown EXCEPT ![k] = n]
    /\ UNCHANGED latest

Forget == shown' = [k \in Kinds |-> 0] /\ UNCHANGED latest

Next == Compose \/ Forget \/ \E k \in Kinds : Show(k)

Spec == Init /\ [][Next]_<<latest, shown>>
=============================================================================
