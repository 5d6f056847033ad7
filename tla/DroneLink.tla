----------------------------- MODULE DroneLink -----------------------------
(***************************************************************************)
(* The drone and the ground station together.  They run in parallel, each  *)
(* at its own pace, and meet only in the FIFO "air".                       *)
(***************************************************************************)
EXTENDS Transmitter, Receiver

vars == <<txvars, rxvars, air>>

Init == TxInit /\ RxInit

DroneStep   == TxNext /\ UNCHANGED rxvars
StationStep == RxNext /\ UNCHANGED txvars

Next == DroneStep \/ StationStep

Spec == Init /\ [][Next]_vars

(* Both processors run.  Nothing is assumed of the access point, the       *)
(* server, the sensors or the power supplies.                              *)
Fairness ==
    /\ WF_vars(Loop /\ UNCHANGED rxvars)
    /\ WF_vars(Run /\ UNCHANGED txvars)

FairSpec == Spec /\ Fairness

-----------------------------------------------------------------------------
(* The station's variables have the shapes its declarations give them.     *)
TypeOK ==
    /\ TxTypeOK
    /\ rpc \in {"wifi", "loop", "stuck", "buttons", "connect", "await", "answer"}
    /\ groups \in [Kinds -> Group]
    /\ j \in 1 .. 5
    /\ lcd \in 0 .. 5
    /\ delivered \in BOOLEAN
    /\ stuck \in Seq(Packet)

(* Whenever the station takes new values, they are those of the message at *)
(* the head of its FIFO: each variable gets the whole of its own field, no *)
(* part of a neighbour's and nothing short of it, although a field may be  *)
(* empty or itself be a comma.  Only of an altitude no more than the last  *)
(* character is left (AltitudeLeft).                                       *)
FieldsInPlace ==
    [][\A k \in Kinds : groups'[k] # groups[k] /\ groups'[k].from > 0 =>
          Head(air).kind = k /\ Faithful(k, Head(air).body, groups'[k].fields)]_vars

(* The station can be caught in its parser by two messages only: a         *)
(* position sent before the drone ever found a GGA sentence, and a message *)
(* that the radio cut off.                                                 *)
StuckExplained ==
    \A i \in 1 .. Len(stuck) :
        stuck[i].cut \/ (stuck[i].kind = 1 /\ ~stuck[i].located)

(* A completed display pass has drawn one of the four pages: the flip      *)
(* button never selects a page that does not exist, even when it is        *)
(* pressed together with the upload button.                                *)
PageDrawn == rpc = "buttons" => lcd \in 1 .. 4

(* The values on the station never go back to an earlier round of the      *)
(* drone, nor are they replaced by the same round again, unless the        *)
(* station lost them in a restart or a parse that never ended.             *)
NeverBack ==
    [][\A k \in Kinds : groups'[k] # groups[k] =>
          groups'[k].from > groups[k].from \/ rpc' \in {"wifi", "stuck"}]_vars

(* What the display says after an upload, "data has been uploaded", is     *)
(* true: the server was sent the data.                                     *)
UploadedIsTrue == lcd = Uploaded => delivered

(* The station returns to polling the radio again and again; the only      *)
(* places where it may stay for good are the wait for the access point and *)
(* an answer of the server that never ends.                                *)
KeepsPolling == []<>(rpc = "loop") \/ <>[](rpc = "wifi") \/ <>[](rpc = "answer")

(* The link implements the telemetry it promises.  A station caught in its *)
(* parser counts as having forgotten everything: only a restart follows.   *)
Shown == [k \in Kinds |-> IF rpc = "stuck" THEN 0 ELSE groups[k].from]

Promise == INSTANCE Telemetry WITH latest <- seq, shown <- Shown

(* Every step of drone and station is a step of the promise or none.       *)
Implements == Promise!Spec
=============================================================================
