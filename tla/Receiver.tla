------------------------------ MODULE Receiver ------------------------------
(***************************************************************************)
(* The ground station: receiver1.ino on an ESP8266.  loop() takes at most  *)
(* one message out of the radio's FIFO, parses it, draws one page, reads   *)
(* two buttons and, on request, uploads the latest values over HTTP.       *)
(*                                                                         *)
(* The String variables are kept as one group per message kind, in the     *)
(* order the parser fills them; "from" (ghost) is the round of the drone's *)
(* loop() the message came from, 0 for none since the last restart.        *)
(* Prefix "5:" is left out: the paired transmitter never sends it and      *)
(* Altmean is neither drawn nor uploaded.                                  *)
(***************************************************************************)
EXTENDS Radio

(* The buttons the operator may be holding when loop() reads them: sets of *)
(* "flip" and "upload".                                                    *)
CONSTANT Presses

ASSUME ReceiverAssumption == Presses \subseteq SUBSET {"flip", "upload"}

VARIABLES
    rpc,        \* where setup(), loop() or HttpGet() is
    groups,     \* Latitude ... StaAtmos, by message kind
    j,          \* the page selected with the flip button
    lcd,        \* page on the display: 1..4, Uploaded or Cleared
    delivered,  \* ghost: the request of this upload reached the server
    stuck       \* ghost: the message the parser is caught in, if any

rxvars == <<rpc, groups, j, lcd, delivered, stuck>>

Cleared  == 0
Uploaded == 5  \* "data has been uploaded"

Group    == [from : Nat, fields : Seq(Seq(Token))]
NoGroup  == [from |-> 0, fields |-> <<>>]
NoGroups == [k \in Kinds |-> NoGroup]

RxInit ==
    /\ rpc = "wifi"
    /\ groups = NoGroups
    /\ j = 1
    /\ lcd = Cleared
    /\ delivered = FALSE
    /\ stuck = <<>>
    /\ air = <<>>

(* setup() waits for the access point as long as it takes. *)
WifiUp ==
    /\ rpc = "wifi"
    /\ rpc' = "loop"
    /\ UNCHANGED <<groups, j, lcd, delivered, stuck, air>>

-----------------------------------------------------------------------------
(* The first part of loop(): poll, parse, draw.                            *)

Idle ==
    /\ rpc = "loop"
    /\ air = <<>>
    /\ lcd' = j
    /\ rpc' = "buttons"
    /\ UNCHANGED <<groups, j, delivered, stuck, air>>

Parsing == rpc = "loop" /\ air # <<>>

(* Mutants of Receive: it takes the newest message and leaves the others   *)
(* waiting; it fills the variables of the page selected.                   *)
ReceiveNewest ==
    /\ Parsing
    /\ LET m == air[Len(air)]
           p == Parse(m.kind, m.body)
       IN  /\ p.done
           /\ groups' = [groups EXCEPT ![m.kind] =
                            [from |-> m.seq, fields |-> p.fields]]
    /\ air' = SubSeq(air, 1, Len(air) - 1)
    /\ lcd' = j
    /\ rpc' = "buttons"
    /\ UNCHANGED <<j, delivered, stuck>>

ReceiveIntoPage ==
    /\ Parsing
    /\ LET m == Head(air)
           p == Parse(m.kind, m.body)
       IN  /\ p.done
           /\ groups' = [groups EXCEPT ![j] = [from |-> m.seq, fields |-> p.fields]]
    /\ air' = Tail(air)
    /\ lcd' = j
    /\ rpc' = "buttons"
    /\ UNCHANGED <<j, delivered, stuck>>

Receive ==
    /\ Parsing
    /\ LET m == Head(air)
           p == Parse(m.kind, m.body)
       IN  /\ p.done
           /\ groups' = [groups EXCEPT ![m.kind] =
                            [from |-> m.seq, fields |-> p.fields]]
    /\ air' = Tail(air)
    /\ lcd' = j
    /\ rpc' = "buttons"
    /\ UNCHANGED <<j, delivered, stuck>>

(* A delimiter is missing: the do-while never ends and the group stays     *)
(* half written.  The pages before it have had their turn to be drawn.     *)
GetStuck ==
    /\ Parsing
    /\ LET m == Head(air)
       IN  /\ ~Parse(m.kind, m.body).done
           /\ groups' = [groups EXCEPT ![m.kind] = NoGroup]
           /\ lcd' = IF j < m.kind THEN j ELSE lcd
           /\ stuck' = <<m>>
    /\ air' = Tail(air)
    /\ rpc' = "stuck"
    /\ UNCHANGED <<j, delivered>>

-----------------------------------------------------------------------------
(* The end of loop(): buttons and upload.                                  *)

(* Mutants of WrapPage: left out, and off by one. *)
WrapNever(p) == p
WrapLate(p)  == IF p > 5 THEN 1 ELSE p

WrapPage(p) == IF p > 4 THEN 1 ELSE p

Buttons ==
    /\ rpc = "buttons"
    /\ \E press \in Presses :
         LET p == IF "flip" \in press THEN j + 1 ELSE j
         IN  IF "upload" \in press
             THEN rpc' = "connect" /\ j' = p
             ELSE rpc' = "loop" /\ j' = WrapPage(p)
    /\ delivered' = FALSE
    /\ UNCHANGED <<groups, lcd, stuck, air>>

(* client.connect() and, when it succeeds, client.print(): the request may *)
(* still get lost. *)
Connect ==
    /\ rpc = "connect"
    /\ rpc' = "await"
    /\ delivered' \in BOOLEAN
    /\ UNCHANGED <<groups, j, lcd, stuck, air>>

(* Back in loop() after HttpGet(), however that ended. *)
AfterHttpGet ==
    /\ lcd' = Uploaded
    /\ j' = WrapPage(j)
    /\ rpc' = "loop"
    /\ UNCHANGED <<groups, delivered, stuck, air>>

(* Mutant of Timeout: HttpGet() waits for the answer of a served request. *)
TimeoutServed == rpc = "await" /\ delivered /\ AfterHttpGet

ConnectFails == rpc = "connect" /\ AfterHttpGet
Timeout      == rpc = "await" /\ AfterHttpGet  \* 5000 ms without an answer

(* The first byte of an answer is there; from now on no time is limited.   *)
AnswerBegins ==
    /\ rpc = "await" /\ delivered
    /\ rpc' = "answer"
    /\ UNCHANGED <<groups, j, lcd, delivered, stuck, air>>

(* The server has stopped sending: nothing is available any more. *)
Answered == rpc = "answer" /\ AfterHttpGet

-----------------------------------------------------------------------------
(* Restarts.                                                               *)

Restart ==
    /\ rpc' = "wifi"
    /\ groups' = NoGroups
    /\ j' = 1
    /\ lcd' = Cleared
    /\ delivered' = FALSE
    /\ stuck' = <<>>

(* The ESP8266's watchdog ends the endless loop.  Whether receiver.init()  *)
(* empties the FIFO is the radio library's business.                       *)
Watchdog == rpc = "stuck" /\ Restart /\ air' \in {air, <<>>}

(* The radio loses its power with the processor. *)
Unplugged == Restart /\ air' = <<>>

(* What the processor does by itself, apart from waiting for WiFi and for  *)
(* the end of an answer.                                                   *)
Run ==
    \/ Idle \/ Receive \/ GetStuck \/ Buttons
    \/ Connect \/ ConnectFails \/ AnswerBegins \/ Timeout \/ Watchdog

RxNext == Run \/ WifiUp \/ Answered \/ Unplugged
=============================================================================
