----------------------------- MODULE SerialPipe -----------------------------
(***************************************************************************)
(* What a serial port promises the program that uses it, with its output   *)
(* wired to its input: bytes arrive in the order they were written, as     *)
(* they were written, none twice; one is lost only if it finds the receive *)
(* buffer full.  peek(), read() and available() see the buffer as it was at*)
(* one instant of the call.                                                *)
(***************************************************************************)
EXTENDS Sequences, Integers

CONSTANTS
    Bytes,  \* what can be written
    Room    \* bytes the receive buffer holds

VARIABLES
    pipe,   \* written and not yet arrived, oldest first
    inbox,  \* arrived and not yet read, oldest first
    answer  \* what the last call returned: a byte, <<-1>> for none, <<n>> for a
            \* number, <<>> if nothing or not yet

vars == <<pipe, inbox, answer>>

Init == pipe = <<>> /\ inbox = <<>> /\ answer = <<>>

Call == answer' = <<>> /\ UNCHANGED <<pipe, inbox>>

Write(b) == pipe' = Append(pipe, b) /\ UNCHANGED <<inbox, answer>>

Arrive ==
    /\ pipe # <<>> /\ Len(inbox) < Room
    /\ inbox' = Append(inbox, Head(pipe))
    /\ pipe' = Tail(pipe)
    /\ UNCHANGED answer

Lose ==
    /\ pipe # <<>> /\ Len(inbox) = Room
    /\ pipe' = Tail(pipe)
    /\ UNCHANGED <<inbox, answer>>

Read ==
    /\ inbox # <<>>
    /\ answer' = Head(inbox)
    /\ inbox' = Tail(inbox)
    /\ UNCHANGED pipe

Peek == inbox # <<>> /\ answer' = Head(inbox) /\ UNCHANGED <<pipe, inbox>>

FindNothing == inbox = <<>> /\ answer' = <<-1>> /\ UNCHANGED <<pipe, inbox>>

Available == answer' = <<Len(inbox)>> /\ UNCHANGED <<pipe, inbox>>

FlushInput == inbox' = <<>> /\ UNCHANGED <<pipe, answer>>

Next ==
    \/ \E b \in Bytes : Write(b)
    \/ Arrive \/ Lose
    \/ Call \/ Read \/ Peek \/ FindNothing \/ Available \/ FlushInput

Spec == Init /\ [][Next]_vars
=============================================================================
