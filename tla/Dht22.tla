------------------------------- MODULE Dht22 -------------------------------
(***************************************************************************)
(* One DHT22 object against the millisecond counter of the Arduino, which  *)
(* wraps.  Time is counted in ticks; Period ticks are the 2000 ms of       *)
(* read(), Wrap ticks the 2^32 ms of millis().                             *)
(*                                                                         *)
(* "age" and "idle" are true elapsed times the program does not have: since*)
(* the last transfer began, and since read() was last called.  The callers *)
(* poll: no more than Gap ticks pass between two calls.                    *)
(***************************************************************************)
EXTENDS Dht22Driver, Integers

CONSTANTS
    Period,  \* ticks in the 2000 ms limit of read()
    Wrap,    \* ticks after which millis() is 0 again
    Gap      \* most ticks between two calls of read()

ASSUME PeriodAssumption == Period \in Nat \ {0}
ASSUME GapAssumption    == Gap \in Nat \ {0}
ASSUME WrapAssumption   == Wrap \in Nat /\ Wrap > Period + Gap

VARIABLES
    dht,           \* the fields of the object, see Dht22Driver
    lastreadtime,  \* _lastreadtime
    clock,         \* millis()
    age,           \* true ticks since the last transfer began
    idle           \* true ticks since the last call of read()

vars == <<dht, lastreadtime, clock, age, idle>>

(* begin() leaves _lastreadtime at 0; millis() is small but not 0 by then. *)
Init ==
    /\ dht = PowerOn
    /\ lastreadtime = 0
    /\ clock \in 0 .. Gap
    /\ age = 0
    /\ idle = 0

Tick ==
    /\ idle < Gap
    /\ clock' = (clock + 1) % Wrap
    /\ idle' = idle + 1
    /\ age' = IF dht.first THEN 0 ELSE age + 1
    /\ UNCHANGED <<dht, lastreadtime>>

(* Mutant of RolledOver: the rollover is undone by going below 0. *)
RolledBack == IF clock < lastreadtime THEN lastreadtime - Wrap ELSE lastreadtime

(* _lastreadtime once read() has looked for a rollover of millis().        *)
RolledOver == IF clock < lastreadtime THEN 0 ELSE lastreadtime

(* Mutants of Due: off by one, and a rollover counts as due. *)
DueLate  == clock - RolledOver > Period
DueEarly == clock < lastreadtime \/ clock - lastreadtime >= Period

Due == clock - RolledOver >= Period

(* One call of read() with result r, by a caller that leaves object d. *)
Read(r, d) ==
    /\ dht' = d
    /\ lastreadtime' = IF r.fresh THEN clock ELSE RolledOver
    /\ age' = IF r.fresh THEN 0 ELSE age
    /\ idle' = 0
    /\ UNCHANGED clock

ReadHumidity    == \E r \in ReadResults(dht, Due) : Read(r, SetHumidity(r))
ReadTemperature == \E r \in ReadResults(dht, Due) : Read(r, SetTemperature(r))

Next == Tick \/ ReadHumidity \/ ReadTemperature

Spec == Init /\ [][Next]_vars

-----------------------------------------------------------------------------
(* Every variable keeps the shape the driver's declarations give it.       *)
TypeOK ==
    /\ dht \in Driver
    /\ lastreadtime \in 0 .. Wrap - 1
    /\ clock \in 0 .. Wrap - 1
    /\ age \in Nat
    /\ idle \in 0 .. Gap

(* read() never addresses the sensor twice within the two seconds the      *)
(* sensor needs, a rollover of millis() in between included.               *)
RateLimit == [][age' < age => age >= Period]_vars

(* The age data[] had when read() last served it.                          *)
ServedAge == age - idle

(* While the program polls, what read() serves is never older than twice   *)
(* the limit and one polling gap: the rollover branch, which restarts the  *)
(* two seconds from 0, may double the limit but cannot freeze a reading.   *)
AgeBounded == ServedAge <= 2 * Period + Gap - 2

(* The comment on the early return of read(): "return last correct         *)
(* measurement".  A number the driver hands out was then never computed    *)
(* from a transfer that failed.                                            *)
ServesCorrect == dht.rh.form # "bad" /\ dht.tc.form # "bad"
=============================================================================
