# A TLA+ verification of the Dronejai telemetry programs

Dronejai is a student drone project: an Arduino on the drone reads a GPS, a
DHT22 (humidity, temperature), a dust sensor and a BMP085 (pressure) and sends
the readings by radio; an ESP8266 on the ground shows them on a four-line
display and uploads them to a web server on request. Around this pair stand a
sketch that reads three GPS receivers, a distance alarm, dozens of trial
sketches, and the libraries they all use.

Paths below:

- **TX** `src/Don't touch me/prototype1_after_first_award/prototype1_after_first_award.ino`
- **RX** `src/for edit/07-july/receiver1/receiver1.ino`
- **DHT** `src/Arduino/libraries/cactus_io_DHT22/cactus_io_DHT22.cpp`
- **GPS3** `src/Transcopter/Multi GPS/Multiple-GPS_-_Neo-MnN_-_Kalman_3_Devices/` (its `.ino`)
- **US** `src/Arduino/ultrasonic_sound/ultrasonic_sound.ino`
- **ALT** `src/Arduino/libraries/AltSoftSerial-master/AltSoftSerial.cpp`

## 1. Inventory

| Component | State | Operations | Interacts with |
|---|---|---|---|
| DHT22 driver (DHT) | `data[]`, `firstreading`, `_lastreadtime`, `humidity`, `temperature_C/F` | `begin`, `read` (private), `readHumidity`, `readTemperature`, heat indices | the sensor, `millis()`; called by TX |
| Drone sketch (TX) | `nmea[]`, `pos`, `stringplace`, the `dht` object, dust, pressure and altitude globals | `setup`, `loop` = `callGPS`, `callHumid`, `callDust`, `callPresTemp`, compose, send, show a page | GPS (serial), DHT driver, BMP085 (I2C), radio |
| Message format | texts `1:`position `2:`humidity `3:`dust `4:`pressure | string concatenation in TX, do-while parsers in RX | TX and RX |
| Radio (nRF24L01p library, not in the repository) | receive FIFO | `txPL`/`send`, `available`/`read`/`rxPL` | TX and RX |
| Ground station (RX) | fourteen `String` values, page `j`, `message` | `setup` (waits for WiFi), `loop` (poll, parse, draw, buttons), `HttpGet` | radio, display, buttons, web server |
| BMP085 arithmetic (TX 310-492) | calibration words, `b5`, `pressure` | `bmp085GetTemperature`, `bmp085GetPressure`, in this order | I2C; the order is `loop`'s |
| Altitude window, drone display (TX 155-168, 212-249) | `altitudeTemp[]`, `count`, `countFinal`, `monitorCount` | store, average, count, draw one of three pages | none outside TX |
| Multi-GPS Kalman sketch (GPS3) | `nmea[3][15]`, the turn `n`, filter states | read the receivers in turn, split, convert, feed the filter | three serial ports whose buffers fill meanwhile |
| US-100 alarm (US) | two distance bytes, `cmDist`, display, buzzer | ask, wait, pair two bytes, show and beep | serial sensor |
| AltSoftSerial (ALT), serial port of the Kalman sketches | `tx_*`, `rx_*`, two ring buffers, one 16-bit timer | `writeByte`, `read`, `peek`, `available`, `flushInput`, `flushOutput`; three interrupt handlers | timer hardware, the pins, the calling program |

TX and RX are the newest complete pair; `for edit/07-july/prototype1` differs
from TX in its display code only. The remaining sketches under `Arduino`,
`Transcopter`, `drone1` and `for edit/06-june` are earlier steps of these or
single-sensor trials, and `Arduino/libraries`, `Transcopter/Library` and
`drone1/Library` are third-party code; neither is modelled, apart from the
DHT22 driver, whose decisions about time and errors shape what is sent, and
AltSoftSerial, whose main program and interrupt handlers share state.

What is hard about these programs:

- *Two processors without a handshake.* The drone sends bursts of four
  messages that nobody acknowledges; the station takes one per pass of at
  least 800 ms from a FIFO of three. Either may restart at any time.
- *Timeouts that leave half a result.* A GPS sentence is whatever arrived
  before a one-second timeout; the fields it did not reach keep the last
  sentence's values, and are converted once more.
- *Waits without a limit.* The I2C reads; `find()` and `readStringUntil()`,
  whose timeout starts again with every character; the WiFi connection; an
  answer of the server once it has begun; and the parser's do-while loops,
  which do not look at the end of the message.
- *A wrapping clock and a cache.* The DHT22 driver limits its rate with
  `millis()` and answers from its buffer in between, good or bad.
- *Interrupts.* AltSoftSerial's handlers run between any two instructions of
  its calls, up to a latency late, against a timer that wraps.
- *Bytes from an earlier exchange.* A late or lost byte shifts the pairing of
  the distance alarm; a buffer that overflows between two turns joins the
  start of an old sentence to the end of a new one.
- *Narrow integers.* `countFinal` wraps, a product of the pressure formula can
  leave 32 bits, another is divided before or after it is doubled depending
  on its top bit.

What makes each part correct:

- DHT22 driver: never two transfers within two seconds; no reading frozen,
  even when the clock wraps; a cached answer should be a correct one (it is
  not always: `ServesCorrect`).
- Drone: a coordinate that looks converted belongs to the newest sentence and
  to its hemisphere letter; humidity and temperature of one message belong
  together; sending waits for nobody; a failed reading should not be sent (it
  is: `FailedReadNotSent`).
- Message format: each variable gets the whole of its own field and nothing
  else (of the altitude, as it is, the last character); the parser finishes on
  everything the drone composes once it has seen a GPS sentence.
- Link and station: values move forward only until a restart forgets them; the display always has a page
  to draw; polling goes on; the upload message should be true (it is not
  always: `UploadedIsTrue`).
- On board: the pressure is compensated with the temperature of its own pass,
  agrees with the data sheet, and rises with the raw value; an average is of
  the last altitudes; every page comes up again and again as long as no device keeps
  the pass waiting.
- Multi-GPS: nothing old is fed to the filter as a new position; latitude and
  longitude are of one sentence; a pass ends (not always: `gps3_talk`).
- US-100: a disturbed answer costs its own pass only; whatever is near is
  heard; display and buzzer agree.
- AltSoftSerial: bytes arrive as written and in order, lost only at a full
  receive buffer; the transmitter never stops with bytes queued; no call waits
  for ever.

## 2. Modules

| Module | Contents |
|---|---|
| `Dht22Driver` | The driver as operators on the object's record: `Transfer`, `ReadResults` (= `read()`), `SetHumidity`, `SetTemperature`. Shared by the two modules below. |
| `Dht22` | One object against the wrapping clock; actions `Tick`, `ReadHumidity`, `ReadTemperature`. |
| `Payload` | Message bodies as sequences of tokens; `Locats`, `Humids`, `Dusts`, `GyPrs` compose, `ParsePosition` ... `ParsePressure` take apart. `Faithful` says without a parser what they should find. |
| `Radio` | The FIFO `air` and `Transmit`; the only shared state. External: modelled from its use. |
| `Transmitter` | The drone: `Setup`, `CallGPS`, `CallHumid`, `CallPresTemp`, `Compose`, `Send`, `PowerCycle`. `Taken` stands for the station when the drone is checked alone. |
| `Receiver` | The station: `WifiUp`, `Idle`, `Receive`, `GetStuck`, `Buttons`, `Connect`, `ConnectFails`, `AnswerBegins`, `Answered`, `Timeout`, `Watchdog`, `Unplugged`. |
| `DroneLink` | Drone and station interleaved, their fairness, and the end-to-end properties. |
| `Telemetry` | The abstract specification: per kind of message the station shows the values of a rising selection of rounds, any may be missed, a restart forgets. |
| `Bmp085` | The temperature and pressure formulas as operators, with the widths of their intermediate results, and the data sheet's formula as a reference. |
| `DronePass` | What a pass of the drone's `loop()` computes besides its messages: `Temperature`, `Pressure`, `Altitude`, `Average`, `Count`, `Page`; `Hangs` where a device may keep it waiting, and then `Waiting` for ever. |
| `MultiGps` | The receivers (`Talk`) and the program (`Start`, `Find`, `FindTimeout`, `Collect`, `CollectTimeout`, `Convert`). |
| `Us100` | The alarm: `Ask`, `Answer`, `Measure`, `Nothing`. |
| `AltSoftSerial` | Hardware (`Tick`), handlers (`Capture`, `CompareA`, `CompareB`) and the steps of each call. |
| `SerialPipe` | The abstract specification of a serial port wired to itself: a queue on the wire, a bounded queue at the reader, calls that see one instant of it. `AltSoftSerial` implements it. |
| `MCDht22`, `MCTransmitter`, `MCDroneLink`, `MCDronePass`, `MCMultiGps`, `MCUs100`, `MCAltSoftSerial` | Instances for TLC. |
| `*_proofs` (`Dht22Driver`, `Dht22`, `Payload`, `DroneLink`, `DronePass`, `MultiGps`, `Us100`, `AltSoftSerial`) | Theorems and lemmas. |

`Transmitter` and `DronePass` are two views of one program: the first keeps
what goes into messages, the second what stays on board. They share no
variable (`altMean` is never sent, the sent pressure only matters as a text),
so they are checked apart.

Definitions marked "Mutant of ..." are plausible bugs of the operator that
follows them. They take no part in any specification: putting one in the place
of its original makes TLC refute the property that guards against that bug,
which shows that the property depends on the code. `PROJECT.json` pairs them.

### State and code

- `nmea` keeps the five elements of `nmea[]` that are sent. An element is a
  *form* and a *lag*: how many sentences ago it was stored. Forms: `empty`,
  `comma` (a delimiter stored as a value), `text` (a plain field), `raw` (a
  coordinate as received, only inside `callGPS()`), `deg` (a proper
  conversion), `junk` (any other text without a delimiter). `Split` is the
  loop over `tempMsg`, `Located` the two conversions that follow it.
- `dht` is the object; a reading is again a form (`good`, `bad`, `zero`, `nan`)
  and a lag in sensor transfers.
- `outbox` holds what is left of a burst between two `send()` calls. It does
  not exist as a variable in the code: the four sends are consecutive
  statements, and `outbox` is their program counter together with the texts.
- `groups[k]` are the `String` variables filled by message kind `k`.
- `rpc` is where the station is: `wifi` (in `setup()`), `loop` (start of
  `loop()`), `buttons` (line 296), `connect`, `await` and `answer` (in `HttpGet()`: line 321,
  before the first byte of an answer, and the loop that reads it),
  `stuck` (in a do-while that does not end).
- `AltSoftSerial`: `tx`, `rx` are the `tx_...` and `rx_...` variables, `main`
  the program counter and locals of the call in progress, `timer` the counter
  with compare units A and B and the capture unit. `tx_byte` is kept whole and
  indexed by `tx_state` where the code shifts it. A handler, and a section
  with interrupts off, is one step; every other access of a call to a
  variable the handlers write is a step of its own. The level of the pin changes at the compare
  match, as the hardware does it, not when the handler runs.
- `MultiGps`: `line` is the string that `readStringUntil()` builds, `nmea` the
  two elements per receiver that are converted and fed; `dev` is the loop
  variable `n`.
- `Us100`: `received` is the serial buffer, `pc` which of the two `delay()`
  calls of `loop()` comes next.
- `DronePass`: the names of the code. `altMean` keeps the sum behind the
  average; the division by a constant is left out.
- Ghosts, which no guard reads: `seq`, the `seq`, `located` and `cut` of a
  packet, `located`, `groups[k].from`, `delivered`, `stuck`, `age`, the lags;
  `flying`; `id`, `overflowed`, `gap` and the numbers of pieces; `disturbed`,
  `heard`, `sounded` and the origin of bytes; `raw` and `recent`. `idle` in
  `Dht22` only expresses the assumption that the driver is polled;
  `seq < MaxSeq` in `CallGPS` only bounds the runs.

### What is abstracted

1. Characters: a token is one `+=` of the drone. The parser's behaviour
   depends only on where delimiters are, on a field being empty or not and on
   the end of the message, and these are kept. The prefix is left out (the
   parser starts behind it, `i = 2`).
2. Undefined behaviour in the conversions: `latsecond` read uninitialised
   gives a number of any value, hence `junk`. That garbage in `charVal[]`
   spells a delimiter, or is long enough to overflow it, is not modelled; nor
   is the write past `nmea[14]` when two sentences run together.
3. `ConvertLat()` appends the closing NUL of `charVal[]` to its text. That the
   radio library carries it along like any other character is assumed; it
   counts towards the 32 bytes (`MayBeLong`).
4. `callDust()` and `callPresTemp()` are one step: they write only numbers
   that always print as a text. What can happen there is that the bus does
   not answer; the program counter is then `hung`, as it is when the GPS
   receiver talks on without what `callGPS()` waits for, and only a power
   cycle helps. How long such a receiver talks is left out: it stops in time
   (the step ends) or never.
5. Prefix `5:` and `Altmean`: the drone empties `altMean` without ever sending
   it, and the station neither shows nor uploads it.
6. Drawing is reduced to the page drawn; `lcd = 5` is the upload message.
7. `calcAltitude()` only feeds `altitudeP`, which nothing reads, and `atm` is
   one division; both are left out, as is the `x` behind `altMean`.
8. In `AltSoftSerial` values nobody reads again (locals of a finished call,
   switched-off compare values, dead slots of a ring, see `Tidy`) are set back
   to one value, and while nobody can observe the counter time moves to the
   next match in one step (`Stride`). Neither removes a behaviour of the wire,
   the rings or the calls.
9. In `MultiGps` text is pieces ending at a comma or a line end, and a buffer
   may end within a piece (`torn`). What follows a torn piece belongs to the
   same field, as it does for the code, which only looks for commas. Sentence
   numbers are reused once nothing of a sentence is left. The altitude, which
   is stored and used without a conversion, is left out, as are the numbers of
   the filter.
10. In `Us100` the pin of the buzzer is HIGH or LOW; that US never makes it an
    output is not part of the model. Whether `SoftwareSerial::flush()` empties
    the receive buffer depends on the age of the Arduino core, so `empties` is
    chosen once in `Init`.

## 3. Runs

| Run | Question | Bounds |
|---|---|---|
| `dht22` | rate limit, age of readings, types | `Period` 4, `Wrap` 14, `Gap` 3: several reads and every phase of the clock fit between two wraps; the run has no bound on time, since `age` is bounded by the property and `clock` wraps |
| `dht22_cached` | "return last correct measurement" (DHT 96) | same; *violated* |
| `drone` | the drone alone | 3 rounds, FIFO of 1 and nothing cut by the radio (the drone sees neither), sentences cut before the first, at and after every sent field (0, 1, 2, 3, 4, 8, 14), with and without fix. Lags saturate at 2, so three rounds reach every combination of ages |
| `drone_nan` | "exit early (to try again)" (TX 548) | 2 rounds; *violated* |
| `link` | fields, endless parses, pages, polling | 1 round and reboots, FIFO of 2, sentences cut at the latitude's hemisphere or whole, messages cut by the radio, both buttons. One round with reboots already puts messages of different kinds, empty fields, delimiters as values and cut messages in front of every station state |
| `link_order` | order and refinement | 2 rounds, FIFO of 3 as on the chip, whole sentences, no buttons (they do not touch `groups`); an old message can wait while a newer one of its kind is sent |
| `link_upload` | "data has been uploaded" (RX 306) | as `link`; *violated* |
| `altsoft` | does the port implement `SerialPipe`, does the transmitter stop in time, and does every call return | bytes of 2 bits, one of equal bits and one that changes, so that frames end with and without an edge before the stop bit; 4 ticks per bit, 1 tick of latency and of lead, timer of 19 values, which barely passes `RateAssumption` (a frame and a half bit wrap it); rings of 3 and 2, so both get full and wrap. 133 000 states under `MCView` |
| `us100` | pairing, alarm bands | the distances on both sides of 1 cm, 5, 10, 20, 30 and 1000 cm; lost halves, one stray byte of value 0, a buffer of 4, both kinds of `flush()`; 710 000 states, no bound on passes |
| `gps3` | what the filter is fed, does a pass end | 2 receivers, one with a position and one without a fix (the third is like them), a buffer of 3 pieces for sentences of 4, so every overflow joins two sentences; 332 000 states |
| `gps3_talk` | "refresh every 2 second" (GPS3 23) | both receivers send sentences without the expected header; *violated* |
| `compute` | pressure, averages, pages | two calibrations (the data sheet's, and one whose product overflows at 80 degrees), -12 and 80 degrees, raw pressures up to the last before bit 31 of `b7`; a window of 3, an int of 3 bits so that `countFinal` wraps after every 8 passes; any pass may hang; 200 000 states |

What the passing runs show, property by property:

- `RateLimit`, `AgeBounded`: the rollover branch (DHT 91-94) makes the driver
  wait up to twice its limit once per wrap, and does nothing worse. The bound
  `2 * Period + Gap - 2` is reached: asking for one tick less fails, and the
  mutant with `<=` for `<` exceeds it.
- `PairedFix`: converting whatever is in `nmea[1]` and `nmea[3]` after every
  sentence looks wrong (a converted text is converted again) but is what keeps
  old coordinates from being passed off as new ones: the mutant that leaves a
  converted element alone breaks the property.
- `HumidTogether`: wherever the two-second limit falls between the two calls,
  the temperature is of the newest transfer and the humidity at most one
  transfer older.
- `KeepsSending`: under fairness of the processor alone, the drone completes
  round after round, up to the last one of the bound. The exceptions are a
  drone caught for good (`hung`: the GPS receiver talks on without the header,
  or the BMP085 does not answer) and power cycles that never cease. The station
  is none of them: the mutant that waits for room in its FIFO fails.
- `FieldsInPlace`: a step that fills variables of the station compares them with
  the message it takes from the FIFO. `Faithful` reads that message by the names
  of its tokens, not by its commas: each variable holds exactly the tokens of
  its own fields, in one piece, and none may be missing but the letter of a
  hemisphere, which can be empty. The altitude is the exception the code makes
  (RX 114): its last character, or `0`. The do-while consumes one character before it looks for the
  delimiter, which is what makes an empty or a comma-only hemisphere letter
  harmless; with plain while loops the fields shift.
- `StuckExplained`: the parser hangs on a position sent before the first GGA
  sentence (both coordinates empty: `,,x`) and on a message cut at 32 bytes,
  and on nothing else.
- `KeepsPolling`: failed connections, missing answers and endless parses all
  lead back to the start of `loop()`. Two waits may not: for the access point,
  and for the end of an answer that has begun (RX 342), whose five seconds
  count only up to the first byte.
- `PageDrawn`: `j` may be 5 only between the button and the end of `loop()`.
- `NeverBack`: losses, restarts of the drone and a full FIFO never show an older
  round after a newer one. After a restart of the station nothing says how old
  a message still waiting in the FIFO is; values rise from there.
- `Implements`: `Telemetry` with `latest <- seq` and `shown <- Shown`. A
  station caught in its parser maps to "forgotten": its group is half written
  and only a restart follows.

- `NoIdleBacklog`: `writeByte()` decides with interrupts off whether to queue
  or to start, and the handler looks at the ring last of all before it stops;
  the mutant that looks only before the last stop bit leaves a byte behind.
- `Implements` of `AltSoftSerial`: the bits reconstructed from times of edges
  are those written, back to back, late by the latency and across wraps of
  timer and rings. `read()` and `available()` answer with the ring as it was
  when they loaded the head, although the handlers go on filling it.
- `FlushedIsSent`, `CallsReturn`: the extra state for the last stop bit is
  what makes `flushOutput()` wait long enough; the compare interrupt is never
  off while somebody waits for it.
- `Drains`, `StopsInTime`: `TimeLeft` is what the transmitter still needs if
  nothing more is written: to its next match, to the end of the byte it is
  sending, and a whole byte with lead and latency for each one in the ring.
  Every tick takes from it and only `writeByte()` adds to it. `CallsReturn`
  would also hold of a handler that sometimes sets a compare value the counter
  has passed, since the timer comes round again; these two do not, and the
  mutant that always counts from the last match (ALT 203-206) breaks both.
- `Resynchronised`: with a `flush()` that empties the buffer, an answer that
  is not itself disturbed is paired with itself. Without (newer cores) one
  lost byte shifts every later pair for good, which is why the property has
  the condition `empties`.
- `NearIsHeard`, `WarningsAgree`: the bands of US 70-96 leave no gap, and the
  separately decided display and buzzer never contradict each other.
- `FedIsNew`: as in the drone, the second conversion of an old element makes
  junk of it, never an old position. What is fed may be junk.
- `PositionWhole`: only an overflow pairs the halves of two sentences.
- `PassAdvances`: `Work` is the most steps a pass can still take if no receiver
  says anything more: what the buffer in turn holds, full buffers for the turns
  to come, one timeout each and the conversion. Every step of a pass lowers
  it; what a receiver says raises it by one at most, and only in its turn. So
  a pass is as long as the receiver in turn keeps talking, no longer, which is
  the part of `PassEnds` that needs no fairness.
- `AverageOfRecent`: although the window is filled by `count` and the average
  is enabled by `countFinal`, which wraps on its own, an average is always of
  a full window; what is wrong with it is one number from beyond the array.
- `PressureNearReference`: below the overflow the code's order of product and
  shift (TX 352) and its doubling after the division (TX 367) cost no more than
  `Tolerance`, 6 Pa for the data sheet's calibration near the ground. `Slack`
  is how far `b3` can be off, one raw unit and one more per 8192 of `b2`;
  `Step` is that in the quotient `p`; the rest is what the last correction makes
  of it. Where `b2` does not fit (`~Fits`: with `b2` = 33 from about 73 degrees
  on) the pressure is off by some 440 Pa; the property says nothing there, nor
  of a raw pressure between the two offsets, where the sign of `p` differs. The
  data sheet's own example gives 69964 Pa.
- `PressureMonotone`: the two branches on bit 31 of `b7` meet.
- `PagesRotate`: the step in which `monitorCount` passes 11 and starts again
  draws nothing, yet no page is skipped for ever. Only a pass that hangs, at the
  BMP085 or in `callGPS()`, ends the rotation.

The four violations are listed in `PROJECT.json` under `findings`.

`MCView` lets TLC keep one state of those that differ by a turn of the timer.
The counter is only added to, subtracted from and compared for equality modulo
`Wrap`, so such states have the same successors and the properties, which
mention times only as distances from the counter (`NextEdge`), hold in all or
none of them.

### Fairness

`TxFairSpec` has weak fairness of the drone's `Loop` as a whole, `FairSpec`
also of the station's `Run`: each is one processor executing one program, so
as long as some statement can be executed, one is. `Run` includes the
watchdog, which on the ESP8266 fires by itself when a loop never yields, and
the timeout of `HttpGet()`, which is a comparison in the code. Nothing is
assumed of GPS, sensors, radio, server, access point or power: `WifiUp`,
`PowerCycle` and `Unplugged` have no fairness, nor has `Answered`: when the
server stops sending is up to it. Messages may all be lost, and whether a bus
access or a wait for the GPS receiver ends or goes on for ever (`hung`) is
free. Hence the alternatives in the liveness properties.

`AltSoftSerial!FairSpec` has weak fairness of `Tick` (the timer counts), `Isr`
(a pending interrupt is served) and `Continue` (a call in progress goes on);
that a program makes another call is not assumed. `MultiGps!FairSpec` has weak
fairness of `Pass` alone: the program runs, and whether a receiver sends is up
to it; since a silent receiver leaves the timeout enabled, this makes the
timeout happen, while one that goes on talking is what `gps3_talk` shows.
`DronePass!FairSpec` has weak fairness of `Next`: `loop()` is called for ever
and its statements are executed. That a pass ends is not part of it: both
measuring steps may hang instead, and the program then keeps waiting (`Waiting`).

## 4. Proofs

All proofs are for every value of the constants that the assumptions admit:
`Period`, `Gap` positive and `Wrap > Period + Gap` (with the real numbers 2000
and 2^32 ms, that is any polling gap below 49 days); `Depth` positive;
`RadioCuts` either way; any set of cut points up to 14; any set of button
presses; any number of receivers, texts they send in which a longitude follows its
latitude (`SentenceAssumption`) and buffer shorter than a sentence; any distances, noise and buffer of at least two bytes; any window and a width
of `int` above twice the window, any raw pressures less than 85899 above `b3`
(`RawAssumption`: 50000 times the difference fits an `unsigned long`; and
`LongAssumption`: the square in the last correction fits a `long`, which it does
up to 215 kPa, twice what the sensor can measure), any
calibration of integers (`CalibrationAssumption`) that divides by nothing that is not positive
(`DivisorAssumption`: `b4` is `ac4`, 16 bits, times a factor near 1); for AltSoftSerial any length of a byte, any
rate of at least two ticks per bit (the code's 16 ticks of lead fit a bit) with a
frame and a half bit below the wrap of the timer, any ring sizes above one, any
latency below three quarters of a bit.

- `Dht22_proofs`: `TypeCorrect`, `ServedAgeBounded`, `SensorNotHurried`. The
  inductive invariant `IInv` distinguishes what the clock can have done since
  the last transfer: not wrapped (`Counting`: `age` is the difference the
  driver computes), wrapped but unnoticed (`Wrapped`: the difference is off by
  `Wrap`), wrapped and noticed (`Restarted`: the driver counts from 0 and
  underestimates). `AgeBounded` alone says nothing about `lastreadtime` and is
  not inductive.
- `Dht22Driver_proofs`: what one call of the driver does to the object.
- `Payload_proofs`: lemmas for messages of any length. `NextDelimProperties`
  says where a do-while stops; `PositionParses` that a position gets through
  whenever neither coordinate text is empty, whatever other commas it holds;
  `HumidsParses`, `DustsParses`, `GyPrsParses` that the other messages always
  get through and with which fields; `LocatsTaken` (positions) and
  `FixedFaithful` (the others) that the fields are `Faithful` to the message;
  `NoCrossNoEnd` that nothing without a closing `x` ever gets through;
  `ParseType` that the fields are texts.
- `DroneLink_proofs`:
  - `TypeCorrect` and `PagesExist`, by `TypeOK /\ Pages`. `TypeOK` is not
    inductive alone: that `j` stays below 6 needs that it is at most 4
    wherever the flip button is read (`Pages`).
  - `ValuesNeverGoBack` and `LinkImplementsTelemetry`, by `Order`: what is in
    `outbox` is of round `seq` and one per kind, what is in `air` is older
    and rises per kind, what the station holds is older still. The refinement
    proof maps `Compose` to `Telemetry!Compose`, `Receive` to `Show`,
    `GetStuck`, `Watchdog` and `Unplugged` to `Forget`, and all else to a
    stutter.
  - `OnlyExplainedHangs`, by `Parsable`: every message on its way is cut, or a
    position from before the first sentence, or one the parser finishes on;
    this uses the lemmas of `Payload_proofs`.
  - `FieldsStayInPlace`, by the same invariant. `FieldsInPlace` speaks of
    the step that takes a message; what that step needs (`StepInPlace`) is that
    every message on its way, if the parser finishes on it at all, is parsed
    into what is `Faithful` to it (`Takable`, a part of `Parsable`). For a position this needs that `nmea[]` is blank until
    the first GGA sentence and that both coordinates have been through a
    conversion ever since, so neither is empty nor a comma.
  - `PositionsArePaired` and `HumidityGoesWithTemperature` of the drone alone
    (`TxSpec`), by `TxInv`: no raw coordinate survives a call, so `deg` can
    only come from the newest sentence, and a latitude is cut off before its
    hemisphere and that before the longitude.
  - `DroneTypeCorrect`: the same types for the drone with a station that only
    empties the FIFO.
- `AltSoftSerial_proofs`:
  - `NothingIsLeftBehind`. A stopped transmitter has its compare interrupt off
    (`Stopped`), which is what keeps the handler from touching it; that the
    line is at rest then needs that the last edge it programmed has come
    (`Driven`: a raised flag means the pin has the level of `tx_bit`) and that
    the last state is only entered after a stop bit (`Ended`).
  - `TypesCorrect`, by `TInv`: the indices the main program keeps between two
    of its steps lie in their rings (`Locals`), and `Passed` is a number of
    bits, because the least of a set of numbers exists (`MinLemma`).
  - `FlushWaits` (`FlushedIsSent`) and `PortIsPipe` (`Implements`), by
    `PortInv`. `Fly(k)` says that the bytes written and not yet received are
    those of the `k` frames on the wire followed by what the transmit ring
    holds. `Due(d)` gives compare unit A's next match as a distance `d` from
    the counter, `Receiving(g, b)` the start of the frame being received as a
    distance `g`, both negative when past: all times of the code are then sums
    with `Ticks(n)`, the length of `n` bits, modulo `Wrap`. `Phase` relates the
    two halves: nothing under way (`Done`), a start bit not yet captured
    (`Starting`), the frame being sent is the one being received with its next
    edge still to capture (`Behind`) or captured before the compare handler ran
    (`Captured`), or only the stop bit is left (`Resting`), during which the
    next frame may already have been set up. That the modulus loses nothing
    (`DistanceLemma`, `GapMod`) needs that no frame with half a bit takes as long
    as a turn of the timer; that the end of a frame is served before the next
    start bit needs the bound on the latency (`StopLemma`). `PassedBits` is the
    heart of reception: the unsigned comparison in the capture handler's loop
    finds exactly the bits since the last edge, so what is shifted in are bits
    of the byte sent (`ShiftBits`). `CaptureTiming`, `CompareATiming`,
    `CompareBTiming`, `TickTiming` and `WriteTiming` are the steps. The
    refinement then only concerns the receive ring: `ContentsJoin` and
    `ContentsLeave` are `Append` and `Tail` on a ring, `Holding` says what the
    interrupts leave true of the main program's local copies of head and tail.
    The mapped answer of `read()`, `peek()` and `available()` is decided when
    the head is loaded, in `LoadHead`.
  - `RingDrains` (`Drains`) and `StopsInBoundedTime` (`StopsInTime`), by the
    timing half of `PortInv`: `CompareA` runs within `Latency` of its match
    (`Due`), so a match set from the last one lies ahead of the counter unless
    the last stop bit was already waited for, and then `Lead` is counted from
    the counter. What a byte leaves of `Turn` when it is taken from the ring
    is never more than `Turn`.
- `Us100_proofs`: `TypeCorrect`, `HalvesPairAgain`, `NothingNearIsSilent`,
  `BuzzerMeansCaution`, by `IInv`: after the request an emptying `flush()` has
  left nothing (`EmptyBefore`), so an undisturbed answer is all there is
  (`AnswerOnly`).
- `MultiGps_proofs`:
  - `NothingOldIsFed`, by `RawIsNew`: an unconverted coordinate was stored in
    this pass, and none is left when a pass is over.
  - `TypesCorrect`. That a sentence always finds a number (`NumberLeft`) is a
    counting argument: a receiver's buffer, line and elements have `Size + 5`
    places for one.
  - `PositionsWhole`, by `PInv`: without an overflow the pieces of a buffer are
    whole and a longitude follows its latitude (`Sound`), from the last of them
    to what the receiver sends next (`NextChained`), from the line to the first
    of them, and within the line (`LineSound`); what is stored of a line is
    therefore a pair (`PairStored`). Where an overflow ended with a turn one
    piece may be left in the buffer, but it is thrown away before the header
    of the next line (`From`).
  - `PassesAdvance` (`PassAdvances`), from the types alone: a turn that ends
    gives up at least its own timeout and a full buffer's worth of steps, and
    the next one finds no more than a full buffer (`NextTurnLess`).
- `DronePass_proofs`:
  - `CountersInRange`, and `PressureUsesThisTemperature` by `B5OfThisPass`.
  - `AverageIsOfTheWindow`, by `Window`: until the array is full it holds all
    altitudes in their order, from then on the last `mySize` in a ring that
    starts at the next slot; a sum over the ring is one over the window
    (`RingTotal`). `Total` is a recursive function; that its partial sums exist
    and split is proved with the set form of induction, `NatSetInduction`,
    from the least element of a set of numbers (`WFMin`).
  - `PressureNeverStepsDown`: the long division of the code is exact
    (`ScaledExact`), so each of its two branches is a rounded quotient and
    monotone; where bit 31 of `b7` changes the branch, `b4 <= 100000` keeps the
    second from starting below the end of the first (`UncorrectedMonotone`);
    and adding `x1` and `x2` is monotone as well (`CorrectedMonotone`).
  - `PressureIsNear` (`PressureNearReference`), along the formula: the product
    that fits is the exact one and less than `b2` from the reference's
    (`ProductNear`), so the offsets differ by `Slack` at most (`OffsetsNear`);
    numerators that far apart give quotients that differ by `Step`, doubled
    before or after the division (`QuotientsNear`); and the correction, whose
    square is taken of `p >> 8`, adds `LastStep` (`CorrectedNear`). That the
    bound holds for a whole pass is `IInv` of the first theorem: the pressure
    is made of the temperature and raw values of its own pass.

Inductive invariants were model-checked on the bounds of the runs before they
were proved.

Only model-checked is liveness (`KeepsSending`, `KeepsPolling`, `CallsReturn`,
`PassEnds`, `PagesRotate`), which is out of the prover's reach. Of two of them
the theorems give the part that needs no fairness: `StopsInBoundedTime` and
`RingDrains` bound the wait that `CallsReturn` says ends, `PassesAdvance` the
steps of `PassEnds`. Every invariant and every action property of the passing
runs, and both refinements, are theorems.

## 5. Not modelled

- *Relative speeds of drone and station.* That dust and pressure may never be
  seen because the first three messages of every burst fill the FIFO depends
  on time; in the link losing those messages is one behaviour among others.
- *Digits.* `ConvertLat()` may lose a degree when the minutes round up, and
  southern or western signs; texts are modelled by whether they are positions.
- *Writes past an array*: `nmea[14]` when two sentences run together,
  `charVal[9]`. Neither has a defined outcome to model.
- *The Kalman filter's numbers*, `strToDouble()`, and the constants of the
  dust sensor: floating point without decisions.
- *`AltSoftSerial::end()`*, which no sketch calls, and the choice of the
  prescaler, which is made once.
- *The other sketches*: earlier steps of the modelled ones or single-sensor
  trials without state between passes.
- *Third-party libraries* (displays, WiFi, ESP8266 boards, NeoPixel, other GPS
  parsers and sensors). They make up nearly all of the repository's two
  hundred thousand lines, were not written here and are, but for the two
  modelled, not part of the programs above; the modelled lines are therefore
  a small share of the whole.

What would come next: a `LinkTiming` module with the durations of both loops;
the decimal conversion of coordinates as functions on digits.
