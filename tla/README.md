# Verification of the URG library

TLA+ specifications of `urg_library-1.1.6`, the C library (with a C++ wrapper)
that drives Hokuyo URG range sensors over a serial port or TCP with the SCIP
protocol. Paths below are relative to `src/urg_library-1.1.6/`.

## The system

| part | source | state | operations | modelled in |
|---|---|---|---|---|
| byte ring | `src/urg_ring_buffer.c` | array, `first`, `last` | initialise, clear, size, write, read | `RingBuffer`, `RingFifo`; proofs in `RingBufferProofs` |
| line readers | `src/urg_tcpclient.c`, `src/urg_serial.c`, `src/urg_serial_linux.c` | ring, pushed-back character | read, write, readline, set rate | `LineReader`, `LineStream`; proofs in `LineReaderProofs`; what they return: `Scip`, `UrgOpen` |
| connections | `src/urg_connection.c`, and the opening and closing in the files above and `src/urg_serial_windows.c` | type of the connection, descriptors | open, close, by type and system | `Connection` |
| opening | `urg_open` in `src/urg_sensor.c` | rate tried, `is_active`, `is_sending` | rate detection, rate change, parameters | `UrgOpen`, `MCUrgOpen`; proofs in `UrgOpenProofs` |
| sensor API | the rest of `src/urg_sensor.c` | `urg_t`: `is_active`, `is_sending`, `is_laser_on`, scan counts, `last_errno` | start, get, stop, laser, time stamps, information, sleep, reboot, close | `Scip`, `UrgSensor`; proofs in `UrgSensorProofs`, `UrgTimelyProofs` |
| sensor and line | outside the library | streaming, laser, time stamp mode; lines under way | answer a command, send a scan; lose, damage, delay lines | `ScipSensor` |
| decoding of scans | `receive_length_data` in `src/urg_sensor.c` | text not decoded yet, steps, break points, the caller's arrays | decode one scan | `ScanDecode`, `MCScanDecode`; proofs in `ScanDecodeProofs`; as a reader of lines also in `UrgSensor` |
| conversions | `src/urg_utils.c` | none | index, step and angle conversions | `UrgIndex` |
| port search | `src/urg_serial_utils*.c` | list of found ports | search, sort | `PortSearch`; proofs in `ApplicationProofs` |
| C++ wrapper | `src/Urg_driver.cpp` | `is_opened_`, `last_measure_type_`, time stamp offset, cached names | the API, with checks | `UrgDriver`, `MCUrgDriver`; proofs in `UrgDriverProofs` |
| application | `samples/cpp/OpenRadar.cpp`, `samples/cpp/WeightedFit.cpp` | a scan, its pieces, the arcs found | read, filter, cut, draw, fit | `Pillars`, `MCPillars`; proofs in `ApplicationProofs` |
| robot link | `src/DFCOM.cpp` | the record of a pillar | fill, send | `Pillars`; proofs in `ApplicationProofs` |
| command lines of the samples | `samples/c/open_urg_sensor.c`, `samples/cpp/Connection_information.cpp` | none | choose a connection | `PortSearch`; proofs in `ApplicationProofs` |
| clock, raw access | `src/ticks.cpp`, `src/urg_debug.c` | - | - | no |

The application calls the API from one thread. The API writes commands and
reads lines through the connection; the line readers fill the ring from the
operating system and take bytes out of it. The sensor runs on its own: it
answers commands in the order it gets them and, while it measures, sends scans
nobody asked for again. That is the concurrency of this system: between two
reads of the host the sensor may do anything, answers may come after the host
has stopped waiting for them, and nothing in a scan says which measurement it
belongs to. What the host knows of the sensor it keeps in three flags
(`is_active`, `is_sending`, `is_laser_on`), and most of what can go wrong is a
flag that says something else than the sensor does.

What makes each part correct:

* ring: a bounded first-in first-out queue, whatever the position of the indices;
* opening: an active `urg_t` talks to a quiet sensor, in the right protocol, at
  the rate asked for; a sensor that is there is found; a failure is reported;
* measuring: a stop stops, a close leaves the sensor quiet and dark, scans come
  from the measurement that was started and from one scan each, a finite
  measurement ends by itself, every call returns;
* commands: an answer that is handed out is the answer to that command;
* connections: the descriptor that is used and closed is the connection's own;
* wrapper: what it keeps beside the API (type, names, offset) is that of the sensor
  it is connected to now;
* conversions, ports, command lines: the way there and back ends where it began,
  a sensor's port comes first, two readers agree;
* application: points, angles and pieces belong together from the scan to the frame.

The list of places where this is hard to get right, each with its line, is in
`PROJECT.json` under "hazards".

## The modules

**RingFifo** is the promise of the ring: a queue with a capacity. **RingBuffer**
is the code: `Wrap` is the mask, `byte_move` and `bytes` the two copies,
`ring_write` and `ring_read` have one disjunct per branch. Its invariant `TypeOK`
keeps the indices in the array, `RefinesFifo` says that it implements `RingFifo`
under the mapping `Unread` (the bytes between the indices). The environment
writes at most the free space: the wrapped branch of `ring_write` copies the whole
block, so larger writes would overwrite unread bytes, and both callers
(`tcpclient_read`, `serial_read`) ask the operating system for no more.

**LineStream** is the promise of the line readers: what the sensor sent, in order, each
character once, cut at the line ends, at the size of the caller's buffer, and where
nothing came for a whole timeout. **LineReader** is `tcpclient_readline` and
`serial_readline`, one character at a time: `TakePushedBack` (serial; the TCP reader
takes its character back in `Call`), `TakeFromRing`, `FillRing` (the read that does
not wait), `TakeFromSystem` and `TimeOut` (the one that does). Characters arrive
between any two of these. `ReadsStream` says that it implements `LineStream` when the
unread characters are those of the line so far, the one put back, the ring and the
operating system, in this order. The ring is a plain sequence here: that is what
`RingIsFifo` proves of it. A NUL sent by the sensor and a raw `connection_read`, which
ignores the character the TCP reader has put back, are left out; no function of
`urg_sensor.c` mixes the two.

**ScipSensor** is the other end, modelled from how `urg_sensor.c` uses it. A line
is a record of its kind, the command it answers, the call that sent that
command, the unit (answer or scan) it belongs to, and whether its checksum is
intact. The call and the unit are not on the wire; the properties use them to
say where a line came from. `LoseLine`, `DamageLine` and `StallLine` (a line
returned in two pieces, because `tcpclient_readline` and `serial_readline` return
what they have at a timeout) disturb the oldest unread line.

**Scip** is what every function is built from: `scip_response` (`ScipBegins`,
`ScipEcho`, `ScipStatus`, `ScipBody`), `ignore_receive_data` and
`ignore_receive_data_with_qt` (`DrainWithQT`). A step is one `connection_readline`
with everything up to the next one; `pc` names the readline the thread waits in.
A read times out when nothing is coming or, with `Late`, at any moment. A damaged status line
of which one character came passes for a status of SCIP 1.1, which has no checksum
(`MaySayScip1`).

**UrgSensor** is the API. `receive_data` is `ReceiveEcho` to `CountScan`, one action
per readline; it calls `urg_stop_measurement` and that calls it, so the callers of
the running `receive_data` are on `stack`. `urg_laser_off` and `urg_wakeup` are
`urg_stop_measurement`; the four `urg_get_*` functions differ in what they store,
the five information functions in the text they cut out: each group is one
operation here. `receive_length_data` refuses a scan with more than `StepsAsked` steps, last
minus first plus one of the echo (`TooManySteps`); the sensor sends `FullScan` of them, which is as
many without a skip_step and fewer with one, of which the bound takes no account. `barrier` and `scans` are history variables (last successful stop,
scans handed out); nothing reads them but the properties. The application calls
anything at any time, or, with `Polite`, keeps to `GoodManners`: it reads or stops
a measurement before asking anything else and does not measure in time stamp
mode, as the samples do.

**UrgOpen** is `urg_open` with `connect_urg_device`, `change_sensor_baudrate` and
`receive_parameter`, against a sensor in any mode at any of the three rates, or
none. A command at another rate than the sensor's is lost; what the sensor sends
is noise to a host at another rate. On Ethernet rates do not matter. `is_laser_on`
starts with any value, because `urg_open` reads it before it sets it. The state
`OpenLeavesReady` describes is the state `UrgSensor` starts from, so the two modules
together cover a session; one opening per behaviour is enough, as a new opening
starts from a flushed port. A change of the rate throws away what was received on Linux
(`SetBaudrateLinux`) and keeps it on Windows. `Worlds` is the set of circumstances: sensor, rate
asked for, late answers, pauses, disturbed lines; **MCUrgOpen** names those its runs use.

**ScanDecode** is `receive_length_data` with the text of a scan in place of lines of
abstract data. The sensor measures any scan and cuts its text into lines
anywhere; `ReadLine` and `ReadEnd` are the `connection_readline` of the outer loop,
`Decode` is one turn of the inner one (with `StoreLength`, `StoreIntensity` and the
`&` of a further echo), `Refused` its early return, `LineDecoded` the move of what is
left to the front of the buffer. `urg_scip_decode` of three characters is the
value they were written for, and `Garbage` when they do not belong together. The
drain both error returns begin with is in `UrgSensor`, and so are lines lost from the midst of a
scan: here a line is read whole, damaged, or breaks off. `DecodesScan` compares the
arrays with what they should hold, computed from the scan: entry `Place(k)` for
step `k`, a break point behind every jump.

**Connection** opens and closes: sockets and serial ports of Linux and Windows over a set of
descriptors that the rest of the process uses too. Each operation is the set of its outcomes,
failures included; a socket with a bad address and a Linux port with an unknown rate stay open
when the opening fails, as in the code.

**UrgIndex** is `urg_utils.c`: angles are whole fractions of a step, so that the conversions are
exact and rounding to the nearest step can be asked about.

**UrgDriver** is the class `Urg_driver`, one step per call, over what it needs of the API: the
descriptors, the fields of `urg_t` that outlive a call, and a sensor that puts whole scans and
answers on the line. What happens inside a call while lines are still coming is the subject of
`UrgSensor` and `UrgOpen`; here a call that reads ends in one of a set of outcomes. An outcome is a
record of what is left on the line, of the sensor and of the flags, with what the read returned.
`Undisturbed` gives those of the next item as it is; `Damaged` and `Disturbed` those of an item
that comes too late or with a line damaged or missing, each at the price of one fault: a status that
does not fit and the drain it leads to (`Drains`), an echo that cannot be read, so that 0 is
returned and the rest of the scan stays unread (`Unread`), and a time stamp or a number in the echo
that is wrong and accepted, because neither is checked (`Spoiled`: the scan is not `intact`);
`PassedOver` an acknowledgement in front. `Read` is one `receive_data` up to its automatic stop,
`receive_data` with it; `urg_stop_measurement` reads three times at most and believes the first 0
(`Ended`, `Concluded`). `Rest` is what a read left of an item. Of the four `get` functions only
`get_distance` is followed to its end: `get_distance_intensity`, `get_multiecho` and
`get_multiecho_intensity` call functions of C by prototypes with one argument fewer than the
functions take, so that what they do past their refusals (`GetFails`) is not defined. `past` is history for the properties: `tidy`,
that the application has started nothing on what it had not read or stopped, and `astray`, that a
stop has given up or a call has left something on the line that it should have read. Clocks are
numbers of ticks; that of the sensor goes round (`Wrap`).

**PortSearch** is the search for ports, with the exchange of names and flags in two arrays as one
exchange of records, and the two readers of the command line.

**Pillars** is the application's way from a scan to the frames the robot gets: `RadarRead`,
`MedFilter`, `BreakRadarRho`, `CreateRadarImage`, `FitArc` with `HoughArc2`, `DFCOMPush` and
`DFCOMPop`, in the order in which `main` in `samples/cpp/get_distance.cpp` names them. At this
commit `main` calls `CreateRadarImageself` only; the other calls stand there in comments, as does
the sending in `FitArc`, and `HoughArc`, of the same form as `HoughArc2`, is called by nothing and
is an operator for a property. Lengths are small numbers; sines and cosines are tables in fractions,
so that every conversion to `int` cuts towards zero as in C. The image is the set of points
drawn, with their colours. Every vote of `HoughArc2` is counted for each place of its window, but
always in the same cell: `VotesPerHit`.

## The runs

| run | question | bounds |
|---|---|---|
| `ring` | is the ring a queue? | 4 slots, 2 byte values, any blocks |
| `lines` | do the readers lose, repeat or reorder characters? | both connections, 2 characters and the line end, at most 5 unread, a ring of 3, buffers of 2 and 3: lines shorter, equal and longer than the buffer, and more unread than the ring holds |
| `timely` | does everything work on a good line, for a careful application? Is a scan ever mixed from two? | 6 calls, all functions, scan counts 1, 2, 100; one line per scan; at most two scans unread; or 2 calls with up to 3 disturbed lines, for the first two of which `NoMixedScan` is claimed and the others are not |
| `rough` | is `is_sending` right, is no scan mixed, and does every call return, whatever happens? | 2 calls in any order, scans of one line with 2 of the 6 steps asked for (skip_step), `urg_reboot` and `urg_time_stamp` among them, late answers, 1 disturbed line, a broken connection, a refused laser |
| `decode` | are scans decoded correctly, wherever lines are cut? | all types of measurement, 3 steps asked for and up to 5 sent, 4 with several echoes (**MCScanDecode**), so that steps follow a break point, up to 2 echoes, distances without a jump and with one of `DMAX`, lines of up to 4 characters, so that values of 3 and 6 characters end anywhere in a line |
| `open` | is a sensor found, does `urg_open` return, and is an active sensor ready? | Linux and Windows ports and sockets; all modes and rates or no sensor, asked for 19200 or 115200; on a calm line measuring at the rate asked for only; then any sensor, late answers, 2 disturbed lines |
| `driver` | are descriptors the driver's own, and names, scans, angles and time stamps those of its sensor? | four applications, 1 fault each. Opening: 4 calls, 2 descriptors, 2 sensors, both systems. Measuring on either sensor: 6 calls, 2 types, scan counts 0 to 2, 4 windows, 3 items on the line. Time stamps: 5 calls, 2 samples, delays up to 2 ticks, a clock of 8 ticks. Searching ports (4 devices) and reading arguments (3), with no calls of the driver |
| `pillars` | does every step treat the scan as it should? | 40 scans of up to 7 points, one after the other, with and without the filter; circles of radius 2 in 9 directions |

Two calls are the shortest history in which a flag set by the first misleads the
second, and `rough` is small because its invariants are also proved for every
number of calls; `timely` has room for a measurement,
its stop, another command, and a second measurement with its reads. `MaxRx` lets
two whole scans wait unread, which is as many as `urg_stop_measurement` can pass
(see below); a scan of one data line already has all the kinds of lines a
longer one has. Scan counts 1, 2 and 100 are the three cases of
`send_distance_command` (single, finite, more than the command can say).
`UnitWrap` keeps the number of units finite; no more than that many are ever
waiting at once. In `rough`, where at most five lines are unread and one disturbed, two numbers tell a scan
from the one after it.

The four applications of **MCUrgDriver**, one to a behaviour of `driver`, touch different fields, so that they
find what one of all together would: the descriptors do not depend on the scans, nor the clock on the window.
Four openings are enough for one that fails between two that work, and a reboot between them; two
descriptors for one that is handed to somebody else after a close. Six calls are an opening, two measurements
and a stop or read of each; one fault is enough to leave something unread, or to spoil a time stamp.
A clock of 8 ticks goes round within the time of the run. In `pillars` the scans have no, one and two pillars, pieces too short
and too long, jumps of `Dmax` and gaps; with the radius and the directions chosen, a table of votes
that runs over into its next row occurs, also with the winning vote in it, and so does a centre at
y = 0; those runs of the program end.

`CHECK_DEADLOCK FALSE` stands in every configuration but those of the ring and of
the line reader: the number of
calls is bounded and the application may stop, one opening or one scan comes
to its end, and a program that divides by zero or reads an empty vector has stopped.

### What the code does otherwise than it says

Each of these is a run that must find its property violated.

* `stop_backlog`: `urg_stop_measurement` reads three times. With three scans waiting
  before the answer to QT it gives up, with the measurement still marked as
  running. With two it works (`StopWorks` in `timely`).
* `close_refused`: a single scan refused for want of the laser leaves the empty line
  of the refusal unread. The next BM is misread, the laser is lit but
  `is_laser_on` says no, and `urg_close` leaves it lit.
* `open_absent`: without an answer at any rate `urg_open` returns 0 and `last_errno` is
  `URG_NO_ERROR`, with `is_active` false.
* `decode_entries`: a break point takes an entry of its own, so that behind the first one entry `i` is not
  step `i`; the headers and the sample that reads scans take `index2rad(i)` for its angle. (`AnglesFit`
  therefore speaks of indices that count steps.) The same property fails for a scan of several echoes, which all go
  to one entry, while `samples/c/get_multiecho.c` reads them from three for each step.

Other limits of the code that showed up while modelling: a sensor that measures
at another rate than the one asked for only produces noise, which is taken for the data of a
sensor at this rate, and the other rates are not tried; a sensor that measures
without pause at another rate keeps `urg_open` in its first drain for ever;
`receive_data` returns 0 for the answer to QT but also for a scan whose echo was
damaged, and a stop takes the one for the other; no QT is sent between a running
measurement and a new start, as the comment in `urg_start_measurement` wants; one line lost from the
answer to a command leaves `scip_response` one answer behind for good, because
nothing is drained when no measurement runs (hence `FreshAnswer` is claimed for
undisturbed lines only); three lines lost in a row, two when a
skip_step makes scans shorter than the bound knows, or a start in the middle of a measurement, can mix two scans; `urg_time_stamp` compares a checksum the wrong way
round; `urg_set_communication_data_size` rejects every size; a stop that fails leaves
its QT unanswered for the next stop to read; a scan with break points has more entries than steps and does not fit an
array with one entry for each step, as the header's example makes it and `Urg_driver::get_distance_intensity` too (the arrays of
`get_distance` have twice as many, and suffice: `FitsDriver` in `decode`).

In the wrapper: an open that is refused after its descriptor was opened loses it (`LosesRefusedOnly`
is the most that can be claimed); a reboot leaves `is_opened_` true; the get functions of an
inactive sensor resize their vectors to a negative size and throw; a get that meets a scan with a damaged echo, or the answer to
an earlier QT, returns true and an array of zeros (`OwnScan` holds until something has been left unread); a damaged or
missing time stamp is accepted (`StampsOfPC` is about undamaged scans); the prototypes in the header of three of the four
functions that get scans lack an argument; before the first `open` every call
but `close` reads an uninitialized `urg_t`; an unanswered sample of `set_sensor_time_stamp` is
averaged in as a number; the text of an error is kept as a name until the next `open`.
`urg_rad2index` counts in the whole range and `urg_index2rad` from the first step asked for, so that
they are inverse for a scan of the whole range only; a skip of steps is known to neither.
With sensors at several ports `sort_ports` can move one back that it had put in front (the flags 0, 1, 1
become 1, 0, 1), so only the first place is certain; the list is not held to `MAX_PORTS`.
In the readers of the command line the first option counts in C++, while in C a later `-s` keeps the
type and the port number of an earlier `-e`.

In the application: a jump is marked after the point that jumps, which thus belongs to the piece
before it; `HoughArc2` returns a centre that is half a window too large in both coordinates and, when
the winning vote ran over into the next row of the table, one at the left edge, one row further on
(`CentreOfMostVotes` says exactly which); its table, 10,000,000 places, is not compared with the size it
needs, and its lower bound for y starts from an x; a centre at y = 0 divides by zero in `DFCOMPush`;
an empty scan, or one of four points after the filter, throws in `BreakRadarRho`; `MedFilter` does not
free its window; ten zeros in a row, or six after the first
piece, give the points around them the same colour. `Med` sorts the weights of `CalW` in place, away from their points, and the sums of `FitPara` can
overflow; nothing calls them.

## Fairness

`FairSpec` of `UrgSensor` has weak fairness of the host's step (the thread runs; a read
ends with a line or its timeout) and of the sensor's commands (it answers). The
sensor need not scan, nothing need be lost and the application need not call.
`FairSpec` of `UrgOpen` adds that a measuring sensor goes on sending, which is what
measuring is.

## What is proved

For every value of the constants (under `SensorAssumption`, `ScipAssumption`,
`UrgAssumption`, `SizeAssumption`, `ByteAssumption`, `ReaderAssumption`, `DescriptorsAssumption`,
`DriverAssumption`, `DecodeAssumption` and `OpenAssumption`, which only
say what kind of value each is; the ring needs two slots and one byte value, the
reader a buffer for one character and its NUL; of the wrapper's constants also that there are finitely
many descriptors, that "closed" is none of them, and that the first step of the sensor is a natural
number; `UrgOpen` may be given any set of worlds, each with any number of disturbed lines):

* `RingTypes`, `RingIsFifo` (`RingBufferProofs`): the ring's indices stay in range and it
  implements `RingFifo`. `TypeOK` is inductive; the refinement follows action by
  action from lemmas about `ring_size` and the mapping after each branch.
* `ReaderTypes`, `ReaderIsStream` (`LineReaderProofs`): a line stays inside the caller's
  buffer, and `LineReader` implements `LineStream`. `TypeOK` is strengthened by
  `Positions` (a character put back is the first of its line; the read that waits
  does so only when nothing is left in the ring): without it a character could
  overtake one that was put back. The refinement has one argument for all the ways
  to take a character (`TakeStep`: it is the first that is unread and not in the line)
  and one for a full buffer (`FullStep`).
* `TypeCorrect` (`UrgSensorProofs`): `TypeOK` and `Control` always hold. `Control` (the
  thread's position agrees with the stack of callers, and past the first check the
  connection is active) is what makes `TypeOK` inductive: without it `Head(stack)`
  could be taken of an empty stack.
* `AlwaysGuarded`, `QuietAlways`: when `is_sending` is false, no measurement runs in the
  sensor and no command that starts one is on its way without a QT behind it, with
  late answers, lost lines, and calls in any order. `QuietWhenNotSending` is not
  inductive: a drain clears `is_sending` without looking at the sensor. It is
  strengthened by `Calm` (a QT is under way to whatever streams or will) at every
  point that can lead to the flag being cleared, that is in drains and stops
  (`Watched`), by `dev.tm => ~Streaming` (in time stamp mode a QT is refused, but then
  nothing streams), and by the results a drain may return. The argument: QT is
  written before anything waits for its answer, commands reach the sensor in
  order, and nothing starts a stream while something waits.
* `NeverMixedScan`: while at most `Tolerated` lines were lost, damaged or broken off (two when the sensor sends as
  many steps as the bound of `TooManySteps` allows, one when a skip_step leaves some out), a scan that is handed out
  was measured in one piece, whatever is called, however late answers are and however many lines
  a scan has. The invariant `MixInv` says that what is left to read is the rest of one answer followed by whole
  answers (`Left`), each disturbed line may break one of them, and the lines accepted so far belong to the answer whose rest is
  being read, unless as many lines were disturbed as it takes to get past the end of one scan and the head of the next
  (the empty line, and the echo or status; `InStatus`, `InStamp`, `InData`, `InCount`). The bound is
  exact: TLC finds a mixed scan after three disturbed lines when answers may be late, and after two with a skip_step,
  late answers or not, when `Tolerated` is one more.
* `StopAlwaysWorks`, `StopLeavesNothingBehind`, `AlwaysDarkAfterClose`, `AnswersAreFresh`, `ScansAreFinite`,
  `ScansAreFresh` (`UrgTimelyProofs`): what holds while no line was disturbed, for any number of calls, any scan
  counts and scans of any length. Their hypothesis is `Timely`, the conditions of the run `timely`: an application with manners (`Polite`),
  answers in time, a sensor that sees to a command before it scans on and refuses none, a connection that lasts, no
  start the library refuses, and fewer unread lines than three scans have. None of them is there for the proof's sake only: with
  three scans unread TLC finds a stop that fails (`stop_backlog`: `MaxRx` is `3 * (DataLines + 4)`
  there, so the bound is exact), and with a sensor that may refuse one that measures on after a close (`close_refused`).
  The six follow from one inductive invariant, `TimelyInv`, which says for every position of the
  thread what is unread and what is under way, in three phases:
  `MeasuringInv`, from a start to its stop: the unread lines are the rest of one answer, whole
  scans and whole answers to QT, in this order (`Content`), and their numbers agree (`Tally`) with where the thread is in the
  answer it reads (`Reading`), the stops that wait (`Owed`), the flags and what streams (`Measures`), the reads a stop has left for the scans in front of its answer
  (`Stoppable`) and the scans that remain (`Counts`);
  `AskingInv`, in `scip_response`: what is unread is the answer to the one command, and nothing streams when that
  command needs a quiet sensor; `LeavingInv`, in a close: the last command
  under way is QT, unless the sensor is dark already. `CallInv` says what the position owes to the caller in all three.

* `DescriptorsAlwaysOwn`, `OthersLeftAlone`, `ActiveAlwaysConnected` (`UrgDriverProofs`): the wrapper's
  descriptor is its own, no call takes or closes one of the rest of the process, and an active `urg_t` is
  connected. The invariant is `Connected`: `OwnDescriptor` and `ActiveIsConnected` with the types of the
  fields they read. Each operation of `Connection` has a lemma (`Keeps`: what it leaves is well-typed, its
  own, and spares the others), and each call of the wrapper is a composition of them.
* `RefusedOnlyLost`: there are no more lost descriptors than refused openings. `LosesRefusedOnly` is not
  inductive: a descriptor may still be held in a field although no close will reach it, and is lost only
  when the field is set anew. The invariant `StrandsRefused` therefore counts `Stranded`, all that are the driver's and
  not the one in use of an opened object; an opening that is refused strands at most the one it took, no other call strands one.

* `NamesAlwaysOfPeer`, `ScansAlwaysOwn`, `StampsAlwaysOfPC`, `AnglesAlwaysFit`: what the wrapper keeps
  beside the API, for any number of calls, faults and items on the line. The invariant is `DataInv`: an active `urg_t` has
  the parameters of the sensor at the other end (`Attached`); every scan on the line is one that sensor measured, undamaged,
  and so is the one handed out last, but for what it lost on the way (`Traced`, `HandedOut`); the offset is that between
  the two clocks, to half of the longest delay (`Synchronized`); and `Orderly`, which makes `OwnScan` inductive: while the
  application is tidy and nothing has gone astray, the line holds scans of the pending measurement and refusals only, a
  single scan alone, and of a finite measurement no more than `scanning_remain_times` says, the stream's
  own count included, so that nothing is left when the host stops it. What a call reads is described in two steps. `Follows`
  is what every outcome keeps, whatever went wrong: what is left on the line is of this sensor, nothing that went
  astray is forgotten, and the count of scans only goes down. `Neat` is what
  an outcome that leaves nothing unread does to a line in order: it fails and leaves the line as it is or empties it, or it hands out
  the first item. Both are proved of each way to
  read (`DrainsRead`, `UndisturbedReads`, `DisturbedReads`), and with them of one read (`ReadReads`), of the three reads of
  a stop (`AutoStopFollows`, `StopFollows`) and of the two together (`ReceiveFollows`). The offset
  is the mean of any number of samples: `SumsExist`, `SumsAgree` and `SumsBounded` show, by the well-founded
  induction of the library, that the sums exist, agree when their terms do, and are bounded when their terms are.

* `DecodeTypeCorrect`, `ScanIsDecoded`, `DriverArraysSuffice`, `StepsAreCounted` (`ScanDecodeProofs`): a
  scan of any length, of any type and cut into lines anywhere is decoded step by step as it was
  measured, and, of distances, fits the arrays of `get_distance` (`FitsDriver`). The invariant `DecodeInv` adds two parts to `TypeOK`:
  `Reading` (the text not decoded yet, in the buffer and on the line, is the text of the steps not yet
  stored, with no step's text begun twice) and `Stored` (entry `Place(k)` of every array holds step
  `k`, the break points stand behind the jumps, nothing else is written).

* `OpenTypeCorrect`, `OpenAlwaysReady` (`UrgOpenProofs`): when `urg_open` sets `is_active`, the sensor is
  ready, at the rate asked for, all its parameters were read and nothing is under way, for late
  answers and any number of lost and damaged lines. `OpenLeavesReady` is about the last moment only;
  the invariant `OpenInv` carries it there in four parts. `Placed`: which rate the port is set to,
  by the thread's position. `Unheard`: a sensor that still measures has heard no command, and the
  first it will hear is QT (so that it never answers PP while it measures). `Sent`: PP is the last command
  there is, and goes out at the rate of the port. `AnswerRead`: counted from the end, the unread
  lines are the end of the answer to PP once its echo is on the line, and what has been kept of it is
  shorter than what has gone by if a line was lost. The last part is what makes a lost line harmless:
  an answer with a line missing has fewer than `PP_RESPONSE_LINES` lines and is refused.
* `OpenAlwaysFinds`: on a calm line (`Calm`: nothing lost, answers in time, no measurement at another rate than the
  one asked for) a sensor that is there is found, at whichever rate and in whatever mode it is and on every kind of
  connection. `FindInv` says, for each place of the thread, how far it has come with the sensor (`Where`): nothing
  sent yet; not reached at the rates tried so far (`Unreached`); the command on its way (`Asked`); its answer being read, with what
  was kept of it so far (`Replied`); a measurement that a QT ends or will end (`Interrupted`); or still, in the mode the next command
  is for. The search can not run out of rates, because the three of `TryList` are all there are (`AllRatesTried`).

* `PortsAlwaysKept`, `FirstAlwaysSensor`, `ReadersAlwaysAgree` (`ApplicationProofs`): for any set of names,
  any number of searches and command lines of any length. `PortsAssumption` keeps the devices to what `found_ports` has
  room for, which the code does not check. `Searched` says that the list has every port once and the
  sensors in front; the two readers are folds over one command line, compared place by place (`ReadersAgree`, which no run checks).
* `FilteredAlways`, `ColoursAlwaysTell`, `PillarsAlwaysFitted`, `VotesAlwaysApart`, `MostVotesAlways`,
  `FramesAlwaysCheck`: for any scans, any tables of cosines, any radius, window and number of colours. `PillarsAssumption`
  asks no more of them than the code gives: no cosine above one, centres that are C ints
  (`Far + Radius` and the window in 31 bits), and a first colour that is not the one after the first
  break (`usualColor` has ten entries, the sixth is red: with the first, two pieces would look alike). The invariant has four
  parts, each for the phases in which it is read: `ScanHeld` (the scan is the one read, or that one filtered),
  `PiecesHeld` (the pieces, the arrays to fit and the arcs are those of this scan, and every angle has a cosine),
  `ImageHeld` (the angles are steps in order, the image is of this scan, its colours are in the table)
  and `FramesHeld` (frame `i` carries arc `i`). What remains is about folds, and the lemmas are
  in that order: a fold of the community modules is the function with the equations of its definition
  (`FoldExists`, `LoopIs`), so an invariant of its steps is proved by `Induction`; the exchanges of `Sorted` put the third of five in the middle
  because that is so for every order of five numbers; the cut scan is described by the place of each point in
  it (`CutAt`), from which follow the arrays (`TakenHolds`) and the breaks before a point (`CutCounts`);
  the columns of two centres differ by less than a row is long, so that their cells are apart (`RowsApart`) also where
  columns run over into the next row; and the winner's cell gives its row and column back (`CellParts`).

Only model-checked: liveness, which is out of the prover's reach.

## Not modelled

In `UrgDriver`, where a call is one step: scans the sensor sends while a stop is reading, a lost command to start, and a
lost QT of a drain; these are in `UrgSensor`. What `get_distance_intensity`, `get_multiecho` and `get_multiecho_intensity`
of the wrapper do after their refusals, for the prototypes' sake; the C functions they would call are in `UrgSensor` and `ScanDecode`.

The clock and the raw access for debugging (system calls without a state of their own), the setting
up of the robot's serial port, which only stores Windows structures, and its reading, which nothing calls;
of the application the windows of OpenCV, the printing, and the fitting of lines, which nothing calls.
Of the Windows serial port the opening, closing and the change of the rate are modelled; its reader repeats that of Linux over
other system calls. Left out of the modules above: the timeouts' lengths, the checksum
arithmetic (a line is intact or not), the numbers in parameters, the two-byte
encoding of distances (it cannot be asked for), the rounding of floating point in angles, the error texts, the
error handler callback, `urg_set_communication_data_size` and `urg_set_timeout_msec` (they store numbers).

## Plan

All of the plan's modules exist: `RingFifo`, `RingBuffer`, `LineStream`, `LineReader`, `ScanDecode`, `ScipSensor`,
`Scip`, `UrgSensor`, `UrgOpen`, `Connection`, `UrgIndex`, `PortSearch`, `UrgDriver`, `Pillars`. What is left:

1. `UrgDriver` as an abstraction of `UrgSensor`: a refinement under which each call of the wrapper is
   the run of its function there.
2. The reader of the Windows serial port.
