----------------------------- MODULE UrgDriver ------------------------------
(***************************************************************************)
(* The C++ class Urg_driver over the functions of urg_sensor.c it calls:   *)
(* one object opened on several sensors in turn, asked for scans, windows, *)
(* names and time stamps, while the sensor measures, time passes and the   *)
(* rest of the process opens and closes descriptors of its own.            *)
(*                                                                         *)
(* A call is one step here, and receive_data takes one answer or scan from *)
(* the line, or a part of it.  What happens inside a call while lines are  *)
(* still coming is the subject of UrgSensor and UrgOpen.                   *)
(***************************************************************************)
EXTENDS Integers, Sequences, FiniteSets, UrgIndex, Connection

CONSTANTS
  Devices,       \* sensors: [id, type, first, last, front]; steps count from 0
  Types,         \* types of measurement the application asks for
  ScanTimes,     \* numbers of scans it asks for
  Windows,       \* windows it asks for: <<first step, last step, skip>>
  Kinds,         \* names it asks for: PROD, FIRM, SERI
  MaxLine,       \* while this many scans are unread, the sensor waits and nothing
                 \* is started
  Average_times, \* time stamps taken by set_sensor_time_stamp: 10 in the code
  MaxDelay,      \* ticks a command or an answer takes at most
  Wrap,          \* ticks after which the clock of a sensor is 0 again: 2^24
  MaxCalls, MaxFaults, MaxTime

Measurements == {"Distance", "Distance_intensity", "Multiecho", "Multiecho_intensity"}

ASSUME DriverAssumption ==
  /\ Devices \subseteq [id : STRING, type : {"serial", "ethernet"},
                        first : Nat, last : Int, front : Int]
  /\ Types \subseteq Measurements
  /\ Windows \subseteq Int \X Int \X Int
  /\ Average_times \in Nat \ {0} /\ Wrap \in Nat \ {0}
  /\ ScanTimes \subseteq Nat
  /\ {MaxLine, MaxDelay, MaxCalls, MaxFaults, MaxTime} \subseteq Nat

VARIABLES
  windows,   \* which port of the library was built
  h,         \* descriptors: see Connection
  urg,       \* the fields of urg_t
  impl,      \* the fields of pImpl
  peer,      \* the sensor at the other end, or Nobody
  sensor,    \* what it is doing: [stream, tm]
  line,      \* scans and answers under way
  now,       \* ticks of the PC
  zero,      \* the tick at which each sensor's clock was 0
  result,    \* the call that returned last: [op, type, ok, data, stamp]
  past,      \* history: see History
  calls, faults

world == <<windows, zero>>
session == <<h, urg, impl, peer>>
traffic == <<sensor, line>>
count == <<calls, faults>>
vars == <<world, session, traffic, now, result, past, count>>

Nobody == [id |-> "nobody"]
NoStream == [type |-> "none"]
Stopped == [k |-> "stopped"]
Refused(first) == [k |-> "refused", first |-> first]
\* What a read left of an answer or a scan; or an answer that came too late
Rest == [k |-> "rest"]
NoScan == [k |-> "nothing"]

Idle == [stream |-> NoStream, tm |-> FALSE]

\* opened: open() was called; refused: how many times in vain; pending: the
\* application has not yet read or stopped what it started; tidy: it never
\* started a measurement on a pending one since the last open; astray: since
\* then a stop gave up, or a call left something on the line that it should
\* have read; sync: the last set_sensor_time_stamp, if it counts.
History == [opened : BOOLEAN, refused : Nat, pending : BOOLEAN, tidy : BOOLEAN,
            astray : BOOLEAN, sync : [valid : BOOLEAN, asked : Int, at : Int, turn : Int]]

NoSync == [valid |-> FALSE, asked |-> 0, at |-> 0, turn |-> 0]

Init ==
  /\ windows \in BOOLEAN
  /\ h = [files |-> [d \in Descriptors |-> "none"],
          serial |-> Closed, tcp |-> Closed, type |-> "serial"]
  /\ urg = [is_active |-> FALSE, is_sending |-> FALSE, is_laser_on |-> FALSE,
            first_data_index |-> 0, last_data_index |-> 0,
            front_data_index |-> 0, received_first_index |-> 0, scanning |-> <<0, 0, 1>>,
            specified_scan_times |-> 0, scanning_remain_times |-> 0]
  /\ impl = [is_opened_ |-> FALSE, last_measure_type_ |-> "Distance",
             time_stamp_offset_ |-> 0, names |-> [k \in Kinds |-> <<>>]]
  /\ peer = Nobody /\ sensor = Idle /\ line = <<>>
  /\ now = 0 /\ zero \in [Devices -> {-3, 0}]
  /\ result = [op |-> "none", type |-> "none", ok |-> "none", data |-> NoScan, stamp |-> 0]
  /\ past = [opened |-> FALSE, refused |-> 0, pending |-> FALSE, tidy |-> TRUE,
             astray |-> FALSE, sync |-> NoSync]
  /\ calls = 0 /\ faults = 0

-----------------------------------------------------------------------------
\* The application calls op.  Before the first open() it has nothing to ask
\* for: pImpl leaves urg_ uninitialized, so that no other call is defined.
Calls(op) ==
  /\ calls < MaxCalls /\ calls' = calls + 1
  /\ op \notin {"open", "close"} => past.opened
  /\ UNCHANGED world

Returns(op, ok) ==
  result' = [op |-> op, type |-> "none", ok |-> ok, data |-> NoScan, stamp |-> 0]

Bool(b) == IF b THEN "true" ELSE "false"

\* Something goes wrong on the line.
Fault == faults < MaxFaults /\ faults' = faults + 1
NoFault == UNCHANGED faults

\* An exchange of a command and its answer finds nothing else on the line.
Quiet == line = <<>> /\ sensor.stream = NoStream

\* Without a connection
CallInactive ==
  /\ ~urg.is_active
  /\ \E op \in {"start_measurement", "stop_measurement", "set_sensor_time_stamp", "reboot"} :
       Calls(op) /\ Returns(op, "false")
  /\ UNCHANGED <<session, traffic, now, past, faults>>

\* Mutant: the object is opened over an open connection.
CloseFirst_Not == h
\* What close() does to the descriptors.
CloseFirst == IF impl.is_opened_ THEN connection_close(h) ELSE h

\* Mutant: the names of the sensor are kept.
Fresh_KeepsNames(opened) == [impl EXCEPT !.is_opened_ = opened]
Fresh(opened) ==
  [impl EXCEPT !.is_opened_ = opened, !.names = [k \in Kinds |-> <<>>]]

Parameters(device) ==
  [urg EXCEPT !.is_active = FALSE, !.is_sending = FALSE, !.is_laser_on = FALSE,
              !.specified_scan_times = 0, !.scanning_remain_times = 0,
              !.first_data_index = device.first, !.last_data_index = device.last,
              !.front_data_index = device.front]

\* receive_parameter: the whole range of the sensor
FullWindow(device) == <<device.first - device.front, device.last - device.front, 1>>

Active(device) ==
  [Parameters(device) EXCEPT !.is_active = TRUE, !.scanning = FullWindow(device)]

\* Not connected: is_sending is still the TRUE urg_open begins with, or FALSE
\* after the search for the rate.
Unconnected(sending) == [urg EXCEPT !.is_active = FALSE, !.is_sending = sending]

\* urg_open returns ret >= 0: opened
Opening(found, opened) ==
  /\ peer' = found
  /\ impl' = Fresh(opened)
  /\ past' = [past EXCEPT !.opened = TRUE, !.pending = FALSE, !.tidy = TRUE, !.astray = FALSE,
                          !.refused = IF opened THEN @ ELSE @ + 1, !.sync = NoSync]
  /\ Returns("open", Bool(opened))

\* The connection cannot be opened; no sensor answers at any rate, for which
\* urg_open returns 0 all the same; its parameters cannot be read; it is open.
Open ==
  /\ Calls("open")
  /\ \E device \in Devices, valid \in BOOLEAN :
       \E o \in connection_open(CloseFirst, device.type, windows, valid) :
         /\ h' = o.h
         /\ \/ o.ret < 0 /\ Opening(Nobody, FALSE) /\ urg' = Unconnected(TRUE)
            \/ o.ret = 0 /\ Opening(Nobody, TRUE) /\ urg' = Unconnected(FALSE)
            \/ o.ret = 0 /\ Opening(Nobody, FALSE) /\ urg' = Parameters(device)
            \/ o.ret = 0 /\ Opening(device, TRUE) /\ urg' = Active(device)
  /\ sensor' = Idle /\ line' = <<>>
  /\ UNCHANGED <<now, faults>>

\* Mutant: urg_reboot leaves is_active as it is.
Disconnected_Active(keep) ==
  /\ h' = connection_close(h) /\ UNCHANGED urg
  /\ impl' = [impl EXCEPT !.is_opened_ = keep]
  /\ peer' = Nobody /\ sensor' = Idle /\ line' = <<>>

\* urg_close lets the sensor stop, urg_reboot (which keeps) does not.
Disconnected(keep) ==
  /\ h' = connection_close(h)
  /\ urg' = [urg EXCEPT !.is_active = FALSE, !.is_sending = @ /\ keep,
                        !.is_laser_on = @ /\ keep]
  /\ impl' = [impl EXCEPT !.is_opened_ = keep]
  /\ peer' = Nobody /\ sensor' = Idle /\ line' = <<>>

\* close(), also by the destructor
Close ==
  /\ Calls("close")
  /\ IF impl.is_opened_ THEN Disconnected(FALSE) ELSE UNCHANGED <<session, traffic>>
  /\ Returns("close", "none")
  /\ past' = [past EXCEPT !.pending = FALSE]
  /\ UNCHANGED <<now, faults>>

\* reboot() closes the connection and leaves is_opened_ as it is.
Reboot ==
  /\ calls < MaxCalls /\ calls' = calls + 1
  /\ urg.is_active /\ Quiet
  /\ \/ Fault /\ UNCHANGED <<zero, session, traffic, past>>
     \/ /\ NoFault
        /\ Disconnected(impl.is_opened_)
        /\ zero' = [zero EXCEPT ![peer] = now]
        /\ past' = [past EXCEPT !.sync = NoSync, !.pending = FALSE]
  /\ Returns("reboot", "none")
  /\ UNCHANGED <<windows, now>>

-----------------------------------------------------------------------------
(***************************************************************************)
(* Reading.  What one call of receive_data, of ignore_receive_data_with_qt *)
(* or of urg_stop_measurement may make of the line, the sensor and the     *)
(* fields of urg_t: a set of outcomes s, each with ret (above 0 for "data",*)
(* 0 for "nothing" and "stopped", below 0 for "error"), the scan and time  *)
(* stamp read, and how often something went wrong on the line.             *)
(***************************************************************************)
Before ==
  [items |-> line, stream |-> sensor.stream,
   sending |-> urg.is_sending, lit |-> urg.is_laser_on,
   left |-> urg.scanning_remain_times, first |-> urg.received_first_index,
   astray |-> past.astray, faults |-> 0,
   ret |-> "none", scan |-> NoScan, stamp |-> 0]

\* What a call made of it, but for past and result
Happened(s) ==
  /\ line' = s.items /\ sensor' = [sensor EXCEPT !.stream = s.stream]
  /\ urg' = [urg EXCEPT !.is_sending = s.sending, !.is_laser_on = s.lit,
                        !.scanning_remain_times = s.left, !.received_first_index = s.first]
  /\ faults' = faults + s.faults

Single == urg.specified_scan_times = 1

\* One thing more goes wrong on the line in this call.
Faulty(s) == IF faults + s.faults < MaxFaults THEN {[s EXCEPT !.faults = @ + 1]} ELSE {}

Fails(s, items) == [s EXCEPT !.items = items, !.ret = "error"]
AndRest(items) == <<Rest>> \o items

\* ignore_receive_data_with_qt, with items still unread, in a call that fails: all
\* is read away if the sensor counts as sending, the answer to a QT for the laser
\* alone is not.
Drained(s, items) ==
  IF s.sending
  THEN [Fails(s, <<>>) EXCEPT !.stream = NoStream, !.sending = FALSE, !.lit = FALSE]
  ELSE IF s.lit
  THEN [Fails(s, Append(items, Stopped)) EXCEPT
          !.stream = NoStream, !.lit = FALSE, !.astray = TRUE]
  ELSE [Fails(s, items) EXCEPT !.astray = @ \/ items # <<>>]

\* ... whose QT may be answered when all seems read.
Drains(s, items) ==
  {Drained(s, items)} \cup
  {[Drained(x, items) EXCEPT !.items = <<Stopped>>, !.astray = TRUE] :
     x \in {y \in Faulty(s) : y.sending}}

\* A scan of either status: 00 for a single one, 99 for the others.
Expected(scan) == scan.k = "scan" /\ scan.once = Single

\* One scan less to come
Counted(s) ==
  [s EXCEPT !.left = IF urg.specified_scan_times > 1 /\ @ > 0 THEN @ - 1 ELSE @]

\* parse_distance_parameter: the first step as the echo gives it, of a scan or of a
\* command that was refused
Echoed(s, item) ==
  [s EXCEPT !.first = IF item.k \in {"scan", "refused"} THEN item.first ELSE @]

\* The scan is handed out, or thrown away by a stop.
Handed(s, items, scan, stamp) ==
  [Echoed(Counted(s), scan) EXCEPT
     !.items = items, !.ret = "data", !.scan = scan, !.stamp = stamp]

\* A read that returns 0
Empty(s, items, ret) == [s EXCEPT !.items = items, !.ret = ret]

\* What is next, undamaged: nothing; the answer to a QT; a scan; lines that are no
\* answer (of which a single empty one, two, or all may be gone); another status.
Undisturbed(s) ==
  IF s.items = <<>> THEN {Fails(s, <<>>)}
  ELSE
    LET item == Head(s.items)
        more == Tail(s.items)
    IN  IF item = Stopped THEN {Empty(s, more, "stopped")}
        ELSE IF Expected(item) THEN {Handed(s, more, item, item.stamp)}
        ELSE IF item = Rest
        THEN {Fails(s, more)} \cup Drains(s, more) \cup Drains(s, s.items)
             \cup (IF Single THEN {Empty(s, more, "nothing")} ELSE {})
        ELSE Drains(Echoed(s, item), AndRest(more))

\* A scan with a damaged or missing time stamp, of which there is no check, or with a
\* damaged number in its echo; a part of it may still come.
Spoiled(s, scan, more) ==
  {[Handed(s, items, [scan EXCEPT !.intact = FALSE], stamp) EXCEPT
      !.first = first, !.astray = @ \/ items # more] :
     items \in {more, AndRest(more)}, stamp \in {0, scan.stamp}, first \in {0, scan.first}}

\* Its echo says nothing (URG_UNKNOWN): nothing is read behind the time stamp.
Unread(s, more) == [Empty(Counted(s), AndRest(more), "nothing") EXCEPT !.astray = TRUE]

\* What is next is damaged, before or behind its status; it is a scan, and the damage
\* is not found; it is an answer with nothing behind.
Damaged(s, item, more) ==
  (UNION {Drains(x, items) : x \in {s, Echoed(s, item), Counted(Echoed(s, item))},
                             items \in {more, AndRest(more)}})
  \cup (IF Expected(item) THEN {Unread(s, more)} \cup Spoiled(s, item, more) ELSE {})
  \cup (IF item = Stopped /\ Single THEN {Empty(s, more, "nothing")} ELSE {})

\* ... or it comes too late.
Disturbed(s) ==
  UNION {{Fails(x, x.items)} \cup
         (IF x.items = <<>> THEN {} ELSE Damaged(x, Head(x.items), Tail(x.items))) :
           x \in Faulty(s)}

\* An answer of status 00 to a command that does not measure is passed over when a
\* measurement of many scans is expected: a late one, and a QT whose echo is damaged.
PassedOver(s) ==
  {s} \cup
  IF Single \/ s.items = <<>> THEN {}
  ELSE LET passed(x) == [x EXCEPT !.items = Tail(@)]
       IN  CASE Head(s.items) = Rest -> {passed(s)}
             [] Head(s.items) = Stopped -> {passed(x) : x \in Faulty(s)}
             [] OTHER -> {}

\* receive_data, up to the automatic stop
Read(s) == UNION {Undisturbed(x) \cup Disturbed(x) : x \in PassedOver(s)}

\* urg_stop_measurement writes its QT: it is answered, the answer is lost, the QT is.
QT(s) ==
  {[s EXCEPT !.items = Append(@, Stopped), !.stream = NoStream]} \cup
  UNION {{[x EXCEPT !.stream = NoStream], x} : x \in Faulty(s)}

\* A 0 ends the reads of a stop, whether it was the answer to its QT or not.
Ended(s) == s.ret \in {"stopped", "nothing"}

\* What it comes to: the host believes the 0.
Concluded(s) ==
  IF Ended(s)
  THEN [s EXCEPT !.sending = FALSE, !.lit = FALSE,
                 !.astray = @ \/ s.items # <<>> \/ s.stream # NoStream]
  ELSE [s EXCEPT !.astray = TRUE]

\* The stop receive_data makes of its own accord: three reads (MAX_READ_TIMES)
ReadAgain(S) == UNION {IF Ended(s) THEN {s} ELSE Read(s) : s \in S}
AutoStop(s) ==
  {Concluded(x) : x \in ReadAgain(ReadAgain(ReadAgain(QT([s EXCEPT !.ret = "none"]))))}

\* With the last scan of a finite measurement it is stopped.
receive_data(s) ==
  UNION {IF s.left > 0 /\ x.left = 0
         THEN {[y EXCEPT !.ret = x.ret, !.scan = x.scan, !.stamp = x.stamp] : y \in AutoStop(x)}
         ELSE {x} : x \in Read(s)}

\* The stop of the application: the same, but it may read that last scan.
ReceiveAgain(S) == UNION {IF Ended(s) THEN {s} ELSE receive_data(s) : s \in S}
urg_stop_measurement(s) ==
  {Concluded(x) : x \in ReceiveAgain(ReceiveAgain(ReceiveAgain(QT(s))))}

-----------------------------------------------------------------------------
(***************************************************************************)
(* Measuring.                                                              *)
(***************************************************************************)
Requested(times) ==
  [urg EXCEPT !.specified_scan_times = IF times >= 100 THEN 0 ELSE times,
              !.scanning_remain_times = times,
              !.is_sending = @ \/ times # 1]

\* The stream a sensor is asked for; left = 0: without end.
Stream(type, times) ==
  [type |-> type, once |-> times = 1, left |-> Requested(times).specified_scan_times,
   first |-> urg.scanning[1] + urg.front_data_index,
   last |-> urg.scanning[2] + urg.front_data_index, skip |-> urg.scanning[3]]

\* The sensor has these steps; urg_set_scanning_parameter does not ask for the
\* first of them.
Measurable(stream) == stream.first >= peer.first /\ stream.last <= peer.last

\* urg_laser_on, before a single scan and unless the laser counts as on already:
\* answered; refused in time stamp mode; not answered, or too late.
Lighting(times) ==
  IF times # 1 \/ urg.is_laser_on \/ sensor.tm
  THEN {[lit |-> urg.is_laser_on, items |-> line, faults |-> faults]}
  ELSE {[lit |-> TRUE, items |-> line, faults |-> faults]} \cup
       {[lit |-> FALSE, items |-> items, faults |-> faults + 1] :
          items \in IF faults < MaxFaults THEN {line, Append(line, Rest)} ELSE {}}

\* start_measurement() with a legal skip_scan: the new stream takes the place of
\* the old one, and the scans of the old one stay on the line.  The sensor does not
\* measure in time stamp mode, nor steps it has not, nor once with its laser off.
Start(type, times) ==
  /\ Calls("start_measurement") /\ urg.is_active /\ Len(line) < MaxLine
  /\ times = 1 /\ ~urg.is_laser_on => Quiet
  /\ \E l \in Lighting(times) :
       /\ urg' = [Requested(times) EXCEPT !.is_laser_on = l.lit]
       /\ \/ /\ faults' = l.faults
             /\ \/ /\ sensor.tm \/ times = 1 \/ ~Measurable(Stream(type, times))
                   /\ line' = Append(l.items, Refused(Stream(type, times).first))
                   /\ UNCHANGED sensor
                \/ /\ ~sensor.tm /\ Measurable(Stream(type, times))
                   /\ sensor' = [sensor EXCEPT !.stream = Stream(type, times)]
                   /\ line' = l.items
             /\ impl' = [impl EXCEPT !.last_measure_type_ = type]
             /\ past' = [past EXCEPT !.pending = TRUE, !.tidy = @ /\ ~past.pending,
                                     !.astray = @ \/ l.items # line]
             /\ Returns("start_measurement", "true")
          \/ /\ l.faults < MaxFaults /\ faults' = l.faults + 1
             /\ line' = l.items
             /\ past' = [past EXCEPT !.tidy = @ /\ ~past.pending, !.astray = @ \/ l.items # line]
             /\ Returns("start_measurement", "false")
             /\ UNCHANGED <<sensor, impl>>
  /\ UNCHANGED <<h, peer, now>>

\* ... with an illegal one: everything is stopped and thrown away.
StartRefused ==
  /\ Calls("start_measurement") /\ urg.is_active
  /\ \E s \in Drains(Before, line) :
       Happened(s) /\ past' = [past EXCEPT !.astray = s.astray]
  /\ Returns("start_measurement", "false")
  /\ UNCHANGED <<h, impl, peer, now>>

SensorClock(tick) == (tick - zero[peer]) % Wrap

\* The sensor measures.
Measure ==
  /\ sensor.stream # NoStream /\ Len(line) < MaxLine
  /\ line' = Append(line,
       [k |-> "scan", type |-> sensor.stream.type, once |-> sensor.stream.once,
        first |-> sensor.stream.first, last |-> sensor.stream.last,
        skip |-> sensor.stream.skip, taken |-> now, stamp |-> SensorClock(now),
        intact |-> TRUE])
  /\ sensor' = [sensor EXCEPT !.stream =
       IF sensor.stream.left = 1 THEN NoStream
       ELSE [sensor.stream EXCEPT !.left = IF @ = 0 THEN 0 ELSE @ - 1]]
  /\ UNCHANGED <<world, session, now, result, past, count>>

\* stop_measurement(), laser_off(), wakeup(), sleep(), which tell nobody how
\* they ended (sleep() goes on to an exchange of its own when the stop worked)
Stop ==
  /\ Calls("stop_measurement") /\ urg.is_active
  /\ \E s \in urg_stop_measurement(Before) :
       /\ Happened(s)
       /\ past' = [past EXCEPT !.pending = FALSE, !.astray = s.astray]
  /\ Returns("stop_measurement", "none")
  /\ UNCHANGED <<h, impl, peer, now>>

-----------------------------------------------------------------------------
(***************************************************************************)
(* get_distance() and the three others.  Of the others only the refusals   *)
(* are here: past them they call functions of C by prototypes with one     *)
(* argument less than the functions have, which leaves open what happens.  *)
(***************************************************************************)
\* Mutant: the type is not compared.
Mismatch_Never(type) == FALSE
Mismatch(type) == impl.last_measure_type_ # type

Got(type, ok, data, stamp) ==
  result' = [op |-> "get", type |-> type, ok |-> ok, data |-> data, stamp |-> stamp]

\* Not what was started; or no connection, for which max_data_size() is
\* negative and resize() throws.
GetFails(type) ==
  /\ Calls("get")
  /\ \/ Mismatch(type) /\ Got(type, "false", NoScan, 0)
     \/ ~Mismatch(type) /\ urg_max_data_size(urg) < 0 /\ Got(type, "throws", NoScan, 0)
  /\ UNCHANGED <<session, traffic, now, past, faults>>

adjust_time_stamp(stamp) == stamp + impl.time_stamp_offset_

\* The time stamp is PC time when the array has a length; otherwise the array is
\* zeros, and the call returns true all the same unless the read failed.
GetReturns(s) ==
  IF s.ret = "data" THEN Got("Distance", "true", s.scan, adjust_time_stamp(s.stamp))
  ELSE Got("Distance", Bool(s.ret # "error"), NoScan, 0)

\* For all the application knows it has read what it started.
AllRead(s) == Single \/ (urg.specified_scan_times > 1 /\ s.left = 0)

\* It waits for a sensor that measures.
Get ==
  /\ Calls("get")
  /\ ~Mismatch("Distance") /\ urg.is_active
  /\ \E s \in receive_data(Before) :
       /\ line = <<>> /\ sensor.stream # NoStream => s.faults > 0
       /\ Happened(s) /\ GetReturns(s)
       /\ past' = [past EXCEPT !.astray = s.astray,
                               !.pending = @ /\ (s.ret = "error" \/ ~AllRead(s))]
  /\ UNCHANGED <<h, impl, peer, now>>

SetMeasurementType(type) ==
  /\ Calls("set_measurement_type")
  /\ impl' = [impl EXCEPT !.last_measure_type_ = type]
  /\ past' = [past EXCEPT !.tidy = FALSE]
  /\ Returns("set_measurement_type", "none")
  /\ UNCHANGED <<h, urg, peer, traffic, now, faults>>

SetWindow ==
  /\ Calls("set_scanning_parameter")
  /\ \E w \in Windows :
       IF InRange(urg, w[1], w[2], w[3])
       THEN urg' = [urg EXCEPT !.scanning = w] /\ Returns("set_scanning_parameter", "true")
       ELSE UNCHANGED urg /\ Returns("set_scanning_parameter", "false")
  /\ UNCHANGED <<h, impl, peer, traffic, now, past, faults>>

-----------------------------------------------------------------------------
(***************************************************************************)
(* Time stamps and texts.                                                  *)
(***************************************************************************)
NO_RESPONSE == -5

\* Division as C does it
Quotient(a, b) == IF a >= 0 THEN a \div b ELSE -((-a) \div b)

\* The commands and answers of one set_sensor_time_stamp: how long each takes.
Delays == [1 .. Average_times -> [out : 0 .. MaxDelay, back : 0 .. MaxDelay]]

\* PC time when the first n of them are over
After(delays, n) ==
  LET sum[i \in 0 .. n] ==
        IF i = 0 THEN now ELSE sum[i - 1] + (delays[i].out + delays[i].back)
  IN  sum[n]

\* Mutant: the time the command takes is not made up for.
Difference_OneWay(before, after, sensor_ticks) == before - sensor_ticks
Difference(before, after, sensor_ticks) ==
  before + Quotient(after - before, 2) - sensor_ticks

\* What one sample says of PC time minus sensor time; the negative number of an
\* error counts like a time.
Sample(delays, lost, i) ==
  LET before == After(delays, i - 1)
  IN  Difference(before, After(delays, i),
                 IF i \in lost THEN NO_RESPONSE ELSE SensorClock(before + delays[i].out))

Average(delays, lost) ==
  LET sum[i \in 0 .. Average_times] ==
        IF i = 0 THEN 0 ELSE sum[i - 1] + Sample(delays, lost, i)
  IN  Quotient(sum[Average_times], Average_times)

Offset(delays, lost, asked) == Average(delays, lost) + (asked - now)

Turn(tick) == (tick - zero[peer]) \div Wrap

SyncOver(delays) ==
  /\ After(delays, Average_times) <= MaxTime
  /\ now' = After(delays, Average_times)

\* TM0 and TM2 are answered; then the offset is that of asked.
SetSensorTimeStamp ==
  /\ Calls("set_sensor_time_stamp") /\ urg.is_active /\ Quiet
  /\ \E delays \in Delays, lost \in {{}, {1}}, asked \in {0, now} :
       /\ IF lost = {} THEN NoFault ELSE Fault
       /\ SyncOver(delays)
       /\ impl' = [impl EXCEPT !.time_stamp_offset_ = Offset(delays, lost, asked)]
       /\ past' = [past EXCEPT !.sync =
            [valid |-> lost = {} /\ Turn(now) = Turn(now'), asked |-> asked,
             at |-> now, turn |-> Turn(now)]]
  /\ sensor' = [sensor EXCEPT !.tm = FALSE]
  /\ Returns("set_sensor_time_stamp", "true")
  /\ UNCHANGED <<h, urg, peer, line>>

\* The answer to a command does not come, or comes too late.
Unanswered ==
  /\ Fault
  /\ \/ UNCHANGED <<line, past>>
     \/ line' = <<Rest>> /\ past' = [past EXCEPT !.astray = TRUE]

\* TM0 or TM2 is not answered: the sensor may stay in time stamp mode, and the
\* offset is the old one.
SetSensorTimeStampFails ==
  /\ Calls("set_sensor_time_stamp") /\ urg.is_active /\ Quiet /\ Unanswered
  /\ sensor' \in {sensor, [sensor EXCEPT !.tm = TRUE]}
  /\ Returns("set_sensor_time_stamp", "false")
  /\ UNCHANGED <<session, now>>

\* The lines of the sensor's answer to VV, by their tags
Version(device) == [tag \in {"PROD", "FIRM", "SERI"} |-> <<device.id, tag>>]

NotConnected == <<"not connected">>
ReceiveError == <<"receive error">>

copy_token(lines, tag) == IF tag \in DOMAIN lines THEN lines[tag] ELSE ReceiveError

\* urg_sensor_product_type, urg_sensor_firmware_version, urg_sensor_serial_id
urg_sensor_name(tag, answered) ==
  IF ~urg.is_active THEN NotConnected
  ELSE IF answered THEN copy_token(Version(peer), tag) ELSE ReceiveError

\* An exchange that keeps the line empty: answered, refused in time stamp mode, or
\* not even begun without a connection; or one that is not answered.
Exchange(answered) ==
  \/ answered = (urg.is_active /\ ~sensor.tm) /\ NoFault /\ UNCHANGED <<line, past>>
  \/ ~answered /\ urg.is_active /\ Unanswered

\* product_type(), firmware_version(), serial_id(): asked for once, then kept,
\* the text of an error too.
Name ==
  /\ Calls("name") /\ Quiet
  /\ \E tag \in Kinds :
       IF impl.names[tag] # <<>>
       THEN NoFault /\ UNCHANGED <<impl, line, past>>
       ELSE \E answered \in BOOLEAN :
              /\ Exchange(answered)
              /\ impl' = [impl EXCEPT !.names[tag] = urg_sensor_name(tag, answered)]
  /\ Returns("name", "none")
  /\ UNCHANGED <<h, urg, peer, sensor, now>>

\* status(), state(), is_stable(), laser_on(): an exchange that is not kept, but
\* laser_on() notes that the laser is on.
Ask ==
  /\ Calls("ask") /\ Quiet
  /\ \E answered \in BOOLEAN, laser \in BOOLEAN :
       /\ Exchange(answered)
       /\ Returns("ask", Bool(answered))
       /\ urg' = [urg EXCEPT !.is_laser_on = @ \/ (laser /\ answered)]
  /\ UNCHANGED <<h, impl, peer, sensor, now>>

-----------------------------------------------------------------------------
(***************************************************************************)
(* The rest of the process, and time.                                      *)
(***************************************************************************)
Others ==
  /\ \E d \in Descriptors :
       \/ h.files[d] = "none" /\ h' = [h EXCEPT !.files[d] = "other"]
       \/ h.files[d] = "other" /\ h' = [h EXCEPT !.files[d] = "none"]
  /\ UNCHANGED <<world, urg, impl, peer, traffic, now, result, past, count>>

Tick ==
  /\ now < MaxTime /\ now' = now + 1
  /\ UNCHANGED <<world, session, traffic, result, past, count>>

Driver ==
  \/ Open \/ Close \/ Reboot
  \/ (\E type \in Types, times \in ScanTimes : Start(type, times))
  \/ StartRefused \/ Stop \/ CallInactive
  \/ (\E type \in Types : GetFails(type) \/ SetMeasurementType(type))
  \/ Get \/ SetWindow \/ SetSensorTimeStamp \/ SetSensorTimeStampFails
  \/ Name \/ Ask

Next == Driver \/ Measure \/ Others \/ Tick

Spec == Init /\ [][Next]_vars

-----------------------------------------------------------------------------
\* A descriptor the connection holds is open and its own: no close, second
\* close, refused open or reboot leaves it one that was closed, and that the
\* rest of the process may meanwhile have been given (serial_close,
\* tcpclient_close, urg_close, Urg_driver::close).
OwnDescriptor == Own(h)

\* No call ever closes or takes a descriptor of the rest of the process.
LeavesOthersAlone ==
  [][\A d \in Descriptors : h.files[d] = "other" /\ h'.files[d] # "other" => ~Driver]_vars

\* Every open() leaves at most the one descriptor behind that it was refused
\* with: closing, reopening and rebooting lose none.
LosesRefusedOnly == Cardinality(Lost(h)) <= past.refused

\* As long as urg_t counts as active there is an open connection to a sensor,
\* and the object counts as opened, so that close() and the destructor end it.
ActiveIsConnected ==
  urg.is_active =>
    /\ impl.is_opened_ /\ peer \in Devices
    /\ h.type = peer.type
    /\ InUse(h) \in Descriptors

\* A kept name is that of the sensor now connected, or the text of an error:
\* never that of a sensor opened before.
NamesOfPeer ==
  peer # Nobody =>
    \A tag \in Kinds :
      impl.names[tag] \in {<<>>, NotConnected, ReceiveError, <<peer.id, tag>>}

\* A get_distance() that returns true hands out a scan, and one of its own type
\* (Urg_driver.cpp:205 compares the type with the last start only, not with the
\* scan), as long as the application starts nothing before it has read or stopped
\* what it started, and nothing has gone astray: the array of zeros of a damaged
\* echo, which leaves the scan unread, of a QT answered too late, or of an answer to
\* some other command is handed out only from then on.
OwnScan ==
  result.op = "get" /\ result.ok = "true" /\ past.tidy /\ ~past.astray =>
    result.data.k = "scan" /\ result.data.type = result.type

Distance(a, b) == IF a < b THEN b - a ELSE a - b

\* After a set_sensor_time_stamp(asked) whose ten samples were all answered, a
\* scan of which no line was damaged or lost (receive_data checks neither its echo
\* nor its time stamp) is stamped with asked plus the time since then, to half the
\* time a command and its answer may differ; also after a second one, and until the
\* clock of the sensor turns over.
StampsOfPC ==
  result.op = "get" /\ result.data.k = "scan" /\ result.data.intact /\ past.sync.valid
  /\ result.data.taken >= past.sync.at /\ Turn(result.data.taken) = past.sync.turn =>
    Distance(result.stamp, past.sync.asked + (result.data.taken - past.sync.at))
      <= (MaxDelay + 1) \div 2

\* The conversions of the class
index2rad(index) == urg_index2rad(urg, index)
rad2index(angle) == urg_rad2index(urg, angle)
rad2step(angle) == urg_rad2step(urg, angle)
step2rad(step) == urg_step2rad(urg, step)
step2index(step) == urg_step2index(urg, step)
min_step == urg_step_min_max(urg)[1]
max_step == urg_step_min_max(urg)[2]

\* The scan handed out was the last of its measurement, so that the stop that
\* follows may have read old scans behind it.
StoppedAfter == urg.specified_scan_times > 1 /\ urg.scanning_remain_times = 0

\* A scan no line of which was damaged, and no old one read since
Readable ==
  /\ result.op = "get" /\ result.data.k = "scan" /\ result.data.intact
  /\ StoppedAfter => past.tidy /\ ~past.astray

\* Index k of the scan just received (skipping no step) is at the angle of the step it was measured at, one the sensor has, and that step
\* leads back to index k; any angle nearer to this step than to another leads to the
\* step and to the sensor's own index of it, which is k only in a scan of the whole
\* range.  The index counts steps: in the data get_distance() hands out it is the
\* entry up to the first break point only (see ScanDecode).
AnglesFit ==
  Readable /\ result.data.skip <= 1 =>
    \A k \in 0 .. result.data.last - result.data.first :
      LET step == result.data.first + k - urg.front_data_index
      IN  /\ step \in min_step .. max_step
          /\ index2rad(k) = step2rad(step) /\ step2index(step) = k
          /\ \A part \in -(FractionsPerStep \div 2) .. FractionsPerStep \div 2 - 1 :
               /\ rad2step(step2rad(step) + part) = step
               /\ rad2index(step2rad(step) + part) = result.data.first + k
=============================================================================
