----------------------------- MODULE UrgSensor ------------------------------
(***************************************************************************)
(* The API of urg_sensor.c on an open connection: starting, reading and    *)
(* stopping measurements, the laser, the time stamp mode, the information  *)
(* commands, sleep, reboot and close, each as the sequence of reads and    *)
(* writes it performs, called in any order the application chooses.        *)
(*                                                                         *)
(* receive_data calls urg_stop_measurement after the last scan of a finite *)
(* measurement, and urg_stop_measurement calls receive_data to wait for    *)
(* the answer to QT.  "stack" holds the callers of the receive_data that   *)
(* is running, innermost first.                                            *)
(*                                                                         *)
(* When a call is over, pc = "idle" and op, ret and seen still say which   *)
(* call it was, what it returned and from which lines.                     *)
(***************************************************************************)
EXTENDS Scip

CONSTANTS
  Ops,         \* the API functions the application uses
  ScanTimes,   \* the scan counts it asks for
  StepsAsked,  \* received_last_index - received_first_index + 1: what a scan
               \* has without skip_step, and less with it
  Polite,      \* does it keep to GoodManners, below?
  MaxCalls,    \* how many calls it makes
  NoisyCalls   \* in how many of them the line may be disturbed; it makes no
               \* more than these once it was

OpNames == {"start", "start_bad", "get", "stop", "laser", "tm0", "tm1", "tm2",
            "info", "sleep", "reboot", "close"}

\* Range steps in a line of a scan, and in a scan as the sensor sends it, with
\* as many steps left out as skip_step says.
StepsPerLine == 2
FullScan == DataLines * StepsPerLine

ASSUME UrgAssumption ==
  /\ Ops \subseteq OpNames
  /\ ScanTimes \subseteq 0 .. 100
  /\ StepsAsked \in Nat /\ FullScan <= StepsAsked
  /\ Polite \in BOOLEAN
  /\ MaxCalls \in Nat /\ NoisyCalls \in Nat

VARIABLES
  stack,     \* callers of the running receive_data
  type,      \* receive_data: what the echo announces
  steps,     \* receive_length_data: range steps decoded
  barrier,   \* history: call number of the last stop that succeeded
  scans      \* history: scans handed out since the last start

localVars == <<stack, type, steps>>
historyVars == <<barrier, scans>>
vars == <<sensorVars, hostVars, localVars, historyVars>>

MAX_READ_TIMES_Two == 2  \* mutant: one read too few
MAX_READ_TIMES == 3

Frame(by) == [by |-> by, tries |-> 0, kept |-> ret, keptSeen |-> seen]

Init ==
  /\ SensorInit
  /\ link = "open"
  /\ urg = [is_active |-> TRUE, is_sending |-> FALSE, is_laser_on |-> FALSE,
            specified_scan_times |-> 0, scanning_remain_times |-> 0,
            last_errno |-> "NO_ERROR"]
  /\ pc = "idle" /\ op = "none" /\ ret = "OK" /\ good = FALSE
  /\ resume = "idle" /\ seen = {} /\ calls = 0
  /\ stack = <<>> /\ type = "unknown" /\ steps = 0
  /\ barrier = 0 /\ scans = 0

\* A scan is under way, or was asked for in the last call.
Measuring == urg.is_sending \/ op = "start"

\* A polite application reads or stops a measurement before it asks anything
\* else, has the laser off in time stamp mode, and does not measure in it.
GoodManners(o) ==
  /\ Measuring => o \in {"get", "stop", "sleep", "close"}
  /\ urg.is_laser_on => o # "tm0"
  /\ dev.tm => o \in {"tm1", "tm2", "info", "close"}

\* The application calls function o.
Call(o) ==
  /\ pc = "idle" /\ calls < IF noise = 0 THEN MaxCalls ELSE NoisyCalls
  /\ Polite => GoodManners(o)
  /\ pc' = "entry" /\ op' = o /\ calls' = calls + 1
  /\ ret' = "OK" /\ seen' = {}
  /\ UNCHANGED <<sensorVars, link, urg, good, resume, localVars, historyVars>>

At(p, ops) == pc = p /\ op \in ops
Entered(o) == At("entry", {o}) /\ urg.is_active

Returns(r) == pc' = "idle" /\ ret' = r

\* Every function but urg_close refuses to work without a connection; the
\* information functions do so without setting last_errno.
NotConnected ==
  /\ pc = "entry" /\ op # "close" /\ ~urg.is_active
  /\ Returns("NOT_CONNECTED")
  /\ urg' = IF op = "info" THEN urg ELSE [urg EXCEPT !.last_errno = "NOT_CONNECTED"]
  /\ UNCHANGED <<sensorVars, link, op, good, resume, seen, calls, localVars,
                 historyVars>>

-----------------------------------------------------------------------------
(***************************************************************************)
(* urg_start_measurement and send_distance_command.                        *)
(***************************************************************************)

\* The measuring command itself, on the fields u.
SendDistanceCommand(c, n, u) ==
  /\ IF CanWrite
     THEN Write(c, n) /\ Returns("OK") /\ urg' = u
     ELSE /\ UNCHANGED tx
          /\ Returns("SEND_ERROR") /\ urg' = [u EXCEPT !.last_errno = "SEND_ERROR"]
  /\ scans' = 0

\* Mutant: 100 scans are asked for as they are.
Requested_Uncut(times) ==
  [urg EXCEPT !.specified_scan_times = times, !.scanning_remain_times = times]

Requested(times) ==
  [urg EXCEPT !.specified_scan_times = IF times >= 100 THEN 0 ELSE times,
              !.scanning_remain_times = times]

\* Continuous scanning: Mx with the number of scans, 00 for no end.
StartContinuous ==
  /\ Entered("start")
  /\ \E times \in ScanTimes \ {1} :
       SendDistanceCommand("MD", Requested(times).specified_scan_times,
                           [Requested(times) EXCEPT !.is_sending = TRUE])
  /\ UNCHANGED <<rx, dev, unit, noise, link, op, good, resume, seen, calls,
                 localVars, barrier>>

\* A single scan: Gx, after urg_laser_on unless the laser is already on.
StartSingle ==
  /\ Entered("start") /\ 1 \in ScanTimes
  /\ IF urg.is_laser_on
     THEN /\ SendDistanceCommand("GD", 0, [Requested(1) EXCEPT !.last_errno = "NO_ERROR"])
          /\ UNCHANGED <<good, seen>>
     ELSE ScipBegins(op, Requested(1)) /\ UNCHANGED scans
  /\ UNCHANGED <<rx, dev, unit, noise, link, op, resume, calls, localVars, barrier>>

\* Gx goes out whatever urg_laser_on returned.
StartSingleGoesOn ==
  /\ At("scip_done", {"start"})
  /\ SendDistanceCommand("GD", 0, [urg EXCEPT !.is_laser_on = (ret = "OK")])
  /\ UNCHANGED <<rx, dev, unit, noise, link, op, good, resume, seen, calls,
                 localVars, barrier>>

\* A bad skip_scan or measurement type.
StartRefused ==
  /\ Entered("start_bad")
  /\ DrainWithQT("INVALID_PARAMETER", "idle")
  /\ UNCHANGED <<rx, dev, unit, noise, link, op, good, seen, calls, localVars,
                 historyVars>>

-----------------------------------------------------------------------------
(***************************************************************************)
(* receive_data: echo, status, time stamp, range data.                     *)
(***************************************************************************)
Get ==
  /\ Entered("get")
  /\ stack' = <<Frame("get")>>
  /\ pc' = "rd_echo"
  /\ UNCHANGED <<sensorVars, link, urg, op, ret, good, resume, seen, calls,
                 type, steps, historyVars>>

EchoType(line) ==
  IF line.k = "echo" /\ line.ok
  THEN CASE line.c = "QT" -> "stop" [] line.c \in {"GD", "MD"} -> "distance"
         [] OTHER -> "unknown"
  ELSE "unknown"

\* receive_data fails with e, without a drain.
ReceiveFails(e) ==
  /\ ret' = e /\ pc' = "rd_done"
  /\ urg' = [urg EXCEPT !.last_errno = e]
  /\ UNCHANGED <<tx, resume>>

ReceiveGoesOn(p, line) ==
  /\ pc' = p /\ seen' = seen \cup {line}
  /\ UNCHANGED <<tx, urg, ret, resume>>

ReceiveEcho ==
  /\ pc = "rd_echo"
  /\ \E line \in Arrivals :
       /\ Consume(line)
       /\ \/ /\ Length(line) <= 0
             /\ ReceiveFails("NO_RESPONSE")
             /\ seen' = {} /\ UNCHANGED type
          \/ /\ Length(line) > 0
             /\ pc' = "rd_status" /\ type' = EchoType(line) /\ seen' = {line}
             /\ UNCHANGED <<tx, urg, ret, resume>>
  /\ UNCHANGED <<dev, unit, noise, link, op, good, calls, stack, steps, historyVars>>

\* With a scan count other than 1, 00 acknowledges the command and 99 carries
\* data; with a scan count of 1, 00 carries data.
DataStatus == IF urg.specified_scan_times = 1 THEN "00" ELSE "99"

ReceiveStatus ==
  /\ pc = "rd_status"
  /\ \E line \in Arrivals :
       /\ Consume(line)
       /\ \/ /\ Length(line) # 3
             /\ DrainWithQT("INVALID_RESPONSE", "rd_done") /\ UNCHANGED seen
          \/ /\ Length(line) = 3 /\ ~line.ok
             /\ DrainWithQT("CHECKSUM_ERROR", "rd_done") /\ UNCHANGED seen
          \/ /\ Length(line) = 3 /\ line.ok /\ type = "stop"
             /\ ReceiveGoesOn("rd_stop_end", line)
          \/ /\ Length(line) = 3 /\ line.ok /\ type # "stop"
             /\ urg.specified_scan_times # 1 /\ line.s = "00"
             /\ ReceiveGoesOn("rd_ack_end", line)
          \/ /\ Length(line) = 3 /\ line.ok /\ type # "stop"
             /\ line.s = DataStatus
             /\ ReceiveGoesOn("rd_ts", line)
          \/ /\ Length(line) = 3 /\ line.ok /\ type # "stop"
             /\ line.s \notin {"00", DataStatus}
             /\ DrainWithQT("INVALID_RESPONSE", "rd_done") /\ UNCHANGED seen
  /\ UNCHANGED <<dev, unit, noise, link, op, good, calls, localVars, historyVars>>

\* The answer to QT ends with an empty line; receive_data returns 0.
ReceiveStopEnd ==
  /\ pc = "rd_stop_end"
  /\ \E line \in Arrivals :
       /\ Consume(line)
       /\ IF Length(line) = 0
          THEN /\ ret' = "OK" /\ pc' = "rd_done" /\ UNCHANGED <<tx, urg, resume>>
          ELSE ReceiveFails("INVALID_RESPONSE")
  /\ UNCHANGED <<dev, unit, noise, link, op, good, seen, calls, localVars, historyVars>>

\* After the acknowledgement receive_data calls itself for the first scan.
ReceiveAckEnd ==
  /\ pc = "rd_ack_end"
  /\ \E line \in Arrivals :
       /\ Consume(line)
       /\ IF Length(line) = 0
          THEN /\ pc' = "rd_echo" /\ seen' = {} /\ UNCHANGED <<tx, urg, ret, resume>>
          ELSE DrainWithQT("INVALID_RESPONSE", "rd_done") /\ UNCHANGED seen
  /\ UNCHANGED <<dev, unit, noise, link, op, good, calls, localVars, historyVars>>

\* The time stamp: whatever comes, or nothing, is accepted.
ReceiveTimestamp ==
  /\ pc = "rd_ts"
  /\ \E line \in Arrivals :
       /\ Consume(line)
       /\ seen' = IF Length(line) > 0 THEN seen \cup {line} ELSE seen
  /\ ret' = "OK" /\ steps' = 0
  /\ pc' = IF type = "distance" THEN "rd_data" ELSE "rd_count"
  /\ UNCHANGED <<tx, dev, unit, noise, link, urg, op, good, resume, calls, stack,
                 type, historyVars>>

\* Range steps the characters of a line are worth: a time stamp is long
\* enough for one, a status line for none.
StepsIn(line) == CASE line.k = "ts" -> 1 [] line.k = "stat" -> 0
                   [] OTHER -> StepsPerLine

TooManySteps_Never(line) == FALSE  \* mutant: no bound

\* The bound does not know of skip_step: with it a scan stays below.
TooManySteps(line) == steps + StepsIn(line) > StepsAsked

\* receive_length_data: any line with a checksum counts as range data, the
\* scan ends with an empty line or a timeout.
ReceiveLengthData ==
  /\ pc = "rd_data"
  /\ \E line \in Arrivals :
       /\ Consume(line)
       /\ \/ /\ Length(line) > 0 /\ ~ChecksumFits(line)
             /\ DrainWithQT("CHECKSUM_ERROR", "rd_count")
             /\ UNCHANGED <<seen, steps>>
          \/ /\ Length(line) > 0 /\ ChecksumFits(line)
             /\ TooManySteps(line)
             /\ DrainWithQT("RECEIVE_ERROR", "rd_count")
             /\ UNCHANGED <<seen, steps>>
          \/ /\ Length(line) > 0 /\ ChecksumFits(line)
             /\ ~TooManySteps(line)
             /\ steps' = steps + StepsIn(line)
             /\ ReceiveGoesOn("rd_data", line)
          \/ /\ Length(line) <= 0
             /\ ret' = IF steps > 0 THEN "DATA" ELSE "OK"
             /\ pc' = "rd_count"
             /\ UNCHANGED <<tx, urg, resume, seen, steps>>
  /\ UNCHANGED <<dev, unit, noise, link, op, good, calls, stack, type, historyVars>>

-----------------------------------------------------------------------------
(***************************************************************************)
(* The end of receive_data and urg_stop_measurement.                       *)
(***************************************************************************)

\* QT, then up to MAX_READ_TIMES calls of receive_data.
StopBegins(by) ==
  /\ stack' = <<Frame(by)>> \o stack
  /\ IF CanWrite
     THEN Write("QT", 0) /\ pc' = "rd_echo" /\ UNCHANGED <<urg, ret>>
     ELSE /\ UNCHANGED tx
          /\ pc' = "stop_done" /\ ret' = "SEND_ERROR"
          /\ urg' = [urg EXCEPT !.last_errno = "SEND_ERROR"]
  /\ UNCHANGED <<rx, dev, unit, noise, link, op, good, resume, seen, calls, type,
                 steps, barrier>>

Stop == At("entry", {"stop", "sleep"}) /\ urg.is_active
        /\ StopBegins("app") /\ UNCHANGED scans

InGet == Head(stack).by = "get"
HandsOut == IF InGet /\ ret = "DATA" THEN scans + 1 ELSE scans

CountsScans_ButLast ==  \* mutant: off by one
  urg.specified_scan_times > 1 /\ urg.scanning_remain_times > 1

CountsScans == urg.specified_scan_times > 1 /\ urg.scanning_remain_times > 0
OneScanLess ==
  [urg EXCEPT !.scanning_remain_times = urg.scanning_remain_times - 1]

\* Each receive_data that got as far as the data counts as a scan of a finite
\* measurement.
CountScan ==
  /\ pc = "rd_count"
  /\ urg.scanning_remain_times # 1 \/ ~CountsScans
  /\ urg' = IF CountsScans THEN OneScanLess ELSE urg
  /\ pc' = "rd_done"
  /\ scans' = HandsOut
  /\ UNCHANGED <<sensorVars, link, op, ret, good, resume, seen, calls, localVars,
                 barrier>>

\* The last scan stops the measurement.
CountLastScan ==
  /\ pc = "rd_count"
  /\ CountsScans /\ urg.scanning_remain_times = 1
  /\ urg' = IF CanWrite THEN OneScanLess
            ELSE [OneScanLess EXCEPT !.last_errno = "SEND_ERROR"]
  /\ stack' = <<Frame("auto")>> \o stack
  /\ IF CanWrite
     THEN Write("QT", 0) /\ pc' = "rd_echo" /\ UNCHANGED ret
     ELSE pc' = "stop_done" /\ ret' = "SEND_ERROR" /\ UNCHANGED tx
  /\ scans' = HandsOut
  /\ UNCHANGED <<rx, dev, unit, noise, link, op, good, resume, seen, calls, type,
                 steps, barrier>>

GetReturns ==
  /\ pc = "rd_done" /\ InGet
  /\ stack' = Tail(stack) /\ pc' = "idle"
  /\ UNCHANGED <<sensorVars, link, urg, op, ret, good, resume, seen, calls, type,
                 steps, historyVars>>

Stopped_AnyRead(r) == r \in {"OK", "DATA"}  \* mutant: ret >= 0

Stopped(r) == r = "OK"

\* 0 means that the answer to QT was read.
StopSucceeds ==
  /\ pc = "rd_done" /\ ~InGet /\ Stopped(ret)
  /\ urg' = [urg EXCEPT !.is_laser_on = FALSE, !.is_sending = FALSE,
                        !.last_errno = "NO_ERROR"]
  /\ pc' = "stop_done"
  /\ barrier' = calls
  /\ UNCHANGED <<sensorVars, link, op, ret, good, resume, seen, calls, localVars,
                 scans>>

StopTriesAgain ==
  /\ pc = "rd_done" /\ ~InGet /\ ~Stopped(ret)
  /\ IF Head(stack).tries + 1 < MAX_READ_TIMES
     THEN /\ stack' = <<[Head(stack) EXCEPT !.tries = @ + 1]>> \o Tail(stack)
          /\ pc' = "rd_echo" /\ seen' = {}
     ELSE pc' = "stop_done" /\ UNCHANGED <<stack, seen>>
  /\ UNCHANGED <<sensorVars, link, urg, op, ret, good, resume, calls, type, steps,
                 historyVars>>

\* Back in the receive_data that counted the last scan: it returns its own
\* result, whatever the stop came to.
AutoStopReturns ==
  /\ pc = "stop_done" /\ Head(stack).by = "auto"
  /\ ret' = Head(stack).kept /\ seen' = Head(stack).keptSeen
  /\ stack' = Tail(stack) /\ pc' = "rd_done"
  /\ UNCHANGED <<sensorVars, link, urg, op, good, resume, calls, type, steps,
                 historyVars>>

StopReturns ==
  /\ At("stop_done", {"stop"}) /\ Head(stack).by = "app"
  /\ stack' = Tail(stack) /\ pc' = "idle"
  /\ UNCHANGED <<sensorVars, link, urg, op, ret, good, resume, seen, calls, type,
                 steps, historyVars>>

\* urg_sleep goes on to %SL only after a successful stop.
SleepGoesOn ==
  /\ At("stop_done", {"sleep"}) /\ Head(stack).by = "app"
  /\ stack' = Tail(stack)
  /\ IF ret = "OK" THEN ScipBegins(op, urg)
     ELSE pc' = "idle" /\ UNCHANGED <<tx, urg, ret, good, seen>>
  /\ UNCHANGED <<rx, dev, unit, noise, link, op, resume, calls, type, steps,
                 historyVars>>

-----------------------------------------------------------------------------
(***************************************************************************)
(* The functions built on scip_response.                                   *)
(***************************************************************************)

LaserAlreadyOn ==
  /\ Entered("laser") /\ urg.is_laser_on
  /\ Returns("OK") /\ urg' = [urg EXCEPT !.last_errno = "NO_ERROR"]
  /\ UNCHANGED <<sensorVars, link, op, good, resume, seen, calls, localVars, historyVars>>

Command1 ==
  /\ \/ Entered("laser") /\ ~urg.is_laser_on
     \/ \E o \in {"tm0", "tm1", "tm2", "info", "reboot"} : Entered(o)
  /\ ScipBegins(op, urg)
  /\ UNCHANGED <<rx, dev, unit, noise, link, op, resume, calls, localVars, historyVars>>

ScipReturns(ops, r, u) ==
  /\ At("scip_done", ops)
  /\ Returns(r) /\ urg' = u
  /\ UNCHANGED <<sensorVars, link, op, good, resume, seen, calls, localVars, historyVars>>

LaserOnReturns ==
  ScipReturns({"laser"}, ret,
              IF ret = "OK" THEN [urg EXCEPT !.is_laser_on = TRUE] ELSE urg)

TimeStampModeReturns ==
  \/ ret = "OK" /\ ScipReturns({"tm0", "tm2"}, "OK", urg)
  \/ ret # "OK" /\ ScipReturns({"tm0", "tm2"}, "INVALID_RESPONSE",
                               [urg EXCEPT !.last_errno = "INVALID_RESPONSE"])

\* urg_time_stamp wants status 00 and a time stamp after it.
HasStamp == /\ \E line \in seen : line.k = "stat" /\ line.s = "00" /\ line.ok
            /\ \E line \in seen : line.k = "ts"

TimeStampReturns ==
  \/ (ret # "OK" \/ HasStamp) /\ ScipReturns({"tm1"}, ret, urg)
  \/ ret = "OK" /\ ~HasStamp
     /\ ScipReturns({"tm1"}, "RECEIVE_ERROR",
                    [urg EXCEPT !.last_errno = "RECEIVE_ERROR"])

\* receive_command_response wants all the lines; it reports any error as one
\* and the same message.
InfoReturns ==
  LET complete == ret = "OK" /\ \E line \in seen : line.k = "info"
  IN  ScipReturns({"info"}, IF complete THEN "OK" ELSE "RECEIVE_ERROR", urg)

SleepReturns == ScipReturns({"sleep"}, "OK", urg)

\* connection_close; what has been written still reaches the sensor.
HangsUp == /\ link' = IF link = "open" THEN "closed" ELSE link
           /\ rx' = <<>>

\* urg_reboot: RB twice, then the connection is closed without QT.
RebootFails ==
  /\ ret # "OK"
  /\ ScipReturns({"reboot", "reboot2"}, "INVALID_RESPONSE",
                 [urg EXCEPT !.last_errno = "INVALID_RESPONSE"])

RebootAgain ==
  /\ At("scip_done", {"reboot"}) /\ ret = "OK"
  /\ op' = "reboot2"
  /\ ScipBegins("reboot2", urg)
  /\ UNCHANGED <<rx, dev, unit, noise, link, resume, calls, localVars, historyVars>>

RebootCloses ==
  /\ At("scip_done", {"reboot2"}) /\ ret = "OK"
  /\ Returns("OK")
  /\ urg' = [urg EXCEPT !.is_active = FALSE, !.last_errno = "NO_ERROR"]
  /\ HangsUp
  /\ UNCHANGED <<tx, dev, unit, noise, op, good, resume, seen, calls, localVars,
                 historyVars>>

\* urg_close drains the line if the connection is active, then closes it.
Close ==
  /\ At("entry", {"close"})
  /\ IF urg.is_active
     THEN DrainWithQT(urg.last_errno, "closing")
     ELSE pc' = "closing" /\ UNCHANGED <<tx, urg, ret, resume>>
  /\ UNCHANGED <<rx, dev, unit, noise, link, op, good, seen, calls, localVars,
                 historyVars>>

ConnectionClose ==
  /\ pc = "closing"
  /\ HangsUp
  /\ urg' = [urg EXCEPT !.is_active = FALSE]
  /\ Returns("OK")
  /\ UNCHANGED <<tx, dev, unit, noise, op, good, resume, seen, calls, localVars,
                 historyVars>>

-----------------------------------------------------------------------------
Start == StartContinuous \/ StartSingle \/ StartSingleGoesOn \/ StartRefused

Receive ==
  \/ ReceiveEcho \/ ReceiveStatus \/ ReceiveStopEnd \/ ReceiveAckEnd
  \/ ReceiveTimestamp \/ ReceiveLengthData

StopOrCount ==
  \/ Stop \/ CountScan \/ CountLastScan \/ GetReturns \/ StopSucceeds
  \/ StopTriesAgain \/ AutoStopReturns \/ StopReturns \/ SleepGoesOn

Command2 ==
  \/ LaserAlreadyOn \/ Command1 \/ LaserOnReturns \/ TimeStampModeReturns
  \/ TimeStampReturns \/ InfoReturns \/ SleepReturns
  \/ RebootFails \/ RebootAgain \/ RebootCloses \/ Close \/ ConnectionClose

\* A step of the thread inside an API function.
HostStep ==
  \/ NotConnected \/ Start \/ Get \/ Receive \/ StopOrCount \/ Command2
  \/ (ScipNext \/ ignore_receive_data) /\ UNCHANGED <<localVars, historyVars>>

Sensor(A) == A /\ link # "lost" /\ UNCHANGED <<hostVars, localVars, historyVars>>

Environment ==
  \/ Sensor(SensorNext) /\ (noise' # noise => calls <= NoisyCalls)
  \/ Disconnect /\ UNCHANGED <<localVars, historyVars>>

Next == (\E o \in Ops : Call(o)) \/ HostStep \/ Environment

Spec == Init /\ [][Next]_vars

\* The thread runs and the sensor answers commands.  Nothing makes it scan,
\* and nothing makes lines get lost or the application call.
FairSpec == Spec /\ WF_vars(HostStep) /\ WF_vars(Sensor(SensorCommand))

-----------------------------------------------------------------------------
(***************************************************************************)
(* Properties.                                                             *)
(***************************************************************************)

Outside == {"idle", "entry", "closing"}
InScip == {"scip_echo", "scip_status", "scip_body", "scip_done"}
InReceive == {"rd_echo", "rd_status", "rd_stop_end", "rd_ack_end", "rd_ts",
              "rd_data", "rd_count", "rd_done", "stop_done"}
Point == Outside \cup InScip \cup InReceive \cup {"drain"}

ErrorNumber == Error \cup {"NO_ERROR"}
Result == Error \cup {"OK", "DATA", "NO_ERROR"}

UrgFields == [is_active : BOOLEAN, is_sending : BOOLEAN, is_laser_on : BOOLEAN,
              specified_scan_times : 0 .. 99, scanning_remain_times : 0 .. 100,
              last_errno : ErrorNumber]

Frames == [by : {"get", "app", "auto"}, tries : 0 .. MAX_READ_TIMES - 1,
           kept : Result, keptSeen : SUBSET Line]

\* The values of every variable: the scan counts that fit the two digits of
\* the command, and the retries of a stop among them.
TypeOK ==
  /\ SensorTypeOK
  /\ link \in {"open", "closed", "lost"}
  /\ urg \in UrgFields
  /\ pc \in Point
  /\ op \in OpNames \cup {"none", "reboot2"}
  /\ ret \in Result
  /\ good \in BOOLEAN
  /\ resume \in {"idle", "closing", "rd_done", "rd_count"}
  /\ seen \in SUBSET Line
  /\ calls \in Nat
  /\ stack \in Seq(Frames)
  /\ type \in {"stop", "distance", "unknown"}
  /\ steps \in Nat
  /\ barrier \in Nat
  /\ scans \in Nat

\* Where the thread is agrees with who has called whom: receive_data always has
\* a caller, the outermost caller is the application, all others are
\* measurements that stop themselves; and past its first check a function
\* works on an active connection.
Control ==
  /\ (pc \in InReceive \/ (pc = "drain" /\ resume \in InReceive))
     <=> stack # <<>>
  /\ \A i \in DOMAIN stack : stack[i].by = "auto" <=> i < Len(stack)
  /\ pc \notin Outside => urg.is_active
  /\ urg.is_active => link # "closed"

Streaming == dev.stream > 0

QTAfter(i) == \E j \in i + 1 .. Len(tx) : tx[j].c = "QT"

\* Whatever is or will be streaming, a QT is under way to it.
Calm == /\ Streaming => QTAfter(0)
        /\ \A i \in DOMAIN tx : tx[i].c = "MD" => QTAfter(i)

\* is_sending is what decides whether urg_close and every error path drain the
\* line.  When it says that no measurement runs, none runs: not in the sensor,
\* and not in a command still on its way - however late answers are, whatever
\* lines are lost, and in whatever order the API is called.
QuietWhenNotSending == link # "lost" /\ ~urg.is_sending => Calm

Stopping == stack # <<>> /\ Head(stack).by # "get"

\* Why it holds: QT is under way before anything waits for its answer, and
\* nothing asks for a stream while something waits.
Guarded ==
  /\ Control
  /\ dev.tm => ~Streaming
  /\ link # "lost" /\ (~urg.is_sending \/ pc = "drain" \/ Stopping) => Calm

ScanReturned == pc = "rd_count" /\ InGet /\ ret = "DATA"

\* How many lines may be lost, damaged or broken off before scans can get mixed.
\* From one scan into the next the reader gets when the empty line and the echo
\* between them are lost.  Without skip_step it takes a third: the steps of two
\* scans are refused as too many.
Tolerated == IF StepsAsked = FullScan THEN 2 ELSE 1

\* receive_data finds a scan by counting lines.  The time stamp and the range
\* data it hands out as one scan come from one scan of the sensor, although
\* lines were lost.
NoMixedScan ==
  ScanReturned /\ noise <= Tolerated =>
    \A a, b \in {line \in seen : line.k \in {"ts", "data"}} : a.u = b.u

\* The line has lost and damaged nothing.
Undisturbed == noise = 0

\* A scan handed out after urg_stop_measurement returned 0 was measured for a
\* command sent after that stop.
FreshScan == Undisturbed /\ ScanReturned => \A line \in seen : line.call > barrier

\* An API function has just returned a success on such a line.
CallReturned(o) == Undisturbed /\ pc = "idle" /\ op = o /\ ret = "OK"

\* On a line that loses nothing, stopping works, also when scans are waiting
\* to be read.
StopWorks == Undisturbed /\ pc = "idle" /\ op = "stop" /\ urg.is_active => ret = "OK"

\* urg_stop_measurement reads everything the sensor sent: when it returns 0
\* the line is empty and the sensor is quiet and dark.
StopLeavesNothing ==
  CallReturned("stop") => /\ rx = <<>> /\ tx = <<>>
                          /\ ~Streaming /\ ~dev.laser

\* Once urg_close has returned and the sensor has seen the commands sent
\* before, it neither streams nor has its laser lit.
DarkAfterClose == CallReturned("close") /\ tx = <<>> => ~Streaming /\ ~dev.laser

\* An information command or time stamp request that succeeds was answered by
\* the lines of its own answer.
FreshAnswer ==
  CallReturned("info") \/ CallReturned("tm1") => \A line \in seen : line.call = calls

\* A measurement of n scans hands out n at most, and with the last one it is
\* over: nothing is left to read and nothing needs to be stopped.
FiniteScans ==
  Undisturbed /\ urg.specified_scan_times > 1 =>
    /\ scans <= urg.specified_scan_times
    /\ urg.is_active /\ pc = "idle" /\ op = "get" /\ scans = urg.specified_scan_times
       => ~urg.is_sending /\ rx = <<>> /\ tx = <<>>

\* Every call returns: each read ends with a line or its timeout, the reads
\* of a scan and of a stop are counted, and a drain ends because QT was sent
\* before it.
CallsReturn == pc # "idle" ~> pc = "idle"
=============================================================================
