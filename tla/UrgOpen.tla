------------------------------- MODULE UrgOpen -------------------------------
(***************************************************************************)
(* urg_open: finding the baud rate of the sensor, whatever it is doing,    *)
(* and reading its parameters.                                             *)
(*                                                                         *)
(* The sensor may be idle, in the middle of a measurement left running by  *)
(* somebody else, in time stamp mode or speaking SCIP 1.1, at any of three *)
(* baud rates; or there is none.  A command written at another rate than   *)
(* the sensor's is noise to it, and what it sends is noise to a host at    *)
(* another rate.  On Ethernet there is no rate to get wrong.               *)
(*                                                                         *)
(* As in Scip, the host is one thread that waits in connection_readline,   *)
(* and pc says in which one.                                               *)
(***************************************************************************)
EXTENDS Integers, Sequences

CONSTANTS
  Types,      \* the connections it uses: a port on Linux or Windows, a socket
  Worlds,     \* the circumstances it opens the sensor in
  MaxRx       \* a measuring sensor waits while this many lines are unread

Rates == {19200, 38400, 115200}
Connections == {"serial", "com", "ethernet"}
Modes == {"ready", "measuring", "tm", "scip1", "absent"}

\* The sensor there is, the baud rate asked for, whether a read may time out
\* although an answer is under way (late), whether the scans of a running
\* measurement come less often than reads time out (pauses), and how many lines
\* may be lost or damaged (noise).
World == [sensor : [mode : Modes, rate : Rates], request : Rates,
          late : BOOLEAN, pauses : BOOLEAN, noise : Nat]

ASSUME OpenAssumption ==
  /\ Types \subseteq Connections
  /\ Worlds \subseteq World
  /\ MaxRx \in Nat

VARIABLES
  world,      \* the circumstances, which do not change
  sensor,     \* its mode and rate
  tx, rx,     \* commands and lines under way
  noise,      \* lines lost or damaged so far
  type,       \* connection->type
  baudrate,   \* urg_open: the rate asked for
  hostRate,   \* the rate the port is set to
  try,        \* connect_urg_device: index of the rate being tried
  urg,        \* the fields of urg_t
  cmd,        \* scip_response: the command
  good,       \* scip_response: the status was one of the expected ones
  got,        \* scip_response: the lines stored in receive_buffer
  resume,     \* where the thread goes on after a drain
  ret,        \* the value the innermost function returns
  pc

sensorVars == <<sensor, tx, rx, noise>>
openVars == <<type, baudrate, hostRate, try>>
scipVars == <<cmd, good, got>>
vars == <<world, sensorVars, openVars, scipVars, urg, resume, ret, pc>>

-----------------------------------------------------------------------------
(***************************************************************************)
(* The sensor, as connect_urg_device and receive_parameter expect it.      *)
(***************************************************************************)
Parameters == <<"MODL", "DMIN">>    \* the lines of PP, two for all of them
Commands == {"QT", "SCIP2.0", "TM2", "SS", "PP"}
Texts == Commands \cup {"00", "0", "0E", "0F", "E", "MODL", "DMIN", ""}
Lines == [k : {"echo", "stat", "par", "lf", "scan", "noise"}, v : Texts, ok : BOOLEAN]

Text(k, v) == [k |-> k, v |-> v, ok |-> TRUE]

SameRate == type = "ethernet" \/ hostRate = sensor.rate

\* What the host makes of the lines the sensor sends.
Heard(lines) == IF SameRate THEN lines
                ELSE [i \in DOMAIN lines |-> Text("noise", "")]

Status(c) ==
  IF sensor.mode = "tm" THEN IF c = "TM2" THEN "00" ELSE "0E"
  ELSE IF sensor.mode = "scip1" THEN IF c = "SCIP2.0" THEN "0" ELSE "E"
  ELSE CASE c = "SS" -> IF type = "ethernet" THEN "0F" ELSE "00"
         [] c = "SCIP2.0" -> "0E"
         [] OTHER -> "00"

Body(c) == IF c = "PP" /\ Status(c) = "00"
           THEN [i \in DOMAIN Parameters |-> Text("par", Parameters[i])] ELSE <<>>

Answer(c) ==
  <<Text("echo", c), Text("stat", Status(c))>> \o Body(c) \o <<Text("lf", "")>>

\* The state a command leaves the sensor in: QT ends a measurement, TM2 the
\* time stamp mode, SCIP2.0 the old protocol, SS changes the rate.
After(c, r) ==
  CASE c = "QT" /\ sensor.mode = "measuring" -> [sensor EXCEPT !.mode = "ready"]
    [] c = "TM2" /\ sensor.mode = "tm" -> [sensor EXCEPT !.mode = "ready"]
    [] c = "SCIP2.0" /\ sensor.mode = "scip1" -> [sensor EXCEPT !.mode = "ready"]
    [] c = "SS" /\ Status(c) = "00" -> [sensor EXCEPT !.rate = r]
    [] OTHER -> sensor

\* The oldest command is answered, at the rate it was received, or lost.
SensorCommand ==
  /\ tx # <<>>
  /\ tx' = Tail(tx)
  /\ IF sensor.mode # "absent"
        /\ (type = "ethernet" \/ Head(tx).at = sensor.rate)
     THEN rx' = rx \o Heard(Answer(Head(tx).c)) /\ sensor' = After(Head(tx).c, Head(tx).arg)
     ELSE UNCHANGED <<rx, sensor>>
  /\ UNCHANGED noise

SensorScan ==
  /\ sensor.mode = "measuring" /\ Len(rx) < MaxRx
  /\ rx' = rx \o Heard(<<Text("scan", "")>>)
  /\ UNCHANGED <<sensor, tx, noise>>

LoseLine ==
  /\ noise < world.noise /\ rx # <<>>
  /\ rx' = Tail(rx) /\ noise' = noise + 1
  /\ UNCHANGED <<sensor, tx>>

DamageLine ==
  /\ noise < world.noise /\ rx # <<>>
  /\ Head(rx).ok /\ Head(rx).k # "lf"
  /\ rx' = <<[Head(rx) EXCEPT !.ok = FALSE]>> \o Tail(rx)
  /\ noise' = noise + 1
  /\ UNCHANGED <<sensor, tx>>

-----------------------------------------------------------------------------
(***************************************************************************)
(* connection_readline, connection_set_baudrate and scip_response.         *)
(***************************************************************************)
Nothing == Text("none", "")

\* Nothing comes for the length of a timeout.
Silent ==
  \/ world.late
  \/ rx = <<>> /\ tx = <<>> /\ (sensor.mode = "measuring" => world.pauses)

Arrivals == (IF rx # <<>> THEN {Head(rx)} ELSE {})
            \cup (IF Silent THEN {Nothing} ELSE {})

Consume(line) == rx' = IF line = Nothing THEN rx ELSE Tail(rx)

\* serial_set_baudrate throws away what was received but not yet read; in the
\* Windows file ("com") it does not.
SetBaudrateLinux(r) == hostRate' = r /\ rx' = <<>>
SetBaudrateWindows(r) == hostRate' = r /\ UNCHANGED rx

SetBaudrate(r) ==
  CASE type = "serial" -> SetBaudrateLinux(r)
    [] type = "com"    -> SetBaudrateWindows(r)
    [] OTHER           -> UNCHANGED <<hostRate, rx>>

\* A command, written at rate r.
Scip(c, arg, r) ==
  /\ cmd' = c /\ good' = FALSE /\ got' = <<>>
  /\ tx' = Append(tx, [c |-> c, arg |-> arg, at |-> r])
  /\ pc' = "echo"

ScipReturns(r) ==
  /\ ret' = r /\ pc' = "scip_done"
  /\ urg' = IF r \in {"OK", "UNKNOWN_ERROR"} THEN urg ELSE [urg EXCEPT !.last_errno = r]
  /\ UNCHANGED <<good, got>>

ScipGoesOn(p) == pc' = p /\ UNCHANGED <<urg, ret>>

ScipEcho ==
  /\ pc = "echo"
  /\ \E line \in Arrivals :
       /\ Consume(line)
       /\ \/ line = Nothing /\ ScipReturns("NO_RESPONSE")
          \/ /\ line # Nothing /\ line # Text("echo", cmd)
             /\ ScipReturns("INVALID_RESPONSE")
          \/ line = Text("echo", cmd) /\ ScipGoesOn("status") /\ UNCHANGED <<good, got>>
  /\ UNCHANGED <<sensor, tx, noise, openVars, cmd, resume>>

\* A status of one character is SCIP 1.1 and counts as a success; strtol
\* reads "0E" and "0F" as 0.
Scip1_None == {}       \* mutant: the old protocol is not known
Scip1 == {"E", "0"}
StatusValue(s) == IF s = "03" THEN 3 ELSE IF s = "04" THEN 4 ELSE 0
Expected == IF cmd = "SS" THEN {0, 3, 4} ELSE {0}

\* A line that passes for one of the sensor's: intact, with a checksum.
Intact(line) == line.ok /\ line.k \notin {"echo", "noise"} /\ line.v # "E"

ScipStatus ==
  /\ pc = "status"
  /\ \E line \in Arrivals :
       /\ Consume(line)
       /\ \/ line = Nothing /\ ScipReturns("NO_RESPONSE")
          \/ line.k = "lf" /\ ScipReturns("INVALID_RESPONSE")
          \/ /\ line.k = "stat" /\ (line.v \in Scip1 \/ Intact(line))
             /\ good' = (line.v \in Scip1 \/ StatusValue(line.v) \in Expected)
             /\ got' = <<line.v>>
             /\ ScipGoesOn("body")
          \/ /\ line \notin {Nothing, Text("lf", "")}
             /\ ~Intact(line) /\ line.v \notin Scip1
             /\ ScipReturns("CHECKSUM_ERROR")
          \/ /\ line.k \in {"par", "scan"} /\ Intact(line)
             /\ ScipReturns("INVALID_RESPONSE")
  /\ UNCHANGED <<sensor, tx, noise, openVars, cmd, resume>>

ScipBody ==
  /\ pc = "body"
  /\ \E line \in Arrivals :
       /\ Consume(line)
       /\ \/ line = Nothing /\ ScipReturns("NO_RESPONSE")
          \/ line.k = "lf" /\ ScipReturns(IF good THEN "OK" ELSE "UNKNOWN_ERROR")
          \/ /\ line \notin {Nothing, Text("lf", "")} /\ Intact(line)
             /\ got' = Append(got, line.v)
             /\ ScipGoesOn("body") /\ UNCHANGED good
          \/ /\ line \notin {Nothing, Text("lf", "")} /\ ~Intact(line)
             /\ ScipReturns("CHECKSUM_ERROR")
  /\ UNCHANGED <<sensor, tx, noise, openVars, cmd, resume>>

\* ignore_receive_data, then on to p: nothing is read unless is_sending says
\* that something may come.
Drain(p) ==
  IF urg.is_sending THEN pc' = "drain" /\ resume' = p ELSE pc' = p /\ UNCHANGED resume

ignore_receive_data ==
  /\ pc = "drain"
  /\ \E line \in Arrivals :
       /\ Consume(line)
       /\ IF line = Nothing
          THEN pc' = resume /\ urg' = [urg EXCEPT !.is_sending = FALSE]
          ELSE UNCHANGED <<pc, urg>>
  /\ UNCHANGED <<sensor, tx, noise, openVars, scipVars, resume, ret>>

\* ignore_receive_data_with_qt
DrainWithQT(p) ==
  /\ IF ~urg.is_sending /\ ~urg.is_laser_on
     THEN UNCHANGED <<tx, urg>>
     ELSE /\ tx' = Append(tx, [c |-> "QT", arg |-> 0, at |-> hostRate])
          /\ urg' = [urg EXCEPT !.is_laser_on = FALSE]
  /\ Drain(p)

-----------------------------------------------------------------------------
(***************************************************************************)
(* connect_urg_device and change_sensor_baudrate.                          *)
(***************************************************************************)

\* The rates in the order they are tried: the one asked for comes first.
Base == <<19200, 38400, 115200>>
TryList == [i \in 1 .. 3 |-> CASE i = 1 -> baudrate
                                [] i > 1 /\ Base[i] = baudrate -> Base[1]
                                [] OTHER -> Base[i]]

Open ==
  /\ pc = "idle"
  /\ urg' = [urg EXCEPT !.is_active = FALSE, !.is_sending = TRUE,
                        !.last_errno = "NOT_CONNECTED"]
  /\ type' \in Types
  /\ baudrate' \in IF type' # "ethernet" THEN {world.request} ELSE {115200}
  /\ hostRate' = baudrate'
  /\ try' = 1 /\ pc' = "try"
  /\ UNCHANGED <<sensorVars, scipVars, resume, ret>>

\* connection_open found no such port, or nobody at the address.
OpenFails ==
  /\ pc = "idle"
  /\ \E t \in Types :
       LET e == IF t = "ethernet" THEN "ETHERNET_OPEN_ERROR" ELSE "SERIAL_OPEN_ERROR"
       IN  /\ type' = t /\ ret' = e
           /\ urg' = [urg EXCEPT !.is_active = FALSE, !.is_sending = TRUE, !.last_errno = e]
  /\ pc' = "failed"
  /\ UNCHANGED <<sensorVars, baudrate, hostRate, try, scipVars, resume>>

Try ==
  /\ pc = "try" /\ try <= 3
  /\ SetBaudrate(TryList[try])
  /\ Scip("QT", 0, TryList[try])
  /\ UNCHANGED <<sensor, noise, type, baudrate, try, urg, resume, ret>>

NotDetected ==
  /\ pc = "try" /\ try > 3
  /\ pc' = "connect_failed"
  /\ urg' = [urg EXCEPT !.last_errno = "NOT_DETECT_BAUDRATE_ERROR"]
  /\ UNCHANGED <<sensorVars, openVars, scipVars, resume, ret>>

ScipDone(c) == pc = "scip_done" /\ cmd = c

\* The answer to QT decides what is at the other end.
AnsweredOldProtocol ==
  /\ ScipDone("QT") /\ ret = "OK" /\ got[1] = "E"
  /\ Drain("old_protocol")
  /\ UNCHANGED <<sensorVars, openVars, scipVars, urg, ret>>

AnsweredTimeStampMode ==
  /\ ScipDone("QT") /\ ret = "OK" /\ got[1] = "0E"
  /\ Scip("TM2", 0, hostRate)
  /\ UNCHANGED <<sensor, rx, noise, openVars, urg, resume, ret>>

Answered ==
  /\ ScipDone("QT") /\ ret = "OK" /\ got[1] = "00"
  /\ pc' = "change"
  /\ UNCHANGED <<sensorVars, openVars, scipVars, urg, resume, ret>>

\* A wrong echo is taken for range data, which is thrown away.
AnsweredWithData ==
  /\ ScipDone("QT") /\ ret = "INVALID_RESPONSE"
  /\ DrainWithQT("change")
  /\ UNCHANGED <<sensor, rx, noise, openVars, scipVars, ret>>

NextRate_Skips == try + 2  \* mutant: every other rate is tried
NextRate_Same == try       \* mutant: the same rate is tried for ever
NextRate == try + 1

TryNext ==
  /\ ScipDone("QT") /\ ret # "INVALID_RESPONSE"
  /\ ~(ret = "OK" /\ got[1] \in {"E", "0E", "00"})
  /\ IF ret = "OK" THEN pc' = "try" /\ UNCHANGED <<tx, urg, resume>>
     ELSE DrainWithQT("try")
  /\ try' = NextRate
  /\ UNCHANGED <<sensor, rx, noise, type, baudrate, hostRate, scipVars, ret>>

OldProtocol ==
  /\ pc = "old_protocol"
  /\ Scip("SCIP2.0", 0, hostRate)
  /\ UNCHANGED <<sensor, rx, noise, openVars, urg, resume, ret>>

\* Whatever came of it, the rate is changed next.
SwitchedMode ==
  /\ \/ ScipDone("SCIP2.0") /\ Drain("change")
     \/ ScipDone("TM2") /\ pc' = "change" /\ UNCHANGED resume
  /\ UNCHANGED <<sensorVars, openVars, scipVars, urg, ret>>

ChangeNothing ==
  /\ pc = "change" /\ TryList[try] = baudrate
  /\ pc' = "connected"
  /\ urg' = [urg EXCEPT !.last_errno = "NO_ERROR"]
  /\ UNCHANGED <<sensorVars, openVars, scipVars, resume, ret>>

change_sensor_baudrate ==
  /\ pc = "change" /\ TryList[try] # baudrate
  /\ Scip("SS", baudrate, hostRate)
  /\ UNCHANGED <<sensor, rx, noise, openVars, urg, resume, ret>>

SensorChanged ==
  /\ ScipDone("SS") /\ ret = "OK"
  /\ SetBaudrate(baudrate)
  /\ Drain("changed")
  /\ UNCHANGED <<sensor, tx, noise, type, baudrate, try, scipVars, urg, ret>>

Changed ==
  /\ pc = "changed" /\ pc' = "connected"
  /\ urg' = [urg EXCEPT !.last_errno = "NO_ERROR"]
  /\ UNCHANGED <<sensorVars, openVars, scipVars, resume, ret>>

SensorNotChanged ==
  /\ ScipDone("SS") /\ ret # "OK"
  /\ pc' = "connect_failed"
  /\ urg' = [urg EXCEPT !.last_errno = "INVALID_PARAMETER"]
  /\ UNCHANGED <<sensorVars, openVars, scipVars, resume, ret>>

-----------------------------------------------------------------------------
(***************************************************************************)
(* The rest of urg_open, and receive_parameter.                            *)
(***************************************************************************)
OpenReturns(r) ==
  /\ ret' = r /\ pc' = "done"
  /\ UNCHANGED <<sensor, rx, noise, openVars, scipVars>>

\* urg_open returns the result of connection_open, which was 0.
ConnectFailed ==
  /\ pc = "connect_failed"
  /\ OpenReturns("OK")
  /\ urg' = [urg EXCEPT !.last_errno = "NO_ERROR"]
  /\ UNCHANGED <<tx, resume>>

Connected ==
  /\ pc = "connected"
  /\ urg' = [urg EXCEPT !.is_sending = FALSE, !.is_laser_on = FALSE,
                        !.last_errno = "NO_ERROR"]
  /\ Scip("PP", 0, hostRate)
  /\ UNCHANGED <<sensor, rx, noise, openVars, resume, ret>>

AllLines_Any == TRUE  \* mutant: the number of lines is not checked
AllLines == Len(got) >= Len(Parameters) + 1

\* The line DMIN stands for the seven parameters that must be among them.
AllReceived == \E i \in DOMAIN got : got[i] = "DMIN"

Parameter == IF ret # "OK" THEN ret
             ELSE IF ~AllLines THEN "INVALID_RESPONSE"
             ELSE IF ~AllReceived THEN "RECEIVE_ERROR"
             ELSE "OK"

receive_parameter ==
  /\ ScipDone("PP")
  /\ OpenReturns(Parameter)
  /\ urg' = CASE Parameter = "OK" -> [urg EXCEPT !.is_active = TRUE, !.last_errno = "NO_ERROR"]
              [] Parameter = "UNKNOWN_ERROR" -> urg
              [] OTHER -> [urg EXCEPT !.last_errno = Parameter]
  /\ UNCHANGED <<tx, resume>>

-----------------------------------------------------------------------------
\* What the fields of urg_t hold before urg_open is whatever was in memory;
\* is_laser_on is read before it is written.
Init ==
  /\ world \in Worlds /\ sensor = world.sensor
  /\ tx = <<>> /\ rx = <<>> /\ noise = 0
  /\ type \in Types /\ baudrate = world.request /\ hostRate = baudrate /\ try = 1
  /\ urg \in [is_active : {FALSE}, is_sending : {FALSE}, is_laser_on : BOOLEAN,
              last_errno : {"NO_ERROR"}]
  /\ cmd = "QT" /\ good = FALSE /\ got = <<>>
  /\ resume = "idle" /\ ret = "OK" /\ pc = "idle"

HostStep ==
  \/ Open \/ OpenFails \/ Try \/ NotDetected
  \/ ScipEcho \/ ScipStatus \/ ScipBody \/ ignore_receive_data
  \/ AnsweredOldProtocol \/ AnsweredTimeStampMode \/ Answered
  \/ AnsweredWithData \/ TryNext \/ OldProtocol \/ SwitchedMode
  \/ ChangeNothing \/ change_sensor_baudrate \/ SensorChanged \/ Changed
  \/ SensorNotChanged \/ ConnectFailed \/ Connected \/ receive_parameter

hostVars == <<openVars, scipVars, urg, resume, ret, pc>>
Environment(A) == A /\ UNCHANGED hostVars

Next ==
  /\ \/ HostStep
     \/ Environment(SensorCommand \/ SensorScan \/ LoseLine \/ DamageLine)
  /\ UNCHANGED world

Spec == Init /\ [][Next]_vars

\* The thread runs, the sensor answers, and a measuring sensor goes on sending.
FairSpec ==
  /\ Spec
  /\ WF_vars(HostStep /\ UNCHANGED world)
  /\ WF_vars(Environment(SensorCommand) /\ UNCHANGED world)
  /\ WF_vars(Environment(SensorScan) /\ UNCHANGED world)

-----------------------------------------------------------------------------
Error == {"NO_RESPONSE", "INVALID_RESPONSE", "CHECKSUM_ERROR", "UNKNOWN_ERROR",
          "RECEIVE_ERROR", "INVALID_PARAMETER", "NOT_CONNECTED",
          "NOT_DETECT_BAUDRATE_ERROR", "SERIAL_OPEN_ERROR", "ETHERNET_OPEN_ERROR"}

\* The values of every variable; no more rates are tried than there are.
TypeOK ==
  /\ world \in Worlds
  /\ sensor \in [mode : Modes, rate : Rates]
  /\ tx \in Seq([c : Commands, arg : Rates \cup {0}, at : Rates])
  /\ rx \in Seq(Lines)
  /\ noise \in Nat
  /\ type \in Connections
  /\ baudrate \in Rates /\ hostRate \in Rates
  /\ try \in 1 .. 4
  /\ urg \in [is_active : BOOLEAN, is_sending : BOOLEAN, is_laser_on : BOOLEAN,
              last_errno : Error \cup {"NO_ERROR"}]
  /\ cmd \in Commands /\ good \in BOOLEAN /\ got \in Seq(Texts)
  /\ resume \in {"idle", "old_protocol", "change", "changed", "try"}
  /\ ret \in Error \cup {"OK"}
  /\ pc \in {"idle", "try", "echo", "status", "body", "scip_done", "drain",
             "old_protocol", "change", "changed", "connected", "connect_failed",
             "done", "failed"}

Opened == pc = "done" /\ urg.is_active

\* When urg_open marks the sensor active, both ends use the rate asked for, the
\* sensor waits for commands in the protocol the library speaks, all its
\* parameters were read, and nothing is under way: the state the rest of the
\* API starts from (Init of UrgSensor), however the opening went.
OpenLeavesReady ==
  Opened => /\ sensor.mode = "ready"
            /\ type # "ethernet" => hostRate = baudrate /\ sensor.rate = baudrate
            /\ \A i \in DOMAIN Parameters : \E j \in DOMAIN got : got[j] = Parameters[i]
            /\ rx = <<>> /\ tx = <<>>

\* A line that loses nothing, answers in time, and a sensor that is not
\* measuring at another rate than the one asked for.
Calm == /\ ~world.late /\ ~world.pauses /\ world.noise = 0
        /\ world.sensor.mode = "measuring" => world.sensor.rate = world.request

\* A sensor that is there is found, in whatever mode it is and at whatever rate.
FindsSensor == pc = "done" /\ Calm /\ sensor.mode # "absent" => urg.is_active

\* "if (urg_open(...) < 0)" is how a caller learns that there is no sensor.
OpenTells == pc = "done" /\ ret = "OK" => urg.is_active

\* urg_open returns.
OpenReturnsAtLast == pc = "try" /\ Calm ~> pc = "done"
=============================================================================
