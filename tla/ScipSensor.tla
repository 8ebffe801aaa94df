----------------------------- MODULE ScipSensor -----------------------------
(***************************************************************************)
(* The range sensor at the far end of the line, and the line itself.       *)
(*                                                                         *)
(* The sensor is not part of the library.  It is modelled from how         *)
(* urg_sensor.c uses it: the commands that file sends, the answers it      *)
(* parses and the states it tells apart (streaming or not, laser on or     *)
(* off, time stamp mode, reboot armed).                                    *)
(*                                                                         *)
(* A line of text is a record: its kind k, the command c it answers, the   *)
(* status s (status lines only), the API call that sent the command, the   *)
(* unit u it belongs to (one answer or one scan), and whether its          *)
(* checksum is intact (ok).                                                *)
(***************************************************************************)
EXTENDS Integers, Sequences

CONSTANTS
  DataLines,    \* lines of range data in one scan
  UnitWrap,     \* units are numbered modulo UnitWrap
  MaxRx,        \* a streaming sensor waits while this many lines are unread
  Prompt,       \* whether a sensor sees to a waiting command before it scans
                \* on, on a line that has lost and damaged nothing
  MaxNoise,     \* how many lines may be lost, damaged or broken in two
  MayRefuse     \* whether the sensor may refuse to light its laser

ASSUME SensorAssumption ==
  /\ DataLines \in Nat \ {0}
  /\ UnitWrap \in Nat \ {0}
  /\ MaxRx \in Nat
  /\ Prompt \in BOOLEAN
  /\ MaxNoise \in Nat
  /\ MayRefuse \in BOOLEAN

VARIABLES
  tx,           \* commands written by the host and not yet seen by the sensor
  rx,           \* lines sent by the sensor and not yet read by the host
  dev,          \* the sensor
  unit,         \* number of the next unit
  noise         \* how many lines were lost, damaged or broken in two so far

sensorVars == <<tx, rx, dev, unit, noise>>

Endless == 100  \* a scan count of 00 in the command: scan until told to stop

CommandName == {"QT", "BM", "GD", "MD", "TM0", "TM1", "TM2", "VV", "RB", "SL"}
Status == {"00", "99", "01", "02", "0E", "10", "-"}
Kind == {"echo", "stat", "ts", "data", "info", "lf"}

Command == [c : CommandName, n : 0 .. Endless, call : Nat]
Line == [k : Kind, c : CommandName, s : Status, call : Nat, u : Nat, ok : BOOLEAN]

\* What the sensor sends for cmd: echo, status, the lines of the body, and
\* the empty line that ends every answer.
Answer(cmd, status, body) ==
  LET kinds == <<"echo", "stat">> \o body \o <<"lf">>
  IN  [i \in 1 .. Len(kinds) |->
         [k |-> kinds[i], c |-> cmd.c,
          s |-> IF kinds[i] = "stat" THEN status ELSE "-",
          call |-> cmd.call, u |-> unit, ok |-> TRUE]]

ScanBody == <<"ts">> \o [i \in 1 .. DataLines |-> "data"]

Idle == [stream |-> 0, job |-> [c |-> "MD", n |-> 0, call |-> 0],
         laser |-> FALSE, tm |-> FALSE, rb |-> FALSE]

SensorInit == tx = <<>> /\ rx = <<>> /\ dev = Idle /\ unit = 0 /\ noise = 0

Says(lines) ==
  /\ rx' = rx \o lines
  /\ unit' = (unit + 1) % UnitWrap
  /\ UNCHANGED noise

\* The sensor takes the oldest command, answers it and becomes d.
Reacts(names, status, body, d) ==
  /\ tx # <<>>
  /\ Head(tx).c \in names
  /\ tx' = Tail(tx)
  /\ Says(Answer(Head(tx), status, body))
  /\ dev' = [d EXCEPT !.rb = (Head(tx).c = "RB" /\ ~dev.rb)]

\* QT stops the stream and puts the laser out.
SensorQT == ~dev.tm /\ Reacts({"QT"}, "00", <<>>,
                              [dev EXCEPT !.stream = 0, !.laser = FALSE])

SensorBM ==
  /\ ~dev.tm
  /\ \/ ~dev.laser /\ Reacts({"BM"}, "00", <<>>, [dev EXCEPT !.laser = TRUE])
     \/ dev.laser /\ Reacts({"BM"}, "02", <<>>, dev)
     \/ MayRefuse /\ Reacts({"BM"}, "01", <<>>, dev)

\* A single scan needs the laser lit beforehand.
SensorGD ==
  /\ ~dev.tm
  /\ \/ dev.laser /\ Reacts({"GD"}, "00", ScanBody, dev)
     \/ ~dev.laser /\ Reacts({"GD"}, "10", <<>>, dev)

\* Continuous scanning lights the laser itself; the command is answered at
\* once and the scans follow.
SensorMD ==
  /\ ~dev.tm
  /\ tx # <<>>
  /\ Reacts({"MD"}, "00", <<>>,
            [dev EXCEPT !.stream = IF Head(tx).n = 0 THEN Endless ELSE Head(tx).n,
                        !.job = Head(tx), !.laser = TRUE])

\* In time stamp mode every measuring command is turned down with 0E, as
\* connect_urg_device expects of QT; the sensor does not measure in it.
SensorTurnsDown == dev.tm /\ Reacts({"QT", "BM", "GD", "MD"}, "0E", <<>>, dev)

SensorTM ==
  \/ Reacts({"TM0"}, "00", <<>>, [dev EXCEPT !.tm = TRUE, !.stream = 0])
  \/ dev.tm /\ Reacts({"TM1"}, "00", <<"ts">>, dev)
  \/ ~dev.tm /\ Reacts({"TM1"}, "01", <<>>, dev)
  \/ Reacts({"TM2"}, "00", <<>>, [dev EXCEPT !.tm = FALSE])

SensorVV == Reacts({"VV"}, "00", <<"info">>, dev)

SensorSL == Reacts({"SL"}, "00", <<>>, dev)

\* The second RB in a row restarts the sensor.
SensorRB ==
  \/ ~dev.rb /\ Reacts({"RB"}, "01", <<>>, dev)
  \/ dev.rb /\ Reacts({"RB"}, "00", <<>>, Idle)

SensorCommand ==
  \/ SensorQT \/ SensorBM \/ SensorGD \/ SensorMD \/ SensorTurnsDown
  \/ SensorTM \/ SensorVV \/ SensorSL \/ SensorRB

\* One more scan of the running stream; the laser goes out after the last.
SensorScan ==
  /\ dev.stream > 0
  /\ Prompt /\ noise = 0 => tx = <<>>
  /\ Len(rx) + DataLines + 4 <= MaxRx
  /\ Says(Answer(dev.job, "99", ScanBody))
  /\ LET left == IF dev.stream = Endless THEN Endless ELSE dev.stream - 1
     IN  dev' = [dev EXCEPT !.stream = left, !.laser = (left > 0)]
  /\ UNCHANGED tx

(***************************************************************************)
(* The line.  What happens to the oldest unread line just before it is     *)
(* read is the same to the host as if it had happened earlier.             *)
(***************************************************************************)
LoseLine ==
  /\ noise < MaxNoise /\ rx # <<>>
  /\ rx' = Tail(rx)
  /\ noise' = noise + 1
  /\ UNCHANGED <<tx, dev, unit>>

DamageLine ==
  /\ noise < MaxNoise /\ rx # <<>>
  /\ Head(rx).ok /\ Head(rx).k # "lf"
  /\ rx' = <<[Head(rx) EXCEPT !.ok = FALSE]>> \o Tail(rx)
  /\ noise' = noise + 1
  /\ UNCHANGED <<tx, dev, unit>>

\* A line that stalls half-way is returned to the host in two pieces: both
\* damaged, or, when only the line end is missing, whole and then empty.
StallLine ==
  /\ noise < MaxNoise /\ rx # <<>>
  /\ Head(rx).k # "lf"
  /\ LET damaged == [Head(rx) EXCEPT !.ok = FALSE]
         empty   == [Head(rx) EXCEPT !.k = "lf", !.s = "-"]
     IN  rx' = <<damaged, damaged>> \o Tail(rx) \/ rx' = <<Head(rx), empty>> \o Tail(rx)
  /\ noise' = noise + 1
  /\ UNCHANGED <<tx, dev, unit>>

SensorNext ==
  SensorCommand \/ SensorScan \/ LoseLine \/ DamageLine \/ StallLine

SensorTypeOK ==
  /\ tx \in Seq(Command)
  /\ rx \in Seq(Line)
  /\ dev \in [stream : 0 .. Endless, job : Command, laser : BOOLEAN,
              tm : BOOLEAN, rb : BOOLEAN]
  /\ unit \in Nat
  /\ noise \in Nat
=============================================================================
