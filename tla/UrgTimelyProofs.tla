-------------------------- MODULE UrgTimelyProofs --------------------------
(***************************************************************************)
(* What holds of UrgSensor as long as the line has lost and damaged        *)
(* nothing: stops succeed and leave nothing behind, the sensor is dark     *)
(* after a close, answers are fresh, and a measurement ends by itself.     *)
(*                                                                         *)
(* All of it follows from one invariant, TimelyInv, which says for every   *)
(* position of the thread which lines are unread and which commands are on *)
(* their way.  The thread is in one of three phases.  While a measurement  *)
(* may be on (MeasuringInv) the unread lines are the rest of one answer,   *)
(* then whole scans, then whole answers to QT, and their numbers agree     *)
(* with the flags of urg_t, the stops under way, the reads these have left *)
(* and the scans that remain.  In scip_response (AskingInv) they are the   *)
(* answer to the one command.  After urg_close (LeavingInv) the last       *)
(* command on its way is QT, unless the sensor is dark already.            *)
(***************************************************************************)
EXTENDS UrgSensorProofs

\* The conditions under which the run "timely" checks these properties: an
\* application with manners, answers in time, a sensor that sees to a
\* command before it scans on and refuses nothing, a connection that
\* lasts, and at most two unread scans.
Timely ==
  /\ Polite /\ Prompt /\ ~Late /\ ~MayDisconnect /\ ~MayRefuse
  /\ "start_bad" \notin Ops
  /\ MaxRx < 3 * (DataLines + 4)

-----------------------------------------------------------------------------
(***************************************************************************)
(* What is unread, answer by answer.                                       *)
(***************************************************************************)
ScanSize == DataLines + 4
Unit == {"ack", "scan", "stop"}
Size(w) == IF w = "scan" THEN ScanSize ELSE 3

\* The p-th line of an answer to a measuring command sent after call b
\* (for a single scan if "once"), of one of its scans, and to QT
KindAt(w, p) ==
  IF p = 1 THEN "echo"
  ELSE IF p = 2 THEN "stat"
  ELSE IF p = Size(w) THEN "lf"
  ELSE IF p = 3 THEN "ts" ELSE "data"

Fits(once, b, w, line, p) ==
  /\ line.ok /\ line.k = KindAt(w, p)
  /\ w = "stop" => line.c = "QT"
  /\ w # "stop" => line.call > b /\ line.c = IF once THEN "GD" ELSE "MD"
  /\ w = "ack" => ~once /\ (p = 2 => line.s = "00")
  /\ w = "scan" /\ p = 2 => line.s = IF once THEN "00" ELSE "99"

\* Behind the first i lines of s come the last m lines of such an answer.
Part(once, b, s, i, w, m) ==
  \A p \in 1 .. m : Fits(once, b, w, s[i + p], Size(w) - m + p)

Scans(k) == IF k = 0 THEN 0 ELSE IF k = 1 THEN ScanSize ELSE 2 * ScanSize

\* s is the last n lines of an answer, k scans and q answers to QT.
Layout(once, b, s, w, n, k, q) ==
  /\ w \in Unit /\ n \in 0 .. Size(w) /\ k \in 0 .. 2 /\ q \in 0 .. 2
  /\ Len(s) = n + Scans(k) + 3 * q
  /\ Part(once, b, s, 0, w, n)
  /\ k >= 1 => Part(once, b, s, n, "scan", ScanSize)
  /\ k = 2 => Part(once, b, s, n + ScanSize, "scan", ScanSize)
  /\ q >= 1 => Part(once, b, s, n + Scans(k), "stop", 3)
  /\ q = 2 => Part(once, b, s, n + Scans(k) + 3, "stop", 3)

-----------------------------------------------------------------------------
(***************************************************************************)
(* The thread, the sensor and the line while a measurement may be on: w,   *)
(* n, k and q describe the lines to be read, x measuring commands and y    *)
(* QTs are on their way to the sensor.                                     *)
(***************************************************************************)
Scanned == urg.specified_scan_times
Once == Scanned = 1
Remain == urg.scanning_remain_times

Sent(x, y) ==
  /\ x \in 0 .. 1 /\ y \in 0 .. 2 /\ Len(tx) = x + y
  /\ x = 1 => /\ pc \in {"idle", "entry", "rd_echo"}
              /\ tx[1].c = IF Once THEN "GD" ELSE "MD"
              /\ tx[1].call > barrier
              /\ ~Once => tx[1].n = Scanned
              /\ rx = <<>> /\ dev.stream = 0
              /\ Once => dev.laser
  /\ \A i \in x + 1 .. Len(tx) : tx[i].c = "QT"

\* How far the answer that is being read has been read.
Reading(w, n) ==
  /\ pc \in {"idle", "entry", "rd_echo"} => n = 0 \/ (w = "ack" /\ n = 3)
  /\ pc = "rd_status" =>
       \/ type = "distance" /\ w = "ack" /\ n = 2
       \/ type = "distance" /\ w = "scan" /\ n = ScanSize - 1
       \/ type = "stop" /\ w = "stop" /\ n = 2
  /\ pc = "rd_stop_end" => w = "stop" /\ n = 1
  /\ pc = "rd_ack_end" => w = "ack" /\ n = 1
  /\ pc = "rd_ts" => type = "distance" /\ w = "scan" /\ n = ScanSize - 2
  /\ pc = "rd_data" => /\ w = "scan" /\ n \in 1 .. DataLines + 1
                       /\ steps + StepsPerLine * (n - 1) = FullScan
  /\ pc = "rd_count" => n = 0 /\ ret = "DATA"
  /\ pc \in {"rd_done", "stop_done"} => n = 0

\* What has been accepted of it was sent after the last stop.
Fresh(w, n) ==
  pc \in {"rd_status", "rd_ts", "rd_data", "rd_count"} /\ ~(w = "stop" /\ n > 0)
    => \A line \in seen : line.call > barrier

\* A scan has been begun and is not counted yet.
Begun(w, n) == IF (w = "scan" /\ n > 0) \/ pc = "rd_count" THEN 1 ELSE 0

\* The calls of receive_data: how many, whether the first comes from
\* urg_stop_measurement, and the reads that one has spent; the stops under
\* way, and the answers to their QTs still to be read.
Depth == Len(stack)
ByApp == Depth > 0 /\ stack[Depth].by = "app"
Tries == IF Depth = 0 THEN 0 ELSE stack[Depth].tries
Getting == Depth = 1 /\ ~ByApp
Stops == IF ByApp \/ Depth = 0 THEN Depth ELSE Depth - 1
Answered == pc \in {"rd_done", "stop_done"} /\ ret = "OK" /\ ~Getting

Owed(w, n, q, y) ==
  Stops = y + q + (IF w = "stop" /\ n > 0 THEN 1 ELSE 0) + (IF Answered THEN 1 ELSE 0)

\* Something of a measurement is still to come.
Pending(w, n, k, x) ==
  x = 1 \/ k > 0 \/ (n > 0 /\ w # "stop") \/ pc = "rd_count" \/ dev.stream > 0

Measures(w, n, k, x) ==
  /\ Once => x + k + Begun(w, n) <= 1 /\ dev.stream = 0
  /\ Once /\ Getting /\ pc = "rd_done" => k = 0
  /\ Pending(w, n, k, x) => IF Once THEN urg.is_laser_on ELSE urg.is_sending
  /\ Pending(w, n, k, x) \/ urg.is_sending =>
       /\ op \in {"start", "get", "stop", "sleep", "close"}
       /\ op = "start" => pc = "idle"
  /\ Pending(w, n, k, x) /\ Once /\ pc = "idle" => op = "start"
  /\ Stops = 0 /\ ~urg.is_sending => dev.laser = urg.is_laser_on
  /\ urg.is_sending => ~Once
  /\ dev.stream > 0 => dev.job.c = "MD" /\ dev.job.call > barrier

\* A stop has reads left for every scan in front of the answer to its QT.
Spent(w, n, k, x) ==
  k + (IF Once THEN x ELSE 0) + Begun(w, n) + (IF pc = "rd_done" /\ ret # "OK" THEN 1 ELSE 0)

Stoppable(w, n, k, x, y) ==
  /\ Depth <= 2
  /\ Depth > 0 => IF ByApp THEN op \in {"stop", "sleep"} ELSE op = "get"
  /\ Stops >= 1 /\ y < Stops => x = 0 /\ dev.stream = 0 /\ ~dev.laser
  /\ (w = "stop" /\ n > 0) \/ Answered => k = 0
  /\ Depth > 0 /\ ~Getting /\ pc = "rd_done" => ret \in {"OK", "DATA"}
  /\ pc = "stop_done" => ret = "OK" /\ ~urg.is_sending /\ ~urg.is_laser_on
  /\ Depth = 2 => /\ Head(stack).kept = "DATA"
                  /\ Scanned > 1 /\ Remain = 0
                  /\ n > 0 => w = "stop"
                  /\ pc = "rd_done" => ret = "OK"
                  /\ ByApp => Tries <= 1
  /\ ByApp /\ Depth = 1 => Spent(w, n, k, x) <= 2 - Tries

Counts(w, n, k, x) ==
  Scanned > 1 =>
    /\ k + Begun(w, n) + dev.stream + (IF x = 1 THEN Scanned ELSE 0) <= Remain
    /\ urg.is_sending /\ Depth # 2 => Remain >= 1

Tally(w, n, k, q, x, y) ==
  /\ Reading(w, n)
  /\ Owed(w, n, q, y)
  /\ Measures(w, n, k, x)
  /\ Stoppable(w, n, k, x, y)
  /\ Counts(w, n, k, x)

Content(w, n, k, q, x, y) ==
  /\ Layout(Once, barrier, rx, w, n, k, q)
  /\ Sent(x, y)
  /\ Fresh(w, n)
  /\ Tally(w, n, k, q, x, y)

MeasuringInv ==
  \E w \in Unit, n \in 0 .. ScanSize, k \in 0 .. 2, q \in 0 .. 2, x \in 0 .. 1, y \in 0 .. 2 :
    Content(w, n, k, q, x, y)

\* scip_response
MustSucceed == op \in {"laser", "start", "reboot", "reboot2"}
Good1(line) == MustSucceed => StatusValue(line.s) \in Expected(CommandOf(op))
Dark == dev.stream = 0 /\ ~dev.laser

Unanswered ==
  /\ pc = "scip_echo" /\ rx = <<>> /\ Len(tx) = 1
  /\ tx[1].c = CommandOf(op) /\ tx[1].call = calls
  /\ op = "reboot2" => dev.rb \/ ~dev.laser
  /\ op \notin {"reboot", "reboot2"} => dev.laser = urg.is_laser_on

Answering ==
  /\ tx = <<>>
  /\ \A i \in 1 .. Len(rx) : /\ rx[i].call = calls /\ rx[i].ok
                             /\ (rx[i].k = "lf") = (i = Len(rx))
                             /\ (rx[i].k = "echo") = (i = 1 /\ pc = "scip_echo")
                             /\ rx[i].k = "echo" => rx[i].c = CommandOf(op)
  /\ pc = "scip_echo" => Len(rx) >= 3 /\ rx[2].k = "stat" /\ Good1(rx[2])
  /\ pc = "scip_status" => Len(rx) >= 2 /\ rx[1].k = "stat" /\ Good1(rx[1])
  /\ pc = "scip_body" => Len(rx) >= 1 /\ (MustSucceed => good)
  /\ pc = "scip_done" => rx = <<>> /\ (MustSucceed => ret = "OK")
  /\ op = "reboot" => dev.rb \/ ~dev.laser
  /\ op = "reboot2" => ~dev.laser
  /\ op \in {"start", "laser"} => dev.laser
  /\ op \notin {"start", "laser", "reboot", "reboot2"} => dev.laser = urg.is_laser_on

AskingInv ==
  /\ Unanswered \/ Answering
  /\ dev.stream = 0 /\ ~urg.is_sending
  /\ op \in {"start", "laser", "tm0", "tm1", "tm2", "info", "sleep", "reboot", "reboot2"}
  /\ op = "start" => Once

\* The sensor is dark, or will be when it has seen what is on its way.
LeavingInv ==
  /\ tx = <<>> => Dark
  /\ tx # <<>> => /\ tx[Len(tx)].c = "QT" /\ ~dev.tm
                  /\ \A i \in 1 .. Len(tx) : tx[i].c \in {"GD", "MD", "QT"}
  /\ pc \in {"drain", "closing"} => op = "close"
  /\ pc = "drain" => resume = "closing"

CallInv ==
  /\ link # "lost" /\ (urg.is_active => link = "open")
  /\ dev.tm => /\ op \in {"tm0", "tm1", "tm2", "info", "close"}
               /\ ~urg.is_laser_on /\ ~urg.is_sending
  /\ op = "tm0" => ~urg.is_laser_on
  /\ barrier <= calls
  /\ op = "start" /\ pc # "idle" => barrier < calls
  /\ op # "start_bad"
  /\ op \in {"info", "tm1"} => \A line \in seen : line.call = calls
  /\ pc = "idle" /\ op = "stop" =>
       IF urg.is_active THEN ret = "OK" /\ ~urg.is_laser_on /\ ~urg.is_sending
       ELSE ret # "OK"
  /\ pc = "idle" /\ op = "close" => ~urg.is_active
  /\ Scanned > 1 => scans + Remain <= Scanned

Leaving == ~urg.is_active \/ pc \in {"drain", "closing"}

PhaseInv ==
  IF Leaving THEN LeavingInv ELSE IF pc \in InScip THEN AskingInv ELSE MeasuringInv

TimelyInv == Undisturbed => CallInv /\ PhaseInv

-----------------------------------------------------------------------------
(***************************************************************************)
(* Reading, and answers that are added.                                    *)
(***************************************************************************)

\* The numbers the layouts are about.
LEMMA Sizes ==
  /\ DataLines \in Nat /\ DataLines >= 1
  /\ ScanSize \in Nat /\ ScanSize = DataLines + 4
  /\ Size("scan") = ScanSize /\ Size("ack") = 3 /\ Size("stop") = 3
  /\ \A w \in Unit : Size(w) \in Nat /\ Size(w) >= 3
  /\ Scans(0) = 0 /\ Scans(1) = ScanSize /\ Scans(2) = 2 * ScanSize
  /\ \A k \in 0 .. 2 : Scans(k) \in Nat
BY SensorAssumption DEF ScanSize, Size, Unit, Scans

\* An answer behind the first line is there when that line is gone.
LEMMA PartTail ==
  ASSUME NEW s \in Seq(Line), s # <<>>, NEW once, NEW b, NEW w,
         NEW i \in Nat, NEW j \in Nat, i = j + 1, NEW m \in Nat, i + m <= Len(s),
         Part(once, b, s, i, w, m)
  PROVE  Part(once, b, Tail(s), j, w, m)
<1>1. PICK t \in Seq(Line) : t = Tail(s)
  BY HeadTailProperties
<1>2. /\ Len(s) \in Nat
      /\ \A p \in 1 .. Len(s) - 1 : t[p] = s[p + 1]
  BY <1>1
<1>3. ASSUME NEW p \in 1 .. m
      PROVE  t[j + p] = s[i + p]
  <2>1. j + p \in 1 .. Len(s) - 1 /\ (j + p) + 1 = i + p
    BY <1>2
  <2> QED BY ONLY <1>2, <2>1
<1>4. Part(once, b, t, j, w, m)
  BY <1>3 DEF Part
<1> QED BY <1>1, <1>4

\* The first line is of the answer that has been begun.
LEMMA LayoutTail ==
  ASSUME NEW once, NEW b, NEW s \in Seq(Line), NEW w \in Unit, NEW n \in Nat, n >= 1,
         NEW k \in 0 .. 2, NEW q \in 0 .. 2, Layout(once, b, s, w, n, k, q)
  PROVE  /\ s # <<>> /\ n <= Size(w)
         /\ Fits(once, b, w, s[1], Size(w) - n + 1)
         /\ Layout(once, b, Tail(s), w, n - 1, k, q)
<1>1. /\ Size(w) \in Nat /\ n <= Size(w) /\ Scans(k) \in Nat /\ ScanSize \in Nat
      /\ (k >= 1 => Scans(k) >= ScanSize) /\ (k = 2 => Scans(k) = ScanSize + ScanSize)
  BY Sizes DEF Layout
<1>2. Len(s) \in Nat /\ Len(s) = n + Scans(k) + 3 * q /\ Len(s) >= 1
  BY <1>1 DEF Layout
<1>3. s # <<>>
  BY <1>2
<1>4. PICK t \in Seq(Line) : t = Tail(s)
  BY <1>3, HeadTailProperties
<1>5. Len(t) = Len(s) - 1 /\ \A p \in 1 .. Len(s) - 1 : t[p] = s[p + 1]
  BY <1>3, <1>4
<1>6. Fits(once, b, w, s[1], Size(w) - n + 1)
  <2>1. 1 \in 1 .. n /\ 0 + 1 = 1
    OBVIOUS
  <2>2. Fits(once, b, w, s[0 + 1], Size(w) - n + 1)
    BY <2>1 DEF Layout, Part
  <2> QED BY <2>2
<1>7. Part(once, b, t, 0, w, n - 1)
  <2> SUFFICES ASSUME NEW p \in 1 .. n - 1
               PROVE  Fits(once, b, w, t[0 + p], Size(w) - (n - 1) + p)
    BY DEF Part
  <2>1. p + 1 \in 1 .. n /\ p \in 1 .. Len(s) - 1 /\ 0 + p = p /\ 0 + (p + 1) = p + 1
        /\ Size(w) - n + (p + 1) = Size(w) - (n - 1) + p
    BY <1>1, <1>2
  <2>2. Fits(once, b, w, s[0 + (p + 1)], Size(w) - n + (p + 1))
    BY <2>1 DEF Layout, Part
  <2>3. t[p] = s[p + 1]
    BY <1>5, <2>1
  <2> QED BY ONLY <2>1, <2>2, <2>3
<1>8. k >= 1 => Part(once, b, t, n - 1, "scan", ScanSize)
  <2> HAVE k >= 1
  <2>1. /\ Part(once, b, s, n, "scan", ScanSize)
        /\ n - 1 \in Nat /\ n = (n - 1) + 1 /\ n + ScanSize <= Len(s)
    BY <1>1, <1>2 DEF Layout
  <2> QED BY <1>1, <1>3, <1>4, <2>1, PartTail
<1>9. k = 2 => Part(once, b, t, (n - 1) + ScanSize, "scan", ScanSize)
  <2> HAVE k = 2
  <2>1. /\ Part(once, b, s, n + ScanSize, "scan", ScanSize)
        /\ (n - 1) + ScanSize \in Nat /\ n + ScanSize \in Nat
        /\ n + ScanSize = ((n - 1) + ScanSize) + 1
        /\ (n + ScanSize) + ScanSize <= Len(s)
    BY <1>1, <1>2 DEF Layout
  <2> QED BY <1>1, <1>3, <1>4, <2>1, PartTail
<1>10. q >= 1 => Part(once, b, t, (n - 1) + Scans(k), "stop", 3)
  <2> HAVE q >= 1
  <2>1. /\ Part(once, b, s, n + Scans(k), "stop", 3)
        /\ (n - 1) + Scans(k) \in Nat /\ n + Scans(k) \in Nat
        /\ n + Scans(k) = ((n - 1) + Scans(k)) + 1
        /\ (n + Scans(k)) + 3 <= Len(s)
    BY <1>1, <1>2 DEF Layout
  <2> QED BY <1>3, <1>4, <2>1, PartTail
<1>11. q = 2 => Part(once, b, t, (n - 1) + Scans(k) + 3, "stop", 3)
  <2> HAVE q = 2
  <2>1. /\ Part(once, b, s, n + Scans(k) + 3, "stop", 3)
        /\ (n - 1) + Scans(k) + 3 \in Nat /\ n + Scans(k) + 3 \in Nat
        /\ n + Scans(k) + 3 = ((n - 1) + Scans(k) + 3) + 1
        /\ (n + Scans(k) + 3) + 3 <= Len(s)
    BY <1>1, <1>2 DEF Layout
  <2> QED BY <1>3, <1>4, <2>1, PartTail
<1>12. Len(t) = (n - 1) + Scans(k) + 3 * q /\ n - 1 \in 0 .. Size(w)
  BY <1>1, <1>2, <1>5
<1>13. Layout(once, b, t, w, n - 1, k, q)
  BY <1>7, <1>8, <1>9, <1>10, <1>11, <1>12 DEF Layout
<1> QED BY <1>1, <1>3, <1>4, <1>6, <1>13

\* When an answer has been read the next one begins; without one nothing is
\* unread, and nothing unread is no answer.
LEMMA LayoutTurns ==
  ASSUME NEW once, NEW b, NEW s \in Seq(Line), NEW w \in Unit,
         NEW k \in 0 .. 2, NEW q \in 0 .. 2, Layout(once, b, s, w, 0, k, q)
  PROVE  /\ k >= 1 => Layout(once, b, s, "scan", ScanSize, k - 1, q)
         /\ k = 0 /\ q >= 1 => Layout(once, b, s, "stop", 3, 0, q - 1)
         /\ k = 0 /\ q = 0 => s = <<>>
<1>1. /\ ScanSize \in Nat /\ ScanSize >= 5 /\ Len(s) \in Nat
      /\ Len(s) = 0 + Scans(k) + 3 * q
  BY Sizes DEF Layout
<1>2. ASSUME k >= 1
      PROVE  Layout(once, b, s, "scan", ScanSize, k - 1, q)
  <2>1. /\ Part(once, b, s, 0, "scan", ScanSize)
        /\ k = 2 => Part(once, b, s, 0 + ScanSize, "scan", ScanSize)
        /\ q >= 1 => Part(once, b, s, 0 + Scans(k), "stop", 3)
        /\ q = 2 => Part(once, b, s, 0 + Scans(k) + 3, "stop", 3)
    BY <1>2 DEF Layout
  <2>2. k - 1 \in 0 .. 2 /\ ~(k - 1 = 2) /\ (k - 1 >= 1 => k = 2)
        /\ 0 + Scans(k) = ScanSize + Scans(k - 1) /\ 0 + ScanSize = ScanSize
        /\ Scans(k) = ScanSize + Scans(k - 1)
        /\ Len(s) = ScanSize + Scans(k - 1) + 3 * q
        /\ "scan" \in Unit /\ ScanSize \in 0 .. Size("scan")
    <3>1. k = 1 \/ k = 2
      BY <1>2
    <3> QED BY <1>1, <3>1, Sizes DEF Unit
  <2>3. /\ k - 1 >= 1 => Part(once, b, s, ScanSize, "scan", ScanSize)
        /\ q >= 1 => Part(once, b, s, ScanSize + Scans(k - 1), "stop", 3)
        /\ q = 2 => Part(once, b, s, ScanSize + Scans(k - 1) + 3, "stop", 3)
    BY ONLY <2>1, <2>2
  <2> QED BY <2>1, <2>2, <2>3 DEF Layout
<1>3. ASSUME k = 0, q >= 1
      PROVE  Layout(once, b, s, "stop", 3, 0, q - 1)
  <2>1. /\ Part(once, b, s, 0 + Scans(0), "stop", 3)
        /\ q = 2 => Part(once, b, s, 0 + Scans(0) + 3, "stop", 3)
    BY <1>3 DEF Layout
  <2>2. q - 1 \in 0 .. 2 /\ ~(q - 1 = 2) /\ (q - 1 >= 1 => q = 2)
        /\ 0 + Scans(0) = 0 /\ 0 + Scans(0) + 3 = 3 + Scans(0) /\ 0 \in 0 .. 2
        /\ Len(s) = 3 + Scans(0) + 3 * (q - 1)
        /\ "stop" \in Unit /\ 3 \in 0 .. Size("stop")
    <3>1. Scans(0) = 0 /\ Size("stop") = 3 /\ Len(s) = 0 + Scans(0) + 3 * q
      BY <1>1, <1>3, Sizes
    <3>2. q = 1 \/ q = 2
      BY <1>3
    <3> QED BY ONLY <3>1, <3>2 DEF Unit
  <2>3. /\ Part(once, b, s, 0, "stop", 3)
        /\ q - 1 >= 1 => Part(once, b, s, 3 + Scans(0), "stop", 3)
    BY ONLY <2>1, <2>2
  <2> QED BY <2>2, <2>3 DEF Layout
<1>4. k = 0 /\ q = 0 => s = <<>>
  BY <1>1, Sizes, EmptySeq
<1> QED BY <1>2, <1>3, <1>4

\* Nothing unread is no answer, and only that.
LEMMA LayoutEmpty ==
  ASSUME NEW once, NEW b, NEW w \in Unit
  PROVE  /\ Layout(once, b, <<>>, w, 0, 0, 0)
         /\ \A n \in Nat, k \in 0 .. 2, q \in 0 .. 2 :
              Layout(once, b, <<>>, w, n, k, q) => n = 0 /\ k = 0 /\ q = 0
<1>1. Layout(once, b, <<>>, w, 0, 0, 0)
  BY Sizes DEF Layout, Part
<1>2. ASSUME NEW n \in Nat, NEW k \in 0 .. 2, NEW q \in 0 .. 2,
             Layout(once, b, <<>>, w, n, k, q)
      PROVE  n = 0 /\ k = 0 /\ q = 0
  <2>1. 0 = n + Scans(k) + 3 * q
    BY <1>2 DEF Layout
  <2>2. k = 0 \/ Scans(k) >= 5
    BY Sizes
  <2>3. Scans(k) \in Nat
    BY Sizes
  <2> QED BY <2>1, <2>2, <2>3
<1> QED BY <1>1, <1>2

\* Answers to QT are such whatever measurement is on.
LEMMA LayoutOfStops ==
  ASSUME NEW once, NEW b, NEW once2, NEW b2, NEW s, NEW w \in Unit, NEW w2 \in Unit,
         NEW q \in 0 .. 2, Layout(once, b, s, w, 0, 0, q)
  PROVE  Layout(once2, b2, s, w2, 0, 0, q)
<1>1. ASSUME NEW i, Part(once, b, s, i, "stop", 3)
      PROVE  Part(once2, b2, s, i, "stop", 3)
  BY <1>1 DEF Part, Fits
<1>2. Part(once2, b2, s, 0, w2, 0)
  BY DEF Part
<1>3. 0 \in 0 .. Size(w2)
  BY Sizes
<1> QED BY <1>1, <1>2, <1>3 DEF Layout

\* What is there stays, and what is added comes behind it.
LEMMA PartAdded ==
  ASSUME NEW s \in Seq(Line), NEW a \in Seq(Line), NEW t, t = s \o a,
         NEW once, NEW b, NEW w, NEW m \in Nat
  PROVE  /\ \A i \in Nat : Part(once, b, s, i, w, m) /\ i + m <= Len(s) => Part(once, b, t, i, w, m)
         /\ Part(once, b, a, 0, w, m) /\ m <= Len(a) => Part(once, b, t, Len(s), w, m)
<1>1. /\ Len(s) \in Nat /\ Len(a) \in Nat
      /\ \A i \in 1 .. Len(s) : t[i] = s[i]
      /\ \A i \in 1 .. Len(a) : t[Len(s) + i] = a[i]
  BY ConcatProperties
<1>2. ASSUME NEW i \in Nat, Part(once, b, s, i, w, m), i + m <= Len(s)
      PROVE  Part(once, b, t, i, w, m)
  <2>1. \A p \in 1 .. m : t[i + p] = s[i + p]
    BY <1>1, <1>2
  <2> QED BY ONLY <1>2, <2>1 DEF Part
<1>3. ASSUME Part(once, b, a, 0, w, m), m <= Len(a)
      PROVE  Part(once, b, t, Len(s), w, m)
  <2>1. \A p \in 1 .. m : t[Len(s) + p] = a[0 + p]
    BY <1>1, <1>3
  <2> QED BY ONLY <1>3, <2>1 DEF Part
<1> QED BY <1>2, <1>3

\* One more scan.
LEMMA LayoutScan ==
  ASSUME NEW s \in Seq(Line), NEW a \in Seq(Line), NEW once, NEW b,
         NEW w \in Unit, NEW n \in Nat, NEW k \in 0 .. 1,
         Layout(once, b, s, w, n, k, 0),
         Len(a) = ScanSize, Part(once, b, a, 0, "scan", ScanSize)
  PROVE  Layout(once, b, s \o a, w, n, k + 1, 0)
<1>1. PICK t \in Seq(Line) : t = s \o a
  BY ConcatProperties
<1>2. /\ ScanSize \in Nat /\ Scans(k) \in Nat /\ Scans(k + 1) = Scans(k) + ScanSize
      /\ (k = 0 => Scans(k) = 0) /\ (k = 1 => Scans(k) = ScanSize)
  BY Sizes
<1>3. Len(s) \in Nat /\ Len(s) = n + Scans(k) /\ Len(t) = n + Scans(k + 1) + 3 * 0
  <2>1. Len(t) = Len(s) + ScanSize
    BY <1>1, ConcatProperties
  <2>2. Len(s) = n + Scans(k) + 3 * 0
    BY DEF Layout
  <2> QED BY <1>2, <2>1, <2>2
<1>4. Part(once, b, t, 0, w, n)
  <2>1. Part(once, b, s, 0, w, n) /\ 0 \in Nat /\ 0 + n <= Len(s)
    BY <1>2, <1>3 DEF Layout
  <2> QED BY <1>1, <2>1, PartAdded
<1>5. Part(once, b, t, Len(s), "scan", ScanSize)
  <2>1. ScanSize <= Len(a)
    BY <1>2
  <2> QED BY <1>1, <1>2, <2>1, PartAdded
<1>6. k = 1 => Part(once, b, t, n, "scan", ScanSize)
  <2> HAVE k = 1
  <2>1. Part(once, b, s, n, "scan", ScanSize) /\ n + ScanSize <= Len(s)
    BY <1>2, <1>3 DEF Layout
  <2> QED BY <1>1, <1>2, <2>1, PartAdded
<1>7. /\ k + 1 \in 0 .. 2 /\ k + 1 >= 1 /\ (k + 1 = 2 => k = 1) /\ (k + 1 # 2 => k = 0)
      /\ (k = 0 => Len(s) = n) /\ (k = 1 => Len(s) = n + ScanSize)
      /\ ~(0 >= 1) /\ 0 # 2 /\ 0 \in 0 .. 2
  BY <1>2, <1>3
<1>8. /\ k + 1 >= 1 => Part(once, b, t, n, "scan", ScanSize)
      /\ k + 1 = 2 => Part(once, b, t, n + ScanSize, "scan", ScanSize)
  BY ONLY <1>5, <1>6, <1>7
<1>9. Layout(once, b, t, w, n, k + 1, 0)
  BY <1>3, <1>4, <1>7, <1>8 DEF Layout
<1> QED BY <1>1, <1>9

\* One more answer to QT.
LEMMA LayoutStop ==
  ASSUME NEW s \in Seq(Line), NEW a \in Seq(Line), NEW once, NEW b,
         NEW w \in Unit, NEW n \in Nat, NEW k \in 0 .. 2, NEW q \in 0 .. 1,
         Layout(once, b, s, w, n, k, q),
         Len(a) = 3, Part(once, b, a, 0, "stop", 3)
  PROVE  Layout(once, b, s \o a, w, n, k, q + 1)
<1>1. PICK t \in Seq(Line) : t = s \o a
  BY ConcatProperties
<1>2. /\ ScanSize \in Nat /\ Scans(k) \in Nat
      /\ (k = 1 => Scans(k) = ScanSize) /\ (k = 2 => Scans(k) = ScanSize + ScanSize)
  BY Sizes
<1>3. Len(s) \in Nat /\ Len(s) = n + Scans(k) + 3 * q /\ Len(t) = n + Scans(k) + 3 * (q + 1)
  <2>0. Len(s \o a) = Len(s) + Len(a)
    BY ConcatProperties
  <2>1. Len(t) = Len(s) + Len(a) /\ Len(a) = 3
    BY ONLY <2>0, <1>1, Len(a) = 3
  <2>2. Len(s) = n + Scans(k) + 3 * q
    BY DEF Layout
  <2> QED BY <1>2, <2>1, <2>2
<1>4. Part(once, b, t, 0, w, n)
  <2>1. Part(once, b, s, 0, w, n) /\ 0 \in Nat /\ 0 + n <= Len(s)
    BY <1>2, <1>3 DEF Layout
  <2> QED BY <1>1, <2>1, PartAdded
<1>5. Part(once, b, t, Len(s), "stop", 3)
  <2>1. 3 <= Len(a) /\ 3 \in Nat
    OBVIOUS
  <2> QED BY <1>1, <1>2, <2>1, PartAdded
<1>6. k >= 1 => Part(once, b, t, n, "scan", ScanSize)
  <2> HAVE k >= 1
  <2>1. Part(once, b, s, n, "scan", ScanSize) /\ n + ScanSize <= Len(s)
    BY <1>2, <1>3 DEF Layout
  <2> QED BY <1>1, <1>2, <2>1, PartAdded
<1>7. k = 2 => Part(once, b, t, n + ScanSize, "scan", ScanSize)
  <2> HAVE k = 2
  <2>3. 3 * q \in Nat
    OBVIOUS
  <2>4. Scans(k) = ScanSize + ScanSize /\ Len(s) = n + Scans(k) + 3 * q
    BY ONLY <1>2, <1>3, k = 2
  <2>0. Len(s) = n + (ScanSize + ScanSize) + 3 * q /\ 3 * q \in Nat
    BY ONLY <2>3, <2>4
  <2>1. (n + ScanSize) + ScanSize <= Len(s) /\ n + ScanSize \in Nat
    BY ONLY <1>2, <2>0, n \in Nat
  <2>2. Part(once, b, s, n + ScanSize, "scan", ScanSize)
    BY DEF Layout
  <2> QED BY <1>1, <1>2, <2>1, <2>2, PartAdded
<1>8. q = 1 => Part(once, b, t, n + Scans(k), "stop", 3)
  <2> HAVE q = 1
  <2>1. Part(once, b, s, n + Scans(k), "stop", 3) /\ (n + Scans(k)) + 3 <= Len(s)
        /\ n + Scans(k) \in Nat /\ 3 \in Nat
    BY <1>2, <1>3 DEF Layout
  <2> QED BY <1>1, <1>2, <2>1, PartAdded
<1>9. /\ q + 1 \in 0 .. 2 /\ q + 1 >= 1 /\ (q + 1 = 2 => q = 1) /\ (q + 1 # 2 => q = 0)
      /\ (q = 0 => Len(s) = n + Scans(k)) /\ (q = 1 => Len(s) = n + Scans(k) + 3)
  BY <1>2, <1>3
<1>10. /\ q + 1 >= 1 => Part(once, b, t, n + Scans(k), "stop", 3)
       /\ q + 1 = 2 => Part(once, b, t, n + Scans(k) + 3, "stop", 3)
  BY ONLY <1>5, <1>8, <1>9
<1>11. Layout(once, b, t, w, n, k, q + 1)
  BY <1>3, <1>4, <1>6, <1>7, <1>9, <1>10 DEF Layout
<1> QED BY <1>1, <1>11

\* The lines of an answer, one by one.
LEMMA AnswerLines ==
  ASSUME unit \in Nat, NEW cmd \in Command, NEW status \in Status, NEW body \in Bodies,
         NEW a, a = Answer(cmd, status, body)
  PROVE  /\ a \in Seq(Line) /\ Len(body) \in Nat /\ Len(a) = Len(body) + 3
         /\ \A i \in 1 .. Len(a) : a[i].call = cmd.call /\ a[i].c = cmd.c /\ a[i].ok
         /\ a[1].k = "echo" /\ a[2].k = "stat" /\ a[2].s = status
         /\ a[Len(a)].k = "lf"
         /\ \A i \in 1 .. Len(body) : a[i + 2].k = body[i]
<1>1. /\ body \in Seq(Kind) /\ Len(body) \in Nat
      /\ \A i \in 1 .. Len(body) : body[i] \in {"ts", "data", "info"}
  BY BodiesAre
<1>0. <<"echo", "stat">> \in Seq(Kind) /\ <<"lf">> \in Seq(Kind)
  BY DEF Kind
<1>2. PICK first \in Seq(Kind), last \in Seq(Kind) : first = <<"echo", "stat">> /\ last = <<"lf">>
  BY ONLY <1>0
<1>3. PICK most \in Seq(Kind) : most = first \o body
  BY <1>1, ConcatProperties
<1>4. PICK kinds \in Seq(Kind) : kinds = most \o last
  BY ConcatProperties
<1>5. /\ Len(most) = Len(body) + 2 /\ most[1] = "echo" /\ most[2] = "stat"
      /\ \A i \in 1 .. Len(body) : most[i + 2] = body[i]
  BY <1>1, <1>2, <1>3
<1>6. /\ Len(kinds) = Len(body) + 3 /\ kinds[Len(body) + 3] = "lf"
      /\ \A i \in 1 .. Len(body) + 2 : kinds[i] = most[i]
  BY <1>1, <1>2, <1>4, <1>5
<1>7. kinds[1] = "echo" /\ kinds[2] = "stat" /\ \A i \in 1 .. Len(body) : kinds[i + 2] = body[i]
  <2>1. 1 \in 1 .. Len(body) + 2 /\ 2 \in 1 .. Len(body) + 2
    BY <1>1
  <2>2. \A i \in 1 .. Len(body) : i + 2 \in 1 .. Len(body) + 2
    BY <1>1
  <2> QED BY <1>5, <1>6, <2>1, <2>2
<1>8. a \in Seq(Line)
  BY <1>1, AnswerTypes
<1>9. a = [i \in 1 .. Len(kinds) |->
             [k |-> kinds[i], c |-> cmd.c,
              s |-> IF kinds[i] = "stat" THEN status ELSE "-",
              call |-> cmd.call, u |-> unit, ok |-> TRUE]]
  BY <1>2, <1>3, <1>4 DEF Answer
<1>10. Len(a) = Len(body) + 3
  BY <1>1, <1>6, <1>8, <1>9
<1>11. \A i \in 1 .. Len(body) + 3 :
         /\ a[i].k = kinds[i] /\ a[i].c = cmd.c /\ a[i].call = cmd.call /\ a[i].ok
         /\ kinds[i] = "stat" => a[i].s = status
  BY <1>6, <1>9
<1>12. /\ 1 \in 1 .. Len(body) + 3 /\ 2 \in 1 .. Len(body) + 3 /\ Len(body) + 3 \in 1 .. Len(body) + 3
       /\ \A i \in 1 .. Len(body) : i + 2 \in 1 .. Len(body) + 3
  BY <1>1
<1>13. /\ a[1].k = "echo" /\ a[2].k = "stat" /\ a[2].s = status /\ a[Len(body) + 3].k = "lf"
       /\ \A i \in 1 .. Len(body) : a[i + 2].k = body[i]
  BY ONLY <1>6, <1>7, <1>11, <1>12
<1> QED BY <1>1, <1>8, <1>10, <1>11, <1>13

\* The three answers a layout is made of.
LEMMA AckFits ==
  ASSUME unit \in Nat, NEW cmd \in Command, cmd.c = "MD", NEW b \in Nat, cmd.call > b,
         NEW once, ~once, NEW a, a = Answer(cmd, "00", <<>>)
  PROVE  a \in Seq(Line) /\ Len(a) = 3 /\ Part(once, b, a, 0, "ack", 3)
<1>1. "00" \in Status /\ <<>> \in Bodies
  BY DEF Status, Bodies
<1>2. PICK body \in Bodies : body = <<>> /\ Len(body) = 0
  BY <1>1
<1>4. a = Answer(cmd, "00", body)
  BY <1>2
<1>0. /\ a \in Seq(Line) /\ Len(a) = Len(body) + 3
      /\ \A i \in 1 .. Len(a) : a[i].call = cmd.call /\ a[i].c = cmd.c /\ a[i].ok
      /\ a[1].k = "echo" /\ a[2].k = "stat" /\ a[2].s = "00" /\ a[Len(a)].k = "lf"
  BY <1>1, <1>4, AnswerLines
<1>3. /\ a \in Seq(Line) /\ Len(a) = 3
      /\ \A i \in 1 .. 3 : a[i].call > b /\ a[i].c = "MD" /\ a[i].ok
      /\ a[1].k = "echo" /\ a[2].k = "stat" /\ a[2].s = "00" /\ a[3].k = "lf"
  BY <1>0, <1>2
<1>5. ASSUME NEW p \in 1 .. 3
      PROVE  Fits(once, b, "ack", a[0 + p], Size("ack") - 3 + p)
  <2>1. Size("ack") - 3 + p = p /\ 0 + p = p /\ p \in {1, 2, 3} /\ Size("ack") = 3
    BY Sizes
  <2> QED BY ONLY <1>3, <2>1, ~once DEF Fits, KindAt
<1> QED BY <1>3, <1>5 DEF Part

\* The answer to QT.
LEMMA StopFits ==
  ASSUME unit \in Nat, NEW cmd \in Command, cmd.c = "QT", NEW b, NEW once,
         NEW a, a = Answer(cmd, "00", <<>>)
  PROVE  a \in Seq(Line) /\ Len(a) = 3 /\ Part(once, b, a, 0, "stop", 3)
<1>1. "00" \in Status /\ <<>> \in Bodies
  BY DEF Status, Bodies
<1>2. PICK body \in Bodies : body = <<>> /\ Len(body) = 0
  BY <1>1
<1>4. a = Answer(cmd, "00", body)
  BY <1>2
<1>0. /\ a \in Seq(Line) /\ Len(a) = Len(body) + 3
      /\ \A i \in 1 .. Len(a) : a[i].call = cmd.call /\ a[i].c = cmd.c /\ a[i].ok
      /\ a[1].k = "echo" /\ a[2].k = "stat" /\ a[2].s = "00" /\ a[Len(a)].k = "lf"
  BY <1>1, <1>4, AnswerLines
<1>3. /\ a \in Seq(Line) /\ Len(a) = 3
      /\ \A i \in 1 .. 3 : a[i].c = "QT" /\ a[i].ok
      /\ a[1].k = "echo" /\ a[2].k = "stat" /\ a[2].s = "00" /\ a[3].k = "lf"
  BY <1>0, <1>2
<1>5. ASSUME NEW p \in 1 .. 3
      PROVE  Fits(once, b, "stop", a[0 + p], Size("stop") - 3 + p)
  <2>1. Size("stop") - 3 + p = p /\ 0 + p = p /\ p \in {1, 2, 3} /\ Size("stop") = 3
    BY Sizes
  <2> QED BY ONLY <1>3, <2>1 DEF Fits, KindAt
<1> QED BY <1>3, <1>5 DEF Part

\* A scan.
LEMMA ScanFits ==
  ASSUME unit \in Nat, NEW cmd \in Command, NEW once, cmd.c = IF once THEN "GD" ELSE "MD",
         NEW b \in Nat, cmd.call > b,
         NEW status \in Status, status = IF once THEN "00" ELSE "99",
         NEW a, a = Answer(cmd, status, ScanBody)
  PROVE  a \in Seq(Line) /\ Len(a) = ScanSize /\ Part(once, b, a, 0, "scan", ScanSize)
<1>1. ScanBody \in Bodies
  BY DEF Bodies
<1>2. /\ Len(ScanBody) = DataLines + 1 /\ ScanBody[1] = "ts"
      /\ \A i \in 2 .. DataLines + 1 : ScanBody[i] = "data"
  BY <1>1, BodiesAre
<1>3. DataLines \in Nat /\ DataLines >= 1 /\ ScanSize = DataLines + 4 /\ Size("scan") = ScanSize
  BY Sizes
<1>4. /\ a \in Seq(Line) /\ Len(a) = Len(ScanBody) + 3
      /\ \A i \in 1 .. Len(a) : a[i].call = cmd.call /\ a[i].c = cmd.c /\ a[i].ok
      /\ a[1].k = "echo" /\ a[2].k = "stat" /\ a[2].s = status /\ a[Len(a)].k = "lf"
      /\ \A i \in 1 .. Len(ScanBody) : a[i + 2].k = ScanBody[i]
  BY <1>1, AnswerLines
<1>5. Len(a) = ScanSize
  BY <1>2, <1>3, <1>4
<1>6. ASSUME NEW p \in 1 .. ScanSize
      PROVE  a[p].k = KindAt("scan", p)
  <2>1. p = 1 \/ p = 2 \/ p = ScanSize \/ (p - 2 \in 1 .. DataLines + 1 /\ (p - 2) + 2 = p)
    BY <1>3
  <2>2. p # 1 /\ p # 2 /\ p # ScanSize => a[p].k = ScanBody[p - 2]
    BY <1>2, <1>4, <2>1
  <2>3. p # 1 /\ p # 2 /\ p # 3 /\ p # ScanSize => p - 2 \in 2 .. DataLines + 1
    BY <1>3
  <2>4. p = 3 => p - 2 = 1
    OBVIOUS
  <2>5. ScanSize # 1 /\ ScanSize # 2 /\ ScanSize # 3
    BY <1>3
  <2> QED BY ONLY <1>2, <1>3, <1>4, <1>5, <2>2, <2>3, <2>4, <2>5 DEF KindAt
<1>7. ASSUME NEW p \in 1 .. ScanSize
      PROVE  Fits(once, b, "scan", a[0 + p], Size("scan") - ScanSize + p)
  <2>1. Size("scan") - ScanSize + p = p /\ 0 + p = p
    BY <1>3
  <2>2. Fits(once, b, "scan", a[p], p)
    <3>1. a[p].call = cmd.call /\ a[p].c = cmd.c /\ a[p].ok /\ a[p].k = KindAt("scan", p)
      BY <1>4, <1>5, <1>6
    <3>2. p = 2 => a[p].s = status
      BY <1>4
    <3> QED BY <3>1, <3>2 DEF Fits
  <2> QED BY <2>1, <2>2
<1> QED BY <1>4, <1>5, <1>7 DEF Part

\* A measurement begins.
LEMMA LayoutFirst ==
  ASSUME NEW once, NEW b, NEW a \in Seq(Line), Len(a) = 3, Part(once, b, a, 0, "ack", 3)
  PROVE  Layout(once, b, a, "ack", 3, 0, 0)
BY Sizes DEF Layout, Unit

-----------------------------------------------------------------------------
(***************************************************************************)
(* The callers of receive_data.                                            *)
(***************************************************************************)

\* How Depth, ByApp and Tries read the stack.
LEMMA StackIs ==
  ASSUME TypeInv
  PROVE  /\ Depth \in Nat /\ (Depth = 0 <=> stack = <<>>) /\ Tries \in 0 .. 2
         /\ stack # <<>> => Head(stack) \in Frames
         /\ Depth = 1 => /\ Head(stack).by = IF ByApp THEN "app" ELSE "get"
                         /\ Head(stack).tries = Tries
         /\ Depth > 1 => Head(stack).by = "auto"
         /\ stack # <<>> => (InGet <=> Getting)
<1>1. stack \in Seq(Frames) /\ Layered(stack)
  BY Before
<1>2. Depth \in Nat /\ (Depth = 0 <=> stack = <<>>) /\ DOMAIN stack = 1 .. Depth
  BY <1>1, EmptySeq, LenProperties DEF Depth
<1>3. \A i \in 1 .. Depth : stack[i] \in Frames
  BY <1>1 DEF Depth
<1>4. Depth > 0 => stack[Depth] \in Frames /\ stack[1] \in Frames /\ Head(stack) = stack[1]
  BY <1>1, <1>2, <1>3
<1>5. Tries \in 0 .. 2
  BY <1>2, <1>4 DEF Tries, Frames, MAX_READ_TIMES
<1>6. Depth > 0 => (stack[1].by = "auto" <=> 1 < Depth)
  BY <1>1, <1>2 DEF Layered, Depth
<1>7. ASSUME Depth = 1
      PROVE  Head(stack).by = (IF ByApp THEN "app" ELSE "get") /\ Head(stack).tries = Tries
  BY <1>4, <1>6, <1>7 DEF ByApp, Tries, Frames
<1>8. Depth > 1 => Head(stack).by = "auto"
  BY <1>2, <1>4, <1>6
<1>9. stack # <<>> => (InGet <=> Getting)
  BY <1>2, <1>7, <1>8 DEF InGet, Getting
<1> QED BY <1>2, <1>4, <1>5, <1>7, <1>8, <1>9

\* receive_data or a stop is called.
LEMMA StackPush ==
  ASSUME TypeInv, NEW f \in Frames, stack' = <<f>> \o stack
  PROVE  /\ Depth' = Depth + 1 /\ Head(stack') = f
         /\ Depth > 0 => (ByApp' <=> ByApp) /\ Tries' = Tries
         /\ Depth = 0 => (ByApp' <=> f.by = "app") /\ Tries' = f.tries
<1>1. stack \in Seq(Frames) /\ Depth \in Nat
  BY Before, StackIs
<1>2. PICK g \in Seq(Frames) : g = <<f>>
  <2>1. <<f>> \in Seq(Frames)
    OBVIOUS
  <2> QED BY ONLY <2>1
<1>3. stack' = g \o stack /\ Len(g) = 1 /\ g[1] = f
  BY <1>2
<1>4. PICK s \in Seq(Frames) : s = g \o stack
  BY <1>1, ConcatProperties
<1>5. Len(s) = Depth + 1 /\ s[1] = f /\ \A i \in 1 .. Depth : s[i + 1] = stack[i]
  BY <1>1, <1>3, <1>4 DEF Depth
<1>6. Head(s) = f
  BY <1>1, <1>5
<1>7. Depth' = Depth + 1 /\ Head(stack') = f
  BY <1>3, <1>4, <1>5, <1>6 DEF Depth
<1>8. Depth + 1 > 0 /\ Depth + 1 # 0 /\ stack' = s /\ Depth' = Depth + 1
  BY <1>1, <1>3, <1>4, <1>7
<1>9. CASE Depth > 0
  <2>1. s[Depth + 1] = stack[Depth]
    BY <1>1, <1>5, <1>9
  <2>2. (ByApp' <=> ByApp) /\ Tries' = Tries
    BY ONLY <1>1, <1>8, <1>9, <2>1 DEF ByApp, Tries
  <2> QED BY <1>7, <1>9, <2>2
<1>10. CASE Depth = 0
  <2>0. s[Depth + 1] = f
    BY <1>5, <1>10
  <2>1. (ByApp' <=> f.by = "app") /\ Tries' = f.tries
    BY ONLY <1>8, <2>0 DEF ByApp, Tries
  <2> QED BY <1>7, <1>10, <2>1
<1> QED BY <1>1, <1>9, <1>10

\* The innermost caller goes on.
LEMMA StackPop ==
  ASSUME TypeInv, stack # <<>>, stack' = Tail(stack)
  PROVE  /\ Depth' = Depth - 1
         /\ Depth > 1 => (ByApp' <=> ByApp) /\ Tries' = Tries
         /\ Depth = 1 => ~ByApp' /\ Tries' = 0
<1>1. stack \in Seq(Frames) /\ Depth \in Nat /\ Depth > 0
  BY Before, StackIs
<1>2. PICK s \in Seq(Frames) : s = Tail(stack)
  BY <1>1, HeadTailProperties
<1>3. Len(s) = Depth - 1 /\ \A i \in 1 .. Depth - 1 : s[i] = stack[i + 1]
  BY <1>1, <1>2 DEF Depth
<1>4. Depth' = Depth - 1
  BY <1>2, <1>3 DEF Depth
<1>5. CASE Depth > 1
  <2>1. s[Depth - 1] = stack[Depth]
    <3>1. Depth - 1 \in 1 .. Depth - 1 /\ (Depth - 1) + 1 = Depth
      BY <1>1, <1>5
    <3> QED BY ONLY <1>3, <3>1
  <2>2. Depth - 1 > 0 /\ Depth - 1 # 0 /\ stack' = s /\ Depth # 0
    BY <1>1, <1>2, <1>5
  <2>3. (ByApp' <=> ByApp) /\ Tries' = Tries
    BY ONLY <1>1, <1>4, <1>5, <2>1, <2>2 DEF ByApp, Tries
  <2> QED BY <1>4, <1>5, <2>3
<1>6. CASE Depth = 1
  <2>1. ~ByApp' /\ Tries' = 0
    BY <1>4, <1>6 DEF ByApp, Tries
  <2> QED BY <1>4, <1>6, <2>1
<1> QED BY <1>1, <1>5, <1>6

\* The innermost frame is replaced: a stop reads once more.
LEMMA StackTop ==
  ASSUME TypeInv, stack # <<>>, NEW f \in Frames, f.by = Head(stack).by,
         stack' = <<f>> \o Tail(stack)
  PROVE  /\ Depth' = Depth /\ Head(stack') = f
         /\ (ByApp' <=> ByApp)
         /\ Depth = 1 => Tries' = f.tries
<1>1. stack \in Seq(Frames) /\ Depth \in Nat /\ Depth > 0
  BY Before, StackIs
<1>2. PICK r \in Seq(Frames) : r = Tail(stack)
  BY <1>1, HeadTailProperties
<1>3. Len(r) = Depth - 1 /\ \A i \in 1 .. Depth - 1 : r[i] = stack[i + 1]
  BY <1>1, <1>2 DEF Depth
<1>4. PICK g \in Seq(Frames) : g = <<f>>
  <2>1. <<f>> \in Seq(Frames)
    OBVIOUS
  <2> QED BY ONLY <2>1
<1>5. Len(g) = 1 /\ g[1] = f
  BY <1>4
<1>6. PICK s \in Seq(Frames) : s = g \o r
  BY ConcatProperties
<1>7. Len(s) = Depth /\ s[1] = f /\ \A i \in 1 .. Depth - 1 : s[i + 1] = r[i]
  <2>1. Len(s) = 1 + Len(r) /\ s[1] = f /\ \A i \in 1 .. Len(r) : s[i + 1] = r[i]
    <3>1. Len(r) \in Nat /\ Len(g) + 1 = 2
      BY <1>5
    <3>2. /\ Len(s) = Len(g) + Len(r)
          /\ \A i \in 1 .. Len(g) : s[i] = g[i]
          /\ \A i \in 1 .. Len(r) : s[Len(g) + i] = r[i]
      BY <1>6, ConcatProperties
    <3>3. 1 \in 1 .. Len(g) /\ \A i \in 1 .. Len(r) : Len(g) + i = i + 1
      BY <1>5, <3>1
    <3> QED BY ONLY <1>5, <3>2, <3>3
  <2> QED BY ONLY <1>1, <1>3, <2>1
<1>8. stack' = s
  BY <1>2, <1>4, <1>6
<1>9. Head(s) = f
  BY <1>1, <1>7
<1>10. Depth' = Depth /\ Head(stack') = f
  BY <1>7, <1>8, <1>9 DEF Depth
<1>11. s[Depth].by = stack[Depth].by
  <2>1. CASE Depth = 1
    <3>1. Head(stack) = stack[1]
      BY <1>1
    <3> QED BY <1>7, <2>1, <3>1
  <2>2. CASE Depth # 1
    <3>1. Depth - 1 \in 1 .. Depth - 1 /\ (Depth - 1) + 1 = Depth
      BY <1>1, <2>2
    <3>2. s[(Depth - 1) + 1] = r[Depth - 1] /\ r[Depth - 1] = stack[(Depth - 1) + 1]
      BY <1>3, <1>7, <3>1
    <3> QED BY ONLY <3>1, <3>2
  <2> QED BY <2>1, <2>2
<1>12. (ByApp' <=> ByApp)
  BY <1>8, <1>10, <1>11 DEF ByApp
<1>13. Depth = 1 => Tries' = f.tries
  BY <1>7, <1>8, <1>10 DEF Tries
<1> QED BY <1>10, <1>12, <1>13

\* Nobody is called and nobody returns.
LEMMA StackStays ==
  ASSUME stack' = stack
  PROVE  Depth' = Depth /\ (ByApp' <=> ByApp) /\ Tries' = Tries
BY DEF Depth, ByApp, Tries

-----------------------------------------------------------------------------
(***************************************************************************)
(* receive_data.                                                           *)
(***************************************************************************)
UrgAsBefore ==
  /\ urg'.is_active = urg.is_active /\ urg'.is_sending = urg.is_sending
  /\ urg'.is_laser_on = urg.is_laser_on
  /\ urg'.specified_scan_times = urg.specified_scan_times
  /\ urg'.scanning_remain_times = urg.scanning_remain_times

\* Inside a function little happens to what the calls agree on.
LEMMA CallStays ==
  ASSUME CallInv, UrgAsBefore, UNCHANGED <<link, dev, op, barrier, calls, scans>>,
         pc # "idle", pc' # "idle",
         op \in {"info", "tm1"} => \A line \in seen' : line.call = calls
  PROVE  CallInv'
BY DEF CallInv, UrgAsBefore, Scanned, Remain

\* The points of a measurement.
InMeasuring == {"idle", "entry"} \cup InReceive

\* At one of these points it is MeasuringInv that has to hold.
LEMMA ToMeasuring ==
  ASSUME urg'.is_active, pc' \in InMeasuring,
         NEW w \in Unit, NEW n \in 0 .. ScanSize, NEW k \in 0 .. 2, NEW q \in 0 .. 2,
         NEW x \in 0 .. 1, NEW y \in 0 .. 2, Content(w, n, k, q, x, y)'
  PROVE  PhaseInv'
<1>1. ~Leaving' /\ pc' \notin InScip
  BY DEF Leaving, InMeasuring, InReceive, InScip
<1>2. MeasuringInv'
  BY DEF MeasuringInv
<1> QED BY <1>1, <1>2 DEF PhaseInv

\* Where a read finds the thread: a line, or nothing that is still to come.
LEMMA Reads ==
  ASSUME Timely, TypeInv, CallInv, urg.is_active, NEW line \in Arrivals, Consume(line)
  PROVE  \/ /\ line = NoLine /\ Length(line) = -1 /\ rx' = rx
            /\ rx = <<>> /\ tx = <<>> /\ dev.stream = 0
         \/ /\ line # NoLine /\ line \in Line /\ rx # <<>> /\ line = rx[1] /\ rx' = Tail(rx)
<1>1. CASE line = NoLine
  <2>1. Length(line) = -1 /\ rx' = rx
    BY <1>1, ReadLeaves
  <2>2. rx \in Seq(Line)
    BY Before
  <2>3. rx # <<>> => Head(rx) # NoLine
    <3>1. rx # <<>> => Head(rx) \in Line
      BY <2>2
    <3>2. NoLine.k = "none" /\ NoLine \notin Line
      BY DEF NoLine, Line, Kind
    <3> QED BY <3>1, <3>2
  <2>4. Silent
    BY <1>1, <2>3 DEF Arrivals
  <2>5. rx = <<>> /\ tx = <<>> /\ dev.stream = 0
    BY <2>4 DEF Silent, Timely, CallInv
  <2> QED BY <1>1, <2>1, <2>5
<1>2. CASE line # NoLine
  BY <1>2, ReadLeaves
<1> QED BY <1>1, <1>2

\* A read in the middle of an answer.
LEMMA ReadsOn ==
  ASSUME Timely, TypeInv, CallInv, urg.is_active, NEW line \in Arrivals, Consume(line),
         NEW w \in Unit, NEW n \in Nat, n >= 1, NEW k \in 0 .. 2, NEW q \in 0 .. 2,
         Layout(Once, barrier, rx, w, n, k, q)
  PROVE  /\ line # NoLine /\ line \in Line /\ n <= Size(w)
         /\ Fits(Once, barrier, w, line, Size(w) - n + 1)
         /\ Layout(Once, barrier, rx', w, n - 1, k, q)
<1>1. rx \in Seq(Line)
  BY Before
<1>2. /\ rx # <<>> /\ n <= Size(w)
      /\ Fits(Once, barrier, w, rx[1], Size(w) - n + 1)
      /\ Layout(Once, barrier, Tail(rx), w, n - 1, k, q)
  BY <1>1, LayoutTail
<1>3. line # NoLine /\ line \in Line /\ line = rx[1] /\ rx' = Tail(rx)
  BY <1>2, Reads
<1> QED BY <1>2, <1>3

\* A read between two answers.
LEMMA ReadsFirst ==
  ASSUME Timely, TypeInv, CallInv, urg.is_active, NEW line \in Arrivals, Consume(line),
         NEW w \in Unit, NEW k \in 0 .. 2, NEW q \in 0 .. 2,
         Layout(Once, barrier, rx, w, 0, k, q)
  PROVE  \/ /\ line = NoLine /\ Length(line) = -1 /\ rx' = rx
            /\ k = 0 /\ q = 0 /\ rx = <<>> /\ tx = <<>> /\ dev.stream = 0
         \/ /\ line # NoLine /\ line \in Line /\ rx # <<>> /\ k >= 1
            /\ Fits(Once, barrier, "scan", line, 1)
            /\ Layout(Once, barrier, rx', "scan", ScanSize - 1, k - 1, q)
         \/ /\ line # NoLine /\ line \in Line /\ rx # <<>> /\ k = 0 /\ q >= 1
            /\ Fits(Once, barrier, "stop", line, 1)
            /\ Layout(Once, barrier, rx', "stop", 2, 0, q - 1)
<1>1. rx \in Seq(Line)
  BY Before
<1>2. /\ k >= 1 => Layout(Once, barrier, rx, "scan", ScanSize, k - 1, q)
      /\ k = 0 /\ q >= 1 => Layout(Once, barrier, rx, "stop", 3, 0, q - 1)
      /\ k = 0 /\ q = 0 => rx = <<>>
  BY <1>1, LayoutTurns
<1>3. CASE k >= 1
  <2>1. /\ Layout(Once, barrier, rx, "scan", ScanSize, k - 1, q)
        /\ "scan" \in Unit /\ ScanSize \in Nat /\ ScanSize >= 1 /\ k - 1 \in 0 .. 2
        /\ Size("scan") - ScanSize + 1 = 1
    BY <1>2, <1>3, Sizes DEF Unit
  <2>2. /\ line # NoLine /\ line \in Line
        /\ Fits(Once, barrier, "scan", line, Size("scan") - ScanSize + 1)
        /\ Layout(Once, barrier, rx', "scan", ScanSize - 1, k - 1, q)
    BY <2>1, ReadsOn
  <2>3. rx # <<>>
    BY <2>2, Reads
  <2> QED BY <1>3, <2>1, <2>2, <2>3
<1>4. CASE k = 0 /\ q >= 1
  <2>1. /\ Layout(Once, barrier, rx, "stop", 3, 0, q - 1)
        /\ "stop" \in Unit /\ 3 \in Nat /\ 3 >= 1 /\ 3 - 1 = 2 /\ 0 \in 0 .. 2 /\ q - 1 \in 0 .. 2
        /\ Size("stop") - 3 + 1 = 1
    BY <1>2, <1>4, Sizes DEF Unit
  <2>2. /\ line # NoLine /\ line \in Line
        /\ Fits(Once, barrier, "stop", line, Size("stop") - 3 + 1)
        /\ Layout(Once, barrier, rx', "stop", 3 - 1, 0, q - 1)
    BY <2>1, ReadsOn
  <2>3. rx # <<>>
    BY <2>2, Reads
  <2> QED BY <1>4, <2>1, <2>2, <2>3
<1>5. CASE k = 0 /\ q = 0
  BY <1>2, <1>5, Reads
<1> QED BY <1>3, <1>4, <1>5

\* The state of the thread and the sensor, for the steps below.
Reached ==
  /\ urg \in UrgFields /\ dev \in Dev /\ dev.stream \in Nat
  /\ Scanned \in Nat /\ Remain \in Nat
  /\ Depth \in Nat /\ Tries \in 0 .. 2 /\ (Depth = 0 <=> stack = <<>>)
  /\ stack # <<>> => (InGet <=> Getting)
  /\ ScanSize \in Nat /\ ScanSize = DataLines + 4 /\ DataLines \in Nat /\ DataLines >= 1
  /\ barrier \in Nat /\ calls \in Nat /\ scans \in Nat /\ steps \in Nat

\* They have their types.
LEMMA ReachedIs ==
  ASSUME TypeInv
  PROVE  Reached
<1>1. urg \in UrgFields /\ dev \in Dev /\ barrier \in Nat /\ calls \in Nat /\ scans \in Nat /\ steps \in Nat
  BY DEF TypeInv, TypeOK, SensorTypeOK, Dev
<1>2. dev.stream \in Nat /\ Scanned \in Nat /\ Remain \in Nat
  BY <1>1 DEF Dev, Endless, UrgFields, Scanned, Remain
<1> QED BY <1>1, <1>2, StackIs, Sizes DEF Reached

\* receive_data reads an echo: the next answer has begun, or nothing is coming.
LEMMA EchoTimely ==
  ASSUME Timely, TypeInv, CallInv, ReceiveEcho,
         NEW w \in Unit, NEW n \in 0 .. ScanSize, NEW k \in 0 .. 2, NEW q \in 0 .. 2,
         NEW x \in 0 .. 1, NEW y \in 0 .. 2, Content(w, n, k, q, x, y)
  PROVE  CallInv' /\ PhaseInv'
<1>0. Reached
  BY ReachedIs
<1>1. PICK line \in Arrivals :
        /\ Consume(line)
        /\ \/ /\ Length(line) <= 0
              /\ ReceiveFails("NO_RESPONSE")
              /\ seen' = {} /\ UNCHANGED type
           \/ /\ Length(line) > 0
              /\ pc' = "rd_status" /\ type' = EchoType(line) /\ seen' = {line}
              /\ UNCHANGED <<tx, urg, ret, resume>>
  BY DEF ReceiveEcho
<1>2. /\ pc = "rd_echo"
      /\ UNCHANGED <<tx, dev, unit, noise, link, op, good, calls, stack, steps, barrier, scans>>
  BY <1>1 DEF ReceiveEcho, ReceiveFails, historyVars
<1>3. urg.is_active /\ Depth > 0 /\ pc' \in {"rd_status", "rd_done"}
  <2>1. urg.is_active /\ stack # <<>>
    BY <1>2, Before DEF Outside, Inside, InReceive
  <2> QED BY <1>0, <1>1, <2>1 DEF ReceiveFails, Reached
<1>4. UrgAsBefore
  BY <1>0, <1>1 DEF UrgAsBefore, ReceiveFails, UrgFields, Reached
<1>5. Depth' = Depth /\ (ByApp' <=> ByApp) /\ Tries' = Tries /\ Head(stack)' = Head(stack)
  BY <1>2, StackStays
<1>6. op \in {"stop", "sleep", "get"}
  BY <1>3 DEF Content, Tally, Stoppable
<1>7. CallInv'
  BY <1>2, <1>3, <1>4, <1>6, CallStays
<1>8. n = 0 \/ (w = "ack" /\ n = 3)
  BY <1>2 DEF Content, Tally, Reading
<1>9. Once' = Once /\ (Scanned' = Scanned) /\ (Remain' = Remain) /\ barrier' = barrier
  BY <1>2, <1>4 DEF UrgAsBefore, Once, Scanned, Remain
<1>13. /\ Depth \in Nat /\ dev.stream \in Nat /\ Scanned \in Nat /\ Remain \in Nat
       /\ ScanSize \in Nat /\ ScanSize >= 5
  BY <1>0 DEF Reached
<1>10. CASE line = NoLine
  <2>1. pc' = "rd_done" /\ ret' = "NO_RESPONSE" /\ seen' = {} /\ UNCHANGED <<tx, rx>>
    BY <1>1, <1>10, <1>3, Reads DEF ReceiveFails
  <2>2. rx = <<>> /\ tx = <<>> /\ dev.stream = 0
    BY <1>1, <1>3, <1>10, Reads
  <2>3. n = 0 /\ k = 0 /\ q = 0 /\ x = 0 /\ y = 0
    <3>1. n = 0 /\ k = 0 /\ q = 0
      <4>1. Layout(Once, barrier, <<>>, w, n, k, q) /\ n \in Nat
        BY <2>2 DEF Content
      <4> QED BY <4>1, LayoutEmpty
    <3>2. 0 = x + y
      BY <2>2 DEF Content, Sent
    <3> QED BY <3>1, <3>2
  <2>4. Layout(Once, barrier, rx, w, n, k, q)' /\ Sent(x, y)' /\ Fresh(w, n)'
    BY <1>2, <1>9, <2>1, <2>3 DEF Content, Sent, Fresh
  <2>5. Tally(w, n, k, q, x, y)'
    <3>1. Reading(w, n)'
      BY <2>1, <2>3 DEF Reading
    <3>2. Owed(w, n, q, y)'
      BY <1>2, <1>5, <2>1 DEF Content, Tally, Owed, Stops, Answered, Getting
    <3>3. Measures(w, n, k, x)'
      BY <1>2, <1>4, <1>5, <1>9, <1>13, <2>1, <2>2, <2>3
         DEF UrgAsBefore, Content, Tally, Measures, Pending, Begun, Stops, Getting
    <3>4. Stops = 0
      BY <1>2, <1>13, <2>3 DEF Content, Tally, Owed, Answered
    <3>5. Stoppable(w, n, k, x, y)'
      BY <1>2, <1>3, <1>4, <1>5, <1>9, <1>13, <2>1, <2>2, <2>3, <3>4
         DEF UrgAsBefore, Content, Tally, Stoppable, Spent, Begun, Stops, Getting, Answered
    <3>6. Counts(w, n, k, x)'
      BY <1>2, <1>4, <1>5, <1>9, <1>13, <2>1, <2>3
         DEF UrgAsBefore, Content, Tally, Counts, Begun
    <3> QED BY <3>1, <3>2, <3>3, <3>5, <3>6 DEF Tally
  <2>6. Content(w, n, k, q, x, y)'
    BY <2>4, <2>5 DEF Content
  <2>7. urg'.is_active /\ pc' \in InMeasuring
    BY <1>3, <1>4, <2>1 DEF UrgAsBefore, InMeasuring, InReceive
  <2> QED BY <1>7, <2>6, <2>7, ToMeasuring
<1>11. CASE line # NoLine
  <2>1. PICK w2 \in Unit, k2 \in 0 .. 2, q2 \in 0 .. 2 :
          /\ line \in Line /\ rx # <<>>
          /\ Fits(Once, barrier, w2, line, 1)
          /\ Layout(Once, barrier, rx', w2, Size(w2) - 1, k2, q2)
          /\ \/ w2 = "ack" /\ w = "ack" /\ n = 3 /\ k2 = k /\ q2 = q
             \/ w2 = "scan" /\ n = 0 /\ k2 = k - 1 /\ k2 >= 0 /\ q2 = q
             \/ w2 = "stop" /\ n = 0 /\ k = 0 /\ k2 = 0 /\ q2 = q - 1 /\ q2 >= 0
    <3>1. CASE n = 0
      <4>1. Layout(Once, barrier, rx, w, 0, k, q)
        BY <3>1 DEF Content
      <4>2. \/ /\ line \in Line /\ rx # <<>> /\ k >= 1
               /\ Fits(Once, barrier, "scan", line, 1)
               /\ Layout(Once, barrier, rx', "scan", ScanSize - 1, k - 1, q)
            \/ /\ line \in Line /\ rx # <<>> /\ k = 0 /\ q >= 1
               /\ Fits(Once, barrier, "stop", line, 1)
               /\ Layout(Once, barrier, rx', "stop", 2, 0, q - 1)
        BY <1>1, <1>3, <1>11, <4>1, ReadsFirst
      <4>3. /\ Size("scan") - 1 = ScanSize - 1 /\ Size("stop") - 1 = 2
            /\ "scan" \in Unit /\ "stop" \in Unit /\ 0 \in 0 .. 2
            /\ (k >= 1 => k - 1 \in 0 .. 2 /\ k - 1 >= 0)
            /\ (q >= 1 => q - 1 \in 0 .. 2 /\ q - 1 >= 0)
        BY <1>13, Sizes DEF Unit
      <4>4. CASE k >= 1
        <5>1. /\ line \in Line /\ rx # <<>>
              /\ Fits(Once, barrier, "scan", line, 1)
              /\ Layout(Once, barrier, rx', "scan", Size("scan") - 1, k - 1, q)
          BY <4>2, <4>3, <4>4
        <5> QED BY <3>1, <4>3, <4>4, <5>1
      <4>5. CASE ~(k >= 1)
        <5>1. /\ line \in Line /\ rx # <<>> /\ k = 0 /\ q >= 1
              /\ Fits(Once, barrier, "stop", line, 1)
              /\ Layout(Once, barrier, rx', "stop", Size("stop") - 1, 0, q - 1)
          BY <4>2, <4>3, <4>5
        <5> QED BY <3>1, <4>3, <5>1
      <4> QED BY <4>4, <4>5
    <3>2. CASE w = "ack" /\ n = 3
      <4>1. /\ Layout(Once, barrier, rx, w, n, k, q) /\ n >= 1 /\ n \in Nat
        BY <3>2 DEF Content
      <4>2. /\ line \in Line
            /\ Fits(Once, barrier, w, line, Size(w) - n + 1)
            /\ Layout(Once, barrier, rx', w, n - 1, k, q)
        BY <1>1, <1>3, <4>1, ReadsOn
      <4>3. rx # <<>>
        BY <1>1, <1>3, <1>11, Reads
      <4>4. Size(w) - n + 1 = 1 /\ n - 1 = Size("ack") - 1 /\ "ack" \in Unit
        BY <3>2, Sizes DEF Unit
      <4> QED BY <3>2, <4>2, <4>3, <4>4
    <3> QED BY <1>8, <3>1, <3>2
  <2>2. PICK m \in 0 .. ScanSize : m = Size(w2) - 1 /\ m >= 2
    BY Sizes DEF Unit
  <2>3. /\ w2 = "scan" => m = ScanSize - 1
        /\ w2 # "scan" => m = 2
    BY <2>2 DEF Size
  <2>4. /\ line.k = "echo" /\ line.ok
        /\ w2 = "stop" => line.c = "QT"
        /\ w2 # "stop" => line.call > barrier /\ line.c \in {"GD", "MD"}
        /\ w2 = "ack" => ~Once
    BY <2>1 DEF Fits, KindAt
  <2>5. /\ pc' = "rd_status" /\ seen' = {line} /\ ret' = ret /\ UNCHANGED <<tx, urg>>
        /\ type' = IF w2 = "stop" THEN "stop" ELSE "distance"
    BY <1>1, <2>4 DEF Length, EchoType
  <2>6. x = 0
    BY <2>1 DEF Content, Sent
  <2>7. Layout(Once, barrier, rx, w2, m, k2, q2)'
    BY <1>9, <2>1, <2>2
  <2>8. Sent(x, y)'
    BY <1>2, <2>5, <2>6 DEF Content, Sent
  <2>9. Fresh(w2, m)'
    BY <1>2, <2>2, <2>4, <2>5 DEF Fresh
  <2>10. Tally(w2, m, k2, q2, x, y)'
    <3>1. Reading(w2, m)'
      BY <2>3, <2>5 DEF Reading, Unit
    <3>0. Stops = y + q /\ Stops' = Stops /\ ~Answered /\ ~Answered'
      <4>1. ~Answered /\ ~Answered'
        BY <1>2, <2>5 DEF Answered
      <4>2. Stops' = Stops
        BY ONLY <1>5 DEF Stops
      <4>3. Owed(w, n, q, y) /\ ~(w = "stop" /\ n > 0)
        BY <2>1 DEF Content, Tally
      <4>4. Stops = y + q + 0 + 0
        BY ONLY <4>1, <4>3 DEF Owed
      <4> QED BY <4>1, <4>2, <4>4
    <3>2. Owed(w2, m, q2, y)'
      <4>1. q = q2 + (IF w2 = "stop" /\ m > 0 THEN 1 ELSE 0)
        BY <2>1, <2>2
      <4> QED BY ONLY <1>13, <3>0, <4>1, q \in 0 .. 2, q2 \in 0 .. 2, y \in 0 .. 2 DEF Owed
    <3>3. Measures(w2, m, k2, x)'
      BY <1>2, <1>5, <1>9, <1>13, <2>1, <2>2, <2>4, <2>5, <2>6
         DEF Content, Tally, Measures, Pending, Begun, Stops, Getting
    <3>4. Stoppable(w2, m, k2, x, y)'
      BY <1>2, <1>5, <1>9, <1>13, <2>1, <2>2, <2>4, <2>5, <2>6, <3>0
         DEF Content, Tally, Stoppable, Spent, Begun, Getting, Counts
    <3>5. Counts(w2, m, k2, x)'
      BY <1>2, <1>5, <1>9, <1>13, <2>1, <2>2, <2>5, <2>6 DEF Content, Tally, Counts, Begun
    <3> QED BY <3>1, <3>2, <3>3, <3>4, <3>5 DEF Tally
  <2>11. Content(w2, m, k2, q2, x, y)'
    BY <2>7, <2>8, <2>9, <2>10 DEF Content
  <2>12. urg'.is_active /\ pc' \in InMeasuring
    BY <1>3, <2>5 DEF InMeasuring, InReceive
  <2> QED BY <1>7, <2>11, <2>12, ToMeasuring
<1> QED BY <1>10, <1>11

\* Between the lines of an answer only the thread moves.
OnTheWay == {"rd_status", "rd_stop_end", "rd_ack_end", "rd_ts", "rd_data"}

\* One more line of an answer is read, and what it belongs to stays the same.
LEMMA TallyMoves ==
  ASSUME Reached, UNCHANGED <<dev, op, stack, barrier>>, UrgAsBefore,
         pc \in OnTheWay, pc' \in OnTheWay,
         NEW w \in Unit, NEW n \in 0 .. ScanSize, NEW k \in 0 .. 2, NEW q \in 0 .. 2,
         NEW x \in 0 .. 1, NEW y \in 0 .. 2, Tally(w, n, k, q, x, y),
         NEW m \in 0 .. ScanSize, n >= 1, m >= 1, Reading(w, m)'
  PROVE  Tally(w, m, k, q, x, y)'
<1>1. Depth' = Depth /\ (ByApp' <=> ByApp) /\ Tries' = Tries /\ Head(stack)' = Head(stack)
  BY StackStays
<1>2. (Once' <=> Once) /\ (Scanned' = Scanned) /\ (Remain' = Remain)
  BY DEF UrgAsBefore, Once, Scanned, Remain
<1>3. n > 0 /\ m > 0 /\ ~(n = 0) /\ ~(m = 0)
  OBVIOUS
<1>4. /\ pc \notin {"idle", "entry", "rd_echo", "rd_count", "rd_done", "stop_done"}
      /\ pc' \notin {"idle", "entry", "rd_echo", "rd_count", "rd_done", "stop_done"}
  BY DEF OnTheWay
<1>5. Stops' = Stops /\ (Getting' <=> Getting) /\ ~Answered /\ ~Answered'
  BY <1>1, <1>4 DEF Stops, Getting, Answered
<1>6. Begun(w, m)' = Begun(w, n) /\ (Pending(w, m, k, x)' <=> Pending(w, n, k, x))
  BY <1>3, <1>4 DEF Begun, Pending
<1>7. Owed(w, m, q, y)'
  BY <1>3, <1>5 DEF Tally, Owed
<1>8. Measures(w, m, k, x)'
  BY <1>1, <1>2, <1>4, <1>5, <1>6 DEF Tally, Measures, UrgAsBefore
<1>9. Spent(w, m, k, x)' = Spent(w, n, k, x)
  BY <1>2, <1>4, <1>6 DEF Spent
<1>10. Stoppable(w, m, k, x, y)'
  BY <1>1, <1>2, <1>3, <1>4, <1>5, <1>9 DEF Tally, Stoppable
<1>11. Counts(w, m, k, x)'
  BY <1>1, <1>2, <1>6 DEF Tally, Counts, UrgAsBefore
<1> QED BY <1>7, <1>8, <1>10, <1>11 DEF Tally

\* What every step of receive_data but the first has in common.
LEMMA MidAnswer ==
  ASSUME TypeInv, CallInv, pc \in OnTheWay,
         NEW w \in Unit, NEW n \in 0 .. ScanSize, NEW k \in 0 .. 2, NEW q \in 0 .. 2,
         NEW x \in 0 .. 1, NEW y \in 0 .. 2, Content(w, n, k, q, x, y)
  PROVE  /\ urg.is_active /\ Depth > 0 /\ op \in {"stop", "sleep", "get"}
         /\ n >= 1 /\ x = 0
         /\ pc # "rd_data" => Size(w) - n + 1 = IF pc = "rd_status" THEN 2 ELSE 3
<1>1. /\ Depth \in Nat /\ (Depth = 0 <=> stack = <<>>)
      /\ ScanSize \in Nat /\ ScanSize = DataLines + 4 /\ DataLines \in Nat /\ DataLines >= 1
  BY ReachedIs DEF Reached
<1>2. urg.is_active /\ stack # <<>>
  BY Before DEF Outside, Inside, InReceive, OnTheWay
<1>3. Depth > 0
  BY <1>1, <1>2
<1>4. op \in {"stop", "sleep", "get"}
  BY <1>3 DEF Content, Tally, Stoppable
<1>5. x = 0
  BY DEF Content, Sent, OnTheWay
<1>6. Reading(w, n)
  BY DEF Content, Tally
<1>7. Size("scan") = ScanSize /\ Size("ack") = 3 /\ Size("stop") = 3
  BY Sizes
<1>8. n >= 1 /\ (pc # "rd_data" => Size(w) - n + 1 = IF pc = "rd_status" THEN 2 ELSE 3)
  BY <1>1, <1>6, <1>7 DEF Reading, OnTheWay
<1> QED BY <1>2, <1>3, <1>4, <1>5, <1>8

\* The status: of an acknowledgement, a scan or a stop.
LEMMA StatusTimely ==
  ASSUME Timely, TypeInv, CallInv, ReceiveStatus,
         NEW w \in Unit, NEW n \in 0 .. ScanSize, NEW k \in 0 .. 2, NEW q \in 0 .. 2,
         NEW x \in 0 .. 1, NEW y \in 0 .. 2, Content(w, n, k, q, x, y)
  PROVE  CallInv' /\ PhaseInv'
<1>0. Reached
  BY ReachedIs
<1>1. PICK line \in Arrivals :
        /\ Consume(line)
        /\ \/ /\ Length(line) # 3
              /\ DrainWithQT("INVALID_RESPONSE", "rd_done") /\ UNCHANGED seen
           \/ /\ Length(line) = 3 /\ ~line.ok
              /\ DrainWithQT("CHECKSUM_ERROR", "rd_done") /\ UNCHANGED seen
           \/ /\ Length(line) = 3 /\ line.ok /\ type = "stop"
              /\ ReceiveGoesOn("rd_stop_end", line)
           \/ /\ Length(line) = 3 /\ line.ok /\ type # "stop"
              /\ urg.specified_scan_times # 1 /\ line.s = "00"
              /\ ReceiveGoesOn("rd_ack_end", line)
           \/ /\ Length(line) = 3 /\ line.ok /\ type # "stop"
              /\ line.s = DataStatus
              /\ ReceiveGoesOn("rd_ts", line)
           \/ /\ Length(line) = 3 /\ line.ok /\ type # "stop"
              /\ line.s \notin {"00", DataStatus}
              /\ DrainWithQT("INVALID_RESPONSE", "rd_done") /\ UNCHANGED seen
  BY DEF ReceiveStatus
<1>2. /\ pc = "rd_status"
      /\ UNCHANGED <<dev, unit, noise, link, op, good, calls, stack, type, steps, barrier, scans>>
  BY DEF ReceiveStatus, localVars, historyVars
<1>3. /\ urg.is_active /\ Depth > 0 /\ op \in {"stop", "sleep", "get"}
      /\ n >= 1 /\ n \in Nat /\ x = 0 /\ Size(w) - n + 1 = 2
  BY <1>2, MidAnswer DEF OnTheWay
<1>4. /\ line \in Line /\ Fits(Once, barrier, w, line, 2)
      /\ Layout(Once, barrier, rx', w, n - 1, k, q)
  <2>1. Layout(Once, barrier, rx, w, n, k, q)
    BY DEF Content
  <2> QED BY <1>1, <1>3, <2>1, ReadsOn
<1>5. /\ line.k = "stat" /\ line.ok /\ Length(line) = 3
      /\ w # "stop" => line.call > barrier
      /\ w = "ack" => ~Once /\ line.s = "00"
      /\ w = "scan" => line.s = DataStatus
  BY <1>4 DEF Fits, KindAt, Length, DataStatus, Once, Scanned
<1>6. /\ w = "stop" => type = "stop" /\ n = 2
      /\ w = "ack" => type = "distance" /\ n = 2
      /\ w = "scan" => type = "distance" /\ n = ScanSize - 1
  BY <1>2 DEF Content, Tally, Reading
<1>7. /\ UNCHANGED <<tx, urg, ret>> /\ seen' = seen \cup {line}
      /\ pc' = IF w = "stop" THEN "rd_stop_end" ELSE IF w = "ack" THEN "rd_ack_end" ELSE "rd_ts"
  <2>1. CASE w = "stop"
    BY <1>1, <1>5, <1>6, <2>1 DEF ReceiveGoesOn
  <2>2. CASE w = "ack"
    <3>1. DataStatus = "99" /\ urg.specified_scan_times # 1
      BY <1>5, <2>2 DEF DataStatus, Once, Scanned
    <3> QED BY <1>1, <1>5, <1>6, <2>2, <3>1 DEF ReceiveGoesOn
  <2>3. CASE w = "scan"
    <3>1. urg.specified_scan_times # 1 => line.s = "99"
      BY <1>5, <2>3 DEF DataStatus
    <3> QED BY <1>1, <1>5, <1>6, <2>3, <3>1 DEF ReceiveGoesOn
  <2> QED BY <2>1, <2>2, <2>3 DEF Unit
<1>8. UrgAsBefore
  BY <1>7 DEF UrgAsBefore
<1>9. CallInv'
  BY <1>2, <1>3, <1>7, <1>8, CallStays
<1>10. PICK m \in 0 .. ScanSize : m = n - 1
  BY <1>0, <1>3 DEF Reached
<1>11. m >= 1 /\ Reading(w, m)'
  <2>1. w = "scan" => m = ScanSize - 2 /\ ScanSize \in Nat /\ ScanSize >= 5
    BY <1>0, <1>6, <1>10 DEF Reached
  <2>2. w # "scan" => m = 1
    BY <1>6, <1>10 DEF Unit
  <2> QED BY <1>2, <1>6, <1>7, <2>1, <2>2 DEF Reading, Unit
<1>12. Tally(w, m, k, q, x, y)'
  <2>1. pc \in OnTheWay /\ pc' \in OnTheWay
    BY <1>2, <1>7 DEF OnTheWay
  <2>2. Tally(w, n, k, q, x, y) /\ UNCHANGED <<dev, op, stack, barrier>>
    BY <1>2 DEF Content
  <2> QED BY <1>0, <1>3, <1>8, <1>11, <2>1, <2>2, TallyMoves
<1>13. Layout(Once, barrier, rx, w, m, k, q)'
  BY <1>2, <1>4, <1>7, <1>10 DEF Once, Scanned
<1>14. Sent(x, y)'
  BY <1>3, <1>7 DEF Content, Sent
<1>15. Fresh(w, m)'
  <2>1. w # "stop" => \A l \in seen : l.call > barrier
    BY <1>2 DEF Content, Fresh
  <2> QED BY <1>2, <1>5, <1>7, <1>11, <2>1 DEF Fresh
<1>16. urg'.is_active /\ pc' \in InMeasuring
  BY <1>3, <1>7 DEF InMeasuring, InReceive
<1> QED BY <1>9, <1>12, <1>13, <1>14, <1>15, <1>16, ToMeasuring DEF Content

\* The empty line of the answer to QT.
LEMMA StopEndTimely ==
  ASSUME Timely, TypeInv, CallInv, ReceiveStopEnd,
         NEW w \in Unit, NEW n \in 0 .. ScanSize, NEW k \in 0 .. 2, NEW q \in 0 .. 2,
         NEW x \in 0 .. 1, NEW y \in 0 .. 2, Content(w, n, k, q, x, y)
  PROVE  CallInv' /\ PhaseInv'
<1>0. Reached
  BY ReachedIs
<1>1. PICK line \in Arrivals :
        /\ Consume(line)
        /\ IF Length(line) = 0
           THEN /\ ret' = "OK" /\ pc' = "rd_done" /\ UNCHANGED <<tx, urg, resume>>
           ELSE ReceiveFails("INVALID_RESPONSE")
  BY DEF ReceiveStopEnd
<1>2. /\ pc = "rd_stop_end"
      /\ UNCHANGED <<dev, unit, noise, link, op, good, seen, calls, stack, type, steps, barrier, scans>>
  BY DEF ReceiveStopEnd, localVars, historyVars
<1>3. /\ urg.is_active /\ Depth > 0 /\ op \in {"stop", "sleep", "get"}
      /\ n >= 1 /\ n \in Nat /\ x = 0 /\ Size(w) - n + 1 = 3
  BY <1>2, MidAnswer DEF OnTheWay
<1>4. w = "stop" /\ n = 1
  BY <1>2 DEF Content, Tally, Reading
<1>5. line.k = "lf" /\ Layout(Once, barrier, rx', w, 0, k, q)
  <2>1. Layout(Once, barrier, rx, w, n, k, q)
    BY DEF Content
  <2>2. Fits(Once, barrier, w, line, 3) /\ Layout(Once, barrier, rx', w, n - 1, k, q)
    BY <1>1, <1>3, <2>1, ReadsOn
  <2>3. n - 1 = 0 /\ KindAt(w, 3) = "lf"
    BY <1>4 DEF KindAt, Size
  <2> QED BY <2>2, <2>3 DEF Fits
<1>6. ret' = "OK" /\ pc' = "rd_done" /\ UNCHANGED <<tx, urg>>
  BY <1>1, <1>5 DEF Length
<1>7. UrgAsBefore
  BY <1>6 DEF UrgAsBefore
<1>8. CallInv'
  BY <1>2, <1>3, <1>6, <1>7, CallStays
<1>9. Depth' = Depth /\ (ByApp' <=> ByApp) /\ Tries' = Tries /\ Head(stack)' = Head(stack)
  BY <1>2, StackStays
<1>10. (Once' <=> Once) /\ (Scanned' = Scanned) /\ (Remain' = Remain) /\ barrier' = barrier
  BY <1>2, <1>7 DEF UrgAsBefore, Once, Scanned, Remain
<1>11. /\ Depth \in Nat /\ dev.stream \in Nat /\ Scanned \in Nat /\ Remain \in Nat
  BY <1>0 DEF Reached
<1>12. Layout(Once, barrier, rx, w, 0, k, q)'
  BY <1>2, <1>5, <1>6, <1>10 DEF Once, Scanned
<1>13. Sent(x, y)' /\ Fresh(w, 0)'
  BY <1>3, <1>6 DEF Content, Sent, Fresh
<1>14. /\ Stops' = Stops /\ (Getting' <=> Getting) /\ ~Answered
       /\ Stops = y + q + 1 /\ k = 0
  <2>1. Stops' = Stops /\ (Getting' <=> Getting)
    BY ONLY <1>9 DEF Stops, Getting
  <2>2. ~Answered
    BY <1>2 DEF Answered
  <2>3. k = 0
    BY <1>4 DEF Content, Tally, Stoppable
  <2>4. Owed(w, n, q, y)
    BY DEF Content, Tally
  <2>5. Stops = y + q + 1 + 0
    BY ONLY <1>4, <2>2, <2>4 DEF Owed
  <2> QED BY <2>1, <2>2, <2>3, <2>5
<1>15. Stops >= 1 /\ ~Getting /\ Answered'
  <2>1. Stops >= 1
    BY <1>14
  <2>2. ~Getting
    BY <1>11, <2>1 DEF Stops, Getting
  <2> QED BY <1>6, <1>14, <2>1, <2>2 DEF Answered
<1>16. Begun(w, n) = 0 /\ Begun(w, 0)' = 0
  BY <1>2, <1>4, <1>6 DEF Begun
<1>17. Pending(w, 0, k, x)' <=> Pending(w, n, k, x)
  BY <1>2, <1>4, <1>6 DEF Pending
<1>18. Tally(w, 0, k, q, x, y)'
  <2>1. Reading(w, 0)'
    BY <1>6 DEF Reading
  <2>2. Owed(w, 0, q, y)'
    BY <1>14, <1>15 DEF Owed
  <2>3. Measures(w, 0, k, x)'
    BY <1>2, <1>6, <1>7, <1>9, <1>10, <1>14, <1>15, <1>16, <1>17
       DEF UrgAsBefore, Content, Tally, Measures
  <2>5. Spent(w, 0, k, x)' = 0 /\ Spent(w, n, k, x) = 0
    BY <1>2, <1>3, <1>6, <1>14, <1>16 DEF Spent
  <2>6. Stoppable(w, 0, k, x, y)'
    BY <1>2, <1>6, <1>7, <1>9, <1>10, <1>14, <1>15, <2>5 DEF Content, Tally, Stoppable
  <2>7. Counts(w, 0, k, x)'
    BY <1>2, <1>6, <1>7, <1>9, <1>10, <1>14, <1>16
       DEF UrgAsBefore, Content, Tally, Counts
  <2> QED BY <2>1, <2>2, <2>3, <2>6, <2>7 DEF Tally
<1>19. Content(w, 0, k, q, x, y)'
  BY <1>12, <1>13, <1>18 DEF Content
<1>20. urg'.is_active /\ pc' \in InMeasuring /\ 0 \in 0 .. ScanSize
  BY <1>0, <1>3, <1>6 DEF InMeasuring, InReceive, Reached
<1> QED BY <1>8, <1>19, <1>20, ToMeasuring

\* The empty line of an acknowledgement.
LEMMA AckEndTimely ==
  ASSUME Timely, TypeInv, CallInv, ReceiveAckEnd,
         NEW w \in Unit, NEW n \in 0 .. ScanSize, NEW k \in 0 .. 2, NEW q \in 0 .. 2,
         NEW x \in 0 .. 1, NEW y \in 0 .. 2, Content(w, n, k, q, x, y)
  PROVE  CallInv' /\ PhaseInv'
<1>0. Reached
  BY ReachedIs
<1>1. PICK line \in Arrivals :
        /\ Consume(line)
        /\ IF Length(line) = 0
           THEN /\ pc' = "rd_echo" /\ seen' = {} /\ UNCHANGED <<tx, urg, ret, resume>>
           ELSE DrainWithQT("INVALID_RESPONSE", "rd_done") /\ UNCHANGED seen
  BY DEF ReceiveAckEnd
<1>2. /\ pc = "rd_ack_end"
      /\ UNCHANGED <<dev, unit, noise, link, op, good, calls, stack, type, steps, barrier, scans>>
  BY DEF ReceiveAckEnd, localVars, historyVars
<1>3. /\ urg.is_active /\ Depth > 0 /\ op \in {"stop", "sleep", "get"}
      /\ n >= 1 /\ n \in Nat /\ x = 0 /\ Size(w) - n + 1 = 3
  BY <1>2, MidAnswer DEF OnTheWay
<1>4. w = "ack" /\ n = 1
  BY <1>2 DEF Content, Tally, Reading
<1>5. line.k = "lf" /\ Layout(Once, barrier, rx', w, 0, k, q)
  <2>1. Layout(Once, barrier, rx, w, n, k, q)
    BY DEF Content
  <2>2. Fits(Once, barrier, w, line, 3) /\ Layout(Once, barrier, rx', w, n - 1, k, q)
    BY <1>1, <1>3, <2>1, ReadsOn
  <2>3. n - 1 = 0 /\ KindAt(w, 3) = "lf"
    BY <1>4 DEF KindAt, Size
  <2> QED BY <2>2, <2>3 DEF Fits
<1>6. pc' = "rd_echo" /\ seen' = {} /\ UNCHANGED <<tx, urg, ret>>
  BY <1>1, <1>5 DEF Length
<1>7. UrgAsBefore
  BY <1>6 DEF UrgAsBefore
<1>8. CallInv'
  BY <1>2, <1>3, <1>6, <1>7, CallStays
<1>9. Depth' = Depth /\ (ByApp' <=> ByApp) /\ Tries' = Tries /\ Head(stack)' = Head(stack)
  BY <1>2, StackStays
<1>10. (Once' <=> Once) /\ (Scanned' = Scanned) /\ (Remain' = Remain) /\ barrier' = barrier
  BY <1>2, <1>7 DEF UrgAsBefore, Once, Scanned, Remain
<1>11. /\ Depth \in Nat /\ dev.stream \in Nat /\ Scanned \in Nat /\ Remain \in Nat
  BY <1>0 DEF Reached
<1>12. Layout(Once, barrier, rx, w, 0, k, q)'
  BY <1>2, <1>5, <1>6, <1>10 DEF Once, Scanned
<1>13. Sent(x, y)' /\ Fresh(w, 0)'
  BY <1>3, <1>6 DEF Content, Sent, Fresh
<1>14. Stops' = Stops /\ (Getting' <=> Getting) /\ ~Answered /\ ~Answered'
  <2>1. Stops' = Stops /\ (Getting' <=> Getting)
    BY ONLY <1>9 DEF Stops, Getting
  <2> QED BY <1>2, <1>6, <2>1 DEF Answered
<1>15. Begun(w, n) = 0 /\ Begun(w, 0)' = 0 /\ (Pending(w, 0, k, x)' => Pending(w, n, k, x))
  BY <1>2, <1>4, <1>6 DEF Begun, Pending
<1>16. Tally(w, 0, k, q, x, y)'
  <2>1. Reading(w, 0)'
    BY <1>6 DEF Reading
  <2>2. Owed(w, n, q, y)
    BY DEF Content, Tally
  <2>3. Owed(w, 0, q, y)'
    BY <1>4, <1>14, <2>2 DEF Owed
  <2>4. Measures(w, 0, k, x)'
    BY <1>2, <1>6, <1>7, <1>9, <1>10, <1>14, <1>15
       DEF UrgAsBefore, Content, Tally, Measures
  <2>5. Spent(w, 0, k, x)' = Spent(w, n, k, x)
    BY <1>2, <1>3, <1>6, <1>10, <1>15 DEF Spent
  <2>6. Stoppable(w, 0, k, x, y)'
    BY <1>2, <1>4, <1>6, <1>7, <1>9, <1>10, <1>14, <2>5 DEF Content, Tally, Stoppable
  <2>7. Counts(w, 0, k, x)'
    BY <1>2, <1>6, <1>7, <1>9, <1>10, <1>14, <1>15
       DEF UrgAsBefore, Content, Tally, Counts
  <2> QED BY <2>1, <2>3, <2>4, <2>6, <2>7 DEF Tally
<1>17. Content(w, 0, k, q, x, y)'
  BY <1>12, <1>13, <1>16 DEF Content
<1>18. urg'.is_active /\ pc' \in InMeasuring /\ 0 \in 0 .. ScanSize
  BY <1>0, <1>3, <1>6 DEF InMeasuring, InReceive, Reached
<1> QED BY <1>8, <1>17, <1>18, ToMeasuring

\* The time stamp.
LEMMA TimestampTimely ==
  ASSUME Timely, TypeInv, CallInv, ReceiveTimestamp,
         NEW w \in Unit, NEW n \in 0 .. ScanSize, NEW k \in 0 .. 2, NEW q \in 0 .. 2,
         NEW x \in 0 .. 1, NEW y \in 0 .. 2, Content(w, n, k, q, x, y)
  PROVE  CallInv' /\ PhaseInv'
<1>0. Reached
  BY ReachedIs
<1>1. PICK line \in Arrivals :
        /\ Consume(line)
        /\ seen' = IF Length(line) > 0 THEN seen \cup {line} ELSE seen
  BY DEF ReceiveTimestamp
<1>2. /\ pc = "rd_ts" /\ steps' = 0
      /\ pc' = IF type = "distance" THEN "rd_data" ELSE "rd_count"
      /\ UNCHANGED <<tx, dev, unit, noise, link, urg, op, good, calls, stack, type, barrier, scans>>
  BY DEF ReceiveTimestamp, historyVars
<1>3. /\ urg.is_active /\ Depth > 0 /\ op \in {"stop", "sleep", "get"}
      /\ n >= 1 /\ n \in Nat /\ x = 0 /\ Size(w) - n + 1 = 3
  BY <1>2, MidAnswer DEF OnTheWay
<1>4. type = "distance" /\ w = "scan" /\ n = ScanSize - 2
  BY <1>2 DEF Content, Tally, Reading
<1>5. Fits(Once, barrier, w, line, 3) /\ Layout(Once, barrier, rx', w, n - 1, k, q)
  <2>1. Layout(Once, barrier, rx, w, n, k, q)
    BY DEF Content
  <2> QED BY <1>1, <1>3, <2>1, ReadsOn
<1>6. pc' = "rd_data"
  BY <1>2, <1>4
<1>7. UrgAsBefore
  BY <1>2 DEF UrgAsBefore
<1>8. CallInv'
  BY <1>2, <1>3, <1>6, <1>7, CallStays
<1>9. PICK m \in 0 .. ScanSize : m = n - 1
  BY <1>0, <1>3 DEF Reached
<1>10. m >= 1 /\ Reading(w, m)'
  <2>1. m = DataLines + 1 /\ DataLines \in Nat /\ DataLines >= 1
    BY <1>0, <1>4, <1>9 DEF Reached
  <2>2. 0 + StepsPerLine * (m - 1) = FullScan
    BY <2>1 DEF FullScan, StepsPerLine
  <2>3. m \in 1 .. DataLines + 1 /\ m >= 1
    BY <2>1
  <2> QED BY <1>2, <1>4, <1>6, <2>2, <2>3 DEF Reading
<1>11. Tally(w, m, k, q, x, y)'
  <2>1. pc \in OnTheWay /\ pc' \in OnTheWay
    BY <1>2, <1>6 DEF OnTheWay
  <2>2. Tally(w, n, k, q, x, y) /\ UNCHANGED <<dev, op, stack, barrier>>
    BY <1>2 DEF Content
  <2> QED BY <1>0, <1>3, <1>7, <1>10, <2>1, <2>2, TallyMoves
<1>12. Layout(Once, barrier, rx, w, m, k, q)'
  BY <1>2, <1>5, <1>9 DEF Once, Scanned
<1>13. Sent(x, y)'
  BY <1>2, <1>3, <1>6 DEF Content, Sent
<1>14. Fresh(w, m)'
  <2>1. \A l \in seen : l.call > barrier
    BY <1>2, <1>4 DEF Content, Fresh
  <2>2. line.call > barrier
    BY <1>4, <1>5 DEF Fits
  <2> QED BY <1>1, <1>2, <2>1, <2>2 DEF Fresh
<1>15. urg'.is_active /\ pc' \in InMeasuring
  BY <1>2, <1>3, <1>6 DEF InMeasuring, InReceive
<1> QED BY <1>8, <1>11, <1>12, <1>13, <1>14, <1>15, ToMeasuring DEF Content

\* A line of range data, or the empty line behind the last.
LEMMA DataTimely ==
  ASSUME Timely, TypeInv, CallInv, ReceiveLengthData,
         NEW w \in Unit, NEW n \in 0 .. ScanSize, NEW k \in 0 .. 2, NEW q \in 0 .. 2,
         NEW x \in 0 .. 1, NEW y \in 0 .. 2, Content(w, n, k, q, x, y)
  PROVE  CallInv' /\ PhaseInv'
<1>0. Reached
  BY ReachedIs
<1>1. PICK line \in Arrivals :
       /\ Consume(line)
       /\ \/ /\ Length(line) > 0 /\ ~ChecksumFits(line)
             /\ DrainWithQT("CHECKSUM_ERROR", "rd_count")
             /\ UNCHANGED <<seen, steps>>
          \/ /\ Length(line) > 0 /\ ChecksumFits(line)
             /\ TooManySteps(line)
             /\ DrainWithQT("RECEIVE_ERROR", "rd_count")
             /\ UNCHANGED <<seen, steps>>
          \/ /\ Length(line) > 0 /\ ChecksumFits(line)
             /\ ~TooManySteps(line)
             /\ steps' = steps + StepsIn(line)
             /\ ReceiveGoesOn("rd_data", line)
          \/ /\ Length(line) <= 0
             /\ ret' = IF steps > 0 THEN "DATA" ELSE "OK"
             /\ pc' = "rd_count"
             /\ UNCHANGED <<tx, urg, resume, seen, steps>>
  BY DEF ReceiveLengthData
<1>2. /\ pc = "rd_data"
      /\ UNCHANGED <<dev, unit, noise, link, op, good, calls, stack, type, barrier, scans>>
  BY DEF ReceiveLengthData, historyVars
<1>3. /\ urg.is_active /\ Depth > 0 /\ op \in {"stop", "sleep", "get"}
      /\ n >= 1 /\ n \in Nat /\ x = 0
  BY <1>2, MidAnswer DEF OnTheWay
<1>4. /\ w = "scan" /\ n \in 1 .. DataLines + 1
      /\ steps + StepsPerLine * (n - 1) = FullScan
      /\ DataLines \in Nat /\ DataLines >= 1 /\ ScanSize = DataLines + 4 /\ steps \in Nat
  BY <1>0, <1>2 DEF Content, Tally, Reading, Reached
<1>5. /\ line \in Line /\ Fits(Once, barrier, w, line, ScanSize - n + 1)
      /\ Layout(Once, barrier, rx', w, n - 1, k, q)
  <2>1. Layout(Once, barrier, rx, w, n, k, q)
    BY DEF Content
  <2>2. Size(w) = ScanSize
    BY <1>4, Sizes
  <2> QED BY <1>1, <1>3, <2>1, <2>2, ReadsOn
<1>6. line.k = (IF n = 1 THEN "lf" ELSE "data") /\ line.ok /\ line.call > barrier
  <2>1. /\ n = 1 => ScanSize - n + 1 = ScanSize
        /\ n # 1 => ScanSize - n + 1 # ScanSize
        /\ ScanSize - n + 1 # 1 /\ ScanSize - n + 1 # 2 /\ ScanSize - n + 1 # 3
    BY <1>4
  <2>2. Size(w) = ScanSize
    BY <1>4, Sizes
  <2> QED BY <1>4, <1>5, <2>1, <2>2 DEF Fits, KindAt
<1>7. \A l \in seen : l.call > barrier
  BY <1>2, <1>4 DEF Content, Fresh
<1>8. PICK m \in 0 .. ScanSize : m = n - 1
  BY <1>0, <1>3 DEF Reached
<1>9. CASE n # 1
  <2>1. ~TooManySteps(line) /\ StepsIn(line) = StepsPerLine
    <3>1. StepsIn(line) = StepsPerLine
      BY <1>6, <1>9 DEF StepsIn
    <3>2. n - 1 >= 1 /\ n - 1 \in Nat
      BY <1>3, <1>9
    <3>3. steps + StepsPerLine <= FullScan
      BY <1>4, <3>2 DEF StepsPerLine, FullScan
    <3>4. steps + StepsPerLine \in Nat /\ FullScan \in Nat
      BY <1>4 DEF StepsPerLine, FullScan
    <3>5. StepsAsked \in Nat /\ FullScan <= StepsAsked
      BY UrgAssumption DEF UrgAssumption
    <3>6. steps + StepsPerLine <= StepsAsked
      BY ONLY <3>3, <3>4, <3>5
    <3> QED BY <3>1, <3>4, <3>5, <3>6 DEF TooManySteps
  <2>2. Length(line) > 0 /\ ChecksumFits(line)
    BY <1>6, <1>9 DEF Length, ChecksumFits
  <2>3. /\ steps' = steps + StepsPerLine /\ pc' = "rd_data" /\ seen' = seen \cup {line}
        /\ UNCHANGED <<tx, urg, ret>>
    <3>1. ~(Length(line) <= 0)
      BY <1>6, <1>9 DEF Length
    <3> QED BY <1>1, <2>1, <2>2, <3>1 DEF ReceiveGoesOn
  <2>4. UrgAsBefore
    BY <2>3 DEF UrgAsBefore
  <2>5. CallInv'
    BY <1>2, <1>3, <2>3, <2>4, CallStays
  <2>6. m >= 1 /\ Reading(w, m)'
    <3>1. m \in 1 .. DataLines + 1 /\ m >= 1
      BY <1>3, <1>4, <1>8, <1>9
    <3>2. (steps + StepsPerLine) + StepsPerLine * (m - 1) = FullScan
      BY <1>3, <1>4, <1>8 DEF StepsPerLine, FullScan
    <3> QED BY <1>4, <2>3, <3>1, <3>2 DEF Reading
  <2>7. Tally(w, m, k, q, x, y)'
    <3>1. pc \in OnTheWay /\ pc' \in OnTheWay
      BY <1>2, <2>3 DEF OnTheWay
    <3>2. Tally(w, n, k, q, x, y) /\ UNCHANGED <<dev, op, stack, barrier>>
      BY <1>2 DEF Content
    <3> QED BY <1>0, <1>3, <2>4, <2>6, <3>1, <3>2, TallyMoves
  <2>8. Layout(Once, barrier, rx, w, m, k, q)'
    BY <1>2, <1>5, <1>8, <2>3 DEF Once, Scanned
  <2>9. Sent(x, y)'
    BY <1>2, <1>3, <2>3 DEF Content, Sent
  <2>10. Fresh(w, m)'
    BY <1>2, <1>6, <1>7, <2>3 DEF Fresh
  <2>11. urg'.is_active /\ pc' \in InMeasuring
    BY <1>3, <2>3 DEF InMeasuring, InReceive
  <2> QED BY <2>5, <2>7, <2>8, <2>9, <2>10, <2>11, ToMeasuring DEF Content
<1>10. CASE n = 1
  <2>1. steps > 0
    BY <1>4, <1>10 DEF StepsPerLine, FullScan
  <2>2. /\ ret' = "DATA" /\ pc' = "rd_count" /\ UNCHANGED <<tx, urg, resume, seen, steps>>
    <3>1. Length(line) = 0
      BY <1>6, <1>10 DEF Length
    <3> QED BY <1>1, <2>1, <3>1
  <2>3. UrgAsBefore
    BY <2>2 DEF UrgAsBefore
  <2>4. CallInv'
    BY <1>2, <1>3, <2>2, <2>3, CallStays
  <2>5. Depth' = Depth /\ (ByApp' <=> ByApp) /\ Tries' = Tries /\ Head(stack)' = Head(stack)
    BY <1>2, StackStays
  <2>6. (Once' <=> Once) /\ (Scanned' = Scanned) /\ (Remain' = Remain) /\ barrier' = barrier
    BY <1>2, <2>3 DEF UrgAsBefore, Once, Scanned, Remain
  <2>7. /\ Depth \in Nat /\ dev.stream \in Nat /\ Scanned \in Nat /\ Remain \in Nat
    BY <1>0 DEF Reached
  <2>8. Layout(Once, barrier, rx, w, 0, k, q)'
    BY <1>2, <1>5, <1>10, <2>2, <2>6 DEF Once, Scanned
  <2>9. Sent(x, y)' /\ Fresh(w, 0)'
    BY <1>2, <1>3, <1>7, <2>2 DEF Content, Sent, Fresh
  <2>10. Stops' = Stops /\ (Getting' <=> Getting) /\ ~Answered /\ ~Answered'
    <3>1. Stops' = Stops /\ (Getting' <=> Getting)
      BY ONLY <2>5 DEF Stops, Getting
    <3> QED BY <1>2, <2>2, <3>1 DEF Answered
  <2>11. Begun(w, n) = 1 /\ Begun(w, 0)' = 1 /\ (Pending(w, 0, k, x)' <=> Pending(w, n, k, x))
    BY <1>2, <1>4, <1>10, <2>2 DEF Begun, Pending
  <2>12. Tally(w, 0, k, q, x, y)'
    <3>1. Reading(w, 0)'
      BY <2>2 DEF Reading
    <3>2. Owed(w, n, q, y)
      BY DEF Content, Tally
    <3>3. Owed(w, 0, q, y)'
      BY <1>4, <2>10, <3>2 DEF Owed
    <3>4. Measures(w, 0, k, x)'
      BY <1>2, <2>2, <2>3, <2>5, <2>6, <2>10, <2>11
         DEF UrgAsBefore, Content, Tally, Measures
    <3>5. Spent(w, 0, k, x)' = Spent(w, n, k, x)
      BY <1>2, <1>3, <2>2, <2>6, <2>11 DEF Spent
    <3>6. Stoppable(w, 0, k, x, y)'
      BY <1>2, <1>4, <2>2, <2>3, <2>5, <2>6, <2>10, <3>5 DEF Content, Tally, Stoppable
    <3>7. Counts(w, 0, k, x)'
      BY <1>2, <2>2, <2>3, <2>5, <2>6, <2>10, <2>11
         DEF UrgAsBefore, Content, Tally, Counts
    <3> QED BY <3>1, <3>3, <3>4, <3>6, <3>7 DEF Tally
  <2>13. Content(w, 0, k, q, x, y)'
    BY <2>8, <2>9, <2>12 DEF Content
  <2>14. urg'.is_active /\ pc' \in InMeasuring /\ 0 \in 0 .. ScanSize
    BY <1>0, <1>3, <2>2 DEF InMeasuring, InReceive, Reached
  <2> QED BY <2>4, <2>13, <2>14, ToMeasuring
<1> QED BY <1>9, <1>10

-----------------------------------------------------------------------------
(***************************************************************************)
(* The end of receive_data and urg_stop_measurement.                       *)
(***************************************************************************)

\* Where an answer has been read.
LEMMA AfterAnswer ==
  ASSUME TypeInv, CallInv, pc \in {"rd_count", "rd_done", "stop_done"},
         NEW w \in Unit, NEW n \in 0 .. ScanSize, NEW k \in 0 .. 2, NEW q \in 0 .. 2,
         NEW x \in 0 .. 1, NEW y \in 0 .. 2, Content(w, n, k, q, x, y)
  PROVE  /\ urg.is_active /\ link = "open" /\ CanWrite
         /\ Depth \in {1, 2} /\ stack # <<>> /\ op \in {"stop", "sleep", "get"}
         /\ n = 0 /\ x = 0 /\ ~(w = "stop" /\ n > 0)
         /\ Begun(w, n) = IF pc = "rd_count" THEN 1 ELSE 0
         /\ Depth = 2 => pc # "rd_count"
<1>0. Depth \in Nat /\ (Depth = 0 <=> stack = <<>>) /\ Remain \in Nat /\ dev.stream \in Nat /\ Scanned \in Nat
  BY ReachedIs DEF Reached
<1>1. urg.is_active /\ stack # <<>>
  BY Before DEF Outside, Inside, InReceive
<1>2. link = "open"
  BY <1>1 DEF CallInv
<1>3. Depth > 0 /\ Depth <= 2 /\ op \in {"stop", "sleep", "get"}
  BY <1>0, <1>1 DEF Content, Tally, Stoppable
<1>4. Depth \in {1, 2}
  BY <1>0, <1>3
<1>5. n = 0 /\ x = 0
  BY DEF Content, Tally, Reading, Sent
<1>6. Begun(w, n) = IF pc = "rd_count" THEN 1 ELSE 0
  BY <1>5 DEF Begun
<1>7. ASSUME Depth = 2, pc = "rd_count" PROVE FALSE
  <2>1. Scanned > 1 /\ Remain = 0
    BY <1>7 DEF Content, Tally, Stoppable
  <2>2. Counts(w, n, k, x)
    BY DEF Content, Tally
  <2>3. k + 1 + dev.stream + 0 <= 0
    BY <1>5, <1>6, <1>7, <2>1, <2>2 DEF Counts
  <2> QED BY <1>0, <2>3
<1> QED BY <1>1, <1>2, <1>3, <1>4, <1>5, <1>6, <1>7 DEF CanWrite

\* The application calls receive_data.
LEMMA GetTimely ==
  ASSUME Timely, TypeInv, CallInv, Get,
         NEW w \in Unit, NEW n \in 0 .. ScanSize, NEW k \in 0 .. 2, NEW q \in 0 .. 2,
         NEW x \in 0 .. 1, NEW y \in 0 .. 2, Content(w, n, k, q, x, y)
  PROVE  CallInv' /\ PhaseInv'
<1>0. Reached
  BY ReachedIs
<1>1. /\ pc = "entry" /\ op = "get" /\ urg.is_active
      /\ pc' = "rd_echo" /\ stack' = <<Frame("get")>>
      /\ UNCHANGED <<tx, rx, dev, unit, noise, link, urg, op, ret, good, resume, seen,
                     calls, type, steps, barrier, scans>>
  BY DEF Get, Entered, At, sensorVars, historyVars
<1>2. stack = <<>>
  BY <1>1, Before DEF Outside, Inside, InReceive
<1>3. Depth = 0 /\ Depth' = 1 /\ ~ByApp /\ ~ByApp' /\ Tries' = 0
  <2>1. Depth = 0
    BY <1>0, <1>2 DEF Reached
  <2>2. Frame("get") \in Frames /\ Frame("get").by = "get" /\ Frame("get").tries = 0
    BY Before, FrameTypes DEF Frame
  <2>3. stack' = <<Frame("get")>> \o stack
    BY <1>1, <1>2, <2>2
  <2> QED BY <2>1, <2>2, <2>3, StackPush DEF ByApp
<1>4. Stops = 0 /\ Stops' = 0 /\ ~Answered /\ ~Answered'
  BY <1>1, <1>3 DEF Stops, Answered
<1>5. UrgAsBefore
  BY <1>1 DEF UrgAsBefore
<1>6. CallInv'
  BY <1>1, <1>5, CallStays
<1>7. (Once' <=> Once) /\ (Scanned' = Scanned) /\ (Remain' = Remain)
  BY <1>5 DEF UrgAsBefore, Once, Scanned, Remain
<1>8. Layout(Once, barrier, rx, w, n, k, q)' /\ Sent(x, y)' /\ Fresh(w, n)'
  BY <1>1 DEF Content, Sent, Fresh, Once, Scanned
<1>9. Reading(w, n)' /\ Begun(w, n)' = Begun(w, n) /\ (Pending(w, n, k, x)' <=> Pending(w, n, k, x))
  BY <1>1 DEF Content, Tally, Reading, Begun, Pending
<1>10. Owed(w, n, q, y)'
  BY <1>4 DEF Content, Tally, Owed
<1>11. Measures(w, n, k, x)'
  BY <1>1, <1>3, <1>4, <1>7, <1>9 DEF Content, Tally, Measures
<1>12. Stoppable(w, n, k, x, y)'
  BY <1>1, <1>3, <1>4 DEF Content, Tally, Stoppable
<1>13. Counts(w, n, k, x)'
  BY <1>1, <1>3, <1>7, <1>9 DEF Content, Tally, Counts
<1>14. urg'.is_active /\ pc' \in InMeasuring
  BY <1>1 DEF InMeasuring, InReceive
<1> QED BY <1>6, <1>8, <1>9, <1>10, <1>11, <1>12, <1>13, <1>14, ToMeasuring DEF Content, Tally

\* A command is added behind those on their way.
LEMMA SentQT ==
  ASSUME TypeInv, UNCHANGED <<barrier, rx, dev>>, (Once' <=> Once) /\ (Scanned' = Scanned),
         NEW x \in 0 .. 1, NEW y \in 0 .. 1,
         Sent(x, y), Write("QT", 0), pc' = "rd_echo"
  PROVE  Sent(x, y + 1)'
<1>1. /\ Len(tx) \in Nat /\ Len(tx') = Len(tx) + 1
      /\ \A i \in 1 .. Len(tx) : tx'[i] = tx[i]
      /\ tx'[Len(tx')].c = "QT"
  <2>1. "QT" \in CommandName /\ 0 \in 0 .. Endless
    BY DEF CommandName, Endless
  <2> QED BY <2>1, Before, WriteAt
<1>2. Len(tx) = x + y /\ Len(tx') = x + (y + 1) /\ y + 1 \in 0 .. 2
  BY <1>1 DEF Sent
<1>3. x = 1 => tx'[1] = tx[1]
  BY <1>1, <1>2
<1>4. \A i \in x + 1 .. Len(tx') : tx'[i].c = "QT"
  <2>1. \A i \in x + 1 .. Len(tx') : i \in x + 1 .. Len(tx) \/ i = Len(tx')
    BY <1>1, <1>2
  <2>2. \A i \in x + 1 .. Len(tx) : tx'[i] = tx[i] /\ tx[i].c = "QT"
    BY <1>1 DEF Sent
  <2> QED BY <1>1, <2>1, <2>2
<1> QED BY <1>2, <1>3, <1>4 DEF Sent

\* A stop that the application calls has reads for all that is unread.
LEMMA StopTimely ==
  ASSUME Timely, TypeInv, CallInv, Stop,
         NEW w \in Unit, NEW n \in 0 .. ScanSize, NEW k \in 0 .. 2, NEW q \in 0 .. 2,
         NEW x \in 0 .. 1, NEW y \in 0 .. 2, Content(w, n, k, q, x, y)
  PROVE  CallInv' /\ PhaseInv'
<1>0. Reached
  BY ReachedIs
<1>1. /\ pc = "entry" /\ op \in {"stop", "sleep"} /\ urg.is_active
      /\ StopBegins("app") /\ scans' = scans
  BY DEF Stop, At
<1>2. CanWrite
  BY <1>1 DEF CallInv, CanWrite
<1>3. /\ Write("QT", 0) /\ pc' = "rd_echo"
      /\ stack' = <<Frame("app")>> \o stack
      /\ UNCHANGED <<rx, dev, unit, noise, link, urg, op, ret, good, resume, seen,
                     calls, type, steps, barrier, scans>>
  BY <1>1, <1>2 DEF StopBegins
<1>4. stack = <<>>
  BY <1>1, Before DEF Outside, Inside, InReceive
<1>5. Depth = 0 /\ Depth' = 1 /\ ~ByApp /\ ByApp' /\ Tries' = 0
  <2>1. Depth = 0
    BY <1>0, <1>4 DEF Reached
  <2>2. Frame("app") \in Frames /\ Frame("app").by = "app" /\ Frame("app").tries = 0
    BY Before, FrameTypes DEF Frame
  <2> QED BY <1>3, <2>1, <2>2, StackPush DEF ByApp
<1>6. /\ Stops = 0 /\ Stops' = 1 /\ ~Answered /\ ~Answered' /\ ~Getting'
      /\ y = 0 /\ q = 0 /\ ~(w = "stop" /\ n > 0)
  <2>1. Stops = 0 /\ Stops' = 1 /\ ~Answered /\ ~Answered' /\ ~Getting'
    BY <1>1, <1>3, <1>5 DEF Stops, Answered, Getting
  <2>2. Owed(w, n, q, y)
    BY DEF Content, Tally
  <2> QED BY <2>1, <2>2 DEF Owed
<1>7. PICK y2 \in 0 .. 2 : y2 = 1
  OBVIOUS
<1>8. UrgAsBefore
  BY <1>3 DEF UrgAsBefore
<1>9. CallInv'
  BY <1>1, <1>3, <1>8, CallStays
<1>10. (Once' <=> Once) /\ (Scanned' = Scanned) /\ (Remain' = Remain)
  BY <1>8 DEF UrgAsBefore, Once, Scanned, Remain
<1>11. Layout(Once, barrier, rx, w, n, k, q)' /\ Fresh(w, n)'
  BY <1>3 DEF Content, Fresh, Once, Scanned
<1>12. Sent(x, y2)'
  <2>1. Sent(x, y) /\ y \in 0 .. 1 /\ y2 = y + 1
    BY <1>6, <1>7 DEF Content
  <2> QED BY <1>3, <1>10, <2>1, SentQT
<1>13. Reading(w, n)' /\ Begun(w, n)' = Begun(w, n) /\ (Pending(w, n, k, x)' <=> Pending(w, n, k, x))
  BY <1>1, <1>3 DEF Content, Tally, Reading, Begun, Pending
<1>14. Owed(w, n, q, y2)'
  BY <1>6, <1>7 DEF Owed
<1>15. Measures(w, n, k, x)'
  BY <1>1, <1>3, <1>5, <1>6, <1>10, <1>13 DEF Content, Tally, Measures
<1>16. Begun(w, n) = 0
  BY <1>1 DEF Content, Tally, Reading, Begun
<1>17. Spent(w, n, k, x)' <= 2
  <2>1. Spent(w, n, k, x)' = k + (IF Once THEN x ELSE 0) + 0 + 0
    BY <1>3, <1>10, <1>13, <1>16 DEF Spent
  <2>2. Once => x + k + 0 <= 1
    BY <1>16 DEF Content, Tally, Measures
  <2> QED BY <2>1, <2>2
<1>18. Stoppable(w, n, k, x, y2)'
  BY <1>1, <1>3, <1>5, <1>6, <1>7, <1>17 DEF Stoppable
<1>19. Counts(w, n, k, x)'
  BY <1>3, <1>5, <1>10, <1>13 DEF Content, Tally, Counts
<1>20. urg'.is_active /\ pc' \in InMeasuring
  BY <1>1, <1>3 DEF InMeasuring, InReceive
<1>21. Content(w, n, k, q, x, y2)'
  BY <1>11, <1>12, <1>13, <1>14, <1>15, <1>18, <1>19 DEF Content, Tally
<1> QED BY <1>9, <1>20, <1>21, ToMeasuring

\* A scan is counted.
LEMMA CountTimely ==
  ASSUME Timely, TypeInv, CallInv, CountScan,
         NEW w \in Unit, NEW n \in 0 .. ScanSize, NEW k \in 0 .. 2, NEW q \in 0 .. 2,
         NEW x \in 0 .. 1, NEW y \in 0 .. 2, Content(w, n, k, q, x, y)
  PROVE  CallInv' /\ PhaseInv'
<1>0. Reached
  BY ReachedIs
<1>1. /\ pc = "rd_count" /\ pc' = "rd_done" /\ (Remain # 1 \/ ~CountsScans)
      /\ urg' = (IF CountsScans THEN OneScanLess ELSE urg) /\ scans' = HandsOut
      /\ UNCHANGED <<tx, rx, dev, unit, noise, link, op, ret, good, resume, seen, calls,
                     stack, type, steps, barrier>>
  BY DEF CountScan, sensorVars, localVars, Remain
<1>2. /\ urg.is_active /\ link = "open" /\ op \in {"stop", "sleep", "get"}
      /\ Depth = 1 /\ n = 0 /\ x = 0 /\ Begun(w, n) = 1
  BY <1>1, AfterAnswer
<1>3. /\ Depth \in Nat /\ dev.stream \in Nat /\ Scanned \in Nat /\ Remain \in Nat /\ scans \in Nat
  BY <1>0 DEF Reached
<1>4. ret = "DATA"
  BY <1>1 DEF Content, Tally, Reading
<1>5. Counts(w, n, k, x) /\ (Scanned > 1 => k + 1 + dev.stream + 0 <= Remain)
  BY <1>2 DEF Content, Tally, Counts
<1>6. CountsScans <=> Scanned > 1
  <2>1. Scanned > 1 => Remain > 0
    BY <1>3, <1>5
  <2> QED BY <2>1 DEF CountsScans, Scanned, Remain
<1>7. /\ urg'.is_active = urg.is_active /\ urg'.is_sending = urg.is_sending
      /\ urg'.is_laser_on = urg.is_laser_on
      /\ (Once' <=> Once) /\ (Scanned' = Scanned)
      /\ Scanned > 1 => Remain' = Remain - 1 /\ Remain >= 2
      /\ ~(Scanned > 1) => Remain' = Remain
  <2>1. urg \in UrgFields
    BY <1>0 DEF Reached
  <2>2. CASE CountsScans
    <3>1. urg' = [urg EXCEPT !.scanning_remain_times = urg.scanning_remain_times - 1]
      BY <1>1, <2>2 DEF OneScanLess
    <3>2. Remain # 1 /\ Remain >= 1
      BY <1>1, <1>3, <2>2 DEF CountsScans, Remain
    <3>3. Remain >= 2
      BY <1>3, <3>2
    <3> QED BY <1>6, <2>1, <2>2, <3>1, <3>3 DEF UrgFields, Once, Scanned, Remain
  <2>3. CASE ~CountsScans
    BY <1>1, <1>6, <2>3 DEF Once, Scanned, Remain
  <2> QED BY <2>2, <2>3
<1>8. Depth' = Depth /\ (ByApp' <=> ByApp) /\ Tries' = Tries /\ Head(stack)' = Head(stack)
  BY <1>1, StackStays
<1>9. CallInv'
  <2>1. Scanned > 1 => scans' + Remain' <= Scanned
    <3>1. scans' <= scans + 1 /\ scans' \in Nat
      BY <1>1, <1>3 DEF HandsOut
    <3>2. Scanned > 1 => scans + Remain <= Scanned
      BY DEF CallInv
    <3>3. ASSUME Scanned > 1 PROVE scans' + Remain' <= Scanned
      <4>1. scans + Remain <= Scanned /\ Remain' = Remain - 1
        BY <1>7, <3>2, <3>3
      <4>2. Remain' \in Int /\ scans' \in Int /\ scans \in Int /\ Remain \in Int /\ Scanned \in Int
        BY <1>3, <3>1, <4>1
      <4>3. \A a, b, c, d, e \in Int : a <= b + 1 /\ c = d - 1 /\ b + d <= e => a + c <= e
        OBVIOUS
      <4> QED BY <3>1, <4>1, <4>2, <4>3
    <3> QED BY <1>7, <3>3
  <2> QED BY <1>1, <1>2, <1>7, <2>1 DEF CallInv
<1>10. Layout(Once, barrier, rx, w, n, k, q)'
  BY <1>1, <1>7 DEF Content, Once, Scanned
<1>11. Sent(x, y)' /\ Fresh(w, n)'
  BY <1>1, <1>2 DEF Content, Sent, Fresh
<1>12. Stops' = Stops /\ (Getting' <=> Getting) /\ ~Answered /\ ~Answered'
  <2>1. Stops' = Stops /\ (Getting' <=> Getting)
    BY ONLY <1>8 DEF Stops, Getting
  <2> QED BY <1>1, <1>4, <2>1 DEF Answered
<1>13. Begun(w, n)' = 0 /\ (Pending(w, n, k, x)' => Pending(w, n, k, x))
  BY <1>1, <1>2 DEF Begun, Pending
<1>14. Reading(w, n)'
  BY <1>1, <1>2 DEF Reading
<1>15. Owed(w, n, q, y)'
  BY <1>12 DEF Content, Tally, Owed
<1>16. Measures(w, n, k, x)'
  <2>1. Once => k = 0
    BY <1>2 DEF Content, Tally, Measures
  <2> QED BY <1>1, <1>2, <1>7, <1>8, <1>12, <1>13, <2>1 DEF Content, Tally, Measures
<1>17. Spent(w, n, k, x)' = Spent(w, n, k, x)
  BY <1>1, <1>2, <1>4, <1>7, <1>13 DEF Spent
<1>18. Stoppable(w, n, k, x, y)'
  BY <1>1, <1>2, <1>4, <1>8, <1>12, <1>17 DEF Content, Tally, Stoppable
<1>19. Counts(w, n, k, x)'
  BY <1>1, <1>2, <1>3, <1>5, <1>7, <1>13 DEF Counts
<1>20. urg'.is_active /\ pc' \in InMeasuring
  BY <1>1, <1>2, <1>7 DEF InMeasuring, InReceive
<1> QED BY <1>9, <1>10, <1>11, <1>14, <1>15, <1>16, <1>18, <1>19, <1>20, ToMeasuring DEF Content, Tally

\* The last scan is counted, and receive_data stops the measurement.
LEMMA CountLastTimely ==
  ASSUME Timely, TypeInv, CallInv, CountLastScan,
         NEW w \in Unit, NEW n \in 0 .. ScanSize, NEW k \in 0 .. 2, NEW q \in 0 .. 2,
         NEW x \in 0 .. 1, NEW y \in 0 .. 2, Content(w, n, k, q, x, y)
  PROVE  CallInv' /\ PhaseInv'
<1>0. Reached
  BY ReachedIs
<1>1. pc = "rd_count" /\ CountsScans /\ Remain = 1
  BY DEF CountLastScan, Remain
<1>2. /\ urg.is_active /\ link = "open" /\ CanWrite /\ op \in {"stop", "sleep", "get"}
      /\ Depth = 1 /\ n = 0 /\ x = 0 /\ Begun(w, n) = 1
  BY <1>1, AfterAnswer
<1>3. /\ urg' = OneScanLess /\ stack' = <<Frame("auto")>> \o stack
      /\ Write("QT", 0) /\ pc' = "rd_echo" /\ scans' = HandsOut
      /\ UNCHANGED <<rx, dev, unit, noise, link, op, ret, good, resume, seen, calls, type,
                     steps, barrier>>
  BY <1>2 DEF CountLastScan
<1>4. /\ dev.stream \in Nat /\ Scanned \in Nat /\ Remain \in Nat /\ scans \in Nat
  BY <1>0 DEF Reached
<1>5. ret = "DATA"
  BY <1>1 DEF Content, Tally, Reading
<1>6. Scanned > 1
  BY <1>1 DEF CountsScans, Scanned
<1>7. k = 0 /\ dev.stream = 0
  <2>1. Counts(w, n, k, x)
    BY DEF Content, Tally
  <2>2. k + 1 + dev.stream + 0 <= 1
    BY <1>1, <1>2, <1>6, <2>1 DEF Counts
  <2> QED BY <1>4, <2>2
<1>8. /\ urg'.is_active = urg.is_active /\ urg'.is_sending = urg.is_sending
      /\ urg'.is_laser_on = urg.is_laser_on
      /\ (Once' <=> Once) /\ (Scanned' = Scanned) /\ Remain' = 0
  <2>1. urg \in UrgFields /\ Remain - 1 = 0
    BY <1>0, <1>1 DEF Reached
  <2>2. urg' = [urg EXCEPT !.scanning_remain_times = Remain - 1]
    BY <1>3 DEF OneScanLess, Remain
  <2> QED BY <2>1, <2>2 DEF UrgFields, Once, Scanned, Remain
<1>9. /\ Depth' = 2 /\ Head(stack').kept = "DATA" /\ (ByApp' <=> ByApp) /\ Tries' = Tries
  <2>1. Frame("auto") \in Frames /\ Frame("auto").kept = ret
    BY Before, FrameTypes DEF Frame
  <2> QED BY <1>2, <1>3, <1>5, <2>1, StackPush
<1>10. ByApp => Tries <= 1
  <2>1. ByApp => Spent(w, n, k, x) <= 2 - Tries
    BY <1>2 DEF Content, Tally, Stoppable
  <2>2. Spent(w, n, k, x) = 0 + 0 + 1 + 0
    BY <1>1, <1>2, <1>7 DEF Spent
  <2>3. Tries \in 0 .. 2
    BY <1>0 DEF Reached
  <2> QED BY <2>1, <2>2, <2>3
<1>11. CallInv'
  <2>1. scans' + Remain' <= Scanned
    <3>1. scans' <= scans + 1 /\ scans' \in Nat
      BY <1>3, <1>4 DEF HandsOut
    <3>2. scans + Remain <= Scanned
      BY <1>6 DEF CallInv
    <3> QED BY <1>1, <1>4, <1>8, <3>1, <3>2
  <2> QED BY <1>1, <1>2, <1>3, <1>8, <2>1 DEF CallInv
<1>12. /\ Stops' = Stops + 1 /\ ~Answered /\ ~Answered' /\ ~Getting'
       /\ Stops = y + q /\ y \in 0 .. 1 /\ Stops \in 0 .. 1
  <2>1. Stops' = Stops + 1 /\ ~Getting' /\ Stops \in 0 .. 1
    BY <1>2, <1>9 DEF Stops, Getting
  <2>2. ~Answered /\ ~Answered'
    BY <1>1, <1>3 DEF Answered
  <2>3. Owed(w, n, q, y)
    BY DEF Content, Tally
  <2>4. Stops = y + q + 0 + 0
    BY <1>2, <2>2, <2>3 DEF Owed
  <2> QED BY <2>1, <2>2, <2>4
<1>13. PICK y2 \in 0 .. 2 : y2 = y + 1
  BY <1>12
<1>14. Layout(Once, barrier, rx, w, n, k, q)'
  BY <1>3, <1>8 DEF Content, Once, Scanned
<1>15. Sent(x, y2)'
  BY <1>3, <1>8, <1>12, <1>13, SentQT DEF Content
<1>16. Fresh(w, n)' /\ Reading(w, n)'
  BY <1>2, <1>3 DEF Fresh, Reading
<1>17. Begun(w, n)' = 0 /\ ~Pending(w, n, k, x)'
  BY <1>2, <1>3, <1>7 DEF Begun, Pending
<1>18. Owed(w, n, q, y2)'
  BY <1>2, <1>12, <1>13 DEF Owed
<1>19. Measures(w, n, k, x)'
  <2>1. ~Once' /\ dev'.stream = 0 /\ Stops' # 0
    BY <1>3, <1>6, <1>7, <1>8, <1>12 DEF Once
  <2> QED BY <1>2, <1>3, <1>17, <2>1 DEF Measures
<1>20. Stoppable(w, n, k, x, y2)'
  <2>1. Stops >= 1 /\ y < Stops => x = 0 /\ dev.stream = 0 /\ ~dev.laser
    BY DEF Content, Tally, Stoppable
  <2>2. Stops' >= 1 /\ y2 < Stops' => Stops >= 1 /\ y < Stops
    BY <1>12, <1>13
  <2>3. Depth > 0 => IF ByApp THEN op \in {"stop", "sleep"} ELSE op = "get"
    BY DEF Content, Tally, Stoppable
  <2> QED BY <1>2, <1>3, <1>6, <1>7, <1>8, <1>9, <1>10, <1>12, <2>1, <2>2, <2>3 DEF Stoppable
<1>21. Counts(w, n, k, x)'
  BY <1>2, <1>3, <1>7, <1>8, <1>9, <1>17 DEF Counts
<1>22. urg'.is_active /\ pc' \in InMeasuring
  BY <1>2, <1>3, <1>8 DEF InMeasuring, InReceive
<1>23. Content(w, n, k, q, x, y2)'
  BY <1>14, <1>15, <1>16, <1>18, <1>19, <1>20, <1>21 DEF Content, Tally
<1> QED BY <1>11, <1>22, <1>23, ToMeasuring

\* receive_data is back in urg_get_distance.
LEMMA GetReturnsTimely ==
  ASSUME Timely, TypeInv, CallInv, GetReturns,
         NEW w \in Unit, NEW n \in 0 .. ScanSize, NEW k \in 0 .. 2, NEW q \in 0 .. 2,
         NEW x \in 0 .. 1, NEW y \in 0 .. 2, Content(w, n, k, q, x, y)
  PROVE  CallInv' /\ PhaseInv'
<1>0. Reached
  BY ReachedIs
<1>1. /\ pc = "rd_done" /\ InGet /\ pc' = "idle" /\ stack' = Tail(stack)
      /\ UNCHANGED <<tx, rx, dev, unit, noise, link, urg, op, ret, good, resume, seen,
                     calls, type, steps, barrier, scans>>
  BY DEF GetReturns, sensorVars, historyVars
<1>2. /\ urg.is_active /\ stack # <<>> /\ n = 0 /\ x = 0 /\ Begun(w, n) = 0
  BY <1>1, AfterAnswer
<1>3. Getting
  BY <1>0, <1>1, <1>2 DEF Reached
<1>4. /\ Depth = 1 /\ ~ByApp /\ Depth' = 0 /\ ~ByApp' /\ Tries' = 0
      /\ op = "get"
  <2>1. Depth = 1 /\ ~ByApp
    BY <1>3 DEF Getting
  <2>2. op = "get"
    BY <2>1 DEF Content, Tally, Stoppable
  <2> QED BY <1>1, <1>2, <2>1, <2>2, StackPop
<1>5. Stops = 0 /\ Stops' = 0 /\ ~Answered /\ ~Answered'
  BY <1>1, <1>3, <1>4 DEF Stops, Answered
<1>6. UrgAsBefore
  BY <1>1 DEF UrgAsBefore
<1>7. CallInv'
  BY <1>1, <1>4, <1>6 DEF CallInv, Scanned, Remain
<1>8. (Once' <=> Once) /\ (Scanned' = Scanned) /\ (Remain' = Remain)
  BY <1>6 DEF UrgAsBefore, Once, Scanned, Remain
<1>9. Layout(Once, barrier, rx, w, n, k, q)' /\ Sent(x, y)' /\ Fresh(w, n)' /\ Reading(w, n)'
  BY <1>1, <1>2 DEF Content, Sent, Fresh, Reading, Once, Scanned
<1>10. Begun(w, n)' = 0 /\ (Pending(w, n, k, x)' <=> Pending(w, n, k, x))
  BY <1>1, <1>2 DEF Begun, Pending
<1>11. Owed(w, n, q, y)'
  BY <1>5 DEF Content, Tally, Owed
<1>12. Measures(w, n, k, x)'
  <2>1. Once => k = 0 /\ dev.stream = 0
    BY <1>1, <1>3 DEF Content, Tally, Measures
  <2>2. Once => ~Pending(w, n, k, x)
    BY <1>1, <1>2, <2>1 DEF Pending
  <2> QED BY <1>1, <1>2, <1>4, <1>5, <1>8, <1>10, <2>1, <2>2 DEF Content, Tally, Measures
<1>13. Stoppable(w, n, k, x, y)'
  BY <1>1, <1>2, <1>4, <1>5 DEF Stoppable
<1>14. Counts(w, n, k, x)'
  BY <1>1, <1>2, <1>4, <1>8, <1>10 DEF Content, Tally, Counts
<1>15. urg'.is_active /\ pc' \in InMeasuring
  BY <1>1, <1>2 DEF InMeasuring
<1> QED BY <1>7, <1>9, <1>11, <1>12, <1>13, <1>14, <1>15, ToMeasuring DEF Content, Tally

\* The answer to QT has been read.
LEMMA StopSucceedsTimely ==
  ASSUME Timely, TypeInv, CallInv, StopSucceeds,
         NEW w \in Unit, NEW n \in 0 .. ScanSize, NEW k \in 0 .. 2, NEW q \in 0 .. 2,
         NEW x \in 0 .. 1, NEW y \in 0 .. 2, Content(w, n, k, q, x, y)
  PROVE  CallInv' /\ PhaseInv'
<1>0. Reached
  BY ReachedIs
<1>1. /\ pc = "rd_done" /\ ~InGet /\ ret = "OK" /\ pc' = "stop_done" /\ barrier' = calls
      /\ urg' = [urg EXCEPT !.is_laser_on = FALSE, !.is_sending = FALSE,
                            !.last_errno = "NO_ERROR"]
      /\ UNCHANGED <<tx, rx, dev, unit, noise, link, op, ret, good, resume, seen,
                     calls, stack, type, steps, scans>>
  BY DEF StopSucceeds, Stopped, sensorVars, localVars
<1>2. /\ urg.is_active /\ link = "open" /\ stack # <<>> /\ n = 0 /\ x = 0 /\ Begun(w, n) = 0
      /\ Depth \in {1, 2} /\ op \in {"stop", "sleep", "get"}
  BY <1>1, AfterAnswer
<1>3. ~Getting
  BY <1>0, <1>1, <1>2 DEF Reached
<1>4. Depth' = Depth /\ (ByApp' <=> ByApp) /\ Tries' = Tries /\ Head(stack)' = Head(stack)
  BY <1>1, StackStays
<1>5. /\ urg'.is_active /\ ~urg'.is_sending /\ ~urg'.is_laser_on
      /\ (Once' <=> Once) /\ (Scanned' = Scanned) /\ (Remain' = Remain)
  BY <1>0, <1>1, <1>2 DEF Reached, UrgFields, Once, Scanned, Remain
<1>6. /\ Stops' = Stops /\ ~Getting' /\ Answered /\ Answered'
      /\ Stops = y + q + 1 /\ k = 0
  <2>1. Stops' = Stops /\ ~Getting'
    BY <1>3, <1>4 DEF Stops, Getting
  <2>2. Answered /\ Answered'
    BY <1>1, <1>3, <2>1 DEF Answered
  <2>3. Owed(w, n, q, y) /\ k = 0
    BY <2>2 DEF Content, Tally, Stoppable
  <2>4. Stops = y + q + 0 + 1
    BY <1>2, <2>2, <2>3 DEF Owed
  <2> QED BY <2>1, <2>2, <2>3, <2>4
<1>7. dev.stream = 0 /\ ~dev.laser
  <2>1. Stops >= 1 /\ y < Stops
    BY <1>6
  <2> QED BY <2>1 DEF Content, Tally, Stoppable
<1>8. CallInv'
  BY <1>0, <1>1, <1>2, <1>5 DEF CallInv, Reached
<1>9. Layout(Once, barrier, rx, w, n, k, q)'
  <2>1. Layout(Once, barrier, rx, w, 0, 0, q)
    BY <1>2, <1>6 DEF Content
  <2>2. Layout(Once', calls, rx, w, 0, 0, q)
    BY <2>1, LayoutOfStops
  <2> QED BY <1>1, <1>2, <1>6, <2>2
<1>10. Sent(x, y)' /\ Fresh(w, n)' /\ Reading(w, n)'
  BY <1>1, <1>2 DEF Content, Sent, Fresh, Reading
<1>11. Begun(w, n)' = 0 /\ ~Pending(w, n, k, x)'
  BY <1>1, <1>2, <1>6, <1>7 DEF Begun, Pending
<1>12. Owed(w, n, q, y)'
  BY <1>2, <1>6 DEF Owed
<1>13. Measures(w, n, k, x)'
  <2>1. dev'.stream = 0 /\ ~(dev'.stream > 0) /\ ~(Stops' = 0)
    BY <1>1, <1>6, <1>7
  <2>2. x + k + Begun(w, n)' <= 1
    BY <1>2, <1>6, <1>11
  <2> QED BY <1>5, <1>6, <1>11, <2>1, <2>2 DEF Measures
<1>14. Spent(w, n, k, x)' = 0 /\ Tries' \in 0 .. 2
  BY <1>0, <1>1, <1>2, <1>4, <1>6, <1>11 DEF Spent, Reached
<1>15. Stoppable(w, n, k, x, y)'
  BY <1>1, <1>2, <1>4, <1>5, <1>6, <1>7, <1>14 DEF Content, Tally, Stoppable
<1>16. Counts(w, n, k, x)'
  <2>1. 0 + 0 + dev'.stream + 0 <= Remain'
    BY <1>0, <1>1, <1>5, <1>7 DEF Reached
  <2> QED BY <1>2, <1>5, <1>6, <1>11, <2>1 DEF Counts
<1>17. pc' \in InMeasuring
  BY <1>1 DEF InMeasuring, InReceive
<1> QED BY <1>5, <1>8, <1>9, <1>10, <1>12, <1>13, <1>15, <1>16, <1>17, ToMeasuring DEF Content, Tally

\* A scan was in front of it: one read less is left.
LEMMA StopAgainTimely ==
  ASSUME Timely, TypeInv, CallInv, StopTriesAgain,
         NEW w \in Unit, NEW n \in 0 .. ScanSize, NEW k \in 0 .. 2, NEW q \in 0 .. 2,
         NEW x \in 0 .. 1, NEW y \in 0 .. 2, Content(w, n, k, q, x, y)
  PROVE  CallInv' /\ PhaseInv'
<1>0. Reached
  BY ReachedIs
<1>1. /\ pc = "rd_done" /\ ~InGet /\ ret # "OK"
      /\ UNCHANGED <<tx, rx, dev, unit, noise, link, urg, op, ret, good, resume, calls,
                     type, steps, barrier, scans>>
  BY DEF StopTriesAgain, Stopped, sensorVars, historyVars
<1>2. /\ urg.is_active /\ link = "open" /\ stack # <<>> /\ n = 0 /\ x = 0 /\ Begun(w, n) = 0
      /\ Depth \in {1, 2}
  BY <1>1, AfterAnswer
<1>3. ~Getting
  BY <1>0, <1>1, <1>2 DEF Reached
<1>4. ByApp /\ Depth = 1 /\ op \in {"stop", "sleep"}
  <2>1. Depth = 1
    BY <1>1, <1>2 DEF Content, Tally, Stoppable
  <2>2. ByApp
    BY <1>3, <2>1 DEF Getting
  <2> QED BY <2>1, <2>2 DEF Content, Tally, Stoppable
<1>5. Tries \in 0 .. 1 /\ Spent(w, n, k, x) = k + 1 /\ k + 1 <= 2 - Tries
  <2>1. Spent(w, n, k, x) = k + 0 + 0 + 1
    BY <1>1, <1>2 DEF Spent
  <2>2. Spent(w, n, k, x) <= 2 - Tries
    BY <1>4 DEF Content, Tally, Stoppable
  <2>3. Tries \in 0 .. 2
    BY <1>0 DEF Reached
  <2> QED BY <2>1, <2>2, <2>3
<1>6. Head(stack).tries = Tries /\ Head(stack) \in Frames
  BY <1>2, <1>4, StackIs
<1>7. PICK f \in Frames : f = [Head(stack) EXCEPT !.tries = @ + 1]
  <2>1. Head(stack).tries + 1 \in 0 .. MAX_READ_TIMES - 1
    BY <1>5, <1>6 DEF MAX_READ_TIMES
  <2>2. [Head(stack) EXCEPT !.tries = Head(stack).tries + 1] \in Frames
    BY <1>6, <2>1 DEF Frames
  <2> QED BY <2>2
<1>8. f.by = Head(stack).by /\ f.tries = Tries + 1
  BY <1>6, <1>7 DEF Frames
<1>9. stack' = <<f>> \o Tail(stack) /\ pc' = "rd_echo" /\ seen' = {}
  <2>1. Head(stack).tries + 1 < MAX_READ_TIMES
    BY <1>5, <1>6 DEF MAX_READ_TIMES
  <2> QED BY <1>7, <2>1 DEF StopTriesAgain
<1>10. Depth' = 1 /\ ByApp' /\ Tries' = Tries + 1
  BY <1>2, <1>4, <1>8, <1>9, StackTop
<1>11. UrgAsBefore
  BY <1>1 DEF UrgAsBefore
<1>12. CallInv'
  BY <1>1, <1>4, <1>9, <1>11, CallStays
<1>13. (Once' <=> Once) /\ (Scanned' = Scanned) /\ (Remain' = Remain)
  BY <1>11 DEF UrgAsBefore, Once, Scanned, Remain
<1>14. Stops' = Stops /\ ~Getting' /\ ~Answered /\ ~Answered'
  BY <1>1, <1>4, <1>9, <1>10 DEF Stops, Getting, Answered
<1>15. Layout(Once, barrier, rx, w, n, k, q)' /\ Sent(x, y)' /\ Fresh(w, n)' /\ Reading(w, n)'
  BY <1>1, <1>2, <1>9 DEF Content, Sent, Fresh, Reading, Once, Scanned
<1>16. Begun(w, n)' = 0 /\ (Pending(w, n, k, x)' <=> Pending(w, n, k, x))
  BY <1>1, <1>2, <1>9 DEF Begun, Pending
<1>17. Owed(w, n, q, y)'
  BY <1>14 DEF Content, Tally, Owed
<1>18. Measures(w, n, k, x)'
  BY <1>1, <1>2, <1>4, <1>9, <1>10, <1>13, <1>14, <1>16 DEF Content, Tally, Measures
<1>19. Spent(w, n, k, x)' = k
  BY <1>2, <1>9, <1>13, <1>16 DEF Spent
<1>20. Stoppable(w, n, k, x, y)'
  <2>1. k <= 2 - (Tries + 1)
    BY <1>5
  <2>2. Stops >= 1 /\ y < Stops => x = 0 /\ dev.stream = 0 /\ ~dev.laser
    BY DEF Content, Tally, Stoppable
  <2> QED BY <1>1, <1>2, <1>4, <1>9, <1>10, <1>14, <1>19, <2>1, <2>2 DEF Stoppable
<1>21. Counts(w, n, k, x)'
  BY <1>1, <1>2, <1>4, <1>10, <1>13, <1>16 DEF Content, Tally, Counts
<1>22. urg'.is_active /\ pc' \in InMeasuring
  BY <1>1, <1>2, <1>9 DEF InMeasuring, InReceive
<1> QED BY <1>12, <1>15, <1>17, <1>18, <1>20, <1>21, <1>22, ToMeasuring DEF Content, Tally

\* What urg_stop_measurement leaves.
LEMMA StopEnds ==
  ASSUME TypeInv, CallInv, pc = "stop_done", ~InGet,
         NEW w \in Unit, NEW n \in 0 .. ScanSize, NEW k \in 0 .. 2, NEW q \in 0 .. 2,
         NEW x \in 0 .. 1, NEW y \in 0 .. 2, Content(w, n, k, q, x, y)
  PROVE  /\ urg.is_active /\ link = "open" /\ stack # <<>> /\ n = 0 /\ x = 0 /\ k = 0
         /\ Begun(w, n) = 0 /\ ret = "OK" /\ Dark
         /\ ~urg.is_sending /\ ~urg.is_laser_on
         /\ Depth \in {1, 2} /\ Stops = y + q + 1 /\ ~Getting
<1>1. /\ urg.is_active /\ link = "open" /\ stack # <<>> /\ n = 0 /\ x = 0
      /\ Begun(w, n) = 0 /\ Depth \in {1, 2}
  BY AfterAnswer
<1>2. ret = "OK" /\ ~urg.is_sending /\ ~urg.is_laser_on
  BY DEF Content, Tally, Stoppable
<1>3. ~Getting
  BY <1>1, ReachedIs DEF Reached
<1>4. Answered
  BY <1>2, <1>3 DEF Answered
<1>5. k = 0 /\ Stops = y + q + 1
  <2>1. Owed(w, n, q, y) /\ k = 0
    BY <1>4 DEF Content, Tally, Stoppable
  <2> QED BY <1>1, <1>4, <2>1 DEF Owed
<1>6. Dark
  <2>1. Stops >= 1 /\ y < Stops
    BY <1>5
  <2> QED BY <2>1 DEF Content, Tally, Stoppable, Dark
<1> QED BY <1>1, <1>2, <1>3, <1>5, <1>6

\* Back in the receive_data that counted the last scan.
LEMMA AutoStopTimely ==
  ASSUME Timely, TypeInv, CallInv, AutoStopReturns,
         NEW w \in Unit, NEW n \in 0 .. ScanSize, NEW k \in 0 .. 2, NEW q \in 0 .. 2,
         NEW x \in 0 .. 1, NEW y \in 0 .. 2, Content(w, n, k, q, x, y)
  PROVE  CallInv' /\ PhaseInv'
<1>0. Reached
  BY ReachedIs
<1>1. /\ pc = "stop_done" /\ Head(stack).by = "auto" /\ ret' = Head(stack).kept
      /\ stack' = Tail(stack) /\ pc' = "rd_done"
      /\ UNCHANGED <<tx, rx, dev, unit, noise, link, urg, op, good, resume, calls,
                     type, steps, barrier, scans>>
  BY DEF AutoStopReturns, sensorVars, historyVars
<1>2. /\ urg.is_active /\ stack # <<>> /\ n = 0 /\ x = 0 /\ k = 0 /\ Begun(w, n) = 0
      /\ ret = "OK" /\ Dark /\ ~urg.is_sending /\ ~urg.is_laser_on
      /\ Depth \in {1, 2} /\ Stops = y + q + 1
  BY <1>1, StopEnds DEF InGet
<1>3. Depth = 2 /\ op \in {"stop", "sleep", "get"}
  <2>1. Depth = 1 => Head(stack).by # "auto"
    BY StackIs
  <2> QED BY <1>1, <1>2, <2>1 DEF Content, Tally, Stoppable
<1>4. Head(stack).kept = "DATA" /\ (ByApp => Tries <= 1)
  BY <1>3 DEF Content, Tally, Stoppable
<1>5. Depth' = 1 /\ (ByApp' <=> ByApp) /\ Tries' = Tries
  BY <1>1, <1>2, <1>3, StackPop
<1>6. UrgAsBefore
  BY <1>1 DEF UrgAsBefore
<1>7. CallInv'
  BY <1>1, <1>3, <1>6, CallStays
<1>8. (Once' <=> Once) /\ (Scanned' = Scanned) /\ (Remain' = Remain)
  BY <1>6 DEF UrgAsBefore, Once, Scanned, Remain
<1>9. Layout(Once, barrier, rx, w, n, k, q)' /\ Sent(x, y)' /\ Fresh(w, n)' /\ Reading(w, n)'
  BY <1>1, <1>2 DEF Content, Sent, Fresh, Reading, Once, Scanned
<1>10. Begun(w, n)' = 0 /\ ~Pending(w, n, k, x)'
  BY <1>1, <1>2 DEF Begun, Pending, Dark
<1>11. Stops' = y + q /\ ~Answered' /\ Stops' = Stops - 1
  BY <1>1, <1>2, <1>3, <1>4, <1>5 DEF Stops, Answered
<1>12. Owed(w, n, q, y)'
  BY <1>2, <1>11 DEF Owed
<1>13. Measures(w, n, k, x)'
  <2>1. dev'.stream = 0 /\ ~(dev'.stream > 0) /\ dev'.laser = urg'.is_laser_on /\ ~urg'.is_sending
    BY <1>0, <1>1, <1>2 DEF Reached, Dark, Dev, UrgFields
  <2>2. x + k + Begun(w, n)' <= 1
    BY <1>2, <1>10
  <2> QED BY <1>2, <1>10, <2>1, <2>2 DEF Measures
<1>14. Spent(w, n, k, x)' = 1 /\ Tries \in 0 .. 2
  BY <1>0, <1>1, <1>2, <1>4, <1>8, <1>10 DEF Spent, Reached
<1>15. Stoppable(w, n, k, x, y)'
  <2>1. IF ByApp THEN op \in {"stop", "sleep"} ELSE op = "get"
    BY <1>3 DEF Content, Tally, Stoppable
  <2>2. ByApp => 1 <= 2 - Tries
    BY <1>4, <1>14
  <2> QED BY <1>1, <1>2, <1>4, <1>5, <1>11, <1>14, <2>1, <2>2 DEF Stoppable, Dark
<1>16. Counts(w, n, k, x)'
  <2>1. 0 + 0 + dev'.stream + 0 <= Remain'
    BY <1>0, <1>1, <1>2, <1>8 DEF Reached, Dark
  <2> QED BY <1>2, <1>6, <1>10, <2>1 DEF Counts, UrgAsBefore
<1>17. urg'.is_active /\ pc' \in InMeasuring
  BY <1>1, <1>2 DEF InMeasuring, InReceive
<1> QED BY <1>7, <1>9, <1>12, <1>13, <1>15, <1>16, <1>17, ToMeasuring DEF Content, Tally

\* Back in the application.
LEMMA StopReturnsTimely ==
  ASSUME Timely, TypeInv, CallInv, StopReturns,
         NEW w \in Unit, NEW n \in 0 .. ScanSize, NEW k \in 0 .. 2, NEW q \in 0 .. 2,
         NEW x \in 0 .. 1, NEW y \in 0 .. 2, Content(w, n, k, q, x, y)
  PROVE  CallInv' /\ PhaseInv'
<1>0. Reached
  BY ReachedIs
<1>1. /\ pc = "stop_done" /\ op = "stop" /\ Head(stack).by = "app"
      /\ stack' = Tail(stack) /\ pc' = "idle"
      /\ UNCHANGED <<tx, rx, dev, unit, noise, link, urg, op, ret, good, resume, seen,
                     calls, type, steps, barrier, scans>>
  BY DEF StopReturns, At, sensorVars, historyVars
<1>2. /\ urg.is_active /\ stack # <<>> /\ n = 0 /\ x = 0 /\ k = 0 /\ Begun(w, n) = 0
      /\ ret = "OK" /\ Dark /\ ~urg.is_sending /\ ~urg.is_laser_on
      /\ Depth \in {1, 2} /\ Stops = y + q + 1
  BY <1>1, StopEnds DEF InGet
<1>3. Depth = 1 /\ Depth' = 0 /\ ~ByApp' /\ Tries' = 0
  <2>1. Depth = 1
    <3>1. Depth > 1 => Head(stack).by = "auto"
      BY StackIs
    <3> QED BY <1>1, <1>2, <3>1
  <2> QED BY <1>1, <1>2, <2>1, StackPop
<1>4. Stops' = 0 /\ y = 0 /\ q = 0 /\ ~Answered'
  BY <1>1, <1>2, <1>3 DEF Stops, Answered
<1>5. UrgAsBefore
  BY <1>1 DEF UrgAsBefore
<1>6. CallInv'
  BY <1>1, <1>2, <1>5 DEF CallInv, Scanned, Remain
<1>7. (Once' <=> Once) /\ (Scanned' = Scanned) /\ (Remain' = Remain)
  BY <1>5 DEF UrgAsBefore, Once, Scanned, Remain
<1>8. Layout(Once, barrier, rx, w, n, k, q)' /\ Sent(x, y)' /\ Fresh(w, n)' /\ Reading(w, n)'
  BY <1>1, <1>2 DEF Content, Sent, Fresh, Reading, Once, Scanned
<1>9. Begun(w, n)' = 0 /\ ~Pending(w, n, k, x)'
  BY <1>1, <1>2 DEF Begun, Pending, Dark
<1>10. Owed(w, n, q, y)'
  BY <1>2, <1>4 DEF Owed
<1>11. Measures(w, n, k, x)'
  <2>1. dev'.stream = 0 /\ ~(dev'.stream > 0) /\ dev'.laser = urg'.is_laser_on /\ ~urg'.is_sending
    BY <1>0, <1>1, <1>2 DEF Reached, Dark, Dev, UrgFields
  <2>2. x + k + Begun(w, n)' <= 1
    BY <1>2, <1>9
  <2> QED BY <1>2, <1>9, <2>1, <2>2 DEF Measures
<1>12. Stoppable(w, n, k, x, y)'
  BY <1>1, <1>2, <1>3, <1>4 DEF Stoppable
<1>13. Counts(w, n, k, x)'
  <2>1. 0 + 0 + dev'.stream + 0 <= Remain'
    BY <1>0, <1>1, <1>2, <1>7 DEF Reached, Dark
  <2> QED BY <1>2, <1>5, <1>9, <2>1 DEF Counts, UrgAsBefore
<1>14. urg'.is_active /\ pc' \in InMeasuring
  BY <1>1, <1>2 DEF InMeasuring
<1> QED BY <1>6, <1>8, <1>10, <1>11, <1>12, <1>13, <1>14, ToMeasuring DEF Content, Tally

-----------------------------------------------------------------------------
(***************************************************************************)
(* Calls, and what they find.                                              *)
(***************************************************************************)

\* A polite call is allowed where it is made.
LEMMA CallAgrees ==
  ASSUME Timely, TypeInv, CallInv, NEW o \in Ops, Call(o)
  PROVE  /\ pc = "idle" /\ pc' = "entry" /\ op' = o /\ GoodManners(o)
         /\ UNCHANGED <<tx, rx, dev, unit, noise, link, urg, good, resume, stack, type,
                        steps, barrier, scans>>
         /\ CallInv'
<1>1. /\ pc = "idle" /\ pc' = "entry" /\ op' = o /\ GoodManners(o) /\ calls' = calls + 1
      /\ seen' = {}
      /\ UNCHANGED <<tx, rx, dev, unit, noise, link, urg, good, resume, stack, type,
                     steps, barrier, scans>>
  BY DEF Call, Timely, sensorVars, localVars, historyVars
<1>2. o # "start_bad"
  BY DEF Timely
<1>3. barrier <= calls' /\ barrier < calls'
  BY <1>1, ReachedIs DEF Reached, CallInv
<1>4. /\ dev.tm => o \in {"tm1", "tm2", "info", "close"}
      /\ urg.is_laser_on => o # "tm0"
  BY <1>1 DEF GoodManners
<1>5. CallInv'
  BY <1>1, <1>2, <1>3, <1>4 DEF CallInv, Scanned, Remain
<1> QED BY <1>1, <1>5

\* A call on an active connection.
LEMMA CallTimely ==
  ASSUME Timely, TypeInv, CallInv, NEW o \in Ops, Call(o), urg.is_active,
         NEW w \in Unit, NEW n \in 0 .. ScanSize, NEW k \in 0 .. 2, NEW q \in 0 .. 2,
         NEW x \in 0 .. 1, NEW y \in 0 .. 2, Content(w, n, k, q, x, y)
  PROVE  CallInv' /\ PhaseInv'
<1>0. Reached
  BY ReachedIs
<1>1. /\ pc = "idle" /\ pc' = "entry" /\ op' = o /\ GoodManners(o)
      /\ UNCHANGED <<tx, rx, dev, unit, noise, link, urg, good, resume, stack, type,
                     steps, barrier, scans>>
      /\ CallInv'
  BY CallAgrees
<1>2. Depth = 0
  BY <1>0, <1>1, Before DEF Outside, Inside, InReceive, Reached
<1>3. Depth' = Depth /\ (ByApp' <=> ByApp) /\ Tries' = Tries /\ Head(stack)' = Head(stack)
  BY <1>1, StackStays
<1>4. (Once' <=> Once) /\ (Scanned' = Scanned) /\ (Remain' = Remain)
  BY <1>1 DEF Once, Scanned, Remain
<1>5. Layout(Once, barrier, rx, w, n, k, q)' /\ Sent(x, y)' /\ Fresh(w, n)' /\ Reading(w, n)'
  BY <1>1 DEF Content, Sent, Fresh, Tally, Reading, Once, Scanned
<1>6. Stops = 0 /\ Stops' = 0 /\ ~Answered /\ ~Answered' /\ ~ByApp
  BY <1>1, <1>2, <1>3 DEF Stops, Answered, ByApp
<1>7. Begun(w, n)' = Begun(w, n) /\ (Pending(w, n, k, x)' <=> Pending(w, n, k, x))
  BY <1>1 DEF Begun, Pending
<1>8. Owed(w, n, q, y)'
  BY <1>6 DEF Content, Tally, Owed
<1>9. Measures(w, n, k, x)'
  <2>1. Pending(w, n, k, x) \/ urg.is_sending => Measuring
    BY <1>1 DEF Content, Tally, Measures, Measuring
  <2>2. Pending(w, n, k, x) \/ urg.is_sending => o \in {"get", "stop", "sleep", "close"}
    BY <1>1, <2>1 DEF GoodManners
  <2> QED BY <1>1, <1>4, <1>6, <1>7, <2>2 DEF Content, Tally, Measures
<1>10. Stoppable(w, n, k, x, y)'
  <2>1. ~(w = "stop" /\ n > 0)
    BY <1>6 DEF Content, Tally, Owed
  <2> QED BY <1>1, <1>2, <1>3, <1>6, <2>1 DEF Stoppable
<1>11. Counts(w, n, k, x)'
  BY <1>1, <1>3, <1>4, <1>7 DEF Content, Tally, Counts
<1>12. urg'.is_active /\ pc' \in InMeasuring
  BY <1>1 DEF InMeasuring
<1> QED BY <1>1, <1>5, <1>8, <1>9, <1>10, <1>11, <1>12, ToMeasuring DEF Content, Tally

\* A function that a polite application calls between measurements finds
\* nothing on the line.
LEMMA Quiet ==
  ASSUME TypeInv, CallInv, pc = "entry", op \notin {"get", "stop", "sleep", "close"},
         NEW w \in Unit, NEW n \in 0 .. ScanSize, NEW k \in 0 .. 2, NEW q \in 0 .. 2,
         NEW x \in 0 .. 1, NEW y \in 0 .. 2, Content(w, n, k, q, x, y)
  PROVE  /\ rx = <<>> /\ tx = <<>> /\ dev.stream = 0 /\ ~urg.is_sending
         /\ dev.laser = urg.is_laser_on /\ stack = <<>>
<1>0. Depth = 0 /\ stack = <<>> /\ dev.stream \in Nat
  BY ReachedIs, Before DEF Outside, Inside, InReceive, Reached
<1>1. ~Pending(w, n, k, x) /\ ~urg.is_sending
  BY DEF Content, Tally, Measures
<1>2. Stops = 0 /\ ~Answered
  BY <1>0 DEF Stops, Answered, ByApp
<1>3. y = 0 /\ q = 0 /\ ~(w = "stop" /\ n > 0)
  BY <1>2 DEF Content, Tally, Owed
<1>4. x = 0 /\ k = 0 /\ n = 0 /\ dev.stream = 0
  <2>1. x = 0 /\ k = 0 /\ dev.stream = 0 /\ ~(n > 0 /\ w # "stop")
    BY <1>0, <1>1 DEF Pending
  <2>2. n \in Nat /\ ~(n > 0)
    BY <1>3, <2>1
  <2> QED BY <2>1, <2>2
<1>5. tx = <<>>
  <2>1. Len(tx) = 0 /\ tx \in Seq(Command)
    BY <1>3, <1>4, Before DEF Content, Sent
  <2> QED BY <2>1
<1>6. rx = <<>>
  <2>1. Layout(Once, barrier, rx, w, 0, 0, 0) /\ rx \in Seq(Line) /\ 0 \in 0 .. 2
    BY <1>3, <1>4, Before DEF Content
  <2> QED BY <2>1, LayoutTurns
<1>7. dev.laser = urg.is_laser_on
  BY <1>1, <1>2 DEF Content, Tally, Measures
<1> QED BY <1>0, <1>1, <1>4, <1>5, <1>6, <1>7

\* Nothing is on the line.
LEMMA AtRest ==
  ASSUME TypeInv', urg'.is_active, pc' \in {"idle", "entry"}, stack' = <<>>,
         rx' = <<>>, tx' = <<>>, dev'.stream = 0, ~urg'.is_sending,
         dev'.laser = urg'.is_laser_on
  PROVE  PhaseInv'
<1>1. PICK w \in Unit : w = "ack"
  BY DEF Unit
<1>2. PICK n \in 0 .. ScanSize : n = 0
  BY Sizes
<1>3. PICK k \in 0 .. 2, q \in 0 .. 2, x \in 0 .. 1, y \in 0 .. 2 : k = 0 /\ q = 0 /\ x = 0 /\ y = 0
  OBVIOUS
<1>4. Depth' = 0 /\ ~ByApp' /\ Tries' = 0
  <2>1. Depth' = 0
    BY DEF Depth
  <2> QED BY <2>1 DEF ByApp, Tries
<1>5. Stops' = 0 /\ ~Answered' /\ ~Getting'
  BY <1>4 DEF Stops, Answered, Getting
<1>6. ~Pending(w, n, k, x)' /\ Begun(w, n)' = 0
  BY <1>2, <1>3 DEF Pending, Begun
<1>7. Layout(Once, barrier, rx, w, n, k, q)'
  <2>1. Layout(Once', barrier', <<>>, w, 0, 0, 0)
    BY LayoutEmpty
  <2> QED BY <1>2, <1>3, <2>1
<1>8. Sent(x, y)'
  <2>1. Len(tx') = 0
    OBVIOUS
  <2> QED BY <1>3, <2>1 DEF Sent
<1>9. Fresh(w, n)' /\ Reading(w, n)' /\ Owed(w, n, q, y)'
  BY <1>2, <1>3, <1>5 DEF Fresh, Reading, Owed
<1>10. Measures(w, n, k, x)'
  <2>1. x + k + Begun(w, n)' <= 1 /\ ~(dev'.stream > 0)
    BY <1>3, <1>6
  <2> QED BY <1>2, <1>3, <1>6, <2>1 DEF Measures
<1>11. Stoppable(w, n, k, x, y)'
  BY <1>2, <1>3, <1>4, <1>5 DEF Stoppable
<1>12. Counts(w, n, k, x)'
  <2>1. Remain' \in Nat
    <3>1. urg' \in UrgFields
      BY DEF TypeInv, TypeOK
    <3>2. urg'.scanning_remain_times \in 0 .. 100
      BY <3>1 DEF UrgFields
    <3>3. PICK r \in 0 .. 100 : r = urg'.scanning_remain_times
      BY <3>2
    <3>4. r \in Nat
      OBVIOUS
    <3>5. Remain' = urg'.scanning_remain_times
      BY DEF Remain
    <3> QED BY <3>3, <3>4, <3>5
  <2>2. k + Begun(w, n)' + dev'.stream + 0 <= Remain'
    BY <1>3, <1>6, <2>1
  <2> QED BY <1>3, <2>2 DEF Counts
<1>13. Content(w, n, k, q, x, y)'
  BY <1>7, <1>8, <1>9, <1>10, <1>11, <1>12 DEF Content, Tally
<1>14. pc' \in InMeasuring
  BY DEF InMeasuring
<1> QED BY <1>13, <1>14, ToMeasuring

\* A measuring command is all that is on the line.
LEMMA MeasurementSent ==
  ASSUME TypeInv', urg'.is_active, pc' = "idle", op' = "start", stack' = <<>>,
         rx' = <<>>, Len(tx') = 1, dev'.stream = 0,
         tx'[1].c = (IF Once' THEN "GD" ELSE "MD"), tx'[1].call > barrier',
         ~Once' => tx'[1].n = Scanned',
         IF Once' THEN urg'.is_laser_on /\ dev'.laser /\ ~urg'.is_sending ELSE urg'.is_sending,
         dev'.laser = urg'.is_laser_on \/ urg'.is_sending,
         Scanned' > 1 => Scanned' <= Remain'
  PROVE  PhaseInv'
<1>1. PICK w \in Unit : w = "ack"
  BY DEF Unit
<1>2. PICK n \in 0 .. ScanSize : n = 0
  BY Sizes
<1>3. PICK k \in 0 .. 2, q \in 0 .. 2, x \in 0 .. 1, y \in 0 .. 2 : k = 0 /\ q = 0 /\ x = 1 /\ y = 0
  OBVIOUS
<1>4. Depth' = 0 /\ ~ByApp' /\ Tries' = 0
  <2>1. Depth' = 0
    BY DEF Depth
  <2> QED BY <2>1 DEF ByApp, Tries
<1>5. Stops' = 0 /\ ~Answered' /\ ~Getting'
  BY <1>4 DEF Stops, Answered, Getting
<1>6. Begun(w, n)' = 0
  BY <1>2 DEF Begun
<1>7. Layout(Once, barrier, rx, w, n, k, q)'
  <2>1. Layout(Once', barrier', <<>>, w, 0, 0, 0)
    BY LayoutEmpty
  <2> QED BY <1>2, <1>3, <2>1
<1>8. Sent(x, y)'
  <2>1. \A i \in x + 1 .. Len(tx') : FALSE
    BY <1>3
  <2> QED BY <1>3, <2>1 DEF Sent
<1>9. Fresh(w, n)' /\ Reading(w, n)' /\ Owed(w, n, q, y)'
  BY <1>2, <1>3, <1>5 DEF Fresh, Reading, Owed
<1>10. Measures(w, n, k, x)'
  <2>1. x + k + Begun(w, n)' <= 1 /\ ~(dev'.stream > 0)
    BY <1>3, <1>6
  <2> QED BY <1>2, <1>3, <1>6, <2>1 DEF Measures
<1>11. Stoppable(w, n, k, x, y)'
  BY <1>2, <1>3, <1>4, <1>5 DEF Stoppable
<1>12. Counts(w, n, k, x)'
  <2>1. Remain' \in Int /\ Scanned' \in Int
    <3>1. urg' \in UrgFields
      BY DEF TypeInv, TypeOK
    <3>2. urg'.scanning_remain_times \in 0 .. 100 /\ urg'.specified_scan_times \in 0 .. 99
      BY <3>1 DEF UrgFields
    <3>3. PICK r \in 0 .. 100 : r = urg'.scanning_remain_times
      BY <3>2
    <3>4. PICK t \in 0 .. 99 : t = urg'.specified_scan_times
      BY <3>2
    <3>5. r \in Int /\ t \in Int
      OBVIOUS
    <3>6. Remain' = urg'.scanning_remain_times /\ Scanned' = urg'.specified_scan_times
      BY DEF Remain, Scanned
    <3> QED BY <3>3, <3>4, <3>5, <3>6
  <2>2. ASSUME Scanned' > 1
        PROVE  k + Begun(w, n)' + dev'.stream + Scanned' <= Remain' /\ Remain' >= 1
    <3>1. k + Begun(w, n)' + dev'.stream = 0
      BY <1>3, <1>6
    <3>2. Scanned' <= Remain'
      BY <2>2
    <3>3. \A a, b, c \in Int : a > 1 /\ a <= b /\ c = 0 => c + a <= b /\ b >= 1
      OBVIOUS
    <3>4. k + Begun(w, n)' + dev'.stream \in Int
      BY <3>1
    <3> QED BY <2>1, <2>2, <3>1, <3>2, <3>3, <3>4
  <2> QED BY <1>3, <2>2 DEF Counts
<1>13. Content(w, n, k, q, x, y)'
  BY <1>7, <1>8, <1>9, <1>10, <1>11, <1>12 DEF Content, Tally
<1>14. pc' \in InMeasuring
  BY DEF InMeasuring
<1> QED BY <1>13, <1>14, ToMeasuring

\* The only command on the line.
LEMMA WriteAlone ==
  ASSUME TypeInv, tx = <<>>, NEW c \in CommandName, NEW n \in 0 .. Endless, Write(c, n)
  PROVE  Len(tx') = 1 /\ tx'[1].c = c /\ tx'[1].n = n /\ tx'[1].call = calls
<1>1. tx' = <<[c |-> c, n |-> n, call |-> calls]>>
  BY DEF Write
<1> QED BY <1>1

\* MD goes out.
LEMMA ContinuousTimely ==
  ASSUME Timely, TypeInv, TypeInv', CallInv, StartContinuous,
         NEW w \in Unit, NEW n \in 0 .. ScanSize, NEW k \in 0 .. 2, NEW q \in 0 .. 2,
         NEW x \in 0 .. 1, NEW y \in 0 .. 2, Content(w, n, k, q, x, y)
  PROVE  CallInv' /\ PhaseInv'
<1>0. Reached
  BY ReachedIs
<1>1. /\ pc = "entry" /\ op = "start" /\ urg.is_active
      /\ UNCHANGED <<rx, dev, unit, noise, link, op, good, resume, seen, calls,
                     stack, type, steps, barrier>>
  BY DEF StartContinuous, Entered, At, localVars
<1>2. PICK times \in ScanTimes \ {1} :
        SendDistanceCommand("MD", Requested(times).specified_scan_times,
                            [Requested(times) EXCEPT !.is_sending = TRUE])
  BY DEF StartContinuous
<1>3. /\ rx = <<>> /\ tx = <<>> /\ dev.stream = 0 /\ stack = <<>>
  BY <1>1, Quiet
<1>4. CanWrite /\ link = "open" /\ barrier < calls /\ ~dev.tm
  BY <1>1 DEF CallInv, CanWrite
<1>5. PICK asked \in 0 .. 99 : /\ asked = (IF times >= 100 THEN 0 ELSE times)
                               /\ asked # 1 /\ (asked > 1 => asked = times)
                               /\ times \in 0 .. 100
  <2>1. times \in 0 .. 100 /\ times # 1
    BY UrgAssumption
  <2> QED BY <2>1
<1>6. Requested(times) = [urg EXCEPT !.specified_scan_times = asked, !.scanning_remain_times = times]
  BY <1>5 DEF Requested
<1>7. /\ Requested(times).specified_scan_times = asked
      /\ Write("MD", asked) /\ pc' = "idle" /\ scans' = 0
      /\ urg' = [urg EXCEPT !.specified_scan_times = asked, !.scanning_remain_times = times,
                            !.is_sending = TRUE]
  <2>1. urg \in UrgFields
    BY <1>0 DEF Reached
  <2>2. Requested(times).specified_scan_times = asked
    BY <1>6, <2>1 DEF UrgFields
  <2> QED BY <1>2, <1>4, <1>6, <2>2 DEF SendDistanceCommand, Returns
<1>8. urg'.is_active /\ urg'.is_sending /\ Scanned' = asked /\ Remain' = times
  <2>1. urg \in UrgFields
    BY <1>0 DEF Reached
  <2> QED BY <1>1, <1>7, <2>1 DEF UrgFields, Scanned, Remain
<1>9. ~Once'
  <2>1. Once' <=> Scanned' = 1
    BY DEF Once
  <2> QED BY <1>5, <1>8, <2>1
<1>10. Len(tx') = 1 /\ tx'[1].c = "MD" /\ tx'[1].n = asked /\ tx'[1].call = calls
  <2>1. "MD" \in CommandName /\ asked \in 0 .. Endless
    BY DEF CommandName, Endless
  <2> QED BY <1>3, <1>7, <2>1, WriteAlone
<1>11. Scanned' > 1 => Scanned' <= Remain' /\ scans' + Remain' <= Scanned'
  <2>1. asked > 1 => asked <= times /\ 0 + times <= asked
    BY <1>5
  <2> QED BY <1>7, <1>8, <2>1
<1>12. CallInv'
  BY <1>1, <1>4, <1>7, <1>11 DEF CallInv
<1>13. tx'[1].call > barrier'
  BY <1>0, <1>1, <1>4, <1>10 DEF Reached
<1>14. PhaseInv'
  BY <1>1, <1>3, <1>7, <1>8, <1>9, <1>10, <1>11, <1>13, MeasurementSent
<1> QED BY <1>12, <1>14

\* A command is all that is on the line, and its answer is waited for.
LEMMA Asks ==
  ASSUME TypeInv, link = "open", rx = <<>>, tx = <<>>, dev.stream = 0,
         UNCHANGED <<rx, dev, calls>>,
         NEW u, u.is_active, ~u.is_sending, ScipBegins(op', u),
         op' \in {"start", "laser", "tm0", "tm1", "tm2", "info", "sleep", "reboot", "reboot2"},
         op' = "start" => u.specified_scan_times = 1,
         op' = "reboot2" => dev.rb \/ ~dev.laser,
         op' \notin {"reboot", "reboot2"} => dev.laser = u.is_laser_on
  PROVE  PhaseInv' /\ pc' = "scip_echo" /\ seen' = {} /\ urg' = u
<1>1. CommandOf(op') \in CommandName /\ 0 \in 0 .. Endless
  BY DEF CommandOf, CommandName, Endless
<1>2. Write(CommandOf(op'), 0) /\ pc' = "scip_echo" /\ urg' = u /\ seen' = {}
  BY DEF ScipBegins, CanWrite
<1>3. Len(tx') = 1 /\ tx'[1].c = CommandOf(op') /\ tx'[1].call = calls
  BY <1>1, <1>2, WriteAlone
<1>4. Unanswered'
  BY <1>2, <1>3 DEF Unanswered
<1>5. AskingInv'
  BY <1>2, <1>4 DEF AskingInv, Once, Scanned
<1>6. ~Leaving' /\ pc' \in InScip
  BY <1>2 DEF Leaving, InScip
<1> QED BY <1>2, <1>5, <1>6 DEF PhaseInv

\* GD goes out, or BM before it.
LEMMA SingleTimely ==
  ASSUME Timely, TypeInv, TypeInv', CallInv, StartSingle,
         NEW w \in Unit, NEW n \in 0 .. ScanSize, NEW k \in 0 .. 2, NEW q \in 0 .. 2,
         NEW x \in 0 .. 1, NEW y \in 0 .. 2, Content(w, n, k, q, x, y)
  PROVE  CallInv' /\ PhaseInv'
<1>0. Reached
  BY ReachedIs
<1>1. /\ pc = "entry" /\ op = "start" /\ urg.is_active /\ 1 \in ScanTimes
      /\ UNCHANGED <<rx, dev, unit, noise, link, op, resume, calls, stack, type, steps, barrier>>
  BY DEF StartSingle, Entered, At, localVars
<1>2. /\ rx = <<>> /\ tx = <<>> /\ dev.stream = 0 /\ stack = <<>>
      /\ ~urg.is_sending /\ dev.laser = urg.is_laser_on
  BY <1>1, Quiet
<1>3. CanWrite /\ link = "open" /\ barrier < calls /\ ~dev.tm
  BY <1>1 DEF CallInv, CanWrite
<1>4. PICK u \in UrgFields :
        /\ u = Requested(1)
        /\ u.is_active /\ ~u.is_sending /\ u.is_laser_on = urg.is_laser_on
        /\ u.specified_scan_times = 1
  <2>1. urg \in UrgFields
    BY <1>0 DEF Reached
  <2>2. Requested(1) = [urg EXCEPT !.specified_scan_times = 1, !.scanning_remain_times = 1]
    BY DEF Requested
  <2>3. Requested(1) \in UrgFields
    BY <1>1, <2>1, RequestedTypes
  <2> QED BY <1>1, <1>2, <2>1, <2>2, <2>3 DEF UrgFields
<1>5. CASE urg.is_laser_on
  <2>1. /\ SendDistanceCommand("GD", 0, [u EXCEPT !.last_errno = "NO_ERROR"])
        /\ UNCHANGED seen
    BY <1>4, <1>5 DEF StartSingle
  <2>2. /\ Write("GD", 0) /\ pc' = "idle" /\ scans' = 0
        /\ urg' = [u EXCEPT !.last_errno = "NO_ERROR"]
    BY <1>3, <2>1 DEF SendDistanceCommand, Returns
  <2>3. /\ urg'.is_active /\ ~urg'.is_sending /\ urg'.is_laser_on = urg.is_laser_on
        /\ urg'.specified_scan_times = 1
    BY <1>4, <2>2 DEF UrgFields
  <2>4. Scanned' = 1 /\ Once' /\ ~(Scanned' > 1)
    BY <2>3 DEF Scanned, Once
  <2>5. Len(tx') = 1 /\ tx'[1].c = "GD" /\ tx'[1].n = 0 /\ tx'[1].call = calls
    <3>1. "GD" \in CommandName /\ 0 \in 0 .. Endless
      BY DEF CommandName, Endless
    <3> QED BY <1>2, <2>2, <3>1, WriteAlone
  <2>6. CallInv'
    BY <1>1, <1>3, <2>1, <2>2, <2>4 DEF CallInv
  <2>7. tx'[1].call > barrier'
    BY <1>0, <1>1, <1>3, <2>5 DEF Reached
  <2>8. PhaseInv'
    BY <1>1, <1>2, <1>5, <2>2, <2>3, <2>4, <2>5, <2>7, MeasurementSent
  <2> QED BY <2>6, <2>8
<1>6. CASE ~urg.is_laser_on
  <2>1. ScipBegins(op', u) /\ scans' = scans
    BY <1>1, <1>4, <1>6 DEF StartSingle
  <2>2. PhaseInv' /\ pc' = "scip_echo" /\ seen' = {} /\ urg' = u
    BY <1>1, <1>2, <1>3, <1>4, <2>1, Asks
  <2>3. Scanned' = 1 /\ ~(Scanned' > 1)
    BY <1>4, <2>2 DEF Scanned
  <2>4. CallInv'
    BY <1>1, <1>3, <2>2, <2>3 DEF CallInv
  <2> QED BY <2>2, <2>4
<1> QED BY <1>5, <1>6

\* The functions that ask one thing.
LEMMA Command1Timely ==
  ASSUME Timely, TypeInv, CallInv, Command1,
         NEW w \in Unit, NEW n \in 0 .. ScanSize, NEW k \in 0 .. 2, NEW q \in 0 .. 2,
         NEW x \in 0 .. 1, NEW y \in 0 .. 2, Content(w, n, k, q, x, y)
  PROVE  CallInv' /\ PhaseInv'
<1>1. /\ pc = "entry" /\ op \in {"laser", "tm0", "tm1", "tm2", "info", "reboot"}
      /\ urg.is_active /\ ScipBegins(op', urg)
      /\ UNCHANGED <<rx, dev, unit, noise, link, op, resume, calls, stack, type, steps,
                     barrier, scans>>
  BY DEF Command1, Entered, At, localVars, historyVars
<1>2. /\ rx = <<>> /\ tx = <<>> /\ dev.stream = 0 /\ ~urg.is_sending
      /\ dev.laser = urg.is_laser_on
  BY <1>1, Quiet
<1>3. link = "open"
  BY <1>1 DEF CallInv
<1>4. PhaseInv' /\ pc' = "scip_echo" /\ seen' = {} /\ urg' = urg
  BY <1>1, <1>2, <1>3, Asks
<1>5. CallInv'
  BY <1>1, <1>4 DEF CallInv, Scanned, Remain
<1> QED BY <1>4, <1>5

\* urg_sleep after its stop.
LEMMA SleepTimely ==
  ASSUME Timely, TypeInv, CallInv, SleepGoesOn,
         NEW w \in Unit, NEW n \in 0 .. ScanSize, NEW k \in 0 .. 2, NEW q \in 0 .. 2,
         NEW x \in 0 .. 1, NEW y \in 0 .. 2, Content(w, n, k, q, x, y)
  PROVE  CallInv' /\ PhaseInv'
<1>1. /\ pc = "stop_done" /\ op = "sleep" /\ Head(stack).by = "app"
      /\ ret = "OK" => ScipBegins(op', urg)
      /\ UNCHANGED <<rx, dev, unit, noise, link, op, resume, calls, type, steps, barrier, scans>>
  BY DEF SleepGoesOn, At, historyVars
<1>2. /\ urg.is_active /\ link = "open" /\ stack # <<>> /\ n = 0 /\ x = 0 /\ k = 0
      /\ ret = "OK" /\ Dark /\ ~urg.is_sending /\ ~urg.is_laser_on
      /\ Depth \in {1, 2} /\ Stops = y + q + 1
  BY <1>1, StopEnds DEF InGet
<1>3. y = 0 /\ q = 0
  <2>1. Depth > 1 => Head(stack).by = "auto"
    BY StackIs
  <2>2. Depth = 1 /\ Stops <= 1
    BY <1>1, <1>2, <2>1 DEF Stops
  <2> QED BY <1>2, <2>2
<1>4. tx = <<>> /\ rx = <<>>
  <2>1. Len(tx) = 0 /\ tx \in Seq(Command)
    BY <1>2, <1>3, Before DEF Content, Sent
  <2>2. Layout(Once, barrier, rx, w, 0, 0, 0) /\ rx \in Seq(Line) /\ 0 \in 0 .. 2
    BY <1>2, <1>3, Before DEF Content
  <2>3. tx = <<>>
    BY <2>1
  <2>4. rx = <<>>
    BY <2>2, LayoutTurns
  <2> QED BY <2>3, <2>4
<1>5. dev.laser = urg.is_laser_on
  BY <1>2, ReachedIs DEF Dark, Reached, Dev, UrgFields
<1>6. PhaseInv' /\ pc' = "scip_echo" /\ seen' = {} /\ urg' = urg
  BY <1>1, <1>2, <1>4, <1>5, Asks DEF Dark
<1>7. CallInv'
  BY <1>1, <1>6 DEF CallInv, Scanned, Remain
<1> QED BY <1>6, <1>7

\* The laser is lit already.
LEMMA LaserAlreadyTimely ==
  ASSUME Timely, TypeInv, TypeInv', CallInv, LaserAlreadyOn,
         NEW w \in Unit, NEW n \in 0 .. ScanSize, NEW k \in 0 .. 2, NEW q \in 0 .. 2,
         NEW x \in 0 .. 1, NEW y \in 0 .. 2, Content(w, n, k, q, x, y)
  PROVE  CallInv' /\ PhaseInv'
<1>1. /\ pc = "entry" /\ op = "laser" /\ urg.is_active /\ pc' = "idle"
      /\ urg' = [urg EXCEPT !.last_errno = "NO_ERROR"]
      /\ UNCHANGED <<tx, rx, dev, link, op, seen, calls, stack, barrier, scans>>
  BY DEF LaserAlreadyOn, Entered, At, Returns, sensorVars, localVars, historyVars
<1>2. /\ rx = <<>> /\ tx = <<>> /\ dev.stream = 0 /\ ~urg.is_sending
      /\ dev.laser = urg.is_laser_on /\ stack = <<>>
  BY <1>1, Quiet
<1>3. UrgAsBefore
  BY <1>1, ReachedIs DEF Reached, UrgFields, UrgAsBefore
<1>4. CallInv'
  BY <1>1, <1>3 DEF CallInv, UrgAsBefore, Scanned, Remain
<1>5. PhaseInv'
  BY <1>1, <1>2, <1>3, AtRest DEF UrgAsBefore
<1> QED BY <1>4, <1>5

-----------------------------------------------------------------------------
(***************************************************************************)
(* The sensor, while a measurement may be on.                              *)
(***************************************************************************)

\* The oldest command on its way.
LEMMA NextCommand ==
  ASSUME TypeInv, CallInv, tx # <<>>, pc \notin InScip,
         NEW w \in Unit, NEW n \in 0 .. ScanSize, NEW k \in 0 .. 2, NEW q \in 0 .. 2,
         NEW x \in 0 .. 1, NEW y \in 0 .. 2, Content(w, n, k, q, x, y)
  PROVE  /\ Head(tx) = tx[1] /\ Head(tx) \in Command /\ Tail(tx) \in Seq(Command)
         /\ Len(Tail(tx)) = Len(tx) - 1
         /\ \A i \in 1 .. Len(Tail(tx)) : Tail(tx)[i] = tx[i + 1]
         /\ x = 1 \/ (x = 0 /\ y >= 1 /\ Head(tx).c = "QT")
         /\ x = 1 => Head(tx).c = IF Once THEN "GD" ELSE "MD"
         /\ Head(tx).c \in {"QT", "GD", "MD"}
         /\ ~dev.tm
<1>0. tx \in Seq(Command) /\ Depth \in Nat
  BY Before, ReachedIs DEF Reached
<1>1. /\ Head(tx) = tx[1] /\ Head(tx) \in Command /\ Tail(tx) \in Seq(Command)
      /\ Len(Tail(tx)) = Len(tx) - 1 /\ Len(tx) \in Nat /\ Len(tx) >= 1
      /\ \A i \in 1 .. Len(Tail(tx)) : Tail(tx)[i] = tx[i + 1]
  BY <1>0
<1>2. Len(tx) = x + y /\ (\A i \in x + 1 .. Len(tx) : tx[i].c = "QT")
  BY DEF Content, Sent
<1>3. x = 1 \/ (x = 0 /\ y >= 1 /\ Head(tx).c = "QT")
  <2>1. ASSUME x = 0 PROVE y >= 1 /\ Head(tx).c = "QT"
    BY <1>1, <1>2, <2>1
  <2> QED BY <2>1
<1>4. x = 1 => Head(tx).c = IF Once THEN "GD" ELSE "MD"
  BY <1>1 DEF Content, Sent
<1>5. ASSUME dev.tm PROVE FALSE
  <2>1. /\ op \in {"tm0", "tm1", "tm2", "info", "close"}
        /\ ~urg.is_laser_on /\ ~urg.is_sending
    BY <1>5 DEF CallInv
  <2>2. Depth = 0
    BY <1>0, <2>1 DEF Content, Tally, Stoppable
  <2>3. Stops = 0 /\ ~Answered
    <3>1. pc \notin {"rd_done", "stop_done"}
      BY <2>2, ReachedIs, Before DEF Reached, Inside, InReceive
    <3> QED BY <2>2, <3>1 DEF Stops, Answered
  <2>4. y = 0
    BY <2>3 DEF Content, Tally, Owed
  <2>5. ~Pending(w, n, k, x)
    BY <2>1 DEF Content, Tally, Measures
  <2> QED BY <1>3, <2>4, <2>5 DEF Pending
<1> QED BY <1>1, <1>3, <1>4, <1>5

\* Nothing but the sensor has moved.
LEMMA CallInvSensor ==
  ASSUME CallInv, UNCHANGED <<link, urg, pc, op, ret, seen, calls, barrier, scans>>,
         dev'.tm => dev.tm
  PROVE  CallInv'
BY DEF CallInv, Scanned, Remain

\* The sensor stops.
LEMMA SensorQTTimely ==
  ASSUME Timely, TypeInv, CallInv, SensorQT, ~Leaving, pc \notin InScip,
         UNCHANGED <<hostVars, localVars, historyVars>>,
         NEW w \in Unit, NEW n \in 0 .. ScanSize, NEW k \in 0 .. 2, NEW q \in 0 .. 2,
         NEW x \in 0 .. 1, NEW y \in 0 .. 2, Content(w, n, k, q, x, y)
  PROVE  CallInv' /\ PhaseInv'
<1>0. Reached /\ unit \in Nat
  BY ReachedIs DEF TypeInv, TypeOK, SensorTypeOK
<1>1. /\ UNCHANGED <<link, urg, pc, op, ret, good, resume, seen, calls, stack, type,
                     steps, barrier, scans>>
      /\ urg.is_active /\ pc \in InMeasuring
  <2>1. pc \in Point
    BY Before
  <2> QED BY <2>1 DEF hostVars, localVars, historyVars, Leaving, InMeasuring, Point, Outside
<1>2. /\ tx # <<>> /\ Head(tx).c = "QT" /\ tx' = Tail(tx)
      /\ rx' = rx \o Answer(Head(tx), "00", <<>>)
      /\ dev' = [[dev EXCEPT !.stream = 0, !.laser = FALSE] EXCEPT !.rb = (Head(tx).c = "RB" /\ ~dev.rb)]
  BY DEF SensorQT, Reacts, Says
<1>3. /\ Head(tx) = tx[1] /\ Head(tx) \in Command /\ Len(Tail(tx)) = Len(tx) - 1
      /\ \A i \in 1 .. Len(Tail(tx)) : Tail(tx)[i] = tx[i + 1]
      /\ x = 1 \/ (x = 0 /\ y >= 1)
      /\ x = 1 => Head(tx).c = IF Once THEN "GD" ELSE "MD"
  BY <1>2, NextCommand
<1>4. x = 0 /\ y >= 1
  BY <1>2, <1>3
<1>5. dev'.stream = 0 /\ ~dev'.laser /\ dev'.tm = dev.tm /\ Dark'
  BY <1>0, <1>2 DEF Reached, Dev, Dark
<1>6. CallInv'
  BY <1>1, <1>5, CallInvSensor
<1>7. /\ Depth' = Depth /\ (ByApp' <=> ByApp) /\ Tries' = Tries /\ Head(stack)' = Head(stack)
      /\ (Once' <=> Once) /\ (Scanned' = Scanned) /\ (Remain' = Remain)
  BY <1>1, StackStays DEF Once, Scanned, Remain
<1>8. /\ Stops' = Stops /\ (Getting' <=> Getting) /\ (Answered' <=> Answered)
  <2>1. Stops' = Stops /\ (Getting' <=> Getting)
    BY ONLY <1>7 DEF Stops, Getting
  <2> QED BY <1>1, <2>1 DEF Answered
<1>9. q \in 0 .. 1 /\ Stops \in Nat /\ Stops >= 1
  <2>1. Depth <= 2 /\ Owed(w, n, q, y)
    BY DEF Content, Tally, Stoppable
  <2>2. Stops \in Nat /\ Stops <= 2
    BY <1>0, <2>1 DEF Stops, Reached, ByApp
  <2>3. Stops >= y + q
    BY <2>1 DEF Owed
  <2> QED BY <1>4, <2>2, <2>3
<1>10. PICK q2 \in 0 .. 2, y2 \in 0 .. 2 : q2 = q + 1 /\ y2 = y - 1
  BY <1>4, <1>9
<1>11. Layout(Once, barrier, rx, w, n, k, q2)'
  <2>1. PICK a : a = Answer(Head(tx), "00", <<>>)
    OBVIOUS
  <2>2. a \in Seq(Line) /\ Len(a) = 3 /\ Part(Once, barrier, a, 0, "stop", 3)
    BY <1>0, <1>2, <1>3, <2>1, StopFits
  <2>3. Layout(Once, barrier, rx, w, n, k, q) /\ rx \in Seq(Line) /\ n \in Nat
    BY Before DEF Content
  <2>4. Layout(Once, barrier, rx \o a, w, n, k, q + 1)
    BY <1>9, <2>2, <2>3, LayoutStop
  <2> QED BY <1>1, <1>2, <1>10, <2>1, <2>4 DEF Once, Scanned
<1>12. Sent(x, y2)'
  <2>1. Len(tx) = x + y /\ (\A i \in x + 1 .. Len(tx) : tx[i].c = "QT")
    BY DEF Content, Sent
  <2>2. Len(tx') = x + y2
    BY <1>2, <1>3, <1>10, <2>1
  <2>3. \A i \in x + 1 .. Len(tx') : tx'[i].c = "QT"
    BY <1>2, <1>3, <1>4, <1>10, <2>1, <2>2
  <2> QED BY <1>4, <2>2, <2>3 DEF Sent
<1>13. Fresh(w, n)' /\ Reading(w, n)' /\ Begun(w, n)' = Begun(w, n)
  BY <1>1 DEF Content, Tally, Fresh, Reading, Begun
<1>14. Pending(w, n, k, x)' => Pending(w, n, k, x)
  BY <1>1, <1>5 DEF Pending
<1>15. Owed(w, n, q2, y2)'
  <2>1. Owed(w, n, q, y) /\ q2 + y2 = q + y
    BY <1>10 DEF Content, Tally
  <2>2. Stops' = (y + q) + (IF w = "stop" /\ n > 0 THEN 1 ELSE 0) + (IF Answered THEN 1 ELSE 0)
    BY <1>8, <2>1 DEF Owed
  <2> QED BY <1>8, <2>1, <2>2 DEF Owed
<1>16. Measures(w, n, k, x)'
  BY <1>1, <1>5, <1>7, <1>8, <1>9, <1>13, <1>14 DEF Content, Tally, Measures
<1>17. Spent(w, n, k, x)' = Spent(w, n, k, x)
  BY <1>1, <1>7, <1>13 DEF Spent
<1>18. Stoppable(w, n, k, x, y2)'
  BY <1>1, <1>4, <1>5, <1>7, <1>8, <1>17 DEF Content, Tally, Stoppable
<1>19. Counts(w, n, k, x)'
  <2>1. ASSUME Scanned > 1 PROVE k + Begun(w, n) + 0 + (IF x = 1 THEN Scanned ELSE 0) <= Remain
    <3>1. k + Begun(w, n) + dev.stream + (IF x = 1 THEN Scanned ELSE 0) <= Remain
      BY <2>1 DEF Content, Tally, Counts
    <3>2. Begun(w, n) \in Nat
      BY DEF Begun
    <3> QED BY <1>0, <1>4, <3>1, <3>2 DEF Reached
  <2> QED BY <1>1, <1>5, <1>7, <1>13, <2>1 DEF Content, Tally, Counts
<1>20. Content(w, n, k, q2, x, y2)'
  BY <1>11, <1>12, <1>13, <1>15, <1>16, <1>18, <1>19 DEF Content, Tally
<1>21. urg'.is_active /\ pc' \in InMeasuring
  BY <1>1
<1> QED BY <1>6, <1>20, <1>21, ToMeasuring

\* What the sensor finds when a measuring command is on its way.
LEMMA NothingBefore ==
  ASSUME NEW w \in Unit, NEW n \in 0 .. ScanSize, NEW k \in 0 .. 2, NEW q \in 0 .. 2,
         NEW x \in 0 .. 1, NEW y \in 0 .. 2, Content(w, n, k, q, x, y), x = 1
  PROVE  /\ pc \in {"idle", "entry", "rd_echo"} /\ rx = <<>> /\ dev.stream = 0
         /\ n = 0 /\ k = 0 /\ q = 0 /\ ~Answered
         /\ ~(Stops >= 1 /\ y < Stops) /\ Begun(w, n) = 0
<1>1. pc \in {"idle", "entry", "rd_echo"} /\ rx = <<>> /\ dev.stream = 0
  BY DEF Content, Sent
<1>2. n = 0 /\ k = 0 /\ q = 0
  <2>1. Layout(Once, barrier, <<>>, w, n, k, q) /\ n \in Nat
    BY <1>1 DEF Content
  <2> QED BY <2>1, LayoutEmpty
<1>3. ~Answered /\ Begun(w, n) = 0
  BY <1>1, <1>2 DEF Answered, Begun
<1>4. ~(Stops >= 1 /\ y < Stops)
  BY DEF Content, Tally, Stoppable
<1> QED BY <1>1, <1>2, <1>3, <1>4

\* What is behind it stays.
LEMMA SentTail ==
  ASSUME TypeInv, tx # <<>>, tx' = Tail(tx), NEW y \in 0 .. 2, Sent(1, y)
  PROVE  Sent(0, y)'
<1>1. tx \in Seq(Command)
  BY Before
<1>2. /\ Len(tx) \in Nat /\ Len(tx') = Len(tx) - 1
      /\ \A i \in 1 .. Len(tx') : tx'[i] = tx[i + 1]
  BY <1>1
<1>3. Len(tx) = 1 + y /\ (\A i \in 1 + 1 .. Len(tx) : tx[i].c = "QT")
  BY DEF Sent
<1>4. Len(tx') = 0 + y
  BY <1>2, <1>3
<1>5. \A i \in 0 + 1 .. Len(tx') : tx'[i].c = "QT"
  <2> TAKE i \in 0 + 1 .. Len(tx')
  <2>1. i + 1 \in 1 + 1 .. Len(tx) /\ i \in 1 .. Len(tx')
    BY <1>2
  <2> QED BY <1>2, <1>3, <2>1
<1> QED BY <1>4, <1>5 DEF Sent

\* The sensor measures once.
LEMMA SensorGDTimely ==
  ASSUME Timely, TypeInv, CallInv, SensorGD, ~Leaving, pc \notin InScip,
         UNCHANGED <<hostVars, localVars, historyVars>>,
         NEW w \in Unit, NEW n \in 0 .. ScanSize, NEW k \in 0 .. 2, NEW q \in 0 .. 2,
         NEW x \in 0 .. 1, NEW y \in 0 .. 2, Content(w, n, k, q, x, y)
  PROVE  CallInv' /\ PhaseInv'
<1>0. Reached /\ unit \in Nat
  BY ReachedIs DEF TypeInv, TypeOK, SensorTypeOK
<1>1. /\ UNCHANGED <<link, urg, pc, op, ret, good, resume, seen, calls, stack, type,
                     steps, barrier, scans>>
      /\ urg.is_active /\ pc \in InMeasuring
  <2>1. pc \in Point
    BY Before
  <2> QED BY <2>1 DEF hostVars, localVars, historyVars, Leaving, InMeasuring, Point, Outside
<1>2. tx # <<>> /\ Head(tx).c = "GD" /\ tx' = Tail(tx)
  BY DEF SensorGD, Reacts
<1>3. x = 1 /\ Once /\ Head(tx) = tx[1] /\ Head(tx) \in Command
  BY <1>2, NextCommand
<1>4. /\ rx = <<>> /\ dev.stream = 0 /\ n = 0 /\ k = 0 /\ q = 0 /\ ~Answered
      /\ ~(Stops >= 1 /\ y < Stops) /\ Begun(w, n) = 0
      /\ pc \in {"idle", "entry", "rd_echo"}
  BY <1>3, NothingBefore
<1>5. dev.laser /\ Head(tx).call > barrier
  BY <1>3 DEF Content, Sent
<1>6. /\ rx' = rx \o Answer(Head(tx), "00", ScanBody)
      /\ dev' = [dev EXCEPT !.rb = (Head(tx).c = "RB" /\ ~dev.rb)]
  BY <1>5 DEF SensorGD, Reacts, Says
<1>7. dev'.stream = 0 /\ dev'.laser = dev.laser /\ dev'.tm = dev.tm
  BY <1>0, <1>4, <1>6 DEF Reached, Dev
<1>8. CallInv'
  BY <1>1, <1>7, CallInvSensor
<1>9. /\ Depth' = Depth /\ (ByApp' <=> ByApp) /\ Tries' = Tries /\ Head(stack)' = Head(stack)
      /\ (Once' <=> Once) /\ (Scanned' = Scanned) /\ (Remain' = Remain)
  BY <1>1, StackStays DEF Once, Scanned, Remain
<1>10. /\ Stops' = Stops /\ (Getting' <=> Getting) /\ ~Answered'
  <2>1. Stops' = Stops /\ (Getting' <=> Getting)
    BY ONLY <1>9 DEF Stops, Getting
  <2> QED BY <1>1, <1>4, <2>1 DEF Answered
<1>11. PICK k2 \in 0 .. 2, x2 \in 0 .. 1 : k2 = 1 /\ x2 = 0
  OBVIOUS
<1>12. Layout(Once, barrier, rx, w, n, k2, q)'
  <2>1. PICK a : a = Answer(Head(tx), "00", ScanBody)
    OBVIOUS
  <2>2. a \in Seq(Line) /\ Len(a) = ScanSize /\ Part(Once, barrier, a, 0, "scan", ScanSize)
    <3>1. "00" \in Status /\ barrier \in Nat
      BY <1>0 DEF Status, Reached
    <3> QED BY <1>0, <1>2, <1>3, <1>5, <2>1, <3>1, ScanFits
  <2>3. Layout(Once, barrier, rx, w, n, 0, 0) /\ rx \in Seq(Line) /\ n \in Nat /\ 0 \in 0 .. 1
    BY <1>4, Before DEF Content
  <2>4. Layout(Once, barrier, rx \o a, w, n, 0 + 1, 0)
    BY <2>2, <2>3, LayoutScan
  <2> QED BY <1>1, <1>4, <1>6, <1>11, <2>1, <2>4 DEF Once, Scanned
<1>13. Sent(x2, y)'
  <2>1. Sent(1, y)
    BY <1>3 DEF Content
  <2> QED BY <1>2, <1>11, <2>1, SentTail
<1>14. Fresh(w, n)' /\ Reading(w, n)' /\ Begun(w, n)' = 0
  BY <1>1, <1>4 DEF Content, Tally, Fresh, Reading, Begun
<1>15. Pending(w, n, k, x) /\ Pending(w, n, k2, x2)'
  BY <1>3, <1>11 DEF Pending
<1>16. Owed(w, n, q, y)'
  BY <1>4, <1>10 DEF Content, Tally, Owed
<1>17. Measures(w, n, k2, x2)'
  <2>1. x2 + k2 + Begun(w, n)' <= 1
    BY <1>11, <1>14
  <2>2. pc' # "rd_done" /\ ~(dev'.stream > 0)
    BY <1>1, <1>4, <1>7
  <2> QED BY <1>1, <1>3, <1>7, <1>9, <1>10, <1>15, <2>1, <2>2 DEF Content, Tally, Measures
<1>18. Spent(w, n, k2, x2)' = Spent(w, n, k, x)
  BY <1>1, <1>3, <1>4, <1>9, <1>11, <1>14 DEF Spent
<1>19. Stoppable(w, n, k2, x2, y)'
  <2>1. ~(Stops' >= 1 /\ y < Stops') /\ ~((w = "stop" /\ n > 0) \/ Answered')
    BY <1>4, <1>10
  <2> QED BY <1>1, <1>4, <1>9, <1>10, <1>18, <2>1 DEF Content, Tally, Stoppable
<1>20. Counts(w, n, k2, x2)'
  <2>1. ~(Scanned' > 1)
    BY <1>3, <1>9 DEF Once
  <2> QED BY <2>1 DEF Counts
<1>21. Content(w, n, k2, q, x2, y)'
  BY <1>12, <1>13, <1>14, <1>16, <1>17, <1>19, <1>20 DEF Content, Tally
<1>22. urg'.is_active /\ pc' \in InMeasuring
  BY <1>1
<1> QED BY <1>8, <1>21, <1>22, ToMeasuring

\* The sensor begins to stream.
LEMMA SensorMDTimely ==
  ASSUME Timely, TypeInv, CallInv, SensorMD, ~Leaving, pc \notin InScip,
         UNCHANGED <<hostVars, localVars, historyVars>>,
         NEW w \in Unit, NEW n \in 0 .. ScanSize, NEW k \in 0 .. 2, NEW q \in 0 .. 2,
         NEW x \in 0 .. 1, NEW y \in 0 .. 2, Content(w, n, k, q, x, y)
  PROVE  CallInv' /\ PhaseInv'
<1>0. Reached /\ unit \in Nat
  BY ReachedIs DEF TypeInv, TypeOK, SensorTypeOK
<1>1. /\ UNCHANGED <<link, urg, pc, op, ret, good, resume, seen, calls, stack, type,
                     steps, barrier, scans>>
      /\ urg.is_active /\ pc \in InMeasuring
  <2>1. pc \in Point
    BY Before
  <2> QED BY <2>1 DEF hostVars, localVars, historyVars, Leaving, InMeasuring, Point, Outside
<1>2. /\ tx # <<>> /\ Head(tx).c = "MD" /\ tx' = Tail(tx)
      /\ rx' = rx \o Answer(Head(tx), "00", <<>>)
      /\ dev' = [[dev EXCEPT !.stream = IF Head(tx).n = 0 THEN Endless ELSE Head(tx).n,
                             !.job = Head(tx), !.laser = TRUE]
                    EXCEPT !.rb = (Head(tx).c = "RB" /\ ~dev.rb)]
  BY DEF SensorMD, Reacts, Says
<1>3. x = 1 /\ ~Once /\ Head(tx) = tx[1] /\ Head(tx) \in Command
  BY <1>2, NextCommand
<1>4. /\ rx = <<>> /\ dev.stream = 0 /\ n = 0 /\ k = 0 /\ q = 0 /\ ~Answered
      /\ ~(Stops >= 1 /\ y < Stops) /\ Begun(w, n) = 0
      /\ pc \in {"idle", "entry", "rd_echo"}
  BY <1>3, NothingBefore
<1>5. Head(tx).n = Scanned /\ Head(tx).call > barrier
  BY <1>3 DEF Content, Sent
<1>6. /\ dev'.stream = (IF Scanned = 0 THEN Endless ELSE Scanned)
      /\ dev'.laser /\ dev'.tm = dev.tm /\ dev'.job = Head(tx)
  BY <1>0, <1>2, <1>5 DEF Reached, Dev
<1>7. CallInv'
  BY <1>1, <1>6, CallInvSensor
<1>8. /\ Depth' = Depth /\ (ByApp' <=> ByApp) /\ Tries' = Tries /\ Head(stack)' = Head(stack)
      /\ (Once' <=> Once) /\ (Scanned' = Scanned) /\ (Remain' = Remain)
  BY <1>1, StackStays DEF Once, Scanned, Remain
<1>9. /\ Stops' = Stops /\ (Getting' <=> Getting) /\ ~Answered'
  <2>1. Stops' = Stops /\ (Getting' <=> Getting)
    BY ONLY <1>8 DEF Stops, Getting
  <2> QED BY <1>1, <1>4, <2>1 DEF Answered
<1>10. /\ Depth \in Nat /\ Scanned \in Nat /\ Remain \in Nat
  BY <1>0 DEF Reached
<1>11. PICK w2 \in Unit : w2 = "ack"
  BY DEF Unit
<1>12. PICK n2 \in 0 .. ScanSize, x2 \in 0 .. 1 : n2 = 3 /\ x2 = 0
  BY <1>0 DEF Reached
<1>13. Layout(Once, barrier, rx, w2, n2, k, q)'
  <2>1. PICK a : a = Answer(Head(tx), "00", <<>>)
    OBVIOUS
  <2>2. a \in Seq(Line) /\ Len(a) = 3 /\ Part(Once, barrier, a, 0, "ack", 3)
    BY <1>0, <1>2, <1>3, <1>5, <2>1, AckFits DEF Reached
  <2>3. Layout(Once, barrier, a, "ack", 3, 0, 0)
    BY <2>2, LayoutFirst
  <2>4. rx' = a
    BY <1>2, <1>4, <2>1, <2>2
  <2> QED BY <1>1, <1>4, <1>11, <1>12, <2>3, <2>4 DEF Once, Scanned
<1>14. Sent(x2, y)'
  <2>1. Sent(1, y)
    BY <1>3 DEF Content
  <2> QED BY <1>2, <1>12, <2>1, SentTail
<1>15. Fresh(w2, n2)' /\ Reading(w2, n2)' /\ Begun(w2, n2)' = 0
  BY <1>1, <1>4, <1>11, <1>12 DEF Fresh, Reading, Begun
<1>16. Pending(w, n, k, x)
  BY <1>3 DEF Pending
<1>17. Owed(w2, n2, q, y)'
  BY <1>4, <1>9, <1>11 DEF Content, Tally, Owed
<1>18. Measures(w2, n2, k, x2)'
  <2>1. ~Once' /\ urg.is_sending
    BY <1>3, <1>8, <1>16 DEF Content, Tally, Measures
  <2>2. dev'.job.c = "MD" /\ dev'.job.call > barrier'
    BY <1>1, <1>2, <1>5, <1>6
  <2> QED BY <1>1, <1>16, <2>1, <2>2 DEF Content, Tally, Measures
<1>19. Counts(w, n, k, x)
  BY DEF Content, Tally
<1>20. Scanned > 1 => Scanned <= Remain /\ Remain > 0
  <2>1. Scanned > 1 => 0 + 0 + 0 + Scanned <= Remain
    BY <1>3, <1>4, <1>19 DEF Counts
  <2> QED BY <1>10, <2>1
<1>21. Depth # 2
  <2>1. Depth = 2 => Scanned > 1 /\ Remain = 0
    BY DEF Content, Tally, Stoppable
  <2> QED BY <1>20, <2>1
<1>22. Spent(w2, n2, k, x2)' = Spent(w, n, k, x)
  BY <1>1, <1>3, <1>4, <1>8, <1>15 DEF Spent
<1>23. Stoppable(w2, n2, k, x2, y)'
  <2>1. ~(Stops' >= 1 /\ y < Stops') /\ ~((w2 = "stop" /\ n2 > 0) \/ Answered')
    BY <1>4, <1>9, <1>11
  <2> QED BY <1>1, <1>4, <1>8, <1>9, <1>21, <1>22, <2>1 DEF Content, Tally, Stoppable
<1>24. Counts(w2, n2, k, x2)'
  <2>1. Scanned > 1 => 0 + 0 + Scanned + 0 <= Remain
    BY <1>10, <1>20
  <2>2. Scanned > 1 => dev'.stream = Scanned
    BY <1>6, <1>10
  <2>3. urg'.is_sending = urg.is_sending
    BY <1>1
  <2> QED BY <1>4, <1>8, <1>12, <1>15, <1>19, <2>1, <2>2, <2>3 DEF Counts
<1>25. Content(w2, n2, k, q, x2, y)'
  BY <1>13, <1>14, <1>15, <1>17, <1>18, <1>23, <1>24 DEF Content, Tally
<1>26. urg'.is_active /\ pc' \in InMeasuring
  BY <1>1
<1> QED BY <1>7, <1>25, <1>26, ToMeasuring

\* One more scan: there is room for no more than two in front of MaxRx.
LEMMA SensorScanTimely ==
  ASSUME Timely, TypeInv, CallInv, SensorScan, noise = 0, ~Leaving, pc \notin InScip,
         UNCHANGED <<hostVars, localVars, historyVars>>,
         NEW w \in Unit, NEW n \in 0 .. ScanSize, NEW k \in 0 .. 2, NEW q \in 0 .. 2,
         NEW x \in 0 .. 1, NEW y \in 0 .. 2, Content(w, n, k, q, x, y)
  PROVE  CallInv' /\ PhaseInv'
<1>0. Reached /\ unit \in Nat
  BY ReachedIs DEF TypeInv, TypeOK, SensorTypeOK
<1>1. /\ UNCHANGED <<link, urg, pc, op, ret, good, resume, seen, calls, stack, type,
                     steps, barrier, scans>>
      /\ urg.is_active /\ pc \in InMeasuring
  <2>1. pc \in Point
    BY Before
  <2> QED BY <2>1 DEF hostVars, localVars, historyVars, Leaving, InMeasuring, Point, Outside
<1>2. PICK left \in 0 .. Endless :
        /\ left = (IF dev.stream = Endless THEN Endless ELSE dev.stream - 1)
        /\ dev' = [dev EXCEPT !.stream = left, !.laser = (left > 0)]
  <2>1. (IF dev.stream = Endless THEN Endless ELSE dev.stream - 1) \in 0 .. Endless
    BY <1>0 DEF Reached, Dev, Endless, SensorScan
  <2> QED BY <2>1 DEF SensorScan
<1>3. /\ dev.stream > 0 /\ tx = <<>> /\ tx' = tx
      /\ Len(rx) + DataLines + 4 <= MaxRx
      /\ rx' = rx \o Answer(dev.job, "99", ScanBody)
  BY DEF SensorScan, Timely, Says
<1>4. dev'.stream = left /\ dev'.laser = (left > 0) /\ dev'.tm = dev.tm /\ dev'.job = dev.job
  BY <1>0, <1>2 DEF Reached, Dev
<1>5. CallInv'
  BY <1>1, <1>4, CallInvSensor
<1>6. ~Once /\ dev.job.c = "MD" /\ dev.job.call > barrier /\ dev.job \in Command
  <2>1. dev.stream # 0 /\ dev.job \in Command
    BY <1>0, <1>3 DEF Reached, Dev
  <2> QED BY <1>3, <2>1 DEF Content, Tally, Measures
<1>7. x = 0 /\ y = 0
  <2>1. 0 = x + y
    BY <1>3 DEF Content, Sent
  <2> QED BY <2>1
<1>8. /\ Stops = 0 /\ q = 0 /\ ~(w = "stop" /\ n > 0) /\ ~Answered
  <2>1. Stops \in Nat
    BY <1>0 DEF Stops, Reached, ByApp
  <2>2. ~(Stops >= 1 /\ y < Stops)
    BY <1>0, <1>3 DEF Content, Tally, Stoppable, Reached
  <2>3. Stops = 0
    BY <1>7, <2>1, <2>2
  <2>4. Owed(w, n, q, y)
    BY DEF Content, Tally
  <2> QED BY <1>7, <2>3, <2>4 DEF Owed
<1>9. k \in 0 .. 1
  <2>1. Len(rx) = n + Scans(k) + 3 * q /\ n \in Nat
    BY DEF Content, Layout
  <2>2. MaxRx < 3 * ScanSize /\ MaxRx \in Nat
    BY SensorAssumption DEF Timely, ScanSize
  <2>3. Len(rx) + ScanSize <= MaxRx /\ Len(rx) \in Nat /\ ScanSize \in Nat
    BY <1>0, <1>3, Before DEF ScanSize, Reached
  <2>4. k = 2 => Len(rx) >= 2 * ScanSize
    BY <1>8, <2>1, <2>3 DEF Scans
  <2> QED BY <2>2, <2>3, <2>4
<1>10. PICK k2 \in 0 .. 2 : k2 = k + 1
  BY <1>9
<1>11. /\ Depth' = Depth /\ (ByApp' <=> ByApp) /\ Tries' = Tries /\ Head(stack)' = Head(stack)
       /\ (Once' <=> Once) /\ (Scanned' = Scanned) /\ (Remain' = Remain)
  BY <1>1, StackStays DEF Once, Scanned, Remain
<1>12. /\ Stops' = Stops /\ (Getting' <=> Getting) /\ ~Answered'
  <2>1. Stops' = Stops /\ (Getting' <=> Getting)
    BY ONLY <1>11 DEF Stops, Getting
  <2> QED BY <1>1, <1>8, <2>1 DEF Answered
<1>13. Layout(Once, barrier, rx, w, n, k2, q)'
  <2>1. PICK a : a = Answer(dev.job, "99", ScanBody)
    OBVIOUS
  <2>2. a \in Seq(Line) /\ Len(a) = ScanSize /\ Part(Once, barrier, a, 0, "scan", ScanSize)
    <3>1. "99" \in Status /\ barrier \in Nat
      BY <1>0 DEF Status, Reached
    <3> QED BY <1>0, <1>6, <2>1, <3>1, ScanFits
  <2>3. Layout(Once, barrier, rx, w, n, k, 0) /\ rx \in Seq(Line) /\ n \in Nat
    BY <1>8, Before DEF Content
  <2>4. Layout(Once, barrier, rx \o a, w, n, k + 1, 0)
    BY <1>9, <2>2, <2>3, LayoutScan
  <2> QED BY <1>1, <1>3, <1>8, <1>10, <2>1, <2>4 DEF Once, Scanned
<1>14. Sent(x, y)' /\ Fresh(w, n)' /\ Reading(w, n)' /\ Begun(w, n)' = Begun(w, n)
  BY <1>1, <1>3, <1>7 DEF Content, Tally, Sent, Fresh, Reading, Begun
<1>15. Pending(w, n, k, x)
  BY <1>3 DEF Pending
<1>16. Owed(w, n, q, y)'
  BY <1>8, <1>12 DEF Content, Tally, Owed
<1>17. Measures(w, n, k2, x)'
  <2>1. ~Once' /\ urg.is_sending
    BY <1>6, <1>11, <1>15 DEF Content, Tally, Measures
  <2> QED BY <1>1, <1>4, <1>6, <1>15, <2>1 DEF Content, Tally, Measures
<1>18. Depth # 2 /\ ~(ByApp /\ Depth = 1)
  BY <1>0, <1>8 DEF Stops, Reached
<1>19. Stoppable(w, n, k2, x, y)'
  <2>1. ~(Stops' >= 1 /\ y < Stops') /\ ~((w = "stop" /\ n > 0) \/ Answered')
    BY <1>8, <1>12
  <2> QED BY <1>1, <1>11, <1>12, <1>18, <2>1 DEF Content, Tally, Stoppable
<1>20. Counts(w, n, k2, x)'
  <2>1. Counts(w, n, k, x)
    BY DEF Content, Tally
  <2>2. /\ Begun(w, n) \in Nat /\ dev.stream \in Nat /\ Scanned \in Nat /\ Remain \in Nat
        /\ scans \in Nat /\ Scanned <= 99
    <3>1. Scanned \in 0 .. 99
      BY <1>0 DEF Reached, UrgFields, Scanned
    <3> QED BY <1>0, <3>1 DEF Reached, Begun
  <2>3. ASSUME Scanned > 1 PROVE k2 + Begun(w, n) + left + 0 <= Remain
    <3>1. k + Begun(w, n) + dev.stream + 0 <= Remain
      BY <1>7, <2>1, <2>3 DEF Counts
    <3>2. scans + Remain <= Scanned
      BY <2>3 DEF CallInv
    <3>3. dev.stream # Endless
      BY <2>2, <3>1, <3>2 DEF Endless
    <3>4. left = dev.stream - 1
      BY <1>2, <3>3
    <3> QED BY <1>10, <2>2, <3>1, <3>4
  <2>4. urg'.is_sending = urg.is_sending
    BY <1>1
  <2> QED BY <1>4, <1>7, <1>11, <1>14, <2>1, <2>3, <2>4 DEF Counts
<1>21. Content(w, n, k2, q, x, y)'
  BY <1>13, <1>14, <1>16, <1>17, <1>19, <1>20 DEF Content, Tally
<1>22. urg'.is_active /\ pc' \in InMeasuring
  BY <1>1
<1> QED BY <1>5, <1>21, <1>22, ToMeasuring

-----------------------------------------------------------------------------
(***************************************************************************)
(* scip_response: a command and its answer.                                *)
(***************************************************************************)

\* A read finds the next line of the answer.
LEMMA ReadsAnswer ==
  ASSUME Timely, TypeInv, CallInv, urg.is_active, AskingInv,
         pc \in {"scip_echo", "scip_status", "scip_body"},
         NEW line \in Arrivals, Consume(line)
  PROVE  /\ Answering /\ rx # <<>> /\ rx' = Tail(rx) /\ line = rx[1] /\ line \in Line
         /\ line.ok /\ line.call = calls
         /\ (line.k = "lf") = (1 = Len(rx))
         /\ (line.k = "echo") = (pc = "scip_echo")
<1>1. rx \in Seq(Line) /\ tx \in Seq(Command)
  BY Before
<1>2. \/ rx = <<>> /\ tx = <<>>
      \/ line \in Line /\ rx # <<>> /\ line = rx[1] /\ rx' = Tail(rx)
  BY Reads
<1>3. Answering
  <2>1. ASSUME Unanswered PROVE FALSE
    <3>1. rx = <<>> /\ Len(tx) = 1
      BY <2>1 DEF Unanswered
    <3> QED BY <1>1, <1>2, <3>1
  <2> QED BY <2>1 DEF AskingInv
<1>4. rx # <<>>
  <2>1. ASSUME rx = <<>> PROVE FALSE
    <3>1. Len(rx) = 0
      BY <2>1
    <3> QED BY <1>3, <3>1 DEF Answering
  <2> QED BY <2>1
<1>5. line \in Line /\ line = rx[1] /\ rx' = Tail(rx)
  BY <1>2, <1>4
<1>6. 1 \in 1 .. Len(rx)
  BY <1>1, <1>4
<1>7. /\ rx[1].call = calls /\ rx[1].ok
      /\ (rx[1].k = "lf") = (1 = Len(rx))
      /\ (rx[1].k = "echo") = (1 = 1 /\ pc = "scip_echo")
  BY <1>3, <1>6 DEF Answering
<1> QED BY <1>3, <1>4, <1>5, <1>7

\* What is left of the answer is an answer's rest.
LEMMA AnswerTail ==
  ASSUME TypeInv, Answering, rx # <<>>, rx' = Tail(rx), UNCHANGED <<tx, calls, op, dev>>,
         urg'.is_laser_on = urg.is_laser_on, pc' \in InScip, pc' # "scip_echo",
         pc' = "scip_status" => Len(rx) >= 3 /\ rx[2].k = "stat" /\ Good1(rx[2]),
         pc' = "scip_body" => Len(rx) >= 2 /\ (MustSucceed => good'),
         pc' = "scip_done" => Len(rx) = 1 /\ (MustSucceed => ret' = "OK")
  PROVE  Answering'
<1>1. rx \in Seq(Line)
  BY Before
<1>2. /\ Len(rx) \in Nat /\ Len(rx') = Len(rx) - 1
      /\ \A i \in 1 .. Len(rx') : rx'[i] = rx[i + 1]
  BY <1>1
<1>3. ASSUME NEW i \in 1 .. Len(rx')
      PROVE  /\ rx'[i].call = calls' /\ rx'[i].ok
             /\ (rx'[i].k = "lf") = (i = Len(rx'))
             /\ (rx'[i].k = "echo") = (i = 1 /\ pc' = "scip_echo")
             /\ rx'[i].k = "echo" => rx'[i].c = CommandOf(op')
  <2>1. i + 1 \in 1 .. Len(rx) /\ rx'[i] = rx[i + 1] /\ i + 1 # 1
        /\ (i + 1 = Len(rx) <=> i = Len(rx'))
    BY <1>2
  <2>2. /\ rx[i + 1].call = calls /\ rx[i + 1].ok
        /\ (rx[i + 1].k = "lf") = (i + 1 = Len(rx))
        /\ (rx[i + 1].k = "echo") = (i + 1 = 1 /\ pc = "scip_echo")
    BY <2>1 DEF Answering
  <2> QED BY <2>1, <2>2
<1>4. pc' = "scip_status" => Len(rx') >= 2 /\ rx'[1].k = "stat" /\ Good1(rx[1])'
  <2>1. ASSUME pc' = "scip_status" PROVE Len(rx') >= 2 /\ rx'[1] = rx[2]
    BY <1>2, <2>1
  <2> QED BY <2>1 DEF Good1, MustSucceed
<1>5. pc' = "scip_body" => Len(rx') >= 1 /\ (MustSucceed' => good')
  BY <1>2 DEF MustSucceed
<1>6. pc' = "scip_done" => rx' = <<>> /\ (MustSucceed' => ret' = "OK")
  <2>1. rx' \in Seq(Line)
    BY <1>1
  <2>2. Len(rx) = 1 => rx' = <<>>
    BY <1>2, <2>1
  <2> QED BY <2>2 DEF MustSucceed
<1>7. tx' = <<>>
  BY DEF Answering
<1> QED BY <1>3, <1>4, <1>5, <1>6, <1>7 DEF Answering

\* The thread is still in scip_response.
LEMMA StaysAsking ==
  ASSUME AskingInv, Answering', UNCHANGED <<op, dev>>, UrgAsBefore, urg.is_active, pc' \in InScip
  PROVE  PhaseInv'
<1>1. AskingInv'
  BY DEF AskingInv, UrgAsBefore, Once, Scanned
<1>2. ~Leaving'
  BY DEF Leaving, InScip, UrgAsBefore
<1> QED BY <1>1, <1>2 DEF PhaseInv

\* The reads of scip_response.
LEMMA ScipTimely ==
  ASSUME Timely, TypeInv, CallInv, AskingInv, ScipNext, UNCHANGED <<localVars, historyVars>>
  PROVE  CallInv' /\ PhaseInv'
<1>0. UNCHANGED <<tx, dev, link, op, calls, barrier, scans>>
  BY DEF ScipNext, ScipEcho, ScipStatus, ScipBody, historyVars
<1>1. pc \in {"scip_echo", "scip_status", "scip_body"}
  BY DEF ScipNext, ScipEcho, ScipStatus, ScipBody
<1>2. urg.is_active
  BY <1>1, Before DEF Outside
<1>3. CASE ScipEcho
  <2>1. pc = "scip_echo"
    BY <1>3 DEF ScipEcho
  <2>2. PICK line \in Arrivals :
       /\ Consume(line)
       /\ \/ Length(line) < 0 /\ ScipFails("NO_RESPONSE")
          \/ /\ Length(line) >= 0
             /\ ~(line.k = "echo" /\ line.ok /\ line.c = CommandOf(op))
             /\ ScipFails("INVALID_RESPONSE")
          \/ /\ line.k = "echo" /\ line.ok /\ line.c = CommandOf(op)
             /\ pc' = "scip_status"
             /\ seen' = {line}
             /\ UNCHANGED <<urg, ret, good>>
    BY <1>3 DEF ScipEcho
  <2>3. /\ Answering /\ rx # <<>> /\ rx' = Tail(rx) /\ line = rx[1] /\ line \in Line
        /\ line.ok /\ line.call = calls /\ (line.k = "echo") = (pc = "scip_echo")
    BY <1>1, <1>2, <2>2, ReadsAnswer
  <2>4. Len(rx) >= 3 /\ rx[2].k = "stat" /\ Good1(rx[2])
    BY <2>1, <2>3 DEF Answering
  <2>5. line.k = "echo" /\ line.c = CommandOf(op)
    <3>1. line.k = "echo"
      BY <2>1, <2>3
    <3>2. 1 \in 1 .. Len(rx)
      BY <2>4, Before
    <3> QED BY <2>3, <3>1, <3>2 DEF Answering
  <2>6. /\ pc' = "scip_status" /\ seen' = {line} /\ UNCHANGED <<urg, ret, good>>
    BY <2>2, <2>3, <2>5 DEF Length
  <2>7. Answering'
    BY <1>0, <2>3, <2>4, <2>6, AnswerTail DEF InScip
  <2>8. UrgAsBefore /\ pc' \in InScip
    BY <2>6 DEF UrgAsBefore, InScip
  <2>9. CallInv'
    BY <1>0, <2>1, <2>3, <2>6, <2>8, CallStays
  <2> QED BY <1>0, <1>2, <2>7, <2>8, <2>9, StaysAsking
<1>4. CASE ScipStatus
  <2>1. pc = "scip_status"
    BY <1>4 DEF ScipStatus
  <2>2. PICK line \in Arrivals :
       /\ Consume(line)
       /\ \/ Length(line) < 0 /\ ScipFails("NO_RESPONSE")
          \/ Length(line) > 0 /\ ~ChecksumFits(line) /\ ScipFails("CHECKSUM_ERROR")
          \/ /\ Length(line) = 0 \/ ChecksumFits(line)
             /\ Length(line) >= 0 /\ Length(line) # 3
             /\ ScipFails("INVALID_RESPONSE")
          \/ /\ \/ /\ Length(line) = 3 /\ ChecksumFits(line)
                   /\ good' = (StatusValue(line.s) \in Expected(CommandOf(op)))
                \/ MaySayScip1(line) /\ good' = TRUE
             /\ seen' = seen \cup {line}
             /\ pc' = "scip_body"
             /\ UNCHANGED <<urg, ret>>
    BY <1>4 DEF ScipStatus
  <2>3. /\ Answering /\ rx # <<>> /\ rx' = Tail(rx) /\ line = rx[1] /\ line \in Line
        /\ line.ok /\ line.call = calls
    BY <1>1, <1>2, <2>2, ReadsAnswer
  <2>4. Len(rx) >= 2 /\ line.k = "stat" /\ Good1(line)
    BY <2>1, <2>3 DEF Answering
  <2>5. Length(line) = 3 /\ ChecksumFits(line)
    BY <2>3, <2>4 DEF Length, ChecksumFits
  <2>6. /\ good' = (StatusValue(line.s) \in Expected(CommandOf(op)))
        /\ pc' = "scip_body" /\ seen' = seen \cup {line} /\ UNCHANGED <<urg, ret>>
    BY <2>2, <2>3, <2>5 DEF MaySayScip1
  <2>7. MustSucceed => good'
    BY <2>4, <2>6 DEF Good1
  <2>8. Answering'
    BY <1>0, <2>3, <2>4, <2>6, <2>7, AnswerTail DEF InScip
  <2>9. UrgAsBefore /\ pc' \in InScip
    BY <2>6 DEF UrgAsBefore, InScip
  <2>10. CallInv'
    <3>1. op \in {"info", "tm1"} => \A l \in seen' : l.call = calls
      BY <2>3, <2>6 DEF CallInv
    <3> QED BY <1>0, <2>1, <2>6, <2>9, <3>1, CallStays
  <2> QED BY <1>0, <1>2, <2>8, <2>9, <2>10, StaysAsking
<1>5. CASE ScipBody
  <2>1. pc = "scip_body"
    BY <1>5 DEF ScipBody
  <2>2. PICK line \in Arrivals :
       /\ Consume(line)
       /\ \/ Length(line) < 0 /\ ScipFails("NO_RESPONSE")
          \/ Length(line) > 0 /\ ~ChecksumFits(line) /\ ScipFails("CHECKSUM_ERROR")
          \/ /\ Length(line) > 0 /\ ChecksumFits(line)
             /\ ~IsLast(line)
             /\ seen' = seen \cup {line}
             /\ UNCHANGED <<pc, urg, ret, good>>
          \/ /\ IsLast(line)
             /\ ret' = IF good THEN "OK" ELSE "UNKNOWN_ERROR"
             /\ pc' = "scip_done"
             /\ UNCHANGED <<urg, good, seen>>
    BY <1>5 DEF ScipBody
  <2>3. /\ Answering /\ rx # <<>> /\ rx' = Tail(rx) /\ line = rx[1] /\ line \in Line
        /\ line.ok /\ line.call = calls
        /\ (line.k = "lf") = (1 = Len(rx)) /\ (line.k = "echo") = (pc = "scip_echo")
    BY <1>1, <1>2, <2>2, ReadsAnswer
  <2>4. MustSucceed => good
    BY <2>1, <2>3 DEF Answering
  <2>5. Len(rx) \in Nat /\ Len(rx) >= 1
    BY <2>3, Before
  <2>6. CASE line.k = "lf"
    <3>1. /\ ret' = (IF good THEN "OK" ELSE "UNKNOWN_ERROR")
          /\ pc' = "scip_done" /\ UNCHANGED <<urg, good, seen>>
      BY <2>2, <2>6 DEF IsLast, Length
    <3>2. Answering'
      BY <1>0, <2>3, <2>4, <2>6, <3>1, AnswerTail DEF InScip
    <3>3. UrgAsBefore /\ pc' \in InScip
      BY <3>1 DEF UrgAsBefore, InScip
    <3>4. CallInv'
      <4>1. op \in {"info", "tm1"} => \A l \in seen' : l.call = calls
        BY <3>1 DEF CallInv
      <4> QED BY <1>0, <2>1, <3>1, <3>3, <4>1, CallStays
    <3> QED BY <1>0, <1>2, <3>2, <3>3, <3>4, StaysAsking
  <2>7. CASE line.k # "lf"
    <3>1. Length(line) > 0 /\ ChecksumFits(line) /\ ~IsLast(line)
      <4>1. line.k \in Kind /\ line.k # "echo" /\ line.k # "none"
        BY <2>1, <2>3 DEF Line, Kind
      <4> QED BY <2>3, <2>7, <4>1 DEF Length, ChecksumFits, IsLast
    <3>2. seen' = seen \cup {line} /\ UNCHANGED <<pc, urg, ret, good>>
      <4>1. Length(line) \in {-1, 0, 3, 9}
        BY DEF Length
      <4>2. ~(Length(line) < 0)
        BY <3>1, <4>1
      <4> QED BY <2>2, <3>1, <4>2
    <3>3. Len(rx) >= 2
      <4>1. Len(rx) # 1
        BY <2>3, <2>7
      <4>2. PICK m \in Nat : m = Len(rx)
        BY <2>5
      <4>3. m >= 1 /\ m # 1
        BY <2>5, <4>1, <4>2
      <4>4. m >= 2
        BY <4>3
      <4> QED BY <4>2, <4>4
    <3>4. Answering'
      BY <1>0, <2>1, <2>3, <2>4, <3>2, <3>3, AnswerTail DEF InScip
    <3>5. UrgAsBefore /\ pc' \in InScip
      BY <2>1, <3>2 DEF UrgAsBefore, InScip
    <3>6. CallInv'
      <4>1. op \in {"info", "tm1"} => \A l \in seen' : l.call = calls
        BY <2>3, <3>2 DEF CallInv
      <4> QED BY <1>0, <2>1, <3>2, <3>5, <4>1, CallStays
    <3> QED BY <1>0, <1>2, <3>4, <3>5, <3>6, StaysAsking
  <2> QED BY <2>6, <2>7
<1> QED BY <1>3, <1>4, <1>5 DEF ScipNext

\* What scip_response leaves.
LEMMA Asked ==
  ASSUME TypeInv, CallInv, AskingInv, pc = "scip_done"
  PROVE  /\ Answering /\ rx = <<>> /\ tx = <<>> /\ dev.stream = 0 /\ ~urg.is_sending
         /\ urg.is_active /\ link = "open" /\ stack = <<>>
         /\ MustSucceed => ret = "OK"
         /\ op = "start" => Once
         /\ op \in {"start", "laser", "tm0", "tm1", "tm2", "info", "sleep", "reboot", "reboot2"}
<1>1. Answering /\ dev.stream = 0 /\ ~urg.is_sending /\ (op = "start" => Once)
  BY DEF AskingInv, Unanswered
<1>2. urg.is_active /\ stack = <<>>
  BY Before DEF Outside, Inside, InReceive
<1>3. link = "open"
  BY <1>2 DEF CallInv
<1> QED BY <1>1, <1>2, <1>3 DEF Answering, AskingInv

\* A function that asked for one thing returns.
LEMMA ScipReturnsTimely ==
  ASSUME TypeInv, TypeInv', CallInv, AskingInv, NEW ops, NEW r, NEW u,
         ScipReturns(ops, r, u), "start" \notin ops,
         u.is_active, ~u.is_sending, u.is_laser_on = dev.laser,
         u.is_laser_on => urg.is_laser_on \/ op = "laser",
         u.specified_scan_times = urg.specified_scan_times,
         u.scanning_remain_times = urg.scanning_remain_times
  PROVE  CallInv' /\ PhaseInv'
<1>1. /\ pc = "scip_done" /\ op \in ops /\ pc' = "idle" /\ ret' = r /\ urg' = u
      /\ UNCHANGED <<tx, rx, dev, unit, noise, link, op, good, resume, seen, calls, stack,
                     type, steps, barrier, scans>>
  BY DEF ScipReturns, At, Returns, sensorVars, localVars, historyVars
<1>2. /\ rx = <<>> /\ tx = <<>> /\ dev.stream = 0 /\ link = "open" /\ stack = <<>>
      /\ op \in {"start", "laser", "tm0", "tm1", "tm2", "info", "sleep", "reboot", "reboot2"}
  BY <1>1, Asked
<1>3. CallInv'
  BY <1>1, <1>2 DEF CallInv, Scanned, Remain
<1>4. PhaseInv'
  BY <1>1, <1>2, AtRest
<1> QED BY <1>3, <1>4

\* All functions but urg_start_measurement and urg_reboot.
LEMMA ReturnsTimely ==
  ASSUME Timely, TypeInv, TypeInv', CallInv, AskingInv,
         LaserOnReturns \/ TimeStampModeReturns \/ TimeStampReturns \/ InfoReturns \/ SleepReturns
  PROVE  CallInv' /\ PhaseInv'
<1>1. pc = "scip_done" /\ op \in {"laser", "tm0", "tm1", "tm2", "info", "sleep"}
  BY DEF LaserOnReturns, TimeStampModeReturns, TimeStampReturns, InfoReturns, SleepReturns,
         ScipReturns, At
<1>2. /\ Answering /\ ~urg.is_sending /\ urg.is_active
      /\ MustSucceed => ret = "OK"
  BY <1>1, Asked
<1>3. urg \in UrgFields
  BY Before
<1>4. \A e \in ErrorNumber :
        /\ [urg EXCEPT !.last_errno = e].is_active
        /\ ~[urg EXCEPT !.last_errno = e].is_sending
        /\ [urg EXCEPT !.last_errno = e].is_laser_on = urg.is_laser_on
        /\ [urg EXCEPT !.last_errno = e].specified_scan_times = urg.specified_scan_times
        /\ [urg EXCEPT !.last_errno = e].scanning_remain_times = urg.scanning_remain_times
  BY <1>2, <1>3 DEF UrgFields
<1>5. CASE LaserOnReturns
  <2>1. op = "laser" /\ ret = "OK"
    BY <1>2, <1>5 DEF LaserOnReturns, ScipReturns, At, MustSucceed
  <2>2. dev.laser
    BY <1>2, <2>1 DEF Answering
  <2>7. [urg EXCEPT !.is_laser_on = TRUE] \in UrgFields
    BY <1>3 DEF UrgFields
  <2>3. PICK u \in UrgFields : u = [urg EXCEPT !.is_laser_on = TRUE]
    BY ONLY <2>7
  <2>4. /\ u.is_active /\ ~u.is_sending /\ u.is_laser_on
        /\ u.specified_scan_times = urg.specified_scan_times
        /\ u.scanning_remain_times = urg.scanning_remain_times
    BY <1>2, <1>3, <2>3 DEF UrgFields
  <2>5. u.is_laser_on = dev.laser
    BY <2>2, <2>4, ReachedIs DEF Reached, Dev, UrgFields
  <2>6. ScipReturns({"laser"}, ret, u) /\ "start" \notin {"laser"}
    BY <1>5, <2>1, <2>3 DEF LaserOnReturns
  <2> QED BY <2>1, <2>4, <2>5, <2>6, ScipReturnsTimely
<1>6. CASE op # "laser"
  <2>1. dev.laser = urg.is_laser_on
    BY <1>1, <1>2, <1>6 DEF Answering
  <2>2. PICK ops, r, u : /\ ScipReturns(ops, r, u) /\ "start" \notin ops
                         /\ u = urg \/ (\E e \in ErrorNumber : u = [urg EXCEPT !.last_errno = e])
    <3>1. /\ "INVALID_RESPONSE" \in ErrorNumber /\ "RECEIVE_ERROR" \in ErrorNumber
          /\ "start" \notin {"tm0", "tm2"} /\ "start" \notin {"tm1"} /\ "start" \notin {"info"}
          /\ "start" \notin {"sleep"}
      BY Names
    <3>2. CASE LaserOnReturns
      BY <1>6, <3>2 DEF LaserOnReturns, ScipReturns, At
    <3>3. CASE TimeStampModeReturns
      BY <3>1, <3>3 DEF TimeStampModeReturns
    <3>4. CASE TimeStampReturns
      BY <3>1, <3>4 DEF TimeStampReturns
    <3>5. CASE InfoReturns
      BY <3>1, <3>5 DEF InfoReturns
    <3>6. CASE SleepReturns
      BY <3>1, <3>6 DEF SleepReturns
    <3> QED BY <3>2, <3>3, <3>4, <3>5, <3>6
  <2>3. /\ u.is_active /\ ~u.is_sending /\ u.is_laser_on = urg.is_laser_on
        /\ u.specified_scan_times = urg.specified_scan_times
        /\ u.scanning_remain_times = urg.scanning_remain_times
    BY <1>2, <1>4, <2>2
  <2> QED BY <2>1, <2>2, <2>3, ScipReturnsTimely
<1>7. op = "laser" => LaserOnReturns
  BY DEF LaserOnReturns, TimeStampModeReturns, TimeStampReturns, InfoReturns, SleepReturns,
         ScipReturns, At
<1> QED BY <1>5, <1>6, <1>7

\* urg_start_measurement goes on to GD with the laser lit.
LEMMA SingleGoesOnTimely ==
  ASSUME Timely, TypeInv, TypeInv', CallInv, AskingInv, StartSingleGoesOn
  PROVE  CallInv' /\ PhaseInv'
<1>1. /\ pc = "scip_done" /\ op = "start"
      /\ SendDistanceCommand("GD", 0, [urg EXCEPT !.is_laser_on = (ret = "OK")])
      /\ UNCHANGED <<rx, dev, unit, noise, link, op, good, resume, seen, calls, stack, type,
                     steps, barrier>>
  BY DEF StartSingleGoesOn, At, localVars
<1>2. /\ Answering /\ rx = <<>> /\ tx = <<>> /\ dev.stream = 0 /\ ~urg.is_sending
      /\ urg.is_active /\ link = "open" /\ stack = <<>> /\ Once
      /\ MustSucceed => ret = "OK"
  BY <1>1, Asked
<1>3. ret = "OK" /\ dev.laser
  BY <1>1, <1>2 DEF MustSucceed, Answering
<1>4. /\ Write("GD", 0) /\ pc' = "idle" /\ scans' = 0
      /\ urg' = [urg EXCEPT !.is_laser_on = TRUE]
  BY <1>1, <1>2, <1>3 DEF SendDistanceCommand, CanWrite, Returns
<1>5. /\ urg'.is_active /\ ~urg'.is_sending /\ urg'.is_laser_on
      /\ urg'.specified_scan_times = 1
  BY <1>2, <1>4, Before DEF UrgFields, Once, Scanned
<1>6. Scanned' = 1 /\ Once' /\ ~(Scanned' > 1)
  BY <1>5 DEF Scanned, Once
<1>7. Len(tx') = 1 /\ tx'[1].c = "GD" /\ tx'[1].n = 0 /\ tx'[1].call = calls
  <2>1. "GD" \in CommandName /\ 0 \in 0 .. Endless
    BY DEF CommandName, Endless
  <2> QED BY <1>2, <1>4, <2>1, WriteAlone
<1>8. barrier < calls /\ ~dev.tm
  BY <1>1 DEF CallInv
<1>9. CallInv'
  BY <1>1, <1>2, <1>4, <1>6, <1>8 DEF CallInv
<1>10. tx'[1].call > barrier' /\ (dev'.laser = urg'.is_laser_on)
  BY <1>1, <1>3, <1>5, <1>7, <1>8, ReachedIs, Before DEF Reached, Dev, TypeInv, TypeOK, UrgFields
<1>11. PhaseInv'
  BY <1>1, <1>2, <1>3, <1>4, <1>5, <1>6, <1>7, <1>10, MeasurementSent
<1> QED BY <1>9, <1>11

\* urg_reboot sends RB again, then closes.
LEMMA RebootTimely ==
  ASSUME Timely, TypeInv, CallInv, AskingInv, RebootFails \/ RebootAgain \/ RebootCloses
  PROVE  CallInv' /\ PhaseInv'
<1>1. pc = "scip_done" /\ op \in {"reboot", "reboot2"}
  BY DEF RebootFails, RebootAgain, RebootCloses, ScipReturns, At
<1>2. /\ Answering /\ rx = <<>> /\ tx = <<>> /\ dev.stream = 0 /\ ~urg.is_sending
      /\ urg.is_active /\ link = "open" /\ stack = <<>> /\ ret = "OK"
  BY <1>1, Asked DEF MustSucceed
<1>3. ~dev.tm
  BY <1>1 DEF CallInv
<1>4. CASE RebootFails
  BY <1>2, <1>4 DEF RebootFails
<1>5. CASE RebootAgain
  <2>1. /\ op = "reboot" /\ op' = "reboot2" /\ ScipBegins(op', urg)
        /\ UNCHANGED <<rx, dev, unit, noise, link, resume, calls, stack, type, steps, barrier,
                       scans>>
    BY <1>5 DEF RebootAgain, At, localVars, historyVars
  <2>2. dev.rb \/ ~dev.laser
    BY <1>2, <2>1 DEF Answering
  <2>3. PhaseInv' /\ pc' = "scip_echo" /\ seen' = {} /\ urg' = urg
    BY <1>2, <2>1, <2>2, Asks
  <2>4. CallInv'
    BY <1>3, <2>1, <2>3 DEF CallInv, Scanned, Remain
  <2> QED BY <2>3, <2>4
<1>6. CASE RebootCloses
  <2>1. /\ op = "reboot2" /\ pc' = "idle" /\ link' = "closed"
        /\ urg' = [urg EXCEPT !.is_active = FALSE, !.last_errno = "NO_ERROR"]
        /\ UNCHANGED <<tx, dev, unit, noise, op, good, resume, seen, calls, stack, type, steps,
                       barrier, scans>>
    BY <1>2, <1>6 DEF RebootCloses, At, Returns, HangsUp, localVars, historyVars
  <2>2. /\ ~urg'.is_active /\ Scanned' = Scanned /\ (Remain' = Remain)
    BY <2>1, Before DEF UrgFields, Scanned, Remain
  <2>3. CallInv'
    BY <1>3, <2>1, <2>2 DEF CallInv
  <2>4. Dark'
    BY <1>2, <2>1 DEF Answering, Dark
  <2>5. LeavingInv'
    BY <1>2, <2>1, <2>4 DEF LeavingInv
  <2>6. Leaving'
    BY <2>2 DEF Leaving
  <2> QED BY <2>3, <2>5, <2>6 DEF PhaseInv
<1> QED BY <1>4, <1>5, <1>6

-----------------------------------------------------------------------------
(***************************************************************************)
(* The sensor, while scip_response waits for its answer.                   *)
(***************************************************************************)

\* The command that has not been answered.
LEMMA Waiting ==
  ASSUME TypeInv, AskingInv, tx # <<>>
  PROVE  /\ Unanswered /\ pc = "scip_echo" /\ rx = <<>> /\ Tail(tx) = <<>>
         /\ Head(tx) \in Command /\ Head(tx).c = CommandOf(op) /\ Head(tx).call = calls
         /\ op \in {"start", "laser", "tm0", "tm1", "tm2", "info", "sleep", "reboot", "reboot2"}
<1>1. Unanswered
  BY DEF AskingInv, Answering
<1>2. tx \in Seq(Command) /\ Len(tx) = 1
  BY <1>1, Before DEF Unanswered
<1>3. Head(tx) = tx[1] /\ Head(tx) \in Command
  BY <1>2
<1>4. Tail(tx) = <<>>
  <2>1. tx # <<>> /\ Tail(tx) \in Seq(Command)
    BY <1>2
  <2>2. PICK t \in Seq(Command) : t = Tail(tx)
    BY ONLY <2>1
  <2>3. Len(t) = 0
    BY <1>2, <2>2
  <2> QED BY <2>2, <2>3
<1> QED BY <1>1, <1>3, <1>4 DEF Unanswered, AskingInv

\* The answer to it.
LEMMA AnswerTimely ==
  ASSUME TypeInv, CallInv, AskingInv, pc \in InScip,
         UNCHANGED <<hostVars, localVars, historyVars>>,
         NEW names, NEW status \in Status, NEW body \in Bodies, NEW d \in Dev,
         Reacts(names, status, body, d),
         MustSucceed => StatusValue(status) \in Expected(CommandOf(op)),
         d.stream = 0, d.tm => dev.tm \/ op = "tm0",
         op = "reboot" => (Head(tx).c = "RB" /\ ~dev.rb) \/ ~d.laser,
         op = "reboot2" => ~d.laser,
         op \in {"start", "laser"} => d.laser,
         op \notin {"start", "laser", "reboot", "reboot2"} => d.laser = urg.is_laser_on
  PROVE  CallInv' /\ PhaseInv'
<1>1. UNCHANGED <<link, urg, pc, op, ret, good, seen, calls, barrier, scans>>
  BY DEF hostVars, historyVars
<1>2. /\ tx # <<>> /\ Head(tx).c \in names /\ tx' = Tail(tx)
      /\ rx' = rx \o Answer(Head(tx), status, body)
      /\ dev' = [d EXCEPT !.rb = (Head(tx).c = "RB" /\ ~dev.rb)]
  BY DEF Reacts, Says
<1>3. /\ Unanswered /\ pc = "scip_echo" /\ rx = <<>> /\ Tail(tx) = <<>>
      /\ Head(tx) \in Command /\ Head(tx).c = CommandOf(op) /\ Head(tx).call = calls
  BY <1>2, Waiting
<1>4. /\ dev'.stream = 0 /\ dev'.laser = d.laser /\ dev'.tm = d.tm
      /\ dev'.rb = (Head(tx).c = "RB" /\ ~dev.rb)
  BY <1>2 DEF Dev
<1>5. PICK a : a = Answer(Head(tx), status, body)
  OBVIOUS
<1>6. /\ a \in Seq(Line) /\ Len(body) \in Nat /\ Len(a) = Len(body) + 3
      /\ \A i \in 1 .. Len(a) : a[i].call = calls /\ a[i].c = CommandOf(op) /\ a[i].ok
      /\ a[1].k = "echo" /\ a[2].k = "stat" /\ a[2].s = status
      /\ a[Len(a)].k = "lf"
      /\ \A i \in 1 .. Len(body) : a[i + 2].k = body[i]
  <2>1. unit \in Nat
    BY DEF TypeInv, TypeOK, SensorTypeOK
  <2> QED BY <1>3, <1>5, <2>1, AnswerLines
<1>7. rx' = a /\ tx' = <<>>
  <2>1. <<>> \o a = a
    BY <1>6
  <2> QED BY <1>2, <1>3, <1>5, <2>1
<1>8. ASSUME NEW i \in 1 .. Len(a)
      PROVE  (a[i].k = "lf") = (i = Len(a)) /\ (a[i].k = "echo") = (i = 1)
  <2>1. CASE i = 1
    <3>1. i # Len(a)
      BY <1>6, <2>1
    <3> QED BY <1>6, <2>1, <3>1
  <2>2. CASE i = 2
    <3>1. i # Len(a) /\ i # 1
      BY <1>6, <2>2
    <3> QED BY <1>6, <2>2, <3>1
  <2>3. CASE i = Len(a)
    <3>1. i # 1
      BY <1>6, <2>3
    <3> QED BY <1>6, <2>3, <3>1
  <2>4. CASE i # 1 /\ i # 2 /\ i # Len(a)
    <3>1. i - 2 \in 1 .. Len(body) /\ (i - 2) + 2 = i
      BY <1>6, <2>4
    <3>2. a[i].k = body[i - 2]
      BY <1>6, <3>1
    <3>3. body[i - 2] \in {"ts", "data", "info"}
      BY <3>1, BodiesAre
    <3> QED BY <2>4, <3>2, <3>3
  <2> QED BY <2>1, <2>2, <2>3, <2>4
<1>9. Answering'
  <2>1. \A i \in 1 .. Len(rx') :
          /\ rx'[i].call = calls' /\ rx'[i].ok
          /\ (rx'[i].k = "lf") = (i = Len(rx'))
          /\ (rx'[i].k = "echo") = (i = 1 /\ pc' = "scip_echo")
          /\ rx'[i].k = "echo" => rx'[i].c = CommandOf(op')
    BY <1>1, <1>3, <1>6, <1>7, <1>8
  <2>2. Len(rx') >= 3 /\ rx'[2].k = "stat" /\ Good1(rx[2])'
    BY <1>1, <1>6, <1>7 DEF Good1, MustSucceed
  <2> QED BY <1>1, <1>3, <1>4, <1>7, <2>1, <2>2 DEF Answering
<1>10. AskingInv'
  BY <1>1, <1>4, <1>9 DEF AskingInv, Once, Scanned
<1>11. PhaseInv'
  <2>1. urg.is_active
    BY Before DEF InScip, Outside
  <2> QED BY <1>1, <1>3, <1>10, <2>1 DEF PhaseInv, Leaving, InScip
<1>12. CallInv'
  <2>1. dev'.tm => dev.tm \/ (op = "tm0" /\ ~urg.is_laser_on /\ ~urg.is_sending)
    BY <1>4 DEF CallInv, AskingInv
  <2> QED BY <1>1, <2>1 DEF CallInv, Scanned, Remain
<1> QED BY <1>11, <1>12

\* Every command that scip_response sends.
LEMMA AskedSensorTimely ==
  ASSUME Timely, TypeInv, CallInv, AskingInv, pc \in InScip, SensorCommand,
         UNCHANGED <<hostVars, localVars, historyVars>>
  PROVE  CallInv' /\ PhaseInv'
<1>0. dev \in Dev /\ dev.stream = 0
  BY ReachedIs DEF Reached, AskingInv
<1>1. /\ tx # <<>>
      /\ Head(tx).c \in {"QT", "BM", "GD", "MD", "TM0", "TM1", "TM2", "VV", "SL", "RB"}
  BY DEF SensorCommand, SensorQT, SensorBM, SensorGD, SensorMD, SensorTurnsDown, SensorTM,
         SensorVV, SensorSL, SensorRB, Reacts
<1>2. /\ Unanswered /\ Head(tx).c = CommandOf(op)
      /\ op \in {"start", "laser", "tm0", "tm1", "tm2", "info", "sleep", "reboot", "reboot2"}
  BY <1>1, Waiting
<1>3. /\ op = "reboot2" => dev.rb \/ ~dev.laser
      /\ op \notin {"reboot", "reboot2"} => dev.laser = urg.is_laser_on
  BY <1>2 DEF Unanswered
<1>4. /\ Head(tx).c \notin {"QT", "GD", "MD"}
      /\ Head(tx).c = "BM" <=> op \in {"start", "laser"}
      /\ Head(tx).c = "TM0" <=> op = "tm0"
      /\ Head(tx).c = "TM1" <=> op = "tm1"
      /\ Head(tx).c = "TM2" <=> op = "tm2"
      /\ Head(tx).c = "VV" <=> op = "info"
      /\ Head(tx).c = "SL" <=> op = "sleep"
      /\ Head(tx).c = "RB" <=> op \in {"reboot", "reboot2"}
  BY <1>2 DEF CommandOf
<1>5. /\ {"00", "01", "02"} \subseteq Status
      /\ <<>> \in Bodies /\ <<"ts">> \in Bodies /\ <<"info">> \in Bodies
  BY DEF Status, Bodies
<1>6. PICK lit \in Dev : lit = [dev EXCEPT !.laser = TRUE]
  <2>1. [dev EXCEPT !.laser = TRUE] \in Dev
    BY <1>0 DEF Dev
  <2> QED BY ONLY <2>1
<1>7. PICK stamping \in Dev : stamping = [dev EXCEPT !.tm = TRUE, !.stream = 0]
  <2>1. [dev EXCEPT !.tm = TRUE, !.stream = 0] \in Dev
    BY <1>0 DEF Dev, Endless
  <2> QED BY ONLY <2>1
<1>8. PICK back \in Dev : back = [dev EXCEPT !.tm = FALSE]
  <2>1. [dev EXCEPT !.tm = FALSE] \in Dev
    BY <1>0 DEF Dev
  <2> QED BY ONLY <2>1
<1>9. PICK idle \in Dev : idle = Idle
  <2>1. Idle \in Dev
    BY DEF Dev, Idle, Endless, Command, CommandName
  <2> QED BY ONLY <2>1
<1>10. CASE SensorBM
  <2>1. op \in {"start", "laser"} /\ op \notin {"reboot", "reboot2"}
    BY <1>4, <1>10 DEF SensorBM, Reacts
  <2>2. CommandOf(op) = "BM" /\ StatusValue("00") \in Expected("BM") /\ StatusValue("02") \in Expected("BM")
    BY <2>1 DEF CommandOf, StatusValue, Expected
  <2>3. CASE ~dev.laser /\ Reacts({"BM"}, "00", <<>>, lit)
    <3>1. lit.stream = 0 /\ lit.laser /\ lit.tm = dev.tm
      BY <1>0, <1>6 DEF Dev
    <3> QED BY <1>5, <2>1, <2>2, <2>3, <3>1, AnswerTimely
  <2>4. CASE dev.laser /\ Reacts({"BM"}, "02", <<>>, dev)
    BY <1>0, <1>5, <2>1, <2>2, <2>4, AnswerTimely
  <2> QED BY <1>6, <1>10, <2>3, <2>4 DEF SensorBM, Timely
<1>11. CASE SensorTM
  <2>1. op \in {"tm0", "tm1", "tm2"} /\ ~MustSucceed /\ dev.laser = urg.is_laser_on
    BY <1>3, <1>4, <1>11 DEF SensorTM, Reacts, MustSucceed
  <2>2. op \notin {"start", "laser", "reboot", "reboot2"}
    BY <2>1
  <2>3. CASE Reacts({"TM0"}, "00", <<>>, stamping)
    <3>1. stamping.stream = 0 /\ stamping.laser = dev.laser /\ op = "tm0"
      <4>1. Head(tx).c = "TM0"
        BY <2>3 DEF Reacts
      <4> QED BY <1>0, <1>4, <1>7, <4>1 DEF Dev
    <3> QED BY <1>5, <2>1, <2>2, <2>3, <3>1, AnswerTimely
  <2>4. CASE Reacts({"TM1"}, "00", <<"ts">>, dev)
    BY <1>0, <1>5, <2>1, <2>2, <2>4, AnswerTimely
  <2>5. CASE Reacts({"TM1"}, "01", <<>>, dev)
    BY <1>0, <1>5, <2>1, <2>2, <2>5, AnswerTimely
  <2>6. CASE Reacts({"TM2"}, "00", <<>>, back)
    <3>1. back.stream = 0 /\ back.laser = dev.laser /\ ~back.tm
      BY <1>0, <1>8 DEF Dev
    <3> QED BY <1>5, <2>1, <2>2, <2>6, <3>1, AnswerTimely
  <2> QED BY <1>7, <1>8, <1>11, <2>3, <2>4, <2>5, <2>6 DEF SensorTM
<1>12. CASE SensorVV
  <2>1. op = "info" /\ ~MustSucceed /\ dev.laser = urg.is_laser_on
    BY <1>3, <1>4, <1>12 DEF SensorVV, Reacts, MustSucceed
  <2> QED BY <1>0, <1>5, <1>12, <2>1, AnswerTimely DEF SensorVV
<1>13. CASE SensorSL
  <2>1. op = "sleep" /\ ~MustSucceed /\ dev.laser = urg.is_laser_on
    BY <1>3, <1>4, <1>13 DEF SensorSL, Reacts, MustSucceed
  <2> QED BY <1>0, <1>5, <1>13, <2>1, AnswerTimely DEF SensorSL
<1>14. CASE SensorRB
  <2>1. op \in {"reboot", "reboot2"} /\ Head(tx).c = "RB"
    BY <1>4, <1>14 DEF SensorRB, Reacts
  <2>2. CommandOf(op) = "RB" /\ StatusValue("00") \in Expected("RB") /\ StatusValue("01") \in Expected("RB")
    BY <2>1 DEF CommandOf, StatusValue, Expected
  <2>3. CASE ~dev.rb /\ Reacts({"RB"}, "01", <<>>, dev)
    BY <1>0, <1>3, <1>5, <2>1, <2>2, <2>3, AnswerTimely
  <2>4. CASE dev.rb /\ Reacts({"RB"}, "00", <<>>, idle)
    <3>1. idle.stream = 0 /\ ~idle.laser /\ ~idle.tm
      BY <1>9 DEF Idle
    <3> QED BY <1>5, <2>1, <2>2, <2>4, <3>1, AnswerTimely
  <2> QED BY <1>9, <1>14, <2>3, <2>4 DEF SensorRB
<1>15. ~SensorQT /\ ~SensorGD /\ ~SensorMD
  BY <1>4 DEF SensorQT, SensorGD, SensorMD, Reacts
<1>16. ~SensorTurnsDown
  <2>1. ASSUME SensorTurnsDown PROVE FALSE
    <3>1. dev.tm /\ Head(tx).c \in {"QT", "BM", "GD", "MD"}
      BY <2>1 DEF SensorTurnsDown, Reacts
    <3>2. op \in {"tm0", "tm1", "tm2", "info", "close"}
      BY <3>1 DEF CallInv
    <3> QED BY <1>4, <3>1, <3>2
  <2> QED BY <2>1
<1> QED BY <1>10, <1>11, <1>12, <1>13, <1>14, <1>15, <1>16 DEF SensorCommand

-----------------------------------------------------------------------------
(***************************************************************************)
(* urg_close, and a connection that is closed.                             *)
(***************************************************************************)

\* urg_close with a measurement that may be on: QT goes out last unless
\* nothing has to be stopped.
LEMMA CloseTimely ==
  ASSUME Timely, TypeInv, CallInv, Close, urg.is_active,
         NEW w \in Unit, NEW n \in 0 .. ScanSize, NEW k \in 0 .. 2, NEW q \in 0 .. 2,
         NEW x \in 0 .. 1, NEW y \in 0 .. 2, Content(w, n, k, q, x, y)
  PROVE  CallInv' /\ PhaseInv'
<1>0. Reached /\ tx \in Seq(Command)
  BY ReachedIs, Before
<1>1. /\ pc = "entry" /\ op = "close" /\ DrainWithQT(urg.last_errno, "closing")
      /\ UNCHANGED <<rx, dev, link, op, seen, calls, stack, barrier, scans>>
  BY DEF Close, At, localVars, historyVars
<1>2. Depth = 0 /\ Stops = 0 /\ ~Answered
  <2>1. Depth = 0
    BY <1>0, <1>1, Before DEF Reached, Inside, InReceive
  <2> QED BY <1>1, <2>1 DEF Stops, Answered
<1>3. y = 0 /\ q = 0 /\ ~(w = "stop" /\ n > 0)
  BY <1>2 DEF Content, Tally, Owed
<1>4. \A i \in 1 .. Len(tx) : tx[i].c \in {"GD", "MD"}
  <2>1. Len(tx) = x /\ (x = 1 => tx[1].c \in {"GD", "MD"})
    BY <1>3 DEF Content, Sent
  <2> QED BY <2>1
<1>5. /\ urg'.is_active /\ urg'.is_sending = urg.is_sending /\ ~urg'.is_laser_on
      /\ urg'.specified_scan_times = urg.specified_scan_times
      /\ urg'.scanning_remain_times = urg.scanning_remain_times
      /\ pc' \in {"drain", "closing"}
      /\ pc' = "drain" => resume' = "closing"
  <2>1. CASE urg.is_sending
    <3>1. /\ urg' = [urg EXCEPT !.is_laser_on = FALSE] /\ pc' = "drain" /\ resume' = "closing"
      BY <1>1, <2>1 DEF DrainWithQT
    <3> QED BY <1>0, <2>1, <3>1 DEF Reached, UrgFields
  <2>2. CASE ~urg.is_sending
    <3>1. /\ urg' = [urg EXCEPT !.is_laser_on = FALSE, !.last_errno = urg.last_errno]
          /\ pc' = "closing"
      BY <1>1, <2>2 DEF DrainWithQT
    <3> QED BY <1>0, <2>2, <3>1 DEF Reached, UrgFields
  <2> QED BY <2>1, <2>2
<1>6. CallInv'
  <2>1. Scanned' = Scanned /\ (Remain' = Remain)
    BY <1>5 DEF Scanned, Remain
  <2>2. pc' # "idle"
    BY <1>5
  <2> QED BY <1>1, <1>5, <2>1, <2>2 DEF CallInv
<1>7. CASE NothingToStop
  <2>1. ~urg.is_sending /\ ~urg.is_laser_on /\ UNCHANGED tx
    BY <1>1, <1>7 DEF NothingToStop, DrainWithQT
  <2>2. ~Pending(w, n, k, x)
    BY <2>1 DEF Content, Tally, Measures
  <2>3. x = 0 /\ dev.stream = 0
    BY <1>0, <2>2 DEF Pending, Reached
  <2>4. dev.laser = urg.is_laser_on
    BY <1>2, <2>1 DEF Content, Tally, Measures
  <2>5. tx = <<>>
    <3>1. Len(tx) = 0
      BY <1>3, <2>3 DEF Content, Sent
    <3> QED BY <1>0, <3>1
  <2>6. Dark' /\ tx' = <<>>
    BY <1>1, <2>1, <2>3, <2>4, <2>5 DEF Dark
  <2>7. LeavingInv'
    BY <1>1, <1>5, <2>6 DEF LeavingInv
  <2> QED BY <1>5, <1>6, <2>7 DEF PhaseInv, Leaving
<1>8. CASE ~NothingToStop
  <2>1. Write("QT", 0) /\ (urg.is_sending \/ urg.is_laser_on)
    BY <1>1, <1>8 DEF NothingToStop, DrainWithQT, WriteIfOpen, CanWrite, CallInv
  <2>2. ~dev.tm
    BY <2>1 DEF CallInv
  <2>3. PICK c : c = [c |-> "QT", n |-> 0, call |-> calls]
    OBVIOUS
  <2>4. c \in Command /\ c.c = "QT"
    BY <1>0, <2>3 DEF Command, CommandName, Endless, Reached
  <2>5. tx' = Append(tx, c)
    BY <2>1, <2>3 DEF Write
  <2>6. /\ Len(tx') = Len(tx) + 1 /\ tx'[Len(tx) + 1] = c /\ tx' # <<>> /\ Len(tx) \in Nat
        /\ \A i \in 1 .. Len(tx) : tx'[i] = tx[i]
    BY <1>0, <2>4, <2>5
  <2>7. \A i \in 1 .. Len(tx') : tx'[i].c \in {"GD", "MD", "QT"}
    <3> TAKE i \in 1 .. Len(tx')
    <3>1. i = Len(tx) + 1 \/ i \in 1 .. Len(tx)
      BY <2>6
    <3> QED BY <1>4, <2>4, <2>6, <3>1
  <2>8. LeavingInv'
    BY <1>1, <1>5, <2>2, <2>4, <2>6, <2>7 DEF LeavingInv
  <2> QED BY <1>5, <1>6, <2>8 DEF PhaseInv, Leaving
<1> QED BY <1>7, <1>8

\* What a thread does that is leaving.
LEMMA LeavingHost ==
  ASSUME TypeInv, Leaving, HostStep
  PROVE  \/ NotConnected \/ (Close /\ ~urg.is_active) \/ ConnectionClose
         \/ ignore_receive_data /\ UNCHANGED <<localVars, historyVars>>
<1>1. pc \in {"idle", "entry", "closing", "drain"} /\ (pc = "entry" => ~urg.is_active)
  BY Before DEF Leaving, Outside
<1>2. ~Start
  BY <1>1 DEF Start, StartContinuous, StartSingle, StartSingleGoesOn, StartRefused, Entered, At
<1>3. ~Get /\ ~Receive
  BY <1>1 DEF Get, Entered, At, Receive, ReceiveEcho, ReceiveStatus, ReceiveStopEnd, ReceiveAckEnd,
              ReceiveTimestamp, ReceiveLengthData
<1>4. ~StopOrCount
  BY <1>1 DEF StopOrCount, Stop, CountScan, CountLastScan, GetReturns, StopSucceeds,
              StopTriesAgain, AutoStopReturns, StopReturns, SleepGoesOn, At
<1>5. ~ScipNext
  BY <1>1 DEF ScipNext, ScipEcho, ScipStatus, ScipBody
<1>6. Command2 => Close \/ ConnectionClose
  BY <1>1 DEF Command2, LaserAlreadyOn, Command1, LaserOnReturns, TimeStampModeReturns,
              TimeStampReturns, InfoReturns, SleepReturns, RebootFails, RebootAgain,
              RebootCloses, ScipReturns, Entered, At
<1>7. Close => ~urg.is_active
  BY <1>1 DEF Close, At
<1> QED BY <1>2, <1>3, <1>4, <1>5, <1>6, <1>7 DEF HostStep

\* Its steps.
LEMMA LeavingHostTimely ==
  ASSUME Timely, TypeInv, CallInv, Leaving, LeavingInv, HostStep
  PROVE  CallInv' /\ PhaseInv'
<1>0. urg \in UrgFields
  BY Before
<1>1. CASE NotConnected
  <2>1. /\ pc = "entry" /\ op # "close" /\ ~urg.is_active /\ pc' = "idle"
        /\ ret' = "NOT_CONNECTED"
        /\ urg' = (IF op = "info" THEN urg ELSE [urg EXCEPT !.last_errno = "NOT_CONNECTED"])
        /\ UNCHANGED <<tx, dev, link, op, resume, seen, calls, barrier, scans>>
    BY <1>1 DEF NotConnected, Returns, sensorVars, historyVars
  <2>2. UrgAsBefore
    BY <1>0, <2>1 DEF UrgAsBefore, UrgFields
  <2>3. ~urg'.is_active /\ ret' # "OK"
    BY <2>1, <2>2 DEF UrgAsBefore
  <2>4. CallInv'
    BY <2>1, <2>2, <2>3 DEF CallInv, UrgAsBefore, Scanned, Remain
  <2>5. LeavingInv'
    BY <2>1 DEF LeavingInv, Dark
  <2> QED BY <2>3, <2>4, <2>5 DEF PhaseInv, Leaving
<1>2. CASE Close /\ ~urg.is_active
  <2>1. /\ pc = "entry" /\ op = "close" /\ pc' = "closing"
        /\ UNCHANGED <<tx, dev, urg, ret, link, op, resume, seen, calls, barrier, scans>>
    BY <1>2 DEF Close, At, historyVars
  <2>2. CallInv'
    BY <1>2, <2>1 DEF CallInv, Scanned, Remain
  <2>3. LeavingInv'
    BY <2>1 DEF LeavingInv, Dark
  <2> QED BY <2>1, <2>2, <2>3 DEF PhaseInv, Leaving
<1>3. CASE ConnectionClose
  <2>1. /\ pc = "closing" /\ pc' = "idle" /\ ret' = "OK"
        /\ link' = (IF link = "open" THEN "closed" ELSE link)
        /\ urg' = [urg EXCEPT !.is_active = FALSE]
        /\ UNCHANGED <<tx, dev, op, resume, seen, calls, barrier, scans>>
    BY <1>3 DEF ConnectionClose, HangsUp, Returns, historyVars
  <2>2. /\ ~urg'.is_active /\ urg'.is_sending = urg.is_sending
        /\ urg'.is_laser_on = urg.is_laser_on
        /\ urg'.specified_scan_times = urg.specified_scan_times
        /\ urg'.scanning_remain_times = urg.scanning_remain_times
    BY <1>0, <2>1 DEF UrgFields
  <2>3. op = "close"
    BY <2>1 DEF LeavingInv
  <2>4. CallInv'
    <3>1. Scanned' = Scanned /\ (Remain' = Remain)
      BY <2>2 DEF Scanned, Remain
    <3>2. link' # "lost"
      BY <2>1 DEF CallInv
    <3> QED BY <2>1, <2>2, <2>3, <3>1, <3>2 DEF CallInv
  <2>5. LeavingInv'
    BY <2>1 DEF LeavingInv, Dark
  <2> QED BY <2>2, <2>4, <2>5 DEF PhaseInv, Leaving
<1>4. CASE ignore_receive_data /\ UNCHANGED <<localVars, historyVars>>
  <2>1. /\ pc = "drain" /\ op = "close" /\ resume = "closing"
        /\ UNCHANGED <<tx, dev, link, op, resume, seen, calls, barrier, scans>>
    BY <1>4 DEF ignore_receive_data, LeavingInv, historyVars
  <2>2. \/ pc' = "closing" /\ urg' = [urg EXCEPT !.is_sending = FALSE, !.last_errno = ret]
        \/ UNCHANGED <<pc, urg>>
    BY <1>4, <2>1 DEF ignore_receive_data
  <2>3. /\ pc' \in {"drain", "closing"}
        /\ urg'.is_active = urg.is_active /\ (urg'.is_sending => urg.is_sending)
        /\ urg'.is_laser_on = urg.is_laser_on
        /\ urg'.specified_scan_times = urg.specified_scan_times
        /\ urg'.scanning_remain_times = urg.scanning_remain_times
    <3>1. CASE UNCHANGED <<pc, urg>>
      BY <2>1, <3>1
    <3>2. CASE pc' = "closing" /\ urg' = [urg EXCEPT !.is_sending = FALSE, !.last_errno = ret]
      BY <1>0, <3>2 DEF UrgFields
    <3> QED BY <2>2, <3>1, <3>2
  <2>4. CallInv'
    <3>1. Scanned' = Scanned /\ (Remain' = Remain) /\ pc' # "idle"
      BY <2>3 DEF Scanned, Remain
    <3> QED BY <2>1, <2>3, <3>1 DEF CallInv
  <2>5. LeavingInv'
    BY <2>1 DEF LeavingInv, Dark
  <2> QED BY <2>3, <2>4, <2>5 DEF PhaseInv, Leaving
<1> QED BY <1>1, <1>2, <1>3, <1>4, LeavingHost

\* The sensor when the host is gone: QT comes last and puts it out.
LEMMA LeavingSensorTimely ==
  ASSUME TypeInv, CallInv, Leaving, LeavingInv, SensorCommand,
         UNCHANGED <<hostVars, localVars, historyVars>>
  PROVE  CallInv' /\ PhaseInv'
<1>0. dev \in Dev /\ tx \in Seq(Command)
  BY ReachedIs, Before DEF Reached
<1>1. /\ tx # <<>> /\ tx' = Tail(tx)
      /\ UNCHANGED <<link, urg, pc, op, ret, resume, seen, calls, barrier, scans>>
  BY DEF SensorCommand, SensorQT, SensorBM, SensorGD, SensorMD, SensorTurnsDown, SensorTM,
         SensorVV, SensorSL, SensorRB, Reacts, hostVars, historyVars
<1>2. /\ tx[Len(tx)].c = "QT" /\ ~dev.tm
      /\ \A i \in 1 .. Len(tx) : tx[i].c \in {"GD", "MD", "QT"}
  BY <1>1 DEF LeavingInv
<1>3. PICK t \in Seq(Command) : t = Tail(tx)
  BY <1>0, <1>1
<1>4. /\ Len(tx) \in Nat /\ Len(tx) >= 1 /\ Len(t) = Len(tx) - 1 /\ Head(tx) = tx[1]
      /\ \A i \in 1 .. Len(t) : t[i] = tx[i + 1]
  BY <1>0, <1>1, <1>3
<1>5. Head(tx).c \in {"GD", "MD", "QT"}
  BY <1>2, <1>4
<1>6. SensorQT \/ SensorGD \/ SensorMD
  BY <1>2, <1>5 DEF SensorCommand, SensorBM, SensorTurnsDown, SensorTM, SensorVV, SensorSL,
                    SensorRB, Reacts
<1>7. dev'.tm = dev.tm
  <2>1. CASE SensorQT
    BY <1>0, <2>1 DEF SensorQT, Reacts, Dev
  <2>2. CASE SensorGD
    BY <1>0, <2>2 DEF SensorGD, Reacts, Dev
  <2>3. CASE SensorMD
    BY <1>0, <2>3 DEF SensorMD, Reacts, Dev
  <2> QED BY <1>6, <2>1, <2>2, <2>3
<1>8. t = <<>> => Dark'
  <2>1. ASSUME t = <<>> PROVE Dark'
    <3>1. Len(tx) = 1
      BY <1>4, <2>1
    <3>2. Head(tx).c = "QT"
      BY <1>2, <1>4, <3>1
    <3>3. SensorQT
      BY <1>6, <3>2 DEF SensorGD, SensorMD, Reacts
    <3> QED BY <1>0, <3>3 DEF SensorQT, Reacts, Dev, Dark
  <2> QED BY <2>1
<1>9. t # <<>> => /\ t[Len(t)].c = "QT"
                  /\ \A i \in 1 .. Len(t) : t[i].c \in {"GD", "MD", "QT"}
  <2>1. ASSUME t # <<>>
        PROVE  /\ t[Len(t)].c = "QT"
               /\ \A i \in 1 .. Len(t) : t[i].c \in {"GD", "MD", "QT"}
    <3>1. Len(t) \in 1 .. Len(t) /\ Len(t) + 1 = Len(tx)
      BY <1>4, <2>1
    <3>2. t[Len(t)] = tx[Len(tx)]
      BY <1>4, <3>1
    <3>3. \A i \in 1 .. Len(t) : i + 1 \in 1 .. Len(tx)
      BY <1>4
    <3> QED BY <1>2, <1>4, <3>2, <3>3
  <2> QED BY <2>1
<1>10. LeavingInv'
  BY <1>1, <1>2, <1>3, <1>7, <1>8, <1>9 DEF LeavingInv
<1>11. CallInv'
  BY <1>1, <1>7, CallInvSensor
<1> QED BY <1>1, <1>10, <1>11 DEF PhaseInv, Leaving

-----------------------------------------------------------------------------
(***************************************************************************)
(* Every step of the specification.                                        *)
(***************************************************************************)

\* The thread in scip_response.
LEMMA AskingHostTimely ==
  ASSUME Timely, TypeInv, TypeInv', CallInv, AskingInv, pc \in InScip, HostStep
  PROVE  CallInv' /\ PhaseInv'
<1>1. pc \in {"scip_echo", "scip_status", "scip_body", "scip_done"}
  BY DEF InScip
<1>2. ~NotConnected /\ (Start => StartSingleGoesOn)
  BY <1>1 DEF NotConnected, Start, StartContinuous, StartSingle, StartRefused, Entered, At
<1>3. ~Get /\ ~Receive
  BY <1>1 DEF Get, Entered, At, Receive, ReceiveEcho, ReceiveStatus, ReceiveStopEnd, ReceiveAckEnd,
              ReceiveTimestamp, ReceiveLengthData
<1>4. ~StopOrCount
  BY <1>1 DEF StopOrCount, Stop, CountScan, CountLastScan, GetReturns, StopSucceeds,
              StopTriesAgain, AutoStopReturns, StopReturns, SleepGoesOn, At
<1>5. ~ignore_receive_data
  BY <1>1 DEF ignore_receive_data
<1>6. Command2 => \/ LaserOnReturns \/ TimeStampModeReturns \/ TimeStampReturns
                  \/ InfoReturns \/ SleepReturns
                  \/ RebootFails \/ RebootAgain \/ RebootCloses
  BY <1>1 DEF Command2, LaserAlreadyOn, Command1, Entered, At, Close, ConnectionClose
<1>7. CASE Command2
  BY <1>6, <1>7, ReturnsTimely, RebootTimely
<1>8. CASE Start
  BY <1>2, <1>8, SingleGoesOnTimely
<1>9. CASE ScipNext /\ UNCHANGED <<localVars, historyVars>>
  BY <1>9, ScipTimely
<1> QED BY <1>2, <1>3, <1>4, <1>5, <1>7, <1>8, <1>9 DEF HostStep

\* The thread elsewhere, while the connection is active.
LEMMA MeasuringHostTimely ==
  ASSUME Timely, TypeInv, TypeInv', CallInv, ~Leaving, pc \notin InScip, MeasuringInv, HostStep
  PROVE  CallInv' /\ PhaseInv'
<1>1. /\ pc \notin {"scip_echo", "scip_status", "scip_body", "scip_done", "drain", "closing"}
      /\ urg.is_active
  BY DEF InScip, Leaving
<1>2. PICK w \in Unit, n \in 0 .. ScanSize, k \in 0 .. 2, q \in 0 .. 2, x \in 0 .. 1, y \in 0 .. 2 :
        Content(w, n, k, q, x, y)
  BY DEF MeasuringInv
<1>3. ~NotConnected /\ ~ScipNext /\ ~ignore_receive_data
  BY <1>1 DEF NotConnected, ScipNext, ScipEcho, ScipStatus, ScipBody, ignore_receive_data
<1>4. CASE Start
  <2>1. ~StartSingleGoesOn /\ ~StartRefused
    BY <1>1 DEF StartSingleGoesOn, StartRefused, Entered, At, CallInv
  <2> QED BY <1>2, <1>4, <2>1, ContinuousTimely, SingleTimely DEF Start
<1>5. CASE Get
  BY <1>2, <1>5, GetTimely
<1>6. CASE Receive
  BY <1>2, <1>6, EchoTimely, StatusTimely, StopEndTimely, AckEndTimely, TimestampTimely,
     DataTimely DEF Receive
<1>7. CASE StopOrCount
  BY <1>2, <1>7, StopTimely, CountTimely, CountLastTimely, GetReturnsTimely, StopSucceedsTimely,
     StopAgainTimely, AutoStopTimely, StopReturnsTimely, SleepTimely DEF StopOrCount
<1>8. CASE Command2
  <2>1. LaserAlreadyOn \/ Command1 \/ Close
    BY <1>1, <1>8 DEF Command2, LaserOnReturns, TimeStampModeReturns, TimeStampReturns,
                      InfoReturns, SleepReturns, RebootFails, RebootAgain, RebootCloses,
                      ScipReturns, At, ConnectionClose
  <2> QED BY <1>1, <1>2, <2>1, LaserAlreadyTimely, Command1Timely, CloseTimely
<1> QED BY <1>3, <1>4, <1>5, <1>6, <1>7, <1>8 DEF HostStep

\* The sensor at that time.
LEMMA MeasuringSensorTimely ==
  ASSUME Timely, TypeInv, CallInv, ~Leaving, pc \notin InScip, MeasuringInv,
         SensorCommand \/ (SensorScan /\ noise = 0),
         UNCHANGED <<hostVars, localVars, historyVars>>
  PROVE  CallInv' /\ PhaseInv'
<1>1. PICK w \in Unit, n \in 0 .. ScanSize, k \in 0 .. 2, q \in 0 .. 2, x \in 0 .. 1, y \in 0 .. 2 :
        Content(w, n, k, q, x, y)
  BY DEF MeasuringInv
<1>2. CASE SensorScan /\ noise = 0
  BY <1>1, <1>2, SensorScanTimely
<1>3. CASE SensorCommand
  <2>1. tx # <<>>
    BY <1>3 DEF SensorCommand, SensorQT, SensorBM, SensorGD, SensorMD, SensorTurnsDown, SensorTM,
                SensorVV, SensorSL, SensorRB, Reacts
  <2>2. Head(tx).c \in {"QT", "GD", "MD"} /\ ~dev.tm
    BY <1>1, <2>1, NextCommand
  <2>3. SensorQT \/ SensorGD \/ SensorMD
    BY <1>3, <2>2 DEF SensorCommand, SensorBM, SensorTurnsDown, SensorTM, SensorVV, SensorSL,
                      SensorRB, Reacts
  <2> QED BY <1>1, <2>3, SensorQTTimely, SensorGDTimely, SensorMDTimely
<1> QED BY <1>2, <1>3

\* A scan comes only while the sensor streams and nothing is on its way to it.
LEMMA NoScan ==
  ASSUME Timely, SensorScan, noise = 0
  PROVE  ~AskingInv /\ ~LeavingInv
<1>1. dev.stream > 0 /\ tx = <<>>
  BY DEF SensorScan, Timely
<1>2. dev.stream # 0
  BY <1>1
<1> QED BY <1>1, <1>2 DEF AskingInv, LeavingInv, Dark

\* The sensor at any time.
LEMMA SensorTimely ==
  ASSUME Timely, TypeInv, CallInv, PhaseInv, SensorCommand \/ (SensorScan /\ noise = 0),
         UNCHANGED <<hostVars, localVars, historyVars>>
  PROVE  CallInv' /\ PhaseInv'
<1>1. CASE Leaving
  <2>1. LeavingInv
    BY <1>1 DEF PhaseInv
  <2> QED BY <1>1, <2>1, NoScan, LeavingSensorTimely
<1>2. CASE ~Leaving /\ pc \in InScip
  <2>1. AskingInv
    BY <1>2 DEF PhaseInv
  <2> QED BY <1>2, <2>1, NoScan, AskedSensorTimely
<1>3. CASE ~Leaving /\ pc \notin InScip
  <2>1. MeasuringInv
    BY <1>3 DEF PhaseInv
  <2> QED BY <1>3, <2>1, MeasuringSensorTimely
<1> QED BY <1>1, <1>2, <1>3

\* The thread at any time.
LEMMA HostTimely ==
  ASSUME Timely, TypeInv, TypeInv', CallInv, PhaseInv, HostStep
  PROVE  CallInv' /\ PhaseInv'
<1>1. CASE Leaving
  <2>1. LeavingInv
    BY <1>1 DEF PhaseInv
  <2> QED BY <1>1, <2>1, LeavingHostTimely
<1>2. CASE ~Leaving /\ pc \in InScip
  <2>1. AskingInv
    BY <1>2 DEF PhaseInv
  <2> QED BY <1>2, <2>1, AskingHostTimely
<1>3. CASE ~Leaving /\ pc \notin InScip
  <2>1. MeasuringInv
    BY <1>3 DEF PhaseInv
  <2> QED BY <1>3, <2>1, MeasuringHostTimely
<1> QED BY <1>1, <1>2, <1>3

\* A call at any time.
LEMMA CallPhases ==
  ASSUME Timely, TypeInv, CallInv, PhaseInv, NEW o \in Ops, Call(o)
  PROVE  CallInv' /\ PhaseInv'
<1>1. /\ pc = "idle" /\ pc' = "entry"
      /\ UNCHANGED <<tx, rx, dev, unit, noise, link, urg, good, resume, stack, type,
                     steps, barrier, scans>>
      /\ CallInv'
  BY CallAgrees
<1>2. CASE urg.is_active
  <2>1. MeasuringInv
    BY <1>1, <1>2 DEF PhaseInv, Leaving, InScip
  <2>2. PICK w \in Unit, n \in 0 .. ScanSize, k \in 0 .. 2, q \in 0 .. 2, x \in 0 .. 1, y \in 0 .. 2 :
          Content(w, n, k, q, x, y)
    BY <2>1 DEF MeasuringInv
  <2> QED BY <1>2, <2>2, CallTimely
<1>3. CASE ~urg.is_active
  <2>1. LeavingInv
    BY <1>3 DEF PhaseInv, Leaving
  <2>2. LeavingInv'
    BY <1>1, <2>1 DEF LeavingInv, Dark
  <2> QED BY <1>1, <1>3, <2>2 DEF PhaseInv, Leaving
<1> QED BY <1>2, <1>3

\* Nothing happens.
LEMMA StillTimely ==
  ASSUME TimelyInv, UNCHANGED vars
  PROVE  TimelyInv'
<1>1. /\ UNCHANGED <<tx, rx, dev, unit, noise, link, urg, pc, op, ret, good, resume, seen, calls,
                     stack, type, steps, barrier, scans>>
  BY DEF vars, sensorVars, hostVars, localVars, historyVars
<1>2. CallInv' <=> CallInv
  BY <1>1 DEF CallInv, Scanned, Remain
<1>3. LeavingInv' <=> LeavingInv
  BY <1>1 DEF LeavingInv, Dark
<1>4. AskingInv' <=> AskingInv
  BY <1>1 DEF AskingInv, Unanswered, Answering, Good1, MustSucceed, Once, Scanned
<1>5. MeasuringInv => MeasuringInv'
  <2>1. ASSUME NEW w \in Unit, NEW n \in 0 .. ScanSize, NEW k \in 0 .. 2, NEW q \in 0 .. 2,
               NEW x \in 0 .. 1, NEW y \in 0 .. 2, Content(w, n, k, q, x, y)
        PROVE  Content(w, n, k, q, x, y)'
    BY <1>1, <2>1 DEF Content, Sent, Fresh, Tally, Reading, Owed, Measures, Stoppable, Counts,
       Once, Scanned, Remain, Begun, Depth, ByApp, Tries, Getting, Stops, Answered, Pending, Spent
  <2> QED BY <2>1 DEF MeasuringInv
<1> QED BY <1>1, <1>2, <1>3, <1>4, <1>5 DEF TimelyInv, PhaseInv, Leaving, Undisturbed

\* The thread neither loses nor damages anything.
LEMMA HostNoise ==
  ASSUME HostStep
  PROVE  noise' = noise
<1>1. CASE NotConnected \/ Get
  BY <1>1 DEF NotConnected, Get, sensorVars
<1>2. CASE Start
  BY <1>2 DEF Start, StartContinuous, StartSingle, StartSingleGoesOn, StartRefused
<1>3. CASE Receive
  BY <1>3 DEF Receive, ReceiveEcho, ReceiveStatus, ReceiveStopEnd, ReceiveAckEnd,
              ReceiveTimestamp, ReceiveLengthData
<1>4. CASE StopOrCount
  BY <1>4 DEF StopOrCount, Stop, StopBegins, CountScan, CountLastScan, GetReturns, StopSucceeds,
              StopTriesAgain, AutoStopReturns, StopReturns, SleepGoesOn, sensorVars
<1>5. CASE Command2
  BY <1>5 DEF Command2, LaserAlreadyOn, Command1, LaserOnReturns, TimeStampModeReturns,
              TimeStampReturns, InfoReturns, SleepReturns, RebootFails, RebootAgain,
              RebootCloses, ScipReturns, Close, ConnectionClose, sensorVars
<1>6. CASE ScipNext \/ ignore_receive_data
  BY <1>6 DEF ScipNext, ScipEcho, ScipStatus, ScipBody, ignore_receive_data
<1> QED BY <1>1, <1>2, <1>3, <1>4, <1>5, <1>6 DEF HostStep

\* Once the line has lost or damaged something it has for good.
LEMMA NoiseStays ==
  ASSUME TypeInv, Next, noise' = 0
  PROVE  /\ noise = 0
         /\ Environment =>
              \/ Disconnect
              \/ /\ SensorCommand \/ SensorScan
                 /\ UNCHANGED <<hostVars, localVars, historyVars>>
<1>0. noise \in Nat
  BY DEF TypeInv, TypeOK, SensorTypeOK
<1>1. CASE Environment
  <2>1. CASE Disconnect
    BY <2>1 DEF Disconnect
  <2>2. CASE Sensor(SensorNext)
    <3>1. ~LoseLine /\ ~DamageLine /\ ~StallLine
      BY <1>0 DEF LoseLine, DamageLine, StallLine
    <3>2. /\ SensorCommand \/ SensorScan
          /\ UNCHANGED <<hostVars, localVars, historyVars>>
      BY <2>2, <3>1 DEF Sensor, SensorNext
    <3>3. noise' = noise
      BY <3>2 DEF SensorCommand, SensorQT, SensorBM, SensorGD, SensorMD, SensorTurnsDown, SensorTM,
                  SensorVV, SensorSL, SensorRB, Reacts, SensorScan, Says
    <3> QED BY <3>2, <3>3
  <2> QED BY <1>1, <2>1, <2>2 DEF Environment
<1>2. CASE ~Environment
  <2>1. CASE \E o \in Ops : Call(o)
    BY <1>2, <2>1 DEF Call, sensorVars
  <2>2. CASE HostStep
    BY <1>2, <2>2, HostNoise
  <2> QED BY <1>2, <2>1, <2>2 DEF Next
<1> QED BY <1>1, <1>2

\* The invariant is inductive.
LEMMA NextTimely ==
  ASSUME Timely, TypeInv, TypeInv', TimelyInv, [Next]_vars
  PROVE  TimelyInv'
<1>1. CASE UNCHANGED vars
  BY <1>1, StillTimely
<1>2. ASSUME Next, noise' = 0
      PROVE  CallInv' /\ PhaseInv'
  <2>1. noise = 0
    BY <1>2, NoiseStays
  <2>2. CallInv /\ PhaseInv
    BY <2>1 DEF TimelyInv, Undisturbed
  <2>3. CASE \E o \in Ops : Call(o)
    BY <2>2, <2>3, CallPhases
  <2>4. CASE HostStep
    BY <2>2, <2>4, HostTimely
  <2>5. CASE Environment
    <3>1. ~Disconnect
      BY DEF Disconnect, Timely
    <3>2. /\ SensorCommand \/ SensorScan
          /\ UNCHANGED <<hostVars, localVars, historyVars>>
      BY <1>2, <2>5, <3>1, NoiseStays
    <3> QED BY <2>1, <2>2, <3>2, SensorTimely
  <2> QED BY <1>2, <2>3, <2>4, <2>5 DEF Next
<1> QED BY <1>1, <1>2 DEF TimelyInv, Undisturbed

\* It holds at first: nothing is unread and nothing is on.
LEMMA InitTimely ==
  ASSUME Init
  PROVE  TimelyInv
<1>1. /\ tx = <<>> /\ rx = <<>> /\ dev = Idle /\ link = "open"
      /\ urg = [is_active |-> TRUE, is_sending |-> FALSE, is_laser_on |-> FALSE,
                specified_scan_times |-> 0, scanning_remain_times |-> 0,
                last_errno |-> "NO_ERROR"]
      /\ pc = "idle" /\ op = "none" /\ ret = "OK" /\ resume = "idle" /\ seen = {} /\ calls = 0
      /\ stack = <<>> /\ barrier = 0 /\ scans = 0
  BY DEF Init, SensorInit
<1>2. /\ urg.is_active /\ ~urg.is_sending /\ ~urg.is_laser_on /\ Scanned = 0 /\ Remain = 0
      /\ ~Once /\ dev.stream = 0 /\ ~dev.laser /\ ~dev.tm
  BY <1>1 DEF Idle, Scanned, Remain, Once
<1>3. CallInv
  BY <1>1, <1>2 DEF CallInv
<1>4. PICK w \in Unit : w = "ack"
  BY DEF Unit
<1>5. PICK n \in 0 .. ScanSize : n = 0
  BY Sizes
<1>6. PICK k \in 0 .. 2, q \in 0 .. 2, x \in 0 .. 1, y \in 0 .. 2 : k = 0 /\ q = 0 /\ x = 0 /\ y = 0
  OBVIOUS
<1>7. Depth = 0 /\ ~ByApp /\ Tries = 0
  <2>1. Depth = 0
    BY <1>1 DEF Depth
  <2> QED BY <2>1 DEF ByApp, Tries
<1>8. Stops = 0 /\ ~Answered /\ ~Getting /\ Begun(w, n) = 0 /\ ~Pending(w, n, k, x)
  BY <1>1, <1>2, <1>5, <1>6, <1>7 DEF Stops, Answered, Getting, Begun, Pending
<1>9. Layout(Once, barrier, rx, w, n, k, q)
  BY <1>1, <1>5, <1>6, LayoutEmpty
<1>10. Sent(x, y) /\ Fresh(w, n) /\ Reading(w, n) /\ Owed(w, n, q, y)
  <2>1. Len(tx) = 0
    BY <1>1
  <2> QED BY <1>1, <1>5, <1>6, <1>8, <2>1 DEF Sent, Fresh, Reading, Owed
<1>11. Measures(w, n, k, x)
  <2>1. ~(dev.stream > 0) /\ ~Once
    BY <1>2
  <2>2. dev.laser = urg.is_laser_on
    BY <1>1 DEF Idle
  <2> QED BY <1>2, <1>7, <1>8, <2>1, <2>2 DEF Measures
<1>12. Stoppable(w, n, k, x, y) /\ Counts(w, n, k, x)
  BY <1>1, <1>2, <1>5, <1>6, <1>7, <1>8 DEF Stoppable, Counts
<1>13. MeasuringInv
  BY <1>9, <1>10, <1>11, <1>12 DEF MeasuringInv, Content, Tally
<1> QED BY <1>1, <1>2, <1>3, <1>13 DEF TimelyInv, PhaseInv, Leaving, InScip

\* The state between two calls when no measurement is on.
LEMMA Settled ==
  ASSUME TypeInv, CallInv, PhaseInv, pc = "idle", urg.is_active, ~urg.is_sending,
         Once => ~urg.is_laser_on
  PROVE  rx = <<>> /\ tx = <<>> /\ dev.stream = 0 /\ dev.laser = urg.is_laser_on
<1>1. PICK w \in Unit, n \in 0 .. ScanSize, k \in 0 .. 2, q \in 0 .. 2, x \in 0 .. 1, y \in 0 .. 2 :
        Content(w, n, k, q, x, y)
  BY DEF PhaseInv, MeasuringInv, Leaving, InScip
<1>2. Depth = 0 /\ dev.stream \in Nat
  BY ReachedIs, Before DEF Outside, Inside, InReceive, Reached
<1>3. ~Pending(w, n, k, x)
  BY <1>1 DEF Content, Tally, Measures
<1>4. Stops = 0 /\ ~Answered
  BY <1>2 DEF Stops, Answered, ByApp
<1>5. y = 0 /\ q = 0 /\ ~(w = "stop" /\ n > 0)
  BY <1>1, <1>4 DEF Content, Tally, Owed
<1>6. x = 0 /\ k = 0 /\ n = 0 /\ dev.stream = 0
  <2>1. x = 0 /\ k = 0 /\ dev.stream = 0 /\ ~(n > 0 /\ w # "stop")
    BY <1>2, <1>3 DEF Pending
  <2>2. n \in Nat /\ ~(n > 0)
    BY <1>5, <2>1
  <2> QED BY <2>1, <2>2
<1>7. tx = <<>>
  <2>1. Len(tx) = 0 /\ tx \in Seq(Command)
    BY <1>1, <1>5, <1>6, Before DEF Content, Sent
  <2> QED BY <2>1
<1>8. rx = <<>>
  <2>1. Layout(Once, barrier, rx, w, 0, 0, 0) /\ rx \in Seq(Line) /\ 0 \in 0 .. 2
    BY <1>1, <1>5, <1>6, Before DEF Content
  <2> QED BY <2>1, LayoutTurns
<1>9. dev.laser = urg.is_laser_on
  BY <1>1, <1>4 DEF Content, Tally, Measures
<1> QED BY <1>6, <1>7, <1>8, <1>9

-----------------------------------------------------------------------------
(***************************************************************************)
(* What follows.                                                           *)
(***************************************************************************)

\* When a stop has returned, MeasuringInv leaves no answer unread.
LEMMA StopFollows ==
  ASSUME TypeInv, TimelyInv
  PROVE  StopWorks /\ StopLeavesNothing
<1>1. StopWorks
  BY DEF StopWorks, TimelyInv, CallInv
<1>2. ASSUME CallReturned("stop")
      PROVE  rx = <<>> /\ tx = <<>> /\ ~Streaming /\ ~dev.laser
  <2>1. CallInv /\ PhaseInv /\ pc = "idle" /\ op = "stop" /\ ret = "OK"
    BY <1>2 DEF CallReturned, TimelyInv
  <2>2. urg.is_active /\ ~urg.is_laser_on /\ ~urg.is_sending
    BY <2>1 DEF CallInv
  <2>3. rx = <<>> /\ tx = <<>> /\ dev.stream = 0 /\ dev.laser = urg.is_laser_on
    BY <2>1, <2>2, Settled
  <2> QED BY <2>2, <2>3 DEF Streaming
<1> QED BY <1>1, <1>2 DEF StopLeavesNothing

\* When urg_close has returned the connection is not active.
LEMMA CloseFollows ==
  ASSUME TimelyInv
  PROVE  DarkAfterClose
<1> SUFFICES ASSUME CallReturned("close"), tx = <<>>
             PROVE  ~Streaming /\ ~dev.laser
  BY DEF DarkAfterClose
<1>1. CallInv /\ PhaseInv /\ pc = "idle" /\ op = "close"
  BY DEF CallReturned, TimelyInv
<1>2. LeavingInv
  BY <1>1 DEF CallInv, PhaseInv, Leaving
<1>3. dev.stream = 0 /\ ~dev.laser
  BY <1>2 DEF LeavingInv, Dark
<1> QED BY <1>3 DEF Streaming

\* What was accepted is kept track of in CallInv.
LEMMA AnswerFollows ==
  ASSUME TimelyInv
  PROVE  FreshAnswer
BY DEF FreshAnswer, CallReturned, TimelyInv, CallInv

\* The scans handed out and those that remain are no more than were asked for.
LEMMA ScansFollow ==
  ASSUME TypeInv, TimelyInv
  PROVE  FiniteScans
<1> SUFFICES ASSUME Undisturbed, Scanned > 1
             PROVE  /\ scans <= Scanned
                    /\ urg.is_active /\ pc = "idle" /\ op = "get" /\ scans = Scanned
                       => ~urg.is_sending /\ rx = <<>> /\ tx = <<>>
  BY DEF FiniteScans, Scanned
<1>1. CallInv /\ PhaseInv /\ scans + Remain <= Scanned
  BY DEF TimelyInv, CallInv
<1>2. scans \in Nat /\ Remain \in Nat /\ Scanned \in Nat
  BY ReachedIs DEF Reached
<1>3. scans <= Scanned
  BY <1>1, <1>2
<1>4. ASSUME urg.is_active, pc = "idle", scans = Scanned
      PROVE  ~urg.is_sending /\ rx = <<>> /\ tx = <<>>
  <2>1. PICK w \in Unit, n \in 0 .. ScanSize, k \in 0 .. 2, q \in 0 .. 2, x \in 0 .. 1, y \in 0 .. 2 :
          Content(w, n, k, q, x, y)
    BY <1>1, <1>4 DEF PhaseInv, MeasuringInv, Leaving, InScip
  <2>2. Depth = 0
    BY <1>4, ReachedIs, Before DEF Outside, Inside, InReceive, Reached
  <2>3. ~(Remain >= 1)
    BY <1>1, <1>2, <1>4
  <2>4. ~urg.is_sending
    BY <2>1, <2>2, <2>3 DEF Content, Tally, Counts
  <2>5. ~Once
    BY <1>2 DEF Once
  <2> QED BY <1>1, <1>4, <2>4, <2>5, Settled
<1> QED BY <1>3, <1>4

\* At the count of a scan Fresh speaks about all that was accepted.
LEMMA FreshFollows ==
  ASSUME TypeInv, TimelyInv
  PROVE  FreshScan
<1> SUFFICES ASSUME Undisturbed, ScanReturned
             PROVE  \A line \in seen : line.call > barrier
  BY DEF FreshScan
<1>1. PhaseInv /\ pc = "rd_count"
  BY DEF ScanReturned, TimelyInv
<1>2. urg.is_active
  BY <1>1, Before DEF Outside
<1>3. PICK w \in Unit, n \in 0 .. ScanSize, k \in 0 .. 2, q \in 0 .. 2, x \in 0 .. 1, y \in 0 .. 2 :
        Content(w, n, k, q, x, y)
  BY <1>1, <1>2 DEF PhaseInv, MeasuringInv, Leaving, InScip
<1>4. n = 0 /\ ~(n > 0)
  <2>1. n = 0
    BY <1>1, <1>3 DEF Content, Tally, Reading
  <2> QED BY <2>1
<1> QED BY <1>1, <1>3, <1>4 DEF Content, Fresh

\* All six properties of undisturbed lines, from the one invariant.
LEMMA TimelyAlways ==
  Timely => (Spec => [](StopWorks /\ StopLeavesNothing /\ DarkAfterClose /\ FreshAnswer
                        /\ FiniteScans /\ FreshScan))
<1> SUFFICES ASSUME Timely
             PROVE  Spec => [](StopWorks /\ StopLeavesNothing /\ DarkAfterClose /\ FreshAnswer
                               /\ FiniteScans /\ FreshScan)
  OBVIOUS
<1> DEFINE Inv == TypeInv /\ DrainReports /\ TimelyInv
<1>1. Init => Inv
  BY InitTypes, InitTimely
<1>2. Inv /\ [Next]_vars => Inv'
  <2> SUFFICES ASSUME Inv, [Next]_vars PROVE Inv'
    OBVIOUS
  <2>1. TypeInv' /\ DrainReports'
    BY NextTypes
  <2>2. TimelyInv'
    BY <2>1, NextTimely
  <2> QED BY <2>1, <2>2
<1>3. Inv => /\ StopWorks /\ StopLeavesNothing /\ DarkAfterClose /\ FreshAnswer
             /\ FiniteScans /\ FreshScan
  BY StopFollows, CloseFollows, AnswerFollows, ScansFollow, FreshFollows
<1> QED BY <1>1, <1>2, <1>3, PTL DEF Spec

\* On a line that loses nothing, with answers in time, urg_stop_measurement
\* succeeds whatever was going on: three calls of receive_data are enough to
\* get past the scans in front of the answer to QT.
THEOREM StopAlwaysWorks == Timely => (Spec => []StopWorks)
BY TimelyAlways, PTL

\* When urg_stop_measurement has returned 0 nothing is left on the line, in
\* either direction, and the sensor is quiet and dark.
THEOREM StopLeavesNothingBehind == Timely => (Spec => []StopLeavesNothing)
BY TimelyAlways, PTL

\* After urg_close the sensor goes dark as soon as it has read what was sent
\* to it: the QT of the drain, which goes out unless no stream and no laser
\* is believed to be on, is the last command it gets.
THEOREM AlwaysDarkAfterClose == Timely => (Spec => []DarkAfterClose)
BY TimelyAlways, PTL

\* The time stamps and the information texts that a successful call hands out
\* are from the answer to that call's own command.
THEOREM AnswersAreFresh == Timely => (Spec => []FreshAnswer)
BY TimelyAlways, PTL

\* A measurement of n scans hands out n at most; after the n-th the stop that
\* receive_data makes by itself has emptied the line.
THEOREM ScansAreFinite == Timely => (Spec => []FiniteScans)
BY TimelyAlways, PTL

\* No scan that is handed out was measured before the last stop.
THEOREM ScansAreFresh == Timely => (Spec => []FreshScan)
BY TimelyAlways, PTL

=============================================================================
