-------------------------- MODULE UrgSensorProofs --------------------------
(***************************************************************************)
(* Proofs about UrgSensor, for any number of calls, scans, lines and       *)
(* disturbances: type correctness together with the control invariant,     *)
(* QuietWhenNotSending by way of Guarded, and NoMixedScan by way of MixInv.*)
(***************************************************************************)
EXTENDS UrgSensor, SequenceTheorems, TLAPS

TypeInv == TypeOK /\ Control

-----------------------------------------------------------------------------
(***************************************************************************)
(* What the building blocks of the actions do to the types.                *)
(***************************************************************************)

\* A line that is read has the type of a line, and so do those left behind.
LEMMA ReadTypes ==
  ASSUME rx \in Seq(Line), NEW line \in Arrivals, Consume(line)
  PROVE  /\ rx' \in Seq(Line)
         /\ Length(line) >= 0 => line \in Line
<1>1. CASE line = NoLine
  BY <1>1 DEF Consume, NoLine, Length
<1>2. CASE line # NoLine
  <2>1. rx # <<>> /\ line = Head(rx)
    BY <1>2 DEF Arrivals
  <2>2. Head(rx) \in Line /\ Tail(rx) \in Seq(Line)
    BY <2>1, HeadTailProperties
  <2> QED BY <1>2, <2>1, <2>2 DEF Consume
<1> QED BY <1>1, <1>2

\* Writing a command.
LEMMA WriteTypes ==
  ASSUME tx \in Seq(Command), calls \in Nat,
         NEW c \in CommandName, NEW n \in 0 .. Endless, Write(c, n)
  PROVE  tx' \in Seq(Command)
<1>1. [c |-> c, n |-> n, call |-> calls] \in Command
  BY DEF Command
<1> QED BY <1>1, AppendProperties DEF Write

\* A drain: where the thread goes and what becomes of urg.
LEMMA DrainTypes ==
  ASSUME tx \in Seq(Command), calls \in Nat, urg \in UrgFields,
         NEW e \in ErrorNumber, NEW where, DrainWithQT(e, where)
  PROVE  /\ tx' \in Seq(Command)
         /\ urg' \in UrgFields
         /\ urg'.is_active = urg.is_active
         /\ urg'.scanning_remain_times = urg.scanning_remain_times
         /\ ret' = e
         /\ \/ pc' = "drain" /\ resume' = where
            \/ pc' = where /\ resume' = resume
<1>1. tx' \in Seq(Command)
  <2>1. CASE Write("QT", 0)
    BY <2>1, WriteTypes DEF CommandName, Endless
  <2>2. CASE UNCHANGED tx
    BY <2>2
  <2> QED BY <2>1, <2>2 DEF DrainWithQT, WriteIfOpen
<1>2. /\ urg' \in UrgFields
      /\ urg'.is_active = urg.is_active
      /\ urg'.scanning_remain_times = urg.scanning_remain_times
  <2>1. CASE urg' = [urg EXCEPT !.is_laser_on = FALSE]
    BY <2>1 DEF UrgFields
  <2>2. CASE urg' = [urg EXCEPT !.is_laser_on = FALSE, !.last_errno = e]
    BY <2>2 DEF UrgFields
  <2> QED BY <2>1, <2>2 DEF DrainWithQT
<1>3. /\ ret' = e
      /\ \/ pc' = "drain" /\ resume' = where
         \/ pc' = where /\ resume' = resume
  BY DEF DrainWithQT
<1> QED BY <1>1, <1>2, <1>3

\* The start of scip_response.
LEMMA ScipBeginsTypes ==
  ASSUME tx \in Seq(Command), calls \in Nat, NEW u \in UrgFields, NEW o,
         ScipBegins(o, u)
  PROVE  /\ tx' \in Seq(Command)
         /\ urg' \in UrgFields
         /\ urg'.is_active = u.is_active
         /\ ret' \in Result
         /\ good' \in BOOLEAN
         /\ seen' = {}
         /\ pc' \in InScip
<1>1. CommandOf(o) \in CommandName
  BY DEF CommandOf, CommandName
<1>2. tx' \in Seq(Command)
  <2>1. CASE Write(CommandOf(o), 0)
    BY <2>1, <1>1, WriteTypes DEF Endless
  <2>2. CASE UNCHANGED tx
    BY <2>2
  <2> QED BY <2>1, <2>2 DEF ScipBegins
<1>3. urg' \in UrgFields /\ urg'.is_active = u.is_active
  <2>1. CASE urg' = u
    BY <2>1
  <2>2. CASE urg' = [u EXCEPT !.last_errno = "SEND_ERROR"]
    <3>1. "SEND_ERROR" \in ErrorNumber
      BY DEF ErrorNumber, Error
    <3> QED BY <2>2, <3>1 DEF UrgFields
  <2> QED BY <2>1, <2>2 DEF ScipBegins
<1>4. /\ ret' \in Result /\ good' \in BOOLEAN /\ seen' = {} /\ pc' \in InScip
  BY DEF ScipBegins, Result, Error, InScip
<1> QED BY <1>2, <1>3, <1>4

-----------------------------------------------------------------------------
(***************************************************************************)
(* The sensor and the line.                                                *)
(***************************************************************************)

\* An answer is a sequence of lines.
LEMMA AnswerTypes ==
  ASSUME unit \in Nat, NEW cmd \in Command, NEW status \in Status,
         NEW body \in Seq(Kind)
  PROVE  Answer(cmd, status, body) \in Seq(Line)
<1> DEFINE kinds == <<"echo", "stat">> \o body \o <<"lf">>
           line(i) == [k |-> kinds[i], c |-> cmd.c,
                       s |-> IF kinds[i] = "stat" THEN status ELSE "-",
                       call |-> cmd.call, u |-> unit, ok |-> TRUE]
<1>1. kinds \in Seq(Kind)
  <2>1. <<"echo", "stat">> \in Seq(Kind) /\ <<"lf">> \in Seq(Kind)
    BY DEF Kind
  <2> QED BY <2>1, ConcatProperties
<1>2. Len(kinds) \in Nat /\ \A i \in 1 .. Len(kinds) : kinds[i] \in Kind
  BY <1>1, ElementOfSeq, LenProperties
<1> HIDE DEF kinds
<1>3. \A i \in 1 .. Len(kinds) : line(i) \in Line
  BY <1>2 DEF Line, Command, Status
<1> HIDE DEF line
<1>4. [i \in 1 .. Len(kinds) |-> line(i)] \in Seq(Line)
  BY <1>2, <1>3
<1> QED BY <1>4 DEF Answer, kinds, line

\* The body of a scan.
LEMMA ScanBodyTypes == ScanBody \in Seq(Kind)
<1>1. [i \in 1 .. DataLines |-> "data"] \in Seq(Kind)
  BY SensorAssumption DEF Kind
<1>2. <<"ts">> \in Seq(Kind)
  BY DEF Kind
<1> QED BY <1>1, <1>2, ConcatProperties DEF ScanBody

\* Whatever the sensor says is appended.
LEMMA SaysTypes ==
  ASSUME rx \in Seq(Line), unit \in Nat, noise \in Nat,
         NEW lines \in Seq(Line), Says(lines)
  PROVE  rx' \in Seq(Line) /\ unit' \in Nat /\ noise' \in Nat
<1>1. rx' \in Seq(Line)
  BY ConcatProperties DEF Says
<1>2. unit' \in Nat
  BY SensorAssumption DEF Says
<1> QED BY <1>1, <1>2 DEF Says

Dev == [stream : 0 .. Endless, job : Command, laser : BOOLEAN,
        tm : BOOLEAN, rb : BOOLEAN]

\* The states a sensor goes to.
LEMMA DevTypes ==
  ASSUME NEW d \in Dev, NEW s \in 0 .. Endless, NEW job \in Command,
         NEW laser \in BOOLEAN, NEW tm \in BOOLEAN, NEW rb \in BOOLEAN
  PROVE  /\ [d EXCEPT !.laser = laser] \in Dev
         /\ [d EXCEPT !.tm = tm] \in Dev
         /\ [d EXCEPT !.rb = rb] \in Dev
         /\ [d EXCEPT !.stream = s, !.laser = laser] \in Dev
         /\ [d EXCEPT !.tm = tm, !.stream = s] \in Dev
         /\ [d EXCEPT !.stream = s, !.job = job, !.laser = laser] \in Dev
<1>1. /\ [d EXCEPT !.laser = laser] \in Dev
      /\ [d EXCEPT !.tm = tm] \in Dev
      /\ [d EXCEPT !.rb = rb] \in Dev
  BY DEF Dev
<1>2. [d EXCEPT !.stream = s, !.laser = laser] \in Dev
  BY DEF Dev
<1>3. [d EXCEPT !.tm = tm, !.stream = s] \in Dev
  BY DEF Dev
<1>4. [d EXCEPT !.stream = s, !.job = job, !.laser = laser] \in Dev
  BY DEF Dev
<1> QED BY <1>1, <1>2, <1>3, <1>4

\* The sensor answers a command and takes a new state.
LEMMA ReactsTypes ==
  ASSUME SensorTypeOK, NEW names, NEW status \in Status, NEW body \in Seq(Kind),
         NEW d \in Dev, Reacts(names, status, body, d)
  PROVE  SensorTypeOK'
<1>1. Head(tx) \in Command /\ tx' \in Seq(Command)
  BY HeadTailProperties DEF Reacts, SensorTypeOK
<1>2. rx' \in Seq(Line) /\ unit' \in Nat /\ noise' \in Nat
  BY <1>1, AnswerTypes, SaysTypes DEF Reacts, SensorTypeOK
<1>3. dev' \in Dev
  BY DEF Reacts, SensorTypeOK, Dev
<1> QED BY <1>1, <1>2, <1>3 DEF SensorTypeOK, Dev

\* Every step of the sensor and of the line keeps their types.
LEMMA SensorTypes ==
  ASSUME SensorTypeOK, SensorNext
  PROVE  SensorTypeOK'
<1> DEFINE none == <<>>
<1>1. dev \in Dev
  BY DEF SensorTypeOK, Dev
<1>2. /\ none \in Seq(Kind) /\ <<"ts">> \in Seq(Kind) /\ <<"info">> \in Seq(Kind)
      /\ ScanBody \in Seq(Kind)
  BY ScanBodyTypes DEF Kind
<1>0. /\ 0 \in 0 .. Endless /\ TRUE \in BOOLEAN /\ FALSE \in BOOLEAN
      /\ dev.job \in Command
  BY <1>1 DEF Endless, Dev
<1> USE DEF Status
<1>3. CASE SensorQT
  <2>1. [dev EXCEPT !.stream = 0, !.laser = FALSE] \in Dev
    BY <1>0, <1>1, DevTypes
  <2> QED BY <1>2, <1>3, <2>1, ReactsTypes DEF SensorQT
<1>4. CASE SensorBM
  <2>1. [dev EXCEPT !.laser = TRUE] \in Dev
    BY <1>1 DEF Dev
  <2> QED BY <1>1, <1>2, <1>4, <2>1, ReactsTypes DEF SensorBM
<1>5. CASE SensorGD
  BY <1>1, <1>2, <1>5, ReactsTypes DEF SensorGD
<1>6. CASE SensorMD
  <2>1. Head(tx) \in Command
    BY <1>6, HeadTailProperties DEF SensorMD, SensorTypeOK
  <2> DEFINE s == IF Head(tx).n = 0 THEN Endless ELSE Head(tx).n
             d == [dev EXCEPT !.stream = s, !.job = Head(tx), !.laser = TRUE]
  <2>4. s \in 0 .. Endless
    BY <2>1 DEF Endless, Command
  <2>2. d \in Dev
    <3> HIDE DEF s
    <3> QED BY <1>0, <1>1, <2>1, <2>4, DevTypes
  <2>3. Reacts({"MD"}, "00", none, d)
    BY <1>6 DEF SensorMD
  <2> HIDE DEF d
  <2> QED BY <1>2, <2>2, <2>3, ReactsTypes
<1>7. CASE SensorTurnsDown
  BY <1>1, <1>2, <1>7, ReactsTypes DEF SensorTurnsDown
<1>8. CASE SensorTM
  <2>1. /\ [dev EXCEPT !.tm = TRUE, !.stream = 0] \in Dev
        /\ [dev EXCEPT !.tm = FALSE] \in Dev
    BY <1>0, <1>1, DevTypes
  <2> QED BY <1>1, <1>2, <1>8, <2>1, ReactsTypes DEF SensorTM
<1>9. CASE SensorVV
  BY <1>1, <1>2, <1>9, ReactsTypes DEF SensorVV
<1>10. CASE SensorSL
  BY <1>1, <1>2, <1>10, ReactsTypes DEF SensorSL
<1>11. CASE SensorRB
  <2>1. Idle \in Dev
    BY DEF Idle, Dev, Endless, Command, CommandName
  <2> QED BY <1>1, <1>2, <1>11, <2>1, ReactsTypes DEF SensorRB
<1>12. CASE SensorScan
  <2>1. Answer(dev.job, "99", ScanBody) \in Seq(Line)
    BY <1>1, <1>2, AnswerTypes DEF SensorTypeOK, Dev
  <2>2. rx' \in Seq(Line) /\ unit' \in Nat /\ noise' \in Nat
    BY <1>12, <2>1, SaysTypes DEF SensorScan, SensorTypeOK
  <2> DEFINE left == IF dev.stream = Endless THEN Endless ELSE dev.stream - 1
  <2>4. left \in 0 .. Endless /\ (left > 0) \in BOOLEAN
    BY <1>1, <1>12 DEF SensorScan, Dev, Endless
  <2>5. dev' = [dev EXCEPT !.stream = left, !.laser = (left > 0)]
    BY <1>12 DEF SensorScan
  <2>3. dev' \in Dev
    <3> HIDE DEF left
    <3> QED BY <1>0, <1>1, <2>4, <2>5, DevTypes
  <2> QED BY <1>12, <2>2, <2>3 DEF SensorScan, SensorTypeOK, Dev
<1>13. CASE LoseLine
  BY <1>13, HeadTailProperties DEF LoseLine, SensorTypeOK
<1>14. CASE DamageLine
  <2>1. Head(rx) \in Line /\ Tail(rx) \in Seq(Line)
    BY <1>14, HeadTailProperties DEF DamageLine, SensorTypeOK
  <2> DEFINE damaged == [Head(rx) EXCEPT !.ok = FALSE]
  <2>2. damaged \in Line
    BY <2>1 DEF Line
  <2>3. /\ rx' = <<damaged>> \o Tail(rx)
        /\ noise' = noise + 1 /\ UNCHANGED <<tx, dev, unit>>
    BY <1>14 DEF DamageLine
  <2> HIDE DEF damaged
  <2>4. <<damaged>> \in Seq(Line)
    BY <2>2
  <2>5. rx' \in Seq(Line)
    BY <2>1, <2>3, <2>4, ConcatProperties
  <2> QED BY <2>3, <2>5 DEF SensorTypeOK
<1>15. CASE StallLine
  <2>1. Head(rx) \in Line /\ Tail(rx) \in Seq(Line)
    BY <1>15, HeadTailProperties DEF StallLine, SensorTypeOK
  <2> DEFINE damaged == [Head(rx) EXCEPT !.ok = FALSE]
             empty == [Head(rx) EXCEPT !.k = "lf", !.s = "-"]
  <2>2. damaged \in Line /\ empty \in Line
    BY <2>1 DEF Line, Kind
  <2>3. /\ noise' = noise + 1 /\ UNCHANGED <<tx, dev, unit>>
        /\ \/ rx' = <<damaged, damaged>> \o Tail(rx)
           \/ rx' = <<Head(rx), empty>> \o Tail(rx)
    BY <1>15 DEF StallLine
  <2> HIDE DEF damaged, empty
  <2>4. <<damaged, damaged>> \in Seq(Line) /\ <<Head(rx), empty>> \in Seq(Line)
    BY <2>1, <2>2
  <2>5. rx' \in Seq(Line)
    BY <2>1, <2>3, <2>4, ConcatProperties
  <2> QED BY <2>3, <2>5 DEF SensorTypeOK
<1> QED BY <1>3, <1>4, <1>5, <1>6, <1>7, <1>8, <1>9, <1>10, <1>11, <1>12, <1>13,
           <1>14, <1>15 DEF SensorNext, SensorCommand

-----------------------------------------------------------------------------
(***************************************************************************)
(* The stack of callers.                                                   *)
(***************************************************************************)

Layered(s) == \A i \in DOMAIN s : s[i].by = "auto" <=> i < Len(s)

\* A call: the application calls on an empty stack, a measurement that stops
\* itself on another one.
LEMMA PushTypes ==
  ASSUME stack \in Seq(Frames), Layered(stack), NEW f \in Frames,
         f.by = "auto" <=> stack # <<>>
  PROVE  /\ <<f>> \o stack \in Seq(Frames)
         /\ Layered(<<f>> \o stack)
         /\ <<f>> \o stack # <<>>
         /\ Head(<<f>> \o stack) = f
<1> DEFINE s == <<f>> \o stack
<1>1. /\ s \in Seq(Frames)
      /\ Len(s) = 1 + Len(stack)
      /\ s[1] = f
      /\ \A i \in 2 .. Len(s) : s[i] = stack[i - 1]
  <2>1. <<f>> \in Seq(Frames) /\ Len(<<f>>) = 1 /\ <<f>>[1] = f
    OBVIOUS
  <2> QED BY <2>1, ConcatProperties
<1>2. Len(stack) \in Nat /\ DOMAIN stack = 1 .. Len(stack)
      /\ (stack # <<>> <=> Len(stack) > 0)
  BY LenProperties, EmptySeq
<1>3. DOMAIN s = 1 .. Len(s)
  BY <1>1, LenProperties
<1> HIDE DEF s
<1>4. ASSUME NEW i \in DOMAIN s PROVE s[i].by = "auto" <=> i < Len(s)
  <2>1. CASE i = 1
    BY <1>1, <1>2, <2>1
  <2>2. CASE i # 1
    <3>1. i \in 2 .. Len(s) /\ i - 1 \in DOMAIN stack
      BY <1>1, <1>2, <1>3, <2>2
    <3>2. stack[i - 1].by = "auto" <=> i - 1 < Len(stack)
      BY <3>1 DEF Layered
    <3> QED BY <1>1, <1>2, <3>1, <3>2
  <2> QED BY <2>1, <2>2
<1>5. s # <<>> /\ Head(s) = f
  BY <1>1, <1>2, HeadTailProperties
<1> QED BY <1>1, <1>4, <1>5 DEF Layered, s

\* A return.
LEMMA PopTypes ==
  ASSUME stack \in Seq(Frames), Layered(stack), stack # <<>>
  PROVE  /\ Head(stack) \in Frames
         /\ Tail(stack) \in Seq(Frames)
         /\ Layered(Tail(stack))
         /\ Head(stack).by = "auto" <=> Tail(stack) # <<>>
<1>1. /\ Head(stack) \in Frames /\ Head(stack) = stack[1]
      /\ Tail(stack) \in Seq(Frames)
      /\ Len(Tail(stack)) = Len(stack) - 1
      /\ \A i \in 1 .. Len(Tail(stack)) : Tail(stack)[i] = stack[i + 1]
  BY HeadTailProperties
<1>2. /\ Len(stack) \in Nat /\ DOMAIN stack = 1 .. Len(stack)
      /\ Len(Tail(stack)) \in Nat /\ DOMAIN Tail(stack) = 1 .. Len(Tail(stack))
      /\ (stack # <<>> <=> Len(stack) > 0)
      /\ (Tail(stack) # <<>> <=> Len(Tail(stack)) > 0)
  <2> DEFINE rest == Tail(stack)
  <2>1. \A s \in Seq(Frames) : /\ Len(s) \in Nat /\ DOMAIN s = 1 .. Len(s)
                              /\ s # <<>> <=> Len(s) > 0
    BY LenProperties, EmptySeq
  <2>2. rest \in Seq(Frames)
    BY <1>1
  <2> HIDE DEF rest
  <2>3. /\ Len(rest) \in Nat /\ DOMAIN rest = 1 .. Len(rest)
        /\ rest # <<>> <=> Len(rest) > 0
    BY <2>1, <2>2
  <2> QED BY <2>1, <2>3 DEF rest
<1>3. ASSUME NEW i \in DOMAIN Tail(stack)
      PROVE  Tail(stack)[i].by = "auto" <=> i < Len(Tail(stack))
  <2>1. i + 1 \in DOMAIN stack /\ Tail(stack)[i] = stack[i + 1]
    BY <1>1, <1>2
  <2>2. stack[i + 1].by = "auto" <=> i + 1 < Len(stack)
    BY <2>1 DEF Layered
  <2> QED BY <1>1, <1>2, <2>1, <2>2
<1>4. Head(stack).by = "auto" <=> Tail(stack) # <<>>
  <2>1. 1 \in DOMAIN stack
    BY <1>2
  <2>2. stack[1].by = "auto" <=> 1 < Len(stack)
    BY <2>1 DEF Layered
  <2> QED BY <1>1, <1>2, <2>2
<1> QED BY <1>1, <1>3, <1>4 DEF Layered

\* The frame on top changes and keeps its caller.
LEMMA TopTypes ==
  ASSUME stack \in Seq(Frames), Layered(stack), stack # <<>>,
         NEW f \in Frames, f.by = Head(stack).by
  PROVE  /\ <<f>> \o Tail(stack) \in Seq(Frames)
         /\ Layered(<<f>> \o Tail(stack))
         /\ <<f>> \o Tail(stack) # <<>>
<1> DEFINE s == <<f>> \o Tail(stack)
<1>1. /\ Tail(stack) \in Seq(Frames) /\ Head(stack) = stack[1]
      /\ Len(Tail(stack)) = Len(stack) - 1
      /\ \A i \in 1 .. Len(Tail(stack)) : Tail(stack)[i] = stack[i + 1]
  BY HeadTailProperties
<1>2. /\ s \in Seq(Frames)
      /\ Len(s) = 1 + Len(Tail(stack))
      /\ s[1] = f
      /\ \A i \in 2 .. Len(s) : s[i] = Tail(stack)[i - 1]
  <2>1. <<f>> \in Seq(Frames) /\ Len(<<f>>) = 1 /\ <<f>>[1] = f
    OBVIOUS
  <2> QED BY <1>1, <2>1, ConcatProperties
<1>3. Len(stack) \in Nat /\ Len(stack) > 0 /\ DOMAIN stack = 1 .. Len(stack)
  BY LenProperties, EmptySeq
<1>4. DOMAIN s = 1 .. Len(s)
  BY <1>2, LenProperties
<1> HIDE DEF s
<1>5. ASSUME NEW i \in DOMAIN s PROVE s[i].by = "auto" <=> i < Len(s)
  <2>1. stack[i].by = "auto" <=> i < Len(stack)
    BY <1>1, <1>2, <1>3, <1>4 DEF Layered
  <2>2. s[i].by = stack[i].by
    BY <1>1, <1>2, <1>3, <1>4
  <2> QED BY <1>1, <1>2, <1>3, <2>1, <2>2
<1>6. s # <<>>
  BY <1>1, <1>2, <1>3
<1> QED BY <1>2, <1>5, <1>6 DEF Layered, s

-----------------------------------------------------------------------------
(***************************************************************************)
(* The API functions.                                                      *)
(***************************************************************************)

\* The members of the sets of results and errors that the actions name.
LEMMA Names ==
  /\ Error \subseteq ErrorNumber /\ ErrorNumber \subseteq Result
  /\ {"OK", "DATA"} \subseteq Result /\ "NO_ERROR" \in ErrorNumber
  /\ {"NO_RESPONSE", "INVALID_RESPONSE", "CHECKSUM_ERROR", "SEND_ERROR",
      "RECEIVE_ERROR", "NOT_CONNECTED", "INVALID_PARAMETER",
      "UNKNOWN_ERROR"} \subseteq Error
  BY DEF Error, ErrorNumber, Result

\* Updates of the fields of urg_t.
LEMMA UrgTypes ==
  ASSUME NEW u \in UrgFields, NEW e \in ErrorNumber, NEW b \in BOOLEAN
  PROVE  /\ [u EXCEPT !.last_errno = e] \in UrgFields
         /\ [u EXCEPT !.is_laser_on = b] \in UrgFields
         /\ [u EXCEPT !.is_sending = b] \in UrgFields
         /\ [u EXCEPT !.is_active = b] \in UrgFields
         /\ [u EXCEPT !.last_errno = e].is_active = u.is_active
         /\ [u EXCEPT !.is_laser_on = b].is_active = u.is_active
         /\ [u EXCEPT !.is_sending = b].is_active = u.is_active
<1>1. /\ [u EXCEPT !.last_errno = e] \in UrgFields
      /\ [u EXCEPT !.is_laser_on = b] \in UrgFields
  BY DEF UrgFields
<1>2. /\ [u EXCEPT !.is_sending = b] \in UrgFields
      /\ [u EXCEPT !.is_active = b] \in UrgFields
  BY DEF UrgFields
<1>3. /\ [u EXCEPT !.last_errno = e].is_active = u.is_active
      /\ [u EXCEPT !.is_laser_on = b].is_active = u.is_active
      /\ [u EXCEPT !.is_sending = b].is_active = u.is_active
  BY DEF UrgFields
<1> QED BY <1>1, <1>2, <1>3

LEMMA CallTypes ==
  ASSUME TypeInv, NEW o \in Ops, Call(o)
  PROVE  TypeInv'
<1>1. TypeOK'
  BY UrgAssumption
     DEF TypeInv, TypeOK, SensorTypeOK, Call, Point, Outside, Result,
         sensorVars, localVars, historyVars
<1>2. Control'
  BY DEF TypeInv, Control, Call, Outside, InReceive, localVars
<1> QED BY <1>1, <1>2 DEF TypeInv

LEMMA NotConnectedTypes ==
  ASSUME TypeInv, NotConnected
  PROVE  TypeInv'
<1>1. urg \in UrgFields /\ "NOT_CONNECTED" \in ErrorNumber
  BY Names DEF TypeInv, TypeOK
<1>2. urg' \in UrgFields /\ urg'.is_active = urg.is_active
  BY <1>1, UrgTypes DEF NotConnected
<1>3. TypeOK'
  BY <1>2, Names
     DEF TypeInv, TypeOK, SensorTypeOK, NotConnected, Returns, Point, Outside,
         sensorVars, localVars, historyVars
<1>4. Control'
  BY <1>2
     DEF TypeInv, Control, NotConnected, Returns, Outside, InReceive, localVars
<1> QED BY <1>3, <1>4 DEF TypeInv

\* The measuring command.
LEMMA SendTypes ==
  ASSUME tx \in Seq(Command), calls \in Nat, NEW u \in UrgFields,
         NEW c \in CommandName, NEW n \in 0 .. Endless,
         SendDistanceCommand(c, n, u)
  PROVE  /\ tx' \in Seq(Command)
         /\ urg' \in UrgFields
         /\ urg'.is_active = u.is_active
         /\ ret' \in Result
         /\ pc' = "idle"
         /\ scans' = 0
<1>1. CASE CanWrite
  <2>1. Write(c, n) /\ pc' = "idle" /\ ret' = "OK" /\ urg' = u /\ scans' = 0
    BY <1>1 DEF SendDistanceCommand, Returns
  <2>2. tx' \in Seq(Command)
    BY <2>1, WriteTypes
  <2> QED BY <2>1, <2>2, Names
<1>2. CASE ~CanWrite
  <2>1. urg' \in UrgFields /\ urg'.is_active = u.is_active
    <3>1. "SEND_ERROR" \in ErrorNumber
      BY Names
    <3>2. urg' = [u EXCEPT !.last_errno = "SEND_ERROR"]
      BY <1>2 DEF SendDistanceCommand
    <3> QED BY <3>1, <3>2, UrgTypes
  <2> QED BY <1>2, <2>1, Names DEF SendDistanceCommand, Returns
<1> QED BY <1>1, <1>2

\* 100 scans become 00, the request for an endless measurement.
LEMMA RequestedTypes ==
  ASSUME urg \in UrgFields, NEW times \in ScanTimes
  PROVE  /\ Requested(times) \in UrgFields
         /\ Requested(times).specified_scan_times \in 0 .. Endless
         /\ Requested(times).is_active = urg.is_active
<1>1. times \in 0 .. 100
  BY UrgAssumption
<1> DEFINE asked == IF times >= 100 THEN 0 ELSE times
<1>2. asked \in 0 .. 99 /\ asked \in 0 .. Endless
  BY <1>1 DEF Endless
<1>3. Requested(times) = [urg EXCEPT !.specified_scan_times = asked,
                                    !.scanning_remain_times = times]
  BY DEF Requested
<1> HIDE DEF asked
<1> QED BY <1>1, <1>2, <1>3 DEF UrgFields

Resumes == {"idle", "closing", "rd_done", "rd_count"}
EchoTypes == {"stop", "distance", "unknown"}
Inside(p, r) == p \in InReceive \/ (p = "drain" /\ r \in InReceive)

\* What a step of an API function has to show: most leave the connection, the
\* function and the sensor's state alone.
LEMMA StepTypes ==
  ASSUME TypeInv,
         UNCHANGED <<dev, unit, noise, link, op, calls>>,
         tx' \in Seq(Command), rx' \in Seq(Line),
         urg' \in UrgFields, urg'.is_active = urg.is_active,
         pc' \in Point, ret' \in Result, good' \in BOOLEAN,
         resume' \in Resumes, seen' \in SUBSET Line,
         stack' \in Seq(Frames), Layered(stack'),
         type' \in EchoTypes, steps' \in Nat, barrier' \in Nat, scans' \in Nat,
         Inside(pc', resume') <=> stack' # <<>>,
         pc' \notin Outside => urg.is_active
  PROVE  TypeInv'
<1>1. TypeOK'
  BY DEF TypeInv, TypeOK, SensorTypeOK, Resumes, EchoTypes
<1>2. Control'
  BY DEF TypeInv, Control, Inside, Layered
<1> QED BY <1>1, <1>2 DEF TypeInv

\* What TypeInv says, in the words of StepTypes.
LEMMA Before ==
  ASSUME TypeInv
  PROVE  /\ tx \in Seq(Command) /\ rx \in Seq(Line)
         /\ urg \in UrgFields /\ pc \in Point
         /\ ret \in Result /\ good \in BOOLEAN /\ resume \in Resumes
         /\ seen \in SUBSET Line /\ calls \in Nat
         /\ stack \in Seq(Frames) /\ Layered(stack)
         /\ type \in EchoTypes /\ steps \in Nat /\ barrier \in Nat /\ scans \in Nat
         /\ Inside(pc, resume) <=> stack # <<>>
         /\ pc \notin Outside => urg.is_active
<1>1. /\ tx \in Seq(Command) /\ rx \in Seq(Line)
      /\ urg \in UrgFields /\ pc \in Point
      /\ ret \in Result /\ good \in BOOLEAN /\ resume \in Resumes
      /\ seen \in SUBSET Line /\ calls \in Nat
      /\ stack \in Seq(Frames)
      /\ type \in EchoTypes /\ steps \in Nat /\ barrier \in Nat /\ scans \in Nat
  BY DEF TypeInv, TypeOK, SensorTypeOK, Resumes, EchoTypes
<1>2. /\ Layered(stack)
      /\ Inside(pc, resume) <=> stack # <<>>
      /\ pc \notin Outside => urg.is_active
  BY DEF TypeInv, Control, Layered, Inside
<1> QED BY <1>1, <1>2

\* The sets of points the thread can be at, as StepTypes wants them.
LEMMA Points ==
  /\ Outside \subseteq Point /\ InScip \subseteq Point /\ InReceive \subseteq Point
  /\ "drain" \in Point /\ "drain" \notin Outside
  /\ Resumes \subseteq Point
  /\ \A p \in Outside : \A r : ~Inside(p, r)
  /\ \A p \in InScip : \A r : ~Inside(p, r)
  /\ \A p \in InReceive : \A r : Inside(p, r) /\ p \notin Outside
  /\ \A p : ~Inside(p, "idle") \/ p \in InReceive
  /\ \A p : ~Inside(p, "closing") \/ p \in InReceive
  /\ Inside("drain", "rd_done") /\ Inside("drain", "rd_count")
  /\ ~Inside("drain", "idle") /\ ~Inside("drain", "closing")
  BY DEF Outside, InScip, InReceive, Point, Resumes, Inside

\* Starting a measurement.
LEMMA StartTypes ==
  ASSUME TypeInv, Start
  PROVE  TypeInv'
<1> USE Before
<1>1. CASE StartContinuous
  <2>1. PICK times \in ScanTimes \ {1} :
          SendDistanceCommand("MD", Requested(times).specified_scan_times,
                              [Requested(times) EXCEPT !.is_sending = TRUE])
    BY <1>1 DEF StartContinuous
  <2> DEFINE u == [Requested(times) EXCEPT !.is_sending = TRUE]
             n == Requested(times).specified_scan_times
  <2>2. u \in UrgFields /\ u.is_active = urg.is_active /\ n \in 0 .. Endless
    <3>1. /\ Requested(times) \in UrgFields /\ n \in 0 .. Endless
          /\ Requested(times).is_active = urg.is_active /\ TRUE \in BOOLEAN
      BY RequestedTypes
    <3> QED BY <3>1, Names, UrgTypes
  <2>3. SendDistanceCommand("MD", n, u)
    BY <2>1
  <2> HIDE DEF u, n
  <2>4. /\ tx' \in Seq(Command) /\ urg' \in UrgFields
        /\ urg'.is_active = urg.is_active /\ ret' \in Result
        /\ pc' = "idle" /\ scans' = 0
    BY <2>2, <2>3, SendTypes DEF CommandName
  <2>5. /\ UNCHANGED <<rx, dev, unit, noise, link, op, good, resume, seen, calls,
                       stack, type, steps, barrier>>
        /\ stack = <<>>
    BY <1>1, Points DEF StartContinuous, localVars, Entered, At, Outside
  <2> QED BY <2>4, <2>5, Points, StepTypes DEF Outside
<1>2. CASE StartSingle
  <2>1. /\ UNCHANGED <<rx, dev, unit, noise, link, op, resume, calls,
                       stack, type, steps, barrier>>
        /\ stack = <<>> /\ urg.is_active
    BY <1>2, Points DEF StartSingle, localVars, Entered, At, Outside
  <2>2. /\ Requested(1) \in UrgFields
        /\ Requested(1).is_active = urg.is_active
    BY <1>2, RequestedTypes DEF StartSingle
  <2>3. CASE urg.is_laser_on
    <3> DEFINE u == [Requested(1) EXCEPT !.last_errno = "NO_ERROR"]
    <3>1. u \in UrgFields /\ u.is_active = urg.is_active
      BY <2>2, Names, UrgTypes
    <3>2. SendDistanceCommand("GD", 0, u) /\ UNCHANGED <<good, seen>>
      BY <1>2, <2>3 DEF StartSingle
    <3> HIDE DEF u
    <3>3. /\ tx' \in Seq(Command) /\ urg' \in UrgFields
          /\ urg'.is_active = urg.is_active /\ ret' \in Result
          /\ pc' = "idle" /\ scans' = 0
      BY <3>1, <3>2, SendTypes DEF CommandName, Endless
    <3> QED BY <2>1, <3>2, <3>3, Points, StepTypes DEF Outside
  <2>4. CASE ~urg.is_laser_on
    <3>1. ScipBegins(op, Requested(1)) /\ UNCHANGED scans
      BY <1>2, <2>4 DEF StartSingle
    <3>2. /\ tx' \in Seq(Command) /\ urg' \in UrgFields
          /\ urg'.is_active = urg.is_active /\ ret' \in Result
          /\ good' \in BOOLEAN /\ seen' = {} /\ pc' \in InScip
      BY <2>2, <3>1, ScipBeginsTypes
    <3> QED BY <2>1, <3>1, <3>2, Points, StepTypes
  <2> QED BY <2>3, <2>4
<1>3. CASE StartSingleGoesOn
  <2> DEFINE b == (ret = "OK")
             u == [urg EXCEPT !.is_laser_on = b]
  <2>1. u \in UrgFields /\ u.is_active = urg.is_active
    <3>1. b \in BOOLEAN
      OBVIOUS
    <3> HIDE DEF b
    <3> QED BY <3>1, Names, UrgTypes
  <2>2. SendDistanceCommand("GD", 0, u)
    BY <1>3 DEF StartSingleGoesOn
  <2> HIDE DEF u
  <2>3. /\ tx' \in Seq(Command) /\ urg' \in UrgFields
        /\ urg'.is_active = urg.is_active /\ ret' \in Result
        /\ pc' = "idle" /\ scans' = 0
    BY <2>1, <2>2, SendTypes DEF CommandName, Endless
  <2>4. /\ UNCHANGED <<rx, dev, unit, noise, link, op, good, resume, seen, calls,
                       stack, type, steps, barrier>>
        /\ stack = <<>>
    BY <1>3, Points DEF StartSingleGoesOn, localVars, At, InScip
  <2> QED BY <2>3, <2>4, Points, StepTypes DEF Outside
<1>4. CASE StartRefused
  <2>1. /\ DrainWithQT("INVALID_PARAMETER", "idle")
        /\ UNCHANGED <<rx, dev, unit, noise, link, op, good, seen, calls,
                       stack, type, steps, barrier, scans>>
        /\ stack = <<>> /\ urg.is_active
    BY <1>4, Points
       DEF StartRefused, localVars, historyVars, Entered, At, Outside
  <2>2. /\ tx' \in Seq(Command) /\ urg' \in UrgFields
        /\ urg'.is_active = urg.is_active
        /\ ret' = "INVALID_PARAMETER"
        /\ \/ pc' = "drain" /\ resume' = "idle"
           \/ pc' = "idle" /\ resume' = resume
    BY <2>1, Names, DrainTypes
  <2> QED BY <2>1, <2>2, Names, Points, StepTypes DEF Outside, Resumes
<1> QED BY <1>1, <1>2, <1>3, <1>4 DEF Start

\* A new frame.
LEMMA FrameTypes ==
  ASSUME ret \in Result, seen \in SUBSET Line, NEW by \in {"get", "app", "auto"}
  PROVE  Frame(by) \in Frames /\ Frame(by).by = by
BY DEF Frame, Frames, MAX_READ_TIMES

\* urg_get_distance and its like enter receive_data.
LEMMA GetTypes ==
  ASSUME TypeInv, Get
  PROVE  TypeInv'
<1> USE Before
<1>1. /\ UNCHANGED <<tx, rx, dev, unit, noise, link, urg, op, ret, good, resume,
                     seen, calls, type, steps, barrier, scans>>
      /\ pc' = "rd_echo" /\ stack = <<>> /\ urg.is_active
      /\ stack' = <<Frame("get")>>
  BY Points DEF Get, Entered, At, Outside, sensorVars, historyVars
<1> DEFINE f == Frame("get")
<1>2. f \in Frames /\ f.by = "get"
  BY FrameTypes
<1> HIDE DEF f
<1>3. stack' = <<f>>
  BY <1>1 DEF f
<1>4. stack' \in Seq(Frames) /\ Layered(stack') /\ stack' # <<>>
  BY <1>2, <1>3 DEF Layered
<1>5. pc' \in InReceive
  BY <1>1 DEF InReceive
<1> QED BY <1>1, <1>4, <1>5, Points, StepTypes

\* The two ways receive_data fails.
LEMMA ReceiveFailsTypes ==
  ASSUME urg \in UrgFields, NEW e \in Error, ReceiveFails(e)
  PROVE  /\ urg' \in UrgFields /\ urg'.is_active = urg.is_active
         /\ ret' \in Result /\ pc' = "rd_done"
         /\ UNCHANGED <<tx, resume>>
<1>1. e \in ErrorNumber /\ e \in Result
  BY Names
<1>2. urg' = [urg EXCEPT !.last_errno = e]
  BY DEF ReceiveFails
<1>3. urg' \in UrgFields /\ urg'.is_active = urg.is_active
  BY <1>1, <1>2, UrgTypes
<1> QED BY <1>1, <1>3 DEF ReceiveFails

LEMMA ReceiveDrainTypes ==
  ASSUME tx \in Seq(Command), calls \in Nat, urg \in UrgFields, resume \in Resumes,
         NEW e \in Error, NEW where \in {"rd_done", "rd_count"},
         DrainWithQT(e, where)
  PROVE  /\ tx' \in Seq(Command)
         /\ urg' \in UrgFields /\ urg'.is_active = urg.is_active
         /\ ret' \in Result /\ pc' \in Point /\ pc' \notin Outside
         /\ resume' \in Resumes /\ Inside(pc', resume')
<1>1. e \in ErrorNumber /\ e \in Result
  BY Names
<1>2. /\ tx' \in Seq(Command)
      /\ urg' \in UrgFields /\ urg'.is_active = urg.is_active
      /\ ret' = e
      /\ \/ pc' = "drain" /\ resume' = where
         \/ pc' = where /\ resume' = resume
  BY <1>1, DrainTypes
<1>3. where \in InReceive /\ where \in Resumes
  BY DEF InReceive, Resumes
<1> QED BY <1>1, <1>2, <1>3, Points

\* The steps of receive_data, up to the end of the data.
LEMMA ReceiveTypes ==
  ASSUME TypeInv, Receive
  PROVE  TypeInv'
<1> USE Before
<1>0. /\ {"rd_echo", "rd_status", "rd_stop_end", "rd_ack_end", "rd_ts", "rd_data",
          "rd_count", "rd_done"} \subseteq InReceive
      /\ \A p \in InReceive : p \in Point /\ p \notin Outside /\ Inside(p, resume)
  BY Points DEF InReceive
<1>1. CASE ReceiveEcho
  <2>1. PICK line \in Arrivals :
          /\ Consume(line)
          /\ \/ /\ Length(line) <= 0
                /\ ReceiveFails("NO_RESPONSE")
                /\ seen' = {} /\ UNCHANGED type
             \/ /\ Length(line) > 0
                /\ pc' = "rd_status" /\ type' = EchoType(line) /\ seen' = {line}
                /\ UNCHANGED <<tx, urg, ret, resume>>
    BY <1>1 DEF ReceiveEcho
  <2>2. /\ UNCHANGED <<dev, unit, noise, link, op, good, calls, stack, steps,
                       barrier, scans>>
        /\ stack # <<>> /\ urg.is_active
    BY <1>0, <1>1 DEF ReceiveEcho, historyVars
  <2>3. rx' \in Seq(Line) /\ (Length(line) >= 0 => line \in Line)
    BY <2>1, ReadTypes
  <2>6. Length(line) \in Int
    BY DEF Length
  <2>4. CASE Length(line) <= 0
    <3>1. /\ ReceiveFails("NO_RESPONSE") /\ seen' = {} /\ UNCHANGED type
      BY <2>1, <2>4, <2>6
    <3>2. /\ urg' \in UrgFields /\ urg'.is_active = urg.is_active
          /\ ret' \in Result /\ pc' = "rd_done"
          /\ UNCHANGED <<tx, resume>>
      BY <3>1, Names, ReceiveFailsTypes
    <3> QED BY <1>0, <2>2, <2>3, <3>1, <3>2, StepTypes
  <2>5. CASE Length(line) > 0
    <3>1. EchoType(line) \in EchoTypes
      BY DEF EchoType, EchoTypes
    <3>2. line \in Line
      BY <2>3, <2>5, <2>6
    <3>3. /\ pc' = "rd_status" /\ type' = EchoType(line) /\ seen' = {line}
          /\ UNCHANGED <<tx, urg, ret, resume>>
      BY <2>1, <2>5, <2>6
    <3> QED BY <1>0, <2>2, <2>3, <3>1, <3>2, <3>3, StepTypes
  <2> QED BY <2>4, <2>5, <2>6
<1>2. CASE ReceiveStatus
  <2>1. PICK line \in Arrivals :
          /\ Consume(line)
          /\ \/ /\ \E e \in {"INVALID_RESPONSE", "CHECKSUM_ERROR"} :
                     DrainWithQT(e, "rd_done")
                /\ UNCHANGED seen
             \/ /\ Length(line) = 3
                /\ \E p \in {"rd_stop_end", "rd_ack_end", "rd_ts"} :
                     ReceiveGoesOn(p, line)
    BY <1>2 DEF ReceiveStatus
  <2>2. /\ UNCHANGED <<dev, unit, noise, link, op, good, calls, stack, type, steps,
                       barrier, scans>>
        /\ stack # <<>> /\ urg.is_active
    BY <1>0, <1>2 DEF ReceiveStatus, localVars, historyVars
  <2>3. rx' \in Seq(Line) /\ (Length(line) >= 0 => line \in Line)
    BY <2>1, ReadTypes
  <2>4. ASSUME NEW e \in {"INVALID_RESPONSE", "CHECKSUM_ERROR"},
               DrainWithQT(e, "rd_done"), UNCHANGED seen
        PROVE  TypeInv'
    <3>1. /\ tx' \in Seq(Command)
          /\ urg' \in UrgFields /\ urg'.is_active = urg.is_active
          /\ ret' \in Result /\ pc' \in Point /\ pc' \notin Outside
          /\ resume' \in Resumes /\ Inside(pc', resume')
      BY <2>4, Names, ReceiveDrainTypes
    <3> QED BY <2>2, <2>3, <2>4, <3>1, StepTypes
  <2>5. ASSUME NEW p \in {"rd_stop_end", "rd_ack_end", "rd_ts"},
               Length(line) = 3, ReceiveGoesOn(p, line)
        PROVE  TypeInv'
    <3>1. /\ p \in InReceive /\ line \in Line
          /\ pc' = p /\ seen' = seen \cup {line}
          /\ UNCHANGED <<tx, urg, ret, resume>>
      BY <1>0, <2>3, <2>5 DEF ReceiveGoesOn
    <3> QED BY <1>0, <2>2, <2>3, <3>1, StepTypes
  <2> QED BY <2>1, <2>4, <2>5
<1>3. CASE ReceiveStopEnd
  <2>1. PICK line \in Arrivals :
          /\ Consume(line)
          /\ IF Length(line) = 0
             THEN /\ ret' = "OK" /\ pc' = "rd_done" /\ UNCHANGED <<tx, urg, resume>>
             ELSE ReceiveFails("INVALID_RESPONSE")
    BY <1>3 DEF ReceiveStopEnd
  <2>2. /\ UNCHANGED <<dev, unit, noise, link, op, good, seen, calls, stack, type,
                       steps, barrier, scans>>
        /\ stack # <<>> /\ urg.is_active
    BY <1>0, <1>3 DEF ReceiveStopEnd, localVars, historyVars
  <2>3. rx' \in Seq(Line)
    BY <2>1, ReadTypes
  <2>4. /\ urg' \in UrgFields /\ urg'.is_active = urg.is_active
        /\ ret' \in Result /\ pc' = "rd_done"
        /\ UNCHANGED <<tx, resume>>
    <3>1. CASE Length(line) = 0
      BY <2>1, <3>1, Names
    <3>2. CASE Length(line) # 0
      BY <2>1, <3>2, Names, ReceiveFailsTypes
    <3> QED BY <3>1, <3>2
  <2> QED BY <1>0, <2>2, <2>3, <2>4, StepTypes
<1>4. CASE ReceiveAckEnd
  <2>1. PICK line \in Arrivals :
          /\ Consume(line)
          /\ IF Length(line) = 0
             THEN /\ pc' = "rd_echo" /\ seen' = {}
                  /\ UNCHANGED <<tx, urg, ret, resume>>
             ELSE DrainWithQT("INVALID_RESPONSE", "rd_done") /\ UNCHANGED seen
    BY <1>4 DEF ReceiveAckEnd
  <2>2. /\ UNCHANGED <<dev, unit, noise, link, op, good, calls, stack, type,
                       steps, barrier, scans>>
        /\ stack # <<>> /\ urg.is_active
    BY <1>0, <1>4 DEF ReceiveAckEnd, localVars, historyVars
  <2>3. rx' \in Seq(Line)
    BY <2>1, ReadTypes
  <2>4. CASE Length(line) = 0
    BY <1>0, <2>1, <2>2, <2>3, <2>4, StepTypes
  <2>5. CASE Length(line) # 0
    <3>1. /\ tx' \in Seq(Command)
          /\ urg' \in UrgFields /\ urg'.is_active = urg.is_active
          /\ ret' \in Result /\ pc' \in Point /\ pc' \notin Outside
          /\ resume' \in Resumes /\ Inside(pc', resume')
      BY <2>1, <2>5, Names, ReceiveDrainTypes
    <3> QED BY <2>1, <2>2, <2>3, <2>5, <3>1, StepTypes
  <2> QED BY <2>4, <2>5
<1>5. CASE ReceiveTimestamp
  <2>1. PICK line \in Arrivals :
          /\ Consume(line)
          /\ seen' = IF Length(line) > 0 THEN seen \cup {line} ELSE seen
    BY <1>5 DEF ReceiveTimestamp
  <2>2. /\ UNCHANGED <<tx, dev, unit, noise, link, urg, op, good, resume, calls,
                       stack, type, barrier, scans>>
        /\ stack # <<>> /\ urg.is_active
        /\ ret' = "OK" /\ steps' = 0 /\ pc' \in {"rd_data", "rd_count"}
    BY <1>0, <1>5 DEF ReceiveTimestamp, historyVars
  <2>3. rx' \in Seq(Line) /\ (Length(line) >= 0 => line \in Line)
    BY <2>1, ReadTypes
  <2>4. seen' \in SUBSET Line
    BY <2>1, <2>3 DEF Length
  <2> QED BY <1>0, <2>2, <2>3, <2>4, Names, StepTypes
<1>6. CASE ReceiveLengthData
  <2>1. PICK line \in Arrivals :
          /\ Consume(line)
          /\ \/ /\ \E e \in {"RECEIVE_ERROR", "CHECKSUM_ERROR"} :
                     DrainWithQT(e, "rd_count")
                /\ UNCHANGED <<seen, steps>>
             \/ /\ Length(line) > 0
                /\ steps' = steps + StepsIn(line)
                /\ ReceiveGoesOn("rd_data", line)
             \/ /\ ret' = IF steps > 0 THEN "DATA" ELSE "OK"
                /\ pc' = "rd_count"
                /\ UNCHANGED <<tx, urg, resume, seen, steps>>
    BY <1>6 DEF ReceiveLengthData
  <2>2. /\ UNCHANGED <<dev, unit, noise, link, op, good, calls, stack, type,
                       barrier, scans>>
        /\ stack # <<>> /\ urg.is_active
    BY <1>0, <1>6 DEF ReceiveLengthData, historyVars
  <2>3. rx' \in Seq(Line) /\ (Length(line) >= 0 => line \in Line)
    BY <2>1, ReadTypes
  <2>4. ASSUME NEW e \in {"RECEIVE_ERROR", "CHECKSUM_ERROR"},
               DrainWithQT(e, "rd_count"), UNCHANGED <<seen, steps>>
        PROVE  TypeInv'
    <3>1. /\ tx' \in Seq(Command)
          /\ urg' \in UrgFields /\ urg'.is_active = urg.is_active
          /\ ret' \in Result /\ pc' \in Point /\ pc' \notin Outside
          /\ resume' \in Resumes /\ Inside(pc', resume')
      BY <2>4, Names, ReceiveDrainTypes
    <3> QED BY <2>2, <2>3, <2>4, <3>1, StepTypes
  <2>5. ASSUME Length(line) > 0, steps' = steps + StepsIn(line),
               ReceiveGoesOn("rd_data", line)
        PROVE  TypeInv'
    <3>1. StepsIn(line) \in Nat
      BY DEF StepsIn, StepsPerLine
    <3>2. /\ line \in Line /\ steps' \in Nat
          /\ pc' = "rd_data" /\ seen' = seen \cup {line}
          /\ UNCHANGED <<tx, urg, ret, resume>>
      BY <2>3, <2>5, <3>1 DEF ReceiveGoesOn, Length
    <3> QED BY <1>0, <2>2, <2>3, <3>2, StepTypes
  <2>6. ASSUME ret' = IF steps > 0 THEN "DATA" ELSE "OK", pc' = "rd_count",
               UNCHANGED <<tx, urg, resume, seen, steps>>
        PROVE  TypeInv'
    BY <1>0, <2>2, <2>3, <2>6, Names, StepTypes
  <2> QED BY <2>1, <2>4, <2>5, <2>6
<1> QED BY <1>1, <1>2, <1>3, <1>4, <1>5, <1>6 DEF Receive

-----------------------------------------------------------------------------
(***************************************************************************)
(* Stopping, counting scans, returning.                                    *)
(***************************************************************************)

LEMMA OneScanLessTypes ==
  ASSUME urg \in UrgFields, urg.scanning_remain_times > 0
  PROVE  OneScanLess \in UrgFields /\ OneScanLess.is_active = urg.is_active
<1> DEFINE n == urg.scanning_remain_times - 1
<1>1. n \in 0 .. 100
  BY DEF UrgFields
<1>2. OneScanLess = [urg EXCEPT !.scanning_remain_times = n]
  BY DEF OneScanLess
<1> HIDE DEF n
<1> QED BY <1>1, <1>2 DEF UrgFields

\* The steps between two reads of receive_data and urg_stop_measurement.
LEMMA StopOrCountTypes ==
  ASSUME TypeInv, StopOrCount
  PROVE  TypeInv'
<1> USE Before
<1>0. /\ {"rd_echo", "rd_count", "rd_done", "stop_done"} \subseteq InReceive
      /\ \A p \in InReceive : p \in Point /\ p \notin Outside /\ Inside(p, resume)
      /\ {"entry", "idle"} \subseteq Outside
      /\ \A p \in Outside : p \in Point /\ ~Inside(p, resume)
  BY Points DEF InReceive, Outside
<1>1. CASE Stop
  <2>1. /\ UNCHANGED <<rx, dev, unit, noise, link, op, good, resume, seen, calls,
                       type, steps, barrier, scans>>
        /\ stack = <<>> /\ urg.is_active /\ stack' = <<Frame("app")>> \o stack
    BY <1>0, <1>1 DEF Stop, StopBegins, At
  <2>2. /\ stack' \in Seq(Frames) /\ Layered(stack') /\ stack' # <<>>
    <3> DEFINE f == Frame("app")
    <3>1. f \in Frames /\ f.by = "app"
      BY FrameTypes
    <3> HIDE DEF f
    <3>2. stack' = <<f>> \o stack
      BY <2>1 DEF f
    <3> QED BY <2>1, <3>1, <3>2, PushTypes
  <2>3. CASE CanWrite
    <3>1. Write("QT", 0) /\ pc' = "rd_echo" /\ UNCHANGED <<urg, ret>>
      BY <1>1, <2>3 DEF Stop, StopBegins
    <3>2. tx' \in Seq(Command)
      BY <3>1, WriteTypes DEF CommandName, Endless
    <3> QED BY <1>0, <2>1, <2>2, <3>1, <3>2, StepTypes
  <2>4. CASE ~CanWrite
    <3>1. /\ UNCHANGED tx /\ pc' = "stop_done" /\ ret' = "SEND_ERROR"
          /\ urg' = [urg EXCEPT !.last_errno = "SEND_ERROR"]
      BY <1>1, <2>4 DEF Stop, StopBegins
    <3>2. urg' \in UrgFields /\ urg'.is_active = urg.is_active
      BY <3>1, Names, UrgTypes
    <3> QED BY <1>0, <2>1, <2>2, <3>1, <3>2, Names, StepTypes
  <2> QED BY <2>3, <2>4
<1>2. CASE CountScan
  <2>1. /\ UNCHANGED <<tx, rx, dev, unit, noise, link, op, ret, good, resume, seen,
                       calls, stack, type, steps, barrier>>
        /\ pc' = "rd_done" /\ stack # <<>> /\ urg.is_active
        /\ urg' = IF CountsScans THEN OneScanLess ELSE urg
        /\ scans' = HandsOut
    BY <1>0, <1>2 DEF CountScan, sensorVars, localVars
  <2>2. urg' \in UrgFields /\ urg'.is_active = urg.is_active
    BY <2>1, OneScanLessTypes DEF CountsScans
  <2>3. scans' \in Nat
    BY <2>1 DEF HandsOut
  <2> QED BY <1>0, <2>1, <2>2, <2>3, StepTypes
<1>3. CASE CountLastScan
  <2>1. /\ UNCHANGED <<rx, dev, unit, noise, link, op, good, resume, seen, calls,
                       type, steps, barrier>>
        /\ stack # <<>> /\ urg.is_active /\ stack' = <<Frame("auto")>> \o stack
        /\ scans' = HandsOut
    BY <1>0, <1>3 DEF CountLastScan
  <2>2. /\ stack' \in Seq(Frames) /\ Layered(stack') /\ stack' # <<>>
    <3> DEFINE f == Frame("auto")
    <3>1. f \in Frames /\ f.by = "auto"
      BY FrameTypes
    <3> HIDE DEF f
    <3>2. stack' = <<f>> \o stack
      BY <2>1 DEF f
    <3> QED BY <2>1, <3>1, <3>2, PushTypes
  <2>3. scans' \in Nat
    BY <2>1 DEF HandsOut
  <2>4. OneScanLess \in UrgFields /\ OneScanLess.is_active = urg.is_active
    BY <1>3, OneScanLessTypes DEF CountLastScan, CountsScans
  <2>5. CASE CanWrite
    <3>1. Write("QT", 0) /\ pc' = "rd_echo" /\ UNCHANGED ret /\ urg' = OneScanLess
      BY <1>3, <2>5 DEF CountLastScan
    <3>2. tx' \in Seq(Command)
      BY <3>1, WriteTypes DEF CommandName, Endless
    <3> QED BY <1>0, <2>1, <2>2, <2>3, <2>4, <3>1, <3>2, StepTypes
  <2>6. CASE ~CanWrite
    <3>1. /\ UNCHANGED tx /\ pc' = "stop_done" /\ ret' = "SEND_ERROR"
          /\ urg' = [OneScanLess EXCEPT !.last_errno = "SEND_ERROR"]
      BY <1>3, <2>6 DEF CountLastScan
    <3>2. urg' \in UrgFields /\ urg'.is_active = urg.is_active
      BY <2>4, <3>1, Names, UrgTypes
    <3> QED BY <1>0, <2>1, <2>2, <2>3, <3>1, <3>2, Names, StepTypes
  <2> QED BY <2>5, <2>6
<1>4. CASE GetReturns
  <2>1. /\ UNCHANGED <<tx, rx, dev, unit, noise, link, urg, op, ret, good, resume,
                       seen, calls, type, steps, barrier, scans>>
        /\ stack # <<>> /\ stack' = Tail(stack) /\ pc' = "idle"
        /\ Head(stack).by = "get"
    BY <1>0, <1>4 DEF GetReturns, InGet, sensorVars, historyVars
  <2>2. stack' \in Seq(Frames) /\ Layered(stack') /\ stack' = <<>>
    BY <2>1, PopTypes
  <2> QED BY <1>0, <2>1, <2>2, StepTypes
<1>5. CASE StopSucceeds
  <2>1. /\ UNCHANGED <<tx, rx, dev, unit, noise, link, op, ret, good, resume, seen,
                       calls, stack, type, steps, scans>>
        /\ pc' = "stop_done" /\ stack # <<>> /\ urg.is_active
        /\ urg' = [urg EXCEPT !.is_laser_on = FALSE, !.is_sending = FALSE,
                              !.last_errno = "NO_ERROR"]
        /\ barrier' = calls
    BY <1>0, <1>5 DEF StopSucceeds, sensorVars, localVars
  <2>2. urg' \in UrgFields /\ urg'.is_active = urg.is_active
    BY <2>1, Names DEF UrgFields
  <2> QED BY <1>0, <2>1, <2>2, StepTypes
<1>6. CASE StopTriesAgain
  <2>1. /\ UNCHANGED <<tx, rx, dev, unit, noise, link, urg, op, ret, good, resume,
                       calls, type, steps, barrier, scans>>
        /\ stack # <<>> /\ urg.is_active
    BY <1>0, <1>6 DEF StopTriesAgain, sensorVars, historyVars
  <2>2. CASE Head(stack).tries + 1 < MAX_READ_TIMES
    <3> DEFINE f == [Head(stack) EXCEPT !.tries = @ + 1]
    <3>1. Head(stack) \in Frames
      BY <2>1, PopTypes
    <3>2. f \in Frames /\ f.by = Head(stack).by
      <4> DEFINE n == Head(stack).tries + 1
      <4>1. n \in 0 .. MAX_READ_TIMES - 1
        BY <2>2, <3>1 DEF Frames, MAX_READ_TIMES
      <4>2. f = [Head(stack) EXCEPT !.tries = n]
        OBVIOUS
      <4> HIDE DEF n, f
      <4> QED BY <3>1, <4>1, <4>2 DEF Frames
    <3>3. stack' = <<f>> \o Tail(stack) /\ pc' = "rd_echo" /\ seen' = {}
      BY <1>6, <2>2 DEF StopTriesAgain
    <3> HIDE DEF f
    <3>4. stack' \in Seq(Frames) /\ Layered(stack') /\ stack' # <<>>
      BY <2>1, <3>2, <3>3, TopTypes
    <3> QED BY <1>0, <2>1, <3>3, <3>4, StepTypes
  <2>3. CASE ~(Head(stack).tries + 1 < MAX_READ_TIMES)
    <3>1. pc' = "stop_done" /\ UNCHANGED <<stack, seen>>
      BY <1>6, <2>3 DEF StopTriesAgain
    <3> QED BY <1>0, <2>1, <3>1, StepTypes
  <2> QED BY <2>2, <2>3
<1>7. CASE AutoStopReturns
  <2>1. /\ UNCHANGED <<tx, rx, dev, unit, noise, link, urg, op, good, resume,
                       calls, type, steps, barrier, scans>>
        /\ stack # <<>> /\ urg.is_active /\ Head(stack).by = "auto"
        /\ ret' = Head(stack).kept /\ seen' = Head(stack).keptSeen
        /\ stack' = Tail(stack) /\ pc' = "rd_done"
    BY <1>0, <1>7 DEF AutoStopReturns, sensorVars, historyVars
  <2>2. /\ stack' \in Seq(Frames) /\ Layered(stack') /\ stack' # <<>>
        /\ Head(stack) \in Frames
    BY <2>1, PopTypes
  <2>3. ret' \in Result /\ seen' \in SUBSET Line
    BY <2>1, <2>2 DEF Frames
  <2> QED BY <1>0, <2>1, <2>2, <2>3, StepTypes
<1>8. CASE StopReturns
  <2>1. /\ UNCHANGED <<tx, rx, dev, unit, noise, link, urg, op, ret, good, resume,
                       seen, calls, type, steps, barrier, scans>>
        /\ stack # <<>> /\ stack' = Tail(stack) /\ pc' = "idle"
        /\ Head(stack).by = "app"
    BY <1>0, <1>8 DEF StopReturns, At, sensorVars, historyVars
  <2>2. stack' \in Seq(Frames) /\ Layered(stack') /\ stack' = <<>>
    BY <2>1, PopTypes
  <2> QED BY <1>0, <2>1, <2>2, StepTypes
<1>9. CASE SleepGoesOn
  <2>1. /\ UNCHANGED <<rx, dev, unit, noise, link, op, resume, calls, type, steps,
                       barrier, scans>>
        /\ stack # <<>> /\ stack' = Tail(stack)
        /\ Head(stack).by = "app" /\ urg.is_active
    BY <1>0, <1>9 DEF SleepGoesOn, At, historyVars
  <2>2. stack' \in Seq(Frames) /\ Layered(stack') /\ stack' = <<>>
    BY <2>1, PopTypes
  <2>3. CASE ret = "OK"
    <3>1. ScipBegins(op, urg)
      BY <1>9, <2>3 DEF SleepGoesOn
    <3>2. /\ tx' \in Seq(Command) /\ urg' \in UrgFields
          /\ urg'.is_active = urg.is_active /\ ret' \in Result
          /\ good' \in BOOLEAN /\ seen' = {} /\ pc' \in InScip
      BY <3>1, ScipBeginsTypes
    <3> QED BY <2>1, <2>2, <3>2, Points, StepTypes
  <2>4. CASE ret # "OK"
    <3>1. pc' = "idle" /\ UNCHANGED <<tx, urg, ret, good, seen>>
      BY <1>9, <2>4 DEF SleepGoesOn
    <3> QED BY <1>0, <2>1, <2>2, <3>1, StepTypes
  <2> QED BY <2>3, <2>4
<1> QED BY <1>1, <1>2, <1>3, <1>4, <1>5, <1>6, <1>7, <1>8, <1>9 DEF StopOrCount

-----------------------------------------------------------------------------
(***************************************************************************)
(* The functions built on scip_response, and scip_response itself.         *)
(***************************************************************************)

\* A function built on scip_response returns.
LEMMA ScipReturnsTypes ==
  ASSUME TypeInv, NEW ops, NEW r \in Result, NEW u \in UrgFields,
         u.is_active = urg.is_active, ScipReturns(ops, r, u)
  PROVE  TypeInv'
<1> USE Before
<1>1. /\ UNCHANGED <<tx, rx, dev, unit, noise, link, op, good, resume, seen, calls,
                     stack, type, steps, barrier, scans>>
      /\ pc = "scip_done" /\ pc' = "idle" /\ ret' = r /\ urg' = u
  BY DEF ScipReturns, At, Returns, sensorVars, localVars, historyVars
<1>2. stack = <<>>
  BY <1>1, Points DEF InScip
<1>3. pc' \in Outside
  BY <1>1 DEF Outside
<1> QED BY <1>1, <1>2, <1>3, Points, StepTypes

\* A function built on scip_response sends its command.
LEMMA CommandTypes ==
  ASSUME TypeInv, NEW o, ScipBegins(o, urg), urg.is_active, stack = <<>>,
         op' \in OpNames \cup {"none", "reboot2"},
         UNCHANGED <<rx, dev, unit, noise, link, resume, calls, stack, type, steps,
                     barrier, scans>>
  PROVE  TypeInv'
<1>1. /\ tx' \in Seq(Command) /\ urg' \in UrgFields
      /\ urg'.is_active = urg.is_active /\ ret' \in Result
      /\ good' \in BOOLEAN /\ seen' = {} /\ pc' \in InScip
  BY Before, ScipBeginsTypes
<1>2. pc' \in Point /\ ~Inside(pc', resume')
  BY <1>1, Points
<1>3. TypeOK'
  BY <1>1, <1>2 DEF TypeInv, TypeOK, SensorTypeOK
<1>4. Control'
  BY <1>1, <1>2 DEF TypeInv, Control, Inside
<1> QED BY <1>3, <1>4 DEF TypeInv

\* The connection is closed: urg_reboot and urg_close end so.
LEMMA HangsUpTypes ==
  ASSUME TypeInv, HangsUp, pc' = "idle", ret' \in Result, urg' \in UrgFields,
         ~urg'.is_active, stack = <<>>,
         UNCHANGED <<tx, dev, unit, noise, op, good, resume, seen, calls, stack,
                     type, steps, barrier, scans>>
  PROVE  TypeInv'
<1>1. rx' \in Seq(Line) /\ link' \in {"open", "closed", "lost"}
  BY DEF HangsUp, TypeInv, TypeOK
<1>2. pc' \in Outside
  BY DEF Outside
<1>3. pc' \in Point /\ ~Inside(pc', resume')
  BY <1>2, Points
<1>4. TypeOK'
  BY <1>1, <1>3 DEF TypeInv, TypeOK, SensorTypeOK
<1>5. Control'
  BY <1>2, <1>3 DEF TypeInv, Control, Inside
<1> QED BY <1>4, <1>5 DEF TypeInv

LEMMA Command2Types ==
  ASSUME TypeInv, Command2
  PROVE  TypeInv'
<1> USE Before
<1>0. /\ {"entry", "closing", "idle"} \subseteq Outside
      /\ \A p \in Outside : p \in Point /\ ~Inside(p, resume)
      /\ "OK" \in Result /\ "INVALID_RESPONSE" \in Result
      /\ "RECEIVE_ERROR" \in Result /\ TRUE \in BOOLEAN /\ FALSE \in BOOLEAN
      /\ "INVALID_RESPONSE" \in ErrorNumber /\ "RECEIVE_ERROR" \in ErrorNumber
      /\ "NO_ERROR" \in ErrorNumber
  BY Points, Names DEF Outside
<1>00. pc = "scip_done" => stack = <<>> /\ urg.is_active
  BY Points DEF InScip, Outside
<1>1. CASE LaserAlreadyOn
  <2>1. /\ UNCHANGED <<tx, rx, dev, unit, noise, link, op, good, resume, seen,
                       calls, stack, type, steps, barrier, scans>>
        /\ stack = <<>> /\ pc' = "idle" /\ ret' = "OK"
        /\ urg' = [urg EXCEPT !.last_errno = "NO_ERROR"]
    BY <1>0, <1>1 DEF LaserAlreadyOn, Entered, At, Returns, sensorVars,
                      localVars, historyVars
  <2>2. urg' \in UrgFields /\ urg'.is_active = urg.is_active
    BY <1>0, <2>1, UrgTypes
  <2> QED BY <1>0, <2>1, <2>2, StepTypes
<1>2. CASE Command1
  <2>1. /\ UNCHANGED <<rx, dev, unit, noise, link, op, resume, calls, stack, type,
                       steps, barrier, scans>>
        /\ stack = <<>> /\ urg.is_active /\ ScipBegins(op, urg)
        /\ op' \in OpNames
    BY <1>0, <1>2
       DEF Command1, Entered, At, localVars, historyVars, OpNames
  <2> QED BY <2>1, CommandTypes
<1>3. CASE LaserOnReturns
  <2> DEFINE u == IF ret = "OK" THEN [urg EXCEPT !.is_laser_on = TRUE] ELSE urg
  <2>1. ScipReturns({"laser"}, ret, u)
    BY <1>3 DEF LaserOnReturns
  <2>2. u \in UrgFields /\ u.is_active = urg.is_active
    BY <1>0, UrgTypes
  <2> HIDE DEF u
  <2> QED BY <2>1, <2>2, ScipReturnsTypes
<1>4. CASE TimeStampModeReturns
  <2> DEFINE u == [urg EXCEPT !.last_errno = "INVALID_RESPONSE"]
  <2>1. \/ ScipReturns({"tm0", "tm2"}, "OK", urg)
        \/ ScipReturns({"tm0", "tm2"}, "INVALID_RESPONSE", u)
    BY <1>4 DEF TimeStampModeReturns
  <2>2. u \in UrgFields /\ u.is_active = urg.is_active
    BY <1>0, UrgTypes
  <2> HIDE DEF u
  <2> QED BY <1>0, <2>1, <2>2, ScipReturnsTypes
<1>5. CASE TimeStampReturns
  <2> DEFINE u == [urg EXCEPT !.last_errno = "RECEIVE_ERROR"]
  <2>1. \/ ScipReturns({"tm1"}, ret, urg)
        \/ ScipReturns({"tm1"}, "RECEIVE_ERROR", u)
    BY <1>5 DEF TimeStampReturns
  <2>2. u \in UrgFields /\ u.is_active = urg.is_active
    BY <1>0, UrgTypes
  <2> HIDE DEF u
  <2> QED BY <1>0, <2>1, <2>2, ScipReturnsTypes
<1>6. CASE InfoReturns
  <2>1. \E r \in {"OK", "RECEIVE_ERROR"} : ScipReturns({"info"}, r, urg)
    BY <1>6 DEF InfoReturns
  <2> QED BY <1>0, <2>1, ScipReturnsTypes
<1>7. CASE SleepReturns
  BY <1>0, <1>7, ScipReturnsTypes DEF SleepReturns
<1>8. CASE RebootFails
  <2> DEFINE u == [urg EXCEPT !.last_errno = "INVALID_RESPONSE"]
  <2>1. ScipReturns({"reboot", "reboot2"}, "INVALID_RESPONSE", u)
    BY <1>8 DEF RebootFails
  <2>2. u \in UrgFields /\ u.is_active = urg.is_active
    BY <1>0, UrgTypes
  <2> HIDE DEF u
  <2> QED BY <1>0, <2>1, <2>2, ScipReturnsTypes
<1>9. CASE RebootAgain
  <2>1. /\ UNCHANGED <<rx, dev, unit, noise, link, resume, calls, stack, type,
                       steps, barrier, scans>>
        /\ stack = <<>> /\ urg.is_active /\ ScipBegins("reboot2", urg)
        /\ op' = "reboot2"
    BY <1>00, <1>9 DEF RebootAgain, At, localVars, historyVars
  <2> QED BY <2>1, CommandTypes
<1>10. CASE RebootCloses
  <2>1. /\ UNCHANGED <<tx, dev, unit, noise, op, good, resume, seen, calls, stack,
                       type, steps, barrier, scans>>
        /\ HangsUp /\ pc' = "idle" /\ ret' = "OK" /\ stack = <<>>
        /\ urg' = [urg EXCEPT !.is_active = FALSE, !.last_errno = "NO_ERROR"]
    BY <1>00, <1>10 DEF RebootCloses, At, Returns, localVars, historyVars
  <2>2. urg' \in UrgFields /\ ~urg'.is_active
    BY <1>0, <2>1 DEF UrgFields
  <2> QED BY <1>0, <2>1, <2>2, HangsUpTypes
<1>11. CASE Close
  <2>1. /\ UNCHANGED <<rx, dev, unit, noise, link, op, good, seen, calls, stack,
                       type, steps, barrier, scans>>
        /\ stack = <<>>
    BY <1>0, <1>11 DEF Close, At, localVars, historyVars
  <2>2. CASE urg.is_active
    <3> DEFINE e == urg.last_errno
    <3>1. DrainWithQT(e, "closing")
      BY <1>11, <2>2 DEF Close
    <3>2. e \in ErrorNumber /\ e \in Result
      BY Names DEF UrgFields
    <3> HIDE DEF e
    <3>3. /\ tx' \in Seq(Command) /\ urg' \in UrgFields
          /\ urg'.is_active = urg.is_active /\ ret' = e
          /\ \/ pc' = "drain" /\ resume' = "closing"
             \/ pc' = "closing" /\ resume' = resume
      BY <3>1, <3>2, DrainTypes
    <3> QED BY <1>0, <2>1, <2>2, <3>2, <3>3, Points, StepTypes DEF Resumes
  <2>3. CASE ~urg.is_active
    <3>1. pc' = "closing" /\ UNCHANGED <<tx, urg, ret, resume>>
      BY <1>11, <2>3 DEF Close
    <3> QED BY <1>0, <2>1, <3>1, StepTypes
  <2> QED BY <2>2, <2>3
<1>12. CASE ConnectionClose
  <2>1. /\ UNCHANGED <<tx, dev, unit, noise, op, good, resume, seen, calls, stack,
                       type, steps, barrier, scans>>
        /\ HangsUp /\ pc' = "idle" /\ ret' = "OK" /\ stack = <<>>
        /\ urg' = [urg EXCEPT !.is_active = FALSE]
    BY <1>0, <1>12 DEF ConnectionClose, Returns, localVars, historyVars
  <2>2. urg' \in UrgFields /\ ~urg'.is_active
    BY <2>1 DEF UrgFields
  <2> QED BY <1>0, <2>1, <2>2, HangsUpTypes
<1> QED BY <1>1, <1>2, <1>3, <1>4, <1>5, <1>6, <1>7, <1>8, <1>9, <1>10, <1>11,
           <1>12 DEF Command2

\* The steps of scip_response.
LEMMA ScipTypes ==
  ASSUME TypeInv, ScipNext, UNCHANGED <<localVars, historyVars>>
  PROVE  TypeInv'
<1> USE Before
<1>0. UNCHANGED <<stack, type, steps, barrier, scans>>
  BY DEF localVars, historyVars
<1>1. ASSUME NEW e \in Error, ScipFails(e)
      PROVE  /\ urg' \in UrgFields /\ urg'.is_active = urg.is_active
             /\ ret' \in Result /\ pc' = "scip_done"
             /\ UNCHANGED <<good, seen>>
  <2>1. urg' = [urg EXCEPT !.last_errno = e] /\ e \in ErrorNumber
    BY <1>1, Names DEF ScipFails
  <2>2. urg' \in UrgFields /\ urg'.is_active = urg.is_active
    BY <2>1, UrgTypes
  <2> QED BY <1>1, <2>2, Names DEF ScipFails
<1>2. /\ {"scip_echo", "scip_status", "scip_body", "scip_done"} \subseteq InScip
      /\ \A p \in InScip : p \in Point /\ ~Inside(p, resume)
      /\ \A p \in InScip : pc = p => stack = <<>> /\ urg.is_active
  BY Points DEF InScip, Outside
<1>3. CASE ScipEcho
  <2>1. PICK line \in Arrivals :
          /\ Consume(line)
          /\ \/ \E e \in {"NO_RESPONSE", "INVALID_RESPONSE"} : ScipFails(e)
             \/ /\ line.k = "echo" /\ pc' = "scip_status" /\ seen' = {line}
                /\ UNCHANGED <<urg, ret, good>>
    BY <1>3 DEF ScipEcho
  <2>2. /\ UNCHANGED <<tx, dev, unit, noise, link, op, resume, calls>>
        /\ stack = <<>> /\ urg.is_active
    BY <1>2, <1>3 DEF ScipEcho
  <2>3. rx' \in Seq(Line) /\ (Length(line) >= 0 => line \in Line)
    BY <2>1, ReadTypes
  <2>4. CASE \E e \in {"NO_RESPONSE", "INVALID_RESPONSE"} : ScipFails(e)
    BY <1>0, <1>1, <1>2, <2>2, <2>3, <2>4, Names, StepTypes
  <2>5. CASE /\ line.k = "echo" /\ pc' = "scip_status" /\ seen' = {line}
             /\ UNCHANGED <<urg, ret, good>>
    <3>1. line \in Line
      BY <2>3, <2>5 DEF Length
    <3> QED BY <1>0, <1>2, <2>2, <2>3, <2>5, <3>1, StepTypes
  <2> QED BY <2>1, <2>4, <2>5
<1>4. CASE ScipStatus
  <2>1. PICK line \in Arrivals :
          /\ Consume(line)
          /\ \/ \E e \in {"NO_RESPONSE", "CHECKSUM_ERROR", "INVALID_RESPONSE"} :
                  ScipFails(e)
             \/ /\ Length(line) = 3
                /\ \/ good' = (StatusValue(line.s) \in Expected(CommandOf(op)))
                   \/ good' = TRUE
                /\ seen' = seen \cup {line} /\ pc' = "scip_body"
                /\ UNCHANGED <<urg, ret>>
    <3>1. \A line : MaySayScip1(line) => Length(line) = 3
      BY DEF MaySayScip1, Length
    <3> QED BY <1>4, <3>1 DEF ScipStatus
  <2>2. /\ UNCHANGED <<tx, dev, unit, noise, link, op, resume, calls>>
        /\ stack = <<>> /\ urg.is_active
    BY <1>2, <1>4 DEF ScipStatus
  <2>3. rx' \in Seq(Line) /\ (Length(line) >= 0 => line \in Line)
    BY <2>1, ReadTypes
  <2>4. CASE \E e \in {"NO_RESPONSE", "CHECKSUM_ERROR", "INVALID_RESPONSE"} :
               ScipFails(e)
    BY <1>0, <1>1, <1>2, <2>2, <2>3, <2>4, Names, StepTypes
  <2>5. CASE /\ Length(line) = 3
             /\ \/ good' = (StatusValue(line.s) \in Expected(CommandOf(op)))
                \/ good' = TRUE
             /\ seen' = seen \cup {line} /\ pc' = "scip_body"
             /\ UNCHANGED <<urg, ret>>
    <3>1. line \in Line /\ good' \in BOOLEAN
      <4>1. CASE good' = TRUE
        BY <2>3, <2>5, <4>1
      <4>2. CASE good' = (StatusValue(line.s) \in Expected(CommandOf(op)))
        BY <2>3, <2>5, <4>2
      <4> QED BY <2>5, <4>1, <4>2
    <3> QED BY <1>0, <1>2, <2>2, <2>3, <2>5, <3>1, StepTypes
  <2> QED BY <2>1, <2>4, <2>5
<1>5. CASE ScipBody
  <2>1. PICK line \in Arrivals :
          /\ Consume(line)
          /\ \/ \E e \in {"NO_RESPONSE", "CHECKSUM_ERROR"} : ScipFails(e)
             \/ /\ Length(line) > 0 /\ seen' = seen \cup {line}
                /\ UNCHANGED <<pc, urg, ret, good>>
             \/ /\ ret' = IF good THEN "OK" ELSE "UNKNOWN_ERROR"
                /\ pc' = "scip_done"
                /\ UNCHANGED <<urg, good, seen>>
    BY <1>5 DEF ScipBody
  <2>2. /\ UNCHANGED <<tx, dev, unit, noise, link, op, resume, calls>>
        /\ stack = <<>> /\ urg.is_active /\ pc \in InScip
    BY <1>2, <1>5 DEF ScipBody
  <2>3. rx' \in Seq(Line) /\ (Length(line) >= 0 => line \in Line)
    BY <2>1, ReadTypes
  <2>4. CASE \E e \in {"NO_RESPONSE", "CHECKSUM_ERROR"} : ScipFails(e)
    BY <1>0, <1>1, <1>2, <2>2, <2>3, <2>4, Names, StepTypes
  <2>5. CASE /\ Length(line) > 0 /\ seen' = seen \cup {line}
             /\ UNCHANGED <<pc, urg, ret, good>>
    <3>1. line \in Line
      BY <2>3, <2>5 DEF Length
    <3> QED BY <1>0, <1>2, <2>2, <2>3, <2>5, <3>1, StepTypes
  <2>6. CASE /\ ret' = IF good THEN "OK" ELSE "UNKNOWN_ERROR"
             /\ pc' = "scip_done"
             /\ UNCHANGED <<urg, good, seen>>
    <3>1. ret' \in Result
      BY <2>6, Names
    <3> QED BY <1>0, <1>2, <2>2, <2>3, <2>6, <3>1, StepTypes
  <2> QED BY <2>1, <2>4, <2>5, <2>6
<1> QED BY <1>3, <1>4, <1>5 DEF ScipNext

\* A drain has an error number to report when it is over.
DrainReports == pc = "drain" => ret \in ErrorNumber

\* A drain goes on, or ends where its caller goes on.
LEMMA IgnoreTypes ==
  ASSUME TypeInv, DrainReports, ignore_receive_data, UNCHANGED <<localVars, historyVars>>
  PROVE  TypeInv'
<1> USE Before
<1>1. PICK line \in Arrivals :
        /\ Consume(line)
        /\ IF line = NoLine
           THEN /\ pc' = resume
                /\ urg' = [urg EXCEPT !.is_sending = FALSE, !.last_errno = ret]
           ELSE UNCHANGED <<pc, urg>>
  BY DEF ignore_receive_data
<1>2. UNCHANGED <<tx, dev, unit, noise, link, op, ret, good, resume, seen, calls,
                  stack, type, steps, barrier, scans>>
  BY DEF ignore_receive_data, localVars, historyVars
<1>3. rx' \in Seq(Line) /\ urg.is_active /\ pc = "drain"
  BY <1>1, ReadTypes, Points DEF ignore_receive_data
<1>4. CASE line = NoLine
  <2>1. pc' = resume /\ urg' = [urg EXCEPT !.is_sending = FALSE, !.last_errno = ret]
    BY <1>1, <1>4
  <2>2. urg' \in UrgFields /\ urg'.is_active = urg.is_active
    BY <1>3, <2>1 DEF DrainReports, UrgFields
  <2>3. /\ pc' \in Point
        /\ Inside(pc', resume') <=> Inside(pc, resume)
    BY <1>2, <1>3, <2>1 DEF Resumes, Point, Outside, Inside, InReceive
  <2> QED BY <1>1, <1>2, <1>3, <2>2, <2>3, StepTypes
<1>5. CASE line # NoLine
  BY <1>1, <1>2, <1>3, <1>5, StepTypes
<1> QED BY <1>4, <1>5

\* Every drain starts with an error number, and leaves it alone.
LEMMA DrainReportsStep ==
  ASSUME TypeInv, DrainReports, Next
  PROVE  DrainReports'
<1>1. ASSUME NEW e \in ErrorNumber, NEW where, DrainWithQT(e, where)
      PROVE  ret' \in ErrorNumber
  BY <1>1 DEF DrainWithQT
<1>2. CASE \E o \in Ops : Call(o)
  BY <1>2 DEF Call, DrainReports
<1>3. CASE NotConnected
  BY <1>3 DEF NotConnected, Returns, DrainReports
<1>4. CASE Start
  <2>1. CASE StartRefused
    BY <1>1, <2>1, Names DEF StartRefused, DrainReports
  <2>2. CASE StartSingle
    BY <2>2 DEF StartSingle, SendDistanceCommand, Returns, ScipBegins, DrainReports
  <2>3. CASE StartContinuous
    BY <2>3 DEF StartContinuous, SendDistanceCommand, Returns, DrainReports
  <2>4. CASE StartSingleGoesOn
    BY <2>4 DEF StartSingleGoesOn, SendDistanceCommand, Returns, DrainReports
  <2> QED BY <1>4, <2>1, <2>2, <2>3, <2>4 DEF Start
<1>5. CASE Get
  BY <1>5 DEF Get, DrainReports
<1>6. CASE Receive
  <2>1. CASE ReceiveEcho
    BY <2>1 DEF ReceiveEcho, ReceiveFails, DrainReports
  <2>2. CASE ReceiveStatus
    BY <1>1, <2>2, Names DEF ReceiveStatus, ReceiveGoesOn, DrainReports
  <2>3. CASE ReceiveStopEnd
    BY <2>3 DEF ReceiveStopEnd, ReceiveFails, DrainReports
  <2>4. CASE ReceiveAckEnd
    BY <1>1, <2>4, Names DEF ReceiveAckEnd, DrainReports
  <2>5. CASE ReceiveTimestamp
    BY <2>5 DEF ReceiveTimestamp, DrainReports
  <2>6. CASE ReceiveLengthData
    BY <1>1, <2>6, Names DEF ReceiveLengthData, ReceiveGoesOn, DrainReports
  <2> QED BY <1>6, <2>1, <2>2, <2>3, <2>4, <2>5, <2>6 DEF Receive
<1>7. CASE StopOrCount
  BY <1>7 DEF StopOrCount, Stop, StopBegins, CountScan, CountLastScan, GetReturns,
              StopSucceeds, StopTriesAgain, AutoStopReturns, StopReturns,
              SleepGoesOn, ScipBegins, DrainReports
<1>8. CASE Command2
  <2>1. CASE Close
    <3>1. CASE urg.is_active
      <4>1. urg.last_errno \in ErrorNumber
        BY DEF TypeInv, TypeOK, UrgFields
      <4> QED BY <1>1, <2>1, <3>1, <4>1 DEF Close, DrainReports
    <3>2. CASE ~urg.is_active
      BY <2>1, <3>2 DEF Close, DrainReports
    <3> QED BY <3>1, <3>2
  <2>2. CASE ~Close
    BY <1>8, <2>2
       DEF Command2, LaserAlreadyOn, Command1, LaserOnReturns,
           TimeStampModeReturns, TimeStampReturns, InfoReturns, SleepReturns,
           RebootFails, RebootAgain, RebootCloses, ConnectionClose, ScipReturns,
           ScipBegins, Returns, DrainReports
  <2> QED BY <2>1, <2>2
<1>9. CASE ScipNext
  BY <1>9 DEF ScipNext, ScipEcho, ScipStatus, ScipBody, ScipFails, DrainReports
<1>10. CASE ignore_receive_data
  BY <1>10 DEF ignore_receive_data, DrainReports, TypeInv, TypeOK
<1>11. CASE Environment
  BY <1>11 DEF Environment, Sensor, Disconnect, hostVars, DrainReports
<1> QED BY <1>2, <1>3, <1>4, <1>5, <1>6, <1>7, <1>8, <1>9, <1>10, <1>11
        DEF Next, HostStep

-----------------------------------------------------------------------------
(***************************************************************************)
(* Type correctness.                                                       *)
(***************************************************************************)

\* Whatever the sensor and the line do.
LEMMA EnvironmentTypes ==
  ASSUME TypeInv, Environment
  PROVE  TypeInv'
<1>1. CASE Sensor(SensorNext)
  <2>1. SensorTypeOK' /\ UNCHANGED <<hostVars, localVars, historyVars>>
    BY <1>1, SensorTypes DEF Sensor, TypeInv, TypeOK
  <2>2. TypeOK'
    BY <2>1 DEF TypeInv, TypeOK, hostVars, localVars, historyVars
  <2>3. Control'
    BY <2>1 DEF TypeInv, Control, hostVars, localVars, historyVars
  <2> QED BY <2>2, <2>3 DEF TypeInv
<1>2. CASE Disconnect /\ UNCHANGED <<localVars, historyVars>>
  <2>1. TypeOK'
    BY <1>2 DEF Disconnect, TypeInv, TypeOK, SensorTypeOK, localVars, historyVars
  <2>2. Control'
    BY <1>2 DEF Disconnect, TypeInv, Control, localVars, historyVars
  <2> QED BY <2>1, <2>2 DEF TypeInv
<1> QED BY <1>1, <1>2 DEF Environment

LEMMA InitTypes == Init => TypeInv /\ DrainReports
<1> SUFFICES ASSUME Init PROVE TypeInv /\ DrainReports
  OBVIOUS
<1>1. SensorTypeOK
  BY DEF Init, SensorInit, SensorTypeOK, Idle, Endless, Command, CommandName
<1>2. urg \in UrgFields
  BY Names DEF Init, UrgFields
<1>3. TypeOK
  <2>1. /\ stack \in Seq(Frames) /\ seen \in SUBSET Line /\ calls \in Nat
        /\ steps \in Nat /\ barrier \in Nat /\ scans \in Nat
    BY DEF Init
  <2>2. /\ link \in {"open", "closed", "lost"} /\ pc \in Point
        /\ op \in OpNames \cup {"none", "reboot2"} /\ ret \in Result
        /\ good \in BOOLEAN /\ resume \in {"idle", "closing", "rd_done", "rd_count"}
        /\ type \in {"stop", "distance", "unknown"}
    BY Names DEF Init, Point, Outside
  <2> QED BY <1>1, <1>2, <2>1, <2>2 DEF TypeOK
<1>4. Control
  BY DEF Init, Control, Outside, InReceive
<1> QED BY <1>3, <1>4 DEF TypeInv, DrainReports, Init

LEMMA NextTypes ==
  ASSUME TypeInv, DrainReports, [Next]_vars
  PROVE  TypeInv' /\ DrainReports'
<1>1. CASE Next
  <2>1. TypeInv'
    BY <1>1, CallTypes, NotConnectedTypes, StartTypes, GetTypes, ReceiveTypes,
       StopOrCountTypes, Command2Types, ScipTypes, IgnoreTypes, EnvironmentTypes
       DEF Next, HostStep
  <2> QED BY <1>1, <2>1, DrainReportsStep
<1>2. CASE UNCHANGED vars
  BY <1>2 DEF vars, sensorVars, hostVars, localVars, historyVars, TypeInv,
              DrainReports, TypeOK, SensorTypeOK, Control
<1> QED BY <1>1, <1>2

\* Every variable keeps its type, and where the thread is agrees with who has
\* called whom: a stop that runs inside a get returns to that get, and no
\* function works on a connection that urg_close has closed.
THEOREM TypeCorrect == Spec => [](TypeOK /\ Control)
<1>1. Init => TypeInv /\ DrainReports
  BY InitTypes
<1>2. TypeInv /\ DrainReports /\ [Next]_vars => TypeInv' /\ DrainReports'
  BY NextTypes
<1>3. TypeInv /\ DrainReports => TypeOK /\ Control
  BY DEF TypeInv
<1> QED BY <1>1, <1>2, <1>3, PTL DEF Spec

-----------------------------------------------------------------------------
(***************************************************************************)
(* No stream runs unnoticed.                                               *)
(***************************************************************************)

\* While one of these holds, a QT must be under way to whatever streams.
Watched == ~urg.is_sending \/ pc = "drain" \/ Stopping

GuardInv == /\ dev.tm => ~Streaming
            /\ link # "lost" /\ Watched => Calm

\* The positions of a sequence of commands after something is appended.
LEMMA WriteAt ==
  ASSUME tx \in Seq(Command), calls \in Nat,
         NEW c \in CommandName, NEW n \in 0 .. Endless, Write(c, n)
  PROVE  /\ Len(tx) \in Nat /\ DOMAIN tx = 1 .. Len(tx)
         /\ Len(tx') = Len(tx) + 1 /\ DOMAIN tx' = 1 .. Len(tx')
         /\ \A i \in 1 .. Len(tx) : tx'[i] = tx[i]
         /\ tx'[Len(tx')].c = c
<1> DEFINE e == [c |-> c, n |-> n, call |-> calls]
<1>1. e \in Command /\ e.c = c
  BY DEF Command
<1>2. tx' = Append(tx, e)
  BY DEF Write
<1>3. tx' \in Seq(Command)
  BY WriteTypes
<1> HIDE DEF e
<1>4. /\ Len(tx') = Len(tx) + 1 /\ tx'[Len(tx) + 1] = e
      /\ \A i \in 1 .. Len(tx) : tx'[i] = tx[i]
  BY <1>1, <1>2, AppendProperties
<1> QED BY <1>1, <1>3, <1>4, LenProperties

\* Anything but MD may be written to a calm sensor.
LEMMA CalmWrite ==
  ASSUME tx \in Seq(Command), calls \in Nat, Calm, UNCHANGED dev,
         NEW c \in CommandName \ {"MD"}, NEW n \in 0 .. Endless, Write(c, n)
  PROVE  Calm'
<1>1. /\ Len(tx) \in Nat /\ DOMAIN tx = 1 .. Len(tx)
      /\ Len(tx') = Len(tx) + 1 /\ DOMAIN tx' = 1 .. Len(tx')
      /\ \A i \in 1 .. Len(tx) : tx'[i] = tx[i]
      /\ tx'[Len(tx')].c # "MD"
  BY WriteAt
<1>2. ASSUME NEW i \in 0 .. Len(tx), QTAfter(i) PROVE QTAfter(i)'
  <2>1. PICK j \in i + 1 .. Len(tx) : tx[j].c = "QT"
    BY <1>2 DEF QTAfter
  <2>2. j \in 1 .. Len(tx) /\ j \in i + 1 .. Len(tx')
    BY <1>1
  <2> QED BY <1>1, <2>1, <2>2 DEF QTAfter
<1>3. Streaming' => QTAfter(0)'
  BY <1>1, <1>2 DEF Calm, Streaming
<1>4. ASSUME NEW i \in DOMAIN tx', tx'[i].c = "MD" PROVE QTAfter(i)'
  BY <1>1, <1>2, <1>4 DEF Calm
<1> QED BY <1>3, <1>4 DEF Calm

\* QT calms it down.
LEMMA CalmQT ==
  ASSUME tx \in Seq(Command), calls \in Nat, Write("QT", 0)
  PROVE  Calm'
<1>1. /\ Len(tx) \in Nat /\ DOMAIN tx = 1 .. Len(tx)
      /\ Len(tx') = Len(tx) + 1 /\ DOMAIN tx' = 1 .. Len(tx')
      /\ tx'[Len(tx')].c = "QT"
  <2>1. "QT" \in CommandName /\ 0 \in 0 .. Endless
    BY DEF CommandName, Endless
  <2> QED BY <2>1, WriteAt
<1>2. ASSUME NEW i \in 0 .. Len(tx) PROVE QTAfter(i)'
  <2>1. Len(tx') \in i + 1 .. Len(tx')
    BY <1>1
  <2> QED BY <1>1, <2>1 DEF QTAfter
<1>3. ASSUME NEW i \in DOMAIN tx', tx'[i].c = "MD" PROVE QTAfter(i)'
  <2>1. i \in 0 .. Len(tx)
    BY <1>1, <1>3
  <2> QED BY <1>2, <2>1
<1> QED BY <1>1, <1>2, <1>3 DEF Calm

\* The sensor takes a command.
LEMMA CalmReacts ==
  ASSUME SensorTypeOK, Calm, tx # <<>>, tx' = Tail(tx),
         Streaming' => \/ Streaming /\ Head(tx).c # "QT"
                       \/ Head(tx).c = "MD"
  PROVE  Calm'
<1>0. tx \in Seq(Command)
  BY DEF SensorTypeOK
<1>1. /\ Len(tx) \in Nat /\ Len(tx) > 0 /\ DOMAIN tx = 1 .. Len(tx)
      /\ tx' \in Seq(Command) /\ Len(tx') = Len(tx) - 1
      /\ Head(tx) = tx[1]
      /\ \A i \in 1 .. Len(tx') : tx'[i] = tx[i + 1]
  BY <1>0, HeadTailProperties, LenProperties, EmptySeq
<1>2. DOMAIN tx' = 1 .. Len(tx')
  BY <1>1, LenProperties
<1>3. ASSUME NEW i \in 0 .. Len(tx'), QTAfter(i + 1) PROVE QTAfter(i)'
  <2>1. PICK j \in i + 2 .. Len(tx) : tx[j].c = "QT"
    BY <1>3 DEF QTAfter
  <2>2. j - 1 \in i + 1 .. Len(tx') /\ tx'[j - 1] = tx[j]
    BY <1>1, <2>1
  <2> QED BY <2>1, <2>2 DEF QTAfter
<1>4. ASSUME Streaming' PROVE QTAfter(0)'
  <2>1. CASE Head(tx).c = "MD"
    BY <1>1, <1>3, <2>1 DEF Calm
  <2>2. CASE Streaming /\ Head(tx).c # "QT"
    <3>1. PICK j \in 1 .. Len(tx) : tx[j].c = "QT"
      BY <2>2 DEF Calm, QTAfter
    <3>2. j \in 2 .. Len(tx)
      BY <1>1, <2>2, <3>1
    <3>3. QTAfter(1)
      BY <3>1, <3>2 DEF QTAfter
    <3> QED BY <1>1, <1>3, <3>3
  <2> QED BY <1>4, <2>1, <2>2
<1>5. ASSUME NEW i \in DOMAIN tx', tx'[i].c = "MD" PROVE QTAfter(i)'
  <2>1. i \in 0 .. Len(tx') /\ i + 1 \in DOMAIN tx /\ tx[i + 1].c = "MD"
    BY <1>1, <1>2, <1>5
  <2> QED BY <1>3, <2>1 DEF Calm
<1> QED BY <1>4, <1>5 DEF Calm

\* What a reaction of the sensor does to the stream.
LEMMA ReactsGuards ==
  ASSUME SensorTypeOK, dev.tm => ~Streaming,
         NEW names, NEW status, NEW body, NEW d \in Dev,
         Reacts(names, status, body, d),
         d.tm => d.stream = 0,
         \/ d.stream = 0
         \/ d.stream = dev.stream /\ ("QT" \in names => dev.tm)
         \/ names = {"MD"}
  PROVE  (dev.tm => ~Streaming)' /\ (Calm => Calm')
<1>1. /\ tx # <<>> /\ tx' = Tail(tx) /\ Head(tx).c \in names
      /\ dev'.stream = d.stream /\ dev'.tm = d.tm
  BY DEF Reacts, Dev
<1>2. (dev.tm => ~Streaming)'
  BY <1>1 DEF Streaming
<1>3. Streaming' => \/ Streaming /\ Head(tx).c # "QT"
                    \/ Head(tx).c = "MD"
  BY <1>1 DEF Streaming
<1> QED BY <1>1, <1>2, <1>3, CalmReacts

\* No step of the sensor or of the line disturbs the calm.
LEMMA SensorGuards ==
  ASSUME SensorTypeOK, dev.tm => ~Streaming, SensorNext
  PROVE  (dev.tm => ~Streaming)' /\ (Calm => Calm')
<1>0. /\ dev \in Dev /\ Idle \in Dev /\ 0 \in 0 .. Endless
      /\ TRUE \in BOOLEAN /\ FALSE \in BOOLEAN
      /\ dev.job \in Command /\ dev.stream \in 0 .. Endless
      /\ (dev.tm => dev.stream = 0)
  <2>1. dev \in Dev /\ dev.job \in Command /\ dev.stream \in 0 .. Endless
    BY DEF SensorTypeOK, Dev
  <2>2. Idle \in Dev
    BY DEF Dev, Idle, Endless, Command, CommandName
  <2>3. dev.tm => dev.stream = 0
    BY <2>1 DEF Streaming, Endless
  <2> QED BY <2>1, <2>2, <2>3 DEF Endless
<1>1. ASSUME NEW names, NEW status, NEW body, Reacts(names, status, body, dev),
             "QT" \in names => dev.tm
      PROVE  (dev.tm => ~Streaming)' /\ (Calm => Calm')
  BY <1>0, <1>1, ReactsGuards
<1>2. CASE SensorQT
  <2> DEFINE d == [dev EXCEPT !.stream = 0, !.laser = FALSE]
             none == <<>>
  <2>1. d \in Dev /\ d.stream = 0
    BY <1>0 DEF Dev
  <2>2. Reacts({"QT"}, "00", none, d)
    BY <1>2 DEF SensorQT
  <2> HIDE DEF d, none
  <2> QED BY <2>1, <2>2, ReactsGuards
<1>3. CASE SensorBM
  <2> DEFINE d == [dev EXCEPT !.laser = TRUE]
             none == <<>>
  <2>1. d \in Dev /\ d.stream = dev.stream /\ d.tm = dev.tm
    BY <1>0 DEF Dev
  <2>2. \/ Reacts({"BM"}, "00", none, d)
        \/ \E s \in {"01", "02"} : Reacts({"BM"}, s, none, dev)
    BY <1>3 DEF SensorBM
  <2> HIDE DEF d, none
  <2>3. CASE Reacts({"BM"}, "00", none, d)
    BY <1>0, <2>1, <2>3, ReactsGuards
  <2> QED BY <1>1, <2>2, <2>3
<1>4. CASE SensorGD
  BY <1>1, <1>4 DEF SensorGD
<1>5. CASE SensorMD
  <2> DEFINE s == IF Head(tx).n = 0 THEN Endless ELSE Head(tx).n
             d == [dev EXCEPT !.stream = s, !.job = Head(tx), !.laser = TRUE]
             none == <<>>
  <2>1. Head(tx) \in Command
    BY <1>5, HeadTailProperties DEF SensorMD, SensorTypeOK
  <2>2. s \in 0 .. Endless
    BY <2>1 DEF Endless, Command
  <2>3. d \in Dev /\ d.tm = dev.tm
    <3> HIDE DEF s
    <3>1. d \in Dev
      BY <1>0, <2>1, <2>2, DevTypes
    <3> QED BY <1>0, <3>1 DEF Dev
  <2>4. Reacts({"MD"}, "00", none, d) /\ ~dev.tm
    BY <1>5 DEF SensorMD
  <2> HIDE DEF d, none
  <2> QED BY <2>3, <2>4, ReactsGuards
<1>6. CASE SensorTurnsDown
  BY <1>1, <1>6 DEF SensorTurnsDown
<1>7. CASE SensorTM
  <2> DEFINE on == [dev EXCEPT !.tm = TRUE, !.stream = 0]
             off == [dev EXCEPT !.tm = FALSE]
             none == <<>>
  <2>1. /\ on \in Dev /\ on.stream = 0
        /\ off \in Dev /\ off.stream = dev.stream /\ ~off.tm
    BY <1>0 DEF Dev
  <2>2. \/ Reacts({"TM0"}, "00", none, on)
        \/ \E s \in {"00", "01"}, b \in {none, <<"ts">>} : Reacts({"TM1"}, s, b, dev)
        \/ Reacts({"TM2"}, "00", none, off)
    BY <1>7 DEF SensorTM
  <2> HIDE DEF on, off, none
  <2>3. CASE Reacts({"TM0"}, "00", none, on)
    BY <2>1, <2>3, ReactsGuards
  <2>4. CASE Reacts({"TM2"}, "00", none, off)
    BY <2>1, <2>4, ReactsGuards
  <2> QED BY <1>1, <2>2, <2>3, <2>4
<1>8. CASE SensorVV
  BY <1>1, <1>8 DEF SensorVV
<1>9. CASE SensorSL
  BY <1>1, <1>9 DEF SensorSL
<1>10. CASE SensorRB
  <2>1. CASE Reacts({"RB"}, "01", <<>>, dev)
    BY <1>1, <2>1
  <2>2. CASE Reacts({"RB"}, "00", <<>>, Idle)
    <3>1. Idle.stream = 0
      BY DEF Idle
    <3> QED BY <1>0, <2>2, <3>1, ReactsGuards
  <2> QED BY <1>10, <2>1, <2>2 DEF SensorRB
<1>11. CASE SensorScan
  <2>1. UNCHANGED tx /\ dev'.tm = dev.tm /\ dev.stream > 0
    BY <1>0, <1>11 DEF SensorScan, Dev
  <2>2. ~dev.tm
    BY <1>0, <2>1
  <2> QED BY <2>1, <2>2 DEF Calm, Streaming, QTAfter
<1>12. CASE LoseLine \/ DamageLine \/ StallLine
  BY <1>12 DEF LoseLine, DamageLine, StallLine, Calm, Streaming, QTAfter
<1> QED BY <1>2, <1>3, <1>4, <1>5, <1>6, <1>7, <1>8, <1>9, <1>10, <1>11, <1>12
        DEF SensorNext, SensorCommand

\* What a step of an API function has to show.
LEMMA HostKeeps ==
  ASSUME TypeInv, GuardInv, UNCHANGED dev, link = "lost" => link' = "lost",
         \/ UNCHANGED tx /\ (Watched' => Watched)
         \/ /\ \E c \in CommandName \ {"MD"} : \E n \in 0 .. Endless : Write(c, n)
            /\ Watched' => Watched
         \/ Write("QT", 0)
         \/ ~Watched'
         \/ link' = "lost"
  PROVE  GuardInv'
<1>1. tx \in Seq(Command) /\ calls \in Nat
  BY Before
<1>2. (dev.tm => ~Streaming)'
  BY DEF GuardInv, Streaming
<1>3. ASSUME link' # "lost", Watched' PROVE Calm'
  <2>1. CASE UNCHANGED tx /\ (Watched' => Watched)
    BY <1>3, <2>1 DEF GuardInv, Calm, Streaming, QTAfter
  <2>2. CASE /\ \E c \in CommandName \ {"MD"} : \E n \in 0 .. Endless : Write(c, n)
             /\ Watched' => Watched
    <3>1. Calm
      BY <1>3, <2>2 DEF GuardInv
    <3> QED BY <1>1, <2>2, <3>1, CalmWrite
  <2>3. CASE Write("QT", 0)
    BY <1>1, <2>3, CalmQT
  <2> QED BY <1>3, <2>1, <2>2, <2>3
<1> QED BY <1>2, <1>3 DEF GuardInv

\* A drain: QT goes out unless nothing can be streaming.
LEMMA DrainGuards ==
  ASSUME TypeInv, GuardInv, urg.is_active, UNCHANGED <<dev, link, stack>>,
         NEW e, NEW where, where # "drain", DrainWithQT(e, where)
  PROVE  GuardInv'
<1>1. link \in {"open", "lost"}
  BY DEF TypeInv, TypeOK, Control
<1>2. CASE NothingToStop
  <2>1. UNCHANGED tx /\ ~urg.is_sending
    BY <1>2 DEF DrainWithQT, NothingToStop
  <2> QED BY <2>1, HostKeeps DEF Watched
<1>3. CASE ~NothingToStop
  BY <1>1, <1>3, HostKeeps DEF DrainWithQT, WriteIfOpen, CanWrite
<1> QED BY <1>2, <1>3

\* The start of scip_response.
LEMMA ScipBeginsGuards ==
  ASSUME TypeInv, GuardInv, UNCHANGED <<dev, link>>, Stopping' => Stopping,
         NEW o, NEW u \in UrgFields, u.is_sending = urg.is_sending,
         ScipBegins(o, u)
  PROVE  GuardInv'
<1>1. CommandOf(o) \in CommandName \ {"MD"}
  BY DEF CommandOf, CommandName
<1>2. urg'.is_sending = urg.is_sending
  BY DEF ScipBegins, UrgFields
<1>3. Watched' => Watched
  BY <1>2 DEF ScipBegins, Watched
<1>4. UNCHANGED tx \/ Write(CommandOf(o), 0)
  BY DEF ScipBegins
<1> QED BY <1>1, <1>3, <1>4, HostKeeps DEF Endless

\* Reads, returns and refusals: nothing is written, and nothing new is watched.
LEMMA SilentGuards ==
  ASSUME TypeInv, GuardInv, UNCHANGED <<tx, dev>>,
         link = "lost" => link' = "lost",
         urg'.is_sending = urg.is_sending, pc' = "drain" => pc = "drain",
         Stopping' => Stopping
  PROVE  GuardInv'
BY HostKeeps DEF Watched

\* The fields is_sending does not share.
LEMMA SendingStays ==
  ASSUME NEW u \in UrgFields, NEW e, NEW b
  PROVE  /\ [u EXCEPT !.last_errno = e].is_sending = u.is_sending
         /\ [u EXCEPT !.is_laser_on = b].is_sending = u.is_sending
         /\ [u EXCEPT !.is_active = b].is_sending = u.is_sending
         /\ [u EXCEPT !.is_active = b, !.last_errno = e].is_sending = u.is_sending
         /\ [u EXCEPT !.scanning_remain_times = b].is_sending = u.is_sending
         /\ [u EXCEPT !.scanning_remain_times = b, !.last_errno = e].is_sending
              = u.is_sending
BY DEF UrgFields

\* Starting: the only step that asks for a stream says so in is_sending.
LEMMA StartGuards ==
  ASSUME TypeInv, GuardInv, Start
  PROVE  GuardInv'
<1> USE Before
<1>1. CASE StartContinuous
  <2>1. PICK times \in ScanTimes \ {1} :
          SendDistanceCommand("MD", Requested(times).specified_scan_times,
                              [Requested(times) EXCEPT !.is_sending = TRUE])
    BY <1>1 DEF StartContinuous
  <2>2. Requested(times) \in UrgFields
    BY RequestedTypes
  <2>3. urg'.is_sending
    BY <2>1, <2>2 DEF SendDistanceCommand, UrgFields
  <2>4. pc' = "idle" /\ stack' = <<>> /\ UNCHANGED <<dev, link>>
    BY <1>1, <2>1, Points
       DEF StartContinuous, SendDistanceCommand, Returns, localVars, Entered, At,
           Outside
  <2> QED BY <2>3, <2>4, HostKeeps DEF Watched, Stopping
<1>2. ASSUME NEW u \in UrgFields, u.is_sending = urg.is_sending,
             SendDistanceCommand("GD", 0, u), UNCHANGED <<dev, link, stack>>
      PROVE  GuardInv'
  <2>1. pc' = "idle" /\ urg'.is_sending = urg.is_sending
    BY <1>2 DEF SendDistanceCommand, Returns, UrgFields
  <2>2. Watched' => Watched
    BY <1>2, <2>1 DEF Watched, Stopping
  <2>3. UNCHANGED tx \/ Write("GD", 0)
    BY <1>2 DEF SendDistanceCommand
  <2> QED BY <1>2, <2>2, <2>3, HostKeeps DEF CommandName, Endless
<1>3. CASE StartSingle
  <2>1. /\ Requested(1) \in UrgFields
        /\ Requested(1).is_sending = urg.is_sending
    <3>1. Requested(1) \in UrgFields
      BY <1>3, RequestedTypes DEF StartSingle
    <3> QED BY <3>1 DEF Requested, UrgFields
  <2>2. UNCHANGED <<dev, link, stack>>
    BY <1>3 DEF StartSingle, localVars
  <2>3. CASE urg.is_laser_on
    <3> DEFINE u == [Requested(1) EXCEPT !.last_errno = "NO_ERROR"]
    <3>1. u \in UrgFields /\ u.is_sending = urg.is_sending
      BY <2>1, Names, UrgTypes, SendingStays
    <3>2. SendDistanceCommand("GD", 0, u)
      BY <1>3, <2>3 DEF StartSingle
    <3> HIDE DEF u
    <3> QED BY <1>2, <2>2, <3>1, <3>2
  <2>4. CASE ~urg.is_laser_on
    <3>1. ScipBegins(op, Requested(1))
      BY <1>3, <2>4 DEF StartSingle
    <3>2. Stopping' => Stopping
      BY <2>2 DEF Stopping
    <3> QED BY <2>1, <2>2, <3>1, <3>2, ScipBeginsGuards
  <2> QED BY <2>3, <2>4
<1>4. CASE StartSingleGoesOn
  <2> DEFINE b == (ret = "OK")
             u == [urg EXCEPT !.is_laser_on = b]
  <2>1. u \in UrgFields /\ u.is_sending = urg.is_sending
    <3>1. b \in BOOLEAN
      OBVIOUS
    <3> HIDE DEF b
    <3> QED BY <3>1, Names, UrgTypes, SendingStays
  <2>2. SendDistanceCommand("GD", 0, u) /\ UNCHANGED <<dev, link, stack>>
    BY <1>4 DEF StartSingleGoesOn, localVars
  <2> HIDE DEF u
  <2> QED BY <1>2, <2>1, <2>2
<1>5. CASE StartRefused
  <2>1. /\ DrainWithQT("INVALID_PARAMETER", "idle") /\ urg.is_active
        /\ UNCHANGED <<dev, link, stack>>
    BY <1>5 DEF StartRefused, Entered, localVars
  <2> QED BY <2>1, DrainGuards
<1> QED BY <1>1, <1>3, <1>4, <1>5 DEF Start

LEMMA ReceiveGuards ==
  ASSUME TypeInv, GuardInv, Receive
  PROVE  GuardInv'
<1> USE Before
<1>0. urg.is_active /\ pc # "drain" /\ UNCHANGED <<dev, link, stack>>
  <2>1. /\ pc \in {"rd_echo", "rd_status", "rd_stop_end", "rd_ack_end", "rd_ts",
                   "rd_data"}
        /\ UNCHANGED <<dev, link, stack>>
    BY DEF Receive, ReceiveEcho, ReceiveStatus, ReceiveStopEnd, ReceiveAckEnd,
           ReceiveTimestamp, ReceiveLengthData, localVars
  <2> QED BY <2>1 DEF Outside
<1>1. Stopping' => Stopping
  BY <1>0 DEF Stopping
<1>2. ASSUME NEW e, ReceiveFails(e) PROVE GuardInv'
  <2>1. urg'.is_sending = urg.is_sending
    BY <1>2, SendingStays DEF ReceiveFails
  <2> QED BY <1>0, <1>1, <1>2, <2>1, SilentGuards DEF ReceiveFails
<1>3. ASSUME UNCHANGED <<tx, urg>>, pc' # "drain" PROVE GuardInv'
  BY <1>0, <1>1, <1>3, SilentGuards
<1>4. ASSUME NEW e, NEW where \in {"rd_done", "rd_count"}, DrainWithQT(e, where)
      PROVE  GuardInv'
  BY <1>0, <1>4, DrainGuards
<1>5. CASE ReceiveEcho
  BY <1>2, <1>3, <1>5 DEF ReceiveEcho
<1>6. CASE ReceiveStatus
  BY <1>3, <1>4, <1>6 DEF ReceiveStatus, ReceiveGoesOn
<1>7. CASE ReceiveStopEnd
  BY <1>2, <1>3, <1>7 DEF ReceiveStopEnd
<1>8. CASE ReceiveAckEnd
  BY <1>3, <1>4, <1>8 DEF ReceiveAckEnd
<1>9. CASE ReceiveTimestamp
  <2>1. UNCHANGED <<tx, urg>> /\ pc' # "drain"
    BY <1>9 DEF ReceiveTimestamp
  <2> QED BY <1>3, <2>1
<1>10. CASE ReceiveLengthData
  BY <1>3, <1>4, <1>10 DEF ReceiveLengthData, ReceiveGoesOn
<1> QED BY <1>5, <1>6, <1>7, <1>8, <1>9, <1>10 DEF Receive

\* A stop writes QT, or cannot because the connection is lost.
LEMMA StopOrCountGuards ==
  ASSUME TypeInv, GuardInv, StopOrCount
  PROVE  GuardInv'
<1> USE Before
<1>0. link \in {"open", "closed", "lost"} /\ (urg.is_active => link # "closed")
  BY DEF TypeInv, TypeOK, Control
<1>1. ASSUME urg.is_active, UNCHANGED <<dev, link>>,
             IF CanWrite THEN Write("QT", 0) ELSE UNCHANGED tx
      PROVE  GuardInv'
  <2>1. CASE CanWrite
    BY <1>1, <2>1, HostKeeps DEF CanWrite
  <2>2. CASE ~CanWrite
    BY <1>0, <1>1, <2>2, HostKeeps DEF CanWrite
  <2> QED BY <2>1, <2>2
<1>2. CASE Stop
  <2>1. /\ urg.is_active /\ UNCHANGED <<dev, link>>
        /\ IF CanWrite THEN Write("QT", 0) ELSE UNCHANGED tx
    BY <1>2 DEF Stop, StopBegins
  <2> QED BY <1>1, <2>1
<1>3. CASE CountLastScan
  <2>1. /\ urg.is_active /\ UNCHANGED <<dev, link>>
        /\ IF CanWrite THEN Write("QT", 0) ELSE UNCHANGED tx
    BY <1>3 DEF CountLastScan, Outside
  <2> QED BY <1>1, <2>1
<1>4. CASE CountScan
  <2>1. urg'.is_sending = urg.is_sending
    BY <1>4, SendingStays DEF CountScan, OneScanLess
  <2>2. UNCHANGED <<tx, dev, link, stack>> /\ pc' # "drain"
    BY <1>4 DEF CountScan, sensorVars, localVars
  <2> QED BY <2>1, <2>2, SilentGuards DEF Stopping
<1>5. CASE GetReturns
  <2>1. /\ UNCHANGED <<tx, dev, link, urg>> /\ pc' = "idle"
        /\ stack # <<>> /\ stack' = Tail(stack) /\ Head(stack).by = "get"
    BY <1>5, Points DEF GetReturns, InGet, sensorVars, InReceive
  <2>2. stack' = <<>>
    BY <2>1, PopTypes
  <2> QED BY <2>1, <2>2, SilentGuards DEF Stopping
<1>6. CASE StopSucceeds
  <2>1. UNCHANGED <<tx, dev, link>> /\ Stopping
    BY <1>6, Points DEF StopSucceeds, sensorVars, InGet, Stopping, InReceive
  <2> QED BY <2>1, HostKeeps DEF Watched
<1>7. CASE StopTriesAgain
  <2>1. UNCHANGED <<tx, dev, link>> /\ Stopping
    BY <1>7, Points DEF StopTriesAgain, sensorVars, InGet, Stopping, InReceive
  <2> QED BY <2>1, HostKeeps DEF Watched
<1>8. CASE AutoStopReturns
  <2>1. UNCHANGED <<tx, dev, link>> /\ Stopping
    BY <1>8, Points DEF AutoStopReturns, sensorVars, Stopping, InReceive
  <2> QED BY <2>1, HostKeeps DEF Watched
<1>9. CASE StopReturns
  <2>1. UNCHANGED <<tx, dev, link>> /\ Stopping
    BY <1>9, Points DEF StopReturns, At, sensorVars, Stopping, InReceive
  <2> QED BY <2>1, HostKeeps DEF Watched
<1>10. CASE SleepGoesOn
  <2>1. UNCHANGED <<dev, link>> /\ Stopping
    BY <1>10, Points DEF SleepGoesOn, At, Stopping, InReceive
  <2>2. CASE ret = "OK"
    BY <1>10, <2>1, <2>2, ScipBeginsGuards DEF SleepGoesOn
  <2>3. CASE ret # "OK"
    <3>1. UNCHANGED tx
      BY <1>10, <2>3 DEF SleepGoesOn
    <3> QED BY <2>1, <3>1, HostKeeps DEF Watched
  <2> QED BY <2>2, <2>3
<1> QED BY <1>2, <1>3, <1>4, <1>5, <1>6, <1>7, <1>8, <1>9, <1>10 DEF StopOrCount

LEMMA Command2Guards ==
  ASSUME TypeInv, GuardInv, Command2
  PROVE  GuardInv'
<1> USE Before
<1>0. UNCHANGED stack
  BY DEF Command2, LaserAlreadyOn, Command1, LaserOnReturns, TimeStampModeReturns,
         TimeStampReturns, InfoReturns, SleepReturns, RebootFails, RebootAgain,
         RebootCloses, Close, ConnectionClose, ScipReturns, localVars
<1>1. Stopping' => Stopping
  BY <1>0 DEF Stopping
<1>2. ASSUME NEW ops, NEW r, NEW u, u.is_sending = urg.is_sending,
             ScipReturns(ops, r, u)
      PROVE  GuardInv'
  <2>1. UNCHANGED <<tx, dev, link>> /\ pc' = "idle"
        /\ urg'.is_sending = urg.is_sending
    BY <1>2 DEF ScipReturns, Returns, sensorVars
  <2> QED BY <1>1, <2>1, SilentGuards
<1>3. CASE LaserAlreadyOn
  <2>1. UNCHANGED <<tx, dev, link>> /\ pc' = "idle"
        /\ urg'.is_sending = urg.is_sending
    BY <1>3, SendingStays DEF LaserAlreadyOn, Returns, sensorVars
  <2> QED BY <1>1, <2>1, SilentGuards
<1>4. CASE Command1
  BY <1>1, <1>4, ScipBeginsGuards DEF Command1
<1>5. CASE LaserOnReturns
  <2> DEFINE u == IF ret = "OK" THEN [urg EXCEPT !.is_laser_on = TRUE] ELSE urg
  <2>1. u.is_sending = urg.is_sending
    BY SendingStays
  <2>2. ScipReturns({"laser"}, ret, u)
    BY <1>5 DEF LaserOnReturns
  <2> HIDE DEF u
  <2> QED BY <1>2, <2>1, <2>2
<1>6. CASE TimeStampModeReturns
  BY <1>2, <1>6, SendingStays DEF TimeStampModeReturns
<1>7. CASE TimeStampReturns
  BY <1>2, <1>7, SendingStays DEF TimeStampReturns
<1>8. CASE InfoReturns
  BY <1>2, <1>8 DEF InfoReturns
<1>9. CASE SleepReturns
  BY <1>2, <1>9 DEF SleepReturns
<1>10. CASE RebootFails
  BY <1>2, <1>10, SendingStays DEF RebootFails
<1>11. CASE RebootAgain
  BY <1>1, <1>11, ScipBeginsGuards DEF RebootAgain
<1>12. ASSUME UNCHANGED <<tx, dev>>, HangsUp, pc' = "idle",
              urg'.is_sending = urg.is_sending
       PROVE  GuardInv'
  BY <1>1, <1>12, SilentGuards DEF HangsUp
<1>13. CASE RebootCloses
  <2>1. /\ UNCHANGED <<tx, dev>> /\ HangsUp /\ pc' = "idle"
        /\ urg'.is_sending = urg.is_sending
    BY <1>13, SendingStays DEF RebootCloses, Returns
  <2> QED BY <1>12, <2>1
<1>14. CASE Close
  <2>1. UNCHANGED <<dev, link, stack>>
    BY <1>14 DEF Close, localVars
  <2>2. CASE urg.is_active
    <3>1. DrainWithQT(urg.last_errno, "closing")
      BY <1>14, <2>2 DEF Close
    <3> QED BY <2>1, <2>2, <3>1, DrainGuards
  <2>3. CASE ~urg.is_active
    <3>1. UNCHANGED <<tx, urg>> /\ pc' = "closing"
      BY <1>14, <2>3 DEF Close
    <3> QED BY <1>1, <2>1, <3>1, SilentGuards
  <2> QED BY <2>2, <2>3
<1>15. CASE ConnectionClose
  <2>1. /\ UNCHANGED <<tx, dev>> /\ HangsUp /\ pc' = "idle"
        /\ urg'.is_sending = urg.is_sending
    BY <1>15, SendingStays DEF ConnectionClose, Returns
  <2> QED BY <1>12, <2>1
<1> QED BY <1>3, <1>4, <1>5, <1>6, <1>7, <1>8, <1>9, <1>10, <1>11, <1>13, <1>14,
           <1>15 DEF Command2

\* Every step of an API function, of the application and of the line.
LEMMA NextGuards ==
  ASSUME TypeInv, GuardInv, [Next]_vars
  PROVE  GuardInv'
<1> USE Before
<1>1. CASE \E o \in Ops : Call(o)
  <2>1. /\ UNCHANGED <<tx, dev, link, urg, stack>> /\ pc' = "entry"
    BY <1>1 DEF Call, sensorVars, localVars
  <2> QED BY <2>1, SilentGuards DEF Stopping
<1>2. CASE NotConnected
  <2>1. /\ UNCHANGED <<tx, dev, link, stack>> /\ pc' = "idle"
        /\ urg'.is_sending = urg.is_sending
    BY <1>2, SendingStays DEF NotConnected, Returns, sensorVars, localVars
  <2> QED BY <2>1, SilentGuards DEF Stopping
<1>3. CASE Get
  <2>1. /\ UNCHANGED <<tx, dev, link, urg>> /\ pc' = "rd_echo"
        /\ stack' = <<Frame("get")>> /\ Frame("get").by = "get"
    BY <1>3 DEF Get, sensorVars, Frame
  <2>2. ~Stopping'
    BY <2>1 DEF Stopping
  <2> QED BY <2>1, <2>2, SilentGuards
<1>4. CASE ScipNext /\ UNCHANGED <<localVars, historyVars>>
  <2>1. /\ UNCHANGED <<tx, dev, link, stack>> /\ pc' # "drain"
        /\ urg'.is_sending = urg.is_sending
    <3>1. ASSUME NEW e, ScipFails(e)
          PROVE  pc' # "drain" /\ urg'.is_sending = urg.is_sending
      BY <3>1, SendingStays DEF ScipFails
    <3>2. CASE ScipEcho
      BY <1>4, <3>1, <3>2 DEF ScipEcho, localVars
    <3>3. CASE ScipStatus
      BY <1>4, <3>1, <3>3 DEF ScipStatus, localVars
    <3>4. CASE ScipBody
      BY <1>4, <3>1, <3>4 DEF ScipBody, localVars
    <3> QED BY <1>4, <3>2, <3>3, <3>4 DEF ScipNext
  <2> QED BY <2>1, SilentGuards DEF Stopping
<1>5. CASE ignore_receive_data /\ UNCHANGED <<localVars, historyVars>>
  <2>1. UNCHANGED <<tx, dev, link>> /\ Watched
    BY <1>5 DEF ignore_receive_data, Watched
  <2> QED BY <2>1, HostKeeps
<1>6. CASE Environment
  <2>1. CASE Sensor(SensorNext)
    <3>1. /\ SensorTypeOK /\ (dev.tm => ~Streaming)
          /\ UNCHANGED <<link, urg, pc, stack>>
      BY <2>1 DEF Sensor, hostVars, localVars, TypeInv, TypeOK, GuardInv
    <3>2. (dev.tm => ~Streaming)' /\ (Calm => Calm')
      BY <2>1, <3>1, SensorGuards DEF Sensor
    <3> QED BY <3>1, <3>2 DEF GuardInv, Watched, Stopping
  <2>2. CASE Disconnect
    BY <2>2, HostKeeps DEF Disconnect
  <2> QED BY <1>6, <2>1, <2>2 DEF Environment
<1>7. CASE UNCHANGED vars
  <2>1. UNCHANGED <<tx, dev, link, urg, pc, stack>>
    BY <1>7 DEF vars, sensorVars, hostVars, localVars
  <2> QED BY <2>1, SilentGuards DEF Stopping
<1> QED BY <1>1, <1>2, <1>3, <1>4, <1>5, <1>6, <1>7, StartGuards, ReceiveGuards,
           StopOrCountGuards, Command2Guards DEF Next, HostStep

\* The guard holds always: whenever is_sending is off, a drain runs or a stop
\* waits for its answer, every stream has a QT on its way to it.
THEOREM AlwaysGuarded == Spec => []Guarded
<1> DEFINE I == TypeInv /\ DrainReports /\ GuardInv
<1>1. Init => I
  <2> SUFFICES ASSUME Init PROVE GuardInv
    BY InitTypes
  <2>1. /\ tx = <<>> /\ dev = Idle
    BY DEF Init, SensorInit
  <2> QED BY <2>1 DEF GuardInv, Calm, Streaming, Idle
<1>2. I /\ [Next]_vars => I'
  BY NextTypes, NextGuards
<1>3. I => Guarded
  BY DEF TypeInv, GuardInv, Watched, Guarded
<1> QED BY <1>1, <1>2, <1>3, PTL DEF Spec

\* is_sending, by which urg_close and every error path decide whether there is
\* anything to drain, is never off while the sensor streams or is about to.
THEOREM QuietAlways == Spec => []QuietWhenNotSending
<1>1. Guarded => QuietWhenNotSending
  BY DEF Guarded, QuietWhenNotSending
<1> QED BY <1>1, AlwaysGuarded, PTL

-----------------------------------------------------------------------------
(***************************************************************************)
(* No scan is put together from two.                                       *)
(***************************************************************************)

\* What receive_data hands out as a scan.
Measured(line) == line.k \in {"ts", "data"}
OneScan(lines) == \A a, b \in {line \in lines : Measured(line)} : a.u = b.u
Nothing(lines) == \A line \in lines : ~Measured(line)

\* From s[i] to the m-th place, the lines of a scan after its status: the
\* time stamp, the range data and the empty line.
ScanFrom(s, i, m) ==
  /\ m = DataLines + 2
  /\ s[i].k = "ts"
  /\ \A j \in i + 1 .. i + m - 2 : s[j].k = "data"

\* One answer of the sensor, the m + 1 lines from s[i] on.
Whole(s, i, m) ==
  /\ m >= 2 /\ i + m <= Len(s)
  /\ s[i].k = "echo" /\ s[i + 1].k = "stat" /\ s[i + m].k = "lf"
  /\ \A j \in i + 2 .. i + m - 1 : s[j].k \in {"ts", "data", "info"}
  /\ \A j \in i .. i + m : s[j].u = s[i].u
  /\ s[i].c \in {"GD", "MD"} => m = 2 \/ ScanFrom(s, i + 2, m - 1)
  /\ i + m < Len(s) => s[i + m + 1].k = "echo"

\* The first n lines of s are what is left of one answer, perhaps damaged; the
\* others are whole answers.
Left(s, n) ==
  /\ n \in 0 .. Len(s)
  /\ n > 0 => s[n].k = "lf"
  /\ \A i, j \in 1 .. n : s[i].u = s[j].u
  /\ n < Len(s) => s[n + 1].k = "echo"
  /\ \A i \in n + 1 .. Len(s) : s[i].k = "echo" => \E m \in Nat : Whole(s, i, m)

\* An answer stays whole when it moves and others come after it.
LEMMA WholeMoves ==
  ASSUME NEW s \in Seq(Line), NEW t \in Seq(Line), NEW d \in Int,
         NEW i \in 1 .. Len(s), NEW m \in Nat, Whole(s, i, m),
         \A j \in i .. Len(s) : t[j + d] = s[j],
         Len(t) >= Len(s) + d, Len(t) > Len(s) + d => t[Len(s) + d + 1].k = "echo"
  PROVE  Whole(t, i + d, m)
<1>1. m >= 2 /\ i + m <= Len(s) /\ Len(s) \in Nat /\ Len(t) \in Nat
  BY DEF Whole
<1>2. ASSUME NEW j \in i .. i + m
      PROVE  t[j + d] = s[j]
  <2>1. j \in i .. Len(s)
    BY <1>1
  <2> QED BY <2>1
<1>3. i + d + m <= Len(t)
  BY <1>1
<1>4. t[i + d].k = "echo" /\ t[i + d + 1].k = "stat" /\ t[i + d + m].k = "lf"
  <2>0. i \in i .. i + m /\ i + 1 \in i .. i + m /\ i + m \in i .. i + m
    BY <1>1
  <2>1. t[i + d] = s[i] /\ t[(i + 1) + d] = s[i + 1] /\ t[(i + m) + d] = s[i + m]
    BY <1>2, <2>0
  <2>2. (i + 1) + d = i + d + 1 /\ (i + m) + d = i + d + m
    OBVIOUS
  <2> QED BY <2>1, <2>2 DEF Whole
<1>5. ASSUME NEW j \in i + d + 2 .. i + d + m - 1
      PROVE  t[j].k \in {"ts", "data", "info"}
  <2>1. j - d \in i + 2 .. i + m - 1 /\ j - d \in i .. i + m /\ (j - d) + d = j
    BY <1>1
  <2>2. t[j] = s[j - d]
    BY <1>2, <2>1
  <2> QED BY <2>1, <2>2 DEF Whole
<1>6. ASSUME NEW j \in i + d .. i + d + m
      PROVE  t[j].u = t[i + d].u
  <2>1. j - d \in i .. i + m /\ (j - d) + d = j /\ i \in i .. i + m
    BY <1>1
  <2>2. t[j] = s[j - d] /\ t[i + d] = s[i]
    BY <1>2, <2>1
  <2> QED BY <2>1, <2>2 DEF Whole
<1>7. ASSUME t[i + d].c \in {"GD", "MD"}, m # 2
      PROVE  ScanFrom(t, i + d + 2, m - 1)
  <2>1. i \in i .. i + m /\ t[i + d] = s[i]
    BY <1>1, <1>2
  <2>2. ScanFrom(s, i + 2, m - 1)
    BY <1>7, <2>1 DEF Whole
  <2>3. t[i + d + 2].k = "ts"
    <3>1. i + 2 \in i .. i + m /\ (i + 2) + d = i + d + 2
      BY <1>1
    <3>2. t[(i + 2) + d] = s[i + 2]
      BY <1>2, <3>1
    <3> QED BY <2>2, <3>1, <3>2 DEF ScanFrom
  <2>4. ASSUME NEW j \in i + d + 2 + 1 .. i + d + 2 + (m - 1) - 2
        PROVE  t[j].k = "data"
    <3>1. /\ j - d \in i + 2 + 1 .. i + 2 + (m - 1) - 2
          /\ j - d \in i .. i + m /\ (j - d) + d = j
      BY <1>1
    <3>2. t[j] = s[j - d]
      BY <1>2, <3>1
    <3> QED BY <2>2, <3>1, <3>2 DEF ScanFrom
  <2> QED BY <2>2, <2>3, <2>4 DEF ScanFrom
<1>8. ASSUME i + d + m < Len(t)
      PROVE  t[i + d + m + 1].k = "echo"
  <2>1. CASE i + m < Len(s)
    <3>1. i + m + 1 \in i .. Len(s) /\ (i + m + 1) + d = i + d + m + 1
      BY <1>1, <2>1
    <3>2. t[i + d + m + 1] = s[i + m + 1]
      BY <3>1
    <3> QED BY <2>1, <3>2 DEF Whole
  <2>2. CASE i + m = Len(s)
    <3>1. Len(t) > Len(s) + d /\ Len(s) + d + 1 = i + d + m + 1
      BY <1>1, <1>8, <2>2
    <3> QED BY <3>1
  <2> QED BY <1>1, <2>1, <2>2
<1> QED BY <1>1, <1>3, <1>4, <1>5, <1>6, <1>7, <1>8 DEF Whole

\* When nothing is left of an answer, the next one is.
LEMMA NextWhole ==
  ASSUME NEW s \in Seq(Line), s # <<>>, Left(s, 0)
  PROVE  \E m \in Nat : Whole(s, 1, m) /\ Left(s, m + 1)
<1>1. Len(s) \in Nat \ {0}
  OBVIOUS
<1>2. s[1].k = "echo" /\ 1 \in 0 + 1 .. Len(s)
  BY <1>1 DEF Left
<1>3. PICK m \in Nat : Whole(s, 1, m)
  BY <1>2 DEF Left
<1>4. m >= 2 /\ 1 + m <= Len(s)
  BY <1>3 DEF Whole
<1>5. ASSUME NEW i \in 1 .. m + 1, NEW j \in 1 .. m + 1
      PROVE  s[i].u = s[j].u
  BY <1>3, <1>4 DEF Whole
<1>6. s[m + 1].k = "lf" /\ (m + 1 < Len(s) => s[m + 1 + 1].k = "echo")
  <2>1. 1 + m = m + 1 /\ 1 + m + 1 = m + 1 + 1
    OBVIOUS
  <2> QED BY <1>3, <2>1 DEF Whole
<1>7. ASSUME NEW i \in m + 1 + 1 .. Len(s), s[i].k = "echo"
      PROVE  \E l \in Nat : Whole(s, i, l)
  <2>1. i \in 0 + 1 .. Len(s)
    BY <1>1, <1>4
  <2> QED BY <1>7, <2>1 DEF Left
<1>8. m + 1 \in 0 .. Len(s)
  BY <1>1, <1>4
<1>9. Left(s, m + 1)
  BY <1>5, <1>6, <1>7, <1>8 DEF Left
<1> QED BY <1>3, <1>9

\* The first line goes, and q lines of the same answer take its place.
LEMMA FirstGoes ==
  ASSUME NEW s \in Seq(Line), NEW n \in 1 .. Len(s), Left(s, n),
         NEW q \in Nat, q = 0 \/ n >= 2,
         NEW t \in Seq(Line), Len(t) = Len(s) + q - 1,
         \A j \in 1 .. q : t[j].u = s[1].u,
         \A j \in 2 .. Len(s) : t[j + (q - 1)] = s[j]
  PROVE  Left(t, n + (q - 1))
<1> DEFINE d == q - 1
<1>1. d \in Int /\ Len(s) \in Nat /\ Len(t) = Len(s) + d
  OBVIOUS
<1>2. n + d \in 0 .. Len(t)
  BY <1>1
<1>3. ASSUME n + d > 0
      PROVE  t[n + d].k = "lf"
  <2>1. n \in 2 .. Len(s)
    BY <1>1, <1>3
  <2> QED BY <2>1 DEF Left
<1>4. ASSUME NEW i \in 1 .. n + d
      PROVE  t[i].u = s[1].u
  <2>1. CASE i \in 1 .. q
    BY <2>1
  <2>2. CASE i \notin 1 .. q
    <3>1. i - d \in 2 .. Len(s) /\ i - d \in 1 .. n /\ 1 \in 1 .. n /\ (i - d) + d = i
      BY <2>2
    <3>2. t[i] = s[i - d]
      BY <3>1
    <3> QED BY <3>1, <3>2 DEF Left
  <2> QED BY <2>1, <2>2
<1>5. ASSUME n + d < Len(t)
      PROVE  t[n + d + 1].k = "echo"
  <2>1. n + 1 \in 2 .. Len(s) /\ (n + 1) + d = n + d + 1 /\ n < Len(s)
    BY <1>1, <1>5
  <2>2. t[n + d + 1] = s[n + 1]
    BY <2>1
  <2> QED BY <2>1, <2>2 DEF Left
<1>6. ASSUME NEW i \in n + d + 1 .. Len(t), t[i].k = "echo"
      PROVE  \E m \in Nat : Whole(t, i, m)
  <2>1. /\ i - d \in n + 1 .. Len(s) /\ i - d \in 2 .. Len(s) /\ (i - d) + d = i
        /\ i - d \in 1 .. Len(s)
    BY <1>1
  <2>2. t[i] = s[i - d]
    BY <2>1
  <2>3. PICK m \in Nat : Whole(s, i - d, m)
    BY <1>6, <2>1, <2>2 DEF Left
  <2>4. ASSUME NEW j \in i - d .. Len(s)
        PROVE  t[j + d] = s[j]
    <3>1. j \in 2 .. Len(s)
      BY <1>1, <2>1
    <3> QED BY <3>1
  <2>5. Whole(t, (i - d) + d, m)
    <3> HIDE DEF d
    <3>1. Len(t) >= Len(s) + d /\ ~(Len(t) > Len(s) + d)
      BY <1>1
    <3> QED BY ONLY <1>1, <2>1, <2>3, <2>4, <3>1, s \in Seq(Line), t \in Seq(Line), WholeMoves
  <2> QED BY <2>1, <2>5
<1>7. Left(t, n + d)
  <2> HIDE DEF d
  <2> QED BY <1>1, <1>2, <1>3, <1>4, <1>5, <1>6 DEF Left
<1> QED BY <1>7

\* A new answer comes after the others.
LEMMA AnswerAdded ==
  ASSUME NEW s \in Seq(Line), NEW n \in Nat, Left(s, n),
         NEW a \in Seq(Line), Len(a) >= 3, Whole(a, 1, Len(a) - 1)
  PROVE  Left(s \o a, n)
<1>1. PICK t \in Seq(Line) : t = s \o a
  BY ConcatProperties
<1>2. /\ Len(s) \in Nat /\ Len(a) \in Nat /\ Len(t) = Len(s) + Len(a)
      /\ n \in 0 .. Len(s)
  BY <1>1 DEF Left
<1>3. \A j \in 1 .. Len(s) : t[j] = s[j]
  BY <1>1
<1>4. \A j \in 1 .. Len(a) : t[j + Len(s)] = a[j]
  BY <1>1, <1>2
<1>5. t[Len(s) + 1].k = "echo"
  <2>1. 1 \in 1 .. Len(a) /\ 1 + Len(s) = Len(s) + 1
    BY <1>2
  <2> QED BY <1>4, <2>1 DEF Whole
<1>6. ASSUME NEW i \in n + 1 .. Len(t), t[i].k = "echo"
      PROVE  \E m \in Nat : Whole(t, i, m)
  <2>1. CASE i <= Len(s)
    <3>1. i \in n + 1 .. Len(s) /\ i \in 1 .. Len(s) /\ i + 0 = i
      BY <1>2, <2>1
    <3>2. PICK m \in Nat : Whole(s, i, m)
      BY <1>3, <1>6, <3>1 DEF Left
    <3>3. /\ \A j \in i .. Len(s) : t[j + 0] = s[j]
          /\ Len(t) >= Len(s) + 0 /\ Len(s) + 0 + 1 = Len(s) + 1
      BY <1>2, <1>3, <3>1
    <3>4. Whole(t, i + 0, m)
      <4>1. Len(t) > Len(s) + 0 => t[Len(s) + 0 + 1].k = "echo"
        BY <1>5, <3>3
      <4>2. 0 \in Int
        OBVIOUS
      <4> QED BY ONLY <3>1, <3>2, <3>3, <4>1, <4>2, s \in Seq(Line), t \in Seq(Line), WholeMoves
    <3> QED BY <3>1, <3>4
  <2>2. CASE i > Len(s)
    <3> DEFINE l == i - Len(s)
    <3>1. l \in 1 .. Len(a) /\ l + Len(s) = i
      BY <1>2, <2>2
    <3>2. a[l].k = "echo"
      BY <1>4, <1>6, <3>1
    <3>3. l = 1
      <4>1. a[2].k = "stat" /\ a[Len(a)].k = "lf"
        <5>1. 1 + 1 = 2 /\ 1 + (Len(a) - 1) = Len(a)
          BY <1>2
        <5> QED BY <5>1 DEF Whole
      <4>2. \A j \in 3 .. Len(a) - 1 : a[j].k # "echo"
        <5>1. 1 + 2 = 3 /\ 1 + (Len(a) - 1) - 1 = Len(a) - 1
          BY <1>2
        <5> QED BY <5>1 DEF Whole
      <4>3. l = 1 \/ l = 2 \/ l = Len(a) \/ l \in 3 .. Len(a) - 1
        <5> HIDE DEF l
        <5> QED BY <1>2, <3>1
      <4> QED BY <3>2, <4>1, <4>2, <4>3
    <3>4. /\ \A j \in 1 .. Len(a) : t[j + Len(s)] = a[j]
          /\ Len(t) >= Len(a) + Len(s) /\ ~(Len(t) > Len(a) + Len(s))
          /\ Len(a) - 1 \in Nat /\ 1 \in 1 .. Len(a) /\ Len(s) \in Int
      BY <1>2, <1>4
    <3>5. Whole(t, 1 + Len(s), Len(a) - 1)
      BY <3>4, WholeMoves
    <3>6. 1 + Len(s) = i
      BY <3>1, <3>3
    <3> QED BY <3>4, <3>5, <3>6
  <2> QED BY <1>2, <2>1, <2>2
<1>7. n < Len(t) => t[n + 1].k = "echo"
  <2>1. CASE n < Len(s)
    <3>1. n + 1 \in 1 .. Len(s)
      BY <1>2, <2>1
    <3> QED BY <1>3, <2>1, <3>1 DEF Left
  <2>2. CASE n = Len(s)
    BY <1>5, <2>2
  <2> QED BY <1>2, <2>1, <2>2
<1>8. n \in 0 .. Len(t)
  BY <1>2
<1>9. n > 0 => t[n].k = "lf"
  BY <1>2, <1>3 DEF Left
<1>10. \A i, j \in 1 .. n : t[i].u = t[j].u
  <2>1. \A i \in 1 .. n : i \in 1 .. Len(s)
    BY <1>2
  <2> QED BY <1>3, <2>1 DEF Left
<1>11. Left(t, n)
  BY <1>6, <1>7, <1>8, <1>9, <1>10 DEF Left
<1> QED BY <1>1, <1>11

\* What the sensor says is a whole answer.
Bodies == {<<>>, <<"ts">>, <<"info">>, ScanBody}

LEMMA BodiesAre ==
  ASSUME NEW body \in Bodies
  PROVE  /\ body \in Seq(Kind)
         /\ \A i \in 1 .. Len(body) : body[i] \in {"ts", "data", "info"}
         /\ Len(ScanBody) = DataLines + 1 /\ ScanBody[1] = "ts"
         /\ \A i \in 2 .. DataLines + 1 : ScanBody[i] = "data"
<1>0. [i \in 1 .. DataLines |-> "data"] \in Seq(Kind) /\ <<"ts">> \in Seq(Kind)
  <2>1. [i \in 1 .. DataLines |-> "data"] \in Seq(Kind)
    BY SensorAssumption DEF Kind
  <2>2. <<"ts">> \in Seq(Kind)
    BY DEF Kind
  <2> QED BY <2>1, <2>2
<1>1. PICK data \in Seq(Kind) : data = [i \in 1 .. DataLines |-> "data"]
  BY <1>0
<1>2. DataLines \in Nat /\ Len(data) = DataLines /\ \A i \in 1 .. DataLines : data[i] = "data"
  BY <1>1, SensorAssumption
<1>3. PICK stamp \in Seq(Kind) : stamp = <<"ts">>
  BY <1>0
<1>4. ScanBody = stamp \o data
  BY <1>1, <1>3 DEF ScanBody
<1>5. PICK scan \in Seq(Kind) : scan = stamp \o data
  BY ConcatProperties
<1>6. Len(scan) = DataLines + 1 /\ scan[1] = "ts"
  BY <1>2, <1>3, <1>5
<1>7. ASSUME NEW i \in 2 .. DataLines + 1
      PROVE  scan[i] = "data"
  <2>1. scan[i] = data[i - 1] /\ i - 1 \in 1 .. DataLines
    BY <1>2, <1>3, <1>5
  <2> QED BY <1>2, <2>1
<1>8. \A i \in 1 .. Len(scan) : scan[i] \in {"ts", "data", "info"}
  <2>1. \A i \in 1 .. Len(scan) : i = 1 \/ i \in 2 .. DataLines + 1
    BY <1>2, <1>6
  <2> QED BY <1>6, <1>7, <2>1
<1>9. CASE body = scan
  BY <1>4, <1>5, <1>6, <1>7, <1>8, <1>9
<1>10. CASE body = <<>>
  BY <1>4, <1>5, <1>6, <1>7, <1>10
<1>11. CASE body = <<"ts">>
  <2>1. body \in Seq(Kind) /\ \A i \in 1 .. Len(body) : body[i] \in {"ts", "data", "info"}
    BY <1>11 DEF Kind
  <2> QED BY <1>4, <1>5, <1>6, <1>7, <2>1
<1>12. CASE body = <<"info">>
  <2>1. body \in Seq(Kind) /\ \A i \in 1 .. Len(body) : body[i] \in {"ts", "data", "info"}
    BY <1>12 DEF Kind
  <2> QED BY <1>4, <1>5, <1>6, <1>7, <2>1
<1> QED BY <1>4, <1>5, <1>9, <1>10, <1>11, <1>12 DEF Bodies

LEMMA AnswerIsWhole ==
  ASSUME unit \in Nat, NEW cmd \in Command, NEW status \in Status, NEW body \in Bodies,
         cmd.c \in {"GD", "MD"} => body \in {<<>>, ScanBody},
         NEW a, a = Answer(cmd, status, body)
  PROVE  a \in Seq(Line) /\ Len(a) >= 3 /\ Whole(a, 1, Len(a) - 1)
<1>1. /\ body \in Seq(Kind) /\ Len(body) \in Nat
      /\ \A i \in 1 .. Len(body) : body[i] \in {"ts", "data", "info"}
  BY BodiesAre
<1>0. <<"echo", "stat">> \in Seq(Kind) /\ <<"lf">> \in Seq(Kind)
  BY DEF Kind
<1>2. PICK first \in Seq(Kind), last \in Seq(Kind) : first = <<"echo", "stat">> /\ last = <<"lf">>
  BY ONLY <1>0
<1>3. PICK most \in Seq(Kind) : most = first \o body
  BY <1>1, ConcatProperties
<1>4. PICK kinds \in Seq(Kind) : kinds = most \o last
  BY ConcatProperties
<1>5. /\ Len(most) = Len(body) + 2 /\ most[1] = "echo" /\ most[2] = "stat"
      /\ \A i \in 1 .. Len(body) : most[i + 2] = body[i]
  BY <1>1, <1>2, <1>3
<1>6. /\ Len(kinds) = Len(body) + 3 /\ kinds[Len(body) + 3] = "lf"
      /\ \A i \in 1 .. Len(body) + 2 : kinds[i] = most[i]
  BY <1>1, <1>2, <1>4, <1>5
<1>7. kinds[1] = "echo" /\ kinds[2] = "stat" /\ \A i \in 1 .. Len(body) : kinds[i + 2] = body[i]
  <2>1. 1 \in 1 .. Len(body) + 2 /\ 2 \in 1 .. Len(body) + 2
    BY <1>1
  <2>2. \A i \in 1 .. Len(body) : i + 2 \in 1 .. Len(body) + 2
    BY <1>1
  <2> QED BY <1>5, <1>6, <2>1, <2>2
<1>8. a \in Seq(Line)
  BY <1>1, AnswerTypes
<1>9. a = [i \in 1 .. Len(kinds) |->
             [k |-> kinds[i], c |-> cmd.c,
              s |-> IF kinds[i] = "stat" THEN status ELSE "-",
              call |-> cmd.call, u |-> unit, ok |-> TRUE]]
  BY <1>2, <1>3, <1>4 DEF Answer
<1>10. /\ Len(a) = Len(body) + 3
       /\ \A i \in 1 .. Len(body) + 3 : a[i].k = kinds[i] /\ a[i].u = unit /\ a[i].c = cmd.c
  BY <1>1, <1>6, <1>8, <1>9
<1>11. PICK m \in Nat : m = Len(body) + 2 /\ m = Len(a) - 1 /\ 1 + m = Len(a)
  BY <1>1, <1>10
<1>12. a[1].k = "echo" /\ a[1 + 1].k = "stat" /\ a[1 + m].k = "lf" /\ m >= 2
  <2>1. 1 \in 1 .. Len(body) + 3 /\ 1 + 1 \in 1 .. Len(body) + 3 /\ 1 + 1 = 2
        /\ 1 + m \in 1 .. Len(body) + 3 /\ 1 + m = Len(body) + 3 /\ m >= 2
    BY <1>1, <1>11
  <2>2. a[1].k = kinds[1] /\ a[1 + 1].k = kinds[1 + 1] /\ a[1 + m].k = kinds[1 + m]
    BY ONLY <1>10, <2>1
  <2> QED BY <1>6, <1>7, <2>1, <2>2
<1>13. ASSUME NEW j \in 1 + 2 .. 1 + m - 1
       PROVE  a[j].k \in {"ts", "data", "info"}
  <2>1. j - 2 \in 1 .. Len(body) /\ (j - 2) + 2 = j /\ j \in 1 .. Len(body) + 3
    BY <1>1, <1>11
  <2>2. kinds[j] = body[j - 2] /\ a[j].k = kinds[j]
    BY ONLY <1>7, <1>10, <2>1
  <2> QED BY <1>1, <2>1, <2>2
<1>14. ASSUME NEW j \in 1 .. 1 + m
       PROVE  a[j].u = a[1].u
  BY <1>1, <1>10, <1>11
<1>15. ASSUME a[1].c \in {"GD", "MD"}
       PROVE  m = 2 \/ ScanFrom(a, 1 + 2, m - 1)
  <2>1. body \in {<<>>, ScanBody}
    BY <1>1, <1>10, <1>15
  <2>2. CASE body = <<>>
    BY <1>11, <2>2
  <2>3. CASE body = ScanBody
    <3>1. /\ Len(body) = DataLines + 1 /\ DataLines \in Nat \ {0} /\ body[1] = "ts"
          /\ \A i \in 2 .. DataLines + 1 : body[i] = "data"
      BY <2>3, BodiesAre, SensorAssumption
    <3>2. a[1 + 2].k = "ts"
      <4>1. 1 \in 1 .. Len(body) /\ 1 + 2 \in 1 .. Len(body) + 3
        BY <3>1
      <4>2. kinds[1 + 2] = body[1] /\ a[1 + 2].k = kinds[1 + 2]
        BY ONLY <1>7, <1>10, <4>1
      <4> QED BY <3>1, <4>2
    <3>3. ASSUME NEW j \in 1 + 2 + 1 .. 1 + 2 + (m - 1) - 2
          PROVE  a[j].k = "data"
      <4>1. /\ j - 2 \in 1 .. Len(body) /\ j - 2 \in 2 .. DataLines + 1
            /\ (j - 2) + 2 = j /\ j \in 1 .. Len(body) + 3
        BY <1>11, <3>1
      <4>2. kinds[j] = body[j - 2] /\ a[j].k = kinds[j]
        BY ONLY <1>7, <1>10, <4>1
      <4> QED BY <3>1, <4>1, <4>2
    <3>4. m - 1 = DataLines + 2
      BY <1>11, <3>1
    <3> QED BY <3>2, <3>3, <3>4 DEF ScanFrom
  <2> QED BY <2>1, <2>2, <2>3
<1>16. 1 + m <= Len(a) /\ ~(1 + m < Len(a))
  BY <1>10, <1>11, <1>1
<1>17. Whole(a, 1, m)
  BY <1>12, <1>13, <1>14, <1>15, <1>16 DEF Whole
<1>18. Len(a) >= 3
  BY <1>1, <1>10
<1> QED BY <1>8, <1>11, <1>17, <1>18

-----------------------------------------------------------------------------
\* The lines left of the answer that is being read.
Lines(n) == {rx[j] : j \in 1 .. n}

\* No echo is left when nothing disturbed the line.
Intact(n) == noise = 0 => \A j \in 1 .. n : rx[j].k # "echo"

\* After the echo of a measuring command its answer follows.
InStatus(n) ==
  pc = "rd_status" /\ type = "distance" =>
    /\ Nothing(seen)
    /\ noise = 0 => /\ n >= 2 /\ rx[1].k = "stat"
                    /\ n = 2 \/ ScanFrom(rx, 2, n - 1)

InStamp(n) ==
  pc = "rd_ts" /\ type = "distance" =>
    /\ Nothing(seen)
    /\ noise = 0 => n >= 1 /\ (n = 1 \/ ScanFrom(rx, 1, n))

\* With what is still to come the scan is complete, so that one line more
\* would be too many.
Complete(n) ==
  \/ ScanFrom(rx, 1, n)
  \/ /\ n >= 1 /\ \A j \in 1 .. n - 1 : rx[j].k = "data"
     /\ steps + StepsPerLine * (n - 1) >= FullScan

\* To get from one scan into another it takes two lines lost, the end of one
\* answer and the echo of the next, and, where a full scan has all the steps
\* asked for, a third unless nothing of the first scan was accepted.
Full == StepsAsked = FullScan /\ steps >= FullScan

InData(n) ==
  pc = "rd_data" =>
    \/ noise > Tolerated
    \/ Full /\ OneScan(seen)
    \/ /\ OneScan(seen \cup Lines(n))
       /\ noise = 0 => Complete(n) \/ (Nothing(seen) /\ n <= 1)
       /\ noise = 1 /\ StepsAsked = FullScan => n >= 1 \/ Nothing(seen)

InCount == pc = "rd_count" /\ ret = "DATA" => noise > Tolerated \/ OneScan(seen)

Unmixed(n) ==
  /\ Left(rx, n) /\ Intact(n)
  /\ InStatus(n) /\ InStamp(n) /\ InData(n) /\ InCount

MixInv == \E n \in Nat : Unmixed(n)

\* What is left does not change while answers are added behind it.
LEMMA LeftStays ==
  ASSUME NEW n \in Nat, Unmixed(n), Left(rx, n)', UNCHANGED <<noise, pc, type, steps, seen, ret>>,
         \A j \in 1 .. n : rx'[j] = rx[j]
  PROVE  Unmixed(n)'
<1>1. Lines(n)' = Lines(n) /\ Intact(n)'
  BY DEF Lines, Intact, Unmixed
<1>2. ASSUME NEW i \in 1 .. 2, i <= n, ScanFrom(rx, i, n - i + 1)
      PROVE  ScanFrom(rx', i, n - i + 1)
  <2>1. \A j \in i + 1 .. i + (n - i + 1) - 2 : j \in 1 .. n
    OBVIOUS
  <2> QED BY <1>2, <2>1 DEF ScanFrom
<1>3. ScanFrom(rx, 1, n) => ScanFrom(rx', 1, n)
  <2>1. CASE n = 0
    BY <2>1, SensorAssumption DEF ScanFrom
  <2>2. CASE n # 0
    <3>1. 1 <= n /\ n - 1 + 1 = n /\ 1 \in 1 .. 2
      BY <2>2
    <3> QED BY <1>2, <3>1
  <2> QED BY <2>1, <2>2
<1>4. n >= 2 /\ ScanFrom(rx, 2, n - 1) => ScanFrom(rx', 2, n - 1)
  <2>1. n - 2 + 1 = n - 1 /\ 2 \in 1 .. 2
    OBVIOUS
  <2> QED BY <1>2, <2>1
<1>5. InStatus(n)'
  BY <1>4 DEF InStatus, Unmixed
<1>6. InStamp(n)'
  BY <1>3 DEF InStamp, Unmixed
<1>7. InData(n)'
  <2>1. Complete(n) => Complete(n)'
    BY <1>3 DEF Complete
  <2>2. UNCHANGED Full /\ UNCHANGED Tolerated
    BY DEF Full, Tolerated
  <2> QED BY <1>1, <2>1, <2>2 DEF InData, Unmixed
<1>8. InCount'
  BY DEF InCount, Unmixed
<1> QED BY <1>1, <1>5, <1>6, <1>7, <1>8 DEF Unmixed

\* One line is read: of the answer that is left, or of the next one.
LEMMA OneRead ==
  ASSUME TypeInv, NEW n \in Nat, Left(rx, n), Intact(n), UNCHANGED noise,
         rx # <<>>, rx' = Tail(rx)
  PROVE  \E c \in 1 .. Len(rx) :
           /\ Left(rx, c) /\ Left(rx', c - 1) /\ Intact(c - 1)'
           /\ c = n \/ (n = 0 /\ Whole(rx, 1, c - 1))
           /\ \A j \in 2 .. Len(rx) : rx'[j - 1] = rx[j]
<1>1. /\ rx \in Seq(Line) /\ rx' \in Seq(Line) /\ Len(rx) \in Nat /\ Len(rx) >= 1
      /\ Len(rx') = Len(rx) - 1 /\ \A j \in 2 .. Len(rx) : rx'[j - 1] = rx[j]
  BY Before
<1>2. PICK c \in 1 .. Len(rx) : /\ Left(rx, c)
                                /\ c = n \/ (n = 0 /\ Whole(rx, 1, c - 1))
  <2>1. CASE n = 0
    <3>1. PICK m \in Nat : Whole(rx, 1, m) /\ Left(rx, m + 1)
      BY <1>1, <2>1, NextWhole
    <3>2. m + 1 \in 1 .. Len(rx) /\ (m + 1) - 1 = m
      BY <3>1 DEF Left
    <3>3. Whole(rx, 1, (m + 1) - 1)
      BY <3>1, <3>2
    <3> QED BY <2>1, <3>1, <3>2, <3>3
  <2>2. CASE n # 0
    <3>1. n \in 1 .. Len(rx)
      BY <2>2 DEF Left
    <3> QED BY <3>1
  <2> QED BY <2>1, <2>2
<1>3. Left(rx', c - 1)
  <2>1. /\ Len(rx') = Len(rx) + 0 - 1 /\ 0 \in Nat
        /\ \A j \in 2 .. Len(rx) : rx'[j + (0 - 1)] = rx[j]
    <3>1. \A j \in 2 .. Len(rx) : j + (0 - 1) = j - 1
      OBVIOUS
    <3> QED BY <1>1, <3>1
  <2>2. Left(rx', c + (0 - 1))
    <3>1. c \in 1 .. Len(rx) /\ \A j \in 1 .. 0 : rx'[j].u = rx[1].u
      OBVIOUS
    <3>2. Left(rx, c)
      BY <1>2
    <3> QED BY ONLY <1>1, <2>1, <3>1, <3>2, FirstGoes
  <2>3. c + (0 - 1) = c - 1
    OBVIOUS
  <2> QED BY <2>2, <2>3
<1>4. Intact(c - 1)'
  <2> SUFFICES ASSUME noise = 0, NEW j \in 1 .. c - 1
               PROVE  rx'[j].k # "echo"
    BY DEF Intact
  <2>1. j + 1 \in 2 .. Len(rx) /\ (j + 1) - 1 = j
    BY <1>1
  <2>2. rx'[j] = rx[j + 1]
    BY <1>1, <2>1
  <2>3. CASE c = n
    BY <2>2, <2>3 DEF Intact
  <2>4. CASE Whole(rx, 1, c - 1)
    <3>1. j + 1 = 1 + 1 \/ j + 1 = 1 + (c - 1) \/ j + 1 \in 1 + 2 .. 1 + (c - 1) - 1
      OBVIOUS
    <3> QED BY <2>2, <2>4, <3>1 DEF Whole
  <2> QED BY <1>2, <2>3, <2>4
<1> QED BY <1>1, <1>2, <1>3, <1>4

\* Such a line and those left behind it are of one unit.
LEMMA FirstOfUnit ==
  ASSUME NEW c \in 1 .. Len(rx), Len(rx) \in Nat, Left(rx, c),
         \A j \in 2 .. Len(rx) : rx'[j - 1] = rx[j]
  PROVE  /\ \A line \in Lines(c - 1)' : line \in Lines(c)
         /\ rx[1] \in Lines(c)
         /\ \A a, b \in Lines(c) : a.u = b.u
<1>1. ASSUME NEW line \in Lines(c - 1)'
      PROVE  line \in Lines(c)
  <2>1. PICK j \in 1 .. c - 1 : line = rx'[j]
    BY DEF Lines
  <2>2. j + 1 \in 2 .. Len(rx) /\ j + 1 \in 1 .. c /\ (j + 1) - 1 = j
    OBVIOUS
  <2>3. line = rx[j + 1]
    BY <2>1, <2>2
  <2> QED BY <2>2, <2>3 DEF Lines
<1>2. rx[1] \in Lines(c)
  BY DEF Lines
<1>3. \A a, b \in Lines(c) : a.u = b.u
  BY DEF Lines, Left
<1> QED BY <1>1, <1>2, <1>3

\* Wherever the thread reads no scan.
LEMMA AwayStep ==
  ASSUME TypeInv, MixInv, UNCHANGED noise,
         \/ pc' \notin {"rd_status", "rd_ts", "rd_data", "rd_count"}
         \/ pc' = "rd_count" /\ ret' # "DATA",
         \/ rx' = rx
         \/ rx' = <<>>
         \/ rx # <<>> /\ rx' = Tail(rx)
  PROVE  MixInv'
<1>1. PICK n \in Nat : Unmixed(n)
  BY DEF MixInv
<1>2. ASSUME NEW m \in Nat, Left(rx', m), Intact(m)'
      PROVE  MixInv'
  <2>1. Unmixed(m)'
    BY <1>2 DEF Unmixed, InStatus, InStamp, InData, InCount
  <2> QED BY <2>1 DEF MixInv
<1>3. CASE rx' = rx
  BY <1>1, <1>2, <1>3 DEF Unmixed, Intact
<1>4. CASE rx' = <<>>
  <2>1. Left(rx', 0) /\ Intact(0)'
    BY <1>4 DEF Left, Intact
  <2> QED BY <1>2, <2>1
<1>5. CASE rx # <<>> /\ rx' = Tail(rx)
  <2>1. Left(rx, n) /\ Intact(n)
    BY <1>1 DEF Unmixed
  <2>2. PICK c \in 1 .. Len(rx) : Left(rx', c - 1) /\ Intact(c - 1)'
    BY <1>5, <2>1, OneRead
  <2>3. c - 1 \in Nat
    BY Before
  <2> QED BY <1>2, <2>2, <2>3
<1> QED BY <1>3, <1>4, <1>5

\* What a read leaves, and what it returns.
LEMMA ReadLeaves ==
  ASSUME TypeInv, NEW line \in Arrivals, Consume(line)
  PROVE  /\ rx' = rx \/ (rx # <<>> /\ rx' = Tail(rx))
         /\ line = NoLine => rx' = rx /\ Length(line) = -1
         /\ line # NoLine => /\ rx # <<>> /\ rx' = Tail(rx) /\ line = rx[1] /\ line \in Line
                             /\ Length(line) >= 0
         /\ Length(line) \in Int
<1>1. CASE line = NoLine
  BY <1>1 DEF Consume, NoLine, Length
<1>2. CASE line # NoLine
  <2>1. rx \in Seq(Line) /\ rx # <<>> /\ line = Head(rx) /\ rx' = Tail(rx)
    BY <1>2, Before DEF Arrivals, Consume
  <2>2. line = rx[1] /\ line \in Line
    BY <2>1
  <2>3. line.k \in Kind
    BY <2>2 DEF Line
  <2>4. Length(line) >= 0 /\ Length(line) \in Int
    BY <2>3 DEF Length, Kind
  <2> QED BY <1>2, <2>1, <2>2, <2>4
<1> QED BY <1>1, <1>2

\* The remains of a scan move up with the line that is read.
LEMMA ScanMoves ==
  ASSUME NEW i \in Nat \ {0}, NEW l \in Nat, i + l <= Len(rx), Len(rx) \in Nat,
         \A j \in 2 .. Len(rx) : rx'[j - 1] = rx[j], ScanFrom(rx, i + 1, l)
  PROVE  ScanFrom(rx', i, l)
<1>1. DataLines \in Nat /\ l = DataLines + 2
  BY SensorAssumption DEF ScanFrom
<1>2. rx'[i].k = "ts"
  <2>1. i + 1 \in 2 .. Len(rx) /\ (i + 1) - 1 = i
    BY <1>1
  <2>2. rx'[i] = rx[i + 1]
    BY <2>1
  <2> QED BY <2>2 DEF ScanFrom
<1>3. ASSUME NEW j \in i + 1 .. i + l - 2
      PROVE  rx'[j].k = "data"
  <2>1. j + 1 \in 2 .. Len(rx) /\ (j + 1) - 1 = j /\ j + 1 \in i + 1 + 1 .. i + 1 + l - 2
    BY <1>1
  <2>2. rx'[j] = rx[j + 1]
    BY <2>1
  <2> QED BY <2>1, <2>2 DEF ScanFrom
<1> QED BY <1>1, <1>2, <1>3 DEF ScanFrom

LEMMA EchoStep ==
  ASSUME TypeInv, MixInv, ReceiveEcho
  PROVE  MixInv'
<1>1. PICK line \in Arrivals :
        /\ Consume(line)
        /\ \/ Length(line) <= 0 /\ ReceiveFails("NO_RESPONSE")
           \/ /\ Length(line) > 0
              /\ pc' = "rd_status" /\ type' = EchoType(line) /\ seen' = {line}
  BY DEF ReceiveEcho
<1>2. UNCHANGED noise
  BY DEF ReceiveEcho
<1>3. CASE ReceiveFails("NO_RESPONSE")
  <2>1. pc' = "rd_done"
    BY <1>3 DEF ReceiveFails
  <2> QED BY <1>1, <1>2, <2>1, AwayStep, ReadLeaves
<1>4. CASE /\ Length(line) > 0
           /\ pc' = "rd_status" /\ type' = EchoType(line) /\ seen' = {line}
  <2>1. line # NoLine /\ rx # <<>> /\ rx' = Tail(rx) /\ line = rx[1]
    BY <1>1, <1>4, ReadLeaves
  <2>2. PICK n \in Nat : Unmixed(n)
    BY DEF MixInv
  <2>3. PICK c \in 1 .. Len(rx) :
           /\ Left(rx, c) /\ Left(rx', c - 1) /\ Intact(c - 1)'
           /\ c = n \/ (n = 0 /\ Whole(rx, 1, c - 1))
           /\ \A j \in 2 .. Len(rx) : rx'[j - 1] = rx[j]
    BY <1>2, <2>1, <2>2, OneRead DEF Unmixed
  <2>4. InStatus(c - 1)'
    <3> SUFFICES ASSUME type' = "distance"
                 PROVE  /\ Nothing(seen')
                        /\ noise = 0 => /\ c - 1 >= 2 /\ rx'[1].k = "stat"
                                        /\ c - 1 = 2 \/ ScanFrom(rx', 2, c - 1 - 1)
      BY <1>2 DEF InStatus
    <3>1. line.k = "echo" /\ line.c \in {"GD", "MD"}
      BY <1>4 DEF EchoType
    <3>2. Nothing(seen')
      BY <1>4, <3>1 DEF Nothing, Measured
    <3>3. ASSUME noise = 0
          PROVE  /\ c - 1 >= 2 /\ rx'[1].k = "stat"
                 /\ c - 1 = 2 \/ ScanFrom(rx', 2, c - 1 - 1)
      <4>1. c # n \/ n = 0
        <5>1. n >= 1 => rx[1].k # "echo"
          BY <2>2, <3>3 DEF Unmixed, Intact
        <5> QED BY <2>1, <3>1, <5>1
      <4>2. Whole(rx, 1, c - 1)
        BY <2>3, <4>1
      <4>3. c - 1 >= 2 /\ Len(rx) \in Nat /\ 2 \in 2 .. Len(rx) /\ 2 - 1 = 1 /\ 1 + 1 = 2
        BY Before, <2>3, <4>2 DEF Whole
      <4>4. rx'[1].k = "stat"
        BY <2>3, <4>2, <4>3 DEF Whole
      <4>5. c - 1 = 2 \/ ScanFrom(rx, 1 + 2, c - 1 - 1)
        BY <2>1, <3>1, <4>2 DEF Whole
      <4>6. CASE ScanFrom(rx, 1 + 2, c - 1 - 1)
        <5>1. c - 1 - 1 \in Nat /\ 2 + (c - 1 - 1) <= Len(rx) /\ 1 + 2 = 2 + 1
          BY <4>3
        <5> QED BY <2>3, <4>3, <4>4, <4>6, <5>1, ScanMoves
      <4> QED BY <4>3, <4>4, <4>5, <4>6
    <3> QED BY <3>2, <3>3
  <2>5. Unmixed(c - 1)'
    BY <1>4, <2>3, <2>4 DEF Unmixed, InStamp, InData, InCount
  <2>6. c - 1 \in Nat
    BY Before
  <2> QED BY <2>5, <2>6 DEF MixInv
<1> QED BY <1>1, <1>3, <1>4

\* A drain is no place where a scan is read, and reports an error.
LEMMA DrainStep ==
  ASSUME TypeInv, MixInv, UNCHANGED noise, NEW line \in Arrivals, Consume(line),
         NEW e \in ErrorNumber, NEW where \in {"rd_done", "rd_count"}, DrainWithQT(e, where)
  PROVE  MixInv'
<1>1. ret' = e /\ pc' \in {"drain", where}
  BY DEF DrainWithQT
<1>2. ret' # "DATA"
  BY <1>1 DEF ErrorNumber, Error
<1> QED BY <1>1, <1>2, AwayStep, ReadLeaves

LEMMA StatusStep ==
  ASSUME TypeInv, MixInv, ReceiveStatus
  PROVE  MixInv'
<1>1. PICK line \in Arrivals :
        /\ Consume(line)
        /\ \/ \E e \in {"INVALID_RESPONSE", "CHECKSUM_ERROR"} : DrainWithQT(e, "rd_done")
           \/ \E p \in {"rd_stop_end", "rd_ack_end"} : ReceiveGoesOn(p, line)
           \/ Length(line) = 3 /\ ReceiveGoesOn("rd_ts", line)
  BY DEF ReceiveStatus
<1>2. UNCHANGED <<noise, type>> /\ pc = "rd_status"
  BY DEF ReceiveStatus, localVars
<1>3. CASE \E e \in {"INVALID_RESPONSE", "CHECKSUM_ERROR"} : DrainWithQT(e, "rd_done")
  <2>1. {"INVALID_RESPONSE", "CHECKSUM_ERROR"} \subseteq ErrorNumber
    BY Names
  <2> QED BY <1>1, <1>2, <1>3, <2>1, DrainStep
<1>4. CASE \E p \in {"rd_stop_end", "rd_ack_end"} : ReceiveGoesOn(p, line)
  <2>1. pc' \in {"rd_stop_end", "rd_ack_end"}
    BY <1>4 DEF ReceiveGoesOn
  <2> QED BY <1>1, <1>2, <2>1, AwayStep, ReadLeaves
<1>5. CASE Length(line) = 3 /\ ReceiveGoesOn("rd_ts", line)
  <2>1. line # NoLine /\ rx # <<>> /\ rx' = Tail(rx) /\ line = rx[1]
    BY <1>1, <1>5, ReadLeaves
  <2>2. PICK n \in Nat : Unmixed(n)
    BY DEF MixInv
  <2>3. PICK c \in 1 .. Len(rx) :
           /\ Left(rx, c) /\ Left(rx', c - 1) /\ Intact(c - 1)'
           /\ c = n \/ (n = 0 /\ Whole(rx, 1, c - 1))
           /\ \A j \in 2 .. Len(rx) : rx'[j - 1] = rx[j]
    BY <1>2, <2>1, <2>2, OneRead DEF Unmixed
  <2>4. pc' = "rd_ts" /\ seen' = seen \cup {line} /\ ~Measured(line)
    BY <1>5 DEF ReceiveGoesOn, Length, Measured
  <2>5. ASSUME type = "distance"
        PROVE  /\ Nothing(seen')
               /\ noise = 0 => c - 1 >= 1 /\ (c - 1 = 1 \/ ScanFrom(rx', 1, c - 1))
    <3>1. /\ Nothing(seen)
          /\ noise = 0 => n >= 2 /\ (n = 2 \/ ScanFrom(rx, 2, n - 1))
      BY <1>2, <2>2, <2>5 DEF Unmixed, InStatus
    <3>2. Nothing(seen')
      BY <2>4, <3>1 DEF Nothing
    <3>3. ASSUME noise = 0
          PROVE  c - 1 >= 1 /\ (c - 1 = 1 \/ ScanFrom(rx', 1, c - 1))
      <4>1. c = n /\ Len(rx) \in Nat /\ n - 1 \in Nat /\ 1 + (n - 1) <= Len(rx) /\ 1 + 1 = 2
        BY <2>3, <3>1, <3>3, Before
      <4>2. CASE ScanFrom(rx, 2, n - 1)
        <5>1. ScanFrom(rx', 1, n - 1)
          BY <2>3, <4>1, <4>2, ScanMoves
        <5> QED BY <3>1, <3>3, <4>1, <5>1
      <4> QED BY <3>1, <3>3, <4>1, <4>2
    <3> QED BY <3>2, <3>3
  <2>6. InStamp(c - 1)'
    BY <1>2, <2>5 DEF InStamp
  <2>7. Unmixed(c - 1)'
    BY <2>3, <2>4, <2>6 DEF Unmixed, InStatus, InData, InCount
  <2>8. c - 1 \in Nat
    BY Before
  <2> QED BY <2>7, <2>8 DEF MixInv
<1> QED BY <1>1, <1>3, <1>4, <1>5

LEMMA StampStep ==
  ASSUME TypeInv, MixInv, ReceiveTimestamp
  PROVE  MixInv'
<1>1. PICK line \in Arrivals :
        /\ Consume(line)
        /\ seen' = IF Length(line) > 0 THEN seen \cup {line} ELSE seen
  BY DEF ReceiveTimestamp
<1>2. /\ pc = "rd_ts" /\ UNCHANGED <<noise, type>> /\ ret' = "OK" /\ steps' = 0
      /\ pc' = IF type = "distance" THEN "rd_data" ELSE "rd_count"
  BY DEF ReceiveTimestamp
<1>3. CASE type # "distance"
  BY <1>1, <1>2, <1>3, AwayStep, ReadLeaves
<1>4. CASE type = "distance"
  <2>1. PICK n \in Nat : Unmixed(n)
    BY DEF MixInv
  <2>2. /\ Nothing(seen)
        /\ noise = 0 => n >= 1 /\ (n = 1 \/ ScanFrom(rx, 1, n))
    BY <1>2, <1>4, <2>1 DEF Unmixed, InStamp
  <2>3. ASSUME NEW m \in Nat, Left(rx', m), Intact(m)', OneScan(seen' \cup Lines(m)'),
               noise = 0 => Complete(m)' \/ (Nothing(seen') /\ m <= 1),
               noise = 1 => m >= 1 \/ Nothing(seen')
        PROVE  MixInv'
    <3>1. InData(m)'
      BY <1>2, <2>3 DEF InData
    <3>2. Unmixed(m)'
      BY <1>2, <1>4, <2>3, <3>1 DEF Unmixed, InStatus, InStamp, InCount
    <3> QED BY <3>2 DEF MixInv
  <2>4. DataLines \in Nat \ {0} /\ Len(rx) \in Nat /\ steps' = 0
    BY <1>2, Before, SensorAssumption
  <2>5. CASE line = NoLine
    <3>1. rx' = rx /\ seen' = seen
      BY <1>1, <2>5, ReadLeaves
    <3>2. Left(rx', n) /\ Intact(n)' /\ Lines(n)' = Lines(n)
      BY <1>2, <2>1, <3>1 DEF Unmixed, Intact, Lines
    <3>3. OneScan(seen' \cup Lines(n)')
      <4>1. \A a, b \in Lines(n) : a.u = b.u
        BY <2>1 DEF Unmixed, Left, Lines
      <4> QED BY <2>2, <3>1, <3>2, <4>1 DEF OneScan, Nothing
    <3>4. ScanFrom(rx, 1, n) => Complete(n)'
      BY <3>1 DEF Complete
    <3> QED BY <2>2, <2>3, <3>1, <3>2, <3>3, <3>4
  <2>6. CASE line # NoLine
    <3>1. rx # <<>> /\ rx' = Tail(rx) /\ line = rx[1]
      BY <1>1, <2>6, ReadLeaves
    <3>2. PICK c \in 1 .. Len(rx) :
             /\ Left(rx, c) /\ Left(rx', c - 1) /\ Intact(c - 1)'
             /\ c = n \/ (n = 0 /\ Whole(rx, 1, c - 1))
             /\ \A j \in 2 .. Len(rx) : rx'[j - 1] = rx[j]
      BY <1>2, <2>1, <3>1, OneRead DEF Unmixed
    <3>3. c - 1 \in Nat
      BY <2>4
    <3>4. OneScan(seen' \cup Lines(c - 1)')
      <4>1. /\ \A l \in Lines(c - 1)' : l \in Lines(c)
            /\ line \in Lines(c) /\ \A a, b \in Lines(c) : a.u = b.u
        BY <2>4, <3>1, <3>2, FirstOfUnit
      <4> QED BY <1>1, <2>2, <4>1 DEF OneScan, Nothing
    <3>5. c = 1 => Nothing(seen')
      <4> SUFFICES ASSUME c = 1 PROVE Nothing(seen')
        OBVIOUS
      <4>1. line.k = "lf"
        BY <3>1, <3>2 DEF Left
      <4>2. Length(line) = 0
        BY <4>1 DEF Length
      <4> QED BY <1>1, <2>2, <4>2
    <3>6. ASSUME noise = 0
          PROVE  Complete(c - 1)' \/ (Nothing(seen') /\ c - 1 <= 1)
      <4>1. c = n /\ (n = 1 \/ ScanFrom(rx, 1, n))
        BY <2>2, <3>2, <3>6
      <4>2. CASE n = 1
        BY <3>5, <4>1, <4>2
      <4>3. CASE ScanFrom(rx, 1, n)
        <5>1. n = DataLines + 2 /\ \A j \in 2 .. n - 1 : rx[j].k = "data"
          <6>1. 1 + 1 = 2 /\ 1 + n - 2 = n - 1
            BY <2>1
          <6> QED BY <4>3, <6>1 DEF ScanFrom
        <5>2. ASSUME NEW j \in 1 .. c - 1 - 1
              PROVE  rx'[j].k = "data"
          <6>1. j + 1 \in 2 .. n - 1 /\ j + 1 \in 2 .. Len(rx) /\ (j + 1) - 1 = j
            BY <2>4, <4>1, <5>1
          <6>2. rx'[j] = rx[j + 1]
            BY <3>2, <6>1
          <6> QED BY <5>1, <6>1, <6>2
        <5>3. c - 1 >= 1 /\ c - 1 - 1 = DataLines
          BY <2>4, <4>1, <5>1
        <5>4. steps' + StepsPerLine * (c - 1 - 1) >= FullScan
          BY <2>4, <5>3 DEF StepsPerLine, FullScan
        <5> QED BY <5>2, <5>3, <5>4 DEF Complete
      <4> QED BY <4>1, <4>2, <4>3
    <3>7. c - 1 >= 1 \/ Nothing(seen')
      BY <2>4, <3>5
    <3> QED BY <2>3, <3>2, <3>3, <3>4, <3>6, <3>7
  <2> QED BY <2>5, <2>6
<1> QED BY <1>3, <1>4

LEMMA DataStep ==
  ASSUME TypeInv, MixInv, ReceiveLengthData
  PROVE  MixInv'
<1>1. PICK line \in Arrivals :
        /\ Consume(line)
        /\ \/ \E e \in {"RECEIVE_ERROR", "CHECKSUM_ERROR"} : DrainWithQT(e, "rd_count")
           \/ /\ Length(line) > 0 /\ ChecksumFits(line) /\ ~TooManySteps(line)
              /\ steps' = steps + StepsIn(line) /\ ReceiveGoesOn("rd_data", line)
           \/ pc' = "rd_count" /\ UNCHANGED seen
  BY DEF ReceiveLengthData
<1>2. pc = "rd_data" /\ UNCHANGED <<noise, type>>
  BY DEF ReceiveLengthData
<1>3. CASE \E e \in {"RECEIVE_ERROR", "CHECKSUM_ERROR"} : DrainWithQT(e, "rd_count")
  <2>1. {"RECEIVE_ERROR", "CHECKSUM_ERROR"} \subseteq ErrorNumber
    BY Names
  <2> QED BY <1>1, <1>2, <1>3, <2>1, DrainStep
<1>4. PICK n \in Nat : Unmixed(n)
  BY DEF MixInv
<1>5. \/ noise > Tolerated
      \/ Full /\ OneScan(seen)
      \/ /\ OneScan(seen \cup Lines(n))
         /\ noise = 0 => Complete(n) \/ (Nothing(seen) /\ n <= 1)
  BY <1>2, <1>4 DEF Unmixed, InData
<1>6. CASE pc' = "rd_count" /\ UNCHANGED seen
  <2>1. noise > Tolerated \/ OneScan(seen)
    BY <1>5 DEF OneScan
  <2>2. ASSUME NEW m \in Nat, Left(rx', m), Intact(m)'
        PROVE  MixInv'
    <3>1. Unmixed(m)'
      BY <1>2, <1>6, <2>1, <2>2 DEF Unmixed, InStatus, InStamp, InData, InCount
    <3> QED BY <3>1 DEF MixInv
  <2>3. CASE rx' = rx
    BY <1>2, <1>4, <2>2, <2>3 DEF Unmixed, Intact
  <2>4. CASE rx # <<>> /\ rx' = Tail(rx)
    <3>1. PICK c \in 1 .. Len(rx) : Left(rx', c - 1) /\ Intact(c - 1)'
      BY <1>2, <1>4, <2>4, OneRead DEF Unmixed
    <3>2. c - 1 \in Nat
      BY Before
    <3> QED BY <2>2, <3>1, <3>2
  <2> QED BY <1>1, <2>3, <2>4, ReadLeaves
<1>7. CASE /\ Length(line) > 0 /\ ChecksumFits(line) /\ ~TooManySteps(line)
           /\ steps' = steps + StepsIn(line) /\ ReceiveGoesOn("rd_data", line)
  <2>1. line # NoLine /\ rx # <<>> /\ rx' = Tail(rx) /\ line = rx[1]
    BY <1>1, <1>7, ReadLeaves
  <2>2. PICK c \in 1 .. Len(rx) :
           /\ Left(rx, c) /\ Left(rx', c - 1) /\ Intact(c - 1)'
           /\ c = n \/ (n = 0 /\ Whole(rx, 1, c - 1))
           /\ \A j \in 2 .. Len(rx) : rx'[j - 1] = rx[j]
    BY <1>2, <1>4, <2>1, OneRead DEF Unmixed
  <2>3. c - 1 \in Nat /\ Len(rx) \in Nat /\ steps \in Nat /\ DataLines \in Nat \ {0}
    BY Before, SensorAssumption
  <2>4. pc' = "rd_data" /\ seen' = seen \cup {line}
    BY <1>7 DEF ReceiveGoesOn
  <2>5. ASSUME InData(c - 1)'
        PROVE  MixInv'
    <3>1. Unmixed(c - 1)'
      BY <2>2, <2>4, <2>5 DEF Unmixed, InStatus, InStamp, InCount
    <3> QED BY <2>3, <3>1 DEF MixInv
  <2>6. /\ StepsIn(line) \in Nat
        /\ Measured(line) => StepsIn(line) >= 1
        /\ line.k = "ts" => StepsIn(line) = 1
        /\ line.k = "data" => StepsIn(line) = StepsPerLine
    BY DEF StepsIn, StepsPerLine, Measured
  <2>7. /\ steps' = steps + StepsIn(line) /\ FullScan \in Nat
        /\ StepsAsked = FullScan => steps + StepsIn(line) <= FullScan
    BY <1>7, <2>3, <2>6 DEF TooManySteps, FullScan, StepsPerLine
  <2>8. CASE noise > Tolerated
    BY <1>2, <2>5, <2>8 DEF InData, Tolerated
  <2>9. CASE Full /\ OneScan(seen)
    <3>1. ~Measured(line)
      BY <2>3, <2>6, <2>7, <2>9 DEF Full
    <3>2. Full'
      BY <2>3, <2>6, <2>7, <2>9 DEF Full
    <3>3. OneScan(seen')
      BY <2>4, <2>9, <3>1 DEF OneScan
    <3> QED BY <2>5, <3>2, <3>3 DEF InData
  <2>10. CASE /\ OneScan(seen \cup Lines(n))
              /\ noise = 0 => Complete(n) \/ (Nothing(seen) /\ n <= 1)
    <3>1. line.k # "lf" /\ line.k # "echo"
      BY <1>7 DEF Length, ChecksumFits
    <3>2. c = n
      BY <2>1, <2>2, <3>1 DEF Whole
    <3>3. n >= 2
      <4>1. n = 1 => rx[1].k = "lf"
        BY <2>2, <3>2 DEF Left
      <4> QED BY <2>1, <2>2, <3>1, <3>2, <4>1
    <3>4. OneScan(seen' \cup Lines(c - 1)')
      <4>1. (\A l \in Lines(c - 1)' : l \in Lines(n)) /\ line \in Lines(n)
        BY <2>1, <2>2, <2>3, <3>2, FirstOfUnit
      <4> QED BY <2>4, <2>10, <4>1 DEF OneScan
    <3>5. ASSUME noise = 0
          PROVE  Complete(c - 1)'
      <4>1. Complete(n)
        BY <1>4, <2>10, <3>3, <3>5
      <4>2. \A j \in 2 .. n - 1 : rx[j].k = "data"
        <5>1. 1 + 1 = 2 /\ 1 + n - 2 = n - 1 /\ \A j \in 2 .. n - 1 : j \in 1 .. n - 1
          BY <1>4
        <5> QED BY <4>1, <5>1 DEF Complete, ScanFrom
      <4>3. ASSUME NEW j \in 1 .. c - 1 - 1
            PROVE  rx'[j].k = "data"
        <5>1. j + 1 \in 2 .. n - 1 /\ j + 1 \in 2 .. Len(rx) /\ (j + 1) - 1 = j
          BY <2>3, <3>2
        <5>2. rx'[j] = rx[j + 1]
          BY <2>2, <5>1
        <5> QED BY <4>2, <5>1, <5>2
      <4>4. steps' + StepsPerLine * (c - 1 - 1) >= FullScan
        <5>1. CASE ScanFrom(rx, 1, n)
          <6>1. line.k = "ts" /\ n = DataLines + 2
            BY <2>1, <5>1 DEF ScanFrom
          <6>2. steps' = steps + 1 /\ c - 1 - 1 = DataLines
            BY <2>3, <2>6, <2>7, <3>2, <6>1
          <6> QED BY <2>3, <6>2 DEF StepsPerLine, FullScan
        <5>2. CASE /\ \A j \in 1 .. n - 1 : rx[j].k = "data"
                   /\ steps + StepsPerLine * (n - 1) >= FullScan
          <6>1. 1 \in 1 .. n - 1
            BY <1>4, <3>3
          <6>2. line.k = "data"
            BY <2>1, <5>2, <6>1
          <6>3. steps' = steps + StepsPerLine
            BY <2>6, <2>7, <6>2
          <6> QED BY <2>3, <1>4, <3>2, <5>2, <6>3 DEF StepsPerLine
        <5> QED BY <4>1, <5>1, <5>2 DEF Complete
      <4>5. c - 1 >= 1
        BY <2>3, <3>2, <3>3
      <4> QED BY <4>3, <4>4, <4>5 DEF Complete
    <3>6. c - 1 >= 1
      BY <2>3, <3>2, <3>3
    <3>7. InData(c - 1)'
      BY <1>2, <3>4, <3>5, <3>6 DEF InData
    <3> QED BY <2>5, <3>7
  <2> QED BY <1>5, <2>8, <2>9, <2>10
<1> QED BY <1>1, <1>3, <1>6, <1>7

\* Lines put in front of all but the first.
LEMMA PutInFront ==
  ASSUME NEW p \in Seq(Line), NEW s \in Seq(Line), s # <<>>, NEW t, t = p \o Tail(s)
  PROVE  /\ t \in Seq(Line) /\ Len(t) = Len(s) + Len(p) - 1
         /\ \A j \in 1 .. Len(p) : t[j] = p[j]
         /\ \A j \in 2 .. Len(s) : t[j + (Len(p) - 1)] = s[j]
<1>0. Tail(s) \in Seq(Line)
  OBVIOUS
<1>1. PICK most \in Seq(Line) : most = Tail(s)
  BY <1>0
<1>2. /\ Len(most) = Len(s) - 1 /\ Len(s) \in Nat /\ Len(p) \in Nat /\ Len(s) >= 1
      /\ \A j \in 1 .. Len(s) - 1 : most[j] = s[j + 1]
  BY <1>1
<1>3. t = p \o most /\ t \in Seq(Line)
  BY <1>1, ConcatProperties
<1>4. /\ Len(t) = Len(p) + Len(most)
      /\ \A j \in 1 .. Len(p) : t[j] = p[j]
      /\ \A j \in 1 .. Len(most) : t[j + Len(p)] = most[j]
  BY <1>2, <1>3
<1>5. ASSUME NEW j \in 2 .. Len(s)
      PROVE  t[j + (Len(p) - 1)] = s[j]
  <2>1. j - 1 \in 1 .. Len(most) /\ (j - 1) + Len(p) = j + (Len(p) - 1) /\ (j - 1) + 1 = j
    BY <1>2
  <2>2. t[(j - 1) + Len(p)] = most[j - 1] /\ most[j - 1] = s[(j - 1) + 1]
    BY <1>2, <1>4, <2>1
  <2> QED BY <2>1, <2>2
<1> QED BY <1>2, <1>3, <1>4, <1>5

\* What the line does to its first line: q lines like it take its place.
LEMMA NoiseShape ==
  ASSUME rx \in Seq(Line), LoseLine \/ DamageLine \/ StallLine
  PROVE  /\ rx # <<>> /\ rx' \in Seq(Line) /\ noise' = noise + 1
         /\ \E q \in Nat :
              /\ Len(rx') = Len(rx) + q - 1
              /\ \A j \in 1 .. q : /\ rx'[j].u = rx[1].u
                                   /\ Measured(rx'[j]) => Measured(rx[1])
              /\ \A j \in 2 .. Len(rx) : rx'[j + (q - 1)] = rx[j]
              /\ q = 0 \/ rx[1].k # "lf"
<1>1. rx # <<>> /\ noise' = noise + 1
  BY DEF LoseLine, DamageLine, StallLine
<1>2. PICK first \in Line : first = Head(rx) /\ first = rx[1]
  BY <1>1
<1>3. PICK damaged \in Line : /\ damaged = [Head(rx) EXCEPT !.ok = FALSE]
                              /\ damaged.u = first.u /\ damaged.k = first.k
  <2> DEFINE l == [first EXCEPT !.ok = FALSE]
  <2>1. l \in Line /\ l.u = first.u /\ l.k = first.k
    BY DEF Line
  <2> HIDE DEF l
  <2>2. l = [Head(rx) EXCEPT !.ok = FALSE]
    BY <1>2 DEF l
  <2> QED BY <2>1, <2>2
<1>4. PICK empty \in Line : /\ empty = [Head(rx) EXCEPT !.k = "lf", !.s = "-"]
                            /\ empty.u = first.u /\ empty.k = "lf"
  <2> DEFINE l == [first EXCEPT !.k = "lf", !.s = "-"]
  <2>1. l \in Line /\ l.u = first.u /\ l.k = "lf"
    BY DEF Line, Kind, Status
  <2> HIDE DEF l
  <2>2. l = [Head(rx) EXCEPT !.k = "lf", !.s = "-"]
    BY <1>2 DEF l
  <2> QED BY <2>1, <2>2
<1>5. ASSUME NEW p \in Seq(Line), rx' = p \o Tail(rx), p = <<>> \/ rx[1].k # "lf",
             \A j \in 1 .. Len(p) : p[j] \in {first, damaged, empty}
      PROVE  /\ rx' \in Seq(Line)
             /\ \E q \in Nat :
                  /\ Len(rx') = Len(rx) + q - 1
                  /\ \A j \in 1 .. q : /\ rx'[j].u = rx[1].u
                                       /\ Measured(rx'[j]) => Measured(rx[1])
                  /\ \A j \in 2 .. Len(rx) : rx'[j + (q - 1)] = rx[j]
                  /\ q = 0 \/ rx[1].k # "lf"
  <2>1. PICK q \in Nat : q = Len(p)
    OBVIOUS
  <2>2. /\ rx' \in Seq(Line) /\ Len(rx') = Len(rx) + q - 1
        /\ \A j \in 1 .. q : rx'[j] = p[j]
        /\ \A j \in 2 .. Len(rx) : rx'[j + (q - 1)] = rx[j]
    BY <1>1, <1>5, <2>1, PutInFront
  <2>3. \A j \in 1 .. q : rx'[j] \in {first, damaged, empty}
    BY <1>5, <2>1, <2>2
  <2>4. \A l \in {first, damaged, empty} : l.u = rx[1].u /\ (Measured(l) => Measured(rx[1]))
    BY <1>2, <1>3, <1>4 DEF Measured
  <2>5. q = 0 \/ rx[1].k # "lf"
    BY <1>5, <2>1
  <2>6. ASSUME NEW j \in 1 .. q
        PROVE  rx'[j].u = rx[1].u /\ (Measured(rx'[j]) => Measured(rx[1]))
    BY <2>3, <2>4
  <2> QED BY <2>2, <2>5, <2>6
<1>6. CASE LoseLine
  <2>0. <<>> \in Seq(Line)
    OBVIOUS
  <2>1. PICK p \in Seq(Line) : p = <<>>
    BY ONLY <2>0
  <2>2. rx' = p \o Tail(rx)
    <3>1. Tail(rx) \in Seq(Line) /\ rx' = Tail(rx)
      BY <1>1, <1>6 DEF LoseLine
    <3> QED BY <2>1, <3>1, ConcatEmptySeq
  <2>3. \A j \in 1 .. Len(p) : p[j] \in {first, damaged, empty}
    BY <2>1
  <2> QED BY <1>1, <1>5, <2>1, <2>2, <2>3
<1>7. CASE DamageLine
  <2>0. <<damaged>> \in Seq(Line)
    OBVIOUS
  <2>1. PICK p \in Seq(Line) : p = <<damaged>>
    BY ONLY <2>0
  <2>2. rx' = p \o Tail(rx) /\ rx[1].k # "lf"
    BY <1>2, <1>3, <1>7, <2>1 DEF DamageLine
  <2>3. \A j \in 1 .. Len(p) : p[j] \in {first, damaged, empty}
    BY <2>1
  <2> QED BY <1>1, <1>5, <2>2, <2>3
<1>8. CASE StallLine
  <2>0. <<damaged, damaged>> \in Seq(Line) /\ <<first, empty>> \in Seq(Line)
    OBVIOUS
  <2>4. rx' = <<damaged, damaged>> \o Tail(rx) \/ rx' = <<first, empty>> \o Tail(rx)
    BY <1>2, <1>3, <1>4, <1>8 DEF StallLine
  <2>1. PICK p \in Seq(Line) : /\ p = <<damaged, damaged>> \/ p = <<first, empty>>
                               /\ rx' = p \o Tail(rx)
    BY ONLY <2>0, <2>4
  <2>2. rx[1].k # "lf"
    BY <1>2, <1>8 DEF StallLine
  <2>3. \A j \in 1 .. Len(p) : p[j] \in {first, damaged, empty}
    <3>1. CASE p = <<damaged, damaged>>
      BY <3>1
    <3>2. CASE p = <<first, empty>>
      BY <3>2
    <3> QED BY <2>1, <3>1, <3>2
  <2> QED BY <1>1, <1>5, <2>1, <2>2, <2>3
<1> QED BY <1>6, <1>7, <1>8

LEMMA NoiseStep ==
  ASSUME TypeInv, MixInv, LoseLine \/ DamageLine \/ StallLine,
         UNCHANGED <<pc, type, steps, seen, ret>>
  PROVE  MixInv'
<1>1. rx \in Seq(Line) /\ Len(rx) \in Nat /\ noise \in Nat /\ DataLines \in Nat \ {0}
  BY Before, SensorAssumption DEF TypeInv, TypeOK, SensorTypeOK
<1>2. rx # <<>> /\ rx' \in Seq(Line) /\ noise' = noise + 1
  BY <1>1, NoiseShape
<1>3. PICK q \in Nat :
        /\ Len(rx') = Len(rx) + q - 1
        /\ \A j \in 1 .. q : /\ rx'[j].u = rx[1].u
                             /\ Measured(rx'[j]) => Measured(rx[1])
        /\ \A j \in 2 .. Len(rx) : rx'[j + (q - 1)] = rx[j]
        /\ q = 0 \/ rx[1].k # "lf"
  BY <1>1, NoiseShape
<1>4. PICK n \in Nat : Unmixed(n)
  BY DEF MixInv
<1>5. PICK c \in 1 .. Len(rx) : Left(rx, c) /\ (c = n \/ (n = 0 /\ rx[1].k = "echo" /\ c >= 2))
  <2>1. CASE n = 0
    <3>1. PICK m \in Nat : Whole(rx, 1, m) /\ Left(rx, m + 1)
      BY <1>1, <1>2, <1>4, <2>1, NextWhole DEF Unmixed
    <3>2. m + 1 \in 1 .. Len(rx) /\ rx[1].k = "echo" /\ m + 1 >= 2
      BY <3>1 DEF Left, Whole
    <3> QED BY <2>1, <3>1, <3>2
  <2>2. CASE n # 0
    <3>1. n \in 1 .. Len(rx) /\ Left(rx, n)
      BY <1>4, <2>2 DEF Unmixed, Left
    <3> QED BY <3>1
  <2> QED BY <2>1, <2>2
<1>6. q = 0 \/ c >= 2
  <2>1. c = 1 => rx[1].k = "lf"
    BY <1>5 DEF Left
  <2> QED BY <1>1, <1>3, <2>1
<1>7. PICK m \in Nat : m = c + (q - 1)
  BY <1>1, <1>3
<1>8. Left(rx', m)
  BY <1>1, <1>2, <1>3, <1>5, <1>6, <1>7, FirstGoes
<1>9. Intact(m)'
  BY <1>1, <1>2 DEF Intact
<1>10. ASSUME NEW line \in Lines(m)'
       PROVE  \E l \in Lines(c) : line.u = l.u /\ (Measured(line) => Measured(l))
  <2>1. PICK j \in 1 .. m : line = rx'[j]
    BY <1>10 DEF Lines
  <2>2. CASE j \in 1 .. q
    <3>1. rx[1] \in Lines(c)
      BY <1>1 DEF Lines
    <3> QED BY <1>3, <2>1, <2>2, <3>1
  <2>3. CASE j \notin 1 .. q
    <3>1. j - (q - 1) \in 2 .. Len(rx) /\ j - (q - 1) \in 1 .. c /\ (j - (q - 1)) + (q - 1) = j
      BY <1>1, <1>7, <2>3
    <3>2. line = rx[j - (q - 1)]
      BY <1>3, <2>1, <3>1
    <3>3. line \in Lines(c)
      BY <3>1, <3>2 DEF Lines
    <3> QED BY <3>3
  <2> QED BY <2>2, <2>3
<1>11. \A a, b \in Lines(m)' : a.u = b.u
  BY <1>8 DEF Left, Lines
<1>12. pc = "rd_data" => InData(m)'
  <2> SUFFICES ASSUME pc = "rd_data"
               PROVE  InData(m)'
    OBVIOUS
  <2>0. UNCHANGED Tolerated /\ UNCHANGED Full
    BY DEF Full, Tolerated
  <2>1. \/ noise > Tolerated
        \/ Full /\ OneScan(seen)
        \/ /\ OneScan(seen \cup Lines(n))
           /\ noise = 0 => Complete(n) \/ (Nothing(seen) /\ n <= 1)
           /\ noise = 1 /\ StepsAsked = FullScan => n >= 1 \/ Nothing(seen)
    BY <1>4 DEF Unmixed, InData
  <2>2. CASE noise > Tolerated
    BY <1>1, <1>2, <2>2 DEF InData, Tolerated
  <2>3. CASE Full /\ OneScan(seen)
    BY <2>0, <2>3 DEF InData
  <2>4. CASE Nothing(seen) /\ ~(noise > Tolerated)
    <3>1. OneScan(seen' \cup Lines(m)')
      BY <1>11, <2>4 DEF OneScan, Nothing
    <3>2. noise' # 0
      BY <1>1, <1>2
    <3> QED BY <2>4, <3>1, <3>2 DEF InData
  <2>5. CASE n >= 1 /\ OneScan(seen \cup Lines(n))
    <3>1. c = n
      BY <1>4, <1>5, <2>5
    <3>2. OneScan(seen' \cup Lines(m)')
      <4> SUFFICES ASSUME NEW a \in seen \cup Lines(m)', NEW b \in seen \cup Lines(m)',
                          Measured(a), Measured(b)
                   PROVE  a.u = b.u
        BY DEF OneScan
      <4>1. PICK x \in seen \cup Lines(n) : a.u = x.u /\ Measured(x)
        BY <1>10, <3>1
      <4>2. PICK y \in seen \cup Lines(n) : b.u = y.u /\ Measured(y)
        BY <1>10, <3>1
      <4> QED BY <2>5, <4>1, <4>2 DEF OneScan
    <3>3. CASE m >= 1
      BY <1>1, <1>2, <3>2, <3>3 DEF InData
    <3>4. CASE m = 0
      <4>1. n = 1
        BY <1>6, <1>7, <2>5, <3>1, <3>4
      <4>2. CASE noise = 0
        <5>1. CASE Complete(n)
          <6>1. ~ScanFrom(rx, 1, n)
            BY <1>1, <4>1 DEF ScanFrom
          <6>2. steps + StepsPerLine * (1 - 1) >= FullScan /\ steps \in Nat
            BY <4>1, <5>1, <6>1, Before DEF Complete
          <6>3. steps >= FullScan
            BY <6>2 DEF StepsPerLine
          <6>4. OneScan(seen)
            BY <2>5 DEF OneScan
          <6>5. CASE StepsAsked = FullScan
            BY <2>0, <6>3, <6>4, <6>5 DEF InData, Full
          <6>6. CASE StepsAsked # FullScan
            <7>1. noise' # 0
              BY <1>1, <1>2
            <7> QED BY <3>2, <6>6, <7>1 DEF InData
          <6> QED BY <6>5, <6>6
        <5>2. CASE Nothing(seen)
          BY <2>4, <4>2, <5>2 DEF Tolerated
        <5> QED BY <2>1, <2>2, <2>3, <4>2, <5>1, <5>2
      <4>3. CASE noise # 0
        <5>1. noise' # 0 /\ noise' # 1
          BY <1>1, <1>2, <4>3
        <5> QED BY <3>2, <5>1 DEF InData
      <4> QED BY <4>2, <4>3
    <3> QED BY <3>3, <3>4
  <2>6. CASE n = 0 /\ ~Nothing(seen) /\ ~(noise > Tolerated)
    <3>1. CASE Full /\ OneScan(seen)
      BY <2>3, <3>1
    <3>2. CASE /\ noise = 0 => Complete(n) \/ (Nothing(seen) /\ n <= 1)
               /\ noise = 1 /\ StepsAsked = FullScan => n >= 1 \/ Nothing(seen)
      <4>1. ~Complete(n)
        BY <1>1, <2>6 DEF Complete, ScanFrom
      <4>2. noise' > Tolerated
        BY <1>1, <1>2, <2>6, <3>2, <4>1 DEF Tolerated
      <4> QED BY <2>0, <4>2 DEF InData
    <3> QED BY <2>1, <2>6, <3>1, <3>2
  <2> QED BY <1>4, <2>1, <2>2, <2>3, <2>4, <2>5, <2>6
<1>13. Unmixed(m)'
  <2>1. InStatus(m)' /\ InStamp(m)'
    BY <1>1, <1>2, <1>4 DEF Unmixed, InStatus, InStamp
  <2>2. InCount'
    BY <1>1, <1>2, <1>4 DEF Unmixed, InCount, Tolerated
  <2>3. InData(m)'
    BY <1>12 DEF InData
  <2> QED BY <1>8, <1>9, <2>1, <2>2, <2>3 DEF Unmixed
<1> QED BY <1>13 DEF MixInv

\* The sensor answers, and what was left to read is left as before.
LEMMA ReactsMix ==
  ASSUME TypeInv, MixInv, NEW names, NEW status \in Status, NEW body \in Bodies, NEW d,
         "GD" \in names \/ "MD" \in names => body \in {<<>>, ScanBody},
         Reacts(names, status, body, d), UNCHANGED <<pc, type, steps, seen, ret>>
  PROVE  MixInv'
<1>1. PICK cmd \in Command : cmd = Head(tx) /\ cmd.c \in names
  <2>1. Head(tx) \in Command /\ Head(tx).c \in names
    BY HeadTailProperties, Before DEF Reacts
  <2> QED BY <2>1
<1>2. PICK n \in Nat : Unmixed(n)
  BY DEF MixInv
<1>3. rx \in Seq(Line) /\ unit \in Nat
  BY DEF TypeInv, TypeOK, SensorTypeOK
<1>4. PICK a : a = Answer(cmd, status, body)
  OBVIOUS
<1>5. a \in Seq(Line) /\ Len(a) >= 3 /\ Whole(a, 1, Len(a) - 1)
  BY <1>1, <1>3, <1>4, AnswerIsWhole
<1>6. rx' = rx \o a /\ UNCHANGED noise
  BY <1>1, <1>4 DEF Reacts, Says
<1>7. Left(rx', n)
  BY <1>2, <1>3, <1>5, <1>6, AnswerAdded DEF Unmixed
<1>8. \A j \in 1 .. n : rx'[j] = rx[j]
  <2>1. n <= Len(rx) /\ Len(rx) \in Nat
    BY <1>2, <1>3 DEF Unmixed, Left
  <2>2. \A j \in 1 .. Len(rx) : rx'[j] = rx[j]
    BY <1>3, <1>5, <1>6
  <2> QED BY <2>1, <2>2
<1>9. Unmixed(n)'
  BY <1>2, <1>6, <1>7, <1>8, LeftStays
<1> QED BY <1>9 DEF MixInv

LEMMA ScanMix ==
  ASSUME TypeInv, MixInv, SensorScan, UNCHANGED <<pc, type, steps, seen, ret>>
  PROVE  MixInv'
<1>1. PICK n \in Nat : Unmixed(n)
  BY DEF MixInv
<1>2. rx \in Seq(Line) /\ unit \in Nat /\ dev.job \in Command /\ "99" \in Status
      /\ ScanBody \in Bodies
  BY DEF TypeInv, TypeOK, SensorTypeOK, Status, Bodies
<1>3. PICK a : a = Answer(dev.job, "99", ScanBody)
  OBVIOUS
<1>4. a \in Seq(Line) /\ Len(a) >= 3 /\ Whole(a, 1, Len(a) - 1)
  BY <1>2, <1>3, AnswerIsWhole
<1>5. rx' = rx \o a /\ UNCHANGED noise
  BY <1>3 DEF SensorScan, Says
<1>6. Left(rx', n)
  BY <1>1, <1>2, <1>4, <1>5, AnswerAdded DEF Unmixed
<1>7. \A j \in 1 .. n : rx'[j] = rx[j]
  <2>1. n <= Len(rx) /\ Len(rx) \in Nat
    BY <1>1, <1>2 DEF Unmixed, Left
  <2>2. \A j \in 1 .. Len(rx) : rx'[j] = rx[j]
    BY <1>2, <1>4, <1>5
  <2> QED BY <2>1, <2>2
<1>8. Unmixed(n)'
  BY <1>1, <1>5, <1>6, <1>7, LeftStays
<1> QED BY <1>8 DEF MixInv

LEMMA SensorMix ==
  ASSUME TypeInv, MixInv, SensorNext, UNCHANGED <<pc, type, steps, seen, ret>>
  PROVE  MixInv'
<1>0. /\ {"00", "01", "02", "0E", "10"} \subseteq Status
      /\ {<<>>, <<"ts">>, <<"info">>, ScanBody} \subseteq Bodies
  BY DEF Status, Bodies
<1>1. ASSUME NEW names, NEW status \in Status, NEW d, Reacts(names, status, <<>>, d)
      PROVE  MixInv'
  <2>1. PICK body \in Bodies : body = <<>>
    BY <1>0
  <2>2. Reacts(names, status, body, d) /\ body \in {<<>>, ScanBody}
    BY <1>1, <2>1
  <2> QED BY <2>2, ReactsMix
<1>2. CASE SensorQT \/ SensorBM \/ SensorMD \/ SensorTurnsDown \/ SensorSL \/ SensorRB
  <2>1. \E names, d : \E status \in {"00", "01", "02", "0E", "10"} :
          Reacts(names, status, <<>>, d)
    BY <1>2 DEF SensorQT, SensorBM, SensorMD, SensorTurnsDown, SensorSL, SensorRB
  <2> QED BY <1>0, <1>1, <2>1
<1>3. CASE SensorGD
  <2>1. \/ \E body \in {ScanBody} : Reacts({"GD"}, "00", body, dev)
        \/ Reacts({"GD"}, "10", <<>>, dev)
    BY <1>3 DEF SensorGD
  <2>2. ASSUME NEW body \in {ScanBody}, Reacts({"GD"}, "00", body, dev)
        PROVE  MixInv'
    <3>1. body \in Bodies /\ body \in {<<>>, ScanBody} /\ "00" \in Status
      BY <1>0
    <3> QED BY <2>2, <3>1, ReactsMix
  <2> QED BY <1>0, <1>1, <2>1, <2>2
<1>4. CASE SensorTM
  <2>1. \/ \E names, d : \E status \in {"00", "01"} : Reacts(names, status, <<>>, d)
        \/ \E body \in {<<"ts">>} : Reacts({"TM1"}, "00", body, dev)
    BY <1>4 DEF SensorTM
  <2>2. ASSUME NEW body \in {<<"ts">>}, Reacts({"TM1"}, "00", body, dev)
        PROVE  MixInv'
    <3>1. /\ body \in Bodies /\ "00" \in Status
          /\ ~("GD" \in {"TM1"} \/ "MD" \in {"TM1"})
      BY <1>0
    <3> QED BY <2>2, <3>1, ReactsMix
  <2> QED BY <1>0, <1>1, <2>1, <2>2
<1>5. CASE SensorVV
  <2>1. PICK body \in {<<"info">>} : Reacts({"VV"}, "00", body, dev)
    BY <1>5 DEF SensorVV
  <2>2. /\ body \in Bodies /\ "00" \in Status
        /\ ~("GD" \in {"VV"} \/ "MD" \in {"VV"})
    BY <1>0
  <2> QED BY <2>1, <2>2, ReactsMix
<1> QED BY <1>2, <1>3, <1>4, <1>5, ScanMix, NoiseStep DEF SensorNext, SensorCommand

LEMMA StillMix ==
  ASSUME MixInv, UNCHANGED <<rx, noise, pc, type, steps, seen, ret>>
  PROVE  MixInv'
<1>1. PICK n \in Nat : Unmixed(n)
  BY DEF MixInv
<1>2. Left(rx, n)' /\ \A j \in 1 .. n : rx'[j] = rx[j]
  <2>1. Left(rx', n)
    BY <1>1 DEF Unmixed
  <2> QED BY <2>1
<1>3. Unmixed(n)'
  BY <1>1, <1>2, LeftStays
<1> QED BY <1>3 DEF MixInv

\* The functions that only write, or hang up.
LEMMA QuietMix ==
  ASSUME TypeInv, MixInv, UNCHANGED <<rx, noise>> \/ (rx' = <<>> /\ UNCHANGED noise),
         pc' \notin {"rd_status", "rd_ts", "rd_data", "rd_count"}
  PROVE  MixInv'
BY AwayStep

LEMMA StartMix ==
  ASSUME TypeInv, MixInv, Start
  PROVE  MixInv'
<1>1. UNCHANGED <<rx, noise>>
  BY DEF Start, StartContinuous, StartSingle, StartSingleGoesOn, StartRefused
<1>2. pc' \in {"idle", "scip_echo", "scip_done", "drain"}
  BY DEF Start, StartContinuous, StartSingle, StartSingleGoesOn, StartRefused,
         SendDistanceCommand, Returns, ScipBegins, DrainWithQT
<1> QED BY <1>1, <1>2, QuietMix

LEMMA ReceiveMix ==
  ASSUME TypeInv, MixInv, Receive
  PROVE  MixInv'
<1>1. CASE ReceiveStopEnd
  <2>1. PICK line \in Arrivals : Consume(line) /\ pc' = "rd_done"
    BY <1>1 DEF ReceiveStopEnd, ReceiveFails
  <2>2. UNCHANGED noise
    BY <1>1 DEF ReceiveStopEnd
  <2> QED BY <2>1, <2>2, AwayStep, ReadLeaves
<1>2. CASE ReceiveAckEnd
  <2>1. PICK line \in Arrivals :
          Consume(line) /\ (pc' = "rd_echo" \/ DrainWithQT("INVALID_RESPONSE", "rd_done"))
    BY <1>2 DEF ReceiveAckEnd
  <2>2. UNCHANGED noise /\ "INVALID_RESPONSE" \in ErrorNumber
    BY <1>2, Names DEF ReceiveAckEnd
  <2>3. CASE pc' = "rd_echo"
    BY <2>1, <2>2, <2>3, AwayStep, ReadLeaves
  <2>4. CASE DrainWithQT("INVALID_RESPONSE", "rd_done")
    BY <2>1, <2>2, <2>4, DrainStep
  <2> QED BY <2>1, <2>3, <2>4
<1> QED BY <1>1, <1>2, EchoStep, StatusStep, StampStep, DataStep DEF Receive

LEMMA StopOrCountMix ==
  ASSUME TypeInv, MixInv, StopOrCount
  PROVE  MixInv'
<1>1. UNCHANGED <<rx, noise>>
  BY DEF StopOrCount, Stop, StopBegins, CountScan, CountLastScan, GetReturns,
         StopSucceeds, StopTriesAgain, AutoStopReturns, StopReturns, SleepGoesOn,
         sensorVars
<1>2. pc' \in {"rd_echo", "stop_done", "rd_done", "idle", "scip_echo", "scip_done"}
  BY DEF StopOrCount, Stop, StopBegins, CountScan, CountLastScan, GetReturns,
         StopSucceeds, StopTriesAgain, AutoStopReturns, StopReturns, SleepGoesOn,
         ScipBegins
<1> QED BY <1>1, <1>2, QuietMix

LEMMA Command2Mix ==
  ASSUME TypeInv, MixInv, Command2
  PROVE  MixInv'
<1>1. UNCHANGED <<rx, noise>> \/ (rx' = <<>> /\ UNCHANGED noise)
  BY DEF Command2, LaserAlreadyOn, Command1, LaserOnReturns, TimeStampModeReturns,
         TimeStampReturns, InfoReturns, SleepReturns, RebootFails, RebootAgain,
         RebootCloses, Close, ConnectionClose, ScipReturns, HangsUp, sensorVars
<1>2. pc' \in {"idle", "scip_echo", "scip_done", "drain", "closing"}
  BY DEF Command2, LaserAlreadyOn, Command1, LaserOnReturns, TimeStampModeReturns,
         TimeStampReturns, InfoReturns, SleepReturns, RebootFails, RebootAgain,
         RebootCloses, Close, ConnectionClose, ScipReturns, ScipBegins, Returns,
         DrainWithQT
<1> QED BY <1>1, <1>2, QuietMix

LEMMA ScipMix ==
  ASSUME TypeInv, MixInv, ScipNext
  PROVE  MixInv'
<1>1. PICK line \in Arrivals :
        Consume(line) /\ pc' \in {"scip_status", "scip_body", "scip_done"}
  BY DEF ScipNext, ScipEcho, ScipStatus, ScipBody, ScipFails
<1>2. UNCHANGED noise
  BY DEF ScipNext, ScipEcho, ScipStatus, ScipBody
<1> QED BY <1>1, <1>2, AwayStep, ReadLeaves

LEMMA IgnoreMix ==
  ASSUME TypeInv, DrainReports, MixInv, ignore_receive_data
  PROVE  MixInv'
<1>1. PICK line \in Arrivals : Consume(line) /\ (pc' = resume \/ pc' = pc)
  BY DEF ignore_receive_data
<1>2. pc = "drain" /\ UNCHANGED <<noise, ret>>
  BY DEF ignore_receive_data
<1>3. ret # "DATA"
  BY <1>2 DEF DrainReports, ErrorNumber, Error
<1>4. resume \in {"idle", "closing", "rd_done", "rd_count"}
  BY DEF TypeInv, TypeOK
<1> QED BY <1>1, <1>2, <1>3, <1>4, AwayStep, ReadLeaves

LEMMA NextMix ==
  ASSUME TypeInv, DrainReports, MixInv, [Next]_vars
  PROVE  MixInv'
<1>1. CASE \E o \in Ops : Call(o)
  <2>1. UNCHANGED <<rx, noise>> /\ pc' = "entry"
    BY <1>1 DEF Call, sensorVars
  <2> QED BY <2>1, QuietMix
<1>2. CASE NotConnected
  <2>1. UNCHANGED <<rx, noise>> /\ pc' = "idle"
    BY <1>2 DEF NotConnected, Returns, sensorVars
  <2> QED BY <2>1, QuietMix
<1>3. CASE Get
  <2>1. UNCHANGED <<rx, noise>> /\ pc' = "rd_echo"
    BY <1>3 DEF Get, sensorVars
  <2> QED BY <2>1, QuietMix
<1>4. CASE Environment
  <2>1. CASE Sensor(SensorNext)
    BY <2>1, SensorMix DEF Sensor, hostVars, localVars
  <2>2. CASE Disconnect /\ UNCHANGED <<localVars, historyVars>>
    <3>1. UNCHANGED <<rx, noise, pc, type, steps, seen, ret>>
      BY <2>2 DEF Disconnect, localVars
    <3> QED BY <3>1, StillMix
  <2> QED BY <1>4, <2>1, <2>2 DEF Environment
<1>5. CASE UNCHANGED vars
  <2>1. UNCHANGED <<rx, noise, pc, type, steps, seen, ret>>
    BY <1>5 DEF vars, sensorVars, hostVars, localVars
  <2> QED BY <2>1, StillMix
<1> QED BY <1>1, <1>2, <1>3, <1>4, <1>5, StartMix, ReceiveMix, StopOrCountMix, Command2Mix,
           ScipMix, IgnoreMix DEF Next, HostStep

\* While no more lines than Tolerated were lost, damaged or broken - two without
\* skip_step, one with it - whatever the application calls, however late answers
\* are and however many lines a scan has, a scan that is handed out was measured
\* in one piece.
THEOREM NeverMixedScan == Spec => []NoMixedScan
<1> DEFINE I == TypeInv /\ DrainReports /\ MixInv
<1>1. Init => I
  <2> SUFFICES ASSUME Init PROVE MixInv
    BY InitTypes
  <2>1. rx = <<>> /\ pc = "idle"
    BY DEF Init, SensorInit
  <2>2. Unmixed(0)
    BY <2>1 DEF Unmixed, Left, Intact, InStatus, InStamp, InData, InCount
  <2> QED BY <2>2 DEF MixInv
<1>2. I /\ [Next]_vars => I'
  BY NextTypes, NextMix
<1>3. I => NoMixedScan
  <2> SUFFICES ASSUME TypeInv, MixInv, noise <= Tolerated, ScanReturned
               PROVE  \A a, b \in {line \in seen : line.k \in {"ts", "data"}} : a.u = b.u
    BY DEF NoMixedScan
  <2>1. InCount /\ noise \in Nat /\ Tolerated \in Nat
    BY DEF MixInv, Unmixed, TypeInv, TypeOK, SensorTypeOK, Tolerated
  <2>2. OneScan(seen)
    BY <2>1 DEF InCount, ScanReturned
  <2> QED BY <2>2 DEF OneScan, Measured
<1> QED BY <1>1, <1>2, <1>3, PTL DEF Spec

=============================================================================
