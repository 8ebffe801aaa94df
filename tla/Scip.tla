-------------------------------- MODULE Scip --------------------------------
(***************************************************************************)
(* The host's side of a command: the parts of urg_sensor.c that every      *)
(* operation is built from.  scip_response writes a command and reads its  *)
(* answer line by line, ignore_receive_data drains the line until it falls *)
(* silent, ignore_receive_data_with_qt tells the sensor to stop first.     *)
(*                                                                         *)
(* The host is one thread.  Its steps are the calls of connection_readline *)
(* - between two of them the sensor may do anything - so pc names the      *)
(* connection_readline the thread is waiting in, or the point between two  *)
(* functions.                                                              *)
(***************************************************************************)
EXTENDS ScipSensor

CONSTANTS
  Late,          \* may a read time out although the sensor has more to say?
  MayDisconnect  \* may the connection break?

ASSUME ScipAssumption == Late \in BOOLEAN /\ MayDisconnect \in BOOLEAN

VARIABLES
  link,      \* the connection: open, closed by urg_close, or lost
  urg,       \* the fields of urg_t that outlive a call
  pc,        \* where the thread is
  op,        \* the API function it is in
  ret,       \* the value the innermost function is about to return
  good,      \* scip_response: the status was one of the expected ones
  resume,    \* where the thread goes on once a drain is over
  seen,      \* the lines the innermost function has accepted
  calls      \* number of API calls made so far

hostVars == <<link, urg, pc, op, ret, good, resume, seen, calls>>

Error == {"NO_RESPONSE", "INVALID_RESPONSE", "CHECKSUM_ERROR", "SEND_ERROR",
          "RECEIVE_ERROR", "NOT_CONNECTED", "INVALID_PARAMETER",
          "UNKNOWN_ERROR"}

\* The result of a readline that timed out.
NoLine == [k |-> "none", c |-> "QT", s |-> "-", call |-> 0, u |-> 0, ok |-> TRUE]

\* A read times out when nothing arrives in time: because nothing is coming,
\* because the connection is gone, or, if answers may be late, at any moment.
Silent ==
  \/ Late
  \/ rx = <<>> /\ tx = <<>> /\ dev.stream = 0
  \/ rx = <<>> /\ link # "open"

\* What connection_readline can return now.
Arrivals == (IF rx # <<>> THEN {Head(rx)} ELSE {})
            \cup (IF Silent THEN {NoLine} ELSE {})

Consume(line) == rx' = IF line = NoLine THEN rx ELSE Tail(rx)

\* The return value of connection_readline, as far as the code tells values
\* apart: -1, 0, the length of a status line, or more.
Length(line) == CASE line.k = "none" -> -1
                  [] line.k = "lf"   -> 0
                  [] line.k = "stat" -> 3
                  [] OTHER           -> 9

ChecksumFits_Any(line) == line.ok  \* mutant: an echo passes for a line of data

\* Every line but the echo ends with its checksum.
ChecksumFits(line) == line.ok /\ line.k # "echo"

\* connection_write of one command
CanWrite == link = "open"
Write(c, n) == tx' = Append(tx, [c |-> c, n |-> n, call |-> calls])
WriteIfOpen(c) == IF CanWrite THEN Write(c, 0) ELSE UNCHANGED tx

-----------------------------------------------------------------------------
(***************************************************************************)
(* scip_response.  It is entered with the command already in "scip"; the   *)
(* caller goes on at pc = "scip_done" with ret = "OK" or an error.         *)
(***************************************************************************)
CommandOf(o) == CASE o = "start"  -> "BM"
                  [] o = "laser"  -> "BM"
                  [] o = "tm0"    -> "TM0"
                  [] o = "tm1"    -> "TM1"
                  [] o = "tm2"    -> "TM2"
                  [] o = "info"   -> "VV"
                  [] o = "sleep"  -> "SL"
                  [] OTHER        -> "RB"

\* strtol reads "0E" as 0, so it counts as a success.
StatusValue(s) == CASE s = "00" -> 0 [] s = "0E" -> 0 [] s = "01" -> 1
                    [] s = "02" -> 2 [] s = "10" -> 10 [] OTHER -> 99

Expected(c) == CASE c = "BM" -> {0, 2} [] c = "RB" -> {0, 1} [] OTHER -> {0}

ScipFails(e) ==
  /\ ret' = e /\ pc' = "scip_done"
  /\ urg' = [urg EXCEPT !.last_errno = e]
  /\ UNCHANGED <<good, seen>>

\* Function o writes its command and, if that works, waits for the echo.
ScipBegins(o, u) ==
  /\ good' = FALSE /\ seen' = {}
  /\ IF CanWrite
     THEN Write(CommandOf(o), 0) /\ pc' = "scip_echo" /\ urg' = u /\ ret' = "OK"
     ELSE /\ UNCHANGED tx
          /\ pc' = "scip_done" /\ ret' = "SEND_ERROR"
          /\ urg' = [u EXCEPT !.last_errno = "SEND_ERROR"]

ScipEcho ==
  /\ pc = "scip_echo"
  /\ \E line \in Arrivals :
       /\ Consume(line)
       /\ \/ Length(line) < 0 /\ ScipFails("NO_RESPONSE")
          \/ /\ Length(line) >= 0
             /\ ~(line.k = "echo" /\ line.ok /\ line.c = CommandOf(op))
             /\ ScipFails("INVALID_RESPONSE")
          \/ /\ line.k = "echo" /\ line.ok /\ line.c = CommandOf(op)
             /\ pc' = "scip_status"
             /\ seen' = {line}
             /\ UNCHANGED <<urg, ret, good>>
  /\ UNCHANGED <<tx, dev, unit, noise, link, op, resume, calls>>

\* A damaged status line of which one character came, as when it stalled
\* behind it: it passes for a status of SCIP 1.1, without a checksum.
MaySayScip1(line) == line.k = "stat" /\ ~line.ok

ScipStatus ==
  /\ pc = "scip_status"
  /\ \E line \in Arrivals :
       /\ Consume(line)
       /\ \/ Length(line) < 0 /\ ScipFails("NO_RESPONSE")
          \/ Length(line) > 0 /\ ~ChecksumFits(line) /\ ScipFails("CHECKSUM_ERROR")
          \/ /\ Length(line) = 0 \/ ChecksumFits(line)
             /\ Length(line) >= 0 /\ Length(line) # 3
             /\ ScipFails("INVALID_RESPONSE")
          \/ /\ \/ /\ Length(line) = 3 /\ ChecksumFits(line)
                   /\ good' = (StatusValue(line.s) \in Expected(CommandOf(op)))
                \/ MaySayScip1(line) /\ good' = TRUE
             /\ seen' = seen \cup {line}
             /\ pc' = "scip_body"
             /\ UNCHANGED <<urg, ret>>
  /\ UNCHANGED <<tx, dev, unit, noise, link, op, resume, calls>>

\* Lines up to the empty one.  An unexpected status is reported only here,
\* and without setting last_errno.
IsLast(line) == Length(line) = 0

ScipBody ==
  /\ pc = "scip_body"
  /\ \E line \in Arrivals :
       /\ Consume(line)
       /\ \/ Length(line) < 0 /\ ScipFails("NO_RESPONSE")
          \/ Length(line) > 0 /\ ~ChecksumFits(line) /\ ScipFails("CHECKSUM_ERROR")
          \/ /\ Length(line) > 0 /\ ChecksumFits(line)
             /\ ~IsLast(line)
             /\ seen' = seen \cup {line}
             /\ UNCHANGED <<pc, urg, ret, good>>
          \/ /\ IsLast(line)
             /\ ret' = IF good THEN "OK" ELSE "UNKNOWN_ERROR"
             /\ pc' = "scip_done"
             /\ UNCHANGED <<urg, good, seen>>
  /\ UNCHANGED <<tx, dev, unit, noise, link, op, resume, calls>>

ScipNext == ScipEcho \/ ScipStatus \/ ScipBody

-----------------------------------------------------------------------------
(***************************************************************************)
(* ignore_receive_data_with_qt, and ignore_receive_data in it.  The caller *)
(* gives the error it reports afterwards (e) and where it goes on.  QT is  *)
(* not sent when neither a stream nor the laser is believed to be on, and  *)
(* nothing is read when no stream is believed to be on.                    *)
(***************************************************************************)
NothingToStop_LaserOff == ~urg.is_laser_on   \* mutant: forgets the stream
NothingToStop_NoStream == ~urg.is_sending    \* mutant: forgets the laser

NothingToStop == ~urg.is_sending /\ ~urg.is_laser_on

DrainWithQT(e, where) ==
  /\ ret' = e
  /\ IF NothingToStop
     THEN UNCHANGED tx ELSE WriteIfOpen("QT")
  /\ IF urg.is_sending
     THEN /\ pc' = "drain" /\ resume' = where
          /\ urg' = [urg EXCEPT !.is_laser_on = FALSE]
     ELSE /\ pc' = where /\ UNCHANGED resume
          /\ urg' = [urg EXCEPT !.is_laser_on = FALSE, !.last_errno = e]

\* ignore_receive_data: everything is thrown away until a read times out.
ignore_receive_data ==
  /\ pc = "drain"
  /\ \E line \in Arrivals :
       /\ Consume(line)
       /\ IF line = NoLine
          THEN /\ pc' = resume
               /\ urg' = [urg EXCEPT !.is_sending = FALSE, !.last_errno = ret]
          ELSE UNCHANGED <<pc, urg>>
  /\ UNCHANGED <<tx, dev, unit, noise, link, op, ret, good, resume, seen, calls>>

\* The connection breaks: commands under way are lost, lines that have
\* arrived can still be read.
Disconnect ==
  /\ MayDisconnect /\ link = "open"
  /\ link' = "lost" /\ tx' = <<>>
  /\ UNCHANGED <<rx, dev, unit, noise, urg, pc, op, ret, good, resume, seen, calls>>
=============================================================================
