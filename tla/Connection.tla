----------------------------- MODULE Connection -----------------------------
(***************************************************************************)
(* Opening and closing the connection of a urg_t: urg_connection.c over    *)
(* the serial ports of Linux and Windows and over the TCP client.          *)
(*                                                                         *)
(* h is the state they work on: h.files says who of the process has opened *)
(* which descriptor, and h.serial and h.tcp are the descriptors kept in    *)
(* urg_connection_t, h.type the one in use.  An operation that may end in  *)
(* several ways is the set of its outcomes [h, ret].                       *)
(***************************************************************************)
EXTENDS Integers, FiniteSets

CONSTANTS
  Descriptors,   \* the descriptors of the process
  Closed         \* INVALID_FD, INVALID_HANDLE_VALUE, Invalid_desc

ASSUME DescriptorsAssumption == Closed \notin Descriptors /\ IsFiniteSet(Descriptors)

Owners == {"none", "driver", "other"}

Handles == [files : [Descriptors -> Owners],
            serial : Descriptors \cup {Closed}, tcp : Descriptors \cup {Closed},
            type : {"serial", "ethernet"}]

Unused(h) == {d \in Descriptors : h.files[d] = "none"}

Outcome(h, ret) == [h |-> h, ret |-> ret]

\* The system gives a free descriptor and takes one back.
Opened(h, d) == [h EXCEPT !.files[d] = "driver"]
Released(h, d) == [h EXCEPT !.files[d] = "none"]

serial_initialize(h) == [h EXCEPT !.serial = Closed]

\* A port that cannot be opened, and one that can
Port(h, ret) ==
  {Outcome(serial_initialize(h), -1)} \cup
  {Outcome([Opened(h, d) EXCEPT !.serial = d], ret) : d \in Unused(h)}

\* With an unknown rate the Linux port fails and stays open; the Windows port
\* does not look whether the rate was set.
serial_open_linux(h, known) == Port(h, IF known THEN 0 ELSE -1)
serial_open_windows(h) == Port(h, 0)

\* Mutant: the descriptor is closed and kept.
serial_close_Kept(h) ==
  IF h.serial = Closed THEN h ELSE Released(h, h.serial)

serial_close(h) ==
  IF h.serial = Closed THEN h
  ELSE [Released(h, h.serial) EXCEPT !.serial = Closed]

tcpclient_close(h) ==
  IF h.tcp = Closed THEN h
  ELSE [Released(h, h.tcp) EXCEPT !.tcp = Closed]

\* tcpclient_open after connect, select or getsockopt has failed
GivesUp(h, d) == tcpclient_close([Opened(h, d) EXCEPT !.tcp = d])

\* No socket (on Windows no WinSock either); an address that is none, for which
\* the socket is left open; connect refused, timed out, or failed later (-1, -2
\* and, on Linux, -3 and -4); connected.
tcpclient_open(h, windows, address) ==
  {Outcome([h EXCEPT !.tcp = Closed], -1)} \cup
  UNION {IF ~address THEN {Outcome([Opened(h, d) EXCEPT !.tcp = d], -1)}
         ELSE {Outcome([Opened(h, d) EXCEPT !.tcp = d], 0)} \cup
              {Outcome(GivesUp(h, d), ret) :
                 ret \in IF windows THEN {-1, -2} ELSE {-1, -2, -3, -4}} :
         d \in Unused(h)}

\* valid: a rate the port knows, or an address
connection_open(h, type, windows, valid) ==
  LET typed == [h EXCEPT !.type = type]
  IN  IF type = "ethernet" THEN tcpclient_open(typed, windows, valid)
      ELSE IF windows THEN serial_open_windows(typed) ELSE serial_open_linux(typed, valid)

connection_close(h) ==
  IF h.type = "serial" THEN serial_close(h) ELSE tcpclient_close(h)

\* The descriptors held are open and the driver's own, and are not the same one.
Own(h) ==
  /\ h.serial # Closed => h.files[h.serial] = "driver"
  /\ h.tcp # Closed => h.files[h.tcp] = "driver"
  /\ h.serial = h.tcp => h.serial = Closed

\* The one in use
InUse(h) == IF h.type = "serial" THEN h.serial ELSE h.tcp

\* The descriptors held by the connection, and those nobody can close any more.
Held(h) == {h.serial, h.tcp} \ {Closed}
Lost(h) == {d \in Descriptors : h.files[d] = "driver"} \ Held(h)
=============================================================================
