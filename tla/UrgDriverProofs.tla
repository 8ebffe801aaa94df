--------------------------- MODULE UrgDriverProofs --------------------------
(***************************************************************************)
(* What is proved of UrgDriver for every set of descriptors, sensors and   *)
(* requests, any number of calls and any use of descriptors by the rest of *)
(* the process.                                                            *)
(*                                                                         *)
(* First the connection: its descriptor is always the driver's own, no     *)
(* call touches those of others, and an active urg_t is connected.  Then   *)
(* the data: names, scans, time stamps and angles are those of the sensor  *)
(* connected now and of the measurement started last.                      *)
(***************************************************************************)
EXTENDS UrgDriver, SequenceTheorems, FiniteSetTheorems, TLAPS

\* What an operation on the descriptors x leaves alone.
Spares(x, y) ==
  \A d \in Descriptors : x.files[d] = "other" => y.files[d] = "other"

\* What every operation on descriptors keeps.
Keeps(x, y) == y \in Handles /\ Own(y) /\ Spares(x, y)

\* Opening a free descriptor into the field serial keeps all of it.
LEMMA OpensSerial ==
  ASSUME NEW x \in Handles, Own(x), NEW d \in Unused(x)
  PROVE  LET y == [Opened(x, d) EXCEPT !.serial = d]
         IN  Keeps(x, y) /\ y.type = x.type /\ y.serial = d
  BY DescriptorsAssumption DEF Handles, Owners, Own, Unused, Opened, Keeps, Spares

\* ... and into the field tcp.
LEMMA OpensTcp ==
  ASSUME NEW x \in Handles, Own(x), NEW d \in Unused(x)
  PROVE  LET y == [Opened(x, d) EXCEPT !.tcp = d]
         IN  Keeps(x, y) /\ y.type = x.type /\ y.tcp = d
  BY DescriptorsAssumption DEF Handles, Owners, Own, Unused, Opened, Keeps, Spares

\* tcpclient_close gives back the driver's own descriptor or does nothing.
LEMMA TcpCloses ==
  ASSUME NEW x \in Handles, Own(x)
  PROVE  Keeps(x, tcpclient_close(x))
<1>1. CASE x.tcp = Closed
  BY <1>1 DEF tcpclient_close, Keeps, Spares
<1>2. CASE x.tcp # Closed
  BY <1>2, DescriptorsAssumption
  DEF tcpclient_close, Released, Keeps, Spares, Handles, Owners, Own
<1> QED BY <1>1, <1>2

\* serial_close likewise.
LEMMA SerialCloses ==
  ASSUME NEW x \in Handles, Own(x)
  PROVE  Keeps(x, serial_close(x))
<1>1. CASE x.serial = Closed
  BY <1>1 DEF serial_close, Keeps, Spares
<1>2. CASE x.serial # Closed
  BY <1>2, DescriptorsAssumption
  DEF serial_close, Released, Keeps, Spares, Handles, Owners, Own
<1> QED BY <1>1, <1>2

\* connection_close closes one of the two.
LEMMA ConnectionCloses ==
  ASSUME NEW x \in Handles, Own(x)
  PROVE  Keeps(x, connection_close(x))
  BY TcpCloses, SerialCloses DEF connection_close

LEMMA SparesTransitive ==
  ASSUME NEW x, NEW y, NEW z, Spares(x, y), Spares(y, z)
  PROVE  Spares(x, z)
  BY DEF Spares

\* Forgetting a descriptor keeps the rest.
LEMMA Forgets ==
  ASSUME NEW x \in Handles, Own(x)
  PROVE  /\ Keeps(x, serial_initialize(x))
         /\ Keeps(x, [x EXCEPT !.tcp = Closed])
  BY DescriptorsAssumption
  DEF serial_initialize, Handles, Owners, Own, Keeps, Spares

\* What a successful or refused opening leaves behind: o is an outcome.
OpensWell(x, o, type) ==
  /\ Keeps(x, o.h)
  /\ o.ret = 0 => o.h.type = type /\ InUse(o.h) \in Descriptors

\* A serial port, on either system.
LEMMA PortOpens ==
  ASSUME NEW x \in Handles, Own(x), x.type = "serial", NEW ret \in Int,
         NEW o \in Port(x, ret)
  PROVE  OpensWell(x, o, "serial")
<1>1. CASE o = Outcome(serial_initialize(x), -1)
  <2>1. o.h = serial_initialize(x) /\ o.ret # 0
    BY <1>1 DEF Outcome
  <2>2. Keeps(x, o.h)
    BY <2>1, Forgets
  <2> QED BY <2>1, <2>2 DEF OpensWell
<1>2. ASSUME NEW d \in Unused(x), o = Outcome([Opened(x, d) EXCEPT !.serial = d], ret)
      PROVE  OpensWell(x, o, "serial")
  <2> DEFINE y == [Opened(x, d) EXCEPT !.serial = d]
  <2>1. Keeps(x, y) /\ y.type = "serial" /\ y.serial = d
    BY OpensSerial
  <2>2. d \in Descriptors
    BY DEF Unused
  <2>3. o.h = y
    BY <1>2 DEF Outcome
  <2> HIDE DEF y
  <2> QED BY <2>1, <2>2, <2>3 DEF OpensWell, InUse
<1> QED BY <1>1, <1>2 DEF Port

\* A refused connection is closed again.
LEMMA TcpGivesUp ==
  ASSUME NEW x \in Handles, Own(x), NEW d \in Unused(x)
  PROVE  Keeps(x, GivesUp(x, d))
<1> DEFINE y == [Opened(x, d) EXCEPT !.tcp = d]
<1>1. Keeps(x, y)
  BY OpensTcp
<1> HIDE DEF y
<1>2. Keeps(y, tcpclient_close(y))
  BY <1>1, TcpCloses DEF Keeps
<1>3. Keeps(x, tcpclient_close(y))
  BY <1>1, <1>2, SparesTransitive DEF Keeps
<1> QED BY <1>3 DEF GivesUp, y

\* A socket.
LEMMA TcpOpens ==
  ASSUME NEW x \in Handles, Own(x), x.type = "ethernet", NEW win, NEW address,
         NEW o \in tcpclient_open(x, win, address)
  PROVE  OpensWell(x, o, "ethernet")
<1>1. CASE o = Outcome([x EXCEPT !.tcp = Closed], -1)
  BY <1>1, Forgets DEF Outcome, OpensWell
<1>2. ASSUME NEW d \in Unused(x), NEW ret,
             o = Outcome([Opened(x, d) EXCEPT !.tcp = d], ret)
      PROVE  OpensWell(x, o, "ethernet")
  <2> DEFINE y == [Opened(x, d) EXCEPT !.tcp = d]
  <2>1. Keeps(x, y) /\ y.type = "ethernet" /\ y.tcp = d
    BY OpensTcp
  <2>2. d \in Descriptors
    BY DEF Unused
  <2>3. o.h = y
    BY <1>2 DEF Outcome
  <2> HIDE DEF y
  <2> QED BY <2>1, <2>2, <2>3 DEF OpensWell, InUse
<1>3. ASSUME NEW d \in Unused(x), NEW ret \in {-1, -2, -3, -4},
             o = Outcome(GivesUp(x, d), ret)
      PROVE  OpensWell(x, o, "ethernet")
  BY <1>3, TcpGivesUp DEF Outcome, OpensWell
<1> QED BY <1>1, <1>2, <1>3 DEF tcpclient_open

\* urg_connection.c, whatever the connection was before.
LEMMA ConnectionOpens ==
  ASSUME NEW x \in Handles, Own(x), NEW type \in {"serial", "ethernet"},
         NEW win, NEW valid, NEW o \in connection_open(x, type, win, valid)
  PROVE  OpensWell(x, o, type)
<1> DEFINE y == [x EXCEPT !.type = type]
<1>1. y \in Handles /\ Own(y) /\ y.type = type /\ Spares(x, y)
  BY DEF Handles, Own, Spares
<1>2. o \in IF type = "ethernet" THEN tcpclient_open(y, win, valid)
            ELSE IF win THEN serial_open_windows(y) ELSE serial_open_linux(y, valid)
  BY DEF connection_open
<1> HIDE DEF y
<1>3. OpensWell(y, o, type)
  <2>1. CASE type = "ethernet"
    BY <1>1, <1>2, <2>1, TcpOpens
  <2>2. CASE type = "serial"
    <3>1. \E ret \in Int : o \in Port(y, ret)
      BY <1>2, <2>2 DEF serial_open_windows, serial_open_linux
    <3> QED BY <1>1, <2>2, <3>1, PortOpens
  <2> QED BY <2>1, <2>2
<1> QED BY <1>1, <1>3, SparesTransitive DEF OpensWell, Keeps

-----------------------------------------------------------------------------
(***************************************************************************)
(* The invariant.  OwnDescriptor alone is inductive only for descriptors   *)
(* of the right kind; ActiveIsConnected needs it, because only close() and *)
(* open() look at is_opened_ before they close.                            *)
(***************************************************************************)
Connected ==
  /\ h \in Handles /\ OwnDescriptor
  /\ "is_active" \in DOMAIN urg /\ urg.is_active \in BOOLEAN
  /\ "is_opened_" \in DOMAIN impl
  /\ ActiveIsConnected

\* Calls that leave the connection as it is.
SameConnection ==
  /\ UNCHANGED <<h, peer>>
  /\ "is_active" \in DOMAIN urg' /\ urg'.is_active = urg.is_active
  /\ "is_opened_" \in DOMAIN impl' /\ impl'.is_opened_ = impl.is_opened_

LEMMA ConnectedInit == Init => Connected
  BY DescriptorsAssumption
  DEF Init, Connected, OwnDescriptor, Own, Handles, Owners, ActiveIsConnected

LEMMA SameStaysConnected ==
  ASSUME Connected, SameConnection
  PROVE  Connected' /\ Spares(h, h')
  BY DEF Connected, SameConnection, OwnDescriptor, ActiveIsConnected, Spares

\* What close() closes before an open().
LEMMA ClosesFirst ==
  ASSUME Connected
  PROVE  Keeps(h, CloseFirst)
  BY ConnectionCloses DEF Connected, OwnDescriptor, CloseFirst, Keeps, Spares

LEMMA OpenConnects ==
  ASSUME Connected, Open
  PROVE  Connected' /\ Spares(h, h')
<1> DEFINE
      Ends(device, o) ==
        /\ h' = o.h
        /\ \/ o.ret < 0 /\ Opening(Nobody, FALSE) /\ urg' = Unconnected(TRUE)
           \/ o.ret = 0 /\ Opening(Nobody, TRUE) /\ urg' = Unconnected(FALSE)
           \/ o.ret = 0 /\ Opening(Nobody, FALSE) /\ urg' = Parameters(device)
           \/ o.ret = 0 /\ Opening(device, TRUE) /\ urg' = Active(device)
<1>0. PICK device \in Devices, valid \in BOOLEAN :
        \E o \in connection_open(CloseFirst, device.type, windows, valid) : Ends(device, o)
  BY DEF Open
<1>1. PICK o \in connection_open(CloseFirst, device.type, windows, valid) : Ends(device, o)
  BY <1>0
<1>2. Keeps(h, CloseFirst)
  BY ClosesFirst
<1>3. device.type \in {"serial", "ethernet"}
  BY DriverAssumption
<1>4. OpensWell(CloseFirst, o, device.type)
  BY <1>2, <1>3, ConnectionOpens DEF Keeps
<1>5. h' \in Handles /\ OwnDescriptor' /\ Spares(h, h')
  BY <1>1, <1>2, <1>4, SparesTransitive DEF OpensWell, Keeps, OwnDescriptor
<1>6. "is_opened_" \in DOMAIN impl'
  BY <1>1 DEF Connected, Opening, Fresh
<1>7. CASE o.ret = 0 /\ Opening(device, TRUE) /\ urg' = Active(device)
  <2>1. "is_active" \in DOMAIN urg' /\ urg'.is_active = TRUE
    BY <1>7 DEF Connected, Active, Parameters
  <2>2. impl'.is_opened_ = TRUE /\ peer' = device
    BY <1>7 DEF Connected, Opening, Fresh
  <2>3. h'.type = device.type /\ InUse(h') \in Descriptors
    BY <1>1, <1>4, <1>7 DEF OpensWell
  <2> QED BY <1>5, <1>6, <2>1, <2>2, <2>3 DEF Connected, ActiveIsConnected
<1>8. CASE urg' \in {Unconnected(TRUE), Unconnected(FALSE), Parameters(device)}
  <2>1. "is_active" \in DOMAIN urg' /\ urg'.is_active = FALSE
    BY <1>8 DEF Connected, Parameters, Unconnected
  <2> QED BY <1>5, <1>6, <2>1 DEF Connected, ActiveIsConnected
<1> QED BY <1>1, <1>7, <1>8

\* close() and reboot()
LEMMA DisconnectedStays ==
  ASSUME Connected, NEW keep, Disconnected(keep)
  PROVE  Connected' /\ Spares(h, h')
<1>1. Keeps(h, h')
  BY ConnectionCloses DEF Connected, OwnDescriptor, Disconnected
<1>2. "is_active" \in DOMAIN urg' /\ urg'.is_active = FALSE
  BY DEF Connected, Disconnected
<1>3. "is_opened_" \in DOMAIN impl'
  BY DEF Connected, Disconnected
<1> QED BY <1>1, <1>2, <1>3 DEF Connected, Keeps, OwnDescriptor, ActiveIsConnected

\* The other calls: the connection stays as it is.
LEMMA CallsKeepConnection ==
  ASSUME Connected, Driver, ~Open, ~Close, ~Reboot
  PROVE  SameConnection
<1> USE DEF Connected, SameConnection
<1>1. ASSUME NEW type \in Types, NEW times \in ScanTimes, Start(type, times)
      PROVE  SameConnection
  BY <1>1 DEF Start, Requested
<1>2. CASE StartRefused
  BY <1>2 DEF StartRefused, Happened
<1>3. CASE Stop
  BY <1>3 DEF Stop, Happened
<1>4. CASE CallInactive
  BY <1>4 DEF CallInactive, session
<1>5. ASSUME NEW type \in Types, GetFails(type)
      PROVE  SameConnection
  BY <1>5 DEF GetFails, session
<1>6. CASE Get
  BY <1>6 DEF Get, Happened
<1>7. ASSUME NEW type \in Types, SetMeasurementType(type)
      PROVE  SameConnection
  BY <1>7 DEF SetMeasurementType
<1>8. CASE SetWindow
  BY <1>8 DEF SetWindow
<1>9. CASE SetSensorTimeStamp
  BY <1>9 DEF SetSensorTimeStamp
<1>10. CASE SetSensorTimeStampFails
  BY <1>10 DEF SetSensorTimeStampFails, session
<1>11. CASE Name
  BY <1>11 DEF Name
<1>12. CASE Ask
  BY <1>12 DEF Ask
<1> QED BY <1>1, <1>2, <1>3, <1>4, <1>5, <1>6, <1>7, <1>8, <1>9, <1>10, <1>11, <1>12
   DEF Driver

\* Every call keeps the invariant and the descriptors of others.
LEMMA DriverKeeps ==
  ASSUME Connected, Driver
  PROVE  Connected' /\ Spares(h, h')
<1>1. CASE Open
  BY <1>1, OpenConnects
<1>2. CASE Close
  <2>1. CASE impl.is_opened_
    BY <1>2, <2>1, DisconnectedStays DEF Close
  <2>2. CASE ~impl.is_opened_
    <3>1. SameConnection
      BY <1>2, <2>2 DEF Close, session, Connected, SameConnection
    <3> QED BY <3>1, SameStaysConnected
  <2> QED BY <2>1, <2>2
<1>3. CASE Reboot
  <2>1. CASE Disconnected(impl.is_opened_)
    BY <2>1, DisconnectedStays
  <2>2. CASE UNCHANGED session
    <3>1. SameConnection
      BY <2>2 DEF session, Connected, SameConnection
    <3> QED BY <3>1, SameStaysConnected
  <2> QED BY <1>3, <2>1, <2>2 DEF Reboot
<1>4. CASE ~Open /\ ~Close /\ ~Reboot
  BY <1>4, CallsKeepConnection, SameStaysConnected
<1> QED BY <1>1, <1>2, <1>3, <1>4

\* ... and every other step.
LEMMA NextKeeps == Connected /\ [Next]_vars => Connected'
<1> SUFFICES ASSUME Connected, [Next]_vars
             PROVE  Connected'
  OBVIOUS
<1>1. CASE Driver
  BY <1>1, DriverKeeps
<1>2. CASE Others
  BY <1>2 DEF Others, Connected, OwnDescriptor, Own, Handles, Owners, ActiveIsConnected, InUse
<1>3. CASE Measure \/ Tick \/ UNCHANGED vars
  <2>1. SameConnection
    BY <1>3 DEF Measure, Tick, vars, session, Connected, SameConnection
  <2> QED BY <2>1, SameStaysConnected
<1> QED BY <1>1, <1>2, <1>3 DEF Next

\* The invariant holds of the driver.
THEOREM StaysConnected == Spec => []Connected
  BY ConnectedInit, NextKeeps, PTL DEF Spec

\* No close, second close, refused open or reboot leaves a descriptor that is
\* not the driver's own in the connection.
THEOREM DescriptorsAlwaysOwn == Spec => []OwnDescriptor
<1>1. Connected => OwnDescriptor
  BY DEF Connected
<1> QED BY <1>1, StaysConnected, PTL

\* While urg_t is active the connection is open and the object counts as opened.
THEOREM ActiveAlwaysConnected == Spec => []ActiveIsConnected
<1>1. Connected => ActiveIsConnected
  BY DEF Connected
<1> QED BY <1>1, StaysConnected, PTL

\* No call closes or takes a descriptor of the rest of the process.
THEOREM OthersLeftAlone == Spec => LeavesOthersAlone
<1>1. Connected /\ [Next]_vars =>
        [\A d \in Descriptors : h.files[d] = "other" /\ h'.files[d] # "other" => ~Driver]_vars
  BY DriverKeeps DEF Spares
<1> QED BY <1>1, StaysConnected, PTL DEF Spec, LeavesOthersAlone

-----------------------------------------------------------------------------
(***************************************************************************)
(* Descriptors lost.  A descriptor the driver has opened is stranded when  *)
(* no close() will reach it: any but the one in use, and that one too when *)
(* the object does not count as opened.                                    *)
(***************************************************************************)
Taken(x) == {d \in Descriptors : x.files[d] = "driver"}

Stranded == Taken(h) \ (IF impl.is_opened_ THEN {InUse(h)} ELSE {})

\* Closing gives back the descriptor in use.
LEMMA CloseGivesBack ==
  ASSUME NEW x \in Handles, Own(x)
  PROVE  Taken(connection_close(x)) = Taken(x) \ {InUse(x)}
<1>1. CASE x.type = "serial"
  BY <1>1, DescriptorsAssumption
  DEF connection_close, serial_close, Released, Taken, InUse, Handles, Own, Owners
<1>2. CASE x.type # "serial"
  BY <1>2, DescriptorsAssumption
  DEF connection_close, tcpclient_close, Released, Taken, InUse, Handles, Own, Owners
<1> QED BY <1>1, <1>2

\* What an opening takes: at most one descriptor, and if it succeeds the one
\* that is then in use.
TakesOne(x, o) ==
  /\ \E d : Taken(o.h) \subseteq Taken(x) \cup {d}
  /\ o.ret = 0 => Taken(o.h) \subseteq Taken(x) \cup {InUse(o.h)}

LEMMA PortTakesOne ==
  ASSUME NEW x \in Handles, x.type = "serial", NEW ret \in Int, NEW o \in Port(x, ret)
  PROVE  TakesOne(x, o)
<1>1. CASE o = Outcome(serial_initialize(x), -1)
  <2>1. o.h.files = x.files /\ o.ret # 0
    BY <1>1 DEF Outcome, serial_initialize, Handles
  <2> QED BY <2>1 DEF TakesOne, Taken
<1>2. ASSUME NEW d \in Unused(x), o = Outcome([Opened(x, d) EXCEPT !.serial = d], ret)
      PROVE  TakesOne(x, o)
  <2>1. o.h.files = [x.files EXCEPT ![d] = "driver"] /\ InUse(o.h) = d
    BY <1>2 DEF Outcome, Opened, InUse, Handles
  <2>2. Taken(o.h) \subseteq Taken(x) \cup {d}
    BY <2>1 DEF Taken, Handles
  <2> QED BY <2>1, <2>2 DEF TakesOne
<1> QED BY <1>1, <1>2 DEF Port

LEMMA TcpTakesOne ==
  ASSUME NEW x \in Handles, x.type = "ethernet", NEW win, NEW address,
         NEW o \in tcpclient_open(x, win, address)
  PROVE  TakesOne(x, o)
<1>1. CASE o = Outcome([x EXCEPT !.tcp = Closed], -1)
  <2>1. o.h.files = x.files /\ o.ret # 0
    BY <1>1 DEF Outcome, Handles
  <2> QED BY <2>1 DEF TakesOne, Taken
<1>2. ASSUME NEW d \in Unused(x), NEW ret,
             o = Outcome([Opened(x, d) EXCEPT !.tcp = d], ret)
      PROVE  TakesOne(x, o)
  <2>1. o.h.files = [x.files EXCEPT ![d] = "driver"] /\ InUse(o.h) = d
    BY <1>2 DEF Outcome, Opened, InUse, Handles
  <2>2. Taken(o.h) \subseteq Taken(x) \cup {d}
    BY <2>1 DEF Taken, Handles
  <2> QED BY <2>1, <2>2 DEF TakesOne
<1>3. ASSUME NEW d \in Unused(x), NEW ret \in {-1, -2, -3, -4},
             o = Outcome(GivesUp(x, d), ret)
      PROVE  TakesOne(x, o)
  <2>1. d # Closed /\ o.h.files = [[x.files EXCEPT ![d] = "driver"] EXCEPT ![d] = "none"]
        /\ o.ret # 0
    BY <1>3, DescriptorsAssumption
    DEF Outcome, GivesUp, tcpclient_close, Opened, Released, Unused, Handles
  <2>2. Taken(o.h) \subseteq Taken(x)
    BY <2>1 DEF Taken, Handles
  <2> QED BY <2>1, <2>2 DEF TakesOne
<1> QED BY <1>1, <1>2, <1>3 DEF tcpclient_open

LEMMA OpeningTakesOne ==
  ASSUME NEW x \in Handles, NEW type \in {"serial", "ethernet"},
         NEW win, NEW valid, NEW o \in connection_open(x, type, win, valid)
  PROVE  TakesOne(x, o)
<1> DEFINE y == [x EXCEPT !.type = type]
<1>1. y \in Handles /\ y.type = type /\ Taken(y) = Taken(x)
  BY DEF Handles, Taken
<1>2. o \in IF type = "ethernet" THEN tcpclient_open(y, win, valid)
            ELSE IF win THEN serial_open_windows(y) ELSE serial_open_linux(y, valid)
  BY DEF connection_open
<1> HIDE DEF y
<1>3. TakesOne(y, o)
  <2>1. CASE type = "ethernet"
    BY <1>1, <1>2, <2>1, TcpTakesOne
  <2>2. CASE type = "serial"
    <3>1. \E ret \in Int : o \in Port(y, ret)
      BY <1>2, <2>2 DEF serial_open_windows, serial_open_linux
    <3> QED BY <1>1, <2>2, <3>1, PortTakesOne
  <2> QED BY <2>1, <2>2
<1> QED BY <1>1, <1>3 DEF TakesOne

\* The invariant: only a refused open() strands a descriptor.
StrandsRefused ==
  /\ "refused" \in DOMAIN past /\ past.refused \in Nat
  /\ impl.is_opened_ \in BOOLEAN
  /\ Cardinality(Stranded) <= past.refused

LEMMA StrandedFinite ==
  /\ IsFiniteSet(Stranded) /\ IsFiniteSet(Stranded')
  /\ Cardinality(Stranded) \in Nat /\ Cardinality(Stranded') \in Nat
<1>1. Stranded \subseteq Descriptors /\ Stranded' \subseteq Descriptors
  BY DEF Stranded, Taken
<1>2. IsFiniteSet(Stranded) /\ IsFiniteSet(Stranded')
  BY <1>1, FS_Subset, DescriptorsAssumption
<1> QED BY <1>2, FS_CardinalityType

\* It is kept by a step that strands nothing,
LEMMA StrandsNothing ==
  ASSUME StrandsRefused, Stranded' \subseteq Stranded, impl'.is_opened_ \in BOOLEAN,
         "refused" \in DOMAIN past', past'.refused = past.refused
  PROVE  StrandsRefused'
<1>1. Cardinality(Stranded') <= Cardinality(Stranded)
  BY FS_Subset, StrandedFinite
<1> QED BY <1>1, StrandedFinite DEF StrandsRefused

\* and by a refused open() that strands one.
LEMMA StrandsOne ==
  ASSUME StrandsRefused, NEW d, Stranded' \subseteq Stranded \cup {d},
         impl'.is_opened_ \in BOOLEAN,
         "refused" \in DOMAIN past', past'.refused = past.refused + 1
  PROVE  StrandsRefused'
<1>1. /\ IsFiniteSet(Stranded \cup {d})
      /\ \/ Cardinality(Stranded \cup {d}) = Cardinality(Stranded)
         \/ Cardinality(Stranded \cup {d}) = Cardinality(Stranded) + 1
  <2> DEFINE S == Stranded
  <2>1. IsFiniteSet(S)
    BY StrandedFinite
  <2> HIDE DEF S
  <2>2. /\ IsFiniteSet(S \cup {d})
        /\ \/ Cardinality(S \cup {d}) = Cardinality(S)
           \/ Cardinality(S \cup {d}) = Cardinality(S) + 1
    BY <2>1, FS_AddElement
  <2> QED BY <2>2 DEF S
<1>2. Cardinality(Stranded') <= Cardinality(Stranded \cup {d})
      /\ Cardinality(Stranded \cup {d}) \in Nat
  BY <1>1, FS_Subset, FS_CardinalityType
<1> QED BY <1>1, <1>2, StrandedFinite DEF StrandsRefused

LEMMA StrandsInit == Init => StrandsRefused
<1> SUFFICES ASSUME Init
             PROVE  StrandsRefused
  OBVIOUS
<1>1. Stranded = {}
  BY DEF Init, Stranded, Taken
<1> QED BY <1>1, FS_EmptySet DEF Init, StrandsRefused

\* What close() closes is not stranded afterwards.
LEMMA StrandedIsTaken ==
  ASSUME Connected
  PROVE  Taken(CloseFirst) = Stranded
  BY CloseGivesBack DEF CloseFirst, Stranded, Connected, OwnDescriptor

LEMMA OpenStrands ==
  ASSUME Connected, StrandsRefused, Open
  PROVE  StrandsRefused'
<1> DEFINE
      Ends(device, o) ==
        /\ h' = o.h
        /\ \/ o.ret = 0 /\ \E found : Opening(found, TRUE)
           \/ Opening(Nobody, FALSE)
<1>0. PICK device \in Devices, valid \in BOOLEAN :
        \E o \in connection_open(CloseFirst, device.type, windows, valid) : Ends(device, o)
  BY DEF Open
<1>1. PICK o \in connection_open(CloseFirst, device.type, windows, valid) : Ends(device, o)
  BY <1>0
<1>2. CloseFirst \in Handles
  BY ClosesFirst DEF Keeps
<1>3. device.type \in {"serial", "ethernet"}
  BY DriverAssumption
<1>4. TakesOne(CloseFirst, o)
  BY <1>2, <1>3, OpeningTakesOne
<1>5. CASE o.ret = 0 /\ \E found : Opening(found, TRUE)
  <2>1. impl'.is_opened_ = TRUE
    BY <1>5 DEF Opening, Fresh, Connected
  <2>2. Stranded' \subseteq Stranded
    BY <1>1, <1>4, <1>5, <2>1, StrandedIsTaken DEF TakesOne, Stranded
  <2>3. "refused" \in DOMAIN past' /\ past'.refused = past.refused
    BY <1>5 DEF Opening, StrandsRefused
  <2> QED BY <2>1, <2>2, <2>3, StrandsNothing
<1>6. CASE Opening(Nobody, FALSE)
  <2>1. impl'.is_opened_ = FALSE
    BY <1>6 DEF Opening, Fresh, Connected
  <2>2. PICK d : Taken(o.h) \subseteq Taken(CloseFirst) \cup {d}
    BY <1>4 DEF TakesOne
  <2>3. Stranded' \subseteq Stranded \cup {d}
    BY <1>1, <2>1, <2>2, StrandedIsTaken DEF Stranded
  <2>4. "refused" \in DOMAIN past' /\ past'.refused = past.refused + 1
    BY <1>6 DEF Opening, StrandsRefused
  <2> QED BY <2>1, <2>3, <2>4, StrandsOne
<1> QED BY <1>1, <1>5, <1>6

\* close() and reboot(): what was in use is given back.
LEMMA DisconnectedStrands ==
  ASSUME Connected, StrandsRefused, NEW keep \in BOOLEAN, Disconnected(keep),
         keep = FALSE => impl.is_opened_,
         "refused" \in DOMAIN past', past'.refused = past.refused
  PROVE  StrandsRefused'
<1>1. impl'.is_opened_ = keep
  BY DEF Disconnected, Connected
<1>2. Taken(h') = Taken(h) \ {InUse(h)}
  BY CloseGivesBack DEF Disconnected, Connected, OwnDescriptor
<1>3. Stranded' \subseteq Taken(h')
  BY DEF Stranded
<1>4. Stranded' \subseteq Stranded
  BY <1>2, <1>3 DEF Stranded
<1> QED BY <1>1, <1>4, StrandsNothing

\* The other calls have nothing to do with it.
LEMMA CallsKeepRefused ==
  ASSUME StrandsRefused, Driver, ~Open
  PROVE  "refused" \in DOMAIN past' /\ past'.refused = past.refused
<1> USE DEF StrandsRefused
<1>1. ASSUME NEW type \in Types, NEW times \in ScanTimes, Start(type, times)
      PROVE  "refused" \in DOMAIN past' /\ past'.refused = past.refused
  BY <1>1 DEF Start
<1>2. CASE Stop
  BY <1>2 DEF Stop
<1>3. CASE Get \/ StartRefused
  BY <1>3 DEF Get, StartRefused
<1>4. CASE Close \/ Reboot
  BY <1>4 DEF Close, Reboot
<1>5. ASSUME NEW type \in Types, SetMeasurementType(type)
      PROVE  "refused" \in DOMAIN past' /\ past'.refused = past.refused
  BY <1>5 DEF SetMeasurementType
<1>6. ASSUME NEW type \in Types, GetFails(type)
      PROVE  "refused" \in DOMAIN past' /\ past'.refused = past.refused
  BY <1>6 DEF GetFails
<1>7. CASE SetSensorTimeStamp
  BY <1>7 DEF SetSensorTimeStamp
<1>8. CASE CallInactive \/ SetWindow
  BY <1>8 DEF CallInactive, SetWindow
<1>9. CASE SetSensorTimeStampFails \/ Name \/ Ask
  BY <1>9 DEF SetSensorTimeStampFails, Name, Ask, Exchange, Unanswered
<1> QED BY <1>1, <1>2, <1>3, <1>4, <1>5, <1>6, <1>7, <1>8, <1>9 DEF Driver

\* Steps that leave the connection as it is strand nothing.
LEMMA SameStrands ==
  ASSUME StrandsRefused, SameConnection,
         "refused" \in DOMAIN past', past'.refused = past.refused
  PROVE  StrandsRefused'
<1>1. Stranded' = Stranded /\ impl'.is_opened_ \in BOOLEAN
  BY DEF SameConnection, Stranded, StrandsRefused
<1> QED BY <1>1, StrandsNothing

LEMMA NextStrands == Connected /\ StrandsRefused /\ [Next]_vars => StrandsRefused'
<1> SUFFICES ASSUME Connected, StrandsRefused, [Next]_vars
             PROVE  StrandsRefused'
  OBVIOUS
<1>1. CASE Open
  BY <1>1, OpenStrands
<1>2. CASE Driver /\ ~Open
  <2>1. "refused" \in DOMAIN past' /\ past'.refused = past.refused
    BY <1>2, CallsKeepRefused
  <2>2. CASE Close \/ Reboot
    <3>1. CASE Disconnected(FALSE) /\ impl.is_opened_
      BY <2>1, <3>1, DisconnectedStrands
    <3>2. CASE Disconnected(impl.is_opened_) /\ urg.is_active
      <4>1. impl.is_opened_ = TRUE
        BY <3>2 DEF Connected, ActiveIsConnected, StrandsRefused
      <4> QED BY <2>1, <3>2, <4>1, DisconnectedStrands
    <3>3. CASE UNCHANGED session
      BY <2>1, <3>3, SameStrands DEF session, SameConnection, Connected
    <3> QED BY <2>2, <3>1, <3>2, <3>3 DEF Close, Reboot
  <2>3. CASE ~Close /\ ~Reboot
    BY <1>2, <2>1, <2>3, CallsKeepConnection, SameStrands
  <2> QED BY <2>2, <2>3
<1>3. CASE Others
  <2>1. UNCHANGED <<impl, past>> /\ h'.type = h.type /\ h'.serial = h.serial /\ h'.tcp = h.tcp
    BY <1>3 DEF Others, Connected, Handles
  <2>2. Taken(h') = Taken(h)
    BY <1>3 DEF Others, Connected, Handles, Taken
  <2>3. Stranded' = Stranded
    BY <2>1, <2>2 DEF Stranded, InUse
  <2> QED BY <2>1, <2>3, StrandsNothing DEF StrandsRefused
<1>4. CASE Measure \/ Tick \/ UNCHANGED vars
  <2>1. UNCHANGED <<h, impl, past>>
    BY <1>4 DEF Measure, Tick, vars, session
  <2> QED BY <2>1, StrandsNothing DEF StrandsRefused, Stranded
<1> QED BY <1>1, <1>2, <1>3, <1>4 DEF Next

\* What the connection lost is stranded.
LEMMA LostIsStranded ==
  ASSUME Connected
  PROVE  Lost(h) \subseteq Stranded
  BY DescriptorsAssumption DEF Connected, Handles, Lost, Held, InUse, Stranded, Taken

\* Closing, opening and rebooting lose no descriptor but those of refused opens.
THEOREM RefusedOnlyLost == Spec => []LosesRefusedOnly
<1>1. Connected /\ StrandsRefused => LosesRefusedOnly
  <2> SUFFICES ASSUME Connected, StrandsRefused
               PROVE  LosesRefusedOnly
    OBVIOUS
  <2>1. IsFiniteSet(Lost(h)) /\ Cardinality(Lost(h)) <= Cardinality(Stranded)
    BY LostIsStranded, StrandedFinite, FS_Subset
  <2>2. Cardinality(Lost(h)) \in Nat
    BY <2>1, FS_CardinalityType
  <2> QED BY <2>1, <2>2, StrandedFinite DEF StrandsRefused, LosesRefusedOnly
<1>2. Spec => []StrandsRefused
  BY StrandsInit, NextStrands, StaysConnected, PTL DEF Spec
<1> QED BY <1>1, <1>2, StaysConnected, PTL

-----------------------------------------------------------------------------
(***************************************************************************)
(* The samples of set_sensor_time_stamp.                                   *)
(***************************************************************************)
\* A quotient is in a range that holds the dividend divided.
LEMMA QuotientBounds ==
  ASSUME NEW a \in Int, NEW b \in Nat \ {0}, NEW low \in Int, NEW high \in Int,
         b * low <= a, a <= b * high
  PROVE  Quotient(a, b) \in Int /\ low <= Quotient(a, b) /\ Quotient(a, b) <= high
<1>1. ASSUME NEW x \in Nat, NEW l \in Int, NEW g \in Int, b * l <= x, x <= b * g
      PROVE  x \div b \in Int /\ l <= x \div b /\ x \div b <= g
  <2> DEFINE q == x \div b
  <2>1. q \in Int /\ b * q <= x /\ x < b * (q + 1)
    OBVIOUS
  <2> HIDE DEF q
  <2>2. b * l < b * (q + 1) /\ b * q <= b * g
    <3>1. b * l \in Int /\ b * q \in Int /\ b * (q + 1) \in Int /\ b * g \in Int
      BY <2>1
    <3> QED BY <1>1, <2>1, <3>1
  <2>3. l < q + 1 /\ q <= g
    <3>1. ASSUME NEW y \in Int, NEW z \in Int, b * y < b * z
          PROVE  y < z
      BY <3>1
    <3>2. ASSUME NEW y \in Int, NEW z \in Int, b * y <= b * z
          PROVE  y <= z
      BY <3>2
    <3> QED BY <2>1, <2>2, <3>1, <3>2
  <2> QED BY <2>1, <2>3 DEF q
<1>2. CASE a >= 0
  BY <1>1, <1>2 DEF Quotient
<1>3. CASE a < 0
  <2>1. -a \in Nat /\ b * (-high) <= -a /\ -a <= b * (-low) /\ -high \in Int /\ -low \in Int
    BY <1>3
  <2>2. (-a) \div b \in Int /\ -high <= (-a) \div b /\ (-a) \div b <= -low
    BY <1>1, <2>1
  <2> QED BY <1>3, <2>2 DEF Quotient
<1> QED BY <1>2, <1>3

-----------------------------------------------------------------------------
(***************************************************************************)
(* Induction over the numbers, as a fact about sets: it follows from the   *)
(* library's theorem that a set of numbers has a least one.                *)
(***************************************************************************)
Less == {p \in Nat \X Nat : p[1] < p[2]}
LEMMA LessWF == IsWellFoundedOn(Less, Nat)
<1>1. OpToRel(<, Nat) = Less
  BY DEF OpToRel, Less
<1> QED BY <1>1, NatLessThanWellFounded

\* A set that holds 0, and with each number the next one, holds them all.
LEMMA Induction ==
  ASSUME NEW S, 0 \in S, \A k \in Nat : k \in S => k + 1 \in S
  PROVE  \A k \in Nat : k \in S
<1> SUFFICES ASSUME Nat \ S # {}
             PROVE  FALSE
  OBVIOUS
<1>1. PICK least \in Nat \ S : \A k \in Nat \ S : <<k, least>> \notin Less
  BY LessWF, WFMin
<1>2. least # 0 /\ least - 1 \in Nat /\ <<least - 1, least>> \in Less
  BY <1>1 DEF Less
<1> QED BY <1>1, <1>2

-----------------------------------------------------------------------------
(***************************************************************************)
(* f[i] is start and the first i values of g.                              *)
(***************************************************************************)
Sums(f, n, start, g) ==
  f = [i \in 0 .. n |-> IF i = 0 THEN start ELSE f[i - 1] + g[i]]

LEMMA SumsExist ==
  ASSUME NEW m \in Nat, NEW start \in Int, NEW g, \A i \in 1 .. m : g[i] \in Int
  PROVE  \E f \in [0 .. m -> Int] : Sums(f, m, start, g)
<1> DEFINE Good == {n \in Nat : n <= m => \E f \in [0 .. n -> Int] : Sums(f, n, start, g)}
<1>1. 0 \in Good
  <2> DEFINE f == [i \in 0 .. 0 |-> start]
  <2>1. f \in [0 .. 0 -> Int] /\ Sums(f, 0, start, g)
    BY DEF Sums
  <2> QED BY <2>1
<1>2. ASSUME NEW n \in Nat, n \in Good
      PROVE  n + 1 \in Good
  <2> SUFFICES ASSUME n + 1 <= m
               PROVE  \E f \in [0 .. n + 1 -> Int] : Sums(f, n + 1, start, g)
    OBVIOUS
  <2>1. PICK f \in [0 .. n -> Int] : Sums(f, n, start, g)
    BY <1>2
  <2> DEFINE e == [i \in 0 .. n + 1 |-> IF i = n + 1 THEN f[n] + g[n + 1] ELSE f[i]]
  <2>2. f[n] + g[n + 1] \in Int
    BY <2>1
  <2>3. e \in [0 .. n + 1 -> Int]
    BY <2>1, <2>2
  <2>4. ASSUME NEW i \in 0 .. n + 1
        PROVE  e[i] = IF i = 0 THEN start ELSE e[i - 1] + g[i]
    <3>1. CASE i = n + 1
      <4>1. i # 0 /\ i - 1 = n /\ n # n + 1 /\ n \in 0 .. n + 1
        BY <3>1
      <4> QED BY <3>1, <4>1
    <3>2. CASE i # n + 1
      <4>1. i \in 0 .. n /\ (i # 0 => i - 1 \in 0 .. n /\ i - 1 # n + 1 /\ i - 1 \in 0 .. n + 1)
        BY <3>2
      <4>2. f[i] = IF i = 0 THEN start ELSE f[i - 1] + g[i]
        BY <2>1, <4>1 DEF Sums
      <4>3. e[i] = f[i] /\ (i # 0 => e[i - 1] = f[i - 1])
        BY <3>2, <4>1
      <4> QED BY <4>2, <4>3
    <3> QED BY <3>1, <3>2
  <2>5. Sums(e, n + 1, start, g)
    <3> HIDE DEF e
    <3> QED BY <2>3, <2>4 DEF Sums
  <2> HIDE DEF e
  <2> QED BY <2>3, <2>5
<1> HIDE DEF Good
<1>3. \A n \in Nat : n \in Good
  BY <1>1, <1>2, Induction
<1> QED BY <1>3 DEF Good

\* Such a function is one of numbers.
LEMMA SumsAre ==
  ASSUME NEW m \in Nat, NEW start \in Int, NEW g, \A i \in 1 .. m : g[i] \in Int,
         NEW f, Sums(f, m, start, g)
  PROVE  /\ f[0] = start
         /\ \A i \in 0 .. m : f[i] \in Int
         /\ \A i \in 1 .. m : f[i] = f[i - 1] + g[i]
<1>1. f[0] = start
  BY DEF Sums
<1>2. ASSUME NEW i \in 1 .. m
      PROVE  f[i] = f[i - 1] + g[i]
  <2>1. i \in 0 .. m /\ i # 0
    OBVIOUS
  <2> QED BY <2>1 DEF Sums
<1> DEFINE Good == {n \in Nat : n <= m => f[n] \in Int}
<1>3. 0 \in Good
  BY <1>1
<1>4. ASSUME NEW n \in Nat, n \in Good
      PROVE  n + 1 \in Good
  <2> SUFFICES ASSUME n + 1 <= m
               PROVE  f[n + 1] \in Int
    OBVIOUS
  <2>1. n + 1 \in 1 .. m /\ (n + 1) - 1 = n
    OBVIOUS
  <2>2. f[n + 1] = f[n] + g[n + 1]
    BY <1>2, <2>1
  <2> QED BY <1>4, <2>1, <2>2
<1> HIDE DEF Good
<1>5. \A n \in Nat : n \in Good
  BY <1>3, <1>4, Induction
<1> QED BY <1>1, <1>2, <1>5 DEF Good

\* Two such functions agree where both are defined.
LEMMA SumsAgree ==
  ASSUME NEW m \in Nat, NEW n \in Nat, n <= m, NEW start \in Int, NEW g,
         \A i \in 1 .. m : g[i] \in Int,
         NEW e, Sums(e, m, start, g), NEW f, Sums(f, n, start, g)
  PROVE  e[n] = f[n]
<1> DEFINE Good == {k \in Nat : k <= n => e[k] = f[k]}
<1>1. e[0] = start /\ \A i \in 1 .. m : e[i] = e[i - 1] + g[i]
  BY SumsAre
<1>2. \A i \in 1 .. n : g[i] \in Int
  OBVIOUS
<1>3. f[0] = start /\ \A i \in 1 .. n : f[i] = f[i - 1] + g[i]
  BY <1>2, SumsAre
<1>4. 0 \in Good
  BY <1>1, <1>3
<1>5. ASSUME NEW k \in Nat, k \in Good
      PROVE  k + 1 \in Good
  <2> SUFFICES ASSUME k + 1 <= n
               PROVE  e[k + 1] = f[k + 1]
    OBVIOUS
  <2>1. k + 1 \in 1 .. m /\ k + 1 \in 1 .. n /\ (k + 1) - 1 = k
    OBVIOUS
  <2>2. e[k + 1] = e[k] + g[k + 1] /\ f[k + 1] = f[k] + g[k + 1]
    BY <1>1, <1>3, <2>1
  <2> QED BY <1>5, <2>2
<1> HIDE DEF Good
<1>6. \A k \in Nat : k \in Good
  BY <1>4, <1>5, Induction
<1> QED BY <1>6 DEF Good

\* A sum of values in a range is in that many times the range.
LEMMA SumsBounded ==
  ASSUME NEW m \in Nat, NEW g, \A i \in 1 .. m : g[i] \in Int,
         NEW f, Sums(f, m, 0, g), NEW low \in Int, NEW high \in Int,
         \A i \in 1 .. m : low <= g[i] /\ g[i] <= high
  PROVE  m * low <= f[m] /\ f[m] <= m * high
<1> DEFINE Good == {k \in Nat : k <= m => k * low <= f[k] /\ f[k] <= k * high}
<1>1. f[0] = 0 /\ (\A i \in 0 .. m : f[i] \in Int) /\ \A i \in 1 .. m : f[i] = f[i - 1] + g[i]
  BY SumsAre
<1>2. 0 \in Good
  BY <1>1
<1>3. ASSUME NEW k \in Nat, k \in Good
      PROVE  k + 1 \in Good
  <2> SUFFICES ASSUME k + 1 <= m
               PROVE  (k + 1) * low <= f[k + 1] /\ f[k + 1] <= (k + 1) * high
    OBVIOUS
  <2>1. k + 1 \in 1 .. m /\ (k + 1) - 1 = k /\ k \in 0 .. m
    OBVIOUS
  <2>2. f[k + 1] = f[k] + g[k + 1] /\ f[k] \in Int /\ g[k + 1] \in Int
        /\ low <= g[k + 1] /\ g[k + 1] <= high
    BY <1>1, <2>1
  <2>3. k * low <= f[k] /\ f[k] <= k * high
    BY <1>3, <2>1
  <2>4. (k + 1) * low = k * low + low /\ (k + 1) * high = k * high + high
        /\ k * low \in Int /\ k * high \in Int
    OBVIOUS
  <2> QED BY <2>2, <2>3, <2>4
<1> HIDE DEF Good
<1>4. \A k \in Nat : k \in Good
  BY <1>2, <1>3, Induction
<1> QED BY <1>4 DEF Good

-----------------------------------------------------------------------------
\* What each exchange takes
Took(delays) == [i \in 1 .. Average_times |-> delays[i].out + delays[i].back]

\* PC time goes on by what the exchanges take.
LEMMA AfterIsSum ==
  ASSUME NEW delays \in Delays, NEW n \in 0 .. Average_times, NEW f,
         Sums(f, n, now, Took(delays))
  PROVE  \E e : Sums(e, n, now, Took(delays)) /\ After(delays, n) = e[n]
<1> DEFINE Is(e) == e = [i \in 0 .. n |-> IF i = 0 THEN now
                                          ELSE e[i - 1] + (delays[i].out + delays[i].back)]
           chosen == CHOOSE e : Is(e)
<1>1. ASSUME NEW e
      PROVE  Is(e) <=> Sums(e, n, now, Took(delays))
  <2>1. \A i \in 0 .. n : i # 0 => Took(delays)[i] = delays[i].out + delays[i].back
    BY DriverAssumption DEF Took
  <2> QED BY <2>1 DEF Sums
<1>2. Is(chosen)
  BY <1>1
<1>3. After(delays, n) = chosen[n]
  BY DEF After
<1> QED BY <1>1, <1>2, <1>3

\* The exchanges follow one another.
LEMMA AfterFollows ==
  ASSUME now \in Int, NEW delays \in Delays
  PROVE  /\ \A n \in 0 .. Average_times : After(delays, n) \in Int
         /\ After(delays, 0) = now
         /\ \A n \in 1 .. Average_times :
              After(delays, n) = After(delays, n - 1) + (delays[n].out + delays[n].back)
<1> DEFINE N == Average_times
           g == Took(delays)
<1>1. N \in Nat /\ \A i \in 1 .. N : /\ g[i] = delays[i].out + delays[i].back
                                     /\ g[i] \in Int
  BY DriverAssumption DEF Delays, Took
<1>2. PICK f \in [0 .. N -> Int] : Sums(f, N, now, g)
  <2> HIDE DEF N, g
  <2> QED BY <1>1, SumsExist
<1>3. ASSUME NEW n \in 0 .. N
      PROVE  After(delays, n) = f[n]
  <2>0. n \in Nat /\ n <= N /\ \A i \in 1 .. n : g[i] \in Int
    BY <1>1
  <2>1. \E e : Sums(e, n, now, g)
    <3> HIDE DEF N, g
    <3> QED BY <2>0, SumsExist
  <2>2. PICK e : Sums(e, n, now, g) /\ After(delays, n) = e[n]
    BY <2>1, AfterIsSum
  <2>3. /\ N \in Nat /\ n \in Nat /\ n <= N /\ now \in Int
        /\ \A i \in 1 .. N : g[i] \in Int
        /\ Sums(f, N, now, g) /\ Sums(e, n, now, g)
    BY <1>1, <1>2, <2>0, <2>2
  <2> HIDE DEF N, g
  <2>4. f[n] = e[n]
    BY <2>3, SumsAgree, SMTT(60)
  <2> QED BY <2>2, <2>4
<1>4. f[0] = now /\ \A i \in 1 .. N : f[i] = f[i - 1] + g[i]
  <2>1. N \in Nat /\ now \in Int /\ \A i \in 1 .. N : g[i] \in Int
    BY <1>1
  <2>2. Sums(f, N, now, g)
    BY <1>2
  <2> HIDE DEF N, g
  <2> QED BY <2>1, <2>2, SumsAre, SMTT(60)
<1>5. \A n \in 1 .. N : n \in 0 .. N /\ n - 1 \in 0 .. N
  BY <1>1
<1>6. 0 \in 0 .. N
  BY <1>1
<1> HIDE DEF N, g
<1>7. \A n \in 0 .. N : f[n] \in Int
  BY <1>2
<1> QED BY <1>1, <1>3, <1>4, <1>5, <1>6, <1>7 DEF N

\* ... and never back.
LEMMA AfterGrows ==
  ASSUME now \in Int, NEW delays \in Delays, NEW n \in 0 .. Average_times, NEW m \in 0 .. n
  PROVE  After(delays, m) <= After(delays, n)
<1> DEFINE N == Average_times
           A(k) == After(delays, k)
           Good == {k \in Nat : k <= N => \A j \in 0 .. k : A(j) <= A(k)}
<1>1. /\ N \in Nat /\ \A k \in 0 .. N : A(k) \in Int
      /\ \A k \in 1 .. N : A(k) = A(k - 1) + (delays[k].out + delays[k].back)
  BY AfterFollows, DriverAssumption
<1>2. \A k \in 1 .. N : delays[k].out \in Nat /\ delays[k].back \in Nat
  BY DriverAssumption DEF Delays
<1> HIDE DEF N, A
<1>3. 0 \in Good
  <2>1. A(0) \in Int
    BY <1>1
  <2>2. \A j \in 0 .. 0 : j = 0
    OBVIOUS
  <2> QED BY <2>1, <2>2
<1>4. ASSUME NEW k \in Nat, k \in Good
      PROVE  k + 1 \in Good
  <2> SUFFICES ASSUME k + 1 <= N, NEW j \in 0 .. k + 1
               PROVE  A(j) <= A(k + 1)
    OBVIOUS
  <2>1. k + 1 \in 1 .. N /\ (k + 1) - 1 = k /\ k \in 0 .. N /\ k + 1 \in 0 .. N /\ j \in 0 .. N
    BY <1>1
  <2>2. A(k + 1) = A(k) + (delays[k + 1].out + delays[k + 1].back)
    BY <1>1, <2>1
  <2>3. A(k) <= A(k + 1) /\ A(k) \in Int /\ A(k + 1) \in Int /\ A(j) \in Int
    BY <1>1, <1>2, <2>1, <2>2
  <2>4. j = k + 1 \/ j \in 0 .. k
    OBVIOUS
  <2>5. j \in 0 .. k => A(j) <= A(k)
    BY <1>1, <1>4, <2>1
  <2> QED BY <2>3, <2>4, <2>5
<1> HIDE DEF Good
<1>5. \A k \in Nat : k \in Good
  BY <1>3, <1>4, Induction
<1>6. n \in Nat /\ n <= N
  BY <1>1 DEF N
<1> QED BY <1>5, <1>6 DEF Good, A

\* The turn of a clock is that of its ends for what is between them, and the rest
\* is what the sensor shows.
LEMMA TurnsKept ==
  ASSUME NEW w \in Nat \ {0}, NEW a \in Int, NEW b \in Int, NEW x \in Int,
         a <= x, x <= b, a \div w = b \div w
  PROVE  x \div w = a \div w /\ x % w = x - w * (a \div w)
<1> DEFINE p == a \div w
           q == x \div w
           r == b \div w
<1>1. p \in Int /\ w * p <= a /\ a < w * (p + 1)
  OBVIOUS
<1>2. q \in Int /\ w * q <= x /\ x < w * (q + 1) /\ x % w = x - w * q
  OBVIOUS
<1>3. r \in Int /\ w * r <= b /\ b < w * (r + 1)
  OBVIOUS
<1>4. p = r
  OBVIOUS
<1> HIDE DEF p, q, r
<1>5. w * p \in Int /\ w * q \in Int /\ w * (q + 1) \in Int /\ w * (r + 1) \in Int
  BY <1>1, <1>2, <1>3
<1>6. w * p < w * (q + 1) /\ w * q < w * (r + 1)
  BY <1>1, <1>2, <1>3, <1>5
<1>7. ASSUME NEW y \in Int, NEW z \in Int, w * y < w * z
      PROVE  y < z
  BY <1>7
<1>8. p < q + 1 /\ q < r + 1
  BY <1>1, <1>2, <1>3, <1>6, <1>7
<1>9. q = p
  BY <1>1, <1>2, <1>3, <1>4, <1>8
<1> QED BY <1>2, <1>9 DEF p, q

\* To half of the longest delay
Within(x, exact) == exact - (MaxDelay + 1) \div 2 <= x /\ x <= exact + MaxDelay \div 2

\* A sample is a number; if the exchange was answered and the clock has not turned
\* over, it is the difference of the two clocks to half of what it may take longer
\* one way than the other.
LEMMA SampleBounds ==
  ASSUME now \in Int, zero[peer] \in Int, NEW delays \in Delays, NEW i \in 1 .. Average_times,
         NEW lost
  PROVE  /\ Sample(delays, lost, i) \in Int
         /\ lost = {} /\ Turn(now) = Turn(After(delays, Average_times)) =>
              Within(Sample(delays, lost, i), zero[peer] + Wrap * Turn(now))
<1> DEFINE N == Average_times
           out == delays[i].out
           back == delays[i].back
           before == After(delays, i - 1)
           after == After(delays, i)
           last == After(delays, N)
           ticks == IF i \in lost THEN NO_RESPONSE ELSE SensorClock(before + out)
           z == zero[peer]
<1>1. MaxDelay \in Nat /\ N \in Nat \ {0} /\ Wrap \in Nat \ {0}
  BY DriverAssumption
<1>2. out \in 0 .. MaxDelay /\ back \in 0 .. MaxDelay
  BY DEF Delays
<1>3. i - 1 \in 0 .. N /\ i \in 0 .. N /\ N \in 0 .. N /\ 0 \in 0 .. i - 1 /\ i \in 0 .. N
  BY <1>1
<1>4. before \in Int /\ after \in Int /\ last \in Int /\ after = before + (out + back)
  BY <1>3, AfterFollows
<1>5. now <= before /\ after <= last
  BY <1>3, AfterFollows, AfterGrows
<1>6. (before + out) - z \in Int /\ now - z \in Int /\ last - z \in Int
  BY <1>1, <1>2, <1>4
<1>7. ticks \in Int
  BY <1>1, <1>6 DEF SensorClock, NO_RESPONSE
<1>8. Sample(delays, lost, i) = before + Quotient(after - before, 2) - ticks
  BY DEF Sample, Difference
<1>9. Quotient(after - before, 2) = (out + back) \div 2 /\ (out + back) \div 2 \in Int
  BY <1>1, <1>2, <1>4 DEF Quotient
<1>10. ASSUME lost = {}, Turn(now) = Turn(last)
       PROVE  Within(Sample(delays, lost, i), z + Wrap * Turn(now))
  <2>1. (now - z) \div Wrap = (last - z) \div Wrap /\ ticks = ((before + out) - z) % Wrap
    BY <1>10 DEF Turn, SensorClock
  <2>2. now - z <= (before + out) - z /\ (before + out) - z <= last - z
    BY <1>1, <1>2, <1>4, <1>5
  <2>3. ticks = ((before + out) - z) - Wrap * ((now - z) \div Wrap)
    BY <1>1, <1>6, <2>1, <2>2, TurnsKept
  <2> DEFINE t == Wrap * Turn(now)
  <2>4. t \in Int /\ z \in Int /\ ticks = ((before + out) - z) - t
    BY <1>1, <1>6, <2>3 DEF Turn
  <2> HIDE DEF t, before, after, out, back, ticks, z
  <2>5. Within(before + (out + back) \div 2 - ticks, z + t)
    BY <1>1, <1>2, <1>4, <2>4 DEF Within
  <2> QED BY <1>8, <1>9, <2>5 DEF t
<1> HIDE DEF before, after, out, back, ticks, z
<1>11. Sample(delays, lost, i) \in Int
  BY <1>4, <1>7, <1>8, <1>9
<1> QED BY <1>10, <1>11 DEF z, last

\* The sum of the samples
LEMMA AverageIsSum ==
  ASSUME NEW delays, NEW lost, NEW g, NEW f, Sums(f, Average_times, 0, g),
         \A i \in 1 .. Average_times : g[i] = Sample(delays, lost, i)
  PROVE  \E e : Sums(e, Average_times, 0, g)
                /\ Average(delays, lost) = Quotient(e[Average_times], Average_times)
<1> DEFINE N == Average_times
           Is(e) == e = [i \in 0 .. N |-> IF i = 0 THEN 0 ELSE e[i - 1] + Sample(delays, lost, i)]
           chosen == CHOOSE e : Is(e)
<1>1. ASSUME NEW e
      PROVE  Is(e) <=> Sums(e, N, 0, g)
  <2>1. \A i \in 0 .. N : i # 0 => g[i] = Sample(delays, lost, i)
    BY DriverAssumption
  <2> QED BY <2>1 DEF Sums
<1>2. Is(chosen)
  BY <1>1
<1>3. Average(delays, lost) = Quotient(chosen[N], N)
  BY DEF Average
<1> HIDE DEF Is, chosen
<1> QED BY <1>1, <1>2, <1>3

\* The average is a number, and as near to the difference of the clocks as a sample.
LEMMA AverageBounds ==
  ASSUME now \in Int, zero[peer] \in Int, NEW delays \in Delays, NEW lost
  PROVE  /\ Average(delays, lost) \in Int
         /\ lost = {} /\ Turn(now) = Turn(After(delays, Average_times)) =>
              Within(Average(delays, lost), zero[peer] + Wrap * Turn(now))
<1> DEFINE N == Average_times
           g == [i \in 1 .. N |-> Sample(delays, lost, i)]
           exact == zero[peer] + Wrap * Turn(now)
           low == exact - (MaxDelay + 1) \div 2
           high == exact + MaxDelay \div 2
<1>1. N \in Nat \ {0} /\ Wrap \in Nat \ {0} /\ MaxDelay \in Nat
  BY DriverAssumption
<1>2. \A i \in 1 .. N : g[i] = Sample(delays, lost, i) /\ g[i] \in Int
  BY SampleBounds
<1>3. low \in Int /\ high \in Int
  <2>1. now - zero[peer] \in Int
    OBVIOUS
  <2>2. Turn(now) \in Int
    BY <1>1, <2>1 DEF Turn
  <2>3. exact \in Int
    BY <1>1, <2>2
  <2> QED BY <1>1, <2>3
<1>4. PICK e : Sums(e, N, 0, g) /\ Average(delays, lost) = Quotient(e[N], N)
  <2>1. \E f : Sums(f, N, 0, g)
    <3> HIDE DEF N, g
    <3> QED BY <1>1, <1>2, SumsExist
  <2>2. \A i \in 1 .. Average_times : g[i] = Sample(delays, lost, i)
    BY <1>2
  <2> HIDE DEF g
  <2> QED BY <2>1, <2>2, AverageIsSum
<1>5. e[N] \in Int
  <2>1. N \in Nat /\ N \in 0 .. N /\ \A i \in 1 .. N : g[i] \in Int
    BY <1>1, <1>2
  <2> HIDE DEF N, g
  <2> QED BY <1>4, <2>1, SumsAre, SMTT(60)
<1>6. Average(delays, lost) \in Int
  BY <1>1, <1>4, <1>5 DEF Quotient
<1>7. ASSUME lost = {}, Turn(now) = Turn(After(delays, N))
      PROVE  Within(Average(delays, lost), exact)
  <2>1. \A i \in 1 .. N : low <= g[i] /\ g[i] <= high
    BY <1>2, <1>7, SampleBounds DEF Within
  <2>2. N * low <= e[N] /\ e[N] <= N * high
    <3> HIDE DEF N, g, low, high
    <3> QED BY <1>1, <1>2, <1>3, <1>4, <2>1, SumsBounded, SMTT(60)
  <2>3. low <= Quotient(e[N], N) /\ Quotient(e[N], N) <= high
    <3> HIDE DEF N, g, low, high
    <3> QED BY <1>1, <1>3, <1>5, <2>2, QuotientBounds
  <2> QED BY <1>4, <2>3 DEF Within
<1> QED BY <1>6, <1>7

-----------------------------------------------------------------------------
(***************************************************************************)
(* Data.  What the driver keeps and hands out belongs to the sensor it is  *)
(* connected to now, and to the measurement that was started last.         *)
(***************************************************************************)
Names == {<<>>, NotConnected, ReceiveError} \cup {<<d.id, tag>> : d \in Devices, tag \in Kinds}
Streams == [type : Measurements, once : BOOLEAN, left : Int, first : Int, last : Int, skip : Int]
Scans == [k : {"scan"}, type : Measurements, once : BOOLEAN, first : Int, last : Int,
          skip : Int, taken : Int, stamp : Int, intact : BOOLEAN]
Refusals == [k : {"refused"}, first : Int]
Items == Scans \cup Refusals \cup {Stopped, Rest}

AnyWindow == Int \X Int \X Int
Urgs == [is_active : BOOLEAN, is_sending : BOOLEAN, is_laser_on : BOOLEAN,
         first_data_index : Int, last_data_index : Int,
         front_data_index : Int, received_first_index : Int, scanning : AnyWindow,
         specified_scan_times : Int, scanning_remain_times : Nat]
Impls == [is_opened_ : BOOLEAN, last_measure_type_ : Measurements,
          time_stamp_offset_ : Int, names : [Kinds -> Names]]
Doings == [stream : Streams \cup {NoStream}, tm : BOOLEAN]

ResultTyped == result.data \in Scans \cup {NoScan} /\ result.stamp \in Int

Typed ==
  /\ urg \in Urgs /\ impl \in Impls /\ peer \in Devices \cup {Nobody}
  /\ sensor \in Doings /\ line \in Seq(Items)
  /\ now \in Int /\ zero \in [Devices -> Int]
  /\ ResultTyped /\ past \in History

Silent == line = <<>> /\ sensor.stream = NoStream

\* Without a connection nothing comes; the parameters are those of the sensor.
Attached ==
  /\ ~urg.is_active => Silent
  /\ urg.is_active =>
       /\ peer \in Devices
       /\ urg.first_data_index = peer.first /\ urg.last_data_index = peer.last
       /\ urg.front_data_index = peer.front

\* On the line and in the stream is what was started last, of a single scan nothing
\* else, and of finitely many no more than are still to be read.
Ordered(items, stream, type, left, times) ==
  /\ \A i \in 1 .. Len(items) :
       /\ items[i] \notin {Stopped, Rest}
       /\ items[i] \in Scans => items[i].type = type
       /\ items[i] \in Scans /\ items[i].once => Len(items) = 1 /\ stream = NoStream
  /\ stream # NoStream =>
       /\ stream.type = type
       /\ stream.once => items = <<>> /\ stream.left = 1
  /\ times > 1 =>
       /\ stream # NoStream => stream.left >= 1
       /\ Len(items) + (IF stream = NoStream THEN 0 ELSE stream.left) <= left

\* So it is as long as the application starts nothing on a pending measurement and
\* nothing goes astray; and only while the measurement is pending.
Orderly ==
  past.tidy /\ ~past.astray =>
    /\ Ordered(line, sensor.stream, impl.last_measure_type_,
               urg.scanning_remain_times, urg.specified_scan_times)
    /\ ~past.pending => Silent

\* A scan of this sensor, whose clock was 0 at this tick
From(scan, device, start) ==
  /\ scan.first >= device.first /\ scan.last <= device.last
  /\ scan.stamp = (scan.taken - start) % Wrap

\* What comes is from the sensor at the other end.
Coming(items, stream) ==
  /\ \A i \in 1 .. Len(items) :
       items[i] \in Scans => items[i].intact /\ From(items[i], peer, zero[peer])
  /\ stream # NoStream => stream.first >= peer.first /\ stream.last <= peer.last

Traced == Coming(line, sensor.stream)

\* ... and so is the one handed out last, with its time stamp in PC time.
HandedOut ==
  result.op = "get" /\ result.data # NoScan =>
    /\ urg.is_active /\ From(result.data, peer, zero[peer])
    /\ Readable => urg.received_first_index = result.data.first
    /\ result.data.intact => result.stamp = adjust_time_stamp(result.data.stamp)

\* The offset is that between the two clocks.
Synchronized ==
  past.sync.valid /\ urg.is_active =>
    Within(impl.time_stamp_offset_ - (past.sync.asked - past.sync.at),
           zero[peer] + Wrap * past.sync.turn)

-----------------------------------------------------------------------------
(***************************************************************************)
(* Reading.  What every outcome of a call that reads has in common with    *)
(* what the call began with.                                               *)
(***************************************************************************)
Outcomes ==
  [items : Seq(Items), stream : Streams \cup {NoStream}, sending : BOOLEAN, lit : BOOLEAN,
   left : Nat, first : Int, astray : BOOLEAN, faults : Nat,
   ret : {"none", "data", "nothing", "stopped", "error"},
   scan : Scans \cup {NoScan}, stamp : Int]

Sound(s) ==
  /\ s \in Outcomes /\ Coming(s.items, s.stream)
  /\ s.scan # NoScan => From(s.scan, peer, zero[peer])

\* Nothing that has a first step is on the line.
Barren(s) == \A i \in 1 .. Len(s.items) : s.items[i] \in {Stopped, Rest}

Follows(s, x) ==
  /\ Sound(x)
  /\ s.astray => x.astray
  /\ x.left <= s.left /\ (x.left # s.left => urg.specified_scan_times > 1)
  /\ Barren(s) => Barren(x) /\ x.first = s.first

\* Items that were there, answers and rests
Made(items, from) ==
  /\ items \in Seq(Items)
  /\ \A i \in 1 .. Len(items) :
       items[i] \in {Stopped, Rest} \/ \E j \in 1 .. Len(from) : items[i] = from[j]

LEMMA Kinds4 ==
  /\ \A item \in Scans : item.k = "scan" /\ item \in Items
  /\ \A item \in Refusals : item.k = "refused" /\ item \in Items
  /\ Stopped.k = "stopped" /\ Rest.k = "rest" /\ NoScan.k = "nothing"
  /\ Stopped \in Items /\ Rest \in Items
  /\ Stopped \notin Scans /\ Rest \notin Scans /\ NoScan \notin Scans
  /\ \A item \in Items : item.k = "scan" => item \in Scans
  /\ \A item \in Items : item.k = "refused" => item \in Refusals
<1>1. Stopped.k = "stopped" /\ Rest.k = "rest" /\ NoScan.k = "nothing"
  BY DEF Stopped, Rest, NoScan
<1>2. \A item \in Scans : item.k = "scan"
  BY DEF Scans
<1>3. \A item \in Refusals : item.k = "refused"
  BY DEF Refusals
<1> QED BY <1>1, <1>2, <1>3 DEF Items

LEMMA MadeEmpty == \A from : Made(<<>>, from)
  BY DEF Made

LEMMA MadeSame ==
  ASSUME NEW items \in Seq(Items)
  PROVE  Made(items, items)
  BY DEF Made

LEMMA MadeTail ==
  ASSUME NEW items \in Seq(Items), items # <<>>
  PROVE  /\ Made(Tail(items), items) /\ Made(AndRest(Tail(items)), items)
         /\ Head(items) = items[1] /\ 1 \in 1 .. Len(items) /\ Head(items) \in Items
         /\ Tail(items) \in Seq(Items) /\ Len(Tail(items)) = Len(items) - 1 /\ Len(items) \in Nat
         /\ \A i \in 1 .. Len(Tail(items)) : Tail(items)[i] = items[i + 1] /\ i + 1 \in 1 .. Len(items)
         /\ Len(AndRest(Tail(items))) # 0
<1> DEFINE more == Tail(items)
<1>1. /\ more \in Seq(Items) /\ Len(more) = Len(items) - 1 /\ Len(items) \in Nat /\ Len(items) > 0
      /\ \A i \in 1 .. Len(more) : more[i] = items[i + 1] /\ i + 1 \in 1 .. Len(items)
      /\ Head(items) = items[1] /\ 1 \in 1 .. Len(items) /\ Head(items) \in Items
  OBVIOUS
<1>2. Made(more, items)
  BY <1>1 DEF Made
<1>3. <<Rest>> \in Seq(Items) /\ Len(<<Rest>>) = 1 /\ <<Rest>>[1] = Rest
  BY Kinds4
<1> HIDE DEF more
<1>4. /\ AndRest(more) \in Seq(Items) /\ Len(AndRest(more)) = 1 + Len(more)
      /\ \A i \in 1 .. Len(AndRest(more)) :
           AndRest(more)[i] = IF i <= 1 THEN <<Rest>>[i] ELSE more[i - 1]
  BY <1>1, <1>3 DEF AndRest
<1>5. Made(AndRest(more), items)
  <2>1. ASSUME NEW i \in 1 .. Len(AndRest(more))
        PROVE  AndRest(more)[i] = Rest \/ \E j \in 1 .. Len(items) : AndRest(more)[i] = items[j]
    <3>1. CASE i = 1
      BY <1>3, <1>4, <3>1
    <3>2. CASE i # 1
      <4>1. AndRest(more)[i] = more[i - 1] /\ i - 1 \in 1 .. Len(more)
        BY <1>1, <1>4, <3>2
      <4> QED BY <1>1, <4>1
    <3> QED BY <3>1, <3>2
  <2> QED BY <1>4, <2>1 DEF Made
<1> QED BY <1>1, <1>2, <1>4, <1>5 DEF more

LEMMA MadeAppend ==
  ASSUME NEW from, NEW items, Made(items, from)
  PROVE  Made(Append(items, Stopped), from)
<1>1. items \in Seq(Items) /\ Len(items) \in Nat
  BY DEF Made
<1>2. /\ Append(items, Stopped) \in Seq(Items) /\ Len(Append(items, Stopped)) = Len(items) + 1
      /\ Append(items, Stopped)[Len(items) + 1] = Stopped
      /\ \A i \in 1 .. Len(items) : Append(items, Stopped)[i] = items[i]
  BY <1>1, Kinds4
<1>3. \A i \in 1 .. Len(Append(items, Stopped)) : i = Len(items) + 1 \/ i \in 1 .. Len(items)
  BY <1>1, <1>2
<1> QED BY <1>2, <1>3 DEF Made

\* An outcome whose line is made of the old one follows.
LEMMA Changed ==
  ASSUME NEW s, Sound(s), NEW x \in Outcomes, Made(x.items, s.items),
         x.stream \in {s.stream, NoStream},
         x.scan # NoScan => From(x.scan, peer, zero[peer]),
         s.astray => x.astray,
         x.left <= s.left, x.left # s.left => urg.specified_scan_times > 1,
         Barren(s) => x.first = s.first
  PROVE  Follows(s, x)
<1>1. Coming(x.items, x.stream)
  BY Kinds4 DEF Sound, Coming, Made
<1>2. Barren(s) => Barren(x)
  BY DEF Barren, Made
<1> QED BY <1>1, <1>2 DEF Follows, Sound

LEMMA FollowsSame ==
  ASSUME NEW s, Sound(s)
  PROVE  Follows(s, s)
<1>1. s.left \in Int
  BY DEF Sound, Outcomes
<1> QED BY <1>1 DEF Follows

LEMMA FollowsOn ==
  ASSUME NEW s, NEW x, NEW y, Sound(s), Follows(s, x), Follows(x, y)
  PROVE  Follows(s, y)
<1>1. s.left \in Int /\ x.left \in Int /\ y.left \in Int
  BY DEF Follows, Sound, Outcomes
<1> QED BY <1>1 DEF Follows

LEMMA FaultyFollows ==
  ASSUME NEW s, Sound(s), NEW x \in Faulty(s)
  PROVE  /\ Follows(s, x)
         /\ x = [s EXCEPT !.faults = @ + 1]
         /\ x.items = s.items /\ x.sending = s.sending
<1>1. x = [s EXCEPT !.faults = @ + 1]
  BY DEF Faulty
<1>2. s \in Outcomes
  BY DEF Sound
<1>3. /\ x \in Outcomes /\ x.items = s.items /\ x.stream = s.stream /\ x.scan = s.scan
      /\ x.astray = s.astray /\ x.left = s.left /\ x.first = s.first /\ x.sending = s.sending
  BY <1>1, <1>2 DEF Outcomes
<1>4. Made(x.items, s.items) /\ x.left \in Int
  BY <1>2, <1>3, MadeSame DEF Outcomes
<1>5. x.scan # NoScan => From(x.scan, peer, zero[peer])
  BY <1>3 DEF Sound
<1>6. Follows(s, x)
  <2>1. x.left <= s.left
    BY <1>3, <1>4
  <2> QED BY <1>3, <1>4, <1>5, <2>1, Changed
<1> QED BY <1>1, <1>3, <1>6

LEMMA DrainedFollows ==
  ASSUME NEW s, Sound(s), NEW items, Made(items, s.items)
  PROVE  Follows(s, Drained(s, items)) /\ Drained(s, items).ret = "error"
<1> DEFINE x == Drained(s, items)
<1>1. s \in Outcomes /\ items \in Seq(Items)
  BY DEF Sound, Made
<1>2. Made(Append(items, Stopped), s.items) /\ Made(<<>>, s.items)
      /\ Append(items, Stopped) \in Seq(Items) /\ <<>> \in Seq(Items)
  BY MadeAppend, MadeEmpty DEF Made
<1>3. /\ x \in Outcomes /\ x.items \in {<<>>, items, Append(items, Stopped)}
      /\ x.stream \in {s.stream, NoStream} /\ x.scan = s.scan /\ x.left = s.left
      /\ x.first = s.first /\ (s.astray => x.astray) /\ x.ret = "error"
  <2>1. CASE s.sending
    BY <1>1, <1>2, <2>1 DEF Drained, Fails, Outcomes
  <2>2. CASE ~s.sending /\ s.lit
    BY <1>1, <1>2, <2>2 DEF Drained, Fails, Outcomes
  <2>3. CASE ~s.sending /\ ~s.lit
    BY <1>1, <1>2, <2>3 DEF Drained, Fails, Outcomes
  <2> QED BY <2>1, <2>2, <2>3
<1> HIDE DEF x
<1>4. Made(x.items, s.items)
  <2>1. CASE x.items = <<>>
    BY <1>2, <2>1
  <2>2. CASE x.items = items
    BY <2>2
  <2>3. CASE x.items = Append(items, Stopped)
    BY <1>2, <2>3
  <2> QED BY <1>3, <2>1, <2>2, <2>3
<1>5. x.scan # NoScan => From(x.scan, peer, zero[peer])
  BY <1>3 DEF Sound
<1>6. x.left <= s.left
  <2>1. s.left \in Int
    BY <1>1 DEF Outcomes
  <2> QED BY <1>3, <2>1
<1> QED BY <1>3, <1>4, <1>5, <1>6, Changed DEF x

LEMMA DrainsFollow ==
  ASSUME NEW s, Sound(s), NEW items, Made(items, s.items), NEW x \in Drains(s, items)
  PROVE  Follows(s, x) /\ x.ret = "error"
<1>1. CASE x = Drained(s, items)
  BY <1>1, DrainedFollows
<1>2. ASSUME NEW y \in Faulty(s), y.sending,
             x = [Drained(y, items) EXCEPT !.items = <<Stopped>>, !.astray = TRUE]
      PROVE  Follows(s, x) /\ x.ret = "error"
  <2> DEFINE d == Drained(y, items)
  <2>1. Follows(s, y) /\ y.items = s.items /\ Sound(y)
    BY FaultyFollows DEF Follows
  <2>2. Follows(y, d) /\ d.ret = "error"
    BY <2>1, DrainedFollows
  <2>3. Follows(s, d) /\ Sound(d) /\ d \in Outcomes
    BY <2>1, <2>2, FollowsOn DEF Follows, Sound
  <2>4. <<Stopped>> \in Seq(Items) /\ Made(<<Stopped>>, s.items)
    BY Kinds4 DEF Made
  <2> HIDE DEF d
  <2>5. /\ x \in Outcomes /\ x.items = <<Stopped>> /\ x.stream = d.stream /\ x.scan = d.scan
        /\ x.left = d.left /\ x.first = d.first /\ x.astray /\ x.ret = "error"
    BY <1>2, <2>2, <2>3, <2>4 DEF Outcomes, d
  <2>6. Made(<<Stopped>>, d.items) /\ x.left \in Int
    BY <2>4, <2>5 DEF Made, Outcomes
  <2>7. Follows(d, x)
    <3>1. x.scan # NoScan => From(x.scan, peer, zero[peer])
      BY <2>3, <2>5 DEF Sound
    <3> QED BY <2>3, <2>5, <2>6, <3>1, Changed
  <2> QED BY <2>3, <2>5, <2>7, FollowsOn
<1> QED BY <1>1, <1>2 DEF Drains

\* What is read next is the head of the line.
LEMMA HeadComes ==
  ASSUME NEW s, Sound(s), s.items # <<>>
  PROVE  /\ Head(s.items) \in Items
         /\ Head(s.items) \in Scans =>
              Head(s.items).intact /\ From(Head(s.items), peer, zero[peer])
         /\ Barren(s) => Head(s.items) \in {Stopped, Rest}
         /\ Made(Tail(s.items), s.items) /\ Made(AndRest(Tail(s.items)), s.items)
<1>1. s.items \in Seq(Items)
  BY DEF Sound, Outcomes
<1>2. /\ Head(s.items) = s.items[1] /\ 1 \in 1 .. Len(s.items) /\ Head(s.items) \in Items
      /\ Made(Tail(s.items), s.items) /\ Made(AndRest(Tail(s.items)), s.items)
  BY <1>1, MadeTail
<1> QED BY <1>2 DEF Sound, Coming, Barren

LEMMA EchoedFollows ==
  ASSUME NEW s, Sound(s), s.items # <<>>
  PROVE  LET x == Echoed(s, Head(s.items))
         IN  /\ Follows(s, x)
             /\ x.items = s.items /\ x.stream = s.stream /\ x.left = s.left
             /\ x.astray = s.astray /\ x.faults = s.faults
<1> DEFINE item == Head(s.items)
           first == IF item.k \in {"scan", "refused"} THEN item.first ELSE s.first
           x == Echoed(s, item)
<1>1. item \in Items /\ (Barren(s) => item \in {Stopped, Rest})
  BY HeadComes
<1>2. first \in Int /\ (Barren(s) => first = s.first)
  <2>1. s.first \in Int
    BY DEF Sound, Outcomes
  <2>2. CASE item.k \in {"scan", "refused"}
    <3>1. item \in Scans \cup Refusals
      BY <1>1, <2>2, Kinds4
    <3>2. item.first \in Int
      BY <3>1 DEF Scans, Refusals
    <3>3. item # Stopped /\ item # Rest
      BY <2>2, Kinds4
    <3> QED BY <1>1, <2>2, <3>2, <3>3
  <2>3. CASE item.k \notin {"scan", "refused"}
    BY <2>1, <2>3
  <2> QED BY <2>2, <2>3
<1> HIDE DEF item
<1>3. x = [s EXCEPT !.first = first]
  BY DEF Echoed
<1> HIDE DEF first, x
<1>4. s \in Outcomes
  BY DEF Sound
<1>5. /\ x \in Outcomes /\ x.items = s.items /\ x.stream = s.stream /\ x.scan = s.scan
      /\ x.astray = s.astray /\ x.left = s.left /\ x.first = first /\ x.faults = s.faults
  BY <1>2, <1>3, <1>4 DEF Outcomes
<1>6. Made(x.items, s.items) /\ x.left <= s.left
  <2>1. s.items \in Seq(Items) /\ s.left \in Int
    BY <1>4 DEF Outcomes
  <2> QED BY <1>5, <2>1, MadeSame
<1>7. x.scan # NoScan => From(x.scan, peer, zero[peer])
  BY <1>5 DEF Sound
<1>8. Follows(s, x)
  BY <1>2, <1>5, <1>6, <1>7, Changed
<1> QED BY <1>5, <1>8 DEF x, item

LEMMA CountedFollows ==
  ASSUME NEW s, Sound(s)
  PROVE  LET x == Counted(s)
         IN  /\ Follows(s, x)
             /\ x.items = s.items /\ x.stream = s.stream /\ x.first = s.first
             /\ x.astray = s.astray /\ x.faults = s.faults
             /\ urg.specified_scan_times > 1 /\ s.left > 0 => x.left = s.left - 1
<1> DEFINE left == IF urg.specified_scan_times > 1 /\ s.left > 0 THEN s.left - 1 ELSE s.left
           x == Counted(s)
<1>1. s \in Outcomes /\ s.left \in Nat
  BY DEF Sound, Outcomes
<1>2. left \in Nat /\ left <= s.left /\ (left # s.left => urg.specified_scan_times > 1)
  <2>1. CASE urg.specified_scan_times > 1 /\ s.left > 0
    BY <1>1, <2>1
  <2>2. CASE ~(urg.specified_scan_times > 1 /\ s.left > 0)
    <3>1. left = s.left
      BY <2>2
    <3> QED BY <1>1, <3>1
  <2> QED BY <2>1, <2>2
<1>3. urg.specified_scan_times > 1 /\ s.left > 0 => left = s.left - 1
  OBVIOUS
<1>4. x = [s EXCEPT !.left = left]
  BY <1>1 DEF Counted, Outcomes
<1> HIDE DEF left, x
<1>5. /\ x \in Outcomes /\ x.items = s.items /\ x.stream = s.stream /\ x.scan = s.scan
      /\ x.astray = s.astray /\ x.left = left /\ x.first = s.first /\ x.faults = s.faults
  BY <1>1, <1>2, <1>4 DEF Outcomes
<1>6. Made(x.items, s.items)
  <2>1. s.items \in Seq(Items)
    BY <1>1 DEF Outcomes
  <2> QED BY <1>5, <2>1, MadeSame
<1>7. x.scan # NoScan => From(x.scan, peer, zero[peer])
  BY <1>5 DEF Sound
<1>8. Follows(s, x)
  BY <1>2, <1>5, <1>6, <1>7, Changed
<1> QED BY <1>3, <1>5, <1>8 DEF x

LEMMA FailsIsEmpty ==
  ASSUME NEW s, NEW items
  PROVE  Fails(s, items) = Empty(s, items, "error")
  BY DEF Fails, Empty

LEMMA EmptyFollows ==
  ASSUME NEW s, Sound(s), NEW items, Made(items, s.items), NEW ret,
         ret \in {"nothing", "stopped", "error"},
         NEW x, x = Empty(s, items, ret)
  PROVE  /\ Follows(s, x)
         /\ x.ret = ret /\ x.items = items /\ x.stream = s.stream /\ x.left = s.left
         /\ x.astray = s.astray
<1>1. s \in Outcomes /\ items \in Seq(Items) /\ s.left \in Int
  BY DEF Sound, Made, Outcomes
<1>2. /\ x \in Outcomes /\ x.items = items /\ x.stream = s.stream /\ x.scan = s.scan
      /\ x.astray = s.astray /\ x.left = s.left /\ x.first = s.first /\ x.ret = ret
  BY <1>1 DEF Outcomes, Empty
<1>3. x.scan # NoScan => From(x.scan, peer, zero[peer])
  BY <1>2 DEF Sound
<1>4. Made(x.items, s.items) /\ x.left <= s.left
  BY <1>1, <1>2
<1>5. Follows(s, x)
  BY <1>2, <1>3, <1>4, Changed
<1> QED BY <1>2, <1>5

TakenAway(s, items, scan, stamp, first, astray) ==
  [Handed(s, items, scan, stamp) EXCEPT !.first = first, !.astray = astray]

\* A scan that is read: undamaged it is stamped as it says, and begins where it does.
LEMMA HandedFollows ==
  ASSUME NEW s, Sound(s), s.items # <<>>, NEW items, Made(items, s.items),
         NEW scan \in Scans, From(scan, peer, zero[peer]), scan.first = Head(s.items).first,
         Expected(Head(s.items)), NEW stamp \in Int, NEW first \in Int, NEW astray \in BOOLEAN,
         s.astray => astray,
         NEW x, x = TakenAway(s, items, scan, stamp, first, astray)
  PROVE  /\ Follows(s, x) /\ Sound(x)
         /\ x.ret = "data" /\ x.scan = scan /\ x.stamp = stamp /\ x.first = first
         /\ x.items = items /\ x.stream = s.stream /\ x.astray = astray
         /\ x.left = Counted(s).left
<1> DEFINE c == Counted(s)
           y == [c EXCEPT !.first = first, !.items = items, !.ret = "data",
                          !.scan = scan, !.stamp = stamp, !.astray = astray]
<1>1. Follows(s, c) /\ c.items = s.items /\ c.stream = s.stream /\ c.astray = s.astray
  BY CountedFollows
<1>2. Sound(c) /\ c \in Outcomes /\ items \in Seq(Items)
  BY <1>1 DEF Follows, Sound, Made
<1>3. x = y
  BY <1>2 DEF TakenAway, Handed, Echoed, Outcomes
<1> HIDE DEF c
<1>4. /\ y \in Outcomes /\ y.ret = "data" /\ y.scan = scan /\ y.stamp = stamp
      /\ y.first = first /\ y.items = items /\ y.stream = c.stream /\ y.astray = astray
      /\ y.left = c.left
  BY <1>2 DEF Outcomes
<1> HIDE DEF y
<1>5. ~Barren(c)
  <2>1. Head(s.items).k = "scan"
    BY DEF Expected
  <2>2. Head(s.items) # Stopped /\ Head(s.items) # Rest
    BY <2>1, Kinds4
  <2> QED BY <1>1, <1>2, <2>2, HeadComes
<1>6. Follows(c, y)
  <2>1. y.left \in Int
    BY <1>4 DEF Outcomes
  <2>2. Made(y.items, c.items) /\ y.left <= c.left
    BY <1>1, <1>4, <2>1
  <2>3. c.astray => y.astray
    BY <1>1, <1>4
  <2> QED BY <1>2, <1>4, <1>5, <2>2, <2>3, Changed
<1>7. Follows(s, y)
  BY <1>1, <1>6, FollowsOn
<1> QED BY <1>1, <1>3, <1>4, <1>7 DEF Follows, c

\* What is handed out is a scan; undamaged it came with its stamp and first step.
HandsOut(x) ==
  x.ret = "data" =>
    /\ x.scan \in Scans
    /\ x.scan.intact => x.first = x.scan.first /\ x.stamp = x.scan.stamp

\* No answer and no rest is on the line.
Clean(s) == \A i \in 1 .. Len(s.items) : s.items[i] \notin {Stopped, Rest}

\* A read of such a line goes astray, or takes the first item or all of them away, and
\* hands out at most the first; it counts what it hands out.
Neat(s, x) ==
  \/ x.astray
  \/ /\ x.ret \in {"data", "error"} /\ x.stream \in {s.stream, NoStream}
     /\ \/ x.items = s.items /\ x.stream = s.stream /\ x.left = s.left /\ x.ret = "error"
        \/ s.items # <<>> /\ x.items = <<>> /\ x.left \in {s.left, Counted(s).left}
             /\ x.ret = "error"
        \/ /\ s.items # <<>> /\ x.items = Tail(s.items)
           /\ x.stream = s.stream /\ x.left = Counted(s).left /\ x.ret = "data"
           /\ Expected(Head(s.items)) /\ x.scan.type = Head(s.items).type

Reads(s, x) == Follows(s, x) /\ HandsOut(x) /\ (Clean(s) => Neat(s, x))

LEMMA DrainsNeat ==
  ASSUME NEW s \in Outcomes, NEW items, NEW x \in Drains(s, items)
  PROVE  \/ x.astray
         \/ x.items = <<>> /\ x.stream \in {s.stream, NoStream} /\ x.left = s.left
<1>1. CASE x = Drained(s, items)
  <2>1. CASE s.sending
    BY <1>1, <2>1 DEF Drained, Fails, Outcomes
  <2>2. CASE ~s.sending /\ s.lit
    BY <1>1, <2>2 DEF Drained, Fails, Outcomes
  <2>3. CASE ~s.sending /\ ~s.lit
    <3>1. x = [Fails(s, items) EXCEPT !.astray = @ \/ items # <<>>]
      BY <1>1, <2>3 DEF Drained
    <3> QED BY <3>1 DEF Fails, Outcomes
  <2> QED BY <2>1, <2>2, <2>3
<1>2. ASSUME NEW y \in Faulty(s), y.sending,
             x = [Drained(y, items) EXCEPT !.items = <<Stopped>>, !.astray = TRUE]
      PROVE  x.astray
  <2>1. y = [s EXCEPT !.faults = @ + 1]
    BY DEF Faulty
  <2>2. Drained(y, items) = [Fails(y, <<>>) EXCEPT !.stream = NoStream, !.sending = FALSE,
                                                   !.lit = FALSE]
    BY <1>2 DEF Drained
  <2> QED BY <1>2, <2>1, <2>2 DEF Fails, Outcomes
<1> QED BY <1>1, <1>2 DEF Drains

\* Reading everything away, after the head of the line was looked at
LEMMA DrainsRead ==
  ASSUME NEW s, Sound(s), s.items # <<>>,
         NEW y, Sound(y), Follows(s, y), y.items = s.items, y.stream = s.stream,
         y.left \in {s.left, Counted(s).left},
         NEW items, Made(items, s.items), NEW x \in Drains(y, items)
  PROVE  Reads(s, x)
<1>1. Follows(y, x) /\ x.ret = "error"
  BY DrainsFollow
<1>2. Follows(s, x)
  BY <1>1, FollowsOn
<1>3. Neat(s, x)
  <2>1. y \in Outcomes
    BY DEF Sound
  <2>2. \/ x.astray
        \/ x.items = <<>> /\ x.stream \in {y.stream, NoStream} /\ x.left = y.left
    BY <2>1, DrainsNeat
  <2> QED BY <1>1, <2>2 DEF Neat
<1> QED BY <1>1, <1>2, <1>3 DEF Reads, HandsOut

LEMMA UndisturbedReads ==
  ASSUME NEW s, Sound(s), NEW x \in Undisturbed(s)
  PROVE  Reads(s, x)
<1> DEFINE item == Head(s.items)
           more == Tail(s.items)
<1>1. CASE s.items = <<>>
  <2>1. x = Empty(s, <<>>, "error")
    BY <1>1, FailsIsEmpty DEF Undisturbed
  <2>2. /\ Follows(s, x) /\ x.ret = "error" /\ x.items = <<>>
        /\ x.stream = s.stream /\ x.left = s.left
    BY <2>1, MadeEmpty, EmptyFollows
  <2> QED BY <1>1, <2>2 DEF Reads, HandsOut, Neat
<1>2. CASE s.items # <<>>
  <2>1. /\ item \in Items /\ (item \in Scans => item.intact /\ From(item, peer, zero[peer]))
        /\ Made(more, s.items) /\ Made(AndRest(more), s.items) /\ Made(s.items, s.items)
    <3>1. s.items \in Seq(Items)
      BY DEF Sound, Outcomes
    <3> QED BY <1>2, <3>1, HeadComes, MadeSame
  <2>2. Clean(s) => item \notin {Stopped, Rest}
    <3>1. s.items \in Seq(Items)
      BY DEF Sound, Outcomes
    <3>2. item = s.items[1] /\ 1 \in 1 .. Len(s.items)
      BY <1>2, <3>1, MadeTail
    <3> HIDE DEF item
    <3> QED BY <3>2 DEF Clean
  <2>3. \/ item = Stopped /\ x = Empty(s, more, "stopped")
        \/ item # Stopped /\ Expected(item) /\ x = Handed(s, more, item, item.stamp)
        \/ item = Rest /\ x = Empty(s, more, "error")
        \/ item = Rest /\ x = Empty(s, more, "nothing")
        \/ x \in Drains(s, more) \/ x \in Drains(s, s.items)
        \/ x \in Drains(Echoed(s, item), AndRest(more))
    BY <1>2, FailsIsEmpty DEF Undisturbed
  <2>4. ASSUME NEW ret \in {"nothing", "stopped", "error"},
               x = Empty(s, more, ret), item \in {Stopped, Rest}
        PROVE  Reads(s, x)
    <3>1. Follows(s, x) /\ x.ret = ret
      BY <2>1, <2>4, EmptyFollows
    <3> QED BY <2>2, <2>4, <3>1 DEF Reads, HandsOut
  <2>5. CASE item # Stopped /\ Expected(item) /\ x = Handed(s, more, item, item.stamp)
    <3>1. item \in Scans
      BY <2>1, <2>5, Kinds4 DEF Expected
    <3>2. item.stamp \in Int /\ item.first \in Int /\ s.astray \in BOOLEAN
      BY <3>1 DEF Scans, Sound, Outcomes
    <3> DEFINE y == TakenAway(s, more, item, item.stamp, item.first, s.astray)
    <3>3. /\ Follows(s, y) /\ Sound(y)
          /\ y.ret = "data" /\ y.scan = item /\ y.stamp = item.stamp /\ y.first = item.first
          /\ y.items = more /\ y.stream = s.stream /\ y.astray = s.astray
          /\ y.left = Counted(s).left
      BY <1>2, <2>1, <2>5, <3>1, <3>2, HandedFollows
    <3>4. y = x
      <4>1. Counted(s) \in Outcomes /\ Counted(s).astray = s.astray
        BY CountedFollows DEF Follows, Sound
      <4>2. item.k \in {"scan", "refused"}
        BY <2>5 DEF Expected
      <4> HIDE DEF item, more
      <4> QED BY <2>5, <4>1, <4>2 DEF TakenAway, Handed, Echoed, Outcomes
    <3> HIDE DEF y, item, more
    <3>5. HandsOut(x)
      BY <3>1, <3>3, <3>4 DEF HandsOut
    <3>6. Neat(s, x)
      BY <1>2, <2>5, <3>3, <3>4 DEF Neat, item, more
    <3> QED BY <3>3, <3>4, <3>5, <3>6 DEF Reads
  <2>6. CASE x \in Drains(s, more) \/ x \in Drains(s, s.items)
    BY <1>2, <2>1, <2>6, FollowsSame, DrainsRead
  <2>7. CASE x \in Drains(Echoed(s, item), AndRest(more))
    <3> DEFINE y == Echoed(s, item)
    <3>1. Follows(s, y) /\ y.items = s.items /\ y.stream = s.stream /\ y.left = s.left
      BY <1>2, EchoedFollows
    <3>2. Sound(y) /\ x \in Drains(y, AndRest(more))
      BY <2>7, <3>1 DEF Follows
    <3> HIDE DEF y
    <3> QED BY <1>2, <2>1, <3>1, <3>2, DrainsRead
  <2> QED BY <2>3, <2>4, <2>5, <2>6, <2>7
<1> QED BY <1>1, <1>2

LEMMA SpoiledReads ==
  ASSUME NEW s, Sound(s), s.items # <<>>, Expected(Head(s.items)),
         NEW x \in Spoiled(s, Head(s.items), Tail(s.items))
  PROVE  Reads(s, x)
<1> DEFINE item == Head(s.items)
           more == Tail(s.items)
           scan == [item EXCEPT !.intact = FALSE]
<1>1. /\ item \in Scans /\ From(item, peer, zero[peer])
      /\ Made(more, s.items) /\ Made(AndRest(more), s.items)
  BY HeadComes, Kinds4 DEF Expected
<1>2. /\ scan \in Scans /\ From(scan, peer, zero[peer]) /\ scan.first = item.first
      /\ scan.type = item.type /\ scan.intact = FALSE
  <2> HIDE DEF item
  <2> QED BY <1>1 DEF Scans, From
<1>3. PICK items \in {more, AndRest(more)}, stamp \in {0, item.stamp}, first \in {0, item.first} :
        x = [Handed(s, items, scan, stamp) EXCEPT !.first = first, !.astray = @ \/ items # more]
  <2> DEFINE F(a, b, c) == [Handed(s, a, [item EXCEPT !.intact = FALSE], b) EXCEPT
                              !.first = c, !.astray = @ \/ a # more]
  <2>1. Spoiled(s, item, more) =
          {F(a, b, c) : a \in {more, AndRest(more)}, b \in {0, item.stamp}, c \in {0, item.first}}
    BY DEF Spoiled
  <2>2. x \in Spoiled(s, item, more)
    OBVIOUS
  <2> HIDE DEF F, item, more
  <2>3. PICK a \in {more, AndRest(more)}, b \in {0, item.stamp}, c \in {0, item.first} :
          x = F(a, b, c)
    BY <2>1, <2>2
  <2> QED BY <2>3 DEF F
<1> DEFINE astray == s.astray \/ items # more
           y == TakenAway(s, items, scan, stamp, first, astray)
<1>4. stamp \in Int /\ first \in Int /\ Made(items, s.items) /\ astray \in BOOLEAN
  <2>1. item.stamp \in Int /\ item.first \in Int
    BY <1>1 DEF Scans
  <2>2. s.astray \in BOOLEAN
    BY DEF Sound, Outcomes
  <2> HIDE DEF item, more
  <2> QED BY <1>1, <2>1, <2>2
<1> HIDE DEF scan, item, more, astray
<1>5. /\ Follows(s, y) /\ Sound(y)
      /\ y.ret = "data" /\ y.scan = scan /\ y.items = items /\ y.stream = s.stream
      /\ y.astray = astray /\ y.left = Counted(s).left
  <2>1. s.astray => astray
    BY DEF astray
  <2> QED BY <1>1, <1>2, <1>4, <2>1, HandedFollows DEF item
<1>6. x = y
  <2>1. Counted(s) \in Outcomes /\ Counted(s).astray = s.astray
    BY CountedFollows DEF Follows, Sound
  <2>2. Handed(s, items, scan, stamp).astray = s.astray
    BY <2>1 DEF Handed, Echoed, Outcomes
  <2> QED BY <1>3, <2>2 DEF TakenAway, astray
<1> HIDE DEF y
<1>7. HandsOut(x)
  BY <1>2, <1>5, <1>6 DEF HandsOut
<1>8. Neat(s, x)
  BY <1>2, <1>3, <1>5, <1>6 DEF Neat, item, more, astray
<1> QED BY <1>5, <1>6, <1>7, <1>8 DEF Reads

\* Going on from an outcome that differs in nothing but its faults, or its first step
LEMMA ReadsOn ==
  ASSUME NEW s, NEW y, Sound(s), Follows(s, y), y.items = s.items, y.stream = s.stream,
         y.left = s.left, NEW x, Reads(y, x)
  PROVE  Reads(s, x)
<1>1. Follows(s, x)
  BY FollowsOn DEF Reads
<1>2. Clean(y) = Clean(s)
  BY DEF Clean
<1>3. Counted(y).left = Counted(s).left
  <2>1. s \in Outcomes /\ y \in Outcomes
    BY DEF Sound, Follows
  <2> QED BY <2>1 DEF Counted, Outcomes
<1>4. Neat(y, x) => Neat(s, x)
  BY <1>3 DEF Neat
<1> QED BY <1>1, <1>2, <1>4 DEF Reads

LEMMA DisturbedReads ==
  ASSUME NEW s, Sound(s), NEW x \in Disturbed(s)
  PROVE  Reads(s, x)
<1>1. PICK y \in Faulty(s) :
        \/ x = Empty(y, y.items, "error")
        \/ /\ y.items # <<>>
           /\ \/ \E z \in {y, Echoed(y, Head(y.items)), Counted(Echoed(y, Head(y.items)))},
                    items \in {Tail(y.items), AndRest(Tail(y.items))} : x \in Drains(z, items)
              \/ Expected(Head(y.items)) /\ x = Unread(y, Tail(y.items))
              \/ Expected(Head(y.items)) /\ x \in Spoiled(y, Head(y.items), Tail(y.items))
              \/ Head(y.items) = Stopped /\ x = Empty(y, Tail(y.items), "nothing")
  <2>1. PICK y \in Faulty(s) :
          \/ x = Fails(y, y.items)
          \/ y.items # <<>> /\ x \in Damaged(y, Head(y.items), Tail(y.items))
    BY DEF Disturbed
  <2>2. ASSUME x \in Damaged(y, Head(y.items), Tail(y.items))
        PROVE  \/ \E z \in {y, Echoed(y, Head(y.items)), Counted(Echoed(y, Head(y.items)))},
                     items \in {Tail(y.items), AndRest(Tail(y.items))} : x \in Drains(z, items)
               \/ Expected(Head(y.items)) /\ x = Unread(y, Tail(y.items))
               \/ Expected(Head(y.items)) /\ x \in Spoiled(y, Head(y.items), Tail(y.items))
               \/ Head(y.items) = Stopped /\ x = Empty(y, Tail(y.items), "nothing")
    BY <2>2 DEF Damaged
  <2> QED BY <2>1, <2>2, FailsIsEmpty
<1>2. Follows(s, y) /\ Sound(y) /\ y.items = s.items /\ y.stream = s.stream /\ y.left = s.left
  <2>1. Follows(s, y) /\ y = [s EXCEPT !.faults = @ + 1]
    BY FaultyFollows
  <2> QED BY <2>1 DEF Follows, Sound, Outcomes
<1> SUFFICES Reads(y, x)
  BY <1>2, ReadsOn
<1>3. y.items \in Seq(Items)
  BY <1>2 DEF Sound, Outcomes
<1>4. CASE x = Empty(y, y.items, "error")
  <2>1. /\ Follows(y, x) /\ x.ret = "error" /\ x.items = y.items
        /\ x.stream = y.stream /\ x.left = y.left
    BY <1>2, <1>3, <1>4, MadeSame, EmptyFollows
  <2> QED BY <2>1 DEF Reads, HandsOut, Neat
<1>5. ASSUME y.items # <<>>
      PROVE  /\ Made(Tail(y.items), y.items) /\ Made(AndRest(Tail(y.items)), y.items)
             /\ Head(y.items) = y.items[1] /\ 1 \in 1 .. Len(y.items)
  BY <1>3, <1>5, MadeTail
<1>6. ASSUME y.items # <<>>,
             NEW z \in {y, Echoed(y, Head(y.items)), Counted(Echoed(y, Head(y.items)))},
             NEW items \in {Tail(y.items), AndRest(Tail(y.items))}, x \in Drains(z, items)
      PROVE  Reads(y, x)
  <2> DEFINE e == Echoed(y, Head(y.items))
             c == Counted(e)
  <2>1. /\ Follows(y, e) /\ e.items = y.items /\ e.stream = y.stream /\ e.left = y.left
        /\ Sound(e)
    BY <1>2, <1>6, EchoedFollows DEF Follows
  <2> HIDE DEF e
  <2>2. /\ Follows(e, c) /\ c.items = y.items /\ c.stream = y.stream /\ Sound(c)
    BY <2>1, CountedFollows DEF Follows
  <2>3. c.left = Counted(y).left
    <3>1. y \in Outcomes /\ e \in Outcomes
      BY <1>2, <2>1 DEF Sound
    <3> QED BY <2>1, <3>1 DEF Counted, Outcomes
  <2>4. Follows(y, c) /\ Follows(y, y)
    BY <1>2, <2>1, <2>2, FollowsOn, FollowsSame
  <2>5. /\ Sound(z) /\ Follows(y, z) /\ z.items = y.items /\ z.stream = y.stream
        /\ z.left \in {y.left, Counted(y).left}
    <3> HIDE DEF c
    <3>1. z \in {y, e, c}
      BY <1>6 DEF e, c
    <3> QED BY <1>2, <2>1, <2>2, <2>3, <2>4, <3>1
  <2> QED BY <1>2, <1>5, <1>6, <2>5, DrainsRead
<1>7. ASSUME y.items # <<>>, Expected(Head(y.items)), x = Unread(y, Tail(y.items))
      PROVE  Reads(y, x)
  <2> DEFINE c == Counted(y)
             items == AndRest(Tail(y.items))
             e == Empty(c, items, "nothing")
  <2>1. Follows(y, c) /\ Sound(c) /\ c.items = y.items
    BY <1>2, CountedFollows DEF Follows
  <2>2. x = [e EXCEPT !.astray = TRUE] /\ Made(items, c.items)
    BY <1>5, <1>7, <2>1 DEF Unread
  <2> HIDE DEF c, items
  <2>3. Follows(c, e) /\ e.ret = "nothing" /\ e.items = items /\ Sound(e)
    BY <2>1, <2>2, EmptyFollows DEF Follows
  <2> HIDE DEF e
  <2>4. e \in Outcomes
    BY <2>3 DEF Sound
  <2>5. /\ x \in Outcomes /\ x.items = e.items /\ x.stream = e.stream /\ x.scan = e.scan
        /\ x.left = e.left /\ x.first = e.first /\ x.astray /\ x.ret = "nothing"
    BY <2>2, <2>3, <2>4 DEF Outcomes
  <2>6. Follows(e, x)
    <3>1. e.items \in Seq(Items) /\ e.left \in Int
      BY <2>4 DEF Outcomes
    <3>2. Made(x.items, e.items) /\ x.left <= e.left
      BY <2>5, <3>1, MadeSame
    <3>3. x.scan # NoScan => From(x.scan, peer, zero[peer])
      BY <2>3, <2>5 DEF Sound
    <3> QED BY <2>3, <2>5, <3>2, <3>3, Changed
  <2>7. Follows(y, x)
    BY <1>2, <2>1, <2>3, <2>6, FollowsOn
  <2> QED BY <2>5, <2>7 DEF Reads, HandsOut, Neat
<1>8. ASSUME y.items # <<>>, Expected(Head(y.items)),
             x \in Spoiled(y, Head(y.items), Tail(y.items))
      PROVE  Reads(y, x)
  BY <1>2, <1>8, SpoiledReads
<1>9. ASSUME y.items # <<>>, Head(y.items) = Stopped,
             x = Empty(y, Tail(y.items), "nothing")
      PROVE  Reads(y, x)
  <2>1. Follows(y, x) /\ x.ret = "nothing"
    BY <1>2, <1>5, <1>9, EmptyFollows
  <2>2. ~Clean(y)
    BY <1>5, <1>9 DEF Clean
  <2> QED BY <2>1, <2>2 DEF Reads, HandsOut
<1> QED BY <1>1, <1>4, <1>6, <1>7, <1>8, <1>9

\* What is passed over
LEMMA PassedOverFollows ==
  ASSUME NEW s, Sound(s), NEW x \in PassedOver(s)
  PROVE  Follows(s, x) /\ (Clean(s) => x = s)
<1>1. CASE x = s
  BY <1>1, FollowsSame
<1>2. ASSUME s.items # <<>>, Head(s.items) \in {Rest, Stopped},
             NEW y, y = s \/ y \in Faulty(s), x = [y EXCEPT !.items = Tail(@)]
      PROVE  Follows(s, x) /\ ~Clean(s)
  <2>1. Follows(s, y) /\ Sound(y) /\ y.items = s.items
    BY <1>2, FaultyFollows, FollowsSame DEF Follows
  <2>2. y \in Outcomes /\ s.items \in Seq(Items) /\ y.left \in Int
    BY <2>1 DEF Sound, Outcomes, Follows
  <2>3. Made(Tail(y.items), y.items) /\ Head(s.items) = s.items[1] /\ 1 \in 1 .. Len(s.items)
        /\ Tail(y.items) \in Seq(Items)
    BY <1>2, <2>1, <2>2, MadeTail
  <2>4. /\ x \in Outcomes /\ x.items = Tail(y.items) /\ x.stream = y.stream /\ x.scan = y.scan
        /\ x.left = y.left /\ x.first = y.first /\ x.astray = y.astray
    BY <1>2, <2>2, <2>3 DEF Outcomes
  <2>5. Follows(y, x)
    <3>1. Made(x.items, y.items) /\ x.left <= y.left
      BY <2>2, <2>3, <2>4
    <3>2. x.scan # NoScan => From(x.scan, peer, zero[peer])
      BY <2>1, <2>4 DEF Sound
    <3> QED BY <2>1, <2>4, <3>1, <3>2, Changed
  <2>6. ~Clean(s)
    BY <1>2, <2>3 DEF Clean
  <2> QED BY <2>1, <2>5, <2>6, FollowsOn
<1>3. \/ x = s
      \/ /\ s.items # <<>> /\ Head(s.items) \in {Rest, Stopped}
         /\ \E y \in {s} \cup Faulty(s) : x = [y EXCEPT !.items = Tail(@)]
  BY DEF PassedOver
<1> QED BY <1>1, <1>2, <1>3

\* One read
LEMMA ReadReads ==
  ASSUME NEW s, Sound(s), NEW x \in Read(s)
  PROVE  Reads(s, x)
<1>1. PICK y \in PassedOver(s) : x \in Undisturbed(y) \/ x \in Disturbed(y)
  BY DEF Read
<1>2. Follows(s, y) /\ Sound(y) /\ (Clean(s) => y = s)
  BY PassedOverFollows DEF Follows
<1>3. Reads(y, x)
  BY <1>1, <1>2, UndisturbedReads, DisturbedReads
<1> QED BY <1>2, <1>3, FollowsOn DEF Reads

\* The QT of a stop
LEMMA QTFollows ==
  ASSUME NEW s, Sound(s), NEW x \in QT(s)
  PROVE  Follows(s, x)
<1>1. CASE x = [s EXCEPT !.items = Append(@, Stopped), !.stream = NoStream]
  <2> DEFINE items == Append(s.items, Stopped)
  <2>1. Made(items, s.items)
    <3>1. s.items \in Seq(Items)
      BY DEF Sound, Outcomes
    <3> QED BY <3>1, MadeSame, MadeAppend
  <2>2. x = [s EXCEPT !.items = items, !.stream = NoStream]
    BY <1>1
  <2>3. s \in Outcomes /\ items \in Seq(Items) /\ s.left \in Int
    BY <2>1 DEF Sound, Outcomes, Made
  <2> HIDE DEF items
  <2>4. /\ x \in Outcomes /\ x.items = items /\ x.stream = NoStream /\ x.scan = s.scan
        /\ x.left = s.left /\ x.first = s.first /\ x.astray = s.astray
    BY <2>2, <2>3 DEF Outcomes
  <2>5. x.scan # NoScan => From(x.scan, peer, zero[peer])
    BY <2>4 DEF Sound
  <2>6. x.left <= s.left
    BY <2>3, <2>4
  <2> QED BY <2>1, <2>4, <2>5, <2>6, Changed
<1>2. ASSUME NEW y \in Faulty(s), x = y \/ x = [y EXCEPT !.stream = NoStream]
      PROVE  Follows(s, x)
  <2>1. Follows(s, y) /\ Sound(y)
    BY FaultyFollows DEF Follows
  <2>2. CASE x = [y EXCEPT !.stream = NoStream]
    <3>1. y \in Outcomes /\ y.items \in Seq(Items) /\ y.left \in Int
      BY <2>1 DEF Sound, Outcomes
    <3>2. /\ x \in Outcomes /\ x.items = y.items /\ x.stream = NoStream /\ x.scan = y.scan
          /\ x.left = y.left /\ x.first = y.first /\ x.astray = y.astray
      BY <2>2, <3>1 DEF Outcomes
    <3>3. x.scan # NoScan => From(x.scan, peer, zero[peer])
      BY <2>1, <3>2 DEF Sound
    <3>4. Made(x.items, y.items) /\ x.left <= y.left
      BY <3>1, <3>2, MadeSame
    <3>5. Follows(y, x)
      BY <2>1, <3>2, <3>3, <3>4, Changed
    <3> QED BY <2>1, <3>5, FollowsOn
  <2> QED BY <1>2, <2>1, <2>2
<1> QED BY <1>1, <1>2 DEF QT

\* What a stop comes to: if it is believed, and nothing went astray, nothing is left.
LEMMA ConcludedFollows ==
  ASSUME NEW s, Sound(s)
  PROVE  LET x == Concluded(s)
         IN  /\ Follows(s, x)
             /\ ~x.astray => x.items = <<>> /\ x.stream = NoStream
<1> DEFINE x == Concluded(s)
<1>1. s \in Outcomes /\ s.items \in Seq(Items) /\ s.left \in Int /\ s.astray \in BOOLEAN
  BY DEF Sound, Outcomes
<1>2. /\ x \in Outcomes /\ x.items = s.items /\ x.stream = s.stream /\ x.scan = s.scan
      /\ x.left = s.left /\ x.first = s.first /\ (s.astray => x.astray)
      /\ (~x.astray => s.items = <<>> /\ s.stream = NoStream)
  <2>1. CASE Ended(s)
    <3> DEFINE astray == s.astray \/ s.items # <<>> \/ s.stream # NoStream
    <3>1. x = [s EXCEPT !.sending = FALSE, !.lit = FALSE, !.astray = astray]
      BY <2>1 DEF Concluded
    <3>2. astray \in BOOLEAN /\ (s.astray => astray)
          /\ (~astray => s.items = <<>> /\ s.stream = NoStream)
      OBVIOUS
    <3> HIDE DEF astray, x
    <3> QED BY <1>1, <3>1, <3>2 DEF Outcomes
  <2>2. CASE ~Ended(s)
    BY <1>1, <2>2 DEF Concluded, Outcomes
  <2> QED BY <2>1, <2>2
<1> HIDE DEF x
<1>3. x.scan # NoScan => From(x.scan, peer, zero[peer])
  BY <1>2 DEF Sound
<1>4. Made(x.items, s.items) /\ x.left <= s.left
  BY <1>1, <1>2, MadeSame
<1>5. Follows(s, x)
  BY <1>2, <1>3, <1>4, Changed
<1> QED BY <1>2, <1>5 DEF x

\* The stop receive_data makes
LEMMA AutoStopFollows ==
  ASSUME NEW s, Sound(s), NEW x \in AutoStop(s)
  PROVE  /\ Follows(s, x)
         /\ ~x.astray => x.items = <<>> /\ x.stream = NoStream
<1> DEFINE t == [s EXCEPT !.ret = "none"]
<1>1. Follows(s, t) /\ Sound(t)
  <2>1. s \in Outcomes /\ s.items \in Seq(Items) /\ s.left \in Int
    BY DEF Sound, Outcomes
  <2>2. /\ t \in Outcomes /\ t.items = s.items /\ t.stream = s.stream /\ t.scan = s.scan
        /\ t.left = s.left /\ t.first = s.first /\ t.astray = s.astray
    BY <2>1 DEF Outcomes
  <2> HIDE DEF t
  <2>3. t.scan # NoScan => From(t.scan, peer, zero[peer])
    BY <2>2 DEF Sound
  <2>4. Made(t.items, s.items) /\ t.left <= s.left
    BY <2>1, <2>2, MadeSame
  <2> QED BY <2>2, <2>3, <2>4, Changed DEF Follows
<1> HIDE DEF t
<1>2. ASSUME NEW S, \A y \in S : Follows(s, y), NEW z \in ReadAgain(S)
      PROVE  Follows(s, z)
  <2>1. PICK y \in S : z = y \/ z \in Read(y)
    BY <1>2 DEF ReadAgain
  <2>2. Follows(s, y) /\ Sound(y)
    BY <1>2 DEF Follows
  <2> QED BY <2>1, <2>2, ReadReads, FollowsOn DEF Reads
<1> DEFINE A == QT(t)
           B == ReadAgain(A)
           C == ReadAgain(B)
           D == ReadAgain(C)
<1>3. \A y \in A : Follows(s, y)
  BY <1>1, QTFollows, FollowsOn
<1> HIDE DEF A
<1>4. \A y \in B : Follows(s, y)
  BY <1>2, <1>3
<1> HIDE DEF B
<1>5. \A y \in C : Follows(s, y)
  BY <1>2, <1>4
<1> HIDE DEF C
<1>6. \A y \in D : Follows(s, y)
  BY <1>2, <1>5
<1>7. PICK y \in D : x = Concluded(y)
  BY DEF AutoStop, A, B, C, t
<1> HIDE DEF D
<1>8. Follows(s, y) /\ Sound(y)
  BY <1>6 DEF Follows
<1> QED BY <1>7, <1>8, ConcludedFollows, FollowsOn

\* A call of receive_data, whose read x is the end of it or is followed by a stop
Receives(s, x, y) ==
  \/ y = x /\ ~(s.left > 0 /\ x.left = 0)
  \/ /\ s.left > 0 /\ x.left = 0 /\ y.left = 0
     /\ y.ret = x.ret /\ y.scan = x.scan /\ y.stamp = x.stamp
     /\ x.astray => y.astray
     /\ ~y.astray => y.items = <<>> /\ y.stream = NoStream
     /\ Barren(x) => y.first = x.first

LEMMA ReceiveFollows ==
  ASSUME NEW s, Sound(s), NEW y \in receive_data(s)
  PROVE  /\ Follows(s, y) /\ Sound(y)
         /\ \E x \in Read(s) : Reads(s, x) /\ Receives(s, x, y)
<1>1. PICK x \in Read(s) :
        IF s.left > 0 /\ x.left = 0
        THEN \E z \in AutoStop(x) :
               y = [z EXCEPT !.ret = x.ret, !.scan = x.scan, !.stamp = x.stamp]
        ELSE y = x
  BY DEF receive_data
<1>2. Reads(s, x) /\ Follows(s, x) /\ Sound(x)
  BY ReadReads DEF Reads, Follows
<1>3. CASE ~(s.left > 0 /\ x.left = 0)
  <2>1. y = x
    BY <1>1, <1>3
  <2> QED BY <1>2, <1>3, <2>1 DEF Receives
<1>4. CASE s.left > 0 /\ x.left = 0
  <2>1. PICK z \in AutoStop(x) :
          y = [z EXCEPT !.ret = x.ret, !.scan = x.scan, !.stamp = x.stamp]
    BY <1>1, <1>4
  <2>2. Follows(x, z) /\ Sound(z) /\ (~z.astray => z.items = <<>> /\ z.stream = NoStream)
    BY <1>2, AutoStopFollows DEF Follows
  <2>3. x \in Outcomes /\ z \in Outcomes /\ z.items \in Seq(Items) /\ z.left \in Nat
    BY <1>2, <2>2 DEF Sound, Outcomes
  <2>4. /\ y \in Outcomes /\ y.items = z.items /\ y.stream = z.stream /\ y.scan = x.scan
        /\ y.left = z.left /\ y.first = z.first /\ y.astray = z.astray
        /\ y.ret = x.ret /\ y.stamp = x.stamp
    BY <2>1, <2>3 DEF Outcomes
  <2>5. Follows(z, y)
    <3>1. Made(y.items, z.items) /\ y.left <= z.left
      BY <2>3, <2>4, MadeSame
    <3>2. y.scan # NoScan => From(y.scan, peer, zero[peer])
      BY <1>2, <2>4 DEF Sound
    <3> QED BY <2>2, <2>4, <3>1, <3>2, Changed
  <2>6. Follows(s, y) /\ Sound(y)
    BY <1>2, <2>2, <2>5, FollowsOn DEF Follows
  <2>7. Receives(s, x, y)
    <3>1. z.left <= x.left
      BY <2>2 DEF Follows
    <3>2. y.left = 0
      BY <1>4, <2>3, <2>4, <3>1
    <3> QED BY <1>4, <2>2, <2>4, <3>2 DEF Receives, Follows
  <2> QED BY <1>2, <2>6, <2>7
<1> QED BY <1>3, <1>4

\* The stop of the application
LEMMA StopFollows ==
  ASSUME NEW s, Sound(s), NEW x \in urg_stop_measurement(s)
  PROVE  /\ Follows(s, x)
         /\ ~x.astray => x.items = <<>> /\ x.stream = NoStream
<1>1. ASSUME NEW S, \A y \in S : Follows(s, y), NEW z \in ReceiveAgain(S)
      PROVE  Follows(s, z)
  <2>1. PICK y \in S : z = y \/ z \in receive_data(y)
    BY <1>1 DEF ReceiveAgain
  <2>2. Follows(s, y) /\ Sound(y)
    BY <1>1 DEF Follows
  <2> QED BY <2>1, <2>2, ReceiveFollows, FollowsOn
<1> DEFINE A == QT(s)
           B == ReceiveAgain(A)
           C == ReceiveAgain(B)
           D == ReceiveAgain(C)
<1>2. \A y \in A : Follows(s, y)
  BY QTFollows
<1> HIDE DEF A
<1>3. \A y \in B : Follows(s, y)
  BY <1>1, <1>2
<1> HIDE DEF B
<1>4. \A y \in C : Follows(s, y)
  BY <1>1, <1>3
<1> HIDE DEF C
<1>5. \A y \in D : Follows(s, y)
  BY <1>1, <1>4
<1>6. PICK y \in D : x = Concluded(y)
  BY DEF urg_stop_measurement, A, B, C
<1> HIDE DEF D
<1>7. Follows(s, y) /\ Sound(y)
  BY <1>5 DEF Follows
<1> QED BY <1>6, <1>7, ConcludedFollows, FollowsOn

\* Before the first open()
LEMMA TypedInit == Init => Typed
<1> SUFFICES ASSUME Init
             PROVE  Typed
  OBVIOUS
<1>1. urg \in Urgs
  BY DEF Init, Urgs, AnyWindow
<1>2. impl \in Impls
  BY DEF Init, Impls, Names, Measurements
<1>3. sensor \in Doings /\ line \in Seq(Items)
  BY DEF Init, Doings, Idle
<1>4. ResultTyped
  BY DEF Init, ResultTyped
<1>5. past \in History
  BY DEF Init, History, NoSync
<1>6. now \in Int /\ zero \in [Devices -> Int] /\ peer \in Devices \cup {Nobody}
  BY DEF Init
<1> QED BY <1>1, <1>2, <1>3, <1>4, <1>5, <1>6 DEF Typed

\* What a call that hands out nothing returns
LEMMA ReturnsTyped ==
  ASSUME NEW op, NEW ok, Returns(op, ok)
  PROVE  ResultTyped'
  BY DEF Returns, ResultTyped

\* What a call that reads begins with
LEMMA BeforeSound ==
  ASSUME Typed, Traced
  PROVE  /\ Sound(Before)
         /\ Before.items = line /\ Before.stream = sensor.stream /\ Before.scan = NoScan
         /\ Before.left = urg.scanning_remain_times /\ Before.first = urg.received_first_index
         /\ Before.astray = past.astray /\ Before.sending = urg.is_sending
<1>1. /\ Before.items = line /\ Before.stream = sensor.stream /\ Before.scan = NoScan
      /\ Before.left = urg.scanning_remain_times /\ Before.first = urg.received_first_index
      /\ Before.astray = past.astray /\ Before.sending = urg.is_sending
  BY DEF Before
<1>2. /\ urg.is_sending \in BOOLEAN /\ urg.is_laser_on \in BOOLEAN
      /\ urg.scanning_remain_times \in Nat /\ urg.received_first_index \in Int
      /\ past.astray \in BOOLEAN /\ sensor.stream \in Streams \cup {NoStream}
      /\ line \in Seq(Items)
  BY DEF Typed, Urgs, History, Doings
<1>3. Before \in Outcomes
  BY <1>2 DEF Before, Outcomes
<1> QED BY <1>1, <1>3 DEF Sound, Traced

\* ... and what it makes of the line, the sensor and urg_t
LEMMA HappenedTyped ==
  ASSUME Typed, NEW s, Sound(s), Happened(s)
  PROVE  /\ urg' \in Urgs /\ sensor' \in Doings /\ line' \in Seq(Items)
         /\ line' = s.items /\ sensor'.stream = s.stream
         /\ urg'.is_active = urg.is_active
         /\ urg'.scanning_remain_times = s.left /\ urg'.received_first_index = s.first
         /\ urg'.specified_scan_times = urg.specified_scan_times
         /\ urg'.first_data_index = urg.first_data_index
         /\ urg'.last_data_index = urg.last_data_index
         /\ urg'.front_data_index = urg.front_data_index
<1>1. /\ s.sending \in BOOLEAN /\ s.lit \in BOOLEAN /\ s.left \in Nat /\ s.first \in Int
      /\ s.items \in Seq(Items) /\ s.stream \in Streams \cup {NoStream}
  BY DEF Sound, Outcomes
<1>2. line' = s.items /\ sensor' \in Doings /\ sensor'.stream = s.stream
  BY <1>1 DEF Happened, Typed, Doings
<1>3. urg' = [urg EXCEPT !.is_sending = s.sending, !.is_laser_on = s.lit,
                         !.scanning_remain_times = s.left, !.received_first_index = s.first]
  BY DEF Happened
<1> QED BY <1>1, <1>2, <1>3 DEF Typed, Urgs

\* Opening, closing and rebooting keep the types,
LEMMA OpenTyped ==
  ASSUME Typed, Open
  PROVE  Typed'
<1>1. PICK device \in Devices, opened \in BOOLEAN, found \in Devices \cup {Nobody} :
        /\ Opening(found, opened)
        /\ urg' \in {Unconnected(TRUE), Unconnected(FALSE), Parameters(device), Active(device)}
  BY DEF Open
<1>2. device.first \in Int /\ device.last \in Int /\ device.front \in Int
  BY DriverAssumption
<1>3. urg' \in Urgs
  <2>1. urg \in Urgs
    BY DEF Typed
  <2>2. Unconnected(TRUE) \in Urgs /\ Unconnected(FALSE) \in Urgs
    BY <2>1 DEF Unconnected, Urgs
  <2>3. Parameters(device) \in Urgs
    <3> DEFINE u == [urg EXCEPT !.is_active = FALSE, !.is_sending = FALSE,
                                !.is_laser_on = FALSE]
               v == [u EXCEPT !.specified_scan_times = 0]
               w == [v EXCEPT !.scanning_remain_times = 0]
               x == [w EXCEPT !.first_data_index = device.first]
               y == [x EXCEPT !.last_data_index = device.last]
               z == [y EXCEPT !.front_data_index = device.front]
    <3>1. Parameters(device) = z
      BY DEF Parameters
    <3>2. u \in Urgs
      BY <2>1 DEF Urgs
    <3> HIDE DEF u
    <3>3. v \in Urgs
      BY <3>2 DEF Urgs
    <3> HIDE DEF v
    <3>4. w \in Urgs
      BY <3>3 DEF Urgs
    <3> HIDE DEF w
    <3>5. x \in Urgs
      BY <1>2, <3>4 DEF Urgs
    <3> HIDE DEF x
    <3>6. y \in Urgs
      BY <1>2, <3>5 DEF Urgs
    <3> HIDE DEF y
    <3>7. z \in Urgs
      BY <1>2, <3>6 DEF Urgs
    <3> QED BY <3>1, <3>7
  <2>4. FullWindow(device) \in AnyWindow
    BY <1>2 DEF FullWindow, AnyWindow
  <2>5. Active(device) \in Urgs
    BY <2>3, <2>4 DEF Urgs, Active
  <2> QED BY <1>1, <2>2, <2>3, <2>5
<1>4. impl' \in Impls /\ peer' \in Devices \cup {Nobody}
  <2>1. <<>> \in Names
    BY DEF Names
  <2> QED BY <1>1, <2>1 DEF Typed, Opening, Fresh, Impls
<1>5. past' \in History
  <2> DEFINE p == [past EXCEPT !.opened = TRUE, !.pending = FALSE]
             q == [p EXCEPT !.tidy = TRUE, !.astray = FALSE]
             refused == IF opened THEN past.refused ELSE past.refused + 1
             r == [q EXCEPT !.refused = refused, !.sync = NoSync]
  <2>1. past' = r
    BY <1>1 DEF Opening, Typed, History
  <2>2. p \in History /\ past.refused \in Nat
    BY DEF Typed, History
  <2> HIDE DEF p
  <2>3. q \in History
    BY <2>2 DEF History
  <2>4. refused \in Nat
    BY <2>2
  <2>5. NoSync \in [valid : BOOLEAN, asked : Int, at : Int, turn : Int]
    BY DEF NoSync
  <2> HIDE DEF q, refused
  <2>6. r \in History
    BY <2>3, <2>4, <2>5 DEF History
  <2> QED BY <2>1, <2>6
<1>6. ResultTyped'
  BY <1>1, ReturnsTyped DEF Opening
<1>7. sensor' \in Doings /\ line' \in Seq(Items)
  BY DEF Open, Doings, Idle
<1>8. now' = now /\ zero' = zero
  BY DEF Open, Calls, world
<1> QED BY <1>3, <1>4, <1>5, <1>6, <1>7, <1>8 DEF Typed

LEMMA DisconnectedTyped ==
  ASSUME Typed, NEW keep \in BOOLEAN, Disconnected(keep)
  PROVE  /\ urg' \in Urgs /\ impl' \in Impls /\ peer' \in Devices \cup {Nobody}
         /\ sensor' \in Doings /\ line' \in Seq(Items)
<1>1. urg' \in Urgs
  BY DEF Typed, Disconnected, Urgs
<1>2. impl' \in Impls
  BY DEF Typed, Disconnected, Impls
<1>3. sensor' \in Doings /\ line' \in Seq(Items)
  BY DEF Disconnected, Doings, Idle
<1> QED BY <1>1, <1>2, <1>3 DEF Disconnected

LEMMA CloseTyped ==
  ASSUME Typed, Close
  PROVE  Typed'
<1>1. /\ urg' \in Urgs /\ impl' \in Impls /\ peer' \in Devices \cup {Nobody}
      /\ sensor' \in Doings /\ line' \in Seq(Items)
  BY DisconnectedTyped DEF Close, Typed, session, traffic
<1>2. past' \in History
  BY DEF Typed, Close, History
<1>3. ResultTyped'
  BY ReturnsTyped DEF Close
<1> QED BY <1>1, <1>2, <1>3 DEF Typed, Close, Calls, world

LEMMA RebootTyped ==
  ASSUME Typed, Reboot
  PROVE  Typed'
<1>1. /\ urg' \in Urgs /\ impl' \in Impls /\ peer' \in Devices \cup {Nobody}
      /\ sensor' \in Doings /\ line' \in Seq(Items)
  <2>1. impl.is_opened_ \in BOOLEAN
    BY DEF Typed, Impls
  <2> QED BY <2>1, DisconnectedTyped DEF Reboot, Typed, session, traffic
<1>2. past' \in History
  <2>1. NoSync \in [valid : BOOLEAN, asked : Int, at : Int, turn : Int]
    BY DEF NoSync
  <2>2. past' = past \/ past' = [past EXCEPT !.sync = NoSync, !.pending = FALSE]
    BY DEF Reboot
  <2> QED BY <2>1, <2>2 DEF Typed, History
<1>3. ResultTyped'
  BY ReturnsTyped DEF Reboot
<1>4. zero' \in [Devices -> Int] /\ now' = now
  BY DEF Typed, Reboot
<1> QED BY <1>1, <1>2, <1>3, <1>4 DEF Typed

\* and so do starting, stopping and reading,
LEMMA StreamTyped ==
  ASSUME Typed, NEW type \in Types, NEW times \in ScanTimes
  PROVE  Requested(times) \in Urgs /\ Stream(type, times) \in Streams
<1>1. times \in Nat /\ type \in Measurements
  BY DriverAssumption
<1>2. Requested(times) \in Urgs
  <2> DEFINE specified == IF times >= 100 THEN 0 ELSE times
             sending == urg.is_sending \/ times # 1
  <2>1. specified \in Int /\ sending \in BOOLEAN
    BY <1>1
  <2>2. Requested(times) = [urg EXCEPT !.specified_scan_times = specified,
                                       !.scanning_remain_times = times, !.is_sending = sending]
    BY DEF Requested
  <2> HIDE DEF specified, sending
  <2> QED BY <1>1, <2>1, <2>2 DEF Typed, Urgs
<1>3. urg.scanning[1] \in Int /\ urg.scanning[2] \in Int /\ urg.scanning[3] \in Int
  BY DEF Typed, Urgs, AnyWindow
<1>4. Requested(times).specified_scan_times \in Int /\ urg.front_data_index \in Int
  BY <1>2 DEF Typed, Urgs
<1> QED BY <1>1, <1>2, <1>3, <1>4 DEF Stream, Streams

\* What the command for the laser leaves
LEMMA LightingIs ==
  ASSUME Typed, NEW times, NEW l \in Lighting(times)
  PROVE  l.lit \in BOOLEAN /\ l.items \in {line, Append(line, Rest)}
<1>1. urg.is_laser_on \in BOOLEAN
  BY DEF Typed, Urgs
<1>2. CASE times # 1 \/ urg.is_laser_on \/ sensor.tm
  BY <1>1, <1>2 DEF Lighting
<1>3. CASE l = [lit |-> TRUE, items |-> line, faults |-> faults]
  BY <1>3
<1>4. ASSUME NEW items \in {line, Append(line, Rest)},
             l = [lit |-> FALSE, items |-> items, faults |-> faults + 1]
      PROVE  l.lit \in BOOLEAN /\ l.items \in {line, Append(line, Rest)}
  BY <1>4
<1>5. \/ times # 1 \/ urg.is_laser_on \/ sensor.tm
      \/ l = [lit |-> TRUE, items |-> line, faults |-> faults]
      \/ \E items \in {line, Append(line, Rest)} :
           l = [lit |-> FALSE, items |-> items, faults |-> faults + 1]
  BY DEF Lighting
<1> QED BY <1>2, <1>3, <1>4, <1>5

\* What a start makes of the line and the sensor
LEMMA StartIs ==
  ASSUME Typed, NEW type \in Types, NEW times \in ScanTimes, Start(type, times)
  PROVE  \E l \in Lighting(times) :
           /\ urg' = [Requested(times) EXCEPT !.is_laser_on = l.lit]
           /\ \/ /\ \/ line' = Append(l.items, Refused(Stream(type, times).first))
                        /\ sensor' = sensor
                    \/ /\ line' = l.items
                       /\ sensor' = [sensor EXCEPT !.stream = Stream(type, times)]
                       /\ Measurable(Stream(type, times))
                 /\ impl' = [impl EXCEPT !.last_measure_type_ = type]
                 /\ past' = [past EXCEPT !.pending = TRUE, !.tidy = @ /\ ~past.pending,
                                         !.astray = @ \/ l.items # line]
              \/ /\ line' = l.items /\ UNCHANGED <<sensor, impl>>
                 /\ past' = [past EXCEPT !.tidy = @ /\ ~past.pending,
                                         !.astray = @ \/ l.items # line]
  BY DEF Start

LEMMA StartTyped ==
  ASSUME Typed, NEW type \in Types, NEW times \in ScanTimes, Start(type, times)
  PROVE  Typed'
<1>1. Requested(times) \in Urgs /\ Stream(type, times) \in Streams
  BY StreamTyped
<1>2. PICK l \in Lighting(times) :
        /\ urg' = [Requested(times) EXCEPT !.is_laser_on = l.lit]
        /\ line' \in {l.items, Append(l.items, Refused(Stream(type, times).first))}
        /\ sensor' \in {sensor, [sensor EXCEPT !.stream = Stream(type, times)]}
        /\ impl' \in {impl, [impl EXCEPT !.last_measure_type_ = type]}
        /\ past' \in {[past EXCEPT !.pending = TRUE, !.tidy = @ /\ ~past.pending,
                                   !.astray = @ \/ l.items # line],
                      [past EXCEPT !.tidy = @ /\ ~past.pending, !.astray = @ \/ l.items # line]}
  BY StartIs
<1>3. urg' \in Urgs
  BY <1>1, <1>2, LightingIs DEF Urgs
<1>4. line' \in Seq(Items)
  <2>1. Refused(Stream(type, times).first) \in Items /\ Rest \in Items
    BY <1>1, Kinds4 DEF Refused, Refusals, Streams, Items
  <2>2. line \in Seq(Items) /\ Append(line, Rest) \in Seq(Items)
    BY <2>1 DEF Typed
  <2>3. l.items \in Seq(Items)
    BY <2>2, LightingIs
  <2> QED BY <1>2, <2>1, <2>3
<1>5. sensor' \in Doings
  BY <1>1, <1>2 DEF Typed, Doings
<1>6. impl' \in Impls
  <2>1. [impl EXCEPT !.last_measure_type_ = type] \in Impls
    BY DriverAssumption DEF Typed, Impls
  <2> QED BY <1>2, <2>1 DEF Typed
<1>7. past' \in History
  BY <1>2 DEF Typed, History
<1>8. ResultTyped'
  BY ReturnsTyped DEF Start
<1> QED BY <1>3, <1>4, <1>5, <1>6, <1>7, <1>8 DEF Typed, Start, Calls, world

LEMMA StopTyped ==
  ASSUME Typed, Traced, Stop
  PROVE  Typed'
<1>1. PICK s \in urg_stop_measurement(Before) :
        Happened(s) /\ past' = [past EXCEPT !.pending = FALSE, !.astray = s.astray]
  BY DEF Stop
<1>2. Sound(s)
  BY BeforeSound, StopFollows DEF Follows
<1>3. past' \in History
  BY <1>1, <1>2 DEF Typed, History, Sound, Outcomes
<1>4. ResultTyped'
  BY ReturnsTyped DEF Stop
<1> QED BY <1>1, <1>2, <1>3, <1>4, HappenedTyped DEF Typed, Stop, Calls, world

LEMMA StartRefusedTyped ==
  ASSUME Typed, Traced, StartRefused
  PROVE  Typed'
<1>1. PICK s \in Drains(Before, line) : Happened(s) /\ past' = [past EXCEPT !.astray = s.astray]
  BY DEF StartRefused
<1>2. Sound(s)
  <2>1. Made(line, Before.items)
    BY BeforeSound, MadeSame DEF Typed
  <2> QED BY <2>1, BeforeSound, DrainsFollow DEF Follows
<1>3. past' \in History
  BY <1>1, <1>2 DEF Typed, History, Sound, Outcomes
<1>4. ResultTyped'
  BY ReturnsTyped DEF StartRefused
<1> QED BY <1>1, <1>2, <1>3, <1>4, HappenedTyped DEF Typed, StartRefused, Calls, world

\* What a get reads: x, and what it comes to with the automatic stop: s
Gets(s, x) ==
  /\ Happened(s) /\ GetReturns(s)
  /\ past' = [past EXCEPT !.astray = s.astray,
                          !.pending = @ /\ (s.ret = "error" \/ ~AllRead(s))]
  /\ Follows(Before, s) /\ Sound(s)
  /\ Reads(Before, x) /\ Receives(Before, x, s)

LEMMA GetReads ==
  ASSUME Typed, Traced, Get
  PROVE  \E s, x : Gets(s, x)
<1>1. PICK s \in receive_data(Before) :
        /\ Happened(s) /\ GetReturns(s)
        /\ past' = [past EXCEPT !.astray = s.astray,
                                !.pending = @ /\ (s.ret = "error" \/ ~AllRead(s))]
  BY DEF Get
<1>2. /\ Follows(Before, s) /\ Sound(s)
      /\ \E x \in Read(Before) : Reads(Before, x) /\ Receives(Before, x, s)
  BY BeforeSound, ReceiveFollows
<1> QED BY <1>1, <1>2 DEF Gets

LEMMA GetTyped ==
  ASSUME Typed, Traced, Get
  PROVE  Typed'
<1>1. PICK s, x : Gets(s, x)
  BY GetReads
<1>2. s.astray \in BOOLEAN /\ s.scan \in Scans \cup {NoScan} /\ s.stamp \in Int
  BY <1>1 DEF Gets, Sound, Outcomes
<1>3. past' \in History
  <2> DEFINE pending == past.pending /\ (s.ret = "error" \/ ~AllRead(s))
  <2>1. past' = [past EXCEPT !.astray = s.astray, !.pending = pending]
    BY <1>1 DEF Gets
  <2>2. pending \in BOOLEAN
    OBVIOUS
  <2> HIDE DEF pending
  <2> QED BY <1>2, <2>1, <2>2 DEF Typed, History
<1>4. ResultTyped'
  <2>1. adjust_time_stamp(s.stamp) \in Int
    BY <1>2 DEF Typed, Impls, adjust_time_stamp
  <2> QED BY <1>1, <1>2, <2>1 DEF Gets, GetReturns, Got, ResultTyped
<1>5. now' = now /\ zero' = zero /\ impl' = impl /\ peer' = peer
  BY DEF Get, Calls, world
<1> QED BY <1>1, <1>3, <1>4, <1>5, HappenedTyped DEF Typed, Gets

\* The offset is a number.
LEMMA SynchronizeTyped ==
  ASSUME Typed, Connected, SetSensorTimeStamp
  PROVE  Typed'
<1>1. PICK delays \in Delays, lost \in {{}, {1}}, asked \in {0, now} :
        /\ SyncOver(delays)
        /\ impl' = [impl EXCEPT !.time_stamp_offset_ = Offset(delays, lost, asked)]
        /\ past' = [past EXCEPT !.sync =
             [valid |-> lost = {} /\ Turn(now) = Turn(now'), asked |-> asked,
              at |-> now, turn |-> Turn(now)]]
  BY DEF SetSensorTimeStamp
<1>2. now \in Int /\ asked \in Int /\ peer \in Devices /\ zero[peer] \in Int
  BY DEF Typed, SetSensorTimeStamp, Connected, ActiveIsConnected
<1>3. now' \in Int
  <2>1. Average_times \in 0 .. Average_times
    BY DriverAssumption
  <2> QED BY <1>1, <1>2, <2>1, AfterFollows DEF SyncOver
<1>4. impl' \in Impls
  <2>1. Average(delays, lost) \in Int
    BY <1>2, AverageBounds
  <2>2. Offset(delays, lost, asked) \in Int
    BY <1>2, <2>1 DEF Offset
  <2> QED BY <1>1, <2>2 DEF Typed, Impls
<1>5. past' \in History
  <2>1. now - zero[peer] \in Int
    BY <1>2
  <2>2. Turn(now) \in Int
    BY <2>1, DriverAssumption DEF Turn
  <2> DEFINE sync == [valid |-> lost = {} /\ Turn(now) = Turn(now'), asked |-> asked,
                      at |-> now, turn |-> Turn(now)]
  <2>3. sync \in [valid : BOOLEAN, asked : Int, at : Int, turn : Int]
    BY <1>2, <2>2
  <2>4. past' = [past EXCEPT !.sync = sync]
    BY <1>1
  <2> HIDE DEF sync
  <2> QED BY <2>3, <2>4 DEF Typed, History
<1>6. sensor' \in Doings
  BY DEF Typed, SetSensorTimeStamp, Doings
<1>7. ResultTyped'
  BY ReturnsTyped DEF SetSensorTimeStamp
<1> QED BY <1>3, <1>4, <1>5, <1>6, <1>7 DEF Typed, SetSensorTimeStamp, Calls, world

\* An exchange, answered or not
LEMMA ExchangeTyped ==
  ASSUME Typed, Unanswered \/ UNCHANGED <<line, past>>
  PROVE  line' \in Seq(Items) /\ past' \in History
<1>1. <<Rest>> \in Seq(Items)
  BY Kinds4
<1>2. line' = line \/ line' = <<Rest>>
  BY DEF Unanswered
<1>3. past' = past \/ past' = [past EXCEPT !.astray = TRUE]
  BY DEF Unanswered
<1> QED BY <1>1, <1>2, <1>3 DEF Typed, History

LEMMA SynchronizeFailsTyped ==
  ASSUME Typed, SetSensorTimeStampFails
  PROVE  Typed'
<1>1. sensor' \in Doings
  BY DEF Typed, SetSensorTimeStampFails, Doings
<1>2. line' \in Seq(Items) /\ past' \in History
  BY ExchangeTyped DEF SetSensorTimeStampFails
<1> QED BY <1>1, <1>2, ReturnsTyped DEF Typed, SetSensorTimeStampFails, session, Calls, world

\* What becomes of a name
LEMMA NameIs ==
  ASSUME Name
  PROVE  /\ Unanswered \/ UNCHANGED <<line, past>>
         /\ \/ impl' = impl
            \/ \E tag \in Kinds, answered \in BOOLEAN :
                 impl' = [impl EXCEPT !.names[tag] = urg_sensor_name(tag, answered)]
  BY DEF Name, Exchange

LEMMA NameTyped ==
  ASSUME Typed, Connected, Name
  PROVE  Typed'
<1>1. impl' \in Impls
  <2>1. CASE impl' = impl
    BY <2>1 DEF Typed
  <2>2. ASSUME NEW tag \in Kinds, NEW answered \in BOOLEAN,
               impl' = [impl EXCEPT !.names[tag] = urg_sensor_name(tag, answered)]
        PROVE  impl' \in Impls
    <3> DEFINE text == urg_sensor_name(tag, answered)
    <3>1. text \in Names
      <4>1. CASE ~urg.is_active
        BY <4>1 DEF urg_sensor_name, Names
      <4>2. CASE urg.is_active
        <5>1. peer \in Devices
          BY <4>2 DEF Connected, ActiveIsConnected
        <5>2. <<peer.id, tag>> \in Names /\ ReceiveError \in Names
          BY <5>1 DEF Names
        <5>3. text \in {<<peer.id, tag>>, ReceiveError}
          BY <4>2 DEF urg_sensor_name, copy_token, Version
        <5> QED BY <5>2, <5>3
      <4> QED BY <4>1, <4>2
    <3> HIDE DEF text
    <3> QED BY <2>2, <3>1 DEF Typed, Impls, text
  <2> QED BY <2>1, <2>2, NameIs
<1>2. line' \in Seq(Items) /\ past' \in History
  BY NameIs, ExchangeTyped
<1>3. ResultTyped'
  BY ReturnsTyped DEF Name
<1> QED BY <1>1, <1>2, <1>3 DEF Typed, Name, Calls, world

LEMMA AskTyped ==
  ASSUME Typed, Ask
  PROVE  Typed'
<1>1. Unanswered \/ UNCHANGED <<line, past>>
  BY DEF Ask, Exchange
<1>2. line' \in Seq(Items) /\ past' \in History
  BY <1>1, ExchangeTyped
<1>3. urg' \in Urgs
  <2>1. PICK answered \in BOOLEAN, laser \in BOOLEAN :
          urg' = [urg EXCEPT !.is_laser_on = @ \/ (laser /\ answered)]
    BY DEF Ask
  <2> QED BY <2>1 DEF Typed, Urgs
<1>4. ResultTyped'
  BY ReturnsTyped DEF Ask
<1> QED BY <1>2, <1>3, <1>4 DEF Typed, Ask, Calls, world

\* The scan a sensor measures is one of its stream, stamped with its clock.
LEMMA MeasuresScan ==
  ASSUME Typed, Attached, Measure
  PROVE  \E scan \in Scans :
           /\ line' = Append(line, scan)
           /\ scan.type = sensor.stream.type /\ scan.once = sensor.stream.once
           /\ scan.first = sensor.stream.first /\ scan.last = sensor.stream.last
           /\ scan.taken = now /\ scan.stamp = SensorClock(now) /\ scan.intact
<1> DEFINE s == sensor.stream
           scan == [k |-> "scan", type |-> s.type, once |-> s.once, first |-> s.first,
                    last |-> s.last, skip |-> s.skip, taken |-> now,
                    stamp |-> SensorClock(now), intact |-> TRUE]
<1>1. s \in Streams
  BY DEF Typed, Measure, Doings
<1>2. peer \in Devices /\ now - zero[peer] \in Int
  BY DEF Typed, Attached, Silent, Measure
<1>3. SensorClock(now) \in Int
  BY <1>2, DriverAssumption DEF SensorClock
<1>4. line' = Append(line, scan)
  BY DEF Measure
<1>5. scan \in Scans
  BY <1>1, <1>3 DEF Typed, Streams, Scans
<1>6. /\ scan.type = s.type /\ scan.once = s.once
      /\ scan.first = s.first /\ scan.last = s.last
      /\ scan.taken = now /\ scan.stamp = SensorClock(now) /\ scan.intact
  OBVIOUS
<1> HIDE DEF scan
<1> QED BY <1>4, <1>5, <1>6

LEMMA MeasureTyped ==
  ASSUME Typed, Attached, Measure
  PROVE  Typed'
<1> DEFINE s == sensor.stream
<1>1. s \in Streams
  BY DEF Typed, Measure, Doings
<1>2. line' \in Seq(Items)
  <2>1. PICK scan \in Scans : line' = Append(line, scan)
    BY MeasuresScan
  <2> QED BY <2>1 DEF Typed, Items
<1>3. sensor' \in Doings
  <2> DEFINE left == IF s.left = 0 THEN 0 ELSE s.left - 1
             t == [s EXCEPT !.left = left]
  <2>1. left \in Int
    BY <1>1 DEF Streams
  <2> HIDE DEF left
  <2>2. t \in Streams
    BY <1>1, <2>1 DEF Streams
  <2>3. sensor'.stream \in {NoStream, t} /\ sensor' = [sensor EXCEPT !.stream = sensor'.stream]
    BY DEF Measure, Typed, Doings, left
  <2> HIDE DEF t
  <2> QED BY <2>2, <2>3 DEF Typed, Doings
<1> QED BY <1>2, <1>3 DEF Typed, Measure, world, session, ResultTyped

\* The invariant of types
LEMMA NextTyped ==
  ASSUME Typed, Connected, Attached, Traced, [Next]_vars
  PROVE  Typed'
<1>1. CASE Open \/ Close \/ Reboot
  BY <1>1, OpenTyped, CloseTyped, RebootTyped
<1>2. ASSUME NEW type \in Types, NEW times \in ScanTimes, Start(type, times)
      PROVE  Typed'
  BY <1>2, StartTyped
<1>3. CASE StartRefused \/ Stop \/ Get
  BY <1>3, StartRefusedTyped, StopTyped, GetTyped
<1>4. CASE CallInactive
  BY <1>4, ReturnsTyped DEF Typed, CallInactive, session, traffic, Calls, world
<1>5. ASSUME NEW type \in Types, GetFails(type)
      PROVE  Typed'
  <2>1. ResultTyped'
    BY <1>5 DEF GetFails, Got, ResultTyped
  <2> QED BY <1>5, <2>1 DEF Typed, GetFails, session, traffic, Calls, world
<1>6. ASSUME NEW type \in Types, SetMeasurementType(type)
      PROVE  Typed'
  <2>1. impl' \in Impls /\ past' \in History
    BY <1>6, DriverAssumption DEF Typed, SetMeasurementType, Impls, History
  <2> QED BY <1>6, <2>1, ReturnsTyped DEF Typed, SetMeasurementType, traffic, Calls, world
<1>7. CASE SetWindow
  <2>1. \A w \in Windows : w \in AnyWindow
    BY DriverAssumption DEF AnyWindow
  <2>2. urg' \in Urgs
    BY <1>7, <2>1 DEF Typed, SetWindow, Urgs
  <2>3. ResultTyped'
    BY <1>7, ReturnsTyped DEF SetWindow
  <2> QED BY <1>7, <2>2, <2>3 DEF Typed, SetWindow, traffic, Calls, world
<1>8. CASE SetSensorTimeStamp \/ SetSensorTimeStampFails \/ Name \/ Ask
  BY <1>8, SynchronizeTyped, SynchronizeFailsTyped, NameTyped, AskTyped
<1>9. CASE Measure
  BY <1>9, MeasureTyped
<1>10. CASE Others
  BY <1>10 DEF Typed, Others, traffic, world, ResultTyped
<1>11. CASE Tick
  BY <1>11 DEF Typed, Tick, traffic, world, session, ResultTyped
<1>12. CASE UNCHANGED vars
  BY <1>12 DEF Typed, vars, traffic, world, session, ResultTyped
<1> QED BY <1>1, <1>2, <1>3, <1>4, <1>5, <1>6, <1>7, <1>8, <1>9, <1>10, <1>11, <1>12
        DEF Next, Driver

\* Steps that neither open nor close the connection
Ongoing ==
  /\ [Next]_vars /\ ~Open /\ ~Close
  /\ UNCHANGED <<peer, zero>> /\ urg'.is_active = urg.is_active

\* Every step opens the connection, closes it, or is one of these.
LEMMA StepsAre ==
  ASSUME Typed, Connected, [Next]_vars
  PROVE  Open \/ (Close /\ Disconnected(FALSE)) \/ (Reboot /\ Disconnected(impl.is_opened_))
         \/ (Close /\ UNCHANGED <<session, traffic>> /\ ~urg.is_active) \/ Ongoing
<1> SUFFICES ASSUME ~Open, ~(Close /\ Disconnected(FALSE)),
                    ~(Reboot /\ Disconnected(impl.is_opened_))
             PROVE  (Close /\ UNCHANGED <<session, traffic>> /\ ~urg.is_active) \/ Ongoing
  OBVIOUS
<1>1. CASE Close
  <2>1. ~impl.is_opened_ /\ UNCHANGED <<session, traffic>>
    BY <1>1 DEF Close
  <2>2. ~urg.is_active
    BY <2>1 DEF Connected, ActiveIsConnected
  <2> QED BY <1>1, <2>1, <2>2
<1>2. CASE Reboot /\ ~Close
  BY <1>2 DEF Reboot, session, Ongoing
<1>3. CASE Driver /\ ~Close /\ ~Reboot
  <2>1. SameConnection
    BY <1>3, CallsKeepConnection
  <2>2. zero' = zero
    <3>1. ASSUME NEW op, Calls(op)
          PROVE  zero' = zero
      BY <3>1 DEF Calls, world
    <3> QED BY <1>3, <3>1 DEF Driver, Start, StartRefused, Stop, CallInactive, Get, GetFails,
                              SetMeasurementType, SetWindow, SetSensorTimeStamp,
                              SetSensorTimeStampFails, Name, Ask
  <2> QED BY <1>3, <2>1, <2>2 DEF SameConnection, Ongoing
<1>4. CASE (Measure \/ Others \/ Tick \/ UNCHANGED vars) /\ ~Close
  BY <1>4 DEF Measure, Others, Tick, vars, world, session, Ongoing
<1> QED BY <1>1, <1>2, <1>3, <1>4 DEF Next

\* What an open() leaves of the rest
LEMMA OpenLeaves ==
  ASSUME Typed, Connected, Open
  PROVE  /\ line' = <<>> /\ sensor' = Idle
         /\ result'.op = "open" /\ result'.data = NoScan
         /\ impl'.names = [k \in Kinds |-> <<>>]
         /\ past'.sync = NoSync
         /\ urg'.is_active =>
              /\ peer' \in Devices
              /\ urg'.first_data_index = peer'.first /\ urg'.last_data_index = peer'.last
              /\ urg'.front_data_index = peer'.front
<1>1. PICK device \in Devices, opened \in BOOLEAN, found \in Devices \cup {Nobody} :
        /\ Opening(found, opened)
        /\ \/ urg' \in {Unconnected(TRUE), Unconnected(FALSE), Parameters(device)}
           \/ urg' = Active(device) /\ found = device
  BY DEF Open
<1>2. line' = <<>> /\ sensor' = Idle
  BY DEF Open
<1>3. peer' = found /\ impl' = Fresh(opened) /\ past'.sync = NoSync
      /\ result'.op = "open" /\ result'.data = NoScan
  BY <1>1 DEF Opening, Returns, Typed, History
<1>4. impl'.names = [k \in Kinds |-> <<>>]
  BY <1>3 DEF Typed, Impls, Fresh
<1>5. CASE urg' \in {Unconnected(TRUE), Unconnected(FALSE), Parameters(device)}
  <2>1. urg'.is_active = FALSE
    BY <1>5 DEF Typed, Urgs, Parameters, Unconnected
  <2> QED BY <1>2, <1>3, <1>4, <2>1
<1>6. CASE urg' = Active(device) /\ found = device
  <2>1. /\ urg'.first_data_index = device.first /\ urg'.last_data_index = device.last
        /\ urg'.front_data_index = device.front
    BY <1>6 DEF Typed, Urgs, Active, Parameters
  <2> QED BY <1>2, <1>3, <1>4, <1>6, <2>1
<1> QED BY <1>1, <1>5, <1>6

\* Only name calls change the names.
LEMMA NamesStay ==
  ASSUME Typed, Ongoing, ~Name
  PROVE  impl'.names = impl.names
<1> USE DEF Typed, Impls
<1>1. ASSUME NEW type \in Types, NEW times \in ScanTimes, Start(type, times)
      PROVE  impl'.names = impl.names
  BY <1>1 DEF Start
<1>2. CASE Reboot
  BY <1>2 DEF Reboot, Disconnected, session
<1>3. ASSUME NEW type \in Types, GetFails(type)
      PROVE  impl'.names = impl.names
  BY <1>3 DEF GetFails, session
<1>4. ASSUME NEW type \in Types, SetMeasurementType(type)
      PROVE  impl'.names = impl.names
  BY <1>4 DEF SetMeasurementType
<1>5. CASE SetSensorTimeStamp
  BY <1>5 DEF SetSensorTimeStamp
<1>6. CASE StartRefused \/ Stop \/ Get \/ CallInactive \/ SetWindow
           \/ SetSensorTimeStampFails \/ Ask \/ Measure \/ Others \/ Tick \/ UNCHANGED vars
  BY <1>6 DEF StartRefused, Stop, Get, CallInactive, SetWindow, SetSensorTimeStampFails, Ask,
              Measure, Others, Tick, vars, session
<1> QED BY <1>1, <1>2, <1>3, <1>4, <1>5, <1>6 DEF Ongoing, Next, Driver

\* Names of an earlier sensor are forgotten when another is opened.
LEMMA NextNames ==
  ASSUME Typed, Connected, NamesOfPeer, [Next]_vars
  PROVE  NamesOfPeer'
<1>1. CASE Open
  BY <1>1, OpenLeaves DEF NamesOfPeer
<1>2. ASSUME NEW keep, Disconnected(keep)
      PROVE  NamesOfPeer'
  BY <1>2 DEF Disconnected, NamesOfPeer
<1>3. CASE Close /\ UNCHANGED <<session, traffic>>
  BY <1>3 DEF session, NamesOfPeer
<1>4. CASE Ongoing /\ ~Name
  BY <1>4, NamesStay DEF Ongoing, NamesOfPeer
<1>5. CASE Name
  <2> SUFFICES ASSUME peer # Nobody, NEW kind \in Kinds
               PROVE  impl'.names[kind]
                        \in {<<>>, NotConnected, ReceiveError, <<peer.id, kind>>}
    BY <1>5 DEF Name, NamesOfPeer
  <2>1. impl.names[kind] \in {<<>>, NotConnected, ReceiveError, <<peer.id, kind>>}
    BY DEF NamesOfPeer
  <2>2. ASSUME NEW tag \in Kinds, NEW answered \in BOOLEAN,
               impl' = [impl EXCEPT !.names[tag] = urg_sensor_name(tag, answered)]
        PROVE  impl'.names[kind]
                 \in {impl.names[kind], NotConnected, ReceiveError, <<peer.id, kind>>}
    <3>1. urg_sensor_name(tag, answered) \in {NotConnected, ReceiveError, <<peer.id, tag>>}
      BY DEF urg_sensor_name, copy_token, Version
    <3> QED BY <2>2, <3>1 DEF Typed, Impls
  <2>3. impl'.names[kind]
          \in {impl.names[kind], NotConnected, ReceiveError, <<peer.id, kind>>}
    BY <1>5, <2>2, NameIs
  <2> QED BY <2>1, <2>3
<1> QED BY <1>1, <1>2, <1>3, <1>4, <1>5, StepsAre

\* The parameters of the sensor are those urg_open read.
LEMMA ParametersStay ==
  ASSUME Typed, Traced, Ongoing
  PROVE  /\ urg'.first_data_index = urg.first_data_index
         /\ urg'.last_data_index = urg.last_data_index
         /\ urg'.front_data_index = urg.front_data_index
<1> DEFINE Same == /\ urg'.first_data_index = urg.first_data_index
                   /\ urg'.last_data_index = urg.last_data_index
                   /\ urg'.front_data_index = urg.front_data_index
<1> SUFFICES Same
  OBVIOUS
<1>1. ASSUME NEW type \in Types, NEW times \in ScanTimes, Start(type, times)
      PROVE  Same
  <2>1. PICK l : urg' = [Requested(times) EXCEPT !.is_laser_on = l.lit]
    BY <1>1, StartIs
  <2> QED BY <2>1 DEF Requested, Typed, Urgs
<1>2. CASE Reboot
  BY <1>2 DEF Reboot, Disconnected, session, Typed, Urgs
<1>3. CASE Get
  <2>1. PICK s : Happened(s) /\ Sound(s)
    BY <1>3, GetReads DEF Gets
  <2> QED BY <2>1, HappenedTyped
<1>4. CASE Stop
  <2>1. PICK s : Happened(s) /\ Sound(s)
    BY <1>4, BeforeSound, StopFollows DEF Stop, Follows
  <2> QED BY <2>1, HappenedTyped
<1>5. CASE StartRefused
  <2>1. Made(line, Before.items)
    BY BeforeSound, MadeSame DEF Typed
  <2>2. PICK s : Happened(s) /\ Sound(s)
    BY <1>5, <2>1, BeforeSound, DrainsFollow DEF StartRefused, Follows
  <2> QED BY <2>2, HappenedTyped
<1>6. CASE SetWindow \/ Ask
  BY <1>6 DEF SetWindow, Ask, Typed, Urgs
<1>7. ASSUME NEW type \in Types, SetMeasurementType(type) \/ GetFails(type)
      PROVE  Same
  BY <1>7 DEF SetMeasurementType, GetFails, session
<1>8. CASE CallInactive \/ SetSensorTimeStamp \/ SetSensorTimeStampFails \/ Name
           \/ Measure \/ Others \/ Tick \/ UNCHANGED vars
  BY <1>8 DEF CallInactive, SetSensorTimeStamp, SetSensorTimeStampFails, Name, Measure, Others,
              Tick, vars, session
<1> HIDE DEF Same
<1> QED BY <1>1, <1>2, <1>3, <1>4, <1>5, <1>6, <1>7, <1>8 DEF Ongoing, Next, Driver

\* Without a connection nothing begins to come.
LEMMA StaysSilent ==
  ASSUME Typed, Silent, Ongoing, ~urg.is_active
  PROVE  Silent'
<1>1. ASSUME NEW type \in Types, GetFails(type)
      PROVE  Silent'
  BY <1>1 DEF GetFails, traffic, Silent
<1>2. ASSUME NEW type \in Types, SetMeasurementType(type)
      PROVE  Silent'
  BY <1>2 DEF SetMeasurementType, traffic, Silent
<1>3. CASE CallInactive \/ SetWindow \/ Name \/ Ask
  <2>1. CASE CallInactive \/ SetWindow
    BY <1>3, <2>1 DEF CallInactive, SetWindow, traffic, Silent
  <2>2. CASE Name \/ Ask
    BY <1>3, <2>2 DEF Name, Ask, Exchange, Silent
  <2> QED BY <1>3, <2>1, <2>2
<1>4. CASE Others \/ Tick \/ UNCHANGED vars
  BY <1>4 DEF Others, Tick, vars, traffic, Silent
<1> QED BY <1>1, <1>2, <1>3, <1>4 DEF Ongoing, Next, Driver, Reboot, Start, StartRefused, Stop, Get,
             SetSensorTimeStamp, SetSensorTimeStampFails, Measure, Silent

\* Attached is kept by every step.
LEMMA NextAttached ==
  ASSUME Typed, Connected, Attached, Traced, [Next]_vars
  PROVE  Attached'
<1>0. Idle.stream = NoStream
  BY DEF Idle
<1>1. CASE Open
  BY <1>0, <1>1, OpenLeaves DEF Attached, Silent
<1>2. ASSUME NEW keep, Disconnected(keep)
      PROVE  Attached'
  <2>1. urg'.is_active = FALSE
    BY <1>2 DEF Disconnected, Typed, Urgs
  <2> QED BY <1>0, <1>2, <2>1 DEF Disconnected, Attached, Silent
<1>3. CASE Close /\ UNCHANGED <<session, traffic>>
  BY <1>3 DEF session, traffic, Attached, Silent
<1>4. CASE Ongoing
  <2>1. CASE urg.is_active
    BY <1>4, <2>1, ParametersStay DEF Ongoing, Attached
  <2>2. CASE ~urg.is_active
    BY <1>4, <2>2, StaysSilent DEF Ongoing, Attached
  <2> QED BY <2>1, <2>2
<1> QED BY <1>1, <1>2, <1>3, <1>4, StepsAre

\* An empty line is in order, ...
LEMMA SilentIsOrdered ==
  ASSUME NEW type, NEW left \in Nat, NEW times
  PROVE  Ordered(<<>>, NoStream, type, left, times)
  BY DEF Ordered

LEMMA SilentOrderly ==
  ASSUME Typed', Silent'
  PROVE  Orderly'
<1>1. urg'.scanning_remain_times \in Nat
  BY DEF Typed, Urgs
<1> QED BY <1>1, SilentIsOrdered DEF Silent, Orderly

\* and so is a line of which all was read away,
LEMMA OrderedEmpty ==
  ASSUME NEW items \in Seq(Items), NEW stream \in Streams \cup {NoStream}, NEW type,
         NEW left \in Nat, NEW times, Ordered(items, stream, type, left, times),
         NEW rest \in {stream, NoStream}, NEW less \in Nat,
         less = left \/ (items # <<>> /\ less = left - 1)
  PROVE  Ordered(<<>>, rest, type, less, times)
<1>1. Len(items) \in Nat /\ (items # <<>> => Len(items) >= 1)
  OBVIOUS
<1>2. stream # NoStream => stream.left \in Int
  BY DEF Streams
<1>3. stream # NoStream =>
        /\ stream.type = type
        /\ stream.once => stream.left = 1
        /\ times > 1 => stream.left >= 1 /\ stream.left <= less
  BY <1>1, <1>2 DEF Ordered
<1> QED BY <1>2, <1>3 DEF Ordered

\* or the first item.
LEMMA OrderedTail ==
  ASSUME NEW items \in Seq(Items), items # <<>>, NEW stream \in Streams \cup {NoStream},
         NEW type, NEW left \in Nat, NEW times, Ordered(items, stream, type, left, times),
         NEW less \in Nat, times > 1 => less = left - 1
  PROVE  Ordered(Tail(items), stream, type, less, times)
<1> DEFINE more == Tail(items)
<1>1. /\ Len(more) = Len(items) - 1 /\ Len(items) \in Nat /\ Len(items) >= 1
      /\ \A i \in 1 .. Len(more) : more[i] = items[i + 1] /\ i + 1 \in 1 .. Len(items)
                                   /\ Len(items) # 1
  <2>1. /\ Len(more) = Len(items) - 1 /\ Len(items) \in Nat /\ Len(items) >= 1
        /\ \A i \in 1 .. Len(more) : more[i] = items[i + 1] /\ i + 1 \in 1 .. Len(items)
    BY MadeTail
  <2> HIDE DEF more
  <2> QED BY <2>1
<1> HIDE DEF more
<1>2. stream # NoStream => stream.left \in Int /\ stream.type = type /\ ~stream.once
  <2>1. stream # NoStream => stream.left \in Int
    BY DEF Streams
  <2> QED BY <2>1 DEF Ordered
<1>3. \A i \in 1 .. Len(more) :
        /\ more[i] \notin {Stopped, Rest}
        /\ more[i] \in Scans => more[i].type = type
        /\ ~(more[i] \in Scans /\ more[i].once)
  BY <1>1 DEF Ordered
<1>4. times > 1 =>
        /\ stream # NoStream => stream.left >= 1
        /\ Len(more) + (IF stream = NoStream THEN 0 ELSE stream.left) <= less
  BY <1>1, <1>2 DEF Ordered
<1> QED BY <1>2, <1>3, <1>4 DEF Ordered, more

LEMMA OrderlyInit == Init => Orderly
<1> SUFFICES ASSUME Init
             PROVE  Orderly
  OBVIOUS
<1>1. line = <<>> /\ sensor.stream = NoStream
  BY DEF Init, Idle
<1>2. urg.scanning_remain_times \in Nat
  BY DEF Init
<1> QED BY <1>1, <1>2, SilentIsOrdered DEF Orderly, Silent

\* Starting: what was pending before makes the application untidy.
LEMMA StartOrderly ==
  ASSUME Typed, Typed', Orderly, NEW type \in Types, NEW times \in ScanTimes, Start(type, times)
  PROVE  Orderly'
<1> SUFFICES ASSUME past'.tidy, ~past'.astray
             PROVE  /\ Ordered(line', sensor'.stream, impl'.last_measure_type_,
                               urg'.scanning_remain_times, urg'.specified_scan_times)
                    /\ ~past'.pending => Silent'
  BY DEF Orderly
<1>1. PICK l \in Lighting(times) :
        /\ urg' = [Requested(times) EXCEPT !.is_laser_on = l.lit]
        /\ \/ /\ \/ line' = Append(l.items, Refused(Stream(type, times).first))
                     /\ sensor' = sensor
                 \/ /\ line' = l.items
                    /\ sensor' = [sensor EXCEPT !.stream = Stream(type, times)]
              /\ impl' = [impl EXCEPT !.last_measure_type_ = type]
              /\ past' = [past EXCEPT !.pending = TRUE, !.tidy = @ /\ ~past.pending,
                                      !.astray = @ \/ l.items # line]
           \/ /\ line' = l.items /\ UNCHANGED <<sensor, impl>>
              /\ past' = [past EXCEPT !.tidy = @ /\ ~past.pending,
                                      !.astray = @ \/ l.items # line]
  BY StartIs
<1>2. past.tidy /\ ~past.pending /\ ~past.astray /\ l.items = line
  BY <1>1 DEF Typed, History
<1>3. line = <<>> /\ sensor.stream = NoStream
  BY <1>2 DEF Orderly, Silent
<1>4. times \in Nat
  BY DriverAssumption
<1> DEFINE specified == IF times >= 100 THEN 0 ELSE times
<1>5. /\ urg'.scanning_remain_times = times /\ urg'.specified_scan_times = specified
      /\ Requested(times).specified_scan_times = specified
  BY <1>1 DEF Requested, Typed, Urgs
<1>6. specified > 1 => specified = times
  BY <1>4
<1>7. times = 1 => specified = 1
  OBVIOUS
<1> HIDE DEF specified
<1>8. CASE /\ line' = Append(l.items, Refused(Stream(type, times).first)) /\ sensor' = sensor
           /\ impl' = [impl EXCEPT !.last_measure_type_ = type]
           /\ past' = [past EXCEPT !.pending = TRUE, !.tidy = @ /\ ~past.pending,
                                   !.astray = @ \/ l.items # line]
  <2> DEFINE item == Refused(Stream(type, times).first)
  <2>1. item \notin Scans /\ item \notin {Stopped, Rest}
    <3>1. item.k = "refused"
      BY DEF Refused
    <3> HIDE DEF item
    <3> QED BY <3>1, Kinds4
  <2> HIDE DEF item
  <2>2. line' = <<item>>
    BY <1>2, <1>3, <1>8 DEF item
  <2>3. Len(line') = 1 /\ line'[1] = item /\ \A i \in 1 .. Len(line') : i = 1
    BY <2>2
  <2>4. past'.pending
    BY <1>8 DEF Typed, History
  <2>5. specified > 1 => Len(line') + 0 <= times
    BY <1>4, <1>6, <2>3
  <2> QED BY <1>3, <1>5, <1>8, <2>1, <2>3, <2>4, <2>5 DEF Ordered
<1>9. CASE /\ line' = l.items /\ sensor' = [sensor EXCEPT !.stream = Stream(type, times)]
           /\ impl' = [impl EXCEPT !.last_measure_type_ = type]
           /\ past' = [past EXCEPT !.pending = TRUE, !.tidy = @ /\ ~past.pending,
                                   !.astray = @ \/ l.items # line]
  <2>1. sensor'.stream = Stream(type, times) /\ line' = <<>>
    BY <1>2, <1>3, <1>9 DEF Typed, Doings
  <2>2. /\ Stream(type, times).type = type /\ Stream(type, times).left = specified
        /\ Stream(type, times).once = (times = 1)
    BY <1>5 DEF Stream
  <2>3. past'.pending /\ impl'.last_measure_type_ = type
    BY <1>9 DEF Typed, History, Impls
  <2>4. specified > 1 => specified >= 1 /\ 0 + specified <= times
    BY <1>4, <1>6
  <2> DEFINE stream == Stream(type, times)
  <2>5. Ordered(<<>>, stream, type, times, specified)
    <3>1. stream.type = type /\ stream.left = specified
      BY <2>2
    <3>3. stream.once => stream.left = 1
      <4>1. stream.once => times = 1
        BY <2>2
      <4> QED BY <1>7, <3>1, <4>1
    <3> HIDE DEF stream
    <3>2. specified \in Nat /\ Len(<<>>) = 0
      BY <1>4 DEF specified
    <3> QED BY <1>4, <2>4, <3>1, <3>2, <3>3 DEF Ordered
  <2> QED BY <1>5, <2>1, <2>3, <2>5
<1>10. CASE line' = l.items /\ UNCHANGED <<sensor, impl>>
  <2>1. Silent'
    BY <1>2, <1>3, <1>10 DEF Silent
  <2> QED BY <1>4, <1>5, <2>1, SilentIsOrdered DEF Silent
<1> QED BY <1>1, <1>8, <1>9, <1>10

\* Stopping: if nothing goes astray, nothing is left.
LEMMA StopOrderly ==
  ASSUME Typed, Typed', Traced, Stop
  PROVE  Orderly'
<1>1. PICK s \in urg_stop_measurement(Before) :
        Happened(s) /\ past' = [past EXCEPT !.pending = FALSE, !.astray = s.astray]
  BY DEF Stop
<1>2. Sound(s) /\ (~s.astray => s.items = <<>> /\ s.stream = NoStream)
  BY BeforeSound, StopFollows DEF Follows
<1>3. past'.astray = s.astray
  BY <1>1 DEF Typed, History
<1>4. ~past'.astray => Silent'
  BY <1>1, <1>2, <1>3, HappenedTyped DEF Silent
<1> QED BY <1>4, SilentOrderly DEF Orderly

LEMMA StartRefusedOrderly ==
  ASSUME Typed, Traced, Orderly, StartRefused
  PROVE  Orderly'
<1> SUFFICES ASSUME past'.tidy, ~past'.astray
             PROVE  /\ Ordered(line', sensor'.stream, impl'.last_measure_type_,
                               urg'.scanning_remain_times, urg'.specified_scan_times)
                    /\ ~past'.pending => Silent'
  BY DEF Orderly
<1>1. PICK s \in Drains(Before, line) : Happened(s) /\ past' = [past EXCEPT !.astray = s.astray]
  BY DEF StartRefused
<1>2. Made(line, Before.items)
  BY BeforeSound, MadeSame DEF Typed
<1>3. Follows(Before, s) /\ Sound(s) /\ Before \in Outcomes
  BY <1>2, BeforeSound, DrainsFollow DEF Follows, Sound
<1>4. past.tidy /\ ~s.astray /\ ~past.astray /\ past'.pending = past.pending
  BY <1>1, <1>3, BeforeSound DEF Typed, History, Follows
<1>5. s.items = <<>> /\ s.stream \in {sensor.stream, NoStream}
      /\ s.left = urg.scanning_remain_times
  BY <1>3, <1>4, BeforeSound, DrainsNeat
<1>6. /\ line' = <<>> /\ sensor'.stream = s.stream
      /\ urg'.scanning_remain_times = urg.scanning_remain_times
      /\ urg'.specified_scan_times = urg.specified_scan_times
  BY <1>1, <1>3, <1>5, HappenedTyped
<1>7. /\ Ordered(line, sensor.stream, impl.last_measure_type_,
                 urg.scanning_remain_times, urg.specified_scan_times)
      /\ ~past.pending => Silent
  BY <1>4 DEF Orderly
<1>8. line \in Seq(Items) /\ sensor.stream \in Streams \cup {NoStream}
      /\ urg.scanning_remain_times \in Nat
  BY DEF Typed, Doings, Urgs
<1>9. Ordered(<<>>, s.stream, impl.last_measure_type_,
              urg.scanning_remain_times, urg.specified_scan_times)
  BY <1>5, <1>7, <1>8, OrderedEmpty
<1>10. ~past'.pending => Silent'
  BY <1>4, <1>5, <1>6, <1>7 DEF Silent
<1> QED BY <1>6, <1>9, <1>10 DEF StartRefused

\* A tidy application that reads: nothing went astray before, and the read is neat.
LEMMA GetNeat ==
  ASSUME Typed, Traced, Orderly, NEW s, NEW x, Gets(s, x), past'.tidy, ~past'.astray
  PROVE  /\ ~s.astray /\ ~x.astray /\ Neat(Before, x)
         /\ Ordered(line, sensor.stream, impl.last_measure_type_,
                    urg.scanning_remain_times, urg.specified_scan_times)
         /\ ~past.pending => Silent
         /\ past'.pending = (past.pending /\ (s.ret = "error" \/ ~AllRead(s)))
<1> DEFINE pending == past.pending /\ (s.ret = "error" \/ ~AllRead(s))
<1>1. past' = [past EXCEPT !.astray = s.astray, !.pending = pending]
  BY DEF Gets
<1>2. past'.pending = pending /\ ~s.astray /\ past.tidy
  <2> HIDE DEF pending
  <2> QED BY <1>1 DEF Typed, History
<1>3. ~x.astray /\ ~past.astray
  BY <1>2, BeforeSound DEF Gets, Follows, Receives
<1>4. /\ Ordered(line, sensor.stream, impl.last_measure_type_,
                 urg.scanning_remain_times, urg.specified_scan_times)
      /\ ~past.pending => Silent
  BY <1>2, <1>3 DEF Orderly
<1>5. Clean(Before)
  BY <1>4, BeforeSound DEF Clean, Ordered
<1>6. Neat(Before, x)
  BY <1>5 DEF Gets, Reads
<1> QED BY <1>2, <1>3, <1>4, <1>6

\* Nothing that was left over is handed out.
LEMMA GetOrderly ==
  ASSUME Typed, Typed', Traced, Orderly, Get
  PROVE  Orderly'
<1> SUFFICES ASSUME past'.tidy, ~past'.astray
             PROVE  /\ Ordered(line', sensor'.stream, impl'.last_measure_type_,
                               urg'.scanning_remain_times, urg'.specified_scan_times)
                    /\ ~past'.pending => Silent'
  BY DEF Orderly
<1>1. PICK s, x : Gets(s, x)
  BY GetReads
<1> DEFINE type == impl.last_measure_type_
           left == urg.scanning_remain_times
           times == urg.specified_scan_times
           stream == sensor.stream
<1>2. /\ ~s.astray /\ ~x.astray /\ Neat(Before, x)
      /\ Ordered(line, stream, type, left, times)
      /\ ~past.pending => Silent
      /\ past'.pending = (past.pending /\ (s.ret = "error" \/ ~AllRead(s)))
  BY <1>1, GetNeat
<1>3. /\ line' = s.items /\ sensor'.stream = s.stream /\ impl' = impl
      /\ urg'.scanning_remain_times = s.left /\ urg'.specified_scan_times = times
  BY <1>1, HappenedTyped DEF Gets, Get
<1>4. /\ line \in Seq(Items) /\ stream \in Streams \cup {NoStream} /\ left \in Nat
      /\ Before.items = line /\ Before.stream = stream /\ Before.left = left
      /\ times \in Int /\ s.left \in Nat
  BY <1>1, BeforeSound DEF Typed, Doings, Urgs, Gets, Sound, Outcomes
<1>5. Counted(Before).left \in Nat
      /\ (times > 1 /\ left > 0 => Counted(Before).left = left - 1)
  <2> DEFINE c == Counted(Before)
  <2>1. Sound(c) /\ (times > 1 /\ Before.left > 0 => c.left = Before.left - 1)
    BY BeforeSound, CountedFollows DEF Follows
  <2> HIDE DEF c
  <2>2. c.left \in Nat
    BY <2>1 DEF Sound, Outcomes
  <2> QED BY <1>4, <2>1, <2>2 DEF c
<1>6. CASE left > 0 /\ x.left = 0 /\ s.items = <<>> /\ s.stream = NoStream
  BY <1>3, <1>4, <1>6, SilentIsOrdered DEF Silent
<1>7. CASE s = x /\ ~(left > 0 /\ x.left = 0)
  <2>1. line # <<>> => Len(line) \in Nat /\ Len(line) >= 1 /\ past.pending
    BY <1>2, <1>4 DEF Silent
  <2>2. line # <<>> /\ times > 1 => left > 0
    <3>1. stream # NoStream => stream.left \in Int
      BY <1>4 DEF Streams
    <3>2. line # <<>> /\ times > 1 =>
            /\ stream # NoStream => stream.left >= 1
            /\ Len(line) + (IF stream = NoStream THEN 0 ELSE stream.left) <= left
      BY <1>2 DEF Ordered
    <3> HIDE DEF stream, left, times
    <3> QED BY <1>4, <2>1, <3>1, <3>2
  <2>3. CASE x.items = line /\ x.stream = stream /\ x.left = left /\ x.ret = "error"
    <3>1. ~past'.pending => Silent'
      BY <1>2, <1>3, <1>7, <2>3 DEF Silent
    <3> QED BY <1>2, <1>3, <1>7, <2>3, <3>1
  <2>4. CASE /\ line # <<>> /\ x.items = <<>> /\ x.left \in {left, Counted(Before).left}
             /\ x.ret = "error" /\ x.stream \in {stream, NoStream}
    <3>1. past'.pending
      BY <1>2, <1>7, <2>1, <2>4
    <3>2. x.left = left \/ x.left = left - 1
      <4>1. x.left # left => times > 1
        BY <1>1, <1>4 DEF Gets, Reads, Follows
      <4> QED BY <1>5, <2>2, <2>4, <4>1
    <3>3. x.left \in Nat
      BY <1>4, <1>7
    <3>4. Ordered(<<>>, x.stream, type, x.left, times)
      <4>1. Ordered(line, stream, type, left, times) /\ line \in Seq(Items) /\ line # <<>>
            /\ stream \in Streams \cup {NoStream} /\ left \in Nat /\ x.left \in Nat
            /\ x.stream \in {stream, NoStream}
        BY <1>2, <1>4, <2>4, <3>3
      <4> HIDE DEF type, left, times, stream
      <4>2. CASE x.left = left
        BY <4>1, <4>2, OrderedEmpty
      <4>3. CASE x.left = left - 1
        BY <4>1, <4>3, OrderedEmpty
      <4> QED BY <3>2, <4>2, <4>3
    <3> QED BY <1>3, <1>7, <2>4, <3>1, <3>4
  <2>5. CASE /\ line # <<>> /\ x.items = Tail(line) /\ x.stream = stream
             /\ x.left = Counted(Before).left /\ x.ret = "data" /\ Expected(Head(line))
    <3>1. times > 1 => x.left = left - 1
      BY <1>5, <2>2, <2>5
    <3>2. Ordered(Tail(line), stream, type, x.left, times)
      <4>1. x.left \in Nat
        BY <1>4, <1>7
      <4> HIDE DEF type, left, times, stream
      <4> QED BY <1>2, <1>4, <2>5, <3>1, <4>1, OrderedTail
    <3>3. ASSUME ~past'.pending
          PROVE  Silent'
      <4>1. AllRead(s)
        BY <1>2, <2>1, <2>5, <3>3
      <4>2. Single
        <5>1. ~(times > 1 /\ s.left = 0)
          BY <1>4, <1>7, <2>2, <2>5
        <5> QED BY <4>1, <5>1 DEF AllRead
      <4>3. Head(line) \in Scans /\ Head(line).once /\ Head(line) = line[1] /\ 1 \in 1 .. Len(line)
        <5>1. Head(line) \in Items /\ Head(line) = line[1] /\ 1 \in 1 .. Len(line)
          BY <1>4, <2>5, MadeTail
        <5> QED BY <2>5, <4>2, <5>1, Kinds4 DEF Expected
      <4>4. Len(line) = 1 /\ stream = NoStream
        BY <1>2, <4>3 DEF Ordered
      <4>5. Tail(line) = <<>>
        <5>1. Tail(line) \in Seq(Items) /\ Len(Tail(line)) = Len(line) - 1
          BY <1>4, <2>5, MadeTail
        <5> DEFINE more == Tail(line)
        <5>2. more \in Seq(Items) /\ Len(more) = 0
          BY <4>4, <5>1
        <5> HIDE DEF more
        <5>3. more = <<>>
          BY <5>2
        <5> QED BY <5>3 DEF more
      <4> QED BY <1>3, <1>7, <2>5, <4>4, <4>5 DEF Silent
    <3> QED BY <1>3, <1>7, <2>5, <3>2, <3>3
  <2> QED BY <1>2, <1>4, <2>3, <2>4, <2>5 DEF Neat
<1>8. \/ s = x /\ ~(left > 0 /\ x.left = 0)
      \/ left > 0 /\ x.left = 0 /\ s.items = <<>> /\ s.stream = NoStream
  BY <1>1, <1>2, <1>4 DEF Gets, Receives
<1> QED BY <1>6, <1>7, <1>8

\* The sensor measures what was asked for.
LEMMA MeasureOrderly ==
  ASSUME Typed, Attached, Orderly, Measure
  PROVE  Orderly'
<1> DEFINE s == sensor.stream
           left == urg.scanning_remain_times
           times == urg.specified_scan_times
           type == impl.last_measure_type_
<1> SUFFICES ASSUME past.tidy, ~past.astray
             PROVE  /\ Ordered(line', sensor'.stream, type, left, times)
                    /\ past.pending
  BY DEF Orderly, Measure, session
<1>1. Ordered(line, s, type, left, times) /\ s # NoStream /\ past.pending
  BY DEF Orderly, Measure, Silent
<1>2. PICK scan \in Scans :
        line' = Append(line, scan) /\ scan.type = s.type /\ scan.once = s.once
  BY MeasuresScan
<1>3. line \in Seq(Items) /\ scan \in Items /\ Len(line) \in Nat
  BY DEF Typed, Items
<1>4. /\ Len(line') = Len(line) + 1 /\ line'[Len(line) + 1] = scan
      /\ \A i \in 1 .. Len(line) : line'[i] = line[i]
  BY <1>2, <1>3
<1>5. scan \notin {Stopped, Rest}
  BY Kinds4
<1>6. s \in Streams /\ left \in Nat /\ times \in Int
  BY <1>1 DEF Typed, Doings, Urgs
<1>7. sensor'.stream \in {NoStream, [s EXCEPT !.left = IF @ = 0 THEN 0 ELSE @ - 1]}
      /\ (s.left = 1 <=> sensor'.stream = NoStream)
  <2> DEFINE less == [s EXCEPT !.left = IF @ = 0 THEN 0 ELSE @ - 1]
  <2>1. sensor'.stream = IF s.left = 1 THEN NoStream ELSE less
    BY DEF Measure, Typed, Doings
  <2>2. less.once \in BOOLEAN /\ less.type = s.type /\ less \in [type : Measurements,
          once : BOOLEAN, left : Int, first : Int, last : Int, skip : Int]
    BY <1>6 DEF Streams
  <2> HIDE DEF less
  <2>3. less # NoStream
    BY <2>2 DEF NoStream
  <2> QED BY <2>1, <2>3 DEF less
<1>8. sensor'.stream # NoStream =>
        /\ sensor'.stream.type = s.type /\ sensor'.stream.once = s.once /\ s.left # 1
        /\ sensor'.stream.left = IF s.left = 0 THEN 0 ELSE s.left - 1
  BY <1>6, <1>7 DEF Streams
<1>9. s.type = type /\ (s.once => line = <<>> /\ s.left = 1)
      /\ (times > 1 => s.left >= 1 /\ Len(line) + s.left <= left)
  BY <1>1 DEF Ordered
<1>10. ASSUME NEW i \in 1 .. Len(line')
       PROVE  /\ line'[i] \notin {Stopped, Rest}
              /\ line'[i] \in Scans => line'[i].type = type
              /\ line'[i] \in Scans /\ line'[i].once
                   => Len(line') = 1 /\ sensor'.stream = NoStream
  <2>1. CASE i = Len(line) + 1
    <3>1. line'[i] = scan
      BY <1>4, <2>1
    <3>2. s.once => Len(line') = 1 /\ sensor'.stream = NoStream
      <4>1. line = <<>> => Len(line) = 0
        OBVIOUS
      <4> QED BY <1>4, <1>7, <1>9, <4>1
    <3> QED BY <1>2, <1>5, <1>9, <3>1, <3>2
  <2>2. CASE i \in 1 .. Len(line)
    <3>1. line'[i] = line[i]
      BY <1>4, <2>2
    <3>2. ~(line[i] \in Scans /\ line[i].once)
      BY <1>1, <2>2 DEF Ordered
    <3> QED BY <1>1, <2>2, <3>1, <3>2 DEF Ordered
  <2> QED BY <1>3, <1>4, <2>1, <2>2
<1>11. sensor'.stream # NoStream => ~sensor'.stream.once
  BY <1>8, <1>9
<1>12. times > 1 =>
         /\ sensor'.stream # NoStream => sensor'.stream.left >= 1
         /\ Len(line') + (IF sensor'.stream = NoStream THEN 0 ELSE sensor'.stream.left) <= left
  <2>1. s.left \in Int
    BY <1>6 DEF Streams
  <2> HIDE DEF s, left, times, type
  <2>2. CASE s.left = 1
    BY <1>3, <1>4, <1>6, <1>7, <1>9, <2>2
  <2>3. CASE s.left # 1
    BY <1>3, <1>4, <1>6, <1>7, <1>8, <1>9, <2>1, <2>3
  <2> QED BY <2>2, <2>3
<1> HIDE DEF s, left, times, type
<1> QED BY <1>1, <1>8, <1>9, <1>10, <1>11, <1>12 DEF Ordered

\* Orderly is kept by every step.
LEMMA NextOrderly ==
  ASSUME Typed, Typed', Connected, Attached, Traced, Orderly, [Next]_vars
  PROVE  Orderly'
<1>0. Idle.stream = NoStream
  BY DEF Idle
<1>1. ASSUME Silent'
      PROVE  Orderly'
  BY <1>1, SilentOrderly
<1>2. CASE /\ UNCHANGED <<line, sensor, impl, past>>
           /\ urg'.scanning_remain_times = urg.scanning_remain_times
           /\ urg'.specified_scan_times = urg.specified_scan_times
  BY <1>2 DEF Orderly, Silent
<1>3. CASE Open
  BY <1>0, <1>1, <1>3, OpenLeaves DEF Silent
<1>4. ASSUME NEW keep, Disconnected(keep)
      PROVE  Orderly'
  BY <1>0, <1>1, <1>4 DEF Disconnected, Silent
<1>5. CASE Close /\ UNCHANGED <<session, traffic>> /\ ~urg.is_active
  BY <1>1, <1>5 DEF Attached, Silent, traffic
<1>6. ASSUME Ongoing
      PROVE  Orderly'
  <2>1. ASSUME NEW type \in Types, NEW times \in ScanTimes, Start(type, times)
        PROVE  Orderly'
    BY <2>1, StartOrderly
  <2>2. CASE Reboot
    BY <1>2, <1>4, <2>2 DEF Reboot, session, traffic
  <2>3. CASE Stop \/ StartRefused \/ Get
    BY <2>3, StopOrderly, StartRefusedOrderly, GetOrderly
  <2>4. CASE CallInactive
    BY <1>2, <2>4 DEF CallInactive, session, traffic
  <2>5. ASSUME NEW type \in Types, GetFails(type)
        PROVE  Orderly'
    BY <1>2, <2>5 DEF GetFails, session, traffic
  <2>6. ASSUME NEW type \in Types, SetMeasurementType(type)
        PROVE  Orderly'
    <3>1. ~past'.tidy
      BY <2>6 DEF SetMeasurementType, Typed, History
    <3> QED BY <3>1 DEF Orderly
  <2>7. CASE SetWindow
    BY <1>2, <2>7 DEF SetWindow, traffic, Typed, Urgs
  <2>8. CASE SetSensorTimeStamp
    <3>1. line' = <<>> /\ sensor'.stream = NoStream
      BY <2>8 DEF SetSensorTimeStamp, Quiet, Typed, Doings
    <3> QED BY <1>1, <3>1 DEF Silent
  <2>9. CASE SetSensorTimeStampFails \/ Name \/ Ask
    <3>1. line = <<>> /\ sensor.stream = NoStream
      BY <2>9 DEF SetSensorTimeStampFails, Name, Ask, Quiet
    <3>2. sensor'.stream = sensor.stream
      BY <2>9 DEF SetSensorTimeStampFails, Name, Ask, Typed, Doings
    <3>3. Unanswered \/ UNCHANGED <<line, past>>
      BY <2>9, NameIs DEF SetSensorTimeStampFails, Ask, Exchange
    <3>4. line' = <<>> \/ past'.astray
      BY <3>1, <3>3 DEF Unanswered, Typed, History
    <3>5. CASE line' = <<>>
      BY <1>1, <3>1, <3>2, <3>5 DEF Silent
    <3>6. CASE past'.astray
      BY <3>6 DEF Orderly
    <3> QED BY <3>4, <3>5, <3>6
  <2>10. CASE Measure
    BY <2>10, MeasureOrderly
  <2>11. CASE Others \/ Tick \/ UNCHANGED vars
    BY <1>2, <2>11 DEF Others, Tick, vars, session, traffic
  <2> QED BY <1>6, <2>1, <2>2, <2>3, <2>4, <2>5, <2>6, <2>7, <2>8, <2>9, <2>10, <2>11
          DEF Ongoing, Next, Driver
<1> QED BY <1>3, <1>4, <1>5, <1>6, StepsAre

\* What a call other than get returns, and what steps that are no calls leave
LEMMA GetsOnly ==
  ASSUME [Next]_vars, ~Get
  PROVE  \/ UNCHANGED <<result, past, urg, impl, peer, zero>>
         \/ result'.op = "get" /\ result'.ok # "true" /\ result'.data = NoScan
         \/ result'.op # "get" /\ result'.data = NoScan
<1> DEFINE Hands == result'.op # "get" /\ result'.data = NoScan
<1>1. ASSUME NEW op, NEW ok, Returns(op, ok), op # "get"
      PROVE  Hands
  BY <1>1 DEF Returns
<1> HIDE DEF Hands
<1>2. CASE Measure \/ Others \/ Tick \/ UNCHANGED vars
  BY <1>2 DEF Measure, Others, Tick, vars, session, world
<1>3. CASE \E type \in Types : GetFails(type)
  BY <1>3 DEF GetFails, Got
<1>4. ASSUME Open \/ Close \/ Reboot
      PROVE  Hands
  BY <1>1, <1>4 DEF Open, Opening, Close, Reboot
<1>5. ASSUME NEW type \in Types, NEW times \in ScanTimes, Start(type, times)
      PROVE  Hands
  BY <1>1, <1>5 DEF Start
<1>6. ASSUME StartRefused \/ Stop \/ CallInactive \/ SetWindow \/ Name \/ Ask
      PROVE  Hands
  BY <1>1, <1>6 DEF StartRefused, Stop, CallInactive, SetWindow, Name, Ask
<1>7. ASSUME SetSensorTimeStamp \/ SetSensorTimeStampFails
             \/ \E type \in Types : SetMeasurementType(type)
      PROVE  Hands
  BY <1>1, <1>7 DEF SetSensorTimeStamp, SetSensorTimeStampFails, SetMeasurementType
<1> QED BY <1>2, <1>3, <1>4, <1>5, <1>6, <1>7 DEF Next, Driver, Hands

\* What get hands out is the first item of an orderly line.
LEMMA NextOwnScan ==
  ASSUME Typed, Traced, Orderly, OwnScan, [Next]_vars
  PROVE  OwnScan'
<1> SUFFICES ASSUME Get, past'.tidy, ~past'.astray, result'.ok = "true"
             PROVE  result'.data.k = "scan" /\ result'.data.type = result'.type
  BY GetsOnly DEF OwnScan
<1>1. PICK s, x : Gets(s, x)
  BY GetReads
<1>2. /\ Neat(Before, x) /\ ~x.astray
      /\ Ordered(line, sensor.stream, impl.last_measure_type_,
                 urg.scanning_remain_times, urg.specified_scan_times)
  BY <1>1, GetNeat
<1>3. s.ret = x.ret /\ s.scan = x.scan
  BY <1>1 DEF Gets, Receives
<1>4. s.ret # "error"
  BY <1>1 DEF Gets, GetReturns, Got, Bool
<1>5. /\ x.ret = "data" /\ line # <<>> /\ Expected(Head(line)) /\ x.scan.type = Head(line).type
  BY <1>2, <1>3, <1>4, BeforeSound DEF Neat
<1>6. x.scan \in Scans
  BY <1>1, <1>5 DEF Gets, Reads, HandsOut
<1>7. result'.data = x.scan /\ result'.type = "Distance"
  BY <1>1, <1>3, <1>5 DEF Gets, GetReturns, Got
<1>8. Head(line) \in Scans /\ Head(line) = line[1] /\ 1 \in 1 .. Len(line)
  <2>1. Head(line) \in Items /\ Head(line) = line[1] /\ 1 \in 1 .. Len(line)
    BY <1>5, MadeTail DEF Typed
  <2> QED BY <1>5, <2>1, Kinds4 DEF Expected
<1>9. Head(line).type = impl.last_measure_type_
  BY <1>2, <1>8 DEF Ordered
<1>10. impl.last_measure_type_ = "Distance"
  BY DEF Get, Mismatch
<1> QED BY <1>5, <1>6, <1>7, <1>9, <1>10, Kinds4

\* Nothing on the line, nothing to trace.
LEMMA SilentTraced ==
  ASSUME Silent'
  PROVE  Traced'
  BY DEF Silent, Traced, Coming

\* What a call that reads leaves was there.
LEMMA HappenedTraced ==
  ASSUME Typed, NEW s, Sound(s), Happened(s), UNCHANGED <<peer, zero>>
  PROVE  Traced'
<1>1. line' = s.items /\ sensor'.stream = s.stream
  BY HappenedTyped
<1> QED BY <1>1 DEF Sound, Traced, Coming

\* One item more
LEMMA ComingAppend ==
  ASSUME NEW items \in Seq(Items), NEW stream, Coming(items, stream), NEW item \in Items,
         item \in Scans => item.intact /\ From(item, peer, zero[peer])
  PROVE  Coming(Append(items, item), stream) /\ Append(items, item) \in Seq(Items)
<1> DEFINE all == Append(items, item)
<1>1. /\ all \in Seq(Items) /\ Len(all) = Len(items) + 1 /\ all[Len(items) + 1] = item
      /\ Len(items) \in Nat /\ \A i \in 1 .. Len(items) : all[i] = items[i]
  OBVIOUS
<1> HIDE DEF all
<1>2. ASSUME NEW i \in 1 .. Len(all), all[i] \in Scans
      PROVE  all[i].intact /\ From(all[i], peer, zero[peer])
  <2>1. i = Len(items) + 1 \/ i \in 1 .. Len(items)
    BY <1>1
  <2> QED BY <1>1, <1>2, <2>1 DEF Coming
<1> QED BY <1>1, <1>2 DEF Coming, all

LEMMA StartTraced ==
  ASSUME Typed, Traced, NEW type \in Types, NEW times \in ScanTimes, Start(type, times),
         UNCHANGED <<peer, zero>>
  PROVE  Traced'
<1> DEFINE stream == Stream(type, times)
           refused == Refused(stream.first)
<1>1. PICK l \in Lighting(times) :
        \/ line' = Append(l.items, refused) /\ sensor' = sensor
        \/ line' = l.items /\ sensor' = sensor
        \/ /\ line' = l.items /\ Measurable(stream)
           /\ sensor' = [sensor EXCEPT !.stream = stream]
  BY StartIs
<1>2. /\ refused \in Items /\ refused \notin Scans /\ Rest \in Items /\ Rest \notin Scans
      /\ line \in Seq(Items)
  <2>1. stream \in Streams
    BY StreamTyped
  <2> HIDE DEF stream
  <2>2. refused \in Refusals /\ refused.k = "refused"
    BY <2>1 DEF Refused, Refusals, Streams
  <2> QED BY <2>2, Kinds4 DEF Typed, Items
<1> HIDE DEF refused, stream
<1>3. l.items \in Seq(Items) /\ Coming(l.items, sensor.stream)
  <2>1. CASE l.items = line
    BY <1>2, <2>1 DEF Traced
  <2>2. CASE l.items = Append(line, Rest)
    BY <1>2, <2>2, ComingAppend DEF Traced
  <2> QED BY <2>1, <2>2, LightingIs
<1>4. Coming(Append(l.items, refused), sensor.stream)
  BY <1>2, <1>3, ComingAppend
<1>5. CASE /\ line' = l.items /\ Measurable(stream)
           /\ sensor' = [sensor EXCEPT !.stream = stream]
  <2>1. sensor'.stream = stream
    BY <1>5 DEF Typed, Doings
  <2>2. Coming(l.items, stream)
    BY <1>3, <1>5 DEF Coming, Measurable
  <2> QED BY <1>5, <2>1, <2>2 DEF Traced, Coming
<1>6. CASE line' = l.items /\ sensor' = sensor
  BY <1>3, <1>6 DEF Traced, Coming
<1>7. CASE line' = Append(l.items, refused) /\ sensor' = sensor
  <2> DEFINE items == Append(l.items, refused)
  <2>1. Coming(items, sensor.stream) /\ line' = items
    BY <1>4, <1>7
  <2> HIDE DEF items
  <2> QED BY <1>7, <2>1 DEF Traced, Coming
<1> QED BY <1>1, <1>5, <1>6, <1>7

LEMMA MeasureTraced ==
  ASSUME Typed, Attached, Traced, Measure
  PROVE  Traced'
<1> DEFINE s == sensor.stream
<1>1. s # NoStream /\ s \in Streams /\ UNCHANGED <<peer, zero>>
  BY DEF Measure, Typed, Doings, world, session
<1>2. PICK scan \in Scans :
        /\ line' = Append(line, scan)
        /\ scan.first = s.first /\ scan.last = s.last
        /\ scan.taken = now /\ scan.stamp = SensorClock(now) /\ scan.intact
  BY MeasuresScan
<1>3. From(scan, peer, zero[peer])
  BY <1>1, <1>2 DEF Traced, Coming, From, SensorClock
<1>4. sensor'.stream \in {NoStream, [s EXCEPT !.left = IF @ = 0 THEN 0 ELSE @ - 1]}
  BY DEF Measure, Typed, Doings
<1>5. sensor'.stream # NoStream => sensor'.stream.first = s.first /\ sensor'.stream.last = s.last
  BY <1>1, <1>4 DEF Streams
<1> DEFINE all == Append(line, scan)
<1>6. Coming(all, s)
  BY <1>2, <1>3, ComingAppend, Kinds4 DEF Typed, Traced
<1>7. line' = all
  BY <1>2
<1> HIDE DEF all
<1> QED BY <1>1, <1>5, <1>6, <1>7 DEF Traced, Coming

\* Traced is kept by every step.
LEMMA NextTraced ==
  ASSUME Typed, Connected, Attached, Traced, [Next]_vars
  PROVE  Traced'
<1>0. Idle.stream = NoStream
  BY DEF Idle
<1>1. CASE Open
  BY <1>0, <1>1, OpenLeaves, SilentTraced DEF Silent
<1>2. ASSUME NEW keep, Disconnected(keep)
      PROVE  Traced'
  BY <1>0, <1>2, SilentTraced DEF Disconnected, Silent
<1>3. CASE Close /\ UNCHANGED <<session, traffic>> /\ ~urg.is_active
  BY <1>3, SilentTraced DEF Attached, Silent, traffic
<1>4. ASSUME Ongoing
      PROVE  Traced'
  <2>0. UNCHANGED <<peer, zero>>
    BY <1>4 DEF Ongoing
  <2>1. ASSUME line' = line, sensor'.stream = sensor.stream
        PROVE  Traced'
    BY <2>0, <2>1 DEF Traced, Coming
  <2>2. CASE UNCHANGED traffic
    BY <2>1, <2>2 DEF traffic
  <2>3. ASSUME NEW type \in Types, NEW times \in ScanTimes, Start(type, times)
        PROVE  Traced'
    BY <2>0, <2>3, StartTraced
  <2>4. CASE Reboot
    BY <1>2, <2>2, <2>4 DEF Reboot
  <2>5. CASE Stop
    <3>1. PICK s \in urg_stop_measurement(Before) : Happened(s)
      BY <2>5 DEF Stop
    <3> QED BY <2>0, <3>1, BeforeSound, StopFollows, HappenedTraced DEF Follows
  <2>6. CASE StartRefused
    <3>1. PICK s \in Drains(Before, line) : Happened(s)
      BY <2>6 DEF StartRefused
    <3>2. Made(line, Before.items)
      BY BeforeSound, MadeSame DEF Typed
    <3> QED BY <2>0, <3>1, <3>2, BeforeSound, DrainsFollow, HappenedTraced DEF Follows
  <2>7. CASE Get
    BY <2>0, <2>7, GetReads, HappenedTraced DEF Gets
  <2>8. CASE CallInactive \/ SetWindow
    BY <2>2, <2>8 DEF CallInactive, SetWindow
  <2>9. ASSUME NEW type \in Types, GetFails(type) \/ SetMeasurementType(type)
        PROVE  Traced'
    BY <2>2, <2>9 DEF GetFails, SetMeasurementType
  <2>10. CASE SetSensorTimeStamp
    <3>1. sensor'.stream = sensor.stream /\ line' = line
      BY <2>10 DEF SetSensorTimeStamp, Typed, Doings
    <3> QED BY <2>1, <3>1
  <2>11. CASE SetSensorTimeStampFails \/ Name \/ Ask
    <3>1. sensor'.stream = sensor.stream /\ line' \in {line, <<Rest>>}
      <4>1. sensor'.stream = sensor.stream
        BY <2>11 DEF SetSensorTimeStampFails, Name, Ask, Typed, Doings
      <4>2. Unanswered \/ UNCHANGED <<line, past>>
        BY <2>11, NameIs DEF SetSensorTimeStampFails, Ask, Exchange
      <4> QED BY <4>1, <4>2 DEF Unanswered
    <3>2. CASE line' = <<Rest>>
      <4>1. \A i \in 1 .. Len(line') : line'[i] \notin Scans
        BY <3>2, Kinds4
      <4> QED BY <2>0, <3>1, <4>1 DEF Traced, Coming
    <3> QED BY <2>1, <3>1, <3>2
  <2>12. CASE Measure
    BY <2>12, MeasureTraced
  <2>13. CASE Others \/ Tick \/ UNCHANGED vars
    BY <2>2, <2>13 DEF Others, Tick, vars
  <2> QED BY <1>4, <2>3, <2>4, <2>5, <2>6, <2>7, <2>8, <2>9, <2>10, <2>11, <2>12, <2>13
          DEF Ongoing, Next, Driver
<1> QED BY <1>1, <1>2, <1>3, <1>4, StepsAre

\* A scan is handed out with its index and in PC time: the stop that follows the last
\* one reads nothing that begins elsewhere, if the application is tidy.
LEMMA NextHandedOut ==
  ASSUME Typed, Connected, Traced, Orderly, HandedOut, [Next]_vars
  PROVE  HandedOut'
<1>1. CASE ~Get
  <2>1. CASE UNCHANGED <<result, past, urg, impl, peer, zero>>
    BY <2>1 DEF HandedOut, adjust_time_stamp, Readable, StoppedAfter
  <2>2. CASE result'.op # "get" \/ result'.data = NoScan
    BY <2>2 DEF HandedOut
  <2> QED BY <1>1, <2>1, <2>2, GetsOnly
<1>2. CASE Get
  <2>1. PICK s, x : Gets(s, x)
    BY <1>2, GetReads
  <2>2. /\ zero' = zero /\ peer' = peer /\ impl' = impl /\ urg.is_active
        /\ urg'.is_active = urg.is_active /\ urg'.received_first_index = s.first
        /\ urg'.scanning_remain_times = s.left
        /\ urg'.specified_scan_times = urg.specified_scan_times
    BY <1>2, <2>1, HappenedTyped DEF Get, Gets, Calls, world
  <2>3. CASE s.ret # "data"
    <3>1. result'.data = NoScan
      BY <2>1, <2>3 DEF Gets, GetReturns, Got
    <3> QED BY <3>1 DEF HandedOut
  <2>4. CASE s.ret = "data"
    <3>1. /\ result'.op = "get" /\ result'.data = s.scan
          /\ result'.stamp = adjust_time_stamp(s.stamp)
      BY <2>1, <2>4 DEF Gets, GetReturns, Got
    <3>2. x.ret = "data" /\ s.scan = x.scan /\ s.stamp = x.stamp
      BY <2>1, <2>4 DEF Gets, Receives
    <3>3. /\ x.scan \in Scans
          /\ x.scan.intact => x.first = x.scan.first /\ x.stamp = x.scan.stamp
      BY <2>1, <3>2 DEF Gets, Reads, HandsOut
    <3>4. From(s.scan, peer, zero[peer])
      BY <2>1, <3>2, <3>3, Kinds4 DEF Gets, Sound
    <3>5. ASSUME Readable'
          PROVE  s.first = s.scan.first
      <4>1. s.scan.intact
        BY <3>1, <3>5 DEF Readable
      <4>2. CASE s = x
        BY <3>2, <3>3, <4>1, <4>2
      <4>3. CASE Before.left > 0 /\ x.left = 0 /\ s.left = 0 /\ (Barren(x) => s.first = x.first)
        <5>1. urg.specified_scan_times > 1
          <6>1. x.left # Before.left
            BY <4>3
          <6> QED BY <2>1, <6>1 DEF Gets, Reads, Follows
        <5>2. past'.tidy /\ ~past'.astray
          BY <2>2, <3>5, <4>3, <5>1 DEF Readable, StoppedAfter
        <5>3. /\ ~x.astray /\ Neat(Before, x)
              /\ Ordered(line, sensor.stream, impl.last_measure_type_,
                         urg.scanning_remain_times, urg.specified_scan_times)
          BY <2>1, <5>2, GetNeat
        <5>4. /\ line # <<>> /\ x.items = Tail(line) /\ x.left = Counted(Before).left
              /\ Before.left = urg.scanning_remain_times
          BY <3>2, <5>3, BeforeSound DEF Neat
        <5>5. Counted(Before).left = Before.left - 1
          BY <4>3, <5>1, BeforeSound, CountedFollows
        <5>6. urg.scanning_remain_times = 1
          <6>1. urg.scanning_remain_times \in Nat
            BY DEF Typed, Urgs
          <6> QED BY <4>3, <5>4, <5>5, <6>1
        <5> DEFINE more == Tail(line)
        <5>7. /\ Len(line) \in Nat /\ Len(more) = Len(line) - 1
              /\ more \in Seq(Items) /\ line \in Seq(Items)
          BY <5>4, MadeTail DEF Typed
        <5>8. Len(line) <= 1
          <6>1. sensor.stream # NoStream => sensor.stream.left \in Int
            BY DEF Typed, Doings, Streams
          <6>2. /\ sensor.stream # NoStream => sensor.stream.left >= 1
                /\ Len(line) + (IF sensor.stream = NoStream THEN 0 ELSE sensor.stream.left) <= 1
            BY <5>1, <5>3, <5>6 DEF Ordered
          <6> HIDE DEF more
          <6> QED BY <5>7, <6>1, <6>2
        <5>9. Barren(x)
          <6>1. x.items = more
            BY <5>4
          <6> HIDE DEF more
          <6>2. \A i \in 1 .. Len(more) : FALSE
            BY <5>7, <5>8
          <6> QED BY <6>1, <6>2 DEF Barren
        <5> QED BY <3>2, <3>3, <4>1, <4>3, <5>9
      <4>4. \/ s = x
            \/ Before.left > 0 /\ x.left = 0 /\ s.left = 0 /\ (Barren(x) => s.first = x.first)
        BY <2>1 DEF Gets, Receives
      <4> QED BY <4>2, <4>3, <4>4
    <3> QED BY <2>2, <3>1, <3>2, <3>3, <3>4, <3>5 DEF HandedOut, adjust_time_stamp
  <2> QED BY <2>3, <2>4
<1> QED BY <1>1, <1>2

\* Only a synchronization changes the offset.
LEMMA OffsetStays ==
  ASSUME Typed, Traced, Ongoing, ~SetSensorTimeStamp
  PROVE  /\ impl'.time_stamp_offset_ = impl.time_stamp_offset_
         /\ past'.sync \in {past.sync, NoSync}
<1> DEFINE Same == /\ impl'.time_stamp_offset_ = impl.time_stamp_offset_
                   /\ past'.sync \in {past.sync, NoSync}
<1> SUFFICES Same
  OBVIOUS
<1> USE DEF Typed, Impls, History
<1>1. ASSUME NEW type \in Types, NEW times \in ScanTimes, Start(type, times)
      PROVE  Same
  BY <1>1 DEF Start
<1>2. CASE Reboot
  BY <1>2 DEF Reboot, Disconnected, session
<1>3. ASSUME NEW type \in Types, GetFails(type)
      PROVE  Same
  BY <1>3 DEF GetFails, session
<1>4. ASSUME NEW type \in Types, SetMeasurementType(type)
      PROVE  Same
  BY <1>4 DEF SetMeasurementType
<1>5. CASE SetSensorTimeStampFails \/ Name \/ Ask
  <2>1. past'.sync = past.sync
    <3>1. Unanswered \/ UNCHANGED <<line, past>>
      BY <1>5, NameIs DEF SetSensorTimeStampFails, Ask, Exchange
    <3> QED BY <3>1 DEF Unanswered
  <2>2. impl'.time_stamp_offset_ = impl.time_stamp_offset_
    BY <1>5, NameIs DEF SetSensorTimeStampFails, Ask, session
  <2> QED BY <2>1, <2>2
<1>6. CASE Get
  <2>1. past'.sync = past.sync
    <3>1. PICK s, x : Gets(s, x)
      BY <1>6, GetReads
    <3> QED BY <3>1 DEF Gets
  <2> QED BY <1>6, <2>1 DEF Get
<1>7. CASE StartRefused \/ Stop
  BY <1>7 DEF StartRefused, Stop
<1>8. CASE CallInactive \/ SetWindow \/ Measure \/ Others \/ Tick \/ UNCHANGED vars
  BY <1>8 DEF CallInactive, SetWindow, Measure, Others, Tick, vars, session
<1> HIDE DEF Same
<1> QED BY <1>1, <1>2, <1>3, <1>4, <1>5, <1>6, <1>7, <1>8 DEF Ongoing, Next, Driver

\* The offset of a synchronization is the average of its samples.
LEMMA SynchronizeWithin ==
  ASSUME Typed, Connected, SetSensorTimeStamp
  PROVE  Synchronized'
<1>1. PICK delays \in Delays, lost \in {{}, {1}}, asked \in {0, now} :
        /\ SyncOver(delays)
        /\ impl' = [impl EXCEPT !.time_stamp_offset_ = Offset(delays, lost, asked)]
        /\ past' = [past EXCEPT !.sync =
             [valid |-> lost = {} /\ Turn(now) = Turn(now'), asked |-> asked,
              at |-> now, turn |-> Turn(now)]]
  BY DEF SetSensorTimeStamp
<1>2. now \in Int /\ asked \in Int /\ peer \in Devices /\ zero[peer] \in Int
      /\ UNCHANGED <<peer, zero>>
  BY DEF Typed, SetSensorTimeStamp, Connected, ActiveIsConnected, Calls, world
<1>3. SUFFICES ASSUME past'.sync.valid
               PROVE  Within(impl'.time_stamp_offset_ - (past'.sync.asked - past'.sync.at),
                             zero[peer] + Wrap * past'.sync.turn)
  BY <1>2 DEF Synchronized, Within
<1>4. past'.sync = [valid |-> lost = {} /\ Turn(now) = Turn(now'), asked |-> asked,
                    at |-> now, turn |-> Turn(now)]
  BY <1>1 DEF Typed, History
<1>5. lost = {} /\ Turn(now) = Turn(After(delays, Average_times))
  <2>1. now' = After(delays, Average_times)
    BY <1>1 DEF SyncOver
  <2> DEFINE valid == lost = {} /\ Turn(now) = Turn(now')
  <2>2. past'.sync.valid = valid
    BY <1>4
  <2>3. valid
    <3> HIDE DEF valid
    <3> QED BY <1>3, <2>2
  <2> QED BY <2>1, <2>3
<1>6. impl'.time_stamp_offset_ = Average(delays, lost) + (asked - now)
  BY <1>1 DEF Typed, Impls, Offset
<1>7. Average(delays, lost) \in Int
      /\ Within(Average(delays, lost), zero[peer] + Wrap * Turn(now))
  BY <1>2, <1>5, AverageBounds
<1>8. impl'.time_stamp_offset_ - (past'.sync.asked - past'.sync.at) = Average(delays, lost)
  BY <1>2, <1>4, <1>6, <1>7
<1> QED BY <1>4, <1>7, <1>8

\* Synchronized is kept by every step.
LEMMA NextSynchronized ==
  ASSUME Typed, Traced, Connected, Synchronized, [Next]_vars
  PROVE  Synchronized'
<1>1. ASSUME past'.sync = NoSync \/ ~urg'.is_active
      PROVE  Synchronized'
  BY <1>1 DEF Synchronized, NoSync
<1>2. CASE Open
  BY <1>1, <1>2, OpenLeaves
<1>3. ASSUME NEW keep, Disconnected(keep)
      PROVE  Synchronized'
  <2>1. urg'.is_active = FALSE
    BY <1>3 DEF Disconnected, Typed, Urgs
  <2> QED BY <1>1, <2>1
<1>4. CASE UNCHANGED <<session, traffic>> /\ ~urg.is_active
  BY <1>1, <1>4 DEF session
<1>5. CASE Ongoing /\ ~SetSensorTimeStamp
  BY <1>1, <1>5, OffsetStays DEF Ongoing, Synchronized, Within
<1>6. CASE SetSensorTimeStamp
  BY <1>6, SynchronizeWithin
<1> QED BY <1>2, <1>3, <1>4, <1>5, <1>6, StepsAre

-----------------------------------------------------------------------------
(***************************************************************************)
(* All of it together                                                      *)
(***************************************************************************)
DataInv ==
  Typed /\ Attached /\ Orderly /\ Traced /\ HandedOut /\ Synchronized /\ OwnScan /\ NamesOfPeer

LEMMA DataInit == Init => DataInv
<1> SUFFICES ASSUME Init
             PROVE  DataInv
  OBVIOUS
<1>1. Silent
  BY DEF Init, Silent, Idle
<1>2. urg.is_active = FALSE /\ result.op = "none" /\ peer = Nobody
  BY DEF Init
<1>3. Attached /\ HandedOut /\ Synchronized /\ OwnScan /\ NamesOfPeer
  BY <1>1, <1>2 DEF Attached, HandedOut, Synchronized, OwnScan, NamesOfPeer
<1>4. Traced
  BY <1>1 DEF Silent, Traced, Coming
<1> QED BY <1>3, <1>4, TypedInit, OrderlyInit DEF DataInv

LEMMA NextData == Connected /\ DataInv /\ [Next]_vars => DataInv'
  BY NextTyped, NextAttached, NextOrderly, NextTraced, NextHandedOut, NextSynchronized,
     NextOwnScan, NextNames DEF DataInv

\* The invariant of the data holds of the driver.
THEOREM DataStays == Spec => []DataInv
  BY DataInit, NextData, StaysConnected, PTL DEF Spec

\* The names the driver keeps are those of the sensor it is connected to.
THEOREM NamesAlwaysOfPeer == Spec => []NamesOfPeer
<1>1. DataInv => NamesOfPeer
  BY DEF DataInv
<1> QED BY <1>1, DataStays, PTL

\* An application that starts nothing on a pending measurement, and of whose answers
\* none is left behind unread, is handed scans of the type it asks for by every
\* get_distance() that returns true, whatever is damaged, late or lost on the line.
THEOREM ScansAlwaysOwn == Spec => []OwnScan
<1>1. DataInv => OwnScan
  BY DEF DataInv
<1> QED BY <1>1, DataStays, PTL

\* A scan no line of which was damaged or lost is stamped with PC time, to half of the
\* longest delay, for every number of samples, every delay and every clock.
THEOREM StampsAlwaysOfPC == Spec => []StampsOfPC
<1>1. DataInv => StampsOfPC
  <2> SUFFICES ASSUME DataInv, result.op = "get", result.data.k = "scan",
                      result.data.intact, past.sync.valid,
                      Turn(result.data.taken) = past.sync.turn
               PROVE  Distance(result.stamp,
                               past.sync.asked + (result.data.taken - past.sync.at))
                        <= (MaxDelay + 1) \div 2
    BY DEF StampsOfPC
  <2> DEFINE taken == result.data.taken
             z == zero[peer]
             turns == Wrap * past.sync.turn
             offset == impl.time_stamp_offset_
             asked == past.sync.asked
             at == past.sync.at
  <2>1. result.data # NoScan /\ result.data \in Scans
    BY DEF NoScan, DataInv, Typed, ResultTyped
  <2>2. urg.is_active /\ From(result.data, peer, z)
        /\ result.stamp = result.data.stamp + offset
    BY <2>1 DEF DataInv, HandedOut, adjust_time_stamp
  <2>3. z \in Int /\ MaxDelay \in Nat /\ Wrap \in Nat \ {0}
    BY <2>2, DriverAssumption DEF DataInv, Typed, Attached
  <2>4. taken \in Int /\ offset \in Int /\ asked \in Int /\ at \in Int /\ past.sync.turn \in Int
    BY <2>1 DEF DataInv, Typed, Scans, Impls, History
  <2>5. taken - z \in Int
    BY <2>3, <2>4
  <2>6. (taken - z) % Wrap = (taken - z) - Wrap * ((taken - z) \div Wrap)
    BY <2>3, <2>5, TurnsKept
  <2>7. (taken - z) \div Wrap = past.sync.turn
    BY DEF Turn
  <2>8. result.data.stamp = (taken - z) - turns /\ turns \in Int
    BY <2>2, <2>3, <2>4, <2>6, <2>7 DEF From
  <2>9. Within(offset - (asked - at), z + turns)
    BY <2>2 DEF DataInv, Synchronized
  <2> HIDE DEF taken, z, turns, offset, asked, at
  <2>10. Distance(result.stamp, asked + (taken - at)) <= (MaxDelay + 1) \div 2
    BY <2>2, <2>3, <2>4, <2>8, <2>9 DEF Within, Distance
  <2> QED BY <2>10 DEF asked, taken, at
<1> QED BY <1>1, DataStays, PTL

\* Index, angle and step of the undamaged scan just received fit one another, for every
\* sensor and every part of its range.
THEOREM AnglesAlwaysFit == Spec => []AnglesFit
<1>1. DataInv => AnglesFit
  <2> SUFFICES ASSUME DataInv, Readable,
                      NEW k \in 0 .. result.data.last - result.data.first
               PROVE  LET step == result.data.first + k - urg.front_data_index
                      IN  /\ step \in min_step .. max_step
                          /\ index2rad(k) = step2rad(step) /\ step2index(step) = k
                          /\ \A part \in -(FractionsPerStep \div 2) .. FractionsPerStep \div 2 - 1 :
                               /\ rad2step(step2rad(step) + part) = step
                               /\ rad2index(step2rad(step) + part) = result.data.first + k
    BY DEF AnglesFit
  <2> DEFINE first == result.data.first
             last == urg.last_data_index
             front == urg.front_data_index
             step == first + k - front
  <2>1. result.data # NoScan /\ result.data \in Scans /\ result.op = "get"
    BY DEF NoScan, DataInv, Typed, ResultTyped, Readable
  <2>2. urg.is_active /\ From(result.data, peer, zero[peer])
        /\ urg.received_first_index = first
    BY <2>1 DEF DataInv, HandedOut
  <2>3. peer \in Devices /\ urg.first_data_index = peer.first /\ last = peer.last
    BY <2>2 DEF DataInv, Attached
  <2>4. peer.first \in Nat
    BY <2>3, DriverAssumption
  <2>5. first \in Int /\ result.data.last \in Int /\ last \in Int /\ front \in Int
    BY <2>1 DEF DataInv, Typed, Urgs, Scans
  <2>6. first >= peer.first /\ result.data.last <= last
    BY <2>2, <2>3 DEF From
  <2>7. k \in Int /\ 0 <= k /\ first + k <= last /\ k <= last /\ first + k >= 0
    BY <2>4, <2>5, <2>6
  <2>8. step \in Int /\ step \in min_step .. max_step
    BY <2>2, <2>3, <2>4, <2>5, <2>6, <2>7 DEF min_step, max_step, urg_step_min_max
  <2>9. step2rad(step) = 4 * step
    BY <2>2 DEF step2rad, urg_step2rad, WhenActive, FractionsPerStep
  <2>10. index2rad(k) = 4 * step
    <3>1. Clamp(k, last) = k
      BY <2>5, <2>7 DEF Clamp
    <3>2. (k - front) + first = step
      BY <2>5, <2>7
    <3> HIDE DEF step
    <3> QED BY <2>2, <3>1, <3>2 DEF index2rad, urg_index2rad, urg_step2rad, WhenActive,
                                     FractionsPerStep
  <2>11. step2index(step) = k
    <3>1. Clamp(k, last) = k /\ (step - first) + front = k
      BY <2>5, <2>7 DEF Clamp
    <3> HIDE DEF step
    <3> QED BY <2>2, <3>1 DEF step2index, urg_step2index, WhenActive
  <2>12. ASSUME NEW part \in -2 .. 1
         PROVE  /\ rad2step(4 * step + part) = step
                /\ rad2index(4 * step + part) = first + k
    <3>1. Nearest(4 * step + part) = step
      <4> HIDE DEF step
      <4>1. Nearest(4 * step + part) = (8 * step + (2 * part + 4)) \div 8
        BY <2>8 DEF Nearest, FractionsPerStep
      <4>2. (8 * step + (2 * part + 4)) \div 8 = step
        BY <2>8
      <4> QED BY <4>1, <4>2
    <3>2. Clamp(step + front, last) = first + k /\ (first + k) - front = step
      BY <2>5, <2>7 DEF Clamp
    <3> HIDE DEF step
    <3> QED BY <2>2, <3>1, <3>2 DEF rad2step, rad2index, urg_rad2step, urg_rad2index, WhenActive
  <2>13. FractionsPerStep \div 2 = 2
    BY DEF FractionsPerStep
  <2> QED BY <2>8, <2>9, <2>10, <2>11, <2>12, <2>13
<1> QED BY <1>1, DataStays, PTL
=============================================================================
