---------------------------- MODULE MCUrgDriver -----------------------------
(***************************************************************************)
(* For the model checker: a Urg_driver and two sensors, used by one of     *)
(* four applications; the fourth searches for ports and reads a command    *)
(* line, for which it needs no Urg_driver.                                 *)
(***************************************************************************)
EXTENDS UrgDriver, PortSearch

VARIABLE application

Applications == {"opener", "measurer", "timer", "seeker"}

Serial == [id |-> "UTM", type |-> "serial", first |-> 0, last |-> 4, front |-> 2]
Network == [id |-> "UST", type |-> "ethernet", first |-> 1, last |-> 3, front |-> 2]
Sensors == {Serial, Network}

\* A part of either range, one that skips a step, one that begins before the
\* first step of Network, and one that ends after the last step
SomeWindows == {<<0, 1, 1>>, <<-1, 1, 2>>, <<-2, 1, 1>>, <<0, 3, 1>>}

\* Opens, closes and reboots, beside a process that uses descriptors too
Opener == Open \/ Close \/ Reboot \/ Name \/ CallInactive \/ Others

\* Measures in every way on the connection it has opened first
Measurer ==
  \/ calls = 0 /\ Open
  \/ (\E type \in Types, times \in ScanTimes : Start(type, times))
  \/ (\E type \in Types : GetFails(type) \/ SetMeasurementType(type))
  \/ Get \/ StartRefused \/ Stop \/ SetWindow \/ Measure

\* Compares the sensor's time with its own, in measurements of two scans
Timer ==
  \/ calls = 0 /\ Open /\ peer' # Network
  \/ Start("Distance", 2) \/ Get
  \/ SetSensorTimeStamp \/ SetSensorTimeStampFails \/ Reboot \/ Ask \/ Measure \/ Tick

Seeker == found = <<>> /\ chosen = <<>> /\ PortNext

MCInit ==
  /\ Init /\ PortInit
  /\ application \in Applications
  /\ application # "opener" => windows
  /\ zero[Network] = 0 /\ (application # "timer" => zero[Serial] = 0)

\* Calls each of them makes: opening up to four times; two measurements, one of them
\* read; two synchronizations and a scan.
CallsOf(who) == CASE who = "opener" -> 4 [] who = "measurer" -> 6 [] OTHER -> 5

MCNext ==
  /\ \/ application = "opener" /\ Opener /\ UNCHANGED portVars
     \/ application = "measurer" /\ Measurer /\ UNCHANGED portVars
     \/ application = "timer" /\ Timer /\ UNCHANGED portVars
     \/ application = "seeker" /\ Seeker /\ UNCHANGED vars
  /\ calls' <= CallsOf(application)
  /\ UNCHANGED application

MCSpec == MCInit /\ [][MCNext]_<<vars, portVars, application>>
=============================================================================
