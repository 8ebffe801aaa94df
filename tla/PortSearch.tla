----------------------------- MODULE PortSearch -----------------------------
(***************************************************************************)
(* urg_serial_find_port: the list of serial ports, on Windows from the     *)
(* device manager, with the ports of sensors moved to the front, and on    *)
(* Linux from two directories; and the two readers of the command line by  *)
(* which the samples choose a port.                                        *)
(***************************************************************************)
EXTENDS Integers, Sequences, SequencesExt

CONSTANTS
  Ports,       \* names of serial ports
  MaxDevices,  \* devices in the device manager, files in a directory
  MaxArguments \* arguments on the command line

\* Within the rows of found_ports (MAX_PORTS), which urg_serial_find_port does
\* not check.
ASSUME PortsAssumption == MaxDevices \in 0 .. 8 /\ MaxArguments \in Nat

VARIABLES
  found,       \* found_ports and is_urg_ports, in one sequence
  present,     \* history: the ports there were at the last search
  argv,        \* the command line, without the program's name
  chosen       \* the connections the two readers have made of it

portVars == <<found, present, argv, chosen>>

\* What is wanted of s, in order.
Kept(s, wanted) ==
  LET Keep(kept, x) == IF x \in wanted THEN Append(kept, x) ELSE kept
  IN  FoldLeft(Keep, <<>>, s)

\* A device of the device manager: its friendly name is too short, has no COM
\* in its last characters, or ends with a port; is its driver one of a sensor?
Device == [name : Ports \cup {"short", "other"}, urg : BOOLEAN]

WithPort == {device \in Device : device.name \notin {"short", "other"}}

\* Mutant: the names are exchanged and the flags are not.
swap_item_NamesOnly(ports, from, to) ==
  [ports EXCEPT ![from].name = ports[to].name, ![to].name = ports[from].name]

\* Both arrays, found_ports and is_urg_ports, in one sequence; from 1.
swap_item(ports, from, to) ==
  [ports EXCEPT ![from] = ports[to], ![to] = ports[from]]

\* One turn of the loop; last is the place after the last port moved to the
\* front, and stays behind when a port is in its place already.
SortStep(s, i) ==
  IF s.ports[i].urg /\ s.last < i
  THEN [ports |-> swap_item(s.ports, i, s.last), last |-> i + 1] ELSE s

\* Mutant: the first place is taken for sorted.
sort_ports_FromSecond(ports) ==
  FoldLeft(SortStep, [ports |-> ports, last |-> 2],
           [i \in 1 .. Len(ports) |-> i]).ports

sort_ports(ports) ==
  FoldLeft(SortStep, [ports |-> ports, last |-> 1],
           [i \in 1 .. Len(ports) |-> i]).ports

\* Windows
FindInManager(devices) == sort_ports(Kept(devices, WithPort))

BaseNames == {"ttyACM", "ttyUSB", "tty.usbmodem"}
Files == (BaseNames \cup {"other"}) \X {1, 2}
Matching == {file \in Files : file[1] \in BaseNames}

\* Linux: directories is the sequence of what /dev and /dev/usb hold, each a
\* sequence of files [base, number], or Missing.
Missing == <<>>
FilesOf(dir, files) ==
  [i \in DOMAIN files |-> [name |-> <<dir, files[i]>>, urg |-> FALSE]]

FindInDirectories(directories) ==
  FilesOf(1, Kept(directories[1], Matching)) \o FilesOf(2, Kept(directories[2], Matching))

\* A search: the devices have ports of their own.
FindPortsWindows ==
  /\ \E devices \in BoundedSeq(Device, MaxDevices) :
       LET ports == Kept(devices, WithPort)
       IN  /\ \A i, j \in DOMAIN ports : i # j => ports[i].name # ports[j].name
           /\ found' = FindInManager(devices)
           /\ present' = Range(ports)
  /\ UNCHANGED <<argv, chosen>>

\* Either directory may be missing; readdir gives each file once, in any order.
FindPortsLinux ==
  /\ \E usb, dev \in BoundedSeq(Files, MaxDevices - 1) :
       /\ IsInjective(dev) /\ IsInjective(usb)
       /\ found' = FindInDirectories(<<dev, usb>>)
       /\ present' = {file \in Range(FilesOf(1, dev)) \cup Range(FilesOf(2, usb)) :
                        file.name[2][1] \in BaseNames}
  /\ UNCHANGED <<argv, chosen>>

\* urg_serial_port_name and urg_serial_is_urg_port, with i from 1.
urg_serial_port_name(ports, i) == IF i \in DOMAIN ports THEN ports[i].name ELSE ""
urg_serial_is_urg_port(ports, i) ==
  IF i \in DOMAIN ports THEN IF ports[i].urg THEN 1 ELSE 0 ELSE -1

\* Urg_driver::find_ports
find_ports(ports) ==
  [i \in DOMAIN ports |-> <<urg_serial_port_name(ports, i),
                            urg_serial_is_urg_port(ports, i)>>]

-----------------------------------------------------------------------------
(***************************************************************************)
(* The command line: -e with an address, -s with a device, both optional.  *)
(***************************************************************************)
Options == {"-e", "-s"}

Chosen(type, device) ==
  [type |-> type, device |-> device,
   number |-> IF type = "ethernet" THEN 10940 ELSE 115200]

DefaultDevice(type) == IF type = "ethernet" THEN "192.168.0.10" ELSE "default port"
TypeOf(option) == IF option = "-e" THEN "ethernet" ELSE "serial"

\* What follows argument i, or the default.
Following(arguments, i, default) == IF i < Len(arguments) THEN arguments[i + 1] ELSE default

\* Connection_information: the first option counts.
Connection_information(arguments) ==
  LET options == {i \in DOMAIN arguments : arguments[i] \in Options}
      first == CHOOSE i \in options : \A j \in options : i <= j
      type == TypeOf(arguments[first])
  IN  IF options = {} THEN Chosen("serial", DefaultDevice("serial"))
      ELSE Chosen(type, Following(arguments, first, DefaultDevice(type)))

\* Mutant: -e keeps the rate of the serial port for a port number.
Argument_KeepsRate(c, arguments, i) ==
  [c EXCEPT !.type = IF arguments[i] = "-e" THEN "ethernet" ELSE @,
            !.device = Following(arguments, i, DefaultDevice(TypeOf(arguments[i])))]

\* open_urg_sensor, option i: -s does not set the type back.
Argument(c, arguments, i) ==
  LET default == IF arguments[i] = "-e"
                 THEN Chosen("ethernet", DefaultDevice("ethernet")) ELSE c
  IN  [default EXCEPT !.device = Following(arguments, i, @)]

\* The loop over the arguments, which skips the one an option has taken.
open_urg_sensor(arguments) ==
  LET Step(s, i) ==
        IF s.skip \/ arguments[i] \notin Options THEN [s EXCEPT !.skip = FALSE]
        ELSE [chosen |-> Argument(s.chosen, arguments, i), skip |-> TRUE]
      start == [chosen |-> Chosen("serial", DefaultDevice("serial")), skip |-> FALSE]
  IN  FoldLeft(Step, start, [i \in 1 .. Len(arguments) |-> i]).chosen

ReadArguments ==
  /\ argv' \in BoundedSeq(Options \cup {"a", "b"}, MaxArguments)
  /\ chosen' = <<Connection_information(argv'), open_urg_sensor(argv')>>
  /\ UNCHANGED <<found, present>>

PortInit == found = <<>> /\ present = {} /\ argv = <<>> /\ chosen = <<>>

PortNext == FindPortsWindows \/ FindPortsLinux \/ ReadArguments

PortSpec == PortInit /\ [][PortNext]_portVars

-----------------------------------------------------------------------------
\* Every port of the machine is in the list once, under its own name and with
\* its own flag, however the list was sorted (Urg_driver::find_ports reads names
\* and flags from two arrays).
PortsKept ==
  /\ Len(found) = Cardinality(present)
  /\ Range(find_ports(found)) =
       {<<port.name, IF port.urg THEN 1 ELSE 0>> : port \in present}

\* When there is a sensor at any port, the first port of the list is one of a
\* sensor: programs that open the first port find it (sort_ports).
FirstIsSensor ==
  (\E port \in present : port.urg) => urg_serial_is_urg_port(found, 1) = 1

\* The samples in C and those in C++ make the same connection of a command line
\* with one option at most.  With two they do not: the first one counts for
\* Connection_information, and open_urg_sensor never sets the type back.
ReadersAgree ==
  chosen # <<>> /\ Cardinality({i \in DOMAIN argv : argv[i] \in Options}) <= 1
    => chosen[1] = chosen[2]
=============================================================================
