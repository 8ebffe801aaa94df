----------------------------- MODULE ScanDecode ------------------------------
(***************************************************************************)
(* receive_length_data: the lines of one scan, decoded into the arrays of  *)
(* the caller.                                                             *)
(*                                                                         *)
(* The sensor writes a scan as one text: three characters for a distance,  *)
(* three more for its intensity, '&' before every further echo of a step.  *)
(* The text is cut into lines without regard to what is in it.  The host   *)
(* decodes what is complete and keeps the rest for the next line.  Where   *)
(* the distance grows by DMAX or more it adds an entry of its own, a break *)
(* point.  Lines are read whole or damaged or break off; none is lost from *)
(* the midst of a scan here (see UrgSensor for those).                     *)
(***************************************************************************)
EXTENDS Integers, Sequences, FiniteSets, SequencesExt

CONSTANTS
  Rho,          \* the distances measured
  DMAX,         \* from which growth on there is a break point
  Window,       \* steps asked for: received_last_index - received_first_index + 1
  MaxSteps,     \* bound: the steps of a scan, which may be more than asked for
  MaxEchoes,    \* bound: the echoes of a step
  MaxLine,      \* bound: the characters of a line
  Types         \* the types of measurement, see AllTypes

AllTypes == {"distance", "distance_intensity", "multiecho", "multiecho_intensity"}

ASSUME DecodeAssumption ==
  /\ Rho \subseteq Nat /\ DMAX \in Nat
  /\ Window \in Nat \ {0} /\ MaxSteps \in Nat /\ MaxEchoes \in Nat \ {0}
  /\ MaxLine \in Nat \ {0}
  /\ Types \subseteq AllTypes

VARIABLES
  type,
  wanted,           \* does the caller want the data? urg_stop_measurement does not
  scan,             \* what the sensor measured: a sequence of steps of echoes
  sent,             \* characters of the scan that were not read yet
  buffer,           \* characters read and not decoded
  n,                \* sign of the last readline: 1 a line, 0 an empty one, -1 a timeout
  step_filled, break_point, last_rho,
  length, theta, intensity,  \* what has been stored in the arrays, by index
  pc,               \* "line": about to read, "data": decoding, "done"
  ret

storedVars == <<length, theta, intensity>>
countVars == <<step_filled, break_point, last_rho>>
vars == <<type, wanted, scan, sent, buffer, n, countVars, storedVars, pc, ret>>

is_intensity == type \in {"distance_intensity", "multiecho_intensity"}
is_multiecho == type \in {"multiecho", "multiecho_intensity"}
URG_MAX_ECHO == 3
multiecho_max_size == IF is_multiecho THEN URG_MAX_ECHO ELSE 1
data_size == IF is_intensity THEN 6 ELSE 3

-----------------------------------------------------------------------------
(***************************************************************************)
(* The text of a scan.  An echo is a distance and a label, which stands    *)
(* for its intensity and tells the echoes of a scan apart.                 *)
(***************************************************************************)
Echo == [rho : Rho, label : (1 .. MaxSteps) \X (1 .. MaxEchoes)]

Ampersand == [of |-> <<>>, at |-> 0]
Encoded(e, size) == [i \in 1 .. size |-> [of |-> e, at |-> i]]
StepText(step, size) ==
  FlattenSeq([j \in DOMAIN step |->
    IF j = 1 THEN Encoded(step[j], size) ELSE <<Ampersand>> \o Encoded(step[j], size)])
ScanText(s, size) == FlattenSeq([k \in DOMAIN s |-> StepText(s[k], size)])

\* urg_scip_decode of the three characters behind the first o: the echo they
\* belong to.  Characters that do not belong together give some other value.
Garbage == [rho |-> -1, label |-> <<>>]
urg_scip_decode(chars, o) ==
  IF /\ Len(chars) >= o + 3
     /\ \A i \in 1 .. 3 : chars[o + i] = [of |-> chars[o + 1].of, at |-> o + i]
  THEN chars[o + 1].of ELSE Garbage

-----------------------------------------------------------------------------
StepOf(k, rhos) == [j \in DOMAIN rhos |-> [rho |-> rhos[j], label |-> <<k, j>>]]

Init ==
  /\ type \in Types /\ wanted \in BOOLEAN
  /\ \E steps \in 0 .. MaxSteps :
       scan \in {[k \in 1 .. steps |-> StepOf(k, rhos[k])] :
                 rhos \in [1 .. steps ->
                           UNION {[1 .. j -> Rho] :
                                  j \in 1 .. IF is_multiecho THEN MaxEchoes ELSE 1}]}
  /\ sent = ScanText(scan, data_size)
  /\ buffer = <<>> /\ n = 0
  /\ step_filled = 0 /\ break_point = 0 /\ last_rho = -1
  /\ length = <<>> /\ theta = <<>> /\ intensity = <<>>
  /\ pc = "line" /\ ret = 0

RECEIVE_ERROR == -7
CHECKSUM_ERROR == -8
Returns(r) == pc' = "done" /\ ret' = r

\* The next line, with its checksum.  A line that is not intact ends it all.
ReadLine ==
  /\ pc = "line" /\ sent # <<>>
  /\ \E m \in 1 .. MaxLine, intact \in BOOLEAN :
       /\ m <= Len(sent)
       /\ n' = 1
       /\ sent' = SubSeq(sent, m + 1, Len(sent))
       /\ IF intact
          THEN buffer' = buffer \o SubSeq(sent, 1, m) /\ pc' = "data" /\ UNCHANGED ret
          ELSE Returns(CHECKSUM_ERROR) /\ UNCHANGED buffer
  /\ UNCHANGED <<type, wanted, scan, countVars, storedVars>>

\* The empty line after the scan, or no line in time.
ReadEnd ==
  /\ pc = "line"
  /\ \/ sent = <<>> /\ n' = 0
     \/ n' = -1
  /\ pc' = "data"
  /\ UNCHANGED <<type, wanted, scan, sent, buffer, countVars, storedVars, ret>>

-----------------------------------------------------------------------------
\* The character p points to says that another echo of the same step follows.
MoreEchoes == buffer[1] = Ampersand
NextData == IF MoreEchoes THEN Tail(buffer) ELSE buffer
Step == IF MoreEchoes THEN step_filled - 1 ELSE step_filled
index == Step + break_point

\* An '&' with not all of its data behind it.
Incomplete_Never == FALSE  \* mutant: the rest is not waited for
Incomplete == MoreEchoes /\ Len(NextData) < data_size
Decodable == Len(buffer) >= data_size /\ ~Incomplete

TooManySteps_OneMore == Step > Window  \* mutant: off by one
TooManySteps_Never == FALSE  \* mutant: steps are not counted
TooManySteps == Step > Window - 1

Store(array, i, value) == [x \in DOMAIN array \cup {i} |-> IF x = i THEN value ELSE array[x]]
Cleared(array) == [x \in DOMAIN array \cup (index + 1 .. index + multiecho_max_size - 1) |->
                   IF x > index /\ x < index + multiecho_max_size THEN 0 ELSE array[x]]
\* The entries for further echoes are cleared when a step begins.
Prepared(array) == IF is_multiecho /\ ~MoreEchoes THEN Cleared(array) ELSE array

Break_Late(rho) == index > 0 /\ rho - last_rho > DMAX  \* mutant: > for >=
Break(rho) == index > 0 /\ ~(rho - last_rho < DMAX)

Refused ==
  /\ pc = "data" /\ Decodable /\ TooManySteps
  /\ Returns(RECEIVE_ERROR)
  /\ UNCHANGED <<type, wanted, scan, sent, buffer, n, countVars, storedVars>>

\* The distance and, at a break, the entry behind it, whose angle is none.
NoAngle == 1000
StoreLength ==
  LET rho == urg_scip_decode(NextData, 0).rho
      stored == Store(Prepared(length), index, rho)
  IN  /\ last_rho' = rho
      /\ IF Break(rho)
         THEN /\ break_point' = break_point + 1
              /\ length' = Store(stored, index + 1, 0)
              /\ theta' = Store(Store(theta, index, Step), index + 1, NoAngle)
         ELSE /\ length' = stored /\ theta' = Store(theta, index, Step)
              /\ UNCHANGED break_point

StoreIntensity ==
  intensity' = IF is_intensity
               THEN Store(Prepared(intensity), index, urg_scip_decode(NextData, 3).label)
               ELSE intensity

Decode ==
  /\ pc = "data" /\ Decodable /\ ~TooManySteps
  /\ IF wanted THEN StoreLength /\ StoreIntensity
     ELSE UNCHANGED <<storedVars, break_point, last_rho>>
  /\ step_filled' = Step + 1
  /\ buffer' = SubSeq(NextData, data_size + 1, Len(NextData))
  /\ UNCHANGED <<type, wanted, scan, sent, n, pc, ret>>

\* What is left moves to the front of the buffer, before the next line.
Kept_Nothing == <<>>  \* mutant: the buffer is emptied
Kept == buffer

LineDecoded ==
  /\ pc = "data" /\ ~Decodable
  /\ buffer' = Kept
  /\ IF n > 0 THEN pc' = "line" /\ UNCHANGED ret
     ELSE Returns(step_filled + break_point)
  /\ UNCHANGED <<type, wanted, scan, sent, n, countVars, storedVars>>

Next == ReadLine \/ ReadEnd \/ Refused \/ Decode \/ LineDecoded

Spec == Init /\ [][Next]_vars

-----------------------------------------------------------------------------
Returned == pc = "done" /\ ret >= 0
Complete == Returned /\ n = 0

\* The values of every variable.  No more steps are stored than were asked for.
TypeOK ==
  /\ type \in AllTypes /\ wanted \in BOOLEAN
  /\ scan \in Seq(Seq(Echo))
  /\ \A text \in {sent, buffer} : \A i \in DOMAIN text : text[i].at \in 0 .. data_size
  /\ n \in -1 .. 1
  /\ step_filled \in 0 .. Window /\ break_point \in Nat
  /\ last_rho \in Rho \cup {-1}
  /\ \A i \in DOMAIN length : i \in Nat /\ length[i] \in Rho \cup {0}
  /\ DOMAIN theta \subseteq DOMAIN length /\ DOMAIN intensity \subseteq DOMAIN length
  /\ pc \in {"line", "data", "done"}

\* The scan with its break points, for one echo per step.
Jump(k) == k > 1 /\ scan[k][1].rho - scan[k - 1][1].rho >= DMAX
Jumps(k) == Cardinality({j \in 1 .. k : Jump(j)})
Place(k) == k - 1 + Jumps(k - 1)

\* At any time the arrays hold the steps decoded so far, each with its own
\* angle and intensity, and a break point behind each that jumps: wherever the
\* lines were cut, and also when they stop coming.  The result counts the
\* entries.
DecodesScan ==
  wanted /\ ~is_multiecho =>
    /\ DOMAIN length = 0 .. step_filled + Jumps(step_filled) - 1
    /\ DOMAIN theta = DOMAIN length
    /\ DOMAIN intensity = IF is_intensity THEN {Place(k) : k \in 1 .. step_filled} ELSE {}
    /\ \A k \in 1 .. step_filled :
         /\ length[Place(k)] = scan[k][1].rho /\ theta[Place(k)] = k - 1
         /\ is_intensity => intensity[Place(k)] = scan[k][1].label
         /\ Jump(k) => length[Place(k) + 1] = 0 /\ theta[Place(k) + 1] = NoAngle
    /\ Returned => ret = step_filled + Jumps(step_filled)

\* The arrays of Urg_driver::get_distance have two entries for every step the
\* sensor has; that is enough for any scan of distances, with a break point
\* behind every step.
FitsDriver == type = "distance" => DOMAIN length \subseteq 0 .. 2 * Window - 1

\* A scan that was read to its end was counted step by step, however many
\* echoes the steps have and wherever the lines were cut.
CountsSteps == Complete => step_filled = Len(scan) /\ buffer = <<>>

\* Everything a sensor measured is handed out in the entry it is read from: that of
\* its step, as index2rad takes it in the header and in get_distance.cpp, or three for
\* every step in get_multiecho.c.
EntriesAsRead ==
  Complete /\ wanted =>
    \A k \in DOMAIN scan : \A j \in DOMAIN scan[k] :
      LET entry == multiecho_max_size * (k - 1) + j - 1
      IN  entry \in DOMAIN length /\ length[entry] = scan[k][j].rho
=============================================================================
