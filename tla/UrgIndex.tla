------------------------------ MODULE UrgIndex ------------------------------
(***************************************************************************)
(* The conversions of urg_utils.c between the three numbers of a direction *)
(* - the index of an entry in a scan, the step (0 straight ahead) and the  *)
(* angle - and the settings they depend on.                                *)
(*                                                                         *)
(* u is the part of urg_t they read: is_active, the parameters of the      *)
(* sensor (first_data_index, last_data_index, front_data_index), and       *)
(* received_first_index, where the scan received last began.               *)
(*                                                                         *)
(* An angle is a number of fractions of a step, so that the angle of a     *)
(* step is exact and angles between two steps can be asked for.  Degrees   *)
(* are radians times a constant: one conversion stands for both.           *)
(***************************************************************************)
EXTENDS Integers

NOT_CONNECTED == -2        \* URG_NOT_CONNECTED, returned by every conversion
FractionsPerStep == 4      \* the angles there are between two steps

\* min(max(0, index), last)
Clamp(index, last) == IF index < 0 THEN 0 ELSE IF index > last THEN last ELSE index

WhenActive(u, value) == IF u.is_active THEN value ELSE NOT_CONNECTED

urg_step_min_max(u) ==
  IF u.is_active
  THEN <<u.first_data_index - u.front_data_index,
         u.last_data_index - u.front_data_index>>
  ELSE <<1, 0>>

urg_max_data_size(u) == WhenActive(u, u.last_data_index + 1)

urg_step2rad(u, step) == WhenActive(u, FractionsPerStep * step)

\* Mutant: the index is counted from the first step of the sensor.
urg_index2rad_WholeScan(u, index) ==
  WhenActive(u, urg_step2rad(u, Clamp(index, u.last_data_index) - u.front_data_index))

urg_index2rad(u, index) ==
  WhenActive(u, urg_step2rad(u, Clamp(index, u.last_data_index)
                                  - u.front_data_index + u.received_first_index))

\* The step nearest to the angle: floor(step + 1/2).
Nearest(angle) == (2 * angle + FractionsPerStep) \div (2 * FractionsPerStep)

urg_rad2index(u, angle) ==
  WhenActive(u, Clamp(Nearest(angle) + u.front_data_index, u.last_data_index))

urg_rad2step(u, angle) ==
  WhenActive(u, urg_rad2index(u, angle) - u.front_data_index)

urg_step2index(u, step) ==
  WhenActive(u, Clamp(step - u.received_first_index + u.front_data_index,
                      u.last_data_index))

\* urg_set_scanning_parameter takes this window.
InRange(u, first, last, skip) ==
  /\ skip \in 0 .. 99
  /\ first <= last
  /\ first >= -u.front_data_index
  /\ last <= u.last_data_index - u.front_data_index
=============================================================================
