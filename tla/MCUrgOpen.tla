----------------------------- MODULE MCUrgOpen ------------------------------
\* The circumstances urg_open is checked in, for the model checker.
EXTENDS UrgOpen

\* Any sensor on a line that loses nothing and answers in time
CalmWorlds ==
  {w \in [sensor : [mode : Modes, rate : Rates], request : {19200, 115200},
           late : {FALSE}, pauses : {FALSE}, noise : {0}] :
     w.sensor.mode = "measuring" => w.sensor.rate = w.request}

\* Any sensor, late answers and up to two disturbed lines
RoughWorlds == [sensor : [mode : Modes, rate : Rates], request : {19200, 115200},
                late : {TRUE}, pauses : {TRUE}, noise : {2}]

AnyWorld == CalmWorlds \cup RoughWorlds

NoSensor == {w \in CalmWorlds : w.sensor = [mode |-> "absent", rate |-> 115200]}
=============================================================================
