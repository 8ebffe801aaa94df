------------------------------- MODULE MCPillars -----------------------------
(***************************************************************************)
(* Short scans over a table of directions a few degrees apart.             *)
(***************************************************************************)
EXTENDS Pillars

MCUnit == 4

\* 180 degrees and on, 15 at a time, in quarters; and the angle of a separator.
Directions == << <<-4, 0>>, <<-4, 1>>, <<-3, 2>>, <<-3, 3>>, <<-2, 3>>, <<-1, 4>>, <<0, 4>> >>
Table2(k) == [step \in 1 .. 7 \cup {SeparatorAngle} |->
                IF step \in 1 .. 7 THEN Directions[step][k] ELSE 2]
MCCosine == Table2(1)
MCSine == Table2(2)

\* 150 to 390 degrees, 30 at a time, of a circle of radius 2
MCCircle == << <<-7, 4>>, <<-8, 0>>, <<-7, -4>>, <<-4, -7>>, <<0, -8>>, <<4, -7>>, <<7, -4>>,
               <<8, 0>>, <<7, 4>> >>

\* Scans of pairs, scans that jump to and fro, scans of two pillars, scans with
\* gaps, and scans too short for the filter
MCScans ==
  {<<a, a, b, b, c, c>> : a \in {0, 3, 5}, b \in {0, 3, 5, 6}, c \in {3, 5}}
    \cup {<<a, b, a, b, a>> : a \in {3, 4}, b \in {5, 6}}
    \cup {<<4, 3, 3, a, a, b, b>> : a \in {0, 5, 6}, b \in {3, 5}}
    \cup { <<>>, <<4>>, <<3, 0, 4>>, <<3, 0, 0, 4>>, <<3, 0, 0, 0, 4, 0, 3>>, <<4, 4, 4, 4, 4, 4, 4>> }
=============================================================================
