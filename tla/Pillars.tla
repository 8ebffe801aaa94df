------------------------------- MODULE Pillars ------------------------------
(***************************************************************************)
(* The search for pillars in a scan (OpenRadar.cpp, WeightedFit.cpp) and   *)
(* the frame in which a pillar is reported (DFCOM.cpp): a scan is read,    *)
(* filtered, cut into pieces where the distance jumps, drawn in colours    *)
(* that tell the pieces apart, and a circle of a given radius is fitted to *)
(* the pieces by letting every point vote for the centres it allows.       *)
(*                                                                         *)
(* Lengths are small numbers; sines and cosines are tables in fractions    *)
(* 1/Unit, so that every conversion to int is the C one, towards zero.     *)
(* An angle is the number of its step, 0 that of a separator (1000).       *)
(***************************************************************************)
EXTENDS Integers, Sequences, FiniteSets, SequencesExt

CONSTANTS
  Scans,       \* the scans that are read: sequences of distances
  Unit, Cosine, Sine,   \* tables of cos and sin by step
  Dmax,        \* a jump: 30
  Near, Far,   \* where pillars are looked for: 2500 and 5000
  Few, Many,   \* points of a piece: more than 6, fewer than 40
  Radius,      \* of a pillar: 125
  Circle,      \* Radius times <<cos, sin>> of 150 to 390 degrees, in 1/Unit
  Tolerance,   \* mean deviation from the circle: 6
  halfWindow,  \* halfWindowSize of HoughArc2: 3
  Colours,     \* entries of usualColor in use: 10
  Red,         \* the one that is red: 5
  Width        \* of the image, in points

IntMax == 2147483647

\* No sine and no cosine is greater than one, and centres are C ints.
ASSUME PillarsAssumption ==
  /\ Scans \subseteq Seq(Nat) /\ Unit \in Nat \ {0}
  /\ Colours \in Nat /\ Red \in 1 .. Colours - 1
  /\ {Dmax, Near, Far, Few, Many, Radius, Tolerance, halfWindow, Width} \subseteq Nat
  /\ \A s \in Scans : \A step \in DOMAIN s : {Cosine[step], Sine[step]} \subseteq -Unit .. Unit
  /\ Circle \in Seq((-Radius * Unit .. Radius * Unit) \X (-Radius * Unit .. Radius * Unit))
  /\ Circle # <<>>
  /\ Far + Radius + 1 + halfWindow <= IntMax

VARIABLES
  data,        \* the scan that was read
  RadarRho, RadarTheta,
  BreakedRadarRho, BreakedRadarTheta,
  drawn,       \* the points of the image: <<step, colour>>
  fits,        \* history: the arrays of points handed to HoughArc2 for this scan
  FittedArc,
  pillar,      \* CHECKSUM and pillar_sendchar of the record to be sent
  sent,        \* history: the frames sent for this scan
  phase        \* the last call

vars == <<data, RadarRho, RadarTheta, BreakedRadarRho, BreakedRadarTheta,
          drawn, fits, FittedArc, pillar, sent, phase>>

scan == <<data, RadarRho, RadarTheta>>
pieces == <<BreakedRadarRho, BreakedRadarTheta>>
arcs == <<fits, FittedArc>>
frames == <<pillar, sent>>

Separator == -1
SeparatorAngle == 0

\* Division as C does it, and a conversion to int of n/Unit
Quotient(a, b) ==
  LET q == (IF a < 0 THEN -a ELSE a) \div (IF b < 0 THEN -b ELSE b)
  IN  IF (a < 0) = (b < 0) THEN q ELSE -q
ToInt(n) == Quotient(n, Unit)

Absolute(n) == IF n < 0 THEN -n ELSE n

Init ==
  /\ data = <<>> /\ RadarRho = <<>> /\ RadarTheta = <<>>
  /\ BreakedRadarRho = <<>> /\ BreakedRadarTheta = <<>>
  /\ drawn = {} /\ fits = <<>> /\ FittedArc = <<>> /\ sent = <<>>
  /\ pillar = [checksum |-> 0, sendchar |-> [i \in 1 .. 16 |-> 0]]
  /\ phase = "start"

\* Mutant: the vectors are not cleared first.
Cleared_Not(s) == s
Cleared(s) == <<>>

\* RadarRead, when the pillars of the scan before are sent: the steps go from
\* 180 degrees down.
RadarRead ==
  /\ phase = "start" \/ (phase = "fitted" /\ Len(sent) = Len(FittedArc))
  /\ phase' = "read" /\ fits' = <<>> /\ sent' = <<>>
  /\ data' \in Scans
  /\ RadarRho' = Cleared(RadarRho) \o data'
  /\ RadarTheta' = Cleared(RadarTheta) \o [i \in DOMAIN data' |-> i]
  /\ UNCHANGED <<pieces, drawn, FittedArc, pillar>>

-----------------------------------------------------------------------------
(***************************************************************************)
(* MedFilter: the median of five neighbours, for the scan without the two  *)
(* points at either end; nothing is left of a scan of four points.         *)
(***************************************************************************)
\* The two loops over five neighbours: each place in turn gets the least of
\* what is left.
Sorted(neighbor) ==
  LET Exchange(s, mn) ==
        IF s[mn[1]] > s[mn[2]]
        THEN [s EXCEPT ![mn[1]] = s[mn[2]], ![mn[2]] = s[mn[1]]] ELSE s
  IN  FoldLeft(Exchange, neighbor,
        << <<1, 2>>, <<1, 3>>, <<1, 4>>, <<1, 5>>, <<2, 3>>, <<2, 4>>, <<2, 5>>,
           <<3, 4>>, <<3, 5>>, <<4, 5>> >>)

Filtered(s) == [i \in 1 .. Len(s) - 4 |-> Sorted(SubSeq(s, i, i + 4))[3]]

\* Mutant: the angles are those of the first neighbour.
Middle_First(s) == SubSeq(s, 1, Len(s) - 4)
Middle(s) == SubSeq(s, 3, Len(s) - 2)

MedFilter ==
  /\ phase = "read" /\ phase' = "filtered"
  /\ RadarRho' = Filtered(RadarRho) /\ RadarTheta' = Middle(RadarTheta)
  /\ UNCHANGED <<data, pieces, drawn, arcs, frames>>

-----------------------------------------------------------------------------
(***************************************************************************)
(* BreakRadarRho: the separator comes after the point that jumps.          *)
(***************************************************************************)
Jumps(s, i) == i > 1 /\ Absolute(s[i] - s[i - 1]) >= Dmax

\* t with a mark after every point at which s jumps, and after the last.
Broken(s, t, mark) ==
  LET Push(pushed, i) == pushed \o (IF Jumps(s, i) THEN <<t[i], mark>> ELSE <<t[i]>>)
  IN  FoldLeft(Push, <<>>, [i \in DOMAIN s |-> i]) \o <<mark>>

\* Without a point, at(0) throws.
BreakRadarRho ==
  /\ phase \in {"read", "filtered"}
  /\ IF RadarRho = <<>>
     THEN phase' = "dead" /\ UNCHANGED pieces
     ELSE /\ phase' = "broken"
          /\ BreakedRadarRho' = Broken(RadarRho, RadarRho, Separator)
          /\ BreakedRadarTheta' = Broken(RadarRho, RadarTheta, SeparatorAngle)
  /\ UNCHANGED <<scan, drawn, arcs, frames>>

-----------------------------------------------------------------------------
(***************************************************************************)
(* The image.  Every break takes the next colour; the first piece is red.  *)
(***************************************************************************)
\* Mutant: one colour for all.
Colour_Same(breaks) == Red
Colour(breaks) == IF breaks = 0 THEN Red ELSE (breaks - 1) % Colours

\* Everything below least is a break.
Breaks(s, i, least) == Cardinality({j \in 1 .. i : s[j] < least})

\* Ten to a point of the image, the origin in the middle of its lower half
Pixel(rho, theta) ==
  <<Quotient(rho * Cosine[theta], 10 * Unit) + Width \div 2,
    Quotient(-rho * Sine[theta], 10 * Unit) + (3 * Width) \div 4>>

InImage(pixel) == \A k \in 1 .. 2 : pixel[k] \in 0 .. Width - 1

\* The points at the given places, as far as they lie in the image
Image(s, t, places, least) ==
  {<<t[i], Colour(Breaks(s, i, least))>> :
     i \in {p \in places : InImage(Pixel(s[p], t[p]))}}

\* CreateRadarImage draws the separators too, in the colour that follows.
CreateRadarImage ==
  /\ phase = "broken" /\ phase' = "drawn"
  /\ drawn' = Image(BreakedRadarRho, BreakedRadarTheta, DOMAIN BreakedRadarRho, 0)
  /\ UNCHANGED <<scan, pieces, arcs, frames>>

\* CreateRadarImageself draws a scan as get_distance returns it: a distance of
\* 0 is a break and no point.
CreateRadarImageself ==
  /\ phase \in {"start", "self"} /\ phase' = "self"
  /\ data' \in Scans
  /\ drawn' = Image(data', [i \in DOMAIN data' |-> i], {i \in DOMAIN data' : data'[i] > 0}, 1)
  /\ UNCHANGED <<RadarRho, RadarTheta, pieces, arcs, frames>>

-----------------------------------------------------------------------------
(***************************************************************************)
(* HoughArc and HoughArc2.  Every point votes for the centre it would have *)
(* at each angle; the votes are counted in a table row by row, whose       *)
(* bounds are found first.                                                 *)
(***************************************************************************)
\* (int)(x + 0.5)
Rounded(n) == ToInt(n + Unit \div 2)

\* The centre that point has for a place of the circle
Vote(point, place) ==
  <<Rounded(point[1] * Unit - place[1]), Rounded(point[2] * Unit - place[2])>>

\* The centres voted for, in the order of the loops: every place for each point
Centres(points) ==
  LET places == Len(Circle)
  IN  [n \in 1 .. Len(points) * places |->
         Vote(points[(n - 1) \div places + 1], Circle[((n - 1) % places) + 1])]

\* The bounds of one coordinate after v: HoughArc2 looks one beyond v for a,
\* and a window beyond it for b, before it makes room for a window.
Wider(bound, v, slack, window) ==
  IF v + slack > bound.high THEN [bound EXCEPT !.high = v + window]
  ELSE IF v - window < bound.low THEN [bound EXCEPT !.low = v - window]
  ELSE bound

Bounds(centres, k, start, slack, window) ==
  LET Step(bound, c) == Wider(bound, c[k], slack, window)
  IN  FoldLeft(Step, [low |-> start, high |-> start], centres)

\* Mutant: without the last place.
Scale_Short(bound) == bound.high - bound.low
Scale(bound) == bound.high - bound.low + 1

\* Both coordinates start from an x.
Table(points, slack, window) ==
  LET a == Bounds(Centres(points), 1, points[1][1] - Radius, slack, window)
      b == Bounds(Centres(points), 2, points[1][1], window, window)
  IN  [minA |-> a.low, minB |-> b.low, aScale |-> Scale(a), bScale |-> Scale(b),
       window |-> window]

Size(table) == table.aScale * table.bScale

\* Where a vote for centre c is counted.
Cell(table, c) ==
  (c[2] + table.window - table.minB) * table.aScale + c[1] + table.window - table.minA

\* The cells the votes go to
VoteBox(points, table) ==
  LET centres == Centres(points) IN [k \in DOMAIN centres |-> Cell(table, centres[k])]

Hits(box, cell) == Cardinality({k \in DOMAIN box : box[k] = cell})

\* The first cell of the table with the most votes
Winner(box, table) ==
  LET hits == [cell \in Range(box) \cap 0 .. Size(table) - 1 |-> Hits(box, cell)]
      best == {cell \in DOMAIN hits : \A other \in DOMAIN hits : hits[other] <= hits[cell]}
  IN  Min(best)

\* Mutant: the table is taken to be column by column.
CentreOf_ByColumn(table, cell) ==
  <<table.minA + (cell \div table.bScale), table.minB + (cell % table.bScale)>>
CentreOf(table, cell) ==
  <<table.minA + (cell % table.aScale), table.minB + (cell \div table.aScale)>>

NoArc == <<>>

HoughArc(points) ==
  LET table == Table(points, 0, 0)
      box == VoteBox(points, table)
      cell == Winner(box, table)
  IN  IF Hits(box, cell) > 3 THEN CentreOf(table, cell) ELSE NoArc

\* The whole part of a distance, and whether it is whole
Root(n) == CHOOSE k \in 0 .. n : k * k <= n /\ (k + 1) * (k + 1) > n

\* err += sqrt(...) - r, with an int on the left
Deviation(err, point, centre) ==
  LET n == (point[1] - centre[1]) ^ 2 + (point[2] - centre[2]) ^ 2
      whole == err + Root(n) - Radius
  IN  IF whole < 0 /\ Root(n) ^ 2 # n THEN whole + 1 ELSE whole

\* err after each point: none may be too great.
Errors(points, centre) ==
  LET err[i \in 0 .. Len(points)] ==
        IF i = 0 THEN 0 ELSE Deviation(err[i - 1], points[i], centre)
  IN  {err[i] : i \in 0 .. Len(points)}

\* Each vote is counted for every place of the window, in one and the same cell.
VotesPerHit == (2 * halfWindow) ^ 2

HoughArc2(points) ==
  LET table == Table(points, 1, halfWindow)
      box == VoteBox(points, table)
      cell == Winner(box, table)
  IN  IF /\ \A err \in Errors(points, CentreOf(table, cell)) : err <= Len(points) * Tolerance
         /\ VotesPerHit * Hits(box, cell) > (2 * halfWindow + 1) ^ 2 * 2
      THEN CentreOf(table, cell) ELSE NoArc

-----------------------------------------------------------------------------
(***************************************************************************)
(* FitArc.                                                                 *)
(***************************************************************************)
Point(rho, theta) == <<ToInt(rho * Cosine[theta]), ToInt(rho * Sine[theta])>>

\* Mutant: the points of a piece that is not fitted stay in the array.
NextPiece_Kept(s) ==
  IF Len(s.points) > Few /\ Len(s.points) < Many
  THEN [points |-> <<>>, fits |-> Append(s.fits, s.points)] ELSE s

\* At a separator
NextPiece(s) ==
  [points |-> <<>>,
   fits |-> IF Len(s.points) > Few /\ Len(s.points) < Many
            THEN Append(s.fits, s.points) ELSE s.fits]

\* The pieces to fit, as arrays of the points in range
Pieces(rhos, thetas) ==
  LET Step(s, i) ==
        IF rhos[i] < 0 THEN NextPiece(s)
        ELSE IF rhos[i] > Near /\ rhos[i] < Far
        THEN [s EXCEPT !.points = Append(@, Point(rhos[i], thetas[i]))] ELSE s
  IN  FoldLeft(Step, [points |-> <<>>, fits |-> <<>>], [i \in DOMAIN rhos |-> i]).fits

\* The arcs that are found, in order
Arcs(arrays) ==
  LET Push(list, points) ==
        LET arc == HoughArc2(points) IN IF arc = NoArc THEN list ELSE Append(list, arc)
  IN  FoldLeft(Push, <<>>, arrays)

FitArc ==
  /\ phase = "drawn" /\ phase' = "fitted"
  /\ fits' = Pieces(BreakedRadarRho, BreakedRadarTheta)
  /\ FittedArc' = Arcs(fits')
  /\ UNCHANGED <<scan, pieces, drawn, frames>>

-----------------------------------------------------------------------------
(***************************************************************************)
(* The frame of 16 bytes: head, device, the flag of the first pillar of a  *)
(* scan, the check sum of what follows, and three little-endian words.     *)
(***************************************************************************)
Word(n) ==
  <<n % 256, (n \div 256) % 256, (n \div 65536) % 256, (n \div 16777216) % 256>>

\* A whole number as a float
FloatWord(n) ==
  LET size == Absolute(n)
      e == CHOOSE k \in 0 .. 23 : 2 ^ k <= size /\ size < 2 ^ (k + 1)
      fraction == size * 2 ^ (23 - e) - 2 ^ 23
  IN  IF n = 0 THEN Word(0)
      ELSE <<fraction % 256, (fraction \div 256) % 256,
             128 * ((127 + e) % 2) + fraction \div 65536,
             (IF n < 0 THEN 128 ELSE 0) + (127 + e) \div 2>>

\* Mutant: the check sum goes on from the last frame.
FirstSum_Old(old) == old
FirstSum(old) == 0

CheckSum(first, bytes) == FoldLeft(LAMBDA sum, byte : sum + byte, first, bytes) % 64

Flag(i) == IF i = 1 THEN 1 ELSE 0

\* For the next arc; CC_X / CC_Y of ints, so that a y of 0 ends the program.
DFCOMPush ==
  /\ phase = "fitted" /\ Len(sent) < Len(FittedArc)
  /\ LET i == Len(sent) + 1
         x == FittedArc[i][1]
         y == FittedArc[i][2]
         words == Word(x) \o Word(y) \o FloatWord(Quotient(x, y))
         sum == CheckSum(FirstSum(pillar.checksum), words)
     IN  IF y = 0 THEN phase' = "dead" /\ UNCHANGED pillar
         ELSE /\ phase' = "pushed"
              /\ pillar' = [checksum |-> sum, sendchar |-> <<221, 255, Flag(i), sum>> \o words]
  /\ UNCHANGED <<scan, pieces, drawn, arcs, sent>>

\* Onto the line to the robot
DFCOMPop ==
  /\ phase = "pushed" /\ phase' = "fitted"
  /\ sent' = Append(sent, pillar.sendchar)
  /\ UNCHANGED <<scan, pieces, drawn, arcs, pillar>>

Next ==
  \/ RadarRead \/ MedFilter \/ BreakRadarRho \/ CreateRadarImage \/ FitArc
  \/ DFCOMPush \/ DFCOMPop \/ CreateRadarImageself

Spec == Init /\ [][Next]_vars

-----------------------------------------------------------------------------
(***************************************************************************)
(* Properties.                                                             *)
(***************************************************************************)
\* After the filter every distance is a median of five neighbours and stands
\* at the angle of the middle one, whatever scans were read before.
FilteredScan ==
  phase = "filtered" =>
    /\ Len(RadarTheta) = Len(RadarRho)
    /\ RadarTheta = [i \in 1 .. Len(data) - 4 |-> i + 2]
    /\ \A i \in DOMAIN RadarRho :
         LET near == RadarTheta[i] - 2 .. RadarTheta[i] + 2
         IN  /\ \E j \in near : data[j] = RadarRho[i]
             /\ Cardinality({j \in near : data[j] < RadarRho[i]}) <= 2
             /\ Cardinality({j \in near : data[j] > RadarRho[i]}) <= 2

\* The last points of the pieces of the scan as it was cut
Ends == {i \in DOMAIN RadarRho : Jumps(RadarRho, i) \/ i = Len(RadarRho)}

PieceOf(i) == Cardinality({e \in Ends : e < i})

\* Two points of one piece have one colour, those of pieces next to each other
\* have two; and in a scan drawn as it was read, points with a gap of fewer
\* zeros between them than there are colours have two, if the colour of the
\* first piece, which comes back among the others, is not reached.  No colour
\* is past the last.
ColoursTellPieces ==
  LET First(i) == \A k \in 1 .. i : data[k] > 0
      Colour2(i, j, c, d) == <<i, c>> \in drawn /\ <<j, d>> \in drawn
      colours == {p[2] : p \in drawn}
  IN  /\ colours \subseteq 0 .. Colours - 1
      /\ phase = "drawn" =>
           \A i, j \in DOMAIN RadarRho, c, d \in colours :
             Colour2(RadarTheta[i], RadarTheta[j], c, d) =>
               /\ PieceOf(i) = PieceOf(j) => c = d
               /\ PieceOf(i) = PieceOf(j) + 1 => c # d
      /\ phase = "self" =>
           \A i, j \in DOMAIN data, c, d \in colours :
             i < j /\ Colour2(i, j, c, d) =>
               LET zeros == Cardinality({k \in i .. j : data[k] = 0})
               IN  /\ data[i] > 0 /\ data[j] > 0
                   /\ zeros = 0 => c = d
                   /\ zeros \in 1 .. Colours - 1 /\ (First(i) => zeros <= Red) => c # d

\* The place of i among the numbers of a set
Rank(i, set) == Cardinality({j \in set : j <= i})

\* What is fitted are the points in range of the pieces that have enough of
\* them and not too many: no point twice, none carried over from a piece that
\* was passed over, and in the order of the scan.
PillarsFitted ==
  phase = "fitted" =>
    LET InRange(i) == RadarRho[i] > Near /\ RadarRho[i] < Far
        Seen(e) == {i \in 1 .. e : InRange(i) /\ \A d \in Ends : d < e => d < i}
        fitted == {e \in Ends : Cardinality(Seen(e)) \in Few + 1 .. Many - 1}
    IN  /\ Len(fits) = Cardinality(fitted)
        /\ \A e \in fitted :
             LET points == fits[Rank(e, fitted)]
             IN  /\ Len(points) = Cardinality(Seen(e))
                 /\ \A i \in Seen(e) :
                      points[Rank(i, Seen(e))] = Point(RadarRho[i], RadarTheta[i])

\* Votes for different centres are never counted together, also where the
\* table is narrower than the votes and a row runs over into the next.
VotesApart ==
  phase = "fitted" =>
    \A points \in Range(fits) :
      LET centres == Range(Centres(points))
          wide == Table(points, 1, halfWindow)
          narrow == Table(points, 0, 0)
      IN  /\ \A c, d \in centres : Cell(wide, c) = Cell(wide, d) => c = d
          /\ \A c, d \in centres : Cell(narrow, c) = Cell(narrow, d) => c = d
          /\ \A c \in centres : Cell(wide, c) >= 0 /\ Cell(narrow, c) \in 0 .. Size(narrow) - 1

Votes(points, c) ==
  Cardinality({v \in (DOMAIN points) \X (DOMAIN Circle) : Vote(points[v[1]], Circle[v[2]]) = c})

\* HoughArc finds a centre than which none has more votes.  So does HoughArc2,
\* moved by half a window both ways; but a centre whose column runs over comes
\* out one row further on, at the left edge.
CentreOfMostVotes ==
  phase = "fitted" =>
    /\ \A points \in Range(fits) :
         LET arc == HoughArc(points)
         IN  arc # NoArc =>
               \A c \in Range(Centres(points)) : Votes(points, c) <= Votes(points, arc)
    /\ \A arc \in Range(FittedArc) : \E points \in Range(fits) :
         LET table == Table(points, 1, halfWindow)
             centres == {c \in Range(Centres(points)) : Cell(table, c) < Size(table)}
             RunsOver(c) == c[1] + halfWindow - table.minA >= table.aScale
         IN  \E c \in centres :
               /\ \A d \in centres : Votes(points, d) <= Votes(points, c)
               /\ arc = IF RunsOver(c)
                        THEN <<c[1] + halfWindow - table.aScale, c[2] + halfWindow + 1>>
                        ELSE <<c[1] + halfWindow, c[2] + halfWindow>>

\* A receiver that adds up the words of a frame finds its check sum, reads the
\* centre of the arc the frame is for, and the first frame of a scan, and only
\* that, is marked.
FrameChecks ==
  LET Signed(w) == w[1] + 256 * w[2] + 65536 * w[3]
                   + 16777216 * (IF w[4] > 127 THEN w[4] - 256 ELSE w[4])
  IN  /\ Len(sent) <= Len(FittedArc) \/ phase \notin {"fitted", "pushed"}
      /\ \A i \in DOMAIN sent :
           LET frame == sent[i]
           IN  /\ CheckSum(0, SubSeq(frame, 5, 16)) = frame[4]
               /\ (frame[3] = 1) = (i = 1)
               /\ <<Signed(SubSeq(frame, 5, 8)), Signed(SubSeq(frame, 9, 12))>> = FittedArc[i]
=============================================================================
