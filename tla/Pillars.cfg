\* Scans of up to seven points.  A program that divides by zero, or reads an
\* empty vector, has stopped.
SPECIFICATION Spec
CONSTANTS
  Scans <- MCScans
  Unit <- MCUnit
  Cosine <- MCCosine
  Sine <- MCSine
  Circle <- MCCircle
  Dmax = 2
  Near = 2
  Far = 6
  Few = 1
  Many = 6
  Radius = 2
  Tolerance = 6
  halfWindow = 3
  Colours = 3
  Red = 1
  Width = 4
INVARIANT FilteredScan
INVARIANT ColoursTellPieces
INVARIANT PillarsFitted
INVARIANT VotesApart
INVARIANT CentreOfMostVotes
INVARIANT FrameChecks
CHECK_DEADLOCK FALSE
