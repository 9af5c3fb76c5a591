SPECIFICATION FairSpec
CONSTANTS
  Cams = {c1, c2}
  Widths = {4}
  Default = 4
  LiveRefresh = 2
  StartTime = 4
  EndTime = 8
  MaxMoves = 3
INVARIANTS
  TrailingEdgeDrawn
CHECK_DEADLOCK FALSE
