SPECIFICATION FairSpec
CONSTANTS
  Recs = {r1, r2}
  FirstRec = r1
  MaxSeeks = 2
  MaxCmds = 3
  MaxDrops = 1
  MaxFrames = 1
PROPERTIES
  SeekSurvives
CHECK_DEADLOCK FALSE
