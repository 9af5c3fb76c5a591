SPECIFICATION FairSpec
CONSTANTS
  Cams = {c1, c2}
  NoCam = NoCam
  MaxActs = 4
  MaxGens = 3
INVARIANT
  NotStuckOffline
CHECK_DEADLOCK FALSE
