SPECIFICATION FairSpec
CONSTANTS
  Cams = {c1, c2}
  NoCam = NoCam
  MaxActs = 4
  MaxGens = 3
INVARIANT
  PausedStreamsKnow
CHECK_DEADLOCK FALSE
