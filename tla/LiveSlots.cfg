SPECIFICATION FairSpec
CONSTANTS
  Cams = {c1, c2}
  NoCam = NoCam
  MaxActs = 5
  MaxGens = 3
INVARIANTS
  SourceIsForCamera
  PauseInStep
PROPERTIES
  StaleLookupsIgnored
  LeftMeansLeft
  LostComesBack
CHECK_DEADLOCK FALSE
