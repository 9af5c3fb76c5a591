SPECIFICATION BridgeFairSpec
CONSTANTS
  MaxFails = 3
  GapTimeout = 3
  WriteTimeout = 5
  QueueLimit = 2
  PipeCap = 1
  Slack = 1
  Burst = 2
  Backlog = 4
INVARIANTS
  StallMeansWedged
PROPERTIES
  OwnClosesDoNotCount
  NoAttemptOnDeadMux
  ReasonStands
  PauseIsNotAStall
  EndsWhenTold
  GoneServerEnds
  EndsOnlySilentAudio
  BlockedVideoMoves
CHECK_DEADLOCK FALSE
