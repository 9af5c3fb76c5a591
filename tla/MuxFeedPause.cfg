SPECIFICATION FairSpec
CONSTANTS
  GapTimeout = 3
  WriteTimeout = 5
  QueueLimit = 2
  PipeCap = 1
  Slack = 1
  Burst = 2
  Backlog = 4
INVARIANTS
  HealthyPauseGoesOn
CHECK_DEADLOCK FALSE
