SPECIFICATION FairSpec
CONSTANTS
  c1 = c1
  c2 = c2
  Cams = {c1, c2}
  Widths = {2, 4}
  Default = 2
  LiveRefresh = 2
  StartTime = 4
  EndTime = 6
  MaxMoves = 2
  Months = {1, 2}
  Days = {1, 2}
  Recorded <- OneDayEach
  MaxTime = 1
  MaxClicks = 2
  MaxStartup = 3
  MaxRestarts = 3
  MaxPauses = 4
  MaxPlays = 4
  Sessions = {1, 2}
  MaxQueued = 2
  MaxChunks = 3
  Loads = {1, 2, 3}
  Chunks = 2
  Streamed = {1, 2}
  Recs = {r1, r2}
  Places = 1
  Limit = 1
  MaxLogins = 2
  Maps = {1, 2}
  MaxLoads = 3
  MaxEdits = 1
  MaxCommands = 3
  QueueSize = 2
  MaxEvents = 3
  MaxSessions = 2
  VideoCap = 3
  Intervals = 2
  PipeCap = 1
  MaxFrames = 4
  MaxDrops = 1
  Slots = {1, 2}
  Unread = unread
  NoCam = nocam
  MaxText = 1
  MaxPolls = 2
  MaxSlotMoves = 3
  Now = 5
  Floor = 1
  EventLength = 1
  SearchSteps <- TwoSteps
  Graces = {1}
  Skip = 0
  References = {0, 3}
  Stretches <- TwoStretches
  MaxRecorded = 2
INVARIANTS
  LastClickLast
  AnswersFitScreen
  ClaimsAreBacked
  NoEventSkipped
  NothingHalfDone
PROPERTIES
  LateIsNotUsed
  PartsMoveOn
CHECK_DEADLOCK FALSE
