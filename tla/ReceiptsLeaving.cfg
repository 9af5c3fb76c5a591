SPECIFICATION Spec
CONSTANTS
  Cams = {c1, c2}
  Slots = {1}
  Unread = unread
  NoCam = nocam
  MaxText = 2
  MaxPolls = 2
  MaxMoves = 5
INVARIANTS
  NeverOverRecording
CHECK_DEADLOCK FALSE
