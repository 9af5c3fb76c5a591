SPECIFICATION FairSpec
CONSTANTS
  Slots = {s1, s2}
  First = s1
  Empty = {}
  Windows = 2
  Places = {3}
  MaxClicks = 3
INVARIANT
  NewestWins
PROPERTY
  NudgesReleased
CHECK_DEADLOCK FALSE
