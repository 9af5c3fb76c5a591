SPECIFICATION FairSpec
CONSTANTS
  b1 = b1
  b2 = b2
  s1 = s1
  Bridges = {b1}
  Slots = {s1}
  SlotOf <- OneSlot
  Fds <- MoreFds
  Writers = {"video", "audio", "fill"}
  NoFd = NoFd
  None = None
INVARIANT
  StoppedLeaksNothing
PROPERTY
  StopReleasesAll
CHECK_DEADLOCK FALSE
