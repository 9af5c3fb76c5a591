SPECIFICATION Spec
CONSTANTS
  b1 = b1
  b2 = b2
  s1 = s1
  Bridges = {b1, b2}
  Slots = {s1}
  SlotOf <- OneSlot
  Fds <- FewFds
  Writers = {"video"}
  NoFd = NoFd
  None = None
INVARIANTS
  WritesOwnPipe
  PlaysOwnPipe
CHECK_DEADLOCK FALSE
