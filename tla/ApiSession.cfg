SPECIFICATION ApiFairSpec
CONSTANTS
  Callers = {c1, c2}
  MaxKicks = 1
  MaxErrors = 1
  MaxSids = 5
INVARIANTS
  RefusedOnce
  FreshRetry
PROPERTIES
  PollsRestoreSession
CHECK_DEADLOCK FALSE
