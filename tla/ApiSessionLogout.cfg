SPECIFICATION FairSpec
CONSTANTS
  Callers = {c1, c2}
  MaxKicks = 1
  MaxErrors = 1
  MaxSids = 5
PROPERTIES
  NoLoginAfterLogout
CHECK_DEADLOCK FALSE
