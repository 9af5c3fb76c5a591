SPECIFICATION Spec
CONSTANTS
  Loads = {1, 2}
  Chunks = 2
  Streamed = {1, 2}
INVARIANT
  FailuresCleanUp
CHECK_DEADLOCK FALSE
