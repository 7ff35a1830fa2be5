CONSTANTS
  Timeout = 2
  MaxTime = 2
  None = None
SPECIFICATION FairSpec
INVARIANT UnhealthyIsTimed
CHECK_DEADLOCK FALSE
