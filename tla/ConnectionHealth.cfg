CONSTANTS
  Timeout = 1
  MaxTime = 3
  None = None
SPECIFICATION FairSpec
INVARIANT HealthInv
PROPERTIES ExitsOnlyOverdue TroubleEnds TeardownCompletes
CHECK_DEADLOCK FALSE
