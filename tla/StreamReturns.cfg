CONSTANTS
  Kinds = {"video"}
  Layouts = {l1}
  None = None
SPECIFICATION FairSpec
PROPERTY StreamReturns
CHECK_DEADLOCK FALSE
