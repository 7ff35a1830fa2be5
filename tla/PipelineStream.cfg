CONSTANTS
  Kinds = {"audio", "video", "raw", "compressed"}
  Layouts = {l1, l2}
  None = None
SPECIFICATION FairSpec
INVARIANTS StreamInv QuietAfterClose PushesMatch
PROPERTIES NothingBuiltAfterClose AudioRecovers AudioReturns
CHECK_DEADLOCK FALSE
