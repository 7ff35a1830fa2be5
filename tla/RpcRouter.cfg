CONSTANTS
  Intervals = {0, 2}
  MaxPublications = 2
  MaxMessages = 3
  MaxTime = 2
  Tasks = {c1}
  NoTask = NoTask
SPECIFICATION FairSpec
INVARIANTS RouterInv EchoIsNewest QueueQuietAtTeardown
PROPERTIES Throttled EveryCallAnswered
CHECK_DEADLOCK FALSE
