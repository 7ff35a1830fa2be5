CONSTANTS
  Callers = {c1, c2}
  Workers = {w1, w2}
  Tasks = {k1, k2}
  None = None
SPECIFICATION FairSpec
INVARIANTS QueueInv ShutdownSettlesAll NoWorkAfterShutdown
PROPERTIES ImplementsTaskQueue EverySubmissionSettles CallsReturn
