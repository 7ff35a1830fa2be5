CONSTANTS
  alice = alice
  bob = bob
  first = first
  second = second
  other = other
  lamp = lamp
  map = map
  Callers = {t1}
  Executor = Executor
  Main = Main
  Requesters = {alice, bob}
  Services = {lamp, map}
  Calls = {first, second, other}
  Requester <- MCRequester
  Service <- MCService
  Timeouts = {0, 2}
  DefaultTimeout = 1
  MaxInflight = 1
  MaxClients = 1
  MaxTime = 1
  MaxReplies = 2
  None = None
SPECIFICATION Spec
INVARIANTS CallerInv NoMissedWakeup ShutdownSettlesCalls UnusedAfterShutdown
CHECK_DEADLOCK FALSE
