CONSTANTS
  alice = alice
  bob = bob
  first = first
  second = second
  other = other
  lamp = lamp
  map = map
  Callers = {t1}
  Executor = Executor
  Main = Main
  Requesters = {alice, bob}
  Services = {lamp, map}
  Calls = {first}
  Requester <- MCRequester
  Service <- MCService
  Timeouts = {0}
  DefaultTimeout = 1
  MaxInflight = 1
  MaxClients = 1
  MaxTime = 1
  MaxReplies = 1
  None = None
SPECIFICATION FairSpec
PROPERTIES ResponseSettles OverdueSettles ShutdownReturns
CHECK_DEADLOCK FALSE
