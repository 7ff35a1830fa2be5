CONSTANTS
  Clients = {alice, bob}
  Sessions = {tab}
  Topics = {chatter}
  Sources = {}
  Forbidden = {}
  Preferences <- MCPreferences
  LeaseTicks = 2
  MaxTime = 3
  MaxDemands = 1
  None = None
SPECIFICATION FairSpec
PROPERTY AnonymousNeedsLiveSession
CHECK_DEADLOCK FALSE
