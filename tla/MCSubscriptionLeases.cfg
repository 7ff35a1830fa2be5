CONSTANTS
  Clients = {alice, bob}
  Sessions = {tab}
  Topics = {chatter, secret}
  Sources = {}
  Forbidden = {secret}
  Preferences <- MCPreferences
  LeaseTicks = 2
  MaxTime = 3
  MaxDemands = 2
  None = None
SPECIFICATION FairSpec
INVARIANTS LeaseInv LeaseHonoured SessionResolvesToOne
PROPERTY ExpiredIsTornDown
CHECK_DEADLOCK FALSE
