CONSTANTS
  Publishers = {p1}
  Sizes = {small, large}
  Methods = {m1}
  MaxTracks = 2
  MaxRooms = 2
  None = None
SPECIFICATION Spec
INVARIANTS TracksInv NoTrackLeftBehind
CHECK_DEADLOCK FALSE
