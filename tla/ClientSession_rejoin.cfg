SPECIFICATION Spec
CONSTANTS
  Scenarios <- Scenes
  Grants = {TRUE, FALSE}
  Others = {9}
  MaxRoomSize = 3
  MaxAttempts = 2
  MaxStale = 3
  MaxSockets = 5
  None = None
INVARIANTS ViewAgrees NothingIsLeft
PROPERTIES Settles
CHECK_DEADLOCK FALSE
