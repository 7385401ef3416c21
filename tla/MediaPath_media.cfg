SPECIFICATION Spec
CONSTANTS
  a = a
  b = b
  None = None
  Peer = {a, b}
  Tracks = 8
  Device <- Devices
  Plugs = 1
  Requests = 1
  Scenarios <- Together
INVARIANTS EveryTrackIsOwned SendersFollow StaysOff ListIsCurrent
PROPERTIES JobsEnd
CHECK_DEADLOCK FALSE
