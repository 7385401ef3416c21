SPECIFICATION Spec
CONSTANTS
  Conn = {1, 2, 3}
  Room = {1, 2}
  Owner <- Standalone
  Allowed <- AnyRoom
  Roles <- AllHosts
  Commands = {"room.join", "room.leave", "study", "moderation", "negotiation", "refused", "stop"}
  MaxRoomSize = 2
  PeerLimit = 2
  GlobalLimit = 2
  MaxParked = 1
  MaxRevision = 1
  MaxCalls = 0
  None = None
INVARIANTS StudyIsTold RoomsAreTidy
PROPERTIES StudySurvives
CHECK_DEADLOCK FALSE
