SPECIFICATION Spec
CONSTANTS
  Conn = {1, 2, 3}
  Room = {1}
  Owner <- Standalone
  Allowed <- FirstRoom
  Roles <- OneHost
  Commands = {"room.join", "hand", "peer.reconnect", "lease"}
  MaxRoomSize = 3
  PeerLimit = 2
  GlobalLimit = 3
  MaxParked = 1
  MaxRevision = 1
  MaxCalls = 2
  None = None
INVARIANTS TypeOK MembersAreTold OneSessionPerParticipant CallsArePaired
PROPERTIES LockIsReleased OnlyNewerReplaces
CHECK_DEADLOCK FALSE
