SPECIFICATION Spec
CONSTANTS
  Peer = {"a", "z"}
  Scenarios <- Scenes
  Chats = 2
  MaxPending = 1
  MaxGot = 1
  MaxAcks = 1
  MaxMessages = 1
  MaxBuffered = 1
  Reserve = 1
  Low = 0
  Channels <- TwoAndNone
  None = None
INVARIANTS NothingIsForgotten
PROPERTIES ImplementsMailbox
CHECK_DEADLOCK FALSE
