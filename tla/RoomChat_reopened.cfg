SPECIFICATION Spec
CONSTANTS
  Peer = {"a"}
  Scenarios <- Replacement
  Chats = 1
  MaxPending = 1
  MaxGot = 1
  MaxAcks = 1
  MaxMessages = 1
  MaxBuffered = 4
  Reserve = 1
  Low = 0
  Channels <- Two
  None = None
INVARIANTS ReopenedIsFlushed
CHECK_DEADLOCK FALSE
