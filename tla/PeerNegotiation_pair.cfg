SPECIFICATION Spec
CONSTANTS
  Scenarios <- Scenes
  MaxRetired = 2
  MaxInbox = 1
  MaxRetries = 1
  None = None
INVARIANTS NothingStrays
PROPERTIES Settles TracksAreOffered
CHECK_DEADLOCK FALSE
