SPECIFICATION Spec
CONSTANTS
  Scenarios <- TrackAndRefresh
  MaxRetired = 2
  MaxInbox = 1
  MaxRetries = 1
  None = None
PROPERTY DeferredRestartsHappen
CHECK_DEADLOCK FALSE
