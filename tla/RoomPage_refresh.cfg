SPECIFICATION Spec
CONSTANTS
  None = None
  Peers = {"p", "q"}
  Scenarios <- MCScenarios
INVARIANTS StaysFresh GrantIsNew EndsAreClean PresenceIsTrue
PROPERTY LeavingIsMeant
CHECK_DEADLOCK FALSE
