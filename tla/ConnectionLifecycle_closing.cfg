SPECIFICATION Spec
CONSTANTS
  Session = {1, 2, 3, 4, 5}
  Client = {"a", "b"}
  Token = {"t1", "t2", "t3", "t4"}
  Seat = {"p", "q"}
  ClientOf <- Address
  TokenOf <- TokenEach
  SeatOf <- Participants
  Settings <- EachLimit
  MaxPerSeat = 2
  Reasons = {"other"}
  Stoppable = TRUE
  MaxCalls = 2
  None = None
INVARIANTS AdmissionHolds ReservationsHaveOwners ReplacedIsTold
PROPERTIES PlacesAreFreed
CHECK_DEADLOCK FALSE
