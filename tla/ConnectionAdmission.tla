------------------------- MODULE ConnectionAdmission -------------------------
(***************************************************************************)
(* The admission of WebSocket connections: ConnectionAdmissionPolicy.java.  *)
(* A handshake reserves a place under the policy's own lock; whoever ends   *)
(* up with the reservation closes it once.  The policy does not keep the    *)
(* reservations, only counts of them, so a lost or a double release would   *)
(* go unnoticed here.  ConnectionLifecycle has the steps that call it.      *)
(***************************************************************************)
EXTENDS Integers, FiniteSets

CONSTANTS
  Session,            \* handshakes, each of which may become a session
  Client,             \* keys of client addresses
  Token,              \* ids of participation tokens
  Seat,               \* participant and room of a BATON grant
  ClientOf,           \* [Session -> Client]
  TokenOf,            \* [Session -> Token \cup {None}]: None without a grant
  SeatOf,             \* [Session -> Seat \cup {None}]
  Settings,           \* what a server may be configured with, and which of
                      \* the handshakes come to it
  MaxPerSeat,         \* MAX_CONNECTIONS_PER_PARTICIPANT_ROOM
  None

ASSUME SessionAssumption == IsFiniteSet(Session)
ASSUME ParticipantAssumption ==
  /\ ClientOf \in [Session -> Client]
  /\ TokenOf \in [Session -> Token \cup {None}]
  /\ SeatOf \in [Session -> Seat \cup {None}]
  /\ None \notin Token /\ None \notin Seat
\* total is properties.maxConnections, client properties.maxConnectionsPerClient.
ASSUME CapacityAssumption ==
  /\ Settings \subseteq [total : Nat, client : Nat, comes : SUBSET Session]
  /\ MaxPerSeat \in Nat

VARIABLES
  setting,    \* the one of Settings this server has
  active,     \* activeReservations
  byClient,   \* [Client -> Nat]: connectionsByClient, 0 without an entry
  tokens,     \* reservedParticipationTokens
  bySeat,     \* [Seat -> Nat]: connectionsByParticipantRoom, 0 without an entry
  reservation \* [Session -> {"none", "held", "released"}]

admissionVars == <<setting, active, byClient, tokens, bySeat, reservation>>

Held == {s \in Session : reservation[s] = "held"}
HeldBy(k) == {s \in Held : ClientOf[s] = k}
HeldFor(p) == {s \in Held : SeatOf[s] = p}

AdmissionInit ==
  /\ setting \in Settings
  /\ active = 0
  /\ byClient = [k \in Client |-> 0]
  /\ tokens = {}
  /\ bySeat = [p \in Seat |-> 0]
  /\ reservation = [s \in Session |-> "none"]

\* Fault: the limit of a participant's connections is looked at too late.
ReserveOneMore(s) ==
  /\ active < setting.total
  /\ byClient[ClientOf[s]] < setting.client
  /\ TokenOf[s] # None => TokenOf[s] \notin tokens
  /\ SeatOf[s] # None => bySeat[SeatOf[s]] <= MaxPerSeat

\* The four reasons to refuse a connection.
HasRoom(s) ==
  /\ active < setting.total
  /\ byClient[ClientOf[s]] < setting.client
  /\ TokenOf[s] # None => TokenOf[s] \notin tokens
  /\ SeatOf[s] # None => bySeat[SeatOf[s]] < MaxPerSeat

\* reserve, when nothing speaks against it.
Reserve(s) ==
  /\ active' = active + 1
  /\ byClient' = [byClient EXCEPT ![ClientOf[s]] = @ + 1]
  /\ tokens' = tokens \cup ({TokenOf[s]} \ {None})
  /\ bySeat' = IF SeatOf[s] = None THEN bySeat ELSE [bySeat EXCEPT ![SeatOf[s]] = @ + 1]
  /\ reservation' = [reservation EXCEPT ![s] = "held"]
  /\ UNCHANGED setting

\* Fault: the token stays reserved.
ReleaseButToken(S) ==
  LET gone == S \cap Held
  IN /\ active' = active - Cardinality(gone)
     /\ byClient' = [k \in Client |-> byClient[k] - Cardinality({s \in gone : ClientOf[s] = k})]
     /\ bySeat' = [p \in Seat |-> bySeat[p] - Cardinality({s \in gone : SeatOf[s] = p})]
     /\ reservation' = [s \in Session |-> IF s \in gone THEN "released" ELSE reservation[s]]
     /\ UNCHANGED <<setting, tokens>>

\* Reservation.close for every session of S; closing one again does nothing.
Release(S) ==
  LET gone == S \cap Held
  IN /\ active' = active - Cardinality(gone)
     /\ byClient' = [k \in Client |-> byClient[k] - Cardinality({s \in gone : ClientOf[s] = k})]
     /\ tokens' = tokens \ {TokenOf[s] : s \in gone}
     /\ bySeat' = [p \in Seat |-> bySeat[p] - Cardinality({s \in gone : SeatOf[s] = p})]
     /\ reservation' = [s \in Session |-> IF s \in gone THEN "released" ELSE reservation[s]]
     /\ UNCHANGED setting

=============================================================================
