------------------------ MODULE ConnectionLifecycle ------------------------
(***************************************************************************)
(* One WebSocket connection from its handshake to the last close attempt:  *)
(* ConnectionAdmissionHandshakeHandler, the reservation handling of        *)
(* SignalingService and its close actions, which the executor runs outside *)
(* of the lock.  RoomSessions has what happens in the rooms meanwhile;     *)
(* here a join that replaces a session is any of two open sessions of the  *)
(* same participant and room.                                              *)
(***************************************************************************)
EXTENDS ConnectionAdmission

CONSTANTS
  Reasons,    \* why this instance closes sessions, of "expired" and "other"
  Stoppable,  \* the service can stop
  MaxCalls    \* bound: close calls of one session at a time

ASSUME ReasonAssumption == Reasons \subseteq {"expired", "other"}

VARIABLES
  running,   \* the lifecycle flag of the service
  phase,     \* [Session -> where the session is on its way]; "open" is
             \* connectedPeers
  decided,   \* [Session -> BOOLEAN]: it has a SessionCloseDecision
  terminal,  \* [Session -> BOOLEAN]: closeDecision.terminalStatus is set
  closing,   \* [Session -> BOOLEAN]: closeDecision.closeInProgress
  waiting,   \* SUBSET Session: pendingTerminalCleanup
  queued,    \* [Session -> SUBSET Status]: close actions the executor has
  calls,     \* [Session -> Nat]: close calls that have not returned
  shutting,  \* SUBSET Session: sessions stop() is about to close
  closed,    \* [Session -> SUBSET Status]: what close was called with
  returned   \* SUBSET Session: replaced sessions whose close has returned

connectionVars == <<phase, decided>>
closeVars == <<terminal, closing, waiting, queued, calls, shutting, closed, returned>>
vars == <<admissionVars, running, connectionVars, closeVars>>

\* A handshake can fail; a session can be refused, be open and be gone.
Phase == {"new", "handshake", "failed", "upgraded", "refusing", "open", "gone"}
\* "superseded" is 4002; a client does not come back after it.
Status == {"superseded", "expired", "shutdown", "other"}

TypeOK ==
  /\ setting \in Settings
  /\ active \in Nat
  /\ byClient \in [Client -> Nat]
  /\ tokens \subseteq Token
  /\ bySeat \in [Seat -> Nat]
  /\ reservation \in [Session -> {"none", "held", "released"}]
  /\ running \in BOOLEAN
  /\ phase \in [Session -> Phase]
  /\ decided \in [Session -> BOOLEAN]
  /\ terminal \in [Session -> BOOLEAN]
  /\ closing \in [Session -> BOOLEAN]
  /\ waiting \subseteq Session
  /\ queued \in [Session -> SUBSET Status]
  /\ calls \in [Session -> Nat]
  /\ shutting \subseteq Session
  /\ closed \in [Session -> SUBSET Status]
  /\ returned \subseteq Session

Init ==
  /\ AdmissionInit
  /\ running = TRUE
  /\ phase = [s \in Session |-> "new"]
  /\ decided = [s \in Session |-> FALSE]
  /\ terminal = [s \in Session |-> FALSE]
  /\ closing = [s \in Session |-> FALSE]
  /\ waiting = {}
  /\ queued = [s \in Session |-> {}]
  /\ calls = [s \in Session |-> 0]
  /\ shutting = {}
  /\ closed = [s \in Session |-> {}]
  /\ returned = {}

-----------------------------------------------------------------------------
(* The handshake                                                           *)

Move(s, p) == phase' = [phase EXCEPT ![s] = p]

\* doHandshake looks at the service without its lock.
BeginHandshake(s) ==
  /\ phase[s] = "new" /\ s \in setting.comes
  /\ running
  /\ \/ /\ HasRoom(s)
        /\ Reserve(s)
        /\ Move(s, "handshake")
     \/ /\ ~HasRoom(s)
        /\ Move(s, "failed")
        /\ UNCHANGED admissionVars
  /\ UNCHANGED <<running, decided, closeVars>>

\* The upgrade succeeds, or it does not and the reservation is closed at once.
EndHandshake(s) ==
  /\ phase[s] = "handshake"
  /\ \/ /\ Move(s, "upgraded")
        /\ UNCHANGED admissionVars
     \/ /\ Move(s, "failed")
        /\ Release({s})
  /\ UNCHANGED <<running, decided, closeVars>>

-----------------------------------------------------------------------------
(* Close actions                                                           *)

\* scheduleCloseLocked.  A session that connect refused has no close decision
\* to tell that an attempt is in progress.
Schedule(s, status) ==
  \/ /\ closing[s]
     /\ UNCHANGED <<closing, queued>>
  \/ /\ ~closing[s]
     /\ closing' = [closing EXCEPT ![s] = decided[s]]
     /\ queued' = [queued EXCEPT ![s] = @ \cup {status}]

\* Fault: the status the attempt was made for is used in any case.
BeginCloseAsAsked(s, status) ==
  /\ status \in queued[s] /\ calls[s] < MaxCalls
  /\ queued' = [queued EXCEPT ![s] = @ \ {status}]
  /\ calls' = [calls EXCEPT ![s] = @ + 1]
  /\ closed' = [closed EXCEPT ![s] = @ \cup {status}]
  /\ UNCHANGED <<admissionVars, running, connectionVars, terminal, closing, waiting, shutting, returned>>

\* executeClose takes the status under the lock and calls close without it.
BeginClose(s, status) ==
  /\ status \in queued[s] /\ calls[s] < MaxCalls
  /\ queued' = [queued EXCEPT ![s] = @ \ {status}]
  /\ calls' = [calls EXCEPT ![s] = @ + 1]
  /\ closed' = [closed EXCEPT ![s] = @ \cup {IF terminal[s] THEN "superseded" ELSE status}]
  /\ UNCHANGED <<admissionVars, running, connectionVars, terminal, closing, waiting, shutting, returned>>

\* Fault: the reservation of a replaced session is not given back.
EndCloseOnly(s) ==
  /\ calls[s] > 0
  /\ calls' = [calls EXCEPT ![s] = @ - 1]
  /\ closing' = [closing EXCEPT ![s] = FALSE]
  /\ waiting' = waiting \ {s}
  /\ returned' = IF terminal[s] THEN returned \cup {s} ELSE returned
  /\ UNCHANGED <<admissionVars, running, connectionVars, terminal, queued, shutting, closed>>

\* close has returned or thrown: completeCloseAttempt.
EndClose(s) ==
  /\ calls[s] > 0
  /\ calls' = [calls EXCEPT ![s] = @ - 1]
  /\ closing' = [closing EXCEPT ![s] = FALSE]
  /\ waiting' = waiting \ {s}
  /\ returned' = IF terminal[s] THEN returned \cup {s} ELSE returned
  /\ Release(waiting \cap {s})
  /\ UNCHANGED <<running, connectionVars, terminal, queued, shutting, closed>>

-----------------------------------------------------------------------------
(* The session                                                             *)

\* connect in the lock: the peer is registered and owns the reservation.
Connect(s) ==
  /\ phase[s] = "upgraded"
  /\ running
  /\ Move(s, "open")
  /\ decided' = [decided EXCEPT ![s] = TRUE]
  /\ UNCHANGED <<admissionVars, running, closeVars>>

\* connect finds no room access, an expired lease or a stopped service.
RefuseConnect(s, status) ==
  /\ phase[s] = "upgraded"
  /\ ~running \/ status # "shutdown"
  /\ Move(s, "refusing")
  /\ Schedule(s, status)
  /\ UNCHANGED <<admissionVars, running, decided, terminal, waiting, calls, shutting, closed, returned>>

\* The finally block of connect.
EndRefusal(s) ==
  /\ phase[s] = "refusing"
  /\ Move(s, "gone")
  /\ Release({s})
  /\ UNCHANGED <<running, decided, closeVars>>

\* afterConnectionClosed: the transport is gone.
Disconnect(s) ==
  /\ phase[s] = "open"
  /\ Move(s, "gone")
  /\ Release({s})
  /\ UNCHANGED <<running, decided, closeVars>>

\* disconnectAndCloseLocked for every reason but a replaced session: overflow,
\* heartbeat, join timeout, inbound limit, send failure, an expired lease.
DisconnectAndClose(s, status) ==
  /\ phase[s] = "open"
  /\ Move(s, "gone")
  /\ Release({s})
  /\ Schedule(s, status)
  /\ UNCHANGED <<running, decided, terminal, waiting, calls, shutting, closed, returned>>

\* join: of the two sessions of a participant in a room s has to go.  Its
\* reservation is kept until the close attempt is over.
Supersede(s, t) ==
  /\ s # t /\ phase[s] = "open" /\ phase[t] = "open"
  /\ SeatOf[s] # None /\ SeatOf[s] = SeatOf[t]
  /\ Move(s, "gone")
  /\ terminal' = [terminal EXCEPT ![s] = TRUE]
  /\ waiting' = waiting \cup {s}
  /\ Schedule(s, "superseded")
  /\ UNCHANGED <<admissionVars, running, decided, calls, shutting, closed, returned>>

\* A frame or a transport error of a session that is not connected.
LateEvent(s) ==
  /\ phase[s] = "gone" /\ "other" \in Reasons
  /\ Schedule(s, "other")
  /\ UNCHANGED <<admissionVars, running, connectionVars, terminal, waiting, calls, shutting, closed, returned>>

-----------------------------------------------------------------------------
(* Stopping                                                                *)

\* Fault: stop gives back the reservations of replaced sessions, too.
StopForgetful ==
  /\ Stoppable /\ running
  /\ running' = FALSE
  /\ LET open == {s \in Session : phase[s] = "open"}
     IN /\ Release(open \cup waiting)
        /\ phase' = [s \in Session |-> IF s \in open THEN "gone" ELSE phase[s]]
        /\ shutting' = shutting \cup open
  /\ waiting' = waiting
  /\ UNCHANGED <<decided, terminal, closing, queued, calls, closed, returned>>

\* stop: every peer is dropped and its session is going to be closed; replaced
\* sessions keep their reservations until their close attempts are over.
Stop ==
  /\ Stoppable /\ running
  /\ running' = FALSE
  /\ LET open == {s \in Session : phase[s] = "open"}
     IN /\ Release(open)
        /\ phase' = [s \in Session |-> IF s \in open THEN "gone" ELSE phase[s]]
        /\ shutting' = shutting \cup open
  /\ UNCHANGED <<decided, terminal, closing, waiting, queued, calls, closed, returned>>

\* closeSessionsConcurrently; past the deadline a close may not be called.
CloseAtShutdown(s) ==
  /\ s \in shutting
  /\ shutting' = shutting \ {s}
  /\ closed' \in {closed, [closed EXCEPT ![s] = @ \cup {"shutdown"}]}
  /\ UNCHANGED <<admissionVars, running, connectionVars, terminal, closing, waiting, queued, calls, returned>>

Start ==
  /\ ~running
  /\ running' = TRUE
  /\ UNCHANGED <<admissionVars, connectionVars, closeVars>>

-----------------------------------------------------------------------------
Next ==
  \/ \E s \in Session :
       \/ BeginHandshake(s) \/ EndHandshake(s)
       \/ Connect(s) \/ EndRefusal(s)
       \/ Disconnect(s) \/ LateEvent(s)
       \/ EndClose(s) \/ CloseAtShutdown(s)
  \/ \E s \in Session, status \in Status : BeginClose(s, status)
  \/ \E s \in Session, status \in Reasons \cup {"shutdown"} : RefuseConnect(s, status)
  \/ \E s \in Session, status \in Reasons : DisconnectAndClose(s, status)
  \/ \E s, t \in Session : Supersede(s, t)
  \/ Stop
  \/ Start

\* The executor runs every close action and a close returns or fails in the end:
\* the closing of a session goes on.
Closing(s) == (\E status \in Status : BeginClose(s, status)) \/ EndClose(s)
Fairness == \A s \in Session : WF_vars(Closing(s))

Spec == Init /\ [][Next]_vars /\ Fairness
-----------------------------------------------------------------------------
(* Properties                                                              *)

\* The counts of the policy are those of the reservations that are held,
\* although it never sees the reservations again: none is lost or given back
\* twice on any path of a handshake, a connection or a shutdown.
CountsAreExact ==
  /\ active = Cardinality(Held)
  /\ \A k \in Client : byClient[k] = Cardinality(HeldBy(k))
  /\ tokens = {TokenOf[s] : s \in Held} \ {None}
  /\ \A p \in Seat : bySeat[p] = Cardinality(HeldFor(p))

\* Sessions on their way in, in use, or replaced and not yet closed.
Using ==
  {s \in Session : \/ phase[s] \in {"handshake", "upgraded", "refusing", "open"}
                   \/ terminal[s] /\ s \notin returned}

\* No address and no participant ever has more sessions than allowed and no two
\* have the same token, replaced sessions counted until their close is over.
LimitsHold ==
  /\ Cardinality(Using) <= setting.total
  /\ \A k \in Client : Cardinality({s \in Using : ClientOf[s] = k}) <= setting.client
  /\ \A p \in Seat : Cardinality({s \in Using : SeatOf[s] = p}) <= MaxPerSeat
  /\ \A s, t \in Using : TokenOf[s] # None /\ TokenOf[s] = TokenOf[t] => s = t

\* Together: the counts are right, and they keep the limits.
AdmissionHolds == CountsAreExact /\ LimitsHold

\* A reservation is held exactly as long as its session is in use, on every
\* path of a handshake, a replacement or a shutdown, and someone is left to
\* close it: a replaced session has a close attempt that is not over.
ReservationsHaveOwners ==
  /\ Held = Using
  /\ \A s \in waiting : queued[s] # {} \/ calls[s] > 0

\* The client of a replaced session is only ever told that it was replaced, by
\* whichever attempt its close frame goes out with, and never something after
\* which it connects again: two tabs do not throw each other out for ever.
ReplacedIsTold == \A s \in Session : terminal[s] => closed[s] \subseteq {"superseded"}

\* One task at a time closes a session that was open, so the attempt that ends
\* is the one its reservation waits for.
OneAttempt == \A s \in Session : decided[s] => Cardinality(queued[s]) + calls[s] <= 1

\* A session that is over does not take up a place for ever: again and again
\* none of them holds a reservation.
PlacesAreFreed == []<>(\A s \in Session : phase[s] = "gone" => reservation[s] # "held")

=============================================================================
