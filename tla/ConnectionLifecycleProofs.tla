----------------------- MODULE ConnectionLifecycleProofs -----------------------
(***************************************************************************)
(* Proofs about ConnectionLifecycle for any number of sessions and any     *)
(* limits.  SessionInv says of one session what its phase allows for its   *)
(* close attempts and its reservation; CountInv adds the reservations up.  *)
(***************************************************************************)
EXTENDS ConnectionLifecycle, FiniteSetTheorems, TLAPS

InUse == {"handshake", "upgraded", "refusing", "open"}

\* Nobody has tried to close a session that is on its way in or open.
UntouchedInv(s) ==
  phase[s] \in Phase \ {"refusing", "gone"} =>
    /\ ~terminal[s] /\ ~closing[s]
    /\ s \notin waiting /\ s \notin shutting /\ s \notin returned
    /\ queued[s] = {} /\ calls[s] = 0 /\ closed[s] = {}

\* A session has a close decision from when it is open.
DecidedInv(s) ==
  /\ phase[s] = "open" => decided[s]
  /\ decided[s] => phase[s] \in {"open", "gone"}
  /\ phase[s] = "refusing" => ~terminal[s] /\ s \notin waiting /\ s \notin shutting
  /\ s \in shutting => ~terminal[s]

\* One close attempt at a time, and closing says whether there is one.
AttemptInv(s) ==
  decided[s] =>
    \/ ~closing[s] /\ queued[s] = {} /\ calls[s] = 0
    \/ closing[s] /\ calls[s] = 0 /\ \E status \in Status : queued[s] = {status}
    \/ closing[s] /\ calls[s] = 1 /\ queued[s] = {}

\* A replaced session.
TerminalInv(s) ==
  terminal[s] => /\ phase[s] = "gone" /\ decided[s]
                 /\ closed[s] \subseteq {"superseded"}
                 /\ s \in waiting \/ s \in returned

WaitingInv(s) ==
  s \in waiting => terminal[s] /\ s \notin returned /\ closing[s]

\* Who holds a reservation.
HoldingInv(s) == reservation[s] = "held" <=> phase[s] \in InUse \/ s \in waiting

SessionInv(s) ==
  /\ UntouchedInv(s) /\ DecidedInv(s) /\ AttemptInv(s)
  /\ TerminalInv(s) /\ WaitingInv(s) /\ HoldingInv(s)

\* The counts, the limits they are kept to, and no two tokens alike.
CountInv ==
  /\ CountsAreExact
  /\ active <= setting.total
  /\ \A k \in Client : byClient[k] <= setting.client
  /\ \A p \in Seat : bySeat[p] <= MaxPerSeat
  /\ \A s, t \in Held : TokenOf[s] # None /\ TokenOf[s] = TokenOf[t] => s = t

\* The types of what is not counted.
SessionTypes ==
  /\ reservation \in [Session -> {"none", "held", "released"}]
  /\ running \in BOOLEAN
  /\ phase \in [Session -> Phase]
  /\ decided \in [Session -> BOOLEAN]
  /\ terminal \in [Session -> BOOLEAN]
  /\ closing \in [Session -> BOOLEAN]
  /\ waiting \subseteq Session
  /\ queued \in [Session -> SUBSET Status]
  /\ calls \in [Session -> Nat]
  /\ shutting \subseteq Session
  /\ closed \in [Session -> SUBSET Status]
  /\ returned \subseteq Session

\* The setting, and the domains of the counts.
CountTypes ==
  /\ setting \in Settings
  /\ DOMAIN byClient = Client /\ byClient = [k \in Client |-> byClient[k]]
  /\ DOMAIN bySeat = Seat /\ bySeat = [p \in Seat |-> bySeat[p]]

Inv ==
  /\ SessionTypes
  /\ \A s \in Session : SessionInv(s)
  /\ CountTypes
  /\ CountInv

USE SessionAssumption, ParticipantAssumption, CapacityAssumption, ReasonAssumption

-----------------------------------------------------------------------------
(* What the admission steps do to one session                              *)

\* Releasing S touches the held reservations of S alone.
LEMMA ReleaseAt ==
  ASSUME SessionTypes, NEW S \in SUBSET Session, Release(S), NEW s \in Session
  PROVE  reservation'[s] = IF s \in S /\ reservation[s] = "held" THEN "released" ELSE reservation[s]
  BY DEF SessionTypes, Release, Held

\* The variables keep their types.
LEMMA TypesStep == ASSUME SessionTypes, [Next]_vars PROVE SessionTypes'
<1> USE DEF SessionTypes
<1>1. ASSUME NEW S \in SUBSET Session, Release(S)
      PROVE  reservation' \in [Session -> {"none", "held", "released"}]
  BY <1>1 DEF Release
<1>2. ASSUME NEW s \in Session, NEW status \in Status, Schedule(s, status)
      PROVE  closing' \in [Session -> BOOLEAN] /\ queued' \in [Session -> SUBSET Status]
  BY <1>2 DEF Schedule
<1>3. ASSUME NEW s \in Session, BeginHandshake(s) PROVE SessionTypes'
  BY <1>3 DEF BeginHandshake, Reserve, Move, Phase, admissionVars, closeVars
<1>4. ASSUME NEW s \in Session, EndHandshake(s) PROVE SessionTypes'
  BY <1>1, <1>4 DEF EndHandshake, Move, Phase, admissionVars, closeVars
<1>5. ASSUME NEW s \in Session, Connect(s) PROVE SessionTypes'
  BY <1>5 DEF Connect, Move, Phase, admissionVars, closeVars
<1>6. ASSUME NEW s \in Session, EndRefusal(s) \/ Disconnect(s) PROVE SessionTypes'
  BY <1>1, <1>6 DEF EndRefusal, Disconnect, Move, Phase, closeVars
<1>7. ASSUME NEW s \in Session, LateEvent(s) PROVE SessionTypes'
  BY <1>2, <1>7 DEF LateEvent, Status, connectionVars, admissionVars
<1>8. ASSUME NEW s \in Session, EndClose(s) PROVE SessionTypes'
  BY <1>1, <1>8 DEF EndClose, connectionVars
<1>9. ASSUME NEW s \in Session, CloseAtShutdown(s) PROVE SessionTypes'
  BY <1>9 DEF CloseAtShutdown, Status, connectionVars, admissionVars
<1>10. ASSUME NEW s \in Session, NEW status \in Status, BeginClose(s, status) PROVE SessionTypes'
  BY <1>10 DEF BeginClose, Status, connectionVars, admissionVars
<1>11. ASSUME NEW s \in Session, NEW status \in Status, RefuseConnect(s, status) PROVE SessionTypes'
  BY <1>2, <1>11 DEF RefuseConnect, Move, Phase, admissionVars
<1>12. ASSUME NEW s \in Session, NEW status \in Status, DisconnectAndClose(s, status) PROVE SessionTypes'
  BY <1>1, <1>2, <1>12 DEF DisconnectAndClose, Move, Phase
<1>13. ASSUME NEW s \in Session, NEW t \in Session, Supersede(s, t) PROVE SessionTypes'
  BY <1>2, <1>13 DEF Supersede, Move, Phase, Status, admissionVars
<1>14. CASE Stop
  BY <1>1, <1>14 DEF Stop, Phase
<1>15. CASE Start \/ UNCHANGED vars
  BY <1>15 DEF Start, vars, connectionVars, closeVars, admissionVars
<1>16. Reasons \cup {"shutdown"} \subseteq Status
  BY DEF Status
<1> QED
  BY <1>3, <1>4, <1>5, <1>6, <1>7, <1>8, <1>9, <1>10, <1>11, <1>12, <1>13, <1>14, <1>15, <1>16 DEF Next

-----------------------------------------------------------------------------
(* Sessions                                                                *)

\* What stays as it was for a session that the step is not about.
Untouched(s) ==
  /\ UNCHANGED <<phase[s], decided[s], terminal[s], closing[s], queued[s], calls[s], closed[s],
                 reservation[s]>>
  /\ (s \in waiting)' = (s \in waiting)
  /\ (s \in shutting)' = (s \in shutting)
  /\ (s \in returned)' = (s \in returned)

LEMMA UntouchedStep ==
  ASSUME NEW s \in Session, SessionInv(s), Untouched(s) PROVE SessionInv(s)'
  BY DEF SessionInv, UntouchedInv, DecidedInv, AttemptInv, TerminalInv, WaitingInv, HoldingInv, Untouched

\* A close attempt begins only when none is in progress.
LEMMA ScheduleAt ==
  ASSUME SessionTypes, NEW s \in Session, NEW status \in Status, Schedule(s, status), AttemptInv(s),
         decided'[s] = decided[s], calls' = calls
  PROVE  /\ AttemptInv(s)' /\ (decided[s] => closing'[s])
         /\ ~decided[s] => closing'[s] = FALSE \/ closing'[s] = closing[s]
         /\ \A t \in Session \ {s} : UNCHANGED <<closing[t], queued[t]>>
  BY DEF SessionTypes, Schedule, AttemptInv

LEMMA SessionStep ==
  ASSUME SessionTypes, Next, NEW s \in Session, \A t \in Session : SessionInv(t)
  PROVE  SessionInv(s)'
<1> USE DEF SessionTypes
<1>0. SessionInv(s)
  OBVIOUS
<1>1. ASSUME NEW t \in Session, BeginHandshake(t) PROVE SessionInv(s)'
  <2>1. CASE s # t
    <3>1. Untouched(s)
      BY <1>1, <2>1 DEF BeginHandshake, Reserve, Move, Untouched, admissionVars, closeVars
    <3> QED
      BY <1>0, <3>1, UntouchedStep
  <2>2. CASE s = t
    BY <1>0, <1>1, <2>2
       DEF BeginHandshake, Reserve, Move, admissionVars, closeVars, InUse, Phase, SessionInv,
           UntouchedInv, DecidedInv, AttemptInv, TerminalInv, WaitingInv, HoldingInv
  <2> QED
    BY <2>1, <2>2
<1>2. ASSUME NEW t \in Session, EndHandshake(t) PROVE SessionInv(s)'
  <2>1. CASE s # t
    <3>1. Untouched(s)
      BY <1>2, <2>1, ReleaseAt DEF EndHandshake, Move, Untouched, admissionVars, closeVars
    <3> QED
      BY <1>0, <3>1, UntouchedStep
  <2>2. CASE s = t
    <3>1. reservation'[s] = "held" <=> phase'[s] = "upgraded"
      BY <1>0, <1>2, <2>2, ReleaseAt DEF EndHandshake, Move, admissionVars, SessionInv, HoldingInv, InUse
    <3> QED
      BY <1>0, <1>2, <2>2, <3>1
         DEF EndHandshake, Move, closeVars, InUse, Phase, SessionInv,
             UntouchedInv, DecidedInv, AttemptInv, TerminalInv, WaitingInv, HoldingInv
  <2> QED
    BY <2>1, <2>2
<1>3. ASSUME NEW t \in Session, Connect(t) PROVE SessionInv(s)'
  <2>1. CASE s # t
    <3>1. Untouched(s)
      BY <1>3, <2>1 DEF Connect, Move, Untouched, admissionVars, closeVars
    <3> QED
      BY <1>0, <3>1, UntouchedStep
  <2>2. CASE s = t
    BY <1>0, <1>3, <2>2
       DEF Connect, Move, admissionVars, closeVars, InUse, Phase, SessionInv,
           UntouchedInv, DecidedInv, AttemptInv, TerminalInv, WaitingInv, HoldingInv
  <2> QED
    BY <2>1, <2>2
<1>4. ASSUME NEW t \in Session, EndRefusal(t) \/ Disconnect(t) PROVE SessionInv(s)'
  <2>1. CASE s # t
    <3>1. Untouched(s)
      BY <1>4, <2>1, ReleaseAt DEF EndRefusal, Disconnect, Move, Untouched, closeVars
    <3> QED
      BY <1>0, <3>1, UntouchedStep
  <2>2. CASE s = t
    <3>1. reservation'[s] # "held" /\ phase'[s] = "gone"
      BY <1>4, <2>2, ReleaseAt DEF EndRefusal, Disconnect, Move
    <3>2. s \notin waiting /\ ~terminal[s] /\ (phase[s] = "open" => decided[s])
      BY <1>0, <1>4, <2>2
         DEF EndRefusal, Disconnect, SessionInv, UntouchedInv, DecidedInv, Phase
    <3>3. UNCHANGED <<decided, closeVars>>
      BY <1>4 DEF EndRefusal, Disconnect
    <3> QED
      BY <1>0, <3>1, <3>2, <3>3
         DEF closeVars, InUse, SessionInv, UntouchedInv, DecidedInv, AttemptInv, TerminalInv, WaitingInv,
             HoldingInv
  <2> QED
    BY <2>1, <2>2
<1>5. ASSUME NEW t \in Session, LateEvent(t) PROVE SessionInv(s)'
  <2>1. AttemptInv(t) /\ decided' = decided /\ calls' = calls /\ "other" \in Status
    BY <1>5 DEF LateEvent, SessionInv, connectionVars, Status
  <2>2. CASE s # t
    <3>1. Untouched(s)
      BY <1>5, <2>1, <2>2, ScheduleAt DEF LateEvent, Untouched, admissionVars, connectionVars
    <3> QED
      BY <1>0, <3>1, UntouchedStep
  <2>3. CASE s = t
    <3>1. AttemptInv(s)' /\ (decided[s] => closing'[s])
      BY <1>5, <2>1, <2>3, ScheduleAt DEF LateEvent
    <3>2. UNCHANGED <<phase, decided, reservation, terminal, waiting, calls, shutting, closed, returned>>
          /\ phase[s] = "gone"
      BY <1>5, <2>3 DEF LateEvent, admissionVars, connectionVars
    <3> QED
      BY <1>0, <3>1, <3>2
         DEF SessionInv, UntouchedInv, DecidedInv, TerminalInv, WaitingInv, HoldingInv, Phase
  <2> QED
    BY <2>2, <2>3
<1>6. ASSUME NEW t \in Session, NEW status \in Status, BeginClose(t, status) PROVE SessionInv(s)'
  <2>1. CASE s # t
    <3>1. Untouched(s)
      BY <1>6, <2>1 DEF BeginClose, Untouched, admissionVars, connectionVars
    <3> QED
      BY <1>0, <3>1, UntouchedStep
  <2>2. CASE s = t
    <3>1. UNCHANGED <<phase, decided, reservation, terminal, closing, waiting, shutting, returned>>
      BY <1>6 DEF BeginClose, admissionVars, connectionVars
    <3>2. /\ status \in queued[s] /\ queued'[s] = queued[s] \ {status} /\ calls'[s] = calls[s] + 1
          /\ closed'[s] = closed[s] \cup {IF terminal[s] THEN "superseded" ELSE status}
      BY <1>6, <2>2 DEF BeginClose
    <3>3. phase[s] \in {"refusing", "gone"}
      BY <1>0, <3>2 DEF SessionInv, UntouchedInv
    <3>4. AttemptInv(s)'
      BY <1>0, <3>1, <3>2 DEF SessionInv, AttemptInv
    <3> QED
      BY <1>0, <3>1, <3>2, <3>3, <3>4
         DEF SessionInv, UntouchedInv, DecidedInv, TerminalInv, WaitingInv, HoldingInv
  <2> QED
    BY <2>1, <2>2
<1>7. ASSUME NEW t \in Session, EndClose(t) PROVE SessionInv(s)'
  <2>0. Release(waiting \cap {t})
    BY <1>7 DEF EndClose
  <2>1. CASE s # t
    <3>1. reservation'[s] = reservation[s]
      BY <2>0, <2>1, ReleaseAt
    <3>2. Untouched(s)
      BY <1>7, <2>1, <3>1 DEF EndClose, Untouched, connectionVars
    <3> QED
      BY <1>0, <3>2, UntouchedStep
  <2>2. CASE s = t
    <3>1. reservation'[s] = IF s \in waiting /\ reservation[s] = "held" THEN "released" ELSE reservation[s]
      BY <2>0, <2>2, ReleaseAt
    <3>2. /\ calls[s] > 0 /\ calls'[s] = calls[s] - 1 /\ closing'[s] = FALSE
          /\ waiting' = waiting \ {s}
          /\ returned' = IF terminal[s] THEN returned \cup {s} ELSE returned
          /\ UNCHANGED <<phase, decided, terminal, queued, shutting, closed>>
      BY <1>7, <2>2 DEF EndClose, connectionVars
    <3>3. phase[s] \in {"refusing", "gone"}
      BY <1>0, <3>2 DEF SessionInv, UntouchedInv
    <3>4. AttemptInv(s)'
      BY <1>0, <3>2 DEF SessionInv, AttemptInv
    <3>5. HoldingInv(s)'
      BY <1>0, <3>1, <3>2 DEF SessionInv, HoldingInv, WaitingInv, TerminalInv, InUse
    <3> QED
      BY <1>0, <3>2, <3>3, <3>4, <3>5
         DEF SessionInv, UntouchedInv, DecidedInv, TerminalInv, WaitingInv
  <2> QED
    BY <2>1, <2>2
<1>8. ASSUME NEW t \in Session, CloseAtShutdown(t) PROVE SessionInv(s)'
  <2>1. CASE s # t
    <3>1. Untouched(s)
      BY <1>8, <2>1 DEF CloseAtShutdown, Untouched, admissionVars, connectionVars
    <3> QED
      BY <1>0, <3>1, UntouchedStep
  <2>2. CASE s = t
    <3>1. s \in shutting /\ shutting' = shutting \ {s}
          /\ UNCHANGED <<phase, decided, reservation, terminal, closing, waiting, queued, calls, returned>>
      BY <1>8, <2>2 DEF CloseAtShutdown, admissionVars, connectionVars
    <3> QED
      BY <1>0, <3>1
         DEF SessionInv, UntouchedInv, DecidedInv, AttemptInv, TerminalInv, WaitingInv, HoldingInv
  <2> QED
    BY <2>1, <2>2
<1>9. ASSUME NEW t \in Session, NEW status \in Status, RefuseConnect(t, status) PROVE SessionInv(s)'
  <2>1. AttemptInv(t) /\ decided' = decided /\ calls' = calls
    BY <1>9 DEF RefuseConnect, SessionInv
  <2>2. CASE s # t
    <3>1. Untouched(s)
      BY <1>9, <2>1, <2>2, ScheduleAt DEF RefuseConnect, Move, Untouched, admissionVars
    <3> QED
      BY <1>0, <3>1, UntouchedStep
  <2>3. CASE s = t
    <3>1. phase[s] = "upgraded" /\ phase'[s] = "refusing"
          /\ UNCHANGED <<decided, reservation, terminal, waiting, calls, shutting, closed, returned>>
      BY <1>9, <2>3 DEF RefuseConnect, Move, admissionVars
    <3>2. ~decided[s] /\ ~terminal[s] /\ s \notin waiting /\ s \notin shutting
      BY <1>0, <3>1 DEF SessionInv, DecidedInv, UntouchedInv, Phase
    <3> QED
      BY <1>0, <3>1, <3>2
         DEF SessionInv, UntouchedInv, DecidedInv, AttemptInv, TerminalInv, WaitingInv, HoldingInv, InUse
  <2> QED
    BY <2>2, <2>3
<1>10. ASSUME NEW t \in Session, NEW status \in Status, DisconnectAndClose(t, status) PROVE SessionInv(s)'
  <2>1. AttemptInv(t) /\ decided' = decided /\ calls' = calls
    BY <1>10 DEF DisconnectAndClose, SessionInv
  <2>2. CASE s # t
    <3>1. UNCHANGED <<closing[s], queued[s]>>
      BY <1>10, <2>1, <2>2, ScheduleAt DEF DisconnectAndClose
    <3>2. reservation'[s] = reservation[s]
      BY <1>10, <2>2, ReleaseAt DEF DisconnectAndClose
    <3>3. Untouched(s)
      BY <1>10, <2>2, <3>1, <3>2 DEF DisconnectAndClose, Move, Untouched
    <3> QED
      BY <1>0, <3>3, UntouchedStep
  <2>3. CASE s = t
    <3>1. phase[s] = "open" /\ phase'[s] = "gone" /\ reservation'[s] # "held"
          /\ UNCHANGED <<decided, terminal, waiting, calls, shutting, closed, returned>>
      BY <1>10, <2>3, ReleaseAt DEF DisconnectAndClose, Move
    <3>2. decided[s] /\ ~terminal[s] /\ s \notin waiting
      BY <1>0, <3>1 DEF SessionInv, DecidedInv, UntouchedInv, Phase
    <3>3. AttemptInv(s)'
      BY <1>10, <2>1, <2>3, ScheduleAt DEF DisconnectAndClose
    <3> QED
      BY <1>0, <3>1, <3>2, <3>3
         DEF SessionInv, UntouchedInv, DecidedInv, TerminalInv, WaitingInv, HoldingInv, InUse
  <2> QED
    BY <2>2, <2>3
<1>11. ASSUME NEW t \in Session, NEW u \in Session, Supersede(t, u) PROVE SessionInv(s)'
  <2>1. AttemptInv(t) /\ decided' = decided /\ calls' = calls /\ "superseded" \in Status
        /\ Schedule(t, "superseded")
    BY <1>11 DEF Supersede, SessionInv, Status
  <2>2. CASE s # t
    <3>1. UNCHANGED <<closing[s], queued[s]>>
      BY <2>1, <2>2, ScheduleAt
    <3>2. Untouched(s)
      BY <1>11, <2>2, <3>1 DEF Supersede, Move, Untouched, admissionVars
    <3> QED
      BY <1>0, <3>2, UntouchedStep
  <2>3. CASE s = t
    <3>1. phase[s] = "open" /\ phase'[s] = "gone" /\ terminal'[s] = TRUE /\ waiting' = waiting \cup {s}
          /\ UNCHANGED <<decided, reservation, calls, shutting, closed, returned>>
      BY <1>11, <2>3 DEF Supersede, Move, admissionVars
    <3>2. decided[s] /\ s \notin returned /\ s \notin shutting /\ closed[s] = {}
      BY <1>0, <3>1 DEF SessionInv, DecidedInv, UntouchedInv, Phase
    <3>3. AttemptInv(s)' /\ (decided[s] => closing'[s])
      BY <2>1, <2>3, ScheduleAt
    <3> QED
      BY <1>0, <3>1, <3>2, <3>3
         DEF SessionInv, UntouchedInv, DecidedInv, TerminalInv, WaitingInv, HoldingInv, InUse
  <2> QED
    BY <2>2, <2>3
<1>12. CASE Stop
  <2>1. {q \in Session : phase[q] = "open"} \in SUBSET Session
        /\ Release({q \in Session : phase[q] = "open"})
    BY <1>12 DEF Stop
  <2>2. UNCHANGED <<decided, terminal, closing, waiting, queued, calls, closed, returned>>
    BY <1>12 DEF Stop
  <2>3. CASE phase[s] # "open"
    <3>1. reservation'[s] = reservation[s]
      BY <2>1, <2>3, ReleaseAt
    <3>2. Untouched(s)
      BY <1>12, <2>2, <2>3, <3>1 DEF Stop, Untouched
    <3> QED
      BY <1>0, <3>2, UntouchedStep
  <2>4. CASE phase[s] = "open"
    <3>1. reservation'[s] # "held"
      BY <2>1, <2>4, ReleaseAt
    <3>2. phase'[s] = "gone" /\ s \in shutting'
      BY <1>12, <2>4 DEF Stop
    <3>3. decided[s] /\ ~terminal[s] /\ s \notin waiting
      BY <1>0, <2>4 DEF SessionInv, DecidedInv, UntouchedInv, Phase
    <3> QED
      BY <1>0, <2>2, <3>1, <3>2, <3>3
         DEF SessionInv, UntouchedInv, DecidedInv, AttemptInv, TerminalInv, WaitingInv, HoldingInv, InUse
  <2> QED
    BY <2>3, <2>4
<1>13. CASE Start
  BY <1>0, <1>13, UntouchedStep DEF Start, Untouched, admissionVars, connectionVars, closeVars
<1>14. Reasons \cup {"shutdown"} \subseteq Status
  BY DEF Status
<1> QED
  BY <1>1, <1>2, <1>3, <1>4, <1>5, <1>6, <1>7, <1>8, <1>9, <1>10, <1>11, <1>12, <1>13, <1>14 DEF Next

\* Every step keeps what is said of the sessions.
LEMMA SessionsStep ==
  ASSUME SessionTypes, \A s \in Session : SessionInv(s), [Next]_vars
  PROVE  \A s \in Session : SessionInv(s)'
<1> SUFFICES ASSUME NEW s \in Session PROVE SessionInv(s)'
  OBVIOUS
<1>1. CASE Next
  BY <1>1, SessionStep
<1>2. CASE UNCHANGED vars
  <2>1. Untouched(s)
    BY <1>2 DEF Untouched, vars, connectionVars, closeVars, admissionVars
  <2> QED
    BY <2>1, UntouchedStep
<1> QED
  BY <1>1, <1>2

-----------------------------------------------------------------------------
(* Counts                                                                  *)

\* What is held is finite.
LEMMA HeldIsFinite ==
  ASSUME NEW S, S \subseteq Session
  PROVE  IsFiniteSet(S) /\ Cardinality(S) \in Nat
  BY FS_Subset, FS_CardinalityType

\* Another reservation.
LEMMA ReserveStep ==
  ASSUME SessionTypes, CountTypes, CountInv, NEW s \in Session, reservation[s] # "held",
         HasRoom(s), Reserve(s)
  PROVE  CountTypes' /\ CountInv'
<1> DEFINE k == ClientOf[s]  p == SeatOf[s]
<1> USE DEF SessionTypes, CountTypes
<1>1. s \notin Held /\ Held' = Held \cup {s}
  BY DEF Reserve, Held
<1>2. active' = Cardinality(Held')
  <2>1. Cardinality(Held \cup {s}) = Cardinality(Held) + 1
    BY <1>1, HeldIsFinite, FS_AddElement DEF Held
  <2> QED
    BY <1>1, <2>1 DEF Reserve, CountInv, CountsAreExact
<1>3. ASSUME NEW c \in Client
      PROVE  /\ byClient'[c] = Cardinality(HeldBy(c)')
             /\ byClient'[c] <= setting.client
  <2>1. CASE c = k
    <3>1. HeldBy(c)' = HeldBy(c) \cup {s} /\ s \notin HeldBy(c)
      BY <1>1, <2>1 DEF HeldBy
    <3>2. Cardinality(HeldBy(c) \cup {s}) = Cardinality(HeldBy(c)) + 1 /\ Cardinality(HeldBy(c)) \in Nat
      BY <3>1, HeldIsFinite, FS_AddElement DEF Held, HeldBy
    <3>3. byClient'[c] = byClient[c] + 1 /\ byClient[c] < setting.client
      BY <2>1 DEF Reserve, HasRoom
    <3>4. byClient[c] = Cardinality(HeldBy(c))
      BY DEF CountInv, CountsAreExact
    <3> QED
      BY <3>1, <3>2, <3>3, <3>4
  <2>2. CASE c # k
    <3>1. HeldBy(c)' = HeldBy(c)
      BY <1>1, <2>2 DEF HeldBy
    <3>2. byClient'[c] = byClient[c]
      BY <2>2 DEF Reserve
    <3> QED
      BY <3>1, <3>2 DEF CountInv, CountsAreExact
  <2> QED
    BY <2>1, <2>2
<1>4. ASSUME NEW c \in Seat
      PROVE  /\ bySeat'[c] = Cardinality(HeldFor(c)')
             /\ bySeat'[c] <= MaxPerSeat
  <2>1. CASE c = p
    <3>1. HeldFor(c)' = HeldFor(c) \cup {s} /\ s \notin HeldFor(c)
      BY <1>1, <2>1 DEF HeldFor
    <3>2. Cardinality(HeldFor(c) \cup {s}) = Cardinality(HeldFor(c)) + 1 /\ Cardinality(HeldFor(c)) \in Nat
      BY <3>1, HeldIsFinite, FS_AddElement DEF Held, HeldFor
    <3>3. bySeat'[c] = bySeat[c] + 1 /\ bySeat[c] < MaxPerSeat
      BY <2>1 DEF Reserve, HasRoom
    <3>4. bySeat[c] = Cardinality(HeldFor(c))
      BY DEF CountInv, CountsAreExact
    <3> QED
      BY <3>1, <3>2, <3>3, <3>4
  <2>2. CASE c # p
    <3>1. HeldFor(c)' = HeldFor(c)
      BY <1>1, <2>2 DEF HeldFor
    <3>2. bySeat'[c] = bySeat[c]
      BY <2>2 DEF Reserve
    <3> QED
      BY <3>1, <3>2 DEF CountInv, CountsAreExact
  <2> QED
    BY <2>1, <2>2
<1>5. tokens' = {TokenOf[t] : t \in Held'} \ {None}
  <2>1. {TokenOf[t] : t \in Held \cup {s}} = {TokenOf[t] : t \in Held} \cup {TokenOf[s]}
    OBVIOUS
  <2> QED
    BY <1>1, <2>1 DEF Reserve, CountInv, CountsAreExact
<1>6. active' <= setting.total
  <2>1. active \in Nat
    BY HeldIsFinite DEF CountInv, CountsAreExact, Held
  <2> QED
    BY <2>1 DEF Reserve, HasRoom
<1>7. \A t, u \in Held' : TokenOf[t] # None /\ TokenOf[t] = TokenOf[u] => t = u
  <2>1. \A t \in Held : TokenOf[s] # None => TokenOf[t] # TokenOf[s]
    BY DEF HasRoom, CountInv, CountsAreExact
  <2> QED
    BY <1>1, <2>1 DEF CountInv
<1>8. CountTypes'
  BY DEF Reserve
<1>9. setting' = setting
  BY DEF Reserve
<1> QED
  BY <1>2, <1>3, <1>4, <1>5, <1>6, <1>7, <1>8, <1>9 DEF CountInv, CountsAreExact

\* Fewer reservations.
LEMMA ReleaseStep ==
  ASSUME SessionTypes, CountTypes, CountInv, NEW S \in SUBSET Session, Release(S)
  PROVE  CountTypes' /\ CountInv'
<1> DEFINE gone == S \cap Held
<1> USE DEF SessionTypes, CountTypes
<1>1. Held' = Held \ gone
  BY DEF Release, Held
<1>2. ASSUME NEW A, NEW B, B \subseteq A, A \subseteq Session
      PROVE  /\ Cardinality(A \ B) = Cardinality(A) - Cardinality(B)
             /\ Cardinality(A) \in Nat /\ Cardinality(B) \in Nat
             /\ Cardinality(B) <= Cardinality(A)
  <2>1. IsFiniteSet(A) /\ IsFiniteSet(B) /\ Cardinality(A) \in Nat /\ Cardinality(B) \in Nat
    BY <1>2, HeldIsFinite
  <2>2. A \cap B = B
    BY <1>2
  <2>3. Cardinality(A \ B) = Cardinality(A) - Cardinality(A \cap B)
    BY <2>1, FS_Difference
  <2>4. Cardinality(B) <= Cardinality(A)
    BY <1>2, <2>1, FS_Subset
  <2> QED
    BY <2>1, <2>2, <2>3, <2>4
<1>3. active' = Cardinality(Held') /\ active' <= setting.total
  <2>1. /\ Cardinality(Held \ gone) = Cardinality(Held) - Cardinality(gone)
        /\ Cardinality(Held) \in Nat /\ Cardinality(gone) \in Nat
    BY <1>2 DEF Held
  <2>2. active = Cardinality(Held) /\ active <= setting.total /\ active' = active - Cardinality(gone)
    BY DEF Release, CountInv, CountsAreExact
  <2> QED
    BY <1>1, <2>1, <2>2
<1>4. ASSUME NEW c \in Client
      PROVE  /\ byClient'[c] = Cardinality(HeldBy(c)')
             /\ byClient'[c] <= setting.client
  <2> DEFINE B == {s \in gone : ClientOf[s] = c}
  <2>1. HeldBy(c)' = HeldBy(c) \ B /\ B \subseteq HeldBy(c) /\ HeldBy(c) \subseteq Session
    BY <1>1 DEF HeldBy, Held
  <2> HIDE DEF B
  <2>2. /\ Cardinality(HeldBy(c) \ B) = Cardinality(HeldBy(c)) - Cardinality(B)
        /\ Cardinality(HeldBy(c)) \in Nat /\ Cardinality(B) \in Nat
    BY <1>2, <2>1
  <2>3. byClient[c] = Cardinality(HeldBy(c)) /\ byClient[c] <= setting.client
    BY DEF CountInv, CountsAreExact
  <2>4. byClient'[c] = byClient[c] - Cardinality(B)
    BY DEF Release, B
  <2> QED
    BY <2>1, <2>2, <2>3, <2>4
<1>5. ASSUME NEW c \in Seat
      PROVE  /\ bySeat'[c] = Cardinality(HeldFor(c)')
             /\ bySeat'[c] <= MaxPerSeat
  <2> DEFINE B == {s \in gone : SeatOf[s] = c}
  <2>1. HeldFor(c)' = HeldFor(c) \ B /\ B \subseteq HeldFor(c) /\ HeldFor(c) \subseteq Session
    BY <1>1 DEF HeldFor, Held
  <2> HIDE DEF B
  <2>2. /\ Cardinality(HeldFor(c) \ B) = Cardinality(HeldFor(c)) - Cardinality(B)
        /\ Cardinality(HeldFor(c)) \in Nat /\ Cardinality(B) \in Nat
    BY <1>2, <2>1
  <2>3. bySeat[c] = Cardinality(HeldFor(c)) /\ bySeat[c] <= MaxPerSeat
    BY DEF CountInv, CountsAreExact
  <2>4. bySeat'[c] = bySeat[c] - Cardinality(B)
    BY DEF Release, B
  <2> QED
    BY <2>1, <2>2, <2>3, <2>4
<1>6. tokens' = {TokenOf[t] : t \in Held'} \ {None}
  <2>1. tokens = {TokenOf[t] : t \in Held} \ {None} /\ tokens' = tokens \ {TokenOf[t] : t \in gone}
    BY DEF Release, CountInv, CountsAreExact
  <2>2. \A t \in Held \ gone, u \in gone : TokenOf[t] # None => TokenOf[t] # TokenOf[u]
    BY DEF CountInv
  <2>3. ASSUME NEW v \in tokens' PROVE v \in {TokenOf[t] : t \in Held \ gone} \ {None}
    BY <2>1, <2>3
  <2>4. ASSUME NEW v \in {TokenOf[t] : t \in Held \ gone} \ {None} PROVE v \in tokens'
    BY <2>1, <2>2, <2>4
  <2> QED
    BY <1>1, <2>3, <2>4
<1>7. \A t, u \in Held' : TokenOf[t] # None /\ TokenOf[t] = TokenOf[u] => t = u
  BY <1>1 DEF CountInv
<1>8. CountTypes'
  BY DEF Release
<1>9. setting' = setting
  BY DEF Release
<1> QED
  BY <1>3, <1>4, <1>5, <1>6, <1>7, <1>8, <1>9 DEF CountInv, CountsAreExact

\* A step that leaves the admission alone.
LEMMA SameCounts ==
  ASSUME CountTypes, CountInv, UNCHANGED admissionVars
  PROVE  CountTypes' /\ CountInv'
  BY DEF CountTypes, CountInv, CountsAreExact, Held, HeldBy, HeldFor, admissionVars

\* Every step keeps the counts.
LEMMA CountStep ==
  ASSUME SessionTypes, \A s \in Session : SessionInv(s), CountTypes, CountInv, [Next]_vars
  PROVE  CountTypes' /\ CountInv'
<1>1. ASSUME NEW s \in Session, BeginHandshake(s) PROVE CountTypes' /\ CountInv'
  <2>1. CASE HasRoom(s) /\ Reserve(s)
    <3>1. reservation[s] # "held"
      <4>1. phase[s] = "new" /\ SessionInv(s)
        BY <1>1 DEF BeginHandshake
      <4> QED
        BY <4>1 DEF SessionInv, HoldingInv, UntouchedInv, InUse, Phase
    <3> QED
      BY <2>1, <3>1, ReserveStep
  <2>2. CASE UNCHANGED admissionVars
    BY <2>2, SameCounts
  <2> QED
    BY <1>1, <2>1, <2>2 DEF BeginHandshake
<1>2. ASSUME NEW s \in Session,
             EndHandshake(s) \/ EndRefusal(s) \/ Disconnect(s) \/ EndClose(s)
      PROVE  CountTypes' /\ CountInv'
  <2>1. (\E S \in SUBSET Session : Release(S)) \/ UNCHANGED admissionVars
    BY <1>2 DEF EndHandshake, EndRefusal, Disconnect, EndClose
  <2> QED
    BY <2>1, ReleaseStep, SameCounts
<1>3. ASSUME NEW s \in Session, Connect(s) \/ LateEvent(s) \/ CloseAtShutdown(s)
      PROVE  CountTypes' /\ CountInv'
  BY <1>3, SameCounts DEF Connect, LateEvent, CloseAtShutdown
<1>4. ASSUME NEW s \in Session, NEW status \in Status,
             BeginClose(s, status) \/ RefuseConnect(s, status)
      PROVE  CountTypes' /\ CountInv'
  BY <1>4, SameCounts DEF BeginClose, RefuseConnect
<1>5. ASSUME NEW s \in Session, NEW status \in Status, DisconnectAndClose(s, status)
      PROVE  CountTypes' /\ CountInv'
  BY <1>5, ReleaseStep DEF DisconnectAndClose
<1>6. ASSUME NEW s \in Session, NEW t \in Session, Supersede(s, t)
      PROVE  CountTypes' /\ CountInv'
  BY <1>6, SameCounts DEF Supersede
<1>7. CASE Stop
  <2>1. \E S \in SUBSET Session : Release(S)
    BY <1>7 DEF Stop
  <2> QED
    BY <2>1, ReleaseStep
<1>8. CASE Start \/ UNCHANGED vars
  BY <1>8, SameCounts DEF Start, vars
<1>9. Reasons \cup {"shutdown"} \subseteq Status
  BY DEF Status
<1> QED
  BY <1>1, <1>2, <1>3, <1>4, <1>5, <1>6, <1>7, <1>8, <1>9 DEF Next

-----------------------------------------------------------------------------
(* The invariant and what follows from it                                  *)

LEMMA InitInv == ASSUME Init PROVE Inv
<1>1. SessionTypes
  BY DEF Init, AdmissionInit, SessionTypes, Phase
<1>2. \A s \in Session : SessionInv(s)
  BY DEF Init, AdmissionInit, SessionInv, UntouchedInv, DecidedInv, AttemptInv, TerminalInv, WaitingInv,
         HoldingInv, InUse, Phase
<1>3. CountTypes
  BY DEF Init, AdmissionInit, CountTypes
<1>4. Held = {} /\ (\A k \in Client : HeldBy(k) = {}) /\ (\A p \in Seat : HeldFor(p) = {})
  BY DEF Init, AdmissionInit, Held, HeldBy, HeldFor
<1>5. Cardinality({}) = 0
  BY FS_EmptySet
<1>6. CountsAreExact
  <2>1. tokens = {TokenOf[s] : s \in Held} \ {None}
    BY <1>4 DEF Init, AdmissionInit
  <2>2. active = 0 /\ (\A k \in Client : byClient[k] = 0) /\ (\A p \in Seat : bySeat[p] = 0)
    BY DEF Init, AdmissionInit
  <2> QED
    BY <1>4, <1>5, <2>1, <2>2 DEF CountsAreExact
<1>7. CountInv
  <2>1. active = 0 /\ (\A k \in Client : byClient[k] = 0) /\ (\A p \in Seat : bySeat[p] = 0)
    BY DEF Init, AdmissionInit
  <2>2. setting.total \in Nat /\ setting.client \in Nat
    BY <1>3 DEF CountTypes
  <2> QED
    BY <1>4, <1>6, <2>1, <2>2 DEF CountInv
<1> QED
  BY <1>1, <1>2, <1>3, <1>7 DEF Inv

LEMMA InvNext == ASSUME Inv, [Next]_vars PROVE Inv'
  BY TypesStep, SessionsStep, CountStep DEF Inv

THEOREM Invariance == Spec => []Inv
  BY InitInv, InvNext, PTL DEF Spec

\* The counts of the policy are those of the reservations that are held.
THEOREM CountsStayExact == Spec => []CountsAreExact
  BY Invariance, PTL DEF Inv, CountInv

\* A replaced session is only ever told that it was replaced.
THEOREM ReplacedIsNeverInvitedBack == Spec => []ReplacedIsTold
<1>1. Inv => ReplacedIsTold
  BY DEF Inv, SessionInv, TerminalInv, ReplacedIsTold
<1> QED
  BY <1>1, Invariance, PTL

\* A reservation is held as long as its session is in use.
LEMMA HeldIsUsing == ASSUME Inv PROVE Held = Using
  BY DEF Inv, SessionInv, HoldingInv, TerminalInv, WaitingInv, Held, Using, InUse

\* A reservation is held as long as its session is in use, and a replaced
\* session has a close attempt that is not over.
THEOREM ReservationsAreOwned == Spec => []ReservationsHaveOwners
<1>1. ASSUME Inv PROVE ReservationsHaveOwners
  <2>1. \A s \in waiting : s \in Session /\ decided[s] /\ closing[s] /\ AttemptInv(s)
    BY <1>1 DEF Inv, SessionTypes, SessionInv, WaitingInv, TerminalInv
  <2>2. \A s \in waiting : queued[s] # {} \/ calls[s] > 0
    BY <2>1 DEF AttemptInv
  <2> QED
    BY <1>1, <2>2, HeldIsUsing DEF ReservationsHaveOwners
<1> QED
  BY <1>1, Invariance, PTL

\* The limits hold for the sessions in use.
THEOREM LimitsAreKept == Spec => []LimitsHold
<1>1. ASSUME Inv PROVE LimitsHold
  <2>1. Held = Using
    BY <1>1, HeldIsUsing
  <2> QED
    BY <1>1, <2>1 DEF Inv, CountInv, CountsAreExact, LimitsHold, HeldBy, HeldFor
<1> QED
  BY <1>1, Invariance, PTL

\* Both: the counts of the policy are right and keep the limits, for every path
\* of a handshake, a connection and a shutdown.
THEOREM AdmissionIsKept == Spec => []AdmissionHolds
  BY CountsStayExact, LimitsAreKept, PTL DEF AdmissionHolds

\* One task at a time closes a session that was open.
THEOREM OneAttemptAtATime == Spec => []OneAttempt
<1>1. ASSUME Inv PROVE OneAttempt
  <2> SUFFICES ASSUME NEW s \in Session, decided[s] PROVE Cardinality(queued[s]) + calls[s] <= 1
    BY DEF OneAttempt
  <2>1. AttemptInv(s)
    BY <1>1 DEF Inv, SessionInv
  <2>2. Cardinality({}) = 0 /\ \A status : Cardinality({status}) = 1
    BY FS_EmptySet, FS_Singleton
  <2>3. CASE queued[s] = {} /\ calls[s] \in {0, 1}
    BY <2>2, <2>3
  <2>4. CASE calls[s] = 0 /\ \E status \in Status : queued[s] = {status}
    BY <2>2, <2>4
  <2> QED
    BY <2>1, <2>3, <2>4 DEF AttemptInv
<1> QED
  BY <1>1, Invariance, PTL

=============================================================================
