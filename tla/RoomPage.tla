------------------------------ MODULE RoomPage ------------------------------
(***************************************************************************)
(* The page of a room: BatonRoomEntryBoundary asks for a grant before      *)
(* anything is shown, the preparation asks again before it lets the user   *)
(* in, ActiveRoom starts a session with TURN credentials that another      *)
(* entry may have left, and the coordinator of RoomRefresh keeps both      *)
(* fresh until the room is over.                                           *)
(***************************************************************************)
EXTENDS RoomNavigation, RoomPresence

\* Bound: how often a grant or credentials fall due, a connection is lost, a device
\* is chosen, the room is entered anew, the user presses Back or Forward, the need for a
\* confirmation changes, the window is hidden or shown, a peer changes and the
\* wake lock is switched; whether there are grants; and the history of the browser
\* when the page is loaded.
CONSTANT Scenarios

Bounded == {"due", "loss", "device", "entry", "move", "need", "look", "peer", "wake"}

\* Who waits for a grant in a room, or at all; the managers and the measurements there may be.
RoomWaiter == {"startup", "connect", "timer", "device"} \cup Turns
Waiter == {"boundary", "entry"} \cup RoomWaiter
Manager ==
  [closed : BOOLEAN, issued : Nat, fresh : BOOLEAN, step : {"none", "session", "lease"},
   waiting : Seq(Waiter)]
Measure == [fresh : BOOLEAN, mine : BOOLEAN, waits : SUBSET Peers, old : SUBSET Peers]

ASSUME RoomPageAssumption ==
  /\ None \notin Nat
  /\ None \notin Manager /\ None \notin Measure
  /\ \A s \in Scenarios :
       /\ s.managed \in BOOLEAN /\ s.left \in [Bounded -> Nat]
       /\ s.history.entries \in Seq([path : {"home", "room"}, index : Nat \cup {None}])
       /\ s.history.at \in DOMAIN s.history.entries
       /\ s.managed => s.history.entries[s.history.at].path = "room"

VARIABLE left   \* what is left of the scenario

vars == <<refreshVars, shell, presenceVars, left>>

Spend(what) == left[what] > 0 /\ left' = [left EXCEPT ![what] = @ - 1]

InRoom == page.startup # "none"

CallOn(p, s) ==
  p.startup = "done" /\ s.status \in {"active", "lost", "preparing", "connecting"}

\* The room and its coordinator leave the page.
Unmounted(w) ==
  [w EXCEPT !.page.startup = "none", !.refresh = [NewCoordinator EXCEPT !.active = FALSE],
            !.session = NewSession]

-----------------------------------------------------------------------------
(* The grant                                                               *)

\* Whoever waited for the grant goes on: authorize, authorizeBeforeEntryAction
\* or the coordinator.
GoesOn(w, who) ==
  CASE who = "boundary" -> [w EXCEPT !.page.entry = "ready"]
    [] who = "entry" -> [w EXCEPT !.page.entry = "authorized"]
    [] OTHER -> Granted(w, who)

IsRefused(w, who) ==
  IF who \in {"boundary", "entry"}
  THEN [w EXCEPT !.grant = CloseManager(@), !.page.entry = "refused"] ELSE Refused(w, who)

\* A passing failure is final for the boundary only.
IsFailed(w, who) ==
  CASE who = "boundary" ->
         [w EXCEPT !.grant = CloseManager(@), !.page.entry = "unavailable"]
    [] who = "entry" -> [w EXCEPT !.page.entry = "ready"]
    [] OTHER -> Failed(w, who)

Resumed(w, who, answer) ==
  CASE answer = "issued" -> GoesOn(w, who)
    [] answer = "refused" -> IsRefused(w, who)
    [] answer = "failed" -> IsFailed(w, who)

\* They go on one after the other, in the order in which they asked.
AllGoOn(w, waiting, answer) ==
  LET after[i \in 0..Len(waiting)] ==
        IF i = 0 THEN w ELSE Resumed(after[i - 1], waiting[i], answer)
  IN after[Len(waiting)]

Asking == grant # None /\ grant.step # "none"

SessionLoaded ==
  /\ Asking /\ grant.step = "session"
  /\ Becomes([World EXCEPT !.grant.step = "lease"])
  /\ UNCHANGED left

GrantIssued ==
  /\ Asking /\ grant.step = "lease"
  /\ Becomes(AllGoOn([World EXCEPT !.grant = Issued(@)], grant.waiting, "issued"))
  /\ UNCHANGED left

\* 401, 403 or 404
GrantRefused ==
  /\ Asking
  /\ Becomes(AllGoOn([World EXCEPT !.grant = Unanswered(@)], grant.waiting, "refused"))
  /\ UNCHANGED left

\* Any other failure, or a timeout.
GrantFails ==
  /\ Asking
  /\ Becomes(AllGoOn([World EXCEPT !.grant = Unanswered(@)], grant.waiting, "failed"))
  /\ UNCHANGED left

GrantDue ==
  /\ grant # None /\ grant.fresh
  /\ Spend("due")
  /\ Becomes([World EXCEPT !.grant.fresh = FALSE])

-----------------------------------------------------------------------------
(* The page                                                                *)

\* BatonRoomEntryBoundary anew: another manager, which asks at once.
Boundary(w) ==
  IF w.grant = None THEN [w EXCEPT !.page.entry = "ready"]
  ELSE [w EXCEPT !.grant = Asks(NewManager, "boundary"), !.page.entry = "checking"]

\* The user checks devices, or enters.
EntryAction ==
  /\ page.entry = "ready"
  /\ Becomes(IF grant = None \/ IsFresh(grant, FALSE)
             THEN [World EXCEPT !.page.entry = "authorized"]
             ELSE [World EXCEPT !.page.entry = "asking", !.grant = Asks(@, "entry")])
  /\ UNCHANGED left

\* It was a check, or beforeJoin found an old client or an old server.
StaysOutside ==
  /\ page.entry = "authorized"
  /\ Becomes([World EXCEPT !.page.entry = "ready"])
  /\ UNCHANGED left

\* The effect of ActiveRoom makes a coordinator; startSession asks for the grant.
SessionStarts(w) ==
  EnsureFresh([w EXCEPT !.page.startup = "grant", !.refresh = NewCoordinator,
                        !.session = NewSession], "startup", FALSE)

\* beforeJoin lets the user in: onJoin.
EnterRoom ==
  /\ page.entry = "authorized"
  /\ Becomes(SessionStarts([World EXCEPT !.page.entry = "room"]))
  /\ UNCHANGED left

\* startSession goes on: the session is made and joins.
SessionJoins(w) == Prepares([w EXCEPT !.page.startup = "joining"])

\* loadRtcConfiguration: credentials that are not due are used again.
ConfigurationLoaded ==
  /\ page.startup = "turn"
  /\ Becomes(SessionJoins([World EXCEPT !.page.reuse = "fresh"]))
  /\ UNCHANGED left

ConfigurationFails ==
  /\ page.startup = "turn" /\ page.reuse # "fresh"
  /\ Becomes(StartupFails(World))
  /\ UNCHANGED left

ReuseDue ==
  /\ page.reuse = "fresh" /\ Spend("due")
  /\ Becomes([World EXCEPT !.page.reuse = "due"])

\* The connection in the room is lost.
Lose ==
  /\ session.status = "active" /\ Spend("loss")
  /\ Becomes([World EXCEPT !.session.status = "lost"])

\* The user chooses another device, which needs a grant too.
ChooseDevice ==
  /\ session.status = "active" /\ Spend("device")
  /\ Becomes(EnsureFresh(World, "device", FALSE))

\* The boundary tries again.
AskAgain ==
  /\ page.entry = "unavailable" /\ Spend("entry")
  /\ Becomes(Boundary(World))

\* The boundary shows why, and the room leaves the page.
Unmount ==
  /\ page.entry = "refused" /\ InRoom
  /\ Becomes(Unmounted(World))
  /\ UNCHANGED left

-----------------------------------------------------------------------------
(* The effects of the other hooks, when the page or the session changes    *)

\* The RoomView has come or gone.
Rendered(s) ==
  IF page'.startup = "none" THEN Closed(s)
  ELSE IF InRoom THEN s ELSE [s EXCEPT !.exit = NewExit]

Attended ==
  LET on == CallOn(page', session')
      gone == Dispose(wake)
  IN /\ UNCHANGED visible
     /\ sampling' = IF page'.startup = "none" THEN NewSampling
                    ELSE Sampled(sampling, session.status = "active", session'.status = "active")
     /\ wake' = IF page'.startup = "none"
                THEN [NewWake EXCEPT !.orphans = gone.orphans, !.held = gone.held]
                ELSE IF on = CallOn(page, session) THEN wake ELSE LockEffect(wake, on)

-----------------------------------------------------------------------------
(* Leaving                                                                 *)

\* goHome; BATON is another document.
Gone(w) ==
  LET stopped == IF w.grant = None THEN None ELSE Unanswered(w.grant)
  IN Unmounted([w EXCEPT !.page.entry = "left", !.grant = CloseManager(stopped)])

Home(s) == IF grant = None THEN Navigate(Closed(s), "home") ELSE Closed(s)

\* From the boundary or the preparation, where nothing is asked.
Leave ==
  /\ page.entry # "left" /\ ~InRoom
  /\ Becomes(Gone(World)) /\ shell' = Home(shell)
  /\ UNCHANGED left

\* The room offers to enter again when it has failed, or a peer has.
ReconnectOffered ==
  \/ session.status = "over" \/ page.startup = "failed"
  \/ \E p \in Peers : sampling.shown[p] = "failed"

LeaveRoom ==
  /\ MayExit("leave")
  /\ Becomes(Gone(World)) /\ shell' = Home(shell)
  /\ UNCHANGED left

\* retryCurrentRoom
Reenter ==
  /\ MayExit("reconnect") /\ (shell.exit.action = "reconnect" \/ ReconnectOffered)
  /\ page.entry = "room" /\ Spend("entry")
  /\ Becomes(Boundary(Unmounted(World))) /\ shell' = Closed(shell)

\* LandingScreen: enterRoom, in a standalone deployment.
ChooseRoom ==
  /\ shell.path = "home" /\ grant = None /\ Spend("entry")
  /\ Becomes(Boundary(World)) /\ shell' = Navigate(shell, "room")

\* The path that is shown decides what is on the page.
Shown(s) ==
  /\ shell' = IF s.path = "home" THEN Closed(s) ELSE s
  /\ Becomes(IF s.path = shell.path THEN World
             ELSE IF s.path = "home" THEN Gone(World) ELSE Boundary(World))

\* A history.go call runs.
Traverse ==
  /\ shell.going # <<>>
  /\ Shown(Moved([shell EXCEPT !.going = Tail(@)], Head(shell.going)))
  /\ UNCHANGED left

\* The user presses Back or Forward.
Press(delta) ==
  /\ shell.at + delta \in DOMAIN shell.entries /\ grant = None /\ Spend("move")
  /\ Shown(Moved(shell, delta))

-----------------------------------------------------------------------------
Init ==
  \E s \in Scenarios :
    /\ left = s.left
    /\ shell = Loaded(s.history)
    /\ grant = IF s.managed THEN Asks(NewManager, "boundary") ELSE None
    /\ page = [entry |-> IF s.managed THEN "checking"
                         ELSE IF shell.path = "room" THEN "ready" ELSE "left",
               startup |-> "none", reuse |-> "none"]
    /\ refresh = [NewCoordinator EXCEPT !.active = FALSE]
    /\ session = NewSession
    /\ visible = TRUE /\ sampling = NewSampling /\ wake = NewWake

PageStep ==
  \/ SessionLoaded \/ GrantIssued \/ GrantRefused \/ GrantFails \/ GrantDue
  \/ EntryAction \/ StaysOutside \/ EnterRoom \/ ConfigurationLoaded \/ ConfigurationFails
  \/ ReuseDue \/ Lose \/ ChooseDevice \/ AskAgain \/ Unmount
  \/ /\ \/ GrantTimer \/ LeaseTimer \/ Wake \/ WallPasses
        \/ Reconnects \/ Joins \/ ConnectionFails \/ SessionEnds
        \/ \E i \in Turns : TurnTimer(i) \/ TurnLoaded(i) \/ TurnFails(i)
        \/ \E r \in refresh.renewals : RenewalAnswered(r) \/ RenewalFails(r)
     /\ UNCHANGED left

MoveStep ==
  \/ Leave \/ LeaveRoom \/ Reenter \/ ChooseRoom \/ Traverse
  \/ \E delta \in {-1, 1} : Press(delta)

\* Steps that change nothing but what is asked before the room is left
ExitStep ==
  \/ (CancelExit \/ ConfirmTraversal) /\ UNCHANGED left
  \/ NeedChanges /\ Spend("need")
  \/ /\ \/ RequestExit("leave")
        \/ ReconnectOffered /\ RequestExit("reconnect")
     /\ UNCHANGED left

SwitchLock ==
  /\ InRoom /\ Spend("wake")
  /\ wake' = LockEffect([wake EXCEPT !.enabled = ~@], CallOn(page, session))
  /\ UNCHANGED <<visible, sampling>>

PresenceStep ==
  \/ /\ \/ SampleTimer \/ \E p \in Peers : StatsAnswered(p) \/ StatsFail(p)
        \/ LockGranted \/ LockGone \/ LockRefused \/ LockGivenBack
        \/ OrphanAnswered \/ SystemReleases
     /\ UNCHANGED left
  \/ /\ \E p \in Peers : \/ PeerReplaced(p) \/ PeerGivenUp(p) \/ Negotiates(p)
                        \/ \E st \in {"connected", "disconnected"} : PeerChanges(p, st)
     /\ Spend("peer")
  \/ (Hide \/ Show(CallOn(page, session)) \/ QualitySwitched) /\ Spend("look")
  \/ SwitchLock

Next ==
  \/ PageStep /\ shell' = Rendered(shell) /\ Attended
  \/ MoveStep /\ Attended
  \/ ExitStep /\ UNCHANGED <<refreshVars, presenceVars>>
  \/ PresenceStep /\ UNCHANGED <<refreshVars, shell>>

Spec == Init /\ [][Next]_vars

-----------------------------------------------------------------------------
(* Properties                                                              *)

\* While a room is on, somebody will refresh the grant and somebody the TURN
\* credentials: a timer is set or an answer awaited, whoever asked last, and
\* whether the answer was a failure, came late or belonged to somebody else.
\* And the server is asked to extend the lease of the connection to the newest
\* grant, whoever got it, unless that came while the connection was made.
StaysFresh ==
  /\ session.status \in {"active", "lost", "preparing", "connecting"} /\ page.startup = "done"
     /\ refresh.active =>
       /\ grant # None => "grant" \in refresh.timers \/ grant.waiting # <<>>
       /\ "turn" \in refresh.timers \/ \E i \in Turns : refresh.turn[i] # "none"
  /\ grant # None /\ session.status = "active" /\ refresh.active =>
       \/ session.asked = grant.issued \/ session.missed
       \/ \E r \in refresh.renewals : r.peer = session.peer /\ r.grant = grant.issued
       \/ "lease" \in refresh.timers

\* A connection is not made with the grant of the last one that was in the
\* room, which the server may still have (prepareSignalingConnect).
GrantIsNew ==
  grant # None /\ session.status = "connecting" /\ refresh.active => session.used # session.last

\* A room that has ended or failed refreshes nothing any more, and a page that
\* shows no room and no preparation has closed its manager, which asks nobody.
EndsAreClean ==
  /\ session.status = "over" \/ page.startup \in {"none", "failed"} => ~refresh.active
  /\ ~refresh.active => refresh.timers = {}
  /\ page.entry \in {"refused", "unavailable", "left"} /\ grant # None =>
       grant.closed /\ ~Asking

\* Nobody leaves a room with a draft or a shared screen unless the exit was
\* confirmed, access is lost, or the traversal is to or from an entry of an
\* earlier load.  While the entries are all of this load and numbered in their
\* order (a navigation that overtakes a traversal can break that): the user who
\* has confirmed does leave, and when the browser has stopped moving, the address
\* is that of the page, however the user and the page have pulled it to and fro.
LeavingIsMeant ==
  /\ [](Numbered(shell) =>
          /\ shell.going = <<>> => shell.path = shell.entries[shell.at].path
          /\ shell.exit # None /\ shell.exit.confirmed => shell.going # <<>>)
  /\ [][(shell.exit # None /\ shell.exit.need /\ shell.exit' = None) =>
           \/ shell.exit.confirmed \/ LeaveRoom \/ Reenter \/ Unmount
           \/ None \in {shell.entries[shell.at].index, shell'.entries[shell'.at].index}]_vars

\* The screen is kept on by no other lock than the one that is shown; waiting
\* for the window or the call is what the switch says only then.  A peer is
\* shown as connected, and its activity, only while it is; nothing that was
\* measured before the window was hidden is shown after; one loop measures
\* while the window is visible, and none otherwise.
PresenceIsTrue ==
  /\ wake.held = IF wake.lock THEN 1 ELSE 0
  /\ wake.lock <=> wake.status = "active"
  /\ wake.enabled /\ visible /\ CallOn(page, session) /\ wake.status \in {"off", "waiting"} =>
       wake.own # "none" /\ wake.retry
  /\ wake.lock => wake.enabled /\ visible /\ CallOn(page, session)
  /\ \A p \in Peers : sampling.shown[p] = "connected" <=> sampling.conn[p] = "connected"
  /\ \A p \in sampling.activity \ {"self"} : sampling.conn[p] = "connected"
  /\ session.status # "active" \/ ~visible => sampling.activity = {} /\ ~sampling.timer
  /\ session.status = "active" /\ visible =>
       (sampling.timer <=> ~(sampling.measure # None /\ sampling.measure.mine))

=============================================================================
