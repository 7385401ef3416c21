----------------------------- MODULE RoomRefresh -----------------------------
(***************************************************************************)
(* RoomRefreshCoordinator of a room that is entered: the participation     *)
(* grant is refreshed by a timer, before the signaling is connected, and   *)
(* before new TURN credentials are asked for; a new grant extends the      *)
(* lease of the connection there is.  Every answer may come after the room *)
(* has ended or another answer has overtaken it.                           *)
(*                                                                         *)
(* The operators change the state as a value, as far as the code runs      *)
(* without waiting.  The session is ClientSession seen from here.          *)
(***************************************************************************)
EXTENDS ParticipationGrant, FiniteSets

VARIABLES
  page,     \* what BatonRoomEntryBoundary and App show, see RoomPage
  refresh,  \* the coordinator
  session   \* the session, as its snapshot and its connection show it

refreshVars == <<grant, page, refresh, session>>

Turns == {"turn 1", "turn 2"}   \* bound: refreshes of TURN at one time
MaxLeaseRetries == 2

\* told, connect and joined count grants; wall says whether TURN is due by the
\* wall clock; renewals are requests to extend the lease of connection `peer`
\* with the grant of the cookie, after `retries` failures.
NewCoordinator ==
  [active |-> TRUE, told |-> None, connect |-> None, joined |-> None, wall |-> "none",
   timers |-> {}, retries |-> 0, turn |-> [i \in Turns |-> "none"], renewals |-> {}]

\* peer numbers the connections; used and last are the grants with which this
\* one, and the last one that was in the room, were made; asked is the newest
\* grant to which the server has extended the lease, or has not been willing to;
\* missed: a newer grant came while the connection was made.
NewSession ==
  [status |-> "none", peer |-> 0, used |-> 0, last |-> 0, asked |-> 0, missed |-> FALSE]

World == [grant |-> grant, page |-> page, refresh |-> refresh, session |-> session]
Becomes(w) ==
  grant' = w.grant /\ page' = w.page /\ refresh' = w.refresh /\ session' = w.session

CanRefresh(w) == w.refresh.active

Scheduled(w, timer) == IF CanRefresh(w) THEN [w EXCEPT !.refresh.timers = @ \cup {timer}] ELSE w

\* stop
Stopped(w) == [w EXCEPT !.refresh.active = FALSE, !.refresh.timers = {}]

\* #renewSignalingLease: without a connection in the room there is nothing to do.
Renewed(w, retries) ==
  IF ~CanRefresh(w) THEN w
  ELSE IF w.session.status # "active"
       THEN [w EXCEPT !.session.missed = @ \/ w.session.used < w.grant.issued]
  ELSE [w EXCEPT !.session.missed = FALSE, !.refresh.renewals = @ \cup
          {[peer |-> w.session.peer, grant |-> w.grant.issued, retries |-> retries]}]

\* refreshOverdueTurn
Overdue(w) ==
  IF w.refresh.wall = "past" /\ CanRefresh(w)
  THEN Scheduled([w EXCEPT !.refresh.wall = "none"], "turn") ELSE w

\* The session ends: the room shows it and stops the coordinator.
SessionOver(w) == Stopped([w EXCEPT !.session.status = "over"])

-----------------------------------------------------------------------------
(* What goes on when a grant is there, or is not                           *)

\* prepareSignalingConnect is done, and the socket is made with the grant there is.
Connects(w) ==
  LET made == [w.session EXCEPT !.status = "connecting", !.used = w.grant.issued,
                                !.asked = w.grant.issued, !.missed = FALSE]
      set == [w EXCEPT !.refresh.connect = w.grant.issued]
  IN [Overdue(set) EXCEPT !.session = IF w.session.status = "preparing" THEN made ELSE @]

\* The caller of ensureFreshParticipationGrant goes on.
Proceeds(w, who) ==
  CASE who = "startup" -> [w EXCEPT !.page.startup = "turn"]
    [] who = "connect" -> Connects(w)
    [] who \in {"timer", "device"} -> w
    [] who \in Turns -> [w EXCEPT !.refresh.turn[who] = IF CanRefresh(w) THEN "load" ELSE "none"]

\* startSession fails before there is a session.
StartupFails(w) == Stopped([w EXCEPT !.page.startup = "failed"])

\* The caller gets an exception.
Fails(w, who) ==
  CASE who = "startup" -> StartupFails(w)
    [] who = "connect" ->
         IF w.session.status # "preparing" THEN w
         ELSE IF w.page.startup = "joining"
              THEN SessionOver([w EXCEPT !.page.startup = "failed"])
         ELSE [w EXCEPT !.session.status = "lost"]
    [] who \in {"timer", "device"} -> w
    [] who \in Turns -> Scheduled([w EXCEPT !.refresh.turn[who] = "none"], "turn")

\* Fault: only the timer extends the lease.
GrantedQuietly(w, who) ==
  LET told == [w EXCEPT !.refresh.told = w.grant.issued]
  IN Proceeds(IF who = "timer" /\ CanRefresh(w) /\ w.grant.issued # w.refresh.told
              THEN Scheduled(Renewed(told, 0), "grant") ELSE Scheduled(told, "grant"), who)

\* ensureFreshParticipationGrant with a grant
Granted(w, who) ==
  LET told == [w EXCEPT !.refresh.told = w.grant.issued]
      next == IF w.grant.issued # w.refresh.told THEN Renewed(told, 0) ELSE w
  IN Proceeds(IF CanRefresh(w) THEN Scheduled(next, "grant") ELSE w, who)

\* and without: a refusal ends it, another failure is tried again.
Refused(w, who) ==
  Fails([Stopped(w) EXCEPT !.grant = CloseManager(@),
                           !.page.entry = IF @ = "left" THEN @ ELSE "refused"], who)
Failed(w, who) == Fails(Scheduled(w, "grant"), who)

EnsureFresh(w, who, force) ==
  IF w.grant = None \/ ~CanRefresh(w) THEN Proceeds(w, who)
  ELSE IF w.grant.closed THEN Failed(w, who)
  ELSE IF IsFresh(w.grant, force) THEN Granted(w, who)
  ELSE [w EXCEPT !.grant = Asks(@, who)]

-----------------------------------------------------------------------------
(* Timers, requests and their answers                                      *)

Fired(timer) == [World EXCEPT !.refresh.timers = @ \ {timer}]

GrantTimer ==
  /\ "grant" \in refresh.timers
  /\ Becomes(EnsureFresh(Fired("grant"), "timer", FALSE))

\* #refreshTurnConfiguration
TurnTimer(i) ==
  /\ "turn" \in refresh.timers /\ refresh.turn[i] = "none"
  /\ Becomes(EnsureFresh([Fired("turn") EXCEPT !.refresh.turn[i] = "grant"], i, FALSE))

LeaseTimer ==
  /\ "lease" \in refresh.timers
  /\ Becomes(Renewed(Fired("lease"), refresh.retries))

\* Fault: the next refresh is scheduled whatever has happened meanwhile.
ConfiguredAnyway(w) == [w EXCEPT !.refresh.wall = "later", !.refresh.timers = @ \cup {"turn"}]

\* updateRtcConfiguration and scheduleTurnRefresh
Configured(w) ==
  IF CanRefresh(w) THEN Scheduled([w EXCEPT !.refresh.wall = "later"], "turn") ELSE w

TurnLoaded(i) ==
  /\ refresh.turn[i] = "load"
  /\ Becomes(Configured([World EXCEPT !.refresh.turn[i] = "none"]))

\* Fault: credentials that were refused are not asked for again.
TurnGivenUp(i) ==
  /\ refresh.turn[i] = "load"
  /\ Becomes([World EXCEPT !.refresh.turn[i] = "none"])

\* The request fails, or is refused for its rate.
TurnFails(i) ==
  /\ refresh.turn[i] = "load"
  /\ Becomes(Scheduled([World EXCEPT !.refresh.turn[i] = "none"], "turn"))

\* The window becomes visible, or comes online.
Wake ==
  /\ page.startup # "none" /\ Overdue(World) # World
  /\ Becomes(Overdue(World))

\* The wall clock passes the time at which TURN is due, before its timer fires.
WallPasses ==
  /\ refresh.wall = "later"
  /\ Becomes([World EXCEPT !.refresh.wall = "past"])

\* The server has extended the lease of the connection, or refused; or nobody
\* will ask again.
Settled(r) ==
  [World EXCEPT !.refresh.renewals = @ \ {r},
                !.session.asked = IF r.peer = session.peer /\ r.grant > @ THEN r.grant ELSE @]

RenewalAnswered(r) ==
  /\ r \in refresh.renewals
  /\ Becomes(Settled(r))

RenewalFails(r) ==
  /\ r \in refresh.renewals
  /\ Becomes(IF r.retries = MaxLeaseRetries \/ ~CanRefresh(World) THEN Settled(r)
             ELSE Scheduled([World EXCEPT !.refresh.renewals = @ \ {r},
                                          !.refresh.retries = r.retries + 1], "lease"))

-----------------------------------------------------------------------------
(* The session                                                             *)

\* connect, in join or in performReconnect: beforeSignalingConnect.
Prepares(w) ==
  LET preparing == [w EXCEPT !.session.status = "preparing"]
  IN IF w.grant = None
     THEN [w EXCEPT !.session.status = "connecting"]
     ELSE EnsureFresh(preparing, "connect", w.grant.issued = w.refresh.joined)

Reconnects ==
  /\ session.status = "lost"
  /\ Becomes(Prepares(World))

\* Fault: the first connection in the room is taken for the last.
JoinedFirst(w) == IF w.refresh.joined = None THEN w.refresh.connect ELSE w.refresh.joined

\* markSignalingJoined
JoinedGrant(w) == w.refresh.connect

\* The connection is in the room; join() is done, and TURN is scheduled.
Joins ==
  /\ session.status = "connecting"
  /\ LET joined == [session EXCEPT !.status = "active", !.last = session.used, !.peer = @ + 1]
         in == [World EXCEPT !.session = joined, !.refresh.joined = JoinedGrant(World)]
         first == [in EXCEPT !.page.startup = "done",
                             !.refresh.wall = IF CanRefresh(World) THEN "later" ELSE @]
     IN Becomes(IF page.startup = "joining" THEN Scheduled(first, "turn") ELSE in)

\* The connection, or the join, fails; the first failure is the last.
ConnectionFails ==
  /\ session.status = "connecting"
  /\ Becomes(IF page.startup = "joining"
             THEN SessionOver([World EXCEPT !.page.startup = "failed"])
             ELSE [World EXCEPT !.session.status = "lost"])

\* The server ends the session, or no attempt is left.
SessionEnds ==
  /\ session.status \in {"active", "lost", "connecting"} /\ page.startup = "done"
  /\ Becomes(SessionOver(World))

=============================================================================
