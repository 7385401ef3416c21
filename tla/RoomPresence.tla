---------------------------- MODULE RoomPresence ----------------------------
(***************************************************************************)
(* What a room does for the one who looks at it: the activity of the       *)
(* participants is measured while the window is visible                    *)
(* (ParticipantActivityTracker and the loop of ActiveRoom), and the screen *)
(* is kept on while the call lasts (useScreenWakeLock).  Requests are      *)
(* answered after the window was hidden, a peer replaced or the room left. *)
(***************************************************************************)
EXTENDS RoomRefresh

CONSTANT Peers

VARIABLES
  visible,   \* the document is
  sampling,  \* the peers, the tracker and the loop that asks it
  wake       \* the wake lock

presenceVars == <<visible, sampling, wake>>

-----------------------------------------------------------------------------
(* The activity of the participants                                        *)

\* conn is the state of the connection, shown that of the participant; of the
\* measurement under way: whether its generation and its loop are the current
\* ones, the peers whose statistics are awaited, and those of them replaced.
NewSampling ==
  [conn |-> [p \in Peers |-> "none"], shown |-> [p \in Peers |-> "none"],
   activity |-> {}, measure |-> None, timer |-> FALSE]

Forget(s, p) == [s EXCEPT !.activity = @ \ {p}]

\* Fault: results that are under way count.
ResetActivity(s) == [s EXCEPT !.activity = {}]

\* reset, and the loop that awaits the measurement is not the current one any more.
Reset(s) ==
  [s EXCEPT !.activity = {}, !.timer = FALSE,
            !.measure = IF @ = None THEN None ELSE [@ EXCEPT !.fresh = FALSE, !.mine = FALSE]]

\* The end of a measurement: the activity of the user, and the timer of the loop.
Measured(s) ==
  IF s.measure.waits # {} THEN s
  ELSE [s EXCEPT !.measure = None, !.timer = s.measure.mine \/ @,
                 !.activity = IF s.measure.fresh THEN @ \cup {"self"} ELSE @]

\* sample, by the loop; at an earlier measurement it returns at once.
Sample(s, measured) ==
  IF s.measure # None THEN [s EXCEPT !.timer = TRUE]
  ELSE LET forgotten == {p \in Peers : s.conn[p] = "connected"} \ measured
           started == [fresh |-> TRUE, mine |-> TRUE, waits |-> measured, old |-> {}]
       IN Measured([s EXCEPT !.timer = FALSE, !.activity = @ \ forgotten, !.measure = started])

\* Whose activity is of interest: with the quality shown everybody's, without
\* a microphone nobody's.
Samples(s) == {Sample(s, measured) : measured \in SUBSET {p \in Peers : s.conn[p] = "connected"}}

SampleTimer ==
  /\ sampling.timer
  /\ sampling' \in Samples(sampling)
  /\ UNCHANGED <<visible, wake>>

\* Is the answer about the peer there is?
Counts(m, p) == m.fresh /\ p \notin m.old /\ sampling.conn[p] = "connected"

Answered(s, p) == Measured([s EXCEPT !.measure.waits = @ \ {p}, !.measure.old = @ \ {p}])

StatsAnswered(p) ==
  /\ sampling.measure # None /\ p \in sampling.measure.waits
  /\ sampling' = Answered(IF Counts(sampling.measure, p)
                          THEN [sampling EXCEPT !.activity = @ \cup {p}] ELSE sampling, p)
  /\ UNCHANGED <<visible, wake>>

StatsFail(p) ==
  /\ sampling.measure # None /\ p \in sampling.measure.waits
  /\ sampling' = Answered(IF sampling.measure.fresh /\ p \notin sampling.measure.old
                          THEN Forget(sampling, p) ELSE sampling, p)
  /\ UNCHANGED <<visible, wake>>

\* #setPeerConnectionStatus: a connected peer that negotiates stays connected.
SetStatus(s, p, status) ==
  IF status = "negotiating" /\ s.conn[p] = "connected" THEN s
  ELSE [(IF status # "connected" THEN Forget(s, p) ELSE s) EXCEPT !.shown[p] = status]

\* onconnectionstatechange
PeerChanges(p, status) ==
  /\ sampling.conn[p] \notin {"none", status}
  /\ sampling' = SetStatus([sampling EXCEPT !.conn[p] = status], p, status)
  /\ UNCHANGED <<visible, wake>>

Negotiates(p) ==
  /\ sampling.conn[p] # "none"
  /\ sampling' = SetStatus(sampling, p, "negotiating")
  /\ UNCHANGED <<visible, wake>>

\* Another connection takes the place of the one there is, if any.
Disposed(s, p) ==
  LET m == s.measure
  IN [Forget(s, p) EXCEPT !.measure = IF m = None \/ p \notin m.waits THEN m
                                      ELSE [m EXCEPT !.old = @ \cup {p}]]

PeerReplaced(p) ==
  /\ session.status = "active"
  /\ sampling' = [Disposed(sampling, p) EXCEPT !.conn[p] = "new", !.shown[p] = "connecting"]
  /\ UNCHANGED <<visible, wake>>

\* #failPeer
PeerGivenUp(p) ==
  /\ sampling.conn[p] # "none"
  /\ sampling' = [Disposed(SetStatus(sampling, p, "failed"), p) EXCEPT !.conn[p] = "none"]
  /\ UNCHANGED <<visible, wake>>

\* The effect of the status: the loop starts, or ends with the session or the room.
Sampled(s, was, is) ==
  IF is = was THEN s
  ELSE IF is THEN (IF visible THEN Sample(s, {}) ELSE s)
  ELSE [Reset(s) EXCEPT !.conn = NewSampling.conn, !.shown = NewSampling.shown]

-----------------------------------------------------------------------------
(* The wake lock                                                           *)

\* own: the request of the effect there is; orphans: those of effects that are
\* disposed of; held: the locks that keep the screen on.
NewWake ==
  [enabled |-> FALSE, status |-> "off", lock |-> FALSE, own |-> "none", retry |-> FALSE,
   orphans |-> 0, held |-> 0]

Release(w) == IF w.lock THEN [w EXCEPT !.lock = FALSE, !.held = @ - 1] ELSE w

\* request
RequestLock(w, seen) ==
  IF w.own # "none" \/ w.lock THEN w
  ELSE IF ~seen THEN [w EXCEPT !.status = "waiting"]
  ELSE [w EXCEPT !.own = "asking", !.status = "requesting"]

\* finally
Finally(w) ==
  LET done == [w EXCEPT !.own = "none", !.retry = FALSE]
  IN IF w.retry THEN RequestLock(done, visible) ELSE done

Dispose(w) ==
  [Release(w) EXCEPT !.own = "none", !.retry = FALSE,
                     !.orphans = IF w.own = "asking" THEN @ + 1 ELSE @]

\* The effect, for a call that is on or not.
Effect(w, on) ==
  IF ~w.enabled THEN [w EXCEPT !.status = "off"]
  ELSE IF ~on THEN [w EXCEPT !.status = "waiting"]
  ELSE RequestLock(w, visible)

LockGranted ==
  /\ wake.own = "asking"
  /\ wake' = IF ~visible THEN [wake EXCEPT !.own = "giving"]
             ELSE Finally([wake EXCEPT !.lock = TRUE, !.held = @ + 1, !.status = "active"])
  /\ UNCHANGED <<visible, sampling>>

\* The system had released it already.
LockGone ==
  /\ wake.own = "asking" /\ visible
  /\ wake' = Finally([wake EXCEPT !.status = "released"])
  /\ UNCHANGED <<visible, sampling>>

LockRefused ==
  /\ wake.own # "none"
  /\ wake' = Finally([wake EXCEPT !.status = IF visible THEN "error" ELSE "waiting"])
  /\ UNCHANGED <<visible, sampling>>

LockGivenBack ==
  /\ wake.own = "giving"
  /\ wake' = Finally([wake EXCEPT !.status = "waiting"])
  /\ UNCHANGED <<visible, sampling>>

\* Fault: the lock of an effect that is gone is kept.
OrphanKept ==
  /\ wake.orphans > 0
  /\ wake' = [wake EXCEPT !.orphans = @ - 1, !.held = @ + 1]
  /\ UNCHANGED <<visible, sampling>>

\* Granted, it is released at once.
OrphanAnswered ==
  /\ wake.orphans > 0
  /\ wake' = [wake EXCEPT !.orphans = @ - 1]
  /\ UNCHANGED <<visible, sampling>>

SystemReleases ==
  /\ wake.lock
  /\ wake' = [Release(wake) EXCEPT !.status = "released"]
  /\ UNCHANGED <<visible, sampling>>

LockEffect(w, on) == Effect(Dispose(w), on)

-----------------------------------------------------------------------------
(* visibilitychange                                                        *)

Hide ==
  /\ visible /\ visible' = FALSE
  /\ sampling' = IF session.status = "active" THEN Reset(sampling) ELSE sampling
  /\ wake' = IF wake.status \in {"off", "waiting"} THEN wake
             ELSE [Release(wake) EXCEPT !.status = "waiting"]

\* Fault: a request that is under way is thought to be enough.
ShownAgain(w) == RequestLock(w, TRUE)

Returned(w) == RequestLock([w EXCEPT !.retry = w.own # "none"], TRUE)

\* The quality is shown or not, and the loop begins anew.
QualitySwitched ==
  /\ session.status = "active" /\ visible
  /\ sampling' \in Samples(Reset(sampling))
  /\ UNCHANGED <<visible, wake>>

Show(on) ==
  /\ ~visible /\ visible' = TRUE
  /\ sampling' \in IF session.status = "active" THEN Samples(Reset(sampling)) ELSE {sampling}
  /\ wake' = IF wake.enabled /\ on THEN Returned(wake) ELSE wake

=============================================================================
