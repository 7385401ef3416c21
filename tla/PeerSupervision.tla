--------------------------- MODULE PeerSupervision ---------------------------
(***************************************************************************)
(* How long the signaling server keeps a connection: heartbeatSweep,       *)
(* expireUnjoinedSessions, markAlive, renewParticipationLease and the      *)
(* access lease of RoomAccess.java.  Time passes in ticks; the sweeps run  *)
(* with a fixed delay and up to MaxLate late, and the wall clock, by which *)
(* grants end, may be set while the monotonic clock runs on.  The rooms    *)
(* themselves are in RoomSessions, which sees a closed peer as a Drop.     *)
(***************************************************************************)
EXTENDS Integers, FiniteSets

CONSTANTS
  Peer,
  Grants,         \* [Peer -> SUBSET Nat]: when the grants of the peer end, by the
                  \* wall clock; none for a peer without BATON grants
  HeartbeatDelay, \* properties.heartbeatInterval
  Slack,          \* HEARTBEAT_SEND_SLACK_NANOS
  JoinDelay,      \* round.signaling.unjoined-sweep-interval
  JoinTimeout,    \* properties.unjoinedTimeout
  MaxLate,        \* the most a sweep is late
  MaxSendDelay,   \* [Peer -> Nat]: the most a ping waits for the drain task
  Prompt,         \* peers that answer a ping within MaxRtt
  MaxRtt,
  MaxSkew,        \* bound: how far the wall clock is off
  MaxTime,        \* bound: ticks
  MaxPeers,       \* bound: peers that connect
  None

ASSUME DelayAssumption ==
  /\ HeartbeatDelay \in Nat \ {0} /\ JoinDelay \in Nat \ {0} /\ JoinTimeout \in Nat \ {0}
  /\ Slack \in 0..(HeartbeatDelay - 1)
  /\ MaxLate \in Nat /\ MaxSendDelay \in [Peer -> Nat] /\ MaxRtt \in Nat
  /\ MaxSkew \in Nat /\ MaxTime \in Nat /\ MaxPeers \in Nat
ASSUME PeerAssumption == Prompt \subseteq Peer /\ Grants \in [Peer -> SUBSET Nat]

VARIABLES
  now,        \* monotonicTicker
  skew,       \* clock.millis() is now + skew
  beatDue,    \* when the next heartbeat sweep is due
  joinDue,    \* when the next sweep of unjoined sessions is due
  conn,       \* [Peer -> {"new", "open", "gone"}]
  ended,      \* [Peer -> the close status \cup {None}]
  heartbeat,  \* [Peer -> heartbeatState]
  phaseStart, \* [Peer -> heartbeatPhaseStartedAtNanos \cup {None}]
  expected,   \* [Peer -> Nat \cup {None}]: expectedPongPayload, challenges numbered
  asked,      \* [Peer -> Nat]: challenges the peer was sent so far
  sent,       \* [Peer -> Nat]: when the last ping went out
  heard,      \* [Peer -> Nat]: when the peer last proved to be there
  joined,     \* [Peer -> BOOLEAN]: roomId # null
  unjoinedSince, \* [Peer -> Nat \cup {None}]: unjoinedSinceNanos
  outside,    \* [Peer -> Nat]: since when the peer is outside of a room, 0 inside
  lease       \* [Peer -> accessLease \cup {None}]: None has no deadline

clockVars == <<now, skew, beatDue, joinDue>>
beatVars == <<heartbeat, phaseStart, expected, asked, sent, heard>>
joinVars == <<joined, unjoinedSince, outside>>
vars == <<clockVars, conn, ended, beatVars, joinVars, lease>>

Wall == now + skew
Beat == {"READY", "PING_QUEUED", "AWAITING_PONG"}
Ending == {"heartbeat", "join", "expired", "left"}
Lease == [deadline : Nat, start : Nat, duration : Nat]
ASSUME NoneAssumption == None \notin Nat /\ None \notin Ending /\ None \notin Lease
Open == {p \in Peer : conn[p] = "open"}

TypeOK ==
  /\ now \in 0..MaxTime /\ skew \in -MaxSkew..MaxSkew
  /\ beatDue \in Nat /\ joinDue \in Nat
  /\ conn \in [Peer -> {"new", "open", "gone"}]
  /\ ended \in [Peer -> Ending \cup {None}]
  /\ heartbeat \in [Peer -> Beat]
  /\ phaseStart \in [Peer -> Nat \cup {None}]
  /\ expected \in [Peer -> Nat \cup {None}]
  /\ asked \in [Peer -> Nat]
  /\ sent \in [Peer -> Nat]
  /\ heard \in [Peer -> Nat]
  /\ joined \in [Peer -> BOOLEAN]
  /\ unjoinedSince \in [Peer -> Nat \cup {None}]
  /\ outside \in [Peer -> Nat]
  /\ lease \in [Peer -> Lease \cup {None}]

Init ==
  /\ now = 0 /\ skew = 0
  /\ beatDue = HeartbeatDelay /\ joinDue = JoinDelay
  /\ conn = [p \in Peer |-> "new"]
  /\ ended = [p \in Peer |-> None]
  /\ heartbeat = [p \in Peer |-> "READY"]
  /\ phaseStart = [p \in Peer |-> None]
  /\ expected = [p \in Peer |-> None]
  /\ asked = [p \in Peer |-> 0]
  /\ sent = [p \in Peer |-> 0]
  /\ heard = [p \in Peer |-> 0]
  /\ joined = [p \in Peer |-> FALSE]
  /\ unjoinedSince = [p \in Peer |-> None]
  /\ outside = [p \in Peer |-> 0]
  /\ lease = [p \in Peer |-> None]

-----------------------------------------------------------------------------
(* Leases and deadlines                                                    *)

\* Fault: a clock that is set back keeps a lease alive.
IsExpiredByWallClock(l) == l # None /\ Wall >= l.deadline

\* Lease.isExpired: by either clock.
IsExpired(l) ==
  l # None /\ (Wall >= l.deadline \/ now - l.start >= l.duration)

\* Lease.until
LeaseUntil(g) ==
  [deadline |-> g, start |-> now, duration |-> IF Wall >= g THEN 0 ELSE g - Wall]

Expired == {p \in Open : IsExpired(lease[p])}

\* Fault: the deadline leaves no time for the sending of the ping.
WholePeriod == HeartbeatDelay

\* heartbeatDeadlineNanos
HeartbeatDeadline == HeartbeatDelay - Slack

ElapsedAtLeast(start, duration) == start # None /\ now - start >= duration

\* disconnectAndCloseLocked for the peers of S; a peer leaves its room.
CloseAll(S, status) ==
  /\ conn' = [p \in Peer |-> IF p \in S THEN "gone" ELSE conn[p]]
  /\ ended' = [p \in Peer |-> IF p \in S THEN status[p] ELSE ended[p]]

-----------------------------------------------------------------------------
(* The peers                                                               *)

\* connect with a grant or without one; an expired grant is refused.
Connect(p) ==
  /\ conn[p] = "new"
  /\ Cardinality({q \in Peer : conn[q] # "new"}) < MaxPeers
  /\ \/ Grants[p] = {} /\ UNCHANGED lease
     \/ \E g \in Grants[p] :
          /\ ~IsExpired(LeaseUntil(g))
          /\ lease' = [lease EXCEPT ![p] = LeaseUntil(g)]
  /\ conn' = [conn EXCEPT ![p] = "open"]
  /\ unjoinedSince' = [unjoinedSince EXCEPT ![p] = now]
  /\ outside' = [outside EXCEPT ![p] = now]
  /\ heard' = [heard EXCEPT ![p] = now]
  /\ UNCHANGED <<clockVars, ended, heartbeat, phaseStart, expected, asked, sent, joined>>

\* Any frame or renewal of a peer whose lease has expired closes it.
CloseExpired(p) ==
  /\ p \in Expired
  /\ CloseAll({p}, [q \in Peer |-> "expired"])
  /\ UNCHANGED <<clockVars, beatVars, joinVars, lease>>

Join(p) ==
  /\ p \in Open \ Expired
  /\ ~joined[p]
  /\ joined' = [joined EXCEPT ![p] = TRUE]
  /\ unjoinedSince' = [unjoinedSince EXCEPT ![p] = None]
  /\ outside' = [outside EXCEPT ![p] = 0]
  /\ UNCHANGED <<clockVars, conn, ended, beatVars, lease>>

\* Fault: a peer that has left may stay outside for ever.
LeaveWithoutRestart(p) ==
  /\ p \in Open \ Expired
  /\ joined[p]
  /\ joined' = [joined EXCEPT ![p] = FALSE]
  /\ outside' = [outside EXCEPT ![p] = now]
  /\ UNCHANGED <<clockVars, conn, ended, beatVars, unjoinedSince, lease>>

\* room.leave: removePeerFromRoom restarts the join timeout.
Leave(p) ==
  /\ p \in Open \ Expired
  /\ joined[p]
  /\ joined' = [joined EXCEPT ![p] = FALSE]
  /\ unjoinedSince' = [unjoinedSince EXCEPT ![p] = now]
  /\ outside' = [outside EXCEPT ![p] = now]
  /\ UNCHANGED <<clockVars, conn, ended, beatVars, lease>>

\* The client goes by itself.
Disconnect(p) ==
  /\ p \in Open
  /\ CloseAll({p}, [q \in Peer |-> "left"])
  /\ UNCHANGED <<clockVars, beatVars, joinVars, lease>>

\* Fault: the last renewal wins, also one with an older grant.
RenewAlways(p, g) ==
  /\ p \in Open \ Expired
  /\ joined[p] /\ lease[p] # None
  /\ lease' = [lease EXCEPT ![p] = LeaseUntil(g)]
  /\ UNCHANGED <<clockVars, conn, ended, beatVars, joinVars>>

\* renewParticipationLease with another grant of the same participant.
Renew(p, g) ==
  /\ p \in Open \ Expired
  /\ joined[p] /\ lease[p] # None
  /\ g > lease[p].deadline
  /\ lease' = [lease EXCEPT ![p] = LeaseUntil(g)]
  /\ UNCHANGED <<clockVars, conn, ended, beatVars, joinVars>>

-----------------------------------------------------------------------------
(* Heartbeats                                                              *)

\* Fault: the phase goes on from when the ping was queued.
MarkPingSendingLate(p) ==
  /\ p \in Open /\ heartbeat[p] = "PING_QUEUED"
  /\ heartbeat' = [heartbeat EXCEPT ![p] = "AWAITING_PONG"]
  /\ sent' = [sent EXCEPT ![p] = now]
  /\ UNCHANGED <<clockVars, conn, ended, phaseStart, expected, asked, heard, joinVars, lease>>

\* The drain task takes the ping.
MarkPingSending(p) ==
  /\ p \in Open /\ heartbeat[p] = "PING_QUEUED"
  /\ heartbeat' = [heartbeat EXCEPT ![p] = "AWAITING_PONG"]
  /\ phaseStart' = [phaseStart EXCEPT ![p] = now]
  /\ sent' = [sent EXCEPT ![p] = now]
  /\ UNCHANGED <<clockVars, conn, ended, expected, asked, heard, joinVars, lease>>

Answers(p, k) == expected[p] # None /\ k = expected[p]

\* A pong repeats any challenge the peer has received.
MarkAlive(p, k) ==
  /\ p \in Open \ Expired
  /\ k \in 1..asked[p]
  /\ k < asked[p] \/ heartbeat[p] # "PING_QUEUED"
  /\ \/ /\ Answers(p, k)
        /\ heartbeat' = [heartbeat EXCEPT ![p] = "READY"]
        /\ expected' = [expected EXCEPT ![p] = None]
     \/ /\ ~Answers(p, k)
        /\ UNCHANGED <<heartbeat, expected>>
  /\ heard' = IF k = expected[p] THEN [heard EXCEPT ![p] = now] ELSE heard
  /\ UNCHANGED <<clockVars, conn, ended, phaseStart, asked, sent, joinVars, lease>>

\* heartbeatSweep: expired peers are closed first, then those that did not
\* answer in time, and the others are asked.
HeartbeatSweep ==
  /\ now >= beatDue
  /\ beatDue' = now + HeartbeatDelay
  /\ LET ready == {p \in Open \ Expired : heartbeat[p] = "READY"}
         silent == {p \in Open \ Expired : /\ heartbeat[p] # "READY"
                                           /\ ElapsedAtLeast(phaseStart[p], HeartbeatDeadline)}
     IN /\ CloseAll(Expired \cup silent,
                    [p \in Peer |-> IF p \in silent THEN "heartbeat" ELSE "expired"])
        /\ heartbeat' = [p \in Peer |-> IF p \in ready THEN "PING_QUEUED" ELSE heartbeat[p]]
        /\ phaseStart' = [p \in Peer |-> IF p \in ready THEN now ELSE phaseStart[p]]
        /\ asked' = [p \in Peer |-> IF p \in ready THEN asked[p] + 1 ELSE asked[p]]
        /\ expected' = [p \in Peer |-> IF p \in ready THEN asked[p] + 1 ELSE expected[p]]
  /\ UNCHANGED <<now, skew, joinDue, sent, heard, joinVars, lease>>

-----------------------------------------------------------------------------
(* The other sweep and time                                                *)

\* expireUnjoinedSessions
JoinSweep ==
  /\ now >= joinDue
  /\ joinDue' = now + JoinDelay
  /\ LET late == {p \in Open \ Expired : ElapsedAtLeast(unjoinedSince[p], JoinTimeout)}
     IN CloseAll(Expired \cup late,
                 [p \in Peer |-> IF p \in late THEN "join" ELSE "expired"])
  /\ UNCHANGED <<now, skew, beatDue, beatVars, joinVars, lease>>

\* The scheduler, the drain tasks and the prompt peers keep their times.
Tick ==
  /\ now < MaxTime
  /\ now < beatDue + MaxLate /\ now < joinDue + MaxLate
  /\ \A p \in Open : heartbeat[p] = "PING_QUEUED" => now < phaseStart[p] + MaxSendDelay[p]
  /\ \A p \in Open \cap Prompt : heartbeat[p] = "AWAITING_PONG" => now < sent[p] + MaxRtt
  /\ now' = now + 1
  /\ UNCHANGED <<skew, beatDue, joinDue, conn, ended, beatVars, joinVars, lease>>

\* The wall clock is set, forwards or back; only leases are read by it.
SetClock ==
  /\ \E p \in Open : lease[p] # None
  /\ \E s \in -MaxSkew..MaxSkew : now + s >= 0 /\ skew' = s
  /\ UNCHANGED <<now, beatDue, joinDue, conn, ended, beatVars, joinVars, lease>>

-----------------------------------------------------------------------------
Next ==
  \/ \E p \in Peer :
       \/ Connect(p) \/ CloseExpired(p) \/ Disconnect(p)
       \/ Join(p) \/ Leave(p)
       \/ MarkPingSending(p)
  \/ \E p \in Peer : \E g \in Grants[p] : Renew(p, g)
  \/ \E p \in Peer : \E k \in 1..asked[p] : MarkAlive(p, k)
  \/ HeartbeatSweep
  \/ JoinSweep
  \/ Tick
  \/ SetClock

Spec == Init /\ [][Next]_vars
-----------------------------------------------------------------------------
(* Properties                                                              *)

\* A sweep that comes MaxLate late is followed by the next after a whole delay.
Period == HeartbeatDelay + MaxLate

\* A peer that stops answering is closed in the second sweep after its last
\* answer when its pings are sent at once, and in the third when they wait;
\* repeating an answer of before does not help it (heartbeatSweep, markAlive).
SilentPeersAreClosed ==
  \A p \in Open :
    now - heard[p] <= (IF MaxSendDelay[p] <= Slack THEN 2 ELSE 3) * Period

\* A peer that answers in less than the deadline after the ping was sent is
\* never taken for silent, however long the ping waited for the drain task.
PromptPeersStay == \A p \in Prompt : ended[p] # "heartbeat"

\* Nobody stays connected outside of a room for longer than the timeout and one
\* sweep, whether it never joined or has left.
NobodyLoiters ==
  \A p \in Open : ~joined[p] => now - outside[p] <= JoinTimeout + JoinDelay + MaxLate

\* Neither a silent peer nor one without a room overstays.
NobodyOverstays == SilentPeersAreClosed /\ NobodyLoiters

\* Only a peer that was outside for the whole timeout is closed for it: the
\* time before a join does not count against a member.
JoinTimeoutIsEarned ==
  [][\A p \in Peer : ended'[p] = "join" /\ ended[p] = None =>
       ~joined[p] /\ now - outside[p] >= JoinTimeout]_vars

\* A connection outlives its grant by one sweep at most, also when the wall
\* clock by which the grant ends is set back (Lease.isExpired).
AccessEnds ==
  \A p \in Open : lease[p] # None =>
    now <= lease[p].start + lease[p].duration + JoinDelay + MaxLate

\* When a lease ends if no clock is set from now on.
EndOf(l) == IF l.deadline - skew < l.start + l.duration THEN l.deadline - skew ELSE l.start + l.duration

\* A renewal never takes time away, although grants of two tabs may arrive in
\* any order and the wall clock may have been set since the last one.
RenewalsExtend ==
  [][\A p \in Peer : lease[p] # None /\ lease'[p] # lease[p] => EndOf(lease'[p]) > EndOf(lease[p])]_vars

=============================================================================
