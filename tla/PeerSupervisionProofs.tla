------------------------ MODULE PeerSupervisionProofs ------------------------
(***************************************************************************)
(* Proofs about PeerSupervision for all delays, timeouts and grants.  The  *)
(* times of the last sweeps, beatDue - HeartbeatDelay and joinDue -        *)
(* JoinDelay, carry the induction: what a sweep saw bounds what can be     *)
(* the case until the next one.                                            *)
(***************************************************************************)
EXTENDS PeerSupervision, TLAPS

LastBeat == beatDue - HeartbeatDelay
LastJoin == joinDue - JoinDelay

\* No sweep is later than MaxLate.
SweepsAreOnTime ==
  /\ 0 <= LastBeat /\ LastBeat <= now /\ now <= beatDue + MaxLate
  /\ 0 <= LastJoin /\ LastJoin <= now /\ now <= joinDue + MaxLate

\* The last sweep of unjoined sessions saw the peer outside for less than the
\* timeout.
OutsideInv(p) ==
  /\ joined[p] => unjoinedSince[p] = None
  /\ ~joined[p] => /\ unjoinedSince[p] = outside[p]
                   /\ outside[p] <= now
                   /\ LastJoin < outside[p] + JoinTimeout

\* The last sweep saw a lease that had not expired.
LeaseInv(p) == lease[p] # None => LastJoin < lease[p].start + lease[p].duration

\* What the last heartbeat sweeps saw of the peer, by the state it is in.
ReadyInv(p) == heartbeat[p] = "READY" => expected[p] = None /\ LastBeat <= heard[p]
QueuedInv(p) ==
  heartbeat[p] = "PING_QUEUED" =>
    /\ phaseStart[p] = LastBeat
    /\ LastBeat - heard[p] <= Period
    /\ now <= LastBeat + MaxSendDelay[p]
AwaitingInv(p) ==
  heartbeat[p] = "AWAITING_PONG" =>
    /\ phaseStart[p] \in Nat /\ phaseStart[p] = sent[p] /\ phaseStart[p] <= now
    /\ \/ /\ LastBeat <= phaseStart[p] /\ phaseStart[p] <= LastBeat + MaxSendDelay[p]
          /\ LastBeat - heard[p] <= Period
       \/ /\ phaseStart[p] <= LastBeat /\ MaxSendDelay[p] > Slack
          /\ LastBeat - heard[p] <= 2 * Period
BeatInv(p) == heard[p] <= now /\ ReadyInv(p) /\ QueuedInv(p) /\ AwaitingInv(p)

\* A peer that has not connected yet is as it was made.
NewInv(p) ==
  conn[p] = "new" => ~joined[p] /\ lease[p] = None /\ heartbeat[p] = "READY" /\ expected[p] = None

PeerInv(p) ==
  /\ NewInv(p)
  /\ conn[p] = "open" => OutsideInv(p) /\ LeaseInv(p) /\ BeatInv(p)

Inv == TypeOK /\ SweepsAreOnTime /\ \A p \in Peer : PeerInv(p)

USE DelayAssumption, PeerAssumption, NoneAssumption

-----------------------------------------------------------------------------
\* The variables keep their types.
LEMMA TypeInvariant == TypeOK /\ [Next]_vars => TypeOK'
<1> SUFFICES ASSUME TypeOK, [Next]_vars PROVE TypeOK'
  OBVIOUS
<1> USE DEF TypeOK, clockVars, beatVars, joinVars
<1>1. ASSUME NEW p \in Peer, Connect(p) PROVE TypeOK'
  <2>1. lease' \in [Peer -> Lease \cup {None}]
    <3>1. \A g \in Grants[p] : LeaseUntil(g) \in Lease
      BY DEF LeaseUntil, Lease, Wall
    <3> QED
      BY <1>1, <3>1 DEF Connect
  <2>2. /\ conn' = [conn EXCEPT ![p] = "open"]
        /\ unjoinedSince' = [unjoinedSince EXCEPT ![p] = now]
        /\ outside' = [outside EXCEPT ![p] = now]
        /\ heard' = [heard EXCEPT ![p] = now]
        /\ UNCHANGED <<clockVars, ended, heartbeat, phaseStart, expected, asked, sent, joined>>
    BY <1>1 DEF Connect
  <2> QED
    BY <2>1, <2>2
<1>2. ASSUME NEW p \in Peer, CloseExpired(p) PROVE TypeOK'
  BY <1>2 DEF CloseExpired, CloseAll, Ending
<1>3. ASSUME NEW p \in Peer, Disconnect(p) PROVE TypeOK'
  BY <1>3 DEF Disconnect, CloseAll, Ending
<1>4. ASSUME NEW p \in Peer, Join(p) \/ Leave(p) PROVE TypeOK'
  <2>1. joined' \in [Peer -> BOOLEAN]
    BY <1>4 DEF Join, Leave
  <2>2. unjoinedSince' \in [Peer -> Nat \cup {None}] /\ outside' \in [Peer -> Nat]
    BY <1>4 DEF Join, Leave
  <2>3. UNCHANGED <<now, skew, beatDue, joinDue, conn, ended, heartbeat, phaseStart, expected,
                    asked, sent, heard, lease>>
    BY <1>4 DEF Join, Leave
  <2> QED
    BY <2>1, <2>2, <2>3
<1>5. ASSUME NEW p \in Peer, MarkPingSending(p) PROVE TypeOK'
  BY <1>5 DEF MarkPingSending, Beat
<1>6. ASSUME NEW p \in Peer, NEW g \in Grants[p], Renew(p, g) PROVE TypeOK'
  <2>1. LeaseUntil(g) \in Lease
    BY DEF LeaseUntil, Lease, Wall
  <2> QED
    BY <1>6, <2>1 DEF Renew
<1>7. ASSUME NEW p \in Peer, NEW k \in 1..asked[p], MarkAlive(p, k) PROVE TypeOK'
  BY <1>7 DEF MarkAlive, Beat
<1>8. CASE HeartbeatSweep
  BY <1>8 DEF HeartbeatSweep, CloseAll, Ending, Beat
<1>9. CASE JoinSweep
  BY <1>9 DEF JoinSweep, CloseAll, Ending
<1>10. CASE Tick
  BY <1>10 DEF Tick
<1>11. CASE SetClock
  BY <1>11 DEF SetClock
<1>12. CASE UNCHANGED vars
  BY <1>12 DEF vars
<1> QED
  BY <1>1, <1>2, <1>3, <1>4, <1>5, <1>6, <1>7, <1>8, <1>9, <1>10, <1>11, <1>12 DEF Next

\* The sweeps stay on time.
LEMMA SweepsStayOnTime == TypeOK /\ SweepsAreOnTime /\ [Next]_vars => SweepsAreOnTime'
<1> SUFFICES ASSUME TypeOK, SweepsAreOnTime, [Next]_vars PROVE SweepsAreOnTime'
  OBVIOUS
<1> USE DEF TypeOK, SweepsAreOnTime, LastBeat, LastJoin
<1>1. CASE HeartbeatSweep
  BY <1>1 DEF HeartbeatSweep
<1>2. CASE JoinSweep
  BY <1>2 DEF JoinSweep
<1>3. CASE Tick
  BY <1>3 DEF Tick
<1>4. CASE UNCHANGED <<now, beatDue, joinDue>>
  BY <1>4
<1> QED
  BY <1>1, <1>2, <1>3, <1>4
     DEF Next, vars, clockVars, Connect, CloseExpired, Disconnect, Join, Leave, MarkPingSending,
         Renew, MarkAlive, SetClock

-----------------------------------------------------------------------------
(* Outside of a room and with a grant                                      *)

\* What the sweep of unjoined sessions has seen stays true of every peer.
LEMMA OutsideStep ==
  ASSUME TypeOK, SweepsAreOnTime, Next, NEW p \in Peer,
         NewInv(p), conn[p] = "open" => OutsideInv(p), conn'[p] = "open"
  PROVE  OutsideInv(p)'
<1> USE DEF TypeOK, SweepsAreOnTime, OutsideInv, NewInv, LastJoin
<1>1. ASSUME NEW q \in Peer, Connect(q) PROVE OutsideInv(p)'
  BY <1>1 DEF Connect, clockVars
<1>2. ASSUME NEW q \in Peer, Join(q) PROVE OutsideInv(p)'
  BY <1>2 DEF Join, clockVars
<1>3. ASSUME NEW q \in Peer, Leave(q) PROVE OutsideInv(p)'
  BY <1>3 DEF Leave, clockVars
<1>4. CASE JoinSweep
  <2>1. conn[p] = "open" /\ ~(p \in Open /\ ElapsedAtLeast(unjoinedSince[p], JoinTimeout) /\ p \notin Expired)
        /\ p \notin Expired
    BY <1>4 DEF JoinSweep, CloseAll
  <2>2. ~ElapsedAtLeast(unjoinedSince[p], JoinTimeout)
    BY <2>1 DEF Open
  <2>3. UNCHANGED <<now, joined, unjoinedSince, outside>> /\ joinDue' = now + JoinDelay
    BY <1>4 DEF JoinSweep, joinVars
  <2> QED
    BY <2>1, <2>2, <2>3 DEF ElapsedAtLeast
<1>5. CASE Tick
  BY <1>5 DEF Tick, joinVars
<1>6. CASE UNCHANGED <<now, joinDue, joined, unjoinedSince, outside>> /\ conn[p] = "open"
  BY <1>6
<1> QED
  BY <1>1, <1>2, <1>3, <1>4, <1>5, <1>6
     DEF Next, CloseExpired, Disconnect, CloseAll, MarkPingSending, Renew, MarkAlive,
         HeartbeatSweep, SetClock, clockVars, joinVars

\* What the sweep has seen of a lease stays true.
LEMMA LeaseStep ==
  ASSUME TypeOK, SweepsAreOnTime, Next, NEW p \in Peer,
         NewInv(p), conn[p] = "open" => LeaseInv(p), conn'[p] = "open"
  PROVE  LeaseInv(p)'
<1> USE DEF TypeOK, SweepsAreOnTime, LeaseInv, LastJoin
<1>1. ASSUME NEW q \in Peer, Connect(q) PROVE LeaseInv(p)'
  <2>1. ASSUME NEW g \in Grants[q], ~IsExpired(LeaseUntil(g))
        PROVE  /\ LeaseUntil(g).start = now /\ LeaseUntil(g).duration \in Nat
               /\ LeaseUntil(g).duration > 0
    <3>1. g \in Nat
      BY PeerAssumption
    <3>2. Wall \in Int /\ now \in Nat
      BY DEF Wall
    <3>3. LeaseUntil(g).start = now /\ LeaseUntil(g).deadline = g
          /\ LeaseUntil(g).duration = (IF Wall >= g THEN 0 ELSE g - Wall)
      BY DEF LeaseUntil
    <3>4. LeaseUntil(g) \in Lease
      BY <3>1, <3>2 DEF LeaseUntil, Lease
    <3>5. ~(Wall >= g)
      BY <2>1, <3>3, <3>4, NoneAssumption DEF IsExpired
    <3> QED
      BY <3>1, <3>2, <3>3, <3>5
  <2>2. UNCHANGED <<now, joinDue>> /\ (p # q => UNCHANGED lease[p])
    BY <1>1 DEF Connect, clockVars
  <2>3. CASE p # q
    BY <1>1, <2>2, <2>3 DEF Connect
  <2>4. CASE p = q /\ UNCHANGED lease
    BY <1>1, <2>2, <2>4 DEF Connect, NewInv
  <2>5. CASE p = q /\ \E g \in Grants[q] : ~IsExpired(LeaseUntil(g)) /\ lease'[q] = LeaseUntil(g)
    BY <2>1, <2>2, <2>5
  <2> QED
    BY <1>1, <2>3, <2>4, <2>5 DEF Connect
<1>2. ASSUME NEW q \in Peer, NEW g \in Grants[q], Renew(q, g) PROVE LeaseInv(p)'
  <2>1. lease[q] \in Lease /\ ~IsExpired(lease[q])
    BY <1>2 DEF Renew, Expired
  <2>2. LeaseUntil(g).start = now /\ LeaseUntil(g).duration > 0 /\ LeaseUntil(g).duration \in Nat
    <3>1. g \in Nat
      BY PeerAssumption
    <3>2. Wall \in Int /\ now \in Nat /\ lease[q].deadline \in Nat
      BY <2>1 DEF Wall, Lease
    <3>3. g > lease[q].deadline /\ ~(Wall >= lease[q].deadline)
      BY <1>2, <2>1 DEF Renew, IsExpired
    <3>4. LeaseUntil(g).start = now /\ LeaseUntil(g).duration = (IF Wall >= g THEN 0 ELSE g - Wall)
      BY DEF LeaseUntil
    <3> QED
      BY <3>1, <3>2, <3>3, <3>4
  <2> QED
    BY <1>2, <2>2 DEF Renew, clockVars
<1>3. CASE JoinSweep
  <2>1. conn[p] = "open" /\ p \notin Expired
    BY <1>3 DEF JoinSweep, CloseAll
  <2>2. lease[p] # None => now < lease[p].start + lease[p].duration
    BY <2>1 DEF Expired, IsExpired, Open, Lease
  <2> QED
    BY <1>3, <2>1, <2>2 DEF JoinSweep
<1>4. CASE UNCHANGED <<joinDue, lease>> /\ conn[p] = "open"
  BY <1>4
<1> QED
  BY <1>1, <1>2, <1>3, <1>4
     DEF Next, CloseExpired, Disconnect, CloseAll, Join, Leave, MarkPingSending, MarkAlive,
         HeartbeatSweep, Tick, SetClock, clockVars, joinVars

-----------------------------------------------------------------------------
(* Heartbeats                                                              *)

\* A heartbeat sweep either closes a peer or finds its phase young.
LEMMA BeatAtSweep ==
  ASSUME TypeOK, SweepsAreOnTime, HeartbeatSweep, NEW p \in Peer,
         conn[p] = "open" => BeatInv(p), conn'[p] = "open"
  PROVE  BeatInv(p)'
<1> DEFINE s == phaseStart[p]
           h == heard[p]
<1> USE DEF TypeOK, SweepsAreOnTime, LastBeat, Period, BeatInv, ReadyInv, QueuedInv, AwaitingInv
<1>1. /\ conn[p] = "open" /\ p \in Open \ Expired
      /\ heartbeat[p] # "READY" => ~ElapsedAtLeast(phaseStart[p], HeartbeatDeadline)
  BY DEF HeartbeatSweep, CloseAll, Open
<1>2. /\ now >= beatDue /\ beatDue' = now + HeartbeatDelay
      /\ UNCHANGED <<now, sent, heard>>
  BY DEF HeartbeatSweep
<1>3. CASE heartbeat[p] = "READY"
  <2>1. heartbeat'[p] = "PING_QUEUED" /\ phaseStart'[p] = now
    BY <1>1, <1>3 DEF HeartbeatSweep
  <2> QED
    BY <1>1, <1>2, <1>3, <2>1
<1>4. CASE heartbeat[p] = "PING_QUEUED"
  <2>1. s = LastBeat /\ s \in Int
    BY <1>1, <1>4
  <2>2. now - s < HeartbeatDelay - Slack
    BY <1>1, <1>4, <2>1 DEF ElapsedAtLeast, HeartbeatDeadline
  <2> QED
    BY <1>2, <2>1, <2>2
<1>5. CASE heartbeat[p] = "AWAITING_PONG"
  <2>1. s \in Nat /\ s = sent[p] /\ s <= now
    BY <1>1, <1>5
  <2>2. now - s < HeartbeatDelay - Slack
    BY <1>1, <1>5, <2>1 DEF ElapsedAtLeast, HeartbeatDeadline
  <2>3. heartbeat'[p] = "AWAITING_PONG" /\ phaseStart'[p] = s
    BY <1>1, <1>5 DEF HeartbeatSweep
  <2>4. LastBeat <= s /\ s <= LastBeat + MaxSendDelay[p] /\ LastBeat - h <= Period
    BY <1>1, <1>2, <1>5, <2>2
  <2>5. MaxSendDelay[p] > Slack
    BY <1>2, <2>1, <2>2, <2>4
  <2>6. now - h <= 2 * Period
    BY <2>4, <1>2
  <2> QED
    BY <1>1, <1>2, <2>1, <2>3, <2>5, <2>6
<1> QED
  BY <1>3, <1>4, <1>5 DEF Beat

\* What the heartbeat sweeps have seen stays true of every peer.
LEMMA BeatStep ==
  ASSUME TypeOK, SweepsAreOnTime, Next, NEW p \in Peer,
         NewInv(p), conn[p] = "open" => BeatInv(p), conn'[p] = "open"
  PROVE  BeatInv(p)'
<1> USE DEF TypeOK, SweepsAreOnTime, LastBeat, Period, BeatInv, ReadyInv, QueuedInv, AwaitingInv
<1>1. ASSUME NEW q \in Peer, Connect(q) PROVE BeatInv(p)'
  BY <1>1 DEF Connect, clockVars, NewInv
<1>2. ASSUME NEW q \in Peer, MarkPingSending(q) PROVE BeatInv(p)'
  BY <1>2 DEF MarkPingSending, Open, clockVars
<1>3. ASSUME NEW q \in Peer, NEW k \in 1..asked[q], MarkAlive(q, k) PROVE BeatInv(p)'
  BY <1>3 DEF MarkAlive, Answers, Open, clockVars
<1>4. CASE HeartbeatSweep
  BY <1>4, BeatAtSweep
<1>5. CASE Tick
  BY <1>5 DEF Tick, Open, beatVars
<1>6. CASE UNCHANGED <<now, beatDue, heartbeat, phaseStart, expected, sent, heard>> /\ conn[p] = "open"
  BY <1>6
<1> QED
  BY <1>1, <1>2, <1>3, <1>4, <1>5, <1>6
     DEF Next, CloseExpired, Disconnect, CloseAll, Join, Leave, Renew, JoinSweep, SetClock,
         clockVars, beatVars

\* A peer that is new has not been touched.
LEMMA NewStep ==
  ASSUME TypeOK, Next, NEW p \in Peer, NewInv(p) PROVE NewInv(p)'
<1> USE DEF TypeOK, NewInv
<1>1. ASSUME NEW q \in Peer, Connect(q) PROVE NewInv(p)'
  <2>1. conn'[p] = "new" => p # q /\ conn[p] = "new"
    BY <1>1 DEF Connect
  <2>2. p # q => lease'[p] = lease[p] /\ UNCHANGED <<joined, heartbeat, expected>>
    BY <1>1 DEF Connect
  <2> QED
    BY <2>1, <2>2
<1>2. CASE \E q \in Peer : CloseExpired(q) \/ Disconnect(q) \/ Join(q) \/ Leave(q) \/ MarkPingSending(q)
  BY <1>2 DEF CloseExpired, Disconnect, CloseAll, Join, Leave, MarkPingSending, Open, beatVars, joinVars
<1>3. CASE \E q \in Peer : (\E g \in Grants[q] : Renew(q, g)) \/ (\E k \in 1..asked[q] : MarkAlive(q, k))
  BY <1>3 DEF Renew, MarkAlive, Open, beatVars, joinVars
<1>4. CASE HeartbeatSweep \/ JoinSweep \/ Tick \/ SetClock
  BY <1>4 DEF HeartbeatSweep, JoinSweep, Tick, SetClock, CloseAll, Open, beatVars, joinVars
<1> QED
  BY <1>1, <1>2, <1>3, <1>4 DEF Next

LEMMA InvInit == Init => Inv
<1> SUFFICES ASSUME Init PROVE Inv
  OBVIOUS
<1>1. TypeOK
  BY DEF Init, TypeOK, Beat
<1>2. SweepsAreOnTime
  BY DEF Init, SweepsAreOnTime, LastBeat, LastJoin
<1>3. \A p \in Peer : PeerInv(p)
  BY DEF Init, PeerInv, NewInv
<1> QED
  BY <1>1, <1>2, <1>3 DEF Inv

LEMMA InvNext == Inv /\ [Next]_vars => Inv'
<1> SUFFICES ASSUME Inv, [Next]_vars PROVE Inv'
  OBVIOUS
<1>1. TypeOK' /\ SweepsAreOnTime'
  BY TypeInvariant, SweepsStayOnTime DEF Inv
<1>2. CASE Next
  <2> SUFFICES ASSUME NEW p \in Peer PROVE PeerInv(p)'
    BY <1>1 DEF Inv
  <2>1. TypeOK /\ SweepsAreOnTime /\ PeerInv(p)
    BY DEF Inv
  <2>2. NewInv(p)'
    BY <1>2, <2>1, NewStep DEF PeerInv
  <2>3. ASSUME conn'[p] = "open" PROVE OutsideInv(p)'
    BY <1>2, <2>1, <2>3, OutsideStep DEF PeerInv
  <2>4. ASSUME conn'[p] = "open" PROVE LeaseInv(p)'
    BY <1>2, <2>1, <2>4, LeaseStep DEF PeerInv
  <2>5. ASSUME conn'[p] = "open" PROVE BeatInv(p)'
    BY <1>2, <2>1, <2>5, BeatStep DEF PeerInv
  <2> QED
    BY <2>2, <2>3, <2>4, <2>5 DEF PeerInv
<1>3. CASE UNCHANGED vars
  BY <1>3 DEF Inv, TypeOK, SweepsAreOnTime, LastBeat, LastJoin, PeerInv, NewInv, OutsideInv, LeaseInv,
              BeatInv, ReadyInv, QueuedInv, AwaitingInv, vars, clockVars, beatVars, joinVars
<1> QED
  BY <1>2, <1>3

LEMMA Invariant == Spec => []Inv
  BY InvInit, InvNext, PTL DEF Spec

-----------------------------------------------------------------------------
(* Theorems                                                                *)

\* A peer that stops answering is gone after two periods when pings are sent
\* at once and after three in any case, whatever the delays are.
THEOREM SilenceIsShort == Spec => []SilentPeersAreClosed
<1>1. Inv => SilentPeersAreClosed
  <2> SUFFICES ASSUME Inv, NEW p \in Open
               PROVE  now - heard[p] <= (IF MaxSendDelay[p] <= Slack THEN 2 ELSE 3) * Period
    BY DEF SilentPeersAreClosed
  <2>1. p \in Peer /\ BeatInv(p) /\ heartbeat[p] \in Beat /\ heard[p] \in Nat
    BY DEF Inv, PeerInv, Open, TypeOK
  <2>2. now - LastBeat <= Period /\ now \in Int /\ LastBeat \in Int /\ Period \in Nat
    BY DEF Inv, TypeOK, SweepsAreOnTime, LastBeat, Period
  <2>3. /\ LastBeat - heard[p] <= 2 * Period
        /\ MaxSendDelay[p] <= Slack => LastBeat - heard[p] <= Period
    BY <2>1, <2>2 DEF BeatInv, ReadyInv, QueuedInv, AwaitingInv, Beat
  <2>4. CASE MaxSendDelay[p] <= Slack
    BY <2>1, <2>2, <2>3, <2>4
  <2>5. CASE ~(MaxSendDelay[p] <= Slack)
    BY <2>1, <2>2, <2>3, <2>5
  <2> QED
    BY <2>4, <2>5
<1> QED
  BY <1>1, Invariant, PTL

\* Nobody stays outside of a room, for any timeout and any delay of the sweep.
THEOREM OutsideIsShort == Spec => []NobodyLoiters
<1>1. Inv => NobodyLoiters
  <2> SUFFICES ASSUME Inv, NEW p \in Open, ~joined[p]
               PROVE  now - outside[p] <= JoinTimeout + JoinDelay + MaxLate
    BY DEF NobodyLoiters
  <2>1. p \in Peer /\ outside[p] \in Nat /\ LastJoin < outside[p] + JoinTimeout
    BY DEF Inv, PeerInv, Open, TypeOK, OutsideInv
  <2> QED
    BY <2>1 DEF Inv, TypeOK, SweepsAreOnTime, LastJoin
<1> QED
  BY <1>1, Invariant, PTL

\* Both bounds hold, whatever the delays of the sweeps and of the sends.
THEOREM StaysAreShort == Spec => []NobodyOverstays
  BY SilenceIsShort, OutsideIsShort, PTL DEF NobodyOverstays

\* A connection ends with its grant, whatever the wall clock is set to.
THEOREM GrantsBound == Spec => []AccessEnds
<1>1. Inv => AccessEnds
  <2> SUFFICES ASSUME Inv, NEW p \in Open, lease[p] # None
               PROVE  now <= lease[p].start + lease[p].duration + JoinDelay + MaxLate
    BY DEF AccessEnds
  <2>1. p \in Peer /\ lease[p] \in Lease /\ LastJoin < lease[p].start + lease[p].duration
    BY DEF Inv, PeerInv, Open, TypeOK, LeaseInv
  <2>2. lease[p].start \in Nat /\ lease[p].duration \in Nat
    BY <2>1 DEF Lease
  <2> QED
    BY <2>1, <2>2 DEF Inv, TypeOK, SweepsAreOnTime, LastJoin
<1> QED
  BY <1>1, Invariant, PTL

\* A renewal adds time by the clocks as they stand.
THEOREM RenewalsAddTime == Spec => RenewalsExtend
<1>1. Inv /\ [Next]_vars =>
        [\A p \in Peer : lease[p] # None /\ lease'[p] # lease[p] => EndOf(lease'[p]) > EndOf(lease[p])]_vars
  <2> SUFFICES ASSUME Inv, Next, NEW p \in Peer, lease[p] # None, lease'[p] # lease[p]
               PROVE  EndOf(lease'[p]) > EndOf(lease[p])
    OBVIOUS
  <2>1. conn[p] # "new" /\ TypeOK
    BY DEF Inv, PeerInv, NewInv
  <2>2. PICK g \in Grants[p] : Renew(p, g)
    <3>1. CASE \E q \in Peer : Connect(q)
      BY <2>1, <3>1 DEF Connect, TypeOK
    <3>2. CASE \E q \in Peer : CloseExpired(q) \/ Disconnect(q) \/ Join(q) \/ Leave(q) \/ MarkPingSending(q)
      BY <3>2 DEF CloseExpired, Disconnect, Join, Leave, MarkPingSending
    <3>3. CASE \E q \in Peer : \E g \in Grants[q] : Renew(q, g)
      <4>1. PICK q \in Peer : \E g \in Grants[q] : Renew(q, g)
        BY <3>3
      <4>2. q = p
        BY <2>1, <4>1 DEF Renew, TypeOK
      <4> QED
        BY <4>1, <4>2
    <3>4. CASE \E q \in Peer : \E k \in 1..asked[q] : MarkAlive(q, k)
      BY <3>4 DEF MarkAlive
    <3>5. CASE HeartbeatSweep \/ JoinSweep \/ Tick \/ SetClock
      BY <3>5 DEF HeartbeatSweep, JoinSweep, Tick, SetClock
    <3> QED
      BY <3>1, <3>2, <3>3, <3>4, <3>5 DEF Next
  <2>3. /\ lease[p] \in Lease /\ g > lease[p].deadline /\ ~(Wall >= lease[p].deadline)
        /\ lease'[p] = LeaseUntil(g)
    BY <2>1, <2>2 DEF Renew, TypeOK, Expired, IsExpired
  <2>4. /\ lease[p].deadline \in Nat /\ lease[p].start \in Nat /\ lease[p].duration \in Nat
        /\ now \in Nat /\ skew \in Int /\ g \in Nat
    <3>1. lease[p].deadline \in Nat /\ lease[p].start \in Nat /\ lease[p].duration \in Nat
      BY <2>3 DEF Lease
    <3>2. now \in Nat /\ skew \in Int
      BY <2>1 DEF TypeOK
    <3> QED
      BY <3>1, <3>2
  <2>5. /\ lease'[p].start = now /\ lease'[p].deadline = g
        /\ lease'[p].duration = (IF Wall >= g THEN 0 ELSE g - Wall)
    BY <2>3 DEF LeaseUntil
  <2>6. lease'[p].duration = g - (now + skew)
    BY <2>3, <2>4, <2>5 DEF Wall
  <2>7. EndOf(lease'[p]) = g - skew
    BY <2>4, <2>5, <2>6 DEF EndOf
  <2>8. EndOf(lease[p]) <= lease[p].deadline - skew
    BY <2>4 DEF EndOf
  <2>9. EndOf(lease[p]) \in Int
    BY <2>4 DEF EndOf
  <2> QED
    BY <2>3, <2>4, <2>7, <2>8, <2>9
<1> QED
  BY <1>1, Invariant, PTL DEF Spec, RenewalsExtend

\* Only a peer that was outside for the whole timeout is closed for it, for any
\* timeout and any delay of the sweep.
THEOREM TimeoutsAreEarned == Spec => JoinTimeoutIsEarned
<1>1. Inv /\ [Next]_vars =>
        [\A p \in Peer : ended'[p] = "join" /\ ended[p] = None =>
           ~joined[p] /\ now - outside[p] >= JoinTimeout]_vars
  <2> SUFFICES ASSUME Inv, Next, NEW p \in Peer, ended'[p] = "join", ended[p] = None
               PROVE  ~joined[p] /\ now - outside[p] >= JoinTimeout
    OBVIOUS
  <2>1. JoinSweep
    <3>1. ended'[p] # ended[p]
      BY NoneAssumption DEF Ending
    <3>2. ASSUME NEW q \in Peer, CloseExpired(q) \/ Disconnect(q) PROVE FALSE
      BY <3>1, <3>2 DEF CloseExpired, Disconnect, CloseAll
    <3>3. ~HeartbeatSweep
      BY <3>1 DEF HeartbeatSweep, CloseAll
    <3> QED
      BY <3>1, <3>2, <3>3 DEF Next, Connect, Join, Leave, MarkPingSending, Renew, MarkAlive, Tick, SetClock
  <2>2. p \in Open /\ ElapsedAtLeast(unjoinedSince[p], JoinTimeout)
    BY <2>1 DEF JoinSweep, CloseAll, Inv, TypeOK, Ending
  <2>3. OutsideInv(p)
    BY <2>2 DEF Inv, PeerInv, Open
  <2> QED
    BY <2>2, <2>3 DEF ElapsedAtLeast, OutsideInv
<1> QED
  BY <1>1, Invariant, PTL DEF Spec, JoinTimeoutIsEarned

\* The pings of a prompt peer are answered before the deadline.
Answering(p) ==
  /\ ended[p] # "heartbeat"
  /\ conn[p] = "open" /\ heartbeat[p] = "AWAITING_PONG" => now <= sent[p] + MaxRtt

\* How prompt is prompt: a ping leaves before the next sweep and its answer is
\* back before the deadline.
PromptEnough ==
  /\ \A p \in Prompt : MaxSendDelay[p] < HeartbeatDelay
  /\ MaxRtt < HeartbeatDelay - Slack

LEMMA AnsweringStep ==
  ASSUME PromptEnough, Inv, [Next]_vars, NEW p \in Prompt, Answering(p)
  PROVE  Answering(p)'
<1> USE DEF Answering
<1>1. TypeOK /\ SweepsAreOnTime /\ p \in Peer /\ PeerInv(p)
  BY DEF Inv
<1>2. CASE HeartbeatSweep
  <2>1. UNCHANGED <<now, sent>> /\ now >= beatDue
    BY <1>2 DEF HeartbeatSweep
  <2>2. ~(p \in Open /\ heartbeat[p] # "READY" /\ ElapsedAtLeast(phaseStart[p], HeartbeatDeadline))
    <3> SUFFICES ASSUME p \in Open, heartbeat[p] # "READY" PROVE ~ElapsedAtLeast(phaseStart[p], HeartbeatDeadline)
      OBVIOUS
    <3>1. BeatInv(p) /\ heartbeat[p] \in Beat
      BY <1>1 DEF PeerInv, Open, TypeOK
    <3>2. heartbeat[p] # "PING_QUEUED"
      BY <1>1, <2>1, <3>1 DEF BeatInv, QueuedInv, LastBeat, PromptEnough, TypeOK
    <3>3. phaseStart[p] \in Nat /\ phaseStart[p] = sent[p] /\ now <= sent[p] + MaxRtt
      BY <3>1, <3>2 DEF BeatInv, AwaitingInv, Beat, Open
    <3> QED
      BY <1>1, <3>3 DEF ElapsedAtLeast, HeartbeatDeadline, PromptEnough, TypeOK
  <2>3. ended'[p] # "heartbeat"
    BY <1>1, <1>2, <2>2 DEF HeartbeatSweep, CloseAll
  <2>4. conn'[p] = "open" /\ heartbeat'[p] = "AWAITING_PONG" =>
          conn[p] = "open" /\ heartbeat[p] = "AWAITING_PONG"
    BY <1>1, <1>2 DEF HeartbeatSweep, CloseAll, TypeOK
  <2> QED
    BY <2>1, <2>3, <2>4
<1>3. ASSUME NEW q \in Peer, MarkPingSending(q) PROVE Answering(p)'
  BY <1>1, <1>3 DEF MarkPingSending, TypeOK, clockVars
<1>4. CASE Tick
  BY <1>1, <1>4 DEF Tick, TypeOK, Open, beatVars
<1>5. ASSUME NEW q \in Peer, Connect(q) PROVE Answering(p)'
  BY <1>1, <1>5 DEF Connect, TypeOK, PeerInv, NewInv, clockVars
<1>6. ASSUME NEW q \in Peer, CloseExpired(q) \/ Disconnect(q) PROVE Answering(p)'
  BY <1>1, <1>6 DEF CloseExpired, Disconnect, CloseAll, TypeOK, clockVars, beatVars
<1>7. CASE JoinSweep
  BY <1>1, <1>7 DEF JoinSweep, CloseAll, TypeOK, beatVars
<1>8. ASSUME NEW q \in Peer, NEW k \in 1..asked[q], MarkAlive(q, k) PROVE Answering(p)'
  BY <1>1, <1>8 DEF MarkAlive, TypeOK, clockVars
<1>9. CASE UNCHANGED <<now, sent, heartbeat, conn, ended>>
  BY <1>9
<1> QED
  BY <1>2, <1>3, <1>4, <1>5, <1>6, <1>7, <1>8, <1>9
     DEF Next, Join, Leave, Renew, SetClock, vars, clockVars, beatVars

\* A peer that answers in time is never closed for silence, for any delays
\* under which answering in time is possible.
THEOREM PromptnessPays == ASSUME PromptEnough PROVE Spec => []PromptPeersStay
<1> DEFINE AllAnswer == \A p \in Prompt : Answering(p)
<1>1. Init => AllAnswer
  BY DEF Init, Answering, Ending
<1>2. Inv /\ AllAnswer /\ [Next]_vars => AllAnswer'
  BY AnsweringStep
<1>3. AllAnswer => PromptPeersStay
  BY DEF PromptPeersStay, Answering
<1> QED
  BY <1>1, <1>2, <1>3, Invariant, PTL DEF Spec

=============================================================================
