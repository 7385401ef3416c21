---------------------------- MODULE RoomSessions ----------------------------
(***************************************************************************)
(* The rooms of the signaling server: SignalingService.java without its    *)
(* close attempts and reservations (ConnectionLifecycle) and with every    *)
(* outbound frame counted as one unit (OutboundDispatcher has the bytes    *)
(* and the drain tasks).                                                   *)
(*                                                                         *)
(* Every handler of the service runs under one lock.  A handler may        *)
(* enqueue frames, an enqueue may overflow a queue, an overflow closes a   *)
(* peer, a closed peer leaves its room, and the departure enqueues more    *)
(* frames.  The code runs this cascade as one FIFO work list until it is   *)
(* empty (enqueueAllLocked); here each pass of that loop is a step, "work" *)
(* is the list and "then" is what the handler does after it.  While one of *)
(* them is not empty the lock is held and no other handler can start, but  *)
(* time passes: a lease can expire between two passes.                     *)
(*                                                                         *)
(* told[c] is what the frames enqueued for c so far say, in their order:   *)
(* the roster, hand queue, study revision and call ids the client of c     *)
(* holds once its queue is delivered.                                      *)
(***************************************************************************)
EXTENDS Integers, Sequences, FiniteSets, FiniteSetsExt, Functions

CONSTANTS
  Conn,          \* WebSocket connections; the number stands for the peer id
  Room,          \* room ids
  Owner,         \* [Conn -> participants \cup {None}]: subject of the BATON grant
  Allowed,       \* [Conn -> SUBSET Room]: RoomAccess.allows
  Roles,         \* [Conn -> SUBSET Role]: the roles roleFor can resolve
  Commands,      \* the client commands this instance sends, and "lease" or
                 \* "stop" when leases can expire or the service can stop
  MaxRoomSize,   \* properties.maxRoomSize
  PeerLimit,     \* outbound frames one peer may have queued or in flight
  GlobalLimit,   \* outbound frames all peers may have queued or in flight
  MaxParked,     \* MAX_PARKED_STUDY_STATES
  MaxRevision,   \* bound: changes of one study or hand queue
  MaxCalls,      \* bound: reconnections that are given a connection id
  None

Role == {"host", "participant"}

ASSUME ConnAssumption == Conn \subseteq Nat /\ IsFiniteSet(Conn) /\ None \notin Conn
ASSUME RoomAssumption == None \notin Room
ASSUME NoneAssumption ==
  None \notin Nat /\ None \notin Role /\ None \notin [id : Nat, initiator : BOOLEAN]
ASSUME AccessAssumption ==
  /\ DOMAIN Owner = Conn
  /\ Allowed \in [Conn -> SUBSET Room]
  /\ Roles \in [Conn -> SUBSET Role]
ASSUME LimitAssumption ==
  /\ MaxRoomSize \in Nat \ {0} /\ PeerLimit \in Nat \ {0}
  /\ GlobalLimit \in Nat \ {0} /\ MaxParked \in Nat \ {0}
  /\ MaxRevision \in Nat /\ MaxCalls \in Nat

VARIABLES
  running,    \* the lifecycle flag of the service
  conn,       \* [Conn -> {"new", "open", "gone"}]: "open" is connectedPeers
  sequence,   \* nextConnectionSequence
  order,      \* [Conn -> Nat]: connectionSequence, 0 before connect
  expired,    \* [Conn -> BOOLEAN]: accessLease.isExpired
  roomOf,     \* [Conn -> Room \cup {None}]: Peer.roomId
  role,       \* [Conn -> Role \cup {None}]: Peer.role
  announced,  \* [Conn -> BOOLEAN]: Peer.announced
  members,    \* [Room -> SUBSET Conn]: rooms; an empty room has no entry
  study,      \* [Room -> Nat \cup {None}]: revision of studyStates
  hands,      \* [Room -> hand queue \cup {None}]: handQueues
  parked,     \* parkedStudyStates, "age" gives their order
  load,       \* [Conn -> Nat]: frames queued or in flight
  inFlight,   \* [Conn -> BOOLEAN]: a frame is being sent
  calls,      \* connection ids given out so far
  work,       \* the FIFO of pending outbound frames
  then,       \* what the running handler does when work is empty
  told        \* [Conn -> what the frames enqueued so far say]

peerVars == <<conn, sequence, order, expired, roomOf, role, announced>>
roomVars == <<members, study, hands, parked>>
lineVars == <<load, inFlight>>
vars == <<running, peerVars, roomVars, lineVars, calls, work, then, told>>

Hands == [rev : Nat, raised : SUBSET Conn]
Call == [id : Nat, initiator : BOOLEAN]
Told == [roster : SUBSET Conn, hands : Hands \cup {None},
         study : Nat \cup {None}, calls : [Conn -> Call \cup {None}]]
Frame ==
  [kind : {"room.joined"}, peers : SUBSET Conn]
    \cup [kind : {"peer.joined", "peer.left"}, peer : Conn]
    \cup [kind : {"hand.state"}, hands : Hands]
    \cup [kind : {"study.state"}, study : Nat]
    \cup [kind : {"peer.reconnect"}, peer : Conn, call : Call]
    \cup [kind : {"error", "relay", "moderation.media-disabled"}]
Item == [frame : Frame, to : SUBSET Conn]
Parked == [room : Room, study : Nat, retained : BOOLEAN, age : Nat]

Done == [op |-> "done"]
Continuation ==
  [op : {"done"}]
    \cup [op : {"join"}, peer : Conn, room : Room, role : Role, study : Nat \cup {None}]
    \cup [op : {"announce"}, peer : Conn]
    \cup [op : {"answer"}, peer : Conn, target : Conn, id : Nat]
    \cup [op : {"refuse"}, peer : Conn]

Blank == [roster |-> {}, hands |-> None, study |-> None, calls |-> [c \in Conn |-> None]]

TypeOK ==
  /\ running \in BOOLEAN
  /\ conn \in [Conn -> {"new", "open", "gone"}]
  /\ sequence \in Nat
  /\ order \in [Conn -> Nat]
  /\ expired \in [Conn -> BOOLEAN]
  /\ roomOf \in [Conn -> Room \cup {None}]
  /\ role \in [Conn -> Role \cup {None}]
  /\ announced \in [Conn -> BOOLEAN]
  /\ members \in [Room -> SUBSET Conn]
  /\ study \in [Room -> Nat \cup {None}]
  /\ hands \in [Room -> Hands \cup {None}]
  /\ parked \subseteq Parked
  /\ load \in [Conn -> Nat]
  /\ inFlight \in [Conn -> BOOLEAN]
  /\ calls \in Nat
  /\ work \in Seq(Item)
  /\ then \in Continuation
  /\ told \in [Conn -> Told]

Init ==
  /\ running = TRUE
  /\ conn = [c \in Conn |-> "new"]
  /\ sequence = 0
  /\ order = [c \in Conn |-> 0]
  /\ expired = [c \in Conn |-> FALSE]
  /\ roomOf = [c \in Conn |-> None]
  /\ role = [c \in Conn |-> None]
  /\ announced = [c \in Conn |-> FALSE]
  /\ members = [r \in Room |-> {}]
  /\ study = [r \in Room |-> None]
  /\ hands = [r \in Room |-> None]
  /\ parked = {}
  /\ load = [c \in Conn |-> 0]
  /\ inFlight = [c \in Conn |-> FALSE]
  /\ calls = 0
  /\ work = <<>>
  /\ then = Done
  /\ told = [c \in Conn |-> Blank]

-----------------------------------------------------------------------------
(* The lock and the outbound work list                                     *)

Idle == work = <<>> /\ then = Done

\* A client command is processed when the lock is free and the lease holds.
Serving(c) == Idle /\ conn[c] = "open" /\ ~expired[c]

Send(frame, to) == IF to = {} THEN <<>> ELSE <<[frame |-> frame, to |-> to]>>

PeerJoined(c) == [kind |-> "peer.joined", peer |-> c]
PeerLeft(c) == [kind |-> "peer.left", peer |-> c]
HandState(h) == [kind |-> "hand.state", hands |-> h]
StudyState(rev) == [kind |-> "study.state", study |-> rev]
Reconnected(c, id, initiator) ==
  [kind |-> "peer.reconnect", peer |-> c, call |-> [id |-> id, initiator |-> initiator]]
Notice(kind) == [kind |-> kind]

\* The state a client reaches from t when it applies frame f.
Tell(t, f) ==
  CASE f.kind = "room.joined" -> [Blank EXCEPT !.roster = f.peers]
    [] f.kind = "peer.joined" -> [t EXCEPT !.roster = @ \cup {f.peer}, !.calls[f.peer] = None]
    [] f.kind = "peer.left" -> [t EXCEPT !.roster = @ \ {f.peer}, !.calls[f.peer] = None]
    [] f.kind = "hand.state" -> [t EXCEPT !.hands = f.hands]
    [] f.kind = "study.state" -> [t EXCEPT !.study = f.study]
    [] f.kind = "peer.reconnect" -> [t EXCEPT !.calls[f.peer] = f.call]
    [] OTHER -> t

-----------------------------------------------------------------------------
(* Leaving a room                                                          *)

\* parkStudyLocked: lapsed entries go, the room's own entry is replaced, and
\* the oldest entry makes place when there are too many.
Park(r, rev) ==
  LET kept == {p \in parked : p.retained /\ p.room # r}
      grown == {[p EXCEPT !.age = @ + 1] : p \in kept}
                 \cup {[room |-> r, study |-> rev, retained |-> TRUE, age |-> 0]}
  IN IF Cardinality(grown) <= MaxParked THEN grown
     ELSE {p \in grown : \E q \in grown : q.age > p.age}

\* Fault: the study of an empty room is only taken out of studyStates.
ForgetRoom(r, byRequest) ==
  /\ study' = [study EXCEPT ![r] = None]
  /\ hands' = [hands EXCEPT ![r] = None]
  /\ parked' = parked

\* Fault: a request to leave keeps the study of the empty room.
KeepRoom(r, byRequest) ==
  /\ study' = IF byRequest THEN study ELSE [study EXCEPT ![r] = None]
  /\ hands' = [hands EXCEPT ![r] = None]
  /\ parked' = IF byRequest \/ study[r] = None THEN parked ELSE Park(r, study[r])

\* The last member of room r is gone; a request to leave gives the study up.
EmptyRoom(r, byRequest) ==
  /\ study' = [study EXCEPT ![r] = None]
  /\ hands' = [hands EXCEPT ![r] = None]
  /\ parked' = IF byRequest \/ study[r] = None THEN parked ELSE Park(r, study[r])

Lower(h, c) == [rev |-> h.rev + 1, raised |-> h.raised \ {c}]

\* Fault: departures are processed first, as nested calls would do.
ReportDepartureFirst(c, r, w) ==
  /\ work' = (IF announced[c] THEN Send(PeerLeft(c), members[r] \ {c}) ELSE <<>>) \o w
  /\ UNCHANGED <<study, parked, hands>>

\* Fault: the hand of a member who left is lowered without telling the others.
LowerHandSilently(c, r, w) ==
  /\ work' = w \o (IF announced[c] THEN Send(PeerLeft(c), members[r] \ {c}) ELSE <<>>)
  /\ hands' = IF hands[r] = None THEN hands ELSE [hands EXCEPT ![r] = Lower(@, c)]
  /\ UNCHANGED <<study, parked>>

\* Others stay in room r; only a member they were told about is reported.
ReportDeparture(c, r, w) ==
  LET others == members[r] \ {c}
      h == hands[r]
      hadHand == h # None /\ c \in h.raised
  IN /\ UNCHANGED <<study, parked>>
     /\ \/ /\ ~announced[c]
           /\ work' = w
           /\ UNCHANGED hands
        \/ /\ announced[c] /\ ~hadHand
           /\ work' = w \o Send(PeerLeft(c), others)
           /\ UNCHANGED hands
        \/ /\ announced[c] /\ hadHand
           /\ work' = w \o Send(PeerLeft(c), others) \o Send(HandState(Lower(h, c)), others)
           /\ hands' = [hands EXCEPT ![r] = Lower(h, c)]

\* removePeerFromRoom; w is the work list the reports are appended to.
RemovePeerFromRoom(c, w, byRequest) ==
  LET r == roomOf[c]
  IN \/ /\ r = None
        /\ work' = w
        /\ UNCHANGED <<roomVars, roomOf, role, announced, told>>
     \/ /\ r # None
        /\ roomOf' = [roomOf EXCEPT ![c] = None]
        /\ role' = [role EXCEPT ![c] = None]
        /\ announced' = [announced EXCEPT ![c] = FALSE]
        /\ members' = [members EXCEPT ![r] = @ \ {c}]
        /\ told' = [told EXCEPT ![c] = Blank]
        /\ \/ /\ members[r] = {c}
              /\ work' = w
              /\ EmptyRoom(r, byRequest)
           \/ /\ members[r] # {c}
              /\ ReportDeparture(c, r, w)

\* disconnectLocked: the queue is cleared, a frame in flight stays counted.
Disconnect(c, w) ==
  /\ conn' = [conn EXCEPT ![c] = "gone"]
  /\ load' = [load EXCEPT ![c] = IF inFlight[c] THEN 1 ELSE 0]
  /\ RemovePeerFromRoom(c, w, FALSE)
  /\ UNCHANGED <<running, sequence, order, expired, inFlight, calls>>

-----------------------------------------------------------------------------
(* One pass of enqueueAllLocked                                            *)

Total == SumFunction(load)
Releasable(c) == IF inFlight[c] THEN load[c] - 1 ELSE load[c]

\* globalPressureVictimsLocked sorts the peers it may close in this order.
Heavier(c, d) ==
  \/ Releasable(c) > Releasable(d)
  \/ /\ Releasable(c) = Releasable(d)
     /\ load[c] > load[d] \/ (load[c] = load[d] /\ order[c] < order[d])

Candidates == {c \in Conn : conn[c] = "open" /\ Releasable(c) > 0}
Victims == {c \in Candidates : \A d \in Candidates \ {c} : Heavier(c, d)}

\* The list after the frame has been handled for c.  Within one broadcast the
\* code visits the room in the order of joining, here in any order.
Without(c) ==
  LET item == Head(work)
  IN Send(item.frame, item.to \ {c}) \o Tail(work)

\* Fault: a frame for a peer that is gone stays in the list.
KeepForDisconnected(c) ==
  /\ conn[c] # "open"
  /\ UNCHANGED vars

SkipDisconnected(c) ==
  /\ conn[c] # "open"
  /\ work' = Without(c)
  /\ UNCHANGED <<running, peerVars, roomVars, lineVars, calls, told>>

CloseExpiredTarget(c) ==
  /\ conn[c] = "open" /\ expired[c]
  /\ Disconnect(c, Without(c))

CloseOverflowingTarget(c) ==
  /\ conn[c] = "open" /\ ~expired[c]
  /\ load[c] >= PeerLimit \/ (Total >= GlobalLimit /\ Candidates = {})
  /\ Disconnect(c, Without(c))

\* Under global pressure the heaviest peer is closed and the limit is looked
\* at again; when the heaviest is the target its frame is dropped.
CloseVictim(c) ==
  /\ conn[c] = "open" /\ ~expired[c]
  /\ load[c] < PeerLimit /\ Total >= GlobalLimit
  /\ \E v \in Victims : Disconnect(v, IF v = c THEN Without(c) ELSE work)

Accept(c) ==
  /\ conn[c] = "open" /\ ~expired[c]
  /\ load[c] < PeerLimit /\ Total < GlobalLimit
  /\ load' = [load EXCEPT ![c] = @ + 1]
  /\ told' = [told EXCEPT ![c] = Tell(@, Head(work).frame)]
  /\ work' = Without(c)
  /\ UNCHANGED <<running, peerVars, roomVars, inFlight, calls>>

EnqueueOne(c) ==
  /\ work # <<>>
  /\ c \in Head(work).to
  /\ \/ SkipDisconnected(c)
     \/ CloseExpiredTarget(c)
     \/ CloseOverflowingTarget(c)
     \/ CloseVictim(c)
     \/ Accept(c)
  /\ UNCHANGED then

-----------------------------------------------------------------------------
(* Joining                                                                 *)

Roommates(c) == IF roomOf[c] = None THEN {} ELSE members[roomOf[c]] \ {c}

Refusal(c) == Send(Notice("error"), {c})

\* Fault: only another connection of the same role counts as the same person.
SameRoleOnly(c, r) == {e \in members[r] : Owner[e] # None /\ Owner[e] = Owner[c] /\ Roles[e] = Roles[c]}

SameParticipant(c, r) == {e \in members[r] : Owner[e] # None /\ Owner[e] = Owner[c]}

\* The study room r has after a join: its own, else the one saved from the
\* session that was replaced, else a parked one that is still retained.
StudyOnEntry(r, saved) ==
  LET own == IF study[r] # None THEN study[r] ELSE saved
      kept == {p \in parked : p.room = r /\ p.retained}
  IN IF own = None /\ kept # {} THEN (CHOOSE p \in kept : TRUE).study ELSE own

\* join, from the restored study to the room.joined frame.
EnterRoom(c, r, as, saved) ==
  /\ study' = [study EXCEPT ![r] = StudyOnEntry(r, saved)]
  /\ parked' = {p \in parked : p.room # r}
  /\ IF Cardinality(members[r]) >= MaxRoomSize
     THEN /\ work' = Refusal(c)
          /\ then' = Done
          /\ UNCHANGED <<roomOf, role, members>>
     ELSE /\ roomOf' = [roomOf EXCEPT ![c] = r]
          /\ role' = [role EXCEPT ![c] = as]
          /\ members' = [members EXCEPT ![r] = @ \cup {c}]
          /\ work' = Send([kind |-> "room.joined", peers |-> members[r]], {c})
          /\ then' = [op |-> "announce", peer |-> c]
  /\ UNCHANGED <<running, conn, sequence, order, expired, announced, hands, lineVars, calls, told>>

\* Fault: the connection that joins last stays, however old it is.
SupersedeAny(c, r, as) ==
  \E e \in SameParticipant(c, r) :
    /\ Disconnect(e, <<>>)
    /\ then' = [op |-> "join", peer |-> c, room |-> r, role |-> as, study |-> study[r]]

\* The same participant is in the room: the newer connection stays.
Supersede(c, r, as) ==
  \E e \in SameParticipant(c, r) :
    IF order[c] < order[e]
    THEN /\ Disconnect(c, <<>>)
         /\ UNCHANGED then
    ELSE /\ Disconnect(e, <<>>)
         /\ then' = [op |-> "join", peer |-> c, room |-> r, role |-> as, study |-> study[r]]

Join(c, r, as) ==
  /\ "room.join" \in Commands
  /\ Serving(c)
  /\ roomOf[c] = None /\ r \in Allowed[c] /\ as \in Roles[c]
  /\ \/ SameParticipant(c, r) # {} /\ Supersede(c, r, as)
     \/ SameParticipant(c, r) = {} /\ EnterRoom(c, r, as, None)

\* join goes on once the departure of the replaced session is reported.
ResumeJoin ==
  /\ work = <<>> /\ then.op = "join"
  /\ \/ /\ conn[then.peer] = "open"
        /\ EnterRoom(then.peer, then.room, then.role, then.study)
     \/ /\ conn[then.peer] # "open"
        /\ then' = Done
        /\ UNCHANGED <<running, peerVars, roomVars, lineVars, calls, work, told>>

\* room.joined was accepted and its receiver is still there: tell the others.
Announce ==
  /\ work = <<>> /\ then.op = "announce"
  /\ then' = Done
  /\ LET c == then.peer
     IN \/ /\ conn[c] = "open"
           /\ announced' = [announced EXCEPT ![c] = TRUE]
           /\ work' = Send(PeerJoined(c), Roommates(c))
        \/ /\ conn[c] # "open"
           /\ UNCHANGED <<announced, work>>
  /\ UNCHANGED <<running, conn, sequence, order, expired, roomOf, role, roomVars, lineVars, calls, told>>

-----------------------------------------------------------------------------
(* The other commands of a client                                          *)

Unmoved == UNCHANGED <<running, peerVars, members, parked, lineVars, told>>

Leave(c) ==
  /\ "room.leave" \in Commands
  /\ Serving(c) /\ roomOf[c] # None
  /\ RemovePeerFromRoom(c, <<>>, TRUE)
  /\ UNCHANGED <<running, conn, sequence, order, expired, lineVars, calls, then>>

\* Every refused command answers its sender and changes nothing else.
Refuse(c) ==
  /\ "refused" \in Commands
  /\ Serving(c)
  /\ work' = Refusal(c)
  /\ UNCHANGED <<study, hands, calls, then>> /\ Unmoved

\* An offer, answer or candidate for another member.
Relay(c, d) ==
  /\ "negotiation" \in Commands
  /\ Serving(c) /\ d \in Roommates(c)
  /\ work' = Send(Notice("relay"), {d})
  /\ UNCHANGED <<study, hands, calls, then>> /\ Unmoved

Moderate(c, d) ==
  /\ "moderation" \in Commands
  /\ Serving(c) /\ d \in Roommates(c)
  /\ role[c] = "host"
  /\ work' = IF role[d] = "participant" THEN Send(Notice("moderation.media-disabled"), {d})
             ELSE Refusal(c)
  /\ UNCHANGED <<study, hands, calls, then>> /\ Unmoved

\* A fresh connection id goes to the target first, then to the sender.
Reconnect(c, d) ==
  /\ "peer.reconnect" \in Commands
  /\ Serving(c) /\ d \in Roommates(c)
  /\ \/ /\ expired[d]
        /\ Disconnect(d, <<>>)
        /\ then' = [op |-> "refuse", peer |-> c]
     \/ /\ ~expired[d] /\ calls < MaxCalls
        /\ calls' = calls + 1
        /\ work' = Send(Reconnected(c, calls + 1, c >= d), {d})
        /\ then' = [op |-> "answer", peer |-> c, target |-> d, id |-> calls + 1]
        /\ UNCHANGED <<study, hands>> /\ Unmoved

\* Fault: both sides are given the same role in the reconnection.
AnswerWithSameRole ==
  /\ work = <<>> /\ then.op = "answer"
  /\ then' = Done
  /\ LET c == then.peer
         d == then.target
     IN work' = IF conn[d] = "open" THEN Send(Reconnected(d, then.id, c >= d), {c}) ELSE <<>>
  /\ UNCHANGED <<study, hands, calls>> /\ Unmoved

AnswerReconnect ==
  /\ work = <<>> /\ then.op = "answer"
  /\ then' = Done
  /\ LET c == then.peer
         d == then.target
     IN work' = IF conn[d] = "open" THEN Send(Reconnected(d, then.id, c < d), {c}) ELSE <<>>
  /\ UNCHANGED <<study, hands, calls>> /\ Unmoved

RefuseReconnect ==
  /\ work = <<>> /\ then.op = "refuse"
  /\ then' = Done
  /\ work' = Refusal(then.peer)
  /\ UNCHANGED <<study, hands, calls>> /\ Unmoved

HandQueue(r) == IF hands[r] = None THEN [rev |-> 0, raised |-> {}] ELSE hands[r]

\* hand.set changes the queue and tells the room, or changes nothing and
\* answers the sender, as hand.request does.
SetHand(c, raised) ==
  /\ "hand" \in Commands
  /\ Serving(c) /\ roomOf[c] # None
  /\ LET r == roomOf[c]
         h == HandQueue(r)
         changed == raised # (c \in h.raised)
         next == IF ~changed THEN h
                 ELSE [rev |-> h.rev + 1,
                       raised |-> IF raised THEN h.raised \cup {c} ELSE h.raised \ {c}]
     IN /\ next.rev <= MaxRevision
        /\ hands' = [hands EXCEPT ![r] = next]
        /\ work' = Send(HandState(next), IF changed THEN members[r] ELSE {c})
  /\ UNCHANGED <<study, calls, then>> /\ Unmoved

StudyRevision(r) == IF study[r] = None THEN 0 ELSE study[r]

\* study.request
AskStudy(c) ==
  /\ "study" \in Commands
  /\ Serving(c) /\ roomOf[c] # None
  /\ study' = [study EXCEPT ![roomOf[c]] = StudyRevision(roomOf[c])]
  /\ work' = Send(StudyState(StudyRevision(roomOf[c])), {c})
  /\ UNCHANGED <<hands, calls, then>> /\ Unmoved

\* Fault: an applied command is answered like a refused one.
CommandStudyQuietly(c, expected) ==
  /\ "study" \in Commands
  /\ Serving(c) /\ roomOf[c] # None
  /\ role[c] = "host"
  /\ LET r == roomOf[c]
         rev == StudyRevision(r)
         applied == expected = rev
     IN /\ applied => rev < MaxRevision
        /\ study' = [study EXCEPT ![r] = IF applied THEN rev + 1 ELSE rev]
        /\ work' = Send(StudyState(study'[r]), {c})
  /\ UNCHANGED <<hands, calls, then>> /\ Unmoved

\* A host's command is applied to the revision it names or answered with the
\* current state.
CommandStudy(c, expected) ==
  /\ "study" \in Commands
  /\ Serving(c) /\ roomOf[c] # None
  /\ role[c] = "host"
  /\ LET r == roomOf[c]
         rev == StudyRevision(r)
         applied == expected = rev
     IN /\ applied => rev < MaxRevision
        /\ study' = [study EXCEPT ![r] = IF applied THEN rev + 1 ELSE rev]
        /\ work' = Send(StudyState(study'[r]), IF applied THEN members[r] ELSE {c})
  /\ UNCHANGED <<hands, calls, then>> /\ Unmoved

-----------------------------------------------------------------------------
(* Connections, time and the drain tasks                                   *)

Connect(c) ==
  /\ Idle /\ running
  /\ conn[c] = "new"
  /\ conn' = [conn EXCEPT ![c] = "open"]
  /\ order' = [order EXCEPT ![c] = sequence]
  /\ sequence' = sequence + 1
  /\ UNCHANGED <<running, expired, roomOf, role, announced, roomVars, lineVars, calls, work, then, told>>

\* The transport is gone, a send failed, or the server closes the peer: no
\* pong, no join in time, too many or oversized frames, an expired lease.
Drop(c) ==
  /\ Idle
  /\ conn[c] = "open"
  /\ Disconnect(c, <<>>)
  /\ UNCHANGED then

LeaseExpires(c) ==
  /\ "lease" \in Commands
  /\ Owner[c] # None /\ ~expired[c] /\ conn[c] = "open"
  /\ expired' = [expired EXCEPT ![c] = TRUE]
  /\ UNCHANGED <<running, conn, sequence, order, roomOf, role, announced, roomVars, lineVars, calls, work, then, told>>

\* PARKED_STUDY_RETENTION_NANOS has passed; the oldest entry lapses first.
RetentionElapses ==
  \E p \in parked :
    /\ p.retained
    /\ \A q \in parked : q.retained => q.age <= p.age
    /\ parked' = (parked \ {p}) \cup {[p EXCEPT !.retained = FALSE]}
    /\ UNCHANGED <<running, peerVars, members, study, hands, lineVars, calls, work, then, told>>

BeginSend(c) ==
  /\ Idle
  /\ conn[c] = "open" /\ load[c] > 0 /\ ~inFlight[c]
  /\ inFlight' = [inFlight EXCEPT ![c] = TRUE]
  /\ UNCHANGED <<running, peerVars, roomVars, load, calls, work, then, told>>

\* Fault: a frame is released although none is in flight.
EndAnySend(c) ==
  /\ Idle
  /\ inFlight' = [inFlight EXCEPT ![c] = FALSE]
  /\ load' = [load EXCEPT ![c] = @ - 1]
  /\ UNCHANGED <<running, peerVars, roomVars, calls, work, then, told>>

EndSend(c) ==
  /\ Idle
  /\ inFlight[c]
  /\ inFlight' = [inFlight EXCEPT ![c] = FALSE]
  /\ load' = [load EXCEPT ![c] = @ - 1]
  /\ UNCHANGED <<running, peerVars, roomVars, calls, work, then, told>>

Stop ==
  /\ "stop" \in Commands
  /\ Idle /\ running
  /\ running' = FALSE
  /\ conn' = [c \in Conn |-> IF conn[c] = "open" THEN "gone" ELSE conn[c]]
  /\ load' = [c \in Conn |-> IF inFlight[c] THEN 1 ELSE 0]
  /\ roomOf' = [c \in Conn |-> None]
  /\ role' = [c \in Conn |-> None]
  /\ announced' = [c \in Conn |-> FALSE]
  /\ told' = [c \in Conn |-> Blank]
  /\ members' = [r \in Room |-> {}]
  /\ study' = [r \in Room |-> None]
  /\ hands' = [r \in Room |-> None]
  /\ parked' = {}
  /\ UNCHANGED <<sequence, order, expired, inFlight, calls, work, then>>

Start ==
  /\ ~running
  /\ running' = TRUE
  /\ UNCHANGED <<peerVars, roomVars, lineVars, calls, work, then, told>>

-----------------------------------------------------------------------------
HoldingLock ==
  \/ \E c \in Conn : EnqueueOne(c)
  \/ ResumeJoin
  \/ Announce
  \/ AnswerReconnect
  \/ RefuseReconnect

Command(c) ==
  \/ \E r \in Room, as \in Role : Join(c, r, as)
  \/ Leave(c)
  \/ Refuse(c)
  \/ \E d \in Conn : Relay(c, d)
  \/ \E d \in Conn : Moderate(c, d)
  \/ \E d \in Conn : Reconnect(c, d)
  \/ \E raised \in BOOLEAN : SetHand(c, raised)
  \/ AskStudy(c)
  \/ \E expected \in 0..MaxRevision : CommandStudy(c, expected)

Next ==
  \/ HoldingLock
  \/ \E c \in Conn : Command(c)
  \/ \E c \in Conn : Connect(c)
  \/ \E c \in Conn : Drop(c)
  \/ \E c \in Conn : LeaseExpires(c)
  \/ RetentionElapses
  \/ \E c \in Conn : BeginSend(c)
  \/ \E c \in Conn : EndSend(c)
  \/ Stop
  \/ Start

\* A thread that holds the lock runs on.
Fairness == WF_vars(HoldingLock)

Spec == Init /\ [][Next]_vars /\ Fairness
-----------------------------------------------------------------------------
(* Properties                                                              *)

\* Whatever overflows, expiries and replacements a handler sets off, the
\* frames enqueued for a member add up to the room as it is: nobody is missing
\* from its roster and no ghost stays in it (join, removePeerFromRoom and the
\* FIFO of enqueueAllLocked).
RosterIsTold ==
  Idle => \A c \in Conn : roomOf[c] # None => told[c].roster = Roommates(c)

\* A member that was ever told the hand queue was last told the current one:
\* the hand lowered by a departure never overtakes an older state.
HandsAreTold ==
  Idle => \A c \in Conn : roomOf[c] # None => told[c].hands \in {None, hands[roomOf[c]]}

\* Members know who is in the room and whose hand is up.
MembersAreTold == RosterIsTold /\ HandsAreTold

\* The same for the study: no member holds a revision the room has left behind.
StudyIsTold ==
  Idle => \A c \in Conn : roomOf[c] # None => told[c].study \in {None, study[roomOf[c]]}

\* Two members agree on the connection id of their last reconnection and
\* exactly one of them makes the offer, also when both asked for it or one of
\* the two frames could not be enqueued.
CallsArePaired ==
  Idle => \A c, d \in Conn :
    c # d /\ roomOf[c] # None /\ roomOf[c] = roomOf[d] =>
      LET mine == told[c].calls[d]
          theirs == told[d].calls[c]
      IN \/ mine = None /\ theirs = None
         \/ /\ mine # None /\ theirs # None
            /\ mine.id = theirs.id
            /\ mine.initiator # theirs.initiator

\* A BATON participant is in a room through at most one connection, at every
\* point of a replacement.
OneSessionPerParticipant ==
  \A r \in Room : \A c, d \in members[r] : Owner[c] # None /\ Owner[c] = Owner[d] => c = d

\* The maps of the service agree: a member is connected and knows its room,
\* hands belong to members, a room without members keeps neither study nor
\* hands, and a study is parked only while its room is empty.
MembersAgree ==
  /\ \A c \in Conn, r \in Room : c \in members[r] <=> roomOf[c] = r
  /\ \A c \in Conn : roomOf[c] # None => conn[c] = "open" /\ role[c] # None
HandsAreOfMembers == \A r \in Room : hands[r] # None => hands[r].raised \subseteq members[r]
EmptyRoomsAreGone == \A r \in Room : members[r] = {} => study[r] = None /\ hands[r] = None
ParkedRoomsAreEmpty == \A p \in parked : members[p.room] = {}
AnnouncedAtRest == Idle => \A c \in Conn : announced[c] <=> roomOf[c] # None
RoomsAreTidy ==
  /\ MembersAgree
  /\ HandsAreOfMembers
  /\ EmptyRoomsAreGone
  /\ ParkedRoomsAreEmpty
  /\ AnnouncedAtRest

\* What a handler finds when it goes on after a cascade: the room it is about
\* to enter holds nobody of the same participant, and the only member the
\* others may not have been told about is the one it is about to announce.
ContinuationFits ==
  /\ then.op = "join" => roomOf[then.peer] = None /\ SameParticipant(then.peer, then.room) = {}
  /\ then.op = "announce" /\ conn[then.peer] = "open" => roomOf[then.peer] # None
  /\ \A c \in Conn : announced[c] => roomOf[c] # None
  /\ \A c \in Conn : roomOf[c] # None /\ ~announced[c] => then = [op |-> "announce", peer |-> c]

\* A connection is replaced in its room only by a newer one of the same
\* participant: the late join of an old tab does not throw the new one out.
OnlyNewerReplaces ==
  [][then.op # "join" /\ then'.op = "join" =>
       \A e \in Conn : roomOf[e] = then'.room /\ roomOf'[e] # then'.room =>
         Owner[e] = Owner[then'.peer] /\ order[e] < order[then'.peer]]_vars

\* The study a join into room r would find.
Remembered(r) == StudyOnEntry(r, None)

\* A study is given up only when its last member leaves on request, its
\* retention is over, newer parked studies push it out or the service stops:
\* losing or replacing the connection of a host who is alone does not lose it.
StudySurvives ==
  [][\A r \in Room :
       LET was == Remembered(r)
       IN was # None =>
            \/ Remembered(r)' \in {was, was + 1}
            \/ \E c \in Conn : members[r] = {c} /\ conn'[c] = "open" /\ members'[r] = {}
            \/ ~running'
            \/ \E p \in parked : p.room = r /\ [p EXCEPT !.retained = FALSE] \in parked'
            \/ /\ members[r] = {} /\ Cardinality(parked') = MaxParked
               /\ \E q \in parked' : q.room # r /\ q.age = 0]_vars

\* A cascade ends: the lock is free again and again.
LockIsReleased == []<>Idle

=============================================================================
