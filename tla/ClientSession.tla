--------------------------- MODULE ClientSession ---------------------------
(***************************************************************************)
(* A client and its place in the room: room-session.ts with               *)
(* signaling-transport.ts, signaling-recovery-lifecycle.ts and             *)
(* room-study.ts, against the room as SignalingService.java keeps it.      *)
(* PeerNegotiation has the connections to the other members and            *)
(* RoomSessions has the queues of the server, which appear here as two     *)
(* FIFOs per socket.                                                       *)
(*                                                                         *)
(* The client makes one socket after the other; the number of a socket is  *)
(* also the peer id the server gives to its connection.  A cut socket      *)
(* carries nothing any more, and each side has to notice by itself.  What  *)
(* the client gives up may still be a member of the room for a while.      *)
(*                                                                         *)
(* What a handler does behind an await runs before any other event (it is  *)
(* a microtask), except where it awaits the network or a timer: task is    *)
(* the join or the reconnection that waits there.                          *)
(***************************************************************************)
EXTENDS Integers, Sequences, FiniteSets, SequencesExt

CONSTANTS
  Scenarios,    \* bound: the sets of disturbances that happen together
  Grants,       \* SUBSET BOOLEAN: whether the participant has a BATON grant
  Others,       \* peer ids of the other members, each of which comes once
  MaxRoomSize,  \* properties.maxRoomSize
  MaxAttempts,  \* maxReconnectAttempts
  MaxStale,     \* earlier ids the client remembers
  MaxSockets,   \* bound: sockets the client makes
  None

\* The path of a socket is lost, twice; a timer fires although an answer is on
\* its way; the service restarts; another tab of the participant joins; its
\* capability is refused; the user leaves, raises and lowers a hand; the users
\* command the study.
Disturbance ==
  {"cut", "again", "early", "restart", "tab", "refusal", "leave", "raise", "lower",
   "study", "rival"}

ASSUME LimitAssumption ==
  /\ Scenarios \subseteq SUBSET Disturbance /\ Grants \subseteq BOOLEAN
  /\ MaxRoomSize \in Nat \ {0} /\ MaxAttempts \in Nat \ {0}
  /\ MaxStale \in Nat \ {0} /\ MaxSockets \in Nat \ {0}

Socket == 1..MaxSockets
\* The peer id of another tab of the participant.
Tab == 0
Peer == Socket \cup {Tab} \cup Others

ASSUME OtherAssumption ==
  /\ IsFiniteSet(Others) /\ Others \cap (Socket \cup {Tab}) = {}
  /\ None \notin Others \cup Socket
ASSUME NoneAssumption ==
  None \notin Nat /\ None \notin [revision : Nat, raised : SUBSET Peer]

VARIABLES
  me,      \* the fields of RoomSession and its parts
  gens,    \* sockets made so far: #generation
  ready,   \* [Socket -> readyState]; "closed" from when the client closes it
  cut,     \* SUBSET Socket: sockets whose path is lost
  conn,    \* [Socket -> {"none", "open", "gone"}]: the connection at the server
  up,      \* [Socket -> Seq(Message)]: on the way to the server
  down,    \* [Socket -> Seq(Message)]: on the way to the client
  room,    \* the room: its members, hand queue and study revision
  baton,   \* the participant has a BATON grant
  older,   \* SUBSET Socket: sockets that opened before the one of the other tab
  came,    \* SUBSET Others: members that have joined so far
  known,   \* SUBSET Socket: the peer ids the client has had
  spent    \* SUBSET Disturbance: what has happened, each at most once

netVars == <<gens, ready, cut, conn, up, down>>
roomVars == <<room, baton, older, came>>
vars == <<me, netVars, roomVars, known, spent>>

-----------------------------------------------------------------------------
(* The session                                                             *)

NoTask == [kind |-> "none", at |-> "none", attempt |-> 0]

\* Set.delete: an id is in the memory once at most.
Forget(stale, id) ==
  IF id \notin Range(stale) THEN stale
  ELSE RemoveAt(stale, CHOOSE i \in DOMAIN stale : stale[i] = id)

\* #rememberStaleSelfId
Remember(m) ==
  IF m.self = None \/ m.self \in Range(m.stale) THEN m
  ELSE [m EXCEPT !.stale = Append(IF Len(@) >= MaxStale THEN Tail(@) ELSE @, m.self)]

\* Fault: the queue of the last room is kept.
CleanStudyOnly(m) == [m EXCEPT !.study = None, !.command = None, !.syncing = None]
\* Fault: the study of the last room is kept.
CleanQueueOnly(m) == [m EXCEPT !.queue = None, !.command = None, !.syncing = None]

\* #cleanupPeerResources with RoomStudy.reset
Clean(m) == [m EXCEPT !.queue = None, !.study = None, !.command = None, !.syncing = None]

\* Fault: the members of the last room stay.
ResetButRoster(m) == [Clean(m) EXCEPT !.self = None]

\* #resetRoomMembershipForReconnect
Reset(m) == [Clean(m) EXCEPT !.self = None, !.roster = {}]

\* #terminate.  Of what the session awaits only beforeConnect cannot be
\* cancelled.
Terminate(m, status) ==
  [Clean(m) EXCEPT !.self = None, !.roster = {}, !.disposed = TRUE, !.watch = FALSE,
                   !.bound = None, !.status = status,
                   !.task = IF @.at = "before" THEN @ ELSE NoTask]

Attempt(n) == [kind |-> "reconnect", at |-> "before", attempt |-> n]

\* Fault: the id is forgotten.
BeginForgetful(m) ==
  [Reset(m) EXCEPT !.bound = None, !.watch = FALSE, !.status = "reconnecting",
                   !.task = Attempt(0)]

\* #beginReconnect, where the socket is gone or is being closed.
BeginReconnect(m) ==
  [Reset(Remember(m)) EXCEPT !.bound = None, !.watch = FALSE, !.status = "reconnecting",
                             !.task = Attempt(0)]

\* What becomes of a join or a reconnection attempt that failed, its socket
\* closed: #performJoin and #handleReconnectAttemptFailure, and
\* #performReconnect up to its next await.  The window of the reconnection may
\* be over before the next attempt.
AfterFailure(m, final) ==
  IF m.task.kind = "join" THEN {Terminate([m EXCEPT !.task = NoTask], "error")}
  ELSE LET failed == [Reset(m) EXCEPT !.bound = None, !.status = "reconnecting", !.task = NoTask]
           next == m.task.attempt + 1
       IN {Terminate(failed, "error")} \cup
          (IF final \/ next = MaxAttempts THEN {}
           ELSE {[failed EXCEPT !.task = [Attempt(next) EXCEPT !.at = "delay"]]})

-----------------------------------------------------------------------------
(* Sockets                                                                 *)

IsBound == me.bound # None
\* The client can send, as far as it knows.
IsOpen == IsBound /\ ready[me.bound] = "open"

\* A frame of the client, in the void after a cut.
Sent(k, u, m) == IF k \in cut \/ conn[k] # "open" THEN u ELSE [u EXCEPT ![k] = Append(@, m)]
Send(m) == up' = Sent(me.bound, up, m)

\* SignalingTransport.close: the socket is detached, what comes is not read.
CloseSocket(u) ==
  IF ~IsBound THEN UNCHANGED <<ready, down>> /\ up' = u
  ELSE /\ ready' = [ready EXCEPT ![me.bound] = "closed"]
       /\ up' = Sent(me.bound, u, [type |-> "close"])
       /\ down' = [down EXCEPT ![me.bound] = <<>>]

Spend(d) ==
  /\ \E s \in Scenarios : spent \cup {d} \subseteq s
  /\ d \notin spent
  /\ spent' = spent \cup {d}

\* A timer runs out where the path is lost, or too early.
TimesOut == IF me.bound \in cut THEN UNCHANGED spent ELSE Spend("early")

Init ==
  /\ me = [status |-> "idle", disposed |-> FALSE, task |-> NoTask, bound |-> None,
           self |-> None, stale |-> <<>>, roster |-> {}, watch |-> FALSE,
           hand |-> FALSE, queue |-> None, study |-> None, command |-> None, syncing |-> None]
  /\ gens = 0
  /\ ready = [k \in Socket |-> "none"]
  /\ cut = {}
  /\ conn = [k \in Socket |-> "none"]
  /\ up = [k \in Socket |-> <<>>]
  /\ down = [k \in Socket |-> <<>>]
  /\ room = [members |-> {}, hands |-> None, study |-> None]
  /\ baton \in Grants
  /\ older = {} /\ came = {} /\ known = {} /\ spent = {}


-----------------------------------------------------------------------------
(* Joining and reconnecting                                                *)

\* join
Join ==
  /\ me.status = "idle" /\ ~me.disposed
  /\ me' = [me EXCEPT !.status = "connecting-signal",
                      !.task = [kind |-> "join", at |-> "before", attempt |-> 0]]
  /\ UNCHANGED <<netVars, roomVars, known, spent>>

Waits(at) == me.task.at = at

\* The rest of a task that failed.
Fail(final) ==
  /\ me' \in AfterFailure(me, final)
  /\ CloseSocket(up)

\* Fault: connect does not ask whether it still may.
EndBeforeUnasked ==
  /\ Waits("before") /\ gens < MaxSockets
  /\ gens' = gens + 1
  /\ ready' = [ready EXCEPT ![gens + 1] = "connecting"]
  /\ me' = [me EXCEPT !.bound = gens + 1, !.task.at = "opening"]
  /\ UNCHANGED <<cut, conn, up, down, roomVars, known, spent>>

\* connect after beforeConnect: the session may have ended meanwhile.
EndBefore ==
  /\ Waits("before")
  /\ \/ /\ me.disposed
        /\ me' = [me EXCEPT !.task = NoTask]
        /\ UNCHANGED <<gens, ready>>
     \/ /\ ~me.disposed /\ gens < MaxSockets
        /\ gens' = gens + 1
        /\ ready' = [ready EXCEPT ![gens + 1] = "connecting"]
        /\ me' = [me EXCEPT !.bound = gens + 1, !.task.at = "opening"]
  /\ UNCHANGED <<cut, conn, up, down, roomVars, known, spent>>

\* beforeConnect throws.
RejectBefore ==
  /\ Waits("before")
  /\ IF me.disposed THEN me' = [me EXCEPT !.task = NoTask] ELSE me' \in AfterFailure(me, FALSE)
  /\ UNCHANGED <<netVars, roomVars, known, spent>>

\* The socket opens: connect returns and joinRoom sends its message.
Open ==
  /\ Waits("opening") /\ me.bound \notin cut
  /\ ready' = [ready EXCEPT ![me.bound] = "open"]
  /\ conn' = [conn EXCEPT ![me.bound] = "open"]
  /\ up' = [up EXCEPT ![me.bound] = <<[type |-> "join"]>>]
  /\ me' = [me EXCEPT !.task.at = "joining",
                      !.status = IF me.task.kind = "join" THEN "joining" ELSE @]
  /\ UNCHANGED <<gens, cut, down, roomVars, known, spent>>

\* The socket does not open, or not in time.
RejectOpening ==
  /\ Waits("opening")
  /\ Fail(FALSE)
  /\ UNCHANGED <<gens, cut, conn, roomVars, known, spent>>

\* The room does not confirm the join in time.
JoinTimer ==
  /\ Waits("joining") /\ TimesOut
  /\ Fail(FALSE)
  /\ UNCHANGED <<gens, cut, conn, roomVars, known>>

\* The delay is over, or the user is online again (retrySignalingNow).
DelayTimer ==
  /\ Waits("delay")
  /\ me' = [me EXCEPT !.task.at = "before"]
  /\ UNCHANGED <<netVars, roomVars, known, spent>>

\* leave
Leave ==
  /\ ~me.disposed
  /\ Spend("leave")
  /\ me' = Terminate(me, "ended")
  /\ CloseSocket(IF IsOpen THEN Sent(me.bound, up, [type |-> "leave"]) ELSE up)
  /\ UNCHANGED <<gens, cut, conn, roomVars, known>>

-----------------------------------------------------------------------------
(* What the client is told                                                 *)

\* A message of the socket in use; it shows that the server is there.
Take(type) ==
  /\ IsOpen /\ down[me.bound] # <<>> /\ Head(down[me.bound]).type = type
  /\ UNCHANGED <<gens, cut, conn, roomVars, spent>>
News == Head(down[me.bound])
Rest == down' = [down EXCEPT ![me.bound] = Tail(@)]
Heard == [me EXCEPT !.watch = FALSE]

\* #handleRoomJoined; the task ends.
HandleRoomJoined ==
  /\ Take("joined") /\ Rest
  /\ IF me.status \in {"joining", "reconnecting"} /\ me.self = None
     THEN LET stale == Forget(me.stale, News.id)
          IN /\ me' = [Heard EXCEPT !.stale = stale, !.self = News.id, !.status = "active",
                                    !.roster = @ \cup {News.id} \cup (News.members \ Range(stale)),
                                    !.task = NoTask]
             /\ known' = known \cup {News.id}
             /\ Send([type |-> "hand", raised |-> IF me.hand THEN TRUE ELSE None])
     ELSE me' = Heard /\ UNCHANGED <<known, up>>
  /\ UNCHANGED ready

HandlePeerJoined ==
  /\ Take("peer.joined") /\ Rest
  /\ me' = [Heard EXCEPT !.roster = IF News.id \in Range(me.stale) THEN @ ELSE @ \cup {News.id}]
  /\ UNCHANGED <<ready, up, known>>

HandlePeerLeft ==
  /\ Take("peer.left") /\ Rest
  /\ me' = [Heard EXCEPT !.roster = @ \ {News.id},
                         !.stale = Forget(@, News.id)]
  /\ UNCHANGED <<ready, up, known>>

HandleHandState ==
  /\ Take("hand.state") /\ Rest
  /\ me' = IF me.status # "active" \/ (me.queue # None /\ News.hands.revision < me.queue.revision)
           THEN Heard
           ELSE [Heard EXCEPT !.queue = News.hands, !.hand = me.self \in News.hands.raised]
  /\ UNCHANGED <<ready, up, known>>

\* RoomStudy.applyState
HandleStudyState ==
  /\ Take("study.state") /\ Rest
  /\ me' = IF me.status # "active" THEN Heard
           ELSE [Heard EXCEPT !.command = IF @ = News.id THEN None ELSE @,
                              !.study = IF @ # None /\ News.revision < @ THEN @
                                        ELSE News.revision,
                              !.syncing = IF @ = News.id THEN None ELSE @]
  /\ UNCHANGED <<ready, up, known>>

\* #handleServerError: only joins are refused here.
HandleError ==
  /\ Take("error")
  /\ IF Waits("joining")
     THEN me' \in AfterFailure(Heard, News.code = "FORBIDDEN") /\ CloseSocket(up)
     ELSE me' = Heard /\ Rest /\ UNCHANGED <<ready, up>>
  /\ UNCHANGED known

\* The close event of the socket: #handleClose and #handleSocketClose.
Closed(code) ==
  LET m == [me EXCEPT !.bound = None]
  IN \/ code = "superseded" /\ me' = Terminate(m, "error")
     \/ code # "superseded" /\ m.status = "active" /\ me' = BeginReconnect(m)
     \/ code # "superseded" /\ m.status # "active" /\ me' \in AfterFailure(m, FALSE)

HandleClose ==
  /\ Take("close")
  /\ Closed(News.code)
  /\ ready' = [ready EXCEPT ![me.bound] = "closed"]
  /\ down' = [down EXCEPT ![me.bound] = <<>>]
  /\ UNCHANGED <<up, known>>

\* The browser notices that the path is lost.
NoticeCut ==
  /\ IsOpen /\ me.bound \in cut
  /\ Closed("lost")
  /\ ready' = [ready EXCEPT ![me.bound] = "closed"]
  /\ UNCHANGED <<gens, cut, conn, up, down, room, baton, older, came, known, spent>>

-----------------------------------------------------------------------------
(* Hands, the study and liveness                                           *)

Alone == UNCHANGED <<gens, ready, cut, conn, down, roomVars, known>>

\* setHandRaised
SetHandRaised(raised) ==
  /\ me.status = "active" /\ me.self # None /\ me.hand # raised
  /\ IsOpen /\ Send([type |-> "hand", raised |-> raised])
  /\ me' = [me EXCEPT !.hand = raised]
  /\ Spend(IF raised THEN "raise" ELSE "lower")
  /\ Alone

\* RoomStudy.sync.  A request that has no answer is made again after its time,
\* which only comes where the path is lost; the timer of liveness, as long and
\* set no later, has run out by then.
RequestSync ==
  /\ IsOpen /\ (me.syncing # None => me.bound \in cut /\ ~me.watch)
  /\ Send([type |-> "study", id |-> "sync", expected |-> None])

\* Fault: nobody waits for the answer.
SyncUnwatched == RequestSync /\ me' = [me EXCEPT !.syncing = "sync"]

\* syncStudy: the answer is awaited.
SyncWatched == RequestSync /\ me' = [me EXCEPT !.syncing = "sync", !.watch = TRUE]

\* Every 15 seconds, and when the window is shown.
SyncStudy ==
  /\ me.status = "active" /\ SyncWatched
  /\ Alone /\ UNCHANGED spent

\* updateStudy by a host
UpdateStudy ==
  /\ me.status = "active" /\ me.study # None /\ me.command = None
  /\ IsOpen /\ Send([type |-> "study", id |-> "update", expected |-> me.study])
  /\ me' = [me EXCEPT !.command = "update"]
  /\ Spend("study")
  /\ Alone

\* The command has no answer in time: the timer of update.
CommandTimer ==
  /\ me.command # None /\ TimesOut
  /\ IF IsOpen /\ me.syncing = None
     THEN /\ Send([type |-> "study", id |-> "sync", expected |-> None])
          /\ me' = [me EXCEPT !.command = None, !.syncing = "sync"]
     ELSE me' = [me EXCEPT !.command = None] /\ UNCHANGED up
  /\ Alone

\* #watchSignalingLiveness.  A timer that is very late asks once more; it is not
\* very late twice in a row (bound).
LivenessTimer ==
  /\ me.watch /\ me.status = "active" /\ TimesOut
  /\ \/ /\ me' = BeginReconnect(me)
        /\ CloseSocket(up)
     \/ /\ me.syncing # "again"
        /\ Send([type |-> "study", id |-> "again", expected |-> None])
        /\ me' = [me EXCEPT !.syncing = "again"]
        /\ UNCHANGED <<ready, down>>
  /\ UNCHANGED <<gens, cut, conn, roomVars, known>>

-----------------------------------------------------------------------------
(* The room                                                                *)

\* Frames for the sockets of M, which only those take that the client reads.
Tell(d, M, frames) ==
  [k \in Socket |-> IF k \in M /\ ready[k] = "open" /\ k \notin cut THEN d[k] \o frames ELSE d[k]]

HandState(h) == [type |-> "hand.state", hands |-> h]
Raised(r, k) == r.hands # None /\ k \in r.hands.raised
Lowered(h, k) == [revision |-> h.revision + 1, raised |-> h.raised \ {k}]

\* removePeerFromRoom.  An empty room forgets its hands; its study is parked and
\* may be there again when somebody joins.
Without(r, k, kept) ==
  LET left == r.members \ {k}
  IN [members |-> left,
      hands |-> IF left = {} THEN None
                ELSE IF Raised(r, k) THEN Lowered(r.hands, k) ELSE r.hands,
      study |-> IF left = {} /\ ~kept THEN None ELSE r.study]
Farewell(r, k) ==
  IF k \notin r.members THEN <<>>
  ELSE <<[type |-> "peer.left", id |-> k]>> \o
       (IF Raised(r, k) THEN <<HandState(Lowered(r.hands, k))>> ELSE <<>>)

Retained == IF room.study = None THEN {FALSE} ELSE BOOLEAN

\* A connection is over at the server, and its member leaves the room.
Drop(k) ==
  /\ conn' = [conn EXCEPT ![k] = "gone"]
  /\ up' = [up EXCEPT ![k] = <<>>]
  /\ \E kept \in Retained : room' = Without(room, k, kept)
  /\ down' = Tell(down, room.members \ {k}, Farewell(room, k))

\* The server takes a frame of connection k.
Serve(k, type) ==
  /\ conn[k] = "open" /\ up[k] # <<>> /\ Head(up[k]).type = type
  /\ UNCHANGED <<me, gens, ready, cut, baton, older, came, known>>
Frame(k) == Head(up[k])
Served(k) == up' = [up EXCEPT ![k] = Tail(@)] /\ UNCHANGED conn

ServeClose(k) == Serve(k, "close") /\ Drop(k) /\ UNCHANGED spent

\* leave, which gives up the study of a room that it leaves empty.
ServeLeave(k) ==
  /\ Serve(k, "leave") /\ Served(k)
  /\ room' = Without(room, k, FALSE)
  /\ down' = Tell(down, room.members \ {k}, Farewell(room, k))
  /\ UNCHANGED spent

\* The other connections of the participant that a join finds in the room; the
\* order of two is that in which they opened.
Same(k) == IF baton THEN room.members \cap (Socket \cup {Tab}) ELSE {}
Newer(e, k) == IF e = Tab THEN k \in older ELSE e > k

\* disconnectAndCloseLocked of a session that is replaced, or comes too late.
Supersede(d, S) == Tell(d, S, <<[type |-> "close", code |-> "superseded"]>>)
\* The room without the replaced session; it keeps its study.
Replaced(S) ==
  IF S = {} THEN room
  ELSE [Without(room, CHOOSE e \in S : TRUE, TRUE) EXCEPT !.study = room.study]
ToldReplaced(S) ==
  IF S = {} THEN down
  ELSE LET e == CHOOSE x \in S : TRUE
       IN Supersede(Tell(down, room.members \ {e}, Farewell(room, e)), S)

\* join into room r, which the replaced member has left.
Enter(k, r, d) ==
  IF Cardinality(r.members) >= MaxRoomSize
  THEN room' = r /\ down' = Tell(d, {k}, <<[type |-> "error", code |-> "ROOM_FULL"]>>)
  ELSE /\ room' = [r EXCEPT !.members = @ \cup {k}]
       /\ down' = Tell(Tell(d, {k}, <<[type |-> "joined", id |-> k, members |-> r.members]>>),
                       r.members, <<[type |-> "peer.joined", id |-> k]>>)

ServeJoin(k) ==
  /\ Serve(k, "join") /\ \A e \in Same(k) : ~Newer(e, k)
  /\ up' = [j \in Socket |-> IF j = k THEN Tail(up[k]) ELSE IF j \in Same(k) THEN <<>> ELSE up[j]]
  /\ conn' = [j \in Socket |-> IF j \in Same(k) THEN "gone" ELSE conn[j]]
  /\ Enter(k, Replaced(Same(k)), ToldReplaced(Same(k)))
  /\ UNCHANGED spent

\* A newer connection of the participant is there already.
RefuseLateJoin(k) ==
  /\ Serve(k, "join") /\ \E e \in Same(k) : Newer(e, k)
  /\ conn' = [conn EXCEPT ![k] = "gone"]
  /\ up' = [up EXCEPT ![k] = <<>>]
  /\ down' = Supersede(down, {k})
  /\ UNCHANGED <<room, spent>>

\* The capability of the client is not valid any more.
RefuseJoin(k) ==
  /\ Serve(k, "join") /\ Served(k)
  /\ Spend("refusal")
  /\ down' = Tell(down, {k}, <<[type |-> "error", code |-> "FORBIDDEN"]>>)
  /\ UNCHANGED room

\* hand
ServeHand(k) ==
  /\ Serve(k, "hand") /\ Served(k)
  /\ LET h == IF room.hands = None THEN [revision |-> 0, raised |-> {}] ELSE room.hands
         raised == Frame(k).raised
         new == CASE raised = TRUE -> h.raised \cup {k}
                  [] raised = FALSE -> h.raised \ {k}
                  [] raised = None -> h.raised
         next == IF new = h.raised THEN h ELSE [revision |-> h.revision + 1, raised |-> new]
     IN /\ room' = [room EXCEPT !.hands = next]
        /\ down' = Tell(down, IF next = h THEN {k} ELSE room.members, <<HandState(next)>>)
  /\ UNCHANGED spent

StudyState(id, revision) == [type |-> "study.state", id |-> id, revision |-> revision]

\* study
ServeStudy(k) ==
  /\ Serve(k, "study") /\ Served(k)
  /\ LET was == IF room.study = None THEN 0 ELSE room.study
         applied == Frame(k).expected = was
         revision == IF applied THEN was + 1 ELSE was
     IN /\ room' = [room EXCEPT !.study = revision]
        /\ down' = Tell(down, IF applied THEN room.members ELSE {k},
                        <<StudyState(Frame(k).id, revision)>>)
  /\ UNCHANGED spent

-----------------------------------------------------------------------------
(* The others and the network                                              *)

Elsewhere == UNCHANGED <<me, gens, ready, cut, conn, up, baton, older, known>>

\* Another member comes, goes, and commands the study.
OtherJoins(q) ==
  /\ q \notin came /\ Cardinality(room.members) < MaxRoomSize
  /\ came' = came \cup {q}
  /\ room' = [room EXCEPT !.members = @ \cup {q}]
  /\ down' = Tell(down, room.members, <<[type |-> "peer.joined", id |-> q]>>)
  /\ Elsewhere /\ UNCHANGED spent

OtherLeaves(q) ==
  /\ q \in room.members
  /\ \E kept \in Retained : room' = Without(room, q, kept)
  /\ down' = Tell(down, room.members \ {q}, Farewell(room, q))
  /\ Elsewhere /\ UNCHANGED <<came, spent>>

OtherCommands(q) ==
  /\ q \in room.members /\ room.study # None
  /\ Spend("rival")
  /\ room' = [room EXCEPT !.study = @ + 1]
  /\ down' = Tell(down, room.members, <<StudyState(None, room.study + 1)>>)
  /\ Elsewhere /\ UNCHANGED came

\* Another tab of the participant takes its place in the room.
OtherTabJoins ==
  /\ baton /\ Spend("tab")
  /\ older' = {k \in Socket : conn[k] # "none"}
  /\ conn' = [k \in Socket |-> IF k \in Same(Tab) THEN "gone" ELSE conn[k]]
  /\ up' = [k \in Socket |-> IF k \in Same(Tab) THEN <<>> ELSE up[k]]
  /\ room' = [Replaced(Same(Tab)) EXCEPT !.members = @ \cup {Tab}]
  /\ down' = ToldReplaced(Same(Tab))
  /\ UNCHANGED <<me, gens, ready, cut, baton, came, known>>

\* stop and start
Restart ==
  /\ Spend("restart")
  /\ conn' = [k \in Socket |-> IF conn[k] = "open" THEN "gone" ELSE conn[k]]
  /\ up' = [k \in Socket |-> <<>>]
  /\ room' = [members |-> {}, hands |-> None, study |-> None]
  /\ down' = Tell(down, {k \in Socket : conn[k] = "open"},
                  <<[type |-> "close", code |-> "shutdown"]>>)
  /\ UNCHANGED <<me, gens, ready, cut, baton, older, came, known>>

\* The path of an open socket is lost with all that is on it.
Cut(k) ==
  /\ ready[k] = "open" /\ conn[k] = "open" /\ k \notin cut
  /\ Spend("cut") \/ Spend("again")
  /\ cut' = cut \cup {k}
  /\ up' = [up EXCEPT ![k] = <<>>]
  /\ down' = [down EXCEPT ![k] = <<>>]
  /\ UNCHANGED <<me, gens, ready, conn, roomVars, known>>

\* The heartbeat of the server finds no answer.
ServerNotices(k) ==
  /\ k \in cut /\ conn[k] = "open"
  /\ Drop(k)
  /\ UNCHANGED <<me, gens, ready, cut, baton, older, came, known, spent>>

-----------------------------------------------------------------------------
Task == EndBefore \/ RejectBefore \/ Open \/ RejectOpening \/ JoinTimer \/ DelayTimer
Message ==
  \/ HandleRoomJoined \/ HandlePeerJoined \/ HandlePeerLeft \/ HandleHandState
  \/ HandleStudyState \/ HandleError \/ HandleClose
Server(k) ==
  \/ ServeJoin(k) \/ RefuseLateJoin(k) \/ ServeLeave(k) \/ ServeClose(k)
  \/ ServeHand(k) \/ ServeStudy(k)
  \/ ServerNotices(k)

Next ==
  \/ Task \/ Message
  \/ Join \/ Leave \/ NoticeCut
  \/ \E raised \in BOOLEAN : SetHandRaised(raised)
  \/ SyncStudy \/ UpdateStudy \/ CommandTimer \/ LivenessTimer
  \/ \E k \in Socket : Server(k) \/ RefuseJoin(k) \/ Cut(k)
  \/ \E q \in Others : OtherJoins(q) \/ OtherLeaves(q) \/ OtherCommands(q)
  \/ OtherTabJoins
  \/ Restart

\* The client runs on, its timers and the regular request of the study among
\* them, and so does the server.
Fairness ==
  /\ WF_vars(Task) /\ WF_vars(Message) /\ WF_vars(SyncStudy) /\ WF_vars(LivenessTimer)
  /\ \A k \in Socket : WF_vars(Server(k))

Spec == Init /\ [][Next]_vars /\ Fairness

-----------------------------------------------------------------------------
(* Properties                                                              *)

\* A client never shows one of its earlier selves as a member, although the
\* server still lists it after a reconnection and announces when it leaves, as
\* long as it has not had more ids than its memory holds besides its own.
NeverItself ==
  Cardinality(known) <= MaxStale + 1 => me.roster \cap (known \ {me.self}) = {}

\* Nothing is on its way between an active client and the server.
Quiet ==
  /\ me.status = "active" /\ IsOpen /\ me.bound \notin cut /\ conn[me.bound] = "open"
  /\ up[me.bound] = <<>> /\ down[me.bound] = <<>>

\* When nothing is on its way, the client is in the room and shows the members
\* the room has, but for its earlier selves, whatever it missed while it was away.
RosterAgrees ==
  Quiet =>
    me.self \in room.members /\ me.roster = room.members \ Range(me.stale)

\* So do the hand queue and its own hand.
HandsAgree ==
  Quiet =>
    me.queue = room.hands /\ (me.hand <=> me.self \in room.hands.raised)

\* And the study, once the client has asked for it.
StudyAgrees ==
  Quiet /\ me.study # None =>
    me.study = room.study /\ me.command = None

\* What the client shows is the room, without its earlier selves.
ViewAgrees == NeverItself /\ RosterAgrees /\ HandsAgree /\ StudyAgrees

\* The client has one socket at most, and a session that is over has neither a
\* socket nor a timer, however its end met what it was waiting for.
NothingIsLeft ==
  /\ \A k \in Socket : ready[k] \in {"connecting", "open"} => k = me.bound
  /\ me.disposed => me.bound = None /\ ~me.watch /\ me.task.at \in {"none", "before"}

\* In the end the session has failed or has left, or the client is in the room
\* and shows exactly its members: a path that was lost is noticed and no ghost stays.
Settles ==
  <>[](/\ me.status \in {"idle", "active", "error", "ended"}
       /\ me.status = "active" => me.roster = room.members)
=============================================================================
