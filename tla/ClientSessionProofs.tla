------------------------ MODULE ClientSessionProofs ------------------------
(***************************************************************************)
(* Proofs about ClientSession, for any limits, other members and           *)
(* disturbances: what a session leaves behind, and that the client shows   *)
(* the room as it is when nothing is on its way.  The invariant of the     *)
(* second, ViewFits with GreetFits, says what the frames that are on the   *)
(* way will make of what the client shows.                                 *)
(***************************************************************************)
EXTENDS ClientSession, SequenceTheorems, FiniteSetTheorems, TLAPS

-----------------------------------------------------------------------------
(* The session, its task and its socket                                    *)

Fields ==
  {"status", "disposed", "task", "bound", "self", "stale", "roster", "watch", "hand", "queue",
   "study", "command", "syncing"}

\* The task of a session knows where it waits.
IsTask(task) ==
  /\ DOMAIN task = {"kind", "at", "attempt"}
  /\ task.at \in {"none", "before", "opening", "joining", "delay"}

\* A session waits for a network or a timer where it has no socket to read, and
\* for the answer of a socket where it has one; at its end it keeps nothing but
\* what it cannot cancel.
IsSession(m) ==
  /\ DOMAIN m = Fields
  /\ IsTask(m.task)
  /\ m.bound \in Socket \cup {None}
  /\ m.task.at \in {"before", "delay"} => m.bound = None
  /\ m.task.at \in {"opening", "joining"} => m.bound # None
  /\ m.status = "idle" => m.bound = None /\ m.task.at = "none"
  /\ m.disposed => m.bound = None /\ ~m.watch /\ m.task.at \in {"none", "before"}

SocketsFit ==
  /\ IsSession(me)
  /\ gens \in 0..MaxSockets
  /\ ready \in [Socket -> {"none", "connecting", "open", "closed"}]
  /\ \A k \in Socket : ready[k] \in {"connecting", "open"} => k = me.bound

\* A session that gives up its socket is one again.
LEMMA EndingsAreSessions ==
  ASSUME NEW m, DOMAIN m = Fields, IsTask(m.task)
  PROVE  /\ \A status : status # "idle" => /\ IsSession(Terminate(m, status))
                                          /\ Terminate(m, status).bound = None
         /\ ~m.disposed => IsSession(BeginReconnect(m)) /\ BeginReconnect(m).bound = None
         /\ ~m.disposed => \A final : \A w \in AfterFailure(m, final) :
                                    IsSession(w) /\ w.bound = None
<1>1. IsTask(NoTask) /\ NoTask.at = "none"
  BY DEF IsTask, NoTask
<1>2. \A n : IsTask(Attempt(n)) /\ Attempt(n).at = "before"
  BY DEF IsTask, Attempt
<1>3. ASSUME NEW w, DOMAIN w = Fields, IsTask(w.task), NEW status, status # "idle"
      PROVE  IsSession(Terminate(w, status)) /\ Terminate(w, status).bound = None
  BY Zenon, <1>1, <1>3 DEF Terminate, Clean, IsSession, Fields
<1>4. ASSUME NEW w, DOMAIN w = Fields
      PROVE  DOMAIN Remember(w) = Fields /\ Remember(w).disposed = w.disposed
  BY <1>4 DEF Remember, Fields
<1>5. ASSUME NEW w, DOMAIN w = Fields
      PROVE  DOMAIN Reset(w) = Fields /\ Reset(w).disposed = w.disposed
  BY <1>5 DEF Reset, Clean, Fields
<1>6. ASSUME ~m.disposed
      PROVE  IsSession(BeginReconnect(m)) /\ BeginReconnect(m).bound = None
  BY <1>2, <1>4, <1>5, <1>6 DEF BeginReconnect, IsSession, Fields
<1>7. ASSUME ~m.disposed, NEW final, NEW w \in AfterFailure(m, final)
      PROVE  IsSession(w) /\ w.bound = None
  <2>1. CASE w = Terminate([m EXCEPT !.task = NoTask], "error")
    <3>1. DOMAIN [m EXCEPT !.task = NoTask] = Fields /\ IsTask([m EXCEPT !.task = NoTask].task)
      BY <1>1 DEF Fields
    <3>. QED
      BY <1>3, <2>1, <3>1
  <2>. DEFINE failed == [Reset(m) EXCEPT !.bound = None, !.status = "reconnecting", !.task = NoTask]
              next == m.task.attempt + 1
  <2>2. DOMAIN failed = Fields /\ failed.task = NoTask /\ failed.bound = None /\ ~failed.disposed
    BY <1>5, <1>7 DEF Fields
  <2>3. CASE w = Terminate(failed, "error")
    BY <1>1, <1>3, <2>2, <2>3
  <2>4. CASE w = [failed EXCEPT !.task = [Attempt(next) EXCEPT !.at = "delay"]]
    <3>1. IsTask([Attempt(next) EXCEPT !.at = "delay"]) /\ [Attempt(next) EXCEPT !.at = "delay"].at = "delay"
      BY DEF IsTask, Attempt
    <3>. QED
      BY <2>2, <2>4, <3>1 DEF IsSession, Fields
  <2>. QED
    BY <1>7, <2>1, <2>3, <2>4 DEF AfterFailure
<1>. QED
  BY <1>3, <1>6, <1>7

\* A socket is closed together with the session's use of it.
LEMMA ClosingFits ==
  ASSUME SocketsFit, NEW u, CloseSocket(u), gens' = gens, IsSession(me'), me'.bound = None
  PROVE  SocketsFit'
<1>1. CASE me.bound = None
  BY <1>1 DEF SocketsFit, CloseSocket, IsBound
<1>2. CASE me.bound # None
  <2>1. ready' = [ready EXCEPT ![me.bound] = "closed"]
    BY <1>2 DEF CloseSocket, IsBound
  <2>. QED
    BY <1>2, <2>1 DEF SocketsFit
<1>. QED
  BY <1>1, <1>2

\* What does not touch the socket keeps it.
LEMMA SameSocketFits ==
  ASSUME SocketsFit, UNCHANGED <<gens, ready>>, IsSession(me'), me'.bound = me.bound
  PROVE  SocketsFit'
BY DEF SocketsFit

\* What a session hears changes neither its socket nor its task, unless that is
\* what it waited for.
Hears ==
  /\ DOMAIN me' = Fields
  /\ \/ me'.task = me.task /\ me'.status = me.status
     \/ me'.task = NoTask /\ me'.status # "idle"
  /\ me'.bound = me.bound /\ me'.disposed = me.disposed
  /\ me'.watch => me.watch \/ me.bound # None
  /\ UNCHANGED <<gens, ready>>

\* A session that hears from its socket is a session still.
LEMMA HearingKeeps ==
  ASSUME SocketsFit, Hears
  PROVE  SocketsFit'
<1>1. IsSession(me')
  BY DEF Hears, SocketsFit, IsSession, IsTask, NoTask
<1>. QED
  BY <1>1, SameSocketFits DEF Hears

\* Every step keeps the invariant.
LEMMA NextFits == SocketsFit /\ [Next]_vars => SocketsFit'
<1>. SUFFICES ASSUME SocketsFit, [Next]_vars PROVE SocketsFit'
  OBVIOUS
<1>. USE LimitAssumption, OtherAssumption
<1>1. IsSession(me) /\ DOMAIN me = Fields /\ IsTask(me.task) /\ (IsBound => ~me.disposed)
  BY DEF SocketsFit, IsSession, IsBound
<1>2. CASE Join
  BY <1>1, <1>2 DEF Join, SocketsFit, IsSession, IsTask, Fields, netVars
<1>3. CASE EndBefore
  <2>1. me.task.at = "before" /\ me.bound = None /\ \A k \in Socket : ready[k] \notin {"connecting", "open"}
    BY <1>3 DEF EndBefore, Waits, SocketsFit, IsSession
  <2>2. CASE me.disposed /\ me' = [me EXCEPT !.task = NoTask] /\ UNCHANGED <<gens, ready>>
    BY <1>1, <2>2 DEF SocketsFit, IsSession, IsTask, NoTask, Fields
  <2>3. CASE /\ ~me.disposed /\ gens < MaxSockets
             /\ gens' = gens + 1
             /\ ready' = [ready EXCEPT ![gens + 1] = "connecting"]
             /\ me' = [me EXCEPT !.bound = gens + 1, !.task.at = "opening"]
    <3>1. gens + 1 \in Socket /\ gens' \in 0..MaxSockets
      BY <2>3 DEF SocketsFit, Socket
    <3>2. IsSession(me') /\ me'.bound = gens + 1
      BY <1>1, <2>1, <2>3, <3>1 DEF IsSession, IsTask, Fields
    <3>. QED
      BY <2>1, <2>3, <3>1, <3>2 DEF SocketsFit
  <2>. QED
    BY <1>3, <2>2, <2>3 DEF EndBefore
<1>4. CASE RejectBefore
  <2>1. me.bound = None /\ UNCHANGED <<gens, ready>>
    BY <1>4 DEF RejectBefore, Waits, SocketsFit, IsSession, netVars
  <2>2. CASE me.disposed
    BY <1>1, <1>4, <2>1, <2>2 DEF RejectBefore, SocketsFit, IsSession, IsTask, NoTask, Fields
  <2>3. CASE ~me.disposed
    <3>1. me' \in AfterFailure(me, FALSE)
      BY <1>4, <2>3 DEF RejectBefore
    <3>2. IsSession(me') /\ me'.bound = None
      BY <1>1, <2>3, <3>1, EndingsAreSessions
    <3>. QED
      BY <2>1, <3>2, SameSocketFits
  <2>. QED
    BY <2>2, <2>3
<1>5. CASE Open
  <2>1. me.bound \in Socket /\ ready' = [ready EXCEPT ![me.bound] = "open"] /\ gens' = gens
    BY <1>5 DEF Open, Waits, SocketsFit, IsSession
  <2>2. IsSession(me') /\ me'.bound = me.bound
    BY <1>1, <1>5, <2>1 DEF Open, Waits, IsSession, IsTask, Fields
  <2>. QED
    BY <2>1, <2>2 DEF SocketsFit
<1>6. ASSUME NEW m, DOMAIN m = Fields, IsTask(m.task), ~m.disposed, NEW final,
             me' \in AfterFailure(m, final), NEW u, CloseSocket(u), gens' = gens
      PROVE  SocketsFit'
  BY <1>6, EndingsAreSessions, ClosingFits
<1>7. CASE RejectOpening \/ JoinTimer
  <2>1. ~me.disposed
    BY <1>7 DEF RejectOpening, JoinTimer, Waits, SocketsFit, IsSession
  <2>. QED
    BY <1>1, <1>6, <1>7, <2>1 DEF RejectOpening, JoinTimer, Fail
<1>8. CASE DelayTimer
  BY <1>1, <1>8 DEF DelayTimer, Waits, SocketsFit, IsSession, IsTask, Fields, netVars
<1>9. CASE Leave
  BY <1>1, <1>9, EndingsAreSessions, ClosingFits DEF Leave
<1>. DEFINE heard == [me EXCEPT !.watch = FALSE]
<1>10. /\ DOMAIN heard = Fields /\ heard.task = me.task /\ heard.disposed = me.disposed
       /\ heard.bound = me.bound /\ ~heard.watch /\ heard.status = me.status
  BY <1>1 DEF Fields
<1>11. CASE HandleRoomJoined \/ HandlePeerJoined \/ HandlePeerLeft \/ HandleHandState \/ HandleStudyState
  <2>1. UNCHANGED <<gens, ready>>
    BY <1>11
    DEF HandleRoomJoined, HandlePeerJoined, HandlePeerLeft, HandleHandState, HandleStudyState, Take
  <2>2. Hears
    BY Zenon, <1>1, <1>11, <2>1
    DEF HandleRoomJoined, HandlePeerJoined, HandlePeerLeft, HandleHandState, HandleStudyState,
        Heard, Hears, Fields
  <2>. QED
    BY <2>2, HearingKeeps
<1>12. CASE HandleError
  <2>1. IsBound /\ gens' = gens
    BY <1>12 DEF HandleError, Take, IsOpen
  <2>2. CASE Waits("joining")
    BY <1>1, <1>6, <1>10, <1>12, <2>1, <2>2 DEF HandleError, Heard
  <2>3. CASE ~Waits("joining")
    <3>1. me' = heard /\ UNCHANGED ready
      BY <1>12, <2>3 DEF HandleError, Heard
    <3>. QED
      BY <1>10, <2>1, <3>1, HearingKeeps DEF Hears
  <2>. QED
    BY <2>2, <2>3
<1>13. ASSUME NEW code, Closed(code), IsBound PROVE IsSession(me') /\ me'.bound = None
  <2>. DEFINE m == [me EXCEPT !.bound = None]
  <2>1. DOMAIN m = Fields /\ IsTask(m.task) /\ m.disposed = me.disposed
    BY <1>1 DEF Fields
  <2>3. me' = Terminate(m, "error") \/ me' = BeginReconnect(m) \/ me' \in AfterFailure(m, FALSE)
    BY <1>13 DEF Closed
  <2>4. ~m.disposed
    BY <1>1, <1>13, <2>1
  <2>. HIDE DEF m
  <2>5. IsSession(Terminate(m, "error")) /\ Terminate(m, "error").bound = None
    BY <2>1, EndingsAreSessions
  <2>6. /\ IsSession(BeginReconnect(m)) /\ BeginReconnect(m).bound = None
        /\ \A w \in AfterFailure(m, FALSE) : IsSession(w) /\ w.bound = None
    BY <2>1, <2>4, EndingsAreSessions
  <2>. QED
    BY <2>3, <2>5, <2>6
<1>14. CASE HandleClose \/ NoticeCut
  <2>1. /\ IsBound /\ gens' = gens /\ ready' = [ready EXCEPT ![me.bound] = "closed"]
        /\ \E code : Closed(code)
    BY <1>14 DEF HandleClose, NoticeCut, Take, IsOpen
  <2>2. IsSession(me') /\ me'.bound = None
    BY <1>13, <2>1
  <2>. QED
    BY <2>1, <2>2 DEF SocketsFit, IsBound
<1>15. CASE (\E raised \in BOOLEAN : SetHandRaised(raised)) \/ SyncStudy \/ UpdateStudy \/ CommandTimer
  <2>1. UNCHANGED <<gens, ready>>
    BY <1>15 DEF SetHandRaised, SyncStudy, UpdateStudy, CommandTimer, Alone
  <2>2. Hears
    BY <1>1, <1>15, <2>1
    DEF SetHandRaised, SyncStudy, SyncWatched, RequestSync, UpdateStudy, CommandTimer, IsOpen, IsBound,
        Hears, Fields
  <2>. QED
    BY <2>2, HearingKeeps
<1>17. CASE LivenessTimer
  <2>1. ~me.disposed /\ gens' = gens
    BY <1>17 DEF LivenessTimer, SocketsFit, IsSession
  <2>2. CASE me' = BeginReconnect(me) /\ CloseSocket(up)
    BY <1>1, <2>1, <2>2, EndingsAreSessions, ClosingFits
  <2>3. CASE me' = [me EXCEPT !.syncing = "again"] /\ UNCHANGED <<ready, down>>
    <3>1. Hears
      BY <1>1, <2>1, <2>3 DEF Hears, Fields
    <3>. QED
      BY <3>1, HearingKeeps
  <2>. QED
    BY <1>17, <2>2, <2>3 DEF LivenessTimer
<1>18. CASE \/ \E k \in Socket : Server(k) \/ RefuseJoin(k) \/ Cut(k)
            \/ \E q \in Others : OtherJoins(q) \/ OtherLeaves(q) \/ OtherCommands(q)
            \/ OtherTabJoins \/ Restart \/ UNCHANGED vars
  <2>1. UNCHANGED <<me, gens, ready>>
    BY ZenonT(40), <1>18
    DEF Server, ServeJoin, RefuseLateJoin, ServeLeave, ServeClose, ServeHand, ServeStudy, ServerNotices,
        Serve, RefuseJoin, Cut, OtherJoins, OtherLeaves, OtherCommands, Elsewhere, OtherTabJoins,
        Restart, vars, netVars
  <2>. QED
    BY <1>1, <2>1, SameSocketFits
<1>. QED
  BY <1>2, <1>3, <1>4, <1>5, <1>7, <1>8, <1>9, <1>11, <1>12, <1>14, <1>15, <1>17, <1>18
  DEF Next, Task, Message

\* The client has one socket at most, and a session that is over has neither a
\* socket nor a timer: every handler that ends it, or gives up its socket, also
\* closes what it waits for (#terminate, SignalingTransport.close).
THEOREM SessionsEndClean == Spec => []NothingIsLeft
<1>1. Init => SocketsFit
  BY LimitAssumption, OtherAssumption
  DEF Init, SocketsFit, IsSession, IsTask, NoTask, Fields
<1>2. SocketsFit => NothingIsLeft
  BY DEF SocketsFit, IsSession, NothingIsLeft
<1>. QED
  BY <1>1, <1>2, NextFits, PTL DEF Spec

-----------------------------------------------------------------------------
(* What is on the way                                                      *)

Hands == [revision : Nat, raised : SUBSET Peer]
RequestId == {"sync", "again", "update", None}

Code == {"superseded", "shutdown", "ROOM_FULL", "FORBIDDEN"}
DownFrame ==
  [type : {"joined"}, id : Socket, members : SUBSET Peer]
  \cup [type : {"peer.joined", "peer.left"}, id : Peer]
  \cup [type : {"hand.state"}, hands : Hands]
  \cup [type : {"study.state"}, id : RequestId, revision : Nat]
  \cup [type : {"close", "error"}, code : Code]
UpFrame ==
  [type : {"join", "leave", "close"}]
  \cup [type : {"hand"}, raised : BOOLEAN \cup {None}]
  \cup [type : {"study"}, id : RequestId, expected : Nat \cup {None}]

NetTyped ==
  /\ conn \in [Socket -> {"none", "open", "gone"}]
  /\ cut \subseteq Socket
  /\ up \in [Socket -> Seq(UpFrame)]
  /\ down \in [Socket -> Seq(DownFrame)]
  /\ known \subseteq Socket

IsClient(m) ==
  /\ m.self \in Socket \cup {None}
  /\ m.stale \in Seq(Socket)
  /\ m.roster \subseteq Peer
  /\ m.hand \in BOOLEAN
  /\ m.queue \in Hands \cup {None}
  /\ m.study \in Nat \cup {None}
  /\ m.command \in {"update", None}
  /\ m.task.kind \in {"none", "join", "reconnect"}

\* What the frames of the server say.
LEMMA DownFrames ==
  ASSUME NEW f \in DownFrame
  PROVE  /\ f.type \in {"joined", "peer.joined", "peer.left", "hand.state", "study.state", "close", "error"}
         /\ f.type = "joined" => f.id \in Socket /\ f.members \subseteq Peer
         /\ f.type \in {"peer.joined", "peer.left"} => f.id \in Peer
         /\ f.type = "hand.state" => f.hands \in Hands /\ f = HandState(f.hands)
         /\ f.type = "study.state" => f.id \in RequestId /\ f.revision \in Nat
BY DEF DownFrame, HandState

\* And those of the client.
LEMMA UpFrames ==
  ASSUME NEW f \in UpFrame
  PROVE  /\ f.type \in {"join", "hand", "study", "leave", "close"}
         /\ f.type = "hand" => f.raised \in BOOLEAN \cup {None}
         /\ f.type = "study" => f.id \in RequestId /\ f.expected \in Nat \cup {None}
BY DEF UpFrame

\* What is sent are such frames.
LEMMA FramesMade ==
  /\ \A k \in Socket, M \in SUBSET Peer : [type |-> "joined", id |-> k, members |-> M] \in DownFrame
  /\ \A q \in Peer : [type |-> "peer.joined", id |-> q] \in DownFrame
  /\ \A q \in Peer : [type |-> "peer.left", id |-> q] \in DownFrame
  /\ \A h \in Hands : HandState(h) \in DownFrame
  /\ \A id \in RequestId, n \in Nat : StudyState(id, n) \in DownFrame
  /\ \A code \in Code : /\ [type |-> "close", code |-> code] \in DownFrame
                        /\ [type |-> "error", code |-> code] \in DownFrame
  /\ [type |-> "join"] \in UpFrame /\ [type |-> "leave"] \in UpFrame /\ [type |-> "close"] \in UpFrame
  /\ \A raised \in BOOLEAN \cup {None} : [type |-> "hand", raised |-> raised] \in UpFrame
  /\ \A id \in RequestId, n \in Nat \cup {None} : [type |-> "study", id |-> id, expected |-> n] \in UpFrame
BY DEF DownFrame, UpFrame, HandState, StudyState

-----------------------------------------------------------------------------
(* Giving up a socket                                                      *)

\* A session w that has no socket, as m had none or has given it up, keeps its
\* hand and what it remembers, to which it adds its id unless it is over.
GaveUp(m, w) ==
  /\ w.self = None /\ w.roster = {} /\ w.queue = None /\ w.study = None /\ w.command = None
  /\ w.hand = m.hand /\ w.status # "active"
  /\ \/ w.stale = m.stale /\ (w.disposed \/ m.self = None)
     \/ w.stale = Remember(m).stale
  /\ w.task.kind \in {"none", "join", "reconnect"}
  /\ w.task.at \in {"none", "before", "delay"}
  /\ m.disposed => w.disposed
  /\ w.task.at # "none" /\ ~w.disposed =>
       w.task.kind = "join" \/ (w.task.kind = "reconnect" /\ w.status = "reconnecting")

\* What the session is when it begins a task, or has none.
LEMMA Tasks ==
  /\ DOMAIN NoTask = {"kind", "at", "attempt"} /\ NoTask.kind = "none" /\ NoTask.at = "none"
  /\ \A n : /\ DOMAIN Attempt(n) = {"kind", "at", "attempt"}
            /\ Attempt(n).kind = "reconnect" /\ Attempt(n).at = "before"
            /\ [Attempt(n) EXCEPT !.at = "delay"].kind = "reconnect"
            /\ [Attempt(n) EXCEPT !.at = "delay"].at = "delay"
BY DEF NoTask, Attempt

\* Every way to give up the socket does so.
LEMMA EndingsGiveUp ==
  ASSUME NEW m, DOMAIN m = Fields, IsTask(m.task), m.task.kind \in {"none", "join", "reconnect"}
  PROVE  /\ \A status \in {"error", "ended"} : GaveUp(m, Terminate(m, status))
         /\ GaveUp(m, BeginReconnect(m))
         /\ m.self = None => \A final : \A w \in AfterFailure(m, final) : GaveUp(m, w)
<1>1. ASSUME NEW w, DOMAIN w = Fields, IsTask(w.task), w.task.kind \in {"none", "join", "reconnect"},
             NEW status \in {"error", "ended"}
      PROVE  GaveUp(w, Terminate(w, status)) /\ Terminate(w, status).disposed
  BY <1>1, Tasks DEF Terminate, Clean, GaveUp, Fields
<1>2. ASSUME NEW w, DOMAIN w = Fields
      PROVE  /\ DOMAIN Remember(w) = Fields /\ Remember(w).disposed = w.disposed
             /\ Remember(w).hand = w.hand
  BY <1>2 DEF Remember, Fields
<1>3. ASSUME NEW w, DOMAIN w = Fields
      PROVE  /\ DOMAIN Reset(w) = Fields /\ Reset(w).disposed = w.disposed
             /\ Reset(w).hand = w.hand /\ Reset(w).stale = w.stale /\ Reset(w).self = None
             /\ Reset(w).roster = {} /\ Reset(w).queue = None /\ Reset(w).study = None
             /\ Reset(w).command = None
  BY <1>3 DEF Reset, Clean, Fields
<1>4. GaveUp(m, BeginReconnect(m))
  BY <1>2, <1>3, Tasks DEF BeginReconnect, GaveUp, Fields
<1>5. ASSUME m.self = None, NEW final, NEW w \in AfterFailure(m, final)
      PROVE  GaveUp(m, w)
  <2>1. CASE w = Terminate([m EXCEPT !.task = NoTask], "error")
    <3>. DEFINE n == [m EXCEPT !.task = NoTask]
    <3>1. DOMAIN n = Fields /\ IsTask(n.task) /\ n.task.kind = "none" /\ n.self = m.self /\ n.hand = m.hand
          /\ n.stale = m.stale
      BY Tasks DEF Fields, IsTask
    <3>2. GaveUp(n, w) /\ w.disposed
      BY <1>1, <2>1, <3>1
    <3>3. Remember(n).stale = m.stale
      BY <1>5, <3>1 DEF Remember
    <3>. QED
      BY <1>5, <3>1, <3>2, <3>3 DEF GaveUp
  <2>. DEFINE failed == [Reset(m) EXCEPT !.bound = None, !.status = "reconnecting", !.task = NoTask]
              next == m.task.attempt + 1
  <2>2. /\ DOMAIN failed = Fields /\ failed.task = NoTask /\ failed.stale = m.stale
        /\ failed.hand = m.hand /\ failed.self = None /\ failed.status = "reconnecting"
        /\ failed.roster = {} /\ failed.queue = None /\ failed.study = None /\ failed.command = None
        /\ failed.disposed = m.disposed
    BY <1>3 DEF Fields
  <2>3. CASE w = Terminate(failed, "error")
    <3>1. GaveUp(failed, w) /\ w.disposed
      BY <1>1, <2>2, <2>3, Tasks DEF IsTask
    <3>2. Remember(failed).stale = m.stale
      BY <2>2 DEF Remember
    <3>. QED
      BY <2>2, <3>1, <3>2 DEF GaveUp
  <2>4. CASE w = [failed EXCEPT !.task = [Attempt(next) EXCEPT !.at = "delay"]]
    <3>1. /\ w.task = [Attempt(next) EXCEPT !.at = "delay"]
          /\ w.stale = m.stale /\ w.hand = m.hand /\ w.self = None /\ w.status = "reconnecting"
          /\ w.roster = {} /\ w.queue = None /\ w.study = None /\ w.command = None
          /\ w.disposed = m.disposed
      BY <2>2, <2>4 DEF Fields
    <3>. QED
      BY <1>5, <3>1, Tasks DEF GaveUp
  <2>. QED
    BY <1>5, <2>1, <2>3, <2>4 DEF AfterFailure
<1>. QED
  BY <1>1, <1>4, <1>5

-----------------------------------------------------------------------------
(* Sequences of frames                                                     *)

\* The last frame of d that is in J or L is in J; b says what holds where there
\* is none.
Ends(d, J, L, b) ==
  \/ \E i \in 1..Len(d) : d[i] \in J /\ \A j \in 1..Len(d) : j > i => d[j] \notin L
  \/ b /\ \A j \in 1..Len(d) : d[j] \notin L

Has(d, S) == \E i \in 1..Len(d) : d[i] \in S

\* What a frame at the end of a sequence changes.
LEMMA AppendsAt ==
  ASSUME NEW S, NEW d \in Seq(S), NEW f \in S
  PROVE  /\ Append(d, f) \in Seq(S) /\ Len(Append(d, f)) = Len(d) + 1
         /\ Append(d, f)[Len(d) + 1] = f
         /\ \A i \in 1..Len(d) : Append(d, f)[i] = d[i]
         /\ Append(d, f) # <<>>
         /\ d \o <<f>> = Append(d, f)
         /\ \A i \in 1..Len(Append(d, f)) : i \in 1..Len(d) \/ i = Len(d) + 1
<1>1. d \o <<f>> = Append(d, f)
  BY AppendIsConcat
<1>. QED
  BY <1>1

\* And what the loss of the first one does.
LEMMA TailsAt ==
  ASSUME NEW S, NEW d \in Seq(S), d # <<>>
  PROVE  /\ Tail(d) \in Seq(S) /\ Len(d) \in Nat /\ Len(Tail(d)) = Len(d) - 1 /\ Len(d) >= 1
         /\ \A i \in 1..Len(Tail(d)) : Tail(d)[i] = d[i + 1] /\ i + 1 \in 1..Len(d)
         /\ Head(d) = d[1] /\ 1 \in 1..Len(d) /\ Head(d) \in S
         /\ \A i \in 1..Len(d) : i = 1 \/ (i - 1 \in 1..Len(Tail(d)) /\ Tail(d)[i - 1] = d[i])
OBVIOUS

\* Another frame, as one that does not count.
LEMMA EndsBesides ==
  ASSUME NEW S, NEW d \in Seq(S), NEW f \in S, NEW J, NEW L, NEW b, Ends(d, J, L, b), f \notin L
  PROVE  Ends(Append(d, f), J, L, b)
<1>1. CASE \E i \in 1..Len(d) : d[i] \in J /\ \A j \in 1..Len(d) : j > i => d[j] \notin L
  <2>1. PICK i \in 1..Len(d) : d[i] \in J /\ \A j \in 1..Len(d) : j > i => d[j] \notin L
    BY <1>1
  <2>2. i \in 1..Len(Append(d, f)) /\ Append(d, f)[i] \in J
    BY <2>1, AppendsAt
  <2>3. \A j \in 1..Len(Append(d, f)) : j > i => Append(d, f)[j] \notin L
    BY <2>1, AppendsAt
  <2>. QED
    BY <2>2, <2>3 DEF Ends
<1>2. CASE b /\ \A j \in 1..Len(d) : d[j] \notin L
  <2>1. \A j \in 1..Len(Append(d, f)) : Append(d, f)[j] \notin L
    BY <1>2, AppendsAt
  <2>. QED
    BY <1>2, <2>1 DEF Ends
<1>. QED
  BY <1>1, <1>2 DEF Ends

\* Another frame that says it.
LEMMA EndsWith ==
  ASSUME NEW S, NEW d \in Seq(S), NEW f \in S, NEW J, NEW L, NEW b, f \in J
  PROVE  Ends(Append(d, f), J, L, b)
<1>1. /\ Len(d) + 1 \in 1..Len(Append(d, f)) /\ Append(d, f)[Len(d) + 1] \in J
      /\ \A j \in 1..Len(Append(d, f)) : ~(j > Len(d) + 1)
  BY AppendsAt
<1>. QED
  BY <1>1 DEF Ends

\* The first frame is taken.
LEMMA EndsAfter ==
  ASSUME NEW S, NEW d \in Seq(S), d # <<>>, NEW J, NEW L, NEW b, NEW c, Ends(d, J, L, b),
         Head(d) \in J => c, b /\ Head(d) \notin L => c
  PROVE  Ends(Tail(d), J, L, c)
<1>1. CASE \E i \in 1..Len(d) : d[i] \in J /\ \A j \in 1..Len(d) : j > i => d[j] \notin L
  <2>1. PICK i \in 1..Len(d) : d[i] \in J /\ \A j \in 1..Len(d) : j > i => d[j] \notin L
    BY <1>1
  <2>2. CASE i = 1
    <3>1. c /\ \A j \in 1..Len(Tail(d)) : Tail(d)[j] \notin L
      BY <2>1, <2>2, TailsAt
    <3>. QED
      BY <3>1 DEF Ends
  <2>3. CASE i # 1
    <3>1. /\ i - 1 \in 1..Len(Tail(d)) /\ Tail(d)[i - 1] \in J
          /\ \A j \in 1..Len(Tail(d)) : j > i - 1 => Tail(d)[j] \notin L
      BY <2>1, <2>3, TailsAt
    <3>. QED
      BY <3>1 DEF Ends
  <2>. QED
    BY <2>2, <2>3
<1>2. CASE b /\ \A j \in 1..Len(d) : d[j] \notin L
  <2>1. c /\ \A j \in 1..Len(Tail(d)) : Tail(d)[j] \notin L
    BY <1>2, TailsAt
  <2>. QED
    BY <2>1 DEF Ends
<1>. QED
  BY <1>1, <1>2 DEF Ends

\* Nothing is on the way.
LEMMA EndsEmpty ==
  ASSUME NEW J, NEW L, NEW b
  PROVE  Ends(<<>>, J, L, b) <=> b
BY DEF Ends

\* It is said of less, or after fewer.
LEMMA EndsWeaker ==
  ASSUME NEW d, NEW J, NEW L, NEW b, NEW K, NEW N, NEW c, Ends(d, J, L, b),
         \A i \in 1..Len(d) : (d[i] \in J => d[i] \in K) /\ (d[i] \in N => d[i] \in L), b => c
  PROVE  Ends(d, K, N, c)
BY DEF Ends

\* What is among the frames, before and after.
LEMMA HasAfter ==
  ASSUME NEW S, NEW d \in Seq(S), NEW T
  PROVE  /\ \A f \in S : Has(Append(d, f), T) <=> Has(d, T) \/ f \in T
         /\ d # <<>> => (Has(d, T) <=> Head(d) \in T \/ Has(Tail(d), T))
         /\ ~Has(<<>>, T)
<1>1. ASSUME NEW f \in S PROVE Has(Append(d, f), T) <=> Has(d, T) \/ f \in T
  <2>1. Has(d, T) => Has(Append(d, f), T)
    BY AppendsAt DEF Has
  <2>2. f \in T => Has(Append(d, f), T)
    BY AppendsAt DEF Has
  <2>3. Has(Append(d, f), T) => Has(d, T) \/ f \in T
    BY AppendsAt DEF Has
  <2>. QED
    BY <2>1, <2>2, <2>3
<1>2. ASSUME d # <<>> PROVE Has(d, T) <=> Head(d) \in T \/ Has(Tail(d), T)
  <2>1. Has(d, T) => Head(d) \in T \/ Has(Tail(d), T)
    BY <1>2, TailsAt DEF Has
  <2>2. Has(Tail(d), T) => Has(d, T)
    BY <1>2, TailsAt DEF Has
  <2>3. Head(d) \in T => Has(d, T)
    BY <1>2, TailsAt DEF Has
  <2>. QED
    BY <2>1, <2>2, <2>3
<1>3. ~Has(<<>>, T)
  BY DEF Has
<1>. QED
  BY <1>1, <1>2, <1>3

-----------------------------------------------------------------------------
(* What a client sees of the room it is in                                 *)

\* Frames that say that q is a member, and those that say that it is not.
In(q) == {f \in DownFrame : \/ f.type = "peer.joined" /\ f.id = q
                            \/ f.type = "joined" /\ q \in f.members}
Out(q) == {f \in DownFrame : \/ f.type = "peer.left" /\ f.id = q
                             \/ f.type = "joined" /\ q \notin f.members}
Entry == {f \in DownFrame : f.type = "joined"}
Refusal == {f \in DownFrame : f.type \in {"error", "close"}}
HandFrame == {f \in DownFrame : f.type = "hand.state"}
StudyFrame == {f \in DownFrame : f.type = "study.state"}
StudyAt(n) == {f \in StudyFrame : f.revision = n}
Answer == {f \in StudyFrame : f.id = "update"}

HandRequest == {f \in UpFrame : f.type = "hand"}
Command == {f \in UpFrame : f.type = "study" /\ f.id = "update"}

\* Session m, to which d is on its way, and the members M of the room: of every
\* other, the last word on the way or what the session has is right.
SeesMembers(m, d, M, k) ==
  \A q \in Peer \ {k} :
    /\ q \in M => Ends(d, In(q), Out(q), q \in m.roster \cup Range(m.stale))
    /\ q \notin M => Ends(d, Out(q), In(q), q \notin m.roster)

\* The hands h of the room: what is on its way is not newer, and is or will be
\* the latest.
SeesHands(m, u, d, h, k) ==
  /\ m.status = "active" =>
       \/ Has(u, HandRequest)
       \/ h # None /\ Ends(d, {HandState(h)}, HandFrame,
                          m.queue = h /\ (m.hand <=> k \in h.raised))
  /\ Has(d, HandFrame) \/ m.queue # None => h # None
  /\ \A i \in 1..Len(d) : d[i] \in HandFrame => d[i].hands.revision <= h.revision
  /\ m.queue # None => m.queue.revision <= h.revision

\* The study s of the room, if the session has asked for it.
SeesStudy(m, d, s) ==
  /\ Has(d, StudyFrame) \/ m.study # None => s # None
  /\ s # None =>
       /\ Ends(d, StudyAt(s), StudyFrame, m.study \in {None, s})
       /\ m.study # None => m.study <= s
       /\ \A i \in 1..Len(d) : d[i] \in StudyFrame => d[i].revision <= s

\* A command or its answer is on the way.
AwaitsAnswer(m, u, d) == m.command # None => Has(u, Command) \/ Has(d, Answer)

\* The confirmation of the join is what the session reads first.
Enters(m, u, d) ==
  /\ ~Has(d, Refusal)
  /\ m.self # None => m.self \in m.roster
  /\ m.self = None => u = <<>> /\ d # <<>> /\ Head(d) \in Entry

\* Frames are of one kind.
LEMMA Kinds ==
  /\ \A f \in DownFrame, q \in Peer :
       f \in In(q) \cup Out(q) => f.type \in {"joined", "peer.joined", "peer.left"}
  /\ \A h \in Hands : /\ HandState(h) \in HandFrame /\ HandState(h).hands = h
                      /\ HandState(h).type = "hand.state"
  /\ \A id \in RequestId, n \in Nat :
       /\ StudyState(id, n) \in StudyAt(n) /\ StudyState(id, n).revision = n
       /\ StudyState(id, n).type = "study.state" /\ StudyState(id, n).id = id
  /\ \A q, p \in Peer : /\ [type |-> "peer.joined", id |-> p] \in In(q) <=> p = q
                        /\ [type |-> "peer.joined", id |-> p] \notin Out(q)
                        /\ [type |-> "peer.left", id |-> p] \in Out(q) <=> p = q
                        /\ [type |-> "peer.left", id |-> p] \notin In(q)
<1>1. \A f \in DownFrame, q \in Peer :
        f \in In(q) \cup Out(q) => f.type \in {"joined", "peer.joined", "peer.left"}
  BY DEF In, Out
<1>2. \A h \in Hands : /\ HandState(h) \in HandFrame /\ HandState(h).hands = h
                       /\ HandState(h).type = "hand.state"
  BY Zenon, FramesMade DEF HandFrame, HandState
<1>3. \A id \in RequestId, n \in Nat :
        /\ StudyState(id, n) \in StudyAt(n) /\ StudyState(id, n).revision = n
        /\ StudyState(id, n).type = "study.state" /\ StudyState(id, n).id = id
  BY Zenon, FramesMade DEF StudyAt, StudyFrame, StudyState
<1>4. ASSUME NEW q \in Peer, NEW p \in Peer
      PROVE  /\ [type |-> "peer.joined", id |-> p] \in In(q) <=> p = q
             /\ [type |-> "peer.joined", id |-> p] \notin Out(q)
             /\ [type |-> "peer.left", id |-> p] \in Out(q) <=> p = q
             /\ [type |-> "peer.left", id |-> p] \notin In(q)
  BY FramesMade DEF In, Out
<1>. QED
  BY <1>1, <1>2, <1>3, <1>4

\* Another member comes, or goes.
LEMMA MembersSeen ==
  ASSUME NEW m, NEW d \in Seq(DownFrame), NEW M, NEW k, SeesMembers(m, d, M, k)
  PROVE  /\ \A p \in Peer : SeesMembers(m, Append(d, [type |-> "peer.joined", id |-> p]), M \cup {p}, k)
         /\ \A p \in Peer : SeesMembers(m, Append(d, [type |-> "peer.left", id |-> p]), M \ {p}, k)
         /\ \A f \in DownFrame : f.type \notin {"joined", "peer.joined", "peer.left"} =>
              SeesMembers(m, Append(d, f), M, k)
<1>1. ASSUME NEW p \in Peer
      PROVE  SeesMembers(m, Append(d, [type |-> "peer.joined", id |-> p]), M \cup {p}, k)
  <2>. DEFINE f == [type |-> "peer.joined", id |-> p]
  <2>1. f \in DownFrame
    BY FramesMade
  <2>2. ASSUME NEW q \in Peer \ {k}, q \in M \cup {p}
        PROVE  Ends(Append(d, f), In(q), Out(q), q \in m.roster \cup Range(m.stale))
    <3>1. CASE q = p
      <4>1. f \in In(q)
        BY <3>1, Kinds
      <4>. HIDE DEF f
      <4>. QED
        BY <2>1, <4>1, EndsWith
    <3>2. CASE q # p
      <4>1. f \notin Out(q) /\ Ends(d, In(q), Out(q), q \in m.roster \cup Range(m.stale))
        BY <2>2, <3>2, Kinds DEF SeesMembers
      <4>. HIDE DEF f
      <4>. QED
        BY <2>1, <4>1, EndsBesides
    <3>. QED
      BY <3>1, <3>2
  <2>3. ASSUME NEW q \in Peer \ {k}, q \notin M \cup {p}
        PROVE  Ends(Append(d, f), Out(q), In(q), q \notin m.roster)
    <3>1. f \notin In(q) /\ Ends(d, Out(q), In(q), q \notin m.roster)
      BY <2>3, Kinds DEF SeesMembers
    <3>. HIDE DEF f
    <3>. QED
      BY <2>1, <3>1, EndsBesides
  <2>. HIDE DEF f
  <2>4. SeesMembers(m, Append(d, f), M \cup {p}, k)
    BY <2>2, <2>3 DEF SeesMembers
  <2>. QED
    BY <2>4 DEF f
<1>2. ASSUME NEW p \in Peer
      PROVE  SeesMembers(m, Append(d, [type |-> "peer.left", id |-> p]), M \ {p}, k)
  <2>. DEFINE f == [type |-> "peer.left", id |-> p]
  <2>1. f \in DownFrame
    BY FramesMade
  <2>2. ASSUME NEW q \in Peer \ {k}, q \in M \ {p}
        PROVE  Ends(Append(d, f), In(q), Out(q), q \in m.roster \cup Range(m.stale))
    <3>1. f \notin Out(q) /\ Ends(d, In(q), Out(q), q \in m.roster \cup Range(m.stale))
      BY <2>2, Kinds DEF SeesMembers
    <3>. HIDE DEF f
    <3>. QED
      BY <2>1, <3>1, EndsBesides
  <2>3. ASSUME NEW q \in Peer \ {k}, q \notin M \ {p}
        PROVE  Ends(Append(d, f), Out(q), In(q), q \notin m.roster)
    <3>1. CASE q = p
      <4>1. f \in Out(q)
        BY <3>1, Kinds
      <4>. HIDE DEF f
      <4>. QED
        BY <2>1, <4>1, EndsWith
    <3>2. CASE q # p
      <4>1. f \notin In(q) /\ Ends(d, Out(q), In(q), q \notin m.roster)
        BY <2>3, <3>2, Kinds DEF SeesMembers
      <4>. HIDE DEF f
      <4>. QED
        BY <2>1, <4>1, EndsBesides
    <3>. QED
      BY <3>1, <3>2
  <2>. HIDE DEF f
  <2>4. SeesMembers(m, Append(d, f), M \ {p}, k)
    BY <2>2, <2>3 DEF SeesMembers
  <2>. QED
    BY <2>4 DEF f
<1>3. ASSUME NEW f \in DownFrame, f.type \notin {"joined", "peer.joined", "peer.left"}
      PROVE  SeesMembers(m, Append(d, f), M, k)
  <2>1. ASSUME NEW q \in Peer \ {k}, q \in M
        PROVE  Ends(Append(d, f), In(q), Out(q), q \in m.roster \cup Range(m.stale))
    BY <1>3, <2>1, Kinds, EndsBesides DEF SeesMembers
  <2>2. ASSUME NEW q \in Peer \ {k}, q \notin M
        PROVE  Ends(Append(d, f), Out(q), In(q), q \notin m.roster)
    BY <1>3, <2>2, Kinds, EndsBesides DEF SeesMembers
  <2>. QED
    BY <2>1, <2>2 DEF SeesMembers
<1>. QED
  BY <1>1, <1>2, <1>3

\* The hands change, which the members are told, or a request makes the queue.
LEMMA HandsSeen ==
  ASSUME NoneAssumption, NEW m, m.queue \in Hands \cup {None}, NEW d \in Seq(DownFrame), NEW u,
         NEW h \in Hands \cup {None}, NEW k, SeesHands(m, u, d, h, k)
  PROVE  /\ \A g \in Hands : \A w : h = None \/ h.revision <= g.revision =>
              SeesHands(m, w, Append(d, HandState(g)), g, k)
         /\ \A f \in DownFrame : f \notin HandFrame => SeesHands(m, u, Append(d, f), h, k)
         /\ h = None => \A g \in Hands : SeesHands(m, u, d, g, k)
         /\ \A w : (Has(u, HandRequest) => Has(w, HandRequest)) => SeesHands(m, w, d, h, k)
<1>. USE NoneAssumption DEF Hands
<1>1. ASSUME NEW g \in Hands, NEW w, h = None \/ h.revision <= g.revision
      PROVE  SeesHands(m, w, Append(d, HandState(g)), g, k)
  <2>. DEFINE f == HandState(g)
  <2>1. f \in DownFrame /\ f \in HandFrame /\ f.hands = g /\ g # None
    BY FramesMade, Kinds
  <2>2. f \in {HandState(g)}
    OBVIOUS
  <2>. HIDE DEF f
  <2>3. Ends(Append(d, f), {HandState(g)}, HandFrame,
             m.queue = g /\ (m.hand <=> k \in g.raised))
    BY <2>1, <2>2, EndsWith
  <2>4. ASSUME NEW i \in 1..Len(Append(d, f)), Append(d, f)[i] \in HandFrame
        PROVE  Append(d, f)[i].hands.revision <= g.revision
    <3>1. CASE i = Len(d) + 1
      BY <2>1, <3>1, AppendsAt
    <3>2. CASE i \in 1..Len(d)
      <4>1. Append(d, f)[i] = d[i] /\ d[i] \in DownFrame
        BY <2>1, <3>2, AppendsAt
      <4>2. h # None /\ d[i].hands.revision <= h.revision
        BY <2>4, <3>2, <4>1 DEF SeesHands, Has
      <4>3. d[i].hands \in Hands /\ h \in Hands
        BY <2>4, <4>1, <4>2, DownFrames DEF HandFrame
      <4>4. d[i].hands.revision \in Nat /\ h.revision \in Nat /\ g.revision \in Nat
        BY <4>3
      <4>. QED
        BY <1>1, <4>1, <4>2, <4>4
    <3>. QED
      BY <2>1, <3>1, <3>2, AppendsAt
  <2>5. m.queue # None => m.queue.revision <= g.revision
    BY <1>1 DEF SeesHands
  <2>6. SeesHands(m, w, Append(d, f), g, k)
    BY <2>1, <2>3, <2>4, <2>5 DEF SeesHands
  <2>. QED
    BY <2>6 DEF f
<1>2. ASSUME NEW f \in DownFrame, f \notin HandFrame PROVE SeesHands(m, u, Append(d, f), h, k)
  <2>1. Has(Append(d, f), HandFrame) => Has(d, HandFrame)
    BY <1>2, HasAfter
  <2>2. \A i \in 1..Len(Append(d, f)) : Append(d, f)[i] \in HandFrame =>
           Append(d, f)[i].hands.revision <= h.revision
    BY <1>2, AppendsAt DEF SeesHands
  <2>. DEFINE b == m.queue = h /\ (m.hand <=> k \in h.raised)
  <2>3. Ends(d, {HandState(h)}, HandFrame, b) => Ends(Append(d, f), {HandState(h)}, HandFrame, b)
    BY <1>2, EndsBesides
  <2>. QED
    BY <2>1, <2>2, <2>3 DEF SeesHands
<1>3. ASSUME h = None, NEW g \in Hands PROVE SeesHands(m, u, d, g, k)
  BY <1>3 DEF SeesHands, Has
<1>4. ASSUME NEW w, Has(u, HandRequest) => Has(w, HandRequest) PROVE SeesHands(m, w, d, h, k)
  BY <1>4 DEF SeesHands
<1>. QED
  BY <1>1, <1>2, <1>3, <1>4

\* The study changes, which the members are told, or a request makes it.
LEMMA StudySeen ==
  ASSUME NoneAssumption, NEW m, m.study \in Nat \cup {None}, NEW d \in Seq(DownFrame),
         NEW s \in Nat \cup {None}, SeesStudy(m, d, s)
  PROVE  /\ \A n \in Nat, id \in RequestId : s = None \/ s <= n =>
              SeesStudy(m, Append(d, StudyState(id, n)), n)
         /\ \A f \in DownFrame : f \notin StudyFrame => SeesStudy(m, Append(d, f), s)
         /\ s = None => \A n \in Nat : SeesStudy(m, d, n)
<1>. USE NoneAssumption
<1>1. ASSUME NEW n \in Nat, NEW id \in RequestId, s = None \/ s <= n
      PROVE  SeesStudy(m, Append(d, StudyState(id, n)), n)
  <2>. DEFINE f == StudyState(id, n)
  <2>1. f \in DownFrame /\ f \in StudyAt(n) /\ f.revision = n /\ n # None
    BY FramesMade, Kinds
  <2>. HIDE DEF f
  <2>2. Ends(Append(d, f), StudyAt(n), StudyFrame, m.study \in {None, n})
    BY <2>1, EndsWith
  <2>3. ASSUME NEW i \in 1..Len(Append(d, f)), Append(d, f)[i] \in StudyFrame
        PROVE  Append(d, f)[i].revision <= n
    <3>1. CASE i = Len(d) + 1
      BY <2>1, <3>1, AppendsAt
    <3>2. CASE i \in 1..Len(d)
      <4>1. Append(d, f)[i] = d[i] /\ d[i] \in DownFrame
        BY <2>1, <3>2, AppendsAt
      <4>2. s # None /\ d[i].revision <= s
        BY <2>3, <3>2, <4>1 DEF SeesStudy, Has
      <4>3. d[i].revision \in Nat
        BY <2>3, <4>1, DownFrames DEF StudyFrame
      <4>. QED
        BY <1>1, <4>1, <4>2, <4>3
    <3>. QED
      BY <2>1, <3>1, <3>2, AppendsAt
  <2>4. m.study # None => m.study <= n
    BY <1>1 DEF SeesStudy
  <2>5. SeesStudy(m, Append(d, f), n)
    BY <2>1, <2>2, <2>3, <2>4 DEF SeesStudy
  <2>. QED
    BY <2>5 DEF f
<1>2. ASSUME NEW f \in DownFrame, f \notin StudyFrame PROVE SeesStudy(m, Append(d, f), s)
  <2>1. Has(Append(d, f), StudyFrame) => Has(d, StudyFrame)
    BY <1>2, HasAfter
  <2>2. s # None => \A i \in 1..Len(Append(d, f)) : Append(d, f)[i] \in StudyFrame =>
           Append(d, f)[i].revision <= s
    BY <1>2, AppendsAt DEF SeesStudy
  <2>3. Ends(d, StudyAt(s), StudyFrame, m.study \in {None, s}) =>
          Ends(Append(d, f), StudyAt(s), StudyFrame, m.study \in {None, s})
    BY <1>2, EndsBesides
  <2>. QED
    BY <2>1, <2>2, <2>3 DEF SeesStudy
<1>3. ASSUME s = None, NEW n \in Nat PROVE SeesStudy(m, d, n)
  BY <1>3 DEF SeesStudy, Has, Ends
<1>. QED
  BY <1>1, <1>2, <1>3

\* What is on the way stays there until it is read.
LEMMA AnswerAwaited ==
  ASSUME NEW m, NEW d \in Seq(DownFrame), NEW u, AwaitsAnswer(m, u, d)
  PROVE  /\ \A f \in DownFrame : AwaitsAnswer(m, u, Append(d, f))
         /\ \A w : (Has(u, Command) => Has(w, Command)) => AwaitsAnswer(m, w, d)
         /\ \A f \in Answer : \A w : f \in DownFrame => AwaitsAnswer(m, w, Append(d, f))
BY HasAfter DEF AwaitsAnswer

LEMMA StillEnters ==
  ASSUME NEW m, NEW d \in Seq(DownFrame), NEW u, Enters(m, u, d)
  PROVE  /\ \A f \in DownFrame : f \notin Refusal => Enters(m, u, Append(d, f))
         /\ m.self # None => \A w : Enters(m, w, d)
<1>1. ASSUME NEW f \in DownFrame, d # <<>> PROVE Head(Append(d, f)) = Head(d)
  <2>1. 1 \in 1..Len(d) /\ Append(d, f)[1] = d[1]
    BY <1>1, AppendsAt, TailsAt
  <2>. QED
    BY <1>1, <2>1, AppendsAt
<1>. QED
  BY <1>1, HasAfter, AppendsAt DEF Enters

\* What session m sees of room r.
Sees(m, u, d, r, k) ==
  /\ SeesMembers(m, d, r.members, k) /\ SeesHands(m, u, d, r.hands, k) /\ SeesStudy(m, d, r.study)
  /\ AwaitsAnswer(m, u, d) /\ Enters(m, u, d)

\* Only members raise a hand.
IsRoom(r) ==
  /\ DOMAIN r = {"members", "hands", "study"}
  /\ r.members \subseteq Peer /\ r.hands \in Hands \cup {None} /\ r.study \in Nat \cup {None}
  /\ r.hands # None => r.hands.raised \subseteq r.members

\* Room s after room r: the hands, or the study, have changed, and w is still to
\* come of what the session has sent.
HandsChange(m, u, w, r, s) ==
  /\ s.members = r.members /\ s.hands # None /\ s.study = r.study
  /\ r.hands = None \/ r.hands.revision <= s.hands.revision
  /\ w = u \/ (m.self # None /\ (Has(u, Command) => Has(w, Command)))
StudyChanges(m, u, w, r, s, id) ==
  /\ s.members = r.members /\ s.hands = r.hands /\ s.study # None
  /\ r.study = None \/ r.study <= s.study
  /\ w = u \/ (m.self # None /\ (Has(u, HandRequest) => Has(w, HandRequest)))
  /\ (Has(u, Command) => Has(w, Command)) \/ id = "update"

\* A frame of one part of the room leaves the others alone.
LEMMA FrameSeen ==
  ASSUME NoneAssumption, NEW m, m.queue \in Hands \cup {None}, m.study \in Nat \cup {None},
         NEW d \in Seq(DownFrame), NEW u, NEW r, IsRoom(r), NEW k, Sees(m, u, d, r, k), NEW s, IsRoom(s)
  PROVE  /\ \A p \in Peer :
              s.members = r.members \cup {p} /\ s.hands = r.hands /\ s.study = r.study =>
                Sees(m, u, Append(d, [type |-> "peer.joined", id |-> p]), s, k)
         /\ \A p \in Peer :
              s.members = r.members \ {p} /\ s.hands = r.hands /\ s.study = r.study =>
                Sees(m, u, Append(d, [type |-> "peer.left", id |-> p]), s, k)
         /\ \A w : HandsChange(m, u, w, r, s) => Sees(m, w, Append(d, HandState(s.hands)), s, k)
         /\ \A w : \A id \in RequestId :
              StudyChanges(m, u, w, r, s, id) => Sees(m, w, Append(d, StudyState(id, s.study)), s, k)
<1>1. ASSUME NEW f \in DownFrame, f.type \in {"peer.joined", "peer.left"}
      PROVE  f \notin HandFrame /\ f \notin StudyFrame /\ f \notin Refusal
  BY <1>1 DEF HandFrame, StudyFrame, Refusal
<1>2. ASSUME NEW p \in Peer, s.members = r.members \cup {p}, s.hands = r.hands, s.study = r.study
      PROVE  Sees(m, u, Append(d, [type |-> "peer.joined", id |-> p]), s, k)
  <2>. DEFINE f == [type |-> "peer.joined", id |-> p]
  <2>1. f \in DownFrame /\ f \notin HandFrame /\ f \notin StudyFrame /\ f \notin Refusal
    BY <1>1, FramesMade
  <2>7. SeesMembers(m, d, r.members, k)
    BY DEF Sees
  <2>8. SeesMembers(m, Append(d, f), r.members \cup {p}, k)
    BY <2>7, MembersSeen
  <2>. HIDE DEF f
  <2>2. SeesMembers(m, Append(d, f), s.members, k)
    BY <1>2, <2>8
  <2>3. SeesHands(m, u, Append(d, f), s.hands, k)
    BY <1>2, <2>1, HandsSeen DEF Sees, IsRoom
  <2>4. SeesStudy(m, Append(d, f), s.study)
    BY <1>2, <2>1, StudySeen DEF Sees, IsRoom
  <2>5. AwaitsAnswer(m, u, Append(d, f)) /\ Enters(m, u, Append(d, f))
    BY <2>1, AnswerAwaited, StillEnters DEF Sees
  <2>6. Sees(m, u, Append(d, f), s, k)
    BY <2>2, <2>3, <2>4, <2>5 DEF Sees
  <2>. QED
    BY <2>6 DEF f
<1>3. ASSUME NEW p \in Peer, s.members = r.members \ {p}, s.hands = r.hands, s.study = r.study
      PROVE  Sees(m, u, Append(d, [type |-> "peer.left", id |-> p]), s, k)
  <2>. DEFINE f == [type |-> "peer.left", id |-> p]
  <2>1. f \in DownFrame /\ f \notin HandFrame /\ f \notin StudyFrame /\ f \notin Refusal
    BY <1>1, FramesMade
  <2>7. SeesMembers(m, d, r.members, k)
    BY DEF Sees
  <2>8. SeesMembers(m, Append(d, f), r.members \ {p}, k)
    BY <2>7, MembersSeen
  <2>. HIDE DEF f
  <2>2. SeesMembers(m, Append(d, f), s.members, k)
    BY <1>3, <2>8
  <2>3. SeesHands(m, u, Append(d, f), s.hands, k)
    BY <1>3, <2>1, HandsSeen DEF Sees, IsRoom
  <2>4. SeesStudy(m, Append(d, f), s.study)
    BY <1>3, <2>1, StudySeen DEF Sees, IsRoom
  <2>5. AwaitsAnswer(m, u, Append(d, f)) /\ Enters(m, u, Append(d, f))
    BY <2>1, AnswerAwaited, StillEnters DEF Sees
  <2>6. Sees(m, u, Append(d, f), s, k)
    BY <2>2, <2>3, <2>4, <2>5 DEF Sees
  <2>. QED
    BY <2>6 DEF f
<1>4. ASSUME NEW w, HandsChange(m, u, w, r, s)
      PROVE  Sees(m, w, Append(d, HandState(s.hands)), s, k)
  <2>. USE DEF HandsChange
  <2>. DEFINE f == HandState(s.hands)
  <2>1. s.hands \in Hands /\ f \in DownFrame /\ f.type = "hand.state"
    BY <1>4, FramesMade, Kinds DEF IsRoom
  <2>2. f \notin StudyFrame /\ f \notin Refusal
    BY <2>1 DEF StudyFrame, Refusal
  <2>3. SeesHands(m, w, Append(d, f), s.hands, k)
    BY <1>4, <2>1, HandsSeen DEF Sees, IsRoom
  <2>. HIDE DEF f
  <2>4. SeesMembers(m, Append(d, f), s.members, k)
    BY <1>4, <2>1, MembersSeen DEF Sees
  <2>5. SeesStudy(m, Append(d, f), s.study)
    BY <1>4, <2>1, <2>2, StudySeen DEF Sees, IsRoom
  <2>6. AwaitsAnswer(m, u, Append(d, f)) /\ Enters(m, u, Append(d, f))
    BY <2>1, <2>2, AnswerAwaited, StillEnters DEF Sees
  <2>7. Append(d, f) \in Seq(DownFrame)
    BY <2>1, AppendsAt
  <2>8. AwaitsAnswer(m, w, Append(d, f)) /\ Enters(m, w, Append(d, f))
    BY <1>4, <2>6, <2>7, AnswerAwaited, StillEnters
  <2>9. Sees(m, w, Append(d, f), s, k)
    BY <2>3, <2>4, <2>5, <2>8 DEF Sees
  <2>. QED
    BY <2>9 DEF f
<1>5. ASSUME NEW w, NEW id \in RequestId, StudyChanges(m, u, w, r, s, id)
      PROVE  Sees(m, w, Append(d, StudyState(id, s.study)), s, k)
  <2>. USE DEF StudyChanges
  <2>. DEFINE f == StudyState(id, s.study)
  <2>1. s.study \in Nat /\ f \in DownFrame /\ f.type = "study.state" /\ f.id = id
    BY <1>5, FramesMade, Kinds DEF IsRoom
  <2>2. f \notin HandFrame /\ f \notin Refusal /\ (id = "update" => f \in Answer)
    BY <2>1 DEF HandFrame, StudyFrame, Refusal, Answer
  <2>3. SeesStudy(m, Append(d, f), s.study)
    BY <1>5, <2>1, StudySeen DEF Sees, IsRoom
  <2>. HIDE DEF f
  <2>4. SeesMembers(m, Append(d, f), s.members, k)
    BY <1>5, <2>1, MembersSeen DEF Sees
  <2>5. SeesHands(m, u, Append(d, f), s.hands, k)
    BY <1>5, <2>1, <2>2, HandsSeen DEF Sees, IsRoom
  <2>6. Append(d, f) \in Seq(DownFrame)
    BY <2>1, AppendsAt
  <2>7. SeesHands(m, w, Append(d, f), s.hands, k)
    BY <1>5, <2>5, <2>6, HandsSeen DEF IsRoom
  <2>8. Enters(m, u, Append(d, f))
    BY <2>1, <2>2, StillEnters DEF Sees
  <2>9. Enters(m, w, Append(d, f))
    BY <1>5, <2>6, <2>8, StillEnters
  <2>10. AwaitsAnswer(m, w, Append(d, f))
    <3>1. CASE id = "update"
      BY <2>1, <2>2, <3>1, AnswerAwaited DEF Sees
    <3>2. CASE Has(u, Command) => Has(w, Command)
      BY <2>1, <2>6, <3>2, AnswerAwaited DEF Sees
    <3>. QED
      BY <1>5, <3>1, <3>2
  <2>11. Sees(m, w, Append(d, f), s, k)
    BY <2>3, <2>4, <2>7, <2>9, <2>10 DEF Sees
  <2>. QED
    BY <2>11 DEF f
<1>. QED
  BY <1>2, <1>3, <1>4, <1>5

-----------------------------------------------------------------------------
(* What the server tells                                                   *)

\* A member leaves a room.
LEMMA WithoutOne ==
  ASSUME NoneAssumption, NEW r, IsRoom(r), NEW j, NEW kept \in BOOLEAN,
         NEW s, s = Without(r, j, kept)
  PROVE  /\ IsRoom(s) /\ s.members = r.members \ {j}
         /\ s.members # {} => /\ s.study = r.study
                              /\ Raised(r, j) => s.hands = Lowered(r.hands, j)
                              /\ ~Raised(r, j) => s.hands = r.hands
         /\ Raised(r, j) => /\ r.hands \in Hands /\ Lowered(r.hands, j) \in Hands
                            /\ r.hands.revision <= Lowered(r.hands, j).revision
                            /\ j \in r.members /\ Lowered(r.hands, j) # None
<1>1. ASSUME Raised(r, j)
      PROVE  /\ r.hands \in Hands /\ Lowered(r.hands, j) \in Hands
             /\ r.hands.revision <= Lowered(r.hands, j).revision
             /\ j \in r.members /\ Lowered(r.hands, j) # None
             /\ Lowered(r.hands, j).raised = r.hands.raised \ {j}
  <2>1. r.hands \in Hands /\ j \in r.members
    BY <1>1 DEF Raised, IsRoom
  <2>2. r.hands.revision \in Nat /\ r.hands.raised \subseteq Peer
    BY <2>1 DEF Hands
  <2>3. Lowered(r.hands, j) = [revision |-> r.hands.revision + 1, raised |-> r.hands.raised \ {j}]
    BY DEF Lowered
  <2>4. /\ Lowered(r.hands, j).revision = r.hands.revision + 1
        /\ Lowered(r.hands, j).raised = r.hands.raised \ {j}
        /\ Lowered(r.hands, j) \in Hands
    BY <2>2, <2>3 DEF Hands
  <2>5. \A h \in Hands : h # None
    BY NoneAssumption DEF Hands
  <2>. QED
    BY <2>1, <2>2, <2>4, <2>5
<1>2. /\ DOMAIN s = {"members", "hands", "study"} /\ s.members = r.members \ {j}
      /\ s.hands = IF r.members \ {j} = {} THEN None
                   ELSE IF Raised(r, j) THEN Lowered(r.hands, j) ELSE r.hands
      /\ s.study = IF r.members \ {j} = {} /\ ~kept THEN None ELSE r.study
  BY DEF Without
<1>3. s.members \subseteq Peer /\ s.study \in Nat \cup {None}
  BY <1>2 DEF IsRoom
<1>4. s.hands \in Hands \cup {None} /\ (s.hands # None => s.hands.raised \subseteq s.members)
  <2>1. CASE r.members \ {j} = {}
    BY <1>2, <2>1
  <2>2. CASE r.members \ {j} # {} /\ Raised(r, j)
    <3>1. s.hands = Lowered(r.hands, j) /\ s.hands \in Hands
      BY <1>1, <1>2, <2>2
    <3>2. s.hands.raised = r.hands.raised \ {j} /\ r.hands.raised \subseteq r.members
      BY <1>1, <2>2, <3>1 DEF IsRoom, Raised
    <3>. QED
      BY <1>2, <3>1, <3>2
  <2>3. CASE r.members \ {j} # {} /\ ~Raised(r, j)
    BY <1>2, <2>3 DEF IsRoom, Raised
  <2>. QED
    BY <2>1, <2>2, <2>3
<1>5. IsRoom(s)
  BY <1>2, <1>3, <1>4 DEF IsRoom
<1>6. s.members # {} => /\ s.study = r.study
                        /\ Raised(r, j) => s.hands = Lowered(r.hands, j)
                        /\ ~Raised(r, j) => s.hands = r.hands
  BY <1>2
<1>. QED
  BY <1>1, <1>2, <1>5, <1>6

\* A socket that the server tells something, and that reads it.
Reads(k) == ready[k] = "open" /\ k \notin cut

\* Who is told reads it, if the socket is open.
Told(d, M, f, e) ==
  /\ e \in [Socket -> Seq(DownFrame)]
  /\ \A k \in Socket : /\ k \in M /\ Reads(k) => e[k] = Append(d[k], f)
                       /\ k \notin M \/ ~Reads(k) => e[k] = d[k]

LEMMA TellsNothing ==
  ASSUME NEW d \in [Socket -> Seq(DownFrame)], NEW M
  PROVE  Tell(d, M, <<>>) = d
<1>1. \A k \in Socket : d[k] \o <<>> = d[k]
  OBVIOUS
<1>. QED
  BY <1>1 DEF Tell

LEMMA TellsOne ==
  ASSUME NEW d \in [Socket -> Seq(DownFrame)], NEW M, NEW f \in DownFrame, NEW e, e = Tell(d, M, <<f>>)
  PROVE  Told(d, M, f, e)
<1>1. ASSUME NEW k \in Socket
      PROVE  d[k] \o <<f>> = Append(d[k], f) /\ Append(d[k], f) \in Seq(DownFrame)
  BY AppendsAt
<1>. QED
  BY <1>1 DEF Tell, Reads, Told

LEMMA TellsTwo ==
  ASSUME NEW d \in [Socket -> Seq(DownFrame)], NEW M, NEW f \in DownFrame, NEW g \in DownFrame
  PROVE  Tell(d, M, <<f>> \o <<g>>) = Tell(Tell(d, M, <<f>>), M, <<g>>)
<1>1. ASSUME NEW k \in Socket
      PROVE  d[k] \o (<<f>> \o <<g>>) = (d[k] \o <<f>>) \o <<g>>
  <2>1. <<f>> \in Seq(DownFrame) /\ <<g>> \in Seq(DownFrame) /\ d[k] \in Seq(DownFrame)
    OBVIOUS
  <2>. QED
    BY <2>1, ConcatAssociative
<1>. QED
  BY <1>1 DEF Tell

\* The others are told that a member leaves, and that its hand is down.
Parted(d, r, j, e) ==
  /\ e \in [Socket -> Seq(DownFrame)]
  /\ j \notin r.members => e = d
  /\ \A k \in Socket : k \notin r.members \ {j} \/ ~Reads(k) => e[k] = d[k]
  /\ \A k \in Socket : k \in r.members \ {j} /\ Reads(k) /\ j \in r.members =>
       /\ Raised(r, j) => e[k] = Append(Append(d[k], [type |-> "peer.left", id |-> j]),
                                        HandState(Lowered(r.hands, j)))
       /\ ~Raised(r, j) => e[k] = Append(d[k], [type |-> "peer.left", id |-> j])

LEMMA Farewells ==
  ASSUME NoneAssumption, NEW r, IsRoom(r), NEW j \in Peer, NEW d \in [Socket -> Seq(DownFrame)],
         NEW e, e = Tell(d, r.members \ {j}, Farewell(r, j))
  PROVE  Parted(d, r, j, e)
<1>. DEFINE f == [type |-> "peer.left", id |-> j]
            g == HandState(Lowered(r.hands, j))
            M == r.members \ {j}
<1>1. f \in DownFrame /\ (Raised(r, j) => g \in DownFrame)
  <2>1. PICK s : s = Without(r, j, TRUE)
    OBVIOUS
  <2>2. Raised(r, j) => Lowered(r.hands, j) \in Hands
    BY <2>1, WithoutOne
  <2>. QED
    BY <2>2, FramesMade
<1>2. CASE j \notin r.members
  <2>1. Farewell(r, j) = <<>>
    BY <1>2 DEF Farewell
  <2>2. e = d
    BY <2>1, TellsNothing
  <2>. QED
    BY <1>2, <2>2 DEF Parted
<1>3. CASE j \in r.members /\ ~Raised(r, j)
  <2>1. Farewell(r, j) = <<f>> \o <<>>
    BY <1>3 DEF Farewell
  <2>2. <<f>> \o <<>> = <<f>>
    OBVIOUS
  <2>3. e = Tell(d, M, <<f>>)
    BY <2>1, <2>2
  <2>. HIDE DEF f, M
  <2>4. Told(d, M, f, e)
    BY <1>1, <2>3, TellsOne
  <2>. QED
    BY <1>3, <2>4 DEF f, M, Told, Parted
<1>4. CASE j \in r.members /\ Raised(r, j)
  <2>1. Farewell(r, j) = <<f>> \o <<g>>
    BY <1>4 DEF Farewell
  <2>2. e = Tell(d, M, <<f>> \o <<g>>)
    BY <2>1
  <2>. HIDE DEF f, g, M
  <2>3. g \in DownFrame
    BY <1>1, <1>4
  <2>4. e = Tell(Tell(d, M, <<f>>), M, <<g>>)
    BY <1>1, <2>2, <2>3, TellsTwo
  <2>5. PICK c : c = Tell(d, M, <<f>>)
    OBVIOUS
  <2>6. Told(d, M, f, c)
    BY <1>1, <2>5, TellsOne
  <2>7. e = Tell(c, M, <<g>>) /\ c \in [Socket -> Seq(DownFrame)]
    BY <2>4, <2>5, <2>6 DEF Told
  <2>8. Told(c, M, g, e)
    BY <2>3, <2>7, TellsOne
  <2>9. /\ e \in [Socket -> Seq(DownFrame)]
        /\ \A k \in Socket : /\ k \in M /\ Reads(k) => e[k] = Append(Append(d[k], f), g)
                             /\ k \notin M \/ ~Reads(k) => e[k] = d[k]
    BY <2>6, <2>8 DEF Told
  <2>. QED
    BY <1>4, <2>9 DEF f, g, M, Parted
<1>. QED
  BY <1>2, <1>3, <1>4

\* A member that stays sees it.
LEMMA LeavingSeen ==
  ASSUME NoneAssumption, NEW m, m.queue \in Hands \cup {None}, m.study \in Nat \cup {None},
         NEW r, IsRoom(r), NEW j \in Peer, NEW d \in [Socket -> Seq(DownFrame)], NEW kept \in BOOLEAN,
         NEW k \in Socket, k \in r.members, k # j, Reads(k), NEW u, Sees(m, u, d[k], r, k)
  PROVE  Sees(m, u, Tell(d, r.members \ {j}, Farewell(r, j))[k], Without(r, j, kept), k)
<1>1. PICK s : s = Without(r, j, kept)
  OBVIOUS
<1>2. PICK e : e = Tell(d, r.members \ {j}, Farewell(r, j))
  OBVIOUS
<1>3. /\ IsRoom(s) /\ s.members = r.members \ {j} /\ s.members # {}
      /\ s.study = r.study
      /\ Raised(r, j) => /\ s.hands = Lowered(r.hands, j)
                         /\ r.hands \in Hands /\ s.hands \in Hands
                         /\ r.hands.revision <= s.hands.revision
                         /\ j \in r.members /\ s.hands # None
      /\ ~Raised(r, j) => s.hands = r.hands
  BY <1>1, WithoutOne
<1>6. Parted(d, r, j, e)
  BY <1>2, Farewells
<1>7. Raised(r, j) => j \in r.members
  BY <1>3
<1>4. CASE j \notin r.members
  <2>1. s.members = r.members /\ s.hands = r.hands /\ e = d
    BY <1>3, <1>4, <1>6, <1>7 DEF Parted
  <2>. QED
    BY <1>1, <1>2, <1>3, <2>1 DEF Sees
<1>5. CASE j \in r.members
  <2>. DEFINE f == [type |-> "peer.left", id |-> j]
              g == HandState(Lowered(r.hands, j))
  <2>1. d[k] \in Seq(DownFrame) /\ f \in DownFrame
    BY FramesMade
  <2>2. CASE ~Raised(r, j)
    <3>1. s.hands = r.hands /\ e[k] = Append(d[k], f)
      BY <1>3, <1>5, <1>6, <2>2 DEF Parted
    <3>2. Sees(m, u, Append(d[k], f), s, k)
      BY <1>3, <2>1, <3>1, FrameSeen
    <3>. QED
      BY <1>1, <1>2, <3>1, <3>2
  <2>3. CASE Raised(r, j)
    <3>1. s.hands = Lowered(r.hands, j) /\ e[k] = Append(Append(d[k], f), g)
      BY <1>3, <1>5, <1>6, <2>3 DEF Parted
    <3>2. /\ r.hands \in Hands /\ s.hands \in Hands /\ r.hands.revision <= s.hands.revision
          /\ s.hands # None /\ s.hands.raised \subseteq s.members
      BY <1>3, <2>3 DEF IsRoom
    <3>3. PICK M : M = r.members \ {j}
      OBVIOUS
    <3>4. SeesMembers(m, Append(d[k], f), M, k)
      BY <2>1, <3>3, MembersSeen DEF Sees
    <3>5. /\ f \notin HandFrame /\ f \notin StudyFrame /\ f \notin Refusal
      BY DEF HandFrame, StudyFrame, Refusal
    <3>6. PICK c : c = Append(d[k], f)
      OBVIOUS
    <3>. HIDE DEF f
    <3>7. c \in Seq(DownFrame)
      BY <2>1, <3>6, AppendsAt
    <3>8. SeesHands(m, u, c, r.hands, k)
      BY <2>1, <3>5, <3>6, HandsSeen DEF Sees, IsRoom
    <3>9. SeesStudy(m, c, s.study)
      BY <1>3, <2>1, <3>5, <3>6, StudySeen DEF Sees, IsRoom
    <3>10. AwaitsAnswer(m, u, c) /\ Enters(m, u, c)
      BY <2>1, <3>5, <3>6, AnswerAwaited, StillEnters DEF Sees
    <3>11. g \in DownFrame /\ g.type = "hand.state" /\ g = HandState(s.hands)
      BY <3>1, <3>2, FramesMade, Kinds
    <3>12. g \notin StudyFrame /\ g \notin Refusal
      BY <3>11 DEF StudyFrame, Refusal
    <3>. HIDE DEF g
    <3>13. SeesMembers(m, Append(c, g), M, k)
      BY <3>4, <3>6, <3>7, <3>11, MembersSeen
    <3>14. SeesHands(m, u, Append(c, HandState(s.hands)), s.hands, k)
      BY <3>2, <3>7, <3>8, HandsSeen
    <3>15. SeesStudy(m, Append(c, g), s.study)
      BY <1>3, <3>7, <3>9, <3>11, <3>12, StudySeen DEF IsRoom
    <3>16. AwaitsAnswer(m, u, Append(c, g)) /\ Enters(m, u, Append(c, g))
      BY <3>7, <3>10, <3>11, <3>12, AnswerAwaited, StillEnters
    <3>17. Sees(m, u, Append(c, g), s, k)
      BY <1>3, <3>3, <3>11, <3>13, <3>14, <3>15, <3>16 DEF Sees
    <3>. QED
      BY <1>1, <1>2, <3>1, <3>6, <3>17 DEF f, g
  <2>. QED
    BY <2>2, <2>3
<1>. QED
  BY <1>4, <1>5

-----------------------------------------------------------------------------
(* The invariant                                                           *)

Joining == {f \in UpFrame : f.type = "join"}
Work == {f \in UpFrame : f.type \in {"hand", "study"}}
Ending == {f \in UpFrame : f.type \in {"leave", "close"}}

\* A client joins before anything else, and asks for nothing once it leaves.
InOrder(u) ==
  \A i, j \in 1..Len(u) :
    i < j => u[j] \notin Joining /\ (u[i].type = "leave" => u[j] \notin Work)

\* A client that has not joined is no member, and knows of no id; the requests
\* of a member are on the way; only a socket that is closed has an end on it.
Lines(k) ==
  /\ conn[k] # "open" \/ k \in cut => up[k] = <<>>
  /\ ready[k] \in {"none", "connecting"} => conn[k] = "none"
  /\ ready[k] = "open" => conn[k] # "none"
  /\ down[k] # <<>> => Reads(k)
  /\ InOrder(up[k])
  /\ Has(up[k], Joining) => k \notin room.members /\ k \notin known /\ down[k] = <<>>
  /\ Has(up[k], Work) => k \in room.members
  /\ Has(up[k], Ending) => ready[k] = "closed"
  /\ k \in room.members => conn[k] # "none"

UpFit == \A k \in Socket : Lines(k)

\* Socket x is no member any more, and will not be one again.
Never(x) == conn[x] # "none" /\ x \notin room.members /\ ~Has(up[x], Joining)

\* The client has not had more ids than its memory holds.
Small == Cardinality(known) <= MaxStale + (IF me.self = None THEN 0 ELSE 1)

\* The frames socket k may read, and those that confirm its join.
Ok(k) ==
  {f \in DownFrame :
     /\ f.type # "joined"
     /\ f.type = "peer.joined" => f.id \notin known /\ f.id # k
     /\ f.type = "peer.left" => f.id # k /\ (f.id \in Socket => Never(f.id))}
OkFirst(k) ==
  {f \in Entry : /\ me.self = None /\ f.id = k /\ k \notin f.members
                 /\ Small /\ ~me.disposed => f.members \cap known \subseteq Range(me.stale)}

FramesIn(d, A, B) ==
  \A k \in Socket : \A i \in 1..Len(d[k]) : d[k][i] \in A[k] \/ (i = 1 /\ d[k][1] \in B[k])

DownFit ==
  \A k \in Socket : \A i \in 1..Len(down[k]) :
    down[k][i] \in Ok(k) \/ (i = 1 /\ down[k][1] \in OkFirst(k))

\* An earlier self is in the memory until the room has seen it off.
Memory ==
  /\ Range(me.stale) \subseteq known
  /\ \A i, j \in 1..Len(me.stale) : me.stale[i] = me.stale[j] => i = j
  /\ me.self \notin Range(me.stale)
  /\ me.roster \cap Range(me.stale) = {}
  /\ \A k \in known : conn[k] # "none"
  /\ me.bound \in known => me.self = me.bound
  /\ Small /\ ~me.disposed =>
       \A x \in known \ {me.self} : x \in Range(me.stale) \/ (Never(x) /\ x \notin me.roster)

\* A session is in a room with the id of its socket, or shows nothing.
Began ==
  /\ me.self # None <=> me.status = "active"
  /\ me.self = None =>
       me.roster = {} /\ me.queue = None /\ me.study = None /\ me.command = None
  /\ me.self # None => me.self = me.bound /\ me.self \in known /\ me.task.at = "none"
  /\ me.disposed => me.self = None
  /\ me.task.at # "none" /\ ~me.disposed =>
       me.task.kind = "join" \/ (me.task.kind = "reconnect" /\ me.status = "reconnecting")
  /\ me.task.at = "joining" /\ me.task.kind = "join" => me.status = "joining"
  /\ me.bound # None =>
       /\ me.task.at = "opening" => ready[me.bound] = "connecting"
       /\ me.task.at # "opening" => ready[me.bound] = "open"
       /\ me.self = None /\ me.task.at # "opening" => me.task.at = "joining"
  /\ \A k \in Socket : k > gens => ready[k] = "none"

\* Both ends of socket k are open, and nothing is lost between them.
Live(k) == k = me.bound /\ Reads(k) /\ conn[k] = "open"

\* As long as that is so, a member sees the room, and nobody else is told that
\* it is one.
LiveFits ==
  \A k \in Socket :
    Live(k) => /\ k \in room.members => Sees(me, up[k], down[k], room, k)
               /\ k \notin room.members => me.self = None /\ ~Has(down[k], Entry)

ViewFits ==
  /\ SocketsFit /\ NetTyped /\ IsRoom(room) /\ IsClient(me) /\ Began
  /\ UpFit /\ DownFit /\ Memory /\ LiveFits

-----------------------------------------------------------------------------
(* Steps of the server                                                     *)

\* How a step of the server treats a socket: its requests are taken one by one
\* or given up, a member has joined or left by such a request or has lost its
\* connection, and nobody is told anything before it has joined.
SocketStep(k) ==
  /\ conn'[k] = conn[k] \/ (conn[k] = "open" /\ conn'[k] = "gone" /\ up'[k] = <<>>)
  /\ up'[k] = up[k] \/ up'[k] = <<>> \/ (up[k] # <<>> /\ up'[k] = Tail(up[k]))
  /\ k \in room'.members /\ k \notin room.members =>
       up[k] # <<>> /\ Head(up[k]) \in Joining /\ up'[k] = Tail(up[k]) /\ conn'[k] = conn[k]
  /\ k \in room.members /\ k \notin room'.members =>
       up'[k] = <<>> \/ (up[k] # <<>> /\ Head(up[k]).type = "leave" /\ up'[k] = Tail(up[k]))
  /\ down'[k] = down[k] \/ (Reads(k) /\ ~Has(up'[k], Joining))

ServerStep ==
  /\ UNCHANGED <<me, gens, ready, cut, known>>
  /\ NetTyped' /\ IsRoom(room')
  /\ \A k \in Socket : SocketStep(k)

\* A sequence of requests stays in order.
LEMMA OrderKept ==
  ASSUME NEW u \in Seq(UpFrame)
  PROVE  /\ InOrder(<<>>) /\ (u # <<>> /\ InOrder(u) => InOrder(Tail(u)) /\ ~Has(Tail(u), Joining))
         /\ u # <<>> /\ InOrder(u) /\ Head(u).type = "leave" => ~Has(Tail(u), Work)
         /\ \A f \in UpFrame : InOrder(u) /\ f \notin Joining /\ (f \in Work => ~Has(u, Ending)) =>
              InOrder(Append(u, f))
         /\ \A f \in UpFrame : InOrder(<<f>>)
<1>1. InOrder(<<>>)
  BY DEF InOrder
<1>2. ASSUME u # <<>>, InOrder(u)
      PROVE  /\ InOrder(Tail(u)) /\ ~Has(Tail(u), Joining)
             /\ Head(u).type = "leave" => ~Has(Tail(u), Work)
  <2>1. /\ \A i \in 1..Len(Tail(u)) : Tail(u)[i] = u[i + 1] /\ i + 1 \in 1..Len(u) /\ 1 < i + 1
        /\ Head(u) = u[1] /\ 1 \in 1..Len(u)
    BY <1>2, TailsAt
  <2>2. \A i \in 1..Len(Tail(u)) : /\ Tail(u)[i] \notin Joining
                                   /\ Head(u).type = "leave" => Tail(u)[i] \notin Work
    BY <1>2, <2>1 DEF InOrder
  <2>3. \A i, j \in 1..Len(Tail(u)) :
          i < j => Tail(u)[j] \notin Joining /\ (Tail(u)[i].type = "leave" => Tail(u)[j] \notin Work)
    BY <1>2, <2>1 DEF InOrder
  <2>. QED
    BY <2>2, <2>3 DEF InOrder, Has
<1>3. ASSUME NEW f \in UpFrame, InOrder(u), f \notin Joining, f \in Work => ~Has(u, Ending)
      PROVE  InOrder(Append(u, f))
  <2>1. ASSUME NEW i \in 1..Len(Append(u, f)), NEW j \in 1..Len(Append(u, f)), i < j
        PROVE  /\ Append(u, f)[j] \notin Joining
               /\ Append(u, f)[i].type = "leave" => Append(u, f)[j] \notin Work
    <3>1. i \in 1..Len(u) /\ Append(u, f)[i] = u[i] /\ u[i] \in UpFrame
      BY <2>1, AppendsAt
    <3>2. CASE j \in 1..Len(u)
      BY <1>3, <2>1, <3>1, <3>2, AppendsAt DEF InOrder
    <3>3. CASE j = Len(u) + 1
      <4>1. Append(u, f)[j] = f
        BY <3>3, AppendsAt
      <4>2. u[i].type = "leave" => Has(u, Ending)
        BY <3>1 DEF Has, Ending
      <4>. QED
        BY <1>3, <3>1, <4>1, <4>2
    <3>. QED
      BY <2>1, <3>2, <3>3, AppendsAt
  <2>. QED
    BY <2>1 DEF InOrder
<1>4. ASSUME NEW f \in UpFrame PROVE InOrder(<<f>>)
  BY DEF InOrder
<1>. QED
  BY <1>1, <1>2, <1>3, <1>4

\* Who will not be a member again stays so.
LEMMA NeverStays ==
  ASSUME ServerStep, UpFit, NetTyped, NEW x \in Socket, Never(x)
  PROVE  Never(x)'
<1>1. SocketStep(x) /\ Lines(x) /\ up[x] \in Seq(UpFrame)
  BY DEF ServerStep, UpFit, NetTyped
<1>2. conn'[x] # "none"
  BY <1>1 DEF SocketStep, Never
<1>3. up[x] # <<>> => Head(up[x]) \notin Joining /\ ~Has(Tail(up[x]), Joining)
  BY <1>1, HasAfter DEF Never
<1>4. x \notin room'.members
  BY <1>1, <1>3 DEF SocketStep, Never
<1>5. ~Has(up'[x], Joining)
  BY <1>1, <1>3, HasAfter DEF SocketStep, Never
<1>. QED
  BY <1>2, <1>4, <1>5 DEF Never

\* The lines of a socket after a step of the server.
LEMMA LinesStay ==
  ASSUME ServerStep, UpFit, NetTyped, NEW k \in Socket
  PROVE  Lines(k)'
<1>1. SocketStep(k) /\ Lines(k) /\ up[k] \in Seq(UpFrame)
  BY DEF ServerStep, UpFit, NetTyped
<1>2. ready' = ready /\ cut' = cut /\ known' = known
  BY DEF ServerStep
<1>3. /\ InOrder(<<>>) /\ (up[k] # <<>> => InOrder(Tail(up[k])) /\ ~Has(Tail(up[k]), Joining))
      /\ up[k] # <<>> /\ Head(up[k]).type = "leave" => ~Has(Tail(up[k]), Work)
  BY <1>1, OrderKept DEF Lines
<1>4. InOrder(up'[k])
  BY <1>1, <1>3 DEF SocketStep, Lines
<1>5. \A T : Has(up'[k], T) => Has(up[k], T)
  BY <1>1, HasAfter DEF SocketStep
<1>6. conn'[k] # "open" \/ k \in cut => up'[k] = <<>>
  <2>1. conn[k] # "open" \/ k \in cut => up[k] = <<>>
    BY <1>1 DEF Lines
  <2>. QED
    BY <1>1, <2>1 DEF SocketStep
<1>7. (ready[k] \in {"none", "connecting"} => conn'[k] = "none") /\ (ready[k] = "open" => conn'[k] # "none")
  BY <1>1 DEF Lines, SocketStep
<1>8. down'[k] # <<>> => Reads(k)
  BY <1>1 DEF Lines, SocketStep
<1>9. Has(up'[k], Joining) => k \notin room'.members /\ k \notin known /\ down'[k] = <<>>
  <2>1. ASSUME Has(up'[k], Joining)
        PROVE  k \notin room'.members
    <3>1. Has(up[k], Joining) /\ k \notin room.members
      BY <1>1, <1>5, <2>1 DEF Lines
    <3>2. up'[k] # Tail(up[k]) \/ up[k] = <<>>
      BY <1>3, <2>1
    <3>. QED
      BY <1>1, <3>1, <3>2 DEF SocketStep
  <2>2. ASSUME Has(up'[k], Joining)
        PROVE  k \notin known /\ down'[k] = <<>>
    BY <1>1, <1>5, <2>2 DEF Lines, SocketStep
  <2>. QED
    BY <2>1, <2>2
<1>10. Has(up'[k], Work) => k \in room'.members
  <2>1. ASSUME Has(up'[k], Work), k \notin room'.members
        PROVE  FALSE
    <3>1. k \in room.members
      BY <1>1, <1>5, <2>1 DEF Lines
    <3>2. up'[k] = <<>> \/ (up[k] # <<>> /\ Head(up[k]).type = "leave" /\ up'[k] = Tail(up[k]))
      BY <1>1, <2>1, <3>1 DEF SocketStep
    <3>3. ~Has(<<>>, Work)
      BY <1>1, HasAfter
    <3>. QED
      BY <1>3, <2>1, <3>2, <3>3
  <2>. QED
    BY <2>1
<1>11. Has(up'[k], Ending) => ready[k] = "closed"
  BY <1>1, <1>5 DEF Lines
<1>12. k \in room'.members => conn'[k] # "none"
  <2>1. up[k] # <<>> => conn[k] = "open"
    BY <1>1 DEF Lines
  <2>. QED
    BY <1>1, <2>1 DEF SocketStep, Lines
<1>. QED
  BY <1>2, <1>4, <1>6, <1>7, <1>8, <1>9, <1>10, <1>11, <1>12 DEF Lines, Reads

\* What the session is and remembers is not touched.
LEMMA ServerKeeps ==
  ASSUME ServerStep, ViewFits
  PROVE  /\ SocketsFit' /\ IsClient(me') /\ Began' /\ UpFit' /\ Memory'
         /\ FramesIn(down, [k \in Socket |-> Ok(k)'], [k \in Socket |-> OkFirst(k)'])
<1>1. UNCHANGED <<me, gens, ready, cut, known>>
  BY DEF ServerStep
<1>2. SocketsFit' /\ IsClient(me') /\ Began'
  BY <1>1 DEF ViewFits, SocketsFit, Began
<1>3. UpFit'
  BY LinesStay DEF UpFit, ViewFits
<1>4. \A x \in Socket : Never(x) => Never(x)'
  BY NeverStays DEF ViewFits
<1>5. Memory'
  <2>1. Memory /\ known \subseteq Socket
    BY DEF ViewFits, NetTyped
  <2>2. \A k \in known : conn'[k] # "none"
    BY <2>1 DEF Memory, ServerStep, SocketStep
  <2>3. Small' <=> Small
    BY <1>1 DEF Small
  <2>4. Small /\ ~me.disposed =>
          \A x \in known \ {me.self} : x \in Range(me.stale) \/ (Never(x)' /\ x \notin me.roster)
    BY <1>4, <2>1 DEF Memory
  <2>. QED
    BY <1>1, <2>1, <2>2, <2>3, <2>4 DEF Memory
<1>6. FramesIn(down, [k \in Socket |-> Ok(k)'], [k \in Socket |-> OkFirst(k)'])
  <2>1. ASSUME NEW k \in Socket, NEW f \in Ok(k) PROVE f \in Ok(k)'
    BY <1>1, <1>4, <2>1 DEF Ok
  <2>2. ASSUME NEW k \in Socket, NEW f \in OkFirst(k) PROVE f \in OkFirst(k)'
    BY <1>1, <2>2 DEF OkFirst, Small
  <2>. QED
    BY <2>1, <2>2 DEF FramesIn, DownFit, ViewFits
<1>. QED
  BY <1>2, <1>3, <1>5, <1>6

\* A frame that fits is told.
LEMMA ToldFits ==
  ASSUME NEW d \in [Socket -> Seq(DownFrame)], NEW M, NEW f \in DownFrame, NEW e, Told(d, M, f, e),
         NEW A, NEW B, FramesIn(d, A, B),
         \A k \in Socket : k \in M /\ Reads(k) => f \in A[k] \/ (d[k] = <<>> /\ f \in B[k])
  PROVE  FramesIn(e, A, B)
<1>1. SUFFICES ASSUME NEW k \in Socket, NEW i \in 1..Len(e[k])
               PROVE  e[k][i] \in A[k] \/ (i = 1 /\ e[k][1] \in B[k])
  BY DEF FramesIn
<1>2. CASE k \notin M \/ ~Reads(k)
  BY <1>2 DEF Told, FramesIn
<1>3. CASE k \in M /\ Reads(k)
  <2>1. e[k] = Append(d[k], f) /\ d[k] \in Seq(DownFrame)
    BY <1>3 DEF Told
  <2>2. CASE i \in 1..Len(d[k])
    <3>1. e[k][i] = d[k][i] /\ (i = 1 => e[k][1] = d[k][1])
      BY <2>1, <2>2, AppendsAt
    <3>. QED
      BY <2>2, <3>1 DEF FramesIn
  <2>3. CASE i = Len(d[k]) + 1
    <3>1. e[k][i] = f
      BY <2>1, <2>3, AppendsAt
    <3>2. d[k] = <<>> => i = 1
      BY <2>1, <2>3
    <3>. QED
      BY <1>3, <3>1, <3>2
  <2>. QED
    BY <2>1, <2>2, <2>3, AppendsAt
<1>. QED
  BY <1>2, <1>3

LEMMA PartedFits ==
  ASSUME NEW d \in [Socket -> Seq(DownFrame)], NEW r, NEW j, NEW e, Parted(d, r, j, e),
         NEW A, NEW B, FramesIn(d, A, B), NEW f \in DownFrame, f = [type |-> "peer.left", id |-> j],
         NEW g, g = HandState(Lowered(r.hands, j)), Raised(r, j) => g \in DownFrame,
         \A k \in Socket : k \in r.members \ {j} /\ Reads(k) /\ j \in r.members =>
           f \in A[k] /\ (Raised(r, j) => g \in A[k])
  PROVE  FramesIn(e, A, B)
<1>1. SUFFICES ASSUME NEW k \in Socket, NEW i \in 1..Len(e[k])
               PROVE  e[k][i] \in A[k] \/ (i = 1 /\ e[k][1] \in B[k])
  BY DEF FramesIn
<1>2. CASE e[k] = d[k]
  BY <1>2 DEF FramesIn
<1>3. CASE e[k] # d[k]
  <2>1. k \in r.members \ {j} /\ Reads(k) /\ j \in r.members
    BY <1>3 DEF Parted
  <2>2. f \in A[k] /\ (Raised(r, j) => g \in A[k])
    BY <2>1
  <2>3. PICK c \in Seq(DownFrame) : c = Append(d[k], f)
    BY AppendsAt
  <2>4. \A n \in 1..Len(c) : c[n] \in A[k] \/ (n = 1 /\ c[1] \in B[k])
    <3>1. SUFFICES ASSUME NEW n \in 1..Len(c) PROVE c[n] \in A[k] \/ (n = 1 /\ c[1] \in B[k])
      OBVIOUS
    <3>2. CASE n \in 1..Len(d[k])
      <4>1. c[n] = d[k][n] /\ (n = 1 => c[1] = d[k][1])
        BY <2>3, <3>2, AppendsAt
      <4>. QED
        BY <3>2, <4>1 DEF FramesIn
    <3>3. CASE n = Len(d[k]) + 1
      BY <2>2, <2>3, <3>3, AppendsAt
    <3>. QED
      BY <2>3, <3>2, <3>3, AppendsAt
  <2>5. CASE ~Raised(r, j)
    <3>1. e[k] = c
      BY <2>1, <2>3, <2>5 DEF Parted
    <3>. QED
      BY <2>4, <3>1
  <2>6. CASE Raised(r, j)
    <3>1. e[k] = Append(c, g) /\ g \in DownFrame /\ g \in A[k]
      BY <2>1, <2>2, <2>3, <2>6 DEF Parted
    <3>2. CASE i \in 1..Len(c)
      <4>1. e[k][i] = c[i] /\ (i = 1 => e[k][1] = c[1])
        BY <3>1, <3>2, AppendsAt
      <4>. QED
        BY <2>4, <3>2, <4>1
    <3>3. CASE i = Len(c) + 1
      BY <3>1, <3>3, AppendsAt
    <3>. QED
      BY <3>1, <3>2, <3>3, AppendsAt
  <2>. QED
    BY <2>5, <2>6
<1>. QED
  BY <1>2, <1>3

\* What is left to show of a step of the server.
LiveSees ==
  \A k \in Socket :
    Live(k)' => /\ k \in room'.members => Sees(me, up'[k], down'[k], room', k)
                /\ k \notin room'.members => me.self = None /\ ~Has(down'[k], Entry)

LEMMA ServerDone ==
  ASSUME ServerStep, ViewFits, LiveSees,
         FramesIn(down', [k \in Socket |-> Ok(k)'], [k \in Socket |-> OkFirst(k)'])
  PROVE  ViewFits'
<1>1. DownFit'
  BY DEF FramesIn, DownFit
<1>2. LiveFits'
  <2>1. me' = me
    BY DEF ServerStep
  <2>. QED
    BY <2>1 DEF LiveSees, LiveFits
<1>. QED
  BY <1>1, <1>2, ServerKeeps DEF ViewFits, ServerStep

\* Who is live after a step of the server was so before.
LEMMA LiveBefore ==
  ASSUME ServerStep, NEW k \in Socket, Live(k)'
  PROVE  Live(k) /\ conn'[k] = conn[k]
BY DEF ServerStep, SocketStep, Live, Reads

\* A member leaves, of which the server knows by a request or by itself.
LEMMA LeaveStep ==
  ASSUME ServerStep, ViewFits, NoneAssumption, NEW j \in Peer, NEW kept \in BOOLEAN,
         room' = Without(room, j, kept), down' = Tell(down, room.members \ {j}, Farewell(room, j)),
         j \in Socket => ~Live(j)', \A k \in Socket : k # j => up'[k] = up[k]
  PROVE  ViewFits'
<1>1. IsRoom(room) /\ down \in [Socket -> Seq(DownFrame)] /\ IsClient(me)
  BY DEF ViewFits, NetTyped
<1>2. Parted(down, room, j, down')
  BY <1>1, Farewells
<1>3. room'.members = room.members \ {j} /\ (Raised(room, j) => Lowered(room.hands, j) \in Hands)
  BY <1>1, WithoutOne
<1>4. FramesIn(down', [k \in Socket |-> Ok(k)'], [k \in Socket |-> OkFirst(k)'])
  <2>1. PICK f : f = [type |-> "peer.left", id |-> j]
    OBVIOUS
  <2>2. PICK g : g = HandState(Lowered(room.hands, j))
    OBVIOUS
  <2>3. f \in DownFrame /\ (Raised(room, j) => g \in DownFrame /\ g.type = "hand.state")
    BY <1>3, <2>1, <2>2, FramesMade, Kinds
  <2>4. j \in Socket /\ j \in room.members => Never(j)'
    <3>1. SUFFICES ASSUME j \in Socket, j \in room.members PROVE Never(j)'
      OBVIOUS
    <3>2. Lines(j) /\ SocketStep(j) /\ up[j] \in Seq(UpFrame)
      BY <3>1 DEF ViewFits, UpFit, ServerStep, NetTyped
    <3>3. conn'[j] # "none" /\ ~Has(up[j], Joining)
      BY <3>1, <3>2 DEF Lines, SocketStep
    <3>4. ~Has(up'[j], Joining)
      BY <3>2, <3>3, HasAfter DEF SocketStep
    <3>. QED
      BY <1>3, <3>3, <3>4 DEF Never
  <2>5. \A k \in Socket : k \in room.members \ {j} /\ Reads(k) /\ j \in room.members =>
          f \in Ok(k)' /\ (Raised(room, j) => g \in Ok(k)')
    BY <2>1, <2>3, <2>4 DEF Ok
  <2>. DEFINE A == [k \in Socket |-> Ok(k)']
              B == [k \in Socket |-> OkFirst(k)']
  <2>6. FramesIn(down, A, B)
    BY ServerKeeps
  <2>7. \A k \in Socket : k \in room.members \ {j} /\ Reads(k) /\ j \in room.members =>
          f \in A[k] /\ (Raised(room, j) => g \in A[k])
    BY <2>5
  <2>. HIDE DEF A, B
  <2>8. FramesIn(down', A, B)
    BY <1>1, <1>2, <2>1, <2>2, <2>3, <2>6, <2>7, PartedFits
  <2>. QED
    BY <2>8 DEF A, B
<1>5. LiveSees
  <2>1. SUFFICES ASSUME NEW k \in Socket, Live(k)'
                 PROVE  /\ k \in room'.members => Sees(me, up'[k], down'[k], room', k)
                        /\ k \notin room'.members => me.self = None /\ ~Has(down'[k], Entry)
    BY DEF LiveSees
  <2>2. k # j /\ Live(k) /\ Reads(k) /\ up'[k] = up[k]
    BY <2>1, LiveBefore DEF Live
  <2>3. CASE k \in room.members
    <3>1. Sees(me, up[k], down[k], room, k)
      BY <2>2, <2>3 DEF ViewFits, LiveFits
    <3>2. me.queue \in Hands \cup {None} /\ me.study \in Nat \cup {None}
      BY <1>1 DEF IsClient
    <3>3. Sees(me, up[k], Tell(down, room.members \ {j}, Farewell(room, j))[k], Without(room, j, kept), k)
      BY <1>1, <2>2, <2>3, <3>1, <3>2, LeavingSeen
    <3>. QED
      BY <1>3, <2>2, <2>3, <3>3
  <2>4. CASE k \notin room.members
    <3>1. down'[k] = down[k] /\ k \notin room'.members
      BY <1>2, <1>3, <2>4 DEF Parted
    <3>. QED
      BY <2>2, <2>4, <3>1 DEF ViewFits, LiveFits
  <2>. QED
    BY <2>3, <2>4
<1>. QED
  BY <1>4, <1>5, ServerDone

\* A socket of which only the member hears something.
LEMMA MembersHear ==
  ASSUME ViewFits, NEW k \in Socket, up'[k] = up[k] \/ up'[k] = <<>> \/ (up[k] # <<>> /\ up'[k] = Tail(up[k])),
         down'[k] # down[k] => k \in room.members /\ Reads(k)
  PROVE  down'[k] = down[k] \/ (Reads(k) /\ ~Has(up'[k], Joining))
<1>1. up[k] \in Seq(UpFrame) /\ Lines(k)
  BY DEF ViewFits, NetTyped, UpFit
<1>2. Has(up'[k], Joining) => Has(up[k], Joining)
  BY <1>1, HasAfter
<1>. QED
  BY <1>1, <1>2 DEF Lines

\* What the requests of a connection are after one has been served.
LEMMA ServedLeaves ==
  ASSUME ViewFits, NEW k \in Socket, up[k] # <<>>, Served(k)
  PROVE  /\ up' \in [Socket -> Seq(UpFrame)] /\ up'[k] = Tail(up[k]) /\ conn' = conn
         /\ \A j \in Socket : j # k => up'[j] = up[j]
         /\ Head(up[k]) \in UpFrame /\ 1 \in 1..Len(up[k]) /\ up[k][1] = Head(up[k])
         /\ \A T : Head(up[k]) \in T => Has(up[k], T)
<1>1. up \in [Socket -> Seq(UpFrame)]
  BY DEF ViewFits, NetTyped
<1>2. /\ Tail(up[k]) \in Seq(UpFrame) /\ Head(up[k]) \in UpFrame
      /\ 1 \in 1..Len(up[k]) /\ up[k][1] = Head(up[k])
  BY <1>1, TailsAt
<1>3. up' = [up EXCEPT ![k] = Tail(up[k])] /\ conn' = conn
  BY DEF Served
<1>4. \A T : Head(up[k]) \in T => Has(up[k], T)
  BY <1>2 DEF Has
<1>. QED
  BY <1>1, <1>2, <1>3, <1>4

LEMMA DropFits ==
  ASSUME ViewFits, NoneAssumption, NEW j \in Socket, Drop(j), conn[j] = "open",
         UNCHANGED <<me, gens, ready, cut, known>>
  PROVE  ViewFits'
<1>. DEFINE e == Tell(down, room.members \ {j}, Farewell(room, j))
<1>1. /\ IsRoom(room) /\ down \in [Socket -> Seq(DownFrame)] /\ up \in [Socket -> Seq(UpFrame)]
      /\ conn \in [Socket -> {"none", "open", "gone"}] /\ NetTyped
  BY DEF ViewFits, NetTyped
<1>2. /\ conn' = [conn EXCEPT ![j] = "gone"] /\ up' = [up EXCEPT ![j] = <<>>] /\ down' = e
  BY DEF Drop
<1>3. PICK kept \in BOOLEAN : room' = Without(room, j, kept)
  BY DEF Drop, Retained
<1>4. j \in Peer
  BY DEF Peer
<1>5. Parted(down, room, j, down')
  BY <1>1, <1>2, <1>4, Farewells
<1>6. IsRoom(room') /\ room'.members = room.members \ {j}
  BY <1>1, <1>3, WithoutOne
<1>7. NetTyped'
  <2>1. down' \in [Socket -> Seq(DownFrame)]
    BY <1>5 DEF Parted
  <2>2. up' \in [Socket -> Seq(UpFrame)]
    BY <1>1, <1>2
  <2>3. conn' \in [Socket -> {"none", "open", "gone"}]
    BY <1>1, <1>2
  <2>. QED
    BY <1>1, <2>1, <2>2, <2>3 DEF NetTyped
<1>8. ASSUME NEW k \in Socket PROVE SocketStep(k)
  <2>1. conn'[k] = conn[k] \/ (conn[k] = "open" /\ conn'[k] = "gone" /\ up'[k] = <<>>)
    BY <1>1, <1>2
  <2>2. up'[k] = up[k] \/ up'[k] = <<>>
    BY <1>1, <1>2
  <2>3. down'[k] = down[k] \/ (Reads(k) /\ ~Has(up'[k], Joining))
    BY <1>5, <2>2, MembersHear DEF Parted
  <2>. QED
    BY <1>1, <1>2, <1>6, <2>1, <2>2, <2>3 DEF SocketStep
<1>9. ServerStep
  BY <1>6, <1>7, <1>8 DEF ServerStep
<1>10. ~Live(j)' /\ \A k \in Socket : k # j => up'[k] = up[k]
  BY <1>1, <1>2 DEF Live
<1>. QED
  BY <1>2, <1>3, <1>4, <1>9, <1>10, LeaveStep

LEMMA ServeLeaveFits ==
  ASSUME ViewFits, NoneAssumption, NEW j \in Socket, ServeLeave(j)
  PROVE  ViewFits'
<1>. DEFINE e == Tell(down, room.members \ {j}, Farewell(room, j))
<1>1. /\ IsRoom(room) /\ down \in [Socket -> Seq(DownFrame)] /\ NetTyped
  BY DEF ViewFits, NetTyped
<1>2. /\ UNCHANGED <<me, gens, ready, cut, known>> /\ up[j] # <<>> /\ Head(up[j]).type = "leave"
      /\ Served(j) /\ down' = e /\ room' = Without(room, j, FALSE)
  BY DEF ServeLeave, Serve
<1>3. j \in Peer
  BY DEF Peer
<1>4. /\ up' \in [Socket -> Seq(UpFrame)] /\ up'[j] = Tail(up[j]) /\ conn' = conn
      /\ \A k \in Socket : k # j => up'[k] = up[k]
      /\ Head(up[j]) \in UpFrame /\ \A T : Head(up[j]) \in T => Has(up[j], T)
  BY <1>2, ServedLeaves
<1>5. Parted(down, room, j, down')
  BY <1>1, <1>2, <1>3, Farewells
<1>11. PICK kept \in BOOLEAN : room' = Without(room, j, kept)
  BY <1>2
<1>6. IsRoom(room') /\ room'.members = room.members \ {j}
  BY <1>1, <1>11, WithoutOne
<1>7. NetTyped'
  <2>1. down' \in [Socket -> Seq(DownFrame)]
    BY <1>5 DEF Parted
  <2>. QED
    BY <1>1, <1>2, <1>4, <2>1 DEF NetTyped
<1>8. ASSUME NEW k \in Socket PROVE SocketStep(k)
  <2>1. conn'[k] = conn[k]
    BY <1>4
  <2>2. up'[k] = up[k] \/ up'[k] = <<>> \/ (up[k] # <<>> /\ up'[k] = Tail(up[k]))
    BY <1>2, <1>4
  <2>3. down'[k] = down[k] \/ (Reads(k) /\ ~Has(up'[k], Joining))
    BY <1>5, <2>2, MembersHear DEF Parted
  <2>. QED
    BY <1>2, <1>4, <1>6, <2>1, <2>2, <2>3 DEF SocketStep
<1>9. ServerStep
  BY <1>2, <1>6, <1>7, <1>8 DEF ServerStep
<1>10. ~Live(j)'
  <2>1. Has(up[j], Ending)
    BY <1>2, <1>4 DEF Ending
  <2>2. ready[j] = "closed"
    BY <2>1 DEF ViewFits, UpFit, Lines
  <2>. QED
    BY <1>2, <2>2 DEF Live, Reads
<1>. QED
  BY <1>2, <1>3, <1>4, <1>9, <1>10, <1>11, LeaveStep

LEMMA OtherLeavesFits ==
  ASSUME ViewFits, NoneAssumption, OtherAssumption, NEW q \in Others, OtherLeaves(q)
  PROVE  ViewFits'
<1>. DEFINE e == Tell(down, room.members \ {q}, Farewell(room, q))
<1>1. /\ IsRoom(room) /\ down \in [Socket -> Seq(DownFrame)] /\ NetTyped
  BY DEF ViewFits, NetTyped
<1>2. /\ UNCHANGED <<me, gens, ready, cut, known, conn, up>> /\ down' = e
  BY DEF OtherLeaves, Elsewhere
<1>3. PICK kept \in BOOLEAN : room' = Without(room, q, kept)
  BY DEF OtherLeaves, Retained
<1>4. q \in Peer /\ q \notin Socket
  BY OtherAssumption DEF Peer
<1>5. Parted(down, room, q, down')
  BY <1>1, <1>2, <1>4, Farewells
<1>6. IsRoom(room') /\ room'.members = room.members \ {q}
  BY <1>1, <1>3, WithoutOne
<1>7. NetTyped'
  BY <1>1, <1>2, <1>5 DEF NetTyped, Parted
<1>8. ASSUME NEW k \in Socket PROVE SocketStep(k)
  <2>1. down'[k] = down[k] \/ (Reads(k) /\ ~Has(up'[k], Joining))
    BY <1>2, <1>5, MembersHear DEF Parted
  <2>. QED
    BY <1>2, <1>4, <1>6, <2>1 DEF SocketStep
<1>9. ServerStep
  BY <1>2, <1>6, <1>7, <1>8 DEF ServerStep
<1>. QED
  BY <1>2, <1>3, <1>4, <1>9, LeaveStep

-----------------------------------------------------------------------------
(* A session that is replaced                                              *)

\* The others are told that it has left, and it is told to close; the members
\* that are not replaced see it.
ReplacedBy(S, r, d) ==
  /\ IsRoom(r) /\ r.members \subseteq room.members /\ room.members \ S \subseteq r.members
  /\ d \in [Socket -> Seq(DownFrame)]
  /\ \A k \in Socket : d[k] = down[k] \/ (k \in room.members /\ Reads(k))
  /\ \A k \in Socket : k \in room.members \ S /\ Reads(k) /\ Sees(me, up[k], down[k], room, k) =>
                         Sees(me, up[k], d[k], r, k)

\* What the frames of a replacement fit in.
RoomForThem(S, r, A) ==
  \A k \in Socket : /\ \A f \in DownFrame : f.type \in {"close", "hand.state"} => f \in A[k]
                    /\ \A e \in S \ r.members : e # k => [type |-> "peer.left", id |-> e] \in A[k]

LEMMA Replacing ==
  ASSUME ViewFits, NoneAssumption, NEW S \in SUBSET (room.members \cap (Socket \cup {Tab})),
         NEW r, r = Replaced(S), NEW d, d = ToldReplaced(S)
  PROVE  /\ ReplacedBy(S, r, d)
         /\ \A A, B : FramesIn(down, A, B) /\ RoomForThem(S, r, A) => FramesIn(d, A, B)
<1>1. /\ IsRoom(room) /\ down \in [Socket -> Seq(DownFrame)]
      /\ me.queue \in Hands \cup {None} /\ me.study \in Nat \cup {None}
  BY DEF ViewFits, NetTyped, IsClient
<1>2. CASE S = {}
  <2>1. r = room /\ d = down
    BY <1>2 DEF Replaced, ToldReplaced
  <2>. QED
    BY <1>1, <1>2, <2>1 DEF ReplacedBy
<1>3. CASE S # {}
  <2>. DEFINE x == CHOOSE e \in S : TRUE
  <2>1. PICK e \in S : e = x
    BY <1>3
  <2>2. PICK w : w = Without(room, e, TRUE)
    OBVIOUS
  <2>3. PICK c : c = Tell(down, room.members \ {e}, Farewell(room, e))
    OBVIOUS
  <2>4. PICK f : f = [type |-> "close", code |-> "superseded"]
    OBVIOUS
  <2>5. r = [w EXCEPT !.study = room.study]
    BY <1>3, <2>1, <2>2 DEF Replaced
  <2>6. d = Tell(c, S, <<f>>)
    BY <1>3, <2>1, <2>3, <2>4 DEF ToldReplaced, Supersede
  <2>. HIDE DEF x
  <2>7. e \in Peer /\ e \in room.members
    BY <2>1 DEF Peer
  <2>8. PICK kept \in BOOLEAN : kept = TRUE
    OBVIOUS
  <2>9. w = Without(room, e, kept)
    BY <2>2, <2>8
  <2>10. /\ IsRoom(w) /\ w.members = room.members \ {e}
         /\ w.members # {} => w.study = room.study
         /\ Raised(room, e) => Lowered(room.hands, e) \in Hands
    BY <1>1, <2>7, <2>9, WithoutOne
  <2>11. r.members = w.members /\ r.hands = w.hands /\ r.study = room.study /\ DOMAIN r = DOMAIN w
    BY <2>5, <2>10 DEF IsRoom
  <2>12. IsRoom(r)
    BY <1>1, <2>10, <2>11 DEF IsRoom
  <2>13. Parted(down, room, e, c)
    BY <1>1, <2>3, <2>7, Farewells
  <2>14. c \in [Socket -> Seq(DownFrame)]
    BY <2>13 DEF Parted
  <2>15. f \in DownFrame /\ f.type = "close"
    <3>1. "superseded" \in Code
      BY DEF Code
    <3>. QED
      BY <2>4, <3>1, FramesMade
  <2>16. Told(c, S, f, d)
    BY <2>6, <2>14, <2>15, TellsOne
  <2>17. d \in [Socket -> Seq(DownFrame)]
    BY <2>16 DEF Told
  <2>18. \A k \in Socket : d[k] = down[k] \/ (k \in room.members /\ Reads(k))
    BY <2>13, <2>16 DEF Told, Parted
  <2>19. ASSUME NEW k \in Socket, k \in room.members \ S, Reads(k), Sees(me, up[k], down[k], room, k)
         PROVE  Sees(me, up[k], d[k], r, k)
    <3>1. k # e /\ d[k] = c[k] /\ r.members = w.members /\ r.hands = w.hands /\ r.study = w.study
      BY <2>1, <2>10, <2>11, <2>16, <2>19 DEF Told
    <3>2. Sees(me, up[k], Tell(down, room.members \ {e}, Farewell(room, e))[k], Without(room, e, kept), k)
      BY <1>1, <2>7, <2>19, <3>1, LeavingSeen
    <3>. QED
      BY <2>3, <2>9, <3>1, <3>2 DEF Sees
  <2>20. ReplacedBy(S, r, d)
    BY <2>1, <2>10, <2>11, <2>12, <2>17, <2>18, <2>19 DEF ReplacedBy
  <2>21. ASSUME NEW A, NEW B, FramesIn(down, A, B), RoomForThem(S, r, A)
         PROVE  FramesIn(d, A, B)
    <3>1. PICK p \in DownFrame : p = [type |-> "peer.left", id |-> e]
      BY <2>7, FramesMade
    <3>2. PICK g : g = HandState(Lowered(room.hands, e))
      OBVIOUS
    <3>3. Raised(room, e) => g \in DownFrame /\ g.type = "hand.state"
      BY <2>10, <3>2, FramesMade, Kinds
    <3>4. e \in S \ r.members
      BY <2>1, <2>10, <2>11
    <3>5. \A k \in Socket : k \in room.members \ {e} /\ Reads(k) /\ e \in room.members =>
            p \in A[k] /\ (Raised(room, e) => g \in A[k])
      BY <2>21, <3>1, <3>3, <3>4 DEF RoomForThem
    <3>6. FramesIn(c, A, B)
      BY <1>1, <2>13, <2>21, <3>1, <3>2, <3>3, <3>5, PartedFits
    <3>7. \A k \in Socket : f \in A[k]
      BY <2>15, <2>21 DEF RoomForThem
    <3>. QED
      BY <2>14, <2>15, <2>16, <3>6, <3>7, ToldFits
  <2>. QED
    BY <2>20, <2>21
<1>. QED
  BY <1>2, <1>3

-----------------------------------------------------------------------------
(* The requests and the other members                                      *)

\* The members M are told f.
LEMMA ToldStep ==
  ASSUME ViewFits, ServerStep, LiveSees, NEW M, NEW f \in DownFrame, Told(down, M, f, down'),
         \A k \in Socket : k \in M /\ Reads(k) => f \in Ok(k)' \/ (down[k] = <<>> /\ f \in OkFirst(k)')
  PROVE  ViewFits'
<1>. DEFINE A == [k \in Socket |-> Ok(k)']
            B == [k \in Socket |-> OkFirst(k)']
<1>1. FramesIn(down, A, B) /\ down \in [Socket -> Seq(DownFrame)]
  BY ServerKeeps DEF ViewFits, NetTyped
<1>2. \A k \in Socket : k \in M /\ Reads(k) => f \in A[k] \/ (down[k] = <<>> /\ f \in B[k])
  OBVIOUS
<1>. HIDE DEF A, B
<1>3. FramesIn(down', A, B)
  BY <1>1, <1>2, ToldFits
<1>. QED
  BY <1>3, ServerDone DEF A, B

\* A frame about hands or the study, or the end, fits always.
LEMMA PlainFits ==
  ASSUME NEW k \in Socket, NEW f \in DownFrame, f.type \in {"hand.state", "study.state", "close", "error"}
  PROVE  f \in Ok(k)'
BY DEF Ok

LEMMA OtherJoinsFits ==
  ASSUME ViewFits, NoneAssumption, OtherAssumption, NEW q \in Others, OtherJoins(q)
  PROVE  ViewFits'
<1>1. /\ IsRoom(room) /\ down \in [Socket -> Seq(DownFrame)] /\ NetTyped
      /\ me.queue \in Hands \cup {None} /\ me.study \in Nat \cup {None}
  BY DEF ViewFits, NetTyped, IsClient
<1>2. PICK f : f = [type |-> "peer.joined", id |-> q]
  OBVIOUS
<1>3. /\ UNCHANGED <<me, gens, ready, cut, known, conn, up>> /\ down' = Tell(down, room.members, <<f>>)
      /\ room' = [room EXCEPT !.members = @ \cup {q}]
  BY <1>2 DEF OtherJoins, Elsewhere
<1>4. q \in Peer /\ q \notin Socket
  BY OtherAssumption DEF Peer
<1>5. f \in DownFrame /\ f.type = "peer.joined" /\ f.id = q
  BY <1>2, <1>4, FramesMade
<1>6. Told(down, room.members, f, down')
  BY <1>1, <1>3, <1>5, TellsOne
<1>7. /\ room'.members = room.members \cup {q} /\ room'.hands = room.hands /\ room'.study = room.study
      /\ IsRoom(room')
  BY <1>1, <1>3, <1>4 DEF IsRoom
<1>8. NetTyped'
  <2>1. down' \in [Socket -> Seq(DownFrame)]
    BY <1>6 DEF Told
  <2>. QED
    BY <1>1, <1>3, <2>1 DEF NetTyped
<1>9. ASSUME NEW k \in Socket PROVE SocketStep(k)
  <2>1. down'[k] = down[k] \/ (Reads(k) /\ ~Has(up'[k], Joining))
    BY <1>3, <1>6, MembersHear DEF Told
  <2>. QED
    BY <1>3, <1>4, <1>7, <2>1 DEF SocketStep
<1>10. ServerStep
  BY <1>3, <1>7, <1>8, <1>9 DEF ServerStep
<1>11. ASSUME NEW k \in Socket, Live(k)'
       PROVE  /\ k \in room'.members => Sees(me, up'[k], down'[k], room', k)
              /\ k \notin room'.members => me.self = None /\ ~Has(down'[k], Entry)
  <2>1. Live(k) /\ Reads(k)
    BY <1>10, <1>11, LiveBefore DEF Live
  <2>2. CASE k \in room.members
    <3>1. Sees(me, up[k], down[k], room, k)
      BY <2>1, <2>2 DEF ViewFits, LiveFits
    <3>2. down'[k] = Append(down[k], [type |-> "peer.joined", id |-> q])
      BY <1>2, <1>6, <2>1, <2>2 DEF Told
    <3>3. Sees(me, up[k], down'[k], room', k)
      <4>1. down[k] \in Seq(DownFrame)
        BY <1>1
      <4>2. Sees(me, up[k], Append(down[k], [type |-> "peer.joined", id |-> q]), room', k)
        BY <1>1, <1>4, <1>7, <3>1, <4>1, FrameSeen
      <4>. QED
        BY <3>2, <4>2
    <3>. QED
      BY <1>3, <1>7, <2>2, <3>3
  <2>3. CASE k \notin room.members
    <3>1. down'[k] = down[k] /\ k \notin room'.members
      BY <1>4, <1>6, <1>7, <2>3 DEF Told
    <3>. QED
      BY <2>1, <2>3, <3>1 DEF ViewFits, LiveFits
  <2>. QED
    BY <2>2, <2>3
<1>12. LiveSees
  BY <1>11 DEF LiveSees
<1>13. \A k \in Socket : f \in Ok(k)'
  <2>1. known' \subseteq Socket
    BY <1>8 DEF NetTyped
  <2>. QED
    BY <1>4, <1>5, <2>1 DEF Ok
<1>. QED
  BY <1>5, <1>6, <1>10, <1>12, <1>13, ToldStep

LEMMA OtherCommandsFits ==
  ASSUME ViewFits, NoneAssumption, OtherAssumption, NEW q \in Others, OtherCommands(q)
  PROVE  ViewFits'
<1>1. /\ IsRoom(room) /\ down \in [Socket -> Seq(DownFrame)] /\ NetTyped
      /\ me.queue \in Hands \cup {None} /\ me.study \in Nat \cup {None}
  BY DEF ViewFits, NetTyped, IsClient
<1>2. PICK n : n = room.study + 1
  OBVIOUS
<1>3. /\ UNCHANGED <<me, gens, ready, cut, known, conn, up>>
      /\ down' = Tell(down, room.members, <<StudyState(None, n)>>)
      /\ room' = [room EXCEPT !.study = n] /\ room.study # None
  BY <1>2 DEF OtherCommands, Elsewhere
<1>4. n \in Nat /\ room.study \in Nat /\ room.study <= n /\ n # None /\ None \in RequestId
  BY <1>1, <1>2, <1>3, NoneAssumption DEF IsRoom, RequestId
<1>5. PICK f \in DownFrame : f = StudyState(None, n) /\ f.type = "study.state"
  BY <1>4, FramesMade, Kinds
<1>6. Told(down, room.members, f, down')
  BY <1>1, <1>3, <1>5, TellsOne
<1>7. /\ room'.members = room.members /\ room'.hands = room.hands /\ room'.study = n
      /\ IsRoom(room')
  BY <1>1, <1>3, <1>4 DEF IsRoom
<1>8. NetTyped'
  <2>1. down' \in [Socket -> Seq(DownFrame)]
    BY <1>6 DEF Told
  <2>. QED
    BY <1>1, <1>3, <2>1 DEF NetTyped
<1>9. ASSUME NEW k \in Socket PROVE SocketStep(k)
  <2>1. down'[k] = down[k] \/ (Reads(k) /\ ~Has(up'[k], Joining))
    BY <1>3, <1>6, MembersHear DEF Told
  <2>. QED
    BY <1>3, <1>7, <2>1 DEF SocketStep
<1>10. ServerStep
  BY <1>3, <1>7, <1>8, <1>9 DEF ServerStep
<1>11. ASSUME NEW k \in Socket, Live(k)'
       PROVE  /\ k \in room'.members => Sees(me, up'[k], down'[k], room', k)
              /\ k \notin room'.members => me.self = None /\ ~Has(down'[k], Entry)
  <2>1. Live(k) /\ Reads(k)
    BY <1>10, <1>11, LiveBefore DEF Live
  <2>2. CASE k \in room.members
    <3>1. Sees(me, up[k], down[k], room, k)
      BY <2>1, <2>2 DEF ViewFits, LiveFits
    <3>2. down'[k] = Append(down[k], StudyState(None, room'.study))
      BY <1>5, <1>6, <1>7, <2>1, <2>2 DEF Told
    <3>3. StudyChanges(me, up[k], up[k], room, room', None)
      BY <1>4, <1>7 DEF StudyChanges
    <3>4. Sees(me, up[k], down'[k], room', k)
      <4>1. down[k] \in Seq(DownFrame)
        BY <1>1
      <4>2. Sees(me, up[k], Append(down[k], StudyState(None, room'.study)), room', k)
        BY <1>1, <1>4, <1>7, <3>1, <3>3, <4>1, FrameSeen
      <4>. QED
        BY <3>2, <4>2
    <3>. QED
      BY <1>3, <1>7, <2>2, <3>4
  <2>3. CASE k \notin room.members
    <3>1. down'[k] = down[k] /\ k \notin room'.members
      BY <1>6, <1>7, <2>3 DEF Told
    <3>. QED
      BY <2>1, <2>3, <3>1 DEF ViewFits, LiveFits
  <2>. QED
    BY <2>2, <2>3
<1>12. LiveSees
  BY <1>11 DEF LiveSees
<1>. QED
  BY <1>5, <1>6, <1>10, <1>12, PlainFits, ToldStep

\* A connection that asks for something is a member, and the session knows it.
LEMMA Asks ==
  ASSUME ViewFits, NEW k \in Socket, up[k] # <<>>, Head(up[k]) \in Work
  PROVE  k \in room.members /\ (Sees(me, up[k], down[k], room, k) => me.self # None)
<1>1. up[k] \in Seq(UpFrame) /\ Lines(k)
  BY DEF ViewFits, NetTyped, UpFit
<1>2. Has(up[k], Work)
  BY <1>1, HasAfter
<1>. QED
  BY <1>1, <1>2 DEF Lines, Sees, Enters

\* What the hand queue is after a request of k.
HandsAfter(h, k, next) ==
  /\ next \in Hands /\ next.raised \subseteq room.members /\ next # None
  /\ room.hands = None \/ (h = room.hands /\ h.revision <= next.revision)

LEMMA HandServed ==
  ASSUME ViewFits, NoneAssumption, NEW k \in Socket, ServeHand(k)
  PROVE  \E h, next :
           /\ HandsAfter(h, k, next) /\ room' = [room EXCEPT !.hands = next]
           /\ down' = Tell(down, IF next = h THEN {k} ELSE room.members, <<HandState(next)>>)
<1>1. PICK h : h = IF room.hands = None THEN [revision |-> 0, raised |-> {}] ELSE room.hands
  OBVIOUS
<1>2. PICK raised : raised = Frame(k).raised
  OBVIOUS
<1>3. PICK new : new = CASE raised = TRUE -> h.raised \cup {k}
                         [] raised = FALSE -> h.raised \ {k}
                         [] raised = None -> h.raised
  OBVIOUS
<1>4. PICK next : next = IF new = h.raised THEN h ELSE [revision |-> h.revision + 1, raised |-> new]
  OBVIOUS
<1>5. /\ room' = [room EXCEPT !.hands = next]
      /\ down' = Tell(down, IF next = h THEN {k} ELSE room.members, <<HandState(next)>>)
  BY <1>1, <1>2, <1>3, <1>4 DEF ServeHand
<1>6. Head(up[k]) \in UpFrame /\ Head(up[k]).type = "hand" /\ up[k] # <<>>
  <2>1. up[k] \in Seq(UpFrame) /\ up[k] # <<>> /\ Head(up[k]).type = "hand"
    BY DEF ViewFits, NetTyped, ServeHand, Serve
  <2>. QED
    BY <2>1, TailsAt
<1>7. raised \in BOOLEAN \cup {None}
  BY <1>2, <1>6, UpFrames DEF Frame
<1>8. new \in {h.raised \cup {k}, h.raised \ {k}, h.raised}
  <2>1. raised = TRUE \/ raised = FALSE \/ raised = None
    BY <1>7
  <2>. QED
    BY <1>3, <2>1
<1>9. IsRoom(room) /\ k \in room.members /\ k \in Peer
  BY <1>6, Asks DEF ViewFits, Work, Peer
<1>10. h \in Hands /\ h.raised \subseteq room.members
  <2>1. CASE room.hands = None
    BY <1>1, <2>1 DEF Hands
  <2>2. CASE room.hands # None
    BY <1>1, <1>9, <2>2 DEF IsRoom
  <2>. QED
    BY <2>1, <2>2
<1>11. new \subseteq room.members /\ new \subseteq Peer
  BY <1>8, <1>9, <1>10 DEF IsRoom
<1>12. h.revision \in Nat
  BY <1>10 DEF Hands
<1>13. next \in Hands /\ next.raised \subseteq room.members /\ h.revision <= next.revision
  <2>1. CASE new = h.raised
    BY <1>4, <1>10, <1>12, <2>1
  <2>2. CASE new # h.raised
    <3>1. next = [revision |-> h.revision + 1, raised |-> new]
      BY <1>4, <2>2
    <3>. QED
      BY <1>11, <1>12, <3>1 DEF Hands
  <2>. QED
    BY <2>1, <2>2
<1>14. next # None
  BY <1>13, NoneAssumption DEF Hands
<1>15. HandsAfter(h, k, next)
  BY <1>1, <1>13, <1>14 DEF HandsAfter
<1>. QED
  BY <1>5, <1>15

LEMMA ServeHandFits ==
  ASSUME ViewFits, NoneAssumption, NEW j \in Socket, ServeHand(j)
  PROVE  ViewFits'
<1>1. /\ IsRoom(room) /\ down \in [Socket -> Seq(DownFrame)] /\ NetTyped
      /\ me.queue \in Hands \cup {None} /\ me.study \in Nat \cup {None}
      /\ up \in [Socket -> Seq(UpFrame)]
  BY DEF ViewFits, NetTyped, IsClient
<1>2. PICK h, next :
           /\ HandsAfter(h, j, next) /\ room' = [room EXCEPT !.hands = next]
           /\ down' = Tell(down, IF next = h THEN {j} ELSE room.members, <<HandState(next)>>)
  BY HandServed
<1>3. PICK M : M = IF next = h THEN {j} ELSE room.members
  OBVIOUS
<1>4. /\ UNCHANGED <<me, gens, ready, cut, known>> /\ up[j] # <<>> /\ Head(up[j]).type = "hand"
      /\ Served(j) /\ down' = Tell(down, M, <<HandState(next)>>)
  BY <1>2, <1>3 DEF ServeHand, Serve
<1>5. /\ up' \in [Socket -> Seq(UpFrame)] /\ up'[j] = Tail(up[j]) /\ conn' = conn
      /\ \A k \in Socket : k # j => up'[k] = up[k]
      /\ Head(up[j]) \in UpFrame
  BY <1>4, ServedLeaves
<1>6. j \in room.members /\ (Sees(me, up[j], down[j], room, j) => me.self # None)
  BY <1>4, <1>5, Asks DEF Work
<1>7. /\ next \in Hands /\ next.raised \subseteq room.members /\ next # None
      /\ room.hands = None \/ (h = room.hands /\ room.hands.revision <= next.revision)
  BY <1>2 DEF HandsAfter
<1>8. PICK f \in DownFrame : f = HandState(next) /\ f.type = "hand.state"
  BY <1>7, FramesMade, Kinds
<1>9. Told(down, M, f, down')
  BY <1>1, <1>4, <1>8, TellsOne
<1>10. /\ room'.members = room.members /\ room'.hands = next /\ room'.study = room.study
       /\ IsRoom(room')
  BY <1>1, <1>2, <1>7 DEF IsRoom
<1>11. NetTyped'
  <2>1. down' \in [Socket -> Seq(DownFrame)]
    BY <1>9 DEF Told
  <2>. QED
    BY <1>1, <1>4, <1>5, <2>1 DEF NetTyped
<1>12. M \subseteq room.members
  BY <1>3, <1>6
<1>13. ASSUME NEW k \in Socket PROVE SocketStep(k)
  <2>1. up'[k] = up[k] \/ up'[k] = <<>> \/ (up[k] # <<>> /\ up'[k] = Tail(up[k]))
    BY <1>4, <1>5
  <2>2. down'[k] = down[k] \/ (Reads(k) /\ ~Has(up'[k], Joining))
    BY <1>9, <1>12, <2>1, MembersHear DEF Told
  <2>. QED
    BY <1>5, <1>10, <2>1, <2>2 DEF SocketStep
<1>14. ServerStep
  BY <1>4, <1>10, <1>11, <1>13 DEF ServerStep
<1>15. ASSUME NEW k \in Socket, Live(k)'
       PROVE  /\ k \in room'.members => Sees(me, up'[k], down'[k], room', k)
              /\ k \notin room'.members => me.self = None /\ ~Has(down'[k], Entry)
  <2>1. Live(k) /\ Reads(k)
    BY <1>14, <1>15, LiveBefore DEF Live
  <2>2. down[k] \in Seq(DownFrame) /\ up[k] \in Seq(UpFrame)
    BY <1>1
  <2>3. CASE k \in M
    <3>1. Sees(me, up[k], down[k], room, k)
      BY <1>12, <2>1, <2>3 DEF ViewFits, LiveFits
    <3>2. down'[k] = Append(down[k], HandState(room'.hands))
      BY <1>8, <1>9, <1>10, <2>1, <2>3 DEF Told
    <3>3. up'[k] = up[k] \/ (me.self # None /\ (Has(up[k], Command) => Has(up'[k], Command)))
      <4>1. CASE k # j
        BY <1>5, <4>1
      <4>2. CASE k = j
        <5>1. Head(up[k]) \notin Command
          BY <1>4, <4>2 DEF Command
        <5>2. Has(up[k], Command) => Has(Tail(up[k]), Command)
          BY <1>4, <2>2, <4>2, <5>1, HasAfter
        <5>. QED
          BY <1>5, <1>6, <3>1, <4>2, <5>2
      <4>. QED
        BY <4>1, <4>2
    <3>4. HandsChange(me, up[k], up'[k], room, room')
      BY <1>7, <1>10, <3>3 DEF HandsChange
    <3>5. Sees(me, up'[k], Append(down[k], HandState(room'.hands)), room', k)
      BY <1>1, <1>10, <2>2, <3>1, <3>4, FrameSeen
    <3>. QED
      BY <1>10, <1>12, <2>3, <3>2, <3>5
  <2>4. CASE k \in room.members \ M
    <3>1. Sees(me, up[k], down[k], room, k)
      BY <2>1, <2>4 DEF ViewFits, LiveFits
    <3>2. next = h /\ k # j
      BY <1>3, <1>6, <2>4
    <3>3. down'[k] = down[k] /\ up'[k] = up[k]
      BY <1>5, <1>9, <2>4, <3>2 DEF Told
    <3>4. SeesHands(me, up[k], down[k], room.hands, k) /\ room.hands \in Hands \cup {None}
      BY <1>1, <3>1 DEF Sees, IsRoom
    <3>5. room.hands = None => SeesHands(me, up[k], down[k], next, k)
      BY <1>1, <1>7, <2>2, <3>4, HandsSeen
    <3>6. SeesHands(me, up[k], down[k], room'.hands, k)
      BY <1>7, <1>10, <3>2, <3>4, <3>5
    <3>. QED
      BY <1>10, <2>4, <3>1, <3>3, <3>6 DEF Sees
  <2>5. CASE k \notin room.members
    <3>1. down'[k] = down[k] /\ k \notin room'.members
      BY <1>9, <1>10, <1>12, <2>5 DEF Told
    <3>. QED
      BY <2>1, <2>5, <3>1 DEF ViewFits, LiveFits
  <2>. QED
    BY <2>3, <2>4, <2>5
<1>16. LiveSees
  BY <1>15 DEF LiveSees
<1>. QED
  BY <1>8, <1>9, <1>14, <1>16, PlainFits, ToldStep

\* What the study is after a request.
StudyAfter(M, next) ==
  /\ next \in Nat /\ next # None
  /\ room.study = None \/ room.study <= next
  /\ M = room.members \/ room.study = None \/ next = room.study

LEMMA StudyServed ==
  ASSUME ViewFits, NoneAssumption, NEW k \in Socket, ServeStudy(k)
  PROVE  \E M, next :
           /\ StudyAfter(M, next) /\ M \in {room.members, {k}} /\ room' = [room EXCEPT !.study = next]
           /\ down' = Tell(down, M, <<StudyState(Frame(k).id, next)>>)
<1>1. PICK was : was = IF room.study = None THEN 0 ELSE room.study
  OBVIOUS
<1>2. PICK applied \in BOOLEAN : applied = (Frame(k).expected = was)
  OBVIOUS
<1>3. PICK next : next = IF applied THEN was + 1 ELSE was
  OBVIOUS
<1>4. PICK M : M = IF applied THEN room.members ELSE {k}
  OBVIOUS
<1>5. room' = [room EXCEPT !.study = next] /\ down' = Tell(down, M, <<StudyState(Frame(k).id, next)>>)
  BY <1>1, <1>2, <1>3, <1>4 DEF ServeStudy
<1>6. was \in Nat /\ (room.study = None \/ room.study = was)
  BY <1>1 DEF ViewFits, IsRoom
<1>7. next \in Nat /\ was <= next
  BY <1>3, <1>6
<1>8. next # None
  BY <1>7, NoneAssumption
<1>9. M = room.members \/ next = was
  BY <1>3, <1>4
<1>10. StudyAfter(M, next)
  BY <1>6, <1>7, <1>8, <1>9 DEF StudyAfter
<1>11. M \in {room.members, {k}}
  BY <1>4
<1>. QED
  BY <1>5, <1>10, <1>11

LEMMA ServeStudyFits ==
  ASSUME ViewFits, NoneAssumption, NEW j \in Socket, ServeStudy(j)
  PROVE  ViewFits'
<1>1. /\ IsRoom(room) /\ down \in [Socket -> Seq(DownFrame)] /\ NetTyped
      /\ me.queue \in Hands \cup {None} /\ me.study \in Nat \cup {None}
      /\ up \in [Socket -> Seq(UpFrame)]
  BY DEF ViewFits, NetTyped, IsClient
<1>2. PICK M, next :
           /\ StudyAfter(M, next) /\ M \in {room.members, {j}} /\ room' = [room EXCEPT !.study = next]
           /\ down' = Tell(down, M, <<StudyState(Frame(j).id, next)>>)
  BY StudyServed
<1>4. /\ UNCHANGED <<me, gens, ready, cut, known>> /\ up[j] # <<>> /\ Head(up[j]).type = "study"
      /\ Served(j)
  BY DEF ServeStudy, Serve
<1>5. /\ up' \in [Socket -> Seq(UpFrame)] /\ up'[j] = Tail(up[j]) /\ conn' = conn
      /\ \A k \in Socket : k # j => up'[k] = up[k]
      /\ Head(up[j]) \in UpFrame
  BY <1>4, ServedLeaves
<1>6. j \in room.members /\ (Sees(me, up[j], down[j], room, j) => me.self # None)
  BY <1>4, <1>5, Asks DEF Work
<1>7. /\ next \in Nat /\ next # None /\ (room.study = None \/ room.study <= next)
      /\ M = room.members \/ room.study = None \/ next = room.study
  BY <1>2 DEF StudyAfter
<1>3. PICK id \in RequestId : id = Head(up[j]).id
  BY <1>4, <1>5, UpFrames
<1>8. PICK f \in DownFrame : f = StudyState(id, next) /\ f.type = "study.state"
  BY <1>7, FramesMade, Kinds
<1>9. Told(down, M, f, down')
  BY <1>1, <1>2, <1>3, <1>8, TellsOne DEF Frame
<1>10. /\ room'.members = room.members /\ room'.hands = room.hands /\ room'.study = next
       /\ IsRoom(room')
  BY <1>1, <1>2, <1>7 DEF IsRoom
<1>11. NetTyped'
  <2>1. down' \in [Socket -> Seq(DownFrame)]
    BY <1>9 DEF Told
  <2>. QED
    BY <1>1, <1>4, <1>5, <2>1 DEF NetTyped
<1>12. M \subseteq room.members /\ j \in M
  BY <1>2, <1>6
<1>13. ASSUME NEW k \in Socket PROVE SocketStep(k)
  <2>1. up'[k] = up[k] \/ up'[k] = <<>> \/ (up[k] # <<>> /\ up'[k] = Tail(up[k]))
    BY <1>4, <1>5
  <2>2. down'[k] = down[k] \/ (Reads(k) /\ ~Has(up'[k], Joining))
    BY <1>9, <1>12, <2>1, MembersHear DEF Told
  <2>. QED
    BY <1>5, <1>10, <2>1, <2>2 DEF SocketStep
<1>14. ServerStep
  BY <1>4, <1>10, <1>11, <1>13 DEF ServerStep
<1>15. ASSUME NEW k \in Socket, Live(k)'
       PROVE  /\ k \in room'.members => Sees(me, up'[k], down'[k], room', k)
              /\ k \notin room'.members => me.self = None /\ ~Has(down'[k], Entry)
  <2>1. Live(k) /\ Reads(k)
    BY <1>14, <1>15, LiveBefore DEF Live
  <2>2. down[k] \in Seq(DownFrame) /\ up[k] \in Seq(UpFrame)
    BY <1>1
  <2>3. CASE k \in M
    <3>1. Sees(me, up[k], down[k], room, k)
      BY <1>12, <2>1, <2>3 DEF ViewFits, LiveFits
    <3>2. down'[k] = Append(down[k], StudyState(id, room'.study))
      BY <1>8, <1>9, <1>10, <2>1, <2>3 DEF Told
    <3>3. /\ up'[k] = up[k] \/ (me.self # None /\ (Has(up[k], HandRequest) => Has(up'[k], HandRequest)))
          /\ (Has(up[k], Command) => Has(up'[k], Command)) \/ id = "update"
      <4>1. CASE k # j
        BY <1>5, <4>1
      <4>2. CASE k = j
        <5>1. Head(up[k]) \notin HandRequest
          BY <1>4, <4>2 DEF HandRequest
        <5>2. Has(up[k], HandRequest) => Has(Tail(up[k]), HandRequest)
          BY <1>4, <2>2, <4>2, <5>1, HasAfter
        <5>3. Head(up[k]) \in Command => id = "update"
          BY <1>3, <4>2 DEF Command
        <5>4. (Has(up[k], Command) => Has(Tail(up[k]), Command)) \/ id = "update"
          BY <1>4, <2>2, <4>2, <5>3, HasAfter
        <5>. QED
          BY <1>5, <1>6, <3>1, <4>2, <5>2, <5>4
      <4>. QED
        BY <4>1, <4>2
    <3>4. StudyChanges(me, up[k], up'[k], room, room', id)
      BY <1>7, <1>10, <3>3 DEF StudyChanges
    <3>5. Sees(me, up'[k], Append(down[k], StudyState(id, room'.study)), room', k)
      BY <1>1, <1>10, <2>2, <3>1, <3>4, FrameSeen
    <3>. QED
      BY <1>10, <1>12, <2>3, <3>2, <3>5
  <2>4. CASE k \in room.members \ M
    <3>1. Sees(me, up[k], down[k], room, k)
      BY <2>1, <2>4 DEF ViewFits, LiveFits
    <3>2. (room.study = None \/ next = room.study) /\ k # j
      BY <1>7, <1>12, <2>4
    <3>3. down'[k] = down[k] /\ up'[k] = up[k]
      BY <1>5, <1>9, <2>4, <3>2 DEF Told
    <3>4. SeesStudy(me, down[k], room.study) /\ room.study \in Nat \cup {None}
      BY <1>1, <3>1 DEF Sees, IsRoom
    <3>5. room.study = None => SeesStudy(me, down[k], next)
      BY <1>1, <1>7, <2>2, <3>4, StudySeen
    <3>6. SeesStudy(me, down[k], room'.study)
      BY <1>7, <1>10, <3>2, <3>4, <3>5
    <3>. QED
      BY <1>10, <2>4, <3>1, <3>3, <3>6 DEF Sees
  <2>5. CASE k \notin room.members
    <3>1. down'[k] = down[k] /\ k \notin room'.members
      BY <1>9, <1>10, <1>12, <2>5 DEF Told
    <3>. QED
      BY <2>1, <2>5, <3>1 DEF ViewFits, LiveFits
  <2>. QED
    BY <2>3, <2>4, <2>5
<1>16. LiveSees
  BY <1>15 DEF LiveSees
<1>. QED
  BY <1>8, <1>9, <1>14, <1>16, PlainFits, ToldStep

\* A join that is refused.
LEMMA JoinAlone ==
  ASSUME ViewFits, NEW k \in Socket, up[k] # <<>>, Head(up[k]).type = "join"
  PROVE  /\ k \notin room.members /\ k \notin known /\ down[k] = <<>> /\ conn[k] = "open" /\ k \notin cut
         /\ Head(up[k]) \in Joining /\ Tail(up[k]) \in Seq(UpFrame) /\ ~Has(Tail(up[k]), Joining)
         /\ ready[k] = "open" => Tail(up[k]) = <<>>
<1>1. up[k] \in Seq(UpFrame) /\ Lines(k)
  BY DEF ViewFits, NetTyped, UpFit
<1>2. Head(up[k]) \in Joining /\ Tail(up[k]) \in Seq(UpFrame)
  BY <1>1, TailsAt DEF Joining
<1>3. Has(up[k], Joining)
  BY <1>1, <1>2, HasAfter
<1>4. ~Has(Tail(up[k]), Joining)
  BY <1>1, OrderKept DEF Lines
<1>5. ASSUME ready[k] = "open", Tail(up[k]) # <<>> PROVE FALSE
  <2>1. PICK v \in Seq(UpFrame) : v = Tail(up[k])
    BY <1>2
  <2>2. 1 \in 1..Len(v) /\ v[1] \in UpFrame
    BY <1>5, <2>1, TailsAt
  <2>3. v[1] \in Joining \cup Work \cup Ending
    BY <2>2, UpFrames DEF Joining, Work, Ending
  <2>4. Has(Tail(up[k]), Joining) \/ Has(Tail(up[k]), Work) \/ Has(Tail(up[k]), Ending)
    BY <2>1, <2>2, <2>3 DEF Has
  <2>5. Has(up[k], Work) \/ Has(up[k], Ending)
    BY <1>1, <1>4, <2>4, HasAfter
  <2>. QED
    BY <1>1, <1>3, <1>5, <2>5 DEF Lines
<1>. QED
  BY <1>1, <1>2, <1>3, <1>4, <1>5 DEF Lines

LEMMA RefuseJoinFits ==
  ASSUME ViewFits, NoneAssumption, NEW j \in Socket, RefuseJoin(j)
  PROVE  ViewFits'
<1>1. /\ IsRoom(room) /\ down \in [Socket -> Seq(DownFrame)] /\ NetTyped
      /\ up \in [Socket -> Seq(UpFrame)]
  BY DEF ViewFits, NetTyped
<1>2. PICK f : f = [type |-> "error", code |-> "FORBIDDEN"]
  OBVIOUS
<1>3. f \in DownFrame /\ f.type = "error"
  <2>1. "FORBIDDEN" \in Code
    BY DEF Code
  <2>. QED
    BY <1>2, <2>1, FramesMade
<1>4. /\ UNCHANGED <<me, gens, ready, cut, known, room>> /\ up[j] # <<>> /\ Head(up[j]).type = "join"
      /\ Served(j) /\ down' = Tell(down, {j}, <<f>>)
  BY <1>2 DEF RefuseJoin, Serve
<1>5. /\ up' \in [Socket -> Seq(UpFrame)] /\ up'[j] = Tail(up[j]) /\ conn' = conn
      /\ \A k \in Socket : k # j => up'[k] = up[k]
  BY <1>4, ServedLeaves
<1>6. j \notin room.members /\ down[j] = <<>> /\ ~Has(Tail(up[j]), Joining)
  BY <1>4, JoinAlone
<1>9. Told(down, {j}, f, down')
  BY <1>1, <1>3, <1>4, TellsOne
<1>11. NetTyped'
  <2>1. down' \in [Socket -> Seq(DownFrame)]
    BY <1>9 DEF Told
  <2>. QED
    BY <1>1, <1>4, <1>5, <2>1 DEF NetTyped
<1>13. ASSUME NEW k \in Socket PROVE SocketStep(k)
  <2>1. up'[k] = up[k] \/ up'[k] = <<>> \/ (up[k] # <<>> /\ up'[k] = Tail(up[k]))
    BY <1>4, <1>5
  <2>2. down'[k] = down[k] \/ (Reads(k) /\ ~Has(up'[k], Joining))
    BY <1>5, <1>6, <1>9 DEF Told
  <2>. QED
    BY <1>4, <1>5, <2>1, <2>2 DEF SocketStep
<1>14. ServerStep
  BY <1>1, <1>4, <1>11, <1>13 DEF ServerStep
<1>15. ASSUME NEW k \in Socket, Live(k)'
       PROVE  /\ k \in room'.members => Sees(me, up'[k], down'[k], room', k)
              /\ k \notin room'.members => me.self = None /\ ~Has(down'[k], Entry)
  <2>1. Live(k) /\ Reads(k)
    BY <1>14, <1>15, LiveBefore DEF Live
  <2>2. CASE k # j
    <3>1. down'[k] = down[k] /\ up'[k] = up[k]
      BY <1>5, <1>9, <2>2 DEF Told
    <3>. QED
      BY <1>4, <2>1, <3>1 DEF ViewFits, LiveFits
  <2>3. CASE k = j
    <3>1. me.self = None
      BY <1>6, <2>1, <2>3 DEF ViewFits, LiveFits
    <3>2. f \notin Entry
      BY <1>3 DEF Entry
    <3>3. down'[k] = Append(down[k], f)
      BY <1>9, <2>1, <2>3 DEF Told
    <3>4. ~Has(down[k], Entry) /\ down[k] \in Seq(DownFrame)
      BY <1>1, <1>6, <2>3, HasAfter
    <3>5. ~Has(down'[k], Entry)
      BY <1>3, <3>2, <3>3, <3>4, HasAfter
    <3>. QED
      BY <1>4, <1>6, <2>3, <3>1, <3>5
  <2>. QED
    BY <2>2, <2>3
<1>16. LiveSees
  BY <1>15 DEF LiveSees
<1>. QED
  BY <1>3, <1>9, <1>14, <1>16, PlainFits, ToldStep

LEMMA RefuseLateJoinFits ==
  ASSUME ViewFits, NoneAssumption, NEW j \in Socket, RefuseLateJoin(j)
  PROVE  ViewFits'
<1>1. /\ IsRoom(room) /\ down \in [Socket -> Seq(DownFrame)] /\ NetTyped
      /\ up \in [Socket -> Seq(UpFrame)] /\ conn \in [Socket -> {"none", "open", "gone"}]
  BY DEF ViewFits, NetTyped
<1>2. PICK f : f = [type |-> "close", code |-> "superseded"]
  OBVIOUS
<1>3. f \in DownFrame /\ f.type = "close"
  <2>1. "superseded" \in Code
    BY DEF Code
  <2>. QED
    BY <1>2, <2>1, FramesMade
<1>4. /\ UNCHANGED <<me, gens, ready, cut, known, room>> /\ up[j] # <<>> /\ Head(up[j]).type = "join"
      /\ down' = Tell(down, {j}, <<f>>)
      /\ conn' = [conn EXCEPT ![j] = "gone"] /\ up' = [up EXCEPT ![j] = <<>>]
  BY <1>2 DEF RefuseLateJoin, Serve, Supersede
<1>6. j \notin room.members /\ down[j] = <<>> /\ conn[j] = "open"
  BY <1>4, JoinAlone
<1>9. Told(down, {j}, f, down')
  BY <1>1, <1>3, <1>4, TellsOne
<1>11. NetTyped'
  <2>1. down' \in [Socket -> Seq(DownFrame)]
    BY <1>9 DEF Told
  <2>2. up' \in [Socket -> Seq(UpFrame)] /\ conn' \in [Socket -> {"none", "open", "gone"}]
    BY <1>1, <1>4
  <2>. QED
    BY <1>1, <1>4, <2>1, <2>2 DEF NetTyped
<1>13. ASSUME NEW k \in Socket PROVE SocketStep(k)
  <2>1. up'[k] = up[k] \/ up'[k] = <<>>
    BY <1>1, <1>4
  <2>2. ~Has(<<>>, Joining)
    BY DEF Has
  <2>3. down'[k] = down[k] \/ (Reads(k) /\ ~Has(up'[k], Joining))
    BY <1>1, <1>4, <1>9, <2>2 DEF Told
  <2>4. conn'[k] = conn[k] \/ (conn[k] = "open" /\ conn'[k] = "gone" /\ up'[k] = <<>>)
    BY <1>1, <1>4, <1>6
  <2>. QED
    BY <1>4, <2>1, <2>3, <2>4 DEF SocketStep
<1>14. ServerStep
  BY <1>1, <1>4, <1>11, <1>13 DEF ServerStep
<1>15. ASSUME NEW k \in Socket, Live(k)'
       PROVE  /\ k \in room'.members => Sees(me, up'[k], down'[k], room', k)
              /\ k \notin room'.members => me.self = None /\ ~Has(down'[k], Entry)
  <2>1. Live(k) /\ k # j
    BY <1>1, <1>4, <1>14, <1>15, LiveBefore DEF Live
  <2>2. down'[k] = down[k] /\ up'[k] = up[k]
    BY <1>1, <1>4, <1>9, <2>1 DEF Told
  <2>. QED
    BY <1>4, <2>1, <2>2 DEF ViewFits, LiveFits
<1>16. LiveSees
  BY <1>15 DEF LiveSees
<1>. QED
  BY <1>3, <1>9, <1>14, <1>16, PlainFits, ToldStep

\* What a join does to the sockets: those in S are replaced, that of K joins.
JoinNet(S, K) ==
  /\ UNCHANGED <<me, gens, ready, cut, known>>
  /\ up' \in [Socket -> Seq(UpFrame)] /\ conn' \in [Socket -> {"none", "open", "gone"}]
  /\ \A j \in Socket :
       /\ j \in S => up'[j] = <<>> /\ conn'[j] = "gone"
       /\ j \notin S => conn'[j] = conn[j]
       /\ j \notin S /\ j \notin K => up'[j] = up[j]
       /\ j \in K => j \notin S /\ up[j] # <<>> /\ Head(up[j]).type = "join" /\ up'[j] = Tail(up[j])
JoinRoom(K, r, d) ==
  /\ IsRoom(room') /\ r.members \subseteq room'.members
  /\ \A j \in Socket : j \in room'.members => j \in r.members \/ j \in K
  /\ down' \in [Socket -> Seq(DownFrame)]
  /\ \A j \in Socket : down'[j] = d[j] \/ (Reads(j) /\ (j \in K \/ j \in r.members))

LEMMA JoinStep ==
  ASSUME ViewFits, NEW S \in SUBSET (room.members \cap (Socket \cup {Tab})), NEW K,
         NEW r, NEW d, ReplacedBy(S, r, d), JoinNet(S, K), JoinRoom(K, r, d)
  PROVE  ServerStep /\ RoomForThem(S, r, [k \in Socket |-> Ok(k)'])
<1>1. NetTyped'
  <2>1. UNCHANGED <<cut, known>> /\ NetTyped
    BY DEF JoinNet, ViewFits
  <2>2. up' \in [Socket -> Seq(UpFrame)] /\ conn' \in [Socket -> {"none", "open", "gone"}]
    BY DEF JoinNet
  <2>3. down' \in [Socket -> Seq(DownFrame)]
    BY DEF JoinRoom
  <2>. QED
    BY <2>1, <2>2, <2>3 DEF NetTyped
<1>2. ASSUME NEW j \in Socket PROVE SocketStep(j)
  <2>1. up[j] \in Seq(UpFrame) /\ Lines(j) /\ conn[j] \in {"none", "open", "gone"}
    BY DEF ViewFits, NetTyped, UpFit
  <2>2. j \in K => /\ Head(up[j]) \in Joining /\ ~Has(Tail(up[j]), Joining)
                   /\ j \notin room.members /\ up'[j] = Tail(up[j]) /\ up[j] # <<>>
    BY JoinAlone DEF JoinNet
  <2>3. j \in S => conn[j] \in {"open", "gone"} /\ j \in room.members
    BY <2>1 DEF Lines
  <2>4. conn'[j] = conn[j] \/ (conn[j] = "open" /\ conn'[j] = "gone" /\ up'[j] = <<>>)
    BY <2>3 DEF JoinNet
  <2>5. up'[j] = up[j] \/ up'[j] = <<>> \/ (up[j] # <<>> /\ up'[j] = Tail(up[j]))
    BY DEF JoinNet
  <2>6. j \in room'.members /\ j \notin room.members =>
          up[j] # <<>> /\ Head(up[j]) \in Joining /\ up'[j] = Tail(up[j]) /\ conn'[j] = conn[j]
    BY <2>2 DEF JoinRoom, JoinNet, ReplacedBy
  <2>7. j \in room.members /\ j \notin room'.members => up'[j] = <<>>
    BY DEF JoinRoom, JoinNet, ReplacedBy
  <2>8. Has(up'[j], Joining) => Has(up[j], Joining) /\ j \notin K
    <3>1. Has(up'[j], Joining) => Has(up[j], Joining)
      BY <2>1, <2>5, HasAfter
    <3>. QED
      BY <2>2, <3>1
  <2>9. Has(up'[j], Joining) => j \notin room.members
    BY <2>1, <2>8 DEF Lines
  <2>10. down'[j] = down[j] \/ (Reads(j) /\ (j \in K \/ j \in room.members))
    BY DEF JoinRoom, ReplacedBy
  <2>11. down'[j] = down[j] \/ (Reads(j) /\ ~Has(up'[j], Joining))
    BY <2>8, <2>9, <2>10
  <2>. QED
    BY <2>4, <2>5, <2>6, <2>7, <2>11 DEF SocketStep
<1>3. ServerStep
  BY <1>1, <1>2 DEF ServerStep, JoinNet, JoinRoom
<1>4. ASSUME NEW k \in Socket, NEW f \in DownFrame, f.type \in {"close", "hand.state"}
      PROVE  f \in Ok(k)'
  BY <1>4, PlainFits
<1>5. ASSUME NEW k \in Socket, NEW e \in S \ r.members, e # k
      PROVE  [type |-> "peer.left", id |-> e] \in Ok(k)'
  <2>1. PICK f \in DownFrame : f = [type |-> "peer.left", id |-> e]
    <3>1. e \in Peer
      BY <1>5 DEF Peer
    <3>. QED
      BY <3>1, FramesMade
  <2>2. e \in Socket => Never(e)'
    <3>1. SUFFICES ASSUME e \in Socket PROVE Never(e)'
      OBVIOUS
    <3>2. up'[e] = <<>> /\ conn'[e] = "gone" /\ e \notin K
      BY <1>5, <3>1 DEF JoinNet
    <3>3. e \notin room'.members
      BY <1>5, <3>1, <3>2 DEF JoinRoom
    <3>4. ~Has(<<>>, Joining)
      BY DEF Has
    <3>. QED
      BY <3>2, <3>3, <3>4 DEF Never
  <2>. QED
    BY <1>5, <2>1, <2>2 DEF Ok
<1>6. RoomForThem(S, r, [k \in Socket |-> Ok(k)'])
  BY <1>4, <1>5 DEF RoomForThem
<1>. QED
  BY <1>3, <1>6

LEMMA OtherTabJoinsFits ==
  ASSUME ViewFits, NoneAssumption, OtherTabJoins
  PROVE  ViewFits'
<1>1. PICK S : S = Same(Tab)
  OBVIOUS
<1>2. S \in SUBSET (room.members \cap (Socket \cup {Tab})) /\ room.members \cap Socket \subseteq S
  BY <1>1 DEF Same, OtherTabJoins
<1>3. PICK r : r = Replaced(S)
  OBVIOUS
<1>4. PICK d : d = ToldReplaced(S)
  OBVIOUS
<1>5. /\ ReplacedBy(S, r, d)
      /\ \A A, B : FramesIn(down, A, B) /\ RoomForThem(S, r, A) => FramesIn(d, A, B)
  BY <1>2, <1>3, <1>4, Replacing
<1>6. /\ UNCHANGED <<me, gens, ready, cut, known>> /\ down' = d
      /\ conn' = [k \in Socket |-> IF k \in S THEN "gone" ELSE conn[k]]
      /\ up' = [k \in Socket |-> IF k \in S THEN <<>> ELSE up[k]]
      /\ room' = [r EXCEPT !.members = @ \cup {Tab}]
  BY <1>1, <1>3, <1>4 DEF OtherTabJoins
<1>7. JoinNet(S, {})
  <2>1. up \in [Socket -> Seq(UpFrame)] /\ conn \in [Socket -> {"none", "open", "gone"}]
    BY DEF ViewFits, NetTyped
  <2>2. up' \in [Socket -> Seq(UpFrame)] /\ conn' \in [Socket -> {"none", "open", "gone"}]
    BY <1>6, <2>1
  <2>. QED
    BY <1>6, <2>2 DEF JoinNet
<1>8. IsRoom(r) /\ d \in [Socket -> Seq(DownFrame)] /\ r.members \subseteq room.members
  BY <1>5 DEF ReplacedBy
<1>9. room'.members = r.members \cup {Tab} /\ IsRoom(room') /\ Tab \notin Socket
  BY <1>6, <1>8 DEF IsRoom, Peer, Tab, Socket
<1>10. JoinRoom({}, r, d)
  BY <1>6, <1>8, <1>9 DEF JoinRoom
<1>11. ServerStep /\ RoomForThem(S, r, [k \in Socket |-> Ok(k)'])
  BY <1>2, <1>5, <1>7, <1>10, JoinStep
<1>12. FramesIn(down', [k \in Socket |-> Ok(k)'], [k \in Socket |-> OkFirst(k)'])
  BY <1>5, <1>6, <1>11, ServerKeeps
<1>13. LiveSees
  <2>1. SUFFICES ASSUME NEW k \in Socket, Live(k)'
                 PROVE  /\ k \in room'.members => Sees(me, up'[k], down'[k], room', k)
                        /\ k \notin room'.members => me.self = None /\ ~Has(down'[k], Entry)
    BY DEF LiveSees
  <2>2. Live(k) /\ k \notin S
    BY <1>6, <1>11, <2>1, LiveBefore DEF Live
  <2>3. k \notin room.members
    BY <1>2, <2>2
  <2>4. down'[k] = down[k] /\ k \notin room'.members
    BY <1>5, <1>6, <1>8, <1>9, <2>3 DEF ReplacedBy
  <2>. QED
    BY <2>2, <2>3, <2>4 DEF ViewFits, LiveFits
<1>. QED
  BY <1>11, <1>12, <1>13, ServerDone

\* The confirmation of a join is all that a session needs to see the room.
LEMMA EntrySeen ==
  ASSUME NEW m, m.self = None, m.status # "active", m.queue = None, m.study = None, m.command = None,
         NEW k \in Socket, NEW M \in SUBSET Peer, NEW f \in DownFrame,
         f = [type |-> "joined", id |-> k, members |-> M], NEW d, d = Append(<<>>, f),
         NEW s, s.members \ {k} = M \ {k}
  PROVE  Sees(m, <<>>, d, s, k)
<1>1. Len(d) = 1 /\ d[1] = f /\ d # <<>> /\ Head(d) = f
  OBVIOUS
<1>2. \A i \in 1..Len(d) : i = 1
  BY <1>1
<1>3. f.type = "joined" /\ f.members = M
  OBVIOUS
<1>4. f \notin HandFrame /\ f \notin StudyFrame /\ f \notin Refusal /\ f \in Entry
  BY <1>3 DEF HandFrame, StudyFrame, Refusal, Entry
<1>5. \A T : Has(d, T) <=> f \in T
  BY <1>1, <1>2 DEF Has
<1>6. ASSUME NEW q \in Peer \ {k}
      PROVE  /\ q \in s.members => Ends(d, In(q), Out(q), q \in m.roster \cup Range(m.stale))
             /\ q \notin s.members => Ends(d, Out(q), In(q), q \notin m.roster)
  <2>1. /\ q \in s.members => f \in In(q)
        /\ q \notin s.members => f \in Out(q)
    BY <1>3, <1>6 DEF In, Out
  <2>2. \A j \in 1..Len(d) : ~(j > 1)
    BY <1>2
  <2>. QED
    BY <1>1, <2>1, <2>2 DEF Ends
<1>7. SeesMembers(m, d, s.members, k)
  BY <1>6 DEF SeesMembers
<1>8. SeesHands(m, <<>>, d, s.hands, k)
  BY <1>1, <1>2, <1>4, <1>5 DEF SeesHands
<1>9. SeesStudy(m, d, s.study)
  <2>1. \A j \in 1..Len(d) : d[j] \notin StudyFrame
    BY <1>1, <1>2, <1>4
  <2>. QED
    BY <1>4, <1>5, <2>1 DEF SeesStudy, Ends
<1>10. AwaitsAnswer(m, <<>>, d) /\ Enters(m, <<>>, d)
  BY <1>1, <1>4, <1>5 DEF AwaitsAnswer, Enters
<1>. QED
  BY <1>7, <1>8, <1>9, <1>10 DEF Sees

\* A socket that is open is the one in use.
LEMMA OpenIsBound ==
  ASSUME ViewFits, NEW k \in Socket, ready[k] = "open"
  PROVE  k = me.bound
BY DEF ViewFits, SocketsFit, NothingIsLeft

\* Nobody has the id of a socket that joins.
LEMMA JoinsAnew ==
  ASSUME ViewFits, NEW k \in Socket, up[k] # <<>>, Head(up[k]).type = "join", ready[k] = "open"
  PROVE  me.self = None
<1>1. k \notin known /\ k = me.bound
  BY JoinAlone, OpenIsBound
<1>. QED
  BY <1>1 DEF ViewFits, Began

\* The confirmation of a join tells of the members.
LEMMA EntryFits ==
  ASSUME ViewFits, NoneAssumption, ServerStep, NEW k \in Socket, up[k] # <<>>, Head(up[k]).type = "join", ready[k] = "open",
         NEW M \in SUBSET room.members, NEW f \in DownFrame,
         f = [type |-> "joined", id |-> k, members |-> M]
  PROVE  f \in OkFirst(k)'
<1>1. me.self = None /\ k \notin room.members
  BY JoinsAnew, JoinAlone
<1>2. UNCHANGED <<me, known>>
  BY DEF ServerStep
<1>3. f \in Entry /\ f.id = k /\ f.members = M
  BY DEF Entry
<1>4. Small /\ ~me.disposed => M \cap known \subseteq Range(me.stale)
  <2>1. None \notin known
    <3>1. known \subseteq Socket
      BY DEF ViewFits, NetTyped
    <3>. QED
      BY <3>1, OtherAssumption
  <2>2. Small /\ ~me.disposed =>
          \A x \in known \ {me.self} : x \in Range(me.stale) \/ (Never(x) /\ x \notin me.roster)
    BY DEF ViewFits, Memory
  <2>3. ASSUME NEW x \in M \cap known, Small, ~me.disposed PROVE x \in Range(me.stale)
    <3>1. x # me.self /\ x \in room.members
      BY <1>1, <2>1, <2>3
    <3>2. ~Never(x)
      BY <3>1 DEF Never
    <3>. QED
      BY <2>2, <2>3, <3>1, <3>2
  <2>. QED
    BY <2>3
<1>. QED
  BY <1>1, <1>2, <1>3, <1>4 DEF OkFirst, Small

LEMMA ServeJoinFits ==
  ASSUME ViewFits, NoneAssumption, NEW j \in Socket, ServeJoin(j)
  PROVE  ViewFits'
<1>1. PICK S : S = Same(j)
  OBVIOUS
<1>2. S \in SUBSET (room.members \cap (Socket \cup {Tab}))
  BY <1>1 DEF Same
<1>3. PICK r : r = Replaced(S)
  OBVIOUS
<1>4. PICK d : d = ToldReplaced(S)
  OBVIOUS
<1>5. /\ ReplacedBy(S, r, d)
      /\ \A A, B : FramesIn(down, A, B) /\ RoomForThem(S, r, A) => FramesIn(d, A, B)
  BY <1>2, <1>3, <1>4, Replacing
<1>6. /\ UNCHANGED <<me, gens, ready, cut, known>> /\ up[j] # <<>> /\ Head(up[j]).type = "join"
      /\ conn' = [k \in Socket |-> IF k \in S THEN "gone" ELSE conn[k]]
      /\ up' = [k \in Socket |-> IF k = j THEN Tail(up[j]) ELSE IF k \in S THEN <<>> ELSE up[k]]
      /\ Enter(j, r, d)
  BY <1>1, <1>3, <1>4 DEF ServeJoin, Serve
<1>7. /\ j \notin room.members /\ down[j] = <<>> /\ Tail(up[j]) \in Seq(UpFrame)
      /\ ready[j] = "open" => Tail(up[j]) = <<>> /\ me.self = None
  BY <1>6, JoinAlone, JoinsAnew
<1>8. JoinNet(S, {j})
  <2>1. up \in [Socket -> Seq(UpFrame)] /\ conn \in [Socket -> {"none", "open", "gone"}]
    BY DEF ViewFits, NetTyped
  <2>2. up' \in [Socket -> Seq(UpFrame)] /\ conn' \in [Socket -> {"none", "open", "gone"}]
    BY <1>6, <1>7, <2>1
  <2>3. j \notin S
    BY <1>2, <1>7
  <2>. QED
    BY <1>6, <2>2, <2>3 DEF JoinNet
<1>9. IsRoom(r) /\ d \in [Socket -> Seq(DownFrame)] /\ r.members \subseteq room.members /\ d[j] = <<>>
  BY <1>5, <1>7 DEF ReplacedBy
<1>10. r.members \in SUBSET Peer /\ j \in Peer
  BY <1>9 DEF IsRoom, Peer
<1>. DEFINE A == [k \in Socket |-> Ok(k)']
            B == [k \in Socket |-> OkFirst(k)']
<1>11. ServerStep => FramesIn(down, A, B)
  BY ServerKeeps
<1>12. ASSUME JoinRoom({j}, r, d) PROVE ServerStep /\ FramesIn(d, A, B)
  <2>1. ServerStep /\ RoomForThem(S, r, A)
    BY <1>2, <1>5, <1>8, <1>12, JoinStep
  <2>. HIDE DEF A, B
  <2>. QED
    BY <1>5, <1>11, <2>1
<1>13. ASSUME ServerStep, NEW k \in Socket, Live(k)'
       PROVE  /\ Live(k) /\ Reads(k) /\ k \notin S
              /\ k \in room.members => k \in r.members /\ Sees(me, up'[k], d[k], r, k)
  <2>1. Live(k) /\ Reads(k) /\ k \notin S
    BY <1>6, <1>13, LiveBefore DEF Live
  <2>2. ASSUME k \in room.members PROVE k \in r.members /\ Sees(me, up'[k], d[k], r, k)
    <3>1. Sees(me, up[k], down[k], room, k)
      BY <2>1, <2>2 DEF ViewFits, LiveFits
    <3>2. k # j /\ up'[k] = up[k]
      BY <1>6, <1>7, <2>1, <2>2
    <3>. QED
      BY <1>5, <2>1, <2>2, <3>1, <3>2 DEF ReplacedBy
  <2>. QED
    BY <2>1, <2>2
<1>14. CASE Cardinality(r.members) >= MaxRoomSize
  <2>1. PICK f : f = [type |-> "error", code |-> "ROOM_FULL"]
    OBVIOUS
  <2>2. f \in DownFrame /\ f.type = "error"
    <3>1. "ROOM_FULL" \in Code
      BY DEF Code
    <3>. QED
      BY <2>1, <3>1, FramesMade
  <2>3. room' = r /\ down' = Tell(d, {j}, <<f>>)
    BY <1>6, <1>14, <2>1 DEF Enter
  <2>4. Told(d, {j}, f, down')
    BY <1>9, <2>2, <2>3, TellsOne
  <2>5. JoinRoom({j}, r, d)
    BY <1>9, <2>3, <2>4 DEF JoinRoom, Told
  <2>6. ServerStep /\ FramesIn(d, A, B)
    BY <1>12, <2>5
  <2>7. \A k \in Socket : f \in A[k]
    BY <2>2, PlainFits
  <2>8. FramesIn(down', A, B)
    <3>. HIDE DEF A, B
    <3>. QED
      BY <1>9, <2>2, <2>4, <2>6, <2>7, ToldFits
  <2>9. LiveSees
    <3>1. SUFFICES ASSUME NEW k \in Socket, Live(k)'
                   PROVE  /\ k \in room'.members => Sees(me, up'[k], down'[k], room', k)
                          /\ k \notin room'.members => me.self = None /\ ~Has(down'[k], Entry)
      BY DEF LiveSees
    <3>2. /\ Live(k) /\ Reads(k) /\ k \notin S
          /\ k \in room.members => k \in r.members /\ Sees(me, up'[k], d[k], r, k)
      BY <1>13, <2>6, <3>1
    <3>3. CASE k \in room.members
      <4>1. down'[k] = d[k]
        BY <1>7, <2>4, <3>3 DEF Told
      <4>. QED
        BY <2>3, <3>2, <3>3, <4>1
    <3>4. CASE k \notin room.members /\ k # j
      <4>1. down'[k] = down[k]
        BY <1>5, <2>4, <3>4 DEF Told, ReplacedBy
      <4>. QED
        BY <1>9, <2>3, <3>2, <3>4, <4>1 DEF ViewFits, LiveFits
    <3>5. CASE k = j
      <4>1. down'[k] = Append(d[k], f) /\ d[k] \in Seq(DownFrame) /\ me.self = None
        BY <1>7, <1>9, <2>4, <3>2, <3>5 DEF Told, Reads
      <4>2. f \notin Entry /\ ~Has(d[k], Entry)
        BY <1>9, <2>2, <3>5 DEF Entry, Has
      <4>3. ~Has(down'[k], Entry)
        BY <2>2, <4>1, <4>2, HasAfter
      <4>. QED
        BY <1>7, <1>9, <2>3, <3>5, <4>1, <4>3
    <3>. QED
      BY <3>3, <3>4, <3>5
  <2>. QED
    BY <2>6, <2>8, <2>9, ServerDone
<1>15. CASE ~(Cardinality(r.members) >= MaxRoomSize)
  <2>1. PICK f : f = [type |-> "joined", id |-> j, members |-> r.members]
    OBVIOUS
  <2>2. PICK g : g = [type |-> "peer.joined", id |-> j]
    OBVIOUS
  <2>3. f \in DownFrame /\ g \in DownFrame /\ g.type = "peer.joined" /\ g.id = j
    BY <1>10, <2>1, <2>2, FramesMade
  <2>4. PICK c : c = Tell(d, {j}, <<f>>)
    OBVIOUS
  <2>5. room' = [r EXCEPT !.members = @ \cup {j}] /\ down' = Tell(c, r.members, <<g>>)
    BY <1>6, <1>15, <2>1, <2>2, <2>4 DEF Enter
  <2>6. Told(d, {j}, f, c)
    BY <1>9, <2>3, <2>4, TellsOne
  <2>7. c \in [Socket -> Seq(DownFrame)]
    BY <2>6 DEF Told
  <2>8. Told(c, r.members, g, down')
    BY <2>3, <2>5, <2>7, TellsOne
  <2>9. /\ room'.members = r.members \cup {j} /\ room'.hands = r.hands /\ room'.study = r.study
        /\ IsRoom(room')
    BY <1>9, <1>10, <2>5 DEF IsRoom
  <2>10. \A k \in Socket : down'[k] = d[k] \/ (Reads(k) /\ (k \in {j} \/ k \in r.members))
    BY <2>6, <2>8 DEF Told
  <2>11. JoinRoom({j}, r, d)
    BY <2>8, <2>9, <2>10 DEF JoinRoom, Told
  <2>12. ServerStep /\ FramesIn(d, A, B)
    BY <1>12, <2>11
  <2>13. ready[j] = "open" => f \in B[j]
    BY <1>6, <1>9, <2>1, <2>3, <2>12, EntryFits
  <2>14. \A k \in Socket : k \in {j} /\ Reads(k) => f \in A[k] \/ (d[k] = <<>> /\ f \in B[k])
    BY <1>9, <2>13 DEF Reads
  <2>15. FramesIn(c, A, B)
    <3>. HIDE DEF A, B
    <3>. QED
      BY <1>9, <2>3, <2>6, <2>12, <2>14, ToldFits
  <2>16. \A k \in Socket : k \in r.members => g \in A[k]
    <3>1. j \notin known' /\ j \notin r.members
      BY <1>6, <1>7, <1>9, JoinAlone
    <3>. QED
      BY <2>3, <3>1 DEF Ok
  <2>17. FramesIn(down', A, B)
    <3>. HIDE DEF A, B
    <3>. QED
      BY <2>3, <2>7, <2>8, <2>15, <2>16, ToldFits
  <2>18. LiveSees
    <3>1. SUFFICES ASSUME NEW k \in Socket, Live(k)'
                   PROVE  /\ k \in room'.members => Sees(me, up'[k], down'[k], room', k)
                          /\ k \notin room'.members => me.self = None /\ ~Has(down'[k], Entry)
      BY DEF LiveSees
    <3>2. /\ Live(k) /\ Reads(k) /\ k \notin S
          /\ k \in room.members => k \in r.members /\ Sees(me, up'[k], d[k], r, k)
      BY <1>13, <2>12, <3>1
    <3>3. CASE k \in room.members
      <4>1. down'[k] = Append(d[k], [type |-> "peer.joined", id |-> j])
        BY <1>7, <2>2, <2>6, <2>8, <3>2, <3>3 DEF Told
      <4>2. d[k] \in Seq(DownFrame) /\ me.queue \in Hands \cup {None} /\ me.study \in Nat \cup {None}
        BY <1>9 DEF ViewFits, IsClient
      <4>3. Sees(me, up'[k], Append(d[k], [type |-> "peer.joined", id |-> j]), room', k)
        BY <1>9, <1>10, <2>9, <3>2, <3>3, <4>2, FrameSeen
      <4>. QED
        BY <2>9, <3>2, <3>3, <4>1, <4>3
    <3>4. CASE k \notin room.members /\ k # j
      <4>1. down'[k] = down[k] /\ k \notin room'.members
        BY <1>5, <1>9, <2>6, <2>8, <2>9, <3>4 DEF Told, ReplacedBy
      <4>. QED
        BY <3>2, <3>4, <4>1 DEF ViewFits, LiveFits
    <3>5. CASE k = j
      <4>1. down'[k] = Append(<<>>, f) /\ up'[k] = <<>> /\ me.self = None
        BY <1>6, <1>7, <1>9, <2>6, <2>8, <3>2, <3>5 DEF Told, Reads
      <4>2. me.status # "active" /\ me.queue = None /\ me.study = None /\ me.command = None
        BY <4>1 DEF ViewFits, Began
      <4>3. room'.members \ {k} = r.members \ {k}
        BY <2>9, <3>5
      <4>4. Sees(me, <<>>, down'[k], room', k)
        BY <1>10, <2>1, <2>3, <3>5, <4>1, <4>2, <4>3, EntrySeen
      <4>. QED
        BY <2>9, <3>5, <4>1, <4>4
    <3>. QED
      BY <3>3, <3>4, <3>5
  <2>. QED
    BY <2>12, <2>17, <2>18, ServerDone
<1>. QED
  BY <1>14, <1>15

LEMMA RestartFits ==
  ASSUME ViewFits, NoneAssumption, Restart
  PROVE  ViewFits'
<1>1. PICK f : f = [type |-> "close", code |-> "shutdown"]
  OBVIOUS
<1>2. f \in DownFrame /\ f.type = "close"
  <2>1. "shutdown" \in Code
    BY DEF Code
  <2>. QED
    BY <1>1, <2>1, FramesMade
<1>3. PICK M : M = {k \in Socket : conn[k] = "open"}
  OBVIOUS
<1>4. /\ UNCHANGED <<me, gens, ready, cut, known>> /\ down' = Tell(down, M, <<f>>)
      /\ conn' = [k \in Socket |-> IF conn[k] = "open" THEN "gone" ELSE conn[k]]
      /\ up' = [k \in Socket |-> <<>>]
      /\ room' = [members |-> {}, hands |-> None, study |-> None]
  BY <1>1, <1>3 DEF Restart
<1>5. /\ down \in [Socket -> Seq(DownFrame)] /\ conn \in [Socket -> {"none", "open", "gone"}]
      /\ NetTyped
  BY DEF ViewFits, NetTyped
<1>6. Told(down, M, f, down')
  BY <1>2, <1>4, <1>5, TellsOne
<1>7. NetTyped'
  <2>1. down' \in [Socket -> Seq(DownFrame)]
    BY <1>6 DEF Told
  <2>2. up' \in [Socket -> Seq(UpFrame)] /\ conn' \in [Socket -> {"none", "open", "gone"}]
    BY <1>4, <1>5
  <2>. QED
    BY <1>4, <1>5, <2>1, <2>2 DEF NetTyped
<1>8. IsRoom(room')
  BY <1>4 DEF IsRoom
<1>9. ASSUME NEW k \in Socket PROVE SocketStep(k) /\ conn'[k] # "open"
  <2>1. ~Has(up'[k], Joining)
    BY <1>4 DEF Has
  <2>2. down'[k] = down[k] \/ Reads(k)
    BY <1>6 DEF Told
  <2>. QED
    BY <1>4, <1>5, <2>1, <2>2 DEF SocketStep
<1>10. ServerStep
  BY <1>4, <1>7, <1>8, <1>9 DEF ServerStep
<1>11. LiveSees
  BY <1>9 DEF LiveSees, Live
<1>. QED
  BY <1>2, <1>6, <1>10, <1>11, PlainFits, ToldStep

\* What was on a lost path does not matter any more.
LEMMA CutFits ==
  ASSUME ViewFits, NEW j \in Socket, Cut(j)
  PROVE  ViewFits'
<1>1. /\ UNCHANGED <<me, gens, ready, conn, room, known>> /\ cut' = cut \cup {j}
      /\ up' = [up EXCEPT ![j] = <<>>] /\ down' = [down EXCEPT ![j] = <<>>]
  BY DEF Cut, roomVars
<1>2. /\ conn \in [Socket -> {"none", "open", "gone"}] /\ cut \subseteq Socket
      /\ up \in [Socket -> Seq(UpFrame)] /\ down \in [Socket -> Seq(DownFrame)]
      /\ known \subseteq Socket
  BY DEF ViewFits, NetTyped
<1>3. NetTyped'
  <2>1. up' \in [Socket -> Seq(UpFrame)] /\ down' \in [Socket -> Seq(DownFrame)] /\ cut' \subseteq Socket
    BY <1>1, <1>2
  <2>. QED
    BY <1>1, <1>2, <2>1 DEF NetTyped
<1>4. SocketsFit' /\ IsRoom(room') /\ IsClient(me') /\ Began'
  BY <1>1 DEF ViewFits, SocketsFit, Began
<1>5. /\ up'[j] = <<>> /\ down'[j] = <<>> /\ ~Has(<<>>, Joining) /\ ~Has(<<>>, Work) /\ ~Has(<<>>, Ending)
      /\ \A k \in Socket : k # j => up'[k] = up[k] /\ down'[k] = down[k] /\ (Reads(k)' <=> Reads(k))
      /\ ~Reads(j)'
  BY <1>1, <1>2 DEF Reads, Has
<1>6. UpFit'
  <2>1. SUFFICES ASSUME NEW k \in Socket PROVE Lines(k)'
    BY DEF UpFit
  <2>2. Lines(k)
    BY DEF ViewFits, UpFit
  <2>3. CASE k = j
    <3>1. InOrder(<<>>)
      BY DEF InOrder
    <3>. QED
      BY <1>1, <1>5, <2>2, <2>3, <3>1 DEF Lines
  <2>4. CASE k # j
    BY <1>1, <1>5, <2>2, <2>4 DEF Lines
  <2>. QED
    BY <2>3, <2>4
<1>7. \A x \in Socket : Never(x) => Never(x)'
  BY <1>1, <1>5 DEF Never
<1>8. DownFit'
  <2>1. ASSUME NEW k \in Socket, NEW f \in Ok(k) PROVE f \in Ok(k)'
    BY <1>1, <1>7, <2>1 DEF Ok
  <2>2. ASSUME NEW k \in Socket, NEW f \in OkFirst(k) PROVE f \in OkFirst(k)'
    BY <1>1, <2>2 DEF OkFirst, Small
  <2>3. \A i : i \notin 1..Len(<<>>)
    OBVIOUS
  <2>. QED
    BY <1>5, <2>1, <2>2, <2>3 DEF DownFit, ViewFits
<1>9. Memory'
  <2>1. Memory /\ (Small' <=> Small)
    BY <1>1 DEF ViewFits, Small
  <2>2. Small /\ ~me.disposed =>
          \A x \in known \ {me.self} : x \in Range(me.stale) \/ (Never(x)' /\ x \notin me.roster)
    BY <1>2, <1>7, <2>1 DEF Memory
  <2>. QED
    BY <1>1, <2>1, <2>2 DEF Memory
<1>10. LiveFits'
  <2>1. SUFFICES ASSUME NEW k \in Socket, Live(k)'
                 PROVE  /\ k \in room'.members => Sees(me', up'[k], down'[k], room', k)
                        /\ k \notin room'.members => me'.self = None /\ ~Has(down'[k], Entry)
    BY DEF LiveFits
  <2>2. k # j /\ Live(k)
    BY <1>1, <1>5, <2>1 DEF Live
  <2>. QED
    BY <1>1, <1>5, <2>2 DEF ViewFits, LiveFits
<1>. QED
  BY <1>3, <1>4, <1>6, <1>8, <1>9, <1>10 DEF ViewFits

\* Every step of the server, of the other members and of the network.
LEMMA RoomStepFits ==
  ASSUME ViewFits, NoneAssumption, OtherAssumption,
         \/ \E k \in Socket : Server(k) \/ RefuseJoin(k) \/ Cut(k)
         \/ \E q \in Others : OtherJoins(q) \/ OtherLeaves(q) \/ OtherCommands(q)
         \/ OtherTabJoins \/ Restart
  PROVE  ViewFits'
<1>1. ASSUME NEW k \in Socket, ServeClose(k) \/ ServerNotices(k) PROVE ViewFits'
  <2>1. Drop(k) /\ conn[k] = "open" /\ UNCHANGED <<me, gens, ready, cut, known>>
    BY <1>1 DEF ServeClose, ServerNotices, Serve
  <2>. QED
    BY <2>1, DropFits
<1>2. ASSUME NEW k \in Socket, Server(k) \/ RefuseJoin(k) \/ Cut(k) PROVE ViewFits'
  BY <1>1, <1>2, ServeJoinFits, RefuseLateJoinFits, ServeLeaveFits, ServeHandFits, ServeStudyFits,
     RefuseJoinFits, CutFits
  DEF Server
<1>3. ASSUME NEW q \in Others, OtherJoins(q) \/ OtherLeaves(q) \/ OtherCommands(q) PROVE ViewFits'
  BY <1>3, OtherJoinsFits, OtherLeavesFits, OtherCommandsFits
<1>. QED
  BY <1>2, <1>3, OtherTabJoinsFits, RestartFits

-----------------------------------------------------------------------------
(* The first frame that a session reads                                    *)

\* A session without an id is confirmed as a member first, or is refused.
Greeted(k) ==
  me.self = None /\ Reads(k) =>
    \/ down[k] # <<>> /\ Head(down[k]) \in Entry
    \/ k \notin room.members /\ \A i \in 1..Len(down[k]) : down[k][i] \in Refusal

GreetFits == \A k \in Socket : Greeted(k)

\* The first frame of a sequence stays the first.
Longer(d, e) ==
  \A k \in Socket : d[k] # <<>> => e[k] # <<>> /\ Head(e[k]) = Head(d[k])

LEMMA AppendKeepsHead ==
  ASSUME NEW d \in Seq(DownFrame), NEW f \in DownFrame
  PROVE  Append(d, f) # <<>> /\ Head(Append(d, f)) = (IF d = <<>> THEN f ELSE Head(d))
<1>1. Append(d, f) \in Seq(DownFrame) /\ Append(d, f) # <<>>
  BY AppendsAt
<1>2. CASE d = <<>>
  BY <1>1, <1>2, AppendsAt
<1>3. CASE d # <<>>
  <2>1. 1 \in 1..Len(d) /\ Head(d) = d[1] /\ Append(d, f)[1] = d[1]
    BY <1>3, TailsAt, AppendsAt
  <2>. QED
    BY <1>1, <1>3, <2>1
<1>. QED
  BY <1>1, <1>2, <1>3

LEMMA ToldLonger ==
  ASSUME NEW d \in [Socket -> Seq(DownFrame)], NEW M, NEW f \in DownFrame, NEW e, Told(d, M, f, e)
  PROVE  Longer(d, e)
<1>1. SUFFICES ASSUME NEW k \in Socket, d[k] # <<>> PROVE e[k] # <<>> /\ Head(e[k]) = Head(d[k])
  BY DEF Longer
<1>2. d[k] \in Seq(DownFrame) /\ (e[k] = d[k] \/ e[k] = Append(d[k], f))
  BY DEF Told
<1>. QED
  BY <1>1, <1>2, AppendKeepsHead

LEMMA PartedLonger ==
  ASSUME NEW d \in [Socket -> Seq(DownFrame)], NEW r, NEW j \in Peer, NEW e, Parted(d, r, j, e),
         Raised(r, j) => HandState(Lowered(r.hands, j)) \in DownFrame
  PROVE  Longer(d, e)
<1>1. SUFFICES ASSUME NEW k \in Socket, d[k] # <<>> PROVE e[k] # <<>> /\ Head(e[k]) = Head(d[k])
  BY DEF Longer
<1>2. PICK p \in DownFrame : p = [type |-> "peer.left", id |-> j]
  BY FramesMade
<1>3. PICK g : g = HandState(Lowered(r.hands, j))
  OBVIOUS
<1>4. PICK c \in Seq(DownFrame) : c = Append(d[k], p)
  BY AppendsAt
<1>5. e[k] = d[k] \/ e[k] = c \/ (e[k] = Append(c, g) /\ g \in DownFrame)
  BY <1>2, <1>3, <1>4 DEF Parted
<1>6. c # <<>> /\ Head(c) = Head(d[k])
  BY <1>1, <1>4, AppendKeepsHead
<1>. QED
  BY ZenonT(40), <1>1, <1>5, <1>6, AppendKeepsHead

\* What the room tells those who have no id.
LEMMA StaysGreeted ==
  ASSUME ViewFits, GreetFits, NEW k \in Socket, UNCHANGED <<me, ready>>, cut \subseteq cut',
         down[k] # <<>> => down'[k] # <<>> /\ Head(down'[k]) = Head(down[k]),
         NEW R, R = (k \notin room.members),
         Reads(k)' /\ R =>
           \/ k \notin room'.members /\ down'[k] = down[k]
           \/ k \notin room'.members /\ \E f \in DownFrame \cap Refusal : down'[k] = Append(down[k], f)
           \/ down'[k] # <<>> /\ Head(down'[k]) \in Entry
  PROVE  Greeted(k)'
<1>1. SUFFICES ASSUME me.self = None, Reads(k)'
               PROVE  \/ down'[k] # <<>> /\ Head(down'[k]) \in Entry
                      \/ k \notin room'.members /\ \A i \in 1..Len(down'[k]) : down'[k][i] \in Refusal
  BY DEF Greeted
<1>2. Reads(k) /\ down[k] \in Seq(DownFrame)
  BY <1>1 DEF Reads, ViewFits, NetTyped
<1>3. \/ down[k] # <<>> /\ Head(down[k]) \in Entry
      \/ k \notin room.members /\ \A i \in 1..Len(down[k]) : down[k][i] \in Refusal
  BY <1>1, <1>2 DEF GreetFits, Greeted
<1>4. CASE down[k] # <<>> /\ Head(down[k]) \in Entry
  BY <1>4
<1>5. CASE k \notin room.members /\ \A i \in 1..Len(down[k]) : down[k][i] \in Refusal
  <2>1. CASE down'[k] = down[k] /\ k \notin room'.members
    BY <1>5, <2>1
  <2>2. ASSUME k \notin room'.members, NEW f \in DownFrame \cap Refusal, down'[k] = Append(down[k], f)
        PROVE  \A i \in 1..Len(down'[k]) : down'[k][i] \in Refusal
    BY <1>2, <1>5, <2>2, AppendsAt
  <2>. QED
    BY <1>1, <1>5, <2>1, <2>2
<1>. QED
  BY <1>3, <1>4, <1>5

\* Only members are told something.
LEMMA MembersGreeted ==
  ASSUME ViewFits, GreetFits, UNCHANGED <<me, ready>>, cut \subseteq cut', Longer(down, down'),
         \A k \in Socket : k \in room'.members => k \in room.members,
         \A k \in Socket : k \notin room.members => down'[k] = down[k]
  PROVE  GreetFits'
<1>1. ASSUME NEW k \in Socket PROVE Greeted(k)'
  <2>1. down[k] # <<>> => down'[k] # <<>> /\ Head(down'[k]) = Head(down[k])
    BY DEF Longer
  <2>2. PICK R : R = (k \notin room.members)
    OBVIOUS
  <2>3. R => k \notin room'.members /\ down'[k] = down[k]
    BY <2>2
  <2>. QED
    BY <2>1, <2>2, <2>3, StaysGreeted
<1>. QED
  BY <1>1 DEF GreetFits

\* Somebody is refused.
LEMMA RefusedGreeted ==
  ASSUME ViewFits, GreetFits, UNCHANGED <<me, ready, cut>>, NEW f \in DownFrame \cap Refusal, NEW M,
         Told(down, M, f, down'), \A k \in Socket : k \in room'.members => k \in room.members
  PROVE  GreetFits'
<1>0. down \in [Socket -> Seq(DownFrame)]
  BY DEF ViewFits, NetTyped
<1>1. Longer(down, down')
  BY <1>0, ToldLonger
<1>2. ASSUME NEW k \in Socket PROVE Greeted(k)'
  <2>1. down[k] # <<>> => down'[k] # <<>> /\ Head(down'[k]) = Head(down[k])
    BY <1>1 DEF Longer
  <2>2. PICK R : R = (k \notin room.members)
    OBVIOUS
  <2>3. R => k \notin room'.members /\ (down'[k] = down[k] \/ down'[k] = Append(down[k], f))
    BY <2>2 DEF Told
  <2>. QED
    BY <2>1, <2>2, <2>3, StaysGreeted
<1>. QED
  BY <1>2 DEF GreetFits

\* A member leaves.
LEMMA PartedGreeted ==
  ASSUME ViewFits, GreetFits, NoneAssumption, UNCHANGED <<me, ready, cut>>, NEW j \in Peer, NEW kept \in BOOLEAN,
         room' = Without(room, j, kept), down' = Tell(down, room.members \ {j}, Farewell(room, j))
  PROVE  GreetFits'
<1>1. IsRoom(room) /\ down \in [Socket -> Seq(DownFrame)]
  BY DEF ViewFits, NetTyped
<1>2. Parted(down, room, j, down')
  BY <1>1, Farewells
<1>3. room'.members = room.members \ {j} /\ (Raised(room, j) => Lowered(room.hands, j) \in Hands)
  BY <1>1, WithoutOne
<1>4. Raised(room, j) => HandState(Lowered(room.hands, j)) \in DownFrame
  BY <1>3, FramesMade
<1>5. Longer(down, down')
  BY <1>1, <1>2, <1>4, PartedLonger
<1>6. \A k \in Socket : k \notin room.members => down'[k] = down[k]
  BY <1>2 DEF Parted
<1>. QED
  BY <1>3, <1>5, <1>6, MembersGreeted

\* The members are told something.
LEMMA ToldGreeted ==
  ASSUME ViewFits, GreetFits, UNCHANGED <<me, ready, cut>>, NEW f \in DownFrame, NEW M,
         Told(down, M, f, down'), \A k \in Socket : k \in M => k \in room.members,
         \A k \in Socket : k \in room'.members => k \in room.members
  PROVE  GreetFits'
<1>0. down \in [Socket -> Seq(DownFrame)]
  BY DEF ViewFits, NetTyped
<1>1. Longer(down, down')
  BY <1>0, ToldLonger
<1>2. \A k \in Socket : k \notin room.members => down'[k] = down[k]
  BY DEF Told
<1>. QED
  BY <1>1, <1>2, MembersGreeted

LEMMA RequestGreets ==
  ASSUME ViewFits, GreetFits, NoneAssumption, NEW j \in Socket,
         ServeHand(j) \/ ServeStudy(j) \/ ServeLeave(j) \/ ServeClose(j) \/ ServerNotices(j)
  PROVE  GreetFits'
<1>1. /\ IsRoom(room) /\ down \in [Socket -> Seq(DownFrame)] /\ up \in [Socket -> Seq(UpFrame)]
      /\ j \in Peer
  BY DEF ViewFits, NetTyped, Peer
<1>2. CASE ServeLeave(j) \/ ServeClose(j) \/ ServerNotices(j)
  <2>1. UNCHANGED <<me, ready, cut>> /\ down' = Tell(down, room.members \ {j}, Farewell(room, j))
    BY <1>2 DEF ServeLeave, ServeClose, ServerNotices, Serve, Drop
  <2>2. PICK kept \in BOOLEAN : room' = Without(room, j, kept)
    BY <1>2 DEF ServeLeave, ServeClose, ServerNotices, Drop, Retained
  <2>. QED
    BY <1>1, <2>1, <2>2, PartedGreeted
<1>3. CASE ServeHand(j)
  <2>1. PICK h, next :
           /\ HandsAfter(h, j, next) /\ room' = [room EXCEPT !.hands = next]
           /\ down' = Tell(down, IF next = h THEN {j} ELSE room.members, <<HandState(next)>>)
    BY <1>3, HandServed
  <2>2. PICK M : M = IF next = h THEN {j} ELSE room.members
    OBVIOUS
  <2>3. UNCHANGED <<me, ready, cut>> /\ up[j] # <<>> /\ Head(up[j]).type = "hand" /\ Served(j)
    BY <1>3 DEF ServeHand, Serve
  <2>4. Head(up[j]) \in Work
    BY <2>3, ServedLeaves DEF Work
  <2>5. j \in room.members
    BY <2>3, <2>4, Asks
  <2>6. next \in Hands
    BY <2>1 DEF HandsAfter
  <2>7. PICK f \in DownFrame : f = HandState(next)
    BY <2>6, FramesMade
  <2>8. Told(down, M, f, down')
    BY <1>1, <2>1, <2>2, <2>7, TellsOne
  <2>9. room'.members = room.members
    BY <1>1, <2>1 DEF IsRoom
  <2>. QED
    BY <2>2, <2>3, <2>5, <2>8, <2>9, ToldGreeted
<1>4. CASE ServeStudy(j)
  <2>1. PICK M, next :
           /\ StudyAfter(M, next) /\ M \in {room.members, {j}} /\ room' = [room EXCEPT !.study = next]
           /\ down' = Tell(down, M, <<StudyState(Frame(j).id, next)>>)
    BY <1>4, StudyServed
  <2>3. UNCHANGED <<me, ready, cut>> /\ up[j] # <<>> /\ Head(up[j]).type = "study" /\ Served(j)
    BY <1>4 DEF ServeStudy, Serve
  <2>4. Head(up[j]) \in Work /\ Head(up[j]) \in UpFrame
    BY <2>3, ServedLeaves DEF Work
  <2>5. j \in room.members
    BY <2>3, <2>4, Asks
  <2>6. next \in Nat
    BY <2>1 DEF StudyAfter
  <2>7. PICK id \in RequestId : id = Head(up[j]).id
    BY <2>3, <2>4, UpFrames
  <2>8. PICK f \in DownFrame : f = StudyState(id, next)
    BY <2>6, FramesMade
  <2>9. Told(down, M, f, down')
    BY <1>1, <2>1, <2>7, <2>8, TellsOne DEF Frame
  <2>10. room'.members = room.members
    BY <1>1, <2>1 DEF IsRoom
  <2>. QED
    BY <2>1, <2>3, <2>5, <2>9, <2>10, ToldGreeted
<1>. QED
  BY <1>2, <1>3, <1>4

LEMMA OtherGreets ==
  ASSUME ViewFits, GreetFits, NoneAssumption, OtherAssumption, NEW q \in Others,
         OtherJoins(q) \/ OtherLeaves(q) \/ OtherCommands(q)
  PROVE  GreetFits'
<1>1. IsRoom(room) /\ down \in [Socket -> Seq(DownFrame)] /\ q \in Peer /\ q \notin Socket
  BY OtherAssumption DEF ViewFits, NetTyped, Peer
<1>2. UNCHANGED <<me, ready, cut>>
  BY DEF OtherJoins, OtherLeaves, OtherCommands, Elsewhere
<1>3. CASE OtherLeaves(q)
  <2>1. down' = Tell(down, room.members \ {q}, Farewell(room, q))
    BY <1>3 DEF OtherLeaves
  <2>2. PICK kept \in BOOLEAN : room' = Without(room, q, kept)
    BY <1>3 DEF OtherLeaves, Retained
  <2>. QED
    BY <1>1, <1>2, <2>1, <2>2, PartedGreeted
<1>4. CASE OtherJoins(q)
  <2>1. PICK f \in DownFrame : f = [type |-> "peer.joined", id |-> q]
    BY <1>1, FramesMade
  <2>2. /\ down' = Tell(down, room.members, <<f>>)
        /\ room' = [room EXCEPT !.members = @ \cup {q}]
    BY <1>4, <2>1 DEF OtherJoins
  <2>3. room'.members = room.members \cup {q}
    BY <1>1, <2>2 DEF IsRoom
  <2>4. Told(down, room.members, f, down')
    BY <1>1, <2>2, TellsOne
  <2>. QED
    BY <1>1, <1>2, <2>3, <2>4, ToldGreeted
<1>5. CASE OtherCommands(q)
  <2>1. room.study \in Nat /\ None \in RequestId
    BY <1>1, <1>5 DEF OtherCommands, IsRoom, RequestId
  <2>2. PICK f \in DownFrame : f = StudyState(None, room.study + 1)
    BY <2>1, FramesMade
  <2>3. /\ down' = Tell(down, room.members, <<f>>) /\ room' = [room EXCEPT !.study = @ + 1]
    BY <1>5, <2>2 DEF OtherCommands
  <2>4. room'.members = room.members
    BY <1>1, <2>3 DEF IsRoom
  <2>5. Told(down, room.members, f, down')
    BY <1>1, <2>3, TellsOne
  <2>. QED
    BY <1>1, <1>2, <2>4, <2>5, ToldGreeted
<1>. QED
  BY <1>3, <1>4, <1>5

LEMMA RefusalGreets ==
  ASSUME ViewFits, GreetFits, NoneAssumption,
         \/ \E j \in Socket : RefuseJoin(j) \/ RefuseLateJoin(j)
         \/ Restart
  PROVE  GreetFits'
<1>1. IsRoom(room) /\ down \in [Socket -> Seq(DownFrame)]
  BY DEF ViewFits, NetTyped
<1>2. UNCHANGED <<me, ready, cut>>
  BY DEF RefuseJoin, RefuseLateJoin, Restart, Serve
<1>3. PICK M, f : /\ f \in {[type |-> "error", code |-> "FORBIDDEN"], [type |-> "close", code |-> "superseded"],
                           [type |-> "close", code |-> "shutdown"]}
                  /\ down' = Tell(down, M, <<f>>)
  BY DEF RefuseJoin, RefuseLateJoin, Restart, Supersede
<1>4. f \in DownFrame \cap Refusal
  <2>1. {"FORBIDDEN", "superseded", "shutdown"} \subseteq Code
    BY DEF Code
  <2>2. f \in DownFrame
    BY <1>3, <2>1, FramesMade
  <2>3. f.type \in {"error", "close"}
    BY <1>3
  <2>. QED
    BY <2>2, <2>3 DEF Refusal
<1>5. Told(down, M, f, down')
  BY <1>1, <1>3, <1>4, TellsOne
<1>6. room' = room \/ room'.members = {}
  <2>1. CASE Restart
    <3>1. room' = [members |-> {}, hands |-> None, study |-> None]
      BY <2>1 DEF Restart
    <3>. QED
      BY <3>1
  <2>2. CASE ~Restart
    BY <2>2 DEF RefuseJoin, RefuseLateJoin
  <2>. QED
    BY <2>1, <2>2
<1>. QED
  BY <1>2, <1>4, <1>5, <1>6, RefusedGreeted

\* Those who are told of a replacement have been told something before.
LEMMA ReplacingLonger ==
  ASSUME ViewFits, NoneAssumption, NEW S \in SUBSET (room.members \cap (Socket \cup {Tab})),
         NEW d, d = ToldReplaced(S)
  PROVE  Longer(down, d)
<1>1. IsRoom(room) /\ down \in [Socket -> Seq(DownFrame)]
  BY DEF ViewFits, NetTyped
<1>2. CASE S = {}
  BY <1>2 DEF ToldReplaced, Longer
<1>3. CASE S # {}
  <2>. DEFINE x == CHOOSE e \in S : TRUE
  <2>1. PICK e \in S : e = x
    BY <1>3
  <2>2. PICK c : c = Tell(down, room.members \ {e}, Farewell(room, e))
    OBVIOUS
  <2>3. PICK f : f = [type |-> "close", code |-> "superseded"]
    OBVIOUS
  <2>4. d = Tell(c, S, <<f>>)
    BY <1>3, <2>1, <2>2, <2>3 DEF ToldReplaced, Supersede
  <2>. HIDE DEF x
  <2>5. e \in Peer
    BY <2>1 DEF Peer
  <2>6. Parted(down, room, e, c)
    BY <1>1, <2>2, <2>5, Farewells
  <2>7. PICK kept \in BOOLEAN : kept = TRUE
    OBVIOUS
  <2>8. Raised(room, e) => Lowered(room.hands, e) \in Hands
    BY <1>1, WithoutOne
  <2>9. Raised(room, e) => HandState(Lowered(room.hands, e)) \in DownFrame
    BY <2>8, FramesMade
  <2>14. Longer(down, c)
    BY <1>1, <2>5, <2>6, <2>9, PartedLonger
  <2>15. c \in [Socket -> Seq(DownFrame)]
    BY <2>6 DEF Parted
  <2>10. Longer(down, c) /\ c \in [Socket -> Seq(DownFrame)]
    BY <2>14, <2>15
  <2>11. f \in DownFrame
    <3>1. "superseded" \in Code
      BY DEF Code
    <3>. QED
      BY <2>3, <3>1, FramesMade
  <2>12. Told(c, S, f, d)
    BY <2>4, <2>10, <2>11, TellsOne
  <2>13. Longer(c, d)
    BY <2>10, <2>11, <2>12, ToldLonger
  <2>. QED
    BY <2>10, <2>13 DEF Longer
<1>. QED
  BY <1>2, <1>3

LEMMA TabGreets ==
  ASSUME ViewFits, GreetFits, NoneAssumption, OtherTabJoins
  PROVE  GreetFits'
<1>1. PICK S : S = Same(Tab)
  OBVIOUS
<1>2. S \in SUBSET (room.members \cap (Socket \cup {Tab}))
  BY <1>1 DEF Same, OtherTabJoins
<1>3. PICK r : r = Replaced(S)
  OBVIOUS
<1>4. PICK d : d = ToldReplaced(S)
  OBVIOUS
<1>5. ReplacedBy(S, r, d)
  BY <1>2, <1>3, <1>4, Replacing
<1>6. /\ UNCHANGED <<me, ready, cut>> /\ down' = d
      /\ room' = [r EXCEPT !.members = @ \cup {Tab}]
  BY <1>1, <1>3, <1>4 DEF OtherTabJoins
<1>7. IsRoom(r) /\ r.members \subseteq room.members
  BY <1>5 DEF ReplacedBy
<1>8. room'.members = r.members \cup {Tab} /\ Tab \notin Socket
  BY <1>6, <1>7 DEF IsRoom, Tab, Socket
<1>9. Longer(down, down')
  BY <1>2, <1>4, <1>6, ReplacingLonger
<1>10. \A k \in Socket : k \notin room.members => down'[k] = down[k]
  BY <1>5, <1>6 DEF ReplacedBy
<1>. QED
  BY <1>6, <1>7, <1>8, <1>9, <1>10, MembersGreeted

LEMMA JoinGreets ==
  ASSUME ViewFits, GreetFits, NoneAssumption, NEW j \in Socket, ServeJoin(j)
  PROVE  GreetFits'
<1>1. PICK S : S = Same(j)
  OBVIOUS
<1>2. S \in SUBSET (room.members \cap (Socket \cup {Tab}))
  BY <1>1 DEF Same
<1>3. PICK r : r = Replaced(S)
  OBVIOUS
<1>4. PICK d : d = ToldReplaced(S)
  OBVIOUS
<1>5. ReplacedBy(S, r, d)
  BY <1>2, <1>3, <1>4, Replacing
<1>6. /\ UNCHANGED <<me, ready, cut>> /\ up[j] # <<>> /\ Head(up[j]).type = "join"
      /\ Enter(j, r, d)
  BY <1>1, <1>3, <1>4 DEF ServeJoin, Serve
<1>7. j \notin room.members /\ down[j] = <<>>
  BY <1>6, JoinAlone
<1>8. /\ IsRoom(r) /\ d \in [Socket -> Seq(DownFrame)] /\ r.members \subseteq room.members /\ d[j] = <<>>
      /\ \A k \in Socket : k \notin room.members => d[k] = down[k]
  BY <1>5, <1>7 DEF ReplacedBy
<1>9. Longer(down, d)
  BY <1>2, <1>4, ReplacingLonger
<1>10. CASE Cardinality(r.members) >= MaxRoomSize
  <2>1. PICK f : f = [type |-> "error", code |-> "ROOM_FULL"]
    OBVIOUS
  <2>2. f \in DownFrame \cap Refusal
    <3>1. "ROOM_FULL" \in Code
      BY DEF Code
    <3>2. f \in DownFrame
      BY <2>1, <3>1, FramesMade
    <3>. QED
      BY <2>1, <3>2 DEF Refusal
  <2>3. room' = r /\ down' = Tell(d, {j}, <<f>>)
    BY <1>6, <1>10, <2>1 DEF Enter
  <2>4. Told(d, {j}, f, down')
    BY <1>8, <2>2, <2>3, TellsOne
  <2>5. Longer(d, down')
    BY <1>8, <2>2, <2>4, ToldLonger
  <2>6. ASSUME NEW k \in Socket PROVE Greeted(k)'
    <3>1. down[k] # <<>> => down'[k] # <<>> /\ Head(down'[k]) = Head(down[k])
      BY <1>9, <2>5 DEF Longer
    <3>2. PICK R : R = (k \notin room.members)
      OBVIOUS
    <3>3. R => k \notin room'.members /\ (down'[k] = down[k] \/ down'[k] = Append(down[k], f))
      BY <1>8, <2>3, <2>4, <3>2 DEF Told
    <3>. QED
      BY <1>6, <2>2, <3>1, <3>2, <3>3, StaysGreeted
  <2>. QED
    BY <2>6 DEF GreetFits
<1>11. CASE ~(Cardinality(r.members) >= MaxRoomSize)
  <2>1. r.members \in SUBSET Peer /\ j \in Peer
    BY <1>8 DEF IsRoom, Peer
  <2>2. PICK f \in DownFrame : f = [type |-> "joined", id |-> j, members |-> r.members]
    BY <2>1, FramesMade
  <2>3. PICK g \in DownFrame : g = [type |-> "peer.joined", id |-> j]
    BY <2>1, FramesMade
  <2>4. PICK c : c = Tell(d, {j}, <<f>>)
    OBVIOUS
  <2>5. room' = [r EXCEPT !.members = @ \cup {j}] /\ down' = Tell(c, r.members, <<g>>)
    BY <1>6, <1>11, <2>2, <2>3, <2>4 DEF Enter
  <2>6. Told(d, {j}, f, c)
    BY <1>8, <2>4, TellsOne
  <2>7. c \in [Socket -> Seq(DownFrame)]
    BY <2>6 DEF Told
  <2>8. Told(c, r.members, g, down')
    BY <2>5, <2>7, TellsOne
  <2>9. Longer(d, c) /\ Longer(c, down')
    BY <1>8, <2>6, <2>7, <2>8, ToldLonger
  <2>10. room'.members = r.members \cup {j}
    BY <1>8, <2>5 DEF IsRoom
  <2>11. ASSUME NEW k \in Socket PROVE Greeted(k)'
    <3>1. down[k] # <<>> => down'[k] # <<>> /\ Head(down'[k]) = Head(down[k])
      BY <1>9, <2>9 DEF Longer
    <3>2. PICK R : R = (k \notin room.members)
      OBVIOUS
    <3>3. CASE k # j
      <4>1. R => k \notin room'.members
        BY <1>8, <2>10, <3>2, <3>3
      <4>2. R => d[k] = down[k] /\ k \notin r.members
        BY <1>8, <3>2
      <4>3. c[k] = d[k]
        BY <2>6, <3>3 DEF Told
      <4>4. k \notin r.members => down'[k] = c[k]
        BY <2>8 DEF Told
      <4>. QED
        BY <1>6, <3>1, <3>2, <4>1, <4>2, <4>3, <4>4, StaysGreeted
    <3>4. CASE k = j
      <4>1. Reads(k)' => c[k] = Append(d[k], f) /\ d[k] \in Seq(DownFrame)
        BY <1>6, <1>8, <2>6, <3>4 DEF Told, Reads
      <4>2. Reads(k)' => c[k] # <<>> /\ Head(c[k]) = f
        BY <1>8, <3>4, <4>1, AppendKeepsHead
      <4>3. Reads(k)' => down'[k] # <<>> /\ Head(down'[k]) \in Entry
        BY <2>2, <2>9, <4>2 DEF Longer, Entry
      <4>. QED
        BY <1>6, <3>1, <3>2, <4>3, StaysGreeted
    <3>. QED
      BY <3>3, <3>4
  <2>. QED
    BY <2>11 DEF GreetFits
<1>. QED
  BY <1>10, <1>11

LEMMA CutGreets ==
  ASSUME ViewFits, GreetFits, NEW j \in Socket, Cut(j)
  PROVE  GreetFits'
<1>1. UNCHANGED <<me, ready, room>> /\ cut' = cut \cup {j} /\ down' = [down EXCEPT ![j] = <<>>]
  BY DEF Cut, roomVars
<1>2. down \in [Socket -> Seq(DownFrame)]
  BY DEF ViewFits, NetTyped
<1>3. ASSUME NEW k \in Socket PROVE Greeted(k)'
  <2>1. CASE k = j
    <3>1. ~Reads(k)'
      BY <1>1, <2>1 DEF Reads
    <3>. QED
      BY <3>1 DEF Greeted
  <2>2. CASE k # j
    <3>1. down'[k] = down[k]
      BY <1>1, <1>2, <2>2
    <3>2. Reads(k)' => Reads(k)
      BY <1>1 DEF Reads
    <3>. QED
      BY <1>1, <3>1, <3>2 DEF GreetFits, Greeted
  <2>. QED
    BY <2>1, <2>2
<1>. QED
  BY <1>3 DEF GreetFits

LEMMA RoomStepGreets ==
  ASSUME ViewFits, GreetFits, NoneAssumption, OtherAssumption,
         \/ \E k \in Socket : Server(k) \/ RefuseJoin(k) \/ Cut(k)
         \/ \E q \in Others : OtherJoins(q) \/ OtherLeaves(q) \/ OtherCommands(q)
         \/ OtherTabJoins \/ Restart
  PROVE  GreetFits'
<1>1. ASSUME NEW k \in Socket, Server(k) \/ RefuseJoin(k) \/ Cut(k) PROVE GreetFits'
  <2>1. CASE Server(k)
    BY <2>1, JoinGreets, RefusalGreets, RequestGreets DEF Server
  <2>2. CASE RefuseJoin(k)
    BY <2>2, RefusalGreets
  <2>3. CASE Cut(k)
    BY <2>3, CutGreets
  <2>. QED
    BY <1>1, <2>1, <2>2, <2>3
<1>2. ASSUME NEW q \in Others, OtherJoins(q) \/ OtherLeaves(q) \/ OtherCommands(q) PROVE GreetFits'
  BY <1>2, OtherGreets
<1>. QED
  BY <1>1, <1>2, TabGreets, RefusalGreets

\* A session that has an id, or no socket that is open, has been greeted.
LEMMA NotGreeted ==
  ASSUME SocketsFit', me'.self # None \/ me'.bound = None
  PROVE  GreetFits'
<1>1. None \notin Socket
  BY OtherAssumption
<1>2. \A k \in Socket : ready'[k] = "open" => k = me'.bound
  BY DEF SocketsFit
<1>. QED
  BY <1>1, <1>2 DEF GreetFits, Greeted, Reads

-----------------------------------------------------------------------------
(* The memory of earlier ids                                               *)

Distinct(s) == \A i, j \in 1..Len(s) : s[i] = s[j] => i = j

\* One element less.
LEMMA Removed ==
  ASSUME NEW S, NEW s \in Seq(S), NEW i \in 1..Len(s), NEW t, t = RemoveAt(s, i)
  PROVE  /\ t \in Seq(S) /\ Len(t) = Len(s) - 1
         /\ \A j \in 1..Len(t) : /\ j < i => t[j] = s[j] /\ j \in 1..Len(s)
                                 /\ ~(j < i) => t[j] = s[j + 1] /\ j + 1 \in 1..Len(s)
<1>1. PICK a : a = SubSeq(s, 1, i - 1)
  OBVIOUS
<1>2. PICK b : b = SubSeq(s, i + 1, Len(s))
  OBVIOUS
<1>3. a \in Seq(S) /\ Len(a) = i - 1 /\ \A j \in 1..(i - 1) : a[j] = s[j]
  BY <1>1
<1>4. b \in Seq(S) /\ Len(b) = Len(s) - i /\ \A j \in 1..(Len(s) - i) : b[j] = s[i + j]
  BY <1>2
<1>5. t = a \o b
  BY <1>1, <1>2 DEF RemoveAt
<1>6. t \in Seq(S) /\ Len(t) = Len(s) - 1
  BY <1>3, <1>4, <1>5
<1>7. ASSUME NEW j \in 1..Len(t)
      PROVE  /\ j < i => t[j] = s[j] /\ j \in 1..Len(s)
             /\ ~(j < i) => t[j] = s[j + 1] /\ j + 1 \in 1..Len(s)
  <2>1. CASE j < i
    BY <1>3, <1>4, <1>5, <1>6, <2>1
  <2>2. CASE ~(j < i)
    <3>1. t[j] = b[j - (i - 1)] /\ j - (i - 1) \in 1..(Len(s) - i)
      BY <1>3, <1>4, <1>5, <1>6, <2>2
    <3>2. b[j - (i - 1)] = s[i + (j - (i - 1))]
      BY <1>4, <3>1
    <3>3. i + (j - (i - 1)) = j + 1
      OBVIOUS
    <3>. QED
      BY <1>6, <2>2, <3>1, <3>2, <3>3
  <2>. QED
    BY <2>1, <2>2
<1>. QED
  BY <1>6, <1>7

\* An id that is forgotten is in the memory no more, and the others are.
LEMMA Forgets ==
  ASSUME NEW S, NEW s \in Seq(S), Distinct(s), NEW x, NEW t, t = Forget(s, x)
  PROVE  t \in Seq(S) /\ Distinct(t) /\ Range(t) = Range(s) \ {x}
<1>1. DOMAIN s = 1..Len(s) /\ Len(s) \in Nat
  OBVIOUS
<1>2. CASE x \notin Range(s)
  BY <1>2 DEF Forget
<1>3. CASE x \in Range(s)
  <2>. DEFINE n == CHOOSE i \in DOMAIN s : s[i] = x
  <2>1. \E i \in DOMAIN s : s[i] = x
    BY <1>3 DEF Range
  <2>2. PICK i \in 1..Len(s) : i = n /\ s[i] = x
    BY <1>1, <2>1
  <2>3. t = RemoveAt(s, i)
    BY <1>3, <2>2 DEF Forget
  <2>. HIDE DEF n
  <2>4. /\ t \in Seq(S) /\ Len(t) = Len(s) - 1
        /\ \A j \in 1..Len(t) : /\ j < i => t[j] = s[j] /\ j \in 1..Len(s)
                                /\ ~(j < i) => t[j] = s[j + 1] /\ j + 1 \in 1..Len(s)
    BY <2>3, Removed
  <2>5. Distinct(t)
    <3>1. SUFFICES ASSUME NEW j \in 1..Len(t), NEW k \in 1..Len(t), t[j] = t[k]
                   PROVE  j = k
      BY DEF Distinct
    <3>2. PICK a \in 1..Len(s) : t[j] = s[a] /\ a = IF j < i THEN j ELSE j + 1
      BY <2>4
    <3>3. PICK b \in 1..Len(s) : t[k] = s[b] /\ b = IF k < i THEN k ELSE k + 1
      BY <2>4
    <3>4. a = b
      BY <3>1, <3>2, <3>3 DEF Distinct
    <3>. QED
      BY <3>2, <3>3, <3>4
  <2>6. ASSUME NEW y \in Range(t) PROVE y \in Range(s) /\ y # x
    <3>1. PICK j \in 1..Len(t) : t[j] = y
      BY <2>4, <2>6 DEF Range
    <3>2. PICK a \in 1..Len(s) : t[j] = s[a] /\ a = IF j < i THEN j ELSE j + 1
      BY <2>4
    <3>3. a # i
      BY <3>2
    <3>. QED
      BY <1>1, <2>2, <3>1, <3>2, <3>3 DEF Distinct, Range
  <2>7. ASSUME NEW y \in Range(s), y # x PROVE y \in Range(t)
    <3>1. PICK a \in 1..Len(s) : s[a] = y /\ a # i
      BY <1>1, <2>2, <2>7 DEF Range
    <3>2. PICK j : j = IF a < i THEN a ELSE a - 1
      OBVIOUS
    <3>3. j \in 1..Len(t) /\ t[j] = y
      BY <1>1, <2>4, <3>1, <3>2
    <3>. QED
      BY <2>4, <3>3 DEF Range
  <2>. QED
    BY <2>4, <2>5, <2>6, <2>7
<1>. QED
  BY <1>2, <1>3

\* The id of a session is remembered, and no other id is lost for it as long as
\* there is room.
LEMMA Remembers ==
  ASSUME ViewFits, me.self # None, NEW s, s = Remember(me).stale
  PROVE  /\ s \in Seq(Socket) /\ Distinct(s) /\ Range(s) \subseteq Range(me.stale) \cup {me.self}
         /\ Cardinality(known) <= MaxStale => Range(s) = Range(me.stale) \cup {me.self}
<1>. DEFINE o == me.stale
<1>1. /\ o \in Seq(Socket) /\ Distinct(o) /\ Range(o) \subseteq known \ {me.self} /\ me.self \in known
      /\ me.self \in Socket /\ known \subseteq Socket
  BY DEF ViewFits, IsClient, Memory, Began, NetTyped, Distinct
<1>2. MaxStale \in Nat \ {0} /\ MaxSockets \in Nat
  BY LimitAssumption
<1>3. IsFiniteSet(known) /\ IsFiniteSet(known \ {me.self})
      /\ Cardinality(known \ {me.self}) = Cardinality(known) - 1 /\ Cardinality(known) \in Nat
  <2>1. IsFiniteSet(Socket)
    BY <1>2, FS_Interval DEF Socket
  <2>2. IsFiniteSet(known)
    BY <1>1, <2>1, FS_Subset
  <2>. QED
    BY <1>1, <2>2, FS_RemoveElement, FS_CardinalityType
<1>. HIDE DEF o
<1>4. Len(o) <= Cardinality(known) - 1 /\ Len(o) \in Nat
  <2>1. DOMAIN o = 1..Len(o) /\ Len(o) \in Nat
    BY <1>1
  <2>2. o \in [1..Len(o) -> known \ {me.self}]
    BY <1>1, <2>1 DEF Range
  <2>3. o \in Injection(1..Len(o), known \ {me.self})
    BY <1>1, <2>2 DEF Injection, Distinct, IsInjective
  <2>4. Cardinality(1..Len(o)) <= Cardinality(known \ {me.self})
    BY <1>3, <2>3, FS_Injection
  <2>5. Cardinality(1..Len(o)) = Len(o)
    <3>1. Len(o) \in Int /\ 1 \in Int
      BY <2>1
    <3>2. Cardinality(1..Len(o)) = IF 1 > Len(o) THEN 0 ELSE Len(o) - 1 + 1
      BY <3>1, FS_Interval
    <3>. QED
      BY <2>1, <3>2
  <2>. QED
    BY <1>3, <2>1, <2>4, <2>5
<1>5. PICK b : b = IF Len(o) >= MaxStale THEN Tail(o) ELSE o
  OBVIOUS
<1>6. s = Append(b, me.self)
  <2>1. me.self \notin Range(me.stale) /\ "stale" \in DOMAIN me
    BY <1>1 DEF o, ViewFits, SocketsFit, IsSession, Fields
  <2>. QED
    BY <1>5, <2>1 DEF Remember, o
<1>7. b \in Seq(Socket) /\ Distinct(b) /\ Range(b) \subseteq Range(o)
  <2>1. CASE Len(o) >= MaxStale
    <3>1. o # <<>> /\ b = Tail(o)
      BY <1>1, <1>2, <1>5, <2>1
    <3>2. /\ b \in Seq(Socket) /\ Len(b) = Len(o) - 1
          /\ \A i \in 1..Len(b) : b[i] = o[i + 1] /\ i + 1 \in 1..Len(o)
      BY <1>1, <3>1, TailsAt
    <3>3. Distinct(b)
      BY <1>1, <3>2 DEF Distinct
    <3>4. DOMAIN o = 1..Len(o) /\ DOMAIN b = 1..Len(b)
      BY <1>1, <3>2
    <3>. QED
      BY <3>2, <3>3, <3>4 DEF Range
  <2>2. CASE ~(Len(o) >= MaxStale)
    BY <1>1, <1>5, <2>2
  <2>. QED
    BY <2>1, <2>2
<1>8. /\ s \in Seq(Socket) /\ Len(s) = Len(b) + 1 /\ s[Len(b) + 1] = me.self
      /\ \A i \in 1..Len(b) : s[i] = b[i]
      /\ DOMAIN s = 1..Len(s) /\ DOMAIN b = 1..Len(b) /\ Len(b) \in Nat
  BY <1>1, <1>6, <1>7
<1>9. Range(s) = Range(b) \cup {me.self}
  BY <1>8 DEF Range
<1>10. Distinct(s)
  <2>1. \A i \in 1..Len(b) : b[i] # me.self
    BY <1>1, <1>7, <1>8 DEF Range
  <2>2. SUFFICES ASSUME NEW i \in 1..Len(s), NEW j \in 1..Len(s), s[i] = s[j]
                 PROVE  i = j
    BY DEF Distinct
  <2>. QED
    BY <1>7, <1>8, <2>1, <2>2 DEF Distinct
<1>11. Cardinality(known) <= MaxStale => b = o
  BY <1>2, <1>3, <1>4, <1>5
<1>. QED
  BY <1>7, <1>8, <1>9, <1>10, <1>11 DEF o

-----------------------------------------------------------------------------
(* A session without a socket                                              *)

\* The socket in use is closed, if there is one; the room may be told so.
Closes ==
  /\ UNCHANGED <<gens, cut, conn, room, known>>
  /\ up' \in [Socket -> Seq(UpFrame)] /\ down' \in [Socket -> Seq(DownFrame)]
  /\ \A k \in Socket :
       /\ k # me.bound => ready'[k] = ready[k] /\ up'[k] = up[k] /\ down'[k] = down[k]
       /\ k = me.bound => /\ ready'[k] = "closed" /\ down'[k] = <<>> /\ InOrder(up'[k])
                          /\ conn[k] # "open" \/ k \in cut => up'[k] = up[k]
                          /\ Has(up'[k], Joining) => Has(up[k], Joining)
                          /\ Has(up'[k], Work) => Has(up[k], Work)

LEMMA GivingUp ==
  ASSUME ViewFits, SocketsFit', GaveUp(me, me'), me'.bound = None, Closes
  PROVE  ViewFits' /\ GreetFits'
<1>1. /\ me.bound \in Socket \cup {None} /\ None \notin Socket /\ known \subseteq Socket
      /\ DOMAIN me = Fields
  BY OtherAssumption DEF ViewFits, SocketsFit, IsSession, NetTyped
<1>2. NetTyped' /\ IsRoom(room')
  <2>1. NetTyped /\ IsRoom(room)
    BY DEF ViewFits
  <2>. QED
    BY <2>1 DEF NetTyped, Closes
<1>3. /\ me'.self = None /\ me'.roster = {} /\ me'.queue = None /\ me'.study = None /\ me'.command = None
      /\ me'.hand = me.hand /\ me'.status # "active" /\ (me.disposed => me'.disposed)
      /\ me'.task.kind \in {"none", "join", "reconnect"} /\ me'.task.at \in {"none", "before", "delay"}
      /\ \/ me'.stale = me.stale /\ (me'.disposed \/ me.self = None)
         \/ me'.stale = Remember(me).stale
      /\ me'.task.at # "none" /\ ~me'.disposed =>
           me'.task.kind = "join" \/ (me'.task.kind = "reconnect" /\ me'.status = "reconnecting")
  BY DEF GaveUp
<1>4. me.self = None => Remember(me).stale = me.stale
  BY DEF Remember
<1>5. PICK s : s = me'.stale
  OBVIOUS
<1>6. /\ s \in Seq(Socket) /\ Distinct(s) /\ Range(s) \subseteq known
      /\ Cardinality(known) <= MaxStale /\ ~me'.disposed /\ me.self # None =>
           Range(s) = Range(me.stale) \cup {me.self}
      /\ me.self = None => s = me.stale
  <2>1. CASE s = me.stale /\ (me'.disposed \/ me.self = None)
    BY <2>1 DEF ViewFits, IsClient, Memory, Distinct
  <2>2. CASE s = Remember(me).stale /\ me.self # None
    <3>1. /\ s \in Seq(Socket) /\ Distinct(s) /\ Range(s) \subseteq Range(me.stale) \cup {me.self}
          /\ Cardinality(known) <= MaxStale => Range(s) = Range(me.stale) \cup {me.self}
      BY <2>2, Remembers
    <3>2. Range(me.stale) \cup {me.self} \subseteq known
      BY <2>2 DEF ViewFits, Memory, Began
    <3>. QED
      BY <2>2, <3>1, <3>2
  <2>3. CASE s = Remember(me).stale /\ me.self = None
    BY <1>4, <2>3 DEF ViewFits, IsClient, Memory, Distinct
  <2>. QED
    BY <1>3, <1>5, <2>1, <2>2, <2>3
<1>7. IsClient(me')
  <2>1. me.hand \in BOOLEAN
    BY DEF ViewFits, IsClient
  <2>. QED
    BY <1>3, <1>5, <1>6, <2>1 DEF IsClient
<1>8. Began'
  <2>1. \A k \in Socket : k > gens => ready'[k] = "none"
    <3>1. SUFFICES ASSUME NEW k \in Socket, k > gens PROVE ready'[k] = "none"
      OBVIOUS
    <3>2. ready[k] = "none" /\ k # me.bound
      BY <1>1, <3>1 DEF ViewFits, Began
    <3>. QED
      BY <3>2 DEF Closes
  <2>2. gens' = gens
    BY DEF Closes
  <2>. QED
    BY <1>1, <1>3, <2>1, <2>2 DEF Began
<1>9. UpFit'
  <2>1. SUFFICES ASSUME NEW k \in Socket PROVE Lines(k)'
    BY DEF UpFit
  <2>2. Lines(k) /\ UNCHANGED <<cut, conn, room, known>>
    BY DEF ViewFits, UpFit, Closes
  <2>3. CASE k = me.bound
    <3>1. ready[k] \in {"connecting", "open"}
      BY <1>1, <2>3 DEF ViewFits, Began
    <3>2. /\ ready'[k] = "closed" /\ down'[k] = <<>> /\ InOrder(up'[k])
          /\ conn[k] # "open" \/ k \in cut => up'[k] = up[k]
          /\ Has(up'[k], Joining) => Has(up[k], Joining)
          /\ Has(up'[k], Work) => Has(up[k], Work)
      BY <2>3 DEF Closes
    <3>. QED
      BY <2>2, <3>1, <3>2 DEF Lines
  <2>4. CASE k # me.bound
    <3>1. ready'[k] = ready[k] /\ up'[k] = up[k] /\ down'[k] = down[k]
      BY <2>4 DEF Closes
    <3>. QED
      BY <2>2, <3>1 DEF Lines, Reads
  <2>. QED
    BY <2>3, <2>4
<1>10. \A k \in Socket : down'[k] = <<>>
  <2>1. SUFFICES ASSUME NEW k \in Socket, k # me.bound PROVE down'[k] = <<>>
    BY DEF Closes
  <2>2. ready[k] # "open"
    BY <2>1, OpenIsBound
  <2>3. down[k] = <<>>
    BY <2>2 DEF ViewFits, UpFit, Lines, Reads
  <2>. QED
    BY <2>1, <2>3 DEF Closes
<1>11. DownFit'
  <2>1. \A i : i \notin 1..Len(<<>>)
    OBVIOUS
  <2>. QED
    BY <1>10, <2>1 DEF DownFit
<1>12. ASSUME NEW x \in Socket, Never(x) PROVE Never(x)'
  <2>1. Has(up'[x], Joining) => Has(up[x], Joining)
    BY DEF Closes
  <2>2. conn' = conn /\ room' = room
    BY DEF Closes
  <2>. QED
    BY <1>12, <2>1, <2>2 DEF Never
<1>13. Memory'
  <2>1. known' = known /\ conn' = conn
    BY DEF Closes
  <2>2. \A k \in known : conn[k] # "none"
    BY DEF ViewFits, Memory
  <2>3. ASSUME Cardinality(known) <= MaxStale, ~me'.disposed, NEW x \in known
        PROVE  x \in Range(s) \/ Never(x)'
    <3>1. Small
      <4>1. Cardinality(known) \in Nat
        <5>1. MaxSockets \in Nat
          BY LimitAssumption
        <5>2. IsFiniteSet(Socket)
          BY <5>1, FS_Interval DEF Socket
        <5>. QED
          BY <1>1, <5>2, FS_Subset, FS_CardinalityType
      <4>2. MaxStale \in Nat
        BY LimitAssumption
      <4>. QED
        BY <2>3, <4>1, <4>2 DEF Small
    <3>2. x = me.self \/ x \in Range(me.stale) \/ Never(x)
      BY <1>3, <2>3, <3>1 DEF ViewFits, Memory
    <3>3. x # None
      BY <1>1, <2>3
    <3>4. x = me.self \/ x \in Range(me.stale) => x \in Range(s)
      BY <1>6, <2>3, <3>3
    <3>. QED
      BY <1>1, <1>12, <2>3, <3>2, <3>4
  <2>4. Small' => Cardinality(known) <= MaxStale
    <3>1. MaxStale + 0 = MaxStale
      BY LimitAssumption
    <3>. QED
      BY <1>3, <2>1, <3>1 DEF Small
  <2>. QED
    BY <1>1, <1>3, <1>5, <1>6, <2>1, <2>2, <2>3, <2>4 DEF Memory, Distinct
<1>14. LiveFits'
  BY <1>1 DEF LiveFits, Live
<1>. QED
  BY <1>2, <1>7, <1>8, <1>9, <1>11, <1>13, <1>14, NotGreeted DEF ViewFits

\* What is left of the socket when the session gives it up itself.
LEMMA Closing ==
  ASSUME ViewFits, NEW u, CloseSocket(u), UNCHANGED <<gens, cut, conn, room, known>>,
         u = up \/ (IsBound /\ u = Sent(me.bound, up, [type |-> "leave"]))
  PROVE  Closes
<1>1. /\ me.bound \in Socket \cup {None} /\ up \in [Socket -> Seq(UpFrame)]
      /\ down \in [Socket -> Seq(DownFrame)] /\ None \notin Socket
      /\ ready \in [Socket -> {"none", "connecting", "open", "closed"}]
  BY OtherAssumption DEF ViewFits, SocketsFit, IsSession, NetTyped
<1>2. CASE ~IsBound
  BY <1>1, <1>2 DEF IsBound, CloseSocket, Closes
<1>3. CASE IsBound
  <2>1. PICK k \in Socket : k = me.bound
    BY <1>1, <1>3 DEF IsBound
  <2>2. /\ ready' = [ready EXCEPT ![k] = "closed"] /\ down' = [down EXCEPT ![k] = <<>>]
        /\ up' = Sent(k, u, [type |-> "close"])
    BY <1>3, <2>1 DEF CloseSocket
  <2>3. PICK c : c = [type |-> "close"]
    OBVIOUS
  <2>4. PICK l : l = [type |-> "leave"]
    OBVIOUS
  <2>5. /\ c \in UpFrame /\ l \in UpFrame /\ c \notin Joining /\ l \notin Joining
        /\ c \notin Work /\ l \notin Work
    BY <2>3, <2>4, FramesMade DEF Joining, Work
  <2>6. up[k] \in Seq(UpFrame) /\ InOrder(up[k])
    BY <1>1 DEF ViewFits, UpFit, Lines
  <2>7. ASSUME NEW v \in Seq(UpFrame), InOrder(v), NEW f \in {c, l}
        PROVE  /\ Append(v, f) \in Seq(UpFrame) /\ InOrder(Append(v, f))
               /\ Has(Append(v, f), Joining) => Has(v, Joining)
               /\ Has(Append(v, f), Work) => Has(v, Work)
    BY <2>5, <2>7, OrderKept, HasAfter, AppendsAt
  <2>8. CASE k \in cut \/ conn[k] # "open"
    <3>1. up' = up
      BY <2>1, <2>2, <2>8 DEF Sent
    <3>. QED
      BY <1>1, <2>1, <2>2, <2>6, <3>1 DEF Closes
  <2>9. CASE ~(k \in cut \/ conn[k] # "open")
    <3>1. up' = [u EXCEPT ![k] = Append(@, c)]
      BY <2>2, <2>3, <2>9 DEF Sent
    <3>2. PICK v : v = u[k]
      OBVIOUS
    <3>3. /\ v \in Seq(UpFrame) /\ InOrder(v)
          /\ Has(v, Joining) => Has(up[k], Joining)
          /\ Has(v, Work) => Has(up[k], Work)
          /\ u \in [Socket -> Seq(UpFrame)] /\ \A j \in Socket : j # k => u[j] = up[j]
      <4>1. CASE u = up
        BY <1>1, <2>6, <3>2, <4>1
      <4>2. CASE u = Sent(me.bound, up, [type |-> "leave"])
        <5>1. u = [up EXCEPT ![k] = Append(@, l)]
          BY <2>1, <2>4, <2>9, <4>2 DEF Sent
        <5>2. v = Append(up[k], l)
          BY <1>1, <3>2, <5>1
        <5>3. /\ v \in Seq(UpFrame) /\ InOrder(v)
              /\ Has(v, Joining) => Has(up[k], Joining)
              /\ Has(v, Work) => Has(up[k], Work)
          BY <2>6, <2>7, <5>2
        <5>. QED
          BY <1>1, <3>2, <5>1, <5>3
      <4>. QED
        BY <4>1, <4>2
    <3>4. up'[k] = Append(v, c) /\ \A j \in Socket : j # k => up'[j] = up[j]
      BY <3>1, <3>2, <3>3
    <3>5. /\ Append(v, c) \in Seq(UpFrame) /\ InOrder(Append(v, c))
          /\ Has(Append(v, c), Joining) => Has(v, Joining)
          /\ Has(Append(v, c), Work) => Has(v, Work)
      BY <2>7, <3>3
    <3>6. up' \in [Socket -> Seq(UpFrame)] /\ down' \in [Socket -> Seq(DownFrame)]
      <4>1. PICK n \in Seq(UpFrame) : n = Append(v, c)
        BY <3>5
      <4>2. up' = [u EXCEPT ![k] = n]
        BY <3>1, <3>2, <4>1
      <4>3. up' \in [Socket -> Seq(UpFrame)]
        BY <3>3, <4>2
      <4>4. down' \in [Socket -> Seq(DownFrame)]
        BY <1>1, <2>2
      <4>. QED
        BY <4>3, <4>4
    <3>. QED
      BY <1>1, <2>1, <2>2, <2>9, <3>3, <3>4, <3>5, <3>6 DEF Closes
  <2>. QED
    BY <2>8, <2>9
<1>. QED
  BY <1>2, <1>3

LEMMA Unmoved ==
  ASSUME ViewFits, UNCHANGED <<netVars, room, known>>, me.bound = None
  PROVE  Closes
<1>1. /\ up \in [Socket -> Seq(UpFrame)] /\ down \in [Socket -> Seq(DownFrame)] /\ None \notin Socket
  BY OtherAssumption DEF ViewFits, NetTyped
<1>. QED
  BY <1>1 DEF Closes, netVars

\* What the fields of a session tell while it has no id.
LEMMA WithoutId ==
  ASSUME ViewFits
  PROVE  /\ DOMAIN me = Fields /\ IsTask(me.task) /\ me.task.kind \in {"none", "join", "reconnect"}
         /\ me.status # "active" \/ me.task.at # "none" => me.self = None
         /\ me.self = None =>
              me.status # "active" /\ me.roster = {} /\ me.queue = None /\ me.study = None /\ me.command = None
         /\ me.task.at \in {"before", "delay"} \/ me.status = "idle" => me.bound = None
         /\ me.bound # None => ~me.disposed
BY DEF ViewFits, IsClient, Began, SocketsFit, IsSession

LEMMA JoinFits ==
  ASSUME ViewFits, SocketsFit', Join
  PROVE  ViewFits' /\ GreetFits'
<1>1. /\ me.status = "idle" /\ ~me.disposed /\ UNCHANGED <<netVars, room, known>>
      /\ me' = [me EXCEPT !.status = "connecting-signal",
                          !.task = [kind |-> "join", at |-> "before", attempt |-> 0]]
  BY DEF Join, roomVars
<1>2. me.bound = None /\ me.self = None /\ DOMAIN me = Fields
  BY <1>1, WithoutId
<1>3. me.roster = {} /\ me.queue = None /\ me.study = None /\ me.command = None
  BY <1>2, WithoutId
<1>4. GaveUp(me, me') /\ me'.bound = None
  BY <1>1, <1>2, <1>3 DEF GaveUp, Fields
<1>. QED
  BY <1>1, <1>2, <1>4, Unmoved, GivingUp

LEMMA DelayTimerFits ==
  ASSUME ViewFits, SocketsFit', DelayTimer
  PROVE  ViewFits' /\ GreetFits'
<1>1. /\ me.task.at = "delay" /\ UNCHANGED <<netVars, room, known>>
      /\ me' = [me EXCEPT !.task.at = "before"]
  BY DEF DelayTimer, Waits, roomVars
<1>2. /\ me.bound = None /\ me.self = None /\ DOMAIN me = Fields /\ IsTask(me.task)
      /\ me.task.kind \in {"none", "join", "reconnect"}
  BY <1>1, WithoutId
<1>3. me.roster = {} /\ me.queue = None /\ me.study = None /\ me.command = None /\ me.status # "active"
  BY <1>2, WithoutId
<1>5. ~me.disposed => me.task.kind = "join" \/ (me.task.kind = "reconnect" /\ me.status = "reconnecting")
  BY <1>1 DEF ViewFits, Began
<1>6. me'.task.kind = me.task.kind /\ me'.task.at = "before"
  BY <1>1, <1>2 DEF Fields, IsTask
<1>4. GaveUp(me, me') /\ me'.bound = None
  BY <1>1, <1>2, <1>3, <1>5, <1>6 DEF GaveUp, Fields
<1>. QED
  BY <1>1, <1>2, <1>4, Unmoved, GivingUp

\* A session that is over stops waiting.
LEMMA OverFits ==
  ASSUME ViewFits, SocketsFit', me.task.at = "before", me.disposed, me' = [me EXCEPT !.task = NoTask],
         UNCHANGED <<netVars, room, known>>
  PROVE  ViewFits' /\ GreetFits'
<1>2. me.bound = None /\ me.self = None /\ DOMAIN me = Fields
  BY WithoutId
<1>3. me.roster = {} /\ me.queue = None /\ me.study = None /\ me.command = None /\ me.status # "active"
  BY <1>2, WithoutId
<1>4. GaveUp(me, me') /\ me'.bound = None
  BY <1>2, <1>3, Tasks DEF GaveUp, Fields
<1>. QED
  BY <1>2, <1>4, Unmoved, GivingUp

LEMMA RejectBeforeFits ==
  ASSUME ViewFits, SocketsFit', RejectBefore
  PROVE  ViewFits' /\ GreetFits'
<1>1. me.task.at = "before" /\ UNCHANGED <<netVars, room, known>>
  BY DEF RejectBefore, Waits, roomVars
<1>2. CASE me.disposed
  <2>1. me' = [me EXCEPT !.task = NoTask]
    BY <1>2 DEF RejectBefore
  <2>. QED
    BY <1>1, <1>2, <2>1, OverFits
<1>3. CASE ~me.disposed
  <2>1. me' \in AfterFailure(me, FALSE)
    BY <1>3 DEF RejectBefore
  <2>2. /\ me.self = None /\ me.bound = None /\ DOMAIN me = Fields /\ IsTask(me.task)
        /\ me.task.kind \in {"none", "join", "reconnect"}
    BY <1>1, WithoutId
  <2>3. GaveUp(me, me')
    BY <2>1, <2>2, EndingsGiveUp
  <2>4. me'.bound = None
    BY <1>3, <2>1, <2>2, EndingsAreSessions
  <2>. QED
    BY <1>1, <2>2, <2>3, <2>4, Unmoved, GivingUp
<1>. QED
  BY <1>2, <1>3

\* The rest of a task that fails.
LEMMA FailFits ==
  ASSUME ViewFits, SocketsFit', NEW m, DOMAIN m = Fields, m.task = me.task, m.self = me.self,
         m.stale = me.stale, m.hand = me.hand, m.disposed = me.disposed,
         me.task.at \in {"opening", "joining"}, NEW final, me' \in AfterFailure(m, final),
         CloseSocket(up), UNCHANGED <<gens, cut, conn, room, known>>
  PROVE  ViewFits' /\ GreetFits'
<1>1. me.self = None /\ IsTask(me.task) /\ me.task.kind \in {"none", "join", "reconnect"}
  BY WithoutId
<1>2. ~me.disposed
  BY DEF ViewFits, SocketsFit, IsSession
<1>3. GaveUp(m, me')
  BY <1>1, EndingsGiveUp
<1>4. Remember(m).stale = Remember(me).stale
  BY <1>1 DEF Remember
<1>5. GaveUp(me, me')
  BY <1>3, <1>4 DEF GaveUp
<1>6. me'.bound = None
  BY <1>1, <1>2, EndingsAreSessions
<1>7. Closes
  BY Closing
<1>. QED
  BY <1>5, <1>6, <1>7, GivingUp

LEMMA RejectOpeningFits ==
  ASSUME ViewFits, SocketsFit', RejectOpening \/ JoinTimer
  PROVE  ViewFits' /\ GreetFits'
<1>1. /\ me.task.at \in {"opening", "joining"} /\ me' \in AfterFailure(me, FALSE) /\ CloseSocket(up)
      /\ UNCHANGED <<gens, cut, conn, room, known>>
  BY DEF RejectOpening, JoinTimer, Fail, Waits, roomVars
<1>2. DOMAIN me = Fields
  BY WithoutId
<1>. QED
  BY <1>1, <1>2, FailFits

LEMMA LeaveFits ==
  ASSUME ViewFits, SocketsFit', Leave
  PROVE  ViewFits' /\ GreetFits'
<1>1. PICK u : u = IF IsOpen THEN Sent(me.bound, up, [type |-> "leave"]) ELSE up
  OBVIOUS
<1>2. /\ me' = Terminate(me, "ended") /\ CloseSocket(u) /\ UNCHANGED <<gens, cut, conn, room, known>>
  BY <1>1 DEF Leave, roomVars
<1>3. DOMAIN me = Fields /\ IsTask(me.task) /\ me.task.kind \in {"none", "join", "reconnect"}
  BY WithoutId
<1>4. GaveUp(me, me')
  BY <1>2, <1>3, EndingsGiveUp
<1>5. me'.bound = None
  BY <1>2, <1>3, EndingsAreSessions
<1>6. u = up \/ (IsBound /\ u = Sent(me.bound, up, [type |-> "leave"]))
  BY <1>1 DEF IsOpen
<1>7. Closes
  BY <1>2, <1>6, Closing
<1>. QED
  BY <1>4, <1>5, <1>7, GivingUp

\* The session asks no more and begins again.
LEMMA TimedOutFits ==
  ASSUME ViewFits, SocketsFit', ~me.disposed, me' = BeginReconnect(me), CloseSocket(up),
         UNCHANGED <<gens, cut, conn, room, known>>
  PROVE  ViewFits' /\ GreetFits'
<1>1. DOMAIN me = Fields /\ IsTask(me.task) /\ me.task.kind \in {"none", "join", "reconnect"}
  BY WithoutId
<1>2. GaveUp(me, me')
  BY <1>1, EndingsGiveUp
<1>3. me'.bound = None
  BY <1>1, EndingsAreSessions
<1>4. Closes
  BY Closing
<1>. QED
  BY <1>2, <1>3, <1>4, GivingUp

\* The socket has closed.
LEMMA ClosedFits ==
  ASSUME ViewFits, SocketsFit', NEW code, Closed(code), IsOpen, Closes
  PROVE  ViewFits' /\ GreetFits'
<1>1. PICK m : m = [me EXCEPT !.bound = None]
  OBVIOUS
<1>2. DOMAIN me = Fields /\ IsTask(me.task) /\ me.task.kind \in {"none", "join", "reconnect"} /\ ~me.disposed
  BY WithoutId DEF IsOpen, IsBound
<1>3. /\ DOMAIN m = Fields /\ m.task = me.task /\ m.disposed = me.disposed /\ m.self = me.self
      /\ m.stale = me.stale /\ m.hand = me.hand /\ m.status = me.status
  BY <1>1, <1>2 DEF Fields
<1>4. \/ me' = Terminate(m, "error") \/ me' = BeginReconnect(m)
      \/ m.status # "active" /\ me' \in AfterFailure(m, FALSE)
  BY <1>1 DEF Closed
<1>5. me.status # "active" => me.self = None
  BY WithoutId
<1>6. /\ GaveUp(m, Terminate(m, "error")) /\ GaveUp(m, BeginReconnect(m))
      /\ m.self = None => \A w \in AfterFailure(m, FALSE) : GaveUp(m, w)
  BY <1>2, <1>3, EndingsGiveUp
<1>7. GaveUp(m, me')
  BY <1>3, <1>4, <1>5, <1>6
<1>8. /\ Terminate(m, "error").bound = None /\ BeginReconnect(m).bound = None
      /\ \A w \in AfterFailure(m, FALSE) : w.bound = None
  BY <1>2, <1>3, EndingsAreSessions
<1>9. me'.bound = None
  BY <1>4, <1>8
<1>10. Remember(m).stale = Remember(me).stale
  BY <1>2, <1>3 DEF Remember, Fields
<1>11. GaveUp(me, me')
  BY <1>3, <1>7, <1>10 DEF GaveUp
<1>. QED
  BY <1>9, <1>11, GivingUp

LEMMA HandleCloseFits ==
  ASSUME ViewFits, SocketsFit', HandleClose \/ NoticeCut
  PROVE  ViewFits' /\ GreetFits'
<1>1. /\ IsOpen /\ UNCHANGED <<gens, cut, conn, room, known, up>>
      /\ ready' = [ready EXCEPT ![me.bound] = "closed"]
      /\ \E code : Closed(code)
  BY DEF HandleClose, NoticeCut, Take, roomVars
<1>2. /\ me.bound \in Socket \cup {None} /\ up \in [Socket -> Seq(UpFrame)]
      /\ down \in [Socket -> Seq(DownFrame)]
      /\ ready \in [Socket -> {"none", "connecting", "open", "closed"}]
  BY DEF ViewFits, SocketsFit, IsSession, NetTyped
<1>3. PICK k \in Socket : k = me.bound
  BY <1>1, <1>2 DEF IsOpen, IsBound
<1>4. down' = [down EXCEPT ![k] = <<>>] \/ (down' = down /\ k \in cut)
  BY <1>3 DEF HandleClose, NoticeCut
<1>5. k \in cut => down[k] = <<>>
  BY DEF ViewFits, UpFit, Lines, Reads
<1>6. down' \in [Socket -> Seq(DownFrame)] /\ down'[k] = <<>> /\ \A j \in Socket : j # k => down'[j] = down[j]
  <2>1. PICK n \in Seq(DownFrame) : n = <<>>
    BY EmptySeq
  <2>2. CASE down' = [down EXCEPT ![k] = <<>>]
    <3>1. down' = [down EXCEPT ![k] = n]
      BY <2>1, <2>2
    <3>2. down' \in [Socket -> Seq(DownFrame)] /\ down'[k] = n
      BY <1>2, <3>1
    <3>. QED
      BY <1>2, <2>1, <3>1, <3>2
  <2>3. CASE down' = down /\ k \in cut
    BY <1>2, <1>5, <2>3
  <2>. QED
    BY <1>4, <2>2, <2>3
<1>7. InOrder(up[k])
  BY DEF ViewFits, UpFit, Lines
<1>8. Closes
  BY <1>1, <1>2, <1>3, <1>6, <1>7 DEF Closes
<1>. QED
  BY <1>1, <1>8, ClosedFits

-----------------------------------------------------------------------------
(* A new socket                                                            *)

\* A session that waits for its socket.
LEMMA EndBeforeFits ==
  ASSUME ViewFits, SocketsFit', EndBefore
  PROVE  ViewFits' /\ GreetFits'
<1>1. me.task.at = "before" /\ UNCHANGED <<cut, conn, up, down, room, known>>
  BY DEF EndBefore, Waits, roomVars
<1>2. /\ me.bound = None /\ me.self = None /\ DOMAIN me = Fields /\ IsTask(me.task)
      /\ me.task.kind \in {"none", "join", "reconnect"} /\ me.status # "active"
      /\ me.roster = {} /\ me.queue = None /\ me.study = None /\ me.command = None
  BY <1>1, WithoutId
<1>3. CASE me.disposed
  <2>1. me' = [me EXCEPT !.task = NoTask] /\ UNCHANGED <<netVars, room, known>>
    BY <1>1, <1>3 DEF EndBefore, netVars
  <2>. QED
    BY <1>1, <1>3, <2>1, OverFits
<1>4. CASE ~me.disposed
  <2>1. PICK k : k = gens + 1
    OBVIOUS
  <2>2. /\ gens < MaxSockets /\ gens' = k /\ ready' = [ready EXCEPT ![k] = "connecting"]
        /\ me' = [me EXCEPT !.bound = k, !.task.at = "opening"]
    BY <1>4, <2>1 DEF EndBefore
  <2>3. /\ gens \in 0..MaxSockets /\ ready \in [Socket -> {"none", "connecting", "open", "closed"}]
        /\ MaxSockets \in Nat /\ None \notin Socket
    BY LimitAssumption, OtherAssumption DEF ViewFits, SocketsFit
  <2>4. k \in Socket /\ k > gens
    BY <2>1, <2>2, <2>3 DEF Socket
  <2>5. ready[k] = "none"
    BY <2>4 DEF ViewFits, Began
  <2>6. conn[k] = "none" /\ up[k] = <<>> /\ k \notin known
    BY <2>4, <2>5 DEF ViewFits, UpFit, Lines, Memory
  <2>7. /\ me'.self = None /\ me'.roster = {} /\ me'.queue = None /\ me'.study = None /\ me'.command = None
        /\ me'.stale = me.stale /\ me'.hand = me.hand /\ me'.status = me.status
        /\ me'.disposed = me.disposed /\ me'.bound = k
    BY <1>2, <2>2 DEF Fields
  <2>8. me'.task.kind = me.task.kind /\ me'.task.at = "opening"
    BY <1>2, <2>2 DEF Fields, IsTask
  <2>9. /\ ready'[k] = "connecting" /\ \A j \in Socket : j # k => ready'[j] = ready[j]
        /\ \A j \in Socket : ready[j] # "open" /\ ready'[j] # "open"
    <3>1. \A j \in Socket : ready[j] # "open"
      BY <1>2, <2>3, OpenIsBound
    <3>. QED
      BY <2>2, <2>3, <2>4, <3>1
  <2>10. \A j \in Socket : down'[j] = <<>>
    BY <1>1, <2>9 DEF ViewFits, UpFit, Lines, Reads
  <2>11. NetTyped' /\ IsRoom(room')
    <3>1. NetTyped /\ IsRoom(room)
      BY DEF ViewFits
    <3>. QED
      BY <1>1, <3>1 DEF NetTyped
  <2>12. IsClient(me')
    <3>1. IsClient(me)
      BY DEF ViewFits
    <3>. QED
      BY <1>2, <2>7, <2>8, <3>1 DEF IsClient
  <2>13. Began'
    <3>1. \A j \in Socket : j > gens' => ready'[j] = "none"
      <4>1. SUFFICES ASSUME NEW j \in Socket, j > k PROVE ready'[j] = "none"
        BY <2>2
      <4>2. j > gens /\ j # k
        BY <2>1, <2>3, <4>1 DEF Socket
      <4>. QED
        BY <2>9, <4>1, <4>2 DEF ViewFits, Began
    <3>2. me.task.kind = "join" \/ (me.task.kind = "reconnect" /\ me.status = "reconnecting")
      BY <1>1, <1>4 DEF ViewFits, Began
    <3>. QED
      BY <1>2, <1>4, <2>7, <2>8, <2>9, <3>1, <3>2 DEF Began
  <2>14. UpFit'
    <3>1. SUFFICES ASSUME NEW j \in Socket PROVE Lines(j)'
      BY DEF UpFit
    <3>2. Lines(j)
      BY DEF ViewFits, UpFit
    <3>3. CASE j = k
      <4>1. ready'[j] = "connecting" /\ up'[j] = <<>> /\ conn'[j] = "none" /\ down'[j] = <<>>
        BY <1>1, <2>6, <2>9, <2>10, <3>3
      <4>2. \A T : ~Has(<<>>, T)
        BY DEF Has
      <4>3. InOrder(<<>>)
        BY DEF InOrder
      <4>4. j \notin room'.members
        BY <1>1, <2>6, <3>2, <3>3 DEF Lines
      <4>. QED
        BY <4>1, <4>2, <4>3, <4>4 DEF Lines
    <3>4. CASE j # k
      BY <1>1, <2>9, <3>2, <3>4 DEF Lines, Reads
    <3>. QED
      BY <3>3, <3>4
  <2>15. DownFit'
    <3>1. \A i : i \notin 1..Len(<<>>)
      OBVIOUS
    <3>. QED
      BY <2>10, <3>1 DEF DownFit
  <2>16. Memory'
    <3>1. Memory /\ (Small' <=> Small) /\ \A x : Never(x)' <=> Never(x)
      BY <1>1, <1>2, <2>7 DEF ViewFits, Small, Never
    <3>. QED
      BY <1>1, <1>2, <2>6, <2>7, <3>1 DEF Memory
  <2>17. LiveFits'
    BY <2>9 DEF LiveFits, Live, Reads
  <2>18. GreetFits'
    BY <2>9 DEF GreetFits, Greeted, Reads
  <2>. QED
    BY <2>11, <2>12, <2>13, <2>14, <2>15, <2>16, <2>17, <2>18 DEF ViewFits
<1>. QED
  BY <1>3, <1>4

\* The socket opens, and the first thing it carries is the join.
LEMMA OpenFits ==
  ASSUME ViewFits, SocketsFit', Open
  PROVE  ViewFits' /\ GreetFits'
<1>1. /\ me.task.at = "opening" /\ me.bound \notin cut
      /\ UNCHANGED <<gens, cut, down, room, known>>
      /\ ready' = [ready EXCEPT ![me.bound] = "open"]
      /\ conn' = [conn EXCEPT ![me.bound] = "open"]
      /\ up' = [up EXCEPT ![me.bound] = <<[type |-> "join"]>>]
  BY DEF Open, Waits, roomVars
<1>2. /\ me.self = None /\ DOMAIN me = Fields /\ IsTask(me.task)
      /\ me.task.kind \in {"none", "join", "reconnect"} /\ me.status # "active"
      /\ me.roster = {} /\ me.queue = None /\ me.study = None /\ me.command = None
  BY <1>1, WithoutId
<1>3. /\ me.bound \in Socket \cup {None} /\ me.bound # None
      /\ ready \in [Socket -> {"none", "connecting", "open", "closed"}]
      /\ ~me.disposed /\ None \notin Socket
  BY <1>1, OtherAssumption DEF ViewFits, SocketsFit, IsSession
<1>4. /\ conn \in [Socket -> {"none", "open", "gone"}] /\ up \in [Socket -> Seq(UpFrame)]
      /\ down \in [Socket -> Seq(DownFrame)]
  BY DEF ViewFits, NetTyped
<1>5. PICK k \in Socket : k = me.bound
  BY <1>3
<1>6. ready[k] = "connecting"
  BY <1>1, <1>3, <1>5 DEF ViewFits, Began
<1>7. /\ conn[k] = "none" /\ k \notin known /\ k \notin room.members /\ down[k] = <<>>
  BY <1>6 DEF ViewFits, UpFit, Lines, Memory, Reads
<1>8. PICK f \in UpFrame : f = [type |-> "join"]
  BY FramesMade
<1>9. PICK u \in Seq(UpFrame) : u = <<f>>
  <2>1. ASSUME NEW S, NEW g \in S PROVE <<g>> \in Seq(S)
    OBVIOUS
  <2>. QED
    BY <2>1
<1>10. /\ InOrder(u) /\ ~Has(u, Work) /\ ~Has(u, Ending)
  <2>1. InOrder(u)
    BY <1>9, OrderKept
  <2>2. \A i \in 1..Len(u) : u[i].type = "join"
    BY <1>8, <1>9
  <2>. QED
    BY <2>1, <2>2 DEF Has, Work, Ending
<1>11. /\ ready'[k] = "open" /\ conn'[k] = "open" /\ up'[k] = u
       /\ \A j \in Socket : j # k => ready'[j] = ready[j] /\ conn'[j] = conn[j] /\ up'[j] = up[j]
       /\ conn' \in [Socket -> {"none", "open", "gone"}] /\ up' \in [Socket -> Seq(UpFrame)]
  <2>1. ready'[k] = "open" /\ \A j \in Socket : j # k => ready'[j] = ready[j]
    BY <1>1, <1>3, <1>5
  <2>2. /\ conn'[k] = "open" /\ \A j \in Socket : j # k => conn'[j] = conn[j]
        /\ conn' \in [Socket -> {"none", "open", "gone"}]
    BY <1>1, <1>4, <1>5
  <2>3. up' = [up EXCEPT ![k] = u]
    BY <1>1, <1>5, <1>8, <1>9
  <2>. QED
    BY <1>4, <2>1, <2>2, <2>3
<1>12. /\ me'.self = None /\ me'.roster = {} /\ me'.queue = None /\ me'.study = None /\ me'.command = None
       /\ me'.stale = me.stale /\ me'.hand = me.hand /\ me'.disposed = me.disposed /\ me'.bound = k
       /\ me'.task.kind = me.task.kind /\ me'.task.at = "joining"
       /\ me.task.kind = "join" => me'.status = "joining"
       /\ me.task.kind # "join" => me'.status = me.status
  <2>1. PICK s : s = IF me.task.kind = "join" THEN "joining" ELSE me.status
    OBVIOUS
  <2>2. me' = [me EXCEPT !.task.at = "joining", !.status = s]
    BY <2>1 DEF Open
  <2>. QED
    BY <1>2, <1>5, <2>1, <2>2 DEF Fields, IsTask
<1>13. me'.status # "active"
  BY <1>2, <1>12
<1>14. \A j \in Socket : down'[j] = <<>> /\ (j # k => ready[j] # "open")
  <2>1. \A j \in Socket : ready[j] # "open"
    BY <1>5, <1>6, OpenIsBound
  <2>. QED
    BY <1>1, <2>1 DEF ViewFits, UpFit, Lines, Reads
<1>15. NetTyped' /\ IsRoom(room')
  <2>1. NetTyped /\ IsRoom(room)
    BY DEF ViewFits
  <2>. QED
    BY <1>1, <1>11, <2>1 DEF NetTyped
<1>16. IsClient(me')
  <2>1. IsClient(me)
    BY DEF ViewFits
  <2>. QED
    BY <1>2, <1>12, <2>1 DEF IsClient
<1>17. Began'
  <2>1. \A j \in Socket : j > gens' => ready'[j] = "none"
    <3>1. SUFFICES ASSUME NEW j \in Socket, j > gens PROVE ready'[j] = "none"
      BY <1>1
    <3>2. ready[j] = "none" /\ j # k
      BY <1>6, <3>1 DEF ViewFits, Began
    <3>. QED
      BY <1>11, <3>2
  <2>2. me.task.kind = "join" \/ (me.task.kind = "reconnect" /\ me.status = "reconnecting")
    BY <1>1, <1>3 DEF ViewFits, Began
  <2>. QED
    BY <1>2, <1>3, <1>11, <1>12, <1>13, <2>1, <2>2 DEF Began
<1>18. UpFit'
  <2>1. SUFFICES ASSUME NEW j \in Socket PROVE Lines(j)'
    BY DEF UpFit
  <2>2. CASE j = k
    BY <1>1, <1>5, <1>7, <1>10, <1>11, <1>14, <2>2 DEF Lines
  <2>3. CASE j # k
    <3>1. Lines(j)
      BY DEF ViewFits, UpFit
    <3>2. down'[j] = <<>>
      BY <1>14
    <3>. QED
      BY <1>1, <1>11, <2>3, <3>1, <3>2 DEF Lines
  <2>. QED
    BY <2>2, <2>3
<1>19. DownFit'
  <2>1. \A i : i \notin 1..Len(<<>>)
    OBVIOUS
  <2>. QED
    BY <1>14, <2>1 DEF DownFit
<1>20. Memory'
  <2>1. Memory /\ (Small' <=> Small) /\ known \subseteq Socket
    BY <1>1, <1>2, <1>12 DEF ViewFits, Small, NetTyped
  <2>2. ASSUME NEW x \in known PROVE conn'[x] = conn[x] /\ (Never(x) => Never(x)')
    BY <1>1, <1>7, <1>11, <2>1, <2>2 DEF Never
  <2>. QED
    BY <1>1, <1>2, <1>7, <1>12, <2>1, <2>2 DEF Memory
<1>21. ~Has(<<>>, Entry)
  BY DEF Has
<1>22. LiveFits'
  BY <1>1, <1>7, <1>12, <1>14, <1>21 DEF LiveFits, Live
<1>23. GreetFits'
  <2>1. \A i : i \notin 1..Len(<<>>)
    OBVIOUS
  <2>2. ASSUME NEW j \in Socket, j # k PROVE ~Reads(j)'
    BY <1>11, <1>14, <2>2 DEF Reads
  <2>3. k \notin room'.members
    BY <1>1, <1>7
  <2>. QED
    BY <1>14, <2>1, <2>2, <2>3 DEF GreetFits, Greeted
<1>. QED
  BY <1>15, <1>16, <1>17, <1>18, <1>19, <1>20, <1>22, <1>23 DEF ViewFits

-----------------------------------------------------------------------------
(* What the session reads                                                  *)

\* The frame that the session takes, and what is left of the others.
Taken(k, f, c) ==
  /\ k = me.bound /\ ready[k] = "open" /\ down[k] # <<>> /\ f = Head(down[k]) /\ c = Tail(down[k])
  /\ UNCHANGED <<gens, cut, conn, room>>

LEMMA Takes ==
  ASSUME ViewFits, NEW type, Take(type)
  PROVE  \E k \in Socket, f \in DownFrame, c \in Seq(DownFrame) :
           /\ Taken(k, f, c) /\ f.type = type /\ f = News
           /\ Rest => down' = [down EXCEPT ![k] = c]
<1>1. /\ me.bound \in Socket \cup {None} /\ down \in [Socket -> Seq(DownFrame)]
      /\ me.bound # None /\ ready[me.bound] = "open" /\ down[me.bound] # <<>>
      /\ Head(down[me.bound]).type = type /\ UNCHANGED <<gens, cut, conn, room>>
  BY DEF ViewFits, SocketsFit, IsSession, NetTyped, Take, IsOpen, IsBound, roomVars
<1>2. PICK k \in Socket : k = me.bound
  BY <1>1
<1>3. down[k] \in Seq(DownFrame) /\ down[k] # <<>>
  BY <1>1, <1>2
<1>4. Head(down[k]) \in DownFrame /\ Tail(down[k]) \in Seq(DownFrame)
  BY <1>3, TailsAt
<1>. QED
  BY <1>1, <1>2, <1>4 DEF Taken, News, Rest

LEMMA HandleErrorJoining ==
  ASSUME ViewFits, SocketsFit', HandleError, Waits("joining")
  PROVE  ViewFits' /\ GreetFits'
<1>1. PICK final : /\ me' \in AfterFailure(Heard, final) /\ CloseSocket(up)
                   /\ UNCHANGED <<gens, cut, conn, room, known>>
  BY DEF HandleError, Take, roomVars
<1>2. DOMAIN me = Fields
  BY WithoutId
<1>3. PICK m : m = Heard
  OBVIOUS
<1>4. /\ DOMAIN m = Fields /\ m.task = me.task /\ m.self = me.self
      /\ m.stale = me.stale /\ m.hand = me.hand /\ m.disposed = me.disposed
  BY <1>2, <1>3 DEF Heard, Fields
<1>5. me.task.at \in {"opening", "joining"}
  BY DEF Waits
<1>. QED
  BY <1>1, <1>3, <1>4, <1>5, FailFits

\* Session w is in the same place as m.
SamePlace(m, w) ==
  /\ w.bound = m.bound /\ w.self = m.self /\ w.status = m.status /\ w.task = m.task
  /\ w.disposed = m.disposed
  /\ w.self = None => w.roster = {} /\ w.queue = None /\ w.study = None /\ w.command = None

\* It remembers what it has to.
Recalls(w) ==
  /\ Range(w.stale) \subseteq Range(me.stale) /\ Distinct(w.stale)
  /\ w.roster \cap Range(w.stale) = {}
  /\ \A x \in known \ {me.self} :
       x \in Range(me.stale) \/ (Never(x) /\ x \notin me.roster) =>
         x \in Range(w.stale) \/ (Never(x) /\ x \notin w.roster)

\* A member sees what it has read.
LEMMA Reading ==
  ASSUME ViewFits, GreetFits, SocketsFit', NEW k \in Socket, NEW f \in DownFrame, NEW c \in Seq(DownFrame),
         Taken(k, f, c), f \notin Entry, down' = [down EXCEPT ![k] = c], UNCHANGED <<ready, up, known>>,
         IsClient(me'), SamePlace(me, me'), Recalls(me'),
         Sees(me, up[k], down[k], room, k) /\ me.self = k /\ me.status = "active" =>
           Sees(me', up[k], c, room, k)
  PROVE  ViewFits' /\ GreetFits'
<1>1. /\ k = me.bound /\ ready[k] = "open" /\ down[k] # <<>> /\ f = Head(down[k]) /\ c = Tail(down[k])
      /\ UNCHANGED <<gens, cut, conn, room>>
  BY DEF Taken
<1>2. /\ down \in [Socket -> Seq(DownFrame)] /\ None \notin Socket /\ down[k] \in Seq(DownFrame)
  BY OtherAssumption DEF ViewFits, NetTyped
<1>3. /\ down'[k] = c /\ \A j \in Socket : j # k => down'[j] = down[j]
      /\ down' \in [Socket -> Seq(DownFrame)]
  BY <1>2
<1>4. /\ me'.bound = k /\ me'.self = me.self /\ me'.status = me.status /\ me'.task = me.task
      /\ me'.disposed = me.disposed
      /\ me'.self = None =>
           me'.roster = {} /\ me'.queue = None /\ me'.study = None /\ me'.command = None
  BY <1>1 DEF SamePlace
<1>5. /\ \A i \in 1..Len(c) : c[i] = down[k][i + 1] /\ i + 1 \in 1..Len(down[k]) /\ i + 1 # 1
      /\ f = down[k][1] /\ 1 \in 1..Len(down[k])
  <2>1. \A i \in 1..Len(c) : i + 1 # 1
    OBVIOUS
  <2>. QED
    BY <1>1, <1>2, <2>1, TailsAt
<1>6. NetTyped' /\ IsRoom(room')
  <2>1. NetTyped /\ IsRoom(room)
    BY DEF ViewFits
  <2>. QED
    BY <1>1, <1>3, <2>1 DEF NetTyped
<1>7. Began'
  <2>1. Began
    BY DEF ViewFits
  <2>. QED
    BY <1>1, <1>4, <2>1 DEF Began
<1>8. UpFit'
  <2>1. SUFFICES ASSUME NEW j \in Socket PROVE Lines(j)'
    BY DEF UpFit
  <2>2. Lines(j)
    BY DEF ViewFits, UpFit
  <2>3. down'[j] = down[j] \/ (j = k /\ down[j] # <<>>)
    BY <1>1, <1>3
  <2>. QED
    BY <1>1, <2>2, <2>3 DEF Lines, Reads
<1>9. \A x : Never(x)' <=> Never(x)
  BY <1>1 DEF Never
<1>10. DownFit'
  <2>1. SUFFICES ASSUME NEW j \in Socket, NEW i \in 1..Len(down'[j])
                 PROVE  down'[j][i] \in Ok(j)'
    BY DEF DownFit
  <2>2. CASE j # k
    <3>1. ready[j] # "open"
      BY <1>1, <2>2, OpenIsBound
    <3>2. down'[j] = <<>>
      BY <1>3, <2>2, <3>1 DEF ViewFits, UpFit, Lines, Reads
    <3>. QED
      BY <3>2
  <2>3. CASE j = k
    <3>1. c[i] \in Ok(k)
      BY <1>3, <1>5, <2>3 DEF ViewFits, DownFit
    <3>. QED
      BY <1>3, <1>9, <2>3, <3>1 DEF Ok
  <2>. QED
    BY <2>2, <2>3
<1>11. Memory'
  <2>1. Memory /\ (Small' <=> Small)
    BY <1>4 DEF ViewFits, Small
  <2>2. /\ Range(me'.stale) \subseteq Range(me.stale) /\ Distinct(me'.stale)
        /\ me'.roster \cap Range(me'.stale) = {}
        /\ \A x \in known \ {me.self} :
             x \in Range(me.stale) \/ (Never(x) /\ x \notin me.roster) =>
               x \in Range(me'.stale) \/ (Never(x) /\ x \notin me'.roster)
    BY DEF Recalls
  <2>. QED
    BY <1>1, <1>4, <1>9, <2>1, <2>2 DEF Memory, Distinct
<1>12. LiveFits'
  <2>1. SUFFICES ASSUME Live(k)
                 PROVE  /\ k \in room.members => Sees(me', up[k], c, room, k)
                        /\ k \notin room.members => me.self = None /\ ~Has(c, Entry)
    BY <1>1, <1>3, <1>4 DEF LiveFits, Live, Reads
  <2>2. ASSUME k \in room.members PROVE Sees(me', up[k], c, room, k)
    <3>1. Sees(me, up[k], down[k], room, k)
      BY <2>1, <2>2 DEF ViewFits, LiveFits
    <3>2. me.self # None
      BY <1>1, <3>1 DEF Sees, Enters
    <3>3. me.self = k /\ me.status = "active"
      BY <1>1, <3>2 DEF ViewFits, Began
    <3>. QED
      BY <3>1, <3>3
  <2>3. ASSUME k \notin room.members PROVE me.self = None /\ ~Has(c, Entry)
    BY <1>1, <1>2, <2>1, <2>3, HasAfter DEF ViewFits, LiveFits
  <2>. QED
    BY <2>2, <2>3
<1>13. GreetFits'
  <2>1. ASSUME me.self = None, Reads(k)
        PROVE  k \notin room.members /\ \A i \in 1..Len(c) : c[i] \in Refusal
    BY <1>1, <1>5, <2>1 DEF GreetFits, Greeted
  <2>2. \A j \in Socket : ready[j] = "open" => j = k
    BY <1>1, OpenIsBound
  <2>. QED
    BY <1>1, <1>3, <1>4, <2>1, <2>2 DEF GreetFits, Greeted, Reads
<1>. QED
  BY <1>6, <1>7, <1>8, <1>10, <1>11, <1>12, <1>13 DEF ViewFits

\* What a frame says nothing about stays as it is.
LEMMA OthersSeen ==
  ASSUME NEW d \in Seq(DownFrame), d # <<>>, NEW f \in DownFrame, f = Head(d),
         NEW c \in Seq(DownFrame), c = Tail(d), NEW m, NEW w, NEW u, NEW r, NEW k, Sees(m, u, d, r, k)
  PROVE  /\ f.type \notin {"joined", "peer.joined", "peer.left"} /\ w.roster = m.roster /\ w.stale = m.stale =>
              SeesMembers(w, c, r.members, k)
         /\ f \notin HandFrame /\ w.status = m.status /\ w.queue = m.queue /\ w.hand = m.hand =>
              SeesHands(w, u, c, r.hands, k)
         /\ f \notin StudyFrame /\ w.study = m.study => SeesStudy(w, c, r.study)
         /\ f \notin Answer /\ w.command = m.command => AwaitsAnswer(w, u, c)
         /\ m.self # None /\ w.self = m.self /\ w.self \in w.roster => Enters(w, u, c)
<1>1. /\ SeesMembers(m, d, r.members, k) /\ SeesHands(m, u, d, r.hands, k) /\ SeesStudy(m, d, r.study)
      /\ AwaitsAnswer(m, u, d) /\ Enters(m, u, d)
  BY DEF Sees
<1>2. \A T : Has(d, T) <=> f \in T \/ Has(c, T)
  BY HasAfter
<1>3. \A i \in 1..Len(c) : c[i] = d[i + 1] /\ i + 1 \in 1..Len(d)
  BY TailsAt
<1>4. ASSUME f.type \notin {"joined", "peer.joined", "peer.left"}, w.roster = m.roster, w.stale = m.stale
      PROVE  SeesMembers(w, c, r.members, k)
  <2>1. SUFFICES ASSUME NEW q \in Peer \ {k}
                 PROVE  /\ q \in r.members => Ends(c, In(q), Out(q), q \in w.roster \cup Range(w.stale))
                        /\ q \notin r.members => Ends(c, Out(q), In(q), q \notin w.roster)
    BY DEF SeesMembers
  <2>2. /\ q \in r.members => Ends(d, In(q), Out(q), q \in m.roster \cup Range(m.stale))
        /\ q \notin r.members => Ends(d, Out(q), In(q), q \notin m.roster)
    BY <1>1 DEF SeesMembers
  <2>3. f \notin In(q) /\ f \notin Out(q)
    BY <1>4, Kinds
  <2>4. ASSUME q \in r.members PROVE Ends(c, In(q), Out(q), q \in w.roster \cup Range(w.stale))
    BY <1>4, <2>2, <2>3, <2>4, EndsAfter
  <2>5. ASSUME q \notin r.members PROVE Ends(c, Out(q), In(q), q \notin w.roster)
    BY <1>4, <2>2, <2>3, <2>5, EndsAfter
  <2>. QED
    BY <2>4, <2>5
<1>5. ASSUME f \notin HandFrame, w.status = m.status, w.queue = m.queue, w.hand = m.hand
      PROVE  SeesHands(w, u, c, r.hands, k)
  <2>1. PICK h : h = r.hands
    OBVIOUS
  <2>2. PICK b \in BOOLEAN : b = (m.queue = h /\ (m.hand <=> k \in h.raised))
    OBVIOUS
  <2>3. h # None /\ Ends(d, {HandState(h)}, HandFrame, b) => Ends(c, {HandState(h)}, HandFrame, b)
    <3>1. ASSUME Ends(d, {HandState(h)}, HandFrame, b), HandState(h) \in HandFrame
          PROVE  Ends(c, {HandState(h)}, HandFrame, b)
      <4>1. f \notin {HandState(h)}
        BY <1>5, <3>1
      <4>. QED
        BY <1>5, <3>1, <4>1, EndsAfter
    <3>2. HandState(h) \in DownFrame => HandState(h) \in HandFrame
      BY DEF HandFrame, HandState
    <3>3. ASSUME Ends(d, {HandState(h)}, HandFrame, b), HandState(h) \notin DownFrame
          PROVE  Ends(c, {HandState(h)}, HandFrame, b)
      <4>1. f \notin {HandState(h)}
        BY <3>3
      <4>. QED
        BY <1>5, <3>3, <4>1, EndsAfter
    <3>. QED
      BY <3>1, <3>2, <3>3
  <2>4. /\ m.status = "active" =>
            \/ Has(u, HandRequest)
            \/ h # None /\ Ends(d, {HandState(h)}, HandFrame, b)
        /\ Has(d, HandFrame) \/ m.queue # None => h # None
        /\ \A i \in 1..Len(d) : d[i] \in HandFrame => d[i].hands.revision <= h.revision
        /\ m.queue # None => m.queue.revision <= h.revision
    BY <1>1, <2>1, <2>2 DEF SeesHands
  <2>5. /\ w.status = "active" =>
            \/ Has(u, HandRequest)
            \/ h # None /\ Ends(c, {HandState(h)}, HandFrame, w.queue = h /\ (w.hand <=> k \in h.raised))
    BY <1>5, <2>2, <2>3, <2>4
  <2>6. /\ Has(c, HandFrame) \/ w.queue # None => h # None
        /\ \A i \in 1..Len(c) : c[i] \in HandFrame => c[i].hands.revision <= h.revision
        /\ w.queue # None => w.queue.revision <= h.revision
    BY <1>2, <1>3, <1>5, <2>4
  <2>. QED
    BY <2>1, <2>5, <2>6 DEF SeesHands
<1>6. ASSUME f \notin StudyFrame, w.study = m.study PROVE SeesStudy(w, c, r.study)
  <2>1. PICK s : s = r.study
    OBVIOUS
  <2>2. PICK b \in BOOLEAN : b <=> m.study \in {None, s}
    OBVIOUS
  <2>3. f \notin StudyAt(s)
    BY <1>6 DEF StudyAt
  <2>4. Ends(d, StudyAt(s), StudyFrame, b) => Ends(c, StudyAt(s), StudyFrame, b)
    BY <1>6, <2>3, EndsAfter
  <2>5. /\ Has(d, StudyFrame) \/ m.study # None => s # None
        /\ s # None =>
             /\ Ends(d, StudyAt(s), StudyFrame, b)
             /\ m.study # None => m.study <= s
             /\ \A i \in 1..Len(d) : d[i] \in StudyFrame => d[i].revision <= s
    BY <1>1, <2>1, <2>2 DEF SeesStudy, Ends
  <2>6. s # None => Ends(c, StudyAt(s), StudyFrame, w.study \in {None, s})
    BY <1>6, <2>2, <2>4, <2>5 DEF Ends
  <2>. QED
    BY <1>2, <1>3, <1>6, <2>1, <2>5, <2>6 DEF SeesStudy
<1>7. f \notin Answer /\ w.command = m.command => AwaitsAnswer(w, u, c)
  BY <1>1, <1>2 DEF AwaitsAnswer
<1>8. m.self # None /\ w.self = m.self /\ w.self \in w.roster => Enters(w, u, c)
  BY <1>1, <1>2 DEF Enters
<1>. QED
  BY <1>4, <1>5, <1>6, <1>7, <1>8

\* What a frame tells a session that takes it.
LEMMA TakenFits ==
  ASSUME ViewFits, GreetFits, NEW k \in Socket, NEW f \in DownFrame, NEW c, Taken(k, f, c)
  PROVE  /\ f \in Ok(k) \/ f \in OkFirst(k)
         /\ f \notin Entry /\ me.self = None => f \in Refusal
         /\ me.self # None => me.self = k /\ me.status = "active"
         /\ DOMAIN me = Fields /\ k = me.bound /\ down[k] \in Seq(DownFrame) /\ down[k] # <<>>
         /\ f = Head(down[k]) /\ c = Tail(down[k])
<1>1. /\ k = me.bound /\ ready[k] = "open" /\ down[k] # <<>> /\ f = Head(down[k]) /\ c = Tail(down[k])
      /\ down[k] \in Seq(DownFrame)
  BY DEF Taken, ViewFits, NetTyped
<1>2. f = down[k][1] /\ 1 \in 1..Len(down[k])
  BY <1>1, TailsAt
<1>3. f \in Ok(k) \/ f \in OkFirst(k)
  BY <1>2 DEF ViewFits, DownFit
<1>4. Reads(k)
  BY <1>1 DEF ViewFits, UpFit, Lines
<1>5. f \notin Entry /\ me.self = None => f \in Refusal
  BY <1>1, <1>2, <1>4 DEF GreetFits, Greeted
<1>6. me.self # None => me.self = k /\ me.status = "active"
  BY <1>1 DEF ViewFits, Began
<1>7. DOMAIN me = Fields
  BY WithoutId
<1>. QED
  BY <1>1, <1>3, <1>5, <1>6, <1>7

LEMMA HandlePeerJoinedFits ==
  ASSUME ViewFits, GreetFits, SocketsFit', HandlePeerJoined
  PROVE  ViewFits' /\ GreetFits'
<1>1. PICK k \in Socket, f \in DownFrame, c \in Seq(DownFrame) :
        /\ Taken(k, f, c) /\ f.type = "peer.joined" /\ f = News
        /\ down' = [down EXCEPT ![k] = c]
  BY Takes DEF HandlePeerJoined
<1>2. PICK q \in Peer : q = f.id
  BY <1>1, DownFrames
<1>3. /\ f \notin Entry /\ f \notin Refusal /\ f \notin HandFrame /\ f \notin StudyFrame /\ f \notin Answer
      /\ \A p : f \notin Out(p)
      /\ \A p : f \in In(p) <=> p = q
  BY <1>1, <1>2 DEF Entry, Refusal, HandFrame, StudyFrame, Answer, Out, In
<1>4. /\ f \in Ok(k) /\ me.self = k /\ me.status = "active" /\ DOMAIN me = Fields /\ k = me.bound
      /\ down[k] \in Seq(DownFrame) /\ down[k] # <<>> /\ f = Head(down[k]) /\ c = Tail(down[k])
  BY <1>1, <1>3, TakenFits DEF OkFirst
<1>5. q \notin known /\ q # k
  BY <1>1, <1>2, <1>4 DEF Ok
<1>6. /\ Range(me.stale) \subseteq known /\ Distinct(me.stale)
      /\ me.roster \cap Range(me.stale) = {}
  BY DEF ViewFits, Memory, Distinct
<1>7. /\ UNCHANGED <<ready, up, known>>
      /\ me' = [Heard EXCEPT !.roster = IF q \in Range(me.stale) THEN @ ELSE @ \cup {q}]
  BY <1>1, <1>2 DEF HandlePeerJoined
<1>8. me' = [me EXCEPT !.watch = FALSE, !.roster = me.roster \cup {q}]
  BY <1>4, <1>5, <1>6, <1>7 DEF Heard, Fields
<1>9. /\ me'.roster = me.roster \cup {q} /\ me'.stale = me.stale /\ me'.hand = me.hand
      /\ me'.queue = me.queue /\ me'.study = me.study /\ me'.command = me.command
      /\ me'.bound = me.bound /\ me'.self = me.self /\ me'.status = me.status /\ me'.task = me.task
      /\ me'.disposed = me.disposed
  BY <1>4, <1>8 DEF Fields
<1>10. IsClient(me')
  <2>1. IsClient(me)
    BY DEF ViewFits
  <2>. QED
    BY <1>9, <2>1 DEF IsClient
<1>11. k # None
  BY OtherAssumption
<1>12. SamePlace(me, me')
  BY <1>4, <1>9, <1>11 DEF SamePlace
<1>13. Recalls(me')
  BY <1>5, <1>6, <1>9 DEF Recalls
<1>14. ASSUME Sees(me, up[k], down[k], room, k) PROVE Sees(me', up[k], c, room, k)
  <2>1. me.self \in me'.roster
    BY <1>4, <1>9, <1>11, <1>14 DEF Sees, Enters
  <2>2. /\ SeesHands(me', up[k], c, room.hands, k) /\ SeesStudy(me', c, room.study)
        /\ AwaitsAnswer(me', up[k], c) /\ Enters(me', up[k], c)
    BY ZenonT(40), <1>3, <1>4, <1>9, <1>11, <1>14, <2>1, OthersSeen
  <2>3. ASSUME NEW p \in Peer \ {k}
        PROVE  /\ p \in room.members => Ends(c, In(p), Out(p), p \in me'.roster \cup Range(me'.stale))
               /\ p \notin room.members => Ends(c, Out(p), In(p), p \notin me'.roster)
    <3>1. /\ p \in room.members => Ends(down[k], In(p), Out(p), p \in me.roster \cup Range(me.stale))
          /\ p \notin room.members => Ends(down[k], Out(p), In(p), p \notin me.roster)
      BY <1>14 DEF Sees, SeesMembers
    <3>2. p \in me.roster \cup Range(me.stale) => p \in me'.roster \cup Range(me'.stale)
      BY <1>9
    <3>3. f \in In(p) => p \in me'.roster \cup Range(me'.stale)
      BY <1>3, <1>9
    <3>4. p \notin me.roster /\ f \notin In(p) => p \notin me'.roster
      BY <1>3, <1>9
    <3>5. ASSUME p \in room.members
          PROVE  Ends(c, In(p), Out(p), p \in me'.roster \cup Range(me'.stale))
      BY <1>4, <3>1, <3>2, <3>3, <3>5, EndsAfter
    <3>6. ASSUME p \notin room.members
          PROVE  Ends(c, Out(p), In(p), p \notin me'.roster)
      BY <1>3, <1>4, <3>1, <3>4, <3>6, EndsAfter
    <3>. QED
      BY <3>5, <3>6
  <2>. QED
    BY <2>2, <2>3 DEF Sees, SeesMembers
<1>. QED
  BY <1>1, <1>3, <1>7, <1>10, <1>12, <1>13, <1>14, Reading

LEMMA HandlePeerLeftFits ==
  ASSUME ViewFits, GreetFits, SocketsFit', HandlePeerLeft
  PROVE  ViewFits' /\ GreetFits'
<1>1. PICK k \in Socket, f \in DownFrame, c \in Seq(DownFrame) :
        /\ Taken(k, f, c) /\ f.type = "peer.left" /\ f = News
        /\ down' = [down EXCEPT ![k] = c]
  BY Takes DEF HandlePeerLeft
<1>2. PICK q \in Peer : q = f.id
  BY <1>1, DownFrames
<1>3. /\ f \notin Entry /\ f \notin Refusal /\ f \notin HandFrame /\ f \notin StudyFrame /\ f \notin Answer
      /\ \A p : f \notin In(p)
      /\ \A p : f \in Out(p) <=> p = q
  BY <1>1, <1>2 DEF Entry, Refusal, HandFrame, StudyFrame, Answer, Out, In
<1>4. /\ f \in Ok(k) /\ me.self = k /\ me.status = "active" /\ DOMAIN me = Fields /\ k = me.bound
      /\ down[k] \in Seq(DownFrame) /\ down[k] # <<>> /\ f = Head(down[k]) /\ c = Tail(down[k])
  BY <1>1, <1>3, TakenFits DEF OkFirst
<1>5. q # k /\ (q \in Socket => Never(q)) /\ known \subseteq Socket
  BY <1>1, <1>2, <1>4 DEF Ok, ViewFits, NetTyped
<1>6. /\ me.stale \in Seq(Socket) /\ Distinct(me.stale) /\ me.roster \cap Range(me.stale) = {}
  BY DEF ViewFits, Memory, Distinct, IsClient
<1>7. PICK s : s = Forget(me.stale, q)
  OBVIOUS
<1>8. s \in Seq(Socket) /\ Distinct(s) /\ Range(s) = Range(me.stale) \ {q}
  BY <1>6, <1>7, Forgets
<1>9. /\ UNCHANGED <<ready, up, known>>
      /\ me' = [Heard EXCEPT !.roster = @ \ {q}, !.stale = Forget(@, q)]
  BY <1>1, <1>2 DEF HandlePeerLeft
<1>10. me' = [me EXCEPT !.watch = FALSE, !.roster = me.roster \ {q}, !.stale = s]
  BY <1>4, <1>7, <1>9 DEF Heard, Fields
<1>11. /\ me'.roster = me.roster \ {q} /\ me'.stale = s /\ me'.hand = me.hand
       /\ me'.queue = me.queue /\ me'.study = me.study /\ me'.command = me.command
       /\ me'.bound = me.bound /\ me'.self = me.self /\ me'.status = me.status /\ me'.task = me.task
       /\ me'.disposed = me.disposed
  BY <1>4, <1>10 DEF Fields
<1>12. IsClient(me')
  <2>1. IsClient(me)
    BY DEF ViewFits
  <2>. QED
    BY <1>8, <1>11, <2>1 DEF IsClient
<1>13. k # None
  BY OtherAssumption
<1>14. SamePlace(me, me')
  BY <1>4, <1>11, <1>13 DEF SamePlace
<1>15. Recalls(me')
  BY <1>5, <1>6, <1>8, <1>11 DEF Recalls
<1>16. ASSUME Sees(me, up[k], down[k], room, k) PROVE Sees(me', up[k], c, room, k)
  <2>1. me.self \in me'.roster
    BY <1>4, <1>5, <1>11, <1>13, <1>16 DEF Sees, Enters
  <2>2. /\ SeesHands(me', up[k], c, room.hands, k) /\ SeesStudy(me', c, room.study)
        /\ AwaitsAnswer(me', up[k], c) /\ Enters(me', up[k], c)
    BY ZenonT(40), <1>3, <1>4, <1>11, <1>13, <1>16, <2>1, OthersSeen
  <2>3. ASSUME NEW p \in Peer \ {k}
        PROVE  /\ p \in room.members => Ends(c, In(p), Out(p), p \in me'.roster \cup Range(me'.stale))
               /\ p \notin room.members => Ends(c, Out(p), In(p), p \notin me'.roster)
    <3>1. /\ p \in room.members => Ends(down[k], In(p), Out(p), p \in me.roster \cup Range(me.stale))
          /\ p \notin room.members => Ends(down[k], Out(p), In(p), p \notin me.roster)
      BY <1>16 DEF Sees, SeesMembers
    <3>2. p \in me.roster \cup Range(me.stale) /\ f \notin Out(p) =>
            p \in me'.roster \cup Range(me'.stale)
      BY <1>3, <1>8, <1>11
    <3>3. f \in Out(p) => p \notin me'.roster
      BY <1>3, <1>11
    <3>4. p \notin me.roster => p \notin me'.roster
      BY <1>11
    <3>5. ASSUME p \in room.members
          PROVE  Ends(c, In(p), Out(p), p \in me'.roster \cup Range(me'.stale))
      BY <1>3, <1>4, <3>1, <3>2, <3>5, EndsAfter
    <3>6. ASSUME p \notin room.members
          PROVE  Ends(c, Out(p), In(p), p \notin me'.roster)
      BY <1>4, <3>1, <3>3, <3>4, <3>6, EndsAfter
    <3>. QED
      BY <3>5, <3>6
  <2>. QED
    BY <2>2, <2>3 DEF Sees, SeesMembers
<1>. QED
  BY <1>1, <1>3, <1>9, <1>12, <1>14, <1>15, <1>16, Reading

\* A session that is not joining takes a refusal without a word.
LEMMA HandleErrorFits ==
  ASSUME ViewFits, GreetFits, SocketsFit', HandleError
  PROVE  ViewFits' /\ GreetFits'
<1>1. CASE Waits("joining")
  BY <1>1, HandleErrorJoining
<1>2. CASE ~Waits("joining")
  <2>1. PICK k \in Socket, f \in DownFrame, c \in Seq(DownFrame) :
          /\ Taken(k, f, c) /\ f.type = "error" /\ f = News
          /\ down' = [down EXCEPT ![k] = c] /\ me' = Heard /\ UNCHANGED <<ready, up, known>>
    BY <1>2, Takes DEF HandleError
  <2>2. f \notin Entry /\ f \in Refusal /\ DOMAIN me = Fields
    BY <2>1, TakenFits DEF Entry, Refusal
  <2>3. /\ me'.roster = me.roster /\ me'.stale = me.stale /\ me'.hand = me.hand
        /\ me'.queue = me.queue /\ me'.study = me.study /\ me'.command = me.command
        /\ me'.bound = me.bound /\ me'.self = me.self /\ me'.status = me.status /\ me'.task = me.task
        /\ me'.disposed = me.disposed
    BY <2>1, <2>2 DEF Heard, Fields
  <2>4. IsClient(me')
    <3>1. IsClient(me)
      BY DEF ViewFits
    <3>. QED
      BY <2>3, <3>1 DEF IsClient
  <2>5. SamePlace(me, me')
    BY <2>3 DEF SamePlace, ViewFits, Began
  <2>6. Recalls(me')
    BY <2>3 DEF Recalls, ViewFits, Memory, Distinct
  <2>7. ~Sees(me, up[k], down[k], room, k)
    <3>1. Has(down[k], Refusal)
      BY <2>1, <2>2, TakenFits, HasAfter
    <3>. QED
      BY <3>1 DEF Sees, Enters
  <2>. QED
    BY <2>1, <2>2, <2>4, <2>5, <2>6, <2>7, Reading
<1>. QED
  BY <1>1, <1>2

\* The latest hands replace those the session has.
LEMMA HandsTaken ==
  ASSUME NoneAssumption, NEW h \in Hands, NEW g \in Hands \cup {None}, NEW d \in Seq(DownFrame), d # <<>>,
         NEW c \in Seq(DownFrame), c = Tail(d), Head(d) = HandState(h), NEW m, NEW w, NEW u, NEW k,
         SeesHands(m, u, d, g, k), m.queue \in Hands \cup {None},
         \/ m.queue # None /\ h.revision < m.queue.revision /\ w.queue = m.queue
         \/ w.queue = h /\ (w.hand <=> k \in h.raised)
            /\ ~(m.queue # None /\ h.revision < m.queue.revision),
         w.status = m.status
  PROVE  SeesHands(w, u, c, g, k)
<1>1. PICK f \in DownFrame : f = HandState(h)
  BY FramesMade
<1>2. f \in HandFrame /\ f.hands = h /\ h # None
  BY <1>1, Kinds, NoneAssumption DEF Hands
<1>3. f = Head(d) /\ f = d[1] /\ 1 \in 1..Len(d)
  BY <1>1, TailsAt
<1>4. Has(d, HandFrame)
  BY <1>2, <1>3 DEF Has
<1>5. g # None /\ h.revision <= g.revision /\ (m.queue # None => m.queue.revision <= g.revision)
      /\ \A i \in 1..Len(d) : d[i] \in HandFrame => d[i].hands.revision <= g.revision
  BY <1>2, <1>3, <1>4 DEF SeesHands
<1>6. w.queue # None => w.queue.revision <= g.revision
  BY <1>5
<1>7. \A i \in 1..Len(c) : c[i] \in HandFrame => c[i].hands.revision <= g.revision
  BY <1>5, TailsAt
<1>8. ASSUME w.status = "active", ~Has(u, HandRequest)
      PROVE  Ends(c, {HandState(g)}, HandFrame, w.queue = g /\ (w.hand <=> k \in g.raised))
  <2>1. Ends(d, {HandState(g)}, HandFrame, m.queue = g /\ (m.hand <=> k \in g.raised))
    BY <1>8 DEF SeesHands
  <2>2. ASSUME f \in {HandState(g)} PROVE w.queue = g /\ (w.hand <=> k \in g.raised)
    <3>1. h = g
      BY <1>1, <1>2, <1>5, <2>2, Kinds
    <3>2. g.revision \in Nat /\ (m.queue # None => m.queue.revision \in Nat)
      BY <1>5 DEF Hands
    <3>3. ~(m.queue # None /\ h.revision < m.queue.revision)
      BY <1>5, <3>1, <3>2
    <3>. QED
      BY <3>1, <3>3
  <2>. QED
    BY <1>2, <1>3, <2>1, <2>2, EndsAfter
<1>. QED
  BY <1>5, <1>6, <1>7, <1>8 DEF SeesHands

LEMMA HandleHandStateFits ==
  ASSUME ViewFits, GreetFits, NoneAssumption, SocketsFit', HandleHandState
  PROVE  ViewFits' /\ GreetFits'
<1>1. PICK k \in Socket, f \in DownFrame, c \in Seq(DownFrame) :
        /\ Taken(k, f, c) /\ f.type = "hand.state" /\ f = News
        /\ down' = [down EXCEPT ![k] = c]
  BY Takes DEF HandleHandState
<1>2. PICK h \in Hands : h = f.hands /\ f = HandState(h)
  BY <1>1, DownFrames
<1>3. f \notin Entry /\ f \notin Refusal /\ f \notin StudyFrame /\ f \notin Answer
  BY <1>1 DEF Entry, Refusal, StudyFrame, Answer
<1>4. /\ me.self = k /\ me.status = "active" /\ DOMAIN me = Fields /\ k = me.bound
      /\ down[k] \in Seq(DownFrame) /\ down[k] # <<>> /\ f = Head(down[k]) /\ c = Tail(down[k])
  BY <1>1, <1>3, TakenFits
<1>5. /\ UNCHANGED <<ready, up, known>>
      /\ me' = IF me.queue # None /\ h.revision < me.queue.revision THEN Heard
               ELSE [Heard EXCEPT !.queue = h, !.hand = k \in h.raised]
  BY <1>1, <1>2, <1>4 DEF HandleHandState, Heard, Fields
<1>6. /\ me'.roster = me.roster /\ me'.stale = me.stale
      /\ me'.study = me.study /\ me'.command = me.command
      /\ me'.bound = me.bound /\ me'.self = me.self /\ me'.status = me.status /\ me'.task = me.task
      /\ me'.disposed = me.disposed
      /\ \/ me.queue # None /\ h.revision < me.queue.revision /\ me'.queue = me.queue /\ me'.hand = me.hand
         \/ /\ me'.queue = h /\ me'.hand = (k \in h.raised)
            /\ ~(me.queue # None /\ h.revision < me.queue.revision)
  <2>1. CASE me.queue # None /\ h.revision < me.queue.revision
    <3>1. me' = Heard
      BY <1>5, <2>1
    <3>. QED
      BY <1>4, <2>1, <3>1 DEF Heard, Fields
  <2>2. CASE ~(me.queue # None /\ h.revision < me.queue.revision)
    <3>1. me' = [Heard EXCEPT !.queue = h, !.hand = k \in h.raised]
      BY <1>5, <2>2
    <3>. QED
      BY <1>4, <2>2, <3>1 DEF Heard, Fields
  <2>. QED
    BY <2>1, <2>2
<1>7. IsClient(me) /\ me.queue \in Hands \cup {None}
  BY DEF ViewFits, IsClient
<1>8. IsClient(me')
  <2>2. me.hand \in BOOLEAN
    BY <1>7 DEF IsClient
  <2>3. PICK b : b = (k \in h.raised)
    OBVIOUS
  <2>4. b \in BOOLEAN
    BY <2>3
  <2>5. me'.hand = me.hand \/ me'.hand = b
    BY <1>6, <2>3, Zenon
  <2>6. me'.queue = me.queue \/ me'.queue = h
    BY <1>6, Zenon
  <2>1. me'.hand \in BOOLEAN /\ me'.queue \in Hands \cup {None}
    BY <1>7, <2>2, <2>4, <2>5, <2>6
  <2>. QED
    BY <1>6, <1>7, <2>1 DEF IsClient
<1>9. k # None
  BY OtherAssumption
<1>10. SamePlace(me, me')
  BY <1>4, <1>6, <1>9 DEF SamePlace
<1>11. Recalls(me')
  BY <1>6 DEF Recalls, ViewFits, Memory, Distinct
<1>12. ASSUME Sees(me, up[k], down[k], room, k) PROVE Sees(me', up[k], c, room, k)
  <2>1. me.self \in me'.roster
    BY <1>4, <1>6, <1>9, <1>12 DEF Sees, Enters
  <2>2. f.type \notin {"joined", "peer.joined", "peer.left"}
    BY <1>1
  <2>3. SeesMembers(me', c, room.members, k)
    BY <1>4, <1>6, <1>12, <2>2, OthersSeen
  <2>4. SeesStudy(me', c, room.study) /\ AwaitsAnswer(me', up[k], c) /\ Enters(me', up[k], c)
    BY ZenonT(40), <1>3, <1>4, <1>6, <1>9, <1>12, <2>1, OthersSeen
  <2>5. SeesHands(me, up[k], down[k], room.hands, k) /\ room.hands \in Hands \cup {None}
    BY <1>12 DEF Sees, ViewFits, IsRoom
  <2>6. Head(down[k]) = HandState(h)
    BY <1>2, <1>4
  <2>7. \/ me.queue # None /\ h.revision < me.queue.revision /\ me'.queue = me.queue
        \/ me'.queue = h /\ (me'.hand <=> k \in h.raised)
           /\ ~(me.queue # None /\ h.revision < me.queue.revision)
    BY <1>6
  <2>8. SeesHands(me', up[k], c, room.hands, k)
    BY <1>4, <1>6, <1>7, <2>5, <2>6, <2>7, HandsTaken
  <2>. QED
    BY <2>3, <2>4, <2>8 DEF Sees
<1>. QED
  BY <1>1, <1>3, <1>5, <1>8, <1>10, <1>11, <1>12, Reading

\* The latest study replaces the one the session has.
StudyMoves(m, w, n) ==
  \/ m.study # None /\ n < m.study /\ w.study = m.study
  \/ w.study = n /\ ~(m.study # None /\ n < m.study)

LEMMA StudyTaken ==
  ASSUME NoneAssumption, NEW id \in RequestId, NEW n \in Nat, NEW s \in Nat \cup {None},
         NEW d \in Seq(DownFrame), d # <<>>,
         NEW c \in Seq(DownFrame), c = Tail(d), Head(d) = StudyState(id, n), NEW m, NEW w,
         SeesStudy(m, d, s), m.study \in Nat \cup {None}, StudyMoves(m, w, n)
  PROVE  SeesStudy(w, c, s)
<1>. USE DEF StudyMoves
<1>1. PICK f \in DownFrame : f = StudyState(id, n)
  BY FramesMade
<1>2. f \in StudyFrame /\ f \in StudyAt(n) /\ f.revision = n /\ n # None
  BY <1>1, Kinds, NoneAssumption DEF StudyAt
<1>3. f = Head(d) /\ f = d[1] /\ 1 \in 1..Len(d)
  BY <1>1, TailsAt
<1>4. Has(d, StudyFrame)
  BY <1>2, <1>3 DEF Has
<1>5. s # None /\ s \in Nat /\ n <= s /\ (m.study # None => m.study <= s)
      /\ \A i \in 1..Len(d) : d[i] \in StudyFrame => d[i].revision <= s
  BY <1>2, <1>3, <1>4 DEF SeesStudy
<1>6. w.study # None => w.study <= s
  BY <1>5
<1>7. \A i \in 1..Len(c) : c[i] \in StudyFrame => c[i].revision <= s
  BY <1>5, TailsAt
<1>8. Ends(c, StudyAt(s), StudyFrame, w.study \in {None, s})
  <2>1. Ends(d, StudyAt(s), StudyFrame, m.study \in {None, s})
    BY <1>5 DEF SeesStudy
  <2>2. ASSUME f \in StudyAt(s) PROVE w.study \in {None, s}
    <3>1. n = s
      BY <1>2, <2>2 DEF StudyAt
    <3>. QED
      BY <1>5, <3>1
  <2>. QED
    BY <1>2, <1>3, <2>1, <2>2, EndsAfter
<1>. QED
  BY <1>5, <1>6, <1>7, <1>8 DEF SeesStudy

LEMMA StudyStates ==
  ASSUME NEW f \in DownFrame, f.type = "study.state"
  PROVE  f = StudyState(f.id, f.revision)
<1>1. f \in [type : {"study.state"}, id : RequestId, revision : Nat]
  BY DEF DownFrame
<1>. QED
  BY <1>1 DEF StudyState

LEMMA HandleStudyStateFits ==
  ASSUME ViewFits, GreetFits, NoneAssumption, SocketsFit', HandleStudyState
  PROVE  ViewFits' /\ GreetFits'
<1>1. PICK k \in Socket, f \in DownFrame, c \in Seq(DownFrame) :
        /\ Taken(k, f, c) /\ f.type = "study.state" /\ f = News
        /\ down' = [down EXCEPT ![k] = c]
  BY Takes DEF HandleStudyState
<1>2. PICK id \in RequestId, n \in Nat : id = f.id /\ n = f.revision
  BY <1>1, DownFrames
<1>3. f \notin Entry /\ f \notin Refusal /\ f \notin HandFrame
  BY <1>1 DEF Entry, Refusal, HandFrame
<1>4. /\ me.self = k /\ me.status = "active" /\ DOMAIN me = Fields /\ k = me.bound
      /\ down[k] \in Seq(DownFrame) /\ down[k] # <<>> /\ f = Head(down[k]) /\ c = Tail(down[k])
  BY <1>1, <1>3, TakenFits
<1>5. PICK command, study, syncing :
        /\ me' = [Heard EXCEPT !.command = command, !.study = study, !.syncing = syncing]
        /\ me.command = id => command = None
        /\ me.command # id => command = me.command
        /\ \/ me.study # None /\ n < me.study /\ study = me.study
           \/ study = n /\ ~(me.study # None /\ n < me.study)
  <2>1. PICK command : command = IF me.command = id THEN None ELSE me.command
    OBVIOUS
  <2>2. PICK study : study = IF me.study # None /\ n < me.study THEN me.study ELSE n
    OBVIOUS
  <2>3. PICK syncing : syncing = IF me.syncing = id THEN None ELSE me.syncing
    OBVIOUS
  <2>4. me' = [Heard EXCEPT !.command = command, !.study = study, !.syncing = syncing]
    BY <1>1, <1>2, <1>4, <2>1, <2>2, <2>3 DEF HandleStudyState, Heard, Fields
  <2>. QED
    BY Zenon, <2>1, <2>2, <2>4
<1>6. /\ me'.roster = me.roster /\ me'.stale = me.stale /\ me'.hand = me.hand
      /\ me'.queue = me.queue /\ me'.study = study /\ me'.command = command
      /\ me'.bound = me.bound /\ me'.self = me.self /\ me'.status = me.status /\ me'.task = me.task
      /\ me'.disposed = me.disposed
  BY <1>4, <1>5 DEF Heard, Fields
<1>7. IsClient(me) /\ me.study \in Nat \cup {None}
  BY DEF ViewFits, IsClient
<1>8. IsClient(me')
  BY <1>5, <1>6, <1>7 DEF IsClient
<1>9. k # None
  BY OtherAssumption
<1>10. SamePlace(me, me')
  BY <1>4, <1>6, <1>9 DEF SamePlace
<1>11. Recalls(me')
  BY <1>6 DEF Recalls, ViewFits, Memory, Distinct
<1>12. ASSUME Sees(me, up[k], down[k], room, k) PROVE Sees(me', up[k], c, room, k)
  <2>1. me.self \in me'.roster
    BY <1>4, <1>6, <1>9, <1>12 DEF Sees, Enters
  <2>2. f.type \notin {"joined", "peer.joined", "peer.left"}
    BY <1>1
  <2>3. SeesMembers(me', c, room.members, k)
    BY <1>4, <1>6, <1>12, <2>2, OthersSeen
  <2>4. SeesHands(me', up[k], c, room.hands, k) /\ Enters(me', up[k], c)
    BY <1>3, <1>4, <1>6, <1>9, <1>12, <2>1, OthersSeen
  <2>5. SeesStudy(me, down[k], room.study) /\ room.study \in Nat \cup {None}
    BY <1>12 DEF Sees, ViewFits, IsRoom
  <2>6. Head(down[k]) = StudyState(id, n)
    BY <1>1, <1>2, <1>4, StudyStates
  <2>9. StudyMoves(me, me', n)
    BY <1>5, <1>6 DEF StudyMoves
  <2>7. SeesStudy(me', c, room.study)
    BY <1>4, <1>7, <2>5, <2>6, <2>9, StudyTaken
  <2>8. AwaitsAnswer(me', up[k], c)
    <3>1. CASE me'.command = None
      BY <3>1 DEF AwaitsAnswer
    <3>2. CASE me'.command # None
      <4>1. me.command = "update" /\ id # "update" /\ me'.command = me.command
        BY <1>5, <1>6, <1>7, <3>2 DEF IsClient
      <4>2. f \notin Answer
        BY <1>2, <4>1 DEF Answer
      <4>. QED
        BY <1>4, <1>12, <4>1, <4>2, OthersSeen
    <3>. QED
      BY <3>1, <3>2
  <2>. QED
    BY <2>3, <2>4, <2>7, <2>8 DEF Sees
<1>. QED
  BY <1>1, <1>3, <1>8, <1>10, <1>11, <1>12, Reading DEF HandleStudyState

\* Session w is what m is when its join has been confirmed by f.
Entered(m, w, f, k) ==
  /\ w.bound = m.bound /\ w.disposed = m.disposed /\ w.hand = m.hand
  /\ w.self = k /\ w.status = "active" /\ w.task.at = "none" /\ w.task.kind = "none"
  /\ w.queue = None /\ w.study = None /\ w.command = None
  /\ w.stale \in Seq(Socket) /\ Distinct(w.stale) /\ Range(w.stale) = Range(m.stale)
  /\ w.roster = {k} \cup (f.members \ Range(m.stale))

\* The confirmation of a join shows the members.
LEMMA EntrySeesRoom ==
  ASSUME NEW d \in Seq(DownFrame), d # <<>>, NEW f \in DownFrame, f = Head(d), f \in Entry,
         NEW c \in Seq(DownFrame), c = Tail(d), NEW k, NEW m, NEW w, Entered(m, w, f, k), k # None,
         m.self = None, m.roster = {}, m.queue = None, m.study = None,
         NEW u, NEW v, Has(v, HandRequest), NEW r, Sees(m, u, d, r, k)
  PROVE  Sees(w, v, c, r, k)
<1>1. /\ w.self = k /\ w.status = "active" /\ w.queue = None /\ w.study = None /\ w.command = None
      /\ Range(w.stale) = Range(m.stale) /\ w.roster = {k} \cup (f.members \ Range(m.stale))
  BY DEF Entered
<1>2. f.type = "joined"
  BY DEF Entry
<1>3. f \notin HandFrame /\ f \notin StudyFrame
  BY <1>2 DEF HandFrame, StudyFrame
<1>4. \A T : Has(d, T) <=> f \in T \/ Has(c, T)
  BY HasAfter
<1>5. /\ SeesMembers(m, d, r.members, k) /\ SeesHands(m, u, d, r.hands, k) /\ SeesStudy(m, d, r.study)
      /\ Enters(m, u, d)
  BY DEF Sees
<1>6. \A i \in 1..Len(c) : c[i] = d[i + 1] /\ i + 1 \in 1..Len(d)
  BY TailsAt
<1>7. SeesMembers(w, c, r.members, k)
  <2>1. SUFFICES ASSUME NEW p \in Peer \ {k}
                 PROVE  /\ p \in r.members => Ends(c, In(p), Out(p), p \in w.roster \cup Range(w.stale))
                        /\ p \notin r.members => Ends(c, Out(p), In(p), p \notin w.roster)
    BY DEF SeesMembers
  <2>2. /\ p \in r.members => Ends(d, In(p), Out(p), p \in m.roster \cup Range(m.stale))
        /\ p \notin r.members => Ends(d, Out(p), In(p), p \notin m.roster)
    BY <1>5 DEF SeesMembers
  <2>3. (f \in In(p) <=> p \in f.members) /\ (f \in Out(p) <=> p \notin f.members)
    BY <1>2 DEF In, Out
  <2>4. f \in In(p) => p \in w.roster \cup Range(w.stale)
    BY <1>1, <2>3
  <2>5. p \in m.roster \cup Range(m.stale) => p \in w.roster \cup Range(w.stale)
    BY <1>1
  <2>6. f \in Out(p) \/ f \notin In(p) => p \notin w.roster
    BY <1>1, <2>3
  <2>7. ASSUME p \in r.members PROVE Ends(c, In(p), Out(p), p \in w.roster \cup Range(w.stale))
    BY <2>2, <2>4, <2>5, <2>7, EndsAfter
  <2>8. ASSUME p \notin r.members PROVE Ends(c, Out(p), In(p), p \notin w.roster)
    BY <2>2, <2>6, <2>8, EndsAfter
  <2>. QED
    BY <2>7, <2>8
<1>8. SeesHands(w, v, c, r.hands, k)
  BY <1>1, <1>4, <1>5, <1>6 DEF SeesHands
<1>9. SeesStudy(w, c, r.study)
  <2>1. PICK s : s = r.study
    OBVIOUS
  <2>2. f \notin StudyAt(s)
    BY <1>3 DEF StudyAt
  <2>3. s # None => Ends(d, StudyAt(s), StudyFrame, m.study \in {None, s})
    BY <1>5, <2>1 DEF SeesStudy
  <2>4. w.study \in {None, s}
    BY <1>1
  <2>5. s # None => Ends(c, StudyAt(s), StudyFrame, w.study \in {None, s})
    BY <1>3, <2>2, <2>3, <2>4, EndsAfter
  <2>. QED
    BY <1>1, <1>4, <1>5, <1>6, <2>1, <2>5 DEF SeesStudy
<1>10. AwaitsAnswer(w, v, c)
  BY <1>1 DEF AwaitsAnswer
<1>11. Enters(w, v, c)
  BY <1>1, <1>4, <1>5 DEF Enters
<1>. QED
  BY <1>7, <1>8, <1>9, <1>10, <1>11 DEF Sees

\* A member asks for something.
LEMMA WorkSent ==
  ASSUME ViewFits, NEW k \in Socket, ready[k] = "open", NEW g \in UpFrame, g \in Work,
         up' = Sent(k, up, g), conn[k] = "open" /\ k \notin cut => k \in room.members
  PROVE  /\ up' \in [Socket -> Seq(UpFrame)] /\ \A j \in Socket : j # k => up'[j] = up[j]
         /\ InOrder(up'[k])
         /\ conn[k] # "open" \/ k \in cut => up'[k] = <<>> /\ up[k] = <<>>
         /\ conn[k] = "open" /\ k \notin cut => \A T : g \in T => Has(up'[k], T)
         /\ \A T : Has(up[k], T) => Has(up'[k], T)
         /\ \A T : g \notin T /\ Has(up'[k], T) => Has(up[k], T)
         /\ Has(up'[k], Work) => k \in room.members
<1>1. up \in [Socket -> Seq(UpFrame)] /\ up[k] \in Seq(UpFrame) /\ Lines(k)
  BY DEF ViewFits, NetTyped, UpFit
<1>2. CASE conn[k] # "open" \/ k \in cut
  <2>1. up' = up
    BY <1>2 DEF Sent
  <2>. QED
    BY <1>1, <1>2, <2>1 DEF Lines
<1>3. CASE ~(conn[k] # "open" \/ k \in cut)
  <2>1. up' = [up EXCEPT ![k] = Append(@, g)]
    BY <1>3 DEF Sent
  <2>2. PICK u \in Seq(UpFrame) : u = Append(up[k], g)
    BY <1>1, AppendsAt
  <2>3. up' = [up EXCEPT ![k] = u]
    BY <1>1, <2>1, <2>2
  <2>4. up' \in [Socket -> Seq(UpFrame)] /\ up'[k] = u /\ \A j \in Socket : j # k => up'[j] = up[j]
    BY <1>1, <2>3
  <2>5. ~Has(up[k], Ending) /\ InOrder(up[k]) /\ g \notin Joining
    BY <1>1 DEF Lines, Work, Joining
  <2>6. InOrder(u)
    BY <1>1, <2>2, <2>5, OrderKept
  <2>7. \A T : Has(u, T) <=> Has(up[k], T) \/ g \in T
    BY <1>1, <2>2, HasAfter
  <2>. QED
    BY <1>3, <2>4, <2>6, <2>7
<1>. QED
  BY <1>2, <1>3

\* A session is a member from the confirmation of its join.
LEMMA EnteredFits ==
  ASSUME ViewFits, SocketsFit', NEW k \in Socket, NEW f \in DownFrame, NEW c \in Seq(DownFrame),
         Taken(k, f, c), f \in OkFirst(k), down' = [down EXCEPT ![k] = c], UNCHANGED ready,
         known' = known \cup {k}, NEW g \in UpFrame, g \in HandRequest, up' = Sent(k, up, g),
         Entered(me, me', f, k)
  PROVE  ViewFits' /\ GreetFits'
<1>1. /\ k = me.bound /\ ready[k] = "open" /\ down[k] # <<>> /\ f = Head(down[k]) /\ c = Tail(down[k])
      /\ UNCHANGED <<gens, cut, conn, room>>
  BY DEF Taken
<1>2. /\ down \in [Socket -> Seq(DownFrame)] /\ None \notin Socket /\ down[k] \in Seq(DownFrame)
      /\ known \subseteq Socket
  BY OtherAssumption DEF ViewFits, NetTyped
<1>3. /\ down'[k] = c /\ \A j \in Socket : j # k => down'[j] = down[j]
      /\ down' \in [Socket -> Seq(DownFrame)]
  BY <1>2
<1>4. /\ f \in Entry /\ me.self = None /\ k \notin f.members
      /\ Small /\ ~me.disposed => f.members \cap known \subseteq Range(me.stale)
  BY DEF OkFirst
<1>5. /\ me'.bound = me.bound /\ me'.disposed = me.disposed /\ me'.hand = me.hand
      /\ me'.self = k /\ me'.status = "active" /\ me'.task.at = "none" /\ me'.task.kind = "none"
      /\ me'.queue = None /\ me'.study = None /\ me'.command = None
      /\ me'.stale \in Seq(Socket) /\ Distinct(me'.stale) /\ Range(me'.stale) = Range(me.stale)
      /\ me'.roster = {k} \cup (f.members \ Range(me.stale))
  BY DEF Entered
<1>6. Has(down[k], Entry)
  BY <1>1, <1>2, <1>4, HasAfter
<1>7. conn[k] = "open" /\ k \notin cut => k \in room.members
  BY <1>1, <1>6 DEF ViewFits, LiveFits, Live, Reads
<1>8. g \in Work /\ g \notin Joining /\ g \notin Ending
  BY DEF HandRequest, Work, Joining, Ending
<1>9. /\ up' \in [Socket -> Seq(UpFrame)] /\ \A j \in Socket : j # k => up'[j] = up[j]
      /\ InOrder(up'[k])
      /\ conn[k] # "open" \/ k \in cut => up'[k] = <<>> /\ up[k] = <<>>
      /\ conn[k] = "open" /\ k \notin cut => Has(up'[k], HandRequest)
      /\ Has(up'[k], Joining) => Has(up[k], Joining)
      /\ Has(up'[k], Ending) => Has(up[k], Ending)
      /\ Has(up'[k], Work) => k \in room.members
  BY <1>1, <1>7, <1>8, WorkSent
<1>10. k \notin known /\ conn[k] # "none"
  <2>1. Memory /\ Lines(k)
    BY DEF ViewFits, UpFit
  <2>. QED
    BY <1>1, <1>2, <1>4, <2>1 DEF Memory, Lines
<1>11. known' \subseteq Socket /\ (Small' <=> Small)
  <2>1. IsFiniteSet(Socket)
    BY LimitAssumption, FS_Interval DEF Socket
  <2>2. IsFiniteSet(known)
    BY <1>2, <2>1, FS_Subset
  <2>3. Cardinality(known') = Cardinality(known) + 1 /\ Cardinality(known) \in Nat
    BY <1>10, <2>2, FS_AddElement, FS_CardinalityType
  <2>. QED
    BY <1>2, <1>4, <1>5, <2>3, LimitAssumption DEF Small
<1>12. NetTyped' /\ IsRoom(room')
  <2>1. NetTyped /\ IsRoom(room)
    BY DEF ViewFits
  <2>. QED
    BY <1>1, <1>3, <1>9, <1>11, <2>1 DEF NetTyped
<1>13. IsClient(me')
  <2>1. IsClient(me)
    BY DEF ViewFits
  <2>2. f.members \subseteq Peer
    BY <1>4, DownFrames DEF Entry
  <2>. QED
    BY <1>5, <2>1, <2>2 DEF IsClient, Peer
<1>14. Began'
  <2>1. \A j \in Socket : j > gens => ready[j] = "none"
    BY DEF ViewFits, Began
  <2>2. ~me.disposed
    BY <1>1, <1>2, WithoutId
  <2>. QED
    BY <1>1, <1>2, <1>5, <2>1, <2>2 DEF Began
<1>15. UpFit'
  <2>1. SUFFICES ASSUME NEW j \in Socket PROVE Lines(j)'
    BY DEF UpFit
  <2>2. Lines(j)
    BY DEF ViewFits, UpFit
  <2>3. CASE j # k
    BY <1>1, <1>3, <1>9, <2>2, <2>3 DEF Lines, Reads
  <2>4. CASE j = k
    BY <1>1, <1>9, <2>2, <2>4 DEF Lines, Reads
  <2>. QED
    BY <2>3, <2>4
<1>16. ASSUME NEW x \in Socket, x # k, Never(x) PROVE Never(x)'
  BY <1>1, <1>9, <1>16 DEF Never
<1>17. DownFit'
  <2>1. SUFFICES ASSUME NEW j \in Socket, NEW i \in 1..Len(down'[j])
                 PROVE  down'[j][i] \in Ok(j)'
    BY DEF DownFit
  <2>2. CASE j # k
    <3>1. ready[j] # "open"
      BY <1>1, <2>2, OpenIsBound
    <3>2. down'[j] = <<>>
      BY <1>3, <2>2, <3>1 DEF ViewFits, UpFit, Lines, Reads
    <3>. QED
      BY <3>2
  <2>3. CASE j = k
    <3>1. c[i] = down[k][i + 1] /\ i + 1 \in 1..Len(down[k]) /\ i + 1 # 1
      <4>1. i \in 1..Len(c) /\ i + 1 # 1
        BY <1>3, <2>3
      <4>. QED
        BY <1>1, <1>2, <4>1, TailsAt
    <3>2. c[i] \in Ok(k)
      BY <3>1 DEF ViewFits, DownFit
    <3>. QED
      BY <1>3, <1>16, <2>3, <3>2 DEF Ok
  <2>. QED
    BY <2>2, <2>3
<1>18. Memory'
  <2>1. Memory
    BY DEF ViewFits
  <2>2. k \notin Range(me.stale)
    BY <1>10, <2>1 DEF Memory
  <2>3. ASSUME Small', ~me'.disposed, NEW x \in known' \ {me'.self}
        PROVE  x \in Range(me'.stale) \/ (Never(x)' /\ x \notin me'.roster)
    <3>1. x \in known /\ x # k /\ x \in Socket
      BY <1>2, <1>5, <2>3
    <3>4. Small /\ ~me.disposed /\ x \in known \ {me.self}
      BY <1>2, <1>4, <1>5, <1>11, <2>3, <3>1
    <3>5. Small /\ ~me.disposed =>
            \A y \in known \ {me.self} : y \in Range(me.stale) \/ (Never(y) /\ y \notin me.roster)
      BY <2>1 DEF Memory
    <3>2. x \in Range(me.stale) \/ Never(x)
      BY <3>4, <3>5
    <3>3. x \in f.members => x \in Range(me.stale)
      BY <1>4, <1>5, <1>11, <2>3, <3>1
    <3>. QED
      BY <1>5, <1>16, <3>1, <3>2, <3>3
  <2>. QED
    BY <1>1, <1>5, <1>10, <2>1, <2>2, <2>3 DEF Memory, Distinct
<1>19. LiveFits'
  <2>1. SUFFICES ASSUME Live(k)
                 PROVE  k \in room.members /\ Sees(me', up'[k], c, room, k)
    BY <1>1, <1>3, <1>5 DEF LiveFits, Live, Reads
  <2>2. k \in room.members /\ Has(up'[k], HandRequest)
    BY <1>7, <1>9, <2>1 DEF Live, Reads
  <2>3. PICK u, v, m, w : u = up[k] /\ v = up'[k] /\ m = me /\ w = me'
    OBVIOUS
  <2>4. PICK d \in Seq(DownFrame) : d = down[k] /\ d # <<>> /\ f = Head(d) /\ c = Tail(d)
    BY <1>1, <1>2
  <2>5. f \in Entry /\ k # None
    BY <1>2, <1>4
  <2>6. Entered(m, w, f, k)
    BY <2>3
  <2>8. m.self = None /\ m.roster = {} /\ m.queue = None /\ m.study = None
    BY <1>4, <2>3, WithoutId
  <2>9. Has(v, HandRequest)
    BY <2>2, <2>3
  <2>10. Sees(m, u, d, room, k)
    BY <2>1, <2>2, <2>3, <2>4 DEF ViewFits, LiveFits
  <2>11. Sees(w, v, c, room, k)
    BY <2>4, <2>5, <2>6, <2>8, <2>9, <2>10, EntrySeesRoom
  <2>7. Sees(me', up'[k], c, room, k)
    BY <2>3, <2>11
  <2>. QED
    BY <2>2, <2>7
<1>20. GreetFits'
  BY <1>2, <1>5, NotGreeted
<1>. QED
  BY <1>12, <1>13, <1>14, <1>15, <1>17, <1>18, <1>19, <1>20 DEF ViewFits

LEMMA HandleRoomJoinedFits ==
  ASSUME ViewFits, GreetFits, NoneAssumption, SocketsFit', HandleRoomJoined
  PROVE  ViewFits' /\ GreetFits'
<1>1. PICK k \in Socket, f \in DownFrame, c \in Seq(DownFrame) :
        /\ Taken(k, f, c) /\ f.type = "joined" /\ f = News
        /\ down' = [down EXCEPT ![k] = c]
  BY Takes DEF HandleRoomJoined
<1>2. f \in OkFirst(k) /\ f \in Entry /\ k = me.bound /\ DOMAIN me = Fields /\ None \notin Socket
  BY <1>1, TakenFits, OtherAssumption DEF Ok, Entry
<1>3. f.id = k /\ me.self = None /\ me.status \in {"joining", "reconnecting"}
  <2>1. f.id = k /\ me.self = None
    BY <1>2 DEF OkFirst
  <2>2. ready[k] = "open" /\ Began /\ ~me.disposed
    BY <1>1, <1>2, WithoutId DEF Taken, ViewFits
  <2>. QED
    BY <1>2, <2>1, <2>2 DEF Began
<1>4. PICK t : t = Forget(me.stale, k)
  OBVIOUS
<1>5. PICK raised \in BOOLEAN \cup {None} : raised = IF me.hand THEN TRUE ELSE None
  OBVIOUS
<1>6. /\ me' = [Heard EXCEPT !.stale = t, !.self = k, !.status = "active",
                             !.roster = @ \cup {k} \cup (f.members \ Range(t)), !.task = NoTask]
      /\ known' = known \cup {k}
      /\ up' = Sent(k, up, [type |-> "hand", raised |-> raised]) /\ UNCHANGED ready
  BY <1>1, <1>2, <1>3, <1>4, <1>5 DEF HandleRoomJoined, Send
<1>7. PICK g \in UpFrame : g = [type |-> "hand", raised |-> raised]
  BY FramesMade
<1>8. g \in HandRequest
  BY <1>7 DEF HandRequest
<1>9. /\ me'.bound = me.bound /\ me'.disposed = me.disposed /\ me'.hand = me.hand
      /\ me'.queue = me.queue /\ me'.study = me.study /\ me'.command = me.command
      /\ me'.stale = t /\ me'.self = k /\ me'.status = "active" /\ me'.task = NoTask
      /\ me'.roster = me.roster \cup {k} \cup (f.members \ Range(t))
  BY <1>2, <1>6 DEF Heard, Fields
<1>10. me.roster = {} /\ me.queue = None /\ me.study = None /\ me.command = None
  BY <1>3, WithoutId
<1>11. t \in Seq(Socket) /\ Distinct(t) /\ Range(t) = Range(me.stale)
  <2>1. /\ me.stale \in Seq(Socket) /\ Distinct(me.stale) /\ Range(me.stale) \subseteq known
        /\ k \notin known
    BY <1>2, <1>3 DEF ViewFits, IsClient, Memory, Distinct
  <2>2. t \in Seq(Socket) /\ Distinct(t) /\ Range(t) = Range(me.stale) \ {k}
    BY <1>4, <2>1, Forgets
  <2>. QED
    BY <2>1, <2>2
<1>12. Entered(me, me', f, k)
  BY <1>9, <1>10, <1>11, Tasks DEF Entered
<1>. QED
  BY <1>1, <1>2, <1>6, <1>7, <1>8, <1>12, EnteredFits

-----------------------------------------------------------------------------
(* What a member asks for                                                  *)

\* Nothing but its hand and its command changes, and those with a request on
\* socket k.
Requested(m, w) ==
  /\ w.bound = m.bound /\ w.disposed = m.disposed /\ w.self = m.self /\ w.status = m.status
  /\ w.task = m.task /\ w.stale = m.stale /\ w.roster = m.roster
  /\ w.queue = m.queue /\ w.study = m.study
  /\ w.hand \in BOOLEAN /\ w.command \in {"update", None}
Requests(k, g) ==
  \/ up' = up /\ me'.hand = me.hand /\ me'.command \in {me.command, None}
  \/ /\ up' = Sent(k, up, g)
     /\ me'.hand = me.hand \/ g \in HandRequest
     /\ me'.command \in {me.command, None} \/ g \in Command

\* What is on the way to a member that asks says as much as before.
LEMMA RequestSeen ==
  ASSUME NoneAssumption, NEW d \in Seq(DownFrame), NEW m, m.queue \in Hands \cup {None}, m.self # None,
         NEW w, Requested(m, w), NEW u, NEW v, NEW k, NEW r, IsRoom(r), Sees(m, u, d, r, k),
         Has(u, HandRequest) => Has(v, HandRequest), Has(u, Command) => Has(v, Command),
         w.hand = m.hand \/ Has(v, HandRequest),
         w.command \in {m.command, None} \/ Has(v, Command)
  PROVE  Sees(w, v, d, r, k)
<1>1. /\ w.self = m.self /\ w.status = m.status /\ w.stale = m.stale /\ w.roster = m.roster
      /\ w.queue = m.queue /\ w.study = m.study
  BY DEF Requested
<1>2. /\ SeesMembers(m, d, r.members, k) /\ SeesHands(m, u, d, r.hands, k) /\ SeesStudy(m, d, r.study)
      /\ AwaitsAnswer(m, u, d) /\ Enters(m, u, d)
  BY DEF Sees
<1>3. SeesMembers(w, d, r.members, k) /\ SeesStudy(w, d, r.study)
  BY <1>1, <1>2 DEF SeesMembers, SeesStudy
<1>4. SeesHands(w, v, d, r.hands, k)
  <2>1. PICK h \in Hands \cup {None} : h = r.hands
    BY DEF IsRoom
  <2>2. SeesHands(m, u, d, h, k)
    BY <1>2, <2>1
  <2>3. SeesHands(m, v, d, h, k)
    BY <2>2, HandsSeen
  <2>4. CASE w.hand = m.hand
    BY <1>1, <2>1, <2>3, <2>4 DEF SeesHands
  <2>5. CASE Has(v, HandRequest)
    BY <1>1, <2>1, <2>3, <2>5 DEF SeesHands
  <2>. QED
    BY <2>4, <2>5
<1>5. AwaitsAnswer(w, v, d)
  BY <1>2 DEF AwaitsAnswer
<1>6. Enters(w, v, d)
  BY <1>1, <1>2 DEF Enters
<1>. QED
  BY <1>3, <1>4, <1>5, <1>6 DEF Sees

\* A member that asks still sees the room.
LEMMA RequestFits ==
  ASSUME ViewFits, NoneAssumption, SocketsFit', UNCHANGED <<gens, ready, cut, conn, down, room, known>>,
         NEW k \in Socket, k = me.bound, me.self # None, Requested(me, me'),
         NEW g \in UpFrame, g \in Work, Requests(k, g)
  PROVE  ViewFits' /\ GreetFits'
<1>1. /\ me'.bound = me.bound /\ me'.disposed = me.disposed /\ me'.self = me.self
      /\ me'.status = me.status /\ me'.task = me.task /\ me'.stale = me.stale /\ me'.roster = me.roster
      /\ me'.queue = me.queue /\ me'.study = me.study
      /\ me'.hand \in BOOLEAN /\ me'.command \in {"update", None}
  BY DEF Requested
<1>2. me.task.at = "none" /\ ready[k] = "open" /\ me.self = k
  BY DEF ViewFits, Began
<1>3. Live(k) => k \in room.members
  BY <1>2 DEF ViewFits, LiveFits
<1>4. up \in [Socket -> Seq(UpFrame)] /\ Lines(k)
  BY DEF ViewFits, NetTyped, UpFit
<1>5. g \notin Joining /\ g \notin Ending
  BY DEF Work, Joining, Ending
<1>6. /\ up' \in [Socket -> Seq(UpFrame)] /\ \A j \in Socket : j # k => up'[j] = up[j]
      /\ InOrder(up'[k])
      /\ conn[k] # "open" \/ k \in cut => up'[k] = <<>>
      /\ \A T : Has(up[k], T) => Has(up'[k], T)
      /\ Has(up'[k], Joining) => Has(up[k], Joining)
      /\ Has(up'[k], Ending) => Has(up[k], Ending)
      /\ Has(up'[k], Work) => k \in room.members
      /\ conn[k] = "open" /\ k \notin cut =>
           /\ me'.hand = me.hand \/ Has(up'[k], HandRequest)
           /\ me'.command \in {me.command, None} \/ Has(up'[k], Command)
  <2>1. CASE up' = up /\ me'.hand = me.hand /\ me'.command \in {me.command, None}
    BY <1>4, <2>1 DEF Lines
  <2>2. CASE /\ up' = Sent(k, up, g)
             /\ me'.hand = me.hand \/ g \in HandRequest
             /\ me'.command \in {me.command, None} \/ g \in Command
    <3>1. /\ up' \in [Socket -> Seq(UpFrame)] /\ \A j \in Socket : j # k => up'[j] = up[j]
          /\ InOrder(up'[k])
          /\ conn[k] # "open" \/ k \in cut => up'[k] = <<>> /\ up[k] = <<>>
          /\ conn[k] = "open" /\ k \notin cut => \A T : g \in T => Has(up'[k], T)
          /\ \A T : Has(up[k], T) => Has(up'[k], T)
          /\ \A T : g \notin T /\ Has(up'[k], T) => Has(up[k], T)
          /\ Has(up'[k], Work) => k \in room.members
      BY <1>2, <1>3, <2>2, WorkSent DEF Live, Reads
    <3>. QED
      BY <1>5, <2>2, <3>1
  <2>. QED
    BY <2>1, <2>2 DEF Requests
<1>7. NetTyped' /\ IsRoom(room')
  <2>1. NetTyped /\ IsRoom(room)
    BY DEF ViewFits
  <2>. QED
    BY <1>6, <2>1 DEF NetTyped
<1>8. IsClient(me')
  BY <1>1 DEF ViewFits, IsClient
<1>9. Began'
  <2>1. Began
    BY DEF ViewFits
  <2>. QED
    BY <1>1, <2>1 DEF Began
<1>10. UpFit'
  <2>1. SUFFICES ASSUME NEW j \in Socket PROVE Lines(j)'
    BY DEF UpFit
  <2>2. Lines(j)
    BY DEF ViewFits, UpFit
  <2>3. CASE j # k
    BY <1>6, <2>2, <2>3 DEF Lines, Reads
  <2>4. CASE j = k
    BY <1>6, <2>2, <2>4 DEF Lines, Reads
  <2>. QED
    BY <2>3, <2>4
<1>11. ASSUME NEW x \in Socket, Never(x) PROVE Never(x)'
  BY <1>6, <1>11 DEF Never
<1>12. DownFit'
  <2>1. SUFFICES ASSUME NEW j \in Socket, NEW i \in 1..Len(down[j])
                 PROVE  down[j][i] \in Ok(j)' \/ (i = 1 /\ down[j][1] \in OkFirst(j)')
    BY DEF DownFit
  <2>2. down[j][i] \in Ok(j) \/ (i = 1 /\ down[j][1] \in OkFirst(j))
    BY DEF ViewFits, DownFit
  <2>3. \A f \in Ok(j) : f \in Ok(j)'
    BY <1>11 DEF Ok
  <2>4. \A f : f \notin OkFirst(j)
    BY DEF OkFirst
  <2>. QED
    BY <2>2, <2>3, <2>4
<1>13. Memory'
  <2>1. Memory /\ (Small' <=> Small) /\ known \subseteq Socket
    BY <1>1 DEF ViewFits, Small, NetTyped
  <2>. QED
    BY <1>1, <1>11, <2>1 DEF Memory
<1>14. LiveFits'
  <2>1. SUFFICES ASSUME Live(k)
                 PROVE  k \in room.members /\ Sees(me', up'[k], down[k], room, k)
    BY <1>1 DEF LiveFits, Live, Reads
  <2>2. PICK u, v, m, w : u = up[k] /\ v = up'[k] /\ m = me /\ w = me'
    OBVIOUS
  <2>3. PICK d \in Seq(DownFrame) : d = down[k]
    BY DEF ViewFits, NetTyped
  <2>4. Sees(m, u, d, room, k) /\ k \in room.members
    BY <1>3, <2>1, <2>2, <2>3 DEF ViewFits, LiveFits
  <2>5. m.queue \in Hands \cup {None} /\ m.self # None /\ IsRoom(room)
    BY <2>2 DEF ViewFits, IsClient
  <2>6. /\ Has(u, HandRequest) => Has(v, HandRequest)
        /\ Has(u, Command) => Has(v, Command)
    BY <1>6, <2>2
  <2>7. /\ w.hand = m.hand \/ Has(v, HandRequest)
        /\ w.command \in {m.command, None} \/ Has(v, Command)
    BY <1>6, <2>1, <2>2 DEF Live, Reads
  <2>8. Requested(m, w)
    BY <2>2
  <2>9. Sees(w, v, d, room, k)
    BY <2>4, <2>5, <2>6, <2>7, <2>8, RequestSeen
  <2>10. Sees(me', up'[k], down[k], room, k)
    BY <2>2, <2>3, <2>9
  <2>. QED
    BY <2>4, <2>10
<1>15. GreetFits'
  BY <1>1, NotGreeted
<1>. QED
  BY <1>7, <1>8, <1>9, <1>10, <1>12, <1>13, <1>14, <1>15 DEF ViewFits

\* What the requests of the client are.
LEMMA RequestsMade ==
  /\ \A raised \in BOOLEAN :
       [type |-> "hand", raised |-> raised] \in UpFrame \cap Work \cap HandRequest
  /\ \A id \in RequestId, n \in Nat \cup {None} :
       [type |-> "study", id |-> id, expected |-> n] \in UpFrame \cap Work
  /\ \A n \in Nat \cup {None} :
       [type |-> "study", id |-> "update", expected |-> n] \in Command
<1>1. /\ \A raised \in BOOLEAN : [type |-> "hand", raised |-> raised] \in UpFrame
      /\ \A id \in RequestId, n \in Nat \cup {None} :
           [type |-> "study", id |-> id, expected |-> n] \in UpFrame
  BY FramesMade
<1>2. "update" \in RequestId
  BY DEF RequestId
<1>. QED
  BY <1>1, <1>2 DEF Work, HandRequest, Command

\* A member has an open socket.
LEMMA MemberIsOpen ==
  ASSUME ViewFits, me.status = "active" \/ me.command # None
  PROVE  /\ me.self # None /\ me.bound \in Socket /\ ready[me.bound] = "open" /\ DOMAIN me = Fields
         /\ me.hand \in BOOLEAN /\ me.command \in {"update", None} /\ me.study \in Nat \cup {None}
         /\ ~me.disposed
<1>1. me.self # None
  BY DEF ViewFits, Began
<1>2. me.bound \in Socket /\ ready[me.bound] = "open" /\ ~me.disposed
  <2>1. me.self = me.bound /\ me.self \in Socket \cup {None} /\ me.task.at = "none"
    BY <1>1 DEF ViewFits, Began, IsClient
  <2>. QED
    BY <1>1, <2>1 DEF ViewFits, Began
<1>. QED
  BY <1>1, <1>2, WithoutId DEF ViewFits, IsClient

LEMMA SetHandRaisedFits ==
  ASSUME ViewFits, NoneAssumption, SocketsFit', NEW raised \in BOOLEAN, SetHandRaised(raised)
  PROVE  ViewFits' /\ GreetFits'
<1>1. /\ me.status = "active" /\ me' = [me EXCEPT !.hand = raised]
      /\ up' = Sent(me.bound, up, [type |-> "hand", raised |-> raised])
      /\ UNCHANGED <<gens, ready, cut, conn, down, room, known>>
  BY DEF SetHandRaised, Send, Alone, roomVars
<1>2. PICK k \in Socket : k = me.bound /\ me.self # None /\ DOMAIN me = Fields /\ me.command \in {"update", None}
  BY <1>1, MemberIsOpen
<1>3. PICK g \in UpFrame : g = [type |-> "hand", raised |-> raised] /\ g \in Work /\ g \in HandRequest
  BY RequestsMade
<1>4. Requested(me, me') /\ me'.command = me.command
  BY <1>1, <1>2 DEF Requested, Fields
<1>5. Requests(k, g)
  BY <1>1, <1>2, <1>3, <1>4 DEF Requests
<1>. QED
  BY <1>1, <1>2, <1>3, <1>4, <1>5, RequestFits

LEMMA SyncStudyFits ==
  ASSUME ViewFits, NoneAssumption, SocketsFit', SyncStudy
  PROVE  ViewFits' /\ GreetFits'
<1>1. /\ me.status = "active" /\ me' = [me EXCEPT !.syncing = "sync", !.watch = TRUE]
      /\ up' = Sent(me.bound, up, [type |-> "study", id |-> "sync", expected |-> None])
      /\ UNCHANGED <<gens, ready, cut, conn, down, room, known>>
  BY DEF SyncStudy, SyncWatched, RequestSync, Send, Alone, roomVars
<1>2. PICK k \in Socket : /\ k = me.bound /\ me.self # None /\ DOMAIN me = Fields
                          /\ me.command \in {"update", None} /\ me.hand \in BOOLEAN
  BY <1>1, MemberIsOpen
<1>3. PICK g \in UpFrame : g = [type |-> "study", id |-> "sync", expected |-> None] /\ g \in Work
  BY RequestsMade DEF RequestId
<1>4. Requested(me, me') /\ me'.command = me.command /\ me'.hand = me.hand
  BY <1>1, <1>2 DEF Requested, Fields
<1>5. Requests(k, g)
  BY <1>1, <1>2, <1>3, <1>4 DEF Requests
<1>. QED
  BY <1>1, <1>2, <1>3, <1>4, <1>5, RequestFits

LEMMA UpdateStudyFits ==
  ASSUME ViewFits, NoneAssumption, SocketsFit', UpdateStudy
  PROVE  ViewFits' /\ GreetFits'
<1>1. /\ me.status = "active" /\ me' = [me EXCEPT !.command = "update"]
      /\ up' = Sent(me.bound, up, [type |-> "study", id |-> "update", expected |-> me.study])
      /\ UNCHANGED <<gens, ready, cut, conn, down, room, known>>
  BY DEF UpdateStudy, Send, Alone, roomVars
<1>2. PICK k \in Socket : /\ k = me.bound /\ me.self # None /\ DOMAIN me = Fields
                          /\ me.hand \in BOOLEAN /\ me.study \in Nat \cup {None}
  BY <1>1, MemberIsOpen
<1>3. PICK g \in UpFrame : /\ g = [type |-> "study", id |-> "update", expected |-> me.study]
                           /\ g \in Work /\ g \in Command
  BY <1>2, RequestsMade DEF RequestId
<1>4. Requested(me, me') /\ me'.hand = me.hand
  BY <1>1, <1>2 DEF Requested, Fields
<1>5. Requests(k, g)
  BY <1>1, <1>2, <1>3, <1>4 DEF Requests
<1>. QED
  BY <1>1, <1>2, <1>3, <1>4, <1>5, RequestFits

LEMMA CommandTimerFits ==
  ASSUME ViewFits, NoneAssumption, SocketsFit', CommandTimer
  PROVE  ViewFits' /\ GreetFits'
<1>1. /\ me.command # None /\ UNCHANGED <<gens, ready, cut, conn, down, room, known>>
      /\ \/ /\ up' = Sent(me.bound, up, [type |-> "study", id |-> "sync", expected |-> None])
            /\ me' = [me EXCEPT !.command = None, !.syncing = "sync"]
         \/ me' = [me EXCEPT !.command = None] /\ up' = up
  BY DEF CommandTimer, Send, Alone, roomVars
<1>2. PICK k \in Socket : /\ k = me.bound /\ me.self # None /\ DOMAIN me = Fields
                          /\ me.command \in {"update", None} /\ me.hand \in BOOLEAN
  BY <1>1, MemberIsOpen
<1>3. PICK g \in UpFrame : g = [type |-> "study", id |-> "sync", expected |-> None] /\ g \in Work
  BY RequestsMade DEF RequestId
<1>4. Requested(me, me') /\ me'.command = None /\ me'.hand = me.hand
  BY <1>1, <1>2 DEF Requested, Fields
<1>5. Requests(k, g)
  BY <1>1, <1>2, <1>3, <1>4 DEF Requests
<1>. QED
  BY <1>1, <1>2, <1>3, <1>4, <1>5, RequestFits

LEMMA LivenessTimerFits ==
  ASSUME ViewFits, NoneAssumption, SocketsFit', LivenessTimer
  PROVE  ViewFits' /\ GreetFits'
<1>1. /\ me.status = "active" /\ UNCHANGED <<gens, cut, conn, room, known>>
      /\ \/ me' = BeginReconnect(me) /\ CloseSocket(up)
         \/ /\ up' = Sent(me.bound, up, [type |-> "study", id |-> "again", expected |-> None])
            /\ me' = [me EXCEPT !.syncing = "again"]
            /\ UNCHANGED <<ready, down>>
  BY DEF LivenessTimer, Send, roomVars
<1>2. PICK k \in Socket : /\ k = me.bound /\ me.self # None /\ DOMAIN me = Fields
                          /\ me.command \in {"update", None} /\ me.hand \in BOOLEAN /\ ~me.disposed
  BY <1>1, MemberIsOpen
<1>3. CASE me' = BeginReconnect(me) /\ CloseSocket(up)
  BY <1>1, <1>2, <1>3, TimedOutFits
<1>4. CASE /\ up' = Sent(me.bound, up, [type |-> "study", id |-> "again", expected |-> None])
           /\ me' = [me EXCEPT !.syncing = "again"]
           /\ UNCHANGED <<ready, down>>
  <2>1. PICK g \in UpFrame : g = [type |-> "study", id |-> "again", expected |-> None] /\ g \in Work
    BY RequestsMade DEF RequestId
  <2>2. Requested(me, me') /\ me'.command = me.command /\ me'.hand = me.hand
    BY <1>2, <1>4 DEF Requested, Fields
  <2>3. Requests(k, g)
    BY <1>2, <1>4, <2>1, <2>2 DEF Requests
  <2>. QED
    BY <1>1, <1>2, <1>4, <2>1, <2>2, <2>3, RequestFits
<1>. QED
  BY <1>1, <1>3, <1>4

-----------------------------------------------------------------------------
(* The room and what the client shows                                      *)

LEMMA InitViewFits == Init => ViewFits /\ GreetFits
<1>. SUFFICES ASSUME Init PROVE ViewFits /\ GreetFits
  OBVIOUS
<1>. USE LimitAssumption, OtherAssumption
<1>1. /\ me.status = "idle" /\ ~me.disposed /\ me.task = NoTask /\ me.bound = None /\ me.self = None
      /\ me.stale = <<>> /\ me.roster = {} /\ me.hand = FALSE
      /\ me.queue = None /\ me.study = None /\ me.command = None /\ DOMAIN me = Fields /\ ~me.watch
  BY DEF Init, Fields
<1>2. /\ gens = 0 /\ ready = [k \in Socket |-> "none"] /\ cut = {} /\ known = {}
      /\ conn = [k \in Socket |-> "none"]
      /\ up = [k \in Socket |-> <<>>] /\ down = [k \in Socket |-> <<>>]
      /\ room = [members |-> {}, hands |-> None, study |-> None]
  BY DEF Init
<1>3. SocketsFit
  BY <1>1, <1>2 DEF SocketsFit, IsSession, IsTask, NoTask
<1>4. NetTyped /\ IsRoom(room)
  <2>1. <<>> \in Seq(UpFrame) /\ <<>> \in Seq(DownFrame)
    OBVIOUS
  <2>. QED
    BY <1>2, <2>1 DEF NetTyped, IsRoom
<1>5. IsClient(me) /\ Began
  <2>1. me.task.kind = "none" /\ me.task.at = "none" /\ <<>> \in Seq(Socket) /\ FALSE \in BOOLEAN
    BY <1>1, Tasks
  <2>2. IsClient(me)
    BY <1>1, <2>1 DEF IsClient
  <2>3. Began
    BY <1>1, <1>2, <2>1 DEF Began
  <2>. QED
    BY <2>2, <2>3
<1>6. UpFit
  <2>1. \A T : ~Has(<<>>, T)
    BY DEF Has
  <2>2. InOrder(<<>>)
    BY DEF InOrder
  <2>. QED
    BY <1>2, <2>1, <2>2 DEF UpFit, Lines
<1>7. DownFit
  BY <1>2 DEF DownFit
<1>8. Memory
  BY <1>1, <1>2 DEF Memory, Range
<1>9. LiveFits /\ GreetFits
  BY <1>2 DEF LiveFits, Live, Reads, GreetFits, Greeted
<1>. QED
  BY <1>3, <1>4, <1>5, <1>6, <1>7, <1>8, <1>9 DEF ViewFits

LEMMA StillFits ==
  ASSUME ViewFits, GreetFits, UNCHANGED vars
  PROVE  ViewFits' /\ GreetFits'
<1>1. UNCHANGED <<me, gens, ready, cut, conn, up, down, room, known>>
  BY DEF vars, netVars, roomVars
<1>2. SocketsFit' /\ NetTyped' /\ IsRoom(room') /\ IsClient(me')
  BY <1>1 DEF ViewFits, SocketsFit, NetTyped
<1>3. Began'
  BY <1>1 DEF ViewFits, Began
<1>4. UpFit'
  BY <1>1 DEF ViewFits, UpFit, Lines, Reads
<1>5. (\A x : Never(x)' <=> Never(x)) /\ (Small' <=> Small)
  BY <1>1 DEF Never, Small
<1>6. DownFit'
  <2>1. \A k \in Socket : Ok(k)' = Ok(k) /\ OkFirst(k)' = OkFirst(k)
    BY <1>1, <1>5 DEF Ok, OkFirst
  <2>. QED
    BY <1>1, <2>1 DEF ViewFits, DownFit
<1>7. Memory'
  BY <1>1, <1>5 DEF ViewFits, Memory
<1>8. LiveFits' /\ GreetFits'
  BY <1>1 DEF ViewFits, LiveFits, Live, Reads, GreetFits, Greeted
<1>. QED
  BY <1>2, <1>3, <1>4, <1>6, <1>7, <1>8 DEF ViewFits

LEMMA NextViewFits == ViewFits /\ GreetFits /\ [Next]_vars => ViewFits' /\ GreetFits'
<1>. SUFFICES ASSUME ViewFits, GreetFits, [Next]_vars PROVE ViewFits' /\ GreetFits'
  OBVIOUS
<1>. USE NoneAssumption, OtherAssumption
<1>1. SocketsFit'
  BY NextFits DEF ViewFits
<1>2. CASE Task
  BY <1>1, <1>2, EndBeforeFits, RejectBeforeFits, OpenFits, RejectOpeningFits, DelayTimerFits DEF Task
<1>3. CASE Message
  BY <1>1, <1>3, HandleRoomJoinedFits, HandlePeerJoinedFits, HandlePeerLeftFits, HandleHandStateFits,
     HandleStudyStateFits, HandleErrorFits, HandleCloseFits
  DEF Message
<1>4. CASE Join \/ Leave \/ NoticeCut
  BY <1>1, <1>4, JoinFits, LeaveFits, HandleCloseFits
<1>5. CASE (\E raised \in BOOLEAN : SetHandRaised(raised))
           \/ SyncStudy \/ UpdateStudy \/ CommandTimer \/ LivenessTimer
  BY <1>1, <1>5, SetHandRaisedFits, SyncStudyFits, UpdateStudyFits, CommandTimerFits, LivenessTimerFits
<1>6. CASE \/ \E k \in Socket : Server(k) \/ RefuseJoin(k) \/ Cut(k)
           \/ \E q \in Others : OtherJoins(q) \/ OtherLeaves(q) \/ OtherCommands(q)
           \/ OtherTabJoins \/ Restart
  BY <1>6, RoomStepFits, RoomStepGreets
<1>7. CASE UNCHANGED vars
  BY <1>7, StillFits
<1>. QED
  BY <1>2, <1>3, <1>4, <1>5, <1>6, <1>7 DEF Next

\* A member to which nothing is on its way sees the room as it is.
LEMMA QuietSees ==
  ASSUME ViewFits, Quiet
  PROVE  /\ me.self \in room.members /\ me.roster = room.members \ Range(me.stale)
         /\ me.queue = room.hands /\ (me.hand <=> me.self \in room.hands.raised)
         /\ me.study # None => me.study = room.study /\ me.command = None
<1>1. me.self # None /\ me.self = me.bound /\ me.self \in Socket
  BY DEF Quiet, ViewFits, Began, IsClient
<1>2. PICK k \in Socket : k = me.self /\ k = me.bound
  BY <1>1
<1>3. /\ up[k] = <<>> /\ down[k] = <<>> /\ Live(k) /\ me.status = "active"
  BY <1>2 DEF Quiet, IsOpen, Live, Reads
<1>4. k \in room.members /\ Sees(me, <<>>, <<>>, room, k)
  BY <1>1, <1>3 DEF ViewFits, LiveFits
<1>5. /\ SeesMembers(me, <<>>, room.members, k) /\ SeesHands(me, <<>>, <<>>, room.hands, k)
      /\ SeesStudy(me, <<>>, room.study) /\ AwaitsAnswer(me, <<>>, <<>>) /\ k \in me.roster
  BY <1>1, <1>2, <1>4 DEF Sees, Enters
<1>6. \A T : ~Has(<<>>, T)
  BY DEF Has
<1>7. \A J, L : \A b \in BOOLEAN : Ends(<<>>, J, L, b) => b
  BY DEF Ends
<1>8. me.roster = room.members \ Range(me.stale)
  <2>1. /\ me.roster \subseteq Peer /\ room.members \subseteq Peer
        /\ me.self \notin Range(me.stale) /\ me.roster \cap Range(me.stale) = {}
    BY DEF ViewFits, IsClient, IsRoom, Memory
  <2>2. ASSUME NEW q \in Peer, q # k
        PROVE  /\ q \in room.members => q \in me.roster \cup Range(me.stale)
               /\ q \notin room.members => q \notin me.roster
    BY <1>5, <2>2 DEF SeesMembers, Ends
  <2>. QED
    BY <1>2, <1>4, <1>5, <2>1, <2>2
<1>9. me.queue = room.hands /\ (me.hand <=> k \in room.hands.raised)
  BY <1>3, <1>5, <1>6 DEF SeesHands, Ends
<1>10. me.study # None => me.study = room.study /\ me.command = None
  BY <1>5, <1>6 DEF SeesStudy, AwaitsAnswer, Ends
<1>. QED
  BY <1>2, <1>4, <1>8, <1>9, <1>10

\* What the client shows is the room: whatever it has missed, been told twice or
\* asked for while sockets, members and the server came and went, once nothing is
\* on its way it is a member, shows the members but for its earlier selves, the
\* hands with its own and the study it has asked for, and it never shows an
\* earlier self (#handleRoomJoined, #rememberStaleSelfId, #handleHandState and
\* RoomStudy.applyState with SignalingService.join and removePeerFromRoom).
THEOREM ClientSeesTheRoom == Spec => []ViewAgrees
<1>1. ViewFits => NeverItself
  <2>. SUFFICES ASSUME ViewFits, Cardinality(known) <= MaxStale + 1, NEW x \in known \ {me.self}
                PROVE  x \notin me.roster
    BY DEF NeverItself
  <2>1. CASE me.self = None
    BY <2>1 DEF ViewFits, Began
  <2>2. CASE me.self # None
    <3>1. Small /\ ~me.disposed
      BY <2>2 DEF Small, ViewFits, Began
    <3>2. x \in Range(me.stale) \/ x \notin me.roster
      BY <3>1 DEF ViewFits, Memory
    <3>3. me.roster \cap Range(me.stale) = {}
      BY DEF ViewFits, Memory
    <3>. QED
      BY <3>2, <3>3
  <2>. QED
    BY <2>1, <2>2
<1>2. ViewFits => RosterAgrees /\ HandsAgree /\ StudyAgrees
  BY QuietSees DEF RosterAgrees, HandsAgree, StudyAgrees
<1>3. ViewFits => ViewAgrees
  BY <1>1, <1>2 DEF ViewAgrees
<1>. QED
  BY <1>3, InitViewFits, NextViewFits, PTL DEF Spec
=============================================================================
