----------------------------- MODULE LocalMedia -----------------------------
(***************************************************************************)
(* The media of a participant in a room: ScreenShareLifecycle and          *)
(* LocalInputLifecycle, wired together by RoomSession.  Sharing the        *)
(* screen, going back to the camera and choosing another device each put   *)
(* another track on the sender of every connection, one after the other,   *)
(* waiting for each; connections come, go and are replaced meanwhile, and  *)
(* the host may turn the camera or the microphone off.                     *)
(*                                                                         *)
(* A step runs the code up to its next await.  The code visits the         *)
(* connections in the order of a Map to which new ones are added while it  *)
(* is iterated; here the order is any.  The quality of the video, which    *)
(* follows every replacement, and the negotiation of a connection, of      *)
(* which only the request for a new offer is kept, are elsewhere.          *)
(***************************************************************************)
EXTENDS MediaTracks

CONSTANTS
  Peer,       \* the other participants
  Scenarios   \* bound: sets of events that happen together, each once

\* What happens: the user shares, stops, chooses a device, turns one on or
\* off; the browser refuses, ends a track, fails to replace one; the host turns
\* one off; a peer comes, leaves, gets another connection; the signaling is
\* lost, or the room left.
Event ==
  ({"share", "share again", "stop", "end screen", "fail", "fail again", "refuse", "drop", "leave"}
      \X {None})
    \cup ({"select", "toggle", "toggle back", "moderate", "end input"} \X Kind)
    \cup ({"comes", "goes", "replaced"} \X Peer)

ASSUME LocalMediaAssumption ==
  IsFiniteSet(Peer) /\ Scenarios \subseteq SUBSET Event /\ None \notin Peer \X Nat

VARIABLES
  room,    \* #status of the session: "none", "active", "reconnecting", "over"
  stream,  \* #localStream: None or its tracks
  peer,    \* [Peer -> its connection]
  share,   \* the fields of ScreenShareLifecycle
  input,   \* #lastEnabled of LocalInputLifecycle
  job,     \* [{"share", "input"} -> the start or stop, the selection]
  barred,  \* kinds that the host has turned off and the user not on again
  spent    \* events that have happened

mediaVars == <<track, room, stream, peer, share, input, job, barred, spent>>

-----------------------------------------------------------------------------
(* The state as a value, which the code changes up to its next await       *)

World ==
  [track |-> track, room |-> room, stream |-> stream, peer |-> peer, share |-> share,
   input |-> input, job |-> job, barred |-> barred]

Becomes(w) ==
  /\ track' = w.track /\ room' = w.room /\ stream' = w.stream /\ peer' = w.peer
  /\ share' = w.share /\ input' = w.input /\ job' = w.job /\ barred' = w.barred

Can(e) == e \notin spent /\ \E s \in Scenarios : spent \cup {e} \subseteq s
Spend(e) == Can(e) /\ spent' = spent \cup {e}

NoJob ==
  [phase |-> "none", kind |-> "video", new |-> 0, on |-> FALSE, before |-> 0, put |-> 0,
   at |-> None, todo |-> {}, seen |-> {}, updates |-> {}, failed |-> {}]
NoShare ==
  [mine |-> FALSE, pending |-> 0, active |-> 0, retained |-> {}, created |-> FALSE,
   bare |-> FALSE, disables |-> FALSE]

StreamOf(w) == IF w.stream = None THEN {} ELSE w.stream
Live(w, t) == t # 0 /\ w.track[t].live
InStream(w, kind) == OfKind(w.track, StreamOf(w), kind)
One(ts) == IF ts = {} THEN 0 ELSE CHOOSE t \in ts : TRUE

\* Tracks that the session owns; tracks that anything refers to.
Owned(w) ==
  (StreamOf(w) \cup w.share.retained \cup {w.share.pending, w.share.active, w.job["input"].new})
    \ {0}
Known(w) ==
  Owned(w) \cup {w.peer[p].sender[k] : p \in Peer, k \in Kind}
    \cup UNION {{w.job[j].before, w.job[j].put} \cup {u.before : u \in w.job[j].updates} :
                  j \in {"share", "input"}}

-----------------------------------------------------------------------------
(* Connections                                                             *)

\* A connection: its number, [Kind -> track that is sent, 0 for a sender without
\* one, or None], whether an offer will be made, what the last one described,
\* and whether a rollback has dropped the request for one.
\* #ensurePeer adds every track of the stream to the connection.
Connection(w, n) ==
  LET sender == [k \in Kind |-> IF InStream(w, k) = {} THEN None ELSE One(InStream(w, k))]
  IN [n |-> n, here |-> TRUE, sender |-> sender,
      offers |-> FALSE, offered |-> {k \in Kind : sender[k] # None}, dropped |-> FALSE]

NoConnection(n) ==
  [n |-> n, here |-> FALSE, sender |-> [k \in Kind |-> None],
   offers |-> FALSE, offered |-> {}, dropped |-> FALSE]

Current(w) == {<<p, w.peer[p].n>> : p \in {q \in Peer : w.peer[q].here}}
Sender(w, c, kind) == w.peer[c[1]].sender[kind]
Sends(w, c, kind, t) == [w EXCEPT !.peer[c[1]].sender[kind] = t]

\* Fault: a connection on which a replacement failed is kept.
KeptAnyway(w, cs) == w

\* recoverAfterSenderFailure: another connection for each of cs that is current.
Recovered(w, cs) ==
  IF w.room = "over" THEN w
  ELSE [w EXCEPT !.peer = [p \in Peer |-> IF <<p, @[p].n>> \in cs \cap Current(w)
                                          THEN Connection(w, @[p].n + 1) ELSE @[p]]]

\* addTrack
Adds(w, j, cs) ==
  LET at == w.job[j]
  IN [w EXCEPT
       !.peer = [p \in Peer |-> IF <<p, @[p].n>> \in cs
                                THEN [@[p] EXCEPT !.sender[at.kind] = at.new] ELSE @[p]],
       !.job[j].seen = @ \cup cs,
       !.job[j].updates = @ \cup {[c |-> c, before |-> 0, added |-> TRUE] : c \in cs}]

\* Fault: an added sender waits for an offer made for another reason.
Unrequested(w, updates) == w

\* requestLocalRenegotiation for the connections where a sender was added
Renegotiated(w, updates) ==
  LET cs == {u.c : u \in {v \in updates : v.added}}
  IN [w EXCEPT !.peer = [p \in Peer |-> IF <<p, @[p].n>> \in cs /\ @[p].here
                                        THEN [@[p] EXCEPT !.offers = TRUE] ELSE @[p]]]

\* removeTrack, in rollbackSenderUpdates
Removes(w, j, us) ==
  LET cs == {u.c : u \in us}
  IN [w EXCEPT
       !.peer = [p \in Peer |-> IF <<p, @[p].n>> \in cs /\ @[p].here
                                THEN [@[p] EXCEPT !.sender[w.job[j].kind] = None,
                                                  !.dropped = w.peer[p].dropped \/ w.peer[p].offers,
                                                  !.offers = FALSE] ELSE @[p]],
       !.job[j].updates = @ \ us]

-----------------------------------------------------------------------------
(* Putting a track on every sender                                         *)

\* disableCameraTracks
CamerasOff(w) ==
  [w EXCEPT !.track = Switched(@, (w.share.retained \cup InStream(w, "video"))
                                    \ {w.share.active, w.share.pending}, FALSE)]

OwnsStart(w) ==
  w.room = "active" /\ w.share.mine /\ Live(w, w.share.pending) /\ w.share.active = 0
OwnsStop(w) == w.room # "over"

Ended(w, j) == Recovered([w EXCEPT !.job[j] = NoJob], w.job[j].failed)

\* The share is on: what is left of #performStart.
StartCommitted(w) ==
  LET new == w.share.pending
      cameras == InStream(w, "video")
      on == [w EXCEPT !.stream = (StreamOf(w) \ cameras) \cup {new},
                      !.share.retained = cameras, !.share.pending = 0, !.share.active = new,
                      !.share.created = w.share.bare]
  IN Ended(Renegotiated(on, w.job["share"].updates), "share")

\* The new device is in use: what is left of select.
InputCommitted(w) ==
  LET at == w.job["input"]
      old == InStream(w, at.kind)
      on == [w EXCEPT !.track = [Stopped(@, old) EXCEPT ![at.new].on = at.on],
                      !.stream = (StreamOf(w) \ old) \cup {at.new},
                      !.input[at.kind] = at.on]
  IN Ended(Renegotiated(on, at.updates), "input")

Committed(w, j) == IF j = "share" THEN StartCommitted(w) ELSE InputCommitted(w)

\* rollbackSenderUpdates, and what follows it.
UndoneShare(w) == Ended([w EXCEPT !.share.pending = 0], "share")

\* One connection is asked to take back the track it had, with some of the
\* added senders removed before.
AsksBack(w, j, u, some) ==
  [Removes(w, j, some) EXCEPT !.job[j].at = u.c, !.job[j].put = u.before, !.job[j].updates = @ \ {u}]

Undo(w, j) ==
  LET ups == {u \in w.job[j].updates : u.c \in Current(w)}
      added == {u \in ups : u.added}
  IN IF ups = added
     THEN LET done == Removes(w, j, added)
          IN {IF j = "share" THEN UndoneShare(done) ELSE Ended(done, "input")}
     ELSE {AsksBack(w, j, u, some) : u \in ups \ added, some \in SUBSET added}

Abandon(w, j) ==
  Undo([w EXCEPT !.track = Stopped(@, {w.job[j].new} \ {0}), !.job[j].phase = "undoing",
                 !.job[j].failed = IF j = "share" THEN @ ELSE {}], j)

\* One connection is asked to send the track, with some senders added before.
Asks(w, j, c, some) ==
  [Adds(w, j, some) EXCEPT !.job[j].at = c, !.job[j].seen = @ \cup {c}]

\* The loop over getPeers() of a start or a selection.
Sweep(w, j) ==
  LET open == Current(w) \ w.job[j].seen
      bare == {c \in open : Sender(w, c, w.job[j].kind) = None}
  IN IF open = bare THEN {Committed(Adds(w, j, bare), j)}
     ELSE {Asks(w, j, c, some) : c \in open \ bare, some \in SUBSET bare}

\* The loop of #performStop, over the connections there were, and its end.
StopSweep(w) ==
  LET open == {c \in w.job["share"].todo \cap Current(w) : Sender(w, c, "video") # None}
  IN IF open = {}
     THEN LET off == IF w.share.disables THEN CamerasOff(w) ELSE w
          IN {Ended([off EXCEPT !.share = [NoShare EXCEPT !.mine = w.share.mine]], "share")}
     ELSE {[w EXCEPT !.job["share"].at = c, !.job["share"].todo = open \ {c}] : c \in open}

\* The code goes on after an await.
Resume(w, j) ==
  CASE w.job[j].phase = "starting" -> IF OwnsStart(w) THEN Sweep(w, j) ELSE Abandon(w, j)
    [] w.job[j].phase = "stopping" -> IF OwnsStop(w) THEN StopSweep(w) ELSE {Ended(w, j)}
    [] w.job[j].phase = "replacing" ->
         IF w.room = "over" \/ ~Live(w, w.job[j].new) THEN Abandon(w, j) ELSE Sweep(w, j)
    [] w.job[j].phase = "undoing" -> Undo(w, j)

Waiting(j) == job[j].at # None

\* The replacement that is waited for is settled by the browser, or by
\* waitForPeerMedia once the connection is closed.
Settling(j) == Waiting(j) /\ job[j].at \in Current(World)

\* Fault: what a closed connection was asked for is waited for.
ForgottenWait(j) == FALSE

WaitIsClosed(j) == Waiting(j) /\ job[j].at \notin Current(World)

Arrived(j) == [World EXCEPT !.job[j].at = None]

\* replaceTrack is done.
Replaced(j) ==
  LET c == job[j].at
      had == Sender(World, c, job[j].kind)
      before == IF had = 0 /\ j = "share" THEN job[j].before ELSE had
      done == Sends(Arrived(j), c, job[j].kind, job[j].put)
  IN /\ Settling(j)
     /\ \E w \in Resume(IF job[j].phase \in {"starting", "replacing"}
                        THEN [done EXCEPT !.job[j].updates =
                                @ \cup {[c |-> c, before |-> before, added |-> FALSE]}]
                        ELSE done, j) : Becomes(w)
     /\ UNCHANGED spent

\* replaceTrack rejects.
ReplaceFails(j) ==
  LET c == job[j].at
      failed == [Arrived(j) EXCEPT !.job[j].failed = @ \cup {c}]
  IN /\ Settling(j)
     /\ Spend(<<"fail", None>>) \/ Spend(<<"fail again", None>>)
     /\ \E w \in IF job[j].phase = "replacing" THEN Abandon(failed, j) ELSE Resume(failed, j) :
          Becomes(w)

\* The connection was closed: waitForPeerMedia gives up.
ReplaceLost(j) ==
  /\ WaitIsClosed(j)
  /\ \E w \in Resume(Arrived(j), j) : Becomes(w)
  /\ UNCHANGED spent

-----------------------------------------------------------------------------
(* The screen                                                              *)

\* startScreenShare
StartShare ==
  /\ room = "active" /\ job["input"].phase = "none"
  /\ job["share"].phase = "none" /\ share.active = 0
  /\ Spend(<<"share", None>>) \/ Spend(<<"share again", None>>)
  /\ share' = [share EXCEPT !.mine = TRUE]
  /\ job' = [job EXCEPT !["share"] = [NoJob EXCEPT !.phase = "prompt"]]
  /\ UNCHANGED <<track, room, stream, peer, input, barred>>

\* getDisplayMedia has no track to give.
ShareRefused ==
  /\ job["share"].phase = "prompt" /\ Spend(<<"refuse", None>>)
  /\ job' = [job EXCEPT !["share"] = NoJob]
  /\ UNCHANGED <<track, room, stream, peer, share, input, barred>>

ShareGranted ==
  /\ job["share"].phase = "prompt" /\ Spare(track, Known(World)) # {}
  /\ LET new == Unused(track, Known(World))
         given == [World EXCEPT !.track[new] = NewTrack("video", TRUE, TRUE),
                                !.share.pending = new, !.share.bare = stream = None,
                                !.job["share"] = [NoJob EXCEPT !.phase = "starting", !.new = new,
                                    !.put = new, !.before = One(InStream(World, "video"))]]
     IN \E w \in IF OwnsStart(given) THEN Resume(given, "share")
                 ELSE {[World EXCEPT !.job["share"] = NoJob]} : Becomes(w)
  /\ UNCHANGED spent

\* cancelPendingStart
CancelStart(w, disables) ==
  IF w.job["share"].phase = "none" \/ w.share.active # 0 THEN w
  ELSE LET off == IF disables THEN CamerasOff([w EXCEPT !.share.mine = FALSE])
                  ELSE [w EXCEPT !.share.mine = FALSE]
       IN [off EXCEPT !.track = Stopped(@, {w.share.pending} \ {0})]

\* stop
BeginStop(w, disables) ==
  LET off == IF disables THEN CamerasOff(w) ELSE w
      cameras == OfKind(w.track, w.share.retained, "video")
      left == (StreamOf(w) \ {w.share.active}) \cup cameras
      back == IF w.stream = None \/ (w.share.created /\ left = {}) THEN None ELSE left
  IN StopSweep([off EXCEPT
       !.track = Stopped(@, {w.share.active}), !.stream = back,
       !.share.disables = disables, !.share.mine = FALSE,
       !.job["share"] = [NoJob EXCEPT !.phase = "stopping", !.put = One(cameras),
                                      !.todo = Current(w)]])

Stop(w, disables) ==
  IF w.room = "over" THEN {w}
  ELSE IF w.job["share"].phase = "stopping"
       THEN {IF disables /\ ~w.share.disables
             THEN CamerasOff([w EXCEPT !.share.disables = TRUE]) ELSE w}
  ELSE IF w.share.active = 0 THEN {CancelStart(w, disables)}
  ELSE BeginStop(w, disables)

StopShare ==
  /\ Spend(<<"stop", None>>)
  /\ \E w \in Stop(World, FALSE) : Becomes(w)

\* The user ends the share in the browser: at once if it is on, noticed after
\* the next await if it is starting.
ScreenEnds ==
  /\ Spend(<<"end screen", None>>)
  /\ \/ /\ Live(World, share.pending)
        /\ track' = Stopped(track, {share.pending})
        /\ UNCHANGED <<room, stream, peer, share, input, job, barred>>
     \/ /\ Live(World, share.active)
        /\ \E w \in Stop(World, FALSE) : Becomes(w)

-----------------------------------------------------------------------------
(* Camera and microphone                                                   *)

\* select
SelectDevice(kind) ==
  /\ room = "active" /\ job["input"].phase = "none" /\ job["share"].phase = "none"
  /\ kind = "video" => ~Live(World, share.active)
  /\ Spend(<<"select", kind>>)
  /\ LET now == InStream(World, kind)
     IN job' = [job EXCEPT !["input"] = [NoJob EXCEPT !.phase = "prompt", !.kind = kind,
                  !.on = IF now = {} THEN input[kind] ELSE AnyOn(track, now)]]
  /\ UNCHANGED <<track, room, stream, peer, share, input, barred>>

DeviceDenied ==
  /\ job["input"].phase = "prompt" /\ Spend(<<"refuse", None>>)
  /\ job' = [job EXCEPT !["input"] = NoJob]
  /\ UNCHANGED <<track, room, stream, peer, share, input, barred>>

\* getUserMedia has a track: it is off until every sender has it.
DeviceGiven ==
  /\ job["input"].phase = "prompt" /\ Spare(track, Known(World)) # {}
  /\ LET new == Unused(track, Known(World))
         at == job["input"]
         given == [World EXCEPT !.track[new] = NewTrack(at.kind, FALSE, FALSE),
                                !.job["input"] = [NoJob EXCEPT !.phase = "replacing",
                                    !.kind = at.kind, !.on = at.on, !.new = new, !.put = new]]
     IN \E w \in IF room = "over" THEN {[World EXCEPT !.job["input"] = NoJob]}
                 ELSE Resume(given, "input") : Becomes(w)
  /\ UNCHANGED spent

\* setDesiredEnabled
Desired(w, kind, on) ==
  [w EXCEPT !.input[kind] = on,
            !.job["input"].on = IF w.job["input"].phase # "none" /\ w.job["input"].kind = kind
                                THEN on ELSE @]

\* toggle
Toggle(kind) ==
  LET ts == InStream(World, kind)
      on == ~AnyOn(track, ts)
      set == Desired(World, kind, on)
  IN /\ kind = "video" => share.active = 0
     /\ ts # {}
     /\ Spend(<<"toggle", kind>>) \/ Spend(<<"toggle back", kind>>)
     /\ Becomes([set EXCEPT !.track = Switched(@, ts, on),
                            !.barred = IF on THEN @ \ {kind} ELSE @])

\* Fault: a selection under way is not told what the host turned off.
ModeratedNow(kind) == [World EXCEPT !.input[kind] = FALSE, !.barred = @ \cup {kind}]

\* #handleModerationMediaDisabled, before it looks at the tracks
Moderated(kind) == [Desired(World, kind, FALSE) EXCEPT !.barred = @ \cup {kind}]

Moderate(kind) ==
  LET told == Moderated(kind)
  IN /\ room = "active" /\ Spend(<<"moderate", kind>>)
     /\ \E w \in
          IF kind = "audio" THEN {[told EXCEPT !.track = Switched(@, InStream(told, kind), FALSE)]}
          ELSE IF told.job["share"].phase # "none" /\ share.active = 0
               THEN {CancelStart(told, TRUE)}
          ELSE IF share.active # 0 THEN Stop(told, TRUE)
          ELSE {CamerasOff(told)} : Becomes(w)

\* A device is lost: #handleTrackEnded, or what select sees of its new track.
InputEnds(kind) ==
  LET ts == {t \in Owned(World) : Live(World, t) /\ track[t].kind = kind /\ ~track[t].screen}
  IN /\ \E t \in ts :
          /\ track' = Stopped(track, {t})
          /\ stream' = IF stream = None THEN None ELSE stream \ {t}
          /\ share' = [share EXCEPT !.retained = @ \ {t}]
     /\ Spend(<<"end input", kind>>)
     /\ UNCHANGED <<room, peer, input, job, barred>>

-----------------------------------------------------------------------------
(* Peers and the room                                                      *)

PeerComes(p) ==
  /\ room = "active" /\ ~peer[p].here /\ Spend(<<"comes", p>>)
  /\ peer' = [peer EXCEPT ![p] = Connection(World, @.n + 1)]
  /\ UNCHANGED <<track, room, stream, share, input, job, barred>>

PeerGoes(p) ==
  /\ peer[p].here /\ Spend(<<"goes", p>>)
  /\ peer' = [peer EXCEPT ![p] = NoConnection(@.n)]
  /\ UNCHANGED <<track, room, stream, share, input, job, barred>>

\* #replacePeer for a reason of its own
PeerReplaced(p) ==
  /\ peer[p].here /\ Spend(<<"replaced", p>>)
  /\ peer' = [peer EXCEPT ![p] = Connection(World, @.n + 1)]
  /\ UNCHANGED <<track, room, stream, share, input, job, barred>>

\* drainRenegotiation: the offer describes every sender.
Offer(p) ==
  /\ peer[p].here /\ peer[p].offers
  /\ peer' = [peer EXCEPT ![p].offers = FALSE, ![p].dropped = FALSE,
                          ![p].offered = {k \in Kind : peer[p].sender[k] # None}]
  /\ UNCHANGED <<track, room, stream, share, input, job, barred, spent>>

\* #beginReconnect: no connection is left; then the room is joined again.
Drop ==
  /\ room = "active" /\ Spend(<<"drop", None>>)
  /\ room' = "reconnecting"
  /\ peer' = [p \in Peer |-> NoConnection(peer[p].n)]
  /\ UNCHANGED <<track, stream, share, input, job, barred>>

Rejoin(ps) ==
  /\ room = "reconnecting"
  /\ room' = "active"
  /\ peer' = [p \in Peer |-> IF p \in ps THEN Connection(World, peer[p].n + 1) ELSE peer[p]]
  /\ UNCHANGED <<track, stream, share, input, job, barred, spent>>

\* #terminate with both takeOwnedTracks.
Leave ==
  /\ room \in {"active", "reconnecting"} /\ Spend(<<"leave", None>>)
  /\ room' = "over" /\ stream' = None /\ share' = NoShare
  /\ track' = Stopped(track, Owned(World))
  /\ peer' = [p \in Peer |-> NoConnection(peer[p].n)]
  /\ UNCHANGED <<input, job, barred>>

-----------------------------------------------------------------------------
InitMedia ==
  /\ room = "none" /\ stream = None
  /\ peer = [p \in Peer |-> NoConnection(0)]
  /\ share = NoShare /\ input = [k \in Kind |-> TRUE]
  /\ job = [j \in {"share", "input"} |-> NoJob]
  /\ barred = {} /\ spent = {}

\* The session starts with what the preparation left: adoptStream.
Adopt(ts, want, ps) ==
  /\ room = "none" /\ room' = "active"
  /\ stream' = IF ts = {} THEN None ELSE ts \cap LiveOf(track)
  /\ input' = [k \in Kind |-> IF OfKind(track, ts, k) = {} THEN want[k]
                              ELSE AnyOn(track, OfKind(track, ts, k))]
  /\ peer' = [p \in Peer |-> IF p \in ps THEN Connection([World EXCEPT !.stream = ts], 1)
                             ELSE peer[p]]
  /\ UNCHANGED <<track, share, job, barred, spent>>

\* The browser answers, and the code goes on.
Going ==
  \/ \E j \in {"share", "input"} : Replaced(j) \/ ReplaceFails(j) \/ ReplaceLost(j)
  \/ ShareRefused \/ ShareGranted \/ DeviceDenied \/ DeviceGiven

MediaNext ==
  \/ Going
  \/ StartShare \/ StopShare \/ ScreenEnds
  \/ \E k \in Kind : SelectDevice(k) \/ Toggle(k) \/ Moderate(k) \/ InputEnds(k)
  \/ \E p \in Peer : PeerComes(p) \/ PeerGoes(p) \/ PeerReplaced(p) \/ Offer(p)
  \/ Drop \/ (\E ps \in SUBSET Peer : Rejoin(ps)) \/ Leave

-----------------------------------------------------------------------------
(* Properties                                                              *)

\* With nothing under way every connection sends the live track that the
\* stream has of a kind, and no live track that the stream does not have; and
\* a sender that was added is in an offer, or an offer will be made, unless the
\* request was dropped by the rollback of another operation, which does not ask
\* whose request it is.
SendersFollow ==
  room = "active" /\ job["share"].phase = "none" /\ job["input"].phase = "none" =>
    \A c \in Current(World), k \in Kind :
      LET sent == Sender(World, c, k)
          conn == peer[c[1]]
      IN /\ IF InStream(World, k) = {} THEN sent \in {None, 0} \/ ~track[sent].live
            ELSE sent \in InStream(World, k)
         /\ sent \notin {None, 0} => k \in conn.offered \/ conn.offers \/ conn.dropped

\* What the host turned off stays off until the user turns it on, whatever
\* was being started, stopped or chosen at the time.
StaysOff ==
  \A k \in barred, t \in Owned(World) :
    Live(World, t) /\ track[t].kind = k /\ ~track[t].screen => ~track[t].on

=============================================================================
