----------------------------- MODULE MediaPath -----------------------------
(***************************************************************************)
(* Camera and microphone from the preparation to the end of the room:      *)
(* App.tsx hands the stream of the preparation to ActiveRoom, which makes  *)
(* a session of it once it has what a session needs.                       *)
(***************************************************************************)
EXTENDS Prejoin, LocalMedia

VARIABLES
  prepared,  \* preparedMediaStreamRef: None or [tracks, want]
  stage      \* "prejoin", "entering" (ActiveRoom without a session), "session", "left"

vars == <<preVars, mediaVars, prepared, stage>>

\* What a list of devices or a prepared stream is, None is not.
ASSUME MediaPathAssumption ==
  /\ None \notin [Kind -> SUBSET UNION {Device[k] : k \in Kind}]
  /\ None \notin [tracks : SUBSET (1..Tracks), want : [Kind -> BOOLEAN]]

\* handleJoin after the authorization: takeStream, or dispose; then onJoin.
Join ==
  /\ stage = "prejoin" /\ screen.alive /\ screen.doing # None
  /\ screen' = [screen EXCEPT !.doing = None, !.alive = FALSE]
  /\ \/ /\ screen.doing.name = "join" /\ pre.status # "checking"
        /\ prepared' = [tracks |-> pre.stream, want |-> pre.want]
        /\ UNCHANGED track
     \/ /\ screen.doing.name = "bare"
        /\ prepared' = [tracks |-> {}, want |-> pre.want]
        /\ track' = Stopped(track, pre.stream)
  /\ pre' = Disposed(pre)
  /\ stage' = "entering"
  /\ UNCHANGED <<plugged, changes, room, stream, peer, share, input, job, barred, spent>>

\* A track of the prepared stream ends unheard.
PreparedEnds(t) ==
  /\ stage = "entering" /\ t \in prepared.tracks /\ track[t].live
  /\ Spend(<<"end input", track[t].kind>>)
  /\ track' = Stopped(track, {t})
  /\ UNCHANGED <<pre, screen, plugged, changes, prepared, stage, room, stream, peer, share, input,
                 job, barred>>

\* createWithPreparedMedia, and the peers in the room.
StartSession ==
  /\ stage = "entering"
  /\ \E ps \in SUBSET Peer : Adopt(prepared.tracks, prepared.want, ps)
  /\ prepared' = None /\ stage' = "session"
  /\ UNCHANGED <<pre, screen, plugged, changes>>

\* Fault: what a room that never started was given is left to itself.
Unclaimed == UNCHANGED track

\* stopUnclaimedPreparedMedia
StopUnclaimed == track' = Stopped(track, prepared.tracks)

\* The configuration fails, or the user leaves before there is a session.
EnteringEnds ==
  /\ stage = "entering"
  /\ StopUnclaimed
  /\ prepared' = None /\ stage' = "left"
  /\ UNCHANGED <<pre, screen, plugged, changes, room, stream, peer, share, input, job, barred,
                 spent>>

Idle == UNCHANGED <<room, stream, peer, share, input, job, barred, spent, prepared, stage>>

Init ==
  /\ track = [t \in 1..Tracks |-> Dead]
  /\ InitPrejoin /\ InitMedia
  /\ prepared = None /\ stage = "prejoin"

Next ==
  \/ PrejoinNext /\ Idle
  \/ Join \/ StartSession \/ EnteringEnds \/ \E t \in 1..Tracks : PreparedEnds(t)
  \/ MediaNext /\ UNCHANGED <<pre, screen, plugged, changes, prepared, stage>>

\* Promises settle: prompts are answered and tracks replaced, or connections
\* closed.  This is weak fairness of Going, which is enabled while something is
\* awaited.
Awaited ==
  \E j \in {"share", "input"} : job[j].phase = "prompt" \/ Settling(j) \/ WaitIsClosed(j)
Fairness == []<>~Awaited \/ []<><<Going>>_vars

Spec == Init /\ [][Next]_vars /\ Fairness

-----------------------------------------------------------------------------
\* A live track has one owner, who will stop it: the preparation, the stream
\* on its way to the session, or the session; after the session, or without
\* one, none is live.
EveryTrackIsOwned ==
  LET owners == <<pre.stream, IF prepared = None THEN {} ELSE prepared.tracks, Owned(World)>>
  IN /\ LiveOf(track) \subseteq UNION Range(owners)
     /\ \A i, j \in 1..3 : i # j => owners[i] \cap owners[j] = {}
     /\ stage = "left" \/ room = "over" => LiveOf(track) = {}

\* A start, a stop or a selection comes to its end: again and again none is
\* under way.
JobsEnd == []<>(\A j \in {"share", "input"} : job[j].phase = "none")

=============================================================================
