-------------------------- MODULE MediaPathProofs --------------------------
(***************************************************************************)
(* Proofs about MediaPath, for any number of participants, tracks and      *)
(* devices and any events: every live track has one owner, what the host   *)
(* turned off stays off, every connection sends what the stream has when   *)
(* nothing is under way, and the devices shown are the machine's.          *)
(*                                                                         *)
(* The code of a session changes a value, World, up to its next await;     *)
(* Fits says of such a value what holds whenever the code waits, and each  *)
(* lemma about it says what one operator makes of a world that fits. That  *)
(* a track is owned is not inductive by itself: a start, a stop or a       *)
(* selection holds a track outside the stream, and forgets it on the word  *)
(* of its phase, so ShareFits, InputFits and KindsFit say what each phase  *)
(* holds, which of it is live and which is a screen. That it is off is     *)
(* not either: a selection carries a wish, so NoWish covers it.            *)
(*                                                                         *)
(* Follows, in the second half, is about the connections: what a sender    *)
(* has is right, or some job will see to it. JobFits and LinkFits say      *)
(* what a job remembers and of which connections.                          *)
(***************************************************************************)
EXTENDS MediaPath, TLAPS

-----------------------------------------------------------------------------
(* The session, whose state is a value                                     *)

TrackRecord ==
  [kind : {"none", "audio", "video"}, screen : BOOLEAN, live : BOOLEAN, on : BOOLEAN]

WorldFields == {"track", "room", "stream", "peer", "share", "input", "job", "barred"}
ShareFields == {"mine", "pending", "active", "retained", "created", "bare", "disables"}
JobFields ==
  {"phase", "kind", "new", "on", "before", "put", "at", "todo", "seen", "updates", "failed"}
Jobs == {"share", "input"}

WorldType(w) ==
  /\ DOMAIN w = WorldFields
  /\ w.track \in [1..Tracks -> TrackRecord]
  /\ w.room \in {"none", "active", "reconnecting", "over"}
  /\ w.stream = None \/ w.stream \subseteq 1..Tracks
  /\ w.input \in [Kind -> BOOLEAN] /\ w.barred \subseteq Kind
  /\ DOMAIN w.share = ShareFields /\ w.share.retained \subseteq 1..Tracks
  /\ w.share.pending \in {0} \cup (1..Tracks) /\ w.share.active \in {0} \cup (1..Tracks)
  /\ w.job["input"].new \in {0} \cup (1..Tracks)
  /\ DOMAIN w.job = Jobs /\ \A j \in Jobs : DOMAIN w.job[j] = JobFields
  /\ w.job["share"].phase \in {"none", "prompt", "starting", "stopping", "undoing"}
  /\ w.job["input"].phase \in {"none", "prompt", "replacing", "undoing"}
  /\ w.job["input"].kind \in Kind /\ w.job["input"].on \in BOOLEAN
  /\ \A j \in Jobs : w.job[j].phase \in {"none", "prompt"} => w.job[j].at = None

Lives(w, t) == t \in LiveOf(w.track)

\* Every live track is the session's, and over is over.
AllOwned(w) == LiveOf(w.track) \subseteq Owned(w)
OverIsDead(w) == w.room = "over" => LiveOf(w.track) = {}

\* What the fields of the sharing hold while a start or a stop is under way: a
\* screen that is being started is not yet used, one that is used has put the
\* cameras aside, and they are back in the stream before they are forgotten.
ShareFits(w) ==
  LET at == w.job["share"]
      of == w.share
  IN /\ at.phase \in {"none", "prompt", "stopping"} => of.pending = 0
     /\ of.pending \in {0, at.new}
     /\ of.active # 0 => at.phase \in {"none", "stopping"}
     /\ of.active = 0 => of.retained = {}
     /\ w.room = "over" => of.active = 0
     /\ at.phase = "undoing" => ~Lives(w, of.pending)
     /\ at.phase = "stopping" => ~Lives(w, of.active)
     /\ at.phase = "stopping" /\ w.room # "over" =>
          of.active # 0 /\ of.retained \cap LiveOf(w.track) \subseteq StreamOf(w)
     /\ at.phase # "stopping" /\ of.active # 0 => w.stream # None
     /\ at.phase = "none" /\ of.active # 0 => Lives(w, of.active)

\* The same for a selection; a camera is chosen only when no screen is shared.
InputFits(w) ==
  LET at == w.job["input"]
  IN /\ at.phase \in {"none", "prompt"} => at.new = 0
     /\ at.phase = "undoing" => ~Lives(w, at.new)
     /\ at.phase # "none" /\ at.kind = "video" =>
          w.share.active = 0 /\ w.job["share"].phase = "none"

\* Which of the session's tracks are screens, and that a device which is being
\* chosen is off and not in the stream.
KindsFit(w) ==
  LET live == LiveOf(w.track)
      of == w.share
      new == w.job["input"].new
  IN /\ \A t \in live : t \in {of.pending, of.active} =>
          w.track[t].screen /\ w.track[t].kind = "video"
     /\ \A t \in live : t \in StreamOf(w) /\ w.track[t].screen => t = of.active
     /\ \A t \in live : t \in of.retained => w.track[t].kind = "video" /\ ~w.track[t].screen
     /\ new \in live =>
          /\ w.track[new].kind = w.job["input"].kind /\ ~w.track[new].screen /\ ~w.track[new].on
          /\ new \notin StreamOf(w)

Core(w) ==
  /\ WorldType(w) /\ w.room # "none" /\ AllOwned(w) /\ OverIsDead(w)
  /\ ShareFits(w) /\ InputFits(w) /\ KindsFit(w)

\* What is off: every device of a kind that is barred, and what a selection or
\* the next one would turn on; a stop that the host asked for keeps cameras off.
Off(w, k) ==
  \A t \in LiveOf(w.track) :
    t \in Owned(w) /\ w.track[t].kind = k /\ ~w.track[t].screen => ~w.track[t].on
NoWish(w) ==
  /\ \A k \in w.barred : ~w.input[k]
  /\ w.job["input"].phase # "none" /\ w.job["input"].kind \in w.barred => ~w.job["input"].on
OffFits(w) ==
  /\ NoWish(w)
  /\ \A k \in w.barred : Off(w, k)
  /\ w.job["share"].phase = "stopping" /\ w.share.disables => Off(w, "video")

Fits(w) == Core(w) /\ OffFits(w)

\* Zero is no track.
LEMMA LiveNumbers ==
  ASSUME NEW tr \in [1..Tracks -> TrackRecord], NEW t \in LiveOf(tr)
  PROVE  t \in 1..Tracks /\ t # 0
<1>1. t \in 1..Tracks
  BY DEF LiveOf
<1> QED
  BY <1>1, TracksAssumption

\* Two worlds that differ only in the connections, in what a job says of them,
\* and in what a share was made of.
Alike(w, v) ==
  /\ DOMAIN v = WorldFields
  /\ v.track = w.track /\ v.room = w.room /\ v.stream = w.stream
  /\ DOMAIN v.share = ShareFields
  /\ v.share.pending = w.share.pending /\ v.share.active = w.share.active
  /\ v.share.retained = w.share.retained
  /\ v.input = w.input /\ v.barred = w.barred
  /\ DOMAIN v.job = Jobs
  /\ \A j \in Jobs :
       /\ DOMAIN v.job[j] = JobFields
       /\ v.job[j].phase = w.job[j].phase /\ v.job[j].kind = w.job[j].kind
       /\ v.job[j].new = w.job[j].new /\ v.job[j].on = w.job[j].on
       /\ v.job[j].phase \in {"none", "prompt"} => v.job[j].at = None

\* What fits of a world fits of one that is like it.
LEMMA AlikeFits ==
  ASSUME NEW w, NEW v, Alike(w, v)
  PROVE  /\ WorldType(w) => WorldType(v)
         /\ Core(w) => Core(v)
         /\ NoWish(w) => NoWish(v)
         /\ \A k : Off(w, k) => Off(v, k)
         /\ v.share.disables = w.share.disables /\ OffFits(w) => OffFits(v)
<1>1. Owned(v) = Owned(w) /\ StreamOf(v) = StreamOf(w)
  BY DEF Alike, Owned, StreamOf, Jobs
<1>2. WorldType(w) => WorldType(v)
  BY DEF Alike, WorldType, Jobs
<1>3. /\ AllOwned(w) => AllOwned(v)
      /\ OverIsDead(w) => OverIsDead(v)
      /\ w.room # "none" => v.room # "none"
  BY <1>1 DEF Alike, AllOwned, OverIsDead
<1>4. ShareFits(w) => ShareFits(v)
  BY <1>1 DEF Alike, ShareFits, Lives, Jobs
<1>5. InputFits(w) => InputFits(v)
  BY <1>1 DEF Alike, InputFits, Lives, Jobs
<1>6. KindsFit(w) => KindsFit(v)
  BY <1>1 DEF Alike, KindsFit, Jobs
<1>7. NoWish(w) => NoWish(v)
  BY DEF Alike, NoWish, Jobs
<1>8. ASSUME NEW k, Off(w, k) PROVE Off(v, k)
  BY <1>1, <1>8 DEF Alike, Off
<1>9. ASSUME v.share.disables = w.share.disables, OffFits(w) PROVE OffFits(v)
  BY <1>7, <1>8, <1>9 DEF Alike, OffFits, Jobs
<1> QED
  BY <1>2, <1>3, <1>4, <1>5, <1>6, <1>7, <1>8, <1>9 DEF Core

\* Likeness goes from one world to the next.
LEMMA AlikeTransitive ==
  ASSUME NEW u, NEW v, NEW w, Alike(u, v), Alike(v, w)
  PROVE  Alike(u, w)
BY DEF Alike, Jobs

\* Senders that are added, offers that are asked for, senders that are removed, and
\* connections that are replaced change nothing that fits depends on.
LEMMA AddsAlike ==
  ASSUME NEW w, WorldType(w), NEW j \in Jobs, w.job[j].phase \notin {"none", "prompt"}, NEW cs
  PROVE  Alike(w, Adds(w, j, cs))
BY DEF WorldType, Alike, Adds, WorldFields, JobFields, Jobs

\* Another offer is asked for.
LEMMA RenegotiatedAlike ==
  ASSUME NEW w, WorldType(w), NEW us
  PROVE  Alike(w, Renegotiated(w, us))
BY DEF WorldType, Alike, Renegotiated, WorldFields, JobFields, Jobs

\* Senders are removed.
LEMMA RemovesAlike ==
  ASSUME NEW w, WorldType(w), NEW j \in Jobs, NEW us
  PROVE  Alike(w, Removes(w, j, us))
BY DEF WorldType, Alike, Removes, WorldFields, JobFields, Jobs

\* Connections are replaced.
LEMMA RecoveredAlike ==
  ASSUME NEW w, WorldType(w), NEW cs
  PROVE  Alike(w, Recovered(w, cs))
BY DEF WorldType, Alike, Recovered, WorldFields, JobFields, Jobs

\* The end of a job is the job away, and connections.
LEMMA EndedAlike ==
  ASSUME NEW w, WorldType(w), NEW j \in Jobs
  PROVE  Alike([w EXCEPT !.job[j] = NoJob], Ended(w, j))
BY DEF WorldType, Alike, Ended, Recovered, WorldFields, JobFields, Jobs, NoJob

\* The end of a job that is through asks for offers too.
LEMMA CommitAlike ==
  ASSUME NEW on, WorldType(on), NEW j \in Jobs, NEW us
  PROVE  /\ Alike([on EXCEPT !.job[j] = NoJob], Ended(Renegotiated(on, us), j))
         /\ Ended(Renegotiated(on, us), j).share = [on EXCEPT !.job[j] = NoJob].share
<1> DEFINE re == Renegotiated(on, us)
           x == [on EXCEPT !.job[j] = NoJob]
           y == [re EXCEPT !.job[j] = NoJob]
<1>1. Alike(on, re)
  BY RenegotiatedAlike
<1>2. WorldType(re) /\ re.share = on.share
  <2>1. re.share = on.share
    BY DEF Renegotiated, WorldType, WorldFields
  <2> HIDE DEF re
  <2> QED
    BY <1>1, <2>1, AlikeFits
<1> HIDE DEF re
<1>3. Alike(y, Ended(re, j)) /\ Ended(re, j).share = re.share
  BY Zenon, <1>2, EndedAlike DEF Ended, Recovered, WorldType, WorldFields
<1>4. Alike(x, y) /\ x.share = on.share
  BY ZenonT(40), <1>1, <1>2 DEF Alike, WorldType, WorldFields, Jobs, NoJob, JobFields
<1> QED
  <2> HIDE DEF x, y
  <2>1. Alike(x, Ended(re, j)) /\ Ended(re, j).share = x.share
    BY <1>2, <1>3, <1>4, AlikeTransitive
  <2> QED
    BY <2>1 DEF x, re

\* Tracks of which some are turned off or on, or ended.
Same(tr, to) ==
  /\ to \in [1..Tracks -> TrackRecord]
  /\ LiveOf(to) \subseteq LiveOf(tr)
  /\ \A t \in LiveOf(to) : to[t].kind = tr[t].kind /\ to[t].screen = tr[t].screen
TurnedOff(tr, to, ts) ==
  Same(tr, to) /\ LiveOf(to) = LiveOf(tr)
    /\ \A t \in LiveOf(tr) : to[t].on => tr[t].on /\ t \notin ts
TurnedOn(tr, to, ts) ==
  Same(tr, to) /\ LiveOf(to) = LiveOf(tr) /\ \A t \in LiveOf(tr) : to[t].on => tr[t].on \/ t \in ts
EndedOnly(tr, to, ts) ==
  Same(tr, to) /\ LiveOf(to) = LiveOf(tr) \ ts /\ \A t \in LiveOf(to) : to[t].on => tr[t].on

\* What stop() and enabled do to the tracks.
LEMMA TracksChange ==
  ASSUME NEW tr \in [1..Tracks -> TrackRecord], NEW ts
  PROVE  /\ TurnedOff(tr, Switched(tr, ts, FALSE), ts)
         /\ TurnedOn(tr, Switched(tr, ts, TRUE), ts)
         /\ EndedOnly(tr, Stopped(tr, ts), ts)
<1>1. TurnedOff(tr, Switched(tr, ts, FALSE), ts)
  BY DEF TurnedOff, Same, Switched, LiveOf, TrackRecord
<1>2. TurnedOn(tr, Switched(tr, ts, TRUE), ts)
  BY DEF TurnedOn, Same, Switched, LiveOf, TrackRecord
<1>3. EndedOnly(tr, Stopped(tr, ts), ts)
  BY DEF EndedOnly, Same, Stopped, LiveOf, TrackRecord, Dead
<1> QED
  BY <1>1, <1>2, <1>3

\* The cameras that are turned off are all that a session owns and does not share.
LEMMA CamerasOffFits ==
  ASSUME NEW w, Core(w), NoWish(w), \A k \in w.barred : k # "video" => Off(w, k)
  PROVE  /\ Core(CamerasOff(w)) /\ OffFits(CamerasOff(w)) /\ Off(CamerasOff(w), "video")
         /\ CamerasOff(w) = [w EXCEPT !.track = CamerasOff(w).track]
<1> DEFINE v == CamerasOff(w)
           ts == (w.share.retained \cup InStream(w, "video")) \ {w.share.active, w.share.pending}
<1>1. WorldType(w)
  BY DEF Core
<1>2. /\ DOMAIN v = WorldFields /\ v.track = Switched(w.track, ts, FALSE)
      /\ v.room = w.room /\ v.stream = w.stream /\ v.share = w.share /\ v.input = w.input
      /\ v.barred = w.barred /\ v.job = w.job
      /\ v = [w EXCEPT !.track = v.track]
  BY <1>1 DEF CamerasOff, WorldType, WorldFields
<1> HIDE DEF v, ts
<1>3. TurnedOff(w.track, v.track, ts)
  BY <1>1, <1>2, TracksChange DEF WorldType
<1>4. WorldType(v)
  BY <1>1, <1>2, <1>3 DEF WorldType, TurnedOff, Same
<1>5. Owned(v) = Owned(w) /\ StreamOf(v) = StreamOf(w)
  BY <1>2 DEF Owned, StreamOf
<1>6. AllOwned(v) /\ OverIsDead(v) /\ v.room # "none"
  BY <1>2, <1>3, <1>5 DEF Core, AllOwned, OverIsDead, TurnedOff
<1>7. ShareFits(v) /\ InputFits(v)
  BY <1>2, <1>3, <1>5 DEF Core, ShareFits, InputFits, Lives, TurnedOff
<1>8. KindsFit(v)
  BY <1>2, <1>3, <1>5 DEF Core, KindsFit, TurnedOff, Same
<1>9. Off(v, "video")
  <2> SUFFICES ASSUME NEW t \in LiveOf(v.track), t \in Owned(v), v.track[t].kind = "video",
                      ~v.track[t].screen
               PROVE  ~v.track[t].on
    BY DEF Off
  <2>1. t \in LiveOf(w.track) /\ t \in Owned(w) /\ w.track[t].kind = "video" /\ ~w.track[t].screen
    BY <1>3, <1>5 DEF TurnedOff, Same
  <2>2. t \notin {w.share.active, w.share.pending}
    BY <2>1 DEF Core, KindsFit
  <2>3. CASE t = w.job["input"].new
    BY <2>3, <2>1, <1>3 DEF Core, KindsFit, TurnedOff
  <2>4. CASE t # w.job["input"].new
    <3>1. t \in ts
      BY <2>4, <2>1, <2>2 DEF Owned, InStream, OfKind, ts
    <3> QED
      BY <3>1, <2>1, <1>3 DEF TurnedOff
  <2> QED
    BY <2>3, <2>4
<1>10. OffFits(v)
  <2>1. ASSUME NEW k \in v.barred PROVE Off(v, k)
    <3>1. CASE k = "video"
      BY <3>1, <1>9
    <3>2. CASE k # "video"
      <4>1. Off(w, k)
        BY <3>2, <1>2
      <4> QED
        BY <4>1, <1>3, <1>5 DEF Off, TurnedOff, Same
    <3> QED
      BY <3>1, <3>2
  <2> QED
    BY <2>1, <1>9, <1>2 DEF OffFits, NoWish
<1> QED
  BY <1>2, <1>4, <1>6, <1>7, <1>8, <1>9, <1>10 DEF Core, v

\* Tracks may end at any time, but for a screen that is in use, and be forgotten.
LEMMA EndingFits ==
  ASSUME NEW w, Core(w), NEW v, NEW ts,
         DOMAIN v = WorldFields, EndedOnly(w.track, v.track, ts), v.room = w.room,
         v.stream = None <=> w.stream = None,
         StreamOf(v) \subseteq StreamOf(w), StreamOf(w) \subseteq StreamOf(v) \cup ts,
         DOMAIN v.share = ShareFields,
         v.share.pending = w.share.pending, v.share.active = w.share.active,
         v.share.retained \subseteq w.share.retained,
         w.share.retained \subseteq v.share.retained \cup ts,
         v.input = w.input, v.barred = w.barred, v.job = w.job,
         w.job["share"].phase = "none" => w.share.active \notin ts
  PROVE  /\ Core(v) /\ (NoWish(w) => NoWish(v)) /\ \A k : Off(w, k) => Off(v, k)
         /\ v.share.disables = w.share.disables /\ OffFits(w) => OffFits(v)
<1>1. WorldType(v)
  BY DEF Core, WorldType, EndedOnly, Same, StreamOf
<1>2. Owned(v) \subseteq Owned(w) /\ Owned(w) \subseteq Owned(v) \cup ts
  BY DEF Owned
<1>3. AllOwned(v) /\ OverIsDead(v) /\ v.room # "none"
  BY <1>2 DEF Core, AllOwned, OverIsDead, EndedOnly
<1>4. ShareFits(v)
  BY DEF Core, ShareFits, EndedOnly, Lives
<1>5. InputFits(v)
  BY DEF Core, InputFits, EndedOnly, Lives
<1>6. KindsFit(v)
  BY DEF Core, KindsFit, EndedOnly, Same
<1>7. NoWish(w) => NoWish(v)
  BY DEF NoWish
<1>8. ASSUME NEW k, Off(w, k) PROVE Off(v, k)
  BY <1>2, <1>8 DEF Off, EndedOnly, Same
<1>9. v.share.disables = w.share.disables /\ OffFits(w) => OffFits(v)
  BY <1>7, <1>8 DEF OffFits
<1> QED
  BY <1>1, <1>3, <1>4, <1>5, <1>6, <1>7, <1>8, <1>9 DEF Core

-----------------------------------------------------------------------------
(* What the code does up to its next await                                 *)

\* The end of a stop.
LEMMA StopSweepFits ==
  ASSUME NEW w, Fits(w), w.job["share"].phase = "stopping", w.room # "over",
         NEW v \in StopSweep(w)
  PROVE  Fits(v)
<1> DEFINE open == {c \in w.job["share"].todo \cap Current(w) : Sender(w, c, "video") # None}
<1>1. WorldType(w)
  BY DEF Fits, Core
<1>2. CASE open # {}
  <2>1. PICK c \in open :
          v = [w EXCEPT !.job["share"].at = c, !.job["share"].todo = open \ {c}]
    BY Zenon, <1>2 DEF StopSweep
  <2>2. Alike(w, v) /\ v.share.disables = w.share.disables
    BY <1>1, <2>1 DEF Alike, WorldType, WorldFields, JobFields, Jobs
  <2> QED
    BY <2>2, AlikeFits DEF Fits
<1>3. CASE open = {}
  <2> DEFINE off == IF w.share.disables THEN CamerasOff(w) ELSE w
             on == [off EXCEPT !.share = [NoShare EXCEPT !.mine = w.share.mine]]
             x == [on EXCEPT !.job["share"] = NoJob]
  <2>1. v = Ended(on, "share")
    BY <1>3 DEF StopSweep
  <2>2. Fits(off) /\ off.job = w.job /\ off.room = w.room
    <3>1. CASE w.share.disables
      BY <3>1, CamerasOffFits, <1>1 DEF Fits, OffFits, WorldType, WorldFields
    <3>2. CASE ~w.share.disables
      BY <3>2
    <3> QED
      BY <3>1, <3>2
  <2> HIDE DEF off
  <2>3. WorldType(off)
    BY <2>2 DEF Fits, Core
  <2>4. WorldType(on)
    BY <2>3 DEF WorldType, WorldFields, ShareFields, NoShare
  <2>5. /\ DOMAIN x = WorldFields /\ x.track = off.track /\ x.room = off.room
        /\ x.stream = off.stream /\ x.input = off.input /\ x.barred = off.barred
        /\ x.share = [NoShare EXCEPT !.mine = w.share.mine]
        /\ x.job = [off.job EXCEPT !["share"] = NoJob]
    BY <2>3 DEF WorldType, WorldFields
  <2>6. WorldType(x)
    BY <2>3, <2>5 DEF WorldType, ShareFields, NoShare, NoJob, JobFields, Jobs
  <2>7. /\ x.share.pending = 0 /\ x.share.active = 0 /\ x.share.retained = {}
        /\ x.job["share"] = NoJob /\ x.job["input"] = off.job["input"]
    BY <2>3, <2>5 DEF NoShare, WorldType, Jobs
  <2>8. Alike(x, v) /\ v.share = x.share
    <3>1. Alike([on EXCEPT !.job["share"] = NoJob], Ended(on, "share"))
      BY <2>4, EndedAlike DEF Jobs
    <3>2. Ended(on, "share").share = on.share
      BY <2>4 DEF Ended, Recovered, WorldType, WorldFields
    <3>3. x.share = on.share
      BY <2>4 DEF WorldType, WorldFields
    <3> QED
      BY <2>1, <3>1, <3>2, <3>3
  <2> HIDE DEF x, on
  <2>9. AllOwned(x) /\ OverIsDead(x) /\ x.room # "none"
    <3>1. off.share.pending = 0 /\ ~Lives(off, off.share.active)
          /\ off.share.retained \cap LiveOf(off.track) \subseteq StreamOf(off)
      BY <2>2 DEF Fits, Core, ShareFits
    <3> QED
      BY <3>1, <2>2, <2>5, <2>7 DEF Fits, Core, AllOwned, OverIsDead, Owned, StreamOf, Lives
  <2>10. ShareFits(x)
    BY <2>7, <2>5, <2>2 DEF ShareFits, NoJob
  <2>11. InputFits(x)
    BY <2>7, <2>5, <2>2 DEF InputFits, Fits, Core, NoJob, Lives
  <2>12. KindsFit(x)
    <3>1. \A t \in LiveOf(x.track) : t # off.share.active
      BY <2>2, <2>5 DEF Fits, Core, ShareFits, Lives
    <3>2. \A t \in LiveOf(x.track) : t # 0
      BY <2>6, LiveNumbers DEF WorldType
    <3> QED
      BY <3>1, <3>2, <2>7, <2>5, <2>2 DEF KindsFit, Fits, Core, StreamOf
  <2>13. OffFits(x)
    <3>1. Owned(x) \subseteq Owned(off)
      BY <2>5, <2>7 DEF Owned, StreamOf
    <3> QED
      BY <3>1, <2>2, <2>5, <2>7 DEF OffFits, Fits, NoWish, Off, NoJob
  <2> QED
    BY <2>6, <2>8, <2>9, <2>10, <2>11, <2>12, <2>13, AlikeFits DEF Fits, Core
<1> QED
  BY <1>2, <1>3

\* A stop begins.
WhenStopping(w, disables) ==
  LET off == IF disables THEN CamerasOff(w) ELSE w
      cameras == OfKind(w.track, w.share.retained, "video")
      left == (StreamOf(w) \ {w.share.active}) \cup cameras
      back == IF w.stream = None \/ (w.share.created /\ left = {}) THEN None ELSE left
  IN [off EXCEPT
       !.track = Stopped(@, {w.share.active}), !.stream = back,
       !.share.disables = disables, !.share.mine = FALSE,
       !.job["share"] = [NoJob EXCEPT !.phase = "stopping", !.put = One(cameras),
                                      !.todo = Current(w)]]

\* The screen is ended, the cameras are back in the stream, and the stop has every
\* connection to go through.
Stopping(w, y) ==
  LET at == y.job["share"]
  IN /\ LiveOf(y.track) = LiveOf(w.track) \ {w.share.active}
     /\ \A t \in LiveOf(y.track) : y.track[t].kind = w.track[t].kind
     /\ StreamOf(y) = (StreamOf(w) \ {w.share.active})
                         \cup OfKind(w.track, w.share.retained, "video")
     /\ y.room = w.room /\ y.peer = w.peer
     /\ y.share.active = w.share.active /\ y.share.retained = w.share.retained
     /\ y.job["input"] = w.job["input"]
     /\ at.phase = "stopping" /\ at.kind = "video" /\ at.new = 0 /\ at.before = 0
     /\ at.put = One(OfKind(w.track, w.share.retained, "video"))
     /\ at.at = None /\ at.todo = Current(w) /\ at.seen = {} /\ at.updates = {}
     /\ at.failed = {}

\* Then cameras that are to be off are off.
LEMMA StoppingFits ==
  ASSUME NEW w, Core(w), w.room # "over", w.share.active # 0, w.job["share"].phase = "none",
         NEW disables \in BOOLEAN, NoWish(w), \A k \in w.barred : k # "video" => Off(w, k),
         ~disables => OffFits(w)
  PROVE  Fits(WhenStopping(w, disables)) /\ Stopping(w, WhenStopping(w, disables))
<1> DEFINE off == IF disables THEN CamerasOff(w) ELSE w
           cameras == OfKind(w.track, w.share.retained, "video")
           left == (StreamOf(w) \ {w.share.active}) \cup cameras
           back == IF w.stream = None \/ (w.share.created /\ left = {}) THEN None ELSE left
           y == [off EXCEPT !.track = Stopped(@, {w.share.active}), !.stream = back,
                   !.share.disables = disables, !.share.mine = FALSE,
                   !.job["share"] = [NoJob EXCEPT !.phase = "stopping", !.put = One(cameras),
                                                  !.todo = Current(w)]]
<1>1. WhenStopping(w, disables) = y
  BY DEF WhenStopping
<1>2. /\ Fits(off) /\ off.job = w.job /\ off.room = w.room /\ off.stream = w.stream
      /\ off.share = w.share /\ off.peer = w.peer /\ LiveOf(off.track) = LiveOf(w.track)
      /\ \A t \in LiveOf(w.track) : off.track[t].kind = w.track[t].kind
      /\ disables => Off(off, "video")
  <2>1. CASE disables
    <3>1. /\ Fits(off) /\ Off(off, "video")
          /\ off = [w EXCEPT !.track = CamerasOff(w).track]
      BY <2>1, CamerasOffFits DEF Fits
    <3>2. LiveOf(off.track) = LiveOf(w.track)
          /\ \A t \in LiveOf(w.track) : off.track[t].kind = w.track[t].kind
      <4> DEFINE ts == (w.share.retained \cup InStream(w, "video"))
                          \ {w.share.active, w.share.pending}
      <4>1. w.track \in [1..Tracks -> TrackRecord]
        BY DEF Core, WorldType
      <4>2. off.track = Switched(w.track, ts, FALSE)
        BY <2>1 DEF CamerasOff, Core, WorldType, WorldFields
      <4> HIDE DEF ts, off
      <4>3. TurnedOff(w.track, Switched(w.track, ts, FALSE), ts)
        BY <4>1, TracksChange
      <4> QED
        BY <4>2, <4>3 DEF TurnedOff, Same
    <3> QED
      BY <3>1, <3>2 DEF Core, WorldType, WorldFields
  <2>2. CASE ~disables
    BY <2>2 DEF Fits
  <2> QED
    BY <2>1, <2>2
<1> HIDE DEF off
<1>3. WorldType(off)
  BY <1>2 DEF Fits, Core
<1>4. /\ DOMAIN y = WorldFields /\ y.track = Stopped(off.track, {w.share.active})
      /\ y.room = w.room /\ y.stream = back /\ y.input = off.input /\ y.barred = off.barred
      /\ DOMAIN y.share = ShareFields
      /\ y.share.pending = w.share.pending /\ y.share.active = w.share.active
      /\ y.share.retained = w.share.retained /\ y.share.disables = disables
      /\ DOMAIN y.job = Jobs /\ DOMAIN y.job["share"] = JobFields
      /\ y.job["share"].phase = "stopping" /\ y.job["input"] = w.job["input"]
      /\ y.job["share"].new = 0 /\ y.peer = w.peer
  BY ZenonT(40), <1>2, <1>3 DEF WorldType, WorldFields, ShareFields, Jobs, JobFields, NoJob
<1>5. /\ y.job["share"].kind = "video" /\ y.job["share"].before = 0
       /\ y.job["share"].put = One(cameras) /\ y.job["share"].at = None
       /\ y.job["share"].todo = Current(w) /\ y.job["share"].seen = {}
       /\ y.job["share"].updates = {} /\ y.job["share"].failed = {}
  <2>1. PICK at : at = [NoJob EXCEPT !.phase = "stopping", !.put = One(cameras), !.todo = Current(w)]
    OBVIOUS
  <2>2. /\ at.kind = "video" /\ at.before = 0 /\ at.put = One(cameras) /\ at.at = None
        /\ at.todo = Current(w) /\ at.seen = {} /\ at.updates = {} /\ at.failed = {}
    BY <2>1 DEF NoJob
  <2>3. y.job["share"] = at
    BY <1>2, <1>3, <2>1 DEF WorldType, WorldFields, Jobs
  <2> QED
    BY <2>2, <2>3
<1> HIDE DEF y
<1>6. EndedOnly(off.track, y.track, {w.share.active})
  BY <1>3, <1>4, TracksChange DEF WorldType
<1>7. left \subseteq 1..Tracks
  BY DEF Core, WorldType, StreamOf, OfKind, LiveOf
<1>8. WorldType(y)
  BY <1>2, <1>3, <1>4, <1>6, <1>7, ZenonT(40) DEF WorldType, EndedOnly, Same, Jobs
<1>9. /\ w.stream # None /\ Lives(w, w.share.active) /\ w.share.pending = 0
      /\ cameras = w.share.retained \cap LiveOf(w.track)
  BY DEF Core, ShareFits, KindsFit, OfKind
<1>10. StreamOf(y) = left
  <2>1. left # None
    BY <1>7, TracksAssumption
  <2> QED
    BY <2>1, <1>4, <1>9 DEF StreamOf
<1>11. /\ LiveOf(y.track) = LiveOf(w.track) \ {w.share.active}
       /\ \A t \in LiveOf(y.track) :
            y.track[t].kind = w.track[t].kind /\ y.track[t].screen = off.track[t].screen
  BY <1>2, <1>6 DEF EndedOnly, Same
<1> HIDE DEF back
<1>12. Owned(y) \subseteq Owned(off)
  BY <1>2, <1>4, <1>9, <1>10 DEF Owned, StreamOf
<1>13. AllOwned(y) /\ OverIsDead(y) /\ y.room # "none"
  BY <1>2, <1>4, <1>9, <1>10, <1>11 DEF Core, AllOwned, OverIsDead, Owned, StreamOf
<1>14. ShareFits(y)
  BY <1>4, <1>9, <1>10, <1>11 DEF Core, ShareFits, Lives
<1>15. InputFits(y)
  BY <1>4, <1>11 DEF Core, InputFits, Lives
<1>16. KindsFit(y)
  <2>1. KindsFit(off)
    BY <1>2 DEF Fits, Core
  <2>2. \A t \in LiveOf(y.track) :
          /\ t \in LiveOf(off.track) /\ t # w.share.active
          /\ y.track[t].kind = off.track[t].kind /\ y.track[t].screen = off.track[t].screen
          /\ y.track[t].on => off.track[t].on
    BY <1>2, <1>6 DEF EndedOnly, Same
  <2>3. StreamOf(off) = StreamOf(w)
    BY <1>2 DEF StreamOf
  <2>4. \A t \in StreamOf(y) : t \in StreamOf(off) \/ t \in off.share.retained
    BY <2>3, <1>2, <1>9, <1>10
  <2> HIDE DEF left, cameras
  <2>5. y.share.pending = off.share.pending /\ y.share.active = off.share.active
        /\ y.share.retained = off.share.retained /\ y.job["input"] = off.job["input"]
    BY <1>2, <1>4
  <2>6. \A t \in LiveOf(y.track) : t \in {y.share.pending, y.share.active} =>
          y.track[t].screen /\ y.track[t].kind = "video"
    BY <2>1, <2>2, <2>5 DEF KindsFit
  <2>7. \A t \in LiveOf(y.track) : t \in StreamOf(y) /\ y.track[t].screen => t = y.share.active
    BY <2>1, <2>2, <2>4, <2>5 DEF KindsFit
  <2>8. \A t \in LiveOf(y.track) : t \in y.share.retained =>
          y.track[t].kind = "video" /\ ~y.track[t].screen
    BY <2>1, <2>2, <2>5 DEF KindsFit
  <2>9. LET new == y.job["input"].new
        IN new \in LiveOf(y.track) =>
             /\ y.track[new].kind = y.job["input"].kind /\ ~y.track[new].screen
             /\ ~y.track[new].on /\ new \notin StreamOf(y)
    <3>1. y.job["input"].new \in LiveOf(y.track) => y.job["input"].new \notin off.share.retained
      BY <2>1, <2>2, <2>5, <1>2, <1>3, LiveNumbers DEF Core, InputFits, KindsFit, Fits, WorldType
    <3> QED
      BY <3>1, <2>1, <2>2, <2>4, <2>5 DEF KindsFit
  <2> QED
    BY <2>6, <2>7, <2>8, <2>9 DEF KindsFit
<1>17. OffFits(y)
  <2>1. OffFits(off)
    BY <1>2 DEF Fits
  <2>2. ASSUME NEW k, Off(off, k) PROVE Off(y, k)
    BY <2>2, <1>6, <1>12 DEF Off, EndedOnly, Same
  <2> QED
    BY <2>1, <2>2, <1>2, <1>4 DEF OffFits, NoWish
<1>18. Stopping(w, y)
  BY <1>4, <1>10, <1>11, <1>5 DEF Stopping
<1> QED
  BY <1>1, <1>4, <1>8, <1>13, <1>14, <1>15, <1>16, <1>17, <1>18 DEF Fits, Core

\* And the code goes on until it has to wait.
LEMMA BeginStopFits ==
  ASSUME NEW w, Core(w), w.room # "over", w.share.active # 0, w.job["share"].phase = "none",
         NEW disables \in BOOLEAN, NoWish(w), \A k \in w.barred : k # "video" => Off(w, k),
         ~disables => OffFits(w),
         NEW v \in BeginStop(w, disables)
  PROVE  Fits(v)
<1>1. v \in StopSweep(WhenStopping(w, disables))
  BY DEF BeginStop, WhenStopping
<1>2. Fits(WhenStopping(w, disables)) /\ Stopping(w, WhenStopping(w, disables))
  BY StoppingFits
<1> QED
  BY <1>1, <1>2, StopSweepFits DEF Stopping

\* A start is told that it is not wanted any more.
LEMMA CancelStartFits ==
  ASSUME NEW w, Core(w), NEW disables \in BOOLEAN,
         NoWish(w), \A k \in w.barred : k # "video" => Off(w, k),
         ~disables \/ w.job["share"].phase = "none" \/ w.share.active # 0 => OffFits(w)
  PROVE  Fits(CancelStart(w, disables))
<1>1. CASE w.job["share"].phase = "none" \/ w.share.active # 0
  BY <1>1 DEF CancelStart, Fits
<1>2. CASE ~(w.job["share"].phase = "none" \/ w.share.active # 0)
  <2> DEFINE x == [w EXCEPT !.share.mine = FALSE]
             off == IF disables THEN CamerasOff(x) ELSE x
             v == [off EXCEPT !.track = Stopped(@, {w.share.pending} \ {0})]
  <2>1. CancelStart(w, disables) = v
    BY <1>2 DEF CancelStart
  <2>2. Alike(w, x) /\ x.share.disables = w.share.disables
    BY DEF Core, WorldType, Alike, WorldFields, ShareFields, Jobs
  <2>3. /\ Core(x) /\ NoWish(x) /\ \A k \in x.barred : k # "video" => Off(x, k)
        /\ ~disables => OffFits(x)
    BY Zenon, <1>2, <2>2, AlikeFits DEF Alike
  <2> HIDE DEF x
  <2>4. Fits(off) /\ off.share = x.share /\ off.job = x.job
    <3>1. CASE disables
      BY <3>1, <2>3, CamerasOffFits DEF Core, WorldType, WorldFields, Fits
    <3>2. CASE ~disables
      BY <3>2, <2>3 DEF Fits
    <3> QED
      BY <3>1, <3>2
  <2> HIDE DEF off
  <2>5. WorldType(off)
    BY <2>4 DEF Fits, Core
  <2>6. /\ DOMAIN v = WorldFields /\ v.track = Stopped(off.track, {w.share.pending} \ {0})
        /\ v.room = off.room /\ v.stream = off.stream /\ v.share = off.share
        /\ v.input = off.input /\ v.barred = off.barred /\ v.job = off.job
    BY <2>5 DEF WorldType, WorldFields
  <2> HIDE DEF v
  <2>7. EndedOnly(off.track, v.track, {w.share.pending} \ {0})
    BY <2>5, <2>6, TracksChange DEF WorldType
  <2>8. off.job["share"].phase # "none"
    BY <1>2, <2>2, <2>4 DEF Alike, Jobs
  <2>9. DOMAIN v.share = ShareFields
    BY <2>5, <2>6 DEF WorldType
  <2>10. Core(v) /\ OffFits(v)
    BY <2>4, <2>6, <2>7, <2>8, <2>9, EndingFits DEF Fits, StreamOf
  <2> QED
    BY <2>1, <2>10 DEF Fits
<1> QED
  BY <1>1, <1>2

\* A share is stopped, by the user or by the host.
LEMMA StopFits ==
  ASSUME NEW w, Core(w), NEW disables \in BOOLEAN,
         NoWish(w), \A k \in w.barred : k # "video" => Off(w, k),
         w.room # "over" /\ disables => w.share.active # 0,
         w.job["share"].phase = "stopping" /\ w.share.disables => Off(w, "video"),
         ~disables \/ w.room = "over" => OffFits(w),
         NEW v \in Stop(w, disables)
  PROVE  Fits(v)
<1>1. CASE w.room = "over"
  BY <1>1 DEF Stop, Fits
<1>2. CASE w.room # "over" /\ w.job["share"].phase = "stopping"
  <2>1. CASE disables /\ ~w.share.disables
    <3> DEFINE x == [w EXCEPT !.share.disables = TRUE]
    <3>1. v = CamerasOff(x)
      BY <1>2, <2>1 DEF Stop
    <3>2. Alike(w, x)
      BY DEF Core, WorldType, Alike, WorldFields, ShareFields, Jobs
    <3>3. Core(x) /\ NoWish(x) /\ \A k \in x.barred : k # "video" => Off(x, k)
      BY ZenonT(40), <3>2, AlikeFits DEF Alike
    <3> HIDE DEF x
    <3> QED
      BY <3>1, <3>3, CamerasOffFits DEF Fits
  <2>2. CASE ~(disables /\ ~w.share.disables)
    <3>1. v = w
      BY <1>2, <2>2 DEF Stop
    <3>2. OffFits(w)
      BY <1>2, <2>2 DEF OffFits
    <3> QED
      BY <3>1, <3>2 DEF Fits
  <2> QED
    BY <2>1, <2>2
<1>3. CASE w.room # "over" /\ w.job["share"].phase # "stopping" /\ w.share.active = 0
  <2>1. v = CancelStart(w, disables) /\ ~disables
    BY <1>3 DEF Stop
  <2> QED
    BY <2>1, CancelStartFits
<1>4. CASE w.room # "over" /\ w.job["share"].phase # "stopping" /\ w.share.active # 0
  <2>1. v \in BeginStop(w, disables) /\ w.job["share"].phase = "none"
    BY <1>4 DEF Stop, Core, ShareFits
  <2> QED
    BY <1>4, <2>1, BeginStopFits
<1> QED
  BY <1>1, <1>2, <1>3, <1>4

\* A start that is through.
LEMMA StartCommittedFits ==
  ASSUME NEW w, Fits(w), w.job["share"].phase = "starting", OwnsStart(w)
  PROVE  Fits(StartCommitted(w))
<1> DEFINE new == w.share.pending
           cameras == InStream(w, "video")
           on == [w EXCEPT !.stream = (StreamOf(w) \ cameras) \cup {new},
                      !.share.retained = cameras, !.share.pending = 0, !.share.active = new,
                      !.share.created = w.share.bare]
           x == [on EXCEPT !.job["share"] = NoJob]
           v == Ended(Renegotiated(on, w.job["share"].updates), "share")
<1>1. StartCommitted(w) = v
  BY DEF StartCommitted
<1>2. WorldType(w)
  BY DEF Fits, Core
<1>3. /\ new \in LiveOf(w.track) /\ new # 0 /\ new \in 1..Tracks
      /\ w.share.active = 0 /\ w.share.retained = {} /\ w.room = "active"
  BY <1>2 DEF OwnsStart, Live, LiveOf, Fits, Core, ShareFits, WorldType
<1>4. /\ cameras = {t \in StreamOf(w) \cap LiveOf(w.track) : w.track[t].kind = "video"}
      /\ StreamOf(w) \subseteq 1..Tracks
  BY <1>2 DEF InStream, OfKind, StreamOf, WorldType
<1> HIDE DEF cameras
<1>5. WorldType(on)
  BY Zenon, <1>2, <1>3, <1>4 DEF WorldType, WorldFields, ShareFields
<1>6. /\ DOMAIN x = WorldFields /\ x.track = w.track /\ x.room = w.room
      /\ x.stream = (StreamOf(w) \ cameras) \cup {new} /\ x.input = w.input
      /\ x.barred = w.barred /\ DOMAIN x.share = ShareFields
      /\ x.share.pending = 0 /\ x.share.active = new /\ x.share.retained = cameras
      /\ DOMAIN x.job = Jobs /\ x.job["share"] = NoJob /\ x.job["input"] = w.job["input"]
  BY <1>2 DEF WorldType, WorldFields, ShareFields, Jobs
<1>7. Alike(x, v) /\ v.share = x.share
  <2> HIDE DEF on
  <2> QED
    BY <1>5, CommitAlike DEF Jobs
<1> HIDE DEF x, on, v, new
<1>8. WorldType(x)
  <2>1. DOMAIN NoJob = JobFields /\ NoJob.phase = "none" /\ NoJob.at = None
    BY DEF NoJob, JobFields
  <2> QED
    BY <2>1, <1>2, <1>3, <1>4, <1>6 DEF WorldType, Jobs
<1>9. StreamOf(x) = (StreamOf(w) \ cameras) \cup {new} /\ x.stream # None
  <2>1. (StreamOf(w) \ cameras) \cup {new} \subseteq 1..Tracks
    BY <1>3, <1>4
  <2>2. (StreamOf(w) \ cameras) \cup {new} # None
    BY <2>1, TracksAssumption
  <2> QED
    BY <2>2, <1>6 DEF StreamOf
<1>10. Owned(x) \subseteq Owned(w) /\ AllOwned(x) /\ OverIsDead(x) /\ x.room # "none"
  BY <1>3, <1>4, <1>6, <1>9 DEF Fits, Core, AllOwned, OverIsDead, Owned, new
<1>11. ShareFits(x)
  BY <1>3, <1>6, <1>9 DEF ShareFits, Lives, NoJob
<1>12. InputFits(x)
  BY <1>3, <1>6 DEF Fits, Core, InputFits, Lives
<1>13. KindsFit(x)
  BY <1>3, <1>4, <1>6, <1>9 DEF Fits, Core, KindsFit, new
<1>14. OffFits(x)
  BY <1>6, <1>10 DEF Fits, OffFits, NoWish, Off, NoJob
<1> QED
  BY <1>1, <1>7, <1>8, <1>10, <1>11, <1>12, <1>13, <1>14, AlikeFits DEF Fits, Core

\* A selection that is through.
LEMMA InputCommittedFits ==
  ASSUME NEW w, Fits(w), w.job["input"].phase = "replacing", w.room # "over",
         Live(w, w.job["input"].new)
  PROVE  Fits(InputCommitted(w))
<1> DEFINE at == w.job["input"]
           old == InStream(w, at.kind)
           tr == [Stopped(w.track, old) EXCEPT ![at.new].on = at.on]
           on == [w EXCEPT !.track = [Stopped(@, old) EXCEPT ![at.new].on = at.on],
                           !.stream = (StreamOf(w) \ old) \cup {at.new},
                           !.input[at.kind] = at.on]
           x == [on EXCEPT !.job["input"] = NoJob]
           v == Ended(Renegotiated(on, at.updates), "input")
<1>1. InputCommitted(w) = v
  BY DEF InputCommitted
<1>2. WorldType(w)
  BY DEF Fits, Core
<1>3. /\ at.new \in LiveOf(w.track) /\ at.new # 0 /\ at.new \in 1..Tracks
      /\ at.kind \in Kind /\ at.on \in BOOLEAN
  BY <1>2 DEF Live, LiveOf, WorldType
<1>4. /\ old = {t \in StreamOf(w) \cap LiveOf(w.track) : w.track[t].kind = at.kind}
      /\ StreamOf(w) \subseteq 1..Tracks
  BY <1>2 DEF InStream, OfKind, StreamOf, WorldType
<1> HIDE DEF old
<1>5. EndedOnly(w.track, Stopped(w.track, old), old)
  BY <1>2, TracksChange DEF WorldType
<1>6. /\ tr \in [1..Tracks -> TrackRecord] /\ LiveOf(tr) = LiveOf(w.track) \ old
      /\ \A t \in LiveOf(tr) :
           /\ tr[t].kind = w.track[t].kind /\ tr[t].screen = w.track[t].screen
           /\ tr[t].on => w.track[t].on \/ (t = at.new /\ at.on)
  <2> DEFINE st == Stopped(w.track, old)
  <2>1. EndedOnly(w.track, st, old)
    BY <1>5
  <2>2. tr = [st EXCEPT ![at.new].on = at.on]
    OBVIOUS
  <2> HIDE DEF st, tr
  <2>3. tr \in [1..Tracks -> TrackRecord]
    BY <2>1, <2>2, <1>3 DEF EndedOnly, Same, TrackRecord
  <2>4. \A t \in 1..Tracks : tr[t].live = st[t].live /\ tr[t].kind = st[t].kind
                               /\ tr[t].screen = st[t].screen
    BY <2>1, <2>2, <1>3 DEF EndedOnly, Same, TrackRecord
  <2>5. \A t \in 1..Tracks : t # at.new => tr[t] = st[t]
    BY <2>1, <2>2, <1>3 DEF EndedOnly, Same
  <2>6. tr[at.new].on => at.on
    BY <2>1, <2>2, <1>3 DEF EndedOnly, Same, TrackRecord
  <2>7. LiveOf(tr) = LiveOf(st)
    BY <2>1, <2>3, <2>4 DEF LiveOf, EndedOnly, Same
  <2> QED
    BY <2>1, <2>3, <2>4, <2>5, <2>6, <2>7 DEF LiveOf, EndedOnly, Same
<1>7. WorldType(on)
  <2> HIDE DEF tr
  <2>1. on = [w EXCEPT !.track = tr, !.stream = (StreamOf(w) \ old) \cup {at.new},
                       !.input[at.kind] = at.on]
    BY DEF tr
  <2> HIDE DEF on
  <2> QED
    BY <2>1, <1>2, <1>3, <1>4, <1>6 DEF WorldType, WorldFields
<1>8. /\ DOMAIN x = WorldFields /\ x.track = tr /\ x.room = w.room
      /\ x.stream = (StreamOf(w) \ old) \cup {at.new}
      /\ x.input = [w.input EXCEPT ![at.kind] = at.on]
      /\ x.barred = w.barred /\ x.share = w.share
      /\ DOMAIN x.job = Jobs /\ x.job["input"] = NoJob /\ x.job["share"] = w.job["share"]
  BY <1>2 DEF WorldType, WorldFields, Jobs
<1>9. Alike(x, v) /\ v.share = x.share
  <2> HIDE DEF on
  <2> QED
    BY <1>7, CommitAlike DEF Jobs
<1> HIDE DEF x, on, v, tr
<1>10. WorldType(x)
  <2>1. /\ DOMAIN NoJob = JobFields /\ NoJob.phase = "none" /\ NoJob.at = None
        /\ NoJob.new = 0 /\ NoJob.on \in BOOLEAN /\ NoJob.kind \in Kind
    BY DEF NoJob, JobFields, Kind
  <2> QED
    BY <2>1, <1>2, <1>3, <1>4, <1>6, <1>8 DEF WorldType, Jobs
<1>11. StreamOf(x) = (StreamOf(w) \ old) \cup {at.new} /\ x.stream # None
  <2>1. (StreamOf(w) \ old) \cup {at.new} \subseteq 1..Tracks
    BY <1>3, <1>4
  <2>2. (StreamOf(w) \ old) \cup {at.new} # None
    BY <2>1, TracksAssumption
  <2> QED
    BY <2>2, <1>8 DEF StreamOf
<1>12. /\ NoJob.new = 0 /\ NoJob.phase = "none"
  BY DEF NoJob
<1>13. Owned(x) \subseteq Owned(w) /\ AllOwned(x) /\ OverIsDead(x) /\ x.room # "none"
  BY <1>3, <1>4, <1>6, <1>8, <1>11, <1>12 DEF Fits, Core, AllOwned, OverIsDead, Owned
<1>14. ShareFits(x)
  <2>1. w.job["share"].phase = "none" /\ w.share.active # 0 => w.share.active \in LiveOf(tr)
    BY <1>4, <1>6 DEF Fits, Core, ShareFits, InputFits, KindsFit, Lives
  <2>2. ShareFits(w) /\ w.room # "over"
    BY DEF Fits, Core
  <2> QED
    BY <2>1, <2>2, <1>4, <1>6, <1>8, <1>11 DEF ShareFits, Lives
<1>15. InputFits(x)
  BY <1>8, <1>12 DEF InputFits
<1>16. KindsFit(x)
  <2>1. KindsFit(w)
    BY DEF Fits, Core
  <2>2. \A t \in LiveOf(tr) : t # 0
    BY <1>6, LiveNumbers
  <2> QED
    BY <2>1, <2>2, <1>3, <1>6, <1>8, <1>11, <1>12 DEF KindsFit
<1>17. OffFits(x)
  <2>1. at.kind \in w.barred => ~at.on
    BY DEF Fits, OffFits, NoWish
  <2>2. NoWish(x)
    BY <2>1, <1>2, <1>8, <1>12 DEF Fits, OffFits, NoWish, WorldType
  <2>3. at.new \in LiveOf(w.track) /\ w.track[at.new].kind = at.kind
    BY <1>3 DEF Fits, Core, KindsFit
  <2>4. ASSUME NEW k, Off(w, k), k = at.kind => ~at.on PROVE Off(x, k)
    BY <2>3, <2>4, <1>6, <1>8, <1>13 DEF Off
  <2>5. x.job["share"].phase = "stopping" /\ x.share.disables => Off(x, "video")
    <3>1. x.job["share"].phase = "stopping" => at.kind # "video"
      BY <1>8 DEF Fits, Core, InputFits
    <3> QED
      BY <3>1, <2>4, <1>8 DEF Fits, OffFits
  <2> QED
    BY <2>1, <2>2, <2>4, <2>5, <1>8 DEF OffFits, Fits
<1> QED
  BY <1>1, <1>9, <1>10, <1>13, <1>14, <1>15, <1>16, <1>17, AlikeFits DEF Fits, Core

\* A rollback, whose track is dead.
LEMMA UndoFits ==
  ASSUME NEW w, Fits(w), NEW j \in Jobs, w.job[j].phase = "undoing", NEW v \in Undo(w, j)
  PROVE  Fits(v)
<1> DEFINE ups == {u \in w.job[j].updates : u.c \in Current(w)}
           added == {u \in ups : u.added}
           done == Removes(w, j, added)
<1>1. WorldType(w)
  BY DEF Fits, Core
<1>2. CASE ups # added
  <2>1. PICK u \in ups \ added, some \in SUBSET added : v = AsksBack(w, j, u, some)
    <3>1. Undo(w, j) = {AsksBack(w, j, u, some) : u \in ups \ added, some \in SUBSET added}
      BY <1>2 DEF Undo
    <3> HIDE DEF ups, added
    <3> QED
      BY <3>1
  <2> DEFINE re == Removes(w, j, some)
  <2>2. Alike(w, re) /\ re.share = w.share
    BY Zenon, <1>1, RemovesAlike DEF Removes, WorldType, WorldFields
  <2>3. v = [re EXCEPT !.job[j].at = u.c, !.job[j].put = u.before, !.job[j].updates = @ \ {u}]
    BY <2>1 DEF AsksBack
  <2> HIDE DEF re
  <2>4. Alike(w, v) /\ v.share = w.share
    <3>1. /\ DOMAIN re = WorldFields /\ DOMAIN re.job = Jobs
          /\ \A i \in Jobs : DOMAIN re.job[i] = JobFields
          /\ re.job[j].phase = "undoing"
      BY <2>2 DEF Alike
    <3>2. Alike(re, v) /\ v.share = re.share
      <4>1. /\ DOMAIN v = WorldFields /\ v.track = re.track /\ v.room = re.room
            /\ v.stream = re.stream /\ v.input = re.input /\ v.barred = re.barred
            /\ v.share = re.share /\ DOMAIN v.job = Jobs
        BY <2>3, <3>1 DEF WorldFields
      <4>2. \A i \in Jobs \ {j} : v.job[i] = re.job[i]
        BY <2>3, <3>1 DEF WorldFields
      <4>3. v.job[j] = [re.job[j] EXCEPT !.at = u.c, !.put = u.before, !.updates = @ \ {u}]
        BY <2>3, <3>1 DEF WorldFields
      <4>4. /\ DOMAIN v.job[j] = JobFields /\ v.job[j].phase = re.job[j].phase
            /\ v.job[j].kind = re.job[j].kind /\ v.job[j].new = re.job[j].new
            /\ v.job[j].on = re.job[j].on
        BY <4>3, <3>1 DEF JobFields
      <4>5. DOMAIN re.share = ShareFields
        BY <2>2 DEF Alike
      <4>6. \A i \in Jobs : v.job[i].phase \in {"none", "prompt"} => v.job[i].at = None
        BY <2>2, <3>1, <4>2, <4>4 DEF Alike
      <4> QED
        BY <3>1, <4>1, <4>2, <4>4, <4>5, <4>6 DEF Alike
    <3> QED
      BY <3>2, <2>2, AlikeTransitive
  <2> QED
    BY <2>4, AlikeFits DEF Fits
<1>3. CASE ups = added
  <2>1. v = IF j = "share" THEN UndoneShare(done) ELSE Ended(done, "input")
    BY <1>3 DEF Undo
  <2>2. Alike(w, done) /\ done.share = w.share
    BY Zenon, <1>1, RemovesAlike DEF Removes, WorldType, WorldFields
  <2>3. Fits(done) /\ done.job[j].phase = "undoing"
    BY Zenon, <2>2, AlikeFits DEF Fits, Alike
  <2> HIDE DEF done
  <2>4. WorldType(done)
    BY <2>3 DEF Fits, Core
  <2>5. CASE j = "share"
    <3> DEFINE on == [done EXCEPT !.share.pending = 0]
               x == [on EXCEPT !.job["share"] = NoJob]
    <3>1. v = Ended(on, "share")
      BY <2>1, <2>5 DEF UndoneShare
    <3>2. WorldType(on)
      BY <2>4 DEF WorldType, WorldFields, ShareFields
    <3>3. /\ DOMAIN x = WorldFields /\ x.track = done.track /\ x.room = done.room
          /\ x.stream = done.stream /\ x.input = done.input /\ x.barred = done.barred
          /\ DOMAIN x.share = ShareFields /\ x.share.pending = 0
          /\ x.share.active = done.share.active /\ x.share.retained = done.share.retained
          /\ x.share.disables = done.share.disables
          /\ DOMAIN x.job = Jobs /\ x.job["share"] = NoJob /\ x.job["input"] = done.job["input"]
      BY <2>4 DEF WorldType, WorldFields, ShareFields, Jobs
    <3>4. Alike(x, v) /\ v.share = x.share
      <4>1. Ended(on, "share").share = on.share /\ x.share = on.share
        BY <3>2 DEF Ended, Recovered, WorldType, WorldFields
      <4> HIDE DEF on
      <4> QED
        BY <3>1, <3>2, <4>1, EndedAlike DEF Jobs
    <3> HIDE DEF x, on
    <3>5. /\ DOMAIN NoJob = JobFields /\ NoJob.phase = "none" /\ NoJob.at = None
          /\ NoJob.new = 0
      BY DEF NoJob, JobFields
    <3>6. done.share.active = 0 /\ ~Lives(done, done.share.pending)
      BY <2>3, <2>5 DEF Fits, Core, ShareFits
    <3>7. WorldType(x)
      BY <2>4, <3>3, <3>5 DEF WorldType, Jobs
    <3>8. StreamOf(x) = StreamOf(done) /\ Owned(x) \subseteq Owned(done)
      BY <3>3 DEF StreamOf, Owned
    <3>9. AllOwned(x) /\ OverIsDead(x) /\ x.room # "none"
      BY <2>3, <3>3, <3>6, <3>8 DEF Fits, Core, AllOwned, OverIsDead, Owned, Lives
    <3>10. ShareFits(x)
      BY <2>3, <3>3, <3>5, <3>6 DEF Fits, Core, ShareFits
    <3>11. InputFits(x)
      BY <2>3, <3>3, <3>5 DEF Fits, Core, InputFits, Lives
    <3>12. KindsFit(x)
      <4>1. \A t \in LiveOf(x.track) : t # 0
        BY <3>7, LiveNumbers DEF WorldType
      <4> QED
        BY <4>1, <2>3, <3>3, <3>6, <3>8 DEF Fits, Core, KindsFit
    <3>13. OffFits(x)
      BY <2>3, <3>3, <3>5, <3>8 DEF Fits, OffFits, NoWish, Off
    <3> QED
      BY <3>4, <3>7, <3>9, <3>10, <3>11, <3>12, <3>13, AlikeFits DEF Fits, Core
  <2>6. CASE j = "input"
    <3> DEFINE x == [done EXCEPT !.job["input"] = NoJob]
    <3>1. Alike(x, v) /\ v.share = x.share
      BY Zenon, <2>1, <2>4, <2>6, EndedAlike DEF Ended, Recovered, WorldType, WorldFields, Jobs
    <3>2. /\ DOMAIN x = WorldFields /\ x.track = done.track /\ x.room = done.room
          /\ x.stream = done.stream /\ x.input = done.input /\ x.barred = done.barred
          /\ x.share = done.share
          /\ DOMAIN x.job = Jobs /\ x.job["input"] = NoJob /\ x.job["share"] = done.job["share"]
      BY <2>4 DEF WorldType, WorldFields, Jobs
    <3> HIDE DEF x
    <3>3. /\ DOMAIN NoJob = JobFields /\ NoJob.phase = "none" /\ NoJob.at = None
          /\ NoJob.new = 0 /\ NoJob.on \in BOOLEAN /\ NoJob.kind \in Kind
      BY DEF NoJob, JobFields, Kind
    <3>4. ~Lives(done, done.job["input"].new)
      BY <2>3, <2>6 DEF Fits, Core, InputFits
    <3>5. WorldType(x)
      BY <2>4, <3>2, <3>3 DEF WorldType, Jobs
    <3>6. StreamOf(x) = StreamOf(done) /\ Owned(x) \subseteq Owned(done)
      BY <3>2, <3>3 DEF StreamOf, Owned
    <3>7. AllOwned(x) /\ OverIsDead(x) /\ x.room # "none"
      BY <2>3, <3>2, <3>4, <3>6 DEF Fits, Core, AllOwned, OverIsDead, Owned, Lives
    <3>8. ShareFits(x)
      BY <2>3, <3>2, <3>6 DEF Fits, Core, ShareFits, Lives
    <3>9. InputFits(x)
      BY <3>2, <3>3 DEF InputFits
    <3>10. KindsFit(x)
      <4>1. \A t \in LiveOf(x.track) : t # 0
        BY <3>5, LiveNumbers DEF WorldType
      <4> QED
        BY <4>1, <2>3, <3>2, <3>3, <3>6 DEF Fits, Core, KindsFit
    <3>11. OffFits(x)
      BY <2>3, <3>2, <3>3, <3>6 DEF Fits, OffFits, NoWish, Off
    <3> QED
      BY <3>1, <3>5, <3>7, <3>8, <3>9, <3>10, <3>11, AlikeFits DEF Fits, Core
  <2> QED
    BY <2>5, <2>6 DEF Jobs
<1> QED
  BY <1>2, <1>3

\* What a start or a selection becomes when it is given up.
WhenGivenUp(w, j) ==
  [w EXCEPT !.track = Stopped(@, {w.job[j].new} \ {0}), !.job[j].phase = "undoing",
            !.job[j].failed = IF j = "share" THEN @ ELSE {}]

\* Its track ends, and the rollback begins.
LEMMA GivenUpFits ==
  ASSUME NEW w, Fits(w), NEW j \in Jobs, w.job[j].phase \in {"starting", "replacing"}
  PROVE  Fits(WhenGivenUp(w, j)) /\ WhenGivenUp(w, j).job[j].phase = "undoing"
<1> DEFINE ts == {w.job[j].new} \ {0}
           y == [w EXCEPT !.track = Stopped(@, ts)]
           z == WhenGivenUp(w, j)
<1>2. WorldType(w)
  BY DEF Fits, Core
<1>3. /\ DOMAIN y = WorldFields /\ y.track = Stopped(w.track, ts)
      /\ y.room = w.room /\ y.stream = w.stream /\ y.share = w.share
      /\ y.input = w.input /\ y.barred = w.barred /\ y.job = w.job
  BY <1>2 DEF WorldType, WorldFields
<1>4. /\ DOMAIN z = WorldFields /\ z.track = y.track
      /\ z.room = w.room /\ z.stream = w.stream /\ z.share = w.share
      /\ z.input = w.input /\ z.barred = w.barred
      /\ DOMAIN z.job = Jobs
      /\ \A i \in Jobs :
           /\ DOMAIN z.job[i] = JobFields /\ z.job[i].new = w.job[i].new
           /\ z.job[i].kind = w.job[i].kind /\ z.job[i].on = w.job[i].on
           /\ z.job[i].at = w.job[i].at
           /\ z.job[i].phase = IF i = j THEN "undoing" ELSE w.job[i].phase
  BY <1>2 DEF WorldType, WorldFields, Jobs, JobFields, WhenGivenUp
<1> HIDE DEF y, z
<1>5. EndedOnly(w.track, y.track, ts)
  BY <1>2, <1>3, TracksChange DEF WorldType
<1>6. w.job["share"].phase = "none" => w.share.active \notin ts
  BY DEF Fits, Core, ShareFits, InputFits, KindsFit, Jobs, Lives
<1>7. Fits(y)
  <2>1. DOMAIN y.share = ShareFields
    BY <1>2, <1>3 DEF WorldType
  <2> QED
    BY <2>1, <1>3, <1>5, <1>6, EndingFits DEF Fits, StreamOf
<1>8. WorldType(z)
  BY ZenonT(40), <1>2, <1>3, <1>4, <1>7 DEF Fits, Core, WorldType, Jobs
<1>9. StreamOf(z) = StreamOf(y) /\ Owned(z) = Owned(y)
  BY <1>3, <1>4 DEF StreamOf, Owned, Jobs
<1>10. AllOwned(z) /\ OverIsDead(z) /\ z.room # "none"
  BY <1>3, <1>4, <1>7, <1>9 DEF Fits, Core, AllOwned, OverIsDead
<1>11. ~Lives(z, w.job[j].new)
  <2>1. \A t \in LiveOf(y.track) : t # 0
    BY <1>7, LiveNumbers DEF Fits, Core, WorldType
  <2> QED
    BY <2>1, <1>4, <1>5 DEF Lives, EndedOnly
<1>12. j = "share" => w.job["share"].phase = "starting"
  BY <1>2 DEF WorldType
<1>13. ShareFits(z)
  <2>1. ShareFits(y)
    BY <1>7 DEF Fits, Core
  <2>2. CASE j = "share"
    <3>1. z.share.pending \in {0, w.job["share"].new}
      BY <2>1, <1>3, <1>4 DEF ShareFits
    <3>2. ~Lives(z, z.share.pending)
      <4>1. \A t \in LiveOf(z.track) : t # 0
        BY <1>8, LiveNumbers DEF WorldType
      <4> QED
        BY <3>1, <4>1, <1>11, <2>2 DEF Lives
    <3> QED
      BY <3>1, <3>2, <2>1, <2>2, <1>3, <1>4, <1>9, <1>12 DEF ShareFits, Jobs
  <2>3. CASE j # "share"
    BY <2>1, <2>3, <1>3, <1>4, <1>9 DEF ShareFits, Lives, Jobs
  <2> QED
    BY <2>2, <2>3
<1>14. InputFits(z)
  <2>1. InputFits(y)
    BY <1>7 DEF Fits, Core
  <2> QED
    BY <2>1, <1>3, <1>4, <1>11, <1>12 DEF InputFits, Jobs, Lives
<1>15. /\ z.share = y.share /\ z.track = y.track /\ z.input = y.input /\ z.barred = y.barred
       /\ z.job["input"].new = y.job["input"].new /\ z.job["input"].kind = y.job["input"].kind
       /\ z.job["input"].on = y.job["input"].on
       /\ z.job["input"].phase # "none" => y.job["input"].phase # "none"
       /\ z.job["share"].phase = "stopping" => y.job["share"].phase = "stopping"
  BY <1>3, <1>4 DEF Jobs
<1>16. KindsFit(z)
  <2>1. KindsFit(y)
    BY <1>7 DEF Fits, Core
  <2> QED
    BY <2>1, <1>9, <1>15 DEF KindsFit
<1>17. OffFits(z)
  <2>1. OffFits(y)
    BY <1>7 DEF Fits
  <2>2. ASSUME NEW k, Off(y, k) PROVE Off(z, k)
    BY <2>2, <1>9, <1>15 DEF Off
  <2>3. NoWish(z)
    BY <2>1, <1>15 DEF OffFits, NoWish
  <2> QED
    BY <2>1, <2>2, <2>3, <1>15 DEF OffFits
<1> QED
  BY <1>4, <1>8, <1>10, <1>13, <1>14, <1>16, <1>17 DEF Fits, Core, z

\* It is abandoned: then what was done is undone.
LEMMA AbandonFits ==
  ASSUME NEW w, Fits(w), NEW j \in Jobs, w.job[j].phase \in {"starting", "replacing"},
         NEW v \in Abandon(w, j)
  PROVE  Fits(v)
<1>1. v \in Undo(WhenGivenUp(w, j), j)
  BY DEF Abandon, WhenGivenUp
<1> QED
  BY <1>1, GivenUpFits, UndoFits

\* The connections are visited: one is asked, or the operation is through.
LEMMA SweepFits ==
  ASSUME NEW w, Fits(w), NEW j \in Jobs,
         j = "share" => w.job[j].phase = "starting" /\ OwnsStart(w),
         j = "input" => w.job[j].phase = "replacing" /\ w.room # "over" /\ Live(w, w.job[j].new),
         NEW v \in Sweep(w, j)
  PROVE  Fits(v)
<1> DEFINE open == Current(w) \ w.job[j].seen
           bare == {c \in open : Sender(w, c, w.job[j].kind) = None}
           a == Adds(w, j, bare)
<1>1. WorldType(w) /\ w.job[j].phase \in {"starting", "replacing"}
  BY DEF Fits, Core, Jobs
<1>2. CASE open # bare
  <2>1. PICK c \in open \ bare, some \in SUBSET bare : v = Asks(w, j, c, some)
    <3>1. Sweep(w, j) = {Asks(w, j, c, some) : c \in open \ bare, some \in SUBSET bare}
      BY <1>2 DEF Sweep
    <3> HIDE DEF open, bare
    <3> QED
      BY <3>1
  <2> DEFINE re == Adds(w, j, some)
  <2>2. Alike(w, re) /\ re.share = w.share
    BY Zenon, <1>1, AddsAlike DEF Adds, WorldType, WorldFields
  <2>3. v = [re EXCEPT !.job[j].at = c, !.job[j].seen = @ \cup {c}]
    BY <2>1 DEF Asks
  <2> HIDE DEF re
  <2>4. Alike(w, v) /\ v.share = w.share
    <3>1. /\ DOMAIN re = WorldFields /\ DOMAIN re.job = Jobs
          /\ \A i \in Jobs : DOMAIN re.job[i] = JobFields
          /\ re.job[j].phase \in {"starting", "replacing"}
      BY <1>1, <2>2 DEF Alike
    <3>2. Alike(re, v) /\ v.share = re.share
      BY <3>1, <2>2, <2>3 DEF Alike, WorldFields, JobFields, Jobs
    <3> QED
      BY <3>2, <2>2, AlikeTransitive
  <2> QED
    BY <2>4, AlikeFits DEF Fits
<1>3. CASE open = bare
  <2>1. v = Committed(a, j)
    BY <1>3 DEF Sweep
  <2>2. Alike(w, a) /\ a.share = w.share
    BY Zenon, <1>1, AddsAlike DEF Adds, WorldType, WorldFields
  <2> HIDE DEF a
  <2>3. Fits(a) /\ a.job[j].phase = w.job[j].phase /\ a.job[j].new = w.job[j].new
        /\ a.room = w.room /\ a.track = w.track
    BY <2>2, AlikeFits DEF Fits, Alike
  <2>4. CASE j = "share"
    <3>1. OwnsStart(a)
      BY <2>2, <2>3, <2>4 DEF OwnsStart, Live
    <3> QED
      BY <2>1, <2>3, <2>4, <3>1, StartCommittedFits DEF Committed
  <2>5. CASE j = "input"
    <3>1. Live(a, a.job["input"].new)
      BY <2>3, <2>5 DEF Live
    <3> QED
      BY <2>1, <2>3, <2>5, <3>1, InputCommittedFits DEF Committed
  <2> QED
    BY <2>4, <2>5 DEF Jobs
<1> QED
  BY <1>2, <1>3

\* The code goes on after an await.
LEMMA ResumeFits ==
  ASSUME NEW w, Fits(w), NEW j \in Jobs, w.job[j].phase \notin {"none", "prompt"},
         NEW v \in Resume(w, j)
  PROVE  Fits(v)
<1>1. WorldType(w)
  BY DEF Fits, Core
<1>2. /\ j = "share" => w.job[j].phase \in {"starting", "stopping", "undoing"}
      /\ j = "input" => w.job[j].phase \in {"replacing", "undoing"}
  BY <1>1 DEF WorldType
<1>3. CASE w.job[j].phase = "starting"
  <2>1. j = "share" /\ v \in IF OwnsStart(w) THEN Sweep(w, j) ELSE Abandon(w, j)
    BY <1>2, <1>3 DEF Resume, Jobs
  <2> QED
    BY <1>3, <2>1, SweepFits, AbandonFits
<1>4. CASE w.job[j].phase = "stopping"
  <2>1. j = "share" /\ v \in IF OwnsStop(w) THEN StopSweep(w) ELSE {Ended(w, j)}
    BY <1>2, <1>4 DEF Resume, Jobs
  <2>2. CASE w.room # "over"
    BY <1>4, <2>1, <2>2, StopSweepFits DEF OwnsStop
  <2>3. CASE w.room = "over"
    <3> DEFINE x == [w EXCEPT !.job["share"] = NoJob]
    <3>1. v = Ended(w, "share")
      BY <2>1, <2>3 DEF OwnsStop
    <3>2. Alike(x, v) /\ v.share = x.share
      BY Zenon, <3>1, <1>1, EndedAlike DEF Ended, Recovered, WorldType, WorldFields, Jobs
    <3>3. /\ DOMAIN x = WorldFields /\ x.track = w.track /\ x.room = w.room
          /\ x.stream = w.stream /\ x.input = w.input /\ x.barred = w.barred
          /\ x.share = w.share
          /\ DOMAIN x.job = Jobs /\ x.job["share"] = NoJob /\ x.job["input"] = w.job["input"]
      BY <1>1 DEF WorldType, WorldFields, Jobs
    <3> HIDE DEF x
    <3>4. /\ DOMAIN NoJob = JobFields /\ NoJob.phase = "none" /\ NoJob.at = None
          /\ NoJob.new = 0
      BY DEF NoJob, JobFields
    <3>5. LiveOf(x.track) = {} /\ w.share.active = 0 /\ w.share.pending = 0
      BY <1>4, <2>1, <2>3, <3>3 DEF Fits, Core, OverIsDead, ShareFits
    <3>6. WorldType(x)
      BY <1>1, <3>3, <3>4 DEF WorldType, Jobs
    <3>7. AllOwned(x) /\ OverIsDead(x) /\ x.room # "none"
      BY <2>3, <3>3, <3>5 DEF AllOwned, OverIsDead
    <3>8. ShareFits(x)
      BY <3>3, <3>4, <3>5 DEF Fits, Core, ShareFits
    <3>9. InputFits(x)
      BY <3>3, <3>4, <3>5 DEF Fits, Core, InputFits, Lives
    <3>10. KindsFit(x)
      BY <3>5 DEF KindsFit
    <3>11. OffFits(x)
      BY <3>3, <3>4, <3>5 DEF Fits, OffFits, NoWish, Off
    <3> QED
      BY <3>2, <3>6, <3>7, <3>8, <3>9, <3>10, <3>11, AlikeFits DEF Fits, Core
  <2> QED
    BY <2>2, <2>3
<1>5. CASE w.job[j].phase = "replacing"
  <2>1. j = "input" /\ v \in IF w.room = "over" \/ ~Live(w, w.job[j].new) THEN Abandon(w, j)
                             ELSE Sweep(w, j)
    BY <1>2, <1>5 DEF Resume, Jobs
  <2> QED
    BY <1>5, <2>1, SweepFits, AbandonFits
<1>6. CASE w.job[j].phase = "undoing"
  <2>1. v \in Undo(w, j)
    BY <1>6 DEF Resume
  <2> QED
    BY <1>6, <2>1, UndoFits
<1> QED
  BY <1>2, <1>3, <1>4, <1>5, <1>6 DEF Jobs

-----------------------------------------------------------------------------
(* The preparation                                                         *)

AllDevices == {None} \cup UNION {Device[k] : k \in Kind}
Lists == [Kind -> SUBSET UNION {Device[k] : k \in Kind}]
Request == [kind : Kind, device : AllDevices]
PreFields ==
  {"over", "status", "todo", "stream", "from", "selected", "inputs", "issue", "want", "asked",
   "stale", "emits", "dirty", "unread"}

PreType(p) ==
  /\ DOMAIN p = PreFields /\ p.over \in BOOLEAN
  /\ p.todo \in Seq(Request) /\ p.stream \subseteq 1..Tracks
  /\ p.from \in [Kind -> AllDevices] /\ p.selected \in [Kind -> AllDevices]
  /\ p.inputs \in Lists /\ p.asked \in Lists \cup {None}
  /\ p.issue \in [Kind -> BOOLEAN] /\ p.want \in [Kind -> BOOLEAN]

\* A list on its way is the one of now, or a change is unheard of, or it will be
\* asked for again; a list that was read in time is shown with what is selected
\* of it; and what a track is from is plugged in.
ListFits(p, tr, has, pending) ==
  ~p.over =>
    /\ p.todo # <<>> => p.status = "checking"
    /\ ~pending /\ p.asked # None /\ ~p.stale => p.asked = has
    /\ p.status = "ready" /\ p.asked # None => p.emits
    /\ p.status = "ready" /\ p.asked = None => ~p.dirty
    /\ ~pending /\ p.status = "ready" /\ p.asked = None /\ ~p.unread =>
         p.inputs = has /\ \A k \in Kind : has[k] # {} => p.selected[k] \in has[k]
    /\ \A k \in Kind : OfKind(tr, p.stream, k) # {} => p.from[k] \in has[k]

\* What the preparation holds is live, no screen, and nothing once it is over.
TracksFit(p, tr) ==
  /\ tr \in [1..Tracks -> TrackRecord]
  /\ ~p.over => LiveOf(tr) \subseteq p.stream
  /\ ~p.over => \A t \in LiveOf(tr) : ~tr[t].screen
  /\ p.over => p.stream = {}

PreparationFits ==
  /\ PreType(pre) /\ plugged \in Lists
  /\ TracksFit(pre, track)
  /\ ListFits(pre, track, plugged, changes.pending)
  /\ DOMAIN screen = {"alive", "doing", "asked"} /\ (screen.alive <=> ~pre.over)
  /\ screen.doing \in Actions \cup {None}

\* The requests that a check makes are requests.
LEMMA TodoIs ==
  ASSUME NEW kinds \in Seq(Kind), kinds # <<>>, NEW p, PreType(p), NEW device \in AllDevices
  PROVE  LET todo == [i \in DOMAIN kinds |-> Chosen(p, kinds[i], device)]
         IN todo \in Seq(Request) /\ todo # <<>>
<1> DEFINE todo == [i \in DOMAIN kinds |-> Chosen(p, kinds[i], device)]
<1>1. PICK n \in Nat : kinds \in [1..n -> Kind]
  OBVIOUS
<1>2. \A i \in 1..n : Chosen(p, kinds[i], device) \in Request
  BY <1>1 DEF Chosen, Request, PreType
<1>3. todo \in [1..n -> Request]
  BY <1>1, <1>2
<1>4. todo \in Seq(Request)
  BY <1>3
<1>5. todo # <<>>
  BY <1>1, <1>3
<1> QED
  BY <1>4, <1>5

\* A check starts: #runRequests.
LEMMA RunFits ==
  ASSUME NEW p, PreType(p), NEW kinds \in Seq(Kind), kinds # <<>>, NEW device \in AllDevices,
         NEW tr, NEW has, NEW pending
  PROVE  /\ PreType(Run(p, kinds, device))
         /\ Run(p, kinds, device).over = p.over /\ Run(p, kinds, device).stream = p.stream
         /\ ListFits(p, tr, has, pending) => ListFits(Run(p, kinds, device), tr, has, pending)
<1> DEFINE todo == [i \in DOMAIN kinds |-> Chosen(p, kinds[i], device)]
           q == Run(p, kinds, device)
<1>1. CASE p.over \/ p.status = "checking"
  BY <1>1 DEF Run
<1>2. CASE ~(p.over \/ p.status = "checking")
  <2>1. todo \in Seq(Request) /\ todo # <<>>
    BY TodoIs
  <2>2. q = [[p EXCEPT !.status = "checking", !.todo = todo] EXCEPT !.dirty = FALSE]
    BY <1>2 DEF Run, Emitted
  <2> HIDE DEF q, todo
  <2>3. /\ DOMAIN q = PreFields /\ q.over = p.over /\ q.stream = p.stream /\ q.todo = todo
        /\ q.status = "checking" /\ q.from = p.from /\ q.selected = p.selected
        /\ q.inputs = p.inputs /\ q.issue = p.issue /\ q.want = p.want /\ q.asked = p.asked
        /\ q.stale = p.stale /\ q.emits = p.emits
    BY <2>2 DEF PreType, PreFields
  <2>4. PreType(q)
    BY <2>1, <2>3 DEF PreType
  <2>5. ListFits(p, tr, has, pending) => ListFits(q, tr, has, pending)
    BY <2>3 DEF ListFits
  <2> QED
    BY <2>3, <2>4, <2>5 DEF q
<1> QED
  BY <1>1, <1>2

\* Of a list that is asked for: what stays, and that it will be the one of now.
ListAsked(p, q, emits) ==
  /\ DOMAIN q = PreFields /\ q.over = p.over /\ q.stream = p.stream /\ q.todo = p.todo
  /\ q.status = p.status /\ q.from = p.from /\ q.selected = p.selected /\ q.inputs = p.inputs
  /\ q.issue = p.issue /\ q.want = p.want /\ q.dirty = p.dirty
  /\ q.asked # None /\ (q.stale \/ q.asked = plugged) /\ (emits \/ p.emits => q.emits)

\* #requestDeviceRefresh asks for a list, or notes that the one it waits for is old.
LEMMA RefreshIs ==
  ASSUME NEW p, PreType(p), ~p.over, plugged \in Lists, NEW emits \in BOOLEAN
  PROVE  ListAsked(p, RefreshRequested(p, emits), emits) /\ PreType(RefreshRequested(p, emits))
<1>1. plugged # None
  BY MediaPathAssumption DEF Lists
<1>2. CASE p.asked # None
  BY <1>2 DEF RefreshRequested, ListAsked, PreType, PreFields
<1>3. CASE p.asked = None
  BY <1>1, <1>3 DEF RefreshRequested, ListAsked, PreType, PreFields
<1> QED
  BY <1>2, <1>3

\* The first request is one, and so are the others.
LEMMA TailIs ==
  ASSUME NEW todo \in Seq(Request), todo # <<>>
  PROVE  Tail(todo) \in Seq(Request) /\ Head(todo) \in Request
OBVIOUS

\* What happens after a request was answered, with its new tracks if any.
LEMMA AnsweredFits ==
  ASSUME NEW p, PreType(p), ~p.over, p.todo # <<>>, p.status = "checking",
         plugged \in Lists, NEW pending, NEW tr,
         ~pending /\ p.asked # None /\ ~p.stale => p.asked = plugged,
         \A k \in Kind : OfKind(tr, p.stream, k) # {} => p.from[k] \in plugged[k]
  PROVE  /\ PreType(Answered(p)) /\ ~Answered(p).over /\ Answered(p).stream = p.stream
         /\ ListFits(Answered(p), tr, plugged, pending)
<1> DEFINE next == [p EXCEPT !.todo = Tail(@)]
           q == Answered(p)
<1>1. q = IF next.todo = <<>> THEN RefreshRequested(next, FALSE) ELSE next
  BY DEF Answered
<1>2. /\ DOMAIN next = PreFields /\ next.over = p.over /\ next.stream = p.stream
      /\ next.todo = Tail(p.todo)
      /\ next.status = "checking" /\ next.from = p.from /\ next.selected = p.selected
      /\ next.inputs = p.inputs /\ next.issue = p.issue /\ next.want = p.want
      /\ next.asked = p.asked /\ next.stale = p.stale /\ next.emits = p.emits
  BY DEF PreType, PreFields
<1> HIDE DEF next, q
<1>3. PreType(next)
  BY <1>2, TailIs DEF PreType
<1>4. CASE next.todo = <<>>
  <2>1. ListAsked(next, q, FALSE) /\ PreType(q)
    BY <1>1, <1>2, <1>3, <1>4, RefreshIs
  <2> QED
    BY <2>1, <1>2, <1>4 DEF ListAsked, ListFits, q
<1>5. CASE next.todo # <<>>
  <2>1. q = next
    BY <1>1, <1>5
  <2> QED
    BY <2>1, <1>2, <1>3 DEF ListFits, q
<1> QED
  BY <1>4, <1>5

\* Requests of a preparation that is over are dropped.
LEMMA DroppedFits ==
  ASSUME NEW p, PreType(p)
  PROVE  LET q == [p EXCEPT !.todo = <<>>]
         IN PreType(q) /\ q.over = p.over /\ q.stream = p.stream
<1>1. <<>> \in Seq(Request)
  OBVIOUS
<1> QED
  BY <1>1 DEF PreType, PreFields

\* A device is granted.
LEMMA DeviceGrantedFits ==
  ASSUME PreparationFits, DeviceGranted
  PROVE  PreparationFits' /\ (pre'.over <=> pre.over) /\ (pre.over => UNCHANGED track)
<1> USE DEF PreparationFits
<1>1. PICK d \in plugged[Head(pre.todo).kind] : Granted(d)
  BY DEF DeviceGranted
<1>2. pre.todo # <<>> /\ UNCHANGED <<screen, plugged, changes>> /\ Spare(track, pre.stream) # {}
  BY DEF DeviceGranted
<1>3. CASE pre.over
  <2>1. pre' = [pre EXCEPT !.todo = <<>>] /\ track' = track
    BY <1>1, <1>3 DEF Granted
  <2>2. PreType(pre') /\ pre'.over /\ pre'.stream = {}
    BY <2>1, <1>3, DroppedFits DEF TracksFit
  <2> QED
    BY <1>2, <1>3, <2>1, <2>2 DEF TracksFit, ListFits
<1>4. CASE ~pre.over
  <2> DEFINE kind == Head(pre.todo).kind
             new == Unused(track, pre.stream)
             old == LiveIn(pre, kind)
             p == [pre EXCEPT !.stream = (@ \ old) \cup {new}, !.from[kind] = d,
                              !.selected[kind] = d, !.issue[kind] = FALSE, !.dirty = TRUE]
             tr == [Stopped(track, old) EXCEPT ![new] = NewTrack(kind, FALSE, pre.want[kind])]
  <2>1. pre' = Answered(p) /\ track' = tr
    BY <1>1, <1>4 DEF Granted
  <2>2. Head(pre.todo) \in Request
    BY <1>2, TailIs DEF PreType
  <2>3. kind \in Kind /\ d \in AllDevices /\ pre.want[kind] \in BOOLEAN
    BY <2>2 DEF Request, PreType, AllDevices, Lists
  <2>4. new \in 1..Tracks /\ new \notin pre.stream /\ new \notin LiveOf(track)
    BY <1>2 DEF Unused, Spare, TracksFit
  <2> HIDE DEF new, kind
  <2>5. /\ DOMAIN p = PreFields /\ p.over = pre.over /\ p.stream = (pre.stream \ old) \cup {new}
        /\ p.todo = pre.todo
        /\ p.status = pre.status /\ p.from = [pre.from EXCEPT ![kind] = d]
        /\ p.selected = [pre.selected EXCEPT ![kind] = d]
        /\ p.inputs = pre.inputs /\ p.issue = [pre.issue EXCEPT ![kind] = FALSE]
        /\ p.want = pre.want
        /\ p.asked = pre.asked /\ p.stale = pre.stale /\ p.emits = pre.emits
    BY DEF PreType, PreFields
  <2> HIDE DEF p
  <2>6. PreType(p)
    BY <2>3, <2>4, <2>5 DEF PreType
  <2>7. /\ tr \in [1..Tracks -> TrackRecord]
        /\ LiveOf(tr) = (LiveOf(track) \ old) \cup {new}
        /\ tr[new].kind = kind /\ ~tr[new].screen
        /\ \A t \in LiveOf(track) \ old : tr[t].kind = track[t].kind /\ tr[t].screen = track[t].screen
    <3> DEFINE st == Stopped(track, old)
    <3>1. EndedOnly(track, st, old)
      BY TracksChange DEF TracksFit
    <3>2. tr = [st EXCEPT ![new] = NewTrack(kind, FALSE, pre.want[kind])]
      OBVIOUS
    <3> HIDE DEF st, tr, old
    <3>3. NewTrack(kind, FALSE, pre.want[kind]) \in TrackRecord
      BY <2>3 DEF NewTrack, TrackRecord, Kind
    <3>4. tr \in [1..Tracks -> TrackRecord] /\ tr[new] = NewTrack(kind, FALSE, pre.want[kind])
          /\ \A t \in 1..Tracks : t # new => tr[t] = st[t]
      BY <3>1, <3>2, <3>3, <2>4 DEF EndedOnly, Same
    <3>5. LiveOf(tr) = LiveOf(st) \cup {new}
      BY <3>1, <3>4, <2>4 DEF LiveOf, EndedOnly, Same, NewTrack
    <3>6. \A t \in LiveOf(track) \ old : t # new /\ t \in LiveOf(st) /\ t \in 1..Tracks
      BY <3>1, <2>4 DEF EndedOnly, LiveOf, Same
    <3> QED
      BY <3>1, <3>4, <3>5, <3>6 DEF EndedOnly, Same, NewTrack
  <2> HIDE DEF tr
  <2>8. ASSUME NEW k \in Kind, OfKind(tr, p.stream, k) # {}
        PROVE  p.from[k] \in plugged[k]
    <3>1. CASE k = kind
      BY <3>1, <2>3, <2>5, <1>1 DEF PreType, kind
    <3>2. CASE k # kind
      <4>1. OfKind(track, pre.stream, k) # {}
        BY <3>2, <2>5, <2>7, <2>8 DEF OfKind
      <4>2. pre.from[k] \in plugged[k]
        BY <4>1, <1>4 DEF ListFits
      <4> QED
        BY <4>2, <3>2, <2>3, <2>5 DEF PreType
    <3> QED
      BY <3>1, <3>2
  <2>9. pre.status = "checking"
        /\ (~changes.pending /\ pre.asked # None /\ ~pre.stale => pre.asked = plugged)
    BY <1>2, <1>4 DEF ListFits
  <2>10. PreType(Answered(p)) /\ ~Answered(p).over /\ Answered(p).stream = p.stream
         /\ ListFits(Answered(p), tr, plugged, changes.pending)
    BY <1>2, <1>4, <2>5, <2>6, <2>8, <2>9, AnsweredFits
  <2>11. TracksFit(Answered(p), tr)
    BY <2>4, <2>5, <2>7, <2>10, <1>4 DEF TracksFit
  <2> QED
    BY <1>2, <1>4, <2>1, <2>10, <2>11
<1> QED
  BY <1>3, <1>4

\* A device is refused.
LEMMA DeviceRefusedFits ==
  ASSUME PreparationFits, DeviceRefused
  PROVE  PreparationFits' /\ (pre'.over <=> pre.over) /\ UNCHANGED track
<1> USE DEF PreparationFits
<1>1. pre.todo # <<>> /\ UNCHANGED <<track, screen, plugged, changes>>
  BY DEF DeviceRefused
<1>2. CASE pre.over
  <2>1. pre' = [pre EXCEPT !.todo = <<>>]
    BY <1>2 DEF DeviceRefused
  <2>2. PreType(pre') /\ pre'.over /\ pre'.stream = {}
    BY <2>1, <1>2, DroppedFits DEF TracksFit
  <2> QED
    BY <1>1, <1>2, <2>2 DEF TracksFit, ListFits
<1>3. CASE ~pre.over
  <2> DEFINE p == [pre EXCEPT !.issue[Head(pre.todo).kind] = TRUE, !.dirty = TRUE]
  <2>1. pre' = Answered(p)
    BY <1>3 DEF DeviceRefused
  <2>2. /\ DOMAIN p = PreFields /\ p.over = pre.over /\ p.stream = pre.stream
        /\ p.todo = pre.todo /\ p.status = pre.status /\ p.from = pre.from
        /\ p.selected = pre.selected /\ p.inputs = pre.inputs
        /\ p.issue = [pre.issue EXCEPT ![Head(pre.todo).kind] = TRUE] /\ p.want = pre.want
        /\ p.asked = pre.asked /\ p.stale = pre.stale /\ p.emits = pre.emits
    BY DEF PreType, PreFields
  <2> HIDE DEF p
  <2>3. PreType(p)
    BY Zenon, <2>2 DEF PreType
  <2>4. /\ pre.status = "checking"
        /\ ~changes.pending /\ pre.asked # None /\ ~pre.stale => pre.asked = plugged
        /\ \A k \in Kind : OfKind(track, pre.stream, k) # {} => pre.from[k] \in plugged[k]
    BY <1>1, <1>3 DEF ListFits
  <2>5. PreType(Answered(p)) /\ ~Answered(p).over /\ Answered(p).stream = p.stream
        /\ ListFits(Answered(p), track, plugged, changes.pending)
    BY <1>1, <1>3, <2>2, <2>3, <2>4, AnsweredFits
  <2>6. TracksFit(Answered(p), track)
    BY <2>2, <2>5, <1>3 DEF TracksFit
  <2> QED
    BY <1>1, <1>3, <2>1, <2>5, <2>6
<1> QED
  BY <1>2, <1>3

\* What is selected of a list that is read.
LEMMA SelectionIs ==
  ASSUME NEW p, PreType(p), NEW list \in Lists, NEW k \in Kind
  PROVE  /\ Selection(p, k, list[k]) \in AllDevices
         /\ (LiveIn(p, k) # {} => p.from[k] \in list[k]) /\ list[k] # {} =>
              Selection(p, k, list[k]) \in list[k]
<1>1. list[k] \subseteq UNION {Device[i] : i \in Kind}
  BY DEF Lists
<1>2. list[k] # {} => (CHOOSE d \in list[k] : TRUE) \in list[k]
  OBVIOUS
<1> QED
  BY <1>1, <1>2 DEF Selection, PreType, AllDevices

\* The list arrives, or fails to.
LEMMA ListArrivesFits ==
  ASSUME PreparationFits, ListArrives \/ ListFails
  PROVE  PreparationFits' /\ (pre'.over <=> pre.over) /\ UNCHANGED track
<1> USE DEF PreparationFits
<1>1. /\ pre.asked # None /\ pre.asked \in Lists
      /\ UNCHANGED <<track, screen, plugged, changes>>
  BY DEF ListArrives, ListFails, PreType
<1>2. PICK list \in {pre.asked, None} : pre' = ListRead(pre, list)
  BY DEF ListArrives, ListFails
<1>3. CASE pre.stale
  <2>1. pre' = [pre EXCEPT !.asked = plugged, !.stale = FALSE]
    BY <1>2, <1>3 DEF ListRead
  <2>2. /\ DOMAIN pre' = PreFields /\ pre'.over = pre.over /\ pre'.stream = pre.stream
        /\ pre'.todo = pre.todo /\ pre'.status = pre.status /\ pre'.from = pre.from
        /\ pre'.selected = pre.selected /\ pre'.inputs = pre.inputs /\ pre'.issue = pre.issue
        /\ pre'.want = pre.want /\ pre'.asked = plugged /\ pre'.emits = pre.emits
    BY <2>1 DEF PreType, PreFields
  <2>3. PreType(pre')
    BY <2>2 DEF PreType
  <2>4. plugged # None
    BY MediaPathAssumption DEF Lists
  <2>5. ListFits(pre', track, plugged, changes.pending)
    BY <1>1, <2>2, <2>4 DEF ListFits
  <2>6. TracksFit(pre', track)
    BY <2>2 DEF TracksFit
  <2> QED
    BY <1>1, <2>2, <2>3, <2>5, <2>6
<1>4. CASE ~pre.stale
  <2> DEFINE sel == [k \in Kind |-> Selection(pre, k, pre.asked[k])]
             p == Applied(pre, list)
             told == IF p.emits THEN Emitted([p EXCEPT !.asked = None, !.emits = FALSE])
                     ELSE [p EXCEPT !.asked = None]
  <2>1. pre' = IF told.status = "checking" /\ told.todo = <<>>
               THEN Emitted([told EXCEPT !.status = "ready"]) ELSE told
    BY Zenon, <1>2, <1>4 DEF ListRead, Refreshed
  <2>2. sel \in [Kind -> AllDevices]
    BY <1>1, SelectionIs
  <2>3. ~changes.pending /\ ~pre.over =>
          \A k \in Kind : plugged[k] # {} => sel[k] \in plugged[k]
    <3> SUFFICES ASSUME ~changes.pending, ~pre.over, NEW k \in Kind, plugged[k] # {}
                 PROVE  sel[k] \in plugged[k]
      OBVIOUS
    <3>1. pre.asked = plugged /\ (LiveIn(pre, k) # {} => pre.from[k] \in plugged[k])
      BY <1>1, <1>4 DEF ListFits, LiveIn
    <3>2. Selection(pre, k, plugged[k]) \in plugged[k]
      BY <3>1, SelectionIs
    <3> QED
      BY <3>1, <3>2
  <2> HIDE DEF sel
  <2>4. /\ DOMAIN p = PreFields /\ p.over = pre.over /\ p.stream = pre.stream
        /\ p.todo = pre.todo /\ p.status = pre.status /\ p.from = pre.from
        /\ p.issue = pre.issue /\ p.want = pre.want /\ p.emits = pre.emits
        /\ \/ p.unread /\ p.selected = pre.selected /\ p.inputs = pre.inputs
              /\ p.dirty = pre.dirty
           \/ ~p.unread /\ p.selected = sel /\ p.inputs = pre.asked
    <3>1. CASE list = None
      BY <3>1 DEF Applied, PreType, PreFields
    <3>2. CASE list # None
      <4>1. /\ list = pre.asked
            /\ p = [pre EXCEPT !.inputs = pre.asked, !.dirty = TRUE, !.unread = FALSE,
                              !.selected = sel]
        BY <1>2, <3>2, Zenon DEF Applied, sel
      <4> HIDE DEF p
      <4> QED
        BY <4>1 DEF PreType, PreFields
    <3> QED
      BY <3>1, <3>2
  <2> HIDE DEF p
  <2>5. /\ DOMAIN told = PreFields /\ told.over = pre.over /\ told.stream = pre.stream
        /\ told.todo = pre.todo /\ told.status = pre.status /\ told.from = pre.from
        /\ told.selected = p.selected /\ told.inputs = p.inputs /\ told.issue = pre.issue
        /\ told.want = pre.want /\ told.asked = None /\ told.unread = p.unread
        /\ (pre.emits => ~told.dirty)
    <3>1. CASE p.emits
      BY <2>4, <3>1 DEF Emitted, PreFields
    <3>2. CASE ~p.emits
      BY <2>4, <3>2 DEF PreFields
    <3> QED
      BY <3>1, <3>2
  <2> HIDE DEF told
  <2>6. /\ DOMAIN pre' = PreFields /\ pre'.over = pre.over /\ pre'.stream = pre.stream
        /\ pre'.todo = pre.todo /\ pre'.from = pre.from
        /\ pre'.selected = p.selected /\ pre'.inputs = p.inputs /\ pre'.issue = pre.issue
        /\ pre'.want = pre.want /\ pre'.asked = None /\ pre'.unread = p.unread
        /\ \/ pre'.status = pre.status /\ (pre.emits => ~pre'.dirty)
              /\ ~(pre.status = "checking" /\ pre.todo = <<>>)
           \/ pre'.status = "ready" /\ ~pre'.dirty /\ pre.todo = <<>>
    <3>1. CASE told.status = "checking" /\ told.todo = <<>>
      BY <2>1, <2>5, <3>1 DEF Emitted, PreFields
    <3>2. CASE ~(told.status = "checking" /\ told.todo = <<>>)
      BY <2>1, <2>5, <3>2
    <3> QED
      BY <3>1, <3>2
  <2>7. PreType(pre')
    BY <2>2, <2>4, <2>6, <1>1 DEF PreType
  <2>8. ListFits(pre', track, plugged, changes.pending)
    <3> SUFFICES ASSUME ~pre.over PROVE ListFits(pre', track, plugged, changes.pending)
      BY <2>6 DEF ListFits
    <3>1. /\ pre'.todo # <<>> => pre'.status = "checking"
          /\ pre'.status = "ready" => ~pre'.dirty
      BY <2>6, <1>1 DEF ListFits
    <3>2. ~changes.pending /\ ~pre'.unread => pre'.inputs = plugged /\ pre'.selected = sel
      BY <2>4, <2>6, <1>1, <1>4 DEF ListFits
    <3> QED
      BY <3>1, <3>2, <2>3, <2>6 DEF ListFits
  <2>9. TracksFit(pre', track)
    BY <2>6 DEF TracksFit
  <2> QED
    BY <1>1, <2>6, <2>7, <2>8, <2>9
<1> QED
  BY <1>3, <1>4

\* A button is pressed, a device comes or goes, and the page hears of it.
LEMMA TogglePrejoinFits ==
  ASSUME PreparationFits, NEW k \in Kind, TogglePrejoin(k)
  PROVE  PreparationFits' /\ ~pre.over /\ ~pre'.over
<1> USE DEF PreparationFits
<1>1. ~pre.over /\ UNCHANGED <<screen, plugged, changes>>
  BY DEF TogglePrejoin
<1>2. PICK on \in BOOLEAN : /\ track' = Switched(track, LiveIn(pre, k), on)
                            /\ pre' = Emitted([pre EXCEPT !.want[k] = on])
  BY DEF TogglePrejoin
<1>3. Same(track, track') /\ LiveOf(track') = LiveOf(track)
  <2>1. TurnedOff(track, Switched(track, LiveIn(pre, k), FALSE), LiveIn(pre, k))
        /\ TurnedOn(track, Switched(track, LiveIn(pre, k), TRUE), LiveIn(pre, k))
    BY TracksChange DEF TracksFit
  <2>2. CASE on
    BY <1>2, <2>1, <2>2 DEF TurnedOn
  <2>3. CASE ~on
    BY <1>2, <2>1, <2>3 DEF TurnedOff
  <2> QED
    BY <2>2, <2>3
<1>4. /\ DOMAIN pre' = PreFields /\ pre'.over = pre.over /\ pre'.stream = pre.stream
      /\ pre'.todo = pre.todo /\ pre'.status = pre.status /\ pre'.from = pre.from
      /\ pre'.selected = pre.selected /\ pre'.inputs = pre.inputs /\ pre'.issue = pre.issue
      /\ pre'.want = [pre.want EXCEPT ![k] = on] /\ pre'.asked = pre.asked
      /\ pre'.stale = pre.stale /\ pre'.emits = pre.emits /\ ~pre'.dirty
      /\ pre'.unread = pre.unread
  BY <1>2 DEF Emitted, PreType, PreFields
<1>5. PreType(pre')
  BY <1>2, <1>4 DEF PreType
<1>6. TracksFit(pre', track')
  BY <1>3, <1>4 DEF TracksFit, Same
<1>7. \A i \in Kind : OfKind(track', pre'.stream, i) = OfKind(track, pre.stream, i)
  BY <1>3, <1>4 DEF OfKind, Same
<1>8. ListFits(pre', track', plugged, changes.pending)
  BY <1>1, <1>4, <1>7 DEF ListFits
<1> QED
  BY <1>1, <1>4, <1>5, <1>6, <1>8

\* A device comes.
LEMMA PlugInFits ==
  ASSUME PreparationFits, NEW k \in Kind, NEW d \in Device[k], PlugIn(k, d)
  PROVE  PreparationFits' /\ ~pre.over /\ ~pre'.over
<1> USE DEF PreparationFits
<1>1. /\ ~pre.over /\ plugged' = [plugged EXCEPT ![k] = @ \cup {d}] /\ changes'.pending
      /\ UNCHANGED <<track, pre, screen>>
  BY DEF PlugIn
<1>2. plugged' \in Lists /\ \A i \in Kind : plugged[i] \subseteq plugged'[i]
  BY <1>1 DEF Lists
<1>3. ListFits(pre, track, plugged', changes'.pending)
  BY <1>1, <1>2 DEF ListFits
<1> QED
  BY <1>1, <1>2, <1>3

\* A device goes, and its track with it.
LEMMA PullOutFits ==
  ASSUME PreparationFits, NEW k \in Kind, NEW d \in Device[k], PullOut(k, d)
  PROVE  PreparationFits' /\ ~pre.over /\ ~pre'.over
<1> USE DEF PreparationFits
<1> DEFINE ts == IF pre.from[k] = d THEN LiveIn(pre, k) ELSE {}
<1>1. /\ ~pre.over /\ plugged' = [plugged EXCEPT ![k] = @ \ {d}] /\ changes'.pending
      /\ track' = Stopped(track, ts) /\ pre' = EndedIn(pre, ts) /\ UNCHANGED screen
  BY DEF PullOut
<1>2. plugged' \in Lists /\ \A i \in Kind : plugged'[i] = IF i = k THEN plugged[i] \ {d} ELSE plugged[i]
  BY <1>1 DEF Lists
<1>3. EndedOnly(track, track', ts)
  BY <1>1, TracksChange DEF TracksFit
<1>4. \A t \in ts : track[t].kind = k
  BY DEF LiveIn, OfKind
<1>5. pre.from[k] = d => ts = LiveIn(pre, k)
  OBVIOUS
<1> HIDE DEF ts
<1>6. /\ DOMAIN pre' = PreFields /\ pre'.over = pre.over /\ pre'.stream = pre.stream \ ts
      /\ pre'.todo = pre.todo /\ pre'.status = pre.status /\ pre'.from = pre.from
      /\ pre'.selected = pre.selected /\ pre'.inputs = pre.inputs
      /\ pre'.issue \in [Kind -> BOOLEAN]
      /\ pre'.want = pre.want /\ pre'.asked = pre.asked
      /\ pre'.stale = pre.stale /\ pre'.emits = pre.emits /\ (pre.dirty \/ ~pre'.dirty \/ pre' = pre)
  <2>1. CASE pre.stream \cap ts = {}
    BY <1>1, <2>1 DEF EndedIn, PreType
  <2>2. CASE pre.stream \cap ts # {}
    BY <1>1, <2>2 DEF EndedIn, Emitted, PreType, PreFields
  <2> QED
    BY <2>1, <2>2
<1>7. PreType(pre')
  BY <1>6 DEF PreType
<1>8. TracksFit(pre', track')
  BY <1>1, <1>3, <1>6 DEF TracksFit, EndedOnly, Same
<1>9. ASSUME NEW i \in Kind, OfKind(track', pre'.stream, i) # {}
      PROVE  pre.from[i] \in plugged'[i]
  <2>1. OfKind(track, pre.stream, i) # {} /\ ~(OfKind(track, pre.stream, i) \subseteq ts)
    BY <1>3, <1>6, <1>9 DEF OfKind, EndedOnly, Same
  <2>2. pre.from[i] \in plugged[i]
    BY <1>1, <2>1 DEF ListFits
  <2>3. i = k => pre.from[i] # d
    BY <1>5, <2>1 DEF LiveIn
  <2> QED
    BY <1>2, <2>2, <2>3
<1>10. ListFits(pre', track', plugged', changes'.pending)
  BY <1>1, <1>6, <1>9 DEF ListFits
<1> QED
  BY <1>1, <1>2, <1>6, <1>7, <1>8, <1>10

\* The preparation hears of it.
LEMMA DeviceChangeFits ==
  ASSUME PreparationFits, DeviceChange
  PROVE  PreparationFits' /\ (pre'.over <=> pre.over) /\ UNCHANGED track
<1> USE DEF PreparationFits
<1>1. /\ pre' = RefreshRequested(pre, TRUE) /\ UNCHANGED <<track, screen, plugged>>
  BY DEF DeviceChange
<1>2. CASE pre.over
  <2>1. pre' = pre
    BY <1>1, <1>2 DEF RefreshRequested
  <2> QED
    BY <1>1, <1>2, <2>1 DEF ListFits
<1>3. CASE ~pre.over
  <2>1. ListAsked(pre, pre', TRUE) /\ PreType(pre')
    BY <1>1, <1>3, RefreshIs
  <2>2. ListFits(pre', track, plugged, changes'.pending)
    BY <1>3, <2>1 DEF ListAsked, ListFits
  <2>3. TracksFit(pre', track)
    BY <2>1 DEF ListAsked, TracksFit
  <2> QED
    BY <1>1, <1>3, <2>1, <2>2, <2>3 DEF ListAsked
<1> QED
  BY <1>2, <1>3

\* An action is asked for, authorized or refused.
LEMMA ActFits ==
  ASSUME PreparationFits, NEW what \in Actions, Act(what)
  PROVE  PreparationFits' /\ UNCHANGED <<track, pre>>
<1> USE DEF PreparationFits
<1>1. UNCHANGED <<track, pre, plugged, changes>>
  BY DEF Act
<1>2. DOMAIN screen' = {"alive", "doing", "asked"} /\ screen'.alive = screen.alive
      /\ screen'.doing = what
  BY DEF Act
<1> QED
  BY <1>1, <1>2

\* The action is not authorized.
LEMMA ActRefusedFits ==
  ASSUME PreparationFits, ActRefused
  PROVE  PreparationFits' /\ UNCHANGED <<track, pre>>
<1> USE DEF PreparationFits
<1>1. UNCHANGED <<track, pre, plugged, changes>>
  BY DEF ActRefused
<1>2. DOMAIN screen' = {"alive", "doing", "asked"} /\ screen'.alive = screen.alive
      /\ screen'.doing = None
  BY DEF ActRefused
<1> QED
  BY <1>1, <1>2

\* The action is, and asks for devices.
LEMMA ActRequestsFits ==
  ASSUME PreparationFits, ActRequests
  PROVE  PreparationFits' /\ ~pre.over /\ ~pre'.over /\ UNCHANGED track
<1> USE DEF PreparationFits
<1>1. /\ ~pre.over /\ UNCHANGED <<track, plugged, changes>>
      /\ DOMAIN screen' = {"alive", "doing", "asked"} /\ screen'.alive = screen.alive
      /\ screen'.doing = None /\ screen.doing \in Actions
  BY DEF ActRequests
<1>2. Kinds \in Seq(Kind) /\ Kinds # <<>> /\ None \in AllDevices
      /\ \A k \in Kind : <<k>> \in Seq(Kind) /\ <<k>> # <<>>
  BY DEF Kinds, Kind, AllDevices
<1>3. PICK kinds \in Seq(Kind), device \in AllDevices :
        kinds # <<>> /\ (pre' = Run(pre, kinds, device) \/ pre' = pre)
  <2>1. CASE screen.doing.name = "check"
    <3>1. pre' = Run(pre, Kinds, None)
      BY <2>1 DEF ActRequests, CheckDevices
    <3> QED
      BY <3>1, <1>2
  <2>2. CASE screen.doing.name = "retry"
    <3> DEFINE missing == {k \in Kind : LiveIn(pre, k) = {} \/ pre.issue[k]}
    <3>1. pre' = Run(pre, IF missing \in {{}, Kind} THEN Kinds
                          ELSE <<CHOOSE k \in missing : TRUE>>, None)
      BY <2>2 DEF ActRequests, RetryUnavailable
    <3>2. missing \notin {{}, Kind} => (CHOOSE k \in missing : TRUE) \in Kind
      OBVIOUS
    <3> HIDE DEF missing
    <3>3. CASE missing \in {{}, Kind}
      <4>1. pre' = Run(pre, Kinds, None)
        BY <3>1, <3>3
      <4> QED
        BY <4>1, <1>2
    <3>4. CASE missing \notin {{}, Kind}
      <4>1. PICK k \in Kind : k = CHOOSE i \in missing : TRUE
        BY <3>2, <3>4
      <4>2. pre' = Run(pre, <<k>>, None)
        BY <3>1, <3>4, <4>1
      <4> QED
        BY <4>2, <1>2
    <3> QED
      BY <3>3, <3>4
  <2>3. CASE screen.doing.name = "select"
    <3>1. screen.doing.kind \in Kind /\ screen.doing.device \in AllDevices
      BY <1>1, <2>3 DEF Actions, AllDevices
    <3>2. pre' = Run(pre, <<screen.doing.kind>>, screen.doing.device) \/ pre' = pre
      BY <2>3 DEF ActRequests, SelectInput
    <3> QED
      BY <1>2, <3>1, <3>2
  <2> QED
    BY <2>1, <2>2, <2>3 DEF ActRequests
<1>4. PICK p : p = Run(pre, kinds, device)
  OBVIOUS
<1>5. PreType(p) /\ p.over = pre.over /\ p.stream = pre.stream
      /\ ListFits(p, track, plugged, changes.pending)
  BY <1>3, <1>4, RunFits
<1>6. PreType(pre') /\ pre'.over = pre.over /\ pre'.stream = pre.stream
      /\ ListFits(pre', track, plugged, changes.pending)
  <2>1. CASE pre' = p
    BY <2>1, <1>5
  <2>2. CASE pre' = pre
    BY <2>2
  <2> QED
    BY <2>1, <2>2, <1>3, <1>4
<1>7. TracksFit(pre', track)
  BY <1>6 DEF TracksFit
<1> QED
  BY <1>1, <1>6, <1>7

\* The preparation is over.
LEMMA DisposedIs ==
  ASSUME NEW p, PreType(p)
  PROVE  PreType(Disposed(p)) /\ Disposed(p).over /\ Disposed(p).stream = {}
<1> DEFINE todo == IF p.todo = <<>> THEN <<>> ELSE <<Head(p.todo)>>
           q == Disposed(p)
<1>1. todo \in Seq(Request)
  <2>1. CASE p.todo = <<>>
    BY <2>1
  <2>2. CASE p.todo # <<>>
    <3>1. Head(p.todo) \in Request
      BY <2>2, TailIs DEF PreType
    <3> HIDE DEF Request
    <3> QED
      BY <2>2, <3>1
  <2> QED
    BY <2>1, <2>2
<1> HIDE DEF todo
<1>2. q = [NewPrejoin(p.want) EXCEPT !.over = TRUE, !.todo = todo]
  BY DEF Disposed, todo
<1> HIDE DEF q
<1>3. /\ DOMAIN q = PreFields /\ q.over /\ q.stream = {} /\ q.todo = todo
      /\ q.from = [k \in Kind |-> None] /\ q.selected = [k \in Kind |-> None]
      /\ q.inputs = [k \in Kind |-> {}] /\ q.issue = [k \in Kind |-> FALSE]
      /\ q.want = p.want /\ q.asked = None
  BY <1>2 DEF NewPrejoin, PreFields
<1>4. q.over \in BOOLEAN
  BY <1>2 DEF NewPrejoin
<1>5. PreType(q)
  BY <1>1, <1>3, <1>4 DEF PreType, AllDevices, Lists
<1> QED
  BY <1>3, <1>5 DEF q

\* The user leaves the preparation.
LEMMA GoBackFits ==
  ASSUME PreparationFits, GoBack
  PROVE  PreparationFits' /\ ~pre.over /\ pre'.over /\ LiveOf(track') = {}
<1> USE DEF PreparationFits
<1>1. /\ ~pre.over /\ track' = Stopped(track, pre.stream) /\ pre' = Disposed(pre)
      /\ UNCHANGED <<plugged, changes>>
      /\ DOMAIN screen' = {"alive", "doing", "asked"} /\ ~screen'.alive
      /\ screen'.doing = screen.doing
  BY DEF GoBack
<1>2. PreType(pre') /\ pre'.over /\ pre'.stream = {}
  BY <1>1, DisposedIs
<1>3. EndedOnly(track, track', pre.stream)
  BY <1>1, TracksChange DEF TracksFit
<1>4. LiveOf(track') = {}
  BY <1>1, <1>3 DEF TracksFit, EndedOnly
<1>5. TracksFit(pre', track')
  BY <1>2, <1>3 DEF TracksFit, EndedOnly, Same
<1> QED
  BY <1>1, <1>2, <1>4, <1>5 DEF ListFits

\* A step of the preparation; once it is over no track changes.
LEMMA PrejoinFits ==
  ASSUME PreparationFits, PrejoinNext
  PROVE  /\ PreparationFits'
         /\ pre.over => pre'.over /\ UNCHANGED track
         /\ ~pre.over => ~pre'.over \/ LiveOf(track') = {}
<1>1. CASE DeviceGranted
  BY <1>1, DeviceGrantedFits
<1>2. CASE DeviceRefused
  BY <1>2, DeviceRefusedFits
<1>3. CASE ListArrives \/ ListFails
  BY <1>3, ListArrivesFits
<1>4. CASE DeviceChange
  BY <1>4, DeviceChangeFits
<1>5. CASE \E k \in Kind : TogglePrejoin(k)
  BY <1>5, TogglePrejoinFits
<1>6. CASE \E k \in Kind : \E d \in Device[k] : PlugIn(k, d)
  BY <1>6, PlugInFits
<1>7. CASE \E k \in Kind : \E d \in Device[k] : PullOut(k, d)
  BY <1>7, PullOutFits
<1>8. CASE \E what \in Actions : Act(what)
  BY <1>8, ActFits
<1>9. CASE ActRefused
  BY <1>9, ActRefusedFits
<1>10. CASE ActRequests
  BY <1>10, ActRequestsFits
<1>11. CASE GoBack
  BY <1>11, GoBackFits
<1> QED
  BY <1>1, <1>2, <1>3, <1>4, <1>5, <1>6, <1>7, <1>8, <1>9, <1>10, <1>11, Zenon DEF PrejoinNext

-----------------------------------------------------------------------------
(* The steps of the session                                                *)

\* The fields of the world are the variables.
LEMMA WorldIs ==
  /\ DOMAIN World = WorldFields
  /\ World.track = track /\ World.room = room /\ World.stream = stream /\ World.peer = peer
  /\ World.share = share /\ World.input = input /\ World.job = job /\ World.barred = barred
BY DEF World, WorldFields

\* The state is the world that the code has made.
LEMMA BecomesFits ==
  ASSUME NEW w, Fits(w), Becomes(w)
  PROVE  Fits(World)'
<1>1. PICK v : v = World'
  OBVIOUS
<1>2. /\ DOMAIN v = WorldFields
      /\ v.track = track' /\ v.room = room' /\ v.stream = stream' /\ v.peer = peer'
      /\ v.share = share' /\ v.input = input' /\ v.job = job' /\ v.barred = barred'
  BY <1>1 DEF World, WorldFields
<1>3. Alike(w, v) /\ v.share = w.share
  BY <1>2 DEF Becomes, Fits, Core, WorldType, Alike
<1>4. Fits(v)
  BY <1>3, AlikeFits DEF Fits
<1> QED
  BY <1>1, <1>4

\* A step that changes nothing but the connections.
LEMMA OthersFit ==
  ASSUME Fits(World), UNCHANGED <<track, room, stream, share, input, job, barred>>
  PROVE  Fits(World)'
<1>1. PICK v : v = World'
  OBVIOUS
<1>2. /\ DOMAIN v = WorldFields
      /\ v.track = track /\ v.room = room /\ v.stream = stream
      /\ v.share = share /\ v.input = input /\ v.job = job /\ v.barred = barred
  BY <1>1 DEF World, WorldFields
<1>3. Alike(World, v) /\ v.share = World.share
  BY <1>2, WorldIs DEF Fits, Core, WorldType, Alike
<1>4. Fits(v)
  BY <1>3, AlikeFits DEF Fits
<1> QED
  BY <1>1, <1>4

\* An await ends: the job is not at a connection any more.
LEMMA AwaitEnds ==
  ASSUME Fits(World), NEW j \in Jobs, Waiting(j)
  PROVE  /\ Fits(Arrived(j)) /\ Arrived(j).job[j].phase = job[j].phase
         /\ Alike(World, Arrived(j)) /\ Arrived(j).share = share
         /\ job[j].phase \notin {"none", "prompt"}
<1>1. PICK w : w = World
  OBVIOUS
<1>2. Fits(w) /\ WorldType(w) /\ w.job = job /\ w.share = share
  BY <1>1, WorldIs DEF Fits, Core
<1>3. job[j].phase \notin {"none", "prompt"}
  BY <1>2 DEF Waiting, WorldType
<1> DEFINE v == [w EXCEPT !.job[j].at = None]
<1>4. Alike(w, v) /\ v.share = w.share /\ v.job[j].phase = w.job[j].phase
  BY <1>2 DEF WorldType, Alike, WorldFields, JobFields, Jobs
<1>5. Arrived(j) = v
  BY <1>1 DEF Arrived
<1> HIDE DEF v
<1>6. Fits(v)
  BY <1>2, <1>4, AlikeFits DEF Fits
<1> QED
  BY <1>1, <1>2, <1>3, <1>4, <1>5, <1>6

\* The browser has replaced a track.
LEMMA ReplacedFits ==
  ASSUME Fits(World), NEW j \in Jobs, Replaced(j)
  PROVE  Fits(World)'
<1> DEFINE c == job[j].at
           had == Sender(World, c, job[j].kind)
           before == IF had = 0 /\ j = "share" THEN job[j].before ELSE had
           done == Sends(Arrived(j), c, job[j].kind, job[j].put)
           noted == [done EXCEPT !.job[j].updates =
                       @ \cup {[c |-> c, before |-> before, added |-> FALSE]}]
           on == IF job[j].phase \in {"starting", "replacing"} THEN noted ELSE done
<1>1. PICK v \in Resume(on, j) : Becomes(v)
  BY DEF Replaced
<1>2. Waiting(j)
  BY DEF Replaced, Settling
<1>3. PICK a : a = Arrived(j)
  OBVIOUS
<1>4. Fits(a) /\ WorldType(a) /\ a.job[j].phase = job[j].phase
      /\ job[j].phase \notin {"none", "prompt"}
  BY <1>2, <1>3, AwaitEnds DEF Fits, Core
<1>5. PICK b : b = done
  OBVIOUS
<1>6. Alike(a, b) /\ b.share = a.share
  BY <1>3, <1>4, <1>5 DEF Sends, WorldType, Alike, WorldFields
<1>7. Fits(b) /\ WorldType(b) /\ b.job[j].phase = job[j].phase
  BY <1>4, <1>6, AlikeFits DEF Fits, Core, Alike
<1>8. PICK e : e = noted
  BY Zenon
<1> DEFINE more == [c |-> c, before |-> before, added |-> FALSE]
<1>9. e = [b EXCEPT !.job[j].updates = @ \cup {more}]
  BY Zenon, <1>5, <1>8
<1> HIDE DEF more
<1>10. Alike(b, e) /\ e.share = b.share
  BY <1>7, <1>9 DEF WorldType, Alike, WorldFields, JobFields, Jobs
<1>11. Fits(e) /\ e.job[j].phase = job[j].phase
  BY Zenon, <1>7, <1>10, AlikeFits DEF Fits, Alike
<1>12. on = b \/ on = e
  BY Zenon, <1>5, <1>8
<1> HIDE DEF on
<1>13. Fits(on) /\ on.job[j].phase \notin {"none", "prompt"}
  BY <1>4, <1>7, <1>11, <1>12
<1>14. Fits(v)
  BY <1>1, <1>13, ResumeFits
<1> QED
  BY <1>1, <1>14, BecomesFits

\* The browser refuses to.
LEMMA ReplaceFailsFits ==
  ASSUME Fits(World), NEW j \in Jobs, ReplaceFails(j)
  PROVE  Fits(World)'
<1> DEFINE c == job[j].at
           failed == [Arrived(j) EXCEPT !.job[j].failed = @ \cup {c}]
<1>1. PICK v \in IF job[j].phase = "replacing" THEN Abandon(failed, j) ELSE Resume(failed, j) :
        Becomes(v)
  BY Zenon DEF ReplaceFails
<1>2. Waiting(j)
  BY Zenon DEF ReplaceFails, Settling
<1>3. PICK a : a = Arrived(j)
  OBVIOUS
<1>4. Fits(a) /\ WorldType(a) /\ a.job[j].phase = job[j].phase
      /\ job[j].phase \notin {"none", "prompt"}
  BY <1>2, <1>3, AwaitEnds DEF Fits, Core
<1>5. PICK b : b = failed
  OBVIOUS
<1>6. b = [a EXCEPT !.job[j].failed = @ \cup {c}]
  BY <1>3, <1>5
<1>7. Alike(a, b) /\ b.share = a.share
  BY <1>4, <1>6 DEF WorldType, Alike, WorldFields, JobFields, Jobs
<1>8. Fits(b) /\ b.job[j].phase = job[j].phase
  BY <1>4, <1>7, AlikeFits DEF Fits, Alike
<1>9. v \in IF job[j].phase = "replacing" THEN Abandon(b, j) ELSE Resume(b, j)
  BY <1>1, <1>5
<1>10. Fits(v)
  BY <1>4, <1>8, <1>9, ResumeFits, AbandonFits
<1> QED
  BY <1>1, <1>10, BecomesFits

\* The connection was closed.
LEMMA ReplaceLostFits ==
  ASSUME Fits(World), NEW j \in Jobs, ReplaceLost(j)
  PROVE  Fits(World)'
<1>1. PICK v \in Resume(Arrived(j), j) : Becomes(v)
  BY DEF ReplaceLost
<1>2. Waiting(j)
  BY DEF ReplaceLost, WaitIsClosed
<1>3. PICK a : a = Arrived(j)
  OBVIOUS
<1>4. Fits(a) /\ a.job[j].phase \notin {"none", "prompt"} /\ v \in Resume(a, j)
  BY <1>1, <1>2, <1>3, AwaitEnds
<1>5. Fits(v)
  BY <1>4, ResumeFits
<1> QED
  BY <1>1, <1>5, BecomesFits

\* A start is asked for or refused before there is a track.
LEMMA ShareJobFits ==
  ASSUME NEW w, Fits(w), w.job["share"].phase \in {"none", "prompt"}, w.share.active = 0,
         NEW v, DOMAIN v = WorldFields,
         v.track = w.track, v.room = w.room, v.stream = w.stream, v.input = w.input,
         v.barred = w.barred, DOMAIN v.share = ShareFields,
         v.share.pending = w.share.pending, v.share.active = w.share.active,
         v.share.retained = w.share.retained,
         DOMAIN v.job = Jobs, v.job["input"] = w.job["input"],
         DOMAIN v.job["share"] = JobFields, v.job["share"].at = None,
         \/ v.job["share"].phase = "none"
         \/ v.job["share"].phase = "prompt" /\ w.job["input"].phase = "none"
  PROVE  Fits(v)
<1>1. WorldType(v)
  BY DEF Fits, Core, WorldType, Jobs
<1>2. StreamOf(v) = StreamOf(w) /\ Owned(v) = Owned(w)
  BY DEF StreamOf, Owned
<1>3. AllOwned(v) /\ OverIsDead(v) /\ v.room # "none"
  BY <1>2 DEF Fits, Core, AllOwned, OverIsDead
<1>4. ShareFits(v)
  BY DEF Fits, Core, ShareFits
<1>5. InputFits(v)
  BY DEF Fits, Core, InputFits, Lives
<1>6. KindsFit(v)
  BY <1>2 DEF Fits, Core, KindsFit
<1>7. OffFits(v)
  BY <1>2 DEF Fits, OffFits, NoWish, Off
<1> QED
  BY <1>1, <1>3, <1>4, <1>5, <1>6, <1>7 DEF Fits, Core

\* The same for a selection.
LEMMA InputJobFits ==
  ASSUME NEW w, Fits(w), w.job["input"].phase \in {"none", "prompt"},
         NEW v, DOMAIN v = WorldFields,
         v.track = w.track, v.room = w.room, v.stream = w.stream, v.input = w.input,
         v.barred = w.barred, v.share = w.share,
         DOMAIN v.job = Jobs, v.job["share"] = w.job["share"],
         DOMAIN v.job["input"] = JobFields, v.job["input"].at = None, v.job["input"].new = 0,
         v.job["input"].kind \in Kind, v.job["input"].on \in BOOLEAN,
         \/ v.job["input"].phase = "none"
         \/ /\ v.job["input"].phase = "prompt"
            /\ v.job["input"].kind \in w.barred => ~v.job["input"].on
            /\ v.job["input"].kind = "video" =>
                 w.share.active = 0 /\ w.job["share"].phase = "none"
  PROVE  Fits(v)
<1>1. WorldType(v)
  BY DEF Fits, Core, WorldType, Jobs
<1>2. StreamOf(v) = StreamOf(w) /\ Owned(v) = Owned(w)
  <2>1. w.job["input"].new = 0
    BY DEF Fits, Core, InputFits
  <2> QED
    BY <2>1 DEF StreamOf, Owned
<1>3. AllOwned(v) /\ OverIsDead(v) /\ v.room # "none"
  BY <1>2 DEF Fits, Core, AllOwned, OverIsDead
<1>4. ShareFits(v)
  BY <1>2 DEF Fits, Core, ShareFits, Lives
<1>5. InputFits(v)
  BY DEF InputFits
<1>6. KindsFit(v)
  <2>1. \A t \in LiveOf(v.track) : t # 0
    BY <1>1, LiveNumbers DEF WorldType
  <2> QED
    BY <2>1, <1>2 DEF Fits, Core, KindsFit
<1>7. OffFits(v)
  BY <1>2 DEF Fits, OffFits, NoWish, Off
<1> QED
  BY <1>1, <1>3, <1>4, <1>5, <1>6, <1>7 DEF Fits, Core

\* The fields of a job that is none.
LEMMA NoJobIs ==
  /\ DOMAIN NoJob = JobFields /\ NoJob.phase = "none" /\ NoJob.at = None /\ NoJob.new = 0
  /\ NoJob.kind \in Kind /\ NoJob.on \in BOOLEAN
BY DEF NoJob, JobFields, Kind

\* A share is asked for.
LEMMA StartShareFits ==
  ASSUME Fits(World), StartShare
  PROVE  Fits(World)'
<1>1. PICK v : v = World'
  OBVIOUS
<1>2. PICK w : w = World
  OBVIOUS
<1>3. Fits(w) /\ w.share = share /\ w.job = job /\ WorldType(w)
  BY <1>2, WorldIs DEF Fits, Core
<1>4. /\ DOMAIN v = WorldFields
      /\ v.track = w.track /\ v.room = w.room /\ v.stream = w.stream
      /\ v.share = [w.share EXCEPT !.mine = TRUE] /\ v.input = w.input
      /\ v.job = [w.job EXCEPT !["share"] = [NoJob EXCEPT !.phase = "prompt"]]
      /\ v.barred = w.barred
  BY Zenon, <1>1, <1>2 DEF World, WorldFields, StartShare
<1>5. /\ DOMAIN v.share = ShareFields /\ v.share.pending = w.share.pending
      /\ v.share.active = w.share.active /\ v.share.retained = w.share.retained
      /\ DOMAIN v.job = Jobs /\ v.job["input"] = w.job["input"]
      /\ DOMAIN v.job["share"] = JobFields /\ v.job["share"].at = None
      /\ v.job["share"].phase = "prompt"
  BY <1>3, <1>4, NoJobIs DEF WorldType, ShareFields, Jobs, JobFields
<1>6. w.job["input"].phase = "none" /\ w.job["share"].phase = "none" /\ w.share.active = 0
  BY Zenon, <1>3 DEF StartShare
<1>7. Fits(v)
  BY <1>3, <1>4, <1>5, <1>6, ShareJobFits
<1> QED
  BY <1>1, <1>7

\* The user does not choose a screen.
LEMMA ShareRefusedFits ==
  ASSUME Fits(World), ShareRefused
  PROVE  Fits(World)'
<1>1. PICK v : v = World'
  OBVIOUS
<1>2. PICK w : w = World
  OBVIOUS
<1>3. Fits(w) /\ w.share = share /\ w.job = job /\ WorldType(w)
  BY <1>2, WorldIs DEF Fits, Core
<1>4. /\ DOMAIN v = WorldFields
      /\ v.track = w.track /\ v.room = w.room /\ v.stream = w.stream /\ v.share = w.share
      /\ v.input = w.input /\ v.job = [w.job EXCEPT !["share"] = NoJob] /\ v.barred = w.barred
  BY <1>1, <1>2 DEF World, WorldFields, ShareRefused
<1>5. /\ DOMAIN v.share = ShareFields
      /\ DOMAIN v.job = Jobs /\ v.job["input"] = w.job["input"] /\ v.job["share"] = NoJob
  BY <1>3, <1>4 DEF WorldType, Jobs
<1>6. w.job["share"].phase = "prompt" /\ w.share.active = 0
  BY <1>3 DEF ShareRefused, Fits, Core, ShareFits
<1>7. Fits(v)
  BY <1>3, <1>4, <1>5, <1>6, ShareJobFits, NoJobIs
<1> QED
  BY <1>1, <1>7

\* The browser has no such device.
LEMMA DeviceDeniedFits ==
  ASSUME Fits(World), DeviceDenied
  PROVE  Fits(World)'
<1>1. PICK v : v = World'
  OBVIOUS
<1>2. PICK w : w = World
  OBVIOUS
<1>3. Fits(w) /\ w.job = job /\ WorldType(w)
  BY <1>2, WorldIs DEF Fits, Core
<1>4. /\ DOMAIN v = WorldFields
      /\ v.track = w.track /\ v.room = w.room /\ v.stream = w.stream /\ v.share = w.share
      /\ v.input = w.input /\ v.job = [w.job EXCEPT !["input"] = NoJob] /\ v.barred = w.barred
  BY <1>1, <1>2 DEF World, WorldFields, DeviceDenied
<1>5. DOMAIN v.job = Jobs /\ v.job["share"] = w.job["share"] /\ v.job["input"] = NoJob
  BY <1>3, <1>4 DEF WorldType, Jobs
<1>6. w.job["input"].phase = "prompt"
  BY <1>3 DEF DeviceDenied
<1>7. Fits(v)
  BY <1>3, <1>4, <1>5, <1>6, InputJobFits, NoJobIs
<1> QED
  BY <1>1, <1>7

\* A selection wants the device to be on only if the last one was.
LEMMA SelectDeviceFits ==
  ASSUME Fits(World), NEW kind \in Kind, SelectDevice(kind)
  PROVE  Fits(World)'
<1>1. PICK v : v = World'
  OBVIOUS
<1>2. PICK w : w = World
  OBVIOUS
<1>3. Fits(w) /\ w.job = job /\ WorldType(w) /\ w.share = share /\ w.track = track
      /\ w.input = input
  BY <1>2, WorldIs DEF Fits, Core
<1> DEFINE now == InStream(w, kind)
<1>4. PICK on : on = IF now = {} THEN input[kind] ELSE AnyOn(track, now)
  OBVIOUS
<1>5. /\ DOMAIN v = WorldFields
      /\ v.track = w.track /\ v.room = w.room /\ v.stream = w.stream /\ v.share = w.share
      /\ v.input = w.input /\ v.barred = w.barred
      /\ v.job = [w.job EXCEPT !["input"] =
                    [NoJob EXCEPT !.phase = "prompt", !.kind = kind, !.on = on]]
  BY <1>1, <1>2, <1>4 DEF World, WorldFields, SelectDevice
<1>6. /\ DOMAIN v.job = Jobs /\ v.job["share"] = w.job["share"]
      /\ DOMAIN v.job["input"] = JobFields /\ v.job["input"].phase = "prompt"
      /\ v.job["input"].kind = kind /\ v.job["input"].on = on /\ v.job["input"].at = None
      /\ v.job["input"].new = 0
  BY <1>3, <1>5, NoJobIs DEF WorldType, Jobs, JobFields
<1>7. w.job["input"].phase = "none" /\ w.job["share"].phase = "none"
      /\ (kind = "video" => ~Live(w, w.share.active))
  BY <1>2, <1>3 DEF SelectDevice
<1>8. kind = "video" => w.share.active = 0
  BY <1>3, <1>7 DEF Fits, Core, ShareFits, Lives, Live, LiveOf
<1>9. on \in BOOLEAN
  <2>1. input[kind] \in BOOLEAN
    BY <1>3 DEF WorldType
  <2>2. AnyOn(track, now) \in BOOLEAN
    BY DEF AnyOn
  <2> QED
    BY <1>4, <2>1, <2>2
<1>10. kind \in w.barred => ~on
  <2> SUFFICES ASSUME kind \in w.barred PROVE ~on
    OBVIOUS
  <2>1. ~w.input[kind] /\ Off(w, kind)
    BY <1>3 DEF Fits, OffFits, NoWish
  <2>2. ~AnyOn(w.track, now)
    <3> SUFFICES ASSUME NEW t \in now, w.track[t].on PROVE FALSE
      BY DEF AnyOn
    <3>1. /\ t \in LiveOf(w.track) /\ t \in StreamOf(w) /\ w.track[t].kind = kind
          /\ t \in 1..Tracks
      BY <1>3 DEF InStream, OfKind, WorldType, LiveOf
    <3>2. t \in Owned(w)
      BY <3>1, <1>3, LiveNumbers DEF Owned, WorldType
    <3>3. w.track[t].screen
      BY <2>1, <3>1, <3>2 DEF Off
    <3>4. t = w.share.active /\ kind = "video"
      BY <1>3, <3>1, <3>3 DEF Fits, Core, KindsFit
    <3>5. t # 0
      BY <3>1, <1>3, LiveNumbers DEF WorldType
    <3> QED
      BY <1>8, <3>4, <3>5
  <2> QED
    BY <1>3, <1>4, <2>1, <2>2
<1>11. Fits(v)
  BY <1>3, <1>5, <1>6, <1>7, <1>8, <1>9, <1>10, InputJobFits
<1> QED
  BY <1>1, <1>11

\* A number that is spare is nobody's.
LEMMA SpareIs ==
  ASSUME NEW w, WorldType(w), NEW known, Spare(w.track, known) # {}
  PROVE  /\ Unused(w.track, known) \in 1..Tracks /\ Unused(w.track, known) # 0
         /\ Unused(w.track, known) \notin known
         /\ Unused(w.track, known) \notin LiveOf(w.track)
<1>1. Unused(w.track, known) \in Spare(w.track, known)
  BY DEF Unused
<1> QED
  BY <1>1, TracksAssumption DEF Spare, WorldType

\* A new track lives and the others are what they were.
Begins(tr, to, new, kind) ==
  /\ to \in [1..Tracks -> TrackRecord] /\ LiveOf(to) = LiveOf(tr) \cup {new}
  /\ to[new].kind = kind
  /\ \A t \in LiveOf(tr) : t # new => to[t] = tr[t]
ScreenBegins(tr, to, new) == Begins(tr, to, new, "video") /\ to[new].screen
DeviceBegins(tr, to, new, kind) == Begins(tr, to, new, kind) /\ ~to[new].screen /\ ~to[new].on

\* A new track, of a screen or of a device.
LEMMA NewTrackIs ==
  ASSUME NEW tr \in [1..Tracks -> TrackRecord], NEW new \in 1..Tracks, NEW kind \in Kind
  PROVE  /\ ScreenBegins(tr, [tr EXCEPT ![new] = NewTrack("video", TRUE, TRUE)], new)
         /\ DeviceBegins(tr, [tr EXCEPT ![new] = NewTrack(kind, FALSE, FALSE)], new, kind)
<1>1. ASSUME NEW n \in TrackRecord, n.live
      PROVE  Begins(tr, [tr EXCEPT ![new] = n], new, n.kind) /\ [tr EXCEPT ![new] = n][new] = n
  BY <1>1 DEF Begins, LiveOf
<1>2. PICK m : m = NewTrack("video", TRUE, TRUE)
  OBVIOUS
<1>3. m \in TrackRecord /\ m.live /\ m.screen /\ m.kind = "video"
  BY <1>2 DEF NewTrack, TrackRecord
<1>4. PICK n : n = NewTrack(kind, FALSE, FALSE)
  OBVIOUS
<1>5. n \in TrackRecord /\ n.live /\ ~n.screen /\ ~n.on /\ n.kind = kind
  BY <1>4 DEF NewTrack, TrackRecord, Kind
<1>6. ScreenBegins(tr, [tr EXCEPT ![new] = m], new)
  BY <1>1, <1>3 DEF ScreenBegins
<1>7. DeviceBegins(tr, [tr EXCEPT ![new] = n], new, kind)
  BY <1>1, <1>5 DEF DeviceBegins
<1> QED
  BY <1>2, <1>4, <1>6, <1>7

\* The screen is given: it waits to be put on the connections.
LEMMA ScreenGivenFits ==
  ASSUME NEW w, Fits(w), w.job["share"].phase = "prompt", w.room # "over",
         NEW new \in 1..Tracks, new # 0, new \notin Owned(w), new \notin LiveOf(w.track),
         NEW v, DOMAIN v = WorldFields, ScreenBegins(w.track, v.track, new),
         v.room = w.room, v.stream = w.stream, v.input = w.input,
         v.barred = w.barred, DOMAIN v.share = ShareFields,
         v.share.pending = new, v.share.active = w.share.active,
         v.share.retained = w.share.retained,
         DOMAIN v.job = Jobs, v.job["input"] = w.job["input"],
         DOMAIN v.job["share"] = JobFields, v.job["share"].at = None,
         v.job["share"].phase = "starting", v.job["share"].new = new
  PROVE  Fits(v)
<1>1. WorldType(w)
  BY DEF Fits, Core
<1>2. /\ v.track \in [1..Tracks -> TrackRecord]
      /\ LiveOf(v.track) = LiveOf(w.track) \cup {new}
      /\ \A t \in LiveOf(w.track) : t # new => v.track[t] = w.track[t]
  BY DEF ScreenBegins, Begins
<1>3. v.track[new].kind = "video" /\ v.track[new].screen
  BY DEF ScreenBegins, Begins
<1>4. w.share.pending = 0 /\ w.share.active = 0 /\ w.share.retained = {}
  BY DEF Fits, Core, ShareFits
<1>5. WorldType(v)
  BY <1>1, <1>2 DEF WorldType, Jobs
<1>6. StreamOf(v) = StreamOf(w) /\ Owned(v) = Owned(w) \cup {new}
  BY <1>4 DEF StreamOf, Owned
<1> DEFINE lives == LiveOf(w.track)
<1>7. AllOwned(v) /\ OverIsDead(v) /\ v.room # "none"
  BY <1>2, <1>6 DEF Fits, Core, AllOwned, OverIsDead
<1>8. ShareFits(v)
  BY <1>4 DEF ShareFits
<1>9. InputFits(v)
  <2>1. w.job["input"].new # 0 => w.job["input"].new # new
    BY DEF Owned
  <2> QED
    BY <2>1, <1>2, <1>4 DEF Fits, Core, InputFits, Lives
<1>10. \A t \in lives : t # new /\ v.track[t] = w.track[t]
  BY <1>2
<1>11. new \notin StreamOf(w) /\ new # w.job["input"].new
  BY DEF Owned
<1>12. KindsFit(v)
  <2>1. KindsFit(w)
    BY DEF Fits, Core
  <2>2. \A t \in LiveOf(v.track) : t \in {v.share.pending, v.share.active} =>
          v.track[t].screen /\ v.track[t].kind = "video"
    BY <1>2, <1>3, <1>4, <1>5, LiveNumbers DEF WorldType
  <2>3. \A t \in LiveOf(v.track) : t \in StreamOf(v) /\ v.track[t].screen => t = v.share.active
    BY <2>1, <1>2, <1>6, <1>10, <1>11 DEF KindsFit
  <2>4. v.job["input"].new \in LiveOf(v.track) =>
          /\ v.track[v.job["input"].new].kind = v.job["input"].kind
          /\ ~v.track[v.job["input"].new].screen /\ ~v.track[v.job["input"].new].on
          /\ v.job["input"].new \notin StreamOf(v)
    BY <2>1, <1>2, <1>6, <1>10, <1>11 DEF KindsFit
  <2> QED
    BY <2>2, <2>3, <2>4, <1>4 DEF KindsFit
<1>13. OffFits(v)
  <2>1. ASSUME NEW k, Off(w, k) PROVE Off(v, k)
    BY <2>1, <1>2, <1>3, <1>6, <1>10 DEF Off
  <2> QED
    BY <2>1 DEF Fits, OffFits, NoWish
<1> QED
  BY <1>5, <1>7, <1>8, <1>9, <1>12, <1>13 DEF Fits, Core

\* The device is given: it is off until it is on the connections.
LEMMA InputGivenFits ==
  ASSUME NEW w, Fits(w), w.job["input"].phase = "prompt", w.room # "over",
         NEW new \in 1..Tracks, new # 0, new \notin Owned(w), new \notin LiveOf(w.track),
         NEW v, DOMAIN v = WorldFields,
         DeviceBegins(w.track, v.track, new, w.job["input"].kind),
         v.room = w.room, v.stream = w.stream, v.input = w.input,
         v.barred = w.barred, v.share = w.share,
         DOMAIN v.job = Jobs, v.job["share"] = w.job["share"],
         DOMAIN v.job["input"] = JobFields,
         v.job["input"].kind = w.job["input"].kind, v.job["input"].on = w.job["input"].on,
         v.job["input"].phase = "replacing", v.job["input"].new = new
  PROVE  Fits(v)
<1>1. WorldType(w) /\ w.job["input"].kind \in Kind
  BY DEF Fits, Core, WorldType
<1>2. /\ v.track \in [1..Tracks -> TrackRecord]
      /\ LiveOf(v.track) = LiveOf(w.track) \cup {new}
      /\ \A t \in LiveOf(w.track) : t # new => v.track[t] = w.track[t]
  BY DEF DeviceBegins, Begins
<1>3. v.track[new].kind = w.job["input"].kind /\ ~v.track[new].screen /\ ~v.track[new].on
  BY DEF DeviceBegins, Begins
<1>4. w.job["input"].new = 0
  BY DEF Fits, Core, InputFits
<1>5. WorldType(v)
  BY <1>1, <1>2 DEF WorldType, Jobs
<1>6. StreamOf(v) = StreamOf(w) /\ Owned(v) = Owned(w) \cup {new}
  BY <1>4 DEF StreamOf, Owned
<1>7. AllOwned(v) /\ OverIsDead(v) /\ v.room # "none"
  BY <1>2, <1>6 DEF Fits, Core, AllOwned, OverIsDead
<1>8. new \notin StreamOf(w) /\ new # w.share.active /\ new # w.share.pending
      /\ new \notin w.share.retained
  BY DEF Owned
<1>9. \A t \in LiveOf(w.track) : t # new /\ v.track[t] = w.track[t]
  BY <1>2
<1>10. ShareFits(v)
  BY <1>2, <1>6, <1>8 DEF Fits, Core, ShareFits, Lives
<1>11. InputFits(v)
  BY DEF Fits, Core, InputFits
<1>12. KindsFit(v)
  <2>1. KindsFit(w)
    BY DEF Fits, Core
  <2>2. \A t \in LiveOf(v.track) : t \in {v.share.pending, v.share.active} =>
          v.track[t].screen /\ v.track[t].kind = "video"
    BY <2>1, <1>2, <1>8, <1>9 DEF KindsFit
  <2>3. \A t \in LiveOf(v.track) : t \in StreamOf(v) /\ v.track[t].screen => t = v.share.active
    BY <2>1, <1>2, <1>6, <1>8, <1>9 DEF KindsFit
  <2>4. \A t \in LiveOf(v.track) : t \in v.share.retained =>
          v.track[t].kind = "video" /\ ~v.track[t].screen
    BY <2>1, <1>2, <1>8, <1>9 DEF KindsFit
  <2> QED
    BY <2>2, <2>3, <2>4, <1>3, <1>6, <1>8 DEF KindsFit
<1>13. OffFits(v)
  <2>1. ASSUME NEW k, Off(w, k) PROVE Off(v, k)
    BY <2>1, <1>2, <1>3, <1>6, <1>9 DEF Off
  <2> QED
    BY <2>1 DEF Fits, OffFits, NoWish
<1> QED
  BY <1>5, <1>7, <1>10, <1>11, <1>12, <1>13 DEF Fits, Core

\* What is owned is known.
LEMMA OwnedIsKnown ==
  ASSUME NEW w
  PROVE  Owned(w) \subseteq Known(w)
<1> DEFINE sent == {w.peer[p].sender[k] : p \in Peer, k \in Kind}
           kept == UNION {{w.job[j].before, w.job[j].put} \cup {u.before : u \in w.job[j].updates} :
                            j \in {"share", "input"}}
<1>1. Known(w) = Owned(w) \cup sent \cup kept
  BY DEF Known
<1> HIDE DEF sent, kept
<1> QED
  BY <1>1

\* A job that begins: what it is to put, and nothing done yet.
Begun(at, phase, kind, new, before) ==
  /\ DOMAIN at = JobFields /\ at.phase = phase /\ at.kind = kind /\ at.new = new /\ at.put = new
  /\ at.before = before /\ at.at = None /\ at.todo = {} /\ at.seen = {} /\ at.updates = {}
  /\ at.failed = {}

\* The screen is there, and nobody knows it yet.
ScreenGiven(w, given, new) ==
  /\ new \in 1..Tracks /\ new # 0 /\ new \notin Known(w) /\ new \notin LiveOf(w.track)
  /\ DOMAIN given = WorldFields /\ ScreenBegins(w.track, given.track, new)
  /\ given.room = w.room /\ given.stream = w.stream /\ given.input = w.input
  /\ given.barred = w.barred /\ given.peer = w.peer /\ DOMAIN given.share = ShareFields
  /\ given.share.pending = new /\ given.share.active = w.share.active
  /\ given.share.retained = w.share.retained
  /\ DOMAIN given.job = Jobs /\ given.job["input"] = w.job["input"]
  /\ Begun(given.job["share"], "starting", "video", new, One(InStream(w, "video")))

\* What was asked for before the code had to wait is there when it goes on.
LEMMA ShareGrantedIs ==
  ASSUME Fits(World), ShareGranted
  PROVE  \E new, given, v :
           /\ ScreenGiven(World, given, new) /\ Becomes(v)
           /\ IF OwnsStart(given) THEN v \in Resume(given, "share")
              ELSE v = [World EXCEPT !.job["share"] = NoJob]
<1>1. PICK w : w = World
  OBVIOUS
<1>2. Fits(w) /\ WorldType(w) /\ w.share = share /\ w.job = job /\ w.track = track
      /\ w.room = room /\ w.stream = stream
  BY <1>1, WorldIs DEF Fits, Core
<1>3. PICK new : new = Unused(w.track, Known(w))
  OBVIOUS
<1>4. Spare(w.track, Known(w)) # {}
  BY <1>1, <1>2 DEF ShareGranted
<1>5. new \in 1..Tracks /\ new # 0 /\ new \notin Known(w) /\ new \notin LiveOf(w.track)
  BY <1>2, <1>3, <1>4, SpareIs
<1>6. PICK bare : bare = (stream = None)
  OBVIOUS
<1>7. PICK before : before = One(InStream(w, "video"))
  OBVIOUS
<1>8. PICK begun : begun = [NoJob EXCEPT !.phase = "starting", !.new = new, !.put = new,
                                         !.before = before]
  OBVIOUS
<1>9. Begun(begun, "starting", "video", new, before)
  BY <1>8 DEF NoJob, Begun, JobFields
<1>10. PICK given : given = [w EXCEPT !.track[new] = NewTrack("video", TRUE, TRUE),
                                      !.share.pending = new, !.share.bare = bare,
                                      !.job["share"] = begun]
  OBVIOUS
<1>11. PICK none : none = [w EXCEPT !.job["share"] = NoJob]
  OBVIOUS
<1>12. PICK v \in IF OwnsStart(given) THEN Resume(given, "share") ELSE {none} : Becomes(v)
  <2>1. new = Unused(track, Known(World)) /\ before = One(InStream(World, "video"))
    BY <1>1, <1>2, <1>3, <1>7
  <2> QED
    BY <2>1, <1>1, <1>6, <1>8, <1>10, <1>11 DEF ShareGranted
<1>13. /\ DOMAIN given = WorldFields
       /\ given.track = [w.track EXCEPT ![new] = NewTrack("video", TRUE, TRUE)]
       /\ given.room = w.room /\ given.stream = w.stream /\ given.input = w.input
       /\ given.barred = w.barred /\ given.peer = w.peer /\ DOMAIN given.share = ShareFields
       /\ given.share.pending = new /\ given.share.active = w.share.active
       /\ given.share.retained = w.share.retained
       /\ DOMAIN given.job = Jobs /\ given.job["input"] = w.job["input"]
       /\ given.job["share"] = begun
  <2>1. PICK tr : tr = [w.track EXCEPT ![new] = NewTrack("video", TRUE, TRUE)]
    OBVIOUS
  <2>2. PICK sh : sh = [w.share EXCEPT !.pending = new, !.bare = bare]
    OBVIOUS
  <2>3. given = [w EXCEPT !.track = tr, !.share = sh, !.job = [@ EXCEPT !["share"] = begun]]
    BY <1>10, <2>1, <2>2
  <2>4. DOMAIN w = WorldFields /\ DOMAIN w.share = ShareFields /\ DOMAIN w.job = Jobs
    BY <1>2 DEF WorldType
  <2>5. /\ DOMAIN sh = ShareFields /\ sh.pending = new /\ sh.active = w.share.active
        /\ sh.retained = w.share.retained
    BY <2>2, <2>4 DEF ShareFields
  <2> QED
    BY <2>1, <2>3, <2>4, <2>5 DEF WorldFields, Jobs
<1>14. ScreenBegins(w.track, given.track, new)
  <2>1. ScreenBegins(w.track, [w.track EXCEPT ![new] = NewTrack("video", TRUE, TRUE)], new)
    <3>1. w.track \in [1..Tracks -> TrackRecord] /\ "video" \in Kind
      BY <1>2 DEF WorldType, Kind
    <3> QED
      BY <3>1, <1>5, NewTrackIs
  <2> QED
    BY <2>1, <1>13, Zenon
<1>15. ScreenGiven(w, given, new)
  <2>1. Begun(given.job["share"], "starting", "video", new, One(InStream(w, "video")))
    BY <1>7, <1>9, <1>13
  <2> QED
    BY <1>5, <1>13, <1>14, <2>1 DEF ScreenGiven
<1>16. IF OwnsStart(given) THEN v \in Resume(given, "share")
       ELSE v = [World EXCEPT !.job["share"] = NoJob]
  BY <1>1, <1>11, <1>12
<1>17. ScreenGiven(World, given, new) /\ Becomes(v)
  BY <1>1, <1>12, <1>15
<1> QED
  BY <1>16, <1>17

\* The user has chosen a screen; the share goes on, or is not wanted any more.
LEMMA ShareGrantedFits ==
  ASSUME Fits(World), ShareGranted
  PROVE  Fits(World)'
<1>1. PICK new, given, v :
        /\ ScreenGiven(World, given, new) /\ Becomes(v)
        /\ IF OwnsStart(given) THEN v \in Resume(given, "share")
           ELSE v = [World EXCEPT !.job["share"] = NoJob]
  BY ShareGrantedIs
<1>2. PICK w : w = World
  OBVIOUS
<1>3. /\ Fits(w) /\ WorldType(w) /\ ScreenGiven(w, given, new) /\ Owned(w) \subseteq Known(w)
      /\ w.job["share"].phase = "prompt" /\ w.share.active = 0
  BY <1>1, <1>2, WorldIs, OwnedIsKnown DEF Fits, Core, ShareFits, ShareGranted
<1>4. ASSUME OwnsStart(given), v \in Resume(given, "share") PROVE Fits(v)
  <2>1. given.room # "over" /\ given.room = w.room
    BY <1>3, <1>4 DEF OwnsStart, ScreenGiven
  <2>2. Fits(given)
    BY <1>3, <2>1, ScreenGivenFits DEF ScreenGiven, Begun
  <2> QED
    BY <1>3, <1>4, <2>2, ResumeFits DEF Jobs, ScreenGiven, Begun
<1>5. ASSUME v = [w EXCEPT !.job["share"] = NoJob] PROVE Fits(v)
  <2>1. /\ DOMAIN v = WorldFields /\ v.track = w.track /\ v.room = w.room
        /\ v.stream = w.stream /\ v.share = w.share /\ v.input = w.input
        /\ v.barred = w.barred /\ DOMAIN v.job = Jobs
        /\ v.job["input"] = w.job["input"] /\ v.job["share"] = NoJob
        /\ DOMAIN v.share = ShareFields
    BY <1>3, <1>5 DEF WorldType, WorldFields, Jobs
  <2> QED
    BY <2>1, <1>3, ShareJobFits, NoJobIs
<1>6. Fits(v)
  BY <1>1, <1>2, <1>4, <1>5
<1> QED
  BY <1>1, <1>6, BecomesFits

\* The same for a device.
InputGiven(w, given, new) ==
  /\ new \in 1..Tracks /\ new # 0 /\ new \notin Known(w) /\ new \notin LiveOf(w.track)
  /\ DOMAIN given = WorldFields
  /\ DeviceBegins(w.track, given.track, new, w.job["input"].kind)
  /\ given.room = w.room /\ given.stream = w.stream /\ given.input = w.input
  /\ given.barred = w.barred /\ given.peer = w.peer /\ given.share = w.share
  /\ DOMAIN given.job = Jobs /\ given.job["share"] = w.job["share"]
  /\ given.job["input"].on = w.job["input"].on
  /\ Begun(given.job["input"], "replacing", w.job["input"].kind, new, 0)

\* The answer may come after the room.
LEMMA DeviceGivenIs ==
  ASSUME Fits(World), DeviceGiven
  PROVE  \E new, given, v :
           /\ InputGiven(World, given, new) /\ Becomes(v)
           /\ IF room = "over" THEN v = [World EXCEPT !.job["input"] = NoJob]
              ELSE v \in Resume(given, "input")
<1>1. PICK w : w = World
  OBVIOUS
<1>2. Fits(w) /\ WorldType(w) /\ w.share = share /\ w.job = job /\ w.track = track
      /\ w.room = room
  BY <1>1, WorldIs DEF Fits, Core
<1>3. PICK new : new = Unused(w.track, Known(w))
  OBVIOUS
<1>4. Spare(w.track, Known(w)) # {}
  BY <1>1, <1>2 DEF DeviceGiven
<1>5. new \in 1..Tracks /\ new # 0 /\ new \notin Known(w) /\ new \notin LiveOf(w.track)
  BY <1>2, <1>3, <1>4, SpareIs
<1>6. PICK kind, on : kind = w.job["input"].kind /\ on = w.job["input"].on
  OBVIOUS
<1>7. PICK begun : begun = [NoJob EXCEPT !.phase = "replacing", !.kind = kind, !.on = on,
                                         !.new = new, !.put = new]
  OBVIOUS
<1>8. Begun(begun, "replacing", kind, new, 0) /\ begun.on = on
  BY <1>7 DEF NoJob, Begun, JobFields
<1>9. PICK given : given = [w EXCEPT !.track[new] = NewTrack(kind, FALSE, FALSE),
                                     !.job["input"] = begun]
  OBVIOUS
<1>10. PICK v \in IF w.room = "over" THEN {[w EXCEPT !.job["input"] = NoJob]}
                  ELSE Resume(given, "input") : Becomes(v)
  <2>1. new = Unused(track, Known(World)) /\ kind = job["input"].kind /\ on = job["input"].on
    BY <1>1, <1>2, <1>3, <1>6
  <2> QED
    BY <2>1, <1>1, <1>2, <1>7, <1>9 DEF DeviceGiven
<1>11. kind \in Kind
  BY <1>2, <1>6 DEF WorldType
<1>12. /\ DOMAIN given = WorldFields
       /\ given.track = [w.track EXCEPT ![new] = NewTrack(kind, FALSE, FALSE)]
       /\ given.room = w.room /\ given.stream = w.stream /\ given.input = w.input
       /\ given.barred = w.barred /\ given.peer = w.peer /\ given.share = w.share
       /\ DOMAIN given.job = Jobs /\ given.job["share"] = w.job["share"]
       /\ given.job["input"] = begun
  BY <1>2, <1>9 DEF WorldType, WorldFields, Jobs
<1>13. DeviceBegins(w.track, given.track, new, kind)
  <2>1. DeviceBegins(w.track, [w.track EXCEPT ![new] = NewTrack(kind, FALSE, FALSE)], new, kind)
    <3>1. w.track \in [1..Tracks -> TrackRecord]
      BY <1>2 DEF WorldType
    <3> QED
      BY <3>1, <1>5, <1>11, NewTrackIs
  <2> QED
    BY <2>1, <1>12, Zenon
<1>14. InputGiven(w, given, new)
  BY <1>5, <1>6, <1>8, <1>12, <1>13 DEF InputGiven
<1>15. IF room = "over" THEN v = [World EXCEPT !.job["input"] = NoJob]
       ELSE v \in Resume(given, "input")
  BY <1>1, <1>2, <1>10
<1>16. InputGiven(World, given, new) /\ Becomes(v)
  BY <1>1, <1>10, <1>14
<1> QED
  BY <1>15, <1>16

\* The browser has opened a device; the selection goes on, or there is no room.
LEMMA DeviceGivenFits ==
  ASSUME Fits(World), DeviceGiven
  PROVE  Fits(World)'
<1>1. PICK new, given, v :
        /\ InputGiven(World, given, new) /\ Becomes(v)
        /\ IF room = "over" THEN v = [World EXCEPT !.job["input"] = NoJob]
           ELSE v \in Resume(given, "input")
  BY DeviceGivenIs
<1>2. PICK w : w = World
  OBVIOUS
<1>3. /\ Fits(w) /\ WorldType(w) /\ InputGiven(w, given, new) /\ Owned(w) \subseteq Known(w)
      /\ w.job["input"].phase = "prompt" /\ w.room = room
  BY <1>1, <1>2, WorldIs, OwnedIsKnown DEF Fits, Core, DeviceGiven
<1>4. ASSUME w.room # "over", v \in Resume(given, "input") PROVE Fits(v)
  <2>1. Fits(given)
    BY <1>3, <1>4, InputGivenFits DEF InputGiven, Begun
  <2> QED
    BY <1>3, <1>4, <2>1, ResumeFits DEF Jobs, InputGiven, Begun
<1>5. ASSUME v = [w EXCEPT !.job["input"] = NoJob] PROVE Fits(v)
  <2>1. /\ DOMAIN v = WorldFields /\ v.track = w.track /\ v.room = w.room
        /\ v.stream = w.stream /\ v.share = w.share /\ v.input = w.input
        /\ v.barred = w.barred /\ DOMAIN v.job = Jobs
        /\ v.job["share"] = w.job["share"] /\ v.job["input"] = NoJob
    BY <1>3, <1>5 DEF WorldType, WorldFields, Jobs
  <2> QED
    BY <2>1, <1>3, InputJobFits, NoJobIs
<1>6. Fits(v)
  BY <1>1, <1>2, <1>3, <1>4, <1>5
<1> QED
  BY <1>1, <1>6, BecomesFits

\* A stop that nobody but the user asks for.
LEMMA StopAskedFits ==
  ASSUME Fits(World), NEW v \in Stop(World, FALSE), Becomes(v)
  PROVE  Fits(World)'
<1>1. PICK w : w = World
  OBVIOUS
<1>2. Core(w) /\ OffFits(w) /\ NoWish(w) /\ \A k \in w.barred : Off(w, k)
  BY <1>1 DEF Fits, OffFits
<1>3. w.job["share"].phase = "stopping" /\ w.share.disables => Off(w, "video")
  BY <1>2 DEF OffFits
<1>4. Fits(v)
  BY <1>1, <1>2, <1>3, StopFits
<1> QED
  BY <1>4, BecomesFits

\* The user stops the share.
LEMMA StopShareFits ==
  ASSUME Fits(World), StopShare
  PROVE  Fits(World)'
BY StopAskedFits DEF StopShare

\* A track ends, and what is not referred to any more is forgotten.
LEMMA TrackEndsFits ==
  ASSUME Fits(World), NEW ts, track' = Stopped(track, ts),
         UNCHANGED <<room, input, job, barred>>,
         \/ UNCHANGED <<stream, share>>
         \/ /\ stream' = IF stream = None THEN None ELSE stream \ ts
            /\ share' = [share EXCEPT !.retained = @ \ ts],
         job["share"].phase = "none" => share.active \notin ts
  PROVE  Fits(World)'
<1>1. PICK v : v = World'
  OBVIOUS
<1>2. PICK w : w = World
  OBVIOUS
<1>3. Core(w) /\ OffFits(w) /\ WorldType(w) /\ w.share = share /\ w.job = job
      /\ w.track = track /\ w.stream = stream /\ w.room = room /\ w.input = input
      /\ w.barred = barred
  BY <1>2, WorldIs DEF Fits, Core
<1>4. /\ DOMAIN v = WorldFields /\ v.track = track' /\ v.room = w.room /\ v.stream = stream'
      /\ v.share = share' /\ v.input = w.input /\ v.job = w.job /\ v.barred = w.barred
  BY <1>1, <1>3 DEF World, WorldFields
<1>5. EndedOnly(w.track, v.track, ts)
  <2>1. EndedOnly(w.track, Stopped(w.track, ts), ts)
    BY <1>3, TracksChange DEF WorldType
  <2>2. v.track = Stopped(w.track, ts)
    BY <1>3, <1>4
  <2> QED
    BY <2>1, <2>2, Zenon
<1>6. /\ v.stream = None <=> w.stream = None
      /\ StreamOf(v) \subseteq StreamOf(w) /\ StreamOf(w) \subseteq StreamOf(v) \cup ts
  <2>1. w.stream = None \/ w.stream \subseteq 1..Tracks
    BY <1>3 DEF WorldType
  <2>2. CASE UNCHANGED <<stream, share>>
    BY <2>2, <1>3, <1>4 DEF StreamOf
  <2>3. CASE stream' = IF stream = None THEN None ELSE stream \ ts
    <3>1. stream # None => stream \ ts \in SUBSET (1..Tracks)
      BY <2>1, <1>3, TracksAssumption
    <3> QED
      BY <2>3, <3>1, <1>3, <1>4, TracksAssumption DEF StreamOf
  <2> QED
    BY <2>2, <2>3
<1>7. /\ DOMAIN v.share = ShareFields
      /\ v.share.pending = w.share.pending /\ v.share.active = w.share.active
      /\ v.share.retained \subseteq w.share.retained
      /\ w.share.retained \subseteq v.share.retained \cup ts
      /\ v.share.disables = w.share.disables
  <2>1. DOMAIN w.share = ShareFields
    BY <1>3 DEF WorldType
  <2> QED
    BY <2>1, <1>3, <1>4 DEF ShareFields
<1>8. w.job["share"].phase = "none" => w.share.active \notin ts
  BY <1>3
<1>9. Core(v) /\ OffFits(v)
  BY <1>3, <1>4, <1>5, <1>6, <1>7, <1>8, EndingFits
<1> QED
  BY <1>1, <1>9 DEF Fits

\* The user ends the share in the browser.
LEMMA ScreenEndsFits ==
  ASSUME Fits(World), ScreenEnds
  PROVE  Fits(World)'
<1>1. CASE Live(World, share.pending) /\ track' = Stopped(track, {share.pending})
           /\ UNCHANGED <<room, stream, peer, share, input, job, barred>>
  <2>1. PICK w : w = World
    OBVIOUS
  <2>2. Core(w) /\ w.share = share /\ w.job = job
    BY <2>1, WorldIs DEF Fits
  <2>3. share.pending # 0
    BY <1>1 DEF Live
  <2>4. job["share"].phase # "none"
    BY <2>2, <2>3 DEF Core, ShareFits
  <2> QED
    BY <1>1, <2>4, TrackEndsFits
<1>2. CASE \E v \in Stop(World, FALSE) : Becomes(v)
  BY <1>2, StopAskedFits
<1> QED
  BY Zenon, <1>1, <1>2 DEF ScreenEnds

\* A device is lost.
LEMMA InputEndsFits ==
  ASSUME Fits(World), NEW kind \in Kind, InputEnds(kind)
  PROVE  Fits(World)'
<1>1. PICK t : /\ t \in Owned(World) /\ Live(World, t) /\ ~track[t].screen
               /\ track' = Stopped(track, {t})
               /\ stream' = IF stream = None THEN None ELSE stream \ {t}
               /\ share' = [share EXCEPT !.retained = @ \ {t}]
  BY Zenon DEF InputEnds
<1>2. PICK w : w = World
  OBVIOUS
<1>3. Core(w) /\ WorldType(w) /\ w.share = share /\ w.track = track /\ w.job = job
  BY <1>2, WorldIs DEF Fits, Core
<1>4. job["share"].phase = "none" => share.active \notin {t}
  BY <1>1, <1>2, <1>3 DEF Core, ShareFits, KindsFit, Lives, Live
<1> QED
  BY Zenon, <1>1, <1>4, TrackEndsFits DEF InputEnds

\* What is wanted of a kind, now and of a selection under way.
Told(w, kind, on, bars) == [Desired(w, kind, on) EXCEPT !.barred = bars]

\* Only what is wanted changes.
LEMMA DesiredFits ==
  ASSUME NEW w, Core(w), NEW kind \in Kind, NEW on \in BOOLEAN, NEW bars \in SUBSET Kind,
         NEW v, v = Told(w, kind, on, bars)
  PROVE  /\ Core(v) /\ \A k : Off(w, k) => Off(v, k)
         /\ v.track = w.track /\ v.room = w.room /\ v.stream = w.stream /\ v.share = w.share
         /\ v.input = [w.input EXCEPT ![kind] = on] /\ v.barred = bars
         /\ v.job["share"] = w.job["share"]
         /\ v.job["input"].phase = w.job["input"].phase
         /\ v.job["input"].kind = w.job["input"].kind
         /\ v.job["input"].on = IF w.job["input"].phase # "none" /\ w.job["input"].kind = kind
                                THEN on ELSE w.job["input"].on
<1>1. WorldType(w)
  BY DEF Core
<1>2. PICK wish : wish = IF w.job["input"].phase # "none" /\ w.job["input"].kind = kind
                         THEN on ELSE w.job["input"].on
  OBVIOUS
<1>3. wish \in BOOLEAN
  BY <1>1, <1>2 DEF WorldType
<1>4. PICK at : at = [w.job["input"] EXCEPT !.on = wish]
  OBVIOUS
<1>5. /\ DOMAIN at = JobFields /\ at.on = wish /\ at.phase = w.job["input"].phase
      /\ at.kind = w.job["input"].kind /\ at.new = w.job["input"].new
      /\ at.at = w.job["input"].at
  BY <1>1, <1>4 DEF WorldType, JobFields, Jobs
<1>6. v = [w EXCEPT !.input = [@ EXCEPT ![kind] = on], !.job = [@ EXCEPT !["input"] = at],
                    !.barred = bars]
  BY <1>2, <1>4 DEF Desired, Told
<1>7. /\ DOMAIN v = WorldFields /\ v.track = w.track /\ v.room = w.room /\ v.stream = w.stream
      /\ v.share = w.share /\ v.input = [w.input EXCEPT ![kind] = on] /\ v.barred = bars
      /\ DOMAIN v.job = Jobs /\ v.job["share"] = w.job["share"] /\ v.job["input"] = at
  BY <1>1, <1>6 DEF WorldType, WorldFields, Jobs
<1>8. WorldType(v)
  BY <1>1, <1>3, <1>5, <1>7 DEF WorldType, Jobs
<1>9. StreamOf(v) = StreamOf(w) /\ Owned(v) = Owned(w)
  BY <1>5, <1>7 DEF StreamOf, Owned
<1>10. AllOwned(v) /\ OverIsDead(v) /\ v.room # "none"
  BY <1>7, <1>9 DEF Core, AllOwned, OverIsDead
<1>11. ShareFits(v)
  BY <1>7, <1>9 DEF Core, ShareFits, Lives
<1>12. InputFits(v)
  BY <1>5, <1>7 DEF Core, InputFits, Lives
<1>13. KindsFit(v)
  BY <1>5, <1>7, <1>9 DEF Core, KindsFit
<1>14. ASSUME NEW k, Off(w, k) PROVE Off(v, k)
  BY <1>7, <1>9, <1>14 DEF Off
<1> QED
  BY <1>2, <1>5, <1>7, <1>8, <1>10, <1>11, <1>12, <1>13, <1>14 DEF Core

\* The user turns a device on or off.
LEMMA ToggleFits ==
  ASSUME Fits(World), NEW kind \in Kind, Toggle(kind)
  PROVE  Fits(World)'
<1>1. PICK w : w = World
  OBVIOUS
<1>2. Fits(w) /\ Core(w) /\ WorldType(w) /\ w.track = track /\ w.share = share
      /\ w.barred = barred
  BY <1>1, WorldIs DEF Fits, Core
<1>3. PICK ts : ts = InStream(w, kind)
  OBVIOUS
<1>4. PICK on \in BOOLEAN : on = ~AnyOn(track, ts)
  BY DEF AnyOn
<1>5. PICK bars : bars = IF on THEN w.barred \ {kind} ELSE w.barred
  OBVIOUS
<1>6. bars \in SUBSET Kind
  BY <1>2, <1>5 DEF WorldType
<1>7. PICK set : set = Told(w, kind, on, bars)
  OBVIOUS
<1>8. /\ Core(set) /\ \A k : Off(w, k) => Off(set, k)
      /\ set.track = w.track /\ set.room = w.room /\ set.stream = w.stream
      /\ set.share = w.share
      /\ set.input = [w.input EXCEPT ![kind] = on] /\ set.barred = bars
      /\ set.job["share"] = w.job["share"]
      /\ set.job["input"].phase = w.job["input"].phase
      /\ set.job["input"].kind = w.job["input"].kind
      /\ set.job["input"].on = IF w.job["input"].phase # "none" /\ w.job["input"].kind = kind
                               THEN on ELSE w.job["input"].on
  BY <1>2, <1>6, <1>7, DesiredFits
<1>9. PICK v : v = [set EXCEPT !.track = Switched(set.track, ts, on)]
  OBVIOUS
<1>10. Becomes(v) /\ (kind = "video" => w.share.active = 0)
  <2>1. Becomes([Desired(World, kind, on) EXCEPT !.track = Switched(@, ts, on),
                                                 !.barred = IF on THEN @ \ {kind} ELSE @])
    BY Zenon, <1>1, <1>3, <1>4 DEF Toggle
  <2>2. Desired(w, kind, on).barred = w.barred
    BY <1>2 DEF Desired, WorldType, WorldFields
  <2>3. DOMAIN Desired(w, kind, on) = WorldFields
    BY <1>2 DEF Desired, WorldType
  <2>4. PICK d : d = Desired(w, kind, on)
    OBVIOUS
  <2>5. v = [d EXCEPT !.track = Switched(@, ts, on), !.barred = IF on THEN @ \ {kind} ELSE @]
    <3>1. set = [d EXCEPT !.barred = bars] /\ DOMAIN d = WorldFields /\ d.barred = w.barred
      BY <1>7, <2>2, <2>3, <2>4 DEF Told
    <3>2. set.track = d.track
      BY <3>1 DEF WorldFields
    <3> QED
      BY <3>1, <3>2, <1>5, <1>9 DEF WorldFields
  <2> QED
    BY Zenon, <2>1, <2>4, <2>5, <1>1, <1>2 DEF Toggle
<1>11. WorldType(set)
  BY <1>8 DEF Core
<1>12. /\ DOMAIN v = WorldFields /\ v.track = Switched(set.track, ts, on) /\ v.room = set.room
       /\ v.stream = set.stream /\ v.share = set.share /\ v.input = set.input
       /\ v.barred = set.barred /\ v.job = set.job
  BY <1>9, <1>11 DEF WorldType, WorldFields
<1>13. /\ Same(set.track, v.track) /\ LiveOf(v.track) = LiveOf(set.track)
       /\ \A t \in LiveOf(set.track) : v.track[t].on => set.track[t].on \/ (on /\ t \in ts)
  <2>1. set.track \in [1..Tracks -> TrackRecord]
    BY <1>11 DEF WorldType
  <2>2. /\ TurnedOff(set.track, Switched(set.track, ts, FALSE), ts)
        /\ TurnedOn(set.track, Switched(set.track, ts, TRUE), ts)
    BY <2>1, TracksChange
  <2>3. CASE on
    <3>1. v.track = Switched(set.track, ts, TRUE)
      BY <2>3, <1>12
    <3>2. TurnedOn(set.track, v.track, ts)
      BY <3>1, <2>2, Zenon
    <3> QED
      BY <3>2, <2>3, Zenon DEF TurnedOn
  <2>4. CASE ~on
    <3>1. v.track = Switched(set.track, ts, FALSE)
      BY <2>4, <1>12
    <3>2. TurnedOff(set.track, v.track, ts)
      BY <3>1, <2>2, Zenon
    <3> QED
      BY <3>2, Zenon DEF TurnedOff
  <2> QED
    BY <2>3, <2>4
<1>14. WorldType(v)
  BY <1>11, <1>12, <1>13 DEF WorldType, Same
<1>15. StreamOf(v) = StreamOf(set) /\ Owned(v) = Owned(set)
  BY <1>12 DEF StreamOf, Owned
<1>16. AllOwned(v) /\ OverIsDead(v) /\ v.room # "none"
  BY <1>8, <1>12, <1>13, <1>15 DEF Core, AllOwned, OverIsDead
<1>17. ShareFits(v) /\ InputFits(v)
  BY <1>8, <1>12, <1>13, <1>15 DEF Core, ShareFits, InputFits, Lives
<1>18. \A t \in ts : t \in StreamOf(set) /\ set.track[t].kind = kind
  BY <1>3, <1>8 DEF InStream, OfKind, StreamOf
<1>19. KindsFit(v)
  <2>1. KindsFit(set)
    BY <1>8 DEF Core
  <2> QED
    BY <2>1, <1>12, <1>13, <1>15, <1>18 DEF KindsFit, Same
<1>20. NoWish(v)
  <2>1. NoWish(w) /\ w.input \in [Kind -> BOOLEAN] /\ bars \subseteq Kind
        /\ (w.job["input"].kind \in Kind)
    BY <1>2, <1>6 DEF Fits, OffFits, WorldType
  <2> QED
    BY <2>1, <1>5, <1>8, <1>12 DEF NoWish
<1>21. ASSUME NEW k, Off(w, k), on => k # kind PROVE Off(v, k)
  <2>1. Off(set, k)
    BY <1>21, <1>8
  <2> QED
    BY <2>1, <1>21, <1>13, <1>15, <1>18 DEF Off, Same
<1>22. OffFits(v)
  <2>1. ASSUME NEW k \in v.barred PROVE Off(v, k)
    <3>1. k \in w.barred /\ (on => k # kind)
      BY <1>5, <1>8, <1>12
    <3> QED
      BY <3>1, <1>2, <1>21 DEF Fits, OffFits
  <2>2. ASSUME v.job["share"].phase = "stopping", v.share.disables PROVE Off(v, "video")
    <3>1. Off(w, "video")
      BY <2>2, <1>2, <1>8, <1>12 DEF Fits, OffFits
    <3>2. CASE kind # "video" \/ ~on
      BY <3>1, <3>2, <1>21
    <3>3. CASE kind = "video" /\ on
      <4>1. w.room = "over"
        BY <2>2, <3>3, <1>2, <1>8, <1>10, <1>12 DEF Core, ShareFits
      <4> QED
        BY <4>1, <1>8, <1>12, <1>16 DEF OverIsDead, Off
    <3> QED
      BY <3>2, <3>3
  <2> QED
    BY <2>1, <2>2, <1>20 DEF OffFits
<1>23. Fits(v)
  BY <1>14, <1>16, <1>17, <1>19, <1>22 DEF Fits, Core
<1> QED
  BY <1>10, <1>23, BecomesFits

\* The host turns the microphone off: what is not in the stream is off already.
MicrophoneOff(w) == [w EXCEPT !.track = Switched(@, InStream(w, "audio"), FALSE)]

\* All that is live and owned of a microphone is in the stream, or off.
LEMMA MicrophoneOffFits ==
  ASSUME NEW w, Core(w), NoWish(w), \A k \in w.barred : k # "audio" => Off(w, k),
         w.job["share"].phase = "stopping" /\ w.share.disables => Off(w, "video"),
         NEW v, v = MicrophoneOff(w)
  PROVE  Fits(v)
<1>1. PICK ts : ts = InStream(w, "audio")
  OBVIOUS
<1>2. WorldType(w)
  BY DEF Core
<1>3. /\ DOMAIN v = WorldFields /\ v.track = Switched(w.track, ts, FALSE) /\ v.room = w.room
      /\ v.stream = w.stream /\ v.share = w.share /\ v.input = w.input
      /\ v.barred = w.barred /\ v.job = w.job
  BY <1>1, <1>2 DEF WorldType, WorldFields, MicrophoneOff
<1>4. TurnedOff(w.track, v.track, ts)
  <2>1. TurnedOff(w.track, Switched(w.track, ts, FALSE), ts)
    BY <1>2, TracksChange DEF WorldType
  <2> QED
    BY <2>1, <1>3, Zenon
<1>5. WorldType(v)
  BY <1>2, <1>3, <1>4 DEF WorldType, TurnedOff, Same
<1>6. StreamOf(v) = StreamOf(w) /\ Owned(v) = Owned(w)
  BY <1>3 DEF StreamOf, Owned
<1>7. AllOwned(v) /\ OverIsDead(v) /\ v.room # "none"
  BY <1>3, <1>4, <1>6 DEF Core, AllOwned, OverIsDead, TurnedOff
<1>8. ShareFits(v) /\ InputFits(v)
  BY <1>3, <1>4, <1>6 DEF Core, ShareFits, InputFits, Lives, TurnedOff
<1>9. KindsFit(v)
  <2>1. KindsFit(w)
    BY DEF Core
  <2>2. \A t \in LiveOf(v.track) :
          /\ t \in LiveOf(w.track)
          /\ v.track[t].kind = w.track[t].kind /\ v.track[t].screen = w.track[t].screen
          /\ v.track[t].on => w.track[t].on
    BY <1>4 DEF TurnedOff, Same
  <2>3. StreamOf(v) = StreamOf(w) /\ v.share = w.share /\ v.job = w.job
    BY <1>3, <1>6
  <2> QED
    BY <2>1, <2>2, <2>3 DEF KindsFit
<1>10. ASSUME NEW k, Off(w, k) PROVE Off(v, k)
  BY <1>10, <1>4, <1>6 DEF Off, TurnedOff, Same
<1>11. Off(v, "audio")
  <2> SUFFICES ASSUME NEW t \in LiveOf(v.track), t \in Owned(v), v.track[t].kind = "audio",
                      ~v.track[t].screen
               PROVE  ~v.track[t].on
    BY DEF Off
  <2>1. t \in LiveOf(w.track) /\ t \in Owned(w) /\ w.track[t].kind = "audio"
    BY <1>4, <1>6 DEF TurnedOff, Same
  <2>2. t \notin {w.share.active, w.share.pending} /\ t \notin w.share.retained
    BY <2>1 DEF Core, KindsFit
  <2>3. CASE t = w.job["input"].new
    BY <2>3, <2>1, <1>4 DEF Core, KindsFit, TurnedOff
  <2>4. CASE t # w.job["input"].new
    <3>1. t \in ts
      BY <2>4, <2>1, <2>2, <1>1 DEF Owned, InStream, OfKind
    <3> QED
      BY <3>1, <2>1, <1>4 DEF TurnedOff
  <2> QED
    BY <2>3, <2>4
<1>12. OffFits(v)
  <2>1. \A k \in v.barred : Off(v, k)
    BY <1>3, <1>10, <1>11
  <2> QED
    BY <2>1, <1>3, <1>10 DEF OffFits, NoWish
<1> QED
  BY <1>5, <1>7, <1>8, <1>9, <1>12 DEF Fits, Core

\* What the host says first: nothing of that kind is wanted.
LEMMA ModeratedFits ==
  ASSUME Fits(World), NEW kind \in Kind, NEW told, told = Moderated(kind)
  PROVE  /\ Core(told) /\ told.room = room /\ told.share = share
         /\ told.job["share"] = job["share"]
         /\ NoWish(told) /\ \A k \in told.barred : k # kind => Off(told, k)
         /\ told.job["share"].phase = "stopping" /\ told.share.disables => Off(told, "video")
<1>1. PICK w : w = World
  OBVIOUS
<1>2. Fits(w) /\ Core(w) /\ WorldType(w) /\ w.room = room /\ w.share = share
      /\ w.job = job /\ w.barred = barred
  BY <1>1, WorldIs DEF Fits, Core
<1>3. PICK bars \in SUBSET Kind : bars = w.barred \cup {kind}
  BY <1>2 DEF WorldType
<1>4. told = Told(w, kind, FALSE, bars)
  <2>1. Desired(w, kind, FALSE).barred = w.barred /\ DOMAIN Desired(w, kind, FALSE) = WorldFields
    BY <1>2 DEF Desired, WorldType, WorldFields
  <2>2. PICK d : d = Desired(w, kind, FALSE)
    OBVIOUS
  <2>3. d.barred = w.barred
    BY <2>1, <2>2, Zenon
  <2>4. told = [d EXCEPT !.barred = @ \cup {kind}]
    BY <2>2, <1>1 DEF Moderated
  <2>5. Told(w, kind, FALSE, bars) = [d EXCEPT !.barred = bars]
    BY <2>2 DEF Told
  <2> QED
    BY <2>3, <2>4, <2>5, <1>3
<1>5. /\ Core(told) /\ \A k : Off(w, k) => Off(told, k)
      /\ told.room = w.room /\ told.share = w.share
      /\ told.input = [w.input EXCEPT ![kind] = FALSE] /\ told.barred = bars
      /\ told.job["share"] = w.job["share"]
      /\ told.job["input"].phase = w.job["input"].phase
      /\ told.job["input"].kind = w.job["input"].kind
      /\ told.job["input"].on = IF w.job["input"].phase # "none" /\ w.job["input"].kind = kind
                                THEN FALSE ELSE w.job["input"].on
  <2>1. PICK no \in BOOLEAN : no = FALSE
    OBVIOUS
  <2>2. told = Told(w, kind, no, bars)
    BY <1>4, <2>1
  <2>3. /\ Core(told) /\ \A k : Off(w, k) => Off(told, k)
        /\ told.room = w.room /\ told.share = w.share
        /\ told.input = [w.input EXCEPT ![kind] = no] /\ told.barred = bars
        /\ told.job["share"] = w.job["share"]
        /\ told.job["input"].phase = w.job["input"].phase
        /\ told.job["input"].kind = w.job["input"].kind
        /\ told.job["input"].on = IF w.job["input"].phase # "none" /\ w.job["input"].kind = kind
                                  THEN no ELSE w.job["input"].on
    BY <2>2, <1>2, DesiredFits
  <2> QED
    BY <2>1, <2>3
<1>6. NoWish(told) /\ \A k \in told.barred : k # kind => Off(told, k)
  <2>1. OffFits(w) /\ NoWish(w) /\ w.input \in [Kind -> BOOLEAN] /\ w.barred \subseteq Kind
    BY <1>2 DEF Fits, OffFits, WorldType
  <2>2. \A k \in bars : k = kind \/ k \in w.barred
    BY <1>3
  <2>3. NoWish(told)
    BY <2>1, <2>2, <1>3, <1>5 DEF NoWish
  <2> QED
    BY <2>1, <2>2, <2>3, <1>5 DEF OffFits
<1>7. told.job["share"].phase = "stopping" /\ told.share.disables => Off(told, "video")
  BY <1>2, <1>5 DEF Fits, OffFits
<1> QED
  BY <1>2, <1>5, <1>6, <1>7

\* The host turns a device off.
LEMMA ModerateFits ==
  ASSUME Fits(World), NEW kind \in Kind, Moderate(kind)
  PROVE  Fits(World)'
<1>1. PICK told : told = Moderated(kind)
  OBVIOUS
<1>2. /\ Core(told) /\ told.room = room /\ told.share = share
      /\ told.job["share"] = job["share"]
      /\ NoWish(told) /\ \A k \in told.barred : k # kind => Off(told, k)
      /\ told.job["share"].phase = "stopping" /\ told.share.disables => Off(told, "video")
  BY <1>1, ModeratedFits
<1>3. room = "active"
  BY DEF Moderate
<1>4. CASE kind = "audio"
  <2>1. PICK v : v = MicrophoneOff(told) /\ Becomes(v)
    BY <1>1, <1>4 DEF Moderate, MicrophoneOff
  <2>2. Fits(v)
    BY <2>1, <1>2, <1>4, MicrophoneOffFits
  <2> QED
    BY <2>1, <2>2, BecomesFits
<1>5. CASE kind = "video" /\ told.job["share"].phase # "none" /\ share.active = 0
  <2>1. PICK v : v = CancelStart(told, TRUE) /\ Becomes(v)
    BY <1>1, <1>5 DEF Moderate
  <2>2. Fits(v)
    BY <2>1, <1>2, <1>5, CancelStartFits
  <2> QED
    BY <2>1, <2>2, BecomesFits
<1>6. CASE kind = "video" /\ share.active # 0
  <2>1. PICK v \in Stop(told, TRUE) : Becomes(v)
    BY <1>1, <1>6 DEF Moderate
  <2>2. Fits(v)
    BY <2>1, <1>2, <1>3, <1>6, StopFits
  <2> QED
    BY <2>1, <2>2, BecomesFits
<1>7. CASE kind = "video" /\ told.job["share"].phase = "none" /\ share.active = 0
  <2>1. PICK v : v = CamerasOff(told) /\ Becomes(v)
    BY <1>1, <1>7 DEF Moderate
  <2>2. Fits(v)
    BY <2>1, <1>2, <1>7, CamerasOffFits DEF Fits
  <2> QED
    BY <2>1, <2>2, BecomesFits
<1> QED
  BY <1>4, <1>5, <1>6, <1>7 DEF Kind

\* The signaling is lost, or the room is joined again.
LEMMA RoomChangesFit ==
  ASSUME Fits(World), {room, room'} \subseteq {"active", "reconnecting"},
         UNCHANGED <<track, stream, share, input, job, barred>>
  PROVE  Fits(World)'
<1>1. PICK v : v = World'
  OBVIOUS
<1>2. PICK w : w = World
  OBVIOUS
<1>3. Fits(w) /\ WorldType(w) /\ w.share = share /\ w.job = job
      /\ w.track = track /\ w.stream = stream /\ w.room = room /\ w.input = input
      /\ w.barred = barred
  BY <1>2, WorldIs DEF Fits, Core
<1>4. /\ DOMAIN v = WorldFields /\ v.track = w.track /\ v.stream = w.stream
      /\ v.share = w.share /\ v.input = w.input /\ v.job = w.job /\ v.barred = w.barred
      /\ v.room \in {"active", "reconnecting"} /\ w.room \in {"active", "reconnecting"}
  BY <1>1, <1>3 DEF World, WorldFields
<1>5. WorldType(v)
  BY <1>3, <1>4 DEF WorldType
<1>6. StreamOf(v) = StreamOf(w) /\ Owned(v) = Owned(w)
  BY <1>4 DEF StreamOf, Owned
<1>7. AllOwned(v) /\ OverIsDead(v) /\ v.room # "none"
  BY <1>3, <1>4, <1>6 DEF Fits, Core, AllOwned, OverIsDead
<1>8. ShareFits(v) /\ InputFits(v)
  BY <1>3, <1>4, <1>6 DEF Fits, Core, ShareFits, InputFits, Lives
<1>9. KindsFit(v)
  BY <1>3, <1>4, <1>6 DEF Fits, Core, KindsFit
<1>10. OffFits(v)
  BY <1>3, <1>4, <1>6 DEF Fits, OffFits, NoWish, Off
<1> QED
  BY <1>1, <1>5, <1>7, <1>8, <1>9, <1>10 DEF Fits, Core

\* The room is left: everything owned is stopped.
LEMMA LeaveFits ==
  ASSUME Fits(World), Leave
  PROVE  Fits(World)'
<1>1. PICK v : v = World'
  OBVIOUS
<1>2. PICK w : w = World
  OBVIOUS
<1>3. Fits(w) /\ WorldType(w) /\ AllOwned(w) /\ w.job = job /\ w.track = track
      /\ w.input = input /\ w.barred = barred
  BY <1>2, WorldIs DEF Fits, Core
<1>4. /\ DOMAIN v = WorldFields /\ v.track = Stopped(w.track, Owned(w)) /\ v.room = "over"
      /\ v.stream = None /\ v.share = NoShare /\ v.input = w.input /\ v.job = w.job
      /\ v.barred = w.barred
  BY <1>1, <1>2, <1>3 DEF World, WorldFields, Leave
<1>5. v.track \in [1..Tracks -> TrackRecord] /\ LiveOf(v.track) = {}
  <2>1. EndedOnly(w.track, Stopped(w.track, Owned(w)), Owned(w))
    BY <1>3, TracksChange DEF WorldType
  <2>2. EndedOnly(w.track, v.track, Owned(w))
    BY <2>1, <1>4, Zenon
  <2> QED
    BY <2>2, <1>3 DEF EndedOnly, Same, AllOwned
<1>6. /\ DOMAIN v.share = ShareFields /\ v.share.pending = 0 /\ v.share.active = 0
      /\ v.share.retained = {}
  BY <1>4 DEF NoShare, ShareFields
<1>7. WorldType(v)
  BY <1>3, <1>4, <1>5, <1>6 DEF WorldType
<1>8. AllOwned(v) /\ OverIsDead(v) /\ v.room # "none"
  BY <1>4, <1>5 DEF AllOwned, OverIsDead
<1>9. ShareFits(v) /\ InputFits(v) /\ KindsFit(v)
  BY <1>3, <1>4, <1>5, <1>6 DEF Fits, Core, ShareFits, InputFits, KindsFit, Lives
<1>10. OffFits(v)
  BY <1>3, <1>4, <1>5 DEF Fits, OffFits, NoWish, Off
<1> QED
  BY <1>1, <1>7, <1>8, <1>9, <1>10 DEF Fits, Core

\* A step of the session.
LEMMA MediaFits ==
  ASSUME Fits(World), MediaNext
  PROVE  Fits(World)'
<1>1. CASE Going
  BY <1>1, ReplacedFits, ReplaceFailsFits, ReplaceLostFits, ShareRefusedFits, ShareGrantedFits,
     DeviceDeniedFits, DeviceGivenFits, Zenon DEF Going, Jobs
<1>2. CASE StartShare \/ StopShare \/ ScreenEnds
  BY <1>2, StartShareFits, StopShareFits, ScreenEndsFits
<1>3. CASE \E k \in Kind : SelectDevice(k) \/ Toggle(k) \/ Moderate(k) \/ InputEnds(k)
  BY <1>3, SelectDeviceFits, ToggleFits, ModerateFits, InputEndsFits, Zenon
<1>4. CASE \E p \in Peer : PeerComes(p) \/ PeerGoes(p) \/ PeerReplaced(p) \/ Offer(p)
  BY <1>4, OthersFit DEF PeerComes, PeerGoes, PeerReplaced, Offer
<1>5. CASE Drop \/ \E ps \in SUBSET Peer : Rejoin(ps)
  BY <1>5, RoomChangesFit DEF Drop, Rejoin
<1>6. CASE Leave
  BY <1>6, LeaveFits
<1> QED
  BY <1>1, <1>2, <1>3, <1>4, <1>5, <1>6, Zenon DEF MediaNext

-----------------------------------------------------------------------------
(* The path from the preparation through the session                       *)

\* There is no session.
NoSession ==
  /\ room = "none" /\ stream = None /\ share = NoShare /\ barred = {}
  /\ job = [j \in Jobs |-> NoJob] /\ input \in [Kind -> BOOLEAN]

\* What is prepared and not yet in a session.
EnteringFits ==
  /\ prepared.tracks \subseteq 1..Tracks /\ prepared.want \in [Kind -> BOOLEAN]
  /\ LiveOf(track) \subseteq prepared.tracks
  /\ \A t \in LiveOf(track) : ~track[t].screen

PathFits ==
  /\ PreparationFits
  /\ stage \in {"prejoin", "entering", "session", "left"}
  /\ stage # "session" => NoSession
  /\ stage = "session" => Fits(World)
  /\ stage # "prejoin" => pre.over
  /\ stage = "prejoin" /\ pre.over => LiveOf(track) = {}
  /\ stage = "entering" => prepared # None /\ EnteringFits
  /\ stage # "entering" => prepared = None
  /\ stage = "left" => LiveOf(track) = {}

\* Nothing but the connections changes in a session that is not there, and they
\* do not when there are none.
LEMMA NoSessionStays ==
  ASSUME NoSession, MediaNext
  PROVE  /\ UNCHANGED <<track, room, stream, share, input, job, barred>>
         /\ (\A p \in Peer : ~peer[p].here) => UNCHANGED peer
<1> DEFINE Stays == /\ UNCHANGED <<track, room, stream, share, input, job, barred>>
                    /\ (\A p \in Peer : ~peer[p].here) => UNCHANGED peer
<1>1. PICK w : w = World
  OBVIOUS
<1>2. /\ w.track = track /\ w.room = room /\ w.stream = stream /\ w.peer = peer
      /\ w.share = share /\ w.input = input /\ w.job = job /\ w.barred = barred
  BY <1>1, WorldIs
<1>3. /\ share.pending = 0 /\ share.active = 0 /\ share.retained = {}
      /\ \A j \in Jobs : job[j].phase = "none" /\ job[j].at = None /\ job[j].new = 0
  BY NoJobIs DEF NoSession, NoShare
<1>4. StreamOf(w) = {} /\ Owned(w) = {}
  BY <1>2, <1>3 DEF NoSession, StreamOf, Owned, Jobs
<1>5. ~Going
  BY Zenon, <1>3
    DEF Going, Replaced, ReplaceFails, ReplaceLost, Settling, WaitIsClosed, Waiting, Jobs,
     ShareRefused, ShareGranted, DeviceDenied, DeviceGiven
<1>6. CASE StopShare
  <2>1. PICK v \in Stop(w, FALSE) : Becomes(v)
    BY <1>1, <1>6 DEF StopShare
  <2>2. v = w
    BY <2>1, <1>2, <1>3 DEF Stop, CancelStart, NoSession, Jobs
  <2> QED
    BY <2>1, <2>2, <1>2 DEF Becomes
<1>7. ~StartShare /\ ~ScreenEnds
  BY <1>1, <1>3 DEF NoSession, StartShare, ScreenEnds, Live
<1>8. ASSUME NEW k \in Kind
      PROVE  ~SelectDevice(k) /\ ~Toggle(k) /\ ~Moderate(k) /\ ~InputEnds(k)
  <2>1. ~SelectDevice(k) /\ ~Moderate(k)
    BY DEF NoSession, SelectDevice, Moderate
  <2>2. InStream(w, k) = {}
    BY <1>4 DEF InStream, OfKind
  <2>3. ~Toggle(k)
    BY <1>1, <2>2 DEF Toggle
  <2>4. ~InputEnds(k)
    BY <1>1, <1>4 DEF InputEnds
  <2> QED
    BY <2>1, <2>3, <2>4
<1>9. ~Drop /\ ~(\E ps \in SUBSET Peer : Rejoin(ps)) /\ ~Leave
  BY DEF NoSession, Drop, Rejoin, Leave
<1>10. ASSUME NEW p \in Peer, PeerComes(p) \/ PeerGoes(p) \/ PeerReplaced(p) \/ Offer(p)
       PROVE  Stays
  BY <1>10 DEF NoSession, PeerComes, PeerGoes, PeerReplaced, Offer
<1> QED
  BY <1>5, <1>6, <1>7, <1>8, <1>9, <1>10, Zenon DEF MediaNext

\* The preparation is over and what it says of tracks is nothing.
LEMMA OverFits ==
  ASSUME PreparationFits, pre.over, UNCHANGED <<pre, screen, plugged, changes>>,
         track' \in [1..Tracks -> TrackRecord]
  PROVE  PreparationFits'
BY DEF PreparationFits, TracksFit, ListFits, PreType

\* The room is entered: what was prepared waits for the session.
LEMMA JoinFits ==
  ASSUME PathFits, Join
  PROVE  PathFits'
<1>1. /\ PreparationFits /\ stage = "prejoin" /\ NoSession /\ ~pre.over /\ screen.alive
      /\ pre' = Disposed(pre) /\ stage' = "entering"
      /\ UNCHANGED <<plugged, changes, room, stream, share, input, job, barred>>
  BY DEF PathFits, PreparationFits, Join
<1>2. /\ PreType(pre) /\ track \in [1..Tracks -> TrackRecord] /\ LiveOf(track) \subseteq pre.stream
      /\ pre.stream \subseteq 1..Tracks /\ pre.want \in [Kind -> BOOLEAN]
      /\ \A t \in LiveOf(track) : ~track[t].screen
  BY <1>1 DEF PreparationFits, TracksFit, PreType
<1>3. PreType(pre') /\ pre'.over /\ pre'.stream = {}
  BY <1>1, <1>2, DisposedIs
<1>4. /\ track' \in [1..Tracks -> TrackRecord]
      /\ prepared' \in [tracks : SUBSET (1..Tracks), want : [Kind -> BOOLEAN]]
      /\ LiveOf(track') \subseteq prepared'.tracks
      /\ \A t \in LiveOf(track') : ~track'[t].screen
  <2>1. CASE prepared' = [tracks |-> pre.stream, want |-> pre.want] /\ UNCHANGED track
    BY <2>1, <1>2
  <2>2. CASE prepared' = [tracks |-> {}, want |-> pre.want] /\ track' = Stopped(track, pre.stream)
    <3>1. EndedOnly(track, Stopped(track, pre.stream), pre.stream)
      BY <1>2, TracksChange
    <3>2. EndedOnly(track, track', pre.stream)
      BY <2>2, <3>1, Zenon
    <3> QED
      BY <2>2, <3>2, <1>2 DEF EndedOnly, Same
  <2> QED
    BY <2>1, <2>2 DEF Join
<1>5. prepared' # None /\ EnteringFits'
  BY <1>4, MediaPathAssumption DEF EnteringFits
<1>6. PreparationFits'
  <2>1. DOMAIN screen' = {"alive", "doing", "asked"} /\ ~screen'.alive /\ screen'.doing = None
    BY <1>1 DEF Join, PreparationFits
  <2> QED
    BY <2>1, <1>1, <1>3, <1>4 DEF PreparationFits, TracksFit, ListFits
<1> QED
  BY <1>1, <1>3, <1>5, <1>6 DEF PathFits, NoSession

\* A prepared track ends unheard.
LEMMA PreparedEndsFits ==
  ASSUME PathFits, NEW t \in 1..Tracks, PreparedEnds(t)
  PROVE  PathFits'
<1>1. /\ PreparationFits /\ stage = "entering" /\ NoSession /\ EnteringFits /\ pre.over
      /\ prepared # None /\ track' = Stopped(track, {t})
      /\ UNCHANGED <<pre, screen, plugged, changes, prepared, stage, room, stream, share, input,
                     job, barred>>
  BY Zenon DEF PathFits, PreparedEnds
<1>2. EndedOnly(track, track', {t})
  <2>1. EndedOnly(track, Stopped(track, {t}), {t})
    BY <1>1, TracksChange DEF PreparationFits, TracksFit
  <2> QED
    BY <2>1, <1>1, Zenon
<1>3. PreparationFits'
  BY <1>1, <1>2, OverFits DEF EndedOnly, Same
<1>4. EnteringFits'
  BY <1>1, <1>2 DEF EnteringFits, EndedOnly, Same
<1> QED
  BY <1>1, <1>3, <1>4 DEF PathFits, NoSession

\* There will be no session.
LEMMA EnteringEndsFits ==
  ASSUME PathFits, EnteringEnds
  PROVE  PathFits'
<1>1. /\ PreparationFits /\ stage = "entering" /\ NoSession /\ EnteringFits /\ pre.over
      /\ track' = Stopped(track, prepared.tracks) /\ prepared' = None /\ stage' = "left"
      /\ UNCHANGED <<pre, screen, plugged, changes, room, stream, share, input, job, barred>>
  BY DEF PathFits, EnteringEnds, StopUnclaimed
<1>2. EndedOnly(track, track', prepared.tracks)
  <2>1. EndedOnly(track, Stopped(track, prepared.tracks), prepared.tracks)
    BY <1>1, TracksChange DEF PreparationFits, TracksFit
  <2> QED
    BY <2>1, <1>1, Zenon
<1>3. PreparationFits'
  BY <1>1, <1>2, OverFits DEF EndedOnly, Same
<1>4. LiveOf(track') = {}
  BY <1>1, <1>2 DEF EnteringFits, EndedOnly
<1> QED
  BY <1>1, <1>3, <1>4 DEF PathFits, NoSession

\* What was prepared is the stream of the session.
LEMMA AdoptFits ==
  ASSUME NoSession, EnteringFits, track \in [1..Tracks -> TrackRecord],
         NEW ps, Adopt(prepared.tracks, prepared.want, ps)
  PROVE  Fits(World)'
<1>1. PICK v : v = World'
  OBVIOUS
<1> DEFINE ts == prepared.tracks
<1>2. /\ DOMAIN v = WorldFields /\ v.track = track /\ v.room = "active"
      /\ v.stream = IF ts = {} THEN None ELSE ts \cap LiveOf(track)
      /\ v.share = NoShare /\ v.job = [j \in Jobs |-> NoJob] /\ v.barred = {}
  BY <1>1 DEF World, WorldFields, Adopt, NoSession
<1>3. v.input \in [Kind -> BOOLEAN]
  <2>1. \A k \in Kind : prepared.want[k] \in BOOLEAN
    BY DEF EnteringFits
  <2>2. \A k \in Kind : AnyOn(track, OfKind(track, ts, k)) \in BOOLEAN
    BY DEF AnyOn
  <2>3. v.input = [k \in Kind |-> IF OfKind(track, ts, k) = {} THEN prepared.want[k]
                                  ELSE AnyOn(track, OfKind(track, ts, k))]
    BY <1>1 DEF World, Adopt
  <2> QED
    BY <2>1, <2>2, <2>3
<1>4. /\ DOMAIN v.share = ShareFields /\ v.share.pending = 0 /\ v.share.active = 0
      /\ v.share.retained = {} /\ ~v.share.disables
      /\ DOMAIN v.job = Jobs /\ \A j \in Jobs : v.job[j] = NoJob
  BY <1>2 DEF NoShare, ShareFields
<1>5. LiveOf(track) \subseteq ts /\ ts \subseteq 1..Tracks
  BY DEF EnteringFits
<1>6. StreamOf(v) = LiveOf(track)
  <2>1. CASE ts = {}
    BY <2>1, <1>2, <1>5 DEF StreamOf
  <2>2. CASE ts # {}
    <3>1. ts \cap LiveOf(track) # None
      BY <1>5, TracksAssumption
    <3> QED
      BY <2>2, <3>1, <1>2, <1>5 DEF StreamOf
  <2> QED
    BY <2>1, <2>2
<1>7. WorldType(v)
  <2>1. v.stream = None \/ v.stream \subseteq 1..Tracks
    BY <1>2, <1>5
  <2>2. v.room \in {"none", "active", "reconnecting", "over"} /\ v.barred \subseteq Kind
    BY <1>2
  <2> QED
    BY <2>1, <2>2, <1>2, <1>3, <1>4, NoJobIs DEF WorldType, Jobs
<1>8. AllOwned(v) /\ OverIsDead(v) /\ v.room # "none"
  <2>1. \A t \in LiveOf(track) : t # 0
    BY LiveNumbers
  <2> QED
    BY <2>1, <1>2, <1>6 DEF AllOwned, OverIsDead, Owned
<1>9. ShareFits(v) /\ InputFits(v)
  BY <1>2, <1>4, NoJobIs DEF ShareFits, InputFits, Jobs
<1>10. KindsFit(v)
  <2>1. \A t \in LiveOf(track) : t # 0 /\ ~track[t].screen
    BY LiveNumbers DEF EnteringFits
  <2>2. v.job["input"].new = 0
    BY <1>4, NoJobIs DEF Jobs
  <2> QED
    BY <2>1, <2>2, <1>2, <1>4, <1>6 DEF KindsFit
<1>11. OffFits(v)
  BY <1>2, <1>4, NoJobIs DEF OffFits, NoWish, Jobs
<1> QED
  BY <1>1, <1>7, <1>8, <1>9, <1>10, <1>11 DEF Fits, Core

\* The session starts.
LEMMA StartSessionFits ==
  ASSUME PathFits, StartSession
  PROVE  PathFits'
<1>1. /\ PreparationFits /\ stage = "entering" /\ NoSession /\ EnteringFits /\ pre.over
      /\ prepared' = None /\ stage' = "session"
      /\ UNCHANGED <<pre, screen, plugged, changes>>
  BY DEF PathFits, StartSession
<1>2. PICK ps \in SUBSET Peer : Adopt(prepared.tracks, prepared.want, ps)
  BY DEF StartSession
<1>3. track \in [1..Tracks -> TrackRecord] /\ UNCHANGED track
  BY <1>1, <1>2 DEF PreparationFits, TracksFit, Adopt
<1>4. Fits(World)'
  BY <1>1, <1>2, <1>3, AdoptFits
<1>5. PreparationFits'
  BY <1>1, <1>3, OverFits
<1> QED
  BY <1>1, <1>4, <1>5 DEF PathFits

\* A step of the preparation.
LEMMA PreparationStepFits ==
  ASSUME PathFits, PrejoinNext, Idle
  PROVE  PathFits'
<1>1. /\ PreparationFits'
      /\ pre.over => pre'.over /\ UNCHANGED track
      /\ ~pre.over => ~pre'.over \/ LiveOf(track') = {}
  BY PrejoinFits DEF PathFits
<1>2. UNCHANGED <<room, stream, peer, share, input, job, barred, prepared, stage>>
  BY DEF Idle
<1>3. stage' # "session" => NoSession'
  BY <1>2 DEF PathFits, NoSession
<1>4. stage' = "session" => Fits(World)'
  BY <1>1, <1>2, OthersFit DEF PathFits
<1>5. stage' = "entering" => EnteringFits'
  BY <1>1, <1>2 DEF PathFits, EnteringFits
<1>6. stage' = "prejoin" /\ pre'.over => LiveOf(track') = {}
  BY <1>1, <1>2 DEF PathFits
<1> QED
  BY <1>1, <1>2, <1>3, <1>4, <1>5, <1>6 DEF PathFits

\* A step of the session, if there is one.
LEMMA MediaStepFits ==
  ASSUME PathFits, MediaNext, UNCHANGED <<pre, screen, plugged, changes, prepared, stage>>
  PROVE  PathFits'
<1>1. CASE stage = "session"
  <2>1. Fits(World)' /\ pre.over
    BY <1>1, MediaFits DEF PathFits
  <2>2. PICK v : v = World'
    OBVIOUS
  <2>3. track' \in [1..Tracks -> TrackRecord]
    <3>1. v.track = track' /\ Fits(v)
      BY <2>1, <2>2 DEF World
    <3> QED
      BY <3>1 DEF Fits, Core, WorldType
  <2>4. PreparationFits'
    BY <2>1, <2>3, OverFits DEF PathFits
  <2> QED
    BY <1>1, <2>1, <2>4 DEF PathFits
<1>2. CASE stage # "session"
  <2>1. UNCHANGED <<track, room, stream, share, input, job, barred>>
    BY <1>2, NoSessionStays DEF PathFits
  <2>2. PreparationFits'
    BY <2>1 DEF PathFits, PreparationFits
  <2>3. NoSession' /\ (stage = "entering" => EnteringFits')
    BY <1>2, <2>1 DEF PathFits, NoSession, EnteringFits
  <2> QED
    BY <1>2, <2>1, <2>2, <2>3 DEF PathFits
<1> QED
  BY <1>1, <1>2

\* The invariant holds at first.
LEMMA PathStarts == Init => PathFits
<1> SUFFICES ASSUME Init PROVE PathFits
  OBVIOUS
<1> USE DEF Init
<1>1. track \in [1..Tracks -> TrackRecord] /\ LiveOf(track) = {}
  BY DEF TrackRecord, Dead, LiveOf
<1>2. PICK p : p = pre
  OBVIOUS
<1>3. /\ DOMAIN p = PreFields /\ ~p.over /\ p.over \in BOOLEAN /\ p.status = "idle"
      /\ p.todo = <<>> /\ p.stream = {} /\ p.asked = None
      /\ p.from = [k \in Kind |-> None] /\ p.selected = [k \in Kind |-> None]
      /\ p.inputs = [k \in Kind |-> {}] /\ p.issue = [k \in Kind |-> FALSE]
      /\ p.want = [k \in Kind |-> TRUE]
  BY <1>2 DEF InitPrejoin, NewPrejoin, PreFields
<1>4. PreType(p)
  BY <1>3 DEF PreType, AllDevices, Lists
<1>5. plugged \in Lists /\ screen.alive /\ screen.doing = None
      /\ DOMAIN screen = {"alive", "doing", "asked"}
  <2>1. Device \in Lists
    <3>1. \A k \in Kind : Device[k] \in SUBSET UNION {Device[j] : j \in Kind}
      OBVIOUS
    <3>2. Device = [k \in Kind |-> Device[k]]
      BY PrejoinAssumption
    <3> QED
      BY <3>1, <3>2 DEF Lists
  <2> QED
    BY <2>1 DEF InitPrejoin
<1>6. PreparationFits
  BY <1>1, <1>2, <1>3, <1>4, <1>5 DEF PreparationFits, TracksFit, ListFits, OfKind
<1>7. NoSession
  BY DEF InitMedia, NoSession, Jobs
<1> QED
  BY <1>2, <1>3, <1>6, <1>7 DEF PathFits

\* A step of nobody keeps it.
LEMMA PathStutters ==
  ASSUME PathFits, UNCHANGED vars
  PROVE  PathFits'
<1> USE DEF vars, preVars, mediaVars
<1>1. PreparationFits'
  BY DEF PathFits, PreparationFits
<1>2. stage = "session" => Fits(World)'
  BY OthersFit DEF PathFits
<1> QED
  BY <1>1, <1>2 DEF PathFits, NoSession, EnteringFits

\* What is known of the path holds in every state.
THEOREM PathInvariant == Spec => []PathFits
<1>1. ASSUME PathFits, [Next]_vars PROVE PathFits'
  <2>1. CASE PrejoinNext /\ Idle
    BY <1>1, <2>1, PreparationStepFits
  <2>2. CASE Join
    BY <1>1, <2>2, JoinFits
  <2>3. CASE StartSession
    BY <1>1, <2>3, StartSessionFits
  <2>4. CASE EnteringEnds
    BY <1>1, <2>4, EnteringEndsFits
  <2>5. CASE \E t \in 1..Tracks : PreparedEnds(t)
    BY <1>1, <2>5, PreparedEndsFits
  <2>6. CASE MediaNext /\ UNCHANGED <<pre, screen, plugged, changes, prepared, stage>>
    BY <1>1, <2>6, MediaStepFits
  <2>7. CASE UNCHANGED vars
    BY <1>1, <2>7, PathStutters
  <2> QED
    BY <1>1, <2>1, <2>2, <2>3, <2>4, <2>5, <2>6, <2>7, Zenon DEF Next
<1> QED
  BY <1>1, PathStarts, PTL DEF Spec

\* A live track is the preparation's, the prepared stream's or the session's, of
\* one of them only, and none is live when the room is over.
THEOREM TracksAreOwned == Spec => []EveryTrackIsOwned
<1>1. ASSUME PathFits PROVE EveryTrackIsOwned
  <2> USE <1>1
  <2>1. PICK w : w = World
    OBVIOUS
  <2> DEFINE kept == IF prepared = None THEN {} ELSE prepared.tracks
             owners == <<pre.stream, kept, Owned(World)>>
  <2>2. UNION Range(owners) = pre.stream \cup kept \cup Owned(World)
    BY DEF Range
  <2>3. stage # "session" => Owned(World) = {} /\ room # "over"
    <3> SUFFICES ASSUME NoSession PROVE Owned(World) = {} /\ room # "over"
      BY DEF PathFits
    <3>1. /\ w.stream = None /\ w.share.pending = 0 /\ w.share.active = 0
          /\ w.share.retained = {} /\ w.job["input"].new = 0
      BY <2>1, WorldIs, NoJobIs DEF NoSession, NoShare, Jobs
    <3>2. Owned(w) = {}
      BY <3>1 DEF Owned, StreamOf
    <3> QED
      BY <2>1, <3>2 DEF NoSession
  <2>4. stage # "prejoin" => pre.stream = {}
    BY DEF PathFits, PreparationFits, TracksFit
  <2>5. stage # "entering" => kept = {}
    BY DEF PathFits
  <2>6. stage = "session" => /\ LiveOf(track) \subseteq Owned(World)
                             /\ room = "over" => LiveOf(track) = {}
    <3> SUFFICES ASSUME Fits(w)
                 PROVE  /\ LiveOf(track) \subseteq Owned(World)
                        /\ room = "over" => LiveOf(track) = {}
      BY <2>1 DEF PathFits
    <3> QED
      BY <2>1, WorldIs DEF Fits, Core, AllOwned, OverIsDead
  <2>7. stage = "prejoin" => LiveOf(track) \subseteq pre.stream
    BY DEF PathFits, PreparationFits, TracksFit
  <2>8. stage = "entering" => LiveOf(track) \subseteq kept
    BY DEF PathFits, EnteringFits
  <2>9. stage \in {"prejoin", "entering", "session", "left"}
        /\ (stage = "left" => LiveOf(track) = {})
    BY DEF PathFits
  <2> HIDE DEF kept
  <2>10. LiveOf(track) \subseteq UNION Range(owners)
    BY <2>2, <2>6, <2>7, <2>8, <2>9
  <2>11. \A i, j \in 1..3 : i # j => owners[i] \cap owners[j] = {}
    BY <2>3, <2>4, <2>5, <2>9
  <2>12. stage = "left" \/ room = "over" => LiveOf(track) = {}
    BY <2>3, <2>6, <2>9
  <2> QED
    BY <2>10, <2>11, <2>12 DEF EveryTrackIsOwned, kept
<1> QED
  BY <1>1, PathInvariant, PTL

\* What the host has turned off is off, whatever is started, stopped or chosen.
THEOREM HostTurnsOff == Spec => []StaysOff
<1>1. ASSUME PathFits PROVE StaysOff
  <2> USE <1>1
  <2>1. PICK w : w = World
    OBVIOUS
  <2> SUFFICES ASSUME NEW k \in barred, NEW t \in Owned(World), Live(World, t),
                      track[t].kind = k, ~track[t].screen
               PROVE  ~track[t].on
    BY DEF StaysOff
  <2>2. Fits(w)
    BY <2>1 DEF PathFits, NoSession
  <2>3. w.track = track /\ w.barred = barred
    BY <2>1, WorldIs
  <2>4. Off(w, k)
    BY <2>2, <2>3 DEF Fits, OffFits
  <2>5. t \in LiveOf(w.track)
    <3>1. WorldType(w)
      BY <2>2 DEF Fits, Core
    <3>2. t # 0 /\ t \in StreamOf(w) \cup w.share.retained
                             \cup {w.share.pending, w.share.active, w.job["input"].new}
      BY <2>1 DEF Owned
    <3>3. StreamOf(w) \subseteq 1..Tracks
      BY <3>1 DEF WorldType, StreamOf
    <3>4. t \in 1..Tracks
      BY <3>1, <3>2, <3>3 DEF WorldType
    <3> QED
      BY <3>1, <3>4, <2>1 DEF Live, LiveOf, WorldType
  <2> QED
    BY <2>1, <2>3, <2>4, <2>5 DEF Off
<1> QED
  BY <1>1, PathInvariant, PTL

\* The devices that the screen shows are the machine's once it has heard of them,
\* unless the last list asked for failed to come.
THEOREM ListsAreCurrent == Spec => []ListIsCurrent
<1>1. ASSUME PathFits PROVE ListIsCurrent
  BY <1>1 DEF PathFits, PreparationFits, ListFits, ListIsCurrent
<1> QED
  BY <1>1, PathInvariant, PTL

-----------------------------------------------------------------------------
(* What the connections send                                               *)

Track == {0} \cup (1..Tracks)
ConnectionRecord ==
  [n : Nat, here : BOOLEAN, sender : [Kind -> {None} \cup Track], offers : BOOLEAN,
   offered : SUBSET Kind, dropped : BOOLEAN]
Number(w, p) == <<p, w.peer[p].n>>

PeersFit(w) ==
  /\ w.peer \in [Peer -> ConnectionRecord]
  /\ w.room # "active" => \A p \in Peer : ~w.peer[p].here

\* What a sender is to send of a kind, when nothing is under way.
Fine(w, k, s) ==
  IF InStream(w, k) = {} THEN s \notin LiveOf(w.track) ELSE s \in InStream(w, k)

\* Of a kind there is one live track, which is the screen while it is shared.
Lone(tr, ts) == \A t, u \in ts \cap LiveOf(tr) : tr[t].kind = tr[u].kind => t = u
OneOfAKind(w) ==
  /\ Lone(w.track, StreamOf(w)) /\ Lone(w.track, w.share.retained)
  /\ w.share.active # 0 /\ w.job["share"].phase = "none" =>
       w.share.active \in InStream(w, "video")

Busy(w, j) == w.job[j].phase \notin {"none", "prompt"}
Puts(w, j) == w.job[j].phase \in {"starting", "replacing"}
Given(at) == {u.c : u \in at.updates}
Names(at) == at.seen \cup at.failed \cup at.todo \cup Given(at) \cup ({at.at} \ {None})

\* While a screen is being started no device is chosen.
Exclusive(w) ==
  w.job["share"].phase \in {"prompt", "starting", "undoing"} => w.job["input"].phase = "none"

\* A job remembers of every sender that it changed what to put back; the ones it
\* adds are of a kind the stream has none of.
JobFits(w, j) ==
  LET at == w.job[j]
  IN /\ Names(at) \subseteq Peer \X Nat /\ {at.new, at.put, at.before} \subseteq Track
     /\ at.updates \subseteq [c : Peer \X Nat, before : Track, added : BOOLEAN]
     /\ at.kind \in Kind /\ (j = "share" => at.kind = "video")
     /\ \A u, x \in at.updates : u.c = x.c => u = x
     /\ at.at \notin Given(at)
     /\ \A u \in at.updates : Fine(w, at.kind, u.before) /\ (u.added => u.before = 0)
     /\ at.phase # "stopping" => at.todo = {}
     /\ Puts(w, j) =>
          /\ at.put = at.new /\ Names(at) \subseteq at.seen
          /\ \A k \in Kind : at.new \notin InStream(w, k)
     /\ at.phase = "replacing" => at.failed = {}
     /\ at.phase = "starting" => Fine(w, at.kind, at.before)
     /\ at.phase = "undoing" /\ at.at # None => Fine(w, at.kind, at.put)
     /\ at.phase = "stopping" => at.updates = {} /\ Fine(w, at.kind, at.put)

\* What it knows of a connection is not of a later one; a connection it has seen
\* sends its track, was asked to, or would not.
LinkFits(w, j, p) ==
  LET at == w.job[j]
      c == Number(w, p)
      sent == w.peer[p].sender[at.kind]
  IN /\ \A m \in Nat : <<p, m>> \in Names(at) => m <= w.peer[p].n
     /\ w.peer[p].here =>
          /\ c \in Given(at) \cup at.todo \cup {at.at} => sent # None
          /\ Puts(w, j) /\ c \in at.seen => c \in at.failed \/ c = at.at \/ sent = at.new
          /\ Puts(w, j) /\ c = at.at => Fine(w, at.kind, sent)

\* What a job has still to do to a sender.
Covered(w, j, k, c) ==
  LET at == w.job[j]
  IN Busy(w, j) /\ at.kind = k /\ c \in at.failed \cup Given(at) \cup at.todo \cup {at.at}
AddedBy(w, j, k, c) ==
  Busy(w, j) /\ w.job[j].kind = k /\ \E u \in w.job[j].updates : u.c = c /\ u.added

\* A sender is right, or some job will see to it; except of the connections in
\* but, which are about to be replaced.
SenderFits(w, p, k, but) ==
  w.peer[p].here =>
    \/ Fine(w, k, w.peer[p].sender[k]) \/ Number(w, p) \in but
    \/ \E j \in Jobs : Covered(w, j, k, Number(w, p))
OfferFits(w, p, k) ==
  w.peer[p].here /\ w.peer[p].sender[k] # None =>
    \/ k \in w.peer[p].offered \/ w.peer[p].offers \/ w.peer[p].dropped
    \/ \E j \in Jobs : AddedBy(w, j, k, Number(w, p))

JobIsFit(w, j) == Busy(w, j) => JobFits(w, j) /\ \A p \in Peer : LinkFits(w, j, p)
FollowsBut(w, but) ==
  /\ PeersFit(w) /\ OneOfAKind(w) /\ Exclusive(w)
  /\ \A j \in Jobs : JobIsFit(w, j)
  /\ \A p \in Peer, k \in Kind : SenderFits(w, p, k, but) /\ OfferFits(w, p, k)
Follows(w) == FollowsBut(w, {})

\* None is no track and no connection.
LEMMA NoneIsNothing ==
  /\ None \notin Track /\ \A p \in Peer, n \in Nat : <<p, n>> # None
<1>1. \A p \in Peer, n \in Nat : <<p, n>> \in Peer \X Nat
  OBVIOUS
<1> QED
  BY <1>1, TracksAssumption, LocalMediaAssumption DEF Track

\* The tracks that a stream has of a kind.
LEMMA InStreamIs ==
  ASSUME NEW w, WorldType(w), NEW k
  PROVE  /\ InStream(w, k) = {t \in StreamOf(w) \cap LiveOf(w.track) : w.track[t].kind = k}
         /\ InStream(w, k) \subseteq LiveOf(w.track) /\ LiveOf(w.track) \subseteq 1..Tracks
         /\ 0 \notin LiveOf(w.track) /\ None \notin LiveOf(w.track)
<1>1. LiveOf(w.track) \subseteq 1..Tracks
  BY DEF WorldType, LiveOf
<1> QED
  BY <1>1, NoneIsNothing, TracksAssumption DEF InStream, OfKind, Track

\* What nothing is sent of: none of the stream.
LEMMA FineIs ==
  ASSUME NEW w, WorldType(w), NEW k
  PROVE  /\ Fine(w, k, None) <=> InStream(w, k) = {}
         /\ Fine(w, k, 0) <=> InStream(w, k) = {}
         /\ \A s : s \in InStream(w, k) => Fine(w, k, s)
BY InStreamIs DEF Fine

\* The stream has one track of a kind.
LEMMA OneIs ==
  ASSUME NEW w, WorldType(w), OneOfAKind(w), NEW k
  PROVE  /\ \A t, u \in InStream(w, k) : t = u
         /\ InStream(w, k) # {} => One(InStream(w, k)) \in InStream(w, k)
<1>1. \A t, u \in InStream(w, k) : t = u
  BY InStreamIs DEF OneOfAKind, Lone
<1> QED
  BY <1>1 DEF One

SameJob(a, b) ==
  /\ b.phase = a.phase /\ b.kind = a.kind /\ b.new = a.new /\ b.before = a.before
  /\ b.put = a.put /\ b.at = a.at /\ b.todo = a.todo /\ b.seen = a.seen
  /\ b.updates = a.updates /\ b.failed = a.failed

\* What is said of a track by the senders and the jobs.
Said(w, s) ==
  \/ \E p \in Peer, k \in Kind : s = w.peer[p].sender[k]
  \/ \E j \in Jobs : Busy(w, j) /\ (s \in {w.job[j].put, w.job[j].before}
                                     \/ \E u \in w.job[j].updates : s = u.before)

\* A track that is not in the stream does not come into it.
StaysOut(w, v, t) == \A k \in Kind : t \notin InStream(w, k) => t \notin InStream(v, k)

\* A job is still fit when what is fine stays so.
LEMMA JobStaysFit ==
  ASSUME NEW w, NEW v, v.peer = w.peer, NEW j \in Jobs, SameJob(w.job[j], v.job[j]), JobIsFit(w, j),
         \A k \in Kind : \A s : Said(w, s) /\ Fine(w, k, s) => Fine(v, k, s),
         Busy(w, j) => StaysOut(w, v, w.job[j].put)
  PROVE  JobIsFit(v, j)
<1> SUFFICES ASSUME Busy(v, j) PROVE JobFits(v, j) /\ \A p \in Peer : LinkFits(v, j, p)
  BY DEF JobIsFit
<1>1. Busy(w, j) /\ JobFits(w, j) /\ \A p \in Peer : LinkFits(w, j, p)
  BY DEF JobIsFit, Busy, SameJob
<1>2. JobFits(v, j)
  <2>1. \A s : \/ s \in {w.job[j].put, w.job[j].before}
               \/ \E u \in w.job[j].updates : s = u.before
               => Said(w, s)
    BY <1>1 DEF Said
  <2>2. w.job[j].kind \in Kind
    BY <1>1 DEF JobFits
  <2>3. \A u \in w.job[j].updates : Fine(v, w.job[j].kind, u.before)
    BY <1>1, <2>1, <2>2 DEF JobFits
  <2>4. \A s \in {w.job[j].put, w.job[j].before} :
          Fine(w, w.job[j].kind, s) => Fine(v, w.job[j].kind, s)
    BY <2>1, <2>2
  <2>5. Puts(w, j) => \A k \in Kind : w.job[j].new \notin InStream(v, k)
    BY <1>1 DEF JobFits, StaysOut
  <2>6. Puts(v, j) <=> Puts(w, j)
    BY DEF Puts, SameJob
  <2> QED
    BY <1>1, <2>3, <2>4, <2>5, <2>6 DEF JobFits, SameJob, Names, Given
<1>3. ASSUME NEW p \in Peer PROVE LinkFits(v, j, p)
  <2>1. LinkFits(w, j, p) /\ w.job[j].kind \in Kind
    BY <1>1 DEF JobFits
  <2>2. Number(v, p) = Number(w, p) /\ v.peer[p] = w.peer[p]
    BY DEF Number
  <2>3. Said(w, w.peer[p].sender[w.job[j].kind])
    BY <2>1 DEF Said
  <2>4. Puts(v, j) <=> Puts(w, j)
    BY DEF Puts, SameJob
  <2> QED
    BY Zenon, <2>1, <2>2, <2>3, <2>4 DEF LinkFits, SameJob, Names, Given
<1> QED
  BY <1>2, <1>3

\* Tracks begin and end, and a job begins: the senders are as right as they were.
LEMMA SceneChanges ==
  ASSUME NEW w, NEW v, NEW but, FollowsBut(w, but), v.peer = w.peer,
         v.room # "active" => w.room # "active", OneOfAKind(v), Exclusive(v),
         \A k \in Kind : \A s : Said(w, s) /\ Fine(w, k, s) => Fine(v, k, s),
         \A j \in Jobs :
           \/ SameJob(w.job[j], v.job[j]) /\ (Busy(w, j) => StaysOut(w, v, w.job[j].put))
           \/ ~Busy(w, j) /\ JobIsFit(v, j)
  PROVE  FollowsBut(v, but)
<1>1. PeersFit(v)
  BY DEF FollowsBut, PeersFit
<1>2. ASSUME NEW j \in Jobs PROVE JobIsFit(v, j)
  <2>1. CASE SameJob(w.job[j], v.job[j]) /\ (Busy(w, j) => StaysOut(w, v, w.job[j].put))
    BY <2>1, JobStaysFit DEF FollowsBut
  <2> QED
    BY <2>1
<1>3. ASSUME NEW p \in Peer, NEW k \in Kind PROVE SenderFits(v, p, k, but) /\ OfferFits(v, p, k)
  <2>1. Number(v, p) = Number(w, p) /\ v.peer[p] = w.peer[p]
    BY DEF Number
  <2>2. \A j \in Jobs : Covered(w, j, k, Number(w, p)) => Covered(v, j, k, Number(w, p))
    BY DEF Covered, Busy, SameJob, Given
  <2>3. \A j \in Jobs : AddedBy(w, j, k, Number(w, p)) => AddedBy(v, j, k, Number(w, p))
    BY DEF AddedBy, Busy, SameJob
  <2>4. SenderFits(w, p, k, but) /\ OfferFits(w, p, k)
    BY DEF FollowsBut
  <2>5. Said(w, w.peer[p].sender[k])
    BY DEF Said
  <2>6. SenderFits(v, p, k, but)
    BY <2>1, <2>2, <2>4, <2>5 DEF SenderFits
  <2> QED
    BY <2>1, <2>3, <2>4, <2>6 DEF OfferFits
<1> QED
  BY <1>1, <1>2, <1>3 DEF FollowsBut

\* A new connection sends what the stream has, and its first offer says so.
LEMMA ConnectionIs ==
  ASSUME NEW w, WorldType(w), OneOfAKind(w), NEW n \in Nat
  PROVE  /\ Connection(w, n) \in ConnectionRecord /\ Connection(w, n).n = n
         /\ \A k \in Kind : /\ Fine(w, k, Connection(w, n).sender[k])
                            /\ Connection(w, n).sender[k] # None => k \in Connection(w, n).offered
         /\ NoConnection(n) \in ConnectionRecord /\ NoConnection(n).n = n /\ ~NoConnection(n).here
<1> DEFINE sender == [k \in Kind |-> IF InStream(w, k) = {} THEN None ELSE One(InStream(w, k))]
<1>1. \A k \in Kind : Fine(w, k, sender[k]) /\ sender[k] \in {None} \cup Track
  BY OneIs, FineIs, InStreamIs DEF Track
<1> HIDE DEF sender
<1>2. sender \in [Kind -> {None} \cup Track]
  BY <1>1 DEF sender
<1>3. Connection(w, n) = [n |-> n, here |-> TRUE, sender |-> sender, offers |-> FALSE,
                          offered |-> {k \in Kind : sender[k] # None}, dropped |-> FALSE]
  BY DEF Connection, sender
<1>4. {k \in Kind : sender[k] # None} \in SUBSET Kind
  OBVIOUS
<1>5. NoConnection(n) \in ConnectionRecord /\ NoConnection(n).n = n /\ ~NoConnection(n).here
  BY DEF NoConnection, ConnectionRecord
<1> QED
  BY <1>1, <1>2, <1>3, <1>4, <1>5 DEF ConnectionRecord

\* Connections are lost or replaced, among them those that were not right.
LEMMA PeersChange ==
  ASSUME NEW w, WorldType(w), NEW but, FollowsBut(w, but),
         NEW v, v.track = w.track, v.stream = w.stream, v.share = w.share, v.job = w.job,
         v.peer = [p \in Peer |-> v.peer[p]],
         \A p \in Peer :
           \/ v.peer[p] = w.peer[p] /\ (w.peer[p].here => Number(w, p) \notin but)
           \/ v.peer[p] = NoConnection(w.peer[p].n)
           \/ v.peer[p] = Connection(w, w.peer[p].n + 1),
         v.room # "active" => \A p \in Peer : ~v.peer[p].here
  PROVE  Follows(v)
<1>1. /\ PeersFit(w) /\ OneOfAKind(w) /\ Exclusive(w) /\ \A j \in Jobs : JobIsFit(w, j)
      /\ \A p \in Peer, k \in Kind : SenderFits(w, p, k, but) /\ OfferFits(w, p, k)
  BY DEF FollowsBut
<1>2. \A p \in Peer : w.peer[p] \in ConnectionRecord /\ w.peer[p].n \in Nat /\ w.peer[p].n + 1 \in Nat
  BY <1>1 DEF PeersFit, ConnectionRecord
<1>3. ASSUME NEW p \in Peer
      PROVE  \/ /\ v.peer[p] = w.peer[p] /\ (w.peer[p].here => Number(w, p) \notin but)
                /\ v.peer[p] \in ConnectionRecord
             \/ /\ v.peer[p] \in ConnectionRecord /\ v.peer[p].n = w.peer[p].n /\ ~v.peer[p].here
             \/ /\ v.peer[p] \in ConnectionRecord /\ v.peer[p].n = w.peer[p].n + 1
                /\ \A k \in Kind : /\ Fine(w, k, v.peer[p].sender[k])
                                   /\ v.peer[p].sender[k] # None => k \in v.peer[p].offered
  BY <1>1, <1>2, ConnectionIs
<1>4. \A k, s : Fine(v, k, s) <=> Fine(w, k, s)
  BY DEF Fine, InStream, StreamOf
<1>5. \A k : InStream(v, k) = InStream(w, k)
  BY DEF InStream, StreamOf
<1>6. PeersFit(v)
  BY <1>3 DEF PeersFit
<1>7. OneOfAKind(v) /\ Exclusive(v)
  BY <1>1, <1>5 DEF OneOfAKind, Exclusive, StreamOf
<1>8. ASSUME NEW j \in Jobs, Busy(v, j) PROVE JobFits(v, j) /\ \A p \in Peer : LinkFits(v, j, p)
  <2>1. Busy(w, j) /\ JobFits(w, j) /\ \A p \in Peer : LinkFits(w, j, p)
    BY <1>1, <1>8 DEF Busy, JobIsFit
  <2>2. JobFits(v, j)
    BY <2>1, <1>4, <1>5 DEF JobFits, Puts
  <2>3. ASSUME NEW p \in Peer PROVE LinkFits(v, j, p)
    <3>1. LinkFits(w, j, p) /\ w.job[j].kind \in Kind /\ Names(w.job[j]) \subseteq Peer \X Nat
          /\ (Puts(w, j) => Names(w.job[j]) \subseteq w.job[j].seen)
      BY <2>1 DEF JobFits
    <3>2. Puts(v, j) <=> Puts(w, j)
      BY DEF Puts
    <3>3. CASE v.peer[p] = w.peer[p]
      BY <3>1, <3>2, <3>3, <1>4 DEF LinkFits, Number
    <3>4. CASE v.peer[p].n = w.peer[p].n /\ ~v.peer[p].here
      BY <3>1, <3>4 DEF LinkFits
    <3>5. CASE v.peer[p].n = w.peer[p].n + 1
      <4>1. <<p, v.peer[p].n>> \notin Names(w.job[j])
        BY <3>1, <3>5, <1>2 DEF LinkFits
      <4>2. <<p, v.peer[p].n>> # None
        BY <3>5, <1>2, NoneIsNothing
      <4>3. /\ Number(v, p) \notin Given(w.job[j]) \cup w.job[j].todo \cup {w.job[j].at}
            /\ Number(v, p) \notin w.job[j].seen
        BY <4>1, <4>2 DEF Number, Names
      <4>4. \A m \in Nat : <<p, m>> \in Names(w.job[j]) => m <= v.peer[p].n
        BY <3>1, <3>5, <1>2 DEF LinkFits
      <4> QED
        BY <4>3, <4>4 DEF LinkFits
    <3> QED
      BY <1>3, <3>3, <3>4, <3>5
  <2> QED
    BY <2>2, <2>3
<1>9. ASSUME NEW p \in Peer, NEW k \in Kind PROVE SenderFits(v, p, k, {}) /\ OfferFits(v, p, k)
  <2>1. SenderFits(w, p, k, but) /\ OfferFits(w, p, k)
    BY <1>1
  <2>2. CASE v.peer[p] = w.peer[p] /\ (w.peer[p].here => Number(w, p) \notin but)
    <3>1. Number(v, p) = Number(w, p)
      BY <2>2 DEF Number
    <3>2. \A j \in Jobs : (Covered(w, j, k, Number(w, p)) => Covered(v, j, k, Number(w, p)))
                          /\ (AddedBy(w, j, k, Number(w, p)) => AddedBy(v, j, k, Number(w, p)))
      BY DEF Covered, AddedBy, Busy
    <3> QED
      BY <2>1, <2>2, <3>1, <3>2, <1>4 DEF SenderFits, OfferFits
  <2>3. CASE ~v.peer[p].here
    BY <2>3 DEF SenderFits, OfferFits
  <2>4. CASE Fine(w, k, v.peer[p].sender[k]) /\ (v.peer[p].sender[k] # None => k \in v.peer[p].offered)
    BY <2>4, <1>4 DEF SenderFits, OfferFits
  <2> QED
    BY <1>3, <2>2, <2>3, <2>4
<1> QED
  BY <1>6, <1>7, <1>8, <1>9 DEF Follows, FollowsBut, JobIsFit

\* A job that has nothing left to do ends: the connections that would not do as
\* they were asked are replaced.
LEMMA EndFollows ==
  ASSUME NEW w, WorldType(w), NEW j \in Jobs, PeersFit(w), OneOfAKind(w),
         j = "share" /\ w.share.active # 0 => w.share.active \in InStream(w, "video"),
         j = "share" \/ Exclusive(w),
         \A i \in Jobs \ {j} : JobIsFit(w, i),
         \A p \in Peer, k \in Kind : w.peer[p].here =>
           /\ \/ Fine(w, k, w.peer[p].sender[k]) \/ Number(w, p) \in w.job[j].failed
              \/ \E i \in Jobs \ {j} : Covered(w, i, k, Number(w, p))
           /\ w.peer[p].sender[k] # None =>
                \/ k \in w.peer[p].offered \/ w.peer[p].offers \/ w.peer[p].dropped
                \/ \E i \in Jobs \ {j} : AddedBy(w, i, k, Number(w, p))
  PROVE  Follows(Ended(w, j))
<1> DEFINE z == [w EXCEPT !.job[j] = NoJob]
           but == w.job[j].failed
<1>1. /\ DOMAIN z = WorldFields /\ z.track = w.track /\ z.room = w.room /\ z.stream = w.stream
      /\ z.peer = w.peer /\ z.share = w.share /\ z.input = w.input /\ z.barred = w.barred
      /\ DOMAIN z.job = Jobs /\ z.job[j] = NoJob /\ \A i \in Jobs \ {j} : z.job[i] = w.job[i]
  BY DEF WorldType, WorldFields
<1>2. Ended(w, j) = Recovered(z, but)
  BY DEF Ended
<1> HIDE DEF z, but
<1>3. WorldType(z)
  BY <1>1, NoJobIs DEF WorldType, Jobs
<1>4. ~Busy(z, j) /\ z.job[j].phase = "none"
  BY <1>1, NoJobIs DEF Busy
<1>5. /\ \A k, s : Fine(z, k, s) <=> Fine(w, k, s)
      /\ \A k : InStream(z, k) = InStream(w, k)
      /\ \A p : Number(z, p) = Number(w, p)
  BY <1>1 DEF Fine, InStream, StreamOf, Number
<1>6. PeersFit(z) /\ OneOfAKind(z) /\ Exclusive(z)
  <2>1. PeersFit(z)
    BY <1>1 DEF PeersFit
  <2>2. OneOfAKind(z)
    <3>1. Lone(z.track, StreamOf(z)) /\ Lone(z.track, z.share.retained)
      BY <1>1 DEF OneOfAKind, StreamOf
    <3>2. CASE j = "share"
      BY <3>1, <3>2, <1>1, <1>5 DEF OneOfAKind
    <3>3. CASE j # "share"
      BY <3>1, <3>3, <1>1, <1>5 DEF OneOfAKind, Jobs
    <3> QED
      BY <3>2, <3>3
  <2>3. Exclusive(z)
    BY <1>1, <1>4 DEF Exclusive, Jobs
  <2> QED
    BY <2>1, <2>2, <2>3
<1>7. \A i \in Jobs : JobIsFit(z, i)
  <2>1. JobIsFit(z, j)
    BY <1>4 DEF JobIsFit
  <2>2. ASSUME NEW i \in Jobs \ {j} PROVE JobIsFit(z, i)
    <3>1. SameJob(w.job[i], z.job[i])
      BY <1>1 DEF SameJob
    <3>2. StaysOut(w, z, w.job[i].put)
      BY <1>5 DEF StaysOut
    <3> QED
      BY <3>1, <3>2, <1>1, <1>5, JobStaysFit
  <2> QED
    BY <2>1, <2>2
<1>8. \A p \in Peer, k \in Kind : SenderFits(z, p, k, but) /\ OfferFits(z, p, k)
  <2> SUFFICES ASSUME NEW p \in Peer, NEW k \in Kind
               PROVE  SenderFits(z, p, k, but) /\ OfferFits(z, p, k)
    OBVIOUS
  <2>1. \A i \in Jobs \ {j} :
          (Covered(w, i, k, Number(w, p)) => Covered(z, i, k, Number(w, p)))
          /\ (AddedBy(w, i, k, Number(w, p)) => AddedBy(z, i, k, Number(w, p)))
    BY <1>1 DEF Covered, AddedBy, Busy
  <2>2. SenderFits(z, p, k, but)
    BY <2>1, <1>1, <1>5 DEF SenderFits, but
  <2> QED
    BY <2>1, <2>2, <1>1, <1>5 DEF OfferFits
<1>9. FollowsBut(z, but)
  BY <1>6, <1>7, <1>8 DEF FollowsBut
<1> DEFINE v == Recovered(z, but)
<1>10. CASE z.room = "over"
  <2>1. v = z
    BY <1>10 DEF Recovered
  <2>2. z.peer = [p \in Peer |-> z.peer[p]] /\ \A p \in Peer : ~z.peer[p].here
    BY <1>6, <1>10 DEF PeersFit
  <2>3. Follows(z)
    BY <1>3, <1>9, <2>2, PeersChange
  <2> QED
    BY <2>1, <2>3, <1>2
<1>11. CASE z.room # "over"
  <2>1. /\ v.track = z.track /\ v.stream = z.stream /\ v.share = z.share /\ v.job = z.job
        /\ v.room = z.room
        /\ v.peer = [p \in Peer |-> IF <<p, z.peer[p].n>> \in but \cap Current(z)
                                    THEN Connection(z, z.peer[p].n + 1) ELSE z.peer[p]]
    BY <1>1, <1>11 DEF Recovered, WorldFields
  <2>2. ASSUME NEW p \in Peer
        PROVE  /\ \/ v.peer[p] = z.peer[p] /\ (z.peer[p].here => Number(z, p) \notin but)
                  \/ v.peer[p] = Connection(z, z.peer[p].n + 1)
               /\ ~z.peer[p].here => v.peer[p] = z.peer[p]
    BY <2>1 DEF Current, Number
  <2>3. v.peer = [p \in Peer |-> v.peer[p]]
    BY <2>1
  <2>4. v.room # "active" => \A p \in Peer : ~v.peer[p].here
    BY <2>1, <2>2, <1>6 DEF PeersFit
  <2> HIDE DEF v
  <2>5. Follows(v)
    BY <2>1, <2>2, <2>3, <2>4, <1>3, <1>9, PeersChange, ZenonT(40)
  <2> QED
    BY <2>5, <1>2 DEF v
<1> QED
  BY <1>10, <1>11

\* Two jobs under way are about different kinds.
LEMMA OtherKind ==
  ASSUME NEW w, Core(w), Follows(w), NEW i \in Jobs, NEW j \in Jobs, i # j, Busy(w, i), Busy(w, j)
  PROVE  w.job[i].kind # w.job[j].kind
<1>1. JobFits(w, "share") \/ ~Busy(w, "share")
  BY DEF Follows, FollowsBut, JobIsFit, Jobs
<1> QED
  BY <1>1 DEF Core, InputFits, JobFits, Busy, Jobs

\* What a job that changes senders of its kind does not concern.
KindOnly(w, v, j) ==
  /\ v.track = w.track /\ v.stream = w.stream /\ v.share = w.share
  /\ \A i \in Jobs \ {j} : v.job[i] = w.job[i]
  /\ v.job[j].kind = w.job[j].kind
  /\ \A p \in Peer :
       /\ v.peer[p].n = w.peer[p].n /\ v.peer[p].here = w.peer[p].here
       /\ \A k \in Kind \ {w.job[j].kind} :
            /\ v.peer[p].sender[k] = w.peer[p].sender[k]
            /\ k \in w.peer[p].offered \/ w.peer[p].offers \/ w.peer[p].dropped =>
                 k \in v.peer[p].offered \/ v.peer[p].offers \/ v.peer[p].dropped

\* It is enough to look at these senders.
LEMMA OthersFollow ==
  ASSUME NEW w, Core(w), Follows(w), NEW j \in Jobs, Busy(w, j),
         NEW v, KindOnly(w, v, j), Busy(v, j), Exclusive(v), PeersFit(v),
         JobFits(v, j),
         \A p \in Peer : /\ LinkFits(v, j, p) /\ SenderFits(v, p, w.job[j].kind, {})
                         /\ OfferFits(v, p, w.job[j].kind)
  PROVE  Follows(v)
<1>1. /\ \A k, s : Fine(v, k, s) <=> Fine(w, k, s)
      /\ \A k : InStream(v, k) = InStream(w, k)
      /\ StreamOf(v) = StreamOf(w)
      /\ \A p \in Peer : Number(v, p) = Number(w, p)
  BY DEF Fine, InStream, StreamOf, Number, KindOnly
<1>2. OneOfAKind(v)
  <2>1. v.job["share"].phase = "none" => w.job["share"].phase = "none"
    BY DEF Busy, Jobs, KindOnly
  <2> QED
    BY <1>1, <2>1 DEF Follows, FollowsBut, OneOfAKind, KindOnly
<1>3. ASSUME NEW i \in Jobs \ {j}, Busy(v, i) PROVE JobFits(v, i) /\ \A p \in Peer : LinkFits(v, i, p)
  <2>1. Busy(w, i) /\ JobFits(w, i) /\ \A p \in Peer : LinkFits(w, i, p)
    BY <1>3 DEF Busy, Follows, FollowsBut, JobIsFit, KindOnly
  <2>2. w.job[i].kind # w.job[j].kind /\ w.job[i].kind \in Kind
    BY <2>1, OtherKind DEF JobFits
  <2>3. JobFits(v, i)
    BY <2>1, <1>1 DEF JobFits, Puts, KindOnly
  <2>4. ASSUME NEW p \in Peer PROVE LinkFits(v, i, p)
    <3>1. LinkFits(w, i, p) /\ v.job[i] = w.job[i] /\ Number(v, p) = Number(w, p)
      BY <2>1, <1>1 DEF KindOnly
    <3>2. /\ v.peer[p].n = w.peer[p].n /\ v.peer[p].here = w.peer[p].here
          /\ v.peer[p].sender[w.job[i].kind] = w.peer[p].sender[w.job[i].kind]
      BY <2>2 DEF KindOnly
    <3>3. Puts(v, i) <=> Puts(w, i)
      BY DEF Puts, KindOnly
    <3> QED
      BY Zenon, <3>1, <3>2, <3>3, <1>1 DEF LinkFits
  <2> QED
    BY <2>3, <2>4
<1>4. ASSUME NEW p \in Peer, NEW k \in Kind \ {w.job[j].kind}
      PROVE  SenderFits(v, p, k, {}) /\ OfferFits(v, p, k)
  <2>1. SenderFits(w, p, k, {}) /\ OfferFits(w, p, k)
    BY DEF Follows, FollowsBut
  <2>2. \A i \in Jobs : (Covered(w, i, k, Number(w, p)) => Covered(v, i, k, Number(w, p)))
                        /\ (AddedBy(w, i, k, Number(w, p)) => AddedBy(v, i, k, Number(w, p)))
    BY DEF Covered, AddedBy, Busy, KindOnly
  <2>3. /\ v.peer[p].sender[k] = w.peer[p].sender[k] /\ v.peer[p].here = w.peer[p].here
        /\ k \in w.peer[p].offered \/ w.peer[p].offers \/ w.peer[p].dropped =>
             k \in v.peer[p].offered \/ v.peer[p].offers \/ v.peer[p].dropped
    BY DEF KindOnly
  <2>4. SenderFits(v, p, k, {})
    BY <2>1, <2>2, <2>3, <1>1 DEF SenderFits
  <2> QED
    BY <2>1, <2>2, <2>3, <2>4, <1>1 DEF OfferFits
<1> QED
  BY <1>2, <1>3, <1>4 DEF Follows, FollowsBut, JobIsFit

\* A job is put in the place of another.
LEMMA JobIs ==
  ASSUME NEW w, DOMAIN w = WorldFields, DOMAIN w.job = Jobs, NEW j \in Jobs, NEW at,
         NEW v, v = [w EXCEPT !.job[j] = at]
  PROVE  /\ DOMAIN v = WorldFields /\ DOMAIN v.job = Jobs /\ v.job[j] = at
         /\ \A i \in Jobs \ {j} : v.job[i] = w.job[i]
         /\ v.track = w.track /\ v.room = w.room /\ v.stream = w.stream /\ v.peer = w.peer
         /\ v.share = w.share /\ v.input = w.input /\ v.barred = w.barred
BY DEF WorldFields

\* Senders are added.
AddsTo(w, j, cs, v) ==
  /\ v.track = w.track /\ v.room = w.room /\ v.stream = w.stream /\ v.share = w.share
  /\ \A i \in Jobs \ {j} : v.job[i] = w.job[i]
  /\ v.job[j] = [w.job[j] EXCEPT !.seen = w.job[j].seen \cup cs,
                   !.updates = w.job[j].updates
                                 \cup {[c |-> c, before |-> 0, added |-> TRUE] : c \in cs}]
  /\ v.peer = [p \in Peer |->
                 IF Number(w, p) \in cs
                 THEN [w.peer[p] EXCEPT !.sender[w.job[j].kind] = w.job[j].new]
                 ELSE w.peer[p]]

\* That is what addTrack does on each of the connections.
LEMMA AddsIs ==
  ASSUME NEW w, WorldType(w), NEW j \in Jobs, NEW cs
  PROVE  AddsTo(w, j, cs, Adds(w, j, cs))
<1> DEFINE v == Adds(w, j, cs)
<1>1. DOMAIN w = WorldFields /\ DOMAIN w.job = Jobs /\ DOMAIN w.job[j] = JobFields
  BY DEF WorldType
<1> DEFINE new == [p \in Peer |-> IF <<p, w.peer[p].n>> \in cs
                      THEN [w.peer[p] EXCEPT !.sender[w.job[j].kind] = w.job[j].new]
                      ELSE w.peer[p]]
           us == {[c |-> c, before |-> 0, added |-> TRUE] : c \in cs}
<1>2. v = [w EXCEPT !.peer = new, !.job[j].seen = @ \cup cs, !.job[j].updates = @ \cup us]
  BY DEF Adds
<1>3. new = [p \in Peer |-> IF Number(w, p) \in cs
                      THEN [w.peer[p] EXCEPT !.sender[w.job[j].kind] = w.job[j].new]
                      ELSE w.peer[p]]
  BY DEF Number
<1> HIDE DEF new, us, v
<1> DEFINE x == [w EXCEPT !.peer = new]
           y == [x EXCEPT !.job[j] = [x.job[j] EXCEPT !.seen = w.job[j].seen \cup cs]]
<1>6. v = [y EXCEPT !.job[j] = [y.job[j] EXCEPT !.updates = w.job[j].updates \cup us]]
  BY <1>2
<1>7. /\ DOMAIN x = WorldFields /\ x.job = w.job /\ x.peer = new /\ x.track = w.track
      /\ x.room = w.room /\ x.stream = w.stream /\ x.share = w.share
  BY <1>1 DEF WorldFields
<1> HIDE DEF x
<1>8. /\ DOMAIN y = WorldFields /\ DOMAIN y.job = Jobs
      /\ y.job[j] = [w.job[j] EXCEPT !.seen = w.job[j].seen \cup cs]
      /\ \A i \in Jobs \ {j} : y.job[i] = w.job[i]
      /\ y.peer = new /\ y.track = w.track
      /\ y.room = w.room /\ y.stream = w.stream /\ y.share = w.share
  BY <1>1, <1>7, JobIs
<1> HIDE DEF y
<1>10. /\ v.job[j] = [y.job[j] EXCEPT !.updates = w.job[j].updates \cup us]
       /\ \A i \in Jobs \ {j} : v.job[i] = y.job[i]
       /\ v.peer = y.peer /\ v.track = y.track
       /\ v.room = y.room /\ v.stream = y.stream /\ v.share = y.share
  BY <1>6, <1>8, JobIs
<1> QED
  BY <1>3, <1>8, <1>10, Zenon DEF us, v, AddsTo

\* The current connections are those of the peers that are here.
LEMMA CurrentIs ==
  ASSUME NEW w, PeersFit(w)
  PROVE  /\ \A c : c \in Current(w) <=> \E p \in Peer : w.peer[p].here /\ c = Number(w, p)
         /\ \A p \in Peer : \A k : Sender(w, Number(w, p), k) = w.peer[p].sender[k]
         /\ \A p \in Peer : Number(w, p) \in Peer \X Nat /\ Number(w, p) # None
         /\ \A p, q \in Peer : Number(w, p) = Number(w, q) => p = q
<1>1. \A p \in Peer : w.peer[p].n \in Nat
  BY DEF PeersFit, ConnectionRecord
<1> QED
  BY <1>1, NoneIsNothing DEF Current, Number, Sender

\* The senders are added where there was none; the job knows of them.
LEMMA AddsFollow ==
  ASSUME NEW w, Core(w), Follows(w), NEW j \in Jobs, Puts(w, j), NEW cs,
         cs \subseteq {c \in Current(w) \ w.job[j].seen : Sender(w, c, w.job[j].kind) = None},
         NEW v, v = Adds(w, j, cs)
  PROVE  Follows(v)
<1>1. /\ WorldType(w) /\ PeersFit(w) /\ Busy(w, j) /\ JobFits(w, j)
      /\ \A p \in Peer : LinkFits(w, j, p)
  BY DEF Core, Follows, FollowsBut, JobIsFit, Busy, Puts
<1> DEFINE at == w.job[j]
           k == at.kind
           us == {[c |-> c, before |-> 0, added |-> TRUE] : c \in cs}
<1>2. /\ v.track = w.track /\ v.room = w.room /\ v.stream = w.stream /\ v.share = w.share
      /\ \A i \in Jobs \ {j} : v.job[i] = w.job[i]
      /\ v.job[j] = [at EXCEPT !.seen = at.seen \cup cs, !.updates = at.updates \cup us]
      /\ v.peer = [p \in Peer |-> IF Number(w, p) \in cs
                                  THEN [w.peer[p] EXCEPT !.sender[k] = at.new] ELSE w.peer[p]]
  <2>1. AddsTo(w, j, cs, v)
    BY <1>1, AddsIs
  <2> QED
    BY <2>1, Zenon DEF AddsTo
<1>3. DOMAIN at = JobFields /\ k \in Kind /\ at.new \in Track
  BY <1>1 DEF WorldType, JobFits
<1>4. ASSUME NEW p \in Peer, Number(w, p) \in cs
      PROVE  w.peer[p].here /\ Number(w, p) \notin at.seen /\ w.peer[p].sender[k] = None
  BY <1>1, <1>4, CurrentIs
<1>5. /\ v.job[j].seen = at.seen \cup cs /\ v.job[j].updates = at.updates \cup us
      /\ v.job[j].phase = at.phase /\ v.job[j].kind = k /\ v.job[j].new = at.new
      /\ v.job[j].before = at.before /\ v.job[j].put = at.put /\ v.job[j].at = at.at
      /\ v.job[j].todo = at.todo /\ v.job[j].failed = at.failed
  BY <1>2, <1>3 DEF JobFields
<1>6. ASSUME NEW p \in Peer
      PROVE  /\ v.peer[p] \in ConnectionRecord
             /\ v.peer[p].n = w.peer[p].n /\ v.peer[p].here = w.peer[p].here
             /\ v.peer[p].offers = w.peer[p].offers /\ v.peer[p].offered = w.peer[p].offered
             /\ v.peer[p].dropped = w.peer[p].dropped
             /\ \A l \in Kind : v.peer[p].sender[l] = IF Number(w, p) \in cs /\ l = k THEN at.new
                                                      ELSE w.peer[p].sender[l]
  <2>1. w.peer[p] \in ConnectionRecord
    BY <1>1 DEF PeersFit
  <2>2. v.peer[p] = IF Number(w, p) \in cs THEN [w.peer[p] EXCEPT !.sender[k] = at.new]
                    ELSE w.peer[p]
    BY <1>2
  <2> HIDE DEF at, k
  <2>3. PICK x : x = w.peer[p]
    OBVIOUS
  <2>4. [x EXCEPT !.sender[k] = at.new] \in ConnectionRecord
    BY <2>1, <2>3, <1>3 DEF ConnectionRecord
  <2> QED
    BY <2>1, <2>2, <2>3, <2>4, <1>3 DEF ConnectionRecord
<1>7. \A u : u \in us <=> u = [c |-> u.c, before |-> 0, added |-> TRUE] /\ u.c \in cs
  OBVIOUS
<1>8. cs \subseteq Peer \X Nat
  BY <1>1, CurrentIs
<1> HIDE DEF at, k, us
<1>9. PeersFit(v) /\ Busy(v, j) /\ Exclusive(v) /\ Puts(v, j)
  <2>1. PeersFit(v)
    BY <1>1, <1>2, <1>6 DEF PeersFit
  <2>2. \A i \in Jobs : v.job[i].phase = w.job[i].phase
    BY <1>2, <1>5 DEF at
  <2> QED
    BY <2>1, <2>2 DEF Busy, Puts, Exclusive, Follows, FollowsBut, Jobs
<1>10. /\ \A l, s : Fine(v, l, s) <=> Fine(w, l, s)
       /\ \A l : InStream(v, l) = InStream(w, l)
       /\ \A p \in Peer : Number(v, p) = Number(w, p)
  BY <1>2, <1>6 DEF Fine, InStream, StreamOf, Number
<1>11. Given(v.job[j]) = Given(at) \cup cs
  <2>1. \A c \in cs : \E u \in us : u.c = c
    <3>1. \A c \in cs : [c |-> c, before |-> 0, added |-> TRUE] \in us
      BY DEF us
    <3> QED
      BY <3>1
  <2> QED
    BY <1>5, <1>7, <2>1 DEF Given
<1>12. cs # {} => Fine(w, k, 0)
  <2> SUFFICES ASSUME NEW c \in cs PROVE Fine(w, k, 0)
    OBVIOUS
  <2>1. PICK p \in Peer : w.peer[p].here /\ c = Number(w, p)
    BY <1>1, CurrentIs
  <2>2. SenderFits(w, p, k, {}) /\ w.peer[p].sender[k] = None /\ c \notin at.seen
    BY <1>3, <1>4, <2>1 DEF Follows, FollowsBut
  <2>3. \A i \in Jobs : ~Covered(w, i, k, c)
    <3>1. c \notin Names(at) /\ c # None
      BY <1>1, <2>1, <2>2, CurrentIs DEF JobFits, at
    <3>2. ~Covered(w, j, k, c)
      BY <3>1 DEF Covered, Names, at
    <3>3. ASSUME NEW i \in Jobs \ {j} PROVE ~Covered(w, i, k, c)
      BY <1>1, OtherKind DEF Covered, k, at
    <3> QED
      BY <3>2, <3>3
  <2>4. Fine(w, k, None)
    BY <2>1, <2>2, <2>3 DEF SenderFits
  <2> QED
    BY <1>1, <2>4, FineIs
<1>13. JobFits(v, j)
  <2>1. \A u, x \in at.updates \cup us : u.c = x.c => u = x
    <3>1. \A u \in at.updates : u.c \in at.seen
      BY <1>1 DEF JobFits, at, Names, Given
    <3>2. cs \cap at.seen = {}
      BY DEF at
    <3>3. \A u, x \in us : u.c = x.c => u = x
      <4>1. \A u \in us : u = [c |-> u.c, before |-> 0, added |-> TRUE]
        BY <1>7
      <4> QED
        BY <4>1, Zenon
    <3>4. \A u \in us : u.c \in cs
      BY <1>7
    <3>5. \A u, x \in at.updates : u.c = x.c => u = x
      BY <1>1 DEF JobFits, at
    <3> QED
      BY <3>1, <3>2, <3>3, <3>4, <3>5
  <2>2. at.updates \cup us \subseteq [c : Peer \X Nat, before : Track, added : BOOLEAN]
    <3>1. us \subseteq [c : Peer \X Nat, before : Track, added : BOOLEAN]
      <4>1. \A c \in cs : [c |-> c, before |-> 0, added |-> TRUE]
                            \in [c : Peer \X Nat, before : Track, added : BOOLEAN]
        BY <1>8 DEF Track
      <4> QED
        BY <4>1 DEF us
    <3> QED
      BY <1>1, <3>1 DEF JobFits, at
  <2>3. \A u \in at.updates \cup us : Fine(w, k, u.before) /\ (u.added => u.before = 0)
    BY <1>1, <1>7, <1>12 DEF JobFits, at, k
  <2>4. at.at \notin Given(at) \cup cs
    <3>1. at.at # None => at.at \in at.seen
      BY <1>1 DEF JobFits, at, Names
    <3> QED
      BY <1>1, <1>8, <3>1, NoneIsNothing DEF JobFits, at
  <2>5. Names(v.job[j]) = Names(at) \cup cs
    BY <1>5, <1>11 DEF Names
  <2>6. Names(at) \subseteq at.seen /\ at.todo = {} /\ at.phase # "undoing" /\ at.phase # "stopping"
    BY <1>1 DEF JobFits, at, Puts
  <2> QED
    BY <1>1, <1>5, <1>8, <1>9, <1>10, <1>11, <2>1, <2>2, <2>3, <2>4, <2>5, <2>6
       DEF JobFits, at, k, Puts
<1>14. ASSUME NEW p \in Peer PROVE LinkFits(v, j, p)
  <2>1. LinkFits(w, j, p) /\ Number(w, p) # None /\ w.peer[p].n \in Nat
    BY <1>1, CurrentIs DEF PeersFit, ConnectionRecord
  <2>2. Names(v.job[j]) = Names(at) \cup cs
    BY <1>5, <1>11 DEF Names
  <2>3. \A m \in Nat : <<p, m>> \in cs => m <= w.peer[p].n
    BY <1>1, <2>1, CurrentIs DEF Number
  <2>4. at.new # None
    BY <1>3, NoneIsNothing
  <2>5. Number(w, p) \in cs => Number(w, p) # at.at
    <3>1. at.at # None => at.at \in at.seen
      BY <1>1 DEF JobFits, at, Names
    <3> QED
      BY <2>1, <1>4, <3>1 DEF at
  <2>6. \A m \in Nat : <<p, m>> \in Names(v.job[j]) => m <= v.peer[p].n
    BY <1>6, <2>1, <2>2, <2>3 DEF LinkFits, at
  <2>7. Number(v, p) = Number(w, p) /\ v.peer[p].here = w.peer[p].here
    BY <1>6, <1>10
  <2>8. v.peer[p].sender[k] = IF Number(w, p) \in cs THEN at.new ELSE w.peer[p].sender[k]
    BY <1>3, <1>6
  <2>9. w.peer[p].here /\ Number(w, p) \in Given(v.job[j]) \cup at.todo \cup {at.at} =>
          v.peer[p].sender[k] # None
    BY <1>11, <2>1, <2>4, <2>8 DEF LinkFits, at, k
  <2>10. w.peer[p].here /\ Number(w, p) \in at.seen \cup cs =>
           \/ Number(w, p) \in at.failed \/ Number(w, p) = at.at
           \/ v.peer[p].sender[k] = at.new
    BY Zenon, <1>1, <2>1, <2>8 DEF LinkFits, at, k
  <2>11. w.peer[p].here /\ Number(w, p) = at.at => Fine(v, k, v.peer[p].sender[k])
    BY Zenon, <1>1, <1>10, <2>1, <2>5, <2>8 DEF LinkFits, at, k
  <2> QED
    BY <1>5, <1>9, <2>6, <2>7, <2>9, <2>10, <2>11 DEF LinkFits, at, k
<1>15. ASSUME NEW p \in Peer PROVE SenderFits(v, p, k, {}) /\ OfferFits(v, p, k)
  <2>1. SenderFits(w, p, k, {}) /\ OfferFits(w, p, k)
    BY <1>3 DEF Follows, FollowsBut, k, at
  <2>2. \A i \in Jobs : (Covered(w, i, k, Number(w, p)) => Covered(v, i, k, Number(w, p)))
                        /\ (AddedBy(w, i, k, Number(w, p)) => AddedBy(v, i, k, Number(w, p)))
    <3>1. (Covered(w, j, k, Number(w, p)) => Covered(v, j, k, Number(w, p)))
          /\ (AddedBy(w, j, k, Number(w, p)) => AddedBy(v, j, k, Number(w, p)))
      BY <1>5, <1>9, <1>11 DEF Covered, AddedBy, at
    <3>2. \A i \in Jobs \ {j} : (Covered(w, i, k, Number(w, p)) => Covered(v, i, k, Number(w, p)))
                        /\ (AddedBy(w, i, k, Number(w, p)) => AddedBy(v, i, k, Number(w, p)))
      BY <1>2 DEF Covered, AddedBy, Busy
    <3> QED
      BY <3>1, <3>2
  <2>3. CASE Number(w, p) \in cs
    <3>1. Covered(v, j, k, Number(w, p))
      BY <2>3, <1>5, <1>9, <1>11 DEF Covered
    <3>2. AddedBy(v, j, k, Number(w, p))
      <4>1. [c |-> Number(w, p), before |-> 0, added |-> TRUE] \in v.job[j].updates
        BY <2>3, <1>5 DEF us
      <4> QED
        BY <4>1, <1>5, <1>9 DEF AddedBy
    <3> QED
      BY <3>1, <3>2, <1>10 DEF SenderFits, OfferFits
  <2>4. CASE Number(w, p) \notin cs
    <3>1. v.peer[p].sender[k] = w.peer[p].sender[k]
      BY <2>4, <1>3, <1>6
    <3>2. SenderFits(v, p, k, {})
      BY <2>1, <2>2, <3>1, <1>6, <1>10 DEF SenderFits
    <3> QED
      BY <2>1, <2>2, <3>1, <3>2, <1>6, <1>10 DEF OfferFits
  <2> QED
    BY <2>3, <2>4
<1>16. KindOnly(w, v, j)
  BY <1>2, <1>5, <1>6 DEF KindOnly, k, at
<1>17. \A p \in Peer : /\ LinkFits(v, j, p) /\ SenderFits(v, p, w.job[j].kind, {})
                       /\ OfferFits(v, p, w.job[j].kind)
  BY <1>14, <1>15 DEF k, at
<1> QED
  BY <1>1, <1>9, <1>13, <1>16, <1>17, OthersFollow

\* Of a connection that a job does not know the sender is right.
LEMMA UntouchedIs ==
  ASSUME NEW w, Core(w), Follows(w), NEW j \in Jobs, Busy(w, j), NEW p \in Peer, w.peer[p].here,
         Number(w, p) \notin Names(w.job[j])
  PROVE  Fine(w, w.job[j].kind, w.peer[p].sender[w.job[j].kind])
<1> DEFINE k == w.job[j].kind
           c == Number(w, p)
<1>1. PeersFit(w) /\ k \in Kind /\ c # None
  <2>1. PeersFit(w) /\ JobFits(w, j)
    BY DEF Follows, FollowsBut, JobIsFit
  <2> QED
    BY <2>1, CurrentIs DEF JobFits
<1>2. SenderFits(w, p, k, {})
  BY <1>1 DEF Follows, FollowsBut
<1>3. ~Covered(w, j, k, c)
  BY <1>1 DEF Covered, Names
<1>4. \A i \in Jobs \ {j} : ~Covered(w, i, k, c)
  BY OtherKind DEF Covered
<1> QED
  BY <1>2, <1>3, <1>4 DEF SenderFits

\* A job goes on to wait for a connection that it has not seen.
JobWaits(w, v, j, c) ==
  /\ v.track = w.track /\ v.room = w.room /\ v.stream = w.stream /\ v.share = w.share
  /\ v.peer = w.peer /\ \A i \in Jobs \ {j} : v.job[i] = w.job[i]
  /\ v.job[j] = [w.job[j] EXCEPT !.at = c, !.seen = w.job[j].seen \cup {c}]

\* That is what it does before it waits.
LEMMA JobWaitsIs ==
  ASSUME NEW w, WorldType(w), NEW j \in Jobs, NEW c,
         NEW v, v = [w EXCEPT !.job[j].at = c, !.job[j].seen = w.job[j].seen \cup {c}]
  PROVE  JobWaits(w, v, j, c)
BY DEF WorldType, WorldFields, JobWaits

\* One connection is asked, when it has a sender to put the track on.
LEMMA WaitFollows ==
  ASSUME NEW w, Core(w), Follows(w), NEW j \in Jobs, Puts(w, j), w.job[j].at = None,
         NEW p \in Peer, w.peer[p].here, Number(w, p) \notin w.job[j].seen,
         w.peer[p].sender[w.job[j].kind] # None,
         NEW v, JobWaits(w, v, j, Number(w, p))
  PROVE  Follows(v)
<1> DEFINE at == w.job[j]
           k == at.kind
           c == Number(w, p)
<1>1. /\ WorldType(w) /\ PeersFit(w) /\ Busy(w, j) /\ JobFits(w, j) /\ k \in Kind
      /\ \A q \in Peer : LinkFits(w, j, q)
  BY DEF Core, Follows, FollowsBut, JobIsFit, Busy, Puts, JobFits
<1>2. c \notin Names(at)
  BY <1>1 DEF JobFits
<1>3. Fine(w, k, w.peer[p].sender[k])
  BY <1>1, <1>2, UntouchedIs
<1>4. /\ v.track = w.track /\ v.room = w.room /\ v.stream = w.stream /\ v.share = w.share
      /\ v.peer = w.peer /\ \A i \in Jobs \ {j} : v.job[i] = w.job[i]
      /\ v.job[j].at = c /\ v.job[j].seen = at.seen \cup {c} /\ v.job[j].updates = at.updates
      /\ v.job[j].phase = at.phase /\ v.job[j].kind = k /\ v.job[j].new = at.new
      /\ v.job[j].before = at.before /\ v.job[j].put = at.put
      /\ v.job[j].todo = at.todo /\ v.job[j].failed = at.failed
  BY <1>1 DEF JobWaits, WorldType, JobFields
<1> HIDE DEF k
<1>5. /\ \A l, s : Fine(v, l, s) <=> Fine(w, l, s)
      /\ \A l : InStream(v, l) = InStream(w, l)
      /\ \A q \in Peer : Number(v, q) = Number(w, q)
  BY <1>4 DEF Fine, InStream, StreamOf, Number
<1>6. c \in Peer \X Nat /\ c # None /\ w.peer[p].n \in Nat
  BY <1>1, CurrentIs DEF PeersFit, ConnectionRecord
<1>7. Names(v.job[j]) = Names(at) \cup {c} /\ Given(v.job[j]) = Given(at)
  BY <1>4, <1>6 DEF Names, Given, JobFits
<1>77. at.at = None
  OBVIOUS
<1>8. Busy(v, j) /\ Puts(v, j) /\ Exclusive(v) /\ PeersFit(v)
  <2>1. \A i \in Jobs : v.job[i].phase = w.job[i].phase
    BY <1>4
  <2> QED
    BY <2>1, <1>1, <1>4 DEF Busy, Puts, Exclusive, Follows, FollowsBut, Jobs, PeersFit
<1> HIDE DEF at
<1>9. JobFits(v, j)
  <2>1. c \notin Given(at) /\ at.phase # "undoing" /\ at.phase # "stopping"
    BY <1>2 DEF Names, Puts, at
  <2>2. Names(at) \subseteq at.seen
    BY <1>1 DEF JobFits, at
  <2> QED
    BY <1>1, <1>4, <1>5, <1>6, <1>7, <1>8, <2>1, <2>2 DEF JobFits, at, k, Puts
<1>10. ASSUME NEW q \in Peer PROVE LinkFits(v, j, q)
  <2>1. LinkFits(w, j, q)
    BY <1>1
  <2>2. \A m \in Nat : <<q, m>> = c => m <= w.peer[q].n
    BY <1>6 DEF Number
  <2>3. Number(w, q) = c => q = p
    BY <1>1, CurrentIs
  <2> HIDE DEF c
  <2>4. Number(w, q) \in Peer \X Nat /\ Number(w, q) # None
    BY <1>1, CurrentIs
  <2> QED
    BY Zenon, <1>3, <1>4, <1>5, <1>7, <1>77, <1>8, <2>1, <2>2, <2>3, <2>4 DEF LinkFits, at, k, Puts
<1>11. ASSUME NEW q \in Peer PROVE SenderFits(v, q, k, {}) /\ OfferFits(v, q, k)
  <2>1. SenderFits(w, q, k, {}) /\ OfferFits(w, q, k) /\ Number(w, q) # None
    BY <1>1, CurrentIs DEF Follows, FollowsBut, k, at
  <2>2. \A i \in Jobs : (Covered(w, i, k, Number(w, q)) => Covered(v, i, k, Number(w, q)))
                        /\ (AddedBy(w, i, k, Number(w, q)) => AddedBy(v, i, k, Number(w, q)))
    <3>1. (Covered(w, j, k, Number(w, q)) => Covered(v, j, k, Number(w, q)))
          /\ (AddedBy(w, j, k, Number(w, q)) => AddedBy(v, j, k, Number(w, q)))
      BY <2>1, <1>4, <1>7, <1>77, <1>8 DEF Covered, AddedBy, at
    <3>2. \A i \in Jobs \ {j} : (Covered(w, i, k, Number(w, q)) => Covered(v, i, k, Number(w, q)))
                        /\ (AddedBy(w, i, k, Number(w, q)) => AddedBy(v, i, k, Number(w, q)))
      BY <1>4 DEF Covered, AddedBy, Busy
    <3> QED
      BY <3>1, <3>2
  <2>3. SenderFits(v, q, k, {})
    BY <2>1, <2>2, <1>4, <1>5 DEF SenderFits
  <2> QED
    BY <2>1, <2>2, <2>3, <1>4, <1>5 DEF OfferFits
<1>12. KindOnly(w, v, j)
  BY <1>4 DEF KindOnly, k, at
<1>13. \A q \in Peer : /\ LinkFits(v, j, q) /\ SenderFits(v, q, w.job[j].kind, {})
                       /\ OfferFits(v, q, w.job[j].kind)
  BY <1>10, <1>11 DEF k, at
<1> QED
  BY <1>1, <1>8, <1>9, <1>12, <1>13, OthersFollow

\* Senders are added, and one connection is asked.
LEMMA AsksFollow ==
  ASSUME NEW w, Core(w), Follows(w), NEW j \in Jobs, Puts(w, j), w.job[j].at = None, NEW some,
         some \subseteq {c \in Current(w) \ w.job[j].seen : Sender(w, c, w.job[j].kind) = None},
         NEW c \in Current(w) \ w.job[j].seen, Sender(w, c, w.job[j].kind) # None
  PROVE  Follows(Asks(w, j, c, some))
<1> DEFINE x == Adds(w, j, some)
           v == Asks(w, j, c, some)
<1>1. WorldType(w) /\ PeersFit(w)
  BY DEF Core, Follows, FollowsBut
<1>2. Follows(x)
  BY AddsFollow
<1>3. WorldType(x) /\ Core(x)
  BY <1>1, AddsAlike, AlikeFits DEF Puts
<1>4. AddsTo(w, j, some, x)
  BY <1>1, AddsIs
<1>5. v = [x EXCEPT !.job[j].at = c, !.job[j].seen = x.job[j].seen \cup {c}]
  BY DEF Asks
<1> HIDE DEF x, v
<1>6. JobWaits(x, v, j, c)
  BY Zenon, <1>3, <1>5, JobWaitsIs
<1>7. PICK p \in Peer : w.peer[p].here /\ c = Number(w, p)
  BY <1>1, CurrentIs
<1>8. w.peer[p].sender[w.job[j].kind] # None /\ c \notin some
  BY <1>1, <1>7, CurrentIs
<1>9. x.peer[p] = w.peer[p]
  BY <1>4, <1>7, <1>8 DEF AddsTo
<1>10. /\ x.job[j].kind = w.job[j].kind /\ x.job[j].at = None /\ x.job[j].phase = w.job[j].phase
       /\ x.job[j].seen = w.job[j].seen \cup some
  BY <1>1, <1>4 DEF AddsTo, WorldType, JobFields
<1>11. Puts(x, j) /\ Number(x, p) = c
  BY <1>7, <1>9, <1>10 DEF Puts, Number
<1>12. c \notin x.job[j].seen /\ x.peer[p].here /\ x.peer[p].sender[x.job[j].kind] # None
  BY <1>7, <1>8, <1>9, <1>10
<1> QED
  BY <1>2, <1>3, <1>6, <1>10, <1>11, <1>12, WaitFollows DEF v

\* The connection that was waited for is closed, or would not do as it was asked,
\* which is noted.
WaitEnds(w, v, j, failed) ==
  /\ v.track = w.track /\ v.room = w.room /\ v.stream = w.stream /\ v.share = w.share
  /\ v.peer = w.peer /\ \A i \in Jobs \ {j} : v.job[i] = w.job[i]
  /\ v.job[j] = [w.job[j] EXCEPT !.at = None, !.failed = failed]

\* Either way the job goes on.
LEMMA WaitEndsFollow ==
  ASSUME NEW w, Core(w), Follows(w), NEW j \in Jobs, Busy(w, j), w.job[j].at # None,
         NEW failed, NEW v, WaitEnds(w, v, j, failed),
         \/ failed = w.job[j].failed /\ w.job[j].at \notin Current(w)
         \/ failed = w.job[j].failed \cup {w.job[j].at} /\ w.job[j].phase # "replacing"
  PROVE  Follows(v)
<1> DEFINE at == w.job[j]
           k == at.kind
           c == at.at
<1>1. /\ WorldType(w) /\ PeersFit(w) /\ JobFits(w, j) /\ k \in Kind
      /\ \A q \in Peer : LinkFits(w, j, q)
  BY DEF Core, Follows, FollowsBut, JobIsFit, JobFits
<1>2. /\ v.track = w.track /\ v.room = w.room /\ v.stream = w.stream /\ v.share = w.share
      /\ v.peer = w.peer /\ \A i \in Jobs \ {j} : v.job[i] = w.job[i]
      /\ v.job[j].at = None /\ v.job[j].seen = at.seen /\ v.job[j].updates = at.updates
      /\ v.job[j].phase = at.phase /\ v.job[j].kind = k /\ v.job[j].new = at.new
      /\ v.job[j].before = at.before /\ v.job[j].put = at.put
      /\ v.job[j].todo = at.todo /\ v.job[j].failed = failed
  BY <1>1 DEF WaitEnds, WorldType, JobFields
<1> HIDE DEF k
<1>3. /\ \A l, s : Fine(v, l, s) <=> Fine(w, l, s)
      /\ \A l : InStream(v, l) = InStream(w, l)
      /\ \A q \in Peer : Number(v, q) = Number(w, q)
  BY <1>2 DEF Fine, InStream, StreamOf, Number
<1>4. c \in Names(at) /\ failed \subseteq Names(at) /\ at.failed \subseteq failed
  BY DEF Names
<1>5. /\ Names(v.job[j]) \subseteq Names(at) /\ Given(v.job[j]) = Given(at)
      /\ \A q \in Peer : Number(w, q) = c /\ w.peer[q].here => c \in failed
  BY <1>1, <1>2, <1>4, CurrentIs DEF Names, Given
<1>6. Busy(v, j) /\ (Puts(v, j) <=> Puts(w, j)) /\ Exclusive(v) /\ PeersFit(v)
  <2>1. \A i \in Jobs : v.job[i].phase = w.job[i].phase
    BY <1>2
  <2> QED
    BY <2>1, <1>1, <1>2 DEF Busy, Puts, Exclusive, Follows, FollowsBut, Jobs, PeersFit
<1> HIDE DEF c, at
<1>7. None \notin Given(at)
  BY <1>1, NoneIsNothing DEF JobFits, Given, at
<1>8. JobFits(v, j)
  <2>1. Names(v.job[j]) \subseteq Peer \X Nat /\ (Puts(w, j) => Names(v.job[j]) \subseteq at.seen)
    BY <1>1, <1>5 DEF JobFits, at
  <2>2. at.phase = "replacing" => failed = {}
    BY <1>1 DEF JobFits, at
  <2> QED
    BY <1>1, <1>2, <1>3, <1>5, <1>6, <1>7, <2>1, <2>2 DEF JobFits, at, k
<1>9. ASSUME NEW q \in Peer PROVE LinkFits(v, j, q)
  <2>1. LinkFits(w, j, q) /\ Number(w, q) # None
    BY <1>1, CurrentIs
  <2> QED
    BY <1>2, <1>3, <1>4, <1>5, <1>6, <2>1 DEF LinkFits, at, k, c
<1>10. ASSUME NEW q \in Peer PROVE SenderFits(v, q, k, {}) /\ OfferFits(v, q, k)
  <2>1. SenderFits(w, q, k, {}) /\ OfferFits(w, q, k) /\ Number(w, q) # None
    BY <1>1, CurrentIs DEF Follows, FollowsBut, k, at
  <2>2. \A i \in Jobs : w.peer[q].here =>
             (Covered(w, i, k, Number(w, q)) => Covered(v, i, k, Number(w, q)))
             /\ (AddedBy(w, i, k, Number(w, q)) => AddedBy(v, i, k, Number(w, q)))
    <3>1. w.peer[q].here =>
          (Covered(w, j, k, Number(w, q)) => Covered(v, j, k, Number(w, q)))
          /\ (AddedBy(w, j, k, Number(w, q)) => AddedBy(v, j, k, Number(w, q)))
      BY <2>1, <1>2, <1>4, <1>5, <1>6 DEF Covered, AddedBy, at, c
    <3>2. \A i \in Jobs \ {j} : (Covered(w, i, k, Number(w, q)) => Covered(v, i, k, Number(w, q)))
                        /\ (AddedBy(w, i, k, Number(w, q)) => AddedBy(v, i, k, Number(w, q)))
      BY <1>2 DEF Covered, AddedBy, Busy
    <3> QED
      BY <3>1, <3>2
  <2>3. SenderFits(v, q, k, {})
    BY <2>1, <2>2, <1>2, <1>3 DEF SenderFits
  <2> QED
    BY <2>1, <2>2, <2>3, <1>2, <1>3 DEF OfferFits
<1>11. KindOnly(w, v, j)
  BY <1>2 DEF KindOnly, k, at
<1>12. \A q \in Peer : /\ LinkFits(v, j, q) /\ SenderFits(v, q, w.job[j].kind, {})
                       /\ OfferFits(v, q, w.job[j].kind)
  BY <1>9, <1>10 DEF k, at
<1> QED
  BY <1>6, <1>8, <1>11, <1>12, OthersFollow

\* The sender that was waited for has the track, and the job notes what it had.
TrackPut(w, v, j, p, updates) ==
  /\ v.track = w.track /\ v.room = w.room /\ v.stream = w.stream /\ v.share = w.share
  /\ v.peer = [w.peer EXCEPT ![p].sender[w.job[j].kind] = w.job[j].put]
  /\ \A i \in Jobs \ {j} : v.job[i] = w.job[i]
  /\ v.job[j] = [w.job[j] EXCEPT !.at = None, !.updates = updates]

\* What a job notes of a sender on which it has put its track.
Noted(w, j, p) ==
  LET at == w.job[j]
      had == w.peer[p].sender[at.kind]
  IN [c |-> at.at, before |-> IF had = 0 /\ j = "share" THEN at.before ELSE had, added |-> FALSE]

\* That is right: the track is put back, or the job knows what to put back.
LEMMA PutFollows ==
  ASSUME NEW w, Core(w), Follows(w), NEW j \in Jobs, Busy(w, j), NEW p \in Peer, w.peer[p].here,
         w.job[j].at = Number(w, p), NEW updates,
         updates = w.job[j].updates \cup (IF Puts(w, j) THEN {Noted(w, j, p)} ELSE {}),
         NEW v, TrackPut(w, v, j, p, updates)
  PROVE  Follows(v)
<1> DEFINE at == w.job[j]
           k == at.kind
           c == Number(w, p)
           had == w.peer[p].sender[k]
           x == Noted(w, j, p)
<1>1. /\ WorldType(w) /\ PeersFit(w) /\ JobFits(w, j) /\ k \in Kind /\ at.put \in Track
      /\ \A q \in Peer : LinkFits(w, j, q)
  BY DEF Core, Follows, FollowsBut, JobIsFit, JobFits
<1>2. /\ v.track = w.track /\ v.room = w.room /\ v.stream = w.stream /\ v.share = w.share
      /\ \A i \in Jobs \ {j} : v.job[i] = w.job[i]
      /\ v.job[j].at = None /\ v.job[j].seen = at.seen /\ v.job[j].updates = updates
      /\ v.job[j].phase = at.phase /\ v.job[j].kind = k /\ v.job[j].new = at.new
      /\ v.job[j].before = at.before /\ v.job[j].put = at.put
      /\ v.job[j].todo = at.todo /\ v.job[j].failed = at.failed
  BY <1>1 DEF TrackPut, WorldType, JobFields
<1>3. c \in Peer \X Nat /\ c # None /\ c \in Names(at)
  BY <1>1, CurrentIs DEF Names
<1>4. LinkFits(w, j, p) /\ had # None /\ had \in Track /\ at.before \in Track
  <2>1. LinkFits(w, j, p) /\ had # None
    BY <1>1 DEF LinkFits
  <2>2. had \in {None} \cup Track
    BY <1>1 DEF PeersFit, ConnectionRecord
  <2> QED
    BY <2>1, <2>2, <1>1 DEF JobFits
<1>5. /\ x.c = c /\ x.before = (IF had = 0 /\ j = "share" THEN at.before ELSE had) /\ ~x.added
      /\ x \in [c : Peer \X Nat, before : Track, added : BOOLEAN]
  BY Zenon, <1>3, <1>4 DEF Noted
<1> HIDE DEF k, x, c
<1>6. /\ \A l, s : Fine(v, l, s) <=> Fine(w, l, s)
      /\ \A l : InStream(v, l) = InStream(w, l)
  BY <1>2 DEF Fine, InStream, StreamOf
<1>7. ASSUME NEW q \in Peer
      PROVE  /\ v.peer[q] \in ConnectionRecord
             /\ v.peer[q].n = w.peer[q].n /\ v.peer[q].here = w.peer[q].here
             /\ v.peer[q].offers = w.peer[q].offers /\ v.peer[q].offered = w.peer[q].offered
             /\ v.peer[q].dropped = w.peer[q].dropped
             /\ \A l \in Kind : v.peer[q].sender[l] = IF q = p /\ l = k THEN at.put
                                                      ELSE w.peer[q].sender[l]
  <2>1. w.peer[q] \in ConnectionRecord /\ w.peer = [r \in Peer |-> w.peer[r]]
    BY <1>1 DEF PeersFit
  <2>2. v.peer[q] = IF q = p THEN [w.peer[q] EXCEPT !.sender[k] = at.put] ELSE w.peer[q]
    BY <2>1 DEF TrackPut, k
  <2> HIDE DEF at
  <2>3. PICK y : y = w.peer[q]
    OBVIOUS
  <2>4. [y EXCEPT !.sender[k] = at.put] \in ConnectionRecord
    BY <2>1, <2>3, <1>1 DEF ConnectionRecord
  <2> QED
    BY <2>1, <2>2, <2>3, <2>4, <1>1 DEF ConnectionRecord
<1>8. \A q \in Peer : Number(v, q) = Number(w, q)
  BY <1>7 DEF Number
<1>9. Busy(v, j) /\ (Puts(v, j) <=> Puts(w, j)) /\ Exclusive(v) /\ PeersFit(v)
  <2>1. \A i \in Jobs : v.job[i].phase = w.job[i].phase
    BY <1>2
  <2>2. PeersFit(v)
    <3>1. v.peer = [q \in Peer |-> v.peer[q]]
      BY <1>1 DEF TrackPut, PeersFit
    <3> QED
      BY <3>1, <1>1, <1>2, <1>7 DEF PeersFit
  <2> QED
    BY <2>1, <2>2 DEF Busy, Puts, Exclusive, Follows, FollowsBut, Jobs
<1>10. /\ at.updates \subseteq updates /\ \A u \in updates : u \in at.updates \/ (u = x /\ Puts(w, j))
       /\ Puts(w, j) => x \in updates
  BY DEF x
<1>11. /\ Given(at) \subseteq Given(v.job[j]) /\ Given(v.job[j]) \subseteq Given(at) \cup {c}
       /\ Puts(w, j) => c \in Given(v.job[j])
       /\ ~Puts(w, j) => Given(v.job[j]) = Given(at)
  BY <1>2, <1>5, <1>10 DEF Given
<1>12. Names(v.job[j]) \subseteq Names(at)
  BY <1>2, <1>3, <1>11 DEF Names
<1>13. at.at = c
  BY DEF c
<1>14. Puts(w, j) => Fine(w, k, x.before)
  <2>1. Puts(w, j) => Fine(w, k, had)
    BY Zenon, <1>1, <1>4, <1>13 DEF LinkFits, k, c
  <2>2. Puts(w, j) /\ j = "share" => Fine(w, k, at.before)
    <3>1. Puts(w, j) /\ j = "share" => at.phase = "starting"
      BY <1>1 DEF Puts, WorldType
    <3> QED
      BY <3>1, <1>1 DEF JobFits, k
  <2> QED
    BY <2>1, <2>2, <1>5
<1> HIDE DEF at
<1>15. JobFits(v, j)
  <2>1. Names(v.job[j]) \subseteq Peer \X Nat /\ (Puts(w, j) => Names(v.job[j]) \subseteq at.seen)
    BY <1>1, <1>12 DEF JobFits, at
  <2>2. None \notin Given(v.job[j])
    BY <1>1, <1>3, <1>11, NoneIsNothing DEF JobFits, Given, at
  <2>3. updates \subseteq [c : Peer \X Nat, before : Track, added : BOOLEAN]
    BY <1>1, <1>5, <1>10 DEF JobFits, at
  <2>4. \A u, y \in updates : u.c = y.c => u = y
    <3>1. \A u \in at.updates : u.c # c
      BY <1>1, <1>13 DEF JobFits, Given, at
    <3>2. \A u, y \in at.updates : u.c = y.c => u = y
      BY <1>1 DEF JobFits, at
    <3> QED
      BY <3>1, <3>2, <1>5, <1>10
  <2>5. \A u \in updates : Fine(w, k, u.before) /\ (u.added => u.before = 0)
    BY <1>1, <1>5, <1>10, <1>14 DEF JobFits, at, k
  <2>6. at.phase = "stopping" => updates = {}
    BY <1>1, <1>10 DEF JobFits, at, Puts
  <2> QED
    BY <1>1, <1>2, <1>6, <1>9, <2>1, <2>2, <2>3, <2>4, <2>5, <2>6 DEF JobFits, at, k
<1>16. ASSUME NEW q \in Peer PROVE LinkFits(v, j, q)
  <2>1. LinkFits(w, j, q) /\ Number(w, q) # None /\ at.put # None
    BY <1>1, CurrentIs, NoneIsNothing
  <2>2. Number(w, q) = c <=> q = p
    BY <1>1, CurrentIs DEF c
  <2>3. Puts(w, j) => at.put = at.new
    BY <1>1 DEF JobFits, at
  <2>4. v.peer[q].sender[k] = IF q = p THEN at.put ELSE w.peer[q].sender[k]
    BY <1>1, <1>7
  <2>5. \A m \in Nat : <<q, m>> \in Names(v.job[j]) => m <= v.peer[q].n
    BY <1>7, <1>12, <2>1 DEF LinkFits, at
  <2>6. w.peer[q].here /\ Number(w, q) \in Given(v.job[j]) \cup at.todo => v.peer[q].sender[k] # None
    BY <1>11, <1>13, <2>1, <2>2, <2>4 DEF LinkFits, at, k
  <2>7. w.peer[q].here /\ Puts(w, j) /\ Number(w, q) \in at.seen =>
          Number(w, q) \in at.failed \/ v.peer[q].sender[k] = at.new
    BY <1>13, <2>1, <2>2, <2>3, <2>4 DEF LinkFits, at, k
  <2> QED
    BY ZenonT(40), <1>2, <1>7, <1>8, <1>9, <2>1, <2>5, <2>6, <2>7 DEF LinkFits, at, k
<1>17. ASSUME NEW q \in Peer PROVE SenderFits(v, q, k, {}) /\ OfferFits(v, q, k)
  <2>1. SenderFits(w, q, k, {}) /\ OfferFits(w, q, k) /\ Number(w, q) # None
    BY <1>1, CurrentIs DEF Follows, FollowsBut, k, at
  <2>2. \A i \in Jobs : (q # p /\ Covered(w, i, k, Number(w, q)) => Covered(v, i, k, Number(w, q)))
                        /\ (AddedBy(w, i, k, Number(w, q)) => AddedBy(v, i, k, Number(w, q)))
    <3>1. (q # p /\ Covered(w, j, k, Number(w, q)) => Covered(v, j, k, Number(w, q)))
      <4>1. q # p => Number(w, q) # c
        BY <1>1, CurrentIs DEF c
      <4> QED
        BY <4>1, <1>2, <1>9, <1>11, <1>13 DEF Covered, at
    <3>2. AddedBy(w, j, k, Number(w, q)) => AddedBy(v, j, k, Number(w, q))
      BY <1>2, <1>9, <1>10 DEF AddedBy, at
    <3>3. \A i \in Jobs \ {j} : (Covered(w, i, k, Number(w, q)) => Covered(v, i, k, Number(w, q)))
                        /\ (AddedBy(w, i, k, Number(w, q)) => AddedBy(v, i, k, Number(w, q)))
      BY <1>2 DEF Covered, AddedBy, Busy
    <3> QED
      BY <3>1, <3>2, <3>3
  <2>3. SenderFits(v, q, k, {})
    <3>1. CASE q # p
      BY <2>1, <2>2, <3>1, <1>1, <1>6, <1>7, <1>8 DEF SenderFits
    <3>2. CASE q = p /\ Puts(w, j)
      <4>1. Covered(v, j, k, Number(v, q))
        BY <3>2, <1>2, <1>8, <1>9, <1>11 DEF Covered, c
      <4> QED
        BY <4>1 DEF SenderFits
    <3>3. CASE q = p /\ ~Puts(w, j)
      <4>1. Fine(w, k, at.put)
        <5>1. at.phase \in {"undoing", "stopping"}
          BY <3>3, <1>1 DEF Puts, Busy, WorldType, Jobs, at
        <5> QED
          BY <5>1, <1>1, <1>3, <1>13 DEF JobFits, at, k
      <4>2. v.peer[q].sender[k] = at.put
        BY <3>3, <1>1, <1>7
      <4> QED
        BY <4>1, <4>2, <1>6 DEF SenderFits
    <3> QED
      BY <3>1, <3>2, <3>3
  <2>4. v.peer[q].sender[k] # None => w.peer[q].sender[k] # None
    BY <1>1, <1>4, <1>7 DEF k
  <2>5. OfferFits(v, q, k)
    BY <2>1, <2>2, <2>4, <1>7, <1>8 DEF OfferFits
  <2> QED
    BY <2>3, <2>5
<1>18. KindOnly(w, v, j)
  <2>1. v.job[j].kind = w.job[j].kind
    BY <1>2 DEF k, at
  <2> QED
    BY <2>1, <1>2, <1>7 DEF KindOnly, k, at
<1>19. \A q \in Peer : /\ LinkFits(v, j, q) /\ SenderFits(v, q, w.job[j].kind, {})
                       /\ OfferFits(v, q, w.job[j].kind)
  BY <1>16, <1>17 DEF k, at
<1> QED
  BY <1>9, <1>15, <1>18, <1>19, OthersFollow

\* With fewer live tracks there is still one.
LEMMA LoneStays ==
  ASSUME NEW tr, NEW to, LiveOf(to) \subseteq LiveOf(tr),
         \A t \in LiveOf(to) : to[t].kind = tr[t].kind
  PROVE  \A ts, us : ts \subseteq us /\ Lone(tr, us) => Lone(to, ts)
<1> SUFFICES ASSUME NEW ts, NEW us, ts \subseteq us, Lone(tr, us),
                    NEW t \in ts \cap LiveOf(to), NEW u \in ts \cap LiveOf(to),
                    to[t].kind = to[u].kind
             PROVE  t = u
  BY DEF Lone
<1>1. t \in us \cap LiveOf(tr) /\ u \in us \cap LiveOf(tr) /\ tr[t].kind = tr[u].kind
  OBVIOUS
<1> QED
  BY <1>1 DEF Lone

\* The new track is stopped, and what was done is to be undone.
GivenUp(w, z, j) ==
  /\ DOMAIN z = WorldFields
  /\ z.track = Stopped(w.track, {w.job[j].new} \ {0}) /\ z.room = w.room
  /\ z.stream = w.stream /\ z.share = w.share /\ z.peer = w.peer
  /\ \A i \in Jobs \ {j} : z.job[i] = w.job[i]
  /\ z.job[j].phase = "undoing" /\ z.job[j].at = None
  /\ z.job[j].kind = w.job[j].kind /\ z.job[j].new = w.job[j].new
  /\ z.job[j].before = w.job[j].before /\ z.job[j].put = w.job[j].put
  /\ z.job[j].todo = w.job[j].todo /\ z.job[j].seen = w.job[j].seen
  /\ z.job[j].updates = w.job[j].updates /\ z.job[j].failed = w.job[j].failed

\* Nobody else sends the new track.
LEMMA StoppedFollows ==
  ASSUME NEW w, Core(w), Follows(w), NEW j \in Jobs, Puts(w, j),
         NEW y, y = [w EXCEPT !.track = Stopped(w.track, {w.job[j].new} \ {0})]
  PROVE  /\ Core(y) /\ Follows(y) /\ \A k \in Kind : InStream(y, k) = InStream(w, k)
         /\ \A k \in Kind : \A s : Fine(w, k, s) => Fine(y, k, s)
<1> DEFINE ts == {w.job[j].new} \ {0}
<1>1. /\ WorldType(w) /\ PeersFit(w) /\ Busy(w, j) /\ JobFits(w, j)
  BY DEF Core, Follows, FollowsBut, JobIsFit, Busy, Puts
<1>2. /\ DOMAIN y = WorldFields /\ y.track = Stopped(w.track, ts)
      /\ y.room = w.room /\ y.stream = w.stream /\ y.share = w.share /\ y.peer = w.peer
      /\ y.input = w.input /\ y.barred = w.barred /\ y.job = w.job
  BY <1>1 DEF WorldType, WorldFields
<1>3. EndedOnly(w.track, y.track, ts)
  BY <1>1, <1>2, TracksChange DEF WorldType
<1> HIDE DEF ts
<1>4. w.job["share"].phase = "none" => w.share.active \notin ts
  <2>1. \A k \in Kind : w.job[j].new \notin InStream(w, k)
    BY <1>1 DEF JobFits
  <2>2. w.job["share"].phase = "none" => w.share.active = 0 \/ w.share.active \in InStream(w, "video")
    BY DEF Follows, FollowsBut, OneOfAKind
  <2> QED
    BY <2>1, <2>2 DEF ts, Kind
<1>5. Core(y)
  <2>1. DOMAIN y.share = ShareFields
    BY <1>1, <1>2 DEF WorldType
  <2> QED
    BY <2>1, <1>2, <1>3, <1>4, EndingFits DEF StreamOf
<1>6. \A k \in Kind : InStream(y, k) = InStream(w, k)
  <2>1. WorldType(y) /\ StreamOf(y) = StreamOf(w)
    BY <1>2, <1>5 DEF Core, StreamOf
  <2>2. \A k \in Kind : InStream(w, k) \cap ts = {}
    BY <1>1 DEF JobFits, ts
  <2>3. \A t \in LiveOf(y.track) : y.track[t].kind = w.track[t].kind
    BY <1>3 DEF EndedOnly, Same
  <2>4. LiveOf(y.track) = LiveOf(w.track) \ ts
    BY <1>3 DEF EndedOnly
  <2> SUFFICES ASSUME NEW k \in Kind, NEW t PROVE t \in InStream(y, k) <=> t \in InStream(w, k)
    OBVIOUS
  <2>5. /\ t \in InStream(y, k) <=> t \in StreamOf(y) \cap LiveOf(y.track) /\ y.track[t].kind = k
        /\ t \in InStream(w, k) <=> t \in StreamOf(w) \cap LiveOf(w.track) /\ w.track[t].kind = k
    BY DEF InStream, OfKind
  <2>6. t \in InStream(w, k) => t \notin ts
    BY <2>2
  <2> QED
    BY <2>1, <2>3, <2>4, <2>5, <2>6
<1>7. \A k \in Kind : \A s : Fine(w, k, s) => Fine(y, k, s)
  BY <1>3, <1>6 DEF Fine, EndedOnly
<1>8. OneOfAKind(y)
  <2>1. \A us : Lone(w.track, us) => Lone(y.track, us)
    BY <1>3, LoneStays DEF EndedOnly, Same
  <2>2. StreamOf(y) = StreamOf(w)
    BY <1>2 DEF StreamOf
  <2> QED
    BY <2>1, <2>2, <1>2, <1>6 DEF Follows, FollowsBut, OneOfAKind, Kind
<1>9. Exclusive(y)
  BY <1>2 DEF Follows, FollowsBut, Exclusive
<1>10. \A i \in Jobs : SameJob(w.job[i], y.job[i]) /\ StaysOut(w, y, w.job[i].put)
  BY <1>2, <1>6 DEF SameJob, StaysOut
<1>11. Follows(y)
  BY <1>2, <1>7, <1>8, <1>9, <1>10, SceneChanges DEF Follows
<1> QED
  BY <1>5, <1>6, <1>7, <1>11

\* The job goes on to undo: what it has changed it knows.
LEMMA GivesUpFollows ==
  ASSUME NEW w, Core(w), Follows(w), NEW j \in Jobs, Puts(w, j), NEW z, GivenUp(w, z, j)
  PROVE  Follows(z)
<1> DEFINE y == [w EXCEPT !.track = Stopped(w.track, {w.job[j].new} \ {0})]
           at == w.job[j]
           k == at.kind
<1>1. /\ WorldType(w) /\ PeersFit(w) /\ Busy(w, j) /\ JobFits(w, j) /\ k \in Kind
      /\ \A q \in Peer : LinkFits(w, j, q)
  BY DEF Core, Follows, FollowsBut, JobIsFit, Busy, Puts, JobFits
<1>2. /\ Core(y) /\ Follows(y) /\ \A l \in Kind : InStream(y, l) = InStream(w, l)
      /\ \A l \in Kind : \A s : Fine(w, l, s) => Fine(y, l, s)
  BY StoppedFollows
<1>3. /\ DOMAIN y = WorldFields /\ y.track = Stopped(w.track, {w.job[j].new} \ {0})
      /\ y.room = w.room /\ y.stream = w.stream /\ y.share = w.share /\ y.peer = w.peer
      /\ y.job = w.job
  BY <1>1 DEF WorldType, WorldFields
<1>4. /\ z.track = y.track /\ z.room = y.room /\ z.stream = y.stream /\ z.share = y.share
      /\ z.peer = y.peer /\ \A i \in Jobs \ {j} : z.job[i] = y.job[i]
      /\ z.job[j].phase = "undoing" /\ z.job[j].at = None
      /\ z.job[j].seen = at.seen /\ z.job[j].updates = at.updates
      /\ z.job[j].kind = k /\ z.job[j].new = at.new
      /\ z.job[j].before = at.before /\ z.job[j].put = at.put
      /\ z.job[j].todo = at.todo /\ z.job[j].failed = at.failed
  BY <1>1, <1>3 DEF GivenUp, WorldType, JobFields
<1> HIDE DEF k, y
<1>5. /\ \A l, s : Fine(z, l, s) <=> Fine(y, l, s)
      /\ \A l : InStream(z, l) = InStream(y, l)
      /\ \A q \in Peer : Number(z, q) = Number(w, q) /\ Number(y, q) = Number(w, q)
  BY <1>3, <1>4 DEF Fine, InStream, StreamOf, Number
<1>6. /\ Names(z.job[j]) \subseteq Names(at) /\ Given(z.job[j]) = Given(at)
      /\ None \notin Given(at)
  BY <1>1, <1>4, NoneIsNothing DEF Names, Given, JobFits
<1>7. JobFits(y, j) /\ (\A q \in Peer : LinkFits(y, j, q)) /\ Busy(y, j) /\ PeersFit(y)
  BY <1>1, <1>2, <1>3 DEF Follows, FollowsBut, JobIsFit, Busy
<1>8. Busy(z, j) /\ ~Puts(z, j) /\ Exclusive(z) /\ PeersFit(z)
  <2>1. Busy(z, j) /\ ~Puts(z, j)
    BY <1>4 DEF Busy, Puts
  <2>2. PeersFit(z)
    BY <1>1, <1>3, <1>4 DEF PeersFit
  <2>3. j = "share" => at.phase = "starting"
    BY <1>1 DEF Puts, WorldType
  <2>4. Exclusive(w)
    BY DEF Follows, FollowsBut
  <2>5. ASSUME j = "share" PROVE Exclusive(z)
    BY <2>3, <2>4, <2>5, <1>3, <1>4 DEF Exclusive, Jobs
  <2>6. ASSUME j = "input" PROVE Exclusive(z)
    <3>1. w.job["input"].phase # "none"
      BY <2>6, <1>1 DEF Busy
    <3> QED
      BY <2>4, <2>6, <3>1, <1>3, <1>4 DEF Exclusive, Jobs
  <2> QED
    BY <2>1, <2>2, <2>5, <2>6 DEF Jobs
<1> HIDE DEF at
<1>9. JobFits(z, j)
  <2>1. Names(z.job[j]) \subseteq Peer \X Nat
    BY <1>1, <1>6 DEF JobFits, at
  <2>2. y.job[j] = at /\ at.todo = {}
    BY <1>1, <1>3 DEF at, JobFits, Puts
  <2> QED
    BY <1>4, <1>5, <1>6, <1>7, <1>8, <2>1, <2>2 DEF JobFits, k
<1>10. ASSUME NEW q \in Peer PROVE LinkFits(z, j, q)
  <2>1. LinkFits(w, j, q) /\ Number(w, q) # None
    BY <1>1, CurrentIs
  <2> QED
    BY <1>3, <1>4, <1>5, <1>6, <1>8, <2>1 DEF LinkFits, at, k
<1>11. ASSUME NEW q \in Peer PROVE SenderFits(z, q, k, {}) /\ OfferFits(z, q, k)
  <2>1. SenderFits(y, q, k, {}) /\ OfferFits(y, q, k) /\ Number(w, q) # None
    BY <1>1, <1>2, CurrentIs DEF Follows, FollowsBut, k, at
  <2>2. CASE w.peer[q].here => Number(w, q) # at.at
    <3>1. w.peer[q].here => (Covered(y, j, k, Number(w, q)) => Covered(z, j, k, Number(w, q)))
      BY <2>2, <1>3, <1>4, <1>6, <1>8 DEF Covered, at
    <3>2. AddedBy(y, j, k, Number(w, q)) => AddedBy(z, j, k, Number(w, q))
      BY <1>3, <1>4, <1>8 DEF AddedBy, at
    <3>3. \A i \in Jobs \ {j} : (Covered(y, i, k, Number(w, q)) => Covered(z, i, k, Number(w, q)))
                        /\ (AddedBy(y, i, k, Number(w, q)) => AddedBy(z, i, k, Number(w, q)))
      BY <1>4 DEF Covered, AddedBy, Busy
    <3>4. SenderFits(z, q, k, {})
      BY <2>1, <3>1, <3>3, <1>3, <1>4, <1>5 DEF SenderFits
    <3> QED
      BY <2>1, <3>2, <3>3, <3>4, <1>4, <1>5 DEF OfferFits
  <2>3. CASE w.peer[q].here /\ Number(w, q) = at.at
    <3>1. Fine(w, k, w.peer[q].sender[k])
      BY <1>1, <2>3 DEF LinkFits, at, k
    <3>2. SenderFits(z, q, k, {})
      BY <3>1, <1>1, <1>2, <1>3, <1>4, <1>5 DEF SenderFits
    <3>3. AddedBy(y, j, k, Number(w, q)) => AddedBy(z, j, k, Number(w, q))
      BY <1>3, <1>4, <1>8 DEF AddedBy, at
    <3>4. \A i \in Jobs \ {j} : AddedBy(y, i, k, Number(w, q)) => AddedBy(z, i, k, Number(w, q))
      BY <1>4 DEF AddedBy, Busy
    <3> QED
      BY <2>1, <3>2, <3>3, <3>4, <1>4, <1>5 DEF OfferFits
  <2> QED
    BY <2>2, <2>3
<1>12. KindOnly(y, z, j)
  BY <1>3, <1>4 DEF KindOnly, k, at
<1>13. \A q \in Peer : /\ LinkFits(z, j, q) /\ SenderFits(z, q, y.job[j].kind, {})
                       /\ OfferFits(z, q, y.job[j].kind)
  BY <1>3, <1>10, <1>11 DEF k, at
<1> QED
  BY <1>2, <1>7, <1>8, <1>9, <1>12, <1>13, OthersFollow

\* Senders are removed.
RemovesFrom(w, j, us, v) ==
  /\ v.track = w.track /\ v.room = w.room /\ v.stream = w.stream /\ v.share = w.share
  /\ \A i \in Jobs \ {j} : v.job[i] = w.job[i]
  /\ v.job[j] = [w.job[j] EXCEPT !.updates = w.job[j].updates \ us]
  /\ v.peer = [p \in Peer |->
                 IF Number(w, p) \in {u.c : u \in us} /\ w.peer[p].here
                 THEN [w.peer[p] EXCEPT !.sender[w.job[j].kind] = None,
                         !.dropped = w.peer[p].dropped \/ w.peer[p].offers, !.offers = FALSE]
                 ELSE w.peer[p]]

\* That is what removeTrack does on each of the connections.
LEMMA RemovesIs ==
  ASSUME NEW w, WorldType(w), NEW j \in Jobs, NEW us
  PROVE  RemovesFrom(w, j, us, Removes(w, j, us))
<1> DEFINE v == Removes(w, j, us)
           new == [p \in Peer |->
                     IF <<p, w.peer[p].n>> \in {u.c : u \in us} /\ w.peer[p].here
                     THEN [w.peer[p] EXCEPT !.sender[w.job[j].kind] = None,
                             !.dropped = w.peer[p].dropped \/ w.peer[p].offers, !.offers = FALSE]
                     ELSE w.peer[p]]
<1>1. DOMAIN w = WorldFields /\ DOMAIN w.job = Jobs /\ DOMAIN w.job[j] = JobFields
  BY DEF WorldType
<1>2. v = [w EXCEPT !.peer = new, !.job[j].updates = @ \ us]
  BY DEF Removes
<1>3. new = [p \in Peer |->
               IF Number(w, p) \in {u.c : u \in us} /\ w.peer[p].here
               THEN [w.peer[p] EXCEPT !.sender[w.job[j].kind] = None,
                       !.dropped = w.peer[p].dropped \/ w.peer[p].offers, !.offers = FALSE]
               ELSE w.peer[p]]
  BY DEF Number
<1> HIDE DEF new, v
<1> DEFINE x == [w EXCEPT !.peer = new]
<1>4. v = [x EXCEPT !.job[j] = [x.job[j] EXCEPT !.updates = w.job[j].updates \ us]]
  BY <1>2
<1>5. /\ DOMAIN x = WorldFields /\ x.job = w.job /\ x.peer = new /\ x.track = w.track
      /\ x.room = w.room /\ x.stream = w.stream /\ x.share = w.share
  BY <1>1 DEF WorldFields
<1> HIDE DEF x
<1>6. /\ v.job[j] = [x.job[j] EXCEPT !.updates = w.job[j].updates \ us]
      /\ \A i \in Jobs \ {j} : v.job[i] = x.job[i]
      /\ v.peer = x.peer /\ v.track = x.track
      /\ v.room = x.room /\ v.stream = x.stream /\ v.share = x.share
  BY <1>1, <1>4, <1>5, JobIs
<1> QED
  BY <1>3, <1>5, <1>6, Zenon DEF v, RemovesFrom

\* The job that added the senders takes them back: the stream has nothing that they
\* could send, and another offer is no longer asked for.
LEMMA RemovesFollow ==
  ASSUME NEW w, Core(w), Follows(w), NEW j \in Jobs, w.job[j].phase = "undoing",
         NEW us, us \subseteq {u \in w.job[j].updates : u.added},
         NEW v, v = Removes(w, j, us)
  PROVE  Follows(v)
<1> DEFINE at == w.job[j]
           k == at.kind
           cs == {u.c : u \in us}
<1>1. /\ WorldType(w) /\ PeersFit(w) /\ Busy(w, j) /\ JobFits(w, j) /\ k \in Kind
      /\ \A q \in Peer : LinkFits(w, j, q)
  BY DEF Core, Follows, FollowsBut, JobIsFit, JobFits, Busy
<1>2. /\ v.track = w.track /\ v.room = w.room /\ v.stream = w.stream /\ v.share = w.share
      /\ \A i \in Jobs \ {j} : v.job[i] = w.job[i]
      /\ v.job[j] = [w.job[j] EXCEPT !.updates = w.job[j].updates \ us]
      /\ v.peer = [p \in Peer |->
                 IF Number(w, p) \in cs /\ w.peer[p].here
                 THEN [w.peer[p] EXCEPT !.sender[k] = None,
                         !.dropped = w.peer[p].dropped \/ w.peer[p].offers, !.offers = FALSE]
                 ELSE w.peer[p]]
  <2>1. RemovesFrom(w, j, us, v)
    BY <1>1, RemovesIs
  <2> QED
    BY <2>1, Zenon DEF RemovesFrom
<1>3. DOMAIN at = JobFields
  BY <1>1 DEF WorldType
<1> HIDE DEF k, cs
<1>4. /\ v.job[j].at = at.at /\ v.job[j].seen = at.seen /\ v.job[j].updates = at.updates \ us
      /\ v.job[j].phase = "undoing" /\ v.job[j].kind = k /\ v.job[j].new = at.new
      /\ v.job[j].before = at.before /\ v.job[j].put = at.put
      /\ v.job[j].todo = at.todo /\ v.job[j].failed = at.failed
  BY Zenon, <1>2, <1>3 DEF JobFields, k
<1> HIDE DEF at
<1>5. ASSUME NEW p \in Peer
      PROVE  /\ v.peer[p] \in ConnectionRecord
             /\ v.peer[p].n = w.peer[p].n /\ v.peer[p].here = w.peer[p].here
             /\ v.peer[p].offered = w.peer[p].offered
             /\ w.peer[p].offers \/ w.peer[p].dropped => v.peer[p].offers \/ v.peer[p].dropped
             /\ \A l \in Kind : v.peer[p].sender[l] =
                  IF Number(w, p) \in cs /\ w.peer[p].here /\ l = k THEN None ELSE w.peer[p].sender[l]
  <2>1. w.peer[p] \in ConnectionRecord
    BY <1>1 DEF PeersFit
  <2>2. PICK y : y = w.peer[p]
    OBVIOUS
  <2> DEFINE z == [y EXCEPT !.sender[k] = None, !.dropped = y.dropped \/ y.offers, !.offers = FALSE]
  <2>3. v.peer[p] = IF Number(w, p) \in cs /\ w.peer[p].here THEN z ELSE y
    BY Zenon, <1>2, <2>2
  <2>4. /\ z \in ConnectionRecord /\ z.n = y.n /\ z.here = y.here /\ z.offered = y.offered
        /\ y.offers \/ y.dropped => z.offers \/ z.dropped
        /\ \A l \in Kind : z.sender[l] = IF l = k THEN None ELSE y.sender[l]
    BY <2>1, <2>2, <1>1 DEF ConnectionRecord
  <2> HIDE DEF z
  <2> QED
    BY <2>1, <2>2, <2>3, <2>4
<1>6. /\ \A l, s : Fine(v, l, s) <=> Fine(w, l, s)
      /\ \A l : InStream(v, l) = InStream(w, l)
      /\ \A p \in Peer : Number(v, p) = Number(w, p)
  BY Zenon, <1>2, <1>5 DEF Fine, InStream, StreamOf, Number
<1>7. /\ us \subseteq at.updates /\ \A u \in us : u.added
      /\ \A u, x \in at.updates : u.c = x.c => u = x
  BY <1>1 DEF JobFits, at
<1>8. /\ Given(v.job[j]) \subseteq Given(at) \ cs /\ Given(at) \subseteq Given(v.job[j]) \cup cs
      /\ \A u \in at.updates : u.c \notin cs => u \in v.job[j].updates
      /\ cs \subseteq Given(at)
  <2>1. \A u \in at.updates \ us : u.c \notin cs
    BY <1>7 DEF cs
  <2>2. \A u \in us : u.c \in cs
    BY DEF cs
  <2> QED
    BY <2>1, <2>2, <1>4, <1>7 DEF Given, cs
<1>9. cs # {} => Fine(w, k, None)
  <2> SUFFICES ASSUME NEW u \in us PROVE Fine(w, k, None)
    BY DEF cs
  <2>1. Fine(w, k, u.before) /\ u.before = 0
    BY <1>1, <1>7 DEF JobFits, at, k
  <2> QED
    BY <2>1, <1>1, FineIs
<1>10. Busy(v, j) /\ ~Puts(v, j) /\ ~Puts(w, j) /\ Exclusive(v) /\ PeersFit(v)
  <2>1. \A i \in Jobs : v.job[i].phase = w.job[i].phase
    BY Zenon, <1>2, <1>4
  <2>2. PeersFit(v)
    <3>1. v.peer = [q \in Peer |-> v.peer[q]]
      BY Zenon, <1>2
    <3> QED
      BY Zenon, <3>1, <1>1, <1>2, <1>5 DEF PeersFit
  <2> QED
    BY <2>1, <2>2, <1>4 DEF Busy, Puts, Exclusive, Follows, FollowsBut, Jobs
<1>11. Names(v.job[j]) \subseteq Names(at)
  BY <1>4, <1>8 DEF Names
<1>12. JobFits(v, j)
  <2>1. Names(v.job[j]) \subseteq Peer \X Nat
    BY <1>1, <1>11 DEF JobFits, at
  <2> QED
    BY <1>1, <1>4, <1>6, <1>8, <1>10, <2>1 DEF JobFits, at, k
<1>13. ASSUME NEW q \in Peer PROVE LinkFits(v, j, q)
  <2>1. LinkFits(w, j, q) /\ Number(w, q) # None
    BY <1>1, CurrentIs
  <2>2. v.peer[q].sender[k] = IF Number(w, q) \in cs /\ w.peer[q].here THEN None ELSE w.peer[q].sender[k]
    BY <1>1, <1>5
  <2>3. at.todo = {} /\ at.at \notin cs
    BY <1>1, <1>8 DEF JobFits, at
  <2>4. \A m \in Nat : <<q, m>> \in Names(v.job[j]) => m <= v.peer[q].n
    BY <1>5, <1>11, <2>1 DEF LinkFits, at
  <2>5. w.peer[q].here /\ Number(w, q) \in Given(v.job[j]) \cup at.todo \cup {at.at} =>
          v.peer[q].sender[k] # None
    BY <1>8, <2>1, <2>2, <2>3 DEF LinkFits, at, k
  <2> QED
    BY <1>4, <1>5, <1>6, <1>10, <2>4, <2>5 DEF LinkFits
<1>14. ASSUME NEW q \in Peer PROVE SenderFits(v, q, k, {}) /\ OfferFits(v, q, k)
  <2>1. SenderFits(w, q, k, {}) /\ OfferFits(w, q, k) /\ Number(w, q) # None
    BY <1>1, CurrentIs DEF Follows, FollowsBut, k, at
  <2>2. CASE Number(w, q) \notin cs
    <3>1. \A i \in Jobs : (Covered(w, i, k, Number(w, q)) => Covered(v, i, k, Number(w, q)))
                        /\ (AddedBy(w, i, k, Number(w, q)) => AddedBy(v, i, k, Number(w, q)))
      <4>1. Covered(w, j, k, Number(w, q)) => Covered(v, j, k, Number(w, q))
        BY <2>2, <1>4, <1>8, <1>10 DEF Covered, at
      <4>2. AddedBy(w, j, k, Number(w, q)) => AddedBy(v, j, k, Number(w, q))
        BY <2>2, <1>4, <1>8, <1>10 DEF AddedBy, at
      <4>3. \A i \in Jobs \ {j} : (Covered(w, i, k, Number(w, q)) => Covered(v, i, k, Number(w, q)))
                        /\ (AddedBy(w, i, k, Number(w, q)) => AddedBy(v, i, k, Number(w, q)))
        BY Zenon, <1>2 DEF Covered, AddedBy, Busy
      <4> QED
        BY <4>1, <4>2, <4>3
    <3>2. v.peer[q].sender[k] = w.peer[q].sender[k]
      BY <2>2, <1>1, <1>5
    <3>3. SenderFits(v, q, k, {})
      BY <2>1, <3>1, <3>2, <1>5, <1>6 DEF SenderFits
    <3> QED
      BY <2>1, <3>1, <3>2, <3>3, <1>5, <1>6 DEF OfferFits
  <2>3. CASE Number(w, q) \in cs
    <3>1. w.peer[q].here => v.peer[q].sender[k] = None
      BY <2>3, <1>1, <1>5
    <3> QED
      BY <2>3, <3>1, <1>5, <1>6, <1>9 DEF SenderFits, OfferFits
  <2> QED
    BY <2>2, <2>3
<1>15. KindOnly(w, v, j)
  <2>1. /\ v.track = w.track /\ v.stream = w.stream /\ v.share = w.share
        /\ \A i \in Jobs \ {j} : v.job[i] = w.job[i]
        /\ v.job[j].kind = w.job[j].kind
    BY Zenon, <1>2, <1>4 DEF at, k
  <2>2. ASSUME NEW p \in Peer, NEW l \in Kind \ {k}
        PROVE  /\ v.peer[p].n = w.peer[p].n /\ v.peer[p].here = w.peer[p].here
               /\ v.peer[p].sender[l] = w.peer[p].sender[l]
               /\ l \in w.peer[p].offered \/ w.peer[p].offers \/ w.peer[p].dropped =>
                    l \in v.peer[p].offered \/ v.peer[p].offers \/ v.peer[p].dropped
    BY <1>5
  <2>3. ASSUME NEW p \in Peer
        PROVE  v.peer[p].n = w.peer[p].n /\ v.peer[p].here = w.peer[p].here
    BY <1>5
  <2> QED
    BY <2>1, <2>2, <2>3 DEF KindOnly, k, at
<1>16. \A q \in Peer : /\ LinkFits(v, j, q) /\ SenderFits(v, q, w.job[j].kind, {})
                       /\ OfferFits(v, q, w.job[j].kind)
  BY <1>13, <1>14 DEF k, at
<1> QED
  BY <1>1, <1>10, <1>12, <1>15, <1>16, OthersFollow

\* A connection is asked to take back what it had.
TakesBack(w, v, j, u) ==
  /\ v.track = w.track /\ v.room = w.room /\ v.stream = w.stream /\ v.share = w.share
  /\ v.peer = w.peer /\ \A i \in Jobs \ {j} : v.job[i] = w.job[i]
  /\ v.job[j] = [w.job[j] EXCEPT !.at = u.c, !.put = u.before, !.updates = w.job[j].updates \ {u}]

\* That is what it does before it waits.
LEMMA TakesBackIs ==
  ASSUME NEW w, WorldType(w), NEW j \in Jobs, NEW u,
         NEW v, v = [w EXCEPT !.job[j].at = u.c, !.job[j].put = u.before,
                              !.job[j].updates = w.job[j].updates \ {u}]
  PROVE  TakesBack(w, v, j, u)
BY DEF WorldType, WorldFields, TakesBack

\* What it had was right.
LEMMA TakesBackFollows ==
  ASSUME NEW w, Core(w), Follows(w), NEW j \in Jobs, w.job[j].phase = "undoing",
         w.job[j].at = None, NEW u \in w.job[j].updates, ~u.added, NEW v, TakesBack(w, v, j, u)
  PROVE  Follows(v)
<1> DEFINE at == w.job[j]
           k == at.kind
           c == u.c
<1>1. /\ WorldType(w) /\ PeersFit(w) /\ Busy(w, j) /\ JobFits(w, j) /\ k \in Kind
      /\ \A q \in Peer : LinkFits(w, j, q)
  BY DEF Core, Follows, FollowsBut, JobIsFit, JobFits, Busy
<1>2. /\ v.track = w.track /\ v.room = w.room /\ v.stream = w.stream /\ v.share = w.share
      /\ v.peer = w.peer /\ \A i \in Jobs \ {j} : v.job[i] = w.job[i]
      /\ v.job[j].at = c /\ v.job[j].seen = at.seen /\ v.job[j].updates = at.updates \ {u}
      /\ v.job[j].phase = "undoing" /\ v.job[j].kind = k /\ v.job[j].new = at.new
      /\ v.job[j].before = at.before /\ v.job[j].put = u.before
      /\ v.job[j].todo = at.todo /\ v.job[j].failed = at.failed
  BY <1>1 DEF TakesBack, WorldType, JobFields
<1> HIDE DEF k
<1>3. /\ \A l, s : Fine(v, l, s) <=> Fine(w, l, s)
      /\ \A l : InStream(v, l) = InStream(w, l)
      /\ \A q \in Peer : Number(v, q) = Number(w, q)
  BY <1>2 DEF Fine, InStream, StreamOf, Number
<1>4. /\ u \in [c : Peer \X Nat, before : Track, added : BOOLEAN]
      /\ \A x, y \in at.updates : x.c = y.c => x = y
      /\ Fine(w, k, u.before)
  BY <1>1 DEF JobFits, k
<1>5. c \in Peer \X Nat /\ c # None /\ c \in Given(at)
  BY <1>4, LocalMediaAssumption DEF Given
<1> HIDE DEF c, at
<1>6. /\ Given(v.job[j]) \subseteq Given(at) \ {c} /\ Given(at) \subseteq Given(v.job[j]) \cup {c}
      /\ \A x \in at.updates : x.added => x \in v.job[j].updates
  <2>1. \A x \in at.updates \ {u} : x.c # c
    BY <1>4 DEF c, at
  <2> QED
    BY <2>1, <1>2 DEF Given, c
<1>7. Names(v.job[j]) \subseteq Names(at)
  BY <1>2, <1>5, <1>6 DEF Names
<1>8. Busy(v, j) /\ ~Puts(v, j) /\ ~Puts(w, j) /\ Exclusive(v) /\ PeersFit(v)
  <2>1. \A i \in Jobs : v.job[i].phase = w.job[i].phase
    BY <1>2
  <2> QED
    BY <2>1, <1>1, <1>2 DEF Busy, Puts, Exclusive, Follows, FollowsBut, Jobs, PeersFit
<1>9. JobFits(v, j)
  <2>1. Names(v.job[j]) \subseteq Peer \X Nat
    BY <1>1, <1>7 DEF JobFits, at
  <2> QED
    BY <1>1, <1>2, <1>3, <1>4, <1>6, <1>8, <2>1 DEF JobFits, at, k
<1>10. ASSUME NEW q \in Peer PROVE LinkFits(v, j, q)
  <2>1. LinkFits(w, j, q) /\ Number(w, q) # None
    BY <1>1, CurrentIs
  <2> QED
    BY <1>2, <1>3, <1>5, <1>6, <1>7, <1>8, <2>1 DEF LinkFits, at, k
<1>11. ASSUME NEW q \in Peer PROVE SenderFits(v, q, k, {}) /\ OfferFits(v, q, k)
  <2>1. SenderFits(w, q, k, {}) /\ OfferFits(w, q, k) /\ Number(w, q) # None
    BY <1>1, CurrentIs DEF Follows, FollowsBut, k, at
  <2>2. \A i \in Jobs : (Covered(w, i, k, Number(w, q)) => Covered(v, i, k, Number(w, q)))
                        /\ (AddedBy(w, i, k, Number(w, q)) => AddedBy(v, i, k, Number(w, q)))
    <3>1. at.at = None
      BY DEF at
    <3>2. Covered(w, j, k, Number(w, q)) => Covered(v, j, k, Number(w, q))
      BY <2>1, <3>1, <1>2, <1>6, <1>8 DEF Covered, at
    <3>3. AddedBy(w, j, k, Number(w, q)) => AddedBy(v, j, k, Number(w, q))
      BY <1>2, <1>6, <1>8 DEF AddedBy, at
    <3>4. \A i \in Jobs \ {j} : (Covered(w, i, k, Number(w, q)) => Covered(v, i, k, Number(w, q)))
                        /\ (AddedBy(w, i, k, Number(w, q)) => AddedBy(v, i, k, Number(w, q)))
      BY <1>2 DEF Covered, AddedBy, Busy
    <3> QED
      BY <3>2, <3>3, <3>4
  <2>3. SenderFits(v, q, k, {})
    BY <2>1, <2>2, <1>2, <1>3 DEF SenderFits
  <2> QED
    BY <2>1, <2>2, <2>3, <1>2, <1>3 DEF OfferFits
<1>12. KindOnly(w, v, j)
  BY <1>2 DEF KindOnly, k, at
<1>13. \A q \in Peer : /\ LinkFits(v, j, q) /\ SenderFits(v, q, w.job[j].kind, {})
                       /\ OfferFits(v, q, w.job[j].kind)
  BY <1>10, <1>11 DEF k, at
<1> QED
  BY <1>1, <1>8, <1>9, <1>12, <1>13, OthersFollow

\* A job that waits for nothing and knows of no connection there is, ends.
LEMMA ThroughFollows ==
  ASSUME NEW w, Core(w), Follows(w), NEW j \in Jobs, Busy(w, j), w.job[j].at = None,
         (Given(w.job[j]) \cup w.job[j].todo) \cap Current(w) = {},
         NEW v, WorldType(v), v.track = w.track, v.room = w.room, v.stream = w.stream,
         v.peer = w.peer, v.job = w.job,
         \/ v.share = w.share /\ j = "input"
         \/ v.share.active = 0 /\ v.share.retained \subseteq w.share.retained /\ j = "share"
  PROVE  Follows(Ended(v, j))
<1>1. /\ WorldType(w) /\ PeersFit(w) /\ OneOfAKind(w) /\ Exclusive(w)
      /\ \A i \in Jobs : JobIsFit(w, i)
  BY DEF Core, Follows, FollowsBut
<1>2. /\ \A k, s : Fine(v, k, s) <=> Fine(w, k, s)
      /\ \A k : InStream(v, k) = InStream(w, k)
      /\ \A p : Number(v, p) = Number(w, p)
      /\ StreamOf(v) = StreamOf(w)
  BY DEF Fine, InStream, StreamOf, Number
<1>3. PeersFit(v) /\ (j = "share" \/ Exclusive(v))
  BY <1>1 DEF PeersFit, Exclusive, Jobs
<1>4. OneOfAKind(v)
  <2>1. v.share.active # 0 /\ v.job["share"].phase = "none" => v.share.active \in InStream(v, "video")
    BY <1>1, <1>2 DEF OneOfAKind, Jobs
  <2>2. Lone(v.track, StreamOf(v)) /\ Lone(v.track, v.share.retained)
    BY <1>1, <1>2 DEF OneOfAKind, Lone
  <2> QED
    BY <2>1, <2>2 DEF OneOfAKind
<1>5. ASSUME NEW i \in Jobs \ {j} PROVE JobIsFit(v, i)
  <2>1. SameJob(w.job[i], v.job[i]) /\ StaysOut(w, v, w.job[i].put)
    BY <1>2 DEF SameJob, StaysOut
  <2> QED
    BY <2>1, <1>1, <1>2, JobStaysFit
<1>6. ASSUME NEW p \in Peer, NEW k \in Kind, v.peer[p].here
      PROVE  /\ \/ Fine(v, k, v.peer[p].sender[k]) \/ Number(v, p) \in v.job[j].failed
                \/ \E i \in Jobs \ {j} : Covered(v, i, k, Number(v, p))
             /\ v.peer[p].sender[k] # None =>
                  \/ k \in v.peer[p].offered \/ v.peer[p].offers \/ v.peer[p].dropped
                  \/ \E i \in Jobs \ {j} : AddedBy(v, i, k, Number(v, p))
  <2>1. SenderFits(w, p, k, {}) /\ OfferFits(w, p, k)
    BY DEF Follows, FollowsBut
  <2>2. Number(w, p) \in Current(w) /\ Number(w, p) # None
    BY <1>1, <1>6, CurrentIs
  <2>3. Number(w, p) \notin Given(w.job[j]) \cup w.job[j].todo \cup {w.job[j].at}
    BY <2>2
  <2>4. /\ Covered(w, j, k, Number(w, p)) => Number(w, p) \in w.job[j].failed
        /\ ~AddedBy(w, j, k, Number(w, p))
    BY <2>3 DEF Covered, AddedBy, Given
  <2>5. \A i \in Jobs \ {j} : (Covered(w, i, k, Number(w, p)) => Covered(v, i, k, Number(w, p)))
                        /\ (AddedBy(w, i, k, Number(w, p)) => AddedBy(v, i, k, Number(w, p)))
    BY DEF Covered, AddedBy, Busy
  <2> QED
    BY <2>1, <2>4, <2>5, <1>2, <1>6 DEF SenderFits, OfferFits
<1> QED
  BY <1>3, <1>4, <1>5, <1>6, EndFollows

\* What was done is undone, or one connection after the other takes back what it had.
LEMMA UndoFollows ==
  ASSUME NEW w, Core(w), Follows(w), NEW j \in Jobs, w.job[j].phase = "undoing",
         w.job[j].at = None, NEW v \in Undo(w, j)
  PROVE  Follows(v)
<1> DEFINE ups == {u \in w.job[j].updates : u.c \in Current(w)}
           added == {u \in ups : u.added}
<1>1. WorldType(w) /\ PeersFit(w) /\ JobFits(w, j)
  BY DEF Core, Follows, FollowsBut, JobIsFit, Busy
<1>2. ASSUME NEW some \in SUBSET added, NEW x, x = Removes(w, j, some)
      PROVE  /\ Core(x) /\ Follows(x) /\ WorldType(x) /\ x.share = w.share
             /\ x.job[j].phase = "undoing" /\ x.job[j].at = None /\ x.job[j].todo = {}
             /\ x.job[j].updates = w.job[j].updates \ some /\ Current(x) = Current(w)
  <2>1. Alike(w, x)
    BY <1>1, <1>2, RemovesAlike
  <2>2. RemovesFrom(w, j, some, x)
    BY <1>1, <1>2, RemovesIs
  <2>3. Core(x) /\ WorldType(x)
    BY <2>1, AlikeFits DEF Core
  <2>4. Follows(x)
    BY <1>2, RemovesFollow
  <2>5. /\ x.job[j] = [w.job[j] EXCEPT !.updates = w.job[j].updates \ some] /\ x.share = w.share
        /\ \A p \in Peer :
             \/ x.peer[p] = w.peer[p]
             \/ x.peer[p] = [w.peer[p] EXCEPT !.sender[w.job[j].kind] = None,
                               !.dropped = w.peer[p].dropped \/ w.peer[p].offers, !.offers = FALSE]
    BY Zenon, <2>2 DEF RemovesFrom
  <2>6. Current(x) = Current(w)
    <3>1. ASSUME NEW p \in Peer PROVE x.peer[p].n = w.peer[p].n /\ x.peer[p].here = w.peer[p].here
      <4>1. PICK y : y = w.peer[p]
        OBVIOUS
      <4>2. y \in ConnectionRecord
        BY <1>1, <4>1 DEF PeersFit
      <4> DEFINE z == [y EXCEPT !.sender[w.job[j].kind] = None,
                                !.dropped = y.dropped \/ y.offers, !.offers = FALSE]
      <4>3. z.n = y.n /\ z.here = y.here
        BY <4>2 DEF ConnectionRecord
      <4>4. x.peer[p] = y \/ x.peer[p] = z
        BY Zenon, <2>5, <4>1
      <4> HIDE DEF z
      <4> QED
        BY <4>1, <4>3, <4>4
    <3> QED
      BY <3>1 DEF Current
  <2>7. w.job[j].todo = {}
    BY <1>1 DEF JobFits
  <2> QED
    BY Zenon, <2>3, <2>4, <2>5, <2>6, <2>7, <1>1 DEF WorldType, JobFields
<1>3. CASE ups # added
  <2>1. PICK u \in ups \ added, some \in SUBSET added : v = AsksBack(w, j, u, some)
    <3>1. Undo(w, j) = {AsksBack(w, j, u, some) : u \in ups \ added, some \in SUBSET added}
      BY <1>3 DEF Undo
    <3> HIDE DEF ups, added
    <3> QED
      BY <3>1
  <2>2. PICK x : x = Removes(w, j, some)
    OBVIOUS
  <2>3. v = [x EXCEPT !.job[j].at = u.c, !.job[j].put = u.before,
                      !.job[j].updates = x.job[j].updates \ {u}]
    BY <2>1, <2>2 DEF AsksBack
  <2>4. u \in w.job[j].updates /\ ~u.added /\ u \notin some
    OBVIOUS
  <2> HIDE DEF ups, added
  <2>5. /\ Core(x) /\ Follows(x) /\ WorldType(x) /\ x.job[j].phase = "undoing"
        /\ x.job[j].at = None /\ u \in x.job[j].updates
    BY <1>2, <2>2, <2>4
  <2>6. TakesBack(x, v, j, u)
    BY Zenon, <2>3, <2>5, TakesBackIs
  <2> QED
    BY <2>4, <2>5, <2>6, TakesBackFollows
<1>4. CASE ups = added
  <2> DEFINE done == Removes(w, j, added)
  <2>1. v = IF j = "share" THEN UndoneShare(done) ELSE Ended(done, "input")
    BY <1>4 DEF Undo
  <2>2. PICK x : x = done
    OBVIOUS
  <2>3. (Given(x.job[j]) \cup x.job[j].todo) \cap Current(x) = {}
    BY <1>2, <1>4, <2>2 DEF Given
  <2>4. CASE j = "input"
    <3>1. Busy(x, j)
      BY <1>2, <2>2 DEF Busy
    <3> QED
      BY <1>2, <2>1, <2>2, <2>3, <2>4, <3>1, ThroughFollows
  <2>5. CASE j = "share"
    <3>1. PICK y : y = [x EXCEPT !.share.pending = 0]
      OBVIOUS
    <3>2. WorldType(x) /\ Busy(x, j)
      BY <1>2, <2>2 DEF Busy
    <3>3. /\ WorldType(y) /\ y.track = x.track /\ y.room = x.room /\ y.stream = x.stream
          /\ y.peer = x.peer /\ y.job = x.job
          /\ y.share.active = x.share.active /\ y.share.retained = x.share.retained
      BY <3>1, <3>2 DEF WorldType, WorldFields, ShareFields
    <3>4. y.share.active = 0
      BY <1>2, <2>2, <2>5, <3>3 DEF Core, ShareFits
    <3>5. v = Ended(y, "share")
      BY <2>1, <2>2, <2>5, <3>1 DEF UndoneShare
    <3> QED
      BY <1>2, <2>2, <2>3, <2>5, <3>2, <3>3, <3>4, <3>5, ThroughFollows
  <2> QED
    BY <2>4, <2>5 DEF Jobs
<1> QED
  BY <1>3, <1>4

\* A job that has changed at most in what it waits for and what has failed.
SameWork(a, b) ==
  /\ b.phase = a.phase /\ b.kind = a.kind /\ b.new = a.new /\ b.before = a.before
  /\ b.put = a.put /\ b.todo = a.todo /\ b.seen = a.seen /\ b.updates = a.updates

\* What is given up is undone.
LEMMA AbandonFollows ==
  ASSUME NEW w, Core(w), Follows(w), NEW j \in Jobs, Puts(w, j), NEW f, Fits(f),
         f.track = w.track, f.room = w.room, f.stream = w.stream, f.share = w.share,
         f.peer = w.peer, \A i \in Jobs \ {j} : f.job[i] = w.job[i],
         SameWork(w.job[j], f.job[j]), f.job[j].at = None,
         f.job[j].failed = w.job[j].failed \/ w.job[j].phase = "replacing",
         NEW v \in Abandon(f, j)
  PROVE  Follows(v)
<1> DEFINE z == WhenGivenUp(f, j)
           at == w.job[j]
<1>1. WorldType(w) /\ WorldType(f) /\ JobFits(w, j)
  BY DEF Core, Fits, Follows, FollowsBut, JobIsFit, Busy, Puts
<1>2. /\ f.job[j].phase = at.phase /\ f.job[j].at = None
      /\ f.job[j].kind = at.kind /\ f.job[j].new = at.new
      /\ f.job[j].before = at.before /\ f.job[j].put = at.put
      /\ f.job[j].todo = at.todo /\ f.job[j].seen = at.seen
      /\ f.job[j].updates = at.updates
  BY DEF SameWork
<1>3. IF j = "share" THEN f.job[j].failed = at.failed ELSE at.failed = {}
  <2>1. CASE j = "share"
    <3>1. at.phase = "starting"
      BY <1>1, <2>1 DEF Puts, WorldType
    <3> QED
      BY <2>1, <3>1
  <2>2. CASE j = "input"
    <3>1. at.phase = "replacing"
      BY <1>1, <2>2 DEF Puts, WorldType
    <3> QED
      BY <1>1, <2>2, <3>1 DEF JobFits
  <2> QED
    BY <2>1, <2>2 DEF Jobs
<1>4. GivenUp(w, z, j)
  <2> HIDE DEF at
  <2>1. /\ DOMAIN z = WorldFields
        /\ z.track = Stopped(f.track, {f.job[j].new} \ {0}) /\ z.room = f.room
        /\ z.stream = f.stream /\ z.share = f.share /\ z.peer = f.peer
        /\ \A i \in Jobs \ {j} : z.job[i] = f.job[i]
        /\ z.job[j].phase = "undoing" /\ z.job[j].at = f.job[j].at
        /\ z.job[j].kind = f.job[j].kind /\ z.job[j].new = f.job[j].new
        /\ z.job[j].before = f.job[j].before /\ z.job[j].put = f.job[j].put
        /\ z.job[j].todo = f.job[j].todo /\ z.job[j].seen = f.job[j].seen
        /\ z.job[j].updates = f.job[j].updates
        /\ z.job[j].failed = IF j = "share" THEN f.job[j].failed ELSE {}
    BY <1>1 DEF WhenGivenUp, WorldType, WorldFields, JobFields, Jobs
  <2> HIDE DEF z
  <2> QED
    BY <2>1, <1>2, <1>3 DEF GivenUp, at
<1>5. Fits(z)
  BY <1>2, GivenUpFits DEF Puts
<1>6. v \in Undo(z, j)
  BY DEF Abandon, WhenGivenUp
<1> HIDE DEF z
<1>7. Follows(z)
  BY <1>4, GivesUpFollows
<1>8. z.job[j].phase = "undoing" /\ z.job[j].at = None
  BY <1>4 DEF GivenUp
<1> QED
  BY <1>5, <1>6, <1>7, <1>8, UndoFollows DEF Fits

\* Another offer is asked for, from the connections where a sender was added.
OfferAsked(w, us, r) ==
  /\ r.track = w.track /\ r.room = w.room /\ r.stream = w.stream /\ r.share = w.share
  /\ r.job = w.job
  /\ r.peer = [p \in Peer |-> r.peer[p]]
  /\ \A p \in Peer :
       /\ r.peer[p] \in ConnectionRecord
       /\ r.peer[p].n = w.peer[p].n /\ r.peer[p].here = w.peer[p].here
       /\ r.peer[p].sender = w.peer[p].sender /\ r.peer[p].offered = w.peer[p].offered
       /\ r.peer[p].dropped = w.peer[p].dropped
       /\ w.peer[p].offers => r.peer[p].offers
       /\ \A u \in us : u.added /\ u.c = Number(w, p) /\ w.peer[p].here => r.peer[p].offers

\* That is what requestLocalRenegotiation does on each of them.
LEMMA RenegotiatedIs ==
  ASSUME NEW w, WorldType(w), PeersFit(w), NEW us
  PROVE  OfferAsked(w, us, Renegotiated(w, us))
<1> DEFINE r == Renegotiated(w, us)
           cs == {u.c : u \in {x \in us : x.added}}
           new == [p \in Peer |-> IF Number(w, p) \in cs /\ w.peer[p].here
                                  THEN [w.peer[p] EXCEPT !.offers = TRUE] ELSE w.peer[p]]
<1>1. r = [w EXCEPT !.peer = new]
  BY DEF Renegotiated, Number
<1>2. \A u \in us : u.added => u.c \in cs
  OBVIOUS
<1> HIDE DEF cs, r
<1>3. ASSUME NEW p \in Peer
      PROVE  /\ new[p] \in ConnectionRecord
             /\ new[p].n = w.peer[p].n /\ new[p].here = w.peer[p].here
             /\ new[p].sender = w.peer[p].sender /\ new[p].offered = w.peer[p].offered
             /\ new[p].dropped = w.peer[p].dropped
             /\ w.peer[p].offers => new[p].offers
             /\ \A u \in us : u.added /\ u.c = Number(w, p) /\ w.peer[p].here => new[p].offers
  <2>1. PICK y : y = w.peer[p]
    OBVIOUS
  <2>2. y \in ConnectionRecord
    BY <2>1 DEF PeersFit
  <2> DEFINE z == [y EXCEPT !.offers = TRUE]
  <2>3. /\ z \in ConnectionRecord /\ z.n = y.n /\ z.here = y.here /\ z.sender = y.sender
        /\ z.offered = y.offered /\ z.dropped = y.dropped /\ z.offers
    BY <2>2 DEF ConnectionRecord
  <2>4. new[p] = IF Number(w, p) \in cs /\ w.peer[p].here THEN z ELSE y
    BY <2>1
  <2> HIDE DEF z, new
  <2> QED
    BY <2>1, <2>2, <2>3, <2>4, <1>2
<1>4. /\ r.peer = new /\ r.track = w.track /\ r.room = w.room /\ r.stream = w.stream
      /\ r.share = w.share /\ r.job = w.job
  BY <1>1 DEF WorldType, WorldFields
<1>5. r.peer = [p \in Peer |-> r.peer[p]]
  BY <1>4
<1> HIDE DEF new
<1> QED
  BY <1>3, <1>4, <1>5 DEF OfferAsked, r

\* Once every connection has been seen, the senders of a job's kind have its track,
\* but for the ones that failed.
LEMMA AllSeen ==
  ASSUME NEW w, Core(w), Follows(w), NEW j \in Jobs, Puts(w, j), w.job[j].at = None,
         Current(w) \subseteq w.job[j].seen, NEW p \in Peer, w.peer[p].here
  PROVE  \/ Number(w, p) \in w.job[j].failed
         \/ w.peer[p].sender[w.job[j].kind] = w.job[j].new
<1>1. PeersFit(w) /\ LinkFits(w, j, p)
  BY DEF Follows, FollowsBut, JobIsFit, Busy, Puts
<1>2. Number(w, p) \in w.job[j].seen /\ Number(w, p) # None
  BY <1>1, CurrentIs
<1> QED
  BY <1>1, <1>2 DEF LinkFits

\* The screen takes the place of the camera, in the stream as on the senders.
LEMMA StartCommittedFollows ==
  ASSUME NEW w, Core(w), Follows(w), w.job["share"].phase = "starting", OwnsStart(w),
         w.job["share"].at = None, Current(w) \subseteq w.job["share"].seen
  PROVE  Follows(StartCommitted(w))
<1> DEFINE new == w.share.pending
           cameras == InStream(w, "video")
           on == [w EXCEPT !.stream = (StreamOf(w) \ cameras) \cup {new},
                           !.share.retained = cameras, !.share.pending = 0, !.share.active = new,
                           !.share.created = w.share.bare]
           r == Renegotiated(on, w.job["share"].updates)
<1>1. StartCommitted(w) = Ended(r, "share")
  BY DEF StartCommitted
<1>2. /\ WorldType(w) /\ PeersFit(w) /\ OneOfAKind(w) /\ Exclusive(w) /\ Puts(w, "share")
      /\ JobFits(w, "share") /\ w.job["share"].kind = "video"
  BY DEF Core, Follows, FollowsBut, JobIsFit, JobFits, Busy, Puts, Jobs
<1>3. /\ DOMAIN on = WorldFields /\ on.track = w.track /\ on.room = w.room /\ on.peer = w.peer
      /\ on.job = w.job /\ on.input = w.input /\ on.barred = w.barred
      /\ on.stream = (StreamOf(w) \ cameras) \cup {new}
      /\ DOMAIN on.share = ShareFields
      /\ on.share.retained = cameras /\ on.share.pending = 0 /\ on.share.active = new
  BY ZenonT(40), <1>2 DEF WorldType, WorldFields, ShareFields
<1> HIDE DEF on
<1>4. /\ new \in 1..Tracks /\ new # 0 /\ new \in LiveOf(w.track) /\ w.track[new].kind = "video"
      /\ new = w.job["share"].new
  <2>1. new # 0 /\ w.track[new].live
    BY DEF OwnsStart, Live
  <2>2. new \in 1..Tracks /\ new \in LiveOf(w.track)
    BY <2>1, <1>2 DEF WorldType, LiveOf
  <2> QED
    BY <2>1, <2>2 DEF Core, KindsFit, ShareFits
<1>5. cameras \subseteq 1..Tracks /\ StreamOf(w) \subseteq 1..Tracks
  BY <1>2, InStreamIs DEF WorldType, StreamOf
<1>6. WorldType(on)
  BY <1>2, <1>3, <1>4, <1>5 DEF WorldType
<1>7. WorldType(r) /\ PeersFit(on) /\ OfferAsked(on, w.job["share"].updates, r)
  <2>1. PeersFit(on)
    BY <1>2, <1>3 DEF PeersFit
  <2> QED
    BY <2>1, <1>6, RenegotiatedAlike, AlikeFits, RenegotiatedIs
<1> HIDE DEF r
<1>8. StreamOf(on) = (StreamOf(w) \ cameras) \cup {new}
  <2>1. (StreamOf(w) \ cameras) \cup {new} # None
    BY <1>4, <1>5, TracksAssumption
  <2> QED
    BY <2>1, <1>3 DEF StreamOf
<1>9. StreamOf(r) = (StreamOf(w) \ cameras) \cup {new} /\ r.track = w.track
  BY <1>3, <1>7, <1>8 DEF OfferAsked, StreamOf
<1>10. new \in InStream(r, "video") /\ InStream(r, "audio") = InStream(w, "audio")
  <2>1. new \in InStream(r, "video")
    BY <1>4, <1>9 DEF InStream, OfKind
  <2>2. \A t : t \in cameras => w.track[t].kind = "video"
    BY DEF InStream, OfKind
  <2>3. InStream(r, "audio") = InStream(w, "audio")
    BY <2>2, <1>4, <1>9 DEF InStream, OfKind
  <2> QED
    BY <2>1, <2>3
<1>11. PeersFit(r)
  BY <1>7, <1>3 DEF OfferAsked, PeersFit
<1>12. OneOfAKind(r)
  <2>1. Lone(w.track, StreamOf(w))
    BY <1>2 DEF OneOfAKind
  <2>2. Lone(r.track, r.share.retained)
    <3>1. cameras \subseteq StreamOf(w) /\ r.share.retained = cameras
      BY <1>3, <1>7 DEF OfferAsked, InStream, OfKind
    <3> QED
      BY <2>1, <3>1, <1>9 DEF Lone
  <2>3. Lone(r.track, StreamOf(r))
    <3>1. \A t \in (StreamOf(w) \ cameras) \cap LiveOf(w.track) : w.track[t].kind # "video"
      BY DEF InStream, OfKind
    <3> HIDE DEF cameras, new
    <3> QED
      BY <2>1, <3>1, <1>4, <1>9 DEF Lone
  <2>4. r.share.active \in InStream(r, "video")
    BY <1>3, <1>7, <1>10 DEF OfferAsked
  <2> QED
    BY <2>2, <2>3, <2>4 DEF OneOfAKind
<1>13. r.share.active \in InStream(r, "video")
  BY <1>3, <1>7, <1>10 DEF OfferAsked
<1>14. ~Busy(w, "input") /\ r.job = w.job
  BY <1>2, <1>3, <1>7 DEF Busy, Exclusive, OfferAsked
<1>15. \A i \in Jobs \ {"share"} : JobIsFit(r, i)
  BY <1>14 DEF JobIsFit, Busy, Jobs
<1>16. ASSUME NEW p \in Peer, NEW k \in Kind, r.peer[p].here
       PROVE  /\ Fine(r, k, r.peer[p].sender[k]) \/ Number(r, p) \in r.job["share"].failed
              /\ r.peer[p].sender[k] # None =>
                   k \in r.peer[p].offered \/ r.peer[p].offers \/ r.peer[p].dropped
  <2>1. /\ w.peer[p].here /\ r.peer[p].sender = w.peer[p].sender /\ r.peer[p].n = w.peer[p].n
        /\ r.peer[p].offered = w.peer[p].offered /\ r.peer[p].dropped = w.peer[p].dropped
        /\ w.peer[p].offers => r.peer[p].offers
        /\ \A u \in w.job["share"].updates :
             u.added /\ u.c = Number(on, p) /\ w.peer[p].here => r.peer[p].offers
    BY <1>3, <1>7, <1>16 DEF OfferAsked
  <2>2. Number(on, p) = Number(w, p) /\ Number(r, p) = Number(w, p)
    BY <2>1, <1>3 DEF Number
  <2>3. SenderFits(w, p, k, {}) /\ OfferFits(w, p, k)
    BY DEF Follows, FollowsBut
  <2>4. \A i \in Jobs : (Covered(w, i, k, Number(w, p)) => k = "video" /\ i = "share")
                        /\ (AddedBy(w, i, k, Number(w, p)) => i = "share")
    BY <1>2, <1>14 DEF Covered, AddedBy, Jobs
  <2>5. CASE k = "video"
    <3>1. Number(w, p) \in w.job["share"].failed \/ w.peer[p].sender["video"] = new
      BY <2>1, <1>2, <1>4, AllSeen DEF Jobs
    <3> QED
      BY <2>1, <2>2, <2>3, <2>4, <2>5, <3>1, <1>7, <1>10, <1>14, FineIs DEF OfferFits, AddedBy
  <2>6. CASE k # "video"
    <3>1. k = "audio"
      BY <2>6 DEF Kind
    <3>2. Fine(w, k, w.peer[p].sender[k])
      BY <2>1, <2>3, <2>4, <2>6 DEF SenderFits
    <3>3. Fine(r, k, r.peer[p].sender[k])
      BY <2>1, <3>1, <3>2, <1>9, <1>10 DEF Fine
    <3> QED
      BY <2>1, <2>2, <2>3, <2>4, <3>3 DEF OfferFits, AddedBy
  <2> QED
    BY <2>5, <2>6
<1> QED
  BY <1>1, <1>7, <1>11, <1>12, <1>13, <1>15, <1>16, EndFollows DEF Jobs

\* The new device takes the place of the old one.
LEMMA InputCommittedFollows ==
  ASSUME NEW w, Core(w), Follows(w), w.job["input"].phase = "replacing",
         Live(w, w.job["input"].new),
         w.job["input"].at = None, Current(w) \subseteq w.job["input"].seen
  PROVE  Follows(InputCommitted(w))
<1> DEFINE at == w.job["input"]
           kind == at.kind
           new == at.new
           old == InStream(w, kind)
           on == [w EXCEPT !.track = [Stopped(@, old) EXCEPT ![new].on = at.on],
                           !.stream = (StreamOf(w) \ old) \cup {new},
                           !.input[kind] = at.on]
           r == Renegotiated(on, at.updates)
<1>1. InputCommitted(w) = Ended(r, "input")
  BY DEF InputCommitted
<1>2. /\ WorldType(w) /\ PeersFit(w) /\ OneOfAKind(w) /\ Exclusive(w) /\ Puts(w, "input")
      /\ JobFits(w, "input") /\ kind \in Kind /\ at.on \in BOOLEAN /\ at.failed = {}
  BY DEF Core, WorldType, Follows, FollowsBut, JobIsFit, JobFits, Busy, Puts, Jobs
<1>3. /\ DOMAIN on = WorldFields /\ on.room = w.room /\ on.peer = w.peer
      /\ on.job = w.job /\ on.share = w.share /\ on.barred = w.barred
      /\ on.stream = (StreamOf(w) \ old) \cup {new}
      /\ on.input = [w.input EXCEPT ![kind] = at.on]
      /\ on.track = [Stopped(w.track, old) EXCEPT ![new].on = at.on]
  BY <1>2 DEF WorldType, WorldFields
<1> HIDE DEF on
<1>4. new \in 1..Tracks /\ new # 0 /\ new \in LiveOf(w.track) /\ w.track[new].kind = kind
  <2>1. new # 0 /\ w.track[new].live
    BY DEF Live
  <2>2. new \in 1..Tracks /\ new \in LiveOf(w.track)
    BY <2>1, <1>2 DEF WorldType, LiveOf
  <2> QED
    BY <2>1, <2>2 DEF Core, KindsFit
<1>5. old \subseteq 1..Tracks /\ StreamOf(w) \subseteq 1..Tracks /\ new \notin old
  BY <1>2, InStreamIs DEF WorldType, StreamOf, JobFits
<1> HIDE DEF old, new, kind, at
<1>6. /\ on.track \in [1..Tracks -> TrackRecord] /\ LiveOf(on.track) = LiveOf(w.track) \ old
      /\ \A t \in LiveOf(on.track) : on.track[t].kind = w.track[t].kind
  <2> DEFINE tr == Stopped(w.track, old)
             to == [tr EXCEPT ![new].on = at.on]
  <2>1. EndedOnly(w.track, tr, old)
    BY <1>2, TracksChange DEF WorldType
  <2> HIDE DEF tr
  <2>2. /\ to \in [1..Tracks -> TrackRecord]
        /\ \A t \in 1..Tracks : to[t].live = tr[t].live /\ to[t].kind = tr[t].kind
    BY <2>1, <1>2, <1>4 DEF EndedOnly, Same, TrackRecord
  <2>3. LiveOf(to) = LiveOf(tr)
    BY <2>1, <2>2 DEF LiveOf, EndedOnly, Same
  <2>4. on.track = to
    BY <1>3 DEF tr
  <2> HIDE DEF to
  <2>5. LiveOf(to) \subseteq 1..Tracks
    BY <2>2 DEF LiveOf
  <2> QED
    BY <2>1, <2>2, <2>3, <2>4, <2>5 DEF EndedOnly, Same
<1>7. WorldType(on)
  <2>1. on.input \in [Kind -> BOOLEAN] /\ on.stream \subseteq 1..Tracks
    BY <1>2, <1>3, <1>4, <1>5 DEF WorldType
  <2> QED
    BY <2>1, <1>2, <1>3, <1>6 DEF WorldType
<1>8. WorldType(r) /\ PeersFit(on) /\ OfferAsked(on, at.updates, r)
  <2>1. PeersFit(on)
    BY <1>2, <1>3 DEF PeersFit
  <2> QED
    BY <2>1, <1>7, RenegotiatedAlike, AlikeFits, RenegotiatedIs
<1> HIDE DEF r
<1>9. StreamOf(r) = (StreamOf(w) \ old) \cup {new} /\ r.track = on.track
  <2>1. (StreamOf(w) \ old) \cup {new} # None
    BY <1>4, <1>5, TracksAssumption
  <2> QED
    BY <2>1, <1>3, <1>8 DEF StreamOf, OfferAsked
<1>10. /\ new \in InStream(r, kind)
       /\ \A l \in Kind \ {kind} : InStream(r, l) = InStream(w, l)
  <2>1. new \in InStream(r, kind)
    BY <1>4, <1>5, <1>6, <1>9 DEF InStream, OfKind
  <2>2. \A t : t \in old => w.track[t].kind = kind
    BY DEF InStream, OfKind, old
  <2>3. ASSUME NEW l \in Kind \ {kind}, NEW t PROVE t \in InStream(r, l) <=> t \in InStream(w, l)
    <3>1. /\ t \in InStream(r, l) <=> t \in StreamOf(r) /\ t \in LiveOf(r.track) /\ r.track[t].kind = l
          /\ t \in InStream(w, l) <=> t \in StreamOf(w) /\ t \in LiveOf(w.track) /\ w.track[t].kind = l
      BY DEF InStream, OfKind
    <3> QED
      BY <2>2, <3>1, <1>4, <1>6, <1>9
  <2> QED
    BY <2>1, <2>3
<1>11. PeersFit(r)
  BY <1>3, <1>8 DEF OfferAsked, PeersFit
<1>12. r.job = w.job /\ r.share = w.share
  BY <1>3, <1>8 DEF OfferAsked
<1>13. kind = "video" => w.share.active = 0 /\ w.job["share"].phase = "none"
  BY DEF Core, InputFits, kind, at
<1>14. OneOfAKind(r)
  <2>1. Lone(w.track, StreamOf(w)) /\ Lone(w.track, w.share.retained)
    BY <1>2 DEF OneOfAKind
  <2>2. Lone(r.track, r.share.retained) /\ Lone(r.track, StreamOf(w) \ old)
    <3>1. \A ts, us : ts \subseteq us /\ Lone(w.track, us) => Lone(r.track, ts)
      BY <1>6, <1>9, LoneStays
    <3> QED
      BY <2>1, <3>1, <1>12
  <2>3. Lone(r.track, StreamOf(r))
    <3>1. \A t \in (StreamOf(w) \ old) \cap LiveOf(r.track) : r.track[t].kind # kind
      BY <1>6, <1>9 DEF InStream, OfKind, old
    <3>2. r.track[new].kind = kind
      BY <1>10 DEF InStream, OfKind
    <3> QED
      BY <2>2, <3>1, <3>2, <1>9 DEF Lone
  <2>4. r.share.active # 0 /\ r.job["share"].phase = "none" => r.share.active \in InStream(r, "video")
    BY <1>2, <1>10, <1>12, <1>13 DEF OneOfAKind, Kind
  <2> QED
    BY <2>2, <2>3, <2>4 DEF OneOfAKind
<1>15. \A l \in Kind \ {kind} : \A s : Fine(w, l, s) => Fine(r, l, s)
  BY <1>6, <1>9, <1>10 DEF Fine
<1>16. JobIsFit(r, "share")
  <2> SUFFICES ASSUME Busy(r, "share")
               PROVE  JobFits(r, "share") /\ \A p \in Peer : LinkFits(r, "share", p)
    BY DEF JobIsFit
  <2>1. /\ w.job["share"].phase = "stopping" /\ Busy(w, "share") /\ ~Puts(w, "share")
        /\ ~Puts(r, "share")
    BY <1>2, <1>12 DEF Exclusive, Busy, Puts, WorldType
  <2>2. kind # "video"
    BY <2>1, <1>13
  <2>3. JobFits(w, "share") /\ \A p \in Peer : LinkFits(w, "share", p)
    BY <2>1 DEF Follows, FollowsBut, JobIsFit, Jobs
  <2>4. \A s : Fine(w, "video", s) => Fine(r, "video", s)
    BY <2>2, <1>15 DEF Kind
  <2>5. JobFits(r, "share")
    BY <2>1, <2>3, <2>4, <1>12 DEF JobFits
  <2>6. ASSUME NEW p \in Peer PROVE LinkFits(r, "share", p)
    <3>1. /\ r.peer[p].n = w.peer[p].n /\ r.peer[p].here = w.peer[p].here
          /\ r.peer[p].sender = w.peer[p].sender
      BY <1>3, <1>8 DEF OfferAsked
    <3>2. Number(r, p) = Number(w, p)
      BY <3>1 DEF Number
    <3> QED
      BY <2>1, <2>3, <3>1, <3>2, <1>12 DEF LinkFits
  <2> QED
    BY <2>5, <2>6
<1>17. ASSUME NEW p \in Peer, NEW k \in Kind, r.peer[p].here
       PROVE  /\ \/ Fine(r, k, r.peer[p].sender[k])
                 \/ \E i \in Jobs \ {"input"} : Covered(r, i, k, Number(r, p))
              /\ r.peer[p].sender[k] # None =>
                   \/ k \in r.peer[p].offered \/ r.peer[p].offers \/ r.peer[p].dropped
                   \/ \E i \in Jobs \ {"input"} : AddedBy(r, i, k, Number(r, p))
  <2>1. /\ w.peer[p].here /\ r.peer[p].sender = w.peer[p].sender /\ r.peer[p].n = w.peer[p].n
        /\ r.peer[p].offered = w.peer[p].offered /\ r.peer[p].dropped = w.peer[p].dropped
        /\ w.peer[p].offers => r.peer[p].offers
        /\ \A u \in at.updates :
             u.added /\ u.c = Number(on, p) /\ w.peer[p].here => r.peer[p].offers
    BY <1>3, <1>8, <1>17 DEF OfferAsked
  <2>2. Number(on, p) = Number(w, p) /\ Number(r, p) = Number(w, p)
    BY <2>1, <1>3 DEF Number
  <2>3. SenderFits(w, p, k, {}) /\ OfferFits(w, p, k)
    BY DEF Follows, FollowsBut
  <2>4. \A i \in Jobs \ {"input"} :
          (Covered(w, i, k, Number(w, p)) => Covered(r, i, k, Number(r, p)))
          /\ (AddedBy(w, i, k, Number(w, p)) => AddedBy(r, i, k, Number(r, p)))
    BY <2>2, <1>12 DEF Covered, AddedBy, Busy
  <2>5. AddedBy(w, "input", k, Number(w, p)) => r.peer[p].offers
    BY <2>1, <2>2 DEF AddedBy, at
  <2>6. OfferFits(w, p, k) =>
          (r.peer[p].sender[k] # None =>
             \/ k \in r.peer[p].offered \/ r.peer[p].offers \/ r.peer[p].dropped
             \/ \E i \in Jobs \ {"input"} : AddedBy(r, i, k, Number(r, p)))
    BY <2>1, <2>4, <2>5 DEF OfferFits, Jobs
  <2>7. CASE k = kind
    <3>1. w.peer[p].sender[kind] = new
      BY <2>1, <1>2, AllSeen DEF Jobs, kind, new, at
    <3> QED
      BY <2>1, <2>3, <2>6, <2>7, <3>1, <1>8, <1>10, FineIs
  <2>8. CASE k # kind
    <3>1. ~Covered(w, "input", k, Number(w, p))
      BY <2>8 DEF Covered, kind, at
    <3>2. \/ Fine(w, k, w.peer[p].sender[k])
          \/ \E i \in Jobs \ {"input"} : Covered(r, i, k, Number(r, p))
      BY <2>1, <2>3, <2>4, <3>1 DEF SenderFits
    <3> QED
      BY <2>1, <2>3, <2>6, <2>8, <3>2, <1>15
  <2> QED
    BY <2>7, <2>8
<1>18. Exclusive(r)
  BY <1>2, <1>12 DEF Exclusive
<1>19. \A i \in Jobs \ {"input"} : JobIsFit(r, i)
  BY <1>16 DEF Jobs
<1> QED
  BY <1>1, <1>8, <1>11, <1>14, <1>17, <1>18, <1>19, EndFollows DEF Jobs

\* Nothing that is said here depends on which tracks are on.
LEMMA SameTracksFollow ==
  ASSUME NEW w, NEW v, Follows(w), v.peer = w.peer, v.room = w.room, v.stream = w.stream,
         LiveOf(v.track) = LiveOf(w.track),
         \A t \in LiveOf(w.track) : v.track[t].kind = w.track[t].kind,
         v.share.retained = w.share.retained, v.share.active = w.share.active,
         \A j \in Jobs : SameJob(w.job[j], v.job[j])
  PROVE  Follows(v)
<1>1. StreamOf(v) = StreamOf(w)
  BY DEF StreamOf
<1>2. \A k : InStream(v, k) = InStream(w, k)
  BY <1>1 DEF InStream, OfKind
<1>3. \A k, s : Fine(v, k, s) <=> Fine(w, k, s)
  BY <1>2 DEF Fine
<1>4. \A ts : Lone(w.track, ts) => Lone(v.track, ts)
  BY LoneStays
<1>5. OneOfAKind(v) /\ Exclusive(v)
  BY <1>1, <1>2, <1>4 DEF Follows, FollowsBut, OneOfAKind, Exclusive, SameJob, Jobs
<1>6. \A j \in Jobs : StaysOut(w, v, w.job[j].put)
  BY <1>2 DEF StaysOut
<1> QED
  BY <1>3, <1>5, <1>6, SceneChanges DEF Follows

\* Cameras that are turned off are live.
LEMMA CamerasOffFollows ==
  ASSUME NEW w, WorldType(w), Follows(w)
  PROVE  /\ Follows(CamerasOff(w))
         /\ CamerasOff(w).job = w.job /\ CamerasOff(w).peer = w.peer
         /\ CamerasOff(w).share = w.share /\ CamerasOff(w).room = w.room
<1> DEFINE v == CamerasOff(w)
           ts == (w.share.retained \cup InStream(w, "video")) \ {w.share.active, w.share.pending}
<1>1. /\ v.room = w.room /\ v.stream = w.stream /\ v.share = w.share /\ v.peer = w.peer
      /\ v.job = w.job /\ v.track = Switched(w.track, ts, FALSE)
  BY DEF CamerasOff, WorldType, WorldFields
<1> HIDE DEF v, ts
<1>2. TurnedOff(w.track, v.track, ts)
  BY <1>1, TracksChange DEF WorldType
<1>3. \A j \in Jobs : SameJob(w.job[j], v.job[j])
  BY <1>1 DEF SameJob
<1>4. Follows(v)
  BY <1>1, <1>2, <1>3, SameTracksFollow DEF TurnedOff, Same
<1> QED
  BY <1>1, <1>4 DEF v

\* The loop of a start or a selection.
LEMMA SweepFollows ==
  ASSUME NEW w, Core(w), Follows(w), NEW j \in Jobs, w.job[j].at = None,
         j = "share" => w.job[j].phase = "starting" /\ OwnsStart(w),
         j = "input" => w.job[j].phase = "replacing" /\ Live(w, w.job[j].new),
         NEW v \in Sweep(w, j)
  PROVE  Follows(v)
<1> DEFINE open == Current(w) \ w.job[j].seen
           bare == {c \in open : Sender(w, c, w.job[j].kind) = None}
<1>1. WorldType(w) /\ Puts(w, j) /\ PeersFit(w)
  BY DEF Core, Puts, Jobs, Follows, FollowsBut
<1>2. CASE open # bare
  <2>1. PICK c \in open \ bare, some \in SUBSET bare : v = Asks(w, j, c, some)
    <3>1. Sweep(w, j) = {Asks(w, j, c, some) : c \in open \ bare, some \in SUBSET bare}
      BY <1>2 DEF Sweep
    <3> HIDE DEF open, bare
    <3> QED
      BY <3>1
  <2>2. /\ some \subseteq {x \in Current(w) \ w.job[j].seen : Sender(w, x, w.job[j].kind) = None}
        /\ c \in Current(w) \ w.job[j].seen /\ Sender(w, c, w.job[j].kind) # None
    OBVIOUS
  <2> HIDE DEF open, bare
  <2> QED
    BY <2>1, <2>2, <1>1, AsksFollow
<1>3. CASE open = bare
  <2> DEFINE a == Adds(w, j, bare)
  <2>1. v = Committed(a, j)
    BY <1>3 DEF Sweep
  <2>2. Follows(a)
    BY <1>1, AddsFollow
  <2>3. Alike(w, a) /\ AddsTo(w, j, bare, a)
    BY <1>1, AddsAlike, AddsIs DEF Puts
  <2>4. Current(w) \subseteq w.job[j].seen \cup bare
    BY <1>3
  <2> HIDE DEF a, open, bare
  <2>5. Core(a) /\ a.room = w.room /\ a.track = w.track /\ a.share = w.share
    BY <2>3, AlikeFits DEF AddsTo, Alike
  <2>6. /\ a.job[j].phase = w.job[j].phase /\ a.job[j].new = w.job[j].new
        /\ a.job[j].at = None /\ a.job[j].seen = w.job[j].seen \cup bare
    BY <2>3, <1>1 DEF AddsTo, WorldType, JobFields
  <2>7. Current(a) = Current(w)
    <3>1. ASSUME NEW p \in Peer PROVE a.peer[p].n = w.peer[p].n /\ a.peer[p].here = w.peer[p].here
      <4>1. PICK y : y = w.peer[p]
        OBVIOUS
      <4>2. y \in ConnectionRecord
        BY <1>1, <4>1 DEF PeersFit
      <4> DEFINE z == [y EXCEPT !.sender[w.job[j].kind] = w.job[j].new]
      <4>3. z.n = y.n /\ z.here = y.here
        BY <4>2 DEF ConnectionRecord
      <4>4. a.peer[p] = y \/ a.peer[p] = z
        BY <2>3, <4>1 DEF AddsTo
      <4> HIDE DEF z
      <4> QED
        BY <4>1, <4>3, <4>4
    <3> QED
      BY <3>1 DEF Current
  <2>8. CASE j = "share"
    <3>1. OwnsStart(a)
      BY <2>5, <2>8 DEF OwnsStart, Live
    <3> QED
      BY <2>1, <2>2, <2>4, <2>5, <2>6, <2>7, <2>8, <3>1, StartCommittedFollows DEF Committed
  <2>9. CASE j = "input"
    <3>1. Live(a, a.job["input"].new)
      BY <2>5, <2>6, <2>9 DEF Live
    <3> QED
      BY <2>1, <2>2, <2>4, <2>5, <2>6, <2>7, <2>9, <3>1, InputCommittedFollows DEF Committed
  <2> QED
    BY <2>8, <2>9 DEF Jobs
<1> QED
  BY <1>2, <1>3

\* The loop of a stop: one connection after the other is asked to send the camera.
LEMMA StopSweepFollows ==
  ASSUME NEW w, Fits(w), Follows(w), w.job["share"].phase = "stopping",
         w.job["share"].at = None, NEW v \in StopSweep(w)
  PROVE  Follows(v)
<1> DEFINE at == w.job["share"]
           open == {c \in at.todo \cap Current(w) : Sender(w, c, "video") # None}
<1>1. /\ Core(w) /\ WorldType(w) /\ PeersFit(w) /\ Busy(w, "share") /\ JobFits(w, "share")
      /\ \A q \in Peer : LinkFits(w, "share", q)
  BY DEF Fits, Core, Follows, FollowsBut, JobIsFit, Busy, Jobs
<1>2. Given(at) = {} /\ at.kind = "video"
  BY <1>1 DEF JobFits, Given
<1>3. \A p \in Peer : w.peer[p].here /\ Number(w, p) \in at.todo => Number(w, p) \in open
  BY <1>1, <1>2, CurrentIs DEF LinkFits
<1>4. open \subseteq at.todo \cap Current(w)
  OBVIOUS
<1>5. CASE open = {}
  <2> DEFINE off == IF w.share.disables THEN CamerasOff(w) ELSE w
             on == [off EXCEPT !.share = [NoShare EXCEPT !.mine = w.share.mine]]
  <2>1. v = Ended(on, "share")
    BY <1>5 DEF StopSweep
  <2>2. /\ Core(off) /\ Follows(off) /\ off.job = w.job /\ off.room = w.room
        /\ off.peer = w.peer
    <3>1. CASE w.share.disables
      BY <3>1, <1>1, CamerasOffFits, CamerasOffFollows DEF Fits, OffFits
    <3>2. CASE ~w.share.disables
      BY <3>2, <1>1
    <3> QED
      BY <3>1, <3>2
  <2> HIDE DEF off
  <2>3. WorldType(off) /\ Busy(off, "share")
    BY <2>2, <1>1 DEF Core, Busy
  <2>4. /\ WorldType(on) /\ on.track = off.track /\ on.room = off.room /\ on.stream = off.stream
        /\ on.peer = off.peer /\ on.job = off.job
        /\ on.share.active = 0 /\ on.share.retained = {}
    BY <2>3 DEF WorldType, WorldFields, ShareFields, NoShare
  <2>5. \A p \in Peer : w.peer[p].here => Number(w, p) \notin at.todo
    BY <1>3, <1>5
  <2>6. (Given(off.job["share"]) \cup off.job["share"].todo) \cap Current(off) = {}
    <3>1. at.todo \cap Current(w) = {}
      BY <2>5, <1>1, CurrentIs
    <3>2. Current(off) = Current(w)
      BY <2>2 DEF Current
    <3> QED
      BY <3>1, <3>2, <1>2, <2>2
  <2> HIDE DEF on
  <2> QED
    BY <2>1, <2>2, <2>3, <2>4, <2>6, ThroughFollows DEF Jobs
<1>6. CASE open # {}
  <2>1. PICK c \in open :
          v = [w EXCEPT !.job["share"].at = c, !.job["share"].todo = open \ {c}]
    BY Zenon, <1>6 DEF StopSweep
  <2>2. /\ v.track = w.track /\ v.room = w.room /\ v.stream = w.stream /\ v.share = w.share
        /\ v.peer = w.peer /\ \A i \in Jobs \ {"share"} : v.job[i] = w.job[i]
        /\ v.job["share"].at = c /\ v.job["share"].seen = at.seen
        /\ v.job["share"].updates = at.updates
        /\ v.job["share"].phase = "stopping" /\ v.job["share"].kind = "video"
        /\ v.job["share"].new = at.new
        /\ v.job["share"].before = at.before /\ v.job["share"].put = at.put
        /\ v.job["share"].todo = open \ {c} /\ v.job["share"].failed = at.failed
    BY <1>1, <1>2, <2>1 DEF WorldType, WorldFields, JobFields, Jobs
  <2> HIDE DEF open, at
  <2>3. /\ \A l, s : Fine(v, l, s) <=> Fine(w, l, s)
        /\ \A l : InStream(v, l) = InStream(w, l)
        /\ \A q \in Peer : Number(v, q) = Number(w, q)
    BY <2>2 DEF Fine, InStream, StreamOf, Number
  <2>4. Names(v.job["share"]) \subseteq Names(at) /\ Given(v.job["share"]) = {}
    BY <2>2, <1>2, <1>4 DEF Names, Given
  <2>5. Busy(v, "share") /\ ~Puts(v, "share") /\ Exclusive(v) /\ PeersFit(v)
    <3>1. \A i \in Jobs : v.job[i].phase = w.job[i].phase
      BY <2>2
    <3> QED
      BY <3>1, <1>1, <2>2 DEF Busy, Puts, Exclusive, Follows, FollowsBut, Jobs, PeersFit
  <2>6. JobFits(v, "share")
    <3>1. Names(v.job["share"]) \subseteq Peer \X Nat
      BY <1>1, <2>4 DEF JobFits, at
    <3> QED
      BY <1>1, <1>2, <2>2, <2>3, <2>4, <2>5, <3>1 DEF JobFits, at, Kind
  <2>7. ASSUME NEW q \in Peer PROVE LinkFits(v, "share", q)
    <3>1. LinkFits(w, "share", q) /\ Number(w, q) # None
      BY <1>1, CurrentIs
    <3> QED
      BY <1>2, <1>4, <2>2, <2>3, <2>4, <2>5, <3>1 DEF LinkFits, at
  <2>8. ASSUME NEW q \in Peer PROVE SenderFits(v, q, "video", {}) /\ OfferFits(v, q, "video")
    <3>1. SenderFits(w, q, "video", {}) /\ OfferFits(w, q, "video") /\ Number(w, q) # None
      BY <1>1, CurrentIs DEF Follows, FollowsBut, Kind
    <3>2. w.peer[q].here =>
            (Covered(w, "share", "video", Number(w, q)) => Covered(v, "share", "video", Number(w, q)))
      <4>1. w.job["share"].at = None
        OBVIOUS
      <4> QED
        BY <3>1, <4>1, <1>2, <1>3, <2>2, <2>5 DEF Covered, at
    <3>3. ~AddedBy(w, "share", "video", Number(w, q))
      BY <1>2 DEF AddedBy, Given, at
    <3>4. \A i \in Jobs \ {"share"} :
             (Covered(w, i, "video", Number(w, q)) => Covered(v, i, "video", Number(w, q)))
             /\ (AddedBy(w, i, "video", Number(w, q)) => AddedBy(v, i, "video", Number(w, q)))
      BY <2>2 DEF Covered, AddedBy, Busy
    <3>5. SenderFits(v, q, "video", {})
      BY <3>1, <3>2, <3>4, <2>2, <2>3 DEF SenderFits, Jobs
    <3> QED
      BY <3>1, <3>3, <3>4, <3>5, <2>2, <2>3 DEF OfferFits, Jobs
  <2>9. KindOnly(w, v, "share")
    BY <1>2, <2>2 DEF KindOnly, at
  <2>10. \A q \in Peer : /\ LinkFits(v, "share", q) /\ SenderFits(v, q, w.job["share"].kind, {})
                         /\ OfferFits(v, q, w.job["share"].kind)
    BY <1>2, <2>7, <2>8 DEF at
  <2> QED
    BY <1>1, <2>5, <2>6, <2>9, <2>10, OthersFollow DEF Jobs
<1> QED
  BY <1>5, <1>6

\* The code goes on.
LEMMA ResumeFollows ==
  ASSUME NEW w, Fits(w), Follows(w), NEW j \in Jobs, Busy(w, j), w.job[j].at = None,
         NEW v \in Resume(w, j)
  PROVE  Follows(v)
<1>1. WorldType(w) /\ Core(w) /\ PeersFit(w) /\ JobFits(w, j)
  BY DEF Fits, Core, Follows, FollowsBut, JobIsFit
<1>2. /\ j = "share" => w.job[j].phase \in {"starting", "stopping", "undoing"}
      /\ j = "input" => w.job[j].phase \in {"replacing", "undoing"}
  BY <1>1 DEF WorldType, Busy
<1>3. ASSUME Puts(w, j), v \in Abandon(w, j) PROVE Follows(v)
  <2>1. SameWork(w.job[j], w.job[j])
    BY DEF SameWork
  <2> QED
    BY <1>1, <1>3, <2>1, AbandonFollows
<1>4. CASE w.job[j].phase = "starting"
  <2>1. j = "share" /\ v \in IF OwnsStart(w) THEN Sweep(w, j) ELSE Abandon(w, j)
    BY <1>2, <1>4 DEF Resume, Jobs
  <2> QED
    BY <1>1, <1>3, <1>4, <2>1, SweepFollows DEF Puts
<1>5. CASE w.job[j].phase = "stopping"
  <2>1. j = "share" /\ v \in IF OwnsStop(w) THEN StopSweep(w) ELSE {Ended(w, j)}
    BY <1>2, <1>5 DEF Resume, Jobs
  <2>2. CASE w.room # "over"
    BY <1>5, <2>1, <2>2, StopSweepFollows DEF OwnsStop
  <2>3. CASE w.room = "over"
    <3>1. v = Ended(w, j)
      BY <2>1, <2>3 DEF OwnsStop
    <3>2. Current(w) = {}
      BY <1>1, <2>3 DEF PeersFit, Current
    <3>3. w.share.active = 0
      BY <1>1, <2>3 DEF Core, ShareFits
    <3> QED
      BY <1>1, <2>1, <3>1, <3>2, <3>3, ThroughFollows
  <2> QED
    BY <2>2, <2>3
<1>6. CASE w.job[j].phase = "replacing"
  <2>1. j = "input" /\ v \in IF w.room = "over" \/ ~Live(w, w.job[j].new) THEN Abandon(w, j)
                             ELSE Sweep(w, j)
    BY <1>2, <1>6 DEF Resume, Jobs
  <2> QED
    BY <1>1, <1>3, <1>6, <2>1, SweepFollows DEF Puts
<1>7. CASE w.job[j].phase = "undoing"
  <2>1. v \in Undo(w, j)
    BY <1>7 DEF Resume
  <2> QED
    BY <1>1, <1>7, <2>1, UndoFollows
<1> QED
  BY <1>2, <1>4, <1>5, <1>6, <1>7 DEF Jobs

-----------------------------------------------------------------------------
(* The steps of the session                                                *)

\* What the connections send fits of a world fits of one that has all it looks at.
LEMMA SameFollows ==
  ASSUME NEW w, Follows(w), NEW v, v.track = w.track, v.room = w.room, v.stream = w.stream,
         v.peer = w.peer, v.share = w.share, v.job = w.job
  PROVE  Follows(v)
<1>1. \A k : InStream(v, k) = InStream(w, k)
  BY DEF InStream, StreamOf
<1>2. \A k, s : Fine(w, k, s) => Fine(v, k, s)
  BY <1>1 DEF Fine
<1>3. OneOfAKind(v) /\ Exclusive(v)
  BY <1>1 DEF Follows, FollowsBut, OneOfAKind, Exclusive, StreamOf
<1>4. \A j \in Jobs : SameJob(w.job[j], v.job[j]) /\ StaysOut(w, v, w.job[j].put)
  BY <1>1 DEF SameJob, StaysOut
<1> QED
  BY <1>2, <1>3, <1>4, SceneChanges DEF Follows

\* The state is the world that the code has made.
LEMMA BecomesFollows ==
  ASSUME NEW w, Follows(w), Becomes(w)
  PROVE  Follows(World)'
<1>1. PICK v : v = World'
  OBVIOUS
<1>2. /\ v.track = track' /\ v.room = room' /\ v.stream = stream' /\ v.peer = peer'
      /\ v.share = share' /\ v.job = job'
  BY <1>1 DEF World
<1>3. Follows(v)
  BY <1>2, SameFollows DEF Becomes
<1> QED
  BY <1>1, <1>3

\* A job that is waited for is at work.
LEMMA WaitingIsBusy ==
  ASSUME NEW w, w = World, Fits(w), NEW j \in Jobs, Waiting(j)
  PROVE  /\ Core(w) /\ WorldType(w) /\ w.job[j].at = job[j].at /\ w.job[j].at # None
         /\ w.job[j].phase = job[j].phase /\ Busy(w, j)
<1>1. Core(w) /\ WorldType(w) /\ w.job = job
  BY WorldIs DEF Fits, Core
<1> QED
  BY <1>1 DEF Waiting, WorldType, Busy

\* The browser has replaced a track.
LEMMA ReplacedFollows ==
  ASSUME Fits(World), Follows(World), NEW j \in Jobs, Replaced(j)
  PROVE  Follows(World)'
<1> DEFINE c == job[j].at
           had == Sender(World, c, job[j].kind)
           before == IF had = 0 /\ j = "share" THEN job[j].before ELSE had
           done == Sends(Arrived(j), c, job[j].kind, job[j].put)
           noted == [done EXCEPT !.job[j].updates =
                       @ \cup {[c |-> c, before |-> before, added |-> FALSE]}]
           on == IF job[j].phase \in {"starting", "replacing"} THEN noted ELSE done
<1>1. PICK v \in Resume(on, j) : Becomes(v)
  BY DEF Replaced
<1>2. Waiting(j) /\ c \in Current(World)
  BY DEF Replaced, Settling
<1>3. PICK w : w = World
  OBVIOUS
<1>4. /\ Fits(w) /\ Follows(w) /\ Core(w) /\ WorldType(w) /\ w.job[j].at = c
      /\ w.job[j].at # None /\ w.job[j].phase = job[j].phase /\ Busy(w, j)
      /\ w.job = job /\ w.peer = peer
  BY <1>2, <1>3, WaitingIsBusy, WorldIs
<1>5. PICK p \in Peer : w.peer[p].here /\ c = Number(w, p)
  BY <1>2, <1>3 DEF Current, Number
<1>6. c[1] = p
  BY <1>5 DEF Number
<1> DEFINE more == [c |-> c, before |-> before, added |-> FALSE]
<1>7. more = Noted(w, j, p)
  BY <1>3, <1>4, <1>6 DEF Noted, Sender
<1>8. PICK a : a = Arrived(j)
  OBVIOUS
<1>9. /\ DOMAIN a = WorldFields /\ a.track = w.track /\ a.room = w.room /\ a.stream = w.stream
      /\ a.share = w.share /\ a.input = w.input /\ a.barred = w.barred /\ a.peer = w.peer
      /\ DOMAIN a.job = Jobs /\ \A i \in Jobs \ {j} : a.job[i] = w.job[i]
      /\ a.job[j] = [w.job[j] EXCEPT !.at = None]
  <2>1. a = [w EXCEPT !.job[j].at = None]
    BY Zenon, <1>3, <1>8 DEF Arrived
  <2> QED
    BY <2>1, <1>4 DEF WorldType, WorldFields
<1>10. PICK b : b = done
  OBVIOUS
<1>11. /\ DOMAIN b = WorldFields /\ b.track = w.track /\ b.room = w.room /\ b.stream = w.stream
       /\ b.share = w.share /\ b.input = w.input /\ b.barred = w.barred
       /\ b.peer = [w.peer EXCEPT ![p].sender[w.job[j].kind] = w.job[j].put]
       /\ DOMAIN b.job = Jobs /\ \A i \in Jobs \ {j} : b.job[i] = w.job[i]
       /\ b.job[j] = [w.job[j] EXCEPT !.at = None]
  <2>1. b = [a EXCEPT !.peer[p].sender[w.job[j].kind] = w.job[j].put]
    BY <1>4, <1>6, <1>8, <1>10 DEF Sends
  <2> HIDE DEF done
  <2> QED
    BY <2>1, <1>9 DEF WorldFields
<1>12. PICK e : e = noted
  BY Zenon
<1>13. /\ DOMAIN e = WorldFields /\ e.track = w.track /\ e.room = w.room /\ e.stream = w.stream
       /\ e.share = w.share /\ e.input = w.input /\ e.barred = w.barred /\ e.peer = b.peer
       /\ DOMAIN e.job = Jobs /\ \A i \in Jobs \ {j} : e.job[i] = w.job[i]
       /\ e.job[j] = [w.job[j] EXCEPT !.at = None, !.updates = w.job[j].updates \cup {Noted(w, j, p)}]
  <2>1. e = [b EXCEPT !.job[j].updates = @ \cup {more}]
    BY Zenon, <1>10, <1>12
  <2> HIDE DEF more
  <2>2. e = [b EXCEPT !.job[j].updates = b.job[j].updates \cup {Noted(w, j, p)}]
    BY <2>1, <1>7
  <2>3. e.job[j] = [b.job[j] EXCEPT !.updates = b.job[j].updates \cup {Noted(w, j, p)}]
    BY <2>2, <1>11 DEF WorldFields
  <2>4. b.job[j].updates = w.job[j].updates
    BY <1>4, <1>11 DEF WorldType, JobFields
  <2>5. e.job[j] = [w.job[j] EXCEPT !.at = None, !.updates = w.job[j].updates \cup {Noted(w, j, p)}]
    BY <2>3, <2>4, <1>11, <1>4 DEF WorldType, JobFields
  <2> QED
    BY <2>2, <2>5, <1>11 DEF WorldFields
<1> HIDE DEF more
<1>14. PICK o : o = on
  BY Zenon
<1>15. o = IF Puts(w, j) THEN e ELSE b
  BY Zenon, <1>4, <1>10, <1>12, <1>14 DEF Puts
<1> DEFINE updates == w.job[j].updates \cup (IF Puts(w, j) THEN {Noted(w, j, p)} ELSE {})
<1>16. o.job[j] = [w.job[j] EXCEPT !.at = None, !.updates = updates]
  <2>1. CASE Puts(w, j)
    BY <2>1, <1>13, <1>15
  <2>2. CASE ~Puts(w, j)
    <3>1. updates = w.job[j].updates
      BY <2>2
    <3> HIDE DEF updates
    <3>2. [w.job[j] EXCEPT !.at = None] = [w.job[j] EXCEPT !.at = None, !.updates = updates]
      BY <3>1, <1>4 DEF WorldType, JobFields
    <3> QED
      BY <2>2, <3>2, <1>11, <1>15
  <2> QED
    BY <2>1, <2>2
<1> HIDE DEF updates
<1>17. /\ DOMAIN o = WorldFields /\ o.track = w.track /\ o.room = w.room /\ o.stream = w.stream
       /\ o.share = w.share /\ o.input = w.input /\ o.barred = w.barred
       /\ o.peer = [w.peer EXCEPT ![p].sender[w.job[j].kind] = w.job[j].put]
       /\ DOMAIN o.job = Jobs /\ \A i \in Jobs \ {j} : o.job[i] = w.job[i]
  BY <1>11, <1>13, <1>15
<1>18. Follows(o)
  <2>1. TrackPut(w, o, j, p, updates)
    BY <1>16, <1>17 DEF TrackPut
  <2>2. w.job[j].at = Number(w, p)
    BY <1>4, <1>5
  <2> QED
    BY <2>1, <2>2, <1>4, <1>5, PutFollows DEF updates
<1>19. DOMAIN o.job[j] = JobFields /\ o.job[j].at = None /\ o.job[j].phase = w.job[j].phase
       /\ o.job[j].kind = w.job[j].kind /\ o.job[j].new = w.job[j].new /\ o.job[j].on = w.job[j].on
  BY <1>4, <1>16 DEF WorldType, JobFields
<1>20. Alike(w, o) /\ o.share = w.share
  BY <1>4, <1>17, <1>19 DEF Alike, WorldType, Busy
<1>21. Fits(o)
  BY <1>4, <1>20, AlikeFits DEF Fits
<1>22. Follows(v)
  <2>1. Busy(o, j) /\ v \in Resume(o, j)
    BY Zenon, <1>1, <1>4, <1>14, <1>19 DEF Busy
  <2> QED
    BY <2>1, <1>18, <1>19, <1>21, ResumeFollows
<1> QED
  BY <1>1, <1>22, BecomesFollows

\* The await ends with nothing put, and what failed is noted.
NothingPut(w, v, j, failed) == v = [w EXCEPT !.job[j].at = None, !.job[j].failed = failed]

\* That is all that happens.
LEMMA WaitEndsIs ==
  ASSUME NEW w, w = World, Fits(w), NEW j \in Jobs, Waiting(j), NEW failed,
         NEW v, NothingPut(w, v, j, failed)
  PROVE  /\ WaitEnds(w, v, j, failed) /\ Fits(v) /\ (Busy(w, j) => Busy(v, j))
         /\ v.job[j].at = None /\ SameWork(w.job[j], v.job[j])
<1>1. WorldType(w)
  BY DEF Fits, Core
<1>2. /\ DOMAIN v = WorldFields /\ v.track = w.track /\ v.room = w.room /\ v.stream = w.stream
      /\ v.share = w.share /\ v.input = w.input /\ v.barred = w.barred /\ v.peer = w.peer
      /\ DOMAIN v.job = Jobs /\ \A i \in Jobs \ {j} : v.job[i] = w.job[i]
  BY <1>1 DEF NothingPut, WorldType, WorldFields
<1>3. v.job[j] = [w.job[j] EXCEPT !.at = None, !.failed = failed]
  BY <1>1 DEF NothingPut, WorldType, WorldFields
<1>4. /\ DOMAIN v.job[j] = JobFields /\ v.job[j].at = None /\ v.job[j].phase = w.job[j].phase
      /\ v.job[j].kind = w.job[j].kind /\ v.job[j].new = w.job[j].new
      /\ v.job[j].on = w.job[j].on /\ v.job[j].before = w.job[j].before
      /\ v.job[j].put = w.job[j].put /\ v.job[j].todo = w.job[j].todo
      /\ v.job[j].seen = w.job[j].seen /\ v.job[j].updates = w.job[j].updates
  BY <1>1, <1>3 DEF WorldType, JobFields
<1>5. Alike(w, v) /\ v.share.disables = w.share.disables
  BY <1>1, <1>2, <1>4 DEF Alike, WorldType
<1>6. Core(w) /\ OffFits(w)
  BY DEF Fits
<1>7. Core(v) /\ OffFits(v)
  BY <1>5, <1>6, AlikeFits
<1>8. Fits(v)
  BY <1>7 DEF Fits
<1> QED
  BY <1>2, <1>4, <1>8, <1>3 DEF WaitEnds, SameWork, Busy

\* The browser refuses to.
LEMMA ReplaceFailsFollow ==
  ASSUME Fits(World), Follows(World), NEW j \in Jobs, ReplaceFails(j)
  PROVE  Follows(World)'
<1> DEFINE c == job[j].at
           failed == [Arrived(j) EXCEPT !.job[j].failed = @ \cup {c}]
<1>1. PICK v \in IF job[j].phase = "replacing" THEN Abandon(failed, j) ELSE Resume(failed, j) :
        Becomes(v)
  BY Zenon DEF ReplaceFails
<1>2. Waiting(j)
  BY Zenon DEF ReplaceFails, Settling
<1>3. PICK w : w = World
  OBVIOUS
<1>4. /\ Fits(w) /\ Follows(w) /\ Core(w) /\ WorldType(w) /\ w.job[j].at = c
      /\ w.job[j].at # None /\ w.job[j].phase = job[j].phase /\ Busy(w, j)
  BY <1>2, <1>3, WaitingIsBusy
<1>5. PICK a : a = Arrived(j)
  OBVIOUS
<1>6. a = [w EXCEPT !.job[j].at = None]
  BY <1>3, <1>5 DEF Arrived
<1>7. PICK b : b = failed
  OBVIOUS
<1> DEFINE fails == w.job[j].failed \cup {w.job[j].at}
<1>8. NothingPut(w, b, j, fails)
  <2>1. b = [a EXCEPT !.job[j].failed = @ \cup {w.job[j].at}]
    BY <1>4, <1>5, <1>7
  <2>2. a.job[j].failed = w.job[j].failed
    BY <1>4, <1>6 DEF WorldType, WorldFields, JobFields
  <2>3. b = [a EXCEPT !.job[j].failed = fails]
    BY <2>1, <2>2
  <2> HIDE DEF fails
  <2> QED
    BY <2>3, <1>4, <1>6 DEF NothingPut, WorldType, WorldFields, JobFields
<1>9. v \in IF job[j].phase = "replacing" THEN Abandon(b, j) ELSE Resume(b, j)
  BY <1>1, <1>7
<1> HIDE DEF fails, failed
<1>10. /\ WaitEnds(w, b, j, fails) /\ Fits(b) /\ Busy(b, j)
       /\ b.job[j].at = None /\ SameWork(w.job[j], b.job[j])
  BY <1>2, <1>3, <1>4, <1>8, WaitEndsIs
<1>11. ASSUME w.job[j].phase = "replacing" PROVE Follows(v)
  <2>1. v \in Abandon(b, j) /\ Puts(w, j)
    BY <1>4, <1>9, <1>11 DEF Puts
  <2>2. /\ b.track = w.track /\ b.room = w.room /\ b.stream = w.stream
        /\ b.share = w.share /\ b.peer = w.peer
        /\ \A i \in Jobs \ {j} : b.job[i] = w.job[i]
    BY <1>10 DEF WaitEnds
  <2>3. b.job[j].failed = w.job[j].failed \/ w.job[j].phase = "replacing"
    BY <1>11
  <2> QED
    BY <1>4, <1>10, <2>1, <2>2, <2>3, AbandonFollows
<1>12. ASSUME w.job[j].phase # "replacing" PROVE Follows(v)
  <2>1. v \in Resume(b, j)
    BY <1>4, <1>9, <1>12
  <2>2. Follows(b)
    BY <1>4, <1>10, <1>12, WaitEndsFollow DEF fails
  <2> QED
    BY <1>10, <2>1, <2>2, ResumeFollows
<1>13. Follows(v)
  BY <1>11, <1>12
<1> QED
  BY <1>1, <1>13, BecomesFollows

\* The connection was closed.
LEMMA ReplaceLostFollows ==
  ASSUME Fits(World), Follows(World), NEW j \in Jobs, ReplaceLost(j)
  PROVE  Follows(World)'
<1>1. PICK v \in Resume(Arrived(j), j) : Becomes(v)
  BY DEF ReplaceLost
<1>2. Waiting(j) /\ job[j].at \notin Current(World)
  BY DEF ReplaceLost, WaitIsClosed
<1>3. PICK w : w = World
  OBVIOUS
<1>4. /\ Fits(w) /\ Follows(w) /\ Core(w) /\ WorldType(w) /\ w.job[j].at \notin Current(w)
      /\ w.job[j].at # None /\ Busy(w, j)
  BY <1>2, <1>3, WaitingIsBusy
<1>5. PICK a : a = Arrived(j)
  OBVIOUS
<1>6. a = [w EXCEPT !.job[j].at = None]
  BY <1>3, <1>5 DEF Arrived
<1>7. NothingPut(w, a, j, w.job[j].failed)
  BY <1>4, <1>6 DEF NothingPut, WorldType, WorldFields, JobFields
<1>8. WaitEnds(w, a, j, w.job[j].failed) /\ Fits(a) /\ Busy(a, j) /\ a.job[j].at = None
  BY <1>2, <1>3, <1>4, <1>7, WaitEndsIs
<1>9. Follows(a)
  BY <1>4, <1>8, WaitEndsFollow
<1>10. Follows(v)
  BY <1>1, <1>5, <1>8, <1>9, ResumeFollows
<1> QED
  BY <1>1, <1>10, BecomesFollows

\* A job is asked for or refused before it has done anything.
LEMMA JobAsked ==
  ASSUME Follows(World), UNCHANGED <<track, room, stream, peer>>,
         share'.active = share.active, share'.retained = share.retained,
         NEW j \in Jobs, \A i \in Jobs \ {j} : job'[i] = job[i],
         job[j].phase \in {"none", "prompt"}, job'[j].phase \in {"none", "prompt"},
         job'["share"].phase = "none" => job["share"].phase = "none" \/ share.active = 0,
         job'["share"].phase = "prompt" => job'["input"].phase = "none",
         job'["input"].phase = "prompt" => job'["share"].phase \notin {"starting", "undoing"}
  PROVE  Follows(World)'
<1>1. PICK w : w = World
  OBVIOUS
<1>2. PICK v : v = World'
  OBVIOUS
<1>3. /\ w.track = track /\ w.room = room /\ w.stream = stream /\ w.peer = peer
      /\ w.share = share /\ w.job = job
  BY <1>1, WorldIs
<1>4. /\ v.track = track /\ v.room = room /\ v.stream = stream /\ v.peer = peer
      /\ v.share = share' /\ v.job = job'
  BY <1>2 DEF World
<1>5. Follows(w)
  BY <1>1
<1>6. \A k : InStream(v, k) = InStream(w, k)
  BY <1>3, <1>4 DEF InStream, StreamOf
<1>7. \A k, s : Fine(w, k, s) => Fine(v, k, s)
  BY <1>3, <1>4, <1>6 DEF Fine
<1>8. OneOfAKind(v)
  BY <1>3, <1>4, <1>5, <1>6 DEF Follows, FollowsBut, OneOfAKind, StreamOf
<1>9. Exclusive(v)
  <2>1. v.job["share"].phase = "starting" \/ v.job["share"].phase = "undoing"
        => v.job["input"].phase \notin {"prompt"}
    BY <1>4
  <2>2. CASE j = "share"
    BY <1>4, <2>2 DEF Exclusive
  <2>3. CASE j = "input"
    BY <1>3, <1>4, <1>5, <2>3 DEF Exclusive, Follows, FollowsBut, Jobs
  <2> QED
    BY <2>2, <2>3 DEF Jobs
<1>10. ASSUME NEW i \in Jobs
       PROVE \/ SameJob(w.job[i], v.job[i]) /\ (Busy(w, i) => StaysOut(w, v, w.job[i].put))
             \/ ~Busy(w, i) /\ JobIsFit(v, i)
  <2>1. CASE i = j
    BY <1>3, <1>4, <2>1 DEF Busy, JobIsFit
  <2>2. CASE i # j
    BY <1>3, <1>4, <1>6, <2>2 DEF SameJob, StaysOut
  <2> QED
    BY <2>1, <2>2
<1>11. Follows(v)
  BY <1>3, <1>4, <1>5, <1>7, <1>8, <1>9, <1>10, SceneChanges DEF Follows
<1> QED
  BY <1>2, <1>11

\* startScreenShare
LEMMA StartShareFollows ==
  ASSUME Fits(World), Follows(World), StartShare
  PROVE  Follows(World)'
<1>1. DOMAIN share = ShareFields /\ DOMAIN job = Jobs
  BY WorldIs DEF Fits, Core, WorldType
<1>2. /\ share'.active = share.active /\ share'.retained = share.retained
      /\ job'["input"] = job["input"] /\ job'["share"].phase = "prompt"
  BY Zenon, <1>1 DEF StartShare, ShareFields, Jobs, NoJob
<1> QED
  BY Zenon, <1>2, JobAsked DEF StartShare, Jobs

\* getDisplayMedia has nothing to give.
LEMMA ShareRefusedFollows ==
  ASSUME Fits(World), Follows(World), ShareRefused
  PROVE  Follows(World)'
<1>1. DOMAIN job = Jobs /\ ShareFits(World) /\ World.job = job /\ World.share = share
  BY WorldIs DEF Fits, Core, WorldType
<1>2. share.active = 0
  BY <1>1 DEF ShareFits, ShareRefused
<1>3. job'["input"] = job["input"] /\ job'["share"].phase = "none"
  BY <1>1 DEF ShareRefused, Jobs, NoJob
<1>4. Exclusive(World)
  BY DEF Follows, FollowsBut
<1>5. job["input"].phase = "none"
  BY <1>1, <1>4 DEF Exclusive, ShareRefused
<1> QED
  BY <1>2, <1>3, <1>5, JobAsked DEF ShareRefused, Jobs

\* getUserMedia refuses.
LEMMA DeviceDeniedFollows ==
  ASSUME Fits(World), Follows(World), DeviceDenied
  PROVE  Follows(World)'
<1>1. DOMAIN job = Jobs
  BY WorldIs DEF Fits, Core, WorldType
<1>2. job'["share"] = job["share"] /\ job'["input"].phase = "none"
  BY <1>1 DEF DeviceDenied, Jobs, NoJob
<1> QED
  BY <1>2, JobAsked DEF DeviceDenied, Jobs

\* select
LEMMA SelectDeviceFollows ==
  ASSUME Fits(World), Follows(World), NEW k \in Kind, SelectDevice(k)
  PROVE  Follows(World)'
<1>1. DOMAIN job = Jobs
  BY WorldIs DEF Fits, Core, WorldType
<1>2. job'["share"] = job["share"] /\ job'["input"].phase = "prompt"
  BY <1>1 DEF SelectDevice, Jobs, NoJob
<1> QED
  BY Zenon, <1>2, JobAsked DEF SelectDevice, Jobs

\* Connections come, go and are replaced, in a room or not.
LEMMA PeersChangeWorld ==
  ASSUME Fits(World), Follows(World), UNCHANGED <<track, stream, share, job>>,
         peer' = [p \in Peer |-> peer'[p]],
         \A p \in Peer : \/ peer'[p] = peer[p]
                         \/ peer'[p] = NoConnection(peer[p].n)
                         \/ peer'[p] = Connection(World, peer[p].n + 1),
         room' # "active" => \A p \in Peer : ~peer'[p].here
  PROVE  Follows(World)'
<1>1. PICK w : w = World
  OBVIOUS
<1>2. PICK v : v = World'
  OBVIOUS
<1>3. /\ w.track = track /\ w.room = room /\ w.stream = stream /\ w.peer = peer
      /\ w.share = share /\ w.job = job
  BY <1>1, WorldIs
<1>4. /\ v.track = track /\ v.room = room' /\ v.stream = stream /\ v.peer = peer'
      /\ v.share = share /\ v.job = job
  BY <1>2 DEF World
<1>5. FollowsBut(w, {}) /\ WorldType(w)
  BY <1>1 DEF Follows, Fits, Core
<1>6. \A p \in Peer : \/ v.peer[p] = w.peer[p] /\ (w.peer[p].here => Number(w, p) \notin {})
                      \/ v.peer[p] = NoConnection(w.peer[p].n)
                      \/ v.peer[p] = Connection(w, w.peer[p].n + 1)
  BY <1>1, <1>3, <1>4
<1>7. v.peer = [p \in Peer |-> v.peer[p]] /\ (v.room # "active" => \A p \in Peer : ~v.peer[p].here)
  BY <1>4
<1>8. Follows(v)
  BY <1>3, <1>4, <1>5, <1>6, <1>7, PeersChange
<1> QED
  BY <1>2, <1>8

\* A participant comes or gets another connection.
LEMMA PeerComesFollows ==
  ASSUME Fits(World), Follows(World), NEW p \in Peer, PeerComes(p) \/ PeerReplaced(p)
  PROVE  Follows(World)'
<1>1. /\ peer \in [Peer -> ConnectionRecord]
      /\ room # "active" => \A q \in Peer : ~peer[q].here
  BY WorldIs DEF Follows, FollowsBut, PeersFit
<1>2. PICK c : c = Connection(World, peer[p].n + 1)
  OBVIOUS
<1>3. room = "active" /\ peer' = [peer EXCEPT ![p] = c]
  BY <1>1, <1>2 DEF PeerComes, PeerReplaced
<1>4. peer' = [q \in Peer |-> peer'[q]]
  BY <1>1, <1>3
<1>5. UNCHANGED <<track, room, stream, share, job>>
  BY DEF PeerComes, PeerReplaced
<1>6. \A q \in Peer : peer'[q] = peer[q] \/ peer'[q] = Connection(World, peer[q].n + 1)
  BY <1>1, <1>2, <1>3
<1> QED
  BY <1>3, <1>4, <1>5, <1>6, PeersChangeWorld

\* A participant goes.
LEMMA PeerGoesFollows ==
  ASSUME Fits(World), Follows(World), NEW p \in Peer, PeerGoes(p)
  PROVE  Follows(World)'
<1>1. /\ peer \in [Peer -> ConnectionRecord]
      /\ room # "active" => \A q \in Peer : ~peer[q].here
  BY WorldIs DEF Follows, FollowsBut, PeersFit
<1>2. PICK c : c = NoConnection(peer[p].n)
  OBVIOUS
<1>3. peer[p].here /\ peer' = [peer EXCEPT ![p] = c]
  BY <1>1, <1>2 DEF PeerGoes
<1>4. peer' = [q \in Peer |-> peer'[q]]
  BY <1>1, <1>3
<1>5. UNCHANGED <<track, room, stream, share, job>> /\ room = "active"
  BY <1>1, <1>3 DEF PeerGoes
<1>6. \A q \in Peer : peer'[q] = peer[q] \/ peer'[q] = NoConnection(peer[q].n)
  BY <1>1, <1>2, <1>3
<1> QED
  BY <1>4, <1>5, <1>6, PeersChangeWorld

\* The signaling is lost, or the room joined again.
LEMMA DropFollows ==
  ASSUME Fits(World), Follows(World), Drop \/ \E ps \in SUBSET Peer : Rejoin(ps)
  PROVE  Follows(World)'
<1>1. /\ peer \in [Peer -> ConnectionRecord]
      /\ room # "active" => \A q \in Peer : ~peer[q].here
  BY WorldIs DEF Follows, FollowsBut, PeersFit
<1>2. CASE Drop
  <2>1. \A q \in Peer : peer'[q] = NoConnection(peer[q].n)
    BY <1>2 DEF Drop
  <2>2. /\ peer' = [q \in Peer |-> NoConnection(peer[q].n)]
        /\ UNCHANGED <<track, stream, share, job>>
    BY <1>2 DEF Drop
  <2>3. peer' = [q \in Peer |-> peer'[q]]
    BY <2>2
  <2>4. ASSUME NEW q \in Peer PROVE ~peer'[q].here
    <3>1. PICK n : n = peer[q].n
      OBVIOUS
    <3>2. ~NoConnection(n).here
      BY DEF NoConnection
    <3> QED
      BY <2>1, <3>1, <3>2
  <2> QED
    BY <2>1, <2>2, <2>3, <2>4, PeersChangeWorld
<1>3. ASSUME NEW ps \in SUBSET Peer, Rejoin(ps) PROVE Follows(World)'
  <2>1. \A q \in Peer : peer'[q] = peer[q] \/ peer'[q] = Connection(World, peer[q].n + 1)
    BY <1>3 DEF Rejoin
  <2>2. peer' = [q \in Peer |-> peer'[q]] /\ UNCHANGED <<track, stream, share, job>>
        /\ room' = "active"
    BY <1>3, <2>1 DEF Rejoin
  <2> QED
    BY <2>1, <2>2, PeersChangeWorld
<1> QED
  BY <1>2, <1>3

\* drainRenegotiation
LEMMA OfferFollows ==
  ASSUME Fits(World), Follows(World), NEW p \in Peer, Offer(p)
  PROVE  Follows(World)'
<1>1. PICK w : w = World
  OBVIOUS
<1>2. PICK v : v = World'
  OBVIOUS
<1>3. /\ w.track = track /\ w.room = room /\ w.stream = stream /\ w.peer = peer
      /\ w.share = share /\ w.job = job
  BY <1>1, WorldIs
<1>4. /\ v.track = track /\ v.room = room /\ v.stream = stream /\ v.peer = peer'
      /\ v.share = share /\ v.job = job
  BY <1>2 DEF World, Offer
<1>5. Follows(w)
  BY <1>1
<1>6. peer \in [Peer -> ConnectionRecord]
  BY <1>3, <1>5 DEF Follows, FollowsBut, PeersFit
<1> DEFINE said == {k \in Kind : peer[p].sender[k] # None}
<1>7. \A q \in Peer :
        /\ v.peer[q].n = w.peer[q].n /\ v.peer[q].here = w.peer[q].here
        /\ v.peer[q].sender = w.peer[q].sender /\ v.peer[q] \in ConnectionRecord
        /\ v.peer[q] = w.peer[q] \/ (v.peer[q].offered = said /\ q = p)
  <2>1. peer' = [peer EXCEPT ![p].offers = FALSE, ![p].dropped = FALSE, ![p].offered = said]
    BY DEF Offer
  <2>2. said \in SUBSET Kind
    OBVIOUS
  <2> HIDE DEF said
  <2>3. peer' = [peer EXCEPT ![p] = [peer[p] EXCEPT !.offers = FALSE, !.dropped = FALSE,
                                                    !.offered = said]]
    BY <2>1, <1>6 DEF ConnectionRecord
  <2>4. PICK c : c = [peer[p] EXCEPT !.offers = FALSE, !.dropped = FALSE, !.offered = said]
    OBVIOUS
  <2>5. /\ c \in ConnectionRecord /\ c.n = peer[p].n /\ c.here = peer[p].here
        /\ c.sender = peer[p].sender /\ c.offered = said
    BY <1>6, <2>2, <2>4 DEF ConnectionRecord
  <2>6. peer' = [peer EXCEPT ![p] = c]
    BY <2>3, <2>4
  <2> QED
    BY <1>3, <1>4, <1>6, <2>5, <2>6
<1>8. v.peer \in [Peer -> ConnectionRecord]
  <2>1. peer' = [q \in Peer |-> peer'[q]]
    BY Zenon, <1>6 DEF Offer
  <2> QED
    BY <1>4, <1>7, <2>1
<1>9. /\ \A k, s : Fine(v, k, s) <=> Fine(w, k, s)
      /\ \A k : InStream(v, k) = InStream(w, k)
      /\ StreamOf(v) = StreamOf(w)
      /\ \A q \in Peer : Number(v, q) = Number(w, q)
  BY <1>3, <1>4, <1>7 DEF Fine, InStream, StreamOf, Number
<1>10. PeersFit(v) /\ OneOfAKind(v) /\ Exclusive(v)
  BY <1>3, <1>4, <1>5, <1>7, <1>8, <1>9 DEF Follows, FollowsBut, PeersFit, OneOfAKind, Exclusive
<1>11. ASSUME NEW j \in Jobs, Busy(v, j) PROVE JobFits(v, j) /\ \A q \in Peer : LinkFits(v, j, q)
  <2>1. Busy(w, j) /\ JobFits(w, j) /\ \A q \in Peer : LinkFits(w, j, q)
    BY <1>3, <1>4, <1>5, <1>11 DEF Busy, JobIsFit, Follows, FollowsBut
  <2>2. v.job = w.job /\ (Puts(v, j) <=> Puts(w, j))
    BY <1>3, <1>4 DEF Puts
  <2>3. JobFits(v, j)
    BY <1>9, <2>1, <2>2 DEF JobFits
  <2> QED
    BY ZenonT(40), <1>7, <1>9, <2>1, <2>2, <2>3 DEF LinkFits
<1>12. ASSUME NEW q \in Peer, NEW k \in Kind PROVE SenderFits(v, q, k, {}) /\ OfferFits(v, q, k)
  <2>1. SenderFits(w, q, k, {}) /\ OfferFits(w, q, k)
    BY <1>5 DEF Follows, FollowsBut
  <2>2. \A j \in Jobs : (Covered(v, j, k, Number(v, q)) <=> Covered(w, j, k, Number(w, q)))
                        /\ (AddedBy(v, j, k, Number(v, q)) <=> AddedBy(w, j, k, Number(w, q)))
    BY <1>3, <1>4, <1>9 DEF Covered, AddedBy, Busy
  <2>3. SenderFits(v, q, k, {})
    BY <1>7, <1>9, <2>1, <2>2 DEF SenderFits
  <2> QED
    BY <1>3, <1>7, <1>9, <2>1, <2>2, <2>3 DEF OfferFits
<1>13. Follows(v)
  BY <1>10, <1>11, <1>12 DEF Follows, FollowsBut, JobIsFit
<1> QED
  BY <1>2, <1>13

\* #terminate: there is nothing left to send, and nobody to send it to.
LEMMA LeaveFollows ==
  ASSUME Fits(World), Follows(World), Leave
  PROVE  Follows(World)'
<1>1. PICK w : w = World
  OBVIOUS
<1>2. PICK v : v = World'
  OBVIOUS
<1>3. /\ Follows(w) /\ WorldType(w) /\ AllOwned(w) /\ w.job = job /\ w.track = track
      /\ w.peer = peer
  BY <1>1, WorldIs DEF Fits, Core
<1>4. /\ v.track = Stopped(w.track, Owned(w)) /\ v.room = "over" /\ v.job = w.job
      /\ v.share = NoShare /\ v.stream = None
  BY <1>1, <1>2, <1>3 DEF World, Leave
<1>5. LiveOf(v.track) = {}
  <2>1. EndedOnly(w.track, Stopped(w.track, Owned(w)), Owned(w))
    BY <1>3, TracksChange DEF WorldType
  <2>2. EndedOnly(w.track, v.track, Owned(w))
    BY <2>1, <1>4, Zenon
  <2> QED
    BY <2>2, <1>3 DEF EndedOnly, Same, AllOwned
<1>6. \A k : InStream(v, k) = {}
  BY <1>5 DEF InStream, OfKind
<1>7. \A k, s : Fine(v, k, s)
  BY <1>5, <1>6 DEF Fine
<1>8. w.peer \in [Peer -> ConnectionRecord]
  BY <1>3 DEF Follows, FollowsBut, PeersFit
<1>9. v.peer = [p \in Peer |-> NoConnection(w.peer[p].n)]
  BY <1>2, <1>3 DEF World, Leave
<1>10. ASSUME NEW p \in Peer
       PROVE v.peer[p] \in ConnectionRecord /\ v.peer[p].n = w.peer[p].n /\ ~v.peer[p].here
  <2>1. PICK n : n = w.peer[p].n
    OBVIOUS
  <2>2. n \in Nat
    BY <1>8, <2>1 DEF ConnectionRecord
  <2>3. NoConnection(n) \in ConnectionRecord /\ NoConnection(n).n = n /\ ~NoConnection(n).here
    BY <2>2 DEF NoConnection, ConnectionRecord
  <2>4. v.peer[p] = NoConnection(n)
    BY <1>9, <2>1
  <2> QED
    BY <2>1, <2>3, <2>4
<1>11. PeersFit(v)
  <2>1. v.peer = [p \in Peer |-> v.peer[p]]
    BY <1>9
  <2> QED
    BY <1>10, <2>1 DEF PeersFit
<1>12. OneOfAKind(v)
  <2>1. v.share.active = 0
    BY <1>4 DEF NoShare
  <2> QED
    BY <1>5, <2>1 DEF OneOfAKind, Lone
<1>13. Exclusive(v)
  BY <1>3, <1>4 DEF Follows, FollowsBut, Exclusive
<1>14. ASSUME NEW j \in Jobs, Busy(v, j) PROVE JobFits(v, j) /\ \A p \in Peer : LinkFits(v, j, p)
  <2>1. Busy(w, j) /\ JobFits(w, j) /\ \A p \in Peer : LinkFits(w, j, p)
    BY <1>3, <1>4, <1>14 DEF Busy, JobIsFit, Follows, FollowsBut
  <2>2. Puts(v, j) <=> Puts(w, j)
    BY <1>4 DEF Puts
  <2>3. JobFits(v, j)
    BY <1>4, <1>6, <1>7, <2>1, <2>2 DEF JobFits
  <2> QED
    BY <1>4, <1>10, <2>1, <2>3 DEF LinkFits
<1>15. \A p \in Peer, k \in Kind : SenderFits(v, p, k, {}) /\ OfferFits(v, p, k)
  BY <1>10 DEF SenderFits, OfferFits
<1>16. Follows(v)
  BY <1>11, <1>12, <1>13, <1>14, <1>15 DEF Follows, FollowsBut, JobIsFit
<1> QED
  BY <1>2, <1>16

\* Tracks end, and the stream is without them.
LEMMA EndedFollows ==
  ASSUME NEW w, WorldType(w), Follows(w), NEW v, NEW ts, EndedOnly(w.track, v.track, ts),
         v.peer = w.peer, v.room = w.room, v.job = w.job, v.share.active = w.share.active,
         v.share.retained \subseteq w.share.retained,
         StreamOf(v) \subseteq StreamOf(w), StreamOf(w) \subseteq StreamOf(v) \cup ts,
         w.job["share"].phase = "none" => w.share.active \notin ts
  PROVE  Follows(v)
<1>1. OneOfAKind(w) /\ Exclusive(w)
  BY DEF Follows, FollowsBut
<1>2. /\ LiveOf(v.track) = LiveOf(w.track) \ ts
      /\ \A t \in LiveOf(v.track) : v.track[t].kind = w.track[t].kind
  BY DEF EndedOnly, Same
<1>3. ASSUME NEW k PROVE InStream(v, k) = InStream(w, k) \ ts
  <2> SUFFICES ASSUME NEW t PROVE t \in InStream(v, k) <=> t \in InStream(w, k) \ ts
    OBVIOUS
  <2>1. t \in InStream(v, k) <=> t \in StreamOf(v) /\ t \in LiveOf(v.track) /\ v.track[t].kind = k
    BY DEF InStream, OfKind
  <2>2. t \in InStream(w, k) <=> t \in StreamOf(w) /\ t \in LiveOf(w.track) /\ w.track[t].kind = k
    BY DEF InStream, OfKind
  <2> QED
    BY <1>2, <2>1, <2>2
<1>4. ASSUME NEW k \in Kind, NEW s, Fine(w, k, s) PROVE Fine(v, k, s)
  <2>1. CASE InStream(w, k) = {}
    BY <1>2, <1>3, <1>4, <2>1 DEF Fine
  <2>2. CASE s \in InStream(w, k) /\ s \notin ts
    BY <1>3, <2>2 DEF Fine
  <2>3. CASE s \in InStream(w, k) /\ s \in ts
    <3>1. \A t \in InStream(w, k) : t = s
      BY <1>1, <2>3, OneIs
    <3>2. InStream(v, k) = {} /\ s \notin LiveOf(v.track)
      BY <1>2, <1>3, <2>3, <3>1
    <3> QED
      BY <3>2 DEF Fine
  <2> QED
    BY <1>4, <2>1, <2>2, <2>3 DEF Fine
<1>5. \A us, xs : us \subseteq xs /\ Lone(w.track, xs) => Lone(v.track, us)
  BY <1>2, LoneStays
<1>6. OneOfAKind(v)
  BY <1>1, <1>3, <1>5 DEF OneOfAKind
<1>7. Exclusive(v)
  BY <1>1 DEF Exclusive
<1>8. \A j \in Jobs : SameJob(w.job[j], v.job[j]) /\ StaysOut(w, v, w.job[j].put)
  BY <1>3 DEF SameJob, StaysOut
<1> QED
  BY <1>4, <1>6, <1>7, <1>8, SceneChanges DEF Follows

\* The same in the state of the session.
LEMMA TrackEndsFollows ==
  ASSUME Fits(World), Follows(World), NEW ts, track' = Stopped(track, ts),
         UNCHANGED <<room, peer, job>>,
         \/ UNCHANGED <<stream, share>>
         \/ /\ stream' = IF stream = None THEN None ELSE stream \ ts
            /\ share' = [share EXCEPT !.retained = @ \ ts],
         job["share"].phase = "none" => share.active \notin ts
  PROVE  Follows(World)'
<1>1. PICK v : v = World'
  OBVIOUS
<1>2. PICK w : w = World
  OBVIOUS
<1>3. WorldType(w) /\ Follows(w) /\ w.share = share /\ w.job = job
      /\ w.track = track /\ w.stream = stream /\ w.room = room /\ w.peer = peer
  BY <1>2, WorldIs DEF Fits, Core
<1>4. /\ v.track = track' /\ v.room = w.room /\ v.stream = stream'
      /\ v.share = share' /\ v.job = w.job /\ v.peer = w.peer
  BY <1>1, <1>3 DEF World
<1>5. EndedOnly(w.track, v.track, ts)
  <2>1. EndedOnly(w.track, Stopped(w.track, ts), ts)
    BY <1>3, TracksChange DEF WorldType
  <2>2. v.track = Stopped(w.track, ts)
    BY <1>3, <1>4
  <2> QED
    BY <2>1, <2>2, Zenon
<1>6. StreamOf(v) \subseteq StreamOf(w) /\ StreamOf(w) \subseteq StreamOf(v) \cup ts
  <2>1. w.stream = None \/ w.stream \subseteq 1..Tracks
    BY <1>3 DEF WorldType
  <2>2. CASE UNCHANGED <<stream, share>>
    BY <2>2, <1>3, <1>4 DEF StreamOf
  <2>3. CASE stream' = IF stream = None THEN None ELSE stream \ ts
    <3>1. stream # None => stream \ ts \in SUBSET (1..Tracks)
      BY <2>1, <1>3, TracksAssumption
    <3> QED
      BY <2>3, <3>1, <1>3, <1>4, TracksAssumption DEF StreamOf
  <2> QED
    BY <2>2, <2>3
<1>7. v.share.active = w.share.active /\ v.share.retained \subseteq w.share.retained
  <2>1. DOMAIN w.share = ShareFields
    BY <1>3 DEF WorldType
  <2> QED
    BY <2>1, <1>3, <1>4 DEF ShareFields
<1>8. w.job["share"].phase = "none" => w.share.active \notin ts
  BY <1>3
<1>9. Follows(v)
  BY <1>3, <1>4, <1>5, <1>6, <1>7, <1>8, EndedFollows
<1> QED
  BY <1>1, <1>9

\* A stop has begun: the screen is still what is sent, until each connection has
\* what is to take its place.
LEMMA StoppingFollows ==
  ASSUME NEW w, Core(w), Follows(w), w.share.active # 0, w.job["share"].phase = "none",
         NEW y, WorldType(y), Stopping(w, y)
  PROVE  Follows(y)
<1> DEFINE a == w.share.active
           cameras == OfKind(w.track, w.share.retained, "video")
           at == y.job["share"]
<1>1. /\ WorldType(w) /\ PeersFit(w) /\ OneOfAKind(w) /\ InputFits(w) /\ KindsFit(w)
      /\ JobIsFit(w, "input")
      /\ \A p \in Peer, k \in Kind : SenderFits(w, p, k, {}) /\ OfferFits(w, p, k)
  BY DEF Core, Follows, FollowsBut, Jobs
<1>2. /\ LiveOf(y.track) = LiveOf(w.track) \ {a}
      /\ \A t \in LiveOf(y.track) : y.track[t].kind = w.track[t].kind
      /\ StreamOf(y) = (StreamOf(w) \ {a}) \cup cameras
      /\ y.room = w.room /\ y.peer = w.peer /\ y.share.active = a
      /\ y.share.retained = w.share.retained /\ y.job["input"] = w.job["input"]
  BY DEF Stopping
<1>3. /\ at.phase = "stopping" /\ at.kind = "video" /\ at.new = 0 /\ at.before = 0
      /\ at.put = One(cameras) /\ at.at = None /\ at.todo = Current(w) /\ at.seen = {}
      /\ at.updates = {} /\ at.failed = {}
  BY DEF Stopping
<1>4. a \in InStream(w, "video") /\ \A t \in InStream(w, "video") : t = a
  BY <1>1, OneIs DEF OneOfAKind
<1>5. a \in LiveOf(w.track) /\ a \notin cameras /\ cameras \subseteq LiveOf(w.track)
      /\ \A t \in cameras : t \in w.share.retained /\ w.track[t].kind = "video"
  BY <1>1, <1>4, InStreamIs DEF KindsFit, OfKind
<1> HIDE DEF cameras, at
<1>6. InStream(y, "video") = cameras
  <2> SUFFICES ASSUME NEW t PROVE t \in InStream(y, "video") <=> t \in cameras
    OBVIOUS
  <2>1. t \in InStream(y, "video") <=>
          t \in StreamOf(y) /\ t \in LiveOf(y.track) /\ y.track[t].kind = "video"
    BY DEF InStream, OfKind
  <2>2. t \in StreamOf(w) /\ t \in LiveOf(w.track) /\ w.track[t].kind = "video" => t = a
    BY <1>4 DEF InStream, OfKind
  <2> QED
    BY <1>2, <1>5, <2>1, <2>2
<1>7. InStream(y, "audio") = InStream(w, "audio")
  <2> SUFFICES ASSUME NEW t PROVE t \in InStream(y, "audio") <=> t \in InStream(w, "audio")
    OBVIOUS
  <2>1. t \in InStream(y, "audio") <=>
          t \in StreamOf(y) /\ t \in LiveOf(y.track) /\ y.track[t].kind = "audio"
    BY DEF InStream, OfKind
  <2>2. t \in InStream(w, "audio") <=>
          t \in StreamOf(w) /\ t \in LiveOf(w.track) /\ w.track[t].kind = "audio"
    BY DEF InStream, OfKind
  <2>3. w.track[a].kind = "video"
    BY <1>4 DEF InStream, OfKind
  <2> QED
    BY <1>2, <1>5, <2>1, <2>2, <2>3
<1>8. \A s : Fine(w, "audio", s) => Fine(y, "audio", s)
  BY <1>2, <1>7 DEF Fine
<1>9. PeersFit(y) /\ Exclusive(y)
  BY <1>1, <1>2, <1>3 DEF PeersFit, Exclusive, at
<1>10. OneOfAKind(y)
  <2>1. \A ts, us : ts \subseteq us /\ Lone(w.track, us) => Lone(y.track, ts)
    BY <1>2, LoneStays
  <2>2. Lone(y.track, w.share.retained) /\ Lone(y.track, StreamOf(w))
    BY <1>1, <2>1 DEF OneOfAKind
  <2>3. ASSUME NEW t \in StreamOf(y) \cap LiveOf(y.track), NEW u \in StreamOf(y) \cap LiveOf(y.track),
               y.track[t].kind = y.track[u].kind
        PROVE  t = u
    <3>1. CASE t \in cameras
      <4>1. u \in InStream(y, "video")
        BY <1>2, <1>5, <2>3, <3>1 DEF InStream, OfKind
      <4> QED
        BY <1>5, <1>6, <2>2, <2>3, <3>1, <4>1 DEF Lone
    <3>2. CASE u \in cameras
      <4>1. t \in InStream(y, "video")
        BY <1>2, <1>5, <2>3, <3>2 DEF InStream, OfKind
      <4> QED
        BY <1>5, <1>6, <2>2, <2>3, <3>2, <4>1 DEF Lone
    <3>3. CASE t \notin cameras /\ u \notin cameras
      BY <1>2, <2>2, <2>3, <3>3 DEF Lone
    <3> QED
      BY <3>1, <3>2, <3>3
  <2> QED
    BY <1>2, <1>3, <2>2, <2>3 DEF OneOfAKind, Lone, at
<1>11. JobIsFit(y, "share")
  <2>1. Fine(y, "video", at.put) /\ at.put \in Track
    <3>1. CASE cameras = {}
      BY <1>1, <1>2, <1>3, <1>6, <3>1, InStreamIs DEF One, Fine, Track
    <3>2. CASE cameras # {}
      <4>1. One(cameras) \in cameras
        BY <3>2 DEF One
      <4>2. cameras \subseteq 1..Tracks
        BY <1>1, <1>5, InStreamIs
      <4> QED
        BY <1>3, <1>6, <3>2, <4>1, <4>2 DEF Fine, Track
    <3> QED
      BY <3>1, <3>2
  <2>2. Current(w) \subseteq Peer \X Nat
    BY <1>1, CurrentIs
  <2>3. Given(at) = {} /\ Names(at) = Current(w)
    BY <1>3 DEF Given, Names
  <2>4. JobFits(y, "share")
    BY <1>3, <2>1, <2>2, <2>3 DEF JobFits, at, Kind, Track, Puts
  <2>5. ASSUME NEW p \in Peer PROVE LinkFits(y, "share", p)
    <3>1. y.peer[p] = w.peer[p] /\ w.peer[p].n \in Nat
      BY <1>1, <1>2 DEF PeersFit, ConnectionRecord
    <3>2. \A m \in Nat : <<p, m>> \in Current(w) => m = w.peer[p].n
      BY DEF Current
    <3>3. w.peer[p].here => w.peer[p].sender["video"] # None
      <4>1. SenderFits(w, p, "video", {})
        BY <1>1 DEF Kind
      <4>2. \A j \in Jobs : ~Covered(w, j, "video", Number(w, p))
        BY <1>1 DEF Covered, Busy, InputFits, Jobs
      <4>3. None \notin InStream(w, "video")
        BY <1>1, InStreamIs
      <4> QED
        BY <1>4, <4>1, <4>2, <4>3 DEF SenderFits, Fine
    <3>4. ~Puts(y, "share")
      BY <1>3 DEF Puts, at
    <3>5. /\ y.job["share"].kind = "video"
          /\ \A m \in Nat : <<p, m>> \in Names(y.job["share"]) => m <= y.peer[p].n
      BY <1>3, <2>3, <3>1, <3>2 DEF at
    <3> QED
      BY <3>1, <3>3, <3>4, <3>5 DEF LinkFits
  <2> QED
    BY <2>4, <2>5 DEF JobIsFit
<1>12. JobIsFit(y, "input")
  <2> SUFFICES ASSUME Busy(y, "input")
               PROVE  JobFits(y, "input") /\ \A p \in Peer : LinkFits(y, "input", p)
    BY DEF JobIsFit
  <2>1. Busy(w, "input") /\ JobFits(w, "input") /\ \A p \in Peer : LinkFits(w, "input", p)
    BY <1>1, <1>2 DEF Busy, JobIsFit
  <2>2. w.job["input"].kind = "audio" /\ (Puts(y, "input") <=> Puts(w, "input"))
    BY <1>1, <1>2, <2>1 DEF Busy, InputFits, JobFits, Kind, Puts
  <2>3. Puts(w, "input") => \A k \in Kind : w.job["input"].new \notin InStream(y, k)
    <3>1. w.job["input"].new \notin cameras
      BY <1>1, <1>5, <2>2 DEF KindsFit
    <3> QED
      BY <1>6, <1>7, <2>1, <3>1 DEF JobFits, Kind
  <2>4. JobFits(y, "input")
    BY <1>2, <1>8, <2>1, <2>2, <2>3 DEF JobFits
  <2>5. ASSUME NEW p \in Peer PROVE LinkFits(y, "input", p)
    <3>1. LinkFits(w, "input", p) /\ Number(y, p) = Number(w, p) /\ y.peer[p] = w.peer[p]
      BY <1>2, <2>1 DEF Number
    <3> QED
      BY <1>2, <1>8, <2>2, <3>1 DEF LinkFits
  <2> QED
    BY <2>4, <2>5
<1>13. ASSUME NEW p \in Peer, NEW k \in Kind PROVE SenderFits(y, p, k, {}) /\ OfferFits(y, p, k)
  <2>1. SenderFits(w, p, k, {}) /\ OfferFits(w, p, k)
    BY <1>1
  <2>2. Number(y, p) = Number(w, p) /\ y.peer[p] = w.peer[p]
    BY <1>2 DEF Number
  <2>3. \A j \in Jobs : (Covered(w, j, k, Number(w, p)) => Covered(y, j, k, Number(w, p)))
                        /\ (AddedBy(w, j, k, Number(w, p)) => AddedBy(y, j, k, Number(w, p)))
    BY <1>2 DEF Covered, AddedBy, Busy, Jobs
  <2>4. OfferFits(y, p, k)
    BY <2>1, <2>2, <2>3 DEF OfferFits
  <2>5. CASE k = "audio"
    BY <1>8, <2>1, <2>2, <2>3, <2>4, <2>5 DEF SenderFits
  <2>6. CASE k = "video"
    <3>1. w.peer[p].here => Covered(y, "share", "video", Number(w, p))
      BY <1>3, CurrentIs, <1>1 DEF Covered, Busy, at, Current, Number
    <3> QED
      BY <2>2, <2>4, <2>6, <3>1 DEF SenderFits, Jobs
  <2> QED
    BY <2>5, <2>6 DEF Kind
<1> QED
  BY <1>9, <1>10, <1>11, <1>12, <1>13 DEF Follows, FollowsBut, Jobs

\* A stop begins.
LEMMA BeginStopFollows ==
  ASSUME NEW w, Core(w), Follows(w), w.room # "over", w.share.active # 0,
         w.job["share"].phase = "none", NEW disables \in BOOLEAN, NoWish(w),
         \A k \in w.barred : k # "video" => Off(w, k), ~disables => OffFits(w),
         NEW v \in BeginStop(w, disables)
  PROVE  Follows(v)
<1> DEFINE y == WhenStopping(w, disables)
<1>1. v \in StopSweep(y)
  BY DEF BeginStop, WhenStopping
<1> HIDE DEF y
<1>2. Fits(y) /\ Stopping(w, y)
  BY StoppingFits DEF y
<1>3. y.job["share"].phase = "stopping" /\ y.job["share"].at = None
  BY <1>2 DEF Stopping
<1>4. WorldType(y)
  BY <1>2 DEF Fits, Core
<1>5. Follows(y)
  BY <1>2, <1>4, StoppingFollows
<1> QED
  BY <1>1, <1>2, <1>3, <1>5, StopSweepFollows

\* Cameras that are off are tracks as they were.
LEMMA CamerasOffType ==
  ASSUME NEW w, WorldType(w)
  PROVE  WorldType(CamerasOff(w)) /\ CamerasOff(w).stream = w.stream
<1> DEFINE v == CamerasOff(w)
           ts == (w.share.retained \cup InStream(w, "video")) \ {w.share.active, w.share.pending}
<1>1. /\ DOMAIN v = WorldFields
      /\ v.room = w.room /\ v.stream = w.stream /\ v.share = w.share /\ v.input = w.input
      /\ v.barred = w.barred /\ v.job = w.job /\ v.track = Switched(w.track, ts, FALSE)
  BY DEF CamerasOff, WorldType, WorldFields
<1> HIDE DEF v, ts
<1>2. TurnedOff(w.track, v.track, ts)
  BY <1>1, TracksChange DEF WorldType
<1>3. WorldType(v)
  BY <1>1, <1>2 DEF WorldType, TurnedOff, Same
<1> QED
  BY <1>1, <1>3 DEF v

\* A start is told that it is not wanted any more: its screen ends, which it finds
\* when it goes on.
LEMMA CancelStartFollows ==
  ASSUME NEW w, Core(w), Follows(w), NEW disables \in BOOLEAN
  PROVE  Follows(CancelStart(w, disables))
<1>1. CASE w.job["share"].phase = "none" \/ w.share.active # 0
  BY <1>1 DEF CancelStart
<1>2. CASE ~(w.job["share"].phase = "none" \/ w.share.active # 0)
  <2> DEFINE x == [w EXCEPT !.share.mine = FALSE]
             off == IF disables THEN CamerasOff(x) ELSE x
             ts == {w.share.pending} \ {0}
             v == [off EXCEPT !.track = Stopped(@, ts)]
  <2>1. CancelStart(w, disables) = v
    BY <1>2 DEF CancelStart
  <2>2. WorldType(w)
    BY DEF Core
  <2>3. /\ Alike(w, x) /\ x.job = w.job /\ x.peer = w.peer
    BY <2>2 DEF WorldType, Alike, WorldFields, ShareFields, Jobs
  <2> HIDE DEF x
  <2>4. WorldType(x) /\ \A j \in Jobs : SameJob(w.job[j], x.job[j])
    BY <2>2, <2>3, AlikeFits DEF SameJob
  <2>5. Follows(x)
    BY <2>3, <2>4, SameTracksFollow DEF Alike
  <2>6. WorldType(off) /\ Follows(off) /\ off.job = w.job /\ off.share = x.share
    BY <2>3, <2>4, <2>5, CamerasOffFollows, CamerasOffType
  <2> HIDE DEF off, ts
  <2>7. /\ v.track = Stopped(off.track, ts) /\ v.room = off.room /\ v.stream = off.stream
        /\ v.peer = off.peer /\ v.share = off.share /\ v.job = off.job
    BY <2>6 DEF WorldType, WorldFields
  <2> HIDE DEF v
  <2>8. EndedOnly(off.track, v.track, ts)
    BY <2>6, <2>7, TracksChange DEF WorldType
  <2>9. StreamOf(v) = StreamOf(off) /\ off.job["share"].phase # "none"
    BY <1>2, <2>6, <2>7 DEF StreamOf
  <2>10. Follows(v)
    BY <2>6, <2>7, <2>8, <2>9, EndedFollows
  <2> QED
    BY <2>1, <2>10
<1> QED
  BY <1>1, <1>2

\* A share is stopped, by the user or by the host.
LEMMA StopFollows ==
  ASSUME NEW w, Core(w), Follows(w), NEW disables \in BOOLEAN,
         NoWish(w), \A k \in w.barred : k # "video" => Off(w, k),
         ~disables \/ w.room = "over" => OffFits(w),
         NEW v \in Stop(w, disables)
  PROVE  Follows(v)
<1>1. CASE w.room = "over"
  BY <1>1 DEF Stop
<1>2. CASE w.room # "over" /\ w.job["share"].phase = "stopping"
  <2>1. CASE disables /\ ~w.share.disables
    <3> DEFINE x == [w EXCEPT !.share.disables = TRUE]
    <3>1. v = CamerasOff(x)
      BY <1>2, <2>1 DEF Stop
    <3>2. WorldType(w)
      BY DEF Core
    <3>3. Alike(w, x) /\ x.job = w.job /\ x.peer = w.peer
      BY <3>2 DEF WorldType, Alike, WorldFields, ShareFields, Jobs
    <3> HIDE DEF x
    <3>4. WorldType(x) /\ \A j \in Jobs : SameJob(w.job[j], x.job[j])
      BY <3>2, <3>3, AlikeFits DEF SameJob
    <3>5. Follows(x)
      BY <3>3, <3>4, SameTracksFollow DEF Alike
    <3> QED
      BY <3>1, <3>4, <3>5, CamerasOffFollows
  <2>2. CASE ~(disables /\ ~w.share.disables)
    BY <1>2, <2>2 DEF Stop
  <2> QED
    BY <2>1, <2>2
<1>3. CASE w.room # "over" /\ w.job["share"].phase # "stopping" /\ w.share.active = 0
  <2>1. v = CancelStart(w, disables)
    BY <1>3 DEF Stop
  <2> QED
    BY <2>1, CancelStartFollows
<1>4. CASE w.room # "over" /\ w.job["share"].phase # "stopping" /\ w.share.active # 0
  <2>1. v \in BeginStop(w, disables) /\ w.job["share"].phase = "none"
    BY <1>4 DEF Stop, Core, ShareFits
  <2> QED
    BY <1>4, <2>1, BeginStopFollows
<1> QED
  BY <1>1, <1>2, <1>3, <1>4

\* The user stops the share, or ends it in the browser.
LEMMA StopAskedFollows ==
  ASSUME Fits(World), Follows(World), NEW v \in Stop(World, FALSE), Becomes(v)
  PROVE  Follows(World)'
<1>1. PICK w : w = World
  OBVIOUS
<1>2. Follows(w) /\ Core(w) /\ OffFits(w) /\ NoWish(w) /\ \A k \in w.barred : Off(w, k)
  BY <1>1 DEF Fits, OffFits
<1>3. Follows(v)
  BY <1>1, <1>2, StopFollows
<1> QED
  BY <1>3, BecomesFollows

\* The user ends the share in the browser.
LEMMA ScreenEndsFollows ==
  ASSUME Fits(World), Follows(World), ScreenEnds
  PROVE  Follows(World)'
<1>1. CASE Live(World, share.pending) /\ track' = Stopped(track, {share.pending})
           /\ UNCHANGED <<room, stream, peer, share, input, job, barred>>
  <2>1. PICK w : w = World
    OBVIOUS
  <2>2. Core(w) /\ w.share = share /\ w.job = job
    BY <2>1, WorldIs DEF Fits
  <2>3. share.pending # 0
    BY <1>1 DEF Live
  <2>4. job["share"].phase # "none"
    BY <2>2, <2>3 DEF Core, ShareFits
  <2> QED
    BY <1>1, <2>4, TrackEndsFollows
<1>2. CASE \E v \in Stop(World, FALSE) : Becomes(v)
  BY <1>2, StopAskedFollows
<1> QED
  BY Zenon, <1>1, <1>2 DEF ScreenEnds

\* A device is lost.
LEMMA InputEndsFollows ==
  ASSUME Fits(World), Follows(World), NEW kind \in Kind, InputEnds(kind)
  PROVE  Follows(World)'
<1>1. PICK t : /\ t \in Owned(World) /\ Live(World, t) /\ ~track[t].screen
               /\ track' = Stopped(track, {t})
               /\ stream' = IF stream = None THEN None ELSE stream \ {t}
               /\ share' = [share EXCEPT !.retained = @ \ {t}]
  BY Zenon DEF InputEnds
<1>2. PICK w : w = World
  OBVIOUS
<1>3. Core(w) /\ WorldType(w) /\ w.share = share /\ w.track = track /\ w.job = job
  BY <1>2, WorldIs DEF Fits, Core
<1>4. job["share"].phase = "none" => share.active \notin {t}
  BY <1>1, <1>2, <1>3 DEF Core, ShareFits, KindsFit, Lives, Live
<1> QED
  BY Zenon, <1>1, <1>4, TrackEndsFollows DEF InputEnds

\* What is wanted does not change what is under way.
LEMMA DesiredIs ==
  ASSUME NEW w, WorldType(w), NEW kind, NEW on, NEW d, d = Desired(w, kind, on)
  PROVE  /\ DOMAIN d = WorldFields /\ d.track = w.track /\ d.room = w.room /\ d.stream = w.stream
         /\ d.peer = w.peer /\ d.share = w.share /\ d.barred = w.barred
         /\ \A j \in Jobs : SameJob(w.job[j], d.job[j])
<1>1. PICK wish : wish = IF w.job["input"].phase # "none" /\ w.job["input"].kind = kind
                         THEN on ELSE w.job["input"].on
  OBVIOUS
<1>2. PICK at : at = [w.job["input"] EXCEPT !.on = wish]
  OBVIOUS
<1>3. SameJob(w.job["input"], at)
  BY <1>2 DEF SameJob, WorldType, JobFields, Jobs
<1>4. d = [w EXCEPT !.input = [@ EXCEPT ![kind] = on], !.job = [@ EXCEPT !["input"] = at]]
  BY <1>1, <1>2 DEF Desired
<1>5. /\ DOMAIN d = WorldFields /\ d.track = w.track /\ d.room = w.room /\ d.stream = w.stream
      /\ d.peer = w.peer /\ d.share = w.share /\ d.barred = w.barred
      /\ d.job["share"] = w.job["share"] /\ d.job["input"] = at
  BY <1>4 DEF WorldType, WorldFields, Jobs
<1>6. SameJob(w.job["share"], d.job["share"])
  BY <1>5 DEF SameJob
<1> QED
  BY <1>3, <1>5, <1>6 DEF Jobs

\* Neither does what is on.
LEMMA SwitchedFollows ==
  ASSUME NEW w, WorldType(w), Follows(w), NEW v, NEW ts, NEW on \in BOOLEAN,
         v.track = Switched(w.track, ts, on), v.peer = w.peer, v.room = w.room,
         v.stream = w.stream, v.share = w.share, \A j \in Jobs : SameJob(w.job[j], v.job[j])
  PROVE  Follows(v)
<1>1. w.track \in [1..Tracks -> TrackRecord]
  BY DEF WorldType
<1>2. LiveOf(v.track) = LiveOf(w.track)
      /\ \A t \in LiveOf(w.track) : v.track[t].kind = w.track[t].kind
  <2>1. /\ TurnedOff(w.track, Switched(w.track, ts, FALSE), ts)
        /\ TurnedOn(w.track, Switched(w.track, ts, TRUE), ts)
    BY <1>1, TracksChange
  <2>2. TurnedOff(w.track, v.track, ts) \/ TurnedOn(w.track, v.track, ts)
    BY <2>1
  <2> QED
    BY <2>2 DEF TurnedOff, TurnedOn, Same
<1> QED
  BY <1>2, SameTracksFollow

\* The user turns a device on or off.
LEMMA ToggleFollows ==
  ASSUME Fits(World), Follows(World), NEW kind \in Kind, Toggle(kind)
  PROVE  Follows(World)'
<1>1. PICK w : w = World
  OBVIOUS
<1>2. WorldType(w) /\ Follows(w) /\ w.track = track
  BY <1>1, WorldIs DEF Fits, Core
<1>3. PICK ts : ts = InStream(w, kind)
  OBVIOUS
<1>4. PICK on \in BOOLEAN : on = ~AnyOn(track, ts)
  BY DEF AnyOn
<1>5. PICK d : d = Desired(w, kind, on)
  OBVIOUS
<1>6. PICK v : v = [d EXCEPT !.track = Switched(@, ts, on),
                             !.barred = IF on THEN @ \ {kind} ELSE @]
  OBVIOUS
<1>7. Becomes(v)
  BY Zenon, <1>1, <1>3, <1>4, <1>5, <1>6 DEF Toggle
<1>8. /\ DOMAIN d = WorldFields /\ d.track = w.track /\ d.room = w.room /\ d.stream = w.stream
      /\ d.peer = w.peer /\ d.share = w.share
      /\ \A j \in Jobs : SameJob(w.job[j], d.job[j])
  BY <1>2, <1>5, DesiredIs
<1>9. /\ v.track = Switched(w.track, ts, on) /\ v.room = w.room /\ v.stream = w.stream
      /\ v.peer = w.peer /\ v.share = w.share /\ v.job = d.job
  BY <1>6, <1>8 DEF WorldFields
<1>10. \A j \in Jobs : SameJob(w.job[j], v.job[j])
  BY <1>8, <1>9
<1>11. Follows(v)
  BY <1>2, <1>9, <1>10, SwitchedFollows
<1> QED
  BY <1>7, <1>11, BecomesFollows

\* What the host says first.
LEMMA ModeratedFollows ==
  ASSUME Fits(World), Follows(World), NEW kind \in Kind, NEW told, told = Moderated(kind)
  PROVE  Follows(told)
<1>1. PICK w : w = World
  OBVIOUS
<1>2. WorldType(w) /\ Follows(w)
  BY <1>1 DEF Fits, Core
<1>3. PICK on \in BOOLEAN : on = FALSE
  OBVIOUS
<1>4. PICK d : d = Desired(w, kind, on)
  OBVIOUS
<1>5. /\ DOMAIN d = WorldFields /\ d.track = w.track /\ d.room = w.room /\ d.stream = w.stream
      /\ d.peer = w.peer /\ d.share = w.share
      /\ \A j \in Jobs : SameJob(w.job[j], d.job[j])
  BY <1>2, <1>4, DesiredIs
<1>6. told = [d EXCEPT !.barred = @ \cup {kind}]
  BY <1>1, <1>3, <1>4 DEF Moderated
<1>7. /\ told.track = w.track /\ told.room = w.room /\ told.stream = w.stream
      /\ told.peer = w.peer /\ told.share = w.share /\ told.job = d.job
  BY <1>5, <1>6 DEF WorldFields
<1>8. \A j \in Jobs : SameJob(w.job[j], told.job[j])
  BY <1>5, <1>7
<1> QED
  BY <1>2, <1>7, <1>8, SameTracksFollow

\* The host turns a device off.
LEMMA ModerateFollows ==
  ASSUME Fits(World), Follows(World), NEW kind \in Kind, Moderate(kind)
  PROVE  Follows(World)'
<1>1. PICK told : told = Moderated(kind)
  OBVIOUS
<1>2. /\ Core(told) /\ told.room = room /\ told.share = share
      /\ NoWish(told) /\ \A k \in told.barred : k # kind => Off(told, k)
      /\ Follows(told) /\ WorldType(told)
  BY <1>1, ModeratedFits, ModeratedFollows DEF Core
<1>3. room = "active"
  BY DEF Moderate
<1>4. CASE kind = "audio"
  <2>1. PICK v : v = MicrophoneOff(told) /\ Becomes(v)
    BY <1>1, <1>4 DEF Moderate, MicrophoneOff
  <2>2. PICK ts : ts = InStream(told, "audio")
    OBVIOUS
  <2>3. v = [told EXCEPT !.track = Switched(@, ts, FALSE)]
    BY <2>1, <2>2 DEF MicrophoneOff
  <2>4. /\ v.track = Switched(told.track, ts, FALSE) /\ v.peer = told.peer /\ v.room = told.room
        /\ v.stream = told.stream /\ v.share = told.share /\ v.job = told.job
    BY <2>3, <1>2 DEF WorldType, WorldFields
  <2>5. \A j \in Jobs : SameJob(told.job[j], v.job[j])
    BY <2>4 DEF SameJob
  <2>6. Follows(v)
    BY <2>4, <2>5, <1>2, SwitchedFollows
  <2> QED
    BY <2>1, <2>6, BecomesFollows
<1>5. CASE kind = "video" /\ told.job["share"].phase # "none" /\ share.active = 0
  <2>1. PICK v : v = CancelStart(told, TRUE) /\ Becomes(v)
    BY <1>1, <1>5 DEF Moderate
  <2>2. Follows(v)
    BY <2>1, <1>2, CancelStartFollows
  <2> QED
    BY <2>1, <2>2, BecomesFollows
<1>6. CASE kind = "video" /\ share.active # 0
  <2>1. PICK v \in Stop(told, TRUE) : Becomes(v)
    BY <1>1, <1>6 DEF Moderate
  <2>2. \A k \in told.barred : k # "video" => Off(told, k)
    BY <1>2, <1>6
  <2>3. Follows(v)
    BY <2>1, <2>2, <1>2, <1>3, StopFollows
  <2> QED
    BY <2>1, <2>3, BecomesFollows
<1>7. CASE kind = "video" /\ told.job["share"].phase = "none" /\ share.active = 0
  <2>1. PICK v : v = CamerasOff(told) /\ Becomes(v)
    BY <1>1, <1>7 DEF Moderate
  <2>2. Follows(v)
    BY <2>1, <1>2, CamerasOffFollows
  <2> QED
    BY <2>1, <2>2, BecomesFollows
<1> QED
  BY <1>4, <1>5, <1>6, <1>7 DEF Kind

\* What is said of is known.
LEMMA SaidIsKnown ==
  ASSUME NEW w, NEW s, Said(w, s)
  PROVE  s \in Known(w)
<1> DEFINE sent == {w.peer[p].sender[k] : p \in Peer, k \in Kind}
           kept == UNION {{w.job[j].before, w.job[j].put} \cup {u.before : u \in w.job[j].updates} :
                            j \in {"share", "input"}}
<1>1. Known(w) = Owned(w) \cup sent \cup kept
  BY DEF Known
<1>2. CASE \E p \in Peer, k \in Kind : s = w.peer[p].sender[k]
  <2>1. s \in sent
    BY <1>2
  <2> HIDE DEF sent, kept
  <2> QED
    BY <1>1, <2>1
<1>3. CASE \E j \in Jobs : s \in {w.job[j].put, w.job[j].before} \/ \E u \in w.job[j].updates : s = u.before
  <2>1. PICK j \in Jobs : s \in {w.job[j].put, w.job[j].before}
                          \/ \E u \in w.job[j].updates : s = u.before
    BY <1>3
  <2>2. s \in {w.job[j].before, w.job[j].put} \cup {u.before : u \in w.job[j].updates}
    BY <2>1
  <2>3. s \in kept
    BY <2>2 DEF Jobs
  <2> HIDE DEF sent, kept
  <2> QED
    BY <1>1, <2>3
<1> QED
  BY <1>2, <1>3 DEF Said

\* A track is given to the job that asked for it, and no connection has it yet.
LEMMA GivenFollows ==
  ASSUME NEW w, WorldType(w), Follows(w), NEW j \in Jobs, w.job[j].phase = "prompt",
         NEW kind \in Kind, NEW phase, NEW before \in Track,
         j = "share" => kind = "video" /\ phase = "starting" /\ w.share.active = 0,
         j = "input" => phase = "replacing", phase = "starting" => Fine(w, kind, before),
         NEW new \in 1..Tracks, new # 0, new # before, new \notin Known(w), new \notin LiveOf(w.track),
         NEW v, Begins(w.track, v.track, new, kind), v.room = w.room, v.stream = w.stream,
         v.peer = w.peer, v.share.active = w.share.active, v.share.retained = w.share.retained,
         \A i \in Jobs \ {j} : v.job[i] = w.job[i], Begun(v.job[j], phase, kind, new, before)
  PROVE  Follows(v)
<1>1. new \notin StreamOf(w) /\ new \notin w.share.retained
  BY OwnedIsKnown DEF Owned
<1>2. /\ LiveOf(v.track) = LiveOf(w.track) \cup {new}
      /\ \A t \in LiveOf(w.track) : v.track[t] = w.track[t]
  BY DEF Begins
<1>3. StreamOf(v) = StreamOf(w)
  BY DEF StreamOf
<1>4. ASSUME NEW k PROVE InStream(v, k) = InStream(w, k)
  <2> SUFFICES ASSUME NEW t PROVE t \in InStream(v, k) <=> t \in InStream(w, k)
    OBVIOUS
  <2> QED
    BY <1>1, <1>2, <1>3 DEF InStream, OfKind
<1>5. ASSUME NEW ts, new \notin ts, Lone(w.track, ts) PROVE Lone(v.track, ts)
  BY <1>2, <1>5 DEF Lone
<1>6. OneOfAKind(v)
  <2>1. OneOfAKind(w)
    BY DEF Follows, FollowsBut
  <2>2. Lone(v.track, StreamOf(v)) /\ Lone(v.track, v.share.retained)
    BY <2>1, <1>1, <1>3, <1>5 DEF OneOfAKind
  <2>3. v.share.active # 0 /\ v.job["share"].phase = "none" => w.job["share"].phase = "none"
    BY DEF Begun, Jobs
  <2> QED
    BY <2>1, <2>2, <2>3, <1>4 DEF OneOfAKind
<1>7. Exclusive(v)
  <2>1. Exclusive(w)
    BY DEF Follows, FollowsBut
  <2>2. CASE j = "share"
    BY <2>1, <2>2 DEF Exclusive, Jobs
  <2>3. CASE j = "input"
    BY <2>1, <2>3 DEF Exclusive, Jobs
  <2> QED
    BY <2>2, <2>3 DEF Jobs
<1>8. ASSUME NEW k \in Kind, NEW s, Said(w, s), Fine(w, k, s) PROVE Fine(v, k, s)
  <2>1. s # new
    BY <1>8, SaidIsKnown
  <2> QED
    BY <2>1, <1>2, <1>4, <1>8 DEF Fine
<1>9. ~Busy(w, j)
  BY DEF Busy
<1>10. JobIsFit(v, j)
  <2>1. PICK at : at = v.job[j]
    OBVIOUS
  <2>2. /\ at.phase = phase /\ at.kind = kind /\ at.new = new /\ at.put = new
        /\ at.before = before /\ at.at = None /\ at.todo = {} /\ at.seen = {}
        /\ at.updates = {} /\ at.failed = {}
    BY <2>1 DEF Begun
  <2>3. Given(at) = {} /\ Names(at) = {}
    BY <2>2 DEF Given, Names
  <2>4. phase \in {"starting", "replacing"} /\ (j = "share" => kind = "video")
    BY DEF Jobs
  <2>5. phase = "starting" => Fine(v, kind, before)
    BY <1>2, <1>4 DEF Fine
  <2>6. \A k \in Kind : new \notin InStream(v, k)
    BY <1>1, <1>4, InStreamIs
  <2>7. JobFits(v, j)
    BY <2>1, <2>2, <2>3, <2>4, <2>5, <2>6 DEF JobFits, Puts, Track
  <2>8. ASSUME NEW p \in Peer PROVE LinkFits(v, j, p)
    BY <2>1, <2>2, <2>3, NoneIsNothing
       DEF LinkFits, Puts, Number, Follows, FollowsBut, PeersFit, ConnectionRecord
  <2> QED
    BY <2>7, <2>8 DEF JobIsFit
<1>11. ASSUME NEW i \in Jobs
       PROVE \/ SameJob(w.job[i], v.job[i]) /\ (Busy(w, i) => StaysOut(w, v, w.job[i].put))
             \/ ~Busy(w, i) /\ JobIsFit(v, i)
  <2>1. CASE i = j
    BY <2>1, <1>9, <1>10
  <2>2. CASE i # j
    BY <2>2, <1>4 DEF SameJob, StaysOut
  <2> QED
    BY <2>1, <2>2
<1> QED
  BY <1>6, <1>7, <1>8, <1>11, SceneChanges DEF Follows

\* The user has chosen a screen.
LEMMA ShareGrantedFollows ==
  ASSUME Fits(World), Follows(World), ShareGranted
  PROVE  Follows(World)'
<1>1. PICK new, given, v :
        /\ ScreenGiven(World, given, new) /\ Becomes(v)
        /\ IF OwnsStart(given) THEN v \in Resume(given, "share")
           ELSE v = [World EXCEPT !.job["share"] = NoJob]
  BY ShareGrantedIs
<1>2. PICK w : w = World
  OBVIOUS
<1>3. /\ Fits(w) /\ WorldType(w) /\ Follows(w) /\ ScreenGiven(w, given, new)
      /\ w.job["share"].phase = "prompt" /\ w.share.active = 0
      /\ w.job = job /\ w.share = share /\ Owned(w) \subseteq Known(w)
  BY <1>1, <1>2, WorldIs, OwnedIsKnown DEF Fits, Core, ShareFits, ShareGranted
<1>4. ASSUME OwnsStart(given), v \in Resume(given, "share") PROVE Follows(v)
  <2>1. given.room # "over" /\ given.room = w.room
    BY <1>3, <1>4 DEF OwnsStart, ScreenGiven
  <2>2. Fits(given)
    BY <1>3, <2>1, ScreenGivenFits DEF ScreenGiven, Begun
  <2>3. PICK before : before = One(InStream(w, "video"))
    OBVIOUS
  <2>4. OneOfAKind(w)
    BY <1>3 DEF Follows, FollowsBut
  <2>5. before \in Track /\ Fine(w, "video", before) /\ new # before
    <3>1. new # 0 /\ new \notin LiveOf(w.track)
      BY <1>3 DEF ScreenGiven
    <3>2. InStream(w, "video") = {} => before = 0
      BY <2>3 DEF One
    <3>3. InStream(w, "video") # {} => before \in InStream(w, "video")
      BY <2>3, <2>4, <1>3, OneIs
    <3> QED
      BY <3>1, <3>2, <3>3, <1>3, InStreamIs, FineIs DEF Track
  <2>6. Begun(given.job["share"], "starting", "video", new, before)
    BY <1>3, <2>3 DEF ScreenGiven
  <2>7. /\ new \in 1..Tracks /\ new # 0 /\ new \notin Known(w) /\ new \notin LiveOf(w.track)
        /\ Begins(w.track, given.track, new, "video") /\ given.room = w.room
        /\ given.stream = w.stream /\ given.peer = w.peer /\ given.share.active = w.share.active
        /\ given.share.retained = w.share.retained
        /\ \A i \in Jobs \ {"share"} : given.job[i] = w.job[i]
    BY <1>3 DEF ScreenGiven, ScreenBegins, Jobs
  <2>8. "share" \in Jobs /\ "video" \in Kind
    BY DEF Jobs, Kind
  <2>9. Follows(given)
    BY <1>3, <2>5, <2>6, <2>7, <2>8, GivenFollows
  <2>10. Busy(given, "share") /\ given.job["share"].at = None
    BY <2>6 DEF Busy, Begun
  <2> QED
    BY <1>4, <2>2, <2>8, <2>9, <2>10, ResumeFollows
<1>5. ASSUME v = [World EXCEPT !.job["share"] = NoJob] PROVE Follows(World)'
  <2>1. v = [w EXCEPT !.job = [@ EXCEPT !["share"] = NoJob]]
    BY <1>2, <1>5
  <2>2. /\ v.track = w.track /\ v.room = w.room /\ v.stream = w.stream /\ v.peer = w.peer
        /\ v.share = w.share /\ v.job["input"] = w.job["input"] /\ v.job["share"] = NoJob
    BY <2>1, <1>3 DEF WorldType, WorldFields, Jobs
  <2>3. v.job["share"].phase = "none"
    BY <2>2 DEF NoJob
  <2>4. /\ UNCHANGED <<track, room, stream, peer>> /\ share' = share
        /\ job'["input"] = job["input"] /\ job'["share"].phase = "none"
    BY <1>1, <1>2, <1>3, <2>2, <2>3, WorldIs DEF Becomes
  <2>5. job["input"].phase = "none"
    BY <1>3 DEF Follows, FollowsBut, Exclusive
  <2> QED
    BY <2>4, <2>5, <1>3, JobAsked DEF Jobs
<1>6. CASE OwnsStart(given)
  BY <1>1, <1>4, <1>6, BecomesFollows
<1> QED
  BY <1>1, <1>5, <1>6

\* The browser has opened a device.
LEMMA DeviceGivenFollows ==
  ASSUME Fits(World), Follows(World), DeviceGiven
  PROVE  Follows(World)'
<1>1. PICK new, given, v :
        /\ InputGiven(World, given, new) /\ Becomes(v)
        /\ IF room = "over" THEN v = [World EXCEPT !.job["input"] = NoJob]
           ELSE v \in Resume(given, "input")
  BY DeviceGivenIs
<1>2. PICK w : w = World
  OBVIOUS
<1>3. /\ Fits(w) /\ WorldType(w) /\ Follows(w) /\ InputGiven(w, given, new)
      /\ w.job["input"].phase = "prompt" /\ w.room = room
      /\ w.job = job /\ w.share = share /\ Owned(w) \subseteq Known(w)
  BY <1>1, <1>2, WorldIs, OwnedIsKnown DEF Fits, Core, DeviceGiven
<1>4. PICK kind \in Kind : kind = w.job["input"].kind
  BY <1>3 DEF WorldType
<1>5. ASSUME room # "over", v \in Resume(given, "input") PROVE Follows(v)
  <2>1. Fits(given)
    BY <1>3, <1>5, InputGivenFits DEF InputGiven, Begun
  <2>2. Begun(given.job["input"], "replacing", kind, new, 0)
    BY <1>3, <1>4 DEF InputGiven
  <2>3. /\ new \in 1..Tracks /\ new # 0 /\ new \notin Known(w) /\ new \notin LiveOf(w.track)
        /\ Begins(w.track, given.track, new, kind) /\ given.room = w.room
        /\ given.stream = w.stream /\ given.peer = w.peer /\ given.share = w.share
        /\ \A i \in Jobs \ {"input"} : given.job[i] = w.job[i]
    BY <1>3, <1>4 DEF InputGiven, DeviceBegins, Jobs
  <2>4. 0 \in Track /\ "input" \in Jobs
    BY DEF Track, Jobs
  <2>5. Follows(given)
    BY <1>3, <1>4, <2>2, <2>3, <2>4, GivenFollows
  <2>6. Busy(given, "input") /\ given.job["input"].at = None
    BY <2>2 DEF Busy, Begun
  <2> QED
    BY <1>5, <2>1, <2>4, <2>5, <2>6, ResumeFollows
<1>6. ASSUME v = [World EXCEPT !.job["input"] = NoJob] PROVE Follows(World)'
  <2>1. v = [w EXCEPT !.job = [@ EXCEPT !["input"] = NoJob]]
    BY <1>2, <1>6
  <2>2. /\ v.track = w.track /\ v.room = w.room /\ v.stream = w.stream /\ v.peer = w.peer
        /\ v.share = w.share /\ v.job["share"] = w.job["share"] /\ v.job["input"] = NoJob
    BY <2>1, <1>3 DEF WorldType, WorldFields, Jobs
  <2>3. v.job["input"].phase = "none"
    BY <2>2 DEF NoJob
  <2>4. /\ UNCHANGED <<track, room, stream, peer>> /\ share' = share
        /\ job'["share"] = job["share"] /\ job'["input"].phase = "none"
    BY <1>1, <1>2, <1>3, <2>2, <2>3, WorldIs DEF Becomes
  <2> QED
    BY <2>4, <1>3, JobAsked DEF Jobs
<1>7. CASE room # "over"
  BY <1>1, <1>5, <1>7, BecomesFollows
<1> QED
  BY <1>1, <1>6, <1>7

\* A step of the session.
LEMMA MediaFollows ==
  ASSUME Fits(World), Follows(World), MediaNext
  PROVE  Follows(World)'
<1>1. CASE Going
  BY <1>1, ReplacedFollows, ReplaceFailsFollow, ReplaceLostFollows, ShareRefusedFollows,
     ShareGrantedFollows, DeviceDeniedFollows, DeviceGivenFollows, Zenon DEF Going, Jobs
<1>2. CASE StartShare \/ StopShare \/ ScreenEnds
  BY <1>2, StartShareFollows, StopAskedFollows, ScreenEndsFollows DEF StopShare
<1>3. CASE \E k \in Kind : SelectDevice(k) \/ Toggle(k) \/ Moderate(k) \/ InputEnds(k)
  BY <1>3, SelectDeviceFollows, ToggleFollows, ModerateFollows, InputEndsFollows, Zenon
<1>4. CASE \E p \in Peer : PeerComes(p) \/ PeerGoes(p) \/ PeerReplaced(p) \/ Offer(p)
  BY <1>4, PeerComesFollows, PeerGoesFollows, OfferFollows, Zenon
<1>5. CASE Drop \/ \E ps \in SUBSET Peer : Rejoin(ps)
  BY <1>5, DropFollows
<1>6. CASE Leave
  BY <1>6, LeaveFollows
<1> QED
  BY <1>1, <1>2, <1>3, <1>4, <1>5, <1>6, Zenon DEF MediaNext

-----------------------------------------------------------------------------
(* From the preparation to the end                                         *)

\* In the preparation there is one live track of a kind.
LEMMA PreparationIsLone ==
  ASSUME PreparationFits, Lone(track, 1..Tracks), PrejoinNext
  PROVE  Lone(track', 1..Tracks)
<1>1. track \in [1..Tracks -> TrackRecord]
  BY DEF PreparationFits, TracksFit
<1>2. ASSUME Same(track, track') PROVE Lone(track', 1..Tracks)
  <2>1. \A ts, us : ts \subseteq us /\ Lone(track, us) => Lone(track', ts)
    BY <1>2, LoneStays DEF Same
  <2> QED
    BY <2>1
<1>3. CASE DeviceGranted
  <2>1. PICK d \in plugged[Head(pre.todo).kind] : Granted(d)
    BY <1>3 DEF DeviceGranted
  <2>2. CASE pre.over
    BY <2>1, <2>2 DEF Granted
  <2>3. CASE ~pre.over
    <3>1. PICK kind, new, n :
            /\ kind = Head(pre.todo).kind /\ new = Unused(track, pre.stream)
            /\ n = NewTrack(kind, FALSE, pre.want[kind])
      OBVIOUS
    <3>2. PICK old : old = LiveIn(pre, kind)
      OBVIOUS
    <3>3. track' = [Stopped(track, old) EXCEPT ![new] = n]
      BY <2>1, <2>3, <3>1, <3>2 DEF Granted
    <3>4. PICK st : st = Stopped(track, old)
      OBVIOUS
    <3>5. EndedOnly(track, st, old)
      BY <1>1, <3>4, TracksChange
    <3>6. st \in [1..Tracks -> TrackRecord] /\ Same(track, st) /\ LiveOf(st) = LiveOf(track) \ old
      BY <3>5 DEF EndedOnly, Same
    <3>7. \A t \in 1..Tracks : t # new => track'[t] = st[t]
      BY <3>3, <3>4, <3>6
    <3>8. DOMAIN track' = 1..Tracks /\ (new \in 1..Tracks => track'[new].kind = kind)
      BY <3>1, <3>3, <3>4, <3>6 DEF NewTrack
    <3>9. \A t \in LiveOf(track') : t # new => t \in LiveOf(st)
      BY <3>6, <3>7, <3>8 DEF LiveOf
    <3>10. \A t \in LiveOf(st) : st[t].kind # kind
      <4>1. LiveOf(track) \subseteq pre.stream
        BY <2>3 DEF PreparationFits, TracksFit
      <4>2. old = {t \in pre.stream \cap LiveOf(track) : track[t].kind = kind}
        BY <3>2 DEF LiveIn, OfKind
      <4> QED
        BY <4>1, <4>2, <3>6 DEF Same
    <3>11. Lone(st, 1..Tracks)
      <4>1. \A ts, us : ts \subseteq us /\ Lone(track, us) => Lone(st, ts)
        BY <3>6, LoneStays DEF Same
      <4> QED
        BY <4>1
    <3> SUFFICES ASSUME NEW t \in (1..Tracks) \cap LiveOf(track'), NEW u \in (1..Tracks) \cap LiveOf(track'),
                        track'[t].kind = track'[u].kind
                 PROVE  t = u
      BY DEF Lone
    <3>12. CASE t # new /\ u # new
      BY <3>7, <3>9, <3>11, <3>12 DEF Lone
    <3>13. CASE t = new \/ u = new
      BY <3>7, <3>8, <3>9, <3>10, <3>13
    <3> QED
      BY <3>12, <3>13
  <2> QED
    BY <2>2, <2>3
<1>4. ASSUME NEW k \in Kind, TogglePrejoin(k) PROVE Lone(track', 1..Tracks)
  <2>1. PICK on \in BOOLEAN : on = ~AnyOn(track, LiveIn(pre, k))
    BY DEF AnyOn
  <2>2. PICK ts : ts = LiveIn(pre, k)
    OBVIOUS
  <2>3. track' = Switched(track, ts, on)
    BY <1>4, <2>1, <2>2 DEF TogglePrejoin
  <2>4. /\ TurnedOff(track, Switched(track, ts, FALSE), ts)
        /\ TurnedOn(track, Switched(track, ts, TRUE), ts)
    BY <1>1, TracksChange
  <2>5. TurnedOff(track, track', ts) \/ TurnedOn(track, track', ts)
    BY <2>3, <2>4
  <2> QED
    BY <2>5, <1>2 DEF TurnedOff, TurnedOn
<1>5. CASE (\E k \in Kind : \E d \in Device[k] : PullOut(k, d)) \/ GoBack
  <2>1. PICK ts : track' = Stopped(track, ts)
    BY <1>5 DEF PullOut, GoBack
  <2>2. EndedOnly(track, track', ts)
    <3>1. EndedOnly(track, Stopped(track, ts), ts)
      BY <1>1, TracksChange
    <3> QED
      BY <2>1, <3>1, Zenon
  <2> QED
    BY <2>2, <1>2 DEF EndedOnly
<1>6. CASE DeviceRefused \/ ListArrives \/ ListFails \/ DeviceChange \/ ActRefused \/ ActRequests
           \/ (\E k \in Kind : \E d \in Device[k] : PlugIn(k, d)) \/ \E what \in Actions : Act(what)
  BY <1>6 DEF DeviceRefused, ListArrives, ListFails, DeviceChange, ActRefused, ActRequests, PlugIn, Act
<1> QED
  BY <1>3, <1>4, <1>5, <1>6, Zenon DEF PrejoinNext

\* The session starts: the peers in the room get the stream that was prepared.
LEMMA AdoptFollows ==
  ASSUME NoSession, EnteringFits, track \in [1..Tracks -> TrackRecord], PeersFit(World),
         Lone(track, 1..Tracks), NEW ps \in SUBSET Peer,
         Adopt(prepared.tracks, prepared.want, ps)
  PROVE  Follows(World)'
<1>1. PICK v : v = World'
  OBVIOUS
<1>2. WorldType(v)
  <2>1. Fits(v)
    BY <1>1, AdoptFits
  <2> QED
    BY <2>1 DEF Fits, Core
<1>3. PICK ts : ts = prepared.tracks
  OBVIOUS
<1>4. /\ v.track = track /\ v.room = "active" /\ v.peer = peer'
      /\ v.stream = IF ts = {} THEN None ELSE ts \cap LiveOf(track)
      /\ v.share = NoShare /\ \A j \in Jobs : v.job[j] = NoJob
  BY <1>1, <1>3 DEF World, Adopt, NoSession
<1>5. v.share.active = 0 /\ v.share.retained = {} /\ \A j \in Jobs : v.job[j].phase = "none"
  BY <1>4, NoJobIs DEF NoShare
<1>6. ts \subseteq 1..Tracks /\ LiveOf(track) \subseteq ts
  BY <1>3 DEF EnteringFits
<1>7. PICK x : x = [World EXCEPT !.stream = ts]
  OBVIOUS
<1>8. x.track = track /\ x.stream = ts
  BY <1>7, WorldIs DEF WorldFields
<1>9. StreamOf(x) = ts /\ StreamOf(v) = LiveOf(track)
  <2>1. ts # None /\ ts \cap LiveOf(track) # None
    BY <1>6, TracksAssumption
  <2> QED
    BY <2>1, <1>4, <1>6, <1>8 DEF StreamOf
<1>10. \A k : InStream(x, k) = InStream(v, k)
  BY <1>4, <1>6, <1>8, <1>9 DEF InStream, OfKind
<1>11. Connection(x, 1) = Connection(v, 1)
  <2> DEFINE sent(w) == [k \in Kind |-> IF InStream(w, k) = {} THEN None ELSE One(InStream(w, k))]
  <2>1. sent(x) = sent(v)
    BY <1>10
  <2>2. \A w : Connection(w, 1) = [n |-> 1, here |-> TRUE, sender |-> sent(w), offers |-> FALSE,
                                  offered |-> {k \in Kind : sent(w)[k] # None}, dropped |-> FALSE]
    BY DEF Connection
  <2> HIDE DEF sent
  <2> QED
    BY <2>1, <2>2
<1>12. OneOfAKind(v)
  <2>1. LiveOf(track) \subseteq 1..Tracks
    BY <1>6
  <2>2. Lone(track, LiveOf(track)) /\ Lone(track, {})
    BY <2>1 DEF Lone
  <2> QED
    BY <2>2, <1>4, <1>5, <1>9 DEF OneOfAKind
<1>13. PICK c : c = Connection(v, 1)
  OBVIOUS
<1>14. /\ c \in ConnectionRecord
       /\ \A k \in Kind : Fine(v, k, c.sender[k]) /\ (c.sender[k] # None => k \in c.offered)
  BY <1>2, <1>12, <1>13, ConnectionIs
<1>15. v.peer = [p \in Peer |-> IF p \in ps THEN c ELSE peer[p]]
  BY <1>3, <1>4, <1>7, <1>11, <1>13 DEF Adopt
<1>16. peer \in [Peer -> ConnectionRecord] /\ \A p \in Peer : ~peer[p].here
  BY WorldIs DEF PeersFit, NoSession
<1>17. PeersFit(v)
  BY <1>4, <1>14, <1>15, <1>16 DEF PeersFit
<1>18. Exclusive(v) /\ \A j \in Jobs : JobIsFit(v, j)
  BY <1>5 DEF Exclusive, JobIsFit, Busy, Jobs
<1>19. ASSUME NEW p \in Peer, NEW k \in Kind PROVE SenderFits(v, p, k, {}) /\ OfferFits(v, p, k)
  <2>1. v.peer[p].here => v.peer[p] = c
    BY <1>15, <1>16
  <2> QED
    BY <2>1, <1>14 DEF SenderFits, OfferFits
<1> QED
  BY <1>1, <1>12, <1>17, <1>18, <1>19 DEF Follows, FollowsBut

\* Before the session nobody is there, and what is prepared has one track of a
\* kind; in it every connection sends the stream.
PathFollows ==
  /\ stage # "session" => PeersFit(World)
  /\ stage \in {"prejoin", "entering"} => Lone(track, 1..Tracks)
  /\ stage = "session" => Follows(World)

\* A world with the same connections in the same room.
LEMMA PeersStayFit ==
  ASSUME PeersFit(World), UNCHANGED <<room, peer>>
  PROVE  PeersFit(World)'
<1>1. PICK v : v = World'
  OBVIOUS
<1>2. v.room = room /\ v.peer = peer
  BY <1>1 DEF World
<1>3. PeersFit(v)
  BY <1>2, WorldIs DEF PeersFit
<1> QED
  BY <1>1, <1>3

\* A step of the preparation.
LEMMA PreparationStepFollows ==
  ASSUME PathFits, PathFollows, PrejoinNext, Idle
  PROVE  PathFollows'
<1>1. UNCHANGED <<room, stream, peer, share, input, job, barred, prepared, stage>>
  BY DEF Idle
<1>2. stage # "session" => PeersFit(World)'
  BY <1>1, PeersStayFit DEF PathFollows
<1>3. stage \in {"prejoin", "entering"} => Lone(track', 1..Tracks)
  BY PreparationIsLone DEF PathFits, PathFollows
<1>4. CASE stage = "session"
  <2>1. UNCHANGED track
    BY <1>4, PrejoinFits DEF PathFits
  <2>2. PICK w, v : w = World /\ v = World'
    OBVIOUS
  <2>3. /\ v.track = w.track /\ v.room = w.room /\ v.stream = w.stream /\ v.peer = w.peer
        /\ v.share = w.share /\ v.job = w.job
    BY <1>1, <2>1, <2>2 DEF World
  <2>4. Follows(w)
    BY <1>4, <2>2 DEF PathFollows
  <2>5. Follows(v)
    BY <2>3, <2>4, SameFollows
  <2> QED
    BY <1>1, <1>4, <2>2, <2>5 DEF PathFollows
<1> QED
  BY <1>1, <1>2, <1>3, <1>4 DEF PathFollows

\* What the preparation hands on is what it had, or nothing.
LEMMA JoinFollows ==
  ASSUME PathFits, PathFollows, Join
  PROVE  PathFollows'
<1>1. track \in [1..Tracks -> TrackRecord] /\ stage = "prejoin" /\ stage' = "entering"
  BY DEF PathFits, PreparationFits, TracksFit, Join
<1>2. PeersFit(World)'
  BY <1>1, PeersStayFit DEF PathFollows, Join
<1>3. Same(track, track')
  <2>1. EndedOnly(track, Stopped(track, pre.stream), pre.stream)
    BY <1>1, TracksChange
  <2>2. track' = track \/ track' = Stopped(track, pre.stream)
    BY DEF Join
  <2>3. Same(track, track)
    BY <1>1 DEF Same
  <2> QED
    BY <2>1, <2>2, <2>3 DEF EndedOnly
<1>4. \A ts, us : ts \subseteq us /\ Lone(track, us) => Lone(track', ts)
  BY <1>3, LoneStays DEF Same
<1>5. Lone(track', 1..Tracks)
  BY <1>1, <1>4 DEF PathFollows
<1> QED
  BY <1>1, <1>2, <1>5 DEF PathFollows

\* A prepared track ends.
LEMMA PreparedEndsFollows ==
  ASSUME PathFits, PathFollows, NEW t \in 1..Tracks, PreparedEnds(t)
  PROVE  PathFollows'
<1>1. track \in [1..Tracks -> TrackRecord] /\ stage = "entering" /\ stage' = "entering"
  BY Zenon DEF PathFits, PreparationFits, TracksFit, PreparedEnds
<1>2. PeersFit(World)'
  BY Zenon, <1>1, PeersStayFit DEF PathFollows, PreparedEnds
<1>3. EndedOnly(track, Stopped(track, {t}), {t})
  BY <1>1, TracksChange
<1>4. Same(track, track')
  BY Zenon, <1>3 DEF PreparedEnds, EndedOnly
<1>5. \A ts, us : ts \subseteq us /\ Lone(track, us) => Lone(track', ts)
  BY <1>4, LoneStays DEF Same
<1>6. Lone(track', 1..Tracks)
  BY <1>1, <1>5 DEF PathFollows
<1> QED
  BY <1>1, <1>2, <1>6 DEF PathFollows

\* The session starts with what was prepared.
LEMMA StartSessionFollows ==
  ASSUME PathFits, PathFollows, StartSession
  PROVE  PathFollows'
<1>1. /\ track \in [1..Tracks -> TrackRecord] /\ stage = "entering" /\ stage' = "session"
      /\ NoSession /\ EnteringFits /\ PeersFit(World) /\ Lone(track, 1..Tracks)
  BY DEF PathFits, PreparationFits, TracksFit, StartSession, PathFollows
<1>2. PICK ps \in SUBSET Peer : Adopt(prepared.tracks, prepared.want, ps)
  BY DEF StartSession
<1>3. Follows(World)'
  BY <1>1, <1>2, AdoptFollows
<1> QED
  BY <1>1, <1>3 DEF PathFollows

\* A step of the session, if there is one.
LEMMA MediaStepFollows ==
  ASSUME PathFits, PathFollows, MediaNext, UNCHANGED stage
  PROVE  PathFollows'
<1>1. CASE stage = "session"
  BY <1>1, MediaFollows DEF PathFits, PathFollows
<1>2. CASE stage # "session"
  <2>1. NoSession /\ PeersFit(World) /\ \A p \in Peer : ~peer[p].here
    BY <1>2, WorldIs DEF PathFits, PathFollows, PeersFit, NoSession
  <2>2. UNCHANGED <<track, room, peer>>
    BY <2>1, NoSessionStays
  <2>3. PeersFit(World)'
    BY <2>1, <2>2, PeersStayFit
  <2> QED
    BY <1>2, <2>2, <2>3 DEF PathFollows
<1> QED
  BY <1>1, <1>2

\* At first nobody is there and no track lives.
LEMMA FollowsStarts == Init => PathFollows
<1> SUFFICES ASSUME Init PROVE PathFollows
  OBVIOUS
<1>1. LiveOf(track) = {} /\ stage = "prejoin"
  BY DEF Init, LiveOf, Dead
<1>2. Lone(track, 1..Tracks)
  BY <1>1 DEF Lone
<1>3. PICK c : c = NoConnection(0)
  OBVIOUS
<1>4. c \in ConnectionRecord /\ ~c.here
  BY <1>3 DEF NoConnection, ConnectionRecord
<1>5. peer = [p \in Peer |-> c]
  BY <1>3 DEF Init, InitMedia
<1>6. peer \in [Peer -> ConnectionRecord] /\ \A p \in Peer : ~peer[p].here
  BY <1>4, <1>5
<1>7. PeersFit(World)
  BY <1>6, WorldIs DEF PeersFit
<1> QED
  BY <1>1, <1>2, <1>7 DEF PathFollows

\* What the connections send holds in every state.
THEOREM FollowsInvariant == Spec => []PathFollows
<1>1. ASSUME PathFits, PathFollows, [Next]_vars PROVE PathFollows'
  <2>1. CASE PrejoinNext /\ Idle
    BY <1>1, <2>1, PreparationStepFollows
  <2>2. CASE Join
    BY <1>1, <2>2, JoinFollows
  <2>3. CASE StartSession
    BY <1>1, <2>3, StartSessionFollows
  <2>4. CASE EnteringEnds
    <3>1. stage = "entering" /\ stage' = "left" /\ UNCHANGED <<room, peer>>
      BY <2>4 DEF EnteringEnds
    <3> QED
      BY <1>1, <3>1, PeersStayFit DEF PathFollows
  <2>5. CASE \E t \in 1..Tracks : PreparedEnds(t)
    BY <1>1, <2>5, PreparedEndsFollows
  <2>6. CASE MediaNext /\ UNCHANGED <<pre, screen, plugged, changes, prepared, stage>>
    BY <1>1, <2>6, MediaStepFollows
  <2>7. CASE UNCHANGED vars
    <3>1. UNCHANGED <<track, room, stream, peer, share, job, stage>>
      BY <2>7 DEF vars, preVars, mediaVars
    <3>2. PICK w, v : w = World /\ v = World'
      OBVIOUS
    <3>3. /\ v.track = w.track /\ v.room = w.room /\ v.stream = w.stream /\ v.peer = w.peer
          /\ v.share = w.share /\ v.job = w.job
      BY <3>1, <3>2 DEF World
    <3>4. Follows(w) => Follows(v)
      BY <3>3, SameFollows
    <3>5. stage = "session" => Follows(World)'
      BY <1>1, <3>2, <3>4 DEF PathFollows
    <3>6. stage # "session" => PeersFit(World)'
      BY <1>1, <3>1, PeersStayFit DEF PathFollows
    <3> QED
      BY <1>1, <3>1, <3>5, <3>6 DEF PathFollows
  <2> QED
    BY <1>1, <2>1, <2>2, <2>3, <2>4, <2>5, <2>6, <2>7, Zenon DEF Next
<1> QED
  BY <1>1, FollowsStarts, PathInvariant, PTL DEF Spec

\* With nothing under way every connection sends the live track that the stream
\* has of a kind and nothing else that lives, and an offer says or will say so,
\* unless the rollback of another operation dropped the request for it.
THEOREM SendersFollowStream == Spec => []SendersFollow
<1>1. ASSUME PathFits, PathFollows PROVE SendersFollow
  <2> USE <1>1
  <2>1. PICK w : w = World
    OBVIOUS
  <2> SUFFICES ASSUME room = "active", job["share"].phase = "none", job["input"].phase = "none",
                      NEW p \in Peer, peer[p].here, NEW k \in Kind
               PROVE  LET sent == peer[p].sender[k]
                      IN /\ IF InStream(w, k) = {} THEN sent \in {None, 0} \/ ~track[sent].live
                            ELSE sent \in InStream(w, k)
                         /\ sent \notin {None, 0} =>
                              k \in peer[p].offered \/ peer[p].offers \/ peer[p].dropped
    <3>1. \A c \in Current(World) : \E p \in Peer : c[1] = p /\ peer[p].here
      BY WorldIs DEF Current
    <3>2. \A c \in Current(World), k \in Kind : Sender(World, c, k) = peer[c[1]].sender[k]
      BY WorldIs DEF Sender
    <3> QED
      BY <2>1, <3>1, <3>2 DEF SendersFollow
  <2>2. Follows(w) /\ w.track = track /\ w.job = job /\ w.peer = peer
    BY <2>1, WorldIs DEF PathFits, PathFollows, NoSession
  <2>3. \A j \in Jobs : ~Busy(w, j)
    BY <2>2 DEF Busy, Jobs
  <2>4. SenderFits(w, p, k, {}) /\ OfferFits(w, p, k)
    BY <2>2 DEF Follows, FollowsBut
  <2>5. Fine(w, k, peer[p].sender[k])
    BY <2>2, <2>3, <2>4 DEF SenderFits, Covered
  <2>6. peer[p].sender[k] # None =>
          k \in peer[p].offered \/ peer[p].offers \/ peer[p].dropped
    BY <2>2, <2>3, <2>4 DEF OfferFits, AddedBy
  <2>7. peer[p].sender[k] \in {None} \cup Track /\ track \in [1..Tracks -> TrackRecord]
    BY <2>2 DEF Follows, FollowsBut, PeersFit, ConnectionRecord, PathFits, PreparationFits, TracksFit
  <2>8. peer[p].sender[k] \notin LiveOf(track) =>
          peer[p].sender[k] \in {None, 0} \/ ~track[peer[p].sender[k]].live
    BY <2>7 DEF LiveOf, Track
  <2> QED
    BY <2>2, <2>5, <2>6, <2>8 DEF Fine
<1> QED
  BY <1>1, PathInvariant, FollowsInvariant, PTL

=============================================================================
