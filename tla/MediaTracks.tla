---------------------------- MODULE MediaTracks ----------------------------
(***************************************************************************)
(* MediaStreamTracks as the client's code sees them: live until stop() or  *)
(* until the device or the browser ends them, on or off while they live.   *)
(* A track is numbered; the number of a track nobody knows is used again.  *)
(***************************************************************************)
EXTENDS Integers, FiniteSets

CONSTANTS
  Tracks,   \* bound: tracks known at one time
  None

ASSUME TracksAssumption ==
  Tracks \in Nat /\ None \notin Int /\ \A ts \in SUBSET (1..Tracks) : ts # None

VARIABLE track   \* [1..Tracks -> what is known of the track]

Kind == {"audio", "video"}

\* Of an ended track nothing else matters.
Dead == [kind |-> "none", screen |-> FALSE, live |-> FALSE, on |-> FALSE]
NewTrack(kind, screen, on) == [kind |-> kind, screen |-> screen, live |-> TRUE, on |-> on]

LiveOf(tr) == {t \in DOMAIN tr : tr[t].live}
OfKind(tr, ts, kind) == {t \in ts \cap LiveOf(tr) : tr[t].kind = kind}

\* stop() on each of ts
Stopped(tr, ts) == [t \in DOMAIN tr |-> IF t \in ts THEN Dead ELSE tr[t]]

\* enabled = on for each of ts
Switched(tr, ts, on) ==
  [t \in DOMAIN tr |-> IF t \in ts /\ tr[t].live THEN [tr[t] EXCEPT !.on = on] ELSE tr[t]]

\* toggle turns all of ts off if one of them is on.
AnyOn(tr, ts) == \E t \in ts : tr[t].on

\* The numbers for a new track, when the ones in known are in use.  There is one
\* when a track is made: a guard of each action that makes one.
Spare(tr, known) == DOMAIN tr \ (known \cup LiveOf(tr))
Unused(tr, known) == CHOOSE t \in Spare(tr, known) : TRUE

=============================================================================
