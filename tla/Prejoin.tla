------------------------------ MODULE Prejoin ------------------------------
(***************************************************************************)
(* The room before it is entered: PrejoinMedia, which asks for one device  *)
(* after the other and keeps a list of them, and PrejoinScreen, which runs *)
(* one authorized action at a time.                                        *)
(*                                                                         *)
(* The browser answers getUserMedia and enumerateDevices when it likes, or *)
(* after the controller is gone.  A list was true when it was asked for,   *)
(* and enumerateDevices may fail.                                          *)
(***************************************************************************)
EXTENDS MediaTracks, Sequences, SequencesExt

CONSTANTS
  Device,    \* [Kind -> devices that may be plugged in]
  Plugs,     \* bound: devices that come or go
  Requests   \* bound: device requests

ASSUME PrejoinAssumption ==
  /\ Device = [k \in Kind |-> Device[k]] /\ None \notin UNION {Device[k] : k \in Kind}
  /\ Plugs \in Nat /\ Requests \in Nat

VARIABLES
  pre,      \* the PrejoinMedia; a ghost, unread: the last list asked for did
            \* not come
  screen,   \* the PrejoinScreen: alive is actionLifetimeRef, doing what holds
            \* actionInFlightRef; asked counts its requests
  plugged,  \* [Kind -> devices]: what the machine has; events of it pending,
            \* and how often it changed
  changes

preVars == <<track, pre, screen, plugged, changes>>

-----------------------------------------------------------------------------
(* PrejoinMedia                                                            *)

NewPrejoin(want) ==
  [over |-> FALSE, status |-> "idle", todo |-> <<>>, stream |-> {},
   from |-> [k \in Kind |-> None], selected |-> [k \in Kind |-> None],
   inputs |-> [k \in Kind |-> {}], issue |-> [k \in Kind |-> FALSE], want |-> want,
   asked |-> None, stale |-> FALSE, emits |-> FALSE, dirty |-> FALSE,
   unread |-> FALSE]

Emitted(p) == [p EXCEPT !.dirty = FALSE]

\* #requestDeviceRefresh: a list on its way will be asked for again.
RefreshRequested(p, emits) ==
  IF p.over THEN p
  ELSE IF p.asked # None THEN [p EXCEPT !.stale = TRUE, !.emits = @ \/ emits]
  ELSE [p EXCEPT !.asked = plugged, !.stale = FALSE, !.emits = @ \/ emits]

Chosen(p, kind, device) ==
  [kind |-> kind, device |-> IF device = None THEN p.selected[kind] ELSE device]

\* #runRequests
Run(p, kinds, device) ==
  IF p.over \/ p.status = "checking" THEN p
  ELSE Emitted([p EXCEPT !.status = "checking",
                         !.todo = [i \in DOMAIN kinds |-> Chosen(p, kinds[i], device)]])

Kinds == <<"audio", "video">>
LiveIn(p, kind) == OfKind(track, p.stream, kind)

\* checkDevices, retryUnavailable and selectInput
CheckDevices(p) == Run(p, Kinds, None)
RetryUnavailable(p) ==
  LET missing == {k \in Kind : LiveIn(p, k) = {} \/ p.issue[k]}
  IN Run(p, IF missing \in {{}, Kind} THEN Kinds ELSE <<CHOOSE k \in missing : TRUE>>, None)
SelectInput(p, kind, device) ==
  IF LiveIn(p, kind) # {} /\ p.from[kind] = device THEN p ELSE Run(p, <<kind>>, device)

\* What #runRequests does after a request was answered.
Answered(p) ==
  LET next == [p EXCEPT !.todo = Tail(@)]
  IN IF next.todo = <<>> THEN RefreshRequested(next, FALSE) ELSE next

\* #acquire when getUserMedia has a track, and #replaceTrack
Granted(device) ==
  LET kind == Head(pre.todo).kind
      new == Unused(track, pre.stream)
  IN IF pre.over THEN pre' = [pre EXCEPT !.todo = <<>>] /\ UNCHANGED track
     ELSE /\ track' = [Stopped(track, LiveIn(pre, kind)) EXCEPT
                         ![new] = NewTrack(kind, FALSE, pre.want[kind])]
          /\ pre' = Answered([pre EXCEPT !.stream = (@ \ LiveIn(pre, kind)) \cup {new},
                                         !.from[kind] = device, !.selected[kind] = device,
                                         !.issue[kind] = FALSE, !.dirty = TRUE])

DeviceGranted ==
  /\ pre.todo # <<>> /\ Spare(track, pre.stream) # {}
  /\ LET ask == Head(pre.todo)
     IN \E d \in plugged[ask.kind] : ask.device \in {None, d} /\ Granted(d)
  /\ UNCHANGED <<screen, plugged, changes>>

DeviceRefused ==
  /\ pre.todo # <<>>
  /\ pre' = IF pre.over THEN [pre EXCEPT !.todo = <<>>]
            ELSE Answered([pre EXCEPT !.issue[Head(pre.todo).kind] = TRUE, !.dirty = TRUE])
  /\ UNCHANGED <<track, screen, plugged, changes>>

\* #normalizeSelection
Selection(p, kind, devices) ==
  IF LiveIn(p, kind) # {} THEN p.from[kind]
  ELSE IF p.selected[kind] \in devices \/ devices = {} THEN p.selected[kind]
  ELSE CHOOSE d \in devices : TRUE

\* None: enumerateDevices failed, and the screen keeps the list it has.
Applied(p, list) ==
  IF list = None THEN [p EXCEPT !.unread = TRUE]
  ELSE [p EXCEPT !.inputs = list, !.dirty = TRUE, !.unread = FALSE,
                 !.selected = [k \in Kind |-> Selection(p, k, list[k])]]

\* The loop of #refreshDevices ends; #runRequests may have waited for it.
Refreshed(p) ==
  LET told == IF p.emits THEN Emitted([p EXCEPT !.asked = None, !.emits = FALSE])
              ELSE [p EXCEPT !.asked = None]
  IN IF told.status = "checking" /\ told.todo = <<>>
     THEN Emitted([told EXCEPT !.status = "ready"]) ELSE told

\* Fault: the list that arrives is taken, whatever was asked for since.
ListTaken(p, list) == Refreshed([Applied(p, list) EXCEPT !.stale = FALSE])

\* A list that was asked for again is not looked at.
ListRead(p, list) ==
  IF p.stale THEN [p EXCEPT !.asked = plugged, !.stale = FALSE]
  ELSE Refreshed(Applied(p, list))

ListArrives ==
  /\ pre.asked # None
  /\ pre' = ListRead(pre, pre.asked)
  /\ UNCHANGED <<track, screen, plugged, changes>>

\* enumerateDevices rejects, or there is none.
ListFails ==
  /\ pre.asked # None
  /\ pre' = ListRead(pre, None)
  /\ UNCHANGED <<track, screen, plugged, changes>>

\* toggle: the buttons wait for a check and for an action.
TogglePrejoin(kind) ==
  /\ screen.alive /\ screen.doing = None /\ pre.status # "checking" /\ LiveIn(pre, kind) # {}
  /\ LET on == ~AnyOn(track, LiveIn(pre, kind))
     IN /\ track' = Switched(track, LiveIn(pre, kind), on)
        /\ pre' = Emitted([pre EXCEPT !.want[kind] = on])
  /\ UNCHANGED <<screen, plugged, changes>>

\* #handleTrackEnded
EndedIn(p, ts) ==
  IF p.stream \cap ts = {} THEN p
  ELSE Emitted([p EXCEPT !.stream = @ \ ts,
                         !.issue = [k \in Kind |-> @[k] \/ LiveIn(p, k) \cap ts # {}]])

\* A device is plugged in, or pulled out, which ends its track; "devicechange"
\* is on its way.
PlugIn(kind, d) ==
  /\ ~pre.over /\ changes.made < Plugs /\ d \notin plugged[kind]
  /\ plugged' = [plugged EXCEPT ![kind] = @ \cup {d}]
  /\ changes' = [made |-> changes.made + 1, pending |-> TRUE]
  /\ UNCHANGED <<track, pre, screen>>

PullOut(kind, d) ==
  /\ ~pre.over /\ changes.made < Plugs /\ d \in plugged[kind]
  /\ plugged' = [plugged EXCEPT ![kind] = @ \ {d}]
  /\ changes' = [made |-> changes.made + 1, pending |-> TRUE]
  /\ LET ts == IF pre.from[kind] = d THEN LiveIn(pre, kind) ELSE {}
     IN track' = Stopped(track, ts) /\ pre' = EndedIn(pre, ts)
  /\ UNCHANGED screen

DeviceChange ==
  /\ changes.pending
  /\ changes' = [changes EXCEPT !.pending = FALSE]
  /\ pre' = RefreshRequested(pre, TRUE)
  /\ UNCHANGED <<track, screen, plugged>>

-----------------------------------------------------------------------------
(* PrejoinScreen                                                           *)

\* dispose: a request may still be on its way; nothing else of it matters.
Disposed(p) ==
  [NewPrejoin(p.want) EXCEPT !.over = TRUE,
                             !.todo = IF p.todo = <<>> THEN <<>> ELSE <<Head(p.todo)>>]

\* runAuthorized: authorizeBeforeEntryAction, and before entering beforeJoin.
Act(what) ==
  /\ screen.alive /\ screen.doing = None
  /\ pre.status = "checking" => what.name = "bare"
  /\ what.name \in {"check", "retry", "select"} => screen.asked < Requests
  /\ screen' = [screen EXCEPT !.doing = what,
                              !.asked = IF what.name \in {"join", "bare"} THEN @ ELSE @ + 1]
  /\ UNCHANGED <<track, pre, plugged, changes>>

Actions ==
  {[name |-> n, kind |-> None, device |-> None] : n \in {"check", "retry", "join", "bare"}}
    \cup {[name |-> "select", kind |-> k, device |-> d] :
            k \in Kind, d \in UNION {Device[j] : j \in Kind}}

\* The authorization is refused, fails, or comes after the screen is gone.
ActRefused ==
  /\ screen.doing # None
  /\ screen' = [screen EXCEPT !.doing = None]
  /\ UNCHANGED <<track, pre, plugged, changes>>

\* A device request starts and is not waited for.
ActRequests ==
  /\ screen.doing # None /\ screen.alive
  /\ screen.doing.name \in {"check", "retry", "select"}
  /\ screen' = [screen EXCEPT !.doing = None]
  /\ pre' = CASE screen.doing.name = "check" -> CheckDevices(pre)
              [] screen.doing.name = "retry" -> RetryUnavailable(pre)
              [] screen.doing.name = "select" ->
                   SelectInput(pre, screen.doing.kind, screen.doing.device)
  /\ UNCHANGED <<track, plugged, changes>>

\* handleBack, and the screen leaves the page.
GoBack ==
  /\ screen.alive
  /\ screen' = [screen EXCEPT !.alive = FALSE]
  /\ track' = Stopped(track, pre.stream)
  /\ pre' = Disposed(pre)
  /\ UNCHANGED <<plugged, changes>>

InitPrejoin ==
  /\ pre = NewPrejoin([k \in Kind |-> TRUE])
  /\ screen = [alive |-> TRUE, doing |-> None, asked |-> 0]
  /\ plugged = Device
  /\ changes = [made |-> 0, pending |-> FALSE]

PrejoinNext ==
  \/ DeviceGranted \/ DeviceRefused \/ ListArrives \/ ListFails \/ DeviceChange
  \/ \E k \in Kind : TogglePrejoin(k) \/ \E d \in Device[k] : PlugIn(k, d) \/ PullOut(k, d)
  \/ \E what \in Actions :
       (what.name = "select" => what.device \in pre.inputs[what.kind]) /\ Act(what)
  \/ ActRefused \/ ActRequests \/ GoBack

-----------------------------------------------------------------------------
\* Whenever no list is on its way and no change unheard of, what is on display
\* is what the controller has, and unless the last list asked for failed to come
\* (then the old one stays until the next event) it is the devices the machine
\* has, with one of them selected if there is one.
ListIsCurrent ==
  ~pre.over /\ pre.status = "ready" /\ pre.asked = None /\ ~changes.pending =>
    /\ ~pre.dirty
    /\ pre.unread \/ (/\ pre.inputs = plugged
                      /\ \A k \in Kind : plugged[k] # {} => pre.selected[k] \in plugged[k])

=============================================================================
