# ROUND: the specifications beside the code

ROUND is a browser study room. Clients keep WebRTC connections among themselves
(`packages/rtc-core`, TypeScript); a signaling server (`apps/signaling`, Java,
Spring) keeps the rooms, relays negotiations and admits connections; a web client
(`apps/web`, React) shows it all. This directory has TLA+ modules for the parts whose
behaviour depends on the order of events, TLC runs that check them on small
instances, and TLAPS proofs of what holds for instances of every size.

1. [The system](#the-system): components, state, operations, interactions
2. [The modules](#the-modules): what each models and how it corresponds to the code
3. [The runs](#the-runs): what each checks, its bounds and why they are enough
4. [Fairness](#fairness)
5. [The proofs](#the-proofs)
6. [Findings](#findings)
7. [What is not modelled](#what-is-not-modelled)
8. [The plan](#the-plan)

To repeat a run: `tlc -workers 2 -config RoomSessions_membership.cfg MCRoomSessions.tla`;
to repeat a proof: `tlapm RoomSessionsProofs.tla`.

## The system

```
  browser tab                            signaling server
 +----------------------------+         +------------------------------------------+
 | page: entry, preparation,  |         |                                          |
 |  navigation, refreshes     |         |                                          |
 | RoomSession                |  WSS    | handshake: ConnectionAdmissionPolicy     |
 |  signaling transport  <----+---------+-> SignalingService, one lock             |
 |  recovery of the session   |         |     rooms, roles, hands, study, parked   |
 |  study, hands, chat        |         |     leases, heartbeats, join timeouts    |
 |  one PeerConnection-       |         |   SignalingOutboundDispatcher            |
 |  Lifecycle for each peer --+--WebRTC |     a queue and a drain task per peer    |
 +----------------------------+         |   executor: drain tasks, close actions   |
      refreshes of grants and TURN      |   scheduler: sweeps, retention           |
      credentials <-----HTTP------------+-> TURN issuance, participation grants    |
                                        +------------------------------------------+
```

All paths below are under `src/`; `S` is
`apps/signaling/src/main/java/com/personal/round` and `C` is `packages/rtc-core/src`.

| Component | State | Operations | Correct when |
|---|---|---|---|
| Rooms (`S/signaling/SignalingService.java`, `RoomHandQueue`, `RoomStudyState`) | connected peers, rooms and their members, roles, study revisions, hand queues, parked studies with a retention timer | join (with replacement), leave, relay of negotiations, reconnect, moderate, hand, study, disconnect, stop | every member has been told the room as it is; one session per participant; no state outlives its room except a parked study, and that is not lost |
| Connections and admission (`S/signaling/ConnectionAdmissionPolicy.java`, `S/config/ConnectionAdmissionHandshakeHandler.java`, the close actions of `SignalingService`) | counts of reservations by address, token and participant; close decisions, pending cleanups | handshake, connect, refuse, supersede, close attempts, stop, start | counts are those of the sessions; limits hold; every place is given back once |
| Outbound queues (`S/signaling/SignalingOutboundDispatcher.java`) | a queue, byte counts and a draining flag per peer, a global byte count | enqueue, drain, failed send, disconnect, victims of the global limit | frames leave in order, one sender at a time, no lost wakeups, limits hold |
| Supervision of a connection (`heartbeatSweep`, `expireUnjoinedSessions`, `markAlive`, `renewParticipationLease`, `S/auth/RoomAccess.java`) | heartbeat state and challenge, time of a peer outside of rooms, lease | two sweeps, pongs, renewals | silent, idle and expired peers go in time, prompt ones stay |
| Negotiation of a peer connection (`C/peer-*-lifecycle.ts`, parts of `C/room-session.ts`) | negotiation id, retired ids, candidate queues, attempts, four timers, an epoch | offers, answers, candidates, ICE restarts, recreation, manual reconnection | the browser gets only what fits; both sides settle |
| Session of the client (`C/room-session.ts`, `C/signaling-transport.ts`, `C/signaling-recovery-lifecycle.ts`) | status, socket and its generation, reconnect loop, ids it had before, participants | join, leave, reconnect, messages of the server | roster of the room as it is, no ghosts of itself, 4002 is final, nothing left after dispose |
| Data channel and chat (`C/peer-data-channel.ts`, `C/room-chat.ts`) | per peer: queued messages with a timer each, acknowledgements, channel; a ledger of recipients | send, acknowledge, retry, flush, replace channel | each message is shown at most once, and acknowledged or reported as failed |
| Local media (`C/prejoin-media.ts`, `C/prepared-media.ts`, `C/screen-share-lifecycle.ts`, `C/local-input-lifecycle.ts`) | local tracks, a share and its generation, a selection under way, senders of every peer | check devices, hand over, start and stop a share, choose a device, toggle, roll back | every peer gets the same tracks; every live track has an owner; what was turned off stays off |
| Study and activity of the client (`C/room-study.ts`, `C/participant-activity.ts`) | study revision, a pending command, a sync request; measurements under way | command, answer, timeout, resynchronise; sample, reset | the state shown is one the server had; nothing stale is shown |
| Refresh of grants and credentials (`apps/web/src/lib/`: `room-refresh-coordinator.ts`, `participation-grant.ts`, `turn.ts`, `signaling-lease.ts`) | timers, requests in flight, one shared refresh with its waiters | refresh, retry, abort, wake up | a room that is on goes on refreshing; a room that is over does not |
| The page (`apps/web/src/`: `BatonRoomEntryBoundary.tsx`, `App.tsx`, `ActiveRoom.tsx`, `use-room-navigation.ts`, `use-leave-confirmation.ts`, `use-screen-wake-lock.ts`) | the stage of the entry, history positions and a traversal under way, an exit that is asked about, a wake lock | enter, retry, leave, Back and Forward, confirm, show and hide the window | nobody leaves unasked or stays against a confirmed exit; the page and the address agree |
| Inbound limiter (`S/signaling/SignalingInboundLimiter.java`) | fixed windows per connection and participant | allow, evict | a window admits its limit |
| TURN credentials (`S/turn/`) | fixed windows per identity and in all | acquire, issue | limits hold, the waiting time is right |
| Protocol messages, authentication, metrics, React screens, operation scripts | none of their own, or the host's | | see [What is not modelled](#what-is-not-modelled) |

**Interactions.** The client sends one JSON message per frame; the server handles each
under one lock and answers with frames that go through the outbound queues. A handler may
overflow a queue, an overflow closes a peer, a closed peer leaves its room, and its
departure is broadcast through the same queues: one command can set off a cascade. Close
calls, sends and drain tasks run on an executor outside of the lock. Clients relay offers,
answers and candidates through the server and then talk directly.

**What is hard.**

- *Cascades under the lock*: the frames of a cascade and those of the handler that
  set it off share a FIFO, and a handler goes on with state that the cascade may have changed.
- *Threads around the lock*: drain tasks and close attempts take a decision under the
  lock and act on it outside; handshakes reserve places under another lock.
- *Replacement*: the same participant connects from several tabs, in one order, and joins in another.
- *Time*: two sweeps with jitter, a ping that waits behind a queue, a wall clock that is set while leases run.
- *Awaits*: a client handler awaits the browser up to four times and everything may have changed when it goes on.
- *Answers that come late*: tracks, device lists, statistics, wake locks, grants and TURN credentials
  are asked for and given after the one who asked is gone, or another has asked again.
- *Channels that are replaced*: a chat message has been sent, shown, or acknowledged when its channel
  goes, and only one side of the three knows which.
- *The browser moves first*: `popstate` comes after the traversal, which has to be undone, asked about, and
  done again, while the user goes on pressing Back.
- *Glare and recovery*: both sides may make offers at once, and four timers repair what is lost.
- *Nothing is persisted*: a restart of the server is a fresh process; `stop`
  and `start` of the Spring lifecycle are modelled, a crash would be a blank state.

## The modules

| Module | Models | EXTENDS / composes |
|---|---|---|
| `RoomSessions` | rooms of the server, cascade by cascade | |
| `ConnectionAdmission` | the admission policy: counts and limits | |
| `ConnectionLifecycle` | a connection from its handshake to its last close attempt | EXTENDS `ConnectionAdmission` and calls its `HasRoom`, `Reserve`, `Release` |
| `OutboundChannel` | *abstract*: an ordered channel that may only be cut | |
| `OutboundDispatcher` | queues, bytes and drain tasks | implements `OutboundChannel` (`ImplementsChannel`) |
| `PeerSupervision` | sweeps, leases and clocks | |
| `PeerNegotiation` | the two ends of a peer connection | |
| `ClientSession` | one client, its sockets and its place in the room | |
| `ChatMailbox` | *abstract*: what a sender may rely on in the report on its messages | |
| `RoomChat` | data channels and the chat over them | implements `ChatMailbox` (`ImplementsMailbox`) |
| `MediaTracks` | tracks: live or ended, on or off | |
| `Prejoin` | the preparation: device requests, device lists, the hand-over | EXTENDS `MediaTracks` |
| `LocalMedia` | share, device selection and moderation in a room | EXTENDS `MediaTracks` |
| `MediaPath` | tracks from the preparation to the end of the room | composes `Prejoin` and `LocalMedia` |
| `ParticipationGrant` | the shared refresh of a participation grant | |
| `RoomRefresh` | the coordinator: grant, lease, TURN, and the connection that needs them | EXTENDS `ParticipationGrant` |
| `RoomNavigation` | history, traversals and the confirmation of an exit | EXTENDS `RoomRefresh` |
| `RoomPresence` | measurement of activity and the wake lock | EXTENDS `RoomRefresh` |
| `RoomPage` | the page of a room, from its entry to its end | composes the four above |
| `MC...` | values of the constants | EXTENDS the module it is named after |
| `...Proofs` | theorems | EXTENDS the module it is named after |

A definition keeps the name of the method it models where it can. A definition whose
comment begins with `Fault:` is a plausible bug: the definition after it with that bug in
it. No specification uses them; each property was seen to fail when one of them takes the
place of the definition it is a variant of, which `PROJECT.json` lists under `mutants`.

### RoomSessions

*State.* `conn`, `order`, `roomOf`, `role` and `announced` are the fields of `Peer`;
`members`, `study`, `hands` and `parked` are the maps `rooms`, `studyStates`,
`handQueues` and `parkedStudyStates`. `load` counts the frames a peer has queued or in
flight and `inFlight` says that one is being sent. `work` is the list of
`enqueueAllLocked` and `then` is the rest of the handler. `told[c]` is no state of the
code: it adds up what the frames enqueued for `c` say, in their order, so it is what the
client of `c` knows when its queue is delivered.

*Steps.* A handler (`Join`, `Leave`, `Relay`, `Moderate`, `Reconnect`, `SetHand`,
`AskStudy`, `CommandStudy`, `Drop`, `Stop`) is one step up to its call of
`enqueueAllLocked`. Each pass of that loop is a step, `EnqueueOne`: the frame is
skipped because its peer is gone, closes its peer because the lease has expired or the
queue is full, closes a victim because all queues are full, or is accepted. A closed peer
leaves its room and appends the frames of its departure. `Join` goes on with `ResumeJoin`
after the departure of the session it replaces and with `Announce` after the
`room.joined` frame; `Reconnect` with `AnswerReconnect` or `RefuseReconnect`.
Nothing else starts while `work` or `then` is not empty (the lock is held), but a lease
can expire, since the code reads the clock at each pass, and a send that the executor
has under way needs the lock to end.

*Abstractions.* Every frame is of size one and the two limits are in frames
(`OutboundDispatcher` has bytes). A study is its revision; its payload is opaque. A
heartbeat, a failed send, a lost connection, an inbound limit, an invalid frame and the
join timeout all appear as `Drop`, at any time. `Refuse` is a command that is
answered with an error. The retention of a parked study is a flag that
`RetentionElapses` takes away. Roles: the function `Roles` gives what `roleFor` may resolve.

### ConnectionAdmission and ConnectionLifecycle

*State.* The four counts of the policy, plus `reservation`, which is the flag inside a
`Reservation`: the policy itself keeps only counts. `phase` is where a session is;
`decided`, `terminal` and `closing` are the fields of its `SessionCloseDecision`,
`waiting` is `pendingTerminalCleanup`, `queued` the close actions the executor has,
`calls` the calls of `close` that have not returned, and `shutting` the sessions that
`stop` is about to close. `closed` and `returned` are history: the statuses `close` was called
with and the replaced sessions whose close is over.

*Steps.* `BeginHandshake` reserves or refuses; `EndHandshake` upgrades or fails;
`Connect`, `RefuseConnect` and `EndRefusal` are `connect`; `Disconnect` and
`DisconnectAndClose` are the ways a session goes; `Supersede` is what a join does to
the session it replaces; `LateEvent` is a frame or an error of a session that is gone;
`BeginClose` and `EndClose` are a close action before and after the call outside of the
lock; `Stop`, `CloseAtShutdown`, `Start`. Which of two sessions of a
participant is replaced is `RoomSessions`' business; here it is any.

### OutboundChannel and OutboundDispatcher

`OutboundDispatcher` has the per-peer `QueueState` and the steps of a drain task:
`Take` (under the lock), the send, `EndSend` or `FailSend`, and after a failure
`HandleFailure` (the handler of `SignalingService`) and `EndFailure` (the `finally`
block), each of which takes the lock anew. `Offer` is `enqueueOneLocked` for one frame with
the choice of victims. `accepted`, `broken` and `wire` are history. A queue without an
entry in the map is an empty one that is not draining.

`OutboundChannel` is the promise: frames leave in the order in which they were accepted,
none twice, none skipped; a loss or a close ends the channel, and after a close at most
the frame that was about to leave still leaves. The refinement maps `pending` to the frame that is being
sent followed by the queue.

### PeerSupervision

Time is `now`, in ticks; the wall clock is `now + skew`. The two sweeps run with a fixed
delay (`beatDue`, `joinDue`), up to `MaxLate` late; `Tick` cannot pass the latest moment
of a sweep, of a queued ping (`MaxSendDelay`) or of the answer of a prompt peer. A pong may repeat any
challenge the peer has received. Leases end by `IsExpired`: by the wall clock or by the
monotonic clock, whichever is first. `asked`, `sent`, `heard` and `outside` are history.
Joins and departures are only the switch of the join timeout.

### PeerNegotiation

Both clients run the same definitions. `pc[c]` is the `PeerConnectionLifecycle` of the
other member with its negotiation id, retired ids, queues, attempts and timers, and the
browser's connection: signaling state, descriptions, the candidates it gathers and the
link. `net` holds the messages that are on their way: the server keeps the order
between two members. A handler is one step up to its first `await`; the awaited operation
goes to `ops` and the step that ends it is the next part of the handler with its
checks of what is still current. A description names its connection's ICE credentials and epoch,
so properties can tell where it came from.

*External.* The browser: operations run one after the other, in order (the operations chain of the
WebRTC specification); an offer may be refused by it; credentials change with each ICE
restart; a link comes up only between two sides whose current descriptions fit. "New" and
"connecting" are one state, and "connected" counts when the data channel is open too, as
`finishRecovery` wants it. Left out: failures of `setLocalDescription`,
`getStats` (a refresh takes every connection for one that may be relayed), a
signaling transport that is down. Candidates are not needed for a link to come up.

*Disturbances.* What goes wrong (a lost path, a track added, a failed sender, refreshed
credentials, the retry button, an offer the browser refuses, a timer that fires before
its time has any right to) happens at most once each, and `Scenarios` says which of
them happen together.

### ClientSession

*State.* `me` is a record of the fields of `RoomSession` and its parts: status, `bound` (the
socket of the transport), `self` and `stale` (ids it has and had), `roster`, `hand` and `queue`,
`study`, `command` and `syncing` (of `RoomStudy`), `watch` (the timer of liveness) and `task`, the
`join` or reconnection that is under way with the await it stands at: `before` (`beforeConnect`),
`opening`, `joining` or `delay`. A socket has a number, which is also the peer id the server
gives to its connection; it has a state at the client (`ready`), one at the server (`conn`) and a FIFO each
way. `cut` are sockets whose path is lost: what is on it vanishes, and each side notices by
itself. `room` is the server's room, `known` (history) the ids the client has had.

*Steps.* `Join`, `Leave`, the ends of each await (`EndBefore`, `RejectBefore`, `Open`,
`RejectOpening`, `JoinTimer`, `DelayTimer`), one step for each message and for the close event,
`SetHandRaised`, `SyncStudy`, `UpdateStudy` and the timers `CommandTimer` and `LivenessTimer`; one step
for each frame the server takes. A handler includes the continuation of
what it settles: a rejected join is the catch block of `performJoin`, or the next round of
`performReconnect` up to its next await (`AfterFailure`). Promise reactions run before the next event, so
nothing comes between.

*The room* has the same rules as in `RoomSessions` (replacement in the order of connections,
parked studies, hands that a departure lowers), with one step per frame: its cascades and queues are checked there.
Frames the server has queued count as sent. A restart closes every socket and forgets the room.

*Abstractions.* The error answers of the server are those to a join (`ROOM_FULL`,
`FORBIDDEN`); `TARGET_SELF`, `NOT_IN_ROOM` and `INVALID_MESSAGE` answer messages a client in
this state does not send. Whether the reconnection window is over is a choice at each failure.
A server-side connection appears when the client's socket opens: one that opens only after the client has given up
would never join. The tab is visible, so the study is asked for regularly
(`apps/web/src/components/ActiveRoom.tsx:380`). Timers run out when the path is lost;
where an answer can still come they fire only as a disturbance (`early`). A timer of
liveness that is very late asks the server once more, but not twice in a row. Other members
come once each, may command the study, and raise no hands. Connections to them are `PeerNegotiation`.

### ChatMailbox and RoomChat

*State.* A link to a peer has two ends; `end` is the `PeerContext` of each with its
`PeerDataChannel`: the queue of messages, the acknowledgements and the media state that wait for a
channel, the ids received (`got`), the recovery (`recovering`, its `attempt`, its timer `timed`) and the grace period
of a closed channel. `chan` is the last channel of the link with the end that made it, `due` a channel an end has yet to
hear of although a later one has been made, and `wire` the frames between the two ends, which
are what the channel has buffered. `ledger`, `kept` and `history` are the maps of `RoomChatLedger`. `shown`,
`seen` and `remote` are what the peer has on display. `quiet` (history) says that a channel opened on a connected end that
had no recovery to end.

*Steps.* Channels come, open, close, report errors and are replaced (`CreateChannel` to
`GraceEnds`). As in `createOffer`, either end makes one whenever it has none, the grace period after `onclose` included: what
makes it offer (joining, a recovery, a track that was added, a moved camera) is `PeerNegotiation`, and here any time is one.
Two channels may cross: the end that made the newer one then hears of the older one and takes that (`Crosses`). A recovery begins, is retried and given up (`RecoveryTimer`, `Renew`); the
user sends, sends again (`SendChat`, `RetryChat`), changes media (`SetMedia`), comes back under
another id (`Rejoin`); a message's timer expires (`Expire`); an end reads a frame (`ReadAck`,
`ReadMedia`, `ReadChat`), ignores it when its window is full, or gets the `bufferedamountlow` event.
Flushing is part of the step that causes it: `Flushed` sends as much as the budget lets pass, keeping the reserve
for acknowledgements.

*Abstractions.* The code is the same at both ends; here the near end chats and the far end acknowledges. Sizes are
in frames. A user may send again at any time, where the code stops after two minutes. Negotiation is
`PeerNegotiation`; here a new connection is the fact that the channels of the old one are gone.

`ChatMailbox` is what a sender may rely on: an acknowledged message was shown, none is shown
twice, only what failed is sent again, and once the sender is silent every report is closed. The refinement
maps `report` to the ledger of all messages ever sent, `shown` to itself.

### MediaTracks, Prejoin, LocalMedia and MediaPath

*State.* `track[t]` is what is known of a `MediaStreamTrack`. `pre` is the `PrejoinMedia` (device
requests to do, one stream, device lists with the request that is under way, whether the last change was emitted; `unread`
(history): the last list asked for failed to come) and
`screen` the `PrejoinScreen` with its authorized action. `peer[p]` is a
connection with its number, the track of each sender, what was offered, and whether an offer is
wanted; `share` and `input` are the fields of the two lifecycles; `job` is the start,
stop or selection under way: `phase` tells where it is (`prompt`, `starting`, `replacing`, `undoing`, ...), `at` the
connection whose `replaceTrack` it waits for. `barred` (history) are the kinds the host turned
off. `prepared` is the stream between the preparation and the session.

*Steps.* A step runs the code up to its next `await`. A list of devices arrives or fails (`ListArrives`, `ListFails`); in the
second case the code keeps the old one and goes on, and so does the model. `Resume` continues a job: it
checks that the operation still owns its generation, goes to the next connection, commits or rolls back.
`WaitIsClosed` is the case in which the connection whose sender is replaced has been replaced itself. `Moderate`, `Toggle`,
ended tracks, peers that come, go and get another connection, `Drop`, `Rejoin` and `Leave` happen at any await.

*Abstractions.* Video quality and the microphone meter are left out: they follow the tracks. The
code visits the connections in the order of a `Map` that grows while it is visited; here the order is any.
Of the negotiation only the request for an offer is kept. A number of a track that nobody refers to is used again,
and a device is granted only while there is one (`Spare`).

### ParticipationGrant, RoomRefresh, RoomNavigation, RoomPresence and RoomPage

*State.* `grant` is the manager: how many grants it has issued, whether the last is fresh, at which of
its two requests the shared refresh stands, and who waits for it. `refresh` is the coordinator: its timers, TURN
requests, lease renewals and retries, and whether TURN is due by the wall clock. `session` is
`ClientSession` seen from here, with the grant that its connection was made with. `page` is
the stage of the entry and of `startSession`. `shell` is the browser's history with the `history.go` calls that have
not run, and the fields of the two hooks. `sampling` is the activity tracker with its measurement, `wake` the hook of
the wake lock and `held` the locks that really are.

*Steps.* An operator changes the state as a value as far as the code runs without waiting
(`Granted`, `Refused`, `Failed` are the continuations of whoever waited for the grant); an action is an event:
a timer, an answer, a click. A React render and its effects belong to the event that caused them: the
conjuncts `Rendered` and `Attended` of `Next`.

*Abstractions.* Monotonic and wall-clock deadlines of a grant are one event, it falls due. The double effects of
React's StrictMode, `null` TURN credentials of local development, and the manager a coordinator makes for
itself are left out. When a page is replaced, those who waited in its manager are dropped: their continuations find it
closed. `markSignalingJoined` happens with the join. There is one room; only standalone deployments move within the document.
Closing or reloading the tab, `beforeunload`, and Back out of the document are not modelled. Speaking and quality are
one fact, "activity"; nor does the model say to which connection of a peer a measurement belongs, only whether it may be shown.

## The runs

Each run terminates over its whole state space. `CHECK_DEADLOCK FALSE` is in every cfg:
the bounded systems stop when their budget of connections, revisions, time or disturbances is
used up, and that is what "stopped" means there. That nobody is stuck before is what the
liveness properties say (`LockIsReleased`, `SentOrClosed`, `PlacesAreFreed`, `Settles`,
`TracksAreOffered`, `JobsEnd`, the last conjunct of `ImplementsMailbox`), and `NothingIsStuck` and `StaysFresh` as invariants.

| Run | Question | Properties |
|---|---|---|
| `membership` | Do members know the room through every cascade and replacement? | `TypeOK`, `MembersAreTold`, `OneSessionPerParticipant`, `CallsArePaired`, `LockIsReleased`, `OnlyNewerReplaces` |
| `study` | Is the study state kept, parked and told properly? | `StudyIsTold`, `RoomsAreTidy`, `StudySurvives` |
| `closing` | Is every reservation given back, once, by the right attempt? | `AdmissionHolds`, `ReservationsHaveOwners`, `ReplacedIsTold`, `PlacesAreFreed` |
| `delivery` | Does the dispatcher implement the channel with its limits and failures? | `CountsAddUp`, `OneSender`, `NothingIsStuck`, `ImplementsChannel`, `SentOrClosed` |
| `time` | Who is closed when? | `NobodyOverstays`, `PromptPeersStay`, `AccessEnds`, `RenewalsExtend` |
| `pair` | Does a negotiation stay sound and settle, whatever disturbs it? | `NothingStrays`, `Settles`, `TracksAreOffered` |
| `rejoin` | Does a client come back to the room as it is, or end cleanly? | `ViewAgrees`, `NothingIsLeft`, `Settles` |
| `chat` | Is what the sender is told of a message what became of it? | `NothingIsForgotten`, `ImplementsMailbox` |
| `media` | Does every peer get what the user shares, and is every track stopped in the end? | `EveryTrackIsOwned`, `SendersFollow`, `StaysOff`, `ListIsCurrent`, `JobsEnd` |
| `refresh` | Does a page keep its room fresh, leave it when meant, and show no stale answer? | `StaysFresh`, `GrantIsNew`, `EndsAreClean`, `PresenceIsTrue`, `LeavingIsMeant` |
| `deferred` | Is a restart that "is waiting for stable signaling" made? (no: see [Findings](#findings)) | `DeferredRestartsHappen` |
| `reopened` | Is what waited for a closed channel sent when it is recreated? (no: see [Findings](#findings)) | `ReopenedIsFlushed` |

**membership**: three connections, two of participant `p` and one without a grant, in one room
that holds them all; two frames per peer and three in all, one revision of the hand queue
(`MaxRevision`) and two reconnections (`MaxCalls`), so that both sides ask, or one asks again, while the frames of the first
are still being enqueued: the run has states in which the two sides were told different ids, in the middle of a cascade. Relayed, moderating and refused commands add nothing but frames and
are in `study`. Two connections of one participant are enough for
replacements in both orders; a limit of two frames overflows in the middle of a join or of a reconnection, and three in all
closes a victim that is not the target; a raised hand is lowered by any of these departures.

**study**: three connections, all hosts, two rooms of two, so that the third finds one full;
two frames per peer and two in all, so that either limit closes somebody; one parked study
(`MaxParked`), so a second one pushes it out, and one revision of each study (`MaxRevision`), so a command meets the revision it expects or a stale one.

**closing**: five connections, of which each of four settings (`Settings`) has some come: 1, 2 and 3 of one participant to a server for
three (3 finds both seats taken, `MaxPerSeat` being 2 in the code); 1 and 4, of different participants and addresses, to a server for
one (4 finds it full); 1 and 3 from one address that may have one (3 is refused); 1 and 5 with one token (5 is refused). So each limit
alone refuses somebody, and leaving out or shifting any of the four comparisons violates `AdmissionHolds`; two overlapping close calls (`MaxCalls`).
Every reason that is not a replacement, an expired lease or a shutdown takes the same
path, so `Reasons` has one member.

**delivery**: three peers, so that there is more than one choice of a victim, frames of
one or two bytes, queues of two frames, three bytes per peer and four in all, two frames
accepted for each peer (`MaxAccepted`): the second meets a drain task at every point.

**time**: one of three peers connects (`MaxPeers`): a silent one, a prompt one whose pings
wait longer than the slack, one with grants that end at 4, 6 and 9. Peers do not influence each other
here. A heartbeat of 3 with 1 of slack, a join timeout of 3 swept every 2, sweeps 1 late,
a clock set by up to 1, and 11 ticks (`MaxTime`): a silent peer could pass its bound of two periods (8), an
idle one its bound of 6 and a grant its end. The bound of three periods, for pings that wait, is left to the proof.

**pair**: two members; two retired ids, a queue of one early candidate, one retry of an
offer. The scenarios are each disturbance by itself, and a failed sender together with
early timers or with the retry button (both need one before they do anything). A track added
on either side makes two offers cross (glare); the others make one connection replace
another.
Two disturbances of any kind were run once for the three parts of `NothingStrays` (1.95 million states, no
violation); with liveness that is beyond a run of minutes.

**rejoin**: one client with and without a BATON grant, one other member, a room of three
(full with two ghosts of the client in it), two attempts per reconnection, at most five sockets and
three earlier ids. Five sockets are enough for every scenario: the first, and two reconnections of
two attempts each. The code remembers 32 earlier ids (`MaxStale`); a client that has had more ids besides its own forgets
the oldest, and then nothing in it tells its ghost from a member. `NeverItself` promises nothing there
(`Cardinality(known) <= MaxStale + 1`); the run does not come so far. The scenarios combine a lost path with each other
disturbance, and have those without a lost path that need company: a hand raised and lowered around a
restart, where the revision of the queue starts anew, and a study command whose timer is early.

**chat**: a sender with two peers: `a`, with two channels in turn, and `z`, whose channel never comes, so that one
message has two fates. Every limit is one (queue, received ids, acknowledgements, messages on display, buffer), so that two
messages (`Chats`) and one change of the media meet each of them: the second message is refused, evicts a
received id, or waits for the buffer. `Scenes` are the disturbances that happen together: an error, a failed send, a lost connection, another connection on
request, a full window, a peer that leaves; a change of the media while two channels cross; a timer that is early and a recovery
that is given up; a message that is sent again after the sender is back under another id. Larger scenes were run once each,
without a violation: a change of the media with an error, a failed send, a lost connection, or an early timer and a recovery
given up; a message sent again with an error, another connection, or crossing channels; an error with crossing channels (40 to
120 thousand states each).

**media**: two peers, so that a sweep has a connection behind it and one before it when something happens; a microphone and two
cameras, one device that comes or goes, one request of the preparation. Eight tracks are more than are ever known at once:
a device is granted under the guard that a number is to spare (`Spare`), and the run was repeated to see that the guard never blocks. `Together` has eight sets of events: each pairs
a share or a selection with what may come between its awaits. A share that is stopped, started again, loses its camera and
the signaling in one behavior was run once (332 thousand states).

**refresh**: grants that fall due twice and two lost connections, with every failure of a request; two navigations, four moves
of the user and two changes of the draft, on a fresh history, one with the home page, and one that was loaded anew; three
changes of visibility, four of the peers `p` and `q` and two of the wake lock. Two TURN refreshes at one time (`Turns`)
and two retries of a lease (`MaxLeaseRetries`, as in the code).

## Fairness

- `RoomSessions`: the thread that holds the lock runs on (`HoldingLock`). Nothing is assumed of
  clients or of the executor: a cascade ends even if no send ever does.
- `ConnectionLifecycle`: the closing of a session goes on (`Closing`): the executor begins close actions and
  `close` returns or throws, which is what the container's send timeout gives. Nothing is assumed of handshakes.
- `OutboundDispatcher`: drain tasks run (the executor falls back to the calling thread)
  and `sendMessage` returns or throws.
- `PeerNegotiation`: a client with something to do does something, `WF_vars(Progress(c))`, one
  condition per client: an event loop runs. Disturbances are never fair. Timers may
  fire while messages or operations are under way only as a disturbance (`early`): the code's timeouts are
  seconds long and the operations of a browser and a relay are not.
- `ClientSession`: the event loop of the client (`Task`, `Message`), its regular request of the
  study and its timer of liveness run, and the server takes frames and notices lost
  connections (`Server(k)`, its heartbeat). A browser that notices a lost path (`NoticeCut`) is not fair:
  the timer of liveness is there because it may not.
- `RoomChat`: the timers of queued messages run out (`Expire`, weakly fair as a whole: a message that is queued
  is acknowledged, dropped or expires). Nothing is assumed of channels or peers.
- `MediaPath`: promises settle: a prompt is answered, and `replaceTrack` resolves, rejects, or its connection
  closes. `Fairness` is weak fairness of `Going` written out, with the condition under which it is
  enabled in place of `ENABLED`, which TLC would have to enumerate.
- `PeerSupervision` has no liveness: its promises are bounds on time, hence invariants.
- `RoomPage` has none either: that a refresh goes on is an invariant, a timer is set or an answer awaited; that it
  succeeds depends on the network.

## The proofs

TLAPS checks every theorem for all values of the constants that satisfy the `ASSUME`s of
the modules. Those say what a configuration of the server is: limits are natural numbers
(positive where the code's validation demands it), the markers for "none" are neither ids nor any of the lists, pairs and sets they stand in
for, the sets of connections and of peers are finite, and the devices are a function of their kind; a page
of BATON is loaded in a room, since without one it shows `BatonRuntimeRoot` only (`apps/web/src/App.tsx:235`). No theorem
assumes anything of the environment beyond the specification except
`PromptnessPays`, whose assumption `PromptEnough` says how prompt a peer has to be: a ping leaves
before the next sweep and its answer is back before the deadline.

| Module | Theorem | Says |
|---|---|---|
| `RoomSessionsProofs` | `TypeCorrect` | `TypeOK` |
| | `SessionsAreUnique` | a participant is in a room once, at every point of a replacement |
| | `RoomsStayTidy` | the maps of the service agree |
| | `HandlersResumeSafely` | what a handler looked up before a cascade is still right after it |
| | `NewestSessionStays` | only a newer connection replaces a member |
| | `StudyOutlivesSessions` | a study is lost only by leaving, retention, displacement or a stop |
| | `EveryoneIsTold` | members know who is in the room and whose hand is up |
| | `StudyIsCurrent` | and the revision of its study |
| | `CallsStayPaired` | two members agree on their last reconnection |
| `ConnectionLifecycleProofs` | `CountsStayExact` | counts are those of the reservations held |
| | `LimitsAreKept` | sessions in use, replaced ones included, stay within the limits |
| | `AdmissionIsKept` | both, as the run checks them (`AdmissionHolds`) |
| | `ReservationsAreOwned` | a reservation is held as long as its session is in use |
| | `ReplacedIsNeverInvitedBack` | a replaced session is closed with 4002 only |
| | `OneAttemptAtATime` | one task closes a session |
| `OutboundDispatcherProofs` | `SendersAreSingle` | one task per peer |
| | `WakeupsAreKept` | a queued frame has a task |
| | `DispatcherImplementsChannel` | the refinement |
| | `FramesLeaveInOrder` | what left is an initial part of what was accepted |
| | `CountsStayTrue` | the byte counts are those of the frames, within both limits |
| | `DispatcherTypes` | the types of the queues |
| `PeerSupervisionProofs` | `SilenceIsShort`, `OutsideIsShort`, `GrantsBound` | the three bounds on time |
| | `StaysAreShort` | the first two, as the run checks them (`NobodyOverstays`) |
| | `RenewalsAddTime`, `TimeoutsAreEarned`, `PromptnessPays` | nobody loses time or is closed without cause |
| `ClientSessionProofs` | `SessionsEndClean` | one socket, and none, nor a timer, when the session is over |
| | `ClientSeesTheRoom` | with nothing on its way, the client shows the members, the hands and the study of the room; never an earlier self |
| `RoomChatProofs` | `ForgetsNothing` | the ledger, the queues and the timers agree; an idle link has told its peer everything, unless it is `quiet` or the peer had to ignore frames |
| | `ChatIsMailbox` | the safety part of the refinement of `ChatMailbox` |
| | `ChatFits` | the inductive invariant under both |
| `MediaPathProofs` | `TracksAreOwned` | every live track has one owner |
| | `HostTurnsOff` | what the host turned off stays off |
| | `SendersFollowStream` | with nothing under way every connection sends the stream, and an offer says or will say so unless its request was `dropped` |
| | `ListsAreCurrent` | the devices on display are those there are, unless the last list asked for failed to come (`unread`) |
| `RoomPageProofs` | `PagesFit` | grant, coordinator, session, page and address fit one another |
| | `RoomStaysFresh` | somebody will refresh the grant and the credentials, and the lease follows unless the grant came while the connection was made (`missed`) |
| | `ConnectsWithNewGrant` | no connection is made with the grant of the last one |
| | `EndsForGood` | what is over has no timers and asks nobody |
| | `PresenceHolds` | the screen and the activity shown are those of a call that is seen |

**RoomSessions.** `IInv == Consistent /\ InFlightIsCounted`, where `Consistent` is `TypeOK`, `Maps`
and `ContinuationFits`. `OneSessionPerParticipant` is not inductive: `ResumeJoin` enters a
room without looking again. What makes it right is that no other session of the
participant can have entered since (`ContinuationFits`), which holds because the rest of a handler
is the only thing that enters rooms while the lock is held. `RaisedAreAnnounced` is needed
because a member that was not announced leaves without its hand being lowered: so it must
not have raised one. `InFlightIsCounted` keeps `load` a natural number. A departure
(`RemovePeerFromRoom`) is the common part of most actions; a lemma about its shape and one about
each conjunct of `Maps` are proved once. `NewestSessionStays` needs that sequence numbers tell open
connections apart (`Ordered`). `StudyOutlivesSessions` looks at the only steps that empty a room
or shorten `parked`.

**What members are told.** `Delivered == TruthIsOnItsWay /\ PairsMatch /\ AnswerFits /\ AnnouncedOnce`. The
three properties speak of a free lock; inside of a cascade they are false, since the room has
changed and its members have not been told. The invariant looks ahead: `WillHold` is what a member may believe of a
topic (the roster, the hands, the study, a connection id) once the frames in `work` that are for it are enqueued, and
`TruthIsOnItsWay` says that this is the truth. `PairsMatch` says that two members will agree on their reconnection unless
the handler has still to send the second of its two frames, and `AnswerFits` that this frame will have the id of the
first. `AnnouncedOnce` says that a member about to be announced was not announced before. With an empty `work` these are
the properties. Most of that part of the module is about a departure, which may happen between any two frames: it takes its member
out of the room, appends the frames that say so, and the frames for it are skipped.

**ConnectionLifecycle.** `Inv` is one invariant per session (`SessionInv`) and one of the counts.
`AttemptInv` ties the flag `closeInProgress` to the one attempt there is, queued or called;
`WaitingInv` and `TerminalInv` say that a replaced session waits for exactly that attempt;
`HoldingInv` derives who holds a reservation. The counts then follow from the cardinality
of the sets of holders, step by step, and the limits from the guard of `Reserve`.

**OutboundDispatcher.** `Fine(p)` says where the single task of a peer is
(`OneTask`), that the draining flag of an open peer is up exactly while there is one, and
that a peer that is closed or has no task has no frames. For the refinement, `EveryStepIsAllowed`
shows action by action that each is a step of the channel or none. The order of frames follows from the steps of
the channel alone (`InSequence`): the refinement says that the dispatcher makes no others. The byte counts are sums over a queue and over the peers. `Total(f, S)`
counts units, the pairs of an `x` of `S` and a number up to `f[x]`, so that what a sum needs (disjoint sets add up, sums
of sums, one number more or less, the tail of a queue) follows from unions and bijections of finite sets and no
induction is needed. `SumsFit` is `CountsAddUp` said with the one frame a task has in hand (`Sums(p)`); its step
for `Release` needs `Fine`, which says that the frame being released is that one, and the step for `Offer` the sum that the
victims release. A send that ends gives back the length of its own frame, not `inFlight[p]`; the two are equal because
a peer has one task.

**PeerSupervision.** The invariants speak of the times of the *last* sweeps, `LastBeat` and
`LastJoin`, and of what they saw: a peer outside for less than the timeout
(`OutsideInv`), a lease that had not expired (`LeaseInv`), the last answer no older than one period
for each sweep that found the ping unanswered (`ReadyInv`, `QueuedInv`, `AwaitingInv`). The bounds
follow since no sweep is late by more than `MaxLate`.

**ClientSession.** `SocketsFit` adds to `NothingIsLeft` where a socket is bound: none while the task waits for
`beforeConnect` or a delay, and one while it waits for `opening` or for the answer to a join. A session that
gives up its socket there, for whatever reason, is one again (`EndingsAreSessions`).

**What the client shows.** `ViewAgrees` speaks of a client to which nothing is on its way, so its invariant has to say what will
become of the frames that are. `Sees(m, u, d, r, k)` does, for session `m`, the frames `u` and `d` of its socket `k` in
either direction and the room `r`: of every other member, the last frame in `d` that says something about it says the
truth, or what `m` has does if there is none (`Ends`); of the hands, a request is in `u`, or the last state in `d` or
in `m` is that of the room, and none has a higher revision; of the study likewise; a command waits for
itself in `u` or for its answer in `d`. `LiveFits` says this of the socket in use as long as both of its ends are open and its path is
not lost, which is all that `Quiet` needs. Three facts carry it. What is on the way to the server
is in order, its join first (`Lines`), so nobody is told anything before it has joined. The first frame a client without
an id reads confirms its join, or is a refusal and the client is no member (`GreetFits`): what a new
member is told next is about a room whose members it knows. And an earlier id that is out of the room for good
(`Never`) is forgotten, while any other is in the memory (`Memory`): when the confirmation names
members, its earlier selves among them are known (`OkFirst`). A confirmed id is in the memory at most once, which is
why `Forget` removes one element. The proof has one lemma per action; those of the server go
through one for each part of `Sees` on what a frame at the end of `d` changes (`HandsSeen`, `StudySeen`, ...), those of the
client that read through `Reading` and `OthersSeen` (what a frame says nothing about stays), those that
send through `RequestFits`, and those that give the socket up through `GivingUp`.

**RoomChat.** `ChatInv` is the types, one invariant of the books (`BookFits`) and one of every link, `LinkFits(p)`, with seven
parts. `Shaped`: an end with an open channel has a partner at the other end of it, or the wire is empty. `Member`: the peer
of the present connection knows the sender by its present id, and who left is not there. `Synced`:
the peer ignores nothing, and what is to be sent over an open channel is in the wire, waits for the buffer to drain, or is
shown (`Flows`); this is not claimed of an end that is `quiet`, of which `ReopenedIsFlushed` fails. `Known`: what
a peer acknowledges, it has shown. `Heading`: what is on its way to a peer that listens is of the sender it knows and on the
books. `Credit`: a message was shown once if the peer has seen it of its author, and otherwise never; this is what makes
`Heading` necessary, as the peer tells messages apart by sender and id and the sender may be back under another one.
`Waiting`: the queue holds what is pending, each once. `Numbered` says that the messages sent so far are the first ones, so that
the next is new. An operation of an end (a flush that goes well, or throws after any number of frames) is described
once, by relations between the end, its wire and its channel before and after (`FlushRel`, `EndMove`, `Turn`), and the actions
only say which of them they are; most of a link then follows from `NearFits`, `FarFits` or `AnewFits`, according to who moved.
`Only` takes messages out of a queue without recursion, which is why a queue is known to stay in order and without repetition.
The proof shows of every step that it is one of the mailbox or none (`MailStep`) along with the invariant.

**MediaPath.** `PathFits` is one invariant by stage: during the preparation `PreparationFits` (the stream holds the
live tracks, and the device list is the one there was at its request unless a change is pending), on the way
`EnteringFits`, and in the room `Fits(World) == Core(World) /\ OffFits(World)`. `EveryTrackIsOwned` is not
inductive: who stops the track of a share, a selection or a rollback depends on where
the job stands, which `ShareFits` and `InputFits` say phase by phase. `OffFits` strengthens `StaysOff`
by what is going to be: what a selection under way will turn on, and the cameras that are back in the stream before
a stop the host asked for has turned them off; `KindsFit` says that a device being chosen is off and not yet in the stream. The
operators of `LocalMedia` map a world to the worlds an event may lead to, so the proof
has a lemma for each of them (`Sweep`, `Undo`, `StopSweep`, `Ended`, ...) and an action only combines them.
`SendersFollow` says something only of the moments at which no job is under way, so its invariant, `Follows(World)`, says what a job
owes meanwhile: a sender is right (`Fine`), or some job at work knows of it (`Covered`), because it waits for it, has
noted what to put back, has yet to stop it, or will replace the connection on which it failed; and a sender is in an offer, or
was added by a job that will ask for one. `JobFits` says that what is noted is right to put back, even after the camera
it was has ended or another one has been chosen; `LinkFits` that it is of no later connection than there is, which makes
a replaced connection the job's no longer; `Exclusive` that no device is chosen while a screen is being started. That the stream has one live
track of a kind (`Lone`) comes from the preparation, so the invariant of the path, `PathFollows`, begins there.

**RoomPage.** `PageFits == RoomFits(World) /\ ShellFits`. `RoomFits` says who may wait for a grant at each stage of the
page (`Waits`), that no number of a grant is ahead of the newest (`NoneAhead`), with which grants the connections were
made (`MadeWith`), that the newest grant has been passed on (`Told`), and that nothing is left without a timer or an
answer (`GrantIsOn`, `TurnIsOn`). The hard step is an answer: all who waited go on in one step, and the first
may end the session, close the manager or ask for another grant before the second has heard. `GoingOnKeeps` shows once that
a relation which each of them keeps holds at the end of the chain. `AllGoOn` is a
recursive function, so this is an induction over a sequence, made with the smallest index at
which it fails (`Smallest`) instead of an induction theorem. While the chain lasts, `Told` and `GrantIsOn` do not hold; `Answering`,
`Untold` and `Dealt` say what holds instead for those who have not gone on yet. `PresenceFits` is about the wake lock
(`LockFits`: a request belongs to a call that is on, and one that comes too late is made again) and the measurement
(`SamplingFits`: what was begun before the window was hidden is not fresh). Only its step from
an active session to none needs `PageFits`.

**Only model-checked.** Liveness under fairness (`LockIsReleased`, `PlacesAreFreed`, `SentOrClosed`,
`Settles`, `TracksAreOffered`, `JobsEnd`), which the prover does not reach, and with it the whole of `ImplementsMailbox`,
whose specification has a liveness part; `LeavingIsMeant`, of which one part is an
action property of the whole path; and `NothingStrays`, which the plan has left.

## Findings

**A deferred restart is forgotten.** `DeferredRestartsHappen` is violated (run `deferred`). An ICE restart that meets an
unfinished negotiation is answered with the warning "ICE restart for … is waiting for
stable signaling" (`packages/rtc-core/src/peer-negotiation-lifecycle.ts:64`) and `createOffer`
returns. Nothing remembers it: `drainRenegotiation` looks only at
`pendingLocalRenegotiation`. If the negotiation ends well on a connection that is up, the
recovery timer is cancelled, the warning is cleared, and the restart never happens. A user
meets it when the TURN credentials are renewed while a track is being negotiated: the relayed
connection goes on with the old credentials. The property counts only restarts of a
connection that is up; on any other the timers make a new connection, which `Settles` shows.

**A recreated channel may not flush.** `ReopenedIsFlushed` is violated (run `reopened`). The test at
`packages/rtc-core/test/room-session-data-channel-lifecycle.test.ts:203` "recreates a closed channel and flushes
chat that was waiting for it". A channel that opens on a connected
connection is left to `finish` (`packages/rtc-core/src/peer-recovery-lifecycle.ts:227`), which flushes only if it has
recovery activity to end. There is none if the channel comes within the grace period after the last one closed: either end may
have made it, in an offer it sends for another reason (`packages/rtc-core/src/peer-negotiation-lifecycle.ts:78`), and `attach` has
cleared the timer that would have begun a recovery (`packages/rtc-core/src/peer-data-channel.ts:97`). A message queued before that
channel opened, or the state of the media, then stays at an idle link until something else flushes it or it
expires. The test waits for the recovery instead. `NothingIsForgotten` excludes these links (`quiet` at the
sender, whichever end made the channel) and shows that nothing waits on any other.

Five more observations shaped properties without being violations of anything the repository says:

- `rollbackSenderUpdates` (`packages/rtc-core/src/room-session.ts:876`) clears the request for a
  renegotiation of a connection without asking whether it was this operation's: a sender that another
  operation has added may wait for the next offer. `SendersFollow` excludes it (`dropped`).
- A grant that is issued while a connection is being made extends no lease, since the connection is not yet in the room
  (`apps/web/src/lib/room-refresh-coordinator.ts:180`); the connection goes on with the lease of the grant it was made with.
  `StaysFresh` excludes it (`missed`).
- A list of devices that fails to come leaves the preparation with the old one, ready and without another request
  (`packages/rtc-core/src/prejoin-media.ts:373`). `ListIsCurrent` excludes it (`unread`) until a list comes.
- After a reload the entries of the earlier load have no index. A traversal to one of them is accepted without asking the guard
  and leaves the current index as it was, although `use-leave-confirmation.ts` is there to ask.
- A navigation that overtakes a `history.go` that has not run breaks the numbering of the entries, so that a
  later restoring `go` goes to another entry. `LeavingIsMeant` is about the histories without the two (`Numbered`).

## What is not modelled

- **Authentication and configuration**: declarative Spring configuration; tokens are verified by a library.
- **Protocol messages**: stateless parsing and encoding. The modules start from valid messages; `Refuse` and `Drop` stand for the others.
- **The two limiters** (`S/signaling/SignalingInboundLimiter.java`, `S/turn/`): counters of a fixed window behind one
  lock, without interaction with anything; their arithmetic is what unit tests reach. A limit
  that is exceeded is a `Drop` of `RoomSessions` and a failed request of `RoomRefresh`.
- **Metrics and diagnostics**: counters and logs without influence on behaviour.
- **React layout**: components that render the state of a session; wording, focus and accessibility. What
  they decide (who enters, when a session starts, when it is left) is `RoomPage`.
- **Operation scripts**: shell scripts around containers; their state is the host's.
- **Of the client's session**: warnings, the correlation of relayed requests with
  their errors (`TARGET_NOT_FOUND`), and errors that only a server in disagreement with the client would send.
- **Of the page**: the check whether the client's release is current (one of the reasons of `StaysOutside`), tabs that are closed or
  reloaded, several rooms in one history.
- **A crash of the server**: it persists nothing and starts empty; its clients see a lost connection (`Restart` and `Cut` of `ClientSession`).

## The plan

Done, in this order: the rooms (the heart of the server), their queues with the abstract
channel, admission and closing, supervision; the negotiation of a peer connection, the
hardest part of the client, and its session; the chat with its mailbox, the local media from the
preparation to the end of the room, and the page with its refreshes and its navigation. Left:

1. The proof of `NothingStrays` of `PeerNegotiation` (`AnswersFit` and `EpochsFit` first).
2. The limiters: what a fixed window admits compared to an exact count over a sliding one, and the time to wait.

Module by module the bounds follow the same rule: the smallest instance in which each
guard is both true and false, each limit is met and two actors can meet at every step.
