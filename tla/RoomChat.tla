----------------------------- MODULE RoomChat -----------------------------
(***************************************************************************)
(* Chat over the data channels: peer-data-channel.ts and room-chat.ts with *)
(* the parts of room-session.ts and peer-recovery-lifecycle.ts that open,  *)
(* lose and replace a channel.  One participant sends chats and the state  *)
(* of its media to the others; they show and acknowledge.                  *)
(*                                                                         *)
(* The link to a peer has two ends, "near" at the sender and "far" at the  *)
(* peer.  Either makes a channel when it offers and has none, whatever     *)
(* makes it offer: joining, a recovery, a track that was added.  Channels  *)
(* are numbered; two that are made at once cross.  A frame is in the wire  *)
(* of the end that sent it until the other end reads it, and what the wire *)
(* holds counts as the buffer of the channel.  The code is the same at     *)
(* both ends; here only the near end chats and only the far end            *)
(* acknowledges.                                                           *)
(*                                                                         *)
(* Timers run out at any time.  The window of retryChat (two minutes) only *)
(* takes a choice away from the user and is left out.                      *)
(***************************************************************************)
EXTENDS Integers, Sequences, FiniteSets, SequencesExt

CONSTANTS
  Peer,         \* the other participants
  Scenarios,    \* bound: the sets of disturbances that happen together
  Chats,        \* bound: messages sent
  MaxPending,   \* MAX_PENDING_CHAT_MESSAGES
  MaxGot,       \* MAX_RECEIVED_CHAT_IDS
  MaxAcks,      \* MAX_PENDING_ACK_IDS
  MaxMessages,  \* maxMessages of RoomChatLedger
  MaxBuffered,  \* MAX_BUFFERED_BYTES, in frames
  Reserve,      \* CONTROL_RESERVE_BYTES, in frames
  Low,          \* BUFFERED_AMOUNT_LOW_BYTES, in frames
  Channels,     \* bound: [Peer -> Nat], the channels of a link
  None

\* <<p, d>> happens to the link of p: a channel reports an error, a send
\* throws, the connection breaks off for a moment, a timer of the recovery
\* runs out early and then again, other frames use up the budget of the
\* receiver, two channels cross, the user asks for another connection, the peer
\* leaves, the user sends again; or the sender comes back with another id, or
\* its media change.
Disturbance ==
  (Peer \X {"error", "throw", "drop", "early", "giveup", "flood", "cross", "again", "leave", "retry"})
    \cup ({None} \X {"rejoin", "media"})

ASSUME ChatAssumption ==
  /\ IsFiniteSet(Peer)
  /\ Scenarios \subseteq SUBSET Disturbance
  /\ Chats \in Nat /\ Channels \in [Peer -> Nat] /\ None \notin Int
  /\ {MaxPending, MaxGot, MaxAcks, MaxMessages, MaxBuffered} \subseteq Nat \ {0}
  /\ Reserve \in Nat /\ Low \in 0..(MaxBuffered - 1)

Chat == 1..Chats
Place == Peer \X {"near", "far"}
Other(x) == <<x[1], IF x[2] = "near" THEN "far" ELSE "near">>

VARIABLES
  end,      \* [Place -> PeerContext with its PeerDataChannel]
  chan,     \* [Peer -> [gen, alive, fresh, by]]: the last channel of the link,
            \* whether it came with a new connection, and the end that made it
  wire,     \* [Place -> Seq(frame)]: sent by that end, not yet read
  roster,   \* SUBSET Peer: #participants of the sender
  self,     \* #selfId of the sender
  media,    \* the media of the sender
  ledger,   \* [Chat -> [Peer -> state]]: #localRecipientStates
  kept,     \* SUBSET Chat: what #localRecipientStates still has
  history,  \* Seq(Chat): #messages, as far as they are local
  author,   \* [Chat -> selfId it was sent with]
  shown,    \* [Peer -> [Chat -> Nat]]: how often the peer has shown it
  seen,     \* [Peer -> SUBSET (selfId \X Chat)]: #receivedIds of the peer
  remote,   \* [Peer -> media the peer shows]
  spent     \* what has happened, each at most once

ledgerVars == <<ledger, kept>>
mineVars == <<roster, self, media, history, author>>
theirVars == <<shown, seen, remote>>
vars == <<end, chan, wire, ledgerVars, mineVars, theirVars, spent>>

-----------------------------------------------------------------------------
(* One end                                                                 *)

\* A PeerContext as ensurePeer makes it: its connection timer runs.  A channel
\* that another has followed may be due here; and, for the properties, quiet
\* says that the channel opened and the end had nothing to catch up with.
Fresh(epoch, from) ==
  [here |-> TRUE, epoch |-> epoch, from |-> from, on |-> 0, open |-> FALSE,
   connected |-> FALSE, recovering |-> FALSE, timed |-> TRUE, attempt |-> 0,
   grace |-> "none", low |-> FALSE, full |-> FALSE, due |-> FALSE, quiet |-> FALSE,
   queue |-> <<>>, acks |-> <<>>, got |-> <<>>, media |-> None]

\* #cleanupPeer with dispose
Gone(e) == [Fresh(e.epoch, e.from) EXCEPT !.here = FALSE, !.timed = FALSE]

\* attach
Attach(e, gen) ==
  [e EXCEPT !.on = gen, !.open = FALSE, !.grace = "none", !.low = FALSE,
            !.queue = [i \in DOMAIN @ |-> [@[i] EXCEPT !.sent = FALSE]]]

Detach(e) == [e EXCEPT !.on = 0, !.open = FALSE, !.grace = "none", !.low = FALSE]

\* PeerRecoveryLifecycle.begin
Begin(e) == [e EXCEPT !.recovering = TRUE, !.timed = TRUE]

\* What is left of s when all that is not in T is taken out, in its order.
Only(s, T) ==
  LET at == {i \in DOMAIN s : s[i] \in T}
      rank(i) == Cardinality({j \in at : j <= i})
  IN [k \in 1..Cardinality(at) |-> s[CHOOSE i \in at : rank(i) = k]]

\* What flush has to send: acknowledgements, the state of the media, chats.
Ack(m) == [type |-> "chat.ack", id |-> m]
Media(v) == [type |-> "participant.media", id |-> v]
Message(m) == [type |-> "chat.message", id |-> m]
Unsent(e) == Only(e.queue, {c \in Range(e.queue) : ~c.sent})
Frames(e) ==
  [i \in DOMAIN e.acks |-> Ack(e.acks[i])]
    \o (IF e.media = None THEN <<>> ELSE <<Media(e.media)>>)
    \o [i \in DOMAIN Unsent(e) |-> Message(Unsent(e)[i].id)]

\* What is left once the first k frames are sent.
AfterSending(e, k) ==
  LET done == Range(SubSeq(Frames(e), 1, k))
  IN [e EXCEPT
       !.acks = Only(@, {m \in Range(@) : Ack(m) \notin done}),
       !.media = IF Media(@) \in done THEN None ELSE @,
       !.queue = [i \in DOMAIN @ |-> IF Message(@[i].id) \in done
                                     THEN [@[i] EXCEPT !.sent = TRUE, !.ever = TRUE] ELSE @[i]]]

\* How many frames pass before the buffer is full.
Passing(e, buffered) ==
  LET fits(i) == buffered + i <= MaxBuffered + (IF i <= Len(e.acks) THEN Reserve ELSE 0)
  IN CHOOSE k \in 0..Len(Frames(e)) :
       /\ \A i \in 1..k : fits(i)
       /\ k < Len(Frames(e)) => ~fits(k + 1)

CanSpend(d) == d \notin spent /\ \E s \in Scenarios : spent \cup {d} \subseteq s
Spend(d) == CanSpend(d) /\ spent' = spent \cup {d}

\* What a frame sent by x joins.
Queued(x, e, w, k) ==
  IF e.on = chan[x[1]].gen THEN w \o SubSeq(Frames(e), 1, k) ELSE w

\* flush: the ends, wires and failures it may lead to.
Flushed(x, e, w) ==
  IF ~e.here \/ e.recovering \/ ~e.open THEN {[end |-> e, wire |-> w, threw |-> FALSE]}
  ELSE LET n == Passing(e, Len(w))
       IN {[end |-> AfterSending(e, n), wire |-> Queued(x, e, w, n), threw |-> FALSE]} \cup
          {[end |-> Begin(Detach(AfterSending(e, k))),
            wire |-> Queued(x, e, w, k), threw |-> TRUE] :
             k \in {i \in 0..(n - 1) : CanSpend(<<x[1], "throw">>)}}

\* Fault: what was published before the channel opened is not said again.
WithCurrentIfAny(x, e) == e

\* flush(true) reads the media of the sender.
WithCurrent(x, e) ==
  IF x[2] = "near" /\ e.here /\ ~e.recovering /\ e.open
  THEN [e EXCEPT !.media = media, !.quiet = FALSE] ELSE e

\* PeerRecoveryLifecycle.finish, of a connected end with an open channel.
Finish(x, e) ==
  LET done == [e EXCEPT !.recovering = FALSE, !.timed = FALSE, !.attempt = 0]
  IN IF e.recovering \/ e.timed THEN Flushed(x, WithCurrent(x, done), wire[x])
     ELSE {[end |-> done, wire |-> wire[x], threw |-> FALSE]}

\* #handleDataChannelOpen
HandleOpen(x, e) ==
  IF e.connected THEN Finish(x, [e EXCEPT !.quiet = ~(e.recovering \/ e.timed)])
  ELSE Flushed(x, WithCurrent(x, e), wire[x])

-----------------------------------------------------------------------------
(* Ends and channels                                                       *)

\* The end x, closing its channel where closes, is now what out says; rest is
\* the wire of the other end.
Becomes(x, out, closes, rest) ==
  /\ end' = [end EXCEPT ![x] = out.end]
  /\ wire' = [wire EXCEPT ![x] = out.wire, ![Other(x)] = IF closes \/ out.threw THEN <<>> ELSE rest]
  /\ chan' = [chan EXCEPT ![x[1]].alive =
                @ /\ ~((closes \/ out.threw) /\ end[x].on = chan[x[1]].gen)]

Outcome(x, out, closes) ==
  /\ Becomes(x, out, closes, wire[Other(x)])
  /\ spent' = IF out.threw THEN spent \cup {<<x[1], "throw">>} ELSE spent

Simply(x, e, closes) ==
  Becomes(x, [end |-> e, wire |-> wire[x], threw |-> FALSE], closes, wire[Other(x)])

Attached(x) == end[x].on # 0 /\ end[x].on = chan[x[1]].gen
Elsewhere == UNCHANGED <<ledgerVars, mineVars, theirVars>>

\* The last channel is the other end's and has not come to x yet.
OnItsWay(x) ==
  chan[x[1]].alive /\ Attached(Other(x)) /\ ~Attached(x) /\ chan[x[1]].by # x[2]

\* createOffer makes the channel where none is attached, during the grace time
\* after onclose too.
CreateChannel(x) ==
  /\ end[x].here /\ end[x].on = 0
  /\ chan[x[1]].gen < Channels[x[1]]
  /\ end' = [end EXCEPT ![x] = [Attach(@, chan[x[1]].gen + 1)
                                   EXCEPT !.due = end[x].due \/ OnItsWay(x)]]
  /\ chan' = [chan EXCEPT ![x[1]] = [gen |-> @.gen + 1, alive |-> TRUE,
                                     fresh |-> end[x].attempt = 1, by |-> x[2]]]
  /\ wire' = [wire EXCEPT ![x] = <<>>, ![Other(x)] = <<>>]
  /\ IF OnItsWay(x) THEN Spend(<<x[1], "cross">>) ELSE UNCHANGED spent
  /\ Elsewhere

\* #replacePeer: another connection, the same PeerDataChannel.
Replaced(e) == [Begin(Detach(e)) EXCEPT !.connected = FALSE, !.attempt = 1, !.due = FALSE]

\* ondatachannel: the channel takes the place of the one before.
ChannelArrives(x) ==
  /\ end[x].here /\ x[2] # chan[x[1]].by /\ ~Attached(x)
  /\ end[x].due => chan[x[1]].fresh
  /\ chan[x[1]].alive /\ end[Other(x)].epoch = end[x].epoch
  /\ end' = [end EXCEPT ![x] = Attach(IF chan[x[1]].fresh THEN Replaced(@) ELSE @,
                                      chan[x[1]].gen)]
  /\ UNCHANGED <<chan, wire, spent>> /\ Elsewhere

\* ondatachannel of a channel that the other end made before it had that of x:
\* it takes the place of x's own.
Crosses(x) ==
  /\ end[x].here /\ end[x].due
  /\ Simply(x, [Attach(end[x], chan[x[1]].gen - 1) EXCEPT !.due = FALSE], TRUE)
  /\ UNCHANGED spent /\ Elsewhere

\* onopen
Opens(x) ==
  /\ Attached(x) /\ Attached(Other(x)) /\ chan[x[1]].alive /\ ~end[x].open
  /\ \E out \in HandleOpen(x, [end[x] EXCEPT !.open = TRUE]) : Outcome(x, out, FALSE)
  /\ Elsewhere

\* connectionState becomes "connected".
Connected(x) ==
  /\ Attached(x) /\ Attached(Other(x)) /\ ~end[x].connected
  /\ LET e == [end[x] EXCEPT !.connected = TRUE]
     IN \E out \in IF e.open THEN Finish(x, e)
                   ELSE {[end |-> e, wire |-> wire[x], threw |-> FALSE]} : Outcome(x, out, FALSE)
  /\ Elsewhere

\* scheduleDisconnectedRecovery
Disconnected(x) ==
  /\ end[x].here /\ end[x].connected
  /\ Spend(<<x[1], "drop">>)
  /\ Simply(x, [end[x] EXCEPT !.connected = FALSE, !.recovering = TRUE, !.timed = TRUE], FALSE)
  /\ Elsewhere

\* onclose: the other end has closed the channel, and so it does when it
\* takes another.
Closes(x) ==
  /\ end[x].on # 0 /\ ~(Attached(x) /\ chan[x[1]].alive)
  /\ ~Attached(x) => ~end[Other(x)].due
  /\ Simply(x, [Detach(end[x]) EXCEPT !.grace = "closed"], Attached(x))
  /\ UNCHANGED spent /\ Elsewhere

\* onerror
Errs(x) ==
  /\ end[x].on # 0
  /\ Spend(<<x[1], "error">>)
  /\ Simply(x, [end[x] EXCEPT !.grace = "error"], FALSE)
  /\ Elsewhere

\* RECOVERY_GRACE_MS after onclose or onerror
GraceEnds(x) ==
  /\ end[x].grace # "none"
  /\ Simply(x, Begin(Detach(end[x])), end[x].on # 0)
  /\ UNCHANGED spent /\ Elsewhere

\* markLocalRecipient for a set of chats of one peer, with
\* #retireLocalMessageIdIfUnused
Mark(p, ms, state) ==
  LET marked == {m \in ms : m \in kept /\ ledger[m][p] = "pending"}
  IN /\ ledger' = [m \in Chat |-> IF m \in marked THEN [ledger[m] EXCEPT ![p] = state]
                                ELSE ledger[m]]
     /\ kept' = kept \ {m \in marked : /\ m \notin Range(history)
                                       /\ \A q \in Peer \ {p} : ledger[m][q] # "pending"}

\* Fault: a channel that goes takes its chats along.
DisposeSilently(x) == x[2] = "near" /\ UNCHANGED ledgerVars

\* dispose: what was pending has failed.
Dispose(x) ==
  IF x[2] = "near" THEN Mark(x[1], {c.id : c \in Range(end[x].queue)}, "failed")
  ELSE UNCHANGED ledgerVars

Resting == UNCHANGED <<mineVars, theirVars>>

\* The timer of a recovery, or of a connection, runs out: #recreate, and
\* failPeer the second time.
RecoveryTimer(x) ==
  /\ end[x].here /\ end[x].timed
  /\ \/ /\ end[x].connected /\ end[x].open
        /\ \E out \in Finish(x, end[x]) : Outcome(x, out, FALSE)
        /\ UNCHANGED ledgerVars
     \/ /\ ~(end[x].connected /\ end[x].open) /\ end[x].attempt = 0
        /\ Spend(<<x[1], "early">>)
        /\ Simply(x, Replaced(end[x]), TRUE)
        /\ UNCHANGED ledgerVars
     \/ /\ ~(end[x].connected /\ end[x].open) /\ end[x].attempt = 1
        /\ Spend(<<x[1], "giveup">>)
        /\ Dispose(x)
        /\ Simply(x, Gone(end[x]), TRUE)
  /\ Resting

\* "peer.reconnect": both ends start anew, the near one first.
Again(p) ==
  /\ p \in roster /\ Spend(<<p, "again">>)
  /\ Dispose(<<p, "near">>)
  /\ Simply(<<p, "near">>, Fresh(end[<<p, "near">>].epoch + 1, None), TRUE)
  /\ Resting

\* The sender comes back with another id: every connection is a new one.
Rejoin ==
  /\ Spend(<<None, "rejoin">>)
  /\ self' = self + 1
  /\ ledger' = [m \in Chat |-> [p \in Peer |->
                  IF ledger[m][p] = "pending" THEN "failed" ELSE ledger[m][p]]]
  /\ kept' = kept \cap Range(history)
  /\ end' = [x \in Place |-> IF x[2] = "near" /\ x[1] \in roster
                             THEN Fresh(end[x].epoch + 1, None) ELSE end[x]]
  /\ chan' = [p \in Peer |-> [chan[p] EXCEPT !.alive = @ /\ ~Attached(<<p, "near">>)]]
  /\ wire' = [x \in Place |-> IF x[2] = "far" THEN <<>> ELSE wire[x]]
  /\ UNCHANGED <<roster, media, history, author, theirVars>>

\* The peer hears of it.  What it has shown stays.
Renew(p) ==
  LET x == <<p, "far">>  near == end[<<p, "near">>]
  IN /\ end[x].epoch < near.epoch /\ <<p, "leave">> \notin spent
     /\ Simply(x, Fresh(near.epoch, self), TRUE)
     /\ remote' = [remote EXCEPT ![p] = IF end[x].from = self THEN @ ELSE None]
     /\ UNCHANGED <<ledgerVars, mineVars, shown, seen, spent>>

\* The peer leaves; the sender hears of it.
PeerLeaves(p) ==
  /\ Spend(<<p, "leave">>)
  /\ Simply(<<p, "far">>, Gone(end[<<p, "far">>]), TRUE)
  /\ Elsewhere

\* #removePeer
RemovePeer(p) ==
  /\ p \in roster /\ <<p, "leave">> \in spent
  /\ roster' = roster \ {p}
  /\ Dispose(<<p, "near">>)
  /\ Simply(<<p, "near">>, Gone(end[<<p, "near">>]), TRUE)
  /\ UNCHANGED <<self, media, history, author, theirVars, spent>>

-----------------------------------------------------------------------------
(* The sender                                                              *)

Near(p) == end[<<p, "near">>]
HasCapacity(e) == Len(e.queue) < MaxPending
Enqueued(e, m) == [e EXCEPT !.queue = Append(@, [id |-> m, sent |-> FALSE, ever |-> FALSE])]

\* Flushes the near ends of some peers, each first made what ready says.
FlushAll(ready, happened) ==
  \E outs \in [DOMAIN ready -> UNION {Flushed(<<p, "near">>, ready[p], wire[<<p, "near">>]) :
                                        p \in DOMAIN ready}] :
    /\ \A p \in DOMAIN ready : outs[p] \in Flushed(<<p, "near">>, ready[p], wire[<<p, "near">>])
    /\ LET threw == {p \in DOMAIN ready : outs[p].threw}
       IN /\ end' = [x \in Place |-> IF x[2] = "near" /\ x[1] \in DOMAIN ready
                                     THEN outs[x[1]].end ELSE end[x]]
          /\ wire' = [x \in Place |-> IF x[1] \notin DOMAIN ready THEN wire[x]
                                      ELSE IF x[2] = "near" THEN outs[x[1]].wire
                                      ELSE IF x[1] \in threw THEN <<>> ELSE wire[x]]
          /\ chan' = [p \in Peer |-> [chan[p] EXCEPT !.alive =
                         @ /\ ~(p \in threw /\ Attached(<<p, "near">>))]]
          /\ spent' = spent \cup happened \cup {<<p, "throw">> : p \in threw}

\* recordOutgoing with #rememberMessage
Record(m, states) ==
  LET all == Append(history, m)
      over == Len(all) > MaxMessages
  IN /\ ledger' = [ledger EXCEPT ![m] = states]
     /\ history' = IF over THEN Tail(all) ELSE all
     /\ kept' = (kept \cup {m}) \ (IF over /\ \A p \in Peer : ledger[Head(all)][p] # "pending"
                                  THEN {Head(all)} ELSE {})

\* #enqueueOutboundChat: all queues take the message or none.
Targets == {p \in roster : Near(p).here}
CanEnqueue == /\ roster # {} => Targets # {}
              /\ \A p \in Targets : HasCapacity(Near(p))
RecipientStates ==
  [p \in Peer |-> IF p \notin roster THEN "none" ELSE IF p \in Targets THEN "pending" ELSE "failed"]

\* sendChat
SendChat(m) ==
  /\ m = 1 + Cardinality({k \in Chat : author[k] # None})
  /\ CanEnqueue
  /\ Record(m, RecipientStates)
  /\ author' = [author EXCEPT ![m] = self]
  /\ FlushAll([p \in Targets |-> Enqueued(Near(p), m)], {})
  /\ UNCHANGED <<roster, self, media, theirVars>>

CanRetry(m, p) ==
  /\ ledger[m][p] = "failed"
  /\ Near(p).here /\ Near(p).open /\ ~Near(p).recovering /\ HasCapacity(Near(p))

SendAgain(m, chosen) ==
  LET retried == {<<p, "retry">> : p \in chosen}
  IN /\ chosen # {} /\ \A d \in retried : CanSpend(d)
     /\ ledger' = [ledger EXCEPT ![m] = [p \in Peer |-> IF p \in chosen THEN "pending" ELSE @[p]]]
     /\ FlushAll([p \in chosen |-> Enqueued(Near(p), m)], retried)
     /\ UNCHANGED <<kept, mineVars, theirVars>>

\* Fault: a message of the previous connection is sent again.
RetryAny(m) ==
  LET able == {p \in Peer : CanRetry(m, p)}
  IN /\ m \in kept /\ m \in Range(history)
     /\ \E chosen \in {able} \cup {{p} : p \in able} : SendAgain(m, chosen)

\* retryChat, for one recipient or for all that failed
RetryChat(m) ==
  LET able == {p \in Peer : CanRetry(m, p)}
  IN /\ m \in kept /\ m \in Range(history) /\ author[m] = self
     /\ \E chosen \in {able} \cup {{p} : p \in able} : SendAgain(m, chosen)

\* #broadcastMediaState after the media changed
SetMedia ==
  /\ CanSpend(<<None, "media">>)
  /\ media' = media + 1
  /\ FlushAll([p \in {q \in Peer : Near(q).here} |->
                [Near(p) EXCEPT !.media = media + 1, !.quiet = FALSE]],
              {<<None, "media">>})
  /\ UNCHANGED <<ledgerVars, roster, self, history, author, theirVars>>

\* CHAT_ACK_TIMEOUT_MS: #expireChat
Expire(p, m) ==
  LET x == <<p, "near">>
      queue == Range(end[x].queue)
  IN /\ \E c \in queue : c.id = m
     /\ Mark(p, {m}, "failed")
     /\ Simply(x, [end[x] EXCEPT !.queue = Only(@, {c \in queue : c.id # m})], FALSE)
     /\ UNCHANGED spent /\ Resting

-----------------------------------------------------------------------------
(* What arrives: #handleMessage                                            *)

\* The end x flushes and the other end's wire is what is left of it.
Reading(x, e) ==
  LET rest == Tail(wire[Other(x)])
      drained == Len(rest) = Low /\ Attached(Other(x))
  IN \E out \in Flushed(x, e, wire[x]) :
       /\ end' = [end EXCEPT ![x] = out.end, ![Other(x)].low = @ \/ drained]
       /\ wire' = [wire EXCEPT ![x] = out.wire, ![Other(x)] = IF out.threw THEN <<>> ELSE rest]
       /\ chan' = [chan EXCEPT ![x[1]].alive = @ /\ ~out.threw]
       /\ spent' = IF out.threw THEN spent \cup {<<x[1], "throw">>} ELSE spent

\* What is read without an answer.
Noted(x, e) ==
  LET rest == Tail(wire[Other(x)])
  IN /\ end' = [end EXCEPT ![x] = e, ![Other(x)].low = @ \/ (Len(rest) = Low /\ Attached(Other(x)))]
     /\ wire' = [wire EXCEPT ![Other(x)] = rest]
     /\ UNCHANGED <<chan, spent>>

\* #rememberReceivedChatId
Latest(ids) == IF Len(ids) > MaxGot THEN Tail(ids) ELSE ids

Arrives(x, type) ==
  /\ Attached(x) /\ end[x].open /\ wire[Other(x)] # <<>>
  /\ ~end[x].full /\ Head(wire[Other(x)]).type = type

\* #acknowledgeChat
ReadAck(p) ==
  LET x == <<p, "near">>  m == Head(wire[<<p, "far">>]).id
      awaited == {c \in Range(end[x].queue) : c.ever /\ c.id = m}
  IN /\ Arrives(x, "chat.ack")
     /\ Mark(p, {c.id : c \in awaited}, "acknowledged")
     /\ Noted(x, [end[x] EXCEPT !.queue = Only(@, Range(@) \ awaited)])
     /\ Resting

\* onMediaState
ReadMedia(p) ==
  LET x == <<p, "far">>
  IN /\ Arrives(x, "participant.media")
     /\ remote' = [remote EXCEPT ![p] = Head(wire[<<p, "near">>]).id]
     /\ Noted(x, end[x])
     /\ UNCHANGED <<ledgerVars, mineVars, shown, seen>>

\* A chat: shown once for its sender, acknowledged every time.
ReadChat(p) ==
  LET x == <<p, "far">>  m == Head(wire[<<p, "near">>]).id
      key == <<end[x].from, m>>
      known == m \in Range(end[x].got)
      isNew == ~known /\ key \notin seen[p]
      e == [end[x] EXCEPT !.got = IF known THEN @ ELSE Latest(Append(@, m)),
                          !.acks = IF m \in Range(@) \/ Len(@) >= MaxAcks THEN @ ELSE Append(@, m)]
  IN /\ Arrives(x, "chat.message")
     /\ seen' = [seen EXCEPT ![p] = IF isNew THEN @ \cup {key} ELSE @]
     /\ shown' = [shown EXCEPT ![p][m] = IF isNew THEN @ + 1 ELSE @]
     /\ IF m \in Range(e.acks) THEN Reading(x, e) ELSE Noted(x, e)
     /\ UNCHANGED <<ledgerVars, mineVars, remote>>

\* #consumeInboundBudget: the window is full, what comes is ignored.
Ignore(x) ==
  /\ Attached(x) /\ end[x].open /\ wire[Other(x)] # <<>> /\ end[x].full
  /\ Noted(x, end[x])
  /\ Elsewhere

FillWindow(x) ==
  /\ end[x].here /\ Spend(<<x[1], "flood">>)
  /\ Simply(x, [end[x] EXCEPT !.full = TRUE], FALSE)
  /\ Elsewhere

\* #resetInboundWindow
WindowEnds(x) ==
  /\ end[x].full
  /\ Simply(x, [end[x] EXCEPT !.full = FALSE], FALSE)
  /\ UNCHANGED spent /\ Elsewhere

\* onbufferedamountlow
BufferLow(x) ==
  /\ end[x].low
  /\ \E out \in Flushed(x, [end[x] EXCEPT !.low = FALSE], wire[x]) : Outcome(x, out, FALSE)
  /\ Elsewhere

-----------------------------------------------------------------------------
Init ==
  /\ end = [x \in Place |-> Fresh(1, IF x[2] = "far" THEN 1 ELSE None)]
  /\ chan = [p \in Peer |-> [gen |-> 0, alive |-> FALSE, fresh |-> FALSE, by |-> "near"]]
  /\ wire = [x \in Place |-> <<>>]
  /\ roster = Peer /\ self = 1 /\ media = 0
  /\ ledger = [m \in Chat |-> [p \in Peer |-> "none"]] /\ kept = {}
  /\ history = <<>> /\ author = [m \in Chat |-> None]
  /\ shown = [p \in Peer |-> [m \in Chat |-> 0]] /\ seen = [p \in Peer |-> {}]
  /\ remote = [p \in Peer |-> None]
  /\ spent = {}

Link(x) ==
  \/ CreateChannel(x) \/ ChannelArrives(x) \/ Crosses(x) \/ Opens(x) \/ Connected(x) \/ Disconnected(x)
  \/ Closes(x) \/ Errs(x) \/ GraceEnds(x) \/ RecoveryTimer(x)
  \/ Ignore(x) \/ FillWindow(x) \/ WindowEnds(x) \/ BufferLow(x)

Next ==
  \/ \E x \in Place : Link(x)
  \/ \E p \in Peer : Again(p) \/ Renew(p) \/ PeerLeaves(p) \/ RemovePeer(p)
  \/ Rejoin
  \/ \E m \in Chat : SendChat(m) \/ RetryChat(m)
  \/ SetMedia
  \/ \E p \in Peer, m \in Chat : Expire(p, m)
  \/ \E p \in Peer : ReadAck(p) \/ ReadMedia(p) \/ ReadChat(p)

\* Timers of queued messages run out.
Fairness == WF_vars(\E p \in Peer, m \in Chat : Expire(p, m))

Spec == Init /\ [][Next]_vars /\ Fairness

-----------------------------------------------------------------------------
(* Properties                                                              *)

\* Nothing is under way on a link that both ends believe to be well.
Idle(p) ==
  /\ chan[p].alive
  /\ \A x \in {<<p, "near">>, <<p, "far">>} :
       Attached(x) /\ end[x].open /\ end[x].connected /\ ~end[x].recovering /\ ~end[x].low
  /\ wire[<<p, "near">>] = <<>> /\ wire[<<p, "far">>] = <<>>

\* What the ledger calls pending is in the queue of that peer, where a timer
\* watches it, and nothing else is; and the ledger has the recipients of
\* exactly the messages that are on display or pending.  When the link is
\* idle, the peer shows the media as they are, however the channels came and
\* went, and every chat was sent; unless the peer had to ignore frames, or the
\* channel opened and finish saw no recovery to end (see ReopenedIsFlushed).
NothingIsForgotten ==
  /\ \A p \in Peer : {c.id : c \in Range(Near(p).queue)} = {m \in Chat : ledger[m][p] = "pending"}
  /\ kept = Range(history) \cup {m \in Chat : \E p \in Peer : ledger[m][p] = "pending"}
  /\ \A p \in Peer : (Idle(p) /\ ~Near(p).quiet /\ <<p, "flood">> \notin spent) =>
       (remote[p] = media /\ Frames(Near(p)) = <<>>)

\* room-session-data-channel-lifecycle.test.ts has a channel that is recreated
\* and "flushes chat that was waiting for it".
ReopenedIsFlushed == \A p \in Peer : Idle(p) => Unsent(Near(p)) = <<>>

\* What the sender is told of a message is what became of it.
Mailbox == INSTANCE ChatMailbox WITH report <- ledger

ImplementsMailbox == Mailbox!Spec

=============================================================================
