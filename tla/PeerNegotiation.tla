-------------------------- MODULE PeerNegotiation --------------------------
(***************************************************************************)
(* The connection between two members of a room as their browsers keep it: *)
(* peer-negotiation-lifecycle.ts, peer-connection-lifecycle.ts and          *)
(* peer-recovery-lifecycle.ts with the parts of room-session.ts that call   *)
(* them.  Both clients run the same code and talk through the signaling     *)
(* server, which keeps the order of what one sends to the other.            *)
(*                                                                         *)
(* A handler runs up to its next await at once.  What it awaits is an       *)
(* operation of its RTCPeerConnection; the connection works on one of them  *)
(* at a time (ops) and the rest of the handler is the step that ends it, so *)
(* messages, timers and other handlers come in between.  The browser's side *)
(* is external.  Its states "connecting" and "new" are one here, and        *)
(* "connected" is only counted with an open data channel: "up".             *)
(***************************************************************************)
EXTENDS Integers, Sequences, FiniteSets, SequencesExt

CONSTANTS
  Scenarios,        \* bound: the sets of disturbances that happen together
  MaxRetired,       \* MAX_RETIRED_NEGOTIATION_IDS
  MaxInbox,         \* MAX_PENDING_REMOTE_ICE_CANDIDATES
  MaxRetries,       \* maxReconnectAttempts
  None


\* A lost path, a track added, a sender that fails, TURN credentials refreshed,
\* the button of the user, an offer the browser cannot make, an early timer.
Disturbance == {"loss", "track", "sender", "refresh", "retry", "reject", "early"}

ASSUME LimitAssumption ==
  /\ Scenarios \subseteq SUBSET Disturbance
  /\ MaxRetired \in Nat \ {0} /\ MaxInbox \in Nat \ {0} /\ MaxRetries \in Nat

Client == {1, 2}            \* in the order of their peer ids
Other(c) == 3 - c
IsInitiator(c) == c < Other(c)

VARIABLES
  pc,        \* [Client -> PeerConnectionLifecycle of the other, or None]
  net,       \* [Client -> Seq(Message)]: on the way to the client
  exhausted, \* [Client -> BOOLEAN]: exhaustedPeerIds has the other
  epoch,     \* [Client -> Nat]: peerConnectionEpochs, 0 without an entry
  gens,      \* [Client -> Nat]: connections made so far
  made,      \* [Client -> Nat]: offers made so far
  spent      \* SUBSET Disturbance: what has happened, each at most once

vars == <<pc, net, exhausted, epoch, gens, made, spent>>

-----------------------------------------------------------------------------
(* A connection                                                            *)

\* A description names the ICE credentials (frag) of the connection it was made
\* by; that connection was made in some epoch.
NewPeer(c, attempt, retired) ==
  [gen |-> gens[c] + 1, attempt |-> attempt, epoch |-> epoch[c], retired |-> retired,
   neg |-> None, remoteSet |-> FALSE, published |-> FALSE, making |-> FALSE, incoming |-> {},
   wants |-> FALSE, inbox |-> <<>>, outbox |-> <<>>, frags |-> {}, retries |-> 0,
   timers |-> {"connection"}, deferred |-> FALSE,
   \* the browser
   sig |-> "stable", local |-> None, remote |-> None, pending |-> None, ice |-> 0,
   ops |-> <<>>, gather |-> {}, link |-> "new"]

\* rememberRetiredNegotiation
Retire(p) ==
  IF p.neg = None \/ p.neg \in Range(p.retired) THEN p.retired
  ELSE Append(IF Len(p.retired) >= MaxRetired THEN Tail(p.retired) ELSE p.retired, p.neg)

\* Fault: candidates of the negotiation before stay in the queue.
ReplaceKeepsCandidates(p, n) ==
  IF p.neg = n THEN p
  ELSE [p EXCEPT !.neg = n, !.retired = Retire(p), !.published = FALSE, !.outbox = <<>>, !.frags = {}]

\* replaceNegotiationId
ReplaceNegotiation(p, n) ==
  IF p.neg = n THEN p
  ELSE [p EXCEPT !.neg = n, !.retired = Retire(p), !.inbox = <<>>, !.published = FALSE,
                 !.outbox = <<>>, !.frags = {}]

\* canAcceptRemoteOffer
CanAcceptOffer(p, n) ==
  /\ n \notin p.incoming /\ n \notin Range(p.retired)
  /\ p.neg = n => ~p.remoteSet /\ ~p.published

\* Fault: any negotiation will do.
MatchesAny(p, n) == p.neg # None

\* matchesNegotiation
Matches(p, n) == p.neg = n /\ n \notin Range(p.retired)

\* adoptOrMatchCandidateNegotiation, where it adopts
CanAdopt(p, n) == p.neg = None /\ n \notin Range(p.retired) /\ ~p.remoteSet /\ ~p.published

\* queueRemoteCandidate
Queue(p, cand) ==
  [p EXCEPT !.inbox = Append(IF Len(@) >= MaxInbox THEN Tail(@) ELSE @, cand)]

Then(p, op) == [p EXCEPT !.ops = Append(@, op)]

\* The next negotiation id of a client is one it never used.
Fresh(c) == [by |-> c, epoch |-> epoch[c], k |-> made[c] + 1]

\* createOffer up to its first await, where it does not return at once.
CanOffer(p) == ~p.making /\ p.incoming = {} /\ p.sig = "stable"
Offer(c, p, restart, why) ==
  Then([ReplaceNegotiation(p, Fresh(c)) EXCEPT !.making = TRUE, !.remoteSet = FALSE,
                                               !.deferred = @ /\ ~restart],
       [kind |-> "createOffer", neg |-> Fresh(c), restart |-> restart, why |-> why])

\* createOffer.  deferred is a history variable: an ICE restart of a connection in
\* use has to wait for stable signaling (the warning peer-restart-deferred).
TryOffer(c, p, restart, why) ==
  IF CanOffer(p) THEN Offer(c, p, restart, why)
  ELSE [p EXCEPT !.deferred = @ \/ (restart /\ p.link = "up" /\ ~p.making /\ p.incoming = {})]

\* drainRenegotiation
Drain(c, p) ==
  IF p.wants /\ CanOffer(p) THEN Offer(c, [p EXCEPT !.wants = FALSE], FALSE, "renegotiate") ELSE p

\* createOffer returns false after an await.
NotOffered(c, p, why) ==
  LET drained == Drain(c, [p EXCEPT !.making = FALSE])
  IN [drained EXCEPT !.wants = @ \/ why = "renegotiate"]

\* Fault: the renegotiation that waits is forgotten.
EndOfferOnly(c, p, n) == [p EXCEPT !.incoming = @ \ {n}]

\* The end of handleOffer.
EndOffer(c, p, n) == Drain(c, [p EXCEPT !.incoming = @ \ {n}])

\* handleOffer goes on to its answer.
Answer(p) ==
  Then([p EXCEPT !.published = FALSE, !.outbox = <<>>], [kind |-> "createAnswer", neg |-> p.neg])

\* finish, of a connection that is up.
Finish(p) == [p EXCEPT !.timers = {}, !.retries = 0, !.attempt = 0]

\* The end of handleAnswer.
EndAnswer(c, p) == Drain(c, IF p.link = "up" THEN Finish(p) ELSE p)

\* flushPendingCandidates, one candidate after the other.
Flush(p, goal) ==
  Then([p EXCEPT !.inbox = <<>>], [kind |-> "flush", neg |-> p.neg, cands |-> p.inbox, goal |-> goal])

\* Fault: recovery relies on the ICE restart alone.
BeginUntimed(c, p) ==
  LET q == [p EXCEPT !.timers = @ \ {"offer-retry"}]
  IN IF p.attempt = 0 /\ IsInitiator(c) THEN TryOffer(c, q, TRUE, "restart") ELSE q

\* begin
Begin(c, p) ==
  LET q == [p EXCEPT !.timers = @ \ {"offer-retry"}]
      r == [q EXCEPT !.timers = @ \cup {"recovery"}]
  IN IF "recovery" \in p.timers \/ p.attempt > 0 THEN q
     ELSE IF IsInitiator(c) THEN TryOffer(c, r, TRUE, "restart") ELSE r

\* replacePeer
Replacement(c, p, preserve) ==
  [NewPeer(c, p.attempt + 1, Retire(p)) EXCEPT !.retries = p.retries,
                                               !.inbox = IF preserve THEN p.inbox ELSE <<>>]

\* recreate
Recreated(c, p) ==
  IF IsInitiator(c) THEN Offer(c, Replacement(c, p, FALSE), FALSE, "recreate")
  ELSE Replacement(c, p, FALSE)

\* candidateMatchesCurrentLocalNegotiation
IsCurrentCandidate(p, cand) == p.retired = <<>> \/ cand \in p.frags
Ice(p, cand) == [type |-> "rtc.ice", neg |-> p.neg, cand |-> cand]
Candidates(p) ==
  LET kept == SelectSeq(p.outbox, LAMBDA x : IsCurrentCandidate(p, x))
  IN [i \in 1..Len(kept) |-> Ice(p, kept[i])]

\* publishLocalDescription of a description the connection has just taken.
Published(p, d) == [p EXCEPT !.frags = {d.frag}, !.published = TRUE, !.outbox = <<>>]
Publication(p, type, d) ==
  <<[type |-> type, neg |-> d.neg, desc |-> d]>> \o Candidates([p EXCEPT !.frags = {d.frag}])

-----------------------------------------------------------------------------
(* Steps of a client                                                       *)

\* The client keeps p from now on.
Put(c, p) ==
  /\ pc' = [pc EXCEPT ![c] = p]
  /\ gens' = [gens EXCEPT ![c] = IF p.gen > @ THEN p.gen ELSE @]
  /\ made' = [made EXCEPT ![c] = IF p.neg # None /\ p.neg.by = c THEN p.neg.k ELSE @]

\* failPeer: the user is told and the connection is closed.
FailPeer(c) ==
  /\ pc' = [pc EXCEPT ![c] = None]
  /\ exhausted' = [exhausted EXCEPT ![c] = TRUE]
  /\ UNCHANGED <<gens, made>>

Keep(c, p) == Put(c, p) /\ UNCHANGED exhausted
Send(c, messages) == net' = [net EXCEPT ![Other(c)] = @ \o messages]

\* scheduleInitialOfferRetry
Retry(c, p) ==
  IF p.timers \cap {"offer-retry", "recovery"} # {} THEN Keep(c, p)
  ELSE IF p.retries >= MaxRetries THEN FailPeer(c)
  ELSE Keep(c, [p EXCEPT !.retries = @ + 1, !.timers = @ \cup {"offer-retry"}])

Spend(d) ==
  /\ d \notin spent /\ \E s \in Scenarios : spent \cup {d} \subseteq s
  /\ spent' = spent \cup {d}

Init ==
  /\ gens = [c \in Client |-> 1]
  /\ epoch = [c \in Client |-> 0]
  /\ net = [c \in Client |-> <<>>]
  /\ exhausted = [c \in Client |-> FALSE]
  /\ spent = {}
  /\ \E newcomer \in Client :
       LET blank == [c \in Client |-> [NewPeer(c, 0, <<>>) EXCEPT !.gen = 1]]
           id == [by |-> newcomer, epoch |-> 0, k |-> 1]
       IN /\ made = [c \in Client |-> IF c = newcomer THEN 1 ELSE 0]
          /\ pc = [blank EXCEPT ![newcomer] =
                     Then([@ EXCEPT !.neg = id, !.making = TRUE],
                          [kind |-> "createOffer", neg |-> id, restart |-> FALSE, why |-> "first"])]

-----------------------------------------------------------------------------
(* Signaling messages                                                      *)

\* Fault: the epoch of the connection is not looked at.
AcceptsAnyEpoch(c, n) == ~exhausted[c]

\* acceptPeerSignal
Accepts(c, n) == ~exhausted[c] /\ (epoch[c] = 0 \/ n.epoch = epoch[c])

\* The client takes the next message, which handle says what to do with.
Receive(c, type) ==
  /\ net[c] # <<>> /\ Head(net[c]).type = type
  /\ net' = [net EXCEPT ![c] = Tail(@)]
  /\ UNCHANGED spent

\* handleOffer up to its first await.
HandleOffer(c) ==
  /\ Receive(c, "rtc.offer")
  /\ UNCHANGED epoch
  /\ LET m == Head(net[c])  p == pc[c]
         peer == IF p.link = "failed" THEN Replacement(c, p, TRUE) ELSE p
     IN IF ~Accepts(c, m.neg) \/ ~CanAcceptOffer(p, m.neg) THEN UNCHANGED <<pc, exhausted, gens, made>>
        ELSE IF p.link = "failed" /\ p.attempt > 0 THEN FailPeer(c)
        ELSE Keep(c, Then([ReplaceNegotiation(peer, m.neg) EXCEPT !.incoming = @ \cup {m.neg},
                                                                !.remoteSet = FALSE],
                          [kind |-> "setRemoteOffer", neg |-> m.neg, desc |-> m.desc]))

\* handleAnswer up to its first await.
HandleAnswer(c) ==
  /\ Receive(c, "rtc.answer")
  /\ UNCHANGED epoch
  /\ LET m == Head(net[c])  p == pc[c]
     IN IF /\ Accepts(c, m.neg) /\ Matches(p, m.neg)
           /\ p.published /\ p.sig = "have-local-offer"
        THEN Keep(c, Then(p, [kind |-> "setRemoteAnswer", neg |-> m.neg, desc |-> m.desc]))
        ELSE UNCHANGED <<pc, exhausted, gens, made>>

\* handleIce
HandleIce(c) ==
  /\ Receive(c, "rtc.ice")
  /\ UNCHANGED epoch
  /\ LET m == Head(net[c])  p == pc[c]
         peer == IF Matches(p, m.neg) THEN p ELSE ReplaceNegotiation(p, m.neg)
     IN IF ~Accepts(c, m.neg) \/ ~(Matches(p, m.neg) \/ CanAdopt(p, m.neg))
        THEN UNCHANGED <<pc, exhausted, gens, made>>
        ELSE IF peer.link = "failed" \/ ~peer.remoteSet THEN Keep(c, Queue(peer, m.cand))
        ELSE Keep(c, Then(peer, [kind |-> "addIce", cand |-> m.cand]))

\* peer.reconnect: a new connection with a new epoch.
HandleReconnect(c) ==
  /\ Receive(c, "peer.reconnect")
  /\ LET m == Head(net[c])
         p == [NewPeer(c, 0, <<>>) EXCEPT !.epoch = m.epoch]
         id == [by |-> c, epoch |-> m.epoch, k |-> made[c] + 1]
     IN /\ epoch' = [epoch EXCEPT ![c] = m.epoch]
        /\ exhausted' = [exhausted EXCEPT ![c] = FALSE]
        /\ Put(c, IF m.initiator
                  THEN Then([p EXCEPT !.neg = id, !.making = TRUE],
                            [kind |-> "createOffer", neg |-> id, restart |-> FALSE, why |-> "reconnect"])
                  ELSE p)

-----------------------------------------------------------------------------
(* Operations of the browser                                               *)

\* The first operation of the connection of c is over; the step that ends it
\* goes on with the handler that waits for it.
Ends(c, kind) ==
  /\ pc[c] # None /\ pc[c].ops # <<>> /\ Head(pc[c].ops).kind = kind
  /\ UNCHANGED <<epoch, spent>>
Op(c) == Head(pc[c].ops)
Rest(c) == [pc[c] EXCEPT !.ops = Tail(@)]

\* The credentials of a new description: those in use, unless there are none or
\* the ICE connection is to start again.
Credentials(p, restart) == IF restart \/ p.local = None THEN <<p.gen, p.ice + 1>> ELSE p.local.frag
Description(p, n, restart) == [neg |-> n, frag |-> Credentials(p, restart), epoch |-> p.epoch]

InUse(p) == IF p.local = None THEN {} ELSE {p.local.frag}

\* setLocalDescription; candidates are gathered for new credentials.
TakeLocal(p, d) ==
  [p EXCEPT !.ice = IF d.frag[2] > @ THEN d.frag[2] ELSE @,
            !.gather = IF d.frag[2] > p.ice THEN @ \cup {d.frag} ELSE @]

\* setRemoteDescription; new credentials start a failed ICE connection again.
TakeRemote(p, d) ==
  [p EXCEPT !.link = IF @ = "failed" /\ (p.remote = None \/ p.remote.frag # d.frag) THEN "new" ELSE @]

\* createOffer after createOffer of the connection.
EndCreateOffer(c) ==
  /\ Ends(c, "createOffer")
  /\ UNCHANGED net
  /\ LET op == Op(c)  p == Rest(c)
     IN Keep(c, IF p.neg # op.neg THEN NotOffered(c, p, op.why)
                ELSE Then(p, [kind |-> "setLocalOffer", desc |-> Description(p, op.neg, op.restart),
                              why |-> op.why]))

\* The browser cannot make an offer.
RejectOffer(c) ==
  /\ pc[c] # None /\ pc[c].ops # <<>> /\ Op(c).kind = "createOffer"
  /\ Spend("reject")
  /\ UNCHANGED <<epoch, net>>
  /\ LET op == Op(c)  p == Drain(c, [Rest(c) EXCEPT !.making = FALSE])
     IN IF Rest(c).neg # op.neg THEN Keep(c, NotOffered(c, Rest(c), op.why))
        ELSE IF op.why \in {"first", "renegotiate", "retry"} THEN Retry(c, p)
        ELSE IF op.why = "restart" THEN Keep(c, p)
        ELSE FailPeer(c)

\* createOffer after setLocalDescription: the offer goes out.
EndLocalOffer(c) ==
  /\ Ends(c, "setLocalOffer")
  /\ LET op == Op(c)
         p == [TakeLocal(Rest(c), op.desc) EXCEPT !.sig = "have-local-offer", !.pending = op.desc]
         retried == op.why = "retry" /\ "recovery" \notin p.timers
     IN IF p.neg # op.desc.neg THEN Keep(c, NotOffered(c, p, op.why)) /\ UNCHANGED net
        ELSE /\ Send(c, Publication(p, "rtc.offer", op.desc))
             /\ Keep(c, [Published(p, op.desc) EXCEPT !.making = FALSE,
                                                     !.retries = IF retried THEN 0 ELSE @])

\* handleOffer after setRemoteDescription.  An offer of the connection's own
\* that is not answered yet is rolled back.
EndRemoteOffer(c) ==
  /\ Ends(c, "setRemoteOffer")
  /\ UNCHANGED net
  /\ LET op == Op(c)
         p == [TakeRemote(Rest(c), op.desc) EXCEPT
                 !.sig = "have-remote-offer", !.pending = op.desc,
                 !.gather = IF Rest(c).sig = "have-local-offer"
                            THEN @ \ ({Rest(c).pending.frag} \ InUse(Rest(c))) ELSE @]
     IN IF p.neg # op.neg THEN Keep(c, EndOffer(c, p, op.neg))
        ELSE Keep(c, IF p.inbox = <<>> THEN Answer([p EXCEPT !.remoteSet = TRUE])
                     ELSE Flush([p EXCEPT !.remoteSet = TRUE], "answer"))

\* One candidate of flushPendingCandidates has been added.
EndFlush(c) ==
  /\ Ends(c, "flush")
  /\ UNCHANGED net
  /\ LET op == Op(c)  p == Rest(c)
     IN Keep(c, IF p.neg # op.neg THEN IF op.goal = "answer" THEN EndOffer(c, p, op.neg) ELSE p
                ELSE IF Len(op.cands) > 1 THEN Then(p, [op EXCEPT !.cands = Tail(@)])
                ELSE IF op.goal = "answer" THEN Answer(p)
                ELSE EndAnswer(c, p))

\* handleOffer after createAnswer.
EndCreateAnswer(c) ==
  /\ Ends(c, "createAnswer")
  /\ UNCHANGED net
  /\ LET op == Op(c)  p == Rest(c)
         restart == p.remote = None \/ p.remote.frag # p.pending.frag
     IN IF p.neg # op.neg THEN Keep(c, EndOffer(c, p, op.neg))
        ELSE IF p.sig # "have-remote-offer" THEN FailPeer(c)
        ELSE Keep(c, Then(p, [kind |-> "setLocalAnswer", desc |-> Description(p, op.neg, restart)]))

\* handleOffer after setLocalDescription: the answer goes out.
EndLocalAnswer(c) ==
  /\ Ends(c, "setLocalAnswer")
  /\ LET op == Op(c)
         p == [TakeLocal(Rest(c), op.desc) EXCEPT !.sig = "stable", !.local = op.desc,
                                                  !.remote = Rest(c).pending, !.pending = None]
         q == IF p.link = "up" THEN Finish(Published(p, op.desc)) ELSE Published(p, op.desc)
     IN IF Rest(c).sig # "have-remote-offer"
        THEN /\ IF Rest(c).neg = op.desc.neg THEN FailPeer(c)
                ELSE Keep(c, EndOffer(c, Rest(c), op.desc.neg))
             /\ UNCHANGED net
        ELSE IF p.neg # op.desc.neg THEN Keep(c, EndOffer(c, p, op.desc.neg)) /\ UNCHANGED net
        ELSE /\ Send(c, Publication(p, "rtc.answer", op.desc))
             /\ Keep(c, EndOffer(c, q, op.desc.neg))

\* handleAnswer after setRemoteDescription.  The signaling state changes before
\* the handler goes on, and a waiting offer is made at once (signalingstatechange).
EndRemoteAnswer(c) ==
  /\ Ends(c, "setRemoteAnswer")
  /\ UNCHANGED net
  /\ LET op == Op(c)
         p == Drain(c, [TakeRemote(Rest(c), op.desc) EXCEPT
                          !.sig = "stable", !.local = Rest(c).pending, !.remote = op.desc,
                          !.pending = None])
         q == [p EXCEPT !.remoteSet = TRUE]
     IN IF Rest(c).sig # "have-local-offer"
        THEN IF Rest(c).neg = op.neg THEN FailPeer(c) ELSE Keep(c, Rest(c))
        ELSE Keep(c, IF p.neg # op.neg THEN p
                     ELSE IF q.inbox = <<>> THEN EndAnswer(c, q) ELSE Flush(q, "stable"))

\* addIceCandidate; an error is only a warning.
EndAddIce(c) ==
  /\ Ends(c, "addIce")
  /\ UNCHANGED net
  /\ Keep(c, Rest(c))

\* icecandidate: handleLocalIceCandidate.
Gather(c) ==
  /\ pc[c] # None
  /\ \E cand \in pc[c].gather :
       LET p == [pc[c] EXCEPT !.gather = @ \ {cand}]
       IN IF ~p.published THEN Keep(c, [p EXCEPT !.outbox = Append(@, cand)]) /\ UNCHANGED net
          ELSE /\ Keep(c, p)
               /\ IF p.neg # None /\ IsCurrentCandidate(p, cand) THEN Send(c, <<Ice(p, cand)>>)
                  ELSE UNCHANGED net
  /\ UNCHANGED <<epoch, spent>>

-----------------------------------------------------------------------------
(* The connection comes and goes                                           *)

\* Both sides use the same two descriptions' credentials.
Matched(c) ==
  /\ pc[1] # None /\ pc[2] # None
  /\ pc[c].local # None /\ pc[c].remote # None /\ pc[Other(c)].local # None /\ pc[Other(c)].remote # None
  /\ pc[c].remote.frag = pc[Other(c)].local.frag /\ pc[Other(c)].remote.frag = pc[c].local.frag

Quiet == \A c \in Client : net[c] = <<>> /\ (pc[c] # None => pc[c].ops = <<>>)

LinkStep(c, p) == pc[c] # None /\ Keep(c, p) /\ UNCHANGED <<net, epoch, spent>>
DisconnectedFor(p) == [p EXCEPT !.link = "lost", !.timers = @ \cup {"disconnected"}]
FailedFor(c, p) == Begin(c, [p EXCEPT !.link = "failed", !.timers = @ \ {"disconnected"}])

\* The connection is there and the data channel opens.
Establish(c) ==
  /\ pc[c] # None /\ pc[c].link # "up" /\ Matched(c)
  /\ LinkStep(c, Finish([pc[c] EXCEPT !.link = "up"]))

\* The path is lost for a while, or the browser gives it up at once.
Lose(c) ==
  /\ pc[c] # None /\ pc[c].link = "up"
  /\ Spend("loss")
  /\ \/ Keep(c, DisconnectedFor(pc[c]))
     \/ Keep(c, FailedFor(c, pc[c]))
  /\ UNCHANGED <<net, epoch>>

\* The other side has closed its connection, or uses other credentials.
LoseContact(c) ==
  /\ pc[c] # None /\ pc[c].link = "up" /\ ~Matched(c)
  /\ Quiet \/ (pc[Other(c)] # None => pc[c].remote.frag[1] # pc[Other(c)].gen)
  /\ \/ LinkStep(c, DisconnectedFor(pc[c]))
     \/ LinkStep(c, FailedFor(c, pc[c]))

\* The browser gives up a connection that does not come about or come back.
GiveUp(c) ==
  /\ pc[c] # None /\ pc[c].local # None /\ pc[c].link \in {"new", "lost"} /\ ~Matched(c)
  /\ Quiet
  /\ LinkStep(c, FailedFor(c, pc[c]))

-----------------------------------------------------------------------------
(* Timers                                                                  *)

\* The long timers leave the messages under way and a connection that is about
\* to come up the time they need, or else it counts as a disturbance.
InTime(c) ==
  \/ Quiet /\ (pc[c].link = "up" \/ ~Matched(c)) /\ UNCHANGED spent
  \/ ~(Quiet /\ (pc[c].link = "up" \/ ~Matched(c))) /\ Spend("early")

Fires(c, t) ==
  /\ pc[c] # None /\ t \in pc[c].timers
  /\ UNCHANGED <<epoch, net>>
Without(c, t) == [pc[c] EXCEPT !.timers = @ \ {t}]

ConnectionTimer(c) ==
  /\ Fires(c, "connection") /\ InTime(c)
  /\ LET p == Without(c, "connection")
     IN IF p.link = "up" THEN Keep(c, Finish(p))
        ELSE IF p.attempt > 0 THEN FailPeer(c)
        ELSE Keep(c, Begin(c, p))

DisconnectedTimer(c) ==
  /\ Fires(c, "disconnected")
  /\ UNCHANGED spent
  /\ LET p == Without(c, "disconnected")
     IN Keep(c, IF p.link \in {"lost", "failed"} THEN Begin(c, p) ELSE p)

RecoveryTimer(c) ==
  /\ Fires(c, "recovery") /\ InTime(c)
  /\ LET p == Without(c, "recovery")
     IN Keep(c, IF p.link = "up" THEN Finish(p) ELSE Recreated(c, p))

OfferRetryTimer(c) ==
  /\ Fires(c, "offer-retry")
  /\ UNCHANGED spent
  /\ LET p == Without(c, "offer-retry")
     IN Keep(c, TryOffer(c, IF p.link = "failed" THEN Replacement(c, p, TRUE) ELSE p, FALSE, "retry"))

-----------------------------------------------------------------------------
(* The session                                                             *)

\* A track was added to the connection: requestRenegotiation.
AddTrack(c) ==
  /\ pc[c] # None
  /\ Spend("track")
  /\ Keep(c, Drain(c, [pc[c] EXCEPT !.wants = TRUE]))
  /\ UNCHANGED <<net, epoch>>

\* recoverAfterSenderFailure
SenderFails(c) ==
  /\ pc[c] # None
  /\ Spend("sender")
  /\ Keep(c, Recreated(c, pc[c]))
  /\ UNCHANGED <<net, epoch>>

\* restartIceIfRelayed, of a connection that may be relayed.
RestartIceIfRelayed(c) == Keep(c, Begin(c, pc[c]))

\* updateRtcConfiguration with new TURN credentials
RefreshCredentials(c) ==
  /\ pc[c] # None /\ IsInitiator(c)
  /\ Spend("refresh")
  /\ RestartIceIfRelayed(c)
  /\ UNCHANGED <<net, epoch>>

\* retryPeer: the server tells both sides the new epoch.  What the other has
\* sent but the server has not seen comes after it.
RetryPeer(c) ==
  /\ exhausted[c]
  /\ Spend("retry")
  /\ \E i \in 0..Len(net[c]) :
       LET m(x) == [type |-> "peer.reconnect", epoch |-> 1, initiator |-> IsInitiator(x)]
       IN net' = [net EXCEPT ![c] = SubSeq(@, 1, i) \o <<m(c)>> \o SubSeq(@, i + 1, Len(@)),
                             ![Other(c)] = Append(@, m(Other(c)))]
  /\ UNCHANGED <<pc, exhausted, epoch, gens, made>>

-----------------------------------------------------------------------------
Browser(c) ==
  \/ EndCreateOffer(c) \/ EndLocalOffer(c) \/ EndRemoteOffer(c) \/ EndFlush(c)
  \/ EndCreateAnswer(c) \/ EndLocalAnswer(c) \/ EndRemoteAnswer(c) \/ EndAddIce(c)
Signaling(c) == HandleOffer(c) \/ HandleAnswer(c) \/ HandleIce(c) \/ HandleReconnect(c)

Next ==
  \E c \in Client :
    \/ Browser(c) \/ Signaling(c) \/ RejectOffer(c) \/ Gather(c)
    \/ Establish(c) \/ Lose(c) \/ LoseContact(c) \/ GiveUp(c)
    \/ ConnectionTimer(c) \/ DisconnectedTimer(c) \/ RecoveryTimer(c) \/ OfferRetryTimer(c)
    \/ AddTrack(c) \/ SenderFails(c) \/ RefreshCredentials(c) \/ RetryPeer(c)

\* A client that has a message to take, an operation that ends, a timer that
\* fires or a change of the connection to notice does not stop for ever.
Progress(c) ==
  \/ Browser(c) \/ Signaling(c) \/ Establish(c) \/ LoseContact(c)
  \/ ConnectionTimer(c) \/ DisconnectedTimer(c) \/ RecoveryTimer(c) \/ OfferRetryTimer(c)
Fairness == \A c \in Client : WF_vars(Progress(c))

Spec == Init /\ [][Next]_vars /\ Fairness
-----------------------------------------------------------------------------
(* Properties                                                              *)

Applies(c, kind) == pc[c] # None /\ pc[c].ops # <<>> /\ Op(c).kind = kind

\* The browser is only given an answer while it waits for one, to the very offer
\* it made last: a late answer never meets a newer negotiation (handleAnswer).
AnswersFit ==
  \A c \in Client : Applies(c, "setRemoteAnswer") =>
    pc[c].sig = "have-local-offer" /\ pc[c].pending.neg = Op(c).neg

\* The browser is only given a candidate of the description it has from the
\* other side: candidates that come early wait and late ones are dropped
\* (handleIce, flushPendingCandidates, sendLocalCandidate).
CandidatesFit ==
  \A c \in Client : pc[c] # None =>
    LET remote == IF pc[c].sig = "have-remote-offer" THEN pc[c].pending ELSE pc[c].remote
    IN /\ Applies(c, "addIce") => remote # None /\ remote.frag = Op(c).cand
       /\ Applies(c, "flush") => remote # None /\ remote.frag = Head(Op(c).cands)

\* No description of a connection from before a manual reconnection gets into
\* the new connection (acceptPeerSignal).
EpochsFit ==
  \A c \in Client : pc[c] # None =>
    /\ pc[c].remote # None => pc[c].remote.epoch = pc[c].epoch
    /\ pc[c].sig = "have-remote-offer" => pc[c].pending.epoch = pc[c].epoch

\* Nothing that belongs to another negotiation or connection reaches a browser.
NothingStrays == AnswersFit /\ CandidatesFit /\ EpochsFit

\* In the end a client either has the connection or has told its user that it
\* failed; nobody is left connecting, whatever was lost on the way.
Settles == <>[](\A c \in Client : pc[c] = None \/ pc[c].link = "up")

\* A track that was added is offered to the other side, in this connection or,
\* with all other tracks, in the next one: again and again none waits at either.
TracksAreOffered == []<>(\A c \in Client : pc[c] = None \/ ~pc[c].wants)

\* An ICE restart of a connection in use that "is waiting for stable signaling"
\* (createOffer) is made in the end, unless another connection takes its place.
DeferredRestartsHappen ==
  \A c \in Client : (pc[c] # None /\ pc[c].deferred) ~> (pc[c] = None \/ ~pc[c].deferred)

=============================================================================
