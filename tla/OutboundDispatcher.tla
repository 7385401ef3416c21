------------------------- MODULE OutboundDispatcher -------------------------
(***************************************************************************)
(* The outbound queues of the signaling server in bytes and their drain    *)
(* tasks: SignalingOutboundDispatcher.java with the step of SignalingService *)
(* that enqueues one frame (enqueueOneLocked) and its handler of failed    *)
(* sends.  A drain task holds the lock to take a frame and to release it,  *)
(* but not while it sends.  A queue that has no entry in "queues" is an    *)
(* empty one that is not draining; the code treats the two alike.          *)
(***************************************************************************)
EXTENDS Integers, Sequences, FiniteSets

CONSTANTS
  Peer,
  Age,            \* [Peer -> Nat]: connectionSequence
  Sizes,          \* payload lengths; no frame is empty
  MaxQueue,       \* MAX_QUEUE_SIZE
  MaxPeerBytes,
  MaxGlobalBytes,
  MaxAccepted     \* bound: frames accepted for one peer

ASSUME PeerAssumption == IsFiniteSet(Peer)
ASSUME SizeAssumption == Sizes \subseteq Nat \ {0}
ASSUME LimitAssumption ==
  MaxQueue \in Nat /\ MaxPeerBytes \in Nat /\ MaxGlobalBytes \in Nat /\ MaxAccepted \in Nat

VARIABLES
  connected,  \* [Peer -> BOOLEAN]
  frames,     \* [Peer -> Seq(Frame)]: QueueState.frames
  outbound,   \* [Peer -> Nat]: outboundBytes, with the frame in flight
  inFlight,   \* [Peer -> Nat]: inFlightBytes
  draining,   \* [Peer -> BOOLEAN]
  global,     \* globalBytes
  ready,      \* [Peer -> Nat]: drain tasks about to take a frame
  sending,    \* [Peer -> SUBSET Frame]: drain tasks inside sendMessage
  failing,    \* [Peer -> SUBSET Frame]: sendMessage threw
  failed,     \* [Peer -> SUBSET Frame]: sendFailureHandler has returned
  accepted,   \* [Peer -> Nat]: frames accepted so far
  broken,     \* [Peer -> BOOLEAN]: a send has failed
  wire        \* [Peer -> Seq(Nat)]: numbers of the frames sent

queueVars == <<connected, frames, outbound, inFlight, draining, global>>
taskVars == <<ready, sending, failing, failed>>
tellVars == <<accepted, broken, wire>>
vars == <<queueVars, taskVars, tellVars>>

Frame == [no : Nat, bytes : Sizes]

TypeOK ==
  /\ connected \in [Peer -> BOOLEAN]
  /\ frames \in [Peer -> Seq(Frame)]
  /\ outbound \in [Peer -> Nat]
  /\ inFlight \in [Peer -> Nat]
  /\ draining \in [Peer -> BOOLEAN]
  /\ global \in Nat
  /\ ready \in [Peer -> Nat]
  /\ sending \in [Peer -> SUBSET Frame]
  /\ failing \in [Peer -> SUBSET Frame]
  /\ failed \in [Peer -> SUBSET Frame]
  /\ accepted \in [Peer -> Nat]
  /\ broken \in [Peer -> BOOLEAN]
  /\ wire \in [Peer -> Seq(Nat)]

Init ==
  /\ connected = [p \in Peer |-> TRUE]
  /\ frames = [p \in Peer |-> <<>>]
  /\ outbound = [p \in Peer |-> 0]
  /\ inFlight = [p \in Peer |-> 0]
  /\ draining = [p \in Peer |-> FALSE]
  /\ global = 0
  /\ ready = [p \in Peer |-> 0]
  /\ sending = [p \in Peer |-> {}]
  /\ failing = [p \in Peer |-> {}]
  /\ failed = [p \in Peer |-> {}]
  /\ accepted = [p \in Peer |-> 0]
  /\ broken = [p \in Peer |-> FALSE]
  /\ wire = [p \in Peer |-> <<>>]

-----------------------------------------------------------------------------
(* Limits                                                                  *)

\* The sum of the numbers f[x] of all x in S: their units are counted.
Units(f, S) == UNION {{x} \X (1..f[x]) : x \in S}
Total(f, S) == Cardinality(Units(f, S))

Releasable(p) == outbound[p] - inFlight[p]

PeerLimitExceeded(p, b) ==
  \/ Len(frames[p]) + (IF inFlight[p] = 0 THEN 0 ELSE 1) >= MaxQueue
  \/ b > MaxPeerBytes - outbound[p]

\* The order in which peers are closed under global pressure.
Heavier(p, q) ==
  \/ Releasable(p) > Releasable(q)
  \/ /\ Releasable(p) = Releasable(q)
     /\ outbound[p] > outbound[q] \/ (outbound[p] = outbound[q] /\ Age[p] < Age[q])

ReleasableOf(P) == Total([p \in P |-> Releasable(p)], P)

\* The first peers in that order which release enough for b more bytes.
Victims(b) ==
  LET candidates == {p \in Peer : connected[p] /\ Releasable(p) > 0}
      before(p) == {q \in candidates : Heavier(q, p)}
  IN {p \in candidates : ReleasableOf(before(p)) < b - (MaxGlobalBytes - global)}

-----------------------------------------------------------------------------
(* Enqueueing                                                              *)

\* Fault: what a closed peer had in its queue stays counted.
ClearUncounted(P) ==
  /\ frames' = [p \in Peer |-> IF p \in P THEN <<>> ELSE frames[p]]
  /\ outbound' = [p \in Peer |-> IF p \in P THEN inFlight[p] ELSE outbound[p]]
  /\ draining' = [p \in Peer |-> draining[p] /\ (p \in P => inFlight[p] # 0)]
  /\ global' = global

\* clearLocked for each peer of P; the frame in flight stays counted.
Clear(P) ==
  /\ frames' = [p \in Peer |-> IF p \in P THEN <<>> ELSE frames[p]]
  /\ outbound' = [p \in Peer |-> IF p \in P THEN inFlight[p] ELSE outbound[p]]
  /\ draining' = [p \in Peer |-> draining[p] /\ (p \in P => inFlight[p] # 0)]
  /\ global' = global - ReleasableOf(P)

\* disconnectLocked for each peer of P
Disconnect(P) ==
  /\ connected' = [p \in Peer |-> connected[p] /\ p \notin P]
  /\ Clear(P)
  /\ UNCHANGED <<inFlight, taskVars, tellVars>>

\* Fault: a task is started although one is draining.
EnqueueAndDrain(p, b, P) ==
  /\ connected' = [q \in Peer |-> connected[q] /\ q \notin P]
  /\ frames' = [q \in Peer |-> IF q \in P THEN <<>>
                               ELSE IF q = p THEN Append(frames[q], [no |-> accepted[q] + 1, bytes |-> b])
                               ELSE frames[q]]
  /\ outbound' = [q \in Peer |-> IF q \in P THEN inFlight[q]
                                 ELSE IF q = p THEN outbound[q] + b ELSE outbound[q]]
  /\ global' = global - ReleasableOf(P) + b
  /\ draining' = [q \in Peer |-> q = p \/ (draining[q] /\ (q \in P => inFlight[q] # 0))]
  /\ ready' = [ready EXCEPT ![p] = @ + 1]
  /\ accepted' = [accepted EXCEPT ![p] = @ + 1]
  /\ UNCHANGED <<inFlight, sending, failing, failed, broken, wire>>

\* enqueueLocked once the peers of P are closed; the first frame of an idle
\* queue starts a drain task when the lock is released.
Enqueue(p, b, P) ==
  /\ connected' = [q \in Peer |-> connected[q] /\ q \notin P]
  /\ frames' = [q \in Peer |-> IF q \in P THEN <<>>
                               ELSE IF q = p THEN Append(frames[q], [no |-> accepted[q] + 1, bytes |-> b])
                               ELSE frames[q]]
  /\ outbound' = [q \in Peer |-> IF q \in P THEN inFlight[q]
                                 ELSE IF q = p THEN outbound[q] + b ELSE outbound[q]]
  /\ global' = global - ReleasableOf(P) + b
  /\ draining' = [q \in Peer |-> q = p \/ (draining[q] /\ (q \in P => inFlight[q] # 0))]
  /\ ready' = [ready EXCEPT ![p] = @ + (IF draining[p] THEN 0 ELSE 1)]
  /\ accepted' = [accepted EXCEPT ![p] = @ + 1]
  /\ UNCHANGED <<inFlight, sending, failing, failed, broken, wire>>

\* enqueueOneLocked for a frame of b bytes
Offer(p, b) ==
  /\ connected[p] /\ accepted[p] < MaxAccepted
  /\ LET victims == Victims(b)
         enough == global - ReleasableOf(victims) + b <= MaxGlobalBytes
     IN \/ /\ PeerLimitExceeded(p, b)
           /\ Disconnect({p})
        \/ /\ ~PeerLimitExceeded(p, b) /\ global + b <= MaxGlobalBytes
           /\ Enqueue(p, b, {})
        \/ /\ ~PeerLimitExceeded(p, b) /\ global + b > MaxGlobalBytes
           /\ \/ /\ p \in victims
                 /\ Disconnect({v \in victims : v = p \/ Heavier(v, p)})
              \/ /\ p \notin victims /\ ~enough
                 /\ Disconnect(victims \cup {p})
              \/ /\ p \notin victims /\ enough
                 /\ Enqueue(p, b, victims)

-----------------------------------------------------------------------------
(* Drain tasks                                                             *)

\* Fault: a task that ends does not say so.
TakeAndStop(p) ==
  /\ ready[p] > 0
  /\ ready' = [ready EXCEPT ![p] = @ - 1]
  /\ IF connected[p] /\ frames[p] # <<>>
     THEN LET f == Head(frames[p])
          IN /\ frames' = [frames EXCEPT ![p] = Tail(@)]
             /\ inFlight' = [inFlight EXCEPT ![p] = f.bytes]
             /\ sending' = [sending EXCEPT ![p] = @ \cup {f}]
             /\ UNCHANGED <<outbound, draining, global>>
     ELSE UNCHANGED <<frames, inFlight, sending, outbound, draining, global>>
  /\ UNCHANGED <<connected, failing, failed, tellVars>>

\* The locked part of drain: clear up, stop, or take the next frame.
Take(p) ==
  /\ ready[p] > 0
  /\ ready' = [ready EXCEPT ![p] = @ - 1]
  /\ \/ /\ ~connected[p]
        /\ Clear({p})
        /\ UNCHANGED <<inFlight, sending>>
     \/ /\ connected[p] /\ frames[p] = <<>>
        /\ draining' = [draining EXCEPT ![p] = FALSE]
        /\ UNCHANGED <<frames, outbound, inFlight, global, sending>>
     \/ /\ connected[p] /\ frames[p] # <<>>
        /\ LET f == Head(frames[p])
           IN /\ frames' = [frames EXCEPT ![p] = Tail(@)]
              /\ inFlight' = [inFlight EXCEPT ![p] = f.bytes]
              /\ sending' = [sending EXCEPT ![p] = @ \cup {f}]
        /\ UNCHANGED <<outbound, draining, global>>
  /\ UNCHANGED <<connected, failing, failed, tellVars>>

\* releaseInFlightLocked
Release(p, f) ==
  \/ /\ inFlight[p] = 0
     /\ UNCHANGED <<outbound, inFlight, draining, global>>
  \/ /\ inFlight[p] # 0
     /\ inFlight' = [inFlight EXCEPT ![p] = 0]
     /\ outbound' = [outbound EXCEPT ![p] = @ - f.bytes]
     /\ global' = global - f.bytes
     /\ draining' = [draining EXCEPT ![p] = @ /\ ~(outbound'[p] = 0 /\ ~connected[p])]

EndSend(p, f) ==
  /\ f \in sending[p]
  /\ sending' = [sending EXCEPT ![p] = @ \ {f}]
  /\ wire' = [wire EXCEPT ![p] = Append(@, f.no)]
  /\ ready' = [ready EXCEPT ![p] = @ + 1]
  /\ Release(p, f)
  /\ UNCHANGED <<connected, frames, failing, failed, accepted, broken>>

FailSend(p, f) ==
  /\ f \in sending[p]
  /\ sending' = [sending EXCEPT ![p] = @ \ {f}]
  /\ failing' = [failing EXCEPT ![p] = @ \cup {f}]
  /\ broken' = [broken EXCEPT ![p] = TRUE]
  /\ UNCHANGED <<queueVars, ready, failed, accepted, wire>>

\* Fault: a failed send only ends its task.
IgnoreFailure(p, f) ==
  /\ f \in failing[p]
  /\ failing' = [failing EXCEPT ![p] = @ \ {f}]
  /\ failed' = [failed EXCEPT ![p] = @ \cup {f}]
  /\ UNCHANGED <<queueVars, ready, sending, tellVars>>

\* handleOutboundSendFailure
HandleFailure(p, f) ==
  /\ f \in failing[p]
  /\ failing' = [failing EXCEPT ![p] = @ \ {f}]
  /\ failed' = [failed EXCEPT ![p] = @ \cup {f}]
  /\ \/ /\ connected[p]
        /\ connected' = [connected EXCEPT ![p] = FALSE]
        /\ Clear({p})
     \/ /\ ~connected[p]
        /\ UNCHANGED <<connected, frames, outbound, draining, global>>
  /\ UNCHANGED <<inFlight, ready, sending, tellVars>>

\* The finally block after a failed send; the task is over.
EndFailure(p, f) ==
  /\ f \in failed[p]
  /\ failed' = [failed EXCEPT ![p] = @ \ {f}]
  /\ Release(p, f)
  /\ UNCHANGED <<connected, frames, ready, sending, failing, tellVars>>

-----------------------------------------------------------------------------
\* A peer is closed for another reason, or all of them are by stop.
Close(p) == connected[p] /\ Disconnect({p})
Stop == (\E p \in Peer : connected[p]) /\ Disconnect({p \in Peer : connected[p]})

Next ==
  \/ \E p \in Peer, b \in Sizes : Offer(p, b)
  \/ \E p \in Peer : Close(p) \/ Take(p)
  \/ \E p \in Peer : \E f \in sending[p] : EndSend(p, f) \/ FailSend(p, f)
  \/ \E p \in Peer : \E f \in failing[p] : HandleFailure(p, f)
  \/ \E p \in Peer : \E f \in failed[p] : EndFailure(p, f)
  \/ Stop

\* The executor runs every task, or the thread that submits it does, and
\* sendMessage returns or throws in the end.
Fairness ==
  \A p \in Peer :
    /\ WF_vars(Take(p))
    /\ WF_vars(\E f \in sending[p] : EndSend(p, f) \/ FailSend(p, f))
    /\ WF_vars(\E f \in failing[p] : HandleFailure(p, f))
    /\ WF_vars(\E f \in failed[p] : EndFailure(p, f))

Spec == Init /\ [][Next]_vars /\ Fairness
-----------------------------------------------------------------------------
(* Properties                                                              *)

InHand(p) == sending[p] \cup failing[p] \cup failed[p]
BytesOf(s) == Total([i \in 1..Len(s) |-> s[i].bytes], 1..Len(s))

\* The byte counts are those of the frames a peer has queued or in flight,
\* neither limit is ever passed, however closes, failures and sends interleave,
\* and a closed peer keeps no entry beyond its last send.
CountsAddUp ==
  /\ \A p \in Peer :
       /\ outbound[p] = inFlight[p] + BytesOf(frames[p])
       /\ inFlight[p] = Total([f \in InHand(p) |-> f.bytes], InHand(p))
       /\ outbound[p] <= MaxPeerBytes
       /\ Len(frames[p]) + Cardinality(InHand(p)) <= MaxQueue
       /\ ~connected[p] /\ InHand(p) = {} => ~draining[p]
  /\ global = Total(outbound, Peer)
  /\ global <= MaxGlobalBytes

\* At most one task works on a peer: sendMessage is never called for a session
\* while another call for it has not returned (a session forbids that).
OneSender ==
  \A p \in Peer :
    /\ ready[p] \in {0, 1}
    /\ ready[p] = 1 => InHand(p) = {}
    /\ \A f, g \in InHand(p) : f = g
    /\ sending[p] \cap failing[p] = {} /\ failing[p] \cap failed[p] = {}
    /\ sending[p] \cap failed[p] = {}

\* No wakeup is lost: a frame never waits without a task that will take it, and
\* the next frame of a peer without a task starts one.
NothingIsStuck ==
  \A p \in Peer :
    ready[p] = 0 /\ InHand(p) = {} => frames[p] = <<>> /\ (connected[p] => ~draining[p])

\* The numbers of the frames of s
Numbers(s) == [i \in 1..Len(s) |-> s[i].no]
Leaving(p) == IF sending[p] = {} THEN <<>> ELSE <<(CHOOSE f \in sending[p] : TRUE).no>>

Channel == INSTANCE OutboundChannel WITH
  open <- connected,
  pending <- [p \in Peer |-> Leaving(p) \o Numbers(frames[p])]

\* Each peer gets its frames in the order they were accepted in, none twice and
\* none left out, although a task gives up the lock for every send.
ImplementsChannel == Channel!Spec

\* What a peer was sent is an initial part of what was accepted for it.
FramesInOrder == Channel!InOrder

\* A frame that was accepted is sent or its peer is closed.
SentOrClosed ==
  \A p \in Peer : \A n \in 1..MaxAccepted :
    accepted[p] >= n ~> Len(wire[p]) >= n \/ ~connected[p]

=============================================================================
