---------------------- MODULE OutboundDispatcherProofs ----------------------
(***************************************************************************)
(* Proofs about the outbound queues and drain tasks of OutboundDispatcher: *)
(* one task at a time per peer, no lost wakeup, byte counts that are those *)
(* of the queued frames and never pass a limit, and that the dispatcher    *)
(* implements OutboundChannel, for every finite set of peers, every limit  *)
(* and every frame size.                                                   *)
(***************************************************************************)
EXTENDS OutboundDispatcher, FunctionTheorems, FiniteSetTheorems, SequenceTheorems, TLAPS

\* The types of what decides about the order of frames
OrderTypes ==
  /\ connected \in [Peer -> BOOLEAN]
  /\ frames \in [Peer -> Seq(Frame)]
  /\ inFlight \in [Peer -> Nat]
  /\ draining \in [Peer -> BOOLEAN]
  /\ ready \in [Peer -> Nat]
  /\ sending \in [Peer -> SUBSET Frame]
  /\ failing \in [Peer -> SUBSET Frame]
  /\ failed \in [Peer -> SUBSET Frame]
  /\ accepted \in [Peer -> Nat]
  /\ broken \in [Peer -> BOOLEAN]
  /\ wire \in [Peer -> Seq(Nat)]

\* Where the single task of a peer is: about to take a frame, in sendMessage,
\* in the failure handler or behind it; or there is none.
OneTask(p) ==
  \/ ready[p] = 1 /\ sending[p] = {} /\ failing[p] = {} /\ failed[p] = {}
  \/ ready[p] = 0 /\ failing[p] = {} /\ failed[p] = {} /\ \E f \in Frame : sending[p] = {f}
  \/ ready[p] = 0 /\ sending[p] = {} /\ failed[p] = {} /\ \E f \in Frame : failing[p] = {f}
  \/ ready[p] = 0 /\ sending[p] = {} /\ failing[p] = {} /\ \E f \in Frame : failed[p] = {f}
  \/ ready[p] = 0 /\ sending[p] = {} /\ failing[p] = {} /\ failed[p] = {}

NoTask(p) == ready[p] = 0 /\ sending[p] = {} /\ failing[p] = {} /\ failed[p] = {}

\* The flag of an open peer is up exactly while it has a task; a peer that is
\* closed or has no task has no frames; after a failed send nothing is sent any
\* more, and the peer is closed before the task ends.
Fine(p) ==
  /\ OneTask(p)
  /\ connected[p] => (draining[p] <=> ~NoTask(p))
  /\ ~connected[p] \/ NoTask(p) => frames[p] = <<>>
  /\ broken[p] => ready[p] = 0 /\ sending[p] = {} /\ (connected[p] => failing[p] # {})
  /\ failing[p] # {} => broken[p]
  /\ failed[p] # {} => ~connected[p] /\ broken[p]

IInv == OrderTypes /\ \A p \in Peer : Fine(p)

USE SizeAssumption, LimitAssumption

LEMMA Initially == Init => IInv
  BY DEF Init, IInv, OrderTypes, Fine, OneTask, NoTask

\* Frames have a number and a positive length.
LEMMA FrameType == \A f \in Frame : f.no \in Nat /\ f.bytes \in Nat /\ f.bytes # 0
  BY DEF Frame

\* A peer whose values stay is as fine as before.
LEMMA OthersStay ==
  ASSUME IInv, NEW q \in Peer,
         connected'[q] = connected[q], frames'[q] = frames[q], draining'[q] = draining[q],
         ready'[q] = ready[q], sending'[q] = sending[q], failing'[q] = failing[q],
         failed'[q] = failed[q], broken'[q] = broken[q]
  PROVE  Fine(q)'
  BY DEF IInv, Fine, OneTask, NoTask

-----------------------------------------------------------------------------
\* Closing peers disturbs no task.
LEMMA DisconnectKeepsIt ==
  ASSUME IInv, NEW P \in SUBSET Peer, Disconnect(P)
  PROVE  IInv'
<1>1. /\ connected' = [p \in Peer |-> connected[p] /\ p \notin P]
      /\ frames' = [p \in Peer |-> IF p \in P THEN <<>> ELSE frames[p]]
      /\ draining' = [p \in Peer |-> draining[p] /\ (p \in P => inFlight[p] # 0)]
      /\ UNCHANGED <<inFlight, ready, sending, failing, failed, accepted, broken, wire>>
  BY DEF Disconnect, Clear, taskVars, tellVars
<1>2. <<>> \in Seq(Frame)
  OBVIOUS
<1>3. OrderTypes'
  BY <1>1, <1>2 DEF IInv, OrderTypes
<1>4. ASSUME NEW q \in Peer PROVE Fine(q)'
  <2>1. CASE q \in P
    BY <2>1, <1>1 DEF IInv, Fine, OneTask, NoTask
  <2>2. CASE q \notin P
    BY <2>2, <1>1, OthersStay DEF IInv, OrderTypes
  <2> QED  BY <2>1, <2>2
<1> QED  BY <1>3, <1>4 DEF IInv

LEMMA EnqueueKeepsIt ==
  ASSUME IInv, NEW P \in SUBSET Peer, NEW p \in Peer, p \notin P, connected[p],
         NEW b \in Sizes, Enqueue(p, b, P)
  PROVE  IInv'
<1> DEFINE f == [no |-> accepted[p] + 1, bytes |-> b]
<1>0. f \in Frame /\ frames[p] \in Seq(Frame)
  <2>1. accepted[p] \in Nat /\ frames[p] \in Seq(Frame)
    BY DEF IInv, OrderTypes
  <2> QED  BY <2>1 DEF Frame
<1>1. Append(frames[p], f) \in Seq(Frame) /\ <<>> \in Seq(Frame)
  <2> HIDE DEF f
  <2> QED  BY <1>0, AppendProperties
<1>2. /\ connected' = [q \in Peer |-> connected[q] /\ q \notin P]
      /\ frames' = [q \in Peer |-> IF q \in P THEN <<>>
                                   ELSE IF q = p THEN Append(frames[p], f) ELSE frames[q]]
      /\ draining' = [q \in Peer |-> q = p \/ (draining[q] /\ (q \in P => inFlight[q] # 0))]
      /\ ready' = [ready EXCEPT ![p] = @ + (IF draining[p] THEN 0 ELSE 1)]
      /\ accepted' = [accepted EXCEPT ![p] = @ + 1]
      /\ UNCHANGED <<inFlight, sending, failing, failed, broken, wire>>
  BY DEF Enqueue
<1>3. OrderTypes'
  <2>1. frames' \in [Peer -> Seq(Frame)]
    BY <1>1, <1>2 DEF IInv, OrderTypes
  <2>2. connected' \in [Peer -> BOOLEAN] /\ draining' \in [Peer -> BOOLEAN]
    BY <1>2 DEF IInv, OrderTypes
  <2> QED  BY <2>1, <2>2, <1>2 DEF IInv, OrderTypes
<1>4. Fine(p)'
  <2>1. connected'[p] /\ draining'[p] /\ OneTask(p)
    BY <1>2 DEF IInv, Fine
  <2>2. CASE draining[p]
    <3>1. ready'[p] = ready[p] /\ ~NoTask(p)
      BY <2>2, <1>2 DEF IInv, OrderTypes, Fine
    <3> QED  BY <2>1, <3>1, <1>2 DEF IInv, Fine, OneTask, NoTask
  <2>3. CASE ~draining[p]
    <3>1. ready[p] = 0 /\ ready'[p] = 1 /\ NoTask(p)
      BY <2>3, <1>2 DEF IInv, OrderTypes, Fine, NoTask
    <3> QED  BY <2>1, <3>1, <1>2 DEF IInv, Fine, OneTask, NoTask
  <2> QED  BY <2>2, <2>3
<1>5. ASSUME NEW q \in Peer \ {p} PROVE Fine(q)'
  <2>1. ready'[q] = ready[q]
    BY <1>2 DEF IInv, OrderTypes
  <2>2. CASE q \in P
    BY <2>1, <2>2, <1>2 DEF IInv, Fine, OneTask, NoTask
  <2>3. CASE q \notin P
    BY <2>1, <2>3, <1>2, OthersStay DEF IInv, OrderTypes
  <2> QED  BY <2>2, <2>3
<1> QED  BY <1>3, <1>4, <1>5 DEF IInv

LEMMA OfferIsOne ==
  ASSUME NEW p \in Peer, NEW b \in Sizes, Offer(p, b)
  PROVE  \/ \E P \in SUBSET Peer : Disconnect(P)
         \/ connected[p] /\ \E P \in SUBSET Peer : p \notin P /\ Enqueue(p, b, P)
<1>1. Victims(b) \in SUBSET Peer
  BY DEF Victims
<1>2. {v \in Victims(b) : v = p \/ Heavier(v, p)} \in SUBSET Peer /\ Victims(b) \cup {p} \in SUBSET Peer
  BY <1>1
<1>3. p \notin {} /\ {} \in SUBSET Peer /\ {p} \in SUBSET Peer
  OBVIOUS
<1> HIDE DEF Enqueue, Disconnect, Victims, Heavier, PeerLimitExceeded, ReleasableOf
<1> QED  BY <1>1, <1>2, <1>3 DEF Offer

\* What a task about to take a frame does to its peer.
LEMMA TakeIsOne ==
  ASSUME IInv, NEW p \in Peer, Take(p)
  PROVE  /\ ready' = [ready EXCEPT ![p] = 0]
         /\ ready[p] = 1 /\ sending[p] = {} /\ failing[p] = {} /\ failed[p] = {} /\ ~broken[p]
         /\ UNCHANGED <<connected, failing, failed, accepted, broken, wire>>
<1>1. ready[p] > 0 /\ ready' = [ready EXCEPT ![p] = @ - 1]
      /\ UNCHANGED <<connected, failing, failed, accepted, broken, wire>>
  BY DEF Take, tellVars
<1>2. Fine(p)
  BY DEF IInv
<1>3. ready[p] = 1 /\ sending[p] = {} /\ failing[p] = {} /\ failed[p] = {} /\ ~broken[p]
  BY <1>1, <1>2 DEF Fine, OneTask
<1> QED  BY <1>1, <1>3

LEMMA TakeKeepsIt ==
  ASSUME IInv, NEW p \in Peer, Take(p)
  PROVE  IInv'
<1>0. /\ ready' = [ready EXCEPT ![p] = 0]
      /\ ready[p] = 1 /\ sending[p] = {} /\ failing[p] = {} /\ failed[p] = {} /\ ~broken[p]
      /\ UNCHANGED <<connected, failing, failed, accepted, broken, wire>>
  BY TakeIsOne
<1>1. CASE connected[p] /\ frames[p] # <<>>
  <2> DEFINE f == Head(frames[p])
  <2>1. f \in Frame /\ Tail(frames[p]) \in Seq(Frame) /\ f.bytes \in Nat
    BY <1>1, HeadTailProperties, FrameType DEF IInv, OrderTypes
  <2>2. /\ frames' = [frames EXCEPT ![p] = Tail(@)]
        /\ inFlight' = [inFlight EXCEPT ![p] = f.bytes]
        /\ sending' = [sending EXCEPT ![p] = @ \cup {f}]
        /\ UNCHANGED draining
    BY <1>1 DEF Take
  <2>3. OrderTypes'
    <3>1. sending' \in [Peer -> SUBSET Frame]
      BY <2>1, <2>2 DEF IInv, OrderTypes
    <3>2. frames' \in [Peer -> Seq(Frame)] /\ inFlight' \in [Peer -> Nat]
      BY <2>1, <2>2 DEF IInv, OrderTypes
    <3> QED  BY <3>1, <3>2, <2>2, <1>0 DEF IInv, OrderTypes
  <2>4. Fine(p)'
    <3>1. draining[p]
      BY <1>0, <1>1 DEF IInv, Fine, NoTask
    <3>2. sending'[p] = {f} /\ ready'[p] = 0
      BY <2>2, <1>0 DEF IInv, OrderTypes
    <3> QED  BY <3>1, <3>2, <2>1, <2>2, <1>1, <1>0 DEF Fine, OneTask, NoTask
  <2>5. ASSUME NEW q \in Peer \ {p} PROVE Fine(q)'
    <3>1. /\ frames'[q] = frames[q] /\ draining'[q] = draining[q] /\ ready'[q] = ready[q]
          /\ sending'[q] = sending[q]
      BY <2>2, <1>0 DEF IInv, OrderTypes
    <3> QED  BY <3>1, <1>0, OthersStay
  <2> QED  BY <2>3, <2>4, <2>5 DEF IInv
<1>2. CASE connected[p] /\ frames[p] = <<>>
  <2>1. draining' = [draining EXCEPT ![p] = FALSE] /\ UNCHANGED <<frames, inFlight, sending>>
    BY <1>2 DEF Take
  <2>2. OrderTypes'
    BY <2>1, <1>0 DEF IInv, OrderTypes
  <2>3. Fine(p)'
    <3>1. ready'[p] = 0 /\ draining'[p] = FALSE
      BY <2>1, <1>0 DEF IInv, OrderTypes
    <3> QED  BY <3>1, <2>1, <1>2, <1>0 DEF Fine, OneTask, NoTask
  <2>4. ASSUME NEW q \in Peer \ {p} PROVE Fine(q)'
    <3>1. /\ frames'[q] = frames[q] /\ draining'[q] = draining[q] /\ ready'[q] = ready[q]
          /\ sending'[q] = sending[q]
      BY <2>1, <1>0 DEF IInv, OrderTypes
    <3> QED  BY <3>1, <1>0, OthersStay
  <2> QED  BY <2>2, <2>3, <2>4 DEF IInv
<1>3. CASE ~connected[p]
  <2>1. /\ frames' = [q \in Peer |-> IF q \in {p} THEN <<>> ELSE frames[q]]
        /\ draining' = [q \in Peer |-> draining[q] /\ (q \in {p} => inFlight[q] # 0)]
        /\ UNCHANGED <<inFlight, sending>>
    BY <1>3 DEF Take, Clear
  <2>2. OrderTypes'
    BY <2>1, <1>0 DEF IInv, OrderTypes
  <2>3. Fine(p)'
    <3>1. ready'[p] = 0 /\ frames'[p] = <<>>
      BY <2>1, <1>0 DEF IInv, OrderTypes
    <3> QED  BY <3>1, <2>1, <1>3, <1>0 DEF Fine, OneTask, NoTask
  <2>4. ASSUME NEW q \in Peer \ {p} PROVE Fine(q)'
    <3>1. /\ frames'[q] = frames[q] /\ draining'[q] = draining[q] /\ ready'[q] = ready[q]
          /\ sending'[q] = sending[q]
      BY <2>1, <1>0 DEF IInv, OrderTypes
    <3> QED  BY <3>1, <1>0, OthersStay
  <2> QED  BY <2>2, <2>3, <2>4 DEF IInv
<1> QED  BY <1>1, <1>2, <1>3

\* A release leaves the flags as they are, except that of a closed peer.
LEMMA ReleaseKeeps ==
  ASSUME OrderTypes, NEW p \in Peer, NEW f \in Frame, Release(p, f)
  PROVE  /\ inFlight' \in [Peer -> Nat]
         /\ draining' \in [Peer -> BOOLEAN]
         /\ \A q \in Peer : connected[q] \/ q # p => draining'[q] = draining[q]
<1>1. CASE inFlight[p] = 0
  BY <1>1 DEF OrderTypes, Release
<1>2. CASE inFlight[p] # 0
  <2>1. inFlight' = [inFlight EXCEPT ![p] = 0]
    BY <1>2 DEF Release
  <2>2. draining' = [draining EXCEPT ![p] = draining[p] /\ ~(outbound'[p] = 0 /\ ~connected[p])]
    BY <1>2 DEF Release
  <2> QED  BY <2>1, <2>2 DEF OrderTypes
<1> QED  BY <1>1, <1>2

LEMMA EndSendKeepsIt ==
  ASSUME IInv, NEW p \in Peer, NEW f \in sending[p], EndSend(p, f)
  PROVE  IInv'
<1>1. f \in Frame /\ f.no \in Nat
  BY FrameType DEF IInv, OrderTypes
<1>2. ready[p] = 0 /\ sending[p] = {f} /\ failing[p] = {} /\ failed[p] = {} /\ ~broken[p]
  BY DEF IInv, Fine, OneTask
<1>3. /\ sending' = [sending EXCEPT ![p] = @ \ {f}]
      /\ ready' = [ready EXCEPT ![p] = @ + 1]
      /\ wire' = [wire EXCEPT ![p] = Append(@, f.no)]
      /\ UNCHANGED <<connected, frames, failing, failed, accepted, broken>>
  BY DEF EndSend
<1>4. /\ inFlight' \in [Peer -> Nat] /\ draining' \in [Peer -> BOOLEAN]
      /\ \A q \in Peer : connected[q] \/ q # p => draining'[q] = draining[q]
  BY <1>1, ReleaseKeeps DEF EndSend, IInv
<1>5. OrderTypes'
  <2>1. wire' \in [Peer -> Seq(Nat)]
    BY <1>1, <1>3 DEF IInv, OrderTypes
  <2>2. sending' \in [Peer -> SUBSET Frame] /\ ready' \in [Peer -> Nat]
    BY <1>3 DEF IInv, OrderTypes
  <2> QED  BY <1>3, <1>4, <2>1, <2>2 DEF IInv, OrderTypes
<1>6. Fine(p)'
  <2>1. sending'[p] = {} /\ ready'[p] = 1
    BY <1>2, <1>3 DEF IInv, OrderTypes
  <2>2. connected[p] => draining[p]
    BY <1>2 DEF IInv, Fine, NoTask
  <2>3. ~connected[p] => frames[p] = <<>>
    BY DEF IInv, Fine
  <2> QED  BY <2>1, <2>2, <2>3, <1>2, <1>3, <1>4 DEF Fine, OneTask, NoTask
<1>7. ASSUME NEW q \in Peer \ {p} PROVE Fine(q)'
  BY <1>3, <1>4, OthersStay DEF IInv, OrderTypes
<1> QED  BY <1>5, <1>6, <1>7 DEF IInv

LEMMA FailSendKeepsIt ==
  ASSUME IInv, NEW p \in Peer, NEW f \in sending[p], FailSend(p, f)
  PROVE  IInv'
<1>1. f \in Frame /\ ready[p] = 0 /\ sending[p] = {f} /\ failing[p] = {} /\ failed[p] = {}
  BY DEF IInv, OrderTypes, Fine, OneTask
<1>2. /\ sending' = [sending EXCEPT ![p] = @ \ {f}]
      /\ failing' = [failing EXCEPT ![p] = @ \cup {f}]
      /\ broken' = [broken EXCEPT ![p] = TRUE]
      /\ UNCHANGED <<connected, frames, inFlight, draining, ready, failed, accepted, wire>>
  BY DEF FailSend, queueVars
<1>3. OrderTypes'
  BY <1>1, <1>2 DEF IInv, OrderTypes
<1>4. Fine(p)'
  <2>1. sending'[p] = {} /\ failing'[p] = {f} /\ broken'[p] = TRUE
    BY <1>1, <1>2 DEF IInv, OrderTypes
  <2> QED  BY <2>1, <1>1, <1>2 DEF IInv, Fine, OneTask, NoTask
<1>5. ASSUME NEW q \in Peer \ {p} PROVE Fine(q)'
  BY <1>2, OthersStay DEF IInv, OrderTypes
<1> QED  BY <1>3, <1>4, <1>5 DEF IInv

LEMMA HandleFailureIsOne ==
  ASSUME IInv, NEW p \in Peer, NEW f \in failing[p], HandleFailure(p, f)
  PROVE  /\ f \in Frame /\ ready[p] = 0 /\ sending[p] = {} /\ failing[p] = {f} /\ failed[p] = {}
         /\ broken[p]
         /\ connected' = [connected EXCEPT ![p] = FALSE]
         /\ frames' = [frames EXCEPT ![p] = <<>>]
         /\ draining' \in [Peer -> BOOLEAN]
         /\ \A q \in Peer \ {p} : draining'[q] = draining[q]
         /\ failing' = [failing EXCEPT ![p] = @ \ {f}]
         /\ failed' = [failed EXCEPT ![p] = @ \cup {f}]
         /\ UNCHANGED <<inFlight, ready, sending, accepted, broken, wire>>
<1>1. /\ f \in Frame /\ ready[p] = 0 /\ sending[p] = {} /\ failing[p] = {f} /\ failed[p] = {}
      /\ broken[p] /\ (~connected[p] => frames[p] = <<>>)
  BY DEF IInv, OrderTypes, Fine, OneTask
<1>2. /\ failing' = [failing EXCEPT ![p] = @ \ {f}]
      /\ failed' = [failed EXCEPT ![p] = @ \cup {f}]
      /\ UNCHANGED <<inFlight, ready, sending, accepted, broken, wire>>
  BY DEF HandleFailure, tellVars
<1>3. /\ connected' = [connected EXCEPT ![p] = FALSE]
      /\ frames' = [frames EXCEPT ![p] = <<>>]
      /\ draining' \in [Peer -> BOOLEAN]
      /\ \A q \in Peer \ {p} : draining'[q] = draining[q]
  <2>1. CASE connected[p]
    <3>1. /\ connected' = [connected EXCEPT ![p] = FALSE]
          /\ frames' = [q \in Peer |-> IF q \in {p} THEN <<>> ELSE frames[q]]
          /\ draining' = [q \in Peer |-> draining[q] /\ (q \in {p} => inFlight[q] # 0)]
      BY <2>1 DEF HandleFailure, Clear
    <3>2. frames' = [frames EXCEPT ![p] = <<>>]
      BY <3>1 DEF IInv, OrderTypes
    <3> QED  BY <3>1, <3>2 DEF IInv, OrderTypes
  <2>2. CASE ~connected[p]
    <3>1. UNCHANGED <<connected, frames, draining>>
      BY <2>2 DEF HandleFailure
    <3> QED  BY <1>1, <2>2, <3>1 DEF IInv, OrderTypes
  <2> QED  BY <2>1, <2>2
<1> QED  BY <1>1, <1>2, <1>3

LEMMA HandleFailureKeepsIt ==
  ASSUME IInv, NEW p \in Peer, NEW f \in failing[p], HandleFailure(p, f)
  PROVE  IInv'
<1>0. /\ f \in Frame /\ ready[p] = 0 /\ sending[p] = {} /\ failing[p] = {f} /\ failed[p] = {}
      /\ broken[p]
      /\ connected' = [connected EXCEPT ![p] = FALSE]
      /\ frames' = [frames EXCEPT ![p] = <<>>]
      /\ draining' \in [Peer -> BOOLEAN]
      /\ \A q \in Peer \ {p} : draining'[q] = draining[q]
      /\ failing' = [failing EXCEPT ![p] = @ \ {f}]
      /\ failed' = [failed EXCEPT ![p] = @ \cup {f}]
      /\ UNCHANGED <<inFlight, ready, sending, accepted, broken, wire>>
  BY HandleFailureIsOne
<1>1. OrderTypes'
  <2>1. failing' \in [Peer -> SUBSET Frame] /\ failed' \in [Peer -> SUBSET Frame]
    BY <1>0 DEF IInv, OrderTypes
  <2>2. frames' \in [Peer -> Seq(Frame)] /\ connected' \in [Peer -> BOOLEAN]
    BY <1>0 DEF IInv, OrderTypes
  <2> QED  BY <2>1, <2>2, <1>0 DEF IInv, OrderTypes
<1>2. Fine(p)'
  <2>1. failing'[p] = {} /\ failed'[p] = {f} /\ connected'[p] = FALSE /\ frames'[p] = <<>>
    BY <1>0 DEF IInv, OrderTypes
  <2> QED  BY <2>1, <1>0 DEF Fine, OneTask, NoTask
<1>3. ASSUME NEW q \in Peer \ {p} PROVE Fine(q)'
  <2>1. /\ connected'[q] = connected[q] /\ frames'[q] = frames[q]
        /\ failing'[q] = failing[q] /\ failed'[q] = failed[q]
    BY <1>0 DEF IInv, OrderTypes
  <2> QED  BY <2>1, <1>0, OthersStay
<1> QED  BY <1>1, <1>2, <1>3 DEF IInv

LEMMA EndFailureKeepsIt ==
  ASSUME IInv, NEW p \in Peer, NEW f \in failed[p], EndFailure(p, f)
  PROVE  IInv'
<1>1. /\ f \in Frame /\ ready[p] = 0 /\ sending[p] = {} /\ failing[p] = {} /\ failed[p] = {f}
      /\ ~connected[p] /\ frames[p] = <<>>
  BY DEF IInv, OrderTypes, Fine, OneTask
<1>2. /\ failed' = [failed EXCEPT ![p] = @ \ {f}]
      /\ UNCHANGED <<connected, frames, ready, sending, failing, accepted, broken, wire>>
  BY DEF EndFailure, tellVars
<1>3. /\ inFlight' \in [Peer -> Nat] /\ draining' \in [Peer -> BOOLEAN]
      /\ \A q \in Peer : connected[q] \/ q # p => draining'[q] = draining[q]
  BY <1>1, ReleaseKeeps DEF EndFailure, IInv
<1>4. OrderTypes'
  BY <1>2, <1>3 DEF IInv, OrderTypes
<1>5. Fine(p)'
  <2>1. failed'[p] = {}
    BY <1>1, <1>2 DEF IInv, OrderTypes
  <2> QED  BY <2>1, <1>1, <1>2 DEF Fine, OneTask, NoTask
<1>6. ASSUME NEW q \in Peer \ {p} PROVE Fine(q)'
  BY <1>2, <1>3, OthersStay DEF IInv, OrderTypes
<1> QED  BY <1>4, <1>5, <1>6 DEF IInv

LEMMA EveryStepKeepsIt == IInv /\ [Next]_vars => IInv'
<1> SUFFICES ASSUME IInv, [Next]_vars PROVE IInv'
  OBVIOUS
<1>1. ASSUME NEW p \in Peer, NEW b \in Sizes, Offer(p, b) PROVE IInv'
  BY <1>1, OfferIsOne, DisconnectKeepsIt, EnqueueKeepsIt
<1>2. ASSUME NEW p \in Peer, Close(p) \/ Take(p) PROVE IInv'
  BY <1>2, DisconnectKeepsIt, TakeKeepsIt DEF Close
<1>3. ASSUME NEW p \in Peer, NEW f \in sending[p], EndSend(p, f) \/ FailSend(p, f) PROVE IInv'
  BY <1>3, EndSendKeepsIt, FailSendKeepsIt
<1>4. ASSUME NEW p \in Peer, NEW f \in failing[p], HandleFailure(p, f) PROVE IInv'
  BY <1>4, HandleFailureKeepsIt
<1>5. ASSUME NEW p \in Peer, NEW f \in failed[p], EndFailure(p, f) PROVE IInv'
  BY <1>5, EndFailureKeepsIt
<1>6. CASE Stop
  <2>1. {p \in Peer : connected[p]} \in SUBSET Peer
    OBVIOUS
  <2> QED  BY <1>6, <2>1, DisconnectKeepsIt DEF Stop
<1>7. CASE UNCHANGED vars
  BY <1>7 DEF IInv, OrderTypes, Fine, OneTask, NoTask, vars, queueVars, taskVars, tellVars
<1> QED  BY <1>1, <1>2, <1>3, <1>4, <1>5, <1>6, <1>7 DEF Next

LEMMA TasksAreFine == Spec => []IInv
  BY Initially, EveryStepKeepsIt, PTL DEF Spec

\* At most one drain task works on a peer, whatever closes, failed sends and
\* submissions interleave (SignalingOutboundDispatcher.drain).
THEOREM SendersAreSingle == Spec => []OneSender
<1>1. IInv => OneSender
  BY DEF IInv, Fine, OneTask, OneSender, InHand
<1> QED  BY <1>1, TasksAreFine, PTL

\* No queued frame is ever left without a task, for every peer and limit.
THEOREM WakeupsAreKept == Spec => []NothingIsStuck
<1>1. IInv => NothingIsStuck
  BY DEF IInv, Fine, NoTask, NothingIsStuck, InHand
<1> QED  BY <1>1, TasksAreFine, PTL

-----------------------------------------------------------------------------
(* Sums: counting units instead of adding, so that no induction is needed  *)

LEMMA UnitsAre ==
  ASSUME NEW S, NEW f
  PROVE  \A u : u \in Units(f, S) <=> \E x \in S : \E k \in 1..f[x] : u = <<x, k>>
  BY DEF Units

\* A finite set has finitely many units.
LEMMA UnitsAreFinite ==
  ASSUME NEW S, IsFiniteSet(S), NEW f, \A x \in S : f[x] \in Nat
  PROVE  IsFiniteSet(Units(f, S)) /\ Total(f, S) \in Nat
<1> DEFINE Of(x) == {x} \X (1..f[x])
           T == {Of(x) : x \in S}
           g == [x \in S |-> Of(x)]
<1>1. g \in Surjection(S, T)
  <2>1. g \in [S -> T] /\ \A t \in T : \E s \in S : g[s] = t
    OBVIOUS
  <2> QED  BY <2>1, Fun_IsSurj
<1>2. IsFiniteSet(T)
  <2> HIDE DEF g, T
  <2> QED  BY <1>1, FS_Surjection
<1>3. \A t \in T : IsFiniteSet(t)
  <2> SUFFICES ASSUME NEW x \in S PROVE IsFiniteSet({x} \X (1..f[x]))
    OBVIOUS
  <2>1. IsFiniteSet(1..f[x])
    <3>1. f[x] \in Int /\ 1 \in Int
      OBVIOUS
    <3> QED  BY <3>1, FS_Interval
  <2> QED  BY <2>1, FS_Singleton, FS_Product
<1>4. Units(f, S) = UNION T
  BY DEF Units
<1> HIDE DEF T
<1>5. IsFiniteSet(Units(f, S))
  BY <1>2, <1>3, <1>4, FS_UNION
<1> QED  BY <1>5, FS_CardinalityType DEF Total

LEMMA TotalOfNone == ASSUME NEW f PROVE Total(f, {}) = 0
<1>1. Units(f, {}) = {}
  BY DEF Units
<1> QED  BY <1>1, FS_EmptySet DEF Total

LEMMA TotalOfOne ==
  ASSUME NEW f, NEW x, f[x] \in Nat
  PROVE  Total(f, {x}) = f[x]
<1>1. Units(f, {x}) = {x} \X (1..f[x])
  BY DEF Units
<1>2. IsFiniteSet(1..f[x]) /\ Cardinality(1..f[x]) = f[x]
  <2>1. f[x] \in Int /\ 1 \in Int
    OBVIOUS
  <2>2. Cardinality(1..f[x]) = IF 1 > f[x] THEN 0 ELSE f[x] - 1 + 1
    BY <2>1, FS_Interval
  <2>3. IsFiniteSet(1..f[x])
    BY <2>1, FS_Interval
  <2>4. Cardinality(1..f[x]) = f[x]
    BY <2>2
  <2> QED  BY <2>3, <2>4
<1>3. Cardinality({x} \X (1..f[x])) = Cardinality({x}) * Cardinality(1..f[x])
  BY <1>2, FS_Singleton, FS_Product
<1>4. Cardinality({x}) = 1
  BY FS_Singleton
<1>5. Cardinality({x} \X (1..f[x])) = f[x]
  BY <1>2, <1>3, <1>4
<1> QED  BY <1>1, <1>5 DEF Total

\* Disjoint sets add up.
LEMMA TotalOfUnion ==
  ASSUME NEW S, NEW T, IsFiniteSet(S), IsFiniteSet(T), S \cap T = {},
         NEW f, \A x \in S \cup T : f[x] \in Nat
  PROVE  Total(f, S \cup T) = Total(f, S) + Total(f, T)
<1>1. Units(f, S \cup T) = Units(f, S) \cup Units(f, T)
  BY UnitsAre DEF Units
<1>2. Units(f, S) \cap Units(f, T) = {}
  BY UnitsAre
<1>3. IsFiniteSet(Units(f, S)) /\ IsFiniteSet(Units(f, T))
  BY UnitsAreFinite
<1>4. Total(f, S) \in Nat /\ Total(f, T) \in Nat
  BY UnitsAreFinite
<1>5. Cardinality(Units(f, S) \cup Units(f, T))
        = Cardinality(Units(f, S)) + Cardinality(Units(f, T)) - Cardinality(Units(f, S) \cap Units(f, T))
  BY <1>3, FS_Union
<1>6. Cardinality(Units(f, S) \cap Units(f, T)) = 0
  BY <1>2, FS_EmptySet
<1>7. Total(f, S \cup T) = Total(f, S) + Total(f, T) - 0
  BY <1>1, <1>5, <1>6 DEF Total
<1> QED  BY <1>4, <1>7

\* Equal numbers have equal sums.
LEMMA TotalOfSame ==
  ASSUME NEW S, NEW f, NEW g, \A x \in S : f[x] = g[x]
  PROVE  Total(f, S) = Total(g, S)
<1>1. Units(f, S) = Units(g, S)
  BY DEF Units
<1> QED  BY <1>1 DEF Total

\* Sums of sums: the units of g follow those of f.
LEMMA TotalOfSums ==
  ASSUME NEW S, IsFiniteSet(S), NEW f, NEW g, NEW h,
         \A x \in S : f[x] \in Nat /\ g[x] \in Nat /\ h[x] = f[x] + g[x]
  PROVE  Total(h, S) = Total(f, S) + Total(g, S)
<1> DEFINE T == Units(h, S) \ Units(f, S)
           m == [u \in Units(g, S) |-> <<u[1], f[u[1]] + u[2]>>]
<1>1. \A u : u \in T <=> \E x \in S : \E k \in (f[x] + 1)..(f[x] + g[x]) : u = <<x, k>>
  <2>1. ASSUME NEW u \in T
        PROVE  \E x \in S : \E k \in (f[x] + 1)..(f[x] + g[x]) : u = <<x, k>>
    <3>1. PICK x \in S : \E k \in 1..h[x] : u = <<x, k>>
      BY UnitsAre
    <3>2. PICK k \in 1..h[x] : u = <<x, k>>
      BY <3>1
    <3>3. k \notin 1..f[x]
      BY <3>2, UnitsAre
    <3>4. k \in (f[x] + 1)..(f[x] + g[x])
      BY <3>2, <3>3
    <3> QED  BY <3>2, <3>4
  <2>2. ASSUME NEW x \in S, NEW k \in (f[x] + 1)..(f[x] + g[x])
        PROVE  <<x, k>> \in T
    <3>1. k \in 1..h[x] /\ k \notin 1..f[x]
      OBVIOUS
    <3>2. <<x, k>> \in Units(h, S)
      BY <3>1, UnitsAre
    <3>3. <<x, k>> \notin Units(f, S)
      <4> SUFFICES ASSUME <<x, k>> \in Units(f, S) PROVE FALSE
        OBVIOUS
      <4>1. PICK y \in S : \E j \in 1..f[y] : <<x, k>> = <<y, j>>
        BY UnitsAre
      <4> QED  BY <4>1, <3>1
    <3> QED  BY <3>2, <3>3
  <2> QED  BY <2>1, <2>2
<1>2. m \in Bijection(Units(g, S), T)
  <2>1. ASSUME NEW x \in S, NEW k \in 1..g[x]
        PROVE  <<x, k>> \in Units(g, S) /\ m[<<x, k>>] = <<x, f[x] + k>> /\ <<x, f[x] + k>> \in T
    <3>1. <<x, k>> \in Units(g, S)
      BY UnitsAre
    <3>2. f[x] + k \in (f[x] + 1)..(f[x] + g[x])
      OBVIOUS
    <3>3. <<x, f[x] + k>> \in T
      BY <3>2, <1>1
    <3> QED  BY <3>1, <3>3
  <2>2. \A u \in Units(g, S) : \E x \in S : \E k \in 1..g[x] : u = <<x, k>>
    BY UnitsAre
  <2> DEFINE U == Units(g, S)
  <2>3. m = [u \in U |-> m[u]]
    OBVIOUS
  <2> HIDE DEF m, T, U
  <2>4. m \in [U -> T]
    <3>1. ASSUME NEW u \in U PROVE m[u] \in T
      <4>1. PICK x \in S : \E k \in 1..g[x] : u = <<x, k>>
        BY <2>2 DEF U
      <4>2. PICK k \in 1..g[x] : u = <<x, k>>
        BY <4>1
      <4> QED  BY <2>1, <4>2
    <3> QED  BY <2>3, <3>1
  <2>5. \A u, v \in U : m[u] = m[v] => u = v
    <3> SUFFICES ASSUME NEW u \in U, NEW v \in U, m[u] = m[v] PROVE u = v
      OBVIOUS
    <3>1. PICK x \in S : \E k \in 1..g[x] : u = <<x, k>>
      BY <2>2 DEF U
    <3>2. PICK k \in 1..g[x] : u = <<x, k>>
      BY <3>1
    <3>3. PICK y \in S : \E j \in 1..g[y] : v = <<y, j>>
      BY <2>2 DEF U
    <3>4. PICK j \in 1..g[y] : v = <<y, j>>
      BY <3>3
    <3>5. <<x, f[x] + k>> = <<y, f[y] + j>>
      <4>1. m[u] = <<x, f[x] + k>>
        BY <2>1, <3>2
      <4>2. m[v] = <<y, f[y] + j>>
        BY <2>1, <3>4
      <4> QED  BY <4>1, <4>2
    <3>6. x = y /\ f[x] + k = f[x] + j
      BY <3>5
    <3>7. k = j
      BY <3>6
    <3> QED  BY <3>2, <3>4, <3>6, <3>7
  <2>6. \A t \in T : \E u \in U : m[u] = t
    <3> SUFFICES ASSUME NEW t \in T PROVE \E u \in U : m[u] = t
      OBVIOUS
    <3>1. PICK x \in S : \E k \in (f[x] + 1)..(f[x] + g[x]) : t = <<x, k>>
      BY <1>1
    <3>2. PICK k \in (f[x] + 1)..(f[x] + g[x]) : t = <<x, k>>
      BY <3>1
    <3>3. k - f[x] \in 1..g[x] /\ f[x] + (k - f[x]) = k
      OBVIOUS
    <3>4. m[<<x, k - f[x]>>] = t /\ <<x, k - f[x]>> \in U
      BY <2>1, <3>2, <3>3 DEF U
    <3> QED  BY <3>4
  <2>7. m \in Bijection(U, T)
    BY <2>4, <2>5, <2>6, Fun_IsBij
  <2> QED  BY <2>7 DEF U
<1>3. IsFiniteSet(Units(f, S)) /\ IsFiniteSet(Units(g, S)) /\ Total(f, S) \in Nat /\ Total(g, S) \in Nat
  BY UnitsAreFinite
<1>4. Units(h, S) = Units(f, S) \cup T
  <2>1. ASSUME NEW x \in S, NEW k \in 1..f[x] PROVE <<x, k>> \in Units(h, S)
    <3>1. k \in 1..h[x]
      OBVIOUS
    <3> QED  BY <3>1, UnitsAre
  <2>2. Units(f, S) \subseteq Units(h, S)
    BY <2>1, UnitsAre
  <2> QED  BY <2>2
<1>5. Units(f, S) \cap T = {}
  OBVIOUS
<1> HIDE DEF T, m
<1>6. IsFiniteSet(T) /\ Cardinality(T) = Cardinality(Units(g, S))
  <2>1. ExistsBijection(Units(g, S), T)
    BY <1>2, Fun_ExistsBij
  <2> QED  BY <1>3, <2>1, FS_Bijection
<1>7. Cardinality(Units(f, S) \cup T)
        = Cardinality(Units(f, S)) + Cardinality(T) - Cardinality(Units(f, S) \cap T)
  BY <1>3, <1>6, FS_Union
<1>8. Cardinality(Units(f, S) \cap T) = 0
  BY <1>5, FS_EmptySet
<1>9. Total(h, S) = Total(f, S) + Total(g, S) - 0
  BY <1>4, <1>6, <1>7, <1>8 DEF Total
<1> QED  BY <1>3, <1>9

\* Numbers that move up by one place keep their sum.
LEMMA TotalOfShifted ==
  ASSUME NEW n \in Nat, NEW f, NEW g, \A i \in 1..n : f[i] \in Nat /\ g[i + 1] = f[i]
  PROVE  Total(g, 2..(n + 1)) = Total(f, 1..n)
<1> DEFINE U == Units(f, 1..n)
           T == Units(g, 2..(n + 1))
           m == [u \in U |-> <<u[1] + 1, u[2]>>]
<1>1. ASSUME NEW i \in 1..n, NEW k \in 1..f[i]
      PROVE  <<i, k>> \in U /\ m[<<i, k>>] = <<i + 1, k>> /\ <<i + 1, k>> \in T
  <2>1. <<i, k>> \in U
    BY UnitsAre
  <2>2. i + 1 \in 2..(n + 1) /\ k \in 1..g[i + 1]
    OBVIOUS
  <2>3. <<i + 1, k>> \in T
    BY <2>2, UnitsAre
  <2> QED  BY <2>1, <2>3
<1>2. \A u \in U : \E i \in 1..n : \E k \in 1..f[i] : u = <<i, k>>
  BY UnitsAre
<1>3. \A t \in T : \E i \in 2..(n + 1) : \E k \in 1..g[i] : t = <<i, k>>
  BY UnitsAre
<1>4. IsFiniteSet(U)
  <2>1. n \in Int /\ 1 \in Int
    OBVIOUS
  <2>2. IsFiniteSet(1..n)
    BY <2>1, FS_Interval
  <2> QED  BY <2>2, UnitsAreFinite
<1>5. m = [u \in U |-> m[u]]
  OBVIOUS
<1> HIDE DEF U, T, m
<1>6. m \in [U -> T]
  <2>1. ASSUME NEW u \in U PROVE m[u] \in T
    <3>1. PICK i \in 1..n : \E k \in 1..f[i] : u = <<i, k>>
      BY <1>2
    <3>2. PICK k \in 1..f[i] : u = <<i, k>>
      BY <3>1
    <3> QED  BY <1>1, <3>2
  <2> QED  BY <1>5, <2>1
<1>7. \A u, v \in U : m[u] = m[v] => u = v
  <2> SUFFICES ASSUME NEW u \in U, NEW v \in U, m[u] = m[v] PROVE u = v
    OBVIOUS
  <2>1. PICK i \in 1..n : \E k \in 1..f[i] : u = <<i, k>>
    BY <1>2
  <2>2. PICK k \in 1..f[i] : u = <<i, k>>
    BY <2>1
  <2>3. PICK j \in 1..n : \E l \in 1..f[j] : v = <<j, l>>
    BY <1>2
  <2>4. PICK l \in 1..f[j] : v = <<j, l>>
    BY <2>3
  <2>5. <<i + 1, k>> = <<j + 1, l>>
    BY ZenonT(40), <1>1, <2>2, <2>4
  <2>6. i + 1 = j + 1 /\ k = l
    BY <2>5
  <2>7. i = j
    BY <2>6
  <2> QED  BY <2>2, <2>4, <2>6, <2>7
<1>8. \A t \in T : \E u \in U : m[u] = t
  <2> SUFFICES ASSUME NEW t \in T PROVE \E u \in U : m[u] = t
    OBVIOUS
  <2>1. PICK j \in 2..(n + 1) : \E k \in 1..g[j] : t = <<j, k>>
    BY <1>3
  <2>2. PICK k \in 1..g[j] : t = <<j, k>>
    BY <2>1
  <2>3. PICK i \in 1..n : j = i + 1
    <3>1. j - 1 \in 1..n /\ j = (j - 1) + 1
      OBVIOUS
    <3> QED  BY <3>1
  <2>4. k \in 1..f[i]
    BY <2>2, <2>3
  <2> QED  BY <1>1, <2>2, <2>3, <2>4
<1>9. m \in Bijection(U, T)
  BY <1>6, <1>7, <1>8, Fun_IsBij
<1>10. ExistsBijection(U, T)
  BY <1>9, Fun_ExistsBij
<1> QED  BY <1>4, <1>10, FS_Bijection DEF Total, U, T

\* The bytes of a queue
LEMMA BytesType ==
  ASSUME NEW s \in Seq(Frame)
  PROVE  BytesOf(s) \in Nat
<1> DEFINE g == [i \in 1..Len(s) |-> s[i].bytes]
<1>1. IsFiniteSet(1..Len(s))
  <2>1. Len(s) \in Int /\ 1 \in Int
    OBVIOUS
  <2> QED  BY <2>1, FS_Interval
<1>2. \A i \in 1..Len(s) : g[i] \in Nat
  BY FrameType
<1>3. BytesOf(s) = Total(g, 1..Len(s))
  BY DEF BytesOf
<1> HIDE DEF g
<1> QED  BY <1>1, <1>2, <1>3, UnitsAreFinite

LEMMA BytesOfNone == BytesOf(<<>>) = 0
<1>1. 1..Len(<<>>) = {}
  OBVIOUS
<1> QED  BY <1>1, TotalOfNone DEF BytesOf

LEMMA BytesOfAppended ==
  ASSUME NEW s \in Seq(Frame), NEW f \in Frame
  PROVE  BytesOf(Append(s, f)) = BytesOf(s) + f.bytes
<1> DEFINE t == Append(s, f)
           n == Len(s)
           g == [i \in 1..Len(s) |-> s[i].bytes]
           h == [i \in 1..Len(t) |-> t[i].bytes]
<1>1. Len(t) = n + 1 /\ n \in Nat /\ t[n + 1] = f /\ \A i \in 1..n : t[i] = s[i]
  BY AppendProperties
<1>2. /\ \A i \in 1..n : h[i] = g[i] /\ g[i] \in Nat
      /\ h[n + 1] = f.bytes /\ f.bytes \in Nat
  <2>1. ASSUME NEW i \in 1..n PROVE h[i] = g[i] /\ g[i] \in Nat
    <3>1. i \in 1..Len(t) /\ s[i] \in Frame
      BY <1>1
    <3> QED  BY <1>1, <3>1, FrameType
  <2>2. n + 1 \in 1..Len(t)
    BY <1>1
  <2> QED  BY <1>1, <2>1, <2>2, FrameType
<1>3. BytesOf(t) = Total(h, 1..Len(t)) /\ BytesOf(s) = Total(g, 1..n)
  BY DEF BytesOf
<1> HIDE DEF t, n, g, h
<1>4. IsFiniteSet(1..n) /\ IsFiniteSet({n + 1}) /\ (1..n) \cap {n + 1} = {} /\ 1..(n + 1) = (1..n) \cup {n + 1}
  <2>1. n \in Int /\ 1 \in Int
    BY <1>1
  <2>2. IsFiniteSet(1..n) /\ IsFiniteSet({n + 1})
    BY <2>1, FS_Interval, FS_Singleton
  <2> QED  BY <1>1, <2>2
<1>5. Total(h, 1..n) = Total(g, 1..n)
  BY <1>2, TotalOfSame
<1>6. Total(h, {n + 1}) = f.bytes
  BY <1>2, TotalOfOne
<1>7. \A i \in (1..n) \cup {n + 1} : h[i] \in Nat
  BY <1>2
<1>8. Total(h, (1..n) \cup {n + 1}) = Total(h, 1..n) + Total(h, {n + 1})
  BY <1>4, <1>7, TotalOfUnion
<1> QED  BY <1>1, <1>3, <1>4, <1>5, <1>6, <1>8 DEF t

LEMMA BytesOfFirst ==
  ASSUME NEW s \in Seq(Frame), s # <<>>
  PROVE  BytesOf(s) = Head(s).bytes + BytesOf(Tail(s))
<1> DEFINE t == Tail(s)
           n == Len(t)
           g == [i \in 1..Len(t) |-> t[i].bytes]
           h == [i \in 1..Len(s) |-> s[i].bytes]
<1>1. /\ t \in Seq(Frame) /\ n \in Nat /\ Len(s) = n + 1 /\ s[1] = Head(s)
      /\ \A i \in 1..n : t[i] = s[i + 1]
  BY HeadTailProperties
<1>2. /\ \A i \in 1..n : g[i] \in Nat /\ h[i + 1] = g[i]
      /\ h[1] = Head(s).bytes /\ h[1] \in Nat
  <2>1. ASSUME NEW i \in 1..n PROVE g[i] \in Nat /\ h[i + 1] = g[i]
    <3>1. i + 1 \in 1..Len(s) /\ t[i] \in Frame
      BY <1>1
    <3> QED  BY <1>1, <3>1, FrameType
  <2>2. 1 \in 1..Len(s) /\ s[1] \in Frame
    BY <1>1
  <2> QED  BY <1>1, <2>1, <2>2, FrameType
<1>3. BytesOf(t) = Total(g, 1..n) /\ BytesOf(s) = Total(h, 1..Len(s))
  BY DEF BytesOf
<1> HIDE DEF t, n, g, h
<1>4. IsFiniteSet(2..(n + 1)) /\ IsFiniteSet({1}) /\ {1} \cap (2..(n + 1)) = {} /\ 1..(n + 1) = {1} \cup (2..(n + 1))
  <2>1. n + 1 \in Int /\ 2 \in Int
    BY <1>1
  <2>2. IsFiniteSet(2..(n + 1)) /\ IsFiniteSet({1})
    BY <2>1, FS_Interval, FS_Singleton
  <2> QED  BY <1>1, <2>2
<1>5. Total(h, 2..(n + 1)) = Total(g, 1..n)
  BY <1>1, <1>2, TotalOfShifted
<1>6. Total(h, {1}) = Head(s).bytes
  BY <1>2, TotalOfOne
<1>7. \A i \in {1} \cup (2..(n + 1)) : h[i] \in Nat
  <2>1. ASSUME NEW i \in 2..(n + 1) PROVE h[i] \in Nat
    <3>1. i - 1 \in 1..n /\ (i - 1) + 1 = i
      BY <1>1
    <3> QED  BY <1>2, <3>1
  <2> QED  BY <1>2, <2>1
<1>8. Total(h, {1} \cup (2..(n + 1))) = Total(h, {1}) + Total(h, 2..(n + 1))
  BY <1>4, <1>7, TotalOfUnion
<1> QED  BY <1>1, <1>3, <1>4, <1>5, <1>6, <1>8 DEF t

\* When one number changes, the sum changes with it.
LEMMA TotalWhenChanged ==
  ASSUME NEW p \in Peer, NEW f, NEW g, \A q \in Peer : f[q] \in Nat /\ g[q] \in Nat,
         \A q \in Peer \ {p} : g[q] = f[q]
  PROVE  Total(g, Peer) = Total(f, Peer) - f[p] + g[p] /\ Total(f, Peer) \in Nat /\ f[p] <= Total(f, Peer)
<1> DEFINE R == Peer \ {p}
<1>1. IsFiniteSet(R) /\ IsFiniteSet({p}) /\ R \cap {p} = {} /\ Peer = R \cup {p}
  BY PeerAssumption, FS_Difference, FS_Singleton
<1>2. /\ \A q \in R : f[q] \in Nat /\ g[q] \in Nat /\ f[q] = g[q]
      /\ \A q \in R \cup {p} : f[q] \in Nat /\ g[q] \in Nat
      /\ f[p] \in Nat /\ g[p] \in Nat
  OBVIOUS
<1> HIDE DEF R
<1>3. Total(f, R \cup {p}) = Total(f, R) + Total(f, {p}) /\ Total(g, R \cup {p}) = Total(g, R) + Total(g, {p})
  BY <1>1, <1>2, TotalOfUnion
<1>4. Total(f, R) = Total(g, R)
  BY <1>2, TotalOfSame
<1>5. Total(f, {p}) = f[p] /\ Total(g, {p}) = g[p]
  BY <1>2, TotalOfOne
<1>6. Total(f, R) \in Nat
  BY <1>1, <1>2, UnitsAreFinite
<1>7. Total(f, Peer) = Total(f, R) + f[p] /\ Total(g, Peer) = Total(f, R) + g[p]
  BY <1>1, <1>3, <1>4, <1>5
<1> QED  BY <1>2, <1>6, <1>7

\* What closing peers releases
LEMMA TotalWhenClosed ==
  ASSUME NEW P \in SUBSET Peer, \A q \in Peer : outbound[q] \in Nat /\ inFlight[q] \in Nat /\ inFlight[q] <= outbound[q],
         NEW g, \A q \in Peer : g[q] = IF q \in P THEN inFlight[q] ELSE outbound[q]
  PROVE  /\ Total(outbound, Peer) = Total(g, Peer) + ReleasableOf(P)
         /\ Total(g, Peer) \in Nat /\ ReleasableOf(P) \in Nat
<1> DEFINE r == [q \in P |-> Releasable(q)]
           z == [q \in Peer |-> IF q \in P THEN r[q] ELSE 0]
<1>1. \A q \in Peer : g[q] \in Nat /\ z[q] \in Nat /\ outbound[q] = g[q] + z[q]
  <2> TAKE q \in Peer
  <2>1. CASE q \in P
    BY <2>1 DEF Releasable
  <2>2. CASE q \notin P
    BY <2>2
  <2> QED  BY <2>1, <2>2
<1>2. \A q \in P : r[q] \in Nat
  BY DEF Releasable
<1>3. Units(z, Peer) = Units(r, P)
  BY DEF Units
<1>4. ReleasableOf(P) = Total(r, P)
  <2>1. r = [p \in P |-> Releasable(p)]
    OBVIOUS
  <2> QED  BY <2>1 DEF ReleasableOf
<1> HIDE DEF r, z
<1>5. Total(outbound, Peer) = Total(g, Peer) + Total(z, Peer)
  BY <1>1, PeerAssumption, TotalOfSums
<1>6. Total(z, Peer) = Total(r, P)
  BY <1>3 DEF Total
<1>7. Total(g, Peer) \in Nat /\ Total(z, Peer) \in Nat
  BY <1>1, PeerAssumption, UnitsAreFinite
<1> QED  BY <1>4, <1>5, <1>6, <1>7

-----------------------------------------------------------------------------
(* The byte counts                                                         *)

\* The counts of a peer are those of its frames; the single frame that a task
\* has in hand is the one in flight.
Sums(p) ==
  /\ outbound[p] = inFlight[p] + BytesOf(frames[p])
  /\ \/ InHand(p) = {} /\ inFlight[p] = 0
     \/ \E f \in Frame : InHand(p) = {f} /\ inFlight[p] = f.bytes
  /\ outbound[p] <= MaxPeerBytes
  /\ Len(frames[p]) + (IF inFlight[p] = 0 THEN 0 ELSE 1) <= MaxQueue
  /\ ~connected[p] /\ InHand(p) = {} => ~draining[p]

SumsFit ==
  /\ outbound \in [Peer -> Nat]
  /\ global = Total(outbound, Peer)
  /\ global <= MaxGlobalBytes
  /\ \A p \in Peer : Sums(p)

LEMMA SumsInitially == Init => SumsFit
<1> SUFFICES ASSUME Init PROVE SumsFit
  OBVIOUS
<1>1. outbound = [p \in Peer |-> 0] /\ global = 0 /\ outbound \in [Peer -> Nat]
  BY DEF Init
<1>2. Total(outbound, Peer) = 0
  <2>1. Units(outbound, Peer) = {}
    BY <1>1 DEF Units
  <2> QED  BY <2>1, FS_EmptySet DEF Total
<1>3. ASSUME NEW p \in Peer PROVE Sums(p)
  <2>1. /\ frames[p] = <<>> /\ inFlight[p] = 0 /\ outbound[p] = 0 /\ ~draining[p]
        /\ sending[p] = {} /\ failing[p] = {} /\ failed[p] = {}
    BY DEF Init
  <2>2. BytesOf(frames[p]) = 0 /\ Len(frames[p]) = 0
    BY <2>1, BytesOfNone
  <2>3. InHand(p) = {}
    BY <2>1 DEF InHand
  <2> QED  BY <2>1, <2>2, <2>3 DEF Sums
<1> QED  BY <1>1, <1>2, <1>3 DEF SumsFit

\* What the counts of a peer are made of
LEMMA SumsTypes ==
  ASSUME IInv, SumsFit, NEW p \in Peer
  PROVE  /\ outbound[p] \in Nat /\ inFlight[p] \in Nat /\ BytesOf(frames[p]) \in Nat
         /\ frames[p] \in Seq(Frame) /\ inFlight[p] <= outbound[p]
         /\ outbound[p] = inFlight[p] + BytesOf(frames[p]) /\ Sums(p)
<1>1. outbound[p] \in Nat /\ inFlight[p] \in Nat /\ frames[p] \in Seq(Frame) /\ Sums(p)
  BY DEF IInv, OrderTypes, SumsFit
<1>2. BytesOf(frames[p]) \in Nat
  BY <1>1, BytesType
<1>3. outbound[p] = inFlight[p] + BytesOf(frames[p])
  BY <1>1 DEF Sums
<1> QED  BY <1>1, <1>2, <1>3

\* A peer whose values stay keeps its counts.
LEMMA SumsStay ==
  ASSUME NEW q \in Peer, Sums(q),
         connected'[q] = connected[q], frames'[q] = frames[q], outbound'[q] = outbound[q],
         inFlight'[q] = inFlight[q], draining'[q] = draining[q], InHand(q)' = InHand(q)
  PROVE  Sums(q)'
  BY DEF Sums

\* Closing a peer leaves the frame in flight, which was counted before.
LEMMA SumsOfClosed ==
  ASSUME IInv, SumsFit, NEW q \in Peer,
         frames'[q] = <<>>, outbound'[q] = inFlight[q], inFlight'[q] = inFlight[q],
         draining'[q] => inFlight[q] # 0, InHand(q)' = InHand(q)
  PROVE  Sums(q)'
<1>1. BytesOf(frames'[q]) = 0 /\ Len(frames'[q]) = 0
  BY BytesOfNone
<1>2. /\ outbound[q] \in Nat /\ inFlight[q] \in Nat /\ inFlight[q] <= outbound[q]
      /\ frames[q] \in Seq(Frame) /\ Sums(q)
  BY SumsTypes
<1>3. Len(frames[q]) \in Nat
  BY <1>2
<1>4. /\ outbound[q] <= MaxPeerBytes
      /\ Len(frames[q]) + (IF inFlight[q] = 0 THEN 0 ELSE 1) <= MaxQueue
      /\ \/ InHand(q) = {} /\ inFlight[q] = 0
         \/ \E f \in Frame : InHand(q) = {f} /\ inFlight[q] = f.bytes
  BY <1>2 DEF Sums
<1>5. outbound'[q] = inFlight'[q] + BytesOf(frames'[q]) /\ outbound'[q] <= MaxPeerBytes
  BY <1>1, <1>2, <1>4
<1>6. Len(frames'[q]) + (IF inFlight'[q] = 0 THEN 0 ELSE 1) <= MaxQueue
  <2>1. PICK k \in {0, 1} : k = IF inFlight[q] = 0 THEN 0 ELSE 1
    OBVIOUS
  <2>2. Len(frames[q]) + k <= MaxQueue
    BY <1>4, <2>1
  <2>3. 0 + k <= MaxQueue
    BY <1>3, <2>2, LimitAssumption
  <2> QED  BY <1>1, <2>1, <2>3
<1>7. \/ InHand(q)' = {} /\ inFlight'[q] = 0
      \/ \E f \in Frame : InHand(q)' = {f} /\ inFlight'[q] = f.bytes
  BY <1>4
<1>8. InHand(q)' = {} => ~draining'[q]
  <2>1. InHand(q) = {} => inFlight[q] = 0
    BY <1>4
  <2> QED  BY <2>1
<1> QED  BY <1>5, <1>6, <1>7, <1>8 DEF Sums

\* Clearing the queues of the peers of P, which may be closed by the same step
LEMMA ClearKeepsSums ==
  ASSUME IInv, SumsFit, NEW P \in SUBSET Peer, Clear(P), inFlight' = inFlight,
         \A q \in Peer \ P : connected'[q] = connected[q],
         \A q \in Peer : InHand(q)' = InHand(q)
  PROVE  SumsFit'
<1>1. /\ frames' = [p \in Peer |-> IF p \in P THEN <<>> ELSE frames[p]]
      /\ outbound' = [p \in Peer |-> IF p \in P THEN inFlight[p] ELSE outbound[p]]
      /\ draining' = [p \in Peer |-> draining[p] /\ (p \in P => inFlight[p] # 0)]
      /\ global' = global - ReleasableOf(P)
  BY DEF Clear
<1>2. \A q \in Peer : outbound[q] \in Nat /\ inFlight[q] \in Nat /\ inFlight[q] <= outbound[q]
  BY SumsTypes
<1>3. \A q \in Peer : outbound'[q] = IF q \in P THEN inFlight[q] ELSE outbound[q]
  BY <1>1
<1>4. /\ Total(outbound, Peer) = Total(outbound', Peer) + ReleasableOf(P)
      /\ Total(outbound', Peer) \in Nat /\ ReleasableOf(P) \in Nat
  BY <1>2, <1>3, TotalWhenClosed
<1>5. global' = Total(outbound', Peer) /\ global' <= MaxGlobalBytes
  <2>1. global = Total(outbound, Peer) /\ global <= MaxGlobalBytes
    BY DEF SumsFit
  <2> QED  BY <1>1, <1>4, <2>1
<1>6. ASSUME NEW q \in Peer PROVE Sums(q)'
  <2>2. CASE q \in P
    BY <2>2, <1>1, SumsOfClosed
  <2>3. CASE q \notin P
    <3>1. draining'[q] = draining[q] /\ connected'[q] = connected[q]
      BY <2>3, <1>1 DEF IInv, OrderTypes
    <3>2. frames'[q] = frames[q] /\ outbound'[q] = outbound[q] /\ inFlight'[q] = inFlight[q]
      BY <2>3, <1>1
    <3>3. Sums(q)
      BY DEF SumsFit
    <3> QED  BY <3>1, <3>2, <3>3, SumsStay
  <2> QED  BY <2>2, <2>3
<1>7. outbound' \in [Peer -> Nat]
  BY <1>1, <1>2
<1>8. (global = Total(outbound, Peer))'
  BY <1>5
<1> QED  BY <1>5, <1>6, <1>7, <1>8 DEF SumsFit

LEMMA DisconnectKeepsSums ==
  ASSUME IInv, SumsFit, NEW P \in SUBSET Peer, Disconnect(P)
  PROVE  SumsFit'
<1>1. Clear(P) /\ UNCHANGED <<inFlight, sending, failing, failed>>
  BY DEF Disconnect, taskVars
<1>2. \A q \in Peer \ P : connected'[q] = connected[q]
  BY DEF Disconnect, IInv, OrderTypes
<1>3. \A q \in Peer : InHand(q)' = InHand(q)
  BY <1>1 DEF InHand
<1> QED  BY <1>1, <1>2, <1>3, ClearKeepsSums

LEMMA EnqueueKeepsSums ==
  ASSUME IInv, SumsFit, NEW P \in SUBSET Peer, NEW p \in Peer, p \notin P, connected[p], NEW b \in Sizes,
         ~PeerLimitExceeded(p, b), global - ReleasableOf(P) + b <= MaxGlobalBytes,
         Enqueue(p, b, P)
  PROVE  SumsFit'
<1>1. PICK f : f = [no |-> accepted[p] + 1, bytes |-> b]
  OBVIOUS
<1>2. f \in Frame /\ f.bytes = b /\ b \in Nat
  <2>1. accepted[p] \in Nat /\ b \in Nat
    BY SizeAssumption DEF IInv, OrderTypes
  <2> QED  BY <1>1, <2>1 DEF Frame
<1>3. /\ connected' = [q \in Peer |-> connected[q] /\ q \notin P]
      /\ frames' = [q \in Peer |-> IF q \in P THEN <<>>
                                   ELSE IF q = p THEN Append(frames[q], [no |-> accepted[q] + 1, bytes |-> b])
                                   ELSE frames[q]]
      /\ outbound' = [q \in Peer |-> IF q \in P THEN inFlight[q]
                                     ELSE IF q = p THEN outbound[q] + b ELSE outbound[q]]
      /\ global' = global - ReleasableOf(P) + b
      /\ draining' = [q \in Peer |-> q = p \/ (draining[q] /\ (q \in P => inFlight[q] # 0))]
      /\ UNCHANGED <<inFlight, sending, failing, failed>>
  BY DEF Enqueue
<1>4. /\ \A q \in Peer : InHand(q)' = InHand(q)
      /\ frames'[p] = Append(frames[p], f) /\ outbound'[p] = outbound[p] + b
  BY <1>1, <1>3 DEF InHand
<1>5. /\ \A q \in Peer : outbound[q] \in Nat /\ inFlight[q] \in Nat /\ inFlight[q] <= outbound[q]
      /\ frames[p] \in Seq(Frame) /\ BytesOf(frames[p]) \in Nat
      /\ outbound[p] = inFlight[p] + BytesOf(frames[p])
  BY SumsTypes
<1>6. Sums(p)'
  <2>1. BytesOf(frames'[p]) = BytesOf(frames[p]) + b /\ Len(frames'[p]) = Len(frames[p]) + 1
        /\ Len(frames[p]) \in Nat
    BY <1>2, <1>4, <1>5, BytesOfAppended, AppendProperties
  <2>2. /\ ~(Len(frames[p]) + (IF inFlight[p] = 0 THEN 0 ELSE 1) >= MaxQueue)
        /\ ~(b > MaxPeerBytes - outbound[p])
    BY DEF PeerLimitExceeded
  <2>3. outbound'[p] = inFlight'[p] + BytesOf(frames'[p])
    BY <2>1, <1>2, <1>3, <1>4, <1>5
  <2>4. outbound'[p] <= MaxPeerBytes
    BY <2>2, <1>2, <1>4, <1>5, LimitAssumption
  <2>5. Len(frames'[p]) + (IF inFlight'[p] = 0 THEN 0 ELSE 1) <= MaxQueue
    <3>1. inFlight'[p] = inFlight[p]
      BY <1>3
    <3>2. PICK k \in {0, 1} : k = IF inFlight[p] = 0 THEN 0 ELSE 1
      OBVIOUS
    <3>3. PICK n \in Nat : n = Len(frames[p])
      BY <2>1
    <3>4. ~(n + k >= MaxQueue)
      BY <2>2, <3>2, <3>3
    <3>5. (n + 1) + k <= MaxQueue
      BY <3>4, LimitAssumption
    <3> QED  BY <2>1, <3>1, <3>2, <3>3, <3>5
  <2>6. \/ InHand(p)' = {} /\ inFlight'[p] = 0
        \/ \E g \in Frame : InHand(p)' = {g} /\ inFlight'[p] = g.bytes
    <3>1. \/ InHand(p) = {} /\ inFlight[p] = 0
          \/ \E g \in Frame : InHand(p) = {g} /\ inFlight[p] = g.bytes
      BY DEF SumsFit, Sums
    <3> QED  BY <3>1, <1>3, <1>4
  <2>7. ~connected'[p] /\ InHand(p)' = {} => ~draining'[p]
    <3> SUFFICES ASSUME ~connected[p], InHand(p) = {} PROVE FALSE
      BY <1>3, <1>4
    <3> QED  OBVIOUS
  <2> QED  BY <2>3, <2>4, <2>5, <2>6, <2>7 DEF Sums
<1>7. ASSUME NEW q \in Peer \ {p} PROVE Sums(q)'
  <2>2. CASE q \in P
    BY <2>2, <1>3, <1>4, SumsOfClosed
  <2>3. CASE q \notin P
    <3>1. draining'[q] = draining[q] /\ connected'[q] = connected[q]
      BY <2>3, <1>3 DEF IInv, OrderTypes
    <3>2. frames'[q] = frames[q] /\ outbound'[q] = outbound[q] /\ inFlight'[q] = inFlight[q]
      BY <2>3, <1>3
    <3>3. Sums(q)
      BY DEF SumsFit
    <3> QED  BY <1>4, <3>1, <3>2, <3>3, SumsStay
  <2> QED  BY <2>2, <2>3
<1>8. global' = Total(outbound', Peer)
  <2>1. PICK g : g = [q \in Peer |-> IF q \in P THEN inFlight[q] ELSE outbound[q]]
    OBVIOUS
  <2>2. \A q \in Peer : g[q] = IF q \in P THEN inFlight[q] ELSE outbound[q]
    BY <2>1
  <2>3. /\ Total(outbound, Peer) = Total(g, Peer) + ReleasableOf(P)
        /\ Total(g, Peer) \in Nat /\ ReleasableOf(P) \in Nat
    BY <1>5, <2>2, TotalWhenClosed
  <2>4. /\ \A q \in Peer : g[q] \in Nat /\ outbound'[q] \in Nat
        /\ \A q \in Peer \ {p} : outbound'[q] = g[q]
        /\ outbound'[p] = g[p] + b /\ g[p] \in Nat
    BY <1>2, <1>3, <1>4, <1>5, <2>2
  <2>5. Total(outbound', Peer) = Total(g, Peer) - g[p] + outbound'[p]
    BY <2>4, TotalWhenChanged
  <2>6. global = Total(outbound, Peer)
    BY DEF SumsFit
  <2>7. Total(outbound', Peer) = Total(g, Peer) + b
    BY <2>3, <2>4, <2>5, <1>2
  <2>8. global' = Total(g, Peer) + b
    BY <2>3, <2>6, <1>2, <1>3
  <2> QED  BY <2>7, <2>8
<1>9. outbound' \in [Peer -> Nat]
  BY <1>2, <1>3, <1>5
<1>10. global' <= MaxGlobalBytes /\ \A q \in Peer : Sums(q)'
  BY <1>3, <1>6, <1>7
<1>11. (global = Total(outbound, Peer))'
  BY <1>8
<1> QED  BY <1>9, <1>10, <1>11 DEF SumsFit

\* A frame is only enqueued where both limits leave room for it.
LEMMA OfferRespectsLimits ==
  ASSUME IInv, SumsFit, NEW p \in Peer, NEW b \in Sizes, Offer(p, b)
  PROVE  \/ \E P \in SUBSET Peer : Disconnect(P)
         \/ /\ connected[p] /\ ~PeerLimitExceeded(p, b)
            /\ \E P \in SUBSET Peer : /\ p \notin P
                                      /\ global - ReleasableOf(P) + b <= MaxGlobalBytes
                                      /\ Enqueue(p, b, P)
<1>1. PICK V : V = Victims(b)
  OBVIOUS
<1>2. V \in SUBSET Peer
  BY <1>1 DEF Victims
<1>3. ReleasableOf({}) = 0
  BY TotalOfNone DEF ReleasableOf
<1>4. global \in Nat /\ b \in Nat
  <2>1. global = Total(outbound, Peer) /\ \A q \in Peer : outbound[q] \in Nat
    BY DEF SumsFit
  <2> QED  BY <2>1, PeerAssumption, UnitsAreFinite, SizeAssumption
<1>5. global + b <= MaxGlobalBytes => global - ReleasableOf({}) + b <= MaxGlobalBytes
  BY <1>3, <1>4
<1>6. connected[p]
  BY DEF Offer
<1>7. CASE PeerLimitExceeded(p, b)
  <2>1. Disconnect({p})
    BY <1>7 DEF Offer
  <2> QED  BY <2>1
<1>8. CASE ~PeerLimitExceeded(p, b) /\ global + b <= MaxGlobalBytes
  <2>1. Enqueue(p, b, {})
    BY <1>8, <1>4, LimitAssumption DEF Offer
  <2>2. {} \in SUBSET Peer /\ p \notin {}
    OBVIOUS
  <2> QED  BY <2>1, <2>2, <1>5, <1>6, <1>8
<1>9. CASE ~PeerLimitExceeded(p, b) /\ ~(global + b <= MaxGlobalBytes)
  <2>1. \/ p \in V /\ Disconnect({v \in V : v = p \/ Heavier(v, p)})
        \/ Disconnect(V \cup {p})
        \/ /\ p \notin V /\ global - ReleasableOf(V) + b <= MaxGlobalBytes
           /\ Enqueue(p, b, V)
    BY <1>1, <1>9 DEF Offer
  <2>2. {v \in V : v = p \/ Heavier(v, p)} \in SUBSET Peer /\ V \cup {p} \in SUBSET Peer
    BY <1>2
  <2> QED  BY <2>1, <2>2, <1>2, <1>6, <1>9
<1> QED  BY <1>7, <1>8, <1>9

LEMMA TakeKeepsSums ==
  ASSUME IInv, SumsFit, NEW p \in Peer, Take(p)
  PROVE  SumsFit'
<1>0. sending[p] = {} /\ failing[p] = {} /\ failed[p] = {} /\ UNCHANGED <<connected, failing, failed>>
  BY TakeIsOne
<1>1. InHand(p) = {} /\ inFlight[p] = 0 /\ Sums(p)
  <2>1. InHand(p) = {} /\ Sums(p)
    BY <1>0 DEF InHand, SumsFit
  <2> QED  BY <2>1 DEF Sums
<1>2. /\ outbound[p] \in Nat /\ frames[p] \in Seq(Frame) /\ BytesOf(frames[p]) \in Nat
      /\ outbound[p] = inFlight[p] + BytesOf(frames[p])
  BY SumsTypes
<1>3. CASE ~connected[p]
  <2>1. /\ frames' = [q \in Peer |-> IF q \in {p} THEN <<>> ELSE frames[q]]
        /\ outbound' = [q \in Peer |-> IF q \in {p} THEN inFlight[q] ELSE outbound[q]]
        /\ draining' = [q \in Peer |-> draining[q] /\ (q \in {p} => inFlight[q] # 0)]
        /\ global' = global - ReleasableOf({p})
        /\ UNCHANGED <<inFlight, sending>>
    BY <1>3 DEF Take, Clear
  <2>2. frames[p] = <<>>
    BY <1>3 DEF IInv, Fine
  <2>3. outbound[p] = 0
    BY <2>2, <1>1, <1>2, BytesOfNone
  <2>4. \A q \in Peer : outbound'[q] = outbound[q]
    BY <2>1, <2>3, <1>1
  <2>5. ReleasableOf({p}) = 0
    <3>1. PICK r : r = [q \in {p} |-> Releasable(q)]
      OBVIOUS
    <3>2. r[p] = 0
      BY <3>1, <2>3, <1>1 DEF Releasable
    <3>3. Total(r, {p}) = r[p]
      <4>1. r[p] \in Nat
        BY <3>2
      <4> QED  BY <4>1, TotalOfOne
    <3> QED  BY <3>1, <3>2, <3>3 DEF ReleasableOf
  <2>6. outbound' = outbound
    BY <2>1, <2>4 DEF SumsFit
  <2>7. global \in Nat
    BY PeerAssumption, UnitsAreFinite DEF SumsFit
  <2>8. global' = global
    BY <2>1, <2>5, <2>7
  <2>9. ASSUME NEW q \in Peer PROVE Sums(q)'
    <3>1. InHand(q)' = InHand(q)
      BY <1>0, <2>1 DEF InHand
    <3>2. CASE q = p
      BY <3>1, <3>2, <2>1, SumsOfClosed
    <3>3. CASE q # p
      <4>1. draining'[q] = draining[q]
        BY <3>3, <2>1 DEF IInv, OrderTypes
      <4>2. frames'[q] = frames[q] /\ outbound'[q] = outbound[q] /\ inFlight'[q] = inFlight[q]
            /\ connected'[q] = connected[q] /\ Sums(q)
        BY <3>3, <2>1, <1>0 DEF SumsFit
      <4> QED  BY <3>1, <4>1, <4>2, SumsStay
    <3> QED  BY <3>2, <3>3
  <2> QED  BY <2>6, <2>8, <2>9 DEF SumsFit
<1>4. CASE connected[p] /\ frames[p] = <<>>
  <2>1. /\ draining' = [draining EXCEPT ![p] = FALSE]
        /\ UNCHANGED <<frames, outbound, inFlight, global, sending>>
    BY <1>4 DEF Take
  <2>2. ASSUME NEW q \in Peer PROVE Sums(q)'
    <3>1. InHand(q)' = InHand(q) /\ Sums(q)
      BY <1>0, <2>1 DEF InHand, SumsFit
    <3>2. draining'[q] => draining[q]
      BY <2>1 DEF IInv, OrderTypes
    <3> QED  BY <3>1, <3>2, <2>1, <1>0 DEF Sums
  <2> QED  BY <2>1, <2>2 DEF SumsFit
<1>5. CASE connected[p] /\ frames[p] # <<>>
  <2>1. PICK f : f = Head(frames[p])
    OBVIOUS
  <2>2. /\ f \in Frame /\ f.bytes \in Nat /\ f.bytes # 0 /\ Len(Tail(frames[p])) = Len(frames[p]) - 1
        /\ Tail(frames[p]) \in Seq(Frame) /\ Len(frames[p]) \in Nat
    BY <2>1, <1>2, <1>5, HeadTailProperties, FrameType
  <2>3. /\ frames' = [frames EXCEPT ![p] = Tail(@)]
        /\ inFlight' = [inFlight EXCEPT ![p] = f.bytes]
        /\ sending' = [sending EXCEPT ![p] = @ \cup {f}]
        /\ UNCHANGED <<outbound, draining, global>>
    BY <2>1, <1>5 DEF Take
  <2>4. frames'[p] = Tail(frames[p]) /\ inFlight'[p] = f.bytes /\ sending'[p] = {f}
    BY <2>3, <1>0 DEF IInv, OrderTypes
  <2>5. BytesOf(frames[p]) = f.bytes + BytesOf(Tail(frames[p])) /\ BytesOf(Tail(frames[p])) \in Nat
    BY <2>1, <2>2, <1>2, <1>5, BytesOfFirst, BytesType
  <2>6. Sums(p)'
    <3>1. outbound'[p] = inFlight'[p] + BytesOf(frames'[p])
      BY <2>2, <2>3, <2>4, <2>5, <1>1, <1>2
    <3>2. InHand(p)' = {f}
      BY <2>4, <1>0 DEF InHand
    <3>3. outbound'[p] <= MaxPeerBytes
      BY <2>3, <1>1 DEF Sums
    <3>4. Len(frames'[p]) + (IF inFlight'[p] = 0 THEN 0 ELSE 1) <= MaxQueue
      <4>1. Len(frames[p]) + 0 <= MaxQueue
        BY <1>1 DEF Sums
      <4>2. PICK n \in Nat : n = Len(frames[p])
        BY <2>2
      <4>3. (n - 1) + 1 <= MaxQueue
        BY <4>1, <4>2, LimitAssumption
      <4> QED  BY <4>2, <4>3, <2>2, <2>4
    <3> QED  BY <3>1, <3>2, <3>3, <3>4, <2>2, <2>4 DEF Sums
  <2>7. ASSUME NEW q \in Peer \ {p} PROVE Sums(q)'
    <3>1. frames'[q] = frames[q] /\ inFlight'[q] = inFlight[q] /\ sending'[q] = sending[q]
      BY <2>3 DEF IInv, OrderTypes
    <3>2. InHand(q)' = InHand(q) /\ Sums(q)
      BY <3>1, <1>0 DEF InHand, SumsFit
    <3> QED  BY <3>1, <3>2, <2>3, <1>0, SumsStay
  <2> QED  BY <2>3, <2>6, <2>7 DEF SumsFit
<1> QED  BY <1>3, <1>4, <1>5

\* The end of a send or of a failure takes its frame off the counts.
LEMMA ReleaseKeepsSums ==
  ASSUME IInv, SumsFit, NEW p \in Peer, NEW f \in Frame, InHand(p) = {f}, InHand(p)' = {},
         UNCHANGED <<connected, frames>>, \A q \in Peer \ {p} : InHand(q)' = InHand(q),
         Release(p, f)
  PROVE  SumsFit'
<1>1. Sums(p) /\ outbound[p] \in Nat /\ BytesOf(frames[p]) \in Nat /\ frames[p] \in Seq(Frame)
      /\ outbound[p] = inFlight[p] + BytesOf(frames[p])
  BY SumsTypes
<1>2. inFlight[p] = f.bytes /\ f.bytes \in Nat /\ f.bytes # 0
  <2>1. PICK g \in Frame : {f} = {g} /\ inFlight[p] = g.bytes
    BY <1>1 DEF Sums
  <2>2. g = f
    BY <2>1
  <2> QED  BY <2>1, <2>2, FrameType
<1>3. /\ inFlight' = [inFlight EXCEPT ![p] = 0]
      /\ outbound' = [outbound EXCEPT ![p] = @ - f.bytes]
      /\ global' = global - f.bytes
      /\ draining' = [draining EXCEPT ![p] = @ /\ ~(outbound'[p] = 0 /\ ~connected[p])]
  BY <1>2 DEF Release
<1>4. inFlight'[p] = 0 /\ outbound'[p] = BytesOf(frames[p]) /\ outbound' \in [Peer -> Nat]
      /\ \A q \in Peer \ {p} : outbound'[q] = outbound[q] /\ inFlight'[q] = inFlight[q]
  <2>1. inFlight'[p] = 0 /\ \A q \in Peer \ {p} : outbound'[q] = outbound[q] /\ inFlight'[q] = inFlight[q]
    BY <1>3 DEF IInv, OrderTypes, SumsFit
  <2>2. outbound'[p] = outbound[p] - f.bytes
    BY <1>3 DEF SumsFit
  <2>3. outbound'[p] = BytesOf(frames[p])
    BY <2>2, <1>1, <1>2
  <2>4. outbound' = [outbound EXCEPT ![p] = BytesOf(frames[p])]
    BY <2>2, <2>3, <1>3
  <2> QED  BY <2>1, <2>3, <2>4, <1>1 DEF SumsFit
<1>5. draining'[p] => ~(outbound'[p] = 0 /\ ~connected[p])
  BY <1>3 DEF IInv, OrderTypes
<1>6. \A q \in Peer \ {p} : draining'[q] = draining[q]
  BY <1>3 DEF IInv, OrderTypes
<1>7. Sums(p)'
  <2>1. outbound'[p] = inFlight'[p] + BytesOf(frames'[p])
    BY <1>1, <1>4
  <2>2. outbound'[p] <= MaxPeerBytes
    <3>1. outbound[p] <= MaxPeerBytes
      BY <1>1 DEF Sums
    <3> QED  BY <3>1, <1>1, <1>2, <1>4, LimitAssumption
  <2>3. Len(frames'[p]) + (IF inFlight'[p] = 0 THEN 0 ELSE 1) <= MaxQueue
    <3>1. Len(frames[p]) + 1 <= MaxQueue
      BY <1>1, <1>2 DEF Sums
    <3>2. Len(frames[p]) \in Nat
      BY <1>1
    <3>3. Len(frames[p]) + 0 <= MaxQueue
      BY <3>1, <3>2, LimitAssumption
    <3> QED  BY <3>3, <1>4
  <2>4. ~connected'[p] => ~draining'[p]
    <3> SUFFICES ASSUME ~connected[p] PROVE outbound'[p] = 0
      BY <1>5
    <3>1. frames[p] = <<>>
      BY DEF IInv, Fine
    <3> QED  BY <3>1, <1>4, BytesOfNone
  <2> QED  BY <2>1, <2>2, <2>3, <2>4, <1>4 DEF Sums
<1>8. ASSUME NEW q \in Peer \ {p} PROVE Sums(q)'
  <2>1. Sums(q)
    BY DEF SumsFit
  <2> QED  BY <2>1, <1>4, <1>6, SumsStay
<1>9. global' = Total(outbound', Peer) /\ global' <= MaxGlobalBytes
  <2>1. \A q \in Peer : outbound[q] \in Nat /\ outbound'[q] \in Nat
    BY <1>4 DEF SumsFit
  <2>2. /\ Total(outbound', Peer) = Total(outbound, Peer) - outbound[p] + outbound'[p]
        /\ Total(outbound, Peer) \in Nat
    BY <2>1, <1>4, TotalWhenChanged
  <2>3. global = Total(outbound, Peer) /\ global <= MaxGlobalBytes
    BY DEF SumsFit
  <2> QED  BY <2>2, <2>3, <1>1, <1>2, <1>3, <1>4, LimitAssumption
<1>10. (global = Total(outbound, Peer))' /\ (global <= MaxGlobalBytes)'
  BY <1>9
<1> QED  BY <1>4, <1>7, <1>8, <1>10 DEF SumsFit

LEMMA EveryStepKeepsSums == IInv /\ IInv' /\ SumsFit /\ [Next]_vars => SumsFit'
<1> SUFFICES ASSUME IInv, IInv', SumsFit, [Next]_vars PROVE SumsFit'
  OBVIOUS
<1>1. ASSUME NEW p \in Peer, NEW b \in Sizes, Offer(p, b) PROVE SumsFit'
  <2>1. CASE \E P \in SUBSET Peer : Disconnect(P)
    BY <2>1, DisconnectKeepsSums
  <2>2. CASE /\ connected[p] /\ ~PeerLimitExceeded(p, b)
             /\ \E P \in SUBSET Peer : /\ p \notin P
                                       /\ global - ReleasableOf(P) + b <= MaxGlobalBytes
                                       /\ Enqueue(p, b, P)
    <3>1. PICK P \in SUBSET Peer : /\ p \notin P
                                   /\ global - ReleasableOf(P) + b <= MaxGlobalBytes
                                   /\ Enqueue(p, b, P)
      BY <2>2
    <3> QED  BY <2>2, <3>1, EnqueueKeepsSums
  <2> QED  BY <1>1, <2>1, <2>2, OfferRespectsLimits
<1>2. ASSUME NEW p \in Peer, Close(p) \/ Take(p) PROVE SumsFit'
  BY <1>2, DisconnectKeepsSums, TakeKeepsSums DEF Close
<1>3. ASSUME NEW p \in Peer, NEW f \in sending[p], EndSend(p, f) PROVE SumsFit'
  <2>1. f \in Frame /\ sending[p] = {f} /\ failing[p] = {} /\ failed[p] = {}
    <3>1. f \in Frame
      BY DEF IInv, OrderTypes
    <3>2. sending[p] = {f} /\ failing[p] = {} /\ failed[p] = {}
      BY DEF IInv, Fine, OneTask
    <3> QED  BY <3>1, <3>2
  <2>2. /\ sending' = [sending EXCEPT ![p] = @ \ {f}] /\ Release(p, f)
        /\ UNCHANGED <<connected, frames, failing, failed>>
    BY <1>3 DEF EndSend
  <2>3. sending'[p] = {} /\ \A q \in Peer \ {p} : sending'[q] = sending[q]
    BY <2>1, <2>2 DEF IInv, OrderTypes
  <2>4. InHand(p) = {f} /\ InHand(p)' = {} /\ \A q \in Peer \ {p} : InHand(q)' = InHand(q)
    BY <2>1, <2>2, <2>3 DEF InHand
  <2> QED  BY <2>1, <2>2, <2>4, ReleaseKeepsSums
<1>4. ASSUME NEW p \in Peer, NEW f \in sending[p], FailSend(p, f) PROVE SumsFit'
  <2>1. /\ sending' = [sending EXCEPT ![p] = @ \ {f}]
        /\ failing' = [failing EXCEPT ![p] = @ \cup {f}]
        /\ UNCHANGED <<connected, frames, outbound, inFlight, draining, global, failed>>
    BY <1>4 DEF FailSend, queueVars
  <2>2. ASSUME NEW q \in Peer PROVE Sums(q)'
    <3>1. InHand(q)' = InHand(q) /\ Sums(q)
      BY <2>1 DEF InHand, SumsFit, IInv, OrderTypes
    <3> QED  BY <3>1, <2>1, SumsStay
  <2> QED  BY <2>1, <2>2 DEF SumsFit
<1>5. ASSUME NEW p \in Peer, NEW f \in failing[p], HandleFailure(p, f) PROVE SumsFit'
  <2>1. /\ failing' = [failing EXCEPT ![p] = @ \ {f}]
        /\ failed' = [failed EXCEPT ![p] = @ \cup {f}]
        /\ UNCHANGED <<inFlight, sending>>
    BY <1>5 DEF HandleFailure
  <2>2. \A q \in Peer : InHand(q)' = InHand(q)
    BY <2>1 DEF InHand, IInv, OrderTypes
  <2>3. CASE connected[p]
    <3>1. connected' = [connected EXCEPT ![p] = FALSE] /\ Clear({p})
      BY <1>5, <2>3 DEF HandleFailure
    <3>2. \A q \in Peer \ {p} : connected'[q] = connected[q]
      BY <3>1 DEF IInv, OrderTypes
    <3>3. Clear({p}) /\ inFlight' = inFlight /\ {p} \in SUBSET Peer
      BY <2>1, <3>1
    <3> QED  BY <2>2, <3>2, <3>3, ClearKeepsSums
  <2>4. CASE ~connected[p]
    <3>1. UNCHANGED <<connected, frames, outbound, draining, global>>
      BY <1>5, <2>4 DEF HandleFailure
    <3>2. ASSUME NEW q \in Peer PROVE Sums(q)'
      BY <3>1, <2>1, <2>2, SumsStay DEF SumsFit
    <3> QED  BY <3>1, <3>2 DEF SumsFit
  <2> QED  BY <2>3, <2>4
<1>6. ASSUME NEW p \in Peer, NEW f \in failed[p], EndFailure(p, f) PROVE SumsFit'
  <2>1. f \in Frame /\ sending[p] = {} /\ failing[p] = {} /\ failed[p] = {f}
    <3>1. f \in Frame
      BY DEF IInv, OrderTypes
    <3>2. sending[p] = {} /\ failing[p] = {} /\ failed[p] = {f}
      BY DEF IInv, Fine, OneTask
    <3> QED  BY <3>1, <3>2
  <2>2. /\ failed' = [failed EXCEPT ![p] = @ \ {f}] /\ Release(p, f)
        /\ UNCHANGED <<connected, frames, sending, failing>>
    BY <1>6 DEF EndFailure
  <2>3. failed'[p] = {} /\ \A q \in Peer \ {p} : failed'[q] = failed[q]
    BY <2>1, <2>2 DEF IInv, OrderTypes
  <2>4. InHand(p) = {f} /\ InHand(p)' = {} /\ \A q \in Peer \ {p} : InHand(q)' = InHand(q)
    BY <2>1, <2>2, <2>3 DEF InHand
  <2> QED  BY <2>1, <2>2, <2>4, ReleaseKeepsSums
<1>7. CASE Stop
  <2>1. {p \in Peer : connected[p]} \in SUBSET Peer
    OBVIOUS
  <2> QED  BY <1>7, <2>1, DisconnectKeepsSums DEF Stop
<1>8. CASE UNCHANGED vars
  <2>1. UNCHANGED <<connected, frames, outbound, inFlight, draining, global, sending, failing, failed>>
    BY <1>8 DEF vars, queueVars, taskVars
  <2>2. ASSUME NEW q \in Peer PROVE Sums(q)'
    <3>1. InHand(q)' = InHand(q) /\ Sums(q)
      BY <2>1 DEF InHand, SumsFit
    <3> QED  BY <3>1, <2>1, SumsStay
  <2> QED  BY <2>1, <2>2 DEF SumsFit
<1> QED  BY <1>1, <1>2, <1>3, <1>4, <1>5, <1>6, <1>7, <1>8 DEF Next

LEMMA SumsAlwaysFit == Spec => [](IInv /\ SumsFit)
<1>1. Init => IInv /\ SumsFit
  BY Initially, SumsInitially
<1>2. IInv /\ SumsFit /\ [Next]_vars => (IInv /\ SumsFit)'
  BY EveryStepKeepsIt, EveryStepKeepsSums
<1> QED  BY <1>1, <1>2, PTL DEF Spec

\* The types of the queues and the tasks
THEOREM DispatcherTypes == Spec => []TypeOK
<1>1. IInv /\ SumsFit => TypeOK
  <2> SUFFICES ASSUME IInv, SumsFit PROVE TypeOK
    OBVIOUS
  <2>1. global \in Nat
    BY PeerAssumption, UnitsAreFinite DEF SumsFit
  <2> QED  BY <2>1 DEF TypeOK, IInv, OrderTypes, SumsFit
<1> QED  BY <1>1, SumsAlwaysFit, PTL

\* For any number of peers and any limits, the outbound bytes of each peer and
\* of all are those of the frames queued or in flight, and never pass a limit,
\* whatever closes, failures and sends interleave (enqueueOneLocked,
\* clearLocked, releaseInFlightLocked).
THEOREM CountsStayTrue == Spec => []CountsAddUp
<1>1. IInv /\ SumsFit => CountsAddUp
  <2> SUFFICES ASSUME IInv, SumsFit PROVE CountsAddUp
    OBVIOUS
  <2>1. ASSUME NEW p \in Peer
        PROVE  /\ outbound[p] = inFlight[p] + BytesOf(frames[p])
               /\ inFlight[p] = Total([f \in InHand(p) |-> f.bytes], InHand(p))
               /\ outbound[p] <= MaxPeerBytes
               /\ Len(frames[p]) + Cardinality(InHand(p)) <= MaxQueue
               /\ ~connected[p] /\ InHand(p) = {} => ~draining[p]
    <3>1. Sums(p)
      BY DEF SumsFit
    <3>2. CASE InHand(p) = {} /\ inFlight[p] = 0
      <4>1. Cardinality(InHand(p)) = 0 /\ Total([f \in InHand(p) |-> f.bytes], InHand(p)) = 0
        BY <3>2, FS_EmptySet, TotalOfNone
      <4> QED  BY <3>1, <3>2, <4>1 DEF Sums
    <3>3. CASE \E f \in Frame : InHand(p) = {f} /\ inFlight[p] = f.bytes
      <4>1. PICK f \in Frame : InHand(p) = {f} /\ inFlight[p] = f.bytes
        BY <3>3
      <4>2. PICK h : h = [g \in InHand(p) |-> g.bytes]
        OBVIOUS
      <4>3. h[f] = f.bytes /\ f.bytes \in Nat /\ f.bytes # 0
        BY <4>1, <4>2, FrameType
      <4>4. Total(h, {f}) = f.bytes
        BY <4>3, TotalOfOne
      <4>5. Total([g \in InHand(p) |-> g.bytes], InHand(p)) = inFlight[p]
        BY <4>1, <4>2, <4>4
      <4>6. Cardinality(InHand(p)) = 1 /\ inFlight[p] # 0
        BY <4>1, <4>3, FS_Singleton
      <4> QED  BY <3>1, <4>5, <4>6 DEF Sums
    <3> QED  BY <3>1, <3>2, <3>3 DEF Sums
  <2> QED  BY <2>1 DEF CountsAddUp, SumsFit
<1> QED  BY <1>1, SumsAlwaysFit, PTL

-----------------------------------------------------------------------------
(* The dispatcher implements the channel                                   *)

Pending == [p \in Peer |-> Leaving(p) \o Numbers(frames[p])]

\* Numbers goes through a sequence of frames element by element.
LEMMA NumbersOf ==
  ASSUME NEW s \in Seq(Frame)
  PROVE  Numbers(s) \in Seq(Nat) /\ Len(Numbers(s)) = Len(s)
  BY FrameType DEF Numbers

LEMMA NumbersOfAppended ==
  ASSUME NEW s \in Seq(Frame), NEW f \in Frame
  PROVE  Numbers(Append(s, f)) = Append(Numbers(s), f.no)
<1>1. Append(s, f) \in Seq(Frame) /\ Len(Append(s, f)) = Len(s) + 1
  OBVIOUS
<1>2. Numbers(s) \in Seq(Nat) /\ Len(Numbers(s)) = Len(s) /\ f.no \in Nat
  BY NumbersOf, FrameType
<1>3. Append(Numbers(s), f.no) \in Seq(Nat) /\ Len(Append(Numbers(s), f.no)) = Len(s) + 1
  BY <1>2
<1>4. Numbers(Append(s, f)) \in Seq(Nat) /\ Len(Numbers(Append(s, f))) = Len(s) + 1
  BY <1>1, NumbersOf
<1>5. ASSUME NEW i \in 1..(Len(s) + 1)
      PROVE  Numbers(Append(s, f))[i] = Append(Numbers(s), f.no)[i]
  BY <1>1, <1>2 DEF Numbers
<1> QED  BY <1>3, <1>4, <1>5, SeqEqual

LEMMA NumbersOfFirst ==
  ASSUME NEW s \in Seq(Frame), s # <<>>
  PROVE  Numbers(s) = <<Head(s).no>> \o Numbers(Tail(s))
<1>1. Tail(s) \in Seq(Frame) /\ Len(Tail(s)) = Len(s) - 1 /\ Head(s) \in Frame
  BY HeadTailProperties
<1>2. /\ Numbers(s) \in Seq(Nat) /\ Len(Numbers(s)) = Len(s)
      /\ Numbers(Tail(s)) \in Seq(Nat) /\ Len(Numbers(Tail(s))) = Len(s) - 1
  BY Zenon, <1>1, NumbersOf
<1>3. <<Head(s).no>> \in Seq(Nat) /\ Len(<<Head(s).no>>) = 1
  BY <1>1, FrameType
<1>4. /\ <<Head(s).no>> \o Numbers(Tail(s)) \in Seq(Nat)
      /\ Len(<<Head(s).no>> \o Numbers(Tail(s))) = Len(s)
  BY <1>2, <1>3
<1>5. ASSUME NEW i \in 1..Len(s)
      PROVE  Numbers(s)[i] = (<<Head(s).no>> \o Numbers(Tail(s)))[i]
  <2>1. CASE i = 1
    BY <2>1, <1>2, <1>3 DEF Numbers
  <2>2. CASE i # 1
    <3>1. (<<Head(s).no>> \o Numbers(Tail(s)))[i] = Numbers(Tail(s))[i - 1]
      BY <2>2, <1>2, <1>3
    <3>2. Numbers(Tail(s))[i - 1] = s[i].no
      BY <2>2, <1>1 DEF Numbers
    <3> QED  BY <3>1, <3>2 DEF Numbers
  <2> QED  BY <2>1, <2>2
<1> QED  BY <1>2, <1>4, <1>5, SeqEqual

\* At most one frame is leaving, and it comes before those in the queue.
LEMMA PendingOf ==
  ASSUME IInv, NEW p \in Peer
  PROVE  /\ sending[p] = {} => Pending[p] = Numbers(frames[p])
         /\ \A f \in Frame : sending[p] = {f} => Pending[p] = <<f.no>> \o Numbers(frames[p])
         /\ sending[p] = {} \/ \E f \in Frame : sending[p] = {f}
         /\ Pending[p] \in Seq(Nat)
         /\ Numbers(frames[p]) \in Seq(Nat)
<1>1. Numbers(frames[p]) \in Seq(Nat)
  BY NumbersOf DEF IInv, OrderTypes
<1>2. sending[p] = {} => Pending[p] = Numbers(frames[p])
  BY <1>1 DEF Pending, Leaving
<1>3. \A f \in Frame : sending[p] = {f} => Pending[p] = <<f.no>> \o Numbers(frames[p])
  BY DEF Pending, Leaving
<1>4. sending[p] = {} \/ \E f \in Frame : sending[p] = {f}
  BY DEF IInv, Fine, OneTask
<1>5. \A f \in Frame : <<f.no>> \o Numbers(frames[p]) \in Seq(Nat)
  BY <1>1, FrameType
<1> QED  BY <1>1, <1>2, <1>3, <1>4, <1>5

LEMMA NumbersOfNone == Numbers(<<>>) = <<>>
  BY DEF Numbers

\* What is left of the pending frames of a peer that is closed
LEMMA PendingOfClosed ==
  ASSUME IInv, NEW p \in Peer, frames'[p] = <<>>, sending'[p] = sending[p]
  PROVE  Pending'[p] = IF sending[p] # {} /\ Pending[p] # <<>> THEN <<Head(Pending[p])>> ELSE <<>>
<1>1. Pending'[p] = Leaving(p)' \o <<>>
  BY NumbersOfNone DEF Pending
<1>2. CASE sending[p] = {}
  BY <1>1, <1>2 DEF Leaving
<1>3. ASSUME NEW f \in Frame, sending[p] = {f}
      PROVE  Pending'[p] = <<Head(Pending[p])>> /\ Pending[p] # <<>>
  <2>1. Pending[p] = <<f.no>> \o Numbers(frames[p]) /\ Numbers(frames[p]) \in Seq(Nat)
    BY <1>3, PendingOf
  <2>2. f.no \in Nat
    BY FrameType
  <2>3. Head(Pending[p]) = f.no /\ Pending[p] # <<>>
    BY <2>1, <2>2
  <2>4. Leaving(p)' = <<f.no>>
    BY <1>3 DEF Leaving
  <2> QED  BY <1>1, <2>2, <2>3, <2>4
<1> QED  BY <1>2, <1>3, PendingOf

LEMMA DisconnectCloses ==
  ASSUME IInv, NEW P \in SUBSET Peer, Disconnect(P)
  PROVE  Channel!Close(P)
<1> DEFINE Kept == {p \in P : sending[p] # {}}
<1>1. /\ connected' = [p \in Peer |-> connected[p] /\ p \notin P]
      /\ frames' = [p \in Peer |-> IF p \in P THEN <<>> ELSE frames[p]]
      /\ UNCHANGED <<sending, accepted, broken, wire>>
  BY DEF Disconnect, Clear, taskVars, tellVars
<1>2. ASSUME NEW p \in Peer
      PROVE  Pending'[p] = IF p \notin P THEN Pending[p]
                           ELSE IF p \in Kept /\ Pending[p] # <<>> THEN <<Head(Pending[p])>>
                           ELSE <<>>
  <2>1. CASE p \in P
    BY <2>1, <1>1, PendingOfClosed
  <2>2. CASE p \notin P
    BY <2>2, <1>1 DEF Pending, Leaving
  <2> QED  BY <2>1, <2>2
<1>3. Kept \in SUBSET P
  OBVIOUS
<1> HIDE DEF Kept
<1>4. Pending' = [p \in Peer |-> IF p \notin P THEN Pending[p]
                           ELSE IF p \in Kept /\ Pending[p] # <<>> THEN <<Head(Pending[p])>>
                           ELSE <<>>]
  BY <1>2 DEF Pending
<1> QED  BY <1>1, <1>3, <1>4 DEF Channel!Close, Channel!Closed, Pending

LEMMA EnqueueAccepts ==
  ASSUME IInv, NEW P \in SUBSET Peer, NEW p \in Peer, p \notin P, connected[p],
         NEW b \in Sizes, Enqueue(p, b, P)
  PROVE  Channel!Accept(p, P)
<1> DEFINE Kept == {q \in P : sending[q] # {}}
           f == [no |-> accepted[p] + 1, bytes |-> b]
<1>0. f \in Frame /\ f.no = accepted[p] + 1 /\ frames[p] \in Seq(Frame)
  <2>1. accepted[p] \in Nat /\ frames[p] \in Seq(Frame)
    BY DEF IInv, OrderTypes
  <2> QED  BY <2>1 DEF Frame
<1>1. /\ connected' = [q \in Peer |-> connected[q] /\ q \notin P]
      /\ frames' = [q \in Peer |-> IF q \in P THEN <<>>
                                   ELSE IF q = p THEN Append(frames[p], f) ELSE frames[q]]
      /\ accepted' = [accepted EXCEPT ![p] = @ + 1]
      /\ UNCHANGED <<sending, broken, wire>>
  BY DEF Enqueue
<1> HIDE DEF f
<1>2. Pending'[p] = Append(Pending[p], accepted[p] + 1)
  <2>1. Pending'[p] = Leaving(p) \o Numbers(Append(frames[p], f))
    BY <1>1 DEF Pending, Leaving
  <2>2. Numbers(Append(frames[p], f)) = Append(Numbers(frames[p]), accepted[p] + 1)
    BY <1>0, NumbersOfAppended
  <2>3. Numbers(frames[p]) \in Seq(Nat) /\ accepted[p] + 1 \in Nat
    BY PendingOf DEF IInv, OrderTypes
  <2>4. Leaving(p) \in Seq(Nat)
    BY PendingOf, FrameType DEF Leaving
  <2>5. Pending[p] = Leaving(p) \o Numbers(frames[p])
    BY DEF Pending
  <2> HIDE DEF Pending
  <2> QED  BY <2>1, <2>2, <2>3, <2>4, <2>5
<1>3. ASSUME NEW q \in Peer \ {p}
      PROVE  Pending'[q] = IF q \notin P THEN Pending[q]
                           ELSE IF q \in Kept /\ Pending[q] # <<>> THEN <<Head(Pending[q])>>
                           ELSE <<>>
  <2>1. CASE q \in P
    BY <2>1, <1>1, PendingOfClosed
  <2>2. CASE q \notin P
    BY <2>2, <1>1 DEF Pending, Leaving
  <2> QED  BY <2>1, <2>2
<1>4. Kept \in SUBSET P
  OBVIOUS
<1> HIDE DEF Kept
<1>5. Pending' = [[q \in Peer |-> IF q \notin P THEN Pending[q]
                           ELSE IF q \in Kept /\ Pending[q] # <<>> THEN <<Head(Pending[q])>>
                           ELSE <<>>] EXCEPT ![p] = Append(@, accepted[p] + 1)]
  BY <1>2, <1>3 DEF Pending
<1> QED  BY <1>1, <1>4, <1>5 DEF Channel!Accept, Channel!Closed, Pending

\* Taking a frame moves it from the queue to the send.
LEMMA TakeIsInternal ==
  ASSUME IInv, NEW p \in Peer, Take(p)
  PROVE  UNCHANGED Channel!channel
<1>0. /\ ready[p] = 1 /\ sending[p] = {} /\ UNCHANGED <<connected, accepted, broken, wire>>
  BY TakeIsOne
<1>1. ASSUME NEW q \in Peer \ {p} PROVE Pending'[q] = Pending[q]
  <2>1. frames'[q] = frames[q]
    <3>1. \/ frames' = frames
          \/ frames' = [frames EXCEPT ![p] = Tail(@)]
          \/ frames' = [r \in Peer |-> IF r \in {p} THEN <<>> ELSE frames[r]]
      BY DEF Take, Clear
    <3> QED  BY <3>1 DEF IInv, OrderTypes
  <2>2. sending'[q] = sending[q]
    <3>1. \/ sending' = sending
          \/ sending' = [sending EXCEPT ![p] = @ \cup {Head(frames[p])}]
      BY DEF Take
    <3> QED  BY <3>1 DEF IInv, OrderTypes
  <2>3. Leaving(q)' = Leaving(q)
    BY <2>2 DEF Leaving
  <2> QED  BY <2>1, <2>3 DEF Pending
<1>2. Pending'[p] = Pending[p]
  <2>1. CASE connected[p] /\ frames[p] # <<>>
    <3>1. frames'[p] = Tail(frames[p]) /\ sending'[p] = {Head(frames[p])}
      BY <2>1, <1>0 DEF Take, IInv, OrderTypes
    <3>2. Pending[p] = Numbers(frames[p])
      BY <1>0, PendingOf
    <3>3. Pending'[p] = <<Head(frames[p]).no>> \o Numbers(Tail(frames[p]))
      BY <3>1 DEF Pending, Leaving
    <3> QED  BY <3>2, <3>3, <2>1, NumbersOfFirst DEF IInv, OrderTypes
  <2>2. CASE connected[p] /\ frames[p] = <<>>
    BY <2>2 DEF Take, Pending, Leaving
  <2>3. CASE ~connected[p]
    <3>1. frames[p] = <<>>
      BY <2>3 DEF IInv, Fine
    <3>2. frames'[p] = <<>> /\ UNCHANGED sending
      BY <2>3 DEF Take, Clear
    <3> QED  BY <3>1, <3>2 DEF Pending, Leaving
  <2> QED  BY <2>1, <2>2, <2>3
<1>3. Pending' = Pending
  BY <1>1, <1>2 DEF Pending
<1> QED  BY <1>0, <1>3 DEF Channel!channel, Pending

\* The send of the first pending frame ends.
LEMMA SendOfFirst ==
  ASSUME IInv, NEW p \in Peer, NEW f \in sending[p],
         sending' = [sending EXCEPT ![p] = @ \ {f}], UNCHANGED frames
  PROVE  /\ Pending[p] # <<>> /\ Head(Pending[p]) = f.no
         /\ Pending' = [Pending EXCEPT ![p] = Tail(@)]
<1>1. f \in Frame /\ f.no \in Nat
  BY FrameType DEF IInv, OrderTypes
<1>2. sending[p] = {f} /\ sending'[p] = {}
  BY Zenon DEF IInv, OrderTypes, Fine, OneTask
<1>3. Pending[p] = <<f.no>> \o Numbers(frames[p]) /\ Numbers(frames[p]) \in Seq(Nat)
  BY <1>1, <1>2, PendingOf
<1>4. Pending'[p] = Numbers(frames[p])
  BY <1>2, <1>3 DEF Pending, Leaving
<1>5. Pending[p] # <<>> /\ Head(Pending[p]) = f.no /\ Tail(Pending[p]) = Numbers(frames[p])
  BY <1>1, <1>3
<1>6. ASSUME NEW q \in Peer \ {p} PROVE Pending'[q] = Pending[q]
  BY DEF Pending, Leaving, IInv, OrderTypes
<1> QED  BY <1>4, <1>5, <1>6 DEF Pending

LEMMA SendTransmits ==
  ASSUME IInv, NEW p \in Peer, NEW f \in sending[p], EndSend(p, f)
  PROVE  Channel!Transmit(p)
<1>1. /\ sending' = [sending EXCEPT ![p] = @ \ {f}]
      /\ wire' = [wire EXCEPT ![p] = Append(@, f.no)]
      /\ UNCHANGED <<connected, frames, accepted, broken>>
  BY DEF EndSend
<1>2. /\ Pending[p] # <<>> /\ Head(Pending[p]) = f.no
      /\ Pending' = [Pending EXCEPT ![p] = Tail(@)]
  BY <1>1, SendOfFirst
<1>3. ~broken[p]
  BY DEF IInv, Fine
<1> QED  BY <1>1, <1>2, <1>3 DEF Channel!Transmit, Pending

LEMMA FailureLoses ==
  ASSUME IInv, NEW p \in Peer, NEW f \in sending[p], FailSend(p, f)
  PROVE  Channel!Lose(p)
<1>1. /\ sending' = [sending EXCEPT ![p] = @ \ {f}]
      /\ broken' = [broken EXCEPT ![p] = TRUE]
      /\ UNCHANGED <<connected, frames, accepted, wire>>
  BY DEF FailSend, queueVars
<1>2. /\ Pending[p] # <<>> /\ Pending' = [Pending EXCEPT ![p] = Tail(@)]
  BY <1>1, SendOfFirst
<1> QED  BY <1>1, <1>2 DEF Channel!Lose, Pending

LEMMA HandlerCloses ==
  ASSUME IInv, NEW p \in Peer, NEW f \in failing[p], HandleFailure(p, f)
  PROVE  Channel!Close({p})
<1>1. /\ sending[p] = {} /\ connected' = [connected EXCEPT ![p] = FALSE]
      /\ frames' = [frames EXCEPT ![p] = <<>>]
      /\ UNCHANGED <<sending, accepted, broken, wire>>
  BY HandleFailureIsOne
<1>2. connected' = [q \in Peer |-> connected[q] /\ q \notin {p}]
  BY <1>1 DEF IInv, OrderTypes
<1>3. Pending'[p] = <<>>
  <2>1. frames'[p] = <<>> /\ sending'[p] = {}
    BY <1>1 DEF IInv, OrderTypes
  <2> QED  BY <2>1, NumbersOfNone DEF Pending, Leaving
<1>4. ASSUME NEW q \in Peer \ {p} PROVE Pending'[q] = Pending[q]
  BY <1>1 DEF Pending, Leaving, IInv, OrderTypes
<1>5. Pending' = [q \in Peer |-> IF q \notin {p} THEN Pending[q]
                           ELSE IF q \in {} /\ Pending[q] # <<>> THEN <<Head(Pending[q])>>
                           ELSE <<>>]
  BY <1>3, <1>4 DEF Pending
<1>6. {} \in SUBSET {p}
  OBVIOUS
<1> QED  BY <1>1, <1>2, <1>5, <1>6 DEF Channel!Close, Channel!Closed, Pending

LEMMA EveryStepIsAllowed == IInv /\ [Next]_vars => [Channel!Next]_(Channel!channel)
<1> SUFFICES ASSUME IInv, [Next]_vars PROVE [Channel!Next]_(Channel!channel)
  OBVIOUS
<1>1. ASSUME NEW p \in Peer, NEW b \in Sizes, Offer(p, b) PROVE Channel!Next
  BY <1>1, OfferIsOne, DisconnectCloses, EnqueueAccepts DEF Channel!Next
<1>2. ASSUME NEW p \in Peer, Close(p) PROVE Channel!Next
  BY <1>2, DisconnectCloses DEF Close, Channel!Next
<1>3. ASSUME NEW p \in Peer, Take(p) PROVE UNCHANGED Channel!channel
  BY <1>3, TakeIsInternal
<1>4. ASSUME NEW p \in Peer, NEW f \in sending[p], EndSend(p, f) \/ FailSend(p, f) PROVE Channel!Next
  BY <1>4, SendTransmits, FailureLoses DEF Channel!Next
<1>5. ASSUME NEW p \in Peer, NEW f \in failing[p], HandleFailure(p, f) PROVE Channel!Next
  <2>1. {p} \in SUBSET Peer
    OBVIOUS
  <2> QED  BY <1>5, <2>1, HandlerCloses DEF Channel!Next
<1>6. ASSUME NEW p \in Peer, NEW f \in failed[p], EndFailure(p, f) PROVE UNCHANGED Channel!channel
  BY <1>6 DEF EndFailure, tellVars, Channel!channel, Leaving
<1>7. CASE Stop
  <2>1. {p \in Peer : connected[p]} \in SUBSET Peer
    OBVIOUS
  <2> QED  BY <1>7, <2>1, DisconnectCloses DEF Stop, Channel!Next
<1>8. CASE UNCHANGED vars
  BY <1>8 DEF vars, queueVars, taskVars, tellVars, Channel!channel, Leaving
<1> QED  BY <1>1, <1>2, <1>3, <1>4, <1>5, <1>6, <1>7, <1>8 DEF Next

LEMMA StartsAllowed == Init => Channel!Init
<1> SUFFICES ASSUME Init PROVE Channel!Init
  OBVIOUS
<1>1. ASSUME NEW p \in Peer PROVE Leaving(p) \o Numbers(frames[p]) = <<>>
  BY NumbersOfNone DEF Init, Leaving
<1> QED  BY <1>1 DEF Init, Channel!Init

\* The dispatcher keeps the promise of OutboundChannel: in order, none twice,
\* none skipped, whatever the number of peers, the limits and the frame sizes.
THEOREM DispatcherImplementsChannel == Spec => ImplementsChannel
<1>1. IInv /\ [Next]_vars => [Channel!Next]_(Channel!channel)
  BY EveryStepIsAllowed
<1> QED  BY <1>1, StartsAllowed, TasksAreFine, PTL DEF Spec, ImplementsChannel, Channel!Spec

\* What has left the dispatcher, and what is pending, are in order: the steps of
\* the channel, with what is pending in the dispatcher.
LeftOf(P, Kept) ==
  [p \in Peer |-> IF p \notin P THEN Pending[p]
                  ELSE IF p \in Kept /\ Pending[p] # <<>> THEN <<Head(Pending[p])>>
                  ELSE <<>>]

Accepts(p, P) ==
  /\ connected[p] /\ p \notin P
  /\ connected' = [q \in Peer |-> connected[q] /\ q \notin P]
  /\ accepted' = [accepted EXCEPT ![p] = @ + 1]
  /\ \E Kept \in SUBSET P : Pending' = [LeftOf(P, Kept) EXCEPT ![p] = Append(@, accepted[p] + 1)]
  /\ UNCHANGED <<broken, wire>>

Closes(P) ==
  /\ connected' = [q \in Peer |-> connected[q] /\ q \notin P]
  /\ \E Kept \in SUBSET P : Pending' = LeftOf(P, Kept)
  /\ UNCHANGED <<broken, accepted, wire>>

Sends(p) ==
  /\ ~broken[p] /\ Pending[p] # <<>>
  /\ wire' = [wire EXCEPT ![p] = Append(@, Head(Pending[p]))]
  /\ Pending' = [Pending EXCEPT ![p] = Tail(@)]
  /\ UNCHANGED <<connected, broken, accepted>>

Loses(p) ==
  /\ Pending[p] # <<>>
  /\ broken' = [broken EXCEPT ![p] = TRUE]
  /\ Pending' = [Pending EXCEPT ![p] = Tail(@)]
  /\ UNCHANGED <<connected, accepted, wire>>

LEMMA ChannelSteps ==
  ASSUME [Channel!Next]_(Channel!channel)
  PROVE  \/ \E p \in Peer : Sends(p) \/ Loses(p)
         \/ \E P \in SUBSET Peer : Closes(P) \/ \E p \in Peer : Accepts(p, P)
         \/ UNCHANGED <<connected, broken, accepted, Pending, wire>>
<1>1. ASSUME NEW p \in Peer, Channel!Transmit(p) PROVE Sends(p)
  BY <1>1, Zenon DEF Channel!Transmit, Sends, Pending
<1>2. ASSUME NEW p \in Peer, Channel!Lose(p) PROVE Loses(p)
  BY <1>2, Zenon DEF Channel!Lose, Loses, Pending
<1>3. ASSUME NEW P \in SUBSET Peer, Channel!Close(P) PROVE Closes(P)
  BY <1>3, Zenon DEF Channel!Close, Channel!Closed, Closes, LeftOf, Pending
<1>4. ASSUME NEW P \in SUBSET Peer, NEW p \in Peer, Channel!Accept(p, P) PROVE Accepts(p, P)
  BY <1>4, Zenon DEF Channel!Accept, Channel!Closed, Accepts, LeftOf, Pending
<1>5. CASE UNCHANGED Channel!channel
  BY <1>5, Zenon DEF Channel!channel, Pending
<1> QED  BY <1>1, <1>2, <1>3, <1>4, <1>5, Zenon DEF Channel!Next

ChannelTypes ==
  /\ connected \in [Peer -> BOOLEAN]
  /\ broken \in [Peer -> BOOLEAN]
  /\ accepted \in [Peer -> Nat]
  /\ Pending \in [Peer -> Seq(Nat)]
  /\ wire \in [Peer -> Seq(Nat)]

\* Until a frame is lost, the pending ones follow those that have left, and an
\* open channel has left out none.
InSequence(p) ==
  /\ \A i \in 1..Len(wire[p]) : wire[p][i] = i
  /\ ~broken[p] => \A i \in 1..Len(Pending[p]) : Pending[p][i] = Len(wire[p]) + i
  /\ ~broken[p] /\ connected[p] => accepted[p] = Len(wire[p]) + Len(Pending[p])

ChannelInv == ChannelTypes /\ \A p \in Peer : InSequence(p)

LEMMA StartsInSequence == Channel!Init => ChannelInv
<1> SUFFICES ASSUME Channel!Init PROVE ChannelInv
  OBVIOUS
<1>1. /\ connected = [p \in Peer |-> TRUE] /\ broken = [p \in Peer |-> FALSE]
      /\ accepted = [p \in Peer |-> 0] /\ Pending = [p \in Peer |-> <<>>]
      /\ wire = [p \in Peer |-> <<>>]
  BY Zenon DEF Channel!Init, Pending
<1> QED  BY <1>1 DEF ChannelInv, ChannelTypes, InSequence

\* Closing a peer leaves it at most its first pending frame.
LEMMA ClosedOf ==
  ASSUME ChannelInv, NEW P \in SUBSET Peer, NEW Kept \in SUBSET P, NEW q \in Peer
  PROVE  /\ LeftOf(P, Kept)[q] \in Seq(Nat)
         /\ q \notin P => LeftOf(P, Kept)[q] = Pending[q]
         /\ \A i \in 1..Len(LeftOf(P, Kept)[q]) : i \in 1..Len(Pending[q]) /\ LeftOf(P, Kept)[q][i] = Pending[q][i]
<1>1. Pending[q] \in Seq(Nat)
  BY DEF ChannelInv, ChannelTypes
<1>2. CASE q \notin P
  BY <1>1, <1>2 DEF LeftOf
<1>3. CASE q \in P /\ q \in Kept /\ Pending[q] # <<>>
  <2>1. LeftOf(P, Kept)[q] = <<Head(Pending[q])>> /\ Head(Pending[q]) = Pending[q][1] /\ Head(Pending[q]) \in Nat
    BY <1>1, <1>3, HeadTailProperties DEF LeftOf
  <2>2. Len(Pending[q]) \in Nat /\ Len(Pending[q]) # 0
    BY <1>1, <1>3
  <2> QED  BY <1>3, <2>1, <2>2
<1>4. CASE q \in P /\ ~(q \in Kept /\ Pending[q] # <<>>)
  BY <1>4 DEF LeftOf
<1> QED  BY <1>2, <1>3, <1>4

\* Consecutive numbers stay consecutive when the first one is taken off, and
\* when the next one is added.
LEMMA TailFollows ==
  ASSUME NEW s \in Seq(Nat), s # <<>>, NEW k \in Nat, \A i \in 1..Len(s) : s[i] = k + i
  PROVE  \A i \in 1..Len(Tail(s)) : Tail(s)[i] = (k + 1) + i
<1> TAKE i \in 1..Len(Tail(s))
<1>1. Len(Tail(s)) = Len(s) - 1 /\ Len(s) \in Nat \ {0} /\ Tail(s) \in Seq(Nat)
  BY HeadTailProperties
<1>2. i \in Nat /\ i + 1 \in 1..Len(s)
  BY <1>1
<1>3. Tail(s)[i] = s[i + 1]
  BY <1>1, <1>2
<1>4. s[i + 1] = k + (i + 1)
  BY <1>2
<1> QED  BY <1>2, <1>3, <1>4

LEMMA AppendFollows ==
  ASSUME NEW s \in Seq(Nat), NEW k \in Nat, NEW n \in Nat, n = k + Len(s) + 1,
         \A i \in 1..Len(s) : s[i] = k + i
  PROVE  \A i \in 1..Len(Append(s, n)) : Append(s, n)[i] = k + i
<1> TAKE i \in 1..Len(Append(s, n))
<1>1. Len(Append(s, n)) = Len(s) + 1 /\ Len(s) \in Nat
  OBVIOUS
<1>2. CASE i = Len(s) + 1
  BY <1>1, <1>2
<1>3. CASE i \in 1..Len(s)
  <2>1. Append(s, n)[i] = s[i]
    BY <1>1, <1>3
  <2> QED  BY <1>3, <2>1
<1> QED  BY <1>1, <1>2, <1>3

LEMMA ChannelStep == ChannelInv /\ [Channel!Next]_(Channel!channel) => ChannelInv'
<1> SUFFICES ASSUME ChannelInv, [Channel!Next]_(Channel!channel) PROVE ChannelInv'
  OBVIOUS
<1>1. ASSUME NEW p \in Peer, Sends(p) PROVE ChannelInv'
  <2>1. Pending[p] \in Seq(Nat) /\ wire[p] \in Seq(Nat) /\ Pending[p] # <<>> /\ ~broken[p]
    BY <1>1 DEF Sends, ChannelInv, ChannelTypes
  <2>2. /\ Head(Pending[p]) = Len(wire[p]) + 1 /\ Tail(Pending[p]) \in Seq(Nat)
        /\ Len(Tail(Pending[p])) = Len(Pending[p]) - 1 /\ Head(Pending[p]) = Pending[p][1]
        /\ Len(Pending[p]) \in Nat \ {0}
    <3>1. /\ Tail(Pending[p]) \in Seq(Nat) /\ Len(Tail(Pending[p])) = Len(Pending[p]) - 1
          /\ Head(Pending[p]) = Pending[p][1] /\ Len(Pending[p]) \in Nat \ {0}
      BY <2>1, HeadTailProperties
    <3>2. 1 \in 1..Len(Pending[p])
      BY <3>1
    <3>3. Pending[p][1] = Len(wire[p]) + 1
      BY <2>1, <3>2 DEF ChannelInv, InSequence
    <3> QED  BY <3>1, <3>3
  <2>3. ChannelTypes'
    BY <1>1, <2>1, <2>2 DEF Sends, ChannelInv, ChannelTypes
  <2>4. wire'[p] = Append(wire[p], Len(wire[p]) + 1) /\ Pending'[p] = Tail(Pending[p])
    BY <1>1, <2>2 DEF Sends, ChannelInv, ChannelTypes
  <2>5. InSequence(p)'
    <3>2. /\ Len(wire'[p]) = Len(wire[p]) + 1 /\ Len(wire[p]) \in Nat
          /\ wire'[p][Len(wire[p]) + 1] = Len(wire[p]) + 1
          /\ \A i \in 1..Len(wire[p]) : wire'[p][i] = wire[p][i]
      BY <2>1, <2>4
    <3>1. \A i \in 1..Len(wire'[p]) : wire'[p][i] = i
      <4> SUFFICES ASSUME NEW i \in 1..Len(wire'[p]) PROVE wire'[p][i] = i
        OBVIOUS
      <4>1. i = Len(wire[p]) + 1 \/ i \in 1..Len(wire[p])
        BY <3>2
      <4> QED  BY <4>1, <3>2 DEF ChannelInv, InSequence
    <3>4. \A i \in 1..Len(Pending'[p]) : Pending'[p][i] = Len(wire'[p]) + i
      <4>1. \A i \in 1..Len(Pending[p]) : Pending[p][i] = Len(wire[p]) + i
        BY <2>1 DEF ChannelInv, InSequence
      <4>2. \A i \in 1..Len(Tail(Pending[p])) : Tail(Pending[p])[i] = (Len(wire[p]) + 1) + i
        BY <4>1, <2>1, <3>2, TailFollows
      <4> QED  BY <4>2, <2>4, <3>2
    <3>5. connected[p] => accepted[p] = Len(wire'[p]) + Len(Pending'[p])
      <4>1. connected[p] => accepted[p] = Len(wire[p]) + Len(Pending[p])
        BY <2>1 DEF ChannelInv, InSequence
      <4>2. Len(Pending'[p]) = Len(Pending[p]) - 1 /\ Len(Pending[p]) \in Nat
        BY <2>2, <2>4
      <4>0. Len(wire'[p]) = Len(wire[p]) + 1 /\ Len(wire[p]) \in Nat
        BY <3>2
      <4> DEFINE w == Len(wire[p])  ww == Len(wire'[p])  l == Len(Pending[p])  ll == Len(Pending'[p])
      <4>5. w \in Nat /\ l \in Nat /\ ww = w + 1 /\ ll = l - 1
        BY <4>0, <4>2
      <4> HIDE DEF w, ww, l, ll
      <4>6. ww + ll = w + l
        BY <4>5
      <4>3. Len(wire'[p]) + Len(Pending'[p]) = Len(wire[p]) + Len(Pending[p])
        BY <4>6 DEF w, ww, l, ll
      <4> QED  BY <4>1, <4>3
    <3> QED  BY <1>1, <3>1, <3>4, <3>5 DEF Sends, InSequence
  <2>6. ASSUME NEW q \in Peer \ {p} PROVE InSequence(q)'
    <3>1. wire'[q] = wire[q] /\ Pending'[q] = Pending[q]
      BY <1>1 DEF Sends, ChannelInv, ChannelTypes
    <3> QED  BY <1>1, <3>1 DEF Sends, ChannelInv, InSequence
  <2> QED  BY <2>3, <2>5, <2>6 DEF ChannelInv
<1>2. ASSUME NEW p \in Peer, Loses(p) PROVE ChannelInv'
  <2>1. Tail(Pending[p]) \in Seq(Nat)
    BY <1>2, HeadTailProperties DEF Loses, ChannelInv, ChannelTypes
  <2>2. ChannelTypes'
    BY <1>2, <2>1 DEF Loses, ChannelInv, ChannelTypes
  <2>3. broken'[p] = TRUE /\ UNCHANGED wire
    BY <1>2 DEF Loses, ChannelInv, ChannelTypes
  <2>4. InSequence(p)'
    BY <2>3 DEF ChannelInv, InSequence
  <2>5. ASSUME NEW q \in Peer \ {p} PROVE InSequence(q)'
    <3>1. Pending'[q] = Pending[q] /\ broken'[q] = broken[q]
      BY <1>2 DEF Loses, ChannelInv, ChannelTypes
    <3> QED  BY <1>2, <3>1 DEF Loses, ChannelInv, InSequence
  <2> QED  BY <2>2, <2>4, <2>5 DEF ChannelInv
<1>3. ASSUME NEW P \in SUBSET Peer, Closes(P) PROVE ChannelInv'
  <2>1. PICK Kept \in SUBSET P : Pending' = LeftOf(P, Kept)
    BY <1>3 DEF Closes
  <2>2. ChannelTypes'
    <3>1. Pending' \in [Peer -> Seq(Nat)]
      BY <2>1, ClosedOf DEF LeftOf
    <3> QED  BY <1>3, <3>1 DEF Closes, ChannelInv, ChannelTypes
  <2>3. ASSUME NEW q \in Peer PROVE InSequence(q)'
    <3>1. connected'[q] = (connected[q] /\ q \notin P) /\ UNCHANGED <<broken, wire, accepted>>
      BY <1>3 DEF Closes
    <3>2. \A i \in 1..Len(Pending'[q]) : i \in 1..Len(Pending[q]) /\ Pending'[q][i] = Pending[q][i]
      BY <2>1, ClosedOf
    <3>3. connected'[q] => Pending'[q] = Pending[q]
      BY <2>1, <3>1, ClosedOf
    <3> QED  BY <3>1, <3>2, <3>3 DEF ChannelInv, InSequence
  <2> QED  BY <2>2, <2>3 DEF ChannelInv
<1>4. ASSUME NEW P \in SUBSET Peer, NEW p \in Peer, Accepts(p, P) PROVE ChannelInv'
  <2> DEFINE n == accepted[p] + 1
  <2>1. PICK Kept \in SUBSET P : Pending' = [LeftOf(P, Kept) EXCEPT ![p] = Append(@, n)]
    BY <1>4 DEF Accepts
  <2>2. Pending[p] \in Seq(Nat) /\ n \in Nat /\ p \notin P /\ connected[p]
    BY <1>4 DEF Accepts, ChannelInv, ChannelTypes
  <2>3. /\ Pending'[p] = Append(Pending[p], n)
        /\ \A q \in Peer \ {p} : Pending'[q] = LeftOf(P, Kept)[q]
        /\ DOMAIN Pending' = Peer
    BY <2>1, <2>2, ClosedOf DEF LeftOf
  <2>4. ChannelTypes'
    <3>1. Append(Pending[p], n) \in Seq(Nat)
      BY <2>2
    <3>2. \A q \in Peer : Pending'[q] \in Seq(Nat)
      BY Zenon, <2>3, <3>1, ClosedOf
    <3>3. Pending' = [q \in Peer |-> Pending'[q]]
      BY <2>1 DEF LeftOf
    <3>4. Pending' \in [Peer -> Seq(Nat)]
      BY <3>2, <3>3
    <3> QED  BY <1>4, <3>4 DEF Accepts, ChannelInv, ChannelTypes
  <2>5. InSequence(p)'
    <3>1. /\ Len(Pending'[p]) = Len(Pending[p]) + 1 /\ Len(Pending[p]) \in Nat
          /\ Pending'[p][Len(Pending[p]) + 1] = n
          /\ \A i \in 1..Len(Pending[p]) : Pending'[p][i] = Pending[p][i]
      BY <2>2, <2>3
    <3>2. UNCHANGED <<broken, wire>> /\ accepted'[p] = n
      BY <1>4 DEF Accepts, ChannelInv, ChannelTypes
    <3>3. Len(wire[p]) \in Nat /\ accepted[p] \in Nat
      BY DEF ChannelInv, ChannelTypes
    <3>4. ~broken[p] => accepted[p] = Len(wire[p]) + Len(Pending[p])
      BY <2>2 DEF ChannelInv, InSequence
    <3>5. ~broken[p] => \A i \in 1..Len(Pending'[p]) : Pending'[p][i] = Len(wire[p]) + i
      <4> SUFFICES ASSUME ~broken[p] PROVE \A i \in 1..Len(Pending'[p]) : Pending'[p][i] = Len(wire[p]) + i
        OBVIOUS
      <4>1. \A i \in 1..Len(Pending[p]) : Pending[p][i] = Len(wire[p]) + i
        BY DEF ChannelInv, InSequence
      <4>2. n = Len(wire[p]) + Len(Pending[p]) + 1
        BY <3>1, <3>3, <3>4
      <4> HIDE DEF n
      <4>3. \A i \in 1..Len(Append(Pending[p], n)) : Append(Pending[p], n)[i] = Len(wire[p]) + i
        BY <4>1, <4>2, <2>2, <3>3, AppendFollows
      <4> QED  BY <4>3, <2>3
    <3>6. ~broken[p] => n = Len(wire[p]) + Len(Pending'[p])
      <4> SUFFICES ASSUME ~broken[p] PROVE n = Len(wire[p]) + Len(Pending'[p])
        OBVIOUS
      <4>1. accepted[p] = Len(wire[p]) + Len(Pending[p]) /\ Len(Pending'[p]) = Len(Pending[p]) + 1
        BY <3>1, <3>4
      <4> DEFINE w == Len(wire[p])  l == Len(Pending[p])  ll == Len(Pending'[p])  a == accepted[p]
      <4>5. w \in Nat /\ l \in Nat /\ a = w + l /\ ll = l + 1
        BY <4>1, <3>1, <3>3
      <4> HIDE DEF w, l, ll, a
      <4>6. a + 1 = w + ll
        BY <4>5
      <4>2. accepted[p] + 1 = Len(wire[p]) + Len(Pending'[p])
        BY <4>6 DEF w, l, ll, a
      <4> QED  BY <4>2
    <3> QED  BY <3>2, <3>5, <3>6 DEF ChannelInv, InSequence
  <2>6. ASSUME NEW q \in Peer \ {p} PROVE InSequence(q)'
    <3>1. connected'[q] = (connected[q] /\ q \notin P) /\ UNCHANGED <<broken, wire>> /\ accepted'[q] = accepted[q]
      BY <1>4 DEF Accepts, ChannelInv, ChannelTypes
    <3>2. \A i \in 1..Len(Pending'[q]) : i \in 1..Len(Pending[q]) /\ Pending'[q][i] = Pending[q][i]
      BY <2>3, ClosedOf
    <3>3. connected'[q] => Pending'[q] = Pending[q]
      BY ZenonT(40), <2>3, <3>1, ClosedOf
    <3> QED  BY <3>1, <3>2, <3>3 DEF ChannelInv, InSequence
  <2> QED  BY <2>4, <2>5, <2>6 DEF ChannelInv
<1>5. CASE UNCHANGED <<connected, broken, accepted, Pending, wire>>
  BY <1>5 DEF ChannelInv, ChannelTypes, InSequence
<1> QED  BY <1>1, <1>2, <1>3, <1>4, <1>5, ChannelSteps

\* What a peer was sent is an initial part of what was accepted for it, whatever
\* closes and losses happen: the dispatcher inherits the order from the channel
\* it implements.
THEOREM FramesLeaveInOrder == Spec => []FramesInOrder
<1>1. ChannelInv => FramesInOrder
  BY DEF ChannelInv, InSequence, FramesInOrder, Channel!InOrder
<1> QED  BY <1>1, StartsInSequence, ChannelStep, DispatcherImplementsChannel, PTL
         DEF ImplementsChannel, Channel!Spec

=============================================================================
