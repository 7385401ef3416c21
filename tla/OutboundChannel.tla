-------------------------- MODULE OutboundChannel --------------------------
(***************************************************************************)
(* What SignalingOutboundDispatcher.java promises each peer, whatever the  *)
(* threads and the limits: frames leave in the order in which they were    *)
(* accepted, each at most once and none is skipped.  A lost frame is the   *)
(* end of the channel, and after a close at most the frame that was about  *)
(* to leave still leaves.  OutboundDispatcher implements it.               *)
(***************************************************************************)
EXTENDS Naturals, Sequences

CONSTANT Peer

VARIABLES
  open,     \* [Peer -> BOOLEAN]: frames are accepted
  broken,   \* [Peer -> BOOLEAN]: a frame was lost
  accepted, \* [Peer -> Nat]: frames accepted so far; their numbers start at 1
  pending,  \* [Peer -> Seq(Nat)]: frames that may still leave
  wire      \* [Peer -> Seq(Nat)]: frames that have left

channel == <<open, broken, accepted, pending, wire>>

Init ==
  /\ open = [p \in Peer |-> TRUE]
  /\ broken = [p \in Peer |-> FALSE]
  /\ accepted = [p \in Peer |-> 0]
  /\ pending = [p \in Peer |-> <<>>]
  /\ wire = [p \in Peer |-> <<>>]

\* The peers of P are closed, those of Kept keep the frame that is leaving.
Closed(P, Kept) ==
  [p \in Peer |-> IF p \notin P THEN pending[p]
                  ELSE IF p \in Kept /\ pending[p] # <<>> THEN <<Head(pending[p])>>
                  ELSE <<>>]

\* A frame for p is accepted; others may have to make place for it.
Accept(p, P) ==
  /\ open[p] /\ p \notin P
  /\ open' = [q \in Peer |-> open[q] /\ q \notin P]
  /\ accepted' = [accepted EXCEPT ![p] = @ + 1]
  /\ \E Kept \in SUBSET P : pending' = [Closed(P, Kept) EXCEPT ![p] = Append(@, accepted[p] + 1)]
  /\ UNCHANGED <<broken, wire>>

Close(P) ==
  /\ open' = [q \in Peer |-> open[q] /\ q \notin P]
  /\ \E Kept \in SUBSET P : pending' = Closed(P, Kept)
  /\ UNCHANGED <<broken, accepted, wire>>

Transmit(p) ==
  /\ ~broken[p] /\ pending[p] # <<>>
  /\ wire' = [wire EXCEPT ![p] = Append(@, Head(pending[p]))]
  /\ pending' = [pending EXCEPT ![p] = Tail(@)]
  /\ UNCHANGED <<open, broken, accepted>>

Lose(p) ==
  /\ pending[p] # <<>>
  /\ broken' = [broken EXCEPT ![p] = TRUE]
  /\ pending' = [pending EXCEPT ![p] = Tail(@)]
  /\ UNCHANGED <<open, accepted, wire>>

Next ==
  \/ \E p \in Peer : Transmit(p) \/ Lose(p)
  \/ \E P \in SUBSET Peer : Close(P) \/ \E p \in Peer : Accept(p, P)

Spec == Init /\ [][Next]_channel

\* What has left is an initial part of what was accepted.
InOrder == \A p \in Peer : \A i \in 1..Len(wire[p]) : wire[p][i] = i

=============================================================================
