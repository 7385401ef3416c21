---------------------------- MODULE ChatMailbox ----------------------------
(***************************************************************************)
(* What a sender may rely on in the report on its messages, whatever       *)
(* becomes of the channels: an acknowledged message was shown, no message  *)
(* is shown twice, and no report stays open.                               *)
(***************************************************************************)
EXTENDS Naturals

CONSTANTS Peer, Chat

VARIABLES
  report,  \* [Chat -> [Peer -> {"none", "pending", "acknowledged", "failed"}]]
  shown    \* [Peer -> [Chat -> Nat]]

vars == <<report, shown>>

Init ==
  /\ report = [m \in Chat |-> [p \in Peer |-> "none"]]
  /\ shown = [p \in Peer |-> [m \in Chat |-> 0]]

\* Every report stays or changes from a state of one set to one of another.
Change(ms, from, to) ==
  /\ \A m \in Chat, p \in Peer :
       \/ report'[m][p] = report[m][p]
       \/ m \in ms /\ report[m][p] \in from /\ report'[m][p] \in to
  /\ DOMAIN report' = Chat /\ UNCHANGED shown

\* A message goes to those that are there; for the others it has failed.
Post(m) ==
  /\ \A p \in Peer : report[m][p] = "none"
  /\ Change({m}, {"none"}, {"pending", "failed"})

Show(m, p) ==
  /\ report[m][p] # "none" /\ shown[p][m] = 0
  /\ shown' = [shown EXCEPT ![p][m] = 1]
  /\ UNCHANGED report

Acknowledge(m, p) ==
  /\ report[m][p] = "pending" /\ shown[p][m] = 1
  /\ report' = [report EXCEPT ![m][p] = "acknowledged"]
  /\ UNCHANGED shown

\* Reports close together when connections do.
Fail == Change(Chat, {"pending"}, {"failed"})

\* Only what failed is sent again.
Retry(m) == Change({m}, {"failed"}, {"pending"})

Next ==
  \/ \E m \in Chat : Post(m) \/ Retry(m)
  \/ \E m \in Chat, p \in Peer : Show(m, p) \/ Acknowledge(m, p)
  \/ Fail

\* The messages are finitely many: once the sender falls silent every report
\* is closed.
Closed == \A m \in Chat, p \in Peer : report[m][p] # "pending"

Spec == Init /\ [][Next]_vars /\ []<>Closed

=============================================================================
