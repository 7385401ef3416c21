------------------------- MODULE ParticipationGrant -------------------------
(***************************************************************************)
(* ParticipationGrantLeaseManager: whoever needs a grant that is fresh     *)
(* shares one refresh, two requests that may fail at any point.  The times *)
(* at which a grant falls due, by the monotonic or by the wall clock, are  *)
(* one event: it falls due.                                                *)
(***************************************************************************)
EXTENDS Integers, Sequences, SequencesExt

CONSTANT None

VARIABLE grant   \* the manager, or None in a standalone deployment

\* waiting: who awaits #refreshing, in the order of the calls.
NewManager ==
  [closed |-> FALSE, issued |-> 0, fresh |-> FALSE, step |-> "none", waiting |-> <<>>]

\* Is the grant used as it is (ensureFresh)?
IsFresh(g, force) == ~force /\ g.fresh

\* ensureFresh waits for the refresh, and starts it if none is on its way.
Asks(g, who) ==
  [g EXCEPT !.waiting = Append(@, who), !.step = IF @ = "none" THEN "session" ELSE @]

\* #requestRefresh is over; in a closed manager no grant counts.
Issued(g) ==
  [g EXCEPT !.step = "none", !.waiting = <<>>, !.issued = @ + 1, !.fresh = TRUE]
Unanswered(g) == [g EXCEPT !.step = "none", !.waiting = <<>>]

CloseManager(g) == IF g = None THEN None ELSE [g EXCEPT !.closed = TRUE]

=============================================================================
