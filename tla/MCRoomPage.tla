----------------------------- MODULE MCRoomPage -----------------------------
EXTENDS RoomPage, TLC

History(entries) == [entries |-> entries, at |-> Len(entries)]

RoomOnly == History(<<Entry("room", None)>>)
HomeOnly == History(<<Entry("home", None)>>)
LoadedAgain == History(<<Entry("home", None), Entry("room", None)>>)

Scenario(managed, history, left0) ==
  [managed |-> managed, history |-> history,
   left |-> [what \in Bounded |-> IF what \in DOMAIN left0 THEN left0[what] ELSE 0]]

\* Grants and credentials with every failure; traversals, of a fresh page and of
\* one that was loaded again; the window, the peers and the lock.
MCScenarios ==
  { Scenario(m, RoomOnly, [due |-> 2, loss |-> 2, entry |-> 1]) : m \in BOOLEAN }
  \cup { Scenario(TRUE, RoomOnly, [due |-> 1, loss |-> 1, device |-> 1]),
         Scenario(FALSE, HomeOnly, [entry |-> 2, move |-> 4, need |-> 2]),
         Scenario(FALSE, LoadedAgain, [entry |-> 1, move |-> 4, need |-> 2]),
         Scenario(FALSE, RoomOnly, [loss |-> 1, look |-> 3, peer |-> 4, wake |-> 2]) }

=============================================================================
