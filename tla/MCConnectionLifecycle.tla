----------------------- MODULE MCConnectionLifecycle -----------------------
(* Values of the constants of ConnectionLifecycle for TLC: connections of two *)
(* addresses, all but 4 of one participant in a room, and 5 with the token of *)
(* 1.  Each setting has a limit that alone refuses somebody.                   *)
EXTENDS ConnectionLifecycle, TLC

Address == (1 :> "a") @@ (2 :> "b") @@ (3 :> "a") @@ (4 :> "b") @@ (5 :> "b")
TokenEach == (1 :> "t1") @@ (2 :> "t2") @@ (3 :> "t3") @@ (4 :> "t4") @@ (5 :> "t1")
Participants == [s \in Session |-> IF s = 4 THEN "q" ELSE "p"]
Server(total, client, comes) == [total |-> total, client |-> client, comes |-> comes]

\* 3 finds both seats of its participant taken; 4 a server that is full; 3 an
\* address that has its connection; 5 its token in use.
EachLimit == {Server(3, 2, {1, 2, 3}), Server(1, 2, {1, 4}), Server(2, 1, {1, 3}), Server(2, 2, {1, 5})}

=============================================================================
