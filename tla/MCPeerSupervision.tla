-------------------------- MODULE MCPeerSupervision --------------------------
(* Values of the constants of PeerSupervision for TLC: one of three peers     *)
(* connects: a silent one, a prompt one behind a slow queue, or one whose     *)
(* grants end.                                                                *)
EXTENDS PeerSupervision, TLC

Delays == ("silent" :> 1) @@ ("prompt" :> 2) @@ ("granted" :> 0)
GrantEnds == [p \in Peer |-> IF p = "granted" THEN {4, 6, 9} ELSE {}]

=============================================================================
