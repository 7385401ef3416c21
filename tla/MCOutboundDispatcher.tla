------------------------ MODULE MCOutboundDispatcher ------------------------
(* Values of the constants of OutboundDispatcher for TLC.                    *)
EXTENDS OutboundDispatcher, TLC

ThreePeers == (1 :> 0) @@ (2 :> 1) @@ (3 :> 2)

=============================================================================
