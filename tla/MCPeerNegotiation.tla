------------------------- MODULE MCPeerNegotiation -------------------------
EXTENDS PeerNegotiation

\* Every disturbance by itself, a sender that fails when timers are early, and
\* the button of the user after a sender failed.
Scenes == {{"loss"}, {"track"}, {"refresh"}, {"reject"}, {"sender", "early"}, {"sender", "retry"}}
\* A track is added and the TURN credentials are refreshed.
TrackAndRefresh == {{"track", "refresh"}}

=============================================================================
