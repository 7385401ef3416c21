--------------------------- MODULE MCRoomSessions ---------------------------
(* Values of the constants of RoomSessions for TLC.  Connections 1 and 2     *)
(* belong to participant p; the service serves one or two rooms.             *)
EXTENDS RoomSessions, TLC

\* p twice and a connection without a grant
Standalone == (1 :> "p") @@ (2 :> "p") @@ (3 :> None)

AnyRoom == [c \in Conn |-> Room]
FirstRoom == [c \in Conn |-> {1}]

AllHosts == [c \in Conn |-> {"host"}]
OneHost == [c \in Conn |-> IF c = 1 THEN {"host"} ELSE {"participant"}]

=============================================================================
