----------------------------- MODULE MCRoomChat -----------------------------
(* Values of the constants of RoomChat for TLC: "a" has channels, "z" waits   *)
(* for one that does not come.                                                *)
EXTENDS RoomChat, TLC

TwoAndNone == ("a" :> 2) @@ ("z" :> 0)
Two == "a" :> 2

Of(ds) == {<<"a", d>> : d \in ds}
Change == {<<None, "media">>}
\* The troubles of a link, some with a change of the media, and what the user
\* does about a message that failed.
Scenes ==
  {Of({d}) : d \in {"error", "throw", "drop", "again", "flood", "leave"}}
    \cup {Of({"cross"}) \cup Change, Of({"early", "giveup"}), Of({"retry"}) \cup {<<None, "rejoin">>}}
Replacement == {Of({"error"})}

=============================================================================
