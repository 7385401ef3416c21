---------------------------- MODULE MCMediaPath ----------------------------
EXTENDS MediaPath, TLC
CONSTANTS a, b
Devices == [k \in Kind |-> IF k = "audio" THEN {1} ELSE {1, 2}]
N(names) == names \X {None}
Together ==
  { N({"share", "stop", "fail"}) \cup {<<"moderate", "video">>, <<"comes", b>>},
    N({"share", "end screen", "leave"}) \cup {<<"replaced", a>>},
    N({"share", "leave"}) \cup {<<"select", "audio">>, <<"replaced", a>>},
    N({"fail", "refuse"}) \cup {<<"select", "video">>, <<"moderate", "video">>, <<"toggle", "video">>,
                            <<"goes", b>>},
    N({"share", "share again", "stop"}) \cup {<<"end input", "video">>},
    N({"share", "stop", "drop"}),
    N({"fail", "fail again"}) \cup {<<"select", "audio">>, <<"moderate", "audio">>,
                                  <<"replaced", b>>, <<"end input", "audio">>},
    N({"share", "refuse"}) \cup {<<"toggle", "audio">>, <<"toggle back", "audio">>} }

=============================================================================
