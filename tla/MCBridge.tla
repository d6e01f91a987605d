------------------------------ MODULE MCBridge ------------------------------
(* Small instances of Bridge: two conversations of the gateway, with a job   *)
(* of long results and one of posts, and a session of another Pi process.    *)
EXTENDS Bridge

CONSTANTS chat, room, other, gate, pi, j1, j2

MCHost == [s \in Session |-> IF s = other THEN pi ELSE gate]
MCHome == [j \in Job |-> IF j = j1 THEN chat ELSE room]
MCWhere == [j \in Job |-> IF j = j1 THEN {chat, other} ELSE {other}]
MCMode == [j \in Job |-> IF j = j1 THEN "interactive" ELSE "post"]

(* One thing goes wrong in a behaviour.                                      *)
MCScenarios ==
    {{"overlap"}, {"extra"}, {"silent"}, {"race"}, {"crash"}, {"write"}, {"lost"}, {"failed"}}
=============================================================================
