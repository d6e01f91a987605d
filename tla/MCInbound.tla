----------------------------- MODULE MCInbound -----------------------------
(* Small instances of Inbound.                                               *)
EXTENDS Inbound

CONSTANTS m1, m2

Direct(sender, body) ==
    [chat |-> "p2p", root |-> None, inThread |-> FALSE, sender |-> sender, trigger |-> "none",
     body |-> body, files |-> "none"]
InGroup(chat, root, inThread, sender, trigger, body) ==
    [chat |-> chat, root |-> root, inThread |-> inThread, sender |-> sender, trigger |-> trigger,
     body |-> body, files |-> "none"]

(* Two messages of one sender with the same text; two members of a group who *)
(* write the same; a command that opens a topic and a bare mention that      *)
(* replies to it, perhaps with the parent's picture, where events name the   *)
(* thread or do not.                                                         *)
Twins == [m \in Msg |-> Direct("u", "text")]
Neighbours ==
    [m \in Msg |-> IF m = m1 THEN InGroup("group", None, FALSE, "u", "mention", "text")
                   ELSE InGroup("group", None, FALSE, "v", "reply", "text")]
Topic(inThread) ==
    [m \in Msg |-> IF m = m1 THEN InGroup("topic", None, inThread, "u", "mention", "command")
                   ELSE InGroup("topic", m1, inThread, "u", "mention", "empty")]

MCScenarios ==
    [shape : {Twins}, faults : {{"day"}, {"crash"}}]
    \cup [shape : {Neighbours}, faults : {{"stall"}, {"unlocked"}, {"write"}, {"crash"}}]
    \cup [shape : {Topic(FALSE)}, faults : {{"mode"}, {"stop"}, {"lost"}, {"unshown"}}]
    \cup [shape : {Topic(TRUE)}, faults : {{"mode"}}]
=============================================================================
