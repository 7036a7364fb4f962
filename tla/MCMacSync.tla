---------------------------- MODULE MCMacSync ----------------------------
(***************************************************************************)
(* Instances of MacSync for TLC.                                            *)
(***************************************************************************)
EXTENDS MacSync

OwnPort == [n \in Node |-> IF n = Lo THEN "eth0" ELSE "eth1"]
SamePort == [n \in Node |-> "eth0"]

Scenario(orphan, seen, event, maxEvent, maxDrop) ==
    [orphan |-> orphan, seen |-> seen, event |-> event, maxEvent |-> maxEvent, maxDrop |-> maxDrop]

\* A station on the port channel that both learn, while the peer link flaps; the
\* same while the port channel flaps too; a station on a port of one peer; a
\* station that moves between the port channel and ports of the same name, or
\* of different names; and late learning and the timer for the first and the third.
StationScenes ==
    {Scenario(OwnPort, {"po"}, {"learn", "age", "peerlink"}, 6, 2),
     Scenario(OwnPort, {"po"}, {"learn", "age", "po", "peerlink"}, 6, 1),
     Scenario(OwnPort, {"eth0"}, Kind \ {"peerlink"}, 5, 2),
     Scenario(SamePort, {"po", "eth0"}, Kind \ {"late", "timer"}, 4, 1),
     Scenario(OwnPort, {"eth0", "eth1", "po"}, Kind \ {"late", "timer", "orphan"}, 4, 1),
     Scenario(OwnPort, {"po"}, Kind, 4, 1),
     Scenario(SamePort, {"po", "eth0"}, Kind, 4, 1)}

LearnAge == {Scenario(OwnPort, {"po"}, {"learn", "age"}, 3, 1)}
=============================================================================
