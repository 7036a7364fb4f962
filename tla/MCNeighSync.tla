---------------------------- MODULE MCNeighSync ----------------------------
(* Instances of NeighSync for TLC. *)
EXTENDS NeighSync

\* A station that takes two addresses, by ARP on a VLAN.
ArpMoves == [family : {"arp"}, itf : {"vlan"}, mac : {Mac}, event : {{"learn", "age"}, {"age", "reply", "po"}}]

\* A station with one address, on every interface, with neighbours that stay.
Stays ==
    [family : Family, itf : {"vlan"}, mac : {{"m1"}}, event : {{"learn", "reply", "po"}}]
    \cup [family : Family, itf : {"po"}, mac : {{"m1"}}, event : {{"learn", "reply"}}]

\* A station with one address, by ND on a VLAN, whose entry ages.
NdAges == [family : {"ndisc"}, itf : {"vlan"}, mac : {{"m1"}}, event : {{"learn", "age", "po"}}]

\* A station with one address on a port channel that goes up and down.
PortChannel ==
    [family : Family, itf : {"po"}, mac : {{"m1"}}, event : {{"learn", "age", "po"}, {"learn", "reply", "po"}}]

Neighbours == ArpMoves \cup Stays \cup NdAges \cup PortChannel
=============================================================================
