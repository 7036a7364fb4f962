------------------------------- MODULE NeighSync -------------------------------
(***************************************************************************)
(* The neighbour tables (ARP and ND) of two iccpd peers.  A daemon learns a *)
(* neighbour from the notifications of its kernel or from a reply packet,   *)
(* keeps it in arp_list or ndisc_list and tells its peer, which programs it *)
(* into its own kernel, whose notification of that change comes back to the *)
(* daemon like any other.                                                   *)
(*                                                                          *)
(* Entries of different addresses do not interact: the module follows one   *)
(* address that is neither peer's own, on one interface both have.  The     *)
(* session is as in MacSync, with the sync stages, in which neighbours      *)
(* learned before the session are announced.                                *)
(***************************************************************************)
EXTENDS Integers, Sequences, FiniteSets

CONSTANTS
    Lo, Hi,     \* the two daemons; Lo is ACTIVE, Hi is STANDBY
    Mac,        \* MAC addresses of the station with this address
    Scene,      \* the scenarios: the kind of neighbour, its interface, the MAC
                \* addresses it takes and the local events
    MaxEvent,   \* bound on local events
    MaxDrop     \* bound on session losses

Node == {Lo, Hi}
Peer(n) == IF n = Lo THEN Hi ELSE Lo

Family == {"arp", "ndisc"}

\* "vlan": a VLAN with an address that has the peer link and the MLAG port
\* channel as members; "po": the port channel itself has the address.
Itf == {"vlan", "po"}
Kind == {"learn", "age", "reply", "po"}

ASSUME NeighAssumption ==
    /\ Lo # Hi
    /\ "none" \notin Mac
    /\ Scene \subseteq [family : Family, itf : Itf, mac : SUBSET Mac, event : SUBSET Kind]
    /\ MaxEvent \in Nat /\ MaxDrop \in Nat

\* struct ARPMsg, struct NDISCMsg in the list.  op is op_type: LIF, learned
\* here since the last synchronisation, or ADD.
Entry == [mac : Mac, op : {"LIF", "ADD"}]
NoEntry == [mac |-> "none", op |-> "ADD"]

Update == [op : {"ADD"}, mac : Mac] \cup [op : {"DEL"}, mac : {"none"}]
Msg == [type : {"NEIGH"}, update : Update]
       \cup [type : {"STATE"}, up : BOOLEAN]
       \cup [type : {"DONE"}]

VARIABLES
    daemon,  \* per node, see Daemon
    open,    \* per node: it has a session
    wire,    \* per node: messages on their way to it
    scene,   \* the scenario
    events, drops

vars == <<daemon, open, wire, scene, events, drops>>

\* state: MLACP(csm).current_state.  po: the port channel is up.  pif: the peer's
\* port channel as far as known.  changed: its own state is to be sent.  linkEx:
\* its mlacp_state is EXCHANGE.  list: the entry of arp_list or ndisc_list.  q:
\* arp_msg_list or ndisc_msg_list.  kernel: the kernel's neighbour, nl: its
\* notifications not yet read.  out: messages written in this pass.
Daemon ==
    [state : {"INIT", "STAGE1", "STAGE2", "EXCHANGE"}, po : BOOLEAN, pif : {"none", "up", "down"},
     changed : BOOLEAN, linkEx : BOOLEAN, list : Entry \cup {NoEntry}, q : Seq(Update),
     kernel : Mac \cup {"none"}, nl : Seq(Update), out : Seq(Msg)]

Listed(s) == s.list # NoEntry
Exchanging(s) == s.state = "EXCHANGE"
PifState(up) == IF up THEN "up" ELSE "down"
Add(mac) == [op |-> "ADD", mac |-> mac]
Del == [op |-> "DEL", mac |-> "none"]
-----------------------------------------------------------------------------
\* The kernel.

\* The kernel's own resolution or confirmation of the neighbour is notified.
KernelResolve(s, mac) == [s EXCEPT !.kernel = mac, !.nl = Append(@, Add(mac))]

\* iccp_netlink_neighbor_request(add): RTM_NEWNEIGH with NLM_F_REPLACE
KernelSet(s, mac) == IF s.kernel = mac THEN s ELSE KernelResolve(s, mac)

\* RTM_DELNEIGH
KernelDel(s) ==
    IF s.kernel = "none" THEN s ELSE [s EXCEPT !.kernel = "none", !.nl = Append(@, Del)]
-----------------------------------------------------------------------------
\* The handlers of the daemon.

Enqueue(s, u) == IF Exchanging(s) THEN [s EXCEPT !.q = Append(@, u)] ELSE s

Forget(s) == IF Listed(s) THEN Enqueue([s EXCEPT !.list = NoEntry], Del) ELSE s
Learn(s, u) == Enqueue([s EXCEPT !.list = [mac |-> u.mac, op |-> "LIF"]], u)

\* A LearnArp that takes an entry marked LIF for up to date.
LearnArpOpOnly(s, u) ==
    CASE u.op = "DEL" -> Forget(s)
      [] u.op = "ADD" /\ Listed(s) /\ s.list.op = "LIF" -> s
      [] OTHER -> Learn(s, u)

\* do_arp_learn_from_kernel
LearnArp(s, u) ==
    CASE u.op = "DEL" -> Forget(s)
      [] u.op = "ADD" /\ Listed(s) /\ s.list.op = "LIF" /\ s.list.mac = u.mac -> s
      [] OTHER -> Learn(s, u)

\* do_ndisc_learn_from_kernel compares the entry with itself, and so never
\* updates one.
LearnNdisc(s, u) ==
    CASE u.op = "DEL" -> Forget(s)
      [] u.op = "ADD" /\ Listed(s) -> s
      [] OTHER -> Learn(s, u)

\* do_one_neigh_request
LearnFromKernel(s, u) == IF scene.family = "arp" THEN LearnArp(s, u) ELSE LearnNdisc(s, u)

\* do_arp_update_from_reply_packet, do_ndisc_update_from_reply_packet: the
\* second programs the kernel, the first finds it done.
UpdateFromReply(s, mac) ==
    Enqueue(KernelSet([s EXCEPT !.list = [mac |-> mac, op |-> "LIF"]], mac), Add(mac))

\* arp_set_handler(1), ndisc_set_handler(1)
SetNeigh(s) == IF Exchanging(s) /\ Listed(s) THEN KernelSet(s, s.list.mac) ELSE s

\* arp_set_handler(0), ndisc_set_handler(0): the second one adds
UnsetNeigh(s) ==
    IF ~Listed(s) THEN s
    ELSE IF scene.family = "arp" THEN KernelDel(s) ELSE KernelSet(s, s.list.mac)

\* set_l3_itf_state: on a VLAN a neighbour is left to age.
RouteAdd(s) == IF scene.itf = "po" THEN UnsetNeigh(s) ELSE s
RouteDel(s) == SetNeigh(s)

\* update_l2_po_state, update_l3_po_state and update_po_if_info on a change
PoState(s, up) ==
    LET k == IF up THEN RouteDel(s)
             ELSE IF Exchanging(s) /\ s.pif = "up" THEN RouteAdd(s) ELSE s
    IN  [k EXCEPT !.po = up, !.changed = TRUE, !.linkEx = Exchanging(s)]

\* A SynInfo that only marks the entry.
SynInfoMarkOnly(s) == IF Listed(s) THEN [s EXCEPT !.list.op = "ADD"] ELSE s

\* syn_arp_info_to_peer, syn_ndisc_info_to_peer; also mlacp_resync_arp and
\* mlacp_resync_ndisc
SynInfo(s) ==
    IF Listed(s) THEN [s EXCEPT !.list.op = "ADD", !.q = Append(@, Add(s.list.mac))] ELSE s

\* update_stp_peer_link, and the new state is stored
PeerLink(s, up) ==
    LET k == CASE s.pif = PifState(up) -> s
               [] s.pif # PifState(up) /\ up /\ ~s.po -> RouteAdd(s)
               [] s.pif # PifState(up) /\ ~up /\ ~s.po -> RouteDel(s)
               [] s.pif # PifState(up) /\ up /\ s.po -> SynInfo(s)
               [] OTHER -> s
    IN  [k EXCEPT !.pif = PifState(up)]

\* The daemon may program the neighbour: on a VLAN the peer link is a member.
Alive(s) == scene.itf = "vlan" \/ s.po

Program(s, u) ==
    CASE ~Alive(s) -> s
      [] Alive(s) /\ u.op = "ADD" -> KernelSet(s, u.mac)
      [] Alive(s) /\ u.op = "DEL" -> KernelDel(s)

Stored(s, u) == [mac |-> u.mac, op |-> IF Listed(s) THEN s.list.op ELSE "ADD"]

\* A PeerUpdate that announces what it stores.
PeerUpdateEchoes(s, u) ==
    IF u.op = "DEL" /\ Alive(s) /\ s.kernel = "none" THEN s
    ELSE [Program(s, u) EXCEPT !.list = IF u.op = "DEL" THEN NoEntry ELSE Stored(s, u), !.q = <<u>>]

\* mlacp_fsm_update_arp_entry, mlacp_fsm_update_ndisc_entry.  If the kernel has
\* no neighbour to delete the handler ends with an error.
PeerUpdate(s, u) ==
    IF u.op = "DEL" /\ Alive(s) /\ s.kernel = "none" THEN s
    ELSE [Program(s, u) EXCEPT !.list = IF u.op = "DEL" THEN NoEntry ELSE Stored(s, u), !.q = <<>>]

\* mlacp_peer_conn_handler: the port channel's state is looked at again.
EnterExchange(s) ==
    LET k == [s EXCEPT !.state = "EXCHANGE"]
    IN  [(IF scene.itf = "po" /\ ~s.linkEx /\ ~s.po /\ s.pif = "up" THEN RouteAdd(k) ELSE k)
           EXCEPT !.linkEx = TRUE]

\* mlacp_sync_send_syncArpInfo, mlacp_sync_send_syncNdiscInfo
SendNeigh(s) ==
    [s EXCEPT !.q = <<>>, !.out = @ \o [i \in DOMAIN s.q |-> [type |-> "NEIGH", update |-> s.q[i]]]]

\* mlacp_exchange_handler
ExchangeSend(s) ==
    SendNeigh([s EXCEPT !.changed = FALSE,
                        !.out = IF s.changed THEN Append(@, [type |-> "STATE", up |-> s.po]) ELSE @])
-----------------------------------------------------------------------------
Init ==
    /\ \E po \in [Node -> BOOLEAN] :
         daemon = [n \in Node |-> [state |-> "INIT", po |-> po[n], pif |-> "none", changed |-> FALSE,
                                   linkEx |-> FALSE, list |-> NoEntry, q |-> <<>>, kernel |-> "none",
                                   nl |-> <<>>, out |-> <<>>]]
    /\ open = [n \in Node |-> FALSE]
    /\ wire = [n \in Node |-> <<>>]
    /\ scene \in Scene
    /\ events = 0 /\ drops = 0

\* The session is up, and mlacp_fsm_transit leaves INIT.
Connect ==
    /\ \A n \in Node : ~open[n]
    /\ open' = [n \in Node |-> TRUE]
    /\ wire' = [n \in Node |-> <<>>]
    /\ daemon' = [n \in Node |-> SynInfo([daemon[n] EXCEPT !.state = "STAGE1"])]
    /\ UNCHANGED <<events, drops>>

Step(n, s, rest) ==
    /\ daemon' = [daemon EXCEPT ![n] = [s EXCEPT !.out = <<>>]]
    /\ wire' = [wire EXCEPT ![n] = rest, ![Peer(n)] = IF open[Peer(n)] THEN @ \o s.out ELSE @]

\* mlacp_sync_send_all_info_handler, on the peer's request: the ACTIVE node
\* sends in STAGE1, the STANDBY node in STAGE2.
AllInfo(n) ==
    /\ open[n] /\ daemon[n].state = IF n = Lo THEN "STAGE1" ELSE "STAGE2"
    /\ LET s == SendNeigh([daemon[n] EXCEPT !.changed = FALSE,
                                            !.out = <<[type |-> "STATE", up |-> daemon[n].po]>>])
           k == [s EXCEPT !.out = Append(@, [type |-> "DONE"])]
       IN  Step(n, IF n = Lo THEN [k EXCEPT !.state = "STAGE2"] ELSE EnterExchange(k), wire[n])
    /\ UNCHANGED <<open, events, drops>>

Send(n) ==
    /\ open[n] /\ Exchanging(daemon[n]) /\ (daemon[n].changed \/ daemon[n].q # <<>>)
    /\ Step(n, ExchangeSend(daemon[n]), wire[n])
    /\ UNCHANGED <<open, events, drops>>

Receive(n, s, m) ==
    CASE m.type = "DONE" -> IF n = Hi THEN [s EXCEPT !.state = "STAGE2"] ELSE EnterExchange(s)
      [] m.type = "STATE" -> PeerLink(s, m.up)
      [] m.type = "NEIGH" -> PeerUpdate(s, m.update)

\* A message is handled; in EXCHANGE the pass sends what there is to send.
Handle(n) ==
    /\ open[n] /\ wire[n] # <<>>
    /\ \E s \in {Receive(n, daemon[n], Head(wire[n]))} :
         Step(n, IF Exchanging(s) THEN ExchangeSend(s) ELSE s, Tail(wire[n]))
    /\ UNCHANGED <<open, events, drops>>

\* scheduler_session_disconnect_handler with mlacp_init: the lists are kept.
Disconnect(n) ==
    /\ daemon' = [daemon EXCEPT ![n] = [@ EXCEPT !.state = "INIT", !.pif = "none", !.q = <<>>]]
    /\ open' = [open EXCEPT ![n] = FALSE]
    /\ wire' = [wire EXCEPT ![n] = <<>>]

Lose(n) ==
    /\ open[n] /\ drops < MaxDrop
    /\ Disconnect(n)
    /\ drops' = drops + 1
    /\ UNCHANGED events

Eof(n) ==
    /\ open[n] /\ ~open[Peer(n)] /\ wire[n] = <<>>
    /\ Disconnect(n)
    /\ UNCHANGED <<events, drops>>

\* do_one_neigh_request on the next notification
Notification(n) ==
    /\ daemon[n].nl # <<>>
    /\ LET s == daemon[n]
       IN  daemon' = [daemon EXCEPT ![n] = LearnFromKernel([s EXCEPT !.nl = Tail(s.nl)], Head(s.nl))]
    /\ UNCHANGED <<open, wire, events, drops>>

Local(n, kind, s) ==
    /\ kind \in scene.event /\ events < MaxEvent
    /\ daemon' = [daemon EXCEPT ![n] = s]
    /\ events' = events + 1
    /\ UNCHANGED <<open, wire, drops>>

\* A station answers on a port channel that is up.
KernelLearn(n) ==
    /\ Alive(daemon[n])
    /\ \E mac \in scene.mac : Local(n, "learn", KernelResolve(daemon[n], mac))

KernelAge(n) == daemon[n].kernel # "none" /\ Local(n, "age", KernelDel(daemon[n]))

\* The daemon reads a reply the kernel has processed, too.
ReplyPacket(n) ==
    /\ Alive(daemon[n])
    /\ \E mac \in scene.mac : Local(n, "reply", UpdateFromReply(KernelResolve(daemon[n], mac), mac))

\* The port channel comes up or goes down.
PoChange(n) == Local(n, "po", PoState(daemon[n], ~daemon[n].po))

Next ==
    /\ scene' = scene
    /\ \/ Connect
       \/ \E n \in Node :
            \/ AllInfo(n) \/ Send(n) \/ Handle(n) \/ Lose(n) \/ Eof(n) \/ Notification(n)
            \/ KernelLearn(n) \/ KernelAge(n) \/ ReplyPacket(n) \/ PoChange(n)

Spec == Init /\ [][Next]_vars

FairSpec ==
    /\ Spec
    /\ WF_vars(scene' = scene /\ Connect)
    /\ \A n \in Node : WF_vars(scene' = scene /\ (AllInfo(n) \/ Send(n) \/ Handle(n) \/ Eof(n)))
    /\ \A n \in Node : WF_vars(scene' = scene /\ Notification(n))
-----------------------------------------------------------------------------
TypeOK ==
    /\ daemon \in [Node -> Daemon]
    /\ open \in [Node -> BOOLEAN]
    /\ wire \in [Node -> Seq(Msg)]
    /\ scene \in Scene
    /\ events \in 0..MaxEvent /\ drops \in 0..MaxDrop

\* The station keeps its MAC address.
OneMac == \A a, b \in scene.mac : a = b

\* Neighbours stay: none ages, and no port channel with an address changes its
\* state, which takes the ARP entries out of the kernel.
Kept ==
    /\ "age" \notin scene.event
    /\ scene.family = "arp" /\ scene.itf = "po" => "po" \notin scene.event

\* A daemon that has read the notifications of its kernel has in its list the
\* neighbour its kernel has, whatever the peer announced or withdrew meanwhile: the
\* list is what is announced to the peer, and what is programmed again.  On a VLAN:
\* on a port channel the kernel has no neighbours while it is down.  By ND, for a
\* station that keeps its address: the ND list is not updated with a new one.
ListMatchesKernel ==
    scene.itf = "vlan" /\ (scene.family = "ndisc" => OneMac) =>
        \A n \in Node : daemon[n].nl = <<>> => daemon[n].list.mac = daemon[n].kernel

\* In session, with nothing left to send, to handle or to read.
Quiescent ==
    \A n \in Node :
        /\ open[n] /\ Exchanging(daemon[n]) /\ ~daemon[n].changed
        /\ wire[n] = <<>> /\ daemon[n].q = <<>> /\ daemon[n].nl = <<>>

\* Once everything is exchanged, an entry marked ADD, which mlacp_resync_arp and
\* syn_arp_info_to_peer have announced or which came from the peer, is in the list
\* of the peer, whichever sessions were lost.  Where neighbours do not stay, one that
\* goes in a sync stage is not withdrawn.
AnnouncedIsKnown ==
    Kept /\ Quiescent =>
        \A n \in Node : Listed(daemon[n]) /\ daemon[n].list.op = "ADD" => Listed(daemon[Peer(n)])

\* The two daemons come to rest: a neighbour programmed for the peer is notified by
\* the kernel, announced back and programmed there, and that ends.  For a station
\* that keeps its MAC address and neighbours that do not age.
EchoStops ==
    Cardinality(scene.mac) = 1 /\ "age" \notin scene.event => <>[]Quiescent
=============================================================================
