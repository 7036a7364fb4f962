------------------------------- MODULE MacSync -------------------------------
(***************************************************************************)
(* The MAC table of two iccpd peers: how a MAC address learned, aged, moved *)
(* or redirected on one is kept in step on the other, and the life of its   *)
(* entry (struct MACMsg), which is in the tree mac_rb, in the list          *)
(* mac_msg_list of updates for the peer, in both, or freed.                 *)
(*                                                                          *)
(* Entries of different addresses do not interact: the module follows one   *)
(* dynamic address.  It may be learned on the MLAG port channel "po", which *)
(* both peers have, or on a port of one peer only; a peer link "pl" is      *)
(* configured.  The session is as in MclagLink: FIFO streams while both     *)
(* ends have a connection.  The STANDBY node enters EXCHANGE when it has    *)
(* sent its data, the ACTIVE one when it has read them.                     *)
(***************************************************************************)
EXTENDS Integers, Sequences, FiniteSets

CONSTANTS
    Lo, Hi,     \* the two daemons; Lo is ACTIVE, Hi is STANDBY
    OrphanPort, \* names of ports that are no MLAG interfaces
    Scene       \* the scenarios: the port of each node that is no MLAG interface,
                \* the ports a station may be seen on, the kinds of local events,
                \* and the bounds on these events and on session losses

Node == {Lo, Hi}
Peer(n) == IF n = Lo THEN Hi ELSE Lo

Kind == {"learn", "late", "age", "po", "peerlink", "orphan", "timer"}

ASSUME MacAssumption ==
    /\ Lo # Hi
    /\ OrphanPort \subseteq STRING \ {"po", "pl"}
    /\ Scene \subseteq [orphan : [Node -> OrphanPort], seen : SUBSET ({"po"} \cup OrphanPort),
                       event : SUBSET Kind, maxEvent : Nat, maxDrop : Nat]

Learned == {"po"} \cup OrphanPort

\* struct MACMsg in the tree; age is age_flag: LOCAL, aged here, PEER, aged by
\* the peer.  op is the operation of the next update.
MacMsg == [port : Learned \cup {"pl"}, origin : Learned, age : SUBSET {"LOCAL", "PEER"},
           pending : BOOLEAN, op : {"ADD", "DEL", "NONE"}]
NoMac == [port |-> "none"]
Both == {"LOCAL", "PEER"}

\* An element of mac_msg_list is the entry of the tree, or one that was
\* removed from the tree while queued.
TreeEntry == [own |-> TRUE]
Queued == {TreeEntry} \cup [own : {FALSE}, op : {"ADD", "DEL", "NONE"}, origin : Learned]

Msg == [type : {"MAC"}, op : {"ADD", "DEL", "NONE"}, origin : Learned]
       \cup [type : {"STATE"}, up : BOOLEAN]
       \cup [type : {"DONE"}]

VARIABLES
    daemon,  \* per node, see Daemon
    open,    \* per node: it has a session
    wire,    \* per node: messages on their way to it
    scene,   \* the scenario
    events, drops

vars == <<daemon, open, wire, scene, events, drops>>

\* ex: MLACP(csm) is in EXCHANGE.  po, pl: the port channel, the peer link is
\* up.  pif: the peer's port channel as far as known.  changed: its own state
\* is to be sent.  timer: po_down_time is set.  mac: the entry in mac_rb.
\* q: mac_msg_list.  out: messages written in this pass.  dangling: the
\* entry in the tree was freed.
Daemon == [ex : BOOLEAN, po : BOOLEAN, pl : BOOLEAN, pif : {"none", "up", "down"}, changed : BOOLEAN,
           timer : BOOLEAN, mac : MacMsg \cup {NoMac}, q : Seq(Queued), out : Seq(Msg),
           dangling : BOOLEAN]

Known(s) == s.mac # NoMac
InMsgList(s) == \E i \in DOMAIN s.q : s.q[i] = TreeEntry
PifState(up) == IF up THEN "up" ELSE "down"
-----------------------------------------------------------------------------
\* The operations on the entry that the handlers share.

\* mutant: the entry is linked into the list again
EnqueueAlways(s, op) == [s EXCEPT !.mac.op = op, !.q = Append(@, TreeEntry)]

\* mark the entry with op and put it on mac_msg_list unless it is there
Enqueue(s, op) ==
    [s EXCEPT !.mac.op = op, !.q = IF InMsgList(s) THEN @ ELSE Append(@, TreeEntry)]

\* mutant: the peer is not told
SetLocalAgeSilent(s) == [s EXCEPT !.mac.age = @ \cup {"LOCAL"}]

\* set_mac_local_age_flag(csm, mac_msg, 1, 1)
SetLocalAge(s) ==
    LET k == [s EXCEPT !.mac.age = @ \cup {"LOCAL"}]
    IN  IF "LOCAL" \notin s.mac.age /\ s.ex THEN Enqueue(k, "DEL") ELSE k

\* set_mac_local_age_flag(csm, mac_msg, 0, 1)
ClearLocalAge(s) ==
    LET k == [s EXCEPT !.mac.age = @ \ {"LOCAL"}]
    IN  IF "LOCAL" \in s.mac.age /\ s.ex THEN Enqueue(k, "ADD") ELSE k

\* MAC_RB_REMOVE, and free only if not in the list of updates
RbRemove(s, op) ==
    [s EXCEPT !.mac = NoMac,
              !.q = [i \in DOMAIN @ |-> IF @[i] = TreeEntry
                                        THEN [own |-> FALSE, op |-> op, origin |-> s.mac.origin]
                                        ELSE @[i]]]

RemoveIfAged(s) == IF s.mac.age = Both THEN RbRemove(s, s.mac.op) ELSE s

\* mutant: the entry stays on its port
RemoveOrKeep(s) == IF s.mac.age = Both THEN RbRemove(s, s.mac.op) ELSE s

\* RemoveIfAged, and otherwise the entry points to the peer link
RemoveOrRedirect(s) ==
    IF s.mac.age = Both THEN RbRemove(s, s.mac.op) ELSE [s EXCEPT !.mac.port = "pl"]
-----------------------------------------------------------------------------
\* do_mac_update_from_syncd: the switch learned the address on port.
SyncdAdd(s, port) ==
    LET down == port = "po" /\ ~s.po
        new == [port |-> port, origin |-> port, age |-> {"PEER"}, pending |-> FALSE, op |-> "ADD"]
    IN  CASE Known(s) /\ down /\ s.pif = "up" ->
               [s EXCEPT !.mac.pending = TRUE, !.mac.origin = port, !.mac.port = "pl"]
          [] Known(s) /\ ~(down /\ s.pif = "up") /\ (s.mac.port # port \/ s.mac.origin # port) ->
               LET k == ClearLocalAge([s EXCEPT !.mac.port = port, !.mac.origin = port])
               IN  [k EXCEPT !.mac.age = {"PEER"}]
          [] Known(s) /\ ~(down /\ s.pif = "up") /\ s.mac.port = port /\ s.mac.origin = port ->
               ClearLocalAge(s)
          [] ~Known(s) /\ down /\ s.pif = "down" -> s
          [] ~Known(s) /\ down /\ s.pif # "down" -> [s EXCEPT !.mac = new]
          [] OTHER -> [s EXCEPT !.mac = new, !.q = IF s.ex THEN Append(@, TreeEntry) ELSE @]

\* do_mac_update_from_syncd: the switch aged the address on port.
SyncdDel(s, port) ==
    CASE ~Known(s) -> s
      [] Known(s) /\ s.mac.port = "pl" /\ s.mac.pending -> s
      [] Known(s) /\ s.mac.port = "pl" /\ ~s.mac.pending -> RemoveIfAged(SetLocalAge(s))
      [] OTHER -> IF port = "po" /\ ~s.po THEN RemoveOrRedirect(SetLocalAge(s))
                                          ELSE RemoveIfAged(SetLocalAge(s))

\* update_l2_mac_state(0): the port channel went down.
L2MacDown(s) ==
    LET k == [s EXCEPT !.timer = TRUE]
    IN  CASE ~Known(s) \/ s.mac.origin # "po" -> k
          [] Known(s) /\ s.mac.origin = "po" /\ s.mac.age = {"PEER"} /\ s.pif = "up" ->
               [k EXCEPT !.mac.port = "pl", !.mac.pending = TRUE]
          [] OTHER -> RemoveOrRedirect(SetLocalAge(k))

\* mutant: a redirected entry is not taken back
L2MacUpStay(s) == [s EXCEPT !.timer = FALSE]

\* update_l2_mac_state(1): the port channel came up.
L2MacUp(s) ==
    LET k == [s EXCEPT !.timer = FALSE]
    IN  CASE ~Known(s) \/ s.mac.origin # "po" -> k
          [] Known(s) /\ s.mac.origin = "po" /\ s.mac.port = "pl" ->
               [k EXCEPT !.mac.port = "po", !.mac.pending = FALSE]
          [] OTHER -> IF s.mac.pending THEN RbRemove(k, "DEL") ELSE k

L2MacState(s) == IF s.po THEN L2MacUp(s) ELSE L2MacDown(s)

\* mlacp_convert_remote_mac_to_local: the peer's port channel went down.
ConvertRemote(s) ==
    IF s.po /\ Known(s) /\ s.mac.origin = "po" /\ s.mac.age = {"LOCAL"}
    THEN Enqueue([s EXCEPT !.mac.age = {"PEER"}], "ADD")
    ELSE s

\* mlacp_local_lif_clear_pending_mac, and po_down_time is reset
ClearPending(s) ==
    LET k == [s EXCEPT !.timer = FALSE]
    IN  IF Known(s) /\ s.mac.pending /\ s.mac.origin = "po" THEN RbRemove(k, "DEL") ELSE k

\* mlacp_peerlink_down_handler
PeerLinkDown(s) ==
    IF Known(s) /\ s.mac.port = "pl"
    THEN RemoveIfAged(IF s.mac.pending THEN s ELSE SetLocalAge(s))
    ELSE s

\* update_orphan_port_mac
OrphanUp(s, port) ==
    IF Known(s) /\ s.mac.origin = port /\ s.mac.age = {"PEER"} /\ s.ex THEN Enqueue(s, "ADD") ELSE s

\* The peer has the address: it is not aged there, and an entry that waits for
\* the port channel is handed over to the peer.
ClearPeerAge(s, origin) ==
    LET k == [s EXCEPT !.mac.age = @ \ {"PEER"}]
    IN  IF origin = "po" /\ s.mac.pending
        THEN Enqueue([k EXCEPT !.mac.pending = FALSE, !.mac.age = {"LOCAL"}], "DEL")
        ELSE k

\* mlacp_fsm_update_mac_entry_from_peer, MAC_SYNC_ADD
PeerAdd(s, origin) ==
    LET usable == origin = "po" /\ s.po
        b == ClearPeerAge(s, origin)
        moved == [b EXCEPT !.mac.origin = origin]
    IN  CASE ~Known(s) ->
               [s EXCEPT !.mac = [port |-> IF usable THEN "po" ELSE "pl", origin |-> origin,
                                  age |-> {"LOCAL"}, pending |-> FALSE, op |-> "NONE"]]
          [] Known(s) /\ (s.mac.port # origin \/ s.mac.origin # origin) ->
               IF usable THEN [moved EXCEPT !.mac.port = origin]
                         ELSE [SetLocalAge(moved) EXCEPT !.mac.port = "pl"]
          [] OTHER -> IF origin = "po" THEN b ELSE [b EXCEPT !.mac.port = "pl"]

\* mutant: an entry aged on both sides is kept
PeerDelKeep(s) == IF Known(s) THEN [s EXCEPT !.mac.age = @ \cup {"PEER"}] ELSE s

\* mlacp_fsm_update_mac_entry_from_peer, MAC_SYNC_DEL
PeerDel(s) ==
    IF Known(s) THEN RemoveIfAged([s EXCEPT !.mac.age = @ \cup {"PEER"}]) ELSE s

\* mutant: what was learned before the session is not announced
EnterExchangeUnsynced(s) == L2MacState([s EXCEPT !.ex = TRUE])

\* mlacp_sync_mac and mlacp_portchannel_state_handler, on entering EXCHANGE.
EnterExchange(s) ==
    LET k == [s EXCEPT !.ex = TRUE]
    IN  L2MacState(IF Known(s) /\ "LOCAL" \notin s.mac.age THEN Enqueue(k, "ADD") ELSE k)

\* mlacp_peer_disconn_fdb_handler
PeerDisconnFdb(s) ==
    IF ~Known(s) THEN s
    ELSE IF s.mac.port = "pl"
         THEN LET k == [s EXCEPT !.mac.age = @ \cup {"PEER"}]
              IN  IF k.mac.age = Both \/ k.mac.pending THEN RbRemove(k, k.mac.op) ELSE k
         ELSE [s EXCEPT !.mac.age = {"PEER"}]

\* mlacp_mac_msg_queue_reinit: an element marked for deletion is freed.
QueueReinit(s) ==
    [s EXCEPT !.q = <<>>,
              !.dangling = @ \/ (InMsgList(s) /\ s.mac.op = "DEL")]

\* mlacp_sync_send_syncMacInfo; it frees what is no longer in the tree.
SendMacInfo(s) ==
    [s EXCEPT !.q = <<>>,
              !.out = @ \o [i \in DOMAIN s.q |->
                              IF s.q[i].own THEN [type |-> "MAC", op |-> s.mac.op, origin |-> s.mac.origin]
                                            ELSE [type |-> "MAC", op |-> s.q[i].op, origin |-> s.q[i].origin]]]
-----------------------------------------------------------------------------
Init ==
    /\ \E po \in [Node -> BOOLEAN] :
         daemon = [n \in Node |-> [ex |-> FALSE, po |-> po[n], pl |-> TRUE, pif |-> "none", changed |-> FALSE,
                                   timer |-> FALSE, mac |-> NoMac, q |-> <<>>, out |-> <<>>,
                                   dangling |-> FALSE]]
    /\ open = [n \in Node |-> FALSE]
    /\ wire = [n \in Node |-> <<>>]
    /\ scene \in Scene
    /\ events = 0 /\ drops = 0

\* The sync stages up to the moment the STANDBY node has sent its data: both
\* know the peer's port channel.
Connect ==
    /\ \A n \in Node : ~open[n]
    /\ open' = [n \in Node |-> TRUE]
    /\ wire' = [n \in Node |-> IF n = Lo THEN <<[type |-> "DONE"]>> ELSE <<>>]
    /\ daemon' = [n \in Node |->
         LET k == [daemon[n] EXCEPT !.pif = PifState(daemon[Peer(n)].po), !.changed = FALSE]
         IN  IF n = Hi THEN EnterExchange(k) ELSE k]
    /\ UNCHANGED <<events, drops>>

\* One pass of mlacp_exchange_handler: the state of the port channel, then
\* the MAC updates.
ExchangeSend(s) ==
    SendMacInfo([s EXCEPT !.changed = FALSE,
                          !.out = IF s.changed THEN Append(@, [type |-> "STATE", up |-> s.po]) ELSE @])

Step(n, s, rest) ==
    /\ daemon' = [daemon EXCEPT ![n] = [s EXCEPT !.out = <<>>]]
    /\ wire' = [wire EXCEPT ![n] = rest, ![Peer(n)] = IF open[Peer(n)] THEN @ \o s.out ELSE @]

Send(n) ==
    /\ open[n] /\ daemon[n].ex /\ (daemon[n].changed \/ daemon[n].q # <<>>)
    /\ Step(n, ExchangeSend(daemon[n]), wire[n])
    /\ UNCHANGED <<open, events, drops>>

Receive(s, m) ==
    CASE m.type = "DONE" -> EnterExchange(s)
      [] m.type = "STATE" -> LET k == [s EXCEPT !.pif = PifState(m.up)]
                             IN  IF m.up THEN k ELSE ConvertRemote(k)
      [] m.type = "MAC" /\ m.op = "ADD" -> PeerAdd(s, m.origin)
      [] m.type = "MAC" /\ m.op = "DEL" -> PeerDel(s)
      [] OTHER -> s

\* A message is handled and the pass sends what there is to send.
Handle(n) ==
    /\ open[n] /\ wire[n] # <<>>
    /\ \E s \in {Receive(daemon[n], Head(wire[n]))} : Step(n, ExchangeSend(s), Tail(wire[n]))
    /\ UNCHANGED <<open, events, drops>>

\* scheduler_session_disconnect_handler with iccp_csm_status_reset
Disconnect(n) ==
    /\ daemon' = [daemon EXCEPT ![n] =
                    [QueueReinit(PeerDisconnFdb(@)) EXCEPT !.ex = FALSE, !.pif = "none"]]
    /\ open' = [open EXCEPT ![n] = FALSE]
    /\ wire' = [wire EXCEPT ![n] = <<>>]

Lose(n) ==
    /\ open[n] /\ drops < scene.maxDrop
    /\ Disconnect(n)
    /\ drops' = drops + 1
    /\ UNCHANGED events

Eof(n) ==
    /\ open[n] /\ ~open[Peer(n)] /\ wire[n] = <<>>
    /\ Disconnect(n)
    /\ UNCHANGED <<events, drops>>

\* A local event: the daemon's event handlers run before the pass that sends.
Local(n, kind, s) ==
    /\ kind \in scene.event /\ events < scene.maxEvent
    /\ daemon' = [daemon EXCEPT ![n] = s]
    /\ events' = events + 1
    /\ UNCHANGED <<open, wire, drops>>

\* An address is learned; late, on a port channel that is down by then.
SyncdAddMac(n) ==
    \E port \in scene.seen \cap {"po", scene.orphan[n]} :
        Local(n, IF port = "po" /\ ~daemon[n].po THEN "late" ELSE "learn", SyncdAdd(daemon[n], port))

SyncdDelMac(n) == Known(daemon[n]) /\ Local(n, "age", SyncdDel(daemon[n], daemon[n].mac.port))

PoChange(n) ==
    Local(n, "po", L2MacState([daemon[n] EXCEPT !.po = ~@, !.changed = TRUE]))

PeerLinkChange(n) ==
    LET s == daemon[n]
    IN  Local(n, "peerlink", [(IF s.pl THEN PeerLinkDown(s) ELSE s) EXCEPT !.pl = ~@])

OrphanPortUp(n) == Local(n, "orphan", OrphanUp(daemon[n], scene.orphan[n]))

\* mlacp_local_lif_state_mac_handler: the port channel has been down too long.
PendingTimeout(n) ==
    /\ open[n] /\ daemon[n].timer
    /\ Local(n, "timer", ClearPending(daemon[n]))

\* What the program does once the tree holds freed memory is undefined: the
\* module does not follow it further.
Next ==
    /\ \A n \in Node : ~daemon[n].dangling
    /\ scene' = scene
    /\ \/ Connect
       \/ \E n \in Node :
            \/ Send(n) \/ Handle(n) \/ Lose(n) \/ Eof(n)
            \/ SyncdAddMac(n) \/ SyncdDelMac(n) \/ OrphanPortUp(n)
            \/ PoChange(n) \/ PeerLinkChange(n) \/ PendingTimeout(n)

Spec == Init /\ [][Next]_vars
-----------------------------------------------------------------------------
TypeOK ==
    /\ daemon \in [Node -> Daemon]
    /\ open \in [Node -> BOOLEAN]
    /\ wire \in [Node -> Seq(Msg)]
    /\ scene \in Scene
    /\ events \in 0..scene.maxEvent /\ drops \in 0..scene.maxDrop

\* The entry of the tree is in mac_msg_list at most once, and only while it is
\* in the tree: the intrusive list has room for one link per entry
\* (MAC_IN_MSG_LIST guards every insertion).
QueueConsistent ==
    \A n \in Node :
        \A i, j \in DOMAIN daemon[n].q :
            daemon[n].q[i].own => Known(daemon[n]) /\ (daemon[n].q[j].own => i = j)

\* An address that both peers have aged is nowhere kept: every handler that
\* sets an age flag removes the entry when the other flag is set too.
AgedOutIsGone == \A n \in Node : Known(daemon[n]) => daemon[n].mac.age # Both

Quiescent ==
    \A n \in Node : /\ open[n] /\ daemon[n].ex /\ ~daemon[n].changed
                    /\ wire[n] = <<>> /\ daemon[n].q = <<>>

\* A station that stays: it is seen on the port channel only, or only on a port
\* that one of the nodes alone has.
Stays ==
    \/ scene.seen \subseteq {"po"}
    \/ \E n \in Node : scene.seen \cap {"po", scene.orphan[Peer(n)]} = {}

\* A station on the port channel is learned while the port channel is up, and
\* is back before mlacp_local_lif_clear_pending_mac forgets its entry.
Prompt == "po" \in scene.seen => {"late", "timer"} \cap scene.event = {}

LocalMac(s) == Known(s) /\ "LOCAL" \notin s.mac.age
RemoteMac(s) == Known(s) /\ "PEER" \notin s.mac.age

\* When every update has been handled, an address that is learned on one peer
\* is known to the other as learned there, whatever losses of the session came
\* between (mlacp_sync_mac, set_mac_local_age_flag).  It is claimed for a
\* station on a port that does not flap.
MacReachesPeer ==
    Quiescent /\ Stays /\ Prompt /\ "po" \notin scene.seen \cap scene.event =>
        \A n \in Node : LocalMac(daemon[n]) => RemoteMac(daemon[Peer(n)])

\* When every update has been handled, an address held on behalf of the peer
\* is one the peer still has learned: no entry outlives the station because
\* the update that deletes it was overtaken, merged or dropped.
NoStaleRemoteMac ==
    Quiescent /\ Prompt => \A n \in Node : RemoteMac(daemon[n]) => LocalMac(daemon[Peer(n)])

\* No entry points to a port channel that is down: it points to the peer link
\* (update_l2_mac_state, and the comment on a MAC learned on a port that is
\* down in do_mac_update_from_syncd).  Late learning is the exception.
NoMacOnDownPort ==
    "late" \notin scene.event =>
        \A n \in Node : Known(daemon[n]) /\ daemon[n].mac.port = "po" => daemon[n].po

\* The peers do not send the traffic for an address to each other over the peer
\* link, unless neither has a port left to the station.
NoPeerLinkLoop ==
    Stays /\ (\A n \in Node : Known(daemon[n]) /\ daemon[n].mac.port = "pl") =>
        \A n \in Node : daemon[n].mac.origin = "po" /\ ~daemon[n].po

\* mlacp_mac_msg_queue_reinit frees no entry that the tree still holds: it goes
\* on to clear the list pointers of the existing entries.
NoFreedEntryInTree == \A n \in Node : ~daemon[n].dangling
=============================================================================
