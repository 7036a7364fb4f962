------------------------------ MODULE MclagLink ------------------------------
(***************************************************************************)
(* MLAG port channels of two iccpd peers: the membership and link state     *)
(* they tell each other, the isolation of a port channel from the peer      *)
(* link, and the traffic on a port channel that is stopped when it goes     *)
(* down and restarted on the peer's interface-up acknowledgement.           *)
(*                                                                          *)
(* The ICCP session below (module IccpSession) appears as what it provides: *)
(* a pair of FIFO streams while both ends have a connection, and an end of  *)
(* file some time after the other end closed.  A daemon's event handlers    *)
(* and its pass over mlacp_fsm_transit are single steps, as in its single   *)
(* thread; a Transit step takes one received message at most, which gives   *)
(* the same states as taking several.                                       *)
(***************************************************************************)
EXTENDS Integers, Sequences, FiniteSets, Functions

CONSTANTS
    Lo, Hi,       \* the two daemons; Lo has the lower address and is ACTIVE
    Po,           \* port channels, known by the same name on both
    BindAtStart,  \* [Node -> SUBSET Po]: MLAG interfaces in the start-up configuration
    Reboot,       \* subset of {"crash", "warm"}: the restarts considered
    Config,       \* subset of {"attach", "detach", "create", "destroy"}
    MaxFlap,      \* bound on link state changes
    MaxCfg,       \* bound on Config events
    MaxDrop       \* bound on session losses and restarts

Node == {Lo, Hi}

ASSUME LinkAssumption ==
    /\ Lo # Hi
    /\ Cardinality(Po) \in Nat
    /\ BindAtStart \in [Node -> SUBSET Po]
    /\ Reboot \subseteq {"crash", "warm"}
    /\ Config \subseteq {"attach", "detach", "create", "destroy"}
    /\ MaxFlap \in Nat /\ MaxCfg \in Nat /\ MaxDrop \in Nat

Peer(n) == IF n = Lo THEN Hi ELSE Lo

MlacpState == {"INIT", "STAGE1", "STAGE2", "EXCHANGE", "ERROR"}

\* struct LocalInterface: up is state = PORT_STATE_UP, bound is csm # NULL,
\* disable is is_traffic_disable, iso is isolate_to_peer_link.
LocalIf == [here : BOOLEAN, up : BOOLEAN, bound : BOOLEAN, poActive : BOOLEAN, changed : BOOLEAN,
            cfgSync : BOOLEAN, disable : BOOLEAN, iso : BOOLEAN]

\* struct PeerInterface: its state and po_active, or no such entry in pif_list.
NoPif == [known |-> FALSE, up |-> FALSE, poActive |-> FALSE]
PeerIf == [known : {TRUE}, up : BOOLEAN, poActive : BOOLEAN] \cup {NoPif}

\* The messages of the application that touch this state.  CONF and PURGE are
\* the two uses of an Aggregator Config TLV, STATE is an Aggregator State TLV.
Msg == [type : {"REQ", "DONE", "WARM"}]
       \cup [type : {"CONF", "PURGE", "ACK"}, po : Po]
       \cup [type : {"STATE"}, po : Po, up : BOOLEAN]
NoMsg == [type |-> "NONE"]

Conf(p) == [type |-> "CONF", po |-> p]
Purge(p) == [type |-> "PURGE", po |-> p]
State(p, up) == [type |-> "STATE", po |-> p, up |-> up]
Ack(p) == [type |-> "ACK", po |-> p]

VARIABLES
    daemon,  \* per node: the mLACP state of its CSM and its interfaces
    open,    \* per node: it has an operational session (sock_fd > 0)
    wire,    \* per node: messages on their way to it
    flaps, cfgs, drops

vars == <<daemon, open, wire, flaps, cfgs, drops>>

\* purge is MLACP(csm).lif_purge_list: interfaces detached (live) or destroyed
\* (gone) whose removal the peer has not been told.  conn says that the last
\* turn of mlacp_fsm_transit saw EXCHANGE (prev_state), warm is
\* peer_warm_reboot_time # 0, out collects what a step sends.
Daemon == [ml : MlacpState, wait : BOOLEAN, conn : BOOLEAN, need : BOOLEAN, warm : BOOLEAN,
           bindList : SUBSET Po, lif : [Po -> LocalIf], pif : [Po -> PeerIf],
           live : SUBSET Po, gone : SUBSET Po, out : Seq(Msg)]

Exchanging(s) == s.ml = "EXCHANGE"
Bound(s) == {p \in Po : s.lif[p].bound}
Send(s, msgs) == [s EXCEPT !.out = @ \o msgs]

\* The sequences that hold each element of S once, S being interfaces or
\* messages, two at most of one interface: lists are walked in some order.
Orders(S) == UNION {Bijection(1..k, S) : k \in 0 .. 2 * Cardinality(Po)}
-----------------------------------------------------------------------------
\* Handlers on one port channel.  ex is Exchanging, l the local interface,
\* q the peer's interface of the same name; each gives the new l.

\* update_peerlink_isolate_from_lif: an interface the peer has not announced counts as up.
IsolateFromLif(ex, l, q, up) ==
    IF ex /\ up THEN [l EXCEPT !.iso = ~q.known \/ q.poActive] ELSE l

\* update_peerlink_isolate_from_pif, called before the new state is stored in q.
IsolateFromPif(ex, l, q, up, newCreate) ==
    IF ex /\ (newCreate \/ up # q.poActive) /\ l.bound /\ l.poActive
    THEN [l EXCEPT !.iso = up]
    ELSE l

\* Mutant: the change is not marked for sending.
UpdatePoIfInfoSilent(l, up) == [l EXCEPT !.poActive = up]

\* update_po_if_info
UpdatePoIfInfo(l, up) ==
    IF l.poActive # up THEN [l EXCEPT !.changed = TRUE, !.poActive = up] ELSE l

\* mlacp_link_disable_traffic_distribution
DisableTraffic(ex, l) ==
    IF l.bound /\ ex /\ ~l.poActive THEN [l EXCEPT !.disable = TRUE] ELSE l

\* mlacp_link_enable_traffic_distribution
EnableTraffic(l) ==
    IF l.bound THEN [l EXCEPT !.disable = FALSE] ELSE l

\* mlacp_portchannel_state_handler
PortChannelState(ex, l, q, up) ==
    LET k == UpdatePoIfInfo(IsolateFromLif(ex, l, q, up), up)
    IN  IF up THEN k ELSE DisableTraffic(ex, k)

\* Mutant: a newly bound port channel is not marked for announcement.
BindLocalIfUnannounced(ex, l, q) ==
    IsolateFromLif(ex, [l EXCEPT !.bound = TRUE], q, l.poActive)

\* mlacp_bind_local_if and mlacp_mlag_link_add_handler on a port channel.
BindLocalIf(ex, l, q) ==
    LET k == [l EXCEPT !.bound = TRUE, !.cfgSync = TRUE]
    IN  IsolateFromLif(ex, k, q, k.poActive)
-----------------------------------------------------------------------------
\* Received messages: mlacp_sync_receiver_handler.

\* What mlacp_sync_send_all_info_handler leaves: everything is sent, the state is the next one.
AllTold(s) ==
    [s EXCEPT !.lif = [p \in Po |-> IF @[p].bound
                                    THEN [@[p] EXCEPT !.changed = FALSE, !.cfgSync = FALSE]
                                    ELSE @[p]],
              !.wait = FALSE,
              !.ml = CASE @ = "STAGE1" -> "STAGE2"
                       [] @ = "STAGE2" -> "EXCHANGE"
                       [] OTHER -> "ERROR"]

\* Mutant: the answer to a sync request is not closed.
AllInfoNoDone(s) ==
    {Send(AllTold(s), [i \in DOMAIN w |-> Conf(w[i])] \o [i \in DOMAIN w |-> State(w[i], s.lif[w[i]].up)]) :
       w \in Orders(Bound(s))}

\* mlacp_sync_send_all_info_handler: everything in one go.
AllInfo(s) ==
    {Send(AllTold(s), [i \in DOMAIN w |-> Conf(w[i])] \o [i \in DOMAIN w |-> State(w[i], s.lif[w[i]].up)]
                      \o <<[type |-> "DONE"]>>) :
       w \in Orders(Bound(s))}

\* Mutant: a new peer interface is not entered in pif_list.
RecvAggConfNotListed(s, p) ==
    [s EXCEPT !.pif[p] = [known |-> @.known, up |-> TRUE, poActive |-> TRUE]]

\* mlacp_fsm_update_Agg_conf without the purge flag: a new entry is zeroed, and
\* PORT_STATE_UP is 0.
RecvAggConf(s, p) ==
    LET q == s.pif[p]
        k == IF q.known THEN [q EXCEPT !.poActive = q.up]
                        ELSE [known |-> TRUE, up |-> TRUE, poActive |-> TRUE]
    IN  [s EXCEPT !.lif[p] = IsolateFromPif(Exchanging(s), @, q, k.poActive, ~q.known),
                  !.pif[p] = k]

\* mlacp_fsm_update_Agg_conf with the purge flag.
RecvPurge(s, p) ==
    IF s.pif[p].known THEN [s EXCEPT !.pif[p] = NoPif] ELSE [s EXCEPT !.need = TRUE]

\* Mutants: the new state is stored before the isolation looks at the old one;
\* only a change of state is acknowledged.
RecvAggStateStoredFirst(s, p, up) ==
    LET k == IF s.pif[p].known THEN [s EXCEPT !.pif[p].up = up, !.pif[p].poActive = up] ELSE s
    IN  IF up /\ Exchanging(s) THEN Send(k, <<Ack(p)>>) ELSE k
RecvAggStateAckChange(s, p, up) ==
    LET q == s.pif[p]
        k == IF q.known
             THEN [s EXCEPT !.lif[p] = IsolateFromPif(Exchanging(s), @, q, up, FALSE),
                            !.pif[p] = [q EXCEPT !.up = up, !.poActive = up]]
             ELSE s
    IN  IF up /\ Exchanging(s) /\ ~q.poActive THEN Send(k, <<Ack(p)>>) ELSE k

\* mlacp_sync_recv_aggState: the acknowledgement is sent even for an unknown interface.
RecvAggState(s, p, up) ==
    LET q == s.pif[p]
        k == IF q.known
             THEN [s EXCEPT !.lif[p] = IsolateFromPif(Exchanging(s), @, q, up, FALSE),
                            !.pif[p] = [q EXCEPT !.up = up, !.poActive = up]]
             ELSE s
    IN  IF up /\ Exchanging(s) THEN Send(k, <<Ack(p)>>) ELSE k

\* mlacp_fsm_recv_if_up_ack
RecvIfUpAck(s, p) ==
    IF s.lif[p].here /\ s.lif[p].poActive THEN [s EXCEPT !.lif[p] = EnableTraffic(@)] ELSE s

\* The results form a set, for the orders of AllInfo.
Receive(s, m) ==
    CASE m.type = "CONF"  -> {RecvAggConf(s, m.po)}
      [] m.type = "PURGE" -> {RecvPurge(s, m.po)}
      [] m.type = "STATE" -> {RecvAggState(s, m.po, m.up)}
      [] m.type = "ACK"   -> {RecvIfUpAck(s, m.po)}
      [] m.type = "WARM"  -> {[s EXCEPT !.warm = TRUE]}
      [] m.type = "REQ"   -> AllInfo(s)
      [] m.type = "DONE"  -> {[s EXCEPT !.wait = FALSE]}
      [] OTHER            -> {s}
-----------------------------------------------------------------------------
\* One turn of the loop of mlacp_fsm_transit, with a message or without.

\* mlacp_peer_conn_handler, on the first turn that sees EXCHANGE.
PeerConn(s) ==
    [s EXCEPT !.lif = [p \in Po |-> IF @[p].bound
                                    THEN PortChannelState(Exchanging(s), @[p], s.pif[p], @[p].up)
                                    ELSE @[p]]]

\* mlacp_stage_handler: the ACTIVE node sends first, the STANDBY in STAGE2.
NextStage(k) ==
    IF k.wait THEN k ELSE [k EXCEPT !.ml = IF @ = "STAGE1" THEN "STAGE2" ELSE "EXCHANGE"]
StageTurn(n, s, m) ==
    IF (n = Lo) = (s.ml = "STAGE1")
    THEN IF ~s.wait /\ m.type = "REQ" THEN AllInfo(s) ELSE {s}
    ELSE IF ~s.wait THEN {Send([s EXCEPT !.wait = TRUE], <<[type |-> "REQ"]>>)}
                    ELSE {NextStage(k) : k \in Receive(s, m)}

\* The purge list of mlacp_exchange_handler.  A detached interface has no csm
\* any more, so enabling its traffic does nothing.
Purged(s) ==
    [s EXCEPT !.live = {}, !.gone = {},
              !.lif = [p \in Po |-> IF p \in s.live THEN EnableTraffic(@[p]) ELSE @[p]]]
Purges(w) == [i \in DOMAIN w |-> Purge(w[i])]
SendPurge(s) ==
    UNION {{Send(Purged(s), Purges(v) \o Purges(w)) : w \in Orders(s.gone)} : v \in Orders(s.live)}

\* The interface list of mlacp_exchange_handler: of one interface the
\* configuration goes out directly before the state.
Announced(ex, l) ==
    LET k == IF l.cfgSync THEN DisableTraffic(ex, l) ELSE l
    IN  IF l.bound THEN [k EXCEPT !.cfgSync = FALSE, !.changed = FALSE] ELSE l
SendLif(s) ==
    LET confs == {Conf(p) : p \in {q \in Bound(s) : s.lif[q].cfgSync}}
        states == {State(p, s.lif[p].up) : p \in {q \in Bound(s) : s.lif[q].changed}}
    IN  {Send([s EXCEPT !.lif = [p \in Po |-> Announced(Exchanging(s), @[p])]], w) :
           w \in {o \in Orders(confs \cup states) :
                    \A i, j \in DOMAIN o :
                      o[i] \in confs /\ o[j] \in states /\ o[i].po = o[j].po => j = i + 1}}

\* mlacp_exchange_handler; in the end the 90 seconds of a peer's warm reboot
\* may be over.
AskAgain(s) == IF s.need THEN Send([s EXCEPT !.need = FALSE], <<[type |-> "REQ"]>>) ELSE s
ExchangeTurn(s, m) ==
    UNION {UNION {UNION {{k, [k EXCEPT !.warm = FALSE]} : k \in SendLif(q)} :
             q \in SendPurge(AskAgain(t))} : t \in Receive(s, m)}

BeginTurn(s) ==
    LET c == IF Exchanging(s) /\ ~s.conn THEN PeerConn(s) ELSE s
    IN  IF c.ml = "INIT" THEN [c EXCEPT !.conn = FALSE, !.ml = "STAGE1", !.wait = FALSE]
                         ELSE [c EXCEPT !.conn = Exchanging(c)]

TurnBody(n, s, m) ==
    CASE s.ml \in {"STAGE1", "STAGE2"} -> StageTurn(n, s, m)
      [] s.ml = "EXCHANGE" -> ExchangeTurn(s, m)
      [] OTHER -> {s}

Turn(n, s, m) == UNION {TurnBody(n, t, m) : t \in {BeginTurn(s)}}
-----------------------------------------------------------------------------
\* The daemons' steps.

\* A CSM after mlacp_init, with the interfaces and the configuration of the domain.
Clean(bind, lif) ==
    [ml |-> "INIT", wait |-> FALSE, conn |-> FALSE, need |-> FALSE, warm |-> FALSE,
     bindList |-> bind, lif |-> lif, pif |-> [p \in Po |-> NoPif], live |-> {}, gone |-> {}, out |-> <<>>]

\* local_if_create of a port channel whose kernel state is up.
NewLocalIf(up) ==
    [here |-> TRUE, up |-> up, bound |-> FALSE, poActive |-> up, changed |-> TRUE,
     cfgSync |-> FALSE, disable |-> FALSE, iso |-> FALSE]
NoLocalIf == [NewLocalIf(FALSE) EXCEPT !.here = FALSE, !.changed = FALSE]

\* A daemon that has just started, with its start-up configuration read.
Started(up, bind) ==
    Clean(bind, [p \in Po |-> IF p \in bind THEN BindLocalIf(FALSE, NewLocalIf(up[p]), NoPif)
                                             ELSE NewLocalIf(up[p])])

Init ==
    /\ daemon \in [Node -> {Started(up, bind) : up \in [Po -> BOOLEAN], bind \in SUBSET Po}]
    /\ \A n \in Node : daemon[n].bindList = BindAtStart[n]
    /\ open = [n \in Node |-> FALSE]
    /\ wire = [n \in Node |-> <<>>]
    /\ flaps = 0 /\ cfgs = 0 /\ drops = 0

\* Both ends have a socket, exchanged capabilities and reached APP_OPERATIONAL
\* (module IccpSession).
Connect ==
    /\ \A n \in Node : ~open[n]
    /\ open' = [n \in Node |-> TRUE]
    /\ wire' = [n \in Node |-> <<>>]
    /\ UNCHANGED <<daemon, flaps, cfgs, drops>>

\* n's daemon becomes s; what s sends reaches the stream if the peer is there.
Step(n, s, rest) ==
    /\ daemon' = [daemon EXCEPT ![n] = [s EXCEPT !.out = <<>>]]
    /\ wire' = [wire EXCEPT ![n] = rest,
                            ![Peer(n)] = IF open[Peer(n)] THEN @ \o s.out ELSE @]

\* scheduler_transit_fsm with nothing received.
Idle(n) ==
    /\ open[n]
    /\ \E s \in Turn(n, daemon[n], NoMsg) : Step(n, s, wire[n])
    /\ UNCHANGED <<open, flaps, cfgs, drops>>

\* scheduler_transit_fsm with one message received; its loop ends with a turn
\* that finds no message.
Handle(n) ==
    /\ open[n] /\ daemon[n].ml # "INIT" /\ wire[n] # <<>>
    /\ \E t \in Turn(n, daemon[n], Head(wire[n])) : \E s \in Turn(n, t, NoMsg) : Step(n, s, Tail(wire[n]))
    /\ UNCHANGED <<open, flaps, cfgs, drops>>

\* Mutant: traffic is enabled only on the port channels that are up.
PeerDisconnIfUp(s) ==
    IF s.warm THEN s
    ELSE [s EXCEPT !.lif = [p \in Po |-> IF @[p].bound /\ @[p].up THEN EnableTraffic([@[p] EXCEPT !.iso = FALSE])
                                                                  ELSE @[p]]]

\* mlacp_peer_disconn_handler: after a peer's warm reboot nothing is undone.
PeerDisconn(s) ==
    IF s.warm THEN s
    ELSE [s EXCEPT !.lif = [p \in Po |-> IF @[p].bound THEN EnableTraffic([@[p] EXCEPT !.iso = FALSE])
                                                       ELSE @[p]]]

\* scheduler_session_disconnect_handler, with iccp_csm_status_reset.
Disconnect(n) ==
    LET s == PeerDisconn(daemon[n])
    IN  /\ daemon' = [daemon EXCEPT ![n] = [Clean(s.bindList, s.lif) EXCEPT !.conn = s.conn, !.wait = s.wait]]
        /\ open' = [open EXCEPT ![n] = FALSE]
        /\ wire' = [wire EXCEPT ![n] = <<>>]

\* The heartbeat times out or a read or write fails.
Lose(n) ==
    /\ open[n] /\ drops < MaxDrop
    /\ Disconnect(n)
    /\ drops' = drops + 1
    /\ UNCHANGED <<flaps, cfgs>>

\* The peer closed and everything it sent has been read.
Eof(n) ==
    /\ open[n] /\ ~open[Peer(n)] /\ wire[n] = <<>>
    /\ Disconnect(n)
    /\ UNCHANGED <<flaps, cfgs, drops>>

\* mlacp_sync_send_warmboot_flag
WarmbootFlag(s) == IF Exchanging(s) THEN Send(s, <<[type |-> "WARM"]>>) ELSE s

\* The new process finds the port channels of the kernel and the configuration.
AfterRestart(s) ==
    [Started([p \in Po |-> s.lif[p].up], s.bindList) EXCEPT
       !.lif = [p \in Po |-> IF s.lif[p].here THEN @[p] ELSE NoLocalIf],
       !.out = s.out]

\* The daemon ends and starts again.  For a warm reboot it first tells the
\* peer (SIGUSR1) and makes its last pass.
Restart(n, kind) ==
    /\ kind \in Reboot /\ drops < MaxDrop
    /\ \E last \in IF kind = "warm" /\ open[n] THEN Turn(n, WarmbootFlag(daemon[n]), NoMsg) ELSE {daemon[n]} :
         Step(n, AfterRestart(last), <<>>)
    /\ open' = [open EXCEPT ![n] = FALSE]
    /\ drops' = drops + 1
    /\ UNCHANGED <<flaps, cfgs>>

\* The kernel reports a change of a port channel's link state.
LinkChange(n, p) ==
    /\ flaps < MaxFlap /\ daemon[n].lif[p].here
    /\ LET s == daemon[n]
           l == [s.lif[p] EXCEPT !.up = ~@]
       IN  daemon' = [daemon EXCEPT ![n] = [s EXCEPT !.lif[p] =
                        IF l.bound THEN PortChannelState(Exchanging(s), l, s.pif[p], l.up)
                                   ELSE [l EXCEPT !.poActive = l.up]]]
    /\ flaps' = flaps + 1
    /\ UNCHANGED <<open, wire, cfgs, drops>>

Configure(kind) ==
    /\ kind \in Config /\ cfgs < MaxCfg
    /\ cfgs' = cfgs + 1
    /\ UNCHANGED <<open, wire, flaps, drops>>

\* iccp_cli_attach_mclag_domain_to_port_channel
Attach(n, p) ==
    /\ Configure("attach")
    /\ p \notin daemon[n].bindList
    /\ LET s == daemon[n]
       IN  daemon' = [daemon EXCEPT ![n] = [s EXCEPT
             !.bindList = @ \cup {p},
             !.live = @ \ {p},
             !.lif[p] = IF @.here THEN BindLocalIf(Exchanging(s), @, s.pif[p]) ELSE @]]

\* iccp_cli_detach_mclag_domain_to_port_channel with mlacp_mlag_intf_detach_handler:
\* the interface is not the peer link, so its traffic is not enabled.  Without
\* such an interface the command is refused.
Detach(n, p) ==
    /\ Configure("detach")
    /\ daemon[n].lif[p].bound
    /\ LET s == daemon[n]
       IN  daemon' = [daemon EXCEPT ![n] = [s EXCEPT
             !.bindList = @ \ {p},
             !.live = IF Exchanging(s) THEN @ \cup {p} ELSE @,
             !.lif[p] = [@ EXCEPT !.bound = FALSE, !.iso = ~Exchanging(s) /\ s.lif[p].iso]]]

\* RTM_NEWLINK for an unknown port channel.
Create(n, p) ==
    /\ Configure("create")
    /\ ~daemon[n].lif[p].here
    /\ \E up \in BOOLEAN :
         LET s == daemon[n]
         IN  daemon' = [daemon EXCEPT ![n] = [s EXCEPT !.lif[p] =
                          IF p \in s.bindList THEN BindLocalIf(Exchanging(s), NewLocalIf(up), s.pif[p])
                                              ELSE NewLocalIf(up)]]

\* local_if_destroy; the entry is freed at the end of the pass (local_if_purge_clear).
Destroy(n, p) ==
    /\ Configure("destroy")
    /\ daemon[n].lif[p].here
    /\ LET s == daemon[n]
       IN  daemon' = [daemon EXCEPT ![n] = [s EXCEPT
             !.live = @ \ {p},
             !.gone = IF (s.lif[p].bound /\ Exchanging(s)) \/ p \in s.live THEN @ \cup {p} ELSE @,
             !.lif[p] = NoLocalIf]]

Next ==
    \/ Connect
    \/ \E n \in Node :
         \/ Idle(n) \/ Handle(n) \/ Lose(n) \/ Eof(n)
         \/ \E kind \in Reboot : Restart(n, kind)
         \/ \E p \in Po : LinkChange(n, p) \/ Attach(n, p) \/ Detach(n, p) \/ Create(n, p) \/ Destroy(n, p)

Spec == Init /\ [][Next]_vars

\* The loop of each daemon runs forever and reads what arrives.
LoopSpec == Spec /\ \A n \in Node : WF_vars(Idle(n)) /\ WF_vars(Handle(n)) /\ WF_vars(Eof(n))

\* And the session layer reconnects (EventuallySynced of IccpSession).
FairSpec == LoopSpec /\ WF_vars(Connect)
-----------------------------------------------------------------------------
TypeOK ==
    /\ daemon \in [Node -> Daemon]
    /\ \A n \in Node : daemon[n].out = <<>>
    /\ open \in [Node -> BOOLEAN]
    /\ wire \in [Node -> Seq(Msg)]
    /\ flaps \in 0..MaxFlap /\ cfgs \in 0..MaxCfg /\ drops \in 0..MaxDrop

\* Both ends exchange, every message has been read and neither end has
\* anything left to say.
Quiescent ==
    \A n \in Node :
      LET s == daemon[n]
      IN  /\ open[n] /\ Exchanging(s) /\ s.conn /\ ~s.need
          /\ wire[n] = <<>> /\ s.live = {} /\ s.gone = {}
          /\ \A p \in Bound(s) : ~s.lif[p].changed /\ ~s.lif[p].cfgSync

\* In a quiescent state each daemon knows every port channel the other has
\* bound (pif_list): no announcement is lost, whatever the order of attach,
\* detach, create and destroy, and of the stages and restarts between them.
EveryMemberKnown ==
    Quiescent => \A n \in Node, p \in Po : daemon[Peer(n)].lif[p].bound => daemon[n].pif[p].known

\* In a quiescent state the link state a daemon keeps for a peer interface
\* (pif->po_active) is the state that port channel has on the peer.
PeerStateAgrees ==
    Quiescent => \A n \in Node, p \in Po :
      daemon[n].pif[p].known /\ daemon[Peer(n)].lif[p].bound
      => daemon[n].pif[p].poActive = daemon[Peer(n)].lif[p].up

\* In a quiescent state a port channel that is up is isolated from the peer
\* link exactly when the peer's announced port channel is up too, although
\* link events, announcements and the entry into EXCHANGE each update the
\* isolation on their own.
IsolationFollowsPeer ==
    Quiescent => \A n \in Node, p \in Po :
      LET l == daemon[n].lif[p]  q == daemon[n].pif[p]
      IN  l.bound /\ l.up /\ q.known => l.iso = q.poActive

\* Without a session nobody will acknowledge an interface-up, so a port
\* channel's traffic is disabled only while the session exchanges
\* (mlacp_peer_disconn_handler enables it "regardless of its state").
DisabledOnlyInSession ==
    \A n \in Node, p \in Po :
      daemon[n].lif[p].bound /\ daemon[n].lif[p].disable => open[n] /\ daemon[n].ml \in {"EXCHANGE", "ERROR"}

\* The peers stop talking: link events, losses and restarts being finite, the
\* two daemons end in a quiescent state.
EventuallyQuiescent == <>[]Quiescent

\* A port channel that is up in an exchange gets its traffic back unless it
\* goes down, is detached or the session ends: the interface-up update is
\* acknowledged, and the acknowledgement finds the interface up.
TrafficRestored ==
    \A n \in Node, p \in Po :
      (daemon[n].lif[p].bound /\ daemon[n].lif[p].up /\ Exchanging(daemon[n]))
      ~> (~daemon[n].lif[p].disable \/ ~daemon[n].lif[p].bound \/ ~daemon[n].lif[p].up \/ ~Exchanging(daemon[n]))

\* After a peer's warm reboot that is not followed by a reconnection, the
\* disconnection is processed like any other one, so the traffic does not
\* stay disabled (mlacp_fsm_transit, warm_reboot_disconn_time).
WarmDisconnectRecovered ==
    \A n \in Node, p \in Po :
      (~open[n] /\ daemon[n].lif[p].disable) ~> (open[n] \/ ~daemon[n].lif[p].disable)
=============================================================================
