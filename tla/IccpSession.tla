----------------------------- MODULE IccpSession -----------------------------
(***************************************************************************)
(* The ICCP session of the MCLAG daemon (src/iccpd): two peers, one         *)
(* connection state machine (struct CSM) each, and TCP between them.        *)
(*                                                                          *)
(* Each daemon is one thread that repeats: handle one epoll batch (at most  *)
(* one accept and one message read, iccp_handle_events), then run           *)
(* scheduler_transit_fsm.  pc[n] = "events" is the first half; the second   *)
(* half is one Transit step, followed, once the session is operational, by  *)
(* one MlacpLoop step per turn of the loop of mlacp_fsm_transit             *)
(* (pc[n] = "loop").                                                        *)
(*                                                                          *)
(* Lo is the peer with the lower IP address: it is the TCP client and must  *)
(* become the ACTIVE node.                                                  *)
(***************************************************************************)
EXTENDS Integers, Sequences, FiniteSets

CONSTANTS
    Lo, Hi,          \* the two daemons
    Rg,              \* icc_rg_id (= mlag_id) configured on each
    Conn,            \* slots for TCP connections that exist at the same time
    None,            \* sock_fd = -1
    KeepAlive,       \* keepalive_time, in ticks
    SessionTimeout,  \* session_timeout, in ticks
    Prompt,          \* TRUE: the daemons finish their work between two ticks
    MaxFaults,       \* bound on link failures, lost reads and restarts
    MaxCfg,          \* bound on configuration commands and interface events
    Update,          \* the kinds of updates sent in EXCHANGE, see AppType
    MaxUpdates,      \* bound on them
    MaxWire          \* no tick and no transit while more messages are in flight

Node == {Lo, Hi}

ASSUME SessionAssumption ==
    /\ Lo # Hi
    /\ Rg \in [Node -> Nat \ {0}]
    /\ None \notin Conn
    /\ KeepAlive \in Nat /\ SessionTimeout \in Nat /\ SessionTimeout > KeepAlive
    /\ Prompt \in BOOLEAN /\ Update \subseteq {"UPDATE", "PURGE"}
    /\ MaxFaults \in Nat /\ MaxCfg \in Nat /\ MaxUpdates \in Nat /\ MaxWire \in Nat

Peer(n) == IF n = Lo THEN Hi ELSE Lo

IccpState == {"NONEXISTENT", "INITIALIZED", "CAPSENT", "CAPREC", "CONNECTING", "OPERATIONAL"}
MlacpState == {"INIT", "STAGE1", "STAGE2", "EXCHANGE", "ERROR"}

\* Messages.  The session layer keeps the first four in csm->msg_list, the
\* mLACP application the others (RG_APP_DATA) in mlacp_msg_list.  Every
\* message but CAPABILITY carries the sender's RG id.  An UPDATE is any
\* message of the exchange phase that leaves the state machines alone; a PURGE
\* is an aggregator configuration that removes a port channel the receiver
\* does not know (attached and detached again before it was announced).
SessionType == {"CAPABILITY", "RG_CONNECT", "RG_DISCONNECT", "NAK"}
AppType == {"SYNC_REQUEST", "SYNC_START", "SYNC_DONE", "HEARTBEAT", "UPDATE", "PURGE"}
Msg == [type : SessionType \cup AppType, rg : Nat]
NoMsg == [type |-> "NONE", rg |-> 0]

\* iccp_info.status_code
NoStatus == 0
UnknownRg == 1

\* Timers count ticks since they were set, up to a cap that no comparison
\* passes; Unset is the value 0 of the code's time_t fields.
Unset == -1
TimerCap == SessionTimeout + 1
Timer == {Unset} \cup (0 .. TimerCap)
Advance(t) == IF t = Unset \/ t = TimerCap THEN t ELSE t + 1

VARIABLES
    csm,     \* struct CSM of each daemon
    addr,    \* which of sender_ip and peer_ip are configured
    plink,   \* peer link: "none" (not configured), "absent" or "present"
    endp,    \* endp[c][n]: the state of n's end of connection c
    wire,    \* wire[c][n]: messages in flight to n on connection c
    net,     \* does the network deliver?
    pc,      \* which half of the scheduler loop the daemon is in
    seen,    \* file descriptors already handled in this epoll batch
    faults, cfgs, updates   \* how much of each bound is used up

vars == <<csm, addr, plink, endp, wire, net, pc, seen, faults, cfgs, updates>>
tcpVars == <<endp, wire>>
cfgVars == <<addr, plink>>
bounds == <<faults, cfgs, updates>>

CsmRecord ==
    [sock : Conn \cup {None}, st : IccpState,
     scap : {0, 1}, pcap : {0, 1}, srg : {0, 1}, prg : {0, 1},
     status : {NoStatus, UnknownRg}, role : {"NONE", "ACTIVE", "STANDBY"},
     msgs : Seq(Msg), app : {"NONEXISTENT", "OPERATIONAL"},
     ml : MlacpState, wait : {0, 1}, need : {0, 1}, mlq : Seq(Msg),
     hbUpdate : Timer, hbSend : Timer, connPrev : Timer]

\* system_create_csm / iccp_csm_init
InitCsm ==
    [sock |-> None, st |-> "NONEXISTENT",
     scap |-> 0, pcap |-> 0, srg |-> 0, prg |-> 0,
     status |-> NoStatus, role |-> "NONE",
     msgs |-> <<>>, app |-> "NONEXISTENT",
     ml |-> "INIT", wait |-> 0, need |-> 0, mlq |-> <<>>,
     hbUpdate |-> Unset, hbSend |-> Unset, connPrev |-> Unset]

-----------------------------------------------------------------------------
(* The session state machine, as functions of the CSM record.              *)

\* Mutants of StatusReset: the message list or the state is not reset.
StatusResetKeepsMsgs(c) == [InitCsm EXCEPT !.wait = c.wait, !.msgs = c.msgs]
StatusResetKeepsState(c) == [InitCsm EXCEPT !.wait = c.wait, !.st = c.st]

\* iccp_csm_status_reset(csm, 0) with app_csm_init and mlacp_init:
\* wait_for_sync_data is the one field here that it keeps.
StatusReset(c) == [InitCsm EXCEPT !.wait = c.wait]

\* scheduler_session_disconnect_handler, but for the socket itself
Disconnected(c) == [StatusReset(c) EXCEPT !.connPrev = 0]

\* inet_addr of the two configured addresses; inet_addr("") is INADDR_NONE,
\* above every address
InetNone == 3
IpOf(n) == IF n = Lo THEN 1 ELSE 2
SenderIp(n) == IF "sender" \in addr[n] THEN IpOf(n) ELSE InetNone
PeerIp(n) == IF "peer" \in addr[n] THEN IpOf(Peer(n)) ELSE InetNone
AddrSet(n) == addr[n] = {"sender", "peer"}

\* Mutant: the higher address becomes active.
StpRoleCountHigher(n, c) ==
    [c EXCEPT !.role = IF @ # "NONE" THEN @
                       ELSE IF SenderIp(n) > PeerIp(n) THEN "ACTIVE" ELSE "STANDBY"]

\* iccp_csm_stp_role_count: a role is decided once per session
StpRoleCount(n, c) ==
    [c EXCEPT !.role = IF @ # "NONE" THEN @
                       ELSE IF SenderIp(n) < PeerIp(n) THEN "ACTIVE" ELSE "STANDBY"]

\* scheduler_check_csm_config: its verdict, and its effect on the role, which
\* it counts unless the configured peer-link interface is missing
ConfigOk(n) == AddrSet(n) /\ plink[n] # "absent"
CheckConfig(n, c) ==
    IF AddrSet(n) /\ plink[n] = "absent" THEN c ELSE StpRoleCount(n, c)

\* iccp_csm_check_id_from_msg
CheckId(n, c, m) ==
    IF m.type = "CAPABILITY" THEN c
    ELSE [c EXCEPT !.status = IF m.rg = Rg[n] THEN NoStatus ELSE UnknownRg]

\* iccp_csm_correspond_from_msg.  A NAK is logged; an RG_DISCONNECT counts
\* only with status RG_REMOVED, a code no peer ever sends.
Correspond(n, c, m) ==
    IF m = NoMsg THEN c
    ELSE LET d == CheckId(n, c, m)
         IN  CASE m.type = "CAPABILITY" -> [d EXCEPT !.pcap = 1]
               [] m.type = "RG_CONNECT" -> [d EXCEPT !.prg = 1]
               [] OTHER -> d

\* iccp_csm_prepare_iccp_msg
PrepareIccpMsg(n, c) ==
    LET m(t) == <<[type |-> t, rg |-> Rg[n]]>>
    IN  CASE c.st = "INITIALIZED" -> m("CAPABILITY")
          [] c.st = "CAPREC" -> m(IF c.status # NoStatus THEN "NAK" ELSE "RG_CONNECT")
          [] c.st = "CONNECTING" /\ c.status # NoStatus -> m("NAK")
          [] c.st = "OPERATIONAL" /\ c.prg = 0 -> m("RG_DISCONNECT")
          [] OTHER -> <<>>

\* the state chosen by the switch of iccp_csm_transit, after the message
NextIccpState(c) ==
    CASE c.st = "INITIALIZED" /\ c.scap = 1 -> IF c.pcap = 1 THEN "CAPREC" ELSE "CAPSENT"
      [] c.st = "CAPSENT" /\ c.scap = 1 /\ c.pcap = 1 -> "CAPREC"
      [] c.st = "CAPREC" /\ c.status = NoStatus ->
            IF c.prg = 1 THEN "OPERATIONAL" ELSE "CONNECTING"
      [] c.st = "CONNECTING" /\ c.status # NoStatus -> "CAPREC"
      [] c.st = "CONNECTING" /\ c.status = NoStatus /\ c.prg = 1 -> "OPERATIONAL"
      [] c.st = "OPERATIONAL" /\ (c.srg = 0 \/ c.prg = 0) -> "CAPREC"
      [] OTHER -> c.st

\* iccp_csm_enter_state_*
EnterState(c) ==
    CASE c.st = "INITIALIZED" -> [c EXCEPT !.scap = 1]
      [] c.st = "CAPREC" -> [c EXCEPT !.scap = 1, !.pcap = 1]
      [] c.st = "CONNECTING" -> [c EXCEPT !.srg = 1]
      [] c.st = "OPERATIONAL" -> [c EXCEPT !.srg = 1, !.prg = 1]
      [] OTHER -> c

\* iccp_csm_transit past NONEXISTENT, on a dequeued message (or NoMsg): what
\* it sends, and the record it leaves
TransitSends(n, c, m) == PrepareIccpMsg(n, Correspond(n, c, m))
TransitCsm(n, c, m) ==
    LET d == Correspond(n, c, m)
        e == [d EXCEPT !.st = NextIccpState(d)]
    IN  IF e.st # c.st \/ m # NoMsg THEN EnterState(e) ELSE e

\* app_csm_transit
AppTransit(c) ==
    IF c.app # "NONEXISTENT" /\ c.sock = None THEN [c EXCEPT !.app = "NONEXISTENT"]
    ELSE IF c.st = "OPERATIONAL" THEN [c EXCEPT !.app = "OPERATIONAL"]
    ELSE c

-----------------------------------------------------------------------------
(* TCP: writing, closing, and the epoll batch.                             *)

\* write(): what is sent to an end that is already closed is lost
Deliver(n, c, ms) ==
    wire' = IF endp[c][Peer(n)] = "closed" THEN wire
            ELSE [wire EXCEPT ![c][Peer(n)] = @ \o ms]

\* close(): unread messages are discarded
CloseEnd(n, c) ==
    /\ endp' = [endp EXCEPT ![c][n] = "closed"]
    /\ wire' = [wire EXCEPT ![c][n] = <<>>]

\* scheduler_csm_socket_cleanup
SocketCleanup(n) ==
    IF csm[n].sock = None THEN UNCHANGED tcpVars ELSE CloseEnd(n, csm[n].sock)

\* scheduler_session_disconnect_handler
SessionDisconnect(n) ==
    /\ SocketCleanup(n)
    /\ csm' = [csm EXCEPT ![n] = Disconnected(@)]

\* iccp_csm_enqueue_msg / app_csm_enqueue_msg.  No application message has
\* been logged on this connection when an ICCP NAK arrives, so a NAK stays in
\* the session's list.
EnqueueMsg(c, m) ==
    IF m.type \in AppType THEN [c EXCEPT !.mlq = Append(@, m)]
                          ELSE [c EXCEPT !.msgs = Append(@, m)]

\* Is there something to handle on a descriptor?
Readable(n) ==
    LET c == csm[n].sock
    IN  net /\ c # None /\ (wire[c][n] # <<>> \/ endp[c][Peer(n)] = "closed")
Ready(n, fd) ==
    IF fd = "sock" THEN Readable(n) ELSE \E c \in Conn : endp[c][n] = "backlog"

Polling(n, fd) == pc[n] = "events" /\ fd \notin seen[n]
Handled(n, fd) == seen' = [seen EXCEPT ![n] = @ \cup {fd}]

\* scheduler_csm_read_callback on a whole message; iccp_handle_events then
\* takes any message as a sign of life
ReadMsg(n) ==
    LET c == csm[n].sock
    IN  /\ Polling(n, "sock") /\ net
        /\ c # None
        /\ wire[c][n] # <<>>
        /\ csm' = [csm EXCEPT ![n] =
                     [EnqueueMsg(@, Head(wire[c][n])) EXCEPT !.hbUpdate = 0]]
        /\ wire' = [wire EXCEPT ![c][n] = Tail(@)]
        /\ Handled(n, "sock")
        /\ UNCHANGED <<cfgVars, endp, net, pc, bounds>>

\* Mutant: end of file is taken for a sign of life and the socket kept.
ReadEofIgnored(n) ==
    LET c == csm[n].sock
    IN  /\ Polling(n, "sock") /\ net
        /\ c # None
        /\ endp[c][Peer(n)] = "closed"
        /\ csm' = [csm EXCEPT ![n].hbUpdate = 0]
        /\ Handled(n, "sock")
        /\ UNCHANGED <<cfgVars, tcpVars, net, pc, bounds>>

\* scheduler_csm_read_callback at end of file, or reset by the peer
ReadEof(n) ==
    LET c == csm[n].sock
    IN  /\ Polling(n, "sock") /\ net
        /\ c # None
        /\ endp[c][Peer(n)] = "closed"
        /\ SessionDisconnect(n)
        /\ Handled(n, "sock")
        /\ UNCHANGED <<cfgVars, net, pc, bounds>>

\* scheduler_csm_read_callback when recv fails or the rest of a message does
\* not come within RECV_RETRY_MAX retries
ReadFail(n) ==
    /\ Polling(n, "sock")
    /\ csm[n].sock # None
    /\ faults < MaxFaults
    /\ faults' = faults + 1
    /\ SessionDisconnect(n)
    /\ Handled(n, "sock")
    /\ UNCHANGED <<cfgVars, net, pc, cfgs, updates>>

\* Mutant: a second connection replaces the socket of the first.
ServerAcceptAgain(n, c) ==
    /\ Polling(n, "listen")
    /\ endp[c][n] = "backlog"
    /\ "peer" \in addr[n] /\ ConfigOk(n)
    /\ endp' = [endp EXCEPT ![c][n] = "open"]
    /\ csm' = [csm EXCEPT ![n] = [CheckConfig(n, @) EXCEPT !.sock = c, !.st = "NONEXISTENT"]]
    /\ seen' = [seen EXCEPT ![n] = @ \cup {"listen", "sock"}]
    /\ UNCHANGED <<cfgVars, wire, net, pc, bounds>>

\* scheduler_server_accept: a connection is taken when the CSM with that peer
\* address has none and is fully configured.  The new descriptor is not in
\* the current epoll batch.
ServerAccept(n, c) ==
    /\ Polling(n, "listen")
    /\ endp[c][n] = "backlog"
    /\ "peer" \in addr[n] /\ csm[n].sock = None /\ ConfigOk(n)
    /\ endp' = [endp EXCEPT ![c][n] = "open"]
    /\ csm' = [csm EXCEPT ![n] = [CheckConfig(n, @) EXCEPT !.sock = c, !.st = "NONEXISTENT"]]
    /\ seen' = [seen EXCEPT ![n] = @ \cup {"listen", "sock"}]
    /\ UNCHANGED <<cfgVars, wire, net, pc, bounds>>

\* scheduler_server_accept, label reject_client
ServerReject(n, c) ==
    /\ Polling(n, "listen")
    /\ endp[c][n] = "backlog"
    /\ ~("peer" \in addr[n] /\ csm[n].sock = None /\ ConfigOk(n))
    /\ CloseEnd(n, c)
    /\ csm' = IF "peer" \in addr[n] /\ csm[n].sock = None
              THEN [csm EXCEPT ![n] = CheckConfig(n, @)] ELSE csm
    /\ Handled(n, "listen")
    /\ UNCHANGED <<cfgVars, net, pc, bounds>>

-----------------------------------------------------------------------------
(* scheduler_transit_fsm: heartbeat_update, iccp_csm_transit,              *)
(* app_csm_transit and mlacp_fsm_transit up to its loop.                   *)

TimedOut(c) == c.sock # None /\ c.hbUpdate > SessionTimeout

\* heartbeat_check when the timer is still running
HeartbeatCheck(c) ==
    IF c.sock # None /\ c.hbUpdate = Unset THEN [c EXCEPT !.hbUpdate = 0] ELSE c

\* The batch ends before the transit.  With Prompt, what the peer sent has
\* arrived when epoll_wait returns.
StartTransit(n) ==
    /\ pc[n] = "events"
    /\ Prompt => \A fd \in {"sock", "listen"} \ seen[n] : ~Ready(n, fd)
EndTransit(n) == seen' = [seen EXCEPT ![n] = {}]

\* heartbeat_check past session_timeout: the session is torn down, and the
\* rest of the transit finds nothing to do (connTimePrev was just set)
TransitTimeout(n) ==
    /\ StartTransit(n)
    /\ TimedOut(csm[n])
    /\ SessionDisconnect(n)
    /\ EndTransit(n)
    /\ UNCHANGED <<cfgVars, net, pc, bounds>>

\* scheduler_prepare_session: may this transit try to connect?
ConnectDue(c) == c.connPrev # Unset /\ c.connPrev >= 1
MayConnect(n, c) ==
    ConnectDue(c) /\ c.sock = None /\ ConfigOk(n) /\ SenderIp(n) < PeerIp(n)

\* its effect on the record when no connection results
PrepareSession(n, c) ==
    LET d == IF ConnectDue(c) /\ c.sock = None THEN CheckConfig(n, c) ELSE c
    IN  IF c.connPrev = Unset \/ ConnectDue(c) THEN [d EXCEPT !.connPrev = 0] ELSE d

\* the rest of the NONEXISTENT case of iccp_csm_transit
LeaveNonexistent(n, c) ==
    IF c.sock = None THEN c
    ELSE LET d == CheckConfig(n, c)
         IN  IF ConfigOk(n) THEN EnterState([d EXCEPT !.st = "INITIALIZED"]) ELSE d

\* a message that is dequeued in NONEXISTENT is dropped
DropHead(q) == IF q = <<>> THEN q ELSE Tail(q)

FreeConn == {c \in Conn : \A n \in Node : endp[c][n] = "closed"}

\* session_client_conn_handler succeeds: the connection is in the server's
\* backlog
TransitConnect(n) ==
    LET c == csm[n]
        d == PrepareSession(n, c)
    IN  /\ StartTransit(n)
        /\ c.st = "NONEXISTENT"
        /\ MayConnect(n, c)
        /\ net
        /\ \E k \in FreeConn :
              /\ csm' = [csm EXCEPT ![n] =
                           LeaveNonexistent(n, [d EXCEPT !.sock = k, !.msgs = DropHead(@)])]
              /\ endp' = [endp EXCEPT ![k] = [x \in Node |-> IF x = n THEN "open" ELSE "backlog"]]
        /\ EndTransit(n)
        /\ UNCHANGED <<cfgVars, wire, net, pc, bounds>>

\* NONEXISTENT without a new connection: none is wanted, connect() fails, or
\* a client was accepted
TransitNonexistent(n) ==
    LET c == HeartbeatCheck(csm[n])
    IN  /\ StartTransit(n)
        /\ c.st = "NONEXISTENT"
        /\ ~TimedOut(c)
        /\ ~(MayConnect(n, c) /\ net /\ FreeConn # {})
        /\ csm' = [csm EXCEPT ![n] =
                     LeaveNonexistent(n, [PrepareSession(n, c) EXCEPT !.msgs = DropHead(@)])]
        /\ EndTransit(n)
        /\ UNCHANGED <<cfgVars, tcpVars, net, pc, bounds>>

\* mlacp_sync_send_heartbeat
HeartbeatDue(c) == c.hbSend = Unset \/ c.hbSend > KeepAlive
AppMsg(n, t) == [type |-> t, rg |-> Rg[n]]
Heartbeat(n, c) == IF HeartbeatDue(c) THEN <<AppMsg(n, "HEARTBEAT")>> ELSE <<>>

\* The other states of iccp_csm_transit.  Their branch for a state without a
\* socket, and the torn-down branch of mlacp_fsm_transit that closes one, have
\* no step here: NoOrphanState and AppHasSession show that they are dead code.
TransitSession(n) ==
    /\ StartTransit(n)
    /\ csm[n].st # "NONEXISTENT" /\ csm[n].sock # None
    /\ ~TimedOut(csm[n])
    /\ Len(wire[csm[n].sock][Peer(n)]) <= MaxWire
    /\ \E c \in {HeartbeatCheck(csm[n])} :
       \E m \in {IF c.msgs = <<>> THEN NoMsg ELSE Head(c.msgs)} :
       \E e \in {TransitCsm(n, [c EXCEPT !.msgs = DropHead(@)], m)} :
       \E d \in {AppTransit(e)} :
          /\ csm' = [csm EXCEPT ![n] =
                     IF d.app = "OPERATIONAL" /\ HeartbeatDue(d) THEN [d EXCEPT !.hbSend = 0] ELSE d]
          /\ Deliver(n, c.sock, TransitSends(n, c, m)
                                \o (IF d.app = "OPERATIONAL" THEN Heartbeat(n, d) ELSE <<>>))
          /\ pc' = [pc EXCEPT ![n] = IF d.app = "OPERATIONAL" THEN "loop" ELSE @]
    /\ EndTransit(n)
    /\ UNCHANGED <<cfgVars, endp, net, bounds>>

-----------------------------------------------------------------------------
(* One turn of the loop of mlacp_fsm_transit.                              *)

\* MLACP(csm).current_state++
NextMlacpState(s) ==
    CASE s = "INIT" -> "STAGE1" [] s = "STAGE1" -> "STAGE2" [] s = "STAGE2" -> "EXCHANGE"
      [] OTHER -> "ERROR"

\* the message of this turn; in INIT none is dequeued
TurnMsg(c) == IF c.ml = "INIT" \/ c.mlq = <<>> THEN NoMsg ELSE Head(c.mlq)

\* Mutant: wait_for_sync_data survives into the next session.
BeginTurnKeepsWait(c) ==
    IF c.ml = "INIT" THEN [c EXCEPT !.ml = "STAGE1"] ELSE [c EXCEPT !.mlq = DropHead(@)]

\* dequeue, and the step from INIT to STAGE1
BeginTurn(c) ==
    IF c.ml = "INIT" THEN [c EXCEPT !.ml = "STAGE1", !.wait = 0]
    ELSE [c EXCEPT !.mlq = DropHead(@)]

\* mlacp_stage_handler: the ACTIVE node sends in STAGE1 and requests in STAGE2
StageSends(c) == (c.ml = "STAGE1" /\ c.role = "ACTIVE") \/ (c.ml = "STAGE2" /\ c.role # "ACTIVE")
StageRequests(c) == (c.ml = "STAGE1" /\ c.role # "ACTIVE") \/ (c.ml = "STAGE2" /\ c.role = "ACTIVE")

\* Mutant: the end of the data is not marked.
AllInfoNoDone(n) == <<AppMsg(n, "SYNC_START")>>

\* mlacp_sync_send_all_info_handler: the messages, and the state it leaves
AllInfo(n) == <<AppMsg(n, "SYNC_START"), AppMsg(n, "SYNC_DONE")>>
AllInfoSent(c) == [c EXCEPT !.ml = NextMlacpState(@), !.wait = 0]

\* mlacp_sync_receiver_handler, for the messages that move the state machine
Received(c, m) ==
    CASE m.type = "SYNC_DONE" -> [c EXCEPT !.wait = 0]
      [] m.type = "SYNC_REQUEST" -> AllInfoSent(c)
      [] m.type = "HEARTBEAT" -> [c EXCEPT !.hbUpdate = 0]
      [] m.type = "PURGE" -> [c EXCEPT !.need = 1]
      [] OTHER -> c
Reply(n, m) == IF m.type = "SYNC_REQUEST" THEN AllInfo(n) ELSE <<>>

\* mlacp_stage_sync_send_handler: waits for a request, drops all else
StageSent(c, m) ==
    IF c.wait = 0 /\ m.type = "SYNC_REQUEST" THEN AllInfoSent(c) ELSE c

\* Mutant: any message ends the stage.
StageRequestedEarly(c, m) ==
    IF c.wait = 0 THEN [c EXCEPT !.wait = 1]
    ELSE IF m = NoMsg THEN c ELSE [Received(c, m) EXCEPT !.ml = NextMlacpState(@), !.wait = 0]

\* mlacp_stage_sync_request_handler: first request, then receive until done
StageRequested(c, m) ==
    IF c.wait = 0 THEN [c EXCEPT !.wait = 1]
    ELSE LET d == Received(c, m)
         IN  IF d.wait = 0 THEN [d EXCEPT !.ml = NextMlacpState(@)] ELSE d

\* have_msg: the loop goes on after INIT and after a message
Turn(n, c, ms) ==
    /\ pc[n] = "loop"
    /\ csm' = [csm EXCEPT ![n] = c]
    /\ Deliver(n, c.sock, ms)
    /\ pc' = [pc EXCEPT ![n] =
                IF csm[n].ml # "INIT" /\ csm[n].mlq = <<>> THEN "events" ELSE "loop"]
    /\ UNCHANGED <<cfgVars, endp, net, seen, faults, cfgs>>

TurnStageSend(n) ==
    LET c == BeginTurn(csm[n])
        m == TurnMsg(csm[n])
    IN  /\ StageSends(c)
        /\ Turn(n, StageSent(c, m), IF c.wait = 0 THEN Reply(n, m) ELSE <<>>)
        /\ UNCHANGED updates

\* Mutant: an unanswered request is sent again.
TurnStageRequestAgain(n) ==
    LET c == BeginTurn(csm[n])
        m == TurnMsg(csm[n])
    IN  /\ StageRequests(c)
        /\ Turn(n, StageRequested(c, m),
                IF m = NoMsg THEN <<AppMsg(n, "SYNC_REQUEST")>> ELSE Reply(n, m))
        /\ UNCHANGED updates

TurnStageRequest(n) ==
    LET c == BeginTurn(csm[n])
        m == TurnMsg(csm[n])
    IN  /\ StageRequests(c)
        /\ Turn(n, StageRequested(c, m),
                IF c.wait = 0 THEN <<AppMsg(n, "SYNC_REQUEST")>> ELSE Reply(n, m))
        /\ UNCHANGED updates

\* mlacp_exchange_handler: receive, ask for everything again if the peer's
\* state turned out to be unknown, send at most one update
TurnExchange(n) ==
    LET c == BeginTurn(csm[n])
        m == TurnMsg(csm[n])
        d == Received(c, m)
    IN  /\ c.ml = "EXCHANGE"
        /\ \E u \in {<<>>} \cup {<<AppMsg(n, t)>> : t \in Update} :
              /\ updates + Len(u) <= MaxUpdates
              /\ updates' = updates + Len(u)
              /\ Turn(n, [d EXCEPT !.need = 0],
                      Reply(n, m)
                      \o (IF d.need = 1 THEN <<AppMsg(n, "SYNC_REQUEST")>> ELSE <<>>)
                      \o u)

\* "should not be here": the message is dropped
TurnError(n) ==
    /\ csm[n].ml = "ERROR"
    /\ Turn(n, BeginTurn(csm[n]), <<>>)
    /\ UNCHANGED updates

MlacpLoop(n) ==
    TurnStageSend(n) \/ TurnStageRequest(n) \/ TurnExchange(n) \/ TurnError(n)

-----------------------------------------------------------------------------
(* Configuration, interface events, and the environment.                   *)

Configure(n) == pc[n] = "events" /\ cfgs < MaxCfg /\ cfgs' = cfgs + 1

\* set_local_address / set_peer_address on an empty address: the running
\* state machine is not reset
SetAddress(n, a) ==
    /\ Configure(n)
    /\ a \notin addr[n]
    /\ addr' = [addr EXCEPT ![n] = @ \cup {a}]
    /\ UNCHANGED <<csm, plink, tcpVars, net, pc, seen, faults, updates>>

\* unset_local_address / unset_peer_address
UnsetAddress(n, a) ==
    /\ Configure(n)
    /\ a \in addr[n]
    /\ addr' = [addr EXCEPT ![n] = @ \ {a}]
    /\ SessionDisconnect(n)
    /\ UNCHANGED <<plink, net, pc, seen, faults, updates>>

\* set_peer_link, on an interface that exists or not, and unset_peer_link
SetPeerLink(n, p) ==
    /\ Configure(n)
    /\ p # plink[n]
    /\ plink' = [plink EXCEPT ![n] = p]
    /\ SessionDisconnect(n)
    /\ UNCHANGED <<addr, net, pc, seen, faults, updates>>

\* local_if_create of the interface named as peer link.  (Its deletion,
\* local_if_destroy, is SetPeerLink(n, "absent"): both disconnect.)
PeerLinkCreated(n) ==
    /\ Configure(n)
    /\ plink[n] = "absent"
    /\ plink' = [plink EXCEPT ![n] = "present"]
    /\ UNCHANGED <<csm, addr, tcpVars, net, pc, seen, faults, updates>>

\* The daemon dies (a crash, or SIGPIPE on a write after a reset: it installs
\* no handler) and is started again: the kernel closes all its sockets.
Restart(n) ==
    /\ faults < MaxFaults
    /\ faults' = faults + 1
    /\ csm' = [csm EXCEPT ![n] = InitCsm]
    /\ endp' = [c \in Conn |-> [endp[c] EXCEPT ![n] = "closed"]]
    /\ wire' = [c \in Conn |-> [wire[c] EXCEPT ![n] = <<>>]]
    /\ pc' = [pc EXCEPT ![n] = "events"]
    /\ seen' = [seen EXCEPT ![n] = {}]
    /\ UNCHANGED <<cfgVars, net, cfgs, updates>>

\* The path between the peers fails and comes back.  TCP keeps what was sent.
LinkDown ==
    /\ net /\ faults < MaxFaults
    /\ faults' = faults + 1
    /\ net' = FALSE
    /\ UNCHANGED <<csm, cfgVars, tcpVars, pc, seen, cfgs, updates>>

LinkUp ==
    /\ ~net
    /\ net' = TRUE
    /\ UNCHANGED <<csm, cfgVars, tcpVars, pc, seen, bounds>>

\* Has daemon n something to do before it only waits for time to pass?
Busy(n) ==
    LET c == csm[n]
    IN  \/ pc[n] = "loop" \/ \E fd \in {"sock", "listen"} : Ready(n, fd)
        \/ c.msgs # <<>> \/ TimedOut(c) \/ (c.sock # None /\ c.hbUpdate = Unset)
        \/ c.st = "NONEXISTENT" /\ (c.sock # None \/ c.connPrev = Unset \/ ConnectDue(c))
        \/ c.st = "INITIALIZED" \/ (c.st = "CAPREC" /\ c.status = NoStatus)
        \/ c.app = "OPERATIONAL" /\ HeartbeatDue(c)

\* One second.  With Prompt the daemons, which loop ten times a second, have
\* finished what they had to do.
Tick ==
    /\ \A c \in Conn, n \in Node : Len(wire[c][n]) <= MaxWire
    /\ Prompt => \A n \in Node : ~Busy(n)
    /\ csm' = [n \in Node |-> [csm[n] EXCEPT !.hbUpdate = Advance(@),
                                             !.hbSend = Advance(@), !.connPrev = Advance(@)]]
    /\ UNCHANGED <<cfgVars, tcpVars, net, pc, seen, bounds>>

-----------------------------------------------------------------------------
Init ==
    /\ csm = [n \in Node |-> InitCsm]
    /\ addr = [n \in Node |-> {"sender", "peer"}]
    /\ plink = [n \in Node |-> "present"]
    /\ endp = [c \in Conn |-> [n \in Node |-> "closed"]]
    /\ wire = [c \in Conn |-> [n \in Node |-> <<>>]]
    /\ net = TRUE
    /\ pc = [n \in Node |-> "events"]
    /\ seen = [n \in Node |-> {}]
    /\ faults = 0 /\ cfgs = 0 /\ updates = 0

Events(n) ==
    \/ ReadMsg(n) \/ ReadEof(n) \/ ReadFail(n)
    \/ \E c \in Conn : ServerAccept(n, c) \/ ServerReject(n, c)

Transit(n) ==
    TransitTimeout(n) \/ TransitConnect(n) \/ TransitNonexistent(n) \/ TransitSession(n)

Config(n) ==
    \/ \E a \in {"sender", "peer"} : SetAddress(n, a) \/ UnsetAddress(n, a)
    \/ \E p \in {"none", "absent", "present"} : SetPeerLink(n, p)
    \/ PeerLinkCreated(n)

Daemon(n) == Events(n) \/ Transit(n) \/ MlacpLoop(n)

Next ==
    \/ \E n \in Node : Daemon(n) \/ Config(n) \/ Restart(n)
    \/ LinkDown \/ LinkUp \/ Tick

Spec == Init /\ [][Next]_vars

\* The scheduler loop never stops, time passes, a failed path is repaired.
Fairness ==
    /\ WF_vars(Daemon(Lo)) /\ WF_vars(Daemon(Hi))
    /\ WF_vars(LinkUp)
    /\ WF_vars(Tick)

FairSpec == Spec /\ Fairness

-----------------------------------------------------------------------------
TypeOK ==
    /\ csm \in [Node -> CsmRecord]
    /\ addr \in [Node -> SUBSET {"sender", "peer"}]
    /\ plink \in [Node -> {"none", "absent", "present"}]
    /\ endp \in [Conn -> [Node -> {"closed", "backlog", "open"}]]
    /\ wire \in [Conn -> [Node -> Seq(Msg)]]
    /\ net \in BOOLEAN
    /\ pc \in [Node -> {"events", "loop"}]
    /\ seen \in [Node -> SUBSET {"sock", "listen"}]
    /\ faults \in 0 .. MaxFaults /\ cfgs \in 0 .. MaxCfg /\ updates \in 0 .. MaxUpdates

\* The state machine leaves NONEXISTENT only with a socket and drops back to
\* it whenever it loses the socket, so that iccp_csm_transit never finds
\* itself in another state without one (it would free the CSM).
NoOrphanState ==
    \A n \in Node : csm[n].st # "NONEXISTENT" => csm[n].sock # None

\* The application layers are up only while the session below them is: the
\* torn-down branch of mlacp_fsm_transit never has to close a socket.
AppHasSession ==
    \A n \in Node : /\ csm[n].app = "OPERATIONAL" => csm[n].st = "OPERATIONAL"
                    /\ csm[n].ml # "INIT" => csm[n].app = "OPERATIONAL"

\* Every descriptor a daemon has open is the one its CSM holds: no path
\* through accept, connect, reject, disconnect and reconfiguration leaks one.
NoLeakedSocket ==
    \A n \in Node, c \in Conn : endp[c][n] = "open" <=> csm[n].sock = c

\* Two peers configured with different RG ids never bring the session up:
\* each message that could complete the handshake also records the mismatch.
NoCrossRgSession ==
    \A n \in Node : csm[n].st = "OPERATIONAL" => Rg[n] = Rg[Peer(n)]

\* No handshake message is dequeued, and so lost, in NONEXISTENT, although
\* iccp_csm_transit dequeues before it looks at the state.
NoHandshakeLoss ==
    \A n \in Node : csm[n].st = "NONEXISTENT" => csm[n].msgs = <<>>

SameConn == csm[Lo].sock # None /\ csm[Lo].sock = csm[Hi].sock

\* An update sent in EXCHANGE is never dequeued by a peer that is still in a
\* stage, where the handlers would drop it and nobody would send it again.
NoUpdateLost ==
    \A n \in Node :
        pc[n] = "loop" /\ TurnMsg(csm[n]).type = "UPDATE" => csm[n].ml = "EXCHANGE"

\* With both addresses configured from the start, a session is up only
\* between an ACTIVE node with the lower address and a STANDBY node.
RoleByAddress ==
    \A n \in Node : csm[n].st = "OPERATIONAL" =>
                        csm[n].role = IF n = Lo THEN "ACTIVE" ELSE "STANDBY"

\* The states in the order in which a session goes through them.
Order == [NONEXISTENT |-> 0, INITIALIZED |-> 1, CAPSENT |-> 2, CAPREC |-> 3,
          CONNECTING |-> 4, OPERATIONAL |-> 5]
MlacpOrder == [INIT |-> 0, STAGE1 |-> 1, STAGE2 |-> 2, EXCHANGE |-> 3, ERROR |-> 4]

\* Whatever link failures, lost reads and restarts happened, once they stop
\* both peers end up in EXCHANGE on one connection, and stay there.
Synced == SameConn /\ \A n \in Node : csm[n].ml = "EXCHANGE"
EventuallySynced == <>[]Synced

\* A half-open connection does not last: an end whose peer is gone is closed,
\* by end of file or by the heartbeat, even if the path stays up.
HalfOpenCleared ==
    \A n \in Node, c \in Conn :
        (csm[n].sock = c /\ endp[c][Peer(n)] = "closed") ~> csm[n].sock # c

=============================================================================
