# Formal models of SONiC daemons

TLA+ specifications of three programs of this repository, the TLC configurations
that check them, and TLAPS proofs of their main invariants:

- `src/src/iccpd`, which makes two switches look like one LACP partner (MCLAG);
- `src/src/sonic-ctrmgrd`, which hands a feature's container over between the local
  image and Kubernetes;
- `src/src/sonic-bgpcfgd`, which turns CONFIG_DB into the configuration of FRR.

File names below without a directory are in `src/src/iccpd/src/`, in
`src/src/sonic-ctrmgrd/ctrmgr/` or in `src/src/sonic-bgpcfgd/bgpcfgd/`.

## The system

The repository is the build tree of SONiC: container images, platform code,
configuration and, under `src/src`, the programs kept in this repository. Most of
those translate configuration once or poll; the ones with behaviour worth a model
are listed here, `PROJECT.json` lists all of them.

| Part | State | What is hard | Module |
|---|---|---|---|
| iccpd: session | `struct CSM`: socket, state, capability and connect flags, role, timers, message list | half-open connections, crossing connects, restart in the middle of the synchronisation, reconfiguration of a live session | `IccpSession` |
| iccpd: mLACP machine | `current_state`, `wait_for_sync_data`, `need_to_sync`, message list | the two ends enter the stages at different times | `IccpSession` |
| iccpd: MLAG port channels | `LocalInterface`, `PeerInterface`, purge list, `if_bind_list` | flaps faster than the updates, acknowledgements that arrive late, attach and detach in any stage, warm reboot | `MclagLink` |
| iccpd: MAC addresses | `mac_rb`, `mac_msg_list`, age flags | both peers learn, age and redirect one address; one entry in a tree and an intrusive list | `MacSync` |
| iccpd: ARP and ND | `arp_list`, `ndisc_list`, their queues, the kernel's table | the daemon hears the echo of what it programs | `NeighSync` |
| ctrmgrd: ownership | FEATURE rows of CONFIG_DB and STATE_DB, the systemd unit, the containers | five programs share two rows without a lock; time-outs, restarts and crashes in between | `FeatureOwner` |
| ctrmgrd: server and labels | join state, timers, the label row | a change while a join is pending, half-done label writes, restarts of ctrmgrd | `KubeLabels` |
| bgpcfgd | `set_queue` of each manager, `Directory`, scheduled and running configuration | requests overtaken by their dependencies; handlers that read FRR while changes are only scheduled | `Bgpcfgd` |
| caclmgrd, service scripts, dhcpmon and others | | | not modelled, see below |

Two switches ("peers") each run one `iccpd`. A daemon is a single thread:
`scheduler_loop` (`scheduler.c:462`) waits in `epoll_wait` for at most 100 ms,
handles one event per ready descriptor (`iccp_handle_events`,
`iccp_netlink.c:2171`), then runs `scheduler_transit_fsm`, which steps three
stacked machines: the ICCP connection (`iccp_csm_transit`), the application
(`app_csm_transit`) and mLACP (`mlacp_fsm_transit`). So a handler is atomic with
respect to its own daemon, and everything hard happens between the two daemons,
and between a daemon, its kernel and `mclagsyncd`. That is why every module has
two daemons, and one step per handler.

The modules of iccpd are layered. `IccpSession` models TCP, the handshake and the
stages in full. The others replace the session by what it provides: a pair of FIFO streams
while both ends have a connection, an end of file some time after the other end
closed, and the order in which the two ends pass through the stages. That order
is written down as a specification of its own, `SyncService`, and TLC checks that
`IccpSession` implements it (below). That the modules above use no more than this
service and `NoUpdateLost` is an argument by reading.

ctrmgrd and the unit scripts do not wait for each other at all: the `container`
script of the systemd unit, `container_startup.py` inside each container, ctrmgrd,
kubelet and the operator communicate through rows of Redis. bgpcfgd is one thread
again, with CONFIG_DB changing under it and FRR behind a batch of commands.

## Modules

### IccpSession

`csm[n]` is `struct CSM` of daemon `n` with the fields of `mLACP` that the state
machines look at. `endp` and `wire` are TCP: the state of each end of a
connection and the messages in flight. `pc[n]` tells the event half of the loop
from the loop inside `mlacp_fsm_transit`; `seen[n]` is the set of descriptors
already served in this epoll batch.

| Action | Code |
|---|---|
| `ReadMsg`, `ReadEof`, `ReadFail` | `scheduler_csm_read_callback` |
| `ServerAccept`, `ServerReject` | `scheduler_server_accept` |
| `TransitTimeout`, `TransitConnect`, `TransitNonexistent`, `TransitSession` | `scheduler_transit_fsm` with heartbeat check, `scheduler_prepare_session`, `iccp_csm_transit`, `app_csm_transit` |
| `MlacpLoop` | one turn of the loop of `mlacp_fsm_transit` (`Turn...` per state) |
| `SetAddress`, `UnsetAddress`, `SetPeerLink`, `PeerLinkCreated` | `iccp_cli.c`, `local_if_create` |
| `Restart`, `LinkDown`, `LinkUp` | the environment |
| `Tick` | time: the timers advance |

No thread is needed for the client: `session_client_conn_handler` is called from
the loop, and its locks are stubs (`scheduler.c:59`). The RG id is a constant per daemon, so that a mismatch is an
instance. With `Prompt` the daemons finish their work between two ticks, without
it a tick can come at any point.

`SyncService` is the abstract specification: two ends that take up (`Open`) and give
up (`Close`) connections and climb from NONEXISTENT to OPERATIONAL (`Greet`) and over
the stages to EXCHANGE (`Climb`), each waiting for the other where `Turn` says so.
It has no messages, no time and no machines. `SyncRefinement` maps the socket of a
CSM to the connection and the states of session and mLACP machine, one above the
other, to the stage;
property `ServiceProvided` says that each step of a daemon is a step of the service
or changes nothing of it. So a machine never goes back within a session, and the
two ends reach the stages in the one order in which no data are missed.

### MclagLink

`daemon[n].lif[p]` and `.pif[p]` are the local and peer interface of port channel
`p`; `live` and `gone` are the two kinds of entries in `lif_purge_list`. `Idle` is a
pass of the loop that sends what is due (including the entry into and the work in
EXCHANGE), `Handle` one with a message, `LinkChange` a netlink event, `Attach`,
`Detach`, `Create`, `Destroy` the commands and interface events, `Restart` a crash
or a warm reboot of a peer. Isolation (`iso`), link state (`poActive`) and the
disabled traffic (`disable`) follow the order of the calls in the handlers. The
interfaces of a list are sent in the order of the list, which is that of their
creation or attachment: any order (`Orders`), with the configuration of an interface
directly before its state, as in `mlacp_exchange_handler`.

### MacSync

Entries of different addresses do not interact, so that one dynamic address is
followed. `mac` is its entry in the tree, `q` the list of updates, in which the
entry appears as itself or as one removed from the tree while queued (the code
frees it after sending). `dangling` records that the tree holds a freed entry;
the module stops there, since what follows is undefined behaviour. Static
addresses and the MAC path of the daemon's own warm reboot are left out.

### NeighSync

One address that is neither peer's own, on an interface both have, of family ARP
or ND. `kernel` and `nl` are the kernel's entry and the notifications the daemon
has not read: the kernel answers a change by a notification to the daemon that
made it. The stages are modelled (`AllInfo`), because a neighbour learned before
the session is announced there.

### FeatureOwner and KubeLabels

`KubeLabels` is the part of ctrmgrd that talks to the API server: `OnServer` and
`JoinTimer` are `RemoteServerHandler`, `OnLabels` and `LabelTimer` are
`LabelsPendingHandler` with `kube_write_labels`; `api` is what the API server has.
`FeatureOwner` extends it with one feature. `unit.pc` and `unit.wait` say where
systemd and the unit's main process are; `db` is the STATE_DB row; `local` and `pod`
are the containers.

| Action | Code |
|---|---|
| `ContainerStart`, `ContainerStarted` | `container_start` before and after docker start |
| `ContainerWait`, `WaitPoll`, `WaitTimeout`, `WaitExit` | `container_wait` |
| `ContainerStop`, `ContainerStopped`, `ContainerKill` | `container_stop`, `container_kill` |
| `LocalUp`, `PodUp`, `PodPoll` | `container_up` of `container_startup.py` |
| `OnConfig`, `OnState` | `FeatureTransitionHandler`, with `systemctl restart` |
| `MgrRestart`, `MgrDies` | a new ctrmgrd, the second after the uncaught exception of a label read |
| `SetOwner`, `SetServer`, `UnitStop`, `Deploy`, `Undeploy`, `LocalCrash` | operator, Kubernetes, docker |

A step is what a script does between two points where it waits: a sleep, docker,
systemctl. The row accesses in between are one step. That is an abstraction: they
take microseconds against polls of seconds, but the scripts hold no lock, and what
another script could do in the middle of them is not covered.

### Bgpcfgd

`rows` is CONFIG_DB, `inbox` the messages of each table not popped yet, `round` the
position of `Runner.run` in its tables. `dir` is the `Directory`, `peer` the manager of one
BGP neighbour with its queue, `routes` and `pending` the static route manager.
`staged` is FRR's configuration with the scheduled commands applied, `frr` the running
one. A handler is one action with the puts and notifications it causes; `Commit`
ends a round and may fail. An exception that leaves `do_work` restarts the container
(`Restart`). `past` is a history record: which of the known losses below has happened
since the start; the properties are stated for behaviours without them.

`MacSync`, `NeighSync`, `FeatureOwner` and `Bgpcfgd` choose a scenario (`scene`) in the
initial state: the ports, addresses or rows and the kinds of events that occur. A
property that holds only without a certain kind of event says so in terms of the scenario.

## What the runs check

| Run | Shows |
|---|---|
| `session_faults` | One fault (link failure, failed read or restart) at any point, with ticks at any point: no descriptor leaked, no update reaches a peer that would drop it, the lower address is ACTIVE, the ends agree on the stage, ERROR is not reached. |
| `session_config` | Three configuration commands at any point: no state without a socket, no handshake message dropped. |
| `session_live` | The session implements `SyncService`, with two faults, the second perhaps during recovery; after them both ends reach EXCHANGE on one connection for good; a half-open end is closed. |
| `link_flap` | Four link changes, two losses or crashes: the state kept for the peer is right when the daemons are quiescent, traffic is disabled only in a session, and comes back; the daemons do become quiescent. |
| `link_config` | Two link changes, three attach, detach, create or destroy events and a crash or warm reboot: no port channel stays unknown, isolation follows the peer. |
| `link_timer` (violated) | A peer that does not return from its warm reboot leaves traffic disabled. |
| `mac_table` | Seven scenes of up to six MAC and port events with one or two losses: a station on the port channel, on a port of one peer, or moving, with flaps, late learning and the timer. The tables agree when quiescent; in every state none points to a down port channel, no address loops over the peer link, list and tree are consistent, an address aged on both sides is gone. |
| `mac_freed` (violated) | A session lost while a deletion is queued frees an entry the tree still holds. |
| `neigh_list` | ARP and ND on a VLAN and on a port channel: the list follows the kernel, what is announced is known, the echo stops. |
| `owner_handover` | Each kind of event (owner changes, failed joins and label writes, restarts of ctrmgrd, withdrawn pods, a second version, crashes, stop, kill): local and deployed image never run together, docker wait has the right id, the feature is served again, labels arrive, a stop holds. |
| `bgp_config` | Rows come, change and go in any order around the rounds, commits fail, exceptions restart the container: when idle, FRR has the neighbour, the routes, the redistribution and the lists that are configured, and the daemon becomes idle. |
| `bgp_allow` (violated) | Two allow lists of one deployment that arrive in one round take the same route-map number (`managers_allow_list.py:363`). |

The three violations are the `findings` of `PROJECT.json`, each with the line of the
code that says otherwise.

### Bounds

Two connection slots allow a half-open connection of the previous session next to
a new one. `KeepAlive = 0`, `SessionTimeout = 1` is the smallest pair in which a
heartbeat is due before the timeout; only their order matters to the code. One
fault with unrestricted ticks and two with prompt daemons cover a fault during
recovery from a fault. `MaxWire` limits the messages in flight when time passes or
a transit sends. One port channel is enough in `MclagLink`: the handlers touch one
port channel each, and the messages name it. Four link changes give one flap on
each side, or two on one. In `MacSync` four to six events and two losses let an
address be learned, moved, aged and learned again with a resynchronisation
between; in `NeighSync` two events and one loss already let both daemons learn,
with the echo of each on the way.

`FeatureOwner`: image 1 is local, 2 and 3 can be deployed; with one version at a time
the unit and the pod still meet in every order, and the third appears in the
scene of an upgrade. One event of a kind is enough to interrupt any step of the
hand-over, which repeats itself for ever; owner changes and API failures come
twice, so that the second meets the recovery from the first. `Bgpcfgd`: a scene has
the neighbour with one group of its dependencies (ASN, loopback, interface, vnet,
metadata), or the routes with the ASN, or three lists, and three changes after a
start with any of the rows (two with the interface, whose rows are more): the
managers share the rounds, the commit and the ASN, nothing else. Two sequence
numbers per range let the numbers run out. All runs are exhaustive within their
bounds.

### Fairness

Only liveness properties use it. `scheduler_loop` is `while (1)` with a bounded
wait, so that each daemon that can take a step takes one (`WF` of its steps). Time
passes. A failed path is repaired and the session layer reconnects: the first is
an assumption on the network, the second is `EventuallySynced`, used by the modules
above it. In `NeighSync` a notification of the kernel is read at some time.
`link_timer` does not assume that the peer reconnects, since that is the case the
timer is for. Faults, flaps and commands are never fair.

In `FeatureOwner` a script that waits only for its turn, docker or a timer goes on;
ctrmgrd pops every table again and again (strong fairness, as one thread serves
them in turn and is busy during `systemctl restart`); kubelet ends a pod whose label
is gone. It is not assumed that Kubernetes ever deploys anything. In `Bgpcfgd` the
loop runs (`WF` of the daemon).

Deadlock is checked in `IccpSession` and `MclagLink`; in the others, programs with
nothing to do and no events left really are at rest.

## What is proved

The theorems hold for every value of the constants under the named assumptions of
the module (`SessionAssumption`, `LinkAssumption`, `MacAssumption`, `NeighAssumption`,
`LabelBounds` and `OwnerBounds`, `KeyAssumption` and `RowAssumption`): any number of
connections, port channels, faults, commands, events and losses, any timeouts, ports,
scenarios, versions, routes and addresses. TLC evaluates the assumptions in the runs
of the module. The runs do not repeat `TypeOK` and `AppHasSession` where they were
proved first.

- `IccpSession_proofs`: `TypeCorrect`, `NoOrphanStateHolds`, `AppHasSessionHolds`,
  `NoLeakedSocketHolds`, `NoCrossRgSessionHolds`, `NoHandshakeLossHolds`. The inductive
  invariant `Inv` adds to these: `Sessions` (per daemon, a state past NONEXISTENT
  has a socket, a layer is up only above the one below, a message of another RG
  has left its mark before the handshake could complete), `WireOK` (a message in
  flight carries its sender's RG id) and `Fresh`. `Fresh` is why no handshake message is
  lost although `iccp_csm_transit` dequeues before it looks at the state: a socket
  is taken in NONEXISTENT only with a complete configuration and too late for the
  current batch to read from it, and each change that makes the configuration
  incomplete closes the socket.
- `SyncSteps_proofs` (the steps of the session layer) and `SyncRefinement_proofs` (the
  turns of the application, and the theorems): `ServiceProvidedHolds`,
  `StageAgreementHolds`, `NoUpdateLostHolds`, `RoleByAddressHolds`. The invariant `SInv` says what can be on
  its way at each stage: `Pending(n)` is all that daemon `n` has yet to handle, queued
  or in flight; `Sides` tells per end which of SYNC_REQUEST, SYNC_DONE and UPDATE can
  be in it, how often and in which order, `Joint` which pairs of stages two ends of
  one connection can be in and which message between them is still missing,
  `Backlog` that a connection not yet accepted carries only handshake. From it each
  action is shown to be a step of `SyncService` or to change nothing of it (`Maps`),
  one lemma per action. Hypotheses: the addresses stay configured (`[]AddressesKept`;
  otherwise the roles can be equal), no purges are exchanged (`"PURGE" \notin Update`)
  and, for the refinement, both are configured for one redundancy group. The
  first two mark the known divergences on the role and on purges; peers of
  different groups never get past the handshake (`NoCrossRgSessionHolds`), but one of
  them goes back in it, which the service does not do. `RoleByAddressHolds` needs only
  the first and has an invariant of its own (`RInv`). `AgreementHolds`: in the service an
  end exchanges updates only with one that has its data; with `ServiceProvided` this
  carries over to the session.
- `MclagLink_proofs`: `TypeCorrect`, `IsolationFollowsPeerHolds`, `EveryMemberKnownHolds`,
  `PeerStateAgreesHolds`, `DisabledOnlyInSessionHolds`, with any number of port channels.
  The middle three speak of quiet states; the invariant `Inv` says what holds while
  messages are under way. Per daemon, `Kept`: the two copies of a link state agree,
  the isolation follows the peer's entry once `mlacp_peer_conn_handler` has run
  (`IsoKept`), an announced interface is not in the purge list (`PurgeKept`). Of two
  connected daemons, `InStep`: `Phase` lists the pairs of stages they can be in with
  the requests and answers between them, and `Told` says that the entry the receiver
  will have once it has read the stream (`KnownAfter`, `StateAfter`) is right for every
  interface its sender has not marked for sending. A received message moves the head of the stream into the entry
  (`Heard`), a sent one extends the stream (`Says`), and neither disturbs `Told`; one
  step per handler says so, and the steps compose along the calls of a turn
  (`TurnKept` for one daemon, `TurnPair` for the two). A daemon in ERROR has left the
  protocol and is never quiet, so nothing is claimed of its peer. Hypotheses:
  `PeerStateAgreesHolds` needs that nothing is detached, and `DisabledOnlyInSessionHolds`
  that there is no warm reboot and not both attach and detach; both mark known
  divergences (attach again, detach, warm reboot). The other three need none.
- `MacSync_proofs`: `TypeCorrect`, `QueueConsistentHolds`, `AgedOutIsGoneHolds`. Each
  handler keeps `Good` (typed, linked at most once and only while in the tree, not
  aged on both sides); the handlers' lemmas compose along their calls.
  `MacReachesPeerHolds`, `NoStaleRemoteMacHolds`, `NoMacOnDownPortHolds` and
  `NoPeerLinkLoopHolds` come from `GInv`, which relates the two daemons. What a daemon
  will believe is decided by the last update on its way, or by its table where there
  is none (`Belief`); `Tell` and `Hear` say that this agrees with what the sender has
  learned whenever the sender has nothing queued. They are kept because the list is
  in order and its last element fits the entry (`QFit`), because a session starts
  with nothing held for the peer (`Stage`), and because no local event of the receiver
  changes what it holds for the other (`NodeOK`, by kind of station: `Shared` on the
  port channel, `Alone` on a port of one node). The hypotheses in the properties are
  those of the scenario: `Stays` and `Prompt` exclude a station that moves between
  the nodes, late learning and the 600 s timer where the statement fails with them
  (known divergences).
- `NeighSync_proofs`: `TypeCorrect`, `ListFollowsKernel`, `AnnouncementArrives`. That list
  and kernel agree is not inductive, as the daemon lags behind its notifications;
  kept by every handler is `Told`: the last unread notification, or the list where
  there is none, tells what the kernel has. By ND this needs that every address in
  a list, a queue, a message or a kernel is one of the station (`Fit`). For
  `AnnouncementArrives` the invariant `KInv` relates the daemons: where neighbours stay
  (`Kept`) no withdrawal is anywhere, an update on its way is about an entry its
  sender has (`Source`), and an entry marked ADD is in the peer's list, in the queue or
  on its way (`OnItsWay`), which a new session restores because `SynInfo` queues what
  the list has.
- `FeatureOwner_proofs`: `TypeCorrect` (with `KubeLabels`), `ExclusiveHolds`,
  `SupervisedHolds`. The row tells who may run (`RowTells`): the local id while the local
  container is up or being started, a pod's id once it runs, none when a pod has
  been answered. That survives because the main process polls only while no local
  container can start (`WaitPlace`) and what `container stop` read stays right until
  docker stop returns (`StopRight`).
- `Bgpcfgd_proofs`: all safety properties of `bgp_config`. For the neighbour
  (`QueueWaitsHolds`, `PeerRemovedHolds`, `PeerInstalledHolds`) the invariant adds that the
  last unread message of its table tells the row (`LastIsDel`, `LastIsRow`), that an
  unknown neighbour has nothing scheduled and a known one something (`Forgotten`,
  `Known`), that between rounds nothing is scheduled (`Committed`), and that once the
  table is read, the directory, the queue or the schedule has what the row asks
  for (`Settled`). The routes and the lists share their table with other keys;
  `TableInv` says of each key that its last unread message tells its row, and is
  kept by reading one message, by a change that adds one and by the dump at a
  start, which lists the rows in any order (`Orders`). With it `RouteDone` and
  `ListDone`, that a key without an unread message has what its row asks for in the
  schedule, are inductive, and give `RoutesAgreeHolds` and `AllowListCoversHolds`; the second
  needs that the smallest free number exists (from the well-founded order of the
  naturals) and that a community has one entry (`OneEntry`).
  `RedistributionFollowsHolds` needs `Scheduled`: with a route the redistribution is
  scheduled or pending, and pending only without the ASN. `TypeCorrect` covers the
  whole state. `RowAssumption` says that CONFIG_DB is finite and a scene names rows of it.

Only model-checked: liveness (fairness and `ENABLED` are out of the prover's reach).
Every safety invariant that a run checks is also a theorem. TLC checked the inductive
invariants on the scenes of the runs before they were proved.

## Known divergences

Found while modelling. The three that are runs are above; these are not runs, and
mark where a property is stated for fewer events than the code meets.

- Role (`iccp_csm.c:848`). The role is counted only while it is NONE, also with an
  address missing (`inet_addr("")` is above every address), and unsetting an address
  does not reset it. After the peer address is unset and set again both nodes can
  be ACTIVE; the comment at line 849 is "decide the role, lower ip to be active &
  socket client". `RoleByAddress` is checked without address changes.
- Attach again (`port.c:504`). A new peer interface is zeroed and `PORT_STATE_UP` is
  0: a port channel that went down while detached is announced without a state and
  taken for up. `iccp_netlink.c:1011` describes the same fault for the local side.
- Purge (`app_csm.c:276`). A detached port channel goes to the purge list only in
  EXCHANGE. Detached in STAGE1 or STAGE2 after its announcement, it stays in the
  peer's list for the whole session.
- Detach (`mlacp_link_handler.c:2157`). A port channel detached with its traffic
  disabled gets it back only without a peer link; the second attempt, in the purge
  loop, does nothing because `lif->csm` is NULL.
- Isolation (`mlacp_link_handler.c:1333`). A port channel the peer never announced is
  taken for up, and isolated though only one peer has it; line 2552 says "enable
  peerlink isolation only if the both mclag interfaces are up". `IsolationFollowsPeer`
  is about announced ones.
- Acknowledgement (`mlacp_fsm.c:692`). An interface-up acknowledgement does not say
  which event it answers: one of an earlier event enables traffic while the peer
  has isolation off.
- Warm reboot (`mlacp_link_handler.c:2402`). The disconnect handler returns before it
  enables traffic, and link states sent in the stages are not acknowledged.
- Late MAC (`mlacp_link_handler.c:2941`). The redirection of an address learned on a
  port channel that is down is written to the temporary copy, after the entry was
  made from it; line 2935 says "For MAC learned on MCLAG interface point to
  peer_link". `NoMacOnDownPort` is stated without late learning.
- Pending MAC (`mlacp_fsm.c:716`). When a port channel has been down for 600 s,
  `mlacp_local_lif_clear_pending_mac` removes the address without telling the peer,
  which keeps it ("TBD do we need to send delete notification to peer", line 1071).
  With late learning the list can in the same way end with an update that does not
  fit the entry. `Prompt` excludes both for a station on the port channel.
- Removed and learned again (`mlacp_fsm.c:287`). An entry removed while queued, whose
  address is learned again before the send, is never freed.
- MAC address of a flapping port channel (`mlacp_sync_update.c:201`). When a port
  channel goes down, the peer converts its remote addresses on it into its own,
  aged by the other side; when it comes up again at once, the first daemon still
  has the address as learned and does not announce it again. `MacReachesPeer` is
  claimed for ports that do not flap.
- Neighbours in the stages (`iccp_ifm.c:336`). One learned or lost in STAGE1 or STAGE2
  is neither announced nor withdrawn. `AnnouncedIsKnown` is about neighbours that stay
  (`Kept`).
- Two MAC addresses. Learned crosswise, two addresses of one neighbour go back and
  forth without end; `EchoStops` is about a station that keeps its address.
- Port channels with an address. An entry received while it is down is not
  programmed if it comes up in STAGE2 (`mlacp_link_handler.c:1448`); with both down,
  the update of the peer's state programs an entry on a port channel that is
  down; a port channel going down deletes the kernel's ARP entry, and the
  notification makes the peer delete its good one.
- ND (`iccp_ifm.c:574`). `do_ndisc_learn_from_kernel` compares the MAC address of the
  entry with itself, so that the list keeps the old one when a station changes it.
  `ListMatchesKernel` is about ARP, and about ND stations that keep their address.
- Purge of an unknown port channel (`mlacp_fsm.c:1371`). It makes the receiver ask for
  a synchronisation in EXCHANGE, and answering moves its sender to ERROR, "should
  not be here" (`mlacp_fsm.c:933`). `StageAgreement` and `ServiceProvided` are checked without purges.

Ownership:

- Owner change (`container:202`). When set_owner changes from kube to local after a pod
  was answered ("ready") and before it runs, local image and pod overlap until the
  label is gone. `Exclusive` is about a set_owner that stays.
- Two versions (`container:371`). A second pending version can be answered in the round
  in which the first registers, and both run; line 272 has "systemctl ensures that
  it handles only one instance for a feature at anytime".
- Lost requests (`ctrmgrd.py:452`). A pending pod or a new owner that reaches ctrmgrd while
  the unit is activating or deactivating is taken as handled; line 433 says "When
  pending, trigger restart". With fallback the time-out of `container_wait` repairs it
  (`Served`, `LocalReturns`); without, the feature can stay unserved.
- Same version again (`container_startup.py:232`). A deployed version that ended does not
  come up again before another image ran: it is not higher than the one in the row.
- Label read (`kube_commands.py:92`). A failing kubectl leaves an empty text, whose
  parsing raises IndexError and ends ctrmgrd; the message "Read before set failed.
  Hence skipping set" is not reached. `_run_command` passes its time limit as the input
  of `communicate()`, so that no command is limited.

bgpcfgd:

- Deleted while queued (`manager.py:50`). DEL does not take the neighbour's request out
  of the queue; it comes back with the dependencies. `PeerRemoved` excludes it
  (`past.orphan`).
- Vnet (`managers_bgp.py:180`). A neighbour ignored because of a vnet interface is not
  retried when the interface leaves the vnet (`past.ignored`).
- Redistribution (`managers_static_rt.py:78`). The last route deleted while the ASN is
  missing leaves the redistribution on (`past.noasn`).
- Bad rows (`managers_static_rt.py:48`). A static route with wrong attributes goes to the
  queue and is never taken out of it, as the manager has no dependencies.
- Failed commit (`config.py:62`). Its commands are logged and dropped; no manager sends
  them again (`past.lost`).
- ASN gone (`managers_bgp.py:294`). Deleting a neighbour then raises KeyError and restarts
  the container, FRR included.
- Allow lists (`managers_allow_list.py:283`). A prefix removed from a list stays permitted:
  rules the row does not have are not looked at. SET and DEL of a list in one round
  leave the policy, as the deletion reads the running configuration (`past.stale`).

## Not modelled

The repository is a build tree. Most of its 684 implementation files, with 462,000
lines, are vendor drivers and platform code that access hardware; those have no
model here. The map names about 8,200 lines, 40% of the files the modules are
about and less than 2% of the whole.

Of iccpd: formatting, parsing and logging; the peers' own addresses; netlink
overflow; a write to a closed socket, which ends the process by SIGPIPE and
appears as `Restart`; static MAC addresses; the daemon's own warm start. Of ctrmgrd:
several features at once, which share only the label row; the proxy rules of
`ctrmgr_iptables.py`; systemd's limit on restarts. Of bgpcfgd: the default action and
soft clears of the allow list, peer groups and templates, `managers_bbr.py`,
`managers_setsrc.py`, a neighbour whose local address changes while it waits, and
several neighbour tables, each with a manager of its own.

The other programs are listed with reasons in `PROJECT.json`. The nearest candidates
are the delayed update threads of caclmgrd, small and guarded by one lock, and the
service scripts around swss and syncd, whose behaviour is mostly that of systemd,
docker and programs outside this tree, so that a model would rest on assumptions
about them.
