------------------------------ MODULE Bgpcfgd ------------------------------
(***************************************************************************)
(* bgpcfgd, the daemon that turns CONFIG_DB tables into FRR configuration: *)
(* the loop and the batch commit (Runner, ConfigMgr), the dependency store *)
(* (Directory), the postponed requests (Manager), and the managers of the  *)
(* BGP neighbours, the static routes and the allowed prefixes.             *)
(*                                                                         *)
(* bgpcfgd is one thread.  CONFIG_DB changes while it works; a change is   *)
(* one message of its table (SubscriberStateTable, external).  A handler   *)
(* only schedules commands: FRR sees them at the commit that ends the      *)
(* round, so "staged" is FRR's configuration with the scheduled commands   *)
(* applied.  bgpcfgd is a critical process: an exception that leaves       *)
(* do_work restarts the container, FRR included.                           *)
(***************************************************************************)
EXTENDS Naturals, Sequences, FiniteSets, FiniteSetsExt

CONSTANTS
    Route,      \* the prefixes of STATIC_ROUTE, in one VRF
    RouteRow,   \* the sets of next hops a row may hold
    Comm,       \* communities of BGP_ALLOWED_PREFIXES, in one deployment
    ListRow,    \* the prefix lists a row may hold, as sequences
    SeqMax,     \* how many route-map entries each range of numbers has
    Scene       \* what is configured at boot and what may change

\* A static route row whose attributes IpNextHopSet rejects.
BadHop == "bad"

\* The key without a community.
Empty == "empty"

Dep == {"asn", "lo", "loip", "port", "addr", "meta"}
Key == Dep \union {"peer"} \union Route \union Comm

\* Keys of different tables are different.
ASSUME KeyAssumption ==
    /\ Route \intersect (Dep \union {"peer"}) = {}
    /\ Comm \intersect (Dep \union {"peer"} \union Route) = {}

\* CONFIG_DB is finite; a prefix list is a sequence.
ASSUME RowAssumption ==
    /\ IsFiniteSet(Route) /\ IsFiniteSet(Comm) /\ SeqMax \in Nat
    /\ RouteRow # {} /\ ListRow # {} /\ \A l \in ListRow : l \in Seq(Range(l))
    /\ \A s \in Scene : s.base \union s.vary \subseteq Key /\ s.max \in Nat

\* asn: DEVICE_METADATA|localhost; lo, loip: Loopback0 and its address; port,
\* addr: the neighbour's interface and its address; meta: the neighbour's name.
Table(k) ==
    CASE k = "asn" -> "DEVICE_METADATA"
      [] k \in {"lo", "loip"} -> "LOOPBACK_INTERFACE"
      [] k \in {"port", "addr"} -> "INTERFACE"
      [] k = "meta" -> "DEVICE_NEIGHBOR_METADATA"
      [] k = "peer" -> "BGP_NEIGHBOR"
      [] k \in Route -> "STATIC_ROUTE"
      [] OTHER -> "BGP_ALLOWED_PREFIXES"
Tables == {"DEVICE_METADATA", "LOOPBACK_INTERFACE", "INTERFACE", "DEVICE_NEIGHBOR_METADATA",
           "BGP_NEIGHBOR", "STATIC_ROUTE", "BGP_ALLOWED_PREFIXES"}
NoTable == "none"

VARIABLES
    scene,    \* base: rows always there at boot; vary: rows that may be there and
              \* may change; opts: local, meta, vnet, fail; max: number of changes
    rows,     \* CONFIG_DB
    inbox,    \* per table, the messages not popped yet
    round,    \* the subscriber being drained, and the ones drained before it
    dir,      \* the Directory: the keys put and not removed; "vnet" with a vnet port
    peer,     \* the neighbour manager: known (peers) and set_queue
    routes,   \* static_routes
    pending,  \* vrf_pending_redistribution
    staged,   \* FRR's configuration after the scheduled changes
    frr,      \* FRR's running configuration
    past,     \* what has gone wrong since boot (history)
    events    \* how many changes have happened

vars == <<scene, rows, inbox, round, dir, peer, routes, pending, staged, frr, past, events>>
daemonVars == <<round, dir, peer, routes, pending, staged, frr, past>>

Opt(o) == o \in scene.opts

Data(k) ==
    CASE k = "peer" -> {"up", "down", "unset"}
      [] k = "port" -> IF Opt("vnet") THEN {"plain", "vnet"} ELSE {"plain"}
      [] k \in Route -> RouteRow
      [] k \in Comm -> ListRow
      [] OTHER -> {"set"}

With(f, k, d) == [x \in DOMAIN f \union {k} |-> IF x = k THEN d ELSE f[x]]
Without(f, S) == Restrict(f, DOMAIN f \ S)

\* What FRR starts with: no neighbour, no route, no allow list.
NoConfig == [peer |-> "none", route |-> [r \in Route |-> {}], redist |-> FALSE,
             lists |-> <<>>, map |-> <<>>]

NothingWrong == [orphan |-> FALSE, ignored |-> FALSE, lost |-> FALSE, stale |-> FALSE,
                 noasn |-> FALSE]

SetMsg(k, d) == [key |-> k, op |-> "SET", data |-> d]
DelMsg(k) == [key |-> k, op |-> "DEL"]

\* The sequences that list a finite set, each element once.
Orders(S) == Injection(1..Cardinality(S), S)

\* The initial content of the subscribers: every row, in any order of a table.
Dump(t) ==
    {[i \in DOMAIN s |-> SetMsg(s[i], rows[s[i]])] : s \in Orders({k \in DOMAIN rows : Table(k) = t})}
Dumps ==
    [DEVICE_METADATA : Dump("DEVICE_METADATA"), LOOPBACK_INTERFACE : Dump("LOOPBACK_INTERFACE"),
     INTERFACE : Dump("INTERFACE"), DEVICE_NEIGHBOR_METADATA : Dump("DEVICE_NEIGHBOR_METADATA"),
     BGP_NEIGHBOR : Dump("BGP_NEIGHBOR"), STATIC_ROUTE : Dump("STATIC_ROUTE"),
     BGP_ALLOWED_PREFIXES : Dump("BGP_ALLOWED_PREFIXES")]

\* The daemon's state when do_work starts, beside FRR's (load_peers finds none).
Fresh == [round |-> [cur |-> NoTable, seen |-> {}], dir |-> {}, peer |-> [known |-> FALSE, queue |-> <<>>]]

Init ==
    /\ scene \in Scene
    /\ \E there \in SUBSET scene.vary :
         rows = [k \in scene.base \union there |-> CHOOSE d \in Data(k) : TRUE]
    /\ inbox \in Dumps
    /\ round = Fresh.round /\ dir = Fresh.dir /\ peer = Fresh.peer
    /\ routes = <<>> /\ pending = FALSE
    /\ staged = NoConfig /\ frr = NoConfig
    /\ past = NothingWrong
    /\ events = 0

\* An exception left do_work: the container restarts, and FRR with it.
Restart ==
    /\ inbox' \in Dumps
    /\ round' = Fresh.round /\ dir' = Fresh.dir /\ peer' = Fresh.peer
    /\ routes' = <<>> /\ pending' = FALSE
    /\ staged' = NoConfig /\ frr' = NoConfig
    /\ past' = NothingWrong

---------------------------------------------------------------------------
(* Runner *)

\* The subscriber being drained, if any, is empty.
Drained == \A t \in Tables : round.cur = t => inbox[t] = <<>>

\* The loop pops a message on k: it stays with a subscriber until that one is
\* empty, and visits each subscriber once a round, in an order of its own.
Receive(k, op) ==
    LET t == Table(k) IN
    /\ inbox[t] # <<>>
    /\ Head(inbox[t]).key = k /\ Head(inbox[t]).op = op
    /\ \/ round.cur = t
       \/ Drained /\ t \notin round.seen

Received(k) == Head(inbox[Table(k)]).data

\* The message is consumed; the handler changed nothing outside the daemon.
Handled(k) ==
    /\ inbox' = [inbox EXCEPT ![Table(k)] = Tail(@)]
    /\ round' = [cur |-> Table(k), seen |-> (round.seen \union {round.cur}) \ {NoTable, Table(k)}]
    /\ UNCHANGED <<scene, rows, frr, events>>

\* ConfigMgr.commit at the end of the round.  A write that fails is logged,
\* and its changes are dropped with the others (reset).
Commit ==
    /\ round.cur # NoTable /\ Drained
    /\ \/ /\ frr' = staged
          /\ UNCHANGED <<staged, past, events>>
       \/ /\ Opt("fail") /\ events < scene.max /\ staged # frr
          /\ staged' = frr
          /\ past' = [past EXCEPT !.lost = TRUE]
          /\ events' = events + 1
          /\ UNCHANGED frr
    /\ round' = Fresh.round
    /\ UNCHANGED <<scene, rows, inbox, dir, peer, routes, pending>>

---------------------------------------------------------------------------
(* BGPPeerMgrBase, for one neighbour *)

\* available_deps for the manager.  The slots local_addresses and interfaces
\* exist once anything was put in them, before add_peer can succeed.
Available(d) == "asn" \in d /\ "lo" \in d

\* add_peer finds the loopback and the interface of the local address.
HasLocal(d) == "loip" \in d /\ (Opt("local") => {"addr", "port"} \subseteq d)

\* add_peer ignores a neighbour behind a vnet interface, and says so.
InVnet(d) == Opt("local") /\ "vnet" \in d

\* set_handler is not called, or returns False.
Waits(d) ==
    \/ ~Available(d)
    \/ /\ ~peer.known
       /\ ~HasLocal(d) \/ (~InVnet(d) /\ Opt("meta") /\ "meta" \notin d)

\* Mutant: of several requests the oldest is the last one tried.
FirstAdmin(q, a) ==
    LET said == {i \in DOMAIN q : q[i] # "unset"}
    IN  IF said = {} THEN a ELSE q[Min(said)]

\* Mutant: the attribute is taken as it is, present or not.
AdminAsGiven(q, a) == q[Len(q)]

\* The admin status after the requests q on a neighbour in status a: a
\* request without the attribute changes nothing.
LastAdmin(q, a) ==
    LET said == {i \in DOMAIN q : q[i] # "unset"}
    IN  IF said = {} THEN a ELSE q[Max(said)]

\* The requests q are tried in order: add_peer for the first one of an unknown
\* neighbour, update_peer for the others; the queue becomes kept, and q again
\* when they wait.  The commands are appended to what is scheduled (cfg); FRR
\* refuses an update of a neighbour it does not have.
TryPeer(d, cfg, kept, q) ==
    LET drop == ~peer.known /\ InVnet(d)
        now == IF peer.known THEN cfg.peer ELSE "up"
    IN  IF Waits(d) \/ q = <<>>
        THEN /\ peer' = [peer EXCEPT !.queue = kept \o q]
             /\ staged' = cfg
             /\ UNCHANGED past
        ELSE /\ peer' = [known |-> ~drop, queue |-> kept]
             /\ staged' = IF drop \/ now = "none" THEN cfg ELSE [cfg EXCEPT !.peer = LastAdmin(q, now)]
             /\ past' = [past EXCEPT !.ignored = @ \/ drop]

\* Mutant: without the check of the dependencies add_peer reads the missing ASN.
SetPeerUnchecked ==
    /\ Receive("peer", "SET")
    /\ IF "asn" \notin dir
       THEN Restart /\ UNCHANGED <<scene, rows, events>>
       ELSE TryPeer(dir, staged, peer.queue, <<Received("peer")>>) /\ Handled("peer")
            /\ UNCHANGED <<dir, routes, pending>>

\* Manager.handler on SET.
SetPeer ==
    /\ Receive("peer", "SET")
    /\ TryPeer(dir, staged, peer.queue, <<Received("peer")>>)
    /\ Handled("peer")
    /\ UNCHANGED <<dir, routes, pending>>

\* Mutant: a DEL is dropped while a dependency is missing.
DelPeerIfAvailable ==
    /\ Receive("peer", "DEL")
    /\ IF Available(dir)
       THEN /\ staged' = [staged EXCEPT !.peer = "none"]
            /\ peer' = [peer EXCEPT !.known = FALSE]
       ELSE UNCHANGED <<staged, peer>>
    /\ past' = [past EXCEPT !.orphan = @ \/ peer.queue # <<>>]
    /\ Handled("peer")
    /\ UNCHANGED <<dir, routes, pending>>

\* Manager.handler on DEL: a request that waits stays in the queue (orphan).
\* apply_op reads the ASN, and raises KeyError when it is gone.
DelPeer ==
    /\ Receive("peer", "DEL")
    /\ IF peer.known /\ "asn" \notin dir
       THEN Restart /\ UNCHANGED <<scene, rows, events>>
       ELSE /\ staged' = IF peer.known THEN [staged EXCEPT !.peer = "none"] ELSE staged
            /\ peer' = [peer EXCEPT !.known = FALSE]
            /\ past' = [past EXCEPT !.orphan = @ \/ peer.queue # <<>>]
            /\ Handled("peer")
            /\ UNCHANGED <<dir, routes, pending>>

---------------------------------------------------------------------------
(* BGPDataBaseMgr and InterfaceMgr *)

\* The Directory after a put of row d under key k.
Put(k, d) ==
    IF k = "port" THEN (dir \ {"vnet"}) \union {"port"} \union ({d} \intersect {"vnet"}) ELSE dir \union {k}

\* on_bgp_asn_change sends the redistribution that waited for the ASN.
OnAsn(k) == IF k = "asn" /\ pending THEN [staged EXCEPT !.redist = TRUE] ELSE staged

\* Mutant: only the tables of CONFIG_DB notify the neighbours, not LOCAL.
SetDepNoLocal(k) ==
    /\ Receive(k, "SET")
    /\ LET d == Put(k, Received(k)) IN
       /\ dir' = d
       /\ IF k \in {"port", "addr"} THEN TryPeer(d, OnAsn(k), peer.queue, <<>>)
                                    ELSE TryPeer(d, OnAsn(k), <<>>, peer.queue)
    /\ pending' = (pending /\ k # "asn")
    /\ Handled(k)
    /\ UNCHANGED routes

\* The puts of the set handlers notify the managers subscribed to what is
\* there now: the neighbours retry their queue (on_deps_change).
SetDep(k) ==
    /\ Receive(k, "SET")
    /\ dir' = Put(k, Received(k))
    /\ TryPeer(dir', OnAsn(k), <<>>, peer.queue)
    /\ pending' = (pending /\ k # "asn")
    /\ Handled(k)
    /\ UNCHANGED routes

\* remove notifies nobody.
DelDep(k) ==
    /\ Receive(k, "DEL")
    /\ dir' = dir \ (IF k = "port" THEN {"port", "vnet"} ELSE {k})
    /\ past' = [past EXCEPT !.noasn = @ \/ k = "asn"]
    /\ Handled(k)
    /\ UNCHANGED <<peer, routes, pending, staged>>

---------------------------------------------------------------------------
(* StaticRouteMgr *)

NextHops(r) == IF r \in DOMAIN routes THEN routes[r] ELSE {}

\* Mutant: next hops that went away are not deleted.
RerouteAdds(r, hops) == [staged.route EXCEPT ![r] = @ \union hops]

\* static_route_commands: the commands for what differs from the next hops
\* the manager remembers.
Reroute(r, hops) == [staged.route EXCEPT ![r] = (@ \ (NextHops(r) \ hops)) \union (hops \ NextHops(r))]

\* set_handler: a row whose attributes are wrong is put in a queue nothing
\* looks at (deps is empty).  The first route of the VRF turns the
\* redistribution on, or leaves it pending when there is no ASN yet.
SetRoute(r) ==
    /\ Receive(r, "SET")
    /\ LET hops == Received(r)
           first == routes = <<>>
       IN  IF BadHop \in hops
           THEN UNCHANGED <<staged, routes, pending>>
           ELSE /\ staged' = [staged EXCEPT !.route = Reroute(r, hops),
                                            !.redist = @ \/ (first /\ "asn" \in dir)]
                /\ pending' = (pending \/ (first /\ "asn" \notin dir))
                /\ routes' = With(routes, r, hops)
    /\ Handled(r)
    /\ UNCHANGED <<dir, peer, past>>

\* Mutant: the deletion of the last route leaves the redistribution pending.
DelRouteStaysPending(r) ==
    /\ Receive(r, "DEL")
    /\ LET last == DOMAIN routes = {r} IN
       staged' = [staged EXCEPT !.route = Reroute(r, {}), !.redist = @ /\ ~(last /\ "asn" \in dir)]
    /\ routes' = Without(routes, {r})
    /\ Handled(r)
    /\ UNCHANGED <<dir, peer, pending, past>>

\* del_handler: the last route of the VRF turns the redistribution off.
DelRoute(r) ==
    /\ Receive(r, "DEL")
    /\ LET last == DOMAIN routes = {r} IN
       /\ staged' = [staged EXCEPT !.route = Reroute(r, {}), !.redist = @ /\ ~(last /\ "asn" \in dir)]
       /\ pending' = (pending /\ ~last)
    /\ routes' = Without(routes, {r})
    /\ Handled(r)
    /\ UNCHANGED <<dir, peer, past>>

---------------------------------------------------------------------------
(* BGPAllowListMgr: one deployment, one address family.  Both handlers read *)
(* FRR's running configuration, not what is scheduled.                      *)

\* The sequence numbers: entries without a community come after the others.
SeqNumbers(c) == IF c = Empty THEN SeqMax + 1..2 * SeqMax ELSE 1..SeqMax
Free(c) == SeqNumbers(c) \ DOMAIN frr.map

\* __find_route_map_entry.
Entries(m, c) == {n \in DOMAIN m : m[n] = c}

\* __is_prefix_list_valid: rules the row does not have are not looked at.
ListValid(c, list) == c \in DOMAIN frr.lists /\ Range(list) \subseteq Range(frr.lists[c])

\* __update_prefix_list: the rules overwrite by position; the old list is
\* removed first when the running configuration has it.
NewList(c, list) ==
    LET old == IF c \in DOMAIN staged.lists /\ c \notin DOMAIN frr.lists THEN staged.lists[c] ELSE <<>>
    IN  list \o SubSeq(old, Len(list) + 1, Len(old))

\* Scheduled changes of the allow list that the running configuration lacks.
Unseen == staged.lists # frr.lists \/ staged.map # frr.map

\* Mutant: the smallest number is taken, used or not.
SetListFirst(c) ==
    /\ Receive(c, "SET")
    /\ staged' = [staged EXCEPT
         !.lists = IF ListValid(c, Received(c)) THEN @ ELSE With(@, c, NewList(c, Received(c))),
         !.map = IF Entries(frr.map, c) # {} THEN @ ELSE With(@, Min(SeqNumbers(c)), c)]
    /\ past' = [past EXCEPT !.stale = @ \/ Unseen]
    /\ Handled(c)
    /\ UNCHANGED <<dir, peer, routes, pending>>

\* __update_policy.  RuntimeError when the numbers are used up.
SetList(c) ==
    /\ Receive(c, "SET")
    /\ IF Entries(frr.map, c) = {} /\ Free(c) = {}
       THEN Restart /\ UNCHANGED <<scene, rows, events>>
       ELSE /\ staged' = [staged EXCEPT
                 !.lists = IF ListValid(c, Received(c)) THEN @ ELSE With(@, c, NewList(c, Received(c))),
                 !.map = IF Entries(frr.map, c) # {} THEN @ ELSE With(@, Min(Free(c)), c)]
            /\ past' = [past EXCEPT !.stale = @ \/ Unseen]
            /\ Handled(c)
            /\ UNCHANGED <<dir, peer, routes, pending>>

\* __remove_policy.
DelList(c) ==
    /\ Receive(c, "DEL")
    /\ staged' = [staged EXCEPT
         !.lists = Without(@, {c} \intersect DOMAIN frr.lists),
         !.map = Without(@, Entries(frr.map, c))]
    /\ past' = [past EXCEPT !.stale = @ \/ Unseen]
    /\ Handled(c)
    /\ UNCHANGED <<dir, peer, routes, pending>>

---------------------------------------------------------------------------
(* CONFIG_DB, and the whole *)

Change(k, msg) ==
    /\ k \in scene.vary /\ events < scene.max
    /\ events' = events + 1
    /\ inbox' = [inbox EXCEPT ![Table(k)] = Append(@, msg)]
    /\ UNCHANGED <<scene, daemonVars>>

SetRow(k) ==
    \E d \in Data(k) :
      /\ k \in DOMAIN rows => rows[k] # d
      /\ rows' = With(rows, k, d)
      /\ Change(k, SetMsg(k, d))

DelRow(k) ==
    /\ k \in DOMAIN rows
    /\ rows' = Without(rows, {k})
    /\ Change(k, DelMsg(k))

Daemon ==
    \/ SetPeer \/ DelPeer \/ Commit
    \/ \E k \in Dep : SetDep(k) \/ DelDep(k)
    \/ \E r \in Route : SetRoute(r) \/ DelRoute(r)
    \/ \E c \in Comm : SetList(c) \/ DelList(c)

Next == Daemon \/ \E k \in Key : SetRow(k) \/ DelRow(k)

Spec == Init /\ [][Next]_vars

\* The loop keeps running.
FairSpec == Spec /\ WF_vars(Daemon)

---------------------------------------------------------------------------
TypeOK ==
    /\ scene \in Scene /\ events \in 0..scene.max
    /\ DOMAIN rows \subseteq Key
    /\ \A t \in Tables : \A i \in DOMAIN inbox[t] : inbox[t][i].key \in Key
    /\ round.cur \in Tables \union {NoTable} /\ round.seen \subseteq Tables
    /\ dir \subseteq Dep \union {"vnet"}
    /\ peer.known \in BOOLEAN
    /\ \A i \in DOMAIN peer.queue : peer.queue[i] \in {"up", "down", "unset"}
    /\ DOMAIN routes \subseteq Route /\ pending \in BOOLEAN
    /\ {staged.peer, frr.peer} \subseteq {"none", "up", "down"}
    /\ \A r \in Route : staged.route[r] \union frr.route[r] \subseteq UNION RouteRow
    /\ DOMAIN staged.lists \union DOMAIN frr.lists \subseteq Comm
    /\ DOMAIN staged.map \union DOMAIN frr.map \subseteq 1..2 * SeqMax

\* Nothing to pop and nothing to commit.
Idle == round.cur = NoTable /\ \A t \in Tables : inbox[t] = <<>>

Configured(k) == k \in DOMAIN rows

\* A request that could be carried out is never left in the queue: whatever
\* the order in which the dependencies come, go and come back, the put that
\* completes them retries the queue (Directory.put, Manager.on_deps_change).
QueueWaits == peer.queue # <<>> => Waits(dir)

\* When the daemon is idle, a configured neighbour whose dependencies are
\* there is in FRR with its admin status: no request is lost or overtaken by
\* an older one of the queue.
PeerInstalled ==
    Idle /\ ~past.lost /\ ~past.ignored /\ Configured("peer") /\ ~Waits(dir)
    => /\ frr.peer # "none"
       /\ rows["peer"] # "unset" => frr.peer = rows["peer"]

\* When the daemon is idle, a neighbour that is no longer configured is not
\* in FRR, unless its deletion met a request still in the queue, which
\* del_handler does not take out (the neighbour then comes back).
PeerRemoved ==
    Idle /\ ~past.lost /\ ~past.orphan /\ ~Configured("peer") => frr.peer = "none"

\* When the daemon is idle, FRR has the next hops of every valid row and no
\* other, although set_handler and del_handler only send what differs from
\* what they remember.
RoutesAgree ==
    Idle /\ ~past.lost => \A r \in Route :
      /\ Configured(r) /\ BadHop \notin rows[r] => frr.route[r] = rows[r]
      /\ ~Configured(r) => frr.route[r] = {}

\* When the daemon is idle and the ASN is there, static routes are
\* redistributed when there is one and, if the ASN was always there since it
\* came, only then: set_handler, del_handler and on_bgp_asn_change agree.
RedistributionFollows ==
    Idle /\ ~past.lost =>
      /\ routes # <<>> /\ "asn" \in dir => frr.redist
      /\ frr.redist /\ ~past.noasn => routes # <<>>

\* When the daemon is idle and no handler read a configuration older than
\* what was scheduled, each configured list has one route-map entry and a
\* prefix list that permits its prefixes, and the others have none.
AllowListCovers ==
    Idle /\ ~past.lost /\ ~past.stale => \A c \in Comm :
      /\ Configured(c) => /\ c \in DOMAIN frr.lists /\ Range(rows[c]) \subseteq Range(frr.lists[c])
                          /\ Cardinality(Entries(frr.map, c)) = 1
      /\ ~Configured(c) => c \notin DOMAIN frr.lists /\ Entries(frr.map, c) = {}

\* CONFIG_DB changing finitely often, the daemon becomes idle for good: no
\* configuration restarts it again and again.
ConfigSettles == <>[]Idle

\* Each configured list has a route-map entry of its own
\* (__find_next_seq_number: the "next available" number is free).
OwnEntry ==
    Idle /\ ~past.lost => \A c \in Comm : Configured(c) => Entries(frr.map, c) # {}
=============================================================================
