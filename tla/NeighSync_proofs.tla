-------------------------- MODULE NeighSync_proofs --------------------------
(***************************************************************************)
(* Proofs about NeighSync, for any MAC addresses, scenarios and bounds: the *)
(* state is typed, the list of a daemon follows its kernel, and what is     *)
(* announced arrives.                                                       *)
(*                                                                          *)
(* A daemon lags behind its kernel by the notifications it has not read, so *)
(* that list and kernel agree is not inductive.  What every handler keeps   *)
(* is that the last of the notifications, or the list where there is none,  *)
(* tells what the kernel has.  For an announcement the lists, the queues and *)
(* the messages of both daemons go together: see KInv.                      *)
(***************************************************************************)
EXTENDS NeighSync, TLAPS

Told(s) == IF s.nl = <<>> THEN s.list.mac = s.kernel ELSE s.nl[Len(s.nl)].mac = s.kernel

\* where a list follows the kernel
Follows == scene.itf = "vlan" /\ (scene.family = "ndisc" => OneMac)

Good(s) == s \in Daemon /\ (Follows => Told(s))

LEMMA PeerType == \A n \in Node : Peer(n) \in Node /\ Peer(n) # n
  BY NeighAssumption DEF Node, Peer

LEMMA UpdateType ==
  /\ Del \in Update /\ Del.mac = "none"
  /\ \A mac \in Mac : Add(mac) \in Update /\ Add(mac).mac = mac
  BY Zenon DEF Del, Add, Update

LEMMA UpdateCases ==
  ASSUME NEW u \in Update
  PROVE  \/ u.op = "ADD" /\ u.mac \in Mac /\ u = Add(u.mac)
         \/ u.op = "DEL" /\ u.mac = "none" /\ u = Del
  BY Zenon DEF Del, Add, Update

LEMMA EntryType ==
  ASSUME NEW s \in Daemon
  PROVE  /\ Listed(s) => s.list \in Entry /\ s.list.mac \in Mac /\ s.list.op \in {"LIF", "ADD"}
         /\ ~Listed(s) => s.list = NoEntry /\ s.list.mac = "none"
  BY DEF Daemon, Listed, Entry, NoEntry

LEMMA LastAppended ==
  ASSUME NEW T, NEW q \in Seq(T), NEW x \in T
  PROVE  /\ Append(q, x) \in Seq(T) /\ Append(q, x) # <<>>
         /\ Append(q, x)[Len(Append(q, x))] = x
  OBVIOUS

-----------------------------------------------------------------------------
(* The handlers keep Good.  A change of the kernel is the last notification. *)

LEMMA KernelResolveGood ==
  ASSUME NEW s \in Daemon, NEW mac \in Mac
  PROVE  KernelResolve(s, mac) \in Daemon /\ Told(KernelResolve(s, mac))
<1>1. s.nl \in Seq(Update) /\ Add(mac) \in Update /\ Add(mac).mac = mac
  BY UpdateType, Zenon DEF Daemon
<1> DEFINE q == Append(s.nl, Add(mac))
<1>2. q \in Seq(Update) /\ q # <<>> /\ q[Len(q)].mac = mac
  BY <1>1, LastAppended
<1>3. KernelResolve(s, mac) = [s EXCEPT !.kernel = mac, !.nl = q]
  BY Zenon DEF KernelResolve
<1> HIDE DEF q
<1>4. KernelResolve(s, mac) \in Daemon
  BY <1>2, <1>3, ZenonT(40) DEF Daemon
<1>5. KernelResolve(s, mac).nl = q /\ KernelResolve(s, mac).kernel = mac
  BY <1>3, Zenon DEF Daemon
<1> QED
  BY <1>2, <1>4, <1>5, Zenon DEF Told

LEMMA KernelDelGood ==
  ASSUME NEW s \in Daemon, s.kernel # "none"
  PROVE  KernelDel(s) \in Daemon /\ Told(KernelDel(s))
<1>1. s.nl \in Seq(Update) /\ Del \in Update /\ Del.mac = "none"
  BY UpdateType, Zenon DEF Daemon
<1> DEFINE q == Append(s.nl, Del)
<1>2. q \in Seq(Update) /\ q # <<>> /\ q[Len(q)].mac = "none"
  BY <1>1, LastAppended
<1>3. KernelDel(s) = [s EXCEPT !.kernel = "none", !.nl = q]
  BY Zenon DEF KernelDel
<1> HIDE DEF q
<1>4. KernelDel(s) \in Daemon
  BY <1>2, <1>3, ZenonT(40) DEF Daemon
<1>5. KernelDel(s).nl = q /\ KernelDel(s).kernel = "none"
  BY <1>3, Zenon DEF Daemon
<1> QED
  BY <1>2, <1>4, <1>5, Zenon DEF Told

\* what the kernel operations leave alone
LEMMA KernelFrame ==
  ASSUME NEW s \in Daemon, NEW mac
  PROVE  /\ KernelSet(s, mac).list = s.list /\ KernelDel(s).list = s.list
         /\ KernelSet(s, mac).out = s.out /\ KernelDel(s).out = s.out
         /\ KernelSet(s, mac).kernel = mac /\ KernelDel(s).kernel = "none"
         /\ s.kernel = mac => KernelSet(s, mac) = s
  BY Zenon DEF KernelSet, KernelResolve, KernelDel, Daemon

LEMMA KernelSetGood ==
  ASSUME NEW s, Good(s), NEW mac \in Mac
  PROVE  Good(KernelSet(s, mac))
  BY KernelResolveGood, Zenon DEF Good, KernelSet

LEMMA KernelDelKeeps ==
  ASSUME NEW s, Good(s)
  PROVE  Good(KernelDel(s))
<1>1. CASE s.kernel = "none"
  BY <1>1, Zenon DEF KernelDel
<1>2. CASE s.kernel # "none"
  BY <1>2, KernelDelGood, Zenon DEF Good
<1> QED
  BY <1>1, <1>2, Zenon

\* Told depends on three fields only.
LEMMA SameTold ==
  ASSUME NEW s, NEW t, t.nl = s.nl, t.list.mac = s.list.mac, t.kernel = s.kernel, Told(s)
  PROVE  Told(t)
  BY Zenon DEF Told

LEMMA EnqueueGood ==
  ASSUME NEW s, Good(s), NEW u \in Update
  PROVE  Good(Enqueue(s, u)) /\ Enqueue(s, u).out = s.out
<1> DEFINE t == [s EXCEPT !.q = Append(s.q, u)]
<1>1. Append(s.q, u) \in Seq(Update)
  BY DEF Good, Daemon
<1>2. t \in Daemon /\ t.nl = s.nl /\ t.list = s.list /\ t.kernel = s.kernel /\ t.out = s.out
  BY <1>1, ZenonT(40) DEF Good, Daemon
<1>3. Good(t)
  BY <1>2, SameTold, ZenonT(40) DEF Good
<1> QED
  BY <1>2, <1>3, Zenon DEF Enqueue

LEMMA TailLast ==
  ASSUME NEW T, NEW q \in Seq(T), q # <<>>
  PROVE  /\ Head(q) \in T /\ Tail(q) \in Seq(T)
         /\ Tail(q) = <<>> => q[Len(q)] = Head(q)
         /\ Tail(q) # <<>> => Tail(q)[Len(Tail(q))] = q[Len(q)]
<1>1. Head(q) \in T /\ Tail(q) \in Seq(T) /\ Head(q) = q[1]
  OBVIOUS
<1>2. Len(q) \in Nat \ {0} /\ Len(Tail(q)) = Len(q) - 1
  OBVIOUS
<1>3. Tail(q) = <<>> => Len(q) = 1
  BY <1>2
<1>4. Tail(q) # <<>> => Len(Tail(q)) \in 1..Len(Tail(q))
  BY <1>1, <1>2
<1>5. \A i \in 1..Len(Tail(q)) : Tail(q)[i] = q[i + 1]
  OBVIOUS
<1> QED
  BY <1>1, <1>2, <1>3, <1>4, <1>5

LEMMA NewListGood ==
  ASSUME NEW s \in Daemon, NEW e \in Entry \cup {NoEntry},
         Follows => IF s.nl = <<>> THEN e.mac = s.kernel ELSE Told(s)
  PROVE  Good([s EXCEPT !.list = e])
<1> DEFINE t == [s EXCEPT !.list = e]
<1>1. t \in Daemon /\ t.nl = s.nl /\ t.list = e /\ t.kernel = s.kernel
  BY ZenonT(40) DEF Daemon
<1> QED
  BY <1>1, Zenon DEF Good, Told

\* do_arp_learn_from_kernel: the last notification is what the list then says.
LEMMA LearnGood ==
  ASSUME NEW s, Good(s), s.nl # <<>>, scene \in Scene,
         Listed(s) => s.list.mac \in scene.mac,
         Head(s.nl).op = "ADD" => Head(s.nl).mac \in scene.mac
  PROVE  Good(LearnFromKernel([s EXCEPT !.nl = Tail(s.nl)], Head(s.nl)))
<1> DEFINE t == [s EXCEPT !.nl = Tail(s.nl)]
           u == Head(s.nl)
           new == [mac |-> u.mac, op |-> "LIF"]
<1>1. s \in Daemon /\ s.nl \in Seq(Update)
  BY Zenon DEF Good, Daemon
<1>2. /\ u \in Update /\ Tail(s.nl) \in Seq(Update)
      /\ Tail(s.nl) = <<>> => s.nl[Len(s.nl)] = u
      /\ Tail(s.nl) # <<>> => Tail(s.nl)[Len(Tail(s.nl))] = s.nl[Len(s.nl)]
  BY <1>1, TailLast, Zenon
<1>3. t \in Daemon /\ t.nl = Tail(s.nl) /\ t.list = s.list /\ t.kernel = s.kernel
  BY <1>1, <1>2, ZenonT(40) DEF Daemon
<1>4. Follows => IF t.nl = <<>> THEN u.mac = t.kernel ELSE Told(t)
  BY <1>2, <1>3, Zenon DEF Good, Told
<1>a. /\ Listed(t) => t.list.mac \in scene.mac
      /\ u.op = "ADD" => u.mac \in scene.mac
  BY <1>3, Zenon DEF Listed
<1> SUFFICES Good(LearnFromKernel(t, u))
  BY Zenon
<1> HIDE DEF t, u
<1>5. ASSUME NEW e \in Entry \cup {NoEntry}, e.mac = u.mac
      PROVE  Good([t EXCEPT !.list = e])
  BY <1>3, <1>4, <1>5, NewListGood, ZenonT(40)
<1>6. ASSUME t.list.mac = u.mac \/ ~Follows
      PROVE  Good(t)
  BY <1>3, <1>4, <1>6, Zenon DEF Good, Told
<1>7. CASE u.op = "DEL"
  <2>1. u.mac = "none" /\ NoEntry.mac = "none"
    BY <1>2, <1>7, UpdateCases, Zenon DEF NoEntry
  <2>2. LearnFromKernel(t, u) = Forget(t)
    BY <1>7, Zenon DEF LearnFromKernel, LearnArp, LearnNdisc
  <2>3. CASE Listed(t)
    <3>1. Good([t EXCEPT !.list = NoEntry])
      BY <1>5, <2>1, Zenon
    <3> QED
      BY <2>2, <2>3, <3>1, EnqueueGood, UpdateType, Zenon DEF Forget
  <2>4. CASE ~Listed(t)
    <3>1. Good(t)
      BY <1>3, <1>6, <2>1, <2>4, EntryType, Zenon
    <3> QED
      BY <2>2, <2>4, <3>1, Zenon DEF Forget
  <2> QED
    BY <2>3, <2>4, Zenon
<1>8. CASE u.op # "DEL"
  <2>1. new \in Entry /\ new.mac = u.mac
    BY <1>2, <1>8, UpdateCases, Zenon DEF Entry
  <2>2. \/ LearnFromKernel(t, u) = Learn(t, u)
        \/ LearnFromKernel(t, u) = t /\ (t.list.mac = u.mac \/ ~Follows)
    <3>1. LearnArp(t, u) = Learn(t, u) \/ (LearnArp(t, u) = t /\ t.list.mac = u.mac)
      BY <1>8, Zenon DEF LearnArp
    <3>2. \/ LearnNdisc(t, u) = Learn(t, u)
          \/ LearnNdisc(t, u) = t /\ (OneMac => t.list.mac = u.mac)
      BY <1>a, <1>8, Zenon DEF LearnNdisc, OneMac
    <3>3. scene.family # "ndisc" => scene.family = "arp"
      BY NeighAssumption, Zenon DEF Family
    <3> QED
      BY <3>1, <3>2, <3>3, Zenon DEF LearnFromKernel, Follows
  <2>3. CASE LearnFromKernel(t, u) = Learn(t, u)
    <3>1. Good([t EXCEPT !.list = new])
      BY <1>5, <2>1, Zenon
    <3> QED
      BY <1>2, <2>3, <3>1, EnqueueGood, Zenon DEF Learn
  <2>4. CASE LearnFromKernel(t, u) = t /\ (t.list.mac = u.mac \/ ~Follows)
    BY <1>6, <2>1, <2>4, Zenon
  <2> QED
    BY <2>2, <2>3, <2>4, Zenon
<1> QED
  BY <1>7, <1>8, Zenon

\* do_arp_update_from_reply_packet: the kernel has what is stored.
LEMMA ReplyGood ==
  ASSUME NEW s, Good(s), NEW mac \in Mac
  PROVE  Good(UpdateFromReply(s, mac))
<1> DEFINE e == [mac |-> mac, op |-> "LIF"]
           t == [s EXCEPT !.list = e]
<1>1. e \in Entry /\ e.mac = mac
  BY Zenon DEF Entry
<1>2. s \in Daemon
  BY Zenon DEF Good
<1> HIDE DEF e
<1>3. t \in Daemon /\ t.kernel = s.kernel
  BY <1>1, <1>2, ZenonT(40) DEF Daemon
<1>4. CASE s.kernel = mac
  <2>1. Good(t)
    BY <1>1, <1>2, <1>4, NewListGood, Zenon DEF Good
  <2>2. KernelSet(t, mac) = t
    BY <1>3, <1>4, Zenon DEF KernelSet
  <2> QED
    BY <2>1, <2>2, EnqueueGood, UpdateType, Zenon DEF UpdateFromReply, e
<1>5. CASE s.kernel # mac
  <2>1. Good(KernelSet(t, mac))
    BY <1>3, <1>5, KernelResolveGood, Zenon DEF KernelSet, Good
  <2> QED
    BY <2>1, EnqueueGood, UpdateType, Zenon DEF UpdateFromReply, e
<1> QED
  BY <1>4, <1>5, Zenon

LEMMA SetNeighGood ==
  ASSUME NEW s, Good(s)
  PROVE  Good(SetNeigh(s))
  BY KernelSetGood, EntryType, Zenon DEF SetNeigh, Good

LEMMA UnsetNeighGood ==
  ASSUME NEW s, Good(s)
  PROVE  Good(UnsetNeigh(s))
  BY KernelSetGood, KernelDelKeeps, EntryType, Zenon DEF UnsetNeigh, Good

LEMMA RouteGood ==
  ASSUME NEW s, Good(s)
  PROVE  Good(RouteAdd(s)) /\ Good(RouteDel(s))
  BY SetNeighGood, UnsetNeighGood, Zenon DEF RouteAdd, RouteDel

LEMMA SameFields ==
  ASSUME NEW s \in Daemon
  PROVE  /\ s.state \in {"INIT", "STAGE1", "STAGE2", "EXCHANGE"} /\ s.po \in BOOLEAN
         /\ s.pif \in {"none", "up", "down"} /\ s.changed \in BOOLEAN /\ s.linkEx \in BOOLEAN
         /\ s.q \in Seq(Update) /\ s.out \in Seq(Msg) /\ s.nl \in Seq(Update)
  BY Zenon DEF Daemon

LEMMA PoStateGood ==
  ASSUME NEW s, Good(s), NEW up \in BOOLEAN
  PROVE  Good(PoState(s, up))
<1> DEFINE k == IF up THEN RouteDel(s)
                ELSE IF Exchanging(s) /\ s.pif = "up" THEN RouteAdd(s) ELSE s
           ex == Exchanging(s)
           t == [k EXCEPT !.po = up, !.changed = TRUE, !.linkEx = ex]
<1>1. Good(k)
  BY RouteGood, Zenon
<1>2. ex \in BOOLEAN
  BY Zenon DEF Exchanging
<1>3. PoState(s, up) = t
  BY Zenon DEF PoState
<1> HIDE DEF k, ex
<1>4. t \in Daemon /\ t.nl = k.nl /\ t.list = k.list /\ t.kernel = k.kernel
  BY <1>1, <1>2, ZenonT(40) DEF Good, Daemon
<1> QED
  BY <1>1, <1>3, <1>4, SameTold, ZenonT(40) DEF Good

LEMMA SynInfoGood ==
  ASSUME NEW s, Good(s)
  PROVE  Good(SynInfo(s))
<1> DEFINE e == [s.list EXCEPT !.op = "ADD"]
           q == Append(s.q, Add(s.list.mac))
           t == [s EXCEPT !.list = e, !.q = q]
<1>1. CASE Listed(s)
  <2>1. s \in Daemon /\ s.list \in Entry /\ s.list.mac \in Mac
    BY <1>1, EntryType, Zenon DEF Good
  <2>2. e \in Entry /\ e.mac = s.list.mac
    BY <2>1, Zenon DEF Entry
  <2>3. q \in Seq(Update)
    BY <2>1, UpdateType, SameFields
  <2>4. SynInfo(s) = t
    BY <1>1, <2>1, Zenon DEF SynInfo, Daemon
  <2> HIDE DEF e, q
  <2>5. t \in Daemon /\ t.nl = s.nl /\ t.list = e /\ t.kernel = s.kernel
    BY <2>1, <2>2, <2>3, ZenonT(40) DEF Daemon
  <2> QED
    BY <2>2, <2>4, <2>5, SameTold, ZenonT(40) DEF Good
<1>2. CASE ~Listed(s)
  BY <1>2, Zenon DEF SynInfo
<1> QED
  BY <1>1, <1>2, Zenon

LEMMA PeerLinkGood ==
  ASSUME NEW s, Good(s), NEW up \in BOOLEAN
  PROVE  Good(PeerLink(s, up))
<1> DEFINE k == CASE s.pif = PifState(up) -> s
                  [] s.pif # PifState(up) /\ up /\ ~s.po -> RouteAdd(s)
                  [] s.pif # PifState(up) /\ ~up /\ ~s.po -> RouteDel(s)
                  [] s.pif # PifState(up) /\ up /\ s.po -> SynInfo(s)
                  [] OTHER -> s
           t == [k EXCEPT !.pif = PifState(up)]
<1>1. Good(k)
  <2>1. k \in {s, RouteAdd(s), RouteDel(s), SynInfo(s)}
    BY Zenon
  <2> HIDE DEF k
  <2> QED
    BY <2>1, RouteGood, SynInfoGood, Zenon
<1>2. PeerLink(s, up) = t
  BY Zenon DEF PeerLink
<1> HIDE DEF k
<1>3. PifState(up) \in {"none", "up", "down"}
  BY Zenon DEF PifState
<1>4. t \in Daemon /\ t.nl = k.nl /\ t.list = k.list /\ t.kernel = k.kernel
  BY <1>1, <1>3, ZenonT(40) DEF Good, Daemon
<1> QED
  BY <1>1, <1>2, <1>4, SameTold, ZenonT(40) DEF Good

LEMMA ClearQGood ==
  ASSUME NEW s, Good(s)
  PROVE  Good([s EXCEPT !.q = <<>>])
<1> DEFINE t == [s EXCEPT !.q = <<>>]
<1>1. <<>> \in Seq(Update)
  OBVIOUS
<1>2. t \in Daemon /\ t.nl = s.nl /\ t.list = s.list /\ t.kernel = s.kernel
  BY <1>1, ZenonT(40) DEF Good, Daemon
<1> QED
  BY <1>2, SameTold, ZenonT(40) DEF Good

\* mlacp_fsm_update_arp_entry: on a VLAN the kernel has what is stored.
LEMMA PeerUpdateGood ==
  ASSUME NEW s, Good(s), NEW u \in Update
  PROVE  Good(PeerUpdate(s, u))
<1> DEFINE p == Program(s, u)
           e == IF u.op = "DEL" THEN NoEntry ELSE Stored(s, u)
           t == [p EXCEPT !.list = e]
<1>1. Good(p) /\ (Alive(s) => p.kernel = u.mac)
  <2>1. CASE ~Alive(s)
    BY <2>1, Zenon DEF Program
  <2>2. CASE Alive(s) /\ u.op = "ADD"
    <3>1. p = KernelSet(s, u.mac) /\ u.mac \in Mac
      BY <2>2, UpdateCases, Zenon DEF Program
    <3> QED
      BY <3>1, KernelSetGood, KernelFrame DEF Good
  <2>3. CASE Alive(s) /\ u.op = "DEL"
    <3>1. p = KernelDel(s) /\ u.mac = "none"
      BY <2>3, UpdateCases, Zenon DEF Program
    <3> QED
      BY <3>1, KernelDelKeeps, KernelFrame, Zenon DEF Good
  <2> QED
    BY <2>1, <2>2, <2>3, UpdateCases, Zenon
<1>2. e \in Entry \cup {NoEntry} /\ e.mac = u.mac
  <2>1. CASE u.op = "DEL"
    BY <2>1, UpdateCases, Zenon DEF NoEntry
  <2>2. CASE u.op # "DEL"
    <3>1. u.mac \in Mac /\ e = [mac |-> u.mac, op |-> IF Listed(s) THEN s.list.op ELSE "ADD"]
      BY <2>2, UpdateCases, Zenon DEF Stored
    <3>2. (IF Listed(s) THEN s.list.op ELSE "ADD") \in {"LIF", "ADD"}
      BY EntryType, Zenon DEF Good
    <3> QED
      BY <3>1, <3>2 DEF Entry
  <2> QED
    BY <2>1, <2>2, Zenon
<1>3. Follows => Alive(s)
  BY Zenon DEF Follows, Alive
<1> HIDE DEF p, e
<1>4. Good(t)
  BY <1>1, <1>2, <1>3, NewListGood, Zenon DEF Good
<1>5. [p EXCEPT !.list = e, !.q = <<>>] = [t EXCEPT !.q = <<>>]
  BY <1>1, Zenon DEF Good, Daemon
<1>6. PeerUpdate(s, u) = s \/ PeerUpdate(s, u) = [p EXCEPT !.list = e, !.q = <<>>]
  BY Zenon DEF PeerUpdate, p, e
<1> QED
  BY <1>4, <1>5, <1>6, ClearQGood, ZenonT(40)

LEMMA EnterExchangeGood ==
  ASSUME NEW s, Good(s)
  PROVE  Good(EnterExchange(s))
<1> DEFINE k == [s EXCEPT !.state = "EXCHANGE"]
           r == IF scene.itf = "po" /\ ~s.linkEx /\ ~s.po /\ s.pif = "up" THEN RouteAdd(k) ELSE k
           t == [r EXCEPT !.linkEx = TRUE]
<1>1. k \in Daemon /\ k.nl = s.nl /\ k.list = s.list /\ k.kernel = s.kernel
  BY ZenonT(40) DEF Good, Daemon
<1>2. Good(k)
  BY <1>1, SameTold, ZenonT(40) DEF Good
<1>3. EnterExchange(s) = t
  BY Zenon DEF EnterExchange
<1> HIDE DEF k
<1>4. Good(r)
  BY <1>2, RouteGood, Zenon
<1> HIDE DEF r
<1>5. t \in Daemon /\ t.nl = r.nl /\ t.list = r.list /\ t.kernel = r.kernel
  BY <1>4, ZenonT(40) DEF Good, Daemon
<1> QED
  BY <1>3, <1>4, <1>5, SameTold, ZenonT(40) DEF Good

LEMMA SendGood ==
  ASSUME NEW s, Good(s)
  PROVE  Good(SendNeigh(s))
<1> DEFINE ms == [i \in DOMAIN s.q |-> [type |-> "NEIGH", update |-> s.q[i]]]
           o == s.out \o ms
           t == [s EXCEPT !.q = <<>>, !.out = o]
<1>1. s \in Daemon /\ s.q \in Seq(Update) /\ s.out \in Seq(Msg)
  BY SameFields, Zenon DEF Good
<1>2. \A u \in Update : [type |-> "NEIGH", update |-> u] \in Msg
  BY Zenon DEF Msg
<1>3. ms \in Seq(Msg)
  BY <1>1, <1>2
<1>4. o \in Seq(Msg) /\ <<>> \in Seq(Update)
  BY <1>1, <1>3
<1>5. SendNeigh(s) = t
  BY Zenon DEF SendNeigh
<1> HIDE DEF o
<1>6. t \in Daemon /\ t.nl = s.nl /\ t.list = s.list /\ t.kernel = s.kernel
  BY <1>1, <1>4, ZenonT(40) DEF Daemon
<1> QED
  BY <1>5, <1>6, SameTold, ZenonT(40) DEF Good

\* what is written before the updates
LEMMA WriteGood ==
  ASSUME NEW s, Good(s), NEW o \in Seq(Msg)
  PROVE  /\ Good([s EXCEPT !.out = o])
         /\ Good([s EXCEPT !.changed = FALSE, !.out = o])
<1> DEFINE t == [s EXCEPT !.out = o]
           r == [s EXCEPT !.changed = FALSE, !.out = o]
<1>1. t \in Daemon /\ t.nl = s.nl /\ t.list = s.list /\ t.kernel = s.kernel
  BY ZenonT(40) DEF Good, Daemon
<1>2. r \in Daemon /\ r.nl = s.nl /\ r.list = s.list /\ r.kernel = s.kernel
  BY ZenonT(40) DEF Good, Daemon
<1> QED
  BY <1>1, <1>2, SameTold, ZenonT(40) DEF Good

LEMMA ExchangeSendGood ==
  ASSUME NEW s, Good(s)
  PROVE  Good(ExchangeSend(s))
<1> DEFINE o == IF s.changed THEN Append(s.out, [type |-> "STATE", up |-> s.po]) ELSE s.out
<1>1. [type |-> "STATE", up |-> s.po] \in Msg /\ s.out \in Seq(Msg)
  BY SameFields, Zenon DEF Good, Msg
<1>2. o \in Seq(Msg)
  BY <1>1
<1>3. ExchangeSend(s) = SendNeigh([s EXCEPT !.changed = FALSE, !.out = o])
  BY Zenon DEF ExchangeSend
<1> HIDE DEF o
<1> QED
  BY <1>2, <1>3, WriteGood, SendGood, ZenonT(40)

LEMMA ReceiveGood ==
  ASSUME NEW n \in Node, NEW s, Good(s), NEW m \in Msg
  PROVE  Good(Receive(n, s, m))
<1>1. CASE m.type = "DONE"
  <2> DEFINE k == [s EXCEPT !.state = "STAGE2"]
  <2>1. k \in Daemon /\ k.nl = s.nl /\ k.list = s.list /\ k.kernel = s.kernel
    BY ZenonT(40) DEF Good, Daemon
  <2>2. Good(k)
    BY <2>1, SameTold, ZenonT(40) DEF Good
  <2> QED
    BY <1>1, <2>2, EnterExchangeGood, Zenon DEF Receive
<1>2. CASE m.type = "STATE"
  BY <1>2, PeerLinkGood, Zenon DEF Receive, Msg
<1>3. CASE m.type = "NEIGH"
  BY <1>3, PeerUpdateGood, Zenon DEF Receive, Msg
<1> QED
  BY <1>1, <1>2, <1>3, Zenon DEF Msg

-----------------------------------------------------------------------------
(* The invariant and its steps. *)

Inv == TypeOK /\ \A n \in Node : Good(daemon[n])

LEMMA DaemonStep ==
  ASSUME Inv, scene' = scene, NEW n \in Node, NEW s, Good(s), daemon' = [daemon EXCEPT ![n] = s]
  PROVE  daemon' \in [Node -> Daemon] /\ (\A x \in Node : Good(daemon[x]))'
<1>1. daemon \in [Node -> Daemon]
  BY Zenon DEF Inv, TypeOK
<1>2. \A x \in Node : daemon'[x] = IF x = n THEN s ELSE daemon[x]
  BY <1>1, Zenon
<1>3. \A x \in Node : Good(daemon'[x])
  BY <1>2, Zenon DEF Inv
<1>4. daemon' \in [Node -> Daemon]
  BY <1>1, <1>2, Zenon DEF Good
<1>5. Follows' = Follows
  BY Zenon DEF Follows, OneMac
<1> QED
  BY <1>3, <1>4, <1>5, Zenon DEF Good, Told

\* a step in which a daemon sends: what it wrote goes to the peer
LEMMA StepGood ==
  ASSUME Inv, scene' = scene, NEW n \in Node, NEW s, Good(s), NEW rest \in Seq(Msg), Step(n, s, rest)
  PROVE  /\ daemon' \in [Node -> Daemon] /\ (\A x \in Node : Good(daemon[x]))'
         /\ wire' \in [Node -> Seq(Msg)]
<1>1. <<>> \in Seq(Msg)
  BY SMTT(40)
<1>2. Good([s EXCEPT !.out = <<>>])
  BY <1>1, WriteGood, ZenonT(40)
<1>3. s.out \in Seq(Msg) /\ wire \in [Node -> Seq(Msg)] /\ Peer(n) \in Node
  BY SameFields, PeerType, Zenon DEF Good, Inv, TypeOK
<1>4. wire[Peer(n)] \o s.out \in Seq(Msg)
  BY <1>3
<1>5. wire' \in [Node -> Seq(Msg)]
  BY <1>3, <1>4, ZenonT(40) DEF Step
<1>6. daemon' \in [Node -> Daemon] /\ (\A x \in Node : Good(daemon[x]))'
  BY <1>2, DaemonStep, ZenonT(40) DEF Step
<1> QED
  BY <1>5, <1>6, Zenon

LEMMA InitInv == Init => Inv
<1> SUFFICES ASSUME Init
             PROVE  Inv
  BY Zenon
<1>1. <<>> \in Seq(Update) /\ <<>> \in Seq(Msg)
  OBVIOUS
<1>2. PICK po \in [Node -> BOOLEAN] :
        daemon = [n \in Node |-> [state |-> "INIT", po |-> po[n], pif |-> "none", changed |-> FALSE,
                                  linkEx |-> FALSE, list |-> NoEntry, q |-> <<>>, kernel |-> "none",
                                  nl |-> <<>>, out |-> <<>>]]
  BY ZenonT(40) DEF Init
<1>3. ASSUME NEW n \in Node
      PROVE  daemon[n] \in Daemon /\ Told(daemon[n])
  BY <1>1, <1>2, <1>3, Zenon DEF Daemon, Told, NoEntry
<1>4. TypeOK
  BY <1>1, <1>2, <1>3, NeighAssumption DEF Init, TypeOK
<1> QED
  BY <1>3, <1>4, Zenon DEF Inv, Good

LEMMA ConnectInv ==
  ASSUME Inv, scene' = scene, Connect
  PROVE  Inv'
<1> DEFINE k(n) == [daemon[n] EXCEPT !.state = "STAGE1"]
<1>1. ASSUME NEW n \in Node
      PROVE  Good(SynInfo(k(n)))
  <2>1. k(n) \in Daemon /\ k(n).nl = daemon[n].nl /\ k(n).list = daemon[n].list /\ k(n).kernel = daemon[n].kernel
    BY Zenon DEF Inv, Good, Daemon
  <2>2. Good(k(n))
    BY <2>1, SameTold, ZenonT(40) DEF Inv, Good
  <2> QED
    BY <2>2, SynInfoGood, Zenon
<1>2. daemon' = [n \in Node |-> SynInfo(k(n))]
  BY Zenon DEF Connect
<1> HIDE DEF k
<1>3. daemon' \in [Node -> Daemon] /\ \A n \in Node : Good(daemon'[n])
  BY <1>1, <1>2, Zenon DEF Good
<1>4. (\A n \in Node : Good(daemon[n]))'
  BY <1>3, Zenon DEF Good, Told, Follows, OneMac
<1>5. <<>> \in Seq(Msg)
  OBVIOUS
<1>6. TypeOK'
  BY <1>3, <1>5, Zenon DEF Connect, Inv, TypeOK
<1> QED
  BY <1>4, <1>6, Zenon DEF Inv

LEMMA AllInfoInv ==
  ASSUME Inv, scene' = scene, NEW n \in Node, AllInfo(n)
  PROVE  Inv'
<1> DEFINE o == <<[type |-> "STATE", up |-> daemon[n].po]>>
           s == SendNeigh([daemon[n] EXCEPT !.changed = FALSE, !.out = o])
           k == [s EXCEPT !.out = Append(s.out, [type |-> "DONE"])]
           r == IF n = Lo THEN [k EXCEPT !.state = "STAGE2"] ELSE EnterExchange(k)
<1>1. o \in Seq(Msg)
  <2>1. [type |-> "STATE", up |-> daemon[n].po] \in Msg
    BY SameFields, Zenon DEF Inv, Good, Msg
  <2> QED
    BY <2>1
<1>2. Good(s)
  BY <1>1, WriteGood, SendGood, ZenonT(40) DEF Inv
<1>3. Step(n, r, wire[n]) /\ UNCHANGED <<open, events, drops>>
  BY Zenon DEF AllInfo
<1> HIDE DEF s
<1>4. Append(s.out, [type |-> "DONE"]) \in Seq(Msg)
  <2>1. [type |-> "DONE"] \in Msg
    BY Zenon DEF Msg
  <2> QED
    BY <1>2, <2>1, SameFields DEF Good
<1>5. Good(k)
  BY <1>2, <1>4, WriteGood, ZenonT(40)
<1> HIDE DEF k
<1>6. Good([k EXCEPT !.state = "STAGE2"])
  <2> DEFINE t == [k EXCEPT !.state = "STAGE2"]
  <2>1. t \in Daemon /\ t.nl = k.nl /\ t.list = k.list /\ t.kernel = k.kernel
    BY <1>5, ZenonT(40) DEF Good, Daemon
  <2> QED
    BY <1>5, <2>1, SameTold, ZenonT(40) DEF Good
<1>7. Good(r) /\ wire[n] \in Seq(Msg)
  BY <1>5, <1>6, EnterExchangeGood, Zenon DEF Inv, TypeOK
<1> HIDE DEF r
<1> QED
  BY <1>3, <1>7, StepGood, Zenon DEF Inv, TypeOK

LEMMA SendInv ==
  ASSUME Inv, scene' = scene, NEW n \in Node, Send(n)
  PROVE  Inv'
<1>1. Good(ExchangeSend(daemon[n])) /\ wire[n] \in Seq(Msg)
  BY ExchangeSendGood, Zenon DEF Inv, TypeOK
<1>2. Step(n, ExchangeSend(daemon[n]), wire[n]) /\ UNCHANGED <<open, events, drops>>
  BY Zenon DEF Send
<1> QED
  BY <1>1, <1>2, StepGood, Zenon DEF Inv, TypeOK

LEMMA HandleInv ==
  ASSUME Inv, scene' = scene, NEW n \in Node, Handle(n)
  PROVE  Inv'
<1> DEFINE s == Receive(n, daemon[n], Head(wire[n]))
           r == IF Exchanging(s) THEN ExchangeSend(s) ELSE s
<1>1. wire[n] \in Seq(Msg) /\ wire[n] # <<>>
  BY Zenon DEF Handle, Inv, TypeOK
<1>2. Head(wire[n]) \in Msg /\ Tail(wire[n]) \in Seq(Msg)
  BY <1>1
<1>3. Good(s)
  BY <1>2, ReceiveGood, Zenon DEF Inv
<1>4. Step(n, r, Tail(wire[n])) /\ UNCHANGED <<open, events, drops>>
  BY Zenon DEF Handle
<1> HIDE DEF s
<1>5. Good(r)
  BY <1>3, ExchangeSendGood, Zenon
<1> HIDE DEF r
<1> QED
  BY <1>2, <1>4, <1>5, StepGood, ZenonT(40) DEF Inv, TypeOK

LEMMA DisconnectInv ==
  ASSUME Inv, scene' = scene, NEW n \in Node, Disconnect(n), events' = events, drops' \in 0..MaxDrop
  PROVE  Inv'
<1> DEFINE t == [daemon[n] EXCEPT !.state = "INIT", !.pif = "none", !.q = <<>>]
<1>1. <<>> \in Seq(Update) /\ <<>> \in Seq(Msg)
  OBVIOUS
<1>2. /\ t \in Daemon /\ t.nl = daemon[n].nl /\ t.list = daemon[n].list
      /\ t.kernel = daemon[n].kernel
  BY <1>1, ZenonT(40) DEF Inv, Good, Daemon
<1>3. Good(t)
  BY <1>2, SameTold, ZenonT(40) DEF Inv, Good
<1>4. daemon' = [daemon EXCEPT ![n] = t]
  BY Zenon DEF Disconnect
<1> HIDE DEF t
<1>5. daemon' \in [Node -> Daemon] /\ (\A x \in Node : Good(daemon[x]))'
  BY <1>3, <1>4, DaemonStep, ZenonT(40)
<1>6. open' \in [Node -> BOOLEAN] /\ wire' \in [Node -> Seq(Msg)]
  BY <1>1, Zenon DEF Disconnect, Inv, TypeOK
<1> QED
  BY <1>5, <1>6, Zenon DEF Inv, TypeOK

LEMMA LossInv ==
  ASSUME Inv, scene' = scene, NEW n \in Node, Lose(n) \/ Eof(n)
  PROVE  Inv'
<1>1. drops' \in 0..MaxDrop
  BY NeighAssumption DEF Lose, Eof, Inv, TypeOK
<1> QED
  BY <1>1, DisconnectInv, Zenon DEF Lose, Eof

LEMMA LocalInv ==
  ASSUME Inv, scene' = scene, NEW n \in Node, NEW kind, NEW s, Good(s), Local(n, kind, s)
  PROVE  Inv'
<1>1. events' \in 0..MaxEvent
  BY NeighAssumption DEF Local, Inv, TypeOK
<1> QED
  BY <1>1, DaemonStep, ZenonT(40) DEF Local, Inv, TypeOK

LEMMA EventInv ==
  ASSUME Inv, scene' = scene, NEW n \in Node,
         KernelLearn(n) \/ KernelAge(n) \/ ReplyPacket(n) \/ PoChange(n)
  PROVE  Inv'
<1>1. scene.mac \subseteq Mac /\ daemon[n] \in Daemon /\ Good(daemon[n])
  BY NeighAssumption, Zenon DEF Inv, TypeOK
<1>2. CASE KernelLearn(n)
  BY <1>1, <1>2, KernelResolveGood, LocalInv, Zenon DEF KernelLearn, Good
<1>3. CASE KernelAge(n)
  BY <1>1, <1>3, KernelDelKeeps, LocalInv, Zenon DEF KernelAge
<1>4. CASE ReplyPacket(n)
  <2>1. PICK mac \in Mac : Local(n, "reply", UpdateFromReply(KernelResolve(daemon[n], mac), mac))
    BY <1>1, <1>4, Zenon DEF ReplyPacket
  <2>2. Good(KernelResolve(daemon[n], mac))
    BY <1>1, KernelResolveGood, Zenon DEF Good
  <2> QED
    BY <2>1, <2>2, ReplyGood, LocalInv, Zenon
<1>5. CASE PoChange(n)
  <2>1. Good(PoState(daemon[n], ~daemon[n].po))
    BY <1>1, PoStateGood, SameFields, ZenonT(40)
  <2> QED
    BY <1>5, <2>1, LocalInv, Zenon DEF PoChange
<1> QED
  BY <1>2, <1>3, <1>4, <1>5, Zenon

-----------------------------------------------------------------------------
(* What the peer is told.  Where neighbours stay no withdrawal exists, and a *)
(* list keeps what it has; an entry that was announced is in the list of the *)
(* peer, or the announcement is still on its way.                            *)

Fixed == Kept /\ scene.family = "arp" /\ scene.itf = "po"

Fitting(u) == (u.op = "ADD" => u.mac \in scene.mac) /\ (Kept => u.op = "ADD")
Within(q) == \A i \in DOMAIN q : Fitting(q[i])

\* daemon s, whose peer's port channel is up or not
Fit(s, up) ==
    /\ Within(s.nl) /\ Within(s.q)
    /\ s.kernel \in scene.mac \cup {"none"}
    /\ Listed(s) => s.list.mac \in scene.mac
    /\ Fixed => s.pif \in {"none", PifState(up)} /\ (~s.po /\ up => s.kernel = "none")
    /\ Kept /\ s.q # <<>> => Listed(s)

\* the kernel may have a neighbour
CanSet(s, up) == Fixed => s.po \/ ~up

Announced(s) == Listed(s) /\ s.list.op = "ADD"

\* what a handler that sends nothing does to the list and the queue
Grows(s, k) ==
    /\ k.out = s.out /\ (Fixed => k.po = s.po)
    /\ Kept /\ Listed(s) => Listed(k)
    /\ Kept /\ s.q # <<>> => k.q # <<>>
    /\ Kept /\ Announced(k) => Announced(s) \/ k.q # <<>>

\* a handler that touches the kernel only
KernelOnly(s, k) ==
    /\ k.list = s.list /\ k.q = s.q /\ k.out = s.out /\ k.po = s.po /\ k.pif = s.pif
    /\ k.state = s.state

LEMMA WithinAppend ==
  ASSUME NEW q \in Seq(Update), Within(q), NEW u \in Update, Fitting(u)
  PROVE  Within(Append(q, u)) /\ Append(q, u) # <<>>
  BY DEF Within

LEMMA WithinTail ==
  ASSUME NEW q \in Seq(Update), Within(q), q # <<>>
  PROVE  Within(Tail(q)) /\ Fitting(Head(q))
<1>1. Head(q) = q[1] /\ 1 \in DOMAIN q
  OBVIOUS
<1>2. \A i \in DOMAIN Tail(q) : i + 1 \in DOMAIN q /\ Tail(q)[i] = q[i + 1]
  OBVIOUS
<1> QED
  BY <1>1, <1>2, Zenon DEF Within

LEMMA FittingAdd ==
  ASSUME NEW mac \in scene.mac
  PROVE  Fitting(Add(mac))
  BY Zenon DEF Fitting, Add

LEMMA KernelOnlyGrows ==
  ASSUME NEW s, NEW k, KernelOnly(s, k)
  PROVE  Grows(s, k)
  BY Zenon DEF KernelOnly, Grows, Listed, Announced

LEMMA KernelResolveFx ==
  ASSUME NEW s \in Daemon, NEW mac
  PROVE  /\ KernelOnly(s, KernelResolve(s, mac))
         /\ KernelResolve(s, mac).kernel = mac
         /\ KernelResolve(s, mac).nl = Append(s.nl, Add(mac))
  BY Zenon DEF KernelOnly, KernelResolve, Daemon

LEMMA KernelDelFx ==
  ASSUME NEW s \in Daemon
  PROVE  /\ KernelOnly(s, KernelDel(s)) /\ KernelDel(s).kernel = "none"
         /\ KernelDel(s).nl = s.nl \/ KernelDel(s).nl = Append(s.nl, Del)
  BY Zenon DEF KernelOnly, KernelDel, Daemon

\* Fit depends on the fields that a kernel operation leaves alone, and two more.
LEMMA KernelFit ==
  ASSUME NEW s \in Daemon, NEW up \in BOOLEAN, Fit(s, up), NEW k, KernelOnly(s, k), Within(k.nl),
         k.kernel \in scene.mac \cup {"none"}, CanSet(s, up) \/ k.kernel = "none"
  PROVE  Fit(k, up)
  BY Zenon DEF Fit, KernelOnly, CanSet, Listed

LEMMA KernelResolveFit ==
  ASSUME NEW s \in Daemon, NEW up \in BOOLEAN, Fit(s, up), NEW mac \in scene.mac, mac \in Mac,
         CanSet(s, up)
  PROVE  KernelOnly(s, KernelResolve(s, mac)) /\ Fit(KernelResolve(s, mac), up)
<1>1. s.nl \in Seq(Update) /\ Add(mac) \in Update
  BY SameFields, UpdateType, Zenon
<1>2. Within(Append(s.nl, Add(mac)))
  BY <1>1, WithinAppend, FittingAdd, Zenon DEF Fit
<1> QED
  BY <1>2, KernelResolveFx, KernelFit, Zenon

LEMMA KernelSetFit ==
  ASSUME NEW s \in Daemon, NEW up \in BOOLEAN, Fit(s, up), NEW mac \in scene.mac, mac \in Mac,
         CanSet(s, up)
  PROVE  KernelOnly(s, KernelSet(s, mac)) /\ Fit(KernelSet(s, mac), up)
  BY KernelResolveFit, Zenon DEF KernelSet, KernelOnly

LEMMA KernelDelFit ==
  ASSUME NEW s \in Daemon, NEW up \in BOOLEAN, Fit(s, up), Kept => s.kernel = "none"
  PROVE  KernelOnly(s, KernelDel(s)) /\ Fit(KernelDel(s), up)
<1>1. CASE s.kernel = "none"
  BY <1>1, Zenon DEF KernelDel, KernelOnly
<1>2. CASE ~Kept
  <2>1. s.nl \in Seq(Update) /\ Del \in Update /\ Fitting(Del)
    BY <1>2, SameFields, UpdateType, Zenon DEF Fitting, Del
  <2>2. Within(s.nl) /\ Within(Append(s.nl, Del))
    BY <2>1, WithinAppend, Zenon DEF Fit
  <2> QED
    BY <2>2, KernelDelFx, KernelFit, Zenon
<1> QED
  BY <1>1, <1>2, Zenon

LEMMA RouteDelFit ==
  ASSUME NEW s \in Daemon, NEW up \in BOOLEAN, Fit(s, up), CanSet(s, up)
  PROVE  KernelOnly(s, RouteDel(s)) /\ Fit(RouteDel(s), up)
<1>1. CASE Exchanging(s) /\ Listed(s)
  <2>1. s.list.mac \in scene.mac /\ s.list.mac \in Mac
    BY <1>1, EntryType, Zenon DEF Fit
  <2> QED
    BY <1>1, <2>1, KernelSetFit, Zenon DEF RouteDel, SetNeigh
<1>2. CASE ~(Exchanging(s) /\ Listed(s))
  BY <1>2, Zenon DEF RouteDel, SetNeigh, KernelOnly
<1> QED
  BY <1>1, <1>2, Zenon

LEMMA RouteAddFit ==
  ASSUME NEW s \in Daemon, NEW up \in BOOLEAN, Fit(s, up), Fixed => ~s.po /\ up
  PROVE  KernelOnly(s, RouteAdd(s)) /\ Fit(RouteAdd(s), up)
<1>1. CASE scene.itf # "po" \/ ~Listed(s)
  BY <1>1, Zenon DEF RouteAdd, UnsetNeigh, KernelOnly
<1>2. CASE scene.itf = "po" /\ Listed(s) /\ scene.family = "arp"
  <2>1. Kept => s.kernel = "none"
    BY <1>2, Zenon DEF Fit, Fixed
  <2> QED
    BY <1>2, <2>1, KernelDelFit, Zenon DEF RouteAdd, UnsetNeigh
<1>3. CASE scene.itf = "po" /\ Listed(s) /\ scene.family # "arp"
  <2>1. s.list.mac \in scene.mac /\ s.list.mac \in Mac /\ CanSet(s, up)
    BY <1>3, EntryType, Zenon DEF Fit, CanSet, Fixed
  <2> QED
    BY <1>3, <2>1, KernelSetFit, Zenon DEF RouteAdd, UnsetNeigh
<1> QED
  BY <1>1, <1>2, <1>3, Zenon

\* The list gets an entry of the station, and what is queued is fitting.
LEMMA EntryFit ==
  ASSUME NEW s \in Daemon, NEW up, Fit(s, up), NEW k,
         k.nl = s.nl, k.kernel = s.kernel, k.pif = s.pif, k.po = s.po,
         k.list \in Entry, k.list.mac \in scene.mac, Within(k.q)
  PROVE  Fit(k, up) /\ Listed(k)
<1>1. Listed(k)
  BY NeighAssumption DEF Listed, Entry, NoEntry
<1> QED
  BY <1>1, Zenon DEF Fit

LEMMA EnqueueFx ==
  ASSUME NEW s \in Daemon, NEW u \in Update
  PROVE  /\ Enqueue(s, u).nl = s.nl /\ Enqueue(s, u).kernel = s.kernel /\ Enqueue(s, u).pif = s.pif
         /\ Enqueue(s, u).po = s.po /\ Enqueue(s, u).list = s.list /\ Enqueue(s, u).out = s.out
         /\ Enqueue(s, u).q = s.q \/ Enqueue(s, u).q = Append(s.q, u)
  BY Zenon DEF Enqueue, Daemon

\* an entry marked LIF, announced in EXCHANGE
LEMMA MarkFit ==
  ASSUME NEW s \in Daemon, NEW up, Fit(s, up), NEW mac \in scene.mac, mac \in Mac
  PROVE  /\ Fit(Enqueue([s EXCEPT !.list = [mac |-> mac, op |-> "LIF"]], Add(mac)), up)
         /\ Grows(s, Enqueue([s EXCEPT !.list = [mac |-> mac, op |-> "LIF"]], Add(mac)))
<1> DEFINE e == [mac |-> mac, op |-> "LIF"]
           t == [s EXCEPT !.list = e]
           k == Enqueue(t, Add(mac))
<1>1. e \in Entry /\ e.mac = mac /\ e.op = "LIF"
  BY Zenon DEF Entry
<1> HIDE DEF e
<1>2. t \in Daemon /\ t.list = e
  BY <1>1, ZenonT(40) DEF Daemon
<1>3. /\ t.nl = s.nl /\ t.kernel = s.kernel /\ t.pif = s.pif
      /\ t.po = s.po /\ t.q = s.q /\ t.out = s.out
  BY Zenon DEF Daemon
<1>4. Add(mac) \in Update /\ s.q \in Seq(Update)
  BY UpdateType, SameFields, Zenon
<1>5. Within(s.q) /\ Within(Append(s.q, Add(mac))) /\ Append(s.q, Add(mac)) # <<>>
  BY <1>4, WithinAppend, FittingAdd, Zenon DEF Fit
<1> HIDE DEF t
<1>6. /\ k.nl = s.nl /\ k.kernel = s.kernel /\ k.pif = s.pif /\ k.po = s.po /\ k.list = e
      /\ k.out = s.out /\ (k.q = s.q \/ k.q = Append(s.q, Add(mac)))
  BY <1>2, <1>3, <1>4, EnqueueFx, Zenon
<1> HIDE DEF k
<1>7. Fit(k, up) /\ Listed(k)
  BY <1>1, <1>5, <1>6, EntryFit, Zenon
<1>8. Grows(s, k)
  BY <1>1, <1>5, <1>6, <1>7, Zenon DEF Grows, Announced
<1> QED
  BY <1>7, <1>8, Zenon DEF k, t, e

\* the entry is taken out of the list
LEMMA ForgetFit ==
  ASSUME NEW s \in Daemon, NEW up, Fit(s, up), ~Kept
  PROVE  Fit(Forget(s), up) /\ Grows(s, Forget(s))
<1> DEFINE t == [s EXCEPT !.list = NoEntry]
           k == Enqueue(t, Del)
<1>1. t \in Daemon
  BY ZenonT(40) DEF Daemon
<1>2. /\ t.nl = s.nl /\ t.kernel = s.kernel /\ t.pif = s.pif
      /\ t.po = s.po /\ t.q = s.q /\ t.out = s.out /\ t.list = NoEntry
  BY Zenon DEF Daemon
<1>3. Del \in Update /\ s.q \in Seq(Update) /\ Fitting(Del)
  BY UpdateType, SameFields, Zenon DEF Fitting, Del
<1>4. Within(s.q) /\ Within(Append(s.q, Del))
  BY <1>3, WithinAppend, Zenon DEF Fit
<1> HIDE DEF t
<1>5. /\ k.nl = s.nl /\ k.kernel = s.kernel /\ k.pif = s.pif /\ k.po = s.po /\ k.list = NoEntry
      /\ k.out = s.out /\ (k.q = s.q \/ k.q = Append(s.q, Del))
  BY <1>1, <1>2, <1>3, EnqueueFx, Zenon
<1>6. Forget(s) = k \/ Forget(s) = s
  BY Zenon DEF Forget, t
<1> HIDE DEF k
<1>7. Fit(k, up) /\ Grows(s, k)
  BY <1>4, <1>5, Zenon DEF Fit, Grows, Listed, Fixed
<1> QED
  BY <1>6, <1>7, Zenon DEF Grows

\* do_arp_learn_from_kernel, do_ndisc_learn_from_kernel
LEMMA LearnFit ==
  ASSUME NEW s \in Daemon, NEW up, Fit(s, up), s.nl # <<>>, scene.mac \subseteq Mac
  PROVE  /\ Fit(LearnFromKernel([s EXCEPT !.nl = Tail(s.nl)], Head(s.nl)), up)
         /\ Grows(s, LearnFromKernel([s EXCEPT !.nl = Tail(s.nl)], Head(s.nl)))
<1> DEFINE t == [s EXCEPT !.nl = Tail(s.nl)]
           u == Head(s.nl)
           k == LearnFromKernel(t, u)
<1>1. s.nl \in Seq(Update)
  BY SameFields, Zenon
<1>2. u \in Update /\ Tail(s.nl) \in Seq(Update) /\ Within(Tail(s.nl)) /\ Fitting(u)
  BY <1>1, WithinTail, TailLast, Zenon DEF Fit
<1>3. t \in Daemon
  BY <1>2, ZenonT(40) DEF Daemon
<1>4. /\ t.nl = Tail(s.nl) /\ t.kernel = s.kernel /\ t.pif = s.pif
      /\ t.po = s.po /\ t.q = s.q /\ t.out = s.out /\ t.list = s.list
  BY Zenon DEF Daemon
<1> HIDE DEF t, u
<1>5. Fit(t, up) /\ \A x : Grows(t, x) => Grows(s, x)
  BY <1>2, <1>4, Zenon DEF Fit, Grows, Listed, Announced
<1>6. Grows(t, t)
  BY Zenon DEF Grows
<1>7. CASE u.op = "DEL"
  <2>1. k = Forget(t) /\ ~Kept
    BY <1>2, <1>7, Zenon DEF LearnFromKernel, LearnArp, LearnNdisc, Fitting
  <2> QED
    BY <1>3, <1>5, <2>1, ForgetFit, Zenon DEF t, u
<1>8. CASE u.op # "DEL"
  <2>1. u = Add(u.mac) /\ u.mac \in scene.mac /\ u.mac \in Mac
    BY <1>2, <1>8, UpdateCases, Zenon DEF Fitting
  <2>2. k = t \/ k = Learn(t, u)
    BY <1>8, Zenon DEF LearnFromKernel, LearnArp, LearnNdisc
  <2>3. Fit(Learn(t, u), up) /\ Grows(t, Learn(t, u))
    BY <1>3, <1>5, <2>1, MarkFit, Zenon DEF Learn
  <2> QED
    BY <1>5, <1>6, <2>2, <2>3, Zenon DEF t, u
<1> QED
  BY <1>7, <1>8, Zenon

LEMMA GrowsOn ==
  ASSUME NEW s, NEW t, NEW k, Grows(s, t), Grows(t, k)
  PROVE  Grows(s, k)
  BY Zenon DEF Grows

\* do_arp_update_from_reply_packet, do_ndisc_update_from_reply_packet
LEMMA ReplyFit ==
  ASSUME NEW s \in Daemon, NEW up \in BOOLEAN, Fit(s, up), NEW mac \in scene.mac, mac \in Mac, CanSet(s, up)
  PROVE  /\ Fit(UpdateFromReply(KernelResolve(s, mac), mac), up)
         /\ Grows(s, UpdateFromReply(KernelResolve(s, mac), mac))
<1> DEFINE r == KernelResolve(s, mac)
           e == [mac |-> mac, op |-> "LIF"]
           t == [r EXCEPT !.list = e]
<1>1. r \in Daemon /\ r.kernel = mac /\ Fit(r, up) /\ Grows(s, r)
  BY KernelResolveGood, KernelResolveFx, KernelResolveFit, KernelOnlyGrows, Zenon
<1> HIDE DEF r
<1>2. t.kernel = mac
  BY <1>1, Zenon DEF Daemon
<1>3. KernelSet(t, mac) = t
  BY <1>2, Zenon DEF KernelSet
<1>4. UpdateFromReply(r, mac) = Enqueue(t, Add(mac))
  BY <1>3, Zenon DEF UpdateFromReply
<1>5. Fit(Enqueue(t, Add(mac)), up) /\ Grows(r, Enqueue(t, Add(mac)))
  BY <1>1, MarkFit, Zenon
<1> HIDE DEF t
<1>6. Fit(UpdateFromReply(r, mac), up) /\ Grows(s, UpdateFromReply(r, mac))
  BY <1>1, <1>4, <1>5, GrowsOn
<1> QED
  BY <1>6, Zenon DEF r

\* update_po_if_info
LEMMA PoStateFit ==
  ASSUME NEW s, Good(s), NEW up \in BOOLEAN, Fit(s, up), NEW b \in BOOLEAN, ~Fixed
  PROVE  Fit(PoState(s, b), up) /\ Grows(s, PoState(s, b))
<1> DEFINE k == IF b THEN RouteDel(s)
                ELSE IF Exchanging(s) /\ s.pif = "up" THEN RouteAdd(s) ELSE s
           t == [k EXCEPT !.po = b, !.changed = TRUE, !.linkEx = Exchanging(s)]
<1>1. s \in Daemon /\ CanSet(s, up) /\ KernelOnly(s, s)
  BY Zenon DEF Good, CanSet, KernelOnly
<1>2. KernelOnly(s, RouteDel(s)) /\ Fit(RouteDel(s), up)
  BY <1>1, RouteDelFit, Zenon
<1>3. KernelOnly(s, RouteAdd(s)) /\ Fit(RouteAdd(s), up)
  BY <1>1, RouteAddFit, Zenon
<1>4. k \in Daemon
  BY RouteGood, Zenon DEF Good
<1>5. KernelOnly(s, k) /\ Fit(k, up)
  BY <1>1, <1>2, <1>3, Zenon
<1>6. PoState(s, b) = t
  BY Zenon DEF PoState
<1> HIDE DEF k
<1>7. /\ t.nl = k.nl /\ t.kernel = k.kernel /\ t.pif = k.pif
      /\ t.q = k.q /\ t.out = k.out /\ t.list = k.list
  BY <1>4, Zenon DEF Daemon
<1> HIDE DEF t
<1> QED
  BY <1>5, <1>6, <1>7, Zenon DEF Fit, Grows, KernelOnly, Listed, Announced

\* syn_arp_info_to_peer, mlacp_resync_arp
LEMMA SynInfoFit ==
  ASSUME NEW s \in Daemon, NEW up, Fit(s, up)
  PROVE  /\ Fit(SynInfo(s), up) /\ Grows(s, SynInfo(s)) /\ SynInfo(s).po = s.po
         /\ Listed(SynInfo(s)) => SynInfo(s).q # <<>>
<1> DEFINE e == [s.list EXCEPT !.op = "ADD"]
           q == Append(s.q, Add(s.list.mac))
           t == [s EXCEPT !.list = e, !.q = q]
<1>1. CASE Listed(s)
  <2>1. s.list \in Entry /\ s.list.mac \in Mac /\ s.list.mac \in scene.mac
    BY <1>1, EntryType, Zenon DEF Fit
  <2>2. e \in Entry /\ e.mac = s.list.mac
    BY <2>1, Zenon DEF Entry
  <2>3. Within(q) /\ q # <<>>
    BY <2>1, UpdateType, SameFields, WithinAppend, FittingAdd, Zenon DEF Fit
  <2>4. SynInfo(s) = t
    BY <1>1, Zenon DEF SynInfo, Daemon
  <2> HIDE DEF e, q
  <2>5. /\ t.nl = s.nl /\ t.kernel = s.kernel /\ t.pif = s.pif
        /\ t.po = s.po /\ t.q = q /\ t.out = s.out /\ t.list = e
    BY Zenon DEF Daemon
  <2> HIDE DEF t
  <2>6. Fit(t, up) /\ Listed(t)
    BY <2>1, <2>2, <2>3, <2>5, EntryFit, Zenon
  <2> QED
    BY <2>3, <2>4, <2>5, <2>6, Zenon DEF Grows
<1>2. CASE ~Listed(s)
  BY <1>2, Zenon DEF SynInfo, Grows
<1> QED
  BY <1>1, <1>2, Zenon

\* update_stp_peer_link
LEMMA PeerLinkFit ==
  ASSUME NEW s, Good(s), NEW up \in BOOLEAN, Fit(s, up), NEW b \in BOOLEAN, Fixed => b = up
  PROVE  Fit(PeerLink(s, b), up) /\ Grows(s, PeerLink(s, b)) /\ PeerLink(s, b).po = s.po
<1> DEFINE k == CASE s.pif = PifState(b) -> s
                  [] s.pif # PifState(b) /\ b /\ ~s.po -> RouteAdd(s)
                  [] s.pif # PifState(b) /\ ~b /\ ~s.po -> RouteDel(s)
                  [] s.pif # PifState(b) /\ b /\ s.po -> SynInfo(s)
                  [] OTHER -> s
           t == [k EXCEPT !.pif = PifState(b)]
<1>1. s \in Daemon /\ Good(RouteAdd(s)) /\ Good(RouteDel(s)) /\ Good(SynInfo(s)) /\ Grows(s, s)
  BY RouteGood, SynInfoGood, Zenon DEF Good, Grows
<1>2. b /\ ~s.po => Fit(RouteAdd(s), up) /\ Grows(s, RouteAdd(s)) /\ RouteAdd(s).po = s.po
  <2>1. b /\ ~s.po => KernelOnly(s, RouteAdd(s)) /\ Fit(RouteAdd(s), up)
    BY <1>1, RouteAddFit, Zenon
  <2> QED
    BY <2>1, KernelOnlyGrows, Zenon DEF KernelOnly
<1>3. ~b /\ ~s.po => Fit(RouteDel(s), up) /\ Grows(s, RouteDel(s)) /\ RouteDel(s).po = s.po
  <2>1. ~b => CanSet(s, up)
    BY Zenon DEF CanSet
  <2>2. ~b => KernelOnly(s, RouteDel(s)) /\ Fit(RouteDel(s), up)
    BY <1>1, <2>1, RouteDelFit, Zenon
  <2> QED
    BY <2>2, KernelOnlyGrows, Zenon DEF KernelOnly
<1>4. Fit(SynInfo(s), up) /\ Grows(s, SynInfo(s)) /\ SynInfo(s).po = s.po
  BY <1>1, SynInfoFit, Zenon
<1>5. PeerLink(s, b) = t
  BY Zenon DEF PeerLink
<1>6. \/ k = s \/ k = SynInfo(s)
      \/ b /\ ~s.po /\ k = RouteAdd(s)
      \/ ~b /\ ~s.po /\ k = RouteDel(s)
  BY Zenon
<1> HIDE DEF k
<1>7. k \in Daemon /\ Fit(k, up) /\ Grows(s, k) /\ k.po = s.po
  BY <1>1, <1>2, <1>3, <1>4, <1>6, Zenon DEF Good
<1>8. /\ t.nl = k.nl /\ t.kernel = k.kernel /\ t.pif = PifState(b) /\ t.po = k.po
      /\ t.q = k.q /\ t.out = k.out /\ t.list = k.list
  BY <1>7, Zenon DEF Daemon
<1> HIDE DEF t
<1> QED
  BY <1>5, <1>7, <1>8, Zenon DEF Fit, Grows, Listed, Announced

\* mlacp_fsm_update_arp_entry, mlacp_fsm_update_ndisc_entry
LEMMA PeerUpdateFit ==
  ASSUME NEW s \in Daemon, NEW up \in BOOLEAN, Fit(s, up), NEW u \in Update, Fitting(u), scene.mac \subseteq Mac
  PROVE  /\ Fit(PeerUpdate(s, u), up) /\ PeerUpdate(s, u).out = s.out /\ PeerUpdate(s, u).po = s.po
         /\ Kept => Listed(PeerUpdate(s, u))
<1> DEFINE p == Program(s, u)
           e == IF u.op = "DEL" THEN NoEntry ELSE Stored(s, u)
           t == [p EXCEPT !.list = e, !.q = <<>>]
<1>1. \/ u.op = "ADD" /\ u.mac \in scene.mac /\ u.mac \in Mac
      \/ u.op = "DEL" /\ ~Kept
  BY UpdateCases, Zenon DEF Fitting
<1>2. Alive(s) => CanSet(s, up)
  BY Zenon DEF Alive, CanSet, Fixed
<1>3. p \in Daemon /\ KernelOnly(s, p) /\ Fit(p, up)
  <2>1. CASE ~Alive(s)
    BY <2>1, Zenon DEF Program, KernelOnly
  <2>2. CASE Alive(s) /\ u.op = "ADD"
    <3>1. p = KernelSet(s, u.mac) /\ u.mac \in scene.mac /\ u.mac \in Mac /\ CanSet(s, up)
      BY <1>1, <1>2, <2>2, Zenon DEF Program
    <3>2. KernelSet(s, u.mac) \in Daemon
      BY <3>1, KernelResolveGood, Zenon DEF KernelSet
    <3> QED
      BY <3>1, <3>2, KernelSetFit, Zenon
  <2>3. CASE Alive(s) /\ u.op = "DEL"
    <3>1. p = KernelDel(s) /\ ~Kept
      BY <1>1, <2>3, Zenon DEF Program
    <3>2. KernelDel(s) \in Daemon
      BY KernelDelGood, Zenon DEF KernelDel
    <3> QED
      BY <3>1, <3>2, KernelDelFit, Zenon
  <2> QED
    BY <1>1, <2>1, <2>2, <2>3, Zenon
<1>4. u.op = "ADD" => e \in Entry /\ e.mac = u.mac
  <2>1. (IF Listed(s) THEN s.list.op ELSE "ADD") \in {"LIF", "ADD"}
    BY EntryType, Zenon
  <2> QED
    BY <1>1, <2>1, Zenon DEF Stored, Entry
<1>5. u.op = "DEL" => e = NoEntry
  BY Zenon
<1>6. \A w : w = <<>> => Within(w)
  BY DEF Within
<1>7. PeerUpdate(s, u) = t \/ (u.op = "DEL" /\ PeerUpdate(s, u) = s)
  BY Zenon DEF PeerUpdate
<1> HIDE DEF p, e
<1>8. /\ t.nl = p.nl /\ t.kernel = p.kernel /\ t.pif = p.pif /\ t.po = p.po
      /\ t.q = <<>> /\ t.out = p.out /\ t.list = e
  BY <1>3, Zenon DEF Daemon
<1> HIDE DEF t
<1>9. Within(t.q)
  BY <1>6, <1>8, Zenon
<1>10. u.op = "ADD" => Fit(t, up) /\ Listed(t)
  BY <1>1, <1>3, <1>4, <1>8, <1>9, EntryFit, Zenon
<1>11. u.op = "DEL" => Fit(t, up)
  BY <1>1, <1>3, <1>5, <1>8, <1>9, Zenon DEF Fit, Listed, Fixed
<1> QED
  BY <1>1, <1>3, <1>7, <1>8, <1>10, <1>11, Zenon DEF KernelOnly

\* a change of the state machine
LEMMA StateFit ==
  ASSUME NEW s \in Daemon, NEW up, Fit(s, up), NEW st \in {"INIT", "STAGE1", "STAGE2", "EXCHANGE"}
  PROVE  /\ [s EXCEPT !.state = st] \in Daemon
         /\ Fit([s EXCEPT !.state = st], up) /\ Grows(s, [s EXCEPT !.state = st])
         /\ [s EXCEPT !.state = st].po = s.po /\ [s EXCEPT !.state = st].list = s.list
         /\ [s EXCEPT !.state = st].q = s.q /\ [s EXCEPT !.state = st].out = s.out
<1> DEFINE t == [s EXCEPT !.state = st]
<1>1. t \in Daemon
  BY ZenonT(40) DEF Daemon
<1>2. /\ t.nl = s.nl /\ t.kernel = s.kernel /\ t.pif = s.pif /\ t.po = s.po
      /\ t.q = s.q /\ t.out = s.out /\ t.list = s.list
  BY Zenon DEF Daemon
<1> HIDE DEF t
<1>3. Fit(t, up) /\ Grows(s, t)
  BY <1>2, Zenon DEF Fit, Grows, Listed, Announced
<1> QED
  BY <1>1, <1>2, <1>3, Zenon DEF t

\* mlacp_peer_conn_handler
LEMMA EnterExchangeFit ==
  ASSUME NEW s, Good(s), NEW up \in BOOLEAN, Fit(s, up)
  PROVE  /\ Fit(EnterExchange(s), up) /\ EnterExchange(s).list = s.list /\ EnterExchange(s).q = s.q
         /\ EnterExchange(s).out = s.out /\ EnterExchange(s).po = s.po
<1> DEFINE k == [s EXCEPT !.state = "EXCHANGE"]
           c == scene.itf = "po" /\ ~s.linkEx /\ ~s.po /\ s.pif = "up"
           r == IF c THEN RouteAdd(k) ELSE k
           t == [r EXCEPT !.linkEx = TRUE]
<1>1. k \in Daemon /\ k.nl = s.nl /\ k.list = s.list /\ k.kernel = s.kernel
  BY ZenonT(40) DEF Good, Daemon
<1>2. Good(k)
  BY <1>1, SameTold, ZenonT(40) DEF Good
<1>3. /\ k.pif = s.pif /\ k.po = s.po /\ k.q = s.q /\ k.out = s.out
  BY Zenon DEF Good, Daemon
<1>4. EnterExchange(s) = t
  BY Zenon DEF EnterExchange
<1> HIDE DEF k
<1>5. Fit(k, up)
  BY <1>1, <1>3, Zenon DEF Fit, Listed
<1>6. c => (Fixed => ~k.po /\ up)
  BY <1>3, Zenon DEF Fit, PifState
<1>7. Good(r)
  BY <1>2, RouteGood, Zenon
<1>8. KernelOnly(k, r) /\ Fit(r, up)
  <2>1. c => KernelOnly(k, RouteAdd(k)) /\ Fit(RouteAdd(k), up)
    BY <1>1, <1>5, <1>6, RouteAddFit, Zenon
  <2> QED
    BY <1>5, <2>1, Zenon DEF KernelOnly
<1> HIDE DEF r
<1>9. /\ t.nl = r.nl /\ t.kernel = r.kernel /\ t.pif = r.pif /\ t.po = r.po
      /\ t.q = r.q /\ t.out = r.out /\ t.list = r.list
  BY <1>7, Zenon DEF Good, Daemon
<1> HIDE DEF t
<1>10. Fit(t, up)
  BY <1>8, <1>9, Zenon DEF Fit, Listed
<1> QED
  BY <1>1, <1>3, <1>4, <1>8, <1>9, <1>10, Zenon DEF KernelOnly

\* mlacp_init: the queue is dropped.
LEMMA ResetFit ==
  ASSUME NEW s \in Daemon, NEW up, Fit(s, up)
  PROVE  /\ Fit([s EXCEPT !.state = "INIT", !.pif = "none", !.q = <<>>], up)
         /\ [s EXCEPT !.state = "INIT", !.pif = "none", !.q = <<>>].list = s.list
         /\ [s EXCEPT !.state = "INIT", !.pif = "none", !.q = <<>>].po = s.po
         /\ [s EXCEPT !.state = "INIT", !.pif = "none", !.q = <<>>].out = s.out
<1> DEFINE t == [s EXCEPT !.state = "INIT", !.pif = "none", !.q = <<>>]
<1>1. /\ t.nl = s.nl /\ t.kernel = s.kernel /\ t.pif = "none" /\ t.po = s.po
      /\ t.q = <<>> /\ t.out = s.out /\ t.list = s.list
  BY Zenon DEF Daemon
<1>2. \A w : w = <<>> => Within(w)
  BY DEF Within
<1> HIDE DEF t
<1>3. Within(t.q)
  BY <1>1, <1>2, Zenon
<1>4. Fit(t, up)
  BY <1>1, <1>3, Zenon DEF Fit, Listed
<1> QED
  BY <1>1, <1>4, Zenon DEF t

-----------------------------------------------------------------------------
(* What is written to the peer. *)

\* sent by a daemon whose port channel is up or not
MsgFit(m, up) ==
    /\ m.type = "NEIGH" => Fitting(m.update)
    /\ Fixed /\ m.type = "STATE" => m.up = up
MsgsFit(w, up) == \A i \in DOMAIN w : MsgFit(w[i], up)
News(w) == \E i \in DOMAIN w : w[i].type = "NEIGH"

LEMMA CatNews ==
  ASSUME NEW v \in Seq(Msg), NEW w \in Seq(Msg), NEW up
  PROVE  /\ MsgsFit(v, up) /\ MsgsFit(w, up) => MsgsFit(v \o w, up)
         /\ News(v \o w) <=> News(v) \/ News(w)
<1> DEFINE c == v \o w
<1>1. c \in Seq(Msg) /\ Len(c) = Len(v) + Len(w)
  OBVIOUS
<1>2. \A i \in DOMAIN c : IF i <= Len(v) THEN i \in DOMAIN v /\ c[i] = v[i]
                          ELSE i - Len(v) \in DOMAIN w /\ c[i] = w[i - Len(v)]
  OBVIOUS
<1>3. \A i \in DOMAIN v : i \in DOMAIN c /\ c[i] = v[i]
  OBVIOUS
<1>4. \A i \in DOMAIN w : i + Len(v) \in DOMAIN c /\ c[i + Len(v)] = w[i]
  OBVIOUS
<1> HIDE DEF c
<1>5. MsgsFit(v, up) /\ MsgsFit(w, up) => MsgsFit(c, up)
  BY <1>2, Zenon DEF MsgsFit
<1>6. News(c) => News(v) \/ News(w)
  BY <1>2, Zenon DEF News
<1>7. News(v) \/ News(w) => News(c)
  BY <1>3, <1>4, Zenon DEF News
<1> QED
  BY <1>5, <1>6, <1>7, Zenon DEF c

LEMMA OneNews ==
  ASSUME NEW w \in Seq(Msg), NEW m \in Msg, NEW up
  PROVE  /\ MsgsFit(w, up) /\ MsgFit(m, up) => MsgsFit(Append(w, m), up)
         /\ News(Append(w, m)) <=> News(w) \/ m.type = "NEIGH"
<1> DEFINE c == Append(w, m)
<1>1. \A i \in DOMAIN c : (i \in DOMAIN w /\ c[i] = w[i]) \/ c[i] = m
  OBVIOUS
<1>2. \A i \in DOMAIN w : i \in DOMAIN c /\ c[i] = w[i]
  OBVIOUS
<1>3. Len(w) + 1 \in DOMAIN c /\ c[Len(w) + 1] = m
  OBVIOUS
<1> HIDE DEF c
<1>4. MsgsFit(w, up) /\ MsgFit(m, up) => MsgsFit(c, up)
  BY <1>1, Zenon DEF MsgsFit
<1>5. News(c) <=> News(w) \/ m.type = "NEIGH"
  BY <1>1, <1>2, <1>3, Zenon DEF News
<1> QED
  BY <1>4, <1>5, Zenon DEF c

LEMMA TailNews ==
  ASSUME NEW w \in Seq(Msg), w # <<>>, NEW up, MsgsFit(w, up)
  PROVE  /\ MsgsFit(Tail(w), up) /\ MsgFit(Head(w), up)
         /\ News(w) <=> News(Tail(w)) \/ Head(w).type = "NEIGH"
<1> DEFINE c == Tail(w)
<1>1. \A i \in DOMAIN c : i + 1 \in DOMAIN w /\ c[i] = w[i + 1]
  OBVIOUS
<1>2. Head(w) = w[1] /\ 1 \in DOMAIN w
  OBVIOUS
<1>3. \A i \in DOMAIN w : i = 1 \/ (i - 1 \in DOMAIN c /\ c[i - 1] = w[i])
  OBVIOUS
<1> HIDE DEF c
<1>4. MsgsFit(c, up) /\ MsgFit(Head(w), up)
  BY <1>1, <1>2, Zenon DEF MsgsFit
<1>5. News(w) <=> News(c) \/ Head(w).type = "NEIGH"
  BY <1>1, <1>2, <1>3 DEF News
<1> QED
  BY <1>4, <1>5, Zenon DEF c

\* mlacp_sync_send_syncArpInfo: the whole queue is written.
Sent(s, k) ==
    /\ k.list = s.list /\ k.po = s.po /\ k.q = <<>>
    /\ News(k.out) => s.q # <<>> \/ News(s.out)
    /\ s.q # <<>> => News(k.out)

LEMMA SendNeighFit ==
  ASSUME NEW s \in Daemon, NEW up, Fit(s, up), MsgsFit(s.out, s.po)
  PROVE  Fit(SendNeigh(s), up) /\ Sent(s, SendNeigh(s)) /\ MsgsFit(SendNeigh(s).out, s.po)
<1> DEFINE ms == [i \in DOMAIN s.q |-> [type |-> "NEIGH", update |-> s.q[i]]]
           o == s.out \o ms
           k == [s EXCEPT !.q = <<>>, !.out = o]
<1>1. s.q \in Seq(Update) /\ s.out \in Seq(Msg) /\ Within(s.q)
  BY SameFields, Zenon DEF Fit
<1>2. \A u \in Update : [type |-> "NEIGH", update |-> u] \in Msg
  BY Zenon DEF Msg
<1>3. ms \in Seq(Msg)
  BY <1>1, <1>2
<1>4. DOMAIN ms = DOMAIN s.q /\ \A i \in DOMAIN s.q : ms[i].type = "NEIGH" /\ ms[i].update = s.q[i]
  BY Zenon
<1>5. s.q # <<>> <=> DOMAIN s.q # {}
  <2>1. s.q # <<>> => 1 \in DOMAIN s.q
    BY <1>1
  <2>2. \A w : w = <<>> => DOMAIN w = {}
    OBVIOUS
  <2> QED
    BY <2>1, <2>2, ZenonT(40)
<1>6. SendNeigh(s) = k
  BY Zenon DEF SendNeigh
<1> HIDE DEF ms
<1>7. MsgsFit(ms, s.po) /\ (News(ms) <=> s.q # <<>>)
  BY <1>1, <1>4, <1>5, Zenon DEF MsgsFit, MsgFit, News, Within
<1>8. MsgsFit(o, s.po) /\ (News(o) <=> News(s.out) \/ News(ms))
  BY <1>1, <1>3, <1>7, CatNews, Zenon
<1> HIDE DEF o
<1>9. /\ k.nl = s.nl /\ k.kernel = s.kernel /\ k.pif = s.pif /\ k.po = s.po
      /\ k.q = <<>> /\ k.out = o /\ k.list = s.list
  BY Zenon DEF Daemon
<1>10. \A w : w = <<>> => Within(w)
  BY DEF Within
<1> HIDE DEF k
<1>11. Within(k.q)
  BY <1>9, <1>10, Zenon
<1>12. Fit(k, up)
  BY <1>9, <1>11, Zenon DEF Fit, Listed
<1>13. Sent(s, k)
  BY <1>7, <1>8, <1>9, Zenon DEF Sent
<1> QED
  BY <1>6, <1>8, <1>9, <1>12, <1>13, Zenon

\* what is written before the updates
LEMMA WriteFit ==
  ASSUME NEW s \in Daemon, NEW up, Fit(s, up), NEW o \in Seq(Msg)
  PROVE  /\ Fit([s EXCEPT !.changed = FALSE, !.out = o], up)
         /\ [s EXCEPT !.changed = FALSE, !.out = o] \in Daemon
         /\ [s EXCEPT !.changed = FALSE, !.out = o].out = o
         /\ [s EXCEPT !.changed = FALSE, !.out = o].po = s.po
         /\ [s EXCEPT !.changed = FALSE, !.out = o].q = s.q
         /\ [s EXCEPT !.changed = FALSE, !.out = o].list = s.list
<1> DEFINE t == [s EXCEPT !.changed = FALSE, !.out = o]
<1>1. t \in Daemon
  BY ZenonT(40) DEF Daemon
<1>2. /\ t.nl = s.nl /\ t.kernel = s.kernel /\ t.pif = s.pif /\ t.po = s.po
      /\ t.q = s.q /\ t.out = o /\ t.list = s.list
  BY Zenon DEF Daemon
<1> HIDE DEF t
<1>3. Fit(t, up)
  BY <1>2, Zenon DEF Fit, Listed
<1> QED
  BY <1>1, <1>2, <1>3, Zenon DEF t

\* mlacp_exchange_handler
LEMMA ExchangeSendFit ==
  ASSUME NEW s \in Daemon, NEW up, Fit(s, up), s.out = <<>>
  PROVE  /\ Fit(ExchangeSend(s), up) /\ MsgsFit(ExchangeSend(s).out, s.po)
         /\ ExchangeSend(s).list = s.list /\ ExchangeSend(s).po = s.po /\ ExchangeSend(s).q = <<>>
         /\ News(ExchangeSend(s).out) <=> s.q # <<>>
<1> DEFINE m == [type |-> "STATE", up |-> s.po]
           o == IF s.changed THEN Append(s.out, m) ELSE s.out
           t == [s EXCEPT !.changed = FALSE, !.out = o]
<1>1. m \in Msg /\ m.type = "STATE" /\ m.up = s.po /\ s.out \in Seq(Msg)
  BY SameFields, Zenon DEF Msg
<1>2. o \in Seq(Msg)
  BY <1>1
<1>3. \A w : w = <<>> => MsgsFit(w, s.po) /\ ~News(w)
  BY DEF MsgsFit, News
<1>4. MsgsFit(s.out, s.po) /\ ~News(s.out)
  BY <1>3, Zenon
<1>5. MsgFit(m, s.po)
  BY <1>1, Zenon DEF MsgFit
<1>6. ExchangeSend(s) = SendNeigh(t)
  BY Zenon DEF ExchangeSend
<1> HIDE DEF m
<1>7. MsgsFit(o, s.po) /\ ~News(o)
  BY <1>1, <1>4, <1>5, OneNews, Zenon
<1> HIDE DEF o
<1>8. t \in Daemon /\ Fit(t, up) /\ t.out = o /\ t.po = s.po /\ t.q = s.q /\ t.list = s.list
  BY <1>2, WriteFit, Zenon
<1> HIDE DEF t
<1>9. Fit(SendNeigh(t), up) /\ Sent(t, SendNeigh(t)) /\ MsgsFit(SendNeigh(t).out, t.po)
  BY <1>7, <1>8, SendNeighFit, Zenon
<1> QED
  BY <1>6, <1>7, <1>8, <1>9, Zenon DEF Sent

-----------------------------------------------------------------------------
(* The invariant of the two daemons. *)

\* each daemon fits, and what is on its way to it is fitting
Ends ==
    \A n \in Node :
        /\ Fit(daemon[n], daemon[Peer(n)].po) /\ daemon[n].out = <<>>
        /\ MsgsFit(wire[n], daemon[Peer(n)].po)

\* an update on its way is about an entry its sender has
Source == Kept => \A n \in Node : News(wire[n]) => Listed(daemon[Peer(n)])

\* an entry that was announced in this session is known, queued or on its way
OnItsWay ==
    Kept => \A n \in Node :
        open[n] /\ open[Peer(n)] /\ Announced(daemon[n]) =>
            Listed(daemon[Peer(n)]) \/ daemon[n].q # <<>> \/ News(wire[Peer(n)])

KInv == Ends /\ Source /\ OnItsWay

LEMMA PeerPeer == \A n \in Node : Peer(Peer(n)) = n
  BY NeighAssumption, Zenon DEF Node, Peer

\* the scenario stays
LEMMA KInvNext ==
  ASSUME scene' = scene,
         \A n \in Node :
            /\ Fit(daemon'[n], daemon'[Peer(n)].po) /\ daemon'[n].out = <<>>
            /\ MsgsFit(wire'[n], daemon'[Peer(n)].po),
         Kept => \A n \in Node : News(wire'[n]) => Listed(daemon'[Peer(n)]),
         Kept => \A n \in Node :
            open'[n] /\ open'[Peer(n)] /\ Announced(daemon'[n]) =>
                Listed(daemon'[Peer(n)]) \/ daemon'[n].q # <<>> \/ News(wire'[Peer(n)])
  PROVE  KInv'
<1>1. Kept' <=> Kept
  BY Zenon DEF Kept
<1>2. Fixed' <=> Fixed
  BY <1>1, Zenon DEF Fixed
<1>3. ASSUME NEW n \in Node
      PROVE  (Fit(daemon[n], daemon[Peer(n)].po))'
  <2>1. Fit(daemon'[n], daemon'[Peer(n)].po)
    BY Zenon
  <2> QED
    BY <1>1, <1>2, <2>1, Zenon DEF Fit, Within, Fitting, Listed
<1>4. ASSUME NEW n \in Node
      PROVE  (MsgsFit(wire[n], daemon[Peer(n)].po))'
  <2>1. MsgsFit(wire'[n], daemon'[Peer(n)].po)
    BY Zenon
  <2> QED
    BY <1>1, <1>2, <2>1, Zenon DEF MsgsFit, MsgFit, Fitting
<1>5. Ends'
  BY <1>3, <1>4, Zenon DEF Ends
<1>6. Source' /\ OnItsWay'
  BY <1>1, Zenon DEF Source, OnItsWay, News, Listed, Announced
<1> QED
  BY <1>5, <1>6, Zenon DEF KInv

\* A local event: the daemon of n becomes k, the messages stay.
LEMMA LocalK ==
  ASSUME Inv, KInv, NEW n \in Node, NEW k, Fit(k, daemon[Peer(n)].po), Grows(daemon[n], k),
         daemon' = [daemon EXCEPT ![n] = k], UNCHANGED <<open, wire, scene>>
  PROVE  KInv'
<1> DEFINE p == Peer(n)
<1>1. p \in Node /\ p # n /\ Peer(p) = n /\ \A h \in Node : h = n \/ h = p
  BY PeerType, PeerPeer, Zenon DEF Node, Peer
<1>2. daemon'[n] = k /\ daemon'[p] = daemon[p]
  BY <1>1, Zenon DEF Inv, TypeOK
<1>3. scene' = scene /\ open' = open /\ wire' = wire
  BY Zenon
<1> HIDE DEF p
<1>4. /\ Fit(daemon[p], daemon[n].po) /\ MsgsFit(wire[p], daemon[n].po) /\ daemon[p].out = <<>>
      /\ MsgsFit(wire[n], daemon[p].po) /\ daemon[n].out = <<>>
  BY <1>1, Zenon DEF KInv, Ends, p
<1>5. Fit(daemon[p], k.po) /\ MsgsFit(wire[p], k.po)
  BY <1>4, Zenon DEF Grows, Fit, MsgsFit, MsgFit
<1>6. ASSUME NEW h \in Node
      PROVE  /\ Fit(daemon'[h], daemon'[Peer(h)].po) /\ daemon'[h].out = <<>>
             /\ MsgsFit(wire'[h], daemon'[Peer(h)].po)
  <2>1. CASE h = n
    BY <1>1, <1>2, <1>3, <1>4, <2>1, Zenon DEF Grows, p
  <2>2. CASE h = p
    BY <1>1, <1>2, <1>3, <1>4, <1>5, <2>2, ZenonT(40) DEF p
  <2> QED
    BY <1>1, <2>1, <2>2, Zenon
<1>7. Kept => \A h \in Node : News(wire'[h]) => Listed(daemon'[Peer(h)])
  BY <1>1, <1>2, <1>3, Zenon DEF KInv, Source, Grows, p
<1>8. ASSUME Kept, NEW h \in Node, open'[h] /\ open'[Peer(h)] /\ Announced(daemon'[h])
      PROVE  Listed(daemon'[Peer(h)]) \/ daemon'[h].q # <<>> \/ News(wire'[Peer(h)])
  <2>1. CASE h = n
    BY <1>1, <1>2, <1>3, <1>8, <2>1, Zenon DEF KInv, OnItsWay, Grows, p
  <2>2. CASE h = p
    BY <1>1, <1>2, <1>3, <1>8, <2>2, Zenon DEF KInv, OnItsWay, Grows, p
  <2> QED
    BY <1>1, <2>1, <2>2, Zenon
<1> QED
  BY <1>3, <1>6, <1>7, <1>8, KInvNext, Zenon

\* A pass of the daemon of n that handles a message, or none, and sends.
Passes(n, k, rest) ==
    /\ Fit(k, daemon[Peer(n)].po) /\ k.po = daemon[n].po /\ MsgsFit(k.out, k.po)
    /\ MsgsFit(rest, daemon[Peer(n)].po) /\ (News(rest) => News(wire[n]))
    /\ Kept /\ (Listed(daemon[n]) \/ News(k.out)) => Listed(k)
    /\ Kept /\ News(wire[n]) => News(rest) \/ Listed(k)
    /\ Kept /\ Announced(k) =>
         \/ Listed(daemon[Peer(n)]) \/ k.q # <<>> \/ News(k.out)
         \/ Announced(daemon[n]) /\ daemon[n].q = <<>>

LEMMA PassK ==
  ASSUME Inv, KInv, NEW n \in Node, NEW k \in Daemon, NEW rest, Passes(n, k, rest), Step(n, k, rest),
         UNCHANGED <<open, scene>>
  PROVE  KInv'
<1> DEFINE p == Peer(n)
           w == IF open[p] THEN wire[p] \o k.out ELSE wire[p]
           t == [k EXCEPT !.out = <<>>]
<1>1. p \in Node /\ p # n /\ Peer(p) = n /\ \A h \in Node : h = n \/ h = p
  BY PeerType, PeerPeer, Zenon DEF Node, Peer
<1>2. daemon'[n] = t /\ daemon'[p] = daemon[p] /\ wire'[n] = rest /\ wire'[p] = w
  BY <1>1, Zenon DEF Inv, TypeOK, Step
<1>3. scene' = scene /\ open' = open
  BY Zenon
<1>4. /\ t.nl = k.nl /\ t.kernel = k.kernel /\ t.pif = k.pif /\ t.po = k.po
      /\ t.q = k.q /\ t.out = <<>> /\ t.list = k.list
  BY Zenon DEF Daemon
<1>5. wire[p] \in Seq(Msg) /\ k.out \in Seq(Msg)
  BY <1>1, SameFields, Zenon DEF Inv, TypeOK
<1> HIDE DEF p, t
<1>6. /\ Fit(daemon[p], daemon[n].po) /\ MsgsFit(wire[p], daemon[n].po) /\ daemon[p].out = <<>>
  BY <1>1, Zenon DEF KInv, Ends, p
<1>7. /\ MsgsFit(w, k.po)
      /\ News(w) => News(wire[p]) \/ News(k.out)
      /\ News(wire[p]) => News(w)
      /\ open[p] /\ News(k.out) => News(w)
  <2>1. MsgsFit(wire[p] \o k.out, k.po) /\ (News(wire[p] \o k.out) <=> News(wire[p]) \/ News(k.out))
    BY <1>5, <1>6, CatNews, Zenon DEF Passes
  <2> QED
    BY <1>6, <2>1, Zenon DEF Passes
<1> HIDE DEF w
<1>8. Fit(t, daemon[p].po) /\ (Listed(t) <=> Listed(k)) /\ (Announced(t) <=> Announced(k))
  BY <1>4, Zenon DEF Passes, Fit, Listed, Announced, p
<1>9. ASSUME NEW h \in Node
      PROVE  /\ Fit(daemon'[h], daemon'[Peer(h)].po) /\ daemon'[h].out = <<>>
             /\ MsgsFit(wire'[h], daemon'[Peer(h)].po)
  <2>1. CASE h = n
    BY <1>1, <1>2, <1>4, <1>8, <2>1, Zenon DEF Passes, p
  <2>2. CASE h = p
    BY <1>1, <1>2, <1>4, <1>6, <1>7, <2>2, Zenon DEF Passes
  <2> QED
    BY <1>1, <2>1, <2>2, Zenon
<1>10. ASSUME Kept, NEW h \in Node, News(wire'[h])
       PROVE  Listed(daemon'[Peer(h)])
  <2>1. CASE h = n
    BY <1>1, <1>2, <1>10, <2>1, Zenon DEF Passes, KInv, Source, p
  <2>2. CASE h = p
    <3>1. News(wire[p]) => Listed(daemon[n])
      BY <1>1, <1>10, Zenon DEF KInv, Source
    <3> QED
      BY <1>1, <1>2, <1>7, <1>8, <1>10, <2>2, <3>1, ZenonT(40) DEF Passes
  <2> QED
    BY <1>1, <2>1, <2>2, Zenon
<1>11. ASSUME Kept, NEW h \in Node, open'[h] /\ open'[Peer(h)] /\ Announced(daemon'[h])
       PROVE  Listed(daemon'[Peer(h)]) \/ daemon'[h].q # <<>> \/ News(wire'[Peer(h)])
  <2>1. CASE h = n
    <3>1. Announced(k) /\ open[n] /\ open[p]
      BY <1>1, <1>2, <1>3, <1>8, <1>11, <2>1, ZenonT(40) DEF p
    <3>2. Announced(daemon[n]) /\ daemon[n].q = <<>> => Listed(daemon[p]) \/ News(wire[p])
      BY <1>11, <3>1, Zenon DEF KInv, OnItsWay, p
    <3>3. Listed(daemon[p]) \/ k.q # <<>> \/ News(w)
      BY <1>7, <1>11, <3>1, <3>2, Zenon DEF Passes, p
    <3> QED
      BY <1>1, <1>2, <1>4, <2>1, <3>3, Zenon DEF p
  <2>2. CASE h = p
    <3>1. Announced(daemon[p]) /\ open[n] /\ open[p]
      BY <1>1, <1>2, <1>3, <1>11, <2>2, Zenon
    <3>2. Listed(daemon[n]) \/ daemon[p].q # <<>> \/ News(wire[n])
      BY <1>1, <1>11, <3>1, Zenon DEF KInv, OnItsWay
    <3>3. Listed(k) \/ daemon[p].q # <<>> \/ News(rest)
      BY <1>11, <3>2, Zenon DEF Passes
    <3> QED
      BY <1>1, <1>2, <1>8, <2>2, <3>3, Zenon
  <2> QED
    BY <1>1, <2>1, <2>2, Zenon
<1> QED
  BY <1>3, <1>9, <1>10, <1>11, KInvNext, Zenon

LEMMA DaemonFacts ==
  ASSUME Inv, KInv, NEW n \in Node
  PROVE  /\ daemon[n] \in Daemon /\ Good(daemon[n]) /\ Fit(daemon[n], daemon[Peer(n)].po)
         /\ daemon[n].out = <<>> /\ daemon[Peer(n)].po \in BOOLEAN /\ wire[n] \in Seq(Msg)
         /\ MsgsFit(wire[n], daemon[Peer(n)].po) /\ scene.mac \subseteq Mac
  BY PeerType, SameFields, NeighAssumption, Zenon DEF Inv, TypeOK, KInv, Ends

LEMMA EventK ==
  ASSUME Inv, KInv, scene' = scene, NEW n \in Node,
         Notification(n) \/ KernelLearn(n) \/ KernelAge(n) \/ ReplyPacket(n) \/ PoChange(n)
  PROVE  KInv'
<1> DEFINE s == daemon[n]
           up == daemon[Peer(n)].po
<1>1. s \in Daemon /\ Good(s) /\ Fit(s, up) /\ up \in BOOLEAN /\ scene.mac \subseteq Mac
  BY DaemonFacts, Zenon
<1>2. Alive(s) => CanSet(s, up)
  BY Zenon DEF Alive, CanSet, Fixed
<1> SUFFICES \E k : /\ daemon' = [daemon EXCEPT ![n] = k] /\ UNCHANGED <<open, wire, scene>>
                    /\ Fit(k, up) /\ Grows(s, k)
  BY LocalK, ZenonT(40)
<1>3. CASE Notification(n)
  <2> DEFINE k == LearnFromKernel([s EXCEPT !.nl = Tail(s.nl)], Head(s.nl))
  <2>1. daemon' = [daemon EXCEPT ![n] = k] /\ UNCHANGED <<open, wire, scene>> /\ s.nl # <<>>
    BY <1>3, Zenon DEF Notification
  <2>2. Fit(k, up) /\ Grows(s, k)
    BY <1>1, <2>1, LearnFit, ZenonT(40)
  <2> QED
    BY <2>1, <2>2, Zenon
<1>4. CASE KernelLearn(n)
  <2>1. PICK mac \in scene.mac : Local(n, "learn", KernelResolve(s, mac))
    BY <1>4, Zenon DEF KernelLearn
  <2>2. mac \in Mac /\ CanSet(s, up)
    BY <1>1, <1>2, <1>4, Zenon DEF KernelLearn
  <2>3. Fit(KernelResolve(s, mac), up) /\ Grows(s, KernelResolve(s, mac))
    BY <1>1, <2>2, KernelResolveFit, KernelOnlyGrows, Zenon
  <2> QED
    BY <2>1, <2>3, Zenon DEF Local
<1>5. CASE KernelAge(n)
  <2>1. Local(n, "age", KernelDel(s)) /\ ~Kept
    BY <1>5, Zenon DEF KernelAge, Local, Kept
  <2>2. Fit(KernelDel(s), up) /\ Grows(s, KernelDel(s))
    BY <1>1, <2>1, KernelDelFit, KernelOnlyGrows, Zenon
  <2> QED
    BY <2>1, <2>2, Zenon DEF Local
<1>6. CASE ReplyPacket(n)
  <2>1. PICK mac \in scene.mac : Local(n, "reply", UpdateFromReply(KernelResolve(s, mac), mac))
    BY <1>6, Zenon DEF ReplyPacket
  <2>2. mac \in Mac /\ CanSet(s, up)
    BY <1>1, <1>2, <1>6, Zenon DEF ReplyPacket
  <2> DEFINE k == UpdateFromReply(KernelResolve(s, mac), mac)
  <2>3. Fit(k, up) /\ Grows(s, k)
    BY <1>1, <2>2, ReplyFit, Zenon
  <2> HIDE DEF k
  <2> QED
    BY <2>1, <2>3, Zenon DEF Local, k
<1>7. CASE PoChange(n)
  <2> DEFINE k == PoState(s, ~s.po)
  <2>1. Local(n, "po", k) /\ ~Fixed
    BY <1>7, Zenon DEF PoChange, Local, Fixed, Kept
  <2>2. (~s.po) \in BOOLEAN
    BY Zenon
  <2>3. Fit(k, up) /\ Grows(s, k)
    BY <1>1, <2>1, <2>2, PoStateFit, Zenon
  <2> HIDE DEF k
  <2> QED
    BY <2>1, <2>3, Zenon DEF Local
<1> QED
  BY <1>3, <1>4, <1>5, <1>6, <1>7, Zenon

LEMMA SendK ==
  ASSUME Inv, KInv, scene' = scene, NEW n \in Node, Send(n)
  PROVE  KInv'
<1> DEFINE s == daemon[n]
           k == ExchangeSend(s)
<1>1. /\ s \in Daemon /\ Good(s) /\ Fit(s, daemon[Peer(n)].po) /\ s.out = <<>>
      /\ MsgsFit(wire[n], daemon[Peer(n)].po)
  BY DaemonFacts, Zenon
<1>2. Step(n, k, wire[n]) /\ UNCHANGED <<open, scene>>
  BY Zenon DEF Send
<1>3. k \in Daemon
  BY <1>1, ExchangeSendGood, Zenon DEF Good
<1>4. /\ Fit(k, daemon[Peer(n)].po) /\ MsgsFit(k.out, s.po) /\ k.list = s.list /\ k.po = s.po
      /\ k.q = <<>> /\ (News(k.out) <=> s.q # <<>>)
  BY <1>1, ExchangeSendFit, Zenon
<1> HIDE DEF k
<1>5. Passes(n, k, wire[n])
  BY <1>1, <1>4, Zenon DEF Passes, Fit, Listed, Announced
<1> QED
  BY <1>2, <1>3, <1>5, PassK, Zenon

\* after the message was handled, in EXCHANGE the pass sends
LEMMA ThenSends ==
  ASSUME NEW s, Good(s), NEW up, Fit(s, up), s.out = <<>>, NEW k,
         k = IF Exchanging(s) THEN ExchangeSend(s) ELSE s
  PROVE  /\ k \in Daemon /\ Fit(k, up) /\ MsgsFit(k.out, s.po) /\ k.list = s.list /\ k.po = s.po
         /\ News(k.out) => s.q # <<>>
         /\ s.q # <<>> => News(k.out) \/ k.q # <<>>
<1>1. s \in Daemon /\ ExchangeSend(s) \in Daemon
  BY ExchangeSendGood, Zenon DEF Good
<1>2. CASE Exchanging(s)
  BY <1>1, <1>2, ExchangeSendFit, Zenon
<1>3. CASE ~Exchanging(s)
  <2>1. \A w : w = <<>> => MsgsFit(w, s.po) /\ ~News(w)
    BY DEF MsgsFit, News
  <2>2. k = s /\ MsgsFit(s.out, s.po) /\ ~News(s.out)
    BY <1>3, <2>1, Zenon
  <2> QED
    BY <1>1, <2>2, Zenon
<1> QED
  BY <1>2, <1>3, Zenon

LEMMA HandleK ==
  ASSUME Inv, KInv, scene' = scene, NEW n \in Node, Handle(n)
  PROVE  KInv'
<1> DEFINE d == daemon[n]
           up == daemon[Peer(n)].po
           m == Head(wire[n])
           s == Receive(n, d, m)
           k == IF Exchanging(s) THEN ExchangeSend(s) ELSE s
           rest == Tail(wire[n])
<1>1. /\ d \in Daemon /\ Good(d) /\ Fit(d, up) /\ d.out = <<>> /\ up \in BOOLEAN
      /\ wire[n] \in Seq(Msg) /\ MsgsFit(wire[n], up) /\ scene.mac \subseteq Mac
  BY DaemonFacts, Zenon
<1>2. Step(n, k, rest) /\ UNCHANGED <<open, scene>> /\ wire[n] # <<>>
  BY Zenon DEF Handle
<1>3. m \in Msg /\ MsgsFit(rest, up) /\ MsgFit(m, up) /\ (News(wire[n]) <=> News(rest) \/ m.type = "NEIGH")
  BY <1>1, <1>2, TailNews
<1>4. Good(s)
  BY <1>1, <1>3, ReceiveGood, Zenon
<1>5. /\ Fit(s, up) /\ s.out = <<>> /\ s.po = d.po
      /\ m.type # "NEIGH" => Grows(d, s)
      /\ Kept /\ m.type = "NEIGH" => Listed(s)
  <2>1. CASE m.type = "DONE" /\ n = Hi
    <3>1. s = [d EXCEPT !.state = "STAGE2"]
      BY <2>1, Zenon DEF Receive
    <3> HIDE DEF s
    <3> QED
      BY <1>1, <2>1, <3>1, StateFit, Zenon
  <2>2. CASE m.type = "DONE" /\ n # Hi
    <3>1. s = EnterExchange(d)
      BY <2>2, Zenon DEF Receive
    <3>2. Fit(s, up) /\ s.list = d.list /\ s.q = d.q /\ s.out = d.out /\ s.po = d.po
      BY <1>1, <3>1, EnterExchangeFit, ZenonT(40)
    <3> HIDE DEF s
    <3> QED
      BY <1>1, <2>2, <3>2, Zenon DEF Grows, Listed, Announced
  <2>3. CASE m.type = "STATE"
    <3>1. s = PeerLink(d, m.up) /\ m.up \in BOOLEAN /\ (Fixed => m.up = up)
      BY <1>3, <2>3, Zenon DEF Receive, Msg, MsgFit
    <3>2. Fit(s, up) /\ Grows(d, s) /\ s.po = d.po
      BY <1>1, <3>1, PeerLinkFit, ZenonT(40)
    <3> HIDE DEF s
    <3> QED
      BY <1>1, <2>3, <3>2, Zenon DEF Grows
  <2>4. CASE m.type = "NEIGH"
    <3>1. s = PeerUpdate(d, m.update) /\ m.update \in Update /\ Fitting(m.update)
      BY <1>3, <2>4, Zenon DEF Receive, Msg, MsgFit
    <3> HIDE DEF s
    <3> QED
      BY <1>1, <2>4, <3>1, PeerUpdateFit, Zenon
  <2> QED
    BY <1>3, <2>1, <2>2, <2>3, <2>4, Zenon DEF Msg
<1>6. Kept /\ m.type = "NEIGH" => Listed(daemon[Peer(n)])
  BY <1>3, Zenon DEF KInv, Source
<1> HIDE DEF m, s, rest
<1>7. /\ k \in Daemon /\ Fit(k, up) /\ MsgsFit(k.out, s.po) /\ k.list = s.list /\ k.po = s.po
      /\ News(k.out) => s.q # <<>>
      /\ s.q # <<>> => News(k.out) \/ k.q # <<>>
  BY <1>4, <1>5, ThenSends
<1> HIDE DEF k
<1>8. Kept /\ s.q # <<>> => Listed(s)
  BY <1>5, Zenon DEF Fit
<1>9. Passes(n, k, rest)
  <2>1. CASE m.type = "NEIGH"
    BY <1>3, <1>5, <1>6, <1>7, <1>8, <2>1, Zenon DEF Passes, Listed
  <2>2. CASE m.type # "NEIGH"
    BY <1>3, <1>5, <1>7, <1>8, <2>2, Zenon DEF Passes, Listed, Announced, Grows
  <2> QED
    BY <2>1, <2>2, Zenon
<1> QED
  BY <1>2, <1>7, <1>9, PassK, Zenon

LEMMA InitK ==
  ASSUME Init
  PROVE  KInv
<1>1. ASSUME NEW n \in Node
      PROVE  /\ daemon[n].nl = <<>> /\ daemon[n].q = <<>> /\ daemon[n].out = <<>> /\ wire[n] = <<>>
             /\ daemon[n].kernel = "none" /\ ~Listed(daemon[n]) /\ daemon[n].pif = "none" /\ ~open[n]
  BY DEF Init, Listed, NoEntry
<1>2. \A w : w = <<>> => Within(w) /\ ~News(w) /\ \A b : MsgsFit(w, b)
  BY DEF Within, News, MsgsFit
<1>3. \A n \in Node : \A up : Fit(daemon[n], up)
  BY <1>1, <1>2, Zenon DEF Fit
<1>4. Ends
  BY <1>1, <1>2, <1>3, Zenon DEF Ends
<1>5. Source /\ OnItsWay
  BY <1>1, <1>2, Zenon DEF Source, OnItsWay
<1> QED
  BY <1>4, <1>5, Zenon DEF KInv

LEMMA ConnectK ==
  ASSUME Inv, KInv, scene' = scene, Connect
  PROVE  KInv'
<1>1. \A w : w = <<>> => ~News(w) /\ \A b : MsgsFit(w, b)
  BY DEF News, MsgsFit
<1>2. \A n \in Node : wire'[n] = <<>>
  BY Zenon DEF Connect
<1>3. ASSUME NEW n \in Node
      PROVE  /\ Fit(daemon'[n], daemon[Peer(n)].po) /\ daemon'[n].out = <<>>
             /\ daemon'[n].po = daemon[n].po
             /\ Listed(daemon'[n]) => daemon'[n].q # <<>>
  <2> DEFINE s == daemon[n]
             k == [s EXCEPT !.state = "STAGE1"]
             up == daemon[Peer(n)].po
  <2>1. s \in Daemon /\ Fit(s, up) /\ s.out = <<>>
    BY DaemonFacts, Zenon
  <2>2. daemon'[n] = SynInfo(k)
    BY Zenon DEF Connect
  <2>3. k \in Daemon /\ Fit(k, up) /\ k.out = s.out /\ k.po = s.po
    BY <2>1, StateFit, Zenon
  <2> HIDE DEF s, k, up
  <2>4. /\ Fit(SynInfo(k), up) /\ Grows(k, SynInfo(k)) /\ SynInfo(k).po = k.po
        /\ Listed(SynInfo(k)) => SynInfo(k).q # <<>>
    BY <2>3, SynInfoFit, Zenon
  <2> QED
    BY <2>1, <2>2, <2>3, <2>4, Zenon DEF Grows, s, up
<1>4. ASSUME NEW n \in Node
      PROVE  /\ Fit(daemon'[n], daemon'[Peer(n)].po) /\ daemon'[n].out = <<>>
             /\ MsgsFit(wire'[n], daemon'[Peer(n)].po)
  BY <1>1, <1>2, <1>3, PeerType, Zenon
<1>5. \A n \in Node : ~News(wire'[n])
  BY <1>1, <1>2, Zenon
<1>6. \A n \in Node : Announced(daemon'[n]) => daemon'[n].q # <<>>
  BY <1>3, Zenon DEF Announced
<1> QED
  BY <1>4, <1>5, <1>6, KInvNext, Zenon

LEMMA DisconnectK ==
  ASSUME Inv, KInv, scene' = scene, NEW n \in Node, Disconnect(n)
  PROVE  KInv'
<1> DEFINE p == Peer(n)
           t == [daemon[n] EXCEPT !.state = "INIT", !.pif = "none", !.q = <<>>]
<1>1. p \in Node /\ p # n /\ Peer(p) = n /\ \A h \in Node : h = n \/ h = p
  BY PeerType, PeerPeer, Zenon DEF Node, Peer
<1>2. /\ daemon'[n] = t /\ daemon'[p] = daemon[p] /\ wire'[n] = <<>> /\ wire'[p] = wire[p]
      /\ ~open'[n]
  BY <1>1, Zenon DEF Inv, TypeOK, Disconnect
<1>3. \A w : w = <<>> => ~News(w) /\ \A b : MsgsFit(w, b)
  BY DEF News, MsgsFit
<1>4. /\ daemon[n] \in Daemon /\ Fit(daemon[n], daemon[p].po) /\ daemon[n].out = <<>>
      /\ Fit(daemon[p], daemon[n].po) /\ MsgsFit(wire[p], daemon[n].po) /\ daemon[p].out = <<>>
  BY <1>1, DaemonFacts, Zenon
<1>5. Fit(t, daemon[p].po) /\ t.list = daemon[n].list /\ t.po = daemon[n].po /\ t.out = daemon[n].out
  BY <1>4, ResetFit, Zenon
<1> HIDE DEF p, t
<1>6. ASSUME NEW h \in Node
      PROVE  /\ Fit(daemon'[h], daemon'[Peer(h)].po) /\ daemon'[h].out = <<>>
             /\ MsgsFit(wire'[h], daemon'[Peer(h)].po)
  <2>1. CASE h = n
    BY <1>1, <1>2, <1>3, <1>4, <1>5, <2>1, Zenon DEF p
  <2>2. CASE h = p
    BY <1>1, <1>2, <1>4, <1>5, <2>2, Zenon
  <2> QED
    BY <1>1, <2>1, <2>2, Zenon
<1>7. ASSUME Kept, NEW h \in Node, News(wire'[h])
      PROVE  Listed(daemon'[Peer(h)])
  <2>1. h = p /\ News(wire[p])
    BY <1>1, <1>2, <1>3, <1>7, Zenon
  <2>2. Listed(daemon[n])
    BY <1>1, <1>7, <2>1, Zenon DEF KInv, Source
  <2> QED
    BY <1>1, <1>2, <1>5, <2>1, <2>2, Zenon DEF Listed
<1>8. \A h \in Node : ~(open'[h] /\ open'[Peer(h)])
  BY <1>1, <1>2, Zenon
<1> QED
  BY <1>6, <1>7, <1>8, KInvNext, Zenon

\* all the information of a daemon, in answer to a request
LEMMA AllInfoK ==
  ASSUME Inv, KInv, scene' = scene, NEW n \in Node, AllInfo(n)
  PROVE  KInv'
<1> DEFINE d == daemon[n]
           up == daemon[Peer(n)].po
           m == [type |-> "STATE", up |-> d.po]
           o == <<m>>
           a == [d EXCEPT !.changed = FALSE, !.out = o]
           s == SendNeigh(a)
           k == [s EXCEPT !.out = Append(@, [type |-> "DONE"])]
           r == IF n = Lo THEN [k EXCEPT !.state = "STAGE2"] ELSE EnterExchange(k)
<1>1. /\ d \in Daemon /\ Good(d) /\ Fit(d, up) /\ up \in BOOLEAN /\ MsgsFit(wire[n], up)
      /\ d.out = <<>>
  BY DaemonFacts, Zenon
<1>2. Step(n, r, wire[n]) /\ UNCHANGED <<open, scene>>
  BY Zenon DEF AllInfo
<1>3. m \in Msg /\ m.type = "STATE" /\ m.up = d.po
  BY <1>1, SameFields, Zenon DEF Msg
<1>4. MsgsFit(o, d.po) /\ ~News(o) /\ o \in Seq(Msg)
  BY <1>3 DEF MsgsFit, MsgFit, News
<1> HIDE DEF m, o
<1>5. a \in Daemon /\ Fit(a, up) /\ a.out = o /\ a.po = d.po /\ a.q = d.q /\ a.list = d.list
  BY <1>1, <1>4, WriteFit, ZenonT(40)
<1>6. Good(a)
  BY <1>1, <1>4, WriteGood, ZenonT(40)
<1> HIDE DEF a
<1>7. Fit(s, up) /\ Sent(a, s) /\ MsgsFit(s.out, d.po)
  BY <1>4, <1>5, SendNeighFit, Zenon
<1>8. Good(s) /\ s.out \in Seq(Msg) /\ s \in Daemon
  BY <1>6, SendGood, SameFields, Zenon DEF Good
<1> HIDE DEF s
<1> DEFINE e == [type |-> "DONE"]
           c == Append(s.out, e)
<1>9. e \in Msg /\ e.type = "DONE" /\ MsgFit(e, d.po)
  BY Zenon DEF Msg, MsgFit
<1> HIDE DEF e
<1>10. c \in Seq(Msg) /\ MsgsFit(c, d.po) /\ (News(c) <=> News(s.out))
  BY <1>7, <1>8, <1>9, OneNews
<1>11. k = [s EXCEPT !.out = c]
  BY <1>8, Zenon DEF Daemon, e
<1> HIDE DEF c
<1>12. Good(k)
  BY <1>8, <1>10, <1>11, WriteGood, ZenonT(40)
<1>13. /\ k.nl = s.nl /\ k.kernel = s.kernel /\ k.pif = s.pif /\ k.po = s.po
       /\ k.q = s.q /\ k.out = c /\ k.list = s.list /\ k \in Daemon
  BY <1>8, <1>11, <1>12, Zenon DEF Daemon, Good
<1> HIDE DEF k
<1>14. Fit(k, up)
  BY <1>7, <1>13, Zenon DEF Fit, Listed
<1>15. r \in Daemon /\ Fit(r, up) /\ r.list = k.list /\ r.q = k.q /\ r.out = k.out /\ r.po = k.po
  <2>1. CASE n = Lo
    <3>1. r = [k EXCEPT !.state = "STAGE2"]
      BY <2>1, Zenon
    <3> HIDE DEF r
    <3> QED
      BY <1>13, <1>14, <3>1, StateFit, Zenon
  <2>2. CASE n # Lo
    BY <1>1, <1>12, <1>14, <2>2, EnterExchangeFit, EnterExchangeGood, Zenon DEF Good
  <2> QED
    BY <2>1, <2>2, Zenon
<1> HIDE DEF r
<1>16. /\ r.list = d.list /\ r.po = d.po /\ MsgsFit(r.out, r.po)
       /\ News(r.out) => d.q # <<>>
       /\ d.q # <<>> => News(r.out)
  BY <1>4, <1>5, <1>7, <1>10, <1>13, <1>15, ZenonT(40) DEF Sent
<1>17. Kept /\ d.q # <<>> => Listed(d)
  BY <1>1, Zenon DEF Fit
<1>18. Passes(n, r, wire[n])
  BY <1>1, <1>15, <1>16, <1>17, ZenonT(40) DEF Passes, Listed, Announced
<1> QED
  BY <1>2, <1>15, <1>18, PassK, Zenon

LEMMA StutterK ==
  ASSUME KInv, UNCHANGED vars
  PROVE  KInv'
<1>1. scene' = scene /\ daemon' = daemon /\ wire' = wire /\ open' = open
  BY Zenon DEF vars
<1> QED
  BY <1>1, KInvNext, Zenon DEF KInv, Ends, Source, OnItsWay

LEMMA NextK ==
  ASSUME Inv, KInv, [Next]_vars
  PROVE  KInv'
<1>1. CASE UNCHANGED vars
  BY <1>1, StutterK, Zenon
<1>2. CASE Next
  <2>1. scene' = scene
    BY <1>2, Zenon DEF Next
  <2>2. CASE Connect
    BY <2>1, <2>2, ConnectK, Zenon
  <2>3. ASSUME NEW n \in Node,
               \/ AllInfo(n) \/ Send(n) \/ Handle(n) \/ Lose(n) \/ Eof(n) \/ Notification(n)
               \/ KernelLearn(n) \/ KernelAge(n) \/ ReplyPacket(n) \/ PoChange(n)
        PROVE  KInv'
    <3>1. CASE AllInfo(n)
      BY <2>1, <3>1, AllInfoK, Zenon
    <3>2. CASE Send(n)
      BY <2>1, <3>2, SendK, Zenon
    <3>3. CASE Handle(n)
      BY <2>1, <3>3, HandleK, Zenon
    <3>4. CASE Lose(n) \/ Eof(n)
      BY <2>1, <3>4, DisconnectK, Zenon DEF Lose, Eof
    <3>5. CASE Notification(n) \/ KernelLearn(n) \/ KernelAge(n) \/ ReplyPacket(n) \/ PoChange(n)
      BY <2>1, <3>5, EventK, Zenon
    <3> QED
      BY <2>3, <3>1, <3>2, <3>3, <3>4, <3>5, Zenon
  <2> QED
    BY <1>2, <2>2, <2>3, Zenon DEF Next
<1> QED
  BY <1>1, <1>2, Zenon

LEMMA NotificationInv ==
  ASSUME Inv, KInv, scene' = scene, NEW n \in Node, Notification(n)
  PROVE  Inv'
<1> DEFINE r == LearnFromKernel([daemon[n] EXCEPT !.nl = Tail(daemon[n].nl)], Head(daemon[n].nl))
<1>1. Good(r)
  <2> DEFINE s == daemon[n]
  <2>1. Good(s) /\ s.nl # <<>> /\ s.nl \in Seq(Update) /\ scene \in Scene
    BY SameFields, Zenon DEF Inv, TypeOK, Good, Notification
  <2>2. Within(s.nl) /\ (Listed(s) => s.list.mac \in scene.mac)
    BY Zenon DEF KInv, Ends, Fit
  <2>3. Head(s.nl).op = "ADD" => Head(s.nl).mac \in scene.mac
    BY <2>1, <2>2, WithinTail, Zenon DEF Fitting
  <2> QED
    BY <2>1, <2>2, <2>3, LearnGood, ZenonT(40)
<1>2. daemon' = [daemon EXCEPT ![n] = r] /\ UNCHANGED <<open, wire, events, drops>>
  BY Zenon DEF Notification
<1> HIDE DEF r
<1> QED
  BY <1>1, <1>2, DaemonStep, ZenonT(40) DEF Inv, TypeOK

LEMMA StepInv ==
  ASSUME Inv, KInv, [Next]_vars
  PROVE  Inv'
<1>1. CASE UNCHANGED vars
  BY <1>1, Zenon DEF vars, Inv, TypeOK, Good, Told, Follows, OneMac
<1>2. ASSUME scene' = scene, Connect
      PROVE  Inv'
  BY <1>2, ConnectInv, Zenon
<1>3. ASSUME scene' = scene, NEW n \in Node, AllInfo(n) \/ Send(n) \/ Handle(n)
      PROVE  Inv'
  BY <1>3, AllInfoInv, SendInv, HandleInv, Zenon
<1>4. ASSUME scene' = scene, NEW n \in Node, Lose(n) \/ Eof(n) \/ Notification(n)
      PROVE  Inv'
  BY <1>4, LossInv, NotificationInv, Zenon
<1>5. ASSUME scene' = scene, NEW n \in Node,
             KernelLearn(n) \/ KernelAge(n) \/ ReplyPacket(n) \/ PoChange(n)
      PROVE  Inv'
  BY <1>5, EventInv, Zenon
<1> QED
  BY <1>1, <1>2, <1>3, <1>4, <1>5, Zenon DEF Next

LEMMA InvHolds == Spec => [](Inv /\ KInv)
<1>1. Init => Inv /\ KInv
  BY InitInv, InitK, Zenon
<1>2. Inv /\ KInv /\ [Next]_vars => (Inv /\ KInv)'
  BY StepInv, NextK, Zenon
<1> QED
  BY <1>1, <1>2, PTL DEF Spec

-----------------------------------------------------------------------------
\* The state of the two daemons, their kernels and what is on its way between them
\* is typed: no deleted entry stays in a list, no withdrawal carries an address.
THEOREM TypeCorrect == Spec => []TypeOK
<1>1. Inv => TypeOK
  BY Zenon DEF Inv
<1> QED
  BY <1>1, InvHolds, PTL

\* The list of a daemon that has read its notifications is what its kernel has, for
\* any MAC addresses, events and losses of the session: do_one_neigh_request never
\* drops the notification that counts.
THEOREM ListFollowsKernel == Spec => []ListMatchesKernel
<1>1. Inv => ListMatchesKernel
  BY Zenon DEF Inv, TypeOK, Good, Told, Follows, ListMatchesKernel
<1> QED
  BY <1>1, InvHolds, PTL

\* What mlacp_resync_arp and syn_arp_info_to_peer have announced is never lost: at
\* rest the entry is in the list of the peer, for any MAC addresses, any number of
\* events and of sessions lost.
THEOREM AnnouncementArrives == Spec => []AnnouncedIsKnown
<1>1. Inv /\ KInv => AnnouncedIsKnown
  <2> SUFFICES ASSUME Inv, KInv, Kept, Quiescent, NEW n \in Node,
                      Listed(daemon[n]), daemon[n].list.op = "ADD"
               PROVE  Listed(daemon[Peer(n)])
    BY Zenon DEF AnnouncedIsKnown
  <2>1. \A w : w = <<>> => ~News(w)
    BY DEF News
  <2>2. open[n] /\ open[Peer(n)] /\ daemon[n].q = <<>> /\ wire[Peer(n)] = <<>>
    BY PeerType, Zenon DEF Quiescent
  <2> QED
    BY <2>1, <2>2, Zenon DEF KInv, OnItsWay, Announced
<1> QED
  BY <1>1, InvHolds, PTL
=============================================================================
