-------------------------- MODULE MclagLink_proofs --------------------------
(***************************************************************************)
(* The safety properties of the MLAG port channels, for any number of port  *)
(* channels, link changes, configuration commands, session losses and       *)
(* restarts.                                                                *)
(***************************************************************************)
EXTENDS MclagLink, TLAPS

-----------------------------------------------------------------------------
(* The inductive invariant of one daemon.                                  *)

\* the two link states of a port channel agree, on either side, and a bound one
\* is there and configured
IfKept(l, q, member) == l.poActive = l.up /\ q.up = q.poActive /\ (l.bound => l.here /\ member)

\* the isolation follows the peer once mlacp_peer_conn_handler has run
IsoKept(s) ==
    Exchanging(s) /\ s.conn =>
      \A p \in Po : s.lif[p].bound /\ s.lif[p].up /\ s.pif[p].known => s.lif[p].iso = s.pif[p].poActive

\* an announced interface is not in the purge list
PurgeKept(s) ==
    /\ s.ml \in {"INIT", "STAGE1", "STAGE2"} => s.live = {} /\ s.gone = {}
    /\ s.ml = "EXCHANGE" =>
         \A p \in Po : s.lif[p].bound /\ ~s.lif[p].cfgSync => p \notin s.live /\ p \notin s.gone

\* without detach, what is still to be announced is announced with its state
ChangeKept(s) ==
    "detach" \notin Config =>
      \A p \in Po : s.lif[p].here /\ (s.lif[p].bound => s.lif[p].cfgSync) => s.lif[p].changed

Kept(s) == (\A p \in Po : IfKept(s.lif[p], s.pif[p], p \in s.bindList)) /\ IsoKept(s) /\ PurgeKept(s) /\ ChangeKept(s)

\* traffic is stopped in an exchange only; an interface is not attached with it stopped
CanReattach == {"attach", "detach"} \subseteq Config
StopKept(s) ==
    "warm" \notin Reboot /\ ~CanReattach =>
      /\ ~s.warm
      /\ \A p \in Po : /\ s.lif[p].bound /\ s.lif[p].disable => s.ml \in {"EXCHANGE", "ERROR"}
                       /\ "detach" \notin Config /\ s.lif[p].disable => s.lif[p].bound

-----------------------------------------------------------------------------
(* The inductive invariant of two connected daemons.                       *)

About(m, p, t) == m.type = t /\ m.po = p

\* after the first i messages of w, an entry that is q now exists
KnownAt(q, w, p, i) ==
    \/ \E k \in 1 .. i : About(w[k], p, "CONF") /\ \A j \in k + 1 .. i : ~About(w[j], p, "PURGE")
    \/ q.known /\ \A j \in 1 .. i : ~About(w[j], p, "PURGE")

\* after the messages of w, it exists
KnownAfter(q, w, p) == KnownAt(q, w, p, Len(w))

\* and its link state is v
StateAfter(q, w, p, v) ==
    \/ \E i \in 1 .. Len(w) :
         /\ About(w[i], p, "STATE") /\ w[i].up = v /\ KnownAt(q, w, p, i)
         /\ \A j \in i + 1 .. Len(w) : ~About(w[j], p, "STATE") /\ ~About(w[j], p, "PURGE")
    \/ q.known /\ q.up = v /\ \A j \in 1 .. Len(w) : ~About(w[j], p, "STATE") /\ ~About(w[j], p, "PURGE")

\* s has told r, by way of w, all that it does not mark for sending
Told(s, r, w) ==
    \A p \in Po :
      s.lif[p].bound /\ ~s.lif[p].cfgSync =>
        /\ KnownAfter(r.pif[p], w, p)
        /\ "detach" \notin Config /\ ~s.lif[p].changed => StateAfter(r.pif[p], w, p, s.lif[p].up)

\* the answer to a sync request ends at place k of w
Answer(w, k) ==
    /\ k \in 1 .. Len(w) /\ w[k].type = "DONE"
    /\ \A j \in 1 .. k - 1 : w[j].type \in {"CONF", "STATE"}

\* what the ACTIVE node sends after its answer
Request(l, w, k) == IF l.wait THEN Len(w) = k + 1 /\ w[k + 1].type = "REQ" ELSE Len(w) = k

\* where two daemons can be, and the messages of the synchronisation between them
Phase(l, h, wl, wh) ==
    \/ /\ l.ml = "INIT" \/ (l.ml = "STAGE1" /\ ~l.wait)
       /\ wh = <<>>
       /\ \/ (h.ml = "INIT" \/ (h.ml = "STAGE1" /\ ~h.wait)) /\ wl = <<>>
          \/ h.ml = "STAGE1" /\ h.wait /\ Len(wl) = 1 /\ wl[1].type = "REQ"
    \/ /\ l.ml = "STAGE2" /\ wl = <<>>
       /\ \/ h.ml = "STAGE1" /\ h.wait /\ \E k \in 1 .. Len(wh) : Answer(wh, k) /\ Request(l, wh, k)
          \/ h.ml = "STAGE2" /\ ~h.wait /\ Request(l, wh, 0)
    \/ /\ l.ml = "STAGE2" /\ l.wait /\ wh = <<>>
       /\ h.ml = "EXCHANGE" /\ \E k \in 1 .. Len(wl) : Answer(wl, k)
    \/ l.ml = "EXCHANGE" /\ h.ml = "EXCHANGE"

InStep(l, h, wl, wh) ==
    \/ l.ml = "ERROR" \/ h.ml = "ERROR"
    \/ /\ Phase(l, h, wl, wh)
       /\ l.ml \in {"STAGE2", "EXCHANGE"} => Told(l, h, wh)
       /\ h.ml = "EXCHANGE" => Told(h, l, wl)

\* the messages a daemon that is not rebooting sends
NoWarm(w) == \A i \in 1 .. Len(w) : w[i].type # "WARM"

Inv ==
    /\ TypeOK
    /\ \A n \in Node : /\ Kept(daemon[n])
                       /\ StopKept(daemon[n])
                       /\ ~open[n] => daemon[n].ml = "INIT"
                       /\ "warm" \notin Reboot => NoWarm(wire[n])
    /\ open[Lo] /\ open[Hi] => InStep(daemon[Lo], daemon[Hi], wire[Lo], wire[Hi])
-----------------------------------------------------------------------------
(* Sequences.                                                              *)

\* two sequences over S make one
LEMMA ConcatType == \A S : \A x, y \in Seq(S) : x \o y \in Seq(S)
  BY SMTT(40)

\* the parts of a concatenation
LEMMA CatParts ==
  ASSUME NEW S, NEW x \in Seq(S), NEW y \in Seq(S)
  PROVE  /\ Len(x \o y) = Len(x) + Len(y) /\ Len(x) \in Nat /\ Len(y) \in Nat
         /\ \A i \in 1 .. Len(x) : (x \o y)[i] = x[i]
         /\ \A i \in 1 .. Len(y) : (x \o y)[Len(x) + i] = y[i]
         /\ \A i \in 1 .. Len(x \o y) : i \in 1 .. Len(x) \/ (i - Len(x) \in 1 .. Len(y) /\ (x \o y)[i] = y[i - Len(x)])
  BY SMTT(40)

-----------------------------------------------------------------------------
(* One port channel.                                                       *)

\* the fields of an interface entry, own and of the peer
LEMMA IfFields ==
  /\ \A l \in LocalIf : /\ l.here \in BOOLEAN /\ l.up \in BOOLEAN /\ l.bound \in BOOLEAN /\ l.poActive \in BOOLEAN
                        /\ l.changed \in BOOLEAN /\ l.cfgSync \in BOOLEAN /\ l.disable \in BOOLEAN /\ l.iso \in BOOLEAN
  /\ \A q \in PeerIf : q.known \in BOOLEAN /\ q.up \in BOOLEAN /\ q.poActive \in BOOLEAN
  /\ NoPif \in PeerIf /\ ~NoPif.known /\ NoPif.up = NoPif.poActive
<1> USE Zenon
<1>1. NoPif \in PeerIf /\ NoPif.known = FALSE /\ NoPif.up = FALSE /\ NoPif.poActive = FALSE
  BY DEF PeerIf, NoPif
<1>2. \A q \in [known : {TRUE}, up : BOOLEAN, poActive : BOOLEAN] :
        q.known = TRUE /\ q.up \in BOOLEAN /\ q.poActive \in BOOLEAN
  OBVIOUS
<1>3. \A q \in PeerIf : q.known \in BOOLEAN /\ q.up \in BOOLEAN /\ q.poActive \in BOOLEAN
  <2> SUFFICES ASSUME NEW q \in PeerIf PROVE q.known \in BOOLEAN /\ q.up \in BOOLEAN /\ q.poActive \in BOOLEAN
    OBVIOUS
  <2>1. CASE q = NoPif
    BY <1>1, <2>1
  <2>2. CASE q # NoPif
    BY <1>2, <2>2 DEF PeerIf
  <2> QED
    BY <2>1, <2>2
<1>4. \A l \in LocalIf : /\ l.here \in BOOLEAN /\ l.up \in BOOLEAN /\ l.bound \in BOOLEAN /\ l.poActive \in BOOLEAN
                         /\ l.changed \in BOOLEAN /\ l.cfgSync \in BOOLEAN /\ l.disable \in BOOLEAN /\ l.iso \in BOOLEAN
  BY DEF LocalIf
<1> QED
  BY <1>1, <1>3, <1>4

\* k is l but for the fields of the list
SameButIso(l, k) ==
    /\ k.here = l.here /\ k.up = l.up /\ k.bound = l.bound /\ k.poActive = l.poActive
    /\ k.changed = l.changed /\ k.cfgSync = l.cfgSync /\ k.disable = l.disable
SameBut(l, k) == k.here = l.here /\ k.bound = l.bound /\ k.cfgSync = l.cfgSync

\* update_peerlink_isolate_from_lif sets nothing but the isolation
LEMMA IsolateLif ==
  ASSUME NEW l \in LocalIf, NEW q \in PeerIf, NEW ex \in BOOLEAN, NEW up \in BOOLEAN, NEW k, k = IsolateFromLif(ex, l, q, up)
  PROVE  k \in LocalIf /\ SameButIso(l, k) /\ k.iso = IF ex /\ up THEN ~q.known \/ q.poActive ELSE l.iso
<1> USE Zenon
<1>1. (~q.known \/ q.poActive) \in BOOLEAN
  BY IfFields
<1>2. CASE ex /\ up
  <2>1. k = [l EXCEPT !.iso = ~q.known \/ q.poActive]
    BY <1>2 DEF IsolateFromLif
  <2> QED
    BY <1>1, <1>2, <2>1 DEF LocalIf, SameButIso
<1>3. CASE ~(ex /\ up)
  <2>1. k = l
    BY <1>3 DEF IsolateFromLif
  <2> QED
    BY <1>3, <2>1 DEF SameButIso
<1> QED
  BY <1>2, <1>3

\* k is l after update_peerlink_isolate_from_pif
PifIsolated(ex, l, q, up, new, k) ==
    /\ k \in LocalIf /\ SameButIso(l, k)
    /\ ex /\ (new \/ up # q.poActive) /\ l.bound /\ l.poActive => k.iso = up
    /\ ~(ex /\ (new \/ up # q.poActive) /\ l.bound /\ l.poActive) => k.iso = l.iso

\* mlacp_link_disable_traffic_distribution and its counterpart set nothing but the flag
LEMMA Traffic ==
  ASSUME NEW l \in LocalIf, NEW ex \in BOOLEAN
  PROVE  /\ DisableTraffic(ex, l) \in LocalIf
         /\ DisableTraffic(ex, l) = IF l.bound /\ ex /\ ~l.poActive THEN [l EXCEPT !.disable = TRUE] ELSE l
         /\ EnableTraffic(l) \in LocalIf
         /\ EnableTraffic(l) = IF l.bound THEN [l EXCEPT !.disable = FALSE] ELSE l
<1>1. [l EXCEPT !.disable = TRUE] \in LocalIf /\ [l EXCEPT !.disable = FALSE] \in LocalIf
  BY Zenon DEF LocalIf
<1> QED
  BY <1>1, Zenon DEF DisableTraffic, EnableTraffic

\* k is l after mlacp_portchannel_state_handler
StateHandled(ex, l, q, up, k) ==
    /\ k \in LocalIf /\ SameBut(l, k) /\ k.up = l.up /\ k.poActive = up
    /\ k.changed = (l.changed \/ l.poActive # up)
    /\ k.iso = IF ex /\ up THEN ~q.known \/ q.poActive ELSE l.iso
    /\ k.disable = (l.disable \/ (l.bound /\ ex /\ ~up))

\* mlacp_portchannel_state_handler
LEMMA PortState ==
  ASSUME NEW l \in LocalIf, NEW q \in PeerIf, NEW ex \in BOOLEAN, NEW up \in BOOLEAN,
         NEW k, k = PortChannelState(ex, l, q, up)
  PROVE  StateHandled(ex, l, q, up, k)
<1> DEFINE a == IsolateFromLif(ex, l, q, up)
           b == UpdatePoIfInfo(a, up)
<1>1. a \in LocalIf /\ SameButIso(l, a) /\ a.iso = IF ex /\ up THEN ~q.known \/ q.poActive ELSE l.iso
  BY IsolateLif, SMTT(40)
<1> HIDE DEF a
<1>2. /\ b \in LocalIf /\ SameBut(a, b) /\ b.up = a.up /\ b.poActive = up /\ b.iso = a.iso
      /\ b.disable = a.disable /\ b.changed = (a.changed \/ a.poActive # up)
  <2> USE Zenon
  <2>1. CASE a.poActive # up
    <3>1. b = [a EXCEPT !.changed = TRUE, !.poActive = up]
      BY <2>1 DEF UpdatePoIfInfo
    <3> QED
      BY <1>1, <2>1, <3>1 DEF LocalIf, SameBut
  <2>2. CASE a.poActive = up
    <3>1. b = a
      BY <2>2 DEF UpdatePoIfInfo
    <3>2. a.changed \in BOOLEAN
      BY <1>1, IfFields
    <3> QED
      BY <1>1, <2>2, <3>1, <3>2 DEF SameBut
  <2> QED
    BY <2>1, <2>2
<1>3. k = IF up THEN b ELSE DisableTraffic(ex, b)
  BY Zenon DEF PortChannelState, a
<1> HIDE DEF b
<1>4. /\ k \in LocalIf /\ SameBut(b, k) /\ k.up = b.up /\ k.poActive = b.poActive /\ k.iso = b.iso
      /\ k.changed = b.changed /\ k.disable = (b.disable \/ (b.bound /\ ex /\ ~up))
  <2> USE Zenon
  <2>1. CASE ~up /\ b.bound /\ ex
    <3>1. k = [b EXCEPT !.disable = TRUE] /\ k \in LocalIf
      BY <1>2, <1>3, <2>1, Traffic
    <3> QED
      BY <1>2, <2>1, <3>1 DEF LocalIf, SameBut
  <2>2. CASE ~(~up /\ b.bound /\ ex)
    <3>1. k = b
      BY <1>2, <1>3, <2>2, Traffic
    <3>2. b.disable \in BOOLEAN
      BY <1>2, IfFields
    <3> QED
      BY <1>2, <2>2, <3>1, <3>2 DEF SameBut
  <2> QED
    BY <2>1, <2>2
<1> QED
  BY <1>1, <1>2, <1>4, Zenon DEF SameBut, SameButIso, StateHandled

\* k is l after mlacp_bind_local_if
IfBound(ex, l, q, k) ==
    /\ k \in LocalIf /\ k.bound /\ k.cfgSync
    /\ k.here = l.here /\ k.up = l.up /\ k.poActive = l.poActive /\ k.changed = l.changed /\ k.disable = l.disable
    /\ k.iso = IF ex /\ l.poActive THEN ~q.known \/ q.poActive ELSE l.iso

\* mlacp_bind_local_if
LEMMA BindIf ==
  ASSUME NEW l \in LocalIf, NEW q \in PeerIf, NEW ex \in BOOLEAN, NEW k, k = BindLocalIf(ex, l, q)
  PROVE  IfBound(ex, l, q, k)
<1> DEFINE a == [l EXCEPT !.bound = TRUE, !.cfgSync = TRUE]
<1>1. /\ a \in LocalIf /\ a.bound /\ a.cfgSync
      /\ a.here = l.here /\ a.up = l.up /\ a.poActive = l.poActive /\ a.changed = l.changed /\ a.disable = l.disable
      /\ a.iso = l.iso /\ a.poActive \in BOOLEAN
  BY Zenon DEF LocalIf
<1>2. k = IsolateFromLif(ex, a, q, a.poActive)
  BY Zenon DEF BindLocalIf
<1> HIDE DEF a
<1>3. k \in LocalIf /\ SameButIso(a, k) /\ k.iso = IF ex /\ a.poActive THEN ~q.known \/ q.poActive ELSE a.iso
  BY <1>1, <1>2, IsolateLif, SMTT(40)
<1> QED
  BY <1>1, <1>3, Zenon DEF SameButIso, IfBound

-----------------------------------------------------------------------------
(* One daemon: what each operation leaves.                                 *)

\* the fields of a daemon
LEMMA DaemonFields ==
  ASSUME NEW s \in Daemon
  PROVE  /\ s.ml \in MlacpState /\ s.wait \in BOOLEAN /\ s.conn \in BOOLEAN /\ s.need \in BOOLEAN /\ s.warm \in BOOLEAN
         /\ s.lif \in [Po -> LocalIf] /\ s.pif \in [Po -> PeerIf] /\ s.out \in Seq(Msg)
         /\ \A p \in Po : s.lif[p] \in LocalIf /\ s.pif[p] \in PeerIf
         /\ Exchanging(s) \in BOOLEAN /\ Bound(s) \subseteq Po
         /\ s.live \subseteq Po /\ s.gone \subseteq Po /\ s.bindList \subseteq Po
  BY Zenon DEF Daemon, Exchanging, Bound

\* the messages the handlers build
LEMMA Messages ==
  /\ [type |-> "REQ"] \in Msg /\ [type |-> "DONE"] \in Msg /\ [type |-> "WARM"] \in Msg
  /\ \A p \in Po : /\ Conf(p) \in Msg /\ Purge(p) \in Msg /\ Ack(p) \in Msg
                   /\ \A up \in BOOLEAN : State(p, up) \in Msg
  BY Zenon DEF Msg, Conf, Purge, Ack, State

\* the fields of a message by its type
LEMMA MsgFields ==
  ASSUME NEW m \in Msg
  PROVE  /\ m.type \in {"REQ", "DONE", "WARM", "CONF", "PURGE", "ACK", "STATE"}
         /\ m.type \in {"CONF", "PURGE", "ACK", "STATE"} => m.po \in Po
         /\ m.type = "STATE" => m.up \in BOOLEAN
<1>1. CASE m \in [type : {"REQ", "DONE", "WARM"}]
  BY <1>1, SMTT(40)
<1>2. CASE m \in [type : {"CONF", "PURGE", "ACK"}, po : Po]
  BY <1>2, SMTT(40)
<1>3. CASE m \in [type : {"STATE"}, po : Po, up : BOOLEAN]
  BY <1>3, SMTT(40)
<1> QED
  BY <1>1, <1>2, <1>3, Zenon DEF Msg

\* the fields that only the stages, the connection and the commands change
SameFrame(s, t) ==
    t.ml = s.ml /\ t.wait = s.wait /\ t.conn = s.conn /\ t.bindList = s.bindList

\* t is s after an operation that may send x
Sends(s, t, x) == t \in Daemon /\ x \in Seq(Msg) /\ t.out = s.out \o x

SentOnly(s, t, x) ==
    /\ Sends(s, t, x) /\ SameFrame(s, t) /\ t.need = s.need /\ t.warm = s.warm
    /\ t.lif = s.lif /\ t.pif = s.pif /\ t.live = s.live /\ t.gone = s.gone

\* iccp_csm_send appends to the stream and changes nothing else
LEMMA SendStep ==
  ASSUME NEW s \in Daemon, NEW x \in Seq(Msg)
  PROVE  SentOnly(s, Send(s, x), x)
<1>1. s.out \o x \in Seq(Msg)
  BY DaemonFields, ConcatType, Zenon
<1> QED
  BY <1>1, Zenon DEF Send, SentOnly, Sends, SameFrame, Daemon

\* an operation that changes nothing of what s has told or has marked for sending, and sends x
Quiet(s, t, x) ==
    /\ Sends(s, t, x) /\ t.ml = s.ml /\ t.conn = s.conn /\ t.bindList = s.bindList /\ t.live = s.live /\ t.gone = s.gone
    /\ \A i \in 1 .. Len(x) : x[i].type \in {"ACK", "REQ"}
    /\ \A p \in Po :
         /\ t.lif[p].here = s.lif[p].here /\ t.lif[p].up = s.lif[p].up /\ t.lif[p].bound = s.lif[p].bound
         /\ t.lif[p].poActive = s.lif[p].poActive /\ t.lif[p].changed = s.lif[p].changed
         /\ t.lif[p].cfgSync = s.lif[p].cfgSync
         /\ t.lif[p].disable => s.lif[p].disable \/ (s.lif[p].bound /\ Exchanging(s))

\* what a message makes of the entry q of port channel p
Heard(q, q2, m, p) ==
    /\ About(m, p, "CONF") => q2.known /\ (q.known => q2.up = q.up)
    /\ About(m, p, "PURGE") => ~q2.known
    /\ About(m, p, "STATE") /\ q.known => q2.known /\ q2.up = m.up
    /\ m.type \notin {"CONF", "PURGE", "STATE"} \/ m.po # p => q2 = q

\* the empty send
LEMMA NothingSent == \A s \in Daemon : Len(<<>>) = 0 /\ <<>> \in Seq(Msg) /\ s.out \o <<>> = s.out
<1>1. \A w \in Seq(Msg) : w \o <<>> = w
  BY SMTT(40)
<1>2. Len(<<>>) = 0 /\ <<>> \in Seq(Msg)
  BY SMTT(40)
<1> QED
  BY <1>1, <1>2, DaemonFields, Zenon

\* a send of one message
LEMMA OneMsg == \A m \in Msg : <<m>> \in Seq(Msg) /\ Len(<<m>>) = 1 /\ \A j \in 1 .. Len(<<m>>) : <<m>>[j] = m
<1>1. \A S : \A m \in S : <<m>> \in Seq(S) /\ Len(<<m>>) = 1 /\ \A j \in 1 .. Len(<<m>>) : <<m>>[j] = m
  BY SMTT(40)
<1> QED
  BY <1>1, Zenon

\* a quiet operation on port channel p, which may change the isolation and enable the traffic
OneIfStep(s, t, x, p) ==
    LET l == s.lif[p]  k == t.lif[p]  q == s.pif[p]  u == t.pif[p]
    IN  /\ Sends(s, t, x) /\ SameFrame(s, t) /\ t.live = s.live /\ t.gone = s.gone
        /\ \A i \in 1 .. Len(x) : x[i].type \in {"ACK", "REQ"}
        /\ \A r \in Po : r # p => t.lif[r] = s.lif[r] /\ t.pif[r] = s.pif[r]
        /\ k.here = l.here /\ k.up = l.up /\ k.bound = l.bound /\ k.poActive = l.poActive
        /\ k.changed = l.changed /\ k.cfgSync = l.cfgSync /\ (k.disable => l.disable)
        /\ q.up = q.poActive => u.up = u.poActive
        /\ Exchanging(s) /\ l.bound /\ l.poActive /\ u.known =>
             k.iso = u.poActive \/ (q.known /\ k.iso = l.iso /\ u.poActive = q.poActive)

\* t is s after it received m, which is not a request
ReceivedBy(s, t, m) ==
    /\ \E x : Quiet(s, t, x) /\ (~Exchanging(s) => x = <<>>)
    /\ t.wait = (s.wait /\ m.type # "DONE")
    /\ t.warm => s.warm \/ m.type = "WARM"
    /\ \A r \in Po : Heard(s.pif[r], t.pif[r], m, r)
    /\ Kept(s) => Kept(t)

WithIf(s, p, k, u) == [s EXCEPT !.lif[p] = k, !.pif[p] = u]

-----------------------------------------------------------------------------
(* What a stream of messages tells.                                        *)

\* z is w followed by x
Joined(w, x, z) ==
    /\ Len(w) \in Nat /\ Len(x) \in Nat /\ Len(z) = Len(w) + Len(x)
    /\ \A i \in 1 .. Len(w) : z[i] = w[i]
    /\ \A i \in 1 .. Len(x) : z[Len(w) + i] = x[i]
    /\ \A i \in 1 .. Len(z) : i \notin 1 .. Len(w) => i - Len(w) \in 1 .. Len(x) /\ z[i] = x[i - Len(w)]

\* the parts of a concatenation of streams
LEMMA Join ==
  ASSUME NEW w \in Seq(Msg), NEW x \in Seq(Msg)
  PROVE  Joined(w, x, w \o x) /\ w \o x \in Seq(Msg)
<1>1. w \o x \in Seq(Msg)
  BY ConcatType, Zenon
<1>2. /\ Len(w \o x) = Len(w) + Len(x) /\ Len(w) \in Nat /\ Len(x) \in Nat
      /\ \A i \in 1 .. Len(w) : (w \o x)[i] = w[i]
      /\ \A i \in 1 .. Len(x) : (w \o x)[Len(w) + i] = x[i]
      /\ \A i \in 1 .. Len(w \o x) : i \in 1 .. Len(w) \/ (i - Len(w) \in 1 .. Len(x) /\ (w \o x)[i] = x[i - Len(w)])
  BY CatParts, Zenon
<1> QED
  BY <1>1, <1>2, Zenon DEF Joined

\* g stands for the entry after w
LEMMA CatKnown ==
  ASSUME NEW w, NEW x, NEW z, Joined(w, x, z), NEW q, NEW g, NEW p, NEW n \in 0 .. Len(x),
         g.known => KnownAfter(q, w, p), KnownAt(g, x, p, n)
  PROVE  KnownAt(q, z, p, Len(w) + n)
<1>0. Len(w) \in Nat /\ Len(x) \in Nat /\ n \in Nat
  BY SMTT(40) DEF Joined
<1>1. CASE \E i \in 1 .. n : About(x[i], p, "CONF") /\ \A j \in i + 1 .. n : ~About(x[j], p, "PURGE")
  <2>1. PICK i \in 1 .. n : About(x[i], p, "CONF") /\ \A j \in i + 1 .. n : ~About(x[j], p, "PURGE")
    BY <1>1, Zenon
  <2>2. Len(w) + i \in 1 .. Len(w) + n /\ z[Len(w) + i] = x[i]
    BY <1>0, <2>1, SMTT(40) DEF Joined
  <2>3. ASSUME NEW j \in Len(w) + i + 1 .. Len(w) + n PROVE ~About(z[j], p, "PURGE")
    <3>1. j - Len(w) \in i + 1 .. n /\ z[j] = x[j - Len(w)]
      BY <1>0, <2>1, SMTT(40) DEF Joined
    <3> QED
      BY <2>1, <3>1, Zenon
  <2> QED
    BY <2>1, <2>2, <2>3, Zenon DEF KnownAt
<1>2. CASE g.known /\ \A j \in 1 .. n : ~About(x[j], p, "PURGE")
  <2>0. ASSUME NEW j \in 1 .. Len(w) + n, j \notin 1 .. Len(w) PROVE ~About(z[j], p, "PURGE")
    <3>1. j - Len(w) \in 1 .. n /\ z[j] = x[j - Len(w)]
      BY <1>0, <2>0, SMTT(40) DEF Joined
    <3> QED
      BY <1>2, <3>1, Zenon
  <2>1. CASE q.known /\ \A j \in 1 .. Len(w) : ~About(w[j], p, "PURGE")
    <3>1. \A j \in 1 .. Len(w) : z[j] = w[j]
      BY Zenon DEF Joined
    <3> QED
      BY <2>0, <2>1, <3>1, Zenon DEF KnownAt
  <2>2. CASE \E i \in 1 .. Len(w) : About(w[i], p, "CONF") /\ \A j \in i + 1 .. Len(w) : ~About(w[j], p, "PURGE")
    <3>1. PICK i \in 1 .. Len(w) : About(w[i], p, "CONF") /\ \A j \in i + 1 .. Len(w) : ~About(w[j], p, "PURGE")
      BY <2>2, Zenon
    <3>2. i \in 1 .. Len(w) + n /\ z[i] = w[i]
      BY <1>0, SMTT(40) DEF Joined
    <3>3. ASSUME NEW j \in i + 1 .. Len(w) + n PROVE ~About(z[j], p, "PURGE")
      <4>1. CASE j \in 1 .. Len(w)
        <5>1. j \in i + 1 .. Len(w) /\ z[j] = w[j]
          BY <4>1, SMTT(40) DEF Joined
        <5> QED
          BY <3>1, <5>1, Zenon
      <4>2. CASE j \notin 1 .. Len(w)
        <5>1. j \in 1 .. Len(w) + n
          BY <1>0, SMTT(40)
        <5> QED
          BY <2>0, <4>2, <5>1, Zenon
      <4> QED
        BY <4>1, <4>2, Zenon
    <3> QED
      BY <3>1, <3>2, <3>3, Zenon DEF KnownAt
  <2> QED
    BY <1>2, <2>1, <2>2, Zenon DEF KnownAfter, KnownAt
<1> QED
  BY <1>1, <1>2, Zenon DEF KnownAt

\* w then x: known after x alone, from what w leaves, is known after both
LEMMA CatKnownAfter ==
  ASSUME NEW w, NEW x, NEW z, Joined(w, x, z), NEW q, NEW g, NEW p,
         g.known => KnownAfter(q, w, p), KnownAfter(g, x, p)
  PROVE  KnownAfter(q, z, p)
<1>1. Len(x) \in 0 .. Len(x) /\ Len(z) = Len(w) + Len(x)
  BY SMTT(40) DEF Joined
<1>2. KnownAt(g, x, p, Len(x))
  BY Zenon DEF KnownAfter
<1>3. KnownAt(q, z, p, Len(w) + Len(x))
  BY <1>1, <1>2, CatKnown, Zenon
<1> QED
  BY <1>1, <1>3, Zenon DEF KnownAfter

\* the same of the link state
LEMMA CatState ==
  ASSUME NEW w, NEW x, NEW z, Joined(w, x, z), NEW q, NEW g, NEW p, NEW v,
         g.known => KnownAfter(q, w, p), g.known /\ g.up = v => StateAfter(q, w, p, v), StateAfter(g, x, p, v)
  PROVE  StateAfter(q, z, p, v)
<1>0. Len(w) \in Nat /\ Len(x) \in Nat /\ Len(z) = Len(w) + Len(x)
  BY Zenon DEF Joined
<1>1. CASE \E i \in 1 .. Len(x) :
             /\ About(x[i], p, "STATE") /\ x[i].up = v /\ KnownAt(g, x, p, i)
             /\ \A j \in i + 1 .. Len(x) : ~About(x[j], p, "STATE") /\ ~About(x[j], p, "PURGE")
  <2>1. PICK i \in 1 .. Len(x) :
             /\ About(x[i], p, "STATE") /\ x[i].up = v /\ KnownAt(g, x, p, i)
             /\ \A j \in i + 1 .. Len(x) : ~About(x[j], p, "STATE") /\ ~About(x[j], p, "PURGE")
    BY <1>1, Zenon
  <2>2. Len(w) + i \in 1 .. Len(z) /\ z[Len(w) + i] = x[i] /\ i \in 0 .. Len(x)
    BY <1>0, <2>1, SMTT(40) DEF Joined
  <2>3. KnownAt(q, z, p, Len(w) + i)
    BY <2>1, <2>2, CatKnown, Zenon
  <2>4. ASSUME NEW j \in Len(w) + i + 1 .. Len(z) PROVE ~About(z[j], p, "STATE") /\ ~About(z[j], p, "PURGE")
    <3>1. j - Len(w) \in i + 1 .. Len(x) /\ z[j] = x[j - Len(w)]
      BY <1>0, <2>1, SMTT(40) DEF Joined
    <3> QED
      BY <2>1, <3>1, Zenon
  <2> QED
    BY <2>1, <2>2, <2>3, <2>4, Zenon DEF StateAfter
<1>2. CASE /\ g.known /\ g.up = v
           /\ \A j \in 1 .. Len(x) : ~About(x[j], p, "STATE") /\ ~About(x[j], p, "PURGE")
  <2>0. ASSUME NEW j \in 1 .. Len(z), j \notin 1 .. Len(w) PROVE ~About(z[j], p, "STATE") /\ ~About(z[j], p, "PURGE")
    BY <1>2, <2>0, Zenon DEF Joined
  <2>1. CASE /\ q.known /\ q.up = v
             /\ \A j \in 1 .. Len(w) : ~About(w[j], p, "STATE") /\ ~About(w[j], p, "PURGE")
    <3>1. \A j \in 1 .. Len(w) : z[j] = w[j]
      BY Zenon DEF Joined
    <3> QED
      BY <2>0, <2>1, <3>1, Zenon DEF StateAfter
  <2>2. CASE \E i \in 1 .. Len(w) :
               /\ About(w[i], p, "STATE") /\ w[i].up = v /\ KnownAt(q, w, p, i)
               /\ \A j \in i + 1 .. Len(w) : ~About(w[j], p, "STATE") /\ ~About(w[j], p, "PURGE")
    <3>1. PICK i \in 1 .. Len(w) :
               /\ About(w[i], p, "STATE") /\ w[i].up = v /\ KnownAt(q, w, p, i)
               /\ \A j \in i + 1 .. Len(w) : ~About(w[j], p, "STATE") /\ ~About(w[j], p, "PURGE")
      BY <2>2, Zenon
    <3>2. i \in 1 .. Len(z) /\ z[i] = w[i]
      BY <1>0, SMTT(40) DEF Joined
    <3>3. KnownAt(q, z, p, i)
      <4>1. ASSUME NEW j \in 1 .. i PROVE z[j] = w[j]
        <5>1. j \in 1 .. Len(w)
          BY <1>0, SMTT(40)
        <5> QED
          BY <5>1, Zenon DEF Joined
      <4>2. \A k \in 1 .. i : \A j \in k + 1 .. i : j \in 1 .. i
        BY <1>0, SMTT(40)
      <4> QED
        BY <3>1, <4>1, <4>2, Zenon DEF KnownAt
    <3>4. ASSUME NEW j \in i + 1 .. Len(z) PROVE ~About(z[j], p, "STATE") /\ ~About(z[j], p, "PURGE")
      <4>1. CASE j \in 1 .. Len(w)
        <5>1. j \in i + 1 .. Len(w) /\ z[j] = w[j]
          BY <4>1, SMTT(40) DEF Joined
        <5> QED
          BY <3>1, <5>1, Zenon
      <4>2. CASE j \notin 1 .. Len(w)
        <5>1. j \in 1 .. Len(z)
          BY <1>0, SMTT(40)
        <5> QED
          BY <2>0, <4>2, <5>1, Zenon
      <4> QED
        BY <4>1, <4>2, Zenon
    <3> QED
      BY <3>1, <3>2, <3>3, <3>4, Zenon DEF StateAfter
  <2> QED
    BY <1>2, <2>1, <2>2, Zenon DEF StateAfter
<1> QED
  BY <1>1, <1>2, Zenon DEF StateAfter

\* w is m followed by y
Headed(w, m, y) ==
    /\ Len(y) \in Nat /\ Len(w) = Len(y) + 1 /\ w[1] = m
    /\ \A i \in 1 .. Len(y) : y[i] = w[i + 1]

\* a stream is its head and its tail
LEMMA HeadTail ==
  ASSUME NEW w \in Seq(Msg), w # <<>>
  PROVE  Headed(w, Head(w), Tail(w)) /\ Head(w) \in Msg /\ Tail(w) \in Seq(Msg)
  BY SMTT(40) DEF Headed

\* the entry of p at a peer that has received all that s told it, if v is the link state
View(s, p, v) ==
    [known |-> s.lif[p].bound /\ ~s.lif[p].cfgSync,
     up |-> IF ~s.lif[p].changed /\ s.lif[p].up = v THEN v ELSE ~v]

\* the messages x tell what t is, beyond what s had told
Says(s, t, x) ==
    \A p \in Po :
      t.lif[p].bound /\ ~t.lif[p].cfgSync =>
        /\ KnownAfter(View(s, p, t.lif[p].up), x, p)
        /\ "detach" \notin Config /\ ~t.lif[p].changed => StateAfter(View(s, p, t.lif[p].up), x, p, t.lif[p].up)

\* what the peer is told of an interface
LEMMA ViewFields ==
  ASSUME NEW s, NEW p, NEW v \in BOOLEAN
  PROVE  /\ View(s, p, v).known <=> s.lif[p].bound /\ ~s.lif[p].cfgSync
         /\ View(s, p, v).up = v <=> ~s.lif[p].changed /\ s.lif[p].up = v
<1> USE Zenon
<1>1. View(s, p, v).known <=> s.lif[p].bound /\ ~s.lif[p].cfgSync
  BY DEF View
<1>2. CASE ~s.lif[p].changed /\ s.lif[p].up = v
  <2>1. View(s, p, v).up = v
    BY <1>2 DEF View
  <2> QED
    BY <1>1, <1>2, <2>1
<1>3. CASE ~(~s.lif[p].changed /\ s.lif[p].up = v)
  <2>1. View(s, p, v).up = ~v
    BY <1>3 DEF View
  <2> QED
    BY <1>1, <1>3, <2>1
<1> QED
  BY <1>2, <1>3

\* what was told stays told
LEMMA SaysTold ==
  ASSUME NEW s, NEW t \in Daemon, NEW r, NEW w \in Seq(Msg), NEW x \in Seq(Msg), Told(s, r, w), Says(s, t, x)
  PROVE  Told(t, r, w \o x)
<1> USE Zenon
<1> SUFFICES ASSUME NEW p \in Po, t.lif[p].bound, ~t.lif[p].cfgSync
             PROVE  /\ KnownAfter(r.pif[p], w \o x, p)
                    /\ "detach" \notin Config /\ ~t.lif[p].changed => StateAfter(r.pif[p], w \o x, p, t.lif[p].up)
  BY DEF Told
<1> DEFINE v == t.lif[p].up
           g == View(s, p, v)
           q == r.pif[p]
           z == w \o x
<1>1. v \in BOOLEAN
  BY DaemonFields, IfFields
<1>2. Joined(w, x, z)
  BY Join
<1>3. g.known => KnownAfter(q, w, p)
  BY <1>1, ViewFields DEF Told
<1>4. KnownAfter(g, x, p) /\ ("detach" \notin Config /\ ~t.lif[p].changed => StateAfter(g, x, p, v))
  BY DEF Says
<1>5. "detach" \notin Config => (g.known /\ g.up = v => StateAfter(q, w, p, v))
  <2> SUFFICES ASSUME "detach" \notin Config, g.known, g.up = v PROVE StateAfter(q, w, p, v)
    OBVIOUS
  <2>1. s.lif[p].bound /\ ~s.lif[p].cfgSync /\ ~s.lif[p].changed /\ s.lif[p].up = v
    BY <1>1, ViewFields
  <2> QED
    BY <2>1 DEF Told
<1> HIDE DEF v, g, q, z
<1>6. KnownAfter(q, z, p)
  BY <1>2, <1>3, <1>4, CatKnownAfter
<1>7. ASSUME "detach" \notin Config, ~t.lif[p].changed PROVE StateAfter(q, z, p, v)
  <2>1. StateAfter(g, x, p, v) /\ (g.known /\ g.up = v => StateAfter(q, w, p, v))
    BY <1>4, <1>5, <1>7
  <2> QED
    BY <1>2, <1>3, <2>1, CatState
<1> QED
  BY <1>6, <1>7 DEF q, v, z

\* messages that are not about an interface leave what is told
LEMMA SilentSays ==
  ASSUME NEW s, NEW t \in Daemon, NEW x,
         \A i \in 1 .. Len(x) : x[i].type \notin {"CONF", "PURGE", "STATE"},
         \A p \in Po : /\ t.lif[p].bound /\ ~t.lif[p].cfgSync => s.lif[p].bound /\ ~s.lif[p].cfgSync
                       /\ "detach" \notin Config /\ t.lif[p].bound /\ ~t.lif[p].cfgSync /\ ~t.lif[p].changed =>
                            ~s.lif[p].changed /\ t.lif[p].up = s.lif[p].up
  PROVE  Says(s, t, x)
<1> SUFFICES ASSUME NEW p \in Po, t.lif[p].bound, ~t.lif[p].cfgSync
             PROVE  /\ KnownAfter(View(s, p, t.lif[p].up), x, p)
                    /\ "detach" \notin Config /\ ~t.lif[p].changed =>
                         StateAfter(View(s, p, t.lif[p].up), x, p, t.lif[p].up)
  BY Zenon DEF Says
<1>1. t.lif[p].up \in BOOLEAN
  BY DaemonFields, IfFields, Zenon
<1>2. View(s, p, t.lif[p].up).known
  BY <1>1, ViewFields, Zenon
<1>3. \A j \in 1 .. Len(x) : ~About(x[j], p, "PURGE") /\ ~About(x[j], p, "STATE")
  BY Zenon DEF About
<1>4. ASSUME "detach" \notin Config, ~t.lif[p].changed PROVE View(s, p, t.lif[p].up).up = t.lif[p].up
  <2>1. ~s.lif[p].changed /\ s.lif[p].up = t.lif[p].up
    BY <1>4, Zenon
  <2> QED
    BY <1>1, <2>1, ViewFields, SMTT(40)
<1> QED
  BY <1>2, <1>3, <1>4, Zenon DEF KnownAfter, KnownAt, StateAfter

-----------------------------------------------------------------------------
(* The messages of the lists.                                              *)

\* w holds each element of S once
Lists(w, S) ==
    /\ Len(w) \in Nat /\ DOMAIN w = 1 .. Len(w)
    /\ \A i \in 1 .. Len(w) : w[i] \in S
    /\ \A i, j \in 1 .. Len(w) : w[i] = w[j] => i = j
    /\ \A e \in S : \E i \in 1 .. Len(w) : w[i] = e

\* the answer x to a request lists the interfaces in the order of w
InfoList(s, w, x) ==
    /\ x \in Seq(Msg) /\ Len(x) = 2 * Len(w) + 1 /\ x[2 * Len(w) + 1].type = "DONE"
    /\ \A i \in 1 .. Len(w) : x[i] = Conf(w[i]) /\ x[Len(w) + i] = State(w[i], s.lif[w[i]].up)

-----------------------------------------------------------------------------
(* mlacp_sync_send_all_info_handler.                                       *)

\* t is s after it answered a request
Answered(s, t) ==
    /\ \E x : Sends(s, t, x) /\ Answer(x, Len(x)) /\ NoWarm(x) /\ \A r : Told(t, r, x)
    /\ t.ml = (CASE s.ml = "STAGE1" -> "STAGE2" [] s.ml = "STAGE2" -> "EXCHANGE" [] OTHER -> "ERROR")
    /\ ~t.wait /\ t.conn = s.conn /\ t.warm = s.warm /\ t.bindList = s.bindList /\ t.pif = s.pif
    /\ t.live = s.live /\ t.gone = s.gone
    /\ \A p \in Po :
         /\ t.lif[p].here = s.lif[p].here /\ t.lif[p].up = s.lif[p].up /\ t.lif[p].bound = s.lif[p].bound
         /\ t.lif[p].poActive = s.lif[p].poActive /\ t.lif[p].disable = s.lif[p].disable
         /\ t.lif[p].bound => ~t.lif[p].changed /\ ~t.lif[p].cfgSync
         /\ ~t.lif[p].bound => t.lif[p] = s.lif[p]

-----------------------------------------------------------------------------
(* mlacp_exchange_handler.                                                 *)

\* t is s after a part of mlacp_exchange_handler that sends x
Exchanged(s, t, x) ==
    /\ Sends(s, t, x) /\ NoWarm(x) /\ Says(s, t, x)
    /\ t.ml = s.ml /\ t.pif = s.pif /\ t.conn = s.conn
    /\ Kept(t) /\ StopKept(t)

\* the interface list of mlacp_exchange_handler: its messages
LifList(s, x) ==
    /\ x \in Seq(Msg)
    /\ \A i \in 1 .. Len(x) :
         /\ x[i].type \in {"CONF", "STATE"}
         /\ x[i].type = "STATE" => x[i].po \in Bound(s) /\ s.lif[x[i].po].changed /\ x[i] = State(x[i].po, s.lif[x[i].po].up)
    /\ \A i, j \in 1 .. Len(x) : x[i] = x[j] => i = j
    /\ \A p \in Bound(s) :
         /\ s.lif[p].cfgSync => \E i \in 1 .. Len(x) : x[i] = Conf(p)
         /\ s.lif[p].changed => \E i \in 1 .. Len(x) : x[i] = State(p, s.lif[p].up)
         /\ s.lif[p].cfgSync /\ s.lif[p].changed =>
              \A i, j \in 1 .. Len(x) : x[i] = Conf(p) /\ x[j] = State(p, s.lif[p].up) => j = i + 1

\* t is s after mlacp_exchange_handler received m
ExchangeDone(s, t, m) ==
    /\ t \in Daemon /\ Kept(t)
    /\ ("warm" \notin Reboot => m.type # "WARM") => StopKept(t)
    /\ NoWarm(s.out) => NoWarm(t.out)
    /\ \/ t.ml = "ERROR"
       \/ /\ t.ml = "EXCHANGE" /\ \A p \in Po : Heard(s.pif[p], t.pif[p], m, p)
          /\ \E x : Sends(s, t, x) /\ Says(s, t, x)

-----------------------------------------------------------------------------
(* mlacp_fsm_transit.                                                      *)

\* t is s after the beginning of a turn
Begun(s, t) ==
    /\ t \in Daemon /\ t.out = s.out /\ t.pif = s.pif /\ t.warm = s.warm /\ Kept(t) /\ StopKept(t) /\ Says(s, t, <<>>)
    /\ t.conn = Exchanging(t)
    /\ s.ml = "INIT" => t.ml = "STAGE1" /\ ~t.wait
    /\ s.ml # "INIT" => t.ml = s.ml /\ t.wait = s.wait

\* t keeps the invariant of a daemon that was s, and sends no warm-reboot notice
Sound(s, t) == t \in Daemon /\ Kept(t) /\ StopKept(t) /\ (NoWarm(s.out) => NoWarm(t.out))

\* t is s with its synchronisation request sent
Asked(s, t) ==
    /\ Sends(s, t, <<[type |-> "REQ"]>>) /\ Says(s, t, <<[type |-> "REQ"]>>)
    /\ t.ml = s.ml /\ t.wait /\ t.pif = s.pif

\* t is s, which waits for the end of an answer, after it read m
Waited(s, t, m) ==
    /\ Sends(s, t, <<>>) /\ Says(s, t, <<>>)
    /\ \A p \in Po : Heard(s.pif[p], t.pif[p], m, p)
    /\ t.ml = (IF m.type = "DONE" THEN (IF s.ml = "STAGE1" THEN "STAGE2" ELSE "EXCHANGE") ELSE s.ml)
    /\ t.wait = (m.type # "DONE")

\* the node of a stage that answers
Answers(n, s) == (n = Lo) = (s.ml = "STAGE1")

\* the outcomes of mlacp_stage_handler
StageDone(n, s, t, m) ==
    /\ Sound(s, t)
    /\ Answers(n, s) /\ ~s.wait /\ m.type = "REQ" => Answered(s, t)
    /\ Answers(n, s) /\ m.type # "REQ" => t = s
    /\ ~Answers(n, s) /\ ~s.wait => Asked(s, t)
    /\ ~Answers(n, s) /\ s.wait /\ m.type # "REQ" => Waited(s, t, m)

\* one turn of mlacp_fsm_transit after its first lines
TurnDone(n, s, t, m) ==
    /\ Sound(s, t)
    /\ s.ml = "ERROR" => t.ml = "ERROR"
    /\ s.ml = "EXCHANGE" => ExchangeDone(s, t, m)
    /\ s.ml \in {"STAGE1", "STAGE2"} => StageDone(n, s, t, m)

\* a turn keeps the invariant of the daemon
LEMMA TurnKept ==
  \A s \in Daemon, m \in Msg \cup {NoMsg} : \A n : \A t \in Turn(n, s, m) :
    Kept(s) /\ StopKept(s) /\ ("warm" \notin Reboot => m.type # "WARM") =>
      Sound(s, t) /\ \E b \in Daemon : Begun(s, b) /\ b.ml # "INIT" /\ TurnDone(n, b, t, m)
\* a quiet operation keeps the invariant if it keeps the isolation
<1>QuietKept. ASSUME NEW s \in Daemon, NEW t, NEW x, Quiet(s, t, x), Kept(s), IsoKept(t),
                     \A p \in Po : t.pif[p].up = t.pif[p].poActive
              PROVE  Kept(t)
  <2> USE <1>QuietKept, Zenon
  <2>1. \A p \in Po : IfKept(t.lif[p], t.pif[p], p \in t.bindList)
    BY DEF Kept, IfKept, Quiet
  <2>2. PurgeKept(t)
    BY DEF Kept, PurgeKept, Quiet
  <2>3. ChangeKept(t)
    BY DEF Kept, ChangeKept, Quiet
  <2> QED
    BY <2>1, <2>2, <2>3 DEF Kept
\* an operation that changes no interface
<1>SameIfs. ASSUME NEW s \in Daemon, NEW t, NEW x, Sends(s, t, x), \A i \in 1 .. Len(x) : x[i].type \in {"ACK", "REQ"},
                   t.ml = s.ml, t.conn = s.conn, t.bindList = s.bindList, t.live = s.live, t.gone = s.gone,
                   t.lif = s.lif, t.pif = s.pif
            PROVE  Quiet(s, t, x) /\ (Kept(s) => Kept(t))
  <2> USE <1>SameIfs, Zenon
  <2>1. Quiet(s, t, x)
    BY DEF Quiet
  <2>2. ASSUME Kept(s) PROVE Kept(t)
    <3>1. IsoKept(t)
      BY <2>2 DEF Kept, IsoKept, Exchanging
    <3>2. \A p \in Po : t.pif[p].up = t.pif[p].poActive
      BY <2>2 DEF Kept, IfKept
    <3> QED
      BY <2>1, <2>2, <3>1, <3>2, <1>QuietKept
  <2> QED
    BY <2>1, <2>2
\* a quiet operation stops traffic in an exchange only
<1>QuietStop. ASSUME NEW s, NEW t, NEW x, Quiet(s, t, x), StopKept(s), "warm" \notin Reboot => (t.warm => s.warm)
              PROVE  StopKept(t)
  BY <1>QuietStop, Zenon DEF Quiet, StopKept, Exchanging
<1>EmptyTypes. \A T : \A j \in 1 .. Len(<<>>) : <<>>[j].type \in T
  BY SMTT(40)
\* a function on 1 .. k is a sequence
<1>FcnSeq. ASSUME NEW k \in Nat, NEW S, NEW f \in [1 .. k -> S]
           PROVE  f \in Seq(S) /\ Len(f) = k /\ DOMAIN f = 1 .. k
  BY SMTT(40)
<1>OrdersLists. ASSUME NEW S, NEW w \in Orders(S)
                PROVE  Lists(w, S) /\ w \in Seq(S)
  <2>1. PICK k \in 0 .. 2 * Cardinality(Po) : w \in Bijection(1 .. k, S)
    BY Zenon DEF Orders
  <2>2. k \in Nat
    BY LinkAssumption, SMTT(40)
  <2>3. /\ w \in [1 .. k -> S]
        /\ \A a, b \in 1 .. k : w[a] = w[b] => a = b
        /\ \A e \in S : \E i \in 1 .. k : w[i] = e
    BY <2>1, Zenon DEF Bijection, Injection, Surjection, IsInjective
  <2>4. w \in Seq(S) /\ Len(w) = k /\ DOMAIN w = 1 .. k
    BY <2>2, <2>3, <1>FcnSeq, Zenon
  <2> QED
    BY <2>2, <2>3, <2>4, Zenon DEF Lists
\* concatenation keeps it
<1>NoWarmCat. ASSUME NEW s \in Daemon, NEW t, NEW x, Sends(s, t, x), NoWarm(x), NoWarm(s.out)
              PROVE  NoWarm(t.out)
  <2> USE <1>NoWarmCat, Zenon
  <2>1. Joined(s.out, x, t.out)
    BY DaemonFields, Join DEF Sends
  <2> SUFFICES ASSUME NEW i \in 1 .. Len(t.out) PROVE t.out[i].type # "WARM"
    BY DEF NoWarm
  <2>2. CASE i \in 1 .. Len(s.out)
    BY <2>1, <2>2 DEF Joined, NoWarm
  <2>3. CASE i \notin 1 .. Len(s.out)
    BY <2>1, <2>3 DEF Joined, NoWarm
  <2> QED
    BY <2>2, <2>3
<1>QuietSays. ASSUME NEW s, NEW t, NEW x, Quiet(s, t, x)
              PROVE  Says(s, t, x)
  <2> USE <1>QuietSays
  <2>1. t \in Daemon /\ \A i \in 1 .. Len(x) : x[i].type \notin {"CONF", "PURGE", "STATE"}
    BY Zenon DEF Quiet, Sends
  <2>2. \A p \in Po : t.lif[p].bound = s.lif[p].bound /\ t.lif[p].cfgSync = s.lif[p].cfgSync
                      /\ t.lif[p].changed = s.lif[p].changed /\ t.lif[p].up = s.lif[p].up
    BY Zenon DEF Quiet
  <2> QED
    BY <2>1, <2>2, SilentSays, Zenon
\* mlacp_sync_receiver_handler, but for a request
<1>ReceiveStep.
    \A s \in Daemon, m \in Msg \cup {NoMsg} : \A t \in Receive(s, m) :
      m.type # "REQ" =>
        ReceivedBy(s, t, m)
  <2>IsolatePif. ASSUME NEW l \in LocalIf, NEW q \in PeerIf, NEW ex \in BOOLEAN, NEW up \in BOOLEAN, NEW new \in BOOLEAN,
                        NEW k, k = IsolateFromPif(ex, l, q, up, new)
                 PROVE  PifIsolated(ex, l, q, up, new, k)
    <3> USE <2>IsolatePif, Zenon
    <3>1. CASE ex /\ (new \/ up # q.poActive) /\ l.bound /\ l.poActive
      <4>1. k = [l EXCEPT !.iso = up]
        BY <3>1 DEF IsolateFromPif
      <4> QED
        BY <3>1, <4>1 DEF LocalIf, SameButIso, PifIsolated
    <3>2. CASE ~(ex /\ (new \/ up # q.poActive) /\ l.bound /\ l.poActive)
      <4>1. k = l
        BY <3>2 DEF IsolateFromPif
      <4> QED
        BY <3>2, <4>1 DEF SameButIso, PifIsolated
    <3> QED
      BY <3>1, <3>2
  <2>SetIf. ASSUME NEW s \in Daemon, NEW p \in Po, NEW k \in LocalIf, NEW u \in PeerIf, NEW t, t = WithIf(s, p, k, u)
            PROVE  /\ t \in Daemon /\ SameFrame(s, t) /\ t.need = s.need /\ t.warm = s.warm
                   /\ t.live = s.live /\ t.gone = s.gone /\ t.out = s.out
                   /\ t.lif[p] = k /\ t.pif[p] = u
                   /\ \A r \in Po : r # p => t.lif[r] = s.lif[r] /\ t.pif[r] = s.pif[r]
    <3> USE <2>SetIf
    <3> DEFINE L == [s.lif EXCEPT ![p] = k]
               K == [s.pif EXCEPT ![p] = u]
    <3>1. L \in [Po -> LocalIf] /\ L[p] = k /\ \A r \in Po : r # p => L[r] = s.lif[r]
      BY DaemonFields, SMTT(40)
    <3>2. K \in [Po -> PeerIf] /\ K[p] = u /\ \A r \in Po : r # p => K[r] = s.pif[r]
      BY DaemonFields, SMTT(40)
    <3>3. t = [s EXCEPT !.lif = L, !.pif = K]
      BY Zenon DEF WithIf
    <3> HIDE DEF L, K
    <3>4. t \in Daemon
      BY <3>1, <3>2, <3>3, Zenon DEF Daemon
    <3>5. /\ SameFrame(s, t) /\ t.need = s.need /\ t.warm = s.warm /\ t.live = s.live /\ t.gone = s.gone /\ t.out = s.out
          /\ t.lif = L /\ t.pif = K
      BY <3>3, Zenon DEF Daemon, SameFrame
    <3> QED
      BY <3>1, <3>2, <3>4, <3>5, Zenon
  <2>OneIf. ASSUME NEW s \in Daemon, NEW t, NEW x, NEW p \in Po, OneIfStep(s, t, x, p)
            PROVE  Quiet(s, t, x) /\ (Kept(s) => Kept(t))
    <3> USE <2>OneIf, Zenon
    <3> USE DEF OneIfStep
    <3>1. Quiet(s, t, x)
      <4>1. ASSUME NEW r \in Po
            PROVE  /\ t.lif[r].here = s.lif[r].here /\ t.lif[r].up = s.lif[r].up /\ t.lif[r].bound = s.lif[r].bound
                   /\ t.lif[r].poActive = s.lif[r].poActive /\ t.lif[r].changed = s.lif[r].changed
                   /\ t.lif[r].cfgSync = s.lif[r].cfgSync
                   /\ t.lif[r].disable => s.lif[r].disable
        BY <4>1
      <4> QED
        BY <4>1 DEF Quiet, SameFrame
    <3>2. ASSUME Kept(s) PROVE Kept(t)
      <4>1. \A r \in Po : t.pif[r].up = t.pif[r].poActive
        BY <3>2 DEF Kept, IfKept
      <4>2. IsoKept(t)
        <5> SUFFICES ASSUME Exchanging(t), t.conn, NEW r \in Po, t.lif[r].bound, t.lif[r].up, t.pif[r].known
                     PROVE  t.lif[r].iso = t.pif[r].poActive
          BY DEF IsoKept
        <5>1. Exchanging(s) /\ s.conn
          BY DEF SameFrame, Exchanging
        <5>2. \A o \in Po : s.lif[o].bound /\ s.lif[o].up /\ s.pif[o].known => s.lif[o].iso = s.pif[o].poActive
          BY <3>2, <5>1 DEF Kept, IsoKept
        <5>3. s.lif[p].poActive = s.lif[p].up
          BY <3>2 DEF Kept, IfKept
        <5> QED
          BY <5>1, <5>2, <5>3
      <4> QED
        BY <3>1, <3>2, <4>1, <4>2, <1>QuietKept
    <3> QED
      BY <3>1, <3>2
  \* mlacp_fsm_update_Agg_conf without the purge flag
  <2>ConfStep. ASSUME NEW s \in Daemon, NEW p \in Po, NEW t, t = RecvAggConf(s, p), NEW m, m.type = "CONF", m.po = p
               PROVE  ReceivedBy(s, t, m)
    <3> USE <2>ConfStep
    <3> DEFINE q == s.pif[p]
               l == s.lif[p]
               k == IF q.known THEN [q EXCEPT !.poActive = q.up] ELSE [known |-> TRUE, up |-> TRUE, poActive |-> TRUE]
               i == IsolateFromPif(Exchanging(s), l, q, k.poActive, ~q.known)
    <3>0. q \in PeerIf /\ l \in LocalIf /\ Exchanging(s) \in BOOLEAN /\ q.known \in BOOLEAN /\ q.up \in BOOLEAN /\ q.poActive \in BOOLEAN
      BY DaemonFields, IfFields, Zenon
    <3> HIDE DEF q, l
    <3>1. k \in PeerIf /\ k.known = TRUE /\ k.up = k.poActive /\ k.poActive \in BOOLEAN /\ k.up = IF q.known THEN q.up ELSE TRUE
      <4> USE Zenon
      <4>1. CASE q.known
        <5>1. q \in [known : {TRUE}, up : BOOLEAN, poActive : BOOLEAN]
          BY <3>0, <4>1, IfFields DEF PeerIf
        <5>2. k = [q EXCEPT !.poActive = q.up]
          BY <4>1
        <5> QED
          BY <4>1, <5>1, <5>2 DEF PeerIf
      <4>2. CASE ~q.known
        BY <4>2 DEF PeerIf
      <4> QED
        BY <4>1, <4>2
    <3> DEFINE ex == Exchanging(s)
               up == k.poActive
               new == ~q.known
    <3>2. t = WithIf(s, p, i, k) /\ i = IsolateFromPif(ex, l, q, up, new)
      BY Zenon DEF RecvAggConf, WithIf, q, l
    <3>9. ex \in BOOLEAN /\ up \in BOOLEAN /\ new \in BOOLEAN
      BY <3>0, <3>1, Zenon
    <3> HIDE DEF k, i, ex, up, new
    <3>10. PifIsolated(ex, l, q, up, new, i)
      BY <3>0, <3>2, <3>9, <2>IsolatePif, Zenon
    <3>3. /\ i \in LocalIf /\ SameButIso(l, i)
          /\ ex /\ (new \/ up # q.poActive) /\ l.bound /\ l.poActive => i.iso = up
          /\ ~(ex /\ (new \/ up # q.poActive) /\ l.bound /\ l.poActive) => i.iso = l.iso
      BY <3>10, Zenon DEF PifIsolated
    <3>4. /\ t \in Daemon /\ SameFrame(s, t) /\ t.warm = s.warm /\ t.out = s.out /\ t.live = s.live /\ t.gone = s.gone
          /\ t.lif[p] = i /\ t.pif[p] = k
          /\ \A r \in Po : r # p => t.lif[r] = s.lif[r] /\ t.pif[r] = s.pif[r]
      BY <3>1, <3>2, <3>3, <2>SetIf, SMTT(40)
    <3>6. Sends(s, t, <<>>) /\ SameFrame(s, t) /\ \A j \in 1 .. Len(<<>>) : <<>>[j].type \in {"ACK", "REQ"}
      BY <3>4, NothingSent, <1>EmptyTypes, Zenon DEF Sends
    <3>7. Quiet(s, t, <<>>) /\ (Kept(s) => Kept(t))
      <4> USE Zenon
      <4>1. Exchanging(s) /\ l.bound /\ l.poActive /\ k.known =>
               i.iso = k.poActive \/ (q.known /\ i.iso = l.iso /\ k.poActive = q.poActive)
        BY <3>3 DEF ex, up, new
      <4>2. l = s.lif[p] /\ q = s.pif[p] /\ i = t.lif[p] /\ k = t.pif[p] /\ k.up = k.poActive
        BY <3>1, <3>4 DEF l, q
      <4>3. OneIfStep(s, t, <<>>, p)
        BY <3>3, <3>4, <3>6, <4>1, <4>2 DEF OneIfStep, SameButIso
      <4> QED
        BY <4>3, <2>OneIf
    <3>8. \A r \in Po : Heard(s.pif[r], t.pif[r], m, r)
      BY <3>1, <3>4, Zenon DEF Heard, About, q
    <3> QED
      BY <3>4, <3>7, <3>8, DaemonFields, Zenon DEF SameFrame, ReceivedBy
  \* mlacp_fsm_update_Agg_conf with the purge flag
  <2>PurgeStep. ASSUME NEW s \in Daemon, NEW p \in Po, NEW t, t = RecvPurge(s, p), NEW m, m.type = "PURGE", m.po = p
                PROVE  ReceivedBy(s, t, m)
    <3> USE <2>PurgeStep, Zenon
    <3>0. s.pif[p] \in PeerIf /\ s.lif[p] \in LocalIf
      BY DaemonFields
    <3>1. /\ t \in Daemon /\ SameFrame(s, t) /\ t.warm = s.warm /\ t.out = s.out /\ t.live = s.live /\ t.gone = s.gone
          /\ t.lif = s.lif /\ ~t.pif[p].known /\ (s.pif[p].up = s.pif[p].poActive => t.pif[p].up = t.pif[p].poActive)
          /\ \A r \in Po : r # p => t.pif[r] = s.pif[r]
      <4>1. CASE s.pif[p].known
        <5>1. t = [s EXCEPT !.pif[p] = NoPif]
          BY <4>1 DEF RecvPurge
        <5>2. [s.pif EXCEPT ![p] = NoPif] \in [Po -> PeerIf] /\ [s.pif EXCEPT ![p] = NoPif][p] = NoPif
              /\ \A r \in Po : r # p => [s.pif EXCEPT ![p] = NoPif][r] = s.pif[r]
          BY DaemonFields, IfFields
        <5>3. /\ t \in Daemon /\ SameFrame(s, t) /\ t.warm = s.warm /\ t.out = s.out /\ t.live = s.live /\ t.gone = s.gone
              /\ t.lif = s.lif /\ t.pif = [s.pif EXCEPT ![p] = NoPif]
          BY <5>1, <5>2 DEF Daemon, SameFrame
        <5> QED
          BY <5>2, <5>3, IfFields
      <4>2. CASE ~s.pif[p].known
        <5>1. t = [s EXCEPT !.need = TRUE]
          BY <4>2 DEF RecvPurge
        <5> QED
          BY <4>2, <5>1 DEF Daemon, SameFrame
      <4> QED
        BY <4>1, <4>2
    <3>2. Sends(s, t, <<>>) /\ \A j \in 1 .. Len(<<>>) : <<>>[j].type \in {"ACK", "REQ"}
      BY <3>1, NothingSent, <1>EmptyTypes DEF Sends
    <3>3. OneIfStep(s, t, <<>>, p)
      BY <3>1, <3>2 DEF OneIfStep
    <3>4. \A r \in Po : Heard(s.pif[r], t.pif[r], m, r)
      BY <3>1 DEF Heard, About
    <3>5. Quiet(s, t, <<>>) /\ (Kept(s) => Kept(t))
      BY <3>3, <2>OneIf
    <3> QED
      BY <3>1, <3>4, <3>5, DaemonFields DEF SameFrame, ReceivedBy
  \* mlacp_sync_recv_aggState
  <2>StateStep. ASSUME NEW s \in Daemon, NEW p \in Po, NEW up \in BOOLEAN, NEW t, t = RecvAggState(s, p, up),
                       NEW m, m.type = "STATE", m.po = p, m.up = up
                PROVE  ReceivedBy(s, t, m)
    <3> USE <2>StateStep
    <3> DEFINE q == s.pif[p]
               l == s.lif[p]
               ex == Exchanging(s)
               i == IsolateFromPif(ex, l, q, up, FALSE)
               u == [q EXCEPT !.up = up, !.poActive = up]
               k == IF q.known THEN WithIf(s, p, i, u) ELSE s
               x == IF up /\ ex THEN <<Ack(p)>> ELSE <<>>
    <3>0. q \in PeerIf /\ l \in LocalIf /\ ex \in BOOLEAN /\ FALSE \in BOOLEAN
      BY DaemonFields, Zenon
    <3>1. t = IF up /\ ex THEN Send(k, <<Ack(p)>>) ELSE k
      BY Zenon DEF RecvAggState, WithIf
    <3> HIDE DEF q, l, ex
    <3>2. PifIsolated(ex, l, q, up, FALSE, i)
      BY <3>0, <2>IsolatePif, Zenon
    <3>3. q.known => u \in PeerIf /\ u.known = TRUE /\ u.up = up /\ u.poActive = up
      <4> SUFFICES ASSUME q.known PROVE u \in PeerIf /\ u.known = TRUE /\ u.up = up /\ u.poActive = up
        BY Zenon
      <4>1. q \in [known : {TRUE}, up : BOOLEAN, poActive : BOOLEAN]
        BY <3>0, IfFields, Zenon DEF PeerIf
      <4> QED
        BY <4>1, Zenon DEF PeerIf
    <3> HIDE DEF i, u
    <3>4. /\ k \in Daemon /\ SameFrame(s, k) /\ k.warm = s.warm /\ k.out = s.out /\ k.live = s.live /\ k.gone = s.gone
          /\ \A r \in Po : r # p => k.lif[r] = s.lif[r] /\ k.pif[r] = s.pif[r]
          /\ q.known => k.lif[p] = i /\ k.pif[p] = u
          /\ ~q.known => k = s
      <4>1. CASE q.known
        <5>1. k = WithIf(s, p, i, u) /\ i \in LocalIf /\ u \in PeerIf
          BY <3>2, <3>3, <4>1, Zenon DEF PifIsolated
        <5> HIDE DEF k
        <5> QED
          BY <4>1, <5>1, <2>SetIf, SMTT(40)
      <4>2. CASE ~q.known
        BY <4>2, Zenon DEF SameFrame
      <4> QED
        BY <4>1, <4>2, Zenon
    <3> HIDE DEF k
    <3>5. x \in Seq(Msg) /\ (\A j \in 1 .. Len(x) : x[j].type \in {"ACK", "REQ"}) /\ (~Exchanging(s) => x = <<>>)
      <4> USE Zenon
      <4>1. CASE up /\ ex
        <5>1. x = <<Ack(p)>> /\ Ack(p) \in Msg /\ Ack(p).type = "ACK"
          BY <4>1, Messages DEF Ack
        <5> QED
          BY <4>1, <5>1, OneMsg, ZenonT(40) DEF ex
      <4>2. CASE ~(up /\ ex)
        <5>1. x = <<>>
          BY <4>2
        <5> QED
          BY <5>1, NothingSent, <1>EmptyTypes
      <4> QED
        BY <4>1, <4>2
    <3>6. Sends(s, t, x) /\ SameFrame(s, t) /\ t.warm = s.warm /\ t.live = s.live /\ t.gone = s.gone /\ t.lif = k.lif /\ t.pif = k.pif
      <4> USE Zenon
      <4>1. CASE up /\ ex
        <5>1. x = <<Ack(p)>> /\ t = Send(k, x)
          BY <3>1, <4>1
        <5> HIDE DEF x
        <5>2. SentOnly(k, t, x)
          BY <3>4, <3>5, <5>1, SendStep
        <5> QED
          BY <3>4, <5>2 DEF SentOnly, Sends, SameFrame
      <4>2. CASE ~(up /\ ex)
        <5>1. x = <<>> /\ t = k
          BY <3>1, <4>2
        <5> QED
          BY <3>4, <5>1, NothingSent DEF Sends, SameFrame
      <4> QED
        BY <4>1, <4>2
    <3> HIDE DEF x
    <3>7. OneIfStep(s, t, x, p)
      <4> USE Zenon
      <4>1. CASE q.known
        <5>1. ex /\ l.bound /\ l.poActive => i.iso = u.poActive \/ (i.iso = l.iso /\ u.poActive = q.poActive)
          BY <3>2, <3>3, <4>1 DEF PifIsolated
        <5>2. t.lif[p] = i /\ t.pif[p] = u /\ u.up = u.poActive /\ SameButIso(l, i)
              /\ \A r \in Po : r # p => t.lif[r] = s.lif[r] /\ t.pif[r] = s.pif[r]
          <6>1. SameButIso(l, i)
            BY <3>2 DEF PifIsolated
          <6>2. u.up = u.poActive
            BY <3>3, <4>1
          <6>3. t.lif = k.lif /\ t.pif = k.pif
            BY <3>6
          <6> QED
            BY <3>4, <4>1, <6>1, <6>2, <6>3, ZenonT(40)
        <5>3. Exchanging(s) /\ s.lif[p].bound /\ s.lif[p].poActive /\ t.pif[p].known =>
                \/ t.lif[p].iso = t.pif[p].poActive
                \/ s.pif[p].known /\ t.lif[p].iso = s.lif[p].iso /\ t.pif[p].poActive = s.pif[p].poActive
          BY <4>1, <5>1, <5>2 DEF q, l, ex
        <5>4. SameButIso(s.lif[p], t.lif[p]) /\ t.pif[p].up = t.pif[p].poActive
          BY <5>2 DEF l
        <5> QED
          BY <3>5, <3>6, <5>2, <5>3, <5>4 DEF OneIfStep, SameButIso
      <4>2. CASE ~q.known
        BY <3>4, <3>5, <3>6, <4>2, ZenonT(40) DEF OneIfStep, q, l, ex
      <4> QED
        BY <4>1, <4>2
    <3>8. \A r \in Po : Heard(s.pif[r], t.pif[r], m, r)
      <4> USE Zenon
      <4> SUFFICES ASSUME NEW r \in Po PROVE Heard(s.pif[r], t.pif[r], m, r)
        OBVIOUS
      <4>1. CASE r # p
        BY <3>4, <3>6, <4>1 DEF Heard, About
      <4>2. CASE r = p /\ q.known
        <5>1. t.pif[r] = u /\ u.known /\ u.up = m.up
          BY <3>3, <3>4, <3>6, <4>2
        <5> QED
          BY <4>2, <5>1 DEF Heard, About
      <4>3. CASE r = p /\ ~q.known
        BY <3>4, <3>6, <4>3 DEF Heard, About, q
      <4> QED
        BY <4>1, <4>2, <4>3
    <3>9. Quiet(s, t, x) /\ (Kept(s) => Kept(t))
      BY <3>7, <2>OneIf, Zenon
    <3> QED
      BY <3>5, <3>6, <3>8, <3>9, DaemonFields, Zenon DEF SameFrame, ReceivedBy
  \* mlacp_fsm_recv_if_up_ack
  <2>AckStep. ASSUME NEW s \in Daemon, NEW p \in Po, NEW t, t = RecvIfUpAck(s, p)
              PROVE  /\ Quiet(s, t, <<>>) /\ t.wait = s.wait /\ t.warm = s.warm /\ t.pif = s.pif
                     /\ Kept(s) => Kept(t)
    <3> USE <2>AckStep, Zenon
    <3> DEFINE l == s.lif[p]
               i == IF l.here /\ l.poActive THEN EnableTraffic(l) ELSE l
    <3>0. l \in LocalIf /\ s.pif[p] \in PeerIf
      BY DaemonFields
    <3>1. i \in LocalIf /\ SameBut(l, i) /\ i.up = l.up /\ i.poActive = l.poActive /\ i.changed = l.changed /\ i.iso = l.iso
          /\ (i.disable => l.disable)
      <4> HIDE DEF l
      <4>1. CASE l.here /\ l.poActive /\ l.bound
        <5>1. i = [l EXCEPT !.disable = FALSE]
          BY <4>1 DEF EnableTraffic
        <5> QED
          BY <3>0, <5>1 DEF LocalIf, SameBut
      <4>2. CASE ~(l.here /\ l.poActive /\ l.bound)
        <5>1. i = l
          BY <4>2 DEF EnableTraffic
        <5> QED
          BY <3>0, <5>1 DEF SameBut
      <4> QED
        BY <4>1, <4>2
    <3>2. /\ t \in Daemon /\ SameFrame(s, t) /\ t.warm = s.warm /\ t.out = s.out /\ t.live = s.live /\ t.gone = s.gone
          /\ t.pif = s.pif /\ t.lif[p] = i /\ \A r \in Po : r # p => t.lif[r] = s.lif[r]
      <4>1. CASE l.here /\ l.poActive
        <5>1. t = [s EXCEPT !.lif[p] = i]
          BY <4>1 DEF RecvIfUpAck
        <5> HIDE DEF i
        <5>2. /\ [s.lif EXCEPT ![p] = i] \in [Po -> LocalIf] /\ [s.lif EXCEPT ![p] = i][p] = i
              /\ \A r \in Po : r # p => [s.lif EXCEPT ![p] = i][r] = s.lif[r]
          BY <3>1, DaemonFields
        <5>3. /\ t \in Daemon /\ SameFrame(s, t) /\ t.warm = s.warm /\ t.out = s.out /\ t.live = s.live /\ t.gone = s.gone
              /\ t.pif = s.pif /\ t.lif = [s.lif EXCEPT ![p] = i]
          BY <5>1, <5>2 DEF Daemon, SameFrame
        <5> QED
          BY <5>2, <5>3
      <4>2. CASE ~(l.here /\ l.poActive)
        BY <4>2 DEF RecvIfUpAck, SameFrame
      <4> QED
        BY <4>1, <4>2
    <3> HIDE DEF i
    <3>3. Sends(s, t, <<>>) /\ \A j \in 1 .. Len(<<>>) : <<>>[j].type \in {"ACK", "REQ"}
      BY <3>2, NothingSent, <1>EmptyTypes DEF Sends
    <3>4. OneIfStep(s, t, <<>>, p)
      BY <3>1, <3>2, <3>3 DEF OneIfStep, SameBut
    <3> QED
      BY <3>2, <3>4, <2>OneIf DEF SameFrame
  <2>Main. ASSUME NEW s \in Daemon, NEW m \in Msg \cup {NoMsg}, m.type # "REQ", NEW t \in Receive(s, m)
           PROVE  ReceivedBy(s, t, m)
    <3> USE <2>Main, Zenon
    <3>0. /\ m.type \in {"NONE", "DONE", "WARM", "CONF", "PURGE", "ACK", "STATE"}
          /\ m.type \in {"CONF", "PURGE", "ACK", "STATE"} => m.po \in Po
          /\ m.type = "STATE" => m.up \in BOOLEAN
          /\ s.wait \in BOOLEAN
      <4>1. CASE m = NoMsg
        BY <4>1, DaemonFields DEF NoMsg
      <4>2. CASE m \in Msg
        BY <4>2, MsgFields, DaemonFields
      <4> QED
        BY <4>1, <4>2
    <3>1. CASE m.type = "CONF"
      <4>1. t = RecvAggConf(s, m.po)
        BY <3>1 DEF Receive
      <4> QED
        BY <3>0, <3>1, <4>1, <2>ConfStep
    <3>2. CASE m.type = "PURGE"
      <4>1. t = RecvPurge(s, m.po)
        BY <3>2 DEF Receive
      <4> QED
        BY <3>0, <3>2, <4>1, <2>PurgeStep
    <3>3. CASE m.type = "STATE"
      <4>1. t = RecvAggState(s, m.po, m.up)
        BY <3>3 DEF Receive
      <4> QED
        BY <3>0, <3>3, <4>1, <2>StateStep
    <3>4. CASE m.type = "ACK"
      <4>1. t = RecvIfUpAck(s, m.po)
        BY <3>4 DEF Receive
      <4>2. Quiet(s, t, <<>>) /\ t.wait = s.wait /\ t.warm = s.warm /\ t.pif = s.pif /\ (Kept(s) => Kept(t))
        BY <3>0, <3>4, <4>1, <2>AckStep
      <4>3. \A r \in Po : Heard(s.pif[r], t.pif[r], m, r)
        BY <3>4, <4>2 DEF Heard, About
      <4> QED
        BY <3>0, <3>4, <4>2, <4>3 DEF ReceivedBy
    <3>5. CASE m.type \in {"WARM", "DONE", "NONE"}
      <4>1. t = IF m.type = "WARM" THEN [s EXCEPT !.warm = TRUE] ELSE IF m.type = "DONE" THEN [s EXCEPT !.wait = FALSE] ELSE s
        BY <3>5 DEF Receive
      <4>2. /\ t \in Daemon /\ t.ml = s.ml /\ t.conn = s.conn /\ t.bindList = s.bindList /\ t.live = s.live /\ t.gone = s.gone
            /\ t.lif = s.lif /\ t.pif = s.pif /\ t.out = s.out
            /\ t.wait = (s.wait /\ m.type # "DONE") /\ (t.warm => s.warm \/ m.type = "WARM")
        <5>1. CASE m.type = "WARM"
          BY <3>0, <4>1, <5>1 DEF Daemon
        <5>2. CASE m.type = "DONE"
          BY <3>0, <4>1, <5>2 DEF Daemon
        <5>3. CASE m.type = "NONE"
          BY <3>0, <4>1, <5>3
        <5> QED
          BY <3>5, <5>1, <5>2, <5>3
      <4>3. Sends(s, t, <<>>)
        BY <4>2, NothingSent DEF Sends
      <4>4. Quiet(s, t, <<>>) /\ (Kept(s) => Kept(t))
        BY <4>2, <4>3, <1>EmptyTypes, <1>SameIfs
      <4>5. \A r \in Po : Heard(s.pif[r], t.pif[r], m, r)
        BY <3>5, <4>2 DEF Heard, About
      <4> QED
        BY <4>2, <4>4, <4>5 DEF ReceivedBy
    <3> QED
      BY <3>0, <3>1, <3>2, <3>3, <3>4, <3>5
  <2> QED
    BY <2>Main, Zenon
<1>AllInfoStep.
    \A s \in Daemon : \A t \in AllInfo(s) :
        Answered(s, t)
  <2>InfoMsgs. ASSUME NEW s \in Daemon, NEW w \in Orders(Bound(s)), NEW x,
                      x = [i \in DOMAIN w |-> Conf(w[i])] \o [i \in DOMAIN w |-> State(w[i], s.lif[w[i]].up)] \o <<[type |-> "DONE"]>>
               PROVE  InfoList(s, w, x)
    <3> USE <2>InfoMsgs
    <3> DEFINE C == [i \in DOMAIN w |-> Conf(w[i])]
               D == [i \in DOMAIN w |-> State(w[i], s.lif[w[i]].up)]
               F == <<[type |-> "DONE"]>>
               n == Len(w)
    <3>1. Lists(w, Bound(s))
      BY <1>OrdersLists, Zenon
    <3>2. n \in Nat /\ DOMAIN w = 1 .. n /\ \A i \in 1 .. n : w[i] \in Po /\ s.lif[w[i]].up \in BOOLEAN
      BY <3>1, DaemonFields, IfFields, Zenon DEF Lists, Bound
    <3> HIDE DEF n
    <3>3. C \in [1 .. n -> Msg] /\ \A i \in 1 .. n : C[i] = Conf(w[i])
      BY <3>2, Messages, Zenon
    <3>4. D \in [1 .. n -> Msg] /\ \A i \in 1 .. n : D[i] = State(w[i], s.lif[w[i]].up)
      BY <3>2, Messages, Zenon
    <3>5. F \in Seq(Msg) /\ Len(F) = 1 /\ F[1].type = "DONE"
      <4>1. 1 \in 1 .. 1
        BY SMTT(40)
      <4>2. F \in Seq(Msg) /\ Len(F) = 1 /\ F[1] = [type |-> "DONE"]
        BY <4>1, Messages, OneMsg, Zenon
      <4>3. [type |-> "DONE"].type = "DONE"
        BY Zenon
      <4> HIDE DEF F
      <4> QED
        BY <4>2, <4>3, Zenon
    <3>6. x = (C \o D) \o F
      BY Zenon
    <3> HIDE DEF C, D, F
    <3>7. C \in Seq(Msg) /\ Len(C) = n /\ D \in Seq(Msg) /\ Len(D) = n
      BY <3>2, <3>3, <3>4, <1>FcnSeq, Zenon
    <3> DEFINE E == C \o D
    <3>8. E \in Seq(Msg) /\ Joined(C, D, E)
      BY <3>7, Join, Zenon
    <3> HIDE DEF E
    <3>9. x \in Seq(Msg) /\ Joined(E, F, x)
      BY <3>5, <3>6, <3>8, Join, Zenon DEF E
    <3>10. Len(E) = 2 * n /\ \A i \in 1 .. n : E[i] = C[i] /\ E[n + i] = D[i] /\ i \in 1 .. Len(E) /\ n + i \in 1 .. Len(E)
      BY <3>2, <3>7, <3>8, SMTT(40) DEF Joined
    <3>11. Len(x) = 2 * n + 1 /\ x[2 * n + 1] = F[1] /\ \A i \in 1 .. Len(E) : x[i] = E[i]
      <4>1. Len(E) = 2 * n /\ Len(F) = 1
        BY <3>5, <3>10, Zenon
      <4>2. Len(x) = Len(E) + Len(F) /\ (\A i \in 1 .. Len(E) : x[i] = E[i]) /\ \A i \in 1 .. Len(F) : x[Len(E) + i] = F[i]
        BY <3>9, Zenon DEF Joined
      <4>3. 1 \in 1 .. Len(F)
        BY <4>1, SMTT(40)
      <4> QED
        BY <4>1, <4>2, <4>3, Zenon
    <3>12. x[2 * n + 1].type = "DONE"
      BY <3>5, <3>11, Zenon
    <3>13. \A i \in 1 .. n : x[i] = Conf(w[i]) /\ x[n + i] = State(w[i], s.lif[w[i]].up)
      BY <3>3, <3>4, <3>10, <3>11, Zenon
    <3> QED
      BY <3>9, <3>11, <3>12, <3>13, Zenon DEF InfoList, n
  \* the answer tells all
  <2>InfoTells. ASSUME NEW s \in Daemon, NEW w, Lists(w, Bound(s)), NEW x, InfoList(s, w, x)
                PROVE  /\ Answer(x, Len(x)) /\ Len(x) \in 1 .. Len(x) /\ NoWarm(x)
                       /\ \A q : \A p \in Bound(s) : KnownAfter(q, x, p) /\ StateAfter(q, x, p, s.lif[p].up)
    <3> USE <2>InfoTells
    <3> DEFINE n == Len(w)
    <3>0. n \in Nat /\ Len(x) = 2 * n + 1
      BY Zenon DEF Lists, InfoList
    <3>1. ASSUME NEW j \in 1 .. Len(x)
          PROVE  \/ \E i \in 1 .. n : (j = i \/ j = n + i) /\ x[j] = IF j = i THEN Conf(w[i]) ELSE State(w[i], s.lif[w[i]].up)
                 \/ j = Len(x) /\ x[j].type = "DONE"
      <4>1. CASE j \in 1 .. n
        BY <4>1, Zenon DEF InfoList
      <4>2. CASE j \in n + 1 .. 2 * n
        <5>1. j - n \in 1 .. n /\ j = n + (j - n) /\ j # j - n
          BY <3>0, <4>2, SMTT(40)
        <5>2. x[n + (j - n)] = State(w[j - n], s.lif[w[j - n]].up)
          BY <5>1, Zenon DEF InfoList
        <5> QED
          BY <5>1, <5>2, Zenon
      <4>3. CASE j = 2 * n + 1
        BY <3>0, <4>3, Zenon DEF InfoList
      <4> QED
        BY <3>0, <4>1, <4>2, <4>3, SMTT(40)
    <3>2. ASSUME NEW j \in 1 .. Len(x)
          PROVE  x[j].type \in {"CONF", "STATE"} \/ (j = Len(x) /\ x[j].type = "DONE")
      <4> USE Zenon
      <4>1. CASE j = Len(x) /\ x[j].type = "DONE"
        BY <4>1
      <4>2. CASE \E i \in 1 .. n : x[j] = IF j = i THEN Conf(w[i]) ELSE State(w[i], s.lif[w[i]].up)
        <5>1. PICK i \in 1 .. n : x[j] = IF j = i THEN Conf(w[i]) ELSE State(w[i], s.lif[w[i]].up)
          BY <4>2
        <5>2. Conf(w[i]).type = "CONF" /\ State(w[i], s.lif[w[i]].up).type = "STATE"
          BY DEF Conf, State
        <5> QED
          BY <5>1, <5>2
      <4> QED
        BY <3>1, <4>1, <4>2
    <3>3. Len(x) \in 1 .. Len(x) /\ x[Len(x)].type = "DONE" /\ \A j \in 1 .. Len(x) - 1 : j \in 1 .. Len(x) /\ j # Len(x)
      BY <3>0, SMTT(40) DEF InfoList
    <3>4. Answer(x, Len(x)) /\ NoWarm(x)
      BY <3>2, <3>3, Zenon DEF Answer, NoWarm
    <3>5. ASSUME NEW q, NEW p \in Bound(s) PROVE KnownAfter(q, x, p) /\ StateAfter(q, x, p, s.lif[p].up)
      <4>1. PICK i \in 1 .. n : w[i] = p
        BY Zenon DEF Lists
      <4>2. x[i] = Conf(p) /\ x[n + i] = State(p, s.lif[p].up)
        BY <4>1, Zenon DEF InfoList
      <4>3. About(x[i], p, "CONF") /\ About(x[n + i], p, "STATE") /\ x[n + i].up = s.lif[p].up
        <5>1. Conf(p).type = "CONF" /\ Conf(p).po = p
          BY Zenon DEF Conf
        <5>2. State(p, s.lif[p].up).type = "STATE" /\ State(p, s.lif[p].up).po = p /\ State(p, s.lif[p].up).up = s.lif[p].up
          BY Zenon DEF State
        <5> QED
          BY <4>2, <5>1, <5>2, Zenon DEF About
      <4>4. \A j \in 1 .. Len(x) : ~About(x[j], p, "PURGE")
        BY <3>2, Zenon DEF About
      <4>5. /\ i \in 1 .. Len(x) /\ n + i \in 1 .. Len(x) /\ i \in 1 .. n + i
            /\ \A j \in i + 1 .. Len(x) : j \in 1 .. Len(x)
            /\ \A j \in i + 1 .. n + i : j \in 1 .. Len(x)
            /\ \A j \in n + i + 1 .. Len(x) : j \in 1 .. Len(x)
        BY <3>0, SMTT(40)
      <4>6. KnownAfter(q, x, p) /\ KnownAt(q, x, p, n + i)
        BY <4>3, <4>4, <4>5, Zenon DEF KnownAfter, KnownAt
      <4>7. ASSUME NEW j \in n + i + 1 .. Len(x) PROVE ~About(x[j], p, "STATE")
        <5>1. CASE j = Len(x)
          BY <3>3, <5>1, Zenon DEF About
        <5>2. CASE j # Len(x)
          <6>1. j - n \in 1 .. n /\ j - n # i /\ j = n + (j - n)
            BY <3>0, <5>2, SMTT(40)
          <6>2. x[n + (j - n)] = State(w[j - n], s.lif[w[j - n]].up) /\ w[j - n] # p
            BY <4>1, <6>1, Zenon DEF InfoList, Lists
          <6>3. x[j].po = w[j - n]
            <7>1. State(w[j - n], s.lif[w[j - n]].up).po = w[j - n]
              BY Zenon DEF State
            <7> QED
              BY <6>1, <6>2, <7>1, Zenon
          <6> QED
            BY <6>2, <6>3, Zenon DEF About
        <5> QED
          BY <5>1, <5>2, Zenon
      <4>8. StateAfter(q, x, p, s.lif[p].up)
        BY <4>3, <4>4, <4>5, <4>6, <4>7, Zenon DEF StateAfter
      <4> QED
        BY <4>6, <4>8, Zenon
    <3> QED
      BY <3>3, <3>4, <3>5, Zenon
  <2>Main. ASSUME NEW s \in Daemon, NEW t \in AllInfo(s)
           PROVE  Answered(s, t)
    <3> USE Zenon
    <3> DEFINE a == AllTold(s)
               ml == CASE s.ml = "STAGE1" -> "STAGE2" [] s.ml = "STAGE2" -> "EXCHANGE" [] OTHER -> "ERROR"
               L == [p \in Po |-> IF s.lif[p].bound THEN [s.lif[p] EXCEPT !.changed = FALSE, !.cfgSync = FALSE] ELSE s.lif[p]]
    <3>1. ml \in MlacpState
      BY DEF MlacpState
    <3>2. ASSUME NEW p \in Po
          PROVE  /\ L[p] \in LocalIf
                 /\ L[p].here = s.lif[p].here /\ L[p].up = s.lif[p].up /\ L[p].bound = s.lif[p].bound
                 /\ L[p].poActive = s.lif[p].poActive /\ L[p].disable = s.lif[p].disable
                 /\ L[p].bound => ~L[p].changed /\ ~L[p].cfgSync
                 /\ ~L[p].bound => L[p] = s.lif[p]
      <4> DEFINE l == s.lif[p]
      <4>1. l \in LocalIf
        BY DaemonFields
      <4>2. L[p] = IF l.bound THEN [l EXCEPT !.changed = FALSE, !.cfgSync = FALSE] ELSE l
        OBVIOUS
      <4> HIDE DEF l, L
      <4>3. CASE l.bound
        <5>1. L[p] = [l EXCEPT !.changed = FALSE, !.cfgSync = FALSE]
          BY <4>2, <4>3
        <5> QED
          BY <4>1, <4>3, <5>1 DEF LocalIf, l
      <4>4. CASE ~l.bound
        <5>1. L[p] = l
          BY <4>2, <4>4
        <5> QED
          BY <4>1, <4>4, <5>1 DEF l
      <4> QED
        BY <4>3, <4>4
    <3>3. L \in [Po -> LocalIf]
      BY <3>2
    <3>4. a = [s EXCEPT !.lif = L, !.wait = FALSE, !.ml = ml]
      BY DEF AllTold
    <3>5. PICK w \in Orders(Bound(s)) :
            t = Send(a, [i \in DOMAIN w |-> Conf(w[i])] \o [i \in DOMAIN w |-> State(w[i], s.lif[w[i]].up)]
                        \o <<[type |-> "DONE"]>>)
      BY DEF AllInfo
    <3> HIDE DEF L, ml, a
    <3>6. /\ a \in Daemon /\ a.lif = L /\ a.wait = FALSE /\ a.ml = ml /\ a.conn = s.conn /\ a.warm = s.warm /\ a.out = s.out
          /\ a.bindList = s.bindList /\ a.pif = s.pif /\ a.live = s.live /\ a.gone = s.gone
      BY <3>1, <3>3, <3>4 DEF Daemon
    <3> DEFINE x == [i \in DOMAIN w |-> Conf(w[i])] \o [i \in DOMAIN w |-> State(w[i], s.lif[w[i]].up)] \o <<[type |-> "DONE"]>>
    <3>7. t = Send(a, x) /\ InfoList(s, w, x)
      BY <3>5, <2>InfoMsgs
    <3> HIDE DEF x
    <3>8. Lists(w, Bound(s)) /\ x \in Seq(Msg)
      BY <3>7, <1>OrdersLists DEF InfoList
    <3>9. /\ Answer(x, Len(x)) /\ NoWarm(x)
          /\ \A q : \A p \in Bound(s) : KnownAfter(q, x, p) /\ StateAfter(q, x, p, s.lif[p].up)
      BY <3>7, <3>8, <2>InfoTells
    <3>10. SentOnly(a, t, x)
      BY <3>6, <3>7, <3>8, SendStep
    <3>11. t.lif = L
      BY <3>6, <3>10 DEF SentOnly
    <3>12. ASSUME NEW r PROVE Told(t, r, x)
      <4>1. ASSUME NEW p \in Po, t.lif[p].bound PROVE p \in Bound(s) /\ t.lif[p].up = s.lif[p].up
        BY <3>2, <3>11, <4>1 DEF Bound
      <4> QED
        BY <3>9, <4>1 DEF Told
    <3>13. Sends(s, t, x)
      BY <3>6, <3>10 DEF SentOnly, Sends
    <3>14. /\ t.ml = ml /\ ~t.wait /\ t.conn = s.conn /\ t.warm = s.warm /\ t.bindList = s.bindList /\ t.pif = s.pif
           /\ t.live = s.live /\ t.gone = s.gone
      BY <3>6, <3>10 DEF SentOnly, SameFrame
    <3> QED
      BY <3>2, <3>9, <3>11, <3>12, <3>13, <3>14 DEF Answered, ml
  <2> QED
    BY <2>Main, Zenon
<1>AnsweredKept. ASSUME NEW s \in Daemon, NEW t, Answered(s, t), Kept(s), StopKept(s), s.conn => Exchanging(s)
                 PROVE  Kept(t) /\ StopKept(t)
  <2> USE <1>AnsweredKept, Zenon
  <2>1. s.ml \in MlacpState
    BY DaemonFields
  <2>2. /\ s.ml = "STAGE1" => t.ml = "STAGE2"
        /\ s.ml = "STAGE2" => t.ml = "EXCHANGE"
        /\ s.ml \notin {"STAGE1", "STAGE2"} => t.ml = "ERROR"
    BY DEF Answered
  <2>3. ASSUME NEW p \in Po PROVE IfKept(t.lif[p], t.pif[p], p \in t.bindList)
    <3>1. /\ t.lif[p].here = s.lif[p].here /\ t.lif[p].up = s.lif[p].up /\ t.lif[p].bound = s.lif[p].bound
          /\ t.lif[p].poActive = s.lif[p].poActive /\ t.bindList = s.bindList /\ t.pif = s.pif
      BY DEF Answered
    <3> QED
      BY <3>1 DEF Kept, IfKept
  <2>4. IsoKept(t)
    BY <2>1, <2>2 DEF IsoKept, Answered, Exchanging
  <2>5. PurgeKept(t)
    BY <2>1, <2>2 DEF Kept, PurgeKept, Answered
  <2>6. ChangeKept(t)
    BY DEF Kept, ChangeKept, Answered
  <2>7. StopKept(t)
    BY <2>1, <2>2 DEF StopKept, Answered
  <2> QED
    BY <2>3, <2>4, <2>5, <2>6, <2>7 DEF Kept
<1>ExchangeStep.
    \A s \in Daemon, m \in Msg \cup {NoMsg} : \A t \in ExchangeTurn(s, m) :
      Kept(s) /\ StopKept(s) /\ Exchanging(s) /\ ("warm" \notin Reboot => m.type # "WARM") =>
        ExchangeDone(s, t, m)
  <2>SendsTrans. ASSUME NEW s \in Daemon, NEW t, NEW u, NEW x, NEW y, Sends(s, t, x), Sends(t, u, y)
                 PROVE  Sends(s, u, x \o y)
    <3> USE <2>SendsTrans
    <3>1. x \in Seq(Msg) /\ y \in Seq(Msg) /\ s.out \in Seq(Msg) /\ t.out = s.out \o x /\ u.out = t.out \o y /\ u \in Daemon
      BY DaemonFields, Zenon DEF Sends
    <3>2. (s.out \o x) \o y = s.out \o (x \o y) /\ x \o y \in Seq(Msg)
      <4>1. \A d, e, f \in Seq(Msg) : (d \o e) \o f = d \o (e \o f)
        BY SMTT(40)
      <4>2. \A e, f \in Seq(Msg) : e \o f \in Seq(Msg)
        BY ConcatType, Zenon
      <4> QED
        BY <3>1, <4>1, <4>2, Zenon
    <3> QED
      BY <3>1, <3>2, Zenon DEF Sends
  <2>SaysTrans. ASSUME NEW s, NEW t \in Daemon, NEW u \in Daemon, NEW w \in Seq(Msg), NEW x \in Seq(Msg), Says(s, t, w), Says(t, u, x)
                PROVE  Says(s, u, w \o x)
    <3> USE <2>SaysTrans, Zenon
    <3> SUFFICES ASSUME NEW p \in Po, u.lif[p].bound, ~u.lif[p].cfgSync
                 PROVE  /\ KnownAfter(View(s, p, u.lif[p].up), w \o x, p)
                        /\ "detach" \notin Config /\ ~u.lif[p].changed =>
                             StateAfter(View(s, p, u.lif[p].up), w \o x, p, u.lif[p].up)
      BY DEF Says
    <3> DEFINE v == u.lif[p].up
               g == View(t, p, v)
               q == View(s, p, v)
               z == w \o x
    <3>1. v \in BOOLEAN /\ t.lif[p].up \in BOOLEAN
      BY DaemonFields, IfFields
    <3>2. Joined(w, x, z)
      BY Join
    <3>3. g.known => KnownAfter(q, w, p)
      <4>1. ASSUME g.known PROVE KnownAfter(View(s, p, t.lif[p].up), w, p)
        BY <3>1, <4>1, ViewFields DEF Says
      <4>2. q.known <=> View(s, p, t.lif[p].up).known
        BY <3>1, ViewFields
      <4> HIDE DEF g, q
      <4> QED
        BY <4>1, <4>2 DEF KnownAfter, KnownAt
    <3>4. KnownAfter(g, x, p) /\ ("detach" \notin Config /\ ~u.lif[p].changed => StateAfter(g, x, p, v))
      BY DEF Says
    <3>5. "detach" \notin Config => (g.known /\ g.up = v => StateAfter(q, w, p, v))
      <4> SUFFICES ASSUME "detach" \notin Config, g.known, g.up = v PROVE StateAfter(q, w, p, v)
        OBVIOUS
      <4>1. t.lif[p].bound /\ ~t.lif[p].cfgSync /\ ~t.lif[p].changed /\ t.lif[p].up = v
        BY <3>1, ViewFields
      <4> QED
        BY <4>1 DEF Says
    <3> HIDE DEF v, g, q, z
    <3>6. KnownAfter(q, z, p)
      BY <3>2, <3>3, <3>4, CatKnownAfter
    <3>7. ASSUME "detach" \notin Config, ~u.lif[p].changed PROVE StateAfter(q, z, p, v)
      <4>1. StateAfter(g, x, p, v) /\ (g.known /\ g.up = v => StateAfter(q, w, p, v))
        BY <3>4, <3>5, <3>7
      <4> QED
        BY <3>2, <3>3, <4>1, CatState
    <3> QED
      BY <3>6, <3>7 DEF q, v, z
  <2>SendPurgeStep.
      \A s \in Daemon : \A t \in SendPurge(s) :
        Kept(s) /\ StopKept(s) /\ s.ml \in {"EXCHANGE", "ERROR"} =>
             \E x : Sends(s, t, x) /\ NoWarm(x) /\ (Exchanging(s) => Says(s, t, x)) /\ t.ml = s.ml /\ t.pif = s.pif /\ t.conn = s.conn
                    /\ Kept(t) /\ StopKept(t) /\ t.live = {} /\ t.gone = {}
    \* messages that withdraw the interfaces of w
    <3>PurgeMsgs. ASSUME NEW S \in SUBSET Po, NEW w \in Orders(S), NEW v, v = Purges(w)
                  PROVE  v \in Seq(Msg) /\ \A i \in 1 .. Len(v) : v[i].type = "PURGE" /\ v[i].po \in S
      <4> USE <3>PurgeMsgs, Zenon
      <4> DEFINE n == Len(w)
      <4>1. Lists(w, S)
        BY <1>OrdersLists
      <4>2. n \in Nat /\ DOMAIN w = 1 .. n /\ \A i \in 1 .. n : w[i] \in S /\ w[i] \in Po
        BY <4>1 DEF Lists
      <4> HIDE DEF n
      <4>3. v \in [1 .. n -> Msg] /\ \A i \in 1 .. n : v[i] = Purge(w[i])
        BY <4>2, Messages DEF Purges
      <4>4. v \in Seq(Msg) /\ Len(v) = n
        BY <4>2, <4>3, <1>FcnSeq
      <4>5. \A e : Purge(e).type = "PURGE" /\ Purge(e).po = e
        BY DEF Purge
      <4>6. ASSUME NEW i \in 1 .. n PROVE v[i].type = "PURGE" /\ v[i].po \in S
        <5>1. v[i] = Purge(w[i]) /\ w[i] \in S
          BY <4>2, <4>3
        <5> QED
          BY <4>5, <5>1
      <4> QED
        BY <4>4, <4>6
    <3>Main. ASSUME NEW s \in Daemon, Kept(s), StopKept(s), s.ml \in {"EXCHANGE", "ERROR"}, NEW t \in SendPurge(s)
             PROVE  \E x : Sends(s, t, x) /\ NoWarm(x) /\ (Exchanging(s) => Says(s, t, x)) /\ t.ml = s.ml /\ t.pif = s.pif /\ t.conn = s.conn
                           /\ Kept(t) /\ StopKept(t) /\ t.live = {} /\ t.gone = {}
      <4> USE <3>Main
      <4>1. PICK v \in Orders(s.live), w \in Orders(s.gone) :
              t = Send(Purged(s), Purges(v) \o Purges(w))
        BY Zenon DEF SendPurge
      <4> DEFINE a == Purged(s)
                 V == Purges(v)
                 W == Purges(w)
                 x == V \o W
                 L == [p \in Po |-> IF p \in s.live THEN EnableTraffic(s.lif[p]) ELSE s.lif[p]]
      <4>2. s.live \in SUBSET Po /\ s.gone \in SUBSET Po
        BY DaemonFields, Zenon
      <4>3. V \in Seq(Msg) /\ \A i \in 1 .. Len(V) : V[i].type = "PURGE" /\ V[i].po \in s.live
        BY <4>2, <3>PurgeMsgs, Zenon
      <4>4. W \in Seq(Msg) /\ \A i \in 1 .. Len(W) : W[i].type = "PURGE" /\ W[i].po \in s.gone
        BY <4>2, <3>PurgeMsgs, Zenon
      <4>5. t = Send(a, x)
        BY <4>1, Zenon
      <4> HIDE DEF V, W
      <4>6. x \in Seq(Msg) /\ Joined(V, W, x)
        BY <4>3, <4>4, Join, Zenon
      <4> HIDE DEF x
      <4>7. ASSUME NEW i \in 1 .. Len(x) PROVE x[i].type = "PURGE" /\ x[i].po \in s.live \cup s.gone
        <5> USE Zenon
        <5>1. CASE i \in 1 .. Len(V)
          <6>1. x[i] = V[i]
            BY <4>6, <5>1 DEF Joined
          <6> QED
            BY <4>3, <5>1, <6>1
        <5>2. CASE i \notin 1 .. Len(V)
          <6>1. i - Len(V) \in 1 .. Len(W) /\ x[i] = W[i - Len(V)]
            BY <4>6, <5>2 DEF Joined
          <6> QED
            BY <4>4, <6>1
        <5> QED
          BY <5>1, <5>2
      <4>8. ASSUME NEW p \in Po
            PROVE  /\ L[p] \in LocalIf /\ SameBut(s.lif[p], L[p]) /\ L[p].up = s.lif[p].up /\ L[p].poActive = s.lif[p].poActive
                   /\ L[p].changed = s.lif[p].changed /\ L[p].iso = s.lif[p].iso /\ (L[p].disable => s.lif[p].disable)
        <5> USE Zenon
        <5> DEFINE l == s.lif[p]
        <5>1. l \in LocalIf
          BY DaemonFields
        <5>2. L[p] = IF p \in s.live THEN EnableTraffic(l) ELSE l
          OBVIOUS
        <5> HIDE DEF l, L
        <5>3. CASE p \in s.live /\ l.bound
          <6>1. L[p] = [l EXCEPT !.disable = FALSE]
            BY <5>2, <5>3 DEF EnableTraffic
          <6> QED
            BY <5>1, <6>1 DEF LocalIf, SameBut, l
        <5>4. CASE ~(p \in s.live /\ l.bound)
          <6>1. L[p] = l
            BY <5>2, <5>4 DEF EnableTraffic
          <6> QED
            BY <5>1, <6>1 DEF l, SameBut
        <5> QED
          BY <5>3, <5>4
      <4>9. L \in [Po -> LocalIf] /\ {} \in SUBSET Po
        BY <4>8, Zenon
      <4>10. a = [s EXCEPT !.live = {}, !.gone = {}, !.lif = L]
        BY Zenon DEF Purged
      <4> HIDE DEF L, a
      <4>11. /\ a \in Daemon /\ a.lif = L /\ a.live = {} /\ a.gone = {} /\ a.ml = s.ml /\ a.conn = s.conn /\ a.warm = s.warm
             /\ a.out = s.out /\ a.bindList = s.bindList /\ a.pif = s.pif
        BY <4>9, <4>10, Zenon DEF Daemon
      <4>12. SentOnly(a, t, x)
        BY <4>5, <4>6, <4>11, SendStep, Zenon
      <4>13. /\ t \in Daemon /\ t.lif = L /\ t.live = {} /\ t.gone = {} /\ t.ml = s.ml /\ t.conn = s.conn /\ t.warm = s.warm
             /\ t.bindList = s.bindList /\ t.pif = s.pif /\ Sends(s, t, x)
        BY <4>11, <4>12, Zenon DEF SentOnly, Sends, SameFrame
      <4>14. NoWarm(x)
        BY <4>7, Zenon DEF NoWarm
      <4>15. ASSUME Exchanging(s) PROVE Says(s, t, x)
        <5> SUFFICES ASSUME NEW p \in Po, t.lif[p].bound, ~t.lif[p].cfgSync
                     PROVE  /\ KnownAfter(View(s, p, t.lif[p].up), x, p)
                            /\ "detach" \notin Config /\ ~t.lif[p].changed =>
                                 StateAfter(View(s, p, t.lif[p].up), x, p, t.lif[p].up)
          BY Zenon DEF Says
        <5>1. s.lif[p].bound /\ ~s.lif[p].cfgSync /\ s.lif[p].up = t.lif[p].up /\ s.lif[p].changed = t.lif[p].changed
          BY <4>8, <4>13, Zenon DEF SameBut
        <5>2. p \notin s.live /\ p \notin s.gone
          BY <4>15, <5>1, Zenon DEF Kept, PurgeKept, Exchanging
        <5>3. \A j \in 1 .. Len(x) : ~About(x[j], p, "PURGE") /\ ~About(x[j], p, "STATE")
          BY <4>7, <5>2, Zenon DEF About
        <5>4. t.lif[p].up \in BOOLEAN
          BY <4>13, DaemonFields, IfFields, Zenon
        <5>5. View(s, p, t.lif[p].up).known /\ (~t.lif[p].changed => View(s, p, t.lif[p].up).up = t.lif[p].up)
          BY <5>1, <5>4, ViewFields, SMTT(40)
        <5> QED
          BY <5>3, <5>5, Zenon DEF KnownAfter, KnownAt, StateAfter
      <4>16. Kept(t)
        <5> USE Zenon
        <5>0. ASSUME NEW p \in Po
              PROVE  /\ SameBut(s.lif[p], t.lif[p]) /\ t.lif[p].up = s.lif[p].up /\ t.lif[p].poActive = s.lif[p].poActive
                     /\ t.lif[p].iso = s.lif[p].iso
          BY <4>8, <4>13
        <5>1. ASSUME NEW p \in Po PROVE IfKept(t.lif[p], t.pif[p], p \in t.bindList)
          <6>1. IfKept(s.lif[p], s.pif[p], p \in s.bindList)
            BY DEF Kept
          <6> QED
            BY <4>13, <5>0, <6>1 DEF IfKept, SameBut
        <5>2. IsoKept(t)
          <6> SUFFICES ASSUME Exchanging(t), t.conn, NEW p \in Po, t.lif[p].bound, t.lif[p].up, t.pif[p].known
                       PROVE  t.lif[p].iso = t.pif[p].poActive
            BY DEF IsoKept
          <6>1. Exchanging(s) /\ s.conn /\ s.lif[p].bound /\ s.lif[p].up /\ s.pif[p].known
            BY <4>13, <5>0 DEF Exchanging, SameBut
          <6>2. s.lif[p].iso = s.pif[p].poActive
            BY <6>1 DEF Kept, IsoKept
          <6> QED
            BY <4>13, <5>0, <6>2
        <5>3. PurgeKept(t)
          BY <4>13 DEF PurgeKept
        <5>4. ChangeKept(t)
          BY <4>8, <4>13 DEF Kept, ChangeKept, SameBut
        <5> QED
          BY <5>1, <5>2, <5>3, <5>4 DEF Kept
      <4>17. StopKept(t)
        BY <4>8, <4>13, Zenon DEF StopKept, SameBut
      <4> QED
        BY <4>13, <4>14, <4>15, <4>16, <4>17, Zenon
    <3> QED
      BY <3>Main, Zenon
  <2>SendLifStep.
      \A s \in Daemon : \A t \in SendLif(s) :
        Kept(s) /\ StopKept(s) /\ s.ml \in {"EXCHANGE", "ERROR"} /\ s.live = {} /\ s.gone = {} =>
          \E x : Exchanged(s, t, x)
    \* the interface list of mlacp_exchange_handler
    <3>AnnouncedIf. ASSUME NEW l \in LocalIf, NEW ex \in BOOLEAN, NEW k, k = Announced(ex, l)
                    PROVE  /\ k \in LocalIf /\ k.here = l.here /\ k.up = l.up /\ k.bound = l.bound /\ k.poActive = l.poActive /\ k.iso = l.iso
                           /\ k.bound => ~k.changed /\ ~k.cfgSync
                           /\ ~k.bound => k = l
                           /\ k.disable = (l.disable \/ (l.bound /\ l.cfgSync /\ ex /\ ~l.poActive))
      <4> USE <3>AnnouncedIf, Zenon
      <4> DEFINE a == IF l.cfgSync THEN DisableTraffic(ex, l) ELSE l
      <4>1. /\ a \in LocalIf /\ a.here = l.here /\ a.up = l.up /\ a.bound = l.bound /\ a.poActive = l.poActive /\ a.iso = l.iso
            /\ a.disable = (l.disable \/ (l.bound /\ l.cfgSync /\ ex /\ ~l.poActive))
        <5>1. CASE l.cfgSync /\ l.bound /\ ex /\ ~l.poActive
          <6>1. a = [l EXCEPT !.disable = TRUE] /\ a \in LocalIf
            BY <5>1, Traffic
          <6> QED
            BY <5>1, <6>1 DEF LocalIf
        <5>2. CASE ~(l.cfgSync /\ l.bound /\ ex /\ ~l.poActive)
          <6>1. a = l /\ l.disable \in BOOLEAN
            BY <5>2, Traffic, IfFields
          <6> QED
            BY <5>2, <6>1
        <5> QED
          BY <5>1, <5>2
      <4>2. k = IF l.bound THEN [a EXCEPT !.cfgSync = FALSE, !.changed = FALSE] ELSE l
        BY DEF Announced
      <4> HIDE DEF a
      <4>3. CASE l.bound
        BY <4>1, <4>2, <4>3, ZenonT(40) DEF LocalIf
      <4>4. CASE ~l.bound
        <5>1. k = l /\ l.disable \in BOOLEAN
          BY <4>2, <4>4, IfFields
        <5> QED
          BY <4>4, <5>1
      <4> QED
        BY <4>3, <4>4, IfFields
    <3>LifMsgs. ASSUME NEW s \in Daemon, NEW confs, NEW states, NEW x \in Orders(confs \cup states),
                       confs = {Conf(p) : p \in {q \in Bound(s) : s.lif[q].cfgSync}},
                       states = {State(p, s.lif[p].up) : p \in {q \in Bound(s) : s.lif[q].changed}},
                       \A i, j \in DOMAIN x : x[i] \in confs /\ x[j] \in states /\ x[i].po = x[j].po => j = i + 1
                PROVE  LifList(s, x)
      <4> USE <3>LifMsgs
      <4>1. Lists(x, confs \cup states) /\ x \in Seq(confs \cup states)
        BY <1>OrdersLists, Zenon
      <4>2. ASSUME NEW m \in confs
            PROVE  m \in Msg /\ m.type = "CONF"
        <5>1. PICK p \in Bound(s) : m = Conf(p)
          BY Zenon
        <5>2. p \in Po /\ Conf(p).type = "CONF"
          BY DaemonFields, Zenon DEF Conf
        <5> QED
          BY <5>1, <5>2, Messages, Zenon
      <4>3. ASSUME NEW m \in states
            PROVE  m \in Msg /\ m.type = "STATE" /\ m.po \in Bound(s) /\ s.lif[m.po].changed /\ m = State(m.po, s.lif[m.po].up)
        <5>1. PICK p \in Bound(s) : s.lif[p].changed /\ m = State(p, s.lif[p].up)
          BY Zenon
        <5>2. p \in Po /\ State(p, s.lif[p].up).type = "STATE" /\ State(p, s.lif[p].up).po = p /\ s.lif[p].up \in BOOLEAN
          BY DaemonFields, IfFields, Zenon DEF State
        <5> QED
          BY <5>1, <5>2, Messages, Zenon
      <4>4. x \in Seq(Msg)
        <5>1. confs \cup states \subseteq Msg
          BY <4>2, <4>3, Zenon
        <5>2. \A S, T : S \subseteq T => \A w \in Seq(S) : w \in Seq(T)
          BY SMTT(40)
        <5> QED
          BY <4>1, <5>1, <5>2, Zenon
      <4>5. ASSUME NEW i \in 1 .. Len(x)
            PROVE  /\ x[i].type \in {"CONF", "STATE"}
                   /\ x[i].type = "STATE" => x[i].po \in Bound(s) /\ s.lif[x[i].po].changed /\ x[i] = State(x[i].po, s.lif[x[i].po].up)
        <5> USE Zenon
        <5>1. x[i] \in confs \/ x[i] \in states
          BY <4>1 DEF Lists
        <5>2. CASE x[i] \in confs
          BY <4>2, <5>2
        <5>3. CASE x[i] \in states
          BY <4>3, <5>3
        <5> QED
          BY <5>1, <5>2, <5>3
      <4>6. ASSUME NEW p \in Bound(s)
            PROVE  /\ s.lif[p].cfgSync => \E i \in 1 .. Len(x) : x[i] = Conf(p)
                   /\ s.lif[p].changed => \E i \in 1 .. Len(x) : x[i] = State(p, s.lif[p].up)
                   /\ s.lif[p].cfgSync /\ s.lif[p].changed =>
                        \A i, j \in 1 .. Len(x) : x[i] = Conf(p) /\ x[j] = State(p, s.lif[p].up) => j = i + 1
        <5> USE Zenon
        <5>1. /\ s.lif[p].cfgSync => Conf(p) \in confs
              /\ s.lif[p].changed => State(p, s.lif[p].up) \in states
          OBVIOUS
        <5>2. Conf(p).po = State(p, s.lif[p].up).po
          BY DEF Conf, State
        <5>3. DOMAIN x = 1 .. Len(x) /\ \A e \in confs \cup states : \E i \in 1 .. Len(x) : x[i] = e
          BY <4>1 DEF Lists
        <5>4. s.lif[p].cfgSync => \E i \in 1 .. Len(x) : x[i] = Conf(p)
          BY <5>1, <5>3
        <5>5. s.lif[p].changed => \E i \in 1 .. Len(x) : x[i] = State(p, s.lif[p].up)
          BY <5>1, <5>3
        <5>6. ASSUME s.lif[p].cfgSync, s.lif[p].changed, NEW i \in 1 .. Len(x), NEW j \in 1 .. Len(x),
                     x[i] = Conf(p), x[j] = State(p, s.lif[p].up)
              PROVE  j = i + 1
          <6>1. x[i] \in confs /\ x[j] \in states /\ x[i].po = x[j].po
            BY <5>1, <5>2, <5>6
          <6>2. i \in DOMAIN x /\ j \in DOMAIN x
            BY <5>3
          <6> QED
            BY <6>1, <6>2
        <5> QED
          BY <5>4, <5>5, <5>6
      <4>7. \A i, j \in 1 .. Len(x) : x[i] = x[j] => i = j
        BY <4>1, Zenon DEF Lists
      <4> QED
        BY <4>4, <4>5, <4>6, <4>7, Zenon DEF LifList
    \* they tell what is marked for sending
    <3>LifTells. ASSUME NEW s \in Daemon, Kept(s), NEW x, LifList(s, x), NEW p \in Bound(s)
                 PROVE  /\ KnownAfter(View(s, p, s.lif[p].up), x, p)
                        /\ "detach" \notin Config => StateAfter(View(s, p, s.lif[p].up), x, p, s.lif[p].up)
      <4> USE <3>LifTells
      <4> DEFINE v == s.lif[p].up
                 g == View(s, p, v)
      <4>0. p \in Po /\ s.lif[p].bound /\ v \in BOOLEAN
        BY DaemonFields, IfFields, Zenon DEF Bound
      <4>1. g.known <=> ~s.lif[p].cfgSync
        BY <4>0, ViewFields, Zenon
      <4>2. ~s.lif[p].changed => g.up = v
        BY <4>0, ViewFields, Zenon
      <4> HIDE DEF g
      <4>3. \A j \in 1 .. Len(x) : ~About(x[j], p, "PURGE")
        BY Zenon DEF LifList, About
      <4>4. Conf(p).type = "CONF" /\ Conf(p).po = p /\ State(p, v).type = "STATE" /\ State(p, v).po = p /\ State(p, v).up = v
        BY Zenon DEF Conf, State
      <4>5. x \in Seq(Msg) /\ Len(x) \in Nat
        <5>1. \A S : \A w \in Seq(S) : Len(w) \in Nat
          BY SMTT(40)
        <5> QED
          BY <5>1, Zenon DEF LifList
      <4>6. KnownAfter(g, x, p)
        <5>1. CASE s.lif[p].cfgSync
          <6>1. PICK i \in 1 .. Len(x) : x[i] = Conf(p)
            BY <5>1, Zenon DEF LifList
          <6>2. \A j \in i + 1 .. Len(x) : j \in 1 .. Len(x)
            BY <4>5, SMTT(40)
          <6>3. About(x[i], p, "CONF")
            BY <4>4, <6>1, Zenon DEF About
          <6> QED
            BY <4>3, <6>2, <6>3, Zenon DEF KnownAfter, KnownAt
        <5>2. CASE ~s.lif[p].cfgSync
          BY <4>1, <4>3, <5>2, Zenon DEF KnownAfter, KnownAt
        <5> QED
          BY <5>1, <5>2, Zenon
      <4>7. ASSUME "detach" \notin Config PROVE StateAfter(g, x, p, v)
        <5>1. CASE s.lif[p].changed
          <6>1. PICK i \in 1 .. Len(x) : x[i] = State(p, v)
            BY <5>1, Zenon DEF LifList
          <6>2. About(x[i], p, "STATE") /\ x[i].up = v
            BY <4>4, <6>1, Zenon DEF About
          <6>3. KnownAt(g, x, p, i)
            <7>0. i \in Nat /\ \A j \in 1 .. i : j \in 1 .. Len(x)
              BY <4>5, SMTT(40)
            <7>1. CASE s.lif[p].cfgSync
              <8>1. PICK k \in 1 .. Len(x) : x[k] = Conf(p)
                BY <7>1, Zenon DEF LifList
              <8>2. i = k + 1
                BY <5>1, <6>1, <7>1, <8>1, Zenon DEF LifList
              <8>3. k \in 1 .. i /\ \A j \in k + 1 .. i : j \in 1 .. Len(x)
                BY <4>5, <8>2, SMTT(40)
              <8>4. About(x[k], p, "CONF")
                BY <4>4, <8>1, Zenon DEF About
              <8> QED
                BY <4>3, <8>3, <8>4, Zenon DEF KnownAt
            <7>2. CASE ~s.lif[p].cfgSync
              BY <4>1, <4>3, <7>0, <7>2, Zenon DEF KnownAt
            <7> QED
              BY <7>1, <7>2, Zenon
          <6>4. ASSUME NEW j \in i + 1 .. Len(x) PROVE ~About(x[j], p, "STATE") /\ ~About(x[j], p, "PURGE")
            <7>1. j \in 1 .. Len(x) /\ j # i
              BY <4>5, SMTT(40)
            <7>2. ASSUME About(x[j], p, "STATE") PROVE FALSE
              <8> USE Zenon
              <8>1. x[j].type = "STATE" /\ x[j].po = p
                BY <7>2 DEF About
              <8>2. x[j] = State(x[j].po, s.lif[x[j].po].up)
                BY <7>1, <8>1 DEF LifList
              <8>3. x[j] = State(p, v)
                BY <8>1, <8>2
              <8>4. x[j] = x[i]
                BY <6>1, <8>3
              <8> QED
                BY <7>1, <8>4 DEF LifList
            <7> QED
              BY <4>3, <7>1, <7>2, Zenon
          <6> QED
            BY <6>2, <6>3, <6>4, Zenon DEF StateAfter
        <5>2. CASE ~s.lif[p].changed
          <6> USE Zenon
          <6>1. s.lif[p].here
            BY <4>0 DEF Kept, IfKept
          <6>2. ~s.lif[p].cfgSync
            BY <4>0, <4>7, <5>2, <6>1 DEF Kept, ChangeKept
          <6>3. ASSUME NEW j \in 1 .. Len(x) PROVE ~About(x[j], p, "STATE")
            BY <5>2 DEF LifList, About
          <6> QED
            BY <4>1, <4>2, <4>3, <5>2, <6>2, <6>3 DEF StateAfter
        <5> QED
          BY <5>1, <5>2, Zenon
      <4> QED
        BY <4>6, <4>7, Zenon DEF g
    <3>Main. ASSUME NEW s \in Daemon, Kept(s), StopKept(s), s.ml \in {"EXCHANGE", "ERROR"}, s.live = {}, s.gone = {}, NEW t \in SendLif(s)
             PROVE  \E x : Exchanged(s, t, x)
      <4> USE <3>Main
      <4> DEFINE confs == {Conf(p) : p \in {q \in Bound(s) : s.lif[q].cfgSync}}
                 states == {State(p, s.lif[p].up) : p \in {q \in Bound(s) : s.lif[q].changed}}
                 L == [p \in Po |-> Announced(Exchanging(s), s.lif[p])]
                 a == [s EXCEPT !.lif = L]
      <4>1. PICK x \in Orders(confs \cup states) :
              /\ \A i, j \in DOMAIN x : x[i] \in confs /\ x[j] \in states /\ x[i].po = x[j].po => j = i + 1
              /\ t = Send(a, x)
        BY Zenon DEF SendLif
      <4>2. LifList(s, x)
        <5>1. /\ confs = {Conf(p) : p \in {q \in Bound(s) : s.lif[q].cfgSync}}
              /\ states = {State(p, s.lif[p].up) : p \in {q \in Bound(s) : s.lif[q].changed}}
          BY Zenon
        <5> HIDE DEF confs, states, L, a
        <5> QED
          BY <4>1, <5>1, <3>LifMsgs, ZenonT(40)
      <4> HIDE DEF confs, states
      <4>3. ASSUME NEW p \in Po
            PROVE  /\ L[p] \in LocalIf /\ L[p].here = s.lif[p].here /\ L[p].up = s.lif[p].up /\ L[p].bound = s.lif[p].bound
                   /\ L[p].poActive = s.lif[p].poActive /\ L[p].iso = s.lif[p].iso
                   /\ L[p].bound => ~L[p].changed /\ ~L[p].cfgSync
                   /\ ~L[p].bound => L[p] = s.lif[p]
                   /\ L[p].disable => s.lif[p].disable \/ s.lif[p].bound
        <5> DEFINE l == s.lif[p]
                   k == L[p]
                   ex == Exchanging(s)
        <5>1. l \in LocalIf /\ ex \in BOOLEAN
          BY DaemonFields, Zenon
        <5>2. k = Announced(ex, l)
          BY Zenon
        <5> HIDE DEF l, k, ex, L
        <5>3. /\ k \in LocalIf /\ k.here = l.here /\ k.up = l.up /\ k.bound = l.bound /\ k.poActive = l.poActive /\ k.iso = l.iso
              /\ k.bound => ~k.changed /\ ~k.cfgSync
              /\ ~k.bound => k = l
              /\ k.disable = (l.disable \/ (l.bound /\ l.cfgSync /\ ex /\ ~l.poActive))
          BY <5>1, <5>2, <3>AnnouncedIf, SMTT(40)
        <5>4. k.disable => l.disable \/ l.bound
          BY <5>3, Zenon
        <5> QED
          BY <5>3, <5>4, Zenon DEF l, k
      <4>4. L \in [Po -> LocalIf]
        BY <4>3, Zenon
      <4> HIDE DEF L
      <4>5. /\ a \in Daemon /\ a.lif = L /\ a.live = s.live /\ a.gone = s.gone /\ a.ml = s.ml /\ a.conn = s.conn /\ a.warm = s.warm
            /\ a.out = s.out /\ a.bindList = s.bindList /\ a.pif = s.pif
        BY <4>4, Zenon DEF Daemon
      <4> HIDE DEF a
      <4>6. x \in Seq(Msg)
        BY <4>2, Zenon DEF LifList
      <4>7. SentOnly(a, t, x)
        BY <4>1, <4>5, <4>6, SendStep, Zenon
      <4>8. /\ t \in Daemon /\ t.lif = L /\ t.live = {} /\ t.gone = {} /\ t.ml = s.ml /\ t.conn = s.conn /\ t.warm = s.warm
            /\ t.bindList = s.bindList /\ t.pif = s.pif /\ Sends(s, t, x)
        BY <4>5, <4>7, Zenon DEF SentOnly, Sends, SameFrame
      <4>9. NoWarm(x)
        BY <4>2, Zenon DEF LifList, NoWarm
      <4>10. Says(s, t, x)
        <5> USE Zenon
        <5> SUFFICES ASSUME NEW p \in Po, t.lif[p].bound
                     PROVE  /\ KnownAfter(View(s, p, t.lif[p].up), x, p)
                            /\ "detach" \notin Config => StateAfter(View(s, p, t.lif[p].up), x, p, t.lif[p].up)
          BY DEF Says
        <5>1. p \in Bound(s) /\ t.lif[p].up = s.lif[p].up
          BY <4>3, <4>8 DEF Bound
        <5>2. /\ KnownAfter(View(s, p, s.lif[p].up), x, p)
              /\ "detach" \notin Config => StateAfter(View(s, p, s.lif[p].up), x, p, s.lif[p].up)
          BY <4>2, <5>1, <3>LifTells
        <5> QED
          BY <5>1, <5>2
      <4>11. Kept(t)
        <5> USE Zenon
        <5>0. ASSUME NEW p \in Po
              PROVE  /\ t.lif[p].here = s.lif[p].here /\ t.lif[p].up = s.lif[p].up /\ t.lif[p].bound = s.lif[p].bound
                     /\ t.lif[p].poActive = s.lif[p].poActive /\ t.lif[p].iso = s.lif[p].iso
          BY <4>3, <4>8
        <5>1. ASSUME NEW p \in Po PROVE IfKept(t.lif[p], t.pif[p], p \in t.bindList)
          <6>1. IfKept(s.lif[p], s.pif[p], p \in s.bindList)
            BY DEF Kept
          <6> QED
            BY <4>8, <5>0, <6>1 DEF IfKept
        <5>2. IsoKept(t)
          <6> SUFFICES ASSUME Exchanging(t), t.conn, NEW p \in Po, t.lif[p].bound, t.lif[p].up, t.pif[p].known
                       PROVE  t.lif[p].iso = t.pif[p].poActive
            BY DEF IsoKept
          <6>1. Exchanging(s) /\ s.conn /\ s.lif[p].bound /\ s.lif[p].up /\ s.pif[p].known
            BY <4>8, <5>0 DEF Exchanging
          <6>2. s.lif[p].iso = s.pif[p].poActive
            BY <6>1 DEF Kept, IsoKept
          <6> QED
            BY <4>8, <5>0, <6>2
        <5>3. PurgeKept(t)
          BY <4>8 DEF PurgeKept
        <5>4. ChangeKept(t)
          BY <4>3, <4>8 DEF Kept, ChangeKept
        <5> QED
          BY <5>1, <5>2, <5>3, <5>4 DEF Kept
      <4>12. StopKept(t)
        BY <4>3, <4>8, Zenon DEF StopKept
      <4> QED
        BY <4>8, <4>9, <4>10, <4>11, <4>12, Zenon DEF Exchanged
    <3> QED
      BY <3>Main, Zenon
  <2>AskAgainStep. ASSUME NEW s \in Daemon, Kept(s), StopKept(s)
                   PROVE  \E x : Exchanged(s, AskAgain(s), x)
    <3> USE <2>AskAgainStep, Zenon
    <3> DEFINE t == AskAgain(s)
    <3>1. CASE s.need
      <4> DEFINE a == [s EXCEPT !.need = FALSE]
                 x == <<[type |-> "REQ"]>>
      <4>1. /\ a \in Daemon /\ a.ml = s.ml /\ a.conn = s.conn /\ a.bindList = s.bindList /\ a.live = s.live /\ a.gone = s.gone
            /\ a.lif = s.lif /\ a.pif = s.pif /\ a.out = s.out /\ a.warm = s.warm
        BY DEF Daemon
      <4>2. x \in Seq(Msg) /\ \A j \in 1 .. Len(x) : x[j].type = "REQ"
        <5>1. [type |-> "REQ"].type = "REQ"
          OBVIOUS
        <5> QED
          BY <5>1, OneMsg, Messages
      <4>3. t = Send(a, x)
        BY <3>1 DEF AskAgain
      <4> HIDE DEF a, x, t
      <4>4. SentOnly(a, t, x)
        BY <4>1, <4>2, <4>3, SendStep
      <4>5. /\ t \in Daemon /\ t.ml = s.ml /\ t.conn = s.conn /\ t.bindList = s.bindList /\ t.live = s.live /\ t.gone = s.gone
            /\ t.lif = s.lif /\ t.pif = s.pif /\ t.warm = s.warm /\ Sends(s, t, x)
        BY <4>1, <4>4 DEF SentOnly, Sends, SameFrame
      <4>6. \A j \in 1 .. Len(x) : x[j].type \in {"ACK", "REQ"}
        BY <4>2
      <4>7. Quiet(s, t, x) /\ Kept(t)
        BY <4>5, <4>6, <1>SameIfs
      <4>8. StopKept(t) /\ Says(s, t, x)
        BY <4>5, <4>7, <1>QuietStop, <1>QuietSays
      <4>9. NoWarm(x)
        BY <4>2 DEF NoWarm
      <4> QED
        BY <4>5, <4>7, <4>8, <4>9 DEF Exchanged, t
    <3>2. CASE ~s.need
      <4>1. t = s
        BY <3>2 DEF AskAgain
      <4> HIDE DEF t
      <4>2. Sends(s, t, <<>>) /\ NoWarm(<<>>)
        <5>1. \A j \in 1 .. Len(<<>>) : <<>>[j].type \in {"ACK"}
          BY <1>EmptyTypes
        <5> QED
          BY <4>1, <5>1, NothingSent DEF Sends, NoWarm
      <4>3. Quiet(s, t, <<>>)
        BY <4>1, <4>2, <1>EmptyTypes, <1>SameIfs
      <4>4. Says(s, t, <<>>)
        BY <4>3, <1>QuietSays
      <4> QED
        BY <4>1, <4>2, <4>4 DEF Exchanged, t
    <3> QED
      BY <3>1, <3>2
  \* the three parts of mlacp_exchange_handler that send
  <2>ExchangeSends. ASSUME NEW s \in Daemon, Kept(s), StopKept(s), s.ml \in {"EXCHANGE", "ERROR"},
                           NEW q \in SendPurge(AskAgain(s)), NEW t \in SendLif(q)
                    PROVE  /\ t \in Daemon /\ Kept(t) /\ StopKept(t) /\ t.ml = s.ml /\ t.pif = s.pif /\ (NoWarm(s.out) => NoWarm(t.out))
                           /\ Exchanging(s) => \E x : Sends(s, t, x) /\ Says(s, t, x)
    <3> USE <2>ExchangeSends, Zenon
    <3> DEFINE a == AskAgain(s)
    <3>1. PICK x : Exchanged(s, a, x)
      BY <2>AskAgainStep
    <3> HIDE DEF a
    <3>2. /\ a \in Daemon /\ a.ml = s.ml /\ a.pif = s.pif /\ Kept(a) /\ StopKept(a) /\ Sends(s, a, x) /\ NoWarm(x)
          /\ Says(s, a, x) /\ x \in Seq(Msg)
      BY <3>1 DEF Exchanged, Sends
    <3>3. a.ml \in {"EXCHANGE", "ERROR"} /\ q \in SendPurge(a)
      BY <3>2 DEF a
    <3>4. PICK y : /\ Sends(a, q, y) /\ NoWarm(y) /\ (Exchanging(a) => Says(a, q, y)) /\ q.ml = a.ml /\ q.pif = a.pif
                   /\ Kept(q) /\ StopKept(q) /\ q.live = {} /\ q.gone = {}
      BY <3>2, <3>3, <2>SendPurgeStep
    <3>5. q \in Daemon /\ q.ml \in {"EXCHANGE", "ERROR"} /\ y \in Seq(Msg)
      BY <3>3, <3>4 DEF Sends
    <3>6. PICK z : Exchanged(q, t, z)
      BY <3>4, <3>5, <2>SendLifStep
    <3>7. /\ t \in Daemon /\ t.ml = q.ml /\ t.pif = q.pif /\ Kept(t) /\ StopKept(t) /\ Sends(q, t, z) /\ NoWarm(z)
          /\ Says(q, t, z) /\ z \in Seq(Msg)
      BY <3>6 DEF Exchanged, Sends
    <3>8. NoWarm(s.out) => NoWarm(t.out)
      BY <3>2, <3>4, <3>5, <3>7, <1>NoWarmCat
    <3>9. ASSUME Exchanging(s) PROVE \E w : Sends(s, t, w) /\ Says(s, t, w)
      <4>1. Says(a, q, y)
        BY <3>2, <3>4, <3>9 DEF Exchanging
      <4>2. Sends(s, q, x \o y) /\ Says(s, q, x \o y) /\ x \o y \in Seq(Msg)
        BY <3>2, <3>4, <3>5, <4>1, <2>SendsTrans, <2>SaysTrans, ConcatType
      <4>3. Sends(s, t, (x \o y) \o z) /\ Says(s, t, (x \o y) \o z)
        BY <3>5, <3>7, <4>2, <2>SendsTrans, <2>SaysTrans
      <4> QED
        BY <4>3
    <3> QED
      BY <3>2, <3>4, <3>7, <3>8, <3>9
  <2>Unwarmed. ASSUME NEW k \in Daemon, NEW t \in {k, [k EXCEPT !.warm = FALSE]}
               PROVE  /\ t \in Daemon /\ t.ml = k.ml /\ t.conn = k.conn /\ t.out = k.out /\ t.lif = k.lif /\ t.pif = k.pif
                      /\ Kept(k) => Kept(t)
                      /\ StopKept(k) => StopKept(t)
    <3> USE Zenon
    <3>1. CASE t = k
      BY <3>1
    <3>2. CASE t = [k EXCEPT !.warm = FALSE]
      <4>1. /\ t \in Daemon /\ t.ml = k.ml /\ t.conn = k.conn /\ t.out = k.out /\ t.lif = k.lif /\ t.pif = k.pif
            /\ t.bindList = k.bindList /\ t.live = k.live /\ t.gone = k.gone /\ ~t.warm
        BY <3>2 DEF Daemon
      <4>2. Kept(k) => Kept(t)
        BY <4>1 DEF Kept, IsoKept, PurgeKept, ChangeKept, Exchanging
      <4>3. StopKept(k) => StopKept(t)
        BY <4>1 DEF StopKept
      <4> QED
        BY <4>1, <4>2, <4>3
    <3> QED
      BY <3>1, <3>2
  <2>Main. ASSUME NEW s \in Daemon, Kept(s), StopKept(s), Exchanging(s), NEW m \in Msg \cup {NoMsg},
                  "warm" \notin Reboot => m.type # "WARM", NEW t \in ExchangeTurn(s, m)
           PROVE  ExchangeDone(s, t, m)
    <3> USE <2>Main, Zenon
    <3>1. PICK r \in Receive(s, m) : \E q \in SendPurge(AskAgain(r)) : \E k \in SendLif(q) : t \in {k, [k EXCEPT !.warm = FALSE]}
      <4>1. PICK r \in Receive(s, m) :
              t \in UNION {UNION {{k, [k EXCEPT !.warm = FALSE]} : k \in SendLif(q)} : q \in SendPurge(AskAgain(r))}
        BY DEF ExchangeTurn
      <4>2. PICK q \in SendPurge(AskAgain(r)) : t \in UNION {{k, [k EXCEPT !.warm = FALSE]} : k \in SendLif(q)}
        BY <4>1
      <4>3. \E k \in SendLif(q) : t \in {k, [k EXCEPT !.warm = FALSE]}
        BY <4>2
      <4> QED
        BY <4>3
    <3>2. PICK q \in SendPurge(AskAgain(r)) : \E k \in SendLif(q) : t \in {k, [k EXCEPT !.warm = FALSE]}
      BY <3>1
    <3>3. PICK k \in SendLif(q) : t \in {k, [k EXCEPT !.warm = FALSE]}
      BY <3>2
    <3>4. ASSUME r \in Daemon, Kept(r), StopKept(r), r.ml \in {"EXCHANGE", "ERROR"}
          PROVE  /\ t \in Daemon /\ Kept(t) /\ StopKept(t) /\ t.ml = r.ml /\ t.pif = r.pif /\ (NoWarm(r.out) => NoWarm(t.out))
                 /\ Exchanging(r) => \E x : Sends(r, t, x) /\ Says(r, t, x)
      <4>1. /\ k \in Daemon /\ Kept(k) /\ StopKept(k) /\ k.ml = r.ml /\ k.pif = r.pif /\ (NoWarm(r.out) => NoWarm(k.out))
            /\ Exchanging(r) => \E x : Sends(r, k, x) /\ Says(r, k, x)
        BY <3>4, <2>ExchangeSends
      <4>2. t \in Daemon /\ t.ml = k.ml /\ t.out = k.out /\ t.lif = k.lif /\ t.pif = k.pif /\ Kept(t) /\ StopKept(t)
        BY <3>3, <4>1, <2>Unwarmed
      <4>3. ASSUME NEW x, Sends(r, k, x), Says(r, k, x) PROVE Sends(r, t, x) /\ Says(r, t, x)
        BY <4>2, <4>3 DEF Sends, Says
      <4> QED
        BY <4>1, <4>2, <4>3
    <3>5. CASE m.type = "REQ"
      <4>1. r \in AllInfo(s)
        BY <3>5 DEF Receive
      <4>2. Answered(s, r)
        BY <4>1, <1>AllInfoStep
      <4>3. Kept(r) /\ StopKept(r)
        BY <4>2, <1>AnsweredKept
      <4>4. r \in Daemon /\ r.ml = "ERROR" /\ (NoWarm(s.out) => NoWarm(r.out))
        <5>1. PICK x : Sends(s, r, x) /\ NoWarm(x)
          BY <4>2 DEF Answered
        <5>2. NoWarm(s.out) => NoWarm(r.out)
          BY <5>1, <1>NoWarmCat
        <5>3. r.ml = "ERROR"
          BY <4>2 DEF Answered, Exchanging
        <5> QED
          BY <5>1, <5>2, <5>3 DEF Sends
      <4> QED
        BY <3>4, <4>3, <4>4 DEF ExchangeDone
    <3>6. CASE m.type # "REQ"
      <4>1. ReceivedBy(s, r, m)
        BY <3>6, <1>ReceiveStep
      <4>2. PICK x : Quiet(s, r, x)
        BY <4>1 DEF ReceivedBy
      <4>3. r \in Daemon /\ r.ml = "EXCHANGE" /\ Kept(r) /\ Sends(s, r, x) /\ x \in Seq(Msg)
        BY <4>1, <4>2 DEF ReceivedBy, Quiet, Sends, Exchanging
      <4>4. StopKept(r) /\ Says(s, r, x)
        BY <4>1, <4>2, <1>QuietStop, <1>QuietSays DEF ReceivedBy
      <4>5. NoWarm(s.out) => NoWarm(r.out)
        <5>1. NoWarm(x)
          BY <4>2 DEF Quiet, NoWarm
        <5> QED
          BY <4>3, <5>1, <1>NoWarmCat
      <4>6. /\ t \in Daemon /\ Kept(t) /\ StopKept(t) /\ t.ml = "EXCHANGE" /\ t.pif = r.pif /\ (NoWarm(r.out) => NoWarm(t.out))
            /\ \E y : Sends(r, t, y) /\ Says(r, t, y)
        BY <3>4, <4>3, <4>4 DEF Exchanging
      <4>7. PICK y : Sends(r, t, y) /\ Says(r, t, y)
        BY <4>6
      <4>8. y \in Seq(Msg)
        BY <4>7 DEF Sends
      <4>9. Sends(s, t, x \o y) /\ Says(s, t, x \o y)
        BY <4>3, <4>4, <4>6, <4>7, <4>8, <2>SendsTrans, <2>SaysTrans
      <4>10. \A p \in Po : Heard(s.pif[p], t.pif[p], m, p)
        BY <4>1, <4>6 DEF ReceivedBy
      <4> QED
        BY <4>5, <4>6, <4>9, <4>10 DEF ExchangeDone
    <3> QED
      BY <3>5, <3>6
  <2> QED
    BY <2>Main, Zenon
\* mlacp_stage_handler
<1>StageStep.
    \A s \in Daemon, m \in Msg \cup {NoMsg} : \A n : \A t \in StageTurn(n, s, m) :
      Kept(s) /\ StopKept(s) /\ s.ml \in {"STAGE1", "STAGE2"} /\ ~s.conn /\
        ("warm" \notin Reboot => m.type # "WARM") =>
        StageDone(n, s, t, m)
  \* the last lines of mlacp_stage_handler
  <2>NextStageStep. ASSUME NEW s \in Daemon, s.ml \in {"STAGE1", "STAGE2", "EXCHANGE"}, ~s.conn, Kept(s), StopKept(s),
                           NEW t, t = NextStage(s)
                    PROVE  /\ t \in Daemon /\ Kept(t) /\ StopKept(t) /\ t.lif = s.lif /\ t.pif = s.pif /\ t.out = s.out /\ t.wait = s.wait
                           /\ t.ml = (IF s.wait THEN s.ml ELSE IF s.ml = "STAGE1" THEN "STAGE2" ELSE "EXCHANGE")
    <3> USE <2>NextStageStep, Zenon
    <3>1. CASE s.wait
      BY <3>1 DEF NextStage
    <3>2. CASE ~s.wait
      <4> DEFINE ml == IF s.ml = "STAGE1" THEN "STAGE2" ELSE "EXCHANGE"
      <4>1. t = [s EXCEPT !.ml = ml]
        BY <3>2 DEF NextStage
      <4>2. ml \in MlacpState /\ ml \in {"STAGE2", "EXCHANGE"} /\ (s.ml # "STAGE1" => ml = "EXCHANGE")
        BY DEF MlacpState
      <4> HIDE DEF ml
      <4>3. /\ t \in Daemon /\ t.ml = ml /\ t.conn = s.conn /\ t.lif = s.lif /\ t.pif = s.pif /\ t.out = s.out /\ t.wait = s.wait
            /\ t.bindList = s.bindList /\ t.live = s.live /\ t.gone = s.gone /\ t.warm = s.warm
        BY <4>1, <4>2 DEF Daemon
      <4>4. PurgeKept(t)
        <5>1. CASE s.ml \in {"STAGE1", "STAGE2"}
          <6>1. t.live = {} /\ t.gone = {}
            BY <4>3, <5>1 DEF Kept, PurgeKept
          <6> QED
            BY <6>1 DEF PurgeKept
        <5>2. CASE s.ml = "EXCHANGE"
          <6>1. t.ml = "EXCHANGE"
            BY <4>2, <4>3, <5>2
          <6> QED
            BY <4>3, <5>2, <6>1 DEF Kept, PurgeKept
        <5> QED
          BY <5>1, <5>2
      <4>5. Kept(t)
        BY <4>3, <4>4 DEF Kept, IsoKept, ChangeKept
      <4>6. StopKept(t)
        BY <4>2, <4>3 DEF StopKept
      <4> QED
        BY <3>2, <4>3, <4>5, <4>6 DEF ml
    <3> QED
      BY <3>1, <3>2
  <2>AskStep. ASSUME NEW s \in Daemon, Kept(s), StopKept(s), NEW t, t = Send([s EXCEPT !.wait = TRUE], <<[type |-> "REQ"]>>)
              PROVE  Sound(s, t) /\ Asked(s, t)
    <3> USE <2>AskStep
    <3> DEFINE a == [s EXCEPT !.wait = TRUE]
               x == <<[type |-> "REQ"]>>
    <3>1. /\ a \in Daemon /\ a.ml = s.ml /\ a.conn = s.conn /\ a.bindList = s.bindList /\ a.live = s.live /\ a.gone = s.gone
          /\ a.lif = s.lif /\ a.pif = s.pif /\ a.out = s.out /\ a.wait = TRUE /\ a.warm = s.warm
      BY Zenon DEF Daemon
    <3>2. x \in Seq(Msg) /\ (\A j \in 1 .. Len(x) : x[j] = [type |-> "REQ"])
      BY Messages, OneMsg, Zenon
    <3>3. t = Send(a, x)
      BY Zenon
    <3> HIDE DEF a, x
    <3>4. SentOnly(a, t, x)
      BY <3>1, <3>2, <3>3, SendStep, Zenon
    <3>5. Sends(s, t, x)
      BY <3>1, <3>4, Zenon DEF SentOnly, Sends
    <3>6. \A i \in 1 .. Len(x) : x[i].type \in {"ACK", "REQ"} /\ x[i].type # "WARM"
      <4> SUFFICES ASSUME NEW i \in 1 .. Len(x) PROVE x[i].type \in {"ACK", "REQ"} /\ x[i].type # "WARM"
        BY Zenon
      <4>1. x[i].type = "REQ"
        BY <3>2, SMTT(40)
      <4> QED
        BY <4>1, Zenon
    <3>7. Quiet(s, t, x) /\ Kept(t)
      <4>1. /\ t.ml = s.ml /\ t.conn = s.conn /\ t.bindList = s.bindList /\ t.live = s.live /\ t.gone = s.gone
            /\ t.lif = s.lif /\ t.pif = s.pif
        BY <3>1, <3>4, Zenon DEF SentOnly, SameFrame
      <4> QED
        BY <3>5, <3>6, <4>1, <1>SameIfs, Zenon
    <3>8. StopKept(t)
      <4>1. t.warm = s.warm
        BY <3>1, <3>4, Zenon DEF SentOnly
      <4> QED
        BY <3>7, <4>1, <1>QuietStop, Zenon
    <3>9. NoWarm(s.out) => NoWarm(t.out)
      BY <3>5, <3>6, <1>NoWarmCat, Zenon DEF NoWarm
    <3>10. Says(s, t, x)
      BY <3>7, <1>QuietSays, Zenon
    <3>11. t.ml = s.ml /\ t.wait /\ t.pif = s.pif /\ t \in Daemon
      BY <3>1, <3>4, Zenon DEF SentOnly, SameFrame, Sends
    <3> QED
      BY <3>5, <3>7, <3>8, <3>9, <3>10, <3>11, Zenon DEF Sound, Asked, x
  <2>AnsweredSound. ASSUME NEW s \in Daemon, NEW t, Answered(s, t), Kept(s), StopKept(s), s.conn => Exchanging(s)
                    PROVE  Sound(s, t)
    <3> USE <2>AnsweredSound, Zenon
    <3>1. PICK x : Sends(s, t, x) /\ NoWarm(x)
      BY DEF Answered
    <3>2. NoWarm(s.out) => NoWarm(t.out)
      BY <3>1, <1>NoWarmCat
    <3>3. Kept(t) /\ StopKept(t)
      BY <1>AnsweredKept
    <3> QED
      BY <3>1, <3>2, <3>3 DEF Sound, Sends
  <2>Main. ASSUME NEW s \in Daemon, Kept(s), StopKept(s), s.ml \in {"STAGE1", "STAGE2"}, ~s.conn, NEW m \in Msg \cup {NoMsg},
                  "warm" \notin Reboot => m.type # "WARM", NEW n, NEW t \in StageTurn(n, s, m)
           PROVE  StageDone(n, s, t, m)
    <3> USE <2>Main, Zenon
    <3>0. s.wait \in BOOLEAN /\ Sound(s, s)
      BY DaemonFields DEF Sound
    <3>1. CASE Answers(n, s) /\ ~s.wait /\ m.type = "REQ"
      <4>1. t \in AllInfo(s)
        BY <3>1 DEF StageTurn, Answers
      <4>2. Answered(s, t)
        BY <4>1, <1>AllInfoStep
      <4>3. Sound(s, t)
        BY <4>2, <2>AnsweredSound
      <4> QED
        BY <3>1, <4>2, <4>3 DEF StageDone
    <3>2. CASE Answers(n, s) /\ ~(~s.wait /\ m.type = "REQ")
      <4>1. t = s
        BY <3>2 DEF StageTurn, Answers
      <4> QED
        BY <3>0, <3>2, <4>1 DEF StageDone
    <3>3. CASE ~Answers(n, s) /\ ~s.wait
      <4>1. t = Send([s EXCEPT !.wait = TRUE], <<[type |-> "REQ"]>>)
        BY <3>3 DEF StageTurn, Answers
      <4>2. Sound(s, t) /\ Asked(s, t)
        BY <4>1, <2>AskStep
      <4> QED
        BY <3>3, <4>2 DEF StageDone
    <3>4. CASE ~Answers(n, s) /\ s.wait
      <4>1. PICK r \in Receive(s, m) : t = NextStage(r)
        BY <3>4 DEF StageTurn, Answers
      <4>2. CASE m.type = "REQ"
        <5>1. Answered(s, r)
          <6>1. r \in AllInfo(s)
            BY <4>2 DEF Receive
          <6> QED
            BY <6>1, <1>AllInfoStep
        <5>2. Sound(s, r)
          BY <5>1, <2>AnsweredSound
        <5>3. r \in Daemon /\ r.ml \in {"STAGE1", "STAGE2", "EXCHANGE"} /\ ~r.conn /\ Kept(r) /\ StopKept(r)
          BY <5>1, <5>2 DEF Answered, Sound
        <5>4. t \in Daemon /\ Kept(t) /\ StopKept(t) /\ t.out = r.out
          BY <4>1, <5>3, <2>NextStageStep
        <5> QED
          BY <3>4, <4>2, <5>2, <5>4 DEF StageDone, Sound
      <4>3. CASE m.type # "REQ"
        <5>1. ReceivedBy(s, r, m)
          BY <4>3, <1>ReceiveStep
        <5>2. Quiet(s, r, <<>>) /\ Kept(r) /\ r.wait = (m.type # "DONE") /\ \A p \in Po : Heard(s.pif[p], r.pif[p], m, p)
          BY <3>4, <5>1 DEF ReceivedBy, Exchanging
        <5>3. StopKept(r)
          BY <5>1, <5>2, <1>QuietStop DEF ReceivedBy
        <5>4. r \in Daemon /\ r.ml = s.ml /\ ~r.conn /\ Sends(s, r, <<>>) /\ r.out = s.out
          BY <5>2, NothingSent DEF Quiet, Sends
        <5>5. /\ t \in Daemon /\ Kept(t) /\ StopKept(t) /\ t.lif = r.lif /\ t.pif = r.pif /\ t.out = r.out /\ t.wait = r.wait
              /\ t.ml = (IF r.wait THEN r.ml ELSE IF r.ml = "STAGE1" THEN "STAGE2" ELSE "EXCHANGE")
          BY <4>1, <5>2, <5>3, <5>4, <2>NextStageStep
        <5>6. Says(s, r, <<>>)
          BY <5>2, <1>QuietSays
        <5>7. Sends(s, t, <<>>) /\ Says(s, t, <<>>)
          BY <5>4, <5>5, <5>6 DEF Sends, Says
        <5>8. t.ml = (IF m.type = "DONE" THEN (IF s.ml = "STAGE1" THEN "STAGE2" ELSE "EXCHANGE") ELSE s.ml)
          <6>1. CASE m.type = "DONE"
            BY <5>2, <5>4, <5>5, <6>1
          <6>2. CASE m.type # "DONE"
            BY <5>2, <5>4, <5>5, <6>2
          <6> QED
            BY <6>1, <6>2
        <5>9. Waited(s, t, m)
          BY <5>2, <5>5, <5>7, <5>8 DEF Waited
        <5>10. Sound(s, t)
          BY <5>4, <5>5 DEF Sound
        <5> QED
          BY <3>4, <4>3, <5>9, <5>10 DEF StageDone
      <4> QED
        BY <4>2, <4>3
    <3> QED
      BY <3>1, <3>2, <3>3, <3>4
  <2> QED
    BY <2>Main, Zenon
\* the first lines of a turn
<1>BeginStep.
    \A s \in Daemon :
      Kept(s) /\ StopKept(s) =>
        Begun(s, BeginTurn(s))
  \* mlacp_peer_conn_handler
  <2>PeerConnStep. ASSUME NEW s \in Daemon, Kept(s), StopKept(s), Exchanging(s), ~s.conn, NEW c, c = PeerConn(s)
                   PROVE  /\ Quiet(s, c, <<>>) /\ c.pif = s.pif /\ c.warm = s.warm /\ c.wait = s.wait
                          /\ \A p \in Po : c.lif[p].bound /\ c.lif[p].up /\ c.pif[p].known => c.lif[p].iso = c.pif[p].poActive
    <3> USE <2>PeerConnStep, Zenon
    <3> DEFINE L == [p \in Po |-> IF s.lif[p].bound THEN PortChannelState(Exchanging(s), s.lif[p], s.pif[p], s.lif[p].up)
                                                    ELSE s.lif[p]]
    <3>1. ASSUME NEW p \in Po
          PROVE  /\ L[p] \in LocalIf /\ L[p].here = s.lif[p].here /\ L[p].up = s.lif[p].up /\ L[p].bound = s.lif[p].bound
                 /\ L[p].poActive = s.lif[p].poActive /\ L[p].changed = s.lif[p].changed /\ L[p].cfgSync = s.lif[p].cfgSync
                 /\ L[p].disable => s.lif[p].disable \/ s.lif[p].bound
                 /\ L[p].bound /\ L[p].up /\ s.pif[p].known => L[p].iso = s.pif[p].poActive
      <4> DEFINE l == s.lif[p]
                 q == s.pif[p]
                 ex == Exchanging(s)
                 k == L[p]
                 up == l.up
      <4>1. /\ l \in LocalIf /\ q \in PeerIf /\ ex \in BOOLEAN /\ ex /\ up \in BOOLEAN /\ l.changed \in BOOLEAN /\ l.disable \in BOOLEAN
            /\ q.poActive \in BOOLEAN
        BY DaemonFields, IfFields
      <4>2. k = IF l.bound THEN PortChannelState(ex, l, q, up) ELSE l
        OBVIOUS
      <4>3. l.poActive = up
        BY DEF Kept, IfKept
      <4> HIDE DEF l, q, ex, k, up, L
      <4>4. CASE l.bound
        <5>1. k = PortChannelState(ex, l, q, up)
          BY <4>2, <4>4
        <5>2. /\ k \in LocalIf /\ SameBut(l, k) /\ k.up = l.up /\ k.poActive = up
              /\ k.changed = (l.changed \/ l.poActive # up)
              /\ k.iso = IF ex /\ up THEN ~q.known \/ q.poActive ELSE l.iso
          <6>1. StateHandled(ex, l, q, up, k)
            BY <4>1, <5>1, PortState
          <6> QED
            BY <6>1 DEF StateHandled
        <5>3. k.changed = l.changed /\ (up /\ q.known => k.iso = q.poActive)
          BY <4>1, <4>3, <5>2
        <5> QED
          BY <4>3, <4>4, <5>2, <5>3 DEF SameBut, l, q, k, up
      <4>5. CASE ~l.bound
        <5>1. k = l
          BY <4>2, <4>5
        <5> QED
          BY <4>1, <4>5, <5>1 DEF l, q, k
      <4> QED
        BY <4>4, <4>5
    <3>2. L \in [Po -> LocalIf]
      BY <3>1
    <3>3. c = [s EXCEPT !.lif = L]
      BY DEF PeerConn
    <3> HIDE DEF L
    <3>4. /\ c \in Daemon /\ c.lif = L /\ c.ml = s.ml /\ c.conn = s.conn /\ c.bindList = s.bindList /\ c.live = s.live /\ c.gone = s.gone
          /\ c.out = s.out /\ c.pif = s.pif /\ c.warm = s.warm /\ c.wait = s.wait
      BY <3>2, <3>3 DEF Daemon
    <3>5. Sends(s, c, <<>>)
      BY <3>4, NothingSent DEF Sends
    <3>6. Quiet(s, c, <<>>)
      BY <3>1, <3>4, <3>5, <1>EmptyTypes DEF Quiet
    <3>7. \A p \in Po : c.lif[p].bound /\ c.lif[p].up /\ c.pif[p].known => c.lif[p].iso = c.pif[p].poActive
      <4> SUFFICES ASSUME NEW p \in Po, c.lif[p].bound, c.lif[p].up, c.pif[p].known PROVE c.lif[p].iso = c.pif[p].poActive
        OBVIOUS
      <4>1. L[p].bound /\ L[p].up /\ s.pif[p].known => L[p].iso = s.pif[p].poActive
        BY <3>1
      <4> QED
        BY <3>4, <4>1
    <3> QED
      BY <3>4, <3>6, <3>7
  <2>Main. ASSUME NEW s \in Daemon, Kept(s), StopKept(s)
           PROVE  Begun(s, BeginTurn(s))
    <3> USE <2>Main
    <3> DEFINE c == IF Exchanging(s) /\ ~s.conn THEN PeerConn(s) ELSE s
               t == BeginTurn(s)
    <3>1. /\ Quiet(s, c, <<>>) /\ c.pif = s.pif /\ c.warm = s.warm /\ c.wait = s.wait
          /\ Exchanging(s) =>
               \A p \in Po : c.lif[p].bound /\ c.lif[p].up /\ c.pif[p].known => c.lif[p].iso = c.pif[p].poActive
      <4> USE Zenon
      <4>1. CASE Exchanging(s) /\ ~s.conn
        <5>1. c = PeerConn(s)
          BY <4>1
        <5> HIDE DEF c
        <5> QED
          BY <4>1, <5>1, <2>PeerConnStep
      <4>2. CASE ~(Exchanging(s) /\ ~s.conn)
        <5>1. c = s
          BY <4>2
        <5>2. Sends(s, s, <<>>)
          BY NothingSent DEF Sends
        <5>3. Quiet(s, s, <<>>)
          BY <5>2, <1>EmptyTypes, <1>SameIfs
        <5>4. Exchanging(s) =>
                \A p \in Po : s.lif[p].bound /\ s.lif[p].up /\ s.pif[p].known => s.lif[p].iso = s.pif[p].poActive
          BY <4>2 DEF Kept, IsoKept
        <5> HIDE DEF c
        <5> QED
          BY <5>1, <5>3, <5>4
      <4> QED
        BY <4>1, <4>2
    <3>2. t = IF c.ml = "INIT" THEN [c EXCEPT !.conn = FALSE, !.ml = "STAGE1", !.wait = FALSE]
                               ELSE [c EXCEPT !.conn = Exchanging(c)]
      BY Zenon DEF BeginTurn
    <3> HIDE DEF c, t
    <3>3. /\ c \in Daemon /\ c.ml = s.ml /\ c.bindList = s.bindList /\ c.live = s.live /\ c.gone = s.gone /\ c.out = s.out
          /\ Exchanging(c) \in BOOLEAN
      <4>1. c \in Daemon /\ c.out = s.out
        BY <3>1, NothingSent, Zenon DEF Quiet, Sends
      <4> QED
        BY <3>1, <4>1, DaemonFields, Zenon DEF Quiet
    <3>4. /\ t \in Daemon /\ t.bindList = c.bindList /\ t.lif = c.lif /\ t.pif = c.pif /\ t.live = c.live /\ t.gone = c.gone
          /\ t.out = c.out /\ t.warm = c.warm
          /\ c.ml = "INIT" => t.ml = "STAGE1" /\ ~t.wait /\ t.conn = FALSE
          /\ c.ml # "INIT" => t.ml = c.ml /\ t.wait = c.wait /\ t.conn = Exchanging(c)
      <4> USE Zenon
      <4>1. CASE c.ml = "INIT"
        <5>1. t = [c EXCEPT !.conn = FALSE, !.ml = "STAGE1", !.wait = FALSE]
          BY <3>2, <4>1
        <5> QED
          BY <3>3, <4>1, <5>1 DEF Daemon, MlacpState
      <4>2. CASE c.ml # "INIT"
        <5>1. t = [c EXCEPT !.conn = Exchanging(c)]
          BY <3>2, <4>2
        <5> HIDE DEF Exchanging
        <5> QED
          BY <3>3, <4>2, <5>1 DEF Daemon
      <4> QED
        BY <4>1, <4>2
    <3>5. t.conn = Exchanging(t)
      <4>1. CASE c.ml = "INIT"
        BY <3>4, <4>1, Zenon DEF Exchanging
      <4>2. CASE c.ml # "INIT"
        BY <3>4, <4>2, Zenon DEF Exchanging
      <4> QED
        BY <4>1, <4>2, Zenon
    <3>6. ASSUME NEW p \in Po PROVE
            /\ t.lif[p].here = s.lif[p].here /\ t.lif[p].up = s.lif[p].up /\ t.lif[p].bound = s.lif[p].bound
            /\ t.lif[p].poActive = s.lif[p].poActive /\ t.lif[p].changed = s.lif[p].changed
            /\ t.lif[p].cfgSync = s.lif[p].cfgSync
            /\ t.lif[p].disable => s.lif[p].disable \/ (s.lif[p].bound /\ Exchanging(s))
      BY <3>1, <3>4, ZenonT(40) DEF Quiet
    <3>7. /\ s.ml = "INIT" => t.ml = "STAGE1" /\ ~t.wait
          /\ s.ml # "INIT" => t.ml = s.ml /\ t.wait = s.wait
          /\ t.bindList = s.bindList /\ t.pif = s.pif /\ t.live = s.live /\ t.gone = s.gone /\ t.out = s.out /\ t.warm = s.warm
      BY <3>1, <3>3, <3>4, Zenon
    <3>8. Kept(t)
      <4> USE Zenon
      <4>1. \A p \in Po : IfKept(t.lif[p], t.pif[p], p \in t.bindList)
        BY <3>6, <3>7 DEF Kept, IfKept
      <4>2. IsoKept(t)
        BY <3>1, <3>4, <3>7, ZenonT(40) DEF IsoKept, Exchanging
      <4>3. PurgeKept(t)
        BY <3>6, <3>7 DEF Kept, PurgeKept
      <4>4. ChangeKept(t)
        BY <3>6 DEF Kept, ChangeKept
      <4> QED
        BY <4>1, <4>2, <4>3, <4>4 DEF Kept
    <3>9. StopKept(t)
      BY <3>6, <3>7, Zenon DEF StopKept, Exchanging
    <3>10. Says(s, t, <<>>)
      <4>1. \A i \in 1 .. Len(<<>>) : <<>>[i].type \notin {"CONF", "PURGE", "STATE"}
        BY SMTT(40)
      <4> QED
        BY <3>4, <3>6, <4>1, SilentSays, Zenon
    <3> QED
      BY <3>4, <3>5, <3>7, <3>8, <3>9, <3>10, Zenon DEF Begun, t
  <2> QED
    BY <2>Main, Zenon
<1>BodyStep. ASSUME NEW s \in Daemon, Kept(s), StopKept(s), s.ml # "INIT", s.conn = Exchanging(s), NEW m \in Msg \cup {NoMsg},
                    "warm" \notin Reboot => m.type # "WARM", NEW n, NEW t \in TurnBody(n, s, m)
             PROVE  TurnDone(n, s, t, m)
  <2> USE <1>BodyStep, Zenon
  <2>1. s.ml \in {"STAGE1", "STAGE2", "EXCHANGE", "ERROR"}
    BY DaemonFields DEF MlacpState
  <2>2. CASE s.ml \in {"STAGE1", "STAGE2"}
    <3>1. t \in StageTurn(n, s, m) /\ ~s.conn
      BY <2>2 DEF TurnBody, Exchanging
    <3>2. StageDone(n, s, t, m)
      BY <2>2, <3>1, <1>StageStep
    <3> QED
      BY <2>2, <3>2 DEF TurnDone, StageDone
  <2>3. CASE s.ml = "EXCHANGE"
    <3>1. t \in ExchangeTurn(s, m) /\ Exchanging(s)
      BY <2>3 DEF TurnBody, Exchanging
    <3>2. ExchangeDone(s, t, m)
      BY <3>1, <1>ExchangeStep
    <3>3. Sound(s, t)
      BY <3>2 DEF ExchangeDone, Sound
    <3> QED
      BY <2>3, <3>2, <3>3 DEF TurnDone
  <2>4. CASE s.ml = "ERROR"
    <3>1. t = s
      BY <2>4 DEF TurnBody
    <3> QED
      BY <2>4, <3>1 DEF TurnDone, Sound
  <2> QED
    BY <2>1, <2>2, <2>3, <2>4
<1>Main. ASSUME NEW s \in Daemon, Kept(s), StopKept(s), NEW m \in Msg \cup {NoMsg},
                "warm" \notin Reboot => m.type # "WARM", NEW n, NEW t \in Turn(n, s, m)
         PROVE  Sound(s, t) /\ \E b \in Daemon : Begun(s, b) /\ b.ml # "INIT" /\ TurnDone(n, b, t, m)
  <2> USE <1>Main, Zenon
  <2> DEFINE b == BeginTurn(s)
  <2>1. Begun(s, b)
    BY <1>BeginStep
  <2>2. t \in TurnBody(n, b, m)
    BY DEF Turn
  <2> HIDE DEF b
  <2>3. b \in Daemon /\ Kept(b) /\ StopKept(b) /\ b.ml # "INIT" /\ b.conn = Exchanging(b) /\ b.out = s.out
    BY <2>1 DEF Begun
  <2>4. TurnDone(n, b, t, m)
    BY <2>2, <2>3, <1>BodyStep
  <2>5. Sound(s, t)
    BY <2>3, <2>4 DEF TurnDone, Sound
  <2> QED
    BY <2>1, <2>3, <2>4, <2>5
<1> QED
  BY <1>Main, Zenon

-----------------------------------------------------------------------------
(* Two connected daemons.                                                  *)

\* a turn with the message m leaves y of the stream w
Reads(w, m, y) == (m = NoMsg /\ y = w) \/ (m \in Msg /\ Headed(w, m, y))

\* the entries are the same
LEMMA SameTold ==
  ASSUME NEW s, NEW r, NEW u, NEW w, Told(s, r, w), u.pif = r.pif
  PROVE  Told(s, u, w)
  BY Zenon DEF Told

\* a step that sends nothing and marks what it changes keeps the peer told
LEMMA SilentTold ==
  ASSUME NEW s, NEW t \in Daemon, NEW r, NEW w \in Seq(Msg), Told(s, r, w), Says(s, t, <<>>)
  PROVE  Told(t, r, w)
<1>1. <<>> \in Seq(Msg) /\ w \o <<>> = w
  <2>1. \A v \in Seq(Msg) : <<>> \in Seq(Msg) /\ v \o <<>> = v
    BY SMTT(40)
  <2> QED
    BY <2>1, Zenon
<1>2. Told(t, r, w \o <<>>)
  BY <1>1, SaysTold, Zenon
<1> QED
  BY <1>1, <1>2, Zenon

\* an empty stream adds nothing
LEMMA NothingCat ==
  /\ <<>> \in Seq(Msg) /\ Len(<<>>) = 0
  /\ \A w \in Seq(Msg) : w \o <<>> = w /\ <<>> \o w = w /\ (Len(w) = 0 => w = <<>>)
  BY SMTT(40)

\* t is b after a turn in EXCHANGE that left y of its stream wi; r is the other node
ExchangeTold(b, t, r, wi, wo, y) ==
    /\ t.ml = "EXCHANGE" /\ (Told(r, b, wi) => Told(r, t, y))
    /\ \E x \in Seq(Msg) : Sends(b, t, x) /\ Told(t, r, wo \o x)

\* n's daemon s, with its stream wi, is in step with the other one r, with its stream wo
Pair(n, s, r, wi, wo) == IF n = Lo THEN InStep(s, r, wi, wo) ELSE InStep(r, s, wo, wi)

\* an operation that neither sends nor changes the phase
LEMMA LocalPair ==
  ASSUME NEW n, NEW s, NEW r, NEW wi, NEW wo \in Seq(Msg), Pair(n, s, r, wi, wo),
         NEW t \in Daemon, t.ml = s.ml, t.wait = s.wait, t.pif = s.pif, Says(s, t, <<>>)
  PROVE  Pair(n, t, r, wi, wo)
<1> USE Zenon
<1>1. Told(s, r, wo) => Told(t, r, wo)
  BY SilentTold
<1>2. Told(r, s, wi) => Told(r, t, wi)
  BY SameTold
<1>3. CASE n = Lo
  <2>1. InStep(s, r, wi, wo)
    BY <1>3 DEF Pair
  <2>2. \A k : Request(s, wo, k) => Request(t, wo, k)
    BY DEF Request
  <2>3. Phase(s, r, wi, wo) => Phase(t, r, wi, wo)
    BY <2>2 DEF Phase
  <2>4. InStep(t, r, wi, wo)
    BY <1>1, <1>2, <2>1, <2>3 DEF InStep
  <2> QED
    BY <1>3, <2>4 DEF Pair
<1>4. CASE n # Lo
  <2>1. InStep(r, s, wo, wi)
    BY <1>4 DEF Pair
  <2>2. Phase(r, s, wo, wi) => Phase(r, t, wo, wi)
    BY DEF Phase
  <2>3. InStep(r, t, wo, wi)
    BY <1>1, <1>2, <2>1, <2>2 DEF InStep
  <2> QED
    BY <1>4, <2>3 DEF Pair
<1> QED
  BY <1>3, <1>4

\* a turn of either node keeps the two in step; w0 is the other's stream without what this one sends
LEMMA TurnPair ==
  \A n \in Node, s \in Daemon : \A r : \A wi, w0, y \in Seq(Msg) : \A m : \A t \in Turn(n, s, m) :
    /\ Kept(s) /\ StopKept(s) /\ Pair(n, s, r, wi, w0 \o s.out)
    /\ Reads(wi, m, y)
    /\ "warm" \notin Reboot => m.type # "WARM"
    => Pair(n, t, r, y, w0 \o t.out)
<1>ReadTold.
    \A s, r, u, w, m, y :
      Reads(w, m, y) /\ Told(s, r, w) /\ (\A p \in Po : Heard(r.pif[p], u.pif[p], m, p)) =>
        Told(s, u, y)
  \* the receiver reads a message
  <2>HearTold.
      \A s, r, u, w, m, y :
        Headed(w, m, y) /\ Told(s, r, w) /\ (\A p \in Po : Heard(r.pif[p], u.pif[p], m, p)) =>
          Told(s, u, y)
    <3>HearKnown. ASSUME NEW w, NEW m, NEW y, Headed(w, m, y), NEW q, NEW u, NEW p, NEW n \in 0 .. Len(y),
                         Heard(q, u, m, p), KnownAt(q, w, p, n + 1)
                  PROVE  KnownAt(u, y, p, n)
      <4> USE <3>HearKnown
      <4>0. Len(y) \in Nat /\ n \in Nat /\ 1 \in 1 .. n + 1
        BY SMTT(40) DEF Headed
      <4>a. ASSUME NEW j \in 1 .. n PROVE y[j] = w[j + 1] /\ j + 1 \in 2 .. n + 1 /\ j + 1 \in 1 .. n + 1
        BY <4>0, SMTT(40) DEF Headed
      <4>1. CASE \E k \in 1 .. n + 1 : About(w[k], p, "CONF") /\ \A j \in k + 1 .. n + 1 : ~About(w[j], p, "PURGE")
        <5>1. PICK k \in 1 .. n + 1 : About(w[k], p, "CONF") /\ \A j \in k + 1 .. n + 1 : ~About(w[j], p, "PURGE")
          BY <4>1, Zenon
        <5>2. CASE k = 1
          <6>1. u.known
            BY <5>1, <5>2, Zenon DEF Headed, Heard
          <6>2. \A j \in 1 .. n : j + 1 \in k + 1 .. n + 1
            BY <4>0, <5>2, SMTT(40)
          <6> QED
            BY <4>a, <5>1, <6>1, <6>2, Zenon DEF KnownAt
        <5>3. CASE k # 1
          <6>1. k - 1 \in 1 .. n /\ y[k - 1] = w[k]
            BY <4>0, <5>3, SMTT(40) DEF Headed
          <6>2. ASSUME NEW j \in k - 1 + 1 .. n PROVE ~About(y[j], p, "PURGE")
            <7>1. j + 1 \in k + 1 .. n + 1 /\ y[j] = w[j + 1]
              BY <4>0, <5>3, SMTT(40) DEF Headed
            <7> QED
              BY <5>1, <7>1, Zenon
          <6> QED
            BY <5>1, <6>1, <6>2, Zenon DEF KnownAt
        <5> QED
          BY <5>2, <5>3, Zenon
      <4>2. CASE q.known /\ \A j \in 1 .. n + 1 : ~About(w[j], p, "PURGE")
        <5>1. ~About(m, p, "PURGE")
          BY <4>0, <4>2, Zenon DEF Headed
        <5>2. u.known
          BY <4>2, <5>1, Zenon DEF Heard, About
        <5> QED
          BY <4>2, <4>a, <5>2, Zenon DEF KnownAt
      <4> QED
        BY <4>1, <4>2, Zenon DEF KnownAt
    <3>HearKnownAfter. ASSUME NEW w, NEW m, NEW y, Headed(w, m, y), NEW q, NEW u, NEW p, Heard(q, u, m, p), KnownAfter(q, w, p)
                       PROVE  KnownAfter(u, y, p)
      <4> USE <3>HearKnownAfter
      <4>1. Len(y) \in 0 .. Len(y) /\ Len(w) = Len(y) + 1
        BY SMTT(40) DEF Headed
      <4>2. KnownAt(q, w, p, Len(y) + 1)
        BY <4>1, Zenon DEF KnownAfter
      <4>3. KnownAt(u, y, p, Len(y))
        BY <4>1, <4>2, <3>HearKnown, Zenon
      <4> QED
        BY <4>3, Zenon DEF KnownAfter
    <3>HearState. ASSUME NEW w, NEW m, NEW y, Headed(w, m, y), NEW q, NEW u, NEW p, NEW v, Heard(q, u, m, p), StateAfter(q, w, p, v)
                  PROVE  StateAfter(u, y, p, v)
      <4> USE <3>HearState
      <4>0. Len(y) \in Nat /\ Len(w) = Len(y) + 1 /\ w[1] = m /\ 1 \in 1 .. Len(w)
        BY SMTT(40) DEF Headed
      <4>a. ASSUME NEW j \in 1 .. Len(y) PROVE y[j] = w[j + 1] /\ j + 1 \in 1 .. Len(w)
        BY <4>0, SMTT(40) DEF Headed
      <4>1. CASE \E i \in 1 .. Len(w) :
                   /\ About(w[i], p, "STATE") /\ w[i].up = v /\ KnownAt(q, w, p, i)
                   /\ \A j \in i + 1 .. Len(w) : ~About(w[j], p, "STATE") /\ ~About(w[j], p, "PURGE")
        <5>1. PICK i \in 1 .. Len(w) :
                   /\ About(w[i], p, "STATE") /\ w[i].up = v /\ KnownAt(q, w, p, i)
                   /\ \A j \in i + 1 .. Len(w) : ~About(w[j], p, "STATE") /\ ~About(w[j], p, "PURGE")
          BY <4>1, Zenon
        <5>2. CASE i = 1
          <6>1. q.known
            <7>1. \A k \in 1 .. 1 : k = 1
              BY SMTT(40)
            <7>2. ~About(m, p, "CONF")
              BY <4>0, <5>1, <5>2, Zenon DEF About
            <7> QED
              BY <4>0, <5>1, <5>2, <7>1, <7>2, Zenon DEF KnownAt
          <6>2. u.known /\ u.up = v
            BY <4>0, <5>1, <5>2, <6>1, Zenon DEF Heard
          <6>3. \A j \in 1 .. Len(y) : j + 1 \in i + 1 .. Len(w)
            BY <4>0, <5>2, SMTT(40)
          <6> QED
            BY <4>a, <5>1, <6>2, <6>3, Zenon DEF StateAfter
        <5>3. CASE i # 1
          <6>1. i - 1 \in 1 .. Len(y) /\ y[i - 1] = w[i] /\ i - 1 \in 0 .. Len(y) /\ i - 1 + 1 = i
            BY <4>0, <5>3, SMTT(40) DEF Headed
          <6>2. KnownAt(q, w, p, i - 1 + 1)
            BY <5>1, <6>1, Zenon
          <6>3. KnownAt(u, y, p, i - 1)
            BY <6>1, <6>2, <3>HearKnown, Zenon
          <6>4. ASSUME NEW j \in i - 1 + 1 .. Len(y) PROVE ~About(y[j], p, "STATE") /\ ~About(y[j], p, "PURGE")
            <7>1. j + 1 \in i + 1 .. Len(w) /\ y[j] = w[j + 1]
              BY <4>0, <5>3, SMTT(40) DEF Headed
            <7> QED
              BY <5>1, <7>1, Zenon
          <6> QED
            BY <5>1, <6>1, <6>3, <6>4, Zenon DEF StateAfter
        <5> QED
          BY <5>2, <5>3, Zenon
      <4>2. CASE /\ q.known /\ q.up = v
                 /\ \A j \in 1 .. Len(w) : ~About(w[j], p, "STATE") /\ ~About(w[j], p, "PURGE")
        <5>1. ~About(m, p, "PURGE") /\ ~About(m, p, "STATE")
          BY <4>0, <4>2, Zenon
        <5>2. u.known /\ u.up = v
          BY <4>2, <5>1, Zenon DEF Heard, About
        <5> QED
          BY <4>2, <4>a, <5>2, Zenon DEF StateAfter
      <4> QED
        BY <4>1, <4>2, Zenon DEF StateAfter
    <3>Main. ASSUME NEW s, NEW r, NEW u, NEW w, NEW m, NEW y, Headed(w, m, y), Told(s, r, w),
                    \A p \in Po : Heard(r.pif[p], u.pif[p], m, p)
             PROVE  Told(s, u, y)
      <4> USE <3>Main
      <4> SUFFICES ASSUME NEW p \in Po, s.lif[p].bound, ~s.lif[p].cfgSync
                   PROVE  /\ KnownAfter(u.pif[p], y, p)
                          /\ "detach" \notin Config /\ ~s.lif[p].changed => StateAfter(u.pif[p], y, p, s.lif[p].up)
        BY Zenon DEF Told
      <4>1. KnownAfter(u.pif[p], y, p)
        <5>1. KnownAfter(r.pif[p], w, p) /\ Heard(r.pif[p], u.pif[p], m, p)
          BY Zenon DEF Told
        <5> QED
          BY <5>1, <3>HearKnownAfter, SMTT(40)
      <4>2. ASSUME "detach" \notin Config, ~s.lif[p].changed PROVE StateAfter(u.pif[p], y, p, s.lif[p].up)
        <5>1. StateAfter(r.pif[p], w, p, s.lif[p].up) /\ Heard(r.pif[p], u.pif[p], m, p)
          BY <4>2, Zenon DEF Told
        <5> QED
          BY <5>1, <3>HearState, SMTT(40)
      <4> QED
        BY <4>1, <4>2, Zenon
    <3> QED
      BY <3>Main, Zenon
  <2>Main. ASSUME NEW s, NEW r, NEW u, NEW w, NEW m, NEW y, Reads(w, m, y), Told(s, r, w),
                  \A p \in Po : Heard(r.pif[p], u.pif[p], m, p)
           PROVE  Told(s, u, y)
    <3> USE <2>Main, Zenon
    <3>1. CASE m = NoMsg /\ y = w
      <4>1. m.type = "NONE"
        BY <3>1 DEF NoMsg
      <4>2. \A p \in Po : u.pif[p] = r.pif[p]
        BY <4>1 DEF Heard
      <4> QED
        BY <3>1, <4>2 DEF Told
    <3>2. CASE Headed(w, m, y)
      BY <3>2, <2>HearTold
    <3> QED
      BY <3>1, <3>2 DEF Reads
  <2> QED
    BY <2>Main, Zenon
\* nothing can be read of an empty stream
<1>ReadNothing. ASSUME NEW m, NEW y, Reads(<<>>, m, y)
                PROVE  m = NoMsg /\ m.type = "NONE" /\ y = <<>>
  <2> USE <1>ReadNothing
  <2>1. ~Headed(<<>>, m, y)
    <3>1. Len(<<>>) = 0
      BY SMTT(40)
    <3> SUFFICES ASSUME Len(y) \in Nat, 0 = Len(y) + 1 PROVE FALSE
      BY <3>1, Zenon DEF Headed
    <3> QED
      BY SMTT(40)
  <2>2. m = NoMsg /\ y = <<>>
    BY <2>1, Zenon DEF Reads
  <2>3. m.type = "NONE"
    BY <2>2, Zenon DEF NoMsg
  <2> QED
    BY <2>2, <2>3, Zenon
<1>ExchangePair. ASSUME NEW b \in Daemon, NEW r, NEW wi, NEW wo \in Seq(Msg), Told(b, r, wo),
                        NEW m, NEW y, Reads(wi, m, y), NEW t, ExchangeDone(b, t, m), t.ml # "ERROR"
                 PROVE  ExchangeTold(b, t, r, wi, wo, y)
  <2> USE <1>ExchangePair, Zenon
  <2>1. t.ml = "EXCHANGE" /\ (\A p \in Po : Heard(b.pif[p], t.pif[p], m, p)) /\ \E x : Sends(b, t, x) /\ Says(b, t, x)
    BY DEF ExchangeDone
  <2>2. PICK x : Sends(b, t, x) /\ Says(b, t, x)
    BY <2>1
  <2>3. x \in Seq(Msg) /\ t \in Daemon
    BY <2>2 DEF Sends
  <2>4. Told(t, r, wo \o x)
    BY <2>2, <2>3, SaysTold
  <2>5. Told(r, b, wi) => Told(r, t, y)
    BY <2>1, <1>ReadTold
  <2> QED
    BY <2>1, <2>2, <2>3, <2>4, <2>5 DEF ExchangeTold
<1>BegunPair. ASSUME NEW n, NEW s, NEW r, NEW wi, NEW wo \in Seq(Msg), Pair(n, s, r, wi, wo), NEW b, Begun(s, b)
              PROVE  Pair(n, b, r, wi, wo)
  <2> USE <1>BegunPair, Zenon
  <2>1. CASE s.ml # "INIT"
    <3>1. b \in Daemon /\ b.ml = s.ml /\ b.wait = s.wait /\ b.pif = s.pif /\ Says(s, b, <<>>)
      BY <2>1 DEF Begun
    <3> QED
      BY <3>1, LocalPair
  <2>2. CASE s.ml = "INIT"
    <3>1. b.ml = "STAGE1" /\ ~b.wait /\ b.pif = s.pif
      BY <2>2 DEF Begun
    <3>2. CASE n = Lo
      <4>1. InStep(s, r, wi, wo)
        BY <3>2 DEF Pair
      <4>2. Phase(s, r, wi, wo) => Phase(b, r, wi, wo) /\ r.ml # "EXCHANGE"
        BY <2>2, <3>1 DEF Phase
      <4>3. InStep(b, r, wi, wo)
        BY <3>1, <4>1, <4>2, <2>2 DEF InStep
      <4> QED
        BY <3>2, <4>3 DEF Pair
    <3>3. CASE n # Lo
      <4>1. InStep(r, s, wo, wi)
        BY <3>3 DEF Pair
      <4>2. Phase(r, s, wo, wi) => Phase(r, b, wo, wi) /\ r.ml \notin {"STAGE2", "EXCHANGE"}
        BY <2>2, <3>1 DEF Phase
      <4>3. InStep(r, b, wo, wi)
        BY <3>1, <4>1, <4>2, <2>2 DEF InStep
      <4> QED
        BY <3>3, <4>3 DEF Pair
    <3> QED
      BY <3>2, <3>3
  <2> QED
    BY <2>1, <2>2
\* a node that answers a request
<1>AnswerPair. ASSUME NEW b \in Daemon, NEW t, Answered(b, t)
               PROVE  \E x \in Seq(Msg) : Sends(b, t, x) /\ <<>> \o x = x /\ Len(x) \in 1 .. Len(x) /\ Answer(x, Len(x)) /\ \A r : Told(t, r, x)
  <2> USE <1>AnswerPair
  <2>1. PICK x : Sends(b, t, x) /\ Answer(x, Len(x)) /\ \A r : Told(t, r, x)
    BY Zenon DEF Answered
  <2>2. x \in Seq(Msg) /\ <<>> \o x = x /\ Len(x) \in 1 .. Len(x)
    BY <2>1, NothingCat, Zenon DEF Sends, Answer
  <2> QED
    BY <2>1, <2>2, Zenon
<1>AnswerRead. ASSUME NEW w, NEW k, Answer(w, k), NEW m, NEW y, Headed(w, m, y)
               PROVE  /\ k \in Nat /\ Len(w) \in Nat
                      /\ \/ k = 1 /\ m.type = "DONE"
                         \/ m.type \in {"CONF", "STATE"} /\ k - 1 \in 1 .. Len(y) /\ Answer(y, k - 1)
  <2> USE <1>AnswerRead
  <2>1. Len(y) \in Nat /\ Len(w) = Len(y) + 1 /\ w[1] = m /\ (\A i \in 1 .. Len(y) : y[i] = w[i + 1])
    BY Zenon DEF Headed
  <2>2. k \in 1 .. Len(w) /\ w[k].type = "DONE" /\ \A j \in 1 .. k - 1 : w[j].type \in {"CONF", "STATE"}
    BY Zenon DEF Answer
  <2>3. k \in Nat /\ Len(w) \in Nat
    BY <2>1, <2>2, SMTT(40)
  <2>4. CASE k = 1
    BY <2>1, <2>2, <2>3, <2>4, Zenon
  <2>5. CASE k # 1
    <3>1. k - 1 \in 1 .. Len(y) /\ 1 \in 1 .. k - 1 /\ (k - 1) + 1 = k
      BY <2>1, <2>2, <2>5, SMTT(40)
    <3>2. m.type \in {"CONF", "STATE"}
      BY <2>1, <2>2, <3>1, Zenon
    <3>3. y[k - 1].type = "DONE"
      BY <2>1, <2>2, <3>1, Zenon
    <3>4. ASSUME NEW j \in 1 .. (k - 1) - 1 PROVE y[j].type \in {"CONF", "STATE"}
      <4>1. j \in 1 .. Len(y) /\ j + 1 \in 1 .. k - 1
        BY <2>1, <2>2, <3>4, SMTT(40)
      <4>2. y[j] = w[j + 1]
        BY <2>1, <4>1, Zenon
      <4> QED
        BY <2>2, <4>1, <4>2, Zenon
    <3> QED
      BY <2>3, <3>1, <3>2, <3>3, <3>4, Zenon DEF Answer
  <2> QED
    BY <2>4, <2>5, Zenon
<1>RequestCat. ASSUME NEW w \in Seq(Msg), NEW x, x = <<[type |-> "REQ"]>>
               PROVE  Len(w \o x) = Len(w) + 1 /\ (w \o x)[Len(w) + 1].type = "REQ"
  <2> USE <1>RequestCat
  <2>1. x \in Seq(Msg) /\ Len(x) = 1 /\ x[1] = [type |-> "REQ"]
    <3>1. \A v \in Msg : <<v>> \in Seq(Msg) /\ Len(<<v>>) = 1 /\ <<v>>[1] = v
      BY SMTT(40)
    <3> QED
      BY <3>1, Messages, Zenon
  <2>2. Joined(w, x, w \o x)
    BY <2>1, Join, Zenon
  <2>3. Len(w \o x) = Len(w) + 1
    BY <2>1, <2>2, Zenon DEF Joined
  <2>4. 1 \in 1 .. Len(x)
    BY <2>1, SMTT(40)
  <2>5. (w \o x)[Len(w) + 1] = [type |-> "REQ"]
    BY <2>1, <2>2, <2>4, Zenon DEF Joined
  <2>6. (w \o x)[Len(w) + 1].type = "REQ"
    BY <2>5, SMTT(40)
  <2> QED
    BY <2>3, <2>6, Zenon
\* what follows an answer leaves it
<1>AnswerCat. ASSUME NEW w \in Seq(Msg), NEW x \in Seq(Msg), NEW k, Answer(w, k)
              PROVE  Answer(w \o x, k) /\ k \in 1 .. Len(w \o x)
  <2> USE <1>AnswerCat
  <2> DEFINE z == w \o x
  <2>1. Joined(w, x, z)
    BY Join, Zenon
  <2> HIDE DEF z
  <2>2. /\ Len(w) \in Nat /\ Len(x) \in Nat /\ Len(z) = Len(w) + Len(x)
        /\ \A i \in 1 .. Len(w) : z[i] = w[i]
    BY <2>1, Zenon DEF Joined
  <2>3. k \in 1 .. Len(w) /\ w[k].type = "DONE" /\ \A j \in 1 .. k - 1 : w[j].type \in {"CONF", "STATE"}
    BY Zenon DEF Answer
  <2>4. k \in 1 .. Len(z) /\ \A j \in 1 .. k - 1 : j \in 1 .. Len(w)
    BY <2>2, <2>3, SMTT(40)
  <2>5. \A j \in 1 .. k - 1 : z[j].type \in {"CONF", "STATE"}
    BY <2>2, <2>3, <2>4, Zenon
  <2> QED
    BY <2>2, <2>3, <2>4, <2>5, Zenon DEF Answer, z
\* reading a request that is alone
<1>ReadOne. ASSUME NEW w, NEW m, NEW y \in Seq(Msg), Headed(w, m, y), Len(w) = 1, w[1].type = "REQ"
            PROVE  m.type = "REQ" /\ y = <<>>
  <2> USE <1>ReadOne
  <2>1. m.type = "REQ" /\ Len(y) \in Nat /\ 1 = Len(y) + 1
    BY Zenon DEF Headed
  <2>2. Len(y) = 0
    BY <2>1, SMTT(40)
  <2> QED
    BY <2>1, <2>2, NothingCat, Zenon
\* the ACTIVE node in STAGE2 before the answer to its request, which it may still have to send
<1>AskLo. ASSUME NEW b \in Daemon, b.ml = "STAGE2", NEW h, NEW wo \in Seq(Msg), NEW m, NEW y, Reads(<<>>, m, y),
                 Told(b, h, wo),
                 \/ h.ml = "STAGE1" /\ h.wait /\ \E k \in 1 .. Len(wo) : Answer(wo, k) /\ Request(b, wo, k)
                 \/ h.ml = "STAGE2" /\ ~h.wait /\ Request(b, wo, 0),
                 NEW t, StageDone(Lo, b, t, m)
          PROVE  \E x : Sends(b, t, x) /\ InStep(t, h, y, wo \o x)
  <2> USE <1>AskLo
  <2>1. ~Answers(Lo, b) /\ h.ml # "EXCHANGE" /\ b.wait \in BOOLEAN
    BY DaemonFields, Zenon DEF Answers
  <2>2. m.type = "NONE" /\ y = <<>>
    <3>1. m = NoMsg /\ m.type = "NONE" /\ y = <<>>
      BY <1>ReadNothing, SMTT(40)
    <3> QED
      BY <3>1, Zenon
  <2>3. CASE b.wait
    <3> USE Zenon
    <3>1. Waited(b, t, m)
      BY <2>1, <2>2, <2>3 DEF StageDone
    <3>2. Sends(b, t, <<>>) /\ t \in Daemon /\ Says(b, t, <<>>) /\ t.ml = b.ml /\ t.wait = TRUE
      BY <2>2, <3>1 DEF Waited, Sends
    <3>3. Told(t, h, wo) /\ wo \o <<>> = wo
      BY <3>2, SilentTold, NothingCat
    <3>4. \A k : Request(b, wo, k) => Request(t, wo, k)
      BY <2>3, <3>2 DEF Request
    <3>5. Phase(t, h, y, wo)
      BY <2>2, <3>2, <3>4 DEF Phase
    <3>6. InStep(t, h, y, wo)
      BY <2>1, <3>3, <3>5 DEF InStep
    <3> QED
      BY <3>2, <3>3, <3>6
  <2>4. CASE ~b.wait
    <3> USE Zenon
    <3> DEFINE x == <<[type |-> "REQ"]>>
               z == wo \o x
    <3>1. Asked(b, t)
      BY <2>1, <2>4 DEF StageDone
    <3>2. Sends(b, t, x) /\ x \in Seq(Msg) /\ t \in Daemon /\ Says(b, t, x) /\ t.ml = b.ml /\ t.wait
      BY <3>1 DEF Asked, Sends
    <3>3. Told(t, h, z)
      BY <3>2, SaysTold
    <3>4. Len(z) = Len(wo) + 1 /\ z[Len(wo) + 1].type = "REQ"
      BY <1>RequestCat
    <3>5. \A k : Answer(wo, k) => Answer(z, k) /\ k \in 1 .. Len(z)
      BY <3>2, <1>AnswerCat
    <3> HIDE DEF x, z
    <3>6. \A k : Request(b, wo, k) => Request(t, z, k)
      BY <2>4, <3>2, <3>4 DEF Request
    <3>7. Phase(t, h, y, z)
      <4>1. CASE h.ml = "STAGE1" /\ h.wait /\ \E k \in 1 .. Len(wo) : Answer(wo, k) /\ Request(b, wo, k)
        <5>1. \E k \in 1 .. Len(z) : Answer(z, k) /\ Request(t, z, k)
          BY <3>5, <3>6, <4>1
        <5> QED
          BY <2>2, <3>2, <4>1, <5>1 DEF Phase
      <4>2. CASE h.ml = "STAGE2" /\ ~h.wait /\ Request(b, wo, 0)
        BY <2>2, <3>2, <3>6, <4>2 DEF Phase
      <4> QED
        BY <4>1, <4>2
    <3>8. InStep(t, h, y, z)
      BY <2>1, <3>3, <3>7 DEF InStep
    <3> QED
      BY <3>2, <3>8 DEF z
  <2> QED
    BY <2>1, <2>3, <2>4, Zenon
\* the ACTIVE node in STAGE2 while it reads the answer
<1>HearLo. ASSUME NEW b \in Daemon, b.ml = "STAGE2", b.wait, NEW h, h.ml = "EXCHANGE", NEW wl, NEW k, Answer(wl, k),
                  NEW m, NEW y, Reads(wl, m, y), Told(b, h, <<>>), Told(h, b, wl), NEW t, StageDone(Lo, b, t, m)
           PROVE  \E x : Sends(b, t, x) /\ InStep(t, h, y, <<>> \o x)
  <2> USE <1>HearLo, Zenon
  <2>1. ~Answers(Lo, b)
    BY DEF Answers
  <2>2. \/ m.type = "NONE" /\ Answer(y, k) /\ k \in 1 .. Len(y)
        \/ m.type = "DONE"
        \/ m.type \in {"CONF", "STATE"} /\ k - 1 \in 1 .. Len(y) /\ Answer(y, k - 1)
    <3>1. CASE m = NoMsg /\ y = wl
      <4>1. m.type = "NONE"
        BY <3>1 DEF NoMsg
      <4> QED
        BY <3>1, <4>1 DEF Answer
    <3>2. CASE Headed(wl, m, y)
      BY <3>2, <1>AnswerRead
    <3> QED
      BY <3>1, <3>2 DEF Reads
  <2>3. Waited(b, t, m)
    BY <2>1, <2>2 DEF StageDone
  <2>4. Sends(b, t, <<>>) /\ t \in Daemon /\ Says(b, t, <<>>) /\ <<>> \in Seq(Msg) /\ <<>> \o <<>> = <<>>
    BY <2>3, NothingCat DEF Waited, Sends
  <2>5. Told(t, h, <<>>)
    BY <2>4, SilentTold
  <2>6. Told(h, t, y)
    BY <2>3, <1>ReadTold DEF Waited
  <2>7. CASE m.type = "DONE"
    <3>1. t.ml = "EXCHANGE"
      BY <2>3, <2>7 DEF Waited
    <3>2. InStep(t, h, y, <<>>)
      BY <2>5, <2>6, <3>1 DEF InStep, Phase
    <3> QED
      BY <2>4, <3>2
  <2>8. CASE m.type # "DONE"
    <3>1. t.ml = "STAGE2" /\ t.wait = TRUE
      BY <2>3, <2>8 DEF Waited
    <3>2. \E j \in 1 .. Len(y) : Answer(y, j)
      BY <2>2, <2>8
    <3>3. Phase(t, h, y, <<>>)
      BY <3>1, <3>2 DEF Phase
    <3>4. InStep(t, h, y, <<>>)
      BY <2>5, <2>6, <3>3 DEF InStep
    <3> QED
      BY <2>4, <3>4
  <2> QED
    BY <2>7, <2>8
\* the ACTIVE node in STAGE1, which answers
<1>AnswerLo. ASSUME NEW b \in Daemon, b.ml = "STAGE1", ~b.wait, NEW h, NEW wl, NEW m, NEW y \in Seq(Msg), Reads(wl, m, y),
                    \/ (h.ml = "INIT" \/ (h.ml = "STAGE1" /\ ~h.wait)) /\ wl = <<>>
                    \/ h.ml = "STAGE1" /\ h.wait /\ Len(wl) = 1 /\ wl[1].type = "REQ",
                    NEW t, StageDone(Lo, b, t, m)
             PROVE  \E x : Sends(b, t, x) /\ InStep(t, h, y, <<>> \o x)
  <2> USE <1>AnswerLo, Zenon
  <2>1. Answers(Lo, b) /\ h.ml # "EXCHANGE"
    BY DEF Answers
  <2>2. CASE m = NoMsg /\ y = wl
    <3>1. m.type = "NONE"
      BY <2>2 DEF NoMsg
    <3>2. t = b
      BY <2>1, <3>1 DEF StageDone
    <3>3. Sends(b, t, <<>>) /\ <<>> \o <<>> = <<>>
      BY <3>2, NothingSent, NothingCat DEF Sends
    <3>4. Phase(t, h, y, <<>>)
      BY <2>2, <3>2 DEF Phase
    <3>5. InStep(t, h, y, <<>>)
      BY <2>1, <3>2, <3>4 DEF InStep
    <3> QED
      BY <3>3, <3>5
  <2>3. CASE m \in Msg /\ Headed(wl, m, y)
    <3>1. wl # <<>>
      <4> SUFFICES ASSUME wl = <<>> PROVE FALSE
        OBVIOUS
      <4>1. m.type = "NONE"
        BY <1>ReadNothing
      <4> QED
        BY <2>3, <4>1, MsgFields
    <3>2. m.type = "REQ" /\ y = <<>> /\ h.ml = "STAGE1" /\ h.wait
      BY <2>3, <3>1, <1>ReadOne
    <3>3. Answered(b, t)
      BY <2>1, <3>2 DEF StageDone
    <3>4. PICK x \in Seq(Msg) : /\ Sends(b, t, x) /\ <<>> \o x = x /\ Len(x) \in 1 .. Len(x) /\ Answer(x, Len(x))
                                /\ \A r : Told(t, r, x)
      BY <3>3, <1>AnswerPair
    <3>5. t.ml = "STAGE2" /\ ~t.wait
      BY <3>3 DEF Answered
    <3>6. Request(t, x, Len(x))
      BY <3>5 DEF Request
    <3>7. Phase(t, h, y, x)
      BY <3>2, <3>4, <3>5, <3>6 DEF Phase
    <3>8. InStep(t, h, y, x)
      BY <2>1, <3>4, <3>7 DEF InStep
    <3> QED
      BY <3>4, <3>8
  <2> QED
    BY <2>2, <2>3 DEF Reads
\* the ACTIVE node in all phases
<1>BodyLo. ASSUME NEW b \in Daemon, b.ml # "INIT", NEW h, NEW wl, NEW wo \in Seq(Msg), InStep(b, h, wl, wo),
                  NEW m, NEW y \in Seq(Msg), Reads(wl, m, y), NEW t, TurnDone(Lo, b, t, m)
           PROVE  t.ml = "ERROR" \/ h.ml = "ERROR" \/ \E x : Sends(b, t, x) /\ InStep(t, h, y, wo \o x)
  <2> USE <1>BodyLo, Zenon
  <2>1. CASE b.ml = "ERROR" \/ h.ml = "ERROR"
    BY <2>1 DEF TurnDone
  <2> SUFFICES ASSUME b.ml # "ERROR", h.ml # "ERROR", t.ml # "ERROR"
               PROVE  \E x : Sends(b, t, x) /\ InStep(t, h, y, wo \o x)
    BY <2>1
  <2>2. /\ Phase(b, h, wl, wo)
        /\ b.ml \in {"STAGE2", "EXCHANGE"} => Told(b, h, wo)
        /\ h.ml = "EXCHANGE" => Told(h, b, wl)
    BY DEF InStep
  <2>3. CASE /\ b.ml = "STAGE1" /\ ~b.wait /\ wo = <<>>
             /\ \/ (h.ml = "INIT" \/ (h.ml = "STAGE1" /\ ~h.wait)) /\ wl = <<>>
                \/ h.ml = "STAGE1" /\ h.wait /\ Len(wl) = 1 /\ wl[1].type = "REQ"
    <3>1. StageDone(Lo, b, t, m)
      BY <2>3 DEF TurnDone
    <3> QED
      BY <2>3, <3>1, <1>AnswerLo
  <2>4. CASE /\ b.ml = "STAGE2" /\ wl = <<>>
             /\ \/ h.ml = "STAGE1" /\ h.wait /\ \E k \in 1 .. Len(wo) : Answer(wo, k) /\ Request(b, wo, k)
                \/ h.ml = "STAGE2" /\ ~h.wait /\ Request(b, wo, 0)
    <3>1. StageDone(Lo, b, t, m) /\ Told(b, h, wo) /\ Reads(<<>>, m, y)
      BY <2>2, <2>4 DEF TurnDone
    <3> QED
      BY <2>4, <3>1, <1>AskLo
  <2>5. CASE /\ b.ml = "STAGE2" /\ b.wait /\ wo = <<>>
             /\ h.ml = "EXCHANGE" /\ \E k \in 1 .. Len(wl) : Answer(wl, k)
    <3>1. StageDone(Lo, b, t, m) /\ Told(b, h, <<>>) /\ Told(h, b, wl)
      BY <2>2, <2>5 DEF TurnDone
    <3>2. PICK k : Answer(wl, k)
      BY <2>5
    <3> QED
      BY <2>5, <3>1, <3>2, <1>HearLo
  <2>6. CASE b.ml = "EXCHANGE" /\ h.ml = "EXCHANGE"
    <3>1. ExchangeDone(b, t, m) /\ Told(b, h, wo) /\ Told(h, b, wl)
      BY <2>2, <2>6 DEF TurnDone
    <3>2. ExchangeTold(b, t, h, wl, wo, y)
      BY <3>1, <1>ExchangePair
    <3>3. t.ml = "EXCHANGE" /\ Told(h, t, y) /\ \E x \in Seq(Msg) : Sends(b, t, x) /\ Told(t, h, wo \o x)
      BY <3>1, <3>2 DEF ExchangeTold
    <3> QED
      BY <2>6, <3>3 DEF InStep, Phase
  <2> QED
    BY <2>2, <2>3, <2>4, <2>5, <2>6 DEF Phase
<1>RequestRead. ASSUME NEW l, NEW w, NEW k \in Nat, k > 0, Request(l, w, k), NEW m, NEW y, Headed(w, m, y)
                PROVE  Request(l, y, k - 1)
  <2> USE <1>RequestRead
  <2>1. Len(y) \in Nat /\ Len(w) = Len(y) + 1 /\ (\A i \in 1 .. Len(y) : y[i] = w[i + 1])
    BY Zenon DEF Headed
  <2>2. CASE l.wait
    <3>1. Len(w) = k + 1 /\ w[k + 1].type = "REQ"
      BY <2>2, Zenon DEF Request
    <3>2. Len(y) = (k - 1) + 1 /\ k \in 1 .. Len(y) /\ (k - 1) + 1 = k
      BY <2>1, <3>1, SMTT(40)
    <3>3. y[(k - 1) + 1].type = "REQ"
      BY <2>1, <3>1, <3>2, Zenon
    <3> QED
      BY <2>2, <3>2, <3>3, Zenon DEF Request
  <2>3. CASE ~l.wait
    <3>1. Len(w) = k
      BY <2>3, Zenon DEF Request
    <3>2. Len(y) = k - 1
      BY <2>1, <3>1, SMTT(40)
    <3> QED
      BY <2>3, <3>2, Zenon DEF Request
  <2> QED
    BY <2>2, <2>3, Zenon
\* the STANDBY node in STAGE1 before the answer to its request, which it may still have to send
<1>AskHi. ASSUME NEW b \in Daemon, b.ml = "STAGE1", NEW l, l.ml = "INIT" \/ (l.ml = "STAGE1" /\ ~l.wait), NEW wo \in Seq(Msg),
                 (~b.wait /\ wo = <<>>) \/ (b.wait /\ Len(wo) = 1 /\ wo[1].type = "REQ"),
                 NEW m, NEW y, Reads(<<>>, m, y), NEW t, StageDone(Hi, b, t, m)
          PROVE  \E x : Sends(b, t, x) /\ InStep(l, t, wo \o x, y)
  <2> USE <1>AskHi
  <2>1. ~Answers(Hi, b)
    BY LinkAssumption, Zenon DEF Answers
  <2>2. m.type = "NONE" /\ y = <<>>
    <3>1. m = NoMsg /\ m.type = "NONE" /\ y = <<>>
      BY <1>ReadNothing, SMTT(40)
    <3> QED
      BY <3>1, Zenon
  <2>3. CASE b.wait /\ Len(wo) = 1 /\ wo[1].type = "REQ"
    <3> USE Zenon
    <3>1. Waited(b, t, m)
      BY <2>1, <2>2, <2>3 DEF StageDone
    <3>2. Sends(b, t, <<>>) /\ t.ml = "STAGE1" /\ t.wait = TRUE /\ wo \o <<>> = wo
      BY <2>2, <3>1, NothingCat DEF Waited
    <3>3. Phase(l, t, wo, y)
      BY <2>2, <2>3, <3>2 DEF Phase
    <3>4. InStep(l, t, wo, y)
      BY <3>2, <3>3 DEF InStep
    <3> QED
      BY <3>2, <3>4
  <2>4. CASE ~b.wait /\ wo = <<>>
    <3> DEFINE x == <<[type |-> "REQ"]>>
               z == wo \o x
    <3>1. Asked(b, t)
      BY <2>1, <2>4, Zenon DEF StageDone
    <3>2. Sends(b, t, x) /\ t.ml = "STAGE1" /\ t.wait
      BY <3>1, Zenon DEF Asked
    <3>3. Len(z) = Len(wo) + 1 /\ z[Len(wo) + 1].type = "REQ"
      BY <1>RequestCat, Zenon
    <3> HIDE DEF x, z
    <3>4. Len(wo) + 1 = 1
      <4>1. Len(wo) = 0
        BY <2>4, NothingCat, Zenon
      <4> QED
        BY <4>1, SMTT(40)
    <3>5. Len(z) = 1 /\ z[1].type = "REQ"
      BY <3>3, <3>4, Zenon
    <3>6. Phase(l, t, z, y)
      BY <2>2, <3>2, <3>5, Zenon DEF Phase
    <3>7. InStep(l, t, z, y)
      BY <3>2, <3>6, Zenon DEF InStep
    <3> QED
      BY <3>2, <3>7, Zenon DEF z
  <2> QED
    BY <2>3, <2>4, Zenon
\* the STANDBY node in STAGE1 while it reads the answer
<1>HearHi. ASSUME NEW b \in Daemon, b.ml = "STAGE1", b.wait, NEW l, l.ml = "STAGE2", NEW wh, NEW k, Answer(wh, k), Request(l, wh, k),
                  NEW m, NEW y, Reads(wh, m, y), Told(l, b, wh), NEW t, StageDone(Hi, b, t, m)
           PROVE  \E x : Sends(b, t, x) /\ InStep(l, t, <<>> \o x, y)
  <2> USE <1>HearHi
  <2>1. ~Answers(Hi, b)
    BY LinkAssumption, Zenon DEF Answers
  <2>2. \/ m.type = "NONE" /\ Answer(y, k) /\ k \in 1 .. Len(y) /\ Request(l, y, k)
        \/ m.type = "DONE" /\ Request(l, y, 0)
        \/ m.type \in {"CONF", "STATE"} /\ k - 1 \in 1 .. Len(y) /\ Answer(y, k - 1) /\ Request(l, y, k - 1)
    <3>1. CASE m = NoMsg /\ y = wh
      <4>1. m.type = "NONE"
        BY <3>1, Zenon DEF NoMsg
      <4> QED
        BY <3>1, <4>1, Zenon DEF Answer
    <3>2. CASE Headed(wh, m, y)
      <4>1. /\ k \in Nat /\ Len(wh) \in Nat
            /\ \/ k = 1 /\ m.type = "DONE"
               \/ m.type \in {"CONF", "STATE"} /\ k - 1 \in 1 .. Len(y) /\ Answer(y, k - 1)
        BY <3>2, <1>AnswerRead, Zenon
      <4>2. k > 0 /\ (k = 1 => k - 1 = 0)
        <5>1. k \in 1 .. Len(wh)
          BY Zenon DEF Answer
        <5> QED
          BY <4>1, <5>1, SMTT(40)
      <4>3. Request(l, y, k - 1)
        BY <3>2, <4>1, <4>2, <1>RequestRead, Zenon
      <4> QED
        BY <4>1, <4>2, <4>3, Zenon
    <3> QED
      BY <3>1, <3>2, Zenon DEF Reads
  <2>3. Waited(b, t, m)
    BY <2>1, <2>2, Zenon DEF StageDone
  <2>4. Sends(b, t, <<>>) /\ <<>> \o <<>> = <<>>
    BY <2>3, NothingCat, Zenon DEF Waited
  <2>5. Told(l, t, y)
    BY <2>3, <1>ReadTold, Zenon DEF Waited
  <2>6. CASE m.type = "DONE"
    <3> USE Zenon
    <3>1. t.ml = "STAGE2" /\ ~t.wait /\ Request(l, y, 0)
      BY <2>2, <2>3, <2>6 DEF Waited
    <3>2. Phase(l, t, <<>>, y)
      BY <3>1 DEF Phase
    <3>3. InStep(l, t, <<>>, y)
      BY <2>5, <3>1, <3>2 DEF InStep
    <3> QED
      BY <2>4, <3>3
  <2>7. CASE m.type # "DONE"
    <3> USE Zenon
    <3>1. t.ml = "STAGE1" /\ t.wait = TRUE
      BY <2>3, <2>7 DEF Waited
    <3>2. \E j \in 1 .. Len(y) : Answer(y, j) /\ Request(l, y, j)
      BY <2>2, <2>7
    <3>3. Phase(l, t, <<>>, y)
      BY <3>1, <3>2 DEF Phase
    <3>4. InStep(l, t, <<>>, y)
      BY <2>5, <3>1, <3>3 DEF InStep
    <3> QED
      BY <2>4, <3>4
  <2> QED
    BY <2>6, <2>7, Zenon
\* the STANDBY node in STAGE2, which answers
<1>AnswerHi. ASSUME NEW b \in Daemon, b.ml = "STAGE2", ~b.wait, NEW l, l.ml = "STAGE2", NEW wh \in Seq(Msg), Request(l, wh, 0),
                    NEW m, NEW y \in Seq(Msg), Reads(wh, m, y), Told(l, b, wh), NEW t, StageDone(Hi, b, t, m)
             PROVE  \E x : Sends(b, t, x) /\ InStep(l, t, <<>> \o x, y)
  <2> USE <1>AnswerHi
  <2>1. Answers(Hi, b)
    BY LinkAssumption, Zenon DEF Answers
  <2>2. CASE m = NoMsg /\ y = wh
    <3> USE Zenon
    <3>1. m.type = "NONE"
      BY <2>2 DEF NoMsg
    <3>2. t = b
      BY <2>1, <3>1 DEF StageDone
    <3>3. Sends(b, t, <<>>) /\ <<>> \o <<>> = <<>>
      BY <3>2, NothingSent, NothingCat DEF Sends
    <3>4. Phase(l, t, <<>>, y)
      BY <2>2, <3>2 DEF Phase
    <3>5. InStep(l, t, <<>>, y)
      BY <2>2, <3>2, <3>4 DEF InStep
    <3> QED
      BY <3>3, <3>5
  <2>3. CASE m \in Msg /\ Headed(wh, m, y)
    <3>1. l.wait /\ Len(wh) = 1 /\ wh[1].type = "REQ"
      <4>1. Len(wh) # 0
        <5>1. Len(y) \in Nat /\ Len(wh) = Len(y) + 1
          BY <2>3, Zenon DEF Headed
        <5> QED
          BY <5>1, SMTT(40)
      <4>2. 0 + 1 = 1
        BY SMTT(40)
      <4> QED
        BY <4>1, <4>2, Zenon DEF Request
    <3>2. m.type = "REQ" /\ y = <<>>
      BY <2>3, <3>1, <1>ReadOne, Zenon
    <3>3. Answered(b, t)
      BY <2>1, <3>2, Zenon DEF StageDone
    <3>4. PICK x \in Seq(Msg) : /\ Sends(b, t, x) /\ <<>> \o x = x /\ Len(x) \in 1 .. Len(x) /\ Answer(x, Len(x))
                                /\ \A r : Told(t, r, x)
      BY <3>3, <1>AnswerPair, Zenon
    <3>5. t.ml = "EXCHANGE" /\ t.pif = b.pif
      BY <3>3, Zenon DEF Answered
    <3>6. Told(l, t, y)
      <4>1. \A p \in Po : Heard(b.pif[p], t.pif[p], m, p)
        BY <3>2, <3>5, Zenon DEF Heard, About
      <4> QED
        BY <4>1, <1>ReadTold, Zenon
    <3>7. Phase(l, t, x, y)
      BY <3>1, <3>2, <3>4, <3>5, Zenon DEF Phase
    <3>8. InStep(l, t, x, y)
      BY <3>4, <3>6, <3>7, Zenon DEF InStep
    <3> QED
      BY <3>4, <3>8, Zenon
  <2> QED
    BY <2>2, <2>3, Zenon DEF Reads
\* the STANDBY node in all phases
<1>BodyHi. ASSUME NEW b \in Daemon, b.ml # "INIT", NEW l, NEW wh \in Seq(Msg), NEW wo \in Seq(Msg), InStep(l, b, wo, wh),
                  NEW m, NEW y \in Seq(Msg), Reads(wh, m, y), NEW t, TurnDone(Hi, b, t, m)
           PROVE  t.ml = "ERROR" \/ l.ml = "ERROR" \/ \E x : Sends(b, t, x) /\ InStep(l, t, wo \o x, y)
  <2> USE <1>BodyHi
  <2>1. CASE b.ml = "ERROR" \/ l.ml = "ERROR"
    BY <2>1, Zenon DEF TurnDone
  <2> SUFFICES ASSUME b.ml # "ERROR", l.ml # "ERROR", t.ml # "ERROR"
               PROVE  \E x : Sends(b, t, x) /\ InStep(l, t, wo \o x, y)
    BY <2>1, Zenon
  <2>2. /\ Phase(l, b, wo, wh)
        /\ l.ml \in {"STAGE2", "EXCHANGE"} => Told(l, b, wh)
        /\ b.ml = "EXCHANGE" => Told(b, l, wo)
    BY Zenon DEF InStep
  <2>3. CASE /\ l.ml = "INIT" \/ (l.ml = "STAGE1" /\ ~l.wait)
             /\ wh = <<>>
             /\ \/ (b.ml = "INIT" \/ (b.ml = "STAGE1" /\ ~b.wait)) /\ wo = <<>>
                \/ b.ml = "STAGE1" /\ b.wait /\ Len(wo) = 1 /\ wo[1].type = "REQ"
    <3>1. StageDone(Hi, b, t, m) /\ b.ml = "STAGE1" /\ Reads(<<>>, m, y)
          /\ ((~b.wait /\ wo = <<>>) \/ (b.wait /\ Len(wo) = 1 /\ wo[1].type = "REQ"))
      BY <2>3, Zenon DEF TurnDone
    <3> QED
      BY <2>3, <3>1, <1>AskHi, Zenon
  <2>4. CASE /\ l.ml = "STAGE2" /\ wo = <<>> /\ b.ml = "STAGE1" /\ b.wait
             /\ \E k \in 1 .. Len(wh) : Answer(wh, k) /\ Request(l, wh, k)
    <3>1. StageDone(Hi, b, t, m) /\ Told(l, b, wh)
      BY <2>2, <2>4, Zenon DEF TurnDone
    <3>2. PICK k : Answer(wh, k) /\ Request(l, wh, k)
      BY <2>4, Zenon
    <3> QED
      BY <2>4, <3>1, <3>2, <1>HearHi, Zenon
  <2>5. CASE l.ml = "STAGE2" /\ wo = <<>> /\ b.ml = "STAGE2" /\ ~b.wait /\ Request(l, wh, 0)
    <3>1. StageDone(Hi, b, t, m) /\ Told(l, b, wh)
      BY <2>2, <2>5, Zenon DEF TurnDone
    <3> QED
      BY <2>5, <3>1, <1>AnswerHi, Zenon
  <2>6. CASE /\ l.ml = "STAGE2" /\ l.wait /\ wh = <<>>
             /\ b.ml = "EXCHANGE" /\ \E k \in 1 .. Len(wo) : Answer(wo, k)
    <3>1. ExchangeDone(b, t, m) /\ Told(b, l, wo) /\ Told(l, b, wh)
      BY <2>2, <2>6, Zenon DEF TurnDone
    <3>2. ExchangeTold(b, t, l, wh, wo, y)
      BY <3>1, <1>ExchangePair, Zenon
    <3>3. t.ml = "EXCHANGE" /\ Told(l, t, y) /\ \E x \in Seq(Msg) : Sends(b, t, x) /\ Told(t, l, wo \o x)
      BY <3>1, <3>2, Zenon DEF ExchangeTold
    <3>4. PICK x \in Seq(Msg) : Sends(b, t, x) /\ Told(t, l, wo \o x)
      BY <3>3, Zenon
    <3>5. y = <<>>
      <4>1. Reads(<<>>, m, y)
        BY <2>6, Zenon
      <4> QED
        BY <4>1, <1>ReadNothing, SMTT(40)
    <3>6. \E k \in 1 .. Len(wo \o x) : Answer(wo \o x, k)
      BY <2>6, <1>AnswerCat, Zenon
    <3>7. Phase(l, t, wo \o x, y)
      BY <2>6, <3>3, <3>5, <3>6, Zenon DEF Phase
    <3>8. InStep(l, t, wo \o x, y)
      BY <3>3, <3>4, <3>7, Zenon DEF InStep
    <3> QED
      BY <3>4, <3>8, Zenon
  <2>7. CASE l.ml = "EXCHANGE" /\ b.ml = "EXCHANGE"
    <3> USE Zenon
    <3>1. ExchangeDone(b, t, m) /\ Told(b, l, wo) /\ Told(l, b, wh)
      BY <2>2, <2>7 DEF TurnDone
    <3>2. ExchangeTold(b, t, l, wh, wo, y)
      BY <3>1, <1>ExchangePair
    <3>3. t.ml = "EXCHANGE" /\ Told(l, t, y) /\ \E x \in Seq(Msg) : Sends(b, t, x) /\ Told(t, l, wo \o x)
      BY <3>1, <3>2 DEF ExchangeTold
    <3> QED
      BY <2>7, <3>3 DEF InStep, Phase
  <2> QED
    BY <2>2, <2>3, <2>4, <2>5, <2>6, <2>7, Zenon DEF Phase
<1>Main. ASSUME NEW n \in Node, NEW s \in Daemon, Kept(s), StopKept(s), NEW r, NEW wi \in Seq(Msg), NEW w0 \in Seq(Msg),
                Pair(n, s, r, wi, w0 \o s.out), NEW m, NEW y \in Seq(Msg), Reads(wi, m, y),
                "warm" \notin Reboot => m.type # "WARM", NEW t \in Turn(n, s, m)
         PROVE  Pair(n, t, r, y, w0 \o t.out)
  <2> USE <1>Main
  <2> DEFINE wo == w0 \o s.out
  <2>1. m \in Msg \cup {NoMsg}
    BY Zenon DEF Reads
  <2>2. PICK b \in Daemon : Begun(s, b) /\ b.ml # "INIT" /\ TurnDone(n, b, t, m)
    BY <2>1, TurnKept, Zenon
  <2>3. s.out \in Seq(Msg) /\ wo \in Seq(Msg) /\ b.out = s.out
    <3>1. s.out \in Seq(Msg) /\ b.out = s.out
      BY <2>2, DaemonFields, Zenon DEF Begun
    <3> QED
      BY <3>1, ConcatType, Zenon
  <2>4. \A x : Sends(b, t, x) => wo \o x = w0 \o t.out
    <3> SUFFICES ASSUME NEW x, Sends(b, t, x) PROVE wo \o x = w0 \o t.out
      BY Zenon
    <3>1. x \in Seq(Msg) /\ t.out = s.out \o x
      BY <2>3, Zenon DEF Sends
    <3>2. \A d, e, f \in Seq(Msg) : (d \o e) \o f = d \o (e \o f)
      BY SMTT(40)
    <3>3. (w0 \o s.out) \o x = w0 \o (s.out \o x)
      BY <2>3, <3>1, <3>2, ZenonT(40)
    <3> QED
      BY <3>1, <3>3, Zenon
  <2>5. Pair(n, s, r, wi, wo)
    BY Zenon
  <2> HIDE DEF wo
  <2>6. Pair(n, b, r, wi, wo)
    BY <2>2, <2>3, <2>5, <1>BegunPair, Zenon
  <2>7. CASE n = Lo
    <3> USE Zenon
    <3>1. InStep(b, r, wi, wo)
      BY <2>6, <2>7 DEF Pair
    <3>2. t.ml = "ERROR" \/ r.ml = "ERROR" \/ \E x : Sends(b, t, x) /\ InStep(t, r, y, wo \o x)
      BY <2>2, <2>3, <2>7, <3>1, <1>BodyLo
    <3>3. InStep(t, r, y, w0 \o t.out)
      <4>1. CASE t.ml = "ERROR" \/ r.ml = "ERROR"
        BY <4>1 DEF InStep
      <4>2. CASE \E x : Sends(b, t, x) /\ InStep(t, r, y, wo \o x)
        <5>1. PICK x : Sends(b, t, x) /\ InStep(t, r, y, wo \o x)
          BY <4>2
        <5>2. wo \o x = w0 \o t.out
          BY <2>4, <5>1
        <5> QED
          BY <5>1, <5>2
      <4> QED
        BY <3>2, <4>1, <4>2
    <3> QED
      BY <2>7, <3>3 DEF Pair
  <2>8. CASE n # Lo
    <3> USE Zenon
    <3>0. n = Hi
      BY <2>8 DEF Node
    <3>1. InStep(r, b, wo, wi)
      BY <2>6, <2>8 DEF Pair
    <3>2. t.ml = "ERROR" \/ r.ml = "ERROR" \/ \E x : Sends(b, t, x) /\ InStep(r, t, wo \o x, y)
      BY <2>2, <2>3, <3>0, <3>1, <1>BodyHi
    <3>3. InStep(r, t, w0 \o t.out, y)
      <4>1. CASE t.ml = "ERROR" \/ r.ml = "ERROR"
        BY <4>1 DEF InStep
      <4>2. CASE \E x : Sends(b, t, x) /\ InStep(r, t, wo \o x, y)
        <5>1. PICK x : Sends(b, t, x) /\ InStep(r, t, wo \o x, y)
          BY <4>2
        <5>2. wo \o x = w0 \o t.out
          BY <2>4, <5>1
        <5> QED
          BY <5>1, <5>2
      <4> QED
        BY <3>2, <4>1, <4>2
    <3> QED
      BY <2>8, <3>3 DEF Pair
  <2> QED
    BY <2>7, <2>8, Zenon
<1> QED
  BY <1>Main, SMTT(40)

-----------------------------------------------------------------------------
(* Events of one port channel.                                             *)

\* t is s after an event of port channel p that keeps what the invariant says of it
IfChanged(s, t, p) ==
    LET l == s.lif[p]  k == t.lif[p]  q == s.pif[p]
    IN  /\ t \in Daemon /\ t.ml = s.ml /\ t.wait = s.wait /\ t.conn = s.conn /\ t.warm = s.warm /\ t.pif = s.pif /\ t.out = s.out
        /\ \A r \in Po : r # p => /\ t.lif[r] = s.lif[r] /\ (r \in t.bindList <=> r \in s.bindList)
                                  /\ (r \in t.live <=> r \in s.live) /\ (r \in t.gone <=> r \in s.gone)
        /\ IfKept(k, q, p \in t.bindList)
        /\ Exchanging(s) /\ k.bound /\ k.up /\ q.known => k.iso = q.poActive
        /\ s.ml \in {"INIT", "STAGE1", "STAGE2"} => p \notin t.live /\ p \notin t.gone
        /\ s.ml = "EXCHANGE" /\ k.bound /\ ~k.cfgSync => p \notin t.live /\ p \notin t.gone
        /\ "detach" \notin Config /\ k.here /\ (k.bound => k.cfgSync) => k.changed
        /\ "warm" \notin Reboot /\ ~CanReattach =>
             /\ k.bound /\ k.disable => s.ml \in {"EXCHANGE", "ERROR"}
             /\ "detach" \notin Config /\ k.disable => k.bound
        /\ k.bound /\ ~k.cfgSync => l.bound /\ ~l.cfgSync
        /\ "detach" \notin Config /\ k.bound /\ ~k.cfgSync /\ ~k.changed => ~l.changed /\ k.up = l.up

\* and what that gives
LocalStep(s, t) ==
    /\ t \in Daemon /\ t.ml = s.ml /\ t.wait = s.wait /\ t.pif = s.pif /\ t.out = s.out
    /\ Kept(t) /\ StopKept(t) /\ Says(s, t, <<>>)

\* a change of one interface, with its lists, keeps the invariant of the daemon
LEMMA IfChangedStep ==
  ASSUME NEW s \in Daemon, Kept(s), StopKept(s), NEW p \in Po, NEW t, IfChanged(s, t, p)
  PROVE  LocalStep(s, t)
<1>1. /\ t \in Daemon /\ t.ml = s.ml /\ t.wait = s.wait /\ t.conn = s.conn /\ t.warm = s.warm /\ t.pif = s.pif /\ t.out = s.out
      /\ \A r \in Po : r # p => /\ t.lif[r] = s.lif[r] /\ (r \in t.bindList <=> r \in s.bindList)
                                /\ (r \in t.live <=> r \in s.live) /\ (r \in t.gone <=> r \in s.gone)
  BY Zenon DEF IfChanged
<1>2. ASSUME NEW r \in Po PROVE IfKept(t.lif[r], t.pif[r], r \in t.bindList)
  <2>1. CASE r = p
    BY <1>1, <2>1, Zenon DEF IfChanged
  <2>2. CASE r # p
    BY <1>1, <2>2, Zenon DEF Kept, IfKept
  <2> QED
    BY <2>1, <2>2, Zenon
<1>3. IsoKept(t)
  <2> USE Zenon
  <2> SUFFICES ASSUME Exchanging(t), t.conn, NEW r \in Po, t.lif[r].bound, t.lif[r].up, t.pif[r].known
               PROVE  t.lif[r].iso = t.pif[r].poActive
    BY DEF IsoKept
  <2>1. Exchanging(s) /\ s.conn
    BY <1>1 DEF Exchanging
  <2>2. CASE r = p
    BY <1>1, <2>1, <2>2 DEF IfChanged
  <2>3. CASE r # p
    BY <1>1, <2>1, <2>3 DEF Kept, IsoKept
  <2> QED
    BY <2>2, <2>3
<1>4. PurgeKept(t)
  <2> USE Zenon
  <2>1. ASSUME s.ml \in {"INIT", "STAGE1", "STAGE2"} PROVE t.live = {} /\ t.gone = {}
    <3>1. s.live = {} /\ s.gone = {}
      BY <2>1 DEF Kept, PurgeKept
    <3>2. \A r \in Po : r \notin t.live /\ r \notin t.gone
      BY <1>1, <2>1, <3>1 DEF IfChanged
    <3>3. t.live \subseteq Po /\ t.gone \subseteq Po
      BY <1>1, DaemonFields
    <3> QED
      BY <3>2, <3>3
  <2>2. ASSUME s.ml = "EXCHANGE", NEW r \in Po, t.lif[r].bound, ~t.lif[r].cfgSync PROVE r \notin t.live /\ r \notin t.gone
    <3>1. CASE r = p
      BY <2>2, <3>1 DEF IfChanged
    <3>2. CASE r # p
      BY <1>1, <2>2, <3>2 DEF Kept, PurgeKept
    <3> QED
      BY <3>1, <3>2
  <2> QED
    BY <1>1, <2>1, <2>2 DEF PurgeKept
<1>5. ChangeKept(t)
  <2> USE Zenon
  <2> SUFFICES ASSUME "detach" \notin Config, NEW r \in Po, t.lif[r].here, t.lif[r].bound => t.lif[r].cfgSync
               PROVE  t.lif[r].changed
    BY DEF ChangeKept
  <2>1. CASE r = p
    BY <2>1 DEF IfChanged
  <2>2. CASE r # p
    BY <1>1, <2>2 DEF Kept, ChangeKept
  <2> QED
    BY <2>1, <2>2
<1>6. StopKept(t)
  <2> USE Zenon
  <2> SUFFICES ASSUME "warm" \notin Reboot, ~CanReattach
               PROVE  ~t.warm /\ \A r \in Po : /\ t.lif[r].bound /\ t.lif[r].disable => t.ml \in {"EXCHANGE", "ERROR"}
                                               /\ "detach" \notin Config /\ t.lif[r].disable => t.lif[r].bound
    BY DEF StopKept
  <2>1. ~t.warm
    BY <1>1 DEF StopKept
  <2>2. ASSUME NEW r \in Po PROVE /\ t.lif[r].bound /\ t.lif[r].disable => t.ml \in {"EXCHANGE", "ERROR"}
                                  /\ "detach" \notin Config /\ t.lif[r].disable => t.lif[r].bound
    <3>1. CASE r = p
      BY <1>1, <3>1 DEF IfChanged
    <3>2. CASE r # p
      BY <1>1, <3>2 DEF StopKept
    <3> QED
      BY <3>1, <3>2
  <2> QED
    BY <2>1, <2>2
<1>7. Says(s, t, <<>>)
  <2>1. \A i \in 1 .. Len(<<>>) : <<>>[i].type \notin {"CONF", "PURGE", "STATE"}
    BY SMTT(40)
  <2>2. ASSUME NEW r \in Po
        PROVE  /\ t.lif[r].bound /\ ~t.lif[r].cfgSync => s.lif[r].bound /\ ~s.lif[r].cfgSync
               /\ "detach" \notin Config /\ t.lif[r].bound /\ ~t.lif[r].cfgSync /\ ~t.lif[r].changed =>
                    ~s.lif[r].changed /\ t.lif[r].up = s.lif[r].up
    <3>1. CASE r = p
      BY <3>1, Zenon DEF IfChanged
    <3>2. CASE r # p
      BY <1>1, <3>2, Zenon
    <3> QED
      BY <3>1, <3>2, Zenon
  <2> QED
    BY <1>1, <2>1, <2>2, SilentSays, Zenon
<1> QED
  BY <1>1, <1>2, <1>3, <1>4, <1>5, <1>6, <1>7, Zenon DEF LocalStep, Kept

\* t is s with another entry for p and other lists
Replaced(s, t, p, k, B, V, G) ==
    /\ t \in Daemon /\ t.ml = s.ml /\ t.wait = s.wait /\ t.conn = s.conn /\ t.warm = s.warm /\ t.pif = s.pif /\ t.out = s.out
    /\ t.lif[p] = k /\ (\A r \in Po : r # p => t.lif[r] = s.lif[r])
    /\ t.bindList = B /\ t.live = V /\ t.gone = G

\* the fields of a created and of a destroyed interface
LEMMA NewIf ==
  /\ \A up \in BOOLEAN : /\ NewLocalIf(up) \in LocalIf /\ NewLocalIf(up).here = TRUE /\ NewLocalIf(up).up = up
                         /\ NewLocalIf(up).bound = FALSE /\ NewLocalIf(up).poActive = up /\ NewLocalIf(up).changed = TRUE
                         /\ NewLocalIf(up).cfgSync = FALSE /\ NewLocalIf(up).disable = FALSE
  /\ NoLocalIf \in LocalIf /\ NoLocalIf.here = FALSE /\ NoLocalIf.up = FALSE /\ NoLocalIf.poActive = FALSE
  /\ NoLocalIf.bound = FALSE /\ NoLocalIf.disable = FALSE
<1> USE Zenon
<1>1. \A up \in BOOLEAN : /\ NewLocalIf(up) \in LocalIf /\ NewLocalIf(up).here = TRUE /\ NewLocalIf(up).up = up
                          /\ NewLocalIf(up).bound = FALSE /\ NewLocalIf(up).poActive = up /\ NewLocalIf(up).changed = TRUE
                          /\ NewLocalIf(up).cfgSync = FALSE /\ NewLocalIf(up).disable = FALSE
  BY DEF NewLocalIf, LocalIf
<1> DEFINE a == NewLocalIf(FALSE)
<1>2. /\ a \in LocalIf /\ a.up = FALSE /\ a.poActive = FALSE /\ a.bound = FALSE /\ a.disable = FALSE
      /\ NoLocalIf = [a EXCEPT !.here = FALSE, !.changed = FALSE]
  BY <1>1 DEF NoLocalIf
<1> HIDE DEF a
<1>3. /\ NoLocalIf \in LocalIf /\ NoLocalIf.here = FALSE /\ NoLocalIf.up = FALSE /\ NoLocalIf.poActive = FALSE
      /\ NoLocalIf.bound = FALSE /\ NoLocalIf.disable = FALSE
  BY <1>2 DEF LocalIf
<1> QED
  BY <1>1, <1>3

\* a change of the link state
LinkChanged(s, p) ==
    LET l == [s.lif[p] EXCEPT !.up = ~@]
    IN  [s EXCEPT !.lif[p] = IF l.bound THEN PortChannelState(Exchanging(s), l, s.pif[p], l.up)
                                        ELSE [l EXCEPT !.poActive = l.up]]

\* iccp_cli_attach_mclag_domain_to_port_channel
Attached(s, p) ==
    [s EXCEPT !.bindList = @ \cup {p}, !.live = @ \ {p},
              !.lif[p] = IF @.here THEN BindLocalIf(Exchanging(s), @, s.pif[p]) ELSE @]

\* iccp_cli_detach_mclag_domain_to_port_channel
Detached(s, p) ==
    [s EXCEPT !.bindList = @ \ {p}, !.live = IF Exchanging(s) THEN @ \cup {p} ELSE @,
              !.lif[p] = [@ EXCEPT !.bound = FALSE, !.iso = ~Exchanging(s) /\ s.lif[p].iso]]

\* RTM_NEWLINK for an unknown port channel
Created(s, p, up) ==
    [s EXCEPT !.lif[p] = IF p \in s.bindList THEN BindLocalIf(Exchanging(s), NewLocalIf(up), s.pif[p])
                                             ELSE NewLocalIf(up)]

\* local_if_destroy
Destroyed(s, p) ==
    [s EXCEPT !.live = @ \ {p},
              !.gone = IF (s.lif[p].bound /\ Exchanging(s)) \/ p \in s.live THEN @ \cup {p} ELSE @,
              !.lif[p] = NoLocalIf]

-----------------------------------------------------------------------------
(* The end of a session and of a daemon.                                   *)

\* a daemon without a session that sends nothing
Closed(t) == t \in Daemon /\ t.ml = "INIT" /\ Kept(t) /\ StopKept(t)

\* a daemon without a session satisfies the invariant
LEMMA ClosedDaemon ==
  ASSUME NEW t \in Daemon, t.ml = "INIT", ~t.warm, t.live = {}, t.gone = {}, \A p \in Po : t.pif[p] = NoPif,
         \A p \in Po : /\ t.lif[p].poActive = t.lif[p].up
                       /\ t.lif[p].bound => t.lif[p].here /\ p \in t.bindList
                       /\ "detach" \notin Config /\ t.lif[p].here /\ (t.lif[p].bound => t.lif[p].cfgSync) => t.lif[p].changed
                       /\ "warm" \notin Reboot /\ ~CanReattach =>
                            /\ ~(t.lif[p].bound /\ t.lif[p].disable)
                            /\ "detach" \notin Config /\ t.lif[p].disable => t.lif[p].bound
  PROVE  Closed(t)
<1> USE Zenon
<1>1. \A p \in Po : IfKept(t.lif[p], t.pif[p], p \in t.bindList)
  BY IfFields DEF IfKept
<1>2. IsoKept(t) /\ PurgeKept(t)
  BY DEF IsoKept, PurgeKept, Exchanging
<1>3. ChangeKept(t)
  BY DEF ChangeKept
<1>4. StopKept(t)
  BY DEF StopKept
<1> QED
  BY <1>1, <1>2, <1>3, <1>4 DEF Closed, Kept

\* c is a daemon after mlacp_init
Cleaned(bind, lif, c) ==
    /\ c \in Daemon /\ c.ml = "INIT" /\ c.warm = FALSE /\ c.bindList = bind /\ c.lif = lif /\ c.live = {} /\ c.gone = {}
    /\ c.out = <<>> /\ \A p \in Po : c.pif[p] = NoPif

\* mlacp_init
LEMMA CleanFields ==
  ASSUME NEW bind \in SUBSET Po, NEW lif \in [Po -> LocalIf]
  PROVE  Cleaned(bind, lif, Clean(bind, lif))
<1> USE Zenon
<1> DEFINE c == Clean(bind, lif)
           pif == [p \in Po |-> NoPif]
           none == {}
           empty == <<>>
<1>1. /\ pif \in [Po -> PeerIf] /\ (\A p \in Po : pif[p] = NoPif) /\ "INIT" \in MlacpState
      /\ empty \in Seq(Msg) /\ none \in SUBSET Po
  BY IfFields, NothingCat DEF MlacpState
<1>2. c = [ml |-> "INIT", wait |-> FALSE, conn |-> FALSE, need |-> FALSE, warm |-> FALSE,
           bindList |-> bind, lif |-> lif, pif |-> pif, live |-> none, gone |-> none, out |-> empty]
  BY DEF Clean
<1> HIDE DEF c, pif, none, empty
<1>3. c \in Daemon
  BY <1>1, <1>2 DEF Daemon
<1>4. /\ c.ml = "INIT" /\ c.warm = FALSE /\ c.bindList = bind /\ c.lif = lif /\ c.live = none /\ c.gone = none
      /\ c.out = empty /\ c.pif = pif
  BY <1>2
<1>5. \A p \in Po : c.pif[p] = NoPif
  BY <1>1, <1>4
<1> QED
  BY <1>3, <1>4, <1>5 DEF Cleaned, c, none, empty

\* scheduler_session_disconnect_handler
Disconnected(s) ==
    LET c == PeerDisconn(s) IN [Clean(c.bindList, c.lif) EXCEPT !.conn = c.conn, !.wait = c.wait]

\* scheduler_session_disconnect_handler leaves a daemon without a session
LEMMA DisconnectStep ==
  \A s \in Daemon :
    Kept(s) /\ StopKept(s) =>
      Closed(Disconnected(s)) /\ Disconnected(s).out = <<>>
\* mlacp_peer_disconn_handler
<1> USE Zenon
<1>PeerDisconnStep. ASSUME NEW s \in Daemon, NEW t, t = PeerDisconn(s)
                    PROVE  /\ t.lif \in [Po -> LocalIf] /\ t.bindList = s.bindList /\ t.conn = s.conn /\ t.wait = s.wait
                           /\ \A p \in Po : /\ t.lif[p].here = s.lif[p].here /\ t.lif[p].up = s.lif[p].up /\ t.lif[p].bound = s.lif[p].bound
                                            /\ t.lif[p].poActive = s.lif[p].poActive /\ t.lif[p].changed = s.lif[p].changed
                                            /\ t.lif[p].cfgSync = s.lif[p].cfgSync
                                            /\ ~s.warm /\ s.lif[p].bound => ~t.lif[p].disable
                                            /\ ~s.lif[p].bound => t.lif[p].disable = s.lif[p].disable
  <2> USE <1>PeerDisconnStep
  <2>1. CASE s.warm
    <3>1. t = s
      BY <2>1 DEF PeerDisconn
    <3> QED
      BY <2>1, <3>1, DaemonFields
  <2>2. CASE ~s.warm
    <3> DEFINE L == [p \in Po |-> IF s.lif[p].bound THEN EnableTraffic([s.lif[p] EXCEPT !.iso = FALSE]) ELSE s.lif[p]]
    <3>1. t = [s EXCEPT !.lif = L]
      BY <2>2 DEF PeerDisconn
    <3>2. ASSUME NEW p \in Po
          PROVE  /\ L[p] \in LocalIf /\ L[p].here = s.lif[p].here /\ L[p].up = s.lif[p].up /\ L[p].bound = s.lif[p].bound
                 /\ L[p].poActive = s.lif[p].poActive /\ L[p].changed = s.lif[p].changed /\ L[p].cfgSync = s.lif[p].cfgSync
                 /\ s.lif[p].bound => ~L[p].disable
                 /\ ~s.lif[p].bound => L[p].disable = s.lif[p].disable
      <4> DEFINE l == s.lif[p]
                 a == [l EXCEPT !.iso = FALSE]
                 k == L[p]
      <4>1. l \in LocalIf /\ k = IF l.bound THEN EnableTraffic(a) ELSE l
        BY DaemonFields
      <4> HIDE DEF l, k, L
      <4>2. /\ a \in LocalIf /\ a.here = l.here /\ a.up = l.up /\ a.bound = l.bound
            /\ a.poActive = l.poActive /\ a.changed = l.changed /\ a.cfgSync = l.cfgSync
        BY <4>1 DEF LocalIf
      <4> HIDE DEF a
      <4>3. CASE l.bound
        <5>1. k = [a EXCEPT !.disable = FALSE]
          BY <4>1, <4>2, <4>3 DEF EnableTraffic
        <5>2. /\ k \in LocalIf /\ k.here = a.here /\ k.up = a.up /\ k.bound = a.bound
              /\ k.poActive = a.poActive /\ k.changed = a.changed /\ k.cfgSync = a.cfgSync /\ k.disable = FALSE
          BY <4>2, <5>1 DEF LocalIf
        <5> QED
          BY <4>2, <4>3, <5>2 DEF l, k
      <4>4. CASE ~l.bound
        <5>1. k = l
          BY <4>1, <4>4
        <5> QED
          BY <4>1, <4>4, <5>1 DEF l, k
      <4> QED
        BY <4>3, <4>4
    <3>3. L \in [Po -> LocalIf]
      BY <3>2
    <3> HIDE DEF L
    <3>4. t.lif = L /\ t.bindList = s.bindList /\ t.conn = s.conn /\ t.wait = s.wait
      BY <3>1 DEF Daemon
    <3> QED
      BY <2>2, <3>2, <3>3, <3>4
  <2> QED
    BY <2>1, <2>2
<1>Main. ASSUME NEW s \in Daemon, Kept(s), StopKept(s)
         PROVE  Closed(Disconnected(s)) /\ Disconnected(s).out = <<>>
  <2> USE <1>Main
  <2> DEFINE c == PeerDisconn(s)
             a == Clean(c.bindList, c.lif)
             t == Disconnected(s)
  <2>1. /\ c.lif \in [Po -> LocalIf] /\ c.bindList = s.bindList /\ c.conn = s.conn /\ c.wait = s.wait
        /\ \A p \in Po : /\ c.lif[p].here = s.lif[p].here /\ c.lif[p].up = s.lif[p].up /\ c.lif[p].bound = s.lif[p].bound
                         /\ c.lif[p].poActive = s.lif[p].poActive /\ c.lif[p].changed = s.lif[p].changed
                         /\ c.lif[p].cfgSync = s.lif[p].cfgSync
                         /\ ~s.warm /\ s.lif[p].bound => ~c.lif[p].disable
                         /\ ~s.lif[p].bound => c.lif[p].disable = s.lif[p].disable
    BY <1>PeerDisconnStep
  <2>2. t = [a EXCEPT !.conn = c.conn, !.wait = c.wait]
    BY DEF Disconnected
  <2> HIDE DEF c, t
  <2>3. s.bindList \in SUBSET Po /\ s.conn \in BOOLEAN /\ s.wait \in BOOLEAN
    BY DaemonFields
  <2>4. /\ a \in Daemon /\ a.ml = "INIT" /\ a.warm = FALSE /\ a.bindList = c.bindList /\ a.lif = c.lif /\ a.live = {} /\ a.gone = {}
        /\ a.out = <<>> /\ \A p \in Po : a.pif[p] = NoPif
    <3>1. Cleaned(c.bindList, c.lif, a)
      BY <2>1, <2>3, CleanFields
    <3> HIDE DEF a
    <3> QED
      BY <3>1 DEF Cleaned
  <2> HIDE DEF a
  <2>5. /\ t \in Daemon /\ t.ml = a.ml /\ t.warm = a.warm /\ t.bindList = a.bindList /\ t.lif = a.lif /\ t.pif = a.pif
        /\ t.live = a.live /\ t.gone = a.gone /\ t.out = a.out
    BY <2>1, <2>2, <2>3, <2>4 DEF Daemon
  <2>6. ASSUME NEW p \in Po
        PROVE  /\ t.lif[p].poActive = t.lif[p].up
               /\ t.lif[p].bound => t.lif[p].here /\ p \in t.bindList
               /\ "detach" \notin Config /\ t.lif[p].here /\ (t.lif[p].bound => t.lif[p].cfgSync) => t.lif[p].changed
               /\ "warm" \notin Reboot /\ ~CanReattach =>
                    /\ ~(t.lif[p].bound /\ t.lif[p].disable)
                    /\ "detach" \notin Config /\ t.lif[p].disable => t.lif[p].bound
    <3>1. t.lif[p] = c.lif[p] /\ t.bindList = s.bindList
      BY <2>1, <2>4, <2>5
    <3>2. /\ s.lif[p].poActive = s.lif[p].up /\ (s.lif[p].bound => s.lif[p].here /\ p \in s.bindList)
          /\ "detach" \notin Config /\ s.lif[p].here /\ (s.lif[p].bound => s.lif[p].cfgSync) => s.lif[p].changed
          /\ "warm" \notin Reboot /\ ~CanReattach => ~s.warm /\ ("detach" \notin Config /\ s.lif[p].disable => s.lif[p].bound)
      BY DEF Kept, IfKept, ChangeKept, StopKept
    <3> DEFINE l == s.lif[p]
               k == t.lif[p]
    <3>3. /\ k.here = l.here /\ k.up = l.up /\ k.bound = l.bound /\ k.poActive = l.poActive /\ k.changed = l.changed
          /\ k.cfgSync = l.cfgSync /\ (~s.warm /\ l.bound => ~k.disable) /\ (~l.bound => k.disable = l.disable)
      BY <2>1, <3>1
    <3>4. /\ l.poActive = l.up /\ (l.bound => l.here /\ p \in t.bindList)
          /\ "detach" \notin Config /\ l.here /\ (l.bound => l.cfgSync) => l.changed
          /\ "warm" \notin Reboot /\ ~CanReattach => ~s.warm /\ ("detach" \notin Config /\ l.disable => l.bound)
      BY <3>1, <3>2
    <3> HIDE DEF l, k
    <3>5. /\ k.poActive = k.up /\ (k.bound => k.here /\ p \in t.bindList)
          /\ "detach" \notin Config /\ k.here /\ (k.bound => k.cfgSync) => k.changed
      BY <3>3, <3>4
    <3>6. "warm" \notin Reboot /\ ~CanReattach =>
                    /\ ~(k.bound /\ k.disable)
                    /\ "detach" \notin Config /\ k.disable => k.bound
      BY <3>3, <3>4
    <3> QED
      BY <3>5, <3>6 DEF k
  <2>7. t.ml = "INIT" /\ ~t.warm /\ t.live = {} /\ t.gone = {} /\ t.out = <<>> /\ \A p \in Po : t.pif[p] = NoPif
    BY <2>4, <2>5
  <2>8. Closed(t)
    BY <2>5, <2>6, <2>7, ClosedDaemon
  <2> QED
    BY <2>7, <2>8 DEF t
<1> QED
  BY <1>Main

\* an interface of a daemon that has just started
FreshIf(k, member) ==
    /\ k \in LocalIf /\ k.poActive = k.up /\ (k.bound => k.here /\ member) /\ (k.here => k.changed) /\ ~k.disable

\* local_if_init of an interface after a restart
LEMMA StartedIf ==
  ASSUME NEW up \in BOOLEAN, NEW member
  PROVE  FreshIf(IF member THEN BindLocalIf(FALSE, NewLocalIf(up), NoPif) ELSE NewLocalIf(up), member)
<1> USE Zenon
<1> DEFINE a == NewLocalIf(up)
           k == IF member THEN BindLocalIf(FALSE, a, NoPif) ELSE a
<1>1. /\ a \in LocalIf /\ a.here = TRUE /\ a.up = up /\ a.bound = FALSE /\ a.poActive = up /\ a.changed = TRUE
      /\ a.disable = FALSE /\ NoPif \in PeerIf /\ FALSE \in BOOLEAN
  BY NewIf, IfFields
<1> HIDE DEF a
<1>2. CASE member
  <2>1. k = BindLocalIf(FALSE, a, NoPif)
    BY <1>2
  <2> HIDE DEF k
  <2>2. IfBound(FALSE, a, NoPif, k)
    BY <1>1, <2>1, BindIf
  <2>3. FreshIf(k, member)
    BY <1>1, <1>2, <2>2 DEF IfBound, FreshIf
  <2> QED
    BY <2>3 DEF k, a
<1>3. CASE ~member
  <2>1. k = a
    BY <1>3
  <2> HIDE DEF k
  <2>2. FreshIf(k, member)
    BY <1>1, <2>1 DEF FreshIf
  <2> QED
    BY <2>2 DEF k, a
<1> QED
  BY <1>2, <1>3

\* a daemon with such interfaces only
LEMMA FreshClosed ==
  ASSUME NEW t \in Daemon, t.ml = "INIT", ~t.warm, t.live = {}, t.gone = {}, \A p \in Po : t.pif[p] = NoPif,
         \A p \in Po : FreshIf(t.lif[p], p \in t.bindList)
  PROVE  Closed(t)
<1>1. ASSUME NEW p \in Po
      PROVE  /\ t.lif[p].poActive = t.lif[p].up
             /\ t.lif[p].bound => t.lif[p].here /\ p \in t.bindList
             /\ "detach" \notin Config /\ t.lif[p].here /\ (t.lif[p].bound => t.lif[p].cfgSync) => t.lif[p].changed
             /\ "warm" \notin Reboot /\ ~CanReattach =>
                  /\ ~(t.lif[p].bound /\ t.lif[p].disable)
                  /\ "detach" \notin Config /\ t.lif[p].disable => t.lif[p].bound
  BY Zenon DEF FreshIf
<1> QED
  BY <1>1, ClosedDaemon, Zenon

\* a daemon that has read its start-up configuration
FreshDaemon(t, bind) ==
    /\ t \in Daemon /\ t.ml = "INIT" /\ ~t.warm /\ t.bindList = bind /\ t.live = {} /\ t.gone = {} /\ t.out = <<>>
    /\ \A p \in Po : t.pif[p] = NoPif /\ FreshIf(t.lif[p], p \in t.bindList)

\* a restarted daemon has no session
LEMMA StartedStep ==
  ASSUME NEW up \in [Po -> BOOLEAN], NEW bind \in SUBSET Po
  PROVE  FreshDaemon(Started(up, bind), bind)
<1> USE Zenon
<1> DEFINE L == [p \in Po |-> IF p \in bind THEN BindLocalIf(FALSE, NewLocalIf(up[p]), NoPif) ELSE NewLocalIf(up[p])]
           t == Started(up, bind)
<1>1. ASSUME NEW p \in Po PROVE FreshIf(L[p], p \in bind)
  <2> DEFINE u == up[p]
             member == p \in bind
  <2>1. u \in BOOLEAN
    OBVIOUS
  <2>2. L[p] = IF member THEN BindLocalIf(FALSE, NewLocalIf(u), NoPif) ELSE NewLocalIf(u)
    OBVIOUS
  <2> HIDE DEF L, u, member
  <2>3. FreshIf(L[p], member)
    BY <2>1, <2>2, StartedIf
  <2> QED
    BY <2>3 DEF member
<1>2. t = Clean(bind, L)
  BY DEF Started
<1>3. L \in [Po -> LocalIf]
  <2>1. \A p \in Po : L[p] \in LocalIf
    BY <1>1 DEF FreshIf
  <2> QED
    BY <2>1
<1> HIDE DEF L, t
<1>4. Cleaned(bind, L, t)
  BY <1>2, <1>3, CleanFields
<1>5. \A p \in Po : t.pif[p] = NoPif /\ FreshIf(t.lif[p], p \in t.bindList)
  BY <1>1, <1>4 DEF Cleaned
<1> QED
  BY <1>4, <1>5 DEF Cleaned, FreshDaemon, t

\* the daemon that follows s
LEMMA RestartStep ==
  ASSUME NEW s \in Daemon
  PROVE  Closed(AfterRestart(s)) /\ AfterRestart(s).out = s.out
<1> USE Zenon
<1> DEFINE up == [p \in Po |-> s.lif[p].up]
           a == Started(up, s.bindList)
           L == [p \in Po |-> IF s.lif[p].here THEN a.lif[p] ELSE NoLocalIf]
           t == AfterRestart(s)
<1>1. up \in [Po -> BOOLEAN] /\ s.bindList \in SUBSET Po /\ s.out \in Seq(Msg)
  <2>1. \A p \in Po : s.lif[p].up \in BOOLEAN
    BY DaemonFields, IfFields
  <2> QED
    BY <2>1, DaemonFields
<1>2. FreshDaemon(a, s.bindList)
  <2> HIDE DEF up
  <2> QED
    BY <1>1, StartedStep
<1>3. t = [a EXCEPT !.lif = L, !.out = s.out]
  BY DEF AfterRestart
<1> HIDE DEF a, t
<1>4. ASSUME NEW p \in Po PROVE FreshIf(L[p], p \in s.bindList)
  <2>1. CASE s.lif[p].here
    <3>1. L[p] = a.lif[p] /\ a.bindList = s.bindList
      BY <1>2, <2>1 DEF FreshDaemon
    <3> QED
      BY <1>2, <3>1 DEF FreshDaemon
  <2>2. CASE ~s.lif[p].here
    <3>1. L[p] = NoLocalIf
      BY <2>2
    <3>2. FreshIf(NoLocalIf, p \in s.bindList)
      BY NewIf DEF FreshIf
    <3> QED
      BY <3>1, <3>2
  <2> QED
    BY <2>1, <2>2
<1>5. L \in [Po -> LocalIf]
  <2>1. \A p \in Po : L[p] \in LocalIf
    BY <1>4 DEF FreshIf
  <2> QED
    BY <2>1
<1> HIDE DEF L
<1>6. a \in Daemon
  BY <1>2 DEF FreshDaemon
<1>7. /\ t \in Daemon /\ t.ml = a.ml /\ t.warm = a.warm /\ t.bindList = a.bindList /\ t.lif = L /\ t.pif = a.pif
      /\ t.live = a.live /\ t.gone = a.gone /\ t.out = s.out
  BY <1>1, <1>3, <1>5, <1>6 DEF Daemon
<1>8. t.ml = "INIT" /\ ~t.warm /\ t.live = {} /\ t.gone = {} /\ t.bindList = s.bindList /\ \A p \in Po : t.pif[p] = NoPif
  BY <1>2, <1>7 DEF FreshDaemon
<1>9. \A p \in Po : FreshIf(t.lif[p], p \in t.bindList)
  BY <1>4, <1>7, <1>8
<1>10. Closed(t)
  BY <1>7, <1>8, <1>9, FreshClosed
<1> QED
  BY <1>7, <1>10 DEF t

-----------------------------------------------------------------------------
(* The steps of the system.                                                *)

\* the two peers
LEMMA NodeFacts == \A n \in Node : /\ Peer(n) \in Node /\ Peer(n) # n /\ Lo \in Node /\ Hi \in Node /\ Lo # Hi
                                   /\ (n = Lo /\ Peer(n) = Hi) \/ (n = Hi /\ Peer(n) = Lo)
                                   /\ \A k \in Node : k = n \/ k = Peer(n)
<1>1. Lo # Hi
  BY LinkAssumption, Zenon
<1> QED
  BY <1>1, SMTT(40) DEF Node, Peer

\* what the invariant says of a daemon, its session and the messages for it
NodeGood(s, on, w) ==
    /\ s \in Daemon /\ s.out = <<>> /\ Kept(s) /\ StopKept(s)
    /\ on \in BOOLEAN /\ (~on => s.ml = "INIT")
    /\ w \in Seq(Msg) /\ ("warm" \notin Reboot => NoWarm(w))

Counted == flaps \in 0 .. MaxFlap /\ cfgs \in 0 .. MaxCfg /\ drops \in 0 .. MaxDrop

\* the invariant, seen from a node
LEMMA InvNode ==
  ASSUME Inv, NEW n \in Node
  PROVE  /\ NodeGood(daemon[n], open[n], wire[n]) /\ NodeGood(daemon[Peer(n)], open[Peer(n)], wire[Peer(n)])
         /\ Counted /\ DOMAIN daemon = Node /\ DOMAIN open = Node /\ DOMAIN wire = Node
         /\ open[n] /\ open[Peer(n)] => Pair(n, daemon[n], daemon[Peer(n)], wire[n], wire[Peer(n)])
<1> USE Zenon
<1>1. \A k \in Node : NodeGood(daemon[k], open[k], wire[k])
  BY DEF Inv, TypeOK, NodeGood
<1>2. Counted /\ DOMAIN daemon = Node /\ DOMAIN open = Node /\ DOMAIN wire = Node
  BY DEF Inv, TypeOK, Counted
<1>3. open[n] /\ open[Peer(n)] => Pair(n, daemon[n], daemon[Peer(n)], wire[n], wire[Peer(n)])
  <2>1. open[Lo] /\ open[Hi] => InStep(daemon[Lo], daemon[Hi], wire[Lo], wire[Hi])
    BY DEF Inv
  <2>2. CASE n = Lo /\ Peer(n) = Hi
    BY <2>1, <2>2 DEF Pair
  <2>3. CASE n = Hi /\ Peer(n) = Lo
    <3>1. n # Lo
      BY <2>3, NodeFacts
    <3> QED
      BY <2>1, <2>3, <3>1 DEF Pair
  <2> QED
    BY <2>2, <2>3, NodeFacts
<1>4. Peer(n) \in Node
  BY NodeFacts
<1> QED
  BY <1>1, <1>2, <1>3, <1>4

\* f is a function on the nodes that has u for n and v for its peer
Has(f, n, u, v) == f = [k \in Node |-> f[k]] /\ f[n] = u /\ f[Peer(n)] = v

\* node n has s, on and wn now, and its peer the messages wp
Became(n, s, on, wn, wp) ==
    Has(daemon', n, s, daemon[Peer(n)]) /\ Has(open', n, on, open[Peer(n)]) /\ Has(wire', n, wn, wp)

\* a state whose nodes and pair satisfy the invariant satisfies it
LEMMA InvStep ==
  ASSUME NEW n \in Node, NEW s, NEW on, NEW wn, NEW wp, Became(n, s, on, wn, wp), Counted',
         NodeGood(s, on, wn), NodeGood(daemon[Peer(n)], open[Peer(n)], wp),
         on /\ open[Peer(n)] => Pair(n, s, daemon[Peer(n)], wn, wp)
  PROVE  Inv'
<1> USE Zenon
<1>1. \A k \in Node : NodeGood(daemon'[k], open'[k], wire'[k])
  BY NodeFacts DEF Became, Has
<1>2. TypeOK'
  <2>1. \A k \in Node : daemon'[k] \in Daemon /\ open'[k] \in BOOLEAN /\ wire'[k] \in Seq(Msg) /\ daemon'[k].out = <<>>
    BY <1>1 DEF NodeGood
  <2>2. daemon' \in [Node -> Daemon] /\ open' \in [Node -> BOOLEAN] /\ wire' \in [Node -> Seq(Msg)]
    BY <2>1 DEF Became, Has
  <2> QED
    BY <2>1, <2>2 DEF TypeOK, Counted
<1>3. open'[Lo] /\ open'[Hi] => InStep(daemon'[Lo], daemon'[Hi], wire'[Lo], wire'[Hi])
  <2>1. open'[n] /\ open'[Peer(n)] => Pair(n, daemon'[n], daemon'[Peer(n)], wire'[n], wire'[Peer(n)])
    BY DEF Became, Has
  <2>2. CASE n = Lo /\ Peer(n) = Hi
    BY <2>1, <2>2 DEF Pair
  <2>3. CASE n = Hi /\ Peer(n) = Lo
    <3>1. n # Lo
      BY <2>3, NodeFacts
    <3> QED
      BY <2>1, <2>3, <3>1 DEF Pair
  <2> QED
    BY <2>2, <2>3, NodeFacts
<1> QED
  BY <1>1, <1>2, <1>3 DEF Inv, NodeGood

\* an assignment at one node
LEMMA HasExcept ==
  ASSUME NEW S, NEW f \in [Node -> S], NEW n \in Node, NEW u
  PROVE  Has([f EXCEPT ![n] = u], n, u, f[Peer(n)])
<1>1. Peer(n) \in Node /\ Peer(n) # n
  BY NodeFacts, Zenon
<1> QED
  BY <1>1, Zenon DEF Has

\* assignments at both nodes
LEMMA HasBoth ==
  ASSUME NEW S, NEW f \in [Node -> S], NEW n \in Node, NEW u, NEW v
  PROVE  Has([f EXCEPT ![n] = u, ![Peer(n)] = v], n, u, v)
<1>1. Peer(n) \in Node /\ Peer(n) # n
  BY NodeFacts, Zenon
<1> QED
  BY <1>1, Zenon DEF Has

\* the values a function has at the two nodes
LEMMA HasSame ==
  ASSUME NEW S, NEW f \in [Node -> S], NEW n \in Node
  PROVE  Has(f, n, f[n], f[Peer(n)])
  BY Zenon DEF Has

\* the types of the variables, as HasExcept needs them
LEMMA InvTypes == Inv => daemon \in [Node -> Daemon] /\ open \in [Node -> BOOLEAN] /\ wire \in [Node -> Seq(Msg)]
  BY Zenon DEF Inv, TypeOK

\* a step of one daemon that its peer does not notice
LEMMA LocalInv ==
  ASSUME Inv, NEW n \in Node, NEW t, LocalStep(daemon[n], t), daemon' = [daemon EXCEPT ![n] = t],
         open' = open, wire' = wire, Counted'
  PROVE  Inv'
<1> USE Zenon
<1> DEFINE s == daemon[n]
           on == open[n]
           r == daemon[Peer(n)]
           wn == wire[n]
           wp == wire[Peer(n)]
<1>1. Became(n, t, on, wn, wp)
  <2>1. Has(daemon', n, t, daemon[Peer(n)])
    BY InvTypes, HasExcept
  <2>2. Has(open', n, on, open[Peer(n)]) /\ Has(wire', n, wn, wp)
    BY InvTypes, HasSame
  <2> QED
    BY <2>1, <2>2 DEF Became
<1>2. /\ NodeGood(s, on, wn) /\ NodeGood(r, open[Peer(n)], wp)
      /\ on /\ open[Peer(n)] => Pair(n, s, r, wn, wp)
  BY InvNode
<1>3. LocalStep(s, t)
  OBVIOUS
<1> HIDE DEF s, on, r, wn, wp
<1>4. /\ t \in Daemon /\ t.ml = s.ml /\ t.wait = s.wait /\ t.pif = s.pif /\ t.out = s.out
      /\ Kept(t) /\ StopKept(t) /\ Says(s, t, <<>>)
  BY <1>3 DEF LocalStep
<1>5. NodeGood(t, on, wn)
  BY <1>2, <1>4 DEF NodeGood
<1>6. wp \in Seq(Msg)
  BY <1>2 DEF NodeGood
<1>7. on /\ open[Peer(n)] => Pair(n, t, r, wn, wp)
  BY <1>2, <1>4, <1>6, LocalPair
<1>8. NodeGood(daemon[Peer(n)], open[Peer(n)], wp) /\ (on /\ open[Peer(n)] => Pair(n, t, daemon[Peer(n)], wn, wp))
  BY <1>2, <1>7 DEF r
<1> QED
  BY <1>1, <1>5, <1>8, InvStep

\* a daemon once its messages are on their way
Emptied(s) == [s EXCEPT !.out = <<>>]

\* a daemon whose stream was handed to the connection
LEMMA EmptiedStep ==
  ASSUME NEW s \in Daemon, Kept(s), StopKept(s)
  PROVE  /\ Emptied(s) \in Daemon /\ Emptied(s).ml = s.ml /\ Emptied(s).wait = s.wait /\ Emptied(s).pif = s.pif
         /\ Emptied(s).out = <<>> /\ Kept(Emptied(s)) /\ StopKept(Emptied(s)) /\ Says(s, Emptied(s), <<>>)
<1> DEFINE t == Emptied(s)
<1>1. <<>> \in Seq(Msg) /\ Len(<<>>) = 0
  BY NothingSent, Zenon
<1>2. /\ t \in Daemon /\ t.ml = s.ml /\ t.wait = s.wait /\ t.conn = s.conn /\ t.warm = s.warm /\ t.bindList = s.bindList
      /\ t.lif = s.lif /\ t.pif = s.pif /\ t.live = s.live /\ t.gone = s.gone /\ t.out = <<>>
  <2> DEFINE empty == <<>>
  <2>1. t = [s EXCEPT !.out = empty] /\ empty \in Seq(Msg)
    BY <1>1, Zenon DEF Emptied
  <2> HIDE DEF empty, t
  <2>2. /\ t \in Daemon /\ t.ml = s.ml /\ t.wait = s.wait /\ t.conn = s.conn /\ t.warm = s.warm /\ t.bindList = s.bindList
        /\ t.lif = s.lif /\ t.pif = s.pif /\ t.live = s.live /\ t.gone = s.gone /\ t.out = empty
    BY <2>1, Zenon DEF Daemon
  <2> QED
    BY <2>2, Zenon DEF empty
<1> HIDE DEF t
<1>3. Kept(t)
  <2> USE Zenon
  <2>1. \A p \in Po : IfKept(t.lif[p], t.pif[p], p \in t.bindList)
    BY <1>2 DEF Kept
  <2>2. IsoKept(t)
    BY <1>2 DEF Kept, IsoKept, Exchanging
  <2>3. PurgeKept(t)
    BY <1>2 DEF Kept, PurgeKept
  <2>4. ChangeKept(t)
    BY <1>2 DEF Kept, ChangeKept
  <2> QED
    BY <2>1, <2>2, <2>3, <2>4 DEF Kept
<1>4. StopKept(t)
  BY <1>2, Zenon DEF StopKept
<1>5. Says(s, t, <<>>)
  <2> DEFINE x == <<>>
  <2>1. \A i \in 1 .. Len(x) : x[i].type \notin {"CONF", "PURGE", "STATE"}
    BY SMTT(40)
  <2> HIDE DEF x
  <2>2. Says(s, t, x)
    BY <1>2, <2>1, SilentSays, Zenon
  <2> QED
    BY <2>2, Zenon DEF x
<1> QED
  BY <1>2, <1>3, <1>4, <1>5, Zenon DEF t

\* a stream without a warm reboot flag, extended by another
LEMMA NoWarmJoin ==
  ASSUME NEW x \in Seq(Msg), NEW y \in Seq(Msg), NoWarm(x), NoWarm(y)
  PROVE  NoWarm(x \o y)
<1> USE Zenon
<1> SUFFICES ASSUME NEW i \in 1 .. Len(x \o y) PROVE (x \o y)[i].type # "WARM"
  BY DEF NoWarm
<1>1. CASE i \in 1 .. Len(x)
  <2>1. (x \o y)[i] = x[i]
    BY <1>1, CatParts, ZenonT(40)
  <2> QED
    BY <1>1, <2>1 DEF NoWarm
<1>2. CASE i - Len(x) \in 1 .. Len(y) /\ (x \o y)[i] = y[i - Len(x)]
  BY <1>2 DEF NoWarm
<1> QED
  BY <1>1, <1>2, CatParts

\* a step of one daemon that reads and sends
LEMMA StepInv ==
  ASSUME Inv, NEW n \in Node, NEW s \in Daemon, Kept(s), StopKept(s), "warm" \notin Reboot => NoWarm(s.out),
         NEW rest \in Seq(Msg), "warm" \notin Reboot => NoWarm(rest), NEW on \in BOOLEAN, ~on => s.ml = "INIT",
         Step(n, s, rest), Has(open', n, on, open[Peer(n)]), Counted',
         on /\ open[Peer(n)] => Pair(n, s, daemon[Peer(n)], rest, wire[Peer(n)] \o s.out)
  PROVE  Inv'
<1> USE Zenon
<1> DEFINE t == Emptied(s)
           r == daemon[Peer(n)]
           op == open[Peer(n)]
           w == wire[Peer(n)]
           wp == IF op THEN w \o s.out ELSE w
<1>1. Became(n, t, on, rest, wp)
  <2>1. daemon' = [daemon EXCEPT ![n] = t]
    BY DEF Step, Emptied
  <2>2. wire' = [wire EXCEPT ![n] = rest, ![Peer(n)] = wp]
    <3>1. wire \in [Node -> Seq(Msg)] /\ Peer(n) \in Node /\ Peer(n) # n
      BY InvTypes, NodeFacts
    <3>2. [wire EXCEPT ![n] = rest][Peer(n)] = w
      BY <3>1
    <3>3. wire' = [wire EXCEPT ![n] = rest, ![Peer(n)] = IF open[Peer(n)] THEN @ \o s.out ELSE @]
      BY DEF Step
    <3> QED
      BY <3>2, <3>3
  <2> HIDE DEF t, wp
  <2>3. Has(daemon', n, t, daemon[Peer(n)])
    BY <2>1, InvTypes, HasExcept
  <2>4. Has(wire', n, rest, wp)
    BY <2>2, InvTypes, HasBoth
  <2> QED
    BY <2>3, <2>4 DEF Became
<1>2. NodeGood(r, op, w)
  BY InvNode
<1>3. on /\ op => Pair(n, s, r, rest, w \o s.out)
  OBVIOUS
<1>4. op => wp = w \o s.out
  OBVIOUS
<1>5. ~op => wp = w
  OBVIOUS
<1> HIDE DEF r, op, w, wp
<1>6. s.out \in Seq(Msg) /\ w \in Seq(Msg) /\ op \in BOOLEAN
  BY <1>2, DaemonFields DEF NodeGood
<1>7. wp \in Seq(Msg) /\ ("warm" \notin Reboot => NoWarm(wp))
  <2>1. CASE op
    <3>1. w \o s.out \in Seq(Msg)
      BY <1>6, ConcatType
    <3>2. "warm" \notin Reboot => NoWarm(w \o s.out)
      BY <1>2, <1>6, NoWarmJoin DEF NodeGood
    <3> QED
      BY <1>4, <2>1, <3>1, <3>2
  <2>2. CASE ~op
    BY <1>2, <1>5, <2>2 DEF NodeGood
  <2> QED
    BY <2>1, <2>2
<1>8. /\ t \in Daemon /\ t.ml = s.ml /\ t.wait = s.wait /\ t.pif = s.pif
      /\ t.out = <<>> /\ Kept(t) /\ StopKept(t) /\ Says(s, t, <<>>)
  BY EmptiedStep
<1> HIDE DEF t
<1>9. NodeGood(t, on, rest)
  BY <1>8 DEF NodeGood
<1>10. NodeGood(r, op, wp)
  BY <1>2, <1>7 DEF NodeGood
<1>11. on /\ op => Pair(n, t, r, rest, wp)
  <2> SUFFICES ASSUME on, op PROVE Pair(n, t, r, rest, wp)
    OBVIOUS
  <2>1. Pair(n, s, r, rest, wp)
    BY <1>3, <1>4
  <2> QED
    BY <1>7, <1>8, <2>1, LocalPair
<1>12. NodeGood(daemon[Peer(n)], open[Peer(n)], wp) /\ (on /\ open[Peer(n)] => Pair(n, t, daemon[Peer(n)], rest, wp))
  BY <1>10, <1>11 DEF r, op
<1> QED
  BY <1>1, <1>9, <1>12, InvStep

\* what the counters of the events may do
LEMMA CountedStep ==
  ASSUME Counted,
         flaps' = flaps \/ (flaps < MaxFlap /\ flaps' = flaps + 1),
         cfgs' = cfgs \/ (cfgs < MaxCfg /\ cfgs' = cfgs + 1),
         drops' = drops \/ (drops < MaxDrop /\ drops' = drops + 1)
  PROVE  Counted'
<1>1. \A M \in Nat : \A i \in 0 .. M : i < M => i + 1 \in 0 .. M
  BY SMTT(40)
<1>2. MaxFlap \in Nat /\ MaxCfg \in Nat /\ MaxDrop \in Nat
  BY LinkAssumption, Zenon
<1>3. flaps' \in 0 .. MaxFlap
  BY <1>1, <1>2, Zenon DEF Counted
<1>4. cfgs' \in 0 .. MaxCfg
  BY <1>1, <1>2, Zenon DEF Counted
<1>5. drops' \in 0 .. MaxDrop
  BY <1>1, <1>2, Zenon DEF Counted
<1> QED
  BY <1>3, <1>4, <1>5, Zenon DEF Counted

\* what is known of an open session before a turn
LEMMA InvTurn ==
  ASSUME Inv, NEW n \in Node
  PROVE  LET d == daemon[n]
             w == wire[Peer(n)]
         IN  /\ d \in Daemon /\ Kept(d) /\ StopKept(d) /\ NoWarm(d.out) /\ wire[n] \in Seq(Msg) /\ w \in Seq(Msg)
             /\ open[n] \in BOOLEAN /\ ("warm" \notin Reboot => NoWarm(wire[n])) /\ Counted
             /\ open[n] /\ open[Peer(n)] => Pair(n, d, daemon[Peer(n)], wire[n], w \o d.out)
<1> DEFINE d == daemon[n]
           w == wire[Peer(n)]
           r == daemon[Peer(n)]
           wn == wire[n]
<1>1. /\ NodeGood(d, open[n], wn) /\ NodeGood(r, open[Peer(n)], w) /\ Counted
      /\ open[n] /\ open[Peer(n)] => Pair(n, d, r, wn, w)
  BY InvNode, Zenon
<1> HIDE DEF d, w, r, wn
<1>2. /\ d \in Daemon /\ Kept(d) /\ StopKept(d) /\ d.out = <<>> /\ wn \in Seq(Msg) /\ w \in Seq(Msg) /\ open[n] \in BOOLEAN
      /\ ("warm" \notin Reboot => NoWarm(wn))
  BY <1>1, Zenon DEF NodeGood
<1>3. NoWarm(d.out)
  <2>1. NoWarm(<<>>)
    BY SMTT(40) DEF NoWarm
  <2> QED
    BY <1>2, <2>1, Zenon
<1>4. w \o d.out = w
  <2>1. \A v \in Seq(Msg) : v \o <<>> = v
    BY SMTT(40)
  <2> QED
    BY <1>2, <2>1, Zenon
<1> QED
  BY <1>1, <1>2, <1>3, <1>4, Zenon DEF d, w, r, wn

\* a turn without a message
LEMMA IdleInv ==
  ASSUME Inv, NEW n \in Node, Idle(n)
  PROVE  Inv'
<1> USE Zenon
<1> DEFINE d == daemon[n]
           w == wire[Peer(n)]
           r == daemon[Peer(n)]
           wn == wire[n]
<1>1. PICK s \in Turn(n, d, NoMsg) : Step(n, s, wn)
  BY DEF Idle
<1>2. open[n] /\ UNCHANGED <<open, flaps, cfgs, drops>>
  BY DEF Idle
<1>3. /\ d \in Daemon /\ Kept(d) /\ StopKept(d) /\ NoWarm(d.out) /\ wn \in Seq(Msg) /\ w \in Seq(Msg)
      /\ ("warm" \notin Reboot => NoWarm(wn)) /\ Counted
      /\ open[Peer(n)] => Pair(n, d, r, wn, w \o d.out)
  BY <1>2, InvTurn
<1>4. Has(open', n, TRUE, open[Peer(n)])
  <2>1. open' = open /\ open[n] = TRUE
    BY <1>2, InvTypes
  <2> QED
    BY <2>1, InvTypes, HasSame
<1>5. Counted'
  BY <1>2, <1>3, CountedStep
<1> HIDE DEF d, w, r, wn
<1>6. NoMsg.type # "WARM" /\ NoMsg \in Msg \cup {NoMsg} /\ Reads(wn, NoMsg, wn)
  BY DEF NoMsg, Reads
<1>7. Sound(d, s)
  BY <1>1, <1>3, <1>6, TurnKept
<1>8. s \in Daemon /\ Kept(s) /\ StopKept(s) /\ NoWarm(s.out)
  BY <1>3, <1>7 DEF Sound
<1>9. open[Peer(n)] => Pair(n, s, r, wn, w \o s.out)
  BY <1>1, <1>3, <1>6, TurnPair
<1>10. /\ Step(n, s, wn) /\ TRUE \in BOOLEAN
       /\ TRUE /\ open[Peer(n)] => Pair(n, s, daemon[Peer(n)], wn, wire[Peer(n)] \o s.out)
  BY <1>1, <1>9 DEF w, r
<1> DEFINE on == TRUE
<1>11. /\ Has(open', n, on, open[Peer(n)]) /\ on \in BOOLEAN /\ on
       /\ on /\ open[Peer(n)] => Pair(n, s, daemon[Peer(n)], wn, wire[Peer(n)] \o s.out)
  BY <1>4, <1>10
<1> HIDE DEF on
<1> QED
  BY <1>3, <1>5, <1>8, <1>10, <1>11, StepInv

\* a turn that reads the head of the stream
LEMMA HandleInv ==
  ASSUME Inv, NEW n \in Node, Handle(n)
  PROVE  Inv'
<1> DEFINE d == daemon[n]
           w == wire[Peer(n)]
           r == daemon[Peer(n)]
           wn == wire[n]
           m == Head(wn)
           y == Tail(wn)
<1>1. PICK t \in Turn(n, d, m) : \E s \in Turn(n, t, NoMsg) : Step(n, s, y)
  BY Zenon DEF Handle
<1>2. PICK s \in Turn(n, t, NoMsg) : Step(n, s, y)
  BY <1>1, Zenon
<1>3. open[n] /\ wn # <<>> /\ UNCHANGED <<open, flaps, cfgs, drops>>
  BY Zenon DEF Handle
<1>4. /\ d \in Daemon /\ Kept(d) /\ StopKept(d) /\ NoWarm(d.out) /\ wn \in Seq(Msg) /\ w \in Seq(Msg)
      /\ ("warm" \notin Reboot => NoWarm(wn)) /\ Counted
      /\ open[Peer(n)] => Pair(n, d, r, wn, w \o d.out)
  BY <1>3, InvTurn, Zenon
<1>5. Has(open', n, TRUE, open[Peer(n)])
  <2>1. open' = open /\ open[n] = TRUE
    BY <1>3, InvTypes, Zenon
  <2> QED
    BY <2>1, InvTypes, HasSame, Zenon
<1>6. Counted'
  BY <1>3, <1>4, CountedStep, Zenon
<1>7. Headed(wn, m, y) /\ m \in Msg /\ y \in Seq(Msg)
  <2> HIDE DEF wn
  <2> QED
    BY <1>3, <1>4, HeadTail, Zenon
<1>8. "warm" \notin Reboot => m.type # "WARM" /\ NoWarm(y)
  <2> HIDE DEF wn, m, y
  <2> SUFFICES ASSUME NoWarm(wn) PROVE m.type # "WARM" /\ NoWarm(y)
    BY <1>4, Zenon
  <2> QED
    BY <1>7, SMTT(40) DEF Headed, NoWarm
<1> HIDE DEF d, w, r, wn, m, y
<1>9. NoMsg.type # "WARM" /\ NoMsg \in Msg \cup {NoMsg} /\ Reads(y, NoMsg, y) /\ m \in Msg \cup {NoMsg} /\ Reads(wn, m, y)
  BY <1>7, Zenon DEF NoMsg, Reads
<1>10. Sound(d, t)
  BY <1>1, <1>4, <1>8, <1>9, TurnKept, Zenon
<1>11. t \in Daemon /\ Kept(t) /\ StopKept(t) /\ NoWarm(t.out)
  BY <1>4, <1>10, Zenon DEF Sound
<1>12. Sound(t, s)
  BY <1>2, <1>9, <1>11, TurnKept, Zenon
<1>13. s \in Daemon /\ Kept(s) /\ StopKept(s) /\ NoWarm(s.out)
  BY <1>11, <1>12, Zenon DEF Sound
<1>14. open[Peer(n)] => Pair(n, t, r, y, w \o t.out)
  BY <1>1, <1>4, <1>7, <1>8, <1>9, TurnPair, Zenon
<1>15. open[Peer(n)] => Pair(n, s, r, y, w \o s.out)
  BY <1>2, <1>4, <1>7, <1>9, <1>11, <1>14, TurnPair, Zenon
<1> DEFINE on == TRUE
<1>16. /\ Has(open', n, on, open[Peer(n)]) /\ on \in BOOLEAN /\ on
       /\ on /\ open[Peer(n)] => Pair(n, s, daemon[Peer(n)], y, wire[Peer(n)] \o s.out)
  BY <1>5, <1>15, Zenon DEF w, r
<1> HIDE DEF on
<1> QED
  BY <1>2, <1>6, <1>7, <1>8, <1>13, <1>16, StepInv, Zenon

\* the end of a session
LEMMA DisconnectInv ==
  ASSUME Inv, NEW n \in Node, Disconnect(n), Counted'
  PROVE  Inv'
<1> DEFINE d == daemon[n]
           t == Disconnected(d)
           w == wire[Peer(n)]
           on == FALSE
           wn == <<>>
<1>1. daemon' = [daemon EXCEPT ![n] = t] /\ open' = [open EXCEPT ![n] = on] /\ wire' = [wire EXCEPT ![n] = wn]
  BY Zenon DEF Disconnect, Disconnected
<1>2. d \in Daemon /\ Kept(d) /\ StopKept(d) /\ NodeGood(daemon[Peer(n)], open[Peer(n)], w)
  BY InvTurn, InvNode, Zenon
<1>3. wn \in Seq(Msg) /\ NoWarm(wn)
  BY SMTT(40) DEF NoWarm
<1>4. on \in BOOLEAN /\ ~on
  BY Zenon
<1> HIDE DEF d
<1>5. Closed(t) /\ t.out = <<>>
  BY <1>2, DisconnectStep, Zenon
<1>6. NodeGood(t, on, wn)
  <2> HIDE DEF t, on, wn
  <2> QED
    BY <1>3, <1>4, <1>5, Zenon DEF NodeGood, Closed
<1> HIDE DEF t, on, wn
<1>7. Became(n, t, on, wn, w)
  <2>1. Has(daemon', n, t, daemon[Peer(n)]) /\ Has(open', n, on, open[Peer(n)]) /\ Has(wire', n, wn, w)
    BY <1>1, InvTypes, HasExcept, Zenon
  <2> QED
    BY <2>1, Zenon DEF Became
<1> HIDE DEF w
<1>8. on /\ open[Peer(n)] => Pair(n, t, daemon[Peer(n)], wn, w)
  BY <1>4, Zenon
<1> QED
  BY <1>2, <1>6, <1>7, <1>8, InvStep, Zenon

\* a lost session
LEMMA LoseInv ==
  ASSUME Inv, NEW n \in Node, Lose(n) \/ Eof(n)
  PROVE  Inv'
<1> USE Zenon
<1>1. /\ Disconnect(n) /\ flaps' = flaps /\ cfgs' = cfgs
      /\ drops' = drops \/ (drops < MaxDrop /\ drops' = drops + 1)
  BY DEF Lose, Eof
<1>2. Counted
  BY InvTurn
<1>3. Counted'
  BY <1>1, <1>2, CountedStep
<1> QED
  BY <1>1, <1>3, DisconnectInv

\* the warm reboot flag changes nothing but what is sent
LEMMA WarmbootStep ==
  ASSUME NEW s \in Daemon, Kept(s), StopKept(s)
  PROVE  WarmbootFlag(s) \in Daemon /\ Kept(WarmbootFlag(s)) /\ StopKept(WarmbootFlag(s))
<1> USE Zenon
<1> DEFINE x == <<[type |-> "WARM"]>>
           t == Send(s, x)
<1>1. x \in Seq(Msg)
  BY Messages, OneMsg
<1> HIDE DEF x
<1>2. SentOnly(s, t, x)
  BY <1>1, SendStep
<1>3. WarmbootFlag(s) = t \/ WarmbootFlag(s) = s
  BY DEF WarmbootFlag, x
<1> HIDE DEF t
<1>4. /\ t \in Daemon /\ t.ml = s.ml /\ t.conn = s.conn /\ t.warm = s.warm /\ t.bindList = s.bindList
      /\ t.lif = s.lif /\ t.pif = s.pif /\ t.live = s.live /\ t.gone = s.gone
  BY <1>2 DEF SentOnly, Sends, SameFrame
<1>5. Kept(t)
  <2>1. \A p \in Po : IfKept(t.lif[p], t.pif[p], p \in t.bindList)
    BY <1>4 DEF Kept
  <2>2. IsoKept(t)
    BY <1>4 DEF Kept, IsoKept, Exchanging
  <2>3. PurgeKept(t)
    BY <1>4 DEF Kept, PurgeKept
  <2>4. ChangeKept(t)
    BY <1>4 DEF Kept, ChangeKept
  <2> QED
    BY <2>1, <2>2, <2>3, <2>4 DEF Kept
<1>6. StopKept(t)
  BY <1>4 DEF StopKept
<1>7. CASE WarmbootFlag(s) = t
  BY <1>4, <1>5, <1>6, <1>7
<1>8. CASE WarmbootFlag(s) = s
  BY <1>8
<1> QED
  BY <1>3, <1>7, <1>8

\* a daemon that stops, by a crash or a warm reboot, and starts again
LEMMA RestartInv ==
  ASSUME Inv, NEW n \in Node, NEW kind, Restart(n, kind)
  PROVE  Inv'
<1> DEFINE d == daemon[n]
           f == WarmbootFlag(d)
           rest == <<>>
           on == FALSE
<1>1. /\ kind \in Reboot /\ drops < MaxDrop /\ drops' = drops + 1 /\ flaps' = flaps /\ cfgs' = cfgs
      /\ open' = [open EXCEPT ![n] = on]
  BY Zenon DEF Restart
<1>2. PICK last \in (IF kind = "warm" /\ open[n] THEN Turn(n, f, NoMsg) ELSE {d}) : Step(n, AfterRestart(last), rest)
  BY Zenon DEF Restart
<1>3. d \in Daemon /\ Kept(d) /\ StopKept(d) /\ NoWarm(d.out) /\ Counted
  BY InvTurn, Zenon
<1>4. Counted'
  BY <1>1, <1>3, CountedStep, Zenon
<1>5. Has(open', n, on, open[Peer(n)])
  <2> HIDE DEF on
  <2> QED
    BY <1>1, InvTypes, HasExcept, Zenon
<1>6. rest \in Seq(Msg) /\ NoWarm(rest)
  BY SMTT(40) DEF NoWarm
<1>7. on \in BOOLEAN /\ ~on
  BY Zenon
<1>8. last \in Daemon /\ ("warm" \notin Reboot => NoWarm(last.out))
  <2> USE Zenon
  <2>1. CASE kind = "warm" /\ open[n]
    <3> HIDE DEF d
    <3>1. f \in Daemon /\ Kept(f) /\ StopKept(f)
      BY <1>3, WarmbootStep
    <3>2. last \in Turn(n, f, NoMsg)
      BY <1>2, <2>1
    <3>3. NoMsg.type # "WARM" /\ NoMsg \in Msg \cup {NoMsg}
      BY DEF NoMsg
    <3> HIDE DEF f
    <3>4. Sound(f, last)
      BY <3>1, <3>2, <3>3, TurnKept
    <3> QED
      BY <1>1, <2>1, <3>4 DEF Sound
  <2>2. CASE ~(kind = "warm" /\ open[n])
    BY <1>2, <1>3, <2>2
  <2> QED
    BY <2>1, <2>2
<1> DEFINE a == AfterRestart(last)
<1>9. Closed(a) /\ a.out = last.out /\ Step(n, a, rest)
  BY <1>2, <1>8, RestartStep, Zenon
<1> HIDE DEF a, on, rest, d, f
<1>10. a \in Daemon /\ Kept(a) /\ StopKept(a) /\ a.ml = "INIT" /\ ("warm" \notin Reboot => NoWarm(a.out))
  BY <1>8, <1>9, Zenon DEF Closed
<1>11. on /\ open[Peer(n)] => Pair(n, a, daemon[Peer(n)], rest, wire[Peer(n)] \o a.out)
  BY <1>7, Zenon
<1> QED
  BY <1>4, <1>5, <1>6, <1>7, <1>9, <1>10, <1>11, StepInv, Zenon

\* the session is established
LEMMA ConnectInv ==
  ASSUME Inv, Connect
  PROVE  Inv'
<1> DEFINE empty == <<>>
<1>1. /\ \A n \in Node : ~open[n]
      /\ open' = [n \in Node |-> TRUE] /\ wire' = [n \in Node |-> empty] /\ daemon' = daemon
      /\ flaps' = flaps /\ cfgs' = cfgs /\ drops' = drops
  BY Zenon DEF Connect
<1>2. empty \in Seq(Msg) /\ NoWarm(empty)
  BY SMTT(40) DEF NoWarm
<1>3. InStep(daemon[Lo], daemon[Hi], empty, empty)
  <2> USE Zenon
  <2>1. Lo \in Node /\ Hi \in Node
    BY DEF Node
  <2>2. daemon[Lo].ml = "INIT" /\ daemon[Hi].ml = "INIT"
    BY <1>1, <2>1 DEF Inv
  <2>3. Phase(daemon[Lo], daemon[Hi], empty, empty)
    BY <2>2 DEF Phase
  <2> QED
    BY <2>2, <2>3 DEF InStep
<1> HIDE DEF empty
<1>4. TypeOK'
  BY <1>1, <1>2, Zenon DEF Inv, TypeOK
<1>5. \A n \in Node : Kept(daemon'[n]) /\ StopKept(daemon'[n]) /\ open'[n] /\ wire'[n] = empty
  BY <1>1, Zenon DEF Inv
<1>6. InStep(daemon'[Lo], daemon'[Hi], wire'[Lo], wire'[Hi])
  <2>1. Lo \in Node /\ Hi \in Node
    BY Zenon DEF Node
  <2> QED
    BY <1>1, <1>3, <1>5, <2>1, Zenon
<1> QED
  BY <1>2, <1>4, <1>5, <1>6, Zenon DEF Inv

\* the events of one port channel
LEMMA PortInv ==
  \A n \in Node, p \in Po :
    Inv /\ (LinkChange(n, p) \/ Attach(n, p) \/ Detach(n, p) \/ Create(n, p) \/ Destroy(n, p)) =>
      Inv'
<1>ReplaceIf. ASSUME NEW s \in Daemon, NEW p \in Po, NEW k \in LocalIf, NEW t, t = [s EXCEPT !.lif[p] = k]
              PROVE  Replaced(s, t, p, k, s.bindList, s.live, s.gone)
  <2> USE <1>ReplaceIf
  <2> DEFINE L == [s.lif EXCEPT ![p] = k]
  <2>1. L \in [Po -> LocalIf] /\ L[p] = k /\ \A r \in Po : r # p => L[r] = s.lif[r]
    BY DaemonFields, SMTT(40)
  <2>2. t = [s EXCEPT !.lif = L]
    BY Zenon
  <2> HIDE DEF L
  <2>3. /\ t \in Daemon /\ t.ml = s.ml /\ t.wait = s.wait /\ t.conn = s.conn /\ t.warm = s.warm /\ t.pif = s.pif /\ t.out = s.out
        /\ t.bindList = s.bindList /\ t.live = s.live /\ t.gone = s.gone /\ t.lif = L
    BY <2>1, <2>2, Zenon DEF Daemon
  <2> QED
    BY <2>1, <2>3, Zenon DEF Replaced
<1>ReplaceBound. ASSUME NEW s \in Daemon, NEW p \in Po, NEW k \in LocalIf, NEW B \in SUBSET Po, NEW V \in SUBSET Po,
                        NEW t, t = [s EXCEPT !.bindList = B, !.live = V, !.lif[p] = k]
                 PROVE  Replaced(s, t, p, k, B, V, s.gone)
  <2> USE <1>ReplaceBound
  <2> DEFINE L == [s.lif EXCEPT ![p] = k]
  <2>1. L \in [Po -> LocalIf] /\ L[p] = k /\ \A r \in Po : r # p => L[r] = s.lif[r]
    BY DaemonFields, SMTT(40)
  <2>2. t = [s EXCEPT !.bindList = B, !.live = V, !.lif = L]
    BY Zenon DEF Daemon
  <2> HIDE DEF L
  <2>3. /\ t \in Daemon /\ t.ml = s.ml /\ t.wait = s.wait /\ t.conn = s.conn /\ t.warm = s.warm /\ t.pif = s.pif /\ t.out = s.out
        /\ t.bindList = B /\ t.live = V /\ t.gone = s.gone /\ t.lif = L
    BY <2>1, <2>2, Zenon DEF Daemon
  <2> QED
    BY <2>1, <2>3, Zenon DEF Replaced
<1>ReplaceGone. ASSUME NEW s \in Daemon, NEW p \in Po, NEW k \in LocalIf, NEW V \in SUBSET Po, NEW G \in SUBSET Po,
                       NEW t, t = [s EXCEPT !.live = V, !.gone = G, !.lif[p] = k]
                PROVE  Replaced(s, t, p, k, s.bindList, V, G)
  <2> USE <1>ReplaceGone
  <2> DEFINE L == [s.lif EXCEPT ![p] = k]
  <2>1. L \in [Po -> LocalIf] /\ L[p] = k /\ \A r \in Po : r # p => L[r] = s.lif[r]
    BY DaemonFields, SMTT(40)
  <2>2. t = [s EXCEPT !.live = V, !.gone = G, !.lif = L]
    BY Zenon DEF Daemon
  <2> HIDE DEF L
  <2>3. /\ t \in Daemon /\ t.ml = s.ml /\ t.wait = s.wait /\ t.conn = s.conn /\ t.warm = s.warm /\ t.pif = s.pif /\ t.out = s.out
        /\ t.bindList = s.bindList /\ t.live = V /\ t.gone = G /\ t.lif = L
    BY <2>1, <2>2, Zenon DEF Daemon
  <2> QED
    BY <2>1, <2>3, Zenon DEF Replaced
<1>LinkChangeStep. ASSUME NEW s \in Daemon, Kept(s), StopKept(s), NEW p \in Po
                   PROVE  LocalStep(s, LinkChanged(s, p))
  <2> USE <1>LinkChangeStep, Zenon
  <2> DEFINE o == s.lif[p]
             l == [o EXCEPT !.up = ~@]
             t == LinkChanged(s, p)
             q == s.pif[p]
             ex == Exchanging(s)
             up == l.up
             k == IF l.bound THEN PortChannelState(ex, l, q, up) ELSE [l EXCEPT !.poActive = up]
  <2>1. /\ o \in LocalIf /\ q \in PeerIf /\ ex \in BOOLEAN /\ o.up \in BOOLEAN /\ o.changed \in BOOLEAN /\ o.disable \in BOOLEAN
        /\ q.poActive \in BOOLEAN
    BY DaemonFields, IfFields
  <2>2. IfKept(o, q, p \in s.bindList)
    BY DEF Kept
  <2>3. t = [s EXCEPT !.lif[p] = k]
    BY DEF LinkChanged
  <2>4. l = [o EXCEPT !.up = ~o.up]
    OBVIOUS
  <2>5. /\ "detach" \notin Config /\ o.here /\ (o.bound => o.cfgSync) => o.changed
        /\ "warm" \notin Reboot /\ ~CanReattach =>
               /\ o.bound /\ o.disable => s.ml \in {"EXCHANGE", "ERROR"}
               /\ "detach" \notin Config /\ o.disable => o.bound
        /\ s.ml \in {"INIT", "STAGE1", "STAGE2"} => p \notin s.live /\ p \notin s.gone
        /\ s.ml = "EXCHANGE" /\ o.bound /\ ~o.cfgSync => p \notin s.live /\ p \notin s.gone
    BY DEF Kept, ChangeKept, PurgeKept, StopKept
  <2> HIDE DEF o, q, k, l, t
  <2>6. /\ l \in LocalIf /\ l.up = ~o.up /\ l.here = o.here /\ l.bound = o.bound /\ l.poActive = o.poActive
        /\ l.changed = o.changed /\ l.cfgSync = o.cfgSync /\ l.disable = o.disable /\ l.iso = o.iso /\ up \in BOOLEAN
    BY <2>1, <2>4 DEF LocalIf
  <2> HIDE DEF up, ex
  <2>7. /\ k \in LocalIf /\ k.here = o.here /\ k.bound = o.bound /\ k.cfgSync = o.cfgSync /\ k.up = up /\ k.poActive = up
        /\ (o.bound => k.changed) /\ (~o.bound => k.changed = o.changed)
        /\ (ex /\ k.bound /\ k.up /\ q.known => k.iso = q.poActive)
        /\ (k.disable => o.disable \/ (o.bound /\ ex))
    <3>1. CASE l.bound
      <4>1. k = PortChannelState(ex, l, q, up)
        BY <3>1 DEF k
      <4>2. StateHandled(ex, l, q, up, k)
        BY <2>1, <2>6, <4>1, PortState
      <4>3. /\ k \in LocalIf /\ k.here = l.here /\ k.bound = l.bound /\ k.cfgSync = l.cfgSync /\ k.up = l.up /\ k.poActive = up
            /\ k.changed = (l.changed \/ l.poActive # up)
            /\ k.iso = (IF ex /\ up THEN ~q.known \/ q.poActive ELSE l.iso)
            /\ k.disable = (l.disable \/ (l.bound /\ ex /\ ~up))
        BY <4>2 DEF StateHandled, SameBut
      <4>4. k.up = up /\ l.poActive # up
        BY <2>1, <2>2, <2>6, <4>3 DEF IfKept, up
      <4>5. ex /\ k.bound /\ k.up /\ q.known => k.iso = q.poActive
        BY <2>1, <4>3, <4>4
      <4>6. k.disable => o.disable \/ (o.bound /\ ex)
        BY <2>6, <4>3
      <4> QED
        BY <2>6, <3>1, <4>3, <4>4, <4>5, <4>6
    <3>2. CASE ~l.bound
      <4>1. k = [l EXCEPT !.poActive = up]
        BY <3>2 DEF k
      <4>2. /\ k \in LocalIf /\ k.here = l.here /\ k.bound = l.bound /\ k.cfgSync = l.cfgSync /\ k.up = l.up /\ k.poActive = up
            /\ k.changed = l.changed /\ k.disable = l.disable
        BY <2>6, <4>1 DEF LocalIf
      <4>3. k.up = up
        BY <4>2 DEF up
      <4> QED
        BY <2>6, <3>2, <4>2, <4>3
    <3> QED
      BY <3>1, <3>2
  <2>8. Replaced(s, t, p, k, s.bindList, s.live, s.gone)
    BY <2>3, <2>7, <1>ReplaceIf
  <2>9. /\ t \in Daemon /\ t.ml = s.ml /\ t.wait = s.wait /\ t.conn = s.conn /\ t.warm = s.warm /\ t.pif = s.pif /\ t.out = s.out
        /\ t.lif[p] = k /\ (\A r \in Po : r # p => t.lif[r] = s.lif[r])
        /\ t.bindList = s.bindList /\ t.live = s.live /\ t.gone = s.gone
    BY <2>8 DEF Replaced
  <2>10. IfKept(k, q, p \in t.bindList)
    BY <2>2, <2>7, <2>9 DEF IfKept
  <2>11. "warm" \notin Reboot /\ ~CanReattach =>
               /\ k.bound /\ k.disable => s.ml \in {"EXCHANGE", "ERROR"}
               /\ "detach" \notin Config /\ k.disable => k.bound
    BY <2>5, <2>7 DEF ex, Exchanging
  <2>12. /\ "detach" \notin Config /\ k.here /\ (k.bound => k.cfgSync) => k.changed
         /\ k.bound /\ ~k.cfgSync => o.bound /\ ~o.cfgSync
         /\ "detach" \notin Config /\ k.bound /\ ~k.cfgSync /\ ~k.changed => ~o.changed /\ k.up = o.up
    BY <2>5, <2>7
  <2>13. /\ s.ml \in {"INIT", "STAGE1", "STAGE2"} => p \notin t.live /\ p \notin t.gone
         /\ s.ml = "EXCHANGE" /\ k.bound /\ ~k.cfgSync => p \notin t.live /\ p \notin t.gone
    BY <2>5, <2>7, <2>9
  <2>14. IfChanged(s, t, p)
    BY <2>7, <2>9, <2>10, <2>11, <2>12, <2>13 DEF IfChanged, o, q, ex
  <2> QED
    BY <2>14, IfChangedStep DEF t
<1>AttachStep. ASSUME NEW s \in Daemon, Kept(s), StopKept(s), NEW p \in Po, p \notin s.bindList, "attach" \in Config
               PROVE  LocalStep(s, Attached(s, p))
  <2> USE <1>AttachStep, Zenon
  <2> DEFINE l == s.lif[p]
             t == Attached(s, p)
             q == s.pif[p]
             ex == Exchanging(s)
             k == IF l.here THEN BindLocalIf(ex, l, q) ELSE l
             B == s.bindList \cup {p}
             V == s.live \ {p}
  <2>1. /\ l \in LocalIf /\ q \in PeerIf /\ ex \in BOOLEAN /\ l.up \in BOOLEAN /\ l.disable \in BOOLEAN /\ q.poActive \in BOOLEAN
        /\ B \in SUBSET Po /\ V \in SUBSET Po /\ p \in B /\ p \notin V
        /\ \A r \in Po : r # p => (r \in B <=> r \in s.bindList) /\ (r \in V <=> r \in s.live)
    BY DaemonFields, IfFields
  <2>2. l.poActive = l.up /\ q.up = q.poActive /\ ~l.bound
    BY DEF Kept, IfKept
  <2>3. t = [s EXCEPT !.bindList = B, !.live = V, !.lif[p] = k]
    BY DEF Attached
  <2>4. /\ "detach" \notin Config /\ l.here /\ (l.bound => l.cfgSync) => l.changed
        /\ "warm" \notin Reboot /\ ~CanReattach => ("detach" \notin Config /\ l.disable => l.bound)
        /\ s.ml \in {"INIT", "STAGE1", "STAGE2"} => p \notin s.gone
    BY DEF Kept, ChangeKept, PurgeKept, StopKept
  <2>5. "warm" \notin Reboot /\ ~CanReattach => "detach" \notin Config
    BY DEF CanReattach
  <2> HIDE DEF l, q, k, t, ex, B, V
  <2>6. /\ k \in LocalIf /\ k.here = l.here /\ k.up = l.up /\ k.poActive = l.poActive /\ k.changed = l.changed
        /\ k.disable = l.disable /\ (k.bound => k.here /\ k.cfgSync)
        /\ (ex /\ k.bound /\ k.up /\ q.known => k.iso = q.poActive)
    <3>1. CASE l.here
      <4>1. k = BindLocalIf(ex, l, q)
        BY <3>1 DEF k
      <4>2. IfBound(ex, l, q, k)
        BY <2>1, <4>1, BindIf
      <4>3. /\ k \in LocalIf /\ k.bound /\ k.cfgSync
            /\ k.here = l.here /\ k.up = l.up /\ k.poActive = l.poActive /\ k.changed = l.changed /\ k.disable = l.disable
            /\ k.iso = IF ex /\ l.poActive THEN ~q.known \/ q.poActive ELSE l.iso
        BY <4>2 DEF IfBound
      <4>4. ex /\ k.bound /\ k.up /\ q.known => k.iso = q.poActive
        BY <2>1, <2>2, <4>3
      <4> QED
        BY <3>1, <4>3, <4>4
    <3>2. CASE ~l.here
      <4>1. k = l
        BY <3>2 DEF k
      <4> QED
        BY <2>1, <2>2, <4>1
    <3> QED
      BY <3>1, <3>2
  <2>7. Replaced(s, t, p, k, B, V, s.gone)
    BY <2>1, <2>3, <2>6, <1>ReplaceBound
  <2>8. /\ t \in Daemon /\ t.ml = s.ml /\ t.wait = s.wait /\ t.conn = s.conn /\ t.warm = s.warm /\ t.pif = s.pif /\ t.out = s.out
        /\ t.lif[p] = k /\ (\A r \in Po : r # p => t.lif[r] = s.lif[r])
        /\ t.bindList = B /\ t.live = V /\ t.gone = s.gone
    BY <2>7 DEF Replaced
  <2>9. IfKept(k, q, p \in t.bindList)
    BY <2>1, <2>2, <2>6, <2>8 DEF IfKept
  <2>10. /\ "warm" \notin Reboot /\ ~CanReattach => ~k.disable
         /\ "detach" \notin Config /\ k.here /\ (k.bound => k.cfgSync) => k.changed
         /\ s.ml \in {"INIT", "STAGE1", "STAGE2"} => p \notin t.live /\ p \notin t.gone
    BY <2>1, <2>2, <2>4, <2>5, <2>6, <2>8, ZenonT(30)
  <2>11. IfChanged(s, t, p)
    BY <2>1, <2>6, <2>8, <2>9, <2>10 DEF IfChanged, l, q, ex
  <2> QED
    BY <2>11, IfChangedStep DEF t
<1>DetachStep. ASSUME NEW s \in Daemon, Kept(s), StopKept(s), NEW p \in Po, "detach" \in Config
               PROVE  LocalStep(s, Detached(s, p))
  <2> USE <1>DetachStep, Zenon
  <2> DEFINE l == s.lif[p]
             t == Detached(s, p)
             q == s.pif[p]
             iso == ~Exchanging(s) /\ l.iso
             k == [l EXCEPT !.bound = FALSE, !.iso = iso]
             B == s.bindList \ {p}
             V == IF Exchanging(s) THEN s.live \cup {p} ELSE s.live
  <2>1. /\ l \in LocalIf /\ iso \in BOOLEAN /\ B \in SUBSET Po /\ V \in SUBSET Po
        /\ \A r \in Po : r # p => (r \in B <=> r \in s.bindList) /\ (r \in V <=> r \in s.live)
        /\ ~Exchanging(s) => V = s.live
    BY DaemonFields, IfFields
  <2>2. l.poActive = l.up /\ q.up = q.poActive
    BY DEF Kept, IfKept
  <2>3. t = [s EXCEPT !.bindList = B, !.live = V, !.lif[p] = k]
    BY DEF Detached
  <2>4. s.ml \in {"INIT", "STAGE1", "STAGE2"} => p \notin V /\ p \notin s.gone
    BY DEF Kept, PurgeKept, Exchanging
  <2> HIDE DEF l, q, t, B, V, iso
  <2>5. k \in LocalIf /\ k.bound = FALSE /\ k.up = l.up /\ k.poActive = l.poActive
    BY <2>1 DEF LocalIf
  <2> HIDE DEF k
  <2>6. Replaced(s, t, p, k, B, V, s.gone)
    BY <2>1, <2>3, <2>5, <1>ReplaceBound
  <2>7. /\ t \in Daemon /\ t.ml = s.ml /\ t.wait = s.wait /\ t.conn = s.conn /\ t.warm = s.warm /\ t.pif = s.pif /\ t.out = s.out
        /\ t.lif[p] = k /\ (\A r \in Po : r # p => t.lif[r] = s.lif[r])
        /\ t.bindList = B /\ t.live = V /\ t.gone = s.gone
    BY <2>6 DEF Replaced
  <2>8. IfKept(k, q, p \in t.bindList)
    BY <2>2, <2>5 DEF IfKept
  <2>9. IfChanged(s, t, p)
    BY <2>1, <2>4, <2>5, <2>7, <2>8 DEF IfChanged, q
  <2> QED
    BY <2>9, IfChangedStep DEF t
<1>CreateStep. ASSUME NEW s \in Daemon, Kept(s), StopKept(s), NEW p \in Po, NEW up \in BOOLEAN
               PROVE  LocalStep(s, Created(s, p, up))
  <2> USE <1>CreateStep, Zenon
  <2> DEFINE a == NewLocalIf(up)
             t == Created(s, p, up)
             q == s.pif[p]
             ex == Exchanging(s)
             k == IF p \in s.bindList THEN BindLocalIf(ex, a, q) ELSE a
  <2>1. /\ q \in PeerIf /\ ex \in BOOLEAN /\ q.poActive \in BOOLEAN /\ a \in LocalIf /\ a.here = TRUE /\ a.up = up
        /\ a.bound = FALSE /\ a.poActive = up /\ a.changed = TRUE /\ a.disable = FALSE
    BY DaemonFields, IfFields, NewIf
  <2>2. q.up = q.poActive
    BY DEF Kept, IfKept
  <2>3. t = [s EXCEPT !.lif[p] = k]
    BY DEF Created
  <2>4. s.ml \in {"INIT", "STAGE1", "STAGE2"} => p \notin s.live /\ p \notin s.gone
    BY DEF Kept, PurgeKept
  <2> HIDE DEF a, q, k, t, ex
  <2>5. /\ k \in LocalIf /\ k.up = up /\ k.poActive = up /\ k.changed /\ ~k.disable
        /\ k.bound => k.here /\ k.cfgSync /\ p \in s.bindList
        /\ ex /\ k.bound /\ k.up /\ q.known => k.iso = q.poActive
    <3>1. CASE p \in s.bindList
      <4>1. k = BindLocalIf(ex, a, q)
        BY <3>1 DEF k
      <4>2. IfBound(ex, a, q, k)
        BY <2>1, <4>1, BindIf
      <4>3. /\ k \in LocalIf /\ k.bound /\ k.cfgSync
            /\ k.here = a.here /\ k.up = a.up /\ k.poActive = a.poActive /\ k.changed = a.changed /\ k.disable = a.disable
            /\ k.iso = IF ex /\ a.poActive THEN ~q.known \/ q.poActive ELSE a.iso
        BY <4>2 DEF IfBound
      <4>4. ex /\ k.bound /\ k.up /\ q.known => k.iso = q.poActive
        BY <2>1, <4>3
      <4> QED
        BY <2>1, <3>1, <4>3, <4>4
    <3>2. CASE p \notin s.bindList
      <4>1. k = a
        BY <3>2 DEF k
      <4> QED
        BY <2>1, <4>1
    <3> QED
      BY <3>1, <3>2
  <2>6. Replaced(s, t, p, k, s.bindList, s.live, s.gone)
    BY <2>3, <2>5, <1>ReplaceIf
  <2>7. /\ t \in Daemon /\ t.ml = s.ml /\ t.wait = s.wait /\ t.conn = s.conn /\ t.warm = s.warm /\ t.pif = s.pif /\ t.out = s.out
        /\ t.lif[p] = k /\ (\A r \in Po : r # p => t.lif[r] = s.lif[r])
        /\ t.bindList = s.bindList /\ t.live = s.live /\ t.gone = s.gone
    BY <2>6 DEF Replaced
  <2>8. IfKept(k, q, p \in t.bindList)
    BY <2>2, <2>5, <2>7 DEF IfKept
  <2>9. IfChanged(s, t, p)
    BY <2>4, <2>5, <2>7, <2>8 DEF IfChanged, q, ex
  <2> QED
    BY <2>9, IfChangedStep DEF t
<1>DestroyStep. ASSUME NEW s \in Daemon, Kept(s), StopKept(s), NEW p \in Po
                PROVE  LocalStep(s, Destroyed(s, p))
  <2> USE <1>DestroyStep, Zenon
  <2> DEFINE t == Destroyed(s, p)
             q == s.pif[p]
             k == NoLocalIf
             V == s.live \ {p}
             G == IF (s.lif[p].bound /\ Exchanging(s)) \/ p \in s.live THEN s.gone \cup {p} ELSE s.gone
  <2>1. /\ k \in LocalIf /\ k.here = FALSE /\ k.up = FALSE /\ k.poActive = FALSE /\ k.bound = FALSE /\ k.disable = FALSE
    BY NewIf
  <2>2. /\ G \in SUBSET Po /\ V \in SUBSET Po
        /\ \A r \in Po : r # p => (r \in G <=> r \in s.gone) /\ (r \in V <=> r \in s.live)
    BY DaemonFields
  <2>3. q.up = q.poActive
    BY DEF Kept, IfKept
  <2>4. t = [s EXCEPT !.live = V, !.gone = G, !.lif[p] = k]
    BY DEF Destroyed
  <2>5. s.ml \in {"INIT", "STAGE1", "STAGE2"} => p \notin V /\ p \notin G
    BY DEF Kept, PurgeKept, Exchanging
  <2> HIDE DEF q, k, t, V, G
  <2>6. Replaced(s, t, p, k, s.bindList, V, G)
    BY <2>1, <2>2, <2>4, <1>ReplaceGone
  <2>7. /\ t \in Daemon /\ t.ml = s.ml /\ t.wait = s.wait /\ t.conn = s.conn /\ t.warm = s.warm /\ t.pif = s.pif /\ t.out = s.out
        /\ t.lif[p] = k /\ (\A r \in Po : r # p => t.lif[r] = s.lif[r])
        /\ t.bindList = s.bindList /\ t.live = V /\ t.gone = G
    BY <2>6 DEF Replaced
  <2>8. IfKept(k, q, p \in t.bindList)
    BY <2>1, <2>3 DEF IfKept
  <2>9. IfChanged(s, t, p)
    BY <2>1, <2>2, <2>5, <2>7, <2>8 DEF IfChanged, q
  <2> QED
    BY <2>9, IfChangedStep DEF t
<1>Main. ASSUME Inv, NEW n \in Node, NEW p \in Po,
                LinkChange(n, p) \/ Attach(n, p) \/ Detach(n, p) \/ Create(n, p) \/ Destroy(n, p)
         PROVE  Inv'
  <2> USE <1>Main, Zenon
  <2> DEFINE d == daemon[n]
  <2>1. d \in Daemon /\ Kept(d) /\ StopKept(d) /\ Counted
    BY InvTurn
  <2>2. CASE LinkChange(n, p)
    <3> DEFINE t == LinkChanged(d, p)
    <3>1. daemon' = [daemon EXCEPT ![n] = t]
      BY <2>2 DEF LinkChange, LinkChanged
    <3>2. /\ flaps < MaxFlap /\ flaps' = flaps + 1 /\ cfgs' = cfgs /\ drops' = drops
          /\ open' = open /\ wire' = wire
      BY <2>2 DEF LinkChange
    <3>3. LocalStep(daemon[n], t)
      BY <2>1, <1>LinkChangeStep
    <3>4. Counted'
      BY <2>1, <3>2, CountedStep
    <3> HIDE DEF t
    <3> QED
      BY <3>1, <3>2, <3>3, <3>4, LocalInv
  <2>3. ASSUME NEW kind, Configure(kind)
        PROVE  kind \in Config /\ open' = open /\ wire' = wire /\ Counted'
    <3>1. /\ cfgs < MaxCfg /\ cfgs' = cfgs + 1 /\ flaps' = flaps /\ drops' = drops
          /\ kind \in Config /\ open' = open /\ wire' = wire
      BY <2>3 DEF Configure
    <3>2. Counted'
      BY <2>1, <3>1, CountedStep
    <3> QED
      BY <3>1, <3>2
  <2>4. CASE Attach(n, p)
    <3> DEFINE t == Attached(d, p)
    <3>1. daemon' = [daemon EXCEPT ![n] = t]
      BY <2>4 DEF Attach, Attached
    <3>2. p \notin d.bindList /\ "attach" \in Config /\ open' = open /\ wire' = wire /\ Counted'
      BY <2>3, <2>4 DEF Attach
    <3>3. LocalStep(daemon[n], t)
      BY <2>1, <3>2, <1>AttachStep
    <3> HIDE DEF t
    <3> QED
      BY <3>1, <3>2, <3>3, LocalInv
  <2>5. CASE Detach(n, p)
    <3> DEFINE t == Detached(d, p)
    <3>1. daemon' = [daemon EXCEPT ![n] = t]
      BY <2>5 DEF Detach, Detached
    <3>2. "detach" \in Config /\ open' = open /\ wire' = wire /\ Counted'
      BY <2>3, <2>5 DEF Detach
    <3>3. LocalStep(daemon[n], t)
      BY <2>1, <3>2, <1>DetachStep
    <3> HIDE DEF t
    <3> QED
      BY <3>1, <3>2, <3>3, LocalInv
  <2>6. CASE Create(n, p)
    <3>1. PICK up \in BOOLEAN : daemon' = [daemon EXCEPT ![n] = Created(d, p, up)]
      BY <2>6 DEF Create, Created
    <3> DEFINE t == Created(d, p, up)
    <3>2. open' = open /\ wire' = wire /\ Counted'
      BY <2>3, <2>6 DEF Create
    <3>3. LocalStep(daemon[n], t)
      BY <2>1, <1>CreateStep
    <3>4. daemon' = [daemon EXCEPT ![n] = t]
      BY <3>1
    <3> HIDE DEF t
    <3> QED
      BY <3>2, <3>3, <3>4, LocalInv
  <2>7. CASE Destroy(n, p)
    <3> DEFINE t == Destroyed(d, p)
    <3>1. daemon' = [daemon EXCEPT ![n] = t]
      BY <2>7 DEF Destroy, Destroyed
    <3>2. open' = open /\ wire' = wire /\ Counted'
      BY <2>3, <2>7 DEF Destroy
    <3>3. LocalStep(daemon[n], t)
      BY <2>1, <1>DestroyStep
    <3> HIDE DEF t
    <3> QED
      BY <3>1, <3>2, <3>3, LocalInv
  <2> QED
    BY <2>2, <2>4, <2>5, <2>6, <2>7
<1> QED
  BY <1>Main, Zenon

\* the initial states
LEMMA InitInv == Init => Inv
<1> SUFFICES ASSUME Init PROVE Inv
  BY Zenon
<1> DEFINE D == {Started(up, bind) : up \in [Po -> BOOLEAN], bind \in SUBSET Po}
<1>1. daemon \in [Node -> D]
  BY SMTT(40) DEF Init
<1>2. ASSUME NEW n \in Node PROVE Closed(daemon[n]) /\ daemon[n].out = <<>>
  <2>1. daemon[n] \in D
    BY <1>1, SMTT(40)
  <2>2. PICK up \in [Po -> BOOLEAN], bind \in SUBSET Po : daemon[n] = Started(up, bind)
    BY <2>1, SMTT(40)
  <2> DEFINE t == daemon[n]
  <2>3. FreshDaemon(t, bind)
    BY <2>2, StartedStep, Zenon
  <2> HIDE DEF t
  <2>4. t \in Daemon /\ t.ml = "INIT" /\ ~t.warm /\ t.live = {} /\ t.gone = {} /\ t.out = <<>>
    BY <2>3, Zenon DEF FreshDaemon
  <2>5. \A p \in Po : t.pif[p] = NoPif
    BY <2>3, Zenon DEF FreshDaemon
  <2>6. \A p \in Po : FreshIf(t.lif[p], p \in t.bindList)
    BY <2>3, Zenon DEF FreshDaemon
  <2>7. Closed(t)
    BY <2>4, <2>5, <2>6, FreshClosed, Zenon
  <2> QED
    BY <2>4, <2>7, Zenon DEF t
<1> DEFINE empty == <<>>
<1>3. open = [n \in Node |-> FALSE] /\ wire = [n \in Node |-> empty] /\ flaps = 0 /\ cfgs = 0 /\ drops = 0
  BY Zenon DEF Init
<1>4. empty \in Seq(Msg) /\ NoWarm(empty)
  BY SMTT(40) DEF NoWarm
<1> HIDE DEF empty
<1>5. daemon \in [Node -> Daemon]
  <2>1. \A n \in Node : daemon[n] \in Daemon
    BY <1>2, Zenon DEF Closed
  <2> HIDE DEF D
  <2> QED
    BY <1>1, <2>1, Zenon
<1>6. 0 \in 0 .. MaxFlap /\ 0 \in 0 .. MaxCfg /\ 0 \in 0 .. MaxDrop
  <2>1. \A M \in Nat : 0 \in 0 .. M
    BY SMTT(40)
  <2> QED
    BY <2>1, LinkAssumption, Zenon
<1>7. TypeOK
  BY <1>2, <1>3, <1>4, <1>5, <1>6, Zenon DEF TypeOK
<1>8. \A n \in Node : /\ Kept(daemon[n]) /\ StopKept(daemon[n]) /\ daemon[n].ml = "INIT" /\ ~open[n] /\ NoWarm(wire[n])
  BY <1>2, <1>3, <1>4, Zenon DEF Closed
<1>9. ~open[Lo]
  BY <1>8, Zenon DEF Node
<1> QED
  BY <1>7, <1>8, <1>9, Zenon DEF Inv

\* every step keeps the invariant
LEMMA NextInv == Inv /\ [Next]_vars => Inv'
<1> USE Zenon
<1> SUFFICES ASSUME Inv, [Next]_vars PROVE Inv'
  OBVIOUS
<1>1. CASE UNCHANGED vars
  BY <1>1 DEF vars, Inv, TypeOK
<1>2. CASE Connect
  BY <1>2, ConnectInv
<1>3. ASSUME NEW n \in Node,
             \/ Idle(n) \/ Handle(n) \/ Lose(n) \/ Eof(n)
             \/ \E kind \in Reboot : Restart(n, kind)
             \/ \E p \in Po : LinkChange(n, p) \/ Attach(n, p) \/ Detach(n, p) \/ Create(n, p) \/ Destroy(n, p)
      PROVE  Inv'
  <2>1. CASE Idle(n)
    BY <2>1, IdleInv
  <2>2. CASE Handle(n)
    BY <2>2, HandleInv
  <2>3. CASE Lose(n) \/ Eof(n)
    BY <2>3, LoseInv
  <2>4. CASE \E kind \in Reboot : Restart(n, kind)
    BY <2>4, RestartInv
  <2>5. CASE \E p \in Po : LinkChange(n, p) \/ Attach(n, p) \/ Detach(n, p) \/ Create(n, p) \/ Destroy(n, p)
    BY <2>5, PortInv
  <2> QED
    BY <1>3, <2>1, <2>2, <2>3, <2>4, <2>5
<1> QED
  BY <1>1, <1>2, <1>3 DEF Next

\* Every reachable state of the two daemons satisfies the inductive invariant:
\* the handlers of the link events, of the configuration, of the messages and of
\* the session keep what each daemon knows in step with what the other has told.
THEOREM InvHolds == Spec => []Inv
<1>1. Init => Inv
  BY InitInv, Zenon
<1>2. Inv /\ [Next]_vars => Inv'
  BY NextInv, Zenon
<1> QED
  BY <1>1, <1>2, PTL DEF Spec

\* Whatever the number of port channels and the order of the events, the state
\* stays well typed: in particular every message on a stream is one of the
\* protocol, and a daemon's pass leaves nothing unsent.
THEOREM TypeCorrect == Spec => []TypeOK
<1>1. Inv => TypeOK
  BY Zenon DEF Inv
<1> QED
  BY <1>1, InvHolds, PTL

\* Once the peers are quiet, the isolation of a port channel that is up from the
\* peer link (update_peerlink_isolate_from_lif and _from_pif) is what the state
\* announced by the peer asks for, with any number of port channels.
THEOREM IsolationFollowsPeerHolds == Spec => []IsolationFollowsPeer
<1>1. Inv => IsolationFollowsPeer
  <2> USE Zenon
  <2> SUFFICES ASSUME Inv, Quiescent, NEW n \in Node, NEW p \in Po,
                      daemon[n].lif[p].bound, daemon[n].lif[p].up, daemon[n].pif[p].known
               PROVE  daemon[n].lif[p].iso = daemon[n].pif[p].poActive
    BY DEF IsolationFollowsPeer
  <2>1. Exchanging(daemon[n]) /\ daemon[n].conn
    BY DEF Quiescent
  <2>2. IsoKept(daemon[n])
    BY DEF Inv, Kept
  <2> QED
    BY <2>1, <2>2 DEF IsoKept
<1> QED
  BY <1>1, InvHolds, PTL

\* what an empty stream says of an announced interface
LEMMA ToldQuiet ==
  ASSUME NEW s, NEW r, NEW w, w = <<>>, Told(s, r, w), NEW p \in Po, s.lif[p].bound, ~s.lif[p].cfgSync
  PROVE  r.pif[p].known /\ ("detach" \notin Config /\ ~s.lif[p].changed => r.pif[p].up = s.lif[p].up)
<1>1. Len(w) = 0
  BY SMTT(40)
<1>2. \A i \in 1 .. 0 : FALSE
  BY SMTT(40)
<1>3. KnownAt(r.pif[p], w, p, 0)
  BY <1>1, Zenon DEF Told, KnownAfter
<1>4. r.pif[p].known
  BY <1>2, <1>3, Zenon DEF KnownAt
<1>5. ASSUME "detach" \notin Config, ~s.lif[p].changed PROVE r.pif[p].up = s.lif[p].up
  <2>1. StateAfter(r.pif[p], w, p, s.lif[p].up)
    BY <1>5, Zenon DEF Told
  <2> QED
    BY <1>1, <1>2, <2>1, Zenon DEF StateAfter
<1> QED
  BY <1>4, <1>5, Zenon

\* what each daemon has told the other when they are quiet
LEMMA QuietTold ==
  ASSUME Inv, Quiescent, NEW n \in Node, NEW p \in Po, daemon[Peer(n)].lif[p].bound
  PROVE  /\ daemon[n].pif[p].known
         /\ "detach" \notin Config => daemon[n].pif[p].poActive = daemon[Peer(n)].lif[p].up
<1> USE Zenon
<1> DEFINE s == daemon[Peer(n)]
           r == daemon[n]
           w == wire[n]
<1>1. Lo \in Node /\ Hi \in Node /\ Peer(n) \in Node
  BY NodeFacts
<1>2. /\ open[Lo] /\ open[Hi] /\ daemon[Lo].ml = "EXCHANGE" /\ daemon[Hi].ml = "EXCHANGE" /\ w = <<>>
      /\ \A o \in Bound(s) : ~s.lif[o].changed /\ ~s.lif[o].cfgSync
  BY <1>1 DEF Quiescent, Exchanging
<1>3. InStep(daemon[Lo], daemon[Hi], wire[Lo], wire[Hi])
  BY <1>2 DEF Inv
<1>4. Told(daemon[Lo], daemon[Hi], wire[Hi]) /\ Told(daemon[Hi], daemon[Lo], wire[Lo])
  BY <1>2, <1>3 DEF InStep
<1>5. Told(s, r, w)
  <2>1. CASE n = Lo /\ Peer(n) = Hi
    BY <1>4, <2>1
  <2>2. CASE n = Hi /\ Peer(n) = Lo
    BY <1>4, <2>2
  <2> QED
    BY <2>1, <2>2, NodeFacts
<1>6. s.lif[p].bound /\ ~s.lif[p].cfgSync /\ ~s.lif[p].changed
  BY <1>2 DEF Bound
<1>7. r.pif[p].up = r.pif[p].poActive
  BY DEF Inv, Kept, IfKept
<1> HIDE DEF s, r, w
<1>8. r.pif[p].known /\ ("detach" \notin Config => r.pif[p].up = s.lif[p].up)
  BY <1>2, <1>5, <1>6, ToldQuiet
<1> QED
  BY <1>7, <1>8 DEF s, r

\* Once the peers are quiet, each has every port channel the other has bound in
\* its pif_list, whatever the order of attach, detach, create and destroy, of
\* session losses and of restarts: no announcement is lost or overtaken.
THEOREM EveryMemberKnownHolds == Spec => []EveryMemberKnown
<1>1. Inv => EveryMemberKnown
  BY QuietTold, Zenon DEF EveryMemberKnown
<1> QED
  BY <1>1, InvHolds, PTL

\* Where no port channel is detached, each daemon's view of the link states of
\* its peer is right once they are quiet: the initial synchronisation, the
\* updates of mlacp_exchange_handler and reconnections never leave an old state.
\* With detach it fails, as a link change of an unbound port channel is not marked.
THEOREM PeerStateAgreesHolds == ASSUME "detach" \notin Config PROVE Spec => []PeerStateAgrees
<1>1. Inv => PeerStateAgrees
  BY QuietTold, Zenon DEF PeerStateAgrees
<1> QED
  BY <1>1, InvHolds, PTL

\* Where no daemon makes a warm reboot and port channels are not both attached
\* and detached, traffic is disabled on a bound port channel only in an exchange
\* (mlacp_link_disable_traffic_distribution): the end of a session, by time-out,
\* end of file or crash, leaves no port channel without traffic.
THEOREM DisabledOnlyInSessionHolds ==
  ASSUME "warm" \notin Reboot, ~({"attach", "detach"} \subseteq Config)
  PROVE  Spec => []DisabledOnlyInSession
<1>1. Inv => DisabledOnlyInSession
  <2> USE Zenon
  <2> SUFFICES ASSUME Inv, NEW n \in Node, NEW p \in Po, daemon[n].lif[p].bound, daemon[n].lif[p].disable
               PROVE  open[n] /\ daemon[n].ml \in {"EXCHANGE", "ERROR"}
    BY DEF DisabledOnlyInSession
  <2>1. StopKept(daemon[n]) /\ (~open[n] => daemon[n].ml = "INIT")
    BY DEF Inv
  <2>2. daemon[n].ml \in {"EXCHANGE", "ERROR"}
    BY <2>1 DEF StopKept, CanReattach
  <2> QED
    BY <2>1, <2>2
<1> QED
  BY <1>1, InvHolds, PTL
=============================================================================
