--------------------------- MODULE MacSync_proofs ---------------------------
(***************************************************************************)
(* Proofs about MacSync, for any two daemons, ports, kinds of events and    *)
(* bounds: the life of an entry between the tree and the list of updates,   *)
(* and what the two daemons hold for each other.                            *)
(***************************************************************************)
EXTENDS MacSync, TLAPS

LEMMA SeqDef == \A S : Seq(S) = UNION {[1..n -> S] : n \in Nat}
  OBVIOUS

LEMMA SeqMonotone ==
  ASSUME NEW S, NEW T, S \subseteq T
  PROVE  Seq(S) \subseteq Seq(T)
  OBVIOUS

LEMMA CatParts ==
  ASSUME NEW T, NEW a \in Seq(T), NEW b \in Seq(T)
  PROVE  /\ Len(a) \in Nat /\ Len(b) \in Nat /\ DOMAIN (a \o b) = 1..(Len(a) + Len(b))
         /\ \A i \in DOMAIN (a \o b) : (a \o b)[i] = IF i <= Len(a) THEN a[i] ELSE b[i - Len(a)]
  OBVIOUS

-----------------------------------------------------------------------------
(* The invariant, one daemon at a time: its state is typed, the entry is in *)
(* the list at most once and only while in the tree, and it is not aged on  *)
(* both sides.  Well leaves out the last, which the handlers break between  *)
(* setting an age flag and removing the entry.                              *)

QueueOnce(s) ==
    \A i, j \in DOMAIN s.q : s.q[i].own => Known(s) /\ (s.q[j].own => i = j)

Well(s) == s \in Daemon /\ QueueOnce(s)

Good(s) == Well(s) /\ (Known(s) => s.mac.age # Both)

LEMMA PeerType == \A n \in Node : Peer(n) \in Node /\ Peer(n) # n
  BY MacAssumption DEF Node, Peer

LEMMA KnownType ==
  ASSUME NEW s \in Daemon, Known(s)
  PROVE  s.mac \in MacMsg
  BY Zenon DEF Daemon, Known

LEMMA NewMac ==
  ASSUME NEW m \in MacMsg
  PROVE  m # NoMac
  BY DEF MacMsg, NoMac, Learned

LEMMA OwnIsTree ==
  ASSUME NEW e \in Queued
  PROVE  /\ e.own \in BOOLEAN /\ (e.own <=> e = TreeEntry)
         /\ ~e.own => e.op \in {"ADD", "DEL", "NONE"} /\ e.origin \in Learned
<1>1. TreeEntry.own = TRUE
  BY Zenon DEF TreeEntry
<1>2. CASE e = TreeEntry
  BY <1>1, <1>2, ZenonT(40)
<1>3. CASE e \in [own : {FALSE}, op : {"ADD", "DEL", "NONE"}, origin : Learned]
  <2>1. e.own = FALSE /\ e.op \in {"ADD", "DEL", "NONE"} /\ e.origin \in Learned
    BY <1>3, ZenonT(40)
  <2> QED
    BY <1>1, <2>1, ZenonT(40)
<1> QED
  BY <1>2, <1>3, ZenonT(40) DEF Queued

\* Replacing the entry of the tree by another leaves the list as it is.
LEMMA UpdateMac ==
  ASSUME NEW s, Well(s), Known(s), NEW m \in MacMsg
  PROVE  LET k == [s EXCEPT !.mac = m]
         IN  Well(k) /\ Known(k) /\ k.mac = m /\ k.q = s.q
<1> DEFINE k == [s EXCEPT !.mac = m]
<1>1. k \in Daemon /\ k.mac = m /\ k.q = s.q
  BY Zenon DEF Well, Daemon
<1>2. Known(k)
  BY <1>1, NewMac, Zenon DEF Known
<1>3. QueueOnce(k)
  BY <1>1, <1>2, Zenon DEF Well, QueueOnce
<1> QED
  BY <1>1, <1>2, <1>3, Zenon DEF Well

LEMMA EnqueueWell ==
  ASSUME NEW s, Well(s), Known(s), NEW op \in {"ADD", "DEL", "NONE"}
  PROVE  /\ Well(Enqueue(s, op)) /\ Known(Enqueue(s, op))
         /\ Enqueue(s, op).mac = [s.mac EXCEPT !.op = op]
<1> DEFINE m == [s.mac EXCEPT !.op = op]
           r == IF InMsgList(s) THEN s.q ELSE Append(s.q, TreeEntry)
           k == Enqueue(s, op)
<1>1. s \in Daemon /\ s.mac \in MacMsg /\ s.q \in Seq(Queued)
  BY KnownType, Zenon DEF Well, Daemon
<1>2. m \in MacMsg
  BY <1>1, Zenon DEF MacMsg
<1>3. r \in Seq(Queued)
  <2>1. TreeEntry \in Queued
    BY Zenon DEF Queued
  <2> QED
    BY <1>1, <2>1
<1>4. k \in Daemon /\ k.mac = m /\ k.q = r
  BY <1>1, <1>2, <1>3, ZenonT(40) DEF Enqueue, Daemon
<1>5. Known(k)
  BY <1>2, <1>4, NewMac, Zenon DEF Known
<1>6. ASSUME NEW i \in DOMAIN r, NEW j \in DOMAIN r, r[i].own, r[j].own
      PROVE  i = j
  <2>1. CASE InMsgList(s)
    BY <1>6, <2>1, Zenon DEF Well, QueueOnce
  <2>2. CASE ~InMsgList(s)
    <3>1. \A h \in 1..Len(s.q) : ~s.q[h].own
      BY <2>2, <1>1, OwnIsTree DEF InMsgList
    <3>2. Len(s.q) \in Nat /\ DOMAIN r = 1..(Len(s.q) + 1) /\ \A h \in 1..Len(s.q) : r[h] = s.q[h]
      BY <2>2, <1>1
    <3> QED
      BY <1>6, <3>1, <3>2
  <2> QED
    BY <2>1, <2>2, Zenon
<1>7. QueueOnce(k)
  BY <1>4, <1>5, <1>6, Zenon DEF QueueOnce
<1> QED
  BY <1>4, <1>5, <1>7, Zenon DEF Well

LEMMA AgeOps ==
  ASSUME NEW s, Well(s), Known(s)
  PROVE  /\ Well(SetLocalAge(s)) /\ Known(SetLocalAge(s))
         /\ SetLocalAge(s).mac.age = s.mac.age \cup {"LOCAL"}
         /\ Well(ClearLocalAge(s)) /\ Known(ClearLocalAge(s))
         /\ ClearLocalAge(s).mac.age = s.mac.age \ {"LOCAL"}
<1> DEFINE m1 == [s.mac EXCEPT !.age = s.mac.age \cup {"LOCAL"}]
           m0 == [s.mac EXCEPT !.age = s.mac.age \ {"LOCAL"}]
           k1 == [s EXCEPT !.mac = m1]
           k0 == [s EXCEPT !.mac = m0]
<1>1. s \in Daemon /\ s.mac \in MacMsg
  BY KnownType, Zenon DEF Well
<1>2. s.mac.age \cup {"LOCAL"} \in SUBSET {"LOCAL", "PEER"} /\ s.mac.age \ {"LOCAL"} \in SUBSET {"LOCAL", "PEER"}
  BY <1>1, Zenon DEF MacMsg
<1>3. /\ m1 \in MacMsg /\ m0 \in MacMsg
      /\ m1.age = s.mac.age \cup {"LOCAL"} /\ m0.age = s.mac.age \ {"LOCAL"}
  BY <1>1, <1>2, Zenon DEF MacMsg
<1>4. Well(k1) /\ Known(k1) /\ k1.mac = m1 /\ Well(k0) /\ Known(k0) /\ k0.mac = m0
  BY <1>3, UpdateMac, Zenon
<1>5. /\ k1 = [s EXCEPT !.mac.age = @ \cup {"LOCAL"}]
      /\ k0 = [s EXCEPT !.mac.age = @ \ {"LOCAL"}]
  BY <1>1, Zenon DEF Daemon
<1> HIDE DEF k1, k0, m1, m0
<1>6. /\ Well(Enqueue(k1, "DEL")) /\ Known(Enqueue(k1, "DEL")) /\ Enqueue(k1, "DEL").mac = [m1 EXCEPT !.op = "DEL"]
      /\ Well(Enqueue(k0, "ADD")) /\ Known(Enqueue(k0, "ADD")) /\ Enqueue(k0, "ADD").mac = [m0 EXCEPT !.op = "ADD"]
  BY <1>4, EnqueueWell, ZenonT(40)
<1>7. [m1 EXCEPT !.op = "DEL"].age = m1.age /\ [m0 EXCEPT !.op = "ADD"].age = m0.age
  BY <1>3, Zenon DEF MacMsg
<1>8. Well(SetLocalAge(s)) /\ Known(SetLocalAge(s)) /\ SetLocalAge(s).mac.age = m1.age
  BY <1>4, <1>5, <1>6, <1>7, ZenonT(40) DEF SetLocalAge
<1>9. Well(ClearLocalAge(s)) /\ Known(ClearLocalAge(s)) /\ ClearLocalAge(s).mac.age = m0.age
  BY <1>4, <1>5, <1>6, <1>7, ZenonT(40) DEF ClearLocalAge
<1> QED
  BY <1>3, <1>8, <1>9, Zenon

\* A removed entry leaves the list without a reference into the tree.
LEMMA RbRemoveGood ==
  ASSUME NEW s, Well(s), Known(s), NEW op \in {"ADD", "DEL", "NONE"}
  PROVE  Good(RbRemove(s, op))
<1> DEFINE o == [own |-> FALSE, op |-> op, origin |-> s.mac.origin]
           r == [i \in DOMAIN s.q |-> IF s.q[i] = TreeEntry THEN o ELSE s.q[i]]
           k == RbRemove(s, op)
<1>1. s \in Daemon /\ s.mac \in MacMsg /\ s.q \in Seq(Queued)
  BY KnownType, Zenon DEF Well, Daemon
<1>2. o \in Queued /\ o.own = FALSE
  BY <1>1, Zenon DEF MacMsg, Queued
<1>3. Len(s.q) \in Nat /\ DOMAIN s.q = 1..Len(s.q) /\ \A i \in 1..Len(s.q) : s.q[i] \in Queued
  BY <1>1
<1> HIDE DEF o
<1>4. \A i \in 1..Len(s.q) : r[i] \in Queued /\ ~r[i].own
  BY <1>2, <1>3, OwnIsTree, Zenon
<1>5. r \in Seq(Queued)
  <2>1. r \in [1..Len(s.q) -> Queued]
    BY <1>3, <1>4, ZenonT(40)
  <2> HIDE DEF r
  <2> QED
    BY <1>3, <2>1, SeqDef, Zenon
<1>6. k \in Daemon /\ k.mac = NoMac /\ k.q = r
  <2>1. k = [s EXCEPT !.mac = NoMac, !.q = r]
    BY <1>1, Zenon DEF RbRemove, Daemon, o
  <2> HIDE DEF k, r
  <2> QED
    BY <2>1, <1>1, <1>5, ZenonT(40) DEF Daemon
<1>7. \A i \in DOMAIN r : ~r[i].own
  BY <1>3, <1>4, ZenonT(40)
<1> HIDE DEF r, k
<1>8. QueueOnce(k)
  BY <1>6, <1>7, Zenon DEF QueueOnce
<1> QED
  BY <1>6, <1>8, Zenon DEF Good, Well, Known, k

LEMMA RemoveGood ==
  ASSUME NEW s, Well(s), Known(s)
  PROVE  Good(RemoveIfAged(s)) /\ Good(RemoveOrRedirect(s))
<1> DEFINE m == [s.mac EXCEPT !.port = "pl"]
           k == [s EXCEPT !.mac = m]
<1>1. s \in Daemon /\ s.mac \in MacMsg
  BY KnownType, Zenon DEF Well
<1>2. Good(RbRemove(s, s.mac.op))
  BY <1>1, RbRemoveGood, Zenon DEF MacMsg
<1>3. m \in MacMsg /\ m.age = s.mac.age
  BY <1>1, Zenon DEF MacMsg
<1>4. Well(k) /\ k.mac = m
  BY <1>3, UpdateMac, Zenon
<1>5. k = [s EXCEPT !.mac.port = "pl"]
  BY <1>1, Zenon DEF Daemon
<1>6. s.mac.age # Both => Good(s) /\ Good(k)
  BY <1>3, <1>4, ZenonT(40) DEF Good
<1> QED
  BY <1>2, <1>5, <1>6, Zenon DEF RemoveIfAged, RemoveOrRedirect
-----------------------------------------------------------------------------
(* Each handler keeps Good.                                                 *)

LEMMA Frame ==
  ASSUME NEW s, NEW k \in Daemon, k.mac = s.mac, k.q = s.q
  PROVE  (Well(s) => Well(k)) /\ (Good(s) => Good(k)) /\ (Known(s) => Known(k))
  BY Zenon DEF Well, Good, QueueOnce, Known

LEMMA GoodMac ==
  ASSUME NEW s, Well(s), Known(s), NEW m \in MacMsg, m.age # Both
  PROVE  Good([s EXCEPT !.mac = m])
  BY UpdateMac, Zenon DEF Good

LEMMA EnqueueGood ==
  ASSUME NEW s, Good(s), Known(s), NEW op \in {"ADD", "DEL", "NONE"}
  PROVE  Good(Enqueue(s, op)) /\ Known(Enqueue(s, op))
<1>1. s.mac \in MacMsg
  BY KnownType, Zenon DEF Good, Well
<1>2. [s.mac EXCEPT !.op = op].age = s.mac.age
  BY <1>1, Zenon DEF MacMsg
<1> QED
  BY <1>2, EnqueueWell, ZenonT(40) DEF Good

LEMMA SyncdAddGood ==
  ASSUME NEW s, Good(s), NEW port \in Learned
  PROVE  Good(SyncdAdd(s, port))
<1> DEFINE new == [port |-> port, origin |-> port, age |-> {"PEER"}, pending |-> FALSE, op |-> "ADD"]
           down == port = "po" /\ ~s.po
<1>1. s \in Daemon /\ Well(s)
  BY Zenon DEF Good, Well
<1>2. {"PEER"} # Both /\ {"LOCAL"} # Both /\ {} # Both
  BY DEF Both
<1>3. new \in MacMsg /\ new.age # Both
  BY <1>2, Zenon DEF MacMsg
<1>4. CASE Known(s)
  <2> DEFINE m1 == [s.mac EXCEPT !.pending = TRUE, !.origin = port, !.port = "pl"]
             m2 == [s.mac EXCEPT !.port = port, !.origin = port]
             k1 == [s EXCEPT !.mac = m1]
             k2 == [s EXCEPT !.mac = m2]
             c2 == ClearLocalAge(k2)
             m3 == [c2.mac EXCEPT !.age = {"PEER"}]
             k3 == [c2 EXCEPT !.mac = m3]
  <2>1. s.mac \in MacMsg /\ s.mac.age # Both
    BY <1>1, <1>4, KnownType, Zenon DEF Good
  <2>2. m1 \in MacMsg /\ m1.age = s.mac.age /\ m2 \in MacMsg
    BY <2>1, ZenonT(40) DEF MacMsg
  <2>3. Good(k1)
    BY <1>1, <1>4, <2>1, <2>2, GoodMac, ZenonT(40)
  <2>4. Well(k2) /\ Known(k2)
    BY <1>1, <1>4, <2>2, UpdateMac, Zenon
  <2>5. /\ k1 = [s EXCEPT !.mac.pending = TRUE, !.mac.origin = port, !.mac.port = "pl"]
        /\ k2 = [s EXCEPT !.mac.port = port, !.mac.origin = port]
    BY <1>1, <2>1, ZenonT(40) DEF Daemon, MacMsg
  <2> HIDE DEF k1, k2, m1, m2
  <2>6. Well(c2) /\ Known(c2)
    BY <2>4, AgeOps, Zenon
  <2> HIDE DEF c2
  <2>7. c2 \in Daemon /\ c2.mac \in MacMsg
    BY <2>6, KnownType, Zenon DEF Well
  <2>8. m3 \in MacMsg /\ m3.age # Both
    BY <2>7, <1>2, Zenon DEF MacMsg
  <2>9. Good(k3)
    BY <2>6, <2>8, GoodMac, ZenonT(40)
  <2>10. k3 = [c2 EXCEPT !.mac.age = {"PEER"}]
    BY <2>7, Zenon DEF Daemon
  <2> HIDE DEF k3, m3
  <2>11. Well(ClearLocalAge(s)) /\ ClearLocalAge(s).mac.age = s.mac.age \ {"LOCAL"}
    BY <1>1, <1>4, AgeOps, Zenon
  <2>12. Good(ClearLocalAge(s))
    BY <2>11, Zenon DEF Good, Both
  <2>13. SyncdAdd(s, port) \in {k1, k3, ClearLocalAge(s)}
    BY <1>4, <2>5, <2>10, Zenon DEF SyncdAdd, c2
  <2> QED
    BY <2>3, <2>9, <2>12, <2>13, Zenon
<1>5. CASE ~Known(s)
  <2> DEFINE r == IF s.ex THEN Append(s.q, TreeEntry) ELSE s.q
             k1 == [s EXCEPT !.mac = new]
             k2 == [s EXCEPT !.mac = new, !.q = r]
  <2>1. SyncdAdd(s, port) \in {s, k1, k2}
    BY <1>1, <1>5, Zenon DEF SyncdAdd, Daemon
  <2>2. s.q \in Seq(Queued) /\ TreeEntry \in Queued
    BY <1>1, Zenon DEF Daemon, Queued
  <2>3. \A i \in 1..Len(s.q) : ~s.q[i].own
    BY <1>1, <1>5, <2>2 DEF Well, QueueOnce
  <2>4. r \in Seq(Queued)
    BY <2>2
  <2> HIDE DEF new
  <2>5. /\ k1 \in Daemon /\ k1.mac = new /\ k1.q = s.q
        /\ k2 \in Daemon /\ k2.mac = new /\ k2.q = r
    BY <1>1, <1>3, <2>4, ZenonT(40) DEF Daemon
  <2>6. new # NoMac
    BY <1>3, NewMac, Zenon
  <2>7. QueueOnce(k1)
    BY <2>2, <2>3, <2>5 DEF QueueOnce
  <2>8. \A i, j \in DOMAIN r : r[i].own /\ r[j].own => i = j
    <3>1. /\ Len(s.q) \in Nat /\ (s.ex => DOMAIN r = 1..(Len(s.q) + 1)) /\ (~s.ex => r = s.q)
          /\ \A h \in 1..Len(s.q) : r[h] = s.q[h]
      BY <2>2
    <3> QED
      BY <3>1, <2>2, <2>3
  <2>9. QueueOnce(k2)
    BY <2>5, <2>6, <2>8, Zenon DEF QueueOnce, Known
  <2>10. Good(k1) /\ Good(k2)
    BY <1>3, <2>5, <2>7, <2>9, Zenon DEF Good, Well
  <2> QED
    BY <2>1, <2>10, Zenon
<1> QED
  BY <1>4, <1>5, Zenon

LEMMA SyncdDelGood ==
  ASSUME NEW s, Good(s), NEW port
  PROVE  Good(SyncdDel(s, port))
<1>1. CASE ~Known(s)
  BY <1>1, Zenon DEF SyncdDel
<1>2. CASE Known(s)
  <2>1. Well(SetLocalAge(s)) /\ Known(SetLocalAge(s))
    BY <1>2, AgeOps, Zenon DEF Good
  <2>2. Good(RemoveIfAged(SetLocalAge(s))) /\ Good(RemoveOrRedirect(SetLocalAge(s)))
    BY <2>1, RemoveGood, Zenon
  <2>3. SyncdDel(s, port) \in {s, RemoveIfAged(SetLocalAge(s)), RemoveOrRedirect(SetLocalAge(s))}
    BY <1>2, Zenon DEF SyncdDel
  <2> QED
    BY <2>2, <2>3, Zenon
<1> QED
  BY <1>1, <1>2, Zenon

LEMMA L2MacStateGood ==
  ASSUME NEW s, Good(s)
  PROVE  Good(L2MacState(s))
<1> DEFINE d == [s EXCEPT !.timer = TRUE]
           u == [s EXCEPT !.timer = FALSE]
<1>1. s \in Daemon
  BY Zenon DEF Good, Well
<1>2. /\ d \in Daemon /\ d.mac = s.mac /\ d.q = s.q
      /\ u \in Daemon /\ u.mac = s.mac /\ u.q = s.q
  BY <1>1, ZenonT(40) DEF Daemon
<1>3. Good(d) /\ Good(u) /\ Well(d) /\ Well(u)
  BY <1>2, Frame, ZenonT(40) DEF Good
<1> HIDE DEF d, u
<1>4. CASE ~Known(s)
  BY <1>3, <1>4, Zenon DEF L2MacState, L2MacUp, L2MacDown, d, u
<1>5. CASE Known(s)
  <2> DEFINE md == [s.mac EXCEPT !.port = "pl", !.pending = TRUE]
             mu == [s.mac EXCEPT !.port = "po", !.pending = FALSE]
             kd == [d EXCEPT !.mac = md]
             ku == [u EXCEPT !.mac = mu]
  <2>1. Known(d) /\ Known(u)
    BY <1>2, <1>5, Zenon DEF Known
  <2>2. s.mac \in MacMsg /\ s.mac.age # Both
    BY <1>1, <1>5, KnownType, Zenon DEF Good
  <2>3. md \in MacMsg /\ mu \in MacMsg /\ md.age = s.mac.age /\ mu.age = s.mac.age
    BY <2>2, ZenonT(40) DEF MacMsg, Learned
  <2>4. Good(kd) /\ Good(ku)
    BY <1>3, <2>1, <2>2, <2>3, GoodMac, ZenonT(40)
  <2>5. /\ kd = [d EXCEPT !.mac.port = "pl", !.mac.pending = TRUE]
        /\ ku = [u EXCEPT !.mac.port = "po", !.mac.pending = FALSE]
    BY <1>2, <2>2, ZenonT(40) DEF Daemon, MacMsg
  <2>6. Good(RemoveOrRedirect(SetLocalAge(d)))
    BY <1>3, <2>1, AgeOps, RemoveGood, Zenon
  <2>7. Good(RbRemove(u, "DEL"))
    BY <1>3, <2>1, RbRemoveGood, Zenon
  <2> HIDE DEF kd, ku
  <2>8. L2MacDown(s) \in {d, kd, RemoveOrRedirect(SetLocalAge(d))}
    BY <1>5, <2>5, Zenon DEF L2MacDown, d
  <2>9. L2MacUp(s) \in {u, ku, RbRemove(u, "DEL")}
    BY <1>5, <2>5, Zenon DEF L2MacUp, u
  <2>10. Good(L2MacDown(s)) /\ Good(L2MacUp(s))
    BY <1>3, <2>4, <2>6, <2>7, <2>8, <2>9, Zenon
  <2> QED
    BY <2>10, Zenon DEF L2MacState
<1> QED
  BY <1>4, <1>5, Zenon

LEMMA SmallHandlersGood ==
  ASSUME NEW s, Good(s), NEW port
  PROVE  /\ Good(ConvertRemote(s)) /\ Good(ClearPending(s)) /\ Good(PeerLinkDown(s))
         /\ Good(OrphanUp(s, port)) /\ Good(PeerDel(s))
<1> DEFINE u == [s EXCEPT !.timer = FALSE]
<1>1. s \in Daemon /\ Well(s)
  BY Zenon DEF Good, Well
<1>2. u \in Daemon /\ u.mac = s.mac /\ u.q = s.q
  BY <1>1, ZenonT(40) DEF Daemon
<1>3. Good(u) /\ Well(u) /\ (Known(s) => Known(u))
  BY <1>2, Frame, ZenonT(40) DEF Good
<1>4. CASE ~Known(s)
  BY <1>3, <1>4, Zenon DEF ConvertRemote, ClearPending, PeerLinkDown, OrphanUp, PeerDel
<1>5. CASE Known(s)
  <2> DEFINE mp == [s.mac EXCEPT !.age = s.mac.age \cup {"PEER"}]
             mc == [s.mac EXCEPT !.age = {"PEER"}]
             kp == [s EXCEPT !.mac = mp]
             kc == [s EXCEPT !.mac = mc]
  <2>1. s.mac \in MacMsg
    BY <1>1, <1>5, KnownType, Zenon
  <2>2. s.mac.age \cup {"PEER"} \in SUBSET {"LOCAL", "PEER"}
    BY <2>1, Zenon DEF MacMsg
  <2>3. mp \in MacMsg /\ mc \in MacMsg /\ mc.age = {"PEER"}
    BY <2>1, <2>2, Zenon DEF MacMsg
  <2>4. Well(kp) /\ Known(kp) /\ Good(kc) /\ Known(kc)
    <3>1. mc.age # Both
      BY <2>3 DEF Both
    <3> QED
      BY <1>1, <1>5, <2>3, <3>1, UpdateMac, GoodMac, ZenonT(40)
  <2>5. /\ kp = [s EXCEPT !.mac.age = @ \cup {"PEER"}]
        /\ kc = [s EXCEPT !.mac.age = {"PEER"}]
    BY <1>1, <2>1, Zenon DEF Daemon
  <2> HIDE DEF kp, kc, u
  <2>6. Good(PeerDel(s))
    BY <1>5, <2>4, <2>5, RemoveGood, Zenon DEF PeerDel
  <2>7. Good(ConvertRemote(s))
    BY <2>4, <2>5, EnqueueGood, Zenon DEF ConvertRemote
  <2>8. Good(ClearPending(s))
    BY <1>3, <1>5, RbRemoveGood, Zenon DEF ClearPending, u
  <2>9. Good(PeerLinkDown(s))
    BY <1>1, <1>5, AgeOps, RemoveGood, Zenon DEF PeerLinkDown
  <2>10. Good(OrphanUp(s, port))
    BY <1>5, EnqueueGood, Zenon DEF OrphanUp
  <2> QED
    BY <2>6, <2>7, <2>8, <2>9, <2>10, Zenon
<1> QED
  BY <1>4, <1>5, Zenon

LEMMA PeerAddGood ==
  ASSUME NEW s, Good(s), NEW origin \in Learned
  PROVE  Good(PeerAdd(s, origin))
<1> DEFINE usable == origin = "po" /\ s.po
<1>1. s \in Daemon /\ Well(s)
  BY Zenon DEF Good, Well
<1>2. CASE ~Known(s)
  <2> DEFINE m == [port |-> IF usable THEN "po" ELSE "pl", origin |-> origin,
                   age |-> {"LOCAL"}, pending |-> FALSE, op |-> "NONE"]
             k == [s EXCEPT !.mac = m]
  <2>1. m \in MacMsg /\ m.age = {"LOCAL"}
    BY Zenon DEF MacMsg, Learned
  <2>2. k \in Daemon /\ k.mac = m /\ k.q = s.q
    BY <1>1, <2>1, ZenonT(40) DEF Daemon
  <2>3. Known(k) /\ k.mac.age # Both
    <3> HIDE DEF m, k
    <3>1. m.age # Both
      BY <2>1 DEF Both
    <3>2. m # NoMac
      BY <2>1, NewMac, Zenon
    <3> QED
      BY <2>2, <3>1, <3>2, Zenon DEF Known
  <2>4. QueueOnce(k)
    BY <1>1, <1>2, <2>2, <2>3, Zenon DEF Well, QueueOnce
  <2>5. Good(k)
    BY <2>2, <2>3, <2>4, Zenon DEF Good, Well
  <2> HIDE DEF k
  <2>6. PeerAdd(s, origin) = k
    BY <1>2, Zenon DEF PeerAdd, k
  <2> QED
    BY <2>5, <2>6, Zenon
<1>3. CASE Known(s)
  <2> DEFINE ma == [s.mac EXCEPT !.age = s.mac.age \ {"PEER"}]
             a == [s EXCEPT !.mac = ma]
             mb == [ma EXCEPT !.pending = FALSE, !.age = {"LOCAL"}]
             a1 == [a EXCEPT !.mac = mb]
             b == ClearPeerAge(s, origin)
             mm == [b.mac EXCEPT !.origin = origin]
             moved == [b EXCEPT !.mac = mm]
  <2>1. s.mac \in MacMsg
    BY <1>1, <1>3, KnownType, Zenon
  <2>2. s.mac.age \ {"PEER"} \in SUBSET {"LOCAL", "PEER"} /\ s.mac.age \ {"PEER"} # Both
        /\ "PEER" \notin s.mac.age \ {"PEER"}
    BY <2>1, Zenon DEF MacMsg, Both
  <2>3. ma \in MacMsg /\ ma.age = s.mac.age \ {"PEER"} /\ mb \in MacMsg /\ mb.age = {"LOCAL"}
    BY <2>1, <2>2, ZenonT(40) DEF MacMsg
  <2>4. Well(a) /\ Known(a) /\ a.mac = ma /\ a \in Daemon
    BY <1>1, <1>3, <2>3, UpdateMac, Zenon DEF Well
  <2>5. a = [s EXCEPT !.mac.age = @ \ {"PEER"}]
    BY <1>1, <2>1, Zenon DEF Daemon
  <2>6. Well(a1) /\ Known(a1) /\ a1.mac = mb
    BY <2>3, <2>4, UpdateMac, ZenonT(40)
  <2>7. a1 = [a EXCEPT !.mac.pending = FALSE, !.mac.age = {"LOCAL"}]
    BY <2>3, <2>4, ZenonT(40) DEF Daemon, MacMsg
  <2> HIDE DEF a, a1, ma, mb
  <2>8. Well(Enqueue(a1, "DEL")) /\ Known(Enqueue(a1, "DEL")) /\ Enqueue(a1, "DEL").mac.age = {"LOCAL"}
    <3>1. Well(Enqueue(a1, "DEL")) /\ Known(Enqueue(a1, "DEL")) /\ Enqueue(a1, "DEL").mac = [mb EXCEPT !.op = "DEL"]
      BY <2>6, EnqueueWell, ZenonT(40)
    <3>2. [mb EXCEPT !.op = "DEL"].age = mb.age
      BY <2>3, Zenon DEF MacMsg
    <3> QED
      BY <2>3, <3>1, <3>2, ZenonT(40)
  <2>9. Well(b) /\ Known(b) /\ "PEER" \notin b.mac.age /\ b \in Daemon
    <3>1. b \in {Enqueue(a1, "DEL"), a}
      BY <2>5, <2>7, Zenon DEF ClearPeerAge
    <3> QED
      BY <2>2, <2>3, <2>4, <2>8, <3>1, Zenon DEF Well
  <2> HIDE DEF b
  <2>11. b.mac \in MacMsg
    BY <2>9, KnownType, Zenon
  <2>12. mm \in MacMsg /\ mm.age = b.mac.age
    BY <2>11, Zenon DEF MacMsg
  <2>13. Well(moved) /\ Known(moved) /\ moved.mac = mm /\ "PEER" \notin moved.mac.age /\ moved \in Daemon
    BY <2>9, <2>12, UpdateMac, ZenonT(40) DEF Well
  <2>14. moved = [b EXCEPT !.mac.origin = origin]
    BY <2>9, <2>11, Zenon DEF Daemon
  <2> HIDE DEF moved, mm
  <2>15. ASSUME NEW k, Well(k), Known(k), "PEER" \notin k.mac.age, NEW p \in Learned \cup {"pl"}
         PROVE  Good([k EXCEPT !.mac.port = p])
    <3> DEFINE m == [k.mac EXCEPT !.port = p]
    <3>1. k \in Daemon /\ k.mac \in MacMsg
      BY <2>15, KnownType, Zenon DEF Well
    <3>2. m \in MacMsg /\ m.age = k.mac.age
      BY <3>1, Zenon DEF MacMsg
    <3>3. m.age # Both
      BY <2>15, <3>2, Zenon DEF Both
    <3>4. Good([k EXCEPT !.mac = m])
      BY <2>15, <3>2, <3>3, GoodMac, ZenonT(40)
    <3>5. [k EXCEPT !.mac = m] = [k EXCEPT !.mac.port = p]
      BY <3>1, Zenon DEF Daemon
    <3> QED
      BY <3>4, <3>5, Zenon
  <2>16. Well(SetLocalAge(moved)) /\ Known(SetLocalAge(moved)) /\ "PEER" \notin SetLocalAge(moved).mac.age
    BY <2>13, AgeOps, ZenonT(40)
  <2>17. Good([moved EXCEPT !.mac.port = origin]) /\ Good([SetLocalAge(moved) EXCEPT !.mac.port = "pl"])
         /\ Good([b EXCEPT !.mac.port = "pl"])
    BY <2>9, <2>13, <2>15, <2>16, Zenon
  <2>18. Good(b)
    BY <2>9, Zenon DEF Good, Both
  <2>19. PeerAdd(s, origin) \in {[moved EXCEPT !.mac.port = origin], [SetLocalAge(moved) EXCEPT !.mac.port = "pl"],
                                 b, [b EXCEPT !.mac.port = "pl"]}
    BY <1>3, <2>14, Zenon DEF PeerAdd, b
  <2> QED
    BY <2>17, <2>18, <2>19, Zenon
<1> QED
  BY <1>2, <1>3, Zenon

LEMMA EnterExchangeGood ==
  ASSUME NEW s, Good(s)
  PROVE  Good(EnterExchange(s))
<1> DEFINE k == [s EXCEPT !.ex = TRUE]
<1>1. k \in Daemon /\ k.mac = s.mac /\ k.q = s.q
  BY ZenonT(40) DEF Good, Well, Daemon
<1>2. Good(k) /\ (Known(s) => Known(k))
  BY <1>1, Frame, ZenonT(40) DEF Good
<1> HIDE DEF k
<1>3. Known(s) => Good(Enqueue(k, "ADD"))
  BY <1>2, EnqueueGood, Zenon
<1> QED
  BY <1>2, <1>3, L2MacStateGood, Zenon DEF EnterExchange, k

LEMMA PeerDisconnGood ==
  ASSUME NEW s, Good(s)
  PROVE  Good(PeerDisconnFdb(s))
<1>1. s \in Daemon /\ Well(s)
  BY Zenon DEF Good, Well
<1>2. CASE ~Known(s)
  BY <1>2, Zenon DEF PeerDisconnFdb
<1>3. CASE Known(s)
  <2> DEFINE mp == [s.mac EXCEPT !.age = s.mac.age \cup {"PEER"}]
             mc == [s.mac EXCEPT !.age = {"PEER"}]
             kp == [s EXCEPT !.mac = mp]
             kc == [s EXCEPT !.mac = mc]
  <2>1. s.mac \in MacMsg
    BY <1>1, <1>3, KnownType, Zenon
  <2>2. s.mac.age \cup {"PEER"} \in SUBSET {"LOCAL", "PEER"}
    BY <2>1, Zenon DEF MacMsg
  <2>3. mp \in MacMsg /\ mc \in MacMsg /\ mc.age = {"PEER"}
    BY <2>1, <2>2, Zenon DEF MacMsg
  <2>4. mc.age # Both
    BY <2>3 DEF Both
  <2>5. Well(kp) /\ Known(kp) /\ Good(kc) /\ kp.mac = mp
    BY <1>1, <1>3, <2>3, <2>4, UpdateMac, GoodMac, ZenonT(40)
  <2>6. /\ kp = [s EXCEPT !.mac.age = @ \cup {"PEER"}]
        /\ kc = [s EXCEPT !.mac.age = {"PEER"}]
    BY <1>1, <2>1, Zenon DEF Daemon
  <2>7. mp.op \in {"ADD", "DEL", "NONE"}
    BY <2>3, Zenon DEF MacMsg
  <2> HIDE DEF kp, kc, mp
  <2>8. Good(RbRemove(kp, kp.mac.op))
    BY <2>5, <2>7, RbRemoveGood, Zenon
  <2>9. PeerDisconnFdb(s) = IF s.mac.port = "pl"
                            THEN IF kp.mac.age = Both \/ kp.mac.pending THEN RbRemove(kp, kp.mac.op) ELSE kp
                            ELSE kc
    BY <1>3, <2>6 DEF PeerDisconnFdb
  <2>10. kp.mac.age # Both => Good(kp)
    BY <2>5, Zenon DEF Good
  <2> QED
    BY <2>5, <2>8, <2>9, <2>10, Zenon
<1> QED
  BY <1>2, <1>3, Zenon

LEMMA QueueReinitGood ==
  ASSUME NEW s, Good(s)
  PROVE  Good([QueueReinit(s) EXCEPT !.ex = FALSE, !.pif = "none"])
<1> DEFINE k == [QueueReinit(s) EXCEPT !.ex = FALSE, !.pif = "none"]
           d == InMsgList(s) /\ s.mac.op = "DEL"
<1>1. s \in Daemon
  BY Zenon DEF Good, Well
<1>2. d \in BOOLEAN
  BY Zenon
<1>3. QueueReinit(s) = [s EXCEPT !.q = <<>>, !.dangling = @ \/ d]
  BY Zenon DEF QueueReinit
<1>4. <<>> \in Seq(Queued)
  OBVIOUS
<1> HIDE DEF d
<1>5. k \in Daemon /\ k.q = <<>> /\ k.mac = s.mac
  BY <1>1, <1>2, <1>3, <1>4, ZenonT(40) DEF Daemon
<1> QED
  BY <1>5 DEF Good, Well, QueueOnce, Known

\* What a pass sends is typed, and the list is empty after it.
LEMMA ExchangeSendGood ==
  ASSUME NEW s, Good(s)
  PROVE  LET k == ExchangeSend(s)
         IN  /\ k.out \in Seq(Msg)
             /\ Good([k EXCEPT !.out = <<>>])
<1> DEFINE o == IF s.changed THEN Append(s.out, [type |-> "STATE", up |-> s.po]) ELSE s.out
           t == [s EXCEPT !.changed = FALSE, !.out = o]
           f == [i \in DOMAIN s.q |->
                   IF s.q[i].own THEN [type |-> "MAC", op |-> s.mac.op, origin |-> s.mac.origin]
                                 ELSE [type |-> "MAC", op |-> s.q[i].op, origin |-> s.q[i].origin]]
           k == ExchangeSend(s)
<1>1. s \in Daemon /\ s.q \in Seq(Queued) /\ s.out \in Seq(Msg) /\ s.po \in BOOLEAN
  BY Zenon DEF Good, Well, Daemon
<1>2. o \in Seq(Msg)
  <2>1. [type |-> "STATE", up |-> s.po] \in Msg
    BY <1>1, Zenon DEF Msg
  <2> QED
    BY <1>1, <2>1
<1>3. f \in Seq(Msg)
  <2>1. ASSUME NEW i \in 1..Len(s.q) PROVE f[i] \in Msg
    <3>1. s.q[i] \in Queued /\ DOMAIN s.q = 1..Len(s.q)
      BY <1>1
    <3>2. CASE s.q[i].own
      <4>1. Known(s)
        BY <3>1, <3>2, Zenon DEF Good, Well, QueueOnce
      <4>2. s.mac.op \in {"ADD", "DEL", "NONE"} /\ s.mac.origin \in Learned
        BY <1>1, <4>1, KnownType, Zenon DEF MacMsg
      <4>3. f[i] = [type |-> "MAC", op |-> s.mac.op, origin |-> s.mac.origin]
        BY <3>1, <3>2, Zenon
      <4> QED
        BY <4>2, <4>3 DEF Msg
    <3>3. CASE ~s.q[i].own
      <4>1. s.q[i].op \in {"ADD", "DEL", "NONE"} /\ s.q[i].origin \in Learned
        BY <3>1, <3>3, OwnIsTree, Zenon
      <4>2. f[i] = [type |-> "MAC", op |-> s.q[i].op, origin |-> s.q[i].origin]
        BY <3>1, <3>3, Zenon
      <4> QED
        BY <4>1, <4>2 DEF Msg
    <3> QED
      BY <3>2, <3>3, Zenon
  <2>2. Len(s.q) \in Nat /\ DOMAIN s.q = 1..Len(s.q)
    BY <1>1
  <2>3. f = [i \in 1..Len(s.q) |-> f[i]]
    BY <2>2, Zenon
  <2> HIDE DEF f
  <2>4. f \in [1..Len(s.q) -> Msg]
    BY <2>1, <2>3, Zenon
  <2> QED
    BY <2>2, <2>4, SeqDef
<1>5. o \o f \in Seq(Msg)
  BY <1>2, <1>3
<1> HIDE DEF o, f
<1>6. t \in Daemon /\ t.q = s.q /\ t.mac = s.mac /\ t.out = o
  BY <1>1, <1>2, ZenonT(40) DEF Daemon
<1>7. k = [t EXCEPT !.q = <<>>, !.out = o \o f]
  BY <1>6, Zenon DEF ExchangeSend, SendMacInfo, o, f
<1> HIDE DEF t, k
<1> DEFINE w == [k EXCEPT !.out = <<>>]
<1>8. k \in Daemon /\ k.out = o \o f /\ k.q = <<>> /\ k.mac = s.mac
  <2>1. <<>> \in Seq(Queued)
    OBVIOUS
  <2> QED
    BY <1>5, <1>6, <1>7, <2>1, ZenonT(40) DEF Daemon
<1>9. w \in Daemon /\ w.q = <<>> /\ w.mac = s.mac
  <2>1. <<>> \in Seq(Msg)
    OBVIOUS
  <2> QED
    BY <1>8, <2>1, ZenonT(40) DEF Daemon
<1> HIDE DEF w
<1>10. Good(w)
  BY <1>9 DEF Good, Well, QueueOnce, Known
<1>11. k.out \in Seq(Msg)
  BY <1>5, <1>8, Zenon
<1> QED
  BY <1>10, <1>11, Zenon DEF k, w

LEMMA ReceiveGood ==
  ASSUME NEW s, Good(s), NEW m \in Msg
  PROVE  Good(Receive(s, m))
<1> DEFINE k == [s EXCEPT !.pif = PifState(m.up)]
<1>1. k \in Daemon /\ k.mac = s.mac /\ k.q = s.q
  BY Zenon DEF Good, Well, Daemon, PifState
<1>2. Good(k)
  BY <1>1, Frame, ZenonT(40)
<1>3. Good(EnterExchange(s)) /\ Good(ConvertRemote(k)) /\ Good(PeerDel(s))
  BY <1>2, EnterExchangeGood, SmallHandlersGood, Zenon
<1>4. m.type = "MAC" => Good(PeerAdd(s, m.origin))
  BY PeerAddGood, Zenon DEF Msg
<1> HIDE DEF k
<1> QED
  BY <1>2, <1>3, <1>4, Zenon DEF Receive, k
-----------------------------------------------------------------------------
(* The inductive invariant.                                                 *)

IInv == TypeOK /\ \A n \in Node : Good(daemon[n])

LEMMA InitIInv == Init => IInv
<1> SUFFICES ASSUME Init PROVE IInv
  BY Zenon
<1>1. PICK po \in [Node -> BOOLEAN] :
         daemon = [n \in Node |-> [ex |-> FALSE, po |-> po[n], pl |-> TRUE, pif |-> "none", changed |-> FALSE,
                                   timer |-> FALSE, mac |-> NoMac, q |-> <<>>, out |-> <<>>,
                                   dangling |-> FALSE]]
  BY ZenonT(40) DEF Init
<1>2. ASSUME NEW n \in Node
      PROVE  daemon[n] \in Daemon /\ daemon[n].q = <<>> /\ daemon[n].mac = NoMac
  <2>1. <<>> \in Seq(Queued) /\ <<>> \in Seq(Msg)
    OBVIOUS
  <2> QED
    BY <1>1, <2>1, Zenon DEF Daemon
<1>3. ASSUME NEW n \in Node PROVE Good(daemon[n])
  BY <1>2 DEF Good, Well, QueueOnce, Known
<1>4. daemon \in [Node -> Daemon]
  BY <1>1, <1>2, Zenon
<1>5. open \in [Node -> BOOLEAN] /\ events \in 0..scene.maxEvent /\ drops \in 0..scene.maxDrop /\ scene \in Scene
  BY MacAssumption DEF Init
<1>6. wire \in [Node -> Seq(Msg)]
  <2>1. <<>> \in Seq(Msg)
    OBVIOUS
  <2> QED
    BY <2>1, Zenon DEF Init
<1> QED
  BY <1>3, <1>4, <1>5, <1>6, Zenon DEF IInv, TypeOK

\* A step of one daemon keeps the invariant of both when its own is kept.
LEMMA StepGood ==
  ASSUME IInv, NEW n \in Node, NEW s, s.out \in Seq(Msg), Good([s EXCEPT !.out = <<>>]),
         NEW rest \in Seq(Msg), Step(n, s, rest), UNCHANGED <<open, scene, events, drops>>
  PROVE  IInv'
<1> DEFINE k == [s EXCEPT !.out = <<>>]
<1>1. /\ daemon \in [Node -> Daemon] /\ wire \in [Node -> Seq(Msg)]
      /\ daemon' = [daemon EXCEPT ![n] = k]
      /\ wire' = [wire EXCEPT ![n] = rest, ![Peer(n)] = IF open[Peer(n)] THEN @ \o s.out ELSE @]
  BY Zenon DEF IInv, TypeOK, Step
<1>2. k \in Daemon /\ Good(k)
  BY Zenon DEF Good, Well
<1> HIDE DEF k
<1>3. daemon' \in [Node -> Daemon] /\ \A h \in Node : Good(daemon'[h])
  BY <1>1, <1>2, Zenon DEF IInv
<1>4. wire' \in [Node -> Seq(Msg)]
  <2>1. Peer(n) \in Node /\ Peer(n) # n
    BY PeerType, Zenon
  <2>2. wire[Peer(n)] \o s.out \in Seq(Msg)
    BY <1>1, <2>1
  <2> QED
    BY <1>1, <2>1, <2>2, ZenonT(40)
<1> QED
  BY <1>3, <1>4, Zenon DEF IInv, TypeOK

LEMMA LocalGood ==
  ASSUME IInv, NEW n \in Node, NEW kind, NEW s, Good(s), Local(n, kind, s), scene' = scene
  PROVE  IInv'
<1>1. /\ daemon \in [Node -> Daemon] /\ daemon' = [daemon EXCEPT ![n] = s]
      /\ events \in 0..scene.maxEvent /\ events < scene.maxEvent /\ events' = events + 1
      /\ UNCHANGED <<open, wire, drops>>
  BY Zenon DEF IInv, TypeOK, Local
<1>2. s \in Daemon
  BY Zenon DEF Good, Well
<1>3. daemon' \in [Node -> Daemon] /\ \A h \in Node : Good(daemon'[h])
  BY <1>1, <1>2, Zenon DEF IInv
<1>4. events' \in 0..scene.maxEvent
  <2>1. scene.maxEvent \in Nat
    BY MacAssumption, Zenon DEF IInv, TypeOK
  <2> QED
    BY <1>1, <2>1
<1> QED
  BY <1>1, <1>3, <1>4, Zenon DEF IInv, TypeOK

LEMMA DisconnectGood ==
  ASSUME IInv, NEW n \in Node, Disconnect(n), UNCHANGED <<scene, events>>, drops' \in 0..scene.maxDrop
  PROVE  IInv'
<1> DEFINE k == [QueueReinit(PeerDisconnFdb(daemon[n])) EXCEPT !.ex = FALSE, !.pif = "none"]
<1>1. /\ daemon \in [Node -> Daemon] /\ open \in [Node -> BOOLEAN] /\ wire \in [Node -> Seq(Msg)]
      /\ events \in 0..scene.maxEvent /\ Good(daemon[n])
  BY Zenon DEF IInv, TypeOK
<1>2. Good(k)
  BY <1>1, PeerDisconnGood, QueueReinitGood, ZenonT(40)
<1>3. k \in Daemon
  BY <1>2, Zenon DEF Good, Well
<1>4. daemon' = [daemon EXCEPT ![n] = k]
  BY <1>1, Zenon DEF Disconnect
<1> HIDE DEF k
<1>5. daemon' \in [Node -> Daemon] /\ \A h \in Node : Good(daemon'[h])
  BY <1>1, <1>2, <1>3, <1>4, Zenon DEF IInv
<1>6. open' \in [Node -> BOOLEAN] /\ wire' \in [Node -> Seq(Msg)]
  BY <1>1, SMTT(40) DEF Disconnect
<1> QED
  BY <1>1, <1>5, <1>6, Zenon DEF IInv, TypeOK

LEMMA ConnectGood ==
  ASSUME IInv, Connect, scene' = scene
  PROVE  IInv'
<1> DEFINE k(n) == [daemon[n] EXCEPT !.pif = PifState(daemon[Peer(n)].po), !.changed = FALSE]
           r(n) == IF n = Hi THEN EnterExchange(k(n)) ELSE k(n)
<1>1. daemon \in [Node -> Daemon] /\ \A n \in Node : Good(daemon[n])
  BY Zenon DEF IInv, TypeOK
<1>2. ASSUME NEW n \in Node PROVE Good(k(n))
  <2>1. k(n) \in Daemon /\ k(n).mac = daemon[n].mac /\ k(n).q = daemon[n].q
    BY <1>1, ZenonT(40) DEF Daemon, PifState
  <2> QED
    BY <1>1, <2>1, Frame, ZenonT(40)
<1>3. daemon' = [n \in Node |-> r(n)]
  BY ZenonT(40) DEF Connect
<1> HIDE DEF k
<1>4. ASSUME NEW n \in Node PROVE Good(r(n)) /\ r(n) \in Daemon
  <2>1. Good(r(n))
    BY <1>2, EnterExchangeGood, Zenon
  <2> QED
    BY <2>1, Zenon DEF Good, Well
<1> HIDE DEF r
<1>5. daemon' \in [Node -> Daemon] /\ \A n \in Node : Good(daemon'[n])
  BY <1>3, <1>4, Zenon
<1>6. wire' \in [Node -> Seq(Msg)]
  <2>1. <<[type |-> "DONE"]>> \in Seq(Msg) /\ <<>> \in Seq(Msg)
    BY DEF Msg
  <2> QED
    BY <2>1, ZenonT(40) DEF Connect
<1> QED
  BY <1>5, <1>6, ZenonT(40) DEF IInv, TypeOK, Connect

LEMMA NextIInv == IInv /\ [Next]_vars => IInv'
<1> SUFFICES ASSUME IInv, [Next]_vars PROVE IInv'
  BY Zenon
<1>1. CASE UNCHANGED vars
  BY <1>1, Zenon DEF IInv, TypeOK, vars
<1>2. CASE Connect /\ scene' = scene
  BY <1>2, ConnectGood, Zenon
<1>3. ASSUME NEW n \in Node, scene' = scene,
             \/ Send(n) \/ Handle(n) \/ Lose(n) \/ Eof(n)
             \/ SyncdAddMac(n) \/ SyncdDelMac(n) \/ OrphanPortUp(n)
             \/ PoChange(n) \/ PeerLinkChange(n) \/ PendingTimeout(n)
      PROVE  IInv'
  <2>1. /\ daemon[n] \in Daemon /\ Good(daemon[n]) /\ wire[n] \in Seq(Msg)
        /\ daemon \in [Node -> Daemon] /\ drops \in 0..scene.maxDrop /\ scene' = scene
    BY <1>3, Zenon DEF IInv, TypeOK
  <2>2. CASE Send(n)
    BY <2>1, <2>2, ExchangeSendGood, StepGood, ZenonT(40) DEF Send
  <2>3. CASE Handle(n)
    <3> DEFINE s == Receive(daemon[n], Head(wire[n]))
    <3>1. Head(wire[n]) \in Msg /\ Tail(wire[n]) \in Seq(Msg)
      BY <2>1, <2>3 DEF Handle
    <3>2. Good(s)
      BY <2>1, <3>1, ReceiveGood, Zenon
    <3>3. Step(n, ExchangeSend(s), Tail(wire[n])) /\ UNCHANGED <<open, events, drops>>
      BY <2>3, Zenon DEF Handle
    <3> HIDE DEF s
    <3> QED
      BY <2>1, <3>1, <3>2, <3>3, ExchangeSendGood, StepGood, ZenonT(40)
  <2>4. CASE Lose(n)
    <3>1. drops' \in 0..scene.maxDrop
      <4>1. scene.maxDrop \in Nat
        BY MacAssumption, Zenon DEF IInv, TypeOK
      <4> QED
        BY <2>1, <2>4, <4>1 DEF Lose
    <3> QED
      BY <2>1, <2>4, <3>1, DisconnectGood, Zenon DEF Lose
  <2>5. CASE Eof(n)
    BY <2>1, <2>5, DisconnectGood, Zenon DEF Eof
  <2>6. CASE SyncdAddMac(n)
    <3>1. PICK port \in scene.seen \cap {"po", scene.orphan[n]} :
            Local(n, IF port = "po" /\ ~daemon[n].po THEN "late" ELSE "learn", SyncdAdd(daemon[n], port))
      BY <2>6, Zenon DEF SyncdAddMac
    <3>2. port \in Learned
      BY MacAssumption, Zenon DEF Learned, IInv, TypeOK
    <3> QED
      BY <2>1, <3>1, <3>2, SyncdAddGood, LocalGood, Zenon
  <2>7. CASE SyncdDelMac(n)
    BY <2>1, <2>7, SyncdDelGood, LocalGood, Zenon DEF SyncdDelMac
  <2>8. CASE OrphanPortUp(n)
    BY <2>1, <2>8, SmallHandlersGood, LocalGood, Zenon DEF OrphanPortUp
  <2>9. CASE PoChange(n)
    <3> DEFINE k == [daemon[n] EXCEPT !.po = ~@, !.changed = TRUE]
    <3>1. k \in Daemon /\ k.mac = daemon[n].mac /\ k.q = daemon[n].q
      BY <2>1, ZenonT(40) DEF Daemon
    <3>2. Good(L2MacState(k))
      BY <2>1, <3>1, Frame, L2MacStateGood, ZenonT(40)
    <3> QED
      BY <2>1, <2>9, <3>2, LocalGood, Zenon DEF PoChange
  <2>10. CASE PeerLinkChange(n)
    <3> DEFINE t == IF daemon[n].pl THEN PeerLinkDown(daemon[n]) ELSE daemon[n]
               k == [t EXCEPT !.pl = ~@]
    <3>1. Good(t)
      BY <2>1, SmallHandlersGood, ZenonT(40)
    <3>2. Local(n, "peerlink", k)
      BY <2>10, Zenon DEF PeerLinkChange
    <3> HIDE DEF t
    <3>3. k \in Daemon /\ k.mac = t.mac /\ k.q = t.q
      BY <3>1, ZenonT(40) DEF Good, Well, Daemon
    <3>4. Good(k)
      BY <3>1, <3>3, Frame, ZenonT(40)
    <3> QED
      BY <2>1, <3>2, <3>4, LocalGood, Zenon
  <2>11. CASE PendingTimeout(n)
    BY <2>1, <2>11, SmallHandlersGood, LocalGood, Zenon DEF PendingTimeout
  <2> QED
    BY <1>3, <2>2, <2>3, <2>4, <2>5, <2>6, <2>7, <2>8, <2>9, <2>10, <2>11, Zenon
<1> QED
  BY <1>1, <1>2, <1>3, Zenon DEF Next

\* Every state of the two daemons and of the streams between them is typed,
\* whatever MAC events, port changes and session losses mclagsyncd, the kernel
\* and the peer bring in.
THEOREM TypeCorrect == Spec => []TypeOK
<1>1. IInv => TypeOK
  BY Zenon DEF IInv
<1> QED
  BY <1>1, InitIInv, NextIInv, PTL DEF Spec

\* MAC_IN_MSG_LIST keeps its promise: no sequence of handlers links the entry of
\* the tree into mac_msg_list twice, and none leaves a link to an entry that
\* MAC_RB_REMOVE took out under the tree's name.
THEOREM QueueConsistentHolds == Spec => []QueueConsistent
<1>1. IInv => QueueConsistent
  BY Zenon DEF IInv, Good, Well, QueueOnce, QueueConsistent
<1> QED
  BY <1>1, InitIInv, NextIInv, PTL DEF Spec

\* An entry with both MAC_AGE_LOCAL and MAC_AGE_PEER set never survives the
\* handler that sets the second flag.
THEOREM AgedOutIsGoneHolds == Spec => []AgedOutIsGone
<1>1. IInv => AgedOutIsGone
  BY Zenon DEF IInv, Good, AgedOutIsGone
<1> QED
  BY <1>1, InitIInv, NextIInv, PTL DEF Spec
-----------------------------------------------------------------------------
(* What the peer is told.  A pass sends the list of updates; only the last  *)
(* update of an address counts, and the list is in order: entries that were *)
(* removed announce a deletion, and the entry of the tree comes last with   *)
(* the operation that fits it.                                              *)

\* The fields that only some handlers change.
Same(s, k) == k.ex = s.ex /\ k.po = s.po /\ k.changed = s.changed /\ k.out = s.out

SameEntry(s, k) ==
    /\ Known(k)
    /\ k.mac.port = s.mac.port /\ k.mac.origin = s.mac.origin
    /\ k.mac.age = s.mac.age /\ k.mac.pending = s.mac.pending

QShape(s) == \A i \in DOMAIN s.q : IF s.q[i].own THEN i = Len(s.q) ELSE s.q[i].op = "DEL"

QFit(s) ==
    /\ QShape(s)
    /\ InMsgList(s) => s.mac.op = IF LocalMac(s) THEN "ADD" ELSE "DEL"
    /\ LocalMac(s) /\ s.q # <<>> => InMsgList(s)
    /\ ~s.ex => s.q = <<>>

\* From s to k the list still fits; if it is empty, nothing had to be told.
Keeps(s, k) ==
    /\ k.ex = s.ex /\ QFit(k)
    /\ k.ex /\ k.q = <<>> => s.q = <<>> /\ (LocalMac(k) <=> LocalMac(s))

\* Every origin the daemon holds is a port the station is seen on.
Seen(s) ==
    /\ Known(s) => s.mac.origin \in scene.seen
    /\ \A i \in DOMAIN s.q : ~s.q[i].own => s.q[i].origin \in scene.seen

LEMMA InListOwn ==
  ASSUME NEW s, Well(s)
  PROVE  InMsgList(s) <=> \E i \in DOMAIN s.q : s.q[i].own
<1>1. \A i \in DOMAIN s.q : s.q[i] \in Queued
  BY DEF Well, Daemon
<1> QED
  BY <1>1, OwnIsTree, ZenonT(40) DEF InMsgList

LEMMA KeepsSelf ==
  ASSUME NEW s, QFit(s)
  PROVE  Keeps(s, s)
  BY Zenon DEF Keeps

LEMMA KeepsTrans ==
  ASSUME NEW s, NEW k, NEW l, Keeps(s, k), Keeps(k, l)
  PROVE  Keeps(s, l)
  BY Zenon DEF Keeps

\* A change that concerns neither the list nor who has learned the address.
LEMMA KeepsNeutral ==
  ASSUME NEW s, QFit(s), NEW k, k.ex = s.ex, k.q = s.q, LocalMac(k) <=> LocalMac(s),
         InMsgList(s) => k.mac.op = s.mac.op
  PROVE  Keeps(s, k)
<1>1. InMsgList(k) <=> InMsgList(s)
  BY Zenon DEF InMsgList
<1>2. QShape(k)
  BY Zenon DEF QFit, QShape
<1> QED
  BY <1>1, <1>2, Zenon DEF Keeps, QFit

LEMMA SeenNeutral ==
  ASSUME NEW s, Seen(s), NEW k, k.q = s.q, Known(k) => k.mac.origin \in scene.seen
  PROVE  Seen(k)
  BY Zenon DEF Seen

LEMMA EnqueueFx ==
  ASSUME NEW s, Well(s), Known(s), NEW op \in {"ADD", "DEL", "NONE"}
  PROVE  LET k == Enqueue(s, op)
         IN  /\ Same(s, k) /\ SameEntry(s, k) /\ k.mac.op = op
             /\ k.q = IF InMsgList(s) THEN s.q ELSE Append(s.q, TreeEntry)
<1> DEFINE k == Enqueue(s, op)
<1>1. s \in Daemon /\ s.mac \in MacMsg
  BY KnownType, Zenon DEF Well
<1>2. Known(k) /\ k.mac = [s.mac EXCEPT !.op = op]
  BY EnqueueWell, Zenon
<1>3. /\ k.q = IF InMsgList(s) THEN s.q ELSE Append(s.q, TreeEntry)
      /\ k.ex = s.ex /\ k.po = s.po /\ k.changed = s.changed /\ k.out = s.out
  BY <1>1, Zenon DEF Enqueue, Daemon
<1>4. /\ k.mac.port = s.mac.port /\ k.mac.origin = s.mac.origin /\ k.mac.op = op
      /\ k.mac.age = s.mac.age /\ k.mac.pending = s.mac.pending
  BY <1>1, <1>2, Zenon DEF MacMsg
<1> HIDE DEF k
<1>5. Same(s, k) /\ SameEntry(s, k)
  BY <1>2, <1>3, <1>4, Zenon DEF Same, SameEntry
<1> QED
  BY <1>3, <1>4, <1>5, Zenon DEF k

LEMMA EnqueueFit ==
  ASSUME NEW s, Well(s), Known(s), QShape(s), s.ex, NEW op, op = IF LocalMac(s) THEN "ADD" ELSE "DEL"
  PROVE  QFit(Enqueue(s, op)) /\ Enqueue(s, op).q # <<>>
<1> DEFINE k == Enqueue(s, op)
           r == IF InMsgList(s) THEN s.q ELSE Append(s.q, TreeEntry)
<1>1. op \in {"ADD", "DEL", "NONE"}
  BY Zenon
<1>2. Same(s, k) /\ SameEntry(s, k) /\ k.mac.op = op /\ k.q = r /\ Well(k)
  BY <1>1, EnqueueFx, EnqueueWell, Zenon
<1> HIDE DEF k
<1>3. s.q \in Seq(Queued)
  BY Zenon DEF Well, Daemon
<1>4. TreeEntry.own = TRUE
  BY Zenon DEF TreeEntry
<1>5. \A i \in DOMAIN s.q : IF s.q[i].own THEN i = Len(s.q) ELSE s.q[i].op = "DEL"
  BY Zenon DEF QShape
<1>6. r # <<>> /\ (\E i \in DOMAIN r : r[i] = TreeEntry)
      /\ \A i \in DOMAIN r : IF r[i].own THEN i = Len(r) ELSE r[i].op = "DEL"
  <2>1. CASE InMsgList(s)
    <3>1. PICK i \in DOMAIN s.q : s.q[i] = TreeEntry
      BY <2>1, Zenon DEF InMsgList
    <3> QED
      BY <1>3, <1>5, <2>1, <3>1, SMTT(40)
  <2>2. CASE ~InMsgList(s)
    <3>1. \A i \in DOMAIN s.q : ~s.q[i].own
      BY <2>2, InListOwn, Zenon
    <3>2. r = Append(s.q, TreeEntry)
      BY <2>2, Zenon
    <3>3. Len(s.q) \in Nat /\ DOMAIN s.q = 1..Len(s.q) /\ DOMAIN r = 1..(Len(s.q) + 1) /\ Len(r) = Len(s.q) + 1
          /\ r[Len(s.q) + 1] = TreeEntry /\ \A i \in 1..Len(s.q) : r[i] = s.q[i]
      BY <1>3, <3>2, SMTT(40)
    <3> HIDE DEF r
    <3>4. r # <<>>
      BY <3>3, SMTT(40)
    <3> QED
      BY <1>4, <1>5, <3>1, <3>3, <3>4, SMTT(40)
  <2> QED
    BY <2>1, <2>2, Zenon
<1> HIDE DEF r
<1>7. QShape(k) /\ InMsgList(k) /\ k.q # <<>>
  BY <1>2, <1>6, Zenon DEF QShape, InMsgList
<1>8. LocalMac(k) <=> LocalMac(s)
  BY <1>2, Zenon DEF LocalMac, SameEntry
<1>9. k.ex
  BY <1>2, Zenon DEF Same
<1> QED
  BY <1>2, <1>7, <1>8, <1>9, Zenon DEF QFit, k

LEMMA SeenEnqueue ==
  ASSUME NEW s, Well(s), Known(s), Seen(s), NEW op \in {"ADD", "DEL", "NONE"}
  PROVE  Seen(Enqueue(s, op))
<1> DEFINE k == Enqueue(s, op)
           r == IF InMsgList(s) THEN s.q ELSE Append(s.q, TreeEntry)
<1>1. SameEntry(s, k) /\ k.q = r
  BY EnqueueFx, Zenon
<1> HIDE DEF k
<1>2. s.q \in Seq(Queued) /\ TreeEntry.own = TRUE
  BY Zenon DEF Well, Daemon, TreeEntry
<1>3. \A i \in DOMAIN r : r[i].own \/ (i \in DOMAIN s.q /\ r[i] = s.q[i])
  BY <1>2, SMTT(40)
<1> HIDE DEF r
<1> QED
  BY <1>1, <1>3, Zenon DEF Seen, SameEntry, k

LEMMA LocalAgeFx ==
  ASSUME NEW s, Well(s), Known(s), NEW k, k \in {SetLocalAge(s), ClearLocalAge(s)}
  PROVE  /\ Well(k) /\ Known(k) /\ Same(s, k)
         /\ k.mac.port = s.mac.port /\ k.mac.origin = s.mac.origin /\ k.mac.pending = s.mac.pending
         /\ k = SetLocalAge(s) => k.mac.age = s.mac.age \cup {"LOCAL"}
         /\ k = ClearLocalAge(s) => k.mac.age = s.mac.age \ {"LOCAL"}
         /\ QFit(s) => Keeps(s, k)
         /\ Seen(s) => Seen(k)
<1> DEFINE m1 == [s.mac EXCEPT !.age = s.mac.age \cup {"LOCAL"}]
           m0 == [s.mac EXCEPT !.age = s.mac.age \ {"LOCAL"}]
           k1 == [s EXCEPT !.mac = m1]
           k0 == [s EXCEPT !.mac = m0]
<1>1. s \in Daemon /\ s.mac \in MacMsg
  BY KnownType, Zenon DEF Well
<1>2. s.mac.age \cup {"LOCAL"} \in SUBSET {"LOCAL", "PEER"} /\ s.mac.age \ {"LOCAL"} \in SUBSET {"LOCAL", "PEER"}
  BY <1>1, Zenon DEF MacMsg
<1>3. ASSUME NEW h \in {k0, k1}
      PROVE  /\ Well(h) /\ Known(h) /\ h.q = s.q /\ Same(s, h)
             /\ h.mac.port = s.mac.port /\ h.mac.origin = s.mac.origin /\ h.mac.pending = s.mac.pending
             /\ h.mac.op = s.mac.op
             /\ h.mac.age = IF h = k1 THEN s.mac.age \cup {"LOCAL"} ELSE s.mac.age \ {"LOCAL"}
  <2> DEFINE a == IF h = k1 THEN s.mac.age \cup {"LOCAL"} ELSE s.mac.age \ {"LOCAL"}
             m == [s.mac EXCEPT !.age = a]
  <2>1. h = [s EXCEPT !.mac = m] /\ a \in SUBSET {"LOCAL", "PEER"}
    BY <1>2, <1>3, ZenonT(40)
  <2> HIDE DEF a
  <2>2. /\ m \in MacMsg /\ m.port = s.mac.port /\ m.origin = s.mac.origin /\ m.pending = s.mac.pending
        /\ m.op = s.mac.op /\ m.age = a
    BY <1>1, <2>1, Zenon DEF MacMsg
  <2> HIDE DEF m
  <2>3. Well(h) /\ Known(h) /\ h.mac = m /\ h.q = s.q
    BY <2>1, <2>2, UpdateMac, ZenonT(40)
  <2>4. Same(s, h)
    BY <1>1, <2>1, Zenon DEF Same, Daemon
  <2> QED
    BY <2>2, <2>3, <2>4, ZenonT(40) DEF a
<1>4. /\ k1 = [s EXCEPT !.mac.age = @ \cup {"LOCAL"}]
      /\ k0 = [s EXCEPT !.mac.age = @ \ {"LOCAL"}]
  BY <1>1, Zenon DEF Daemon
<1>5. k0 = k1 => s.mac.age \cup {"LOCAL"} = s.mac.age \ {"LOCAL"}
  BY <1>1, SMTT(40) DEF Daemon, MacMsg
<1> HIDE DEF k0, k1
<1>6. /\ k1.mac.age = s.mac.age \cup {"LOCAL"} /\ k0.mac.age = s.mac.age \ {"LOCAL"}
  BY <1>3, <1>5, Zenon
<1>7. Seen(s) => Seen(k0) /\ Seen(k1)
  BY <1>3, SeenNeutral, Zenon DEF Seen
<1>8. QShape(s) => QShape(k0) /\ QShape(k1)
  BY <1>3, ZenonT(40) DEF QShape
<1>9. ASSUME k = SetLocalAge(s)
      PROVE  /\ Well(k) /\ Known(k) /\ Same(s, k) /\ k.mac.port = s.mac.port /\ k.mac.origin = s.mac.origin
             /\ k.mac.pending = s.mac.pending /\ k.mac.age = s.mac.age \cup {"LOCAL"}
             /\ (QFit(s) => Keeps(s, k)) /\ (Seen(s) => Seen(k))
  <2>1. CASE "LOCAL" \notin s.mac.age /\ s.ex
    <3>1. k = Enqueue(k1, "DEL")
      BY <1>9, <1>4, <2>1, Zenon DEF SetLocalAge
    <3>2. Well(k) /\ Same(k1, k) /\ SameEntry(k1, k) /\ (Seen(k1) => Seen(k))
      BY <3>1, <1>3, EnqueueFx, EnqueueWell, SeenEnqueue, ZenonT(40)
    <3>3. ~LocalMac(k1) /\ k1.ex
      BY <1>3, <1>6, <2>1, Zenon DEF LocalMac, Same
    <3>4. QShape(k1) => QFit(k) /\ k.q # <<>>
      BY <3>1, <3>3, <1>3, EnqueueFit, ZenonT(40)
    <3> QED
      BY <1>3, <1>6, <1>7, <1>8, <3>2, <3>4, ZenonT(40) DEF Same, SameEntry, Keeps, QFit
  <2>2. CASE ~("LOCAL" \notin s.mac.age /\ s.ex)
    <3>1. k = k1
      BY <1>9, <1>4, <2>2, Zenon DEF SetLocalAge
    <3>2. QFit(s) /\ "LOCAL" \in s.mac.age => Keeps(s, k)
      <4>1. "LOCAL" \in s.mac.age => ~LocalMac(s) /\ ~LocalMac(k1)
        BY <1>6, Zenon DEF LocalMac
      <4> QED
        BY <3>1, <4>1, <1>3, KeepsNeutral, Zenon DEF Same
    <3>3. QFit(s) /\ ~s.ex => Keeps(s, k)
      <4>1. ~s.ex /\ QFit(s) => k1.q = <<>> /\ ~k1.ex
        BY <1>3, Zenon DEF QFit, Same
      <4>2. k1.q = <<>> => ~InMsgList(k1)
        BY DEF InMsgList
      <4> QED
        BY <3>1, <4>1, <4>2, <1>3, <1>8, Zenon DEF Same, Keeps, QFit
    <3> QED
      BY <1>3, <1>6, <1>7, <2>2, <3>1, <3>2, <3>3, Zenon
  <2> QED
    BY <2>1, <2>2, Zenon
<1>10. ASSUME k = ClearLocalAge(s)
      PROVE  /\ Well(k) /\ Known(k) /\ Same(s, k) /\ k.mac.port = s.mac.port /\ k.mac.origin = s.mac.origin
             /\ k.mac.pending = s.mac.pending /\ k.mac.age = s.mac.age \ {"LOCAL"}
             /\ (QFit(s) => Keeps(s, k)) /\ (Seen(s) => Seen(k))
  <2>1. CASE "LOCAL" \in s.mac.age /\ s.ex
    <3>1. k = Enqueue(k0, "ADD")
      BY <1>10, <1>4, <2>1, Zenon DEF ClearLocalAge
    <3>2. Well(k) /\ Same(k0, k) /\ SameEntry(k0, k) /\ (Seen(k0) => Seen(k))
      BY <3>1, <1>3, EnqueueFx, EnqueueWell, SeenEnqueue, ZenonT(40)
    <3>3. LocalMac(k0) /\ k0.ex
      BY <1>3, <1>6, <2>1, Zenon DEF LocalMac, Same
    <3>4. QShape(k0) => QFit(k) /\ k.q # <<>>
      BY <3>1, <3>3, <1>3, EnqueueFit, ZenonT(40)
    <3> QED
      BY <1>3, <1>6, <1>7, <1>8, <3>2, <3>4, ZenonT(40) DEF Same, SameEntry, Keeps, QFit
  <2>2. CASE ~("LOCAL" \in s.mac.age /\ s.ex)
    <3>1. k = k0
      BY <1>10, <1>4, <2>2, Zenon DEF ClearLocalAge
    <3>2. QFit(s) /\ "LOCAL" \notin s.mac.age => Keeps(s, k)
      <4>1. "LOCAL" \notin s.mac.age => LocalMac(s) /\ LocalMac(k0)
        BY <1>3, <1>6, Zenon DEF LocalMac
      <4> QED
        BY <3>1, <4>1, <1>3, KeepsNeutral, Zenon DEF Same
    <3>3. QFit(s) /\ ~s.ex => Keeps(s, k)
      <4>1. ~s.ex /\ QFit(s) => k0.q = <<>> /\ ~k0.ex
        BY <1>3, Zenon DEF QFit, Same
      <4>2. k0.q = <<>> => ~InMsgList(k0)
        BY DEF InMsgList
      <4> QED
        BY <3>1, <4>1, <4>2, <1>3, <1>8, Zenon DEF Same, Keeps, QFit
    <3> QED
      BY <1>3, <1>6, <1>7, <2>2, <3>1, <3>2, <3>3, Zenon
  <2> QED
    BY <2>1, <2>2, Zenon
<1> QED
  BY <1>9, <1>10, Zenon

\* A removed entry leaves its deletion in the list, if it was there.
LEMMA RbRemoveFx ==
  ASSUME NEW s, Well(s), Known(s), NEW op \in {"ADD", "DEL", "NONE"}
  PROVE  LET k == RbRemove(s, op)
         IN  /\ ~Known(k) /\ Same(s, k) /\ (k.q = <<>> <=> s.q = <<>>)
             /\ QFit(s) /\ (op = "DEL" \/ (op = s.mac.op /\ ~LocalMac(s))) => QFit(k)
             /\ Seen(s) => Seen(k)
<1> DEFINE o == [own |-> FALSE, op |-> op, origin |-> s.mac.origin]
           r == [i \in DOMAIN s.q |-> IF s.q[i] = TreeEntry THEN o ELSE s.q[i]]
           k == RbRemove(s, op)
<1>1. s \in Daemon /\ s.mac \in MacMsg /\ s.q \in Seq(Queued)
  BY KnownType, Zenon DEF Well, Daemon
<1>2. o.own = FALSE /\ o.op = op /\ o.origin = s.mac.origin
  BY Zenon
<1> HIDE DEF o
<1>3. k = [s EXCEPT !.mac = NoMac, !.q = r]
  BY <1>1, Zenon DEF RbRemove, Daemon, o
<1>4. Len(s.q) \in Nat /\ DOMAIN s.q = 1..Len(s.q) /\ \A i \in 1..Len(s.q) : s.q[i] \in Queued
  BY <1>1
<1>5. DOMAIN r = 1..Len(s.q) /\ \A i \in 1..Len(s.q) : r[i] = IF s.q[i].own THEN o ELSE s.q[i]
  BY <1>4, OwnIsTree, Zenon
<1>6. r \in Seq(Queued)
  <2>1. o \in Queued
    BY <1>1, Zenon DEF MacMsg, Queued, o
  <2>2. r \in [1..Len(s.q) -> Queued]
    BY <1>4, <2>1, ZenonT(40)
  <2> HIDE DEF r
  <2> QED
    BY <1>4, <2>2, SeqDef, Zenon
<1> HIDE DEF r, k
<1>7. k.mac = NoMac /\ k.q = r /\ Same(s, k)
  BY <1>1, <1>3, Zenon DEF Daemon, Same
<1>8. ~Known(k)
  BY <1>7, Zenon DEF Known
<1>9. Len(r) = Len(s.q) /\ (r = <<>> <=> s.q = <<>>)
  <2>1. Len(r) = Len(s.q)
    BY <1>4, <1>5, <1>6, SMTT(40)
  <2>2. (r = <<>> <=> Len(r) = 0) /\ (s.q = <<>> <=> Len(s.q) = 0)
    BY <1>1, <1>6, SMTT(40)
  <2> QED
    BY <2>1, <2>2, Zenon
<1>10. ASSUME QFit(s), op = "DEL" \/ (op = s.mac.op /\ ~LocalMac(s)) PROVE QFit(k)
  <2>1. (\E i \in 1..Len(s.q) : s.q[i].own) => op = "DEL"
    BY <1>4, <1>10, InListOwn, Zenon DEF QFit
  <2>2. \A i \in DOMAIN r : ~r[i].own /\ r[i].op = "DEL"
    BY <1>2, <1>4, <1>5, <1>10, <2>1, SMTT(40) DEF QFit, QShape
  <2>3. QShape(k) /\ ~InMsgList(k) /\ ~LocalMac(k)
    <3>1. TreeEntry.own = TRUE
      BY Zenon DEF TreeEntry
    <3>2. ~InMsgList(k)
      BY <1>7, <2>2, <3>1, ZenonT(40) DEF InMsgList
    <3> QED
      BY <1>7, <1>8, <2>2, <3>2, Zenon DEF QShape, LocalMac
  <2> QED
    BY <1>7, <1>9, <1>10, <2>3, Zenon DEF QFit, Same
<1>11. Seen(s) => Seen(k)
  BY <1>2, <1>4, <1>5, <1>7, <1>8, Zenon DEF Seen
<1> QED
  BY <1>7, <1>8, <1>9, <1>10, <1>11, Zenon DEF k

LEMMA RemoveKeeps ==
  ASSUME NEW s, Well(s), Known(s), QFit(s), ~LocalMac(s)
  PROVE  Keeps(s, RbRemove(s, s.mac.op))
<1> DEFINE k == RbRemove(s, s.mac.op)
<1>1. s.mac.op \in {"ADD", "DEL", "NONE"}
  BY KnownType, Zenon DEF Well, MacMsg
<1>2. ~Known(k) /\ Same(s, k) /\ (k.q = <<>> <=> s.q = <<>>) /\ QFit(k)
  BY <1>1, RbRemoveFx, Zenon
<1> QED
  BY <1>2, Zenon DEF Keeps, Same, LocalMac

LEMMA RemoveIfAgedFx ==
  ASSUME NEW s, Well(s), Known(s)
  PROVE  LET k == RemoveIfAged(s)
         IN  /\ Same(s, k)
             /\ \/ s.mac.age = Both /\ ~Known(k)
                \/ s.mac.age # Both /\ k = s
             /\ QFit(s) => Keeps(s, k)
             /\ Seen(s) => Seen(k)
<1> DEFINE k == RbRemove(s, s.mac.op)
<1>1. s.mac.op \in {"ADD", "DEL", "NONE"}
  BY KnownType, Zenon DEF Well, MacMsg
<1>2. ~Known(k) /\ Same(s, k) /\ (Seen(s) => Seen(k))
  BY <1>1, RbRemoveFx, Zenon
<1>3. s.mac.age = Both => ~LocalMac(s)
  BY Zenon DEF LocalMac, Both
<1>4. QFit(s) /\ s.mac.age = Both => Keeps(s, k)
  BY <1>3, RemoveKeeps, Zenon
<1> HIDE DEF k
<1>5. RemoveIfAged(s) = IF s.mac.age = Both THEN k ELSE s
  BY Zenon DEF RemoveIfAged, k
<1>6. Same(s, s)
  BY Zenon DEF Same
<1> QED
  BY <1>2, <1>4, <1>5, <1>6, KeepsSelf, ZenonT(40)

LEMMA RemoveOrRedirectFx ==
  ASSUME NEW s, Well(s), Known(s)
  PROVE  LET k == RemoveOrRedirect(s)
         IN  /\ Same(s, k)
             /\ \/ s.mac.age = Both /\ ~Known(k)
                \/ /\ s.mac.age # Both /\ Known(k) /\ k.mac.port = "pl" /\ k.mac.origin = s.mac.origin
                   /\ k.mac.age = s.mac.age
             /\ QFit(s) => Keeps(s, k)
             /\ Seen(s) => Seen(k)
<1> DEFINE k == RbRemove(s, s.mac.op)
           m == [s.mac EXCEPT !.port = "pl"]
           h == [s EXCEPT !.mac = m]
<1>1. s \in Daemon /\ s.mac \in MacMsg /\ s.mac.op \in {"ADD", "DEL", "NONE"}
  BY KnownType, Zenon DEF Well, MacMsg
<1>2. ~Known(k) /\ Same(s, k) /\ (Seen(s) => Seen(k))
  BY <1>1, RbRemoveFx, Zenon
<1>3. s.mac.age = Both => ~LocalMac(s)
  BY Zenon DEF LocalMac, Both
<1>4. QFit(s) /\ s.mac.age = Both => Keeps(s, k)
  BY <1>3, RemoveKeeps, Zenon
<1>5. m \in MacMsg /\ m.port = "pl" /\ m.origin = s.mac.origin /\ m.age = s.mac.age /\ m.op = s.mac.op
  BY <1>1, Zenon DEF MacMsg
<1>6. Known(h) /\ h.mac = m /\ h.q = s.q
  BY <1>5, UpdateMac, ZenonT(40)
<1>7. Same(s, h)
  BY <1>1, Zenon DEF Same, Daemon
<1>8. RemoveOrRedirect(s) = IF s.mac.age = Both THEN k ELSE h
  BY <1>1, Zenon DEF RemoveOrRedirect, Daemon
<1> HIDE DEF k, h, m
<1>9. QFit(s) => Keeps(s, h)
  BY <1>5, <1>6, <1>7, KeepsNeutral, Zenon DEF Same, LocalMac
<1>10. Seen(s) => Seen(h)
  BY <1>5, <1>6, SeenNeutral, Zenon DEF Seen
<1> QED
  BY <1>2, <1>4, <1>5, <1>6, <1>7, <1>8, <1>9, <1>10, ZenonT(40)

-----------------------------------------------------------------------------
(* Where an entry points, and what each handler does to it.                 *)

\* An entry points to its port or to the peer link, and to the peer link only
\* while the port channel it was learned on is down.
Placed(s) ==
    Known(s) => /\ s.mac.port \in {"pl", s.mac.origin}
                /\ s.mac.port = "pl" /\ s.mac.origin = "po" => ~s.po

OnUp(s) == Known(s) /\ s.mac.port = "po" => s.po

\* From s to k the entry may be removed, aged, or redirected because the port
\* channel is down.
Moves(s, k) ==
    /\ Same(s, k)
    /\ Seen(s) => Seen(k)
    /\ QFit(s) => Keeps(s, k)
    /\ Known(k) => /\ Known(s) /\ k.mac.origin = s.mac.origin /\ s.mac.age \subseteq k.mac.age
                   /\ \/ k.mac.port = s.mac.port
                      \/ s.mac.port = "po" /\ ~s.po /\ k.mac.port = "pl"

LEMMA MovesFx ==
  ASSUME NEW s, NEW k, Moves(s, k)
  PROVE  /\ Placed(s) => Placed(k)
         /\ OnUp(s) => OnUp(k)
         /\ RemoteMac(k) => RemoteMac(s)
         /\ LocalMac(k) => LocalMac(s)
<1>1. Placed(s) => Placed(k)
  BY Zenon DEF Moves, Same, Placed
<1>2. OnUp(s) => OnUp(k)
  BY Zenon DEF Moves, Same, OnUp
<1> QED
  BY <1>1, <1>2, Zenon DEF Moves, RemoteMac, LocalMac

\* Fields that none of the properties is about.
LEMMA FrameFx ==
  ASSUME NEW s, NEW k, Same(s, k), k.mac = s.mac, k.q = s.q
  PROVE  /\ Known(k) <=> Known(s)
         /\ LocalMac(k) <=> LocalMac(s)
         /\ RemoteMac(k) <=> RemoteMac(s)
         /\ Placed(s) <=> Placed(k)
         /\ OnUp(s) <=> OnUp(k)
         /\ Seen(s) <=> Seen(k)
         /\ QFit(s) => Keeps(s, k)
<1>1. (Known(k) <=> Known(s)) /\ (LocalMac(k) <=> LocalMac(s)) /\ (RemoteMac(k) <=> RemoteMac(s))
  BY Zenon DEF Known, LocalMac, RemoteMac
<1>2. QFit(s) => Keeps(s, k)
  BY <1>1, KeepsNeutral, Zenon DEF Same
<1>3. (Placed(s) <=> Placed(k)) /\ (OnUp(s) <=> OnUp(k)) /\ (Seen(s) <=> Seen(k))
  BY <1>1, Zenon DEF Placed, OnUp, Seen, Same
<1> QED
  BY <1>1, <1>2, <1>3, Zenon

LEMMA MovesFrame ==
  ASSUME NEW s, NEW k, NEW l, Moves(s, k), Same(k, l), l.mac = k.mac, l.q = k.q
  PROVE  Moves(s, l) /\ (RemoteMac(l) <=> RemoteMac(k))
<1>1. /\ (Known(l) <=> Known(k)) /\ (RemoteMac(l) <=> RemoteMac(k)) /\ (Seen(k) <=> Seen(l))
      /\ QFit(k) => Keeps(k, l)
  BY FrameFx, Zenon
<1>2. QFit(s) => Keeps(s, l)
  <2>1. QFit(s) => Keeps(s, k) /\ QFit(k)
    BY Zenon DEF Moves, Keeps
  <2> QED
    BY <1>1, <2>1, KeepsTrans, ZenonT(40)
<1>3. Same(s, l)
  BY Zenon DEF Moves, Same
<1> QED
  BY <1>1, <1>2, <1>3, Zenon DEF Moves

LEMMA MovesSelf ==
  ASSUME NEW s
  PROVE  Moves(s, s)
  BY KeepsSelf, Zenon DEF Moves, Same

LEMMA RemoveMoves ==
  ASSUME NEW s, Well(s), Known(s)
  PROVE  /\ Moves(s, RemoveIfAged(s)) /\ (RemoteMac(s) => RemoteMac(RemoveIfAged(s)))
         /\ s.mac.port = "po" /\ ~s.po => Moves(s, RemoveOrRedirect(s))
         /\ RemoteMac(s) => RemoteMac(RemoveOrRedirect(s))
<1>1. s.mac.age = Both => ~RemoteMac(s)
  BY Zenon DEF RemoteMac, Both
<1>2. Moves(s, RemoveIfAged(s)) /\ (RemoteMac(s) => RemoteMac(RemoveIfAged(s)))
  BY <1>1, RemoveIfAgedFx, Zenon DEF Moves
<1>3. s.mac.port = "po" /\ ~s.po => Moves(s, RemoveOrRedirect(s))
  BY RemoveOrRedirectFx, Zenon DEF Moves
<1>4. RemoteMac(s) => RemoteMac(RemoveOrRedirect(s))
  BY <1>1, RemoveOrRedirectFx, Zenon DEF RemoteMac
<1> QED
  BY <1>2, <1>3, <1>4, Zenon

LEMMA MovesTrans ==
  ASSUME NEW s, NEW k, NEW l, Moves(s, k), Moves(k, l)
  PROVE  Moves(s, l)
<1>1. QFit(s) => Keeps(s, l)
  <2>1. QFit(s) => Keeps(s, k) /\ QFit(k)
    BY Zenon DEF Moves, Keeps
  <2>2. QFit(k) => Keeps(k, l)
    BY Zenon DEF Moves
  <2> QED
    BY <2>1, <2>2, KeepsTrans, ZenonT(40)
<1>2. Same(s, l)
  BY Zenon DEF Moves, Same
<1>3. k.po = s.po
  BY Zenon DEF Moves, Same
<1> QED
  BY <1>1, <1>2, <1>3, Zenon DEF Moves

\* Ageing here is no change for the peer's side of the entry.
LEMMA SetLocalAgeMoves ==
  ASSUME NEW s, Well(s), Known(s)
  PROVE  LET k == SetLocalAge(s)
         IN  Moves(s, k) /\ Well(k) /\ Known(k) /\ (RemoteMac(s) => RemoteMac(k)) /\ k.po = s.po /\ k.mac.port = s.mac.port
             /\ k.mac.origin = s.mac.origin
<1> DEFINE k == SetLocalAge(s)
<1>1. /\ Well(k) /\ Known(k) /\ Same(s, k)
      /\ k.mac.port = s.mac.port /\ k.mac.origin = s.mac.origin
      /\ k.mac.age = s.mac.age \cup {"LOCAL"}
      /\ (QFit(s) => Keeps(s, k)) /\ (Seen(s) => Seen(k))
  BY LocalAgeFx, Zenon
<1> HIDE DEF k
<1>2. Moves(s, k)
  BY <1>1, Zenon DEF Moves
<1>3. RemoteMac(s) => RemoteMac(k)
  BY <1>1, Zenon DEF RemoteMac
<1> QED
  BY <1>1, <1>2, <1>3, Zenon DEF Same, k

LEMMA SyncdDelMoves ==
  ASSUME NEW s, Good(s), Known(s)
  PROVE  LET k == SyncdDel(s, s.mac.port)
         IN  Moves(s, k) /\ (RemoteMac(s) => RemoteMac(k))
<1> DEFINE h == SetLocalAge(s)
           k == SyncdDel(s, s.mac.port)
<1>1. /\ Moves(s, h) /\ Well(h) /\ Known(h) /\ (RemoteMac(s) => RemoteMac(h)) /\ h.po = s.po
      /\ h.mac.port = s.mac.port
  BY SetLocalAgeMoves, Zenon DEF Good
<1>2. \/ k = s
      \/ k = RemoveIfAged(h)
      \/ k = RemoveOrRedirect(h) /\ s.mac.port = "po" /\ ~s.po
  BY Zenon DEF SyncdDel
<1> HIDE DEF h, k
<1>3. CASE k = s
  BY <1>3, MovesSelf, Zenon DEF k
<1>4. CASE k = RemoveIfAged(h)
  BY <1>1, <1>4, RemoveMoves, MovesTrans, ZenonT(40) DEF k
<1>5. CASE k = RemoveOrRedirect(h) /\ s.mac.port = "po" /\ ~s.po
  BY <1>1, <1>5, RemoveMoves, MovesTrans, ZenonT(40) DEF k
<1> QED
  BY <1>2, <1>3, <1>4, <1>5, Zenon

LEMMA PeerLinkDownMoves ==
  ASSUME NEW s, Good(s)
  PROVE  LET k == PeerLinkDown(s)
         IN  Moves(s, k) /\ (RemoteMac(s) => RemoteMac(k))
<1> DEFINE h == IF s.mac.pending THEN s ELSE SetLocalAge(s)
           k == PeerLinkDown(s)
<1>1. CASE ~(Known(s) /\ s.mac.port = "pl")
  BY <1>1, MovesSelf, Zenon DEF PeerLinkDown
<1>2. CASE Known(s) /\ s.mac.port = "pl"
  <2>1. Moves(s, h) /\ Well(h) /\ Known(h) /\ (RemoteMac(s) => RemoteMac(h))
    BY <1>2, SetLocalAgeMoves, MovesSelf, ZenonT(40) DEF Good
  <2>2. k = RemoveIfAged(h)
    BY <1>2, Zenon DEF PeerLinkDown
  <2> HIDE DEF h, k
  <2>3. Moves(h, k) /\ (RemoteMac(h) => RemoteMac(k))
    BY <2>1, <2>2, RemoveMoves, Zenon
  <2> QED
    BY <2>1, <2>3, MovesTrans, ZenonT(40) DEF k
<1> QED
  BY <1>1, <1>2, Zenon

LEMMA OrphanUpMoves ==
  ASSUME NEW s, Good(s), NEW port
  PROVE  LET k == OrphanUp(s, port)
         IN  Moves(s, k) /\ (RemoteMac(s) => RemoteMac(k))
<1> DEFINE k == Enqueue(s, "ADD")
           e == Known(s) /\ s.mac.origin = port /\ s.mac.age = {"PEER"} /\ s.ex
<1>1. CASE e
  <2>1. Same(s, k) /\ SameEntry(s, k) /\ (Seen(s) => Seen(k))
    BY <1>1, EnqueueFx, SeenEnqueue, Zenon DEF Good
  <2>2. LocalMac(s) /\ LocalMac(k) /\ ~RemoteMac(s)
    BY <1>1, <2>1 DEF LocalMac, SameEntry, RemoteMac
  <2>3. QFit(s) => QFit(k) /\ k.q # <<>>
    BY <1>1, <2>2, EnqueueFit, Zenon DEF QFit, Good
  <2> HIDE DEF k
  <2>4. Moves(s, k)
    BY <1>1, <2>1, <2>3, Zenon DEF Moves, SameEntry, Keeps, Same
  <2> QED
    BY <1>1, <2>2, <2>4, Zenon DEF OrphanUp, k
<1>2. CASE ~e
  BY <1>2, MovesSelf, Zenon DEF OrphanUp
<1> QED
  BY <1>1, <1>2, Zenon

LEMMA PeerDelMoves ==
  ASSUME NEW s, Good(s)
  PROVE  Moves(s, PeerDel(s)) /\ ~RemoteMac(PeerDel(s))
<1>1. CASE ~Known(s)
  BY <1>1, MovesSelf, Zenon DEF PeerDel, RemoteMac
<1>2. CASE Known(s)
  <2> DEFINE m == [s.mac EXCEPT !.age = s.mac.age \cup {"PEER"}]
             h == [s EXCEPT !.mac = m]
             k == PeerDel(s)
  <2>1. s \in Daemon /\ s.mac \in MacMsg /\ Well(s)
    BY <1>2, KnownType, Zenon DEF Good, Well
  <2>2. s.mac.age \cup {"PEER"} \in SUBSET {"LOCAL", "PEER"}
    BY <2>1, Zenon DEF MacMsg
  <2>3. m \in MacMsg /\ m.port = s.mac.port /\ m.origin = s.mac.origin /\ m.op = s.mac.op /\ m.age = s.mac.age \cup {"PEER"}
    BY <2>1, <2>2, Zenon DEF MacMsg
  <2>4. Well(h) /\ Known(h) /\ h.mac = m /\ h.q = s.q
    BY <1>2, <2>1, <2>3, UpdateMac, ZenonT(40)
  <2>5. Same(s, h)
    BY <2>1, Zenon DEF Same, Daemon
  <2>6. h = [s EXCEPT !.mac.age = @ \cup {"PEER"}]
    BY <2>1, Zenon DEF Daemon
  <2> HIDE DEF h, m
  <2>7. k = RemoveIfAged(h)
    BY <1>2, <2>6, Zenon DEF PeerDel
  <2>8. Moves(s, h)
    <3>1. LocalMac(h) <=> LocalMac(s)
      BY <1>2, <2>3, <2>4 DEF LocalMac
    <3>2. QFit(s) => Keeps(s, h)
      BY <2>3, <2>4, <2>5, <3>1, KeepsNeutral, Zenon DEF Same
    <3>3. Seen(s) => Seen(h)
      BY <1>2, <2>3, <2>4, SeenNeutral, Zenon DEF Seen
    <3> QED
      BY <1>2, <2>3, <2>4, <2>5, <3>2, <3>3, Zenon DEF Moves
  <2>9. ~RemoteMac(h)
    BY <2>3, <2>4, Zenon DEF RemoteMac
  <2>10. Moves(h, k)
    BY <2>4, <2>7, RemoveMoves, Zenon
  <2> HIDE DEF k
  <2>11. Moves(s, k) /\ ~RemoteMac(k)
    BY <2>8, <2>9, <2>10, MovesTrans, MovesFx, ZenonT(40)
  <2> QED
    BY <2>11, Zenon DEF k
<1> QED
  BY <1>1, <1>2, Zenon

\* Learning.  Unless it comes too late, the entry is on the port and the peer
\* will be told.
LEMMA SyncdAddFx ==
  ASSUME NEW s, Good(s), NEW port \in Learned
  PROVE  LET k == SyncdAdd(s, port)
         IN  /\ Same(s, k)
             /\ Seen(s) /\ port \in scene.seen => Seen(k)
             /\ Placed(s) => Placed(k)
             /\ RemoteMac(k) => RemoteMac(s)
             /\ ~(port = "po" /\ ~s.po) =>
                  /\ Known(k) /\ k.mac.port = port /\ k.mac.origin = port
                  /\ QFit(s) => Keeps(s, k)
                  /\ RemoteMac(s) /\ s.mac.port = port /\ s.mac.origin = port => RemoteMac(k)
<1> DEFINE new == [port |-> port, origin |-> port, age |-> {"PEER"}, pending |-> FALSE, op |-> "ADD"]
           down == port = "po" /\ ~s.po
           z == SyncdAdd(s, port)
<1>1. s \in Daemon /\ Well(s)
  BY Zenon DEF Good, Well
<1>2. port # "pl"
  BY MacAssumption, Zenon DEF Learned
<1>4. CASE Known(s)
  <2> DEFINE m1 == [s.mac EXCEPT !.pending = TRUE, !.origin = port, !.port = "pl"]
             m2 == [s.mac EXCEPT !.port = port, !.origin = port]
             k1 == [s EXCEPT !.mac = m1]
             k2 == [s EXCEPT !.mac = m2]
             c2 == ClearLocalAge(k2)
             m3 == [c2.mac EXCEPT !.age = {"PEER"}]
             k3 == [c2 EXCEPT !.mac = m3]
  <2>1. s.mac \in MacMsg /\ s.mac.age # Both
    BY <1>1, <1>4, KnownType, Zenon DEF Good
  <2>2. /\ m1 \in MacMsg /\ m1.age = s.mac.age /\ m1.origin = port /\ m1.port = "pl" /\ m1.op = s.mac.op
        /\ m2 \in MacMsg /\ m2.age = s.mac.age /\ m2.origin = port /\ m2.port = port /\ m2.op = s.mac.op
    <3>1. m1 \in MacMsg /\ m2 \in MacMsg
      BY <2>1, ZenonT(40) DEF MacMsg
    <3>2. m1.age = s.mac.age /\ m1.origin = port /\ m1.port = "pl" /\ m1.op = s.mac.op
      BY <2>1, ZenonT(40) DEF MacMsg
    <3>3. m2.age = s.mac.age /\ m2.origin = port /\ m2.port = port /\ m2.op = s.mac.op
      BY <2>1, ZenonT(40) DEF MacMsg
    <3> QED
      BY <3>1, <3>2, <3>3, Zenon
  <2> HIDE DEF m1, m2
  <2>a. Well(k1) /\ Known(k1) /\ k1.mac = m1 /\ k1.q = s.q
    BY <1>1, <1>4, <2>2, UpdateMac, ZenonT(40)
  <2>b. Well(k2) /\ Known(k2) /\ k2.mac = m2 /\ k2.q = s.q
    BY <1>1, <1>4, <2>2, UpdateMac, ZenonT(40)
  <2> USE DEF m1, m2
  <2>3. /\ Well(k1) /\ Known(k1) /\ k1.mac = m1 /\ k1.q = s.q
        /\ Well(k2) /\ Known(k2) /\ k2.mac = m2 /\ k2.q = s.q
    BY <2>a, <2>b, Zenon
  <2>4. Same(s, k1) /\ Same(s, k2)
    BY <1>1, Zenon DEF Same, Daemon
  <2>5. /\ k1 = [s EXCEPT !.mac.pending = TRUE, !.mac.origin = port, !.mac.port = "pl"]
        /\ k2 = [s EXCEPT !.mac.port = port, !.mac.origin = port]
    BY <1>1, <2>1, ZenonT(40) DEF Daemon, MacMsg
  <2> HIDE DEF k1, k2, m1, m2
  <2>6. /\ Well(c2) /\ Known(c2) /\ Same(k2, c2) /\ c2.mac.port = port /\ c2.mac.origin = port
        /\ c2.mac.age = s.mac.age \ {"LOCAL"}
        /\ (QFit(k2) => Keeps(k2, c2)) /\ (Seen(k2) => Seen(c2))
    BY <2>2, <2>3, LocalAgeFx, SMTT(40)
  <2> HIDE DEF c2
  <2>7. c2 \in Daemon /\ c2.mac \in MacMsg
    BY <2>6, KnownType, Zenon DEF Well
  <2>8. m3 \in MacMsg /\ m3.port = port /\ m3.origin = port /\ m3.age = {"PEER"} /\ m3.op = c2.mac.op
    BY <2>6, <2>7, Zenon DEF MacMsg
  <2>9. Known(k3) /\ k3.mac = m3 /\ k3.q = c2.q
    BY <2>6, <2>8, UpdateMac, ZenonT(90)
  <2>10. Same(c2, k3)
    BY <2>7, Zenon DEF Same, Daemon
  <2>11. k3 = [c2 EXCEPT !.mac.age = {"PEER"}]
    BY <2>7, Zenon DEF Daemon
  <2> HIDE DEF k3, m3
  <2>12. /\ LocalMac(k1) <=> LocalMac(s)
         /\ LocalMac(k2) <=> LocalMac(s)
         /\ LocalMac(c2) /\ LocalMac(k3) /\ ~RemoteMac(k3)
         /\ RemoteMac(k1) => RemoteMac(s)
    BY <1>4, <2>2, <2>3, <2>6, <2>8, <2>9 DEF LocalMac, RemoteMac
  <2>13. QFit(s) => Keeps(s, k3)
    <3>1. QFit(s) => Keeps(s, k2)
      BY <2>2, <2>3, <2>4, <2>12, KeepsNeutral, Zenon DEF Same
    <3>2. QFit(c2) => Keeps(c2, k3)
      BY <2>8, <2>9, <2>10, <2>12, KeepsNeutral, Zenon DEF Same
    <3>3. QFit(s) => QFit(k2) /\ Keeps(k2, c2) /\ QFit(c2)
      BY <3>1, <2>6, Zenon DEF Keeps
    <3> QED
      BY <3>1, <3>2, <3>3, KeepsTrans, ZenonT(40)
  <2>14. Seen(s) /\ port \in scene.seen => Seen(k1) /\ Seen(k3)
    <3>1. Seen(s) /\ port \in scene.seen => Seen(k1) /\ Seen(k2)
      BY <2>2, <2>3, SeenNeutral, Zenon
    <3> QED
      BY <3>1, <2>6, <2>8, <2>9, SeenNeutral, Zenon
  <2>15. CASE down /\ s.pif = "up"
    <3>1. z = k1
      BY <1>4, <2>5, <2>15, Zenon DEF SyncdAdd
    <3>2. Placed(k1)
      BY <2>2, <2>3, <2>4, <2>15, Zenon DEF Placed, Same
    <3> HIDE DEF z
    <3> QED
      BY <2>4, <2>12, <2>14, <2>15, <3>1, <3>2, Zenon DEF z
  <2>16. CASE ~(down /\ s.pif = "up") /\ (s.mac.port # port \/ s.mac.origin # port)
    <3>1. z = k3
      BY <1>4, <2>5, <2>11, <2>16, Zenon DEF SyncdAdd, c2
    <3>2. Placed(k3)
      BY <1>2, <2>8, <2>9, Zenon DEF Placed
    <3>3. Same(s, k3)
      BY <2>4, <2>6, <2>10, Zenon DEF Same
    <3> HIDE DEF z
    <3> QED
      BY <2>8, <2>9, <2>12, <2>13, <2>14, <2>16, <3>1, <3>2, <3>3, ZenonT(40) DEF z
  <2>17. CASE ~(down /\ s.pif = "up") /\ s.mac.port = port /\ s.mac.origin = port
    <3>1. z = ClearLocalAge(s)
      BY <1>4, <2>17, Zenon DEF SyncdAdd
    <3>2. /\ Known(z) /\ Same(s, z) /\ z.mac.port = port /\ z.mac.origin = port
          /\ z.mac.age = s.mac.age \ {"LOCAL"}
          /\ (QFit(s) => Keeps(s, z)) /\ (Seen(s) => Seen(z))
      BY <1>1, <1>4, <2>17, <3>1, LocalAgeFx, ZenonT(40)
    <3> HIDE DEF z
    <3>3. Placed(z) /\ (RemoteMac(z) <=> RemoteMac(s))
      BY <1>2, <1>4, <3>2, Zenon DEF Placed, RemoteMac
    <3> QED
      BY <3>2, <3>3, Zenon DEF z
  <2> QED
    BY <2>15, <2>16, <2>17, Zenon
<1>5. CASE ~Known(s)
  <2> DEFINE r == IF s.ex THEN Append(s.q, TreeEntry) ELSE s.q
             k1 == [s EXCEPT !.mac = new]
             k2 == [s EXCEPT !.mac = new, !.q = r]
  <2>1. s.q \in Seq(Queued) /\ TreeEntry.own = TRUE
    BY <1>1, Zenon DEF Daemon, TreeEntry
  <2>2. \A i \in DOMAIN s.q : ~s.q[i].own
    BY <1>1, <1>5, <2>1, Zenon DEF Well, QueueOnce
  <2>3. new \in MacMsg /\ new.port = port /\ new.origin = port /\ new.age = {"PEER"} /\ new.op = "ADD"
    BY Zenon DEF MacMsg
  <2>4. new # NoMac
    BY <2>3, NewMac, Zenon
  <2> HIDE DEF new
  <2>5. /\ k1.mac = new /\ k1.q = s.q /\ Same(s, k1)
        /\ k2.mac = new /\ k2.q = r /\ Same(s, k2)
    BY <1>1, Zenon DEF Daemon, Same
  <2>6. \/ z = s /\ down
        \/ z = k1 /\ down
        \/ z = k2 /\ ~down
    BY <1>1, <1>5, Zenon DEF SyncdAdd, Daemon, new
  <2>7. /\ \A i \in DOMAIN r : r[i].own \/ (i \in DOMAIN s.q /\ r[i] = s.q[i])
        /\ s.ex => r = Append(s.q, TreeEntry) /\ Len(r) = Len(s.q) + 1 /\ r # <<>> /\ Len(r) \in DOMAIN r
                   /\ r[Len(r)] = TreeEntry /\ \A i \in DOMAIN r : r[i].own => i = Len(r)
        /\ ~s.ex => r = s.q
    <3>1. CASE s.ex
      <4>1. r = Append(s.q, TreeEntry) /\ Len(s.q) \in Nat /\ DOMAIN s.q = 1..Len(s.q)
        BY <2>1, <3>1
      <4> HIDE DEF r
      <4>2. /\ Len(r) = Len(s.q) + 1 /\ DOMAIN r = 1..(Len(s.q) + 1)
            /\ r[Len(s.q) + 1] = TreeEntry /\ \A i \in 1..Len(s.q) : r[i] = s.q[i]
        BY <2>1, <4>1, SMTT(40)
      <4>3. r # <<>>
        BY <4>1, <4>2, SMTT(40)
      <4> QED
        BY <2>1, <2>2, <3>1, <4>1, <4>2, <4>3, SMTT(40)
    <3>2. CASE ~s.ex
      BY <2>2, <3>2, Zenon
    <3> QED
      BY <3>1, <3>2, Zenon
  <2> HIDE DEF k1, k2, r
  <2>8. /\ Known(k1) /\ Known(k2) /\ LocalMac(k2) /\ ~RemoteMac(k1) /\ ~RemoteMac(k2)
        /\ Placed(k1) /\ Placed(k2) /\ k2.mac.port = port /\ k2.mac.origin = port
    BY <1>2, <2>3, <2>4, <2>5, SMTT(40) DEF Known, LocalMac, RemoteMac, Placed
  <2>9. Seen(s) /\ port \in scene.seen => Seen(k1) /\ Seen(k2)
    BY <2>3, <2>5, <2>7, ZenonT(40) DEF Seen
  <2>10. QFit(s) => Keeps(s, k2)
    <3>1. CASE s.ex
      <4>1. InMsgList(k2)
        BY <2>5, <2>7, <3>1, Zenon DEF InMsgList
      <4>2. QFit(s) => QShape(k2)
        <5>1. QFit(s) => \A i \in DOMAIN s.q : s.q[i].op = "DEL"
          BY <2>2, Zenon DEF QFit, QShape
        <5> QED
          BY <2>5, <2>7, <3>1, <5>1, SMTT(40) DEF QShape
      <4> QED
        BY <2>3, <2>5, <2>7, <2>8, <3>1, <4>1, <4>2, Zenon DEF QFit, Keeps, Same
    <3>2. CASE ~s.ex
      <4>1. QFit(s) => k2.q = <<>> /\ QShape(k2)
        BY <2>5, <2>7, <3>2, Zenon DEF QFit, QShape
      <4>2. k2.q = <<>> => ~InMsgList(k2)
        BY DEF InMsgList
      <4> QED
        BY <2>5, <3>2, <4>1, <4>2, Zenon DEF QFit, Keeps, Same
    <3> QED
      BY <3>1, <3>2, Zenon
  <2>11. ~RemoteMac(s) /\ Placed(s)
    BY <1>5, Zenon DEF RemoteMac, Placed
  <2>12. Same(s, s)
    BY Zenon DEF Same
  <2> HIDE DEF z
  <2> QED
    BY <2>5, <2>6, <2>8, <2>9, <2>10, <2>11, <2>12, Zenon DEF z
<1> QED
  BY <1>4, <1>5, Zenon

\* The timer forgets an entry without a word to the peer.
LEMMA ClearPendingFx ==
  ASSUME NEW s, Good(s)
  PROVE  LET k == ClearPending(s)
         IN  /\ Same(s, k) /\ (Seen(s) => Seen(k))
             /\ \/ k.mac = s.mac /\ k.q = s.q
                \/ ~Known(k) /\ Known(s) /\ s.mac.origin = "po"
<1> DEFINE u == [s EXCEPT !.timer = FALSE]
           k == ClearPending(s)
<1>1. s \in Daemon /\ Well(s)
  BY Zenon DEF Good, Well
<1>2. u \in Daemon /\ u.mac = s.mac /\ u.q = s.q
  BY <1>1, ZenonT(40) DEF Daemon
<1>3. Same(s, u)
  BY <1>1, Zenon DEF Same, Daemon
<1>4. Well(u) /\ (Known(s) => Known(u)) /\ (Seen(s) => Seen(u))
  BY <1>1, <1>2, <1>3, Frame, FrameFx, ZenonT(40)
<1> HIDE DEF u
<1>5. CASE Known(s) /\ s.mac.pending /\ s.mac.origin = "po"
  <2>1. k = RbRemove(u, "DEL")
    BY <1>5, Zenon DEF ClearPending, u
  <2>2. ~Known(k) /\ Same(u, k) /\ (Seen(u) => Seen(k))
    BY <1>4, <1>5, <2>1, RbRemoveFx, Zenon
  <2> HIDE DEF k
  <2> QED
    BY <1>3, <1>4, <1>5, <2>2, Zenon DEF Same, k
<1>6. CASE ~(Known(s) /\ s.mac.pending /\ s.mac.origin = "po")
  BY <1>2, <1>3, <1>4, <1>6, Zenon DEF ClearPending, u
<1> QED
  BY <1>5, <1>6, Zenon

LEMMA ConvertRemoteFx ==
  ASSUME NEW s, Good(s), s.ex
  PROVE  LET k == ConvertRemote(s)
         IN  /\ Same(s, k) /\ (Seen(s) => Seen(k)) /\ (QFit(s) => Keeps(s, k))
             /\ Known(k) <=> Known(s)
             /\ Known(s) => k.mac.port = s.mac.port /\ k.mac.origin = s.mac.origin
             /\ k # s => s.mac.origin = "po" /\ ~RemoteMac(k)
<1> DEFINE m == [s.mac EXCEPT !.age = {"PEER"}]
           h == [s EXCEPT !.mac = m]
           k == Enqueue(h, "ADD")
           e == s.po /\ Known(s) /\ s.mac.origin = "po" /\ s.mac.age = {"LOCAL"}
<1>1. s \in Daemon /\ Well(s)
  BY Zenon DEF Good, Well
<1>2. CASE e
  <2>1. s.mac \in MacMsg
    BY <1>1, <1>2, KnownType, Zenon
  <2>2. m \in MacMsg /\ m.port = s.mac.port /\ m.origin = s.mac.origin /\ m.age = {"PEER"}
    BY <2>1, Zenon DEF MacMsg
  <2> HIDE DEF m
  <2>3. Well(h) /\ Known(h) /\ h.mac = m /\ h.q = s.q
    BY <1>1, <1>2, <2>2, UpdateMac, ZenonT(40)
  <2>4. Same(s, h)
    BY <1>1, ZenonT(40) DEF Same, Daemon
  <2>5. h = [s EXCEPT !.mac.age = {"PEER"}]
    BY <1>1, Zenon DEF Daemon, m
  <2> HIDE DEF h
  <2>6. ConvertRemote(s) = k
    BY <1>2, <2>5, Zenon DEF ConvertRemote
  <2>7. Same(h, k) /\ SameEntry(h, k) /\ (Seen(h) => Seen(k))
    BY <2>3, EnqueueFx, SeenEnqueue, Zenon
  <2>8. LocalMac(h) /\ h.ex /\ (QShape(s) => QShape(h))
    BY <2>2, <2>3, <2>4 DEF LocalMac, Same, QShape
  <2>9. QShape(h) => QFit(k) /\ k.q # <<>>
    BY <2>3, <2>8, EnqueueFit, Zenon
  <2> HIDE DEF k
  <2>10. QFit(s) => Keeps(s, k)
    BY <2>4, <2>7, <2>8, <2>9, Zenon DEF QFit, Keeps, Same
  <2>11. Seen(s) => Seen(k)
    BY <1>2, <2>2, <2>3, <2>7, SeenNeutral, Zenon DEF Seen
  <2>12. /\ Known(k) /\ Same(s, k) /\ k.mac.port = s.mac.port /\ k.mac.origin = s.mac.origin /\ ~RemoteMac(k)
    BY <2>2, <2>3, <2>4, <2>7, Zenon DEF Same, SameEntry, RemoteMac
  <2> QED
    BY <1>2, <2>6, <2>10, <2>11, <2>12, Zenon
<1>3. CASE ~e
  <2>1. ConvertRemote(s) = s /\ Same(s, s)
    BY <1>3, Zenon DEF ConvertRemote, Same
  <2> QED
    BY <2>1, KeepsSelf, Zenon
<1> QED
  BY <1>2, <1>3, Zenon

\* The port channel is up: a redirected entry is taken back.
LEMMA L2MacUpFx ==
  ASSUME NEW s, Good(s)
  PROVE  LET k == L2MacUp(s)
         IN  /\ Same(s, k) /\ (Seen(s) => Seen(k))
             /\ Known(k) => /\ Known(s) /\ k.mac.origin = s.mac.origin /\ k.mac.age = s.mac.age
                            /\ k.mac.port = IF s.mac.origin = "po" /\ s.mac.port = "pl" THEN "po" ELSE s.mac.port
             /\ QFit(s) => QFit(k) /\ (k.q = <<>> <=> s.q = <<>>)
             /\ \/ QFit(s) => Keeps(s, k)
                \/ ~Known(k) /\ Known(s) /\ s.mac.origin = "po" /\ s.mac.port # "pl"
             /\ Known(s) /\ ~Known(k) => s.mac.origin = "po" /\ s.mac.port # "pl"
<1> DEFINE u == [s EXCEPT !.timer = FALSE]
           k == L2MacUp(s)
<1>1. s \in Daemon /\ Well(s)
  BY Zenon DEF Good, Well
<1>2. u \in Daemon /\ u.mac = s.mac /\ u.q = s.q
  BY <1>1, ZenonT(40) DEF Daemon
<1>3. Same(s, u)
  BY <1>1, Zenon DEF Same, Daemon
<1>4. /\ Well(u) /\ (Known(s) <=> Known(u)) /\ (Seen(s) => Seen(u))
      /\ QFit(s) => Keeps(s, u) /\ QFit(u)
  <2>1. (Known(s) <=> Known(u)) /\ (Seen(s) <=> Seen(u)) /\ (QFit(s) => Keeps(s, u))
    BY <1>2, <1>3, FrameFx, Zenon
  <2> QED
    BY <1>1, <1>2, <2>1, Frame, Zenon DEF Keeps
<1> HIDE DEF u
<1>5. CASE ~Known(s) \/ s.mac.origin # "po"
  <2>1. k = u
    BY <1>5, Zenon DEF L2MacUp, u
  <2> QED
    BY <1>2, <1>3, <1>4, <1>5, <2>1, Zenon
<1>6. CASE Known(s) /\ s.mac.origin = "po" /\ s.mac.port = "pl"
  <2> DEFINE m == [s.mac EXCEPT !.port = "po", !.pending = FALSE]
             h == [u EXCEPT !.mac = m]
  <2>1. s.mac \in MacMsg
    BY <1>1, <1>6, KnownType, Zenon
  <2>2. m \in MacMsg /\ m.port = "po" /\ m.origin = s.mac.origin /\ m.age = s.mac.age /\ m.op = s.mac.op
    <3>1. m \in MacMsg
      BY <2>1, ZenonT(40) DEF MacMsg, Learned
    <3>2. m.port = "po" /\ m.origin = s.mac.origin /\ m.age = s.mac.age /\ m.op = s.mac.op
      BY <2>1, ZenonT(40) DEF MacMsg
    <3> QED
      BY <3>1, <3>2, Zenon
  <2>3. Known(h) /\ h.mac = m /\ h.q = u.q
    BY <1>4, <1>6, <2>2, UpdateMac, ZenonT(40)
  <2>4. Same(u, h)
    BY <1>2, Zenon DEF Same, Daemon
  <2>5. h = [u EXCEPT !.mac.port = "po", !.mac.pending = FALSE]
    BY <1>2, <2>1, ZenonT(40) DEF Daemon, MacMsg
  <2> HIDE DEF h, m
  <2>6. k = h
    BY <1>6, <2>5, Zenon DEF L2MacUp, u
  <2>7. QFit(u) => Keeps(u, h)
    <3>1. LocalMac(h) <=> LocalMac(u)
      BY <1>2, <1>4, <1>6, <2>2, <2>3, Zenon DEF LocalMac
    <3> QED
      BY <1>2, <2>2, <2>3, <2>4, <3>1, KeepsNeutral, Zenon DEF Same
  <2>8. QFit(s) => Keeps(s, h)
    BY <1>4, <2>7, KeepsTrans, ZenonT(40)
  <2>9. Seen(s) => Seen(h)
    BY <1>2, <1>4, <1>6, <2>2, <2>3, SeenNeutral, Zenon DEF Seen
  <2>10. Same(s, h) /\ h.q = s.q
    BY <1>2, <1>3, <2>3, <2>4, Zenon DEF Same
  <2> HIDE DEF k
  <2> QED
    BY <1>6, <2>2, <2>3, <2>6, <2>8, <2>9, <2>10, Zenon DEF Keeps, k
<1>7. CASE Known(s) /\ s.mac.origin = "po" /\ s.mac.port # "pl"
  <2>1. CASE s.mac.pending
    <3>1. k = RbRemove(u, "DEL")
      BY <1>7, <2>1, Zenon DEF L2MacUp, u
    <3>2. /\ ~Known(k) /\ Same(u, k) /\ (Seen(u) => Seen(k)) /\ (k.q = <<>> <=> u.q = <<>>)
          /\ QFit(u) => QFit(k)
      BY <1>4, <1>7, <3>1, RbRemoveFx, Zenon
    <3>3. Same(s, k)
      BY <1>3, <3>2, Zenon DEF Same
    <3> HIDE DEF k
    <3> QED
      BY <1>2, <1>4, <1>7, <3>2, <3>3, Zenon DEF k
  <2>2. CASE ~s.mac.pending
    <3>1. k = u
      BY <1>7, <2>2, Zenon DEF L2MacUp, u
    <3> QED
      BY <1>2, <1>3, <1>4, <1>7, <3>1, Zenon
  <2> QED
    BY <2>1, <2>2, Zenon
<1> QED
  BY <1>5, <1>6, <1>7, Zenon

\* The port channel is down: the entry is redirected, aged or removed.
LEMMA L2MacDownFx ==
  ASSUME NEW s, Good(s)
  PROVE  LET k == L2MacDown(s)
         IN  /\ Same(s, k) /\ (Seen(s) => Seen(k)) /\ (QFit(s) => Keeps(s, k))
             /\ Known(k) => /\ Known(s) /\ k.mac.origin = s.mac.origin /\ s.mac.age \subseteq k.mac.age
                            /\ k.mac.port = IF s.mac.origin = "po" THEN "pl" ELSE s.mac.port
             /\ RemoteMac(s) => RemoteMac(k)
             /\ Known(s) /\ s.mac.origin # "po" => Known(k) /\ k.mac.age = s.mac.age
<1> DEFINE d == [s EXCEPT !.timer = TRUE]
           k == L2MacDown(s)
<1>1. s \in Daemon /\ Well(s)
  BY Zenon DEF Good, Well
<1>2. d \in Daemon /\ d.mac = s.mac /\ d.q = s.q
  BY <1>1, ZenonT(40) DEF Daemon
<1>3. Same(s, d)
  BY <1>1, Zenon DEF Same, Daemon
<1>4. /\ Well(d) /\ (Known(s) <=> Known(d)) /\ (Seen(s) => Seen(d)) /\ (RemoteMac(s) <=> RemoteMac(d))
      /\ QFit(s) => Keeps(s, d) /\ QFit(d)
  <2>1. /\ (Known(s) <=> Known(d)) /\ (Seen(s) <=> Seen(d)) /\ (QFit(s) => Keeps(s, d))
        /\ (RemoteMac(d) <=> RemoteMac(s))
    BY <1>2, <1>3, FrameFx, Zenon
  <2> QED
    BY <1>1, <1>2, <2>1, Frame, Zenon DEF Keeps
<1> HIDE DEF d
<1>5. CASE ~Known(s) \/ s.mac.origin # "po"
  <2>1. k = d
    BY <1>5, Zenon DEF L2MacDown, d
  <2> QED
    BY <1>2, <1>3, <1>4, <1>5, <2>1, Zenon
<1>6. CASE Known(s) /\ s.mac.origin = "po" /\ s.mac.age = {"PEER"} /\ s.pif = "up"
  <2> DEFINE m == [s.mac EXCEPT !.port = "pl", !.pending = TRUE]
             h == [d EXCEPT !.mac = m]
  <2>1. s.mac \in MacMsg
    BY <1>1, <1>6, KnownType, Zenon
  <2>2. m \in MacMsg /\ m.port = "pl" /\ m.origin = s.mac.origin /\ m.age = s.mac.age /\ m.op = s.mac.op
    <3>1. m \in MacMsg
      BY <2>1, ZenonT(40) DEF MacMsg
    <3>2. m.port = "pl" /\ m.origin = s.mac.origin /\ m.age = s.mac.age /\ m.op = s.mac.op
      BY <2>1, ZenonT(40) DEF MacMsg
    <3> QED
      BY <3>1, <3>2, Zenon
  <2> HIDE DEF m
  <2>3. Known(h) /\ h.mac = m /\ h.q = d.q
    BY <1>4, <1>6, <2>2, UpdateMac, ZenonT(40)
  <2> USE DEF m
  <2>4. Same(d, h)
    BY <1>2, Zenon DEF Same, Daemon
  <2>5. h = [d EXCEPT !.mac.port = "pl", !.mac.pending = TRUE]
    BY <1>2, <2>1, ZenonT(40) DEF Daemon, MacMsg
  <2> HIDE DEF h, m
  <2>6. k = h
    BY <1>6, <2>5, Zenon DEF L2MacDown, d
  <2>7. QFit(d) => Keeps(d, h)
    <3>1. LocalMac(h) <=> LocalMac(d)
      BY <1>2, <1>4, <1>6, <2>2, <2>3, Zenon DEF LocalMac
    <3> QED
      BY <1>2, <2>2, <2>3, <2>4, <3>1, KeepsNeutral, Zenon DEF Same
  <2>8. QFit(s) => Keeps(s, h)
    BY <1>4, <2>7, KeepsTrans, ZenonT(40)
  <2>9. Seen(s) => Seen(h)
    BY <1>2, <1>4, <1>6, <2>2, <2>3, SeenNeutral, Zenon DEF Seen
  <2>10. Same(s, h) /\ ~RemoteMac(s)
    BY <1>3, <1>6, <2>4, Zenon DEF Same, RemoteMac
  <2> HIDE DEF k
  <2> QED
    BY <1>6, <2>2, <2>3, <2>6, <2>8, <2>9, <2>10, ZenonT(40) DEF k
<1>7. CASE Known(s) /\ s.mac.origin = "po" /\ ~(s.mac.age = {"PEER"} /\ s.pif = "up")
  <2> DEFINE h == SetLocalAge(d)
  <2>1. k = RemoveOrRedirect(h)
    BY <1>7, Zenon DEF L2MacDown, d
  <2>2. /\ Moves(d, h) /\ Well(h) /\ Known(h) /\ (RemoteMac(d) => RemoteMac(h)) /\ h.mac.origin = d.mac.origin
    BY <1>4, <1>7, SetLocalAgeMoves, Zenon
  <2> HIDE DEF h
  <2>3. /\ Same(h, k)
        /\ Known(k) => k.mac.port = "pl" /\ k.mac.origin = h.mac.origin /\ k.mac.age = h.mac.age
        /\ (QFit(h) => Keeps(h, k)) /\ (Seen(h) => Seen(k)) /\ (RemoteMac(h) => RemoteMac(k))
    BY <2>1, <2>2, RemoveOrRedirectFx, RemoveMoves, Zenon
  <2> HIDE DEF k
  <2>4. QFit(s) => Keeps(s, k)
    <3>1. QFit(s) => QFit(d) /\ Keeps(s, d) /\ Keeps(d, h) /\ QFit(h)
      BY <1>4, <2>2, Zenon DEF Moves, Keeps
    <3> QED
      BY <3>1, <2>3, KeepsTrans, ZenonT(40)
  <2>5. Same(s, k) /\ (Seen(s) => Seen(k))
    BY <1>3, <1>4, <2>2, <2>3, Zenon DEF Moves, Same
  <2> QED
    BY <1>2, <1>4, <1>7, <2>2, <2>3, <2>4, <2>5, Zenon DEF Moves, k
<1> QED
  BY <1>5, <1>6, <1>7, Zenon

LEMMA ClearPeerAgeFx ==
  ASSUME NEW s, Well(s), Known(s), s.ex = TRUE, NEW origin
  PROVE  LET b == ClearPeerAge(s, origin)
         IN  /\ Well(b) /\ Known(b) /\ Same(s, b)
             /\ b.mac.port = s.mac.port /\ b.mac.origin = s.mac.origin /\ "PEER" \notin b.mac.age
             /\ (QFit(s) => Keeps(s, b)) /\ (Seen(s) => Seen(b))
<1> DEFINE ma == [s.mac EXCEPT !.age = s.mac.age \ {"PEER"}]
           a == [s EXCEPT !.mac = ma]
           mb == [ma EXCEPT !.pending = FALSE, !.age = {"LOCAL"}]
           c == [a EXCEPT !.mac = mb]
           b == ClearPeerAge(s, origin)
<1>1. s \in Daemon /\ s.mac \in MacMsg
  BY KnownType, Zenon DEF Well
<1>2. s.mac.age \ {"PEER"} \in SUBSET {"LOCAL", "PEER"}
  BY <1>1, Zenon DEF MacMsg
<1>3. /\ ma \in MacMsg /\ ma.age = s.mac.age \ {"PEER"} /\ ma.port = s.mac.port /\ ma.origin = s.mac.origin
      /\ ma.op = s.mac.op
  BY <1>1, <1>2, ZenonT(40) DEF MacMsg
<1>4. mb \in MacMsg /\ mb.age = {"LOCAL"} /\ mb.port = s.mac.port /\ mb.origin = s.mac.origin
  <2> HIDE DEF ma
  <2>1. mb \in MacMsg
    BY <1>3, ZenonT(40) DEF MacMsg
  <2>2. mb.age = {"LOCAL"} /\ mb.port = ma.port /\ mb.origin = ma.origin
    BY <1>3, ZenonT(40) DEF MacMsg
  <2> QED
    BY <1>3, <2>1, <2>2, Zenon
<1>5. a = [s EXCEPT !.mac.age = @ \ {"PEER"}]
  BY <1>1, Zenon DEF Daemon
<1> HIDE DEF ma, mb
<1>6. Well(a) /\ Known(a) /\ a.mac = ma /\ a.q = s.q /\ a \in Daemon
  BY <1>3, UpdateMac, Zenon DEF Well
<1>7. Same(s, a)
  BY <1>1, ZenonT(40) DEF Same, Daemon
<1>8. c = [a EXCEPT !.mac.pending = FALSE, !.mac.age = {"LOCAL"}]
  BY <1>3, <1>6, ZenonT(40) DEF Daemon, MacMsg, mb
<1> HIDE DEF a
<1>9. Well(c) /\ Known(c) /\ c.mac = mb /\ c.q = a.q
  BY <1>4, <1>6, UpdateMac, ZenonT(40)
<1>10. Same(a, c)
  BY <1>6, ZenonT(40) DEF Same, Daemon
<1> HIDE DEF c
<1>11. CASE origin = "po" /\ s.mac.pending
  <2> DEFINE k == Enqueue(c, "DEL")
  <2>1. b = k
    BY <1>5, <1>8, <1>11, Zenon DEF ClearPeerAge
  <2>2. Well(k) /\ Known(k) /\ Same(c, k) /\ SameEntry(c, k) /\ (Seen(c) => Seen(k))
    BY <1>9, EnqueueFx, EnqueueWell, SeenEnqueue, Zenon
  <2>3. ~LocalMac(c) /\ c.ex /\ (QShape(s) => QShape(c))
    BY <1>4, <1>6, <1>7, <1>9, <1>10 DEF LocalMac, Same, QShape
  <2>4. QShape(c) => QFit(k) /\ k.q # <<>>
    BY <1>9, <2>3, EnqueueFit, Zenon
  <2> HIDE DEF k
  <2>5. Same(s, k) /\ (QFit(s) => Keeps(s, k))
    BY <1>7, <1>10, <2>2, <2>3, <2>4, Zenon DEF Same, Keeps, QFit
  <2>6. Seen(s) => Seen(k)
    BY <1>4, <1>6, <1>9, <2>2, SeenNeutral, Zenon DEF Seen
  <2> QED
    BY <1>4, <1>9, <2>1, <2>2, <2>5, <2>6 DEF SameEntry
<1>12. CASE ~(origin = "po" /\ s.mac.pending)
  <2>1. b = a
    BY <1>5, <1>12, Zenon DEF ClearPeerAge
  <2>2. LocalMac(a) <=> LocalMac(s)
    BY <1>3, <1>6, Zenon DEF LocalMac
  <2>3. QFit(s) => Keeps(s, a)
    BY <1>3, <1>6, <1>7, <2>2, KeepsNeutral, Zenon DEF Same
  <2>4. Seen(s) => Seen(a)
    BY <1>3, <1>6, SeenNeutral, Zenon DEF Seen
  <2> QED
    BY <1>3, <1>6, <1>7, <2>1, <2>3, <2>4, Zenon
<1> QED
  BY <1>11, <1>12, Zenon

\* A change of the port or of the origin only.
PortTo(s, p) == [s EXCEPT !.mac.port = p]
OriginTo(s, o) == [s EXCEPT !.mac.origin = o]

LEMMA PointFx ==
  ASSUME NEW s, Well(s), Known(s), NEW p \in Learned \cup {"pl"}, NEW o \in Learned
  PROVE  /\ LET k == PortTo(s, p)
            IN  /\ Well(k) /\ Known(k) /\ Same(s, k)
                /\ k.mac.port = p /\ k.mac.origin = s.mac.origin /\ k.mac.age = s.mac.age
                /\ (QFit(s) => Keeps(s, k)) /\ (Seen(s) => Seen(k))
         /\ LET k == OriginTo(s, o)
            IN  /\ Well(k) /\ Known(k) /\ Same(s, k)
                /\ k.mac.port = s.mac.port /\ k.mac.origin = o /\ k.mac.age = s.mac.age
                /\ (QFit(s) => Keeps(s, k)) /\ (Seen(s) /\ o \in scene.seen => Seen(k))
<1>1. s \in Daemon /\ s.mac \in MacMsg
  BY KnownType, Zenon DEF Well
<1>2. ASSUME NEW m \in MacMsg, m.age = s.mac.age, m.op = s.mac.op
      PROVE  LET h == [s EXCEPT !.mac = m]
             IN  /\ Well(h) /\ Known(h) /\ Same(s, h) /\ h.mac = m
                 /\ (QFit(s) => Keeps(s, h)) /\ (Seen(s) /\ m.origin \in scene.seen => Seen(h))
  <2> DEFINE h == [s EXCEPT !.mac = m]
  <2>1. Well(h) /\ Known(h) /\ h.mac = m /\ h.q = s.q
    BY UpdateMac, ZenonT(40)
  <2>2. Same(s, h)
    BY <1>1, ZenonT(40) DEF Same, Daemon
  <2> HIDE DEF h
  <2>3. LocalMac(h) <=> LocalMac(s)
    BY <1>2, <2>1, Zenon DEF LocalMac
  <2>4. QFit(s) => Keeps(s, h)
    BY <1>2, <2>1, <2>2, <2>3, KeepsNeutral, Zenon DEF Same
  <2>5. Seen(s) /\ m.origin \in scene.seen => Seen(h)
    BY <2>1, SeenNeutral, Zenon
  <2> QED
    BY <2>1, <2>2, <2>4, <2>5, Zenon DEF h
<1> DEFINE mp == [s.mac EXCEPT !.port = p]
           mo == [s.mac EXCEPT !.origin = o]
<1>3. mp \in MacMsg /\ mp.port = p /\ mp.origin = s.mac.origin /\ mp.age = s.mac.age /\ mp.op = s.mac.op
  BY <1>1, ZenonT(40) DEF MacMsg
<1>4. mo \in MacMsg /\ mo.port = s.mac.port /\ mo.origin = o /\ mo.age = s.mac.age /\ mo.op = s.mac.op
  BY <1>1, ZenonT(40) DEF MacMsg
<1>5. PortTo(s, p) = [s EXCEPT !.mac = mp] /\ OriginTo(s, o) = [s EXCEPT !.mac = mo]
  BY <1>1, Zenon DEF Daemon, PortTo, OriginTo
<1> HIDE DEF mp, mo
<1> DEFINE kp == [s EXCEPT !.mac = mp]
           ko == [s EXCEPT !.mac = mo]
<1>6. /\ Well(kp) /\ Known(kp) /\ Same(s, kp) /\ kp.mac = mp
      /\ (QFit(s) => Keeps(s, kp)) /\ (Seen(s) /\ mp.origin \in scene.seen => Seen(kp))
  BY <1>2, <1>3, Zenon
<1>7. /\ Well(ko) /\ Known(ko) /\ Same(s, ko) /\ ko.mac = mo
      /\ (QFit(s) => Keeps(s, ko)) /\ (Seen(s) /\ mo.origin \in scene.seen => Seen(ko))
  BY <1>2, <1>4, Zenon
<1> HIDE DEF kp, ko
<1>8. Seen(s) => s.mac.origin \in scene.seen
  BY Zenon DEF Seen
<1> QED
  BY <1>3, <1>4, <1>5, <1>6, <1>7, <1>8, ZenonT(40) DEF kp, ko

LEMMA PeerAddFx ==
  ASSUME NEW s, Good(s), s.ex = TRUE, NEW origin \in Learned
  PROVE  LET k == PeerAdd(s, origin)
         IN  /\ Same(s, k) /\ RemoteMac(k) /\ k.mac.origin = origin
             /\ (QFit(s) => Keeps(s, k)) /\ (Seen(s) /\ origin \in scene.seen => Seen(k))
             /\ k.mac.port = IF origin = "po" /\ (s.po \/ (Known(s) /\ s.mac.port = "po" /\ s.mac.origin = "po"))
                             THEN "po" ELSE "pl"
             /\ (Known(s) => s.mac.port = "pl") /\ origin # "po" => "LOCAL" \in k.mac.age
<1> DEFINE usable == origin = "po" /\ s.po
           z == PeerAdd(s, origin)
<1>1. s \in Daemon /\ Well(s)
  BY Zenon DEF Good, Well
<1>2. origin # "pl"
  BY MacAssumption, Zenon DEF Learned
<1>3. CASE ~Known(s)
  <2> DEFINE m == [port |-> IF usable THEN "po" ELSE "pl", origin |-> origin,
                   age |-> {"LOCAL"}, pending |-> FALSE, op |-> "NONE"]
             k == [s EXCEPT !.mac = m]
  <2>1. /\ m \in MacMsg /\ m.age = {"LOCAL"} /\ m.origin = origin
        /\ m.port = IF usable THEN "po" ELSE "pl"
    BY Zenon DEF MacMsg, Learned
  <2>2. z = k
    BY <1>3, Zenon DEF PeerAdd
  <2> HIDE DEF m
  <2>3. k.mac = m /\ k.q = s.q /\ Same(s, k)
    BY <1>1, ZenonT(40) DEF Daemon, Same
  <2>4. m # NoMac
    BY <2>1, NewMac, Zenon
  <2> HIDE DEF k
  <2>5. Known(k) /\ RemoteMac(k) /\ ~LocalMac(k) /\ ~LocalMac(s)
    BY <1>3, <2>1, <2>3, <2>4 DEF Known, RemoteMac, LocalMac
  <2>6. ~InMsgList(s)
    BY <1>1, <1>3, InListOwn, Zenon DEF Well, QueueOnce
  <2>7. QFit(s) => Keeps(s, k)
    BY <2>3, <2>5, <2>6, KeepsNeutral, Zenon DEF Same
  <2>8. Seen(s) /\ origin \in scene.seen => Seen(k)
    BY <2>1, <2>3, SeenNeutral, Zenon
  <2> HIDE DEF z
  <2> QED
    BY <1>3, <2>1, <2>2, <2>3, <2>5, <2>7, <2>8, ZenonT(40) DEF z
<1>4. CASE Known(s)
  <2> DEFINE b == ClearPeerAge(s, origin)
             v == OriginTo(b, origin)
             w == SetLocalAge(v)
             fits(k) == /\ Same(s, k) /\ Known(k) /\ "PEER" \notin k.mac.age
                        /\ (QFit(s) => Keeps(s, k))
                        /\ (Seen(s) /\ origin \in scene.seen => Seen(k))
  <2>1. /\ Well(b) /\ Known(b) /\ Same(s, b)
        /\ b.mac.port = s.mac.port /\ b.mac.origin = s.mac.origin /\ "PEER" \notin b.mac.age
        /\ (QFit(s) => Keeps(s, b)) /\ (Seen(s) => Seen(b))
    BY <1>1, <1>4, ClearPeerAgeFx, Zenon
  <2> DEFINE usableCase == PortTo(v, origin)
             linkCase == PortTo(w, "pl")
             backCase == PortTo(b, "pl")
  <2>2. \/ usable /\ z = usableCase
        \/ ~usable /\ (s.mac.port # origin \/ s.mac.origin # origin) /\ z = linkCase
        \/ origin = "po" /\ s.mac.port = "po" /\ s.mac.origin = "po" /\ z = b
        \/ origin # "po" /\ s.mac.port = origin /\ s.mac.origin = origin /\ z = backCase
    BY <1>4, Zenon DEF PeerAdd, PortTo, OriginTo
  <2> HIDE DEF b, z
  <2>3. Keeps(s, b) => QFit(b)
    BY Zenon DEF Keeps
  <2>4. fits(b)
    BY <2>1, Zenon
  <2>5. "pl" \in Learned \cup {"pl"} /\ origin \in Learned \cup {"pl"}
    BY Zenon
  <2>6. ASSUME NEW x, NEW k, fits(x), Same(x, k), Known(k), "PEER" \notin k.mac.age,
               QFit(x) => Keeps(x, k), Seen(x) /\ origin \in scene.seen => Seen(k)
        PROVE  fits(k)
    <3>1. Same(s, k)
      BY <2>6, Zenon DEF Same
    <3>2. QFit(s) => Keeps(s, x) /\ Keeps(x, k)
      BY <2>6, Zenon DEF Keeps
    <3>3. QFit(s) => Keeps(s, k)
      BY <3>2, KeepsTrans, ZenonT(40)
    <3> QED
      BY <2>6, <3>1, <3>3, Zenon
  <2>7. /\ Well(v) /\ Known(v) /\ Same(b, v) /\ v.mac.port = b.mac.port /\ v.mac.origin = origin /\ v.mac.age = b.mac.age
        /\ (QFit(b) => Keeps(b, v)) /\ (Seen(b) /\ origin \in scene.seen => Seen(v))
    BY <2>1, <2>5, PointFx, SMTT(40)
  <2>8. /\ Well(backCase) /\ Known(backCase) /\ Same(b, backCase) /\ backCase.mac.port = "pl"
        /\ backCase.mac.origin = b.mac.origin /\ backCase.mac.age = b.mac.age
        /\ (QFit(b) => Keeps(b, backCase)) /\ (Seen(b) => Seen(backCase))
    BY <2>1, <2>5, PointFx, SMTT(40)
  <2> HIDE DEF v
  <2>9. fits(v)
    BY <2>1, <2>4, <2>6, <2>7, Zenon
  <2>10. /\ Well(usableCase) /\ Known(usableCase) /\ Same(v, usableCase) /\ usableCase.mac.port = origin
         /\ usableCase.mac.origin = origin /\ usableCase.mac.age = v.mac.age
         /\ (QFit(v) => Keeps(v, usableCase)) /\ (Seen(v) => Seen(usableCase))
    BY <2>5, <2>7, PointFx, SMTT(40)
  <2>11. /\ Well(w) /\ Known(w) /\ Same(v, w) /\ w.mac.origin = origin /\ w.mac.age = b.mac.age \cup {"LOCAL"}
         /\ (QFit(v) => Keeps(v, w)) /\ (Seen(v) => Seen(w))
    BY <2>7, LocalAgeFx, SMTT(40)
  <2> HIDE DEF w
  <2>12. fits(w)
    BY <2>1, <2>6, <2>9, <2>11, Zenon
  <2>13. /\ Well(linkCase) /\ Known(linkCase) /\ Same(w, linkCase) /\ linkCase.mac.port = "pl"
         /\ linkCase.mac.origin = origin /\ linkCase.mac.age = w.mac.age
         /\ (QFit(w) => Keeps(w, linkCase)) /\ (Seen(w) => Seen(linkCase))
    BY <2>5, <2>11, PointFx, SMTT(40)
  <2> HIDE DEF usableCase, linkCase, backCase
  <2>14. fits(usableCase) /\ fits(backCase)
    BY <2>1, <2>4, <2>6, <2>7, <2>8, <2>9, <2>10, Zenon
  <2>15. fits(linkCase)
    BY <2>1, <2>6, <2>11, <2>12, <2>13, Zenon
  <2>16. fits(z)
    BY <2>2, <2>4, <2>14, <2>15, ZenonT(40)
  <2>17. /\ z.mac.origin = origin
         /\ z.mac.port = IF origin = "po" /\ (s.po \/ (Known(s) /\ s.mac.port = "po" /\ s.mac.origin = "po"))
                         THEN "po" ELSE "pl"
         /\ (Known(s) => s.mac.port = "pl") /\ origin # "po" => "LOCAL" \in z.mac.age
    <3>1. CASE usable /\ z = usableCase
      BY <1>4, <2>10, <3>1, Zenon
    <3>2. CASE ~usable /\ (s.mac.port # origin \/ s.mac.origin # origin) /\ z = linkCase
      BY <1>4, <2>11, <2>13, <3>2, Zenon
    <3>3. CASE origin = "po" /\ s.mac.port = "po" /\ s.mac.origin = "po" /\ z = b
      BY <1>4, <2>1, <3>3, Zenon
    <3>4. CASE origin # "po" /\ s.mac.port = origin /\ s.mac.origin = origin /\ z = backCase
      BY <1>2, <1>4, <2>1, <2>8, <3>4, Zenon
    <3> QED
      BY <2>2, <3>1, <3>2, <3>3, <3>4, ZenonT(40)
  <2>18. RemoteMac(z)
    BY <2>16, Zenon DEF RemoteMac
  <2> HIDE DEF fits
  <2> QED
    BY <1>4, <2>16, <2>17, <2>18, ZenonT(40) DEF fits, z
<1> QED
  BY <1>3, <1>4, Zenon

LEMMA L2MacStateFx ==
  ASSUME NEW s, Good(s)
  PROVE  LET k == L2MacState(s)
         IN  /\ Same(s, k) /\ (Seen(s) => Seen(k))
             /\ Known(k) => /\ Known(s) /\ k.mac.origin = s.mac.origin /\ s.mac.age \subseteq k.mac.age
                            /\ s.mac.origin # "po" => k.mac.port = s.mac.port /\ k.mac.age = s.mac.age
                            /\ s.mac.origin = "po" /\ ~s.po => k.mac.port = "pl"
                            /\ s.mac.origin = "po" /\ s.po =>
                                 k.mac.port = IF s.mac.port = "pl" THEN "po" ELSE s.mac.port
             /\ Known(s) /\ s.mac.origin # "po" => Known(k)
             /\ QFit(s) => QFit(k) /\ (s.ex /\ k.q = <<>> => s.q = <<>>)
             /\ \/ QFit(s) => Keeps(s, k)
                \/ s.po /\ Known(s) /\ s.mac.origin = "po" /\ s.mac.port # "pl"
<1> DEFINE k == L2MacState(s)
<1>1. CASE s.po
  <2>1. k = L2MacUp(s)
    BY <1>1, Zenon DEF L2MacState
  <2> HIDE DEF k
  <2>2. QFit(s) => QFit(k) /\ (s.ex /\ k.q = <<>> => s.q = <<>>)
    BY <2>1, L2MacUpFx, Zenon
  <2>3. /\ Same(s, k) /\ (Seen(s) => Seen(k))
        /\ Known(k) => /\ Known(s) /\ k.mac.origin = s.mac.origin /\ k.mac.age = s.mac.age
                       /\ k.mac.port = IF s.mac.origin = "po" /\ s.mac.port = "pl" THEN "po" ELSE s.mac.port
        /\ \/ QFit(s) => Keeps(s, k)
           \/ ~Known(k) /\ Known(s) /\ s.mac.origin = "po" /\ s.mac.port # "pl"
        /\ Known(s) /\ ~Known(k) => s.mac.origin = "po" /\ s.mac.port # "pl"
    BY <2>1, L2MacUpFx, Zenon
  <2> QED
    BY <1>1, <2>2, <2>3, Zenon DEF k
<1>2. CASE ~s.po
  <2>1. k = L2MacDown(s)
    BY <1>2, Zenon DEF L2MacState
  <2> HIDE DEF k
  <2>2. /\ Same(s, k) /\ (Seen(s) => Seen(k)) /\ (QFit(s) => Keeps(s, k))
        /\ Known(k) => /\ Known(s) /\ k.mac.origin = s.mac.origin /\ s.mac.age \subseteq k.mac.age
                       /\ k.mac.port = IF s.mac.origin = "po" THEN "pl" ELSE s.mac.port
        /\ Known(s) /\ s.mac.origin # "po" => Known(k) /\ k.mac.age = s.mac.age
    BY <2>1, L2MacDownFx, Zenon
  <2>3. QFit(s) => QFit(k) /\ (s.ex /\ k.q = <<>> => s.q = <<>>)
    BY <2>2, Zenon DEF Keeps
  <2> QED
    BY <1>2, <2>2, <2>3, Zenon DEF k
<1> QED
  BY <1>1, <1>2, Zenon

\* The classes of states in which nothing is lost on the way to the peer: an
\* entry on a port channel that is up, one learned here, one of the peer's.
OnChan(s) == ~s.changed /\ (Known(s) /\ s.po => s.mac.port = "po")
Home(s) == Known(s) => s.mac.port # "pl" /\ "PEER" \in s.mac.age
Away(s) == Known(s) => s.mac.port = "pl" /\ "LOCAL" \in s.mac.age

LEMMA L2MacStateClass ==
  ASSUME NEW s, Good(s)
  PROVE  LET k == L2MacState(s)
         IN  /\ RemoteMac(k) => RemoteMac(s)
             /\ LocalMac(k) => LocalMac(s)
             /\ (Known(s) => s.mac.port \in {"pl", s.mac.origin}) => Placed(k) /\ OnUp(k)
             /\ (Known(s) => s.mac.origin # "po") =>
                   /\ RemoteMac(s) => RemoteMac(k)
                   /\ Home(s) => Home(k)
                   /\ Away(s) => Away(k)
             /\ (Known(s) => s.mac.origin = "po") /\ OnChan(s) => OnChan(k)
<1> DEFINE k == L2MacState(s)
<1>1. /\ k.po = s.po /\ k.changed = s.changed
      /\ Known(k) => /\ Known(s) /\ k.mac.origin = s.mac.origin /\ s.mac.age \subseteq k.mac.age
                     /\ s.mac.origin # "po" => k.mac.port = s.mac.port /\ k.mac.age = s.mac.age
                     /\ s.mac.origin = "po" /\ ~s.po => k.mac.port = "pl"
                     /\ s.mac.origin = "po" /\ s.po =>
                          k.mac.port = IF s.mac.port = "pl" THEN "po" ELSE s.mac.port
      /\ Known(s) /\ s.mac.origin # "po" => Known(k)
  BY L2MacStateFx, Zenon DEF Same
<1> HIDE DEF k
<1>2. (RemoteMac(k) => RemoteMac(s)) /\ (LocalMac(k) => LocalMac(s))
  BY <1>1, Zenon DEF RemoteMac, LocalMac
<1>3. (Known(s) => s.mac.port \in {"pl", s.mac.origin}) => Placed(k) /\ OnUp(k)
  BY <1>1, Zenon DEF Placed, OnUp
<1>4. (Known(s) => s.mac.origin # "po") =>
                   /\ RemoteMac(s) => RemoteMac(k)
                   /\ Home(s) => Home(k)
                   /\ Away(s) => Away(k)
  BY <1>1, Zenon DEF RemoteMac, Home, Away
<1>5. (Known(s) => s.mac.origin = "po") /\ OnChan(s) => OnChan(k)
  BY <1>1, Zenon DEF OnChan
<1> QED
  BY <1>2, <1>3, <1>4, <1>5, ZenonT(40) DEF k

LEMMA PoChangeFx ==
  ASSUME NEW s, Good(s)
  PROVE  LET k == L2MacState([s EXCEPT !.po = ~@, !.changed = TRUE])
         IN  /\ k.ex = s.ex /\ k.out = s.out /\ (Seen(s) => Seen(k))
             /\ RemoteMac(k) => RemoteMac(s)
             /\ Placed(s) => Placed(k) /\ OnUp(k)
             /\ Placed(s) /\ OnUp(s) /\ QFit(s) => Keeps(s, k)
             /\ (Known(s) => s.mac.origin # "po") =>
                   /\ RemoteMac(s) => RemoteMac(k)
                   /\ Home(s) => Home(k)
                   /\ Away(s) => Away(k)
<1> DEFINE h == [s EXCEPT !.po = ~@, !.changed = TRUE]
           k == L2MacState(h)
<1>1. s \in Daemon
  BY Zenon DEF Good, Well
<1>2. h \in Daemon
  BY <1>1, ZenonT(40) DEF Daemon
<1>3. h.mac = s.mac /\ h.q = s.q /\ h.ex = s.ex /\ h.out = s.out
  BY <1>1, ZenonT(40) DEF Daemon
<1>4. h.po = ~s.po
  BY <1>1, ZenonT(40) DEF Daemon
<1> HIDE DEF h
<1>5. Good(h)
  BY <1>2, <1>3, Frame, ZenonT(40)
<1>6. /\ Known(h) <=> Known(s)
      /\ LocalMac(h) <=> LocalMac(s)
      /\ RemoteMac(h) <=> RemoteMac(s)
  BY <1>3, Zenon DEF Known, LocalMac, RemoteMac
<1>7. QFit(s) => Keeps(s, h)
  BY <1>3, <1>6, KeepsNeutral, Zenon
<1>8. Seen(s) => Seen(h)
  BY <1>3, <1>6, SeenNeutral, Zenon DEF Seen
<1>9. (Home(s) => Home(h)) /\ (Away(s) => Away(h))
  BY <1>3, <1>6, Zenon DEF Home, Away
<1>10. Placed(s) => (Known(h) => h.mac.port \in {"pl", h.mac.origin})
  BY <1>3, <1>6, Zenon DEF Placed
<1>11. /\ Same(h, k) /\ (Seen(h) => Seen(k))
       /\ \/ QFit(h) => Keeps(h, k)
          \/ h.po /\ Known(h) /\ h.mac.origin = "po" /\ h.mac.port # "pl"
  BY <1>5, L2MacStateFx, Zenon
<1>12. /\ RemoteMac(k) => RemoteMac(h)
       /\ (Known(h) => h.mac.port \in {"pl", h.mac.origin}) => Placed(k) /\ OnUp(k)
       /\ (Known(h) => h.mac.origin # "po") =>
                   /\ RemoteMac(h) => RemoteMac(k)
                   /\ Home(h) => Home(k)
                   /\ Away(h) => Away(k)
  BY <1>5, L2MacStateClass, Zenon
<1> HIDE DEF k
<1>13. Placed(s) /\ OnUp(s) /\ QFit(s) => Keeps(s, k)
  <2> SUFFICES ASSUME Placed(s), OnUp(s), QFit(s) PROVE Keeps(s, k)
    BY Zenon
  <2>1. ~(h.po /\ Known(h) /\ h.mac.origin = "po" /\ h.mac.port # "pl")
    BY <1>3, <1>4, <1>6, ZenonT(40) DEF Placed, OnUp
  <2>2. Keeps(s, h) /\ QFit(h)
    BY <1>7, Zenon DEF Keeps
  <2> QED
    BY <1>11, <2>1, <2>2, KeepsTrans, ZenonT(40)
<1>14. k.ex = s.ex /\ k.out = s.out
  BY <1>3, <1>11, Zenon DEF Same
<1> QED
  BY <1>3, <1>6, <1>8, <1>9, <1>10, <1>11, <1>12, <1>13, <1>14, ZenonT(40) DEF k, h

LEMMA EnterExchangeFx ==
  ASSUME NEW s, Good(s)
  PROVE  LET k == EnterExchange(s)
         IN  /\ k.ex = TRUE /\ k.out = s.out /\ (Seen(s) => Seen(k))
             /\ RemoteMac(k) => RemoteMac(s)
             /\ Placed(s) => Placed(k) /\ OnUp(k)
             /\ s.q = <<>> => QFit(k) /\ (k.q = <<>> => ~LocalMac(k))
             /\ (Known(s) => s.mac.origin # "po") =>
                   /\ Home(s) => Home(k)
                   /\ Away(s) => Away(k)
             /\ (Known(s) => s.mac.origin = "po") /\ OnChan(s) => OnChan(k)
<1> DEFINE x == [s EXCEPT !.ex = TRUE]
           e == Enqueue(x, "ADD")
           h == IF LocalMac(s) THEN e ELSE x
           k == EnterExchange(s)
<1>1. s \in Daemon
  BY Zenon DEF Good, Well
<1>2. /\ x \in Daemon /\ x.mac = s.mac /\ x.q = s.q /\ x.out = s.out
      /\ x.ex = TRUE /\ x.po = s.po /\ x.changed = s.changed
  <2>1. x \in Daemon
    BY <1>1, ZenonT(40) DEF Daemon
  <2> QED
    BY <1>1, <2>1, Zenon DEF Daemon
<1>3. k = L2MacState(h)
  BY Zenon DEF EnterExchange, LocalMac
<1> HIDE DEF x
<1>4. Good(x) /\ (Known(s) => Known(x))
  BY <1>2, Frame, ZenonT(40)
<1>5. LocalMac(s) => Known(x) /\ Well(x) /\ Well(e) /\ Good(e) /\ Known(e)
  BY <1>4, EnqueueGood, Zenon DEF LocalMac, Good
<1>6. LocalMac(s) => Same(x, e) /\ SameEntry(x, e) /\ (Seen(x) => Seen(e))
  BY <1>5, EnqueueFx, SeenEnqueue, Zenon
<1>7. s.q = <<>> => QShape(x)
  BY <1>2 DEF QShape
<1>8. LocalMac(s) => LocalMac(x)
  BY <1>2, <1>5, Zenon DEF LocalMac
<1>9. LocalMac(s) /\ s.q = <<>> => QFit(e) /\ e.q # <<>>
  BY <1>2, <1>5, <1>7, <1>8, EnqueueFit, ZenonT(40)
<1>10. Seen(s) => Seen(x)
  BY <1>2, SeenNeutral, Zenon DEF Seen, Known
<1> HIDE DEF e
<1>11. /\ h.ex = TRUE /\ h.out = s.out /\ h.po = s.po /\ h.changed = s.changed
       /\ Known(h) <=> Known(s)
       /\ Known(s) => /\ h.mac.port = s.mac.port /\ h.mac.origin = s.mac.origin /\ h.mac.age = s.mac.age
  BY <1>2, <1>4, <1>6, Zenon DEF Same, SameEntry, LocalMac, Known
<1>12. Good(h) /\ (Seen(s) => Seen(h))
  BY <1>4, <1>5, <1>6, <1>10, Zenon
<1>13. s.q = <<>> => QFit(h) /\ (h.q = <<>> => ~LocalMac(h))
  <2>1. CASE LocalMac(s)
    BY <1>9, <2>1, Zenon
  <2>2. CASE ~LocalMac(s)
    <3>1. ~LocalMac(x)
      BY <1>2, <2>2, Zenon DEF LocalMac, Known
    <3> QED
      BY <1>2, <1>7, <2>2, <3>1 DEF QFit, InMsgList
  <2> QED
    BY <2>1, <2>2, Zenon
<1> HIDE DEF h
<1>14. /\ RemoteMac(h) => RemoteMac(s)
       /\ (Home(s) => Home(h)) /\ (Away(s) => Away(h)) /\ (OnChan(s) => OnChan(h))
       /\ Placed(s) => (Known(h) => h.mac.port \in {"pl", h.mac.origin})
  BY <1>11, Zenon DEF RemoteMac, Home, Away, OnChan, Placed
<1>15. /\ Same(h, k) /\ (Seen(h) => Seen(k))
       /\ QFit(h) => QFit(k) /\ (h.ex /\ k.q = <<>> => h.q = <<>>)
  BY <1>3, <1>12, L2MacStateFx
<1>16. /\ RemoteMac(k) => RemoteMac(h)
       /\ LocalMac(k) => LocalMac(h)
       /\ (Known(h) => h.mac.port \in {"pl", h.mac.origin}) => Placed(k) /\ OnUp(k)
       /\ (Known(h) => h.mac.origin # "po") => (Home(h) => Home(k)) /\ (Away(h) => Away(k))
       /\ (Known(h) => h.mac.origin = "po") /\ OnChan(h) => OnChan(k)
  BY <1>3, <1>12, L2MacStateClass, Zenon
<1> HIDE DEF k
<1>17. k.ex = TRUE /\ k.out = s.out
  BY <1>11, <1>15, Zenon DEF Same
<1>18. s.q = <<>> => QFit(k) /\ (k.q = <<>> => ~LocalMac(k))
  BY <1>11, <1>13, <1>15, <1>16, Zenon
<1> QED
  BY <1>11, <1>12, <1>14, <1>15, <1>16, <1>17, <1>18, ZenonT(40) DEF k

LEMMA PeerDisconnFx ==
  ASSUME NEW s, Good(s)
  PROVE  LET k == PeerDisconnFdb(s)
         IN  /\ Same(s, k)
             /\ Known(k) => /\ Known(s) /\ k.mac.port = s.mac.port /\ k.mac.origin = s.mac.origin
                            /\ "PEER" \in k.mac.age
             /\ Away(s) => ~Known(k)
<1> DEFINE z == PeerDisconnFdb(s)
<1>1. s \in Daemon /\ Well(s)
  BY Zenon DEF Good, Well
<1>2. CASE ~Known(s)
  BY <1>2, Zenon DEF PeerDisconnFdb, Same
<1>3. CASE Known(s)
  <2> DEFINE mp == [s.mac EXCEPT !.age = s.mac.age \cup {"PEER"}]
             mc == [s.mac EXCEPT !.age = {"PEER"}]
             kp == [s EXCEPT !.mac = mp]
             kc == [s EXCEPT !.mac = mc]
  <2>1. s.mac \in MacMsg
    BY <1>1, <1>3, KnownType, Zenon
  <2>2. s.mac.age \cup {"PEER"} \in SUBSET {"LOCAL", "PEER"}
    BY <2>1, Zenon DEF MacMsg
  <2>3. mp \in MacMsg /\ mp.age = s.mac.age \cup {"PEER"} /\ mp.port = s.mac.port /\ mp.origin = s.mac.origin
    BY <2>1, <2>2, ZenonT(40) DEF MacMsg
  <2>4. mc \in MacMsg /\ mc.age = {"PEER"} /\ mc.port = s.mac.port /\ mc.origin = s.mac.origin
    <3>1. {"PEER"} \in SUBSET {"LOCAL", "PEER"}
      BY Zenon
    <3> QED
      BY <2>1, <3>1, ZenonT(40) DEF MacMsg
  <2>5. /\ kp = [s EXCEPT !.mac.age = @ \cup {"PEER"}]
        /\ kc = [s EXCEPT !.mac.age = {"PEER"}]
    BY <1>1, <2>1, Zenon DEF Daemon
  <2> HIDE DEF mp, mc
  <2>6. Well(kp) /\ kp.mac = mp /\ Known(kp) /\ kc.mac = mc
    BY <1>1, <1>3, <2>3, <2>4, UpdateMac, ZenonT(40)
  <2>7. Same(s, kp) /\ Same(s, kc)
    BY <1>1, Zenon DEF Same, Daemon
  <2>8. mp.op \in {"ADD", "DEL", "NONE"}
    BY <2>3, Zenon DEF MacMsg
  <2> HIDE DEF kp, kc
  <2> DEFINE kr == RbRemove(kp, kp.mac.op)
  <2>9. ~Known(kr) /\ Same(kp, kr)
    BY <2>6, <2>8, RbRemoveFx, Zenon
  <2>10. z = IF s.mac.port = "pl"
             THEN IF kp.mac.age = Both \/ kp.mac.pending THEN kr ELSE kp
             ELSE kc
    BY <1>3, <2>5 DEF PeerDisconnFdb
  <2> HIDE DEF kr, z
  <2>11. Same(s, kr)
    BY <2>7, <2>9, Zenon DEF Same
  <2>12. Away(s) => s.mac.port = "pl" /\ kp.mac.age = Both
    <3>1. Away(s) => s.mac.port = "pl" /\ "LOCAL" \in s.mac.age
      BY <1>3, Zenon DEF Away
    <3> QED
      BY <2>2, <2>3, <2>6, <3>1, ZenonT(40) DEF Both
  <2>13. Same(s, z)
    BY <2>7, <2>10, <2>11, Zenon
  <2>14. Away(s) => ~Known(z)
    BY <2>9, <2>10, <2>12, Zenon
  <2>15. Known(z) => /\ z.mac.port = s.mac.port /\ z.mac.origin = s.mac.origin
                     /\ "PEER" \in z.mac.age
    BY <2>3, <2>4, <2>6, <2>9, <2>10, Zenon
  <2> QED
    BY <1>3, <2>13, <2>14, <2>15, Zenon DEF z
<1> QED
  BY <1>2, <1>3, Zenon

\* What is left when the session is lost: nothing held for the peer.
Off(s) == [QueueReinit(PeerDisconnFdb(s)) EXCEPT !.ex = FALSE, !.pif = "none"]

LEMMA DisconnectFx ==
  ASSUME NEW s, Good(s)
  PROVE  LET k == Off(s)
         IN  /\ k.ex = FALSE /\ k.out = s.out /\ k.q = <<>> /\ QFit(k) /\ (Seen(s) => Seen(k))
             /\ ~RemoteMac(k)
             /\ (Placed(s) => Placed(k)) /\ (OnUp(s) => OnUp(k))
             /\ (Home(s) => Home(k)) /\ (Away(s) => Away(k)) /\ (OnChan(s) => OnChan(k))
<1> DEFINE h == PeerDisconnFdb(s)
           d == InMsgList(h) /\ h.mac.op = "DEL"
           k == [QueueReinit(h) EXCEPT !.ex = FALSE, !.pif = "none"]
<1>1. h \in Daemon
  BY PeerDisconnGood, Zenon DEF Good, Well
<1>2. /\ Same(s, h)
      /\ Known(h) => /\ Known(s) /\ h.mac.port = s.mac.port /\ h.mac.origin = s.mac.origin
                     /\ "PEER" \in h.mac.age
      /\ Away(s) => ~Known(h)
  BY PeerDisconnFx, Zenon
<1> HIDE DEF h
<1>3. QueueReinit(h) = [h EXCEPT !.q = <<>>, !.dangling = @ \/ d]
  BY Zenon DEF QueueReinit
<1> HIDE DEF d
<1>4. /\ k.q = <<>> /\ k.mac = h.mac /\ k.ex = FALSE /\ k.po = h.po /\ k.changed = h.changed
      /\ k.out = h.out
  BY <1>1, <1>3, ZenonT(40) DEF Daemon
<1>5. k = Off(s)
  BY Zenon DEF Off, h
<1> HIDE DEF k
<1>6. Known(k) <=> Known(h)
  BY <1>4, Zenon DEF Known
<1>7. ~RemoteMac(k)
  BY <1>2, <1>4, <1>6, Zenon DEF RemoteMac
<1>8. QFit(k)
  BY <1>4 DEF QFit, QShape, InMsgList
<1>9. Seen(s) => Seen(k)
  BY <1>2, <1>4, <1>6 DEF Seen
<1>10. (Placed(s) => Placed(k)) /\ (OnUp(s) => OnUp(k))
  BY <1>2, <1>4, <1>6, Zenon DEF Placed, OnUp, Same
<1>11. (Home(s) => Home(k)) /\ (Away(s) => Away(k)) /\ (OnChan(s) => OnChan(k))
  BY <1>2, <1>4, <1>6, Zenon DEF Home, Away, OnChan, Same
<1>12. k.out = s.out
  BY <1>2, <1>4, Zenon DEF Same
<1> QED
  BY <1>4, <1>5, <1>7, <1>8, <1>9, <1>10, <1>11, <1>12, ZenonT(40)

-----------------------------------------------------------------------------
(* The messages on their way: only the last update counts.                  *)

Silent(w) == \A i \in DOMAIN w : w[i].type # "MAC"
Last(w, op) ==
    \E i \in DOMAIN w : /\ w[i].type = "MAC" /\ w[i].op = op
                        /\ \A j \in DOMAIN w : j > i => w[j].type # "MAC"
Word(s) == IF LocalMac(s) THEN "ADD" ELSE "DEL"

LEMMA LastOnce ==
  ASSUME NEW w \in Seq(Msg), NEW op
  PROVE  /\ Last(w, op) => ~Silent(w)
         /\ \A op2 : Last(w, op) /\ Last(w, op2) => op = op2
<1>1. DOMAIN w \subseteq Int
  OBVIOUS
<1>2. \A i, j \in DOMAIN w : i = j \/ i > j \/ j > i
  BY <1>1
<1> QED
  BY <1>2, ZenonT(40) DEF Last, Silent

LEMMA TailLast ==
  ASSUME NEW w \in Seq(Msg), w # <<>>, NEW op
  PROVE  LET r == Tail(w)
             h == Head(w)
         IN  /\ h.type # "MAC" => (Last(w, op) <=> Last(r, op)) /\ (Silent(w) <=> Silent(r))
             /\ h.type = "MAC" => ~Silent(w) /\ (Last(w, op) <=> Last(r, op) \/ (Silent(r) /\ h.op = op))
<1> DEFINE r == Tail(w)
           h == Head(w)
<1>1. /\ r \in Seq(Msg) /\ Len(w) \in Nat /\ Len(w) > 0 /\ Len(r) = Len(w) - 1 /\ h = w[1]
      /\ DOMAIN r = 1..(Len(w) - 1) /\ DOMAIN w = 1..Len(w)
      /\ \A i \in DOMAIN r : r[i] = w[i + 1]
  BY SMTT(40)
<1> HIDE DEF r, h
<1>2. 1 \in DOMAIN w
  BY <1>1
<1>3. \A i \in DOMAIN r : i + 1 \in DOMAIN w /\ r[i] = w[i + 1]
  BY <1>1
<1>4. \A j \in DOMAIN w : j = 1 \/ (j - 1 \in DOMAIN r /\ w[j] = r[j - 1])
  BY <1>1
<1>5. Silent(w) <=> h.type # "MAC" /\ Silent(r)
  <2>1. Silent(w) => h.type # "MAC" /\ Silent(r)
    BY <1>1, <1>2, <1>3, Zenon DEF Silent
  <2>2. h.type # "MAC" /\ Silent(r) => Silent(w)
    BY <1>1, <1>4, ZenonT(40) DEF Silent
  <2> QED
    BY <2>1, <2>2, Zenon
<1>6. Last(r, op) => Last(w, op)
  <2> SUFFICES ASSUME Last(r, op) PROVE Last(w, op)
    BY Zenon
  <2>1. PICK i \in DOMAIN r : /\ r[i].type = "MAC" /\ r[i].op = op
                              /\ \A j \in DOMAIN r : j > i => r[j].type # "MAC"
    BY Zenon DEF Last
  <2>2. i + 1 \in DOMAIN w /\ w[i + 1].type = "MAC" /\ w[i + 1].op = op
    BY <1>3, <2>1, Zenon
  <2>3. ASSUME NEW j \in DOMAIN w, j > i + 1 PROVE w[j].type # "MAC"
    <3>1. i \in Int /\ j \in Int /\ i > 0
      BY <1>1
    <3>2. j - 1 \in DOMAIN r /\ w[j] = r[j - 1] /\ j - 1 > i
      BY <1>4, <2>3, <3>1
    <3> QED
      BY <2>1, <3>2, Zenon
  <2> QED
    BY <2>2, <2>3, Zenon DEF Last
<1>7. h.type = "MAC" /\ h.op = op /\ Silent(r) => Last(w, op)
  <2> SUFFICES ASSUME h.type = "MAC", h.op = op, Silent(r) PROVE Last(w, op)
    BY Zenon
  <2>1. \A j \in DOMAIN w : j > 1 => w[j].type # "MAC"
    BY <1>4 DEF Silent
  <2> QED
    BY <1>1, <1>2, <2>1, Zenon DEF Last
<1>8. Last(w, op) => Last(r, op) \/ (h.type = "MAC" /\ h.op = op /\ Silent(r))
  <2> SUFFICES ASSUME Last(w, op) PROVE Last(r, op) \/ (h.type = "MAC" /\ h.op = op /\ Silent(r))
    BY Zenon
  <2>1. PICK i \in DOMAIN w : /\ w[i].type = "MAC" /\ w[i].op = op
                              /\ \A j \in DOMAIN w : j > i => w[j].type # "MAC"
    BY Zenon DEF Last
  <2>2. ASSUME NEW j \in DOMAIN r, j > i - 1 PROVE r[j].type # "MAC"
    <3>1. j \in Int /\ i \in Int
      BY <1>1
    <3>2. j + 1 \in DOMAIN w /\ r[j] = w[j + 1] /\ j + 1 > i
      BY <1>3, <2>2, <3>1
    <3> QED
      BY <2>1, <3>2, Zenon
  <2>3. CASE i = 1
    <3>1. \A j \in DOMAIN r : j > i - 1
      BY <1>1, <2>3
    <3>2. Silent(r)
      BY <2>2, <3>1, Zenon DEF Silent
    <3> QED
      BY <1>1, <2>1, <2>3, <3>2, Zenon
  <2>4. CASE i # 1
    <3>1. i - 1 \in DOMAIN r /\ r[i - 1].type = "MAC" /\ r[i - 1].op = op
      BY <1>4, <2>1, <2>4, Zenon
    <3> QED
      BY <2>2, <3>1, Zenon DEF Last
  <2> QED
    BY <2>3, <2>4, Zenon
<1> QED
  BY <1>5, <1>6, <1>7, <1>8, Zenon DEF r, h

LEMMA ConcatLast ==
  ASSUME NEW w \in Seq(Msg), NEW o \in Seq(Msg), NEW op
  PROVE  /\ Silent(o) => (Last(w \o o, op) <=> Last(w, op)) /\ (Silent(w \o o) <=> Silent(w))
         /\ Last(o, op) => Last(w \o o, op)
<1> DEFINE c == w \o o
<1>1. /\ c \in Seq(Msg) /\ Len(w) \in Nat /\ Len(o) \in Nat
      /\ DOMAIN c = 1..(Len(w) + Len(o)) /\ DOMAIN w = 1..Len(w) /\ DOMAIN o = 1..Len(o)
      /\ \A i \in DOMAIN c : c[i] = IF i <= Len(w) THEN w[i] ELSE o[i - Len(w)]
  BY SMTT(40)
<1> HIDE DEF c
<1>2. \A i \in DOMAIN w : i \in DOMAIN c /\ c[i] = w[i]
  BY <1>1
<1>3. \A i \in DOMAIN o : i + Len(w) \in DOMAIN c /\ c[i + Len(w)] = o[i]
  BY <1>1, SMTT(40)
<1>4. \A i \in DOMAIN c : \/ i \in DOMAIN w /\ c[i] = w[i]
                          \/ i - Len(w) \in DOMAIN o /\ c[i] = o[i - Len(w)]
  BY <1>1
<1>5. Silent(o) => (Silent(c) <=> Silent(w))
  BY <1>2, <1>4, Zenon DEF Silent
<1>6. Silent(o) /\ Last(c, op) => Last(w, op)
  <2> SUFFICES ASSUME Silent(o), Last(c, op) PROVE Last(w, op)
    BY Zenon
  <2>1. PICK i \in DOMAIN c : /\ c[i].type = "MAC" /\ c[i].op = op
                              /\ \A j \in DOMAIN c : j > i => c[j].type # "MAC"
    BY Zenon DEF Last
  <2>2. i \in DOMAIN w /\ c[i] = w[i]
    BY <1>4, <2>1, Zenon DEF Silent
  <2>3. \A j \in DOMAIN w : j > i => w[j].type # "MAC"
    BY <1>2, <2>1, Zenon
  <2> QED
    BY <2>1, <2>2, <2>3, Zenon DEF Last
<1>7. Silent(o) /\ Last(w, op) => Last(c, op)
  <2> SUFFICES ASSUME Silent(o), Last(w, op) PROVE Last(c, op)
    BY Zenon
  <2>1. PICK i \in DOMAIN w : /\ w[i].type = "MAC" /\ w[i].op = op
                              /\ \A j \in DOMAIN w : j > i => w[j].type # "MAC"
    BY Zenon DEF Last
  <2>2. \A j \in DOMAIN c : j > i => c[j].type # "MAC"
    BY <1>4, <2>1, Zenon DEF Silent
  <2> QED
    BY <1>2, <2>1, <2>2, Zenon DEF Last
<1>8. Last(o, op) => Last(c, op)
  <2> SUFFICES ASSUME Last(o, op) PROVE Last(c, op)
    BY Zenon
  <2>1. PICK i \in DOMAIN o : /\ o[i].type = "MAC" /\ o[i].op = op
                              /\ \A j \in DOMAIN o : j > i => o[j].type # "MAC"
    BY Zenon DEF Last
  <2>2. ASSUME NEW j \in DOMAIN c, j > i + Len(w) PROVE c[j].type # "MAC"
    <3>1. j - Len(w) \in DOMAIN o /\ c[j] = o[j - Len(w)] /\ j - Len(w) > i
      BY <1>1, <2>2, SMTT(40)
    <3> QED
      BY <2>1, <3>1, Zenon
  <2> QED
    BY <1>3, <2>1, <2>2, Zenon DEF Last
<1> QED
  BY <1>5, <1>6, <1>7, <1>8, Zenon DEF c

\* One pass: the state of the port channel if it changed, and the list.
Sent(s) == ExchangeSend(s).out
After(s) == [ExchangeSend(s) EXCEPT !.out = <<>>]

LEMMA ExchangeSendFx ==
  ASSUME NEW s, Good(s), s.out = <<>>
  PROVE  /\ LET k == After(s)
            IN  /\ k.mac = s.mac /\ k.ex = s.ex /\ k.po = s.po /\ k.changed = FALSE /\ k.q = <<>>
                /\ k.out = <<>>
         /\ Sent(s) \in Seq(Msg)
         /\ \A i \in DOMAIN Sent(s) : LET m == Sent(s)[i]
              IN  /\ m.type # "DONE"
                  /\ m.type = "STATE" => s.changed
                  /\ m.type = "MAC" /\ Seen(s) => m.origin \in scene.seen
                  /\ m.type = "MAC" /\ QFit(s) => m.op \in {"ADD", "DEL"} /\ (m.op = "ADD" => LocalMac(s))
         /\ s.q = <<>> => Silent(Sent(s))
         /\ s.q # <<>> /\ QFit(s) => Last(Sent(s), Word(s))
<1> DEFINE none == <<>>
           st == [type |-> "STATE", up |-> s.po]
           o == IF s.changed THEN Append(s.out, st) ELSE s.out
           t == [s EXCEPT !.changed = FALSE, !.out = o]
           f == [i \in DOMAIN s.q |->
                   IF s.q[i].own THEN [type |-> "MAC", op |-> s.mac.op, origin |-> s.mac.origin]
                                 ELSE [type |-> "MAC", op |-> s.q[i].op, origin |-> s.q[i].origin]]
           k == ExchangeSend(s)
<1>1. s \in Daemon /\ s.q \in Seq(Queued) /\ s.po \in BOOLEAN
  BY Zenon DEF Good, Well, Daemon
<1>2. Len(s.q) \in Nat /\ DOMAIN s.q = 1..Len(s.q) /\ \A i \in DOMAIN s.q : s.q[i] \in Queued
  BY <1>1
<1>3. \A i \in DOMAIN s.q : /\ f[i].type = "MAC"
                            /\ s.q[i].own => f[i].op = s.mac.op /\ f[i].origin = s.mac.origin
                            /\ ~s.q[i].own => f[i].op = s.q[i].op /\ f[i].origin = s.q[i].origin
  BY ZenonT(40)
<1>4. DOMAIN f = 1..Len(s.q) /\ f = [i \in 1..Len(s.q) |-> f[i]]
  BY <1>2, Zenon
<1>5. st.type = "STATE"
  BY Zenon
<1> HIDE DEF st
<1>6. o = (IF s.changed THEN <<st>> ELSE <<>>)
  OBVIOUS
<1> HIDE DEF f
<1>7. f \in Seq({f[i] : i \in 1..Len(s.q)}) /\ Len(f) = Len(s.q)
  <2>1. f \in [1..Len(s.q) -> {f[i] : i \in 1..Len(s.q)}]
    BY <1>4, Zenon
  <2>2. f \in Seq({f[i] : i \in 1..Len(s.q)})
    BY <1>2, <2>1, SeqDef, ZenonT(40)
  <2> QED
    BY <1>2, <1>4, <2>2
<1> DEFINE c == o \o f
           n == Len(o)
<1>8. /\ n \in Nat /\ Len(s.q) \in Nat /\ DOMAIN c = 1..(n + Len(s.q))
      /\ \A i \in DOMAIN c : c[i] = IF i <= n THEN o[i] ELSE f[i - n]
  <2>1. <<st>> \in Seq({st}) /\ <<>> \in Seq({st})
    OBVIOUS
  <2> HIDE DEF o
  <2>2. o \in Seq({st})
    BY <1>6, <2>1, Zenon
  <2> DEFINE F == {f[i] : i \in 1..Len(s.q)}
             U == {st} \cup F
  <2>3. {st} \subseteq U /\ F \subseteq U
    BY Zenon
  <2> HIDE DEF F, U
  <2>4. o \in Seq(U) /\ f \in Seq(U)
    BY <1>7, <2>2, <2>3, SeqMonotone, Zenon DEF F
  <2>5. /\ Len(o) \in Nat /\ Len(f) \in Nat /\ DOMAIN (o \o f) = 1..(Len(o) + Len(f))
        /\ \A i \in DOMAIN (o \o f) : (o \o f)[i] = IF i <= Len(o) THEN o[i] ELSE f[i - Len(o)]
    BY <2>4, CatParts, Zenon
  <2> QED
    BY <1>7, <2>5, Zenon
<1>9. \A i \in 1..n : s.changed /\ o[i] = st
  BY <1>6
<1> HIDE DEF o
<1>10. t \in Daemon /\ t.q = s.q /\ t.mac = s.mac /\ t.out = o /\ t.ex = s.ex /\ t.po = s.po /\ t.changed = FALSE
  <2>1. st \in Msg
    BY <1>1, Zenon DEF Msg, st
  <2>2. o \in Seq(Msg)
    <3>1. <<st>> \in Seq(Msg) /\ <<>> \in Seq(Msg)
      BY <2>1
    <3> QED
      BY <1>6, <3>1, Zenon
  <2>3. t \in Daemon
    BY <1>1, <2>2, ZenonT(40) DEF Daemon
  <2> QED
    BY <1>1, <2>3, ZenonT(40) DEF Daemon
<1>11. k = [t EXCEPT !.q = <<>>, !.out = c]
  BY <1>10, Zenon DEF ExchangeSend, SendMacInfo, o, f, st
<1>12. Sent(s) \in Seq(Msg)
  BY ExchangeSendGood, Zenon DEF Sent
<1> HIDE DEF t, k, c
<1>13. /\ k.mac = s.mac /\ k.ex = s.ex /\ k.po = s.po /\ k.changed = FALSE /\ k.q = <<>>
       /\ k.out = c /\ DOMAIN k = DOMAIN t
  BY <1>10, <1>11, ZenonT(40) DEF Daemon
<1>14. Sent(s) = c
  BY <1>13, Zenon DEF Sent, k
<1>15. LET h == After(s)
       IN  /\ h.mac = s.mac /\ h.ex = s.ex /\ h.po = s.po /\ h.changed = FALSE /\ h.q = <<>>
           /\ h.out = <<>>
  <2>1. After(s) = [k EXCEPT !.out = <<>>]
    BY Zenon DEF After, k
  <2>2. "mac" \in DOMAIN k /\ "ex" \in DOMAIN k /\ "po" \in DOMAIN k /\ "changed" \in DOMAIN k /\ "q" \in DOMAIN k
        /\ "out" \in DOMAIN k
    BY <1>10, <1>13, Zenon DEF Daemon
  <2> QED
    BY <1>13, <2>1, <2>2, ZenonT(40)
<1>16. ASSUME NEW i \in DOMAIN c
       PROVE  /\ c[i].type # "DONE"
              /\ c[i].type = "STATE" => s.changed
              /\ c[i].type = "MAC" /\ Seen(s) => c[i].origin \in scene.seen
              /\ c[i].type = "MAC" /\ QFit(s) => c[i].op \in {"ADD", "DEL"} /\ (c[i].op = "ADD" => LocalMac(s))
  <2>1. CASE i <= n
    <3>1. i \in 1..n /\ c[i] = o[i]
      BY <1>8, <2>1
    <3>2. c[i].type = "STATE" /\ s.changed
      BY <1>5, <1>9, <3>1, Zenon
    <3> QED
      BY <3>2, Zenon
  <2>2. CASE ~(i <= n)
    <3> DEFINE j == i - n
    <3>1. j \in DOMAIN s.q /\ c[i] = f[j]
      BY <1>2, <1>8, <2>2
    <3> HIDE DEF j
    <3>2. CASE s.q[j].own
      <4>1. Known(s) /\ s.q[j] = TreeEntry
        BY <1>2, <3>1, <3>2, OwnIsTree, Zenon DEF Good, Well, QueueOnce
      <4>2. InMsgList(s)
        BY <3>1, <4>1, Zenon DEF InMsgList
      <4> QED
        BY <1>3, <3>1, <3>2, <4>1, <4>2, ZenonT(40) DEF Seen, QFit
    <3>3. CASE ~s.q[j].own
      BY <1>3, <3>1, <3>3, ZenonT(40) DEF Seen, QFit, QShape
    <3> QED
      BY <3>2, <3>3, Zenon
  <2> QED
    BY <2>1, <2>2, Zenon
<1>17. s.q = <<>> => Silent(c)
  <2> SUFFICES ASSUME s.q = <<>>, NEW i \in DOMAIN c PROVE c[i].type # "MAC"
    BY Zenon DEF Silent
  <2>1. Len(s.q) = 0
    OBVIOUS
  <2>2. i \in 1..n /\ c[i] = o[i]
    BY <1>8, <2>1
  <2> QED
    BY <1>5, <1>9, <2>2, Zenon
<1>18. s.q # <<>> /\ QFit(s) => Last(c, Word(s))
  <2> SUFFICES ASSUME s.q # <<>>, QFit(s) PROVE Last(c, Word(s))
    BY Zenon
  <2> DEFINE l == Len(s.q)
  <2>1. l \in Nat /\ l > 0 /\ l \in DOMAIN s.q
    BY <1>1
  <2>2. n + l \in DOMAIN c /\ c[n + l] = f[l] /\ \A j \in DOMAIN c : ~(j > n + l)
    BY <1>8, <2>1, SMTT(40)
  <2>3. f[l].op = Word(s)
    <3>1. CASE s.q[l].own
      <4>1. s.q[l] = TreeEntry
        BY <1>2, <2>1, <3>1, OwnIsTree, ZenonT(40)
      <4>2. InMsgList(s)
        BY <2>1, <4>1, Zenon DEF InMsgList
      <4> QED
        BY <1>3, <2>1, <3>1, <4>2, ZenonT(40) DEF QFit, Word
    <3>2. CASE ~s.q[l].own
      <4>1. ~\E i \in DOMAIN s.q : s.q[i].own
        BY <3>2, Zenon DEF QFit, QShape
      <4>2. ~LocalMac(s)
        BY <4>1, InListOwn, Zenon DEF QFit, Good
      <4> QED
        BY <1>3, <2>1, <3>2, <4>2, ZenonT(40) DEF QFit, QShape, Word
    <3> QED
      BY <3>1, <3>2, Zenon
  <2>4. f[l].type = "MAC"
    BY <1>3, <2>1, Zenon
  <2> HIDE DEF l, n
  <2> QED
    BY <2>2, <2>3, <2>4, Zenon DEF Last
<1> HIDE DEF n
<1> QED
  BY <1>12, <1>14, <1>15, <1>16, <1>17, <1>18, ZenonT(40)

-----------------------------------------------------------------------------
(* The invariant.                                                           *)

\* What the scenario promises about the station.
NoLate == "late" \in scene.event => "po" \notin scene.seen
Shared == scene.seen \subseteq {"po"} /\ "po" \notin scene.event /\ Prompt
Alone(a) == scene.seen \cap {"po", scene.orphan[Peer(a)]} = {}

\* What s will hold for the peer once it has handled the messages w, against
\* what the peer m has learned.
Belief(w, s) == Last(w, "ADD") \/ (Silent(w) /\ RemoteMac(s))
Tell(m, w, s) == m.ex /\ m.q = <<>> /\ Belief(w, s) => LocalMac(m)
Hear(m, w, s) == m.ex /\ m.q = <<>> /\ LocalMac(m) => Belief(w, s)

NodeOK(n, s) ==
    /\ s.out = <<>> /\ Seen(s) /\ Placed(s) /\ (~s.ex => ~RemoteMac(s))
    /\ NoLate => OnUp(s)
    /\ Prompt => QFit(s)
    /\ Shared => OnChan(s)
    /\ Alone(n) => Home(s)
    /\ Alone(Peer(n)) => Away(s)

MsgOK(n, m) ==
    /\ m.type = "MAC" => m.origin \in scene.seen
    /\ Prompt /\ m.type = "MAC" => m.op \in {"ADD", "DEL"}
    /\ Shared => m.type # "STATE"
    /\ Alone(n) /\ m.type = "MAC" => m.op # "ADD"

WireOK(n) == \A i \in DOMAIN wire[n] : MsgOK(n, wire[n][i])

\* The session: DONE is the first message to the ACTIVE node, which is in
\* EXCHANGE once it has read it; before, it sends nothing.
Stage ==
    /\ \A n \in Node : ~open[n] => ~daemon[n].ex /\ wire[n] = <<>>
    /\ open[Hi] => daemon[Hi].ex
    /\ open[Lo] /\ ~daemon[Lo].ex =>
         wire[Lo] # <<>> /\ Head(wire[Lo]).type = "DONE" /\ wire[Hi] = <<>> /\ ~RemoteMac(daemon[Hi])
    /\ \A n \in Node : \A i \in DOMAIN wire[n] :
         wire[n][i].type = "DONE" => n = Lo /\ i = 1 /\ ~daemon[n].ex

Agree(n) ==
    open[n] /\ open[Peer(n)] =>
        /\ Prompt => Tell(daemon[Peer(n)], wire[n], daemon[n])
        /\ Shared \/ Alone(Peer(n)) => Hear(daemon[Peer(n)], wire[n], daemon[n])

GInv ==
    /\ IInv /\ Stage
    /\ \A n \in Node : NodeOK(n, daemon[n]) /\ WireOK(n) /\ Agree(n)

LEMMA Classes ==
  /\ Shared => Prompt
  /\ \A a : Alone(a) => Prompt /\ "po" \notin scene.seen
  /\ Prompt => NoLate
<1>1. Shared => Prompt
  BY Zenon DEF Shared
<1>2. ASSUME NEW a, Alone(a) PROVE Prompt /\ "po" \notin scene.seen
  BY <1>2, Zenon DEF Alone, Prompt
<1>3. Prompt => NoLate
  BY Zenon DEF Prompt, NoLate
<1> QED
  BY <1>1, <1>2, <1>3, ZenonT(40)

LEMMA SceneSame ==
  ASSUME scene' = scene
  PROVE  /\ (Prompt' <=> Prompt) /\ (NoLate' <=> NoLate) /\ (Shared' <=> Shared)
         /\ \A a : Alone(a)' <=> Alone(a)
<1>1. Prompt' <=> Prompt
  BY Zenon DEF Prompt
<1> QED
  BY <1>1, Zenon DEF NoLate, Shared, Alone

LEMMA PeerPeer == \A n \in Node : Peer(Peer(n)) = n
  BY MacAssumption, Zenon DEF Node, Peer

\* A local event: the daemon of n becomes k, the messages stay.
LocalFx(n, s, k) ==
    /\ k.ex = s.ex /\ NodeOK(n, k) /\ (RemoteMac(k) => RemoteMac(s))
    /\ Prompt => Keeps(s, k)
    /\ (Shared \/ Alone(Peer(n))) /\ RemoteMac(s) => RemoteMac(k)

LEMMA LocalStep ==
  ASSUME GInv, NEW n \in Node, NEW k, LocalFx(n, daemon[n], k),
         daemon' = [daemon EXCEPT ![n] = k], UNCHANGED <<open, wire, scene>>, IInv'
  PROVE  GInv'
<1> DEFINE s == daemon[n]
<1>1. daemon \in [Node -> Daemon] /\ scene' = scene /\ open' = open /\ wire' = wire
  BY Zenon DEF GInv, IInv, TypeOK
<1>2. daemon'[n] = k /\ \A h \in Node : h # n => daemon'[h] = daemon[h]
  BY <1>1, Zenon
<1>3. /\ (Prompt' <=> Prompt) /\ (NoLate' <=> NoLate) /\ (Shared' <=> Shared)
      /\ \A a : Alone(a)' <=> Alone(a)
  BY <1>1, SceneSame, Zenon
<1>4. ASSUME NEW h \in Node PROVE NodeOK(h, daemon[h])'
  <2>1. NodeOK(h, daemon'[h])
    BY <1>2, Zenon DEF GInv, LocalFx
  <2> QED
    BY <1>1, <1>3, <2>1, Zenon DEF NodeOK, Seen
<1>5. ASSUME NEW h \in Node PROVE WireOK(h)'
  <2>1. WireOK(h)
    BY Zenon DEF GInv
  <2> QED
    BY <1>1, <1>3, <2>1, Zenon DEF WireOK, MsgOK
<1>6. Stage'
  <2>1. \A h \in Node : daemon'[h].ex = daemon[h].ex /\ (RemoteMac(daemon'[h]) => RemoteMac(daemon[h]))
    BY <1>2, Zenon DEF LocalFx
  <2>2. Lo \in Node /\ Hi \in Node
    BY Zenon DEF Node
  <2> QED
    BY <1>1, <2>1, <2>2 DEF Stage, GInv
<1>7. ASSUME NEW h \in Node PROVE Agree(h)'
  <2> DEFINE m == daemon[Peer(h)]
             w == wire[h]
  <2>1. Peer(h) \in Node /\ Peer(h) # h /\ Peer(Peer(h)) = h
    BY PeerType, PeerPeer, Zenon
  <2>2. Agree(h)
    BY Zenon DEF GInv
  <2>3. CASE h = n
    <3>1. daemon'[Peer(h)] = m /\ daemon'[h] = k
      BY <1>2, <2>1, <2>3, Zenon
    <3>2. /\ Belief(w, k) => Belief(w, s)
          /\ (Shared \/ Alone(Peer(h))) /\ Belief(w, s) => Belief(w, k)
      BY <2>3, Zenon DEF LocalFx, Belief
    <3>3. /\ Tell(m, w, s) => Tell(m, w, k)
          /\ (Shared \/ Alone(Peer(h))) /\ Hear(m, w, s) => Hear(m, w, k)
      BY <3>2, Zenon DEF Tell, Hear
    <3> QED
      BY <1>1, <1>3, <2>2, <2>3, <3>1, <3>3, Zenon DEF Agree
  <2>4. CASE h # n
    <3>1. Peer(h) = n /\ daemon'[h] = daemon[h] /\ daemon'[Peer(h)] = k
      BY <1>2, <2>1, <2>4 DEF Node, Peer
    <3>2. Prompt => (k.ex /\ k.q = <<>> => s.ex /\ s.q = <<>> /\ (LocalMac(k) <=> LocalMac(s)))
      BY Zenon DEF LocalFx, Keeps
    <3>3. Prompt => /\ Tell(s, w, daemon[h]) => Tell(k, w, daemon[h])
                    /\ Hear(s, w, daemon[h]) => Hear(k, w, daemon[h])
      BY <3>2, Zenon DEF Tell, Hear
    <3>4. Shared \/ Alone(Peer(h)) => Prompt
      BY Classes, Zenon
    <3> QED
      BY <1>1, <1>3, <2>2, <3>1, <3>3, <3>4, Zenon DEF Agree
  <2> QED
    BY <2>3, <2>4, Zenon
<1> QED
  BY <1>4, <1>5, <1>6, <1>7, Zenon DEF GInv

LEMMA MovesNode ==
  ASSUME NEW n \in Node, NEW s, NodeOK(n, s), NEW k, Moves(s, k)
  PROVE  /\ k.ex = s.ex /\ NodeOK(n, k) /\ (RemoteMac(k) => RemoteMac(s))
         /\ Prompt => Keeps(s, k)
<1>1. /\ k.ex = s.ex /\ k.po = s.po /\ k.changed = s.changed /\ k.out = s.out
      /\ Seen(s) => Seen(k)
      /\ QFit(s) => Keeps(s, k)
      /\ Known(k) => /\ Known(s) /\ k.mac.origin = s.mac.origin /\ s.mac.age \subseteq k.mac.age
                     /\ \/ k.mac.port = s.mac.port
                        \/ s.mac.port = "po" /\ ~s.po /\ k.mac.port = "pl"
  BY Zenon DEF Moves, Same
<1>2. (Placed(s) => Placed(k)) /\ (OnUp(s) => OnUp(k)) /\ (RemoteMac(k) => RemoteMac(s))
  BY MovesFx, Zenon
<1>3. OnChan(s) => OnChan(k)
  BY <1>1, Zenon DEF OnChan
<1>4. Alone(n) => Home(k)
  <2> SUFFICES ASSUME Alone(n), Known(k) PROVE k.mac.port # "pl" /\ "PEER" \in k.mac.age
    BY Zenon DEF Home
  <2>1. Known(s) /\ Home(s) /\ Placed(s) /\ Seen(s) /\ "po" \notin scene.seen
    BY <1>1, Classes, Zenon DEF NodeOK
  <2>2. s.mac.port # "pl" /\ "PEER" \in s.mac.age /\ s.mac.port # "po"
    BY <2>1, Zenon DEF Home, Placed, Seen
  <2> QED
    BY <1>1, <2>2, Zenon
<1>5. Away(s) => Away(k)
  BY <1>1, Zenon DEF Away
<1>6. QFit(s) => QFit(k)
  BY <1>1, Zenon DEF Keeps
<1> QED
  BY <1>1, <1>2, <1>3, <1>4, <1>5, <1>6, Zenon DEF NodeOK

LEMMA MovesLocal ==
  ASSUME NEW n \in Node, NEW s, NodeOK(n, s), NEW k, Moves(s, k), RemoteMac(s) => RemoteMac(k)
  PROVE  LocalFx(n, s, k)
  BY MovesNode, Zenon DEF LocalFx

LEMMA SyncdAddLocal ==
  ASSUME NEW n \in Node, NEW s, Good(s), NodeOK(n, s), NEW port \in Learned,
         port \in scene.seen \cap {"po", scene.orphan[n]},
         port = "po" /\ ~s.po => "late" \in scene.event
  PROVE  LocalFx(n, s, SyncdAdd(s, port))
<1> DEFINE k == SyncdAdd(s, port)
           up == ~(port = "po" /\ ~s.po)
<1>1. /\ k.ex = s.ex /\ k.po = s.po /\ k.changed = s.changed /\ k.out = s.out
      /\ Seen(k) /\ Placed(k) /\ (RemoteMac(k) => RemoteMac(s))
      /\ up => /\ Known(k) /\ k.mac.port = port /\ k.mac.origin = port
               /\ QFit(s) => Keeps(s, k)
               /\ RemoteMac(s) /\ s.mac.port = port /\ s.mac.origin = port => RemoteMac(k)
  BY SyncdAddFx, Zenon DEF Same, NodeOK
<1> HIDE DEF k
<1>2. NoLate => up
  BY Zenon DEF NoLate
<1>3. up => OnUp(k)
  BY <1>1, Zenon DEF OnUp
<1>4. Prompt => up /\ Keeps(s, k) /\ QFit(k)
  BY <1>1, <1>2, Classes, Zenon DEF NodeOK, Keeps
<1>5. Shared => OnChan(k) /\ (RemoteMac(s) => RemoteMac(k))
  <2> SUFFICES ASSUME Shared PROVE OnChan(k) /\ (RemoteMac(s) => RemoteMac(k))
    BY Zenon
  <2>1. port = "po" /\ up /\ s.po /\ OnChan(s) /\ Seen(s)
    BY <1>4, Classes, Zenon DEF Shared, NodeOK
  <2>2. RemoteMac(s) => s.mac.port = port /\ s.mac.origin = port
    BY <2>1, Zenon DEF OnChan, RemoteMac, Seen, Shared
  <2> QED
    BY <1>1, <2>1, <2>2, ZenonT(40) DEF OnChan
<1>6. Alone(n) => Home(k)
  <2> SUFFICES ASSUME Alone(n) PROVE Home(k)
    BY Zenon
  <2>1. up /\ Home(s)
    BY <1>4, Classes, Zenon DEF NodeOK
  <2>2. ~RemoteMac(s)
    BY <2>1, Zenon DEF Home, RemoteMac
  <2>3. port # "pl"
    BY MacAssumption, Zenon DEF Learned
  <2> QED
    BY <1>1, <2>1, <2>2, <2>3, Zenon DEF Home, RemoteMac
<1>7. ~Alone(Peer(n))
  BY PeerPeer, Zenon DEF Alone
<1> QED
  BY <1>1, <1>2, <1>3, <1>4, <1>5, <1>6, <1>7, ZenonT(40) DEF LocalFx, NodeOK, k

LEMMA PoChangeLocal ==
  ASSUME NEW n \in Node, NEW s, Good(s), NodeOK(n, s), "po" \in scene.event
  PROVE  LocalFx(n, s, L2MacState([s EXCEPT !.po = ~@, !.changed = TRUE]))
<1> DEFINE k == L2MacState([s EXCEPT !.po = ~@, !.changed = TRUE])
<1>1. /\ k.ex = s.ex /\ k.out = s.out /\ (Seen(s) => Seen(k))
      /\ RemoteMac(k) => RemoteMac(s)
      /\ Placed(s) => Placed(k) /\ OnUp(k)
      /\ Placed(s) /\ OnUp(s) /\ QFit(s) => Keeps(s, k)
      /\ (Known(s) => s.mac.origin # "po") =>
                   /\ RemoteMac(s) => RemoteMac(k)
                   /\ Home(s) => Home(k)
                   /\ Away(s) => Away(k)
  BY PoChangeFx, Zenon
<1> HIDE DEF k
<1>2. ~Shared
  BY Zenon DEF Shared
<1>3. ASSUME NEW a, Alone(a) PROVE Known(s) => s.mac.origin # "po"
  BY <1>3, Classes, Zenon DEF NodeOK, Seen
<1>4. Prompt => Keeps(s, k) /\ QFit(k)
  BY <1>1, Classes, Zenon DEF NodeOK, Keeps
<1> QED
  BY <1>1, <1>2, <1>3, <1>4, ZenonT(40) DEF LocalFx, NodeOK, k

LEMMA ClearPendingLocal ==
  ASSUME NEW n \in Node, NEW s, Good(s), NodeOK(n, s), "timer" \in scene.event
  PROVE  LocalFx(n, s, ClearPending(s))
<1> DEFINE k == ClearPending(s)
<1>1. /\ Same(s, k) /\ (Seen(s) => Seen(k))
      /\ \/ k.mac = s.mac /\ k.q = s.q
         \/ ~Known(k) /\ Known(s) /\ s.mac.origin = "po"
  BY ClearPendingFx, Zenon
<1> HIDE DEF k
<1>2. CASE k.mac = s.mac /\ k.q = s.q
  <2>1. Moves(s, k) /\ (RemoteMac(k) <=> RemoteMac(s))
    BY <1>1, <1>2, MovesSelf, MovesFrame, Zenon
  <2> QED
    BY <2>1, MovesLocal, Zenon DEF k
<1>3. CASE ~Known(k) /\ Known(s) /\ s.mac.origin = "po"
  <2>1. ~Prompt
    BY <1>3, Zenon DEF Prompt, NodeOK, Seen
  <2>2. ~Shared /\ ~Alone(n) /\ ~Alone(Peer(n))
    BY <2>1, Classes, Zenon
  <2>3. Placed(k) /\ OnUp(k) /\ ~RemoteMac(k)
    BY <1>3, Zenon DEF Placed, OnUp, RemoteMac
  <2> QED
    BY <1>1, <2>1, <2>2, <2>3, ZenonT(40) DEF LocalFx, NodeOK, Same, k
<1> QED
  BY <1>1, <1>2, <1>3, Zenon

-----------------------------------------------------------------------------
(* A pass: the daemon handles a message or none, and sends its list.        *)

LEMMA SentBelief ==
  ASSUME NEW k, Good(k), k.out = <<>>, QFit(k), NEW w \in Seq(Msg), NEW d
  PROVE  LET c == w \o Sent(k)
         IN  /\ k.q # <<>> => (Belief(c, d) <=> LocalMac(k))
             /\ k.q = <<>> => (Belief(c, d) <=> Belief(w, d))
<1> DEFINE o == Sent(k)
           c == w \o o
<1>1. o \in Seq(Msg) /\ (k.q = <<>> => Silent(o)) /\ (k.q # <<>> => Last(o, Word(k)))
  BY ExchangeSendFx, Zenon
<1> HIDE DEF o
<1>2. c \in Seq(Msg)
  BY <1>1
<1>3. k.q # <<>> => Last(c, Word(k))
  BY <1>1, ConcatLast, Zenon
<1>4. k.q = <<>> => (Last(c, "ADD") <=> Last(w, "ADD")) /\ (Silent(c) <=> Silent(w))
  BY <1>1, ConcatLast, Zenon
<1> HIDE DEF c
<1>5. Last(c, "DEL") => ~Silent(c) /\ ~Last(c, "ADD")
  BY <1>2, LastOnce, Zenon
<1> QED
  BY <1>3, <1>4, <1>5, Zenon DEF Belief, Word, c, o

LEMMA AfterOK ==
  ASSUME NEW n, NEW k, Good(k), NodeOK(n, k), k.ex = TRUE
  PROVE  NodeOK(n, After(k)) /\ (RemoteMac(After(k)) <=> RemoteMac(k)) /\ (LocalMac(After(k)) <=> LocalMac(k))
<1> DEFINE x == After(k)
<1>1. x.mac = k.mac /\ x.ex = k.ex /\ x.po = k.po /\ x.changed = FALSE /\ x.q = <<>> /\ x.out = <<>>
  BY ExchangeSendFx, Zenon DEF NodeOK
<1> HIDE DEF x
<1>2. (Known(x) <=> Known(k)) /\ (RemoteMac(x) <=> RemoteMac(k)) /\ (LocalMac(x) <=> LocalMac(k))
  BY <1>1, Zenon DEF Known, RemoteMac, LocalMac
<1>3. Seen(k) => Seen(x)
  BY <1>1, <1>2 DEF Seen
<1>4. (Placed(k) => Placed(x)) /\ (OnUp(k) => OnUp(x)) /\ (OnChan(k) => OnChan(x))
      /\ (Home(k) => Home(x)) /\ (Away(k) => Away(x))
  BY <1>1, <1>2, Zenon DEF Placed, OnUp, OnChan, Home, Away
<1>5. QFit(x)
  BY <1>1 DEF QFit, QShape, InMsgList
<1> QED
  BY <1>1, <1>2, <1>3, <1>4, <1>5, ZenonT(40) DEF NodeOK, x

\* From daemon s with the messages w on their way to k with rest, before k sends.
PassFx(n, s, w, k, rest) ==
    /\ k.ex = TRUE /\ NodeOK(n, k)
    /\ (rest = w /\ k = s) \/ (w # <<>> /\ rest = Tail(w))
    /\ Prompt => /\ Belief(rest, k) => Belief(w, s)
                 /\ k.q = <<>> => IF s.ex THEN s.q = <<>> /\ (LocalMac(k) <=> LocalMac(s)) ELSE ~LocalMac(k)
    /\ (Shared \/ Alone(Peer(n))) /\ Belief(w, s) => Belief(rest, k)

LEMMA PassStep ==
  ASSUME GInv, NEW n \in Node, open[n], NEW k, Good(k), NEW rest, PassFx(n, daemon[n], wire[n], k, rest),
         daemon' = [daemon EXCEPT ![n] = After(k)],
         wire' = [wire EXCEPT ![n] = rest, ![Peer(n)] = IF open[Peer(n)] THEN @ \o Sent(k) ELSE @],
         UNCHANGED <<open, scene>>, IInv'
  PROVE  GInv'
<1> DEFINE s == daemon[n]
           w == wire[n]
           p == Peer(n)
           x == After(k)
           u == wire[p]
           c == u \o Sent(k)
           d == daemon[p]
<1>1. /\ daemon \in [Node -> Daemon] /\ wire \in [Node -> Seq(Msg)] /\ scene' = scene /\ open' = open
      /\ p \in Node /\ p # n /\ Peer(p) = n /\ w \in Seq(Msg) /\ u \in Seq(Msg)
      /\ \A h \in Node : h = n \/ h = p
  BY PeerType, PeerPeer, Zenon DEF GInv, IInv, TypeOK, Node, Peer
<1>2. /\ daemon'[n] = x /\ daemon'[p] = d
      /\ wire'[n] = rest /\ wire'[p] = IF open[p] THEN c ELSE u
  BY <1>1, Zenon
<1>3. /\ (Prompt' <=> Prompt) /\ (NoLate' <=> NoLate) /\ (Shared' <=> Shared)
      /\ \A a : Alone(a)' <=> Alone(a)
  BY <1>1, SceneSame, Zenon
<1>4. NodeOK(n, x) /\ (RemoteMac(x) <=> RemoteMac(k)) /\ (LocalMac(x) <=> LocalMac(k))
  BY AfterOK, Zenon DEF PassFx
<1>5. x.ex = TRUE /\ x.q = <<>> /\ k.out = <<>>
  BY ExchangeSendFx, Zenon DEF PassFx, NodeOK
<1>6. /\ Sent(k) \in Seq(Msg)
      /\ \A i \in DOMAIN Sent(k) : Sent(k)[i].type # "DONE" /\ MsgOK(p, Sent(k)[i])
  <2>1. /\ Sent(k) \in Seq(Msg)
        /\ \A i \in DOMAIN Sent(k) : LET m == Sent(k)[i]
             IN  /\ m.type # "DONE"
                 /\ m.type = "STATE" => k.changed
                 /\ m.type = "MAC" /\ Seen(k) => m.origin \in scene.seen
                 /\ m.type = "MAC" /\ QFit(k) => m.op \in {"ADD", "DEL"} /\ (m.op = "ADD" => LocalMac(k))
    BY <1>5, ExchangeSendFx, Zenon
  <2>2. Seen(k) /\ (Prompt => QFit(k)) /\ (Shared => ~k.changed)
    BY Zenon DEF PassFx, NodeOK, OnChan
  <2>3. Alone(p) => QFit(k) /\ ~LocalMac(k)
    BY <2>2, Classes, Zenon DEF PassFx, NodeOK, Away, LocalMac
  <2> QED
    BY <2>1, <2>2, <2>3, Zenon DEF MsgOK
<1> HIDE DEF x
<1>7. \A i \in DOMAIN rest : rest[i].type # "DONE" /\ MsgOK(n, rest[i])
  <2>1. \A i \in DOMAIN w : MsgOK(n, w[i]) /\ (w[i].type = "DONE" => i = 1 /\ ~s.ex)
    BY Zenon DEF GInv, WireOK, Stage
  <2>2. CASE rest = w /\ k = s
    BY <2>1, <2>2, Zenon DEF PassFx
  <2>3. CASE w # <<>> /\ rest = Tail(w)
    <3>1. \A i \in DOMAIN rest : i + 1 \in DOMAIN w /\ i + 1 # 1 /\ rest[i] = w[i + 1]
      BY <1>1, <2>3, SMTT(30)
    <3> QED
      BY <2>1, <3>1, Zenon
  <2> QED
    BY <2>2, <2>3, Zenon DEF PassFx
<1>8. \A i \in DOMAIN c : \/ i \in DOMAIN u /\ c[i] = u[i]
                          \/ \E j \in DOMAIN Sent(k) : c[i] = Sent(k)[j]
  BY <1>1, <1>6, SMTT(40)
<1>9. u # <<>> => c # <<>> /\ Head(c) = Head(u)
  BY <1>1, <1>6
<1> HIDE DEF c
<1>10. \A h \in Node : NodeOK(h, daemon[h])'
  <2>1. NodeOK(p, d)
    BY <1>1, Zenon DEF GInv
  <2> QED
    BY <1>1, <1>2, <1>3, <1>4, <2>1, ZenonT(40) DEF NodeOK, Seen
<1>11. \A h \in Node : WireOK(h)'
  <2>1. \A i \in DOMAIN u : MsgOK(p, u[i])
    BY <1>1, Zenon DEF GInv, WireOK
  <2>2. \A i \in DOMAIN c : MsgOK(p, c[i])
    BY <1>6, <1>8, <2>1, Zenon
  <2>3. \A h \in Node : \A i \in DOMAIN wire'[h] : MsgOK(h, wire'[h][i])
    BY <1>1, <1>2, <1>7, <2>1, <2>2, Zenon
  <2> QED
    BY <1>1, <1>3, <2>3 DEF WireOK, MsgOK
<1>12. Stage'
  <2>1. Stage /\ Lo # Hi /\ Lo \in Node /\ Hi \in Node
    BY MacAssumption, Zenon DEF GInv, Node
  <2>2. \A h \in Node : ~open'[h] => ~daemon'[h].ex /\ wire'[h] = <<>>
    BY <1>1, <1>2, <2>1, ZenonT(40) DEF Stage
  <2>3. open'[Hi] => daemon'[Hi].ex
    BY <1>1, <1>2, <1>5, <2>1, Zenon DEF Stage
  <2>4. ASSUME open'[Lo], ~daemon'[Lo].ex
        PROVE  wire'[Lo] # <<>> /\ Head(wire'[Lo]).type = "DONE" /\ wire'[Hi] = <<>> /\ ~RemoteMac(daemon'[Hi])
    <3>1. n = Hi /\ p = Lo
      BY <1>1, <1>2, <1>5, <2>1, <2>4, ZenonT(40)
    <3>2. u # <<>> /\ Head(u).type = "DONE" /\ w = <<>> /\ ~RemoteMac(s)
      BY <1>1, <1>2, <2>1, <2>4, <3>1, ZenonT(40) DEF Stage
    <3>3. rest = w /\ k = s
      BY <3>2, Zenon DEF PassFx
    <3> QED
      BY <1>2, <1>4, <1>9, <3>1, <3>2, <3>3, ZenonT(40)
  <2>5. ASSUME NEW h \in Node, NEW i \in DOMAIN wire'[h], wire'[h][i].type = "DONE"
        PROVE  h = Lo /\ i = 1 /\ ~daemon'[h].ex
    <3>1. h = p
      BY <1>1, <1>2, <1>7, <2>5, ZenonT(30)
    <3>2. i \in DOMAIN u /\ u[i].type = "DONE"
      BY <1>2, <1>6, <1>8, <2>5, <3>1, SMTT(30)
    <3> QED
      BY <1>1, <1>2, <2>1, <3>1, <3>2, ZenonT(40) DEF Stage
  <2> QED
    BY <2>2, <2>3, <2>4, <2>5, Zenon DEF Stage
<1>13. Agree(n)'
  <2>1. open[n] /\ open[p] => /\ Prompt => Tell(d, w, s)
                              /\ Shared \/ Alone(p) => Hear(d, w, s)
    BY Zenon DEF GInv, Agree
  <2>2. Belief(rest, x) <=> Belief(rest, k)
    BY <1>4, Zenon DEF Belief
  <2>3. /\ Prompt /\ Tell(d, w, s) => Tell(d, rest, x)
        /\ (Shared \/ Alone(p)) /\ Hear(d, w, s) => Hear(d, rest, x)
    BY <2>2, Zenon DEF PassFx, Tell, Hear
  <2> QED
    BY <1>1, <1>2, <1>3, <2>1, <2>3, Zenon DEF Agree
<1>14. Agree(p)'
  <2> SUFFICES ASSUME open[p], open[n] PROVE /\ Prompt => Tell(x, c, d)
                                             /\ Shared \/ Alone(n) => Hear(x, c, d)
    BY <1>1, <1>2, <1>3, Zenon DEF Agree
  <2>1. /\ Prompt => Tell(s, u, d)
        /\ Shared \/ Alone(n) => Hear(s, u, d)
    BY <1>1, Zenon DEF GInv, Agree
  <2>2. Shared \/ Alone(n) => Prompt
    BY Classes, Zenon
  <2> SUFFICES ASSUME Prompt PROVE /\ Tell(x, c, d)
                                   /\ Shared \/ Alone(n) => Hear(x, c, d)
    BY <2>2, Zenon
  <2>3. /\ k.q # <<>> => (Belief(c, d) <=> LocalMac(k))
        /\ k.q = <<>> => (Belief(c, d) <=> Belief(u, d))
    BY <1>1, <1>5, SentBelief, Zenon DEF PassFx, NodeOK, c
  <2>4. CASE k.q # <<>>
    BY <1>4, <2>3, <2>4, Zenon DEF Tell, Hear
  <2>5. CASE k.q = <<>> /\ s.ex
    <3>1. s.q = <<>> /\ (LocalMac(k) <=> LocalMac(s))
      BY <2>5, Zenon DEF PassFx
    <3> QED
      BY <1>4, <2>1, <2>3, <2>5, <3>1, ZenonT(40) DEF Tell, Hear
  <2>6. CASE k.q = <<>> /\ ~s.ex
    <3>1. ~LocalMac(k)
      BY <2>6, ZenonT(40) DEF PassFx
    <3>2. n = Lo /\ p = Hi
      BY <1>1, <2>6, Zenon DEF GInv, Stage, Node, Peer
    <3>3. u = <<>> /\ ~RemoteMac(d)
      BY <2>6, <3>2, ZenonT(40) DEF GInv, Stage
    <3>4. ~Belief(u, d)
      BY <3>3 DEF Belief, Last
    <3> QED
      BY <1>4, <2>3, <2>6, <3>1, <3>4, ZenonT(40) DEF Tell, Hear
  <2> QED
    BY <2>4, <2>5, <2>6, Zenon
<1> QED
  BY <1>1, <1>10, <1>11, <1>12, <1>13, <1>14, Zenon DEF GInv

LEMMA DonePass ==
  ASSUME NEW n \in Node, NEW s, Good(s), NodeOK(n, s), ~s.ex, NEW w \in Seq(Msg), w # <<>>, Head(w).type = "DONE"
  PROVE  PassFx(n, s, w, EnterExchange(s), Tail(w))
<1> DEFINE k == EnterExchange(s)
           rest == Tail(w)
<1>1. /\ k.ex = TRUE /\ k.out = s.out /\ (Seen(s) => Seen(k))
      /\ RemoteMac(k) => RemoteMac(s)
      /\ Placed(s) => Placed(k) /\ OnUp(k)
      /\ s.q = <<>> => QFit(k) /\ (k.q = <<>> => ~LocalMac(k))
      /\ (Known(s) => s.mac.origin # "po") =>
                   /\ Home(s) => Home(k)
                   /\ Away(s) => Away(k)
      /\ (Known(s) => s.mac.origin = "po") /\ OnChan(s) => OnChan(k)
  BY EnterExchangeFx, Zenon
<1> HIDE DEF k
<1>2. Prompt => s.q = <<>>
  BY Zenon DEF NodeOK, QFit
<1>3. Shared => (Known(s) => s.mac.origin = "po")
  BY Zenon DEF Shared, NodeOK, Seen
<1>4. \A a : Alone(a) => (Known(s) => s.mac.origin # "po")
  BY Classes, Zenon DEF NodeOK, Seen
<1>5. NodeOK(n, k)
  BY <1>1, <1>2, <1>3, <1>4, ZenonT(40) DEF NodeOK
<1>6. (Last(w, "ADD") <=> Last(rest, "ADD")) /\ (Silent(w) <=> Silent(rest)) /\ ~RemoteMac(s)
  BY TailLast, Zenon DEF NodeOK
<1> HIDE DEF rest
<1>7. Belief(rest, k) <=> Belief(w, s)
  BY <1>1, <1>6, Zenon DEF Belief
<1> QED
  BY <1>1, <1>2, <1>5, <1>7, ZenonT(40) DEF PassFx, rest, k

LEMMA StatePass ==
  ASSUME NEW n \in Node, NEW s, Good(s), NodeOK(n, s), s.ex = TRUE, NEW w \in Seq(Msg), w # <<>>,
         Head(w).type = "STATE", MsgOK(n, Head(w))
  PROVE  PassFx(n, s, w, Receive(s, Head(w)), Tail(w))
<1> DEFINE m == Head(w)
           h == [s EXCEPT !.pif = PifState(m.up)]
           k == Receive(s, m)
           rest == Tail(w)
<1>1. s \in Daemon
  BY Zenon DEF Good, Well
<1>2. PifState(m.up) \in {"none", "up", "down"}
  BY Zenon DEF PifState
<1>3. h \in Daemon /\ h.mac = s.mac /\ h.q = s.q
  BY <1>1, <1>2, ZenonT(40) DEF Daemon
<1>4. Same(s, h)
  BY <1>1, ZenonT(40) DEF Daemon, Same
<1>5. k = IF m.up THEN h ELSE ConvertRemote(h)
  BY Zenon DEF Receive
<1> HIDE DEF h
<1>6. Good(h) /\ h.ex
  BY <1>3, <1>4, Frame, ZenonT(40) DEF Same
<1>7. /\ Known(h) <=> Known(s)
      /\ RemoteMac(h) <=> RemoteMac(s)
      /\ Seen(s) <=> Seen(h)
      /\ QFit(s) => Keeps(s, h)
  BY <1>3, <1>4, FrameFx, Zenon
<1>8. /\ Same(h, k) /\ (Seen(h) => Seen(k)) /\ (QFit(h) => Keeps(h, k))
      /\ Known(k) <=> Known(h)
      /\ Known(h) => k.mac.port = h.mac.port /\ k.mac.origin = h.mac.origin
      /\ k # h => h.mac.origin = "po" /\ ~RemoteMac(k)
  <2>1. k = h => Same(h, k) /\ (QFit(h) => Keeps(h, k))
    BY KeepsSelf, Zenon DEF Same
  <2> HIDE DEF k
  <2>2. k = ConvertRemote(h) => /\ Same(h, k) /\ (Seen(h) => Seen(k)) /\ (QFit(h) => Keeps(h, k))
                                /\ Known(k) <=> Known(h)
                                /\ Known(h) => k.mac.port = h.mac.port /\ k.mac.origin = h.mac.origin
                                /\ k # h => h.mac.origin = "po" /\ ~RemoteMac(k)
    BY <1>6, ConvertRemoteFx
  <2> QED
    BY <1>5, <2>1, <2>2, Zenon
<1> HIDE DEF k
<1>9. k.ex = TRUE /\ k.out = s.out /\ k.po = s.po
  BY <1>4, <1>8, Zenon DEF Same
<1>10. QFit(s) => Keeps(s, k) /\ QFit(k)
  <2>1. QFit(s) => Keeps(s, h) /\ QFit(h) /\ Keeps(h, k)
    BY <1>7, <1>8, Zenon DEF Keeps
  <2>2. QFit(s) => Keeps(s, k)
    BY <2>1, KeepsTrans, ZenonT(40)
  <2> QED
    BY <2>2, Zenon DEF Keeps
<1>11. RemoteMac(k) => RemoteMac(s)
  BY <1>7, <1>8, Zenon
<1>12. Placed(s) => Placed(k)
  BY <1>3, <1>7, <1>8, <1>9, Zenon DEF Placed
<1>13. OnUp(s) => OnUp(k)
  BY <1>3, <1>7, <1>8, <1>9, Zenon DEF OnUp
<1>14. ~Shared
  BY Zenon DEF MsgOK
<1>15. ASSUME NEW a, Alone(a) PROVE (RemoteMac(s) => RemoteMac(k)) /\ (Home(s) => Home(k)) /\ (Away(s) => Away(k))
  <2>1. Known(s) => s.mac.origin # "po"
    BY <1>15, Classes, Zenon DEF NodeOK, Seen
  <2>2. CASE Known(s)
    <3>1. k = h
      BY <1>3, <1>8, <2>1, <2>2, ZenonT(40)
    <3> QED
      BY <1>3, <1>7, <3>1, ZenonT(40) DEF Home, Away
  <2>3. CASE ~Known(s)
    BY <1>7, <1>8, <2>3, ZenonT(40) DEF RemoteMac, Home, Away
  <2> QED
    BY <2>2, <2>3, Zenon
<1>16. NodeOK(n, k)
  BY <1>7, <1>8, <1>9, <1>10, <1>12, <1>13, <1>14, <1>15, ZenonT(40) DEF NodeOK
<1>17. (Last(w, "ADD") <=> Last(rest, "ADD")) /\ (Silent(w) <=> Silent(rest))
  BY TailLast, Zenon
<1> HIDE DEF rest
<1>18. (Belief(rest, k) => Belief(w, s)) /\ (Alone(Peer(n)) /\ Belief(w, s) => Belief(rest, k))
  BY <1>11, <1>15, <1>17, ZenonT(40) DEF Belief
<1>19. Prompt => (k.q = <<>> => s.q = <<>> /\ (LocalMac(k) <=> LocalMac(s)))
  BY <1>9, <1>10, Zenon DEF NodeOK, Keeps
<1> QED
  BY <1>9, <1>14, <1>16, <1>18, <1>19, ZenonT(40) DEF PassFx, rest, k, m

LEMMA MacPass ==
  ASSUME NEW n \in Node, NEW s, Good(s), NodeOK(n, s), s.ex = TRUE, NEW w \in Seq(Msg), w # <<>>,
         Head(w).type = "MAC", MsgOK(n, Head(w))
  PROVE  PassFx(n, s, w, Receive(s, Head(w)), Tail(w))
<1> DEFINE m == Head(w)
           k == Receive(s, m)
           rest == Tail(w)
<1>1. m \in Msg
  OBVIOUS
<1>2. m.origin \in Learned /\ m.op \in {"ADD", "DEL", "NONE"}
  BY <1>1, Zenon DEF Msg
<1>3. ~Silent(w) /\ (Last(w, "ADD") <=> Last(rest, "ADD") \/ (Silent(rest) /\ m.op = "ADD"))
  BY TailLast, Zenon
<1>4. k = IF m.op = "ADD" THEN PeerAdd(s, m.origin) ELSE IF m.op = "DEL" THEN PeerDel(s) ELSE s
  BY <1>2, Zenon DEF Receive
<1>5. m.origin \in scene.seen /\ (Prompt => m.op \in {"ADD", "DEL"}) /\ (Alone(n) => m.op # "ADD")
  BY Zenon DEF MsgOK
<1>6. m.type = "MAC"
  BY Zenon
<1> HIDE DEF m, rest, k
<1>7. CASE m.op = "ADD"
  <2> DEFINE o == m.origin
  <2>1. /\ Same(s, k) /\ RemoteMac(k) /\ k.mac.origin = o
        /\ (QFit(s) => Keeps(s, k)) /\ (Seen(s) /\ o \in scene.seen => Seen(k))
        /\ k.mac.port = IF o = "po" /\ (s.po \/ (Known(s) /\ s.mac.port = "po" /\ s.mac.origin = "po"))
                        THEN "po" ELSE "pl"
        /\ (Known(s) => s.mac.port = "pl") /\ o # "po" => "LOCAL" \in k.mac.age
    BY <1>2, <1>4, <1>7, PeerAddFx, ZenonT(40)
  <2> HIDE DEF o
  <2>2. k.ex = TRUE /\ k.out = s.out /\ k.po = s.po /\ k.changed = s.changed /\ o \in scene.seen
    BY <1>5, <2>1, Zenon DEF Same, o
  <2>3. Placed(k)
    BY <2>1, <2>2, Zenon DEF Placed
  <2>4. OnUp(s) => OnUp(k)
    BY <2>1, <2>2, Zenon DEF OnUp
  <2>5. Shared => OnChan(k)
    <3>1. Shared => o = "po" /\ ~s.changed
      BY <2>2, Zenon DEF Shared, NodeOK, OnChan
    <3> QED
      BY <2>1, <2>2, <3>1, ZenonT(40) DEF OnChan
  <2>6. Alone(Peer(n)) => Away(k)
    <3>1. Alone(Peer(n)) => o # "po" /\ Away(s)
      BY <2>2, Classes, Zenon DEF NodeOK
    <3> QED
      BY <2>1, <3>1, Zenon DEF Away
  <2>7. Prompt => QFit(k) /\ (k.q = <<>> => s.q = <<>> /\ (LocalMac(k) <=> LocalMac(s)))
    BY <2>1, <2>2, Zenon DEF NodeOK, Keeps
  <2>8. NodeOK(n, k)
    BY <1>5, <1>7, <2>1, <2>2, <2>3, <2>4, <2>5, <2>6, <2>7, ZenonT(40) DEF NodeOK
  <2>9. Belief(rest, k) <=> Belief(w, s)
    BY <1>3, <1>7, <2>1, ZenonT(40) DEF Belief
  <2> QED
    BY <2>2, <2>7, <2>8, <2>9, ZenonT(40) DEF PassFx, rest, k, m
<1>8. CASE m.op = "DEL"
  <2>1. Moves(s, k) /\ ~RemoteMac(k)
    BY <1>4, <1>8, PeerDelMoves, ZenonT(40)
  <2>2. k.ex = s.ex /\ NodeOK(n, k) /\ (Prompt => Keeps(s, k))
    BY <2>1, MovesNode, Zenon
  <2>3. Belief(rest, k) <=> Belief(w, s)
    BY <1>3, <1>8, <2>1, ZenonT(40) DEF Belief
  <2>4. Prompt => (k.q = <<>> => s.q = <<>> /\ (LocalMac(k) <=> LocalMac(s)))
    BY <2>2, Zenon DEF Keeps
  <2> QED
    BY <2>2, <2>3, <2>4, ZenonT(40) DEF PassFx, rest, k, m
<1>9. CASE m.op = "NONE"
  <2>1. k = s /\ ~Prompt
    BY <1>4, <1>5, <1>9, Zenon
  <2>2. ~Shared /\ ~Alone(Peer(n))
    BY <2>1, Classes, Zenon
  <2> QED
    BY <2>1, <2>2, Zenon DEF PassFx, rest, k, m
<1> QED
  BY <1>2, <1>7, <1>8, <1>9, ZenonT(40)

LEMMA StepIs ==
  ASSUME NEW n, NEW k, NEW rest, Step(n, ExchangeSend(k), rest)
  PROVE  /\ daemon' = [daemon EXCEPT ![n] = After(k)]
         /\ wire' = [wire EXCEPT ![n] = rest, ![Peer(n)] = IF open[Peer(n)] THEN @ \o Sent(k) ELSE @]
  BY Zenon DEF Step, After, Sent

LEMMA SendStep ==
  ASSUME GInv, NEW n \in Node, Send(n), scene' = scene, IInv'
  PROVE  GInv'
<1> DEFINE s == daemon[n]
           w == wire[n]
<1>1. /\ open[n] /\ s.ex /\ Step(n, ExchangeSend(s), w) /\ UNCHANGED <<open, scene>>
  BY Zenon DEF Send
<1>2. Good(s) /\ s \in Daemon /\ NodeOK(n, s)
  BY Zenon DEF GInv, IInv, TypeOK
<1>3. PassFx(n, s, w, s, w)
  <2>1. s.ex = TRUE
    BY <1>1, <1>2, Zenon DEF Daemon
  <2> HIDE DEF s, w
  <2> QED
    BY <1>2, <2>1, Zenon DEF PassFx
<1> HIDE DEF s, w
<1>4. /\ daemon' = [daemon EXCEPT ![n] = After(s)]
      /\ wire' = [wire EXCEPT ![n] = w, ![Peer(n)] = IF open[Peer(n)] THEN @ \o Sent(s) ELSE @]
  BY <1>1, StepIs, Zenon
<1> QED
  BY <1>1, <1>2, <1>3, <1>4, PassStep, ZenonT(40) DEF s, w

LEMMA HandleStep ==
  ASSUME GInv, NEW n \in Node, Handle(n), scene' = scene, IInv'
  PROVE  GInv'
<1> DEFINE s == daemon[n]
           w == wire[n]
           k == Receive(s, Head(w))
           rest == Tail(w)
<1>1. open[n] /\ w # <<>> /\ Step(n, ExchangeSend(k), rest) /\ UNCHANGED <<open, scene>>
  BY Zenon DEF Handle
<1>2. Good(s) /\ s \in Daemon /\ NodeOK(n, s) /\ w \in Seq(Msg)
  BY Zenon DEF GInv, IInv, TypeOK
<1>3. 1 \in DOMAIN w /\ Head(w) = w[1] /\ Head(w) \in Msg
  BY <1>1, <1>2
<1>4. Head(w).type \in {"MAC", "STATE", "DONE"}
  BY <1>3, Zenon DEF Msg
<1>5. MsgOK(n, Head(w)) /\ (Head(w).type = "DONE" => ~s.ex)
  BY <1>3 DEF GInv, WireOK, Stage
<1>6. Head(w).type # "DONE" => s.ex = TRUE
  BY <1>1, <1>2, Zenon DEF GInv, Stage, Node, Daemon
<1>7. Good(k)
  BY <1>2, <1>3, ReceiveGood, Zenon
<1>8. PassFx(n, s, w, k, rest)
  <2>1. CASE Head(w).type = "DONE"
    <3>1. k = EnterExchange(s)
      BY <2>1, Zenon DEF Receive
    <3> HIDE DEF k
    <3> QED
      BY <1>1, <1>2, <1>5, <2>1, <3>1, DonePass, Zenon
  <2>2. CASE Head(w).type = "STATE"
    BY <1>1, <1>2, <1>5, <1>6, <2>2, StatePass, Zenon
  <2>3. CASE Head(w).type = "MAC"
    BY <1>1, <1>2, <1>5, <1>6, <2>3, MacPass, Zenon
  <2> QED
    BY <1>4, <2>1, <2>2, <2>3, Zenon
<1> HIDE DEF k, rest
<1>9. /\ daemon' = [daemon EXCEPT ![n] = After(k)]
      /\ wire' = [wire EXCEPT ![n] = rest, ![Peer(n)] = IF open[Peer(n)] THEN @ \o Sent(k) ELSE @]
  BY <1>1, StepIs, Zenon
<1> QED
  BY <1>1, <1>7, <1>8, <1>9, PassStep, ZenonT(40)

LEMMA DisconnectStep ==
  ASSUME GInv, NEW n \in Node, open[n], Disconnect(n), scene' = scene, IInv'
  PROVE  GInv'
<1> DEFINE s == daemon[n]
           p == Peer(n)
           k == Off(s)
<1>1. /\ daemon \in [Node -> Daemon] /\ wire \in [Node -> Seq(Msg)] /\ open \in [Node -> BOOLEAN] /\ Good(s)
      /\ p \in Node /\ p # n /\ Peer(p) = n /\ (\A h \in Node : h = n \/ h = p)
      /\ Lo # Hi /\ Lo \in Node /\ Hi \in Node
  BY PeerType, PeerPeer, MacAssumption, ZenonT(40) DEF GInv, IInv, TypeOK, Node, Peer
<1>2. /\ daemon'[n] = k /\ daemon'[p] = daemon[p] /\ wire'[n] = <<>> /\ wire'[p] = wire[p]
      /\ open'[n] = FALSE /\ open'[p] = open[p]
  BY <1>1, Zenon DEF Disconnect, Off
<1>3. /\ (Prompt' <=> Prompt) /\ (NoLate' <=> NoLate) /\ (Shared' <=> Shared)
      /\ \A a : Alone(a)' <=> Alone(a)
  BY SceneSame, Zenon
<1>4. /\ k.ex = FALSE /\ k.out = s.out /\ QFit(k) /\ (Seen(s) => Seen(k))
      /\ ~RemoteMac(k)
      /\ (Placed(s) => Placed(k)) /\ (OnUp(s) => OnUp(k))
      /\ (Home(s) => Home(k)) /\ (Away(s) => Away(k)) /\ (OnChan(s) => OnChan(k))
  BY <1>1, DisconnectFx, Zenon
<1> HIDE DEF k
<1>5. NodeOK(n, s) /\ NodeOK(p, daemon[p]) /\ WireOK(p) /\ Stage
  BY <1>1, Zenon DEF GInv
<1>6. NodeOK(n, k)
  BY <1>4, <1>5, ZenonT(40) DEF NodeOK
<1>7. \A h \in Node : NodeOK(h, daemon[h])'
  BY <1>1, <1>2, <1>3, <1>5, <1>6, ZenonT(40) DEF NodeOK, Seen
<1>8. \A h \in Node : WireOK(h)'
  <2>1. \A h \in Node : \A i \in DOMAIN wire'[h] : h = p /\ MsgOK(h, wire'[h][i])
    <3>1. DOMAIN wire'[n] = {}
      BY <1>2
    <3> QED
      BY <1>1, <1>2, <1>5, <3>1, ZenonT(40) DEF WireOK
  <2> QED
    BY <1>3, <2>1, ZenonT(40) DEF WireOK, MsgOK
<1>9. Stage'
  <2>1. \A h \in Node : ~open'[h] => ~daemon'[h].ex /\ wire'[h] = <<>>
    BY <1>1, <1>2, <1>4, <1>5, ZenonT(40) DEF Stage
  <2>2. open'[Hi] => daemon'[Hi].ex
    BY <1>1, <1>2, <1>5, Zenon DEF Stage
  <2>3. ASSUME open'[Lo], ~daemon'[Lo].ex
        PROVE  wire'[Lo] # <<>> /\ Head(wire'[Lo]).type = "DONE" /\ wire'[Hi] = <<>> /\ ~RemoteMac(daemon'[Hi])
    <3>1. n = Hi /\ p = Lo
      BY <1>1, <1>2, <2>3, ZenonT(40)
    <3>2. wire[Lo] # <<>> /\ Head(wire[Lo]).type = "DONE"
      BY <1>2, <1>5, <2>3, <3>1, ZenonT(40) DEF Stage
    <3> QED
      BY <1>2, <1>4, <3>1, <3>2, ZenonT(40)
  <2>4. ASSUME NEW h \in Node, NEW i \in DOMAIN wire'[h], wire'[h][i].type = "DONE"
        PROVE  h = Lo /\ i = 1 /\ ~daemon'[h].ex
    <3>1. DOMAIN wire'[n] = {}
      BY <1>2
    <3>2. h = p
      BY <1>1, <2>4, <3>1, Zenon
    <3> QED
      BY <1>1, <1>2, <1>5, <2>4, <3>2, ZenonT(40) DEF Stage
  <2> QED
    BY <2>1, <2>2, <2>3, <2>4, ZenonT(40) DEF Stage
<1>10. \A h \in Node : Agree(h)'
  BY <1>1, <1>2, Zenon DEF Agree
<1> QED
  BY <1>7, <1>8, <1>9, <1>10, Zenon DEF GInv

LEMMA ConnectStep ==
  ASSUME GInv, Connect, scene' = scene, IInv'
  PROVE  GInv'
<1> DEFINE k(n) == [daemon[n] EXCEPT !.pif = PifState(daemon[Peer(n)].po), !.changed = FALSE]
           x == EnterExchange(k(Hi))
           done == [type |-> "DONE"]
<1>1. /\ daemon \in [Node -> Daemon] /\ Lo # Hi /\ Lo \in Node /\ Hi \in Node /\ Peer(Lo) = Hi /\ Peer(Hi) = Lo
      /\ \A h \in Node : h = Lo \/ h = Hi
  BY MacAssumption, Zenon DEF GInv, IInv, TypeOK, Node, Peer
<1>2. /\ daemon'[Lo] = k(Lo) /\ daemon'[Hi] = x
      /\ wire'[Lo] = <<done>> /\ wire'[Hi] = <<>> /\ open'[Lo] = TRUE /\ open'[Hi] = TRUE
  BY <1>1, ZenonT(40) DEF Connect
<1>3. /\ (Prompt' <=> Prompt) /\ (NoLate' <=> NoLate) /\ (Shared' <=> Shared)
      /\ \A a : Alone(a)' <=> Alone(a)
  BY SceneSame, Zenon
<1>4. ASSUME NEW n \in Node
      PROVE  /\ Good(k(n)) /\ NodeOK(n, k(n)) /\ k(n).ex = FALSE /\ ~RemoteMac(k(n))
             /\ Prompt => k(n).q = <<>>
  <2> DEFINE s == daemon[n]
             h == k(n)
  <2>1. Good(s) /\ NodeOK(n, s) /\ ~s.ex /\ s \in Daemon
    BY <1>1, Zenon DEF GInv, IInv, Stage, Connect
  <2>2. PifState(daemon[Peer(n)].po) \in {"none", "up", "down"}
    BY Zenon DEF PifState
  <2>3. h \in Daemon
    BY <2>1, <2>2, ZenonT(40) DEF Daemon
  <2>4. h.mac = s.mac /\ h.q = s.q /\ h.ex = s.ex /\ h.po = s.po /\ h.out = s.out /\ h.changed = FALSE
    BY <2>1, ZenonT(40) DEF Daemon
  <2> HIDE DEF k
  <2>5. Good(h)
    BY <2>1, <2>3, <2>4, Frame, ZenonT(40)
  <2>6. /\ Known(h) <=> Known(s)
        /\ LocalMac(h) <=> LocalMac(s)
        /\ RemoteMac(h) <=> RemoteMac(s)
    BY <2>4, Zenon DEF Known, LocalMac, RemoteMac
  <2>7. Seen(s) => Seen(h)
    BY <2>4, <2>6, Zenon DEF Seen
  <2>8. (Placed(s) => Placed(h)) /\ (OnUp(s) => OnUp(h)) /\ (OnChan(s) => OnChan(h))
        /\ (Home(s) => Home(h)) /\ (Away(s) => Away(h))
    BY <2>4, <2>6, Zenon DEF Placed, OnUp, OnChan, Home, Away
  <2>9. Prompt => s.q = <<>>
    BY <2>1, Zenon DEF NodeOK, QFit
  <2>10. Prompt => QFit(h)
    BY <2>4, <2>9 DEF QFit, QShape, InMsgList
  <2>11. NodeOK(n, h)
    BY <2>1, <2>4, <2>6, <2>7, <2>8, <2>10, ZenonT(40) DEF NodeOK
  <2>12. h.ex = FALSE /\ ~RemoteMac(h)
    BY <2>1, <2>4, <2>6, ZenonT(40) DEF Daemon, NodeOK
  <2> QED
    BY <2>4, <2>5, <2>9, <2>11, <2>12, ZenonT(40)
<1>5. done.type = "DONE"
  BY Zenon
<1> HIDE DEF k, done
<1>6. <<done>> \in Seq({done}) /\ Head(<<done>>) = done /\ <<done>> # <<>> /\ DOMAIN <<done>> = {1}
      /\ <<done>>[1] = done
  OBVIOUS
<1>7. NodeOK(Hi, x) /\ x.ex = TRUE /\ ~RemoteMac(x) /\ (Prompt => (x.q = <<>> => ~LocalMac(x)))
  <2>1. /\ x.ex = TRUE /\ x.out = k(Hi).out /\ (Seen(k(Hi)) => Seen(x))
        /\ RemoteMac(x) => RemoteMac(k(Hi))
        /\ Placed(k(Hi)) => Placed(x) /\ OnUp(x)
        /\ k(Hi).q = <<>> => QFit(x) /\ (x.q = <<>> => ~LocalMac(x))
        /\ (Known(k(Hi)) => k(Hi).mac.origin # "po") =>
                   /\ Home(k(Hi)) => Home(x)
                   /\ Away(k(Hi)) => Away(x)
        /\ (Known(k(Hi)) => k(Hi).mac.origin = "po") /\ OnChan(k(Hi)) => OnChan(x)
    BY <1>1, <1>4, EnterExchangeFx, ZenonT(40)
  <2> HIDE DEF x
  <2>2. NodeOK(Hi, k(Hi)) /\ ~RemoteMac(k(Hi)) /\ (Prompt => k(Hi).q = <<>>)
    BY <1>1, <1>4, Zenon
  <2>3. Shared => (Known(k(Hi)) => k(Hi).mac.origin = "po")
    BY <2>2, Zenon DEF Shared, NodeOK, Seen
  <2>4. \A a : Alone(a) => (Known(k(Hi)) => k(Hi).mac.origin # "po")
    BY <2>2, Classes, ZenonT(40) DEF NodeOK, Seen
  <2> QED
    BY <2>1, <2>2, <2>3, <2>4, ZenonT(40) DEF NodeOK
<1> HIDE DEF x
<1>8. NodeOK(Lo, k(Lo)) /\ k(Lo).ex = FALSE /\ ~RemoteMac(k(Lo))
  BY <1>1, <1>4, Zenon
<1>9. \A h \in Node : NodeOK(h, daemon[h])'
  BY <1>1, <1>2, <1>3, <1>7, <1>8, ZenonT(40) DEF NodeOK, Seen
<1>10. \A h \in Node : WireOK(h)'
  <2>1. MsgOK(Lo, done)'
    BY <1>5, Zenon DEF MsgOK
  <2> QED
    BY <1>1, <1>2, <1>6, <2>1 DEF WireOK
<1>11. Stage'
  BY <1>1, <1>2, <1>5, <1>6, <1>7, <1>8, SMTT(40) DEF Stage
<1>12. Agree(Lo)'
  <2>1. ~Belief(<<done>>, k(Lo))
    BY <1>5, <1>6, <1>8, ZenonT(40) DEF Belief, Last
  <2>2. Shared \/ Alone(Hi) => Prompt
    BY Classes, Zenon
  <2>3. Tell(x, <<done>>, k(Lo)) /\ (Prompt => Hear(x, <<done>>, k(Lo)))
    BY <1>7, <2>1, ZenonT(40) DEF Tell, Hear
  <2> QED
    BY <1>1, <1>2, <1>3, <2>2, <2>3, ZenonT(40) DEF Agree
<1>13. Agree(Hi)'
  <2>1. Tell(k(Lo), <<>>, x) /\ Hear(k(Lo), <<>>, x)
    BY <1>8, Zenon DEF Tell, Hear
  <2> QED
    BY <1>1, <1>2, <2>1, ZenonT(40) DEF Agree
<1> QED
  BY <1>1, <1>9, <1>10, <1>11, <1>12, <1>13, ZenonT(40) DEF GInv

LEMMA InitGInv == Init => GInv
<1> SUFFICES ASSUME Init PROVE GInv
  BY Zenon
<1>1. PICK po \in [Node -> BOOLEAN] :
         daemon = [n \in Node |-> [ex |-> FALSE, po |-> po[n], pl |-> TRUE, pif |-> "none", changed |-> FALSE,
                                   timer |-> FALSE, mac |-> NoMac, q |-> <<>>, out |-> <<>>,
                                   dangling |-> FALSE]]
  BY ZenonT(40) DEF Init
<1>2. IInv
  BY InitIInv, Zenon
<1>3. ASSUME NEW n \in Node
      PROVE  /\ daemon[n].ex = FALSE /\ daemon[n].changed = FALSE /\ daemon[n].mac = NoMac
             /\ daemon[n].q = <<>> /\ daemon[n].out = <<>>
             /\ open[n] = FALSE /\ wire[n] = <<>>
  BY <1>1, ZenonT(40) DEF Init
<1>4. ASSUME NEW n \in Node PROVE NodeOK(n, daemon[n])
  <2> DEFINE s == daemon[n]
  <2>1. s.ex = FALSE /\ s.changed = FALSE /\ ~Known(s) /\ s.q = <<>> /\ s.out = <<>>
    BY <1>3, Zenon DEF Known
  <2> HIDE DEF s
  <2>2. DOMAIN s.q = {}
    BY <2>1
  <2>3. Seen(s) /\ Placed(s) /\ OnUp(s) /\ ~RemoteMac(s) /\ ~LocalMac(s)
    BY <2>1, <2>2, ZenonT(40) DEF Seen, Placed, OnUp, RemoteMac, LocalMac
  <2>4. QFit(s)
    BY <2>1, <2>2, <2>3, ZenonT(40) DEF QFit, QShape, InMsgList
  <2>5. OnChan(s) /\ Home(s) /\ Away(s)
    BY <2>1, Zenon DEF OnChan, Home, Away
  <2> QED
    BY <2>1, <2>3, <2>4, <2>5, ZenonT(40) DEF NodeOK, s
<1>5. \A n \in Node : DOMAIN wire[n] = {}
  <2>1. \A n \in Node : wire[n] = <<>>
    BY <1>3, Zenon
  <2>2. \A w : w = <<>> => DOMAIN w = {}
    OBVIOUS
  <2> QED
    BY <2>1, <2>2, ZenonT(40)
<1>6. \A n \in Node : WireOK(n) /\ Agree(n)
  BY <1>3, <1>5, PeerType, ZenonT(40) DEF WireOK, Agree
<1>7. Stage
  <2>1. Lo \in Node /\ Hi \in Node
    BY Zenon DEF Node
  <2> QED
    BY <1>3, <1>5, <2>1, ZenonT(40) DEF Stage
<1> QED
  BY <1>2, <1>4, <1>6, <1>7, ZenonT(40) DEF GInv

LEMMA LocalEvent ==
  ASSUME GInv, NEW n \in Node, NEW kind, NEW k, Local(n, kind, k), LocalFx(n, daemon[n], k), scene' = scene, IInv'
  PROVE  GInv'
<1>1. daemon' = [daemon EXCEPT ![n] = k] /\ UNCHANGED <<open, wire, scene>>
  BY ZenonT(40) DEF Local
<1> QED
  BY <1>1, LocalStep, Zenon

LEMMA NextGInv == GInv /\ [Next]_vars => GInv'
<1> SUFFICES ASSUME GInv, [Next]_vars PROVE GInv'
  BY Zenon
<1>0. IInv'
  BY NextIInv, Zenon DEF GInv
<1>1. CASE UNCHANGED vars
  <2>1. /\ (Prompt' <=> Prompt) /\ (NoLate' <=> NoLate) /\ (Shared' <=> Shared)
        /\ \A a : Alone(a)' <=> Alone(a)
    BY <1>1, SceneSame, ZenonT(40) DEF vars
  <2>2. daemon' = daemon /\ wire' = wire /\ open' = open /\ scene' = scene
    BY <1>1, Zenon DEF vars
  <2>3. \A n \in Node : NodeOK(n, daemon[n])'
    BY <2>1, <2>2, ZenonT(40) DEF GInv, NodeOK, Seen
  <2>4. \A n \in Node : WireOK(n)'
    BY <2>1, <2>2, ZenonT(40) DEF GInv, WireOK, MsgOK
  <2>5. \A n \in Node : Agree(n)'
    BY <2>1, <2>2, Zenon DEF GInv, Agree
  <2>6. Stage'
    BY <2>2, Zenon DEF GInv, Stage
  <2> QED
    BY <1>0, <2>3, <2>4, <2>5, <2>6, ZenonT(40) DEF GInv
<1>2. CASE Connect /\ scene' = scene
  BY <1>0, <1>2, ConnectStep, SMTT(30)
<1>3. ASSUME NEW n \in Node, scene' = scene,
             \/ Send(n) \/ Handle(n) \/ Lose(n) \/ Eof(n)
             \/ SyncdAddMac(n) \/ SyncdDelMac(n) \/ OrphanPortUp(n)
             \/ PoChange(n) \/ PeerLinkChange(n) \/ PendingTimeout(n)
      PROVE  GInv'
  <2> DEFINE s == daemon[n]
  <2>1. Good(s) /\ NodeOK(n, s) /\ s \in Daemon /\ scene \in Scene
    BY Zenon DEF GInv, IInv, TypeOK
  <2>2. CASE Send(n)
    BY <1>0, <1>3, <2>2, SendStep, ZenonT(40)
  <2>3. CASE Handle(n)
    BY <1>0, <1>3, <2>3, HandleStep, ZenonT(40)
  <2>4. CASE Lose(n)
    BY <1>0, <1>3, <2>4, DisconnectStep, ZenonT(40) DEF Lose
  <2>5. CASE Eof(n)
    BY <1>0, <1>3, <2>5, DisconnectStep, ZenonT(40) DEF Eof
  <2>6. CASE SyncdAddMac(n)
    <3>1. PICK port \in scene.seen \cap {"po", scene.orphan[n]} :
            Local(n, IF port = "po" /\ ~s.po THEN "late" ELSE "learn", SyncdAdd(s, port))
      BY <2>6, Zenon DEF SyncdAddMac
    <3>2. port \in Learned
      BY <2>1, MacAssumption, Zenon DEF Learned
    <3>3. port = "po" /\ ~s.po => "late" \in scene.event
      BY <3>1, Zenon DEF Local
    <3>4. LocalFx(n, s, SyncdAdd(s, port))
      BY <2>1, <3>2, <3>3, SyncdAddLocal, ZenonT(40)
    <3> QED
      BY <1>0, <1>3, <3>1, <3>4, LocalEvent, ZenonT(40)
  <2>7. CASE SyncdDelMac(n)
    <3>1. Known(s) /\ Local(n, "age", SyncdDel(s, s.mac.port))
      BY <2>7, Zenon DEF SyncdDelMac
    <3>2. LocalFx(n, s, SyncdDel(s, s.mac.port))
      BY <2>1, <3>1, SyncdDelMoves, MovesLocal, ZenonT(40)
    <3> QED
      BY <1>0, <1>3, <3>1, <3>2, LocalEvent, ZenonT(40)
  <2>8. CASE OrphanPortUp(n)
    <3>1. LocalFx(n, s, OrphanUp(s, scene.orphan[n]))
      BY <2>1, OrphanUpMoves, MovesLocal, ZenonT(40)
    <3> QED
      BY <1>0, <1>3, <2>8, <3>1, LocalEvent, ZenonT(40) DEF OrphanPortUp
  <2>9. CASE PoChange(n)
    <3> DEFINE k == L2MacState([s EXCEPT !.po = ~@, !.changed = TRUE])
    <3>1. Local(n, "po", k) /\ "po" \in scene.event
      BY <2>9, Zenon DEF PoChange, Local
    <3>2. LocalFx(n, s, k)
      BY <2>1, <3>1, PoChangeLocal, ZenonT(40)
    <3> HIDE DEF k
    <3> QED
      BY <1>0, <1>3, <3>1, <3>2, LocalEvent, ZenonT(40)
  <2>10. CASE PeerLinkChange(n)
    <3> DEFINE t == IF s.pl THEN PeerLinkDown(s) ELSE s
               k == [t EXCEPT !.pl = ~@]
    <3>1. Good(t)
      BY <2>1, SmallHandlersGood, ZenonT(40)
    <3>2. Moves(s, t) /\ (RemoteMac(s) => RemoteMac(t))
      BY <2>1, PeerLinkDownMoves, MovesSelf, ZenonT(40)
    <3>3. Local(n, "peerlink", k)
      BY <2>10, Zenon DEF PeerLinkChange
    <3> HIDE DEF t
    <3>4. k.mac = t.mac /\ k.q = t.q /\ Same(t, k)
      BY <3>1, ZenonT(40) DEF Good, Well, Daemon, Same
    <3> HIDE DEF k
    <3>5. Moves(s, k) /\ (RemoteMac(k) <=> RemoteMac(t))
      BY <3>2, <3>4, MovesFrame, ZenonT(40)
    <3>6. LocalFx(n, s, k)
      BY <2>1, <3>2, <3>5, MovesLocal, ZenonT(40)
    <3> QED
      BY <1>0, <1>3, <3>3, <3>6, LocalEvent, ZenonT(40)
  <2>11. CASE PendingTimeout(n)
    <3>1. Local(n, "timer", ClearPending(s)) /\ "timer" \in scene.event
      BY <2>11, Zenon DEF PendingTimeout, Local
    <3>2. LocalFx(n, s, ClearPending(s))
      BY <2>1, <3>1, ClearPendingLocal, ZenonT(40)
    <3> QED
      BY <1>0, <1>3, <3>1, <3>2, LocalEvent, ZenonT(40)
  <2> QED
    BY <1>3, <2>2, <2>3, <2>4, <2>5, <2>6, <2>7, <2>8, <2>9, <2>10, <2>11, Zenon
<1> QED
  BY <1>1, <1>2, <1>3, Zenon DEF Next

LEMMA GInvHolds == Spec => []GInv
  BY InitGInv, NextGInv, PTL DEF Spec

\* No entry of either daemon points to a port channel that is down, in any
\* state: update_l2_mac_state, do_mac_update_from_syncd and the handling of the
\* peer's updates redirect it to the peer link, or take it back, in the same
\* step that finds the port channel down or up.
THEOREM NoMacOnDownPortHolds == Spec => []NoMacOnDownPort
<1>1. GInv => NoMacOnDownPort
  BY ZenonT(40) DEF GInv, NodeOK, NoLate, OnUp, NoMacOnDownPort
<1> QED
  BY <1>1, GInvHolds, PTL

\* The two daemons never both point a station's address to the peer link while
\* one of them still has a port to it, whatever updates are on their way.
THEOREM NoPeerLinkLoopHolds == Spec => []NoPeerLinkLoop
<1>1. GInv => NoPeerLinkLoop
  <2> SUFFICES ASSUME GInv, Stays, \A n \in Node : Known(daemon[n]) /\ daemon[n].mac.port = "pl",
                      NEW n \in Node
               PROVE  daemon[n].mac.origin = "po" /\ ~daemon[n].po
    BY Zenon DEF NoPeerLinkLoop
  <2>1. CASE scene.seen \subseteq {"po"}
    BY <2>1, Zenon DEF GInv, NodeOK, Seen, Placed
  <2>2. ASSUME NEW a \in Node, Alone(a) PROVE FALSE
    BY <2>2, ZenonT(40) DEF GInv, NodeOK, Home
  <2> QED
    BY <2>1, <2>2, Zenon DEF Stays, Alone
<1> QED
  BY <1>1, GInvHolds, PTL

\* Once everything is handled, an address held for the peer is learned there:
\* mac_msg_list is in order, its last update fits what the daemon has learned,
\* and the peer believes the last update it reads.
THEOREM NoStaleRemoteMacHolds == Spec => []NoStaleRemoteMac
<1>1. GInv => NoStaleRemoteMac
  <2> SUFFICES ASSUME GInv, Quiescent, Prompt, NEW n \in Node, RemoteMac(daemon[n])
               PROVE  LocalMac(daemon[Peer(n)])
    BY Zenon DEF NoStaleRemoteMac
  <2> DEFINE m == daemon[Peer(n)]
  <2>1. open[n] /\ open[Peer(n)] /\ m.ex /\ m.q = <<>> /\ wire[n] = <<>>
    BY PeerType, Zenon DEF Quiescent
  <2>2. Tell(m, wire[n], daemon[n])
    BY <2>1, Zenon DEF GInv, Agree
  <2>3. Belief(wire[n], daemon[n])
    BY <2>1 DEF Belief, Silent
  <2> QED
    BY <2>1, <2>2, <2>3, Zenon DEF Tell
<1> QED
  BY <1>1, GInvHolds, PTL

\* Once everything is handled, an address learned on one daemon is held by the
\* other on its behalf: mlacp_sync_mac announces what was learned before the
\* session, set_mac_local_age_flag what changes during it, and no local event
\* of the other daemon makes it forget.
THEOREM MacReachesPeerHolds == Spec => []MacReachesPeer
<1>1. GInv => MacReachesPeer
  <2> SUFFICES ASSUME GInv, Quiescent, Stays, Prompt, "po" \notin scene.seen \cap scene.event,
                      NEW n \in Node, LocalMac(daemon[n])
               PROVE  RemoteMac(daemon[Peer(n)])
    BY Zenon DEF MacReachesPeer
  <2> DEFINE p == Peer(n)
  <2>1. p \in Node /\ Peer(p) = n
    BY PeerType, PeerPeer, Zenon
  <2>2. open[n] /\ open[p] /\ daemon[n].ex /\ daemon[n].q = <<>> /\ wire[p] = <<>>
    BY <2>1, Zenon DEF Quiescent
  <2>3. ~Last(wire[p], "ADD")
    BY <2>2 DEF Last
  <2>4. ASSUME Shared \/ Alone(n) PROVE RemoteMac(daemon[p])
    <3>1. Agree(p)
      BY <2>1, Zenon DEF GInv
    <3>2. Hear(daemon[n], wire[p], daemon[p])
      BY <2>1, <2>2, <2>4, <3>1, Zenon DEF Agree
    <3> QED
      BY <2>2, <2>3, <3>2, Zenon DEF Hear, Belief
  <2>5. NodeOK(n, daemon[n]) /\ Known(daemon[n])
    BY Zenon DEF GInv, LocalMac
  <2>6. CASE scene.seen \subseteq {"po"}
    <3>1. "po" \in scene.seen
      BY <2>5, <2>6, Zenon DEF NodeOK, Seen
    <3> QED
      BY <2>4, <2>6, <3>1, Zenon DEF Shared
  <2>7. ASSUME NEW a \in Node, Alone(a) PROVE RemoteMac(daemon[p])
    <3>1. CASE a = n
      BY <2>4, <2>7, <3>1, Zenon
    <3>2. CASE a # n
      <4>1. a = p
        BY <3>2, Zenon DEF Node, Peer
      <4> QED
        BY <2>5, <2>7, <4>1, Zenon DEF NodeOK, Away, LocalMac
    <3> QED
      BY <3>1, <3>2, Zenon
  <2> QED
    BY <2>6, <2>7, Zenon DEF Stays, Alone
<1> QED
  BY <1>1, GInvHolds, PTL
=============================================================================
