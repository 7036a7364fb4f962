-------------------------- MODULE Bgpcfgd_proofs --------------------------
(***************************************************************************)
(* Proofs about bgpcfgd, for any set of scenes: the neighbour manager, the  *)
(* redistribution, the managers of static routes and of the allow list, and *)
(* the types.                                                               *)
(***************************************************************************)
EXTENDS Bgpcfgd, FiniteSetTheorems, SequenceTheorems, WellFoundedInduction, TLAPS

Admin == {"up", "down", "unset"}
PeerMsg == [key : {"peer"}, op : {"SET"}, data : Admin] \union [key : {"peer"}, op : {"DEL"}]

\* The messages of BGP_NEIGHBOR not popped yet.
Box == inbox["BGP_NEIGHBOR"]

\* The types the argument needs.
Shape ==
    /\ "peer" \in DOMAIN rows => rows["peer"] \in Admin
    /\ "BGP_NEIGHBOR" \in DOMAIN inbox /\ Box \in Seq(PeerMsg)
    /\ peer \in [known : BOOLEAN, queue : Seq(Admin)]
    /\ "peer" \in DOMAIN staged /\ "peer" \in DOMAIN frr
    /\ past \in [orphan : BOOLEAN, ignored : BOOLEAN, lost : BOOLEAN, stale : BOOLEAN, noasn : BOOLEAN]

\* The last message says what became of the row.
LastIsDel == Box # <<>> /\ "peer" \notin DOMAIN rows => Box[Len(Box)].op = "DEL"

\* A neighbour the manager does not know has no scheduled configuration.
Forgotten == ~peer.known /\ ~past.lost => staged.peer = "none"

\* Once the deletion is handled the manager has nothing of the neighbour.
Gone == Box = <<>> /\ "peer" \notin DOMAIN rows /\ ~past.orphan => ~peer.known /\ peer.queue = <<>>

\* Between two rounds nothing is scheduled.
Committed == round.cur = NoTable => frr = staged

Inv == Shape /\ QueueWaits /\ LastIsDel /\ Forgotten /\ Gone /\ Committed

\* Only the neighbour's row is of its table.
LEMMA TableOf ==
    ASSUME NEW k
    PROVE  /\ Table(k) = "BGP_NEIGHBOR" <=> k = "peer"
           /\ Table(k) # NoTable
BY KeyAssumption, Zenon DEF Table, Dep, NoTable

\* What SubscriberStateTable finds at a start: the neighbour's row, if any.
LEMMA DumpPeer ==
    ASSUME "peer" \in DOMAIN rows => rows["peer"] \in Admin,
           NEW box \in Dump("BGP_NEIGHBOR")
    PROVE  /\ box \in Seq(PeerMsg)
           /\ "peer" \notin DOMAIN rows => box = <<>>
<1> DEFINE S == {k \in DOMAIN rows : Table(k) = "BGP_NEIGHBOR"}
<1>1. S \subseteq {"peer"} /\ ("peer" \in S => rows["peer"] \in Admin)
    BY TableOf, Zenon
<1>2. Cardinality(S) \in Nat /\ (S = {} => Cardinality(S) = 0)
    BY <1>1, FS_EmptySet, FS_Singleton, FS_Subset, FS_CardinalityType, ZenonT(40)
<1>3. PICK s \in Orders(S) : box = [i \in DOMAIN s |-> SetMsg(s[i], rows[s[i]])]
    BY Zenon DEF Dump
<1>4. s \in [1..Cardinality(S) -> S]
    BY <1>3, Zenon DEF Orders, Injection
<1>5. box \in [1..Cardinality(S) -> PeerMsg]
    <2>1. \A i \in 1..Cardinality(S) : SetMsg(s[i], rows[s[i]]) \in PeerMsg
        BY <1>1, <1>4, SMTT(40) DEF SetMsg, PeerMsg
    <2>2. DOMAIN s = 1..Cardinality(S)
        BY <1>4, Zenon
    <2>3. QED
        BY <2>1, <2>2, <1>3, ZenonT(40)
<1>6. box \in Seq(PeerMsg)
    BY <1>2, <1>5, SeqDef, Zenon
<1>7. ASSUME "peer" \notin DOMAIN rows PROVE box = <<>>
    <2>1. S = {}
        BY <1>1, <1>7, Zenon
    <2>2. Len(box) = 0
        BY <1>2, <1>5, <2>1, <1>6, SMTT(40)
    <2>3. QED
        BY <2>2, <1>6, SMTT(40)
<1>8. QED
    BY <1>6, <1>7, Zenon

\* A start, after boot or after an exception, establishes the invariant.
LEMMA StartInv ==
    ASSUME Restart, rows' = rows, Shape
    PROVE  Inv'
<1>1. inbox' \in Dumps
    BY Zenon DEF Restart
<1>2. Box' \in Dump("BGP_NEIGHBOR") /\ "BGP_NEIGHBOR" \in DOMAIN inbox'
    BY <1>1, Zenon DEF Dumps, Box
<1>3. Box' \in Seq(PeerMsg) /\ ("peer" \notin DOMAIN rows => Box' = <<>>)
    BY <1>2, DumpPeer, Zenon DEF Shape
<1>4. Shape'
    BY <1>2, <1>3, SMTT(40) DEF Shape, Restart, Fresh, NoConfig, NothingWrong
<1>5. QED
    BY <1>3, <1>4, Zenon DEF Inv, QueueWaits, LastIsDel, Forgotten, Gone, Committed, Restart, Fresh, NoConfig

LEMMA InitInv == Init => Inv
<1> SUFFICES ASSUME Init PROVE Inv
    BY Zenon
<1>1. "peer" \in DOMAIN rows => rows["peer"] \in Admin
    <2>1. Data("peer") = Admin
        BY KeyAssumption, Zenon DEF Data, Admin
    <2>2. (CHOOSE d \in Data("peer") : TRUE) \in Admin
        BY <2>1, Zenon DEF Admin
    <2>3. QED
        BY <2>2, Zenon DEF Init
<1>2. Box \in Dump("BGP_NEIGHBOR") /\ "BGP_NEIGHBOR" \in DOMAIN inbox
    BY Zenon DEF Init, Dumps, Box
<1>3. Box \in Seq(PeerMsg) /\ ("peer" \notin DOMAIN rows => Box = <<>>)
    BY <1>1, <1>2, DumpPeer, Zenon
<1>4. Shape
    BY <1>1, <1>2, <1>3, SMTT(40) DEF Shape, Init, Fresh, NoConfig, NothingWrong
<1>5. QED
    BY <1>3, <1>4, Zenon DEF Inv, QueueWaits, LastIsDel, Forgotten, Gone, Committed, Init, Fresh, NoConfig

\* A message of another table leaves the neighbour's messages alone.
LEMMA HandledOther ==
    ASSUME NEW k, k # "peer", Handled(k), Shape
    PROVE  /\ Box' = Box /\ "BGP_NEIGHBOR" \in DOMAIN inbox'
           /\ rows' = rows /\ frr' = frr /\ scene' = scene /\ round'.cur # NoTable
BY TableOf, Zenon DEF Handled, Shape, Box

\* A message of the neighbour's table is its head.
LEMMA HandledPeer ==
    ASSUME Handled("peer"), Shape, NEW op, Receive("peer", op)
    PROVE  /\ Box # <<>> /\ Box' = Tail(Box) /\ "BGP_NEIGHBOR" \in DOMAIN inbox' /\ Box' \in Seq(PeerMsg)
           /\ Head(Box) \in PeerMsg /\ Head(Box).op = op
           /\ Box' # <<>> => Box'[Len(Box')] = Box[Len(Box)]
           /\ Box' = <<>> => Box[Len(Box)].op = op
           /\ rows' = rows /\ frr' = frr /\ scene' = scene /\ round'.cur # NoTable
<1>1. Table("peer") = "BGP_NEIGHBOR"
    BY TableOf, ZenonT(40)
<1>2. Box # <<>> /\ Head(Box).op = op
    BY <1>1, ZenonT(40) DEF Receive, Box
<1>3. Box' = Tail(Box) /\ "BGP_NEIGHBOR" \in DOMAIN inbox'
    BY <1>1, ZenonT(40) DEF Handled, Shape, Box
<1>4. /\ Box' \in Seq(PeerMsg) /\ Head(Box) \in PeerMsg
      /\ Box' # <<>> => Box'[Len(Box')] = Box[Len(Box)]
      /\ Box' = <<>> => Box[Len(Box)] = Head(Box)
    <2> DEFINE b == Box
    <2>1. b \in Seq(PeerMsg) /\ b # <<>> /\ Box' = Tail(b)
        BY <1>2, <1>3, ZenonT(40) DEF Shape
    <2> HIDE DEF b
    <2>2. Len(b) \in Nat /\ Len(b) > 0 /\ Tail(b) \in Seq(PeerMsg) /\ Head(b) = b[1] /\ b[1] \in PeerMsg
        BY <2>1, SMTT(40)
    <2>3. Len(Tail(b)) = Len(b) - 1 /\ \A i \in 1..Len(b) - 1 : Tail(b)[i] = b[i + 1]
        BY <2>1, <2>2, SMTT(40)
    <2>4. Tail(b) # <<>> => Len(b) - 1 > 0
        BY <2>2, <2>3, SMTT(40)
    <2>5. ASSUME Tail(b) = <<>> PROVE Len(b) = 1
        <3>1. Len(<<>>) = 0
            BY Zenon
        <3>2. Len(Tail(b)) = 0
            BY <2>5, <3>1, ZenonT(40)
        <3>3. QED
            BY <3>2, <2>2, <2>3, SMTT(40)
    <2>6. QED
        BY <2>1, <2>2, <2>3, <2>4, <2>5, SMTT(40) DEF b
<1>5. QED
    BY <1>1, <1>2, <1>3, <1>4, Zenon DEF Handled, NoTable

\* TryPeer, when the queue or the request tried is not lost in the middle.
LEMMA TryPeerStep ==
    ASSUME NEW d, NEW cfg, NEW kept \in Seq(Admin), NEW q \in Seq(Admin), Shape, "peer" \in DOMAIN cfg,
           TryPeer(d, cfg, kept, q)
    PROVE  /\ peer' \in [known : BOOLEAN, queue : Seq(Admin)]
           /\ "peer" \in DOMAIN staged'
           /\ past' \in [orphan : BOOLEAN, ignored : BOOLEAN, lost : BOOLEAN, stale : BOOLEAN, noasn : BOOLEAN]
           /\ past'.orphan = past.orphan /\ past'.lost = past.lost
           /\ \/ /\ Waits(d) \/ q = <<>>
                 /\ peer'.known = peer.known /\ peer'.queue = kept \o q /\ staged' = cfg
              \/ ~Waits(d) /\ q # <<>> /\ peer'.queue = kept
                 /\ (~peer'.known => ~peer.known /\ staged' = cfg)
<1>1. CASE Waits(d) \/ q = <<>>
    <2>1. peer' = [peer EXCEPT !.queue = kept \o q] /\ staged' = cfg /\ past' = past
        BY <1>1, Zenon DEF TryPeer
    <2>2. kept \o q \in Seq(Admin)
        BY SMTT(40)
    <2>3. /\ peer' \in [known : BOOLEAN, queue : Seq(Admin)]
          /\ peer'.known = peer.known /\ peer'.queue = kept \o q
        BY <2>1, <2>2, ZenonT(40) DEF Shape
    <2>4. QED
        BY <1>1, <2>1, <2>3, Zenon DEF Shape
<1>2. CASE ~(Waits(d) \/ q = <<>>)
    <2>1. peer' = [known |-> ~(~peer.known /\ InVnet(d)), queue |-> kept]
        BY <1>2, Zenon DEF TryPeer
    <2>2. peer' \in [known : BOOLEAN, queue : Seq(Admin)]
        BY <2>1, Zenon
    <2>3. ~peer'.known => ~peer.known /\ staged' = cfg
        BY <2>1, <1>2, ZenonT(40) DEF TryPeer
    <2>4. "peer" \in DOMAIN staged'
        BY <1>2, Zenon DEF TryPeer
    <2>5. past' \in [orphan : BOOLEAN, ignored : BOOLEAN, lost : BOOLEAN, stale : BOOLEAN, noasn : BOOLEAN]
          /\ past'.orphan = past.orphan /\ past'.lost = past.lost
        BY <1>2, ZenonT(40) DEF TryPeer, Shape
    <2>6. QED
        BY <1>2, <2>1, <2>2, <2>3, <2>4, <2>5, Zenon
<1>3. QED
    BY <1>1, <1>2, Zenon

\* Fewer dependencies, or a neighbour forgotten, never end a wait.
LEMMA WaitsMonotone ==
    ASSUME NEW k, Waits(dir), scene' = scene,
           dir' = dir \ (IF k = "port" THEN {"port", "vnet"} ELSE {k}),
           peer'.known => peer.known, k \in Dep
    PROVE  Waits(dir)'
BY Zenon DEF Waits, Available, HasLocal, InVnet, Opt, Dep

LEMMA SetPeerInv == ASSUME Inv, SetPeer PROVE Inv'
<1> DEFINE q == <<Received("peer")>>
<1>1. Handled("peer") /\ Receive("peer", "SET") /\ TryPeer(dir, staged, peer.queue, q) /\ dir' = dir
    BY Zenon DEF SetPeer
<1>2. Head(Box) \in PeerMsg /\ Head(Box).op = "SET"
    BY <1>1, HandledPeer, ZenonT(40) DEF Inv
<1>3. q \in Seq(Admin) /\ q # <<>> /\ peer.queue \in Seq(Admin) /\ "peer" \in DOMAIN staged
    <2>1. Received("peer") \in Admin
        BY <1>2, TableOf, Zenon DEF Received, Box, PeerMsg
    <2>2. QED
        BY <2>1, SMTT(40) DEF Inv, Shape
<1> HIDE DEF q
<1>4. /\ peer' \in [known : BOOLEAN, queue : Seq(Admin)]
      /\ "peer" \in DOMAIN staged'
      /\ past' \in [orphan : BOOLEAN, ignored : BOOLEAN, lost : BOOLEAN, stale : BOOLEAN, noasn : BOOLEAN]
      /\ past'.orphan = past.orphan /\ past'.lost = past.lost
      /\ ~peer'.known => ~peer.known /\ staged' = staged
      /\ ~Waits(dir) => peer'.queue = peer.queue
      /\ Waits(dir) => peer'.known = peer.known
    BY <1>1, <1>3, TryPeerStep, SMTT(40) DEF Inv
<1>5. /\ Box' \in Seq(PeerMsg) /\ "BGP_NEIGHBOR" \in DOMAIN inbox'
      /\ Box # <<>> /\ (Box' # <<>> => Box'[Len(Box')] = Box[Len(Box)])
      /\ Box' = <<>> => Box[Len(Box)].op = "SET"
      /\ rows' = rows /\ frr' = frr /\ scene' = scene /\ round'.cur # NoTable
    BY <1>1, HandledPeer, Zenon DEF Inv
<1>6. Shape'
    BY <1>4, <1>5, ZenonT(40) DEF Inv, Shape
<1>7. QueueWaits'
    BY <1>1, <1>4, <1>5, ZenonT(40) DEF Inv, QueueWaits, Waits, Available, HasLocal, InVnet, Opt
<1>8. LastIsDel' /\ Gone'
    BY <1>5, ZenonT(40) DEF Inv, LastIsDel, Gone
<1>9. Forgotten' /\ Committed'
    BY <1>4, <1>5, ZenonT(40) DEF Inv, Forgotten, Committed
<1>10. QED
    BY <1>6, <1>7, <1>8, <1>9, Zenon DEF Inv

LEMMA DelPeerInv == ASSUME Inv, DelPeer PROVE Inv'
<1>1. CASE peer.known /\ "asn" \notin dir
    BY <1>1, StartInv, ZenonT(40) DEF DelPeer, Inv
<1>2. CASE ~(peer.known /\ "asn" \notin dir)
    <2>1. /\ staged' = IF peer.known THEN [staged EXCEPT !.peer = "none"] ELSE staged
          /\ peer' = [peer EXCEPT !.known = FALSE]
          /\ past' = [past EXCEPT !.orphan = @ \/ peer.queue # <<>>]
          /\ Handled("peer") /\ Receive("peer", "DEL") /\ dir' = dir
        BY <1>2, Zenon DEF DelPeer
    <2>2. /\ Box' \in Seq(PeerMsg) /\ "BGP_NEIGHBOR" \in DOMAIN inbox'
          /\ Box # <<>> /\ (Box' # <<>> => Box'[Len(Box')] = Box[Len(Box)])
          /\ rows' = rows /\ frr' = frr /\ scene' = scene /\ round'.cur # NoTable
        BY <2>1, HandledPeer, ZenonT(40) DEF Inv
    <2>3. /\ past' \in [orphan : BOOLEAN, ignored : BOOLEAN, lost : BOOLEAN, stale : BOOLEAN, noasn : BOOLEAN]
          /\ past'.orphan = (past.orphan \/ peer.queue # <<>>) /\ past'.lost = past.lost
        BY <2>1, ZenonT(40) DEF Inv, Shape
    <2>4. peer' \in [known : BOOLEAN, queue : Seq(Admin)] /\ ~peer'.known /\ peer'.queue = peer.queue
        BY <2>1, ZenonT(40) DEF Inv, Shape
    <2>5. "peer" \in DOMAIN staged' /\ (peer.known => staged'.peer = "none") /\ (~peer.known => staged' = staged)
        BY <2>1, Zenon DEF Inv, Shape
    <2>6. Shape'
        BY <2>2, <2>3, <2>4, <2>5, ZenonT(40) DEF Inv, Shape
    <2>7. QueueWaits'
        BY <2>1, <2>2, <2>4, ZenonT(40) DEF Inv, QueueWaits, Waits, Available, HasLocal, InVnet, Opt
    <2>8. LastIsDel' /\ Gone'
        BY <2>2, <2>3, <2>4, ZenonT(40) DEF Inv, LastIsDel, Gone
    <2>9. Forgotten' /\ Committed'
        BY <2>2, <2>3, <2>4, <2>5, ZenonT(40) DEF Inv, Forgotten, Committed
    <2>10. QED
        BY <2>6, <2>7, <2>8, <2>9, Zenon DEF Inv
<1>3. QED
    BY <1>1, <1>2, ZenonT(40)

LEMMA SetDepInv == ASSUME Inv, NEW k \in Dep, SetDep(k) PROVE Inv'
<1> DEFINE q == peer.queue
           cfg == OnAsn(k)
<1>1. Handled(k) /\ TryPeer(dir', cfg, <<>>, q)
    BY Zenon DEF SetDep
<1>2. q \in Seq(Admin) /\ <<>> \in Seq(Admin) /\ <<>> \o q = q
    BY SMTT(40) DEF Inv, Shape
<1>3. "peer" \in DOMAIN cfg /\ cfg.peer = staged.peer
    BY Zenon DEF Inv, Shape, OnAsn
<1>4. k # "peer"
    BY Zenon DEF Dep
<1>5. /\ Box' = Box /\ "BGP_NEIGHBOR" \in DOMAIN inbox'
      /\ rows' = rows /\ frr' = frr /\ scene' = scene /\ round'.cur # NoTable
    BY <1>1, <1>4, HandledOther, Zenon DEF Inv
<1> HIDE DEF q, cfg
<1>6. /\ peer' \in [known : BOOLEAN, queue : Seq(Admin)]
      /\ "peer" \in DOMAIN staged'
      /\ past' \in [orphan : BOOLEAN, ignored : BOOLEAN, lost : BOOLEAN, stale : BOOLEAN, noasn : BOOLEAN]
      /\ past'.orphan = past.orphan /\ past'.lost = past.lost
      /\ \/ /\ Waits(dir') \/ q = <<>>
            /\ peer'.known = peer.known /\ peer'.queue = q /\ staged' = cfg
         \/ q # <<>> /\ peer'.queue = <<>> /\ (~peer'.known => ~peer.known /\ staged' = cfg)
    <2> DEFINE d == dir'
               none == <<>>
    <2>1. TryPeer(d, cfg, none, q) /\ none \in Seq(Admin) /\ none \o q = q
        BY <1>1, <1>2, Zenon
    <2> HIDE DEF d, none
    <2>2. /\ peer' \in [known : BOOLEAN, queue : Seq(Admin)]
          /\ "peer" \in DOMAIN staged'
          /\ past' \in [orphan : BOOLEAN, ignored : BOOLEAN, lost : BOOLEAN, stale : BOOLEAN, noasn : BOOLEAN]
          /\ past'.orphan = past.orphan /\ past'.lost = past.lost
          /\ \/ /\ Waits(d) \/ q = <<>>
                /\ peer'.known = peer.known /\ peer'.queue = none \o q /\ staged' = cfg
             \/ ~Waits(d) /\ q # <<>> /\ peer'.queue = none
                /\ (~peer'.known => ~peer.known /\ staged' = cfg)
        BY <2>1, <1>2, <1>3, TryPeerStep, ZenonT(40) DEF Inv
    <2>3. QED
        BY <2>1, <2>2, Zenon DEF d, none
<1>7. Shape'
    BY <1>5, <1>6, Zenon DEF Inv, Shape
<1>8. QueueWaits'
    BY <1>5, <1>6, Zenon DEF QueueWaits, Waits, Available, HasLocal, InVnet, Opt
<1>9. LastIsDel' /\ Gone'
    BY <1>5, <1>6, ZenonT(40) DEF Inv, LastIsDel, Gone, q
<1>10. Forgotten' /\ Committed'
    BY <1>3, <1>5, <1>6, ZenonT(40) DEF Inv, Forgotten, Committed
<1>11. QED
    BY <1>7, <1>8, <1>9, <1>10, ZenonT(40) DEF Inv

LEMMA DelDepInv == ASSUME Inv, NEW k \in Dep, DelDep(k) PROVE Inv'
<1>1. /\ Handled(k) /\ peer' = peer /\ staged' = staged
      /\ dir' = dir \ (IF k = "port" THEN {"port", "vnet"} ELSE {k})
      /\ past' = [past EXCEPT !.noasn = @ \/ k = "asn"]
    BY Zenon DEF DelDep
<1>2. k # "peer"
    BY Zenon DEF Dep
<1>3. /\ Box' = Box /\ "BGP_NEIGHBOR" \in DOMAIN inbox'
      /\ rows' = rows /\ frr' = frr /\ scene' = scene /\ round'.cur # NoTable
    BY <1>1, <1>2, HandledOther, ZenonT(40) DEF Inv
<1>4. /\ past' \in [orphan : BOOLEAN, ignored : BOOLEAN, lost : BOOLEAN, stale : BOOLEAN, noasn : BOOLEAN]
      /\ past'.orphan = past.orphan /\ past'.lost = past.lost
    BY <1>1, ZenonT(40) DEF Inv, Shape
<1>5. QueueWaits'
    BY <1>1, <1>3, WaitsMonotone, ZenonT(40) DEF Inv, QueueWaits
<1>6. QED
    BY <1>1, <1>3, <1>4, <1>5, ZenonT(40) DEF Inv, Shape, LastIsDel, Forgotten, Gone, Committed

LEMMA CommitInv == ASSUME Inv, Commit PROVE Inv'
<1>1. /\ rows' = rows /\ inbox' = inbox /\ peer' = peer /\ dir' = dir /\ scene' = scene /\ frr' = staged'
      /\ \/ staged' = staged /\ past' = past
         \/ staged' = frr /\ past' = [past EXCEPT !.lost = TRUE]
    BY Zenon DEF Commit
<1>2. CASE staged' = staged /\ past' = past
    BY <1>1, <1>2, SMTT(40) DEF Inv, Shape, Box, QueueWaits, Waits, Available, HasLocal, InVnet, Opt, LastIsDel, Forgotten, Gone,
                      Committed
<1>3. CASE staged' = frr /\ past' = [past EXCEPT !.lost = TRUE]
    <2>1. /\ past' \in [orphan : BOOLEAN, ignored : BOOLEAN, lost : BOOLEAN, stale : BOOLEAN, noasn : BOOLEAN]
          /\ past'.orphan = past.orphan /\ past'.lost
        BY <1>3, ZenonT(40) DEF Inv, Shape
    <2>2. QED
        BY <1>1, <1>3, <2>1, Zenon DEF Inv, Shape, Box, QueueWaits, Waits, Available, HasLocal, InVnet, Opt, LastIsDel,
                                Forgotten, Gone, Committed
<1>4. QED
    BY <1>1, <1>2, <1>3, Zenon

\* The other managers leave the neighbour's part of everything alone.
LEMMA OtherInv ==
    ASSUME Inv, NEW k, k # "peer", Handled(k), dir' = dir, peer' = peer,
           "peer" \in DOMAIN staged', staged'.peer = staged.peer,
           past' \in [orphan : BOOLEAN, ignored : BOOLEAN, lost : BOOLEAN, stale : BOOLEAN, noasn : BOOLEAN],
           past'.orphan = past.orphan, past'.lost = past.lost
    PROVE  Inv'
<1>1. /\ Box' = Box /\ "BGP_NEIGHBOR" \in DOMAIN inbox'
      /\ rows' = rows /\ frr' = frr /\ scene' = scene /\ round'.cur # NoTable
    BY HandledOther, Zenon DEF Inv
<1>2. QED
    BY <1>1, ZenonT(40) DEF Inv, Shape, QueueWaits, Waits, Available, HasLocal, InVnet, Opt, LastIsDel, Forgotten, Gone, Committed

LEMMA RouteInv == ASSUME Inv, NEW r \in Route, SetRoute(r) \/ DelRoute(r) PROVE Inv'
<1>1. r # "peer"
    BY KeyAssumption, Zenon
<1>2. Handled(r) /\ dir' = dir /\ peer' = peer /\ past' = past
    BY Zenon DEF SetRoute, DelRoute
<1>3. "peer" \in DOMAIN staged' /\ staged'.peer = staged.peer
    BY ZenonT(40) DEF SetRoute, DelRoute, Inv, Shape
<1>4. QED
    BY <1>1, <1>2, <1>3, OtherInv, Zenon DEF Inv, Shape

LEMMA ListInv == ASSUME Inv, NEW c \in Comm, SetList(c) \/ DelList(c) PROVE Inv'
<1>1. CASE Restart /\ UNCHANGED <<scene, rows, events>>
    BY <1>1, StartInv, Zenon DEF Inv
<1>2. CASE ~(Restart /\ UNCHANGED <<scene, rows, events>>)
    <2>1. c # "peer"
        BY KeyAssumption, Zenon
    <2>2. Handled(c) /\ dir' = dir /\ peer' = peer /\ past' = [past EXCEPT !.stale = @ \/ Unseen]
        BY <1>2, Zenon DEF SetList, DelList
    <2>3. "peer" \in DOMAIN staged' /\ staged'.peer = staged.peer
        BY <1>2, ZenonT(40) DEF SetList, DelList, Inv, Shape
    <2>4. /\ past' \in [orphan : BOOLEAN, ignored : BOOLEAN, lost : BOOLEAN, stale : BOOLEAN, noasn : BOOLEAN]
          /\ past'.orphan = past.orphan /\ past'.lost = past.lost
        BY <2>2, ZenonT(40) DEF Inv, Shape
    <2>5. QED
        BY <2>1, <2>2, <2>3, <2>4, OtherInv, Zenon
<1>3. QED
    BY <1>1, <1>2, Zenon

\* A change of CONFIG_DB.
LEMMA ChangeInv ==
    ASSUME Inv, NEW k, NEW msg, Change(k, msg),
           k # "peer" => ("peer" \in DOMAIN rows' <=> "peer" \in DOMAIN rows),
           k # "peer" /\ "peer" \in DOMAIN rows => rows'["peer"] = rows["peer"],
           k = "peer" => /\ msg \in PeerMsg
                         /\ "peer" \in DOMAIN rows' => rows'["peer"] \in Admin
                         /\ "peer" \notin DOMAIN rows' => msg.op = "DEL"
    PROVE  Inv'
<1>1. /\ scene' = scene /\ round' = round /\ dir' = dir /\ peer' = peer /\ staged' = staged /\ frr' = frr
      /\ past' = past /\ inbox' = [inbox EXCEPT ![Table(k)] = Append(@, msg)]
    BY Zenon DEF Change, daemonVars
<1>2. QueueWaits' /\ Forgotten' /\ Committed'
    BY <1>1, Zenon DEF Inv, QueueWaits, Waits, Available, HasLocal, InVnet, Opt, Forgotten, Committed
<1>3. CASE k # "peer"
    <2>1. Box' = Box /\ "BGP_NEIGHBOR" \in DOMAIN inbox'
        BY <1>1, <1>3, TableOf, ZenonT(40) DEF Inv, Shape, Box
    <2>2. QED
        BY <1>1, <1>2, <1>3, <2>1, ZenonT(40) DEF Inv, Shape, LastIsDel, Gone
<1>4. CASE k = "peer"
    <2>1. Box' = Append(Box, msg) /\ "BGP_NEIGHBOR" \in DOMAIN inbox'
        BY <1>1, <1>4, TableOf, ZenonT(40) DEF Inv, Shape, Box
    <2>2. Box' \in Seq(PeerMsg) /\ Box' # <<>> /\ Box'[Len(Box')] = msg
        BY <2>1, <1>4, SMTT(40) DEF Inv, Shape
    <2>3. QED
        BY <1>1, <1>2, <1>4, <2>1, <2>2, ZenonT(40) DEF Inv, Shape, LastIsDel, Gone
<1>5. QED
    BY <1>3, <1>4, Zenon

LEMMA RowInv == ASSUME Inv, NEW k \in Key, SetRow(k) \/ DelRow(k) PROVE Inv'
<1>1. ASSUME NEW d \in Data(k), rows' = With(rows, k, d), Change(k, SetMsg(k, d)) PROVE Inv'
    <2>1. /\ DOMAIN rows' = DOMAIN rows \union {k} /\ rows'[k] = d
          /\ \A x \in DOMAIN rows : x # k => rows'[x] = rows[x]
        BY <1>1, Zenon DEF With
    <2>2. k = "peer" => d \in Admin
        BY KeyAssumption, Zenon DEF Data, Admin
    <2>3. QED
        BY <1>1, <2>1, <2>2, ChangeInv, Zenon DEF SetMsg, PeerMsg
<1>2. CASE DelRow(k)
    <2>1. /\ DOMAIN rows' = DOMAIN rows \ {k}
          /\ \A x \in DOMAIN rows' : rows'[x] = rows[x]
        BY <1>2, Zenon DEF DelRow, Without, Restrict
    <2>2. QED
        BY <1>2, <2>1, ChangeInv, Zenon DEF DelRow, DelMsg, PeerMsg
<1>3. QED
    BY <1>1, <1>2, Zenon DEF SetRow

LEMMA NextInv == Inv /\ [Next]_vars => Inv'
<1> SUFFICES ASSUME Inv, [Next]_vars PROVE Inv'
    BY Zenon
<1>1. CASE UNCHANGED vars
    BY <1>1, SMTT(40) DEF vars, Inv, Shape, Box, QueueWaits, Waits, Available, HasLocal, InVnet, Opt, LastIsDel, Forgotten, Gone,
                Committed
<1>2. QED
    BY <1>1, SetPeerInv, DelPeerInv, SetDepInv, DelDepInv, CommitInv, RouteInv, ListInv, RowInv, Zenon DEF Next, Daemon

\* Whatever is configured, in whatever order and however often, no request of
\* a neighbour stays queued once its dependencies are there: each put that can
\* complete them notifies the manager (Manager.on_deps_change).
THEOREM QueueWaitsHolds == Spec => []QueueWaits
<1>1. Inv => QueueWaits
    BY Zenon DEF Inv
<1>2. QED
    BY <1>1, InitInv, NextInv, PTL DEF Spec

\* A neighbour taken out of CONFIG_DB is out of FRR when the daemon is idle,
\* through any number of rounds, commits and restarts, unless a commit failed
\* or the deletion met a request still queued (del_handler, apply_op).
THEOREM PeerRemovedHolds == Spec => []PeerRemoved
<1>1. Inv => PeerRemoved
    BY Zenon DEF Inv, PeerRemoved, Idle, Configured, Tables, Gone, Forgotten, Committed, Box
<1>2. QED
    BY <1>1, InitInv, NextInv, PTL DEF Spec

-----------------------------------------------------------------------------
(* The redistribution of the static routes *)

RShape ==
    /\ "redist" \in DOMAIN staged /\ staged.redist \in BOOLEAN
    /\ "redist" \in DOMAIN frr /\ frr.redist \in BOOLEAN
    /\ pending \in BOOLEAN
    /\ routes = [r \in DOMAIN routes |-> routes[r]]
    /\ past \in [orphan : BOOLEAN, ignored : BOOLEAN, lost : BOOLEAN, stale : BOOLEAN, noasn : BOOLEAN]

\* With a route the redistribution is scheduled or waits for the ASN; it waits
\* only with a route and without the ASN; it was scheduled when the ASN was there.
Scheduled ==
    /\ ~past.lost /\ DOMAIN routes # {} => staged.redist \/ pending
    /\ pending => "asn" \notin dir /\ DOMAIN routes # {}
    /\ ~past.lost /\ ~past.noasn /\ staged.redist => DOMAIN routes # {} /\ "asn" \in dir

RInv == RShape /\ Scheduled /\ Committed

LEMMA NoRoutes == DOMAIN <<>> = {} /\ <<>> = [r \in DOMAIN <<>> |-> <<>>[r]]
BY SMTT(40)

LEMMA RInit == Init => RInv
<1> SUFFICES ASSUME Init PROVE RInv
    BY Zenon
<1>1. DOMAIN routes = {} /\ routes = [r \in DOMAIN routes |-> routes[r]]
    BY NoRoutes, ZenonT(40) DEF Init
<1>2. QED
    BY <1>1, ZenonT(40) DEF Init, RInv, RShape, Scheduled, Committed, NoConfig, NothingWrong

LEMMA RStart == Restart => RInv'
<1> SUFFICES ASSUME Restart PROVE RInv'
    BY Zenon
<1>1. DOMAIN routes' = {} /\ routes' = [r \in DOMAIN routes' |-> routes'[r]]
    BY NoRoutes, ZenonT(40) DEF Restart
<1>2. QED
    BY <1>1, ZenonT(40) DEF Restart, RInv, RShape, Scheduled, Committed, NoConfig, NothingWrong

\* Steps of the other managers.
LEMMA RSame ==
    ASSUME RInv, routes' = routes, pending' = pending, dir' = dir,
           "redist" \in DOMAIN staged', staged'.redist = staged.redist, frr' = frr,
           past' \in [orphan : BOOLEAN, ignored : BOOLEAN, lost : BOOLEAN, stale : BOOLEAN, noasn : BOOLEAN],
           past'.lost = past.lost, past'.noasn = past.noasn,
           round'.cur # NoTable \/ (round' = round /\ staged' = staged)
    PROVE  RInv'
BY Zenon DEF RInv, RShape, Scheduled, Committed

LEMMA RHandled == ASSUME NEW k, Handled(k) PROVE frr' = frr /\ round'.cur # NoTable
BY TableOf, Zenon DEF Handled

\* What TryPeer leaves alone.
LEMMA RTry ==
    ASSUME NEW d, NEW cfg, NEW kept, NEW q, TryPeer(d, cfg, kept, q), "redist" \in DOMAIN cfg, RShape
    PROVE  /\ "redist" \in DOMAIN staged' /\ staged'.redist = cfg.redist
           /\ past' \in [orphan : BOOLEAN, ignored : BOOLEAN, lost : BOOLEAN, stale : BOOLEAN, noasn : BOOLEAN]
           /\ past'.lost = past.lost /\ past'.noasn = past.noasn
<1>1. staged' = cfg \/ \E a : staged' = [cfg EXCEPT !.peer = a]
    BY Zenon DEF TryPeer
<1>2. past' = past \/ \E b \in BOOLEAN : past' = [past EXCEPT !.ignored = b]
    BY ZenonT(40) DEF TryPeer, RShape
<1>3. QED
    BY <1>1, <1>2, Zenon DEF RShape

LEMMA RPeer == ASSUME RInv, SetPeer \/ DelPeer PROVE RInv'
<1>1. CASE SetPeer
    <2>1. TryPeer(dir, staged, peer.queue, <<Received("peer")>>) /\ Handled("peer")
          /\ dir' = dir /\ routes' = routes /\ pending' = pending
        BY <1>1, Zenon DEF SetPeer
    <2>2. QED
        BY <2>1, RTry, RHandled, RSame, ZenonT(40) DEF RInv, RShape
<1>2. CASE DelPeer /\ peer.known /\ "asn" \notin dir
    BY <1>2, RStart, Zenon DEF DelPeer
<1>3. CASE DelPeer /\ ~(peer.known /\ "asn" \notin dir)
    <2>1. /\ Handled("peer") /\ dir' = dir /\ routes' = routes /\ pending' = pending
          /\ staged' = IF peer.known THEN [staged EXCEPT !.peer = "none"] ELSE staged
          /\ past' = [past EXCEPT !.orphan = @ \/ peer.queue # <<>>]
        BY <1>3, Zenon DEF DelPeer
    <2>2. "redist" \in DOMAIN staged' /\ staged'.redist = staged.redist
        BY <2>1, Zenon DEF RInv, RShape
    <2>3. /\ past' \in [orphan : BOOLEAN, ignored : BOOLEAN, lost : BOOLEAN, stale : BOOLEAN, noasn : BOOLEAN]
          /\ past'.lost = past.lost /\ past'.noasn = past.noasn
        BY <2>1, ZenonT(40) DEF RInv, RShape
    <2>4. QED
        BY <2>1, <2>2, <2>3, RHandled, RSame, ZenonT(40)
<1>4. QED
    BY <1>1, <1>2, <1>3, ZenonT(40)

LEMMA RSetDep == ASSUME RInv, NEW k \in Dep, SetDep(k) PROVE RInv'
<1> DEFINE cfg == OnAsn(k)
           d == dir'
           none == <<>>
<1>1. TryPeer(d, cfg, none, peer.queue) /\ Handled(k) /\ routes' = routes
    BY Zenon DEF SetDep
<1>2. "redist" \in DOMAIN cfg /\ cfg.redist = (staged.redist \/ (k = "asn" /\ pending))
    BY ZenonT(40) DEF OnAsn, RInv, RShape
<1>3. pending' = (pending /\ k # "asn") /\ pending' \in BOOLEAN
    BY Zenon DEF SetDep
<1>4. k # "asn" => ("asn" \in dir' <=> "asn" \in dir)
    BY Zenon DEF SetDep, Put, Dep
<1>5. k = "asn" => "asn" \in dir'
    BY Zenon DEF SetDep, Put
<1> HIDE DEF cfg, d, none
<1>6. /\ "redist" \in DOMAIN staged' /\ staged'.redist = cfg.redist
      /\ past' \in [orphan : BOOLEAN, ignored : BOOLEAN, lost : BOOLEAN, stale : BOOLEAN, noasn : BOOLEAN]
      /\ past'.lost = past.lost /\ past'.noasn = past.noasn
    BY <1>1, <1>2, RTry, ZenonT(40) DEF RInv
<1>7. frr' = frr /\ round'.cur # NoTable
    BY <1>1, RHandled, Zenon
<1>8. RShape' /\ Committed'
    BY <1>1, <1>2, <1>3, <1>6, <1>7, ZenonT(40) DEF RInv, RShape, Committed
<1>9. Scheduled'
    BY <1>1, <1>2, <1>3, <1>4, <1>5, <1>6, ZenonT(40) DEF RInv, RShape, Scheduled
<1>10. QED
    BY <1>8, <1>9, Zenon DEF RInv

LEMMA RDelDep == ASSUME RInv, NEW k \in Dep, DelDep(k) PROVE RInv'
<1>1. /\ Handled(k) /\ routes' = routes /\ pending' = pending /\ staged' = staged
      /\ past' = [past EXCEPT !.noasn = @ \/ k = "asn"]
      /\ "asn" \in dir' <=> "asn" \in dir /\ k # "asn"
    BY Zenon DEF DelDep, Dep
<1>2. /\ past' \in [orphan : BOOLEAN, ignored : BOOLEAN, lost : BOOLEAN, stale : BOOLEAN, noasn : BOOLEAN]
      /\ past'.lost = past.lost /\ past'.noasn = (past.noasn \/ k = "asn")
    BY <1>1, ZenonT(40) DEF RInv, RShape
<1>3. frr' = frr /\ round'.cur # NoTable
    BY <1>1, RHandled, Zenon
<1>4. QED
    BY <1>1, <1>2, <1>3, ZenonT(40) DEF RInv, RShape, Scheduled, Committed

LEMMA RCommit == ASSUME RInv, Commit PROVE RInv'
<1>1. /\ routes' = routes /\ pending' = pending /\ dir' = dir /\ frr' = staged'
      /\ \/ staged' = staged /\ past' = past
         \/ staged' = frr /\ past' = [past EXCEPT !.lost = TRUE]
    BY Zenon DEF Commit
<1>2. CASE staged' = staged /\ past' = past
    BY <1>1, <1>2, ZenonT(40) DEF RInv, RShape, Scheduled, Committed
<1>3. CASE staged' = frr /\ past' = [past EXCEPT !.lost = TRUE]
    <2>1. /\ past' \in [orphan : BOOLEAN, ignored : BOOLEAN, lost : BOOLEAN, stale : BOOLEAN, noasn : BOOLEAN]
          /\ past'.lost
        BY <1>3, ZenonT(40) DEF RInv, RShape
    <2>2. QED
        BY <1>1, <1>3, <2>1, ZenonT(40) DEF RInv, RShape, Scheduled, Committed
<1>4. QED
    BY <1>1, <1>2, <1>3, ZenonT(40)

LEMMA RSetRoute == ASSUME RInv, NEW r \in Route, SetRoute(r) PROVE RInv'
<1>1. Handled(r) /\ dir' = dir /\ past' = past
    BY Zenon DEF SetRoute
<1>2. frr' = frr /\ round'.cur # NoTable
    BY <1>1, RHandled, Zenon
<1>3. CASE BadHop \in Received(r)
    BY <1>1, <1>2, <1>3, RSame, ZenonT(40) DEF SetRoute, RInv, RShape
<1>4. CASE BadHop \notin Received(r)
    <2> DEFINE first == routes = <<>>
    <2>1. /\ staged' = [staged EXCEPT !.route = Reroute(r, Received(r)), !.redist = @ \/ (first /\ "asn" \in dir)]
          /\ pending' = (pending \/ (first /\ "asn" \notin dir))
          /\ routes' = [x \in DOMAIN routes \union {r} |-> IF x = r THEN Received(r) ELSE routes[x]]
        BY <1>4, Zenon DEF SetRoute, With
    <2>2. "redist" \in DOMAIN staged' /\ staged'.redist = (staged.redist \/ (first /\ "asn" \in dir))
        BY <2>1, Zenon DEF RInv, RShape
    <2>3. DOMAIN routes' # {} /\ routes' = [x \in DOMAIN routes' |-> routes'[x]]
        BY <2>1, Zenon
    <2>4. first <=> DOMAIN routes = {}
        <3>1. routes = <<>> => DOMAIN routes = {}
            BY NoRoutes, ZenonT(40)
        <3>2. ASSUME DOMAIN routes = {} PROVE routes = <<>>
            BY <3>2, NoRoutes, Zenon DEF RInv, RShape
        <3>3. QED
            BY <3>1, <3>2, Zenon
    <2> HIDE DEF first
    <2>5. QED
        BY <1>1, <1>2, <2>1, <2>2, <2>3, <2>4, ZenonT(40) DEF RInv, RShape, Scheduled, Committed
<1>5. QED
    BY <1>3, <1>4, Zenon

LEMMA RDelRoute == ASSUME RInv, NEW r \in Route, DelRoute(r) PROVE RInv'
<1> DEFINE last == DOMAIN routes = {r}
<1>1. /\ Handled(r) /\ dir' = dir /\ past' = past
      /\ staged' = [staged EXCEPT !.route = Reroute(r, {}), !.redist = @ /\ ~(last /\ "asn" \in dir)]
      /\ pending' = (pending /\ ~last)
      /\ routes' = [x \in DOMAIN routes \ {r} |-> routes[x]]
    BY Zenon DEF DelRoute, Without, Restrict
<1>2. frr' = frr /\ round'.cur # NoTable
    BY <1>1, RHandled, Zenon
<1>3. "redist" \in DOMAIN staged' /\ staged'.redist = (staged.redist /\ ~(last /\ "asn" \in dir))
    BY <1>1, Zenon DEF RInv, RShape
<1>4. DOMAIN routes' = DOMAIN routes \ {r} /\ routes' = [x \in DOMAIN routes' |-> routes'[x]]
    BY <1>1, Zenon
<1>5. DOMAIN routes' # {} => ~last /\ DOMAIN routes # {}
    BY <1>4, Zenon
<1>6. DOMAIN routes' = {} => last \/ DOMAIN routes = {}
    BY <1>4, ZenonT(40)
<1> HIDE DEF last
<1>7. RShape' /\ Committed'
    BY <1>1, <1>2, <1>3, <1>4, ZenonT(40) DEF RInv, RShape, Committed
<1>8. Scheduled'
    BY <1>1, <1>3, <1>5, <1>6, ZenonT(40) DEF RInv, RShape, Scheduled
<1>9. QED
    BY <1>7, <1>8, Zenon DEF RInv

LEMMA RList == ASSUME RInv, NEW c \in Comm, SetList(c) \/ DelList(c) PROVE RInv'
<1>1. CASE Restart
    BY <1>1, RStart, Zenon
<1>2. CASE ~Restart
    <2>1. /\ Handled(c) /\ dir' = dir /\ routes' = routes /\ pending' = pending
          /\ past' = [past EXCEPT !.stale = @ \/ Unseen]
        BY <1>2, Zenon DEF SetList, DelList
    <2>2. "redist" \in DOMAIN staged' /\ staged'.redist = staged.redist
        BY <1>2, ZenonT(40) DEF SetList, DelList, RInv, RShape
    <2>3. /\ past' \in [orphan : BOOLEAN, ignored : BOOLEAN, lost : BOOLEAN, stale : BOOLEAN, noasn : BOOLEAN]
          /\ past'.lost = past.lost /\ past'.noasn = past.noasn
        BY <2>1, ZenonT(40) DEF RInv, RShape
    <2>4. QED
        BY <2>1, <2>2, <2>3, RHandled, RSame, ZenonT(40)
<1>3. QED
    BY <1>1, <1>2, ZenonT(40)

LEMMA RNext == RInv /\ [Next]_vars => RInv'
<1> SUFFICES ASSUME RInv, [Next]_vars PROVE RInv'
    BY Zenon
<1>1. ASSUME NEW k \in Key, SetRow(k) \/ DelRow(k) PROVE RInv'
    BY <1>1, RSame, Zenon DEF SetRow, DelRow, Change, daemonVars, RInv, RShape
<1>2. CASE UNCHANGED vars
    BY <1>2, RSame, ZenonT(40) DEF vars, RInv, RShape
<1>3. QED
    BY <1>1, <1>2, RPeer, RSetDep, RDelDep, RCommit, RSetRoute, RDelRoute, RList, ZenonT(40) DEF Next, Daemon

\* The static routes are redistributed when, and if the ASN never went away
\* only when, there is one, whichever of the two came first and however often
\* the routes came and went (set_handler, del_handler, on_bgp_asn_change).
THEOREM RedistributionFollowsHolds == Spec => []RedistributionFollows
<1>1. RInv => RedistributionFollows
    <2> SUFFICES ASSUME RInv, Idle, ~past.lost
                 PROVE  /\ routes # <<>> /\ "asn" \in dir => frr.redist
                        /\ frr.redist /\ ~past.noasn => routes # <<>>
        BY Zenon DEF RedistributionFollows
    <2>1. frr = staged
        BY Zenon DEF RInv, Committed, Idle
    <2>2. routes # <<>> => DOMAIN routes # {}
        BY NoRoutes, Zenon DEF RInv, RShape
    <2>3. DOMAIN routes # {} => routes # <<>>
        BY NoRoutes, ZenonT(40)
    <2>4. QED
        BY <2>1, <2>2, <2>3, ZenonT(40) DEF RInv, Scheduled
<1>2. QED
    BY <1>1, RInit, RNext, PTL DEF Spec
-----------------------------------------------------------------------------
(* The neighbour that CONFIG_DB has *)

\* A set of naturals that is not empty has a least element.
LEMMA LeastOf ==
    ASSUME NEW S \in SUBSET Nat, S # {}
    PROVE  \E x \in S : \A y \in S : x =< y
<1> DEFINE R == OpToRel(<, Nat)
<1>1. \E x \in S : \A y \in S : ~(<<y, x>> \in R)
    BY NatLessThanWellFounded, WFMin, ZenonT(20)
<1>2. \A x, y \in Nat : <<y, x>> \in R <=> y < x
    BY Zenon DEF OpToRel
<1> HIDE DEF R
<1>3. PICK x \in S : \A y \in S : ~(<<y, x>> \in R)
    BY <1>1, Zenon
<1>4. \A y \in S : ~(y < x)
    BY <1>2, <1>3, Zenon
<1>5. QED
    BY <1>3, <1>4

LEMMA MinIn ==
    ASSUME NEW S \in SUBSET Nat, S # {}
    PROVE  Min(S) \in S
BY LeastOf, ZenonT(20) DEF Min

\* The last request that gives the attribute, of requests that do.
LEMMA MaxIn ==
    ASSUME NEW n \in Nat, NEW S \in SUBSET (1..n), S # {}
    PROVE  Max(S) \in S /\ \A y \in S : Max(S) >= y
<1> DEFINE T == {i \in Nat : \E x \in S : i = n - x}
<1>1. T \in SUBSET Nat /\ T # {}
    <2>1. PICK x \in S : TRUE
        BY Zenon
    <2>2. n - x \in Nat
        BY <2>1
    <2>3. n - x \in T
        BY <2>1, <2>2, Zenon
    <2>4. QED
        BY <2>3, Zenon
<1>2. PICK i \in T : \A j \in T : i =< j
    BY <1>1, LeastOf, Zenon
<1>3. PICK x \in S : i = n - x
    BY <1>2, Zenon
<1>4. \A y \in S : x >= y
    <2>1. SUFFICES ASSUME NEW y \in S PROVE x >= y
        BY Zenon
    <2>2. n - y \in T
        OBVIOUS
    <2>3. i =< n - y
        BY <1>2, <2>2, ZenonT(40)
    <2>4. QED
        BY <1>3, <2>3
<1>5. QED
    BY <1>3, <1>4, ZenonT(20) DEF Max

\* Of several requests the last one that gives the attribute counts.
LEMMA LastAdminIs ==
    ASSUME NEW q \in Seq(Admin), q # <<>>, NEW a
    PROVE  /\ LastAdmin(q, a) \in {"up", "down", a}
           /\ q[Len(q)] # "unset" => LastAdmin(q, a) = q[Len(q)]
<1> DEFINE said == {i \in DOMAIN q : q[i] # "unset"}
           n == Len(q)
<1>1. n \in Nat /\ n > 0 /\ DOMAIN q = 1..n /\ (\A i \in 1..n : q[i] \in Admin)
    BY SMTT(20)
<1>2. said \in SUBSET (1..n)
    BY <1>1, ZenonT(40)
<1>3. said # {} => Max(said) \in said /\ \A y \in said : Max(said) >= y
    BY <1>1, <1>2, MaxIn, ZenonT(40)
<1>4. LastAdmin(q, a) = IF said = {} THEN a ELSE q[Max(said)]
    BY ZenonT(20) DEF LastAdmin
<1>5. said # {} => q[Max(said)] \in {"up", "down"}
    BY <1>1, <1>3, ZenonT(20) DEF Admin
<1>6. q[n] # "unset" => n \in said
    BY <1>1, SMTT(20)
<1>7. q[n] # "unset" => Max(said) = n
    <2> HIDE DEF said
    <2>1. n \in said => said # {} /\ Max(said) \in 1..n /\ Max(said) >= n
        BY <1>2, <1>3, ZenonT(20)
    <2>2. QED
        BY <1>1, <1>6, <2>1, SMTT(20)
<1> HIDE DEF said
<1>8. QED
    BY <1>4, <1>5, <1>6, <1>7, ZenonT(20)

\* Requests that do not wait are carried out, unless the neighbour is ignored.
LEMMA TryAdmin ==
    ASSUME NEW d, NEW cfg, NEW kept \in Seq(Admin), NEW q \in Seq(Admin), Shape, "peer" \in DOMAIN cfg,
           TryPeer(d, cfg, kept, q), ~Waits(d), q # <<>>, peer.known => cfg.peer # "none"
    PROVE  /\ peer'.queue = kept
           /\ past.ignored => past'.ignored
           /\ peer'.known => staged'.peer # "none"
           /\ ~past'.ignored => peer'.known /\ (q[Len(q)] # "unset" => staged'.peer = q[Len(q)])
<1> DEFINE drop == ~peer.known /\ InVnet(d)
           now == IF peer.known THEN cfg.peer ELSE "up"
           last == LastAdmin(q, now)
<1>1. now # "none" /\ drop \in BOOLEAN
    BY Zenon
<1>2. last # "none" /\ (q[Len(q)] # "unset" => last = q[Len(q)])
    BY <1>1, LastAdminIs, ZenonT(20)
<1>3. /\ peer' = [known |-> ~drop, queue |-> kept]
      /\ staged' = IF drop \/ now = "none" THEN cfg ELSE [cfg EXCEPT !.peer = last]
      /\ past' = [past EXCEPT !.ignored = @ \/ drop]
    BY ZenonT(20) DEF TryPeer
<1> HIDE DEF drop, now, last
<1>4. peer'.known = ~drop /\ peer'.queue = kept
    BY <1>3, Zenon
<1>5. past'.ignored = (past.ignored \/ drop)
    BY <1>3, ZenonT(20) DEF Shape
<1>6. ~drop => staged'.peer = last
    BY <1>1, <1>3, ZenonT(20)
<1>7. QED
    BY <1>1, <1>2, <1>4, <1>5, <1>6, ZenonT(20)

\* The last message says what the row is.
LastIsRow == Box # <<>> /\ "peer" \in DOMAIN rows => Box[Len(Box)].op = "SET" /\ Box[Len(Box)].data = rows["peer"]

\* A neighbour the manager knows is scheduled or in FRR.
Known == peer.known /\ ~past.lost => staged.peer # "none"

\* Once the messages are handled, the row is in effect or is the last request
\* of the queue.
Settled ==
    Box = <<>> /\ "peer" \in DOMAIN rows /\ ~past.lost /\ ~past.ignored =>
      /\ peer.queue = <<>> => peer.known /\ (rows["peer"] # "unset" => staged.peer = rows["peer"])
      /\ peer.queue # <<>> /\ rows["peer"] # "unset" => peer.queue[Len(peer.queue)] = rows["peer"]

PInv == Inv /\ LastIsRow /\ Known /\ Settled

\* A start finds the neighbour's row, if there is one.
LEMMA DumpRow ==
    ASSUME "peer" \in DOMAIN rows, NEW box \in Dump("BGP_NEIGHBOR")
    PROVE  box # <<>> /\ box[Len(box)] = SetMsg("peer", rows["peer"])
<1> DEFINE S == {k \in DOMAIN rows : Table(k) = "BGP_NEIGHBOR"}
           m == SetMsg("peer", rows["peer"])
<1>1. S = {"peer"}
    BY TableOf, Zenon
<1>2. Cardinality(S) = 1
    BY <1>1, FS_Singleton, ZenonT(40)
<1>3. PICK s \in Orders(S) : box = [i \in DOMAIN s |-> SetMsg(s[i], rows[s[i]])]
    BY Zenon DEF Dump
<1>4. s \in [1..1 -> {"peer"}]
    <2>1. s \in [1..Cardinality(S) -> S]
        BY <1>3, Zenon DEF Orders, Injection
    <2>2. QED
        BY <1>1, <1>2, <2>1, ZenonT(20)
<1>5. box \in [1..1 -> {m}]
    BY <1>3, <1>4, Zenon
<1> HIDE DEF m
<1>6. box \in Seq({m}) /\ Len(box) = 1
    <2>1. \E n \in Nat : box \in [1..n -> {m}]
        BY <1>5, Zenon
    <2>2. box \in Seq({m})
        BY <2>1, SeqDef, ZenonT(60)
    <2>3. QED
        BY <1>5, <2>2, SMTT(20)
<1>7. QED
    BY <1>5, <1>6, SMTT(60) DEF m

LEMMA PStart == ASSUME Restart, rows' = rows, Shape PROVE PInv'
<1>1. Inv'
    BY StartInv, Zenon
<1>2. "peer" \in DOMAIN rows' => Box' # <<>> /\ Box'[Len(Box')] = SetMsg("peer", rows'["peer"])
    <2>1. Box' \in Dump("BGP_NEIGHBOR")
        BY Zenon DEF Restart, Dumps, Box
    <2>2. QED
        BY <2>1, DumpRow, ZenonT(20)
<1>3. LastIsRow' /\ Settled'
    BY <1>2, SMTT(20) DEF LastIsRow, Settled, SetMsg
<1>4. Known'
    BY Zenon DEF Known, Restart, Fresh
<1>5. QED
    BY <1>1, <1>3, <1>4, Zenon DEF PInv

LEMMA PInit == Init => PInv
<1> SUFFICES ASSUME Init PROVE PInv
    BY Zenon
<1>1. Inv
    BY InitInv, Zenon
<1>2. "peer" \in DOMAIN rows => Box # <<>> /\ Box[Len(Box)] = SetMsg("peer", rows["peer"])
    <2>1. Box \in Dump("BGP_NEIGHBOR")
        BY Zenon DEF Init, Dumps, Box
    <2>2. QED
        BY <2>1, DumpRow, ZenonT(20)
<1>3. LastIsRow /\ Settled
    BY <1>2, SMTT(20) DEF LastIsRow, Settled, SetMsg
<1>4. Known
    BY Zenon DEF Known, Init, Fresh
<1>5. QED
    BY <1>1, <1>3, <1>4, ZenonT(40) DEF PInv

LEMMA PSetPeer == ASSUME PInv, SetPeer PROVE (LastIsRow /\ Known /\ Settled)'
<1> DEFINE w == Received("peer")
           q == <<w>>
<1>1. Handled("peer") /\ Receive("peer", "SET") /\ TryPeer(dir, staged, peer.queue, q)
    BY Zenon DEF SetPeer
<1>2. Inv /\ Shape /\ peer.queue \in Seq(Admin) /\ "peer" \in DOMAIN staged
    BY Zenon DEF PInv, Inv, Shape
<1>3. /\ Box # <<>> /\ Box' \in Seq(PeerMsg) /\ Head(Box) \in PeerMsg /\ Head(Box).op = "SET"
      /\ Box' # <<>> => Box'[Len(Box')] = Box[Len(Box)]
      /\ rows' = rows
    BY <1>1, <1>2, HandledPeer, ZenonT(40)
<1>4. Box' = <<>> => Box[Len(Box)] = Head(Box)
    <2> DEFINE b == Box
    <2>1. b \in Seq(PeerMsg) /\ b # <<>> /\ Box' = Tail(b)
        BY <1>1, <1>2, <1>3, HandledPeer, ZenonT(40) DEF Shape
    <2> HIDE DEF b
    <2>2. Tail(b) = <<>> => Len(b) = 1
        BY <2>1, SMTT(60)
    <2>3. QED
        BY <2>1, <2>2, SMTT(20) DEF b
<1>5. w = Head(Box).data /\ w \in Admin
    BY <1>3, TableOf, ZenonT(40) DEF Received, Box, PeerMsg
<1> HIDE DEF w
<1>6. q \in Seq(Admin) /\ q # <<>> /\ Len(q) = 1 /\ q[1] = w /\ q[Len(q)] = w
    BY <1>5, SMTT(20)
<1> HIDE DEF q
<1>7. LastIsRow'
    BY <1>3, Zenon DEF PInv, LastIsRow
<1>8. Box' = <<>> /\ "peer" \in DOMAIN rows => w = rows["peer"]
    BY <1>3, <1>4, <1>5, ZenonT(40) DEF PInv, LastIsRow
<1>9. CASE Waits(dir)
    <2>1. peer'.known = peer.known /\ peer'.queue = peer.queue \o q /\ staged' = staged /\ past' = past
        <3>1. peer' = [peer EXCEPT !.queue = peer.queue \o q] /\ staged' = staged /\ past' = past
            BY <1>1, <1>9, ZenonT(20) DEF TryPeer
        <3>2. QED
            BY <1>2, <3>1, ZenonT(20) DEF Shape
    <2>2. peer'.queue # <<>> /\ peer'.queue[Len(peer'.queue)] = w
        <3> DEFINE k == peer.queue
        <3>1. k \in Seq(Admin) /\ q \in Seq(Admin) /\ peer'.queue = k \o q
            BY <1>2, <1>6, <2>1, ZenonT(40)
        <3> HIDE DEF k
        <3>2. Len(k \o q) = Len(k) + 1 /\ Len(k) \in Nat /\ (k \o q)[Len(k) + 1] = q[1]
            <4>1. Len(k \o q) = Len(k) + Len(q) /\ Len(k) \in Nat
                BY <3>1, SMTT(20)
            <4>2. \A i \in 1..Len(k) + Len(q) : (k \o q)[i] = IF i =< Len(k) THEN k[i] ELSE q[i - Len(k)]
                BY <3>1, ConcatProperties, ZenonT(20)
            <4>3. QED
                BY <1>6, <4>1, <4>2, SMTT(20)
        <3>3. k \o q # <<>>
            BY <3>1, <3>2, SMTT(20)
        <3>4. QED
            BY <1>6, <3>1, <3>2, <3>3, ZenonT(20)
    <2>3. QED
        BY <1>3, <1>7, <1>8, <2>1, <2>2, ZenonT(20) DEF PInv, Known, Settled
<1>10. CASE ~Waits(dir)
    <2>1. past'.lost = past.lost
        BY <1>1, <1>2, <1>6, TryPeerStep, ZenonT(20)
    <2>2. peer.queue = <<>>
        BY <1>2, <1>10, ZenonT(40) DEF Inv, QueueWaits
    <2>3. ASSUME ~past.lost
          PROVE  /\ peer'.queue = peer.queue
                 /\ peer'.known => staged'.peer # "none"
                 /\ ~past'.ignored => peer'.known /\ (w # "unset" => staged'.peer = w)
        <3>1. peer.known => staged.peer # "none"
            BY <2>3, Zenon DEF PInv, Known
        <3>2. QED
            BY <1>1, <1>2, <1>6, <1>10, <3>1, TryAdmin, ZenonT(20)
    <2>4. QED
        BY <1>3, <1>7, <1>8, <2>1, <2>2, <2>3, ZenonT(20) DEF Known, Settled
<1>11. QED
    BY <1>9, <1>10, Zenon

LEMMA PDelPeer == ASSUME PInv, DelPeer PROVE (LastIsRow /\ Known /\ Settled)'
<1>1. CASE peer.known /\ "asn" \notin dir
    BY <1>1, PStart, ZenonT(40) DEF DelPeer, PInv, Inv
<1>2. CASE ~(peer.known /\ "asn" \notin dir)
    <2>1. /\ peer' = [peer EXCEPT !.known = FALSE]
          /\ Handled("peer") /\ Receive("peer", "DEL")
        BY <1>2, ZenonT(40) DEF DelPeer
    <2>2. ~peer'.known
        BY <2>1, ZenonT(20) DEF PInv, Inv, Shape
    <2>3. /\ Box # <<>> /\ (Box' # <<>> => Box'[Len(Box')] = Box[Len(Box)])
          /\ Box' = <<>> => Box[Len(Box)].op = "DEL"
          /\ rows' = rows
        BY <2>1, HandledPeer, ZenonT(40) DEF PInv, Inv
    <2>4. QED
        BY <2>2, <2>3, Zenon DEF PInv, LastIsRow, Known, Settled
<1>3. QED
    BY <1>1, <1>2, ZenonT(40)

LEMMA PSetDep == ASSUME PInv, NEW k \in Dep, SetDep(k) PROVE (LastIsRow /\ Known /\ Settled)'
<1> DEFINE q == peer.queue
           cfg == OnAsn(k)
           d == dir'
           none == <<>>
<1>1. Handled(k) /\ TryPeer(d, cfg, none, q)
    BY Zenon DEF SetDep
<1>2. q \in Seq(Admin) /\ none \in Seq(Admin) /\ none \o q = q /\ Shape
    BY SMTT(20) DEF PInv, Inv, Shape
<1>3. "peer" \in DOMAIN cfg /\ cfg.peer = staged.peer
    BY Zenon DEF PInv, Inv, Shape, OnAsn
<1>4. Box' = Box /\ rows' = rows
    <2>1. k # "peer"
        BY Zenon DEF Dep
    <2>2. QED
        BY <1>1, <1>2, <2>1, HandledOther, Zenon
<1> HIDE DEF q, cfg, d, none
<1>5. CASE Waits(d) \/ q = <<>>
    <2>1. peer' = [peer EXCEPT !.queue = none \o q] /\ staged' = cfg /\ past' = past
        BY <1>1, <1>5, ZenonT(20) DEF TryPeer
    <2>2. peer'.known = peer.known /\ peer'.queue = peer.queue
        BY <1>2, <2>1, ZenonT(20) DEF Shape, q
    <2>3. QED
        BY <1>3, <1>4, <2>1, <2>2, ZenonT(20) DEF PInv, LastIsRow, Known, Settled
<1>6. CASE ~(Waits(d) \/ q = <<>>)
    <2>1. past'.lost = past.lost
        BY <1>1, <1>2, <1>3, TryPeerStep, ZenonT(20)
    <2>2. ASSUME ~past.lost
          PROVE  /\ peer'.queue = none
                 /\ past.ignored => past'.ignored
                 /\ peer'.known => staged'.peer # "none"
                 /\ ~past'.ignored => peer'.known /\ (q[Len(q)] # "unset" => staged'.peer = q[Len(q)])
        <3>1. peer.known => cfg.peer # "none"
            BY <1>3, <2>2, ZenonT(40) DEF PInv, Known
        <3>2. QED
            BY <1>1, <1>2, <1>3, <1>6, <3>1, TryAdmin, ZenonT(20)
    <2>3. Known' /\ LastIsRow'
        BY <1>4, <2>1, <2>2, ZenonT(20) DEF PInv, LastIsRow, Known
    <2>4. Settled'
        BY <1>4, <1>6, <2>1, <2>2, ZenonT(20) DEF PInv, Settled, q, none
    <2>5. QED
        BY <2>3, <2>4, Zenon
<1>7. QED
    BY <1>5, <1>6, ZenonT(40)

\* A step that leaves the neighbour's messages, row and configuration alone.
LEMMA PSame ==
    ASSUME PInv, Box' = Box, "peer" \in DOMAIN rows' <=> "peer" \in DOMAIN rows,
           "peer" \in DOMAIN rows => rows'["peer"] = rows["peer"],
           peer' = peer, past'.ignored = past.ignored,
           past'.lost \/ (staged'.peer = staged.peer /\ past'.lost = past.lost)
    PROVE  (LastIsRow /\ Known /\ Settled)'
<1>1. LastIsRow'
    BY ZenonT(20) DEF PInv, LastIsRow
<1>2. Known'
    BY ZenonT(20) DEF PInv, Known
<1>3. Settled'
    BY ZenonT(20) DEF PInv, Settled
<1>4. QED
    BY <1>1, <1>2, <1>3, ZenonT(40)

LEMMA PDelDep == ASSUME PInv, NEW k \in Dep, DelDep(k) PROVE (LastIsRow /\ Known /\ Settled)'
<1>1. /\ Handled(k) /\ peer' = peer /\ staged' = staged
      /\ past' = [past EXCEPT !.noasn = @ \/ k = "asn"] /\ k # "peer"
    BY Zenon DEF DelDep, Dep
<1>2. Box' = Box /\ rows' = rows
    BY <1>1, HandledOther, ZenonT(40) DEF PInv, Inv
<1>3. past'.lost = past.lost /\ past'.ignored = past.ignored
    BY <1>1, ZenonT(20) DEF PInv, Inv, Shape
<1>4. QED
    BY <1>1, <1>2, <1>3, PSame, ZenonT(20)

LEMMA PCommit == ASSUME PInv, Commit PROVE (LastIsRow /\ Known /\ Settled)'
<1>1. /\ rows' = rows /\ inbox' = inbox /\ peer' = peer
      /\ \/ staged' = staged /\ past' = past
         \/ staged' = frr /\ past' = [past EXCEPT !.lost = TRUE]
    BY Zenon DEF Commit
<1>2. past'.ignored = past.ignored /\ (past'.lost \/ (staged'.peer = staged.peer /\ past'.lost = past.lost))
    BY <1>1, ZenonT(20) DEF PInv, Inv, Shape
<1>3. Box' = Box
    BY <1>1, Zenon DEF Box
<1>4. QED
    BY <1>1, <1>2, <1>3, PSame, ZenonT(20)

LEMMA PRoute == ASSUME PInv, NEW r \in Route, SetRoute(r) \/ DelRoute(r) PROVE (LastIsRow /\ Known /\ Settled)'
<1>1. r # "peer"
    BY KeyAssumption, Zenon
<1>2. Handled(r) /\ peer' = peer /\ past' = past
    BY Zenon DEF SetRoute, DelRoute
<1>3. staged'.peer = staged.peer
    BY ZenonT(20) DEF SetRoute, DelRoute, PInv, Inv, Shape
<1>4. Box' = Box /\ rows' = rows
    BY <1>1, <1>2, HandledOther, ZenonT(40) DEF PInv, Inv
<1>5. QED
    BY <1>2, <1>3, <1>4, PSame, ZenonT(20)

LEMMA PList == ASSUME PInv, NEW c \in Comm, SetList(c) \/ DelList(c) PROVE (LastIsRow /\ Known /\ Settled)'
<1>1. CASE Restart /\ UNCHANGED <<scene, rows, events>>
    BY <1>1, PStart, ZenonT(40) DEF PInv, Inv
<1>2. CASE ~(Restart /\ UNCHANGED <<scene, rows, events>>)
    <2>1. c # "peer"
        BY KeyAssumption, Zenon
    <2>2. Handled(c) /\ peer' = peer /\ past' = [past EXCEPT !.stale = @ \/ Unseen]
        BY <1>2, ZenonT(40) DEF SetList, DelList
    <2>3. staged'.peer = staged.peer
        BY <1>2, ZenonT(20) DEF SetList, DelList, PInv, Inv, Shape
    <2>4. past'.ignored = past.ignored /\ past'.lost = past.lost
        BY <2>2, ZenonT(20) DEF PInv, Inv, Shape
    <2>5. Box' = Box /\ rows' = rows
        BY <2>1, <2>2, HandledOther, ZenonT(40) DEF PInv, Inv
    <2>6. QED
        BY <2>2, <2>3, <2>4, <2>5, PSame, ZenonT(20)
<1>3. QED
    BY <1>1, <1>2, ZenonT(40)

\* A change of the neighbour's row is its last message.
LEMMA PChange ==
    ASSUME PInv, NEW msg \in PeerMsg, Change("peer", msg),
           "peer" \in DOMAIN rows' => msg = SetMsg("peer", rows'["peer"])
    PROVE  (LastIsRow /\ Known /\ Settled)'
<1>1. peer' = peer /\ staged' = staged /\ past' = past /\ inbox' = [inbox EXCEPT ![Table("peer")] = Append(@, msg)]
    BY ZenonT(40) DEF Change, daemonVars
<1>2. Box' = Append(Box, msg) /\ Box \in Seq(PeerMsg)
    BY <1>1, TableOf, ZenonT(40) DEF PInv, Inv, Shape, Box
<1>3. Box' # <<>> /\ Box'[Len(Box')] = msg
    BY <1>2, SMTT(20)
<1>4. QED
    BY <1>1, <1>3, SMTT(20) DEF PInv, LastIsRow, Known, Settled, SetMsg

LEMMA PRow == ASSUME PInv, NEW k \in Key, SetRow(k) \/ DelRow(k) PROVE (LastIsRow /\ Known /\ Settled)'
<1>1. PICK msg : Change(k, msg)
    BY ZenonT(20) DEF SetRow, DelRow
<1>2. CASE k # "peer"
    <2>1. peer' = peer /\ staged' = staged /\ past' = past /\ inbox' = [inbox EXCEPT ![Table(k)] = Append(@, msg)]
        BY <1>1, Zenon DEF Change, daemonVars
    <2>2. Box' = Box
        BY <1>2, <2>1, TableOf, ZenonT(40) DEF Box, PInv, Inv, Shape
    <2>3. /\ "peer" \in DOMAIN rows' <=> "peer" \in DOMAIN rows
          /\ "peer" \in DOMAIN rows => rows'["peer"] = rows["peer"]
        BY <1>2, ZenonT(40) DEF SetRow, DelRow, With, Without, Restrict
    <2>4. QED
        BY <2>1, <2>2, <2>3, PSame, ZenonT(20)
<1>3. ASSUME k = "peer", NEW d \in Data(k), rows' = With(rows, k, d), Change(k, SetMsg(k, d))
      PROVE  (LastIsRow /\ Known /\ Settled)'
    <2>1. d \in Admin
        BY <1>3, KeyAssumption, ZenonT(40) DEF Data, Admin
    <2>2. rows'["peer"] = d
        BY <1>3, ZenonT(40) DEF With
    <2>3. SetMsg("peer", d) \in PeerMsg
        BY <2>1, ZenonT(40) DEF SetMsg, PeerMsg
    <2>4. QED
        BY <1>3, <2>2, <2>3, PChange, ZenonT(20)
<1>4. CASE k = "peer" /\ DelRow(k)
    <2>1. "peer" \notin DOMAIN rows'
        BY <1>4, ZenonT(40) DEF DelRow, Without, Restrict
    <2>2. DelMsg("peer") \in PeerMsg /\ Change("peer", DelMsg("peer"))
        BY <1>4, ZenonT(40) DEF DelMsg, PeerMsg, DelRow
    <2>3. QED
        BY <2>1, <2>2, PChange, ZenonT(20)
<1>5. QED
    BY <1>2, <1>3, <1>4, ZenonT(20) DEF SetRow

LEMMA PNext == PInv /\ [Next]_vars => PInv'
<1> SUFFICES ASSUME PInv, [Next]_vars PROVE PInv'
    BY Zenon
<1>1. Inv'
    BY NextInv, ZenonT(40) DEF PInv
<1>2. CASE UNCHANGED vars
    <2>1. rows' = rows /\ Box' = Box /\ peer' = peer /\ past' = past /\ staged' = staged
        BY <1>2, ZenonT(40) DEF vars, Box
    <2>2. QED
        BY <1>1, <2>1, PSame, ZenonT(20) DEF PInv
<1>3. CASE Next
    <2>1. (LastIsRow /\ Known /\ Settled)'
        BY <1>3, PSetPeer, PDelPeer, PSetDep, PDelDep, PCommit, PRoute, PList, PRow, ZenonT(20) DEF Next, Daemon
    <2>2. QED
        BY <1>1, <2>1, Zenon DEF PInv
<1>4. QED
    BY <1>2, <1>3, ZenonT(40)

\* A configured neighbour whose dependencies are there is in FRR with the
\* admin status of its row when the daemon is idle, whatever the order in which
\* the neighbour, its changes and its dependencies came, unless a commit failed
\* or the neighbour was ignored behind a vnet (Manager.handler, on_deps_change).
THEOREM PeerInstalledHolds == Spec => []PeerInstalled
<1>1. PInv => PeerInstalled
    <2> SUFFICES ASSUME PInv, Idle, ~past.lost, ~past.ignored, "peer" \in DOMAIN rows, ~Waits(dir)
                 PROVE  frr.peer # "none" /\ (rows["peer"] # "unset" => frr.peer = rows["peer"])
        BY ZenonT(20) DEF PeerInstalled, Configured
    <2>1. Box = <<>> /\ round.cur = NoTable
        BY Zenon DEF Idle, Box, Tables
    <2>2. frr = staged /\ peer.queue = <<>>
        BY <2>1, ZenonT(20) DEF PInv, Inv, Committed, QueueWaits
    <2>3. QED
        BY <2>1, <2>2, ZenonT(20) DEF PInv, Known, Settled
<1>2. QED
    BY <1>1, PInit, PNext, PTL DEF Spec
-----------------------------------------------------------------------------
(* The messages of a table *)

\* The database db has what message m says of its key.
Says(db, m) == IF m.key \in DOMAIN db THEN m.op = "SET" /\ m.data = db[m.key] ELSE m.op = "DEL"

\* The last message of each key in box says what db has.
Told(db, box) ==
    \A i \in DOMAIN box : (\A j \in DOMAIN box : j > i => box[j].key # box[i].key) => Says(db, box[i])

\* No message of box is about k.
Silent(box, k) == \A i \in DOMAIN box : box[i].key # k

LEMMA ToldTail ==
    ASSUME NEW M, NEW box \in Seq(M), box # <<>>, NEW db, Told(db, box)
    PROVE  /\ Tail(box) \in Seq(M) /\ Head(box) \in M /\ Told(db, Tail(box))
           /\ \A k : Silent(Tail(box), k) => Silent(box, k) \/ (k = Head(box).key /\ Says(db, Head(box)))
<1> DEFINE n == Len(box)
           b == Tail(box)
<1>1. n \in Nat /\ n > 0 /\ DOMAIN box = 1..n /\ Head(box) = box[1] /\ Head(box) \in M
    BY SMTT(20)
<1>2. b \in Seq(M) /\ Len(b) = n - 1 /\ DOMAIN b = 1..n - 1 /\ \A i \in 1..n - 1 : b[i] = box[i + 1]
    BY <1>1, SMTT(20)
<1> HIDE DEF n, b
<1>3. Told(db, b)
    <2> SUFFICES ASSUME NEW i \in 1..n - 1, \A j \in 1..n - 1 : j > i => b[j].key # b[i].key
                 PROVE  Says(db, b[i])
        BY <1>2, Zenon DEF Told
    <2>1. i + 1 \in 1..n /\ b[i] = box[i + 1]
        BY <1>1, <1>2, SMTT(20)
    <2>2. ASSUME NEW j \in 1..n, j > i + 1 PROVE box[j].key # box[i + 1].key
        <3>1. j - 1 \in 1..n - 1 /\ j - 1 > i /\ (j - 1) + 1 = j
            BY <1>1, <2>2, SMTT(20)
        <3>2. b[j - 1] = box[j]
            BY <1>2, <3>1, ZenonT(20)
        <3>3. QED
            BY <2>1, <3>1, <3>2, ZenonT(20)
    <2>3. Says(db, box[i + 1])
        BY <1>1, <2>1, <2>2, ZenonT(20) DEF Told
    <2>4. QED
        BY <2>1, <2>3, ZenonT(20)
<1>4. ASSUME NEW k, Silent(b, k), ~Silent(box, k) PROVE k = Head(box).key /\ Says(db, Head(box))
    <2>1. ASSUME NEW j \in 1..n, j > 1 PROVE box[j].key # k
        <3>1. j - 1 \in 1..n - 1 /\ (j - 1) + 1 = j
            BY <1>1, <2>1, SMTT(20)
        <3>2. QED
            BY <1>2, <1>4, <3>1, ZenonT(20) DEF Silent
    <2>2. 1 \in 1..n /\ \A j \in 1..n : j = 1 \/ j > 1
        BY <1>1, SMTT(20)
    <2>3. box[1].key = k
        BY <1>1, <1>4, <2>1, <2>2, ZenonT(20) DEF Silent
    <2>4. Says(db, box[1])
        BY <1>1, <2>1, <2>2, <2>3, ZenonT(20) DEF Told
    <2>5. QED
        BY <1>1, <2>3, <2>4, ZenonT(20)
<1>5. QED
    BY <1>1, <1>2, <1>3, <1>4, ZenonT(20) DEF b

LEMMA ToldAppend ==
    ASSUME NEW M, NEW box \in Seq(M), NEW m \in M, NEW db, NEW new, Told(db, box), Says(new, m),
           \A k : k # m.key => /\ k \in DOMAIN new <=> k \in DOMAIN db
                               /\ k \in DOMAIN db => new[k] = db[k]
    PROVE  /\ Append(box, m) \in Seq(M) /\ Told(new, Append(box, m))
           /\ \A k : Silent(Append(box, m), k) => k # m.key /\ Silent(box, k)
<1> DEFINE n == Len(box)
           b == Append(box, m)
<1>1. n \in Nat /\ DOMAIN box = 1..n
    BY SMTT(20)
<1>2. b \in Seq(M) /\ DOMAIN b = 1..n + 1 /\ b[n + 1] = m /\ \A i \in 1..n : b[i] = box[i]
    BY <1>1, SMTT(20)
<1> HIDE DEF n, b
<1>3. n + 1 \in 1..n + 1 /\ (\A i \in 1..n + 1 : i \in 1..n \/ i = n + 1) /\ (\A i \in 1..n : i \in 1..n + 1 /\ n + 1 > i)
    BY <1>1, SMTT(20)
<1>4. Told(new, b)
    <2> SUFFICES ASSUME NEW i \in 1..n + 1, \A j \in 1..n + 1 : j > i => b[j].key # b[i].key
                 PROVE  Says(new, b[i])
        BY <1>2, Zenon DEF Told
    <2>1. CASE i = n + 1
        BY <1>2, <2>1, ZenonT(20)
    <2>2. CASE i \in 1..n
        <3>1. b[i] = box[i] /\ box[i].key # m.key
            BY <1>2, <1>3, <2>2, ZenonT(20)
        <3>2. \A j \in 1..n : j > i => box[j].key # box[i].key
            BY <1>2, <1>3, <2>2, <3>1, ZenonT(20)
        <3>3. Says(db, box[i])
            BY <1>1, <2>2, <3>2, ZenonT(20) DEF Told
        <3>4. QED
            BY <3>1, <3>3, ZenonT(20) DEF Says
    <2>3. QED
        BY <1>3, <2>1, <2>2, ZenonT(20)
<1>5. \A k : Silent(b, k) => k # m.key /\ Silent(box, k)
    BY <1>1, <1>2, <1>3, ZenonT(20) DEF Silent
<1>6. QED
    BY <1>2, <1>4, <1>5, ZenonT(20) DEF b

\* A start finds every row of a table.
LEMMA ToldDump ==
    ASSUME NEW t, NEW box \in Dump(t), IsFiniteSet({k \in DOMAIN rows : Table(k) = t}),
           NEW M, \A k \in DOMAIN rows : Table(k) = t => SetMsg(k, rows[k]) \in M
    PROVE  /\ box \in Seq(M) /\ Told(rows, box)
           /\ \A k \in DOMAIN rows : Table(k) = t => ~Silent(box, k)
<1> DEFINE S == {k \in DOMAIN rows : Table(k) = t}
           n == Cardinality(S)
<1>1. n \in Nat
    BY FS_CardinalityType, ZenonT(20)
<1>2. PICK s \in Orders(S) : box = [i \in DOMAIN s |-> SetMsg(s[i], rows[s[i]])]
    BY Zenon DEF Dump
<1>0. s \in Injection(1..n, S)
    BY <1>2, ZenonT(20) DEF Orders
<1>3. s \in [1..n -> S] /\ \A i, j \in 1..n : i # j => s[i] # s[j]
    <2>1. s \in [1..n -> S] /\ IsInjective(s)
        BY <1>0, ZenonT(20) DEF Injection
    <2>2. QED
        BY <2>1, Zenon DEF IsInjective
<1>4. DOMAIN s = 1..n /\ \A i \in 1..n : s[i] \in S
    BY <1>3, ZenonT(20)
<1>5. IsFiniteSet(S) /\ S \subseteq DOMAIN rows
    BY Zenon
<1>6. \A k \in S : SetMsg(k, rows[k]) \in M
    BY Zenon
<1>7. \A k \in DOMAIN rows : Table(k) = t => k \in S
    BY Zenon
<1> HIDE DEF S
<1>8. \A k \in S : \E i \in 1..n : s[i] = k
    <2>1. Cardinality(1..n) = n
        BY <1>1, FS_Interval, SMTT(20)
    <2>2. s \in Surjection(1..n, S)
        BY <1>0, <1>5, <2>1, FS_Injection, ZenonT(20)
    <2>3. QED
        BY <2>2, ZenonT(40) DEF Surjection
<1> HIDE DEF n
<1>9. /\ DOMAIN box = 1..n
      /\ \A i \in 1..n : box[i] = SetMsg(s[i], rows[s[i]])
    BY <1>2, <1>4, ZenonT(20)
<1>10. \A i \in 1..n : /\ s[i] \in DOMAIN rows /\ box[i] \in M
                      /\ box[i].key = s[i] /\ box[i].op = "SET" /\ box[i].data = rows[s[i]]
    BY <1>4, <1>9, <1>5, <1>6, SMTT(20) DEF SetMsg
<1>11. box \in Seq(M)
    <2>1. box \in [1..n -> M]
        BY <1>2, <1>4, <1>9, <1>10, Zenon
    <2>2. QED
        BY <1>1, <2>1, SeqDef, ZenonT(20)
<1>12. Told(rows, box)
    BY <1>9, <1>10, ZenonT(20) DEF Told, Says
<1>13. \A k \in S : ~Silent(box, k)
    <2> TAKE k \in S
    <2>1. PICK i \in 1..n : s[i] = k
        BY <1>8, ZenonT(40)
    <2>2. QED
        BY <1>9, <1>10, <2>1, ZenonT(20) DEF Silent
<1>14. QED
    BY <1>11, <1>12, <1>13, <1>7, ZenonT(20)

\* The messages a table may carry.
MsgOf(t) == UNION {{DelMsg(k)} \union {SetMsg(k, d) : d \in Data(k)} : k \in {x \in Key : Table(x) = t}}

\* The subscribers carry messages of their tables, the last one of a key the
\* one that CONFIG_DB agrees with.
TableInv ==
    /\ scene \in Scene
    /\ \A k \in DOMAIN rows : k \in Key /\ rows[k] \in Data(k)
    /\ \A t \in Tables : t \in DOMAIN inbox /\ inbox[t] \in Seq(MsgOf(t)) /\ Told(rows, inbox[t])

LEMMA TableIn == ASSUME NEW k PROVE Table(k) \in Tables
BY Zenon DEF Table, Tables

LEMMA DataSome == ASSUME NEW k PROVE Data(k) # {}
BY RowAssumption, ZenonT(40) DEF Data

LEMMA KeyFinite == ASSUME NEW S \in SUBSET Key PROVE IsFiniteSet(S)
<1>1. IsFiniteSet({"asn", "lo", "loip"})
    <2>1. IsFiniteSet({"asn"} \union {"lo"})
        BY FS_AddElement, FS_Singleton, ZenonT(20)
    <2>2. IsFiniteSet(({"asn"} \union {"lo"}) \union {"loip"})
        BY <2>1, FS_AddElement, ZenonT(20)
    <2>3. QED
        BY <2>2, ZenonT(20)
<1>2. IsFiniteSet({"port", "addr", "meta"})
    <2>1. IsFiniteSet({"port"} \union {"addr"})
        BY FS_AddElement, FS_Singleton, ZenonT(20)
    <2>2. IsFiniteSet(({"port"} \union {"addr"}) \union {"meta"})
        BY <2>1, FS_AddElement, ZenonT(20)
    <2>3. QED
        BY <2>2, ZenonT(20)
<1>3. IsFiniteSet({"asn", "lo", "loip"} \union {"port", "addr", "meta"})
    BY <1>1, <1>2, FS_Union, ZenonT(20)
<1>4. IsFiniteSet(Dep)
    BY <1>3, ZenonT(20) DEF Dep
<1>5. IsFiniteSet(Dep \union {"peer"})
    BY <1>4, FS_AddElement, ZenonT(20)
<1>6. IsFiniteSet((Dep \union {"peer"}) \union Route)
    BY <1>5, RowAssumption, FS_Union, ZenonT(20)
<1>7. IsFiniteSet(Key)
    BY <1>6, RowAssumption, FS_Union, ZenonT(20) DEF Key
<1>8. QED
    BY <1>7, FS_Subset, ZenonT(20)

LEMMA MsgIn ==
    ASSUME NEW k \in Key
    PROVE  DelMsg(k) \in MsgOf(Table(k)) /\ \A d \in Data(k) : SetMsg(k, d) \in MsgOf(Table(k))
BY SMTT(20) DEF MsgOf

\* What the subscribers find at a start.
LEMMA TableDump ==
    ASSUME \A k \in DOMAIN rows : k \in Key /\ rows[k] \in Data(k), NEW t \in Tables, NEW box \in Dump(t)
    PROVE  /\ box \in Seq(MsgOf(t)) /\ Told(rows, box)
           /\ \A k \in DOMAIN rows : Table(k) = t => ~Silent(box, k)
<1> DEFINE S == {k \in DOMAIN rows : Table(k) = t}
<1>1. IsFiniteSet(S)
    BY KeyFinite, ZenonT(20)
<1>2. \A k \in DOMAIN rows : Table(k) = t => SetMsg(k, rows[k]) \in MsgOf(t)
    BY MsgIn, ZenonT(20)
<1>3. QED
    BY <1>1, <1>2, ToldDump, ZenonT(20)

LEMMA DumpsOf ==
    ASSUME NEW box \in Dumps, NEW t \in Tables
    PROVE  t \in DOMAIN box /\ box[t] \in Dump(t)
BY Zenon DEF Dumps, Tables

LEMMA TableStart ==
    ASSUME TableInv, Restart, UNCHANGED <<scene, rows>>
    PROVE  TableInv' /\ \A t \in Tables : \A k \in DOMAIN rows : Table(k) = t => ~Silent(inbox'[t], k)
<1>1. \A t \in Tables : t \in DOMAIN inbox' /\ inbox'[t] \in Dump(t)
    BY DumpsOf, ZenonT(20) DEF Restart
<1>2. \A t \in Tables : /\ inbox'[t] \in Seq(MsgOf(t)) /\ Told(rows, inbox'[t])
                        /\ \A k \in DOMAIN rows : Table(k) = t => ~Silent(inbox'[t], k)
    BY <1>1, TableDump, ZenonT(20) DEF TableInv
<1>3. \A t : MsgOf(t)' = MsgOf(t)
    BY ZenonT(60) DEF MsgOf, Data, Opt
<1>4. \A k : Data(k)' = Data(k)
    BY ZenonT(20) DEF Data, Opt
<1>5. TableInv'
    BY <1>1, <1>2, <1>3, <1>4, ZenonT(20) DEF TableInv
<1>6. QED
    BY <1>2, <1>5, Zenon

LEMMA TableInit ==
    ASSUME Init
    PROVE  TableInv /\ \A t \in Tables : \A k \in DOMAIN rows : Table(k) = t => ~Silent(inbox[t], k)
<1>1. \A k \in DOMAIN rows : k \in Key /\ rows[k] \in Data(k)
    <2>1. PICK there \in SUBSET scene.vary : rows = [k \in scene.base \union there |-> CHOOSE d \in Data(k) : TRUE]
        BY Zenon DEF Init
    <2>2. \A k \in scene.base \union there : k \in Key
        BY RowAssumption, ZenonT(20) DEF Init
    <2>3. \A k : (CHOOSE d \in Data(k) : TRUE) \in Data(k)
        BY DataSome, ZenonT(20)
    <2>4. QED
        BY <2>1, <2>2, <2>3, ZenonT(20)
<1>2. \A t \in Tables : t \in DOMAIN inbox /\ inbox[t] \in Dump(t)
    BY DumpsOf, ZenonT(20) DEF Init
<1>3. QED
    BY <1>1, <1>2, TableDump, ZenonT(20) DEF TableInv, Init

\* A handler consumes the head of its table's messages.
LEMMA TableHandled ==
    ASSUME TableInv, NEW k, NEW op, Receive(k, op), Handled(k)
    PROVE  /\ TableInv'
           /\ rows' = rows /\ frr' = frr /\ round'.cur # NoTable
           /\ Head(inbox[Table(k)]).key = k /\ Head(inbox[Table(k)]).op = op
           /\ Head(inbox[Table(k)]) \in MsgOf(Table(k))
           /\ \A t \in Tables : t # Table(k) => inbox'[t] = inbox[t]
           /\ \A x : Silent(inbox'[Table(k)], x) =>
                \/ Silent(inbox[Table(k)], x)
                \/ x = k /\ Says(rows, Head(inbox[Table(k)]))
<1> DEFINE t == Table(k)
           box == inbox[t]
<1>1. t \in Tables /\ t # NoTable
    BY TableIn, TableOf, ZenonT(40)
<1>2. box # <<>> /\ Head(box).key = k /\ Head(box).op = op
    BY ZenonT(20) DEF Receive
<1>3. box \in Seq(MsgOf(t)) /\ Told(rows, box)
    BY <1>1, ZenonT(20) DEF TableInv
<1>4. /\ t \in DOMAIN inbox
      /\ inbox' = [inbox EXCEPT ![t] = Tail(@)]
      /\ round'.cur = t /\ UNCHANGED <<scene, rows, frr>>
    BY <1>1, ZenonT(40) DEF Handled, TableInv
<1> HIDE DEF t
<1>5. DOMAIN inbox' = DOMAIN inbox /\ inbox'[t] = Tail(box) /\ \A u \in DOMAIN inbox : u # t => inbox'[u] = inbox[u]
    BY <1>4, Zenon
<1> HIDE DEF box
<1>6. /\ Tail(box) \in Seq(MsgOf(t)) /\ Head(box) \in MsgOf(t) /\ Told(rows, Tail(box))
      /\ \A x : Silent(Tail(box), x) => Silent(box, x) \/ (x = Head(box).key /\ Says(rows, Head(box)))
    BY <1>2, <1>3, ToldTail, ZenonT(20)
<1>7. \A u : MsgOf(u)' = MsgOf(u)
    BY <1>4, ZenonT(40) DEF MsgOf, Data, Opt
<1>8. \A x : Data(x)' = Data(x)
    BY <1>4, ZenonT(20) DEF Data, Opt
<1>9. TableInv'
    BY <1>4, <1>5, <1>6, <1>7, <1>8, ZenonT(20) DEF TableInv
<1>10. QED
    BY <1>1, <1>2, <1>4, <1>5, <1>6, <1>9, ZenonT(20) DEF t, box, TableInv

\* A change of a row is the last message of its table.
LEMMA TableChange ==
    ASSUME TableInv, NEW k \in Key, SetRow(k) \/ DelRow(k)
    PROVE  /\ TableInv' /\ UNCHANGED daemonVars
           /\ \A x : x # k => /\ x \in DOMAIN rows' <=> x \in DOMAIN rows
                              /\ x \in DOMAIN rows => rows'[x] = rows[x]
           /\ \A t \in Tables : t # Table(k) => inbox'[t] = inbox[t]
           /\ \A x : Silent(inbox'[Table(k)], x) => x # k /\ Silent(inbox[Table(k)], x)
<1> DEFINE t == Table(k)
           box == inbox[t]
<1>1. PICK m \in MsgOf(t) :
        /\ Change(k, m) /\ m.key = k /\ Says(rows', m)
        /\ \A x \in DOMAIN rows' : x \in Key /\ rows'[x] \in Data(x)
        /\ \A x : x # k => /\ x \in DOMAIN rows' <=> x \in DOMAIN rows
                           /\ x \in DOMAIN rows => rows'[x] = rows[x]
    <2>1. ASSUME NEW d \in Data(k), rows' = With(rows, k, d), Change(k, SetMsg(k, d))
          PROVE  /\ SetMsg(k, d) \in MsgOf(t) /\ SetMsg(k, d).key = k /\ Says(rows', SetMsg(k, d))
                 /\ \A x \in DOMAIN rows' : x \in Key /\ rows'[x] \in Data(x)
                 /\ \A x : x # k => /\ x \in DOMAIN rows' <=> x \in DOMAIN rows
                                    /\ x \in DOMAIN rows => rows'[x] = rows[x]
        <3>1. /\ DOMAIN rows' = DOMAIN rows \union {k} /\ rows'[k] = d
              /\ \A x \in DOMAIN rows : x # k => rows'[x] = rows[x]
            BY <2>1, Zenon DEF With
        <3>2. SetMsg(k, d) \in MsgOf(t)
            BY MsgIn, ZenonT(20)
        <3>3. SetMsg(k, d).key = k /\ SetMsg(k, d).op = "SET" /\ SetMsg(k, d).data = d
            BY ZenonT(40) DEF SetMsg
        <3>4. QED
            BY <3>1, <3>2, <3>3, ZenonT(20) DEF Says, TableInv
    <2>2. ASSUME DelRow(k)
          PROVE  /\ Change(k, DelMsg(k)) /\ DelMsg(k) \in MsgOf(t) /\ DelMsg(k).key = k /\ Says(rows', DelMsg(k))
                 /\ \A x \in DOMAIN rows' : x \in Key /\ rows'[x] \in Data(x)
                 /\ \A x : x # k => /\ x \in DOMAIN rows' <=> x \in DOMAIN rows
                                    /\ x \in DOMAIN rows => rows'[x] = rows[x]
        <3>1. DOMAIN rows' = DOMAIN rows \ {k} /\ \A x \in DOMAIN rows' : rows'[x] = rows[x]
            BY <2>2, ZenonT(40) DEF DelRow, Without, Restrict
        <3>2. DelMsg(k) \in MsgOf(t)
            BY MsgIn, ZenonT(20)
        <3>3. DelMsg(k).key = k /\ DelMsg(k).op = "DEL"
            BY Zenon DEF DelMsg
        <3>4. QED
            BY <2>2, <3>1, <3>2, <3>3, ZenonT(20) DEF Says, TableInv, DelRow
    <2>3. CASE SetRow(k)
        BY <2>1, <2>3, ZenonT(20) DEF SetRow
    <2>4. QED
        BY <2>2, <2>3, ZenonT(20)
<1>2. t \in Tables /\ t \in DOMAIN inbox /\ box \in Seq(MsgOf(t)) /\ Told(rows, box)
    BY TableIn, ZenonT(20) DEF TableInv
<1>3. inbox' = [inbox EXCEPT ![t] = Append(@, m)] /\ scene' = scene /\ UNCHANGED daemonVars
    BY <1>1, ZenonT(20) DEF Change
<1> HIDE DEF t
<1>4. DOMAIN inbox' = DOMAIN inbox /\ inbox'[t] = Append(box, m) /\ \A u \in DOMAIN inbox : u # t => inbox'[u] = inbox[u]
    BY <1>2, <1>3, ZenonT(40)
<1> HIDE DEF box
<1>5. /\ Append(box, m) \in Seq(MsgOf(t)) /\ Told(rows', Append(box, m))
      /\ \A x : Silent(Append(box, m), x) => x # m.key /\ Silent(box, x)
    BY <1>1, <1>2, ToldAppend, ZenonT(20)
<1>6. \A u : MsgOf(u)' = MsgOf(u)
    BY <1>3, ZenonT(60) DEF MsgOf, Data, Opt
<1>7. \A x : Data(x)' = Data(x)
    BY <1>3, ZenonT(20) DEF Data, Opt
<1>8. ASSUME NEW u \in Tables, u # t PROVE Told(rows', inbox[u])
    <2>1. inbox[u] \in Seq(MsgOf(u)) /\ Told(rows, inbox[u])
        BY ZenonT(20) DEF TableInv
    <2>2. \A i \in DOMAIN inbox[u] : inbox[u][i].key # k
        <3> SUFFICES ASSUME NEW i \in DOMAIN inbox[u] PROVE inbox[u][i].key # k
            BY Zenon
        <3>1. inbox[u][i] \in MsgOf(u)
            BY <2>1, SMTT(20)
        <3>2. PICK x \in Key : Table(x) = u /\ (inbox[u][i] = DelMsg(x) \/ \E d \in Data(x) : inbox[u][i] = SetMsg(x, d))
            BY <3>1, ZenonT(20) DEF MsgOf
        <3>3. inbox[u][i].key = x
            <4>1. DelMsg(x).key = x /\ \A d : SetMsg(x, d).key = x
                BY ZenonT(40) DEF DelMsg, SetMsg
            <4>2. QED
                BY <3>2, <4>1, ZenonT(20)
        <3>4. QED
            BY <1>8, <3>2, <3>3, ZenonT(20) DEF t
    <2>3. QED
        BY <1>1, <2>1, <2>2, ZenonT(20) DEF Told, Says
<1>9. TableInv'
    BY <1>1, <1>3, <1>4, <1>5, <1>6, <1>7, <1>8, ZenonT(20) DEF TableInv
<1>10. QED
    BY <1>1, <1>3, <1>4, <1>5, <1>9, ZenonT(20) DEF t, box, TableInv

\* The data of a SET message are data that a row of its key may hold.
LEMMA ReceivedIn ==
    ASSUME TableInv, NEW k \in Key, Receive(k, "SET"), Handled(k)
    PROVE  Received(k) \in Data(k)
<1> DEFINE m == Head(inbox[Table(k)])
<1>1. m \in MsgOf(Table(k)) /\ m.key = k /\ m.op = "SET"
    BY TableHandled, ZenonT(20)
<1>2. PICK x \in Key : m = DelMsg(x) \/ \E d \in Data(x) : m = SetMsg(x, d)
    BY <1>1, ZenonT(20) DEF MsgOf
<1>3. DelMsg(x).op = "DEL" /\ \A d : SetMsg(x, d).key = x /\ SetMsg(x, d).data = d
    BY Zenon DEF DelMsg, SetMsg
<1>4. m.data \in Data(k)
    BY <1>1, <1>2, <1>3, ZenonT(40)
<1>5. QED
    BY <1>4, Zenon DEF Received

LEMMA TableNext == TableInv /\ [Next]_vars => TableInv'
<1> SUFFICES ASSUME TableInv, [Next]_vars PROVE TableInv'
    BY Zenon
<1>1. CASE UNCHANGED <<scene, rows, inbox>>
    <2>1. (\A t : MsgOf(t)' = MsgOf(t)) /\ (\A k : Data(k)' = Data(k))
        BY <1>1, ZenonT(60) DEF MsgOf, Data, Opt
    <2>2. QED
        BY <1>1, <2>1, ZenonT(20) DEF TableInv
<1>2. CASE Restart /\ UNCHANGED <<scene, rows, events>>
    BY <1>2, TableStart, ZenonT(20)
<1>3. ASSUME NEW k, NEW op, Receive(k, op), Handled(k) PROVE TableInv'
    BY <1>3, TableHandled, ZenonT(20)
<1>4. ASSUME NEW k \in Key, SetRow(k) \/ DelRow(k) PROVE TableInv'
    BY <1>4, TableChange, ZenonT(20)
<1>5. CASE SetPeer \/ DelPeer
    BY <1>2, <1>3, <1>5, ZenonT(20) DEF SetPeer, DelPeer
<1>6. ASSUME NEW k \in Dep, SetDep(k) \/ DelDep(k) PROVE TableInv'
    BY <1>3, <1>6, ZenonT(20) DEF SetDep, DelDep
<1>7. ASSUME NEW r \in Route, SetRoute(r) \/ DelRoute(r) PROVE TableInv'
    BY <1>3, <1>7, ZenonT(20) DEF SetRoute, DelRoute
<1>8. ASSUME NEW c \in Comm, SetList(c) \/ DelList(c) PROVE TableInv'
    BY <1>2, <1>3, <1>8, ZenonT(20) DEF SetList, DelList
<1>9. CASE Commit
    BY <1>1, <1>9, ZenonT(20) DEF Commit
<1>10. CASE UNCHANGED vars
    BY <1>1, <1>10, ZenonT(20) DEF vars
<1>11. QED
    BY <1>4, <1>5, <1>6, <1>7, <1>8, <1>9, <1>10, ZenonT(20) DEF Next, Daemon
-----------------------------------------------------------------------------
(* The static routes *)

LEMMA TableRoute == ASSUME NEW k PROVE Table(k) = "STATIC_ROUTE" <=> k \in Route
BY KeyAssumption, ZenonT(40) DEF Table, Dep

\* The messages of STATIC_ROUTE not popped yet.
RBox == inbox["STATIC_ROUTE"]

RouteShape ==
    /\ "route" \in DOMAIN staged /\ DOMAIN staged.route = Route
    /\ "route" \in DOMAIN frr /\ DOMAIN frr.route = Route

\* What is scheduled is what the manager remembers.
Mirror == ~past.lost => \A r \in Route : staged.route[r] = NextHops(r)

\* Once its messages are handled, the manager remembers the next hops of a row.
RouteDone ==
    \A r \in Route : Silent(RBox, r) =>
      /\ r \in DOMAIN rows /\ BadHop \notin rows[r] => NextHops(r) = rows[r]
      /\ r \notin DOMAIN rows => NextHops(r) = {}

RouteKept == RouteShape /\ Mirror /\ RouteDone

GInv == Inv /\ TableInv /\ RouteKept

LEMMA GStart == ASSUME TableInv, Restart, UNCHANGED <<scene, rows>> PROVE RouteKept'
<1>1. \A r \in Route : NextHops(r)' = {}
    BY NoRoutes, ZenonT(20) DEF NextHops, Restart
<1>2. \A r \in Route : r \in DOMAIN rows => ~Silent(RBox', r)
    BY TableStart, TableRoute, ZenonT(20) DEF RBox, Tables
<1>3. RouteShape' /\ Mirror'
    BY <1>1, ZenonT(40) DEF RouteShape, Mirror, Restart, NoConfig
<1>4. RouteDone'
    BY <1>1, <1>2, ZenonT(20) DEF RouteDone
<1>5. QED
    BY <1>3, <1>4, ZenonT(40) DEF RouteKept

LEMMA GInit == Init => GInv
<1> SUFFICES ASSUME Init PROVE GInv
    BY Zenon
<1>1. \A r \in Route : NextHops(r) = {}
    BY NoRoutes, ZenonT(20) DEF NextHops, Init
<1>2. \A r \in Route : r \in DOMAIN rows => ~Silent(RBox, r)
    BY TableInit, TableRoute, ZenonT(20) DEF RBox, Tables
<1>3. RouteShape /\ Mirror
    BY <1>1, ZenonT(40) DEF RouteShape, Mirror, Init, NoConfig
<1>4. RouteDone
    BY <1>1, <1>2, ZenonT(20) DEF RouteDone
<1>5. QED
    BY <1>3, <1>4, InitInv, TableInit, ZenonT(40) DEF RouteKept, GInv

\* A step of the other managers.
LEMMA GSame ==
    ASSUME RouteKept, routes' = routes, RBox' = RBox, rows' = rows,
           "route" \in DOMAIN staged', staged'.route = staged.route, frr' = frr, past'.lost = past.lost
    PROVE  RouteKept'
<1>1. \A r : NextHops(r)' = NextHops(r)
    BY ZenonT(20) DEF NextHops
<1>2. RouteShape' /\ Mirror'
    BY <1>1, ZenonT(40) DEF RouteKept, RouteShape, Mirror
<1>3. RouteDone'
    BY <1>1, ZenonT(20) DEF RouteKept, RouteDone
<1>4. QED
    BY <1>2, <1>3, ZenonT(40) DEF RouteKept

\* A handler of another table.
LEMMA GOther ==
    ASSUME GInv, NEW k, NEW op, Receive(k, op), Handled(k), k \notin Route, routes' = routes,
           "route" \in DOMAIN staged', staged'.route = staged.route, past'.lost = past.lost
    PROVE  RouteKept'
<1>1. RBox' = RBox /\ rows' = rows /\ frr' = frr
    BY TableHandled, TableRoute, ZenonT(20) DEF GInv, RBox, Tables
<1>2. QED
    BY <1>1, GSame, ZenonT(20) DEF GInv

\* What TryPeer leaves alone.
LEMMA GTry ==
    ASSUME NEW d, NEW cfg, NEW kept, NEW q, TryPeer(d, cfg, kept, q), NEW f, f # "peer", f \in DOMAIN cfg, Shape
    PROVE  f \in DOMAIN staged' /\ staged'[f] = cfg[f] /\ past'.lost = past.lost /\ past'.stale = past.stale
<1>1. staged' = cfg \/ \E a : staged' = [cfg EXCEPT !.peer = a]
    BY Zenon DEF TryPeer
<1>2. past' = past \/ \E b \in BOOLEAN : past' = [past EXCEPT !.ignored = b]
    BY ZenonT(20) DEF TryPeer, Shape
<1>3. f \in DOMAIN staged' /\ staged'[f] = cfg[f]
    BY <1>1, ZenonT(40)
<1>4. past'.lost = past.lost /\ past'.stale = past.stale
    BY <1>2, ZenonT(40) DEF Shape
<1>5. QED
    BY <1>3, <1>4, ZenonT(40)

LEMMA GPeer == ASSUME GInv, SetPeer \/ DelPeer PROVE RouteKept'
<1>1. "peer" \notin Route
    BY KeyAssumption, ZenonT(40)
<1>2. CASE SetPeer
    <2>1. /\ TryPeer(dir, staged, peer.queue, <<Received("peer")>>) /\ Handled("peer") /\ Receive("peer", "SET")
          /\ routes' = routes
        BY <1>2, ZenonT(40) DEF SetPeer
    <2>2. "route" \in DOMAIN staged' /\ staged'["route"] = staged["route"] /\ past'.lost = past.lost
        BY <2>1, GTry, SMTT(20) DEF GInv, Inv, RouteKept, RouteShape
    <2>3. QED
        BY <1>1, <2>1, <2>2, GOther, ZenonT(20)
<1>3. CASE DelPeer /\ peer.known /\ "asn" \notin dir
    BY <1>3, GStart, ZenonT(40) DEF DelPeer, GInv
<1>4. CASE DelPeer /\ ~(peer.known /\ "asn" \notin dir)
    <2>1. /\ Handled("peer") /\ Receive("peer", "DEL") /\ routes' = routes
          /\ staged' = IF peer.known THEN [staged EXCEPT !.peer = "none"] ELSE staged
          /\ past' = [past EXCEPT !.orphan = @ \/ peer.queue # <<>>]
        BY <1>4, ZenonT(40) DEF DelPeer
    <2>2. "route" \in DOMAIN staged' /\ staged'.route = staged.route
        BY <2>1, ZenonT(40) DEF GInv, RouteKept, RouteShape
    <2>3. past'.lost = past.lost
        BY <2>1, ZenonT(20) DEF GInv, Inv, Shape
    <2>4. QED
        BY <1>1, <2>1, <2>2, <2>3, GOther, ZenonT(20)
<1>5. QED
    BY <1>2, <1>3, <1>4, ZenonT(40)

LEMMA GDep == ASSUME GInv, NEW k \in Dep, SetDep(k) \/ DelDep(k) PROVE RouteKept'
<1>1. k \notin Route
    BY KeyAssumption, ZenonT(40)
<1>2. CASE SetDep(k)
    <2> DEFINE cfg == OnAsn(k)
               d == dir'
               none == <<>>
    <2>1. TryPeer(d, cfg, none, peer.queue) /\ Handled(k) /\ Receive(k, "SET") /\ routes' = routes
        BY <1>2, ZenonT(40) DEF SetDep
    <2>2. "route" \in DOMAIN cfg /\ cfg.route = staged.route
        BY Zenon DEF OnAsn, GInv, RouteKept, RouteShape
    <2> HIDE DEF cfg, d, none
    <2>3. "route" \in DOMAIN staged' /\ staged'["route"] = cfg["route"] /\ past'.lost = past.lost
        BY <2>1, <2>2, GTry, SMTT(60) DEF GInv, Inv
    <2>4. QED
        BY <1>1, <2>1, <2>2, <2>3, GOther, ZenonT(20)
<1>3. CASE DelDep(k)
    <2>1. Handled(k) /\ Receive(k, "DEL") /\ routes' = routes /\ staged' = staged /\ past' = [past EXCEPT !.noasn = @ \/ k = "asn"]
        BY <1>3, Zenon DEF DelDep
    <2>2. past'.lost = past.lost
        BY <2>1, ZenonT(20) DEF GInv, Inv, Shape
    <2>3. QED
        BY <1>1, <2>1, <2>2, GOther, ZenonT(20) DEF GInv, RouteKept, RouteShape
<1>4. QED
    BY <1>2, <1>3, ZenonT(40)

LEMMA GList == ASSUME GInv, NEW c \in Comm, SetList(c) \/ DelList(c) PROVE RouteKept'
<1>1. CASE Restart /\ UNCHANGED <<scene, rows, events>>
    BY <1>1, GStart, ZenonT(40) DEF GInv
<1>2. CASE ~(Restart /\ UNCHANGED <<scene, rows, events>>)
    <2>1. c \notin Route
        BY KeyAssumption, ZenonT(40)
    <2>2. Handled(c) /\ (Receive(c, "SET") \/ Receive(c, "DEL")) /\ routes' = routes /\ past' = [past EXCEPT !.stale = @ \/ Unseen]
        BY <1>2, ZenonT(40) DEF SetList, DelList
    <2>3. "route" \in DOMAIN staged' /\ staged'.route = staged.route
        BY <1>2, ZenonT(20) DEF SetList, DelList, GInv, RouteKept, RouteShape
    <2>4. past'.lost = past.lost
        BY <2>2, ZenonT(20) DEF GInv, Inv, Shape
    <2>5. QED
        BY <2>1, <2>2, <2>3, <2>4, GOther, ZenonT(20)
<1>3. QED
    BY <1>1, <1>2, ZenonT(40)

LEMMA GCommit == ASSUME GInv, Commit PROVE RouteKept'
<1>1. /\ rows' = rows /\ inbox' = inbox /\ routes' = routes /\ frr' = staged'
      /\ \/ staged' = staged /\ past' = past
         \/ staged' = frr /\ past' = [past EXCEPT !.lost = TRUE]
    BY Zenon DEF Commit
<1>2. \A r : NextHops(r)' = NextHops(r)
    BY <1>1, ZenonT(20) DEF NextHops
<1>3. past' = past \/ past'.lost
    BY <1>1, ZenonT(20) DEF GInv, Inv, Shape
<1>4. RouteShape'
    BY <1>1, ZenonT(20) DEF GInv, RouteKept, RouteShape
<1>5. Mirror'
    BY <1>1, <1>2, <1>3, ZenonT(20) DEF GInv, RouteKept, Mirror, Inv, Shape
<1>6. RouteDone'
    BY <1>1, <1>2, ZenonT(20) DEF GInv, RouteKept, RouteDone, RBox
<1>7. QED
    BY <1>4, <1>5, <1>6, ZenonT(40) DEF RouteKept

\* What the commands of a handler leave of the route, when the manager's
\* memory was right.
LEMMA RerouteIs ==
    ASSUME NEW r \in Route, NEW hops, RouteShape, staged.route[r] = NextHops(r)
    PROVE  Reroute(r, hops)[r] = hops
BY Zenon DEF Reroute, RouteShape

LEMMA RerouteOthers ==
    ASSUME NEW r \in Route, NEW hops, RouteShape
    PROVE  DOMAIN Reroute(r, hops) = Route /\ \A x \in Route : x # r => Reroute(r, hops)[x] = staged.route[x]
BY Zenon DEF Reroute, RouteShape

\* A message on a route is handled: the manager remembers hops for it.
LEMMA GRoute ==
    ASSUME GInv, NEW r \in Route, NEW op, Receive(r, op), Handled(r), past' = past, NEW hops,
           "route" \in DOMAIN staged', staged'.route = Reroute(r, hops),
           NextHops(r)' = hops, \A x \in Route : x # r => NextHops(x)' = NextHops(x),
           op = "SET" => hops = Head(RBox).data,
           op # "SET" => hops = {}
    PROVE  RouteKept'
<1>1. Table(r) = "STATIC_ROUTE"
    BY TableRoute, ZenonT(40)
<1>2. /\ rows' = rows /\ frr' = frr
      /\ Head(RBox).op = op
      /\ \A x : Silent(RBox', x) => Silent(RBox, x) \/ (x = r /\ Says(rows, Head(RBox)))
      /\ Head(RBox).key = r
    <2>1. /\ rows' = rows /\ frr' = frr
          /\ Head(inbox[Table(r)]).op = op /\ Head(inbox[Table(r)]).key = r
          /\ \A x : Silent(inbox'[Table(r)], x) => Silent(inbox[Table(r)], x) \/ (x = r /\ Says(rows, Head(inbox[Table(r)])))
        BY TableHandled, ZenonT(20) DEF GInv
    <2>2. QED
        BY <1>1, <2>1, ZenonT(20) DEF RBox
<1>3. RouteShape'
    BY <1>2, RerouteOthers, ZenonT(20) DEF GInv, RouteKept, RouteShape
<1>4. Mirror'
    <2> SUFFICES ASSUME ~past.lost, NEW x \in Route PROVE staged'.route[x] = NextHops(x)'
        BY ZenonT(20) DEF Mirror
    <2>1. staged.route[x] = NextHops(x) /\ staged.route[r] = NextHops(r) /\ RouteShape
        BY ZenonT(20) DEF GInv, RouteKept, Mirror
    <2>2. CASE x = r
        BY <2>1, <2>2, RerouteIs, ZenonT(20)
    <2>3. CASE x # r
        <3>1. Reroute(r, hops)[x] = staged.route[x]
            BY <2>1, <2>3, RerouteOthers, ZenonT(20)
        <3>2. QED
            BY <2>1, <2>3, <3>1, ZenonT(20)
    <2>4. QED
        BY <2>2, <2>3, ZenonT(40)
<1>5. RouteDone'
    <2> SUFFICES ASSUME NEW x \in Route, Silent(RBox', x)
                 PROVE  /\ x \in DOMAIN rows /\ BadHop \notin rows[x] => NextHops(x)' = rows[x]
                        /\ x \notin DOMAIN rows => NextHops(x)' = {}
        BY <1>2, ZenonT(20) DEF RouteDone
    <2>1. CASE x # r
        BY <1>2, <2>1, ZenonT(20) DEF GInv, RouteKept, RouteDone
    <2>2. CASE x = r
        <3>1. Says(rows, Head(RBox)) \/ Silent(RBox, r)
            BY <1>2, <2>2, ZenonT(20)
        <3>2. ~Silent(RBox, r)
            <4>1. RBox # <<>> /\ RBox \in Seq(MsgOf("STATIC_ROUTE"))
                BY <1>1, ZenonT(20) DEF Receive, RBox, GInv, TableInv, Tables
            <4>2. 1 \in DOMAIN RBox /\ Head(RBox) = RBox[1]
                BY <4>1, SMTT(20)
            <4>3. QED
                BY <1>2, <4>2, ZenonT(20) DEF Silent
        <3>3. QED
            BY <1>2, <2>2, <3>1, <3>2, ZenonT(20) DEF Says
    <2>3. QED
        BY <2>1, <2>2, Zenon
<1>6. QED
    BY <1>3, <1>4, <1>5, ZenonT(40) DEF RouteKept

LEMMA GSetRoute == ASSUME GInv, NEW r \in Route, SetRoute(r) PROVE RouteKept'
<1> DEFINE hops == Received(r)
<1>1. Handled(r) /\ Receive(r, "SET") /\ past' = past
    BY Zenon DEF SetRoute
<1>2. Table(r) = "STATIC_ROUTE" /\ hops = Head(RBox).data
    BY TableRoute, ZenonT(20) DEF Received, RBox
<1>3. CASE BadHop \in hops
    <2>1. staged' = staged /\ routes' = routes
        BY <1>3, ZenonT(20) DEF SetRoute
    <2>2. /\ rows' = rows /\ frr' = frr /\ Head(RBox).op = "SET" /\ Head(RBox).key = r
          /\ \A x : Silent(RBox', x) => Silent(RBox, x) \/ (x = r /\ Says(rows, Head(RBox)))
        BY <1>1, <1>2, TableHandled, ZenonT(20) DEF GInv, RBox
    <2>3. \A x : NextHops(x)' = NextHops(x)
        BY <2>1, ZenonT(20) DEF NextHops
    <2>4. RouteDone'
        BY <1>2, <1>3, <2>2, <2>3, ZenonT(20) DEF GInv, RouteKept, RouteDone, Says
    <2>5. RouteShape' /\ Mirror'
        BY <1>1, <2>1, <2>2, <2>3, ZenonT(20) DEF GInv, RouteKept, RouteShape, Mirror
    <2>6. QED
        BY <2>4, <2>5, Zenon DEF RouteKept
<1>4. CASE BadHop \notin hops
    <2>1. /\ staged' = [staged EXCEPT !.route = Reroute(r, hops), !.redist = @ \/ (routes = <<>> /\ "asn" \in dir)]
          /\ routes' = With(routes, r, hops)
        BY <1>4, ZenonT(20) DEF SetRoute
    <2> HIDE DEF hops
    <2>2. "route" \in DOMAIN staged' /\ staged'.route = Reroute(r, hops)
        BY <2>1, ZenonT(40) DEF GInv, RouteKept, RouteShape
    <2>3. NextHops(r)' = hops /\ \A x \in Route : x # r => NextHops(x)' = NextHops(x)
        BY <2>1, ZenonT(40) DEF NextHops, With
    <2>4. QED
        BY <1>1, <1>2, <2>2, <2>3, GRoute, ZenonT(20)
<1>5. QED
    BY <1>3, <1>4, Zenon

LEMMA GDelRoute == ASSUME GInv, NEW r \in Route, DelRoute(r) PROVE RouteKept'
<1> DEFINE hops == {}
<1>1. /\ Handled(r) /\ Receive(r, "DEL") /\ past' = past
      /\ staged' = [staged EXCEPT !.route = Reroute(r, hops), !.redist = @ /\ ~(DOMAIN routes = {r} /\ "asn" \in dir)]
      /\ routes' = Without(routes, {r})
    BY ZenonT(20) DEF DelRoute
<1>2. "route" \in DOMAIN staged' /\ staged'.route = Reroute(r, hops)
    <2> HIDE DEF hops
    <2>1. QED
        BY <1>1, Zenon DEF GInv, RouteKept, RouteShape
<1>3. NextHops(r)' = hops /\ \A x \in Route : x # r => NextHops(x)' = NextHops(x)
    BY <1>1, Zenon DEF NextHops, Without, Restrict
<1>4. "DEL" # "SET" /\ hops = {}
    BY Zenon
<1> HIDE DEF hops
<1>5. QED
    BY <1>1, <1>2, <1>3, <1>4, GRoute, ZenonT(20)

LEMMA GRow == ASSUME GInv, NEW k \in Key, SetRow(k) \/ DelRow(k) PROVE RouteKept'
<1>1. /\ UNCHANGED daemonVars
      /\ \A x : x # k => /\ x \in DOMAIN rows' <=> x \in DOMAIN rows
                         /\ x \in DOMAIN rows => rows'[x] = rows[x]
      /\ \A t \in Tables : t # Table(k) => inbox'[t] = inbox[t]
      /\ \A x : Silent(inbox'[Table(k)], x) => x # k /\ Silent(inbox[Table(k)], x)
    BY TableChange, ZenonT(20) DEF GInv
<1>2. routes' = routes /\ staged' = staged /\ frr' = frr /\ past' = past
    BY <1>1, ZenonT(40) DEF daemonVars
<1>3. \A x : NextHops(x)' = NextHops(x)
    BY <1>2, ZenonT(20) DEF NextHops
<1>4. RouteShape' /\ Mirror'
    BY <1>2, <1>3, ZenonT(20) DEF GInv, RouteKept, RouteShape, Mirror
<1>5. \A x \in Route : Silent(RBox', x) => x # k /\ Silent(RBox, x)
    BY <1>1, TableRoute, ZenonT(20) DEF RBox, Tables
<1>6. RouteDone'
    BY <1>1, <1>3, <1>5, ZenonT(20) DEF GInv, RouteKept, RouteDone
<1>7. QED
    BY <1>4, <1>6, ZenonT(40) DEF RouteKept

LEMMA GNext == GInv /\ [Next]_vars => GInv'
<1> SUFFICES ASSUME GInv, [Next]_vars PROVE GInv'
    BY Zenon
<1>1. Inv' /\ TableInv'
    BY NextInv, TableNext, ZenonT(40) DEF GInv
<1>2. CASE UNCHANGED vars
    <2>1. routes' = routes /\ RBox' = RBox /\ rows' = rows /\ staged' = staged /\ frr' = frr /\ past' = past
        BY <1>2, ZenonT(40) DEF vars, RBox
    <2>2. QED
        BY <1>1, <2>1, GSame, ZenonT(20) DEF GInv, RouteKept, RouteShape
<1>3. CASE Next
    <2>1. RouteKept'
        BY <1>3, GPeer, GDep, GList, GCommit, GSetRoute, GDelRoute, GRow, ZenonT(20) DEF Next, Daemon
    <2>2. QED
        BY <1>1, <2>1, ZenonT(40) DEF GInv
<1>4. QED
    BY <1>2, <1>3, Zenon

\* When the daemon is idle FRR has the next hops of every valid row of
\* STATIC_ROUTE and of no other, however the rows changed before and however
\* many of their messages were handled in one round, unless a commit failed
\* (set_handler, del_handler, static_route_commands).
THEOREM RoutesAgreeHolds == Spec => []RoutesAgree
<1>1. GInv => RoutesAgree
    <2> SUFFICES ASSUME GInv, Idle, ~past.lost, NEW r \in Route
                 PROVE  /\ r \in DOMAIN rows /\ BadHop \notin rows[r] => frr.route[r] = rows[r]
                        /\ r \notin DOMAIN rows => frr.route[r] = {}
        BY ZenonT(20) DEF RoutesAgree, Configured
    <2>1. RBox = <<>> /\ round.cur = NoTable
        BY Zenon DEF Idle, RBox, Tables
    <2>2. Silent(RBox, r)
        BY <2>1, NoRoutes, ZenonT(20) DEF Silent
    <2>3. frr = staged
        BY <2>1, ZenonT(20) DEF GInv, Inv, Committed
    <2>4. QED
        BY <2>2, <2>3, ZenonT(20) DEF GInv, RouteKept, RouteDone, Mirror
<1>2. QED
    BY <1>1, GInit, GNext, PTL DEF Spec
-----------------------------------------------------------------------------
(* The allow list *)

LEMMA TableComm ==
    /\ \A k \in Key : Table(k) = "BGP_ALLOWED_PREFIXES" <=> k \in Comm
    /\ \A c \in Comm : c \in Key /\ Data(c) = ListRow
<1>1. \A k \in Key : Table(k) = "BGP_ALLOWED_PREFIXES" <=> k \in Comm
    BY KeyAssumption, ZenonT(40) DEF Table, Dep, Key
<1>2. \A c \in Comm : c \in Key /\ Data(c) = ListRow
    BY KeyAssumption, Zenon DEF Dep, Key, Data
<1>3. QED
    BY <1>1, <1>2, ZenonT(40)

\* The messages of BGP_ALLOWED_PREFIXES not popped yet.
LBox == inbox["BGP_ALLOWED_PREFIXES"]

ListShape == {"lists", "map"} \subseteq DOMAIN staged /\ {"lists", "map"} \subseteq DOMAIN frr

\* No community has two route-map entries.
OneEntry == ~past.lost /\ ~past.stale => \A c \in Comm : \A m, n \in Entries(staged.map, c) : m = n

\* Configuration cfg has what the row of c asks for.
Covered(cfg, c) ==
    /\ c \in DOMAIN rows => /\ c \in DOMAIN cfg.lists /\ Range(rows[c]) \subseteq Range(cfg.lists[c])
                            /\ Entries(cfg.map, c) # {}
    /\ c \notin DOMAIN rows => c \notin DOMAIN cfg.lists /\ Entries(cfg.map, c) = {}

\* Once its messages are handled, what is scheduled covers a row.
ListDone == ~past.lost /\ ~past.stale => \A c \in Comm : Silent(LBox, c) => Covered(staged, c)

ListKept == ListShape /\ OneEntry /\ ListDone

AInv == Inv /\ TableInv /\ ListKept

LEMMA NoEntries == ASSUME NEW c PROVE c \notin DOMAIN <<>> /\ Entries(<<>>, c) = {}
<1>1. DOMAIN <<>> = {}
    BY NoRoutes, ZenonT(40)
<1>2. QED
    BY <1>1, ZenonT(20) DEF Entries

LEMMA AStart == ASSUME TableInv, Restart, UNCHANGED <<scene, rows>> PROVE ListKept'
<1>1. staged' = NoConfig /\ frr' = NoConfig
    BY Zenon DEF Restart
<1>2. ListShape' /\ staged'.lists = <<>> /\ staged'.map = <<>>
    BY <1>1, ZenonT(40) DEF ListShape, NoConfig
<1>3. \A c \in Comm : c \in DOMAIN rows => ~Silent(LBox', c)
    BY TableStart, TableComm, ZenonT(20) DEF LBox, Tables
<1>4. \A c \in Comm : c \notin DOMAIN staged'.lists /\ Entries(staged'.map, c) = {}
    BY <1>2, NoEntries, ZenonT(20)
<1>5. OneEntry'
    BY <1>4, ZenonT(20) DEF OneEntry
<1>6. ListDone'
    BY <1>3, <1>4, ZenonT(20) DEF ListDone, Covered
<1>7. QED
    BY <1>2, <1>5, <1>6, ZenonT(40) DEF ListKept

LEMMA AInit == Init => AInv
<1> SUFFICES ASSUME Init PROVE AInv
    BY Zenon
<1>1. staged = NoConfig /\ frr = NoConfig
    BY Zenon DEF Init
<1>2. ListShape /\ staged.lists = <<>> /\ staged.map = <<>>
    BY <1>1, ZenonT(40) DEF ListShape, NoConfig
<1>3. \A c \in Comm : c \in DOMAIN rows => ~Silent(LBox, c)
    BY TableInit, TableComm, ZenonT(20) DEF LBox, Tables
<1>4. \A c \in Comm : c \notin DOMAIN staged.lists /\ Entries(staged.map, c) = {}
    BY <1>2, NoEntries, ZenonT(20)
<1>5. OneEntry
    BY <1>4, ZenonT(20) DEF OneEntry
<1>6. ListDone
    BY <1>3, <1>4, ZenonT(20) DEF ListDone, Covered
<1>7. QED
    BY <1>2, <1>5, <1>6, InitInv, TableInit, ZenonT(40) DEF ListKept, AInv

\* A step that leaves the allow list and its messages alone.
LEMMA ASame ==
    ASSUME ListKept, LBox' = LBox, rows' = rows, ListShape',
           staged'.lists = staged.lists, staged'.map = staged.map,
           past'.lost = past.lost, past'.stale = past.stale
    PROVE  ListKept'
<1>1. OneEntry'
    BY ZenonT(20) DEF ListKept, OneEntry
<1>2. ListDone'
    BY ZenonT(20) DEF ListKept, ListDone, Covered
<1>3. QED
    BY <1>1, <1>2, ZenonT(40) DEF ListKept

\* A handler of another table.
LEMMA AOther ==
    ASSUME AInv, NEW k \in Key, NEW op, Receive(k, op), Handled(k), k \notin Comm,
           "lists" \in DOMAIN staged', "map" \in DOMAIN staged',
           staged'.lists = staged.lists, staged'.map = staged.map,
           past'.lost = past.lost, past'.stale = past.stale
    PROVE  ListKept'
<1>1. LBox' = LBox /\ rows' = rows /\ frr' = frr
    BY TableHandled, TableComm, ZenonT(20) DEF AInv, LBox, Tables
<1>2. ListShape'
    BY <1>1, ZenonT(40) DEF AInv, ListKept, ListShape
<1>3. QED
    BY <1>1, <1>2, ASame, ZenonT(20) DEF AInv

LEMMA APeer == ASSUME AInv, SetPeer \/ DelPeer PROVE ListKept'
<1>1. "peer" \in Key /\ "peer" \notin Comm /\ "lists" \in DOMAIN staged /\ "map" \in DOMAIN staged
    BY KeyAssumption, ZenonT(40) DEF Key, AInv, ListKept, ListShape
<1>2. CASE SetPeer
    <2> DEFINE q == <<Received("peer")>>
    <2>1. TryPeer(dir, staged, peer.queue, q) /\ Handled("peer") /\ Receive("peer", "SET")
        BY <1>2, ZenonT(40) DEF SetPeer
    <2> HIDE DEF q
    <2>2. "lists" \in DOMAIN staged' /\ staged'["lists"] = staged["lists"] /\ past'.lost = past.lost /\ past'.stale = past.stale
        BY <1>1, <2>1, GTry, SMTT(20) DEF AInv, Inv
    <2>3. "map" \in DOMAIN staged' /\ staged'["map"] = staged["map"]
        BY <1>1, <2>1, GTry, ZenonT(40) DEF AInv, Inv
    <2>4. QED
        BY <1>1, <2>1, <2>2, <2>3, AOther, ZenonT(20)
<1>3. CASE DelPeer /\ peer.known /\ "asn" \notin dir
    BY <1>3, AStart, Zenon DEF DelPeer, AInv
<1>4. CASE DelPeer /\ ~(peer.known /\ "asn" \notin dir)
    <2>1. /\ Handled("peer") /\ Receive("peer", "DEL")
          /\ staged' = IF peer.known THEN [staged EXCEPT !.peer = "none"] ELSE staged
          /\ past' = [past EXCEPT !.orphan = @ \/ peer.queue # <<>>]
        BY <1>4, ZenonT(40) DEF DelPeer
    <2>2. "lists" \in DOMAIN staged' /\ "map" \in DOMAIN staged' /\ staged'.lists = staged.lists /\ staged'.map = staged.map
        BY <1>1, <2>1, ZenonT(40)
    <2>3. past'.lost = past.lost /\ past'.stale = past.stale
        BY <2>1, ZenonT(20) DEF AInv, Inv, Shape
    <2>4. QED
        BY <1>1, <2>1, <2>2, <2>3, AOther, ZenonT(20)
<1>5. QED
    BY <1>2, <1>3, <1>4, Zenon

LEMMA ADep == ASSUME AInv, NEW k \in Dep, SetDep(k) \/ DelDep(k) PROVE ListKept'
<1>1. k \in Key /\ k \notin Comm /\ "lists" \in DOMAIN staged /\ "map" \in DOMAIN staged
    BY KeyAssumption, Zenon DEF Key, AInv, ListKept, ListShape
<1>2. CASE SetDep(k)
    <2> DEFINE cfg == OnAsn(k)
               d == dir'
               none == <<>>
    <2>1. TryPeer(d, cfg, none, peer.queue) /\ Handled(k) /\ Receive(k, "SET")
        BY <1>2, ZenonT(40) DEF SetDep
    <2>2. "lists" \in DOMAIN cfg /\ "map" \in DOMAIN cfg /\ cfg.lists = staged.lists /\ cfg.map = staged.map
        BY <1>1, Zenon DEF OnAsn
    <2> HIDE DEF cfg, d, none
    <2>3. "lists" \in DOMAIN staged' /\ staged'["lists"] = cfg["lists"] /\ past'.lost = past.lost /\ past'.stale = past.stale
        BY <2>1, <2>2, GTry, ZenonT(40) DEF AInv, Inv
    <2>4. "map" \in DOMAIN staged' /\ staged'["map"] = cfg["map"]
        BY <2>1, <2>2, GTry, ZenonT(40) DEF AInv, Inv
    <2>5. QED
        BY <1>1, <2>1, <2>2, <2>3, <2>4, AOther, ZenonT(20)
<1>3. CASE DelDep(k)
    <2>1. Handled(k) /\ Receive(k, "DEL") /\ staged' = staged /\ past' = [past EXCEPT !.noasn = @ \/ k = "asn"]
        BY <1>3, ZenonT(40) DEF DelDep
    <2>2. past'.lost = past.lost /\ past'.stale = past.stale
        BY <2>1, ZenonT(20) DEF AInv, Inv, Shape
    <2>3. QED
        BY <1>1, <2>1, <2>2, AOther, ZenonT(20)
<1>4. QED
    BY <1>2, <1>3, Zenon

LEMMA ARoute == ASSUME AInv, NEW r \in Route, SetRoute(r) \/ DelRoute(r) PROVE ListKept'
<1>1. r \in Key /\ r \notin Comm /\ "lists" \in DOMAIN staged /\ "map" \in DOMAIN staged
    BY KeyAssumption, ZenonT(40) DEF Key, AInv, ListKept, ListShape
<1>2. Handled(r) /\ (Receive(r, "SET") \/ Receive(r, "DEL")) /\ past' = past
    BY ZenonT(40) DEF SetRoute, DelRoute
<1>3. "lists" \in DOMAIN staged' /\ "map" \in DOMAIN staged' /\ staged'.lists = staged.lists /\ staged'.map = staged.map
    BY <1>1, ZenonT(20) DEF SetRoute, DelRoute
<1>4. QED
    BY <1>1, <1>2, <1>3, AOther, ZenonT(20)

LEMMA ACommit == ASSUME AInv, Commit PROVE ListKept'
<1>1. /\ rows' = rows /\ inbox' = inbox /\ frr' = staged'
      /\ \/ staged' = staged /\ past' = past
         \/ staged' = frr /\ past' = [past EXCEPT !.lost = TRUE]
    BY ZenonT(40) DEF Commit
<1>2. past' = past \/ past'.lost
    BY <1>1, ZenonT(20) DEF AInv, Inv, Shape
<1>3. ListShape'
    BY <1>1, ZenonT(20) DEF AInv, ListKept, ListShape
<1>4. CASE staged' = staged /\ past' = past
    BY <1>1, <1>3, <1>4, ASame, ZenonT(20) DEF AInv, LBox
<1>5. CASE past'.lost
    BY <1>3, <1>5, ZenonT(20) DEF ListKept, OneEntry, ListDone
<1>6. QED
    BY <1>1, <1>4, <1>5, ZenonT(20) DEF AInv, Inv, Shape

LEMMA ARow == ASSUME AInv, NEW k \in Key, SetRow(k) \/ DelRow(k) PROVE ListKept'
<1>1. /\ UNCHANGED daemonVars
      /\ \A x : x # k => /\ x \in DOMAIN rows' <=> x \in DOMAIN rows
                         /\ x \in DOMAIN rows => rows'[x] = rows[x]
      /\ \A t \in Tables : t # Table(k) => inbox'[t] = inbox[t]
      /\ \A x : Silent(inbox'[Table(k)], x) => x # k /\ Silent(inbox[Table(k)], x)
    BY TableChange, ZenonT(20) DEF AInv
<1>2. staged' = staged /\ frr' = frr /\ past' = past
    BY <1>1, ZenonT(40) DEF daemonVars
<1>3. ListShape' /\ OneEntry'
    BY <1>2, ZenonT(20) DEF AInv, ListKept, ListShape, OneEntry
<1>4. \A c \in Comm : Silent(LBox', c) => c # k /\ Silent(LBox, c)
    BY <1>1, TableComm, ZenonT(20) DEF LBox, Tables
<1>5. ListDone'
    BY <1>1, <1>2, <1>4, ZenonT(20) DEF AInv, ListKept, ListDone, Covered
<1>6. QED
    BY <1>3, <1>5, Zenon DEF ListKept

\* A handler of the allow list that read what was scheduled changes the list
\* and the entry of its community only.
LEMMA AList ==
    ASSUME AInv, NEW c \in Comm, NEW op, Receive(c, op), Handled(c), ListShape',
           past' = [past EXCEPT !.stale = @ \/ Unseen],
           ~Unseen =>
             /\ \A x \in Comm : x # c => /\ x \in DOMAIN staged'.lists <=> x \in DOMAIN staged.lists
                                         /\ x \in DOMAIN staged.lists => staged'.lists[x] = staged.lists[x]
                                         /\ Entries(staged'.map, x) = Entries(staged.map, x)
             /\ op = "SET" => /\ c \in DOMAIN staged'.lists /\ Range(Head(LBox).data) \subseteq Range(staged'.lists[c])
                              /\ Entries(staged'.map, c) # {}
                              /\ Entries(staged'.map, c) = Entries(staged.map, c) \/ \E n : Entries(staged'.map, c) = {n}
             /\ op # "SET" => c \notin DOMAIN staged'.lists /\ Entries(staged'.map, c) = {}
    PROVE  ListKept'
<1>1. Table(c) = "BGP_ALLOWED_PREFIXES" /\ c \in Key
    BY TableComm, ZenonT(40)
<1>2. /\ rows' = rows
      /\ Head(LBox).op = op /\ Head(LBox).key = c
      /\ \A x : Silent(LBox', x) => Silent(LBox, x) \/ (x = c /\ Says(rows, Head(LBox)))
    <2>1. /\ rows' = rows
          /\ Head(inbox[Table(c)]).op = op /\ Head(inbox[Table(c)]).key = c
          /\ \A x : Silent(inbox'[Table(c)], x) => Silent(inbox[Table(c)], x) \/ (x = c /\ Says(rows, Head(inbox[Table(c)])))
        BY TableHandled, ZenonT(20) DEF AInv
    <2>2. QED
        BY <1>1, <2>1, ZenonT(20) DEF LBox
<1>3. past'.lost = past.lost /\ past'.stale = (past.stale \/ Unseen)
    BY ZenonT(20) DEF AInv, Inv, Shape
<1> SUFFICES ASSUME ~past.lost, ~past.stale, ~Unseen, NEW x \in Comm
             PROVE  /\ \A m, n \in Entries(staged'.map, x) : m = n
                    /\ Silent(LBox', x) => Covered(staged, x)'
    BY <1>3, ZenonT(20) DEF ListKept, OneEntry, ListDone
<1>4. (\A m, n \in Entries(staged.map, x) : m = n) /\ (Silent(LBox, x) => Covered(staged, x))
    BY ZenonT(20) DEF AInv, ListKept, OneEntry, ListDone
<1>5. CASE x # c
    BY <1>2, <1>4, <1>5, ZenonT(20) DEF Covered
<1>6. CASE x = c
    <2>1. \A m, n \in Entries(staged'.map, c) : m = n
        BY <1>4, <1>6, ZenonT(20)
    <2>2. ~Silent(LBox, c)
        <3>1. LBox # <<>> /\ LBox \in Seq(MsgOf("BGP_ALLOWED_PREFIXES"))
            BY <1>1, ZenonT(20) DEF Receive, LBox, AInv, TableInv, Tables
        <3>2. 1 \in DOMAIN LBox /\ Head(LBox) = LBox[1]
            BY <3>1, SMTT(20)
        <3>3. QED
            BY <1>2, <3>2, ZenonT(20) DEF Silent
    <2>3. Silent(LBox', c) => Covered(staged, c)'
        BY <1>2, <2>2, ZenonT(20) DEF Covered, Says
    <2>4. QED
        BY <1>6, <2>1, <2>3, ZenonT(40)
<1>7. QED
    BY <1>5, <1>6, ZenonT(40)

LEMMA EntriesWith ==
    ASSUME NEW f, NEW n, n \notin DOMAIN f, NEW c
    PROVE  Entries(With(f, n, c), c) = Entries(f, c) \union {n} /\ \A x : x # c => Entries(With(f, n, c), x) = Entries(f, x)
BY Zenon DEF Entries, With

LEMMA EntriesWithout ==
    ASSUME NEW f, NEW c
    PROVE  /\ Entries(Without(f, Entries(f, c)), c) = {}
           /\ \A x : x # c => Entries(Without(f, Entries(f, c)), x) = Entries(f, x)
BY Zenon DEF Entries, Without, Restrict

\* The number taken is one the running configuration does not use.
LEMMA FreeNumber == ASSUME NEW c, Free(c) # {} PROVE Min(Free(c)) \in SeqNumbers(c) /\ Min(Free(c)) \notin DOMAIN frr.map
<1>1. Free(c) \in SUBSET Nat
    BY RowAssumption, SMTT(20) DEF Free, SeqNumbers
<1>2. Min(Free(c)) \in Free(c)
    BY <1>1, MinIn, Zenon
<1>3. QED
    BY <1>2, Zenon DEF Free

\* When the handler sees all that is scheduled, the old list is replaced.
LEMMA NewListIs == ASSUME NEW c, NEW list \in ListRow, staged.lists = frr.lists PROVE NewList(c, list) = list
<1>1. NewList(c, list) = list \o SubSeq(<<>>, Len(list) + 1, Len(<<>>))
    BY ZenonT(20) DEF NewList
<1>2. list \in Seq(Range(list)) /\ Len(list) \in Nat
    <2>1. list \in Seq(Range(list))
        BY RowAssumption, ZenonT(40)
    <2>2. QED
        BY <2>1, SMTT(20)
<1>3. SubSeq(<<>>, Len(list) + 1, Len(<<>>)) = <<>>
    BY <1>2, SMTT(20)
<1>4. list \o <<>> = list
    BY <1>2, SMTT(20)
<1>5. QED
    BY <1>1, <1>3, <1>4, ZenonT(20)

LEMMA ASetList == ASSUME AInv, NEW c \in Comm, SetList(c) PROVE ListKept'
<1> DEFINE list == Received(c)
           lists == IF ListValid(c, list) THEN staged.lists ELSE With(staged.lists, c, NewList(c, list))
           map == IF Entries(frr.map, c) # {} THEN staged.map ELSE With(staged.map, Min(Free(c)), c)
<1>1. CASE Entries(frr.map, c) = {} /\ Free(c) = {}
    BY <1>1, AStart, ZenonT(40) DEF SetList, AInv
<1>2. CASE ~(Entries(frr.map, c) = {} /\ Free(c) = {})
    <2>1. /\ staged' = [staged EXCEPT !.lists = lists, !.map = map]
          /\ past' = [past EXCEPT !.stale = @ \/ Unseen]
          /\ Handled(c) /\ Receive(c, "SET")
        BY <1>2, ZenonT(20) DEF SetList
    <2>2. list \in ListRow
        BY <2>1, ReceivedIn, TableComm, ZenonT(20) DEF AInv
    <2> HIDE DEF list
    <2>3. ASSUME ~Unseen
          PROVE  /\ c \in DOMAIN lists /\ Range(list) \subseteq Range(lists[c])
                 /\ \A x : x # c => /\ x \in DOMAIN lists <=> x \in DOMAIN staged.lists
                                    /\ x \in DOMAIN staged.lists => lists[x] = staged.lists[x]
        <3>1. staged.lists = frr.lists
            BY <2>3, ZenonT(40) DEF Unseen
        <3>2. CASE ListValid(c, list)
            BY <3>1, <3>2, ZenonT(20) DEF ListValid
        <3>3. CASE ~ListValid(c, list)
            <4>1. lists = With(staged.lists, c, list)
                BY <2>2, <3>1, <3>3, NewListIs, ZenonT(20)
            <4>2. /\ DOMAIN With(staged.lists, c, list) = DOMAIN staged.lists \union {c}
                  /\ With(staged.lists, c, list)[c] = list
                  /\ \A x \in DOMAIN staged.lists : x # c => With(staged.lists, c, list)[x] = staged.lists[x]
                BY Zenon DEF With
            <4> HIDE DEF lists
            <4>3. QED
                BY <4>1, <4>2, ZenonT(20)
        <3>4. QED
            BY <3>2, <3>3, SMTT(40)
    <2>4. ASSUME ~Unseen
          PROVE  /\ Entries(map, c) # {}
                 /\ Entries(map, c) = Entries(staged.map, c) \/ \E n : Entries(map, c) = {n}
                 /\ \A x : x # c => Entries(map, x) = Entries(staged.map, x)
        <3>1. staged.map = frr.map
            BY <2>4, ZenonT(40) DEF Unseen
        <3>2. CASE Entries(frr.map, c) # {}
            BY <3>1, <3>2, ZenonT(20)
        <3>3. CASE Entries(frr.map, c) = {}
            <4> DEFINE n == Min(Free(c))
                       f == staged.map
            <4>1. n \notin DOMAIN f /\ map = With(f, n, c) /\ Entries(f, c) = {}
                BY <1>2, <3>1, <3>3, FreeNumber, ZenonT(20)
            <4> HIDE DEF n, f
            <4>2. /\ Entries(With(f, n, c), c) = Entries(f, c) \union {n}
                  /\ \A x : x # c => Entries(With(f, n, c), x) = Entries(f, x)
                BY <4>1, EntriesWith, SMTT(40)
            <4> HIDE DEF map
            <4>3. Entries(map, c) = {n}
                BY <4>1, <4>2, ZenonT(20)
            <4>4. QED
                BY <4>1, <4>2, <4>3, ZenonT(20) DEF f
        <3>4. QED
            BY <3>2, <3>3, ZenonT(40)
    <2> HIDE DEF lists, map
    <2>5. staged'.lists = lists /\ staged'.map = map /\ DOMAIN staged' = DOMAIN staged
        BY <2>1, Zenon DEF AInv, ListKept, ListShape
    <2>6. ListShape'
        <3>1. frr' = frr
            BY <2>1, Zenon DEF Handled
        <3>2. QED
            BY <2>5, <3>1, ZenonT(20) DEF AInv, ListKept, ListShape
    <2>7. list = Head(LBox).data
        BY TableComm, Zenon DEF list, Received, LBox
    <2>8. ~Unseen =>
             /\ \A x \in Comm : x # c => /\ x \in DOMAIN staged'.lists <=> x \in DOMAIN staged.lists
                                         /\ x \in DOMAIN staged.lists => staged'.lists[x] = staged.lists[x]
                                         /\ Entries(staged'.map, x) = Entries(staged.map, x)
             /\ c \in DOMAIN staged'.lists /\ Range(Head(LBox).data) \subseteq Range(staged'.lists[c])
             /\ Entries(staged'.map, c) # {}
             /\ Entries(staged'.map, c) = Entries(staged.map, c) \/ \E n : Entries(staged'.map, c) = {n}
        BY <2>3, <2>4, <2>5, <2>7, ZenonT(30)
    <2>9. QED
        BY <2>1, <2>6, <2>8, AList, SMTT(90)
<1>3. QED
    BY <1>1, <1>2, ZenonT(40)

LEMMA ADelList == ASSUME AInv, NEW c \in Comm, DelList(c) PROVE ListKept'
<1> DEFINE lists == Without(staged.lists, {c} \intersect DOMAIN frr.lists)
           map == Without(staged.map, Entries(frr.map, c))
<1>1. /\ staged' = [staged EXCEPT !.lists = lists, !.map = map]
      /\ past' = [past EXCEPT !.stale = @ \/ Unseen]
      /\ Handled(c) /\ Receive(c, "DEL")
    BY ZenonT(20) DEF DelList
<1>2. ASSUME ~Unseen
      PROVE  /\ c \notin DOMAIN lists
             /\ \A x : x # c => /\ x \in DOMAIN lists <=> x \in DOMAIN staged.lists
                                /\ x \in DOMAIN staged.lists => lists[x] = staged.lists[x]
    <2>1. staged.lists = frr.lists
        BY <1>2, Zenon DEF Unseen
    <2>2. QED
        BY <2>1, ZenonT(40) DEF Without, Restrict
<1>3. ASSUME ~Unseen
      PROVE  Entries(map, c) = {} /\ \A x : x # c => Entries(map, x) = Entries(staged.map, x)
    <2>1. staged.map = frr.map
        BY <1>3, Zenon DEF Unseen
    <2> DEFINE f == staged.map
    <2>2. map = Without(f, Entries(f, c))
        BY <2>1, ZenonT(20)
    <2> HIDE DEF f, map
    <2>3. /\ Entries(Without(f, Entries(f, c)), c) = {}
          /\ \A x : x # c => Entries(Without(f, Entries(f, c)), x) = Entries(f, x)
        BY EntriesWithout, SMTT(40)
    <2>4. QED
        BY <2>2, <2>3, ZenonT(20) DEF f
<1> HIDE DEF lists, map
<1>4. staged'.lists = lists /\ staged'.map = map /\ DOMAIN staged' = DOMAIN staged
    BY <1>1, Zenon DEF AInv, ListKept, ListShape
<1>5. ListShape'
    <2>1. frr' = frr
        BY <1>1, Zenon DEF Handled
    <2>2. QED
        BY <1>4, <2>1, ZenonT(20) DEF AInv, ListKept, ListShape
<1>6. "DEL" # "SET"
    BY Zenon
<1>7. QED
    BY <1>1, <1>2, <1>3, <1>4, <1>5, <1>6, AList, ZenonT(30)

LEMMA ANext == AInv /\ [Next]_vars => AInv'
<1> SUFFICES ASSUME AInv, [Next]_vars PROVE AInv'
    BY Zenon
<1>1. Inv' /\ TableInv'
    BY NextInv, TableNext, Zenon DEF AInv
<1>2. CASE UNCHANGED vars
    <2>1. LBox' = LBox /\ rows' = rows /\ staged' = staged /\ frr' = frr /\ past' = past
        BY <1>2, ZenonT(40) DEF vars, LBox
    <2>2. QED
        BY <1>1, <2>1, ASame, ZenonT(20) DEF AInv, ListKept, ListShape
<1>3. CASE Next
    <2>1. ListKept'
        BY <1>3, APeer, ADep, ARoute, ACommit, ASetList, ADelList, ARow, ZenonT(20) DEF Next, Daemon
    <2>2. QED
        BY <1>1, <2>1, Zenon DEF AInv
<1>4. QED
    BY <1>2, <1>3, Zenon

\* When the daemon is idle each configured list of allowed prefixes has one
\* route-map entry and a prefix list that permits its prefixes, and the others
\* have none, unless a commit failed or a handler read a configuration older
\* than what was scheduled (__update_policy, __remove_policy).
THEOREM AllowListCoversHolds == Spec => []AllowListCovers
<1>1. AInv => AllowListCovers
    <2> SUFFICES ASSUME AInv, Idle, ~past.lost, ~past.stale, NEW c \in Comm
                 PROVE  /\ c \in DOMAIN rows => /\ c \in DOMAIN frr.lists /\ Range(rows[c]) \subseteq Range(frr.lists[c])
                                                /\ Cardinality(Entries(frr.map, c)) = 1
                        /\ c \notin DOMAIN rows => c \notin DOMAIN frr.lists /\ Entries(frr.map, c) = {}
        BY ZenonT(20) DEF AllowListCovers, Configured
    <2>1. LBox = <<>> /\ round.cur = NoTable
        BY ZenonT(40) DEF Idle, LBox, Tables
    <2>2. Silent(LBox, c)
        BY <2>1, NoRoutes, ZenonT(20) DEF Silent
    <2>3. frr = staged
        BY <2>1, ZenonT(20) DEF AInv, Inv, Committed
    <2>4. Covered(frr, c) /\ \A m, n \in Entries(frr.map, c) : m = n
        BY <2>2, <2>3, ZenonT(20) DEF AInv, ListKept, ListDone, OneEntry
    <2>5. Entries(frr.map, c) # {} => Cardinality(Entries(frr.map, c)) = 1
        <3> DEFINE E == Entries(frr.map, c)
        <3> HIDE DEF E
        <3> SUFFICES ASSUME E # {}, \A m, n \in E : m = n PROVE Cardinality(E) = 1
            BY <2>4, ZenonT(20) DEF E
        <3>1. PICK n \in E : TRUE
            BY Zenon
        <3>2. E = {n}
            BY <3>1, ZenonT(20)
        <3>3. QED
            BY <3>2, FS_Singleton, ZenonT(20)
    <2>6. QED
        BY <2>4, <2>5, ZenonT(20) DEF Covered
<1>2. QED
    BY <1>1, AInit, ANext, PTL DEF Spec

-----------------------------------------------------------------------------
(* Type correctness *)

\* A configuration of FRR.
CfgOK(cfg) ==
    /\ {"peer", "route", "lists", "map"} \subseteq DOMAIN cfg
    /\ cfg.peer \in {"none", "up", "down"}
    /\ DOMAIN cfg.route = Route /\ \A r \in Route : cfg.route[r] \subseteq UNION RouteRow
    /\ DOMAIN cfg.lists \subseteq Comm
    /\ DOMAIN cfg.map \subseteq 1..2 * SeqMax

\* The daemon's own state.
OwnOK ==
    /\ round.cur \in Tables \union {NoTable} /\ round.seen \subseteq Tables
    /\ dir \subseteq Dep \union {"vnet"}
    /\ DOMAIN routes \subseteq Route /\ pending \in BOOLEAN

YKept == events \in 0..scene.max /\ OwnOK /\ CfgOK(staged) /\ CfgOK(frr)

YInv == Inv /\ TableInv /\ YKept

LEMMA NoConfigOK == CfgOK(NoConfig)
<1>1. /\ DOMAIN NoConfig = {"peer", "route", "redist", "lists", "map"}
      /\ NoConfig.peer = "none" /\ NoConfig.route = [r \in Route |-> {}]
      /\ NoConfig.lists = <<>> /\ NoConfig.map = <<>>
    BY ZenonT(40) DEF NoConfig
<1>2. DOMAIN NoConfig.lists = {} /\ DOMAIN NoConfig.map = {}
    BY <1>1, NoRoutes, ZenonT(20)
<1>3. DOMAIN NoConfig.route = Route /\ \A r \in Route : NoConfig.route[r] = {}
    BY <1>1, ZenonT(40)
<1>4. QED
    BY <1>1, <1>2, <1>3, ZenonT(20) DEF CfgOK

LEMMA YInit == Init => YInv
<1> SUFFICES ASSUME Init PROVE YInv
    BY Zenon
<1>1. events \in 0..scene.max
    <2>1. scene.max \in Nat
        BY RowAssumption, Zenon DEF Init
    <2>2. QED
        BY <2>1, SMTT(20) DEF Init
<1>2. CfgOK(staged) /\ CfgOK(frr)
    BY NoConfigOK, Zenon DEF Init
<1>3. DOMAIN routes = {}
    BY NoRoutes, ZenonT(20) DEF Init
<1>4. OwnOK
    <2>1. round.cur = NoTable /\ round.seen = {} /\ dir = {}
        BY Zenon DEF Init, Fresh
    <2>2. QED
        BY <1>3, <2>1, ZenonT(60) DEF Init, OwnOK
<1>5. QED
    BY <1>1, <1>2, <1>4, InitInv, TableInit, SMTT(40) DEF YInv, YKept

LEMMA YStart == ASSUME YInv, Restart, UNCHANGED <<scene, rows, events>> PROVE YKept'
<1>1. CfgOK(staged') /\ CfgOK(frr')
    BY NoConfigOK, ZenonT(40) DEF Restart
<1>2. DOMAIN routes' = {}
    BY NoRoutes, ZenonT(20) DEF Restart
<1>3. OwnOK'
    <2>1. round'.cur = NoTable /\ round'.seen = {} /\ dir' = {}
        BY Zenon DEF Restart, Fresh
    <2>2. QED
        BY <1>2, <2>1, ZenonT(20) DEF Restart, OwnOK
<1>4. QED
    BY <1>1, <1>3, ZenonT(20) DEF YInv, YKept

\* A handler.
LEMMA YHandled ==
    ASSUME YInv, NEW k, Handled(k), dir' \subseteq Dep \union {"vnet"}, DOMAIN routes' \subseteq Route,
           pending' \in BOOLEAN, CfgOK(staged')
    PROVE  YKept'
<1>1. frr' = frr /\ events' = events /\ scene' = scene
    BY Zenon DEF Handled
<1>2. round'.cur \in Tables /\ round'.seen \subseteq Tables
    <2>1. round'.cur = Table(k) /\ round'.seen = (round.seen \union {round.cur}) \ {NoTable, Table(k)}
        BY Zenon DEF Handled
    <2>2. QED
        BY <2>1, TableIn, ZenonT(20) DEF YInv, YKept, OwnOK
<1>3. OwnOK'
    BY <1>2, ZenonT(20) DEF OwnOK
<1>4. QED
    BY <1>1, <1>3, ZenonT(60) DEF YInv, YKept

LEMMA YTry ==
    ASSUME NEW d, NEW cfg, NEW kept, NEW q \in Seq(Admin), Shape, CfgOK(cfg), TryPeer(d, cfg, kept, q)
    PROVE  CfgOK(staged')
<1> DEFINE now == IF peer.known THEN cfg.peer ELSE "up"
           last == LastAdmin(q, now)
<1>1. staged' = cfg \/ (q # <<>> /\ now # "none" /\ staged' = [cfg EXCEPT !.peer = last])
    BY ZenonT(20) DEF TryPeer
<1>2. ASSUME q # <<>> PROVE last \in {"none", "up", "down"}
    BY <1>2, LastAdminIs, ZenonT(20) DEF CfgOK
<1> HIDE DEF last, now
<1>3. ASSUME NEW a \in {"none", "up", "down"} PROVE CfgOK([cfg EXCEPT !.peer = a])
    <2> DEFINE n == [cfg EXCEPT !.peer = a]
    <2>1. /\ DOMAIN n = DOMAIN cfg /\ n.peer = a
          /\ n.route = cfg.route /\ n.lists = cfg.lists /\ n.map = cfg.map
        BY Zenon DEF CfgOK
    <2> HIDE DEF n
    <2>2. CfgOK(n)
        BY <2>1, ZenonT(20) DEF CfgOK
    <2>3. QED
        BY <2>2, ZenonT(40) DEF n
<1>4. QED
    BY <1>1, <1>2, <1>3, ZenonT(20)

LEMMA YSetPeer == ASSUME YInv, SetPeer PROVE YKept'
<1> DEFINE q == <<Received("peer")>>
<1>1. /\ TryPeer(dir, staged, peer.queue, q) /\ Handled("peer") /\ Receive("peer", "SET")
      /\ dir' = dir /\ routes' = routes /\ pending' = pending
    BY Zenon DEF SetPeer
<1>2. Head(Box) \in PeerMsg /\ Head(Box).op = "SET"
    BY <1>1, HandledPeer, ZenonT(40) DEF YInv, Inv
<1>3. q \in Seq(Admin)
    <2>1. Received("peer") \in Admin
        BY <1>2, TableOf, ZenonT(40) DEF Received, Box, PeerMsg
    <2>2. QED
        BY <2>1, SMTT(20)
<1> HIDE DEF q
<1>4. CfgOK(staged')
    BY <1>1, <1>3, YTry, ZenonT(20) DEF YInv, YKept, Inv
<1>5. QED
    BY <1>1, <1>4, YHandled, ZenonT(20) DEF YInv, YKept, OwnOK

LEMMA YDelPeer == ASSUME YInv, DelPeer PROVE YKept'
<1>1. CASE peer.known /\ "asn" \notin dir
    BY <1>1, YStart, ZenonT(40) DEF DelPeer
<1>2. CASE ~(peer.known /\ "asn" \notin dir)
    <2>1. /\ staged' = IF peer.known THEN [staged EXCEPT !.peer = "none"] ELSE staged
          /\ Handled("peer") /\ dir' = dir /\ routes' = routes /\ pending' = pending
        BY <1>2, ZenonT(40) DEF DelPeer
    <2>2. CfgOK(staged')
        <3>1. CASE staged' = staged
            BY <3>1, ZenonT(40) DEF YInv, YKept
        <3>2. CASE staged' = [staged EXCEPT !.peer = "none"]
            <4>1. /\ DOMAIN staged' = DOMAIN staged /\ staged'.peer = "none"
                  /\ staged'.route = staged.route /\ staged'.lists = staged.lists /\ staged'.map = staged.map
                BY <3>2, ZenonT(40) DEF YInv, YKept, CfgOK
            <4>2. QED
                BY <4>1, ZenonT(20) DEF YInv, YKept, CfgOK
        <3>3. QED
            BY <2>1, <3>1, <3>2, ZenonT(40)
    <2>3. QED
        BY <2>1, <2>2, YHandled, ZenonT(20) DEF YInv, YKept, OwnOK
<1>3. QED
    BY <1>1, <1>2, ZenonT(40)

LEMMA YDep == ASSUME YInv, NEW k \in Dep, SetDep(k) \/ DelDep(k) PROVE YKept'
<1>1. CASE SetDep(k)
    <2> DEFINE cfg == OnAsn(k)
               d == dir'
               none == <<>>
    <2>1. TryPeer(d, cfg, none, peer.queue) /\ Handled(k) /\ routes' = routes /\ pending' = (pending /\ k # "asn")
        BY <1>1, ZenonT(40) DEF SetDep
    <2>2. CfgOK(cfg)
        <3>1. CASE cfg = staged
            BY <3>1, ZenonT(40) DEF YInv, YKept
        <3>2. CASE cfg = [staged EXCEPT !.redist = TRUE]
            <4> HIDE DEF cfg
            <4>1. /\ DOMAIN cfg = DOMAIN staged /\ cfg.peer = staged.peer
                  /\ cfg.route = staged.route /\ cfg.lists = staged.lists /\ cfg.map = staged.map
                BY <3>2, ZenonT(40) DEF YInv, YKept, CfgOK
            <4>2. QED
                BY <4>1, ZenonT(20) DEF YInv, YKept, CfgOK
        <3>3. QED
            BY <3>1, <3>2, ZenonT(40) DEF OnAsn
    <2>3. dir' \subseteq Dep \union {"vnet"}
        <3>1. dir' = Put(k, Received(k)) /\ dir \subseteq Dep \union {"vnet"}
            BY <1>1, ZenonT(40) DEF SetDep, YInv, YKept, OwnOK
        <3>2. "port" \in Dep
            BY Zenon DEF Dep
        <3>3. QED
            BY <3>1, <3>2, ZenonT(20) DEF Put
    <2> HIDE DEF cfg, d, none
    <2>4. CfgOK(staged')
        BY <2>1, <2>2, YTry, ZenonT(20) DEF YInv, Inv, Shape
    <2>5. QED
        BY <2>1, <2>3, <2>4, YHandled, ZenonT(20) DEF YInv, YKept, OwnOK
<1>2. CASE DelDep(k)
    <2>1. Handled(k) /\ routes' = routes /\ pending' = pending /\ staged' = staged /\ dir' \subseteq dir
        BY <1>2, ZenonT(40) DEF DelDep
    <2>2. QED
        BY <2>1, YHandled, ZenonT(20) DEF YInv, YKept, OwnOK
<1>3. QED
    BY <1>1, <1>2, Zenon

LEMMA YReroute ==
    ASSUME CfgOK(staged), NEW r \in Route, NEW hops, hops \subseteq UNION RouteRow
    PROVE  DOMAIN Reroute(r, hops) = Route /\ \A x \in Route : Reroute(r, hops)[x] \subseteq UNION RouteRow
<1>1. DOMAIN staged.route = Route /\ \A x \in Route : staged.route[x] \subseteq UNION RouteRow
    BY ZenonT(20) DEF CfgOK
<1> DEFINE U == UNION RouteRow
<1> HIDE DEF U
<1>2. QED
    BY <1>1, ZenonT(40) DEF Reroute, U

LEMMA YRoute == ASSUME YInv, NEW r \in Route, SetRoute(r) \/ DelRoute(r) PROVE YKept'
<1>1. Handled(r) /\ dir' = dir
    BY Zenon DEF SetRoute, DelRoute
<1>2. ASSUME NEW hops, hops \subseteq UNION RouteRow, NEW on, staged' = [staged EXCEPT !.route = Reroute(r, hops), !.redist = on]
      PROVE  CfgOK(staged')
    <2> DEFINE new == Reroute(r, hops)
    <2>1. DOMAIN new = Route /\ \A x \in Route : new[x] \subseteq UNION RouteRow
        BY <1>2, YReroute, ZenonT(20) DEF YInv, YKept
    <2> HIDE DEF new
    <2>2. /\ DOMAIN staged' = DOMAIN staged /\ staged'.peer = staged.peer
          /\ staged'.route = new /\ staged'.lists = staged.lists /\ staged'.map = staged.map
        BY <1>2, ZenonT(40) DEF YInv, YKept, CfgOK, new
    <2>3. QED
        BY <2>1, <2>2, ZenonT(20) DEF YInv, YKept, CfgOK
<1>3. CASE SetRoute(r) /\ BadHop \in Received(r)
    <2>1. staged' = staged /\ routes' = routes /\ pending' = pending
        BY <1>3, ZenonT(20) DEF SetRoute
    <2>2. QED
        BY <1>1, <2>1, YHandled, ZenonT(20) DEF YInv, YKept, OwnOK
<1>4. CASE SetRoute(r) /\ BadHop \notin Received(r)
    <2>1. Received(r) \subseteq UNION RouteRow
        <3>1. r \in Key /\ Data(r) = RouteRow
            BY KeyAssumption, ZenonT(40) DEF Key, Data, Dep
        <3>2. Received(r) \in RouteRow
            BY <1>4, <3>1, ReceivedIn, ZenonT(20) DEF SetRoute, YInv
        <3>3. QED
            BY <3>2, ZenonT(20)
    <2>2. CfgOK(staged')
        BY <1>2, <1>4, <2>1, ZenonT(20) DEF SetRoute
    <2>3. pending' \in BOOLEAN /\ DOMAIN routes' = DOMAIN routes \union {r}
        BY <1>4, ZenonT(40) DEF SetRoute, With
    <2>4. QED
        BY <1>1, <2>2, <2>3, YHandled, ZenonT(20) DEF YInv, YKept, OwnOK
<1>5. CASE DelRoute(r)
    <2>1. CfgOK(staged')
        <3>1. {} \subseteq UNION RouteRow
            BY Zenon
        <3>2. QED
            BY <1>2, <1>5, <3>1, ZenonT(20) DEF DelRoute
    <2>2. pending' \in BOOLEAN /\ DOMAIN routes' \subseteq DOMAIN routes
        BY <1>5, ZenonT(40) DEF DelRoute, Without, Restrict
    <2>3. QED
        BY <1>1, <2>1, <2>2, YHandled, ZenonT(20) DEF YInv, YKept, OwnOK
<1>6. QED
    BY <1>3, <1>4, <1>5, ZenonT(40)

LEMMA YList == ASSUME YInv, NEW c \in Comm, SetList(c) \/ DelList(c) PROVE YKept'
<1>1. CASE Restart /\ UNCHANGED <<scene, rows, events>>
    BY <1>1, YStart, ZenonT(20)
<1>2. CASE ~(Restart /\ UNCHANGED <<scene, rows, events>>)
    <2>1. Handled(c) /\ dir' = dir /\ routes' = routes /\ pending' = pending
        BY <1>2, ZenonT(40) DEF SetList, DelList
    <2>2. ASSUME NEW lists, NEW map, staged' = [staged EXCEPT !.lists = lists, !.map = map],
                 DOMAIN lists \subseteq DOMAIN staged.lists \union {c}, DOMAIN map \subseteq DOMAIN staged.map \union SeqNumbers(c)
          PROVE  CfgOK(staged')
        <3>1. /\ DOMAIN staged' = DOMAIN staged /\ staged'.peer = staged.peer
              /\ staged'.route = staged.route /\ staged'.lists = lists /\ staged'.map = map
            BY <2>2, ZenonT(40) DEF YInv, YKept, CfgOK
        <3>2. SeqNumbers(c) \subseteq 1..2 * SeqMax
            BY RowAssumption, SMTT(20) DEF SeqNumbers
        <3>3. QED
            BY <2>2, <3>1, <3>2, ZenonT(20) DEF YInv, YKept, CfgOK
    <2>3. CASE SetList(c)
        <3> DEFINE lists == IF ListValid(c, Received(c)) THEN staged.lists ELSE With(staged.lists, c, NewList(c, Received(c)))
                   map == IF Entries(frr.map, c) # {} THEN staged.map ELSE With(staged.map, Min(Free(c)), c)
        <3>1. ~(Entries(frr.map, c) = {} /\ Free(c) = {}) /\ staged' = [staged EXCEPT !.lists = lists, !.map = map]
            BY <1>2, <2>3, ZenonT(20) DEF SetList
        <3>2. DOMAIN lists \subseteq DOMAIN staged.lists \union {c}
            BY Zenon DEF With
        <3>3. DOMAIN map \subseteq DOMAIN staged.map \union SeqNumbers(c)
            <4>1. Entries(frr.map, c) = {} => Min(Free(c)) \in SeqNumbers(c)
                BY <3>1, FreeNumber, ZenonT(20)
            <4>2. DOMAIN With(staged.map, Min(Free(c)), c) = DOMAIN staged.map \union {Min(Free(c))}
                BY Zenon DEF With
            <4>3. QED
                BY <4>1, <4>2, ZenonT(20)
        <3> HIDE DEF lists, map
        <3>4. QED
            BY <2>2, <3>1, <3>2, <3>3, <2>1, YHandled, ZenonT(20) DEF YInv, YKept, OwnOK
    <2>4. CASE DelList(c)
        <3> DEFINE lists == Without(staged.lists, {c} \intersect DOMAIN frr.lists)
                   map == Without(staged.map, Entries(frr.map, c))
        <3>1. staged' = [staged EXCEPT !.lists = lists, !.map = map]
            BY <2>4, ZenonT(20) DEF DelList
        <3>2. DOMAIN lists \subseteq DOMAIN staged.lists /\ DOMAIN map \subseteq DOMAIN staged.map
            BY Zenon DEF Without, Restrict
        <3> HIDE DEF lists, map
        <3>3. QED
            BY <2>2, <3>1, <3>2, <2>1, YHandled, ZenonT(20) DEF YInv, YKept, OwnOK
    <2>5. QED
        BY <2>3, <2>4, ZenonT(40)
<1>3. QED
    BY <1>1, <1>2, Zenon

LEMMA YNext == YInv /\ [Next]_vars => YInv'
<1> SUFFICES ASSUME YInv, [Next]_vars PROVE YInv'
    BY Zenon
<1>1. Inv' /\ TableInv'
    BY NextInv, TableNext, Zenon DEF YInv
<1>2. scene.max \in Nat
    BY RowAssumption, ZenonT(40) DEF YInv, TableInv
<1>3. ASSUME NEW k \in Key, SetRow(k) \/ DelRow(k) PROVE YKept'
    <2>1. PICK msg : Change(k, msg)
        BY <1>3, ZenonT(20) DEF SetRow, DelRow
    <2>2. scene' = scene /\ events' = events + 1 /\ events < scene.max /\ UNCHANGED daemonVars
        BY <2>1, ZenonT(40) DEF Change
    <2>3. events' \in 0..scene'.max
        BY <1>2, <2>2, SMTT(20) DEF YInv, YKept
    <2>4. QED
        BY <2>2, <2>3, ZenonT(20) DEF daemonVars, YInv, YKept, OwnOK
<1>4. CASE Commit
    <2>1. /\ scene' = scene /\ dir' = dir /\ routes' = routes /\ pending' = pending /\ round' = Fresh.round
          /\ frr' \in {frr, staged} /\ staged' \in {frr, staged}
          /\ events' = events \/ (events < scene.max /\ events' = events + 1)
        BY <1>4, ZenonT(20) DEF Commit
    <2>2. events' \in 0..scene'.max
        BY <1>2, <2>1, SMTT(20) DEF YInv, YKept
    <2>3. round'.cur = NoTable /\ round'.seen = {}
        BY <2>1, ZenonT(40) DEF Fresh
    <2>4. OwnOK'
        BY <2>1, <2>3, ZenonT(20) DEF YInv, YKept, OwnOK
    <2>5. CfgOK(staged') /\ CfgOK(frr')
        BY <2>1, ZenonT(20) DEF YInv, YKept
    <2>6. QED
        BY <1>1, <2>2, <2>4, <2>5, ZenonT(20) DEF YInv, YKept
<1>5. CASE UNCHANGED vars
    <2>1. /\ scene' = scene /\ events' = events /\ round' = round /\ dir' = dir /\ routes' = routes
          /\ pending' = pending /\ staged' = staged /\ frr' = frr
        BY <1>5, ZenonT(40) DEF vars
    <2>2. QED
        BY <1>1, <2>1, ZenonT(20) DEF YInv, YKept, OwnOK
<1>6. CASE Next /\ ~Commit
    <2>1. YKept'
        BY <1>3, <1>6, YSetPeer, YDelPeer, YDep, YRoute, YList, ZenonT(20) DEF Next, Daemon
    <2>2. QED
        BY <1>1, <2>1, Zenon DEF YInv
<1>7. QED
    BY <1>4, <1>5, <1>6, ZenonT(40)

\* Every variable keeps its type: the daemon's tables, queue and batch, and the
\* route-map numbers, which never leave the two ranges of the allow list.
THEOREM TypeCorrect == Spec => []TypeOK
<1>1. YInv => TypeOK
    <2> SUFFICES ASSUME YInv PROVE TypeOK
        BY Zenon
    <2>1. DOMAIN rows \subseteq Key /\ scene \in Scene
        BY ZenonT(20) DEF YInv, TableInv
    <2>2. \A t \in Tables : \A i \in DOMAIN inbox[t] : inbox[t][i].key \in Key
        <3> TAKE t \in Tables
        <3> TAKE i \in DOMAIN inbox[t]
        <3>1. inbox[t][i] \in MsgOf(t)
            <4>1. inbox[t] \in Seq(MsgOf(t))
                BY Zenon DEF YInv, TableInv
            <4>2. QED
                BY <4>1, SMTT(20)
        <3>2. PICK x \in Key : inbox[t][i] = DelMsg(x) \/ \E d \in Data(x) : inbox[t][i] = SetMsg(x, d)
            BY <3>1, ZenonT(20) DEF MsgOf
        <3>3. DelMsg(x).key = x /\ \A d : SetMsg(x, d).key = x
            BY Zenon DEF DelMsg, SetMsg
        <3>4. QED
            BY <3>2, <3>3, ZenonT(20)
    <2>3. peer.known \in BOOLEAN /\ \A i \in DOMAIN peer.queue : peer.queue[i] \in {"up", "down", "unset"}
        BY SMTT(20) DEF YInv, Inv, Shape, Admin
    <2>4. QED
        BY <2>1, <2>2, <2>3, ZenonT(20) DEF TypeOK, YInv, YKept, OwnOK, CfgOK
<1>2. QED
    BY <1>1, YInit, YNext, PTL DEF Spec
=============================================================================
