----------------------- MODULE SyncRefinement_proofs -----------------------
(***************************************************************************)
(* The ICCP session implements SyncService while the addresses of both      *)
(* daemons stay configured, for any number of connections, failures,        *)
(* peer-link commands and updates and any timers.  The steps of the session *)
(* layer are those of SyncSteps_proofs; the turns of the application are    *)
(* here.                                                                    *)
(***************************************************************************)
EXTENDS SyncSteps_proofs

-----------------------------------------------------------------------------
(* One turn of the loop.  Both ends in the abstract: m is the message taken  *)
(* from the queue q, r what is left, s the only type in Moves that is sent.  *)

Took(q, m, r) ==
    \/ m = NoMsg /\ r = q
    \/ q # <<>> /\ m = Head(q) /\ r = Tail(q)
Carries(ms, s) == ms \in Seq(Msg) /\ \A t \in Moves : (Has(ms, t) <=> t = s) /\ Once(ms, t)

LoMove(c, d, m, s) ==
    \/ c.ml = "INIT" /\ m = NoMsg /\ d.ml = "STAGE1" /\ d.wait = 0 /\ s = "NONE"
    \/ c.ml = "STAGE1" /\ m.type = "SYNC_REQUEST" /\ d.ml = "STAGE2" /\ d.wait = 0 /\ s = "SYNC_DONE"
    \/ c.ml = "STAGE1" /\ m.type # "SYNC_REQUEST" /\ d.ml = "STAGE1" /\ d.wait = 0 /\ s = "NONE"
    \/ c.ml = "STAGE2" /\ c.wait = 0 /\ d.ml = "STAGE2" /\ d.wait = 1 /\ s = "SYNC_REQUEST"
    \/ /\ c.ml = "STAGE2" /\ c.wait = 1 /\ m.type = "SYNC_DONE"
       /\ d.ml = "EXCHANGE" /\ s = "NONE"
    \/ /\ c.ml = "STAGE2" /\ c.wait = 1 /\ m.type # "SYNC_DONE"
       /\ d.ml = "STAGE2" /\ d.wait = 1 /\ s = "NONE"
    \/ c.ml = "EXCHANGE" /\ d.ml = "EXCHANGE" /\ s \in {"NONE", "UPDATE"}

HiMove(c, d, m, s) ==
    \/ c.ml = "INIT" /\ m = NoMsg /\ d.ml = "STAGE1" /\ d.wait = 1 /\ s = "SYNC_REQUEST"
    \/ c.ml = "STAGE1" /\ m.type = "SYNC_DONE" /\ d.ml = "STAGE2" /\ d.wait = 0 /\ s = "NONE"
    \/ c.ml = "STAGE1" /\ m.type # "SYNC_DONE" /\ d.ml = "STAGE1" /\ d.wait = 1 /\ s = "NONE"
    \/ c.ml = "STAGE2" /\ m.type = "SYNC_REQUEST" /\ d.ml = "EXCHANGE" /\ s = "SYNC_DONE"
    \/ c.ml = "STAGE2" /\ m.type # "SYNC_REQUEST" /\ d.ml = "STAGE2" /\ d.wait = 0 /\ s = "NONE"
    \/ c.ml = "EXCHANGE" /\ d.ml = "EXCHANGE" /\ s \in {"NONE", "UPDATE"}

\* what that means for the messages of one type
Left(q, m, r, t) ==
    /\ Has(r, t) => Has(q, t)
    /\ Has(q, t) /\ m.type # t => Has(r, t)
    /\ Once(q, t) => Once(r, t)
    /\ Once(q, t) /\ m.type = t => ~Has(r, t)
    /\ m.type = t => Has(q, t)
Joined(q, w, s, t) ==
    /\ Has(w, t) <=> Has(q, t) \/ t = s
    /\ Once(q, t) /\ t # s => Once(w, t)
    /\ ~Has(q, t) => Once(w, t)

LEMMA TookFacts ==
  ASSUME NEW q \in Seq(Msg), NEW m, NEW r, Took(q, m, r)
  PROVE  /\ r \in Seq(Msg)
         /\ \A t \in Moves : Left(q, m, r, t)
         /\ \A t, u \in Moves : After(q, t, u) => m.type # t /\ (m.type # u => After(r, t, u))
<1>1. CASE m = NoMsg /\ r = q
  <2>1. \A t \in Moves : m.type # t
    BY <1>1, ZenonT(40) DEF NoMsg, Moves
  <2> QED
    BY <1>1, <2>1, ZenonT(40) DEF Left
<1>2. CASE q # <<>> /\ m = Head(q) /\ r = Tail(q)
  <2>1. r \in Seq(Msg)
    BY <1>2, SMTT(40)
  <2>2. ASSUME NEW t \in Moves
        PROVE  Left(q, m, r, t)
    BY <1>2, TailHas, ZenonT(40) DEF Left
  <2>3. ASSUME NEW t \in Moves, NEW u \in Moves, After(q, t, u)
        PROVE  m.type # t /\ (m.type # u => After(r, t, u))
    BY <1>2, <2>3, TailAfter, ZenonT(40)
  <2> QED
    BY <2>1, <2>2, <2>3, ZenonT(40)
<1> QED
  BY <1>1, <1>2, ZenonT(40) DEF Took

LEMMA CarriesFacts ==
  ASSUME NEW q \in Seq(Msg), NEW ms, NEW s, Carries(ms, s)
  PROVE  /\ \A t \in Moves : Joined(q, q \o ms, s, t)
         /\ \A t, u \in Moves : After(q, t, u) /\ (Has(q, u) \/ t # s) => After(q \o ms, t, u)
<1>1. ms \in Seq(Msg) /\ \A t \in Moves : (Has(ms, t) <=> t = s) /\ Once(ms, t)
  BY Zenon DEF Carries
<1>2. ASSUME NEW t \in Moves
      PROVE  Joined(q, q \o ms, s, t)
  BY <1>1, CatHas, ZenonT(40) DEF Joined
<1>3. ASSUME NEW t \in Moves, NEW u \in Moves, After(q, t, u), Has(q, u) \/ t # s
      PROVE  After(q \o ms, t, u)
  BY <1>1, <1>3, CatAfter, ZenonT(40)
<1> QED
  BY <1>2, <1>3, ZenonT(40)

LEMMA EmptyAfter ==
  ASSUME NEW q \in Seq(Msg), NEW t, NEW u, ~Has(q, t)
  PROVE  Once(q, t) /\ After(q, t, u)
  BY Zenon DEF Has, Once, After

LEMMA LoTurn ==
  ASSUME NEW c, NEW d, NEW q \in Seq(Msg), NEW r, NEW m, NEW s, NEW ms,
         Side(Lo, c, q), c.ml = "STAGE1" => c.wait = 0,
         Took(q, m, r), LoMove(c, d, m, s), Carries(ms, s)
  PROVE  /\ Side(Lo, d, r)
         /\ \A h : \A qh \in Seq(Msg) :
               Side(Hi, h, qh) /\ Both(c, h, q, qh) =>
                  Side(Hi, h, qh \o ms) /\ Both(d, h, r, qh \o ms)
<1>1. "SYNC_REQUEST" \in Moves /\ "SYNC_DONE" \in Moves /\ "UPDATE" \in Moves /\ "PURGE" \in Moves
  BY Zenon DEF Moves
<1>2. /\ \A t \in {"SYNC_REQUEST", "SYNC_DONE", "UPDATE", "PURGE"} : Left(q, m, r, t)
      /\ r \in Seq(Msg)
  BY TookFacts, Zenon DEF Moves
<1>3. After(q, "UPDATE", "SYNC_DONE") =>
        m.type # "UPDATE" /\ (m.type # "SYNC_DONE" => After(r, "UPDATE", "SYNC_DONE"))
  BY <1>1, TookFacts, ZenonT(40)
<1>4. LoSide(c, q) /\ ~Has(q, "PURGE")
  BY Zenon DEF Side
<1>5. /\ ~Has(r, "UPDATE") => After(r, "UPDATE", "SYNC_DONE")
      /\ ~Has(r, "SYNC_DONE") => Once(r, "SYNC_DONE")
  BY <1>2, EmptyAfter, ZenonT(40)
<1>6. Side(Lo, d, r)
  <2>1. LoSide(d, r)
    BY <1>2, <1>3, <1>4, <1>5, ZenonT(40) DEF LoSide, LoMove, Left
  <2> QED
    BY <1>2, <1>4, <2>1, ZenonT(40) DEF Side, Left
<1>7. ASSUME NEW h, NEW qh \in Seq(Msg), Side(Hi, h, qh), Both(c, h, q, qh)
      PROVE  Side(Hi, h, qh \o ms) /\ Both(d, h, r, qh \o ms)
  <2> DEFINE w == qh \o ms
  <2>1. \A t \in {"SYNC_REQUEST", "SYNC_DONE", "UPDATE", "PURGE"} : Joined(qh, w, s, t)
    BY CarriesFacts, ZenonT(40) DEF Moves
  <2>2. /\ After(qh, "SYNC_REQUEST", "SYNC_DONE") /\ (Has(qh, "SYNC_DONE") \/ s # "SYNC_REQUEST") =>
             After(w, "SYNC_REQUEST", "SYNC_DONE")
    BY <1>1, CarriesFacts, ZenonT(40)
  <2>3. HiSide(h, qh) /\ ~Has(qh, "PURGE")
    BY <1>7, SessionAssumption, ZenonT(40) DEF Side
  <2> HIDE DEF w
  <2>4. HiSide(h, w)
    <3>1. CASE c.ml = "INIT"
      BY <1>2, <1>4, <1>7, <2>1, <2>2, <2>3, <3>1, SMTT(40) DEF HiSide, Both, LoSide, LoMove, Left, Joined
    <3>2. CASE c.ml = "STAGE1"
      BY <1>2, <1>4, <1>7, <2>1, <2>2, <2>3, <3>2, SMTT(40) DEF HiSide, Both, LoSide, LoMove, Left, Joined
    <3>3. CASE c.ml = "STAGE2"
      BY <1>2, <1>4, <1>7, <2>1, <2>2, <2>3, <3>3, ZenonT(40) DEF HiSide, Both, LoSide, LoMove, Left, Joined
    <3>4. CASE c.ml = "EXCHANGE"
      BY <1>2, <1>4, <1>7, <2>1, <2>2, <2>3, <3>4, ZenonT(40) DEF HiSide, Both, LoSide, LoMove, Left, Joined
    <3> QED
      BY <3>1, <3>2, <3>3, <3>4, ZenonT(40) DEF LoMove
  <2>5. Both(d, h, r, w)
    <3>1. CASE c.ml = "INIT"
      BY <1>2, <1>4, <1>7, <2>1, <2>3, <3>1, ZenonT(40) DEF HiSide, Both, LoSide, LoMove, Left, Joined
    <3>2. CASE c.ml = "STAGE1"
      BY <1>2, <1>4, <1>7, <2>1, <2>3, <3>2, ZenonT(40) DEF HiSide, Both, LoSide, LoMove, Left, Joined
    <3>3. CASE c.ml = "STAGE2"
      BY <1>2, <1>4, <1>7, <2>1, <2>3, <3>3, SMTT(40) DEF HiSide, Both, LoSide, LoMove, Left, Joined
    <3>4. CASE c.ml = "EXCHANGE"
      BY <1>2, <1>4, <1>7, <2>1, <2>3, <3>4, ZenonT(40) DEF HiSide, Both, LoSide, LoMove, Left, Joined
    <3> QED
      BY <3>1, <3>2, <3>3, <3>4, ZenonT(40) DEF LoMove
  <2>6. ~Has(w, "PURGE")
    BY <2>1, <2>3, ZenonT(40) DEF LoMove, Joined
  <2> QED
    BY <2>4, <2>5, <2>6, SessionAssumption, ZenonT(40) DEF Side, w
<1> QED
  BY <1>6, <1>7, ZenonT(40)

LEMMA HiTurn ==
  ASSUME NEW c, NEW d, NEW q \in Seq(Msg), NEW r, NEW m, NEW s, NEW ms,
         Side(Hi, c, q), Took(q, m, r), HiMove(c, d, m, s), Carries(ms, s)
  PROVE  /\ Side(Hi, d, r)
         /\ \A l : \A ql \in Seq(Msg) :
               l.wait \in {0, 1} /\ Side(Lo, l, ql) /\ Both(l, c, ql, q) =>
                  Side(Lo, l, ql \o ms) /\ Both(l, d, ql \o ms, r)
<1>1. "SYNC_REQUEST" \in Moves /\ "SYNC_DONE" \in Moves /\ "UPDATE" \in Moves /\ "PURGE" \in Moves
  BY Zenon DEF Moves
<1>2. /\ \A t \in {"SYNC_REQUEST", "SYNC_DONE", "UPDATE", "PURGE"} : Left(q, m, r, t)
      /\ r \in Seq(Msg)
  BY TookFacts, ZenonT(40) DEF Moves
<1>3. After(q, "SYNC_REQUEST", "SYNC_DONE") =>
        m.type # "SYNC_REQUEST" /\ (m.type # "SYNC_DONE" => After(r, "SYNC_REQUEST", "SYNC_DONE"))
  BY <1>1, TookFacts, ZenonT(40)
<1>4. HiSide(c, q) /\ ~Has(q, "PURGE")
  BY SessionAssumption, Zenon DEF Side
<1>5. /\ ~Has(r, "SYNC_REQUEST") => After(r, "SYNC_REQUEST", "SYNC_DONE") /\ Once(r, "SYNC_REQUEST")
      /\ ~Has(r, "SYNC_DONE") => Once(r, "SYNC_DONE")
  BY <1>2, EmptyAfter, ZenonT(40)
<1>6. Side(Hi, d, r)
  <2>1. HiSide(d, r)
    BY <1>2, <1>3, <1>4, <1>5, ZenonT(40) DEF HiSide, HiMove, Left
  <2> QED
    BY <1>2, <1>4, <2>1, SessionAssumption, ZenonT(40) DEF Side, Left
<1>7. ASSUME NEW l, NEW ql \in Seq(Msg), l.wait \in {0, 1}, Side(Lo, l, ql), Both(l, c, ql, q)
      PROVE  Side(Lo, l, ql \o ms) /\ Both(l, d, ql \o ms, r)
  <2> DEFINE w == ql \o ms
  <2>1. \A t \in {"SYNC_REQUEST", "SYNC_DONE", "UPDATE", "PURGE"} : Joined(ql, w, s, t)
    BY CarriesFacts, ZenonT(40) DEF Moves
  <2>2. /\ After(ql, "UPDATE", "SYNC_DONE") /\ (Has(ql, "SYNC_DONE") \/ s # "UPDATE") =>
             After(w, "UPDATE", "SYNC_DONE")
    BY <1>1, CarriesFacts, ZenonT(40)
  <2>3. LoSide(l, ql) /\ ~Has(ql, "PURGE")
    BY <1>7, ZenonT(40) DEF Side
  <2> HIDE DEF w
  <2>4. LoSide(l, w)
    <3>1. CASE c.ml = "INIT"
      BY <1>2, <1>4, <1>7, <2>1, <2>2, <2>3, <3>1, SMTT(40) DEF HiSide, Both, LoSide, HiMove, Left, Joined
    <3>2. CASE c.ml = "STAGE1"
      BY <1>2, <1>4, <1>7, <2>1, <2>2, <2>3, <3>2, ZenonT(40) DEF HiSide, Both, LoSide, HiMove, Left, Joined
    <3>3. CASE c.ml = "STAGE2"
      BY <1>2, <1>4, <1>7, <2>1, <2>2, <2>3, <3>3, ZenonT(40) DEF HiSide, Both, LoSide, HiMove, Left, Joined
    <3>4. CASE c.ml = "EXCHANGE"
      BY <1>2, <1>4, <1>7, <2>1, <2>2, <2>3, <3>4, ZenonT(40) DEF HiSide, Both, LoSide, HiMove, Left, Joined
    <3> QED
      BY <3>1, <3>2, <3>3, <3>4, ZenonT(40) DEF HiMove
  <2>5. Both(l, d, w, r)
    <3>1. CASE c.ml = "INIT"
      BY <1>2, <1>4, <1>7, <2>1, <2>3, <3>1, ZenonT(40) DEF HiSide, Both, LoSide, HiMove, Left, Joined
    <3>2. CASE c.ml = "STAGE1"
      BY <1>2, <1>4, <1>7, <2>1, <2>3, <3>2, ZenonT(40) DEF HiSide, Both, LoSide, HiMove, Left, Joined
    <3>3. CASE c.ml = "STAGE2"
      BY <1>2, <1>4, <1>7, <2>1, <2>3, <3>3, ZenonT(40) DEF HiSide, Both, LoSide, HiMove, Left, Joined
    <3>4. CASE c.ml = "EXCHANGE"
      BY <1>2, <1>4, <1>7, <2>1, <2>3, <3>4, ZenonT(40) DEF HiSide, Both, LoSide, HiMove, Left, Joined
    <3> QED
      BY <3>1, <3>2, <3>3, <3>4, ZenonT(40) DEF HiMove
  <2>6. ~Has(w, "PURGE")
    BY <2>1, <2>3, ZenonT(40) DEF HiMove, Joined
  <2> QED
    BY <2>4, <2>5, <2>6, ZenonT(40) DEF Side, w
<1> QED
  BY <1>6, <1>7, ZenonT(40)

LEMMA CarriesWhat ==
  ASSUME NEW n \in Node
  PROVE  /\ Carries(<<>>, "NONE") /\ Carries(AllInfo(n), "SYNC_DONE")
         /\ Carries(<<AppMsg(n, "SYNC_REQUEST")>>, "SYNC_REQUEST")
         /\ Carries(<<AppMsg(n, "UPDATE")>>, "UPDATE")
<1>1. \A t \in AppType : AppMsg(n, t) \in Msg /\ AppMsg(n, t).type = t
  <2>1. \A t \in AppType : AppMsg(n, t) \in Msg
    BY AppMsgType, MsgOfType, ZenonT(40)
  <2> QED
    BY <2>1, ZenonT(40) DEF AppMsg
<1>2. Carries(<<>>, "NONE")
  <2>1. <<>> \in Seq(Msg)
    BY SMTT(40)
  <2>2. \A t \in Moves : t # "NONE"
    BY Zenon DEF Moves
  <2> QED
    BY <1>1, <2>1, <2>2, FewHas, ZenonT(40) DEF Carries, AppType
<1>3. ASSUME NEW t \in {"SYNC_REQUEST", "UPDATE"} PROVE Carries(<<AppMsg(n, t)>>, t)
  <2> DEFINE x == AppMsg(n, t)
  <2>1. x \in Msg /\ x.type = t
    BY <1>1, Zenon DEF AppType
  <2> HIDE DEF x
  <2>2. <<x>> \in Seq(Msg)
    BY <2>1, SMTT(40)
  <2>3. \A u \in Moves : (Has(<<x>>, u) <=> u = t) /\ Once(<<x>>, u)
    BY <2>1, FewHas, ZenonT(40)
  <2> QED
    BY <2>2, <2>3, ZenonT(40) DEF Carries, x
<1>4. Carries(AllInfo(n), "SYNC_DONE")
  <2> DEFINE x == AppMsg(n, "SYNC_START")
             y == AppMsg(n, "SYNC_DONE")
  <2>1. x \in Msg /\ x.type = "SYNC_START" /\ y \in Msg /\ y.type = "SYNC_DONE"
    BY <1>1, Zenon DEF AppType
  <2> HIDE DEF x, y
  <2>2. <<x, y>> \in Seq(Msg)
    BY <2>1, SMTT(40)
  <2>3. \A u \in Moves : u # "SYNC_START"
    BY Zenon DEF Moves
  <2>4. \A u \in Moves : (Has(<<x, y>>, u) <=> u = "SYNC_DONE") /\ Once(<<x, y>>, u)
    BY <2>1, <2>3, FewHas, ZenonT(40)
  <2> QED
    BY <2>2, <2>4, ZenonT(40) DEF Carries, AllInfo, x, y
<1> QED
  BY <1>2, <1>3, <1>4, ZenonT(40)

\* a turn that makes one of these moves keeps the invariant
LEMMA TurnSync ==
  ASSUME Inv, SInv, NEW n \in Node, NEW d, NEW ms, NEW m, NEW s, pc[n] = "loop",
         csm' = [csm EXCEPT ![n] = d], Deliver(n, d.sock, ms), endp' = endp,
         d.sock = csm[n].sock, d.st = csm[n].st, Steady(n, d), Carries(ms, s),
         n = Lo => LoMove(csm[n], d, m, s), n = Hi => HiMove(csm[n], d, m, s),
         \/ m = NoMsg /\ d.mlq = csm[n].mlq
         \/ csm[n].mlq # <<>> /\ m = Head(csm[n].mlq) /\ d.mlq = Tail(csm[n].mlq)
  PROVE  SInv' /\ Maps
<1> DEFINE k == csm[n].sock
           p == Peer(n)
           w == wire[k][n]
           q == csm[n].mlq \o w
           r == d.mlq \o w
<1>1. csm[n].app = "OPERATIONAL" /\ csm[n].st = "OPERATIONAL" /\ k \in Conn /\ k # None
  BY SideFacts, TwoNodes, ZenonT(40) DEF Inv, LoopUp, Sessions, Sound
<1>2. csm[n].mlq \in Seq(Msg) /\ w \in Seq(Msg) /\ q \in Seq(Msg)
  BY <1>1, SideFacts, SMTT(40)
<1>3. p \in Node /\ p # n /\ Peer(p) = n /\ \A x \in Node : x = n \/ x = p
  BY TwoNodes, ZenonT(40)
<1>4. csm'[n] = d /\ csm'[p] = csm[p]
  BY <1>3, ZenonT(40) DEF Inv, TypeOK
<1>5. Steady(n, csm[n]) /\ Side(n, csm[n], q) /\ Steady(p, csm[p])
  BY <1>1, <1>3, ZenonT(40) DEF SInv, Sides, Pending
<1>6. Took(q, m, r)
  BY <1>2, DequeueTail, ZenonT(40) DEF Took
<1>7. ms \in Seq(Msg)
  BY ZenonT(40) DEF Carries
<1>8. endp[k][n] = "open"
  BY <1>1, ZenonT(40) DEF Inv, NoLeakedSocket
<1>9. /\ \A j \in Conn, x \in Node : j # k \/ x = n => wire'[j][x] = wire[j][x]
      /\ wire'[k][p] = IF endp[k][p] = "closed" THEN wire[k][p] ELSE wire[k][p] \o ms
  BY <1>1, <1>7, DeliverFacts, ZenonT(40)
<1>10. Pending(n)' = r /\ Pending(n) = q
  BY <1>1, <1>4, <1>9, ZenonT(40) DEF Pending
<1>11. Side(n, d, r)
  <2> HIDE DEF q, r, w, k
  <2>1. CASE n = Lo
    <3>1. csm[n].ml = "STAGE1" => csm[n].wait = 0
      BY <1>5, <2>1, ZenonT(40) DEF Steady
    <3> QED
      BY <1>2, <1>5, <1>6, <2>1, <3>1, LoTurn, ZenonT(40)
  <2>2. CASE n = Hi
    BY <1>2, <1>5, <1>6, <2>2, HiTurn, ZenonT(40)
  <2> QED
    BY <2>1, <2>2, ZenonT(40) DEF Node
<1>12. ASSUME csm[p].sock = k
       PROVE  /\ Pending(p)' = Pending(p) \o ms /\ Pending(p) \in Seq(Msg)
              /\ Side(p, csm[p], Pending(p))
              /\ n = Lo => Both(csm[n], csm[p], q, Pending(p))
              /\ n = Hi => Both(csm[p], csm[n], Pending(p), q)
  <2>1. endp[k][p] = "open"
    BY <1>1, <1>3, <1>12, ZenonT(40) DEF Inv, NoLeakedSocket
  <2>2. csm[p].mlq \in Seq(Msg) /\ wire[k][p] \in Seq(Msg) /\ wire'[k][p] = wire[k][p] \o ms
    BY <1>1, <1>3, <1>9, <2>1, SideFacts, ZenonT(40)
  <2>3. Pending(p)' = csm[p].mlq \o (wire[k][p] \o ms) /\ Pending(p) = csm[p].mlq \o wire[k][p]
    BY <1>4, <1>12, <2>2, ZenonT(40) DEF Pending
  <2>4. Pending(p)' = Pending(p) \o ms /\ Pending(p) \in Seq(Msg)
    <3> DEFINE a == csm[p].mlq
               b == wire[k][p]
    <3>1. a \in Seq(Msg) /\ b \in Seq(Msg)
      BY <2>2, ZenonT(40)
    <3> HIDE DEF a, b
    <3>2. a \o b \in Seq(Msg) /\ a \o (b \o ms) = (a \o b) \o ms
      BY <1>7, <3>1, CatAssoc, SMTT(40)
    <3> QED
      BY <2>3, <3>2, ZenonT(40) DEF a, b
  <2>5. Side(p, csm[p], Pending(p))
    BY <1>1, <1>3, <1>12, ZenonT(40) DEF SInv, Sides
  <2>6. SameConn /\ Both(csm[Lo], csm[Hi], Pending(Lo), Pending(Hi))
    <3>1. SameConn
      BY <1>1, <1>12, ZenonT(40) DEF SameConn, Peer, Node
    <3> QED
      BY <3>1, ZenonT(40) DEF SInv, Joint
  <2>7. n = Lo => p = Hi
    BY Zenon DEF Peer
  <2>8. n = Hi => p = Lo
    BY TwoNodes, ZenonT(40) DEF Peer
  <2> QED
    BY <1>10, <2>4, <2>5, <2>6, <2>7, <2>8, ZenonT(40)
<1>13. ASSUME csm[p].sock # k, csm[p].sock # None PROVE Pending(p)' = Pending(p)
  <2>1. csm[p].sock \in Conn
    BY <1>3, <1>13, SideFacts, ZenonT(40)
  <2> QED
    BY <1>3, <1>4, <1>9, <1>13, <2>1, ZenonT(40) DEF Pending
<1>14. ASSUME csm[p].sock = k
       PROVE  /\ Side(p, csm[p], Pending(p) \o ms)
              /\ n = Lo => Both(d, csm[p], r, Pending(p) \o ms)
              /\ n = Hi => Both(csm[p], d, Pending(p) \o ms, r)
  <2> DEFINE y == Pending(p)
  <2>1. /\ y \in Seq(Msg) /\ Side(p, csm[p], y)
        /\ n = Lo => Both(csm[n], csm[p], q, y)
        /\ n = Hi => Both(csm[p], csm[n], y, q)
    BY <1>12, <1>14, ZenonT(40)
  <2>2. csm[p].wait \in {0, 1}
    BY <1>3, SideFacts, ZenonT(40) DEF CsmRecord
  <2> HIDE DEF y, q, r, k
  <2>3. CASE n = Lo
    <3>1. p = Hi /\ (csm[n].ml = "STAGE1" => csm[n].wait = 0)
      BY <1>5, <2>3, ZenonT(40) DEF Peer, Steady
    <3>2. \A h : \A qh \in Seq(Msg) :
               Side(Hi, h, qh) /\ Both(csm[n], h, q, qh) =>
                  Side(Hi, h, qh \o ms) /\ Both(d, h, r, qh \o ms)
      BY <1>2, <1>5, <1>6, <2>3, <3>1, LoTurn, ZenonT(40)
    <3> QED
      BY <2>1, <2>3, <3>1, <3>2, TwoNodes, ZenonT(40) DEF y
  <2>4. CASE n = Hi
    <3>1. p = Lo
      BY <2>4, TwoNodes, ZenonT(40) DEF Peer
    <3>2. \A l : \A ql \in Seq(Msg) :
               l.wait \in {0, 1} /\ Side(Lo, l, ql) /\ Both(l, csm[n], ql, q) =>
                  Side(Lo, l, ql \o ms) /\ Both(l, d, ql \o ms, r)
      BY <1>2, <1>5, <1>6, <2>4, HiTurn, ZenonT(40)
    <3> QED
      BY <2>1, <2>2, <2>4, <3>1, <3>2, TwoNodes, ZenonT(40) DEF y
  <2> QED
    BY <2>3, <2>4, ZenonT(40) DEF Node
<1>15. Sides'
  <2>1. csm'[p].sock # None => Side(p, csm'[p], Pending(p)')
    <3>1. CASE csm[p].sock = k
      BY <1>4, <1>12, <1>14, <3>1, ZenonT(40)
    <3>2. CASE csm[p].sock # k
      BY <1>3, <1>4, <1>13, <3>2, ZenonT(40) DEF SInv, Sides
    <3> QED
      BY <3>1, <3>2, ZenonT(40)
  <2> QED
    BY <1>3, <1>4, <1>5, <1>10, <1>11, <2>1, ZenonT(40) DEF Sides
<1>16. Joint'
  <2> SUFFICES ASSUME SameConn' PROVE Both(csm'[Lo], csm'[Hi], Pending(Lo)', Pending(Hi)')
    BY ZenonT(40) DEF Joint
  <2>1. csm[p].sock = k
    BY <1>3, <1>4, TwoNodes, ZenonT(40) DEF SameConn, Node
  <2>2. /\ Pending(p)' = Pending(p) \o ms
        /\ n = Lo => Both(csm'[n], csm'[p], Pending(n)', Pending(p)')
        /\ n = Hi => Both(csm'[p], csm'[n], Pending(p)', Pending(n)')
    BY <1>4, <1>10, <1>12, <1>14, <2>1, ZenonT(40)
  <2>3. CASE n = Lo
    <3>1. p = Hi
      BY <2>3, ZenonT(40) DEF Peer
    <3> QED
      BY <2>2, <2>3, <3>1, ZenonT(40)
  <2>4. CASE n = Hi
    <3>1. p = Lo
      BY <2>4, TwoNodes, ZenonT(40) DEF Peer
    <3> QED
      BY <2>2, <2>4, <3>1, ZenonT(40)
  <2> QED
    BY <2>3, <2>4, ZenonT(40) DEF Node
<1>17. endp[k][p] # "backlog"
  <2>1. CASE n = Lo
    <3>1. p = Hi
      BY <2>1, ZenonT(40) DEF Peer
    <3> QED
      BY <1>1, <2>1, <3>1, ZenonT(40) DEF SInv, Backlog, Waiting, Early
  <2>2. CASE n = Hi
    <3>1. p = Lo
      BY <2>2, TwoNodes, Zenon DEF Peer
    <3> QED
      BY <1>1, <3>1, ZenonT(40) DEF SInv, Backlog
  <2> QED
    BY <2>1, <2>2, ZenonT(40) DEF Node
<1>18. Shut'
  <2> SUFFICES ASSUME NEW j \in Conn, NEW x \in Node, endp[j][x] = "closed" PROVE wire'[j][x] = <<>>
    BY ZenonT(40) DEF Shut
  <2>1. wire[j][x] = <<>>
    BY ZenonT(40) DEF SInv, Shut
  <2> QED
    BY <1>3, <1>9, <2>1, ZenonT(40)
<1>19. Backlog'
  <2> SUFFICES ASSUME NEW j \in Conn, endp[j][Hi] = "backlog" PROVE Waiting(j)'
    BY ZenonT(40) DEF SInv, Backlog
  <2>1. Waiting(j)
    BY ZenonT(40) DEF SInv, Backlog
  <2>2. j # k
    BY <1>3, <1>8, <1>17, TwoNodes, ZenonT(40)
  <2>3. wire'[j][Lo] = wire[j][Lo] /\ wire'[j][Hi] = wire[j][Hi]
    BY <1>9, <2>2, TwoNodes, ZenonT(40)
  <2>4. csm'[Lo].sock = j => csm'[Lo] = csm[Lo]
    BY <1>3, <1>4, <2>2, TwoNodes, ZenonT(40)
  <2> QED
    BY <2>1, <2>3, <2>4, ZenonT(40) DEF Waiting
<1>20. /\ csm[n].ml = d.ml \/ (csm[n].ml = "INIT" /\ d.ml = "STAGE1")
          \/ (csm[n].ml = "STAGE1" /\ d.ml = "STAGE2" /\ (n = Hi => Has(q, "SYNC_DONE")))
          \/ (csm[n].ml = "STAGE2" /\ d.ml = "EXCHANGE" /\ (n = Lo => Has(q, "SYNC_DONE")))
  <2>1. m.type = "SYNC_DONE" => Has(q, "SYNC_DONE")
    <3> HIDE DEF q, r
    <3>1. \A t \in Moves : Left(q, m, r, t)
      BY <1>2, <1>6, TookFacts, ZenonT(40)
    <3> QED
      BY <3>1, ZenonT(40) DEF Left, Moves
  <2> HIDE DEF q
  <2>2. CASE n = Lo
    BY <2>1, <2>2, TwoNodes, ZenonT(40) DEF LoMove
  <2>3. CASE n = Hi
    BY <2>1, <2>3, TwoNodes, ZenonT(40) DEF HiMove
  <2> QED
    BY <2>2, <2>3, ZenonT(40) DEF Node
<1>21. ASSUME csm[p].sock = k, csm[n].ml # d.ml
       PROVE  /\ n = Lo /\ csm[n].ml = "STAGE2" => csm[p].ml = "EXCHANGE"
              /\ n = Hi /\ csm[n].ml \in {"STAGE1", "STAGE2"} => csm[p].ml = "STAGE2"
  <2> DEFINE y == Pending(p)
  <2>1. /\ n = Lo => Both(csm[n], csm[p], q, y)
        /\ n = Hi => Both(csm[p], csm[n], y, q)
    BY <1>12, <1>21, ZenonT(40)
  <2> HIDE DEF y, q, p
  <2>2. CASE n = Lo
    BY <1>20, <1>21, <2>1, <2>2, TwoNodes, ZenonT(40) DEF Both
  <2>3. CASE n = Hi
    BY <1>20, <1>21, <2>1, <2>3, TwoNodes, ZenonT(40) DEF Both
  <2> QED
    BY <2>2, <2>3, ZenonT(40) DEF Node
<1>22. Maps
  <2>1. CASE csm[n].ml = d.ml
    BY <1>3, <1>4, <2>1, SameMap, ZenonT(40)
  <2>2. CASE csm[n].ml # d.ml
    <3>1. Height(csm[n]) \in 5 .. 7 /\ Height(csm'[n]) = Height(csm[n]) + 1
      BY <1>1, <1>4, <1>20, <2>2, HeightOf, SMTT(40)
    <3>2. /\ Height(csm[n]) = 7 => csm[n].ml = "STAGE2"
          /\ Height(csm[n]) = 6 => csm[n].ml = "STAGE1"
      BY <1>1, <1>20, <2>2, HeightOf, SMTT(40)
    <3>3. /\ csm[p].ml = "EXCHANGE" => Height(csm[p]) = 8
          /\ csm[p].ml = "STAGE2" => Height(csm[p]) = 7
      BY <1>3, SideFacts, HeightOf, ZenonT(40)
    <3>4. SameConn => csm[p].sock = k
      BY <1>3, TwoNodes, ZenonT(40) DEF SameConn, Node
    <3>5. (n = Lo => p = Hi) /\ (n = Hi => p = Lo)
      BY TwoNodes, ZenonT(40) DEF Peer
    <3> HIDE DEF p, k
    <3>6. SameConn => /\ n = Lo /\ Height(csm[n]) = 7 => Height(csm[Hi]) = 8
                      /\ n = Hi /\ Height(csm[n]) = 6 => Height(csm[Lo]) = 7
                      /\ n = Hi /\ Height(csm[n]) = 7 => Height(csm[Lo]) \in {7, 8}
      BY <1>21, <2>2, <3>2, <3>3, <3>4, <3>5, ZenonT(40)
    <3>7. csm'[Peer(n)] = csm[Peer(n)] /\ csm[n].sock # None /\ csm'[n].sock = csm[n].sock
      BY <1>1, <1>4, ZenonT(40) DEF p, k
    <3> QED
      BY <3>1, <3>6, <3>7, ClimbMap, ZenonT(40)
  <2> QED
    BY <2>1, <2>2, ZenonT(40)
<1> QED
  BY <1>15, <1>16, <1>18, <1>19, <1>22, ZenonT(40) DEF SInv

\* the message of a turn: not one that the stage could not handle
LEMMA TurnTakes ==
  ASSUME Inv, SInv, NEW n \in Node, pc[n] = "loop"
  PROVE  LET b == csm[n]
             c == BeginTurn(b)
             m == TurnMsg(b)
         IN  /\ b \in CsmRecord /\ c \in CsmRecord /\ Steady(n, b)
             /\ b.app = "OPERATIONAL" /\ b.st = "OPERATIONAL" /\ b.role = RoleOf(n)
             /\ \/ m = NoMsg /\ c.mlq = b.mlq
                \/ b.mlq # <<>> /\ m = Head(b.mlq) /\ c.mlq = Tail(b.mlq)
             /\ c.sock = b.sock /\ c.role = b.role /\ c.st = b.st /\ c.need = 0 /\ c.status = b.status
             /\ b.sock # None
             /\ c.ml = IF b.ml = "INIT" THEN "STAGE1" ELSE b.ml
             /\ c.wait = IF b.ml = "INIT" THEN 0 ELSE b.wait
             /\ b.ml = "INIT" => m = NoMsg
             /\ m.type # "PURGE"
             /\ b.ml = "EXCHANGE" => m.type \notin {"SYNC_REQUEST", "SYNC_DONE"}
             /\ b.ml = "STAGE2" /\ n = Lo => m.type # "SYNC_REQUEST"
             /\ b.ml = "STAGE1" /\ n = Hi => m.type # "SYNC_REQUEST"
             /\ b.ml # "EXCHANGE" => m.type # "UPDATE"
<1> DEFINE b == csm[n]
           c == BeginTurn(b)
           m == TurnMsg(b)
           w == wire[b.sock][n]
           q == b.mlq \o w
           r == c.mlq \o w
<1>1. b.app = "OPERATIONAL" /\ b.st = "OPERATIONAL" /\ b \in CsmRecord /\ b.sock # None
  BY SideFacts, TwoNodes, ZenonT(40) DEF Inv, LoopUp, Sessions, Sound
<1>2. b.mlq \in Seq(Msg) /\ w \in Seq(Msg)
  BY <1>1, SideFacts, ZenonT(40)
<1>3. c \in CsmRecord
  BY <1>1, TurnMsgType, ZenonT(40)
<1>4. Steady(n, b) /\ Side(n, b, q)
  BY <1>1, ZenonT(40) DEF SInv, Sides, Pending
<1>5. /\ \/ m = NoMsg /\ c.mlq = b.mlq
         \/ b.mlq # <<>> /\ m = Head(b.mlq) /\ c.mlq = Tail(b.mlq)
      /\ b.ml = "INIT" => m = NoMsg
  BY <1>1, <1>3, ZenonT(40) DEF BeginTurn, TurnMsg, DropHead, CsmRecord
<1>6. /\ c.sock = b.sock /\ c.role = b.role /\ c.st = b.st /\ c.need = b.need /\ c.status = b.status
      /\ c.ml = IF b.ml = "INIT" THEN "STAGE1" ELSE b.ml
      /\ c.wait = IF b.ml = "INIT" THEN 0 ELSE b.wait
  BY <1>1, ZenonT(40) DEF BeginTurn, CsmRecord
<1>7. b.role = RoleOf(n) /\ b.need = 0
  BY <1>1, <1>4, ZenonT(40) DEF Steady
<1> HIDE DEF c, m, b, w
<1>8. q \in Seq(Msg) /\ Took(q, m, r)
  <2>1. q \in Seq(Msg)
    BY <1>2, SMTT(40)
  <2>2. CASE m = NoMsg /\ c.mlq = b.mlq
    BY <2>1, <2>2, ZenonT(40) DEF Took
  <2>3. CASE b.mlq # <<>> /\ m = Head(b.mlq) /\ c.mlq = Tail(b.mlq)
    <3>1. Tail(b.mlq) \o w = Tail(q) /\ Head(q) = Head(b.mlq) /\ q # <<>>
      BY <1>2, <2>3, DequeueTail, ZenonT(40)
    <3> QED
      BY <2>1, <2>3, <3>1, ZenonT(40) DEF Took
  <2> QED
    BY <1>5, <2>2, <2>3, ZenonT(40)
<1> HIDE DEF q, r
<1>9. /\ \A t \in {"SYNC_REQUEST", "SYNC_DONE", "UPDATE", "PURGE"} : m.type = t => Has(q, t)
      /\ After(q, "SYNC_REQUEST", "SYNC_DONE") => m.type # "SYNC_REQUEST"
      /\ After(q, "UPDATE", "SYNC_DONE") => m.type # "UPDATE"
  BY <1>8, TookFacts, SMTT(40) DEF Moves, Left
<1>10. b.ml \in {"INIT", "STAGE1", "STAGE2", "EXCHANGE"}
  BY <1>1, <1>4, ZenonT(40) DEF CsmRecord, MlacpState, Steady
<1>11. /\ m.type # "PURGE"
       /\ b.ml = "EXCHANGE" => m.type \notin {"SYNC_REQUEST", "SYNC_DONE"}
       /\ b.ml = "STAGE2" /\ n = Lo => m.type # "SYNC_REQUEST"
       /\ b.ml = "STAGE1" /\ n = Hi => m.type # "SYNC_REQUEST"
       /\ b.ml # "EXCHANGE" => m.type # "UPDATE"
  <2>1. CASE n = Lo
    BY <1>4, <1>9, <1>10, <2>1, TwoNodes, Zenon DEF Side, LoSide
  <2>2. CASE n = Hi
    BY <1>4, <1>9, <1>10, <2>2, TwoNodes, ZenonT(40) DEF Side, HiSide
  <2> QED
    BY <2>1, <2>2, Zenon DEF Node
<1> QED
  BY <1>1, <1>3, <1>4, <1>5, <1>6, <1>7, <1>11, ZenonT(40) DEF b, c, m

LEMMA StageSendSync ==
  ASSUME Inv, SInv, NEW n \in Node, TurnStageSend(n)
  PROVE  SInv' /\ Maps
<1> DEFINE b == csm[n]
           c == BeginTurn(b)
           m == TurnMsg(b)
           d == StageSent(c, m)
           ms == IF c.wait = 0 THEN Reply(n, m) ELSE <<>>
           s == IF m.type = "SYNC_REQUEST" THEN "SYNC_DONE" ELSE "NONE"
<1>1. StageSends(c) /\ Turn(n, d, ms)
  BY Zenon DEF TurnStageSend
<1>2. /\ csm' = [csm EXCEPT ![n] = d] /\ Deliver(n, d.sock, ms) /\ pc[n] = "loop" /\ endp' = endp
  BY <1>1, ZenonT(40) DEF Turn
<1>3. /\ b \in CsmRecord /\ c \in CsmRecord /\ Steady(n, b)
      /\ b.app = "OPERATIONAL" /\ b.st = "OPERATIONAL" /\ b.role = RoleOf(n)
      /\ \/ m = NoMsg /\ c.mlq = b.mlq
         \/ b.mlq # <<>> /\ m = Head(b.mlq) /\ c.mlq = Tail(b.mlq)
      /\ c.sock = b.sock /\ c.role = b.role /\ c.st = b.st /\ c.need = 0 /\ c.status = b.status
      /\ b.sock # None
      /\ c.ml = IF b.ml = "INIT" THEN "STAGE1" ELSE b.ml
      /\ c.wait = IF b.ml = "INIT" THEN 0 ELSE b.wait
      /\ b.ml = "INIT" => m = NoMsg
  BY <1>2, TurnTakes, ZenonT(40)
<1> HIDE DEF b, c, m
<1>4. (c.ml = "STAGE1" /\ n = Lo) \/ (c.ml = "STAGE2" /\ n = Hi)
  <2>1. CASE n = Lo
    <3>1. c.role = "ACTIVE"
      BY <1>3, <2>1, ZenonT(40) DEF RoleOf
    <3> QED
      BY <1>1, <2>1, <3>1, ZenonT(40) DEF StageSends
  <2>2. CASE n = Hi
    <3>1. c.role = "STANDBY"
      BY <1>3, <2>2, TwoNodes, ZenonT(40) DEF RoleOf
    <3> QED
      BY <1>1, <2>2, <3>1, ZenonT(40) DEF StageSends
  <2> QED
    BY <2>1, <2>2, ZenonT(40) DEF Node
<1>5. c.wait = 0
  BY <1>3, <1>4, TwoNodes, ZenonT(40) DEF Steady
<1>6. /\ d.sock = c.sock /\ d.role = c.role /\ d.st = c.st /\ d.need = c.need /\ d.mlq = c.mlq
      /\ d.status = c.status /\ d.wait = 0
      /\ m.type = "SYNC_REQUEST" => d.ml = IF c.ml = "STAGE1" THEN "STAGE2" ELSE "EXCHANGE"
      /\ m.type # "SYNC_REQUEST" => d.ml = c.ml
  BY <1>3, <1>4, <1>5, ZenonT(40) DEF StageSent, AllInfoSent, NextMlacpState, CsmRecord
<1>7. Carries(ms, s)
  BY <1>5, CarriesWhat, ZenonT(40) DEF Reply
<1> HIDE DEF d, ms
<1>8. n = Lo => LoMove(b, d, m, s)
  BY <1>3, <1>4, <1>5, <1>6, TwoNodes, SMTT(40) DEF LoMove, NoMsg
<1>9. n = Hi => HiMove(b, d, m, s)
  BY <1>3, <1>4, <1>5, <1>6, TwoNodes, ZenonT(40) DEF HiMove, NoMsg
<1>10. Steady(n, d)
  BY <1>3, <1>4, <1>6, TwoNodes, ZenonT(40) DEF Steady
<1> HIDE DEF s
<1> QED
  BY <1>2, <1>3, <1>6, <1>7, <1>8, <1>9, <1>10, TurnSync, ZenonT(40) DEF b

LEMMA StageRequestSync ==
  ASSUME Inv, SInv, NEW n \in Node, TurnStageRequest(n)
  PROVE  SInv' /\ Maps
<1> DEFINE b == csm[n]
           c == BeginTurn(b)
           m == TurnMsg(b)
           d == StageRequested(c, m)
           ms == IF c.wait = 0 THEN <<AppMsg(n, "SYNC_REQUEST")>> ELSE Reply(n, m)
           s == IF c.wait = 0 THEN "SYNC_REQUEST" ELSE "NONE"
<1>1. StageRequests(c) /\ Turn(n, d, ms)
  BY Zenon DEF TurnStageRequest
<1>2. /\ csm' = [csm EXCEPT ![n] = d] /\ Deliver(n, d.sock, ms) /\ pc[n] = "loop" /\ endp' = endp
  BY <1>1, ZenonT(40) DEF Turn
<1>3. /\ b \in CsmRecord /\ c \in CsmRecord /\ Steady(n, b)
      /\ b.app = "OPERATIONAL" /\ b.st = "OPERATIONAL" /\ b.role = RoleOf(n)
      /\ \/ m = NoMsg /\ c.mlq = b.mlq
         \/ b.mlq # <<>> /\ m = Head(b.mlq) /\ c.mlq = Tail(b.mlq)
      /\ c.sock = b.sock /\ c.role = b.role /\ c.st = b.st /\ c.need = 0 /\ c.status = b.status
      /\ b.sock # None
      /\ c.ml = IF b.ml = "INIT" THEN "STAGE1" ELSE b.ml
      /\ c.wait = IF b.ml = "INIT" THEN 0 ELSE b.wait
      /\ b.ml = "INIT" => m = NoMsg
      /\ m.type # "PURGE"
      /\ b.ml = "STAGE2" /\ n = Lo => m.type # "SYNC_REQUEST"
      /\ b.ml = "STAGE1" /\ n = Hi => m.type # "SYNC_REQUEST"
  BY <1>2, TurnTakes, ZenonT(40)
<1> HIDE DEF b, c, m
<1>4. (c.ml = "STAGE1" /\ n = Hi) \/ (c.ml = "STAGE2" /\ n = Lo)
  <2>1. CASE n = Lo
    <3>1. c.role = "ACTIVE"
      BY <1>3, <2>1, ZenonT(40) DEF RoleOf
    <3> QED
      BY <1>1, <2>1, <3>1, ZenonT(40) DEF StageRequests
  <2>2. CASE n = Hi
    <3>1. c.role = "STANDBY"
      BY <1>3, <2>2, TwoNodes, ZenonT(40) DEF RoleOf
    <3> QED
      BY <1>1, <2>2, <3>1, ZenonT(40) DEF StageRequests
  <2> QED
    BY <2>1, <2>2, ZenonT(40) DEF Node
<1>5. c.wait \in {0, 1} /\ b.wait \in {0, 1} /\ (b.ml # "INIT" => m.type # "SYNC_REQUEST")
  BY <1>3, <1>4, ZenonT(40) DEF CsmRecord
<1>6. /\ d.sock = c.sock /\ d.role = c.role /\ d.st = c.st /\ d.need = c.need /\ d.mlq = c.mlq
      /\ d.status = c.status
      /\ c.wait = 0 => d.ml = c.ml /\ d.wait = 1
      /\ c.wait = 1 /\ m.type = "SYNC_DONE" =>
            d.ml = (IF c.ml = "STAGE1" THEN "STAGE2" ELSE "EXCHANGE") /\ d.wait = 0
      /\ c.wait = 1 /\ m.type # "SYNC_DONE" => d.ml = c.ml /\ d.wait = 1
  <2>1. CASE c.wait = 0
    BY <1>3, <2>1, SMTT(40) DEF StageRequested, CsmRecord
  <2>2. CASE c.wait = 1
    <3> DEFINE e == Received(c, m)
    <3>1. m.type \notin {"SYNC_REQUEST", "PURGE"}
      BY <1>3, <1>5, <2>2, SMTT(40)
    <3>2. /\ e \in CsmRecord
          /\ e.sock = c.sock /\ e.role = c.role /\ e.st = c.st /\ e.need = c.need /\ e.mlq = c.mlq
          /\ e.status = c.status /\ e.ml = c.ml
          /\ e.wait = IF m.type = "SYNC_DONE" THEN 0 ELSE c.wait
      <4>1. e \in CsmRecord
        BY <1>3, ReceivedType, Zenon
      <4> QED
        BY <1>3, <3>1, <4>1, SMTT(40) DEF Received, CsmRecord
    <3>3. d = IF e.wait = 0 THEN [e EXCEPT !.ml = NextMlacpState(@)] ELSE e
      BY <2>2, SMTT(40) DEF StageRequested
    <3> HIDE DEF e, d
    <3> QED
      BY <1>4, <2>2, <3>2, <3>3, SMTT(40) DEF NextMlacpState, CsmRecord
  <2> QED
    BY <1>5, <2>1, <2>2, ZenonT(40)
<1>7. Carries(ms, s)
  <2>1. c.wait # 0 => m.type # "SYNC_REQUEST"
    BY <1>3, <1>5, Zenon
  <2> QED
    BY <2>1, CarriesWhat, ZenonT(40) DEF Reply
<1> HIDE DEF d, ms
<1>8. n = Lo => LoMove(b, d, m, s)
  BY <1>3, <1>4, <1>5, <1>6, TwoNodes, ZenonT(40) DEF LoMove
<1>9. n = Hi => HiMove(b, d, m, s)
  BY <1>3, <1>4, <1>5, <1>6, TwoNodes, SMTT(40) DEF HiMove, Steady
<1>10. Steady(n, d)
  BY <1>3, <1>4, <1>5, <1>6, TwoNodes, ZenonT(40) DEF Steady
<1> HIDE DEF s
<1> QED
  BY <1>2, <1>3, <1>6, <1>7, <1>8, <1>9, <1>10, TurnSync, ZenonT(40) DEF b

LEMMA ExchangeSync ==
  ASSUME Inv, SInv, "PURGE" \notin Update, NEW n \in Node, TurnExchange(n)
  PROVE  SInv' /\ Maps
<1> DEFINE b == csm[n]
           c == BeginTurn(b)
           m == TurnMsg(b)
           e == Received(c, m)
           d == [e EXCEPT !.need = 0]
           x == IF e.need = 1 THEN <<AppMsg(n, "SYNC_REQUEST")>> ELSE <<>>
<1>1. c.ml = "EXCHANGE"
  BY Zenon DEF TurnExchange
<1>2. PICK u \in {<<>>} \cup {<<AppMsg(n, t)>> : t \in Update} : Turn(n, d, Reply(n, m) \o x \o u)
  BY Zenon DEF TurnExchange
<1>3. pc[n] = "loop"
  BY <1>2, ZenonT(40) DEF Turn
<1>4. /\ b \in CsmRecord /\ c \in CsmRecord /\ Steady(n, b)
      /\ \/ m = NoMsg /\ c.mlq = b.mlq
         \/ b.mlq # <<>> /\ m = Head(b.mlq) /\ c.mlq = Tail(b.mlq)
      /\ c.sock = b.sock /\ c.role = b.role /\ c.st = b.st /\ c.need = 0 /\ c.status = b.status
      /\ b.sock # None /\ b.st = "OPERATIONAL"
      /\ b.ml = "EXCHANGE"
      /\ m.type \notin {"SYNC_REQUEST", "SYNC_DONE", "PURGE"}
  BY <1>1, <1>3, TurnTakes, ZenonT(40)
<1> HIDE DEF b, c, m
<1>5. /\ e \in CsmRecord
      /\ e.sock = c.sock /\ e.role = c.role /\ e.st = c.st /\ e.need = 0 /\ e.mlq = c.mlq
      /\ e.status = c.status /\ e.ml = c.ml
  <2>1. e \in CsmRecord
    BY <1>4, ReceivedType, ZenonT(40)
  <2> QED
    BY <1>4, <2>1, SMTT(40) DEF Received, CsmRecord
<1> HIDE DEF e
<1>6. /\ d.sock = b.sock /\ d.role = b.role /\ d.st = b.st /\ d.need = 0 /\ d.mlq = c.mlq
      /\ d.status = b.status /\ d.ml = "EXCHANGE"
  BY <1>1, <1>4, <1>5, SMTT(40) DEF CsmRecord
<1>7. Reply(n, m) = <<>> /\ x = <<>>
  BY <1>4, <1>5, SMTT(40) DEF Reply
<1> DEFINE s == IF u = <<>> THEN "NONE" ELSE "UPDATE"
<1>8. Carries(u, s)
  <2>1. CASE u = <<>>
    BY <2>1, CarriesWhat, ZenonT(40)
  <2>2. ASSUME NEW t \in Update, u = <<AppMsg(n, t)>> PROVE Carries(u, s)
    <3>1. t = "UPDATE"
      BY SessionAssumption, ZenonT(40)
    <3>2. u # <<>>
      BY <2>2, Zenon
    <3> QED
      BY <2>2, <3>1, <3>2, CarriesWhat, ZenonT(40)
  <2> QED
    BY <2>1, <2>2, Zenon
<1>9. Reply(n, m) \o x \o u = u
  <2>1. u \in Seq(Msg)
    BY <1>8, ZenonT(40) DEF Carries
  <2>2. <<>> \o <<>> \o u = u
    BY <2>1, SMTT(40)
  <2> QED
    BY <1>7, <2>2, ZenonT(40)
<1> HIDE DEF d, x
<1>10. /\ csm' = [csm EXCEPT ![n] = d] /\ Deliver(n, d.sock, u) /\ endp' = endp
  BY <1>2, <1>9, Zenon DEF Turn
<1>11. LoMove(b, d, m, s) /\ HiMove(b, d, m, s)
  BY <1>4, <1>6, ZenonT(40) DEF LoMove, HiMove
<1>12. Steady(n, d)
  BY <1>4, <1>6, ZenonT(40) DEF Steady
<1> HIDE DEF s
<1> QED
  BY <1>3, <1>4, <1>6, <1>8, <1>10, <1>11, <1>12, TurnSync, ZenonT(40) DEF b

LEMMA LoopSync ==
  ASSUME Inv, SInv, "PURGE" \notin Update, NEW n \in Node, MlacpLoop(n)
  PROVE  SInv' /\ Maps
<1>1. ~TurnError(n)
  BY ZenonT(40) DEF TurnError, SInv, Sides, Steady
<1> QED
  BY <1>1, StageSendSync, StageRequestSync, ExchangeSync, ZenonT(40) DEF MlacpLoop

-----------------------------------------------------------------------------
(* The invariant holds.                                                    *)

LEMMA InitSync == Init => SInv
<1> SUFFICES ASSUME Init PROVE SInv
  BY Zenon
<1>1. \A n \in Node : csm[n] = InitCsm
  BY Zenon DEF Init
<1>2. \A k \in Conn, n \in Node : endp[k][n] = "closed" /\ wire[k][n] = <<>>
  BY Zenon DEF Init
<1>3. Shut /\ Backlog
  BY <1>2, TwoNodes, ZenonT(40) DEF Shut, Backlog
<1>4. Sides
  BY <1>1, FreshSteady, InitCsmType, ZenonT(40) DEF Sides
<1>5. Joint
  BY <1>1, TwoNodes, SMTT(40) DEF Joint, SameConn, InitCsm
<1> QED
  BY <1>3, <1>4, <1>5, ZenonT(40) DEF SInv

LEMMA NextSync ==
  ASSUME "PURGE" \notin Update, Inv, SInv, AddressesKept, AddressesKept', [Next]_vars
  PROVE  SInv' /\ Maps
<1>1. ASSUME NEW n \in Node, Events(n) PROVE SInv' /\ Maps
  BY <1>1, ReadMsgSync, DisconnectStep, AcceptSync, RejectSync, ZenonT(40) DEF Events, ReadEof, ReadFail
<1>2. ASSUME NEW n \in Node, Transit(n) PROVE SInv' /\ Maps
  BY <1>2, DisconnectStep, ConnectSync, NonexistentSync, SessionSync, ZenonT(40) DEF Transit, TransitTimeout
<1>3. ASSUME NEW n \in Node, Config(n) PROVE SInv' /\ Maps
  <2>1. ASSUME NEW a \in {"sender", "peer"}, SetAddress(n, a) PROVE FALSE
    BY <2>1, ZenonT(40) DEF SetAddress, AddressesKept, AddrSet
  <2>2. ASSUME NEW a \in {"sender", "peer"}, UnsetAddress(n, a) PROVE FALSE
    <3>1. addr'[n] = addr[n] \ {a}
      BY <2>2, ZenonT(40) DEF UnsetAddress, Inv, TypeOK
    <3>2. addr'[n] = {"sender", "peer"}
      BY ZenonT(40) DEF AddressesKept, AddrSet
    <3> QED
      BY <3>1, <3>2, ZenonT(40)
  <2>3. ASSUME NEW p \in {"none", "absent", "present"}, SetPeerLink(n, p) PROVE SInv' /\ Maps
    BY <2>3, DisconnectStep, ZenonT(40) DEF SetPeerLink
  <2>4. CASE PeerLinkCreated(n)
    BY <2>4, EnvironmentSync, ZenonT(40) DEF PeerLinkCreated, tcpVars
  <2> QED
    BY <1>3, <2>1, <2>2, <2>3, <2>4, ZenonT(40) DEF Config
<1>4. ASSUME NEW n \in Node, Restart(n) PROVE SInv' /\ Maps
  BY <1>4, RestartSync, ZenonT(40)
<1>5. CASE LinkDown \/ LinkUp
  BY <1>5, EnvironmentSync, ZenonT(40) DEF LinkDown, LinkUp, tcpVars
<1>6. CASE Tick
  BY <1>6, TickSync, ZenonT(40)
<1>7. CASE UNCHANGED vars
  BY <1>7, EnvironmentSync, ZenonT(40) DEF vars
<1>8. ASSUME NEW n \in Node, MlacpLoop(n) PROVE SInv' /\ Maps
  BY <1>8, LoopSync, ZenonT(40)
<1> QED
  BY <1>1, <1>2, <1>3, <1>4, <1>5, <1>6, <1>7, <1>8, Zenon DEF Next, Daemon
-----------------------------------------------------------------------------
(* The theorems.                                                           *)

\* The inductive invariant, and the step simulation, along a behaviour in which
\* the daemons exchange no purge and nobody touches the addresses.
LEMMA SInvAlways ==
  ASSUME "PURGE" \notin Update
  PROVE  Spec /\ []AddressesKept => []SInv
<1>1. Inv /\ SInv /\ AddressesKept /\ AddressesKept' /\ [Next]_vars => SInv'
  BY NextSync, Zenon
<1> QED
  BY <1>1, InitSync, InvAlways, PTL DEF Spec

\* mlacp_fsm_transit dequeues whatever came: the stage handlers drop an update,
\* and nobody sends it again.  None is ever at the head of the queue of a daemon
\* that is still in a stage, for any number of connections, updates in flight,
\* restarts and lost reads: the SYNC_DONE that ends the stage is ahead of it.
THEOREM NoUpdateLostHolds ==
  ASSUME "PURGE" \notin Update
  PROVE  Spec /\ []AddressesKept => []NoUpdateLost
<1>1. ASSUME Inv, SInv PROVE NoUpdateLost
  BY <1>1, TurnTakes, ZenonT(40) DEF NoUpdateLost
<1> QED
  BY <1>1, SInvAlways, InvAlways, PTL

\* mlacp_stage_handler keeps the ends of one connection in step, and
\* mlacp_sync_send_all_info_handler never increments a state past EXCHANGE: on
\* one connection the ACTIVE node exchanges only with a peer that does so
\* already, and the STANDBY node is in STAGE2 or EXCHANGE only when the ACTIVE
\* node left STAGE1.
THEOREM StageAgreementHolds ==
  ASSUME "PURGE" \notin Update
  PROVE  Spec /\ []AddressesKept => []StageAgreement
<1>1. ASSUME Inv, SInv PROVE StageAgreement
  <2>1. ASSUME NEW n \in Node
        PROVE  /\ csm[n].ml = "INIT" => Height(csm[n]) \in 0 .. 5
               /\ csm[n].ml = "STAGE1" => Height(csm[n]) = 6
               /\ csm[n].ml = "STAGE2" => Height(csm[n]) = 7
               /\ csm[n].ml = "EXCHANGE" => Height(csm[n]) = 8
               /\ csm[n].ml \in {"INIT", "STAGE1", "STAGE2", "EXCHANGE"}
    <3>1. /\ csm[n].ml # "INIT" => csm[n].st = "OPERATIONAL"
          /\ csm[n] \in CsmRecord /\ csm[n].ml # "ERROR"
      BY <1>1, SideFacts, ZenonT(40) DEF SInv, Sides, Steady
    <3>2. /\ csm[n].ml \in {"INIT", "STAGE1", "STAGE2", "EXCHANGE"}
          /\ csm[n].st \in {"NONEXISTENT", "INITIALIZED", "CAPSENT", "CAPREC", "CONNECTING", "OPERATIONAL"}
      BY <3>1, ZenonT(40) DEF CsmRecord, MlacpState, IccpState
    <3> QED
      BY <3>1, <3>2, HeightOf, SMTT(40)
  <2>2. \A n \in Node : Height(csm[n]) \in Service!Stage
    BY <2>1, SMTT(40) DEF Service!Stage, Service!Exchange
  <2>3. Service!Agreement
    <3> DEFINE st == [x \in Node |-> Height(csm[x])]
               lk == [x \in Node |-> csm[x].sock]
    <3>1. /\ st[Lo] = Height(csm[Lo]) /\ st[Hi] = Height(csm[Hi])
          /\ lk[Lo] = csm[Lo].sock /\ lk[Hi] = csm[Hi].sock
      BY TwoNodes, Zenon
    <3> SUFFICES ASSUME Service!Joined
                 PROVE  /\ st[Lo] = Service!Exchange => st[Hi] = Service!Exchange
                        /\ st[Hi] = 7 => st[Lo] = 7
                        /\ st[Hi] = Service!Exchange => st[Lo] \in {7, Service!Exchange}
      BY Zenon DEF Service!Agreement
    <3>2. SameConn
      BY <3>1, Zenon DEF Service!Joined, SameConn
    <3>3. Both(csm[Lo], csm[Hi], Pending(Lo), Pending(Hi))
      BY <1>1, <3>2, Zenon DEF SInv, Joint
    <3>4. \/ csm[Lo].ml \in {"INIT", "STAGE1"} /\ csm[Hi].ml \in {"INIT", "STAGE1"}
          \/ csm[Lo].ml = "STAGE2" /\ csm[Hi].ml \in {"STAGE1", "STAGE2", "EXCHANGE"}
          \/ csm[Lo].ml = "EXCHANGE" /\ csm[Hi].ml = "EXCHANGE"
      BY <3>3, ZenonT(40) DEF Both
    <3> HIDE DEF st, lk
    <3> QED
      BY <2>1, <3>1, <3>4, TwoNodes, SMTT(40) DEF Service!Exchange
  <2> QED
    BY <2>2, <2>3, ZenonT(40) DEF StageAgreement
<1> QED
  BY <1>1, SInvAlways, InvAlways, PTL

LEMMA InitMap == Init => Service!Init
  BY HeightOf, SMTT(40) DEF Init, InitCsm, Service!Init, Service!End, Node

\* The ICCP session implements SyncService: between two members of one
\* redundancy group, every step of a daemon, of the network, of a command or of
\* a crash opens or closes a connection, goes forward in the handshake, climbs
\* one stage in the order mlacp_stage_handler imposes, or shows nothing.
THEOREM ServiceProvidedHolds ==
  ASSUME "PURGE" \notin Update, Rg[Lo] = Rg[Hi]
  PROVE  Spec /\ []AddressesKept => ServiceProvided
<1>1. Inv /\ SInv /\ AddressesKept /\ AddressesKept' /\ [Next]_vars
         => [Service!Next]_(Service!vars)
  BY NextSync, Zenon DEF Maps
<1> QED
  BY <1>1, InitMap, SInvAlways, InvAlways, PTL DEF Spec, ServiceProvided, Service!Spec

\* On a joined connection, whatever connections are taken up and given up, an
\* end of the service exchanges updates only with one that has its data
\* (mlacp_fsm_transit): the service alone gives what StageAgreement says.
THEOREM AgreementHolds == Service!Spec => []Service!Agreement
<1> DEFINE lk == [n \in Node |-> csm[n].sock]
           st == [n \in Node |-> Height(csm[n])]
           typed == lk \in [Node -> Conn \cup {None}] /\ st \in [Node -> 0 .. 8]
           rest == \A n \in Node : lk[n] = None => st[n] = 0
           agree == lk[Lo] # None /\ lk[Lo] = lk[Hi] =>
                      /\ st[Lo] = 8 => st[Hi] = 8
                      /\ st[Hi] = 7 => st[Lo] = 7
                      /\ st[Hi] = 8 => st[Lo] \in {7, 8}
           good == typed /\ rest /\ agree
<1>1. Service!Agreement <=> agree
    BY Zenon DEF Service!Agreement, Service!Joined, Service!Exchange
<1>2. Service!Init => lk = [n \in Node |-> None] /\ st = [n \in Node |-> 0]
    BY EndNode, Zenon DEF Service!Init
<1>3. ASSUME [Service!Next]_(Service!vars)
      PROVE  \/ lk' = lk /\ st' = st
             \/ \E n \in Node :
                  \/ lk' = [lk EXCEPT ![n] = None] /\ st' = [st EXCEPT ![n] = 0]
                  \/ /\ lk[n] # None /\ st[n] < 5 /\ st'[n] \in st[n] + 1 .. 5
                     /\ st' = [st EXCEPT ![n] = st'[n]] /\ lk' = lk
                  \/ /\ lk[n] # None /\ st[n] \in 5 .. 7
                     /\ st' = [st EXCEPT ![n] = @ + 1] /\ lk' = lk
                     /\ lk[Lo] # None /\ lk[Lo] = lk[Hi] =>
                          /\ n = Lo /\ st[n] = 7 => st[Hi] = 8
                          /\ n = Hi /\ st[n] = 6 => st[Lo] = 7
                          /\ n = Hi /\ st[n] = 7 => st[Lo] \in {7, 8}
                  \/ \E c \in Conn \ {None}, x \in {0, 1} :
                       /\ lk[n] = None /\ (lk[Peer(n)] = c => st[Peer(n)] < 5)
                       /\ lk' = [lk EXCEPT ![n] = c] /\ st' = [st EXCEPT ![n] = x]
    <2>1. CASE UNCHANGED Service!vars
        BY <2>1, Zenon DEF Service!vars
    <2>2. ASSUME NEW n \in Node, Service!Close(n) PROVE lk' = [lk EXCEPT ![n] = None] /\ st' = [st EXCEPT ![n] = 0]
        BY <2>2, Zenon DEF Service!Close
    <2>3. ASSUME NEW n \in Node, Service!Greet(n)
          PROVE  /\ lk[n] # None /\ st[n] < 5 /\ st'[n] \in st[n] + 1 .. 5
                 /\ st' = [st EXCEPT ![n] = st'[n]] /\ lk' = lk
        BY <2>3, Zenon DEF Service!Greet, Service!Operational
    <2>4. ASSUME NEW n \in Node, Service!Climb(n)
          PROVE  /\ lk[n] # None /\ st[n] \in 5 .. 8 - 1
                 /\ st' = [st EXCEPT ![n] = @ + 1] /\ lk' = lk
                 /\ lk[Lo] # None /\ lk[Lo] = lk[Hi] =>
                      /\ n = Lo /\ st[n] = 7 => st[Hi] = 8
                      /\ n = Hi /\ st[n] = 6 => st[Lo] = 7
                      /\ n = Hi /\ st[n] = 7 => st[Lo] \in {7, 8}
        BY <2>4, Zenon DEF Service!Climb, Service!Operational, Service!Exchange, Service!Joined, Service!Turn
    <2>5. ASSUME NEW n \in Node, NEW c \in Conn \ {None}, Service!Open(n, c)
          PROVE  \E x \in {0, 1} : /\ lk[n] = None /\ (lk[Peer(n)] = c => st[Peer(n)] < 5)
                                   /\ lk' = [lk EXCEPT ![n] = c] /\ st' = [st EXCEPT ![n] = x]
        BY <2>5, EndNode, Zenon DEF Service!Open, Service!Operational
    <2>6. 8 - 1 = 7
        OBVIOUS
    <2> HIDE DEF lk, st
    <2> QED
        BY <1>3, <2>1, <2>2, <2>3, <2>4, <2>5, <2>6, EndNode, ZenonT(40) DEF Service!Next
<1> HIDE DEF lk, st
<1>4. Service!Init => good
    BY <1>2, TwoNodes, SMTT(40)
<1>5. good /\ [Service!Next]_(Service!vars) => good'
    <2> SUFFICES ASSUME good, [Service!Next]_(Service!vars) PROVE good'
        BY Zenon
    <2> QED
        BY <1>3, TwoNodes, SMTT(40) DEF Peer
<1> QED
    BY <1>1, <1>4, <1>5, PTL DEF Service!Spec
=============================================================================
