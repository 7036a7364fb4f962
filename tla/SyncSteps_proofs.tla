------------------------- MODULE SyncSteps_proofs -------------------------
(***************************************************************************)
(* The steps of the session layer and the synchronisation of the two        *)
(* daemons: what they keep of the stages and of the messages between the    *)
(* stages, and the roles the daemons take.                                  *)
(***************************************************************************)
EXTENDS SyncRefinement, IccpSession_proofs

-----------------------------------------------------------------------------
(* What the proofs say about a queue of messages, by their types.          *)

Has(q, t) == \E i \in 1 .. Len(q) : q[i].type = t
Once(q, t) == \A i, j \in 1 .. Len(q) : q[i].type = t /\ q[j].type = t => i = j
\* every t comes after some u
After(q, t, u) == \A i \in 1 .. Len(q) : q[i].type = t => \E j \in 1 .. i - 1 : q[j].type = u

\* the types that move the synchronisation or may be lost in it
Moves == {"SYNC_REQUEST", "SYNC_DONE", "UPDATE", "PURGE"}

\* r holds the messages of q as far as Moves goes
Alike(q, r) ==
    /\ \A t \in Moves : (Has(q, t) <=> Has(r, t)) /\ (Once(q, t) => Once(r, t))
    /\ \A t, u \in Moves : After(q, t, u) => After(r, t, u)

LEMMA CatHas ==
  ASSUME NEW q \in Seq(Msg), NEW ms \in Seq(Msg), NEW t
  PROVE  /\ Has(q \o ms, t) <=> Has(q, t) \/ Has(ms, t)
         /\ Once(q, t) /\ ~Has(ms, t) => Once(q \o ms, t)
         /\ ~Has(q, t) /\ Once(ms, t) => Once(q \o ms, t)
<1> DEFINE r == q \o ms
<1>1. /\ Len(q) \in Nat /\ Len(ms) \in Nat /\ Len(r) = Len(q) + Len(ms)
      /\ \A i \in 1 .. Len(q) : r[i] = q[i]
      /\ \A i \in 1 .. Len(ms) : r[Len(q) + i] = ms[i]
      /\ \A i \in Len(q) + 1 .. Len(r) : r[i] = ms[i - Len(q)] /\ i - Len(q) \in 1 .. Len(ms)
  OBVIOUS
<1> HIDE DEF r
<1>2. Has(r, t) <=> Has(q, t) \/ Has(ms, t)
  <2>1. ASSUME Has(r, t) PROVE Has(q, t) \/ Has(ms, t)
    BY <1>1, <2>1, SMTT(40) DEF Has
  <2>2. ASSUME Has(q, t) PROVE Has(r, t)
    BY <1>1, <2>2 DEF Has
  <2>3. ASSUME Has(ms, t) PROVE Has(r, t)
    BY <1>1, <2>3, SMTT(40) DEF Has
  <2> QED
    BY <2>1, <2>2, <2>3, Zenon
<1>3. ASSUME Once(q, t), ~Has(ms, t) PROVE Once(r, t)
  <2> SUFFICES ASSUME NEW i \in 1 .. Len(r), NEW j \in 1 .. Len(r), r[i].type = t, r[j].type = t
               PROVE  i = j
    BY Zenon DEF Once
  <2>1. i \in 1 .. Len(q) /\ j \in 1 .. Len(q)
    BY <1>1, <1>3, SMTT(40) DEF Has
  <2> QED
    BY <1>1, <1>3, <2>1, Zenon DEF Once
<1>4. ASSUME ~Has(q, t), Once(ms, t) PROVE Once(r, t)
  <2> SUFFICES ASSUME NEW i \in 1 .. Len(r), NEW j \in 1 .. Len(r), r[i].type = t, r[j].type = t
               PROVE  i = j
    BY Zenon DEF Once
  <2>1. i \in Len(q) + 1 .. Len(r) /\ j \in Len(q) + 1 .. Len(r)
    BY <1>1, <1>4, SMTT(40) DEF Has
  <2>2. i - Len(q) = j - Len(q)
    BY <1>1, <1>4, <2>1, SMTT(40) DEF Once
  <2> QED
    BY <1>1, <2>2
<1> QED
  BY <1>2, <1>3, <1>4, Zenon DEF r

LEMMA CatAfter ==
  ASSUME NEW q \in Seq(Msg), NEW ms \in Seq(Msg), NEW t, NEW u, After(q, t, u),
         Has(q, u) \/ ~Has(ms, t)
  PROVE  After(q \o ms, t, u)
<1> DEFINE r == q \o ms
<1>1. /\ Len(q) \in Nat /\ Len(ms) \in Nat /\ Len(r) = Len(q) + Len(ms)
      /\ \A i \in 1 .. Len(q) : r[i] = q[i]
      /\ \A i \in Len(q) + 1 .. Len(r) : r[i] = ms[i - Len(q)] /\ i - Len(q) \in 1 .. Len(ms)
  OBVIOUS
<1> HIDE DEF r
<1> SUFFICES ASSUME NEW i \in 1 .. Len(r), r[i].type = t
             PROVE  \E j \in 1 .. i - 1 : r[j].type = u
  BY Zenon DEF After, r
<1>2. CASE i \in 1 .. Len(q)
  <2>1. PICK j \in 1 .. i - 1 : q[j].type = u
    BY <1>1, <1>2, Zenon DEF After
  <2>2. r[j] = q[j]
    BY <1>1, <1>2
  <2> QED
    BY <2>1, <2>2, Zenon
<1>3. CASE i \in Len(q) + 1 .. Len(r)
  <2>1. Has(ms, t)
    BY <1>1, <1>3, Zenon DEF Has
  <2>2. PICK j \in 1 .. Len(q) : q[j].type = u
    BY <2>1, Zenon DEF Has
  <2>3. j \in 1 .. i - 1 /\ r[j] = q[j]
    BY <1>1, <1>3
  <2> QED
    BY <2>2, <2>3, Zenon
<1> QED
  BY <1>1, <1>2, <1>3

\* appending messages that move nothing
LEMMA CatAlike ==
  ASSUME NEW q \in Seq(Msg), NEW ms \in Seq(Msg), \A t \in Moves : ~Has(ms, t)
  PROVE  Alike(q, q \o ms)
  BY CatHas, CatAfter, Zenon DEF Alike

\* taking one such message out, at the head of the second half
LEMMA DropAlike ==
  ASSUME NEW a \in Seq(Msg), NEW w \in Seq(Msg), w # <<>>, Head(w).type \notin Moves
  PROVE  Alike(a \o w, a \o Tail(w))
<1> DEFINE q == a \o w
           r == a \o Tail(w)
           p == Len(a) + 1
<1>1. /\ p \in Nat \ {0} /\ Len(q) \in Nat /\ Len(r) = Len(q) - 1 /\ p \in 1 .. Len(q)
      /\ q[p] = Head(w)
      /\ \A i \in 1 .. p - 1 : r[i] = q[i]
      /\ \A i \in p .. Len(r) : r[i] = q[i + 1]
  OBVIOUS
<1> HIDE DEF q, r, p
<1>2. ASSUME NEW t \in Moves PROVE (Has(q, t) <=> Has(r, t)) /\ (Once(q, t) => Once(r, t))
  <2>1. ASSUME Has(q, t) PROVE Has(r, t)
    <3>1. PICK i \in 1 .. Len(q) : q[i].type = t
      BY <2>1, Zenon DEF Has
    <3>2. i # p
      BY <1>1, <3>1, Zenon
    <3>3. CASE i < p
      BY <1>1, <3>1, <3>3, SMTT(40) DEF Has
    <3>4. CASE i > p
      <4>1. i - 1 \in p .. Len(r) /\ r[i - 1] = q[i]
        BY <1>1, <3>4, SMTT(40)
      <4>2. i - 1 \in 1 .. Len(r)
        BY <1>1, <4>1, SMTT(40)
      <4> QED
        BY <3>1, <4>1, <4>2, Zenon DEF Has
    <3> QED
      BY <1>1, <3>2, <3>3, <3>4, SMTT(40)
  <2>2. ASSUME Has(r, t) PROVE Has(q, t)
    BY <1>1, <2>2, SMTT(40) DEF Has
  <2>3. ASSUME Once(q, t) PROVE Once(r, t)
    <3> SUFFICES ASSUME NEW i \in 1 .. Len(r), NEW j \in 1 .. Len(r), r[i].type = t, r[j].type = t
                 PROVE  i = j
      BY Zenon DEF Once
    <3> DEFINE x == IF i < p THEN i ELSE i + 1
               y == IF j < p THEN j ELSE j + 1
    <3>1. x \in 1 .. Len(q) /\ q[x] = r[i] /\ y \in 1 .. Len(q) /\ q[y] = r[j]
      <4>1. i < p => r[i] = q[i]
        BY <1>1
      <4>2. ~(i < p) => r[i] = q[i + 1]
        BY <1>1
      <4>3. j < p => r[j] = q[j]
        BY <1>1
      <4>4. ~(j < p) => r[j] = q[j + 1]
        BY <1>1
      <4> QED
        BY <1>1, <4>1, <4>2, <4>3, <4>4, SMTT(40)
    <3>2. x = y
      BY <2>3, <3>1, Zenon DEF Once
    <3> QED
      BY <1>1, <3>2
  <2> QED
    BY <2>1, <2>2, <2>3, Zenon
<1>3. ASSUME NEW t \in Moves, NEW u \in Moves, After(q, t, u) PROVE After(r, t, u)
  <2> SUFFICES ASSUME NEW i \in 1 .. Len(r), r[i].type = t
               PROVE  \E j \in 1 .. i - 1 : r[j].type = u
    BY Zenon DEF After
  <2>1. CASE i < p
    <3>1. r[i] = q[i] /\ i \in 1 .. Len(q)
      BY <1>1, <2>1
    <3>2. PICK j \in 1 .. i - 1 : q[j].type = u
      BY <1>3, <3>1, Zenon DEF After
    <3>3. r[j] = q[j]
      BY <1>1, <2>1
    <3> QED
      BY <3>2, <3>3, Zenon
  <2>2. CASE i >= p
    <3>1. r[i] = q[i + 1] /\ i + 1 \in 1 .. Len(q)
      BY <1>1, <2>2, SMTT(40)
    <3>2. PICK j \in 1 .. i : q[j].type = u
      BY <1>3, <3>1 DEF After
    <3>3. j # p
      BY <1>1, <3>2, Zenon
    <3>4. CASE j < p
      <4>1. j \in 1 .. i - 1 /\ r[j] = q[j]
        BY <1>1, <2>2, <3>4, SMTT(40)
      <4> QED
        BY <3>2, <4>1, Zenon
    <3>5. CASE j > p
      <4>1. j - 1 \in p .. Len(r) /\ r[j - 1] = q[j] /\ j - 1 \in 1 .. i - 1
        BY <1>1, <3>5, SMTT(40)
      <4> QED
        BY <3>2, <4>1, Zenon
    <3> QED
      BY <1>1, <3>3, <3>4, <3>5
  <2> QED
    BY <1>1, <2>1, <2>2
<1> QED
  BY <1>2, <1>3, Zenon DEF Alike, q, r

LEMMA TailHas ==
  ASSUME NEW q \in Seq(Msg), q # <<>>, NEW t
  PROVE  /\ Has(Tail(q), t) => Has(q, t)
         /\ Has(q, t) /\ Head(q).type # t => Has(Tail(q), t)
         /\ Once(q, t) => Once(Tail(q), t)
         /\ Once(q, t) /\ Head(q).type = t => ~Has(Tail(q), t)
         /\ Head(q).type = t => Has(q, t)
<1> DEFINE r == Tail(q)
<1>1. /\ Len(q) \in Nat \ {0} /\ Len(r) = Len(q) - 1 /\ Head(q) = q[1]
      /\ \A i \in 1 .. Len(r) : r[i] = q[i + 1] /\ i + 1 \in 2 .. Len(q)
      /\ \A i \in 2 .. Len(q) : q[i] = r[i - 1] /\ i - 1 \in 1 .. Len(r)
  OBVIOUS
<1> HIDE DEF r
<1>2. ASSUME Has(r, t) PROVE Has(q, t)
  BY <1>1, <1>2 DEF Has
<1>3. ASSUME Has(q, t), Head(q).type # t PROVE Has(r, t)
  BY <1>1, <1>3, SMTT(40) DEF Has
<1>4. ASSUME Once(q, t) PROVE Once(r, t) /\ (Head(q).type = t => ~Has(r, t))
  BY <1>1, <1>4, SMTT(40) DEF Once, Has
<1>5. ASSUME Head(q).type = t PROVE Has(q, t)
  BY <1>1, <1>5, SMTT(40) DEF Has
<1> QED
  BY <1>2, <1>3, <1>4, <1>5, Zenon DEF r

LEMMA TailAfter ==
  ASSUME NEW q \in Seq(Msg), q # <<>>, NEW t, NEW u, After(q, t, u)
  PROVE  /\ Head(q).type # t
         /\ Head(q).type # u => After(Tail(q), t, u)
<1> DEFINE r == Tail(q)
<1>1. /\ Len(q) \in Nat \ {0} /\ Len(r) = Len(q) - 1 /\ Head(q) = q[1]
      /\ \A i \in 1 .. Len(r) : r[i] = q[i + 1] /\ i + 1 \in 1 .. Len(q)
      /\ \A i \in 2 .. Len(q) : q[i] = r[i - 1] /\ i - 1 \in 1 .. Len(r)
  OBVIOUS
<1> HIDE DEF r
<1>2. Head(q).type # t
  BY <1>1 DEF After
<1>3. ASSUME Head(q).type # u, NEW i \in 1 .. Len(r), r[i].type = t
      PROVE  \E j \in 1 .. i - 1 : r[j].type = u
  <2>1. PICK j \in 1 .. (i + 1) - 1 : q[j].type = u
    BY <1>1, <1>3, Zenon DEF After
  <2>2. j \in 2 .. Len(q) /\ j - 1 \in 1 .. i - 1 /\ r[j - 1].type = u
    BY <1>1, <1>3, <2>1
  <2> QED
    BY <2>2, Zenon
<1> QED
  BY <1>2, <1>3, Zenon DEF After, r

\* reading a message moves it from the connection to the list
LEMMA MoveSame ==
  ASSUME NEW a \in Seq(Msg), NEW w \in Seq(Msg), w # <<>>
  PROVE  Append(a, Head(w)) \o Tail(w) = a \o w
  BY SMTT(40)

LEMMA DequeueTail ==
  ASSUME NEW a \in Seq(Msg), NEW w \in Seq(Msg), a # <<>>
  PROVE  /\ Tail(a) \o w = Tail(a \o w) /\ Head(a \o w) = Head(a) /\ a \o w # <<>>
         /\ a \o w \in Seq(Msg)
  BY SMTT(40)

LEMMA CatAssoc ==
  ASSUME NEW a \in Seq(Msg), NEW w \in Seq(Msg), NEW ms \in Seq(Msg)
  PROVE  a \o w \in Seq(Msg) /\ a \o (w \o ms) = (a \o w) \o ms
  BY SMTT(40)

LEMMA FewHas ==
  ASSUME NEW m1 \in Msg, NEW m2 \in Msg, NEW t
  PROVE  /\ ~Has(<<>>, t) /\ Once(<<>>, t)
         /\ Has(<<m1>>, t) <=> m1.type = t
         /\ Once(<<m1>>, t)
         /\ Has(<<m1, m2>>, t) <=> m1.type = t \/ m2.type = t
         /\ m1.type # t \/ m2.type # t => Once(<<m1, m2>>, t)
  BY DEF Has, Once

-----------------------------------------------------------------------------
(* The inductive invariant.                                                *)

AddressesKept == \A n \in Node : AddrSet(n)

RoleOf(n) == IF n = Lo THEN "ACTIVE" ELSE "STANDBY"

\* what holds of the record of daemon n
Steady(n, c) ==
    /\ c.role \in {"NONE", RoleOf(n)}
    /\ c.st # "NONEXISTENT" => c.role = RoleOf(n)
    /\ c.st = "NONEXISTENT" => c.pcap = 0
    /\ Rg[Lo] = Rg[Hi] => c.status = NoStatus
    /\ c.sock = None => c.mlq = <<>>
    /\ c.need = 0
    /\ c.ml # "ERROR"
    /\ c.ml = "STAGE1" => c.wait = IF n = Lo THEN 0 ELSE 1
    /\ c.ml = "STAGE2" /\ n = Hi => c.wait = 0

\* what daemon n has yet to handle of the messages of its connection
Pending(n) == csm[n].mlq \o wire[csm[n].sock][n]

\* The ACTIVE node is asked once, in STAGE1; what it asks for in STAGE2 ends
\* with one SYNC_DONE, and updates come after that.
LoSide(c, q) ==
    /\ c.ml \in {"INIT", "STAGE1"} =>
          ~Has(q, "SYNC_DONE") /\ ~Has(q, "UPDATE") /\ Once(q, "SYNC_REQUEST")
    /\ c.ml = "STAGE2" =>
          /\ ~Has(q, "SYNC_REQUEST")
          /\ Once(q, "SYNC_DONE") /\ After(q, "UPDATE", "SYNC_DONE")
          /\ c.wait = 0 => ~Has(q, "SYNC_DONE") /\ ~Has(q, "UPDATE")
    /\ c.ml = "EXCHANGE" => ~Has(q, "SYNC_REQUEST") /\ ~Has(q, "SYNC_DONE")

\* The STANDBY node asks in STAGE1; the request of the ACTIVE node can be
\* behind the SYNC_DONE that ends it.
HiSide(c, q) ==
    /\ c.ml = "INIT" => ~Has(q, "SYNC_REQUEST") /\ ~Has(q, "SYNC_DONE")
    /\ c.ml = "STAGE1" =>
          /\ Once(q, "SYNC_REQUEST") /\ Once(q, "SYNC_DONE")
          /\ After(q, "SYNC_REQUEST", "SYNC_DONE")
    /\ c.ml = "STAGE2" => ~Has(q, "SYNC_DONE") /\ Once(q, "SYNC_REQUEST")
    /\ c.ml = "EXCHANGE" => ~Has(q, "SYNC_REQUEST") /\ ~Has(q, "SYNC_DONE")
    /\ c.ml # "EXCHANGE" => ~Has(q, "UPDATE")

Side(n, c, q) == ~Has(q, "PURGE") /\ IF n = Lo THEN LoSide(c, q) ELSE HiSide(c, q)

\* Where two ends of one connection can be, and what is between them.
Both(l, h, ql, qh) ==
    \/ l.ml \in {"INIT", "STAGE1"} /\ h.ml = "INIT" /\ ~Has(ql, "SYNC_REQUEST")
    \/ /\ l.ml \in {"INIT", "STAGE1"} /\ h.ml = "STAGE1"
       /\ ~Has(qh, "SYNC_DONE") /\ ~Has(qh, "SYNC_REQUEST")
    \/ /\ l.ml = "STAGE2" /\ h.ml \in {"STAGE1", "STAGE2"}
       /\ ~Has(ql, "SYNC_DONE") /\ ~Has(ql, "UPDATE")
       /\ h.ml = "STAGE1" => Has(qh, "SYNC_DONE")
       /\ l.wait = 0 => ~Has(qh, "SYNC_REQUEST")
    \/ l.ml = "STAGE2" /\ l.wait = 1 /\ h.ml = "EXCHANGE" /\ Has(ql, "SYNC_DONE")
    \/ l.ml = "EXCHANGE" /\ h.ml = "EXCHANGE"

\* an end that is closed, or that waits to be accepted
Shut == \A k \in Conn, n \in Node : endp[k][n] = "closed" => wire[k][n] = <<>>
Early(c) == c.st \in {"INITIALIZED", "CAPSENT"} /\ c.pcap = 0 /\ c.msgs = <<>> /\ c.mlq = <<>>
Waiting(k) ==
    /\ wire[k][Lo] = <<>> /\ \A t \in Moves : ~Has(wire[k][Hi], t)
    /\ csm[Lo].sock = k => Early(csm[Lo])
Backlog == \A k \in Conn : endp[k][Lo] # "backlog" /\ (endp[k][Hi] = "backlog" => Waiting(k))

Sides == \A n \in Node : Steady(n, csm[n]) /\ (csm[n].sock # None => Side(n, csm[n], Pending(n)))
Joint == SameConn => Both(csm[Lo], csm[Hi], Pending(Lo), Pending(Hi))

SInv == Shut /\ Backlog /\ Sides /\ Joint

-----------------------------------------------------------------------------
(* Steps that leave the synchronisation where it is.                       *)

LEMMA AlikeSide ==
  ASSUME NEW n \in Node, NEW c, NEW d, d.ml = c.ml, d.wait = c.wait,
         NEW q, NEW r, Alike(q, r), Side(n, c, q)
  PROVE  Side(n, d, r)
<1>1. \A t \in Moves : (Has(q, t) <=> Has(r, t)) /\ (Once(q, t) => Once(r, t))
  BY Zenon DEF Alike
<1>2. \A t, u \in Moves : After(q, t, u) => After(r, t, u)
  BY Zenon DEF Alike
<1>3. "SYNC_REQUEST" \in Moves /\ "SYNC_DONE" \in Moves /\ "UPDATE" \in Moves /\ "PURGE" \in Moves
  BY Zenon DEF Moves
<1>4. LoSide(c, q) => LoSide(d, r)
  BY <1>1, <1>2, <1>3, Zenon DEF LoSide
<1>5. HiSide(c, q) => HiSide(d, r)
  BY <1>1, <1>2, <1>3, Zenon DEF HiSide
<1> QED
  BY <1>1, <1>3, <1>4, <1>5, Zenon DEF Side

LEMMA AlikeBoth ==
  ASSUME NEW l, NEW h, NEW l2, NEW h2, NEW ql, NEW qh, NEW rl, NEW rh, Both(l, h, ql, qh),
         l2.ml = l.ml, l2.wait = l.wait, h2.ml = h.ml, Alike(ql, rl), Alike(qh, rh)
  PROVE  Both(l2, h2, rl, rh)
<1>1. \A t \in Moves : (Has(ql, t) <=> Has(rl, t)) /\ (Has(qh, t) <=> Has(rh, t))
  BY Zenon DEF Alike
<1>2. "SYNC_REQUEST" \in Moves /\ "SYNC_DONE" \in Moves /\ "UPDATE" \in Moves
  BY Zenon DEF Moves
<1> QED
  BY <1>1, <1>2, Zenon DEF Both

LEMMA AlikeSelf == \A q : Alike(q, q)
  BY Zenon DEF Alike

LEMMA QuietStep ==
  ASSUME Sides, Joint,
         \A x \in Node : /\ Steady(x, csm'[x]) /\ csm'[x].sock = csm[x].sock
                         /\ csm'[x].ml = csm[x].ml /\ csm'[x].wait = csm[x].wait,
         \A x \in Node : csm[x].sock # None => Alike(Pending(x), Pending(x)')
  PROVE  Sides' /\ Joint'
<1>1. Sides'
  <2> SUFFICES ASSUME NEW x \in Node, csm'[x].sock # None
               PROVE  Side(x, csm'[x], Pending(x)')
    BY Zenon DEF Sides
  <2> DEFINE q == Pending(x)
             r == Pending(x)'
  <2>1. Alike(q, r) /\ Side(x, csm[x], q)
    BY Zenon DEF Sides
  <2>2. csm'[x].ml = csm[x].ml /\ csm'[x].wait = csm[x].wait
    BY Zenon
  <2> HIDE DEF q, r
  <2>3. Side(x, csm'[x], r)
    BY <2>1, <2>2, AlikeSide, Zenon
  <2> QED
    BY <2>3, Zenon DEF r
<1>2. Joint'
  <2> SUFFICES ASSUME SameConn'
               PROVE  Both(csm'[Lo], csm'[Hi], Pending(Lo)', Pending(Hi)')
    BY Zenon DEF Joint
  <2>1. SameConn /\ Lo \in Node /\ Hi \in Node
    BY Zenon DEF SameConn, Node
  <2> DEFINE ql == Pending(Lo)
             qh == Pending(Hi)
             rl == Pending(Lo)'
             rh == Pending(Hi)'
  <2>2. Both(csm[Lo], csm[Hi], ql, qh) /\ Alike(ql, rl) /\ Alike(qh, rh)
    BY <2>1, Zenon DEF Joint, SameConn
  <2>3. /\ csm'[Lo].ml = csm[Lo].ml /\ csm'[Lo].wait = csm[Lo].wait
        /\ csm'[Hi].ml = csm[Hi].ml /\ csm'[Hi].wait = csm[Hi].wait
    BY <2>1, Zenon
  <2> HIDE DEF ql, qh, rl, rh
  <2>4. Both(csm'[Lo], csm'[Hi], rl, rh)
    BY <2>2, <2>3, AlikeBoth, Zenon
  <2> QED
    BY <2>4, Zenon DEF rl, rh
<1> QED
  BY <1>1, <1>2, Zenon

LEMMA TwoNodes ==
  /\ Lo \in Node /\ Hi \in Node /\ Lo # Hi /\ None \notin Conn
  /\ \A n \in Node : /\ Peer(n) \in Node /\ Peer(n) # n /\ Peer(Peer(n)) = n
                     /\ \A x \in Node : x = n \/ x = Peer(n)
  BY SessionAssumption, SMTT(40) DEF Node, Peer

LEMMA SideFacts ==
  ASSUME Inv, NEW n \in Node
  PROVE  /\ csm[n] \in CsmRecord /\ Sound(n, csm[n]) /\ csm[n].mlq \in Seq(Msg)
         /\ csm[n].sock \in Conn \cup {None}
         /\ \A k \in Conn : wire[k][n] \in Seq(Msg)
         /\ csm[n].sock = None => csm[n].st = "NONEXISTENT"
         /\ csm[n].st # "OPERATIONAL" => csm[n].ml = "INIT"
<1>1. csm[n] \in CsmRecord /\ Sound(n, csm[n])
  BY Zenon DEF Inv, TypeOK, Sessions
<1>2. \A k \in Conn : wire[k][n] \in Seq(Msg)
  BY ZenonT(40) DEF Inv, TypeOK
<1> QED
  BY <1>1, <1>2, Zenon DEF CsmRecord, Sound

-----------------------------------------------------------------------------
(* What a step of the session has to do to be a step of the service.       *)

Maps == Rg[Lo] = Rg[Hi] => [Service!Next]_(Service!vars)

LEMMA HeightOf ==
  ASSUME NEW c
  PROVE  /\ c.st = "NONEXISTENT" /\ c.ml = "INIT" => Height(c) = 0
         /\ c.st = "INITIALIZED" /\ c.ml = "INIT" => Height(c) = 1
         /\ c.st = "CAPSENT" /\ c.ml = "INIT" => Height(c) = 2
         /\ c.st = "CAPREC" /\ c.ml = "INIT" => Height(c) = 3
         /\ c.st = "CONNECTING" /\ c.ml = "INIT" => Height(c) = 4
         /\ c.st = "OPERATIONAL" /\ c.ml = "INIT" => Height(c) = 5
         /\ c.st = "OPERATIONAL" /\ c.ml = "STAGE1" => Height(c) = 6
         /\ c.st = "OPERATIONAL" /\ c.ml = "STAGE2" => Height(c) = 7
         /\ c.st = "OPERATIONAL" /\ c.ml = "EXCHANGE" => Height(c) = 8
  BY SMTT(40) DEF Height, Order, MlacpOrder

LEMMA StutterMap ==
  ASSUME \A n \in Node : csm'[n].sock = csm[n].sock /\ Height(csm'[n]) = Height(csm[n])
  PROVE  Maps
  BY Zenon DEF Maps, Service!vars

LEMMA SameMap ==
  ASSUME \A n \in Node : csm'[n].sock = csm[n].sock /\ csm'[n].st = csm[n].st /\ csm'[n].ml = csm[n].ml
  PROVE  Maps
  BY StutterMap, Zenon DEF Height

LEMMA EndNode == Service!End = Node /\ \A n \in Node : Service!Other(n) = Peer(n)
  BY Zenon DEF Service!End, Service!Other, Node, Peer

\* both halves of a step that changes one end
LEMMA OneEnd ==
  ASSUME NEW n \in Node, csm'[Peer(n)] = csm[Peer(n)]
  PROVE  /\ [x \in Node |-> csm'[x].sock] = [[x \in Node |-> csm[x].sock] EXCEPT ![n] = csm'[n].sock]
         /\ [x \in Node |-> Height(csm'[x])] = [[x \in Node |-> Height(csm[x])] EXCEPT ![n] = Height(csm'[n])]
<1>1. \A x \in Node : x # n => csm'[x] = csm[x]
  BY TwoNodes, Zenon
<1>2. [x \in Node |-> csm'[x].sock] = [[x \in Node |-> csm[x].sock] EXCEPT ![n] = csm'[n].sock]
  BY <1>1, ZenonT(40)
<1>3. [x \in Node |-> Height(csm'[x])] = [[x \in Node |-> Height(csm[x])] EXCEPT ![n] = Height(csm'[n])]
  BY <1>1, ZenonT(40)
<1> QED
  BY <1>2, <1>3, Zenon

LEMMA CloseMap ==
  ASSUME NEW n \in Node, csm'[Peer(n)] = csm[Peer(n)], csm[n].sock # None,
         csm'[n].sock = None, Height(csm'[n]) = 0
  PROVE  Maps
<1>1. Service!Close(n)
  BY OneEnd, ZenonT(40) DEF Service!Close
<1> QED
  BY <1>1, EndNode, Zenon DEF Maps, Service!Next

LEMMA OpenMap ==
  ASSUME NEW n \in Node, csm'[Peer(n)] = csm[Peer(n)], csm[n].sock = None, NEW k \in Conn,
         csm'[n].sock = k, Height(csm'[n]) \in {0, 1},
         csm[Peer(n)].sock = k => Height(csm[Peer(n)]) < 5
  PROVE  Maps
<1>1. Service!Open(n, k)
  <2>1. [x \in Node |-> csm[x].sock][n] = None /\ Peer(n) \in Node
    BY TwoNodes, Zenon
  <2>2. /\ [x \in Node |-> csm[x].sock][Peer(n)] = csm[Peer(n)].sock
        /\ [x \in Node |-> Height(csm[x])][Peer(n)] = Height(csm[Peer(n)])
    BY TwoNodes, Zenon
  <2>3. \E s \in {0, 1} : [x \in Node |-> Height(csm'[x])]
                             = [[x \in Node |-> Height(csm[x])] EXCEPT ![n] = s]
    BY OneEnd, ZenonT(40)
  <2>4. [x \in Node |-> csm'[x].sock] = [[x \in Node |-> csm[x].sock] EXCEPT ![n] = k]
    BY OneEnd, ZenonT(40)
  <2>5. Service!Other(n) = Peer(n)
    BY EndNode, Zenon
  <2> QED
    BY <2>1, <2>2, <2>3, <2>4, <2>5, ZenonT(40) DEF Service!Open, Service!Operational
<1> QED
  BY <1>1, EndNode, TwoNodes, Zenon DEF Maps, Service!Next

LEMMA GreetMap ==
  ASSUME NEW n \in Node, csm'[Peer(n)] = csm[Peer(n)], csm[n].sock # None,
         csm'[n].sock = csm[n].sock, Height(csm[n]) < 5,
         Height(csm'[n]) \in Height(csm[n]) + 1 .. 5
  PROVE  Maps
<1>1. Service!Greet(n)
  <2>1. \A x \in Node : csm'[x].sock = csm[x].sock
    BY TwoNodes, ZenonT(40)
  <2> QED
    BY <2>1, OneEnd, TwoNodes, ZenonT(40) DEF Service!Greet, Service!Operational
<1> QED
  BY <1>1, EndNode, Zenon DEF Maps, Service!Next

LEMMA ClimbMap ==
  ASSUME NEW n \in Node, csm'[Peer(n)] = csm[Peer(n)], csm[n].sock # None,
         csm'[n].sock = csm[n].sock, Height(csm[n]) \in 5 .. 7,
         Height(csm'[n]) = Height(csm[n]) + 1,
         SameConn => /\ n = Lo /\ Height(csm[n]) = 7 => Height(csm[Hi]) = 8
                     /\ n = Hi /\ Height(csm[n]) = 6 => Height(csm[Lo]) = 7
                     /\ n = Hi /\ Height(csm[n]) = 7 => Height(csm[Lo]) \in {7, 8}
  PROVE  Maps
<1>1. Service!Climb(n)
  <2>1. \A x \in Node : csm'[x].sock = csm[x].sock
    BY TwoNodes, Zenon
  <2> DEFINE st == [x \in Node |-> Height(csm[x])]
             lk == [x \in Node |-> csm[x].sock]
  <2>2. \A x \in Node : st[x] = Height(csm[x]) /\ lk[x] = csm[x].sock
    BY Zenon
  <2>3. Service!Joined => Service!Turn(n, st[n])
    BY <2>2, TwoNodes, Zenon DEF Service!Joined, Service!Turn, Service!Exchange, SameConn
  <2>4. [x \in Node |-> Height(csm'[x])] = [st EXCEPT ![n] = st[n] + 1]
    BY <2>2, OneEnd, ZenonT(40)
  <2>5. [x \in Node |-> csm'[x].sock] = lk
    BY <2>1, Zenon
  <2>6. lk[n] # None /\ st[n] \in 5 .. 8 - 1
    BY <2>2, SMTT(40)
  <2> QED
    BY <2>3, <2>4, <2>5, <2>6, Zenon DEF Service!Climb, Service!Operational, Service!Exchange
<1> QED
  BY <1>1, EndNode, Zenon DEF Maps, Service!Next

-----------------------------------------------------------------------------
(* Steps that take a connection away.                                      *)

\* a daemon gives up its connection, and with it some ends that were waiting
LEMMA CloseStep ==
  ASSUME Inv, SInv, NEW n \in Node, csm'[n].sock = None, Steady(n, csm'[n]),
         csm'[n].st = "NONEXISTENT", csm'[n].ml = "INIT",
         csm'[Peer(n)] = csm[Peer(n)],
         \A k \in Conn : endp'[k][Peer(n)] = endp[k][Peer(n)] /\ wire'[k][Peer(n)] = wire[k][Peer(n)],
         \A k \in Conn : \/ endp'[k][n] = endp[k][n] /\ wire'[k][n] = wire[k][n]
                         \/ endp'[k][n] = "closed" /\ wire'[k][n] = <<>>
  PROVE  SInv' /\ Maps
<1>1. Shut'
  <2> SUFFICES ASSUME NEW k \in Conn, NEW x \in Node, endp'[k][x] = "closed"
               PROVE  wire'[k][x] = <<>>
    BY Zenon DEF Shut
  <2>1. CASE x = n
    BY <2>1, Zenon DEF SInv, Shut
  <2>2. CASE x = Peer(n)
    BY <2>2, Zenon DEF SInv, Shut
  <2> QED
    BY <2>1, <2>2, TwoNodes, Zenon
<1>2. Backlog'
  <2> SUFFICES ASSUME NEW k \in Conn
               PROVE  endp'[k][Lo] # "backlog" /\ (endp'[k][Hi] = "backlog" => Waiting(k)')
    BY Zenon DEF Backlog
  <2>1. endp[k][Lo] # "backlog" /\ (endp[k][Hi] = "backlog" => Waiting(k))
    BY Zenon DEF SInv, Backlog
  <2>2. CASE n = Lo
    <3>1. Peer(n) = Hi /\ csm'[Lo].sock # k
      BY <2>2, TwoNodes, Zenon DEF Peer
    <3> QED
      BY <2>1, <2>2, <3>1, Zenon DEF Waiting
  <2>3. CASE n = Hi
    <3>1. Peer(n) = Lo
      BY <2>3, TwoNodes, ZenonT(40) DEF Peer
    <3> QED
      BY <2>1, <2>3, <3>1, Zenon DEF Waiting
  <2> QED
    BY <2>2, <2>3, Zenon DEF Node
<1>3. Sides'
  <2>1. Steady(Peer(n), csm'[Peer(n)])
    BY TwoNodes, Zenon DEF SInv, Sides
  <2>2. ASSUME csm'[Peer(n)].sock # None
        PROVE  Side(Peer(n), csm'[Peer(n)], Pending(Peer(n))')
    <3>1. csm[Peer(n)].sock \in Conn /\ Side(Peer(n), csm[Peer(n)], Pending(Peer(n)))
      BY <2>2, TwoNodes, SideFacts, ZenonT(40) DEF SInv, Sides
    <3>2. Pending(Peer(n))' = Pending(Peer(n))
      BY <3>1, ZenonT(40) DEF Pending
    <3> QED
      BY <3>1, <3>2, ZenonT(40)
  <2> QED
    BY <2>1, <2>2, TwoNodes, ZenonT(40) DEF Sides
<1>4. Joint'
  BY TwoNodes, Zenon DEF Joint, SameConn, Node
<1>5. Maps
  <2>1. Height(csm'[n]) = 0
    BY HeightOf, Zenon
  <2>2. CASE csm[n].sock = None
    <3>1. Height(csm[n]) = 0
      BY <2>2, SideFacts, HeightOf, ZenonT(40)
    <3> QED
      BY <2>1, <2>2, <3>1, StutterMap, TwoNodes, ZenonT(40)
  <2>3. CASE csm[n].sock # None
    BY <2>1, <2>3, CloseMap, ZenonT(40)
  <2> QED
    BY <2>2, <2>3, Zenon
<1> QED
  BY <1>1, <1>2, <1>3, <1>4, <1>5, Zenon DEF SInv

LEMMA FreshSteady ==
  ASSUME NEW n \in Node, NEW c \in CsmRecord
  PROVE  /\ Steady(n, InitCsm) /\ InitCsm.sock = None /\ InitCsm.st = "NONEXISTENT" /\ InitCsm.ml = "INIT"
         /\ Steady(n, Disconnected(c)) /\ Disconnected(c).sock = None
         /\ Disconnected(c).st = "NONEXISTENT" /\ Disconnected(c).ml = "INIT"
  BY ZenonT(40) DEF Steady, Disconnected, StatusReset, InitCsm, CsmRecord

LEMMA DisconnectStep ==
  ASSUME Inv, SInv, NEW n \in Node, SessionDisconnect(n)
  PROVE  SInv' /\ Maps
<1>1. csm[n] \in CsmRecord /\ csm[n].sock \in Conn \cup {None}
  BY SideFacts, ZenonT(40)
<1>2. csm'[n] = Disconnected(csm[n]) /\ csm'[Peer(n)] = csm[Peer(n)]
  BY TwoNodes, Zenon DEF SessionDisconnect, Inv, TypeOK
<1>3. csm'[n].sock = None /\ Steady(n, csm'[n]) /\ csm'[n].st = "NONEXISTENT" /\ csm'[n].ml = "INIT"
  BY <1>1, <1>2, FreshSteady, ZenonT(40)
<1>4. endp \in [Conn -> [Node -> {"closed", "backlog", "open"}]] /\ wire \in [Conn -> [Node -> Seq(Msg)]]
  BY Zenon DEF Inv, TypeOK
<1>5. ASSUME NEW k \in Conn
      PROVE  /\ endp'[k][Peer(n)] = endp[k][Peer(n)] /\ wire'[k][Peer(n)] = wire[k][Peer(n)]
             /\ \/ endp'[k][n] = endp[k][n] /\ wire'[k][n] = wire[k][n]
                \/ endp'[k][n] = "closed" /\ wire'[k][n] = <<>>
  <2>1. CASE csm[n].sock = None
    BY <2>1, ZenonT(40) DEF SessionDisconnect, SocketCleanup, tcpVars
  <2>2. CASE csm[n].sock # None
    <3> DEFINE j == csm[n].sock
    <3>1. /\ endp' = [endp EXCEPT ![j][n] = "closed"] /\ wire' = [wire EXCEPT ![j][n] = <<>>]
          /\ j \in Conn
      BY <1>1, <2>2, ZenonT(40) DEF SessionDisconnect, SocketCleanup, CloseEnd
    <3> HIDE DEF j
    <3>2. ASSUME NEW x \in Node
          PROVE  /\ ~(k = j /\ x = n) => endp'[k][x] = endp[k][x] /\ wire'[k][x] = wire[k][x]
                 /\ k = j /\ x = n => endp'[k][x] = "closed" /\ wire'[k][x] = <<>>
      BY <1>4, <3>1, Zenon
    <3> QED
      BY <3>2, TwoNodes, ZenonT(40)
  <2> QED
    BY <2>1, <2>2, ZenonT(40)
<1> QED
  BY <1>2, <1>3, <1>5, CloseStep, Zenon

LEMMA RestartSync ==
  ASSUME Inv, SInv, NEW n \in Node, Restart(n)
  PROVE  SInv' /\ Maps
<1>1. csm'[n] = InitCsm /\ csm'[Peer(n)] = csm[Peer(n)]
  BY TwoNodes, ZenonT(40) DEF Restart, Inv, TypeOK
<1>2. csm'[n].sock = None /\ Steady(n, csm'[n]) /\ csm'[n].st = "NONEXISTENT" /\ csm'[n].ml = "INIT"
  BY <1>1, FreshSteady, InitCsmType, Zenon
<1>3. endp \in [Conn -> [Node -> {"closed", "backlog", "open"}]] /\ wire \in [Conn -> [Node -> Seq(Msg)]]
  BY Zenon DEF Inv, TypeOK
<1>4. /\ \A k \in Conn : endp'[k][Peer(n)] = endp[k][Peer(n)] /\ wire'[k][Peer(n)] = wire[k][Peer(n)]
      /\ \A k \in Conn : endp'[k][n] = "closed" /\ wire'[k][n] = <<>>
  BY <1>3, TwoNodes, ZenonT(40) DEF Restart
<1> QED
  BY <1>1, <1>2, <1>4, CloseStep, ZenonT(40)

-----------------------------------------------------------------------------
(* The records on the way up.                                              *)

\* the fields that matter here, but for the state and the role
SameSync(c, d) ==
    /\ d.sock = c.sock /\ d.mlq = c.mlq /\ d.need = c.need /\ d.ml = c.ml /\ d.wait = c.wait
    /\ d.status = c.status

LEMMA RoleCount ==
  ASSUME NEW n \in Node, AddrSet(n)
  PROVE  SenderIp(n) < PeerIp(n) <=> n = Lo
  BY TwoNodes, SMTT(40) DEF AddrSet, SenderIp, PeerIp, IpOf, Peer, Node

LEMMA CheckConfigSteady ==
  ASSUME NEW n \in Node, NEW c \in CsmRecord, Steady(n, c), AddrSet(n)
  PROVE  /\ Steady(n, CheckConfig(n, c)) /\ SameSync(c, CheckConfig(n, c))
         /\ CheckConfig(n, c).pcap = c.pcap /\ CheckConfig(n, c).msgs = c.msgs
         /\ CheckConfig(n, c).st = c.st /\ CheckConfig(n, c) \in CsmRecord
         /\ ConfigOk(n) => CheckConfig(n, c).role = RoleOf(n)
<1> DEFINE d == CheckConfig(n, c)
           r == IF SenderIp(n) < PeerIp(n) THEN "ACTIVE" ELSE "STANDBY"
<1>1. r = RoleOf(n) /\ r # "NONE"
  BY RoleCount, Zenon DEF RoleOf
<1>2. d \in CsmRecord
  BY CheckConfigType, Zenon
<1>3. CASE plink[n] = "absent"
  BY <1>2, <1>3, ZenonT(40) DEF CheckConfig, ConfigOk, SameSync
<1>4. CASE plink[n] # "absent"
  <2>1. d = [c EXCEPT !.role = IF c.role # "NONE" THEN c.role ELSE r]
    BY <1>4, Zenon DEF CheckConfig, StpRoleCount
  <2>2. /\ d.role = RoleOf(n) /\ d.sock = c.sock /\ d.mlq = c.mlq /\ d.need = c.need /\ d.ml = c.ml
        /\ d.wait = c.wait /\ d.pcap = c.pcap /\ d.msgs = c.msgs /\ d.st = c.st /\ d.status = c.status
    BY <1>1, <2>1, SMTT(40) DEF CsmRecord, Steady
  <2> HIDE DEF d
  <2> QED
    BY <1>2, <2>2, ZenonT(40) DEF Steady, SameSync, d
<1> QED
  BY <1>3, <1>4, Zenon

LEMMA HeartbeatSteady ==
  ASSUME NEW n \in Node, NEW c \in CsmRecord, Steady(n, c)
  PROVE  /\ HeartbeatCheck(c) \in CsmRecord
         /\ Steady(n, HeartbeatCheck(c)) /\ SameSync(c, HeartbeatCheck(c))
         /\ HeartbeatCheck(c).st = c.st /\ HeartbeatCheck(c).pcap = c.pcap
         /\ HeartbeatCheck(c).msgs = c.msgs /\ HeartbeatCheck(c).role = c.role
<1> DEFINE d == HeartbeatCheck(c)
<1>1. d \in CsmRecord
  BY HeartbeatCheckType, Zenon
<1>2. /\ d.role = c.role /\ d.sock = c.sock /\ d.mlq = c.mlq /\ d.need = c.need /\ d.ml = c.ml
      /\ d.wait = c.wait /\ d.pcap = c.pcap /\ d.msgs = c.msgs /\ d.st = c.st /\ d.status = c.status
  BY Zenon DEF HeartbeatCheck, CsmRecord
<1> HIDE DEF d
<1> QED
  BY <1>1, <1>2, ZenonT(40) DEF Steady, SameSync, d

LEMMA PrepareSteady ==
  ASSUME NEW n \in Node, NEW c \in CsmRecord, Steady(n, c), AddrSet(n)
  PROVE  /\ PrepareSession(n, c) \in CsmRecord
         /\ Steady(n, PrepareSession(n, c)) /\ SameSync(c, PrepareSession(n, c))
         /\ PrepareSession(n, c).st = c.st /\ PrepareSession(n, c).pcap = c.pcap
         /\ PrepareSession(n, c).msgs = c.msgs
<1> DEFINE b == IF ConnectDue(c) /\ c.sock = None THEN CheckConfig(n, c) ELSE c
           d == PrepareSession(n, c)
<1>1. d \in CsmRecord
  BY PrepareSessionType, Zenon
<1>2. /\ b \in CsmRecord /\ Steady(n, b) /\ SameSync(c, b)
      /\ b.st = c.st /\ b.pcap = c.pcap /\ b.msgs = c.msgs
  BY CheckConfigSteady, ZenonT(40) DEF SameSync
<1>3. d = b \/ d = [b EXCEPT !.connPrev = 0]
  BY Zenon DEF PrepareSession
<1> HIDE DEF b, d
<1>4. /\ d.role = b.role /\ d.sock = b.sock /\ d.mlq = b.mlq /\ d.need = b.need /\ d.ml = b.ml
      /\ d.wait = b.wait /\ d.pcap = b.pcap /\ d.msgs = b.msgs /\ d.st = b.st /\ d.status = b.status
  BY <1>2, <1>3, ZenonT(40) DEF CsmRecord
<1>5. Steady(n, d) /\ SameSync(c, d)
  BY <1>2, <1>4, SMTT(40) DEF Steady, SameSync
<1> QED
  BY <1>1, <1>2, <1>4, <1>5, Zenon DEF d

LEMMA LeaveSteady ==
  ASSUME NEW n \in Node, NEW c \in CsmRecord, Steady(n, c), AddrSet(n), c.st = "NONEXISTENT"
  PROVE  /\ Steady(n, LeaveNonexistent(n, c)) /\ SameSync(c, LeaveNonexistent(n, c))
         /\ LeaveNonexistent(n, c).pcap = 0 /\ LeaveNonexistent(n, c).msgs = c.msgs
         /\ LeaveNonexistent(n, c).st \in {"NONEXISTENT", "INITIALIZED"}
<1> DEFINE b == CheckConfig(n, c)
           d == [b EXCEPT !.st = "INITIALIZED"]
           e == LeaveNonexistent(n, c)
<1>1. /\ b \in CsmRecord /\ Steady(n, b) /\ SameSync(c, b) /\ b.pcap = 0 /\ b.msgs = c.msgs
      /\ b.st = "NONEXISTENT" /\ (ConfigOk(n) => b.role = RoleOf(n))
  BY CheckConfigSteady, ZenonT(40) DEF Steady
<1>2. \/ e = c
      \/ e = b
      \/ ConfigOk(n) /\ e = [d EXCEPT !.scap = 1]
  <2>1. d.st = "INITIALIZED"
    BY <1>1, ZenonT(40) DEF CsmRecord
  <2> QED
    BY <2>1, Zenon DEF LeaveNonexistent, EnterState
<1> HIDE DEF b, e
<1>3. CASE e = c
  BY <1>3, Zenon DEF Steady, SameSync, e
<1>4. CASE e = b
  BY <1>1, <1>4, ZenonT(40) DEF e
<1>5. CASE ConfigOk(n) /\ e = [d EXCEPT !.scap = 1]
  <2>1. /\ e.role = b.role /\ e.sock = b.sock /\ e.mlq = b.mlq /\ e.need = b.need /\ e.ml = b.ml
        /\ e.wait = b.wait /\ e.pcap = b.pcap /\ e.msgs = b.msgs /\ e.st = "INITIALIZED"
        /\ e.status = b.status
    BY <1>1, <1>5, SMTT(40) DEF CsmRecord
  <2>2. Steady(n, e) /\ SameSync(c, e)
    BY <1>1, <1>5, <2>1, SMTT(40) DEF Steady, SameSync
  <2> QED
    BY <1>1, <2>1, <2>2, ZenonT(40) DEF e
<1> QED
  BY <1>2, <1>3, <1>4, <1>5, Zenon

-----------------------------------------------------------------------------
(* The steps, one lemma each.                                              *)

\* time passes, the path fails or comes back, the peer link appears
LEMMA IdleSync ==
  ASSUME Inv, SInv, endp' = endp, wire' = wire,
         \A n \in Node : /\ SameSync(csm[n], csm'[n]) /\ csm'[n].role = csm[n].role
                         /\ csm'[n].st = csm[n].st /\ csm'[n].pcap = csm[n].pcap
                         /\ csm'[n].msgs = csm[n].msgs
  PROVE  SInv' /\ Maps
<1>1. \A n \in Node : /\ Steady(n, csm'[n]) /\ csm'[n].sock = csm[n].sock
                     /\ csm'[n].ml = csm[n].ml /\ csm'[n].wait = csm[n].wait
  BY SMTT(40) DEF SInv, Sides, Steady, SameSync
<1>2. \A n \in Node : Pending(n)' = Pending(n)
  BY ZenonT(40) DEF Pending, SameSync
<1>3. Sides' /\ Joint'
  BY <1>1, <1>2, AlikeSelf, QuietStep, Zenon DEF SInv
<1>4. Shut'
  BY Zenon DEF SInv, Shut
<1>5. Backlog'
  <2>1. Early(csm[Lo]) => Early(csm'[Lo])
    BY TwoNodes, Zenon DEF Early, SameSync
  <2>2. ASSUME NEW k \in Conn PROVE Waiting(k) => Waiting(k)'
    BY <2>1, TwoNodes, Zenon DEF Waiting, SameSync
  <2> QED
    BY <2>2, Zenon DEF SInv, Backlog
<1>6. Maps
  BY <1>1, SameMap, Zenon
<1> QED
  BY <1>3, <1>4, <1>5, <1>6, ZenonT(40) DEF SInv

LEMMA TickSync ==
  ASSUME Inv, SInv, Tick
  PROVE  SInv' /\ Maps
<1>1. ASSUME NEW n \in Node
      PROVE  /\ SameSync(csm[n], csm'[n]) /\ csm'[n].role = csm[n].role
             /\ csm'[n].st = csm[n].st /\ csm'[n].pcap = csm[n].pcap
             /\ csm'[n].msgs = csm[n].msgs
  <2>1. csm'[n] = [csm[n] EXCEPT !.hbUpdate = Advance(@), !.hbSend = Advance(@), !.connPrev = Advance(@)]
    BY ZenonT(40) DEF Tick
  <2>2. csm[n] \in CsmRecord
    BY SideFacts, Zenon
  <2> QED
    BY <2>1, <2>2, ZenonT(40) DEF CsmRecord, SameSync
<1> QED
  BY <1>1, IdleSync, ZenonT(40) DEF Tick, tcpVars

LEMMA EnvironmentSync ==
  ASSUME Inv, SInv, csm' = csm, endp' = endp, wire' = wire
  PROVE  SInv' /\ Maps
  BY IdleSync, Zenon DEF SameSync

LEMMA ReadMsgSync ==
  ASSUME Inv, SInv, NEW n \in Node, ReadMsg(n)
  PROVE  SInv' /\ Maps
<1> DEFINE k == csm[n].sock
           m == Head(wire[k][n])
           d == [EnqueueMsg(csm[n], m) EXCEPT !.hbUpdate = 0]
           a == csm[n].mlq
           w == wire[k][n]
<1>1. /\ csm[n] \in CsmRecord /\ k \in Conn /\ w # <<>> /\ a \in Seq(Msg) /\ w \in Seq(Msg)
  BY SideFacts, ZenonT(40) DEF ReadMsg
<1>2. /\ csm'[n] = d /\ csm'[Peer(n)] = csm[Peer(n)] /\ endp' = endp
      /\ wire'[k][n] = Tail(w)
      /\ \A j \in Conn, x \in Node : j # k \/ x # n => wire'[j][x] = wire[j][x]
  BY <1>1, TwoNodes, SMTT(40) DEF ReadMsg, Inv, TypeOK
<1> HIDE DEF k
<1>3. endp[k][n] = "open" /\ csm[n].sock = k
  BY <1>1, Zenon DEF Inv, NoLeakedSocket, k
<1>4. /\ d.sock = csm[n].sock /\ d.need = csm[n].need /\ d.ml = csm[n].ml /\ d.wait = csm[n].wait
      /\ d.role = csm[n].role /\ d.st = csm[n].st /\ d.pcap = csm[n].pcap /\ d.status = csm[n].status
      /\ d.mlq = IF m.type \in AppType THEN Append(a, m) ELSE a
  BY <1>1, Zenon DEF EnqueueMsg, CsmRecord
<1> HIDE DEF d, m
<1>5. \A x \in Node : /\ Steady(x, csm'[x]) /\ csm'[x].sock = csm[x].sock
                     /\ csm'[x].ml = csm[x].ml /\ csm'[x].wait = csm[x].wait
  <2>1. Steady(n, csm[n]) /\ Steady(Peer(n), csm[Peer(n)])
    BY TwoNodes, Zenon DEF SInv, Sides
  <2>2. Steady(n, d)
    BY <1>1, <1>3, <1>4, <2>1, TwoNodes, ZenonT(40) DEF Steady
  <2> QED
    BY <1>2, <1>4, <2>1, <2>2, TwoNodes, SMTT(40)
<1>6. Alike(Pending(n), Pending(n)')
  <2>1. Pending(n) = a \o w /\ Pending(n)' = d.mlq \o Tail(w)
    BY <1>2, <1>3, <1>4, ZenonT(40) DEF Pending
  <2>2. CASE m.type \in AppType
    <3>1. d.mlq \o Tail(w) = a \o w
      BY <1>1, <1>4, <2>2, MoveSame, ZenonT(40) DEF m
    <3> QED
      BY <2>1, <3>1, AlikeSelf, ZenonT(40)
  <2>3. CASE m.type \notin AppType
    <3>1. m.type \notin Moves
      BY <2>3, Zenon DEF Moves, AppType
    <3> HIDE DEF a, w
    <3>2. Alike(a \o w, a \o Tail(w))
      BY <1>1, <3>1, DropAlike, ZenonT(40) DEF m, w
    <3> QED
      BY <1>4, <2>1, <2>3, <3>2, ZenonT(40)
  <2> QED
    BY <2>2, <2>3, ZenonT(40)
<1>7. ASSUME csm[Peer(n)].sock # None PROVE Pending(Peer(n))' = Pending(Peer(n))
  <2>1. csm[Peer(n)].sock \in Conn /\ Peer(n) # n /\ Peer(n) \in Node
    BY <1>7, TwoNodes, SideFacts, ZenonT(40)
  <2> QED
    BY <1>2, <2>1, ZenonT(40) DEF Pending
<1>8. Sides' /\ Joint'
  BY <1>5, <1>6, <1>7, TwoNodes, AlikeSelf, QuietStep, ZenonT(40) DEF SInv
<1>9. Shut'
  BY <1>2, <1>3, ZenonT(40) DEF SInv, Shut
<1>10. Backlog'
  <2> SUFFICES ASSUME NEW j \in Conn, endp[j][Hi] = "backlog" PROVE Waiting(j)'
    BY <1>2, Zenon DEF SInv, Backlog
  <2>1. Waiting(j)
    BY Zenon DEF SInv, Backlog
  <2>2. j # k
    BY <1>1, <1>3, <2>1, ZenonT(40) DEF Waiting, Node
  <2>3. csm'[Lo].sock # j \/ csm'[Lo] = csm[Lo]
    BY <1>2, <1>3, <1>4, <2>2, TwoNodes, SMTT(40) DEF Node
  <2> QED
    BY <1>2, <1>5, <2>1, <2>2, <2>3, TwoNodes, ZenonT(40) DEF Waiting
<1>11. Maps
  <2>1. csm'[n].st = csm[n].st
    BY <1>2, <1>4, ZenonT(40)
  <2> QED
    BY <1>2, <1>5, <2>1, TwoNodes, SameMap, ZenonT(40)
<1> QED
  BY <1>8, <1>9, <1>10, <1>11, ZenonT(40) DEF SInv

LEMMA RejectSync ==
  ASSUME Inv, SInv, AddressesKept, NEW n \in Node, NEW k \in Conn, ServerReject(n, k)
  PROVE  SInv' /\ Maps
<1>1. /\ endp[k][n] = "backlog" /\ csm[n].sock # k
      /\ \A j \in Conn, x \in Node : j # k \/ x # n => endp'[j][x] = endp[j][x] /\ wire'[j][x] = wire[j][x]
      /\ endp'[k][n] = "closed" /\ wire'[k][n] = <<>>
  <2>1. /\ endp[k][n] = "backlog"
        /\ endp' = [endp EXCEPT ![k][n] = "closed"] /\ wire' = [wire EXCEPT ![k][n] = <<>>]
    BY Zenon DEF ServerReject, CloseEnd
  <2>2. endp \in [Conn -> [Node -> {"closed", "backlog", "open"}]] /\ wire \in [Conn -> [Node -> Seq(Msg)]]
    BY Zenon DEF Inv, TypeOK
  <2>3. csm[n].sock # k
    BY <2>1, Zenon DEF Inv, NoLeakedSocket
  <2> QED
    BY <2>1, <2>2, <2>3, ZenonT(40)
<1>2. \A x \in Node : /\ Steady(x, csm'[x]) /\ SameSync(csm[x], csm'[x])
                     /\ csm'[x].st = csm[x].st /\ csm'[x].pcap = csm[x].pcap /\ csm'[x].msgs = csm[x].msgs
  <2> SUFFICES ASSUME NEW x \in Node
               PROVE  /\ Steady(x, csm'[x]) /\ SameSync(csm[x], csm'[x])
                      /\ csm'[x].st = csm[x].st /\ csm'[x].pcap = csm[x].pcap /\ csm'[x].msgs = csm[x].msgs
    BY Zenon
  <2>1. csm[x] \in CsmRecord /\ Steady(x, csm[x]) /\ AddrSet(x)
    BY SideFacts, Zenon DEF SInv, Sides, AddressesKept
  <2>2. csm'[x] = csm[x] \/ csm'[x] = CheckConfig(x, csm[x])
    BY Zenon DEF ServerReject, Inv, TypeOK
  <2> QED
    BY <2>1, <2>2, CheckConfigSteady, SMTT(40) DEF SameSync
<1>3. ASSUME NEW x \in Node, csm[x].sock # None PROVE Pending(x)' = Pending(x)
  <2>1. csm[x].sock \in Conn /\ (csm[x].sock # k \/ x # n)
    BY <1>1, <1>3, SideFacts, Zenon
  <2>2. wire'[csm[x].sock][x] = wire[csm[x].sock][x]
    BY <1>1, <2>1, Zenon
  <2> QED
    BY <1>2, <2>2, ZenonT(40) DEF Pending, SameSync
<1>4. Sides' /\ Joint'
  BY <1>2, <1>3, AlikeSelf, QuietStep, Zenon DEF SInv, SameSync
<1>5. Shut'
  <2> SUFFICES ASSUME NEW j \in Conn, NEW x \in Node, endp'[j][x] = "closed"
               PROVE  wire'[j][x] = <<>>
    BY Zenon DEF Shut
  <2>1. CASE j = k /\ x = n
    BY <1>1, <2>1, Zenon
  <2>2. CASE j # k \/ x # n
    <3>1. endp[j][x] = "closed" /\ wire'[j][x] = wire[j][x]
      BY <1>1, <2>2, Zenon
    <3> QED
      BY <3>1, ZenonT(40) DEF SInv, Shut
  <2> QED
    BY <2>1, <2>2, Zenon
<1>6. Backlog'
  <2> SUFFICES ASSUME NEW j \in Conn
               PROVE  endp'[j][Lo] # "backlog" /\ (endp'[j][Hi] = "backlog" => Waiting(j)')
    BY Zenon DEF Backlog
  <2>1. endp[j][Lo] # "backlog" /\ (endp[j][Hi] = "backlog" => Waiting(j))
    BY Zenon DEF SInv, Backlog
  <2>2. n = Hi
    BY <1>1, Zenon DEF SInv, Backlog, Node
  <2>3. ASSUME endp'[j][Hi] = "backlog" PROVE Waiting(j)'
    <3>1. j # k /\ endp[j][Hi] = "backlog"
      BY <1>1, <2>2, <2>3, TwoNodes, ZenonT(40)
    <3>2. wire'[j][Lo] = wire[j][Lo] /\ wire'[j][Hi] = wire[j][Hi]
      BY <1>1, <3>1, TwoNodes, ZenonT(40)
    <3>3. csm'[Lo].sock = csm[Lo].sock /\ (Early(csm[Lo]) => Early(csm'[Lo]))
      BY <1>2, TwoNodes, ZenonT(40) DEF Early, SameSync
    <3> QED
      BY <2>1, <3>1, <3>2, <3>3, ZenonT(40) DEF Waiting
  <2> QED
    BY <1>1, <2>1, <2>2, <2>3, TwoNodes, ZenonT(40)
<1>7. Maps
  BY <1>2, SameMap, ZenonT(40) DEF SameSync
<1> QED
  BY <1>4, <1>5, <1>6, <1>7, ZenonT(40) DEF SInv

LEMMA EmptySide ==
  ASSUME NEW n \in Node, NEW c, c.ml = "INIT", NEW q, \A t \in Moves : ~Has(q, t)
  PROVE  Side(n, c, q)
<1>1. "SYNC_REQUEST" \in Moves /\ "SYNC_DONE" \in Moves /\ "UPDATE" \in Moves /\ "PURGE" \in Moves
  BY Zenon DEF Moves
<1>2. Once(q, "SYNC_REQUEST")
  BY <1>1, Zenon DEF Once, Has
<1> QED
  BY <1>1, <1>2, Zenon DEF Side, LoSide, HiSide

LEMMA AcceptSync ==
  ASSUME Inv, SInv, AddressesKept, NEW n \in Node, NEW k \in Conn, ServerAccept(n, k)
  PROVE  SInv' /\ Maps
<1> DEFINE c == CheckConfig(n, csm[n])
           d == [c EXCEPT !.sock = k, !.st = "NONEXISTENT"]
<1>1. /\ endp[k][n] = "backlog" /\ csm[n].sock = None /\ wire' = wire
      /\ csm' = [csm EXCEPT ![n] = d] /\ endp' = [endp EXCEPT ![k][n] = "open"]
  BY Zenon DEF ServerAccept
<1>2. n = Hi /\ Peer(n) = Lo /\ Waiting(k)
  BY <1>1, TwoNodes, ZenonT(40) DEF SInv, Backlog, Node, Peer
<1>3. /\ csm'[n] = d /\ csm'[Lo] = csm[Lo]
      /\ \A j \in Conn, x \in Node : j # k \/ x # n => endp'[j][x] = endp[j][x]
      /\ endp'[k][n] = "open"
  BY <1>1, <1>2, TwoNodes, SMTT(40) DEF Inv, TypeOK
<1>4. /\ csm[n] \in CsmRecord /\ Steady(n, csm[n]) /\ AddrSet(n) /\ csm[n].st = "NONEXISTENT"
      /\ csm[n].mlq = <<>> /\ csm[n].ml = "INIT"
  BY <1>1, SideFacts, Zenon DEF SInv, Sides, AddressesKept, Steady
<1>5. /\ c \in CsmRecord /\ Steady(n, c) /\ c.mlq = <<>> /\ c.ml = "INIT" /\ c.pcap = 0 /\ c.st = "NONEXISTENT"
  BY <1>4, CheckConfigSteady, ZenonT(40) DEF SameSync, Steady
<1> HIDE DEF c
<1>6. /\ d.sock = k /\ d.st = "NONEXISTENT" /\ d.mlq = <<>> /\ d.ml = "INIT" /\ d.pcap = 0
      /\ d.role = c.role /\ d.need = c.need /\ d.status = c.status
  BY <1>5, ZenonT(40) DEF CsmRecord
<1> HIDE DEF d
<1>7. Steady(n, d)
  BY <1>5, <1>6, TwoNodes, Zenon DEF Steady
<1>8. Shut'
  BY <1>1, <1>3, SMTT(40) DEF SInv, Shut
<1>9. Backlog'
  <2> SUFFICES ASSUME NEW j \in Conn
               PROVE  endp'[j][Lo] # "backlog" /\ (endp'[j][Hi] = "backlog" => Waiting(j)')
    BY Zenon DEF Backlog
  <2>1. endp[j][Lo] # "backlog" /\ (endp[j][Hi] = "backlog" => Waiting(j))
    BY Zenon DEF SInv, Backlog
  <2>2. Waiting(j)' <=> Waiting(j)
    BY <1>1, <1>3, ZenonT(40) DEF Waiting
  <2> QED
    BY <1>2, <1>3, <2>1, <2>2, TwoNodes, Zenon
<1>10. Pending(Hi)' = <<>> \o wire[k][Hi] /\ wire[k][Hi] \in Seq(Msg)
  BY <1>1, <1>2, <1>3, <1>6, SideFacts, ZenonT(40) DEF Pending
<1>11. \A t \in Moves : ~Has(Pending(Hi)', t)
  <2>1. Pending(Hi)' = wire[k][Hi]
    BY <1>10, SMTT(40)
  <2> QED
    BY <1>2, <2>1, Zenon DEF Waiting
<1>12. Pending(Lo)' = Pending(Lo)
  BY <1>1, <1>3, ZenonT(40) DEF Pending
<1>13. Sides'
  <2>1. Side(Hi, csm'[Hi], Pending(Hi)')
    BY <1>2, <1>3, <1>6, <1>11, EmptySide, ZenonT(40)
  <2>2. Steady(Lo, csm'[Lo]) /\ (csm'[Lo].sock # None => Side(Lo, csm'[Lo], Pending(Lo)'))
    BY <1>3, <1>12, TwoNodes, SMTT(40) DEF SInv, Sides
  <2> QED
    BY <1>2, <1>3, <1>7, <2>1, <2>2, ZenonT(40) DEF Sides, Node
<1>14. Joint'
  <2> SUFFICES ASSUME SameConn'
               PROVE  Both(csm'[Lo], csm'[Hi], Pending(Lo)', Pending(Hi)')
    BY Zenon DEF Joint
  <2>1. csm[Lo].sock = k
    BY <1>2, <1>3, <1>6, Zenon DEF SameConn
  <2>2. Early(csm[Lo]) /\ wire[k][Lo] = <<>>
    BY <1>2, <2>1, Zenon DEF Waiting
  <2>3. csm[Lo].ml = "INIT"
    BY <2>2, TwoNodes, SideFacts, ZenonT(40) DEF Early
  <2>4. Pending(Lo)' = <<>>
    BY <1>12, <2>1, <2>2, SMTT(40) DEF Pending, Early
  <2>5. ~Has(Pending(Lo)', "SYNC_REQUEST")
    BY <2>4, SMTT(40) DEF Has
  <2> QED
    BY <1>2, <1>3, <1>6, <2>3, <2>5, Zenon DEF Both
<1>15. Maps
  <2>1. csm[Lo].sock = k => Height(csm[Lo]) < 5
    <3> SUFFICES ASSUME csm[Lo].sock = k PROVE Height(csm[Lo]) < 5
      BY Zenon
    <3>1. Early(csm[Lo])
      BY <1>2, Zenon DEF Waiting
    <3>2. csm[Lo].st \in {"INITIALIZED", "CAPSENT"} /\ csm[Lo].ml = "INIT"
      BY <3>1, TwoNodes, SideFacts, ZenonT(40) DEF Early
    <3>3. Height(csm[Lo]) = 1 \/ Height(csm[Lo]) = 2
      BY <3>2, HeightOf, ZenonT(40)
    <3> QED
      BY <3>3, SMTT(40)
  <2>2. Height(csm'[n]) = 0
    BY <1>3, <1>6, HeightOf, ZenonT(40)
  <2> QED
    BY <1>1, <1>2, <1>3, <1>6, <2>1, <2>2, OpenMap, ZenonT(40)
<1> QED
  BY <1>8, <1>9, <1>13, <1>14, <1>15, ZenonT(40) DEF SInv

\* what leaving NONEXISTENT does to the record, with a given socket
LEMMA LeaveRecord ==
  ASSUME NEW n \in Node, NEW c \in CsmRecord, Steady(n, c), AddrSet(n), c.st = "NONEXISTENT",
         c.msgs = <<>>, NEW s \in Conn \cup {None}, c.sock # None => s = c.sock
  PROVE  LET d == [PrepareSession(n, c) EXCEPT !.sock = s, !.msgs = DropHead(@)]
             e == LeaveNonexistent(n, d)
         IN  /\ Steady(n, e) /\ e.sock = s /\ e.mlq = c.mlq /\ e.ml = c.ml /\ e.wait = c.wait
             /\ e.pcap = 0 /\ e.msgs = <<>> /\ e.st \in {"NONEXISTENT", "INITIALIZED"}
<1> DEFINE b == PrepareSession(n, c)
           d == [b EXCEPT !.sock = s, !.msgs = DropHead(@)]
           e == LeaveNonexistent(n, d)
<1>1. /\ b \in CsmRecord /\ Steady(n, b) /\ SameSync(c, b) /\ b.st = c.st /\ b.pcap = c.pcap
      /\ b.msgs = <<>>
  BY PrepareSteady, Zenon
<1> HIDE DEF b
<1>2. /\ d \in CsmRecord /\ d.sock = s /\ d.msgs = <<>> /\ d.mlq = b.mlq /\ d.ml = b.ml
      /\ d.wait = b.wait /\ d.role = b.role /\ d.st = b.st /\ d.pcap = b.pcap /\ d.need = b.need
      /\ d.status = b.status
  <2>1. DropHead(b.msgs) = <<>>
    BY <1>1, Zenon DEF DropHead
  <2> QED
    BY <1>1, <2>1, ZenonT(40) DEF CsmRecord
<1> HIDE DEF d
<1>3. Steady(n, d)
  BY <1>1, <1>2, ZenonT(40) DEF Steady, SameSync
<1>4. /\ Steady(n, e) /\ SameSync(d, e) /\ e.pcap = 0 /\ e.msgs = d.msgs
      /\ e.st \in {"NONEXISTENT", "INITIALIZED"}
  BY <1>1, <1>2, <1>3, LeaveSteady, ZenonT(40)
<1> HIDE DEF e
<1>5. /\ Steady(n, e) /\ e.sock = s /\ e.mlq = c.mlq /\ e.ml = c.ml /\ e.wait = c.wait
      /\ e.pcap = 0 /\ e.msgs = <<>> /\ e.st \in {"NONEXISTENT", "INITIALIZED"}
  BY <1>1, <1>2, <1>4, ZenonT(40) DEF SameSync
<1> QED
  BY <1>5, Zenon DEF e, d, b

LEMMA NonexistentSync ==
  ASSUME Inv, SInv, AddressesKept, NEW n \in Node, TransitNonexistent(n)
  PROVE  SInv' /\ Maps
<1> DEFINE c == HeartbeatCheck(csm[n])
           b == PrepareSession(n, c)
           d == [b EXCEPT !.msgs = DropHead(@)]
           e == LeaveNonexistent(n, d)
<1>1. csm' = [csm EXCEPT ![n] = e] /\ c.st = "NONEXISTENT" /\ endp' = endp /\ wire' = wire
  BY Zenon DEF TransitNonexistent, tcpVars
<1>2. csm[n] \in CsmRecord /\ Steady(n, csm[n]) /\ AddrSet(n)
  BY SideFacts, Zenon DEF SInv, Sides, AddressesKept
<1>3. /\ c \in CsmRecord /\ Steady(n, c) /\ SameSync(csm[n], c) /\ c.st = csm[n].st /\ c.msgs = csm[n].msgs
  BY <1>2, HeartbeatSteady, ZenonT(40)
<1>4. csm[n].st = "NONEXISTENT" /\ c.msgs = <<>>
  BY <1>1, <1>3, ZenonT(40) DEF Inv, Fresh
<1> HIDE DEF c
<1>5. d = [b EXCEPT !.sock = c.sock, !.msgs = DropHead(@)]
  <2>1. b \in CsmRecord /\ b.sock = c.sock
    BY <1>2, <1>3, PrepareSteady, ZenonT(40) DEF SameSync
  <2> HIDE DEF b
  <2>2. b = [b EXCEPT !.sock = c.sock]
    BY <2>1, ZenonT(40) DEF CsmRecord
  <2> QED
    BY <2>1, ZenonT(40) DEF CsmRecord
<1>6. /\ Steady(n, e) /\ e.sock = c.sock /\ e.mlq = c.mlq /\ e.ml = c.ml /\ e.wait = c.wait
      /\ e.st \in {"NONEXISTENT", "INITIALIZED"}
  <2>1. c.sock \in Conn \cup {None}
    BY <1>3, Zenon DEF CsmRecord
  <2> HIDE DEF d, b
  <2>2. LET f == [PrepareSession(n, c) EXCEPT !.sock = c.sock, !.msgs = DropHead(@)]
            g == LeaveNonexistent(n, f)
        IN  /\ Steady(n, g) /\ g.sock = c.sock /\ g.mlq = c.mlq /\ g.ml = c.ml /\ g.wait = c.wait
            /\ g.pcap = 0 /\ g.msgs = <<>> /\ g.st \in {"NONEXISTENT", "INITIALIZED"}
    BY <1>1, <1>2, <1>3, <1>4, <2>1, LeaveRecord, ZenonT(40)
  <2> QED
    BY <1>5, <2>2, ZenonT(40) DEF b
<1>7. c.sock = None => e.st = "NONEXISTENT"
  <2>1. b \in CsmRecord /\ b.sock = c.sock /\ b.st = c.st
    BY <1>2, <1>3, PrepareSteady, ZenonT(40) DEF SameSync
  <2> HIDE DEF b
  <2>2. d.sock = c.sock /\ d.st = c.st
    BY <2>1, Zenon DEF CsmRecord
  <2> HIDE DEF d
  <2> QED
    BY <1>1, <2>2, ZenonT(40) DEF LeaveNonexistent
<1> HIDE DEF e
<1>8. csm'[n] = e /\ csm'[Peer(n)] = csm[Peer(n)]
  BY <1>1, TwoNodes, ZenonT(40) DEF Inv, TypeOK
<1>9. \A x \in Node : /\ Steady(x, csm'[x]) /\ csm'[x].sock = csm[x].sock /\ csm'[x].mlq = csm[x].mlq
                     /\ csm'[x].ml = csm[x].ml /\ csm'[x].wait = csm[x].wait
  BY <1>3, <1>6, <1>8, TwoNodes, ZenonT(40) DEF SameSync, SInv, Sides
<1>10. \A x \in Node : Pending(x)' = Pending(x)
  BY <1>1, <1>9, ZenonT(40) DEF Pending
<1>11. Sides' /\ Joint'
  BY <1>9, <1>10, AlikeSelf, QuietStep, ZenonT(40) DEF SInv
<1>12. Shut'
  BY <1>1, Zenon DEF SInv, Shut
<1>13. Backlog'
  <2> SUFFICES ASSUME NEW j \in Conn, endp[j][Hi] = "backlog" PROVE Waiting(j)'
    BY <1>1, Zenon DEF SInv, Backlog
  <2>1. Waiting(j)
    BY Zenon DEF SInv, Backlog
  <2>2. csm'[Lo].sock # j \/ csm'[Lo] = csm[Lo]
    <3>1. CASE n = Lo
      BY <1>4, <1>9, <2>1, <3>1, ZenonT(40) DEF Waiting, Early
    <3>2. CASE n = Hi
      BY <1>8, <3>2, TwoNodes, ZenonT(40) DEF Peer
    <3> QED
      BY <3>1, <3>2, ZenonT(40) DEF Node
  <2> QED
    BY <1>1, <1>9, <2>1, <2>2, TwoNodes, ZenonT(40) DEF Waiting
<1>14. Maps
  <2>1. csm[n].ml = "INIT" /\ csm'[n].ml = "INIT" /\ csm'[n].sock = csm[n].sock
    BY <1>4, <1>9, SideFacts, SMTT(40)
  <2>2. CASE e.st = "NONEXISTENT"
    BY <1>4, <1>8, <1>9, <2>2, TwoNodes, SameMap, ZenonT(40)
  <2>3. CASE e.st = "INITIALIZED"
    <3>1. Height(csm[n]) = 0 /\ Height(csm'[n]) = 1
      BY <1>4, <1>8, <2>1, <2>3, HeightOf, Zenon
    <3>2. csm[n].sock # None
      BY <1>3, <1>7, <2>3, Zenon DEF SameSync
    <3> QED
      BY <1>8, <2>1, <3>1, <3>2, GreetMap, SMTT(40)
  <2> QED
    BY <1>6, <2>2, <2>3, ZenonT(40)
<1> QED
  BY <1>11, <1>12, <1>13, <1>14, ZenonT(40) DEF SInv

LEMMA ConnectSync ==
  ASSUME Inv, SInv, AddressesKept, NEW n \in Node, TransitConnect(n)
  PROVE  SInv' /\ Maps
<1> DEFINE c == csm[n]
           d(k) == [PrepareSession(n, c) EXCEPT !.sock = k, !.msgs = DropHead(@)]
           e(k) == LeaveNonexistent(n, d(k))
<1>1. PICK k \in FreeConn :
        /\ csm' = [csm EXCEPT ![n] = e(k)]
        /\ endp' = [endp EXCEPT ![k] = [x \in Node |-> IF x = n THEN "open" ELSE "backlog"]]
  BY ZenonT(40) DEF TransitConnect
<1>2. /\ c.st = "NONEXISTENT" /\ c.sock = None /\ SenderIp(n) < PeerIp(n) /\ wire' = wire
  BY Zenon DEF TransitConnect, MayConnect
<1>3. k \in Conn /\ k # None /\ \A x \in Node : endp[k][x] = "closed" /\ wire[k][x] = <<>>
  BY TwoNodes, ZenonT(40) DEF FreeConn, SInv, Shut
<1>4. n = Lo /\ Peer(n) = Hi /\ AddrSet(n)
  BY <1>2, RoleCount, TwoNodes, ZenonT(40) DEF AddressesKept, Peer
<1>5. /\ c \in CsmRecord /\ Steady(n, c) /\ c.msgs = <<>> /\ c.mlq = <<>> /\ c.ml = "INIT"
  BY <1>2, SideFacts, ZenonT(40) DEF SInv, Sides, Steady, Inv, Fresh
<1>6. /\ Steady(n, e(k)) /\ e(k).sock = k /\ e(k).mlq = <<>> /\ e(k).ml = "INIT"
      /\ e(k).pcap = 0 /\ e(k).msgs = <<>>
  <2> HIDE DEF c
  <2>1. k \in Conn \cup {None} /\ (c.sock # None => k = c.sock)
    BY <1>2, <1>3, ZenonT(40)
  <2>2. LET f == [PrepareSession(n, c) EXCEPT !.sock = k, !.msgs = DropHead(@)]
            g == LeaveNonexistent(n, f)
        IN  /\ Steady(n, g) /\ g.sock = k /\ g.mlq = c.mlq /\ g.ml = c.ml /\ g.wait = c.wait
            /\ g.pcap = 0 /\ g.msgs = <<>> /\ g.st \in {"NONEXISTENT", "INITIALIZED"}
    BY <1>2, <1>4, <1>5, <2>1, LeaveRecord, ZenonT(40)
  <2> QED
    BY <1>5, <2>2, ZenonT(40)
<1>7. e(k).st = "INITIALIZED"
  <2>1. Sound(n, PrepareSession(n, c)) /\ PrepareSession(n, c).st = c.st /\ PrepareSession(n, c).msgs = c.msgs
    BY <1>4, SideFacts, PrepareSound, ZenonT(40)
  <2> DEFINE b == PrepareSession(n, c)
  <2> HIDE DEF b
  <2>2. DropHead(b.msgs) = <<>>
    BY <1>5, <2>1, ZenonT(40) DEF DropHead, b
  <2>3. Sound(n, d(k)) /\ d(k).sock = k /\ d(k).st = "NONEXISTENT"
    <3>1. /\ d(k) \in CsmRecord /\ d(k).sock = k /\ d(k).msgs = <<>>
          /\ d(k).st = b.st /\ d(k).app = b.app /\ d(k).ml = b.ml /\ d(k).srg = b.srg
          /\ d(k).prg = b.prg /\ d(k).status = b.status
      <4>1. b \in CsmRecord
        BY <2>1, Zenon DEF Sound, b
      <4> DEFINE q == DropHead(b.msgs)
      <4>2. d(k) = [b EXCEPT !.sock = k, !.msgs = q]
        BY ZenonT(40) DEF b
      <4>3. q \in Seq(Msg) /\ k \in Conn \cup {None}
        BY <1>3, <2>2, SMTT(40)
      <4>4. q = <<>>
        BY <2>2, Zenon
      <4> HIDE DEF d, q
      <4>5. d(k) \in CsmRecord
        BY <4>1, <4>2, <4>3, ZenonT(40) DEF CsmRecord
      <4>6. /\ d(k).sock = k /\ d(k).msgs = q
            /\ d(k).st = b.st /\ d(k).app = b.app /\ d(k).ml = b.ml /\ d(k).srg = b.srg
            /\ d(k).prg = b.prg /\ d(k).status = b.status
        BY <4>1, <4>2, <4>3, ZenonT(40) DEF CsmRecord
      <4> QED
        BY <4>4, <4>5, <4>6, Zenon
    <3> HIDE DEF d
    <3> QED
      BY <1>2, <1>3, <2>1, <3>1, SMTT(40) DEF Sound, b
  <2>4. ConfigOk(n)
    BY Zenon DEF TransitConnect, MayConnect
  <2> HIDE DEF d
  <2> QED
    BY <1>3, <2>3, <2>4, LeaveNonexistentSound, ZenonT(40)
<1> HIDE DEF e
<1>8. /\ csm'[Lo] = e(k) /\ csm'[Hi] = csm[Hi]
      /\ \A j \in Conn \ {k}, x \in Node : endp'[j][x] = endp[j][x]
      /\ endp'[k][Lo] = "open" /\ endp'[k][Hi] = "backlog"
  BY <1>1, <1>3, <1>4, TwoNodes, SMTT(40) DEF Inv, TypeOK
<1>9. Shut'
  BY <1>2, <1>3, <1>8, ZenonT(40) DEF SInv, Shut
<1>10. Backlog'
  <2> SUFFICES ASSUME NEW j \in Conn
               PROVE  endp'[j][Lo] # "backlog" /\ (endp'[j][Hi] = "backlog" => Waiting(j)')
    BY Zenon DEF Backlog
  <2>1. CASE j = k
    <3>1. Early(csm'[Lo])
      BY <1>6, <1>7, <1>8, Zenon DEF Early
    <3>2. \A t \in Moves : ~Has(wire'[k][Hi], t)
      BY <1>2, <1>3, TwoNodes, SMTT(40) DEF Has
    <3> QED
      BY <1>2, <1>3, <1>8, <2>1, <3>1, <3>2, TwoNodes, Zenon DEF Waiting
  <2>2. CASE j # k
    <3>1. endp[j][Lo] # "backlog" /\ (endp[j][Hi] = "backlog" => Waiting(j))
      BY Zenon DEF SInv, Backlog
    <3>2. csm'[Lo].sock # j
      BY <1>6, <1>8, <2>2, ZenonT(40)
    <3> QED
      BY <1>2, <1>8, <2>2, <3>1, <3>2, TwoNodes, SMTT(40) DEF Waiting
  <2> QED
    BY <2>1, <2>2, Zenon
<1>11. Pending(Hi)' = Pending(Hi) /\ Pending(Lo)' = <<>>
  BY <1>2, <1>3, <1>6, <1>8, TwoNodes, SMTT(40) DEF Pending
<1>12. Sides'
  <2>1. \A t \in Moves : ~Has(Pending(Lo)', t)
    BY <1>11, SMTT(40) DEF Has
  <2>2. Side(Lo, csm'[Lo], Pending(Lo)')
    BY <1>6, <1>8, <2>1, TwoNodes, EmptySide, ZenonT(40)
  <2>3. Steady(Hi, csm'[Hi]) /\ (csm'[Hi].sock # None => Side(Hi, csm'[Hi], Pending(Hi)'))
    BY <1>8, <1>11, TwoNodes, SMTT(40) DEF SInv, Sides
  <2> QED
    BY <1>4, <1>6, <1>8, <2>2, <2>3, ZenonT(40) DEF Sides, Node
<1>13. Joint'
  <2>1. csm[Hi].sock # k
    BY <1>3, TwoNodes, Zenon DEF Inv, NoLeakedSocket
  <2> QED
    BY <1>6, <1>8, <2>1, ZenonT(40) DEF Joint, SameConn
<1>14. Maps
  <2>1. csm[Hi].sock # k
    BY <1>3, TwoNodes, Zenon DEF Inv, NoLeakedSocket
  <2>2. Height(csm'[Lo]) = 1
    BY <1>6, <1>7, <1>8, HeightOf, SMTT(40)
  <2> QED
    BY <1>2, <1>3, <1>4, <1>6, <1>8, <2>1, <2>2, OpenMap, ZenonT(40)
<1> QED
  BY <1>9, <1>10, <1>12, <1>13, <1>14, Zenon DEF SInv

\* what a daemon writes on its connection
LEMMA DeliverFacts ==
  ASSUME Inv, NEW n \in Node, NEW k \in Conn, NEW ms \in Seq(Msg), Deliver(n, k, ms)
  PROVE  /\ \A j \in Conn, x \in Node : j # k \/ x = n => wire'[j][x] = wire[j][x]
         /\ wire'[k][Peer(n)] = IF endp[k][Peer(n)] = "closed" THEN wire[k][Peer(n)]
                                ELSE wire[k][Peer(n)] \o ms
<1>1. wire \in [Conn -> [Node -> Seq(Msg)]]
  BY Zenon DEF Inv, TypeOK
<1> QED
  BY <1>1, TwoNodes, SMTT(40) DEF Deliver

LEMMA SessionSends ==
  ASSUME NEW n \in Node, NEW c, NEW m, NEW d, NEW t \in Moves
  PROVE  LET ms == TransitSends(n, c, m) \o (IF d.app = "OPERATIONAL" THEN Heartbeat(n, d) ELSE <<>>)
         IN  ms \in Seq(Msg) /\ ~Has(ms, t)
<1> DEFINE a == TransitSends(n, c, m)
           b == IF d.app = "OPERATIONAL" THEN Heartbeat(n, d) ELSE <<>>
           M(u) == [type |-> u, rg |-> Rg[n]]
<1>1. \A u \in SessionType \cup AppType : M(u) \in Msg /\ M(u).type = u
  BY AppMsgType, MsgOfType, Zenon
<1>2. ASSUME NEW u \in SessionType \cup AppType, u \notin Moves
      PROVE  <<M(u)>> \in Seq(Msg) /\ ~Has(<<M(u)>>, t)
  <2>1. M(u) \in Msg /\ M(u).type # t
    BY <1>1, <1>2, Zenon
  <2> HIDE DEF M
  <2>2. <<M(u)>> \in Seq(Msg)
    BY <2>1, SMTT(40)
  <2>3. ~Has(<<M(u)>>, t)
    BY <2>1, FewHas, ZenonT(40)
  <2> QED
    BY <2>2, <2>3, Zenon
<1>3. <<>> \in Seq(Msg) /\ ~Has(<<>>, t)
  BY DEF Has
<1>4. a \in Seq(Msg) /\ ~Has(a, t)
  <2>1. a = <<>> \/ \E u \in SessionType : a = <<M(u)>>
    BY Zenon DEF TransitSends, PrepareIccpMsg, SessionType
  <2>2. \A u \in SessionType : u \notin Moves
    BY Zenon DEF SessionType, Moves
  <2> HIDE DEF a, M
  <2> QED
    BY <1>2, <1>3, <2>1, <2>2, ZenonT(40)
<1>5. b \in Seq(Msg) /\ ~Has(b, t)
  <2>1. b = <<>> \/ b = <<M("HEARTBEAT")>>
    BY Zenon DEF Heartbeat, AppMsg
  <2>2. "HEARTBEAT" \in SessionType \cup AppType /\ "HEARTBEAT" \notin Moves
    BY Zenon DEF AppType, Moves
  <2> HIDE DEF b, M
  <2> QED
    BY <1>2, <1>3, <2>1, <2>2, ZenonT(40)
<1> HIDE DEF a, b
<1>6. a \o b \in Seq(Msg) /\ ~Has(a \o b, t)
  BY <1>4, <1>5, CatHas, SMTT(40)
<1> QED
  BY <1>6, Zenon DEF a, b

\* a state of the session, and the ones it can be followed by between members
\* of one redundancy group
Ahead(s, t) ==
    \/ t = s
    \/ s = "INITIALIZED" /\ t \in {"CAPSENT", "CAPREC"}
    \/ s = "CAPSENT" /\ t = "CAPREC"
    \/ s = "CAPREC" /\ t \in {"CONNECTING", "OPERATIONAL"}
    \/ s = "CONNECTING" /\ t = "OPERATIONAL"

\* iccp_csm_transit on the record: the synchronisation is left alone, and an
\* end that was not greeted does not complete the exchange of capabilities
LEMMA TransitSteady ==
  ASSUME NEW n \in Node, NEW c, Sound(n, c), Steady(n, c), c.st # "NONEXISTENT",
         NEW m \in MsgOf(Peer(n)) \cup {NoMsg}
  PROVE  LET e == TransitCsm(n, c, m)
         IN  /\ Steady(n, e) /\ e.role = c.role /\ e.msgs = c.msgs
             /\ e.sock = c.sock /\ e.mlq = c.mlq /\ e.need = c.need /\ e.ml = c.ml /\ e.wait = c.wait
             /\ m = NoMsg /\ c.pcap = 0 /\ c.st \in {"INITIALIZED", "CAPSENT"} =>
                   e.pcap = 0 /\ e.st \in {"INITIALIZED", "CAPSENT"}
             /\ Rg[Lo] = Rg[Hi] => Ahead(c.st, e.st)
<1> DEFINE d == Correspond(n, c, m)
           e == [d EXCEPT !.st = NextIccpState(d)]
           f == EnterState(e)
           g == TransitCsm(n, c, m)
<1>1. c \in CsmRecord /\ Sound(n, d) /\ d \in CsmRecord /\ d.st = c.st /\ d.sock = c.sock
  BY CorrespondSound, ZenonT(40) DEF Sound
<1>2. /\ d.role = c.role /\ d.mlq = c.mlq /\ d.need = c.need /\ d.ml = c.ml /\ d.wait = c.wait
      /\ d.msgs = c.msgs /\ (m = NoMsg => d.pcap = c.pcap)
  BY <1>1, SMTT(40) DEF Correspond, CheckId, CsmRecord
<1>3. Rg[Lo] = Rg[Hi] => d.status = NoStatus
  <2> SUFFICES ASSUME Rg[Lo] = Rg[Hi] PROVE d.status = NoStatus
    BY Zenon
  <2>1. c.status = NoStatus /\ Rg[Peer(n)] = Rg[n]
    BY Zenon DEF Steady, Peer, Node
  <2>2. m # NoMsg => m.rg = Rg[n]
    BY <2>1, Zenon DEF MsgOf
  <2> QED
    BY <1>1, <2>1, <2>2, Zenon DEF Correspond, CheckId, CsmRecord
<1>4. NextIccpState(d) \in IccpState \ {"NONEXISTENT"}
  <2>1. d.st # "NONEXISTENT"
    BY <1>1, Zenon
  <2> HIDE DEF d
  <2>2. NextIccpState(d) # "NONEXISTENT"
    BY <2>1, Zenon DEF NextIccpState
  <2> QED
    BY <1>1, <2>2, NextIccpStateType, Zenon
<1>5. d.pcap = 0 /\ d.st \in {"INITIALIZED", "CAPSENT"} => NextIccpState(d) \in {"INITIALIZED", "CAPSENT"}
  <2> HIDE DEF d
  <2> QED
    BY SMTT(40) DEF NextIccpState
<1>6. g = e \/ g = f
  BY Zenon DEF TransitCsm
<1> HIDE DEF d
<1>7. /\ e \in CsmRecord /\ e.st = NextIccpState(d) /\ e.role = d.role /\ e.mlq = d.mlq /\ e.need = d.need
      /\ e.ml = d.ml /\ e.wait = d.wait /\ e.msgs = d.msgs /\ e.pcap = d.pcap /\ e.sock = d.sock
      /\ e.status = d.status
  <2>1. e \in CsmRecord
    BY <1>1, <1>4, ZenonT(40) DEF CsmRecord
  <2> QED
    BY <1>1, <2>1, Zenon DEF CsmRecord
<1> HIDE DEF e
<1>8. /\ f.st = e.st /\ f.role = e.role /\ f.mlq = e.mlq /\ f.need = e.need
      /\ f.ml = e.ml /\ f.wait = e.wait /\ f.msgs = e.msgs /\ f.sock = e.sock
      /\ f.status = e.status /\ (e.st # "CAPREC" => f.pcap = e.pcap)
  BY <1>7, Zenon DEF EnterState, CsmRecord
<1> HIDE DEF f, g
<1>9. /\ g.st = NextIccpState(d) /\ g.role = c.role /\ g.mlq = c.mlq /\ g.need = c.need
      /\ g.ml = c.ml /\ g.wait = c.wait /\ g.msgs = c.msgs /\ g.sock = c.sock
      /\ g.status = d.status /\ (NextIccpState(d) # "CAPREC" => g.pcap = d.pcap)
  BY <1>1, <1>2, <1>6, <1>7, <1>8, ZenonT(40)
<1>10. Steady(n, g)
  BY <1>3, <1>4, <1>9, ZenonT(40) DEF Steady
<1>11. m = NoMsg /\ c.pcap = 0 /\ c.st \in {"INITIALIZED", "CAPSENT"} =>
                   g.pcap = 0 /\ g.st \in {"INITIALIZED", "CAPSENT"}
  BY <1>1, <1>2, <1>5, <1>9, ZenonT(40)
<1>12. Rg[Lo] = Rg[Hi] => Ahead(c.st, g.st)
  <2>1. d.st = "OPERATIONAL" => d.srg = 1 /\ d.prg = 1
    BY <1>1, ZenonT(40) DEF Sound
  <2> QED
    BY <1>1, <1>3, <1>9, <2>1, SMTT(40) DEF NextIccpState, Ahead
<1> QED
  BY <1>9, <1>10, <1>11, <1>12, ZenonT(40) DEF g

LEMMA SessionSync ==
  ASSUME Inv, SInv, NEW n \in Node, TransitSession(n)
  PROVE  SInv' /\ Maps
<1> DEFINE c == HeartbeatCheck(csm[n])
           m == IF c.msgs = <<>> THEN NoMsg ELSE Head(c.msgs)
           b == [c EXCEPT !.msgs = DropHead(@)]
           e == TransitCsm(n, b, m)
           d == AppTransit(e)
           f == IF d.app = "OPERATIONAL" /\ HeartbeatDue(d) THEN [d EXCEPT !.hbSend = 0] ELSE d
           ms == TransitSends(n, c, m) \o (IF d.app = "OPERATIONAL" THEN Heartbeat(n, d) ELSE <<>>)
           k == csm[n].sock
<1>1. csm' = [csm EXCEPT ![n] = f] /\ Deliver(n, c.sock, ms)
  BY ZenonT(40) DEF TransitSession
<1>2. endp' = endp /\ csm[n].st # "NONEXISTENT" /\ k # None
  BY Zenon DEF TransitSession
<1>3. Sound(n, csm[n]) /\ Steady(n, csm[n]) /\ csm[n] \in CsmRecord /\ k \in Conn
  BY <1>2, SideFacts, Zenon DEF SInv, Sides
<1>4. /\ Sound(n, c) /\ Steady(n, c) /\ SameSync(csm[n], c) /\ c.st = csm[n].st /\ c.pcap = csm[n].pcap
      /\ c.msgs = csm[n].msgs /\ c.role = csm[n].role
  BY <1>3, HeartbeatCheckSound, HeartbeatSteady, ZenonT(40)
<1> HIDE DEF c
<1>5. m \in MsgOf(Peer(n)) \cup {NoMsg}
  BY <1>4, SMTT(40) DEF Sound
<1>6. Sound(n, b) /\ b.sock = c.sock /\ b.st = c.st
  BY <1>4, DropHeadSound, ZenonT(40) DEF Sound, CsmRecord
<1>7. /\ b.role = c.role /\ b.mlq = c.mlq /\ b.need = c.need /\ b.ml = c.ml /\ b.wait = c.wait
      /\ b.pcap = c.pcap /\ b.status = c.status /\ b.msgs = DropHead(c.msgs)
  BY <1>4, Zenon DEF Sound, CsmRecord
<1>8. c.msgs = <<>> => m = NoMsg /\ b.msgs = <<>>
  BY <1>7, Zenon DEF DropHead
<1> HIDE DEF b
<1>9. Steady(n, b)
  BY <1>4, <1>6, <1>7, Zenon DEF Steady
<1>10. \A t \in Moves : ms \in Seq(Msg) /\ ~Has(ms, t)
  BY SessionSends, Zenon
<1>11. ms \in Seq(Msg)
  <2>1. "UPDATE" \in Moves
    BY Zenon DEF Moves
  <2> QED
    BY <1>10, <2>1, ZenonT(40)
<1> HIDE DEF m
<1>12. /\ Steady(n, e) /\ e.role = b.role /\ e.msgs = b.msgs /\ e.sock = b.sock /\ e.mlq = b.mlq
       /\ e.need = b.need /\ e.ml = b.ml /\ e.wait = b.wait
       /\ m = NoMsg /\ b.pcap = 0 /\ b.st \in {"INITIALIZED", "CAPSENT"} =>
                   e.pcap = 0 /\ e.st \in {"INITIALIZED", "CAPSENT"}
       /\ Rg[Lo] = Rg[Hi] => Ahead(b.st, e.st)
  BY <1>2, <1>4, <1>5, <1>6, <1>9, TransitSteady, ZenonT(40)
<1>13. Sound(n, e)
  BY <1>2, <1>4, <1>5, <1>6, TransitSound, Zenon
<1> HIDE DEF e, ms
<1>14. /\ f.role = e.role /\ f.msgs = e.msgs /\ f.sock = e.sock /\ f.mlq = e.mlq /\ f.st = e.st
       /\ f.need = e.need /\ f.ml = e.ml /\ f.wait = e.wait /\ f.pcap = e.pcap /\ f.status = e.status
  <2>1. e \in CsmRecord /\ d \in CsmRecord
    BY <1>13, AppTransitType, ZenonT(40) DEF Sound
  <2>2. /\ d.role = e.role /\ d.msgs = e.msgs /\ d.sock = e.sock /\ d.mlq = e.mlq /\ d.st = e.st
        /\ d.need = e.need /\ d.ml = e.ml /\ d.wait = e.wait /\ d.pcap = e.pcap /\ d.status = e.status
    BY <2>1, ZenonT(40) DEF AppTransit, CsmRecord
  <2> HIDE DEF d
  <2> QED
    BY <2>1, <2>2, Zenon DEF CsmRecord
<1> HIDE DEF d, f
<1>15. /\ Steady(n, f) /\ f.sock = k /\ f.mlq = csm[n].mlq /\ f.ml = csm[n].ml /\ f.wait = csm[n].wait
  <2>1. Steady(n, f)
    BY <1>12, <1>14, ZenonT(40) DEF Steady
  <2>2. f.sock = k /\ f.mlq = csm[n].mlq /\ f.ml = csm[n].ml /\ f.wait = csm[n].wait
    BY <1>4, <1>7, <1>6, <1>12, <1>14, ZenonT(40) DEF SameSync
  <2> QED
    BY <2>1, <2>2, Zenon
<1>16. csm'[n] = f /\ csm'[Peer(n)] = csm[Peer(n)]
  BY <1>1, TwoNodes, Zenon DEF Inv, TypeOK
<1>17. \A x \in Node : /\ Steady(x, csm'[x]) /\ csm'[x].sock = csm[x].sock /\ csm'[x].mlq = csm[x].mlq
                      /\ csm'[x].ml = csm[x].ml /\ csm'[x].wait = csm[x].wait
  BY <1>15, <1>16, TwoNodes, ZenonT(40) DEF SInv, Sides
<1>18. c.sock = k /\ Deliver(n, k, ms)
  BY <1>1, <1>4, Zenon DEF SameSync
<1> HIDE DEF k
<1>19. /\ \A j \in Conn, x \in Node : j # k \/ x = n => wire'[j][x] = wire[j][x]
       /\ wire'[k][Peer(n)] = IF endp[k][Peer(n)] = "closed" THEN wire[k][Peer(n)]
                              ELSE wire[k][Peer(n)] \o ms
  BY <1>3, <1>11, <1>18, DeliverFacts, Zenon
<1>20. \A x \in Node : csm[x].sock # None => Alike(Pending(x), Pending(x)')
  <2> SUFFICES ASSUME NEW x \in Node, csm[x].sock # None PROVE Alike(Pending(x), Pending(x)')
    BY Zenon
  <2>1. csm[x].sock \in Conn /\ csm[x].mlq \in Seq(Msg) /\ wire[csm[x].sock][x] \in Seq(Msg)
    BY SideFacts, ZenonT(40)
  <2>2. Pending(x)' = csm[x].mlq \o wire'[csm[x].sock][x]
    BY <1>17, ZenonT(40) DEF Pending
  <2>3. CASE wire'[csm[x].sock][x] = wire[csm[x].sock][x]
    BY <2>2, <2>3, AlikeSelf, ZenonT(40) DEF Pending
  <2>4. CASE wire'[csm[x].sock][x] = wire[csm[x].sock][x] \o ms
    <3> DEFINE q == csm[x].mlq \o wire[csm[x].sock][x]
    <3>1. q \in Seq(Msg) /\ csm[x].mlq \o (wire[csm[x].sock][x] \o ms) = q \o ms
      BY <1>11, <2>1, CatAssoc, ZenonT(40)
    <3>2. Pending(x) = q /\ Pending(x)' = q \o ms
      BY <2>2, <2>4, <3>1, ZenonT(40) DEF Pending
    <3> HIDE DEF q
    <3>3. Alike(q, q \o ms)
      BY <1>10, <1>11, <3>1, CatAlike, Zenon
    <3> QED
      BY <3>2, <3>3, ZenonT(40)
  <2>5. x = n \/ x = Peer(n)
    BY TwoNodes, Zenon
  <2> QED
    BY <1>19, <2>1, <2>3, <2>4, <2>5, ZenonT(40)
<1>21. Sides' /\ Joint'
  BY <1>17, <1>20, QuietStep, Zenon DEF SInv
<1>22. Shut'
  <2> SUFFICES ASSUME NEW j \in Conn, NEW x \in Node, endp[j][x] = "closed" PROVE wire'[j][x] = <<>>
    BY <1>2, Zenon DEF Shut
  <2>1. wire[j][x] = <<>>
    BY Zenon DEF SInv, Shut
  <2> QED
    BY <1>19, <2>1, TwoNodes, SMTT(40)
<1>23. Backlog'
  <2> SUFFICES ASSUME NEW j \in Conn, endp[j][Hi] = "backlog" PROVE Waiting(j)'
    BY <1>2, Zenon DEF SInv, Backlog
  <2>1. Waiting(j)
    BY Zenon DEF SInv, Backlog
  <2>2. CASE n = Hi
    <3>1. endp[k][n] = "open" /\ Peer(n) = Lo
      BY <1>3, <2>2, TwoNodes, SMTT(40) DEF Inv, NoLeakedSocket, k, Peer
    <3>2. wire'[j][Lo] = wire[j][Lo] /\ wire'[j][Hi] = wire[j][Hi] /\ csm'[Lo] = csm[Lo]
      BY <1>16, <1>19, <2>2, <3>1, TwoNodes, Zenon
    <3> QED
      BY <2>1, <3>2, Zenon DEF Waiting
  <2>3. CASE n = Lo
    <3>1. Peer(n) = Hi /\ wire'[j][Lo] = wire[j][Lo]
      BY <1>19, <2>3, TwoNodes, Zenon DEF Peer
    <3>2. \A t \in Moves : ~Has(wire'[j][Hi], t)
      <4>1. CASE j = k
        <5>1. wire'[j][Hi] = wire[j][Hi] \o ms
          BY <1>19, <3>1, <4>1, ZenonT(40)
        <5>2. wire[j][Hi] \in Seq(Msg)
          BY TwoNodes, SideFacts, Zenon
        <5> QED
          BY <1>10, <1>11, <2>1, <5>1, <5>2, CatHas, SMTT(40) DEF Waiting
      <4>2. CASE j # k
        BY <1>19, <2>1, <4>2, TwoNodes, ZenonT(40) DEF Waiting
      <4> QED
        BY <4>1, <4>2, ZenonT(40)
    <3>3. csm'[Lo].sock = j => Early(csm'[Lo])
      <4> SUFFICES ASSUME csm[Lo].sock = j PROVE Early(f)
        BY <1>16, <1>17, <2>3, TwoNodes, ZenonT(40)
      <4>1. Early(csm[n])
        BY <2>1, <2>3, ZenonT(40) DEF Waiting
      <4> QED
        BY <1>4, <1>6, <1>7, <1>8, <1>12, <1>14, <1>15, <4>1, ZenonT(40) DEF Early
    <3> QED
      BY <2>1, <3>1, <3>2, <3>3, Zenon DEF Waiting
  <2> QED
    BY <2>2, <2>3, Zenon DEF Node
<1>24. Maps
  <2> SUFFICES ASSUME Rg[Lo] = Rg[Hi] PROVE Maps
    BY Zenon DEF Maps
  <2>1. Ahead(csm[n].st, csm'[n].st)
    BY <1>4, <1>6, <1>12, <1>14, <1>16, ZenonT(40)
  <2>2. CASE csm'[n].st = csm[n].st
    BY <1>16, <1>17, <2>2, TwoNodes, SameMap, ZenonT(40)
  <2>3. CASE csm'[n].st # csm[n].st
    <3>1. csm[n].ml = "INIT" /\ csm'[n].ml = "INIT"
      BY <1>17, <2>1, <2>3, SideFacts, ZenonT(40) DEF Ahead
    <3>2. Height(csm[n]) < 5 /\ Height(csm'[n]) \in Height(csm[n]) + 1 .. 5
      BY <2>1, <2>3, <3>1, HeightOf, SMTT(40) DEF Ahead
    <3> QED
      BY <1>2, <1>16, <1>17, <3>2, GreetMap, ZenonT(40) DEF k
  <2> QED
    BY <2>2, <2>3, ZenonT(40)
<1> QED
  BY <1>21, <1>22, <1>23, <1>24, Zenon DEF SInv


-----------------------------------------------------------------------------
(* The roles, whatever the messages are.                                   *)

Ranked(n, c) ==
    c.role \in {"NONE", RoleOf(n)} /\ (c.st # "NONEXISTENT" => c.role = RoleOf(n))

RInv == \A n \in Node : Ranked(n, csm[n])

\* a step of one daemon, or of none
LEMMA RankStep ==
  ASSUME RInv, Inv, NEW n \in Node, NEW d, csm' = [csm EXCEPT ![n] = d], Ranked(n, d)
  PROVE  RInv'
  BY TwoNodes, ZenonT(40) DEF RInv, Inv, TypeOK

\* the role and the state are kept, the state is reset, or a session goes on
LEMMA RankKept ==
  ASSUME NEW n \in Node, NEW c, NEW d, Ranked(n, c), d.role = c.role,
         d.st = c.st \/ d.st = "NONEXISTENT" \/ c.st # "NONEXISTENT"
  PROVE  Ranked(n, d)
  BY Zenon DEF Ranked

LEMMA CheckConfigRanked ==
  ASSUME NEW n \in Node, NEW c \in CsmRecord, Ranked(n, c), AddrSet(n)
  PROVE  /\ CheckConfig(n, c) \in CsmRecord /\ Ranked(n, CheckConfig(n, c))
         /\ CheckConfig(n, c).st = c.st
         /\ ConfigOk(n) => CheckConfig(n, c).role = RoleOf(n)
<1> DEFINE d == CheckConfig(n, c)
           r == IF SenderIp(n) < PeerIp(n) THEN "ACTIVE" ELSE "STANDBY"
<1>1. r = RoleOf(n) /\ r # "NONE"
  BY RoleCount, ZenonT(40) DEF RoleOf
<1>2. d \in CsmRecord
  BY CheckConfigType, Zenon
<1>3. CASE plink[n] = "absent"
  BY <1>2, <1>3, ZenonT(40) DEF CheckConfig, ConfigOk
<1>4. CASE plink[n] # "absent"
  <2>1. d = [c EXCEPT !.role = IF c.role # "NONE" THEN c.role ELSE r]
    BY <1>4, Zenon DEF CheckConfig, StpRoleCount
  <2>2. d.role = RoleOf(n) /\ d.st = c.st
    BY <1>1, <2>1, ZenonT(40) DEF CsmRecord, Ranked
  <2> HIDE DEF d
  <2> QED
    BY <1>2, <2>2, ZenonT(40) DEF Ranked, d
<1> QED
  BY <1>3, <1>4, ZenonT(40)

LEMMA LeaveRanked ==
  ASSUME NEW n \in Node, NEW c \in CsmRecord, Ranked(n, c), AddrSet(n), c.st = "NONEXISTENT"
  PROVE  Ranked(n, LeaveNonexistent(n, c))
<1> DEFINE b == CheckConfig(n, c)
           d == [b EXCEPT !.st = "INITIALIZED"]
           e == LeaveNonexistent(n, c)
<1>1. /\ b \in CsmRecord /\ Ranked(n, b) /\ (ConfigOk(n) => b.role = RoleOf(n))
  BY CheckConfigRanked, ZenonT(40)
<1>2. e = c \/ e = b \/ (ConfigOk(n) /\ e = [d EXCEPT !.scap = 1])
  <2>1. d.st = "INITIALIZED"
    BY <1>1, ZenonT(40) DEF CsmRecord
  <2> QED
    BY <2>1, ZenonT(40) DEF LeaveNonexistent, EnterState
<1> HIDE DEF b, e
<1>3. CASE ConfigOk(n) /\ e = [d EXCEPT !.scap = 1]
  <2>1. e.role = b.role
    BY <1>1, <1>3, ZenonT(40) DEF CsmRecord
  <2> QED
    BY <1>1, <1>3, <2>1, ZenonT(40) DEF Ranked, e
<1> QED
  BY <1>1, <1>2, <1>3, ZenonT(40) DEF e

LEMMA PrepareRanked ==
  ASSUME NEW n \in Node, NEW c \in CsmRecord, Ranked(n, c), AddrSet(n)
  PROVE  /\ PrepareSession(n, c) \in CsmRecord /\ Ranked(n, PrepareSession(n, c))
         /\ PrepareSession(n, c).st = c.st
<1> DEFINE b == IF ConnectDue(c) /\ c.sock = None THEN CheckConfig(n, c) ELSE c
           d == PrepareSession(n, c)
<1>1. d \in CsmRecord
  BY PrepareSessionType, Zenon
<1>2. b \in CsmRecord /\ Ranked(n, b) /\ b.st = c.st
  BY CheckConfigRanked, ZenonT(40)
<1>3. d = b \/ d = [b EXCEPT !.connPrev = 0]
  BY Zenon DEF PrepareSession
<1> HIDE DEF b, d
<1>4. d.role = b.role /\ d.st = b.st
  BY <1>2, <1>3, ZenonT(40) DEF CsmRecord
<1> QED
  BY <1>1, <1>2, <1>4, RankKept, ZenonT(40) DEF d

\* both ways to leave NONEXISTENT: with a socket of its own, or a new one
LEMMA StartRanked ==
  ASSUME NEW n \in Node, NEW c \in CsmRecord, Ranked(n, c), AddrSet(n), c.st = "NONEXISTENT",
         NEW b, b = PrepareSession(n, c), NEW d \in CsmRecord, d.role = b.role, d.st = b.st
  PROVE  Ranked(n, LeaveNonexistent(n, d))
<1>1. Ranked(n, b) /\ b.st = "NONEXISTENT"
  BY PrepareRanked, ZenonT(40)
<1>2. Ranked(n, d) /\ d.st = "NONEXISTENT"
  BY <1>1, ZenonT(40) DEF Ranked
<1> QED
  BY <1>2, LeaveRanked, ZenonT(40)

LEMMA ConnectRanked ==
  ASSUME Inv, RInv, AddressesKept, NEW n \in Node, TransitConnect(n) \/ TransitNonexistent(n)
  PROVE  RInv'
<1>1. csm[n] \in CsmRecord /\ Ranked(n, csm[n]) /\ AddrSet(n)
  BY Zenon DEF Inv, TypeOK, RInv, AddressesKept
<1>2. CASE TransitConnect(n)
  <2> DEFINE b == PrepareSession(n, csm[n])
             q == DropHead(b.msgs)
             d(k) == [b EXCEPT !.sock = k, !.msgs = q]
  <2>1. PICK k \in FreeConn : csm' = [csm EXCEPT ![n] = LeaveNonexistent(n, d(k))]
    BY <1>2, ZenonT(40) DEF TransitConnect
  <2>2. csm[n].st = "NONEXISTENT" /\ k \in Conn \cup {None}
    BY <1>2, ZenonT(40) DEF TransitConnect, FreeConn
  <2>3. b \in CsmRecord
    BY <1>1, PrepareRanked, ZenonT(40)
  <2>4. q \in Seq(Msg)
    BY <2>3, DropHeadType, ZenonT(40) DEF CsmRecord
  <2> HIDE DEF b, q
  <2>5. d(k) \in CsmRecord
    BY <2>2, <2>3, <2>4, ZenonT(40) DEF CsmRecord
  <2>6. d(k).role = b.role /\ d(k).st = b.st
    BY <2>3, ZenonT(40) DEF CsmRecord
  <2> HIDE DEF d
  <2> QED
    BY <1>1, <2>1, <2>2, <2>5, <2>6, StartRanked, RankStep, ZenonT(40) DEF b
<1>3. CASE TransitNonexistent(n)
  <2> DEFINE c == HeartbeatCheck(csm[n])
             b == PrepareSession(n, c)
             q == DropHead(b.msgs)
             d == [b EXCEPT !.msgs = q]
  <2>1. csm' = [csm EXCEPT ![n] = LeaveNonexistent(n, d)] /\ c.st = "NONEXISTENT"
    BY <1>3, ZenonT(40) DEF TransitNonexistent
  <2>2. c \in CsmRecord /\ Ranked(n, c)
    <3>1. c \in CsmRecord
      BY <1>1, HeartbeatCheckType, ZenonT(40)
    <3>2. c.role = csm[n].role /\ c.st = csm[n].st
      BY <1>1, ZenonT(40) DEF HeartbeatCheck, CsmRecord
    <3> QED
      BY <1>1, <3>1, <3>2, RankKept, ZenonT(40)
  <2> HIDE DEF c
  <2>3. b \in CsmRecord
    BY <1>1, <2>2, PrepareRanked, ZenonT(40)
  <2>4. q \in Seq(Msg)
    BY <2>3, DropHeadType, ZenonT(40) DEF CsmRecord
  <2> HIDE DEF b, q
  <2>5. d \in CsmRecord
    BY <2>3, <2>4, ZenonT(40) DEF CsmRecord
  <2>6. d.role = b.role /\ d.st = b.st
    BY <2>3, ZenonT(40) DEF CsmRecord
  <2> HIDE DEF d
  <2> QED
    BY <1>1, <2>1, <2>2, <2>5, <2>6, StartRanked, RankStep, ZenonT(40) DEF b
<1> QED
  BY <1>2, <1>3, ZenonT(40)

LEMMA SessionRanked ==
  ASSUME Inv, RInv, NEW n \in Node, TransitSession(n)
  PROVE  RInv'
<1> DEFINE c == HeartbeatCheck(csm[n])
           m == IF c.msgs = <<>> THEN NoMsg ELSE Head(c.msgs)
           b == [c EXCEPT !.msgs = DropHead(@)]
           a == Correspond(n, b, m)
           e == TransitCsm(n, b, m)
           d == AppTransit(e)
           f == IF d.app = "OPERATIONAL" /\ HeartbeatDue(d) THEN [d EXCEPT !.hbSend = 0] ELSE d
<1>1. csm' = [csm EXCEPT ![n] = f] /\ csm[n].st # "NONEXISTENT"
  BY ZenonT(40) DEF TransitSession
<1>2. csm[n] \in CsmRecord /\ Ranked(n, csm[n])
  BY Zenon DEF Inv, TypeOK, RInv
<1>3. c \in CsmRecord /\ c.role = csm[n].role
  BY <1>2, HeartbeatCheckType, SMTT(40) DEF HeartbeatCheck, CsmRecord
<1> HIDE DEF c
<1>4. m \in Msg \cup {NoMsg} /\ b \in CsmRecord /\ b.role = c.role
  <2>1. c.msgs \in Seq(Msg)
    BY <1>3, ZenonT(40) DEF CsmRecord
  <2>2. DropHead(c.msgs) \in Seq(Msg) /\ m \in Msg \cup {NoMsg}
    BY <2>1, DropHeadType, ZenonT(40)
  <2>3. b \in CsmRecord
    BY <1>3, <2>2, ZenonT(40) DEF CsmRecord
  <2> QED
    BY <1>3, <2>2, <2>3, ZenonT(40) DEF CsmRecord
<1> HIDE DEF b, m
<1>5. a \in CsmRecord /\ a.role = b.role
  <2>1. a \in CsmRecord
    BY <1>4, CorrespondType, ZenonT(40)
  <2>2. a.role = b.role
    BY <1>4, ZenonT(40) DEF Correspond, CheckId, CsmRecord
  <2> QED
    BY <2>1, <2>2, ZenonT(40)
<1>6. e \in CsmRecord
  BY <1>4, TransitCsmType, Zenon
<1>7. e.role = b.role
  <2> DEFINE g == [a EXCEPT !.st = NextIccpState(a)]
  <2>1. e = g \/ e = EnterState(g)
    BY Zenon DEF TransitCsm
  <2> HIDE DEF a
  <2>2. g \in CsmRecord /\ g.role = a.role
    <3>1. g \in CsmRecord
      BY <1>5, NextIccpStateType, ZenonT(40) DEF CsmRecord
    <3> QED
      BY <1>5, <3>1, ZenonT(40) DEF CsmRecord
  <2> HIDE DEF g, e
  <2>3. EnterState(g).role = g.role
    BY <2>2, ZenonT(40) DEF EnterState, CsmRecord
  <2> QED
    BY <1>5, <2>1, <2>2, <2>3, ZenonT(40)
<1> HIDE DEF e
<1>8. d \in CsmRecord /\ d.role = e.role
  BY <1>6, AppTransitType, SMTT(40) DEF AppTransit, CsmRecord
<1> HIDE DEF d
<1>9. f.role = d.role
  BY <1>8, Zenon DEF CsmRecord
<1> HIDE DEF f
<1>10. Ranked(n, f)
  BY <1>1, <1>2, <1>3, <1>4, <1>7, <1>8, <1>9, RankKept, Zenon
<1> QED
  BY <1>1, <1>10, RankStep, ZenonT(40)

LEMMA LoopRanked ==
  ASSUME Inv, RInv, NEW n \in Node, MlacpLoop(n)
  PROVE  RInv'
<1> DEFINE c == BeginTurn(csm[n])
           m == TurnMsg(csm[n])
           e == Received(c, m)
<1>1. csm[n] \in CsmRecord /\ Ranked(n, csm[n])
  BY Zenon DEF Inv, TypeOK, RInv
<1>2. c \in CsmRecord /\ c.role = csm[n].role /\ c.st = csm[n].st
  BY <1>1, TurnMsgType, ZenonT(40) DEF BeginTurn, CsmRecord
<1>3. \E d \in {c, StageSent(c, m), StageRequested(c, m), [e EXCEPT !.need = 0]} :
         csm' = [csm EXCEPT ![n] = d]
  BY Zenon DEF MlacpLoop, TurnStageSend, TurnStageRequest, TurnExchange, TurnError, Turn
<1> HIDE DEF c, m
<1>4. e \in CsmRecord /\ e.role = c.role /\ e.st = c.st
  BY <1>2, ReceivedType, ZenonT(40) DEF Received, AllInfoSent, CsmRecord
<1> DEFINE s == StageSent(c, m)
           t == StageRequested(c, m)
           u == [e EXCEPT !.need = 0]
<1>5. s.role = c.role /\ s.st = c.st
  BY <1>2, Zenon DEF StageSent, AllInfoSent, CsmRecord
<1>6. t.role = c.role /\ t.st = c.st
  <2>1. t \in {[c EXCEPT !.wait = 1], [e EXCEPT !.ml = NextMlacpState(@)], e}
    BY Zenon DEF StageRequested
  <2> HIDE DEF e, t
  <2> QED
    BY <1>2, <1>4, <2>1, ZenonT(40) DEF CsmRecord
<1> HIDE DEF e
<1>7. u.role = c.role /\ u.st = c.st
  BY <1>4, ZenonT(40) DEF CsmRecord
<1>8. PICK d \in {c, s, t, u} : csm' = [csm EXCEPT ![n] = d]
  BY <1>3, ZenonT(40)
<1> HIDE DEF s, t, u
<1>9. d.role = csm[n].role /\ d.st = csm[n].st
  BY <1>2, <1>5, <1>6, <1>7, ZenonT(40)
<1> QED
  BY <1>1, <1>8, <1>9, RankKept, RankStep, ZenonT(40)

LEMMA DisconnectRanked ==
  ASSUME Inv, RInv, NEW n \in Node, SessionDisconnect(n)
  PROVE  RInv'
<1>1. csm' = [csm EXCEPT ![n] = Disconnected(csm[n])] /\ csm[n] \in CsmRecord
  BY Zenon DEF SessionDisconnect, Inv, TypeOK
<1>2. Ranked(n, Disconnected(csm[n]))
  BY <1>1, FreshSteady, ZenonT(40) DEF Ranked, Steady
<1> QED
  BY <1>1, <1>2, RankStep, ZenonT(40)

LEMMA EventsRanked ==
  ASSUME Inv, RInv, AddressesKept, NEW n \in Node, Events(n)
  PROVE  RInv'
<1>1. csm[n] \in CsmRecord /\ Ranked(n, csm[n]) /\ AddrSet(n)
  BY Zenon DEF Inv, TypeOK, RInv, AddressesKept
<1>2. CASE ReadMsg(n)
  <2> DEFINE m == Head(wire[csm[n].sock][n])
             b == EnqueueMsg(csm[n], m)
             d == [b EXCEPT !.hbUpdate = 0]
  <2>1. csm' = [csm EXCEPT ![n] = d]
    BY <1>2, ZenonT(40) DEF ReadMsg
  <2> HIDE DEF m
  <2>2. d.role = csm[n].role /\ d.st = csm[n].st
    BY <1>1, ZenonT(40) DEF EnqueueMsg, CsmRecord
  <2> HIDE DEF d
  <2> QED
    BY <1>1, <2>1, <2>2, RankKept, RankStep, ZenonT(40)
<1>3. CASE SessionDisconnect(n)
  BY <1>3, DisconnectRanked, ZenonT(40)
<1>4. ASSUME NEW k \in Conn, ServerAccept(n, k) PROVE RInv'
  <2> DEFINE c == CheckConfig(n, csm[n])
             d == [c EXCEPT !.sock = k, !.st = "NONEXISTENT"]
  <2>1. csm' = [csm EXCEPT ![n] = d]
    BY <1>4, ZenonT(40) DEF ServerAccept
  <2>2. c \in CsmRecord /\ Ranked(n, c)
    BY <1>1, CheckConfigRanked, ZenonT(40)
  <2> HIDE DEF c
  <2>3. d.role = c.role /\ d.st = "NONEXISTENT"
    BY <2>2, ZenonT(40) DEF CsmRecord
  <2> HIDE DEF d
  <2> QED
    BY <2>1, <2>2, <2>3, RankKept, RankStep, ZenonT(40)
<1>5. ASSUME NEW k \in Conn, ServerReject(n, k) PROVE RInv'
  <2>1. csm' = csm \/ csm' = [csm EXCEPT ![n] = CheckConfig(n, csm[n])]
    BY <1>5, ZenonT(40) DEF ServerReject
  <2>2. Ranked(n, CheckConfig(n, csm[n]))
    BY <1>1, CheckConfigRanked, ZenonT(40)
  <2>3. CASE csm' = csm
    BY <2>3, ZenonT(40) DEF RInv
  <2> QED
    BY <2>1, <2>2, <2>3, RankStep, ZenonT(40)
<1> QED
  BY <1>2, <1>3, <1>4, <1>5, ZenonT(40) DEF Events, ReadEof, ReadFail

LEMMA NextRanked ==
  ASSUME Inv, RInv, AddressesKept, [Next]_vars
  PROVE  RInv'
<1>1. ASSUME NEW n \in Node, SessionDisconnect(n) PROVE RInv'
  BY <1>1, DisconnectRanked, ZenonT(40)
<1>2. CASE csm' = csm
  BY <1>2, ZenonT(40) DEF RInv
<1>3. ASSUME NEW n \in Node, Config(n) PROVE RInv'
  BY <1>1, <1>2, <1>3, ZenonT(40) DEF Config, SetAddress, UnsetAddress, SetPeerLink, PeerLinkCreated
<1>4. ASSUME NEW n \in Node, Transit(n) PROVE RInv'
  BY <1>1, <1>4, ConnectRanked, SessionRanked, ZenonT(40) DEF Transit, TransitTimeout
<1>5. ASSUME NEW n \in Node, Restart(n) PROVE RInv'
  <2>1. csm' = [csm EXCEPT ![n] = InitCsm]
    BY <1>5, ZenonT(40) DEF Restart
  <2>2. Ranked(n, InitCsm)
    BY FreshSteady, InitCsmType, ZenonT(40) DEF Ranked, Steady
  <2> QED
    BY <2>1, <2>2, RankStep, ZenonT(40)
<1>6. CASE Tick
  <2>1. ASSUME NEW n \in Node PROVE Ranked(n, csm'[n])
    <3>1. csm'[n] = [csm[n] EXCEPT !.hbUpdate = Advance(@), !.hbSend = Advance(@), !.connPrev = Advance(@)]
      BY <1>6, ZenonT(40) DEF Tick
    <3>2. csm[n] \in CsmRecord /\ Ranked(n, csm[n])
      BY Zenon DEF Inv, TypeOK, RInv
    <3>3. csm'[n].role = csm[n].role /\ csm'[n].st = csm[n].st
      BY <3>1, <3>2, ZenonT(40) DEF CsmRecord
    <3> QED
      BY <3>2, <3>3, RankKept, ZenonT(40)
  <2> QED
    BY <2>1, ZenonT(40) DEF RInv
<1>7. CASE LinkDown \/ LinkUp \/ UNCHANGED vars
  BY <1>2, <1>7, ZenonT(40) DEF LinkDown, LinkUp, vars
<1>8. ASSUME NEW n \in Node, Events(n) PROVE RInv'
  BY <1>8, EventsRanked, ZenonT(40)
<1>9. ASSUME NEW n \in Node, MlacpLoop(n) PROVE RInv'
  BY <1>9, LoopRanked, Zenon
<1> QED
  BY <1>3, <1>4, <1>5, <1>6, <1>7, <1>8, <1>9, SMTT(40) DEF Next, Daemon

LEMMA InitRanked == Init => RInv
  BY FreshSteady, InitCsmType, SMTT(40) DEF Init, RInv, Ranked, Steady

\* iccp_csm_stp_role_count decides a role once per session, from whichever of
\* accept, reject, connect or transit comes first, and a session keeps it: while
\* no address is configured away, an operational session is ACTIVE on the node
\* with the lower address and STANDBY on the other, whatever messages, faults
\* and peer-link commands come in between.
THEOREM RoleByAddressHolds == Spec /\ []AddressesKept => []RoleByAddress
<1>1. RInv => RoleByAddress
  BY ZenonT(40) DEF RInv, Ranked, RoleOf, RoleByAddress
<1>2. Inv /\ RInv /\ AddressesKept /\ [Next]_vars => RInv'
  BY NextRanked, ZenonT(40)
<1> QED
  BY <1>1, <1>2, InitRanked, InvAlways, PTL DEF Spec
=============================================================================
