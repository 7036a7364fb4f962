------------------------- MODULE IccpSession_proofs -------------------------
(***************************************************************************)
(* Proofs about IccpSession, for any two daemons, RG ids, timers, number of *)
(* connections and bounds.                                                  *)
(***************************************************************************)
EXTENDS IccpSession, TLAPS

-----------------------------------------------------------------------------
(* Type correctness, first of the functions of the CSM record.             *)

LEMMA PeerType == \A n \in Node : Peer(n) \in Node /\ Peer(n) # n
  BY SessionAssumption DEF Node, Peer

LEMMA TimerType == Unset \in Timer /\ 0 \in Timer /\ \A t \in Timer : Advance(t) \in Timer
  BY SessionAssumption DEF Unset, Timer, TimerCap, Advance

LEMMA InitCsmType == InitCsm \in CsmRecord
  BY TimerType DEF InitCsm, CsmRecord, IccpState, MlacpState, NoStatus, Msg

LEMMA ResetType ==
  ASSUME NEW c \in CsmRecord
  PROVE  StatusReset(c) \in CsmRecord /\ Disconnected(c) \in CsmRecord
  BY InitCsmType, TimerType, ZenonT(40) DEF StatusReset, Disconnected, CsmRecord

LEMMA CheckConfigType ==
  ASSUME NEW n \in Node, NEW c \in CsmRecord
  PROVE  CheckConfig(n, c) \in CsmRecord
  BY SMTT(40) DEF CheckConfig, StpRoleCount, CsmRecord

LEMMA CorrespondType ==
  ASSUME NEW n \in Node, NEW c \in CsmRecord, NEW m \in Msg \cup {NoMsg}
  PROVE  Correspond(n, c, m) \in CsmRecord
  BY SMTT(40) DEF Correspond, CheckId, CsmRecord, NoStatus, UnknownRg

LEMMA EnterStateType ==
  ASSUME NEW c \in CsmRecord
  PROVE  EnterState(c) \in CsmRecord
  BY ZenonT(40) DEF EnterState, CsmRecord

LEMMA NextIccpStateType ==
  ASSUME NEW c \in CsmRecord
  PROVE  NextIccpState(c) \in IccpState
  BY Zenon DEF NextIccpState, CsmRecord, IccpState

LEMMA DropHeadType ==
  ASSUME NEW q \in Seq(Msg)
  PROVE  DropHead(q) \in Seq(Msg) /\ (q # <<>> => Head(q) \in Msg)
  BY DEF DropHead

LEMMA TransitCsmType ==
  ASSUME NEW n \in Node, NEW c \in CsmRecord, NEW m \in Msg \cup {NoMsg}
  PROVE  TransitCsm(n, c, m) \in CsmRecord
<1> DEFINE d == Correspond(n, c, m)
           e == [d EXCEPT !.st = NextIccpState(d)]
<1>1. d \in CsmRecord
  BY CorrespondType, Zenon
<1>2. NextIccpState(d) \in IccpState
  BY <1>1, NextIccpStateType, Zenon
<1>3. e \in CsmRecord
  BY <1>1, <1>2, ZenonT(40) DEF CsmRecord
<1>4. EnterState(e) \in CsmRecord
  BY <1>3, EnterStateType, Zenon
<1> QED
  BY <1>3, <1>4, Zenon DEF TransitCsm

LEMMA AppTransitType ==
  ASSUME NEW c \in CsmRecord
  PROVE  AppTransit(c) \in CsmRecord
  BY ZenonT(40) DEF AppTransit, CsmRecord

\* what daemon n can have sent
MsgOf(n) == [type : SessionType \cup AppType, rg : {Rg[n]}]

LEMMA MsgOfType ==
  ASSUME NEW n \in Node
  PROVE  /\ MsgOf(n) \subseteq Msg
         /\ \A q \in Seq(MsgOf(n)) : q \in Seq(Msg)
<1>1. MsgOf(n) \subseteq Msg
  BY SessionAssumption, Zenon DEF Msg, MsgOf, Node
<1>2. \A S, T : S \subseteq T => \A q \in Seq(S) : q \in Seq(T)
  OBVIOUS
<1> QED
  BY <1>1, <1>2, Zenon

LEMMA AppMsgType ==
  ASSUME NEW n \in Node, NEW t \in SessionType \cup AppType
  PROVE  [type |-> t, rg |-> Rg[n]] \in MsgOf(n) /\ AppMsg(n, t) \in MsgOf(n)
  BY Zenon DEF MsgOf, AppMsg

LEMMA SendsType ==
  ASSUME NEW n \in Node, NEW c, NEW m
  PROVE  TransitSends(n, c, m) \in Seq(MsgOf(n))
<1> DEFINE d == Correspond(n, c, m)
           M(t) == [type |-> t, rg |-> Rg[n]]
<1>1. \A t \in SessionType : <<M(t)>> \in Seq(MsgOf(n))
  BY AppMsgType
<1>2. PrepareIccpMsg(n, d) = <<>> \/ \E t \in SessionType : PrepareIccpMsg(n, d) = <<M(t)>>
  BY Zenon DEF PrepareIccpMsg, SessionType
<1>3. <<>> \in Seq(MsgOf(n))
  OBVIOUS
<1>4. PrepareIccpMsg(n, d) \in Seq(MsgOf(n))
  <2>1. CASE PrepareIccpMsg(n, d) = <<>>
    BY <2>1, <1>3, Zenon
  <2>2. ASSUME NEW t \in SessionType, PrepareIccpMsg(n, d) = <<M(t)>>
        PROVE  PrepareIccpMsg(n, d) \in Seq(MsgOf(n))
    BY <2>2, <1>1, Zenon
  <2> QED
    BY <1>2, <2>1, <2>2, Zenon
<1> QED
  BY <1>4, Zenon DEF TransitSends

LEMMA LeaveNonexistentType ==
  ASSUME NEW n \in Node, NEW c \in CsmRecord
  PROVE  LeaveNonexistent(n, c) \in CsmRecord
<1> DEFINE d == CheckConfig(n, c)
<1>1. d \in CsmRecord
  BY CheckConfigType, Zenon
<1>2. [d EXCEPT !.st = "INITIALIZED"] \in CsmRecord
  BY <1>1, ZenonT(40) DEF CsmRecord, IccpState
<1> QED
  BY <1>1, <1>2, EnterStateType, Zenon DEF LeaveNonexistent

LEMMA PrepareSessionType ==
  ASSUME NEW n \in Node, NEW c \in CsmRecord
  PROVE  PrepareSession(n, c) \in CsmRecord
<1> DEFINE d == IF ConnectDue(c) /\ c.sock = None THEN CheckConfig(n, c) ELSE c
<1>1. d \in CsmRecord
  BY CheckConfigType, Zenon
<1>2. [d EXCEPT !.connPrev = 0] \in CsmRecord
  BY <1>1, TimerType, ZenonT(40) DEF CsmRecord
<1> QED
  BY <1>1, <1>2, Zenon DEF PrepareSession

LEMMA HeartbeatCheckType ==
  ASSUME NEW c \in CsmRecord
  PROVE  HeartbeatCheck(c) \in CsmRecord
  BY TimerType, SMTT(40) DEF HeartbeatCheck, CsmRecord

(* The functions of one turn of the mLACP loop.                            *)

LEMMA TurnMsgType ==
  ASSUME NEW c \in CsmRecord
  PROVE  /\ TurnMsg(c) \in Msg \cup {NoMsg}
         /\ BeginTurn(c) \in CsmRecord
<1>1. c.mlq \in Seq(Msg)
  BY Zenon DEF CsmRecord
<1>2. DropHead(c.mlq) \in Seq(Msg) /\ (c.mlq # <<>> => Head(c.mlq) \in Msg)
  BY <1>1, DropHeadType, Zenon
<1>3. BeginTurn(c) \in CsmRecord
  BY <1>2, ZenonT(40) DEF BeginTurn, CsmRecord, MlacpState
<1> QED
  BY <1>2, <1>3, Zenon DEF TurnMsg

LEMMA ReceivedType ==
  ASSUME NEW c \in CsmRecord, NEW m
  PROVE  /\ Received(c, m) \in CsmRecord
         /\ StageSent(c, m) \in CsmRecord
         /\ StageRequested(c, m) \in CsmRecord
<1>1. \A s : NextMlacpState(s) \in MlacpState
  BY Zenon DEF NextMlacpState, MlacpState
<1>2. AllInfoSent(c) \in CsmRecord
  BY <1>1, ZenonT(40) DEF AllInfoSent, CsmRecord
<1>3. Received(c, m) \in CsmRecord
  BY <1>2, TimerType, ZenonT(40) DEF Received, CsmRecord
<1>4. [Received(c, m) EXCEPT !.ml = NextMlacpState(@)] \in CsmRecord
  BY <1>1, <1>3, ZenonT(40) DEF CsmRecord
<1>5. [c EXCEPT !.wait = 1] \in CsmRecord
  BY ZenonT(40) DEF CsmRecord
<1>6. StageRequested(c, m) \in CsmRecord
  BY <1>3, <1>4, <1>5, Zenon DEF StageRequested
<1> QED
  BY <1>2, <1>3, <1>6, Zenon DEF StageSent

LEMMA ReplyType ==
  ASSUME NEW n \in Node, NEW m
  PROVE  Reply(n, m) \in Seq(MsgOf(n))
<1>1. AppMsg(n, "SYNC_START") \in MsgOf(n) /\ AppMsg(n, "SYNC_DONE") \in MsgOf(n)
  BY AppMsgType, ZenonT(40) DEF AppType
<1>2. AllInfo(n) \in Seq(MsgOf(n))
  BY <1>1 DEF AllInfo
<1> QED
  BY <1>2 DEF Reply

-----------------------------------------------------------------------------
(* The inductive invariant.  Sound(n, c) is what holds of the record itself: *)
(* besides NoOrphanState, AppHasSession and NoCrossRgSession, that the       *)
(* flags tested in OPERATIONAL are set (so that it is left only by a         *)
(* disconnect), that a peer whose RG_CONNECT came in with another RG id is   *)
(* marked as unknown, and that all queued messages come from the peer.       *)

Sound(n, c) ==
    /\ c \in CsmRecord
    /\ c.st # "NONEXISTENT" => c.sock # None
    /\ c.app = "OPERATIONAL" => c.st = "OPERATIONAL"
    /\ c.ml # "INIT" => c.app = "OPERATIONAL"
    /\ c.st = "OPERATIONAL" => c.srg = 1 /\ c.prg = 1 /\ Rg[n] = Rg[Peer(n)]
    /\ c.prg = 1 /\ Rg[n] # Rg[Peer(n)] => c.status = UnknownRg
    /\ c.msgs \in Seq(MsgOf(Peer(n)))

LEMMA InitSound ==
  ASSUME NEW n \in Node
  PROVE  Sound(n, InitCsm)
  BY InitCsmType DEF Sound, InitCsm

LEMMA DisconnectedSound ==
  ASSUME NEW n \in Node, NEW c \in CsmRecord
  PROVE  /\ Sound(n, Disconnected(c))
         /\ Disconnected(c).sock = None
         /\ Disconnected(c).st = "NONEXISTENT"
         /\ Disconnected(c).app = "NONEXISTENT"
         /\ Disconnected(c).msgs = <<>>
<1> DEFINE d == Disconnected(c)
<1>1. d \in CsmRecord
  BY ResetType, Zenon
<1>2. /\ d.sock = None /\ d.st = "NONEXISTENT" /\ d.app = "NONEXISTENT" /\ d.ml = "INIT"
      /\ d.prg = 0 /\ d.msgs = <<>>
  BY Zenon DEF Disconnected, StatusReset, InitCsm
<1> HIDE DEF d
<1>3. d.msgs \in Seq(MsgOf(Peer(n)))
  BY <1>2
<1>4. Sound(n, d)
  BY <1>1, <1>2, <1>3 DEF Sound
<1> QED
  BY <1>2, <1>4, Zenon DEF d

\* what the record keeps when only the role and timers are written
LEMMA RoleOrTimerSound ==
  ASSUME NEW n \in Node, NEW c, Sound(n, c),
         NEW d \in CsmRecord,
         d.st = c.st, d.sock = c.sock, d.app = c.app, d.ml = c.ml, d.srg = c.srg,
         d.prg = c.prg, d.status = c.status, d.msgs = c.msgs
  PROVE  Sound(n, d)
  BY Zenon DEF Sound

LEMMA CheckConfigSound ==
  ASSUME NEW n \in Node, NEW c, Sound(n, c)
  PROVE  /\ Sound(n, CheckConfig(n, c))
         /\ CheckConfig(n, c).st = c.st
         /\ CheckConfig(n, c).sock = c.sock
         /\ CheckConfig(n, c).msgs = c.msgs
<1> c \in CsmRecord
  BY Zenon DEF Sound
<1>1. CheckConfig(n, c) \in CsmRecord
  BY CheckConfigType, Zenon
<1>2. \/ CheckConfig(n, c) = c
      \/ \E r : CheckConfig(n, c) = [c EXCEPT !.role = r]
  BY Zenon DEF CheckConfig, StpRoleCount
<1>3. CASE CheckConfig(n, c) = c
  BY <1>3, Zenon
<1>4. ASSUME NEW r, CheckConfig(n, c) = [c EXCEPT !.role = r]
      PROVE  /\ CheckConfig(n, c).st = c.st
             /\ CheckConfig(n, c).sock = c.sock
             /\ CheckConfig(n, c).msgs = c.msgs
             /\ CheckConfig(n, c).app = c.app
             /\ CheckConfig(n, c).ml = c.ml
             /\ CheckConfig(n, c).srg = c.srg
             /\ CheckConfig(n, c).prg = c.prg
             /\ CheckConfig(n, c).status = c.status
  BY <1>4, ZenonT(40) DEF CsmRecord
<1> QED
  BY <1>1, <1>2, <1>3, <1>4, RoleOrTimerSound, Zenon

LEMMA HeartbeatCheckSound ==
  ASSUME NEW n \in Node, NEW c, Sound(n, c)
  PROVE  /\ Sound(n, HeartbeatCheck(c))
         /\ HeartbeatCheck(c).sock = c.sock
         /\ HeartbeatCheck(c).st = c.st
         /\ HeartbeatCheck(c).msgs = c.msgs
  BY HeartbeatCheckType DEF Sound, HeartbeatCheck, CsmRecord

LEMMA DropHeadSound ==
  ASSUME NEW n \in Node, NEW c, Sound(n, c)
  PROVE  Sound(n, [c EXCEPT !.msgs = DropHead(@)])
<1>1. c \in CsmRecord /\ c.msgs \in Seq(Msg) /\ c.msgs \in Seq(MsgOf(Peer(n)))
  BY Zenon DEF Sound, CsmRecord
<1>2. DropHead(c.msgs) \in Seq(Msg) /\ DropHead(c.msgs) \in Seq(MsgOf(Peer(n)))
  BY <1>1 DEF DropHead
<1>3. [c EXCEPT !.msgs = DropHead(@)] \in CsmRecord
  BY <1>1, <1>2, Zenon DEF CsmRecord
<1> QED
  BY <1>1, <1>2, <1>3, ZenonT(40) DEF Sound, CsmRecord

\* iccp_csm_correspond_from_msg: the flags and the status move together
LEMMA CorrespondSound ==
  ASSUME NEW n \in Node, NEW c, Sound(n, c),
         NEW m \in MsgOf(Peer(n)) \cup {NoMsg}
  PROVE  /\ Sound(n, Correspond(n, c, m))
         /\ Correspond(n, c, m).st = c.st
         /\ Correspond(n, c, m).sock = c.sock
<1>1. c \in CsmRecord
  BY Zenon DEF Sound
<1>2. Correspond(n, c, m) \in CsmRecord
  BY <1>1, CorrespondType, MsgOfType, PeerType, Zenon
<1>3. CASE m = NoMsg
  BY <1>3, Zenon DEF Correspond
<1>4. CASE m # NoMsg
  <2>1. m.rg = Rg[Peer(n)]
    BY <1>4, Zenon DEF MsgOf
  <2>2. \A x : (IF m.rg = Rg[n] THEN NoStatus ELSE x) = (IF Rg[n] = Rg[Peer(n)] THEN NoStatus ELSE x)
    BY <2>1, Zenon
  <2> QED
    BY <1>1, <1>2, <1>4, <2>1, <2>2 DEF Correspond, CheckId, Sound, CsmRecord
<1> QED
  BY <1>3, <1>4, Zenon

\* iccp_csm_transit past NONEXISTENT: OPERATIONAL is entered only with
\* status_code = 0 after the peer's RG_CONNECT, and then never left
LEMMA TransitSound ==
  ASSUME NEW n \in Node, NEW c, Sound(n, c), c.st # "NONEXISTENT",
         NEW m \in MsgOf(Peer(n)) \cup {NoMsg}
  PROVE  /\ Sound(n, TransitCsm(n, c, m))
         /\ TransitCsm(n, c, m).sock = c.sock
         /\ TransitCsm(n, c, m).st # "NONEXISTENT"
<1> DEFINE d == Correspond(n, c, m)
           e == [d EXCEPT !.st = NextIccpState(d)]
           f == EnterState(e)
<1>1. Sound(n, d) /\ d.st = c.st /\ d.sock = c.sock
  BY CorrespondSound, Zenon
<1>2. d \in CsmRecord /\ e \in CsmRecord /\ f \in CsmRecord /\ NextIccpState(d) \in IccpState
  <2>1. d \in CsmRecord
    BY <1>1, Zenon DEF Sound
  <2>2. NextIccpState(d) \in IccpState
    BY <2>1, NextIccpStateType, Zenon
  <2>3. e \in CsmRecord
    BY <2>1, <2>2, Zenon DEF CsmRecord
  <2> QED
    BY <2>1, <2>2, <2>3, EnterStateType, Zenon
<1>3. /\ NextIccpState(d) # "NONEXISTENT"
      /\ NextIccpState(d) = "OPERATIONAL" /\ d.st # "OPERATIONAL" => d.status = NoStatus /\ d.prg = 1
      /\ d.st = "OPERATIONAL" /\ d.srg = 1 /\ d.prg = 1 => NextIccpState(d) = "OPERATIONAL"
  <2>1. d.st # "NONEXISTENT"
    BY <1>1, Zenon DEF Sound
  <2> HIDE DEF d
  <2>2. NextIccpState(d) # "NONEXISTENT"
    BY <2>1, Zenon DEF NextIccpState
  <2>3. NextIccpState(d) = "OPERATIONAL" /\ d.st # "OPERATIONAL" => d.status = NoStatus /\ d.prg = 1
    BY Zenon DEF NextIccpState
  <2>4. d.st = "OPERATIONAL" /\ d.srg = 1 /\ d.prg = 1 => NextIccpState(d) = "OPERATIONAL"
    BY DEF NextIccpState
  <2> QED
    BY <2>2, <2>3, <2>4, Zenon
<1> HIDE DEF d
<1>4. /\ e.st = NextIccpState(d) /\ e.sock = d.sock /\ e.app = d.app /\ e.ml = d.ml
      /\ e.srg = d.srg /\ e.prg = d.prg /\ e.status = d.status /\ e.msgs = d.msgs
  BY <1>2, Zenon DEF CsmRecord
<1> HIDE DEF e
<1>5. /\ f.st = e.st /\ f.sock = e.sock /\ f.app = e.app /\ f.ml = e.ml
      /\ f.status = e.status /\ f.msgs = e.msgs
      /\ f.prg = IF e.st = "OPERATIONAL" THEN 1 ELSE e.prg
      /\ e.st = "OPERATIONAL" => f.srg = 1
  BY <1>2, ZenonT(40) DEF EnterState, CsmRecord
<1> HIDE DEF f
<1>6. e.st = "OPERATIONAL" => Rg[n] = Rg[Peer(n)]
  BY <1>1, <1>3, <1>4, SMTT(40) DEF Sound, NoStatus, UnknownRg
<1>7. Sound(n, f)
  BY <1>1, <1>2, <1>3, <1>4, <1>5, <1>6, ZenonT(40) DEF Sound
<1>8. CASE e.st # c.st \/ m # NoMsg
  BY <1>1, <1>3, <1>4, <1>5, <1>7, <1>8, Zenon DEF TransitCsm, d, e, f
<1>9. CASE ~(e.st # c.st \/ m # NoMsg)
  <2>1. Sound(n, e)
    BY <1>1, <1>2, <1>3, <1>4, <1>6, <1>9, Zenon DEF Sound
  <2> QED
    BY <1>1, <1>3, <1>4, <1>9, <2>1, Zenon DEF TransitCsm, d, e
<1> QED
  BY <1>8, <1>9, Zenon

LEMMA AppTransitSound ==
  ASSUME NEW n \in Node, NEW c, Sound(n, c)
  PROVE  /\ Sound(n, AppTransit(c))
         /\ AppTransit(c).sock = c.sock
         /\ AppTransit(c).st = c.st
         /\ AppTransit(c).msgs = c.msgs
<1>1. c \in CsmRecord /\ AppTransit(c) \in CsmRecord
  BY AppTransitType, Zenon DEF Sound
<1>2. CASE c.app # "NONEXISTENT" /\ c.sock = None
  BY <1>2, Zenon DEF Sound, CsmRecord
<1>3. CASE ~(c.app # "NONEXISTENT" /\ c.sock = None)
  BY <1>1, <1>3 DEF AppTransit, Sound, CsmRecord
<1> QED
  BY <1>2, <1>3, Zenon

\* scheduler_prepare_session and the rest of NONEXISTENT
LEMMA PrepareSound ==
  ASSUME NEW n \in Node, NEW c, Sound(n, c)
  PROVE  /\ Sound(n, PrepareSession(n, c))
         /\ PrepareSession(n, c).sock = c.sock
         /\ PrepareSession(n, c).st = c.st
         /\ PrepareSession(n, c).msgs = c.msgs
<1> DEFINE d == IF ConnectDue(c) /\ c.sock = None THEN CheckConfig(n, c) ELSE c
           e == [d EXCEPT !.connPrev = 0]
<1>1. Sound(n, d) /\ d.sock = c.sock /\ d.st = c.st /\ d.msgs = c.msgs
  BY CheckConfigSound, ZenonT(40)
<1>2. PrepareSession(n, c) = d \/ PrepareSession(n, c) = e
  BY Zenon DEF PrepareSession
<1> HIDE DEF d
<1>3. Sound(n, e) /\ e.sock = d.sock /\ e.st = d.st /\ e.msgs = d.msgs
  <2>1. d \in CsmRecord
    BY <1>1, Zenon DEF Sound
  <2>2. e \in CsmRecord
    BY <2>1, TimerType, Zenon DEF CsmRecord
  <2>3. /\ e.sock = d.sock /\ e.st = d.st /\ e.msgs = d.msgs /\ e.app = d.app /\ e.ml = d.ml
        /\ e.srg = d.srg /\ e.prg = d.prg /\ e.status = d.status
    BY <2>1, Zenon DEF CsmRecord
  <2> QED
    BY <1>1, <2>2, <2>3, RoleOrTimerSound, ZenonT(40)
<1> QED
  BY <1>1, <1>2, <1>3, ZenonT(40)

LEMMA LeaveNonexistentSound ==
  ASSUME NEW n \in Node, NEW c, Sound(n, c), c.st = "NONEXISTENT"
  PROVE  /\ Sound(n, LeaveNonexistent(n, c))
         /\ LeaveNonexistent(n, c).sock = c.sock
         /\ LeaveNonexistent(n, c).msgs = c.msgs
         /\ c.sock # None /\ ConfigOk(n) => LeaveNonexistent(n, c).st = "INITIALIZED"
<1> DEFINE d == CheckConfig(n, c)
           e == [d EXCEPT !.st = "INITIALIZED"]
           f == EnterState(e)
<1>1. Sound(n, d) /\ d.st = c.st /\ d.sock = c.sock /\ d.msgs = c.msgs
  BY CheckConfigSound, Zenon
<1>2. LeaveNonexistent(n, c) = IF c.sock = None THEN c ELSE IF ConfigOk(n) THEN f ELSE d
  BY Zenon DEF LeaveNonexistent
<1> HIDE DEF d
<1>3. CASE c.sock = None
  BY <1>2, <1>3, Zenon
<1>4. CASE c.sock # None
  <2>1. d \in CsmRecord
    BY <1>1, Zenon DEF Sound
  <2>2. e \in CsmRecord /\ e.st = "INITIALIZED"
    BY <2>1, Zenon DEF CsmRecord, IccpState
  <2>3. f = [e EXCEPT !.scap = 1]
    BY <2>2, Zenon DEF EnterState
  <2>4. f \in CsmRecord
    BY <2>2, EnterStateType, Zenon
  <2>5. /\ f.st = "INITIALIZED" /\ f.sock = d.sock /\ f.app = d.app /\ f.ml = d.ml
        /\ f.prg = d.prg /\ f.status = d.status /\ f.msgs = d.msgs
    BY <2>1, <2>2, <2>3, ZenonT(40) DEF CsmRecord
  <2>6. Sound(n, f)
    BY <1>1, <1>4, <2>4, <2>5, Zenon DEF Sound
  <2> QED
    BY <1>1, <1>2, <1>4, <2>5, <2>6, Zenon
<1> QED
  BY <1>3, <1>4, Zenon

\* a turn of the mLACP loop does not touch what the session is made of
SameSession(c, d) ==
    /\ d.st = c.st /\ d.sock = c.sock /\ d.app = c.app /\ d.srg = c.srg /\ d.prg = c.prg
    /\ d.status = c.status /\ d.msgs = c.msgs

LEMMA SameSessionSound ==
  ASSUME NEW n \in Node, NEW c, Sound(n, c), c.app = "OPERATIONAL",
         NEW d \in CsmRecord, SameSession(c, d)
  PROVE  Sound(n, d)
  BY Zenon DEF SameSession, Sound

LEMMA TurnSameSession ==
  ASSUME NEW c \in CsmRecord, NEW m
  PROVE  /\ SameSession(c, BeginTurn(c))
         /\ SameSession(c, Received(c, m))
         /\ SameSession(c, [Received(c, m) EXCEPT !.need = 0])
         /\ [Received(c, m) EXCEPT !.need = 0] \in CsmRecord
         /\ SameSession(c, StageSent(c, m))
         /\ SameSession(c, StageRequested(c, m))
<1>1. SameSession(c, BeginTurn(c))
  BY Zenon DEF SameSession, BeginTurn, CsmRecord
<1>2. SameSession(c, AllInfoSent(c))
  BY Zenon DEF SameSession, AllInfoSent, CsmRecord
<1>3. SameSession(c, Received(c, m))
  BY <1>2, Zenon DEF SameSession, Received, CsmRecord
<1>4. Received(c, m) \in CsmRecord
  BY ReceivedType, Zenon
<1>5. /\ SameSession(c, [Received(c, m) EXCEPT !.need = 0])
      /\ [Received(c, m) EXCEPT !.need = 0] \in CsmRecord
  BY <1>3, <1>4, ZenonT(40) DEF SameSession, CsmRecord
<1>6. SameSession(c, StageSent(c, m))
  BY <1>2, Zenon DEF StageSent, SameSession
<1>7. SameSession(c, [Received(c, m) EXCEPT !.ml = NextMlacpState(@)])
  BY <1>3, <1>4, Zenon DEF SameSession, CsmRecord
<1>8. SameSession(c, [c EXCEPT !.wait = 1])
  BY Zenon DEF SameSession, CsmRecord
<1>9. SameSession(c, StageRequested(c, m))
  BY <1>3, <1>7, <1>8, Zenon DEF StageRequested
<1> QED
  BY <1>1, <1>3, <1>5, <1>6, <1>9, Zenon

-----------------------------------------------------------------------------
(* The invariant over all daemons.  Fresh is why no handshake message is    *)
(* lost: a socket is taken in NONEXISTENT only when the configuration is     *)
(* complete, too late for this batch to read from it, and every change that  *)
(* makes the configuration incomplete also closes the socket.                *)

Sessions == \A n \in Node : Sound(n, csm[n])
LoopUp == \A n \in Node : pc[n] = "loop" => csm[n].app = "OPERATIONAL"
Fresh ==
    \A n \in Node : csm[n].st = "NONEXISTENT" =>
        /\ csm[n].msgs = <<>>
        /\ csm[n].sock # None => ConfigOk(n) /\ "sock" \in seen[n] /\ pc[n] = "events"
WireOK == \A n \in Node, k \in Conn : wire[k][n] \in Seq(MsgOf(Peer(n)))

Inv == TypeOK /\ Sessions /\ LoopUp /\ Fresh /\ WireOK /\ NoLeakedSocket

LEMMA UpdateSound ==
  ASSUME TypeOK, Sessions, NEW n \in Node, NEW d, Sound(n, d), csm' = [csm EXCEPT ![n] = d]
  PROVE  csm' \in [Node -> CsmRecord] /\ Sessions'
  BY DEF TypeOK, Sessions, Sound

LEMMA DeliverOK ==
  ASSUME TypeOK, WireOK, NEW n \in Node, NEW k \in Conn, NEW ms \in Seq(MsgOf(n)),
         Deliver(n, k, ms)
  PROVE  wire' \in [Conn -> [Node -> Seq(Msg)]] /\ WireOK'
<1>1. Peer(n) \in Node /\ Peer(Peer(n)) = n
  BY PeerType, Zenon DEF Peer, Node
<1>2. ms \in Seq(Msg)
  BY MsgOfType, Zenon
<1>3. wire[k][Peer(n)] \in Seq(Msg) /\ wire[k][Peer(n)] \in Seq(MsgOf(n))
  BY <1>1 DEF TypeOK, WireOK
<1>4. wire[k][Peer(n)] \o ms \in Seq(Msg) /\ wire[k][Peer(n)] \o ms \in Seq(MsgOf(n))
  BY <1>2, <1>3
<1> QED
  BY <1>1, <1>4, ZenonT(40) DEF Deliver, TypeOK, WireOK

LEMMA CloseOK ==
  ASSUME TypeOK, WireOK, NEW n \in Node, NEW k \in Conn, CloseEnd(n, k)
  PROVE  /\ wire' \in [Conn -> [Node -> Seq(Msg)]] /\ WireOK'
         /\ endp' \in [Conn -> [Node -> {"closed", "backlog", "open"}]]
  BY SMTT(40) DEF CloseEnd, TypeOK, WireOK

LEMMA DisconnectOK ==
  ASSUME Inv, NEW n \in Node, SessionDisconnect(n)
  PROVE  /\ wire' \in [Conn -> [Node -> Seq(Msg)]] /\ WireOK'
         /\ endp' \in [Conn -> [Node -> {"closed", "backlog", "open"}]]
         /\ csm' \in [Node -> CsmRecord] /\ Sessions'
         /\ NoLeakedSocket'
         /\ csm' = [csm EXCEPT ![n] = Disconnected(csm[n])]
         /\ csm'[n].sock = None /\ csm'[n].msgs = <<>>
<1> USE DEF Inv
<1>1. csm[n] \in CsmRecord /\ csm' = [csm EXCEPT ![n] = Disconnected(csm[n])]
  BY Zenon DEF SessionDisconnect, TypeOK
<1>2. Sound(n, Disconnected(csm[n])) /\ Disconnected(csm[n]).sock = None /\ Disconnected(csm[n]).msgs = <<>>
  BY <1>1, DisconnectedSound, Zenon
<1>3. csm' \in [Node -> CsmRecord] /\ Sessions'
  BY <1>1, <1>2, UpdateSound, ZenonT(40)
<1>4. csm'[n].sock = None /\ csm'[n].msgs = <<>> /\ \A x \in Node \ {n} : csm'[x] = csm[x]
  BY <1>1, <1>2, Zenon DEF TypeOK
<1>5. CASE csm[n].sock = None
  BY <1>3, <1>1, <1>4, <1>5, SessionAssumption, SMTT(40) DEF SessionDisconnect, SocketCleanup, tcpVars, TypeOK, WireOK, NoLeakedSocket
<1>6. CASE csm[n].sock # None
  <2>1. csm[n].sock \in Conn /\ CloseEnd(n, csm[n].sock)
    BY <1>1, <1>6, Zenon DEF SessionDisconnect, SocketCleanup, CsmRecord
  <2>2. NoLeakedSocket'
    BY <1>4, <2>1, SessionAssumption, SMTT(40) DEF CloseEnd, NoLeakedSocket, TypeOK
  <2> QED
    BY <1>1, <1>3, <1>4, <2>1, <2>2, CloseOK, Zenon
<1> QED
  BY <1>5, <1>6, Zenon

-----------------------------------------------------------------------------
(* Every step preserves the invariant.                                     *)

\* the steps that only tear a session down, with what they write otherwise
LEMMA TeardownStep ==
  ASSUME Inv, NEW n \in Node, SessionDisconnect(n), pc[n] = "events", pc' = pc,
         addr' \in [Node -> SUBSET {"sender", "peer"}],
         plink' \in [Node -> {"none", "absent", "present"}],
         \A x \in Node \ {n} : addr'[x] = addr[x] /\ plink'[x] = plink[x],
         net' \in BOOLEAN,
         seen' \in [Node -> SUBSET {"sock", "listen"}],
         \A x \in Node \ {n} : seen'[x] = seen[x],
         faults' \in 0 .. MaxFaults, cfgs' \in 0 .. MaxCfg, updates' \in 0 .. MaxUpdates
  PROVE  Inv'
<1>1. /\ wire' \in [Conn -> [Node -> Seq(Msg)]] /\ WireOK'
      /\ endp' \in [Conn -> [Node -> {"closed", "backlog", "open"}]]
      /\ csm' \in [Node -> CsmRecord] /\ Sessions'
      /\ NoLeakedSocket'
      /\ csm' = [csm EXCEPT ![n] = Disconnected(csm[n])]
      /\ csm'[n].sock = None /\ csm'[n].msgs = <<>>
  BY DisconnectOK, Zenon
<1>2. \A x \in Node \ {n} : csm'[x] = csm[x]
  BY <1>1, ZenonT(40) DEF Inv, TypeOK
<1>3. TypeOK'
  BY <1>1, Zenon DEF Inv, TypeOK
<1>4. LoopUp'
  BY <1>2, SMTT(40) DEF Inv, LoopUp
<1>5. Fresh'
  <2>1. \A x \in Node \ {n} : ConfigOk(x)' = ConfigOk(x)
    BY Zenon DEF ConfigOk, AddrSet
  <2>2. \A x \in Node \ {n} : csm'[x] = csm[x] /\ seen'[x] = seen[x] /\ pc'[x] = pc[x]
    BY <1>2, Zenon
  <2> QED
    BY <1>1, <2>1, <2>2, SMTT(60) DEF Inv, Fresh
<1> QED
  BY <1>1, <1>3, <1>4, <1>5, Zenon DEF Inv

LEMMA ReadMsgStep ==
  ASSUME Inv, NEW n \in Node, ReadMsg(n)
  PROVE  Inv'
<1> DEFINE k == csm[n].sock
           m == Head(wire[k][n])
           d == [EnqueueMsg(csm[n], m) EXCEPT !.hbUpdate = 0]
<1>1. csm[n] \in CsmRecord /\ k \in Conn /\ wire[k][n] # <<>>
  BY ZenonT(40) DEF Inv, TypeOK, ReadMsg, CsmRecord
<1>2. wire[k][n] \in Seq(Msg) /\ wire[k][n] \in Seq(MsgOf(Peer(n)))
  BY <1>1, SMTT(40) DEF Inv, TypeOK, WireOK
<1>3. /\ m \in Msg /\ m \in MsgOf(Peer(n))
      /\ Tail(wire[k][n]) \in Seq(Msg) /\ Tail(wire[k][n]) \in Seq(MsgOf(Peer(n)))
  BY <1>1, <1>2, SMTT(40)
<1>4. csm' = [csm EXCEPT ![n] = d] /\ wire' = [wire EXCEPT ![k][n] = Tail(@)]
  BY Zenon DEF ReadMsg
<1>5. Sound(n, csm[n]) /\ csm[n].st # "NONEXISTENT"
  BY <1>1, SessionAssumption, Zenon DEF Inv, Sessions, Fresh, ReadMsg, Polling
<1> HIDE DEF k, m
<1>6. /\ Sound(n, d)
      /\ d.st = csm[n].st /\ d.sock = csm[n].sock /\ d.app = csm[n].app
  <2>1. /\ Append(csm[n].msgs, m) \in Seq(Msg) /\ Append(csm[n].mlq, m) \in Seq(Msg)
        /\ Append(csm[n].msgs, m) \in Seq(MsgOf(Peer(n)))
    BY <1>1, <1>3, <1>5 DEF CsmRecord, Sound
  <2>2. CASE m.type \in AppType
    <3>1. d = [csm[n] EXCEPT !.mlq = Append(@, m), !.hbUpdate = 0]
      BY <2>2, Zenon DEF EnqueueMsg
    <3> QED
      BY <1>1, <1>5, <2>1, <3>1, TimerType, ZenonT(40) DEF Sound, CsmRecord
  <2>3. CASE m.type \notin AppType
    <3>1. d = [csm[n] EXCEPT !.msgs = Append(@, m), !.hbUpdate = 0]
      BY <2>3, Zenon DEF EnqueueMsg
    <3> QED
      BY <1>1, <1>5, <2>1, <3>1, TimerType, ZenonT(40) DEF Sound, CsmRecord
  <2> QED
    BY <2>2, <2>3, Zenon
<1> HIDE DEF d
<1>7. csm' \in [Node -> CsmRecord] /\ Sessions'
  BY <1>4, <1>6, UpdateSound, ZenonT(40) DEF Inv
<1>8. /\ csm'[n].st = csm[n].st /\ csm'[n].sock = csm[n].sock /\ csm'[n].app = csm[n].app
      /\ \A x \in Node \ {n} : csm'[x] = csm[x]
  BY <1>4, <1>6, ZenonT(40) DEF Inv, TypeOK
<1>9. wire' \in [Conn -> [Node -> Seq(Msg)]] /\ WireOK'
  BY <1>1, <1>3, <1>4, ZenonT(40) DEF Inv, TypeOK, WireOK
<1>10. TypeOK'
  BY <1>7, <1>9, Zenon DEF Inv, TypeOK, ReadMsg, Handled, cfgVars, bounds
<1>11. /\ endp' = endp /\ pc' = pc
       /\ \A x \in Node : ConfigOk(x)' = ConfigOk(x)
       /\ \A x \in Node \ {n} : seen'[x] = seen[x]
  BY Zenon DEF ReadMsg, Handled, cfgVars, ConfigOk, AddrSet, Inv, TypeOK
<1>12. LoopUp' /\ NoLeakedSocket'
  <2>1. \A x \in Node : csm'[x].sock = csm[x].sock /\ csm'[x].app = csm[x].app
    BY <1>8, Zenon
  <2> QED
    BY <1>11, <2>1 DEF Inv, LoopUp, NoLeakedSocket
<1>13. Fresh'
  BY <1>5, <1>8, <1>11 DEF Inv, Fresh
<1> QED
  BY <1>7, <1>9, <1>10, <1>12, <1>13, Zenon DEF Inv

LEMMA ReadEofStep ==
  ASSUME Inv, NEW n \in Node, ReadEof(n) \/ ReadFail(n)
  PROVE  Inv'
<1>1. CASE ReadEof(n)
  BY <1>1, TeardownStep, ZenonT(40) DEF Inv, TypeOK, ReadEof, Polling, Handled, cfgVars, bounds
<1>2. CASE ReadFail(n)
  <2>1. faults' \in 0 .. MaxFaults
    BY <1>2, SessionAssumption DEF Inv, TypeOK, ReadFail
  <2>2. /\ pc[n] = "events" /\ pc' = pc /\ SessionDisconnect(n)
        /\ addr' = addr /\ plink' = plink /\ net' = net /\ cfgs' = cfgs /\ updates' = updates
        /\ seen' = [seen EXCEPT ![n] = @ \cup {"sock"}]
    BY <1>2, Zenon DEF ReadFail, Polling, Handled, cfgVars
  <2> QED
    BY <2>1, <2>2, TeardownStep, ZenonT(40) DEF Inv, TypeOK
<1> QED
  BY <1>1, <1>2, Zenon

LEMMA ServerAcceptStep ==
  ASSUME Inv, NEW n \in Node, NEW k \in Conn, ServerAccept(n, k)
  PROVE  Inv'
<1> DEFINE c == CheckConfig(n, csm[n])
           d == [c EXCEPT !.sock = k, !.st = "NONEXISTENT"]
<1>1. /\ csm' = [csm EXCEPT ![n] = d] /\ endp' = [endp EXCEPT ![k][n] = "open"]
      /\ csm[n].sock = None /\ endp[k][n] = "backlog" /\ ConfigOk(n) /\ pc[n] = "events"
  BY Zenon DEF ServerAccept, Polling
<1>2. Sound(n, csm[n]) /\ csm[n].st = "NONEXISTENT" /\ csm[n].msgs = <<>>
  BY <1>1, Zenon DEF Inv, Sessions, Sound, Fresh
<1>3. Sound(n, c) /\ c.st = "NONEXISTENT" /\ c.msgs = <<>>
  BY <1>2, CheckConfigSound, ZenonT(40)
<1> HIDE DEF c
<1>4. Sound(n, d) /\ d.sock = k /\ d.st = "NONEXISTENT" /\ d.msgs = <<>> /\ d.app = c.app
  BY <1>3, ZenonT(40) DEF Sound, CsmRecord, IccpState
<1> HIDE DEF d
<1>5. csm' \in [Node -> CsmRecord] /\ Sessions'
  BY <1>1, <1>4, UpdateSound, ZenonT(40) DEF Inv
<1>6. csm'[n] = d /\ \A x \in Node \ {n} : csm'[x] = csm[x]
  BY <1>1, Zenon DEF Inv, TypeOK
<1>7. TypeOK'
  BY <1>1, <1>5, SMTT(40) DEF Inv, TypeOK, ServerAccept, cfgVars, bounds
<1>8. NoLeakedSocket'
  BY <1>1, <1>4, <1>6, SessionAssumption DEF Inv, TypeOK, NoLeakedSocket
<1>9. LoopUp' /\ WireOK'
  BY <1>1, <1>6, ZenonT(40) DEF Inv, LoopUp, WireOK, ServerAccept
<1>10. /\ pc' = pc /\ "sock" \in seen'[n]
       /\ \A x \in Node : ConfigOk(x)' = ConfigOk(x)
       /\ \A x \in Node \ {n} : seen'[x] = seen[x]
  BY ZenonT(40) DEF ServerAccept, cfgVars, ConfigOk, AddrSet, Inv, TypeOK
<1>11. Fresh'
  BY <1>1, <1>4, <1>6, <1>10 DEF Inv, Fresh
<1> QED
  BY <1>5, <1>7, <1>8, <1>9, <1>11, Zenon DEF Inv

LEMMA ServerRejectStep ==
  ASSUME Inv, NEW n \in Node, NEW k \in Conn, ServerReject(n, k)
  PROVE  Inv'
<1> DEFINE c == CheckConfig(n, csm[n])
<1>1. /\ CloseEnd(n, k) /\ endp[k][n] = "backlog" /\ pc' = pc
      /\ csm' = csm \/ csm' = [csm EXCEPT ![n] = c]
      /\ \A x \in Node : ConfigOk(x)' = ConfigOk(x)
      /\ seen' = [seen EXCEPT ![n] = @ \cup {"listen"}]
  BY Zenon DEF ServerReject, Handled, cfgVars, ConfigOk, AddrSet
<1>2. Sound(n, csm[n]) /\ csm[n] \in CsmRecord
  BY Zenon DEF Inv, Sessions, Sound
<1>3. /\ Sound(n, c) /\ c.st = csm[n].st /\ c.sock = csm[n].sock /\ c.msgs = csm[n].msgs
      /\ c.app = csm[n].app
  BY <1>2, CheckConfigSound, Zenon DEF CheckConfig, StpRoleCount, CsmRecord
<1> HIDE DEF c
<1>4. csm' \in [Node -> CsmRecord] /\ Sessions'
  <2>1. CASE csm' = csm
    BY <2>1, Zenon DEF Inv, TypeOK, Sessions
  <2>2. CASE csm' = [csm EXCEPT ![n] = c]
    BY <2>2, <1>3, UpdateSound, ZenonT(40) DEF Inv
  <2> QED
    BY <1>1, <2>1, <2>2, Zenon
<1>5. \A x \in Node : /\ csm'[x].st = csm[x].st /\ csm'[x].sock = csm[x].sock
                      /\ csm'[x].msgs = csm[x].msgs /\ csm'[x].app = csm[x].app
  BY <1>1, <1>3, ZenonT(40) DEF Inv, TypeOK
<1>6. /\ wire' \in [Conn -> [Node -> Seq(Msg)]] /\ WireOK'
      /\ endp' \in [Conn -> [Node -> {"closed", "backlog", "open"}]]
  BY <1>1, CloseOK, Zenon DEF Inv
<1>7. TypeOK'
  BY <1>1, <1>4, <1>6, Zenon DEF Inv, TypeOK, ServerReject, cfgVars, bounds
<1>8. NoLeakedSocket'
  BY <1>1, <1>5, SMTT(40) DEF Inv, TypeOK, CloseEnd, NoLeakedSocket
<1>9. LoopUp'
  BY <1>1, <1>5, ZenonT(40) DEF Inv, LoopUp
<1>10. \A x \in Node : "sock" \in seen[x] => "sock" \in seen'[x]
  BY <1>1, ZenonT(40) DEF Inv, TypeOK
<1>11. Fresh'
  BY <1>1, <1>5, <1>10, SMTT(40) DEF Inv, Fresh
<1> QED
  BY <1>4, <1>6, <1>7, <1>8, <1>9, <1>11, Zenon DEF Inv

LEMMA TransitTimeoutStep ==
  ASSUME Inv, NEW n \in Node, TransitTimeout(n)
  PROVE  Inv'
<1>1. /\ pc[n] = "events" /\ pc' = pc /\ SessionDisconnect(n)
      /\ addr' = addr /\ plink' = plink /\ net' = net
      /\ faults' = faults /\ cfgs' = cfgs /\ updates' = updates
      /\ seen' = [seen EXCEPT ![n] = {}]
  BY Zenon DEF TransitTimeout, StartTransit, EndTransit, cfgVars, bounds
<1> QED
  BY <1>1, TeardownStep, ZenonT(40) DEF Inv, TypeOK

\* a transit in NONEXISTENT leaves it whenever it has a socket
LEMMA NonexistentStep ==
  ASSUME Inv, NEW n \in Node, NEW d, Sound(n, d),
         d.msgs = <<>>, d.st = "NONEXISTENT" => d.sock = None,
         csm' = [csm EXCEPT ![n] = d],
         pc[n] = "events", pc' = pc, addr' = addr, plink' = plink, net' = net, wire' = wire,
         faults' = faults, cfgs' = cfgs, updates' = updates,
         seen' = [seen EXCEPT ![n] = {}],
         endp' \in [Conn -> [Node -> {"closed", "backlog", "open"}]],
         \A k \in Conn : endp'[k][n] = "open" <=> d.sock = k,
         \A x \in Node \ {n}, k \in Conn : endp'[k][x] = "open" <=> endp[k][x] = "open"
  PROVE  Inv'
<1>3. csm' \in [Node -> CsmRecord] /\ Sessions'
  BY UpdateSound, ZenonT(40) DEF Inv
<1>4. csm'[n] = d /\ \A x \in Node \ {n} : csm'[x] = csm[x] /\ seen'[x] = seen[x]
  BY SMTT(40) DEF Inv, TypeOK
<1>5. TypeOK'
  BY <1>3, Zenon DEF Inv, TypeOK
<1>6. \A x \in Node : ConfigOk(x)' = ConfigOk(x)
  BY Zenon DEF ConfigOk, AddrSet
<1>7. LoopUp' /\ WireOK'
  BY <1>4, SMTT(40) DEF Inv, LoopUp, WireOK
<1>8. Fresh'
  BY <1>4, <1>6, SMTT(40) DEF Inv, Fresh
<1>9. NoLeakedSocket'
  BY <1>4, SMTT(40) DEF Inv, NoLeakedSocket
<1> QED
  BY <1>3, <1>5, <1>7, <1>8, <1>9, ZenonT(40) DEF Inv

LEMMA TransitNonexistentStep ==
  ASSUME Inv, NEW n \in Node, TransitNonexistent(n)
  PROVE  Inv'
<1> DEFINE c == HeartbeatCheck(csm[n])
           d == PrepareSession(n, c)
           e == [d EXCEPT !.msgs = DropHead(@)]
<1>1. /\ csm' = [csm EXCEPT ![n] = LeaveNonexistent(n, e)] /\ c.st = "NONEXISTENT"
      /\ pc[n] = "events" /\ pc' = pc /\ seen' = [seen EXCEPT ![n] = {}]
      /\ addr' = addr /\ plink' = plink /\ net' = net /\ wire' = wire /\ endp' = endp
      /\ faults' = faults /\ cfgs' = cfgs /\ updates' = updates
  BY Zenon DEF TransitNonexistent, StartTransit, EndTransit, cfgVars, tcpVars, bounds
<1>2. Sound(n, csm[n])
  BY Zenon DEF Inv, Sessions
<1>3. /\ Sound(n, c) /\ c.sock = csm[n].sock /\ c.st = csm[n].st /\ c.msgs = csm[n].msgs
  BY <1>2, HeartbeatCheckSound, Zenon
<1>4. csm[n].st = "NONEXISTENT" /\ csm[n].msgs = <<>> /\ (csm[n].sock # None => ConfigOk(n))
  BY <1>1, <1>3, Zenon DEF Inv, Fresh
<1> HIDE DEF c
<1>5. Sound(n, d) /\ d.sock = c.sock /\ d.st = c.st /\ d.msgs = c.msgs
  BY <1>3, PrepareSound, ZenonT(40)
<1> HIDE DEF d
<1>6. Sound(n, e) /\ e.sock = d.sock /\ e.st = d.st /\ e.msgs = <<>>
  BY <1>3, <1>4, <1>5, DropHeadSound, SMTT(40) DEF Sound, CsmRecord, DropHead
<1> HIDE DEF e
<1>7. /\ \A k \in Conn : endp'[k][n] = "open" <=> e.sock = k
      /\ \A x \in Node \ {n}, k \in Conn : endp'[k][x] = "open" <=> endp[k][x] = "open"
  BY <1>1, <1>3, <1>5, <1>6, SMTT(40) DEF Inv, NoLeakedSocket
<1>8. endp' \in [Conn -> [Node -> {"closed", "backlog", "open"}]]
  BY <1>1, ZenonT(40) DEF Inv, TypeOK
<1>9. e.st = "NONEXISTENT" /\ e.msgs = <<>> /\ (e.sock # None => ConfigOk(n))
  <2>1. e.st = csm[n].st /\ e.sock = csm[n].sock
    BY <1>3, <1>5, <1>6, ZenonT(40)
  <2> QED
    BY <1>4, <1>6, <2>1, ZenonT(40)
<1> DEFINE f == LeaveNonexistent(n, e)
<1>10. Sound(n, f) /\ f.msgs = <<>> /\ f.sock = e.sock /\ (f.st = "NONEXISTENT" => f.sock = None)
  BY <1>6, <1>9, LeaveNonexistentSound, ZenonT(40)
<1>11. csm' = [csm EXCEPT ![n] = f]
  BY <1>1, Zenon
<1> HIDE DEF f
<1>12. \A k \in Conn : endp'[k][n] = "open" <=> f.sock = k
  BY <1>7, <1>10, ZenonT(40)
<1> QED
  BY <1>1, <1>7, <1>8, <1>10, <1>11, <1>12, NonexistentStep, ZenonT(40)

LEMMA TransitConnectStep ==
  ASSUME Inv, NEW n \in Node, TransitConnect(n)
  PROVE  Inv'
<1> DEFINE c == csm[n]
           d == PrepareSession(n, c)
           e(k) == [d EXCEPT !.sock = k, !.msgs = DropHead(@)]
<1>1. PICK k \in FreeConn :
        /\ csm' = [csm EXCEPT ![n] = LeaveNonexistent(n, e(k))]
        /\ endp' = [endp EXCEPT ![k] = [x \in Node |-> IF x = n THEN "open" ELSE "backlog"]]
  BY ZenonT(40) DEF TransitConnect
<1>2. /\ c.st = "NONEXISTENT" /\ c.sock = None /\ ConfigOk(n)
      /\ pc[n] = "events" /\ pc' = pc /\ seen' = [seen EXCEPT ![n] = {}]
      /\ addr' = addr /\ plink' = plink /\ net' = net /\ wire' = wire
      /\ faults' = faults /\ cfgs' = cfgs /\ updates' = updates
  BY Zenon DEF TransitConnect, MayConnect, StartTransit, EndTransit, cfgVars, bounds
<1>3. k \in Conn /\ \A x \in Node : endp[k][x] = "closed"
  BY Zenon DEF FreeConn
<1>4. Sound(n, c) /\ c.msgs = <<>>
  BY <1>2, ZenonT(40) DEF Inv, Sessions, Fresh
<1>5. Sound(n, d) /\ d.sock = None /\ d.st = "NONEXISTENT" /\ d.msgs = <<>>
  BY <1>2, <1>4, PrepareSound, Zenon
<1> HIDE DEF c, d
<1>6. Sound(n, e(k)) /\ e(k).sock = k /\ e(k).st = "NONEXISTENT" /\ e(k).msgs = <<>>
  BY <1>3, <1>5, ZenonT(40) DEF Sound, CsmRecord, DropHead
<1> HIDE DEF e
<1>7. /\ \A j \in Conn : endp'[j][n] = "open" <=> k = j
      /\ \A x \in Node \ {n}, j \in Conn : endp'[j][x] = "open" <=> endp[j][x] = "open"
  BY <1>1, <1>2, <1>3, <1>6, SessionAssumption, SMTT(60) DEF Inv, TypeOK, NoLeakedSocket, c
<1>8. endp' \in [Conn -> [Node -> {"closed", "backlog", "open"}]]
  BY <1>1, <1>3, Zenon DEF Inv, TypeOK
<1> DEFINE f == LeaveNonexistent(n, e(k))
<1>9. Sound(n, f) /\ f.msgs = <<>> /\ f.sock = k /\ (f.st = "NONEXISTENT" => f.sock = None)
  <2>1. /\ Sound(n, f) /\ f.msgs = e(k).msgs /\ f.sock = e(k).sock
        /\ e(k).sock # None /\ ConfigOk(n) => f.st = "INITIALIZED"
    BY <1>6, LeaveNonexistentSound, ZenonT(40)
  <2>2. k # None
    BY <1>3, SessionAssumption, ZenonT(40)
  <2>3. f.st = "INITIALIZED"
    BY <1>2, <1>6, <2>1, <2>2, ZenonT(40)
  <2> HIDE DEF f
  <2>4. f.msgs = <<>> /\ f.sock = k
    BY <1>6, <2>1, ZenonT(40)
  <2> QED
    BY <2>1, <2>3, <2>4, Zenon
<1>10. csm' = [csm EXCEPT ![n] = f]
  BY <1>1, Zenon
<1> HIDE DEF f
<1>11. \A j \in Conn : endp'[j][n] = "open" <=> f.sock = j
  BY <1>7, <1>9, Zenon
<1> QED
  BY <1>2, <1>7, <1>8, <1>9, <1>10, <1>11, NonexistentStep, ZenonT(40)

\* a step of a session that is up: no socket opens or closes
LEMMA SessionStep ==
  ASSUME Inv, NEW n \in Node, NEW d, Sound(n, d), d.sock = csm[n].sock, d.st # "NONEXISTENT",
         csm' = [csm EXCEPT ![n] = d],
         pc' \in [Node -> {"events", "loop"}], pc'[n] = "loop" => d.app = "OPERATIONAL",
         \A x \in Node \ {n} : pc'[x] = pc[x],
         seen' \in [Node -> SUBSET {"sock", "listen"}],
         \A x \in Node \ {n} : seen'[x] = seen[x],
         wire' \in [Conn -> [Node -> Seq(Msg)]], WireOK',
         addr' = addr, plink' = plink, net' = net, endp' = endp,
         faults' = faults, cfgs' = cfgs, updates' \in 0 .. MaxUpdates
  PROVE  Inv'
<1>1. csm' \in [Node -> CsmRecord] /\ Sessions'
  BY UpdateSound, ZenonT(40) DEF Inv
<1>2. csm'[n] = d /\ \A x \in Node \ {n} : csm'[x] = csm[x]
  BY SMTT(40) DEF Inv, TypeOK
<1>3. TypeOK'
  BY <1>1, Zenon DEF Inv, TypeOK
<1>4. \A x \in Node : ConfigOk(x)' = ConfigOk(x)
  BY ZenonT(40) DEF ConfigOk, AddrSet
<1>5. LoopUp'
  <2> SUFFICES ASSUME NEW x \in Node, pc'[x] = "loop"
               PROVE  csm'[x].app = "OPERATIONAL"
    BY ZenonT(40) DEF LoopUp
  <2>1. CASE x = n
    BY <1>2, <2>1, ZenonT(40)
  <2>2. CASE x # n
    BY <1>2, <2>2, ZenonT(40) DEF Inv, LoopUp
  <2> QED
    BY <2>1, <2>2, ZenonT(40)
<1>6. Fresh'
  <2> SUFFICES ASSUME NEW x \in Node, csm'[x].st = "NONEXISTENT"
               PROVE  /\ csm'[x].msgs = <<>>
                      /\ csm'[x].sock # None => ConfigOk(x)' /\ "sock" \in seen'[x] /\ pc'[x] = "events"
    BY ZenonT(40) DEF Fresh
  <2>1. x # n
    BY <1>2, ZenonT(40)
  <2>2. csm'[x] = csm[x] /\ pc'[x] = pc[x] /\ seen'[x] = seen[x]
    BY <1>2, <2>1, ZenonT(40)
  <2>3. /\ csm[x].msgs = <<>>
        /\ csm[x].sock # None => ConfigOk(x) /\ "sock" \in seen[x] /\ pc[x] = "events"
    BY <2>2, ZenonT(40) DEF Inv, Fresh
  <2> QED
    BY <1>4, <2>2, <2>3, ZenonT(40)
<1>7. NoLeakedSocket'
  <2>1. \A x \in Node : csm'[x].sock = csm[x].sock
    BY <1>2, Zenon
  <2>2. NoLeakedSocket /\ endp' = endp
    BY Zenon DEF Inv
  <2> QED
    <3> SUFFICES ASSUME NEW x \in Node, NEW k \in Conn
                 PROVE  endp'[k][x] = "open" <=> csm'[x].sock = k
      BY ZenonT(40) DEF NoLeakedSocket
    <3>1. NoLeakedSocket
      BY <2>2, Zenon
    <3>2. endp[k][x] = "open" <=> csm[x].sock = k
      BY <3>1, SMTT(40) DEF NoLeakedSocket
    <3> QED
      BY <2>1, <2>2, <3>2, ZenonT(40)
<1> QED
  BY <1>1, <1>3, <1>5, <1>6, <1>7, ZenonT(40) DEF Inv

LEMMA TransitSessionStep ==
  ASSUME Inv, NEW n \in Node, TransitSession(n)
  PROVE  Inv'
<1> DEFINE c == HeartbeatCheck(csm[n])
           m == IF c.msgs = <<>> THEN NoMsg ELSE Head(c.msgs)
           b == [c EXCEPT !.msgs = DropHead(@)]
           e == TransitCsm(n, b, m)
           d == AppTransit(e)
           f == IF d.app = "OPERATIONAL" /\ HeartbeatDue(d) THEN [d EXCEPT !.hbSend = 0] ELSE d
           ms == TransitSends(n, c, m) \o (IF d.app = "OPERATIONAL" THEN Heartbeat(n, d) ELSE <<>>)
<1>1. /\ csm' = [csm EXCEPT ![n] = f]
      /\ Deliver(n, c.sock, ms)
      /\ pc' = [pc EXCEPT ![n] = IF d.app = "OPERATIONAL" THEN "loop" ELSE @]
  BY ZenonT(40) DEF TransitSession
<1>2. /\ seen' = [seen EXCEPT ![n] = {}] /\ pc[n] = "events" /\ csm[n].st # "NONEXISTENT"
      /\ addr' = addr /\ plink' = plink /\ net' = net /\ endp' = endp
      /\ faults' = faults /\ cfgs' = cfgs /\ updates' = updates
  BY Zenon DEF TransitSession, StartTransit, EndTransit, cfgVars, bounds
<1>3. /\ Sound(n, c) /\ c.sock = csm[n].sock /\ c.st = csm[n].st
  BY HeartbeatCheckSound, Zenon DEF Inv, Sessions
<1> HIDE DEF c
<1>4. m \in MsgOf(Peer(n)) \cup {NoMsg}
  BY <1>3 DEF Sound
<1>5. Sound(n, b) /\ b.sock = c.sock /\ b.st = c.st
  BY <1>3, DropHeadSound DEF Sound, CsmRecord
<1>6. TransitSends(n, c, m) \in Seq(MsgOf(n))
  BY SendsType, Zenon
<1> HIDE DEF m, b
<1>7. Sound(n, e) /\ e.sock = b.sock /\ e.st # "NONEXISTENT"
  BY <1>2, <1>3, <1>4, <1>5, TransitSound, Zenon
<1> HIDE DEF e
<1>8. Sound(n, d) /\ d.sock = e.sock /\ d.st = e.st
  BY <1>7, AppTransitSound, Zenon
<1>9. Heartbeat(n, d) \in Seq(MsgOf(n))
  <2>1. AppMsg(n, "HEARTBEAT") \in MsgOf(n)
    BY AppMsgType, ZenonT(40) DEF AppType
  <2> QED
    BY <2>1 DEF Heartbeat
<1> HIDE DEF d
<1>10. ms \in Seq(MsgOf(n))
  BY <1>6, <1>9
<1> HIDE DEF ms
<1>11. Sound(n, f) /\ f.sock = d.sock /\ f.st = d.st /\ f.app = d.app
  BY <1>8, TimerType, SMTT(40) DEF Sound, CsmRecord
<1> HIDE DEF f
<1>12. c.sock \in Conn
  BY <1>2, <1>3, Zenon DEF Sound, CsmRecord
<1>13. wire' \in [Conn -> [Node -> Seq(Msg)]] /\ WireOK'
  BY <1>1, <1>10, <1>12, DeliverOK, Zenon DEF Inv
<1>14. /\ pc' \in [Node -> {"events", "loop"}] /\ (pc'[n] = "loop" => f.app = "OPERATIONAL")
       /\ \A x \in Node \ {n} : pc'[x] = pc[x] /\ seen'[x] = seen[x]
       /\ seen' \in [Node -> SUBSET {"sock", "listen"}] /\ updates' \in 0 .. MaxUpdates
  BY <1>1, <1>2, <1>11, Zenon DEF Inv, TypeOK
<1>15. f.sock = csm[n].sock /\ f.st # "NONEXISTENT"
  BY <1>3, <1>5, <1>7, <1>8, <1>11, Zenon
<1> QED
  BY <1>1, <1>2, <1>11, <1>13, <1>14, <1>15, SessionStep, ZenonT(40)

\* one turn of the loop, whatever the stage
LEMMA TurnStep ==
  ASSUME Inv, NEW n \in Node, NEW d \in CsmRecord, SameSession(csm[n], d),
         NEW ms \in Seq(MsgOf(n)), Turn(n, d, ms), updates' \in 0 .. MaxUpdates
  PROVE  Inv'
<1>1. /\ csm' = [csm EXCEPT ![n] = d] /\ Deliver(n, d.sock, ms) /\ pc[n] = "loop"
      /\ pc' \in [Node -> {"events", "loop"}] /\ \A x \in Node \ {n} : pc'[x] = pc[x]
      /\ addr' = addr /\ plink' = plink /\ net' = net /\ endp' = endp /\ seen' = seen
      /\ faults' = faults /\ cfgs' = cfgs
  BY ZenonT(40) DEF Turn, cfgVars, Inv, TypeOK
<1>2. csm[n].app = "OPERATIONAL" /\ Sound(n, csm[n])
  BY <1>1, ZenonT(40) DEF Inv, LoopUp, Sessions
<1>3. Sound(n, d) /\ d.app = "OPERATIONAL" /\ d.sock = csm[n].sock /\ d.st = csm[n].st
  BY <1>2, SameSessionSound, Zenon DEF SameSession
<1>4. d.st # "NONEXISTENT" /\ d.sock \in Conn
  BY <1>2, <1>3, ZenonT(40) DEF Sound, CsmRecord
<1>5. wire' \in [Conn -> [Node -> Seq(Msg)]] /\ WireOK'
  BY <1>1, <1>4, DeliverOK, ZenonT(40) DEF Inv
<1>6. seen' \in [Node -> SUBSET {"sock", "listen"}] /\ \A x \in Node \ {n} : seen'[x] = seen[x]
  BY <1>1, Zenon DEF Inv, TypeOK
<1> QED
  BY <1>1, <1>3, <1>4, <1>5, <1>6, SessionStep, ZenonT(40)

LEMMA MlacpLoopStep ==
  ASSUME Inv, NEW n \in Node, MlacpLoop(n)
  PROVE  Inv'
<1> DEFINE c == BeginTurn(csm[n])
           m == TurnMsg(csm[n])
<1>1. csm[n] \in CsmRecord
  BY Zenon DEF Inv, TypeOK
<1>2. c \in CsmRecord /\ SameSession(csm[n], c)
  BY <1>1, TurnMsgType, TurnSameSession, ZenonT(40)
<1>3. \A d : SameSession(c, d) => SameSession(csm[n], d)
  BY <1>2, Zenon DEF SameSession
<1>4. Reply(n, m) \in Seq(MsgOf(n))
  BY ReplyType, Zenon
<1>5. ASSUME NEW t \in AppType PROVE <<AppMsg(n, t)>> \in Seq(MsgOf(n))
  <2>1. AppMsg(n, t) \in MsgOf(n)
    BY AppMsgType, ZenonT(40)
  <2> QED
    BY <2>1, SMTT(40)
<1>6. <<>> \in Seq(MsgOf(n)) /\ updates \in 0 .. MaxUpdates
  BY DEF Inv, TypeOK
<1>7. CASE TurnStageSend(n)
  <2> DEFINE d == StageSent(c, m)
             ms == IF c.wait = 0 THEN Reply(n, m) ELSE <<>>
  <2>1. Turn(n, d, ms) /\ updates' = updates
    BY <1>7, Zenon DEF TurnStageSend
  <2>2. d \in CsmRecord /\ SameSession(csm[n], d) /\ ms \in Seq(MsgOf(n))
    BY <1>2, <1>3, <1>4, <1>6, ReceivedType, TurnSameSession, ZenonT(40)
  <2> HIDE DEF d, ms
  <2> QED
    BY <1>6, <2>1, <2>2, TurnStep, Zenon
<1>8. CASE TurnStageRequest(n)
  <2> DEFINE d == StageRequested(c, m)
             ms == IF c.wait = 0 THEN <<AppMsg(n, "SYNC_REQUEST")>> ELSE Reply(n, m)
  <2>1. Turn(n, d, ms) /\ updates' = updates
    BY <1>8, Zenon DEF TurnStageRequest
  <2>2. d \in CsmRecord /\ SameSession(csm[n], d) /\ ms \in Seq(MsgOf(n))
    BY <1>2, <1>3, <1>4, <1>5, ReceivedType, TurnSameSession, ZenonT(40) DEF AppType
  <2> HIDE DEF d, ms
  <2> QED
    BY <1>6, <2>1, <2>2, TurnStep, Zenon
<1>9. CASE TurnExchange(n)
  <2> DEFINE r == Received(c, m)
             d == [r EXCEPT !.need = 0]
             q == IF r.need = 1 THEN <<AppMsg(n, "SYNC_REQUEST")>> ELSE <<>>
  <2>1. PICK u \in {<<>>} \cup {<<AppMsg(n, t)>> : t \in Update} :
          /\ updates + Len(u) <= MaxUpdates /\ updates' = updates + Len(u)
          /\ Turn(n, d, Reply(n, m) \o q \o u)
    BY <1>9, Zenon DEF TurnExchange
  <2>2. u \in Seq(MsgOf(n)) /\ Len(u) \in Nat
    <3>1. CASE u = <<>>
      BY <1>6, <3>1, Zenon
    <3>2. ASSUME NEW t \in Update, u = <<AppMsg(n, t)>>
          PROVE  u \in Seq(MsgOf(n)) /\ Len(u) \in Nat
      BY <1>5, <3>2, SessionAssumption, Zenon DEF AppType
    <3> QED
      BY <2>1, <3>1, <3>2, Zenon
  <2>3. d \in CsmRecord /\ SameSession(csm[n], d)
    BY <1>2, <1>3, TurnSameSession, Zenon
  <2>4. q \in Seq(MsgOf(n))
    BY <1>5, <1>6, Zenon DEF AppType
  <2> HIDE DEF q
  <2> DEFINE ms == Reply(n, m) \o q \o u
  <2>5. ms \in Seq(MsgOf(n)) /\ Turn(n, d, ms)
    BY <1>4, <2>1, <2>2, <2>4, SMTT(40)
  <2>6. updates' \in 0 .. MaxUpdates
    BY <1>6, <2>1, <2>2, SessionAssumption, SMTT(40)
  <2> HIDE DEF d, ms
  <2> QED
    BY <2>3, <2>5, <2>6, TurnStep, Zenon
<1>10. CASE TurnError(n)
  <2>1. Turn(n, c, <<>>) /\ updates' = updates
    BY <1>10, Zenon DEF TurnError
  <2> HIDE DEF c
  <2> QED
    BY <1>2, <1>6, <2>1, TurnStep, ZenonT(40)
<1> QED
  BY <1>7, <1>8, <1>9, <1>10, Zenon DEF MlacpLoop

\* commands and events that make the configuration more complete
LEMMA SetAddressStep ==
  ASSUME Inv, NEW n \in Node, NEW a \in {"sender", "peer"}, SetAddress(n, a) \/ PeerLinkCreated(n)
  PROVE  Inv'
<1>1. /\ csm' = csm /\ endp' = endp /\ wire' = wire /\ net' = net /\ pc' = pc /\ seen' = seen
      /\ faults' = faults /\ updates' = updates
      /\ cfgs < MaxCfg /\ cfgs' = cfgs + 1
  BY Zenon DEF SetAddress, PeerLinkCreated, Configure, tcpVars
<1>2. \/ addr' = [addr EXCEPT ![n] = @ \cup {a}] /\ plink' = plink
      \/ plink' = [plink EXCEPT ![n] = "present"] /\ addr' = addr
  BY Zenon DEF SetAddress, PeerLinkCreated
<1>3. cfgs' \in 0 .. MaxCfg
  BY <1>1, SessionAssumption, SMTT(40) DEF Inv, TypeOK
<1>a. addr \in [Node -> SUBSET {"sender", "peer"}] /\ plink \in [Node -> {"none", "absent", "present"}]
  BY Zenon DEF Inv, TypeOK
<1>b. addr[n] \cup {a} \in SUBSET {"sender", "peer"}
  BY <1>a, Zenon
<1>4. addr' \in [Node -> SUBSET {"sender", "peer"}] /\ plink' \in [Node -> {"none", "absent", "present"}]
  BY <1>2, <1>a, <1>b, ZenonT(40)
<1>5. TypeOK'
  BY <1>1, <1>3, <1>4, Zenon DEF Inv, TypeOK
<1>6. \A x \in Node : ConfigOk(x) => ConfigOk(x)'
  <2>1. \A x \in Node : addr[x] = {"sender", "peer"} => addr'[x] = {"sender", "peer"}
    <3>1. CASE addr' = addr
      BY <3>1, Zenon
    <3>2. CASE addr' = [addr EXCEPT ![n] = @ \cup {a}]
      BY <1>a, <3>2, ZenonT(40)
    <3> QED
      BY <1>2, <3>1, <3>2, ZenonT(40)
  <2>2. \A x \in Node : plink[x] # "absent" => plink'[x] # "absent"
    BY <1>2, <1>a, ZenonT(40)
  <2> QED
    BY <2>1, <2>2, Zenon DEF ConfigOk, AddrSet
<1>7. Sessions' /\ LoopUp' /\ WireOK' /\ NoLeakedSocket'
  BY <1>1, SMTT(40) DEF Inv, Sessions, LoopUp, WireOK, NoLeakedSocket
<1>8. Fresh'
  BY <1>1, <1>6, Zenon DEF Inv, Fresh
<1> QED
  BY <1>5, <1>7, <1>8, Zenon DEF Inv

\* and those that change it: they disconnect
LEMMA ResetLinkStep ==
  ASSUME Inv, NEW n \in Node, NEW a \in {"sender", "peer"}, NEW p \in {"none", "absent", "present"},
         UnsetAddress(n, a) \/ SetPeerLink(n, p)
  PROVE  Inv'
<1>1. /\ SessionDisconnect(n) /\ net' = net /\ pc' = pc /\ seen' = seen
      /\ faults' = faults /\ updates' = updates /\ pc[n] = "events"
      /\ cfgs < MaxCfg /\ cfgs' = cfgs + 1
  BY Zenon DEF UnsetAddress, SetPeerLink, Configure
<1>2. \/ addr' = [addr EXCEPT ![n] = @ \ {a}] /\ plink' = plink
      \/ plink' = [plink EXCEPT ![n] = p] /\ addr' = addr
  BY Zenon DEF UnsetAddress, SetPeerLink
<1>3. cfgs' \in 0 .. MaxCfg
  BY <1>1, SessionAssumption, SMTT(40) DEF Inv, TypeOK
<1>4. /\ addr' \in [Node -> SUBSET {"sender", "peer"}]
      /\ plink' \in [Node -> {"none", "absent", "present"}]
      /\ \A x \in Node \ {n} : addr'[x] = addr[x] /\ plink'[x] = plink[x]
  <2>1. addr \in [Node -> SUBSET {"sender", "peer"}] /\ plink \in [Node -> {"none", "absent", "present"}]
    BY Zenon DEF Inv, TypeOK
  <2>2. addr[n] \ {a} \in SUBSET {"sender", "peer"}
    BY <2>1, Zenon
  <2>3. CASE addr' = [addr EXCEPT ![n] = @ \ {a}] /\ plink' = plink
    BY <2>1, <2>2, <2>3, Zenon
  <2>4. CASE plink' = [plink EXCEPT ![n] = p] /\ addr' = addr
    BY <2>1, <2>4, Zenon
  <2> QED
    BY <1>2, <2>3, <2>4, Zenon
<1>5. /\ net' \in BOOLEAN /\ seen' \in [Node -> SUBSET {"sock", "listen"}]
      /\ \A x \in Node \ {n} : seen'[x] = seen[x]
      /\ faults' \in 0 .. MaxFaults /\ updates' \in 0 .. MaxUpdates
  BY <1>1, Zenon DEF Inv, TypeOK
<1> QED
  BY <1>1, <1>3, <1>4, <1>5, TeardownStep, Zenon

LEMMA RestartStep ==
  ASSUME Inv, NEW n \in Node, Restart(n)
  PROVE  Inv'
<1>1. /\ csm' = [csm EXCEPT ![n] = InitCsm]
      /\ endp' = [c \in Conn |-> [endp[c] EXCEPT ![n] = "closed"]]
      /\ wire' = [c \in Conn |-> [wire[c] EXCEPT ![n] = <<>>]]
      /\ pc' = [pc EXCEPT ![n] = "events"] /\ seen' = [seen EXCEPT ![n] = {}]
      /\ addr' = addr /\ plink' = plink /\ net' = net /\ cfgs' = cfgs /\ updates' = updates
      /\ faults < MaxFaults /\ faults' = faults + 1
  BY Zenon DEF Restart, cfgVars
<1>2. csm' \in [Node -> CsmRecord] /\ Sessions'
  BY <1>1, InitSound, UpdateSound, ZenonT(40) DEF Inv
<1>3. csm'[n] = InitCsm /\ \A x \in Node \ {n} : csm'[x] = csm[x]
  BY <1>1, Zenon DEF Inv, TypeOK
<1>4. InitCsm.sock = None /\ InitCsm.msgs = <<>>
  BY Zenon DEF InitCsm
<1>5. wire' \in [Conn -> [Node -> Seq(Msg)]] /\ WireOK'
  BY <1>1, SMTT(40) DEF Inv, TypeOK, WireOK
<1>6. faults' \in 0 .. MaxFaults
  BY <1>1, SessionAssumption, SMTT(40) DEF Inv, TypeOK
<1>7. TypeOK'
  BY <1>1, <1>2, <1>5, <1>6, ZenonT(40) DEF Inv, TypeOK
<1>8. NoLeakedSocket'
  BY <1>1, <1>3, <1>4, SessionAssumption, SMTT(60) DEF Inv, TypeOK, NoLeakedSocket
<1>9. \A x \in Node : ConfigOk(x)' = ConfigOk(x)
  BY <1>1, ZenonT(40) DEF ConfigOk, AddrSet
<1>10. \A x \in Node \ {n} : pc'[x] = pc[x] /\ seen'[x] = seen[x]
  BY <1>1, Zenon DEF Inv, TypeOK
<1>11. LoopUp'
  BY <1>1, <1>3, <1>10, ZenonT(40) DEF Inv, TypeOK, LoopUp
<1>12. Fresh'
  BY <1>3, <1>4, <1>9, <1>10, ZenonT(40) DEF Inv, Fresh
<1> QED
  BY <1>2, <1>5, <1>7, <1>8, <1>11, <1>12, Zenon DEF Inv

LEMMA EnvironmentStep ==
  ASSUME Inv, LinkDown \/ LinkUp
  PROVE  Inv'
<1>1. /\ csm' = csm /\ addr' = addr /\ plink' = plink /\ endp' = endp /\ wire' = wire
      /\ pc' = pc /\ seen' = seen /\ cfgs' = cfgs /\ updates' = updates
      /\ net' \in BOOLEAN
  BY ZenonT(40) DEF LinkDown, LinkUp, cfgVars, tcpVars, bounds
<1>2. faults' \in 0 .. MaxFaults
  BY SessionAssumption, SMTT(40) DEF LinkDown, LinkUp, bounds, Inv, TypeOK
<1>3. TypeOK'
  BY <1>1, <1>2, Zenon DEF Inv, TypeOK
<1>4. Sessions' /\ LoopUp' /\ WireOK' /\ NoLeakedSocket'
  BY <1>1, SMTT(40) DEF Inv, Sessions, LoopUp, WireOK, NoLeakedSocket
<1>5. Fresh'
  BY <1>1, Zenon DEF Inv, Fresh, ConfigOk, AddrSet
<1> QED
  BY <1>3, <1>4, <1>5, ZenonT(40) DEF Inv

LEMMA TickStep ==
  ASSUME Inv, Tick
  PROVE  Inv'
<1>1. /\ csm' = [n \in Node |-> [csm[n] EXCEPT !.hbUpdate = Advance(@),
                                   !.hbSend = Advance(@), !.connPrev = Advance(@)]]
      /\ addr' = addr /\ plink' = plink /\ endp' = endp /\ wire' = wire /\ net' = net
      /\ pc' = pc /\ seen' = seen /\ faults' = faults /\ cfgs' = cfgs /\ updates' = updates
  BY ZenonT(40) DEF Tick, cfgVars, tcpVars, bounds
<1>2. ASSUME NEW n \in Node
      PROVE  csm'[n] \in CsmRecord /\ SameSession(csm[n], csm'[n]) /\ csm'[n].ml = csm[n].ml
  <2>1. csm[n] \in CsmRecord
    BY Zenon DEF Inv, TypeOK
  <2>2. /\ Advance(csm[n].hbUpdate) \in Timer /\ Advance(csm[n].hbSend) \in Timer
        /\ Advance(csm[n].connPrev) \in Timer
    BY <2>1, TimerType, Zenon DEF CsmRecord
  <2>3. csm'[n] = [csm[n] EXCEPT !.hbUpdate = Advance(@),
                                 !.hbSend = Advance(@), !.connPrev = Advance(@)]
    BY <1>1, ZenonT(40)
  <2> QED
    BY <2>1, <2>2, <2>3, ZenonT(40) DEF CsmRecord, SameSession
<1>3. csm' \in [Node -> CsmRecord]
  BY <1>1, <1>2, ZenonT(40)
<1>4. TypeOK'
  BY <1>1, <1>3, ZenonT(40) DEF Inv, TypeOK
<1>5. Sessions'
  <2>1. ASSUME NEW n \in Node PROVE Sound(n, csm'[n])
    <3>1. Sound(n, csm[n])
      BY Zenon DEF Inv, Sessions
    <3> QED
      BY <1>2, <3>1, ZenonT(40) DEF SameSession, Sound
  <2> QED
    BY <2>1, Zenon DEF Sessions, Sound
<1>6. \A n \in Node : csm'[n].sock = csm[n].sock /\ csm'[n].st = csm[n].st /\ csm'[n].msgs = csm[n].msgs
  BY <1>2, Zenon DEF SameSession
<1>7. LoopUp' /\ WireOK' /\ NoLeakedSocket'
  <2>1. LoopUp'
    BY <1>1, <1>2, ZenonT(40) DEF Inv, LoopUp, SameSession
  <2>2. WireOK'
    BY <1>1, ZenonT(40) DEF Inv, WireOK
  <2>3. NoLeakedSocket'
    BY <1>1, <1>6, ZenonT(40) DEF Inv, NoLeakedSocket
  <2> QED
    BY <2>1, <2>2, <2>3, ZenonT(40)
<1>8. Fresh'
  BY <1>1, <1>6, ZenonT(40) DEF Inv, Fresh, ConfigOk, AddrSet
<1> QED
  BY <1>4, <1>5, <1>7, <1>8, Zenon DEF Inv

LEMMA InitInv == Init => Inv
<1> SUFFICES ASSUME Init PROVE Inv
  BY Zenon
<1>1. InitCsm \in CsmRecord
  BY InitCsmType, Zenon
<1>2. \A n \in Node : csm[n] = InitCsm
  BY Zenon DEF Init
<1>3. InitCsm.sock = None /\ InitCsm.msgs = <<>>
  BY Zenon DEF InitCsm
<1>4. TypeOK
  <2>1. 0 \in 0 .. MaxFaults /\ 0 \in 0 .. MaxCfg /\ 0 \in 0 .. MaxUpdates
    BY SessionAssumption
  <2>2. <<>> \in Seq(Msg)
    OBVIOUS
  <2> QED
    BY <1>1, <2>1, <2>2, Zenon DEF Init, TypeOK
<1>5. Sessions
  BY <1>2, InitSound, Zenon DEF Sessions
<1>6. LoopUp /\ WireOK
  BY SMTT(40) DEF Init, LoopUp, WireOK
<1>7. Fresh
  BY <1>2, <1>3, Zenon DEF Fresh
<1>8. NoLeakedSocket
  BY <1>2, <1>3, SessionAssumption, Zenon DEF Init, NoLeakedSocket
<1> QED
  BY <1>4, <1>5, <1>6, <1>7, <1>8, Zenon DEF Inv

LEMMA NextInv == Inv /\ [Next]_vars => Inv'
<1> SUFFICES ASSUME Inv, [Next]_vars PROVE Inv'
  BY Zenon
<1>1. CASE UNCHANGED vars
  BY <1>1, ZenonT(40) DEF vars, Inv, TypeOK, Sessions, LoopUp, Fresh, WireOK, NoLeakedSocket, ConfigOk, AddrSet
<1>2. ASSUME NEW n \in Node, Events(n) PROVE Inv'
  BY <1>2, ReadMsgStep, ReadEofStep, ServerAcceptStep, ServerRejectStep, Zenon DEF Events
<1>3. ASSUME NEW n \in Node, Transit(n) PROVE Inv'
  BY <1>3, TransitTimeoutStep, TransitConnectStep, TransitNonexistentStep, TransitSessionStep, Zenon DEF Transit
<1>4. ASSUME NEW n \in Node, Config(n) PROVE Inv'
  BY <1>4, SetAddressStep, ResetLinkStep, Zenon DEF Config
<1>5. ASSUME Next PROVE Inv'
  BY <1>2, <1>3, <1>4, <1>5, MlacpLoopStep, RestartStep, EnvironmentStep, TickStep, Zenon DEF Next, Daemon
<1> QED
  BY <1>1, <1>5, Zenon

LEMMA InvAlways == Spec => []Inv
  BY InitInv, NextInv, PTL DEF Spec

\* Every variable keeps its type, through every interleaving of the two
\* scheduler loops, failures and commands, for any number of connections,
\* faults, commands and updates and any keepalive and session timeouts.
THEOREM TypeCorrect == Spec => []TypeOK
<1>1. Inv => TypeOK
  BY Zenon DEF Inv
<1> QED
  BY <1>1, InvAlways, PTL

\* iccp_csm_transit never finds a CSM past NONEXISTENT without a socket: its
\* branch that frees the CSM in that case is dead code.
THEOREM NoOrphanStateHolds == Spec => []NoOrphanState
<1>1. Inv => NoOrphanState
  BY Zenon DEF Inv, Sessions, Sound, NoOrphanState
<1> QED
  BY <1>1, InvAlways, PTL

\* app_csm_transit and mlacp_fsm_transit are up only above an operational
\* session, so mlacp_fsm_transit never has to close a socket itself.
THEOREM AppHasSessionHolds == Spec => []AppHasSession
<1>1. Inv => AppHasSession
  BY Zenon DEF Inv, Sessions, Sound, AppHasSession
<1> QED
  BY <1>1, InvAlways, PTL

\* The descriptors a daemon has open are the ones its CSM holds: accept,
\* connect, reject, disconnect, reconfiguration and restart leak none.
THEOREM NoLeakedSocketHolds == Spec => []NoLeakedSocket
<1>1. Inv => NoLeakedSocket
  BY Zenon DEF Inv
<1> QED
  BY <1>1, InvAlways, PTL

\* Whatever two RG ids are configured, iccp_csm_check_id_from_msg and the
\* handshake bring the session up only if they are equal.
THEOREM NoCrossRgSessionHolds == Spec => []NoCrossRgSession
<1>1. Inv => NoCrossRgSession
  BY Zenon DEF Inv, Sessions, Sound, NoCrossRgSession
<1> QED
  BY <1>1, InvAlways, PTL

\* iccp_csm_transit dequeues a message before it looks at the state, but it
\* never does so in NONEXISTENT, where the message would be lost.
THEOREM NoHandshakeLossHolds == Spec => []NoHandshakeLoss
<1>1. Inv => NoHandshakeLoss
  BY Zenon DEF Inv, Fresh, NoHandshakeLoss
<1> QED
  BY <1>1, InvAlways, PTL
=============================================================================
