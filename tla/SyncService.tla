---------------------------- MODULE SyncService ----------------------------
(***************************************************************************)
(* What the ICCP session promises to the applications of the MCLAG daemon: *)
(* two ends that take up and give up connections and that climb, while     *)
(* they hold one, from NONEXISTENT (0) through the handshake to            *)
(* OPERATIONAL (5), and then over STAGE1 (6) and STAGE2 (7) to EXCHANGE    *)
(* (8).  On one connection the synchronisation is ordered: Lo, the ACTIVE  *)
(* end, is the first to reach STAGE2 and the last to exchange updates.     *)
(***************************************************************************)
EXTENDS Naturals

CONSTANTS Lo, Hi, Conn, None

VARIABLES
    link,    \* the connection each end holds, or None
    stage    \* how far each end has climbed on it

vars == <<link, stage>>

End == {Lo, Hi}
Other(n) == IF n = Lo THEN Hi ELSE Lo

Operational == 5
Exchange == 8
Stage == 0..Exchange

\* Both ends hold the same connection.
Joined == link[Lo] # None /\ link[Lo] = link[Hi]

Init == link = [n \in End |-> None] /\ stage = [n \in End |-> 0]

\* An end takes up a connection; the other one, if it is there already, has
\* not completed the handshake.  The client greets at once.
Open(n, c) ==
    /\ link[n] = None
    /\ link[Other(n)] = c => stage[Other(n)] < Operational
    /\ link' = [link EXCEPT ![n] = c]
    /\ \E s \in {0, 1} : stage' = [stage EXCEPT ![n] = s]

\* An end gives up its connection, at any time, and starts again from INIT.
Close(n) ==
    /\ link[n] # None
    /\ link' = [link EXCEPT ![n] = None]
    /\ stage' = [stage EXCEPT ![n] = 0]

\* An end goes forward in the handshake.
Greet(n) ==
    /\ link[n] # None /\ stage[n] < Operational
    /\ stage'[n] \in stage[n] + 1..Operational
    /\ stage' = [stage EXCEPT ![n] = stage'[n]]
    /\ UNCHANGED link

\* What an end at stage s waits for on a joined connection.
Turn(n, s) ==
    /\ n = Lo /\ s = 7 => stage[Hi] = Exchange
    /\ n = Hi /\ s = 6 => stage[Lo] = 7
    /\ n = Hi /\ s = 7 => stage[Lo] \in {7, Exchange}

\* An end goes one stage forward in the synchronisation.
Climb(n) ==
    /\ link[n] # None /\ stage[n] \in Operational..Exchange - 1
    /\ stage' = [stage EXCEPT ![n] = @ + 1]
    /\ Joined => Turn(n, stage[n])
    /\ UNCHANGED link

Next == \E n \in End : Close(n) \/ Greet(n) \/ Climb(n) \/ \E c \in Conn \ {None} : Open(n, c)

Spec == Init /\ [][Next]_vars
-----------------------------------------------------------------------------
\* What the order of the climb is for: on a joined connection nobody exchanges
\* updates with an end that has not received the data of the other.
Agreement ==
    Joined =>
      /\ stage[Lo] = Exchange => stage[Hi] = Exchange
      /\ stage[Hi] = 7 => stage[Lo] = 7
      /\ stage[Hi] = Exchange => stage[Lo] \in {7, Exchange}
=============================================================================
