---------------------------- MODULE MCMclagLink ----------------------------
(***************************************************************************)
(* Instances of MclagLink for TLC.                                          *)
(***************************************************************************)
EXTENDS MclagLink

BothBound == [n \in Node |-> Po]
LoBound == [n \in Node |-> IF n = Lo THEN Po ELSE {}]
=============================================================================
