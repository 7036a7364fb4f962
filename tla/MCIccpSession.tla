--------------------------- MODULE MCIccpSession ---------------------------
(* Small instances of IccpSession for TLC.                                 *)
EXTENDS SyncRefinement, TLC

CONSTANTS c1, c2

MCConn == {c1, c2}
SameRg == [n \in {Lo, Hi} |-> 1]

ConnSymmetry == Permutations(MCConn)
=============================================================================
