-------------------------- MODULE SyncRefinement --------------------------
(* The ICCP session implements the service of SyncService. *)
EXTENDS IccpSession

\* The socket of an end's CSM is its connection; the states of the session and
\* of the application above it, which starts when the session is up, its stage.
Height(c) == Order[c.st] + MlacpOrder[c.ml]
Service == INSTANCE SyncService WITH
    link <- [n \in Node |-> csm[n].sock],
    stage <- [n \in Node |-> Height(csm[n])]

\* Through accepts, rejects, time-outs, restarts and lost messages, each step
\* of a daemon is a step of the service or changes nothing it shows: a machine
\* goes forward only, waits for the other end where SyncService says so
\* (mlacp_stage_handler), and does not go past EXCHANGE into ERROR, where it
\* "should not be here".
ServiceProvided == Service!Spec

\* What the order of the stages is for, of the session itself: on one connection
\* the ACTIVE node is in EXCHANGE only with a peer that is there already, the
\* STANDBY node in STAGE2 or EXCHANGE only with one that left STAGE1; and no
\* SYNC_REQUEST moves a machine past EXCHANGE.
StageAgreement == Service!Agreement /\ \A n \in Node : Height(csm[n]) \in Service!Stage
=============================================================================
