---------------------------- MODULE KubeLabels ----------------------------
(***************************************************************************)
(* The half of ctrmgrd that talks to the Kubernetes API server: the join   *)
(* and the reset of the node (RemoteServerHandler), the retries after a    *)
(* failure, and the copy of the STATE_DB labels to the node                *)
(* (LabelsPendingHandler and kube_commands.kube_write_labels).             *)
(*                                                                         *)
(* ctrmgrd is one thread.  A table update reaches it as a notification; a  *)
(* handler reads the row as it is when the notification is popped, so a    *)
(* pending notification is one flag per table (SubscriberStateTable,       *)
(* external).                                                              *)
(***************************************************************************)
EXTENDS Naturals, FiniteSets

CONSTANTS
    MaxVersion,   \* the highest image version; version labels are 1..MaxVersion
    Scene         \* what may happen (may), and how many counted events (max)

ASSUME LabelBounds == /\ MaxVersion \in Nat \ {0}
                      /\ \A s \in Scene : s.max \in Nat

VARIABLES
    scene,    \* the environment events of this behaviour
    labels,   \* STATE_DB KUBE_LABELS|SET: label -> "unset", "true" or "false"
    api,      \* the node's labels at the API server
    joined,   \* kubelet and admin configuration are in place (is_connected)
    server,   \* CONFIG_DB KUBERNETES_MASTER: TRUE when an enabled server is set
    link,     \* what RemoteServerHandler and LabelsPendingHandler remember
    notes,    \* tables with an update ctrmgrd has not popped yet
    events    \* how many environment events have happened

linkVars == <<scene, labels, api, joined, server, link, notes, events>>

\* Label 0 is <feature>_enabled, label v is <feature>_<v>_enabled.
Feature == 0
Label == 0..MaxVersion
LabelValue == {"unset", "true", "false"}
NoLabels == [l \in Label |-> "unset"]

Table == {"CONFIG FEATURE", "STATE FEATURE", "KUBE_LABELS", "KUBERNETES_MASTER"}

\* cfg: cfg_server; pending: a (re)join timer runs; connected:
\* remote_connected; stamped: STATE_DB KUBERNETES_MASTER has an update time;
\* retry: pending of the label handler; set: its set_labels while a retry is
\* pending (it is overwritten before any other use).
Link == [cfg : BOOLEAN, pending : BOOLEAN, connected : BOOLEAN, stamped : BOOLEAN,
         set : [Label -> LabelValue], retry : BOOLEAN]

LabelTypeOK ==
    /\ scene \in Scene
    /\ labels \in [Label -> LabelValue]
    /\ api \in [Label -> LabelValue]
    /\ joined \in BOOLEAN
    /\ server \in BOOLEAN
    /\ link \in Link
    /\ notes \subseteq Table
    /\ events \in 0..scene.max

\* At boot the first join waits for the boot latency: a timer is pending.  In
\* a scene without join events the feature is enabled on a joined node.
LabelInit ==
    /\ scene \in Scene
    /\ labels = NoLabels
    /\ api = NoLabels
    /\ joined = (scene.may \intersect {"server", "fail", "restart"} = {})
    /\ server \in IF "server" \in scene.may THEN BOOLEAN ELSE {TRUE}
    /\ link = [cfg |-> server, pending |-> ~joined, connected |-> joined,
               stamped |-> joined, set |-> NoLabels, retry |-> FALSE]
    /\ notes = {"CONFIG FEATURE"}
    /\ events = 0

\* An environment event of the scene, counted.
Event(e) ==
    /\ e \in scene.may
    /\ events < scene.max
    /\ events' = events + 1

---------------------------------------------------------------------------
(* kube_commands *)

\* The labels kube_write_labels has to (re)write on the node.
Differs(set) == {l \in Label : set[l] # "unset" /\ api[l] # set[l]}

\* Mutant: a failed write is not retried.
WriteOnce(set) ==
    /\ joined
    /\ \/ /\ api' = [l \in Label |-> IF l \in Differs(set) THEN set[l] ELSE api[l]]
          /\ UNCHANGED events
       \/ /\ Event("fail")
          /\ UNCHANGED api
    /\ link' = [link EXCEPT !.set = NoLabels, !.retry = FALSE]

\* kube_write_labels once the node's labels are read: remove the ones whose
\* value differs, add them again; the caller sees the status of the addition,
\* which may fail before or after a removal.
WriteLabels(set) ==
    /\ joined
    /\ \/ /\ api' = [l \in Label |-> IF l \in Differs(set) THEN set[l] ELSE api[l]]
          /\ link' = [link EXCEPT !.set = NoLabels, !.retry = FALSE]
          /\ UNCHANGED events
       \/ /\ Differs(set) # {}
          /\ Event("fail")
          /\ \/ UNCHANGED api
             \/ api' = [l \in Label |-> IF l \in Differs(set) THEN "unset" ELSE api[l]]
          /\ link' = [link EXCEPT !.set = set, !.retry = TRUE]

\* kube_read_labels sees the status of the last command of its pipe, so a
\* kubectl that fails (always when the node is not joined) leaves an empty
\* text whose parsing raises IndexError, which nothing catches.
ReadFails == (~joined /\ UNCHANGED events) \/ Event("fail")

\* handle_update: do_reset leaves the cluster; do_join is immediate when
\* is_connected holds, else it resets the node and joins afresh, and a
\* failure (~ok) arms the retry timer.  A successful join writes the node
\* labels to STATE_DB (set_node_labels), which notifies the label handler.
HandleServer(ok, old, cfg, queue) ==
    \/ /\ ~cfg /\ ok
       /\ joined' = FALSE
       /\ api' = NoLabels
       /\ link' = [old EXCEPT !.cfg = cfg, !.pending = FALSE, !.connected = FALSE,
                               !.stamped = TRUE]
       /\ notes' = queue
    \/ /\ cfg /\ ok
       /\ joined' = TRUE
       /\ link' = [old EXCEPT !.cfg = cfg, !.pending = FALSE, !.connected = TRUE,
                               !.stamped = TRUE]
       /\ notes' = queue \union {"KUBE_LABELS"}
       /\ UNCHANGED api
    \/ /\ cfg /\ ~joined /\ ~ok
       /\ link' = [old EXCEPT !.cfg = cfg, !.pending = TRUE, !.connected = FALSE,
                               !.stamped = TRUE]
       /\ notes' = queue
       /\ UNCHANGED <<joined, api>>

\* handle_update in the running daemon: a failing join is an event.
Update(cfg, queue) ==
    \/ HandleServer(TRUE, link, cfg, queue) /\ UNCHANGED events
    \/ HandleServer(FALSE, link, cfg, queue) /\ Event("fail")

---------------------------------------------------------------------------
(* RemoteServerHandler *)

\* on_config_update: nothing on an unchanged configuration; only remembered
\* while a join timer is pending; else handled at once.
OnServer ==
    /\ "KUBERNETES_MASTER" \in notes
    /\ LET queue == notes \ {"KUBERNETES_MASTER"} IN
       IF server = link.cfg \/ link.pending
       THEN /\ notes' = queue
            /\ link' = [link EXCEPT !.cfg = server]
            /\ UNCHANGED <<joined, api, events>>
       ELSE Update(server, queue)
    /\ UNCHANGED <<scene, labels, server>>

\* The timer of the first join or of a retry calls handle_update.
JoinTimer ==
    /\ link.pending
    /\ Update(link.cfg, notes)
    /\ UNCHANGED <<scene, labels, server>>

\* The constructors: nothing is remembered and every row is notified; the
\* join waits for the boot latency unless it was handled before this start.
Construct ==
    LET queue == Table \ {"KUBERNETES_MASTER"}
        old == [link EXCEPT !.cfg = server, !.connected = FALSE, !.set = NoLabels, !.retry = FALSE]
    IN  IF link.stamped
        THEN \E ok \in BOOLEAN : HandleServer(ok, old, server, queue)
        ELSE /\ link' = [old EXCEPT !.pending = TRUE]
             /\ notes' = queue
             /\ UNCHANGED <<joined, api>>

---------------------------------------------------------------------------
(* LabelsPendingHandler *)

\* on_update: keep the labels; write them unless the node is not connected
\* or a retry timer is pending, which will write what is kept.
OnLabels ==
    /\ "KUBE_LABELS" \in notes
    /\ notes' = notes \ {"KUBE_LABELS"}
    /\ IF link.connected /\ ~link.retry
       THEN WriteLabels(labels)
       ELSE /\ link' = IF link.retry THEN [link EXCEPT !.set = labels] ELSE link
            /\ UNCHANGED <<api, events>>
    /\ UNCHANGED <<scene, labels, joined, server>>

\* A label update that will read the node's labels is due.
LabelsDue == link.retry \/ ("KUBE_LABELS" \in notes /\ link.connected)

\* The retry timer calls update_node_labels with the labels kept last.
LabelTimer ==
    /\ link.retry
    /\ WriteLabels(link.set)
    /\ UNCHANGED <<scene, labels, joined, server, notes>>

---------------------------------------------------------------------------
(* Environment *)

\* An operator enables or disables the server in CONFIG_DB.
SetServer ==
    /\ Event("server")
    /\ server' = ~server
    /\ notes' = notes \union {"KUBERNETES_MASTER"}
    /\ UNCHANGED <<scene, labels, api, joined, link>>

============================================================================
