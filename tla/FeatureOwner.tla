--------------------------- MODULE FeatureOwner ---------------------------
(***************************************************************************)
(* Who runs a feature's container, the local image or Kubernetes: the      *)
(* systemd unit with its `container start`, `wait` and `stop` scripts, the *)
(* container_startup script inside every container, and ctrmgrd, which     *)
(* restarts the unit when the owner has to change.  They share nothing but *)
(* the FEATURE rows of CONFIG_DB and STATE_DB and the label row.           *)
(*                                                                         *)
(* A step is what one script does between two points where it waits (a     *)
(* sleep, docker, systemctl, the preparation of the unit): the few row     *)
(* reads and writes in between take microseconds.                          *)
(***************************************************************************)
EXTENDS KubeLabels

CONSTANTS
    Pod           \* the image versions Kubernetes may deploy

ASSUME OwnerBounds == Pod \subseteq 1..MaxVersion

VARIABLES
    cfg,      \* CONFIG_DB FEATURE row: set_owner, fallback
    db,       \* STATE_DB FEATURE row
    unit,     \* the systemd unit and its running scripts
    local,    \* the container of the local image
    pod,      \* the containers kubelet runs, one per image version
    mgr       \* what FeatureTransitionHandler remembers

ownerVars == <<cfg, db, unit, local, pod, mgr>>
vars == <<linkVars, ownerVars>>

\* Pod v runs image version v; the local image is version 1; 0 stands for
\* "0.0.0", the version read before any container came up.
LocalVersion == 1

\* Container ids: none (""), a pod's, the feature name, or a missing field.
NoId == 0
LocalId == MaxVersion + 1
Unset == MaxVersion + 2
Id == 0..MaxVersion + 2

Owner == {"local", "kube"}
Remote == {"none", "pending", "ready", "running", "stopped"}
Row == [owner : Owner \union {"none"}, id : Id, remote : Remote,
        version : 0..MaxVersion, system : {"", "up", "down"}]

\* pc: what systemd is doing; "start" and "docker" are `activating`, "stop"
\* and "stopping" are `deactivating`.  again: start once stopped.  wait: the
\* main process, `container wait`, polling (late: at least one round is over)
\* or in docker wait for waitId.
\* kube: the start also labels the node.  stopId, stopRemote: what
\* `container stop` read before docker stop.
Unit == [pc : {"dead", "start", "docker", "active", "stop", "stopping"},
         again : BOOLEAN, wait : {"off", "begin", "poll", "late", "dock"}, waitId : Id,
         kube : BOOLEAN, stopId : Id, stopRemote : Remote]

\* owner, st: cfg_data and st_data, "init" before the first update; busy:
\* inside `systemctl restart`.
Mgr == [owner : Owner \union {"init"}, st : Owner \union {"none", "init"},
        remote : Remote, busy : BOOLEAN]

TypeOK ==
    /\ LabelTypeOK
    /\ cfg \in [owner : Owner, fallback : BOOLEAN]
    /\ db \in Row
    /\ unit \in Unit
    /\ local \in {"down", "boot", "app"}
    /\ pod \in [Pod -> {"none", "boot", "poll", "app", "frozen"}]
    /\ mgr \in Mgr

\* Boot: empty STATE_DB, the unit is being started, ctrmgrd has subscribed
\* and finds the CONFIG_DB row.
Init ==
    /\ LabelInit
    /\ cfg \in [owner : Owner, fallback : {"no_fallback" \notin scene.may}]
    /\ db = [owner |-> "none", id |-> Unset, remote |-> "none",
             version |-> 0, system |-> ""]
    /\ unit = [pc |-> "start", again |-> TRUE, wait |-> "off", waitId |-> NoId,
               kube |-> FALSE, stopId |-> NoId, stopRemote |-> "none"]
    /\ local = "down"
    /\ pod = [p \in Pod |-> "none"]
    /\ mgr = [owner |-> "init", st |-> "init", remote |-> "none", busy |-> FALSE]

---------------------------------------------------------------------------
(* The scripts of the unit *)

\* A row write of STATE_DB FEATURE, and the label write that may go with it.
Write(row, label) ==
    /\ db' = row
    /\ labels' = IF label = "unset" THEN labels ELSE [labels EXCEPT ![Feature] = label]
    /\ notes' = notes \union {"STATE FEATURE"}
                      \union (IF label = "unset" THEN {} ELSE {"KUBE_LABELS"})

\* container_id: the feature name for a local owner, or when the field is missing.
ContainerId == IF db.owner = "local" \/ db.id = Unset THEN LocalId ELSE db.id

\* The unit reaches `active`: its main process starts, and a ctrmgrd inside
\* `systemctl restart` returns.
Activate ==
    /\ unit' = [unit EXCEPT !.pc = "active", !.again = TRUE, !.wait = "begin", !.kube = FALSE]
    /\ mgr' = [mgr EXCEPT !.busy = FALSE]

\* Mutant: the fallback looks only for a pending pod.
StartUnlessPending ==
    /\ unit.pc = "start"
    /\ LET kube == cfg.owner = "kube"
           useLocal == ~kube \/ (cfg.fallback /\ db.remote # "pending")
           row == [db EXCEPT !.system = "up",
                             !.remote = IF kube THEN @ ELSE "none",
                             !.owner = IF useLocal THEN "local" ELSE @,
                             !.id = IF useLocal THEN LocalId ELSE @]
       IN  IF useLocal
           THEN /\ Write(row, IF kube THEN "unset" ELSE "false")
                /\ unit' = [unit EXCEPT !.pc = "docker", !.kube = kube]
                /\ UNCHANGED mgr
           ELSE Write(row, "true") /\ Activate
    /\ UNCHANGED <<scene, api, joined, server, link, events, cfg, local, pod>>

\* container_start up to docker start, or to its end when only Kubernetes
\* is to run the feature.
ContainerStart ==
    /\ unit.pc = "start"
    /\ LET kube == cfg.owner = "kube"
           useLocal == ~kube \/ (cfg.fallback /\ db.remote = "none")
           row == [db EXCEPT !.system = "up",
                             !.remote = IF kube THEN @ ELSE "none",
                             !.owner = IF useLocal THEN "local" ELSE @,
                             !.id = IF useLocal THEN LocalId ELSE @]
       IN  IF useLocal
           THEN /\ Write(row, IF kube THEN "unset" ELSE "false")
                /\ unit' = [unit EXCEPT !.pc = "docker", !.kube = kube]
                /\ UNCHANGED mgr
           ELSE Write(row, "true") /\ Activate
    /\ UNCHANGED <<scene, api, joined, server, link, events, cfg, local, pod>>

\* Mutant: the label is written as Python prints a boolean.
StartedAsPrinted ==
    /\ unit.pc = "docker"
    /\ local' = IF local = "down" THEN "boot" ELSE local
    /\ labels' = [labels EXCEPT ![Feature] = IF unit.kube THEN "True" ELSE @]
    /\ notes' = notes \union {"KUBE_LABELS"}
    /\ Activate
    /\ UNCHANGED <<scene, api, joined, server, link, events, cfg, db, pod>>

\* docker start has returned; the label that lets Kubernetes deploy follows.
ContainerStarted ==
    /\ unit.pc = "docker"
    /\ local' = IF local = "down" THEN "boot" ELSE local
    /\ IF unit.kube
       THEN /\ labels' = [labels EXCEPT ![Feature] = "true"]
            /\ notes' = notes \union {"KUBE_LABELS"}
       ELSE UNCHANGED <<labels, notes>>
    /\ Activate
    /\ UNCHANGED <<scene, api, joined, server, link, events, cfg, db, pod>>

\* A pod registers its container's id when its application starts; the
\* container kubelet runs after that one ended has another id.
Alive(id) == IF id = LocalId THEN local # "down" ELSE id \in Pod /\ pod[id] = "app"

\* The main process exits: systemd runs ExecStop, unless it already does,
\* and starts the unit again (Restart=always).
Exit ==
    unit' = [unit EXCEPT !.wait = "off", !.waitId = NoId,
                         !.pc = IF @ = "active" THEN "stop" ELSE @]

\* container_wait up to its poll loop or docker wait.
ContainerWait ==
    /\ unit.wait = "begin"
    /\ unit' = IF ContainerId = NoId THEN [unit EXCEPT !.wait = "poll"]
               ELSE [unit EXCEPT !.wait = "dock", !.waitId = ContainerId]
    /\ UNCHANGED <<linkVars, cfg, db, local, pod, mgr>>

\* Mutant: waits for the feature's name, not for the id that registered.
PollThenName ==
    /\ unit.wait \in {"poll", "late"}
    /\ IF db.remote = "pending"
       THEN Write([db EXCEPT !.remote = "ready"], "unset")
       ELSE UNCHANGED <<db, labels, notes>>
    /\ unit' = IF db.id = NoId THEN [unit EXCEPT !.wait = "late"]
               ELSE [unit EXCEPT !.wait = "dock", !.waitId = LocalId]
    /\ UNCHANGED <<scene, api, joined, server, link, events, cfg, local, pod, mgr>>

\* One round of the poll loop: answer a pending pod, leave the loop once a
\* container has registered its id.
WaitPoll ==
    /\ unit.wait \in {"poll", "late"}
    /\ IF db.remote = "pending"
       THEN Write([db EXCEPT !.remote = "ready"], "unset")
       ELSE UNCHANGED <<db, labels, notes>>
    /\ unit' = IF db.id = NoId THEN [unit EXCEPT !.wait = "late"]
               ELSE [unit EXCEPT !.wait = "dock", !.waitId = db.id]
    /\ UNCHANGED <<scene, api, joined, server, link, events, cfg, local, pod, mgr>>

\* Mutant: exits without clearing remote_state.
TimeoutKeepsState ==
    /\ unit.wait = "late"
    /\ cfg.fallback
    /\ db.id = NoId
    /\ Exit
    /\ UNCHANGED <<linkVars, cfg, db, local, pod, mgr>>

\* The last round: the wait for Kubernetes is over, fall back to local.
WaitTimeout ==
    /\ unit.wait = "late"
    /\ cfg.fallback
    /\ db.id = NoId
    /\ Write([db EXCEPT !.remote = "none"], "unset")
    /\ Exit
    /\ UNCHANGED <<scene, api, joined, server, link, events, cfg, local, pod, mgr>>

\* docker wait returns once the container is gone.
WaitExit ==
    /\ unit.wait = "dock"
    /\ ~Alive(unit.waitId)
    /\ Exit
    /\ UNCHANGED <<linkVars, cfg, db, local, pod, mgr>>

\* The end of container_stop, with the remote_state it read at its beginning;
\* systemd then kills what is left of `container wait`.
Stopped(remote, label) ==
    /\ Write([db EXCEPT !.owner = "none", !.id = NoId, !.system = "down",
                        !.remote = IF remote = "running" THEN "stopped" ELSE @], label)
    /\ unit' = [unit EXCEPT !.pc = IF unit.again THEN "start" ELSE "dead",
                            !.wait = "off", !.waitId = NoId,
                            !.stopId = NoId, !.stopRemote = "none"]

\* Mutant: the label stays when the owner is Kubernetes.
StopKeepsLabel ==
    /\ unit.pc = "stop"
    /\ LET label == IF cfg.owner = "local" THEN "false" ELSE "unset"
       IN  IF ContainerId = NoId
           THEN Stopped(db.remote, label)
           ELSE /\ unit' = [unit EXCEPT !.pc = "stopping", !.stopId = ContainerId,
                                        !.stopRemote = db.remote]
                /\ labels' = IF label = "unset" THEN labels ELSE [labels EXCEPT ![Feature] = label]
                /\ notes' = notes \union IF label = "unset" THEN {} ELSE {"KUBE_LABELS"}
                /\ UNCHANGED db
    /\ UNCHANGED <<scene, api, joined, server, link, events, cfg, local, pod, mgr>>

\* container_stop up to docker stop: the label goes, unless a Kubernetes
\* upgrade is under way.
ContainerStop ==
    /\ unit.pc = "stop"
    /\ LET label == IF db.remote # "pending" \/ cfg.owner = "local" THEN "false" ELSE "unset"
       IN  IF ContainerId = NoId
           THEN Stopped(db.remote, label)
           ELSE /\ unit' = [unit EXCEPT !.pc = "stopping", !.stopId = ContainerId,
                                        !.stopRemote = db.remote]
                /\ labels' = IF label = "unset" THEN labels ELSE [labels EXCEPT ![Feature] = label]
                /\ notes' = notes \union IF label = "unset" THEN {} ELSE {"KUBE_LABELS"}
                /\ UNCHANGED db
    /\ UNCHANGED <<scene, api, joined, server, link, events, cfg, local, pod, mgr>>

\* docker stop and docker kill end the container with this id.
Kill(id) ==
    /\ local' = IF id = LocalId THEN "down" ELSE local
    /\ pod' = [p \in Pod |-> IF p = id /\ pod[p] = "app" THEN "none" ELSE pod[p]]

\* docker stop has returned.
ContainerStopped ==
    /\ unit.pc = "stopping"
    /\ Kill(unit.stopId)
    /\ Stopped(unit.stopRemote, "unset")
    /\ UNCHANGED <<scene, api, joined, server, link, events, cfg, mgr>>

\* container_kill, run by an operator or a reboot script; with no id there is
\* no container to end, and the label goes all the same.
ContainerKill ==
    /\ Event("kill")
    /\ Kill(ContainerId)
    /\ IF cfg.owner # "local" \/ db.owner # "local"
       THEN /\ labels' = [labels EXCEPT ![Feature] = "false"]
            /\ notes' = notes \union {"KUBE_LABELS"}
       ELSE UNCHANGED <<labels, notes>>
    /\ UNCHANGED <<scene, api, joined, server, link, cfg, db, unit, mgr>>

\* systemctl stop and start by an operator.
UnitStop ==
    /\ Event("stop")
    /\ unit.pc = "active"
    /\ unit' = [unit EXCEPT !.pc = "stop", !.again = FALSE]
    /\ UNCHANGED <<scene, labels, api, joined, server, link, notes, cfg, db, local, pod, mgr>>

UnitStart ==
    /\ unit.pc = "dead"
    /\ unit' = [unit EXCEPT !.pc = "start", !.again = TRUE]
    /\ UNCHANGED <<linkVars, cfg, db, local, pod, mgr>>

---------------------------------------------------------------------------
(* container_startup.py, inside the containers *)

\* container_up of the local image: never blocked; its version is barred
\* from deployment.
LocalUp ==
    /\ local = "boot"
    /\ local' = "app"
    /\ db' = [db EXCEPT !.owner = "local", !.id = LocalId, !.version = LocalVersion]
    /\ labels' = [labels EXCEPT ![LocalVersion] = "false"]
    /\ notes' = notes \union {"STATE FEATURE", "KUBE_LABELS"}
    /\ UNCHANGED <<scene, api, joined, server, link, events, cfg, unit, pod, mgr>>

\* update_state of a pod, after which its application runs.
Running(p) ==
    /\ db' = [db EXCEPT !.owner = "kube", !.id = p, !.version = p, !.remote = "running"]
    /\ pod' = [pod EXCEPT ![p] = "app"]
    /\ notes' = notes \union {"STATE FEATURE"}

\* The checks of container_up that freeze a pod.
Blocked(p) ==
    \/ cfg.owner = "local"
    \/ db.system # "up"
    \/ labels[p] = "false"
    \/ ~ (p > db.version)

\* container_up of a pod up to its first sleep.
PodUp(p) ==
    /\ pod[p] = "boot"
    /\ IF Blocked(p)
       THEN /\ pod' = [pod EXCEPT ![p] = "frozen"]
            /\ UNCHANGED <<db, notes>>
       ELSE IF db.remote = "ready" THEN Running(p)
       ELSE /\ db' = [db EXCEPT !.version = p, !.remote = "pending"]
            /\ pod' = [pod EXCEPT ![p] = "poll"]
            /\ notes' = notes \union {"STATE FEATURE"}
    /\ UNCHANGED <<scene, labels, api, joined, server, link, events, cfg, unit, local, mgr>>

\* One round of container_up's wait: freeze when another version took the
\* row, run when the unit has answered.
PodPoll(p) ==
    /\ pod[p] = "poll"
    /\ IF db.version # p
       THEN /\ pod' = [pod EXCEPT ![p] = "frozen"]
            /\ UNCHANGED <<db, notes>>
       ELSE /\ db.remote = "ready"
            /\ Running(p)
    /\ UNCHANGED <<scene, labels, api, joined, server, link, events, cfg, unit, local, mgr>>

---------------------------------------------------------------------------
(* FeatureTransitionHandler *)

\* handle_update with what the handler remembers.  `systemctl is-active`
\* fails while the unit is activating or deactivating.
HandleUpdate(m, queue) ==
    IF unit.pc # "active"
    THEN mgr' = m /\ notes' = queue /\ UNCHANGED <<labels, unit>>
    ELSE LET restart == IF m.owner = "local" THEN m.st # "local"
                        ELSE m.st # "none" /\ m.remote = "pending"
         IN  /\ labels' = [labels EXCEPT ![Feature] = IF m.owner = "kube" THEN "true" ELSE "false"]
             /\ notes' = queue \union {"KUBE_LABELS"}
             /\ mgr' = [m EXCEPT !.busy = restart]
             /\ unit' = IF restart THEN [unit EXCEPT !.pc = "stop"] ELSE unit

\* Mutant: a changed set_owner is remembered and not acted upon.
OnConfigSilent ==
    /\ ~mgr.busy
    /\ "CONFIG FEATURE" \in notes
    /\ mgr' = [mgr EXCEPT !.owner = cfg.owner]
    /\ notes' = notes \ {"CONFIG FEATURE"}
    /\ UNCHANGED <<scene, labels, api, joined, server, link, events, cfg, db, unit, local, pod>>

\* on_config_update: acts on the first row and on a change of set_owner,
\* once the state row is known.
OnConfig ==
    /\ ~mgr.busy
    /\ "CONFIG FEATURE" \in notes
    /\ LET m == [mgr EXCEPT !.owner = cfg.owner]
           queue == notes \ {"CONFIG FEATURE"}
       IN  IF m.owner # mgr.owner /\ m.st # "init"
           THEN HandleUpdate(m, queue)
           ELSE mgr' = m /\ notes' = queue /\ UNCHANGED <<labels, unit>>
    /\ UNCHANGED <<scene, api, joined, server, link, events, cfg, db, local, pod>>

\* on_state_update: acts on the first row and when remote_state becomes
\* "pending", once the configuration row is known.
OnState ==
    /\ ~mgr.busy
    /\ "STATE FEATURE" \in notes
    /\ LET m == [mgr EXCEPT !.st = db.owner, !.remote = db.remote]
           queue == notes \ {"STATE FEATURE"}
           act == mgr.st = "init" \/ (db.remote # mgr.remote /\ db.remote = "pending")
       IN  IF act /\ m.owner # "init"
           THEN HandleUpdate(m, queue)
           ELSE mgr' = m /\ notes' = queue /\ UNCHANGED <<labels, unit>>
    /\ UNCHANGED <<scene, api, joined, server, link, events, cfg, db, local, pod>>

\* The other handlers of the same thread.
MgrServer == ~mgr.busy /\ OnServer /\ UNCHANGED ownerVars
MgrJoinTimer == ~mgr.busy /\ JoinTimer /\ UNCHANGED ownerVars
MgrLabels == ~mgr.busy /\ OnLabels /\ UNCHANGED ownerVars
MgrLabelTimer == ~mgr.busy /\ LabelTimer /\ UNCHANGED ownerVars

\* ctrmgrd starts again; RestartSec passes before, in which it does nothing.
Fresh ==
    /\ Construct
    /\ mgr' = [owner |-> "init", st |-> "init", remote |-> "none", busy |-> FALSE]
    /\ UNCHANGED <<scene, labels, server, cfg, db, unit, local, pod>>

\* Restarted by an operator, or (Restart=always) after the exception of a
\* label update that could not read the node's labels.
MgrRestart == Event("restart") /\ Fresh
MgrDies == ~mgr.busy /\ LabelsDue /\ ReadFails /\ Fresh

---------------------------------------------------------------------------
(* Environment *)

\* An operator changes set_owner.
SetOwner ==
    /\ Event("owner")
    /\ cfg' = [cfg EXCEPT !.owner = IF @ = "local" THEN "kube" ELSE "local"]
    /\ notes' = notes \union {"CONFIG FEATURE"}
    /\ UNCHANGED <<scene, labels, api, joined, server, link, db, unit, local, pod, mgr>>

\* Kubernetes may deploy a version the node's labels allow.
Wanted(p) == joined /\ api[Feature] = "true" /\ api[p] # "false"

Deploy(p) ==
    /\ pod[p] = "none"
    /\ "upgrade" \in scene.may \/ \A q \in Pod : p <= q
    /\ Wanted(p)
    /\ pod' = [pod EXCEPT ![p] = "boot"]
    /\ UNCHANGED <<linkVars, cfg, db, unit, local, mgr>>

\* A pod ends because the labels no longer ask for it, or (event "withdraw")
\* because the master withdrew it or it crashed.
Undeploy(p) ==
    /\ pod[p] # "none"
    /\ ~Wanted(p) \/ "withdraw" \in scene.may
    /\ pod' = [pod EXCEPT ![p] = "none"]
    /\ UNCHANGED <<linkVars, cfg, db, unit, local, mgr>>

LocalCrash ==
    /\ "crash" \in scene.may
    /\ local = "app"
    /\ local' = "down"
    /\ UNCHANGED <<linkVars, cfg, db, unit, pod, mgr>>

Scripts ==
    \/ ContainerStart \/ ContainerStarted
    \/ ContainerWait \/ WaitPoll \/ WaitTimeout \/ WaitExit
    \/ ContainerStop \/ ContainerStopped

Ctrmgrd ==
    \/ OnConfig \/ OnState
    \/ MgrServer \/ MgrJoinTimer \/ MgrLabels \/ MgrLabelTimer

Next ==
    \/ Scripts
    \/ Ctrmgrd
    \/ MgrRestart \/ MgrDies
    \/ LocalUp
    \/ \E p \in Pod : PodUp(p) \/ PodPoll(p) \/ Deploy(p) \/ Undeploy(p)
    \/ ContainerKill \/ UnitStop \/ UnitStart
    \/ SetOwner
    \/ SetServer /\ UNCHANGED ownerVars
    \/ LocalCrash

Spec == Init /\ [][Next]_vars

\* Every script that is waiting for nothing but its turn, its docker command
\* or its timer goes on; ctrmgrd's loop pops every subscriber and runs its
\* timers; kubelet ends a pod whose label is gone.
Fairness ==
    /\ WF_vars(ContainerStart) /\ WF_vars(ContainerStarted)
    /\ WF_vars(ContainerWait) /\ WF_vars(WaitPoll) /\ WF_vars(WaitTimeout) /\ WF_vars(WaitExit)
    /\ WF_vars(ContainerStop) /\ WF_vars(ContainerStopped)
    /\ SF_vars(OnConfig) /\ SF_vars(OnState) /\ SF_vars(MgrServer) /\ SF_vars(MgrLabels)
    /\ WF_vars(MgrJoinTimer) /\ WF_vars(MgrLabelTimer)
    /\ WF_vars(~joined /\ MgrDies)
    /\ WF_vars(LocalUp)
    /\ \A p \in Pod : /\ WF_vars(PodUp(p)) /\ WF_vars(PodPoll(p))
                      /\ WF_vars(~Wanted(p) /\ Undeploy(p))

FairSpec == Spec /\ Fairness

---------------------------------------------------------------------------
(* Properties *)

\* The containers whose application runs (their container_up returned).
App == {id \in Pod \union {LocalId} : IF id = LocalId THEN local = "app" ELSE pod[id] = "app"}

\* One instance of the feature runs at a time: the application of at most one
\* container, local or deployed, is past container_up.
OneApp == Cardinality(App) <= 1

\* The hand-over between the local image and one deployed version, in both
\* directions and across timeouts, crashes, `systemctl stop`, label failures
\* and ctrmgrd restarts, never lets two applications run: container_start
\* starts nothing while a pod has been or may be answered, and container_up
\* holds a pod until the unit has stopped the local container.  (Not while
\* set_owner changes, and not between two deployed versions: see OneApp.)
Steady == scene.may \intersect {"owner", "upgrade"} = {}
Exclusive == Steady => OneApp

\* A unit in docker wait waits for the container whose application runs, so
\* that its end is noticed: the id container_wait looked up is never stale.
Supervised == Steady /\ unit.wait = "dock" => App \subseteq {unit.waitId}

\* With fallback allowed, the feature is served again and again, whatever
\* Kubernetes does: a pod that never comes, is withdrawn, freezes, or loses
\* its answer ends in container_wait's timeout and a local start.
Served == cfg.fallback => []<>(App # {} \/ unit.pc = "dead")

\* When set_owner stays local, the local image comes back and the deployed
\* ones end, also when the change reaches ctrmgrd while the unit restarts
\* (`systemctl is-active` fails then, and the change is not handled again).
LocalReturns ==
    <>[](cfg.owner = "local" /\ cfg.fallback) =>
        /\ []<>(local = "app" \/ unit.pc = "dead")
        /\ <>[](App \subseteq {LocalId})

\* While a server stays configured, the node's labels at the API server catch
\* up with STATE_DB, through failed joins, failed and half-done label writes,
\* resets and restarts of ctrmgrd.
LabelsReach == <>[]server => []<>(\A l \in Label : labels[l] \in {"unset", api[l]})

\* `systemctl stop` ends the feature for good: no pod that was answered
\* before the stop keeps running.
StopHolds == <>[](unit.pc = "dead") => <>[](App = {})

============================================================================
