------------------------ MODULE FeatureOwner_proofs ------------------------
(* Proofs about the hand-over of a feature, for any set of versions. *)
EXTENDS FeatureOwner, FiniteSetTheorems, TLAPS

OwnerTypeOK ==
    /\ cfg \in [owner : Owner, fallback : BOOLEAN]
    /\ db \in Row
    /\ unit \in Unit
    /\ local \in {"down", "boot", "app"}
    /\ pod \in [Pod -> {"none", "boot", "poll", "app", "frozen"}]

\* Kubernetes deploys one version, and it does not come up for a local owner.
PodsHeld ==
    /\ \A p \in Pod : pod[p] # "none" => \A q \in Pod : p <= q
    /\ cfg.owner = "local" => \A p \in Pod : pod[p] \in {"none", "boot", "frozen"}

\* Where the main process of the unit may be.
WaitPlace ==
    /\ unit.pc \in {"start", "docker", "dead"} => unit.wait = "off"
    /\ unit.wait \in {"poll", "late"} => db.owner # "local" /\ db.id \in {NoId} \union Pod
    /\ unit.wait = "dock" => unit.waitId = ContainerId

\* Whose id is in the row: the local container's as long as it is up or being
\* started; a pod's once it runs; and nobody's when a pod has been answered.
RowTells ==
    /\ unit.pc = "docker" \/ local # "down" => db.owner = "local" /\ db.id = LocalId
    /\ db.id \in Pod => db.owner = "kube" /\ db.remote = "running" /\ db.version = db.id
    /\ db.remote = "ready" => db.owner # "local" /\ db.id = NoId /\ unit.wait # "dock"
    /\ \A p \in Pod : pod[p] = "app" => db.id = p

\* What `container stop` read stays right until docker stop has returned.
StopRight == unit.pc = "stopping" => unit.stopId = ContainerId /\ unit.stopId # NoId

Core == PodsHeld /\ WaitPlace /\ RowTells /\ StopRight
Inv == OwnerTypeOK /\ (Steady => Core)

LEMMA Ids ==
    /\ MaxVersion \in Nat /\ 1 \in 0..MaxVersion
    /\ LocalId \notin Pod /\ Unset \notin Pod /\ NoId \notin Pod
    /\ LocalId # NoId /\ LocalId # Unset /\ Unset # NoId
    /\ Pod \subseteq 1..MaxVersion /\ Pod \subseteq Id /\ LocalId \in Id /\ NoId \in Id /\ Unset \in Id
BY LabelBounds, OwnerBounds DEF LocalId, Unset, NoId, Id

LEMMA InitInv == Init => Inv
<1> SUFFICES ASSUME Init PROVE Inv
    BY Zenon
<1>1. OwnerTypeOK
    <2>1. cfg \in [owner : Owner, fallback : BOOLEAN]
        BY ZenonT(40) DEF Init
    <2>2. db \in Row
        <3>1. 0 \in 0..MaxVersion
            BY Ids
        <3>2. QED
            BY <3>1, Ids, ZenonT(40) DEF Init, Row, Remote
    <2>3. unit \in Unit
        BY Ids, ZenonT(40) DEF Init, Unit, Remote
    <2>4. QED
        BY <2>1, <2>2, <2>3, ZenonT(40) DEF Init, OwnerTypeOK
<1>2. Core
    BY Ids, ZenonT(40) DEF Init, Core, PodsHeld, WaitPlace, RowTells, StopRight
<1>3. QED
    BY <1>1, <1>2, Zenon DEF Inv

\* Steps that change nothing the invariant looks at, but perhaps end a poll of
\* the unit's main process or make an active unit stop.
LEMMA UnitStep ==
    ASSUME Inv, scene' = scene, cfg' = cfg, db' = db, local' = local, pod' = pod,
           unit' \in Unit, unit'.stopId = unit.stopId,
           unit'.pc = unit.pc \/ (unit.pc = "active" /\ unit'.pc = "stop"),
           unit'.wait = "off" \/ (unit'.wait = unit.wait /\ unit'.waitId = unit.waitId)
    PROVE  Inv'
<1>1. OwnerTypeOK'
    BY Zenon DEF Inv, OwnerTypeOK
<1>2. ASSUME Steady' PROVE Core'
    <2>1. Core
        BY <1>2, Zenon DEF Steady, Inv
    <2>2. PodsHeld'
        BY <2>1, Zenon DEF Core, PodsHeld
    <2>3. WaitPlace'
        BY <2>1, Zenon DEF Core, WaitPlace, ContainerId
    <2>4. RowTells'
        BY <2>1, Zenon DEF Core, RowTells
    <2>5. StopRight'
        BY <2>1, Zenon DEF Core, StopRight, ContainerId
    <2>6. QED
        BY <2>2, <2>3, <2>4, <2>5, Zenon DEF Core
<1>3. QED
    BY <1>1, <1>2, Zenon DEF Inv

LEMMA StartStep == ASSUME Inv, ContainerStart PROVE Inv'
<1> DEFINE kube == cfg.owner = "kube"
           useLocal == ~kube \/ (cfg.fallback /\ db.remote = "none")
           row == [db EXCEPT !.system = "up",
                             !.remote = IF kube THEN @ ELSE "none",
                             !.owner = IF useLocal THEN "local" ELSE @,
                             !.id = IF useLocal THEN LocalId ELSE @]
<1>1. /\ scene' = scene /\ cfg' = cfg /\ local' = local /\ pod' = pod
      /\ unit.pc = "start" /\ db' = row
      /\ unit' = IF useLocal THEN [unit EXCEPT !.pc = "docker", !.kube = kube]
                 ELSE [unit EXCEPT !.pc = "active", !.again = TRUE, !.wait = "begin", !.kube = FALSE]
    BY ZenonT(40) DEF ContainerStart, Write, Activate
<1>2. /\ db' \in Row /\ db'.version = db.version
      /\ db'.remote = IF kube THEN db.remote ELSE "none"
      /\ db'.owner = IF useLocal THEN "local" ELSE db.owner
      /\ db'.id = IF useLocal THEN LocalId ELSE db.id
    BY <1>1, Ids, ZenonT(40) DEF Inv, OwnerTypeOK, Row, Owner, Remote
<1>3. /\ unit' \in Unit /\ unit'.pc = (IF useLocal THEN "docker" ELSE "active")
      /\ unit'.wait = (IF useLocal THEN unit.wait ELSE "begin")
    BY <1>1, ZenonT(40) DEF Inv, OwnerTypeOK, Unit
<1>4. OwnerTypeOK'
    BY <1>1, <1>2, <1>3, Zenon DEF Inv, OwnerTypeOK
<1>5. ASSUME Steady' PROVE Core'
    <2>1. Core
        BY <1>1, <1>5, Zenon DEF Steady, Inv
    <2>2. PodsHeld'
        BY <2>1, <1>1, Zenon DEF Core, PodsHeld
    <2>3. WaitPlace'
        BY <2>1, <1>1, <1>2, <1>3 DEF Core, WaitPlace
    <2>4. RowTells'
        <3>1. CASE useLocal
            <4>1. \A p \in Pod : pod[p] # "app"
                BY <2>1, <3>1, Ids, Zenon DEF Core, RowTells, PodsHeld, Inv, OwnerTypeOK, Owner
            <4>2. QED
                BY <4>1, <3>1, <1>1, <1>2, <1>3, Ids, <2>1 DEF Core, RowTells, Inv, OwnerTypeOK, Owner
        <3>2. CASE ~useLocal
            BY <3>2, <2>1, <1>1, <1>2, <1>3 DEF Core, RowTells
        <3>3. QED
            BY <3>1, <3>2, Zenon
    <2>5. StopRight'
        BY <1>3, Zenon DEF StopRight
    <2>6. QED
        BY <2>2, <2>3, <2>4, <2>5, Zenon DEF Core
<1>6. QED
    BY <1>4, <1>5, Zenon DEF Inv

LEMMA StartedStep == ASSUME Inv, ContainerStarted PROVE Inv'
<1>1. /\ scene' = scene /\ cfg' = cfg /\ db' = db /\ pod' = pod
      /\ unit.pc = "docker" /\ local' \in {"boot", local}
      /\ unit' = [unit EXCEPT !.pc = "active", !.again = TRUE, !.wait = "begin", !.kube = FALSE]
    BY Zenon DEF ContainerStarted, Activate
<1>2. unit' \in Unit /\ unit'.pc = "active" /\ unit'.wait = "begin"
    BY <1>1, ZenonT(40) DEF Inv, OwnerTypeOK, Unit
<1>3. OwnerTypeOK'
    BY <1>1, <1>2, Zenon DEF Inv, OwnerTypeOK
<1>4. ASSUME Steady' PROVE Core'
    <2>1. Core
        BY <1>1, <1>4, Zenon DEF Steady, Inv
    <2>2. PodsHeld' /\ WaitPlace' /\ StopRight'
        BY <2>1, <1>1, <1>2, Zenon DEF Core, PodsHeld, WaitPlace, StopRight
    <2>3. RowTells'
        BY <2>1, <1>1, <1>2, Zenon DEF Core, RowTells
    <2>4. QED
        BY <2>2, <2>3, Zenon DEF Core
<1>5. QED
    BY <1>3, <1>4, Zenon DEF Inv

LEMMA WaitStep == ASSUME Inv, ContainerWait PROVE Inv'
<1>1. /\ scene' = scene /\ cfg' = cfg /\ db' = db /\ pod' = pod /\ local' = local /\ unit.wait = "begin"
      /\ unit' = IF ContainerId = NoId THEN [unit EXCEPT !.wait = "poll"]
                 ELSE [unit EXCEPT !.wait = "dock", !.waitId = ContainerId]
    BY Zenon DEF ContainerWait, linkVars
<1>2. ContainerId \in Id /\ ContainerId' = ContainerId
    BY <1>1, Ids, ZenonT(40) DEF ContainerId, Inv, OwnerTypeOK, Row
<1>3. /\ unit' \in Unit /\ unit'.pc = unit.pc /\ unit'.stopId = unit.stopId
      /\ \/ ContainerId = NoId /\ unit'.wait = "poll"
         \/ ContainerId # NoId /\ unit'.wait = "dock" /\ unit'.waitId = ContainerId
    BY <1>1, <1>2, ZenonT(40) DEF Inv, OwnerTypeOK, Unit
<1>4. OwnerTypeOK'
    BY <1>1, <1>3, Zenon DEF Inv, OwnerTypeOK
<1>5. ASSUME Steady' PROVE Core'
    <2>1. Core
        BY <1>1, <1>5, Zenon DEF Steady, Inv
    <2>2. PodsHeld' /\ StopRight'
        BY <2>1, <1>1, <1>2, <1>3, Zenon DEF Core, PodsHeld, StopRight
    <2>3. WaitPlace'
        BY <2>1, <1>1, <1>2, <1>3, Ids, ZenonT(40) DEF Core, WaitPlace, ContainerId
    <2>4. RowTells'
        BY <2>1, <1>1, <1>3, Ids, ZenonT(40) DEF Core, RowTells, ContainerId
    <2>5. QED
        BY <2>2, <2>3, <2>4, Zenon DEF Core
<1>6. QED
    BY <1>4, <1>5, Zenon DEF Inv

LEMMA PollStep == ASSUME Inv, WaitPoll PROVE Inv'
<1>1. /\ scene' = scene /\ cfg' = cfg /\ pod' = pod /\ local' = local /\ unit.wait \in {"poll", "late"}
      /\ db' = IF db.remote = "pending" THEN [db EXCEPT !.remote = "ready"] ELSE db
      /\ unit' = IF db.id = NoId THEN [unit EXCEPT !.wait = "late"]
                 ELSE [unit EXCEPT !.wait = "dock", !.waitId = db.id]
    BY ZenonT(40) DEF WaitPoll, Write
<1>2. /\ db' \in Row /\ db'.owner = db.owner /\ db'.id = db.id /\ db'.version = db.version
      /\ db'.remote = IF db.remote = "pending" THEN "ready" ELSE db.remote
    BY <1>1, ZenonT(40) DEF Inv, OwnerTypeOK, Row, Remote
<1>3. /\ unit' \in Unit /\ unit'.pc = unit.pc /\ unit'.stopId = unit.stopId
      /\ \/ db.id = NoId /\ unit'.wait = "late"
         \/ db.id # NoId /\ unit'.wait = "dock" /\ unit'.waitId = db.id
    BY <1>1, ZenonT(40) DEF Inv, OwnerTypeOK, Unit, Row
<1>4. OwnerTypeOK'
    BY <1>1, <1>2, <1>3, Zenon DEF Inv, OwnerTypeOK
<1>5. ASSUME Steady' PROVE Core'
    <2>1. Core
        BY <1>1, <1>5, Zenon DEF Steady, Inv
    <2>2. db.owner # "local" /\ db.id \in {NoId} \union Pod
        BY <2>1, <1>1, Zenon DEF Core, WaitPlace
    <2>3. ContainerId' = ContainerId /\ ContainerId = db.id
        BY <2>2, <1>2, Ids, Zenon DEF ContainerId
    <2>4. PodsHeld' /\ StopRight'
        BY <2>1, <2>3, <1>1, <1>3, Zenon DEF Core, PodsHeld, StopRight
    <2>5. WaitPlace'
        BY <2>1, <2>2, <2>3, <1>1, <1>2, <1>3, ZenonT(40) DEF Core, WaitPlace
    <2>6. RowTells'
        BY <2>1, <2>2, <1>1, <1>2, <1>3, Ids, ZenonT(40) DEF Core, RowTells
    <2>7. QED
        BY <2>4, <2>5, <2>6, Zenon DEF Core
<1>6. QED
    BY <1>4, <1>5, Zenon DEF Inv

LEMMA TimeoutStep == ASSUME Inv, WaitTimeout PROVE Inv'
<1>1. /\ scene' = scene /\ cfg' = cfg /\ pod' = pod /\ local' = local
      /\ unit.wait = "late" /\ db.id = NoId
      /\ db' = [db EXCEPT !.remote = "none"]
      /\ unit' = [unit EXCEPT !.wait = "off", !.waitId = NoId, !.pc = IF @ = "active" THEN "stop" ELSE @]
    BY ZenonT(40) DEF WaitTimeout, Write, Exit
<1>2. /\ db' \in Row /\ db'.owner = db.owner /\ db'.id = db.id /\ db'.version = db.version /\ db'.remote = "none"
    BY <1>1, ZenonT(40) DEF Inv, OwnerTypeOK, Row, Remote
<1>3. /\ unit' \in Unit /\ unit'.stopId = unit.stopId /\ unit'.wait = "off"
      /\ unit'.pc = IF unit.pc = "active" THEN "stop" ELSE unit.pc
    BY <1>1, Ids, ZenonT(40) DEF Inv, OwnerTypeOK, Unit
<1>4. OwnerTypeOK'
    BY <1>1, <1>2, <1>3, Zenon DEF Inv, OwnerTypeOK
<1>5. ASSUME Steady' PROVE Core'
    <2>1. Core
        BY <1>1, <1>5, Zenon DEF Steady, Inv
    <2>2. ContainerId' = ContainerId
        BY <1>2, Zenon DEF ContainerId
    <2>3. PodsHeld' /\ StopRight' /\ WaitPlace'
        BY <2>1, <2>2, <1>1, <1>3 DEF Core, PodsHeld, StopRight, WaitPlace
    <2>4. RowTells'
        BY <2>1, <1>1, <1>2, <1>3, Ids DEF Core, RowTells
    <2>5. QED
        BY <2>3, <2>4, Zenon DEF Core
<1>6. QED
    BY <1>4, <1>5, Zenon DEF Inv

LEMMA ExitStep == ASSUME Inv, WaitExit PROVE Inv'
<1>1. /\ scene' = scene /\ cfg' = cfg /\ db' = db /\ pod' = pod /\ local' = local
      /\ unit' = [unit EXCEPT !.wait = "off", !.waitId = NoId, !.pc = IF @ = "active" THEN "stop" ELSE @]
    BY Zenon DEF WaitExit, Exit, linkVars
<1>2. /\ unit' \in Unit /\ unit'.stopId = unit.stopId /\ unit'.wait = "off"
      /\ unit'.pc = unit.pc \/ (unit.pc = "active" /\ unit'.pc = "stop")
    BY <1>1, Ids, ZenonT(40) DEF Inv, OwnerTypeOK, Unit
<1>3. QED
    BY <1>1, <1>2, UnitStep, Zenon

\* The end of container_stop, once the container it names is gone.
LEMMA StoppedStep ==
    ASSUME Inv, NEW remote, NEW label, Stopped(remote, label), scene' = scene, cfg' = cfg,
           local' \in {"down", local}, pod' \in [Pod -> {"none", "boot", "poll", "app", "frozen"}],
           \A p \in Pod : pod'[p] \in {"none", pod[p]},
           Steady => local' = "down" /\ \A p \in Pod : pod'[p] # "app"
    PROVE  Inv'
<1>1. /\ db' = [db EXCEPT !.owner = "none", !.id = NoId, !.system = "down",
                          !.remote = IF remote = "running" THEN "stopped" ELSE @]
      /\ unit' = [unit EXCEPT !.pc = IF unit.again THEN "start" ELSE "dead",
                              !.wait = "off", !.waitId = NoId, !.stopId = NoId, !.stopRemote = "none"]
    BY ZenonT(40) DEF Stopped, Write
<1>2. db' \in Row /\ db'.owner = "none" /\ db'.id = NoId
    BY <1>1, Ids, ZenonT(40) DEF Inv, OwnerTypeOK, Row, Remote
<1>3. unit' \in Unit /\ unit'.pc \in {"start", "dead"} /\ unit'.wait = "off"
    BY <1>1, Ids, ZenonT(40) DEF Inv, OwnerTypeOK, Unit, Remote
<1>4. OwnerTypeOK'
    BY <1>2, <1>3, Zenon DEF Inv, OwnerTypeOK
<1>5. ASSUME Steady' PROVE Core'
    <2>1. Core /\ local' = "down" /\ \A p \in Pod : pod'[p] # "app"
        BY <1>5, Zenon DEF Steady, Inv
    <2>2. PodsHeld' /\ StopRight' /\ WaitPlace'
        BY <2>1, <1>3, Zenon DEF Core, PodsHeld, StopRight, WaitPlace
    <2>3. RowTells'
        BY <2>1, <1>2, <1>3, Ids, ZenonT(40) DEF RowTells
    <2>4. QED
        BY <2>2, <2>3, Zenon DEF Core
<1>6. QED
    BY <1>4, <1>5, Zenon DEF Inv

LEMMA StopStep == ASSUME Inv, ContainerStop PROVE Inv'
<1>1. scene' = scene /\ cfg' = cfg /\ local' = local /\ pod' = pod /\ unit.pc = "stop"
    BY Zenon DEF ContainerStop
<1>2. CASE ContainerId = NoId
    <2>1. PICK label : Stopped(db.remote, label)
        BY <1>2, Zenon DEF ContainerStop
    <2>2. Steady => local = "down" /\ \A p \in Pod : pod[p] # "app"
        BY <1>2, Ids, ZenonT(40) DEF Inv, Core, RowTells, ContainerId
    <2>3. QED
        BY <1>1, <2>1, <2>2, StoppedStep, Zenon DEF Inv, OwnerTypeOK
<1>3. CASE ContainerId # NoId
    <2>1. /\ db' = db
          /\ unit' = [unit EXCEPT !.pc = "stopping", !.stopId = ContainerId, !.stopRemote = db.remote]
        BY <1>3, Zenon DEF ContainerStop
    <2>2. ContainerId \in Id /\ ContainerId' = ContainerId
        BY <2>1, Ids, ZenonT(40) DEF ContainerId, Inv, OwnerTypeOK, Row
    <2>3. /\ unit' \in Unit /\ unit'.pc = "stopping" /\ unit'.stopId = ContainerId
          /\ unit'.wait = unit.wait /\ unit'.waitId = unit.waitId
        BY <2>1, <2>2, ZenonT(40) DEF Inv, OwnerTypeOK, Unit, Row
    <2>4. OwnerTypeOK'
        BY <1>1, <2>1, <2>3, Zenon DEF Inv, OwnerTypeOK
    <2>5. ASSUME Steady' PROVE Core'
        <3>1. Core
            BY <1>1, <2>5, Zenon DEF Steady, Inv
        <3>2. QED
            BY <3>1, <1>1, <1>3, <2>1, <2>2, <2>3, ZenonT(40) DEF Core, PodsHeld, StopRight, WaitPlace, RowTells
    <2>6. QED
        BY <2>4, <2>5, Zenon DEF Inv
<1>4. QED
    BY <1>2, <1>3, Zenon

LEMMA StopReturns == ASSUME Inv, ContainerStopped PROVE Inv'
<1>1. /\ scene' = scene /\ cfg' = cfg /\ unit.pc = "stopping" /\ Stopped(unit.stopRemote, "unset")
      /\ local' = IF unit.stopId = LocalId THEN "down" ELSE local
      /\ pod' = [p \in Pod |-> IF p = unit.stopId /\ pod[p] = "app" THEN "none" ELSE pod[p]]
    BY Zenon DEF ContainerStopped, Kill
<1>2. /\ local' \in {"down", local} /\ pod' \in [Pod -> {"none", "boot", "poll", "app", "frozen"}]
      /\ \A p \in Pod : pod'[p] \in {"none", pod[p]}
    BY <1>1, Zenon DEF Inv, OwnerTypeOK
<1>3. ASSUME Steady PROVE local' = "down" /\ \A p \in Pod : pod'[p] # "app"
    <2>1. unit.stopId = ContainerId /\ RowTells
        BY <1>1, <1>3, Zenon DEF Inv, Core, StopRight
    <2>2. local # "down" => unit.stopId = LocalId
        BY <2>1, Zenon DEF RowTells, ContainerId
    <2>3. \A p \in Pod : pod[p] = "app" => unit.stopId = p
        BY <2>1, Ids, Zenon DEF RowTells, ContainerId
    <2>4. QED
        BY <1>1, <2>2, <2>3, Zenon
<1>4. QED
    BY <1>1, <1>2, <1>3, StoppedStep, Zenon

\* A container, or a pod, ends.
LEMMA GoneStep ==
    ASSUME Inv, scene' = scene, cfg' = cfg, db' = db, unit' = unit,
           local' \in {"down", local}, pod' \in [Pod -> {"none", "boot", "poll", "app", "frozen"}],
           \A p \in Pod : pod'[p] \in {"none", pod[p]}
    PROVE  Inv'
<1>1. OwnerTypeOK'
    BY Zenon DEF Inv, OwnerTypeOK
<1>2. ASSUME Steady' PROVE Core'
    <2>1. Core
        BY <1>2, Zenon DEF Steady, Inv
    <2>2. QED
        BY <2>1, ZenonT(40) DEF Core, PodsHeld, StopRight, WaitPlace, RowTells, ContainerId
<1>3. QED
    BY <1>1, <1>2, Zenon DEF Inv

LEMMA LocalUpStep == ASSUME Inv, LocalUp PROVE Inv'
<1>1. /\ scene' = scene /\ cfg' = cfg /\ unit' = unit /\ pod' = pod /\ local = "boot" /\ local' = "app"
      /\ db' = [db EXCEPT !.owner = "local", !.id = LocalId, !.version = LocalVersion]
    BY ZenonT(40) DEF LocalUp
<1>2. /\ db' \in Row /\ db'.owner = "local" /\ db'.id = LocalId /\ db'.remote = db.remote
    BY <1>1, Ids, ZenonT(40) DEF Inv, OwnerTypeOK, Row, Owner, LocalVersion
<1>3. OwnerTypeOK'
    BY <1>1, <1>2, Zenon DEF Inv, OwnerTypeOK
<1>4. ASSUME Steady' PROVE Core'
    <2>1. Core
        BY <1>1, <1>4, Zenon DEF Steady, Inv
    <2>2. db.owner = "local" /\ db.id = LocalId /\ ContainerId' = ContainerId
        BY <2>1, <1>1, <1>2, Zenon DEF Core, RowTells, ContainerId
    <2>3. PodsHeld' /\ StopRight' /\ WaitPlace'
        BY <2>1, <2>2, <1>1, <1>2, ZenonT(40) DEF Core, PodsHeld, StopRight, WaitPlace
    <2>4. RowTells'
        BY <2>1, <2>2, <1>1, <1>2, Ids, ZenonT(40) DEF Core, RowTells
    <2>5. QED
        BY <2>3, <2>4, Zenon DEF Core
<1>5. QED
    BY <1>3, <1>4, Zenon DEF Inv

\* A pod runs: it was answered, and no version but its own is deployed.
LEMMA RunningStep ==
    ASSUME Inv, NEW p \in Pod, Running(p), db.remote = "ready", scene' = scene, cfg' = cfg, unit' = unit, local' = local,
           pod[p] # "none", cfg.owner = "local" => pod[p] = "poll"
    PROVE  Inv'
<1>1. /\ db' = [db EXCEPT !.owner = "kube", !.id = p, !.version = p, !.remote = "running"]
      /\ pod' = [pod EXCEPT ![p] = "app"]
    BY ZenonT(40) DEF Running
<1>2. /\ db' \in Row /\ db'.owner = "kube" /\ db'.id = p /\ db'.version = p /\ db'.remote = "running"
    <2>1. p \in Id /\ p \in 0..MaxVersion
        BY Ids
    <2>2. QED
        BY <1>1, <2>1, ZenonT(40) DEF Inv, OwnerTypeOK, Row, Owner, Remote
<1>3. /\ pod' \in [Pod -> {"none", "boot", "poll", "app", "frozen"}] /\ pod'[p] = "app"
      /\ \A q \in Pod \ {p} : pod'[q] = pod[q]
    BY <1>1, Zenon DEF Inv, OwnerTypeOK
<1>4. OwnerTypeOK'
    BY <1>2, <1>3, Zenon DEF Inv, OwnerTypeOK
<1>5. ASSUME Steady' PROVE Core'
    <2>1. Core
        BY <1>5, Zenon DEF Steady, Inv
    <2>2. /\ db.owner # "local" /\ db.id = NoId /\ unit.wait # "dock" /\ ContainerId = NoId
          /\ local = "down" /\ unit.pc # "docker" /\ \A q \in Pod : pod[q] # "app"
        BY <2>1, Ids, Zenon DEF Core, RowTells, ContainerId
    <2>3. PodsHeld'
        BY <2>1, <1>3, Zenon DEF Core, PodsHeld
    <2>4. WaitPlace' /\ StopRight'
        BY <2>1, <2>2, <1>2, Zenon DEF Core, WaitPlace, StopRight
    <2>5. RowTells'
        BY <2>2, <1>2, <1>3, Ids, ZenonT(40) DEF RowTells
    <2>6. QED
        BY <2>3, <2>4, <2>5, Zenon DEF Core
<1>6. QED
    BY <1>4, <1>5, Zenon DEF Inv

\* A pod freezes, or is deployed.
LEMMA QuietStep ==
    ASSUME Inv, NEW p \in Pod, NEW v \in {"boot", "frozen"}, pod' = [pod EXCEPT ![p] = v],
           Steady => \A q \in Pod : p <= q,
           scene' = scene, cfg' = cfg, db' = db, unit' = unit, local' = local
    PROVE  Inv'
<1>1. /\ pod' \in [Pod -> {"none", "boot", "poll", "app", "frozen"}] /\ pod'[p] = v
      /\ \A q \in Pod \ {p} : pod'[q] = pod[q]
    BY Zenon DEF Inv, OwnerTypeOK
<1>2. OwnerTypeOK'
    BY <1>1, Zenon DEF Inv, OwnerTypeOK
<1>3. ASSUME Steady' PROVE Core'
    <2>1. Core /\ \A q \in Pod : p <= q
        BY <1>3, Zenon DEF Steady, Inv
    <2>2. PodsHeld'
        BY <2>1, <1>1, ZenonT(40) DEF Core, PodsHeld
    <2>3. RowTells'
        BY <2>1, <1>1, Zenon DEF Core, RowTells
    <2>4. WaitPlace' /\ StopRight'
        BY <2>1, Zenon DEF Core, WaitPlace, StopRight, ContainerId
    <2>5. QED
        BY <2>2, <2>3, <2>4, Zenon DEF Core
<1>4. QED
    BY <1>2, <1>3, Zenon DEF Inv

LEMMA PodUpStep == ASSUME Inv, NEW p \in Pod, PodUp(p) PROVE Inv'
<1>1. scene' = scene /\ cfg' = cfg /\ unit' = unit /\ local' = local /\ pod[p] = "boot"
    BY ZenonT(40) DEF PodUp
<1>2. Steady => \A q \in Pod : p <= q
    BY <1>1, Zenon DEF Inv, Core, PodsHeld
<1>3. CASE Blocked(p)
    BY <1>1, <1>2, <1>3, QuietStep, Zenon DEF PodUp
<1>4. CASE ~Blocked(p) /\ db.remote = "ready"
    BY <1>1, <1>4, RunningStep, Zenon DEF PodUp, Blocked
<1>5. CASE ~Blocked(p) /\ db.remote # "ready"
    <2>1. /\ db' = [db EXCEPT !.version = p, !.remote = "pending"]
          /\ pod' = [pod EXCEPT ![p] = "poll"]
        BY <1>5, ZenonT(40) DEF PodUp
    <2>2. p \in 0..MaxVersion /\ cfg.owner # "local" /\ p > db.version
        BY <1>5, Ids DEF Blocked
    <2>3. /\ db' \in Row /\ db'.owner = db.owner /\ db'.id = db.id /\ db'.remote = "pending"
        BY <2>1, <2>2, ZenonT(40) DEF Inv, OwnerTypeOK, Row, Remote
    <2>4. /\ pod' \in [Pod -> {"none", "boot", "poll", "app", "frozen"}] /\ pod'[p] = "poll"
          /\ \A q \in Pod \ {p} : pod'[q] = pod[q]
        BY <2>1, Zenon DEF Inv, OwnerTypeOK
    <2>5. OwnerTypeOK'
        BY <1>1, <2>3, <2>4, Zenon DEF Inv, OwnerTypeOK
    <2>6. ASSUME Steady' PROVE Core'
        <3>1. Core /\ \A q \in Pod : p <= q
            BY <1>1, <1>2, <2>6, Zenon DEF Steady, Inv
        <3>2. db.id \notin Pod
            <4>1. ASSUME db.id \in Pod PROVE FALSE
                <5>1. db.version = db.id /\ p <= db.id
                    BY <3>1, <4>1, Zenon DEF Core, RowTells
                <5>2. \A q \in Pod : q \in Nat
                    BY Ids
                <5>3. db.id \in Nat /\ p \in Nat
                    BY <5>2, <4>1, Zenon
                <5>4. QED
                    BY <5>1, <5>3, <2>2, SMTT(40)
            <4>2. QED
                BY <4>1, Zenon
        <3>3. PodsHeld'
            BY <3>1, <1>1, <2>2, <2>4, Zenon DEF Core, PodsHeld
        <3>4. RowTells'
            BY <3>1, <3>2, <1>1, <2>3, <2>4, ZenonT(40) DEF Core, RowTells
        <3>5. WaitPlace' /\ StopRight'
            BY <3>1, <1>1, <2>3, Zenon DEF Core, WaitPlace, StopRight, ContainerId
        <3>6. QED
            BY <3>3, <3>4, <3>5, Zenon DEF Core
    <2>7. QED
        BY <2>5, <2>6, Zenon DEF Inv
<1>6. QED
    BY <1>3, <1>4, <1>5, Zenon

LEMMA PodPollStep == ASSUME Inv, NEW p \in Pod, PodPoll(p) PROVE Inv'
<1>1. scene' = scene /\ cfg' = cfg /\ unit' = unit /\ local' = local /\ pod[p] = "poll"
    BY Zenon DEF PodPoll
<1>2. Steady => \A q \in Pod : p <= q
    BY <1>1, Zenon DEF Inv, Core, PodsHeld
<1>3. CASE db.version # p
    BY <1>1, <1>2, <1>3, QuietStep, Zenon DEF PodPoll
<1>4. CASE db.version = p
    BY <1>1, <1>4, RunningStep, Zenon DEF PodPoll
<1>5. QED
    BY <1>3, <1>4, Zenon

\* ctrmgrd writes labels and what it remembers; it can only make an active
\* unit stop.
LEMMA HandleStep ==
    ASSUME Inv, NEW m, NEW queue, HandleUpdate(m, queue), scene' = scene, cfg' = cfg, db' = db, local' = local,
           pod' = pod
    PROVE  Inv'
<1>1. unit' = unit \/ (unit.pc = "active" /\ unit' = [unit EXCEPT !.pc = "stop"])
    BY Zenon DEF HandleUpdate
<1>2. /\ unit' \in Unit /\ unit'.stopId = unit.stopId /\ unit'.wait = unit.wait /\ unit'.waitId = unit.waitId
      /\ unit'.pc = unit.pc \/ (unit.pc = "active" /\ unit'.pc = "stop")
    BY <1>1, ZenonT(40) DEF Inv, OwnerTypeOK, Unit
<1>3. QED
    BY <1>2, UnitStep, Zenon

LEMMA SameStep ==
    ASSUME Inv, scene' = scene, cfg' = cfg, db' = db, local' = local, pod' = pod, unit' = unit
    PROVE  Inv'
BY UnitStep, Zenon DEF Inv, OwnerTypeOK

LEMMA CtrmgrdStep == ASSUME Inv, Ctrmgrd \/ MgrRestart \/ MgrDies PROVE Inv'
<1>1. CASE OnConfig
    BY <1>1, HandleStep, SameStep, ZenonT(40) DEF OnConfig
<1>2. CASE OnState
    BY <1>2, HandleStep, SameStep, ZenonT(40) DEF OnState
<1>3. CASE MgrServer \/ MgrJoinTimer \/ MgrLabels \/ MgrLabelTimer
    BY <1>3, SameStep, Zenon DEF MgrServer, MgrJoinTimer, MgrLabels, MgrLabelTimer, OnServer, JoinTimer, OnLabels, LabelTimer,
                          ownerVars
<1>4. CASE MgrRestart \/ MgrDies
    BY <1>4, SameStep, Zenon DEF MgrRestart, MgrDies, Fresh
<1>5. QED
    BY <1>1, <1>2, <1>3, <1>4, Zenon DEF Ctrmgrd

LEMMA OperatorStep == ASSUME Inv, ContainerKill \/ UnitStop \/ UnitStart \/ SetOwner PROVE Inv'
<1>1. CASE ContainerKill
    <2>1. /\ scene' = scene /\ cfg' = cfg /\ db' = db /\ unit' = unit
          /\ local' = IF ContainerId = LocalId THEN "down" ELSE local
          /\ pod' = [p \in Pod |-> IF p = ContainerId /\ pod[p] = "app" THEN "none" ELSE pod[p]]
        BY <1>1, Zenon DEF ContainerKill, Kill
    <2>2. /\ local' \in {"down", local} /\ pod' \in [Pod -> {"none", "boot", "poll", "app", "frozen"}]
          /\ \A p \in Pod : pod'[p] \in {"none", pod[p]}
        BY <2>1, Zenon DEF Inv, OwnerTypeOK
    <2>3. QED
        BY <2>1, <2>2, GoneStep, Zenon
<1>2. CASE UnitStop
    <2>1. /\ unit' \in Unit /\ unit'.stopId = unit.stopId /\ unit'.wait = unit.wait /\ unit'.waitId = unit.waitId
          /\ unit.pc = "active" /\ unit'.pc = "stop"
        BY <1>2, ZenonT(40) DEF UnitStop, Inv, OwnerTypeOK, Unit
    <2>2. QED
        BY <1>2, <2>1, UnitStep, Zenon DEF UnitStop
<1>3. CASE UnitStart
    <2>1. /\ scene' = scene /\ cfg' = cfg /\ db' = db /\ local' = local /\ pod' = pod
          /\ unit.pc = "dead" /\ unit' = [unit EXCEPT !.pc = "start", !.again = TRUE]
        BY <1>3, Zenon DEF UnitStart, linkVars
    <2>2. unit' \in Unit /\ unit'.pc = "start" /\ unit'.wait = unit.wait
        BY <2>1, ZenonT(40) DEF Inv, OwnerTypeOK, Unit
    <2>3. OwnerTypeOK'
        BY <2>1, <2>2, Zenon DEF Inv, OwnerTypeOK
    <2>4. ASSUME Steady' PROVE Core'
        <3>1. Core
            BY <2>1, <2>4, Zenon DEF Steady, Inv
        <3>2. QED
            BY <3>1, <2>1, <2>2, Zenon DEF Core, PodsHeld, WaitPlace, RowTells, StopRight
    <2>5. QED
        BY <2>3, <2>4, Zenon DEF Inv
<1>4. CASE SetOwner
    <2>1. /\ scene' = scene /\ db' = db /\ local' = local /\ pod' = pod /\ unit' = unit
          /\ cfg' = [cfg EXCEPT !.owner = IF @ = "local" THEN "kube" ELSE "local"] /\ "owner" \in scene.may
        BY <1>4, ZenonT(40) DEF SetOwner, Event
    <2>2. OwnerTypeOK'
        BY <2>1, Zenon DEF Inv, OwnerTypeOK, Owner
    <2>3. ~Steady'
        BY <2>1, Zenon DEF Steady
    <2>4. QED
        BY <2>2, <2>3, Zenon DEF Inv
<1>5. QED
    BY <1>1, <1>2, <1>3, <1>4, Zenon

LEMMA KubeletStep == ASSUME Inv, NEW p \in Pod, Deploy(p) \/ Undeploy(p) PROVE Inv'
<1>1. scene' = scene /\ cfg' = cfg /\ db' = db /\ local' = local /\ unit' = unit
    BY Zenon DEF Deploy, Undeploy, linkVars
<1>2. CASE Deploy(p)
    BY <1>1, <1>2, QuietStep, ZenonT(40) DEF Deploy, Steady
<1>3. CASE Undeploy(p)
    <2>1. /\ pod' \in [Pod -> {"none", "boot", "poll", "app", "frozen"}]
          /\ \A q \in Pod : pod'[q] \in {"none", pod[q]}
        BY <1>3, Zenon DEF Undeploy, Inv, OwnerTypeOK
    <2>2. QED
        BY <1>1, <2>1, GoneStep, Zenon
<1>4. QED
    BY <1>2, <1>3, Zenon

LEMMA NextInv == Inv /\ [Next]_vars => Inv'
<1> SUFFICES ASSUME Inv, [Next]_vars PROVE Inv'
    BY Zenon
<1>1. CASE Scripts
    BY <1>1, StartStep, StartedStep, WaitStep, PollStep, TimeoutStep, ExitStep, StopStep, StopReturns, ZenonT(40) DEF Scripts
<1>2. CASE Ctrmgrd \/ MgrRestart \/ MgrDies
    BY <1>2, CtrmgrdStep, Zenon
<1>3. CASE ContainerKill \/ UnitStop \/ UnitStart \/ SetOwner
    BY <1>3, OperatorStep, Zenon
<1>4. ASSUME NEW p \in Pod, PodUp(p) \/ PodPoll(p) \/ Deploy(p) \/ Undeploy(p) PROVE Inv'
    BY <1>4, PodUpStep, PodPollStep, KubeletStep, Zenon
<1>5. CASE SetServer /\ UNCHANGED ownerVars
    BY <1>5, SameStep, Zenon DEF SetServer, ownerVars
<1>6. CASE LocalCrash
    BY <1>6, GoneStep, Zenon DEF LocalCrash, linkVars, Inv, OwnerTypeOK
<1>7. CASE UNCHANGED vars
    BY <1>7, SameStep, Zenon DEF vars, linkVars, ownerVars
<1>8. QED
    BY <1>1, <1>2, <1>3, <1>4, <1>5, <1>6, <1>7, LocalUpStep, ZenonT(40) DEF Next

\* The local image and a deployed version, whichever and however many there
\* are to choose from, never run at the same time while set_owner stays and
\* Kubernetes stays with one version: the row always names the container that
\* may run (container_start, container_wait, container_stop, container_up).
THEOREM ExclusiveHolds == Spec => []Exclusive
<1>1. Inv => Exclusive
    <2> SUFFICES ASSUME Inv, Steady PROVE Cardinality(App) <= 1
        BY Zenon DEF Exclusive, OneApp
    <2>1. RowTells
        BY Zenon DEF Inv, Core
    <2>2. App \subseteq {db.id}
        BY <2>1, Zenon DEF App, RowTells
    <2>3. IsFiniteSet({db.id}) /\ Cardinality({db.id}) = 1
        BY FS_Singleton, ZenonT(40)
    <2>4. Cardinality(App) <= Cardinality({db.id})
        BY <2>2, <2>3, FS_Subset, Zenon
    <2>5. QED
        BY <2>3, <2>4, Zenon
<1>2. QED
    BY <1>1, InitInv, NextInv, PTL DEF Spec

\* The id docker wait was given stays the id of the container that runs, so
\* that the unit notices its end (container_wait).
THEOREM SupervisedHolds == Spec => []Supervised
<1>1. Inv => Supervised
    <2> SUFFICES ASSUME Inv, Steady, unit.wait = "dock" PROVE App \subseteq {unit.waitId}
        BY Zenon DEF Supervised
    <2>1. RowTells /\ unit.waitId = ContainerId
        BY Zenon DEF Inv, Core, WaitPlace
    <2>2. QED
        BY <2>1, Ids, ZenonT(40) DEF App, RowTells, ContainerId
<1>2. QED
    BY <1>1, InitInv, NextInv, PTL DEF Spec
-----------------------------------------------------------------------------
(* Type correctness: the labels and what ctrmgrd remembers *)

LabelRow == [Label -> LabelValue]
LInv == LabelTypeOK /\ mgr \in Mgr

LEMMA LabelIn ==
    /\ Feature \in Label /\ LocalVersion \in Label /\ NoLabels \in LabelRow
    /\ \A f \in LabelRow, l \in Label, v \in LabelValue : [f EXCEPT ![l] = v] \in LabelRow
BY LabelBounds, SMTT(40) DEF Label, Feature, LocalVersion, NoLabels, LabelValue, LabelRow

\* An event of the scene is counted within its bound.
LEMMA Counted ==
    ASSUME LabelTypeOK, scene' = scene, NEW e, Event(e) \/ events' = events
    PROVE  events' \in 0..scene'.max
<1>1. scene.max \in Nat /\ events \in 0..scene.max
    BY LabelBounds, Zenon DEF LabelTypeOK
<1>2. CASE Event(e)
    BY <1>1, <1>2 DEF Event
<1>3. QED
    BY <1>1, <1>2, Zenon

\* Steps that write labels and notifications only.
LEMMA LabelKeep ==
    ASSUME LabelTypeOK, scene' = scene, labels' \in LabelRow, api' = api, joined' = joined,
           server' = server, link' = link, notes' \subseteq Table, NEW e, Event(e) \/ events' = events
    PROVE  LabelTypeOK'
BY Counted, ZenonT(40) DEF LabelTypeOK, LabelRow

\* What ctrmgrd remembers after a step of the unit.
LEMMA MgrIdle == ASSUME mgr \in Mgr, NEW b \in BOOLEAN PROVE [mgr EXCEPT !.busy = b] \in Mgr
BY ZenonT(40) DEF Mgr

LEMMA LWrite ==
    ASSUME LabelTypeOK, NEW row, NEW label \in LabelValue, Write(row, label)
    PROVE  labels' \in LabelRow /\ notes' \subseteq Table
<1>1. CASE label = "unset"
    BY <1>1, ZenonT(40) DEF LabelTypeOK, Write, Table, LabelRow
<1>2. CASE label # "unset"
    <2>1. labels' = [labels EXCEPT ![Feature] = label]
        BY <1>2, Zenon DEF Write
    <2>2. labels' \in LabelRow
        BY <2>1, LabelIn, ZenonT(40) DEF LabelTypeOK, LabelRow
    <2>3. QED
        BY <1>2, <2>2, ZenonT(40) DEF LabelTypeOK, Write, Table
<1>3. QED
    BY <1>1, <1>2, Zenon

LEMMA LScripts == ASSUME LInv, Scripts PROVE LInv'
<1>1. /\ scene' = scene /\ api' = api /\ joined' = joined /\ server' = server /\ link' = link
      /\ events' = events
    BY ZenonT(40) DEF Scripts, ContainerStart, ContainerStarted, ContainerWait, WaitPoll, WaitTimeout, WaitExit,
                      ContainerStop, ContainerStopped, linkVars
<1>2. mgr' \in Mgr
    <2>1. mgr' = mgr \/ mgr' = [mgr EXCEPT !.busy = FALSE]
        BY ZenonT(40) DEF Scripts, ContainerStart, ContainerStarted, ContainerWait, WaitPoll, WaitTimeout, WaitExit,
                          ContainerStop, ContainerStopped, Activate
    <2>2. QED
        BY <2>1, MgrIdle, ZenonT(40) DEF LInv
<1>3. labels \in LabelRow /\ notes \subseteq Table /\ LabelTypeOK
    BY Zenon DEF LInv, LabelTypeOK, LabelRow
<1>4. {"unset", "true", "false"} = LabelValue /\ "KUBE_LABELS" \in Table
    BY Zenon DEF LabelValue, Table
<1>5. labels' \in LabelRow /\ notes' \subseteq Table
    <2>1. CASE ContainerStart
        BY <1>3, <1>4, <2>1, LWrite, ZenonT(40) DEF ContainerStart
    <2>2. CASE ContainerStarted
        BY <1>3, <1>4, <2>2, LabelIn, ZenonT(40) DEF ContainerStarted
    <2>3. CASE ContainerWait \/ WaitExit
        BY <1>3, <2>3, ZenonT(40) DEF ContainerWait, WaitExit, linkVars
    <2>4. CASE WaitPoll \/ WaitTimeout
        BY <1>3, <1>4, <2>4, LWrite, ZenonT(40) DEF WaitPoll, WaitTimeout
    <2>5. CASE ContainerStop
        <3> DEFINE label == IF db.remote # "pending" \/ cfg.owner = "local" THEN "false" ELSE "unset"
        <3>1. label \in LabelValue
            BY <1>4, Zenon
        <3>2. \/ Stopped(db.remote, label)
              \/ /\ labels' = IF label = "unset" THEN labels ELSE [labels EXCEPT ![Feature] = label]
                 /\ notes' = notes \union IF label = "unset" THEN {} ELSE {"KUBE_LABELS"}
            BY <2>5, ZenonT(40) DEF ContainerStop
        <3> HIDE DEF label
        <3>3. QED
            BY <1>3, <1>4, <3>1, <3>2, LWrite, LabelIn, ZenonT(40) DEF Stopped
    <2>6. CASE ContainerStopped
        BY <1>3, <1>4, <2>6, LWrite, ZenonT(40) DEF ContainerStopped, Stopped
    <2>7. QED
        BY <2>1, <2>2, <2>3, <2>4, <2>5, <2>6, ZenonT(40) DEF Scripts
<1>6. QED
    BY <1>1, <1>2, <1>3, <1>5, LabelKeep, ZenonT(40) DEF LInv

LEMMA LHandle ==
    ASSUME LInv, NEW m \in Mgr, NEW queue \in SUBSET Table, HandleUpdate(m, queue)
    PROVE  labels' \in LabelRow /\ notes' \subseteq Table /\ mgr' \in Mgr
<1>1. labels \in LabelRow /\ "KUBE_LABELS" \in Table /\ {"unset", "true", "false"} = LabelValue
    BY Zenon DEF LInv, LabelTypeOK, LabelRow, Table, LabelValue
<1>2. CASE unit.pc # "active"
    BY <1>1, <1>2, ZenonT(40) DEF HandleUpdate
<1>3. CASE unit.pc = "active"
    <2> DEFINE restart == IF m.owner = "local" THEN m.st # "local" ELSE m.st # "none" /\ m.remote = "pending"
    <2>1. /\ labels' = [labels EXCEPT ![Feature] = IF m.owner = "kube" THEN "true" ELSE "false"]
          /\ notes' = queue \union {"KUBE_LABELS"} /\ mgr' = [m EXCEPT !.busy = restart]
        BY <1>3, ZenonT(40) DEF HandleUpdate
    <2>2. restart \in BOOLEAN
        BY Zenon
    <2> HIDE DEF restart
    <2>3. mgr' \in Mgr
        BY <2>1, <2>2, ZenonT(40) DEF Mgr
    <2>4. labels' \in LabelRow
        BY <1>1, <2>1, LabelIn, ZenonT(40)
    <2>5. QED
        BY <1>1, <2>1, <2>3, <2>4, ZenonT(40)
<1>4. QED
    BY <1>2, <1>3, Zenon

LEMMA LFeature == ASSUME Inv, LInv, OnConfig \/ OnState PROVE LInv'
<1>1. /\ scene' = scene /\ api' = api /\ joined' = joined /\ server' = server /\ link' = link
      /\ events' = events
    BY ZenonT(40) DEF OnConfig, OnState
<1>2. labels \in LabelRow /\ notes \subseteq Table /\ LabelTypeOK /\ mgr \in Mgr
    BY Zenon DEF LInv, LabelTypeOK, LabelRow
<1>3. /\ cfg.owner \in Owner \union {"init"} /\ db.owner \in Owner \union {"none", "init"} /\ db.remote \in Remote
    BY ZenonT(40) DEF Inv, OwnerTypeOK, Row
<1>4. \A t : notes \ {t} \in SUBSET Table
    BY <1>2, Zenon
<1>5. [mgr EXCEPT !.owner = cfg.owner] \in Mgr /\ [mgr EXCEPT !.st = db.owner, !.remote = db.remote] \in Mgr
    BY <1>2, <1>3, ZenonT(40) DEF Mgr
<1>6. labels' \in LabelRow /\ notes' \subseteq Table /\ mgr' \in Mgr
    <2>1. CASE OnConfig
        <3> DEFINE m == [mgr EXCEPT !.owner = cfg.owner]
                   queue == notes \ {"CONFIG FEATURE"}
        <3>1. HandleUpdate(m, queue) \/ (mgr' = m /\ notes' = queue /\ labels' = labels)
            BY <2>1, ZenonT(40) DEF OnConfig
        <3>2. m \in Mgr /\ queue \in SUBSET Table
            BY <1>4, <1>5, Zenon
        <3> HIDE DEF m, queue
        <3>3. QED
            BY <1>2, <3>1, <3>2, LHandle, ZenonT(40)
    <2>2. CASE OnState
        <3> DEFINE m == [mgr EXCEPT !.st = db.owner, !.remote = db.remote]
                   queue == notes \ {"STATE FEATURE"}
        <3>1. HandleUpdate(m, queue) \/ (mgr' = m /\ notes' = queue /\ labels' = labels)
            BY <2>2, ZenonT(40) DEF OnState
        <3>2. m \in Mgr /\ queue \in SUBSET Table
            BY <1>4, <1>5, Zenon
        <3> HIDE DEF m, queue
        <3>3. QED
            BY <1>2, <3>1, <3>2, LHandle, ZenonT(40)
    <2>3. QED
        BY <2>1, <2>2, Zenon
<1>7. QED
    BY <1>1, <1>2, <1>6, LabelKeep, ZenonT(40) DEF LInv

\* do_reset and do_join leave typed state.
LEMMA LServer ==
    ASSUME LabelTypeOK, NEW ok, NEW old \in Link, NEW c \in BOOLEAN, NEW queue \in SUBSET Table,
           HandleServer(ok, old, c, queue)
    PROVE  joined' \in BOOLEAN /\ api' \in LabelRow /\ link' \in Link /\ notes' \subseteq Table
<1>1. joined' \in BOOLEAN /\ api' \in LabelRow /\ notes' \subseteq Table
    BY LabelIn, ZenonT(40) DEF HandleServer, LabelTypeOK, LabelRow, Table
<1>2. \E p, k \in BOOLEAN : link' = [old EXCEPT !.cfg = c, !.pending = p, !.connected = k, !.stamped = TRUE]
    BY ZenonT(40) DEF HandleServer
<1>3. link' \in Link
    BY <1>2, ZenonT(40) DEF Link
<1>4. QED
    BY <1>1, <1>3, Zenon

LEMMA LWriteLabels ==
    ASSUME LabelTypeOK, NEW set \in LabelRow, WriteLabels(set)
    PROVE  api' \in LabelRow /\ link' \in Link
<1>1. api \in LabelRow /\ link \in Link /\ "unset" \in LabelValue
    BY Zenon DEF LabelTypeOK, LabelRow, LabelValue
<1>2. \A l \in Label : set[l] \in LabelValue /\ api[l] \in LabelValue
    BY <1>1, Zenon DEF LabelRow
<1>3. api' \in LabelRow
    BY <1>1, <1>2, ZenonT(40) DEF WriteLabels, LabelRow
<1>4. \E t \in LabelRow, r \in BOOLEAN : link' = [link EXCEPT !.set = t, !.retry = r]
    BY LabelIn, ZenonT(40) DEF WriteLabels
<1>5. link' \in Link
    BY <1>1, <1>4, ZenonT(40) DEF Link, LabelRow
<1>6. QED
    BY <1>3, <1>5, Zenon

LEMMA LUpdate ==
    ASSUME LabelTypeOK, NEW c \in BOOLEAN, NEW queue \in SUBSET Table, Update(c, queue),
           UNCHANGED <<scene, labels, server>>
    PROVE  LabelTypeOK'
<1>1. joined' \in BOOLEAN /\ api' \in LabelRow /\ link' \in Link /\ notes' \subseteq Table
    BY LServer, ZenonT(40) DEF Update, LabelTypeOK
<1>2. events' \in 0..scene'.max
    BY Counted, ZenonT(40) DEF Update
<1>3. QED
    BY <1>1, <1>2, ZenonT(40) DEF LabelTypeOK, LabelRow

LEMMA LRemote == ASSUME LInv, MgrServer \/ MgrJoinTimer \/ MgrLabels \/ MgrLabelTimer PROVE LInv'
<1>1. mgr' = mgr
    BY ZenonT(40) DEF MgrServer, MgrJoinTimer, MgrLabels, MgrLabelTimer, ownerVars
<1>2. /\ LabelTypeOK /\ link \in Link /\ server \in BOOLEAN /\ labels \in LabelRow /\ api \in LabelRow
      /\ joined \in BOOLEAN /\ notes \subseteq Table
    BY Zenon DEF LInv, LabelTypeOK, LabelRow
<1>3. link.cfg \in BOOLEAN /\ link.set \in LabelRow
    BY <1>2, ZenonT(40) DEF Link, LabelRow
<1>4. [link EXCEPT !.cfg = server] \in Link /\ [link EXCEPT !.set = labels] \in Link
    BY <1>2, ZenonT(40) DEF Link, LabelRow
<1>5. \A t : notes \ {t} \in SUBSET Table
    BY <1>2, Zenon
<1>6. CASE MgrServer
    <2>1. CASE server = link.cfg \/ link.pending
        <3>1. /\ scene' = scene /\ labels' = labels /\ server' = server /\ joined' = joined /\ api' = api
              /\ events' = events /\ notes' \subseteq Table /\ link' \in Link
            BY <1>4, <1>5, <1>6, <2>1, ZenonT(40) DEF MgrServer, OnServer
        <3>2. LabelTypeOK'
            BY <1>2, <3>1, Counted, ZenonT(40) DEF LabelTypeOK
        <3>3. QED
            BY <1>1, <3>2, ZenonT(40) DEF LInv
    <2>2. CASE ~(server = link.cfg \/ link.pending)
        <3>1. /\ Update(server, notes \ {"KUBERNETES_MASTER"}) /\ UNCHANGED <<scene, labels, server>>
            BY <1>6, <2>2, ZenonT(40) DEF MgrServer, OnServer
        <3>2. LabelTypeOK'
            BY <1>2, <1>5, <3>1, LUpdate, ZenonT(40)
        <3>3. QED
            BY <1>1, <3>2, ZenonT(40) DEF LInv
    <2>3. QED
        BY <2>1, <2>2, Zenon
<1>7. CASE MgrJoinTimer
    <2>1. LabelTypeOK'
        BY <1>2, <1>3, <1>7, LUpdate, ZenonT(40) DEF MgrJoinTimer, JoinTimer
    <2>2. QED
        BY <1>1, <2>1, ZenonT(40) DEF LInv
<1>8. CASE MgrLabels \/ MgrLabelTimer
    <2>1. /\ scene' = scene /\ labels' = labels /\ server' = server /\ joined' = joined /\ notes' \subseteq Table
        BY <1>2, <1>5, <1>8, ZenonT(40) DEF MgrLabels, MgrLabelTimer, OnLabels, LabelTimer
    <2>2. \/ WriteLabels(labels) \/ WriteLabels(link.set)
          \/ (link' \in {link, [link EXCEPT !.set = labels]} /\ api' = api /\ events' = events)
        BY <1>8, ZenonT(40) DEF MgrLabels, MgrLabelTimer, OnLabels, LabelTimer
    <2>3. api' \in LabelRow /\ link' \in Link
        BY <1>2, <1>3, <1>4, <2>2, LWriteLabels, ZenonT(40)
    <2>4. events' \in 0..scene'.max
        BY <1>2, <2>1, <2>2, Counted, ZenonT(40) DEF WriteLabels
    <2>5. LabelTypeOK'
        BY <1>2, <2>1, <2>3, <2>4, ZenonT(40) DEF LabelTypeOK, LabelRow
    <2>6. QED
        BY <1>1, <2>5, ZenonT(40) DEF LInv
<1>9. QED
    BY <1>6, <1>7, <1>8, Zenon

LEMMA LFresh == ASSUME LInv, MgrRestart \/ MgrDies PROVE LInv'
<1>1. Fresh /\ (events' = events \/ \E e : Event(e))
    BY ZenonT(40) DEF MgrRestart, MgrDies, ReadFails
<1>2. /\ scene' = scene /\ labels' = labels /\ server' = server /\ Construct
      /\ mgr' = [owner |-> "init", st |-> "init", remote |-> "none", busy |-> FALSE]
    BY <1>1, ZenonT(40) DEF Fresh
<1>3. mgr' \in Mgr
    BY <1>2, ZenonT(40) DEF Mgr, Remote
<1>4. LabelTypeOK /\ link \in Link /\ server \in BOOLEAN /\ joined \in BOOLEAN /\ api \in LabelRow
    BY Zenon DEF LInv, LabelTypeOK, LabelRow
<1>5. events' \in 0..scene'.max
    BY <1>1, <1>2, <1>4, Counted, ZenonT(40)
<1>6. joined' \in BOOLEAN /\ api' \in LabelRow /\ link' \in Link /\ notes' \subseteq Table
    <2> DEFINE queue == Table \ {"KUBERNETES_MASTER"}
               old == [link EXCEPT !.cfg = server, !.connected = FALSE, !.set = NoLabels, !.retry = FALSE]
    <2>1. queue \in SUBSET Table
        BY Zenon
    <2>2. old \in Link
        BY <1>4, LabelIn, ZenonT(40) DEF Link, LabelRow
    <2>3. \/ \E ok \in BOOLEAN : HandleServer(ok, old, server, queue)
          \/ link' = [old EXCEPT !.pending = TRUE] /\ notes' = queue /\ joined' = joined /\ api' = api
        BY <1>2, ZenonT(40) DEF Construct
    <2> HIDE DEF queue, old
    <2>4. [old EXCEPT !.pending = TRUE] \in Link
        BY <2>2, ZenonT(40) DEF Link
    <2>5. QED
        BY <1>4, <2>1, <2>2, <2>3, <2>4, LServer, ZenonT(40)
<1>7. LabelTypeOK'
    BY <1>2, <1>4, <1>5, <1>6, ZenonT(40) DEF LabelTypeOK, LabelRow
<1>8. QED
    BY <1>3, <1>7, ZenonT(40) DEF LInv

LEMMA LOthers ==
    ASSUME LInv, \/ LocalUp \/ ContainerKill \/ UnitStop \/ UnitStart \/ SetOwner \/ LocalCrash \/ UNCHANGED vars
                 \/ \E p \in Pod : PodUp(p) \/ PodPoll(p) \/ Deploy(p) \/ Undeploy(p)
    PROVE  LInv'
<1>1. /\ scene' = scene /\ api' = api /\ joined' = joined /\ server' = server /\ link' = link /\ mgr' = mgr
      /\ events' = events \/ \E e : Event(e)
    BY ZenonT(40) DEF LocalUp, ContainerKill, UnitStop, UnitStart, SetOwner, LocalCrash, PodUp, PodPoll, Deploy,
                      Undeploy, vars, linkVars, ownerVars
<1>2. labels \in LabelRow /\ notes \subseteq Table /\ LabelTypeOK /\ "false" \in LabelValue
    BY Zenon DEF LInv, LabelTypeOK, LabelRow, LabelValue
<1>3. labels' \in LabelRow
    <2>1. labels' \in {labels, [labels EXCEPT ![Feature] = "false"], [labels EXCEPT ![LocalVersion] = "false"]}
        BY ZenonT(40) DEF LocalUp, ContainerKill, UnitStop, UnitStart, SetOwner, LocalCrash, PodUp, PodPoll, Deploy,
                          Undeploy, vars, linkVars
    <2>2. ASSUME NEW k \in {Feature, LocalVersion} PROVE [labels EXCEPT ![k] = "false"] \in LabelRow
        BY <1>2, LabelIn, SMTT(40)
    <2>3. QED
        BY <1>2, <2>1, <2>2, Zenon
<1>4. notes' \subseteq Table
    <2>1. notes' \subseteq notes \union {"STATE FEATURE", "KUBE_LABELS", "CONFIG FEATURE"}
        BY ZenonT(40) DEF LocalUp, ContainerKill, UnitStop, UnitStart, SetOwner, LocalCrash, PodUp, PodPoll, Running, Deploy,
                          Undeploy, vars, linkVars
    <2>2. QED
        BY <1>2, <2>1, Zenon DEF Table
<1>5. LabelTypeOK'
    BY <1>1, <1>2, <1>3, <1>4, LabelKeep, ZenonT(40)
<1>6. QED
    BY <1>1, <1>5, ZenonT(40) DEF LInv

LEMMA LSetServer == ASSUME LInv, SetServer, UNCHANGED ownerVars PROVE LInv'
<1>1. LabelTypeOK'
    BY Counted, ZenonT(40) DEF LInv, LabelTypeOK, SetServer, Table
<1>2. QED
    BY <1>1, ZenonT(40) DEF LInv, ownerVars

LEMMA LInit == Init => LInv
<1> SUFFICES ASSUME Init PROVE LInv
    BY Zenon
<1>1. LabelInit /\ mgr \in Mgr
    BY ZenonT(40) DEF Init, Mgr, Remote
<1>2. joined \in BOOLEAN /\ server \in BOOLEAN /\ scene \in Scene
    BY <1>1, ZenonT(40) DEF LabelInit
<1>3. link \in Link
    BY <1>1, <1>2, LabelIn, ZenonT(40) DEF LabelInit, Link, LabelRow
<1>4. events \in 0..scene.max
    <2>1. scene.max \in Nat /\ events = 0
        BY <1>1, <1>2, LabelBounds, ZenonT(40) DEF LabelInit
    <2>2. QED
        BY <2>1
<1>5. QED
    BY <1>1, <1>2, <1>3, <1>4, LabelIn, ZenonT(40) DEF LInv, LabelTypeOK, LabelInit, LabelRow, Table

LEMMA LNext == Inv /\ LInv /\ [Next]_vars => LInv'
<1> SUFFICES ASSUME Inv, LInv, [Next]_vars PROVE LInv'
    BY Zenon
<1>1. CASE Scripts \/ Ctrmgrd
    BY <1>1, LScripts, LFeature, LRemote, ZenonT(40) DEF Ctrmgrd
<1>2. CASE (MgrRestart \/ MgrDies) \/ (SetServer /\ UNCHANGED ownerVars)
    BY <1>2, LFresh, LSetServer, ZenonT(40)
<1>3. QED
    BY <1>1, <1>2, LOthers, ZenonT(40) DEF Next

\* Every row of CONFIG_DB and STATE_DB, every label, at the node and in
\* STATE_DB, and what the unit and the handlers of ctrmgrd remember keep their
\* types: no failed or half-done label write, reset, crash or restart leaves a
\* value that another script cannot read.
THEOREM TypeCorrect == Spec => []TypeOK
<1>1. Inv /\ LInv => TypeOK
    BY ZenonT(40) DEF Inv, LInv, OwnerTypeOK, TypeOK
<1>2. QED
    BY <1>1, InitInv, NextInv, LInit, LNext, PTL DEF Spec
=============================================================================
