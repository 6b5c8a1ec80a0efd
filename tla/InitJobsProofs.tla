--------------------------- MODULE InitJobsProofs ---------------------------
(***************************************************************************)
(* Upgrades and init jobs: what an upgrade past its InitJobs phase, and the *)
(* Initialized condition, say about the jobs that have run.                 *)
(*                                                                          *)
(* The module begins with what any step may do to the stored cluster, to    *)
(* the informer's copy and to the copy of the reconcile in flight; the      *)
(* invariants about several copies are proved from that.                    *)
(***************************************************************************)
EXTENDS UpgradeStatusProofs

-----------------------------------------------------------------------------
(* What a step does to the copies of the cluster *)

\* The phases before the init jobs have run, and after.
EarlyPhases == {"Waiting", "Blocked", "StartMaintenance", "Config", "InitJobs"}
LatePhases == Components \cup {"EndMaintenance"}

\* How a step of the reconcile in flight may move its phase.
PhaseMoves(old, new) ==
    \/ new = old
    \/ /\ old = "Waiting"
       /\ snap.spec.upgradePolicy = "Automatic"
       /\ new = IF snap.spec.maintenance THEN "StartMaintenance" ELSE "Config"
    \/ /\ old = "StartMaintenance" /\ new = "Config"
       /\ jobCache[MaintenanceJob("StartMaintenance")] = "complete"
    \/ old = "Config" /\ new = "InitJobs"
    \/ old = "InitJobs" /\ new = "Blocked"
    \/ old = "Blocked" /\ new = "Waiting"
    \/ old = "InitJobs" /\ new = "FlowAPI" /\ InitJobsReady
    \/ old = "FlowAPI" /\ new = "PeerDBServer"
    \/ old = "PeerDBServer" /\ new = "UI"
    \/ /\ old = "UI"
       /\ new = IF snap.spec.maintenance THEN "EndMaintenance" ELSE "Complete"
    \/ /\ old = "EndMaintenance" /\ new = "Complete"
       /\ jobCache[MaintenanceJob("EndMaintenance")] = "complete"

\* How it may move its stage.
StageMoves(old, new) ==
    \/ old \in {"upgrade", "check"} /\ new \in {"check", "park", "init"}
    \/ old = "init" /\ new = "components"
    \/ old = "components" /\ new = "finish"

\* A step of the reconcile in flight that does not end it.
Handles ==
    /\ StageMoves(pc, pc')
    /\ snap'.spec = snap.spec /\ snap'.backup = snap.backup
    /\ LET old == snap.status
           new == snap'.status
       IN /\ new.toVersion = old.toVersion
          /\ PhaseMoves(old.phase, new.phase)
          /\ pc \in {"upgrade", "check"} \/ new.phase = old.phase
          /\ pc' = "init" => new.phase # old.phase
          /\ pc' = "check" => new.phase = old.phase
          /\ pc' = "park" => Upgrading(new)
          /\ pc' = "init" =>
                (old.phase = "Waiting" => snap.spec.upgradePolicy = "Automatic")
          /\ new.initialized = "True" =>
                old.initialized = "True" \/ InitJobsReady \/ snap.backup
          /\ new.backupSafe = "BackupInProgress" =>
                old.backupSafe = "BackupInProgress" \/ snap.backup

\* Replacing some fields of the status of the snapshot.
LEMMA SnapStatusReplaced ==
    ASSUME TypeOK, NEW st, snap' = [snap EXCEPT !.status = st]
    PROVE  snap'.spec = snap.spec /\ snap'.backup = snap.backup
              /\ snap'.status = st
BY DEF TypeOK, ClusterObject

\* The fields of the status that a phase handler starts from.
LEMMA UpgradeStatusFields ==
    ASSUME TypeOK
    PROVE  /\ UpgradeStatus \in ClusterStatus
           /\ UpgradeStatus.phase = snap.status.phase
           /\ UpgradeStatus.toVersion = snap.status.toVersion
           /\ UpgradeStatus.initialized = snap.status.initialized
           /\ UpgradeStatus.backupSafe = snap.status.backupSafe
BY SnapTypes DEF UpgradeStatus, ClusterStatus

\* The phases that only change the status.
LEMMA PhaseHandles ==
    ASSUME TypeOK,
           UpgradePhaseWaiting \/ UpgradePhaseBlocked \/ UpgradePhaseConfig
    PROVE  Handles
<1>0. pc = "upgrade"
    BY DEF UpgradePhaseWaiting, UpgradePhaseBlocked, UpgradePhaseConfig,
           AtPhase
<1>1. CASE UpgradePhaseWaiting
  <2>1. snap.status.phase = "Waiting"
      BY <1>1 DEF UpgradePhaseWaiting, AtPhase
  <2>2. CASE Park(UpgradeStatus)
    <3>1. /\ snap'.spec = snap.spec /\ snap'.backup = snap.backup
          /\ snap'.status = UpgradeStatus /\ pc' = "park"
        BY <2>2, SnapStatusReplaced DEF Park
    <3> QED
        BY <1>0, <2>1, <3>1, UpgradeStatusFields
        DEF Handles, StageMoves, PhaseMoves, Upgrading
  <2>3. ASSUME NEW p, snap.spec.upgradePolicy = "Automatic",
               p = IF snap.spec.maintenance THEN "StartMaintenance"
                                            ELSE "Config",
               Continue([UpgradeStatus EXCEPT !.phase = p])
        PROVE  Handles
    <3>1. /\ snap'.spec = snap.spec /\ snap'.backup = snap.backup
          /\ snap'.status = [UpgradeStatus EXCEPT !.phase = p] /\ pc' = "init"
        BY <2>3, SnapStatusReplaced DEF Continue
    <3>2. /\ snap'.status.phase = p
          /\ snap'.status.toVersion = snap.status.toVersion
          /\ snap'.status.initialized = snap.status.initialized
          /\ snap'.status.backupSafe = snap.status.backupSafe
        BY <3>1, UpgradeStatusFields DEF ClusterStatus
    <3> QED
        BY <1>0, <2>1, <2>3, <3>1, <3>2
        DEF Handles, StageMoves, PhaseMoves
  <2> QED
      BY <1>1, <2>2, <2>3 DEF UpgradePhaseWaiting
<1>2. CASE UpgradePhaseBlocked
  <2>1. snap.status.phase = "Blocked"
      BY <1>2 DEF UpgradePhaseBlocked, AtPhase
  <2>2. /\ snap'.spec = snap.spec /\ snap'.backup = snap.backup
        /\ snap'.status = [UpgradeStatus EXCEPT !.phase = "Waiting",
                                                !.degraded = "False"]
        /\ pc' = "init"
      BY <1>2, SnapStatusReplaced DEF UpgradePhaseBlocked, Continue
  <2>3. /\ snap'.status.phase = "Waiting"
        /\ snap'.status.toVersion = snap.status.toVersion
        /\ snap'.status.initialized = snap.status.initialized
        /\ snap'.status.backupSafe = snap.status.backupSafe
      BY <2>2, UpgradeStatusFields DEF ClusterStatus
  <2> QED
      BY <1>0, <2>1, <2>2, <2>3
      DEF Handles, StageMoves, PhaseMoves
<1>3. CASE UpgradePhaseConfig
  <2>1. snap.status.phase = "Config"
      BY <1>3 DEF UpgradePhaseConfig, AtPhase
  <2>2. /\ snap'.spec = snap.spec /\ snap'.backup = snap.backup
        /\ snap'.status = [UpgradeStatus EXCEPT !.phase = "InitJobs"]
        /\ pc' = "init"
      BY <1>3, SnapStatusReplaced DEF UpgradePhaseConfig, Continue
  <2>3. /\ snap'.status.phase = "InitJobs"
        /\ snap'.status.toVersion = snap.status.toVersion
        /\ snap'.status.initialized = snap.status.initialized
        /\ snap'.status.backupSafe = snap.status.backupSafe
      BY <2>2, UpgradeStatusFields DEF ClusterStatus
  <2> QED
      BY <1>0, <2>1, <2>2, <2>3
      DEF Handles, StageMoves, PhaseMoves
<1> QED
    BY <1>1, <1>2, <1>3

\* The maintenance phases, which may also fail to create their job.
LEMMA MaintenanceHandles ==
    ASSUME TypeOK, UpgradePhaseMaintenanceJob
    PROVE  Handles \/ Return
<1>0. PICK p \in {"StartMaintenance", "EndMaintenance"} :
         CreateMaintenanceJob(p) \/ AwaitMaintenanceJob(p)
            \/ RetryMaintenanceJob(p)
    BY DEF UpgradePhaseMaintenanceJob
<1>1. pc = "upgrade" /\ snap.status.phase = p
    BY <1>0 DEF CreateMaintenanceJob, AwaitMaintenanceJob,
                RetryMaintenanceJob, AtPhase
<1>2. ASSUME NEW st, Park(st), st.phase = p,
             st.toVersion = snap.status.toVersion,
             st.initialized = snap.status.initialized,
             st.backupSafe = snap.status.backupSafe
      PROVE  Handles
  <2>1. /\ snap'.spec = snap.spec /\ snap'.backup = snap.backup
        /\ snap'.status = st /\ pc' = "park"
      BY <1>2, SnapStatusReplaced DEF Park
  <2> QED
      BY <1>1, <1>2, <2>1 DEF Handles, StageMoves, PhaseMoves, Upgrading
<1>3. CASE CreateMaintenanceJob(p)
  <2> DEFINE st(m) == [UpgradeStatus EXCEPT !.maintenanceMode = m]
  <2>1. \A m : /\ st(m).phase = p
               /\ st(m).toVersion = snap.status.toVersion
               /\ st(m).initialized = snap.status.initialized
               /\ st(m).backupSafe = snap.status.backupSafe
      BY <1>1, UpgradeStatusFields DEF ClusterStatus
  <2>2. (\E m : Park(st(m))) \/ Return
      BY <1>3 DEF CreateMaintenanceJob, ReturnError
  <2> HIDE DEF st
  <2> QED
      BY <1>2, <2>1, <2>2
<1>4. CASE AwaitMaintenanceJob(p)
  <2>1. CASE Park(UpgradeStatus)
      BY <1>1, <1>2, <2>1, UpgradeStatusFields
  <2>2. CASE /\ jobCache[MaintenanceJob(p)] = "complete"
             /\ Continue(AfterMaintenance(p))
    <3>1. /\ snap'.spec = snap.spec /\ snap'.backup = snap.backup
          /\ snap'.status = AfterMaintenance(p) /\ pc' = "init"
        BY <2>2, SnapStatusReplaced DEF Continue
    <3>2. /\ snap'.status.phase =
                IF p = "StartMaintenance" THEN "Config" ELSE "Complete"
          /\ snap'.status.toVersion = snap.status.toVersion
          /\ snap'.status.initialized = snap.status.initialized
          /\ snap'.status.backupSafe = snap.status.backupSafe
        BY <3>1, UpgradeStatusFields DEF AfterMaintenance, ClusterStatus
    <3> QED
        BY <1>1, <2>2, <3>1, <3>2
        DEF Handles, StageMoves, PhaseMoves
  <2> QED
      BY <1>4, <2>1, <2>2 DEF AwaitMaintenanceJob
<1>5. CASE RetryMaintenanceJob(p)
  <2> DEFINE st == [UpgradeStatus EXCEPT !.degraded = "True"]
  <2>1. /\ st.phase = p
        /\ st.toVersion = snap.status.toVersion
        /\ st.initialized = snap.status.initialized
        /\ st.backupSafe = snap.status.backupSafe
      BY <1>1, UpgradeStatusFields DEF ClusterStatus
  <2>2. Park(st)
      BY <1>5 DEF RetryMaintenanceJob
  <2> HIDE DEF st
  <2> QED
      BY <1>2, <2>1, <2>2
<1> QED
    BY <1>0, <1>3, <1>4, <1>5

\* The phases InitJobs and those of the components, each in two halves.
LEMMA RolloutHandles ==
    ASSUME TypeOK,
           \/ UpgradePhaseInitJobs \/ CheckInitJobs
           \/ UpgradePhaseComponent \/ CheckRollout
    PROVE  Handles \/ Return
<1>1. CASE UpgradePhaseInitJobs
  <2>0. pc = "upgrade" /\ snap.status.phase = "InitJobs"
      BY <1>1 DEF UpgradePhaseInitJobs, AtPhase
  <2>1. CASE /\ InitJobsReady
             /\ Continue([UpgradeStatus EXCEPT !.phase = "FlowAPI",
                                               !.initialized = "True"])
    <3>1. /\ snap'.spec = snap.spec /\ snap'.backup = snap.backup
          /\ snap'.status = [UpgradeStatus EXCEPT !.phase = "FlowAPI",
                                                  !.initialized = "True"]
          /\ pc' = "init"
        BY <2>1, SnapStatusReplaced DEF Continue
    <3>2. /\ snap'.status.phase = "FlowAPI"
          /\ snap'.status.toVersion = snap.status.toVersion
          /\ snap'.status.backupSafe = snap.status.backupSafe
        BY <3>1, UpgradeStatusFields DEF ClusterStatus
    <3> QED
        BY <2>0, <2>1, <3>1, <3>2 DEF Handles, StageMoves, PhaseMoves
  <2>2. CASE snap' = [snap EXCEPT !.status = UpgradeStatus] /\ pc' = "check"
    <3>1. /\ snap'.spec = snap.spec /\ snap'.backup = snap.backup
          /\ snap'.status = UpgradeStatus
        BY <2>2, SnapStatusReplaced
    <3> QED
        BY <2>0, <2>2, <3>1, UpgradeStatusFields
        DEF Handles, StageMoves, PhaseMoves
  <2> QED
      BY <1>1, <2>1, <2>2 DEF UpgradePhaseInitJobs
<1>2. CASE CheckInitJobs
  <2>0. pc = "check" /\ snap.status.phase = "InitJobs"
      BY <1>2 DEF CheckInitJobs
  <2>1. PICK p \in {"Blocked", "InitJobs"} :
            Park([snap.status EXCEPT !.phase = p, !.initialized = "False"])
      BY <1>2 DEF CheckInitJobs
  <2>2. /\ snap'.spec = snap.spec /\ snap'.backup = snap.backup
        /\ snap'.status = [snap.status EXCEPT !.phase = p,
                                              !.initialized = "False"]
        /\ pc' = "park"
      BY <2>1, SnapStatusReplaced DEF Park
  <2>3. /\ snap'.status.phase = p
        /\ snap'.status.initialized = "False"
        /\ snap'.status.toVersion = snap.status.toVersion
        /\ snap'.status.backupSafe = snap.status.backupSafe
      BY <2>2, SnapTypes DEF ClusterStatus
  <2> QED
      BY <2>0, <2>2, <2>3
      DEF Handles, StageMoves, PhaseMoves, Upgrading
<1>3. CASE UpgradePhaseComponent
  <2>1. /\ snap'.spec = snap.spec /\ snap'.backup = snap.backup
        /\ snap'.status = UpgradeStatus
      BY <1>3, SnapStatusReplaced DEF UpgradePhaseComponent
  <2>2. /\ pc = "upgrade" /\ pc' = "check"
        /\ snap.status.phase \in Components
      BY <1>3 DEF UpgradePhaseComponent
  <2> QED
      BY <2>1, <2>2, UpgradeStatusFields DEF Handles, StageMoves, PhaseMoves
<1>4. CASE CheckRollout
  <2>0. pc = "check" /\ snap.status.phase \in Components
      BY <1>4 DEF CheckRollout
  <2> DEFINE st == AfterRollout(snap.status, snap.spec.maintenance)
  <2>1. /\ PhaseMoves(snap.status.phase, st.phase)
        /\ st.phase # snap.status.phase
        /\ st.toVersion = snap.status.toVersion
        /\ st.initialized = snap.status.initialized
        /\ st.backupSafe = snap.status.backupSafe
      BY <2>0, SnapTypes DEF AfterRollout, PhaseMoves, Components,
                             ClusterStatus
  <2> HIDE DEF st
  <2>2. Return \/ Park(snap.status) \/ Continue(st)
      BY <1>4 DEF CheckRollout, ReturnError, st
  <2>3. CASE Park(snap.status)
    <3>1. /\ snap'.spec = snap.spec /\ snap'.backup = snap.backup
          /\ snap'.status = snap.status /\ pc' = "park"
        BY <2>3, SnapStatusReplaced DEF Park
    <3> QED
        BY <2>0, <3>1
        DEF Handles, StageMoves, PhaseMoves, Components, Upgrading
  <2>4. CASE Continue(st)
    <3>1. /\ snap'.spec = snap.spec /\ snap'.backup = snap.backup
          /\ snap'.status = st /\ pc' = "init"
        BY <2>4, SnapStatusReplaced DEF Continue
    <3> QED
        BY <2>0, <2>1, <3>1
        DEF Handles, StageMoves, Components
  <2> QED
      BY <2>2, <2>3, <2>4
<1> QED
    BY <1>1, <1>2, <1>3, <1>4

\* Standard reconciliation.
LEMMA StandardHandles ==
    ASSUME TypeOK, ReconcileInitJobsAndStatus \/ ReconcileComponentsAndStatus
    PROVE  Handles
<1>1. CASE ReconcileInitJobsAndStatus
  <2> DEFINE st == [snap.status EXCEPT !.initialized =
                       AsCondition(snap.backup \/ InitJobsReady)]
  <2>1. snap' = [snap EXCEPT !.status = st]
      BY <1>1 DEF ReconcileInitJobsAndStatus, TypeOK, ClusterObject
  <2>2. /\ st.phase = snap.status.phase
        /\ st.toVersion = snap.status.toVersion
        /\ st.backupSafe = snap.status.backupSafe
        /\ st.initialized = AsCondition(snap.backup \/ InitJobsReady)
      BY SnapTypes DEF ClusterStatus
  <2>3. st.initialized = "True" => snap.backup \/ InitJobsReady
      BY <2>2 DEF AsCondition
  <2> HIDE DEF st
  <2>4. /\ snap'.spec = snap.spec /\ snap'.backup = snap.backup
        /\ snap'.status = st
      BY <2>1, SnapStatusReplaced
  <2>5. pc = "init" /\ pc' = "components"
      BY <1>1 DEF ReconcileInitJobsAndStatus
  <2> QED
      BY <2>2, <2>3, <2>4, <2>5 DEF Handles, StageMoves, PhaseMoves
<1>2. CASE ReconcileComponentsAndStatus
  <2> DEFINE st == FinalConditions(snap.status, snap.backup, ComponentsReady)
  <2>1. snap' = [snap EXCEPT !.status = st]
      BY <1>2 DEF ReconcileComponentsAndStatus, TypeOK, ClusterObject
  <2>2. /\ st.phase = snap.status.phase
        /\ st.toVersion = snap.status.toVersion
        /\ st.initialized = snap.status.initialized
        /\ st.backupSafe = "BackupInProgress" => snap.backup
      BY SnapTypes DEF FinalConditions, ClusterStatus
  <2> HIDE DEF st
  <2>4. /\ snap'.spec = snap.spec /\ snap'.backup = snap.backup
        /\ snap'.status = st
      BY <2>1, SnapStatusReplaced
  <2>5. pc = "components" /\ pc' = "finish"
      BY <1>2 DEF ReconcileComponentsAndStatus
  <2> QED
      BY <2>2, <2>4, <2>5 DEF Handles, StageMoves, PhaseMoves
<1> QED
    BY <1>1, <1>2

\* What any step does to the reconcile in flight: nothing, or it begins, ends
\* or handles one.
LEMMA SnapMoves ==
    ASSUME TypeOK, [Next]_vars
    PROVE  \/ UNCHANGED <<pc, snap>>
           \/ pc' = "idle"
           \/ Prompt /\ StartReconcile
           \/ Handles
<1>1. CASE Prompt /\ Reconcile
  <2>1. CASE \/ ReconcilePaused \/ ReconcileSecretMissing
             \/ SaveParked \/ SaveFinal
             \/ InitJobsFail \/ ComponentsFail \/ UpgradeComponentFails
      BY <2>1 DEF ReconcilePaused, ReconcileSecretMissing, SaveParked,
                  SaveFinal, InitJobsFail, ComponentsFail,
                  UpgradeComponentFails, ReturnError, Return
  <2> QED
      BY <1>1, <2>1, PhaseHandles, MaintenanceHandles, RolloutHandles,
         StandardHandles DEF Reconcile, Return
<1>2. CASE Fault
    BY <1>2 DEF Fault, ReturnError, Return
<1>3. CASE PromptInformers \/ \E i \in Informers : LaggingInformer(i)
    BY <1>3 DEF PromptInformers, LaggingInformer, Deliver
<1>4. CASE Resync \/ Jobs \/ Rollouts \/ Drift \/ PromptRollouts
    BY <1>4
    DEF Resync, Jobs, JobCompletes, JobFails, Rollouts, RolloutStarts,
        RolloutEnds, Drift, PodFails, DeleteDeployment, DeploymentStatus,
        PromptRollouts
<1>5. CASE User
    BY <1>5 DEF User, SetVersion, SetPolicy, SetMaintenance, SetPaused,
                SetBackup, SetSecret, EditCluster
<1>6. CASE UNCHANGED vars
    BY <1>6 DEF vars
<1> QED
    BY <1>1, <1>2, <1>3, <1>4, <1>5, <1>6 DEF Next

\* The status of the reconcile in flight replaces that of the cluster.
SavesStatus ==
    /\ pc \in {"park", "finish"} /\ pc' = "idle"
    /\ cluster'.spec = cluster.spec /\ cluster'.backup = cluster.backup
    /\ cluster'.status = snap.status

\* A reconcile that is not going to act reports why, on the cluster it read.
ReportsStatus ==
    /\ pc = "idle" /\ "cluster" \notin lag
    /\ cluster'.spec = cluster.spec /\ cluster'.backup = cluster.backup
    /\ cluster'.status.phase = clusterCache.status.phase
    /\ cluster'.status.toVersion = clusterCache.status.toVersion
    /\ cluster'.status.initialized = clusterCache.status.initialized
    /\ cluster'.status.backupSafe = clusterCache.status.backupSafe

\* A user edits the cluster.
EditsCluster ==
    /\ cluster'.status = cluster.status
    /\ cluster'.spec.version = cluster.spec.version \/ SetVersion
    /\ cluster'.spec.maintenance = cluster.spec.maintenance \/ SetMaintenance
    /\ cluster'.backup = cluster.backup \/ SetBackup
    /\ lag' = lag \cup {"cluster"}

\* Reporting replaces the status that the cache shows, in three conditions.
LEMMA Reports ==
    ASSUME TypeOK, ReconcilePaused \/ ReconcileSecretMissing
    PROVE  /\ UNCHANGED <<clusterCache, pc, snap>>
           /\ UNCHANGED cluster \/ ReportsStatus
<1>1. clusterCache.status \in ClusterStatus
    BY DEF TypeOK, ClusterObject
<1>2. ASSUME NEW st, WriteStatus(st)
      PROVE  /\ cluster'.spec = cluster.spec
             /\ cluster'.backup = cluster.backup
             /\ cluster'.status = st
    BY <1>2 DEF WriteStatus, TypeOK, ClusterObject
<1>3. \A st \in {PausedStatus(clusterCache.status),
                 SecretMissing(clusterCache.status)} :
          /\ st.phase = clusterCache.status.phase
          /\ st.toVersion = clusterCache.status.toVersion
          /\ st.initialized = clusterCache.status.initialized
          /\ st.backupSafe = clusterCache.status.backupSafe
    BY <1>1 DEF PausedStatus, SecretMissing, ClusterStatus
<1>4. \/ UNCHANGED cluster
      \/ /\ pc = "idle" /\ "cluster" \notin lag
         /\ \E st \in {PausedStatus(clusterCache.status),
                       SecretMissing(clusterCache.status)} : WriteStatus(st)
    BY DEF ReconcilePaused, ReconcileSecretMissing, Dequeue
<1>5. UNCHANGED cluster \/ ReportsStatus
    BY <1>2, <1>3, <1>4 DEF ReportsStatus
<1> QED
    BY <1>5 DEF ReconcilePaused, ReconcileSecretMissing

\* Saving.
LEMMA Saves ==
    ASSUME TypeOK, SaveParked \/ SaveFinal
    PROVE  /\ UNCHANGED clusterCache /\ pc' = "idle"
           /\ UNCHANGED cluster \/ SavesStatus
<1>1. UNCHANGED cluster \/ WriteStatus(snap.status)
    BY DEF SaveParked, SaveFinal, UpdateStatus
<1>2. WriteStatus(snap.status) =>
          /\ cluster'.spec = cluster.spec
          /\ cluster'.backup = cluster.backup
          /\ cluster'.status = snap.status
    BY DEF WriteStatus, TypeOK, ClusterObject
<1> QED
    BY <1>1, <1>2 DEF SavesStatus, SaveParked, SaveFinal, Return

\* What any step does to the stored cluster and to the informer's copy.
LEMMA ClusterMoves ==
    ASSUME TypeOK, [Next]_vars
    PROVE  \/ /\ UNCHANGED cluster
              /\ clusterCache' \in {clusterCache, cluster}
           \/ SavesStatus /\ UNCHANGED clusterCache
           \/ ReportsStatus /\ UNCHANGED <<clusterCache, pc, snap>>
           \/ EditsCluster /\ UNCHANGED <<clusterCache, pc, snap>>
<1>1. CASE Reconcile
    BY <1>1, Reports, Saves
    DEF Reconcile, StartReconcile, UpgradePhaseWaiting,
        UpgradePhaseBlocked, UpgradePhaseConfig, UpgradePhaseMaintenanceJob,
        CreateMaintenanceJob, AwaitMaintenanceJob, RetryMaintenanceJob,
        UpgradePhaseInitJobs, CheckInitJobs, UpgradePhaseComponent,
        CheckRollout, ReconcileInitJobsAndStatus,
        ReconcileComponentsAndStatus, InitJobsFail, ComponentsFail,
        UpgradeComponentFails, clusterVars
<1>2. CASE PromptInformers \/ \E i \in Informers : LaggingInformer(i)
    BY <1>2 DEF PromptInformers, LaggingInformer, Deliver
<1>3. CASE Fault \/ Resync \/ Jobs \/ Rollouts \/ Drift \/ PromptRollouts
    BY <1>3
    DEF Fault, Resync, Jobs, JobCompletes, JobFails, Rollouts, RolloutStarts,
        RolloutEnds, Drift, PodFails, DeleteDeployment, DeploymentStatus,
        PromptRollouts, clusterVars
<1>4. CASE SetVersion
  <2>0. PICK v \in Versions : EditCluster([cluster EXCEPT !.spec.version = v])
      BY <1>4 DEF SetVersion
  <2>1. /\ cluster'.status = cluster.status
        /\ cluster'.backup = cluster.backup
        /\ cluster'.spec.maintenance = cluster.spec.maintenance
        /\ lag' = lag \cup {"cluster"}
        /\ UNCHANGED <<clusterCache, pc, snap>>
      BY <2>0 DEF EditCluster, TypeOK, ClusterObject, ClusterSpec
  <2> QED
      BY <1>4, <2>1 DEF EditsCluster
<1>5. CASE SetPolicy \/ SetMaintenance \/ SetPaused
  <2>1. /\ cluster'.status = cluster.status
        /\ cluster'.backup = cluster.backup
        /\ cluster'.spec.version = cluster.spec.version
        /\ cluster'.spec.maintenance = cluster.spec.maintenance
              \/ SetMaintenance
        /\ lag' = lag \cup {"cluster"}
        /\ UNCHANGED <<clusterCache, pc, snap>>
    <3>1. cluster \in ClusterObject /\ cluster.spec \in ClusterSpec
        BY DEF TypeOK, ClusterObject
    <3>2. \E new : /\ EditCluster(new)
                   /\ new.status = cluster.status
                   /\ new.backup = cluster.backup
                   /\ new.spec.version = cluster.spec.version
                   /\ new.spec.maintenance = cluster.spec.maintenance
                         \/ SetMaintenance
      <4>1. ASSUME NEW x
            PROVE  /\ \A new \in {[cluster EXCEPT !.spec.upgradePolicy = x],
                                  [cluster EXCEPT !.spec.maintenance = x],
                                  [cluster EXCEPT !.spec.paused = x]} :
                         /\ new.status = cluster.status
                         /\ new.backup = cluster.backup
                         /\ new.spec.version = cluster.spec.version
                   /\ \A new \in {[cluster EXCEPT !.spec.upgradePolicy = x],
                                  [cluster EXCEPT !.spec.paused = x]} :
                         new.spec.maintenance = cluster.spec.maintenance
          BY <3>1 DEF ClusterObject, ClusterSpec
      <4>2. CASE SetPolicy
          BY <4>1, <4>2 DEF SetPolicy
      <4>3. CASE SetMaintenance
          BY <4>1, <4>3 DEF SetMaintenance
      <4>4. CASE SetPaused
          BY <4>1, <4>4 DEF SetPaused
      <4> QED
          BY <1>5, <4>2, <4>3, <4>4
    <3> QED
        BY <3>2 DEF EditCluster
  <2> QED
      BY <2>1 DEF EditsCluster
<1>6. CASE SetBackup
  <2>1. /\ cluster'.status = cluster.status
        /\ cluster'.spec = cluster.spec
        /\ lag' = lag \cup {"cluster"}
        /\ UNCHANGED <<clusterCache, pc, snap>>
      BY <1>6 DEF SetBackup, EditCluster, TypeOK, ClusterObject
  <2> QED
      BY <1>6, <2>1 DEF EditsCluster
<1>7. CASE SetSecret \/ UNCHANGED vars
    BY <1>7 DEF SetSecret, vars, clusterVars
<1> QED
    BY <1>1, <1>2, <1>3, <1>4, <1>5, <1>6, <1>7 DEF Next, User

\* The informer's copy of the cluster is current unless the lag says that it
\* is not.
ClusterCacheCurrent == "cluster" \notin lag => clusterCache = cluster

\* Putting a status on the cluster is noted in the lag, unless it is the one
\* the cluster has.
LEMMA WriteIsNoted ==
    ASSUME TypeOK, ClusterCacheCurrent, UNCHANGED clusterCache,
           \/ UNCHANGED <<cluster, lag>>
           \/ \E st : WriteStatus(st)
    PROVE  ClusterCacheCurrent'
<1>1. ASSUME NEW st, WriteStatus(st)
      PROVE  ClusterCacheCurrent'
  <2>1. CASE st = cluster.status
    <3>1. cluster' = cluster /\ lag' = lag
        BY <1>1, <2>1 DEF WriteStatus, TypeOK, ClusterObject
    <3> QED
        BY <3>1 DEF ClusterCacheCurrent
  <2>2. CASE st # cluster.status
      BY <1>1, <2>2 DEF WriteStatus, ClusterCacheCurrent
  <2> QED
      BY <2>1, <2>2
<1> QED
    BY <1>1 DEF ClusterCacheCurrent

\* Delivering is the only way out of the lag.
LEMMA CurrentStep ==
    TypeOK /\ ClusterCacheCurrent /\ [Next]_vars => ClusterCacheCurrent'
<1> SUFFICES ASSUME TypeOK, ClusterCacheCurrent, [Next]_vars
             PROVE  ClusterCacheCurrent'
    OBVIOUS
<1>1. ASSUME UNCHANGED clusterVars, lag \subseteq lag'
      PROVE  ClusterCacheCurrent'
    BY <1>1 DEF ClusterCacheCurrent, clusterVars
<1>2. CASE ReconcilePaused \/ ReconcileSecretMissing \/ SaveParked
              \/ SaveFinal
    BY <1>2, WriteIsNoted
    DEF ReconcilePaused, ReconcileSecretMissing, SaveParked, SaveFinal,
        UpdateStatus
<1>3. ASSUME NEW n, ReconcileInitJobs(n)
      PROVE  lag \subseteq lag'
    BY <1>3 DEF ReconcileInitJobs
<1>4. ASSUME NEW cs, ReconcileDeployments(cs)
      PROVE  lag \subseteq lag'
    BY <1>4 DEF ReconcileDeployments
<1>5. CASE UpgradePhaseInitJobs \/ ReconcileInitJobsAndStatus \/ InitJobsFail
    BY <1>1, <1>3, <1>5
    DEF UpgradePhaseInitJobs, ReconcileInitJobsAndStatus, InitJobsFail
<1>6. CASE UpgradePhaseComponent \/ ReconcileComponentsAndStatus
              \/ ComponentsFail
    BY <1>1, <1>4, <1>6
    DEF UpgradePhaseComponent, ReconcileComponentsAndStatus, ComponentsFail
<1>7. CASE UpgradePhaseMaintenanceJob
  <2>1. UNCHANGED clusterVars /\ lag \subseteq lag'
      BY <1>7 DEF UpgradePhaseMaintenanceJob, CreateMaintenanceJob,
                  AwaitMaintenanceJob, RetryMaintenanceJob
  <2> QED
      BY <1>1, <2>1
<1>8. CASE \/ StartReconcile \/ UpgradePhaseWaiting \/ UpgradePhaseBlocked
           \/ UpgradePhaseConfig \/ CheckInitJobs \/ CheckRollout
           \/ UpgradeComponentFails \/ Fault \/ Resync \/ SetSecret
    BY <1>1, <1>8
    DEF StartReconcile, UpgradePhaseWaiting, UpgradePhaseBlocked,
        UpgradePhaseConfig, CheckInitJobs, CheckRollout,
        UpgradeComponentFails, Fault, Resync, SetSecret
<1>9. CASE Jobs \/ Rollouts \/ Drift \/ PromptRollouts
  <2>1. UNCHANGED clusterVars /\ lag \subseteq lag'
      BY <1>9
      DEF Jobs, JobCompletes, JobFails, Rollouts, RolloutStarts, RolloutEnds,
          Drift, PodFails, DeleteDeployment, DeploymentStatus, PromptRollouts
  <2> QED
      BY <1>1, <2>1
<1>10. CASE SetVersion \/ SetPolicy \/ SetMaintenance \/ SetPaused
               \/ SetBackup
  <2>1. "cluster" \in lag'
      BY <1>10 DEF SetVersion, SetPolicy, SetMaintenance, SetPaused,
                   SetBackup, EditCluster
  <2> QED
      BY <2>1 DEF ClusterCacheCurrent
<1>11. ASSUME NEW is, Deliver(is)
       PROVE  ClusterCacheCurrent'
  <2>1. CASE "cluster" \in is
      BY <1>11, <2>1 DEF Deliver, ClusterCacheCurrent
  <2>2. CASE "cluster" \notin is
    <3>1. \A i \in is : "cluster" \notin Watched(i)
        BY <2>2 DEF Watched, Components
    <3>2. "cluster" \in lag => "cluster" \in lag'
        BY <1>11, <3>1 DEF Deliver
    <3> QED
        BY <1>11, <2>2, <3>2 DEF Deliver, ClusterCacheCurrent
  <2> QED
      BY <2>1, <2>2
<1>12. CASE UNCHANGED vars
    BY <1>12 DEF vars, ClusterCacheCurrent
<1> QED
    BY <1>2, <1>5, <1>6, <1>7, <1>8, <1>9, <1>10, <1>11, <1>12
    DEF Next, Reconcile, User, PromptInformers, LaggingInformer

\* The manager's cache is never silently out of date.
LEMMA CurrentAlways == Spec => []ClusterCacheCurrent
<1>1. Init => ClusterCacheCurrent
    BY DEF Init, ClusterCacheCurrent
<1> QED
    BY <1>1, CurrentStep, TypeCorrect, PTL DEF Spec

-----------------------------------------------------------------------------
(* The init jobs that have run *)

\* The versions all of whose init jobs have completed.
RanVersions ==
    {v \in Versions : \A i \in 1..Len(InitJobs) :
                          jobs[<<InitJobs[i], v>>] = "complete"}

\* What the cache shows complete is complete.
CompleteIsComplete ==
    \A j \in JobNames : jobCache[j] = "complete" => jobs[j] = "complete"

\* The init jobs have names.
LEMMA InitJobNames ==
    /\ Len(InitJobs) \in Nat
    /\ \A i \in 1..Len(InitJobs) : \A v \in Versions :
          <<InitJobs[i], v>> \in JobNames
BY ReconcilerAssumption DEF JobNames, JobKinds

\* A job that has completed stays so.
LEMMA CompletedJobsStay ==
    ASSUME TypeOK, FailedJobsAreGoneOrFailed, [Next]_vars,
           NEW j \in JobNames, jobs[j] = "complete"
    PROVE  jobs'[j] = "complete"
BY JobWrites DEF FailedJobsAreGoneOrFailed

\* So a version whose init jobs have run stays one of them.
LEMMA RanVersionsGrow ==
    ASSUME TypeOK, FailedJobsAreGoneOrFailed, [Next]_vars
    PROVE  RanVersions \subseteq RanVersions'
BY CompletedJobsStay, InitJobNames DEF RanVersions

LEMMA CompleteStep ==
    TypeOK /\ FailedJobsAreGoneOrFailed /\ CompleteIsComplete /\ [Next]_vars
        => CompleteIsComplete'
<1> SUFFICES ASSUME TypeOK, FailedJobsAreGoneOrFailed, CompleteIsComplete,
                    [Next]_vars, NEW j \in JobNames,
                    jobCache'[j] = "complete"
             PROVE  jobs'[j] = "complete"
    BY DEF CompleteIsComplete
<1>1. CASE jobCache' # jobCache
    BY <1>1, JobCacheMoves
<1>2. CASE jobCache' = jobCache
    BY <1>2, CompletedJobsStay DEF CompleteIsComplete
<1> QED
    BY <1>1, <1>2

LEMMA CompleteAlways == Spec => []CompleteIsComplete
<1>1. Init => CompleteIsComplete
    BY DEF Init, CompleteIsComplete
<1> QED
    BY <1>1, CompleteStep, FailedJobsInvariant, TypeCorrect, PTL DEF Spec

\* Where the cache shows all init jobs of the reconcile's version complete,
\* they have run.
LEMMA ReadyMeansRan ==
    ASSUME TypeOK, CompleteIsComplete, InitJobsReady
    PROVE  snap.spec.version \in RanVersions
<1>1. snap.spec.version \in Versions
    BY DEF TypeOK, ClusterObject, ClusterSpec
<1> QED
    BY <1>1, InitJobNames
    DEF InitJobsReady, InitJobName, CompleteIsComplete, RanVersions

-----------------------------------------------------------------------------
(* Upgrades past their InitJobs phase *)

\* What a status says about the init jobs.  ran: the versions whose jobs have
\* run; v: the version in the spec of this copy of the cluster; asked: the one
\* in the spec of the stored cluster.
RanStatus(ran, st, v, asked) ==
    /\ st.phase = "None" => v = InitialVersion
    /\ st.phase # "None" =>
          InitialVersion <= st.toVersion /\ st.toVersion <= v
    /\ st.phase \in EarlyPhases =>
          /\ InitialVersion < st.toVersion
          /\ st.toVersion \in ran \cup {asked}
    /\ st.phase \in LatePhases => st.toVersion \in ran
    /\ st.phase = "Complete" => st.toVersion \in ran \cup {InitialVersion}

\* The invariant.  A copy of the cluster that is behind may show an upgrade as
\* begun that is over by now, but then its init jobs have run.
RanInv ==
    LET asked == cluster.spec.version
    IN /\ RanStatus(RanVersions, cluster.status, asked, asked)
       /\ RanStatus(RanVersions, clusterCache.status,
                    clusterCache.spec.version, asked)
       /\ clusterCache.spec.version <= asked
       /\ clusterCache.spec.version \in
             RanVersions \cup {InitialVersion, asked}
       /\ pc # "idle" =>
             /\ RanStatus(RanVersions, snap.status, snap.spec.version, asked)
             /\ snap.spec.version <= asked

\* Versions are numbers.
LEMMA VersionsAreNumbers ==
    /\ \A v \in Versions : v \in Nat
    /\ \A st \in ClusterStatus : st.toVersion \in Nat
    /\ \A o \in ClusterObject :
          /\ o.spec.version \in Versions /\ o.spec.version \in Nat
          /\ o.status \in ClusterStatus
<1>1. \A v \in Versions : v \in Nat
    BY VersionsAssumption
<1>2. ASSUME NEW st \in ClusterStatus
      PROVE  st.toVersion \in Nat
  <2>1. st.toVersion \in Versions \cup {NoVersion}
      BY DEF ClusterStatus
  <2> QED
      BY <1>1, <2>1 DEF NoVersion
<1>3. ASSUME NEW o \in ClusterObject
      PROVE  o.spec.version \in Versions /\ o.status \in ClusterStatus
    BY DEF ClusterObject, ClusterSpec
<1> QED
    BY <1>1, <1>2, <1>3

\* RanStatus depends on the phase and the version of the upgrade only, and
\* stays true while more versions' jobs have run.
LEMMA RanStatusKept ==
    ASSUME NEW ran, NEW more, ran \subseteq more, NEW st, NEW new, NEW v,
           NEW asked, new.phase = st.phase, new.toVersion = st.toVersion,
           RanStatus(ran, st, v, asked)
    PROVE  RanStatus(more, new, v, asked)
BY DEF RanStatus

\* A user may ask for another version once the jobs of the former have run.
LEMMA RanStatusAsked ==
    ASSUME NEW ran \in SUBSET Versions, NEW st \in ClusterStatus,
           NEW v \in Versions, NEW asked \in Versions, NEW new \in Versions,
           asked \in ran \cup {InitialVersion}, RanStatus(ran, st, v, asked)
    PROVE  RanStatus(ran, st, v, new)
<1>1. InitialVersion \in Nat /\ asked \in Nat
    BY VersionsAssumption
<1>2. st.phase \in EarlyPhases => st.toVersion \in ran
    BY <1>1 DEF RanStatus
<1> QED
    BY <1>2 DEF RanStatus

\* A status on a cluster whose spec has moved on.
LEMMA RanStatusMoved ==
    ASSUME NEW ran, NEW st \in ClusterStatus, NEW v \in Versions,
           NEW asked \in Versions, st.phase # "None", v <= asked,
           RanStatus(ran, st, v, asked)
    PROVE  RanStatus(ran, st, asked, asked)
<1>1. st.toVersion \in Nat /\ v \in Nat /\ asked \in Nat
    BY VersionsAreNumbers
<1>2. st.toVersion <= asked
    BY <1>1 DEF RanStatus
<1> QED
    BY <1>2 DEF RanStatus

\* A step of the reconcile in flight.
LEMMA RanStatusHandled ==
    ASSUME TypeOK, CompleteIsComplete, Handles, NEW asked \in Versions,
           snap.spec.version <= asked,
           RanStatus(RanVersions, snap.status, snap.spec.version, asked)
    PROVE  RanStatus(RanVersions, snap'.status, snap.spec.version, asked)
<1> DEFINE old == snap.status
           new == snap'.status
           v == snap.spec.version
<1>1. new.toVersion = old.toVersion /\ PhaseMoves(old.phase, new.phase)
    BY DEF Handles
<1>2. /\ old \in ClusterStatus /\ old.toVersion \in Nat
      /\ v \in Nat /\ asked \in Nat
    BY VersionsAreNumbers DEF TypeOK
<1> HIDE DEF old, new
<1>3. RanStatus(RanVersions, old, v, asked)
    BY DEF old
<1>4. CASE new.phase = old.phase
    BY <1>1, <1>3, <1>4, RanStatusKept DEF new
<1>5. CASE old.phase \in EarlyPhases /\ new.phase \in EarlyPhases
  <2>1. "None" \notin EarlyPhases /\ EarlyPhases \cap LatePhases = {}
           /\ "Complete" \notin EarlyPhases
      BY DEF EarlyPhases, LatePhases, Components
  <2>2. RanStatus(RanVersions, new, v, asked)
      BY <1>1, <1>3, <1>5, <2>1 DEF RanStatus
  <2> QED
      BY <2>2 DEF new
<1>6. CASE old.phase = "InitJobs" /\ new.phase = "FlowAPI" /\ InitJobsReady
  <2>1. v \in RanVersions
      BY <1>6, ReadyMeansRan
  <2>2. old.toVersion \in RanVersions
    <3>1. old.toVersion \in RanVersions \cup {asked} /\ old.toVersion <= v
        BY <1>3, <1>6 DEF RanStatus, EarlyPhases
    <3> HIDE DEF v
    <3>2. CASE old.toVersion = asked
      <4>1. v <= asked
          BY DEF v
      <4>2. old.toVersion = v
          BY <1>2, <3>1, <3>2, <4>1
      <4> QED
          BY <2>1, <4>2
    <3> QED
        BY <3>1, <3>2
  <2>3. RanStatus(RanVersions, new, v, asked)
      BY <1>1, <1>3, <1>6, <2>2 DEF RanStatus, EarlyPhases
  <2> QED
      BY <2>3 DEF new
<1>7. CASE /\ old.phase \in LatePhases
           /\ new.phase \in LatePhases \cup {"Complete"}
  <2>1. /\ "None" \notin LatePhases \cup {"Complete"}
        /\ EarlyPhases \cap (LatePhases \cup {"Complete"}) = {}
      BY DEF EarlyPhases, LatePhases, Components
  <2>2. RanStatus(RanVersions, new, v, asked)
      BY <1>1, <1>3, <1>7, <2>1 DEF RanStatus
  <2> QED
      BY <2>2 DEF new
<1> QED
    BY <1>1, <1>4, <1>5, <1>6, <1>7
    DEF PhaseMoves, EarlyPhases, LatePhases, Components, old, new

\* The status a reconcile begins with.
LEMMA RanStatusStarted ==
    ASSUME TypeOK, RanInv, StartReconcile
    PROVE  /\ RanStatus(RanVersions, snap'.status, snap'.spec.version,
                        cluster.spec.version)
           /\ snap'.spec.version = clusterCache.spec.version
<1> DEFINE v == clusterCache.spec.version
           asked == cluster.spec.version
           st == [clusterCache.status EXCEPT !.reconciling = "True",
                                             !.catalogReady = "True"]
           r == RecordUpgrade(st, v)
           d == DetectUpgrade(r, v, clusterCache.backup)
<1>1. /\ clusterCache \in ClusterObject /\ clusterCache.status \in ClusterStatus
      /\ v \in Versions /\ v \in Nat /\ asked \in Nat /\ InitialVersion \in Nat
    BY VersionsAreNumbers, VersionsAssumption DEF TypeOK
<1>2. snap'.status = d /\ snap'.spec.version = v
    BY <1>1 DEF StartReconcile, ClusterObject
<1>3. /\ st \in ClusterStatus
      /\ st.phase = clusterCache.status.phase
      /\ st.toVersion = clusterCache.status.toVersion
    BY <1>1 DEF ClusterStatus, ConditionStatus
<1>4. RanStatus(RanVersions, st, v, asked)
  <2> HIDE DEF st
  <2> QED
      BY <1>3, RanStatusKept DEF RanInv
<1> HIDE DEF st
<1>5. /\ r \in ClusterStatus /\ r.phase # "None"
      /\ RanStatus(RanVersions, r, v, asked)
  <2>1. CASE st.phase = "None"
    <3>1. /\ r.phase = "Complete" /\ r.toVersion = v
          /\ r \in ClusterStatus
        BY <1>1, <1>3, <2>1 DEF RecordUpgrade, ClusterStatus, UpgradePhases
    <3>2. v = InitialVersion
        BY <1>4, <2>1 DEF RanStatus
    <3> HIDE DEF r, v
    <3> QED
        BY <1>1, <3>1, <3>2 DEF RanStatus, EarlyPhases, LatePhases, Components
  <2>2. CASE st.phase # "None"
      BY <1>3, <1>4, <2>2 DEF RecordUpgrade
  <2> QED
      BY <2>1, <2>2
<1>6. r.toVersion \in Nat
    BY <1>5, VersionsAreNumbers
<1> HIDE DEF r
<1>7. RanStatus(RanVersions, d, v, asked)
  <2>1. CASE ~clusterCache.backup /\ r.phase = "Complete" /\ r.toVersion # v
    <3>1. d.phase = "Waiting" /\ d.toVersion = v
        BY <1>5, <2>1 DEF DetectUpgrade, ClusterStatus
    <3>2. InitialVersion < v
        BY <1>1, <1>5, <1>6, <2>1 DEF RanStatus
    <3>3. v \in RanVersions \cup {asked}
        BY <1>1, <3>2 DEF RanInv
    <3> HIDE DEF d, v, asked
    <3> QED
        BY <1>1, <3>1, <3>2, <3>3
        DEF RanStatus, EarlyPhases, LatePhases, Components
  <2>2. CASE ~(~clusterCache.backup /\ r.phase = "Complete" /\ r.toVersion # v)
      BY <1>5, <2>2 DEF DetectUpgrade
  <2> QED
      BY <2>1, <2>2
<1> QED
    BY <1>2, <1>7

\* The version is set to a later one, and only once the upgrade to the former
\* is complete.
LEMMA VersionSet ==
    ASSUME ~EditsMidUpgrade, ~Rollbacks, TypeOK, SetVersion
    PROVE  /\ cluster.status.phase = "Complete"
           /\ cluster.status.toVersion = cluster.spec.version
           /\ cluster'.spec.version \in Versions
           /\ cluster.spec.version < cluster'.spec.version
<1>1. UpgradeSettled
    BY DEF SetVersion
<1>2. PICK v \in Versions \ {cluster.spec.version} :
          /\ v > cluster.spec.version
          /\ EditCluster([cluster EXCEPT !.spec.version = v])
    BY DEF SetVersion
<1>3. cluster'.spec.version = v
    BY <1>2 DEF EditCluster, TypeOK, ClusterObject, ClusterSpec
<1>4. v \in Nat /\ cluster.spec.version \in Nat
    BY VersionsAreNumbers DEF TypeOK
<1> QED
    BY <1>1, <1>2, <1>3, <1>4 DEF UpgradeSettled

LEMMA RanStep ==
    ASSUME ~EditsMidUpgrade, ~Rollbacks, TypeOK, TypeOK', StatusInv,
           CompleteIsComplete, FailedJobsAreGoneOrFailed,
           ClusterCacheCurrent, RanInv, [Next]_vars
    PROVE  RanInv'
<1> DEFINE asked == cluster.spec.version
           held == clusterCache.spec.version
           ran == RanVersions
           more == RanVersions'
<1>0. /\ asked \in Versions /\ asked \in Nat /\ held \in Versions
      /\ held \in Nat /\ cluster'.spec.version \in Versions
      /\ cluster.status \in ClusterStatus
      /\ clusterCache.status \in ClusterStatus
      /\ snap.status \in ClusterStatus /\ snap.spec.version \in Versions
      /\ snap.spec.version \in Nat /\ InitialVersion \in Nat
    BY VersionsAreNumbers, VersionsAssumption DEF TypeOK
<1>1. ran \subseteq more /\ more \subseteq Versions
    BY RanVersionsGrow DEF RanVersions
<1>2. /\ RanStatus(ran, cluster.status, asked, asked)
      /\ RanStatus(ran, clusterCache.status, held, asked)
      /\ held <= asked /\ held \in ran \cup {InitialVersion, asked}
      /\ pc # "idle" => /\ RanStatus(ran, snap.status, snap.spec.version, asked)
                        /\ snap.spec.version <= asked
    BY DEF RanInv
<1> SUFFICES /\ RanStatus(more, cluster'.status, cluster'.spec.version,
                          cluster'.spec.version)
             /\ RanStatus(more, clusterCache'.status,
                          clusterCache'.spec.version, cluster'.spec.version)
             /\ clusterCache'.spec.version <= cluster'.spec.version
             /\ clusterCache'.spec.version \in
                   more \cup {InitialVersion, cluster'.spec.version}
             /\ pc' # "idle" =>
                   /\ RanStatus(more, snap'.status, snap'.spec.version,
                                cluster'.spec.version)
                   /\ snap'.spec.version <= cluster'.spec.version
    BY DEF RanInv, RanStatus
<1>3. /\ RanStatus(more, cluster.status, asked, asked)
      /\ RanStatus(more, clusterCache.status, held, asked)
      /\ held \in more \cup {InitialVersion, asked}
      /\ pc # "idle" => RanStatus(more, snap.status, snap.spec.version, asked)
    BY <1>1, <1>2, RanStatusKept
<1> HIDE DEF ran, more
<1>4. pc' # "idle" /\ asked = cluster'.spec.version =>
          /\ RanStatus(more, snap'.status, snap'.spec.version, asked)
          /\ snap'.spec.version <= asked
  <2> SUFFICES ASSUME pc' # "idle"
               PROVE  /\ RanStatus(more, snap'.status, snap'.spec.version,
                                   asked)
                      /\ snap'.spec.version <= asked
      OBVIOUS
  <2>1. CASE UNCHANGED <<pc, snap>>
      BY <1>2, <1>3, <2>1
  <2>2. CASE StartReconcile
    <3>1. /\ RanStatus(ran, snap'.status, snap'.spec.version, asked)
          /\ snap'.spec.version = held
        BY <2>2, RanStatusStarted DEF ran
    <3> QED
        BY <1>1, <1>2, <3>1, RanStatusKept
  <2>3. CASE Handles
    <3>1. pc # "idle" /\ snap'.spec = snap.spec
        BY <2>3 DEF Handles, StageMoves
    <3>2. RanStatus(ran, snap'.status, snap.spec.version, asked)
        BY <1>0, <1>2, <2>3, <3>1, RanStatusHandled DEF ran
    <3>3. RanStatus(more, snap'.status, snap.spec.version, asked)
        BY <1>1, <3>2, RanStatusKept
    <3> QED
        BY <1>2, <3>1, <3>3
  <2> QED
      BY <2>1, <2>2, <2>3, SnapMoves
<1>5. CASE UNCHANGED cluster /\ clusterCache' \in {clusterCache, cluster}
  <2>1. CASE clusterCache' = clusterCache
      BY <1>2, <1>3, <1>4, <1>5, <2>1
  <2>2. CASE clusterCache' = cluster
      BY <1>0, <1>3, <1>4, <1>5, <2>2
  <2> QED
      BY <1>5, <2>1, <2>2
<1>6. CASE SavesStatus /\ UNCHANGED clusterCache
  <2>1. /\ pc # "idle" /\ pc' = "idle" /\ cluster'.spec.version = asked
        /\ cluster'.status = snap.status
      BY <1>6 DEF SavesStatus
  <2>2. snap.status.phase # "None"
      BY <2>1 DEF StatusInv, SnapshotTracks
  <2>3. RanStatus(more, snap.status, asked, asked)
      BY <1>0, <1>2, <1>3, <2>1, <2>2, RanStatusMoved
  <2> QED
      BY <1>2, <1>3, <1>6, <2>1, <2>3
<1>7. CASE ReportsStatus /\ UNCHANGED <<clusterCache, pc, snap>>
  <2>1. /\ cluster'.spec.version = asked
        /\ cluster'.status.phase = cluster.status.phase
        /\ cluster'.status.toVersion = cluster.status.toVersion
      BY <1>7 DEF ReportsStatus, ClusterCacheCurrent
  <2>2. RanStatus(more, cluster'.status, asked, asked)
      BY <1>3, <2>1, RanStatusKept
  <2> QED
      BY <1>2, <1>3, <1>4, <1>7, <2>1, <2>2
<1>8. CASE /\ EditsCluster /\ cluster'.spec.version = asked
           /\ UNCHANGED <<clusterCache, pc, snap>>
  <2>1. cluster'.status = cluster.status
      BY <1>8 DEF EditsCluster
  <2> QED
      BY <1>2, <1>3, <1>4, <1>8, <2>1
<1>9. CASE /\ EditsCluster /\ SetVersion
           /\ UNCHANGED <<clusterCache, pc, snap>>
  <2> DEFINE new == cluster'.spec.version
  <2>1. /\ cluster.status.phase = "Complete" /\ cluster.status.toVersion = asked
        /\ new \in Versions /\ asked < new
      BY <1>9, VersionSet
  <2>2. cluster'.status = cluster.status
      BY <1>9 DEF EditsCluster
  <2>3. asked \in more \cup {InitialVersion}
      BY <1>3, <2>1 DEF RanStatus
  <2>4. new \in Nat
      BY <2>1, VersionsAreNumbers
  <2> HIDE DEF new, asked, held
  <2>5. /\ RanStatus(more, cluster.status, asked, new)
        /\ RanStatus(more, clusterCache.status, held, new)
        /\ pc # "idle" => RanStatus(more, snap.status, snap.spec.version, new)
      BY <1>0, <1>1, <1>3, <2>1, <2>3, RanStatusAsked
  <2>6. RanStatus(more, cluster.status, new, new)
    <3>1. asked <= new /\ cluster.status.phase # "None"
        BY <1>0, <2>1, <2>4
    <3> QED
        BY <1>0, <2>1, <2>5, <3>1, RanStatusMoved
  <2>7. held <= new /\ held \in more \cup {InitialVersion, new}
      BY <1>0, <1>2, <1>3, <2>1, <2>3, <2>4
  <2>8. pc # "idle" => snap.spec.version <= new
      BY <1>0, <1>2, <2>1, <2>4
  <2> QED
      BY <1>9, <2>2, <2>5, <2>6, <2>7, <2>8 DEF new, held
<1>10. cluster'.spec.version = asked \/ SetVersion \/ ~EditsCluster
    BY DEF EditsCluster
<1> QED
    BY <1>5, <1>6, <1>7, <1>8, <1>9, <1>10, ClusterMoves

LEMMA RanAlways ==
    ASSUME ~EditsMidUpgrade, ~Rollbacks
    PROVE  Spec => []RanInv
<1>1. Init => RanInv
    BY VersionsAssumption
    DEF Init, RanInv, RanStatus, NewCluster, EmptyStatus, EarlyPhases,
        LatePhases, Components
<1>2. /\ TypeOK /\ TypeOK' /\ StatusInv /\ CompleteIsComplete
      /\ FailedJobsAreGoneOrFailed /\ ClusterCacheCurrent /\ RanInv
      /\ [Next]_vars
      => RanInv'
    BY RanStep
<1> QED
    BY <1>1, <1>2, TypeCorrect, StatusInvariant, CompleteAlways,
       FailedJobsInvariant, CurrentAlways, PTL DEF Spec

\* An upgrade that the status shows past its InitJobs phase has run all the
\* init jobs of its version, whatever order stale reconciles, failed jobs and
\* the user's requests come in, provided that the version is left alone while
\* an upgrade is under way and never goes back.
THEOREM InitJobsComeFirst ==
    ~EditsMidUpgrade /\ ~Rollbacks => (Spec => []InitJobsPrecedeRollout)
<1>1. RanInv => InitJobsPrecedeRollout
    BY DEF RanInv, RanStatus, LatePhases, RanVersions, InitJobsPrecedeRollout
<1>2. ASSUME ~EditsMidUpgrade, ~Rollbacks
      PROVE  Spec => []InitJobsPrecedeRollout
    BY <1>1, <1>2, RanAlways, PTL
<1> QED
    BY <1>2

-----------------------------------------------------------------------------
(* The Initialized condition *)

\* What a reconcile begins with is what the cache shows, but for the phase and
\* the version of an upgrade it records or detects.
LEMMA Starts ==
    ASSUME TypeOK, StartReconcile
    PROVE  /\ snap'.spec = clusterCache.spec
           /\ snap'.backup = clusterCache.backup
           /\ snap'.status.initialized = clusterCache.status.initialized
           /\ snap'.status.backupSafe = clusterCache.status.backupSafe
           /\ pc' \in {"upgrade", "init"}
           /\ pc' = "upgrade" => ~snap'.backup
<1> DEFINE v == clusterCache.spec.version
           st == [clusterCache.status EXCEPT !.reconciling = "True",
                                             !.catalogReady = "True"]
           r == RecordUpgrade(st, v)
           d == DetectUpgrade(r, v, clusterCache.backup)
<1>1. /\ clusterCache \in ClusterObject
      /\ clusterCache.status \in ClusterStatus /\ v \in Versions
    BY VersionsAreNumbers DEF TypeOK
<1>2. /\ snap'.status = d /\ snap'.spec = clusterCache.spec
      /\ snap'.backup = clusterCache.backup
    BY <1>1 DEF StartReconcile, ClusterObject
<1>3. /\ st \in ClusterStatus
      /\ st.initialized = clusterCache.status.initialized
      /\ st.backupSafe = clusterCache.status.backupSafe
    BY <1>1 DEF ClusterStatus, ConditionStatus
<1> HIDE DEF st
<1>4. /\ r \in ClusterStatus /\ r.initialized = st.initialized
      /\ r.backupSafe = st.backupSafe
    BY <1>1, <1>3 DEF RecordUpgrade, ClusterStatus, UpgradePhases
<1> HIDE DEF r
<1>5. d.initialized = r.initialized /\ d.backupSafe = r.backupSafe
    BY <1>4 DEF DetectUpgrade, ClusterStatus
<1>6. /\ pc' \in {"upgrade", "init"}
      /\ pc' = "upgrade" => ~clusterCache.backup
    BY DEF StartReconcile
<1> QED
    BY <1>2, <1>3, <1>4, <1>5, <1>6

\* Only setting or removing the annotation takes from its budget.
LEMMA BackupBudget ==
    ASSUME TypeOK, [Next]_vars
    PROVE  budget'["backup"] = budget["backup"] \/ SetBackup
<1>1. ASSUME NEW d \in Disturbances \ {"backup"}, Spend(d)
      PROVE  budget'["backup"] = budget["backup"]
    BY <1>1 DEF Spend, TypeOK, Disturbances
<1>2. CASE Reconcile
  <2>1. CASE InitJobsFail \/ ComponentsFail
      BY <1>1, <2>1 DEF InitJobsFail, ComponentsFail, Disturbances
  <2> QED
      BY <1>2, <2>1
      DEF Reconcile, ReconcilePaused, ReconcileSecretMissing, StartReconcile,
          UpgradePhaseWaiting, UpgradePhaseBlocked, UpgradePhaseConfig,
          UpgradePhaseMaintenanceJob, CreateMaintenanceJob,
          AwaitMaintenanceJob, RetryMaintenanceJob, UpgradePhaseInitJobs,
          CheckInitJobs, UpgradePhaseComponent, CheckRollout,
          ReconcileInitJobsAndStatus, ReconcileComponentsAndStatus,
          SaveParked, SaveFinal, UpgradeComponentFails
<1>3. CASE PromptInformers \/ \E i \in Informers : LaggingInformer(i)
    BY <1>3 DEF PromptInformers, LaggingInformer, Deliver
<1>4. CASE Fault
    BY <1>1, <1>4 DEF Fault, Disturbances
<1>5. CASE Resync \/ Rollouts \/ PromptRollouts
    BY <1>5 DEF Resync, Rollouts, RolloutStarts, RolloutEnds, PromptRollouts
<1>6. CASE Jobs \/ Drift
    BY <1>1, <1>6 DEF Jobs, JobCompletes, JobFails, Drift, PodFails,
                      DeleteDeployment, Disturbances
<1>7. CASE User
    BY <1>1, <1>7 DEF User, SetVersion, SetPolicy, SetMaintenance, SetPaused,
                      SetSecret, Disturbances
<1>8. CASE UNCHANGED vars
    BY <1>8 DEF vars
<1> QED
    BY <1>2, <1>3, <1>4, <1>5, <1>6, <1>7, <1>8 DEF Next

\* Without a backup, no copy of the cluster shows one, and Initialized=True in
\* any of them says that the jobs of some version have run.
InitializedInv ==
    /\ budget["backup"] = 0
    /\ ~cluster.backup /\ ~clusterCache.backup
    /\ pc # "idle" => ~snap.backup
    /\ cluster.status.initialized = "True" => RanVersions # {}
    /\ clusterCache.status.initialized = "True" => RanVersions # {}
    /\ pc # "idle" /\ snap.status.initialized = "True" => RanVersions # {}

LEMMA InitializedStep ==
    ASSUME TypeOK, CompleteIsComplete, FailedJobsAreGoneOrFailed,
           InitializedInv, [Next]_vars
    PROVE  InitializedInv'
<1>0. ~SetBackup
    BY DEF InitializedInv, SetBackup, Spend
<1>1. budget'["backup"] = 0
    BY <1>0, BackupBudget DEF InitializedInv
<1>2. RanVersions # {} => RanVersions' # {}
    BY RanVersionsGrow
<1>3. /\ ~cluster'.backup /\ ~clusterCache'.backup
      /\ cluster'.status.initialized = "True" => RanVersions # {}
      /\ clusterCache'.status.initialized = "True" => RanVersions # {}
  <2>1. CASE UNCHANGED cluster /\ clusterCache' \in {clusterCache, cluster}
      BY <2>1 DEF InitializedInv
  <2>2. CASE SavesStatus /\ UNCHANGED clusterCache
      BY <2>2 DEF InitializedInv, SavesStatus
  <2>3. CASE ReportsStatus /\ UNCHANGED clusterCache
      BY <2>3 DEF InitializedInv, ReportsStatus
  <2>4. CASE EditsCluster /\ UNCHANGED clusterCache
      BY <1>0, <2>4 DEF InitializedInv, EditsCluster
  <2> QED
      BY <2>1, <2>2, <2>3, <2>4, ClusterMoves
<1>4. pc' # "idle" =>
          /\ ~snap'.backup
          /\ snap'.status.initialized = "True" => RanVersions # {}
  <2>1. CASE UNCHANGED <<pc, snap>>
      BY <2>1 DEF InitializedInv
  <2>2. CASE StartReconcile
      BY <2>2, Starts DEF InitializedInv
  <2>3. CASE Handles
      BY <2>3, ReadyMeansRan DEF InitializedInv, Handles, StageMoves
  <2> QED
      BY <2>1, <2>2, <2>3, SnapMoves
<1> QED
    BY <1>1, <1>2, <1>3, <1>4 DEF InitializedInv

\* Without backups, Initialized=True is published only once the init jobs of
\* some version have completed, and stays right, however far the informers
\* lag and whichever jobs fail.  (Under a backup the code counts the jobs as
\* done without looking.)
THEOREM InitializedIsRight ==
    Budget["backup"] = 0 => (Spec => []InitializedMeansJobsRan)
<1>1. ASSUME Budget["backup"] = 0
      PROVE  Spec => []InitializedMeansJobsRan
  <2>1. Init => InitializedInv
      BY <1>1 DEF Init, InitializedInv, NewCluster, EmptyStatus
  <2>2. /\ TypeOK /\ CompleteIsComplete /\ FailedJobsAreGoneOrFailed
        /\ InitializedInv /\ [Next]_vars
        => InitializedInv'
      BY InitializedStep
  <2>3. InitializedInv => InitializedMeansJobsRan
      BY DEF InitializedInv, RanVersions, InitializedMeansJobsRan
  <2> QED
      BY <2>1, <2>2, <2>3, TypeCorrect, CompleteAlways, FailedJobsInvariant,
         PTL DEF Spec
<1> QED
    BY <1>1

=============================================================================
