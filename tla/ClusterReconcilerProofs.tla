---------------------- MODULE ClusterReconcilerProofs ----------------------
(***************************************************************************)
(* Theorems about the PeerDBCluster controller for every set of versions,   *)
(* every list of init jobs, every combination of lagging informers and slow *)
(* rollouts and every budget of disturbances.                               *)
(***************************************************************************)
EXTENDS ClusterReconciler, TLAPS

-----------------------------------------------------------------------------
(* Types *)

\* Replacing the status of a cluster object gives a cluster object.
LEMMA StatusReplaced ==
    ASSUME NEW o \in ClusterObject, NEW st \in ClusterStatus
    PROVE  [o EXCEPT !.status = st] \in ClusterObject
BY DEF ClusterObject

\* Every phase and condition the code sets keeps the status well typed.
LEMMA StatusUpdates ==
    ASSUME NEW st \in ClusterStatus
    PROVE  /\ \A p \in UpgradePhases :
                 [st EXCEPT !.phase = p] \in ClusterStatus
           /\ \A v \in Versions :
                 [st EXCEPT !.toVersion = v] \in ClusterStatus
           /\ \A x \in ConditionStatus :
                 /\ [st EXCEPT !.upgradeInProgress = x] \in ClusterStatus
                 /\ [st EXCEPT !.reconciling = x] \in ClusterStatus
                 /\ [st EXCEPT !.catalogReady = x] \in ClusterStatus
                 /\ [st EXCEPT !.initialized = x] \in ClusterStatus
                 /\ [st EXCEPT !.componentsReady = x] \in ClusterStatus
                 /\ [st EXCEPT !.ready = x] \in ClusterStatus
                 /\ [st EXCEPT !.degraded = x] \in ClusterStatus
           /\ \A b \in BackupSafeStatus :
                 [st EXCEPT !.backupSafe = b] \in ClusterStatus
           /\ \A m \in MaintenanceModeStatus :
                 [st EXCEPT !.maintenanceMode = m] \in ClusterStatus
BY DEF ClusterStatus

\* A new cluster, and so an empty snapshot, is a cluster object.
LEMMA NewClusterType ==
    ASSUME NEW m \in BOOLEAN
    PROVE  NewCluster(m) \in ClusterObject
BY VersionsAssumption DEF NewCluster, ClusterObject, ClusterSpec, ClusterStatus,
     EmptyStatus, UpgradePhases, UpgradePolicies, ConditionStatus,
     BackupSafeStatus, MaintenanceModeStatus, NoVersion

\* The state before the first reconcile has its type.
THEOREM InitTypeOK == Init => TypeOK
<1> SUFFICES ASSUME Init PROVE TypeOK
    OBVIOUS
<1>1. cluster \in ClusterObject /\ clusterCache \in ClusterObject
         /\ snap \in ClusterObject
    BY NewClusterType DEF Init, NoSnapshot
<1>2. NoDeployment \in Deployment
    BY DEF NoDeployment, Deployment, NoVersion
<1> QED
    BY <1>1, <1>2, VersionsAssumption, ReconcilerAssumption
    DEF Init, TypeOK, JobStates, Secret, Stages

\* What reconcileJob and reconcileDeployment leave behind is well typed.
LEMMA JobAfterType ==
    ASSUME TypeOK, NEW j \in JobNames
    PROVE  JobAfter(j) \in JobStates
BY DEF TypeOK, JobAfter, JobStates

\* reconcileDeployment leaves a deployment.
LEMMA DeploymentAfterType ==
    ASSUME TypeOK, NEW c \in Components
    PROVE  DeploymentAfter(c) \in Deployment
<1>1. snap.spec.version \in Versions /\ hash \in Nat
    BY DEF TypeOK, ClusterObject, ClusterSpec
<1>2. deploymentCache[c] \in Deployment /\ deployments[c] \in Deployment
    BY DEF TypeOK
<1> QED
    BY <1>1, <1>2 DEF DeploymentAfter, NewDeployment, Deployment

\* reconcileInitJobs keeps the jobs a function from names to states.
LEMMA ReconcileInitJobsType ==
    ASSUME TypeOK, NEW n \in Nat, ReconcileInitJobs(n)
    PROVE  /\ jobs' \in [JobNames -> JobStates]
           /\ lag' \subseteq {"cluster", "jobs"} \cup Components
BY JobAfterType DEF ReconcileInitJobs, TypeOK

\* Reconciling some of the components keeps the deployments typed.
LEMMA ReconcileDeploymentsType ==
    ASSUME TypeOK, NEW cs, ReconcileDeployments(cs)
    PROVE  /\ deployments' \in [Components -> Deployment]
           /\ lag' \subseteq {"cluster", "jobs"} \cup Components
BY DeploymentAfterType DEF ReconcileDeployments, TypeOK

\* The status that a phase handler starts from, and the one it continues or
\* parks with.
LEMMA SnapTypes ==
    ASSUME TypeOK
    PROVE  /\ snap.status \in ClusterStatus
           /\ UpgradeStatus \in ClusterStatus
           /\ \A st \in ClusterStatus :
                 Park(st) \/ Continue(st) => snap' \in ClusterObject
<1>1. snap.status \in ClusterStatus
    BY DEF TypeOK, ClusterObject
<1>2. UpgradeStatus \in ClusterStatus
    BY <1>1, StatusUpdates DEF UpgradeStatus, ConditionStatus
<1>3. ASSUME NEW st \in ClusterStatus, Park(st) \/ Continue(st)
      PROVE  snap' \in ClusterObject
    BY <1>3, StatusReplaced DEF Park, Continue, TypeOK
<1> QED
    BY <1>1, <1>2, <1>3

\* Dropping the snapshot at the end of a reconcile keeps the types.
LEMMA ReturnType ==
    ASSUME Return
    PROVE  pc' \in Stages /\ snap' \in ClusterObject /\ hash' \in Nat
BY NewClusterType DEF Return, NoSnapshot, Stages

\* Status().Update with a status leaves a cluster object.
LEMMA WriteStatusType ==
    ASSUME TypeOK, NEW st \in ClusterStatus, WriteStatus(st)
    PROVE  /\ cluster' \in ClusterObject
           /\ lag' \subseteq {"cluster", "jobs"} \cup Components
BY StatusReplaced DEF WriteStatus, TypeOK

\* A disturbance takes one from a budget that has one.
LEMMA SpendType ==
    ASSUME TypeOK, NEW d \in Disturbances \ {"total"}, Spend(d)
    PROVE  budget' \in [Disturbances -> Nat]
BY DEF TypeOK, Spend, Disturbances

-----------------------------------------------------------------------------
(* Type correctness, one lemma per group of actions *)

\* Delivering what a cache has missed, and resyncing, keep the types.
LEMMA InformersType ==
    ASSUME TypeOK, NEW is, Deliver(is)
    PROVE  TypeOK'
BY DEF TypeOK, Deliver, worldVars

\* The steps from the work queue to the upgrade switch keep the types.
LEMMA StartType ==
    ASSUME TypeOK,
           ReconcilePaused \/ ReconcileSecretMissing \/ StartReconcile
    PROVE  TypeOK'
<1>0. clusterCache.status \in ClusterStatus
    BY DEF TypeOK, ClusterObject
<1>1. CASE ReconcilePaused
  <2>1. PausedStatus(clusterCache.status) \in ClusterStatus
      BY <1>0, StatusUpdates DEF PausedStatus, ConditionStatus
  <2> QED
      BY <1>1, <2>1, WriteStatusType
      DEF ReconcilePaused, TypeOK, clusterVars, jobVars, deploymentVars,
          worldVars
<1>2. CASE ReconcileSecretMissing
  <2>1. SecretMissing(clusterCache.status) \in ClusterStatus
      BY <1>0, StatusUpdates DEF SecretMissing, ConditionStatus
  <2> QED
      BY <1>2, <2>1, WriteStatusType
      DEF ReconcileSecretMissing, TypeOK, clusterVars, jobVars,
          deploymentVars, worldVars
<1>3. CASE StartReconcile
  <2> DEFINE v == clusterCache.spec.version
             st == [clusterCache.status EXCEPT !.reconciling = "True",
                                               !.catalogReady = "True"]
             r == RecordUpgrade(st, v)
             d == DetectUpgrade(r, v, clusterCache.backup)
  <2>1. v \in Versions
      BY DEF TypeOK, ClusterObject, ClusterSpec
  <2>2. st \in ClusterStatus
      BY <1>0, StatusUpdates DEF ConditionStatus
  <2>3. r \in ClusterStatus
      BY <2>1, <2>2, StatusUpdates DEF RecordUpgrade, UpgradePhases
  <2>4. d \in ClusterStatus
      BY <2>1, <2>3, StatusUpdates DEF DetectUpgrade, UpgradePhases
  <2>5. snap' \in ClusterObject
      BY <1>3, <2>4, StatusReplaced DEF StartReconcile, TypeOK
  <2>6. pc' \in Stages /\ hash' \in Nat
      BY <1>3 DEF StartReconcile, Stages, TypeOK, Secret
  <2> QED
      BY <1>3, <2>5, <2>6
      DEF StartReconcile, TypeOK, clusterVars, jobVars, deploymentVars,
          worldVars
<1> QED
    BY <1>1, <1>2, <1>3

\* The handlers of the upgrade phases that only compute a new status.
LEMMA PhaseType ==
    ASSUME TypeOK,
           \/ UpgradePhaseWaiting \/ UpgradePhaseBlocked \/ UpgradePhaseConfig
           \/ CheckInitJobs
    PROVE  TypeOK'
<1>0. /\ snap.status \in ClusterStatus /\ UpgradeStatus \in ClusterStatus
      /\ \A p \in UpgradePhases :
            [UpgradeStatus EXCEPT !.phase = p] \in ClusterStatus
    BY SnapTypes, StatusUpdates
<1>1. snap' \in ClusterObject /\ pc' \in Stages
  <2>1. CASE UpgradePhaseWaiting
      BY <1>0, <2>1, SnapTypes
      DEF UpgradePhaseWaiting, Park, Continue, Stages, UpgradePhases
  <2>2. CASE UpgradePhaseBlocked
    <3>1. [UpgradeStatus EXCEPT !.phase = "Waiting", !.degraded = "False"]
             \in ClusterStatus
        BY <1>0, StatusUpdates DEF UpgradePhases, ConditionStatus
    <3> QED
        BY <2>2, <3>1, SnapTypes DEF UpgradePhaseBlocked, Continue, Stages
  <2>3. CASE UpgradePhaseConfig
      BY <1>0, <2>3, SnapTypes
      DEF UpgradePhaseConfig, Continue, Stages, UpgradePhases
  <2>4. CASE CheckInitJobs
    <3>1. \A p \in UpgradePhases :
             [snap.status EXCEPT !.phase = p, !.initialized = "False"]
                \in ClusterStatus
        BY <1>0, StatusUpdates DEF ConditionStatus
    <3> QED
        BY <2>4, <3>1, SnapTypes DEF CheckInitJobs, Park, Stages, UpgradePhases
  <2> QED
      BY <2>1, <2>2, <2>3, <2>4
<1>2. UNCHANGED <<clusterVars, jobVars, deploymentVars, lag, queued, hash,
                  worldVars, budget>>
    BY DEF UpgradePhaseWaiting, UpgradePhaseBlocked, UpgradePhaseConfig,
           CheckInitJobs
<1> QED
    BY <1>1, <1>2 DEF TypeOK, clusterVars, jobVars, deploymentVars, worldVars

\* upgradePhaseMaintenanceJob keeps the types.
LEMMA MaintenanceType ==
    ASSUME TypeOK, UpgradePhaseMaintenanceJob
    PROVE  TypeOK'
<1>0. PICK p \in {"StartMaintenance", "EndMaintenance"} :
         CreateMaintenanceJob(p) \/ AwaitMaintenanceJob(p)
            \/ RetryMaintenanceJob(p)
    BY DEF UpgradePhaseMaintenanceJob
<1>1. MaintenanceJob(p) \in JobNames
    BY DEF TypeOK, ClusterObject, ClusterSpec, MaintenanceJob, JobNames,
           JobKinds
<1>2. UpgradeStatus \in ClusterStatus
    BY SnapTypes
<1>3. CASE CreateMaintenanceJob(p)
  <2>1. \A m \in {"Starting", "Ending"} :
           [UpgradeStatus EXCEPT !.maintenanceMode = m] \in ClusterStatus
      BY <1>2, StatusUpdates DEF MaintenanceModeStatus
  <2>2. snap' \in ClusterObject /\ pc' \in Stages /\ hash' \in Nat
      BY <1>3, <2>1, SnapTypes, ReturnType
      DEF CreateMaintenanceJob, ReturnError, Park, Stages, TypeOK
  <2>3. jobs' \in [JobNames -> JobStates]
      BY <1>1, <1>3 DEF CreateMaintenanceJob, TypeOK, JobStates
  <2> QED
      BY <1>3, <2>2, <2>3
      DEF CreateMaintenanceJob, ReturnError, TypeOK, clusterVars,
          deploymentVars, worldVars
<1>4. CASE AwaitMaintenanceJob(p)
  <2>1. AfterMaintenance(p) \in ClusterStatus
      BY <1>2, StatusUpdates
      DEF AfterMaintenance, UpgradePhases, MaintenanceModeStatus,
          ConditionStatus
  <2>2. snap' \in ClusterObject /\ pc' \in Stages
      BY <1>2, <1>4, <2>1, SnapTypes
      DEF AwaitMaintenanceJob, Park, Continue, Stages
  <2> QED
      BY <1>4, <2>2
      DEF AwaitMaintenanceJob, TypeOK, clusterVars, jobVars, deploymentVars,
          worldVars
<1>5. CASE RetryMaintenanceJob(p)
  <2>1. [UpgradeStatus EXCEPT !.degraded = "True"] \in ClusterStatus
      BY <1>2, StatusUpdates DEF ConditionStatus
  <2>2. snap' \in ClusterObject /\ pc' \in Stages
      BY <1>5, <2>1, SnapTypes DEF RetryMaintenanceJob, Park, Stages
  <2>3. jobs' \in [JobNames -> JobStates]
      BY <1>1, <1>5 DEF RetryMaintenanceJob, TypeOK, JobStates
  <2> QED
      BY <1>5, <2>2, <2>3
      DEF RetryMaintenanceJob, TypeOK, clusterVars, deploymentVars, worldVars
<1> QED
    BY <1>0, <1>3, <1>4, <1>5

\* The init jobs, in an upgrade and outside one, keep the types.
LEMMA InitJobsType ==
    ASSUME TypeOK,
           \/ UpgradePhaseInitJobs \/ ReconcileInitJobsAndStatus
           \/ InitJobsFail
    PROVE  TypeOK'
<1>0. Len(InitJobs) \in Nat
    BY ReconcilerAssumption
<1>1. CASE UpgradePhaseInitJobs
  <2>1. [UpgradeStatus EXCEPT !.phase = "FlowAPI", !.initialized = "True"]
           \in ClusterStatus
      BY SnapTypes, StatusUpdates DEF UpgradePhases, ConditionStatus
  <2>2. snap' \in ClusterObject /\ pc' \in Stages
      BY <1>1, <2>1, SnapTypes, StatusReplaced
      DEF UpgradePhaseInitJobs, Continue, Stages, TypeOK
  <2> QED
      BY <1>0, <1>1, <2>2, ReconcileInitJobsType
      DEF UpgradePhaseInitJobs, TypeOK, clusterVars, deploymentVars, worldVars
<1>2. CASE ReconcileInitJobsAndStatus
  <2>1. \A x \in ConditionStatus :
           [snap EXCEPT !.status.initialized = x] \in ClusterObject
      BY DEF TypeOK, ClusterObject, ClusterStatus
  <2>2. snap' \in ClusterObject /\ pc' \in Stages
      BY <1>2, <2>1
      DEF ReconcileInitJobsAndStatus, AsCondition, ConditionStatus, Stages
  <2> QED
      BY <1>0, <1>2, <2>2, ReconcileInitJobsType
      DEF ReconcileInitJobsAndStatus, TypeOK, clusterVars, deploymentVars,
          worldVars
<1>3. CASE InitJobsFail
  <2>1. PICK n \in 0..(Len(InitJobs) - 1) :
           /\ ReconcileInitJobs(n)
           /\ (UNCHANGED budget) \/ Spend("fault")
      BY <1>3 DEF InitJobsFail
  <2>2. budget' \in [Disturbances -> Nat]
      BY <2>1, SpendType DEF TypeOK, Disturbances
  <2>3. n \in Nat
      BY <1>0
  <2> QED
      BY <1>3, <2>1, <2>2, <2>3, ReconcileInitJobsType, ReturnType
      DEF InitJobsFail, ReturnError, TypeOK, clusterVars, deploymentVars,
          worldVars
<1> QED
    BY <1>1, <1>2, <1>3

\* The components, in an upgrade and outside one, keep the types.
LEMMA ComponentsType ==
    ASSUME TypeOK,
           \/ UpgradePhaseComponent \/ UpgradeComponentFails
           \/ ReconcileComponentsAndStatus \/ ComponentsFail
    PROVE  TypeOK'
<1>1. CASE UpgradePhaseComponent
  <2>1. snap' \in ClusterObject /\ pc' \in Stages
      BY <1>1, SnapTypes, StatusReplaced
      DEF UpgradePhaseComponent, Stages, TypeOK
  <2> QED
      BY <1>1, <2>1, ReconcileDeploymentsType
      DEF UpgradePhaseComponent, TypeOK, clusterVars, jobVars, worldVars
<1>2. CASE UpgradeComponentFails
    BY <1>2, ReturnType
    DEF UpgradeComponentFails, ReturnError, TypeOK, clusterVars, jobVars,
        deploymentVars, worldVars
<1>3. CASE ReconcileComponentsAndStatus
  <2>1. FinalConditions(snap.status, snap.backup, ComponentsReady)
           \in ClusterStatus
    <3> DEFINE b == CASE snap.backup -> "BackupInProgress"
                      [] ~snap.backup
                           /\ (Upgrading(snap.status) \/ ~ComponentsReady) ->
                           "BackupUnsafe"
                      [] OTHER -> "True"
    <3>1. b \in BackupSafeStatus
        BY DEF BackupSafeStatus
    <3>2. \A x : AsCondition(x) \in ConditionStatus
        BY DEF AsCondition, ConditionStatus
    <3> HIDE DEF b
    <3>3. \A x, y \in ConditionStatus :
             [snap.status EXCEPT !.componentsReady = x, !.ready = y,
                                 !.backupSafe = b, !.reconciling = "False"]
                \in ClusterStatus
        BY <3>1, SnapTypes, StatusUpdates DEF ConditionStatus
    <3> QED
        BY <3>2, <3>3 DEF FinalConditions, b
  <2>2. snap' \in ClusterObject /\ pc' \in Stages
      BY <1>3, <2>1, StatusReplaced
      DEF ReconcileComponentsAndStatus, Stages, TypeOK
  <2> QED
      BY <1>3, <2>2, ReconcileDeploymentsType
      DEF ReconcileComponentsAndStatus, TypeOK, clusterVars, jobVars,
          worldVars
<1>4. CASE ComponentsFail
  <2>1. PICK n \in 0..2 :
           /\ ReconcileDeployments(FirstComponents(n))
           /\ (UNCHANGED budget) \/ Spend("fault")
      BY <1>4 DEF ComponentsFail
  <2>2. budget' \in [Disturbances -> Nat]
      BY <2>1, SpendType DEF TypeOK, Disturbances
  <2> QED
      BY <1>4, <2>1, <2>2, ReconcileDeploymentsType, ReturnType
      DEF ComponentsFail, ReturnError, TypeOK, clusterVars, jobVars, worldVars
<1> QED
    BY <1>1, <1>2, <1>3, <1>4

\* Reading back the rollout of a component keeps the types.
LEMMA CheckRolloutType ==
    ASSUME TypeOK, CheckRollout
    PROVE  TypeOK'
<1>1. AfterRollout(snap.status, snap.spec.maintenance) \in ClusterStatus
    BY SnapTypes, StatusUpdates
    DEF AfterRollout, UpgradePhases, ConditionStatus
<1>2. snap' \in ClusterObject /\ pc' \in Stages /\ hash' \in Nat
    BY <1>1, SnapTypes, ReturnType
    DEF CheckRollout, ReturnError, Park, Continue, Stages, TypeOK
<1> QED
    BY <1>2
    DEF CheckRollout, ReturnError, TypeOK, clusterVars, jobVars,
        deploymentVars, worldVars

\* updateStatus and the error returns keep the types.
LEMMA SaveType ==
    ASSUME TypeOK, SaveParked \/ SaveFinal \/ Fault \/ Resync
    PROVE  TypeOK'
<1>1. CASE SaveParked \/ SaveFinal
  <2>1. /\ cluster' \in ClusterObject
        /\ lag' \subseteq {"cluster", "jobs"} \cup Components
      BY <1>1, SnapTypes, WriteStatusType
      DEF SaveParked, SaveFinal, UpdateStatus, TypeOK
  <2> QED
      BY <1>1, <2>1, ReturnType
      DEF SaveParked, SaveFinal, TypeOK, jobVars, deploymentVars, worldVars
<1>2. CASE Fault
    BY <1>2, ReturnType, SpendType
    DEF Fault, ReturnError, TypeOK, Disturbances, clusterVars, jobVars,
        deploymentVars, worldVars
<1>3. CASE Resync
    BY <1>3 DEF Resync, TypeOK, clusterVars, jobVars, deploymentVars, worldVars
<1> QED
    BY <1>1, <1>2, <1>3

\* Jobs, rollouts and drift keep the types.
LEMMA KubernetesType ==
    ASSUME TypeOK, Jobs \/ Rollouts \/ Drift \/ PromptRollouts
    PROVE  TypeOK'
<1>1. CASE Jobs
  <2>1. PICK j \in JobNames : JobCompletes(j) \/ JobFails(j)
      BY <1>1 DEF Jobs
  <2>2. MirrorsAfter(j) \in {"running", "paused"}
      BY DEF MirrorsAfter, TypeOK
  <2>3. budget' \in [Disturbances -> Nat]
      BY <2>1, SpendType DEF JobCompletes, JobFails, TypeOK, Disturbances
  <2> QED
      BY <2>1, <2>2, <2>3
      DEF JobCompletes, JobFails, TypeOK, JobStates, clusterVars,
          deploymentVars
<1>2. ASSUME NEW c \in Components, NEW o \in BOOLEAN, NEW u \in BOOLEAN,
             NEW r \in BOOLEAN, DeploymentStatus(c, o, u, r),
             budget' \in [Disturbances -> Nat]
      PROVE  TypeOK'
  <2>1. ASSUME NEW x \in Components
        PROVE  deployments'[x] \in Deployment
    <3>1. deployments[x] \in Deployment
        BY <2>1 DEF TypeOK
    <3>2. deployments'[x] \in
             {deployments[x],
              [deployments[x] EXCEPT !.observed = o, !.updated = u,
                                     !.ready = r]}
        BY <1>2, <2>1 DEF DeploymentStatus, TypeOK, Deployment
    <3> QED
        BY <3>1, <3>2 DEF Deployment
  <2>2. deployments' = [x \in Components |-> deployments'[x]]
      BY <1>2 DEF DeploymentStatus, TypeOK
  <2>3. deployments' \in [Components -> Deployment]
      BY <2>1, <2>2
  <2> QED
      BY <1>2, <2>3
      DEF DeploymentStatus, TypeOK, clusterVars, jobVars, worldVars
<1>3. CASE Rollouts
  <2>1. PICK c \in Components : RolloutStarts(c) \/ RolloutEnds(c)
      BY <1>3 DEF Rollouts
  <2>2. budget' \in [Disturbances -> Nat]
      BY <2>1 DEF RolloutStarts, RolloutEnds, TypeOK
  <2> QED
      BY <1>2, <2>1, <2>2 DEF RolloutStarts, RolloutEnds
<1>4. CASE Drift
  <2>1. PICK c \in Components : PodFails(c) \/ DeleteDeployment(c)
      BY <1>4 DEF Drift
  <2>2. budget' \in [Disturbances -> Nat]
      BY <2>1, SpendType DEF PodFails, DeleteDeployment, Disturbances
  <2>3. CASE PodFails(c)
      BY <1>2, <2>2, <2>3 DEF PodFails
  <2>4. CASE DeleteDeployment(c)
    <3>1. NoDeployment \in Deployment
        BY DEF NoDeployment, Deployment, NoVersion
    <3> QED
        BY <2>2, <2>4, <3>1
        DEF DeleteDeployment, TypeOK, clusterVars, jobVars, worldVars
  <2> QED
      BY <2>1, <2>3, <2>4
<1>5. CASE PromptRollouts
  <2>1. ASSUME NEW x \in Components
        PROVE  deployments'[x] \in Deployment
      BY <1>5, <2>1 DEF PromptRollouts, TypeOK, Deployment
  <2>2. deployments' = [x \in Components |-> deployments'[x]]
      BY <1>5 DEF PromptRollouts
  <2>3. deployments' \in [Components -> Deployment]
      BY <2>1, <2>2
  <2> QED
      BY <1>5, <2>3
      DEF PromptRollouts, Unfinished, TypeOK, clusterVars, jobVars, worldVars
<1> QED
    BY <1>1, <1>3, <1>4, <1>5

\* The user's edits keep the types.
LEMMA UserType ==
    ASSUME TypeOK, User
    PROVE  TypeOK'
<1>0. budget' \in [Disturbances -> Nat]
    BY SpendType DEF User, SetVersion, SetPolicy, SetMaintenance, SetPaused,
                     SetBackup, SetSecret, Disturbances
<1>1. ASSUME NEW new \in ClusterObject, EditCluster(new),
             approved' \subseteq Versions
      PROVE  TypeOK'
    BY <1>0, <1>1 DEF EditCluster, TypeOK, jobVars, deploymentVars
<1>2. ASSUME NEW new \in ClusterObject, Approve(new)
      PROVE  approved' \subseteq Versions
    BY <1>2 DEF Approve, TypeOK, ClusterObject, ClusterSpec
<1>3. CASE SetVersion
  <2>1. PICK v \in Versions :
           /\ EditCluster([cluster EXCEPT !.spec.version = v])
           /\ Approve([cluster EXCEPT !.spec.version = v])
      BY <1>3 DEF SetVersion
  <2>2. [cluster EXCEPT !.spec.version = v] \in ClusterObject
      BY DEF TypeOK, ClusterObject, ClusterSpec
  <2> QED
      BY <1>1, <1>2, <2>1, <2>2
<1>4. CASE SetPolicy
  <2>1. PICK p \in UpgradePolicies :
           /\ EditCluster([cluster EXCEPT !.spec.upgradePolicy = p])
           /\ Approve([cluster EXCEPT !.spec.upgradePolicy = p])
      BY <1>4 DEF SetPolicy
  <2>2. [cluster EXCEPT !.spec.upgradePolicy = p] \in ClusterObject
      BY DEF TypeOK, ClusterObject, ClusterSpec
  <2> QED
      BY <1>1, <1>2, <2>1, <2>2
<1>5. CASE SetMaintenance
  <2>1. [cluster EXCEPT !.spec.maintenance = ~@] \in ClusterObject
      BY DEF TypeOK, ClusterObject, ClusterSpec
  <2> QED
      BY <1>1, <1>5, <2>1 DEF SetMaintenance, TypeOK
<1>6. CASE SetPaused
  <2>1. [cluster EXCEPT !.spec.paused = ~@] \in ClusterObject
      BY DEF TypeOK, ClusterObject, ClusterSpec
  <2> QED
      BY <1>1, <1>6, <2>1 DEF SetPaused, TypeOK
<1>7. CASE SetBackup
  <2>1. [cluster EXCEPT !.backup = ~@] \in ClusterObject
      BY DEF TypeOK, ClusterObject
  <2> QED
      BY <1>1, <1>7, <2>1 DEF SetBackup, TypeOK
<1>8. CASE SetSecret
  <2>0. secret \in Secret /\ secret.revision + 1 \in Nat
      BY DEF TypeOK, Secret
  <2>1. secret' \in Secret
    <3>1. CASE secret' = [secret EXCEPT !.present = FALSE]
        BY <2>0, <3>1 DEF Secret
    <3>2. CASE secret' = [present |-> TRUE, revision |-> secret.revision + 1]
        BY <2>0, <3>2 DEF Secret
    <3> QED
        BY <1>8, <3>1, <3>2 DEF SetSecret
  <2> QED
      BY <1>0, <1>8, <2>1
      DEF SetSecret, TypeOK, clusterVars, jobVars, deploymentVars
<1> QED
    BY <1>3, <1>4, <1>5, <1>6, <1>7, <1>8 DEF User

\* Every step keeps the types.
LEMMA StepTypeOK == TypeOK /\ [Next]_vars => TypeOK'
<1> SUFFICES ASSUME TypeOK, [Next]_vars PROVE TypeOK'
    OBVIOUS
<1>1. CASE PromptRollouts \/ Jobs \/ Rollouts \/ Drift
    BY <1>1, KubernetesType
<1>2. CASE PromptInformers \/ \E i \in Informers : LaggingInformer(i)
    BY <1>2, InformersType DEF PromptInformers, LaggingInformer
<1>3. CASE Reconcile
    BY <1>3, StartType, PhaseType, MaintenanceType, InitJobsType,
       ComponentsType, CheckRolloutType, SaveType DEF Reconcile
<1>4. CASE Resync \/ Fault
    BY <1>4, SaveType
<1>5. CASE User
    BY <1>5, UserType
<1>6. CASE UNCHANGED vars
    BY <1>6 DEF TypeOK, vars
<1> QED
    BY <1>1, <1>2, <1>3, <1>4, <1>5, <1>6 DEF Next

\* Every variable keeps its type whatever the reconciles, the informers, the
\* cluster and the user do.
THEOREM TypeCorrect == Spec => []TypeOK
BY InitTypeOK, StepTypeOK, PTL DEF Spec

-----------------------------------------------------------------------------
(* Deleting jobs by name on what a lagging cache shows *)

\* A job that the cache shows failed has not been replaced by a new one: a job
\* is created only when the cache shows it absent, and an informer never goes
\* back.
FailedJobsAreGoneOrFailed ==
    \A j \in JobNames :
        jobCache[j] = "failed" => jobs[j] \in {"failed", "absent"}

\* No job is created where the cache shows one, and only jobs that the cache
\* shows failed are deleted.
LEMMA JobWrites ==
    ASSUME TypeOK, [Next]_vars, NEW j \in JobNames, jobs'[j] # jobs[j]
    PROVE  /\ jobCache' = jobCache
           /\ \/ jobs[j] = "absent" /\ jobCache[j] = "absent"
              \/ jobs[j] = "running" /\ jobs'[j] \in {"complete", "failed"}
              \/ jobCache[j] = "failed" /\ jobs'[j] = "absent"
<1>1. ASSUME NEW n \in Nat, ReconcileInitJobs(n), UNCHANGED jobCache
      PROVE  /\ jobCache' = jobCache
             /\ \/ jobs[j] = "absent" /\ jobCache[j] = "absent"
                \/ jobCache[j] = "failed" /\ jobs'[j] = "absent"
    BY <1>1 DEF ReconcileInitJobs, JobAfter, JobError
<1>2. Len(InitJobs) \in Nat
    BY ReconcilerAssumption
<1>3. CASE UpgradePhaseInitJobs \/ ReconcileInitJobsAndStatus
    BY <1>1, <1>2, <1>3 DEF UpgradePhaseInitJobs, ReconcileInitJobsAndStatus
<1>4. CASE InitJobsFail
  <2>1. PICK n \in 0..(Len(InitJobs) - 1) : ReconcileInitJobs(n)
      BY <1>4 DEF InitJobsFail
  <2>2. n \in Nat
      BY <1>2
  <2> QED
      BY <1>1, <1>4, <2>1, <2>2 DEF InitJobsFail
<1>5. CASE UpgradePhaseMaintenanceJob
    BY <1>5 DEF UpgradePhaseMaintenanceJob, CreateMaintenanceJob,
                AwaitMaintenanceJob, RetryMaintenanceJob, jobVars, TypeOK
<1>6. CASE Jobs
    BY <1>6 DEF Jobs, JobCompletes, JobFails, TypeOK
<1>7. CASE Reconcile
    BY <1>3, <1>4, <1>5, <1>7
    DEF Reconcile, jobVars, ReconcilePaused, ReconcileSecretMissing,
        StartReconcile, UpgradePhaseWaiting, UpgradePhaseBlocked,
        UpgradePhaseConfig, CheckInitJobs, UpgradePhaseComponent,
        CheckRollout, ReconcileComponentsAndStatus, SaveParked, SaveFinal,
        ComponentsFail, UpgradeComponentFails
<1>8. CASE PromptInformers \/ \E i \in Informers : LaggingInformer(i)
    BY <1>8 DEF PromptInformers, LaggingInformer, Deliver
<1>9. CASE Resync \/ Fault \/ User \/ Drift \/ Rollouts \/ PromptRollouts
    BY <1>9
    DEF Resync, Fault, Drift, Rollouts, PromptRollouts, PodFails,
        DeleteDeployment, RolloutStarts, RolloutEnds, DeploymentStatus, User,
        SetVersion, SetPolicy, SetMaintenance, SetPaused, SetBackup,
        SetSecret, EditCluster, jobVars
<1>10. CASE UNCHANGED vars
    BY <1>10 DEF vars
<1> QED
    BY <1>6, <1>7, <1>8, <1>9, <1>10 DEF Next

\* An informer's copy of the jobs only moves to what the API server has.
LEMMA JobCacheMoves ==
    ASSUME [Next]_vars, jobCache' # jobCache
    PROVE  jobCache' = jobs /\ jobs' = jobs
<1>1. CASE PromptInformers \/ \E i \in Informers : LaggingInformer(i)
    BY <1>1 DEF PromptInformers, LaggingInformer, Deliver
<1>2. CASE Reconcile
    BY <1>2
    DEF Reconcile, jobVars, ReconcilePaused, ReconcileSecretMissing,
        StartReconcile, UpgradePhaseWaiting, UpgradePhaseBlocked,
        UpgradePhaseMaintenanceJob, CreateMaintenanceJob,
        AwaitMaintenanceJob, RetryMaintenanceJob, UpgradePhaseConfig,
        UpgradePhaseInitJobs, CheckInitJobs, UpgradePhaseComponent,
        CheckRollout, ReconcileInitJobsAndStatus,
        ReconcileComponentsAndStatus, SaveParked, SaveFinal, InitJobsFail,
        ComponentsFail, UpgradeComponentFails
<1>3. CASE Resync \/ Fault \/ User \/ Drift \/ Rollouts \/ PromptRollouts
    BY <1>3
    DEF Resync, Fault, Drift, Rollouts, PromptRollouts, PodFails,
        DeleteDeployment, RolloutStarts, RolloutEnds, DeploymentStatus, User,
        SetVersion, SetPolicy, SetMaintenance, SetPaused, SetBackup,
        SetSecret, EditCluster, jobVars
<1>4. CASE Jobs
    BY <1>4 DEF Jobs, JobCompletes, JobFails
<1>5. CASE UNCHANGED vars
    BY <1>5 DEF vars
<1> QED
    BY <1>1, <1>2, <1>3, <1>4, <1>5 DEF Next

\* Every step keeps a job that the cache shows failed gone or failed.
LEMMA FailedJobsStep ==
    TypeOK /\ FailedJobsAreGoneOrFailed /\ [Next]_vars
        => FailedJobsAreGoneOrFailed'
<1> SUFFICES ASSUME TypeOK, FailedJobsAreGoneOrFailed, [Next]_vars,
                    NEW j \in JobNames, jobCache'[j] = "failed"
             PROVE  jobs'[j] \in {"failed", "absent"}
    BY DEF FailedJobsAreGoneOrFailed
<1>1. CASE jobCache' # jobCache
    BY <1>1, JobCacheMoves
<1>2. CASE jobCache' = jobCache /\ jobs'[j] = jobs[j]
    BY <1>2 DEF FailedJobsAreGoneOrFailed
<1>3. CASE jobCache' = jobCache /\ jobs'[j] # jobs[j]
    BY <1>3, JobWrites DEF FailedJobsAreGoneOrFailed
<1> QED
    BY <1>1, <1>2, <1>3

\* The invariant that makes deletion by name safe.
THEOREM FailedJobsInvariant == Spec => []FailedJobsAreGoneOrFailed
<1>1. Init => FailedJobsAreGoneOrFailed
    BY DEF Init, FailedJobsAreGoneOrFailed
<1> QED
    BY <1>1, TypeCorrect, FailedJobsStep, PTL DEF Spec

\* reconcileJob and upgradePhaseMaintenanceJob never delete a job that is
\* running or has completed, however far the job informer lags.
THEOREM DeletionIsSafe == Spec => OnlyFailedJobsAreDeleted
<1> DEFINE A == \A j \in JobNames :
                   jobs[j] \in {"running", "complete"} => jobs'[j] # "absent"
<1>1. TypeOK /\ FailedJobsAreGoneOrFailed /\ [Next]_vars => [A]_vars
  <2> SUFFICES ASSUME TypeOK, FailedJobsAreGoneOrFailed, [Next]_vars,
                      NEW j \in JobNames, jobs[j] \in {"running", "complete"},
                      jobs'[j] = "absent"
               PROVE  FALSE
      OBVIOUS
  <2>1. jobCache[j] = "failed"
      BY JobWrites
  <2> QED
      BY <2>1 DEF FailedJobsAreGoneOrFailed
<1> QED
    BY <1>1, TypeCorrect, FailedJobsInvariant, PTL
    DEF Spec, OnlyFailedJobsAreDeleted

=============================================================================
