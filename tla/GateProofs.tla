----------------------------- MODULE GateProofs -----------------------------
(***************************************************************************)
(* What holds an upgrade back, and what it leaves behind: the fence of a    *)
(* backup, the approval of a manual upgrade, what is deployed and published *)
(* when the controller sleeps, and the maintenance jobs around an upgrade.  *)
(***************************************************************************)
EXTENDS InitJobsProofs

-----------------------------------------------------------------------------
(* The fence *)

\* Where a reconcile may mutate something.
Unfenced ==
    \/ pc = "upgrade"
    \/ pc \in {"init", "components"} /\ ~snap.backup

\* A deployment that exists after a step and did not before, or with another
\* template, was written by a reconcile in one of those places.
LEMMA DeploymentMoves ==
    ASSUME TypeOK, [Next]_vars, NEW c \in Components, deployments'[c].exists
    PROVE  \/ /\ deployments[c].exists
              /\ deployments'[c].version = deployments[c].version
              /\ deployments'[c].hash = deployments[c].hash
           \/ /\ deployments'[c].version = snap.spec.version
              /\ \/ pc = "upgrade" /\ snap.status.phase \in Components
                 \/ pc = "components" /\ ~snap.backup
<1> DEFINE Kept == /\ deployments[c].exists
                   /\ deployments'[c].version = deployments[c].version
                   /\ deployments'[c].hash = deployments[c].hash
<1>0. /\ deployments \in [Components -> Deployment]
      /\ deployments[c] \in Deployment /\ deploymentCache[c] \in Deployment
    BY DEF TypeOK
<1>1. ASSUME NEW cs, ReconcileDeployments(cs)
      PROVE  Kept \/ deployments'[c].version = snap.spec.version
  <2>1. deployments'[c] = IF c \in cs THEN DeploymentAfter(c)
                                      ELSE deployments[c]
      BY <1>1 DEF ReconcileDeployments
  <2>2. \/ DeploymentAfter(c) = deployments[c]
        \/ DeploymentAfter(c).version = snap.spec.version
      BY <1>0 DEF DeploymentAfter, NewDeployment, Deployment
  <2> QED
      BY <2>1, <2>2
<1>2. CASE UpgradePhaseComponent
    BY <1>1, <1>2 DEF UpgradePhaseComponent
<1>3. CASE ReconcileComponentsAndStatus
    BY <1>1, <1>3 DEF ReconcileComponentsAndStatus
<1>4. CASE ComponentsFail
    BY <1>1, <1>4 DEF ComponentsFail
<1>5. ASSUME UNCHANGED deployments
      PROVE  Kept
    BY <1>5
<1>6. CASE Reconcile
    BY <1>2, <1>3, <1>4, <1>5, <1>6
    DEF Reconcile, ReconcilePaused, ReconcileSecretMissing, StartReconcile,
        UpgradePhaseWaiting, UpgradePhaseBlocked, UpgradePhaseConfig,
        UpgradePhaseMaintenanceJob, CreateMaintenanceJob,
        AwaitMaintenanceJob, RetryMaintenanceJob, UpgradePhaseInitJobs,
        CheckInitJobs, CheckRollout, ReconcileInitJobsAndStatus,
        SaveParked, SaveFinal, InitJobsFail, UpgradeComponentFails,
        deploymentVars
<1>7. CASE PromptInformers \/ \E i \in Informers : LaggingInformer(i)
    BY <1>5, <1>7 DEF PromptInformers, LaggingInformer, Deliver
<1>8. CASE Resync \/ Fault \/ Jobs \/ User
    BY <1>5, <1>8
    DEF Resync, Fault, Jobs, JobCompletes, JobFails, User, SetVersion,
        SetPolicy, SetMaintenance, SetPaused, SetBackup, SetSecret,
        EditCluster, deploymentVars
<1>9. CASE PromptRollouts
  <2>1. deployments'[c] \in
            {deployments[c],
             [deployments[c] EXCEPT !.observed = TRUE, !.updated = TRUE,
                                    !.ready = TRUE]}
      BY <1>9 DEF PromptRollouts
  <2> QED
      BY <1>0, <2>1 DEF Deployment
<1>10. ASSUME NEW x \in Components, NEW o \in BOOLEAN, NEW u \in BOOLEAN,
              NEW r \in BOOLEAN, DeploymentStatus(x, o, u, r)
       PROVE  Kept
  <2>1. deployments'[c] \in
            {deployments[c],
             [deployments[c] EXCEPT !.observed = o, !.updated = u,
                                    !.ready = r]}
      BY <1>0, <1>10 DEF DeploymentStatus, Deployment
  <2> QED
      BY <1>0, <2>1 DEF Deployment
<1>11. CASE Rollouts
    BY <1>10, <1>11 DEF Rollouts, RolloutStarts, RolloutEnds
<1>12. CASE Drift
  <2>1. ASSUME NEW x \in Components, DeleteDeployment(x)
        PROVE  Kept
      BY <1>0, <2>1 DEF DeleteDeployment, NoDeployment
  <2> QED
      BY <1>10, <1>12, <2>1 DEF Drift, PodFails
<1>13. CASE UNCHANGED vars
    BY <1>5, <1>13 DEF vars
<1> QED
    BY <1>6, <1>7, <1>8, <1>9, <1>11, <1>12, <1>13 DEF Next

\* A job is created or deleted by a reconcile in one of those places.
LEMMA JobMoves ==
    ASSUME TypeOK, [Next]_vars, NEW j \in JobNames,
           (jobs[j] = "absent") # (jobs'[j] = "absent")
    PROVE  Unfenced
<1>1. CASE Reconcile
    BY <1>1
    DEF Reconcile, Unfenced, AtPhase, jobVars, ReconcilePaused,
        ReconcileSecretMissing, StartReconcile, UpgradePhaseWaiting,
        UpgradePhaseBlocked, UpgradePhaseMaintenanceJob,
        CreateMaintenanceJob, AwaitMaintenanceJob, RetryMaintenanceJob,
        UpgradePhaseConfig, UpgradePhaseInitJobs, CheckInitJobs,
        UpgradePhaseComponent, CheckRollout, ReconcileInitJobsAndStatus,
        ReconcileComponentsAndStatus, SaveParked, SaveFinal, InitJobsFail,
        ComponentsFail, UpgradeComponentFails
<1>2. CASE PromptInformers \/ \E i \in Informers : LaggingInformer(i)
    BY <1>2 DEF PromptInformers, LaggingInformer, Deliver
<1>3. CASE Resync \/ Fault \/ User \/ Drift \/ Rollouts \/ PromptRollouts
    BY <1>3
    DEF Resync, Fault, Drift, Rollouts, PromptRollouts, PodFails,
        DeleteDeployment, RolloutStarts, RolloutEnds, DeploymentStatus, User,
        SetVersion, SetPolicy, SetMaintenance, SetPaused, SetBackup,
        SetSecret, EditCluster, jobVars
<1>4. CASE Jobs
    BY <1>4 DEF Jobs, JobCompletes, JobFails, TypeOK
<1>5. CASE UNCHANGED vars
    BY <1>5 DEF vars
<1> QED
    BY <1>1, <1>2, <1>3, <1>4, <1>5 DEF Next

\* So nothing is mutated elsewhere.
LEMMA MutatesUnfenced ==
    ASSUME TypeOK, [Next]_vars, Mutates
    PROVE  Unfenced
<1>1. ASSUME NEW c \in Components, deployments'[c].exists,
             \/ ~deployments[c].exists
             \/ deployments'[c].version # deployments[c].version
             \/ deployments'[c].hash # deployments[c].hash
      PROVE  Unfenced
    BY <1>1, DeploymentMoves DEF Unfenced
<1> QED
    BY <1>1, JobMoves DEF Mutates

Acknowledged(st) == st.backupSafe = "BackupInProgress"

\* Some copy of the cluster shows that there is or was a backup.
BackupSeen ==
    \/ clusterCache.backup
    \/ Acknowledged(cluster.status) \/ Acknowledged(clusterCache.status)
    \/ pc # "idle" /\ (snap.backup \/ Acknowledged(snap.status))

\* The annotation is set once and removed once.  While it is set, whoever has
\* seen it has seen it in the cache, which does not go back; and a reconcile
\* in flight when the backup is acknowledged began with it.
FenceInv ==
    /\ budget["backup"] <= Budget["backup"]
    /\ cluster.backup <=> budget["backup"] + 1 = Budget["backup"]
    /\ budget["backup"] = Budget["backup"] => ~BackupSeen
    /\ cluster.backup /\ BackupSeen => clusterCache.backup
    /\ cluster.backup /\ pc # "idle" /\ Acknowledged(cluster.status) =>
          snap.backup
    /\ pc \in {"upgrade", "check"} => ~snap.backup

LEMMA FenceInit == Init => FenceInv
<1> SUFFICES ASSUME Init PROVE FenceInv
    OBVIOUS
<1>1. budget = Budget /\ Budget["backup"] \in Nat
    BY ReconcilerAssumption DEF Init, Disturbances
<1>2. /\ ~cluster.backup /\ ~clusterCache.backup /\ pc = "idle"
      /\ ~Acknowledged(cluster.status) /\ ~Acknowledged(clusterCache.status)
    BY DEF Init, NewCluster, EmptyStatus, Acknowledged
<1>3. budget["backup"] <= Budget["backup"]
         /\ budget["backup"] + 1 # Budget["backup"]
    BY <1>1
<1> QED
    BY <1>2, <1>3 DEF FenceInv, BackupSeen

\* Nobody sees a backup but by reading the cluster.
LEMMA BackupSeenMoves ==
    ASSUME TypeOK, [Next]_vars, BackupSeen'
    PROVE  BackupSeen \/ cluster.backup
<1>1. clusterCache'.backup => clusterCache.backup \/ cluster.backup
    BY ClusterMoves
<1>2. /\ Acknowledged(cluster'.status) => BackupSeen
      /\ Acknowledged(clusterCache'.status) => BackupSeen
  <2>1. CASE UNCHANGED cluster /\ clusterCache' \in {clusterCache, cluster}
      BY <2>1 DEF BackupSeen
  <2>2. CASE SavesStatus /\ UNCHANGED clusterCache
      BY <2>2 DEF BackupSeen, SavesStatus
  <2>3. CASE ReportsStatus /\ UNCHANGED clusterCache
      BY <2>3 DEF BackupSeen, ReportsStatus, Acknowledged
  <2>4. CASE EditsCluster /\ UNCHANGED clusterCache
      BY <2>4 DEF BackupSeen, EditsCluster
  <2> QED
      BY <2>1, <2>2, <2>3, <2>4, ClusterMoves
<1>3. ASSUME pc' # "idle", snap'.backup \/ Acknowledged(snap'.status)
      PROVE  BackupSeen
  <2>1. CASE UNCHANGED <<pc, snap>>
      BY <1>3, <2>1 DEF BackupSeen
  <2>2. CASE StartReconcile
      BY <1>3, <2>2, Starts DEF BackupSeen, Acknowledged
  <2>3. CASE Handles
      BY <1>3, <2>3 DEF BackupSeen, Acknowledged, Handles, StageMoves
  <2> QED
      BY <1>3, <2>1, <2>2, <2>3, SnapMoves
<1> QED
    BY <1>1, <1>2, <1>3 DEF BackupSeen, Acknowledged

\* Setting or removing the annotation.
LEMMA BackupSet ==
    ASSUME TypeOK, SetBackup
    PROVE  /\ budget["backup"] \in Nat /\ budget["backup"] > 0
           /\ budget'["backup"] = budget["backup"] - 1
           /\ cluster'.backup = ~cluster.backup
           /\ cluster'.status = cluster.status
           /\ UNCHANGED <<clusterCache, pc, snap>>
<1>1. Spend("backup")
    BY DEF SetBackup
<1>2. /\ budget["backup"] \in Nat /\ budget["backup"] > 0
      /\ budget'["backup"] = budget["backup"] - 1
    BY <1>1 DEF Spend, TypeOK, Disturbances
<1>3. /\ cluster'.backup = ~cluster.backup
      /\ cluster'.status = cluster.status
      /\ UNCHANGED <<clusterCache, pc, snap>>
    BY DEF SetBackup, EditCluster, TypeOK, ClusterObject
<1> QED
    BY <1>2, <1>3

LEMMA FenceStep ==
    ASSUME Budget["backup"] <= 2, TypeOK, FenceInv, [Next]_vars
    PROVE  FenceInv'
<1>0. /\ budget["backup"] \in Nat /\ Budget["backup"] \in Nat
      /\ cluster.backup \in BOOLEAN
    BY ReconcilerAssumption DEF TypeOK, Disturbances, ClusterObject
<1>1. pc' \in {"upgrade", "check"} => ~snap'.backup
  <2>1. CASE StartReconcile
      BY <2>1, Starts
  <2>2. CASE Handles
      BY <2>2 DEF Handles, StageMoves, FenceInv
  <2> QED
      BY <2>1, <2>2, SnapMoves DEF FenceInv
<1>2. CASE SetBackup
  <2>1. /\ budget["backup"] > 0
        /\ budget'["backup"] = budget["backup"] - 1
        /\ cluster'.backup = ~cluster.backup
        /\ cluster'.status = cluster.status
        /\ UNCHANGED <<clusterCache, pc, snap>>
      BY <1>2, BackupSet
  <2>2. BackupSeen' <=> BackupSeen
      BY <2>1 DEF BackupSeen, Acknowledged
  <2>3. CASE budget["backup"] = Budget["backup"]
    <3>1. ~BackupSeen
        BY <2>3 DEF FenceInv
    <3>2. budget["backup"] + 1 # Budget["backup"]
        BY <1>0, <2>3
    <3>3. ~cluster.backup
        BY <3>2 DEF FenceInv
    <3>4. /\ budget'["backup"] <= Budget["backup"]
          /\ budget'["backup"] + 1 = Budget["backup"]
          /\ budget'["backup"] # Budget["backup"]
        BY <1>0, <2>1, <2>3
    <3>5. ~Acknowledged(cluster'.status)
        BY <2>1, <3>1 DEF BackupSeen
    <3> QED
        BY <1>1, <2>1, <2>2, <3>1, <3>3, <3>4, <3>5
        DEF FenceInv, Acknowledged
  <2>4. CASE budget["backup"] # Budget["backup"]
    <3>1. budget["backup"] + 1 = Budget["backup"]
        BY <1>0, <2>1, <2>4 DEF FenceInv
    <3>2. cluster.backup
        BY <3>1 DEF FenceInv
    <3>3. /\ budget'["backup"] <= Budget["backup"]
          /\ budget'["backup"] + 1 # Budget["backup"]
          /\ budget'["backup"] # Budget["backup"]
        BY <1>0, <2>1, <3>1
    <3> QED
        BY <1>1, <2>1, <3>2, <3>3 DEF FenceInv
  <2> QED
      BY <2>3, <2>4
<1>3. CASE ~SetBackup
  <2>1. budget'["backup"] = budget["backup"]
      BY <1>3, BackupBudget
  <2>2. cluster'.backup = cluster.backup
      BY <1>3, ClusterMoves DEF SavesStatus, ReportsStatus, EditsCluster
  <2>3. budget'["backup"] = Budget["backup"] => ~BackupSeen'
    <3> SUFFICES ASSUME budget["backup"] = Budget["backup"]
                 PROVE  ~BackupSeen'
        BY <2>1
    <3>1. budget["backup"] + 1 # Budget["backup"]
        BY <1>0
    <3>2. ~cluster.backup /\ ~BackupSeen
        BY <3>1 DEF FenceInv
    <3> QED
        BY <3>2, BackupSeenMoves
  <2>4. cluster'.backup /\ BackupSeen' => clusterCache'.backup
    <3> SUFFICES ASSUME cluster.backup, BackupSeen'
                 PROVE  clusterCache'.backup
        BY <2>2
    <3>1. CASE clusterCache' = cluster
        BY <3>1
    <3>2. CASE clusterCache' = clusterCache
      <4>1. CASE BackupSeen
          BY <3>2, <4>1 DEF FenceInv
      <4>2. CASE ~BackupSeen
        <5>1. /\ ~clusterCache.backup
              /\ ~Acknowledged(cluster.status)
              /\ ~Acknowledged(clusterCache.status)
              /\ pc # "idle" => ~snap.backup /\ ~Acknowledged(snap.status)
            BY <4>2 DEF BackupSeen
        <5>2. ~Acknowledged(cluster'.status)
            BY <5>1, ClusterMoves
            DEF SavesStatus, ReportsStatus, EditsCluster, Acknowledged
        <5>3. pc' # "idle" => ~snap'.backup /\ ~Acknowledged(snap'.status)
          <6>1. CASE UNCHANGED <<pc, snap>>
              BY <5>1, <6>1 DEF Acknowledged
          <6>2. CASE StartReconcile
              BY <5>1, <6>2, Starts DEF Acknowledged
          <6>3. CASE Handles
              BY <5>1, <6>3 DEF Handles, StageMoves, Acknowledged
          <6> QED
              BY <6>1, <6>2, <6>3, SnapMoves
        <5>4. ~BackupSeen'
            BY <3>2, <5>1, <5>2, <5>3 DEF BackupSeen, Acknowledged
        <5> QED
            BY <5>4
      <4> QED
          BY <4>1, <4>2
    <3> QED
        BY <3>1, <3>2, ClusterMoves
  <2>5. cluster'.backup /\ pc' # "idle" /\ Acknowledged(cluster'.status) =>
            snap'.backup
    <3> SUFFICES ASSUME cluster.backup, pc' # "idle",
                        Acknowledged(cluster'.status)
                 PROVE  snap'.backup
        BY <2>2
    <3>1. CASE ReportsStatus /\ UNCHANGED <<clusterCache, pc, snap>>
        BY <3>1 DEF ReportsStatus
    <3>2. CASE cluster'.status = cluster.status
      <4>1. clusterCache.backup
          BY <3>2 DEF FenceInv, BackupSeen
      <4>2. CASE UNCHANGED <<pc, snap>>
          BY <3>2, <4>2 DEF FenceInv
      <4>3. CASE StartReconcile
          BY <4>1, <4>3, Starts
      <4>4. CASE Handles
          BY <3>2, <4>4 DEF FenceInv, Handles, StageMoves
      <4> QED
          BY <4>2, <4>3, <4>4, SnapMoves
    <3> QED
        BY <3>1, <3>2, ClusterMoves DEF SavesStatus, EditsCluster
  <2> QED
      BY <1>1, <2>1, <2>2, <2>3, <2>4, <2>5 DEF FenceInv, Acknowledged
<1> QED
    BY <1>2, <1>3

\* For a backup that is begun and ended: once the operator has acknowledged the
\* annotation, it mutates no deployment and no job until it is removed, however
\* far the informers are behind and whatever the user, the jobs and failing
\* requests do meanwhile.
THEOREM AcknowledgedFenceHolds ==
    Budget["backup"] <= 2 => (Spec => FenceAcknowledged)
<1>1. ASSUME Budget["backup"] <= 2
      PROVE  Spec => FenceAcknowledged
  <2>1. TypeOK /\ FenceInv /\ [Next]_vars => FenceInv'
      BY <1>1, FenceStep
  <2>2. TypeOK /\ FenceInv /\ [Next]_vars =>
            [cluster.backup /\ cluster.status.backupSafe = "BackupInProgress"
                => ~Mutates]_vars
      BY MutatesUnfenced DEF FenceInv, Unfenced, Acknowledged
  <2> QED
      BY <2>1, <2>2, FenceInit, TypeCorrect, PTL DEF Spec, FenceAcknowledged
<1> QED
    BY <1>1

-----------------------------------------------------------------------------
(* The approval of an upgrade *)

\* The upgrade that a reconcile begins with: recorded, detected, or the one the
\* cache shows.
LEMMA StartsUpgrade ==
    ASSUME TypeOK, StartReconcile
    PROVE  LET old == clusterCache.status
               new == snap'.status
               v == clusterCache.spec.version
           IN /\ pc' = IF ~clusterCache.backup /\ Upgrading(new)
                       THEN "upgrade" ELSE "init"
              /\ \/ /\ old.phase = "None"
                    /\ new.phase = "Complete" /\ new.toVersion = v
                 \/ /\ old.phase = "Complete" /\ old.toVersion # v
                    /\ ~clusterCache.backup
                    /\ new.phase = "Waiting" /\ new.toVersion = v
                 \/ /\ old.phase # "None"
                    /\ new.phase = old.phase
                    /\ new.toVersion = old.toVersion
                    /\ old.phase = "Complete" /\ ~clusterCache.backup =>
                          old.toVersion = v
<1> DEFINE v == clusterCache.spec.version
           st == [clusterCache.status EXCEPT !.reconciling = "True",
                                             !.catalogReady = "True"]
           r == RecordUpgrade(st, v)
           d == DetectUpgrade(r, v, clusterCache.backup)
<1>1. /\ clusterCache \in ClusterObject
      /\ clusterCache.status \in ClusterStatus /\ v \in Versions
    BY VersionsAreNumbers DEF TypeOK
<1>2. snap'.status = d
    BY <1>1 DEF StartReconcile, ClusterObject
<1>3. /\ st \in ClusterStatus
      /\ st.phase = clusterCache.status.phase
      /\ st.toVersion = clusterCache.status.toVersion
    BY <1>1 DEF ClusterStatus, ConditionStatus
<1>4. pc' = IF ~clusterCache.backup /\ Upgrading(d) THEN "upgrade" ELSE "init"
    BY DEF StartReconcile
<1> HIDE DEF st
<1>5. /\ r \in ClusterStatus
      /\ st.phase = "None" => r.phase = "Complete" /\ r.toVersion = v
      /\ st.phase # "None" => r = st
    BY <1>1, <1>3 DEF RecordUpgrade, ClusterStatus, UpgradePhases
<1> HIDE DEF r
<1>6. IF ~clusterCache.backup /\ r.phase = "Complete" /\ r.toVersion # v
      THEN d.phase = "Waiting" /\ d.toVersion = v
      ELSE d = r
    BY <1>5 DEF DetectUpgrade, ClusterStatus
<1> HIDE DEF d
<1> QED
    BY <1>2, <1>3, <1>4, <1>5, <1>6

\* A reconcile begins with the cluster as it is where its informer is prompt.
LEMMA PromptCluster ==
    ASSUME "cluster" \notin Lagging, Prompt, ClusterCacheCurrent
    PROVE  clusterCache = cluster
BY DEF Prompt, Behind, Watched, Informers, ClusterCacheCurrent

\* The version is changed once the upgrade to the former is complete.
LEMMA AnotherVersion ==
    ASSUME ~EditsMidUpgrade, TypeOK, SetVersion
    PROVE  UpgradeSettled /\ cluster'.spec.version # cluster.spec.version
<1>1. PICK v \in Versions \ {cluster.spec.version} :
          EditCluster([cluster EXCEPT !.spec.version = v])
    BY DEF SetVersion
<1>2. cluster'.spec.version = v
    BY <1>1 DEF EditCluster, TypeOK, ClusterObject, ClusterSpec
<1> QED
    BY <1>1, <1>2 DEF SetVersion

\* An upgrade in progress is to the version in the spec, in the stored cluster
\* and in the reconcile in flight; and none is in flight that the cluster does
\* not wait for.
AlignInv ==
    /\ Upgrading(cluster.status) =>
          cluster.status.toVersion = cluster.spec.version
    /\ pc # "idle" =>
          /\ UpgradeSettled => snap.status.phase = "Complete"
          /\ Upgrading(snap.status) =>
                /\ snap.status.toVersion = snap.spec.version
                /\ snap.spec.version = cluster.spec.version

LEMMA AlignStep ==
    ASSUME "cluster" \notin Lagging, ~EditsMidUpgrade,
           TypeOK, ClusterCacheCurrent, AlignInv, [Next]_vars
    PROVE  AlignInv'
<1>1. CASE UNCHANGED cluster
  <2>1. CASE UNCHANGED <<pc, snap>> \/ pc' = "idle"
      BY <1>1, <2>1 DEF AlignInv, UpgradeSettled, Upgrading
  <2>2. CASE Prompt /\ StartReconcile
    <3>1. clusterCache = cluster
        BY <2>2, PromptCluster
    <3>2. snap'.spec = cluster.spec
        BY <2>2, <3>1, Starts
    <3> QED
        BY <1>1, <2>2, <3>1, <3>2, StartsUpgrade
        DEF AlignInv, UpgradeSettled, Upgrading
  <2>3. CASE Handles
    <3>1. PhaseMoves(snap.status.phase, snap'.status.phase)
        BY <2>3 DEF Handles
    <3>2. /\ snap.status.phase = "Complete" => snap'.status.phase = "Complete"
          /\ Upgrading(snap'.status) => Upgrading(snap.status)
        BY <3>1 DEF PhaseMoves, Upgrading
    <3>3. pc # "idle" /\ snap'.spec = snap.spec
             /\ snap'.status.toVersion = snap.status.toVersion
        BY <2>3 DEF Handles, StageMoves
    <3> QED
        BY <1>1, <3>2, <3>3 DEF AlignInv, UpgradeSettled, Upgrading
  <2> QED
      BY <2>1, <2>2, <2>3, SnapMoves
<1>2. CASE SavesStatus
    BY <1>2 DEF SavesStatus, AlignInv, Upgrading
<1>3. CASE ReportsStatus /\ UNCHANGED <<pc, snap>>
    BY <1>3 DEF ReportsStatus, AlignInv, ClusterCacheCurrent, Upgrading
<1>4. CASE EditsCluster /\ UNCHANGED <<pc, snap>>
  <2>1. CASE cluster'.spec.version = cluster.spec.version
      BY <1>4, <2>1 DEF EditsCluster, AlignInv, UpgradeSettled, Upgrading
  <2>2. CASE SetVersion
    <3>1. UpgradeSettled /\ cluster'.spec.version # cluster.spec.version
        BY <2>2, AnotherVersion
    <3> QED
        BY <1>4, <3>1 DEF EditsCluster, AlignInv, UpgradeSettled, Upgrading
  <2> QED
      BY <1>4, <2>1, <2>2 DEF EditsCluster
<1> QED
    BY <1>1, <1>2, <1>3, <1>4, ClusterMoves

LEMMA AlignAlways ==
    ASSUME "cluster" \notin Lagging, ~EditsMidUpgrade
    PROVE  Spec => []AlignInv
<1>1. Init => AlignInv
    BY DEF Init, AlignInv, NewCluster, EmptyStatus, Upgrading
<1>2. TypeOK /\ ClusterCacheCurrent /\ AlignInv /\ [Next]_vars => AlignInv'
    BY AlignStep
<1> QED
    BY <1>1, <1>2, TypeCorrect, CurrentAlways, PTL DEF Spec

\* What is approved stays so, and a user who changes the version or the policy
\* to an Automatic one, or changes a cluster not yet reconciled, approves.
LEMMA ApprovalMoves ==
    ASSUME TypeOK, [Next]_vars
    PROVE  /\ approved \subseteq approved'
           /\ \/ /\ cluster'.spec.version = cluster.spec.version
                 /\ cluster'.spec.upgradePolicy = cluster.spec.upgradePolicy
              \/ /\ cluster'.status = cluster.status
                 /\ \/ cluster'.spec.upgradePolicy = "Automatic"
                    \/ cluster'.status.phase = "None"
                    => cluster'.spec.version \in approved'
<1>0. cluster \in ClusterObject /\ cluster.spec \in ClusterSpec
    BY DEF TypeOK, ClusterObject
<1> DEFINE Goal == /\ approved \subseteq approved'
                   /\ \/ /\ cluster'.spec.version = cluster.spec.version
                         /\ cluster'.spec.upgradePolicy =
                               cluster.spec.upgradePolicy
                      \/ /\ cluster'.status = cluster.status
                         /\ \/ cluster'.spec.upgradePolicy = "Automatic"
                            \/ cluster'.status.phase = "None"
                            => cluster'.spec.version \in approved'
<1> SUFFICES Goal
    OBVIOUS
<1> HIDE DEF Goal
<1>1. ASSUME NEW new, EditCluster(new), Approve(new),
             new.status = cluster.status
      PROVE  Goal
    BY <1>1 DEF EditCluster, Approve, Goal
<1>2. CASE SetVersion
  <2>1. PICK v \in Versions :
            LET new == [cluster EXCEPT !.spec.version = v]
            IN EditCluster(new) /\ Approve(new)
      BY <1>2 DEF SetVersion
  <2>2. [cluster EXCEPT !.spec.version = v].status = cluster.status
      BY <1>0 DEF ClusterObject
  <2> QED
      BY <1>1, <2>1, <2>2
<1>3. CASE SetPolicy
  <2>1. PICK q \in UpgradePolicies :
            LET new == [cluster EXCEPT !.spec.upgradePolicy = q]
            IN EditCluster(new) /\ Approve(new)
      BY <1>3 DEF SetPolicy
  <2>2. [cluster EXCEPT !.spec.upgradePolicy = q].status = cluster.status
      BY <1>0 DEF ClusterObject
  <2> QED
      BY <1>1, <2>1, <2>2
<1>4. CASE SetMaintenance \/ SetPaused \/ SetBackup
  <2>1. UNCHANGED approved
      BY <1>4 DEF SetMaintenance, SetPaused, SetBackup
  <2>2. cluster' \in {[cluster EXCEPT !.spec.maintenance = ~@],
                      [cluster EXCEPT !.spec.paused = ~@],
                      [cluster EXCEPT !.backup = ~@]}
      BY <1>4 DEF SetMaintenance, SetPaused, SetBackup, EditCluster
  <2>3. /\ cluster'.spec.version = cluster.spec.version
        /\ cluster'.spec.upgradePolicy = cluster.spec.upgradePolicy
      BY <1>0, <2>2 DEF ClusterObject, ClusterSpec
  <2> QED
      BY <2>1, <2>3 DEF Goal
<1>5. CASE ~(SetVersion \/ SetPolicy \/ SetMaintenance \/ SetPaused
                \/ SetBackup)
  <2>1. UNCHANGED approved
    <3>1. CASE Reconcile
        BY <3>1
        DEF Reconcile, ReconcilePaused, ReconcileSecretMissing,
            StartReconcile, UpgradePhaseWaiting, UpgradePhaseBlocked,
            UpgradePhaseConfig, UpgradePhaseMaintenanceJob,
            CreateMaintenanceJob, AwaitMaintenanceJob, RetryMaintenanceJob,
            UpgradePhaseInitJobs, CheckInitJobs, UpgradePhaseComponent,
            CheckRollout, ReconcileInitJobsAndStatus,
            ReconcileComponentsAndStatus, SaveParked, SaveFinal,
            InitJobsFail, ComponentsFail, UpgradeComponentFails, worldVars
    <3>2. CASE PromptInformers \/ \E i \in Informers : LaggingInformer(i)
        BY <3>2 DEF PromptInformers, LaggingInformer, Deliver, worldVars
    <3>3. CASE \/ Resync \/ Fault \/ Jobs \/ Rollouts \/ Drift
               \/ PromptRollouts \/ SetSecret
        BY <3>3
        DEF Resync, Fault, Jobs, JobCompletes, JobFails, Rollouts,
            RolloutStarts, RolloutEnds, Drift, PodFails, DeleteDeployment,
            DeploymentStatus, PromptRollouts, SetSecret, worldVars
    <3>4. CASE UNCHANGED vars
        BY <3>4 DEF vars
    <3> QED
        BY <1>5, <3>1, <3>2, <3>3, <3>4 DEF Next, User
  <2>2. cluster'.spec = cluster.spec
    <3>1. CASE SavesStatus \/ ReportsStatus \/ UNCHANGED cluster
        BY <3>1 DEF SavesStatus, ReportsStatus
    <3>2. CASE User
        BY <1>5, <3>2 DEF User, SetSecret, clusterVars
    <3>3. CASE EditsCluster /\ ~User
      <4>1. CASE Reconcile
        <5>1. CASE ReconcilePaused \/ ReconcileSecretMissing
            BY <3>1, <5>1, Reports
        <5>2. CASE SaveParked \/ SaveFinal
            BY <3>1, <5>2, Saves
        <5> QED
            BY <4>1, <5>1, <5>2
            DEF Reconcile, StartReconcile, UpgradePhaseWaiting,
                UpgradePhaseBlocked, UpgradePhaseConfig,
                UpgradePhaseMaintenanceJob, CreateMaintenanceJob,
                AwaitMaintenanceJob, RetryMaintenanceJob,
                UpgradePhaseInitJobs, CheckInitJobs, UpgradePhaseComponent,
                CheckRollout, ReconcileInitJobsAndStatus,
                ReconcileComponentsAndStatus, InitJobsFail, ComponentsFail,
                UpgradeComponentFails, clusterVars
      <4>2. CASE PromptInformers \/ \E i \in Informers : LaggingInformer(i)
          BY <4>2 DEF PromptInformers, LaggingInformer, Deliver
      <4>3. CASE \/ Resync \/ Fault \/ Jobs \/ Rollouts \/ Drift
                 \/ PromptRollouts \/ UNCHANGED vars
          BY <4>3
          DEF Resync, Fault, Jobs, JobCompletes, JobFails, Rollouts,
              RolloutStarts, RolloutEnds, Drift, PodFails, DeleteDeployment,
              DeploymentStatus, PromptRollouts, clusterVars, vars
      <4> QED
          BY <3>3, <4>1, <4>2, <4>3 DEF Next
    <3> QED
        BY <3>1, <3>2, <3>3, ClusterMoves
  <2> QED
      BY <2>1, <2>2 DEF Goal
<1> QED
    BY <1>2, <1>3, <1>4, <1>5

\* What the operator acts on is approved.  An upgrade leaves Waiting only for
\* a version that stood in the spec with policy Automatic, and a reconcile
\* deploys only for an upgrade that has left Waiting or has been completed.
ApprovedInv ==
    /\ cluster.status.phase = "None" => cluster.spec.version \in approved
    /\ cluster.spec.upgradePolicy = "Automatic" =>
          cluster.spec.version \in approved
    /\ cluster.status.phase \notin {"None", "Waiting"} =>
          cluster.status.toVersion \in approved
    /\ pc # "idle" =>
          /\ snap.spec.upgradePolicy = "Automatic" =>
                snap.spec.version \in approved
          /\ snap.status.phase # "Waiting" =>
                snap.status.toVersion \in approved
          /\ pc \in {"init", "components"} /\ ~snap.backup =>
                snap.spec.version \in approved

LEMMA ApprovedStep ==
    ASSUME "cluster" \notin Lagging, TypeOK, StatusInv, ClusterCacheCurrent,
           AlignInv, ApprovedInv, [Next]_vars
    PROVE  ApprovedInv'
<1>0. approved \subseteq approved'
    BY ApprovalMoves
<1>1. /\ cluster'.status.phase = "None" => cluster'.spec.version \in approved'
      /\ cluster'.spec.upgradePolicy = "Automatic" =>
            cluster'.spec.version \in approved'
      /\ cluster'.status.phase \notin {"None", "Waiting"} =>
            cluster'.status.toVersion \in approved'
  <2>1. /\ cluster'.status.phase = "None" => cluster.status.phase = "None"
        /\ cluster'.status.phase \notin {"None", "Waiting"} =>
              cluster'.status.toVersion \in approved
    <3>1. CASE cluster'.status = cluster.status
        BY <3>1 DEF ApprovedInv
    <3>2. CASE SavesStatus
        BY <3>2 DEF SavesStatus, ApprovedInv, StatusInv, SnapshotTracks
    <3>3. CASE ReportsStatus
        BY <3>3 DEF ReportsStatus, ApprovedInv, ClusterCacheCurrent
    <3> QED
        BY <3>1, <3>2, <3>3, ClusterMoves DEF EditsCluster
  <2> QED
      BY <1>0, <2>1, ApprovalMoves DEF ApprovedInv
<1>2. CASE UNCHANGED <<pc, snap>> \/ pc' = "idle"
    BY <1>0, <1>1, <1>2 DEF ApprovedInv
<1>3. CASE Prompt /\ StartReconcile
  <2>1. clusterCache = cluster
      BY <1>3, PromptCluster
  <2>2. snap'.spec = cluster.spec /\ snap'.backup = cluster.backup
      BY <1>3, <2>1, Starts
  <2>3. snap'.status.phase # "Waiting" => snap'.status.toVersion \in approved
      BY <1>3, <2>1, StartsUpgrade DEF ApprovedInv
  <2>4. pc' \in {"init", "components"} /\ ~snap'.backup =>
            snap'.spec.version \in approved
      BY <1>3, <2>1, <2>2, <2>3, StartsUpgrade DEF Upgrading, ApprovedInv
  <2> QED
      BY <1>0, <1>1, <2>2, <2>3, <2>4 DEF ApprovedInv
<1>4. CASE Handles
  <2>1. /\ pc # "idle" /\ StageMoves(pc, pc')
        /\ snap'.spec = snap.spec /\ snap'.backup = snap.backup
        /\ snap'.status.toVersion = snap.status.toVersion
        /\ PhaseMoves(snap.status.phase, snap'.status.phase)
      BY <1>4 DEF Handles, StageMoves
  <2>2. ASSUME snap.status.phase = "Waiting",
               snap.spec.upgradePolicy = "Automatic"
        PROVE  /\ snap.status.toVersion \in approved
               /\ snap.spec.version \in approved
      BY <2>1, <2>2 DEF AlignInv, ApprovedInv, Upgrading
  <2>3. snap'.status.phase # "Waiting" => snap'.status.toVersion \in approved
    <3>1. CASE snap.status.phase = "Waiting"
      <4>1. snap'.status.phase # "Waiting" =>
                snap.spec.upgradePolicy = "Automatic"
          BY <2>1, <3>1 DEF PhaseMoves
      <4> QED
          BY <2>1, <2>2, <3>1, <4>1
    <3> QED
        BY <2>1, <3>1 DEF ApprovedInv
  <2>4. ASSUME pc' \in {"init", "components"}, ~snap.backup
        PROVE  snap.spec.version \in approved
    <3>1. CASE pc = "init"
        BY <2>1, <2>4, <3>1 DEF ApprovedInv
    <3>2. CASE pc \in {"upgrade", "check"} /\ pc' = "init"
      <4>1. Upgrading(snap.status)
          BY <3>2 DEF StatusInv, SnapshotTracks, Upgrading, Components
      <4>2. CASE snap.status.phase = "Waiting"
          BY <1>4, <2>2, <3>2, <4>2 DEF Handles
      <4>3. CASE snap.status.phase # "Waiting"
          BY <2>1, <4>1, <4>3 DEF AlignInv, ApprovedInv
      <4> QED
          BY <4>2, <4>3
    <3> QED
        BY <2>1, <2>4, <3>1, <3>2 DEF StageMoves
  <2> QED
      BY <1>0, <1>1, <2>1, <2>3, <2>4 DEF ApprovedInv
<1> QED
    BY <1>2, <1>3, <1>4, SnapMoves

LEMMA DeploysApproved ==
    ASSUME TypeOK, StatusInv, AlignInv, ApprovedInv,
           ManualUpgradesAreApproved, [Next]_vars
    PROVE  ManualUpgradesAreApproved'
<1> SUFFICES ASSUME NEW c \in Components, deployments'[c].exists
             PROVE  deployments'[c].version \in approved'
    BY DEF ManualUpgradesAreApproved
<1>1. approved \subseteq approved'
    BY ApprovalMoves
<1>2. CASE /\ deployments[c].exists
           /\ deployments'[c].version = deployments[c].version
    BY <1>1, <1>2 DEF ManualUpgradesAreApproved
<1>3. CASE /\ deployments'[c].version = snap.spec.version
           /\ pc = "upgrade" /\ snap.status.phase \in Components
    BY <1>1, <1>3 DEF AlignInv, ApprovedInv, Upgrading, Components
<1>4. CASE /\ deployments'[c].version = snap.spec.version
           /\ pc = "components" /\ ~snap.backup
    BY <1>1, <1>4 DEF ApprovedInv
<1> QED
    BY <1>2, <1>3, <1>4, DeploymentMoves

\* With policy Manual no version is deployed that a user has not approved by
\* policy Automatic at some time, whatever fails, provided that reconciles
\* begin with the cluster as it is and that the version is left alone while an
\* upgrade is under way.
THEOREM UpgradesAreApproved ==
    "cluster" \notin Lagging /\ ~EditsMidUpgrade =>
        (Spec => []ManualUpgradesAreApproved)
<1>1. ASSUME "cluster" \notin Lagging, ~EditsMidUpgrade
      PROVE  Spec => []ManualUpgradesAreApproved
  <2>1. Init => ApprovedInv /\ ManualUpgradesAreApproved
      BY DEF Init, ApprovedInv, ManualUpgradesAreApproved, NewCluster,
             EmptyStatus, NoDeployment
  <2>2. /\ TypeOK /\ StatusInv /\ ClusterCacheCurrent /\ AlignInv
        /\ ApprovedInv /\ [Next]_vars
        => ApprovedInv'
      BY <1>1, ApprovedStep
  <2>3. /\ TypeOK /\ StatusInv /\ AlignInv /\ ApprovedInv
        /\ ManualUpgradesAreApproved /\ [Next]_vars
        => ManualUpgradesAreApproved'
      BY DeploysApproved
  <2>4. Spec => []AlignInv
      BY <1>1, AlignAlways
  <2> QED
      BY <2>1, <2>2, <2>3, <2>4, TypeCorrect, StatusInvariant, CurrentAlways,
         PTL DEF Spec
<1> QED
    BY <1>1

-----------------------------------------------------------------------------
(* What holds when the controller sleeps *)

\* The informer's copy of a deployment is current unless the lag says that it
\* is not.
DeploymentCacheCurrent ==
    \A c \in Components : c \notin lag => deploymentCache[c] = deployments[c]

LEMMA DeploymentCurrentStep ==
    TypeOK /\ DeploymentCacheCurrent /\ [Next]_vars => DeploymentCacheCurrent'
<1> SUFFICES ASSUME TypeOK, DeploymentCacheCurrent, [Next]_vars
             PROVE  DeploymentCacheCurrent'
    OBVIOUS
<1>0. deployments \in [Components -> Deployment]
    BY DEF TypeOK
<1>1. ASSUME UNCHANGED deploymentVars, lag \subseteq lag'
      PROVE  DeploymentCacheCurrent'
    BY <1>1 DEF DeploymentCacheCurrent, deploymentVars
<1>2. ASSUME UNCHANGED deploymentCache, lag \subseteq lag',
             \A c \in Components :
                 c \in lag' \/ deployments'[c] = deployments[c]
      PROVE  DeploymentCacheCurrent'
    BY <1>2 DEF DeploymentCacheCurrent
<1>3. ASSUME NEW cs, ReconcileDeployments(cs), UNCHANGED deploymentCache
      PROVE  DeploymentCacheCurrent'
    BY <1>2, <1>3 DEF ReconcileDeployments
<1>4. ASSUME NEW n, ReconcileInitJobs(n)
      PROVE  lag \subseteq lag'
    BY <1>4 DEF ReconcileInitJobs
<1>5. ASSUME NEW st, WriteStatus(st)
      PROVE  lag \subseteq lag'
    BY <1>5 DEF WriteStatus
<1>6. CASE UpgradePhaseComponent \/ ComponentsFail
    BY <1>3, <1>6 DEF UpgradePhaseComponent, ComponentsFail
<1>7. CASE ReconcileComponentsAndStatus
    BY <1>1, <1>3, <1>7 DEF ReconcileComponentsAndStatus, deploymentVars
<1>8. CASE UpgradePhaseInitJobs \/ ReconcileInitJobsAndStatus \/ InitJobsFail
    BY <1>1, <1>4, <1>8
    DEF UpgradePhaseInitJobs, ReconcileInitJobsAndStatus, InitJobsFail
<1>9. CASE ReconcilePaused \/ ReconcileSecretMissing \/ SaveParked
              \/ SaveFinal
    BY <1>1, <1>5, <1>9
    DEF ReconcilePaused, ReconcileSecretMissing, SaveParked, SaveFinal,
        UpdateStatus
<1>10. CASE \/ StartReconcile \/ UpgradePhaseWaiting \/ UpgradePhaseBlocked
            \/ UpgradePhaseConfig \/ CheckInitJobs \/ CheckRollout
            \/ UpgradeComponentFails \/ Fault \/ Resync \/ SetSecret
    BY <1>1, <1>10
    DEF StartReconcile, UpgradePhaseWaiting, UpgradePhaseBlocked,
        UpgradePhaseConfig, CheckInitJobs, CheckRollout,
        UpgradeComponentFails, Fault, Resync, SetSecret
<1>11. CASE UpgradePhaseMaintenanceJob \/ Jobs
  <2>1. UNCHANGED deploymentVars /\ lag \subseteq lag'
      BY <1>11
      DEF UpgradePhaseMaintenanceJob, CreateMaintenanceJob,
          AwaitMaintenanceJob, RetryMaintenanceJob, Jobs, JobCompletes,
          JobFails
  <2> QED
      BY <1>1, <2>1
<1>12. CASE \/ SetVersion \/ SetPolicy \/ SetMaintenance \/ SetPaused
            \/ SetBackup
  <2>1. UNCHANGED deploymentVars /\ lag \subseteq lag'
      BY <1>12 DEF SetVersion, SetPolicy, SetMaintenance, SetPaused,
                   SetBackup, EditCluster
  <2> QED
      BY <1>1, <2>1
<1>13. CASE Rollouts \/ Drift
  <2>1. ASSUME NEW x \in Components, NEW o, NEW u, NEW r,
               DeploymentStatus(x, o, u, r)
        PROVE  DeploymentCacheCurrent'
      BY <1>0, <1>2, <2>1 DEF DeploymentStatus
  <2>2. ASSUME NEW x \in Components, DeleteDeployment(x)
        PROVE  DeploymentCacheCurrent'
      BY <1>0, <1>2, <2>2 DEF DeleteDeployment
  <2> QED
      BY <1>13, <2>1, <2>2
      DEF Rollouts, RolloutStarts, RolloutEnds, Drift, PodFails
<1>14. CASE PromptRollouts
    BY <1>2, <1>14 DEF PromptRollouts
<1>15. ASSUME NEW is \in SUBSET Informers, Deliver(is)
       PROVE  DeploymentCacheCurrent'
  <2>1. CASE "deployments" \in is
      BY <1>15, <2>1 DEF Deliver, DeploymentCacheCurrent
  <2>2. CASE "deployments" \notin is
    <3>1. \A i \in is : Watched(i) \cap Components = {}
        BY <2>2 DEF Watched, Components, Informers
    <3>2. \A c \in Components : c \in lag => c \in lag'
        BY <1>15, <3>1 DEF Deliver
    <3> QED
        BY <1>15, <2>2, <3>2 DEF Deliver, DeploymentCacheCurrent
  <2> QED
      BY <2>1, <2>2
<1>16. CASE UNCHANGED vars
    BY <1>16 DEF vars, DeploymentCacheCurrent
<1> QED
    BY <1>6, <1>7, <1>8, <1>9, <1>10, <1>11, <1>12, <1>13, <1>14, <1>15,
       <1>16
    DEF Next, Reconcile, User, PromptInformers, LaggingInformer

LEMMA DeploymentCurrentAlways == Spec => []DeploymentCacheCurrent
<1>1. Init => DeploymentCacheCurrent
    BY DEF Init, DeploymentCacheCurrent
<1> QED
    BY <1>1, DeploymentCurrentStep, TypeCorrect, PTL DEF Spec

\* No event is on its way, and none is in the queue.
Fresh == ~queued /\ lag = {}

\* What the status of a reconcile says once setFinalConditions has run, if no
\* deployment has changed since.
FinalStatus(st, backup, version) ==
    /\ backup => st.backupSafe = "BackupInProgress"
    /\ ~backup => \A c \in Components :
                     deployments[c].exists /\ deployments[c].version = version
    /\ st.ready = "True" => \A c \in Components :
                     deployments[c].exists /\ deployments[c].ready
    /\ ~backup /\ st.ready = "True" /\ ~Upgrading(st) => st.backupSafe = "True"

\* As long as nothing has happened since it was begun, a reconcile works on the
\* cluster as it is.  A phase handler that lets the standard reconciliation
\* follow has moved the phase, so that saving the status is an event; only a
\* reconcile that leaves the status alone lets the controller sleep, and then
\* the upgrade is complete and the deployments are what setFinalConditions saw.
RestInv ==
    /\ pc \in {"upgrade", "check"} => ~snap.backup
    /\ Fresh /\ pc # "idle" =>
          snap.spec = cluster.spec /\ snap.backup = cluster.backup
    /\ Fresh /\ pc \in {"upgrade", "check"} =>
          \/ snap.status.phase = cluster.status.phase
          \/ snap.status.phase = "Waiting" /\ cluster.status.phase = "Complete"
    /\ Fresh /\ pc \in {"init", "components", "finish"} /\ ~snap.backup
          /\ snap.status.phase = cluster.status.phase =>
          /\ snap.status.phase = "Complete"
          /\ snap.status.toVersion = cluster.spec.version
    /\ Fresh /\ pc = "finish" =>
          FinalStatus(snap.status, snap.backup, snap.spec.version)
    /\ DeployedAtRest
    /\ BackupSafeAtRest

\* A step to the end of the standard reconciliation.
LEMMA Finishes ==
    ASSUME TypeOK, [Next]_vars, pc # "finish", pc' = "finish"
    PROVE  ReconcileComponentsAndStatus
<1>1. Handles
    BY SnapMoves, Starts
<1>2. pc = "components"
    BY <1>1 DEF Handles, StageMoves
<1>3. ReconcileComponentsAndStatus
  <2>1. CASE Reconcile
      BY <1>2, <2>1
      DEF Reconcile, ReconcilePaused, ReconcileSecretMissing, StartReconcile,
          Dequeue, UpgradePhaseWaiting, UpgradePhaseBlocked, AtPhase,
          UpgradePhaseConfig, UpgradePhaseMaintenanceJob,
          CreateMaintenanceJob, AwaitMaintenanceJob, RetryMaintenanceJob,
          UpgradePhaseInitJobs, CheckInitJobs, UpgradePhaseComponent,
          CheckRollout, ReconcileInitJobsAndStatus, SaveParked, SaveFinal,
          InitJobsFail, ComponentsFail, UpgradeComponentFails, ReturnError,
          Return
  <2>2. CASE PromptInformers \/ \E i \in Informers : LaggingInformer(i)
      BY <2>2 DEF PromptInformers, LaggingInformer, Deliver
  <2>3. CASE \/ Resync \/ Fault \/ Jobs \/ Rollouts \/ Drift \/ User
             \/ PromptRollouts \/ UNCHANGED vars
      BY <2>3
      DEF Resync, Fault, ReturnError, Return, Jobs, JobCompletes, JobFails,
          Rollouts, RolloutStarts, RolloutEnds, Drift, PodFails,
          DeleteDeployment, DeploymentStatus, PromptRollouts, User,
          SetVersion, SetPolicy, SetMaintenance, SetPaused, SetBackup,
          SetSecret, EditCluster, vars
  <2> QED
      BY <2>1, <2>2, <2>3 DEF Next
<1> QED
    BY <1>3

\* What a step does after which no event is on its way: one that changes
\* something, or delivers such a change, makes an event or queues the cluster.
LEMMA FreshMoves ==
    ASSUME TypeOK, ClusterCacheCurrent, [Next]_vars, Fresh'
    PROVE  \/ Fresh /\ UNCHANGED <<cluster, deployments, pc, snap>>
           \/ lag = {} /\ StartReconcile
           \/ Fresh /\ UNCHANGED cluster /\ Handles
           \/ SaveFinal
           \/ pc' = "idle" /\ cluster'.spec.paused
<1>0. ~queued' /\ lag' = {}
    BY DEF Fresh
<1>1. ASSUME NEW is \in SUBSET Informers, Deliver(is), \E i \in is : Behind(i)
      PROVE  FALSE
    BY <1>0, <1>1 DEF Deliver, Enqueuing
<1>2. CASE PromptInformers \/ \E i \in Informers : LaggingInformer(i)
    BY <1>1, <1>2 DEF PromptInformers, LaggingInformer
<1>3. CASE Resync \/ Fault \/ InitJobsFail \/ ComponentsFail
              \/ UpgradeComponentFails \/ ReconcileSecretMissing \/ SaveParked
    BY <1>0, <1>3 DEF Resync, Fault, InitJobsFail, ComponentsFail,
                      UpgradeComponentFails, ReturnError,
                      ReconcileSecretMissing, SaveParked
<1>4. CASE Jobs \/ Rollouts \/ Drift
    BY <1>0, <1>4
    DEF Jobs, JobCompletes, JobFails, Rollouts, RolloutStarts, RolloutEnds,
        Drift, PodFails, DeleteDeployment, DeploymentStatus
<1>5. CASE PromptRollouts
    BY <1>0, <1>5 DEF PromptRollouts
<1>6. CASE SetVersion \/ SetPolicy \/ SetMaintenance \/ SetPaused \/ SetBackup
    BY <1>0, <1>6 DEF SetVersion, SetPolicy, SetMaintenance, SetPaused,
                      SetBackup, EditCluster
<1>7. CASE SetSecret \/ UNCHANGED vars
    BY <1>0, <1>7 DEF Fresh, SetSecret, vars, clusterVars, deploymentVars
<1>8. CASE ReconcilePaused
  <2>1. "cluster" \notin lag /\ WriteStatus(PausedStatus(clusterCache.status))
      BY <1>0, <1>8 DEF ReconcilePaused
  <2>2. cluster'.spec = cluster.spec
      BY <2>1 DEF WriteStatus, TypeOK, ClusterObject
  <2> QED
      BY <1>8, <2>1, <2>2 DEF ReconcilePaused, Dequeue, ClusterCacheCurrent
<1>9. CASE StartReconcile
    BY <1>0, <1>9 DEF StartReconcile
<1>10. CASE UpgradePhaseWaiting \/ UpgradePhaseBlocked \/ UpgradePhaseConfig
    BY <1>0, <1>10, PhaseHandles
    DEF Fresh, UpgradePhaseWaiting, UpgradePhaseBlocked, UpgradePhaseConfig,
        clusterVars
<1>11. CASE UpgradePhaseMaintenanceJob
  <2>1. PICK p \in {"StartMaintenance", "EndMaintenance"} :
           CreateMaintenanceJob(p) \/ AwaitMaintenanceJob(p)
              \/ RetryMaintenanceJob(p)
      BY <1>11 DEF UpgradePhaseMaintenanceJob
  <2>2. ~CreateMaintenanceJob(p)
      BY <1>0 DEF CreateMaintenanceJob, ReturnError
  <2>3. Fresh /\ UNCHANGED cluster /\ pc' # "idle"
      BY <1>0, <2>1, <2>2
      DEF Fresh, AwaitMaintenanceJob, RetryMaintenanceJob, Park, Continue,
          clusterVars
  <2> QED
      BY <1>11, <2>3, MaintenanceHandles DEF Return
<1>12. CASE \/ UpgradePhaseInitJobs \/ CheckInitJobs
            \/ UpgradePhaseComponent \/ CheckRollout
  <2>1. Fresh /\ UNCHANGED cluster /\ pc' # "idle"
      BY <1>0, <1>12
      DEF Fresh, UpgradePhaseInitJobs, CheckInitJobs, UpgradePhaseComponent,
          CheckRollout, ReturnError, Park, Continue, ReconcileInitJobs,
          ReconcileDeployments, clusterVars
  <2> QED
      BY <1>12, <2>1, RolloutHandles DEF Return
<1>13. CASE ReconcileInitJobsAndStatus \/ ReconcileComponentsAndStatus
  <2>1. Fresh /\ UNCHANGED cluster
      BY <1>0, <1>13
      DEF Fresh, ReconcileInitJobsAndStatus, ReconcileComponentsAndStatus,
          ReconcileInitJobs, ReconcileDeployments, clusterVars
  <2> QED
      BY <1>13, <2>1, StandardHandles
<1> QED
    BY <1>2, <1>3, <1>4, <1>5, <1>6, <1>7, <1>8, <1>9, <1>10, <1>11, <1>12,
       <1>13
    DEF Next, Reconcile, User

\* The standard reconciliation of components that leaves every deployment alone
\* has found each with the template it should have.
LEMMA Finalised ==
    ASSUME TypeOK, DeploymentCacheCurrent, ReconcileComponentsAndStatus,
           lag' = {}
    PROVE  FinalStatus(snap.status, snap.backup, snap.spec.version)'
<1> DEFINE st == FinalConditions(snap.status, snap.backup, ComponentsReady)
<1>1. snap' = [snap EXCEPT !.status = st]
    BY DEF ReconcileComponentsAndStatus, TypeOK, ClusterObject
<1>2. /\ snap.backup => st.backupSafe = "BackupInProgress"
      /\ st.ready = "True" => ComponentsReady
      /\ ~snap.backup /\ ComponentsReady /\ ~Upgrading(st) =>
            st.backupSafe = "True"
    BY SnapTypes
    DEF FinalConditions, ClusterStatus, AsCondition, Upgrading
<1> HIDE DEF st
<1>3. /\ snap'.spec = snap.spec /\ snap'.backup = snap.backup
      /\ snap'.status = st
    BY <1>1, SnapStatusReplaced
<1>4. ASSUME NEW c \in Components
      PROVE  /\ deployments'[c] = deployments[c]
             /\ deploymentCache[c] = deployments[c]
             /\ ~snap.backup => /\ deployments[c].exists
                                /\ deployments[c].version = snap.spec.version
  <2>1. CASE snap.backup
      BY <2>1 DEF ReconcileComponentsAndStatus, DeploymentCacheCurrent
  <2>2. CASE ~snap.backup
    <3>1. ReconcileDeployments(Components)
        BY <2>2 DEF ReconcileComponentsAndStatus
    <3>2. /\ deployments'[c] = DeploymentAfter(c) /\ c \notin lag
          /\ DeploymentAfter(c) = deployments[c] /\ ~DeploymentError(c)
        BY <3>1 DEF ReconcileDeployments
    <3>3. deploymentCache[c] = deployments[c] /\ deployments[c] \in Deployment
        BY <3>2 DEF DeploymentCacheCurrent, TypeOK
    <3>4. deployments[c].exists
        BY <3>2, <3>3 DEF DeploymentAfter, NewDeployment
    <3>5. ~TemplateDiffers(deployments[c])
        BY <3>2, <3>3, <3>4 DEF DeploymentAfter, TemplateDiffers, Deployment
    <3> QED
        BY <3>2, <3>3, <3>4, <3>5 DEF TemplateDiffers
  <2> QED
      BY <2>1, <2>2
<1> QED
    BY <1>2, <1>3, <1>4 DEF FinalStatus, ComponentsReady, Upgrading

LEMMA RestStep ==
    ASSUME TypeOK, ClusterCacheCurrent, DeploymentCacheCurrent,
           RestInv, [Next]_vars
    PROVE  RestInv'
<1>0. pc' \in {"upgrade", "check"} => ~snap'.backup
  <2>1. CASE StartReconcile
      BY <2>1, Starts
  <2>2. CASE Handles
      BY <2>2 DEF Handles, StageMoves, RestInv
  <2> QED
      BY <2>1, <2>2, SnapMoves DEF RestInv
<1>1. CASE ~Fresh'
    BY <1>0, <1>1 DEF RestInv, DeployedAtRest, BackupSafeAtRest, AtRest, Fresh
<1>2. CASE Fresh /\ UNCHANGED <<cluster, deployments, pc, snap>> /\ Fresh'
  <2>1. FinalStatus(snap.status, snap.backup, snap.spec.version)' <=>
           FinalStatus(snap.status, snap.backup, snap.spec.version)
      BY <1>2 DEF FinalStatus, Upgrading
  <2>2. DeployedAtRest' /\ BackupSafeAtRest'
      BY <1>2 DEF RestInv, DeployedAtRest, BackupSafeAtRest, AtRest, Fresh,
                  UpgradeSettled, Upgrading
  <2> QED
      BY <1>0, <1>2, <2>1, <2>2 DEF RestInv
<1>3. CASE lag = {} /\ StartReconcile
  <2>1. clusterCache = cluster /\ UNCHANGED cluster
      BY <1>3 DEF ClusterCacheCurrent, StartReconcile, clusterVars
  <2>2. /\ snap'.spec = cluster.spec /\ snap'.backup = cluster.backup
        /\ pc' \in {"upgrade", "init"}
      BY <1>3, <2>1, Starts
  <2> QED
      BY <1>0, <1>3, <2>1, <2>2, StartsUpgrade
      DEF RestInv, DeployedAtRest, BackupSafeAtRest, AtRest, Upgrading
<1>4. CASE Fresh /\ UNCHANGED cluster /\ Handles /\ Fresh'
  <2>1. /\ StageMoves(pc, pc')
        /\ snap'.spec = snap.spec /\ snap'.backup = snap.backup
        /\ snap'.status.toVersion = snap.status.toVersion
        /\ PhaseMoves(snap.status.phase, snap'.status.phase)
        /\ pc \in {"upgrade", "check"} \/ snap'.status.phase = snap.status.phase
        /\ pc' = "init" => snap'.status.phase # snap.status.phase
      BY <1>4 DEF Handles
  <2>2. pc' \notin {"idle", "upgrade"} /\ pc # "idle"
      BY <2>1 DEF StageMoves
  <2>3. pc' = "check" =>
           \/ snap'.status.phase = cluster.status.phase
           \/ /\ snap'.status.phase = "Waiting"
              /\ cluster.status.phase = "Complete"
      BY <1>4, <2>1 DEF RestInv, StageMoves, Handles
  <2>4. pc' = "init" => snap'.status.phase # cluster.status.phase
    <3> SUFFICES ASSUME pc' = "init"
                 PROVE  snap'.status.phase # cluster.status.phase
        OBVIOUS
    <3>1. pc \in {"upgrade", "check"}
        BY <2>1 DEF StageMoves
    <3> QED
        BY <1>4, <2>1, <3>1 DEF RestInv, PhaseMoves
  <2>5. ASSUME pc' \in {"components", "finish"}, ~snap.backup,
               snap'.status.phase = cluster.status.phase
        PROVE  /\ snap'.status.phase = "Complete"
               /\ snap'.status.toVersion = cluster.spec.version
    <3>1. pc \in {"init", "components"}
        BY <2>1, <2>5 DEF StageMoves
    <3> QED
        BY <1>4, <2>1, <2>5, <3>1 DEF RestInv
  <2>6. ASSUME pc' = "finish"
        PROVE  FinalStatus(snap.status, snap.backup, snap.spec.version)'
    <3>1. pc # "finish"
        BY <2>1 DEF StageMoves
    <3> QED
        BY <1>4, <2>6, <3>1, Finishes, Finalised DEF Fresh
  <2>7. snap'.spec = cluster.spec /\ snap'.backup = cluster.backup
      BY <1>4, <2>1, <2>2 DEF RestInv
  <2>8. DeployedAtRest' /\ BackupSafeAtRest'
      BY <2>2 DEF DeployedAtRest, BackupSafeAtRest, AtRest
  <2> QED
      BY <1>0, <1>4, <2>1, <2>2, <2>3, <2>4, <2>5, <2>6, <2>7, <2>8
      DEF RestInv
<1>5. CASE SaveFinal /\ Fresh'
  <2>1. /\ pc = "finish" /\ pc' = "idle" /\ UpdateStatus
        /\ ~queued /\ ~StatusConflict /\ snap.status.ready = "True"
        /\ lag' = {} /\ UNCHANGED deployments
      BY <1>5 DEF SaveFinal, Return, Fresh, deploymentVars
  <2>2. Fresh /\ UNCHANGED cluster /\ cluster.status = snap.status
    <3>1. CASE clusterCache.status = snap.status
        BY <2>1, <3>1 DEF UpdateStatus, Fresh, ClusterCacheCurrent
    <3>2. CASE WriteStatus(snap.status)
      <4>1. lag = {} /\ snap.status = cluster.status
          BY <2>1, <3>2 DEF WriteStatus
      <4> QED
          BY <2>1, <3>2, <4>1 DEF WriteStatus, Fresh, TypeOK, ClusterObject
    <3> QED
        BY <2>1, <3>1, <3>2 DEF UpdateStatus
  <2>3. /\ snap.backup = cluster.backup /\ snap.spec = cluster.spec
        /\ FinalStatus(cluster.status, cluster.backup, cluster.spec.version)
        /\ ~cluster.backup => UpgradeSettled
      BY <2>1, <2>2 DEF RestInv, UpgradeSettled
  <2>4. DeployedAtRest'
      BY <2>1, <2>2, <2>3 DEF DeployedAtRest, FinalStatus, UpgradeSettled
  <2>5. BackupSafeAtRest'
      BY <2>1, <2>2, <2>3
      DEF BackupSafeAtRest, FinalStatus, UpgradeSettled, Upgrading
  <2> QED
      BY <1>0, <2>1, <2>4, <2>5 DEF RestInv
<1>6. CASE pc' = "idle" /\ cluster'.spec.paused
    BY <1>0, <1>6 DEF RestInv, DeployedAtRest, BackupSafeAtRest
<1> QED
    BY <1>1, <1>2, <1>3, <1>4, <1>5, <1>6, FreshMoves

LEMMA RestAlways == Spec => []RestInv
<1>1. Init => RestInv
    BY DEF Init, RestInv, DeployedAtRest, BackupSafeAtRest, AtRest
<1>2. /\ TypeOK /\ ClusterCacheCurrent /\ DeploymentCacheCurrent
      /\ RestInv /\ [Next]_vars
      => RestInv'
    BY RestStep
<1> QED
    BY <1>1, <1>2, TypeCorrect, CurrentAlways, DeploymentCurrentAlways,
       PTL DEF Spec

\* Whatever the caches miss, the API server refuses, and the user or anybody
\* else changes: the controller sleeps only when every deployment has the
\* version of the spec and the status says so.
THEOREM RestIsDeployed == Spec => []DeployedAtRest
<1>1. RestInv => DeployedAtRest
    BY DEF RestInv
<1> QED
    BY <1>1, RestAlways, PTL

\* ... and when BackupSafe is right.
THEOREM RestIsBackupSafe == Spec => []BackupSafeAtRest
<1>1. RestInv => BackupSafeAtRest
    BY DEF RestInv
<1> QED
    BY <1>1, RestAlways, PTL

-----------------------------------------------------------------------------
(* Maintenance brackets an upgrade *)

\* The maintenance jobs s and e of an upgrade's version, and the mirrors ms,
\* while the upgrade is in phase p; m: maintenance is configured.
JobsAtPhase(s, e, ms, p, m) ==
    /\ e # "absent" => s = "complete"
    /\ p # "EndMaintenance" =>
          e = "absent" /\ (s = "complete" => ms = "paused")
    /\ p = "EndMaintenance" /\ e = "complete" => ms = "running"
    /\ m /\ p \in {"Config", "InitJobs", "EndMaintenance"} \cup Components =>
          s = "complete"
    /\ ~m => /\ s = "absent" /\ ms = "running"
             /\ p \notin {"StartMaintenance", "EndMaintenance"}

\* What a status says about the maintenance jobs js and the mirrors: those of
\* later versions do not exist, and only those of an upgrade in progress run.
Bracket(js, ms, st, m) ==
    /\ ~Upgrading(st) => ms = "running"
    /\ \A w \in Versions :
          LET s == js[<<"maintenance-start", w>>]
              e == js[<<"maintenance-end", w>>]
          IN /\ st.phase = "None" \/ w > st.toVersion =>
                   s = "absent" /\ e = "absent"
             /\ ~(Upgrading(st) /\ w = st.toVersion) =>
                   s # "running" /\ e # "running"
             /\ Upgrading(st) /\ w = st.toVersion =>
                   JobsAtPhase(s, e, ms, st.phase, m)

\* The invariant: that holds of the stored status and of the one in flight,
\* which is at most one phase ahead and has the same maintenance setting.
BracketInv ==
    /\ Bracket(jobs, mirrors, cluster.status, cluster.spec.maintenance)
    /\ pc # "idle" =>
          /\ Bracket(jobs, mirrors, snap.status, snap.spec.maintenance)
          /\ Upgrading(snap.status) =>
                snap.spec.maintenance = cluster.spec.maintenance
          /\ pc = "upgrade" /\ snap.status.phase # "Waiting" =>
                /\ snap.status.phase = cluster.status.phase
                /\ snap.status.toVersion = cluster.status.toVersion

\* The maintenance jobs and the mirrors are left alone.
MaintenanceUntouched ==
    /\ \A w \in Versions : \A k \in {"maintenance-start", "maintenance-end"} :
          jobs'[<<k, w>>] = jobs[<<k, w>>]
    /\ UNCHANGED mirrors

\* The phase handler creates or deletes its job, and stays in its phase.
HandlesMaintenanceJob(p) ==
    /\ AtPhase(p)
    /\ LET j == MaintenanceJob(p)
       IN \/ jobs[j] = "absent" /\ jobs' = [jobs EXCEPT ![j] = "running"]
          \/ jobCache[j] = "failed" /\ jobs' = [jobs EXCEPT ![j] = "absent"]
    /\ UNCHANGED <<mirrors, cluster>>
    /\ pc' = "park" /\ snap'.spec = snap.spec
    /\ snap'.status.phase = snap.status.phase
    /\ snap'.status.toVersion = snap.status.toVersion

LEMMA HandlesJob ==
    ASSUME TypeOK, NEW p \in {"StartMaintenance", "EndMaintenance"},
           \/ CreateMaintenanceJob(p) /\ jobs' # jobs
           \/ RetryMaintenanceJob(p)
    PROVE  HandlesMaintenanceJob(p)
<1>1. ASSUME NEW st, Park(st), st.phase = snap.status.phase,
             st.toVersion = snap.status.toVersion
      PROVE  /\ pc' = "park" /\ snap'.spec = snap.spec
             /\ snap'.status.phase = snap.status.phase
             /\ snap'.status.toVersion = snap.status.toVersion
  <2>1. /\ snap'.spec = snap.spec /\ snap'.status = st /\ pc' = "park"
      BY <1>1, SnapStatusReplaced DEF Park
  <2> QED
      BY <1>1, <2>1
<1>2. CASE CreateMaintenanceJob(p) /\ jobs' # jobs
  <2> DEFINE st(x) == [UpgradeStatus EXCEPT !.maintenanceMode = x]
  <2>1. \A x : /\ st(x).phase = snap.status.phase
               /\ st(x).toVersion = snap.status.toVersion
      BY UpgradeStatusFields DEF ClusterStatus
  <2>2. \E x : Park(st(x))
      BY <1>2 DEF CreateMaintenanceJob
  <2> HIDE DEF st
  <2>3. /\ pc' = "park" /\ snap'.spec = snap.spec
        /\ snap'.status.phase = snap.status.phase
        /\ snap'.status.toVersion = snap.status.toVersion
      BY <1>1, <2>1, <2>2
  <2> QED
      BY <1>2, <2>3
      DEF CreateMaintenanceJob, HandlesMaintenanceJob, clusterVars, worldVars
<1>3. CASE RetryMaintenanceJob(p)
  <2> DEFINE st == [UpgradeStatus EXCEPT !.degraded = "True"]
  <2>1. st.phase = snap.status.phase /\ st.toVersion = snap.status.toVersion
      BY UpgradeStatusFields DEF ClusterStatus
  <2>2. Park(st)
      BY <1>3 DEF RetryMaintenanceJob
  <2> HIDE DEF st
  <2>3. /\ pc' = "park" /\ snap'.spec = snap.spec
        /\ snap'.status.phase = snap.status.phase
        /\ snap'.status.toVersion = snap.status.toVersion
      BY <1>1, <2>1, <2>2
  <2> QED
      BY <1>3, <2>3
      DEF RetryMaintenanceJob, HandlesMaintenanceJob, clusterVars, worldVars
<1> QED
    BY <1>2, <1>3

\* What any step does to the maintenance jobs and the mirrors.
LEMMA MaintenanceMoves ==
    ASSUME TypeOK, [Next]_vars
    PROVE  \/ MaintenanceUntouched
           \/ \E j \in JobNames : JobCompletes(j) \/ JobFails(j)
           \/ \E p \in {"StartMaintenance", "EndMaintenance"} :
                 HandlesMaintenanceJob(p)
<1>1. ASSUME UNCHANGED <<jobs, mirrors>>
      PROVE  MaintenanceUntouched
    BY <1>1 DEF MaintenanceUntouched
<1>2. ASSUME NEW n \in 0..Len(InitJobs), ReconcileInitJobs(n),
             UNCHANGED mirrors
      PROVE  MaintenanceUntouched
  <2> SUFFICES ASSUME NEW w \in Versions,
                      NEW k \in {"maintenance-start", "maintenance-end"}
               PROVE  jobs'[<<k, w>>] = jobs[<<k, w>>]
      BY <1>2 DEF MaintenanceUntouched
  <2>1. <<k, w>> \in JobNames
      BY DEF JobNames, JobKinds
  <2>2. \A i \in 1..n : InitJobs[i] \in InitJobKinds
      BY InitJobNames, ReconcilerAssumption
  <2>3. \A i \in 1..n : InitJobName(i) # <<k, w>>
      BY <2>2 DEF InitJobName, InitJobKinds
  <2> QED
      BY <1>2, <2>1, <2>3 DEF ReconcileInitJobs
<1>3. CASE UpgradePhaseInitJobs \/ ReconcileInitJobsAndStatus \/ InitJobsFail
  <2>1. Len(InitJobs) \in 0..Len(InitJobs)
           /\ 0..(Len(InitJobs) - 1) \subseteq 0..Len(InitJobs)
      BY InitJobNames
  <2> QED
      BY <1>1, <1>2, <1>3, <2>1
      DEF UpgradePhaseInitJobs, ReconcileInitJobsAndStatus, InitJobsFail,
          worldVars
<1>4. CASE UpgradePhaseMaintenanceJob
  <2>1. PICK p \in {"StartMaintenance", "EndMaintenance"} :
            CreateMaintenanceJob(p) \/ AwaitMaintenanceJob(p)
               \/ RetryMaintenanceJob(p)
      BY <1>4 DEF UpgradePhaseMaintenanceJob
  <2>2. UNCHANGED mirrors
      BY <2>1 DEF CreateMaintenanceJob, AwaitMaintenanceJob,
                  RetryMaintenanceJob, worldVars
  <2>3. CASE UNCHANGED jobs
      BY <1>1, <2>2, <2>3
  <2>4. CASE jobs' # jobs
      BY <2>1, <2>4, HandlesJob DEF AwaitMaintenanceJob, jobVars
  <2> QED
      BY <2>3, <2>4
<1>5. CASE \/ ReconcilePaused \/ ReconcileSecretMissing \/ StartReconcile
           \/ UpgradePhaseWaiting \/ UpgradePhaseBlocked
           \/ UpgradePhaseConfig \/ CheckInitJobs \/ UpgradePhaseComponent
           \/ CheckRollout \/ ReconcileComponentsAndStatus \/ SaveParked
           \/ SaveFinal \/ ComponentsFail \/ UpgradeComponentFails
    BY <1>1, <1>5
    DEF ReconcilePaused, ReconcileSecretMissing, StartReconcile,
        UpgradePhaseWaiting, UpgradePhaseBlocked, UpgradePhaseConfig,
        CheckInitJobs, UpgradePhaseComponent, CheckRollout,
        ReconcileComponentsAndStatus, SaveParked, SaveFinal, ComponentsFail,
        UpgradeComponentFails, jobVars, worldVars
<1>6. CASE PromptInformers \/ \E i \in Informers : LaggingInformer(i)
  <2>1. UNCHANGED <<jobs, mirrors>>
      BY <1>6 DEF PromptInformers, LaggingInformer, Deliver, worldVars
  <2> QED
      BY <1>1, <2>1
<1>7. CASE \/ Resync \/ Fault \/ Rollouts \/ Drift \/ PromptRollouts \/ User
           \/ UNCHANGED vars
  <2>1. UNCHANGED <<jobs, mirrors>>
      BY <1>7
      DEF Resync, Fault, Rollouts, RolloutStarts, RolloutEnds, Drift,
          PodFails, DeleteDeployment, DeploymentStatus, PromptRollouts, User,
          SetVersion, SetPolicy, SetMaintenance, SetPaused, SetBackup,
          SetSecret, EditCluster, vars, jobVars, worldVars
  <2> QED
      BY <1>1, <2>1
<1> QED
    BY <1>3, <1>4, <1>5, <1>6, <1>7 DEF Next, Reconcile, Jobs

\* A bracket depends on the phase and the version of the upgrade, and on the
\* maintenance setting while the upgrade is in progress.
LEMMA BracketKept ==
    ASSUME MaintenanceUntouched, NEW st, NEW new, NEW m, NEW n,
           new.phase = st.phase, new.toVersion = st.toVersion,
           Upgrading(st) => n = m, Bracket(jobs, mirrors, st, m)
    PROVE  Bracket(jobs', mirrors', new, n)
BY DEF MaintenanceUntouched, Bracket, Upgrading

\* A job that ends.
LEMMA BracketJobEnds ==
    ASSUME TypeOK, NEW j \in JobNames, JobCompletes(j) \/ JobFails(j),
           NEW st, NEW m, Bracket(jobs, mirrors, st, m)
    PROVE  Bracket(jobs', mirrors', st, m)
<1>0. PICK k \in JobKinds, v \in Versions : j = <<k, v>>
    BY DEF JobNames
<1>1. /\ jobs[j] = "running"
      /\ \/ /\ jobs' = [jobs EXCEPT ![j] = "complete"]
            /\ mirrors' = MirrorsAfter(j)
         \/ /\ jobs' = [jobs EXCEPT ![j] = "failed"]
            /\ mirrors' \in {mirrors, MirrorsAfter(j)}
    BY DEF JobCompletes, JobFails
<1>2. /\ jobs'[j] \in {"complete", "failed"}
      /\ jobs'[j] = "complete" => mirrors' = MirrorsAfter(j)
      /\ mirrors' \in {mirrors, MirrorsAfter(j)}
      /\ \A i \in JobNames : i # j => jobs'[i] = jobs[i]
    BY <1>1 DEF TypeOK
<1>3. \A w \in Versions : /\ <<"maintenance-start", w>> \in JobNames
                          /\ <<"maintenance-end", w>> \in JobNames
    BY DEF JobNames, JobKinds
<1>4. CASE k \notin {"maintenance-start", "maintenance-end"}
  <2>1. mirrors' = mirrors
      BY <1>0, <1>2, <1>4 DEF MirrorsAfter
  <2>2. \A w \in Versions :
           /\ jobs'[<<"maintenance-start", w>>] = jobs[<<"maintenance-start", w>>]
           /\ jobs'[<<"maintenance-end", w>>] = jobs[<<"maintenance-end", w>>]
      BY <1>0, <1>2, <1>3, <1>4
  <2>3. MaintenanceUntouched
      BY <2>1, <2>2 DEF MaintenanceUntouched
  <2> QED
      BY <2>3, BracketKept
<1>5. CASE k \in {"maintenance-start", "maintenance-end"}
  <2> DEFINE s == jobs[<<"maintenance-start", v>>]
             e == jobs[<<"maintenance-end", v>>]
             s2 == jobs'[<<"maintenance-start", v>>]
             e2 == jobs'[<<"maintenance-end", v>>]
  <2>1. /\ Upgrading(st) /\ v = st.toVersion
        /\ JobsAtPhase(s, e, mirrors, st.phase, m)
      BY <1>0, <1>1, <1>5 DEF Bracket
  <2>2. \A w \in Versions \ {v} :
           /\ jobs'[<<"maintenance-start", w>>] = jobs[<<"maintenance-start", w>>]
           /\ jobs'[<<"maintenance-end", w>>] = jobs[<<"maintenance-end", w>>]
      BY <1>0, <1>2, <1>3
  <2>3. ~(v > st.toVersion) /\ st.phase # "None"
      BY <2>1, VersionsAreNumbers DEF Upgrading
  <2>4. JobsAtPhase(s2, e2, mirrors', st.phase, m)
    <3>1. CASE k = "maintenance-start"
      <4>1. /\ s = "running" /\ s2 \in {"complete", "failed"} /\ e2 = e
            /\ s2 = "complete" => mirrors' = "paused"
          BY <1>0, <1>1, <1>2, <1>3, <3>1 DEF MirrorsAfter
      <4> HIDE DEF s, e, s2, e2
      <4> QED
          BY <2>1, <4>1 DEF JobsAtPhase
    <3>2. CASE k = "maintenance-end"
      <4>1. /\ e = "running" /\ e2 \in {"complete", "failed"} /\ s2 = s
            /\ e2 = "complete" => mirrors' = "running"
          BY <1>0, <1>1, <1>2, <1>3, <3>2 DEF MirrorsAfter
      <4> HIDE DEF s, e, s2, e2
      <4> QED
          BY <2>1, <4>1 DEF JobsAtPhase
    <3> QED
        BY <1>5, <3>1, <3>2
  <2> QED
      BY <2>1, <2>2, <2>3, <2>4 DEF Bracket
<1> QED
    BY <1>4, <1>5

\* A job that a phase handler creates or deletes.
LEMMA BracketJobHandled ==
    ASSUME TypeOK, FailedJobsAreGoneOrFailed,
           NEW p \in {"StartMaintenance", "EndMaintenance"},
           HandlesMaintenanceJob(p), NEW st, NEW new, NEW m,
           st.phase = p, st.toVersion = snap.spec.version,
           new.phase = p, new.toVersion = st.toVersion,
           Bracket(jobs, mirrors, st, m)
    PROVE  Bracket(jobs', mirrors', new, m)
<1> DEFINE v == snap.spec.version
           s == jobs[<<"maintenance-start", v>>]
           e == jobs[<<"maintenance-end", v>>]
           s2 == jobs'[<<"maintenance-start", v>>]
           e2 == jobs'[<<"maintenance-end", v>>]
<1>0. v \in Versions /\ mirrors' = mirrors /\ Upgrading(st) /\ Upgrading(new)
    BY VersionsAreNumbers DEF TypeOK, HandlesMaintenanceJob, Upgrading
<1>1. \A w \in Versions : /\ <<"maintenance-start", w>> \in JobNames
                          /\ <<"maintenance-end", w>> \in JobNames
    BY DEF JobNames, JobKinds
<1>2. /\ \/ jobs[MaintenanceJob(p)] = "absent"
            /\ jobs'[MaintenanceJob(p)] = "running"
         \/ jobs[MaintenanceJob(p)] \in {"absent", "failed"}
            /\ jobs'[MaintenanceJob(p)] = "absent"
      /\ \A i \in JobNames : i # MaintenanceJob(p) => jobs'[i] = jobs[i]
  <2>1. MaintenanceJob(p) \in JobNames
      BY <1>0, <1>1 DEF MaintenanceJob
  <2> QED
      BY <2>1 DEF HandlesMaintenanceJob, TypeOK, FailedJobsAreGoneOrFailed
<1>3. JobsAtPhase(s, e, mirrors, p, m)
    BY <1>0 DEF Bracket
<1>4. \A w \in Versions \ {v} :
         /\ jobs'[<<"maintenance-start", w>>] = jobs[<<"maintenance-start", w>>]
         /\ jobs'[<<"maintenance-end", w>>] = jobs[<<"maintenance-end", w>>]
    BY <1>1, <1>2 DEF MaintenanceJob
<1>5. JobsAtPhase(s2, e2, mirrors, p, m)
  <2>1. CASE p = "StartMaintenance"
    <3>1. s \in {"absent", "failed"} /\ s2 \in {"absent", "running"} /\ e2 = e
        BY <1>0, <1>1, <1>2, <2>1 DEF MaintenanceJob
    <3> HIDE DEF s, e, s2, e2
    <3> QED
        BY <1>3, <2>1, <3>1 DEF JobsAtPhase, Components
  <2>2. CASE p = "EndMaintenance"
    <3>1. e2 \in {"absent", "running"} /\ s2 = s
        BY <1>0, <1>1, <1>2, <2>2 DEF MaintenanceJob
    <3> HIDE DEF s, e, s2, e2
    <3> QED
        BY <1>3, <2>2, <3>1 DEF JobsAtPhase, Components
  <2> QED
      BY <2>1, <2>2
<1>6. ~(v > v) /\ p # "None"
    BY <1>0, VersionsAreNumbers
<1> QED
    BY <1>0, <1>4, <1>5, <1>6 DEF Bracket, Upgrading

\* A step of the reconcile in flight that changes no maintenance job.
LEMMA BracketHandled ==
    ASSUME TypeOK, CompleteIsComplete, AlignInv, Handles,
           MaintenanceUntouched, NEW m,
           m = snap.spec.maintenance, m \in BOOLEAN,
           Bracket(jobs, mirrors, snap.status, m)
    PROVE  Bracket(jobs', mirrors', snap'.status, m)
<1> DEFINE old == snap.status
           new == snap'.status
<1>0. Bracket(jobs', mirrors', old, m)
    BY BracketKept
<1>1. /\ pc # "idle" /\ new.toVersion = old.toVersion
      /\ PhaseMoves(old.phase, new.phase)
    BY DEF Handles, StageMoves
<1>2. CASE new.phase = old.phase
    BY <1>0, <1>1, <1>2 DEF Bracket, Upgrading
<1>3. CASE new.phase # old.phase
  <2> DEFINE v == snap.spec.version
             s == jobs'[<<"maintenance-start", v>>]
             e == jobs'[<<"maintenance-end", v>>]
  <2>1. Upgrading(old)
      BY <1>1, <1>3 DEF PhaseMoves, Upgrading
  <2>2. old.toVersion = v /\ v \in Versions
      BY <1>1, <2>1, VersionsAreNumbers DEF AlignInv, TypeOK
  <2>3. JobsAtPhase(s, e, mirrors', old.phase, m)
      BY <1>0, <2>1, <2>2 DEF Bracket
  <2>4. /\ jobCache[MaintenanceJob("StartMaintenance")] = "complete" =>
              s = "complete"
        /\ jobCache[MaintenanceJob("EndMaintenance")] = "complete" =>
              e = "complete"
    <3>1. /\ <<"maintenance-start", v>> \in JobNames
          /\ <<"maintenance-end", v>> \in JobNames
        BY <2>2 DEF JobNames, JobKinds
    <3> QED
        BY <2>2, <3>1
        DEF CompleteIsComplete, MaintenanceJob, MaintenanceUntouched
  <2>5. /\ new.phase # "None"
        /\ Upgrading(new) => JobsAtPhase(s, e, mirrors', new.phase, m)
        /\ ~Upgrading(new) =>
              mirrors' = "running" /\ s # "running" /\ e # "running"
    <3> HIDE DEF s, e, old, new
    <3> QED
        BY <1>1, <1>3, <2>3, <2>4
        DEF PhaseMoves, JobsAtPhase, Upgrading, Components
  <2> QED
      BY <1>0, <1>1, <2>1, <2>2, <2>5 DEF Bracket, Upgrading
<1> QED
    BY <1>2, <1>3

\* A reconcile that begins.
LEMMA BracketStarted ==
    ASSUME TypeOK, StartReconcile, clusterCache = cluster, RanInv,
           Bracket(jobs, mirrors, cluster.status, cluster.spec.maintenance)
    PROVE  Bracket(jobs, mirrors, snap'.status, snap'.spec.maintenance)
<1> DEFINE old == cluster.status
           new == snap'.status
           v == cluster.spec.version
<1>0. /\ v \in Versions /\ v \in Nat /\ old.toVersion \in Nat
      /\ \A w \in Versions : w \in Nat
    BY VersionsAreNumbers DEF TypeOK
<1>1. snap'.spec = cluster.spec
    BY Starts
<1>2. CASE old.phase = "None" /\ new.phase = "Complete"
    BY <1>2 DEF Bracket, Upgrading
<1>3. CASE /\ old.phase = "Complete" /\ old.toVersion # v
           /\ new.phase = "Waiting" /\ new.toVersion = v
  <2>1. old.toVersion <= v
      BY <1>3 DEF RanInv, RanStatus
  <2>2. \A w \in Versions : w >= v => w > old.toVersion
    <3> HIDE DEF v, old
    <3> QED
        BY <1>0, <1>3, <2>1
  <2>3. \A w \in Versions : w >= v =>
            /\ jobs[<<"maintenance-start", w>>] = "absent"
            /\ jobs[<<"maintenance-end", w>>] = "absent"
      BY <2>2 DEF Bracket
  <2>4. \A w \in Versions : w > v \/ w = v => w >= v
      BY <1>0
  <2> QED
      BY <1>0, <1>3, <2>3, <2>4
      DEF Bracket, JobsAtPhase, Upgrading, Components
<1>4. CASE new.phase = old.phase /\ new.toVersion = old.toVersion
    BY <1>1, <1>4 DEF Bracket, Upgrading
<1> QED
    BY <1>2, <1>3, <1>4, StartsUpgrade

\* The stored cluster after a step that changes no maintenance job.
LEMMA BracketCluster ==
    ASSUME ~EditsMidUpgrade, TypeOK, ClusterCacheCurrent, BracketInv,
           [Next]_vars, MaintenanceUntouched
    PROVE  Bracket(jobs', mirrors', cluster'.status, cluster'.spec.maintenance)
<1>1. CASE UNCHANGED cluster
    BY <1>1, BracketKept DEF BracketInv
<1>2. CASE SavesStatus
    BY <1>2, BracketKept DEF SavesStatus, BracketInv
<1>3. CASE ReportsStatus
    BY <1>3, BracketKept DEF ReportsStatus, BracketInv, ClusterCacheCurrent
<1>4. CASE EditsCluster
  <2>1. Upgrading(cluster.status) =>
            cluster'.spec.maintenance = cluster.spec.maintenance
      BY <1>4 DEF EditsCluster, SetMaintenance, UpgradeSettled, Upgrading
  <2> QED
      BY <1>4, <2>1, BracketKept DEF EditsCluster, BracketInv
<1> QED
    BY <1>1, <1>2, <1>3, <1>4, ClusterMoves

\* The reconcile in flight after such a step.
LEMMA BracketSnapshot ==
    ASSUME "cluster" \notin Lagging, ~EditsMidUpgrade, TypeOK,
           ClusterCacheCurrent, CompleteIsComplete, AlignInv, RanInv,
           BracketInv, [Next]_vars, MaintenanceUntouched, pc' # "idle"
    PROVE  /\ Bracket(jobs', mirrors', snap'.status, snap'.spec.maintenance)
           /\ Upgrading(snap'.status) =>
                 snap'.spec.maintenance = cluster'.spec.maintenance
           /\ pc' = "upgrade" /\ snap'.status.phase # "Waiting" =>
                 /\ snap'.status.phase = cluster'.status.phase
                 /\ snap'.status.toVersion = cluster'.status.toVersion
<1>1. CASE UNCHANGED <<pc, snap>>
  <2>1. Bracket(jobs', mirrors', snap'.status, snap'.spec.maintenance)
      BY <1>1, BracketKept DEF BracketInv
  <2>2. /\ pc # "idle" => cluster'.status = cluster.status
        /\ \/ cluster'.spec.maintenance = cluster.spec.maintenance
           \/ UpgradeSettled
      BY <1>1, ClusterMoves
      DEF SavesStatus, ReportsStatus, EditsCluster, SetMaintenance
  <2> QED
      BY <1>1, <2>1, <2>2 DEF BracketInv, AlignInv, Upgrading
<1>2. CASE Prompt /\ StartReconcile
  <2>1. clusterCache = cluster /\ UNCHANGED <<cluster, jobs, mirrors>>
      BY <1>2, PromptCluster
      DEF StartReconcile, clusterVars, jobVars, worldVars
  <2>2. Bracket(jobs, mirrors, snap'.status, snap'.spec.maintenance)
      BY <1>2, <2>1, BracketStarted DEF BracketInv
  <2>3. snap'.spec = cluster.spec
      BY <1>2, <2>1, Starts
  <2>4. pc' = "upgrade" /\ snap'.status.phase # "Waiting" =>
            /\ snap'.status.phase = cluster.status.phase
            /\ snap'.status.toVersion = cluster.status.toVersion
      BY <1>2, <2>1, StartsUpgrade DEF Upgrading
  <2> QED
      BY <2>1, <2>2, <2>3, <2>4
<1>3. CASE Handles
  <2>1. /\ pc # "idle" /\ pc' # "upgrade" /\ snap'.spec = snap.spec
        /\ PhaseMoves(snap.status.phase, snap'.status.phase)
      BY <1>3 DEF Handles, StageMoves
  <2>2. snap.spec.maintenance \in BOOLEAN
      BY DEF TypeOK, ClusterObject, ClusterSpec
  <2>3. Bracket(jobs', mirrors', snap'.status, snap'.spec.maintenance)
      BY <1>3, <2>1, <2>2, BracketHandled DEF BracketInv
  <2>4. Upgrading(snap'.status) => Upgrading(snap.status)
      BY <2>1 DEF PhaseMoves, Upgrading
  <2>5. \/ cluster'.spec.maintenance = cluster.spec.maintenance
        \/ UpgradeSettled
      BY ClusterMoves
      DEF SavesStatus, ReportsStatus, EditsCluster, SetMaintenance
  <2> QED
      BY <2>1, <2>3, <2>4, <2>5 DEF BracketInv, AlignInv, Upgrading
<1> QED
    BY <1>1, <1>2, <1>3, SnapMoves

LEMMA BracketStep ==
    ASSUME "cluster" \notin Lagging, ~EditsMidUpgrade, TypeOK,
           ClusterCacheCurrent, CompleteIsComplete,
           FailedJobsAreGoneOrFailed, AlignInv, RanInv, BracketInv,
           [Next]_vars
    PROVE  BracketInv'
<1>1. CASE MaintenanceUntouched
    BY <1>1, BracketCluster, BracketSnapshot DEF BracketInv, Upgrading
<1>2. ASSUME NEW j \in JobNames, JobCompletes(j) \/ JobFails(j)
      PROVE  BracketInv'
  <2>1. UNCHANGED <<cluster, pc, snap>>
      BY <1>2 DEF JobCompletes, JobFails, clusterVars
  <2>2. Bracket(jobs', mirrors', cluster.status, cluster.spec.maintenance)
      BY <1>2, BracketJobEnds DEF BracketInv
  <2>3. pc # "idle" =>
            Bracket(jobs', mirrors', snap.status, snap.spec.maintenance)
      BY <1>2, BracketJobEnds DEF BracketInv
  <2> QED
      BY <2>1, <2>2, <2>3 DEF BracketInv, Upgrading
<1>3. ASSUME NEW p \in {"StartMaintenance", "EndMaintenance"},
             HandlesMaintenanceJob(p)
      PROVE  BracketInv'
  <2>1. /\ pc = "upgrade" /\ snap.status.phase = p /\ pc' = "park"
        /\ UNCHANGED cluster /\ snap'.spec = snap.spec
        /\ snap'.status.phase = p
        /\ snap'.status.toVersion = snap.status.toVersion
      BY <1>3 DEF HandlesMaintenanceJob, AtPhase
  <2>2. /\ snap.status.toVersion = snap.spec.version
        /\ cluster.status.phase = p
        /\ cluster.status.toVersion = snap.spec.version
        /\ snap.spec.maintenance = cluster.spec.maintenance
      BY <2>1 DEF AlignInv, BracketInv, Upgrading
  <2>3. Bracket(jobs', mirrors', cluster.status, cluster.spec.maintenance)
      BY <1>3, <2>2, BracketJobHandled DEF BracketInv
  <2>4. Bracket(jobs', mirrors', snap'.status, snap.spec.maintenance)
      BY <1>3, <2>1, <2>2, BracketJobHandled DEF BracketInv
  <2> QED
      BY <2>1, <2>2, <2>3, <2>4 DEF BracketInv
<1> QED
    BY <1>1, <1>2, <1>3, MaintenanceMoves

\* With maintenance configured the mirrors are paused from Config to UI, and
\* they run whenever the upgrade is Complete, however often the maintenance
\* jobs fail, with or without effect, and requests do; provided that reconciles
\* begin with the cluster as it is, that version and maintenance are left
\* alone while an upgrade is under way, and that no version comes back: the
\* jobs of one that does have already run.
THEOREM MaintenanceIsBracketed ==
    "cluster" \notin Lagging /\ ~EditsMidUpgrade /\ ~Rollbacks =>
        (Spec => []MaintenanceBracketsUpgrade)
<1>1. ASSUME "cluster" \notin Lagging, ~EditsMidUpgrade, ~Rollbacks
      PROVE  Spec => []MaintenanceBracketsUpgrade
  <2>1. Init => BracketInv
    <3>1. \A w \in Versions : /\ <<"maintenance-start", w>> \in JobNames
                              /\ <<"maintenance-end", w>> \in JobNames
        BY DEF JobNames, JobKinds
    <3> QED
        BY <3>1 DEF Init, BracketInv, Bracket, NewCluster, EmptyStatus,
                    Upgrading
  <2>2. /\ TypeOK /\ ClusterCacheCurrent /\ CompleteIsComplete
        /\ FailedJobsAreGoneOrFailed /\ AlignInv /\ RanInv /\ BracketInv
        /\ [Next]_vars
        => BracketInv'
      BY <1>1, BracketStep
  <2>3. TypeOK /\ AlignInv /\ BracketInv => MaintenanceBracketsUpgrade
    <3> SUFFICES ASSUME TypeOK, AlignInv, BracketInv
                 PROVE  MaintenanceBracketsUpgrade
        OBVIOUS
    <3>1. CASE Upgrading(cluster.status)
      <4>1. cluster.status.toVersion \in Versions
          BY <3>1, VersionsAreNumbers DEF TypeOK, AlignInv
      <4> QED
          BY <3>1, <4>1
          DEF BracketInv, Bracket, JobsAtPhase, MaintenanceBracketsUpgrade,
              Upgrading, Components
    <3>2. CASE ~Upgrading(cluster.status)
        BY <3>2 DEF BracketInv, Bracket, MaintenanceBracketsUpgrade,
                    Upgrading, Components
    <3> QED
        BY <3>1, <3>2
  <2>4. Spec => []AlignInv
      BY <1>1, AlignAlways
  <2>5. Spec => []RanInv
      BY <1>1, RanAlways
  <2> QED
      BY <2>1, <2>2, <2>3, <2>4, <2>5, TypeCorrect, CurrentAlways,
         CompleteAlways, FailedJobsInvariant, PTL DEF Spec
<1> QED
    BY <1>1

=============================================================================
