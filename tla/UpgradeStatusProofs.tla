------------------------ MODULE UpgradeStatusProofs ------------------------
(***************************************************************************)
(* What the published status says of an upgrade, for every value of the     *)
(* constants.  A reconcile computes a status in steps and puts it back      *)
(* whole, possibly over one that another reconcile wrote in the meantime,   *)
(* so the invariant is about every copy of the status: the API server's,    *)
(* the informer's and the one in flight, at each stage of the reconcile.    *)
(***************************************************************************)
EXTENDS ClusterReconcilerProofs

\* UpgradeInProgress agrees with the phase.
Tracks(st) == st.upgradeInProgress = "True" <=> Upgrading(st)

\* The status in flight: once the upgrade handler has run, UpgradeInProgress
\* agrees with the phase.
SnapshotTracks ==
    /\ pc # "idle" => snap.status.phase # "None"
    /\ pc = "upgrade" => Upgrading(snap.status)
    /\ pc = "check" => snap.status.phase \in {"InitJobs"} \cup Components
    /\ pc \in {"check", "init", "components", "park", "finish"} =>
          Tracks(snap.status)

StatusInv ==
    /\ Tracks(cluster.status) /\ Tracks(clusterCache.status)
    /\ SnapshotTracks

-----------------------------------------------------------------------------

\* The empty status satisfies the invariant.
LEMMA StatusInvInit == Init => StatusInv
BY DEF Init, StatusInv, SnapshotTracks, Tracks, Upgrading,
       NewCluster, EmptyStatus

\* A status put on the cluster object keeps the invariant.
LEMMA StatusWritten ==
    ASSUME TypeOK, StatusInv, NEW st \in ClusterStatus, WriteStatus(st),
           Tracks(st), UNCHANGED clusterCache
    PROVE  /\ Tracks(cluster.status)' /\ Tracks(clusterCache.status)'
<1>1. cluster'.status = st
    BY DEF WriteStatus, TypeOK, ClusterObject
<1> QED
    BY <1>1 DEF StatusInv, Tracks, Upgrading

\* A step that changes neither the cluster's status nor its copies, or ends
\* the reconcile in flight.
LEMMA StatusLeftAlone ==
    ASSUME StatusInv,
           cluster'.status = cluster.status,
           clusterCache'.status \in {cluster.status, clusterCache.status},
           UNCHANGED <<pc, snap>> \/ pc' = "idle"
    PROVE  StatusInv'
BY DEF StatusInv, SnapshotTracks, Tracks, Upgrading

\* The steps up to the upgrade switch keep the invariant.
LEMMA StartStatus ==
    ASSUME TypeOK, StatusInv,
           ReconcilePaused \/ ReconcileSecretMissing \/ StartReconcile
    PROVE  StatusInv'
<1>0. clusterCache.status \in ClusterStatus /\ clusterCache \in ClusterObject
    BY DEF TypeOK, ClusterObject
<1>1. CASE ReconcilePaused
  <2> DEFINE st == PausedStatus(clusterCache.status)
  <2>1. st \in ClusterStatus
      BY <1>0, StatusUpdates DEF PausedStatus, ConditionStatus
  <2>2. Tracks(st)
      BY <1>0 DEF PausedStatus, ClusterStatus, StatusInv, Tracks,
                  Upgrading
  <2>3. UNCHANGED <<clusterCache, pc, snap>>
      BY <1>1 DEF ReconcilePaused
  <2> HIDE DEF st
  <2>4. CASE WriteStatus(st)
      BY <2>1, <2>2, <2>3, <2>4, StatusWritten DEF StatusInv, SnapshotTracks
  <2>5. CASE UNCHANGED cluster
      BY <2>3, <2>5, StatusLeftAlone
  <2> QED
      BY <1>1, <2>4, <2>5 DEF ReconcilePaused, st
<1>2. CASE ReconcileSecretMissing
  <2> DEFINE st == SecretMissing(clusterCache.status)
  <2>1. st \in ClusterStatus
      BY <1>0, StatusUpdates DEF SecretMissing, ConditionStatus
  <2>2. Tracks(st)
      BY <1>0 DEF SecretMissing, ClusterStatus, StatusInv, Tracks, Upgrading
  <2>3. UNCHANGED <<clusterCache, pc, snap>>
      BY <1>2 DEF ReconcileSecretMissing
  <2> HIDE DEF st
  <2>4. CASE WriteStatus(st)
      BY <2>1, <2>2, <2>3, <2>4, StatusWritten DEF StatusInv, SnapshotTracks
  <2>5. CASE UNCHANGED cluster
      BY <2>3, <2>5, StatusLeftAlone
  <2> QED
      BY <1>2, <2>4, <2>5 DEF ReconcileSecretMissing, st
<1>3. CASE StartReconcile
  <2> DEFINE v == clusterCache.spec.version
             st == [clusterCache.status EXCEPT !.reconciling = "True",
                                               !.catalogReady = "True"]
             r == RecordUpgrade(st, v)
             d == DetectUpgrade(r, v, clusterCache.backup)
  <2>1. st \in ClusterStatus /\ Tracks(st)
      BY <1>0 DEF ClusterStatus, ConditionStatus, StatusInv, Tracks, Upgrading
  <2> HIDE DEF st
  <2>2. /\ r.phase # "None" /\ Tracks(r)
        /\ r \in ClusterStatus
    <3>1. v \in Versions
        BY <1>0 DEF ClusterObject, ClusterSpec
    <3> QED
        BY <2>1, <3>1
        DEF RecordUpgrade, ClusterStatus, UpgradePhases, Tracks, Upgrading
  <2> HIDE DEF r
  <2>3. /\ d.phase # "None"
        /\ Upgrading(d) \/ Tracks(d)
        /\ clusterCache.backup => d = r
      BY <2>2 DEF DetectUpgrade, ClusterStatus, Tracks, Upgrading
  <2>4. snap'.status = d
      BY <1>0, <1>3 DEF StartReconcile, ClusterObject, st, r
  <2> HIDE DEF d
  <2>5. pc' = IF ~clusterCache.backup /\ Upgrading(d) THEN "upgrade" ELSE "init"
      BY <1>3 DEF StartReconcile, st, r, d
  <2>6. UNCHANGED <<cluster, clusterCache>>
      BY <1>3 DEF StartReconcile, clusterVars
  <2> QED
      BY <2>2, <2>3, <2>4, <2>5, <2>6
      DEF StatusInv, SnapshotTracks, Tracks, Upgrading
<1> QED
    BY <1>1, <1>2, <1>3

\* A phase handler that parks or continues with a status that agrees.
LEMMA HandlerStatus ==
    ASSUME TypeOK, StatusInv, NEW st \in ClusterStatus,
           Tracks(st), st.phase # "None",
           Park(st) \/ Continue(st),
           UNCHANGED <<cluster, clusterCache>>
    PROVE  StatusInv'
<1>1. snap'.status = st
    BY DEF Park, Continue, TypeOK, ClusterObject
<1>2. pc' = "init" \/ pc' = "park"
    BY DEF Park, Continue
<1> QED
    BY <1>1, <1>2 DEF StatusInv, SnapshotTracks, Tracks, Upgrading

\* The status every phase handler starts from.
LEMMA HandlerStarts ==
    ASSUME TypeOK, StatusInv, pc = "upgrade"
    PROVE  /\ UpgradeStatus \in ClusterStatus
           /\ UpgradeStatus.phase = snap.status.phase
           /\ UpgradeStatus.phase # "None"
           /\ Tracks(UpgradeStatus)
<1>1. UpgradeStatus \in ClusterStatus /\ snap.status \in ClusterStatus
    BY SnapTypes
<1> QED
    BY <1>1 DEF UpgradeStatus, ClusterStatus, StatusInv, SnapshotTracks,
                Tracks, Upgrading

\* The phases that only change the status keep the invariant.
LEMMA PhaseStatus ==
    ASSUME TypeOK, StatusInv,
           UpgradePhaseWaiting \/ UpgradePhaseBlocked \/ UpgradePhaseConfig
    PROVE  StatusInv'
<1>0. /\ pc = "upgrade"
      /\ UNCHANGED <<cluster, clusterCache>>
    BY DEF UpgradePhaseWaiting, UpgradePhaseBlocked, UpgradePhaseConfig,
           AtPhase, clusterVars
<1> DEFINE Moved(p) == [UpgradeStatus EXCEPT !.phase = p]
           Unblocked == [UpgradeStatus EXCEPT !.phase = "Waiting",
                                              !.degraded = "False"]
<1>1. \A p \in UpgradePhases \ {"None", "Complete"} :
         Moved(p) \in ClusterStatus /\ Tracks(Moved(p))
            /\ Moved(p).phase # "None"
    BY <1>0, HandlerStarts
    DEF ClusterStatus, Tracks, Upgrading, StatusInv, SnapshotTracks
<1>2. Unblocked \in ClusterStatus /\ Tracks(Unblocked)
         /\ Unblocked.phase # "None"
    BY <1>0, HandlerStarts
    DEF ClusterStatus, Tracks, Upgrading, StatusInv, SnapshotTracks,
        UpgradePhases, ConditionStatus
<1>3. CASE Park(UpgradeStatus)
    BY <1>0, <1>3, HandlerStarts, HandlerStatus
<1>4. ASSUME NEW p \in UpgradePhases \ {"None", "Complete"},
             Continue(Moved(p))
      PROVE  StatusInv'
    BY <1>0, <1>1, <1>4, HandlerStatus
<1>5. CASE Continue(Unblocked)
    BY <1>0, <1>2, <1>5, HandlerStatus
<1> QED
    BY <1>3, <1>4, <1>5
    DEF UpgradePhaseWaiting, UpgradePhaseBlocked, UpgradePhaseConfig,
        UpgradePhases

\* upgradePhaseMaintenanceJob keeps the invariant.
LEMMA MaintenanceStatus ==
    ASSUME TypeOK, StatusInv, UpgradePhaseMaintenanceJob
    PROVE  StatusInv'
<1>0. PICK p \in {"StartMaintenance", "EndMaintenance"} :
         CreateMaintenanceJob(p) \/ AwaitMaintenanceJob(p)
            \/ RetryMaintenanceJob(p)
    BY DEF UpgradePhaseMaintenanceJob
<1>1. /\ pc = "upgrade" /\ snap.status.phase = p
      /\ UNCHANGED <<cluster, clusterCache>>
    BY <1>0 DEF CreateMaintenanceJob, AwaitMaintenanceJob,
                RetryMaintenanceJob, AtPhase, clusterVars
<1>2. /\ UpgradeStatus \in ClusterStatus /\ Tracks(UpgradeStatus)
      /\ UpgradeStatus.phase = p
    BY <1>1, HandlerStarts
<1>3. CASE CreateMaintenanceJob(p)
  <2> DEFINE st(m) == [UpgradeStatus EXCEPT !.maintenanceMode = m]
  <2>1. \A m \in {"Starting", "Ending"} :
           /\ st(m) \in ClusterStatus /\ Tracks(st(m))
           /\ st(m).phase # "None"
      BY <1>2 DEF ClusterStatus, MaintenanceModeStatus, Tracks,
                  Upgrading
  <2>2. Park(st("Starting")) \/ Park(st("Ending")) \/ pc' = "idle"
      BY <1>3 DEF CreateMaintenanceJob, ReturnError, Return
  <2> HIDE DEF st
  <2>3. ASSUME NEW m \in {"Starting", "Ending"}, Park(st(m))
        PROVE  StatusInv'
      BY <1>1, <2>1, <2>3, HandlerStatus
  <2> QED
      BY <1>1, <2>2, <2>3, StatusLeftAlone
<1>4. CASE AwaitMaintenanceJob(p)
  <2>1. AfterMaintenance(p) \in ClusterStatus /\ Tracks(AfterMaintenance(p))
           /\ AfterMaintenance(p).phase # "None"
    <3>1. AfterMaintenance(p) \in ClusterStatus
        BY <1>2, StatusUpdates
        DEF AfterMaintenance, UpgradePhases, MaintenanceModeStatus,
            ConditionStatus
    <3>2. CASE p = "StartMaintenance"
      <4>1. /\ AfterMaintenance(p).phase = "Config"
            /\ AfterMaintenance(p).upgradeInProgress = "True"
          BY <1>1, <1>2, <3>2, SnapTypes
          DEF AfterMaintenance, UpgradeStatus, ClusterStatus
      <4> QED
          BY <3>1, <4>1 DEF Tracks, Upgrading
    <3>3. CASE p = "EndMaintenance"
      <4>1. /\ AfterMaintenance(p).phase = "Complete"
            /\ AfterMaintenance(p).upgradeInProgress = "False"
          BY <1>2, <3>3 DEF AfterMaintenance, ClusterStatus
      <4> QED
          BY <3>1, <4>1 DEF Tracks, Upgrading
    <3> QED
        BY <3>2, <3>3
  <2>2. CASE Park(UpgradeStatus)
      BY <1>1, <1>2, <2>2, HandlerStatus
  <2>3. CASE Continue(AfterMaintenance(p))
      BY <1>1, <2>1, <2>3, HandlerStatus
  <2> QED
      BY <1>4, <2>2, <2>3 DEF AwaitMaintenanceJob
<1>5. CASE RetryMaintenanceJob(p)
  <2> DEFINE st == [UpgradeStatus EXCEPT !.degraded = "True"]
  <2>1. /\ st \in ClusterStatus /\ Tracks(st)
        /\ st.phase # "None"
      BY <1>2 DEF ClusterStatus, ConditionStatus, Tracks,
                  Upgrading
  <2>2. Park(st)
      BY <1>5 DEF RetryMaintenanceJob
  <2> HIDE DEF st
  <2> QED
      BY <1>1, <2>1, <2>2, HandlerStatus
<1> QED
    BY <1>0, <1>3, <1>4, <1>5

\* The two halves of the InitJobs phase.
LEMMA InitJobsPhaseStatus ==
    ASSUME TypeOK, StatusInv, UpgradePhaseInitJobs \/ CheckInitJobs
    PROVE  StatusInv'
<1>0. UNCHANGED <<cluster, clusterCache>>
    BY DEF UpgradePhaseInitJobs, CheckInitJobs, clusterVars
<1>1. CASE UpgradePhaseInitJobs
  <2>0. pc = "upgrade" /\ snap.status.phase = "InitJobs"
      BY <1>1 DEF UpgradePhaseInitJobs, AtPhase
  <2> DEFINE st == [UpgradeStatus EXCEPT !.phase = "FlowAPI",
                                         !.initialized = "True"]
  <2>1. /\ UpgradeStatus \in ClusterStatus /\ Tracks(UpgradeStatus)
        /\ UpgradeStatus.phase = "InitJobs"
      BY <2>0, HandlerStarts
  <2>2. CASE Continue(st)
    <3>1. st \in ClusterStatus /\ Tracks(st) /\ st.phase # "None"
        BY <2>1 DEF ClusterStatus, UpgradePhases, ConditionStatus, Tracks,
                    Upgrading
    <3> HIDE DEF st
    <3> QED
        BY <1>0, <2>2, <3>1, HandlerStatus
  <2>3. CASE snap' = [snap EXCEPT !.status = UpgradeStatus] /\ pc' = "check"
    <3>1. snap'.status = UpgradeStatus
        BY <2>3 DEF TypeOK, ClusterObject
    <3> QED
        BY <1>0, <2>1, <2>3, <3>1
        DEF StatusInv, SnapshotTracks, Tracks, Upgrading
  <2> QED
      BY <1>1, <2>2, <2>3 DEF UpgradePhaseInitJobs
<1>2. CASE CheckInitJobs
  <2> DEFINE st(p) == [snap.status EXCEPT !.phase = p,
                                          !.initialized = "False"]
  <2>1. \A p \in {"Blocked", "InitJobs"} :
           /\ st(p) \in ClusterStatus /\ Tracks(st(p))
           /\ st(p).phase # "None"
      BY <1>2, SnapTypes
      DEF CheckInitJobs, ClusterStatus, UpgradePhases, ConditionStatus,
          StatusInv, SnapshotTracks, Tracks, Upgrading
  <2>2. \E p \in {"Blocked", "InitJobs"} : Park(st(p))
      BY <1>2 DEF CheckInitJobs
  <2> HIDE DEF st
  <2> QED
      BY <1>0, <2>1, <2>2, HandlerStatus
<1> QED
    BY <1>1, <1>2

\* The two halves of the phases of the components.
LEMMA ComponentPhaseStatus ==
    ASSUME TypeOK, StatusInv, UpgradePhaseComponent \/ CheckRollout
    PROVE  StatusInv'
<1>0. UNCHANGED <<cluster, clusterCache>>
    BY DEF UpgradePhaseComponent, CheckRollout, clusterVars
<1>1. CASE UpgradePhaseComponent
  <2>1. /\ pc = "upgrade" /\ pc' = "check"
        /\ snap.status.phase \in Components
        /\ snap'.status = UpgradeStatus
      BY <1>1 DEF UpgradePhaseComponent, TypeOK, ClusterObject
  <2> QED
      BY <1>0, <2>1, HandlerStarts
      DEF StatusInv, SnapshotTracks, Tracks, Upgrading
<1>2. CASE CheckRollout
  <2> DEFINE st == AfterRollout(snap.status, snap.spec.maintenance)
  <2>0. /\ pc = "check" /\ snap.status.phase \in Components
        /\ snap.status \in ClusterStatus
        /\ Tracks(snap.status)
      BY <1>2, SnapTypes DEF CheckRollout, StatusInv, SnapshotTracks
  <2>1. st \in ClusterStatus /\ Tracks(st) /\ st.phase # "None"
      BY <2>0 DEF AfterRollout, Components, ClusterStatus, UpgradePhases,
                  ConditionStatus, Tracks, Upgrading
  <2> HIDE DEF st
  <2>2. pc' = "idle" \/ Park(snap.status) \/ Continue(st)
      BY <1>2 DEF CheckRollout, ReturnError, Return, st
  <2>3. snap.status.phase # "None"
      BY <2>0 DEF Components
  <2> QED
      BY <1>0, <2>0, <2>1, <2>2, <2>3, HandlerStatus, StatusLeftAlone
<1> QED
    BY <1>1, <1>2

\* Standard reconciliation and setFinalConditions.
LEMMA StandardStatus ==
    ASSUME TypeOK, StatusInv,
           ReconcileInitJobsAndStatus \/ ReconcileComponentsAndStatus
    PROVE  StatusInv'
<1>0. UNCHANGED <<cluster, clusterCache>>
    BY DEF ReconcileInitJobsAndStatus, ReconcileComponentsAndStatus,
           clusterVars
<1>1. CASE ReconcileInitJobsAndStatus
  <2>1. /\ pc = "init" /\ pc' = "components"
        /\ snap'.status.phase = snap.status.phase
        /\ snap'.status.upgradeInProgress = snap.status.upgradeInProgress
      BY <1>1 DEF ReconcileInitJobsAndStatus, TypeOK, ClusterObject,
                  ClusterStatus
  <2> QED
      BY <1>0, <2>1
      DEF StatusInv, SnapshotTracks, Tracks, Upgrading
<1>2. CASE ReconcileComponentsAndStatus
  <2> DEFINE st == FinalConditions(snap.status, snap.backup, ComponentsReady)
  <2>1. /\ st.phase = snap.status.phase
        /\ st.upgradeInProgress = snap.status.upgradeInProgress
      BY SnapTypes DEF FinalConditions, ClusterStatus
  <2> HIDE DEF st
  <2>2. /\ pc = "components" /\ pc' = "finish"
        /\ snap'.status = st
      BY <1>2 DEF ReconcileComponentsAndStatus, TypeOK, ClusterObject, st
  <2> QED
      BY <1>0, <2>1, <2>2
      DEF StatusInv, SnapshotTracks, Tracks, Upgrading
<1> QED
    BY <1>1, <1>2

\* updateStatus keeps the invariant.
LEMMA SaveStatus ==
    ASSUME TypeOK, StatusInv, SaveParked \/ SaveFinal
    PROVE  StatusInv'
<1>1. /\ pc \in {"park", "finish"} /\ pc' = "idle"
      /\ UNCHANGED clusterCache /\ UpdateStatus
    BY DEF SaveParked, SaveFinal, Return
<1>2. CASE UNCHANGED cluster
    BY <1>1, <1>2, StatusLeftAlone
<1>3. CASE WriteStatus(snap.status)
    BY <1>1, <1>3, SnapTypes, StatusWritten DEF StatusInv, SnapshotTracks
<1> QED
    BY <1>1, <1>2, <1>3 DEF UpdateStatus

\* Everybody else leaves the status to the controller.
LEMMA OthersStatus ==
    ASSUME TypeOK, StatusInv,
           \/ InitJobsFail \/ ComponentsFail \/ UpgradeComponentFails
           \/ Fault \/ Resync \/ Jobs \/ Rollouts \/ Drift \/ PromptRollouts
           \/ PromptInformers \/ \E i \in Informers : LaggingInformer(i)
           \/ User
    PROVE  StatusInv'
<1>1. CASE InitJobsFail \/ ComponentsFail \/ UpgradeComponentFails \/ Fault
    BY <1>1, StatusLeftAlone
    DEF InitJobsFail, ComponentsFail, UpgradeComponentFails, Fault,
        ReturnError, Return, clusterVars
<1>2. CASE Resync \/ Jobs \/ Rollouts \/ Drift \/ PromptRollouts
    BY <1>2, StatusLeftAlone
    DEF Resync, Jobs, JobCompletes, JobFails, Rollouts, RolloutStarts,
        RolloutEnds, Drift, PodFails, DeleteDeployment, DeploymentStatus,
        PromptRollouts, clusterVars
<1>3. CASE PromptInformers \/ \E i \in Informers : LaggingInformer(i)
    BY <1>3, StatusLeftAlone DEF PromptInformers, LaggingInformer, Deliver
<1>4. CASE User
  <2>1. /\ cluster'.status = cluster.status
        /\ UNCHANGED <<clusterCache, pc, snap>>
      BY <1>4 DEF User, SetVersion, SetPolicy, SetMaintenance, SetPaused,
                  SetBackup, SetSecret, EditCluster, clusterVars, TypeOK,
                  ClusterObject
  <2> QED
      BY <2>1, StatusLeftAlone
<1> QED
    BY <1>1, <1>2, <1>3, <1>4

\* Every step keeps the invariant.
LEMMA StatusInvStep == TypeOK /\ StatusInv /\ [Next]_vars => StatusInv'
<1> SUFFICES ASSUME TypeOK, StatusInv, [Next]_vars PROVE StatusInv'
    OBVIOUS
<1>1. CASE Reconcile
    BY <1>1, StartStatus, PhaseStatus, MaintenanceStatus, InitJobsPhaseStatus,
       ComponentPhaseStatus, StandardStatus, SaveStatus, OthersStatus
    DEF Reconcile
<1>2. CASE UNCHANGED vars
    BY <1>2, StatusLeftAlone DEF vars
<1> QED
    BY <1>1, <1>2, OthersStatus DEF Next

\* Every copy of the status agrees with itself, whichever reconciles overwrote
\* each other's work.
THEOREM StatusInvariant == Spec => []StatusInv
BY StatusInvInit, StatusInvStep, TypeCorrect, PTL DEF Spec

\* The UpgradeInProgress condition follows the phase that reconcileUpgrade
\* keeps in status.upgrade.
THEOREM UpgradeConditionIsRight == Spec => []UpgradeConditionTracksPhase
<1>1. StatusInv => UpgradeConditionTracksPhase
    BY DEF StatusInv, Tracks, UpgradeConditionTracksPhase
<1> QED
    BY <1>1, StatusInvariant, PTL

=============================================================================
