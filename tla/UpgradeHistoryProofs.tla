------------------------ MODULE UpgradeHistoryProofs ------------------------
(***************************************************************************)
(* ClusterReconciler implements UpgradeProtocol, for every value of the     *)
(* constants.  A reconcile starts from the cached status, which is the      *)
(* published one or the one before it, and ends by publishing what follows  *)
(* from it.  The status is written only over a cluster that the cache shows *)
(* as it is, so the publication before the last is as old as a cache that   *)
(* a reconcile started from can be.                                         *)
(***************************************************************************)
EXTENDS UpgradeHistory, UpgradeStatusProofs

Origins == {Published(cluster.status), before}

\* x is what a reconcile may have read, or the upgrade it has just detected.
Derived(x) ==
    \E r \in Origins :
        \/ x = r
        \/ /\ r.phase = "Complete"
           /\ x.phase = "Waiting"
           /\ x.target \in Versions \ {r.target}

\* x may be published.
Ends(x) == \E r \in Origins : x \in Protocol!Follows(r)

\* The published status only changes when the cache is up to date, so that
\* the cache never holds anything older than before; the status in flight
\* derives from what the cache held, and is ready to be published once the
\* handler of the phase has run.
HistoryInv ==
    /\ "cluster" \notin lag => clusterCache = cluster
    /\ Published(clusterCache.status) \in Origins
    /\ pc \in {"upgrade", "check"} => Derived(Published(snap.status))
    /\ pc \in {"init", "components", "park", "finish"} =>
          Ends(Published(snap.status))

-----------------------------------------------------------------------------
(* What follows from what *)

\* A publication may repeat what was read.
LEMMA FollowsItself ==
    ASSUME NEW u
    PROVE  u \in Protocol!Follows(u)
BY DEF Protocol!Follows

\* The first pass over a cluster records the installed version.
LEMMA FollowsNone ==
    ASSUME NEW u, u.phase = "None", NEW v \in Versions
    PROVE  [phase |-> "Complete", target |-> v] \in Protocol!Follows(u)
BY DEF Protocol!Follows

\* A handler moves what it read to the next phase.
LEMMA FollowsPhase ==
    ASSUME NEW u, NEW p \in Protocol!PhasesAfter(u.phase)
    PROVE  [phase |-> p, target |-> u.target] \in Protocol!Follows(u)
BY DEF Protocol!Follows

\* An upgrade that is detected may get past its gate in the same reconcile.
LEMMA FollowsComplete ==
    ASSUME NEW u, u.phase = "Complete", NEW v \in Versions \ {u.target},
           NEW p \in {"Waiting", "StartMaintenance", "Config"}
    PROVE  [phase |-> p, target |-> v] \in Protocol!Follows(u)
BY DEF Protocol!Follows

\* The switch of reconcileUpgrade, phase by phase.
LEMMA NextPhases ==
    /\ {"StartMaintenance", "Config"} = Protocol!PhasesAfter("Waiting")
    /\ "Waiting" \in Protocol!PhasesAfter("Blocked")
    /\ "Config" \in Protocol!PhasesAfter("StartMaintenance")
    /\ "InitJobs" \in Protocol!PhasesAfter("Config")
    /\ {"FlowAPI", "Blocked"} \subseteq Protocol!PhasesAfter("InitJobs")
    /\ "PeerDBServer" \in Protocol!PhasesAfter("FlowAPI")
    /\ "UI" \in Protocol!PhasesAfter("PeerDBServer")
    /\ {"EndMaintenance", "Complete"} \subseteq Protocol!PhasesAfter("UI")
    /\ "Complete" \in Protocol!PhasesAfter("EndMaintenance")
BY DEF Protocol!PhasesAfter

\* A phase handler leaves a status that may be published.
LEMMA HandlerEnds ==
    ASSUME NEW st, NEW new, Derived(Published(st)),
           new.toVersion = st.toVersion,
           \/ new.phase = st.phase
           \/ new.phase \in Protocol!PhasesAfter(st.phase)
    PROVE  Ends(Published(new))
<1>1. PICK r \in Origins :
         \/ Published(st) = r
         \/ /\ r.phase = "Complete" /\ st.phase = "Waiting"
            /\ st.toVersion \in Versions \ {r.target}
    BY DEF Derived, Published
<1> SUFFICES Published(new) \in Protocol!Follows(r)
    BY DEF Ends
<1>2. CASE new.phase = st.phase /\ Published(st) = r
    BY <1>2, FollowsItself DEF Published
<1>3. CASE new.phase \in Protocol!PhasesAfter(st.phase) /\ Published(st) = r
  <2>1. r.phase = st.phase /\ r.target = st.toVersion
      BY <1>3 DEF Published
  <2> QED
      BY <1>3, <2>1, FollowsPhase DEF Published
<1>4. CASE /\ r.phase = "Complete" /\ st.phase = "Waiting"
           /\ st.toVersion \in Versions \ {r.target}
  <2>1. new.phase \in {"Waiting", "StartMaintenance", "Config"}
      BY <1>4, NextPhases
  <2> QED
      BY <1>4, <2>1, FollowsComplete DEF Published
<1> QED
    BY <1>1, <1>2, <1>3, <1>4

-----------------------------------------------------------------------------
(* The invariant, one lemma per group of actions *)

\* The cache starts as the cluster, and nothing is in flight.
LEMMA HistoryInvInit == HistoryInit => HistoryInv
BY DEF HistoryInit, Init, HistoryInv, Origins

\* A step that changes neither the status nor its copies, or ends the
\* reconcile in flight.
LEMMA HistoryLeftAlone ==
    ASSUME HistoryInv, UNCHANGED <<cluster, clusterCache, before>>,
           "cluster" \in lag => "cluster" \in lag',
           UNCHANGED <<pc, snap>> \/ pc' = "idle"
    PROVE  HistoryInv'
<1>1. Origins' = Origins
    BY DEF Origins, Published
<1>2. CASE UNCHANGED <<pc, snap>>
  <2>1. /\ Derived(Published(snap.status))' <=> Derived(Published(snap.status))
        /\ Ends(Published(snap.status))' <=> Ends(Published(snap.status))
      BY <1>1, <1>2 DEF Derived, Ends, Published, Protocol!Follows,
                        Protocol!PhasesAfter
  <2> QED
      BY <1>1, <1>2, <2>1 DEF HistoryInv, Published
<1>3. CASE pc' = "idle"
    BY <1>1, <1>3 DEF HistoryInv, Published
<1> QED
    BY <1>2, <1>3

\* A status is put on a cluster that the cache shows as it is.
LEMMA HistoryWritten ==
    ASSUME TypeOK, HistoryInv, NEW st \in ClusterStatus, WriteStatus(st),
           "cluster" \notin lag, UNCHANGED clusterCache, pc' = "idle",
           Ends(Published(st)),
           before' = IF cluster'.status = cluster.status
                     THEN before ELSE Published(cluster.status)
    PROVE  /\ HistoryInv'
           /\ \/ UNCHANGED <<Published(cluster.status), before>>
              \/ Protocol!Publish
<1>1. clusterCache = cluster /\ cluster'.status = st
    BY DEF HistoryInv, WriteStatus, TypeOK, ClusterObject
<1>2. CASE st = cluster.status
  <2>1. cluster' = cluster /\ before' = before /\ lag' = lag
      BY <1>1, <1>2 DEF WriteStatus, TypeOK, ClusterObject
  <2> QED
      BY <2>1, HistoryLeftAlone DEF Published
<1>3. CASE st # cluster.status
  <2>1. /\ before' = Published(cluster.status)
        /\ "cluster" \in lag'
      BY <1>1, <1>3 DEF WriteStatus
  <2>2. HistoryInv'
      BY <1>1, <2>1 DEF HistoryInv, Origins, Published
  <2>3. Protocol!Publish
      BY <1>1, <2>1 DEF Protocol!Publish, Ends, Origins, Published
  <2> QED
      BY <2>2, <2>3
<1> QED
    BY <1>2, <1>3

\* A phase handler parks or continues with a status of the next phase.
LEMMA HistoryHandled ==
    ASSUME TypeOK, HistoryInv, pc \in {"upgrade", "check"},
           NEW st \in ClusterStatus, Park(st) \/ Continue(st),
           st.toVersion = snap.status.toVersion,
           \/ st.phase = snap.status.phase
           \/ st.phase \in Protocol!PhasesAfter(snap.status.phase),
           UNCHANGED <<cluster, clusterCache, before>>,
           "cluster" \in lag => "cluster" \in lag'
    PROVE  HistoryInv'
<1>1. snap'.status = st /\ pc' \in {"park", "init"}
    BY DEF Park, Continue, TypeOK, ClusterObject
<1>2. Ends(Published(st))
    BY HandlerEnds DEF HistoryInv
<1>3. Origins' = Origins
    BY DEF Origins, Published
<1>4. Ends(Published(snap.status))'
    BY <1>1, <1>2, <1>3 DEF Ends, Published
<1> QED
    BY <1>1, <1>3, <1>4 DEF HistoryInv, Published

\* The handler's first half sets UpgradeInProgress and goes on.
LEMMA HistoryChecked ==
    ASSUME TypeOK, HistoryInv, pc = "upgrade", pc' = "check",
           snap' = [snap EXCEPT !.status = UpgradeStatus],
           UNCHANGED <<cluster, clusterCache, before>>,
           "cluster" \in lag => "cluster" \in lag'
    PROVE  HistoryInv'
<1>1. Published(snap.status)' = Published(snap.status)
    BY SnapTypes
    DEF Published, UpgradeStatus, TypeOK, ClusterObject, ClusterStatus
<1>2. Origins' = Origins
    BY DEF Origins, Published
<1>3. Derived(Published(snap.status))'
    BY <1>1, <1>2 DEF HistoryInv, Derived
<1> QED
    BY <1>2, <1>3 DEF HistoryInv, Published

\* Starting a reconcile takes the cached status, and may detect an upgrade.
LEMMA StartHistory ==
    ASSUME TypeOK, HistoryInv, StartReconcile, UNCHANGED before
    PROVE  HistoryInv'
<1> DEFINE v == clusterCache.spec.version
           st == [clusterCache.status EXCEPT !.reconciling = "True",
                                             !.catalogReady = "True"]
           r == RecordUpgrade(st, v)
           d == DetectUpgrade(r, v, clusterCache.backup)
           u == Published(clusterCache.status)
<1>1. /\ clusterCache.status \in ClusterStatus /\ v \in Versions
      /\ clusterCache \in ClusterObject
    BY DEF TypeOK, ClusterObject, ClusterSpec
<1>2. st \in ClusterStatus /\ Published(st) = u
    BY <1>1 DEF ClusterStatus, ConditionStatus, Published
<1> HIDE DEF st
<1>3. /\ r \in ClusterStatus
      /\ \/ Published(r) = u
         \/ /\ u.phase = "None"
            /\ Published(r) = [phase |-> "Complete", target |-> v]
    BY <1>1, <1>2 DEF RecordUpgrade, ClusterStatus, Published, UpgradePhases
<1> HIDE DEF r
<1>4. \/ d = r
      \/ /\ ~clusterCache.backup
         /\ r.phase = "Complete" /\ r.toVersion # v
         /\ d.phase = "Waiting" /\ d.toVersion = v
    BY <1>3 DEF DetectUpgrade, ClusterStatus, Published
<1> HIDE DEF d
<1>5. snap'.status = d
    BY <1>1 DEF StartReconcile, ClusterObject, d, r, st
<1>6. pc' = IF ~clusterCache.backup /\ Upgrading(d) THEN "upgrade" ELSE "init"
    BY DEF StartReconcile, d, r, st
<1>7. UNCHANGED <<cluster, clusterCache, lag>> /\ Origins' = Origins
    BY DEF StartReconcile, clusterVars, Origins, Published
<1>8. u \in Origins
    BY DEF HistoryInv
<1>9. CASE d # r
  <2>1. Published(r) = u /\ Published(d) = [phase |-> "Waiting", target |-> v]
      BY <1>3, <1>4, <1>9 DEF Published
  <2>2. pc' = "upgrade"
      BY <1>4, <1>6, <1>9 DEF Upgrading
  <2>3. Derived(Published(d))
      BY <1>1, <1>4, <1>8, <1>9, <2>1 DEF Derived, Published
  <2>4. Derived(Published(snap.status))'
      BY <1>5, <1>7, <2>3 DEF Derived, Published
  <2> QED
      BY <1>7, <2>2, <2>4 DEF HistoryInv, Published
<1>10. CASE d = r
  <2>1. Ends(Published(d))
      BY <1>1, <1>3, <1>8, <1>10, FollowsItself, FollowsNone DEF Ends
  <2>2. Upgrading(d) => Derived(Published(d))
      BY <1>3, <1>8, <1>10 DEF Derived, Published, Upgrading
  <2>3. /\ Ends(Published(snap.status))'
        /\ pc' = "upgrade" => Derived(Published(snap.status))'
      BY <1>5, <1>6, <1>7, <2>1, <2>2 DEF Ends, Derived, Published
  <2> QED
      BY <1>6, <1>7, <2>3 DEF HistoryInv, Published
<1> QED
    BY <1>9, <1>10

\* The phases that only change the status.
LEMMA PhaseHistory ==
    ASSUME TypeOK, StatusInv, HistoryInv, UNCHANGED before,
           UpgradePhaseWaiting \/ UpgradePhaseBlocked \/ UpgradePhaseConfig
    PROVE  HistoryInv'
<1>0. pc = "upgrade" /\ UNCHANGED <<cluster, clusterCache, lag>>
    BY DEF UpgradePhaseWaiting, UpgradePhaseBlocked, UpgradePhaseConfig,
           AtPhase, clusterVars
<1> DEFINE Moved(p) == [UpgradeStatus EXCEPT !.phase = p]
           Unblocked == [UpgradeStatus EXCEPT !.phase = "Waiting",
                                              !.degraded = "False"]
<1>1. /\ UpgradeStatus \in ClusterStatus
      /\ UpgradeStatus.phase = snap.status.phase
      /\ UpgradeStatus.toVersion = snap.status.toVersion
    BY SnapTypes DEF UpgradeStatus, ClusterStatus
<1>2. \A p \in UpgradePhases :
         /\ Moved(p) \in ClusterStatus /\ Moved(p).phase = p
         /\ Moved(p).toVersion = snap.status.toVersion
    BY <1>1 DEF ClusterStatus
<1>3. /\ Unblocked \in ClusterStatus /\ Unblocked.phase = "Waiting"
      /\ Unblocked.toVersion = snap.status.toVersion
    BY <1>1 DEF ClusterStatus, UpgradePhases, ConditionStatus
<1> HIDE DEF Moved, Unblocked
<1>4. CASE Park(UpgradeStatus)
    BY <1>0, <1>1, <1>4, HistoryHandled
<1>5. ASSUME NEW p \in UpgradePhases, Continue(Moved(p)),
             p \in Protocol!PhasesAfter(snap.status.phase)
      PROVE  HistoryInv'
    BY <1>0, <1>2, <1>5, HistoryHandled
<1>6. CASE Continue(Unblocked) /\ snap.status.phase = "Blocked"
    BY <1>0, <1>3, <1>6, NextPhases, HistoryHandled
<1>7. CASE UpgradePhaseWaiting
    BY <1>4, <1>5, <1>7, NextPhases
    DEF UpgradePhaseWaiting, AtPhase, UpgradePhases, Moved
<1>8. CASE UpgradePhaseBlocked
    BY <1>6, <1>8 DEF UpgradePhaseBlocked, AtPhase, Unblocked
<1>9. CASE UpgradePhaseConfig
    BY <1>5, <1>9, NextPhases
    DEF UpgradePhaseConfig, AtPhase, UpgradePhases, Moved
<1> QED
    BY <1>7, <1>8, <1>9

\* The phases of the maintenance jobs.
LEMMA MaintenanceHistory ==
    ASSUME TypeOK, StatusInv, HistoryInv, UNCHANGED before,
           UpgradePhaseMaintenanceJob
    PROVE  HistoryInv'
<1>0. PICK p \in {"StartMaintenance", "EndMaintenance"} :
         CreateMaintenanceJob(p) \/ AwaitMaintenanceJob(p)
            \/ RetryMaintenanceJob(p)
    BY DEF UpgradePhaseMaintenanceJob
<1>1. /\ pc = "upgrade" /\ snap.status.phase = p
      /\ UNCHANGED <<cluster, clusterCache>>
      /\ "cluster" \in lag => "cluster" \in lag'
    BY <1>0 DEF CreateMaintenanceJob, AwaitMaintenanceJob,
                RetryMaintenanceJob, AtPhase, clusterVars
<1>2. /\ UpgradeStatus \in ClusterStatus
      /\ UpgradeStatus.phase = snap.status.phase
      /\ UpgradeStatus.toVersion = snap.status.toVersion
    BY SnapTypes DEF UpgradeStatus, ClusterStatus
<1>3. CASE CreateMaintenanceJob(p)
  <2> DEFINE st(m) == [UpgradeStatus EXCEPT !.maintenanceMode = m]
  <2>1. \A m \in {"Starting", "Ending"} :
           /\ st(m) \in ClusterStatus /\ st(m).phase = snap.status.phase
           /\ st(m).toVersion = snap.status.toVersion
      BY <1>2 DEF ClusterStatus, MaintenanceModeStatus
  <2>2. (\E m \in {"Starting", "Ending"} : Park(st(m))) \/ pc' = "idle"
      BY <1>3 DEF CreateMaintenanceJob, ReturnError, Return
  <2> HIDE DEF st
  <2> QED
      BY <1>1, <2>1, <2>2, HistoryHandled, HistoryLeftAlone
<1>4. CASE AwaitMaintenanceJob(p)
  <2>1. /\ AfterMaintenance(p) \in ClusterStatus
        /\ AfterMaintenance(p).toVersion = snap.status.toVersion
        /\ AfterMaintenance(p).phase \in Protocol!PhasesAfter(p)
    <3>1. AfterMaintenance(p).phase =
             IF p = "StartMaintenance" THEN "Config" ELSE "Complete"
        BY <1>2 DEF AfterMaintenance, ClusterStatus
    <3>2. AfterMaintenance(p).toVersion = snap.status.toVersion
        BY <1>2 DEF AfterMaintenance, ClusterStatus
    <3>3. AfterMaintenance(p) \in ClusterStatus
        BY <1>2, StatusUpdates
        DEF AfterMaintenance, UpgradePhases, MaintenanceModeStatus,
            ConditionStatus
    <3> QED
        BY <3>1, <3>2, <3>3, NextPhases
  <2>2. Park(UpgradeStatus) \/ Continue(AfterMaintenance(p))
      BY <1>4 DEF AwaitMaintenanceJob
  <2> QED
      BY <1>1, <1>2, <2>1, <2>2, HistoryHandled
<1>5. CASE RetryMaintenanceJob(p)
  <2> DEFINE st == [UpgradeStatus EXCEPT !.degraded = "True"]
  <2>1. /\ st \in ClusterStatus /\ st.phase = snap.status.phase
        /\ st.toVersion = snap.status.toVersion
      BY <1>2 DEF ClusterStatus, ConditionStatus
  <2>2. Park(st)
      BY <1>5 DEF RetryMaintenanceJob
  <2> HIDE DEF st
  <2> QED
      BY <1>1, <2>1, <2>2, HistoryHandled
<1> QED
    BY <1>0, <1>3, <1>4, <1>5

\* The two halves of the InitJobs phase.
LEMMA InitJobsHistory ==
    ASSUME TypeOK, StatusInv, HistoryInv, UNCHANGED before,
           UpgradePhaseInitJobs \/ CheckInitJobs
    PROVE  HistoryInv'
<1>0. /\ UNCHANGED <<cluster, clusterCache>>
      /\ "cluster" \in lag => "cluster" \in lag'
    BY DEF UpgradePhaseInitJobs, CheckInitJobs, ReconcileInitJobs, clusterVars
<1>1. CASE UpgradePhaseInitJobs
  <2> DEFINE st == [UpgradeStatus EXCEPT !.phase = "FlowAPI",
                                         !.initialized = "True"]
  <2>1. pc = "upgrade" /\ snap.status.phase = "InitJobs"
      BY <1>1 DEF UpgradePhaseInitJobs, AtPhase
  <2>2. /\ st \in ClusterStatus /\ st.phase = "FlowAPI"
        /\ st.toVersion = snap.status.toVersion
      BY SnapTypes
      DEF UpgradeStatus, ClusterStatus, UpgradePhases, ConditionStatus
  <2>3. \/ Continue(st)
        \/ snap' = [snap EXCEPT !.status = UpgradeStatus] /\ pc' = "check"
      BY <1>1 DEF UpgradePhaseInitJobs
  <2> HIDE DEF st
  <2> QED
      BY <1>0, <2>1, <2>2, <2>3, NextPhases, HistoryHandled, HistoryChecked
<1>2. CASE CheckInitJobs
  <2> DEFINE st(p) == [snap.status EXCEPT !.phase = p,
                                          !.initialized = "False"]
  <2>1. pc = "check" /\ snap.status.phase = "InitJobs"
      BY <1>2 DEF CheckInitJobs
  <2>2. \A p \in {"Blocked", "InitJobs"} :
           /\ st(p) \in ClusterStatus /\ st(p).phase = p
           /\ st(p).toVersion = snap.status.toVersion
      BY SnapTypes DEF ClusterStatus, UpgradePhases, ConditionStatus
  <2>3. \E p \in {"Blocked", "InitJobs"} : Park(st(p))
      BY <1>2 DEF CheckInitJobs
  <2> HIDE DEF st
  <2> QED
      BY <1>0, <2>1, <2>2, <2>3, NextPhases, HistoryHandled
<1> QED
    BY <1>1, <1>2

\* The two halves of the phases of the components.
LEMMA ComponentHistory ==
    ASSUME TypeOK, StatusInv, HistoryInv, UNCHANGED before,
           UpgradePhaseComponent \/ CheckRollout
    PROVE  HistoryInv'
<1>0. /\ UNCHANGED <<cluster, clusterCache>>
      /\ "cluster" \in lag => "cluster" \in lag'
    BY DEF UpgradePhaseComponent, CheckRollout, ReconcileDeployments,
           clusterVars
<1>1. CASE UpgradePhaseComponent
    BY <1>0, <1>1, HistoryChecked DEF UpgradePhaseComponent
<1>2. CASE CheckRollout
  <2> DEFINE st == AfterRollout(snap.status, snap.spec.maintenance)
  <2>1. /\ pc = "check" /\ snap.status.phase \in Components
        /\ snap.status \in ClusterStatus
      BY <1>2, SnapTypes DEF CheckRollout
  <2>2. /\ st \in ClusterStatus /\ st.toVersion = snap.status.toVersion
        /\ \/ snap.status.phase = "FlowAPI" /\ st.phase = "PeerDBServer"
           \/ snap.status.phase = "PeerDBServer" /\ st.phase = "UI"
           \/ /\ snap.status.phase = "UI"
              /\ st.phase \in {"EndMaintenance", "Complete"}
      BY <2>1 DEF AfterRollout, Components, ClusterStatus, UpgradePhases,
                  ConditionStatus
  <2> HIDE DEF st
  <2>3. pc' = "idle" \/ Park(snap.status) \/ Continue(st)
      BY <1>2 DEF CheckRollout, ReturnError, Return, st
  <2>4. st.phase \in Protocol!PhasesAfter(snap.status.phase)
      BY <2>2, NextPhases
  <2>5. CASE pc' = "idle"
      BY <1>0, <2>5, HistoryLeftAlone
  <2>6. CASE Park(snap.status)
      BY <1>0, <2>1, <2>6, HistoryHandled
  <2>7. CASE Continue(st)
      BY <1>0, <2>1, <2>2, <2>4, <2>7, HistoryHandled
  <2> QED
      BY <2>3, <2>5, <2>6, <2>7
<1> QED
    BY <1>1, <1>2

\* Standard reconciliation and setFinalConditions leave the upgrade alone.
LEMMA StandardHistory ==
    ASSUME TypeOK, StatusInv, HistoryInv, UNCHANGED before,
           ReconcileInitJobsAndStatus \/ ReconcileComponentsAndStatus
    PROVE  HistoryInv'
<1>1. /\ UNCHANGED <<cluster, clusterCache>>
      /\ "cluster" \in lag => "cluster" \in lag'
    BY DEF ReconcileInitJobsAndStatus, ReconcileComponentsAndStatus,
           ReconcileInitJobs, ReconcileDeployments, clusterVars
<1>2. /\ pc \in {"init", "components"} /\ pc' \in {"components", "finish"}
      /\ Published(snap.status)' = Published(snap.status)
  <2>1. CASE ReconcileInitJobsAndStatus
      BY <2>1 DEF ReconcileInitJobsAndStatus, Published, TypeOK,
                  ClusterObject, ClusterStatus
  <2>2. CASE ReconcileComponentsAndStatus
      BY <2>2, SnapTypes
      DEF ReconcileComponentsAndStatus, FinalConditions, Published, TypeOK,
          ClusterObject, ClusterStatus
  <2> QED
      BY <2>1, <2>2
<1>3. Origins' = Origins
    BY <1>1 DEF Origins, Published
<1>4. Ends(Published(snap.status))'
    BY <1>2, <1>3 DEF HistoryInv, Ends
<1> QED
    BY <1>1, <1>2, <1>3, <1>4 DEF HistoryInv, Published

\* Every write of a status publishes what follows from an origin.
LEMMA SaveHistory ==
    ASSUME TypeOK, StatusInv, HistoryInv,
           \/ ReconcilePaused \/ ReconcileSecretMissing
           \/ SaveParked \/ SaveFinal,
           before' = IF cluster'.status = cluster.status
                     THEN before ELSE Published(cluster.status)
    PROVE  /\ HistoryInv'
           /\ \/ UNCHANGED <<Published(cluster.status), before>>
              \/ Protocol!Publish
<1>0. clusterCache.status \in ClusterStatus
    BY DEF TypeOK, ClusterObject
<1>1. UNCHANGED clusterCache /\ pc' = "idle"
    BY DEF ReconcilePaused, ReconcileSecretMissing, Dequeue, SaveParked,
           SaveFinal, Return
<1>2. CASE UNCHANGED <<cluster, lag>>
  <2>1. UNCHANGED before
      BY <1>2
  <2> QED
      BY <1>1, <1>2, <2>1, HistoryLeftAlone DEF Published
<1>3. CASE ReconcilePaused /\ ~UNCHANGED <<cluster, lag>>
  <2> DEFINE st == PausedStatus(clusterCache.status)
  <2>1. st \in ClusterStatus /\ Published(st) = Published(clusterCache.status)
      BY <1>0 DEF PausedStatus, ClusterStatus, ConditionStatus, Published
  <2>2. WriteStatus(st) /\ "cluster" \notin lag
      BY <1>3 DEF ReconcilePaused
  <2> HIDE DEF st
  <2>3. Ends(Published(st))
      BY <2>1, FollowsItself DEF HistoryInv, Ends
  <2> QED
      BY <1>1, <2>1, <2>2, <2>3, HistoryWritten
<1>4. CASE ReconcileSecretMissing /\ ~UNCHANGED <<cluster, lag>>
  <2> DEFINE st == SecretMissing(clusterCache.status)
  <2>1. st \in ClusterStatus /\ Published(st) = Published(clusterCache.status)
      BY <1>0 DEF SecretMissing, ClusterStatus, ConditionStatus, Published
  <2>2. WriteStatus(st) /\ "cluster" \notin lag
      BY <1>4 DEF ReconcileSecretMissing
  <2> HIDE DEF st
  <2>3. Ends(Published(st))
      BY <2>1, FollowsItself DEF HistoryInv, Ends
  <2> QED
      BY <1>1, <2>1, <2>2, <2>3, HistoryWritten
<1>5. CASE (SaveParked \/ SaveFinal) /\ ~UNCHANGED <<cluster, lag>>
  <2>1. /\ pc \in {"park", "finish"} /\ WriteStatus(snap.status)
        /\ "cluster" \notin lag
      BY <1>5 DEF SaveParked, SaveFinal, UpdateStatus, StatusConflict
  <2>2. Ends(Published(snap.status)) /\ snap.status \in ClusterStatus
      BY <2>1, SnapTypes DEF HistoryInv
  <2> QED
      BY <1>1, <2>1, <2>2, HistoryWritten
<1> QED
    BY <1>2, <1>3, <1>4, <1>5

\* An informer delivers: the cache is the cluster, or is as it was.
LEMMA InformersHistory ==
    ASSUME HistoryInv, NEW is \in SUBSET Informers, Deliver(is),
           UNCHANGED before
    PROVE  HistoryInv'
<1>1. /\ UNCHANGED <<cluster, pc, snap>>
      /\ clusterCache' = IF "cluster" \in is THEN cluster ELSE clusterCache
    BY DEF Deliver
<1>2. CASE "cluster" \in is
  <2>1. Origins' = Origins
      BY <1>1 DEF Origins, Published
  <2>2. /\ Derived(Published(snap.status))' <=> Derived(Published(snap.status))
        /\ Ends(Published(snap.status))' <=> Ends(Published(snap.status))
      BY <1>1, <2>1 DEF Derived, Ends, Published
  <2> QED
      BY <1>1, <1>2, <2>1, <2>2 DEF HistoryInv, Origins, Published
<1>3. CASE "cluster" \notin is
  <2>1. \A i \in is : "cluster" \notin Watched(i)
      BY <1>3 DEF Watched, Informers, Components
  <2>2. "cluster" \in lag => "cluster" \in lag'
      BY <2>1 DEF Deliver
  <2> QED
      BY <1>1, <1>3, <2>2, HistoryLeftAlone
<1> QED
    BY <1>2, <1>3

\* The user edits the spec and the annotation, never the status.
LEMMA UserHistory ==
    ASSUME TypeOK, HistoryInv, User, UNCHANGED before
    PROVE  /\ HistoryInv'
           /\ cluster'.status = cluster.status
<1>1. CASE UNCHANGED cluster
  <2>1. /\ UNCHANGED <<clusterCache, pc, snap>>
        /\ "cluster" \in lag => "cluster" \in lag'
      BY DEF User, SetVersion, SetPolicy, SetMaintenance, SetPaused,
             SetBackup, SetSecret, EditCluster, clusterVars
  <2> QED
      BY <1>1, <2>1, HistoryLeftAlone
<1>2. CASE ~UNCHANGED cluster
  <2>1. /\ cluster'.status = cluster.status
        /\ UNCHANGED <<clusterCache, pc, snap>>
        /\ "cluster" \in lag'
      BY <1>2 DEF User, SetVersion, SetPolicy, SetMaintenance, SetPaused,
                  SetBackup, SetSecret, EditCluster, clusterVars, TypeOK,
                  ClusterObject
  <2>2. Origins' = Origins
      BY <2>1 DEF Origins, Published
  <2>3. /\ Derived(Published(snap.status))' <=> Derived(Published(snap.status))
        /\ Ends(Published(snap.status))' <=> Ends(Published(snap.status))
      BY <2>1, <2>2 DEF Derived, Ends, Published
  <2> QED
      BY <2>1, <2>2, <2>3 DEF HistoryInv, Published
<1> QED
    BY <1>1, <1>2

\* Failing reconciles and Kubernetes leave the cluster object alone.
LEMMA OthersHistory ==
    ASSUME HistoryInv, UNCHANGED before,
           \/ InitJobsFail \/ ComponentsFail \/ UpgradeComponentFails
           \/ Fault \/ Resync \/ Jobs \/ Rollouts \/ Drift \/ PromptRollouts
    PROVE  HistoryInv'
<1>1. CASE InitJobsFail \/ ComponentsFail \/ UpgradeComponentFails \/ Fault
    BY <1>1, HistoryLeftAlone
    DEF InitJobsFail, ComponentsFail, UpgradeComponentFails, Fault,
        ReturnError, Return, ReconcileInitJobs, ReconcileDeployments,
        clusterVars
<1>2. CASE Resync \/ Jobs \/ Rollouts \/ Drift \/ PromptRollouts
    BY <1>2, HistoryLeftAlone
    DEF Resync, Jobs, JobCompletes, JobFails, Rollouts, RolloutStarts,
        RolloutEnds, Drift, PodFails, DeleteDeployment, DeploymentStatus,
        PromptRollouts, clusterVars
<1> QED
    BY <1>1, <1>2

\* The steps that leave the status alone: all but those of SaveHistory.
LEMMA StatusKept ==
    ASSUME TypeOK, Next,
           ~(ReconcilePaused \/ ReconcileSecretMissing
               \/ SaveParked \/ SaveFinal)
    PROVE  cluster'.status = cluster.status
<1>1. CASE Reconcile
    BY <1>1
    DEF Reconcile, clusterVars, StartReconcile, UpgradePhaseWaiting,
        UpgradePhaseBlocked, UpgradePhaseMaintenanceJob,
        CreateMaintenanceJob, AwaitMaintenanceJob, RetryMaintenanceJob,
        UpgradePhaseConfig, UpgradePhaseInitJobs, CheckInitJobs,
        UpgradePhaseComponent, CheckRollout, ReconcileInitJobsAndStatus,
        ReconcileComponentsAndStatus, InitJobsFail, ComponentsFail,
        UpgradeComponentFails
<1>2. CASE User
    BY <1>2 DEF User, SetVersion, SetPolicy, SetMaintenance, SetPaused,
                SetBackup, SetSecret, EditCluster, clusterVars, TypeOK,
                ClusterObject
<1>3. CASE \/ PromptInformers \/ \E i \in Informers : LaggingInformer(i)
           \/ PromptRollouts \/ Resync \/ Fault \/ Jobs \/ Rollouts \/ Drift
    BY <1>3
    DEF PromptInformers, LaggingInformer, Deliver, PromptRollouts, Resync,
        Fault, Jobs, JobCompletes, JobFails, Rollouts, RolloutStarts,
        RolloutEnds, Drift, PodFails, DeleteDeployment, DeploymentStatus,
        clusterVars
<1> QED
    BY <1>1, <1>2, <1>3 DEF Next

\* Every step keeps the invariant and is a step of the protocol or none.
LEMMA HistoryStep ==
    ASSUME TypeOK, StatusInv, HistoryInv, [HistoryNext]_historyVars
    PROVE  /\ HistoryInv'
           /\ \/ UNCHANGED <<Published(cluster.status), before>>
              \/ Protocol!Publish
<1>1. CASE UNCHANGED historyVars
    BY <1>1, HistoryLeftAlone DEF historyVars, vars, Published
<1>2. CASE HistoryNext /\ (ReconcilePaused \/ ReconcileSecretMissing
                             \/ SaveParked \/ SaveFinal)
    BY <1>2, SaveHistory DEF HistoryNext
<1>3. CASE HistoryNext /\ ~(ReconcilePaused \/ ReconcileSecretMissing
                              \/ SaveParked \/ SaveFinal)
  <2>1. cluster'.status = cluster.status /\ UNCHANGED before
      BY <1>3, StatusKept DEF HistoryNext
  <2>2. CASE Reconcile
      BY <1>3, <2>1, <2>2, StartHistory, PhaseHistory, MaintenanceHistory,
         InitJobsHistory, ComponentHistory, StandardHistory, OthersHistory
      DEF Reconcile, Published
  <2>3. CASE PromptInformers \/ \E i \in Informers : LaggingInformer(i)
      BY <2>1, <2>3, InformersHistory
      DEF PromptInformers, LaggingInformer, Published
  <2>4. CASE User
      BY <2>1, <2>4, UserHistory DEF Published
  <2>5. CASE PromptRollouts \/ Resync \/ Fault \/ Jobs \/ Rollouts \/ Drift
      BY <2>1, <2>5, OthersHistory DEF Published
  <2> QED
      BY <1>3, <2>2, <2>3, <2>4, <2>5 DEF HistoryNext, Next
<1> QED
    BY <1>1, <1>2, <1>3

\* The history variable restricts no behaviour of the reconciler.
LEMMA HistoryIsSpec == HistorySpec => Spec
<1>1. HistoryInit => Init
    BY DEF HistoryInit
<1>2. [HistoryNext]_historyVars => [Next]_vars
    BY DEF HistoryNext, historyVars
<1> QED
    BY <1>1, <1>2, PTL DEF HistorySpec, Spec

\* Whatever the caches show and whichever reconciles fail, every publication of
\* the status follows from the last one or from the one before it: what
\* reconcileUpgrade and updateStatus do to status.upgrade is the protocol of
\* UpgradeProtocol.
THEOREM RefinesProtocol == HistorySpec => ImplementsProtocol
<1>1. HistoryInit => Protocol!Init
    BY DEF HistoryInit, Init, NewCluster, EmptyStatus, Published,
           Protocol!Init, Protocol!NoUpgrade, NoVersion, Protocol!NoVersion
<1>2. TypeOK /\ StatusInv /\ HistoryInv /\ [HistoryNext]_historyVars
         => /\ HistoryInv'
            /\ [Protocol!Publish]_<<Published(cluster.status), before>>
    BY HistoryStep
<1> QED
    BY <1>1, <1>2, HistoryInvInit, HistoryIsSpec, TypeCorrect,
       StatusInvariant, PTL
    DEF HistorySpec, ImplementsProtocol, Protocol!Spec

=============================================================================
