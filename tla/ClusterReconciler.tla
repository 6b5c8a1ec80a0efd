------------------------- MODULE ClusterReconciler -------------------------
(***************************************************************************)
(* The PeerDBCluster controller (internal/controller/                       *)
(* peerdbcluster_controller.go) with what it acts on: the API server's      *)
(* objects, the informer caches the controller reads them through, the      *)
(* Kubernetes controllers that run its Jobs and Deployments, the mirrors    *)
(* that PeerDB's maintenance workflows pause and resume, and the user.      *)
(*                                                                          *)
(* How a reconcile is cut into steps.  One call of Reconcile is the         *)
(* sequence idle -> upgrade -> check -> init -> components -> finish, or    *)
(* ends early at park (a Result with RequeueAfter) or with an error.        *)
(* Within one stage the code touches each object once, so reading a cache   *)
(* that may lag already covers every interleaving inside the stage; what    *)
(* the code reads twice in a call (the cluster, the deployment or job whose *)
(* rollout it gates on) is read in two different stages.                    *)
(*                                                                          *)
(* Simplifications.  The ServiceAccount, ConfigMap and Service writes carry *)
(* no control state: only their errors matter, as faults.  The hash of the  *)
(* ConfigMap data and the secret's resourceVersion is the secret's          *)
(* revision.  Requeue delays and back-off are "queued again".               *)
(***************************************************************************)
EXTENDS PeerDBCluster

CONSTANTS
    InitJobs,         \* the enabled init jobs in the order the code runs them
    HasWindow,        \* spec.maintenanceWindow is set
    Lagging,          \* informers that may be behind when the code reads them
    Slow,             \* components whose rollouts others may overtake
    Budget,           \* how often the environment may do each disturbance
    EditsMidUpgrade,  \* spec.version and spec.maintenance change mid-upgrade
    Rollbacks         \* spec.version may go back to an earlier version

InitJobKinds == {"temporal-ns-register", "temporal-search-attr"}

Informers == {"cluster", "jobs", "deployments"}

\* What the environment may do a bounded number of times, and "total" of all.
Disturbances ==
    {"version", "policy", "maintenance", "backup", "paused", "secret",
     "fault", "jobfail", "podfail", "drift", "total"}

ASSUME ReconcilerAssumption ==
    /\ InitJobs \in Seq(InitJobKinds)
    /\ HasWindow \in BOOLEAN
    /\ Lagging \subseteq Informers
    /\ Slow \subseteq Components
    /\ Budget \in [Disturbances -> Nat]
    /\ EditsMidUpgrade \in BOOLEAN
    /\ Rollbacks \in BOOLEAN

VARIABLES
    cluster,          \* the PeerDBCluster object in the API server
    jobs,             \* job name (kind and version) -> state
    deployments,      \* component -> Deployment object
    secret,           \* the catalog password secret
    clusterCache, jobCache, deploymentCache,  \* the informers' copies
    lag,              \* objects whose last change has not reached the cache
    queued,           \* the cluster's key is in the work queue
    pc,               \* stage of the reconcile in flight
    snap,             \* its copy of the cluster object
    hash,             \* its config hash
    mirrors,          \* PeerDB's mirrors: running or paused
    approved,         \* versions once asked for with policy Automatic
    budget            \* disturbances left

clusterVars == <<cluster, clusterCache>>
jobVars == <<jobs, jobCache>>
deploymentVars == <<deployments, deploymentCache>>
worldVars == <<secret, mirrors, approved>>
vars == <<cluster, jobs, deployments, secret, clusterCache, jobCache,
          deploymentCache, lag, queued, pc, snap, hash, mirrors, approved,
          budget>>

-----------------------------------------------------------------------------
(* Objects *)

\* Job names end in the version of the spec they were built from.
JobKinds == InitJobKinds \cup {"maintenance-start", "maintenance-end"}
JobNames == JobKinds \X Versions
JobStates == {"absent", "running", "complete", "failed"}

\* observed: status.observedGeneration has caught up with the generation.
\* updated:  updatedReplicas and availableReplicas equal the desired count.
\* ready:    readyReplicas is not below replicas.
Deployment ==
    [exists: BOOLEAN, version: Versions \cup {NoVersion}, hash: Nat,
     observed: BOOLEAN, updated: BOOLEAN, ready: BOOLEAN]

NoDeployment ==
    [exists |-> FALSE, version |-> NoVersion, hash |-> 0,
     observed |-> FALSE, updated |-> FALSE, ready |-> FALSE]

\* A deployment just created from a template: the status is still empty, so
\* no replica counts as missing.
NewDeployment(v, h) ==
    [exists |-> TRUE, version |-> v, hash |-> h,
     observed |-> FALSE, updated |-> FALSE, ready |-> TRUE]

\* deploymentRolledOut
RolledOut(d) == d.observed /\ d.updated

Secret == [present: BOOLEAN, revision: Nat]

Stages == {"idle", "upgrade", "check", "init", "components", "park", "finish"}

NoSnapshot == NewCluster(FALSE)

Init ==
    /\ \E m \in BOOLEAN : cluster = NewCluster(m)
    /\ clusterCache = cluster
    /\ jobs = [j \in JobNames |-> "absent"]
    /\ jobCache = jobs
    /\ deployments = [c \in Components |-> NoDeployment]
    /\ deploymentCache = deployments
    /\ secret = [present |-> TRUE, revision |-> 1]
    /\ lag = {}
    /\ queued = TRUE
    /\ pc = "idle"
    /\ snap = NoSnapshot
    /\ hash = 0
    /\ mirrors = "running"
    /\ approved = {InitialVersion}
    /\ budget = Budget

-----------------------------------------------------------------------------
(* Informer caches *)

\* The objects informer i delivers.
Watched(i) == IF i = "deployments" THEN Components ELSE {i}

Behind(i) == lag \cap Watched(i) # {}

\* Mutation of Enqueuing: the controller does not own its deployments.
EnqueuingWithoutDeployments == {"cluster", "jobs"}

\* Events on the cluster and on the objects it owns enqueue the cluster.
Enqueuing == Informers

\* The informers is deliver what they have missed.
Deliver(is) ==
    /\ clusterCache' = IF "cluster" \in is THEN cluster ELSE clusterCache
    /\ jobCache' = IF "jobs" \in is THEN jobs ELSE jobCache
    /\ deploymentCache' = IF "deployments" \in is THEN deployments
                                                  ELSE deploymentCache
    /\ lag' = lag \ UNION {Watched(i) : i \in is}
    /\ queued' = (queued \/ \E i \in is \cap Enqueuing : Behind(i))
    /\ UNCHANGED <<cluster, jobs, deployments, pc, snap, hash, worldVars,
                   budget>>

\* An informer that may lag delivers when it likes.
LaggingInformer(i) == i \in Lagging /\ Behind(i) /\ Deliver({i})

\* The others deliver before anything else happens.
PromptInformers ==
    /\ \E i \in Informers \ Lagging : Behind(i)
    /\ Deliver(Informers \ Lagging)

\* The manager's periodic resync re-delivers every cached object.
Resync ==
    /\ pc = "idle" /\ ~queued
    /\ queued' = TRUE
    /\ UNCHANGED <<clusterVars, jobVars, deploymentVars, lag, pc, snap, hash,
                   worldVars, budget>>

-----------------------------------------------------------------------------
(* The controller: starting a reconcile *)

Dequeue == pc = "idle" /\ queued

\* The reconcile is over; its copy of the cluster is dropped.
Return == pc' = "idle" /\ snap' = NoSnapshot /\ hash' = 0

\* It is over with an error: nothing of its status is saved, and the work
\* queue retries.
ReturnError == Return /\ queued' = TRUE

\* Status().Update: a write with no difference leaves the object alone.
WriteStatus(st) ==
    /\ cluster' = [cluster EXCEPT !.status = st]
    /\ lag' = IF st = cluster.status THEN lag ELSE lag \cup {"cluster"}

SecretMissing(st) ==
    [st EXCEPT !.reconciling = "True", !.catalogReady = "False",
               !.ready = "False"]

PausedStatus(st) == [st EXCEPT !.reconciling = "True", !.ready = "False"]

\* A paused cluster only gets its Ready condition; the update carries the
\* resourceVersion that was read, so it fails if the cache is behind.
ReconcilePaused ==
    /\ Dequeue
    /\ clusterCache.spec.paused
    /\ \/ /\ "cluster" \notin lag
          /\ WriteStatus(PausedStatus(clusterCache.status))
          /\ queued' = FALSE
       \/ /\ "cluster" \in lag
          /\ queued' = TRUE
          /\ UNCHANGED <<cluster, lag>>
    /\ UNCHANGED <<clusterCache, jobVars, deploymentVars, pc, snap, hash,
                   worldVars, budget>>

\* reconcileDependencies without the catalog secret: report it, try again.
ReconcileSecretMissing ==
    /\ Dequeue
    /\ ~clusterCache.spec.paused
    /\ ~secret.present
    /\ \/ /\ "cluster" \notin lag
          /\ WriteStatus(SecretMissing(clusterCache.status))
       \/ /\ "cluster" \in lag
          /\ UNCHANGED <<cluster, lag>>
    /\ queued' = TRUE
    /\ UNCHANGED <<clusterCache, jobVars, deploymentVars, pc, snap, hash,
                   worldVars, budget>>

\* The first pass over a cluster records its version as already deployed.
RecordUpgrade(st, v) ==
    IF st.phase = "None"
    THEN [st EXCEPT !.phase = "Complete", !.toVersion = v]
    ELSE st

\* A version other than the recorded one starts an upgrade, unless one is in
\* progress or a backup fences it.
DetectUpgrade(st, v, backup) ==
    IF ~backup /\ st.phase = "Complete" /\ st.toVersion # v
    THEN [st EXCEPT !.phase = "Waiting", !.toVersion = v]
    ELSE st

\* Reconcile up to the switch on the upgrade phase.
StartReconcile ==
    /\ Dequeue
    /\ ~clusterCache.spec.paused
    /\ secret.present
    /\ LET v == clusterCache.spec.version
           st == [clusterCache.status EXCEPT !.reconciling = "True",
                                             !.catalogReady = "True"]
           detected == DetectUpgrade(RecordUpgrade(st, v), v,
                                     clusterCache.backup)
       IN /\ snap' = [clusterCache EXCEPT !.status = detected]
          /\ pc' = IF ~clusterCache.backup /\ Upgrading(detected)
                   THEN "upgrade"
                   ELSE "init"
    /\ hash' = secret.revision
    /\ queued' = FALSE
    /\ UNCHANGED <<clusterVars, jobVars, deploymentVars, lag, worldVars,
                   budget>>

-----------------------------------------------------------------------------
(* The controller: jobs and deployments *)

\* Mutation of JobAfter: a failed job is left in place.
JobAfterNoRetry(j) == IF jobCache[j] = "absent" THEN "running" ELSE jobs[j]

\* Mutation of JobAfter: whatever is not complete is deleted.
JobAfterDeletesRunning(j) ==
    CASE jobCache[j] = "absent" -> "running"
      [] jobCache[j] \in {"failed", "running"} -> "absent"
      [] OTHER -> jobs[j]

\* reconcileJob: what one job is in the API server afterwards.  A job the
\* cache lacks is created, one it shows failed is deleted for a retry.
JobAfter(j) ==
    CASE jobCache[j] = "absent" -> "running"
      [] jobCache[j] = "failed" -> "absent"
      [] OTHER -> jobs[j]

\* Creating a job that the cache does not show yet fails: AlreadyExists.
JobError(j) == jobCache[j] = "absent" /\ jobs[j] # "absent"

InitJobName(i) == <<InitJobs[i], snap.spec.version>>

\* Mutation of InitJobsReady: deleting a failed job does not reset the flag.
InitJobsReadyAfterDelete ==
    \A i \in 1..Len(InitJobs) :
        jobCache[InitJobName(i)] \in {"complete", "failed"}

\* Mutation of InitJobsReady: a job just created is not counted as missing.
InitJobsReadyAfterCreate ==
    \A i \in 1..Len(InitJobs) :
        jobCache[InitJobName(i)] \in {"complete", "absent"}

InitJobsReady ==
    \A i \in 1..Len(InitJobs) : jobCache[InitJobName(i)] = "complete"

\* reconcileInitJobs gets through the first n of its jobs.
ReconcileInitJobs(n) ==
    LET done == {InitJobName(i) : i \in 1..n}
        after == [j \in JobNames |-> IF j \in done THEN JobAfter(j)
                                                   ELSE jobs[j]]
    IN /\ \A j \in done : ~JobError(j)
       /\ jobs' = after
       /\ lag' = IF after = jobs THEN lag ELSE lag \cup {"jobs"}

\* Mutation of TemplateDiffers: only the config hash is compared.
TemplateDiffersByHash(d) == d.hash # hash

\* The pod template of every component: image tag and config hash.
TemplateDiffers(d) == d.version # snap.spec.version \/ d.hash # hash

\* reconcileDeployment: create, or update if the template differs.  The update
\* carries the cached resourceVersion; a conflict is swallowed.
DeploymentAfter(c) ==
    LET cached == deploymentCache[c]
    IN CASE ~cached.exists -> NewDeployment(snap.spec.version, hash)
         [] cached.exists /\ TemplateDiffers(cached) /\ c \notin lag ->
              [cached EXCEPT !.version = snap.spec.version, !.hash = hash,
                             !.observed = FALSE]
         [] OTHER -> deployments[c]

\* AlreadyExists on create, NotFound on update.
DeploymentError(c) ==
    \/ ~deploymentCache[c].exists /\ deployments[c].exists
    \/ /\ deploymentCache[c].exists /\ TemplateDiffers(deploymentCache[c])
       /\ ~deployments[c].exists

\* The components cs are reconciled; the others are left alone.
ReconcileDeployments(cs) ==
    LET after == [c \in Components |-> IF c \in cs THEN DeploymentAfter(c)
                                                   ELSE deployments[c]]
    IN /\ \A c \in cs : ~DeploymentError(c)
       /\ deployments' = after
       /\ lag' = lag \cup {c \in Components : after[c] # deployments[c]}

FirstComponents(n) == {ComponentOrder[i] : i \in 1..n}

-----------------------------------------------------------------------------
(* The controller: the upgrade state machine *)

\* reconcileUpgrade runs the handler of the snapshot's phase.
AtPhase(p) == pc = "upgrade" /\ snap.status.phase = p

UpgradeStatus == [snap.status EXCEPT !.upgradeInProgress = "True"]

\* A handler that returns RequeueAfter > 0: save the status and return.
Park(st) == snap' = [snap EXCEPT !.status = st] /\ pc' = "park"

\* A handler that returns Requeue: true or an empty result.  Only
\* RequeueAfter > 0 ends the reconcile, so the standard reconciliation of init
\* jobs and components follows in the same call.
Continue(st) == snap' = [snap EXCEPT !.status = st] /\ pc' = "init"

\* Mutation of UpgradePhaseWaiting: the upgrade policy is not looked at.
UpgradePhaseWaitingAnyPolicy ==
    /\ AtPhase("Waiting")
    /\ \/ /\ HasWindow
          /\ Park(UpgradeStatus)
       \/ Continue([UpgradeStatus EXCEPT
                !.phase = IF snap.spec.maintenance THEN "StartMaintenance"
                                                   ELSE "Config"])
    /\ UNCHANGED <<clusterVars, jobVars, deploymentVars, lag, queued, hash,
                   worldVars, budget>>

\* The dependency gate of this phase cannot close: reconcileDependencies has
\* set both conditions to True in this very reconcile.
UpgradePhaseWaiting ==
    /\ AtPhase("Waiting")
    /\ \/ /\ snap.spec.upgradePolicy = "Manual"
          /\ Park(UpgradeStatus)
       \/ /\ snap.spec.upgradePolicy = "Automatic"
          /\ HasWindow    \* and the clock is outside the window
          /\ Park(UpgradeStatus)
       \/ /\ snap.spec.upgradePolicy = "Automatic"
          /\ Continue([UpgradeStatus EXCEPT
                !.phase = IF snap.spec.maintenance THEN "StartMaintenance"
                                                   ELSE "Config"])
    /\ UNCHANGED <<clusterVars, jobVars, deploymentVars, lag, queued, hash,
                   worldVars, budget>>

\* Mutation of UpgradePhaseBlocked: it resumes where it was blocked.
UpgradePhaseBlockedResumes ==
    /\ AtPhase("Blocked")
    /\ Continue([UpgradeStatus EXCEPT !.phase = "InitJobs",
                                      !.degraded = "False"])
    /\ UNCHANGED <<clusterVars, jobVars, deploymentVars, lag, queued, hash,
                   worldVars, budget>>

\* For the same reason a blocked upgrade is always unblocked.
UpgradePhaseBlocked ==
    /\ AtPhase("Blocked")
    /\ Continue([UpgradeStatus EXCEPT !.phase = "Waiting",
                                      !.degraded = "False"])
    /\ UNCHANGED <<clusterVars, jobVars, deploymentVars, lag, queued, hash,
                   worldVars, budget>>

UpgradePhaseConfig ==
    /\ AtPhase("Config")
    /\ Continue([UpgradeStatus EXCEPT !.phase = "InitJobs"])
    /\ UNCHANGED <<clusterVars, jobVars, deploymentVars, lag, queued, hash,
                   worldVars, budget>>

MaintenanceJob(p) ==
    <<IF p = "StartMaintenance" THEN "maintenance-start"
                                ELSE "maintenance-end", snap.spec.version>>

\* The status once the maintenance job of phase p has completed.
AfterMaintenance(p) ==
    IF p = "StartMaintenance"
    THEN [UpgradeStatus EXCEPT !.phase = "Config",
                               !.maintenanceMode = "Active"]
    ELSE [UpgradeStatus EXCEPT !.phase = "Complete",
                               !.maintenanceMode = "Complete",
                               !.upgradeInProgress = "False"]

CreateMaintenanceJob(p) ==
    LET j == MaintenanceJob(p)
    IN /\ AtPhase(p)
       /\ jobCache[j] = "absent"
       /\ \/ /\ jobs[j] = "absent"
             /\ jobs' = [jobs EXCEPT ![j] = "running"]
             /\ lag' = lag \cup {"jobs"}
             /\ Park([UpgradeStatus EXCEPT !.maintenanceMode =
                        IF p = "StartMaintenance" THEN "Starting"
                                                  ELSE "Ending"])
             /\ UNCHANGED <<queued, hash>>
          \/ /\ jobs[j] # "absent"
             /\ ReturnError
             /\ UNCHANGED <<jobs, lag>>
       /\ UNCHANGED <<clusterVars, jobCache, deploymentVars, worldVars,
                      budget>>

AwaitMaintenanceJob(p) ==
    /\ AtPhase(p)
    /\ \/ jobCache[MaintenanceJob(p)] = "running" /\ Park(UpgradeStatus)
       \/ /\ jobCache[MaintenanceJob(p)] = "complete"
          /\ Continue(AfterMaintenance(p))
    /\ UNCHANGED <<clusterVars, jobVars, deploymentVars, lag, queued, hash,
                   worldVars, budget>>

\* A failed job is deleted by name, so that the next reconcile makes another.
RetryMaintenanceJob(p) ==
    LET j == MaintenanceJob(p)
    IN /\ AtPhase(p)
       /\ jobCache[j] = "failed"
       /\ jobs' = [jobs EXCEPT ![j] = "absent"]
       /\ lag' = IF jobs[j] = "absent" THEN lag ELSE lag \cup {"jobs"}
       /\ Park([UpgradeStatus EXCEPT !.degraded = "True"])
       /\ UNCHANGED <<clusterVars, jobCache, deploymentVars, queued, hash,
                      worldVars, budget>>

UpgradePhaseMaintenanceJob ==
    \E p \in {"StartMaintenance", "EndMaintenance"} :
        \/ CreateMaintenanceJob(p)
        \/ AwaitMaintenanceJob(p)
        \/ RetryMaintenanceJob(p)

UpgradePhaseInitJobs ==
    /\ AtPhase("InitJobs")
    /\ ReconcileInitJobs(Len(InitJobs))
    /\ \/ /\ InitJobsReady
          /\ Continue([UpgradeStatus EXCEPT !.phase = "FlowAPI",
                                            !.initialized = "True"])
       \/ /\ ~InitJobsReady
          /\ snap' = [snap EXCEPT !.status = UpgradeStatus]
          /\ pc' = "check"
    /\ UNCHANGED <<clusterVars, jobCache, deploymentVars, queued, hash,
                   worldVars, budget>>

\* isJobFailed asks the cache again, after the failed jobs were deleted: the
\* upgrade is blocked only if the cache still shows one of them.
CheckInitJobs ==
    /\ pc = "check"
    /\ snap.status.phase = "InitJobs"
    /\ LET failed == \E i \in 1..Len(InitJobs) :
                        jobCache[InitJobName(i)] = "failed"
       IN Park([snap.status EXCEPT
                  !.phase = IF failed THEN "Blocked" ELSE "InitJobs",
                  !.initialized = "False"])
    /\ UNCHANGED <<clusterVars, jobVars, deploymentVars, lag, queued, hash,
                   worldVars, budget>>

\* The phases FlowAPI, PeerDBServer and UI: reconcile the component ...
UpgradePhaseComponent ==
    /\ pc = "upgrade"
    /\ snap.status.phase \in Components
    /\ ReconcileDeployments({snap.status.phase})
    /\ snap' = [snap EXCEPT !.status = UpgradeStatus]
    /\ pc' = "check"
    /\ UNCHANGED <<clusterVars, jobVars, deploymentCache, queued, hash,
                   worldVars, budget>>

\* Mutation of AfterRollout: the Go constant's suffix taken for its value.
AfterRolloutMisspelt(st, maintenance) ==
    [st EXCEPT !.phase = IF st.phase = "FlowAPI" THEN "Server" ELSE "UI"]

\* Mutation of AfterRollout: the last phase does not end UpgradeInProgress.
AfterRolloutKeepsCondition(st, maintenance) ==
    CASE st.phase = "FlowAPI" -> [st EXCEPT !.phase = "PeerDBServer"]
      [] st.phase = "PeerDBServer" -> [st EXCEPT !.phase = "UI"]
      [] st.phase = "UI" /\ maintenance ->
           [st EXCEPT !.phase = "EndMaintenance"]
      [] OTHER -> [st EXCEPT !.phase = "Complete"]

\* Mutation of AfterRollout: UI is always the last phase.
AfterRolloutSkipsEnd(st, maintenance) ==
    CASE st.phase = "FlowAPI" -> [st EXCEPT !.phase = "PeerDBServer"]
      [] st.phase = "PeerDBServer" -> [st EXCEPT !.phase = "UI"]
      [] OTHER -> [st EXCEPT !.phase = "Complete",
                             !.upgradeInProgress = "False"]

\* The status once the component of its phase is rolled out.
AfterRollout(st, maintenance) ==
    CASE st.phase = "FlowAPI" -> [st EXCEPT !.phase = "PeerDBServer"]
      [] st.phase = "PeerDBServer" -> [st EXCEPT !.phase = "UI"]
      [] st.phase = "UI" /\ maintenance ->
           [st EXCEPT !.phase = "EndMaintenance"]
      [] OTHER -> [st EXCEPT !.phase = "Complete",
                             !.upgradeInProgress = "False"]

\* ... then read it back from the cache and see whether it is rolled out.
CheckRollout ==
    /\ pc = "check"
    /\ snap.status.phase \in Components
    /\ LET d == deploymentCache[snap.status.phase]
       IN \/ /\ ~d.exists
             /\ ReturnError
          \/ /\ d.exists /\ ~RolledOut(d)
             /\ Park(snap.status)
             /\ UNCHANGED <<queued, hash>>
          \/ /\ d.exists /\ RolledOut(d)
             /\ Continue(AfterRollout(snap.status, snap.spec.maintenance))
             /\ UNCHANGED <<queued, hash>>
    /\ UNCHANGED <<clusterVars, jobVars, deploymentVars, lag, worldVars,
                   budget>>

-----------------------------------------------------------------------------
(* The controller: standard reconciliation *)

\* Mutation of ReconcileInitJobsAndStatus: the backup fence is not looked at.
ReconcileInitJobsUnfenced ==
    /\ pc = "init"
    /\ ReconcileInitJobs(Len(InitJobs))
    /\ snap' = [snap EXCEPT !.status.initialized = AsCondition(InitJobsReady)]
    /\ pc' = "components"
    /\ UNCHANGED <<clusterVars, jobCache, deploymentVars, queued, hash,
                   worldVars, budget>>

\* A backup skips the jobs, and they count as complete.
ReconcileInitJobsAndStatus ==
    /\ pc = "init"
    /\ \/ /\ snap.backup
          /\ UNCHANGED <<jobs, lag>>
       \/ /\ ~snap.backup
          /\ ReconcileInitJobs(Len(InitJobs))
    /\ snap' = [snap EXCEPT !.status.initialized =
                               AsCondition(snap.backup \/ InitJobsReady)]
    /\ pc' = "components"
    /\ UNCHANGED <<clusterVars, jobCache, deploymentVars, queued, hash,
                   worldVars, budget>>

\* Mutation of ComponentsReady: a deployment that exists counts as ready.
ComponentsReadyByExistence == \A c \in Components : deploymentCache[c].exists

\* With or without a backup a component counts as ready by its cached status,
\* read before the update that may start its next rollout.
ComponentsReady ==
    \A c \in Components : deploymentCache[c].exists /\ deploymentCache[c].ready

FinalConditions(st, backup, componentsReady) ==
    [st EXCEPT
       !.componentsReady = AsCondition(componentsReady),
       !.ready = AsCondition(st.initialized = "True" /\ componentsReady),
       !.backupSafe = CASE backup -> "BackupInProgress"
                        [] ~backup /\ (Upgrading(st) \/ ~componentsReady) ->
                             "BackupUnsafe"
                        [] OTHER -> "True",
       !.reconciling = "False"]

\* reconcileComponentsAndStatus and setFinalConditions.
ReconcileComponentsAndStatus ==
    /\ pc = "components"
    /\ \/ /\ snap.backup
          /\ UNCHANGED <<deployments, lag>>
       \/ /\ ~snap.backup
          /\ ReconcileDeployments(Components)
    /\ snap' = [snap EXCEPT !.status =
                    FinalConditions(@, snap.backup, ComponentsReady)]
    /\ pc' = "finish"
    /\ UNCHANGED <<clusterVars, jobVars, deploymentCache, queued, hash,
                   worldVars, budget>>

-----------------------------------------------------------------------------
(* The controller: saving the status, and failing *)

\* updateStatus reads the cluster again, from the cache, and puts the whole
\* computed status on what it finds.
StatusConflict == "cluster" \in lag /\ clusterCache.status # snap.status

UpdateStatus ==
    IF StatusConflict \/ clusterCache.status = snap.status
    THEN UNCHANGED <<cluster, lag>>
    ELSE WriteStatus(snap.status)

\* After a phase handler asked for a later reconcile.
SaveParked ==
    /\ pc = "park"
    /\ UpdateStatus
    /\ queued' = TRUE
    /\ Return
    /\ UNCHANGED <<clusterCache, jobVars, deploymentVars, worldVars, budget>>

\* At the end of Reconcile: requeue on conflict or if not everything is ready.
SaveFinal ==
    /\ pc = "finish"
    /\ UpdateStatus
    /\ queued' = (queued \/ StatusConflict \/ snap.status.ready # "True")
    /\ Return
    /\ UNCHANGED <<clusterCache, jobVars, deploymentVars, worldVars, budget>>

Spend(d) ==
    /\ budget[d] > 0 /\ budget["total"] > 0
    /\ budget' = [budget EXCEPT ![d] = @ - 1, !["total"] = @ - 1]

\* reconcileInitJobs stops after n jobs: a job cannot be created, or the API
\* server fails the request.
InitJobsFail ==
    /\ AtPhase("InitJobs") \/ (pc = "init" /\ ~snap.backup)
    /\ \E n \in 0..(Len(InitJobs) - 1) :
          /\ ReconcileInitJobs(n)
          /\ \/ JobError(InitJobName(n + 1)) /\ UNCHANGED budget
             \/ Spend("fault")
    /\ ReturnError
    /\ UNCHANGED <<clusterVars, jobCache, deploymentVars, worldVars>>

\* The same for the deployments of the standard reconciliation.
ComponentsFail ==
    /\ pc = "components" /\ ~snap.backup
    /\ \E n \in 0..2 :
          /\ ReconcileDeployments(FirstComponents(n))
          /\ \/ DeploymentError(ComponentOrder[n + 1]) /\ UNCHANGED budget
             \/ Spend("fault")
    /\ ReturnError
    /\ UNCHANGED <<clusterVars, jobVars, deploymentCache, worldVars>>

\* ... and for the one of an upgrade phase.
UpgradeComponentFails ==
    /\ pc = "upgrade"
    /\ snap.status.phase \in Components
    /\ DeploymentError(snap.status.phase)
    /\ ReturnError
    /\ UNCHANGED <<clusterVars, jobVars, deploymentVars, lag, worldVars,
                   budget>>

\* Any other request fails, or the operator is stopped and continued: the
\* reconcile ends where it is, without its status.  A new process begins with
\* caches it has just filled; here they stay as far behind as they were.
Fault ==
    /\ pc # "idle"
    /\ Spend("fault")
    /\ ReturnError
    /\ UNCHANGED <<clusterVars, jobVars, deploymentVars, lag, worldVars>>

-----------------------------------------------------------------------------
(* The environment: Kubernetes' own controllers (external) *)

\* What the run of a job does to the mirrors.
MirrorsAfter(j) ==
    CASE j[1] = "maintenance-start" -> "paused"
      [] j[1] = "maintenance-end" -> "running"
      [] OTHER -> mirrors

JobCompletes(j) ==
    /\ jobs[j] = "running"
    /\ jobs' = [jobs EXCEPT ![j] = "complete"]
    /\ mirrors' = MirrorsAfter(j)
    /\ lag' = lag \cup {"jobs"}
    /\ UNCHANGED <<clusterVars, jobCache, deploymentVars, secret, queued, pc,
                   snap, hash, approved, budget>>

\* A job that fails may or may not have had its effect.
JobFails(j) ==
    /\ jobs[j] = "running"
    /\ Spend("jobfail")
    /\ jobs' = [jobs EXCEPT ![j] = "failed"]
    /\ mirrors' \in {mirrors, MirrorsAfter(j)}
    /\ lag' = lag \cup {"jobs"}
    /\ UNCHANGED <<clusterVars, jobCache, deploymentVars, secret, queued, pc,
                   snap, hash, approved>>

\* A deployment's status changes.
DeploymentStatus(c, observed, updated, ready) ==
    /\ deployments' = [deployments EXCEPT ![c].observed = observed,
                                          ![c].updated = updated,
                                          ![c].ready = ready]
    /\ lag' = lag \cup {c}
    /\ UNCHANGED <<clusterVars, jobVars, deploymentCache, worldVars, queued,
                   pc, snap, hash>>

RolloutStarts(c) ==
    /\ c \in Slow
    /\ deployments[c].exists /\ ~deployments[c].observed
    /\ \E ready \in BOOLEAN : DeploymentStatus(c, TRUE, FALSE, ready)
    /\ UNCHANGED budget

RolloutEnds(c) ==
    /\ c \in Slow
    /\ deployments[c].exists /\ deployments[c].observed
    /\ ~deployments[c].updated
    /\ DeploymentStatus(c, TRUE, TRUE, TRUE)
    /\ UNCHANGED budget

\* The rollouts outside Slow end at once, before anything else happens.
Unfinished == {c \in Components \ Slow :
                 deployments[c].exists /\ ~RolledOut(deployments[c])}

PromptRollouts ==
    /\ Unfinished # {}
    /\ deployments' = [c \in Components |->
          IF c \in Unfinished
          THEN [deployments[c] EXCEPT !.observed = TRUE, !.updated = TRUE,
                                      !.ready = TRUE]
          ELSE deployments[c]]
    /\ lag' = lag \cup Unfinished
    /\ UNCHANGED <<clusterVars, jobVars, deploymentCache, worldVars, queued,
                   pc, snap, hash, budget>>

PodFails(c) ==
    /\ deployments[c].exists /\ RolledOut(deployments[c])
    /\ Spend("podfail")
    /\ DeploymentStatus(c, TRUE, FALSE, FALSE)

\* Somebody deletes a deployment the operator owns.
DeleteDeployment(c) ==
    /\ deployments[c].exists
    /\ Spend("drift")
    /\ deployments' = [deployments EXCEPT ![c] = NoDeployment]
    /\ lag' = lag \cup {c}
    /\ UNCHANGED <<clusterVars, jobVars, deploymentCache, worldVars, queued,
                   pc, snap, hash>>

-----------------------------------------------------------------------------
(* The environment: the user *)

UpgradeSettled ==
    /\ cluster.status.phase = "Complete"
    /\ cluster.status.toVersion = cluster.spec.version

EditCluster(new) ==
    /\ cluster' = new
    /\ lag' = lag \cup {"cluster"}
    /\ UNCHANGED <<clusterCache, jobVars, deploymentVars, queued, pc, snap,
                   hash, secret, mirrors>>

\* A version is approved when it stands in the spec with policy Automatic;
\* what is asked for before the first reconcile is an installation.
Approve(new) ==
    approved' = IF \/ new.spec.upgradePolicy = "Automatic"
                   \/ new.status.phase = "None"
                THEN approved \cup {new.spec.version}
                ELSE approved

SetVersion ==
    /\ Spend("version")
    /\ EditsMidUpgrade \/ UpgradeSettled
    /\ \E v \in Versions \ {cluster.spec.version} :
          /\ Rollbacks \/ v > cluster.spec.version
          /\ LET new == [cluster EXCEPT !.spec.version = v]
             IN EditCluster(new) /\ Approve(new)

SetPolicy ==
    /\ Spend("policy")
    /\ \E p \in UpgradePolicies \ {cluster.spec.upgradePolicy} :
          LET new == [cluster EXCEPT !.spec.upgradePolicy = p]
          IN EditCluster(new) /\ Approve(new)

SetMaintenance ==
    /\ Spend("maintenance")
    /\ EditsMidUpgrade \/ UpgradeSettled
    /\ EditCluster([cluster EXCEPT !.spec.maintenance = ~@])
    /\ UNCHANGED approved

SetPaused ==
    /\ Spend("paused")
    /\ EditCluster([cluster EXCEPT !.spec.paused = ~@])
    /\ UNCHANGED approved

\* The annotation of a backup tool is set or removed.
SetBackup ==
    /\ Spend("backup")
    /\ EditCluster([cluster EXCEPT !.backup = ~@])
    /\ UNCHANGED approved

\* The secret is deleted, created or rotated.  The controller does not watch
\* secrets: nothing is enqueued.
SetSecret ==
    /\ Spend("secret")
    /\ \/ secret.present /\ secret' = [secret EXCEPT !.present = FALSE]
       \/ secret' = [present |-> TRUE, revision |-> secret.revision + 1]
    /\ UNCHANGED <<clusterVars, jobVars, deploymentVars, lag, queued, pc,
                   snap, hash, mirrors, approved>>

-----------------------------------------------------------------------------

Reconcile ==
    \/ ReconcilePaused
    \/ ReconcileSecretMissing
    \/ StartReconcile
    \/ UpgradePhaseWaiting
    \/ UpgradePhaseBlocked
    \/ UpgradePhaseMaintenanceJob
    \/ UpgradePhaseConfig
    \/ UpgradePhaseInitJobs
    \/ CheckInitJobs
    \/ UpgradePhaseComponent
    \/ CheckRollout
    \/ ReconcileInitJobsAndStatus
    \/ ReconcileComponentsAndStatus
    \/ SaveParked
    \/ SaveFinal
    \/ InitJobsFail
    \/ ComponentsFail
    \/ UpgradeComponentFails

User ==
    \/ SetVersion
    \/ SetPolicy
    \/ SetMaintenance
    \/ SetPaused
    \/ SetBackup
    \/ SetSecret

Jobs == \E j \in JobNames : JobCompletes(j) \/ JobFails(j)

Rollouts == \E c \in Components : RolloutStarts(c) \/ RolloutEnds(c)

Drift == \E c \in Components : PodFails(c) \/ DeleteDeployment(c)

\* Nothing is pending that happens before anything else: a bound on the
\* schedules, waived by Slow = Components and Lagging = Informers.
Prompt ==
    Unfinished = {} /\ \A i \in Informers \ Lagging : ~Behind(i)

Next ==
    \/ PromptRollouts
    \/ Unfinished = {} /\ PromptInformers
    \/ Prompt /\ (\/ \E i \in Informers : LaggingInformer(i)
                  \/ Reconcile \/ Resync \/ Fault
                  \/ Jobs \/ Rollouts \/ Drift \/ User)

Spec == Init /\ [][Next]_vars

\* The work queue serves its key, the informers deliver, a job that does not
\* fail completes and a rollout that is not disturbed ends.  Fairness to an
\* informer that lags is strong: the guard Prompt is a bound of the model, and
\* its coming and going delays no delivery.  No fairness on Resync: ten hours
\* is no way to notice a change.
Fairness ==
    /\ WF_vars(Prompt /\ Reconcile)
    /\ WF_vars(PromptRollouts)
    /\ WF_vars(Unfinished = {} /\ PromptInformers)
    /\ SF_vars(Prompt /\ \E i \in Informers : LaggingInformer(i))
    /\ \A j \in JobNames : WF_vars(Prompt /\ JobCompletes(j))
    /\ \A c \in Components :
          WF_vars(Prompt /\ RolloutStarts(c)) /\ WF_vars(Prompt /\ RolloutEnds(c))

FairSpec == Spec /\ Fairness

-----------------------------------------------------------------------------
(* Properties *)

\* Every variable has its type: what Reconcile writes is a status, a job or a
\* deployment that the API types allow.
TypeOK ==
    /\ cluster \in ClusterObject
    /\ clusterCache \in ClusterObject
    /\ jobs \in [JobNames -> JobStates]
    /\ jobCache \in [JobNames -> JobStates]
    /\ deployments \in [Components -> Deployment]
    /\ deploymentCache \in [Components -> Deployment]
    /\ secret \in Secret
    /\ lag \subseteq {"cluster", "jobs"} \cup Components
    /\ queued \in BOOLEAN
    /\ pc \in Stages
    /\ snap \in ClusterObject
    /\ hash \in Nat
    /\ mirrors \in {"running", "paused"}
    /\ approved \subseteq Versions
    /\ budget \in [Disturbances -> Nat]

\* UpgradeInProgress is True exactly while status.upgrade is in a phase other
\* than Complete, whichever reconcile wrote the status last.
UpgradeConditionTracksPhase ==
    cluster.status.upgradeInProgress = "True" <=> Upgrading(cluster.status)

\* The controller creates, deletes or retemplates something.
Mutates ==
    \/ \E c \in Components :
          /\ deployments'[c].exists
          /\ \/ ~deployments[c].exists
             \/ deployments'[c].version # deployments[c].version
             \/ deployments'[c].hash # deployments[c].hash
    \/ \E j \in JobNames : (jobs[j] = "absent") # (jobs'[j] = "absent")

\* Once the operator has reported BackupInProgress for an annotation that is
\* still set, it mutates no deployment and no job until it is removed.
FenceAcknowledged ==
    [][cluster.backup /\ cluster.status.backupSafe = "BackupInProgress"
         => ~Mutates]_vars

\* A job is deleted only when it has really failed: reconcileJob and the
\* maintenance phases delete by name on what a cache that lags shows, yet
\* never hit the running or completed job of a retry.
OnlyFailedJobsAreDeleted ==
    [][\A j \in JobNames :
          jobs[j] \in {"running", "complete"} => jobs'[j] # "absent"]_vars

\* An upgrade past its InitJobs phase has run all init jobs of its version.
InitJobsPrecedeRollout ==
    cluster.status.phase \in Components \cup {"EndMaintenance"} =>
        \A i \in 1..Len(InitJobs) :
            jobs[<<InitJobs[i], cluster.status.toVersion>>] = "complete"

\* Initialized=True says that the init jobs of some version have completed.
InitializedMeansJobsRan ==
    cluster.status.initialized = "True" =>
        \E v \in Versions : \A i \in 1..Len(InitJobs) :
            jobs[<<InitJobs[i], v>>] = "complete"

\* From Config to UI of an upgrade with maintenance the mirrors are paused,
\* and they run again when the upgrade is Complete.
MaintenanceBracketsUpgrade ==
    /\ cluster.status.phase \in {"Config", "InitJobs"} \cup Components
         /\ cluster.spec.maintenance => mirrors = "paused"
    /\ cluster.status.phase = "Complete" => mirrors = "running"

\* MaintenanceMode=False with reason MaintenanceComplete and an upgrade that is
\* Complete say that the mirrors were resumed.
MaintenanceCompleteMeansResumed ==
    cluster.status.phase = "Complete"
      /\ cluster.status.maintenanceMode = "Complete" => mirrors = "running"

\* With maintenance configured, no deployment gets a new version before the
\* mirrors are paused.
MirrorsPausedBeforeRestart ==
    [][\A c \in Components :
          /\ deployments[c].exists /\ deployments'[c].exists
          /\ deployments'[c].version # deployments[c].version
          /\ snap.spec.maintenance
          => mirrors = "paused"]_vars

\* BackupSafe=True is published only when every deployment that exists has
\* finished its rollout.
BackupSafePublishedWhenQuiet ==
    [][/\ cluster'.status # cluster.status
       /\ cluster'.status.backupSafe = "True"
       => \A c \in Components :
              deployments[c].exists => RolledOut(deployments[c])]_vars

\* No deployment carries a version that was never asked for with policy
\* Automatic.
ManualUpgradesAreApproved ==
    \A c \in Components :
        deployments[c].exists => deployments[c].version \in approved

\* The controller sleeps: no reconcile is under way or queued, and no event is
\* on its way that would queue one.
AtRest == pc = "idle" /\ ~queued /\ lag = {}

\* The controller does not go to sleep before the cluster is what its spec
\* says, in objects and in status.  A conflict on a deployment's update is
\* swallowed, the rollout gate reads a cache that may show the rollout before,
\* and so phases pass, up to Complete, with templates that are still old;
\* somebody deletes a deployment behind a reconcile's back; the version is
\* changed in the middle.  Whatever a reconcile missed wakes it again.
DeployedAtRest ==
    AtRest /\ ~cluster.spec.paused /\ ~cluster.backup =>
        /\ UpgradeSettled
        /\ cluster.status.ready = "True"
        /\ \A c \in Components :
              deployments[c].exists /\ deployments[c].version = cluster.spec.version

\* BackupSafe is published too early at times (BackupSafePublishedWhenQuiet),
\* but it does not stay behind what is to be seen: whenever the controller
\* sleeps, a backup that has been announced is acknowledged; otherwise
\* BackupSafe is True, so that a tool that waits for it is not left waiting,
\* with no upgrade under way and no deployment missing or short of replicas.
\* (A rollout that Kubernetes has not begun yet is not to be seen.)
BackupSafeAtRest ==
    AtRest /\ ~cluster.spec.paused =>
        \/ /\ cluster.backup
           /\ cluster.status.backupSafe = "BackupInProgress"
        \/ /\ ~cluster.backup
           /\ cluster.status.backupSafe = "True"
           /\ ~Upgrading(cluster.status)
           /\ \A c \in Components :
                 deployments[c].exists /\ deployments[c].ready

\* Nothing keeps the operator from acting.
Unobstructed ==
    /\ ~cluster.spec.paused /\ ~cluster.backup
    /\ cluster.spec.upgradePolicy = "Automatic"
    /\ secret.present

\* The cluster runs the version its spec names, and its status says so.  (Not
\* the config hash: nothing wakes the controller when a secret is rotated.  Not
\* the mirrors: MaintenanceCompleteMeansResumed is violated.)
Converged ==
    /\ UpgradeSettled
    /\ cluster.status.ready = "True"
    /\ \A c \in Components :
          /\ deployments[c].exists /\ RolledOut(deployments[c])
          /\ deployments[c].version = cluster.spec.version

\* If in the end nothing keeps the operator from acting, the cluster ends up
\* running the version its spec names, without the periodic resync: a job or a
\* pod that failed, a pause, a backup, a missing secret, a reconcile that
\* stopped halfway and a maintenance setting changed in the middle leave
\* nothing undone, with job events that come late.
Converges == <>[]Unobstructed => <>[]Converged

=============================================================================
