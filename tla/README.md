# A TLA+ model of the PeerDB operator

The operator (`src/`) is a Kubernetes controller manager. It keeps a PeerDB
control plane (Flow API, PeerDB Server, UI) and its worker pools in the state
that three custom resources describe, runs the jobs that prepare Temporal, and
takes a cluster from one version to the next through an ordered upgrade with
optional approval, maintenance window, maintenance mode and backup fence.

This directory models the part of it where the difficulty is, the
`PeerDBCluster` controller and its upgrade state machine, together with
everything it races with: the API server, informer caches that lag, the Job and
Deployment controllers, PeerDB's own maintenance workflows, and the user. The
controllers of the worker and snapshot pools have a module of their own, and one
more module puts clusters and pools together behind the admission webhooks.

## Inventory

| Component | State it keeps | Operations | Interacts through |
|---|---|---|---|
| `PeerDBCluster` controller (`internal/controller/peerdbcluster_controller.go`) | none of its own: `status` of the cluster, Jobs, Deployments, Services, ConfigMap, ServiceAccount | `Reconcile`: paused check, dependencies, upgrade lifecycle, init jobs, components, final conditions, status update | reads through informer caches, writes to the API server, is enqueued by events on what it owns, by `RequeueAfter` and by errors |
| Upgrade state machine (same file, `reconcileUpgrade`) | `status.upgrade.{phase,toVersion}` and five conditions | one handler per phase | runs inside `Reconcile` on its copy of the cluster |
| Maintenance window (`isInMaintenanceWindow`) | none | decides from the clock | polled every 60 s from phase Waiting |
| Worker pool and snapshot pool controllers | status of their pool, a Deployment or StatefulSet, a Service | `Reconcile` | read the cluster object, but do not watch it |
| Admission webhooks (three) | none | defaults, validation of old against new object | called by the API server |
| Version skew (`version_skew.go`) | none | major.minor of a version or an image | webhooks and pools warn on a mismatch |
| Resource builders (`internal/resources`) | none | build desired objects, hash the configuration | called by the controllers |
| Metrics, `cmd/main.go`, generated code | gauges; none; none | wiring | |

What is hard here: every read may be stale, and a write is checked only against
the resourceVersion of what was read (deletes and creates not even that); a
reconcile may stop after any request; the status is saved last, from a copy
taken first; a phase that advances does not end the reconcile it advances in;
spec, annotation and secret change at any moment; jobs and rollouts finish, fail
and are observed in any order. `PROJECT.json` lists these as hazards, each at its
line.

What makes the components correct:

* controller: status conditions agree with each other and with the objects; no
  live job is deleted; the fence holds once it is acknowledged; the controller
  comes to rest on the spec without luck;
* upgrade: init jobs before rollouts, mirrors paused throughout and running
  afterwards, no unapproved version, no rest before everything is deployed;
* window: an upgrade starts inside it and does not miss it;
* pools: Ready speaks of the latest spec, the status is up to date when the
  controller rests, the workload follows pool, cluster and secret;
* webhooks: what they let in can be edited later, keeps the fields that cannot be
  changed underneath it, and does not stop pools and cluster from ending up on one
  release.

## Modules

| Module | What it is |
|---|---|
| `PeerDBCluster` | the custom resource: spec, annotation, status, conditions |
| `ClusterReconciler` | the controller, its caches and its environment; the properties |
| `MCClusterReconciler` | budgets and init job lists for TLC |
| `ClusterReconcilerProofs` | type correctness; deletion of jobs by name is safe |
| `UpgradeStatusProofs` | the status conditions track the upgrade phase |
| `InitJobsProofs` | how a step may change any of the copies of a cluster; upgrades and Initialized against the init jobs |
| `GateProofs` | the backup fence, manual approval, the maintenance bracket, what holds when the controller sleeps |
| `UpgradeProtocol` | the abstract specification: what status.upgrade promises to whoever watches it |
| `UpgradeHistory`, `MCUpgradeHistory` | ClusterReconciler with a history variable, and the refinement mapping |
| `UpgradeHistoryProofs` | ClusterReconciler implements UpgradeProtocol |
| `MaintenanceWindow` | the window, the clock and the requeue timer |
| `MaintenanceWindowProofs` | what is proved about the window |
| `PoolReconciler` | the controllers of both kinds of pool, their workload and their environment |
| `MCPoolReconciler` | the pools TLC begins with |
| `PoolReconcilerProofs` | what Ready says of a pool's workload; the status when the controller sleeps |
| `Fleet` | webhooks and version skew, the API server that calls them, a cluster with its pools, and the user |
| `MCFleet` | the manifests that are submitted |
| `FleetProofs` | what the webhooks let in, owners and their workloads, version skew |

### ClusterReconciler

State of the API server: `cluster`, `jobs` (keyed by kind and version, as the
names built in `internal/resources` are), `deployments`, `secret`. The informers'
copies: `clusterCache`, `jobCache`, `deploymentCache`, and `lag`, the objects whose
last change a cache has not seen; a write that carries the resourceVersion of a
cached object succeeds exactly when the object is not in `lag`. The controller:
`queued` (its work queue holds one key and one worker, `MaxConcurrentReconciles: 1`),
`pc`, `snap` (its copy of the cluster) and `hash`. The world: `mirrors`, running or
paused. History for properties: `approved`.

One call of `Reconcile` is several steps, so that everything else can happen
between them:

| Stage | Code | Actions |
|---|---|---|
| idle | up to the upgrade switch | `ReconcilePaused`, `ReconcileSecretMissing`, `StartReconcile` |
| upgrade | `reconcileUpgrade`, the handler of the phase | `UpgradePhaseWaiting`, `...Blocked`, `...MaintenanceJob`, `...Config`, `...InitJobs`, `...Component` |
| check | what a handler reads again after writing | `CheckInitJobs`, `CheckRollout` |
| init | `reconcileInitJobsAndStatus` | `ReconcileInitJobsAndStatus` |
| components | `reconcileComponentsAndStatus`, `setFinalConditions` | `ReconcileComponentsAndStatus` |
| park, finish | `updateStatus` and the result | `SaveParked`, `SaveFinal` |
| anywhere | an error, or the operator stopping | `InitJobsFail`, `ComponentsFail`, `UpgradeComponentFails`, `Fault` |

Within a stage the code touches each object once; reading a cache that may be
behind already covers every order of those reads with steps of others.

The environment actions (`JobCompletes`, `RolloutEnds`, `SetVersion`, ...) are
external code, modelled from how the operator uses it. A failing maintenance job
may or may not have had its effect on the mirrors. `SetVersion` may be confined to
moments when no upgrade is under way (`EditsMidUpgrade = FALSE`) and to increasing
versions (`Rollbacks = FALSE`): some guarantees need this, and the runs that expect
a violation show which.

Left out of the data: messages, events, metrics, timestamps, endpoints,
`observedGeneration`; `TemporalReady`, which the code only ever sets to True, so that
the dependency gates of Waiting and Blocked cannot close; image overrides and
replica counts of components; the contents of the ConfigMap. The config hash is
the revision of the secret. ServiceAccount, ConfigMap and Service writes appear as
the errors they return. Because timestamps are left out, a status that differs
from the stored one only in a transition time counts as equal; the code would
write it, or meet a conflict and requeue, without changing what the model tells
apart.

### UpgradeProtocol and UpgradeHistory

`UpgradeProtocol` has two variables, what status.upgrade says and what it said
before the last publication, and one action, `Publish`. What one reconcile may
publish after reading `u` is the set `Follows(u)`: `u` again, the next phase of
`PhasesAfter` towards the same target, the record of the installed version, or an
upgrade to another version that waits or has already passed its gate. The promise
is not that each publication follows from the last: the controller reads the
status from a cache, computes, and puts the result back whole, so a publication
may also follow from the one before the last and take the upgrade back a phase.
TLC refutes the protocol without that clause. It never follows from an older one,
because a write succeeds only when the cache is up to date.

`UpgradeHistory` adds the history variable `before` to `ClusterReconciler` (it is
written, never read) and maps `upgrade` to phase and toVersion of the stored
status; `ImplementsProtocol` is the protocol's `Spec` under that mapping.

### MaintenanceWindow

A waiting upgrade, the clock in ticks of a minute, the age of the requeue timer,
and `open`, how long the window has been open while the upgrade waited. Windows
have a start and an end among the minutes of the day and a zone that is absent,
known or unknown to `time.LoadLocation` (then UTC is used). `Shift` changes the
zone's offset, as summer time does. The API server's validation pattern admits
only HH:MM, so the parse errors of `isInMaintenanceWindow` cannot occur.
`ClusterReconciler` treats the window's answer as a free choice.

### PoolReconciler

The two pool controllers have one control flow, so the module has one pool that is
a worker pool (with or without autoscaling) or a snapshot pool; pools do not
interact. `pool` and `workload` are the API server's objects, `poolCache` and
`workloadCache` the informers' copies, `lag`, `queued`, `pc` and `snap` as above. A
reconcile is `StartReconcile` (pool, cluster, secret are read), `CreateWorkload` or
`UpdateWorkload`, and `SaveStatus` or, where the code only logs an error,
`SaveStatusLogged`.

Three things the code does differently from the cluster's controller matter here.
It compares the template it built with the one it reads back, which has the API
server's defaults and is never equal, so it always sends the update
(`NeedsUpdate`); the API server makes no new revision of an update that changes
nothing. It returns a conflict as an error. And it writes the status with the
resourceVersion of the copy it began with (`StatusConflict`). The cluster and the
secret are not watched: a change of theirs happens in the model when it reaches
the informer's cache and enqueues nothing.

Left out: deletion of a pool (it is in `Fleet`), events, metrics, the version skew
warning, the snapshot pool's Service except for its errors, and all of the template
but image and config hash.

### Fleet

The webhooks keep no state, but each judges one object at a time. `Default...` and
`Valid...` are their functions; `SubmitCluster` and `SubmitPool` are the API server
that defaults, validates and stores a manifest; `known` is the manager's cache of
the clusters, which the version skew check reads. Deleting and creating again under
the same name is possible, so objects have a uid and what the controllers make
(`planes`, `workloads`) an owner: the code finds these by name and updates them
whoever owns them, until `Collect`, the garbage collector, removes them.

A version is what it contains; an image also has the releases that can be read
behind the first colon of its reference, the first of which is the one the code's
expression finds (none in a digest). The code's comment speaks of the last colon;
the code takes the first, so that behind a registry's port a path with a dotted
number in it is read as the release. The instance has no such path.

The controllers are abstracted to what the other modules show of them: left alone,
they bring the control plane and a pool's workload to the spec (`Converges`,
`PoolConverges`), in any order, since a pool reads spec.version and not the phase of
the upgrade. So a pool rolls out a version that the cluster's upgrade still holds
back. `held` is the set of clusters whose upgrade a gate keeps from going on (policy
Manual, pause, a backup, a window that never comes, a missing secret, Blocked, a
maintenance job that keeps failing); `Hold` closes and opens it at any time. It takes
away the fairness of `RollOutControlPlane`, not the step itself, since some of the
gates stop only what has not begun. `FleetAgrees` says that a skew of pools and
control plane ends once the cluster is no longer held. While it is, workers and
control plane run different releases for as long as that takes, a Manual cluster
whose upgrade nobody approves for good: neither the controllers nor the webhooks
prevent it. That the controllers converge is an assumption of this module, so of an
unpinned pool `FleetAgrees` shows only that deletion, name reuse and stale reads do
not undo it.

`PatchImage` is the user of safe-upgrade.md:247, who patches the image of a pinned
pool after an upgrade. Simplifications: a pool's controller reads the pool itself
without delay, a write is admitted and stored in one step, and the defaults and CEL
rules of the CRD schema, which repeat some of the webhooks', are not there. Of a
StatefulSet's storage the model has the claim template. The volumes it led to
outlive the pool, and a pool created again under the name takes them over with
their old class; that is outside `WorkloadsMatchTheirOwners`. A workload that is
taken over by a pool of another cluster would be rejected by its immutable selector;
the model lets it be updated, which for the invariants is the harder case.

## Runs

Expected to pass:

| Run | Instance | Shows |
|---|---|---|
| `stale` | all three caches lag; two of an upgrade, failing jobs and a deleted deployment; 0.39 M states | the reconciler implements `UpgradeProtocol`; the types; `UpgradeInProgress` tracks the phase; when the controller sleeps, every deployment has the version of the spec; init jobs precede the rollout phases; only failed jobs are deleted |
| `faulty` | job cache lags; both init jobs; one upgrade, up to two failing jobs and two failing requests or stops, four disturbances in all; 1.6 M states | Initialized means the jobs ran; maintenance brackets the upgrade |
| `fence` | cluster cache lags; window; one upgrade, the policy changed twice, the annotation set and removed; 2.3 M states | no unapproved version; nothing is mutated once the fence is acknowledged |
| `converge` | job cache lags; UI rolls out slowly; edits mid-upgrade; any two of version, maintenance, pause, backup, secret, failing job, failing pod, failing request or stop; 0.9 M states | a cluster left alone converges, without the resync; `BackupSafe` agrees with annotation, upgrade and deployments whenever the controller sleeps |
| `window` | a day of 5 minutes of 2 ticks, a requeue up to 1 tick late, one change of the offset; 19 k states | an upgrade starts inside its window, does not overlook an open one, and starts at all |
| `pools` | a pool of each kind with up to two replicas, caches of pool and workload lag; any two of: edits of pool, cluster, fence or secret, the cluster deleted or created, the autoscaler, a workload deleted or scaled to zero by hand, a failing pod, a failing request or a stop; 1.4 M states | a pool that says Ready for its latest generation runs that generation's image and replicas; when the controller sleeps the status is that of the workload; the workload ends up as pool, cluster and secret ask, and the status says so |
| `fleet` | one cluster, a worker pool and a snapshot pool; three versions of two releases; any five submissions and deletions out of 18 manifests, some of them invalid; the cluster cache lags; the upgrade is held and released at any time; 1.3 M states | what is stored would be admitted again, but for a skewed image; a workload keeps the catalog, cluster and storage class of its owner; with a fresh cache only a write of the cluster brings a skew about; every pool of a cluster that is not held for good ends up on the release of its control plane |

Expected to fail, each a disagreement between the code and its documentation
(quoted in `PROJECT.json`):

| Run | Trace |
|---|---|
| `mirrors_paused_first` | the reconcile that sets StartMaintenance returns `Requeue: true`, which does not end it, and retemplates all deployments |
| `mirrors_resumed` | version changed in StartMaintenance: the abandoned start job completes after the new target's end job |
| `manual_gate` | version set under Manual while another upgrade is past Waiting: rolled out at once |
| `backup_safe` | a deployment with an empty status counts 0 of 0 replicas as ready: BackupSafe=True before its rollout |
| `rollback` | v1, v2, v1, v2: the completed start job of v2 is found again, mirrors are not paused |

More disagreements need no run of their own. A cluster that is first
reconciled under a backup fence gets Initialized=True with reason JobsCompleted
although no init job exists (`initReady := true` at line 288 of the controller, and
the jobs are skipped); `faulty` therefore checks `InitializedMeansJobsRan` without a
fence. A failed maintenance job sets Degraded=True (line
840) and only the way out of Blocked clears it (line 588), so it stays although the
retry succeeded and the upgrade completed; cluster-not-ready.md:139 says that it
"will clear automatically once all components are healthy". The webhooks' comment
"Version skew check on image change" stands over a check of every update: once the
cluster has moved on, a pinned pool cannot even be scaled until its image is
patched, which is why `StoredIsReadmissible` has its exception. The snapshot pool's
webhook admits a new storage.size that never reaches the StatefulSet, while
scaling-worker-pools.md:165 says that it cannot be changed. And the config hash is
said to change when "secrets change" (hash.go:12), but covers the catalog's only.

Four more concern what a status or a fence promises, and no property claims them:

* `BackupSafe=True` stands in phase Waiting, with `UpgradeInProgress=True` beside it,
  since nothing is written about BackupSafe before the upgrade acts; and it stands
  while the reconcile that leaves Waiting retemplates the deployments, whose status is
  saved last, and longer if that write fails. backup-awareness.md:21 and v1alpha1.md:374
  say True means that no upgrade is in progress. A paused cluster keeps saying what
  it said.
* With a deployment cache that stays behind, the old rollouts are shown as finished,
  the conflicts of the updates are swallowed (line 1067 of the controller), every
  rollout gate passes on the cached copy, and the upgrade is published as Complete with
  the old templates. safe-upgrade.md:76 says that each step completes before the next
  begins, :187 that Complete is an upgrade that finished. `DeployedAtRest` is what is
  left: the controller wakes and repairs it.
* The pools' fence is weaker than the documentation's. v1alpha1.md:381 and
  backup-awareness.md:78 promise that no Deployment or StatefulSet is mutated while the
  annotation is set. A pool's reconcile reads the annotation once, so that one already
  under way still updates its workload, and a missing workload is created fence or
  not. Pools acknowledge nothing, so a backup tool cannot know when they have seen it.
* A worker pool scaled to zero is never Ready, and is polled every ten seconds (line
  176 of its controller asks for a ready replica), a snapshot pool at zero always is.
  v1alpha1.md:387 says that Ready is True "when the desired number of replicas are
  available", and scaling-worker-pools.md:18 describes scaling to zero. `PoolConverges`
  and `ReportedAtRest` leave Ready open for such a pool.

`ReadyMeansApplied` rests on the update that is always sent. Were the code to
compare only what it sets, a pool scaled from 1 to 2 and back could find the
outdated cached workload as asked for, send nothing, and report Ready with two
replicas running; that is the mutation the run is tested with.

### Bounds

Two versions show an upgrade; three are needed only to redirect one (
`mirrors_resumed`, `manual_gate`). `Budget` bounds how often each disturbance
happens, and its entry `"total"` how many there are together; without disturbances
the system comes to rest. `Lagging` names the informers that may be behind when the
controller reads; the others deliver before the next step. `Slow` names the
deployments whose rollout takes time; the others finish at once. Each run opens
what its questions are about: stale deletes and status writes need the caches of
`stale`, failures need the faults of `faulty`. `Lagging = Informers` and
`Slow = Components` waive both restrictions. The theorems hold for every value of the
constants that their hypotheses allow.

`MaintenanceBracketsUpgrade` is checked with a fresh cluster cache only. With a
stale one a reconcile can write an older phase back over a newer one, and phase and
mirrors disagree until a later reconcile catches up; the conditions that `stale`
checks survive even that. `fence` has a stale cluster cache but only one upgrade, and an
annotation that is set and removed once; `faulty` has prompt caches of clusters and
deployments. `DeployedAtRest`, `BackupSafeAtRest` and `ReportedAtRest` need no such
bounds. Beyond these bounds TLC refutes the properties, as described under
"Where the hypotheses come from".

`Converges` is about the version. `converge` has one change of it, so that an upgrade
is not redirected there; a cache of jobs that lags, but prompt ones of cluster and
deployments. `Converged` leaves out the config hash, since nothing wakes the
controller when a secret is rotated, and the mirrors, which a redirected upgrade or
`spec.maintenance` removed in the middle (line 509) can leave paused for good.

In `pools`, two disturbances are what it takes to scale there and back, or to edit a
fenced pool; `touched` records that somebody else wrote the workload or that a
fence was up, since `ReadyMeansApplied` speaks of pools left to the operator.

In `fleet`, five requests are enough to create a cluster and a pinned pool, move the
cluster to the other release, and delete and create again one of them. The requests
contain a manifest for every reason of a rejection; those TLC finds never stored.

In `window`, five minutes give windows of every shape: empty, one minute, crossing
midnight or not; two ticks let a reconcile fall inside a minute.

### Fairness

`Fleet`'s fairness is to the cache, to the garbage collector, to the controllers
(what `PoolConverges` and, for a cluster that is not held, `Converges` establish) and
to `PatchImage`: the runbook asks
the user to patch pinned pools, and a user whose patch is rejected because the cache
is behind tries again. That the webhook cannot keep rejecting it is what `FleetAgrees`
shows. Users need not do anything else.

`FairSpec` assumes what Kubernetes and controller-runtime provide: the work queue
serves its key, each informer delivers, a job that does not fail completes, a
rollout that is not disturbed ends. Fairness to a lagging informer is strong,
because the guard `Prompt`, which lets the prompt informers go first, is a bound of
the model and not of the system: each status write disables it for a step, and a
lagging informer would otherwise be starved by a controller that keeps writing.
There is no fairness on `Resync` (ten hours) and none on any disturbance. In
`MaintenanceWindow` the clock runs and the requeue is served. `PoolReconciler` is
fair to `Resync` as well: a pool that is Ready is not requeued and does not watch its
cluster, so nothing but the resync (ten hours unless `--sync-period` says otherwise)
brings it a new version or the end of a fence. Without that fairness
`PoolConverges` is false, although backup-awareness.md says that removing the
annotation lets the operator "resume normal reconciliation immediately".

## Proofs

Every safety property of the passing runs, invariant or action property, is also a
theorem. TLAPS proves them for every value of the constants that satisfies the named
assumption of the module (`VersionsAssumption`, `ReconcilerAssumption`,
`WindowAssumption`, `PoolAssumption`, `FleetAssumption`, which say what the constants
are); some have hypotheses besides, stated in the theorem and listed below.

The cluster's controller:

* `TypeCorrect`: `Spec => []TypeOK`, with one lemma per group of actions.
* `DeletionIsSafe`: no running or completed job is ever deleted. The code deletes
  by name, on the state a cache shows, with no precondition. The inductive
  invariant is `FailedJobsAreGoneOrFailed`: a job that the cache shows failed is
  failed or gone in the API server. It holds because a job is created only when the
  cache shows it absent: between the deletion of a failed job and its replacement
  the cache must have caught up. If a job that is shown failed could be recreated
  without looking at the cache, the next stale reconcile would delete the retry.
* `UpgradeConditionIsRight`: what `UpgradeInProgress` says of the phase. It is not
  inductive: a reconcile in flight holds a copy of the status that it will write
  later, possibly over a newer one. The
  invariant `StatusInv` says the same of the cluster, of the cached cluster and,
  stage by stage, of the snapshot (which in the middle of a reconcile is allowed to
  differ until the handler or the final conditions have repaired it). Since every
  status that is ever written satisfies it on its own, lost updates cannot break
  it.
* `RefinesProtocol`: `HistorySpec => ImplementsProtocol`, the reconciler implements
  `UpgradeProtocol`. `HistoryInv` says that a cache which is not behind is the cluster,
  that the cached status is the published one or the one before it, that between the
  upgrade switch and the end of the handler the status in flight is one of these two
  or the upgrade just detected from it (`Derived`), and that from there on it is in
  `Follows` of one of them (`Ends`). A status is written only over a cluster that the
  cache shows as it is, so the status before the write is both the cached one and the
  new `before`: that is the step at which a longer history would otherwise be needed.
* `InitJobsComeFirst`: an upgrade past InitJobs has run the init jobs of its version;
  all caches may lag. `RanInv` relates the stored status, the cached one and the one in
  flight to the versions whose jobs have run: a copy that is behind may show an
  upgrade as begun that is over, but then its jobs have run, and a target other than
  the version now asked for is one of those. A completed job stays completed
  (`CompleteIsComplete`, from `DeletionIsSafe`'s invariant).
* `InitializedIsRight`: Initialized=True means that jobs ran, where there is no backup.
  Every copy of the status must satisfy it, since any of them may be written.
* `AcknowledgedFenceHolds`: no job or deployment is written once BackupSafe says
  BackupInProgress. `FenceInv`: whoever has seen the annotation has seen it in the
  cache, which does not go back while it is set, and a reconcile in flight when the
  backup is acknowledged began with it, because only one is in flight.
* `UpgradesAreApproved`: no deployment has an unapproved version. `AlignInv` says that
  an upgrade in progress, stored or in flight, is to the version of the spec, and that
  none is in flight when the stored one is settled; `ApprovedInv` that phases past
  Waiting have an approved target and a reconcile about to deploy an approved version.
* `RestIsDeployed` and `RestIsBackupSafe`: what holds when no reconcile is under way
  or queued and no event is on its way. Both without hypotheses: any cache may lag, the
  version may change at any time and in either direction, backups come and go.
  `RestInv` is about the stretches in which nothing has happened since the reconcile
  was begun (`Fresh`). In these a reconcile works on the cluster as it is; a phase
  handler that lets the standard reconciliation follow has moved the phase, so that
  saving the status is an event; and all deployments were updated without a conflict,
  since a conflict needs a cache that is behind, whose event is then still to come.
  So only a reconcile that found nothing to do lets the controller sleep.
* `MaintenanceIsBracketed`: mirrors are paused from Config to UI and run at Complete,
  with caches of jobs and deployments that lag, jobs that fail with or without their
  effect, and retries. `BracketInv` says for each version and each phase what its two
  maintenance jobs and the mirrors are (`JobsAtPhase`), for the stored status and for
  the one in flight, which is at most one phase ahead; no maintenance job of another
  version is running. It needs `RanInv` for versions that were never upgraded to.

The window:

* `WindowIsArc`: the comparison in `isInMaintenanceWindow`, with its case for
  midnight, is membership in the arc of the day from start to end.
  `NoEarlyStart`, `WindowIsNoticed` and `WindowTypeCorrect` follow, the second from
  the invariant that the window has been open no longer than since the last
  reconcile.

The pools:

* `PoolTypeCorrect`, and `GenerationsInOrder`: the generations known to the status, to
  the reconcile in flight, to the cache and to the API server are in this order, and
  where two are equal so are the specs.
* `ReadyIsRight`: Ready for the latest generation means applied. By the order of
  generations, a status that carries the latest one was computed from the latest spec;
  `AppliedInv` says that a reconcile which is about to save a ready status has left the
  workload as that spec asks. It holds because a reconcile always sends its update and
  gives up on a conflict.
* `RestIsReported`: the same argument for a pool. A reconcile during which nothing
  happened has seen the workload as it is; if the status it computed differs from the
  published one, saving it is an event, and otherwise the published one is right.

The fleet:

* `FleetTypeCorrect` and `StoredStaysAdmissible`: defaulting again changes nothing and
  validation of an object against itself succeeds. `AdmittedInv` carries what the
  webhooks require of one object (`Admitted`) through every sequence of requests; that
  defaulting is idempotent and keeps what is valid are lemmas about the functions.
* `WorkloadsStayWithTheirOwners`: a control plane or workload agrees with its owner on
  what cannot be changed. Names are reused and the cache may show the former cluster
  of a name, so `MatchInv` says that uids are fresh (`UidsInv`) and that, once the stored
  cluster owns a control plane, the cache never shows its predecessor again
  (`OwnersInv`).
* `PoolsNeverCauseSkew`: with a cache that is up to date no write of a pool brings a
  version skew about. Hypothesis: `TagsNameTheRelease`, the tags users pin name the
  release that the image contains. The webhook knows only the tag; the manifests of
  `fleet` satisfy this.

### Where the hypotheses come from

They are not conveniences of the proofs. Without them TLC finds counterexamples:

* `~EditsMidUpgrade` and `~Rollbacks`: the runs `manual_gate`, `mirrors_resumed` and
  `rollback`.
* `Budget["backup"] = 0` in `InitializedIsRight`: the fence that skips the init jobs.
* `Budget["backup"] <= 2` in `AcknowledgedFenceHolds`: one backup. When the annotation
  is removed and set again, a reconcile that began in between mutates while the
  status still shows the acknowledgement of the first backup.
* `"cluster" \notin Lagging` in `UpgradesAreApproved`: with two upgrades in a row, a
  reconcile that began from an old copy in phase UI writes this phase back after
  Complete was published and the user has set the next version with policy Manual;
  the upgrade is past its gate and the new version is rolled out. In
  `MaintenanceIsBracketed`: the phase taken back disagrees with the mirrors.

`DeletionIsSafe` and `RefinesProtocol` are about the caches of one process. An operator
that takes over starts from its own, which might be older than those of its
predecessor; `Fault`, a reconcile that stops, keeps the caches.

Only model-checked: `Converges`, `PoolConverges`, `UpgradeStarts` and `FleetAgrees`,
since liveness under fairness is beyond the prover.

## Not modelled, and plan

In this order:

1. An upgrade that is redirected under `Converges`, with the mirrors in `Converged`
   where `spec.maintenance` stays as it is.
2. Image overrides of components: a component with one keeps its image through an
   upgrade, and its phase passes as soon as the deployment is rolled out.

Not planned: metrics and logging (nothing reads them back), the manager's wiring
and leader election (controller-runtime), generated code, Helm charts and
manifests.
