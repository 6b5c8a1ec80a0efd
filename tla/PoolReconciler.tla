--------------------------- MODULE PoolReconciler ---------------------------
(***************************************************************************)
(* The controllers of the worker pools and of the snapshot pools            *)
(* (internal/controller/peerdbworkerpool_controller.go and                  *)
(* peerdbsnapshotpool_controller.go).  They share one control flow: read    *)
(* the pool and the PeerDBCluster it refers to, create or update one        *)
(* workload (a Deployment or a StatefulSet), publish its readiness.  Pools  *)
(* do not interact, so the module has one pool, of either kind.             *)
(*                                                                          *)
(* What sets them apart from the cluster's controller: they watch neither   *)
(* the cluster nor its secret; they always update the workload, because the *)
(* template read back has the API server's defaults and never equals the    *)
(* one just built; they return the conflict of an update; and they write    *)
(* the status on the copy of the pool they began with.                      *)
(*                                                                          *)
(* A change of the cluster or of its secret happens here when it reaches    *)
(* the informer's cache: until then nothing in this controller can tell.    *)
(*                                                                          *)
(* Left out: the pool's deletion (the first Get then returns, and           *)
(* Kubernetes collects what the pool owned), the version skew warning       *)
(* (an event), and the headless Service of a snapshot pool, which carries   *)
(* no control state: the errors of its writes are among the faults.         *)
(***************************************************************************)
EXTENDS PeerDBCluster

CONSTANTS
    MaxReplicas,     \* bound on spec.replicas
    InitialPools,    \* kind, autoscaling and replicas a pool may begin with
    MaxDisturbances  \* bound on edits, failures and drift, all together

ASSUME PoolAssumption ==
    /\ MaxReplicas \in Nat
    /\ InitialPools \subseteq [kind: {"worker", "snapshot"},
                              autoscaling: BOOLEAN, replicas: 0..MaxReplicas]
    /\ \A p \in InitialPools : p.autoscaling => p.kind = "worker"
    /\ MaxDisturbances \in Nat

VARIABLES
    kind,            \* "worker" or "snapshot"
    autoscaling,     \* spec.autoscaling.enabled of a worker pool
    cluster,         \* its PeerDBCluster, as the informer's cache shows it
    secret,          \* what the hash sees of the catalog secret, as a number
    pool,            \* the pool object in the API server
    workload,        \* its Deployment or StatefulSet
    poolCache, workloadCache,   \* the informers' copies
    lag,             \* objects whose last change has not reached the cache
    queued,          \* the pool's key is in the work queue
    pc,              \* stage of the reconcile in flight
    snap,            \* what it has read, and the status it will write
    budget,          \* disturbances left
    touched          \* history: others wrote the workload, or a fence was up

caches == <<poolCache, workloadCache>>
fixed == <<kind, autoscaling>>
control == <<queued, pc, snap>>
vars == <<kind, autoscaling, cluster, secret, pool, workload, poolCache,
          workloadCache, lag, queued, pc, snap, budget, touched>>

-----------------------------------------------------------------------------
(* Objects *)

Replicas == 0..MaxReplicas

ReferencedCluster == [exists: BOOLEAN, version: Versions, backup: BOOLEAN]

\* The Ready condition: unset, True, or False by its reason.
ReadyReasons == {"Unset", "True", "ClusterNotFound", "Created", "NotReady"}

PoolStatus == [observed: Nat, ready: ReadyReasons,
               replicas: Replicas, readyReplicas: Replicas]

\* pinned: spec.image is set, so the cluster's version does not matter.
Pool == [generation: Nat, replicas: Replicas, pinned: BOOLEAN,
         status: PoolStatus]

\* version, hash and replicas are its spec, current and ready its status;
\* rollout: how far Kubernetes has come with what the spec asks for.
Workload == [exists: BOOLEAN, version: Versions \cup {NoVersion}, hash: Nat,
             replicas: Replicas, current: Replicas, ready: Replicas,
             rollout: {"pending", "started", "done"}]

NoWorkload ==
    [exists |-> FALSE, version |-> NoVersion, hash |-> 0, replicas |-> 0,
     current |-> 0, ready |-> 0, rollout |-> "pending"]

\* read: the pool object as read; stale: its resourceVersion was old then.
Snapshot == [read: Pool, stale: BOOLEAN, cluster: ReferencedCluster,
             hash: Nat, status: PoolStatus]

Stages == {"idle", "apply", "save", "saveLogged"}

NewPool(n) ==
    [generation |-> 1, replicas |-> n, pinned |-> FALSE,
     status |-> [observed |-> 0, ready |-> "Unset",
                 replicas |-> 0, readyReplicas |-> 0]]

NewReferenced ==
    [exists |-> TRUE, version |-> InitialVersion, backup |-> FALSE]

\* Between reconciles.
NoSnapshot ==
    [read |-> NewPool(0), stale |-> FALSE, cluster |-> NewReferenced,
     hash |-> 0, status |-> NewPool(0).status]

Init ==
    /\ \E p \in InitialPools :
          /\ kind = p.kind /\ autoscaling = p.autoscaling
          /\ pool = NewPool(p.replicas)
    /\ cluster = NewReferenced
    /\ secret = 1
    /\ workload = NoWorkload
    /\ poolCache = pool /\ workloadCache = workload
    /\ lag = {}
    /\ queued = TRUE
    /\ pc = "idle"
    /\ snap = NoSnapshot
    /\ budget = MaxDisturbances
    /\ touched = FALSE

Spend == budget > 0 /\ budget' = budget - 1

bounds == <<budget, touched>>

\* Workload w with another spec; if it differs, a rollout has to follow.
AskFor(w, v, h, n) ==
    LET new == [w EXCEPT !.version = v, !.hash = h, !.replicas = n]
    IN IF new = w THEN w ELSE [new EXCEPT !.rollout = "pending"]

-----------------------------------------------------------------------------
(* What the code builds and decides *)

\* The image of the built template: the pool's own, or by cluster version.
ImageVersion == IF snap.read.pinned THEN NoVersion ELSE snap.cluster.version

\* BuildFlowWorkerDeployment, BuildSnapshotWorkerStatefulSet, as created.
Built ==
    [NoWorkload EXCEPT !.exists = TRUE, !.version = ImageVersion,
                       !.hash = snap.hash, !.replicas = snap.read.replicas]

\* Mutation of Updated: the config hash annotation is not updated.
UpdatedWithoutHash(w) ==
    AskFor(w, ImageVersion, w.hash,
           IF autoscaling THEN w.replicas ELSE snap.read.replicas)

\* The existing workload with the built template, and with the built number
\* of replicas unless an autoscaler looks after it.
Updated(w) ==
    AskFor(w, ImageVersion, snap.hash,
           IF autoscaling THEN w.replicas ELSE snap.read.replicas)

\* Mutation of NeedsUpdate: only what the operator sets is compared.
NeedsUpdateByFields == Updated(workloadCache) # workloadCache

\* needsUpdate: the templates differ at least in the API server's defaults.
NeedsUpdate == TRUE

\* The backup annotation keeps an existing workload as it is.
Fenced == snap.cluster.backup

IsReady(w) ==
    IF kind = "worker" THEN w.ready > 0 /\ w.ready = w.current
    ELSE snap.read.replicas = 0 \/ w.ready = snap.read.replicas

\* Mutation of StatusFrom: the condition's type taken for its status.
StatusFromMisspelt(w) ==
    [observed |-> snap.read.generation,
     ready |-> IF IsReady(w) THEN "Ready" ELSE "NotReady",
     replicas |-> w.current, readyReplicas |-> w.ready]

\* The status computed from workload w.
StatusFrom(w) ==
    [observed |-> snap.read.generation,
     ready |-> IF IsReady(w) THEN "True" ELSE "NotReady",
     replicas |-> w.current, readyReplicas |-> w.ready]

-----------------------------------------------------------------------------
(* Reconcile *)

\* The pool, the cluster and the hash of its configuration are read.
StartReconcile ==
    /\ pc = "idle" /\ queued
    /\ queued' = FALSE
    /\ snap' = [read |-> poolCache, stale |-> "pool" \in lag,
                cluster |-> cluster, hash |-> secret,
                status |-> IF cluster.exists THEN poolCache.status
                           ELSE [poolCache.status EXCEPT
                                    !.observed = poolCache.generation,
                                    !.ready = "ClusterNotFound"]]
    /\ pc' = IF cluster.exists THEN "apply" ELSE "saveLogged"
    /\ UNCHANGED <<fixed, cluster, secret, pool, workload, caches, lag,
                   bounds>>

Return == pc' = "idle" /\ snap' = NoSnapshot

\* An error: the rate limiter queues the pool again.
ReturnError == Return /\ queued' = TRUE

\* A write that changes nothing makes no new revision and no event.
WriteWorkload(w) ==
    /\ workload' = w
    /\ lag' = IF w = workload THEN lag ELSE lag \cup {"workload"}

\* The cache shows no workload: it is created, fence or not.
CreateWorkload ==
    /\ pc = "apply" /\ ~workloadCache.exists
    /\ \/ /\ workload.exists                    \* AlreadyExists
          /\ ReturnError
          /\ UNCHANGED <<workload, lag>>
       \/ /\ ~workload.exists
          /\ WriteWorkload(Built)
          /\ snap' = [snap EXCEPT !.status.observed = snap.read.generation,
                                  !.status.ready = "Created"]
          /\ pc' = "saveLogged"
          /\ UNCHANGED queued
    /\ UNCHANGED <<fixed, cluster, secret, pool, caches, bounds>>

\* The cache shows a workload: it is updated, unless the cluster is fenced.
UpdateWorkload ==
    /\ pc = "apply" /\ workloadCache.exists
    /\ \/ /\ ~Fenced /\ NeedsUpdate /\ "workload" \in lag
          /\ ReturnError                           \* Conflict or NotFound
          /\ UNCHANGED <<workload, lag>>
       \/ /\ ~Fenced /\ NeedsUpdate /\ "workload" \notin lag
          /\ WriteWorkload(Updated(workload))
          /\ snap' = [snap EXCEPT !.status = StatusFrom(workload)]
          /\ pc' = "save"
          /\ UNCHANGED queued
       \/ /\ Fenced \/ ~NeedsUpdate
          /\ snap' = [snap EXCEPT !.status = StatusFrom(workloadCache)]
          /\ pc' = "save"
          /\ UNCHANGED <<workload, lag, queued>>
    /\ UNCHANGED <<fixed, cluster, secret, pool, caches, bounds>>

\* Status().Update carries the resourceVersion of the pool as it was read.
StatusConflict == snap.stale \/ pool # snap.read

UpdateStatus ==
    IF StatusConflict \/ pool.status = snap.status
    THEN UNCHANGED <<pool, lag>>
    ELSE /\ pool' = [pool EXCEPT !.status = snap.status]
         /\ lag' = lag \cup {"pool"}

\* The status is written if it changed; a conflict is returned.  A pool that
\* is not ready is looked at again after ten seconds.
SaveStatus ==
    /\ pc = "save"
    /\ \/ snap.status = snap.read.status /\ UNCHANGED <<pool, lag>>
       \/ snap.status # snap.read.status /\ UpdateStatus
    /\ queued' = (\/ queued
                  \/ snap.status # snap.read.status /\ StatusConflict
                  \/ snap.status.ready # "True")
    /\ Return
    /\ UNCHANGED <<fixed, cluster, secret, workload, caches, bounds>>

\* After a creation, or without a cluster, an error is only logged, and the
\* pool is looked at again after 5 or 30 seconds.
SaveStatusLogged ==
    /\ pc = "saveLogged"
    /\ UpdateStatus
    /\ queued' = TRUE
    /\ Return
    /\ UNCHANGED <<fixed, cluster, secret, workload, caches, bounds>>

\* A request fails, or the operator stops and another one takes over.
Fault ==
    /\ pc # "idle"
    /\ Spend
    /\ ReturnError
    /\ UNCHANGED <<fixed, cluster, secret, pool, workload, caches, lag,
                   touched>>

Reconcile ==
    \/ StartReconcile \/ CreateWorkload \/ UpdateWorkload
    \/ SaveStatus \/ SaveStatusLogged

-----------------------------------------------------------------------------
(* Informers and work queue (external) *)

\* Mutation of Enqueuing: the controller does not own the workload.
EnqueuingPools == {"pool"}

\* Events on the pool and on the workload it owns enqueue the pool.
Enqueuing == {"pool", "workload"}

Deliver(o) ==
    /\ o \in lag
    /\ lag' = lag \ {o}
    /\ poolCache' = IF o = "pool" THEN pool ELSE poolCache
    /\ workloadCache' = IF o = "workload" THEN workload ELSE workloadCache
    /\ queued' = (queued \/ o \in Enqueuing)
    /\ UNCHANGED <<fixed, cluster, secret, pool, workload, pc, snap, bounds>>

\* The informers deliver everything again, by default every ten hours.
Resync ==
    /\ ~queued
    /\ queued' = TRUE
    /\ UNCHANGED <<fixed, cluster, secret, pool, workload, caches, lag, pc,
                   snap, bounds>>

-----------------------------------------------------------------------------
(* The workload's controller, the autoscaler, and the user (external) *)

\* Somebody other than the operator writes the workload.
WorkloadBecomes(w) ==
    /\ w # workload
    /\ workload' = w
    /\ lag' = lag \cup {"workload"}
    /\ UNCHANGED <<fixed, cluster, secret, pool, caches, control>>

\* Pods are replaced, added or removed; meanwhile any number may be ready.
RolloutStarts ==
    /\ workload.exists /\ workload.rollout = "pending"
    /\ \E n \in 0..workload.replicas :
          WorkloadBecomes([workload EXCEPT !.current = workload.replicas,
                                           !.ready = n, !.rollout = "started"])
    /\ UNCHANGED bounds

RolloutEnds ==
    /\ workload.rollout = "started"
    /\ WorkloadBecomes([workload EXCEPT !.ready = workload.replicas,
                                        !.rollout = "done"])
    /\ UNCHANGED bounds

PodFails ==
    /\ workload.rollout = "done" /\ workload.ready > 0
    /\ Spend /\ UNCHANGED touched
    /\ WorkloadBecomes([workload EXCEPT !.ready = @ - 1, !.rollout = "started"])

Scaled(n) == AskFor(workload, workload.version, workload.hash, n)

Autoscale ==
    /\ autoscaling /\ workload.exists
    /\ Spend /\ touched' = TRUE
    /\ \E n \in Replicas \ {0} : WorkloadBecomes(Scaled(n))

\* Somebody deletes the workload behind the operator's back, or stops it.
Drift ==
    /\ workload.exists
    /\ Spend /\ touched' = TRUE
    /\ WorkloadBecomes(NoWorkload) \/ WorkloadBecomes(Scaled(0))

EditPool ==
    /\ Spend /\ UNCHANGED touched
    /\ \/ \E n \in Replicas \ {pool.replicas} :
             pool' = [pool EXCEPT !.generation = @ + 1, !.replicas = n]
       \/ pool' = [pool EXCEPT !.generation = @ + 1, !.pinned = ~@]
    /\ lag' = lag \cup {"pool"}
    /\ UNCHANGED <<fixed, cluster, secret, workload, caches, control>>

ClusterBecomes(c) ==
    /\ cluster' = c
    /\ UNCHANGED <<fixed, secret, pool, workload, caches, lag, control>>

EditCluster ==
    /\ Spend
    /\ \/ /\ \E v \in Versions \ {cluster.version} :
                ClusterBecomes([cluster EXCEPT !.version = v])
          /\ UNCHANGED touched
       \/ /\ ClusterBecomes([cluster EXCEPT !.backup = ~@])
          /\ touched' = TRUE
       \/ /\ ClusterBecomes([cluster EXCEPT !.exists = ~@])
          /\ UNCHANGED touched

\* The secret is rotated, deleted or created: the hash is another one.
SetSecret ==
    /\ Spend /\ UNCHANGED touched
    /\ secret' = secret + 1
    /\ UNCHANGED <<fixed, cluster, pool, workload, caches, lag, control>>

-----------------------------------------------------------------------------

Kubernetes == RolloutStarts \/ RolloutEnds \/ PodFails \/ Autoscale

User == Drift \/ EditPool \/ EditCluster \/ SetSecret

Next ==
    \/ Reconcile \/ Fault
    \/ \E o \in lag : Deliver(o)
    \/ Resync
    \/ Kubernetes
    \/ User

Spec == Init /\ [][Next]_vars

\* The work queue is served, the informers deliver, a rollout that is left
\* alone ends.  Fair to the resync too: nothing else brings a change of the
\* cluster or of the secret to a pool that is ready.
FairSpec ==
    /\ Spec
    /\ WF_vars(Reconcile)
    /\ WF_vars(\E o \in lag : Deliver(o))
    /\ WF_vars(RolloutStarts \/ RolloutEnds)
    /\ WF_vars(Resync)

-----------------------------------------------------------------------------
(* Properties *)

\* Every variable has its type, and a cache that is not behind equals the
\* object.
TypeOK ==
    /\ kind \in {"worker", "snapshot"} /\ autoscaling \in BOOLEAN
    /\ cluster \in ReferencedCluster
    /\ secret \in Nat
    /\ pool \in Pool /\ poolCache \in Pool
    /\ workload \in Workload /\ workloadCache \in Workload
    /\ "pool" \in lag \/ poolCache = pool
    /\ "workload" \in lag \/ workloadCache = workload
    /\ lag \subseteq {"pool", "workload"}
    /\ queued \in BOOLEAN /\ pc \in Stages
    /\ snap \in Snapshot
    /\ budget \in Nat /\ touched \in BOOLEAN

\* A pool that says Ready for its latest generation has a workload with that
\* generation's image and, unless it is autoscaled, its replicas: no reconcile
\* takes an outdated cache for proof that nothing has to be written.
ReadyMeansApplied ==
    /\ ~touched
    /\ pool.status.ready = "True" /\ pool.status.observed = pool.generation
    => /\ workload.exists
       /\ (workload.version = NoVersion) = pool.pinned
       /\ autoscaling \/ workload.replicas = pool.replicas

\* The controller sleeps: no reconcile is under way or queued, and no event is
\* on its way that would queue one.
AtRest == pc = "idle" /\ ~queued /\ lag = {}

\* What a pool publishes when its controller sleeps is the case: pods that fail,
\* an autoscaler, somebody who deletes the workload, a reconcile that fails or
\* loses its status to a conflict, each wakes it until the status is right.
\* Fenced or not, a pool has its workload, and the pods there are are ready;
\* a worker pool without any was scaled to zero.
ReportedAtRest ==
    AtRest =>
        /\ workload.exists
        /\ pool.status = [observed |-> pool.generation, ready |-> "True",
                          replicas |-> workload.current,
                          readyReplicas |-> workload.ready]
        /\ \/ kind = "worker" /\ workload.ready = workload.current
              /\ (workload.ready > 0 \/ workload.replicas = 0)
           \/ kind = "snapshot" /\ pool.replicas \in {0, workload.ready}

\* The workload is what the pool, its cluster and its secret ask for.
Applied ==
    /\ workload.exists /\ workload.rollout = "done"
    /\ workload.version = IF pool.pinned THEN NoVersion ELSE cluster.version
    /\ workload.hash = secret
    /\ autoscaling \/ workload.replicas = pool.replicas

\* The status says of the workload what is the case.  Whether a worker pool
\* scaled to zero is Ready is left open: the code says no, the API's
\* description of the condition suggests yes.
Reported ==
    /\ pool.status.observed = pool.generation
    /\ pool.status.readyReplicas = workload.replicas
    /\ kind = "snapshot" \/ workload.replicas > 0 =>
          pool.status.ready = "True"

\* If in the end the cluster is there and not fenced, the pool's workload
\* follows pool, cluster and secret for good, and the status says so.
PoolConverges ==
    <>[](cluster.exists /\ ~cluster.backup) => <>[](Applied /\ Reported)

=============================================================================
