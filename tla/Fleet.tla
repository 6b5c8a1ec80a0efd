------------------------------- MODULE Fleet -------------------------------
(***************************************************************************)
(* Clusters and the pools that refer to them, over the life of an           *)
(* installation: what the admission webhooks let into the API server        *)
(* (api/v1alpha1/*_webhook.go, version_skew.go) and what the controllers    *)
(* make of it.  The webhooks keep no state, but they judge one object at a  *)
(* time: a pool is checked against the cluster that the manager's cache     *)
(* shows at that moment, and a cluster against no pool at all.              *)
(*                                                                          *)
(* The controllers are abstracted to what ClusterReconciler and             *)
(* PoolReconciler show of them: left alone, they bring the control plane    *)
(* and the workload of a pool to what the spec asks for.  They do so in any *)
(* order, whatever phase the cluster's upgrade is in.  The control plane    *)
(* has gates of its own, which the pools do not have: while one of them is  *)
(* closed, nothing here promises that the control plane moves.              *)
(*                                                                          *)
(* Simplifications.  A write is admitted and stored in one step: a cluster  *)
(* that changes in between is a cache that is behind.  A field the webhooks *)
(* default and nothing else here reads is only set or unset.                *)
(***************************************************************************)
EXTENDS PeerDBCluster, Functions

CONSTANTS
    MajorMinor,       \* the release a version belongs to, Unparsed if unclear
    Images,           \* values of a pool's spec.image other than ""
    Clusters, Pools,  \* names
    ClusterRequests,  \* manifests users submit for a cluster
    PoolRequests,     \* and for each pool
    MaxEdits          \* bound on what users submit and delete

Unparsed == 0

\* version: what the image contains.  releases: the texts v?<n>.<m> that stand
\* behind the first colon of the reference, in order; none in a digest.
Image == [version: Versions, releases: Seq(Nat \ {0})]

\* spec.image = "".
NoImage == [version |-> NoVersion, releases |-> <<>>]

\* spec.clusterRef = "", dependencies.catalog.host = "", storageClassName nil.
Empty == ""

\* missing: required fields without a value; unset: fields to be defaulted.
ClusterManifest ==
    [version: Versions \cup {NoVersion}, host: STRING,
     missing: SUBSET {"passwordSecretRef", "temporal.address",
                      "temporal.namespace"},
     unset: SUBSET {"port", "sslMode", "serviceAccount", "replicas"}]

\* min = 0: autoscaling.minReplicas is not set.
PoolManifest ==
    [kind: {"worker", "snapshot"}, clusterRef: STRING,
     image: Image \cup {NoImage}, autoscaling: BOOLEAN, min: Nat, max: Nat,
     storageSize: Nat, storageClass: STRING,
     unset: SUBSET {"replicas", "targetCPU", "gracePeriod"}]

ASSUME FleetAssumption ==
    /\ MajorMinor \in [Versions -> Nat]
    /\ Images \subseteq Image
    /\ Clusters \subseteq STRING \ {Empty}
    /\ ClusterRequests \subseteq ClusterManifest
    /\ PoolRequests \in [Pools -> SUBSET PoolManifest]
    /\ \A p \in Pools : \A m, n \in PoolRequests[p] : m.kind = n.kind
    /\ MaxEdits \in Nat

VARIABLES
    clusters,    \* stored clusters: name -> uid and spec
    known,       \* the same in the manager's cache
    pools,       \* stored pools: name -> uid and spec
    planes,      \* control planes: cluster -> owner, version, catalog host
    workloads,   \* Deployments and StatefulSets of the pools
    held,        \* clusters whose upgrade something keeps from going on
    edits        \* what users have submitted or deleted so far

vars == <<clusters, known, pools, planes, workloads, held, edits>>

-----------------------------------------------------------------------------
(* Version skew *)

MajorMinorFromVersion(v) == MajorMinor[v]

\* The first match of the expression behind the first colon.
MajorMinorFromImage(i) ==
    IF i.releases = <<>> THEN Unparsed ELSE Head(i.releases)

\* validateVersionSkew: what cannot be parsed is let through.
VersionSkew(i, v) ==
    /\ MajorMinorFromVersion(v) # Unparsed
    /\ MajorMinorFromImage(i) # Unparsed
    /\ MajorMinorFromVersion(v) # MajorMinorFromImage(i)

-----------------------------------------------------------------------------
(* The webhooks *)

DefaultCluster(m) == [m EXCEPT !.unset = {}]

\* Mutation of ValidCluster: the version is taken for granted.
ValidClusterAnyVersion(m) == m.host # Empty /\ m.missing = {}

ValidCluster(m) ==
    m.version # NoVersion /\ m.host # Empty /\ m.missing = {}

ValidateClusterUpdate(old, new) == ValidCluster(new) /\ old.host = new.host

\* minReplicas and targetCPU get their defaults once autoscaling is enabled.
DefaultWorkerPool(m) ==
    [m EXCEPT !.unset = IF m.autoscaling THEN @ \ {"replicas", "targetCPU"}
                                         ELSE @ \ {"replicas"},
              !.min = IF m.autoscaling /\ @ = 0 THEN 1 ELSE @]

DefaultSnapshotPool(m) == [m EXCEPT !.unset = @ \ {"replicas", "gracePeriod"}]

DefaultPool(m) ==
    IF m.kind = "worker" THEN DefaultWorkerPool(m) ELSE DefaultSnapshotPool(m)

ValidWorkerPool(m) ==
    m.clusterRef # Empty /\ (m.autoscaling => m.min <= m.max)

ValidSnapshotPool(m) == m.clusterRef # Empty /\ m.storageSize # 0

ValidPool(m) ==
    IF m.kind = "worker" THEN ValidWorkerPool(m) ELSE ValidSnapshotPool(m)

\* The pinned image against the cluster that the cache shows; without one
\* there, nothing is checked.
SkewError(m) ==
    /\ m.image # NoImage
    /\ m.clusterRef \in DOMAIN known
    /\ VersionSkew(m.image, known[m.clusterRef].spec.version)

ValidatePoolCreate(m) == ValidPool(m) /\ ~SkewError(m)

\* Mutation of ValidateWorkerPoolUpdate: the image to be replaced has to fit.
ValidateWorkerPoolUpdateBoth(old, new) ==
    /\ ValidWorkerPool(new)
    /\ old.clusterRef = new.clusterRef
    /\ ~SkewError(new) /\ ~SkewError(old)

\* Mutation of ValidateWorkerPoolUpdate: the image is checked at creation only.
ValidateWorkerPoolUpdateAnyImage(old, new) ==
    ValidWorkerPool(new) /\ old.clusterRef = new.clusterRef

\* The image is checked on every update, not only on one that changes it.
ValidateWorkerPoolUpdate(old, new) ==
    /\ ValidWorkerPool(new)
    /\ old.clusterRef = new.clusterRef
    /\ ~SkewError(new)

\* Mutation of SameStorageClass: one pointer that is not nil is enough.
SameStorageClassOfOld(old, new) ==
    old.storageClass = Empty \/ old.storageClass = new.storageClass

\* Mutation of SameStorageClass: both have to be there to be compared.
SameStorageClassIfSet(old, new) ==
    old.storageClass # Empty /\ old.storageClass = new.storageClass

\* Both nil, or neither and equal.
SameStorageClass(old, new) == old.storageClass = new.storageClass

ValidateSnapshotPoolUpdate(old, new) ==
    /\ ValidSnapshotPool(new)
    /\ old.clusterRef = new.clusterRef
    /\ SameStorageClass(old, new)
    /\ ~SkewError(new)

ValidatePoolUpdate(old, new) ==
    IF old.kind = "worker" THEN ValidateWorkerPoolUpdate(old, new)
                           ELSE ValidateSnapshotPoolUpdate(old, new)

-----------------------------------------------------------------------------
(* The API server (external) *)

Stored(f, n, object) ==
    [x \in DOMAIN f \cup {n} |-> IF x = n THEN object ELSE f[x]]

Removed(f, n) == Restrict(f, DOMAIN f \ {n})

\* Every request gets a number; an object keeps that of its creation as uid.
Edit == edits < MaxEdits /\ edits' = edits + 1

Create(f, n, m) == Stored(f, n, [uid |-> edits + 1, spec |-> m])

Update(f, n, m) == Stored(f, n, [f[n] EXCEPT !.spec = m])

SubmitCluster(n) ==
    /\ Edit
    /\ \E request \in ClusterRequests :
          LET m == DefaultCluster(request)
          IN \/ /\ n \notin DOMAIN clusters
                /\ ValidCluster(m)
                /\ clusters' = Create(clusters, n, m)
             \/ /\ n \in DOMAIN clusters
                /\ ValidateClusterUpdate(clusters[n].spec, m)
                /\ clusters' = Update(clusters, n, m)
    /\ UNCHANGED <<known, pools, planes, workloads, held>>

SubmitPool(p) ==
    /\ Edit
    /\ \E request \in PoolRequests[p] :
          LET m == DefaultPool(request)
          IN \/ /\ p \notin DOMAIN pools
                /\ ValidatePoolCreate(m)
                /\ pools' = Create(pools, p, m)
             \/ /\ p \in DOMAIN pools
                /\ ValidatePoolUpdate(pools[p].spec, m)
                /\ pools' = Update(pools, p, m)
    /\ UNCHANGED <<clusters, known, planes, workloads, held>>

\* ValidateDelete lets every deletion through.
DeleteCluster(n) ==
    /\ Edit
    /\ n \in DOMAIN clusters
    /\ clusters' = Removed(clusters, n)
    /\ UNCHANGED <<known, pools, planes, workloads, held>>

DeletePool(p) ==
    /\ Edit
    /\ p \in DOMAIN pools
    /\ pools' = Removed(pools, p)
    /\ UNCHANGED <<clusters, known, planes, workloads, held>>

\* Owned by an object that is gone, even if another has its name by now.
Orphaned(owned, owners, n) ==
    n \in DOMAIN owners => owners[n].uid # owned[n].owner

\* Kubernetes' garbage collector.
Collect ==
    \/ /\ \E n \in DOMAIN planes :
             Orphaned(planes, clusters, n) /\ planes' = Removed(planes, n)
       /\ UNCHANGED <<clusters, known, pools, workloads, held, edits>>
    \/ /\ \E p \in DOMAIN workloads :
             /\ Orphaned(workloads, pools, p)
             /\ workloads' = Removed(workloads, p)
       /\ UNCHANGED <<clusters, known, pools, planes, held, edits>>

Deliver ==
    /\ known # clusters
    /\ known' = clusters
    /\ UNCHANGED <<clusters, pools, planes, workloads, held, edits>>

-----------------------------------------------------------------------------
(* The controllers *)

\* A gate of the cluster's upgrade is closed or opened: policy Manual, pause,
\* a backup, a maintenance window that never comes, a missing secret, a phase
\* Blocked or a maintenance job that fails.
Hold(n) ==
    /\ n \in DOMAIN clusters
    /\ held' = IF n \in held THEN held \ {n} ELSE held \cup {n}
    /\ UNCHANGED <<clusters, known, pools, planes, workloads, edits>>

\* The cluster's controller has brought the control plane to the spec.  What
\* it finds under the name is updated, whoever owns it.  It may happen with a
\* closed gate too: some of them stop only what has not begun.
RollOutControlPlane(n) ==
    /\ n \in DOMAIN known
    /\ LET spec == known[n].spec
           owner == IF n \in DOMAIN planes THEN planes[n].owner ELSE known[n].uid
       IN planes' = Stored(planes, n, [owner |-> owner, host |-> spec.host,
                                       version |-> spec.version])
    /\ planes' # planes
    /\ UNCHANGED <<clusters, known, pools, workloads, held, edits>>

ImageVersion(m) ==
    IF m.image = NoImage THEN known[m.clusterRef].spec.version
                         ELSE m.image.version

\* A pool's controller has brought its workload to the spec.  The template is
\* rebuilt; the claims of a StatefulSet are those it was created with.  (Left
\* out: the volumes behind the claims, which outlive the pool, and that an
\* update to another clusterRef would fail on the immutable selector.)
RollOutPool(p) ==
    /\ p \in DOMAIN pools
    /\ pools[p].spec.clusterRef \in DOMAIN known
    /\ LET m == pools[p].spec
       IN workloads' = Stored(workloads, p,
            [owner |-> IF p \in DOMAIN workloads THEN workloads[p].owner
                                                 ELSE pools[p].uid,
             storageClass |-> IF p \in DOMAIN workloads
                              THEN workloads[p].storageClass
                              ELSE m.storageClass,
             cluster |-> m.clusterRef, version |-> ImageVersion(m)])
    /\ workloads' # workloads
    /\ UNCHANGED <<clusters, known, pools, planes, held, edits>>

-----------------------------------------------------------------------------
(* The user who follows the runbook for upgrades *)

\* The pool's image belongs to another release than the cluster's version.
\* A tag that cannot be read, or a version, is nobody's guess.
Skewed(p) ==
    LET m == pools[p].spec
    IN /\ m.image # NoImage /\ m.image.releases # <<>>
       /\ m.clusterRef \in DOMAIN clusters
       /\ LET v == clusters[m.clusterRef].spec.version
          IN MajorMinor[v] \notin {Unparsed, MajorMinor[m.image.version]}

\* "Pools with an explicit spec.image must be updated independently": if the
\* webhook rejects the patch, the user tries again.
PatchImage(p) ==
    /\ p \in DOMAIN pools
    /\ Skewed(p)
    /\ \E i \in Images :
          LET old == pools[p].spec
              new == DefaultPool([old EXCEPT !.image = i])
              v == clusters[old.clusterRef].spec.version
          IN /\ i.version = v /\ i.releases # <<>>
             /\ ValidatePoolUpdate(old, new)
             /\ pools' = Update(pools, p, new)
    /\ UNCHANGED <<clusters, known, planes, workloads, held, edits>>

-----------------------------------------------------------------------------

Nothing == [x \in {} |-> NoVersion]

Init ==
    /\ clusters = Nothing /\ known = Nothing /\ pools = Nothing
    /\ planes = Nothing /\ workloads = Nothing
    /\ held = {} /\ edits = 0

Next ==
    \/ \E n \in Clusters : SubmitCluster(n) \/ DeleteCluster(n)
    \/ \E p \in Pools : SubmitPool(p) \/ DeletePool(p)
    \/ Collect
    \/ Deliver
    \/ \E n \in Clusters : Hold(n) \/ RollOutControlPlane(n)
    \/ \E p \in Pools : RollOutPool(p)
    \/ \E p \in Pools : PatchImage(p)

Spec == Init /\ [][Next]_vars

\* The cache catches up, garbage is collected, the user follows the runbook,
\* and the controllers converge (PoolConverges; Converges for a cluster that
\* nothing holds).
FairSpec ==
    /\ Spec
    /\ WF_vars(Deliver)
    /\ WF_vars(Collect)
    /\ \A n \in Clusters : WF_vars(n \notin held /\ RollOutControlPlane(n))
    /\ \A p \in Pools : WF_vars(RollOutPool(p))
    /\ \A p \in Pools : WF_vars(PatchImage(p))

-----------------------------------------------------------------------------
(* Properties *)

StoredObject(Manifest) == [uid: Nat, spec: Manifest]

\* Every variable has its type: partial functions from names.  A cluster that
\* is stored has a version.
TypeOK ==
    /\ DOMAIN clusters \subseteq Clusters /\ DOMAIN known \subseteq Clusters
    /\ \A n \in DOMAIN clusters :
          /\ clusters[n] \in StoredObject(ClusterManifest)
          /\ clusters[n].spec.version \in Versions
    /\ \A n \in DOMAIN known :
          /\ known[n] \in StoredObject(ClusterManifest)
          /\ known[n].spec.version \in Versions
    /\ DOMAIN pools \subseteq Pools
    /\ \A p \in DOMAIN pools : pools[p] \in StoredObject(PoolManifest)
    /\ DOMAIN planes \subseteq Clusters
    /\ \A n \in DOMAIN planes :
          planes[n] \in [owner: Nat, version: Versions, host: STRING]
    /\ DOMAIN workloads \subseteq Pools
    /\ \A p \in DOMAIN workloads :
          workloads[p] \in [owner: Nat, version: Versions, cluster: STRING,
                            storageClass: STRING]
    /\ held \subseteq Clusters
    /\ edits \in Nat

\* Whatever is stored is accepted if it is submitted again as it is, with the
\* one exception of a pool whose image no longer fits the cluster: defaulting
\* has nothing left to do, and no sequence of creations and updates stores
\* what a later update of another field would be rejected for.
StoredIsReadmissible ==
    /\ \A n \in DOMAIN clusters :
          LET m == clusters[n].spec
          IN DefaultCluster(m) = m /\ ValidateClusterUpdate(m, m)
    /\ \A p \in DOMAIN pools :
          LET m == pools[p].spec
          IN DefaultPool(m) = m /\ (ValidatePoolUpdate(m, m) \/ SkewError(m))

\* What the immutable fields are for: a control plane never leaves the catalog
\* of its cluster, nor a workload the cluster and the storage class of its
\* pool, unless it belongs to an object that was deleted and whose name is in
\* use again.
WorkloadsMatchTheirOwners ==
    /\ \A n \in DOMAIN planes :
          ~Orphaned(planes, clusters, n) =>
              planes[n].host = clusters[n].spec.host
    /\ \A p \in DOMAIN workloads :
          ~Orphaned(workloads, pools, p) =>
              /\ workloads[p].cluster = pools[p].spec.clusterRef
              /\ pools[p].spec.kind = "snapshot" =>
                    workloads[p].storageClass = pools[p].spec.storageClass

\* While the cache is up to date, a write of a pool never makes its pinned
\* image differ in release from the cluster: only a write of the cluster does,
\* which no webhook checks against the pools.  (Of an image whose tag names
\* another release than it contains the webhook cannot know.)
SkewComesFromClusters ==
    [][known = clusters /\ clusters' = clusters =>
         \A p \in DOMAIN pools' :
             Skewed(p)' => p \in DOMAIN pools /\ Skewed(p)]_vars

\* The pool runs the release its cluster's control plane runs.
Agrees(p) ==
    LET m == pools[p].spec
    IN /\ p \in DOMAIN workloads /\ m.clusterRef \in DOMAIN planes
       /\ ~Orphaned(workloads, pools, p)
       /\ MajorMinor[workloads[p].version] =
             MajorMinor[planes[m.clusterRef].version]

\* Once users have done with editing and the gates of a cluster stay open, every
\* pool that refers to it ends up on the release of its control plane, in
\* whichever order cluster, pools and control plane moved: a pinned one by the
\* runbook's patch, which the webhook cannot keep rejecting.  That controllers
\* converge is taken from the other modules.  With a gate closed for good it
\* does not hold: pools follow the spec at once, the control plane waits.  (A
\* pool pinned to a digest is on its own.)
FleetAgrees ==
    \A n \in Clusters :
        <>[](n \notin held) =>
            <>[](\A p \in DOMAIN pools :
                    LET m == pools[p].spec
                    IN m.clusterRef = n /\ n \in DOMAIN clusters
                         /\ (m.image = NoImage \/ m.image.releases # <<>>)
                       => Agrees(p))

=============================================================================
