---------------------------- MODULE FleetProofs ----------------------------
(***************************************************************************)
(* Theorems about what the admission webhooks let into the API server, for  *)
(* every set of clusters, pools, versions, images and manifests and any     *)
(* number of edits.                                                         *)
(***************************************************************************)
EXTENDS Fleet, TLAPS

-----------------------------------------------------------------------------
(* Partial functions *)

\* An object that is updated keeps its uid.
LEMMA UpdateIs ==
    ASSUME NEW f, NEW n \in DOMAIN f, NEW m, NEW M, f[n] \in StoredObject(M)
    PROVE  /\ DOMAIN Update(f, n, m) = DOMAIN f
           /\ Update(f, n, m)[n] = [uid |-> f[n].uid, spec |-> m]
           /\ \A x \in DOMAIN f \ {n} : Update(f, n, m)[x] = f[x]
<1>1. [f[n] EXCEPT !.spec = m] = [uid |-> f[n].uid, spec |-> m]
    BY DEF StoredObject
<1> QED
    BY <1>1 DEF Update, Stored

-----------------------------------------------------------------------------
(* Defaulting *)

\* Defaulting a cluster sets what is unset, and nothing else.
LEMMA DefaultClusterIs ==
    ASSUME NEW m \in ClusterManifest
    PROVE  /\ DefaultCluster(m) \in ClusterManifest
           /\ DefaultCluster(m).unset = {}
           /\ DefaultCluster(m).version = m.version
           /\ DefaultCluster(m).host = m.host
           /\ DefaultCluster(m).missing = m.missing
           /\ DefaultCluster(DefaultCluster(m)) = DefaultCluster(m)
BY DEF DefaultCluster, ClusterManifest

\* No image is an image that names a release.
LEMMA ImageFields ==
    ASSUME NEW i \in Image \cup {NoImage}
    PROVE  /\ i.releases \in Seq(Nat \ {0})
           /\ i # NoImage => i.version \in Versions
<1>1. CASE i \in Image
    BY <1>1 DEF Image
<1>2. CASE i = NoImage
    BY <1>2 DEF NoImage
<1> QED
    BY <1>1, <1>2

\* Defaulting a pool changes what is unset and the least number of replicas.
LEMMA DefaultPoolIs ==
    ASSUME NEW m \in PoolManifest
    PROVE  /\ DefaultPool(m) \in PoolManifest
           /\ DefaultPool(m).kind = m.kind
           /\ DefaultPool(m).clusterRef = m.clusterRef
           /\ DefaultPool(m).image = m.image
           /\ DefaultPool(m).storageClass = m.storageClass
           /\ DefaultPool(m).autoscaling = m.autoscaling
<1>1. CASE m.kind = "worker"
    BY <1>1 DEF DefaultPool, DefaultWorkerPool, PoolManifest
<1>2. CASE m.kind # "worker"
    BY <1>2 DEF DefaultPool, DefaultSnapshotPool, PoolManifest
<1> QED
    BY <1>1, <1>2

\* Two records of a manifest are equal if their fields are.
LEMMA SamePoolManifest ==
    ASSUME NEW a \in PoolManifest, NEW b \in PoolManifest,
           a.kind = b.kind, a.clusterRef = b.clusterRef, a.image = b.image,
           a.autoscaling = b.autoscaling, a.min = b.min, a.max = b.max,
           a.storageSize = b.storageSize, a.storageClass = b.storageClass,
           a.unset = b.unset
    PROVE  a = b
BY DEF PoolManifest

\* A pool that was defaulted once is left alone by defaulting.
LEMMA DefaultPoolTwice ==
    ASSUME NEW m \in PoolManifest
    PROVE  DefaultPool(DefaultPool(m)) = DefaultPool(m)
<1> DEFINE d == DefaultPool(m)
<1>0. d \in PoolManifest /\ d.kind = m.kind /\ d.autoscaling = m.autoscaling
    BY DefaultPoolIs
<1>1. CASE m.kind = "worker"
  <2>1. d = DefaultWorkerPool(m)
      BY <1>1 DEF DefaultPool
  <2>2. /\ d.unset = IF m.autoscaling THEN m.unset \ {"replicas", "targetCPU"}
                                      ELSE m.unset \ {"replicas"}
        /\ d.min = IF m.autoscaling /\ m.min = 0 THEN 1 ELSE m.min
      BY <2>1 DEF DefaultWorkerPool, PoolManifest
  <2>3. DefaultPool(d) = DefaultWorkerPool(d)
      BY <1>0, <1>1 DEF DefaultPool
  <2> HIDE DEF d
  <2>4. DefaultWorkerPool(d) = d
    <3> DEFINE e == DefaultWorkerPool(d)
    <3>1. /\ e \in PoolManifest /\ e.kind = d.kind
          /\ e.clusterRef = d.clusterRef /\ e.image = d.image
          /\ e.autoscaling = d.autoscaling /\ e.max = d.max
          /\ e.storageSize = d.storageSize /\ e.storageClass = d.storageClass
        BY <1>0 DEF DefaultWorkerPool, PoolManifest
    <3>2. e.min = IF d.autoscaling /\ d.min = 0 THEN 1 ELSE d.min
        BY <1>0 DEF DefaultWorkerPool, PoolManifest
    <3>3. e.min = d.min
        BY <1>0, <2>2, <3>2
    <3>4. e.unset = IF d.autoscaling THEN d.unset \ {"replicas", "targetCPU"}
                                     ELSE d.unset \ {"replicas"}
        BY <1>0 DEF DefaultWorkerPool, PoolManifest
    <3>5. e.unset = d.unset
        BY <1>0, <2>2, <3>4
    <3> HIDE DEF e
    <3>6. e = d
        BY <1>0, <3>1, <3>3, <3>5, SamePoolManifest
    <3> QED
        BY <3>6 DEF e
  <2> QED
      BY <2>3, <2>4 DEF d
<1>2. CASE m.kind # "worker"
  <2>1. d = DefaultSnapshotPool(m)
      BY <1>2 DEF DefaultPool
  <2>2. d.unset = m.unset \ {"replicas", "gracePeriod"}
      BY <2>1 DEF DefaultSnapshotPool, PoolManifest
  <2>3. DefaultPool(d) = DefaultSnapshotPool(d)
      BY <1>0, <1>2 DEF DefaultPool
  <2> HIDE DEF d
  <2>4. DefaultSnapshotPool(d) = [d EXCEPT !.unset = d.unset]
      BY <1>0, <2>2 DEF DefaultSnapshotPool, PoolManifest
  <2>5. DefaultSnapshotPool(d) = d
      BY <1>0, <2>4 DEF PoolManifest
  <2> QED
      BY <2>3, <2>5 DEF d
<1> QED
    BY <1>1, <1>2

-----------------------------------------------------------------------------
(* Types *)

\* The parts of TypeOK, one for each partial function.
ClustersTyped(f) ==
    /\ DOMAIN f \subseteq Clusters
    /\ \A n \in DOMAIN f : /\ f[n] \in StoredObject(ClusterManifest)
                           /\ f[n].spec.version \in Versions

PoolsTyped(f) ==
    /\ DOMAIN f \subseteq Pools
    /\ \A p \in DOMAIN f : f[p] \in StoredObject(PoolManifest)

Plane == [owner: Nat, version: Versions, host: STRING]

PlanesTyped(f) ==
    DOMAIN f \subseteq Clusters /\ \A n \in DOMAIN f : f[n] \in Plane

PoolWorkload ==
    [owner: Nat, version: Versions, cluster: STRING, storageClass: STRING]

WorkloadsTyped(f) ==
    DOMAIN f \subseteq Pools /\ \A p \in DOMAIN f : f[p] \in PoolWorkload

LEMMA TypeOKParts ==
    TypeOK <=> /\ ClustersTyped(clusters) /\ ClustersTyped(known)
               /\ PoolsTyped(pools) /\ PlanesTyped(planes)
               /\ WorkloadsTyped(workloads) /\ held \subseteq Clusters
               /\ edits \in Nat
BY DEF TypeOK, ClustersTyped, PoolsTyped, PlanesTyped, WorkloadsTyped, Plane,
       PoolWorkload

\* What a user may have had stored as a pool: defaulted, valid, and of the
\* kind of all requests under that name.
Admitted(p, m) ==
    /\ m \in PoolManifest
    /\ DefaultPool(m) = m
    /\ ValidPool(m)
    /\ \A request \in PoolRequests[p] : request.kind = m.kind

\* Every stored pool is admitted.
PoolsAdmitted == \A p \in DOMAIN pools : Admitted(p, pools[p].spec)

\* What is stored of clusters: defaulted and valid.
ClustersAdmitted ==
    \A n \in DOMAIN clusters :
        /\ DefaultCluster(clusters[n].spec) = clusters[n].spec
        /\ ValidCluster(clusters[n].spec)

\* A write of a cluster.
WritesCluster(n, m) ==
    /\ m \in ClusterManifest /\ DefaultCluster(m) = m /\ ValidCluster(m)
    /\ \/ /\ n \notin DOMAIN clusters
          /\ clusters' = Create(clusters, n, m)
       \/ /\ n \in DOMAIN clusters
          /\ clusters[n].spec.host = m.host
          /\ clusters' = Update(clusters, n, m)

LEMMA SubmitClusterWrites ==
    ASSUME NEW n \in Clusters, SubmitCluster(n)
    PROVE  \E m : WritesCluster(n, m)
<1>1. PICK request \in ClusterRequests :
          LET m == DefaultCluster(request)
          IN \/ /\ n \notin DOMAIN clusters
                /\ ValidCluster(m)
                /\ clusters' = Create(clusters, n, m)
             \/ /\ n \in DOMAIN clusters
                /\ ValidateClusterUpdate(clusters[n].spec, m)
                /\ clusters' = Update(clusters, n, m)
    BY DEF SubmitCluster
<1>2. request \in ClusterManifest
    BY FleetAssumption
<1>3. WITNESS DefaultCluster(request)
<1>4. DefaultCluster(request) \in ClusterManifest
    BY <1>2, DefaultClusterIs
<1>5. DefaultCluster(DefaultCluster(request)) = DefaultCluster(request)
    BY <1>2, DefaultClusterIs
<1> QED
    BY <1>1, <1>4, <1>5 DEF WritesCluster, ValidateClusterUpdate

\* A write of a pool.  Only a creation needs a new number.
WritesPool(p, m) ==
    /\ Admitted(p, m)
    /\ \/ /\ p \notin DOMAIN pools
          /\ pools' = Create(pools, p, m)
          /\ edits' = edits + 1
          /\ ~SkewError(m)
       \/ /\ p \in DOMAIN pools
          /\ pools[p].spec.kind = m.kind
          /\ pools[p].spec.clusterRef = m.clusterRef
          /\ m.kind = "snapshot" =>
                pools[p].spec.storageClass = m.storageClass
          /\ pools' = Update(pools, p, m)
          /\ edits' \in {edits, edits + 1}
          /\ ~SkewError(m)

\* An update that the webhook accepts.
LEMMA PoolUpdateAccepted ==
    ASSUME NEW old \in PoolManifest, NEW new \in PoolManifest,
           old.kind = new.kind, ValidatePoolUpdate(old, new)
    PROVE  /\ ValidPool(new) /\ ~SkewError(new)
           /\ old.clusterRef = new.clusterRef
           /\ new.kind = "snapshot" => old.storageClass = new.storageClass
<1>1. CASE old.kind = "worker"
    BY <1>1 DEF ValidatePoolUpdate, ValidateWorkerPoolUpdate, ValidPool
<1>2. CASE old.kind # "worker"
    BY <1>2 DEF ValidatePoolUpdate, ValidateSnapshotPoolUpdate, ValidPool,
                SameStorageClass
<1> QED
    BY <1>1, <1>2

LEMMA SubmitPoolWrites ==
    ASSUME PoolsAdmitted, NEW p \in Pools, SubmitPool(p)
    PROVE  \E m : WritesPool(p, m)
<1>1. PICK request \in PoolRequests[p] :
          LET m == DefaultPool(request)
          IN \/ /\ p \notin DOMAIN pools
                /\ ValidatePoolCreate(m)
                /\ pools' = Create(pools, p, m)
             \/ /\ p \in DOMAIN pools
                /\ ValidatePoolUpdate(pools[p].spec, m)
                /\ pools' = Update(pools, p, m)
    BY DEF SubmitPool
<1>2. edits' = edits + 1
    BY DEF SubmitPool, Edit
<1>3. /\ request \in PoolManifest
      /\ \A r \in PoolRequests[p] : r.kind = request.kind
  <2>1. PoolRequests[p] \in SUBSET PoolManifest
      BY FleetAssumption
  <2> QED
      BY <2>1, FleetAssumption
<1> DEFINE m == DefaultPool(request)
<1>4. /\ m \in PoolManifest /\ DefaultPool(m) = m /\ m.kind = request.kind
    BY <1>3, DefaultPoolIs, DefaultPoolTwice
<1> HIDE DEF m
<1>5. CASE /\ p \notin DOMAIN pools
           /\ ValidatePoolCreate(m)
           /\ pools' = Create(pools, p, m)
  <2>1. Admitted(p, m) /\ ~SkewError(m)
      BY <1>3, <1>4, <1>5 DEF Admitted, ValidatePoolCreate
  <2>2. WritesPool(p, m)
      BY <1>2, <1>5, <2>1 DEF WritesPool
  <2> QED
      BY <2>2
<1>6. CASE /\ p \in DOMAIN pools
           /\ ValidatePoolUpdate(pools[p].spec, m)
           /\ pools' = Update(pools, p, m)
  <2>1. pools[p].spec \in PoolManifest /\ pools[p].spec.kind = m.kind
      BY <1>3, <1>4, <1>6 DEF PoolsAdmitted, Admitted
  <2>2. /\ ValidPool(m) /\ ~SkewError(m)
        /\ pools[p].spec.clusterRef = m.clusterRef
        /\ m.kind = "snapshot" => pools[p].spec.storageClass = m.storageClass
      BY <1>4, <1>6, <2>1, PoolUpdateAccepted
  <2>3. Admitted(p, m)
      BY <1>3, <1>4, <2>2 DEF Admitted
  <2>4. WritesPool(p, m)
      BY <1>2, <1>6, <2>1, <2>2, <2>3 DEF WritesPool
  <2> QED
      BY <2>4
<1> QED
    BY <1>1, <1>5, <1>6 DEF m

LEMMA PatchImageWrites ==
    ASSUME PoolsAdmitted, NEW p \in Pools, PatchImage(p)
    PROVE  \E m : WritesPool(p, m)
<1> DEFINE old == pools[p].spec
<1>1. PICK i \in Images :
          /\ ValidatePoolUpdate(old, DefaultPool([old EXCEPT !.image = i]))
          /\ pools' = Update(pools, p, DefaultPool([old EXCEPT !.image = i]))
    BY DEF PatchImage
<1>2. /\ p \in DOMAIN pools /\ edits' = edits
      /\ old \in PoolManifest
      /\ \A request \in PoolRequests[p] : request.kind = old.kind
    BY DEF PatchImage, PoolsAdmitted, Admitted
<1> DEFINE patched == [old EXCEPT !.image = i]
           m == DefaultPool(patched)
<1>3. patched \in PoolManifest /\ patched.kind = old.kind
  <2>1. i \in Image
      BY FleetAssumption
  <2> QED
      BY <1>2, <2>1 DEF PoolManifest
<1>4. ValidatePoolUpdate(old, m) /\ pools' = Update(pools, p, m)
    BY <1>1
<1> HIDE DEF patched
<1>5. m \in PoolManifest /\ DefaultPool(m) = m /\ m.kind = old.kind
    BY <1>3, DefaultPoolIs, DefaultPoolTwice
<1> HIDE DEF m
<1>6. /\ ValidPool(m) /\ ~SkewError(m)
      /\ old.clusterRef = m.clusterRef
      /\ m.kind = "snapshot" => old.storageClass = m.storageClass
    BY <1>2, <1>4, <1>5, PoolUpdateAccepted
<1>7. Admitted(p, m)
    BY <1>2, <1>5, <1>6 DEF Admitted
<1>8. WritesPool(p, m)
    BY <1>2, <1>4, <1>5, <1>6, <1>7 DEF WritesPool
<1> QED
    BY <1>8

-----------------------------------------------------------------------------
(* What is stored *)

\* A write of a cluster in full: what is stored under its name afterwards.
LEMMA ClusterWritten ==
    ASSUME ClustersTyped(clusters), NEW n \in Clusters, NEW m,
           WritesCluster(n, m)
    PROVE  /\ DOMAIN clusters' = DOMAIN clusters \cup {n}
           /\ clusters'[n] =
                 [uid |-> IF n \in DOMAIN clusters THEN clusters[n].uid
                                                   ELSE edits + 1,
                  spec |-> m]
           /\ \A x \in DOMAIN clusters \ {n} : clusters'[x] = clusters[x]
<1>1. CASE n \notin DOMAIN clusters
  <2>1. clusters' = Create(clusters, n, m)
      BY <1>1 DEF WritesCluster
  <2>2. /\ DOMAIN Create(clusters, n, m) = DOMAIN clusters \cup {n}
        /\ Create(clusters, n, m)[n] = [uid |-> edits + 1, spec |-> m]
        /\ \A x \in DOMAIN clusters \ {n} : Create(clusters, n, m)[x] = clusters[x]
      BY DEF Create, Stored
  <2> QED
      BY <1>1, <2>1, <2>2
<1>2. CASE n \in DOMAIN clusters
  <2>1. clusters[n] \in StoredObject(ClusterManifest)
      BY <1>2 DEF ClustersTyped
  <2>2. clusters' = Update(clusters, n, m)
      BY <1>2 DEF WritesCluster
  <2>3. /\ DOMAIN Update(clusters, n, m) = DOMAIN clusters
        /\ Update(clusters, n, m)[n] = [uid |-> clusters[n].uid, spec |-> m]
        /\ \A x \in DOMAIN clusters \ {n} :
              Update(clusters, n, m)[x] = clusters[x]
      BY <1>2, <2>1, UpdateIs
  <2> QED
      BY <1>2, <2>2, <2>3
<1> QED
    BY <1>1, <1>2

\* The same for a pool.
LEMMA PoolWritten ==
    ASSUME PoolsTyped(pools), NEW p \in Pools, NEW m, WritesPool(p, m)
    PROVE  /\ DOMAIN pools' = DOMAIN pools \cup {p}
           /\ pools'[p] =
                 [uid |-> IF p \in DOMAIN pools THEN pools[p].uid
                                                ELSE edits + 1,
                  spec |-> m]
           /\ \A x \in DOMAIN pools \ {p} : pools'[x] = pools[x]
<1>1. CASE p \notin DOMAIN pools
  <2>1. pools' = Create(pools, p, m)
      BY <1>1 DEF WritesPool
  <2>2. /\ DOMAIN Create(pools, p, m) = DOMAIN pools \cup {p}
        /\ Create(pools, p, m)[p] = [uid |-> edits + 1, spec |-> m]
        /\ \A x \in DOMAIN pools \ {p} : Create(pools, p, m)[x] = pools[x]
      BY DEF Create, Stored
  <2> QED
      BY <1>1, <2>1, <2>2
<1>2. CASE p \in DOMAIN pools
  <2>1. pools[p] \in StoredObject(PoolManifest)
      BY <1>2 DEF PoolsTyped
  <2>2. pools' = Update(pools, p, m)
      BY <1>2 DEF WritesPool
  <2>3. /\ DOMAIN Update(pools, p, m) = DOMAIN pools
        /\ Update(pools, p, m)[p] = [uid |-> pools[p].uid, spec |-> m]
        /\ \A x \in DOMAIN pools \ {p} : Update(pools, p, m)[x] = pools[x]
      BY <1>2, <2>1, UpdateIs
  <2> QED
      BY <1>2, <2>2, <2>3
<1> QED
    BY <1>1, <1>2

\* Writes and deletions of clusters keep what is stored typed and admitted.
LEMMA ClusterWriteKeeps ==
    ASSUME ClustersTyped(clusters), ClustersAdmitted, edits \in Nat,
           NEW n \in Clusters, NEW m, WritesCluster(n, m)
    PROVE  ClustersTyped(clusters)' /\ ClustersAdmitted'
<1>1. /\ DOMAIN clusters' = DOMAIN clusters \cup {n}
      /\ clusters'[n] =
            [uid |-> IF n \in DOMAIN clusters THEN clusters[n].uid
                                              ELSE edits + 1,
             spec |-> m]
      /\ \A x \in DOMAIN clusters \ {n} : clusters'[x] = clusters[x]
    BY ClusterWritten
<1>2. m \in ClusterManifest /\ DefaultCluster(m) = m /\ ValidCluster(m)
    BY DEF WritesCluster
<1>3. m.version \in Versions
    BY <1>2 DEF ClusterManifest, ValidCluster
<1>4. /\ clusters'[n] \in StoredObject(ClusterManifest)
      /\ clusters'[n].spec = m
  <2>1. (IF n \in DOMAIN clusters THEN clusters[n].uid ELSE edits + 1) \in Nat
      BY DEF ClustersTyped, StoredObject
  <2> QED
      BY <1>1, <1>2, <2>1 DEF StoredObject
<1>5. ClustersTyped(clusters)'
    BY <1>1, <1>3, <1>4 DEF ClustersTyped
<1>6. ClustersAdmitted'
  <2> SUFFICES ASSUME NEW x \in DOMAIN clusters'
               PROVE  /\ DefaultCluster(clusters'[x].spec) = clusters'[x].spec
                      /\ ValidCluster(clusters'[x].spec)
      BY DEF ClustersAdmitted, DefaultCluster, ValidCluster
  <2>1. CASE x = n
      BY <1>2, <1>4, <2>1
  <2>2. CASE x # n
      BY <1>1, <2>2 DEF ClustersAdmitted
  <2> QED
      BY <2>1, <2>2
<1> QED
    BY <1>5, <1>6

LEMMA PoolWriteKeeps ==
    ASSUME PoolsTyped(pools), PoolsAdmitted, edits \in Nat,
           NEW p \in Pools, NEW m, WritesPool(p, m)
    PROVE  PoolsTyped(pools)' /\ PoolsAdmitted'
<1>1. /\ DOMAIN pools' = DOMAIN pools \cup {p}
      /\ pools'[p] = [uid |-> IF p \in DOMAIN pools THEN pools[p].uid
                                                    ELSE edits + 1,
                      spec |-> m]
      /\ \A x \in DOMAIN pools \ {p} : pools'[x] = pools[x]
    BY PoolWritten
<1>2. Admitted(p, m) /\ m \in PoolManifest
    BY DEF WritesPool, Admitted
<1>3. pools'[p] \in StoredObject(PoolManifest) /\ pools'[p].spec = m
  <2>1. (IF p \in DOMAIN pools THEN pools[p].uid ELSE edits + 1) \in Nat
      BY DEF PoolsTyped, StoredObject
  <2> QED
      BY <1>1, <1>2, <2>1 DEF StoredObject
<1>4. PoolsTyped(pools)'
    BY <1>1, <1>3 DEF PoolsTyped
<1>5. PoolsAdmitted'
  <2> SUFFICES ASSUME NEW x \in DOMAIN pools'
               PROVE  Admitted(x, pools'[x].spec)
      BY DEF PoolsAdmitted, Admitted, DefaultPool, DefaultWorkerPool,
             DefaultSnapshotPool, ValidPool, ValidWorkerPool,
             ValidSnapshotPool
  <2>1. CASE x = p
      BY <1>2, <1>3, <2>1
  <2>2. CASE x # p
      BY <1>1, <2>2 DEF PoolsAdmitted
  <2> QED
      BY <2>1, <2>2
<1> QED
    BY <1>4, <1>5

\* The controllers keep what they roll out typed.
LEMMA RollOutControlPlaneTyped ==
    ASSUME TypeOK, NEW n \in Clusters, RollOutControlPlane(n)
    PROVE  PlanesTyped(planes)'
<1> DEFINE owner == IF n \in DOMAIN planes THEN planes[n].owner
                                           ELSE known[n].uid
           plane == [owner |-> owner, host |-> known[n].spec.host,
                     version |-> known[n].spec.version]
<1>1. n \in DOMAIN known /\ planes' = Stored(planes, n, plane)
    BY DEF RollOutControlPlane
<1>2. plane \in Plane
  <2>1. owner \in Nat
      BY <1>1, TypeOKParts DEF ClustersTyped, PlanesTyped, Plane, StoredObject
  <2>2. known[n].spec \in ClusterManifest /\ known[n].spec.version \in Versions
      BY <1>1, TypeOKParts DEF ClustersTyped, StoredObject
  <2>3. known[n].spec.host \in STRING
      BY <2>2 DEF ClusterManifest
  <2> HIDE DEF owner
  <2> QED
      BY <2>1, <2>2, <2>3 DEF Plane
<1> HIDE DEF plane
<1>7. /\ DOMAIN planes' = DOMAIN planes \cup {n}
      /\ planes'[n] = plane
      /\ \A x \in DOMAIN planes \ {n} : planes'[x] = planes[x]
    BY <1>1 DEF Stored
<1> QED
    BY <1>1, <1>2, <1>7, TypeOKParts DEF PlanesTyped

LEMMA RollOutPoolTyped ==
    ASSUME TypeOK, NEW p \in Pools, RollOutPool(p)
    PROVE  WorkloadsTyped(workloads)'
<1> DEFINE m == pools[p].spec
           owner == IF p \in DOMAIN workloads THEN workloads[p].owner
                                              ELSE pools[p].uid
           class == IF p \in DOMAIN workloads THEN workloads[p].storageClass
                                              ELSE m.storageClass
           workload == [owner |-> owner, storageClass |-> class,
                        cluster |-> m.clusterRef, version |-> ImageVersion(m)]
<1>1. /\ p \in DOMAIN pools /\ m.clusterRef \in DOMAIN known
      /\ workloads' = Stored(workloads, p, workload)
    BY DEF RollOutPool
<1>2. m \in PoolManifest /\ pools[p].uid \in Nat
    BY <1>1, TypeOKParts DEF PoolsTyped, StoredObject
<1>3. owner \in Nat
    BY <1>2, TypeOKParts DEF WorkloadsTyped, PoolWorkload
<1>4. m.clusterRef \in STRING /\ class \in STRING
    BY <1>2, TypeOKParts DEF WorkloadsTyped, PoolWorkload, PoolManifest
<1>5. ImageVersion(m) \in Versions
  <2>1. known[m.clusterRef].spec.version \in Versions
      BY <1>1, TypeOKParts DEF ClustersTyped
  <2>2. m.image \in Image \cup {NoImage}
      BY <1>2 DEF PoolManifest
  <2> QED
      BY <2>1, <2>2, ImageFields DEF ImageVersion
<1> HIDE DEF m, owner, class
<1>6. workload \in PoolWorkload
    BY <1>3, <1>4, <1>5 DEF PoolWorkload
<1> HIDE DEF workload
<1>7. /\ DOMAIN workloads' = DOMAIN workloads \cup {p}
      /\ workloads'[p] = workload
      /\ \A x \in DOMAIN workloads \ {p} : workloads'[x] = workloads[x]
    BY <1>1 DEF Stored
<1> QED
    BY <1>1, <1>6, <1>7, TypeOKParts DEF WorkloadsTyped

\* What the webhooks admit, and the types, are kept by every step.
AdmittedInv == TypeOK /\ ClustersAdmitted /\ PoolsAdmitted

LEMMA AdmittedInit == Init => AdmittedInv
BY DEF Init, Nothing, AdmittedInv, TypeOK, ClustersAdmitted, PoolsAdmitted

\* Without a write of a cluster, what is stored of clusters stays admitted;
\* the same for pools.
LEMMA AdmittedUnchanged ==
    /\ ClustersAdmitted /\ clusters' = clusters => ClustersAdmitted'
    /\ PoolsAdmitted /\ pools' = pools => PoolsAdmitted'
<1>1. ClustersAdmitted /\ clusters' = clusters => ClustersAdmitted'
    BY DEF ClustersAdmitted, DefaultCluster, ValidCluster
<1>2. PoolsAdmitted /\ pools' = pools => PoolsAdmitted'
    BY DEF PoolsAdmitted, Admitted, DefaultPool, DefaultWorkerPool,
           DefaultSnapshotPool, ValidPool, ValidWorkerPool, ValidSnapshotPool
<1> QED
    BY <1>1, <1>2

\* AdmittedInv after a step, part by part.
LEMMA AdmittedPartsNext ==
    /\ ClustersTyped(clusters)' /\ ClustersTyped(known)'
    /\ PoolsTyped(pools)' /\ PlanesTyped(planes)'
    /\ WorkloadsTyped(workloads)' /\ (held \subseteq Clusters)'
    /\ (edits \in Nat)' /\ ClustersAdmitted' /\ PoolsAdmitted'
    => AdmittedInv'
<1>1. TypeOK' <=> /\ ClustersTyped(clusters)' /\ ClustersTyped(known)'
                  /\ PoolsTyped(pools)' /\ PlanesTyped(planes)'
                  /\ WorkloadsTyped(workloads)' /\ (held \subseteq Clusters)'
                  /\ (edits \in Nat)'
    BY DEF TypeOK, ClustersTyped, PoolsTyped, PlanesTyped, WorkloadsTyped,
           Plane, PoolWorkload
<1> QED
    BY <1>1 DEF AdmittedInv

\* A part that a step leaves alone.
LEMMA TypedUnchanged ==
    /\ ClustersTyped(clusters) /\ clusters' = clusters
          => ClustersTyped(clusters)'
    /\ ClustersTyped(known) /\ known' = known => ClustersTyped(known)'
    /\ ClustersTyped(clusters) /\ known' = clusters => ClustersTyped(known)'
    /\ PoolsTyped(pools) /\ pools' = pools => PoolsTyped(pools)'
    /\ PlanesTyped(planes) /\ planes' = planes => PlanesTyped(planes)'
    /\ WorkloadsTyped(workloads) /\ workloads' = workloads
          => WorkloadsTyped(workloads)'
BY DEF ClustersTyped, PoolsTyped, PlanesTyped, WorkloadsTyped

\* A deletion leaves the objects under other names alone.
LEMMA DeletionKeeps ==
    ASSUME AdmittedInv
    PROVE  /\ \A n : clusters' = Removed(clusters, n)
                     => ClustersTyped(clusters)' /\ ClustersAdmitted'
           /\ \A p : pools' = Removed(pools, p)
                     => PoolsTyped(pools)' /\ PoolsAdmitted'
           /\ \A n : planes' = Removed(planes, n) => PlanesTyped(planes)'
           /\ \A p : workloads' = Removed(workloads, p)
                     => WorkloadsTyped(workloads)'
<1>1. ASSUME NEW n, clusters' = Removed(clusters, n)
      PROVE  ClustersTyped(clusters)' /\ ClustersAdmitted'
  <2>1. /\ DOMAIN clusters' = DOMAIN clusters \ {n}
        /\ \A x \in DOMAIN clusters' : clusters'[x] = clusters[x]
      BY <1>1 DEF Removed, Restrict
  <2>2. ClustersTyped(clusters)'
      BY <2>1, TypeOKParts DEF AdmittedInv, ClustersTyped
  <2>3. ClustersAdmitted'
      BY <2>1 DEF AdmittedInv, ClustersAdmitted, DefaultCluster, ValidCluster
  <2> QED
      BY <2>2, <2>3
<1>2. ASSUME NEW p, pools' = Removed(pools, p)
      PROVE  PoolsTyped(pools)' /\ PoolsAdmitted'
  <2>1. /\ DOMAIN pools' = DOMAIN pools \ {p}
        /\ \A x \in DOMAIN pools' : pools'[x] = pools[x]
      BY <1>2 DEF Removed, Restrict
  <2>2. PoolsTyped(pools)'
      BY <2>1, TypeOKParts DEF AdmittedInv, PoolsTyped
  <2>3. ASSUME NEW x \in DOMAIN pools'
        PROVE  Admitted(x, pools'[x].spec)
      BY <2>1 DEF AdmittedInv, PoolsAdmitted
  <2>4. PoolsAdmitted'
      BY <2>3 DEF PoolsAdmitted, Admitted, DefaultPool, DefaultWorkerPool,
             DefaultSnapshotPool, ValidPool, ValidWorkerPool,
             ValidSnapshotPool
  <2> QED
      BY <2>2, <2>4
<1>3. ASSUME NEW n, planes' = Removed(planes, n)
      PROVE  PlanesTyped(planes)'
  <2>1. /\ DOMAIN planes' = DOMAIN planes \ {n}
        /\ \A x \in DOMAIN planes' : planes'[x] = planes[x]
      BY <1>3 DEF Removed, Restrict
  <2> QED
      BY <2>1, TypeOKParts DEF AdmittedInv, PlanesTyped
<1>4. ASSUME NEW p, workloads' = Removed(workloads, p)
      PROVE  WorkloadsTyped(workloads)'
  <2>1. /\ DOMAIN workloads' = DOMAIN workloads \ {p}
        /\ \A x \in DOMAIN workloads' : workloads'[x] = workloads[x]
      BY <1>4 DEF Removed, Restrict
  <2> QED
      BY <2>1, TypeOKParts DEF AdmittedInv, WorkloadsTyped
<1> QED
    BY <1>1, <1>2, <1>3, <1>4

LEMMA AdmittedNext == AdmittedInv /\ [Next]_vars => AdmittedInv'
<1> SUFFICES ASSUME AdmittedInv, [Next]_vars
             PROVE  AdmittedInv'
    OBVIOUS
<1>0. /\ ClustersTyped(clusters) /\ ClustersTyped(known)
      /\ PoolsTyped(pools) /\ PlanesTyped(planes)
      /\ WorkloadsTyped(workloads) /\ held \subseteq Clusters
      /\ edits \in Nat
      /\ TypeOK /\ ClustersAdmitted /\ PoolsAdmitted
    BY TypeOKParts DEF AdmittedInv
<1>a. edits \in Nat /\ edits + 1 \in Nat
    BY <1>0
<1>1. ASSUME NEW n \in Clusters, SubmitCluster(n)
      PROVE  AdmittedInv'
  <2>1. /\ held' = held /\ edits' = edits + 1
        /\ known' = known /\ pools' = pools
        /\ planes' = planes /\ workloads' = workloads
      BY <1>1 DEF SubmitCluster, Edit
  <2>2. PICK m : WritesCluster(n, m)
      BY <1>1, SubmitClusterWrites
  <2>3. ClustersTyped(clusters)' /\ ClustersAdmitted'
      BY <1>0, <2>2, ClusterWriteKeeps
  <2> QED
      BY <1>0, <1>a, <2>1, <2>3, AdmittedUnchanged, TypedUnchanged,
         AdmittedPartsNext
<1>2. ASSUME NEW n \in Clusters, DeleteCluster(n)
      PROVE  AdmittedInv'
  <2>1. /\ held' = held /\ edits' = edits + 1
        /\ known' = known /\ pools' = pools
        /\ planes' = planes /\ workloads' = workloads
        /\ clusters' = Removed(clusters, n)
      BY <1>2 DEF DeleteCluster, Edit
  <2> QED
      BY <1>0, <1>a, <2>1, DeletionKeeps, AdmittedUnchanged, TypedUnchanged,
         AdmittedPartsNext
<1>3. ASSUME NEW p \in Pools, SubmitPool(p) \/ PatchImage(p)
      PROVE  AdmittedInv'
  <2>1. /\ held' = held /\ edits' \in {edits, edits + 1}
        /\ clusters' = clusters /\ known' = known
        /\ planes' = planes /\ workloads' = workloads
      BY <1>3 DEF SubmitPool, PatchImage, Edit
  <2>2. PICK m : WritesPool(p, m)
      BY <1>0, <1>3, SubmitPoolWrites, PatchImageWrites
  <2>3. PoolsTyped(pools)' /\ PoolsAdmitted'
      BY <1>0, <2>2, PoolWriteKeeps
  <2> QED
      BY <1>0, <1>a, <2>1, <2>3, AdmittedUnchanged, TypedUnchanged,
         AdmittedPartsNext
<1>4. ASSUME NEW p \in Pools, DeletePool(p)
      PROVE  AdmittedInv'
  <2>1. /\ held' = held /\ edits' = edits + 1
        /\ clusters' = clusters /\ known' = known
        /\ planes' = planes /\ workloads' = workloads
        /\ pools' = Removed(pools, p)
      BY <1>4 DEF DeletePool, Edit
  <2> QED
      BY <1>0, <1>a, <2>1, DeletionKeeps, AdmittedUnchanged, TypedUnchanged,
         AdmittedPartsNext
<1>5. CASE Collect
  <2>1. /\ held' = held /\ edits' = edits
        /\ clusters' = clusters /\ known' = known
        /\ pools' = pools
        /\ \/ planes' = planes
           \/ \E n : planes' = Removed(planes, n)
        /\ \/ workloads' = workloads
           \/ \E p : workloads' = Removed(workloads, p)
      BY <1>5 DEF Collect
  <2>2. PlanesTyped(planes)' /\ WorkloadsTyped(workloads)'
      BY <1>0, <2>1, DeletionKeeps, TypedUnchanged
  <2> QED
      BY <1>0, <2>1, <2>2, AdmittedUnchanged, TypedUnchanged,
         AdmittedPartsNext
<1>6. CASE Deliver
    BY <1>0, <1>6, AdmittedUnchanged, TypedUnchanged, AdmittedPartsNext
       DEF Deliver
<1>7. ASSUME NEW n \in Clusters, RollOutControlPlane(n)
      PROVE  AdmittedInv'
  <2>1. /\ held' = held /\ edits' = edits
        /\ clusters' = clusters /\ known' = known
        /\ pools' = pools /\ workloads' = workloads
      BY <1>7 DEF RollOutControlPlane
  <2>2. PlanesTyped(planes)'
      BY <1>0, <1>7, RollOutControlPlaneTyped
  <2> QED
      BY <1>0, <2>1, <2>2, AdmittedUnchanged, TypedUnchanged,
         AdmittedPartsNext
<1>8. ASSUME NEW p \in Pools, RollOutPool(p)
      PROVE  AdmittedInv'
  <2>1. /\ held' = held /\ edits' = edits
        /\ clusters' = clusters /\ known' = known
        /\ pools' = pools /\ planes' = planes
      BY <1>8 DEF RollOutPool
  <2>2. WorkloadsTyped(workloads)'
      BY <1>0, <1>8, RollOutPoolTyped
  <2> QED
      BY <1>0, <2>1, <2>2, AdmittedUnchanged, TypedUnchanged,
         AdmittedPartsNext
<1>9. ASSUME NEW n \in Clusters, Hold(n)
      PROVE  AdmittedInv'
  <2>1. /\ held' \subseteq Clusters /\ edits' = edits
        /\ clusters' = clusters /\ known' = known /\ pools' = pools
        /\ planes' = planes /\ workloads' = workloads
      BY <1>0, <1>9 DEF Hold
  <2> QED
      BY <1>0, <2>1, AdmittedUnchanged, TypedUnchanged, AdmittedPartsNext
<1>10. CASE UNCHANGED vars
    BY <1>0, <1>10, AdmittedUnchanged, TypedUnchanged, AdmittedPartsNext
       DEF vars
<1> QED
    BY <1>1, <1>2, <1>3, <1>4, <1>5, <1>6, <1>7, <1>8, <1>9,
       <1>10 DEF Next

\* Along every run, whatever is stored, cached and rolled out is well typed,
\* and what is stored was defaulted and is valid.
LEMMA AdmittedAlways == Spec => []AdmittedInv
BY AdmittedInit, AdmittedNext, PTL DEF Spec

\* Clusters, pools and what the controllers make of them always have
\* their types; no stored cluster is without a version, so that every control
\* plane and every workload has one.
THEOREM FleetTypeCorrect == Spec => []TypeOK
<1>1. AdmittedInv => TypeOK
    BY DEF AdmittedInv
<1> QED
    BY <1>1, AdmittedAlways, PTL

\* The webhooks' defaulting and validation fit each other: whatever
\* sequence of creations, updates and patches is admitted, what is stored
\* would be admitted again, unless its image no longer fits the cluster.
THEOREM StoredStaysAdmissible == Spec => []StoredIsReadmissible
<1>1. ASSUME AdmittedInv
      PROVE  StoredIsReadmissible
  <2>1. ASSUME NEW n \in DOMAIN clusters
        PROVE  /\ DefaultCluster(clusters[n].spec) = clusters[n].spec
               /\ ValidateClusterUpdate(clusters[n].spec, clusters[n].spec)
      BY <1>1, <2>1 DEF AdmittedInv, ClustersAdmitted, ValidateClusterUpdate
  <2>2. ASSUME NEW p \in DOMAIN pools
        PROVE  /\ DefaultPool(pools[p].spec) = pools[p].spec
               /\ \/ ValidatePoolUpdate(pools[p].spec, pools[p].spec)
                  \/ SkewError(pools[p].spec)
    <3>1. /\ DefaultPool(pools[p].spec) = pools[p].spec
          /\ ValidPool(pools[p].spec)
        BY <1>1, <2>2 DEF AdmittedInv, PoolsAdmitted, Admitted
    <3> QED
        BY <3>1 DEF ValidPool, ValidatePoolUpdate, ValidateWorkerPoolUpdate,
                    ValidateSnapshotPoolUpdate, SameStorageClass
  <2> QED
      BY <2>1, <2>2 DEF StoredIsReadmissible
<1> QED
    BY <1>1, AdmittedAlways, PTL

-----------------------------------------------------------------------------
(* Owners *)

\* No uid is larger than the number of requests so far: a new one is fresh.
UidsInv ==
    /\ \A n \in DOMAIN clusters : clusters[n].uid <= edits
    /\ \A n \in DOMAIN known : known[n].uid <= edits
    /\ \A p \in DOMAIN pools : pools[p].uid <= edits
    /\ \A n \in DOMAIN planes : planes[n].owner <= edits
    /\ \A p \in DOMAIN workloads : workloads[p].owner <= edits

\* A cluster in the cache is on the catalog of the stored one unless it is
\* another cluster of that name; and once the stored cluster owns a control
\* plane, the cache never shows a former cluster of its name again.
OwnersInv ==
    \A n \in DOMAIN clusters :
        /\ n \in DOMAIN known /\ known[n].uid = clusters[n].uid =>
              known[n].spec.host = clusters[n].spec.host
        /\ n \in DOMAIN planes /\ planes[n].owner = clusters[n].uid =>
              n \in DOMAIN known /\ known[n].uid = clusters[n].uid

\* The two halves of WorkloadsMatchTheirOwners.
PlanesMatch ==
    \A n \in DOMAIN planes \cap DOMAIN clusters :
        planes[n].owner = clusters[n].uid =>
            planes[n].host = clusters[n].spec.host

PoolsMatch ==
    \A p \in DOMAIN workloads \cap DOMAIN pools :
        workloads[p].owner = pools[p].uid =>
            /\ workloads[p].cluster = pools[p].spec.clusterRef
            /\ pools[p].spec.kind = "snapshot" =>
                  workloads[p].storageClass = pools[p].spec.storageClass

MatchInv == UidsInv /\ OwnersInv /\ PlanesMatch /\ PoolsMatch

LEMMA MatchInvIsEnough == MatchInv => WorkloadsMatchTheirOwners
BY DEF MatchInv, PlanesMatch, PoolsMatch, WorkloadsMatchTheirOwners, Orphaned

\* The uids and the owners are numbers.
LEMMA UidsTyped ==
    ASSUME TypeOK
    PROVE  /\ \A n \in DOMAIN clusters : clusters[n].uid \in Nat
           /\ \A n \in DOMAIN known : known[n].uid \in Nat
           /\ \A p \in DOMAIN pools : pools[p].uid \in Nat
           /\ \A n \in DOMAIN planes : planes[n].owner \in Nat
           /\ \A p \in DOMAIN workloads : workloads[p].owner \in Nat
           /\ edits \in Nat
BY DEF TypeOK, StoredObject

\* A cluster that is created owns nothing yet; one that is updated stays on
\* its catalog.
LEMMA MatchSubmitCluster ==
    ASSUME AdmittedInv, MatchInv, NEW n \in Clusters, SubmitCluster(n)
    PROVE  MatchInv'
<1>1. /\ edits' = edits + 1 /\ known' = known /\ pools' = pools
      /\ planes' = planes /\ workloads' = workloads
    BY DEF SubmitCluster, Edit
<1>2. PICK m : WritesCluster(n, m)
    BY SubmitClusterWrites
<1> DEFINE uid == IF n \in DOMAIN clusters THEN clusters[n].uid ELSE edits + 1
<1>3. /\ DOMAIN clusters' = DOMAIN clusters \cup {n}
      /\ clusters'[n] = [uid |-> uid, spec |-> m]
      /\ \A x \in DOMAIN clusters \ {n} : clusters'[x] = clusters[x]
    BY <1>2, ClusterWritten, TypeOKParts DEF AdmittedInv
<1>4. clusters'[n].uid = uid /\ clusters'[n].spec = m
    BY <1>3
<1>5. n \in DOMAIN clusters => clusters[n].spec.host = m.host
    BY <1>2 DEF WritesCluster
<1>6. /\ \A x \in DOMAIN clusters : clusters[x].uid \in Nat
      /\ \A x \in DOMAIN known : known[x].uid \in Nat
      /\ \A p \in DOMAIN pools : pools[p].uid \in Nat
      /\ \A x \in DOMAIN planes : planes[x].owner \in Nat
      /\ \A p \in DOMAIN workloads : workloads[p].owner \in Nat
      /\ edits \in Nat
    BY UidsTyped DEF AdmittedInv
<1>7. UidsInv'
  <2>1. \A x \in DOMAIN clusters' : clusters'[x].uid <= edits'
    <3> SUFFICES ASSUME NEW x \in DOMAIN clusters'
                 PROVE  clusters'[x].uid <= edits'
        OBVIOUS
    <3>1. CASE x = n
        BY <1>1, <1>4, <1>6, <3>1 DEF MatchInv, UidsInv
    <3>2. CASE x # n
        BY <1>1, <1>3, <1>6, <3>2 DEF MatchInv, UidsInv
    <3> QED
        BY <3>1, <3>2
  <2>2. /\ \A x \in DOMAIN known : known[x].uid <= edits + 1
        /\ \A p \in DOMAIN pools : pools[p].uid <= edits + 1
        /\ \A x \in DOMAIN planes : planes[x].owner <= edits + 1
        /\ \A p \in DOMAIN workloads : workloads[p].owner <= edits + 1
      BY <1>6 DEF MatchInv, UidsInv
  <2> QED
      BY <1>1, <2>1, <2>2 DEF UidsInv
<1>8. n \notin DOMAIN clusters =>
          /\ n \in DOMAIN known => known[n].uid # uid
          /\ n \in DOMAIN planes => planes[n].owner # uid
    BY <1>6 DEF MatchInv, UidsInv
<1>9. OwnersInv'
  <2> SUFFICES ASSUME NEW x \in DOMAIN clusters'
               PROVE  /\ x \in DOMAIN known /\ known[x].uid = clusters'[x].uid
                         => known[x].spec.host = clusters'[x].spec.host
                      /\ /\ x \in DOMAIN planes
                         /\ planes[x].owner = clusters'[x].uid
                         => x \in DOMAIN known /\ known[x].uid = clusters'[x].uid
      BY <1>1 DEF OwnersInv
  <2>1. CASE x # n
      BY <1>3, <2>1 DEF MatchInv, OwnersInv
  <2>2. CASE x = n /\ n \in DOMAIN clusters
      BY <1>4, <1>5, <2>2 DEF MatchInv, OwnersInv
  <2>3. CASE x = n /\ n \notin DOMAIN clusters
      BY <1>4, <1>8, <2>3
  <2> QED
      BY <2>1, <2>2, <2>3
<1>10. PlanesMatch'
  <2> SUFFICES ASSUME NEW x \in DOMAIN planes \cap DOMAIN clusters',
                      planes[x].owner = clusters'[x].uid
               PROVE  planes[x].host = clusters'[x].spec.host
      BY <1>1 DEF PlanesMatch
  <2>1. CASE x # n
      BY <1>3, <2>1 DEF MatchInv, PlanesMatch
  <2>2. CASE x = n /\ n \in DOMAIN clusters
      BY <1>4, <1>5, <2>2 DEF MatchInv, PlanesMatch
  <2>3. CASE x = n /\ n \notin DOMAIN clusters
      BY <1>4, <1>8, <2>3
  <2> QED
      BY <2>1, <2>2, <2>3
<1>11. PoolsMatch'
    BY <1>1 DEF MatchInv, PoolsMatch
<1> QED
    BY <1>7, <1>9, <1>10, <1>11 DEF MatchInv

\* A pool that is created owns nothing yet; one that is updated keeps its
\* cluster and, of a snapshot pool, its storage class.
LEMMA MatchWritePool ==
    ASSUME AdmittedInv, MatchInv, NEW p \in Pools,
           SubmitPool(p) \/ PatchImage(p)
    PROVE  MatchInv'
<1>1. /\ clusters' = clusters /\ known' = known
      /\ planes' = planes /\ workloads' = workloads
      /\ edits' \in {edits, edits + 1}
    BY DEF SubmitPool, PatchImage, Edit
<1>2. PICK m : WritesPool(p, m)
    BY SubmitPoolWrites, PatchImageWrites DEF AdmittedInv
<1> DEFINE uid == IF p \in DOMAIN pools THEN pools[p].uid ELSE edits + 1
<1>3. /\ DOMAIN pools' = DOMAIN pools \cup {p}
      /\ pools'[p] = [uid |-> uid, spec |-> m]
      /\ \A x \in DOMAIN pools \ {p} : pools'[x] = pools[x]
    BY <1>2, PoolWritten, TypeOKParts DEF AdmittedInv
<1>4. pools'[p].uid = uid /\ pools'[p].spec = m
    BY <1>3
<1>5. /\ p \in DOMAIN pools =>
            /\ pools[p].spec.kind = m.kind
            /\ pools[p].spec.clusterRef = m.clusterRef
            /\ m.kind = "snapshot" =>
                  pools[p].spec.storageClass = m.storageClass
      /\ p \notin DOMAIN pools => edits' = edits + 1
    BY <1>2 DEF WritesPool
<1>6. /\ \A x \in DOMAIN clusters : clusters[x].uid \in Nat
      /\ \A x \in DOMAIN known : known[x].uid \in Nat
      /\ \A x \in DOMAIN pools : pools[x].uid \in Nat
      /\ \A x \in DOMAIN planes : planes[x].owner \in Nat
      /\ \A x \in DOMAIN workloads : workloads[x].owner \in Nat
      /\ edits \in Nat
    BY UidsTyped DEF AdmittedInv
<1>7. UidsInv'
  <2>1. \A x \in DOMAIN pools' : pools'[x].uid <= edits'
    <3> SUFFICES ASSUME NEW x \in DOMAIN pools'
                 PROVE  pools'[x].uid <= edits'
        OBVIOUS
    <3>1. CASE x = p
        BY <1>1, <1>4, <1>5, <1>6, <3>1 DEF MatchInv, UidsInv
    <3>2. CASE x # p
        BY <1>1, <1>3, <1>6, <3>2 DEF MatchInv, UidsInv
    <3> QED
        BY <3>1, <3>2
  <2>2. /\ \A x \in DOMAIN clusters : clusters[x].uid <= edits'
        /\ \A x \in DOMAIN known : known[x].uid <= edits'
        /\ \A x \in DOMAIN planes : planes[x].owner <= edits'
        /\ \A x \in DOMAIN workloads : workloads[x].owner <= edits'
      BY <1>1, <1>6 DEF MatchInv, UidsInv
  <2> QED
      BY <1>1, <2>1, <2>2 DEF UidsInv
<1>8. p \notin DOMAIN pools => (p \in DOMAIN workloads => workloads[p].owner # uid)
    BY <1>6 DEF MatchInv, UidsInv
<1>9. OwnersInv' /\ PlanesMatch'
    BY <1>1 DEF MatchInv, OwnersInv, PlanesMatch
<1>10. PoolsMatch'
  <2> SUFFICES ASSUME NEW x \in DOMAIN workloads \cap DOMAIN pools',
                      workloads[x].owner = pools'[x].uid
               PROVE  /\ workloads[x].cluster = pools'[x].spec.clusterRef
                      /\ pools'[x].spec.kind = "snapshot" =>
                            workloads[x].storageClass =
                                pools'[x].spec.storageClass
      BY <1>1 DEF PoolsMatch
  <2>1. CASE x # p
      BY <1>3, <2>1 DEF MatchInv, PoolsMatch
  <2>2. CASE x = p /\ p \in DOMAIN pools
      BY <1>4, <1>5, <2>2 DEF MatchInv, PoolsMatch
  <2>3. CASE x = p /\ p \notin DOMAIN pools
      BY <1>4, <1>8, <2>3
  <2> QED
      BY <2>1, <2>2, <2>3
<1> QED
    BY <1>7, <1>9, <1>10 DEF MatchInv

\* What exists is brought to the catalog of the cluster in the cache, which is
\* that of the stored cluster if the control plane belongs to it.
LEMMA MatchRollOutControlPlane ==
    ASSUME AdmittedInv, MatchInv, NEW n \in Clusters, RollOutControlPlane(n)
    PROVE  MatchInv'
<1> DEFINE owner == IF n \in DOMAIN planes THEN planes[n].owner
                                           ELSE known[n].uid
           plane == [owner |-> owner, host |-> known[n].spec.host,
                     version |-> known[n].spec.version]
<1>1. /\ clusters' = clusters /\ known' = known /\ pools' = pools
      /\ workloads' = workloads /\ edits' = edits
      /\ n \in DOMAIN known
      /\ planes' = Stored(planes, n, plane)
    BY DEF RollOutControlPlane
<1>2. plane.owner = owner /\ plane.host = known[n].spec.host
    OBVIOUS
<1> HIDE DEF plane
<1>3. /\ DOMAIN planes' = DOMAIN planes \cup {n}
      /\ planes'[n] = plane
      /\ \A x \in DOMAIN planes \ {n} : planes'[x] = planes[x]
    BY <1>1 DEF Stored
<1>4. UidsInv'
  <2> SUFFICES ASSUME NEW x \in DOMAIN planes'
               PROVE  planes'[x].owner <= edits
      BY <1>1 DEF MatchInv, UidsInv
  <2>1. CASE x = n
      BY <1>1, <1>2, <1>3, <2>1 DEF MatchInv, UidsInv
  <2>2. CASE x # n
      BY <1>3, <2>2 DEF MatchInv, UidsInv
  <2> QED
      BY <2>1, <2>2
<1>5. OwnersInv'
  <2> SUFFICES ASSUME NEW x \in DOMAIN clusters, x \in DOMAIN planes',
                      planes'[x].owner = clusters[x].uid
               PROVE  x \in DOMAIN known /\ known[x].uid = clusters[x].uid
      BY <1>1 DEF MatchInv, OwnersInv
  <2>1. CASE x = n
      BY <1>1, <1>2, <1>3, <2>1 DEF MatchInv, OwnersInv
  <2>2. CASE x # n
      BY <1>3, <2>2 DEF MatchInv, OwnersInv
  <2> QED
      BY <2>1, <2>2
<1>6. PlanesMatch'
  <2> SUFFICES ASSUME NEW x \in DOMAIN planes' \cap DOMAIN clusters,
                      planes'[x].owner = clusters[x].uid
               PROVE  planes'[x].host = clusters[x].spec.host
      BY <1>1 DEF PlanesMatch
  <2>1. CASE x = n
    <3>1. known[n].uid = clusters[n].uid
        BY <1>2, <1>3, <2>1 DEF MatchInv, OwnersInv
    <3> QED
        BY <1>1, <1>2, <1>3, <2>1, <3>1 DEF MatchInv, OwnersInv
  <2>2. CASE x # n
      BY <1>3, <2>2 DEF MatchInv, PlanesMatch
  <2> QED
      BY <2>1, <2>2
<1>7. PoolsMatch'
    BY <1>1 DEF MatchInv, PoolsMatch
<1> QED
    BY <1>4, <1>5, <1>6, <1>7 DEF MatchInv

\* The template of a workload follows the pool; its claims stay what they were
\* when it was created, which the webhook makes up for.
LEMMA MatchRollOutPool ==
    ASSUME AdmittedInv, MatchInv, NEW p \in Pools, RollOutPool(p)
    PROVE  MatchInv'
<1> DEFINE m == pools[p].spec
           owner == IF p \in DOMAIN workloads THEN workloads[p].owner
                                              ELSE pools[p].uid
           class == IF p \in DOMAIN workloads THEN workloads[p].storageClass
                                              ELSE m.storageClass
           workload == [owner |-> owner, storageClass |-> class,
                        cluster |-> m.clusterRef, version |-> ImageVersion(m)]
<1>1. /\ clusters' = clusters /\ known' = known /\ pools' = pools
      /\ planes' = planes /\ edits' = edits
      /\ p \in DOMAIN pools
      /\ workloads' = Stored(workloads, p, workload)
    BY DEF RollOutPool
<1>2. /\ workload.owner = owner /\ workload.cluster = m.clusterRef
      /\ workload.storageClass = class
    OBVIOUS
<1> HIDE DEF workload
<1>3. /\ DOMAIN workloads' = DOMAIN workloads \cup {p}
      /\ workloads'[p] = workload
      /\ \A x \in DOMAIN workloads \ {p} : workloads'[x] = workloads[x]
    BY <1>1 DEF Stored
<1>4. UidsInv'
  <2> SUFFICES ASSUME NEW x \in DOMAIN workloads'
               PROVE  workloads'[x].owner <= edits
      BY <1>1 DEF MatchInv, UidsInv
  <2>1. CASE x = p
      BY <1>1, <1>2, <1>3, <2>1 DEF MatchInv, UidsInv
  <2>2. CASE x # p
      BY <1>3, <2>2 DEF MatchInv, UidsInv
  <2> QED
      BY <2>1, <2>2
<1>5. OwnersInv' /\ PlanesMatch'
    BY <1>1 DEF MatchInv, OwnersInv, PlanesMatch
<1>6. PoolsMatch'
  <2> SUFFICES ASSUME NEW x \in DOMAIN workloads' \cap DOMAIN pools,
                      workloads'[x].owner = pools[x].uid
               PROVE  /\ workloads'[x].cluster = pools[x].spec.clusterRef
                      /\ pools[x].spec.kind = "snapshot" =>
                            workloads'[x].storageClass =
                                pools[x].spec.storageClass
      BY <1>1 DEF PoolsMatch
  <2>1. CASE x = p
      BY <1>2, <1>3, <2>1 DEF MatchInv, PoolsMatch
  <2>2. CASE x # p
      BY <1>3, <2>2 DEF MatchInv, PoolsMatch
  <2> QED
      BY <2>1, <2>2
<1> QED
    BY <1>4, <1>5, <1>6 DEF MatchInv

\* Nothing is matched anew by a deletion.
LEMMA MatchDelete ==
    ASSUME AdmittedInv, MatchInv, edits' \in {edits, edits + 1},
           known' = known,
           clusters' = clusters \/ \E n : clusters' = Removed(clusters, n),
           pools' = pools \/ \E p : pools' = Removed(pools, p),
           planes' = planes \/ \E n : planes' = Removed(planes, n),
           workloads' = workloads \/ \E p : workloads' = Removed(workloads, p)
    PROVE  MatchInv'
<1>1. /\ DOMAIN clusters' \subseteq DOMAIN clusters
      /\ \A x \in DOMAIN clusters' : clusters'[x] = clusters[x]
    BY DEF Removed, Restrict
<1>2. /\ DOMAIN pools' \subseteq DOMAIN pools
      /\ \A x \in DOMAIN pools' : pools'[x] = pools[x]
    BY DEF Removed, Restrict
<1>3. /\ DOMAIN planes' \subseteq DOMAIN planes
      /\ \A x \in DOMAIN planes' : planes'[x] = planes[x]
    BY DEF Removed, Restrict
<1>4. /\ DOMAIN workloads' \subseteq DOMAIN workloads
      /\ \A x \in DOMAIN workloads' : workloads'[x] = workloads[x]
    BY DEF Removed, Restrict
<1>5. /\ \A x \in DOMAIN clusters : clusters[x].uid \in Nat
      /\ \A x \in DOMAIN known : known[x].uid \in Nat
      /\ \A x \in DOMAIN pools : pools[x].uid \in Nat
      /\ \A x \in DOMAIN planes : planes[x].owner \in Nat
      /\ \A x \in DOMAIN workloads : workloads[x].owner \in Nat
      /\ edits \in Nat
    BY UidsTyped DEF AdmittedInv
<1>6. UidsInv'
  <2>1. /\ \A x \in DOMAIN clusters : clusters[x].uid <= edits'
        /\ \A x \in DOMAIN known : known[x].uid <= edits'
        /\ \A x \in DOMAIN pools : pools[x].uid <= edits'
        /\ \A x \in DOMAIN planes : planes[x].owner <= edits'
        /\ \A x \in DOMAIN workloads : workloads[x].owner <= edits'
      BY <1>5 DEF MatchInv, UidsInv
  <2> QED
      BY <1>1, <1>2, <1>3, <1>4, <2>1 DEF UidsInv
<1>7. OwnersInv'
    BY <1>1, <1>3 DEF MatchInv, OwnersInv
<1>8. PlanesMatch'
    BY <1>1, <1>3 DEF MatchInv, PlanesMatch
<1>9. PoolsMatch'
    BY <1>2, <1>4 DEF MatchInv, PoolsMatch
<1> QED
    BY <1>6, <1>7, <1>8, <1>9 DEF MatchInv

LEMMA MatchNext ==
    AdmittedInv /\ MatchInv /\ [Next]_vars => MatchInv'
<1> SUFFICES ASSUME AdmittedInv, MatchInv, [Next]_vars
             PROVE  MatchInv'
    OBVIOUS
<1>1. ASSUME NEW n \in Clusters, SubmitCluster(n)
      PROVE  MatchInv'
    BY <1>1, MatchSubmitCluster
<1>2. ASSUME NEW n \in Clusters, DeleteCluster(n)
      PROVE  MatchInv'
  <2>1. /\ edits' = edits + 1 /\ known' = known /\ pools' = pools
        /\ planes' = planes /\ workloads' = workloads
        /\ clusters' = Removed(clusters, n)
      BY <1>2 DEF DeleteCluster, Edit
  <2> QED
      BY <2>1, MatchDelete
<1>3. ASSUME NEW p \in Pools, SubmitPool(p) \/ PatchImage(p)
      PROVE  MatchInv'
    BY <1>3, MatchWritePool
<1>4. ASSUME NEW p \in Pools, DeletePool(p)
      PROVE  MatchInv'
  <2>1. /\ edits' = edits + 1 /\ clusters' = clusters /\ known' = known
        /\ planes' = planes /\ workloads' = workloads
        /\ pools' = Removed(pools, p)
      BY <1>4 DEF DeletePool, Edit
  <2> QED
      BY <2>1, MatchDelete
<1>5. CASE Collect
  <2>1. /\ edits' = edits /\ clusters' = clusters /\ known' = known
        /\ pools' = pools
        /\ \/ planes' = planes
           \/ \E n : planes' = Removed(planes, n)
        /\ \/ workloads' = workloads
           \/ \E p : workloads' = Removed(workloads, p)
      BY <1>5 DEF Collect
  <2> QED
      BY <2>1, MatchDelete
<1>6. CASE Deliver
    BY <1>6 DEF Deliver, MatchInv, UidsInv, OwnersInv, PlanesMatch, PoolsMatch
<1>7. ASSUME NEW n \in Clusters, RollOutControlPlane(n)
      PROVE  MatchInv'
    BY <1>7, MatchRollOutControlPlane
<1>8. ASSUME NEW p \in Pools, RollOutPool(p)
      PROVE  MatchInv'
    BY <1>8, MatchRollOutPool
<1>9. ASSUME NEW n \in Clusters, Hold(n)
      PROVE  MatchInv'
    BY <1>9 DEF Hold, MatchInv, UidsInv, OwnersInv, PlanesMatch, PoolsMatch
<1>10. CASE UNCHANGED vars
    BY <1>10 DEF vars, MatchInv, UidsInv, OwnersInv, PlanesMatch, PoolsMatch
<1> QED
    BY <1>1, <1>2, <1>3, <1>4, <1>5, <1>6, <1>7, <1>8, <1>9,
       <1>10 DEF Next

\* A control plane never leaves the catalog of the cluster that owns it, nor a
\* workload the cluster and the storage class of the pool that owns it, however
\* clusters and pools are updated, deleted and created again under their names
\* and however far the cache of the manager is behind.
THEOREM WorkloadsStayWithTheirOwners == Spec => []WorkloadsMatchTheirOwners
<1>1. Init => MatchInv
    BY DEF Init, Nothing, MatchInv, UidsInv, OwnersInv, PlanesMatch,
           PoolsMatch
<1> QED
    BY <1>1, AdmittedAlways, MatchNext, MatchInvIsEnough, PTL DEF Spec

-----------------------------------------------------------------------------
(* Version skew *)

\* The tags users pin name the release that the image contains.  (Images
\* pinned to a digest name none.)
TagsNameTheRelease ==
    \A p \in Pools : \A m \in PoolRequests[p] :
        m.image.releases # <<>> =>
            Head(m.image.releases) = MajorMinor[m.image.version]

\* If users pin images by what they are, then the webhook of the pools does its
\* part for every version, image and manifest: where the cache is up to date,
\* no write of a pool makes its image differ in release from the cluster.
THEOREM PoolsNeverCauseSkew ==
    TagsNameTheRelease => (Spec => SkewComesFromClusters)
<1> DEFINE Caused == \A p \in DOMAIN pools' :
                         Skewed(p)' => p \in DOMAIN pools /\ Skewed(p)
<1>1. ASSUME TagsNameTheRelease, AdmittedInv, [Next]_vars,
             known = clusters, clusters' = clusters
      PROVE  Caused
  <2>1. ASSUME NEW p \in DOMAIN pools', p \in DOMAIN pools,
               pools'[p] = pools[p], Skewed(p)'
        PROVE  Skewed(p)
      BY <1>1, <2>1 DEF Skewed
  <2>2. CASE pools' = pools
      BY <2>1, <2>2
  <2>3. ASSUME NEW p \in Pools, SubmitPool(p)
        PROVE  Caused
    <3>1. PICK request \in PoolRequests[p] :
              LET m == DefaultPool(request)
              IN \/ /\ p \notin DOMAIN pools
                    /\ ValidatePoolCreate(m)
                    /\ pools' = Create(pools, p, m)
                 \/ /\ p \in DOMAIN pools
                    /\ ValidatePoolUpdate(pools[p].spec, m)
                    /\ pools' = Update(pools, p, m)
        BY <2>3 DEF SubmitPool
    <3>2. request \in PoolManifest
      <4>1. PoolRequests[p] \in SUBSET PoolManifest
          BY FleetAssumption
      <4> QED
          BY <4>1
    <3> DEFINE m == DefaultPool(request)
    <3>3. m \in PoolManifest /\ m.image = request.image
        BY <3>2, DefaultPoolIs
    <3>4. m.image.releases # <<>> =>
              Head(m.image.releases) = MajorMinor[m.image.version]
        BY <1>1, <3>3 DEF TagsNameTheRelease
    <3>5. ~SkewError(m)
        BY <3>1 DEF ValidatePoolCreate, ValidatePoolUpdate,
                    ValidateWorkerPoolUpdate, ValidateSnapshotPoolUpdate
    <3>6. /\ DOMAIN pools' = DOMAIN pools \cup {p}
          /\ pools'[p].spec = m
          /\ \A x \in DOMAIN pools \ {p} : pools'[x] = pools[x]
      <4>1. CASE pools' = Create(pools, p, m)
          BY <4>1 DEF Create, Stored
      <4>2. CASE p \in DOMAIN pools /\ pools' = Update(pools, p, m)
        <5>1. pools[p] \in StoredObject(PoolManifest)
            BY <1>1, <4>2, TypeOKParts DEF AdmittedInv, PoolsTyped
        <5>2. /\ DOMAIN Update(pools, p, m) = DOMAIN pools
              /\ Update(pools, p, m)[p] = [uid |-> pools[p].uid, spec |-> m]
              /\ \A x \in DOMAIN pools \ {p} :
                    Update(pools, p, m)[x] = pools[x]
            BY <4>2, <5>1, UpdateIs
        <5> QED
            BY <4>2, <5>2
      <4> QED
          BY <3>1, <4>1, <4>2
    <3> HIDE DEF m
    <3>7. ~Skewed(p)'
      <4> SUFFICES ASSUME m.image # NoImage, m.image.releases # <<>>,
                          m.clusterRef \in DOMAIN clusters
                   PROVE  MajorMinor[clusters[m.clusterRef].spec.version]
                              \in {Unparsed, MajorMinor[m.image.version]}
          BY <1>1, <3>6 DEF Skewed
      <4>1. m.image.releases \in Seq(Nat \ {0})
          BY <3>3, ImageFields DEF PoolManifest
      <4>2. Head(m.image.releases) # Unparsed
          BY <4>1 DEF Unparsed
      <4>3. ~VersionSkew(m.image, clusters[m.clusterRef].spec.version)
          BY <1>1, <3>5 DEF SkewError
      <4> QED
          BY <3>4, <4>2, <4>3
             DEF VersionSkew, MajorMinorFromImage, MajorMinorFromVersion
    <3> QED
        BY <2>1, <3>6, <3>7
  <2>4. ASSUME NEW p \in Pools, PatchImage(p)
        PROVE  Caused
    <3>1. Skewed(p) /\ p \in DOMAIN pools
        BY <2>4 DEF PatchImage
    <3>2. PICK m : WritesPool(p, m)
        BY <1>1, <2>4, PatchImageWrites DEF AdmittedInv
    <3>3. /\ DOMAIN pools' = DOMAIN pools \cup {p}
          /\ \A x \in DOMAIN pools \ {p} : pools'[x] = pools[x]
        BY <1>1, <3>2, PoolWritten, TypeOKParts DEF AdmittedInv
    <3> QED
        BY <2>1, <3>1, <3>3
  <2>5. ASSUME NEW p \in Pools, DeletePool(p)
        PROVE  Caused
    <3>1. /\ DOMAIN pools' = DOMAIN pools \ {p}
          /\ \A x \in DOMAIN pools' : pools'[x] = pools[x]
        BY <2>5 DEF DeletePool, Removed, Restrict
    <3> QED
        BY <2>1, <3>1
  <2>6. \/ pools' = pools
        \/ \E p \in Pools : SubmitPool(p) \/ PatchImage(p) \/ DeletePool(p)
      BY <1>1 DEF Next, vars, SubmitCluster, DeleteCluster, Collect, Deliver,
                  Hold, RollOutControlPlane, RollOutPool
  <2> QED
      BY <2>2, <2>3, <2>4, <2>5, <2>6
<1>2. ASSUME TagsNameTheRelease
      PROVE  Spec => SkewComesFromClusters
  <2>1. AdmittedInv /\ [Next]_vars =>
            [known = clusters /\ clusters' = clusters => Caused]_vars
      BY <1>1, <1>2
  <2> QED
      BY <2>1, AdmittedAlways, PTL DEF Spec, SkewComesFromClusters
<1> QED
    BY <1>2
=============================================================================
