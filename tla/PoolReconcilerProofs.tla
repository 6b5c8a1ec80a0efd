------------------------ MODULE PoolReconcilerProofs ------------------------
(***************************************************************************)
(* Theorems about the controllers of worker and snapshot pools, for every   *)
(* set of versions, number of replicas and number of disturbances.          *)
(***************************************************************************)
EXTENDS PoolReconciler, TLAPS

-----------------------------------------------------------------------------
(* Types *)

\* The numbers of replicas are natural numbers, the least of them 0.
LEMMA ReplicasType == Replicas \subseteq Nat /\ 0 \in Replicas
BY PoolAssumption DEF Replicas

\* What a pool and its snapshot begin with is well typed.
LEMMA NewTypes ==
    /\ \A n \in Replicas : NewPool(n) \in Pool
    /\ NoSnapshot \in Snapshot
    /\ NoWorkload \in Workload
    /\ NewReferenced \in ReferencedCluster
<1>1. ASSUME NEW n \in Replicas
      PROVE  NewPool(n) \in Pool
    BY ReplicasType DEF NewPool, Pool, PoolStatus, ReadyReasons
<1>2. NewReferenced \in ReferencedCluster
    BY VersionsAssumption DEF NewReferenced, ReferencedCluster
<1>3. NoSnapshot \in Snapshot
  <2>1. NewPool(0) \in Pool
      BY <1>1, ReplicasType
  <2>2. NewPool(0).status \in PoolStatus
      BY <2>1 DEF Pool
  <2> QED
      BY <1>2, <2>1, <2>2 DEF NoSnapshot, Snapshot
<1>4. NoWorkload \in Workload
    BY ReplicasType DEF NoWorkload, Workload, NoVersion
<1> QED
    BY <1>1, <1>2, <1>3, <1>4

\* Asking for another spec of a workload gives a workload that differs from
\* it in the spec and the progress of its rollout only.
LEMMA AskForType ==
    ASSUME NEW w \in Workload, NEW v \in Versions \cup {NoVersion},
           NEW h \in Nat, NEW n \in Replicas
    PROVE  /\ AskFor(w, v, h, n) \in Workload
           /\ AskFor(w, v, h, n).exists = w.exists
           /\ AskFor(w, v, h, n).version = v
           /\ AskFor(w, v, h, n).replicas = n
<1> DEFINE new == [w EXCEPT !.version = v, !.hash = h, !.replicas = n]
<1>1. /\ new \in Workload /\ new.exists = w.exists
      /\ new.version = v /\ new.replicas = n
    BY DEF Workload
<1>2. CASE new = w
    BY <1>1, <1>2 DEF AskFor
<1>3. CASE new # w
  <2>1. AskFor(w, v, h, n) = [new EXCEPT !.rollout = "pending"]
      BY <1>3 DEF AskFor
  <2> HIDE DEF new
  <2> QED
      BY <1>1, <2>1 DEF Workload
<1> QED
    BY <1>2, <1>3

\* The fields of what a reconcile has read.
LEMMA SnapshotFields ==
    ASSUME TypeOK
    PROVE  /\ snap.read \in Pool /\ snap.read.replicas \in Replicas
           /\ snap.read.pinned \in BOOLEAN /\ snap.read.generation \in Nat
           /\ snap.read.status \in PoolStatus
           /\ snap.cluster \in ReferencedCluster
           /\ snap.cluster.version \in Versions
           /\ snap.cluster.backup \in BOOLEAN
           /\ snap.hash \in Nat
           /\ snap.status \in PoolStatus
           /\ snap.stale \in BOOLEAN
           /\ ImageVersion \in Versions \cup {NoVersion}
BY DEF TypeOK, Snapshot, Pool, ReferencedCluster, ImageVersion

\* The workload as created, and as updated.
LEMMA BuiltTypes ==
    ASSUME TypeOK
    PROVE  /\ Built \in Workload /\ Built.exists
           /\ \A w \in Workload :
                 /\ Updated(w) \in Workload
                 /\ Updated(w).exists = w.exists
                 /\ Updated(w).version = ImageVersion
                 /\ autoscaling \/ Updated(w).replicas = snap.read.replicas
<1>1. Built \in Workload /\ Built.exists
    BY SnapshotFields, ReplicasType DEF Built, NoWorkload, Workload
<1>2. ASSUME NEW w \in Workload
      PROVE  /\ Updated(w) \in Workload
             /\ Updated(w).exists = w.exists
             /\ Updated(w).version = ImageVersion
             /\ autoscaling \/ Updated(w).replicas = snap.read.replicas
  <2> DEFINE n == IF autoscaling THEN w.replicas ELSE snap.read.replicas
  <2>1. n \in Replicas
      BY SnapshotFields DEF Workload
  <2>2. autoscaling \/ n = snap.read.replicas
      OBVIOUS
  <2>3. Updated(w) = AskFor(w, ImageVersion, snap.hash, n)
      BY DEF Updated
  <2> HIDE DEF n
  <2>4. ImageVersion \in Versions \cup {NoVersion} /\ snap.hash \in Nat
      BY SnapshotFields
  <2>5. /\ Updated(w) \in Workload
        /\ Updated(w).exists = w.exists
        /\ Updated(w).version = ImageVersion
        /\ Updated(w).replicas = n
    <3> DEFINE i == ImageVersion
               h == snap.hash
    <3>1. i \in Versions \cup {NoVersion} /\ h \in Nat
        BY <2>4
    <3> HIDE DEF i, h
    <3>2. /\ AskFor(w, i, h, n) \in Workload
          /\ AskFor(w, i, h, n).exists = w.exists
          /\ AskFor(w, i, h, n).version = i
          /\ AskFor(w, i, h, n).replicas = n
        BY <2>1, <3>1, AskForType
    <3> QED
        BY <2>3, <3>2 DEF i, h
  <2> QED
      BY <2>2, <2>5, Zenon
<1> QED
    BY <1>1, <1>2

\* The status computed from a workload.
LEMMA StatusFromType ==
    ASSUME TypeOK, NEW w \in Workload
    PROVE  StatusFrom(w) \in PoolStatus
<1>1. (IF IsReady(w) THEN "True" ELSE "NotReady") \in ReadyReasons
    BY DEF ReadyReasons
<1> QED
    BY <1>1, SnapshotFields DEF StatusFrom, PoolStatus, Workload

\* Replacing the status in what a reconcile holds.
LEMMA SnapshotStatus ==
    ASSUME TypeOK, NEW st \in PoolStatus
    PROVE  [snap EXCEPT !.status = st] \in Snapshot
BY DEF TypeOK, Snapshot

\* The state before the first reconcile has its type.
LEMMA PoolInitTypeOK == Init => TypeOK
<1> SUFFICES ASSUME Init PROVE TypeOK
    OBVIOUS
<1>1. PICK p \in InitialPools :
         kind = p.kind /\ autoscaling = p.autoscaling
            /\ pool = NewPool(p.replicas)
    BY DEF Init
<1>2. /\ kind \in {"worker", "snapshot"} /\ autoscaling \in BOOLEAN
      /\ pool \in Pool
    BY <1>1, PoolAssumption, NewTypes DEF Replicas
<1> QED
    BY <1>2, NewTypes, PoolAssumption DEF Init, TypeOK, Stages

\* The end of a reconcile drops what it has read.
LEMMA PoolReturnType ==
    ASSUME Return
    PROVE  pc' \in Stages /\ snap' \in Snapshot
BY NewTypes DEF Return, Stages

\* The first step reads what the caches show.
LEMMA PoolStartType ==
    ASSUME TypeOK, StartReconcile
    PROVE  TypeOK'
<1>1. poolCache.status \in PoolStatus /\ poolCache.generation \in Nat
    BY DEF TypeOK, Pool
<1> DEFINE missing == [poolCache.status EXCEPT
                          !.observed = poolCache.generation,
                          !.ready = "ClusterNotFound"]
<1>2. missing \in PoolStatus
    BY <1>1 DEF PoolStatus, ReadyReasons
<1>3. (IF cluster.exists THEN poolCache.status ELSE missing) \in PoolStatus
    BY <1>1, <1>2
<1> HIDE DEF missing
<1>4. snap' \in Snapshot
    BY <1>3 DEF StartReconcile, Snapshot, TypeOK, missing
<1> QED
    BY <1>4 DEF StartReconcile, TypeOK, Stages, fixed, caches, bounds

\* Creating the workload keeps the types.
LEMMA CreateType ==
    ASSUME TypeOK, CreateWorkload
    PROVE  TypeOK'
<1>1. CASE ReturnError /\ UNCHANGED <<workload, lag>>
    BY <1>1, PoolReturnType
    DEF CreateWorkload, ReturnError, TypeOK, fixed, caches, bounds
<1>2. CASE ~workload.exists /\ WriteWorkload(Built) /\ pc' = "saveLogged"
           /\ snap' = [snap EXCEPT !.status.observed = snap.read.generation,
                                   !.status.ready = "Created"]
           /\ UNCHANGED queued
  <2>1. snap' \in Snapshot
      BY <1>2, SnapshotFields
      DEF TypeOK, Snapshot, PoolStatus, ReadyReasons
  <2> QED
      BY <1>2, <2>1, BuiltTypes
      DEF CreateWorkload, WriteWorkload, TypeOK, Stages, fixed, caches, bounds
<1> QED
    BY <1>1, <1>2 DEF CreateWorkload

\* Updating the workload keeps the types.
LEMMA UpdateType ==
    ASSUME TypeOK, UpdateWorkload
    PROVE  TypeOK'
<1>0. workload \in Workload /\ workloadCache \in Workload
    BY DEF TypeOK
<1>1. CASE ReturnError /\ UNCHANGED <<workload, lag>>
    BY <1>1, PoolReturnType
    DEF UpdateWorkload, ReturnError, TypeOK, fixed, caches, bounds
<1>2. CASE /\ WriteWorkload(Updated(workload)) /\ pc' = "save"
           /\ snap' = [snap EXCEPT !.status = StatusFrom(workload)]
           /\ UNCHANGED queued
  <2>1. snap' \in Snapshot /\ Updated(workload) \in Workload
      BY <1>0, <1>2, StatusFromType, SnapshotStatus, BuiltTypes
  <2> QED
      BY <1>2, <2>1
      DEF UpdateWorkload, WriteWorkload, TypeOK, Stages, fixed, caches, bounds
<1>3. CASE /\ snap' = [snap EXCEPT !.status = StatusFrom(workloadCache)]
           /\ pc' = "save" /\ UNCHANGED <<workload, lag, queued>>
  <2>1. snap' \in Snapshot
      BY <1>0, <1>3, StatusFromType, SnapshotStatus
  <2> QED
      BY <1>3, <2>1
      DEF UpdateWorkload, TypeOK, Stages, fixed, caches, bounds
<1> QED
    BY <1>1, <1>2, <1>3 DEF UpdateWorkload

\* Publishing the status keeps the pool a pool, and its cache not behind
\* unless lag says so.
LEMMA UpdateStatusType ==
    ASSUME TypeOK, UpdateStatus
    PROVE  /\ pool' \in Pool
           /\ lag' \in {lag, lag \cup {"pool"}}
           /\ "pool" \in lag' \/ pool' = pool
BY SnapshotFields DEF UpdateStatus, TypeOK, Pool

\* The ends of a reconcile keep the types.
LEMMA PoolSaveType ==
    ASSUME TypeOK, SaveStatus \/ SaveStatusLogged \/ Fault
    PROVE  TypeOK'
<1>1. CASE SaveStatus \/ SaveStatusLogged
  <2>1. /\ pool' \in Pool
        /\ lag' \in {lag, lag \cup {"pool"}}
        /\ "pool" \in lag' \/ pool' = pool
      BY <1>1, UpdateStatusType DEF SaveStatus, SaveStatusLogged, TypeOK
  <2>2. queued' \in BOOLEAN
      BY <1>1 DEF SaveStatus, SaveStatusLogged, TypeOK
  <2> QED
      BY <1>1, <2>1, <2>2, PoolReturnType
      DEF SaveStatus, SaveStatusLogged, TypeOK, fixed, caches, bounds
<1>2. CASE Fault
    BY <1>2, PoolReturnType
    DEF Fault, Spend, ReturnError, TypeOK, fixed, caches
<1> QED
    BY <1>1, <1>2

\* Deliveries and the resync keep the types.
LEMMA PoolInformersType ==
    ASSUME TypeOK, Resync \/ \E o \in lag : Deliver(o)
    PROVE  TypeOK'
<1>1. CASE Resync
    BY <1>1 DEF Resync, TypeOK, fixed, caches, bounds
<1>2. ASSUME NEW o \in lag, Deliver(o)
      PROVE  TypeOK'
  <2>1. o \in {"pool", "workload"}
      BY DEF TypeOK
  <2> QED
      BY <1>2, <2>1 DEF Deliver, TypeOK, Enqueuing, fixed, bounds
<1> QED
    BY <1>1, <1>2

\* The workload's controller and everybody else who writes the workload.
LEMMA WorkloadBecomesType ==
    ASSUME TypeOK, NEW w \in Workload, WorkloadBecomes(w),
           budget' \in Nat, touched' \in BOOLEAN
    PROVE  TypeOK'
BY DEF WorkloadBecomes, TypeOK, fixed, caches, control

\* Rollouts keep the spec of the workload; so does a pod that fails.
LEMMA RolloutTypes ==
    ASSUME TypeOK, RolloutStarts \/ RolloutEnds \/ PodFails
    PROVE  /\ TypeOK'
           /\ workload'.exists = workload.exists
           /\ workload'.version = workload.version
           /\ workload'.replicas = workload.replicas
           /\ touched' = touched
<1>0. workload \in Workload /\ workload.replicas \in Replicas
    BY DEF TypeOK, Workload
<1> DEFINE SameSpec(w) == /\ w \in Workload
                          /\ w.exists = workload.exists
                          /\ w.version = workload.version
                          /\ w.replicas = workload.replicas
<1>1. CASE RolloutStarts
  <2>1. PICK n \in 0..workload.replicas :
           WorkloadBecomes([workload EXCEPT !.current = workload.replicas,
                                            !.ready = n,
                                            !.rollout = "started"])
      BY <1>1 DEF RolloutStarts
  <2>2. n \in Replicas
      BY <1>0, PoolAssumption DEF Replicas
  <2>3. SameSpec([workload EXCEPT !.current = workload.replicas, !.ready = n,
                                  !.rollout = "started"])
      BY <1>0, <2>2 DEF Workload
  <2> QED
      BY <1>1, <2>1, <2>3, WorkloadBecomesType
      DEF RolloutStarts, bounds, TypeOK, WorkloadBecomes
<1>2. CASE RolloutEnds
  <2>1. SameSpec([workload EXCEPT !.ready = workload.replicas,
                                  !.rollout = "done"])
      BY <1>0 DEF Workload
  <2> QED
      BY <1>2, <2>1, WorkloadBecomesType
      DEF RolloutEnds, bounds, TypeOK, WorkloadBecomes
<1>3. CASE PodFails
  <2>1. workload.ready - 1 \in Replicas
      BY <1>0, <1>3, PoolAssumption DEF PodFails, Workload, Replicas
  <2>2. SameSpec([workload EXCEPT !.ready = @ - 1, !.rollout = "started"])
      BY <1>0, <2>1 DEF Workload
  <2>3. budget' \in Nat /\ touched' = touched
      BY <1>3 DEF PodFails, Spend, TypeOK
  <2> QED
      BY <1>3, <2>2, <2>3, WorkloadBecomesType
      DEF PodFails, TypeOK, WorkloadBecomes
<1> QED
    BY <1>1, <1>2, <1>3

\* The autoscaler and whoever interferes with the workload keep the types,
\* and are remembered.
LEMMA InterferenceTypes ==
    ASSUME TypeOK, Autoscale \/ Drift
    PROVE  TypeOK' /\ touched' = TRUE
<1>1. budget' \in Nat /\ touched' = TRUE
    BY DEF Autoscale, Drift, Spend, TypeOK
<1>2. ASSUME NEW n \in Replicas
      PROVE  Scaled(n) \in Workload
  <2>1. /\ workload.version \in Versions \cup {NoVersion}
        /\ workload.hash \in Nat /\ workload \in Workload
      BY DEF TypeOK, Workload
  <2> QED
      BY <1>2, <2>1, AskForType DEF Scaled
<1>3. PICK w \in Workload : WorkloadBecomes(w)
    BY <1>2, NewTypes, ReplicasType DEF Autoscale, Drift
<1> QED
    BY <1>1, <1>3, WorkloadBecomesType

\* The user's edits keep the types.
LEMMA EditTypes ==
    ASSUME TypeOK, EditPool \/ EditCluster \/ SetSecret
    PROVE  TypeOK'
<1>0. budget' \in Nat /\ touched' \in BOOLEAN
  <2>1. budget' \in Nat
    <3>1. Spend
        BY DEF EditPool, EditCluster, SetSecret
    <3> QED
        BY <3>1 DEF Spend, TypeOK
  <2>2. touched' = touched \/ touched' = TRUE
      BY DEF EditPool, EditCluster, SetSecret
  <2> QED
      BY <2>1, <2>2 DEF TypeOK
<1>1. CASE EditPool
  <2>0. pool.generation + 1 \in Nat /\ (~pool.pinned) \in BOOLEAN
      BY DEF TypeOK, Pool
  <2>1. pool' \in Pool
    <3>1. ASSUME NEW n \in Replicas,
                 pool' = [pool EXCEPT !.generation = @ + 1, !.replicas = n]
          PROVE  pool' \in Pool
        BY <2>0, <3>1 DEF TypeOK, Pool
    <3>2. CASE pool' = [pool EXCEPT !.generation = @ + 1, !.pinned = ~@]
        BY <2>0, <3>2 DEF TypeOK, Pool
    <3> QED
        BY <1>1, <3>1, <3>2 DEF EditPool
  <2> QED
      BY <1>0, <1>1, <2>1 DEF EditPool, TypeOK, fixed, caches, control
<1>2. CASE EditCluster
  <2>1. cluster' \in ReferencedCluster
      BY <1>2
      DEF EditCluster, ClusterBecomes, TypeOK, ReferencedCluster
  <2> QED
      BY <1>0, <1>2, <2>1
      DEF EditCluster, ClusterBecomes, TypeOK, fixed, caches, control
<1>3. CASE SetSecret
    BY <1>0, <1>3 DEF SetSecret, TypeOK, fixed, caches, control
<1> QED
    BY <1>1, <1>2, <1>3

\* Every step keeps the types.
LEMMA PoolStepTypeOK == TypeOK /\ [Next]_vars => TypeOK'
<1> SUFFICES ASSUME TypeOK, [Next]_vars PROVE TypeOK'
    OBVIOUS
<1>1. CASE Reconcile \/ Fault
    BY <1>1, PoolStartType, CreateType, UpdateType, PoolSaveType
    DEF Reconcile
<1>2. CASE Resync \/ \E o \in lag : Deliver(o)
    BY <1>2, PoolInformersType
<1>3. CASE Kubernetes \/ User
    BY <1>3, RolloutTypes, InterferenceTypes, EditTypes DEF Kubernetes, User
<1>4. CASE UNCHANGED vars
    BY <1>4 DEF TypeOK, vars
<1> QED
    BY <1>1, <1>2, <1>3, <1>4 DEF Next

\* Every variable of a pool's controller keeps its type, and a cache that is
\* not behind shows the object as it is.
THEOREM PoolTypeCorrect == Spec => []TypeOK
BY PoolInitTypeOK, PoolStepTypeOK, PTL DEF Spec

-----------------------------------------------------------------------------
(* What Ready says of the workload *)

SameSpec(p, q) == p.replicas = q.replicas /\ p.pinned = q.pinned

\* The generations that the status, the reconcile in flight, the cache and the
\* API server know come in this order, and a generation has one spec: a
\* reconcile that reads an outdated pool cannot follow one that has observed
\* the latest.
GenerationsInv ==
    /\ pool.status.observed <= poolCache.generation
    /\ poolCache.generation <= pool.generation
    /\ poolCache.generation = pool.generation => SameSpec(poolCache, pool)
    /\ pc # "idle" =>
          /\ pool.status.observed <= snap.read.generation
          /\ snap.read.generation <= poolCache.generation
          /\ snap.read.generation = poolCache.generation =>
                SameSpec(snap.read, poolCache)
    /\ pc \in {"save", "saveLogged"} =>
          snap.status.observed = snap.read.generation

\* The workload runs what the spec of pool p says.
HasSpecOf(p) ==
    /\ workload.exists
    /\ (workload.version = NoVersion) = p.pinned
    /\ autoscaling \/ workload.replicas = p.replicas

\* As long as nobody else has written the workload and no fence was up: what
\* is about to be published as ready, and what is published, is the case.
AppliedInv ==
    ~touched =>
        /\ ~cluster.backup
        /\ pc # "idle" => ~snap.cluster.backup
        /\ pool.status.ready = "True"
             /\ pool.status.observed = pool.generation => HasSpecOf(pool)
        /\ pc = "save" => HasSpecOf(snap.read)
        /\ pc = "saveLogged" => snap.status.ready # "True"

\* The generations that are compared are natural numbers.
LEMMA GenerationTypes ==
    ASSUME TypeOK
    PROVE  /\ pool.generation \in Nat /\ poolCache.generation \in Nat
           /\ snap.read.generation \in Nat
           /\ pool.status.observed \in Nat /\ poolCache.status.observed \in Nat
           /\ snap.status.observed \in Nat
           /\ pool.status \in PoolStatus
BY DEF TypeOK, Pool, Snapshot, PoolStatus

\* A step that leaves the pool, its cache and the reconcile in flight alone,
\* or ends the reconcile.
LEMMA GenerationsLeftAlone ==
    ASSUME GenerationsInv, UNCHANGED <<pool, poolCache>>,
           UNCHANGED <<pc, snap>> \/ pc' = "idle"
    PROVE  GenerationsInv'
BY DEF GenerationsInv, SameSpec

\* A reconcile begins with the generation that the cache shows.
LEMMA GenerationsStart ==
    ASSUME TypeOK, GenerationsInv, StartReconcile
    PROVE  GenerationsInv'
<1>1. /\ UNCHANGED <<pool, poolCache>> /\ snap'.read = poolCache
      /\ pc' \in {"apply", "saveLogged"}
    BY DEF StartReconcile, caches
<1>2. pc' = "saveLogged" => snap'.status.observed = poolCache.generation
    BY DEF StartReconcile, TypeOK, Pool, PoolStatus
<1> QED
    BY <1>1, <1>2, GenerationTypes DEF GenerationsInv, SameSpec

\* The workload is written; the status to be published observes the
\* generation that was read.
LEMMA GenerationsApply ==
    ASSUME TypeOK, GenerationsInv, CreateWorkload \/ UpdateWorkload
    PROVE  GenerationsInv'
<1>0. UNCHANGED <<pool, poolCache>> /\ pc = "apply"
    BY DEF CreateWorkload, UpdateWorkload, caches
<1>1. CASE ReturnError
    BY <1>0, <1>1, GenerationsLeftAlone DEF ReturnError, Return
<1>2. CASE ~ReturnError
  <2>1. /\ snap'.read = snap.read
        /\ snap'.status.observed = snap.read.generation
    <3>1. CASE CreateWorkload
      <4>1. snap' = [snap EXCEPT !.status.observed = snap.read.generation,
                                 !.status.ready = "Created"]
          BY <1>2, <3>1 DEF CreateWorkload
      <4> QED
          BY <4>1, SnapshotFields DEF Snapshot, TypeOK, PoolStatus
    <3>2. CASE UpdateWorkload
      <4>1. PICK w : snap' = [snap EXCEPT !.status = StatusFrom(w)]
          BY <1>2, <3>2 DEF UpdateWorkload
      <4> QED
          BY <4>1 DEF Snapshot, TypeOK, StatusFrom
    <3> QED
        BY <3>1, <3>2
  <2> QED
      BY <1>0, <2>1 DEF GenerationsInv, SameSpec
<1> QED
    BY <1>1, <1>2

\* Publishing the status: the pool is still the one that was read, so its
\* generation and spec are.
LEMMA GenerationsSave ==
    ASSUME TypeOK, GenerationsInv, SaveStatus \/ SaveStatusLogged
    PROVE  GenerationsInv'
<1>1. /\ pc \in {"save", "saveLogged"} /\ pc' = "idle"
      /\ UNCHANGED poolCache
    BY DEF SaveStatus, SaveStatusLogged, Return, caches
<1>2. CASE UNCHANGED pool
    BY <1>1, <1>2, GenerationsLeftAlone
<1>3. CASE pool' # pool
  <2>1. pool' = [pool EXCEPT !.status = snap.status]
      BY <1>3 DEF SaveStatus, SaveStatusLogged, UpdateStatus
  <2>2. /\ pool'.generation = pool.generation
        /\ pool'.replicas = pool.replicas /\ pool'.pinned = pool.pinned
        /\ pool'.status.observed = snap.status.observed
      BY <2>1 DEF TypeOK, Pool
  <2> QED
      BY <1>1, <2>2, GenerationTypes DEF GenerationsInv, SameSpec
<1> QED
    BY <1>2, <1>3

\* A delivery brings the cache to the latest generation.
LEMMA GenerationsDeliver ==
    ASSUME TypeOK, GenerationsInv, NEW o \in lag, Deliver(o)
    PROVE  GenerationsInv'
<1>1. UNCHANGED <<pool, pc, snap>> /\ poolCache' \in {pool, poolCache}
    BY DEF Deliver
<1>2. CASE poolCache' = poolCache
    BY <1>1, <1>2, GenerationsLeftAlone
<1>3. CASE poolCache' = pool
    BY <1>1, <1>3, GenerationTypes DEF GenerationsInv, SameSpec
<1> QED
    BY <1>1, <1>2, <1>3

\* An edit makes a generation that nobody has read.
LEMMA GenerationsEdit ==
    ASSUME TypeOK, GenerationsInv, EditPool
    PROVE  GenerationsInv'
<1>1. UNCHANGED <<poolCache, pc, snap>>
    BY DEF EditPool, caches, control
<1>2. /\ pool'.generation = pool.generation + 1
      /\ pool'.status = pool.status
    BY DEF EditPool, TypeOK, Pool
<1> QED
    BY <1>1, <1>2, GenerationTypes DEF GenerationsInv, SameSpec

\* Every step keeps the order of the generations.
LEMMA GenerationsStep ==
    TypeOK /\ GenerationsInv /\ [Next]_vars => GenerationsInv'
<1> SUFFICES ASSUME TypeOK, GenerationsInv, [Next]_vars
             PROVE  GenerationsInv'
    OBVIOUS
<1>1. CASE Reconcile
    BY <1>1, GenerationsStart, GenerationsApply, GenerationsSave DEF Reconcile
<1>2. CASE \E o \in lag : Deliver(o)
    BY <1>2, GenerationsDeliver
<1>3. CASE EditPool
    BY <1>3, GenerationsEdit
<1>4. CASE Fault \/ Resync \/ Kubernetes \/ Drift \/ EditCluster \/ SetSecret
           \/ UNCHANGED vars
  <2>1. /\ UNCHANGED <<pool, poolCache>>
        /\ UNCHANGED <<pc, snap>> \/ pc' = "idle"
      BY <1>4
      DEF Fault, ReturnError, Return, Resync, Kubernetes, RolloutStarts,
          RolloutEnds, PodFails, Autoscale, Drift, WorkloadBecomes,
          EditCluster, ClusterBecomes, SetSecret, vars, caches, control
  <2> QED
      BY <2>1, GenerationsLeftAlone
<1> QED
    BY <1>1, <1>2, <1>3, <1>4 DEF Next, User

\* The generations are in order whatever the informer delivers late and
\* whichever reconciles fail.
THEOREM GenerationsInOrder == Spec => []GenerationsInv
<1>1. Init => GenerationsInv
  <2> SUFFICES ASSUME Init PROVE GenerationsInv
      OBVIOUS
  <2>1. PICK n : pool = NewPool(n)
      BY DEF Init
  <2> QED
      BY <2>1 DEF Init, GenerationsInv, SameSpec, NewPool
<1> QED
    BY <1>1, PoolTypeCorrect, GenerationsStep, PTL DEF Spec

\* A step that leaves pool, cluster and reconcile alone, or ends the reconcile,
\* and does not change the spec of the workload.
LEMMA AppliedLeftAlone ==
    ASSUME AppliedInv, UNCHANGED <<pool, cluster, autoscaling>>,
           touched' \/ touched' = touched,
           UNCHANGED <<pc, snap>> \/ pc' = "idle",
           /\ workload'.exists = workload.exists
           /\ workload'.version = workload.version
           /\ workload'.replicas = workload.replicas
    PROVE  AppliedInv'
BY DEF AppliedInv, HasSpecOf

\* A reconcile begins; one without a cluster has nothing ready to report.
LEMMA AppliedStart ==
    ASSUME TypeOK, AppliedInv, StartReconcile
    PROVE  AppliedInv'
<1>1. /\ UNCHANGED <<pool, cluster, autoscaling, workload, touched>>
      /\ pc' \in {"apply", "saveLogged"} /\ snap'.cluster = cluster
    BY DEF StartReconcile, fixed, bounds
<1>2. pc' = "saveLogged" => snap'.status.ready = "ClusterNotFound"
    BY DEF StartReconcile, TypeOK, Pool, PoolStatus
<1> QED
    BY <1>1, <1>2 DEF AppliedInv, HasSpecOf

\* No pool without a workload is reported ready; a new one is not either.
LEMMA AppliedCreate ==
    ASSUME TypeOK, AppliedInv, CreateWorkload
    PROVE  AppliedInv'
<1>0. UNCHANGED <<pool, cluster, autoscaling, touched>> /\ pc = "apply"
    BY DEF CreateWorkload, fixed, bounds
<1>1. CASE ReturnError /\ UNCHANGED workload
    BY <1>0, <1>1, AppliedLeftAlone DEF ReturnError, Return
<1>2. CASE ~(ReturnError /\ UNCHANGED workload)
  <2>1. /\ ~workload.exists /\ pc' = "saveLogged"
        /\ snap' = [snap EXCEPT !.status.observed = snap.read.generation,
                                !.status.ready = "Created"]
      BY <1>2 DEF CreateWorkload
  <2>2. snap'.status.ready = "Created" /\ snap'.cluster = snap.cluster
      BY <2>1, SnapshotFields DEF Snapshot, TypeOK, PoolStatus
  <2> QED
      BY <1>0, <2>1, <2>2 DEF AppliedInv, HasSpecOf
<1> QED
    BY <1>1, <1>2

\* The update that is always sent gives the workload the spec that was read.
LEMMA UpdateApplies ==
    ASSUME TypeOK, "workload" \notin lag, workloadCache.exists,
           workload' = Updated(workload), UNCHANGED autoscaling
    PROVE  /\ workload'.exists
           /\ (workload'.version = NoVersion) = snap.read.pinned
           /\ autoscaling' \/ workload'.replicas = snap.read.replicas
<1>1. workload = workloadCache /\ workload \in Workload
    BY DEF TypeOK
<1>2. /\ workload'.exists
      /\ workload'.version = ImageVersion
      /\ autoscaling \/ workload'.replicas = snap.read.replicas
    BY <1>1, BuiltTypes
<1>3. (ImageVersion = NoVersion) = snap.read.pinned
    BY SnapshotFields, VersionsAssumption DEF ImageVersion, NoVersion
<1> QED
    BY <1>2, <1>3

\* A reconcile that has read an older generation than the one observed is
\* impossible, so updating the workload never takes it away from a pool that
\* is reported ready.
LEMMA AppliedUpdate ==
    ASSUME TypeOK, GenerationsInv, AppliedInv, UpdateWorkload
    PROVE  AppliedInv'
<1>0. UNCHANGED <<pool, cluster, autoscaling, touched>> /\ pc = "apply"
    BY DEF UpdateWorkload, fixed, bounds
<1>1. CASE ReturnError /\ UNCHANGED workload
    BY <1>0, <1>1, AppliedLeftAlone DEF ReturnError, Return
<1>2. CASE touched
    BY <1>0, <1>2 DEF AppliedInv
<1>3. CASE ~touched /\ ~(ReturnError /\ UNCHANGED workload)
  <2>1. ~Fenced /\ NeedsUpdate
      BY <1>0, <1>3 DEF AppliedInv, Fenced, NeedsUpdate
  <2>2. /\ "workload" \notin lag /\ workloadCache.exists
        /\ workload' = Updated(workload) /\ pc' = "save"
        /\ snap' = [snap EXCEPT !.status = StatusFrom(workload)]
      BY <1>3, <2>1 DEF UpdateWorkload, WriteWorkload
  <2>3. snap'.read = snap.read /\ snap'.cluster = snap.cluster
      BY <2>2 DEF TypeOK, Snapshot
  <2>4. /\ workload'.exists
        /\ (workload'.version = NoVersion) = snap.read.pinned
        /\ autoscaling' \/ workload'.replicas = snap.read.replicas
      BY <1>0, <2>2, UpdateApplies
  <2>5. pool.status.observed = pool.generation => SameSpec(snap.read, pool)
      BY <1>0, GenerationTypes DEF GenerationsInv, SameSpec
  <2> QED
      BY <1>0, <1>3, <2>2, <2>3, <2>4, <2>5
      DEF AppliedInv, HasSpecOf, SameSpec
<1> QED
    BY <1>1, <1>2, <1>3

\* What is published is the status of the pool that was read, and the workload
\* has its spec.
LEMMA AppliedSave ==
    ASSUME TypeOK, AppliedInv, SaveStatus \/ SaveStatusLogged
    PROVE  AppliedInv'
<1>1. /\ UNCHANGED <<cluster, autoscaling, touched, workload>>
      /\ pc \in {"save", "saveLogged"} /\ pc' = "idle"
    BY DEF SaveStatus, SaveStatusLogged, Return, fixed, bounds
<1>2. CASE UNCHANGED pool
    BY <1>1, <1>2, AppliedLeftAlone
<1>3. CASE pool' # pool
  <2>1. pool = snap.read /\ pool' = [pool EXCEPT !.status = snap.status]
      BY <1>3
      DEF SaveStatus, SaveStatusLogged, UpdateStatus, StatusConflict
  <2>2. /\ pool'.replicas = pool.replicas /\ pool'.pinned = pool.pinned
        /\ pool'.status = snap.status
      BY <2>1 DEF TypeOK, Pool
  <2> QED
      BY <1>1, <2>1, <2>2 DEF AppliedInv, HasSpecOf
<1> QED
    BY <1>2, <1>3

\* After an edit the latest generation has not been observed.
LEMMA AppliedEdit ==
    ASSUME TypeOK, GenerationsInv, AppliedInv, EditPool
    PROVE  AppliedInv'
<1>1. UNCHANGED <<cluster, autoscaling, workload, pc, snap, touched>>
    BY DEF EditPool, fixed, control
<1>2. /\ pool'.generation = pool.generation + 1
      /\ pool'.status = pool.status
    BY DEF EditPool, TypeOK, Pool
<1>3. pool'.status.observed # pool'.generation
    BY <1>2, GenerationTypes DEF GenerationsInv
<1> QED
    BY <1>1, <1>3 DEF AppliedInv, HasSpecOf

\* The cluster and the secret change; a fence is remembered.
LEMMA AppliedOthers ==
    ASSUME TypeOK, AppliedInv,
           \/ EditCluster \/ SetSecret \/ Fault \/ Resync
           \/ \E o \in lag : Deliver(o)
    PROVE  AppliedInv'
<1>1. CASE EditCluster
  <2>1. UNCHANGED <<pool, autoscaling, workload, pc, snap>>
      BY <1>1 DEF EditCluster, ClusterBecomes, fixed, control
  <2>2. \/ touched' = TRUE
        \/ touched' = touched /\ cluster'.backup = cluster.backup
      BY <1>1 DEF EditCluster, ClusterBecomes, TypeOK, ReferencedCluster
  <2> QED
      BY <2>1, <2>2 DEF AppliedInv, HasSpecOf
<1>2. CASE SetSecret \/ Fault \/ Resync \/ \E o \in lag : Deliver(o)
  <2>1. /\ UNCHANGED <<pool, cluster, autoscaling, workload, touched>>
        /\ UNCHANGED <<pc, snap>> \/ pc' = "idle"
      BY <1>2
      DEF SetSecret, Fault, ReturnError, Return, Resync, Deliver, fixed,
          control, bounds
  <2> QED
      BY <2>1, AppliedLeftAlone
<1> QED
    BY <1>1, <1>2

\* Every step keeps what Ready says true.
LEMMA AppliedStep ==
    TypeOK /\ GenerationsInv /\ AppliedInv /\ [Next]_vars => AppliedInv'
<1> SUFFICES ASSUME TypeOK, GenerationsInv, AppliedInv, [Next]_vars
             PROVE  AppliedInv'
    OBVIOUS
<1>1. CASE Reconcile
    BY <1>1, AppliedStart, AppliedCreate, AppliedUpdate, AppliedSave
    DEF Reconcile
<1>2. CASE RolloutStarts \/ RolloutEnds \/ PodFails
  <2>1. UNCHANGED <<pool, cluster, autoscaling, pc, snap>>
      BY <1>2
      DEF RolloutStarts, RolloutEnds, PodFails, WorkloadBecomes, fixed,
          control
  <2> QED
      BY <1>2, <2>1, RolloutTypes, AppliedLeftAlone
<1>3. CASE Autoscale \/ Drift
    BY <1>3, InterferenceTypes DEF AppliedInv
<1>4. CASE EditPool
    BY <1>4, AppliedEdit
<1>5. CASE \/ EditCluster \/ SetSecret \/ Fault \/ Resync
           \/ \E o \in lag : Deliver(o)
    BY <1>5, AppliedOthers
<1>6. CASE UNCHANGED vars
    BY <1>6, AppliedLeftAlone DEF vars
<1> QED
    BY <1>1, <1>2, <1>3, <1>4, <1>5, <1>6 DEF Next, Kubernetes, User

\* A pool that reports Ready for its latest generation runs that generation's
\* image and replicas: neither an outdated cache nor a retried or failed
\* reconcile makes the pool controllers say so too early.
THEOREM ReadyIsRight == Spec => []ReadyMeansApplied
<1>1. Init => AppliedInv
  <2> SUFFICES ASSUME Init PROVE AppliedInv
      OBVIOUS
  <2>1. PICK n : pool = NewPool(n)
      BY DEF Init
  <2> QED
      BY <2>1 DEF Init, AppliedInv, NewPool, NewReferenced
<1>2. AppliedInv => ReadyMeansApplied
    BY DEF AppliedInv, HasSpecOf, ReadyMeansApplied
<1> QED
    BY <1>1, <1>2, PoolTypeCorrect, GenerationsInOrder, AppliedStep, PTL
    DEF Spec

-----------------------------------------------------------------------------
(* What holds when the controller sleeps *)

\* No event is on its way, and none is in the queue.
Fresh == ~queued /\ lag = {}

\* As long as nothing has happened since it was begun, a reconcile works on the
\* pool as it is, and the status it is about to save is that of the workload.
RestInv ==
    /\ Fresh /\ pc \in {"apply", "save"} => snap.read = pool /\ ~snap.stale
    /\ Fresh /\ pc = "save" =>
          workload.exists /\ snap.status = StatusFrom(workload)
    /\ ReportedAtRest

\* What a step does after which no event is on its way: one that changes the
\* pool or the workload, or delivers such a change, makes an event or queues
\* the pool.
LEMMA FreshMoves ==
    ASSUME TypeOK, [Next]_vars, Fresh'
    PROVE  \/ Fresh /\ UNCHANGED <<kind, pool, workload, pc, snap>>
           \/ lag = {} /\ StartReconcile
           \/ UpdateWorkload \/ SaveStatus
<1>0. ~queued' /\ lag' = {}
    BY DEF Fresh
<1>1. CASE \E o \in lag : Deliver(o)
  <2>1. PICK o \in lag : Deliver(o)
      BY <1>1
  <2> QED
      BY <1>0, <2>1 DEF Deliver, Enqueuing, TypeOK
<1>2. CASE Resync \/ Fault \/ SaveStatusLogged
    BY <1>0, <1>2 DEF Resync, Fault, ReturnError, SaveStatusLogged
<1>3. CASE CreateWorkload
  <2>1. /\ ~workload.exists /\ WriteWorkload(Built)
      BY <1>0, <1>3 DEF CreateWorkload, ReturnError
  <2> QED
      BY <1>0, <2>1, BuiltTypes DEF WriteWorkload
<1>4. CASE Kubernetes \/ Drift \/ EditPool
    BY <1>0, <1>4
    DEF Kubernetes, RolloutStarts, RolloutEnds, PodFails, Autoscale, Drift,
        WorkloadBecomes, EditPool
<1>5. CASE EditCluster \/ SetSecret \/ UNCHANGED vars
    BY <1>0, <1>5
    DEF Fresh, EditCluster, ClusterBecomes, SetSecret, vars, fixed, control
<1>6. CASE StartReconcile
    BY <1>0, <1>6 DEF StartReconcile
<1> QED
    BY <1>1, <1>2, <1>3, <1>4, <1>5, <1>6 DEF Next, Reconcile, User

\* An update that leaves the workload alone, and the status computed from it.
LEMMA RestUpdate ==
    ASSUME TypeOK, RestInv, UpdateWorkload, Fresh'
    PROVE  RestInv'
<1>1. /\ pc = "apply" /\ pc' = "save" /\ UNCHANGED <<kind, pool, workload>>
      /\ Fresh /\ workloadCache.exists
    BY DEF UpdateWorkload, ReturnError, WriteWorkload, Fresh, fixed
<1>2. workloadCache = workload
    BY <1>1 DEF TypeOK, Fresh
<1>3. snap' = [snap EXCEPT !.status = StatusFrom(workload)]
    BY <1>1, <1>2 DEF UpdateWorkload, ReturnError, Return
<1>4. /\ snap'.read = snap.read /\ snap'.stale = snap.stale
      /\ snap'.status = StatusFrom(workload)
    BY <1>3 DEF TypeOK, Snapshot
<1>5. StatusFrom(workload)' = StatusFrom(workload)
    BY <1>1, <1>4 DEF StatusFrom, IsReady
<1> QED
    BY <1>1, <1>2, <1>4, <1>5 DEF RestInv, ReportedAtRest, AtRest

\* Saving lets the controller sleep only if there was nothing to write.
LEMMA RestSave ==
    ASSUME TypeOK, RestInv, SaveStatus, Fresh'
    PROVE  RestInv'
<1>1. /\ pc = "save" /\ pc' = "idle" /\ UNCHANGED <<kind, workload>>
      /\ ~queued /\ lag' = {} /\ snap.status.ready = "True"
      /\ snap.status # snap.read.status => ~StatusConflict /\ UpdateStatus
      /\ snap.status = snap.read.status => UNCHANGED <<pool, lag>>
    BY DEF SaveStatus, Return, Fresh, fixed
<1>2. snap.status = snap.read.status
  <2> SUFFICES ASSUME snap.status # snap.read.status PROVE FALSE
      OBVIOUS
  <2>1. pool = snap.read /\ UpdateStatus /\ ~StatusConflict
      BY <1>1 DEF StatusConflict
  <2> QED
      BY <1>1, <2>1 DEF UpdateStatus
<1>3. Fresh /\ UNCHANGED pool
    BY <1>1, <1>2 DEF Fresh
<1>4. /\ workload.exists /\ snap.read = pool
      /\ pool.status = StatusFrom(workload)
    BY <1>1, <1>2, <1>3 DEF RestInv
<1>5. IsReady(workload)
    BY <1>1, <1>2, <1>4 DEF StatusFrom
<1>6. \/ kind = "worker" /\ workload.ready > 0
            /\ workload.ready = workload.current
      \/ kind = "snapshot" /\ pool.replicas \in {0, workload.ready}
    BY <1>4, <1>5 DEF IsReady, TypeOK
<1>7. pool.status = [observed |-> pool.generation, ready |-> "True",
                     replicas |-> workload.current,
                     readyReplicas |-> workload.ready]
    BY <1>4, <1>5 DEF StatusFrom
<1> QED
    BY <1>1, <1>3, <1>4, <1>6, <1>7 DEF RestInv, ReportedAtRest

LEMMA RestStep == TypeOK /\ RestInv /\ [Next]_vars => RestInv'
<1> SUFFICES ASSUME TypeOK, RestInv, [Next]_vars PROVE RestInv'
    OBVIOUS
<1>1. CASE ~Fresh'
    BY <1>1 DEF RestInv, ReportedAtRest, AtRest, Fresh
<1>2. CASE Fresh /\ UNCHANGED <<kind, pool, workload, pc, snap>>
  <2>1. StatusFrom(workload)' = StatusFrom(workload)
      BY <1>2 DEF StatusFrom, IsReady
  <2> QED
      BY <1>2, <2>1 DEF RestInv, ReportedAtRest, AtRest, Fresh
<1>3. CASE lag = {} /\ StartReconcile
    BY <1>3 DEF StartReconcile, TypeOK, RestInv, ReportedAtRest, AtRest
<1> QED
    BY <1>1, <1>2, <1>3, FreshMoves, RestUpdate, RestSave

\* A pool whose controller sleeps has published what is the case, whoever else
\* writes the workload, whatever the caches miss and whichever requests fail.
THEOREM RestIsReported == Spec => []ReportedAtRest
<1>1. Init => RestInv
    BY DEF Init, RestInv, ReportedAtRest, AtRest
<1>2. RestInv => ReportedAtRest
    BY DEF RestInv
<1> QED
    BY <1>1, <1>2, RestStep, PoolTypeCorrect, PTL DEF Spec

=============================================================================
