------------------------------ MODULE MCFleet ------------------------------
(***************************************************************************)
(* A small instance of Fleet for TLC: one cluster, a worker pool and a      *)
(* snapshot pool, and versions of two releases.                             *)
(***************************************************************************)
EXTENDS Fleet, TLC

\* Versions 1 and 2 are patches of release 1, version 3 is release 2.
Releases == 1 :> 1 @@ 2 :> 1 @@ 3 :> 2

Tagged(v) == [version |-> v, releases |-> <<Releases[v]>>]

Digest == [version |-> 1, releases |-> <<>>]

SomeImages == {Tagged(1), Tagged(2), Tagged(3), Digest}

ClusterAt(v) ==
    [version |-> v, host |-> "catalog", missing |-> {}, unset |-> {"port"}]

\* Two installations and an upgrade to each release, another catalog, and a
\* manifest that lacks what it needs.
SomeClusters ==
    {ClusterAt(1), ClusterAt(2), ClusterAt(3),
     [ClusterAt(1) EXCEPT !.host = "other"],
     [ClusterAt(3) EXCEPT !.missing = {"temporal.address"}],
     [ClusterAt(1) EXCEPT !.version = NoVersion]}

Worker ==
    [kind |-> "worker", clusterRef |-> "peerdb", image |-> NoImage,
     autoscaling |-> FALSE, min |-> 0, max |-> 0,
     storageSize |-> 0, storageClass |-> Empty,
     unset |-> {"replicas", "targetCPU"}]

SnapshotPool ==
    [Worker EXCEPT !.kind = "snapshot", !.storageSize = 1,
                   !.storageClass = "fast",
                   !.unset = {"replicas", "gracePeriod"}]

SomePools ==
    "workers" :> {Worker,
                  [Worker EXCEPT !.image = Tagged(1)],
                  [Worker EXCEPT !.image = Tagged(3)],
                  [Worker EXCEPT !.image = Digest],
                  [Worker EXCEPT !.clusterRef = Empty],
                  [Worker EXCEPT !.clusterRef = "other"],
                  [Worker EXCEPT !.autoscaling = TRUE, !.max = 1],
                  [Worker EXCEPT !.autoscaling = TRUE, !.min = 2, !.max = 1]}
    @@
    "snapshots" :> {SnapshotPool,
                    [SnapshotPool EXCEPT !.image = Tagged(1)],
                    [SnapshotPool EXCEPT !.storageSize = 0],
                    [SnapshotPool EXCEPT !.storageClass = Empty]}
=============================================================================
