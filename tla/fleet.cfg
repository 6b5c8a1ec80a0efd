SPECIFICATION FairSpec
CONSTANTS
    Versions = {1, 2, 3}
    InitialVersion = 1
    MajorMinor <- Releases
    Images <- SomeImages
    Clusters = {"peerdb"}
    Pools = {"workers", "snapshots"}
    ClusterRequests <- SomeClusters
    PoolRequests <- SomePools
    MaxEdits = 5
CHECK_DEADLOCK FALSE
INVARIANTS
    TypeOK
    StoredIsReadmissible
    WorkloadsMatchTheirOwners
PROPERTIES
    SkewComesFromClusters
    FleetAgrees
