SPECIFICATION FairSpec
CONSTANTS
    Versions = {1, 2}
    InitialVersion = 1
    MaxReplicas = 2
    InitialPools <- OneOfEach
    MaxDisturbances = 2
INVARIANTS
    TypeOK
    ReadyMeansApplied
    ReportedAtRest
PROPERTIES
    PoolConverges
