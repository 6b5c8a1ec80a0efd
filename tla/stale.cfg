SPECIFICATION HistorySpec
CONSTANTS
    Versions = {1, 2}
    InitialVersion = 1
    InitJobs <- OneInitJob
    HasWindow = FALSE
    Lagging = {"cluster", "jobs", "deployments"}
    Slow = {}
    Budget <- StaleBudget
    EditsMidUpgrade = FALSE
    Rollbacks = FALSE
INVARIANTS
    TypeOK
    UpgradeConditionTracksPhase
    DeployedAtRest
    InitJobsPrecedeRollout
PROPERTIES
    OnlyFailedJobsAreDeleted
    ImplementsProtocol
