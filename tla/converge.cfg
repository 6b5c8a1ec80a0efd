SPECIFICATION FairSpec
CONSTANTS
    Versions = {1, 2}
    InitialVersion = 1
    InitJobs <- OneInitJob
    HasWindow = FALSE
    Lagging = {"jobs"}
    Slow = {"UI"}
    Budget <- ConvergeBudget
    EditsMidUpgrade = TRUE
    Rollbacks = FALSE
INVARIANTS
    BackupSafeAtRest
PROPERTIES
    Converges
