SPECIFICATION Spec
CONSTANTS
    Versions = {1, 2, 3}
    InitialVersion = 1
    InitJobs <- OneInitJob
    HasWindow = FALSE
    Lagging = {}
    Slow = {}
    Budget <- TwoUpgrades
    EditsMidUpgrade = TRUE
    Rollbacks = FALSE
INVARIANT
    MaintenanceCompleteMeansResumed
