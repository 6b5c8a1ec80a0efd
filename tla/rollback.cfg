SPECIFICATION Spec
CONSTANTS
    Versions = {1, 2}
    InitialVersion = 1
    InitJobs <- OneInitJob
    HasWindow = FALSE
    Lagging = {}
    Slow = {}
    Budget <- ThereAndBackAgain
    EditsMidUpgrade = FALSE
    Rollbacks = TRUE
INVARIANT
    MaintenanceBracketsUpgrade
