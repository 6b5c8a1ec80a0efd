SPECIFICATION Spec
CONSTANTS
    Versions = {1, 2}
    InitialVersion = 1
    InitJobs <- OneInitJob
    HasWindow = TRUE
    Lagging = {"cluster"}
    Slow = {}
    Budget <- FenceBudget
    EditsMidUpgrade = FALSE
    Rollbacks = FALSE
INVARIANTS
    ManualUpgradesAreApproved
PROPERTIES
    FenceAcknowledged
