SPECIFICATION Spec
CONSTANTS
    Versions = {1, 2}
    InitialVersion = 1
    InitJobs <- BothInitJobs
    HasWindow = FALSE
    Lagging = {"jobs"}
    Slow = {}
    Budget <- FaultyBudget
    EditsMidUpgrade = FALSE
    Rollbacks = FALSE
INVARIANTS
    InitializedMeansJobsRan
    MaintenanceBracketsUpgrade
