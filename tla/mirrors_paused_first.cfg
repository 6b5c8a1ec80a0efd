SPECIFICATION Spec
CONSTANTS
    Versions = {1, 2}
    InitialVersion = 1
    InitJobs <- OneInitJob
    HasWindow = FALSE
    Lagging = {}
    Slow = {}
    Budget <- OneUpgrade
    EditsMidUpgrade = FALSE
    Rollbacks = FALSE
PROPERTY
    MirrorsPausedBeforeRestart
