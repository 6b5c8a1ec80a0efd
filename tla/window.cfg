SPECIFICATION FairSpec
CONSTANTS
    Day = 5
    Minute = 2
    MaxDelay = 1
    Shifts = 1
INVARIANTS
    TypeOK
    OpenWindowIsNoticed
PROPERTIES
    StartsInsideWindow
    UpgradeStarts
