SPECIFICATION FairSpec
CONSTANTS
    Modules = {"collector", "converter"}
    MaxStarts = 2
    EarlyKill = FALSE
    EarlyChild = FALSE
INVARIANTS TypeOK NoOrphans
PROPERTIES EndedIsShown StopIsCarriedOut
CHECK_DEADLOCK FALSE
