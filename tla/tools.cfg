SPECIFICATION Spec
CONSTANTS
    Lists <- MCLists
    Programs <- MCPrograms
    Users = {u1}
    Collector = collector
    u1 = u1
    Offset = 10
    MaxUploads = 2
    MaxDrops = 1
    MaxSteps = 2
    MaxStarts = 2
    MaxFaults = 1
INVARIANTS LinksAreRight ArchiveIsCurrent 
PROPERTIES OldFilesStayOut
CHECK_DEADLOCK FALSE
