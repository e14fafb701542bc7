SPECIFICATION Spec
CONSTANTS
    Jobs = {"j1", "j2", "j3"}
    Programs = {"P1", "P2"}
    Hashes = {"h1", "h2"}
    ProgramOf <- MixedPrograms
    TdmsNameOf <- MixedPrograms
    NcOf <- MixedContents
    Comes <- OneTdms
    Legacy <- OldPlans
    MaxPlans = 6
    MaxCrashes = 1
INVARIANTS TypeOK UniqueIdentity NoOrphanPlans 
PROPERTIES JobsStay
