SPECIFICATION FairSpec
CONSTANTS
    Jobs = {"j1"}
    XmlFiles = {}
    NcFiles = {}
    LogFiles = {"l"}
    EtcFiles = {}
    CadFiles = {}
    JobOf <- MCJobOf
    Drops <- DropRoot
    MaxVer = 2
    CacheSize = 2
    MaxDeletes = 2
    MaxCrashes = 0
    Env = {"folder"}
INVARIANTS TypeOK
PROPERTIES CollectorKeepsNewest DropsAreIngested 
CHECK_DEADLOCK FALSE
