SPECIFICATION Spec
CONSTANTS
    Jobs = {"j1"}
    XmlFiles = {"x"}
    NcFiles = {"n"}
    LogFiles = {}
    EtcFiles = {}
    CadFiles = {}
    JobOf <- MCJobOf
    Drops <- DropRoot
    MaxVer = 2
    CacheSize = 1
    MaxDeletes = 0
    MaxCrashes = 1
    Env = {"offline", "bad"}
INVARIANTS Accounted 
CHECK_DEADLOCK FALSE
