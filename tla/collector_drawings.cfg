SPECIFICATION Spec
CONSTANTS
    Jobs = {"j1"}
    XmlFiles = {}
    NcFiles = {}
    LogFiles = {"l"}
    EtcFiles = {"e"}
    CadFiles = {"c"}
    JobOf <- MCJobOf
    Drops <- DropRoot
    MaxVer = 1
    CacheSize = 4
    MaxDeletes = 1
    MaxCrashes = 0
    Env = {"pause", "parsers", "busy", "copied"}
PROPERTIES NothingIsParsedTwice
CHECK_DEADLOCK FALSE
