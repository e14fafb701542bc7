SPECIFICATION Spec
CONSTANTS
    Jobs = {"j1"}
    XmlFiles = {"x"}
    TdmsFiles = {"t"}
    CadFiles = {}
    ToolFiles = {}
    JobOf <- MCJobOf
    Modules = {"collector"}
    VaultAt = "beside"
    Selections <- MCSelections
    MaxResets = 2
    MaxStarts = 2
    MaxDeletes = 1
INVARIANTS RefillsAfterReset SweepsAfterRows BackupComesBack
 
