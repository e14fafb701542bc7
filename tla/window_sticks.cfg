SPECIFICATION Spec
CONSTANTS
    None = None
    NoTime = NoTime
    NoBlock = NoBlock
    NoProgram = NoProgram
    Blocks <- FiveBlocks
    Markers = {"head"}
    Cutting = {"a", "b", "c"}
    Pause = 20
    MaxAttempts = 2
    MaxBlemishes = 1
    MaxUpsets = 0
    XmlKinds = {{"start", "end"}}
    Search = 2
    MinPoints = 3
    Offsets <- ClockErrors
    Zone = 9
    Files = {"tdms","nc"}
    NamedBy = {}
    Racing = FALSE
INVARIANTS NcDecides
CHECK_DEADLOCK FALSE
