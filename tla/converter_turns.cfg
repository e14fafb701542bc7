SPECIFICATION Spec
CONSTANTS
    Procs = {p1, p2}
    Jobs = {j1}
    None = None
    p1 = p1
    p2 = p2
    j1 = j1
    MaxCrashes = 1
    MaxFailures = 1
    MaxLosses = 1
    StaleKinds = {}
INVARIANTS TypeOK OneConverter
 
