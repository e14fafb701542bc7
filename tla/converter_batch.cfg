SPECIFICATION FairSpec
CONSTANTS
    Procs = {p1}
    Jobs = {j1, j2}
    None = None
    p1 = p1
    j1 = j1
    j2 = j2
    MaxCrashes = 1
    MaxFailures = 0
    MaxLosses = 0
    StaleKinds = {"dead"}
INVARIANTS WindowMatchesParquet SettledParquetIsCurrent
PROPERTIES EveryJobIsConverted
