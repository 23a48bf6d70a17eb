\* Every graph of four nodes; one run is interrupted anywhere and another one follows.
SPECIFICATION FairRepairSpec

CONSTANTS
    upper = upper
    lower = lower
    other = other
    blank = blank
    k = k
    Node = {1, 2, 3, 4}
    Spelling = {upper, lower, other, blank}
    Blank = blank
    Key = {k}
    BatchSizes = {1, 2}
    MaxStops = 1
    MaxRuns = 2
    Normal <- MCNormal
    Graph <- MCGraph

\* A process ends.
CHECK_DEADLOCK FALSE

INVARIANTS
    RepairTypeOK
    FailsOnlyUnrepairable

PROPERTIES
    FlowsKept
    RepairTerminates
