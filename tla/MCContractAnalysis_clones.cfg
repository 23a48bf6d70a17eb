\* Labels and analyses at once; one call fails, one request is abandoned or the process restarts.
SPECIFICATION AnalysisSpec

CONSTANTS
    t1 = t1
    t2 = t2
    c1 = c1
    c2 = c2
    Tx = {t1, t2}
    Contract = {c1, c2}
    Legacy = {c2}
    Worker = {w1, w2}
    Investigator = {i1}
    EvaluateLimit = 1
    PropagateLimit = 1
    MaxAttempts = 2
    Fault = {"error", "abandon", "restart"}
    MaxFaults = 1
    Clones <- MCClones
    TargetOf <- MCTargetOf

\* Once every contract is analysed and nobody labels any more, nothing is left to do.
CHECK_DEADLOCK FALSE

INVARIANTS
    NoCloneEscapes
    FlagIsMarked
