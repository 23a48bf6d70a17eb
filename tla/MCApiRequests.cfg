\* Two requests of one client at a time, a minute of two ticks and a limit of two requests.
SPECIFICATION ApiSpec

CONSTANTS
    Request = {r1, r2}
    Client = {c1}
    Null = Null
    Path = {"hubs", "label"}
    Limit = 2
    Minute = 2
    Ttl = 1
    MaxWait = 1
    MaxLoad = 1
    MaxTime = 5
    MaxLabels = 1
    MaxErrors = 1
    MaxRestarts = 1

SYMMETRY Symmetry

INVARIANTS
    ApiTypeOK
    AtMostTwiceLimit
    RiskKeepsUp

PROPERTIES
    RefusedOnlyOverLimit
    LabelsVisible
