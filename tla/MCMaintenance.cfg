\* Rows are stored just in time and late, windows start inside hours of two intervals, a statement
\* fails and the process restarts.
SPECIFICATION FairMaintenanceSpec

CONSTANTS
    t1 = t1
    t2 = t2
    a = a
    b = b
    Tx = {t1, t2}
    Address = {a, b}
    Null = Null
    Interval = 1
    Lookback = 2
    SkipWindow = 1
    BehaviorBatch = 2
    HourLength = 2
    RecentWindow = 4
    BackfillWindow = 6
    Latency = 1
    Ages = {1, 2}
    MaxTurn = 1
    MaxTime = 6
    MaxErrors = 1
    MaxRestarts = 1
    AddressesOf <- MCAddressesOf

INVARIANTS
    UnreflectedIsOwed

PROPERTIES
    RollupNeverShrinks
    RowsReachRollup
    AccountGetsVector
