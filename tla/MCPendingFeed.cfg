\* A block and a sweep among pending transactions; the subscription drops, the database hangs,
\* and the process is told to stop.
SPECIFICATION FairPendingSpec

CONSTANTS
    w1 = w1
    w2 = w2
    block = block
    maintenance = maintenance
    Session = {w1, w2, block, maintenance}
    Worker = {w1, w2}
    Block = block
    Maintenance = maintenance
    MaxAttempts = 2
    Tx = {1, 2, 3, 4}
    Address = {1, 2}
    AccountsOf <- MCAccountsOf
    Invalid = {3}
    BlockPlans <- MCBlockPlans
    InBuffer = 1
    OutBuffer = 1
    JobsBuffer = 1
    Limits <- MCLimits

\* The process stops.
CHECK_DEADLOCK FALSE

INVARIANTS
    PendingTypeOK
    FeedAccounted
    CyclesNeedABlock

PROPERTIES
    FeedIsRead
    SavesEnd
    ShutdownCompletes
