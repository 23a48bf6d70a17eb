\* A chain without reorgs, two dropped subscriptions, gaps longer than the backfill.
SPECIFICATION WatchSpec

CONSTANTS
    t = t
    u = u
    v = v
    w = w
    x = x
    y = y
    g = g
    a1 = a1
    a2 = a2
    a3 = a3
    a4 = a4
    b1 = b1
    b2 = b2
    NoBlock = NoBlock
    Tx = {t}
    Block = {g, a1, a2, a3, a4}
    Transfer = {}
    Base = 3
    MaxAttempts = 6
    MaxBackfill = 2
    WordSize = 16
    MaxTips = 5
    MaxDrops = 2
    MaxFailures = 0
    MaxRestarts = 0
    ParentOf <- MCParentOf
    Branch <- MCBranch
    Height <- MCHeight
    HeightOf <- MCHeightOf
    TxsOf <- LineTxsOf
    TransfersOf <- NoTransfersOf
    EmitterOf <- DeepEmitterOf
    SlotOf <- MCSlotOf
    WithRecipient <- MCWithRecipient

\* The node may stop producing heads: then the watcher waits for ever.
CHECK_DEADLOCK FALSE

INVARIANTS
    RecentBlocksCanonical
