\* A reorg two blocks deep exchanges two transactions: the token transfer of the one that moves to
\* the earlier height is lost.
SPECIFICATION WatchSpec

CONSTANTS
    t = t
    u = u
    v = v
    w = w
    x = x
    y = y
    g = g
    a1 = a1
    a2 = a2
    a3 = a3
    a4 = a4
    b1 = b1
    b2 = b2
    NoBlock = NoBlock
    Tx = {t, v}
    Block = {g, a1, a2, b1, b2}
    Transfer = {x, y}
    Base = 3
    MaxAttempts = 6
    MaxBackfill = 4
    WordSize = 16
    MaxTips = 3
    MaxDrops = 0
    MaxFailures = 0
    MaxRestarts = 0
    ParentOf <- MCParentOf
    Branch <- MCBranch
    Height <- MCHeight
    HeightOf <- MCHeightOf
    TxsOf <- DeepTxsOf
    TransfersOf <- DeepTransfersOf
    EmitterOf <- DeepEmitterOf
    SlotOf <- MCSlotOf
    WithRecipient <- MCWithRecipient

\* The node may stop producing heads: then the watcher waits for ever.
CHECK_DEADLOCK FALSE

INVARIANTS
    CanonicalTransfersStored
