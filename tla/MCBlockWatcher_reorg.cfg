\* Reorgs up to three blocks deep, back and forth; everything fails once.
SPECIFICATION WatchSpec

CONSTANTS
    t = t
    u = u
    v = v
    w = w
    x = x
    y = y
    g = g
    a1 = a1
    a2 = a2
    a3 = a3
    a4 = a4
    b1 = b1
    b2 = b2
    NoBlock = NoBlock
    Tx = {t, u, v, w}
    Block = {g, a1, a2, a3, b1, b2}
    Transfer = {y}
    Base = 3
    MaxAttempts = 6
    MaxBackfill = 4
    WordSize = 16
    MaxTips = 4
    MaxDrops = 1
    MaxFailures = 1
    MaxRestarts = 1
    ParentOf <- MCParentOf
    Branch <- MCBranch
    Height <- MCHeight
    HeightOf <- MCHeightOf
    TxsOf <- ForkTxsOf
    TransfersOf <- ForkTransfersOf
    EmitterOf <- ForkEmitterOf
    SlotOf <- MCSlotOf
    WithRecipient <- MCWithRecipient

\* The node may stop producing heads: then the watcher waits for ever.
CHECK_DEADLOCK FALSE

INVARIANTS
    CanonicalTxsMined
    CanonicalTransfersStored

PROPERTIES
    HeadStoredUnlessFailed
