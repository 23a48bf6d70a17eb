\* An outage, a failed call and a restart.
SPECIFICATION FairQueueSpec

CONSTANTS
    t1 = t1
    t2 = t2
    xa = xa
    xb = xb
    xm = xm
    a1 = a1
    b1 = b1
    Tx = {t1}
    Block = {a1, b1}
    Transfer = {xa, xb, xm}
    Worker = {w1, w2}
    NoBlock = NoBlock
    MaxAttempts = 2
    RequireNeo4j = TRUE
    MaxOutages = 1
    MaxErrors = 1
    MaxRestarts = 1
    Height <- MCHeight
    HeightOf <- MCHeightOf
    TxsOf <- MCTxsOf
    TransfersOf <- MCTransfersOf
    EmitterOf <- MCEmitterOf
    SlotOf <- MCSlotOf
    WithRecipient <- MCWithRecipient
    WithCalldata <- MCWithCalldata
    MintOrBurn <- MCMintOrBurn

INVARIANTS
    NothingMissed
    UnprojectedTransferIsOwed

PROPERTIES
    ImplementsOutbox
    SentOrParked
    TransfersReachGraph
