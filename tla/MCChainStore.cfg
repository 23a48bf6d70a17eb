\* Every order of saves, two competing blocks per height.
SPECIFICATION StoreSpec

CONSTANTS
    t1 = t1
    t2 = t2
    t3 = t3
    x1 = x1
    x3 = x3
    a1 = a1
    b1 = b1
    a2 = a2
    b2 = b2
    Tx = {t1, t2, t3}
    Block = {a1, b1, a2, b2}
    Transfer = {x1, x3}
    NoBlock = NoBlock
    MaxAttempts = 2
    Height <- MCHeight
    HeightOf <- MCHeightOf
    TxsOf <- MCTxsOf
    TransfersOf <- MCTransfersOf
    EmitterOf <- MCEmitterOf
    SlotOf <- MCSlotOf
    WithRecipient <- MCWithRecipient

INVARIANTS
    MinedRowInStoredBlock
    TransferInStoredBlock

PROPERTIES
    RivalsSettleTogether
    MinedUntilReorg
    StoredWithJob
