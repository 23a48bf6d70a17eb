\* The transfers of a loop are enriched by two workers, in every order; one call fails.
SPECIFICATION CircularSpec

CONSTANTS
    t1 = t1
    t2 = t2
    e1 = e1
    e2 = e2
    bc = bc
    cb = cb
    ba = ba
    a = a
    b = b
    c = c
    d = d
    Tx = {t1, t2}
    Leg = {e1, e2, bc, cb, ba}
    Ether = {e1, e2}
    Closing = {e1}
    Worker = {w1, w2}
    MaxHops = 3
    Window = 2
    MaxAttempts = 2
    MaxFaults = 1
    TxOf <- MCTxOf
    From <- MCFrom
    To <- MCTo
    Moment <- MCMoment

\* Once every job is settled nothing is left to do.
CHECK_DEADLOCK FALSE

INVARIANTS
    CircleIsFlagged
