\* Rows arrive with old and new timestamps while they are counted; one query fails.
SPECIFICATION FairLiveSpec

CONSTANTS
    Tx = {t1, t2}
    Client = {c1}
    Buffer = {p1, p2, p3, p4}
    Null = Null
    MaxTime = 1
    MaxFaults = 1

INVARIANTS
    NothingCountedTwice
    SleeperHasLatest

PROPERTIES
    ShownCountNeverFalls
    StreamCatchesUp
