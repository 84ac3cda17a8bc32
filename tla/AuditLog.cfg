CONSTANTS
    t1 = t1
    t2 = t2
    e1 = e1
    NoTxn = NoTxn
    Txn = {t1, t2}
    Endpoint = {e1}
    EventTxn = {t1}
    Id = {0, 1, 2, 3}
    MaxAppends = 2
    MaxTime = 2
    Skew = 1
SPECIFICATION FairSpec
INVARIANTS
    TypeOK
    ChainLinear
    AllOrNothing
    VerificationIsSound
PROPERTIES
    EveryTxnEnds
CHECK_DEADLOCK FALSE
