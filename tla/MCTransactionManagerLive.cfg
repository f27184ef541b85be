SPECIFICATION FairSpec
CONSTANTS
    NoTx = NoTx
    Tx = {t1, t2}
    TransactionIdStart = 20
    MaximumQueryId = 5
INVARIANT IInv
PROPERTIES
    AutoCommitCompletes
    GarbageIsCollected
CHECK_DEADLOCK FALSE
