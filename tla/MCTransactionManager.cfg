SPECIFICATION Spec
CONSTANTS
    NoTx = NoTx
    Tx = {t1, t2, t3}
    TransactionIdStart = 20
    MaximumQueryId = 5
SYMMETRY Symmetry
INVARIANTS
    TypeOK
    CleanedBehindEveryReader
    RegisteredReadersSafe
    RecentlyCommittedIsOrdered
    QuiescentMeansCollected
PROPERTY FreedOnlyAfterUnlinking
CHECK_DEADLOCK FALSE
