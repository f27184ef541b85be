SPECIFICATION FairSpec
CONSTANTS
    NoThread = NoThread
    Thread = {t1, t2}
    ChunkSize = 4
    VectorSize = 2
    InitialRows = 7
    MaxChunks = 4
    MaxStatements = 4
INVARIANTS
    TypeOK
    MutualExclusion
    RowsOnce
    ScanComplete
PROPERTY StatementsEnd
CHECK_DEADLOCK FALSE
