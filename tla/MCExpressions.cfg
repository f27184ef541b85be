SPECIFICATION Spec
CONSTANTS
    VectorSize = 3
    Null = Null
    NoSel = NoSel
    Trap = Trap
    Width <- MCWidth
    ColumnTypes <- MCColumnTypes
    Tables <- MCTables
    InnerTypes <- MCInnerTypes
    Inner <- MCInner
    Queries <- MCQueries
INVARIANTS TypeOK RowsAreRight StatisticsHold
CHECK_DEADLOCK FALSE
