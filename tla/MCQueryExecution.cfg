SPECIFICATION Spec
CONSTANTS
    VectorSize = 3
    InitialCapacity = 3
    TupleSize = 16
    Null = Null
    NoSel = NoSel
    Trap = Trap
    Empty = Empty
    Gone = Gone
    Width <- MCWidth
    Hash <- MCHash
    Tables <- MCTables
    Plans <- MCPlans
INVARIANTS ResultIsRight CollectionsFilled GroupsFound SortedVectorSorts
CHECK_DEADLOCK FALSE
