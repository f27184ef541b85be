SPECIFICATION Spec
CONSTANTS
    NoTx = NoTx
    Loaded = Loaded
    Dead = Dead
    Tx = {t1, t2, t3}
    InitialRows = 1
    MaxRows = 2
    MaxStatements = 4
    Kinds = {"insert", "update", "delete"}
    AutoCommit = FALSE
SYMMETRY Symmetry
INVARIANTS
    TypeOK
    ReadsSnapshot
    NewestIsCommitted
    ChainOrdered
CHECK_DEADLOCK FALSE
