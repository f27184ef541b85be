SPECIFICATION Spec
CONSTANTS
    NoTx = NoTx
    Loaded = Loaded
    Dead = Dead
    Tx = {t1, t2, t3}
    InitialRows = 1
    MaxRows = 2
    MaxStatements = 3
    Kinds = {"insert", "update"}
    AutoCommit = TRUE
PROPERTY ImplementsSnapshotIsolation
SYMMETRY Symmetry
CHECK_DEADLOCK FALSE
