SPECIFICATION Spec
CONSTANTS
    NoTx = NoTx
    NoTable = NoTable
    Tx = {t1, t2, t3}
    Row = {r1, r2, r3}
    VectorSize = 2
    MaxCrashes = 2
SYMMETRY Symmetry
INVARIANTS
    TypeOK
    CleanLogRecovers
CHECK_DEADLOCK FALSE
