SPECIFICATION Spec
CONSTANTS
    NoTx = NoTx
    Tx = {t1, t2, t3}
    Name = {x, y}
    MaxStatements = 4
SYMMETRY Symmetry
INVARIANTS
    TypeOK
    LookupSeesSnapshot
    NoDestroyedEntryIsUsed
    UndoneIsNewest
    ChainsIntact
    OldVersionsDestroyed
CHECK_DEADLOCK FALSE
