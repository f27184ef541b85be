SPECIFICATION Spec
CONSTANTS
    NoTx = NoTx
    Tx = {t1, t2, t3}
    TransactionIdStart = 20
    MaximumQueryId = 5
SYMMETRY Symmetry
INVARIANT NoQueryUsesFreedMemory
CHECK_DEADLOCK FALSE
