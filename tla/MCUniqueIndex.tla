---- MODULE MCUniqueIndex ----
EXTENDS UniqueIndex, TLC
MCLoaded == <<<<1, 1>>, <<2, 3>>, <<3, 4>>>>
MCKeys == <<<<1, 2>>, <<2>>>>
MCAllowNulls == <<TRUE, FALSE>>
MCInsertBatches == {<<<<Null, 2>>>>, <<<<1, 2>>, <<2, 1>>>>}
MCUpdateKeys == {<<1, 2>>, <<2, Keep>>}
Symmetry == Permutations(Tx)
====
