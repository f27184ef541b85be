SPECIFICATION Spec
CONSTANTS
  t1 = t1
  t2 = t2
  Tx = {t1, t2}
  NoTx = NoTx
  Keep = Keep
  Loaded <- MCLoaded
  Keys <- MCKeys
  AllowNulls <- MCAllowNulls
  InsertBatches <- MCInsertBatches
  UpdateKeys <- MCUpdateKeys
  ChunkSize = 2
  MaxRows = 5
  MaxStatements = 3
SYMMETRY Symmetry
INVARIANTS TypeOK UniqueKeys EveryKeyIsFound RejectedInsertsLeaveNoEntry RevertsRemoveLeaves
CHECK_DEADLOCK FALSE
