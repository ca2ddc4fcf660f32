SPECIFICATION Spec
CONSTANTS
  c1 = c1
  c2 = c2
  t1 = t1
  t2 = t2
  w1 = w1
  w2 = w2
  Threads = {t1, t2}
  Workers = {w1, w2}
  Chunks = {c1, c2}
  SetUps <- WriteSetUps
INVARIANTS
  TypeOK
  OneJobPerChunk
  ParallelChunksCounted
  BlocksAccountedFor
  FlushedIsWritten
  DeletedIsUnused
PROPERTIES
  NewestStays
  CallsReturn
CHECK_DEADLOCK FALSE
