\* Two ticks, each given any short batch.
SPECIFICATION Spec
CONSTANTS
  w1 = w1
  w2 = w2
  w3 = w3
  a = a
  b = b
  x = x
  measured = measured
  Writers <- MCWriters2
  Pools = {a, b, x}
  Catalogued = {a, b}
  Sources = {measured}
  Batches <- MCShortBatches
  MaxAttempts = 3
  ChunkSpan = 2
SYMMETRY MCSymmetry2
INVARIANTS
  TypeOK
  LastSeenIsLatest
PROPERTIES
  Implements
  CommitAddsWhatItReports
