\* Three ticks that cross on two pools, under fairness.
SPECIFICATION FairSpec
CONSTANTS
  w1 = w1
  w2 = w2
  w3 = w3
  a = a
  b = b
  x = x
  measured = measured
  Writers <- MCWriters3
  Pools = {a, b, x}
  Catalogued = {a, b}
  Sources = {measured}
  Batches <- MCRaces
  MaxAttempts = 3
  ChunkSpan = 3
INVARIANTS
  IInv
PROPERTIES
  CommitRecordsLatestPrice
  OnlyFinerPricesRepeat
  EveryTickEnds
