\* Three ticks that cross on two pools.
SPECIFICATION Spec
CONSTANTS
  w1 = w1
  w2 = w2
  w3 = w3
  a = a
  b = b
  x = x
  measured = measured
  Writers <- MCWriters3
  Pools = {a, b, x}
  Catalogued = {a, b}
  Sources = {measured}
  Batches <- MCCrossed
  MaxAttempts = 3
  ChunkSpan = 4
SYMMETRY MCSymmetry3
PROPERTIES
  DeadlockKeepsTick
