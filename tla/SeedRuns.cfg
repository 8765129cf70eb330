\* Three concurrent runs of the seed, from any rows earlier runs may have left.
SPECIFICATION SeedFairSpec
CONSTANTS
  s1 = s1
  s2 = s2
  s3 = s3
  Seeders <- MCSeeders
  AzureSizes <- MCAzureSizes
  SimulatedSizes <- MCSimulatedSizes
  OldRows <- MCOldRows
INVARIANTS
  SeedTypeOK
  SeededCompletely
PROPERTIES
  SeedCountsWhatItAdds
  SeedsEnd
