\* One tick beside two seeds, a listing of up to two pages, two requests.
SPECIFICATION FairSpec
CONSTANTS
  p1 = p1
  p2 = p2
  s1 = s1
  s2 = s2
  Pages <- MCPages
  Endpoint = p1
  MaxPages = 2
  Listings <- MCListings
  Seeders = {s1, s2}
  AzureSizes <- MCAzureSizes
  SimulatedSizes <- MCSimulatedSizes
  OldRows <- MCOldRows
  SizeOf <- MCSizeOf
INVARIANTS
  TypeOK
  EveryProviderReported
  FailedProviderStoresNothing
  SeededTickIsWhole
PROPERTIES
  TickEnds
