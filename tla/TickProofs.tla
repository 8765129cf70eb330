------------------------------- MODULE TickProofs -------------------------------
(***************************************************************************)
(* Proofs about Tick, for any listing, any lists of sizes and any number   *)
(* of seeds beside it.  They rest on what AzureFeedProofs and SeedProofs   *)
(* show of the two parts.                                                  *)
(***************************************************************************)
EXTENDS Tick, AzureFeedProofs, SeedProofs, FunctionTheorems

Storing(p) == tick_pc = "store" /\ provider = p

\* The observations of sizes that are in no list and were not planted before.
Unlisted(list) == {o \in list : ~SameKey(o, Listed \cup catalog)}

\* What a simulated provider that was stored may have: every system of some sizes.
Wholes ==
  {Cardinality(OperatingSystems) * n : n \in 1..Len(SimulatedSizes) + Cardinality(OldRows)}

\* The providers the tick is done with when it is at p.
Before(p) ==
  CASE p = "azure" -> {} [] p = "aws" -> {"azure"} [] p = "gcp" -> {"azure", "aws"}

\* The providers come one after the other, and each ends in writes or in failures.
InOrder ==
  /\ tick_pc \in {"idle", "fetch"} => provider = "azure"
  /\ tick_pc = "catalog" => provider \in SimulatedProviders
  /\ tick_pc \in {"idle", "fetch", "catalog", "store"} =>
       DOMAIN writes \cup failures = Before(provider)
  /\ tick_pc = "returned" => DOMAIN writes \cup failures = Providers
  /\ DOMAIN writes \cap failures = {}

\* Azure's list is counted off one by one.
AzureCounted ==
  /\ Storing("azure") =>
       /\ feed_pc = "returned"
       /\ todo \subseteq Fetched
       /\ Observations(tally) + Cardinality(todo) = Cardinality(Fetched)
       /\ seeded => tally.unknown + Cardinality(Unlisted(todo)) = Cardinality(Unlisted(Fetched))
  /\ "azure" \in DOMAIN writes =>
       /\ feed_pc = "returned"
       /\ Observations(writes["azure"]) = Cardinality(Fetched)
       /\ seeded => writes["azure"].unknown = Cardinality(Unlisted(Fetched))

\* So is a simulated provider's, which holds nothing but sizes of the catalog.
SimulatedCounted ==
  \A p \in SimulatedProviders :
    /\ Storing(p) =>
         /\ Observations(tally) + Cardinality(todo) \in Wholes
         /\ tally.unknown = 0
         /\ \A o \in todo : SameKey(o, catalog)
    /\ p \in DOMAIN writes =>
         Observations(writes[p]) \in Wholes /\ writes[p].unknown = 0

\* After a seed the catalog has every size, so no simulated provider fails.
SeededKnows ==
  seeded => /\ \A row \in Listed : SameKey(row, catalog)
            /\ failures \subseteq {"azure"}

TickIInv ==
  /\ TypeOK /\ FeedIInv /\ SeedIInv
  /\ InOrder /\ AzureCounted /\ SimulatedCounted /\ SeededKnows

--------------------------------------------------------------------------------
(***************************************************************************)
(* How long the lists are.                                                 *)
(***************************************************************************)
LEMMA SystemsCounted ==
  IsFiniteSet(OperatingSystems) /\ Cardinality(OperatingSystems) \in Nat
<1>1. IsFiniteSet({"linux"} \cup {"windows"})
  BY FS_Singleton, FS_AddElement
<1>2. OperatingSystems = {"linux"} \cup {"windows"}
  BY DEF OperatingSystems
<1> QED BY <1>1, <1>2, FS_CardinalityType

\* Every item kept is one observation: `item` tells them apart.
LEMMA FetchedSize ==
  ASSUME FeedPlaced
  PROVE  IsFiniteSet(Fetched) /\ Cardinality(Fetched) = Cardinality(observations)
<1> DEFINE f == [o \in observations |-> Observed("azure", SizeOf[o], o)]
<1>1. \A o \in observations : f[o].item = o
  BY DEF Observed
<1>2. f \in Bijection(observations, Fetched)
  <2>1. f \in [observations -> Fetched]
    BY DEF Fetched
  <2>2. \A a, b \in observations : f[a] = f[b] => a = b
    BY <1>1
  <2>3. \A x \in Fetched : \E o \in observations : f[o] = x
    BY DEF Fetched
  <2> HIDE DEF f
  <2> QED BY <2>1, <2>2, <2>3, Fun_IsBij
<1>3. IsFiniteSet(observations)
  BY DEF FeedPlaced
<1> HIDE DEF f
<1> QED BY <1>2, <1>3, FS_Bijection DEF ExistsBijection

LEMMA SimulatedListed ==
  ASSUME NEW row \in Listed, row.provider \in SimulatedProviders
  PROVE  \E i \in DOMAIN SimulatedSizes : row = SimulatedSizes[i]
BY ListedIs DEF AzureRow, SimulatedProviders

\* The rows of a simulated provider: no more than there are sizes, old and new.
LEMMA CatalogForSize ==
  ASSUME SeedIInv, NEW p \in SimulatedProviders, CatalogFor(p) # {}
  PROVE  /\ IsFiniteSet(CatalogFor(p))
         /\ Cardinality(CatalogFor(p)) \in 1..Len(SimulatedSizes) + Cardinality(OldRows)
<1> DEFINE rows == {SimulatedSizes[i] : i \in 1..Len(SimulatedSizes)}
<1>1. /\ DOMAIN SimulatedSizes = 1..Len(SimulatedSizes)
      /\ Len(SimulatedSizes) \in Nat
  BY SimulatedAssumption
<1>2. CatalogFor(p) \subseteq rows \cup OldRows
  BY <1>1, SimulatedListed DEF SeedIInv, SeedTypeOK, CatalogFor
<1>3. IsFiniteSet(rows) /\ Cardinality(rows) <= Len(SimulatedSizes)
  <2> DEFINE f == [i \in 1..Len(SimulatedSizes) |-> SimulatedSizes[i]]
  <2>1. f \in [1..Len(SimulatedSizes) -> rows]
    OBVIOUS
  <2>2. \A x \in rows : \E i \in 1..Len(SimulatedSizes) : f[i] = x
    OBVIOUS
  <2>3. f \in Surjection(1..Len(SimulatedSizes), rows)
    BY <2>1, <2>2, Fun_IsSurj
  <2>4. /\ IsFiniteSet(1..Len(SimulatedSizes))
        /\ Cardinality(1..Len(SimulatedSizes)) = Len(SimulatedSizes)
    <3>1. 1 \in Int /\ Len(SimulatedSizes) \in Int
      BY <1>1
    <3>2. /\ IsFiniteSet(1..Len(SimulatedSizes))
          /\ Cardinality(1..Len(SimulatedSizes))
               = IF 1 > Len(SimulatedSizes) THEN 0 ELSE Len(SimulatedSizes) - 1 + 1
      BY <3>1, FS_Interval
    <3> QED BY <1>1, <3>2
  <2> HIDE DEF f, rows
  <2> QED BY <2>3, <2>4, FS_Surjection
<1> HIDE DEF rows
<1>4. /\ IsFiniteSet(rows \cup OldRows)
      /\ Cardinality(rows \cup OldRows)
           = Cardinality(rows) + Cardinality(OldRows) - Cardinality(rows \cap OldRows)
  BY <1>3, FS_Union, OldRowsAssumption
<1>5. /\ Cardinality(rows) \in Nat /\ Cardinality(OldRows) \in Nat
      /\ Cardinality(rows \cap OldRows) \in Nat
  BY <1>3, FS_Intersection, FS_CardinalityType, OldRowsAssumption
<1>6. IsFiniteSet(CatalogFor(p)) /\ Cardinality(CatalogFor(p)) <= Cardinality(rows \cup OldRows)
  BY <1>2, <1>4, FS_Subset
<1>7. Cardinality(CatalogFor(p)) \in Nat /\ Cardinality(CatalogFor(p)) # 0
  BY <1>6, FS_CardinalityType, FS_EmptySet
<1> QED BY <1>1, <1>3, <1>4, <1>5, <1>6, <1>7

\* One observation for every size and system.
LEMMA SimulatedSize ==
  ASSUME SeedIInv, NEW p \in SimulatedProviders, CatalogFor(p) # {}
  PROVE  IsFiniteSet(Simulated(p)) /\ Cardinality(Simulated(p)) \in Wholes
<1> DEFINE C == CatalogFor(p)
           f == [x \in C \X OperatingSystems |-> Observed(p, x[1].instance_type, x[2])]
<1>1. IsFiniteSet(C) /\ Cardinality(C) \in 1..Len(SimulatedSizes) + Cardinality(OldRows)
  BY CatalogForSize
<1>2. /\ IsFiniteSet(C \X OperatingSystems)
      /\ Cardinality(C \X OperatingSystems) = Cardinality(C) * Cardinality(OperatingSystems)
  BY <1>1, SystemsCounted, FS_Product
<1>3. f \in Bijection(C \X OperatingSystems, Simulated(p))
  <2>1. f \in [C \X OperatingSystems -> Simulated(p)]
    BY DEF Simulated
  <2>2. ASSUME NEW a \in C \X OperatingSystems, NEW b \in C \X OperatingSystems, f[a] = f[b]
        PROVE  a = b
    <3>1. a[1].instance_type = b[1].instance_type /\ a[2] = b[2]
      BY <2>2 DEF Observed
    <3>2. a[1] \in catalog /\ b[1] \in catalog /\ a[1].provider = p /\ b[1].provider = p
      BY DEF CatalogFor
    <3>3. a[1] = b[1]
      BY <3>1, <3>2 DEF SeedIInv, KeysSeparate, OneToAKey, Key
    <3> QED BY <3>1, <3>3
  <2>3. ASSUME NEW x \in Simulated(p) PROVE \E a \in C \X OperatingSystems : f[a] = x
    <3>1. PICK row \in C, os \in OperatingSystems : x = Observed(p, row.instance_type, os)
      BY DEF Simulated
    <3>2. <<row, os>> \in C \X OperatingSystems /\ f[<<row, os>>] = x
      BY <3>1
    <3> QED BY <3>2
  <2> HIDE DEF f, C
  <2> QED BY <2>1, <2>2, <2>3, Fun_IsBij
<1>4. IsFiniteSet(Simulated(p)) /\ Cardinality(Simulated(p)) = Cardinality(C \X OperatingSystems)
  <2> HIDE DEF f, C
  <2> QED BY <1>2, <1>3, FS_Bijection DEF ExistsBijection
<1> HIDE DEF f, C
<1>5. Cardinality(Simulated(p)) = Cardinality(OperatingSystems) * Cardinality(C)
  <2>1. Cardinality(C) \in Int /\ Cardinality(OperatingSystems) \in Int
    BY <1>1, SystemsCounted
  <2> QED BY <1>2, <1>4, <2>1
<1> QED BY <1>1, <1>4, <1>5 DEF Wholes

--------------------------------------------------------------------------------
(***************************************************************************)
(* The invariant, step by step.                                            *)
(***************************************************************************)
LEMMA TickInitIInv == Init => TickIInv
<1> SUFFICES ASSUME Init PROVE TickIInv
  OBVIOUS
<1>1. FeedIInv /\ SeedIInv
  BY FeedInitIInv, SeedInitIInv DEF Init
<1>2. DOMAIN writes = {}
  BY DEF Init
<1>3. TypeOK
  BY <1>1, <1>2, FS_EmptySet
  DEF Init, TypeOK, FeedIInv, FeedPlaced, SeedIInv, Providers, Counts, NoCounts
<1> QED
  BY <1>1, <1>2, <1>3
  DEF Init, TickIInv, InOrder, AzureCounted, SimulatedCounted, SeededKnows, Storing,
      Before, SimulatedProviders

\* A step of the tick alone leaves the feed and the catalog as they are.
LEMMA PartsKept ==
  ASSUME TickIInv, UNCHANGED <<feed_vars, seed_vars>>
  PROVE  /\ FeedIInv' /\ SeedIInv' /\ FeedTypeOK' /\ SeedTypeOK'
         /\ feed_pc' = feed_pc /\ catalog' = catalog /\ Fetched' = Fetched
<1>1. FeedIInv' /\ SeedIInv'
  BY FeedStutterStep, SeedStutterStep DEF TickIInv
<1>2. FeedTypeOK' /\ SeedTypeOK'
  BY <1>1 DEF FeedIInv, FeedPlaced, SeedIInv
<1> QED BY <1>1, <1>2 DEF feed_vars, seed_vars, Fetched

LEMMA BeginStep == TickIInv /\ Begin => TickIInv'
<1> SUFFICES ASSUME TickIInv, Begin PROVE TickIInv'
  OBVIOUS
<1>1. /\ FeedIInv' /\ SeedIInv' /\ FeedTypeOK' /\ SeedTypeOK' /\ catalog' = catalog
  BY PartsKept DEF Begin
<1>2. /\ tick_pc = "idle" /\ tick_pc' = "fetch"
      /\ provider' = provider /\ todo' = todo /\ tally' = tally
      /\ writes' = writes /\ failures' = failures
      /\ seeded' = (\E s \in Seeders : seed_pc[s] = "committed")
  BY DEF Begin
<1>3. DOMAIN writes = {} /\ failures = {} /\ provider = "azure"
  BY <1>2 DEF TickIInv, InOrder, Before
<1>4. SeededKnows'
  <2>1. ASSUME NEW s \in Seeders, seed_pc[s] = "committed", NEW row \in Listed
        PROVE  SameKey(row, catalog)
    <3>1. SeededCompletely
      BY CommittedIsComplete DEF TickIInv
    <3> QED BY <2>1, <3>1 DEF SeededCompletely, SameKey
  <2> QED BY <1>1, <1>2, <1>3, <2>1 DEF SeededKnows
<1>5. TypeOK'
  BY <1>1, <1>2 DEF TickIInv, TypeOK
<1>6. InOrder' /\ AzureCounted' /\ SimulatedCounted'
  BY <1>2, <1>3
  DEF TickIInv, InOrder, AzureCounted, SimulatedCounted, Storing, Before, SimulatedProviders
<1> QED BY <1>1, <1>4, <1>5, <1>6 DEF TickIInv

LEMMA FetchAzureStep == TickIInv /\ FetchAzure => TickIInv'
<1> SUFFICES ASSUME TickIInv, FetchAzure PROVE TickIInv'
  OBVIOUS
<1>1. FeedIInv' /\ SeedIInv'
  BY FetchStep, SeedStutterStep DEF FetchAzure, TickIInv
<1>2. /\ tick_pc = "fetch" /\ UNCHANGED tick /\ UNCHANGED seed_vars
  BY DEF FetchAzure
<1>3. /\ tick_pc' = "fetch" /\ provider' = provider /\ todo' = todo /\ tally' = tally
      /\ writes' = writes /\ failures' = failures /\ seeded' = seeded
      /\ catalog' = catalog
  BY <1>2 DEF tick, seed_vars
<1>4. DOMAIN writes = {} /\ failures = {} /\ provider = "azure"
  BY <1>2 DEF TickIInv, InOrder, Before
<1>5. TypeOK'
  BY <1>1, <1>3 DEF TickIInv, TypeOK, FeedIInv, FeedPlaced, SeedIInv
<1>6. InOrder' /\ AzureCounted' /\ SimulatedCounted' /\ SeededKnows'
  BY <1>3, <1>4
  DEF TickIInv, InOrder, AzureCounted, SimulatedCounted, SeededKnows, SameKey, Storing,
      Before, SimulatedProviders
<1> QED BY <1>1, <1>5, <1>6 DEF TickIInv

LEMMA StoreAzureStep == TickIInv /\ StoreAzure => TickIInv'
<1> SUFFICES ASSUME TickIInv, StoreAzure PROVE TickIInv'
  OBVIOUS
<1>1. /\ FeedIInv' /\ SeedIInv' /\ FeedTypeOK' /\ SeedTypeOK'
      /\ feed_pc' = feed_pc /\ catalog' = catalog /\ Fetched' = Fetched
  BY PartsKept DEF StoreAzure
<1>2. /\ tick_pc = "fetch" /\ feed_pc = "returned" /\ tick_pc' = "store"
      /\ provider' = "azure" /\ todo' = Fetched /\ tally' = NoCounts
      /\ writes' = writes /\ failures' = failures /\ seeded' = seeded
  BY DEF StoreAzure, Store
<1>3. DOMAIN writes = {} /\ failures = {}
  BY <1>2 DEF TickIInv, InOrder, Before
<1>4. IsFiniteSet(Fetched) /\ IsFiniteSet(Unlisted(Fetched))
      /\ \A o \in Fetched : o.provider = "azure"
  <2>1. IsFiniteSet(Fetched)
    BY FetchedSize DEF TickIInv, FeedIInv
  <2>2. IsFiniteSet(Unlisted(Fetched))
    BY <2>1, FS_Subset DEF Unlisted
  <2> QED BY <2>1, <2>2 DEF Fetched, Observed
<1>5. TypeOK'
  BY <1>1, <1>2, <1>3, <1>4 DEF TickIInv, TypeOK, Providers, Counts, NoCounts
<1>6. AzureCounted'
  <2>1. Cardinality(Fetched) \in Nat /\ Cardinality(Unlisted(Fetched)) \in Nat
    BY <1>4, FS_CardinalityType
  <2>2. Unlisted(todo)' = Unlisted(Fetched) /\ Unlisted(Fetched)' = Unlisted(Fetched)
    BY <1>1, <1>2 DEF Unlisted
  <2>3. /\ Observations(tally)' + Cardinality(todo') = Cardinality(Fetched)
        /\ tally'.unknown + Cardinality(Unlisted(Fetched)) = Cardinality(Unlisted(Fetched))
    BY <1>2, <2>1 DEF Observations, NoCounts
  <2> QED BY <1>1, <1>2, <1>3, <2>2, <2>3 DEF AzureCounted
<1>7. InOrder' /\ SimulatedCounted' /\ SeededKnows'
  BY <1>1, <1>2, <1>3
  DEF TickIInv, InOrder, SimulatedCounted, SeededKnows, SameKey, Storing, Before,
      SimulatedProviders
<1> QED BY <1>1, <1>5, <1>6, <1>7 DEF TickIInv

\* The tick turns to the next provider once this one is in writes or in failures.
LEMMA TurnInOrder ==
  ASSUME NEW p \in Providers, Turn(p),
         DOMAIN writes' \cup failures' = Before(p) \cup {p},
         DOMAIN writes' \cap failures' = {}
  PROVE  /\ InOrder'
         /\ tick_pc' \in {"catalog", "returned"} /\ provider' \in Providers
         /\ todo' = {} /\ tally' = NoCounts
<1>1. CASE p = "azure"
  BY <1>1 DEF Turn, InOrder, Before, Providers, SimulatedProviders
<1>2. CASE p = "aws"
  BY <1>2 DEF Turn, InOrder, Before, Providers, SimulatedProviders
<1>3. CASE p = "gcp"
  BY <1>3 DEF Turn, InOrder, Before, Providers, SimulatedProviders
<1> QED BY <1>1, <1>2, <1>3 DEF Providers

LEMMA AzureFailedStep == TickIInv /\ AzureFailed => TickIInv'
<1> SUFFICES ASSUME TickIInv, AzureFailed PROVE TickIInv'
  OBVIOUS
<1>1. /\ FeedIInv' /\ SeedIInv' /\ FeedTypeOK' /\ SeedTypeOK' /\ catalog' = catalog
  BY PartsKept DEF AzureFailed
<1>2. /\ tick_pc = "fetch" /\ Turn("azure") /\ failures' = failures \cup {"azure"}
      /\ writes' = writes /\ seeded' = seeded
  BY DEF AzureFailed
<1>3. DOMAIN writes = {} /\ failures = {}
  BY <1>2 DEF TickIInv, InOrder, Before
<1>4. /\ InOrder' /\ tick_pc' \in {"catalog", "returned"} /\ provider' \in Providers
      /\ todo' = {} /\ tally' = NoCounts
  BY <1>2, <1>3, TurnInOrder DEF Providers, Before
<1>5. TypeOK'
  BY <1>1, <1>2, <1>3, <1>4, FS_EmptySet DEF TickIInv, TypeOK, Providers, Counts, NoCounts
<1>6. AzureCounted' /\ SimulatedCounted' /\ SeededKnows'
  BY <1>1, <1>2, <1>3, <1>4
  DEF TickIInv, AzureCounted, SimulatedCounted, SeededKnows, SameKey, Storing
<1> QED BY <1>1, <1>4, <1>5, <1>6 DEF TickIInv

LEMMA RaisesStep == TickIInv /\ (AzureEscapes \/ StoreRaises) => TickIInv'
<1> SUFFICES ASSUME TickIInv, AzureEscapes \/ StoreRaises PROVE TickIInv'
  OBVIOUS
<1>1. /\ FeedIInv' /\ SeedIInv' /\ FeedTypeOK' /\ SeedTypeOK'
      /\ feed_pc' = feed_pc /\ catalog' = catalog /\ Fetched' = Fetched
  BY PartsKept DEF AzureEscapes, StoreRaises
<1>2. /\ tick_pc' = "raised" /\ provider' = provider /\ todo' = todo /\ tally' = tally
      /\ writes' = writes /\ failures' = failures /\ seeded' = seeded
  BY DEF AzureEscapes, StoreRaises
<1>3. TypeOK' /\ InOrder'
  BY <1>1, <1>2 DEF TickIInv, TypeOK, InOrder
<1>4. AzureCounted'
  <2>1. Unlisted(Fetched)' = Unlisted(Fetched)
    BY <1>1 DEF Unlisted
  <2> QED BY <1>1, <1>2, <2>1 DEF TickIInv, AzureCounted, Storing, Observations
<1>5. SimulatedCounted' /\ SeededKnows'
  BY <1>1, <1>2
  DEF TickIInv, SimulatedCounted, SeededKnows, SameKey, Storing, Observations
<1> QED BY <1>1, <1>3, <1>4, <1>5 DEF TickIInv

\* Every simulated provider is in the lists, so a seed leaves it a size.
LEMMA SeededHasCatalog ==
  ASSUME SeededKnows, seeded, NEW p \in SimulatedProviders
  PROVE  CatalogFor(p) # {}
<1>1. PICK i \in DOMAIN SimulatedSizes : SimulatedSizes[i].provider = p
  BY SimulatedProvidersAssumption
<1>2. /\ i \in 1..Len(SimulatedSizes)
      /\ Len(AzureSizes) + i \in 1..Sizes /\ ~(Len(AzureSizes) + i <= Len(AzureSizes))
      /\ (Len(AzureSizes) + i) - Len(AzureSizes) = i
  BY SizesType, SimulatedAssumption DEF Sizes
<1>3. SimulatedSizes[i] \in Listed
  BY <1>2 DEF Listed, Underivable, RowAt
<1>4. PICK r \in catalog : Key(r) = Key(SimulatedSizes[i])
  BY <1>3 DEF SeededKnows, SameKey
<1> QED BY <1>1, <1>4 DEF Key, CatalogFor

LEMMA NoCatalogStep == TickIInv /\ NoCatalog => TickIInv'
<1> SUFFICES ASSUME TickIInv, NoCatalog PROVE TickIInv'
  OBVIOUS
<1>1. /\ FeedIInv' /\ SeedIInv' /\ FeedTypeOK' /\ SeedTypeOK'
      /\ feed_pc' = feed_pc /\ catalog' = catalog /\ Fetched' = Fetched
  BY PartsKept DEF NoCatalog
<1>2. /\ tick_pc = "catalog" /\ provider \in SimulatedProviders /\ CatalogFor(provider) = {}
      /\ Turn(provider) /\ failures' = failures \cup {provider}
      /\ writes' = writes /\ seeded' = seeded
  BY DEF NoCatalog, TickIInv, InOrder
<1>3. /\ DOMAIN writes \cup failures = Before(provider) /\ DOMAIN writes \cap failures = {}
      /\ provider \in Providers /\ provider \notin Before(provider)
  BY <1>2 DEF TickIInv, InOrder, Before, SimulatedProviders, Providers
<1>4. /\ InOrder' /\ tick_pc' \in {"catalog", "returned"} /\ provider' \in Providers
      /\ todo' = {} /\ tally' = NoCounts
  <2>1. /\ DOMAIN writes' \cup failures' = Before(provider) \cup {provider}
        /\ DOMAIN writes' \cap failures' = {}
    BY <1>2, <1>3
  <2> QED BY <1>2, <1>3, <2>1, TurnInOrder
<1>5. TypeOK'
  BY <1>1, <1>2, <1>3, <1>4, FS_EmptySet DEF TickIInv, TypeOK, Counts, NoCounts
<1>6. ~seeded
  BY <1>2, SeededHasCatalog DEF TickIInv
<1>7. AzureCounted' /\ SimulatedCounted' /\ SeededKnows'
  BY <1>1, <1>2, <1>4, <1>6
  DEF TickIInv, AzureCounted, SimulatedCounted, SeededKnows, Storing, Observations
<1> QED BY <1>1, <1>4, <1>5, <1>7 DEF TickIInv

LEMMA SimulateStep == TickIInv /\ Simulate => TickIInv'
<1> SUFFICES ASSUME TickIInv, Simulate PROVE TickIInv'
  OBVIOUS
<1>1. /\ FeedIInv' /\ SeedIInv' /\ FeedTypeOK' /\ SeedTypeOK'
      /\ feed_pc' = feed_pc /\ catalog' = catalog /\ Fetched' = Fetched
  BY PartsKept DEF Simulate
<1>2. /\ tick_pc = "catalog" /\ provider \in SimulatedProviders /\ CatalogFor(provider) # {}
      /\ tick_pc' = "store" /\ provider' = provider /\ todo' = Simulated(provider)
      /\ tally' = NoCounts
      /\ writes' = writes /\ failures' = failures /\ seeded' = seeded
  BY DEF Simulate, Store, TickIInv, InOrder
<1>3. IsFiniteSet(Simulated(provider)) /\ Cardinality(Simulated(provider)) \in Wholes
  BY <1>2, SimulatedSize DEF TickIInv
<1>4. \A o \in Simulated(provider) : o.provider = provider /\ SameKey(o, catalog)
  BY DEF Simulated, CatalogFor, Observed, SameKey, Key
<1>5. TypeOK'
  BY <1>1, <1>2, <1>3, <1>4 DEF TickIInv, TypeOK, Counts, NoCounts
<1>6. InOrder' /\ SeededKnows'
  BY <1>1, <1>2 DEF TickIInv, InOrder, SeededKnows, SameKey
<1>7. AzureCounted'
  <2>1. Unlisted(Fetched)' = Unlisted(Fetched)
    BY <1>1 DEF Unlisted
  <2> QED
    BY <1>1, <1>2, <2>1
    DEF TickIInv, AzureCounted, Storing, Observations, SimulatedProviders
<1>8. SimulatedCounted'
  <2>1. Cardinality(Simulated(provider)) \in Nat
    BY <1>3, FS_CardinalityType
  <2>2. Observations(tally)' + Cardinality(todo') \in Wholes /\ tally'.unknown = 0
    BY <1>2, <1>3, <2>1 DEF Observations, NoCounts
  <2>3. Wholes' = Wholes
    BY DEF Wholes
  <2> QED
    BY <1>1, <1>2, <1>4, <2>2, <2>3
    DEF TickIInv, SimulatedCounted, Storing, Observations, SameKey
<1> QED BY <1>1, <1>5, <1>6, <1>7, <1>8 DEF TickIInv

\* What is not listed is what a seeded catalog does not have.
LEMMA SeededUnlisted ==
  ASSUME SeededKnows, seeded, NEW list
  PROVE  Unlisted(list) = {o \in list : ~SameKey(o, catalog)}
BY DEF SeededKnows, Unlisted, SameKey

LEMMA StoreOneStep == TickIInv /\ StoreOne => TickIInv'
<1> SUFFICES ASSUME TickIInv, StoreOne PROVE TickIInv'
  OBVIOUS
<1>1. /\ FeedIInv' /\ SeedIInv' /\ FeedTypeOK' /\ SeedTypeOK'
      /\ feed_pc' = feed_pc /\ catalog' = catalog /\ Fetched' = Fetched
  BY PartsKept DEF StoreOne
<1>2. PICK o \in todo :
        /\ todo' = todo \ {o}
        /\ tally' = IF SameKey(o, catalog) THEN [tally EXCEPT !.known = @ + 1]
                                           ELSE [tally EXCEPT !.unknown = @ + 1]
  BY DEF StoreOne
<1>3. /\ tick_pc = "store" /\ tick_pc' = "store" /\ provider' = provider
      /\ writes' = writes /\ failures' = failures /\ seeded' = seeded
  BY DEF StoreOne
<1>4. /\ tally \in Counts /\ tally' \in Counts
      /\ Observations(tally') = Observations(tally) + 1
      /\ tally'.unknown = IF SameKey(o, catalog) THEN tally.unknown ELSE tally.unknown + 1
      /\ Observations(tally) \in Nat /\ tally.unknown \in Nat
  BY <1>2 DEF TickIInv, TypeOK, Counts, Observations
<1>5. /\ IsFiniteSet(todo) /\ IsFiniteSet(todo') /\ Cardinality(todo) \in Nat
      /\ Cardinality(todo') = Cardinality(todo) - 1
  BY <1>2, FS_RemoveElement, FS_CardinalityType DEF TickIInv, TypeOK
<1>6. TypeOK'
  BY <1>1, <1>2, <1>3, <1>4, <1>5 DEF TickIInv, TypeOK
<1>7. Observations(tally') + Cardinality(todo') = Observations(tally) + Cardinality(todo)
  BY <1>4, <1>5
<1>8. InOrder' /\ SeededKnows'
  BY <1>1, <1>3 DEF TickIInv, InOrder, SeededKnows, SameKey
<1>9. AzureCounted'
  <2>1. Unlisted(Fetched)' = Unlisted(Fetched) /\ Unlisted(todo)' = Unlisted(todo')
    BY <1>1 DEF Unlisted
  <2>2. CASE ~Storing("azure")
    BY <1>1, <1>3, <2>1, <2>2 DEF TickIInv, AzureCounted, Storing, Observations
  <2>3. CASE Storing("azure")
    <3>1. "azure" \notin DOMAIN writes
      BY <2>3 DEF TickIInv, InOrder, Storing, Before
    <3>2. ASSUME seeded
          PROVE  tally'.unknown + Cardinality(Unlisted(todo'))
                   = tally.unknown + Cardinality(Unlisted(todo))
      <4>1. /\ Unlisted(todo) = {x \in todo : ~SameKey(x, catalog)}
            /\ Unlisted(todo') = {x \in todo' : ~SameKey(x, catalog)}
        BY <3>2, SeededUnlisted DEF TickIInv
      <4>2. IsFiniteSet(Unlisted(todo)) /\ Cardinality(Unlisted(todo)) \in Nat
        BY <1>5, <4>1, FS_Subset, FS_CardinalityType
      <4>3. Unlisted(todo') = Unlisted(todo) \ {o}
        BY <1>2, <4>1
      <4>4. o \in Unlisted(todo) <=> ~SameKey(o, catalog)
        BY <4>1
      <4>5. Cardinality(Unlisted(todo')) =
              IF SameKey(o, catalog) THEN Cardinality(Unlisted(todo))
                                     ELSE Cardinality(Unlisted(todo)) - 1
        BY <4>2, <4>3, <4>4, FS_RemoveElement
      <4> QED BY <1>4, <4>2, <4>5
    <3>3. /\ feed_pc = "returned" /\ todo \subseteq Fetched
          /\ Observations(tally) + Cardinality(todo) = Cardinality(Fetched)
          /\ seeded => tally.unknown + Cardinality(Unlisted(todo)) = Cardinality(Unlisted(Fetched))
      BY <2>3 DEF TickIInv, AzureCounted
    <3>4. Observations(tally)' = Observations(tally')
      BY DEF Observations
    <3> QED
      BY <1>1, <1>2, <1>3, <1>7, <2>1, <3>1, <3>2, <3>3, <3>4 DEF AzureCounted
  <2> QED BY <2>2, <2>3
<1>10. SimulatedCounted'
  <2>1. ASSUME NEW p \in SimulatedProviders, Storing(p)
        PROVE  /\ Observations(tally') + Cardinality(todo') \in Wholes
               /\ tally'.unknown = 0
               /\ \A x \in todo' : SameKey(x, catalog)
    BY <1>2, <1>4, <1>7, <2>1 DEF TickIInv, SimulatedCounted
  <2>2. \A p \in SimulatedProviders : Storing(p)' <=> Storing(p)
    BY <1>3 DEF Storing
  <2>3. Wholes' = Wholes
    BY DEF Wholes
  <2> QED
    BY <1>1, <1>3, <2>1, <2>2, <2>3 DEF TickIInv, SimulatedCounted, Observations, SameKey
<1> QED BY <1>1, <1>6, <1>8, <1>9, <1>10 DEF TickIInv

LEMMA StoredStep == TickIInv /\ Stored => TickIInv'
<1> SUFFICES ASSUME TickIInv, Stored PROVE TickIInv'
  OBVIOUS
<1>1. /\ FeedIInv' /\ SeedIInv' /\ FeedTypeOK' /\ SeedTypeOK'
      /\ feed_pc' = feed_pc /\ catalog' = catalog /\ Fetched' = Fetched
  BY PartsKept DEF Stored
<1>2. /\ tick_pc = "store" /\ todo = {} /\ Turn(provider)
      /\ writes' = [p \in DOMAIN writes \cup {provider} |->
                      IF p = provider THEN tally ELSE writes[p]]
      /\ failures' = failures /\ seeded' = seeded
  BY DEF Stored
<1>3. /\ DOMAIN writes' = DOMAIN writes \cup {provider}
      /\ writes'[provider] = tally
      /\ \A p \in DOMAIN writes \ {provider} : writes'[p] = writes[p]
  BY <1>2
<1>4. /\ DOMAIN writes \cup failures = Before(provider) /\ DOMAIN writes \cap failures = {}
      /\ provider \in Providers /\ provider \notin Before(provider)
      /\ DOMAIN writes \subseteq Providers
  BY <1>2 DEF TickIInv, TypeOK, InOrder, Before, Providers
<1>5. /\ InOrder' /\ tick_pc' \in {"catalog", "returned"} /\ provider' \in Providers
      /\ todo' = {} /\ tally' = NoCounts
  <2>1. /\ DOMAIN writes' \cup failures' = Before(provider) \cup {provider}
        /\ DOMAIN writes' \cap failures' = {}
    BY <1>2, <1>3, <1>4
  <2> QED BY <1>2, <1>4, <2>1, TurnInOrder
<1>6. TypeOK'
  <2>1. DOMAIN writes' \subseteq Providers /\ \A p \in DOMAIN writes' : writes'[p] \in Counts
    BY <1>3, <1>4 DEF TickIInv, TypeOK
  <2>2. tally' \in Counts /\ IsFiniteSet(todo')
    BY <1>5, FS_EmptySet DEF Counts, NoCounts
  <2> QED BY <1>1, <1>2, <1>5, <2>1, <2>2 DEF TickIInv, TypeOK
<1>7. Cardinality(todo) = 0 /\ tally.unknown \in Nat /\ Observations(tally) \in Nat
  BY <1>2, FS_EmptySet DEF TickIInv, TypeOK, Counts, Observations
<1>8. AzureCounted'
  <2>1. Unlisted(Fetched)' = Unlisted(Fetched)
    BY <1>1 DEF Unlisted
  <2>2. Unlisted(todo) = {}
    BY <1>2 DEF Unlisted
  <2>3. CASE provider = "azure"
    <3>1. Storing("azure")
      BY <1>2, <2>3 DEF Storing
    <3>2. /\ feed_pc = "returned"
          /\ Observations(tally) = Cardinality(Fetched)
          /\ seeded => tally.unknown = Cardinality(Unlisted(Fetched))
      BY <1>7, <2>2, <3>1, FS_EmptySet DEF TickIInv, AzureCounted
    <3> QED BY <1>1, <1>2, <1>3, <1>5, <2>1, <2>3, <3>2 DEF AzureCounted, Storing, Observations
  <2>4. CASE provider # "azure"
    BY <1>1, <1>2, <1>3, <1>5, <2>1, <2>4
    DEF TickIInv, AzureCounted, Storing, Observations
  <2> QED BY <2>3, <2>4
<1>9. SimulatedCounted'
  <2>1. ASSUME provider \in SimulatedProviders
        PROVE  Observations(tally) \in Wholes /\ tally.unknown = 0
    BY <1>2, <1>7, <2>1 DEF TickIInv, SimulatedCounted, Storing
  <2>2. Wholes' = Wholes
    BY DEF Wholes
  <2>3. ASSUME NEW p \in SimulatedProviders, p \in DOMAIN writes'
        PROVE  Observations(writes'[p]) \in Wholes /\ writes'[p].unknown = 0
    BY <1>3, <2>1, <2>3 DEF TickIInv, SimulatedCounted
  <2> QED BY <1>5, <2>2, <2>3 DEF SimulatedCounted, Storing, Observations
<1>10. SeededKnows'
  BY <1>1, <1>2 DEF TickIInv, SeededKnows, SameKey
<1> QED BY <1>1, <1>5, <1>6, <1>8, <1>9, <1>10 DEF TickIInv

\* A seed only adds to the catalog, and only what is listed.
LEMMA SeedOnlyAdds ==
  ASSUME SeedIInv, NEW s \in Seeders, SeedStep(s) \/ AbortSeed(s)
  PROVE  catalog \subseteq catalog' /\ catalog' \subseteq Listed \cup catalog
<1>1. catalog' = catalog \/ catalog' = catalog \cup open[s]
  BY DEF SeedStep, InsertRow, RefuseSize, CommitSeed, AbortSeed
<1>2. open[s] \subseteq Listed
  BY DEF SeedIInv, SeedTypeOK
<1> QED BY <1>1, <1>2

LEMMA SeedRunsStep == TickIInv /\ SeedRuns => TickIInv'
<1> SUFFICES ASSUME TickIInv, NEW s \in Seeders, SeedStep(s) \/ AbortSeed(s),
                    UNCHANGED <<feed_vars, tick>>
             PROVE  TickIInv'
  BY DEF SeedRuns
<1>1. SeedIInv' /\ FeedIInv'
  BY SeedRunStep, FeedStutterStep DEF TickIInv
<1>2. /\ catalog \subseteq catalog' /\ catalog' \subseteq Listed \cup catalog
      /\ feed_pc' = feed_pc /\ Fetched' = Fetched
      /\ tick_pc' = tick_pc /\ provider' = provider /\ todo' = todo /\ tally' = tally
      /\ writes' = writes /\ failures' = failures /\ seeded' = seeded
  BY SeedOnlyAdds DEF TickIInv, feed_vars, tick, Fetched
<1>3. \A o : SameKey(o, Listed \cup catalog') <=> SameKey(o, Listed \cup catalog)
  BY <1>2 DEF SameKey
<1>4. Unlisted(Fetched)' = Unlisted(Fetched) /\ Unlisted(todo)' = Unlisted(todo)
  <2>1. \A list : {o \in list : ~SameKey(o, Listed \cup catalog')}
                    = {o \in list : ~SameKey(o, Listed \cup catalog)}
    BY <1>3
  <2> QED BY <1>2, <2>1 DEF Unlisted
<1>5. \A o : SameKey(o, catalog) => SameKey(o, catalog')
  BY <1>2 DEF SameKey
<1>6. TypeOK'
  BY <1>1, <1>2 DEF TickIInv, TypeOK, FeedIInv, FeedPlaced, SeedIInv
<1>7. InOrder'
  BY <1>2 DEF TickIInv, InOrder
<1>8. AzureCounted'
  BY <1>2, <1>4 DEF TickIInv, AzureCounted, Storing, Observations
<1>9. SimulatedCounted'
  <2>1. Wholes' = Wholes
    BY DEF Wholes
  <2>2. \A o : SameKey(o, catalog)' <=> SameKey(o, catalog')
    BY DEF SameKey
  <2> QED BY <1>2, <1>5, <2>1, <2>2 DEF TickIInv, SimulatedCounted, Storing, Observations
<1>10. SeededKnows'
  <2>1. \A o : SameKey(o, catalog)' <=> SameKey(o, catalog')
    BY DEF SameKey
  <2> QED BY <1>2, <1>5, <2>1 DEF TickIInv, SeededKnows
<1> QED BY <1>1, <1>6, <1>7, <1>8, <1>9, <1>10 DEF TickIInv

LEMMA TickStutterStep == TickIInv /\ UNCHANGED vars => TickIInv'
<1> SUFFICES ASSUME TickIInv, UNCHANGED vars PROVE TickIInv'
  OBVIOUS
<1>1. /\ FeedIInv' /\ SeedIInv' /\ FeedTypeOK' /\ SeedTypeOK'
      /\ feed_pc' = feed_pc /\ catalog' = catalog /\ Fetched' = Fetched
  BY PartsKept DEF vars
<1>2. /\ tick_pc' = tick_pc /\ provider' = provider /\ todo' = todo /\ tally' = tally
      /\ writes' = writes /\ failures' = failures /\ seeded' = seeded
  BY DEF vars, tick
<1>3. Unlisted(Fetched)' = Unlisted(Fetched) /\ Unlisted(todo)' = Unlisted(todo)
  BY <1>1, <1>2 DEF Unlisted
<1>4. TypeOK' /\ InOrder' /\ SeededKnows'
  BY <1>1, <1>2 DEF TickIInv, TypeOK, InOrder, SeededKnows, SameKey
<1>5. AzureCounted'
  BY <1>1, <1>2, <1>3 DEF TickIInv, AzureCounted, Storing, Observations
<1>6. SimulatedCounted'
  BY <1>1, <1>2 DEF TickIInv, SimulatedCounted, Storing, Observations, SameKey
<1> QED BY <1>1, <1>4, <1>5, <1>6 DEF TickIInv

LEMMA TickInvariant == Spec => []TickIInv
<1>1. TickIInv /\ [Next]_vars => TickIInv'
  <2> SUFFICES ASSUME TickIInv, [Next]_vars PROVE TickIInv'
    OBVIOUS
  <2>1. CASE Run
    BY <2>1, BeginStep, FetchAzureStep, StoreAzureStep, AzureFailedStep, RaisesStep,
       NoCatalogStep, SimulateStep, StoreOneStep, StoredStep DEF Run
  <2>2. CASE SeedRuns
    BY <2>2, SeedRunsStep
  <2>3. CASE AllEnded \/ UNCHANGED vars
    BY <2>3, TickStutterStep DEF AllEnded, SeedsEnded, vars
  <2> QED BY <2>1, <2>2, <2>3 DEF Next
<1> QED BY TickInitIInv, <1>1, PTL DEF Spec

--------------------------------------------------------------------------------
(***************************************************************************)
(* What a tick promises.                                                   *)
(***************************************************************************)
\* The type invariant of the tick and of the feed and the seed in it: whatever the
\* seeds beside it do, it stores the prices of one provider at a time.
THEOREM TickTypeCorrect == Spec => []TypeOK
<1>1. TickIInv => TypeOK
  BY DEF TickIInv
<1> QED BY TickInvariant, <1>1, PTL

\* "A partial tick that says which provider failed", for any listing and any lists of
\* sizes: what is returned accounts for every provider, and for all of its prices.
THEOREM TickReportsEveryProvider == Spec => []EveryProviderReported
<1>1. TickIInv => EveryProviderReported
  <2> SUFFICES ASSUME TickIInv, tick_pc = "returned"
               PROVE  /\ DOMAIN writes \cup failures = Providers
                      /\ "azure" \in DOMAIN writes =>
                           Observations(writes["azure"]) = Cardinality(OfKind("spot", Reach))
                      /\ \A p \in SimulatedProviders \cap DOMAIN writes :
                           Observations(writes[p]) \in Wholes
    BY DEF EveryProviderReported, Wholes
  <2>1. DOMAIN writes \cup failures = Providers
    BY DEF TickIInv, InOrder
  <2>2. ASSUME "azure" \in DOMAIN writes
        PROVE  Observations(writes["azure"]) = Cardinality(OfKind("spot", Reach))
    <3>1. feed_pc = "returned" /\ Observations(writes["azure"]) = Cardinality(Fetched)
      BY <2>2 DEF TickIInv, AzureCounted
    <3>2. observations = OfKind("spot", Reach)
      BY <3>1 DEF TickIInv, FeedIInv, NeverPartial
    <3>3. Cardinality(Fetched) = Cardinality(observations)
      BY FetchedSize DEF TickIInv, FeedIInv
    <3> QED BY <3>1, <3>2, <3>3
  <2>3. \A p \in SimulatedProviders \cap DOMAIN writes : Observations(writes[p]) \in Wholes
    BY DEF TickIInv, SimulatedCounted
  <2> QED BY <2>1, <2>2, <2>3
<1> QED BY TickInvariant, <1>1, PTL

\* "Raises rather than contributing partial data", for any listing: a provider is never
\* both in failures and in writes, nor on its way there.
THEOREM FailedProvidersStoreNothing == Spec => []FailedProviderStoresNothing
<1>1. TickIInv => FailedProviderStoresNothing
  <2> SUFFICES ASSUME TickIInv, NEW p \in failures
               PROVE  p \notin DOMAIN writes /\ ~Storing(p)
    BY DEF FailedProviderStoresNothing, Storing
  <2>1. p \notin DOMAIN writes
    BY DEF TickIInv, InOrder
  <2>2. tick_pc = "store" => p \in Before(provider) /\ provider \in Providers
    BY DEF TickIInv, TypeOK, InOrder
  <2>3. provider \in Providers => provider \notin Before(provider)
    BY DEF Providers, Before
  <2> QED BY <2>1, <2>2, <2>3 DEF Storing
<1> QED BY TickInvariant, <1>1, PTL

\* After a seed a tick knows every size, for any lists and any number of seeds that
\* start, commit or abort while it runs.
THEOREM SeededTicksAreWhole == Spec => []SeededTickIsWhole
<1>1. TickIInv => SeededTickIsWhole
  <2> SUFFICES ASSUME TickIInv, seeded, tick_pc = "returned"
               PROVE  /\ failures \subseteq {"azure"}
                      /\ \A p \in DOMAIN writes :
                           writes[p].unknown =
                             IF p = "azure" THEN Cardinality(Unlisted(Fetched)) ELSE 0
    BY DEF SeededTickIsWhole, Unlisted
  <2>1. failures \subseteq {"azure"}
    BY DEF TickIInv, SeededKnows
  <2>2. "azure" \in DOMAIN writes =>
          writes["azure"].unknown = Cardinality(Unlisted(Fetched))
    BY DEF TickIInv, AzureCounted
  <2>3. \A p \in SimulatedProviders \cap DOMAIN writes : writes[p].unknown = 0
    BY DEF TickIInv, SimulatedCounted
  <2>4. DOMAIN writes \subseteq {"azure"} \cup SimulatedProviders
    BY DEF TickIInv, TypeOK, Providers, SimulatedProviders
  <2> QED BY <2>1, <2>2, <2>3, <2>4 DEF SimulatedProviders
<1> QED BY TickInvariant, <1>1, PTL
================================================================================
