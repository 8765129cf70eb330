---------------------------------- MODULE Tick ----------------------------------
(***************************************************************************)
(* run_tick of app/ingest/tick.py: Azure is fetched and stored, then the   *)
(* two simulated providers are, while the seed may be filling the catalog. *)
(* A provider that fails is reported and the tick goes on.                 *)
(*                                                                         *)
(* Composes AzureFeed and Seed.  The store is the outcome of _store_one:   *)
(* StoreWriter has what happens inside it when ticks run side by side.     *)
(***************************************************************************)
EXTENDS AzureFeed, Seed

CONSTANT
  SizeOf    \* armSkuName of the item at a page and position

VARIABLES
  tick_pc,    \* fetch | catalog | store | returned | raised
  provider,   \* the provider the tick is at
  todo,       \* the observations store_prices has not stored yet
  tally,      \* the counters of the store_prices that runs
  writes,     \* TickResult.writes: the counters by provider
  failures,   \* TickResult.failures: the providers that failed
  seeded      \* history: a seed had committed when the tick began

tick == <<tick_pc, provider, todo, tally, writes, failures, seeded>>
vars == <<feed_vars, seed_vars, tick>>

Providers == {"azure", "aws", "gcp"}
SimulatedProviders == {"aws", "gcp"}
OperatingSystems == {"linux", "windows"}

\* CURATED_SIMULATED_SIZES has sizes for both.
ASSUME SimulatedProvidersAssumption ==
  \A p \in SimulatedProviders : \E i \in DOMAIN SimulatedSizes : SimulatedSizes[i].provider = p

Counts == [known : Nat, unknown : Nat]
NoCounts == [known |-> 0, unknown |-> 0]

\* An observation, as far as the catalog lookup looks at it; `item` tells the
\* observations of one size apart.
Observed(p, size, item) == [provider |-> p, instance_type |-> size, item |-> item]

Init ==
  /\ FeedInit
  /\ SeedInit
  /\ tick_pc = "idle"
  /\ provider = "azure"
  /\ todo = {}
  /\ tally = NoCounts
  /\ writes = <<>>
  /\ failures = {}
  /\ seeded = FALSE

TypeOK ==
  /\ FeedTypeOK
  /\ SeedTypeOK
  /\ tick_pc \in {"idle", "fetch", "catalog", "store", "returned", "raised"}
  /\ provider \in Providers
  /\ IsFiniteSet(todo)
  /\ \A o \in todo : o.provider = provider
  /\ tally \in Counts
  /\ DOMAIN writes \subseteq Providers
  /\ \A p \in DOMAIN writes : writes[p] \in Counts
  /\ failures \subseteq Providers
  /\ seeded \in BOOLEAN

--------------------------------------------------------------------------------
Begin ==
  /\ tick_pc = "idle"
  /\ tick_pc' = "fetch"
  /\ seeded' = (\E s \in Seeders : seed_pc[s] = "committed")
  /\ UNCHANGED <<feed_vars, seed_vars, provider, todo, tally, writes, failures>>

FetchAzure ==
  /\ tick_pc = "fetch"
  /\ Fetch
  /\ UNCHANGED <<seed_vars, tick>>

\* store_prices is called with a provider's list.
Store(p, list) ==
  /\ tick_pc' = "store"
  /\ provider' = p
  /\ todo' = list
  /\ tally' = NoCounts

\* The tick turns to the provider after p, or returns its TickResult.
Turn(p) ==
  /\ IF p = "gcp" THEN tick_pc' = "returned" ELSE tick_pc' = "catalog"
  /\ provider' = IF p = "azure" THEN "aws" ELSE "gcp"
  /\ todo' = {}
  /\ tally' = NoCounts

Fetched == {Observed("azure", SizeOf[o], o) : o \in observations}

StoreAzure ==
  /\ tick_pc = "fetch"
  /\ feed_pc = "returned"
  /\ Store("azure", Fetched)
  /\ UNCHANGED <<feed_vars, seed_vars, writes, failures, seeded>>

\* Seeded fault: what was fetched before the failure is stored after all.
AzureFailedKeepsPart ==
  /\ tick_pc = "fetch"
  /\ feed_pc \in {"unavailable", "unexpected", "runaway"}
  /\ failures' = failures \cup {"azure"}
  /\ Store("azure", Fetched)
  /\ UNCHANGED <<feed_vars, seed_vars, writes, seeded>>

\* Seeded fault: the error is swallowed.
AzureFailedSilently ==
  /\ tick_pc = "fetch"
  /\ feed_pc \in {"unavailable", "unexpected", "runaway"}
  /\ Turn("azure")
  /\ UNCHANGED <<feed_vars, seed_vars, writes, failures, seeded>>

\* except ProviderError: the failure is kept, and nothing of Azure is stored.
AzureFailed ==
  /\ tick_pc = "fetch"
  /\ feed_pc \in {"unavailable", "unexpected", "runaway"}
  /\ failures' = failures \cup {"azure"}
  /\ Turn("azure")
  /\ UNCHANGED <<feed_vars, seed_vars, writes, seeded>>

\* An exception that is no ProviderError leaves run_tick: nothing is committed.
AzureEscapes ==
  /\ tick_pc = "fetch"
  /\ feed_pc = "escaped"
  /\ tick_pc' = "raised"
  /\ UNCHANGED <<feed_vars, seed_vars, provider, todo, tally, writes, failures, seeded>>

\* Seeded fault: the query has no WHERE provider.
CatalogForAll(p) == catalog

\* _catalog_for
CatalogFor(p) == {row \in catalog : row.provider = p}

\* simulated.fetch_spot_prices: one observation for every size and system.
Simulated(p) ==
  {Observed(p, row.instance_type, os) : row \in CatalogFor(p), os \in OperatingSystems}

\* No rows means that the seed has not run, which is said and is no error.
NoCatalog ==
  /\ tick_pc = "catalog"
  /\ CatalogFor(provider) = {}
  /\ failures' = failures \cup {provider}
  /\ Turn(provider)
  /\ UNCHANGED <<feed_vars, seed_vars, writes, seeded>>

Simulate ==
  /\ tick_pc = "catalog"
  /\ CatalogFor(provider) # {}
  /\ Store(provider, Simulated(provider))
  /\ UNCHANGED <<feed_vars, seed_vars, writes, failures, seeded>>

\* _store_one looks the size up in what is committed at that moment.
StoreOne ==
  /\ tick_pc = "store"
  /\ \E o \in todo :
       /\ todo' = todo \ {o}
       /\ tally' = IF SameKey(o, catalog)
                     THEN [tally EXCEPT !.known = @ + 1]
                     ELSE [tally EXCEPT !.unknown = @ + 1]
  /\ UNCHANGED <<feed_vars, seed_vars, tick_pc, provider, writes, failures, seeded>>

\* A DBAPIError that is not retried, or not any more, leaves run_tick.
StoreRaises ==
  /\ tick_pc = "store"
  /\ \E o \in todo : SameKey(o, catalog)
  /\ tick_pc' = "raised"
  /\ UNCHANGED <<feed_vars, seed_vars, provider, todo, tally, writes, failures, seeded>>

\* store_prices returns its WriteResult.
Stored ==
  /\ tick_pc = "store"
  /\ todo = {}
  /\ writes' = [p \in DOMAIN writes \cup {provider} |->
                  IF p = provider THEN tally ELSE writes[p]]
  /\ Turn(provider)
  /\ UNCHANGED <<feed_vars, seed_vars, failures, seeded>>

Run ==
  \/ Begin \/ FetchAzure \/ StoreAzure \/ AzureFailed \/ AzureEscapes
  \/ NoCatalog \/ Simulate \/ StoreOne \/ StoreRaises \/ Stored

SeedRuns ==
  /\ \E s \in Seeders : SeedStep(s) \/ AbortSeed(s)
  /\ UNCHANGED <<feed_vars, tick>>

Ended == tick_pc \in {"returned", "raised"}

AllEnded == Ended /\ SeedsEnded /\ UNCHANGED <<feed_vars, tick>>

Next == Run \/ SeedRuns \/ AllEnded

Spec == Init /\ [][Next]_vars

\* The tick is one coroutine, which goes on unless the process dies with it: every
\* request has a timeout, and the statements end (EveryTickEnds of StoreWriter).
FairSpec == Spec /\ WF_vars(Run)

--------------------------------------------------------------------------------
Observations(counts) == counts.known + counts.unknown

\* "A partial tick that says which provider failed" (tick.py): in a TickResult
\* every provider either failed or has counts, and counts that cover every spot
\* price of the region, or every system of at least one size.
EveryProviderReported ==
  tick_pc = "returned" =>
    /\ DOMAIN writes \cup failures = Providers
    /\ "azure" \in DOMAIN writes =>
         Observations(writes["azure"]) = Cardinality(OfKind("spot", Reach))
    /\ \A p \in SimulatedProviders \cap DOMAIN writes :
         Observations(writes[p]) \in
           {Cardinality(OperatingSystems) * n : n \in 1..Len(SimulatedSizes) + Cardinality(OldRows)}

\* "Raises rather than contributing partial data" (tick.py): no price of a provider
\* that failed is in the store, neither counted nor on its way there.
FailedProviderStoresNothing ==
  \A p \in failures :
    p \notin DOMAIN writes /\ ~(tick_pc = "store" /\ provider = p)

\* After a seed, a tick knows every size the project tracks: no simulated provider
\* is without a catalog, and only what the seed refused, or never listed, is
\* counted as unknown, whatever another seed is doing meanwhile.
SeededTickIsWhole ==
  (seeded /\ tick_pc = "returned") =>
    /\ failures \subseteq {"azure"}
    /\ \A p \in DOMAIN writes :
         writes[p].unknown =
           IF p = "azure"
             THEN Cardinality({o \in Fetched : ~SameKey(o, Listed \cup catalog)})
             ELSE 0

\* The tick ends, whatever the feed's links do.
TickEnds == tick_pc = "fetch" ~> Ended
================================================================================
