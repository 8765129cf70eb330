---------------------------------- MODULE Seed ----------------------------------
(***************************************************************************)
(* scripts/seed.py: the curated machine sizes go into instance_catalog,    *)
(* once, however often and however concurrently the script is run.  Azure  *)
(* sizes get the specification their name spells out (derive_spec of       *)
(* app/ingest/catalog.py) or are refused.                                  *)
(***************************************************************************)
EXTENDS Integers, Sequences, FiniteSets

CONSTANTS
  Seeders,         \* runs of the script
  AzureSizes,      \* CURATED_AZURE_SIZES, in order
  SimulatedSizes,  \* CURATED_SIMULATED_SIZES: rows of the other two, in order
  OldRows          \* rows of an older list: another specification, or no size of today's

\* A size name, as the pattern _SIZE takes it apart.
Size == [matches : BOOLEAN, family : STRING, vcpu : Nat]

ASSUME AzureAssumption == AzureSizes \in Seq(Size)

VARIABLES
  catalog,   \* committed rows of instance_catalog
  open,      \* the rows each seeder inserted and has not committed
  next_row,  \* the size it is at, in the order of the lists
  inserted,  \* the rows RETURNING gave it
  seed_pc    \* running | committed | failed

seed_vars == <<catalog, open, next_row, inserted, seed_pc>>

--------------------------------------------------------------------------------
\* _MEMORY_GB_PER_VCPU, and UNDERIVABLE_FAMILIES, which have no ratio.
MemoryPerVcpu == [D |-> 4, E |-> 8, F |-> 2, L |-> 8]
UnderivableFamilies == {"B", "M", "N", "G", "H"}

\* Seeded fault: a size of no vCPUs is accepted.
DerivableZero(size) ==
  /\ size.matches
  /\ size.family \notin UnderivableFamilies
  /\ size.family \in DOMAIN MemoryPerVcpu

\* derive_spec returns a specification and not None.
Derivable(size) ==
  /\ size.matches
  /\ size.family \notin UnderivableFamilies
  /\ size.family \in DOMAIN MemoryPerVcpu
  /\ size.vcpu > 0

AzureRow(size) ==
  [provider |-> "azure", instance_type |-> size, vcpu |-> size.vcpu,
   memory_mb |-> size.vcpu * MemoryPerVcpu[size.family] * 1024]

\* The script goes through the Azure sizes, then through the others.
Sizes == Len(AzureSizes) + Len(SimulatedSizes)

\* "underivable, refused": there is no row for the i-th size.
Underivable(i) == i <= Len(AzureSizes) /\ ~Derivable(AzureSizes[i])

RowAt(i) ==
  IF i <= Len(AzureSizes) THEN AzureRow(AzureSizes[i]) ELSE SimulatedSizes[i - Len(AzureSizes)]

\* The rows the script inserts.
Listed == {RowAt(i) : i \in {j \in 1..Sizes : ~Underivable(j)}}

\* The natural key, which ON CONFLICT names.
Key(row) == <<row.provider, row.instance_type>>
SameKey(row, rows) == \E r \in rows : Key(r) = Key(row)

\* ck_instance_catalog_vcpu_positive and ck_instance_catalog_memory_positive.
Storable(row) == row.vcpu > 0 /\ row.memory_mb > 0

\* uq_instance_catalog_provider_type
OneToAKey(rows) == \A p, q \in rows : Key(p) = Key(q) => p = q

\* CURATED_SIMULATED_SIZES has a positive specification for every size, and no size
\* twice; the checks above held for what was planted before.
ASSUME SimulatedAssumption ==
  /\ SimulatedSizes \in Seq([provider : {"aws", "gcp"}, instance_type : Size,
                             vcpu : Nat \ {0}, memory_mb : Nat \ {0}])
  /\ OneToAKey({SimulatedSizes[i] : i \in DOMAIN SimulatedSizes})
ASSUME OldRowsAssumption == IsFiniteSet(OldRows) /\ \A row \in OldRows : Storable(row)

SeedTypeOK ==
  /\ catalog \subseteq Listed \cup OldRows
  /\ \A row \in catalog : Storable(row)
  /\ open \in [Seeders -> SUBSET Listed]
  /\ next_row \in [Seeders -> 1..Sizes + 1]
  /\ inserted \in [Seeders -> Nat]
  /\ seed_pc \in [Seeders -> {"running", "committed", "failed"}]

\* Earlier runs, of an older list maybe, have left some rows.
SeedInit ==
  /\ catalog \in {rows \in SUBSET (Listed \cup OldRows) : OneToAKey(rows)}
  /\ open = [s \in Seeders |-> {}]
  /\ next_row = [s \in Seeders |-> 1]
  /\ inserted = [s \in Seeders |-> 0]
  /\ seed_pc = [s \in Seeders |-> "running"]

--------------------------------------------------------------------------------
\* The seeder is at a size with a specification.
AtRow(s) == next_row[s] <= Sizes /\ ~Underivable(next_row[s])

\* Seeded fault: checked first, then inserted: the check does not wait.
InsertRowAfterCheck(s) ==
  /\ seed_pc[s] = "running"
  /\ AtRow(s)
  /\ LET row == RowAt(next_row[s]) IN
       IF SameKey(row, catalog \cup open[s])
         THEN UNCHANGED <<open, inserted>>
         ELSE /\ open' = [open EXCEPT ![s] = @ \cup {row}]
              /\ inserted' = [inserted EXCEPT ![s] = @ + 1]
  /\ next_row' = [next_row EXCEPT ![s] = @ + 1]
  /\ UNCHANGED <<catalog, seed_pc>>

\* Seeded fault: a catalog with rows counts as seeded.
InsertRowIfEmpty(s) ==
  /\ seed_pc[s] = "running"
  /\ AtRow(s)
  /\ LET row == RowAt(next_row[s]) IN
       /\ \A t \in Seeders \ {s} : ~SameKey(row, open[t])
       /\ IF catalog # {}
            THEN UNCHANGED <<open, inserted>>
            ELSE /\ open' = [open EXCEPT ![s] = @ \cup {row}]
                 /\ inserted' = [inserted EXCEPT ![s] = @ + 1]
  /\ next_row' = [next_row EXCEPT ![s] = @ + 1]
  /\ UNCHANGED <<catalog, seed_pc>>

\* Seeded fault: the rows come in an order of their own in every run.
InsertRowAnyOrder(s) ==
  /\ seed_pc[s] = "running"
  /\ AtRow(s)
  /\ \E row \in Listed \ open[s] :
       /\ \A t \in Seeders \ {s} : ~SameKey(row, open[t])
       /\ IF SameKey(row, catalog)
            THEN UNCHANGED <<open, inserted>>
            ELSE /\ open' = [open EXCEPT ![s] = @ \cup {row}]
                 /\ inserted' = [inserted EXCEPT ![s] = @ + 1]
  /\ next_row' = [next_row EXCEPT ![s] = @ + 1]
  /\ UNCHANGED <<catalog, seed_pc>>

\* INSERT ... ON CONFLICT DO NOTHING waits for a transaction that inserted the
\* same key, and then sees what it committed.
InsertRow(s) ==
  /\ seed_pc[s] = "running"
  /\ AtRow(s)
  /\ LET row == RowAt(next_row[s]) IN
       /\ \A t \in Seeders \ {s} : ~SameKey(row, open[t])
       /\ IF SameKey(row, catalog \cup open[s])
            THEN UNCHANGED <<open, inserted>>
            ELSE /\ open' = [open EXCEPT ![s] = @ \cup {row}]
                 /\ inserted' = [inserted EXCEPT ![s] = @ + 1]
  /\ next_row' = [next_row EXCEPT ![s] = @ + 1]
  /\ UNCHANGED <<catalog, seed_pc>>

\* A size without one is passed over.  The script does so before its first INSERT, on
\* lists that never change: nobody can tell.
RefuseSize(s) ==
  /\ seed_pc[s] = "running"
  /\ next_row[s] <= Sizes
  /\ Underivable(next_row[s])
  /\ next_row' = [next_row EXCEPT ![s] = @ + 1]
  /\ UNCHANGED <<catalog, open, inserted, seed_pc>>

\* engine.begin() commits when its block is left.
CommitSeed(s) ==
  /\ seed_pc[s] = "running"
  /\ next_row[s] > Sizes
  /\ catalog' = catalog \cup open[s]
  /\ open' = [open EXCEPT ![s] = {}]
  /\ seed_pc' = [seed_pc EXCEPT ![s] = "committed"]
  /\ UNCHANGED <<next_row, inserted>>

\* The script dies, or its connection does: nothing of it stays.
AbortSeed(s) ==
  /\ seed_pc[s] = "running"
  /\ open' = [open EXCEPT ![s] = {}]
  /\ seed_pc' = [seed_pc EXCEPT ![s] = "failed"]
  /\ UNCHANGED <<catalog, next_row, inserted>>

SeedStep(s) == InsertRow(s) \/ RefuseSize(s) \/ CommitSeed(s)

SeedsEnded == (\A s \in Seeders : seed_pc[s] # "running") /\ UNCHANGED seed_vars

SeedNext ==
  \/ \E s \in Seeders : SeedStep(s) \/ AbortSeed(s)
  \/ SeedsEnded

SeedSpec == SeedInit /\ [][SeedNext]_seed_vars

\* A script that runs goes on to its end.
SeedFairSpec == SeedSpec /\ \A s \in Seeders : WF_seed_vars(SeedStep(s))

--------------------------------------------------------------------------------
\* "Counts come from the database": the script that commits says how many rows
\* it added, also when another one was seeding at the same time.
SeedCountsWhatItAdds ==
  [][\A s \in Seeders :
       CommitSeed(s) => Cardinality(catalog' \ catalog) = inserted[s]]_seed_vars

\* "Running this twice leaves exactly the same rows", and all of them: a script that
\* ended well leaves one row for every size with a specification.  It is the list's,
\* or the one an older list planted, which DO NOTHING keeps however wrong it is.
SeededCompletely ==
  (\E s \in Seeders : seed_pc[s] = "committed") =>
    /\ OneToAKey(catalog)
    /\ \A row \in Listed : \E r \in catalog : Key(r) = Key(row) /\ r \in {row} \cup OldRows
    /\ catalog \subseteq Listed \cup OldRows

\* Concurrent scripts wait for each other in the order of the rows, never in a
\* circle: each one ends.
SeedsEnd == \A s \in Seeders : <>(seed_pc[s] # "running")
================================================================================
