------------------------------- MODULE SeedProofs -------------------------------
(***************************************************************************)
(* Proofs about Seed, for any lists of sizes, any number of scripts and    *)
(* any rows that earlier ones left.                                        *)
(***************************************************************************)
EXTENDS Seed, FiniteSetTheorems, TLAPS

\* No key is planted twice: not within a script, not by two of them, and not beside
\* a row that is there.
KeysSeparate ==
  /\ OneToAKey(catalog)
  /\ \A s \in Seeders :
       /\ OneToAKey(open[s])
       /\ \A row \in open[s] :
            /\ ~SameKey(row, catalog)
            /\ \A t \in Seeders \ {s} : ~SameKey(row, open[t])

\* What RETURNING gave a script is what it has not committed yet.
InsertedIsOpen ==
  \A s \in Seeders :
    seed_pc[s] = "running" =>
      IsFiniteSet(open[s]) /\ Cardinality(open[s]) = inserted[s]

\* A script that has not failed is past sizes that have a row, or cannot have one.
PastSizesCovered ==
  \A s \in Seeders :
    seed_pc[s] # "failed" =>
      \A i \in 1..next_row[s] - 1 : Underivable(i) \/ SameKey(RowAt(i), catalog \cup open[s])

\* A committed script went through both lists.
CommittedAtEnd ==
  \A s \in Seeders :
    seed_pc[s] = "committed" => next_row[s] = Sizes + 1 /\ open[s] = {}

SeedIInv ==
  SeedTypeOK /\ KeysSeparate /\ InsertedIsOpen /\ PastSizesCovered /\ CommittedAtEnd

--------------------------------------------------------------------------------
(***************************************************************************)
(* The lists.                                                              *)
(***************************************************************************)
LEMMA SizesType == /\ Len(AzureSizes) \in Nat
                   /\ Len(SimulatedSizes) \in Nat
                   /\ Sizes \in Nat
BY AzureAssumption, SimulatedAssumption DEF Sizes

LEMMA MemoryIsPositive ==
  ASSUME NEW f \in DOMAIN MemoryPerVcpu
  PROVE  MemoryPerVcpu[f] \in Nat /\ MemoryPerVcpu[f] > 0
BY DEF MemoryPerVcpu

LEMMA ProductIsPositive ==
  ASSUME NEW a \in Nat, NEW b \in Nat, a > 0, b > 0
  PROVE  a * b * 1024 > 0
OBVIOUS

\* What derive_spec does not refuse passes the table's checks.
LEMMA DerivedIsStorable ==
  ASSUME NEW size \in Size, Derivable(size)
  PROVE  Storable(AzureRow(size))
<1>1. size.vcpu \in Nat /\ size.vcpu > 0
  BY DEF Size, Derivable
<1>2. MemoryPerVcpu[size.family] \in Nat /\ MemoryPerVcpu[size.family] > 0
  BY MemoryIsPositive DEF Derivable
<1> QED BY <1>1, <1>2, ProductIsPositive DEF Storable, AzureRow

\* A listed row is an Azure row made from its size, or a row of the other list.
LEMMA ListedIs ==
  ASSUME NEW row \in Listed
  PROVE  \/ \E i \in DOMAIN AzureSizes :
              Derivable(AzureSizes[i]) /\ row = AzureRow(AzureSizes[i])
         \/ \E i \in DOMAIN SimulatedSizes : row = SimulatedSizes[i]
<1>1. PICK i \in 1..Sizes : ~Underivable(i) /\ row = RowAt(i)
  BY DEF Listed
<1>2. CASE i <= Len(AzureSizes)
  BY <1>1, <1>2, SizesType, AzureAssumption DEF Underivable, RowAt
<1>3. CASE i > Len(AzureSizes)
  <2>1. /\ i - Len(AzureSizes) \in 1..Len(SimulatedSizes)
        /\ row = SimulatedSizes[i - Len(AzureSizes)]
    BY <1>1, <1>3, SizesType DEF RowAt, Sizes
  <2> QED BY <2>1, SimulatedAssumption
<1> QED BY <1>2, <1>3, SizesType

LEMMA SimulatedRow ==
  ASSUME NEW i \in DOMAIN SimulatedSizes
  PROVE  /\ SimulatedSizes[i].provider \in {"aws", "gcp"}
         /\ Storable(SimulatedSizes[i])
<1> DEFINE Simulated == [provider : {"aws", "gcp"}, instance_type : Size,
                         vcpu : Nat \ {0}, memory_mb : Nat \ {0}]
<1>1. SimulatedSizes \in Seq(Simulated)
  BY SimulatedAssumption
<1> HIDE DEF Simulated
<1>2. SimulatedSizes[i] \in Simulated
  BY <1>1
<1> QED BY <1>2 DEF Simulated, Storable

LEMMA ListedIsStorable == \A row \in Listed : Storable(row)
<1> SUFFICES ASSUME NEW row \in Listed PROVE Storable(row)
  OBVIOUS
<1>1. CASE \E i \in DOMAIN AzureSizes :
             Derivable(AzureSizes[i]) /\ row = AzureRow(AzureSizes[i])
  BY <1>1, AzureAssumption, DerivedIsStorable
<1>2. CASE \E i \in DOMAIN SimulatedSizes : row = SimulatedSizes[i]
  BY <1>2, SimulatedRow
<1> QED BY <1>1, <1>2, ListedIs

\* No two sizes share a key: an Azure row is made from the size in its key.
LEMMA ListedOneToAKey == OneToAKey(Listed)
<1> SUFFICES ASSUME NEW p \in Listed, NEW q \in Listed, Key(p) = Key(q) PROVE p = q
  BY DEF OneToAKey
<1>1. ASSUME NEW i \in DOMAIN AzureSizes, NEW j \in DOMAIN AzureSizes,
             p = AzureRow(AzureSizes[i]), q = AzureRow(AzureSizes[j])
      PROVE  p = q
  BY <1>1 DEF Key, AzureRow
<1>2. ASSUME NEW i \in DOMAIN AzureSizes, NEW j \in DOMAIN SimulatedSizes
      PROVE  AzureRow(AzureSizes[i]).provider # SimulatedSizes[j].provider
  BY SimulatedRow DEF AzureRow
<1>3. ASSUME NEW i \in DOMAIN SimulatedSizes, NEW j \in DOMAIN SimulatedSizes,
             p = SimulatedSizes[i], q = SimulatedSizes[j]
      PROVE  p = q
  BY <1>3, SimulatedAssumption DEF OneToAKey
<1>4. p.provider = q.provider
  BY DEF Key
<1> QED BY <1>1, <1>2, <1>3, <1>4, ListedIs

LEMMA RowAtListed ==
  ASSUME SeedTypeOK, NEW s \in Seeders, AtRow(s)
  PROVE  next_row[s] \in 1..Sizes /\ RowAt(next_row[s]) \in Listed
<1>1. next_row[s] \in 1..Sizes
  BY SizesType DEF SeedTypeOK, AtRow
<1> QED BY <1>1 DEF Listed, AtRow

--------------------------------------------------------------------------------
(***************************************************************************)
(* The invariant, statement by statement.                                  *)
(***************************************************************************)
LEMMA SeedInitIInv == SeedInit => SeedIInv
<1> SUFFICES ASSUME SeedInit PROVE SeedIInv
  OBVIOUS
<1>1. SeedTypeOK
  BY SizesType, ListedIsStorable, OldRowsAssumption DEF SeedInit, SeedTypeOK
<1>2. KeysSeparate
  BY DEF SeedInit, KeysSeparate, OneToAKey
<1>3. InsertedIsOpen
  BY FS_EmptySet DEF SeedInit, InsertedIsOpen
<1>4. PastSizesCovered /\ CommittedAtEnd
  BY DEF SeedInit, PastSizesCovered, CommittedAtEnd
<1> QED BY <1>1, <1>2, <1>3, <1>4 DEF SeedIInv

LEMMA InsertRowStep ==
  ASSUME SeedIInv, NEW s \in Seeders, InsertRow(s)
  PROVE  SeedIInv'
<1> DEFINE row == RowAt(next_row[s])
           known == SameKey(row, catalog \cup open[s])
<1> USE DEF SeedIInv
<1>1. /\ seed_pc[s] = "running" /\ next_row[s] \in 1..Sizes /\ row \in Listed
      /\ \A t \in Seeders \ {s} : ~SameKey(row, open[t])
      /\ catalog' = catalog /\ seed_pc' = seed_pc
      /\ next_row' = [next_row EXCEPT ![s] = @ + 1]
  BY RowAtListed DEF InsertRow
<1>2. /\ known => open' = open /\ inserted' = inserted
      /\ ~known => /\ open' = [open EXCEPT ![s] = @ \cup {row}]
                   /\ inserted' = [inserted EXCEPT ![s] = @ + 1]
  BY DEF InsertRow
<1>3. /\ open \in [Seeders -> SUBSET Listed] /\ inserted \in [Seeders -> Nat]
      /\ next_row \in [Seeders -> 1..Sizes + 1]
  BY DEF SeedTypeOK
<1>4. /\ open'[s] = IF known THEN open[s] ELSE open[s] \cup {row}
      /\ inserted'[s] = IF known THEN inserted[s] ELSE inserted[s] + 1
      /\ \A t \in Seeders \ {s} : open'[t] = open[t] /\ inserted'[t] = inserted[t]
      /\ next_row'[s] = next_row[s] + 1
      /\ \A t \in Seeders \ {s} : next_row'[t] = next_row[t]
  BY <1>1, <1>2, <1>3
<1> HIDE DEF row, known
<1>5. SeedTypeOK'
  <2>1. open' \in [Seeders -> SUBSET Listed] /\ inserted' \in [Seeders -> Nat]
    BY <1>1, <1>2, <1>3
  <2>2. next_row' \in [Seeders -> 1..Sizes + 1]
    BY <1>1, <1>3, SizesType
  <2> QED BY <1>1, <2>1, <2>2 DEF SeedTypeOK
<1>6. ~known => \A r \in catalog \cup open[s] : Key(r) # Key(row)
  BY DEF known, SameKey
<1>7. KeysSeparate'
  <2>1. OneToAKey(catalog)'
    BY <1>1 DEF KeysSeparate, OneToAKey
  <2>2. OneToAKey(open[s])'
    BY <1>4, <1>6 DEF KeysSeparate, OneToAKey
  <2>3. \A t \in Seeders \ {s} : OneToAKey(open[t])'
    BY <1>4 DEF KeysSeparate, OneToAKey
  <2>4. \A r \in open'[s] : /\ ~SameKey(r, catalog')
                            /\ \A t \in Seeders \ {s} : ~SameKey(r, open'[t])
    BY <1>1, <1>4, <1>6 DEF KeysSeparate, SameKey
  <2>5. \A t \in Seeders \ {s} : \A r \in open'[t] :
          /\ ~SameKey(r, catalog')
          /\ \A v \in Seeders \ {t} : ~SameKey(r, open'[v])
    <3>1. SUFFICES ASSUME NEW t \in Seeders \ {s}, NEW r \in open[t]
                   PROVE  /\ ~SameKey(r, catalog)
                          /\ \A v \in Seeders \ {t} : ~SameKey(r, open'[v])
      BY <1>1, <1>4
    <3>2. Key(r) # Key(row)
      BY <1>1 DEF SameKey
    <3> QED BY <1>4, <3>2 DEF KeysSeparate, SameKey
  <2> QED BY <2>1, <2>2, <2>3, <2>4, <2>5 DEF KeysSeparate
<1>8. InsertedIsOpen'
  <2>1. ~known => row \notin open[s]
    BY <1>6
  <2>2. IsFiniteSet(open[s]) /\ Cardinality(open[s]) = inserted[s]
    BY <1>1 DEF InsertedIsOpen
  <2>3. IsFiniteSet(open'[s]) /\ Cardinality(open'[s]) = inserted'[s]
    BY <1>4, <2>1, <2>2, FS_AddElement
  <2> QED BY <1>1, <1>4, <2>3 DEF InsertedIsOpen
<1>9. PastSizesCovered'
  <2>1. SameKey(row, catalog \cup open'[s])
    BY <1>4 DEF known, SameKey
  <2>2. \A i \in 1..next_row[s] - 1 : Underivable(i) \/ SameKey(RowAt(i), catalog \cup open'[s])
    BY <1>1, <1>4 DEF PastSizesCovered, SameKey
  <2>3. \A i \in 1..next_row'[s] - 1 : Underivable(i) \/ SameKey(RowAt(i), catalog \cup open'[s])
    <3>1. \A i \in 1..next_row'[s] - 1 : i \in 1..next_row[s] - 1 \/ i = next_row[s]
      BY <1>1, <1>4, SizesType
    <3>2. SameKey(RowAt(next_row[s]), catalog \cup open'[s])
      BY <2>1 DEF row
    <3> QED BY <2>2, <3>1, <3>2
  <2>4. \A t \in Seeders \ {s} :
          seed_pc[t] # "failed" =>
            \A i \in 1..next_row'[t] - 1 :
              Underivable(i) \/ SameKey(RowAt(i), catalog \cup open'[t])
    BY <1>4 DEF PastSizesCovered
  <2> QED BY <1>1, <2>3, <2>4 DEF PastSizesCovered, SameKey
<1>10. CommittedAtEnd'
  BY <1>1, <1>4 DEF CommittedAtEnd
<1> QED BY <1>5, <1>7, <1>8, <1>9, <1>10

LEMMA RefuseSizeStep ==
  ASSUME SeedIInv, NEW s \in Seeders, RefuseSize(s)
  PROVE  SeedIInv'
<1> USE DEF SeedIInv
<1>1. /\ seed_pc[s] = "running" /\ next_row[s] \in 1..Sizes /\ Underivable(next_row[s])
      /\ catalog' = catalog /\ open' = open /\ inserted' = inserted /\ seed_pc' = seed_pc
      /\ next_row' = [next_row EXCEPT ![s] = @ + 1]
      /\ next_row \in [Seeders -> 1..Sizes + 1]
  BY SizesType DEF RefuseSize, SeedTypeOK
<1>2. /\ next_row'[s] = next_row[s] + 1
      /\ \A t \in Seeders \ {s} : next_row'[t] = next_row[t]
  BY <1>1
<1>3. SeedTypeOK'
  <2>1. next_row' \in [Seeders -> 1..Sizes + 1]
    BY <1>1, SizesType
  <2> QED BY <1>1, <2>1 DEF SeedTypeOK
<1>4. KeysSeparate' /\ InsertedIsOpen'
  BY <1>1 DEF KeysSeparate, InsertedIsOpen, OneToAKey, SameKey
<1>5. PastSizesCovered'
  <2>1. \A i \in 1..next_row'[s] - 1 : i \in 1..next_row[s] - 1 \/ i = next_row[s]
    BY <1>1, <1>2, SizesType
  <2>2. \A i \in 1..next_row'[s] - 1 : Underivable(i) \/ SameKey(RowAt(i), catalog \cup open[s])
    BY <1>1, <2>1 DEF PastSizesCovered
  <2> QED BY <1>1, <1>2, <2>2 DEF PastSizesCovered, SameKey
<1>6. CommittedAtEnd'
  BY <1>1, <1>2 DEF CommittedAtEnd
<1> QED BY <1>3, <1>4, <1>5, <1>6

LEMMA CommitSeedStep ==
  ASSUME SeedIInv, NEW s \in Seeders, CommitSeed(s)
  PROVE  SeedIInv'
<1> USE DEF SeedIInv
<1>1. /\ seed_pc[s] = "running" /\ next_row[s] > Sizes
      /\ catalog' = catalog \cup open[s] /\ next_row' = next_row /\ inserted' = inserted
      /\ open' = [open EXCEPT ![s] = {}]
      /\ seed_pc' = [seed_pc EXCEPT ![s] = "committed"]
  BY DEF CommitSeed
<1>2. /\ open \in [Seeders -> SUBSET Listed]
      /\ seed_pc \in [Seeders -> {"running", "committed", "failed"}]
      /\ next_row \in [Seeders -> 1..Sizes + 1]
  BY DEF SeedTypeOK
<1>3. /\ open'[s] = {} /\ seed_pc'[s] = "committed"
      /\ \A t \in Seeders \ {s} : open'[t] = open[t] /\ seed_pc'[t] = seed_pc[t]
  BY <1>1, <1>2
<1>4. SeedTypeOK'
  <2>1. open' \in [Seeders -> SUBSET Listed]
    BY <1>1, <1>2
  <2>2. catalog' \subseteq Listed \cup OldRows /\ \A row \in catalog' : Storable(row)
    BY <1>1, <1>2, ListedIsStorable DEF SeedTypeOK
  <2> QED BY <1>1, <1>2, <2>1, <2>2 DEF SeedTypeOK
<1>5. KeysSeparate'
  <2>1. OneToAKey(catalog)'
    BY <1>1 DEF KeysSeparate, OneToAKey, SameKey
  <2>2. \A t \in Seeders : OneToAKey(open[t])'
    BY <1>3 DEF KeysSeparate, OneToAKey
  <2>3. \A t \in Seeders : \A r \in open'[t] :
          /\ ~SameKey(r, catalog')
          /\ \A v \in Seeders \ {t} : ~SameKey(r, open'[v])
    <3>1. SUFFICES ASSUME NEW t \in Seeders \ {s}, NEW r \in open[t]
                   PROVE  /\ ~SameKey(r, catalog')
                          /\ \A v \in Seeders \ {t} : ~SameKey(r, open'[v])
      BY <1>3
    <3>2. ~SameKey(r, catalog) /\ \A v \in Seeders \ {t} : ~SameKey(r, open[v])
      BY DEF KeysSeparate
    <3> QED BY <1>1, <1>3, <3>2 DEF SameKey
  <2> QED BY <2>1, <2>2, <2>3 DEF KeysSeparate
<1>6. InsertedIsOpen'
  BY <1>1, <1>3 DEF InsertedIsOpen
<1>7. PastSizesCovered'
  <2>1. \A t \in Seeders : catalog \cup open[t] \subseteq catalog' \cup open'[t]
    BY <1>1, <1>3
  <2> QED BY <1>1, <1>3, <2>1 DEF PastSizesCovered, SameKey
<1>8. CommittedAtEnd'
  <2>1. next_row[s] = Sizes + 1
    BY <1>1, <1>2, SizesType
  <2> QED BY <1>1, <1>3, <2>1 DEF CommittedAtEnd
<1> QED BY <1>4, <1>5, <1>6, <1>7, <1>8

LEMMA AbortSeedStep ==
  ASSUME SeedIInv, NEW s \in Seeders, AbortSeed(s)
  PROVE  SeedIInv'
<1> USE DEF SeedIInv
<1>1. /\ catalog' = catalog /\ next_row' = next_row /\ inserted' = inserted
      /\ open' = [open EXCEPT ![s] = {}]
      /\ seed_pc' = [seed_pc EXCEPT ![s] = "failed"]
  BY DEF AbortSeed
<1>2. /\ open \in [Seeders -> SUBSET Listed]
      /\ seed_pc \in [Seeders -> {"running", "committed", "failed"}]
  BY DEF SeedTypeOK
<1>3. /\ open'[s] = {} /\ seed_pc'[s] = "failed"
      /\ \A t \in Seeders \ {s} : open'[t] = open[t] /\ seed_pc'[t] = seed_pc[t]
  BY <1>1, <1>2
<1>4. SeedTypeOK'
  BY <1>1, <1>2 DEF SeedTypeOK
<1>5. KeysSeparate'
  <2>1. OneToAKey(catalog)' /\ \A t \in Seeders : OneToAKey(open[t])'
    BY <1>1, <1>3 DEF KeysSeparate, OneToAKey
  <2>2. \A t \in Seeders : \A r \in open'[t] :
          /\ ~SameKey(r, catalog')
          /\ \A v \in Seeders \ {t} : ~SameKey(r, open'[v])
    BY <1>1, <1>3 DEF KeysSeparate, SameKey
  <2> QED BY <2>1, <2>2 DEF KeysSeparate
<1>6. InsertedIsOpen' /\ CommittedAtEnd'
  BY <1>1, <1>3 DEF InsertedIsOpen, CommittedAtEnd
<1>7. PastSizesCovered'
  BY <1>1, <1>3 DEF PastSizesCovered, SameKey
<1> QED BY <1>4, <1>5, <1>6, <1>7

LEMMA SeedStutterStep == SeedIInv /\ UNCHANGED seed_vars => SeedIInv'
BY DEF seed_vars, SeedIInv, SeedTypeOK, KeysSeparate, OneToAKey, SameKey, InsertedIsOpen,
       PastSizesCovered, CommittedAtEnd

LEMMA SeedRunStep ==
  ASSUME SeedIInv, NEW s \in Seeders, SeedStep(s) \/ AbortSeed(s)
  PROVE  SeedIInv'
BY InsertRowStep, RefuseSizeStep, CommitSeedStep, AbortSeedStep DEF SeedStep

LEMMA SeedInvariant == SeedSpec => []SeedIInv
<1>1. SeedIInv /\ [SeedNext]_seed_vars => SeedIInv'
  BY SeedRunStep, SeedStutterStep DEF SeedNext, SeedsEnded
<1> QED BY SeedInitIInv, <1>1, PTL DEF SeedSpec

--------------------------------------------------------------------------------
(***************************************************************************)
(* What the seed promises.                                                 *)
(***************************************************************************)
\* The type invariant of the seed: what it plants is listed, and passes the table's
\* checks, for any lists.
THEOREM SeedTypeCorrect == SeedSpec => []SeedTypeOK
<1>1. SeedIInv => SeedTypeOK
  BY DEF SeedIInv
<1> QED BY SeedInvariant, <1>1, PTL

\* A script that committed leaves a row for every size that has one.
LEMMA CommittedIsComplete == SeedIInv => SeededCompletely
<1> SUFFICES ASSUME SeedIInv, NEW s \in Seeders, seed_pc[s] = "committed"
             PROVE  /\ OneToAKey(catalog)
                    /\ \A row \in Listed :
                         \E r \in catalog : Key(r) = Key(row) /\ r \in {row} \cup OldRows
                    /\ catalog \subseteq Listed \cup OldRows
  BY DEF SeededCompletely
<1>1. OneToAKey(catalog) /\ catalog \subseteq Listed \cup OldRows
  BY DEF SeedIInv, SeedTypeOK, KeysSeparate
<1>2. ASSUME NEW row \in Listed
      PROVE  \E r \in catalog : Key(r) = Key(row) /\ r \in {row} \cup OldRows
  <2>1. PICK i \in 1..Sizes : ~Underivable(i) /\ row = RowAt(i)
    BY DEF Listed
  <2>2. next_row[s] - 1 = Sizes /\ catalog \cup open[s] = catalog
    BY SizesType DEF SeedIInv, CommittedAtEnd
  <2>3. SameKey(row, catalog)
    BY <2>1, <2>2 DEF SeedIInv, PastSizesCovered
  <2>4. PICK r \in catalog : Key(r) = Key(row)
    BY <2>3 DEF SameKey
  <2> QED BY <1>1, <2>4, ListedOneToAKey DEF OneToAKey
<1> QED BY <1>1, <1>2

\* "Running this twice leaves exactly the same rows", for any number of scripts at once,
\* any lists, and whatever an older list planted.
THEOREM SeedsCompletely == SeedSpec => []SeededCompletely
BY SeedInvariant, CommittedIsComplete, PTL

\* "Counts come from the database", for any number of scripts at once.
THEOREM SeedCountsHonestly == SeedSpec => SeedCountsWhatItAdds
<1>1. ASSUME SeedIInv, NEW s \in Seeders, CommitSeed(s)
      PROVE  Cardinality(catalog' \ catalog) = inserted[s]
  <2>1. open[s] \cap catalog = {}
    BY <1>1 DEF SeedIInv, KeysSeparate, SameKey
  <2>2. catalog' \ catalog = open[s]
    BY <1>1, <2>1 DEF CommitSeed
  <2> QED BY <1>1, <2>2 DEF CommitSeed, SeedIInv, InsertedIsOpen
<1>2. SeedIInv /\ [SeedNext]_seed_vars =>
        [\A s \in Seeders :
           CommitSeed(s) => Cardinality(catalog' \ catalog) = inserted[s]]_seed_vars
  BY <1>1
<1> QED BY SeedInvariant, <1>2, PTL DEF SeedSpec, SeedCountsWhatItAdds
================================================================================
