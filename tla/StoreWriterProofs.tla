--------------------------- MODULE StoreWriterProofs ---------------------------
(***************************************************************************)
(* Proofs about StoreWriter, for every set of writers, pools and batches.  *)
(*                                                                         *)
(*   TypeCorrect                 the type invariant                        *)
(*   CountsAreHonest             prices_written is what the commit adds    *)
(*   WriterImplementsContract    the database takes the contract's steps   *)
(*   StoreInvariant              locks, rows and counters agree            *)
(*   LatestPriceRecorded         a commit leaves a pool at its price       *)
(*   OnlyFinerPricesAreRepeated  a row that repeats a price was finer      *)
(***************************************************************************)
EXTENDS StoreWriter, FiniteSetTheorems, TLAPS

\* Where a writer is decides which observation it is storing.
Placed == TypeOK /\ InBatch
Storing == Active \ {"commit"}

--------------------------------------------------------------------------------
\* The observation a writer is storing is one of its batch.
LEMMA ObsType ==
  ASSUME Placed, NEW w \in Writers, pc[w] \in Storing
  PROVE  Obs(w) \in Observation
  BY DEF Placed, TypeOK, InBatch, Storing, Obs

\* The column keeps a price an integer number of its units.
LEMMA StoredPriceType ==
  ASSUME NEW p \in Int
  PROVE  StoredPrice(p) \in Int
  BY DEF StoredPrice

LEMMA NoTxType == NoTx \in Tx
  BY DEF NoTx, Tx, Modes

\* What the actions do to a transaction keeps it one.
LEMMA TxWithRows ==
  ASSUME NEW t \in Tx, NEW R \in SUBSET Row
  PROVE  [t EXCEPT !.rows = R] \in Tx
  BY DEF Tx

LEMMA TxWithMode ==
  ASSUME NEW t \in Tx, NEW m \in Modes
  PROVE  [t EXCEPT !.mode = m] \in Tx
  BY DEF Tx

LEMMA TxWithLock ==
  ASSUME NEW t \in Tx, NEW k \in Pools, NEW n \in Nat
  PROVE  [t EXCEPT !.locks = @ \cup {k}, !.seen[k] = n] \in Tx
  BY DEF Tx

LEMMA TxWithChunk ==
  ASSUME NEW t \in Tx, NEW n \in Nat
  PROVE  [t EXCEPT !.mode = "ShareRowExclusive", !.chunks = @ \cup {n}] \in Tx
  BY DEF Tx, Modes

LEMMA OutcomePlaced ==
  ASSUME Placed, NEW w \in Writers, pc[w] \in Storing,
         NEW bucket \in Buckets, NEW t \in Tx, Outcome(w, bucket, t)
  PROVE  Placed'
<1>1. /\ tx' \in [Writers -> Tx]
      /\ sp' \in [Writers -> Tx]
      /\ pc' \in [Writers -> {"idle"} \cup Active \cup Ended]
      /\ pos' \in [Writers -> Nat \ {0}]
  BY DEF Placed, TypeOK, Outcome, Active, NextStop
<1>2. /\ attempt' \in [Writers -> 1..MaxAttempts]
      /\ result' \in [Writers -> [Buckets -> Nat]]
  BY AttemptsAssumption DEF Placed, TypeOK, Outcome
<1>3. TypeOK'
  BY <1>1, <1>2 DEF Placed, TypeOK, Outcome
<1>4. /\ batch'[w] = batch[w] /\ pos'[w] = pos[w] + 1
      /\ pc'[w] = NextStop(batch[w], pos[w] + 1)
      /\ pos[w] \in 1..Len(batch[w]) /\ Len(batch[w]) \in Nat
      /\ batch[w] \in Batches \cup {<<>>}
  BY DEF Placed, TypeOK, InBatch, Outcome, Storing, Active
<1>5. \A v \in Writers \ {w} : batch'[v] = batch[v] /\ pos'[v] = pos[v] /\ pc'[v] = pc[v]
  BY DEF Placed, TypeOK, Outcome
<1>6. InBatch'
  <2>1. /\ batch'[w] \in Batches \cup {<<>>}
        /\ pc'[w] = "idle" => pos'[w] = 1
        /\ pc'[w] \in Active \ {"commit"} => pos'[w] \in 1..Len(batch'[w])
        /\ pc'[w] = "commit" => pos'[w] = Len(batch'[w]) + 1
    BY <1>4 DEF Active, NextStop
  <2>2. \A v \in Writers \ {w} :
          /\ batch'[v] \in Batches \cup {<<>>}
          /\ pc'[v] = "idle" => pos'[v] = 1
          /\ pc'[v] \in Active \ {"commit"} => pos'[v] \in 1..Len(batch'[v])
          /\ pc'[v] = "commit" => pos'[v] = Len(batch'[v]) + 1
    BY <1>5 DEF Placed, InBatch
  <2>3. QED
    BY <2>1, <2>2 DEF InBatch
<1>7. QED
  BY <1>3, <1>6 DEF Placed

LEMMA RaisePlaced ==
  ASSUME Placed, NEW w \in Writers, Raise(w)
  PROVE  Placed'
  BY NoTxType DEF Placed, TypeOK, InBatch, Raise, Active, Ended

--------------------------------------------------------------------------------
(***************************************************************************)
(* Type correctness.                                                       *)
(***************************************************************************)
LEMMA InitPlaced == Init => Placed
  BY NoTxType, AttemptsAssumption
  DEF Init, Placed, TypeOK, InBatch, Active, Ended, Buckets

LEMMA BeginPlaced ==
  ASSUME Placed, NEW w \in Writers, Begin(w)
  PROVE  Placed'
<1> PICK b \in Batches : /\ batch' = [batch EXCEPT ![w] = b]
                          /\ pc' = [pc EXCEPT ![w] = NextStop(b, 1)]
  BY DEF Begin
<1>1. b \in Seq(Observation) /\ pos[w] = 1
  BY BatchAssumption DEF Begin, Placed, InBatch
<1>2. TypeOK'
  BY <1>1 DEF Begin, Placed, TypeOK, NextStop, Active, Ended
<1>3. InBatch'
  BY <1>1 DEF Begin, Placed, TypeOK, InBatch, NextStop, Active
<1>4. QED
  BY <1>2, <1>3 DEF Placed

LEMMA LookupCatalogPlaced ==
  ASSUME Placed, NEW w \in Writers, LookupCatalog(w)
  PROVE  Placed'
<1>1. CASE Obs(w).pool \in Catalogued
  BY <1>1 DEF LookupCatalog, Placed, TypeOK, InBatch, Active, Ended
<1>2. CASE Obs(w).pool \notin Catalogued
  <2>1. Outcome(w, "unknown_instance_type", tx[w])
    BY <1>2 DEF LookupCatalog
  <2>2. pc[w] \in Storing /\ tx[w] \in Tx /\ "unknown_instance_type" \in Buckets
    BY DEF LookupCatalog, Storing, Active, Buckets, Placed, TypeOK
  <2>3. QED
    BY <2>1, <2>2, OutcomePlaced
<1>3. QED
  BY <1>1, <1>2

LEMMA LockPoolTablePlaced ==
  ASSUME Placed, NEW w \in Writers, LockPoolTable(w)
  PROVE  Placed'
<1>1. tx' \in [Writers -> Tx]
  <2> DEFINE m == IF tx[w].mode = "none" THEN "RowExclusive" ELSE tx[w].mode
  <2>1. m \in Modes /\ tx[w] \in Tx
    BY DEF Placed, TypeOK, Tx, Modes
  <2>2. [tx[w] EXCEPT !.mode = m] \in Tx
    BY <2>1, TxWithMode
  <2>3. tx' = [tx EXCEPT ![w] = [tx[w] EXCEPT !.mode = m]]
    BY DEF LockPoolTable
  <2>4. QED
    BY <2>2, <2>3 DEF Placed, TypeOK
<1>2. QED
  BY <1>1 DEF LockPoolTable, Placed, TypeOK, InBatch, Active, Ended

LEMMA UpsertPoolPlaced ==
  ASSUME Placed, NEW w \in Writers, UpsertPool(w)
  PROVE  Placed'
<1>1. Obs(w).pool \in Pools /\ Obs(w).at \in Nat
  BY ObsType DEF UpsertPool, Storing, Active, Observation
<1>2. Greatest(VisibleSeen(w, Obs(w).pool), Obs(w).at) \in Nat
  BY <1>1 DEF Greatest, VisibleSeen, Placed, TypeOK, Tx
<1>3. tx' \in [Writers -> Tx]
  <2> DEFINE k == Obs(w).pool
             n == Greatest(VisibleSeen(w, k), Obs(w).at)
             t == [tx[w] EXCEPT !.locks = @ \cup {k}, !.seen[k] = n]
  <2>1. t \in Tx
    BY <1>1, <1>2, TxWithLock DEF Placed, TypeOK
  <2>2. tx' = [tx EXCEPT ![w] = t]
    BY DEF UpsertPool
  <2>3. QED
    BY <2>1, <2>2 DEF Placed, TypeOK
<1>4. QED
  BY <1>3 DEF UpsertPool, Placed, TypeOK, InBatch, Active, Ended

LEMMA CompareNewestPlaced ==
  ASSUME Placed, NEW w \in Writers, CompareNewest(w)
  PROVE  Placed'
<1>1. CASE SamePrice(w)
  <2>1. Outcome(w, "unchanged", tx[w])
    BY <1>1 DEF CompareNewest
  <2>2. pc[w] \in Storing /\ tx[w] \in Tx /\ "unchanged" \in Buckets
    BY DEF CompareNewest, Storing, Active, Buckets, Placed, TypeOK
  <2>3. QED
    BY <2>1, <2>2, OutcomePlaced
<1>2. CASE ~SamePrice(w)
  BY <1>2 DEF CompareNewest, Placed, TypeOK, InBatch, Active, Ended
<1>3. QED
  BY <1>1, <1>2

LEMMA CreateChunkPlaced ==
  ASSUME Placed, NEW w \in Writers, CreateChunk(w)
  PROVE  Placed'
<1>1. Obs(w).at \in Nat
  BY ObsType DEF CreateChunk, NeedsChunk, Storing, Active, Observation
<1>2. ChunkOf(Obs(w).at) \in Nat
  BY <1>1, ChunkAssumption DEF ChunkOf
<1>3. tx' \in [Writers -> Tx]
  <2> DEFINE n == ChunkOf(Obs(w).at)
             t == [tx[w] EXCEPT !.mode = "ShareRowExclusive", !.chunks = @ \cup {n}]
  <2>1. t \in Tx
    BY <1>2, TxWithChunk DEF Placed, TypeOK
  <2>2. tx' = [tx EXCEPT ![w] = t]
    BY DEF CreateChunk
  <2>3. QED
    BY <2>1, <2>2 DEF Placed, TypeOK
<1>4. QED
  BY <1>3 DEF CreateChunk, Placed, TypeOK, InBatch, Active, Ended

LEMMA NewRowType ==
  ASSUME Placed, NEW w \in Writers, pc[w] \in Storing
  PROVE  NewRow(w) \in Row
<1>1. Obs(w) \in Observation
  BY ObsType
<1>2. QED
  BY <1>1, StoredPriceType DEF NewRow, Row, Contract!Row, Observation

LEMMA InsertPricePlaced ==
  ASSUME Placed, NEW w \in Writers, InsertPrice(w)
  PROVE  Placed'
<1>1. pc[w] \in Storing
  BY DEF InsertPrice, Storing, Active
<1>2. CASE Contract!FreshKey(NewRow(w), VisibleRows(w))
  <2>1. Outcome(w, "prices_written", [tx[w] EXCEPT !.rows = @ \cup {NewRow(w)}])
    BY <1>2 DEF InsertPrice
  <2>2. [tx[w] EXCEPT !.rows = @ \cup {NewRow(w)}] \in Tx
    <3>1. tx[w] \in Tx /\ tx[w].rows \cup {NewRow(w)} \in SUBSET Row
      BY <1>1, NewRowType DEF Placed, TypeOK, Tx
    <3>2. QED
      BY <3>1, TxWithRows
  <2>3. QED
    BY <1>1, <2>1, <2>2, OutcomePlaced DEF Buckets
<1>3. CASE ~Contract!FreshKey(NewRow(w), VisibleRows(w))
  <2>1. Outcome(w, "unchanged", tx[w])
    BY <1>3 DEF InsertPrice
  <2>2. QED
    BY <1>1, <2>1, OutcomePlaced DEF Buckets, Placed, TypeOK
<1>4. QED
  BY <1>2, <1>3

LEMMA DeadlockVictimPlaced ==
  ASSUME Placed, NEW w \in Writers, DeadlockVictim(w)
  PROVE  Placed'
<1>1. CASE attempt[w] < MaxAttempts
  <2>1. pc[w] \in {"upsert", "row", "insert"}
    <3>1. Blockers(w) # {}
      BY DEF DeadlockVictim, Deadlocked
    <3>2. QED
      BY <3>1 DEF Blockers, NeedsChunk
  <2>2. pos[w] \in 1..Len(batch[w])
    BY <2>1 DEF Placed, InBatch, Active
  <2>3. TypeOK'
    <3>1. attempt[w] + 1 \in 1..MaxAttempts
      BY <1>1, AttemptsAssumption DEF Placed, TypeOK
    <3>2. attempt' \in [Writers -> 1..MaxAttempts] /\ tx' \in [Writers -> Tx]
      BY <1>1, <3>1 DEF DeadlockVictim, Placed, TypeOK
    <3>3. QED
      BY <1>1, <3>2 DEF DeadlockVictim, Placed, TypeOK, Active, Ended
  <2>4. InBatch'
    BY <1>1, <2>2 DEF DeadlockVictim, Placed, TypeOK, InBatch, Active
  <2>5. QED
    BY <2>3, <2>4 DEF Placed
<1>2. CASE ~(attempt[w] < MaxAttempts)
  BY <1>2, RaisePlaced DEF DeadlockVictim
<1>3. QED
  BY <1>1, <1>2

LEMMA CommitPlaced ==
  ASSUME Placed, NEW w \in Writers, Commit(w)
  PROVE  Placed'
<1>1. pool' \in [Pools -> Nat]
  BY DEF Commit, VisibleSeen, Placed, TypeOK, Tx
<1>2. price_metric' \subseteq Row /\ chunks' \subseteq Nat
  BY DEF Commit, VisibleRows, Placed, TypeOK, Tx
<1>3. QED
  BY <1>1, <1>2, NoTxType DEF Commit, Placed, TypeOK, InBatch, Active, Ended

LEMMA StutterPlaced == Placed /\ UNCHANGED vars => Placed'
  BY DEF Placed, TypeOK, InBatch, vars

LEMMA NextPlaced == Placed /\ [Next]_vars => Placed'
<1> SUFFICES ASSUME Placed, [Next]_vars PROVE Placed'
  OBVIOUS
<1>1. CASE UNCHANGED vars
  BY <1>1, StutterPlaced
<1>2. CASE AllEnded
  BY <1>2, StutterPlaced DEF AllEnded
<1>3. ASSUME NEW w \in Writers, Statement(w) \/ DeadlockVictim(w) \/ Abort(w)
      PROVE  Placed'
  <2>1. CASE Begin(w)
    BY <2>1, BeginPlaced
  <2>2. CASE LookupCatalog(w)
    BY <2>2, LookupCatalogPlaced
  <2>3. CASE LockPoolTable(w)
    BY <2>3, LockPoolTablePlaced
  <2>4. CASE UpsertPool(w)
    BY <2>4, UpsertPoolPlaced
  <2>5. CASE CompareNewest(w)
    BY <2>5, CompareNewestPlaced
  <2>6. CASE CreateChunk(w)
    BY <2>6, CreateChunkPlaced
  <2>7. CASE InsertPrice(w)
    BY <2>7, InsertPricePlaced
  <2>8. CASE RefusePrice(w) \/ Abort(w)
    BY <2>8, RaisePlaced DEF RefusePrice, Abort
  <2>9. CASE DeadlockVictim(w)
    BY <2>9, DeadlockVictimPlaced
  <2>10. CASE Commit(w)
    BY <2>10, CommitPlaced
  <2>11. QED
    BY <1>3, <2>1, <2>2, <2>3, <2>4, <2>5, <2>6, <2>7, <2>8, <2>9, <2>10 DEF Statement
<1>4. QED
  BY <1>1, <1>2, <1>3 DEF Next

\* Every variable keeps its type, and every writer that stores an observation is
\* at one of its batch (the loop of store_prices).
THEOREM TypeCorrect == Spec => [](TypeOK /\ InBatch)
<1>1. QED
  BY InitPlaced, NextPlaced, PTL DEF Spec, Placed

--------------------------------------------------------------------------------
(***************************************************************************)
(* Locks, and the rows written under them.  An action of w other than      *)
(* Begin and Commit leaves what is committed alone and changes only the    *)
(* transaction of w, so it is enough to look at that one: TxStep.          *)
(***************************************************************************)
Core ==
  /\ Placed
  /\ SavepointBehind
  /\ LocksExclusive
  /\ GoodTxs
  /\ HoldsPool
  /\ RowsAreSeen
  /\ FreshWriters

\* Locks, savepoints and rows: the part of Core about transactions.
TxPart == SavepointBehind /\ LocksExclusive /\ GoodTxs

LEMMA TxStep ==
  ASSUME Core, NEW w \in Writers, NEW t, NEW u,
         tx' = [tx EXCEPT ![w] = t], sp' = [sp EXCEPT ![w] = u],
         UNCHANGED <<pool, price_metric, batch>>,
         GoodTx(w, t), GoodTx(w, u),
         u.locks \subseteq t.locks, u.rows = t.rows,
         \A v \in Writers \ {w} : t.locks \cap tx[v].locks = {}
  PROVE  TxPart'
<1>1. tx'[w] = t /\ sp'[w] = u
  BY DEF Core, Placed, TypeOK
<1>2. \A v \in Writers \ {w} : tx'[v] = tx[v] /\ sp'[v] = sp[v]
  BY DEF Core, Placed, TypeOK
<1>3. SavepointBehind'
  BY <1>1, <1>2 DEF Core, SavepointBehind
<1>4. LocksExclusive'
  BY <1>1, <1>2 DEF Core, LocksExclusive
<1>5. GoodTxs'
  <2>1. ASSUME NEW v \in Writers
        PROVE  GoodTx(v, tx'[v]) /\ GoodTx(v, sp'[v])
    BY <1>1, <1>2 DEF Core, GoodTxs
  <2>2. ASSUME NEW v \in Writers
        PROVE  GoodTx(v, tx[v])' /\ GoodTx(v, sp[v])'
    BY <2>1 DEF GoodTx, Contract!FreshKey
  <2>3. QED
    BY <2>2 DEF GoodTxs
<1>6. QED
  BY <1>3, <1>4, <1>5 DEF TxPart

\* An exception frees everything.
LEMMA NoTxGood ==
  ASSUME NEW w \in Writers
  PROVE  GoodTx(w, NoTx)
  BY FS_EmptySet DEF GoodTx, NoTx

LEMMA RaiseCore ==
  ASSUME Core, NEW w \in Writers, Raise(w)
  PROVE  Core'
<1>1. Placed'
  BY RaisePlaced DEF Core
<1>2. TxPart'
  <2>1. NoTx.locks = {} /\ NoTx.rows = {}
    BY DEF NoTx
  <2>2. QED
    BY <2>1, NoTxGood, TxStep DEF Raise
<1>3. HoldsPool' /\ RowsAreSeen' /\ FreshWriters'
  BY DEF Core, Placed, TypeOK, Raise, HoldsPool, RowsAreSeen, FreshWriters, Obs
<1>4. QED
  BY <1>1, <1>2, <1>3 DEF Core, TxPart

\* A writer past its upsert has work, so it is not idle.
LEMMA OutcomeCore ==
  ASSUME Core, Placed', NEW w \in Writers, NEW bucket, NEW t,
         Outcome(w, bucket, t), GoodTx(w, t),
         \A v \in Writers \ {w} : t.locks \cap tx[v].locks = {}
  PROVE  Core'
<1>1. TxPart'
  BY TxStep DEF Outcome
<1>2. HoldsPool'
  BY DEF Core, Placed, TypeOK, Outcome, HoldsPool, Obs, NextStop
<1>3. RowsAreSeen' /\ FreshWriters'
  BY DEF Core, Placed, TypeOK, Outcome, RowsAreSeen, FreshWriters, NextStop
<1>4. QED
  BY <1>1, <1>2, <1>3 DEF Core, TxPart

LEMMA SameTxOutcome ==
  ASSUME Core, NEW w \in Writers, pc[w] \in Storing, NEW bucket \in Buckets,
         Outcome(w, bucket, tx[w])
  PROVE  Core'
<1>1. Placed'
  BY OutcomePlaced DEF Core, Placed, TypeOK
<1>2. GoodTx(w, tx[w]) /\ \A v \in Writers \ {w} : tx[w].locks \cap tx[v].locks = {}
  BY DEF Core, GoodTxs, LocksExclusive
<1>3. QED
  BY <1>1, <1>2, OutcomeCore

LEMMA InitCore == Init => Core
<1> SUFFICES ASSUME Init PROVE Core
  OBVIOUS
<1>1. Placed
  BY InitPlaced
<1>2. \A w \in Writers : tx[w] = NoTx /\ sp[w] = NoTx /\ pc[w] = "idle"
  BY DEF Init
<1>3. NoTx.locks = {}
  BY DEF NoTx
<1>4. SavepointBehind /\ LocksExclusive /\ GoodTxs
  BY <1>2, <1>3, NoTxGood DEF SavepointBehind, LocksExclusive, GoodTxs
<1>5. HoldsPool /\ RowsAreSeen /\ FreshWriters
  BY <1>2 DEF Init, HoldsPool, RowsAreSeen, FreshWriters
<1>6. QED
  BY <1>1, <1>4, <1>5 DEF Core

LEMMA BeginCore ==
  ASSUME Core, NEW w \in Writers, Begin(w)
  PROVE  Core'
<1>1. Placed'
  BY BeginPlaced DEF Core
<1>2. SavepointBehind' /\ LocksExclusive' /\ RowsAreSeen'
  BY DEF Core, Begin, SavepointBehind, LocksExclusive, RowsAreSeen
<1>3. HoldsPool' /\ FreshWriters'
  BY DEF Core, Placed, TypeOK, Begin, HoldsPool, FreshWriters, NextStop, Obs
<1>4. GoodTxs'
  <2>1. tx[w].locks = {} /\ tx[w].rows = {} /\ sp[w].locks = {} /\ sp[w].rows = {}
    BY DEF Core, Begin, FreshWriters, SavepointBehind, NoTx
  <2>2. \A v \in Writers \ {w} : batch'[v] = batch[v]
    BY DEF Begin, Core, Placed, TypeOK
  <2>3. GoodTx(w, tx[w])' /\ GoodTx(w, sp[w])'
    BY <2>1, FS_EmptySet DEF GoodTx, Begin
  <2>4. ASSUME NEW v \in Writers \ {w}
        PROVE  GoodTx(v, tx[v])' /\ GoodTx(v, sp[v])'
    BY <2>2 DEF Core, GoodTxs, GoodTx, Begin, Contract!FreshKey
  <2>5. QED
    BY <2>3, <2>4 DEF GoodTxs
<1>5. QED
  BY <1>1, <1>2, <1>3, <1>4 DEF Core

LEMMA LookupCatalogCore ==
  ASSUME Core, NEW w \in Writers, LookupCatalog(w)
  PROVE  Core'
<1>1. CASE Obs(w).pool \in Catalogued
  <2>1. Placed'
    BY LookupCatalogPlaced DEF Core
  <2>2. UNCHANGED <<pool, price_metric, chunks, tx, sp, batch, pos, attempt, result>>
        /\ pc' = [pc EXCEPT ![w] = "upsert"]
    BY <1>1 DEF LookupCatalog
  <2>3. SavepointBehind' /\ LocksExclusive' /\ RowsAreSeen'
    BY <2>2 DEF Core, SavepointBehind, LocksExclusive, RowsAreSeen
  <2>4. GoodTxs'
    BY <2>2 DEF Core, GoodTxs, GoodTx, Contract!FreshKey
  <2>5. HoldsPool' /\ FreshWriters'
    BY <2>2 DEF Core, Placed, TypeOK, HoldsPool, FreshWriters, Obs
  <2>6. QED
    BY <2>1, <2>3, <2>4, <2>5 DEF Core
<1>2. CASE Obs(w).pool \notin Catalogued
  BY <1>2, SameTxOutcome DEF LookupCatalog, Storing, Active, Buckets
<1>3. QED
  BY <1>1, <1>2

\* Neither the table lock nor a new chunk touches what GoodTx is about.
LEMMA GoodTxFields ==
  ASSUME NEW w, NEW t, NEW u, GoodTx(w, t),
         u.locks = t.locks, u.seen = t.seen, u.rows = t.rows
  PROVE  GoodTx(w, u)
  BY DEF GoodTx

LEMMA LockPoolTableCore ==
  ASSUME Core, NEW w \in Writers, LockPoolTable(w)
  PROVE  Core'
<1> DEFINE t == [tx[w] EXCEPT !.mode = IF @ = "none" THEN "RowExclusive" ELSE @]
<1>1. Placed'
  BY LockPoolTablePlaced DEF Core
<1>2. tx' = [tx EXCEPT ![w] = t] /\ sp' = [sp EXCEPT ![w] = sp[w]]
  BY DEF LockPoolTable, Core, Placed, TypeOK
<1>3. t.locks = tx[w].locks /\ t.seen = tx[w].seen /\ t.rows = tx[w].rows
  BY DEF Core, Placed, TypeOK, Tx
<1>4. TxPart'
  <2>1. GoodTx(w, t) /\ GoodTx(w, sp[w])
    BY <1>3, GoodTxFields DEF Core, GoodTxs
  <2>2. sp[w].locks \subseteq t.locks /\ sp[w].rows = t.rows
    BY <1>3 DEF Core, SavepointBehind
  <2>3. \A v \in Writers \ {w} : t.locks \cap tx[v].locks = {}
    BY <1>3 DEF Core, LocksExclusive
  <2>4. QED
    BY <1>2, <2>1, <2>2, <2>3, TxStep, ZenonT(60) DEF LockPoolTable
<1>5. HoldsPool' /\ RowsAreSeen' /\ FreshWriters'
  BY DEF Core, Placed, TypeOK, LockPoolTable, HoldsPool, RowsAreSeen, FreshWriters, Obs
<1>6. QED
  BY <1>1, <1>4, <1>5 DEF Core, TxPart

LEMMA CreateChunkCore ==
  ASSUME Core, NEW w \in Writers, CreateChunk(w)
  PROVE  Core'
<1> DEFINE t == [tx[w] EXCEPT !.mode = "ShareRowExclusive",
                              !.chunks = @ \cup {ChunkOf(Obs(w).at)}]
<1>1. Placed'
  BY CreateChunkPlaced DEF Core
<1>2. tx' = [tx EXCEPT ![w] = t] /\ sp' = [sp EXCEPT ![w] = sp[w]]
  BY DEF CreateChunk, Core, Placed, TypeOK
<1>3. t.locks = tx[w].locks /\ t.seen = tx[w].seen /\ t.rows = tx[w].rows
  BY DEF Core, Placed, TypeOK, Tx
<1>4. TxPart'
  <2>1. GoodTx(w, t) /\ GoodTx(w, sp[w])
    BY <1>3, GoodTxFields DEF Core, GoodTxs
  <2>2. sp[w].locks \subseteq t.locks /\ sp[w].rows = t.rows
    BY <1>3 DEF Core, SavepointBehind
  <2>3. \A v \in Writers \ {w} : t.locks \cap tx[v].locks = {}
    BY <1>3 DEF Core, LocksExclusive
  <2>4. QED
    BY <1>2, <2>1, <2>2, <2>3, TxStep DEF CreateChunk
<1>5. HoldsPool'
  BY <1>2, <1>3 DEF Core, Placed, TypeOK, CreateChunk, HoldsPool, Obs
<1>6. RowsAreSeen' /\ FreshWriters'
  BY DEF Core, Placed, TypeOK, CreateChunk, NeedsChunk, RowsAreSeen, FreshWriters
<1>7. QED
  BY <1>1, <1>4, <1>5, <1>6 DEF Core, TxPart

LEMMA UpsertPoolCore ==
  ASSUME Core, NEW w \in Writers, UpsertPool(w)
  PROVE  Core'
<1> DEFINE k == Obs(w).pool
           n == Greatest(VisibleSeen(w, k), Obs(w).at)
           t == [tx[w] EXCEPT !.locks = @ \cup {k}, !.seen[k] = n]
<1>1. Placed'
  BY UpsertPoolPlaced DEF Core
<1>2. tx' = [tx EXCEPT ![w] = t] /\ sp' = [sp EXCEPT ![w] = sp[w]]
  <2>1. tx' = [tx EXCEPT ![w] = t]
    BY DEF UpsertPool
  <2>2. sp' = [sp EXCEPT ![w] = sp[w]]
    BY DEF UpsertPool, Core, Placed, TypeOK
  <2>3. QED
    BY <2>1, <2>2
<1>3. k \in Pools /\ Obs(w).at \in Nat
  BY ObsType DEF UpsertPool, Core, Storing, Active, Observation
<1>4. /\ t.locks = tx[w].locks \cup {k}
      /\ t.rows = tx[w].rows
      /\ t.seen = [tx[w].seen EXCEPT ![k] = n]
      /\ t.seen[k] = n
      /\ \A l \in Pools \ {k} : t.seen[l] = tx[w].seen[l]
  BY <1>3 DEF Core, Placed, TypeOK, Tx
<1>5. n \in Nat /\ pool[k] <= n /\ Obs(w).at <= n
  BY <1>3 DEF Greatest, VisibleSeen, Core, Placed, TypeOK, Tx, GoodTxs, GoodTx
<1>6. GoodTx(w, t)
  <2>1. GoodTx(w, tx[w])
    BY DEF Core, GoodTxs
  <2>2. \A l \in t.locks : pool[l] <= t.seen[l]
    BY <1>3, <1>4, <1>5, <2>1 DEF GoodTx, Core, Placed, TypeOK, Tx
  <2>3. ASSUME NEW r \in t.rows
        PROVE  r.pool \in t.locks /\ r.at <= t.seen[r.pool]
    <3>1. r.pool \in tx[w].locks /\ r.at <= tx[w].seen[r.pool]
      BY <1>4, <2>1 DEF GoodTx
    <3>2. CASE r.pool = k
      <4>1. tx[w].seen[k] <= n /\ tx[w].seen[k] \in Nat
        BY <1>3, <3>1, <3>2 DEF Greatest, VisibleSeen, Core, Placed, TypeOK, Tx
      <4>2. r.at \in Nat
        BY <1>4 DEF Core, Placed, TypeOK, Tx, Row, Contract!Row
      <4>3. QED
        BY <1>4, <1>5, <3>1, <3>2, <4>1, <4>2
    <3>3. CASE r.pool # k
      BY <1>4, <3>1, <3>3 DEF Core, Placed, TypeOK, Tx
    <3>4. QED
      BY <3>2, <3>3
  <2>4. QED
    BY <1>4, <2>1, <2>2, <2>3 DEF GoodTx
<1>7. TxPart'
  <2>1. GoodTx(w, sp[w])
    BY DEF Core, GoodTxs
  <2>2. sp[w].locks \subseteq t.locks /\ sp[w].rows = t.rows
    BY <1>4 DEF Core, SavepointBehind
  <2>3. \A v \in Writers \ {w} : t.locks \cap tx[v].locks = {}
    BY <1>4 DEF Core, LocksExclusive, UpsertPool, Blockers
  <2>4. QED
    BY <1>2, <1>6, <2>1, <2>2, <2>3, TxStep DEF UpsertPool
<1>8. HoldsPool'
  <2>1. batch' = batch /\ pos' = pos /\ pc'[w] = "newest" /\ tx'[w] = t
    BY <1>2 DEF Core, Placed, TypeOK, UpsertPool
  <2>2. \A v \in Writers \ {w} : pc'[v] = pc[v] /\ tx'[v] = tx[v]
    BY <1>2 DEF Core, Placed, TypeOK, UpsertPool
  <2>3. k \in t.locks /\ Obs(w).at <= t.seen[k]
    BY <1>4, <1>5 DEF Core, Placed, TypeOK, Tx
  <2>4. QED
    BY <2>1, <2>2, <2>3 DEF Core, HoldsPool, Obs
<1>9. RowsAreSeen' /\ FreshWriters'
  BY DEF Core, Placed, TypeOK, UpsertPool, RowsAreSeen, FreshWriters
<1>10. QED
  BY <1>1, <1>7, <1>8, <1>9 DEF Core, TxPart

LEMMA CompareNewestCore ==
  ASSUME Core, NEW w \in Writers, CompareNewest(w)
  PROVE  Core'
<1>1. CASE SamePrice(w)
  BY <1>1, SameTxOutcome DEF CompareNewest, Storing, Active, Buckets
<1>2. CASE ~SamePrice(w)
  <2>1. Placed'
    BY CompareNewestPlaced DEF Core
  <2>2. UNCHANGED <<pool, price_metric, chunks, tx, sp, batch, pos, attempt, result>>
        /\ pc[w] = "newest" /\ pc' = [pc EXCEPT ![w] = "insert"]
    BY <1>2 DEF CompareNewest
  <2>3. SavepointBehind' /\ LocksExclusive' /\ RowsAreSeen'
    BY <2>2 DEF Core, SavepointBehind, LocksExclusive, RowsAreSeen
  <2>4. GoodTxs'
    BY <2>2 DEF Core, GoodTxs, GoodTx, Contract!FreshKey
  <2>5. HoldsPool' /\ FreshWriters'
    BY <2>2 DEF Core, Placed, TypeOK, HoldsPool, FreshWriters, Obs
  <2>6. QED
    BY <2>1, <2>3, <2>4, <2>5 DEF Core
<1>3. QED
  BY <1>1, <1>2

\* The rows a transaction already has carry the stamp of the row it may add, so
\* a fresh key means that none of them is of the same pool.
LEMMA FreshPool ==
  ASSUME Core, NEW w \in Writers, pc[w] \in Storing,
         Contract!FreshKey(NewRow(w), VisibleRows(w)),
         NEW s \in tx[w].rows
  PROVE  s.pool # NewRow(w).pool
<1>1. pos[w] \in 1..Len(batch[w]) /\ GoodTx(w, tx[w])
  BY DEF Core, Placed, InBatch, Storing, GoodTxs
<1>2. s.at = NewRow(w).at
  BY <1>1 DEF GoodTx, NewRow, Obs
<1>3. QED
  BY <1>2 DEF Contract!FreshKey, VisibleRows

LEMMA NewRowGood ==
  ASSUME Core, NEW w \in Writers, pc[w] = "insert",
         Contract!FreshKey(NewRow(w), VisibleRows(w))
  PROVE  GoodTx(w, [tx[w] EXCEPT !.rows = @ \cup {NewRow(w)}])
<1> DEFINE r == NewRow(w)
           t == [tx[w] EXCEPT !.rows = @ \cup {r}]
<1>1. t.locks = tx[w].locks /\ t.seen = tx[w].seen /\ t.rows = tx[w].rows \cup {r}
  BY DEF Core, Placed, TypeOK, Tx
<1>2. GoodTx(w, tx[w]) /\ pc[w] \in Storing
  BY DEF Core, GoodTxs, Storing, Active
<1>3. r.pool = Obs(w).pool /\ r.at = Obs(w).at
  BY DEF NewRow
<1>4. r.pool \in t.locks /\ r.at <= t.seen[r.pool]
  BY <1>1, <1>3 DEF Core, HoldsPool
<1>5. Contract!FreshKey(r, price_metric)
  BY DEF Contract!FreshKey, VisibleRows
<1>6. \A i \in 1..Len(batch[w]) : batch[w][i].at = r.at
  <2>1. batch[w] \in Batches /\ pos[w] \in 1..Len(batch[w])
    BY <1>2 DEF Core, Placed, InBatch, Storing
  <2>2. QED
    BY <1>3, <2>1, BatchAssumption DEF Obs
<1>7. \A s \in tx[w].rows : s.pool # r.pool
  BY <1>2, FreshPool
<1>8. IsFiniteSet(t.rows)
  BY <1>1, <1>2, FS_AddElement DEF GoodTx
<1>9. QED
  BY <1>1, <1>2, <1>4, <1>5, <1>6, <1>7, <1>8 DEF GoodTx

LEMMA InsertPriceCore ==
  ASSUME Core, NEW w \in Writers, InsertPrice(w)
  PROVE  Core'
<1>1. pc[w] = "insert" /\ pc[w] \in Storing
  BY DEF InsertPrice, Storing, Active
<1>2. CASE Contract!FreshKey(NewRow(w), VisibleRows(w))
  <2> DEFINE t == [tx[w] EXCEPT !.rows = @ \cup {NewRow(w)}]
  <2>1. Outcome(w, "prices_written", t)
    BY <1>2 DEF InsertPrice
  <2>2. GoodTx(w, t)
    BY <1>1, <1>2, NewRowGood
  <2>3. t.locks = tx[w].locks
    BY DEF Core, Placed, TypeOK, Tx
  <2>4. \A v \in Writers \ {w} : t.locks \cap tx[v].locks = {}
    BY <2>3 DEF Core, LocksExclusive
  <2>5. Placed'
    BY InsertPricePlaced DEF Core
  <2>6. QED
    BY <2>1, <2>2, <2>4, <2>5, OutcomeCore
<1>3. CASE ~Contract!FreshKey(NewRow(w), VisibleRows(w))
  BY <1>1, <1>3, SameTxOutcome DEF InsertPrice, Buckets
<1>4. QED
  BY <1>2, <1>3

LEMMA DeadlockVictimCore ==
  ASSUME Core, NEW w \in Writers, DeadlockVictim(w)
  PROVE  Core'
<1>1. CASE attempt[w] < MaxAttempts
  <2>1. Placed'
    BY DeadlockVictimPlaced DEF Core
  <2>2. /\ tx' = [tx EXCEPT ![w] = sp[w]]
        /\ pc' = [pc EXCEPT ![w] = "lookup"]
        /\ UNCHANGED <<pool, price_metric, chunks, sp, batch, pos, result>>
    BY <1>1 DEF DeadlockVictim
  <2>3. sp' = [sp EXCEPT ![w] = sp[w]]
    BY <2>2 DEF Core, Placed, TypeOK
  <2>4. GoodTx(w, sp[w])
    BY DEF Core, GoodTxs
  <2>5. \A v \in Writers \ {w} : sp[w].locks \cap tx[v].locks = {}
    BY DEF Core, SavepointBehind, LocksExclusive
  <2>6. TxPart'
    BY <2>2, <2>3, <2>4, <2>5, TxStep
  <2>7. HoldsPool' /\ RowsAreSeen' /\ FreshWriters'
    BY <2>2 DEF Core, Placed, TypeOK, HoldsPool, RowsAreSeen, FreshWriters, Obs
  <2>8. QED
    BY <2>1, <2>6, <2>7 DEF Core, TxPart
<1>2. CASE ~(attempt[w] < MaxAttempts)
  BY <1>2, RaiseCore DEF DeadlockVictim
<1>3. QED
  BY <1>1, <1>2

\* A commit publishes rows and stamps of pools nobody else has locked.
LEMMA CommitCore ==
  ASSUME Core, NEW w \in Writers, Commit(w)
  PROVE  Core'
<1>1. Placed'
  BY CommitPlaced DEF Core
<1>2. /\ tx' = [tx EXCEPT ![w] = NoTx]
      /\ sp' = [sp EXCEPT ![w] = NoTx]
      /\ pc' = [pc EXCEPT ![w] = "committed"]
      /\ pool' = [k \in Pools |-> VisibleSeen(w, k)]
      /\ price_metric' = price_metric \cup tx[w].rows
      /\ UNCHANGED <<batch, pos, result>>
  BY DEF Commit, VisibleRows
<1>3. NoTx.locks = {} /\ NoTx.rows = {}
  BY DEF NoTx
<1>4. tx'[w] = NoTx /\ sp'[w] = NoTx
  BY <1>2 DEF Core, Placed, TypeOK
<1>5. \A v \in Writers \ {w} : tx'[v] = tx[v] /\ sp'[v] = sp[v]
  BY <1>2 DEF Core, Placed, TypeOK
<1>6. SavepointBehind' /\ LocksExclusive'
  BY <1>3, <1>4, <1>5 DEF Core, SavepointBehind, LocksExclusive
<1>7. GoodTxs'
  <2>1. GoodTx(w, tx[w])' /\ GoodTx(w, sp[w])'
    BY <1>3, <1>4, FS_EmptySet DEF GoodTx
  <2>2. ASSUME NEW v \in Writers \ {w}, NEW t,
               GoodTx(v, t), t.locks \subseteq tx[v].locks
        PROVE  /\ \A k \in t.locks : pool'[k] <= t.seen[k]
               /\ IsFiniteSet(t.rows)
               /\ \A r \in t.rows :
                    /\ r.pool \in t.locks
                    /\ r.at <= t.seen[r.pool]
                    /\ Contract!FreshKey(r, price_metric')
                    /\ \A i \in 1..Len(batch'[v]) : batch'[v][i].at = r.at
                    /\ \A s \in t.rows : s.pool = r.pool => s = r
    <3>1. tx[v].locks \cap tx[w].locks = {} /\ tx[v].locks \subseteq Pools
      BY DEF Core, LocksExclusive, Placed, TypeOK, Tx
    <3>2. \A k \in t.locks : pool'[k] = pool[k]
      BY <1>2, <2>2, <3>1 DEF VisibleSeen
    <3>3. \A s \in tx[w].rows : s.pool \in tx[w].locks
      BY DEF Core, GoodTxs, GoodTx
    <3>4. ASSUME NEW r \in t.rows
          PROVE  Contract!FreshKey(r, price_metric')
      BY <1>2, <2>2, <3>1, <3>3 DEF GoodTx, Contract!FreshKey
    <3>5. QED
      BY <1>2, <2>2, <3>2, <3>4 DEF GoodTx
  <2>3. ASSUME NEW v \in Writers \ {w}
        PROVE  GoodTx(v, tx[v])' /\ GoodTx(v, sp[v])'
    <3>1. GoodTx(v, tx[v]) /\ GoodTx(v, sp[v]) /\ sp[v].locks \subseteq tx[v].locks
      BY DEF Core, GoodTxs, SavepointBehind
    <3>2. tx'[v] = tx[v] /\ sp'[v] = sp[v]
      BY <1>5
    <3>3. GoodTx(v, tx[v])'
      BY <2>2, <3>1, <3>2 DEF GoodTx
    <3>4. GoodTx(v, sp[v])'
      BY <2>2, <3>1, <3>2 DEF GoodTx
    <3>5. QED
      BY <3>3, <3>4
  <2>4. QED
    BY <2>1, <2>3 DEF GoodTxs
<1>8. RowsAreSeen'
  <2>1. GoodTx(w, tx[w])
    BY DEF Core, GoodTxs
  <2>2. ASSUME NEW r \in price_metric
        PROVE  r.at <= pool'[r.pool]
    <3>1. r.pool \in Pools /\ r.at \in Nat /\ r.at <= pool[r.pool]
      BY DEF Core, Placed, TypeOK, Row, Contract!Row, RowsAreSeen
    <3>2. pool[r.pool] <= VisibleSeen(w, r.pool)
      BY <2>1, <3>1 DEF GoodTx, VisibleSeen, Core, Placed, TypeOK
    <3>3. pool[r.pool] \in Nat /\ VisibleSeen(w, r.pool) \in Nat
      BY <3>1 DEF VisibleSeen, Core, Placed, TypeOK, Tx
    <3>4. QED
      BY <1>2, <3>1, <3>2, <3>3
  <2>3. ASSUME NEW r \in tx[w].rows
        PROVE  r.at <= pool'[r.pool]
    BY <1>2, <2>1 DEF GoodTx, VisibleSeen, Core, Placed, TypeOK, Tx
  <2>4. QED
    BY <1>2, <2>2, <2>3 DEF RowsAreSeen
<1>9. HoldsPool' /\ FreshWriters'
  BY <1>2 DEF Core, Placed, TypeOK, HoldsPool, FreshWriters, Obs
<1>10. QED
  BY <1>1, <1>6, <1>7, <1>8, <1>9 DEF Core

LEMMA StutterCore == Core /\ UNCHANGED vars => Core'
  BY StutterPlaced
  DEF Core, SavepointBehind, LocksExclusive, GoodTxs, GoodTx, Contract!FreshKey,
      HoldsPool, RowsAreSeen, FreshWriters, Obs, vars

LEMMA NextCore == Core /\ [Next]_vars => Core'
<1> SUFFICES ASSUME Core, [Next]_vars PROVE Core'
  OBVIOUS
<1>1. CASE UNCHANGED vars
  BY <1>1, StutterCore
<1>2. CASE AllEnded
  BY <1>2, StutterCore DEF AllEnded
<1>3. ASSUME NEW w \in Writers, Statement(w) \/ DeadlockVictim(w) \/ Abort(w)
      PROVE  Core'
  <2>1. CASE Begin(w)
    BY <2>1, BeginCore
  <2>2. CASE LookupCatalog(w)
    BY <2>2, LookupCatalogCore
  <2>3. CASE LockPoolTable(w)
    BY <2>3, LockPoolTableCore
  <2>4. CASE UpsertPool(w)
    BY <2>4, UpsertPoolCore
  <2>5. CASE CompareNewest(w)
    BY <2>5, CompareNewestCore
  <2>6. CASE CreateChunk(w)
    BY <2>6, CreateChunkCore
  <2>7. CASE InsertPrice(w)
    BY <2>7, InsertPriceCore
  <2>8. CASE RefusePrice(w) \/ Abort(w)
    BY <2>8, RaiseCore DEF RefusePrice, Abort
  <2>9. CASE DeadlockVictim(w)
    BY <2>9, DeadlockVictimCore
  <2>10. CASE Commit(w)
    BY <2>10, CommitCore
  <2>11. QED
    BY <1>3, <2>1, <2>2, <2>3, <2>4, <2>5, <2>6, <2>7, <2>8, <2>9, <2>10 DEF Statement
<1>4. QED
  BY <1>1, <1>2, <1>3 DEF Next

--------------------------------------------------------------------------------
(***************************************************************************)
(* What a writer compared is still true when it inserts.                   *)
(***************************************************************************)
LEMMA SamePriceFrame ==
  ASSUME NEW w \in Writers, Obs(w)' = Obs(w),
         \A r : r.pool = Obs(w).pool => (r \in VisibleRows(w)' <=> r \in VisibleRows(w))
  PROVE  SamePrice(w)' => SamePrice(w)
<1> SUFFICES ASSUME NEW r \in VisibleRows(w)',
                    r.pool = Obs(w).pool, r.price = Obs(w).price,
                    Contract!IsNewest(r, VisibleRows(w)')
             PROVE  SamePrice(w)
  BY DEF SamePrice
<1>1. Contract!IsNewest(r, VisibleRows(w))
  BY DEF Contract!IsNewest
<1>2. QED
  BY <1>1 DEF SamePrice

\* While a writer holds a pool, no commit of another adds a row to it.
LEMMA CommitKeepsVisible ==
  ASSUME Core, NEW v \in Writers, Commit(v), NEW w \in Writers \ {v},
         NEW k \in tx[w].locks
  PROVE  \A r : r.pool = k => (r \in VisibleRows(w)' <=> r \in VisibleRows(w))
<1>1. \A r \in tx[v].rows : r.pool # k
  BY DEF Core, LocksExclusive, GoodTxs, GoodTx
<1>2. tx'[w] = tx[w]
  BY DEF Commit, Core, Placed, TypeOK
<1>3. QED
  BY <1>1, <1>2 DEF Commit, VisibleRows

LEMMA StillDiffersStep ==
  ASSUME Core, Core', StillDiffers, [Next]_vars
  PROVE  StillDiffers'
<1> SUFFICES ASSUME NEW w \in Writers, pc'[w] = "insert"
             PROVE  ~SamePrice(w)'
  BY DEF StillDiffers
<1> USE DEF Core, Placed, TypeOK
<1>1. ASSUME UNCHANGED <<pc, batch, pos, tx, price_metric>>
      PROVE  ~SamePrice(w)'
  BY <1>1 DEF StillDiffers, SamePrice, VisibleRows, Obs, Contract!IsNewest
<1>2. CASE UNCHANGED vars \/ AllEnded
  BY <1>1, <1>2 DEF vars, AllEnded
<1>3. ASSUME NEW v \in Writers, Statement(v) \/ DeadlockVictim(v) \/ Abort(v)
      PROVE  ~SamePrice(w)'
  <2>1. CASE v # w /\ ~Commit(v)
    <3>1. /\ pc'[w] = pc[w] /\ batch'[w] = batch[w] /\ pos'[w] = pos[w]
          /\ tx'[w] = tx[w] /\ price_metric' = price_metric
      BY <1>3, <2>1, ZenonT(120)
      DEF Statement, Begin, LookupCatalog, LockPoolTable, UpsertPool, CompareNewest,
          CreateChunk, InsertPrice, RefusePrice, DeadlockVictim, Abort, Outcome, Raise
    <3>2. QED
      BY <3>1 DEF StillDiffers, SamePrice, VisibleRows, Obs, Contract!IsNewest
  <2>2. CASE v # w /\ Commit(v)
    <3>1. pc'[w] = pc[w] /\ batch'[w] = batch[w] /\ pos'[w] = pos[w]
      BY <2>2 DEF Commit
    <3>2. Obs(w)' = Obs(w) /\ Obs(w).pool \in tx[w].locks
      BY <3>1 DEF Obs, HoldsPool
    <3>3. SamePrice(w)' => SamePrice(w)
      BY <2>2, <3>2, CommitKeepsVisible, SamePriceFrame
    <3>4. QED
      BY <3>1, <3>3 DEF StillDiffers
  <2>3. CASE v = w
    <3>1. CompareNewest(w) \/ CreateChunk(w)
      BY <1>3, <2>3
      DEF Statement, Begin, LookupCatalog, LockPoolTable, UpsertPool, InsertPrice,
          RefusePrice, DeadlockVictim, Abort, Commit, Outcome, Raise, NextStop
    <3>2. CASE CompareNewest(w)
      BY <3>2 DEF CompareNewest, Outcome, NextStop, SamePrice, VisibleRows, Obs,
                  Contract!IsNewest
    <3>3. CASE CreateChunk(w)
      <4>1. tx'[w].rows = tx[w].rows
        BY <3>3 DEF CreateChunk, Tx
      <4>2. pc[w] = "insert" /\ UNCHANGED <<batch, pos, price_metric>>
        BY <3>3 DEF CreateChunk, NeedsChunk
      <4>3. QED
        BY <4>1, <4>2 DEF StillDiffers, SamePrice, VisibleRows, Obs, Contract!IsNewest
    <3>4. QED
      BY <3>1, <3>2, <3>3
  <2>4. QED
    BY <2>1, <2>2, <2>3
<1>4. QED
  BY <1>2, <1>3 DEF Next

--------------------------------------------------------------------------------
(***************************************************************************)
(* The counters.                                                           *)
(***************************************************************************)
LEMMA Tally ==
  ASSUME NEW f \in [Buckets -> Nat], NEW bucket \in Buckets
  PROVE  Total([f EXCEPT ![bucket] = @ + 1]) = Total(f) + 1
<1>1. CASE bucket = "prices_written"
  BY <1>1 DEF Buckets, Total
<1>2. CASE bucket = "unchanged"
  BY <1>2 DEF Buckets, Total
<1>3. CASE bucket = "unknown_instance_type"
  BY <1>3 DEF Buckets, Total
<1>4. QED
  BY <1>1, <1>2, <1>3 DEF Buckets

LEMMA OutcomeCounts ==
  ASSUME Core, CountsAddUp, NEW w \in Writers, pc[w] \in Storing,
         NEW bucket \in Buckets, NEW t, Outcome(w, bucket, t),
         Cardinality(t.rows) = IF bucket = "prices_written"
           THEN Cardinality(tx[w].rows) + 1 ELSE Cardinality(tx[w].rows)
  PROVE  CountsAddUp'
<1>1. result[w] \in [Buckets -> Nat] /\ pos[w] \in Nat
  BY DEF Core, Placed, TypeOK
<1>2. /\ tx'[w] = t
      /\ pos'[w] = pos[w] + 1
      /\ result'[w] = [result[w] EXCEPT ![bucket] = @ + 1]
  BY DEF Outcome, Core, Placed, TypeOK
<1>3. /\ Cardinality(tx[w].rows) = result[w]["prices_written"]
      /\ pos[w] = Total(result[w]) + 1
  BY DEF CountsAddUp, Storing
<1>4. Cardinality(t.rows) = result'[w]["prices_written"]
  BY <1>1, <1>2, <1>3 DEF Buckets
<1>5. pos'[w] = Total(result'[w]) + 1
  BY <1>1, <1>2, <1>3, Tally
<1>6. ASSUME NEW v \in Writers \ {w}
      PROVE  tx'[v] = tx[v] /\ pc'[v] = pc[v] /\ result'[v] = result[v] /\ pos'[v] = pos[v]
  BY DEF Outcome, Core, Placed, TypeOK
<1>7. QED
  BY <1>2, <1>4, <1>5, <1>6 DEF CountsAddUp

LEMMA CountsStep ==
  ASSUME Core, CountsAddUp, [Next]_vars
  PROVE  CountsAddUp'
<1> USE DEF Core, Placed, TypeOK
<1>1. CASE UNCHANGED vars \/ AllEnded
  BY <1>1 DEF CountsAddUp, vars, AllEnded
<1>2. ASSUME NEW w \in Writers, Statement(w) \/ DeadlockVictim(w) \/ Abort(w)
      PROVE  CountsAddUp'
  <2>1. CASE Begin(w)
    <3>1. tx[w].rows = {} /\ pos[w] = 1 /\ result[w] = [b \in Buckets |-> 0]
      BY <2>1 DEF Begin, FreshWriters, InBatch, NoTx
    <3>2. Cardinality(tx[w].rows) = 0 /\ result[w]["prices_written"] = 0
          /\ Total(result[w]) = 0
      BY <3>1, FS_EmptySet DEF Buckets, Total
    <3>3. tx' = tx /\ pos' = pos /\ result' = result
      BY <2>1 DEF Begin
    <3>4. \A v \in Writers \ {w} : pc'[v] = pc[v]
      BY <2>1 DEF Begin
    <3>5. /\ Cardinality(tx[w].rows) = result[w]["prices_written"]
          /\ pos[w] = Total(result[w]) + 1
      BY <3>1, <3>2
    <3>6. QED
      BY <3>3, <3>4, <3>5 DEF CountsAddUp
  <2>2. ASSUME NEW bucket \in Buckets \ {"prices_written"},
               Outcome(w, bucket, tx[w]), pc[w] \in Storing
        PROVE  CountsAddUp'
    BY <2>2, OutcomeCounts
  <2>3. CASE LookupCatalog(w)
    BY <2>2, <2>3 DEF LookupCatalog, CountsAddUp, Buckets, Storing, Active
  <2>4. CASE LockPoolTable(w) \/ UpsertPool(w) \/ CreateChunk(w)
    <3>1. tx'[w].rows = tx[w].rows
      BY <2>4 DEF LockPoolTable, UpsertPool, CreateChunk, Tx
    <3>2. pc[w] \in Active /\ UNCHANGED <<pos, result>>
      BY <2>4 DEF LockPoolTable, UpsertPool, CreateChunk, NeedsChunk, Active
    <3>3. \A v \in Writers \ {w} : tx'[v] = tx[v] /\ pc'[v] = pc[v]
      BY <2>4 DEF LockPoolTable, UpsertPool, CreateChunk
    <3>4. QED
      BY <3>1, <3>2, <3>3 DEF CountsAddUp
  <2>5. CASE CompareNewest(w)
    BY <2>2, <2>5 DEF CompareNewest, CountsAddUp, Buckets, Storing, Active
  <2>6. CASE InsertPrice(w)
    <3>1. pc[w] \in Storing
      BY <2>6 DEF InsertPrice, Storing, Active
    <3>2. CASE Contract!FreshKey(NewRow(w), VisibleRows(w))
      <4> DEFINE t == [tx[w] EXCEPT !.rows = @ \cup {NewRow(w)}]
      <4>1. t.rows = tx[w].rows \cup {NewRow(w)}
        BY DEF Tx
      <4>2. NewRow(w) \notin tx[w].rows
        BY <3>1, <3>2, FreshPool
      <4>3. Cardinality(t.rows) = Cardinality(tx[w].rows) + 1
        <5>1. IsFiniteSet(tx[w].rows)
          BY DEF GoodTxs, GoodTx
        <5>2. QED
          BY <4>1, <4>2, <5>1, FS_AddElement
      <4>4. QED
        BY <2>6, <3>1, <3>2, <4>3, OutcomeCounts DEF InsertPrice, Buckets
    <3>3. CASE ~Contract!FreshKey(NewRow(w), VisibleRows(w))
      BY <2>2, <2>6, <3>1, <3>3 DEF InsertPrice, Buckets
    <3>4. QED
      BY <3>2, <3>3
  <2>7. CASE Raise(w)
    BY <2>7 DEF Raise, CountsAddUp, Active
  <2>8. CASE RefusePrice(w) \/ Abort(w)
    BY <2>7, <2>8 DEF RefusePrice, Abort
  <2>9. CASE DeadlockVictim(w)
    <3>1. CASE attempt[w] < MaxAttempts
      <4>1. sp[w].rows = tx[w].rows
        BY DEF SavepointBehind
      <4>2. pc[w] \in Active
        <5>1. Blockers(w) # {}
          BY <2>9 DEF DeadlockVictim, Deadlocked
        <5>2. QED
          BY <5>1 DEF Blockers, NeedsChunk, Active
      <4>3. QED
        BY <2>9, <3>1, <4>1, <4>2 DEF DeadlockVictim, CountsAddUp
    <3>2. QED
      BY <2>7, <2>9, <3>1 DEF DeadlockVictim
  <2>10. CASE Commit(w)
    BY <2>10 DEF Commit, CountsAddUp, Active
  <2>11. QED
    BY <1>2, <2>1, <2>3, <2>4, <2>5, <2>6, <2>8, <2>9, <2>10 DEF Statement
<1>3. QED
  BY <1>1, <1>2 DEF Next

--------------------------------------------------------------------------------
(***************************************************************************)
(* The inductive invariant, and what follows from it.                      *)
(***************************************************************************)
Inv == Core /\ StillDiffers /\ CountsAddUp

LEMMA InitInv == Init => Inv
<1> SUFFICES ASSUME Init PROVE Inv
  OBVIOUS
<1>1. Core
  BY InitCore
<1>2. \A w \in Writers : pc[w] = "idle"
  BY DEF Init
<1>3. QED
  BY <1>1, <1>2 DEF Inv, StillDiffers, CountsAddUp, Active

LEMMA NextInv == Inv /\ [Next]_vars => Inv'
  BY NextCore, StillDiffersStep, CountsStep DEF Inv

LEMMA Invariance == Spec => []Inv
  BY InitInv, NextInv, PTL DEF Spec

--------------------------------------------------------------------------------
(***************************************************************************)
(* The counts come from the database.                                      *)
(***************************************************************************)
LEMMA CommitAdds ==
  ASSUME Inv, NEW w \in Writers, Commit(w)
  PROVE  price_metric' \ price_metric = tx[w].rows
<1>1. \A r \in tx[w].rows : r \notin price_metric
  BY DEF Inv, Core, GoodTxs, GoodTx, Contract!FreshKey
<1>2. QED
  BY <1>1 DEF Commit, VisibleRows

\* prices_written is the number of rows the commit adds, whatever was retried,
\* rolled back or lost to another writer on the way.
THEOREM CountsAreHonest == Spec => CommitAddsWhatItReports
<1>1. ASSUME Inv, NEW w \in Writers, Commit(w)
      PROVE  Cardinality(price_metric' \ price_metric) = result[w]["prices_written"]
  <2>1. pc[w] \in Active
    BY <1>1 DEF Commit, Active
  <2>2. Cardinality(tx[w].rows) = result[w]["prices_written"]
    BY <1>1, <2>1 DEF Inv, CountsAddUp
  <2>3. QED
    BY <1>1, <2>2, CommitAdds
<1>2. Inv /\ [Next]_vars =>
        [\A w \in Writers :
           Commit(w) => Cardinality(price_metric' \ price_metric)
                          = result[w]["prices_written"]]_vars
  BY <1>1
<1>3. QED
  BY <1>2, Invariance, PTL DEF Spec, CommitAddsWhatItReports

--------------------------------------------------------------------------------
(***************************************************************************)
(* The writer implements the store-on-change contract, provided that every *)
(* price is one the column can hold: the writer compares the price as it   *)
(* was observed with the price as it was stored.                           *)
(***************************************************************************)
LEMMA NewRowMoved ==
  ASSUME Inv, NEW w \in Writers, InsertPrice(w), ~Finer(Obs(w)),
         Contract!FreshKey(NewRow(w), VisibleRows(w))
  PROVE  Contract!Moved(NewRow(w), price_metric)
<1>1. pc[w] = "insert" /\ pc[w] \in Storing
  BY DEF InsertPrice, Storing, Active
<1>2. NewRow(w).price = Obs(w).price /\ NewRow(w).pool = Obs(w).pool
  BY DEF Finer, NewRow
<1>3. ASSUME NEW s \in price_metric, s.pool = NewRow(w).pool,
             Contract!IsNewest(s, price_metric)
      PROVE  s.price # NewRow(w).price
  <2>1. \A q \in tx[w].rows : q.pool # NewRow(w).pool
    BY <1>1, FreshPool DEF Inv
  <2>2. Contract!IsNewest(s, VisibleRows(w))
    BY <1>3, <2>1 DEF Contract!IsNewest, VisibleRows
  <2>3. ~SamePrice(w)
    BY <1>1 DEF Inv, StillDiffers
  <2>4. QED
    BY <1>2, <1>3, <2>2, <2>3 DEF SamePrice, VisibleRows
<1>4. QED
  BY <1>3 DEF Contract!Moved

\* The rows of an open transaction after a step that is not a commit.
LEMMA RowsAfterStep ==
  ASSUME Inv, NEW w \in Writers, Statement(w) \/ DeadlockVictim(w) \/ Abort(w), ~Commit(w)
  PROVE  /\ price_metric' = price_metric
         /\ \A v \in Writers \ {w} : tx'[v] = tx[v]
         /\ \/ tx'[w].rows \subseteq tx[w].rows
            \/ /\ InsertPrice(w)
               /\ Contract!FreshKey(NewRow(w), VisibleRows(w))
               /\ tx'[w].rows = tx[w].rows \cup {NewRow(w)}
<1> USE DEF Inv, Core, Placed, TypeOK
<1>1. price_metric' = price_metric /\ \A v \in Writers \ {w} : tx'[v] = tx[v]
  BY DEF Statement, Begin, LookupCatalog, LockPoolTable, UpsertPool, CompareNewest,
         CreateChunk, InsertPrice, RefusePrice, DeadlockVictim, Abort, Outcome, Raise
<1>2. CASE Raise(w)
  BY <1>2 DEF Raise, NoTx
<1>3. CASE DeadlockVictim(w)
  BY <1>2, <1>3 DEF DeadlockVictim, SavepointBehind
<1>4. CASE Begin(w) \/ LookupCatalog(w) \/ CompareNewest(w)
  <2>1. tx'[w] = tx[w]
    BY <1>4 DEF Begin, LookupCatalog, CompareNewest, Outcome
  <2>2. QED
    BY <1>1, <2>1
<1>5. CASE LockPoolTable(w) \/ UpsertPool(w) \/ CreateChunk(w)
  <2>1. tx'[w].rows = tx[w].rows
    BY <1>5 DEF LockPoolTable, UpsertPool, CreateChunk, Tx
  <2>2. QED
    BY <1>1, <2>1
<1>6. CASE InsertPrice(w)
  <2> DEFINE t == [tx[w] EXCEPT !.rows = @ \cup {NewRow(w)}]
  <2>1. t.rows = tx[w].rows \cup {NewRow(w)}
    BY DEF Tx
  <2>2. CASE Contract!FreshKey(NewRow(w), VisibleRows(w))
    <3>1. tx' = [tx EXCEPT ![w] = t]
      BY <1>6, <2>2 DEF InsertPrice, Outcome
    <3>2. tx'[w].rows = t.rows
      BY <3>1
    <3>3. QED
      BY <1>1, <1>6, <2>1, <2>2, <3>2
  <2>3. CASE ~Contract!FreshKey(NewRow(w), VisibleRows(w))
    BY <1>1, <1>6, <2>3 DEF InsertPrice, Outcome
  <2>4. QED
    BY <2>2, <2>3
<1>7. \/ Begin(w) \/ LookupCatalog(w) \/ CompareNewest(w)
      \/ LockPoolTable(w) \/ UpsertPool(w) \/ CreateChunk(w)
      \/ InsertPrice(w) \/ DeadlockVictim(w) \/ Raise(w)
  BY DEF Statement, RefusePrice, Abort
<1>8. QED
  BY <1>2, <1>3, <1>4, <1>5, <1>6, <1>7

\* The batch of w has a price of pool k that is finer than the column.
HasFiner(w, k) == \E i \in 1..Len(batch[w]) : batch[w][i].pool = k /\ Finer(batch[w][i])

\* A row of an open transaction moves its pool's price, or comes from a finer price.
RowsRepeatFiner ==
  \A w \in Writers : \A r \in tx[w].rows :
    Contract!Moved(r, price_metric) \/ HasFiner(w, r.pool)

LEMMA RowsRepeatStep ==
  ASSUME Inv, RowsRepeatFiner, [Next]_vars
  PROVE  RowsRepeatFiner'
<1> SUFFICES ASSUME NEW v \in Writers, NEW r \in tx'[v].rows
             PROVE  Contract!Moved(r, price_metric') \/ HasFiner(v, r.pool)'
  BY DEF RowsRepeatFiner, Contract!Moved
<1>1. CASE UNCHANGED vars \/ AllEnded
  BY <1>1 DEF RowsRepeatFiner, HasFiner, vars, AllEnded
<1>2. ASSUME NEW w \in Writers, Statement(w) \/ DeadlockVictim(w) \/ Abort(w), ~Commit(w)
      PROVE  Contract!Moved(r, price_metric') \/ HasFiner(v, r.pool)'
  <2>1. price_metric' = price_metric
    BY <1>2, RowsAfterStep
  <2>2. CASE r \in tx[v].rows
    <3>1. batch'[v] = batch[v]
      <4>1. ~Begin(v)
        BY <2>2 DEF Begin, Inv, Core, FreshWriters, NoTx
      <4>2. QED
        BY <1>2, <4>1
        DEF Statement, Begin, LookupCatalog, LockPoolTable, UpsertPool, CompareNewest,
            CreateChunk, InsertPrice, RefusePrice, DeadlockVictim, Abort, Outcome, Raise,
            Inv, Core, Placed, TypeOK
    <3>2. QED
      BY <2>1, <2>2, <3>1 DEF RowsRepeatFiner, HasFiner
  <2>3. CASE r \notin tx[v].rows
    <3>1. v = w /\ InsertPrice(w) /\ r = NewRow(w)
          /\ Contract!FreshKey(NewRow(w), VisibleRows(w))
      BY <1>2, <2>3, RowsAfterStep
    <3>2. batch'[w] = batch[w] /\ pos[w] \in 1..Len(batch[w])
      BY <3>1 DEF InsertPrice, Outcome, Active, Inv, Core, Placed, InBatch
    <3>3. CASE Finer(Obs(w))
      <4>1. batch[w][pos[w]].pool = r.pool /\ Finer(batch[w][pos[w]])
        BY <3>1, <3>3 DEF NewRow, Obs
      <4>2. QED
        BY <3>1, <3>2, <4>1 DEF HasFiner
    <3>4. CASE ~Finer(Obs(w))
      BY <2>1, <3>1, <3>4, NewRowMoved
    <3>5. QED
      BY <3>3, <3>4
  <2>4. QED
    BY <2>2, <2>3
<1>3. ASSUME NEW w \in Writers, Commit(w)
      PROVE  Contract!Moved(r, price_metric') \/ HasFiner(v, r.pool)'
  <2>1. v # w /\ tx'[v] = tx[v] /\ r \in tx[v].rows /\ batch' = batch
    BY <1>3 DEF Commit, NoTx, Inv, Core, Placed, TypeOK
  <2>2. r.pool \in tx[v].locks /\ \A s \in tx[w].rows : s.pool # r.pool
    BY <2>1 DEF Inv, Core, GoodTxs, GoodTx, LocksExclusive
  <2>3. Contract!Moved(r, price_metric) => Contract!Moved(r, price_metric')
    BY <1>3, <2>2 DEF Commit, VisibleRows, Contract!Moved, Contract!IsNewest
  <2>4. QED
    BY <2>1, <2>3 DEF RowsRepeatFiner, HasFiner
<1>4. QED
  BY <1>1, <1>2, <1>3 DEF Next, Statement

LEMMA RowsRepeat == Spec => []RowsRepeatFiner
<1>1. Init => RowsRepeatFiner
  BY DEF Init, RowsRepeatFiner, NoTx
<1>2. Inv /\ RowsRepeatFiner /\ [Next]_vars => RowsRepeatFiner'
  BY RowsRepeatStep
<1>3. QED
  BY <1>1, <1>2, Invariance, PTL DEF Spec

\* "A price row exists only where the price actually moved", but for prices with more
\* digits than the column keeps: for any batches, and however the writers interleave.
THEOREM OnlyFinerPricesAreRepeated == Spec => OnlyFinerPricesRepeat
<1>1. ASSUME Inv, RowsRepeatFiner, NEW w \in Writers, Commit(w),
             NEW r \in price_metric' \ price_metric
      PROVE  Contract!Moved(r, price_metric)
               \/ \E i \in 1..Len(batch[w]) : batch[w][i].pool = r.pool /\ Finer(batch[w][i])
  <2>1. r \in tx[w].rows
    BY <1>1, CommitAdds
  <2>2. QED
    BY <1>1, <2>1 DEF RowsRepeatFiner, HasFiner
<1>2. Inv /\ RowsRepeatFiner /\ [Next]_vars =>
        [\A w \in Writers :
           Commit(w) => \A r \in price_metric' \ price_metric :
             Contract!Moved(r, price_metric)
               \/ \E i \in 1..Len(batch[w]) :
                     batch[w][i].pool = r.pool /\ Finer(batch[w][i])]_vars
  BY <1>1
<1>3. QED
  BY <1>2, Invariance, RowsRepeat, PTL DEF Spec, OnlyFinerPricesRepeat

\* Where no price is finer than the column, every row moves its pool's price.
LEMMA RepresentableMoved ==
  ASSUME RepresentablePrices, Inv, RowsRepeatFiner
  PROVE  RowsMoved
<1>1. ASSUME NEW w \in Writers, NEW k
      PROVE  ~HasFiner(w, k)
  <2>1. batch[w] \in Batches \cup {<<>>}
    BY DEF Inv, Core, Placed, InBatch
  <2>2. QED
    BY <2>1 DEF RepresentablePrices, HasFiner, Finer
<1>2. QED
  BY <1>1 DEF RowsMoved, RowsRepeatFiner

LEMMA CommitImplements ==
  ASSUME Inv, RowsMoved, NEW w \in Writers, Commit(w)
  PROVE  Contract!CommitTick
<1> USE DEF Inv, Core, Placed, TypeOK
<1>1. pool' \in [Pools -> Nat] /\ price_metric \subseteq price_metric'
  BY CommitPlaced DEF Commit, VisibleRows
<1>2. \A k \in Pools : pool[k] <= pool'[k]
  BY DEF Commit, VisibleSeen, GoodTxs, GoodTx
<1>3. ASSUME NEW r \in tx[w].rows
      PROVE  /\ r \in Contract!Row
             /\ Contract!Moved(r, price_metric)
             /\ Contract!FreshKey(r, price_metric)
             /\ r.at <= pool'[r.pool]
             /\ \A s \in tx[w].rows : s.pool = r.pool => s = r
  <2>1. r \in Contract!Row
    BY DEF Tx, Row
  <2>2. GoodTx(w, tx[w])
    BY DEF GoodTxs
  <2>3. r.at <= pool'[r.pool]
    BY <2>1, <2>2 DEF GoodTx, Commit, VisibleSeen, Contract!Row
  <2>4. QED
    BY <2>1, <2>2, <2>3 DEF GoodTx, RowsMoved
<1>4. QED
  BY <1>1, <1>2, <1>3, CommitAdds DEF Contract!CommitTick

LEMMA StepImplements ==
  ASSUME Inv, RowsMoved, [Next]_vars
  PROVE  [Contract!Next]_(Contract!vars)
<1>1. CASE UNCHANGED vars \/ AllEnded
  BY <1>1 DEF vars, AllEnded, Contract!vars
<1>2. ASSUME NEW w \in Writers, Statement(w) \/ DeadlockVictim(w) \/ Abort(w), ~Commit(w)
      PROVE  UNCHANGED Contract!vars
  BY <1>2
  DEF Statement, Begin, LookupCatalog, LockPoolTable, UpsertPool, CompareNewest,
      CreateChunk, InsertPrice, RefusePrice, DeadlockVictim, Abort, Outcome, Raise,
      Contract!vars
<1>3. ASSUME NEW w \in Writers, Commit(w)
      PROVE  Contract!Next
  BY <1>3, CommitImplements DEF Contract!Next
<1>4. QED
  BY <1>1, <1>2, <1>3 DEF Next, Statement

\* Whatever the writers do to one another, the database only ever takes the steps
\* the contract allows, if no price is finer than the column.
THEOREM WriterImplementsContract ==
  ASSUME RepresentablePrices
  PROVE  Spec => Implements
<1>1. Init => Contract!Init
  BY DEF Init, Contract!Init
<1>2. Inv /\ RowsRepeatFiner /\ [Next]_vars => [Contract!Next]_(Contract!vars)
  BY RepresentableMoved, StepImplements
<1>3. QED
  BY <1>1, <1>2, Invariance, RowsRepeat, PTL DEF Spec, Implements, Contract!Spec

--------------------------------------------------------------------------------
(***************************************************************************)
(* The newest row a writer sees of a pool it is done with holds the price  *)
(* it observed, until it commits.                                          *)
(***************************************************************************)
LEMMA RowsAreObservedStep ==
  ASSUME Inv, RowsAreObserved, [Next]_vars
  PROVE  RowsAreObserved'
<1> USE DEF Inv, Core, Placed, TypeOK
<1> SUFFICES ASSUME NEW v \in Writers, NEW r \in tx'[v].rows
             PROVE  \E j \in 1..pos'[v] - 1 : j <= Len(batch'[v]) /\ batch'[v][j].pool = r.pool
  BY DEF RowsAreObserved
<1>1. ASSUME r \in tx[v].rows, pos'[v] \in {pos[v], pos[v] + 1}, batch'[v] = batch[v]
      PROVE  \E j \in 1..pos'[v] - 1 : j <= Len(batch'[v]) /\ batch'[v][j].pool = r.pool
  BY <1>1 DEF RowsAreObserved
<1>2. CASE UNCHANGED vars \/ AllEnded
  BY <1>1, <1>2 DEF vars, AllEnded
<1>3. ASSUME NEW w \in Writers, Statement(w) \/ DeadlockVictim(w) \/ Abort(w)
      PROVE  \E j \in 1..pos'[v] - 1 : j <= Len(batch'[v]) /\ batch'[v][j].pool = r.pool
  <2>1. CASE v # w
    <3>1. tx'[v] = tx[v] /\ pos'[v] = pos[v] /\ batch'[v] = batch[v]
      BY <1>3, <2>1
      DEF Statement, Begin, LookupCatalog, LockPoolTable, UpsertPool, CompareNewest,
          CreateChunk, InsertPrice, RefusePrice, DeadlockVictim, Abort, Commit, Outcome, Raise
    <3>2. QED
      BY <1>1, <3>1
  <2>2. CASE v = w /\ Begin(w)
    BY <2>2 DEF Begin, FreshWriters, NoTx
  <2>3. CASE v = w /\ Commit(w)
    BY <2>3 DEF Commit, NoTx
  <2>4. CASE v = w /\ ~Begin(w) /\ ~Commit(w)
    <3>1. batch'[v] = batch[v] /\ pos'[v] \in {pos[v], pos[v] + 1}
      BY <1>3, <2>4
      DEF Statement, LookupCatalog, LockPoolTable, UpsertPool, CompareNewest,
          CreateChunk, InsertPrice, RefusePrice, DeadlockVictim, Abort, Outcome, Raise
    <3>2. CASE r \in tx[v].rows
      BY <1>1, <3>1, <3>2
    <3>3. CASE r \notin tx[v].rows
      <4>1. InsertPrice(w) /\ r = NewRow(w)
        BY <1>3, <2>4, <3>3, RowsAfterStep
      <4>2. pos'[w] = pos[w] + 1
        BY <4>1 DEF InsertPrice, Outcome
      <4>3. pos[w] \in 1..Len(batch[w]) /\ batch[w][pos[w]].pool = r.pool
        BY <4>1 DEF InsertPrice, InBatch, Active, NewRow, Obs
      <4>4. QED
        BY <2>4, <3>1, <4>2, <4>3, SMTT(60)
    <3>4. QED
      BY <3>2, <3>3
  <2>5. QED
    BY <2>1, <2>2, <2>3, <2>4
<1>4. QED
  BY <1>2, <1>3 DEF Next

\* Only the rows of its pool decide what an observation is shown as.
LEMMA ShowsPriceFrame ==
  ASSUME NEW o, NEW R, NEW S, ShowsPrice(o, R),
         \A r : r.pool = o.pool => (r \in S <=> r \in R)
  PROVE  ShowsPrice(o, S)
  BY DEF ShowsPrice, Contract!IsNewest

\* The part of LatestIsKept about the i-th observation of w.
Kept(w, i) ==
  /\ batch[w][i].pool \in sp[w].locks
  /\ batch[w][i].at > pool[batch[w][i].pool] => ShowsPrice(batch[w][i], VisibleRows(w))

\* A step that leaves the visible rows of a pool and its last_seen alone, and no
\* lock of the savepoint behind, leaves an observation of the pool kept.
LEMMA KeptFrame ==
  ASSUME NEW w \in Writers, NEW i, Kept(w, i), batch'[w] = batch[w],
         sp[w].locks \subseteq sp'[w].locks,
         pool'[batch[w][i].pool] = pool[batch[w][i].pool],
         \A r : r.pool = batch[w][i].pool => (r \in VisibleRows(w)' <=> r \in VisibleRows(w))
  PROVE  Kept(w, i)'
<1>1. ShowsPrice(batch[w][i], VisibleRows(w)) => ShowsPrice(batch[w][i], VisibleRows(w)')
  BY ShowsPriceFrame
<1>2. QED
  BY <1>1 DEF Kept, ShowsPrice, Contract!IsNewest

\* An observation whose row is inserted is shown: no row is newer.
LEMMA InsertShows ==
  ASSUME Inv, NEW w \in Writers, InsertPrice(w), Unambiguous(batch[w], pos[w]),
         Contract!FreshKey(NewRow(w), VisibleRows(w)), Obs(w).at > pool[Obs(w).pool]
  PROVE  ShowsPrice(Obs(w), VisibleRows(w) \cup {NewRow(w)})
<1>1. pc[w] \in Storing /\ pos[w] \in 1..Len(batch[w])
  BY DEF InsertPrice, Storing, Active, Inv, Core, Placed, InBatch
<1>2. NewRow(w).pool = Obs(w).pool /\ NewRow(w).at = Obs(w).at
      /\ NewRow(w).price = Obs(w).price
  BY DEF NewRow, Obs, Unambiguous
<1>3. Obs(w) \in Observation
  BY <1>1, ObsType DEF Inv, Core
<1>4. ASSUME NEW s \in VisibleRows(w), s.pool = Obs(w).pool
      PROVE  s.at <= Obs(w).at
  <2>1. s \notin tx[w].rows
    BY <1>1, <1>2, <1>4, FreshPool DEF Inv
  <2>2. s \in price_metric /\ s \in Row
    BY <2>1 DEF VisibleRows, Inv, Core, Placed, TypeOK
  <2>3. s.at <= pool[Obs(w).pool]
    BY <1>4, <2>2 DEF Inv, Core, RowsAreSeen
  <2>4. pool[Obs(w).pool] \in Nat /\ s.at \in Nat /\ Obs(w).at \in Nat
    BY <1>3, <2>2 DEF Inv, Core, Placed, TypeOK, Observation, Row, Contract!Row
  <2>5. QED
    BY <2>3, <2>4
<1>5. Obs(w).at <= Obs(w).at
  BY <1>3 DEF Observation
<1>6. Contract!IsNewest(NewRow(w), VisibleRows(w) \cup {NewRow(w)})
  BY <1>2, <1>4, <1>5 DEF Contract!IsNewest
<1>7. QED
  BY <1>2, <1>6 DEF ShowsPrice

\* The key of a tick that is not late is taken only by the tick's own row for the
\* pool, and that came from another observation of the pool.
LEMMA InsertFresh ==
  ASSUME Inv, RowsAreObserved, NEW w \in Writers, InsertPrice(w),
         Unambiguous(batch[w], pos[w]), Obs(w).at > pool[Obs(w).pool]
  PROVE  Contract!FreshKey(NewRow(w), VisibleRows(w))
<1> SUFFICES ASSUME NEW s \in VisibleRows(w), s.pool = NewRow(w).pool, s.at = NewRow(w).at
             PROVE  FALSE
  BY DEF Contract!FreshKey
<1>1. pc[w] \in Storing /\ pos[w] \in 1..Len(batch[w])
  BY DEF InsertPrice, Storing, Active, Inv, Core, Placed, InBatch
<1>2. NewRow(w).pool = Obs(w).pool /\ NewRow(w).at = Obs(w).at
  BY DEF NewRow
<1>3. Obs(w) \in Observation
  BY <1>1, ObsType DEF Inv, Core
<1>4. CASE s \in price_metric
  <2>1. Obs(w).at <= pool[Obs(w).pool]
    BY <1>2, <1>4 DEF Inv, Core, RowsAreSeen
  <2>2. pool[Obs(w).pool] \in Nat /\ Obs(w).at \in Nat
    BY <1>3 DEF Inv, Core, Placed, TypeOK, Observation
  <2>3. QED
    BY <2>1, <2>2
<1>5. CASE s \in tx[w].rows
  <2>1. PICK j \in 1..pos[w] - 1 : j <= Len(batch[w]) /\ batch[w][j].pool = s.pool
    BY <1>5 DEF RowsAreObserved
  <2>2. j \in 1..Len(batch[w]) /\ j # pos[w]
    BY <1>1, <2>1
  <2>3. QED
    BY <1>2, <2>1, <2>2 DEF Unambiguous, Obs
<1>6. QED
  BY <1>4, <1>5 DEF VisibleRows

\* The observation of a writer that has ended one more of its batch.
LEMMA OutcomeKept ==
  ASSUME Inv, LatestIsKept, NEW w \in Writers, pc[w] \in Storing,
         NEW bucket, NEW t, Outcome(w, bucket, t),
         tx[w].locks \subseteq t.locks, tx[w].rows \subseteq t.rows,
         \A r \in t.rows \ tx[w].rows : r.pool = Obs(w).pool,
         Unambiguous(batch[w], pos[w]) =>
           /\ Obs(w).pool \in t.locks
           /\ Obs(w).at > pool[Obs(w).pool]
                => ShowsPrice(Obs(w), price_metric \cup t.rows),
         NEW i \in 1..Len(batch[w]), i < pos[w] + 1, Unambiguous(batch[w], i)
  PROVE  Kept(w, i)'
<1> USE DEF Inv, Core, Placed, TypeOK
<1>1. /\ tx'[w] = t /\ sp'[w] = t
      /\ batch'[w] = batch[w] /\ pool' = pool /\ price_metric' = price_metric
  BY DEF Outcome
<1>2. VisibleRows(w)' = price_metric \cup t.rows
  BY <1>1 DEF VisibleRows
<1>3. CASE i = pos[w]
  <2>1. Obs(w) = batch[w][i]
    BY <1>3 DEF Obs
  <2>2. /\ batch[w][i].pool \in t.locks
        /\ batch[w][i].at > pool[batch[w][i].pool]
             => ShowsPrice(batch[w][i], price_metric \cup t.rows)
    BY <1>3, <2>1
  <2>3. QED
    BY <1>1, <1>2, <2>2 DEF Kept, ShowsPrice, Contract!IsNewest
<1>4. CASE i # pos[w]
  <2>1. i < pos[w] /\ pos[w] \in 1..Len(batch[w]) /\ pc[w] \in Active
    BY <1>4 DEF InBatch, Storing
  <2>2. Kept(w, i)
    BY <2>1 DEF LatestIsKept, Kept
  <2>3. batch[w][i].pool # Obs(w).pool
    BY <1>4, <2>1 DEF Unambiguous, Obs
  <2>4. \A r : r.pool = batch[w][i].pool
              => (r \in VisibleRows(w)' <=> r \in VisibleRows(w))
    BY <1>2, <2>3 DEF VisibleRows
  <2>5. sp[w].locks \subseteq sp'[w].locks
    BY <1>1 DEF SavepointBehind
  <2>6. QED
    BY <1>1, <2>2, <2>4, <2>5, KeptFrame
<1>5. QED
  BY <1>3, <1>4

LEMMA InsertKept ==
  ASSUME Inv, RowsAreObserved, LatestIsKept, NEW w \in Writers, InsertPrice(w),
         NEW i \in 1..Len(batch[w]), i < pos[w] + 1, Unambiguous(batch[w], i)
  PROVE  Kept(w, i)'
<1> USE DEF Inv, Core, Placed, TypeOK
<1>1. pc[w] \in Storing /\ Obs(w).pool \in tx[w].locks
  BY DEF InsertPrice, Storing, Active, HoldsPool
<1>2. CASE Contract!FreshKey(NewRow(w), VisibleRows(w))
  <2> DEFINE t == [tx[w] EXCEPT !.rows = @ \cup {NewRow(w)}]
  <2>1. t.locks = tx[w].locks /\ t.rows = tx[w].rows \cup {NewRow(w)}
    BY DEF Tx
  <2>2. Outcome(w, "prices_written", t)
    BY <1>2 DEF InsertPrice
  <2>3. NewRow(w).pool = Obs(w).pool
    BY DEF NewRow
  <2>4. price_metric \cup t.rows = VisibleRows(w) \cup {NewRow(w)}
    BY <2>1 DEF VisibleRows
  <2>5. Unambiguous(batch[w], pos[w]) =>
          /\ Obs(w).pool \in t.locks
          /\ Obs(w).at > pool[Obs(w).pool]
               => ShowsPrice(Obs(w), price_metric \cup t.rows)
    BY <1>1, <1>2, <2>1, <2>4, InsertShows
  <2> HIDE DEF t
  <2>6. QED
    BY <1>1, <2>1, <2>2, <2>3, <2>5, OutcomeKept
<1>3. CASE ~Contract!FreshKey(NewRow(w), VisibleRows(w))
  <2>1. Outcome(w, "unchanged", tx[w])
    BY <1>3 DEF InsertPrice
  <2>2. Unambiguous(batch[w], pos[w]) => ~(Obs(w).at > pool[Obs(w).pool])
    BY <1>3, InsertFresh
  <2>3. QED
    BY <1>1, <2>1, <2>2, OutcomeKept
<1>4. QED
  BY <1>2, <1>3

LEMMA LatestIsKeptStep ==
  ASSUME Inv, RowsAreObserved, LatestIsKept, [Next]_vars
  PROVE  LatestIsKept'
<1> USE DEF Inv, Core, Placed, TypeOK
<1> SUFFICES ASSUME NEW v \in Writers, pc'[v] \in Active, NEW i \in 1..Len(batch'[v]),
                    i < pos'[v], Unambiguous(batch'[v], i)
             PROVE  Kept(v, i)'
  BY DEF LatestIsKept, Kept, Unambiguous
\* The transaction is where it was, but for locks and what others see.
<1>1. ASSUME batch'[v] = batch[v], pos'[v] = pos[v], pc[v] \in Active,
             sp'[v] = sp[v], tx'[v].rows = tx[v].rows,
             pool' = pool, price_metric' = price_metric
      PROVE  Kept(v, i)'
  <2>1. Kept(v, i)
    BY <1>1 DEF LatestIsKept, Kept
  <2>2. VisibleRows(v)' = VisibleRows(v)
    BY <1>1 DEF VisibleRows
  <2>3. QED
    BY <1>1, <2>1, <2>2, KeptFrame
<1>2. CASE UNCHANGED vars \/ AllEnded
  BY <1>1, <1>2 DEF vars, AllEnded
<1>3. ASSUME NEW w \in Writers, Statement(w) \/ DeadlockVictim(w) \/ Abort(w)
      PROVE  Kept(v, i)'
  <2>1. CASE v # w /\ ~Commit(w)
    <3>1. /\ batch'[v] = batch[v] /\ pos'[v] = pos[v] /\ pc'[v] = pc[v]
          /\ sp'[v] = sp[v] /\ tx'[v] = tx[v]
          /\ pool' = pool /\ price_metric' = price_metric
      BY <1>3, <2>1
      DEF Statement, Begin, LookupCatalog, LockPoolTable, UpsertPool, CompareNewest,
          CreateChunk, InsertPrice, RefusePrice, DeadlockVictim, Abort, Outcome, Raise
    <3>2. QED
      BY <1>1, <3>1
  <2>2. CASE v # w /\ Commit(w)
    <3>1. /\ batch'[v] = batch[v] /\ pos'[v] = pos[v] /\ pc'[v] = pc[v]
          /\ sp'[v] = sp[v]
      BY <2>2 DEF Commit
    <3>2. Kept(v, i)
      BY <3>1 DEF LatestIsKept, Kept
    <3>3. batch[v][i].pool \in tx[v].locks
      BY <3>2 DEF Kept, SavepointBehind
    <3>4. pool'[batch[v][i].pool] = pool[batch[v][i].pool]
      BY <2>2, <3>3 DEF Commit, VisibleSeen, LocksExclusive, Tx
    <3>5. \A r : r.pool = batch[v][i].pool
                => (r \in VisibleRows(v)' <=> r \in VisibleRows(v))
      BY <2>2, <3>3, CommitKeepsVisible
    <3>6. QED
      BY <3>1, <3>2, <3>4, <3>5, KeptFrame
  <2>3. CASE v = w /\ (Begin(w) \/ Commit(w) \/ Raise(w))
    BY <2>3 DEF Begin, Commit, Raise, Active, InBatch
  <2>4. CASE v = w /\ LookupCatalog(w)
    <3>1. CASE Obs(w).pool \in Catalogued
      BY <1>1, <2>4, <3>1 DEF LookupCatalog, Active
    <3>2. CASE Obs(w).pool \notin Catalogued
      <4>1. Outcome(w, "unknown_instance_type", tx[w]) /\ pc[w] \in Storing
        BY <2>4, <3>2 DEF LookupCatalog, Storing, Active
      <4>2. ~Unambiguous(batch[w], pos[w])
        BY <3>2 DEF Unambiguous, Obs
      <4>3. batch'[v] = batch[v] /\ pos'[v] = pos[v] + 1
        BY <2>4, <4>1 DEF Outcome
      <4>4. QED
        BY <2>4, <4>1, <4>2, <4>3, OutcomeKept
    <3>3. QED
      BY <3>1, <3>2
  <2>5. CASE v = w /\ (LockPoolTable(w) \/ UpsertPool(w) \/ CreateChunk(w))
    <3>1. tx'[v].rows = tx[v].rows
      BY <2>5 DEF LockPoolTable, UpsertPool, CreateChunk, Tx
    <3>2. QED
      BY <1>1, <2>5, <3>1 DEF LockPoolTable, UpsertPool, CreateChunk, NeedsChunk, Active
  <2>6. CASE v = w /\ CompareNewest(w)
    <3>1. CASE SamePrice(w)
      <4>1. Outcome(w, "unchanged", tx[w]) /\ pc[w] \in Storing
        BY <2>6, <3>1 DEF CompareNewest, Storing, Active
      <4>2. Obs(w).pool \in tx[w].locks
        BY <2>6 DEF CompareNewest, HoldsPool
      <4>3. ShowsPrice(Obs(w), price_metric \cup tx[w].rows)
        BY <3>1 DEF SamePrice, ShowsPrice, VisibleRows
      <4>4. batch'[v] = batch[v] /\ pos'[v] = pos[v] + 1
        BY <2>6, <4>1 DEF Outcome
      <4>5. QED
        BY <2>6, <4>1, <4>2, <4>3, <4>4, OutcomeKept
    <3>2. CASE ~SamePrice(w)
      BY <1>1, <2>6, <3>2 DEF CompareNewest, Active
    <3>3. QED
      BY <3>1, <3>2
  <2>7. CASE v = w /\ InsertPrice(w)
    <3>1. batch'[v] = batch[v] /\ pos'[v] = pos[v] + 1
      BY <2>7 DEF InsertPrice, Outcome
    <3>2. QED
      BY <2>7, <3>1, InsertKept
  <2>8. CASE v = w /\ DeadlockVictim(w) /\ ~Raise(w)
    <3>1. tx'[v].rows = tx[v].rows
      BY <2>8 DEF DeadlockVictim, SavepointBehind
    <3>2. Blockers(w) # {}
      BY <2>8 DEF DeadlockVictim, Deadlocked
    <3>3. pc[w] \in Active
      BY <3>2 DEF Blockers, NeedsChunk, Active
    <3>4. QED
      BY <1>1, <2>8, <3>1, <3>3 DEF DeadlockVictim
  <2>9. QED
    BY <1>3, <2>1, <2>2, <2>3, <2>4, <2>5, <2>6, <2>7, <2>8 DEF Statement, RefusePrice, Abort
<1>4. QED
  BY <1>2, <1>3 DEF Next

--------------------------------------------------------------------------------
(***************************************************************************)
(* The whole invariant.                                                    *)
(***************************************************************************)
LEMMA Observance == Spec => [](RowsAreObserved /\ LatestIsKept)
<1>1. Init => RowsAreObserved /\ LatestIsKept
  BY DEF Init, RowsAreObserved, LatestIsKept, NoTx, Active
<1>2. Inv /\ RowsAreObserved /\ LatestIsKept /\ [Next]_vars
        => RowsAreObserved' /\ LatestIsKept'
  BY RowsAreObservedStep, LatestIsKeptStep
<1>3. QED
  BY <1>1, <1>2, Invariance, PTL DEF Spec

\* What the store and the open transactions always satisfy: exclusive pool locks,
\* rows only under them, comparisons that stay true, counters that add up.
THEOREM StoreInvariant == Spec => []IInv
<1>1. Inv /\ RowsAreObserved /\ LatestIsKept => IInv
  BY DEF Inv, IInv, Core, Placed
<1>2. QED
  BY <1>1, Invariance, Observance, PTL

\* A tick that is not late leaves each pool it saw at the price it saw, however many
\* ticks ran beside it and whatever it had to retry.
THEOREM LatestPriceRecorded == Spec => CommitRecordsLatestPrice
<1>1. ASSUME Inv, LatestIsKept, NEW w \in Writers, Commit(w),
             NEW i \in 1..Len(batch[w]), Unambiguous(batch[w], i),
             batch[w][i].at > pool[batch[w][i].pool]
      PROVE  ShowsPrice(batch[w][i], price_metric')
  <2>1. pc[w] \in Active /\ i < pos[w]
    BY <1>1 DEF Commit, Active, Inv, Core, Placed, InBatch
  <2>2. ShowsPrice(batch[w][i], VisibleRows(w))
    BY <1>1, <2>1 DEF LatestIsKept
  <2>3. price_metric' = VisibleRows(w)
    BY <1>1 DEF Commit
  <2>4. QED
    BY <2>2, <2>3
<1>2. Inv /\ LatestIsKept /\ [Next]_vars =>
        [\A w \in Writers :
           Commit(w) => \A i \in 1..Len(batch[w]) :
             (Unambiguous(batch[w], i) /\ batch[w][i].at > pool[batch[w][i].pool])
               => ShowsPrice(batch[w][i], price_metric')]_vars
  BY <1>1
<1>3. QED
  BY <1>2, Invariance, Observance, PTL DEF Spec, CommitRecordsLatestPrice
================================================================================
