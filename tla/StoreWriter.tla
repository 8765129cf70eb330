------------------------------ MODULE StoreWriter ------------------------------
(***************************************************************************)
(* store_prices and _store_one of app/ingest/writer.py, run by several     *)
(* writers at once against one Postgres.  A writer is one tick: it opens a *)
(* transaction, stores its batch observation by observation, each inside a *)
(* SAVEPOINT that a deadlock rolls back and retries, and commits at the    *)
(* end.  An action is one SQL statement, or one lock such a statement      *)
(* waits for: between two of them any other writer may run.                *)
(*                                                                         *)
(* Postgres (READ COMMITTED, locks kept to the end of the transaction,     *)
(* deadlock detection) is external and modelled as the code relies on it.  *)
(***************************************************************************)
EXTENDS Integers, Sequences, FiniteSets

CONSTANTS
  Writers,      \* the ticks that run, each once; a retried tick is another writer
  Pools,        \* pool identities an observation can name
  Catalogued,   \* the pools whose instance type has an instance_catalog row
  Sources,      \* provenance labels
  Batches,      \* the observation lists a tick may be given
  MaxAttempts,  \* _MAX_ATTEMPTS
  ChunkSpan     \* length of the time range one hypertable chunk covers

Observation == [pool : Pools, at : Nat \ {0}, price : Int, source : Sources]

ASSUME CatalogAssumption == Catalogued \subseteq Pools
ASSUME AttemptsAssumption == MaxAttempts \in Nat \ {0}
ASSUME ChunkAssumption == ChunkSpan \in Nat \ {0}

\* run_tick stamps everything it fetches with one time, so a batch has one stamp.
ASSUME BatchAssumption ==
  \A b \in Batches :
    /\ b \in Seq(Observation)
    /\ \A i, j \in 1..Len(b) : b[i].at = b[j].at

VARIABLES
  pool,          \* committed pool rows: last_seen of each pool, 0 if no row
  price_metric,  \* committed price rows
  chunks,        \* committed chunks of the price_metric hypertable
  tx,            \* each writer's open transaction
  sp,            \* what `ROLLBACK TO SAVEPOINT` restores tx to
  pc,            \* where each writer is
  batch,         \* the observations it was given
  pos,           \* the index of the one it is storing
  attempt,       \* the attempt it is on for that one
  result         \* the counters of its WriteResult

store == <<pool, price_metric, chunks>>
local == <<tx, sp, pc, batch, pos, attempt, result>>
vars == <<pool, price_metric, chunks, tx, sp, pc, batch, pos, attempt, result>>

Contract == INSTANCE StoreOnChange

Row == Contract!Row
Buckets == {"prices_written", "unchanged", "unknown_instance_type"}
Modes == {"none", "RowExclusive", "ShareRowExclusive"}

\* A transaction: the row and table locks it holds on `pool`, and the
\* last_seen values, price rows and chunks only it can see until it commits.
Tx == [locks : SUBSET Pools, mode : Modes, seen : [Pools -> Nat],
       rows : SUBSET Row, chunks : SUBSET Nat]
NoTx == [locks |-> {}, mode |-> "none", seen |-> [k \in Pools |-> 0],
         rows |-> {}, chunks |-> {}]

Active == {"lookup", "upsert", "row", "newest", "insert", "commit"}
Ended == {"committed", "failed"}

TypeOK ==
  /\ pool \in [Pools -> Nat]
  /\ price_metric \subseteq Row
  /\ chunks \subseteq Nat
  /\ tx \in [Writers -> Tx]
  /\ sp \in [Writers -> Tx]
  /\ pc \in [Writers -> {"idle"} \cup Active \cup Ended]
  /\ batch \in [Writers -> Seq(Observation)]
  /\ pos \in [Writers -> Nat \ {0}]
  /\ attempt \in [Writers -> 1..MaxAttempts]
  /\ result \in [Writers -> [Buckets -> Nat]]

--------------------------------------------------------------------------------
Obs(w) == batch[w][pos[w]]

ChunkOf(t) == t \div ChunkSpan

\* NUMERIC(12, 6) keeps six decimals, ties away from zero.  A price is counted
\* in tenths of the last decimal kept, so a multiple of ten is stored exactly.
StoredPrice(p) ==
  IF p >= 0 THEN ((p + 5) \div 10) * 10 ELSE -(((5 - p) \div 10) * 10)

Greatest(a, b) == IF a >= b THEN a ELSE b

\* READ COMMITTED: a statement sees what is committed and its own writes.
VisibleRows(w) == price_metric \cup tx[w].rows
VisibleSeen(w, k) == IF k \in tx[w].locks THEN tx[w].seen[k] ELSE pool[k]

NeedsChunk(w) ==
  /\ pc[w] = "insert"
  /\ ChunkOf(Obs(w).at) \notin chunks \cup tx[w].chunks

\* The writers w waits for: the pool upsert takes a RowExclusive lock on the
\* table and then the row; the first insert of a time range creates a chunk
\* under a ShareRowExclusive lock, because the chunk references `pool`.  A new
\* request for the table queues behind one that already waits for it.
Blockers(w) ==
  {v \in Writers \ {w} :
     \/ pc[w] = "upsert" /\ tx[v].mode = "ShareRowExclusive"
     \/ pc[w] = "upsert" /\ tx[w].mode = "none" /\ NeedsChunk(v)
     \/ pc[w] = "row" /\ Obs(w).pool \in tx[v].locks
     \/ NeedsChunk(w) /\ tx[v].mode # "none"}

\* w waits, through others, for itself: every set that holds those it waits
\* for, and is closed under waiting, holds w.
Deadlocked(w) ==
  \A S \in SUBSET Writers :
    (Blockers(w) \subseteq S /\ \A v \in S : Blockers(v) \subseteq S) => w \in S

Init ==
  /\ pool = [k \in Pools |-> 0]
  /\ price_metric = {}
  /\ chunks = {}
  /\ tx = [w \in Writers |-> NoTx]
  /\ sp = [w \in Writers |-> NoTx]
  /\ pc = [w \in Writers |-> "idle"]
  /\ batch = [w \in Writers |-> <<>>]
  /\ pos = [w \in Writers |-> 1]
  /\ attempt = [w \in Writers |-> 1]
  /\ result = [w \in Writers |-> [b \in Buckets |-> 0]]

--------------------------------------------------------------------------------
\* The next savepoint of w, or the return of store_prices after the last one.
NextStop(b, i) == IF i <= Len(b) THEN "lookup" ELSE "commit"

Begin(w) ==
  /\ pc[w] = "idle"
  /\ \E b \in Batches :
       /\ batch' = [batch EXCEPT ![w] = b]
       /\ pc' = [pc EXCEPT ![w] = NextStop(b, 1)]
  /\ UNCHANGED <<pool, price_metric, chunks, tx, sp, pos, attempt, result>>

\* _store_one returned `bucket`, leaving the transaction as `t`: the savepoint
\* is released, the outcome counted, and the next observation gets its own.
Outcome(w, bucket, t) ==
  /\ tx' = [tx EXCEPT ![w] = t]
  /\ sp' = [sp EXCEPT ![w] = t]
  /\ result' = [result EXCEPT ![w][bucket] = @ + 1]
  /\ pos' = [pos EXCEPT ![w] = @ + 1]
  /\ attempt' = [attempt EXCEPT ![w] = 1]
  /\ pc' = [pc EXCEPT ![w] = NextStop(batch[w], pos[w] + 1)]
  /\ UNCHANGED <<pool, price_metric, chunks, batch>>

\* An exception leaves store_prices: the caller closes its session, which rolls
\* the whole transaction back and frees every lock.
Raise(w) ==
  /\ tx' = [tx EXCEPT ![w] = NoTx]
  /\ sp' = [sp EXCEPT ![w] = NoTx]
  /\ pc' = [pc EXCEPT ![w] = "failed"]
  /\ UNCHANGED <<pool, price_metric, chunks, batch, pos, attempt, result>>

LookupCatalog(w) ==
  /\ pc[w] = "lookup"
  /\ IF Obs(w).pool \in Catalogued
       THEN /\ pc' = [pc EXCEPT ![w] = "upsert"]
            /\ UNCHANGED <<pool, price_metric, chunks, tx, sp, batch, pos, attempt, result>>
       ELSE Outcome(w, "unknown_instance_type", tx[w])

\* INSERT INTO pool ... ON CONFLICT DO UPDATE, first half: the table lock.
LockPoolTable(w) ==
  /\ pc[w] = "upsert"
  /\ Blockers(w) = {}
  /\ tx' = [tx EXCEPT ![w].mode = IF @ = "none" THEN "RowExclusive" ELSE @]
  /\ pc' = [pc EXCEPT ![w] = "row"]
  /\ UNCHANGED <<pool, price_metric, chunks, sp, batch, pos, attempt, result>>

\* Seeded fault: DO NOTHING in place of DO UPDATE neither locks an existing row
\* nor advances it.
UpsertPoolDoNothing(w) ==
  /\ pc[w] = "row"
  /\ Blockers(w) = {}
  /\ LET k == Obs(w).pool IN
       tx' = IF VisibleSeen(w, k) > 0 THEN tx
             ELSE [tx EXCEPT ![w].locks = @ \cup {k}, ![w].seen[k] = Obs(w).at]
  /\ pc' = [pc EXCEPT ![w] = "newest"]
  /\ UNCHANGED <<pool, price_metric, chunks, sp, batch, pos, attempt, result>>

\* Seeded fault: last_seen = EXCLUDED.last_seen, without GREATEST.
UpsertPoolOverwrites(w) ==
  /\ pc[w] = "row"
  /\ Blockers(w) = {}
  /\ LET k == Obs(w).pool IN
       tx' = [tx EXCEPT ![w].locks = @ \cup {k}, ![w].seen[k] = Obs(w).at]
  /\ pc' = [pc EXCEPT ![w] = "newest"]
  /\ UNCHANGED <<pool, price_metric, chunks, sp, batch, pos, attempt, result>>

\* Second half: the row, new or not, is locked and its last_seen advanced.
UpsertPool(w) ==
  /\ pc[w] = "row"
  /\ Blockers(w) = {}
  /\ LET k == Obs(w).pool IN
       tx' = [tx EXCEPT ![w].locks = @ \cup {k},
                        ![w].seen[k] = Greatest(VisibleSeen(w, k), Obs(w).at)]
  /\ pc' = [pc EXCEPT ![w] = "newest"]
  /\ UNCHANGED <<pool, price_metric, chunks, sp, batch, pos, attempt, result>>

\* Seeded fault: ORDER BY observed_at without DESC compares the oldest price.
SamePriceOldest(w) ==
  \E r \in VisibleRows(w) :
    /\ r.pool = Obs(w).pool
    /\ \A s \in VisibleRows(w) : s.pool = r.pool => r.at <= s.at
    /\ r.price = Obs(w).price

\* The newest stored price is this one.  It is compared as it was observed.
SamePrice(w) ==
  \E r \in VisibleRows(w) :
    /\ r.pool = Obs(w).pool
    /\ Contract!IsNewest(r, VisibleRows(w))
    /\ r.price = Obs(w).price

CompareNewest(w) ==
  /\ pc[w] = "newest"
  /\ IF SamePrice(w)
       THEN Outcome(w, "unchanged", tx[w])
       ELSE /\ pc' = [pc EXCEPT ![w] = "insert"]
            /\ UNCHANGED <<pool, price_metric, chunks, tx, sp, batch, pos, attempt, result>>

\* The insert is the first of its time range: Timescale creates the chunk.
CreateChunk(w) ==
  /\ NeedsChunk(w)
  /\ Blockers(w) = {}
  /\ tx' = [tx EXCEPT ![w].mode = "ShareRowExclusive",
                      ![w].chunks = @ \cup {ChunkOf(Obs(w).at)}]
  /\ UNCHANGED <<pool, price_metric, chunks, sp, pc, batch, pos, attempt, result>>

NewRow(w) ==
  [pool |-> Obs(w).pool, at |-> Obs(w).at,
   price |-> StoredPrice(Obs(w).price), source |-> Obs(w).source]

\* Seeded fault: the insert is counted whether or not RETURNING gave a row.
InsertPriceCountsIntent(w) ==
  /\ pc[w] = "insert"
  /\ ~NeedsChunk(w)
  /\ StoredPrice(Obs(w).price) >= 0
  /\ Outcome(w, "prices_written",
             IF Contract!FreshKey(NewRow(w), VisibleRows(w))
               THEN [tx[w] EXCEPT !.rows = @ \cup {NewRow(w)}] ELSE tx[w])

\* INSERT INTO price_metric ... ON CONFLICT DO NOTHING RETURNING pool_id.
InsertPrice(w) ==
  /\ pc[w] = "insert"
  /\ ~NeedsChunk(w)
  /\ StoredPrice(Obs(w).price) >= 0
  /\ IF Contract!FreshKey(NewRow(w), VisibleRows(w))
       THEN Outcome(w, "prices_written", [tx[w] EXCEPT !.rows = @ \cup {NewRow(w)}])
       ELSE Outcome(w, "unchanged", tx[w])

\* ck_price_metric_non_negative: an error no retry is made for.
RefusePrice(w) ==
  /\ pc[w] = "insert"
  /\ ~NeedsChunk(w)
  /\ StoredPrice(Obs(w).price) < 0
  /\ Raise(w)

\* Seeded fault: the deadlock rolls back the transaction, not the savepoint.
DeadlockVictimRollsBackAll(w) ==
  /\ Deadlocked(w)
  /\ IF attempt[w] < MaxAttempts
       THEN /\ tx' = [tx EXCEPT ![w] = NoTx]
            /\ sp' = [sp EXCEPT ![w] = NoTx]
            /\ attempt' = [attempt EXCEPT ![w] = @ + 1]
            /\ pc' = [pc EXCEPT ![w] = "lookup"]
            /\ UNCHANGED <<pool, price_metric, chunks, batch, pos, result>>
       ELSE Raise(w)

\* Seeded fault: one attempt too many.
DeadlockVictimOneMore(w) ==
  /\ Deadlocked(w)
  /\ IF attempt[w] <= MaxAttempts
       THEN /\ tx' = [tx EXCEPT ![w] = sp[w]]
            /\ attempt' = [attempt EXCEPT ![w] = @ + 1]
            /\ pc' = [pc EXCEPT ![w] = "lookup"]
            /\ UNCHANGED <<pool, price_metric, chunks, sp, batch, pos, result>>
       ELSE Raise(w)

\* Seeded fault: retried until it succeeds.
DeadlockVictimNoLimit(w) ==
  /\ Deadlocked(w)
  /\ tx' = [tx EXCEPT ![w] = sp[w]]
  /\ pc' = [pc EXCEPT ![w] = "lookup"]
  /\ UNCHANGED <<pool, price_metric, chunks, sp, batch, pos, attempt, result>>

\* Postgres picks w as the victim of a deadlock.  The savepoint is rolled back,
\* and with it only the locks taken since; the last attempt re-raises.
DeadlockVictim(w) ==
  /\ Deadlocked(w)
  /\ IF attempt[w] < MaxAttempts
       THEN /\ tx' = [tx EXCEPT ![w] = sp[w]]
            /\ attempt' = [attempt EXCEPT ![w] = @ + 1]
            /\ pc' = [pc EXCEPT ![w] = "lookup"]
            /\ UNCHANGED <<pool, price_metric, chunks, sp, batch, pos, result>>
       ELSE Raise(w)

\* The invocation is killed or its connection lost, at any point before COMMIT.
Abort(w) ==
  /\ pc[w] \in Active
  /\ Raise(w)

\* WriteResult.__post_init__: a result whose buckets do not add up is refused.
Total(counts) ==
  counts["prices_written"] + counts["unchanged"] + counts["unknown_instance_type"]

Accounted(w) == Total(result[w]) = Len(batch[w])

\* store_prices has returned and the caller commits.
Commit(w) ==
  /\ pc[w] = "commit"
  /\ Accounted(w)
  /\ pool' = [k \in Pools |-> VisibleSeen(w, k)]
  /\ price_metric' = VisibleRows(w)
  /\ chunks' = chunks \cup tx[w].chunks
  /\ tx' = [tx EXCEPT ![w] = NoTx]
  /\ sp' = [sp EXCEPT ![w] = NoTx]
  /\ pc' = [pc EXCEPT ![w] = "committed"]
  /\ UNCHANGED <<batch, pos, attempt, result>>

\* Every tick has ended; nothing more happens.
AllEnded ==
  /\ \A w \in Writers : pc[w] \in Ended
  /\ UNCHANGED vars

Statement(w) ==
  \/ Begin(w)
  \/ LookupCatalog(w)
  \/ LockPoolTable(w)
  \/ UpsertPool(w)
  \/ CompareNewest(w)
  \/ CreateChunk(w)
  \/ InsertPrice(w)
  \/ RefusePrice(w)
  \/ Commit(w)

Next ==
  \/ \E w \in Writers : Statement(w) \/ DeadlockVictim(w) \/ Abort(w)
  \/ AllEnded

Spec == Init /\ [][Next]_vars

\* A running tick issues its next statement as soon as nothing blocks it, and
\* Postgres breaks every deadlock (deadlock_timeout), choosing any participant.
Fairness ==
  /\ \A w \in Writers : WF_vars(Statement(w))
  /\ WF_vars(\E w \in Writers : DeadlockVictim(w))

FairSpec == Spec /\ Fairness

--------------------------------------------------------------------------------
(***************************************************************************)
(* Properties.                                                             *)
(***************************************************************************)

\* Every price a provider sends is one the column can hold.
RepresentablePrices ==
  \A b \in Batches : \A i \in 1..Len(b) : StoredPrice(b[i].price) = b[i].price

\* What reaches the database keeps the store-on-change contract, however the
\* writers interleave, deadlock, retry or die (writer.py, module docstring).
Implements == Contract!Spec

\* A tick commits exactly the rows it reports: prices_written is what RETURNING
\* produced, net of the attempts a savepoint rolled back ("the count is honest").
CommitAddsWhatItReports ==
  [][\A w \in Writers :
       Commit(w) => Cardinality(price_metric' \ price_metric)
                      = result[w]["prices_written"]]_vars

\* The stamps at which committed ticks observed pool k.
ObservedAt(k) ==
  UNION {{batch[w][i].at : i \in {j \in 1..Len(batch[w]) : batch[w][j].pool = k}} :
           w \in {v \in Writers : pc[v] = "committed"}}

\* last_seen is the latest stamp at which a committed tick observed the pool: it
\* is stale only when ingestion stopped, and an aborted tick leaves no trace.
LastSeenIsLatest ==
  \A k \in Pools :
    LET stamps == {0} \cup IF k \in Catalogued THEN ObservedAt(k) ELSE {}
    IN  pool[k] \in stamps /\ \A t \in stamps : t <= pool[k]

\* The newest of `rows` for the pool of o holds the price of o.
ShowsPrice(o, rows) ==
  \E r \in rows : /\ r.pool = o.pool
                  /\ r.price = o.price
                  /\ Contract!IsNewest(r, rows)

\* b[i] is the only observation of its pool in b, and a price the column holds.
Unambiguous(b, i) ==
  /\ b[i].pool \in Catalogued
  /\ StoredPrice(b[i].price) = b[i].price
  /\ \A j \in 1..Len(b) : b[j].pool = b[i].pool => j = i

\* When a tick that is not late commits, the newest row of every pool it saw
\* holds the price it saw: no writer that got in between can hide it, and no
\* "unchanged" was decided against a row that is no longer the newest.
CommitRecordsLatestPrice ==
  [][\A w \in Writers :
       Commit(w) => \A i \in 1..Len(batch[w]) :
         (Unambiguous(batch[w], i) /\ batch[w][i].at > pool[batch[w][i].pool])
           => ShowsPrice(batch[w][i], price_metric')]_vars

\* The price of o has digits the column does not keep.
Finer(o) == StoredPrice(o.price) # o.price

\* "A price row exists only where the price actually moved" (writer.py): a commit adds a
\* row that repeats its pool's newest price only for a finer price, which is compared
\* with all its digits and never equals its own stored value.
OnlyFinerPricesRepeat ==
  [][\A w \in Writers :
       Commit(w) => \A r \in price_metric' \ price_metric :
         Contract!Moved(r, price_metric)
           \/ \E i \in 1..Len(batch[w]) : batch[w][i].pool = r.pool /\ Finer(batch[w][i])]_vars

\* Every tick ends: no wait is for ever, and no retry is either.
EveryTickEnds == <>(\A w \in Writers : pc[w] \in Ended)

\* "So a deadlock can be retried without discarding the whole tick" (writer.py,
\* the comment on the SAVEPOINT in store_prices): a tick with work behind it is
\* not given up because of a deadlock.
DeadlockKeepsTick ==
  [][\A w \in Writers : (DeadlockVictim(w) /\ pos[w] > 1) => pc'[w] # "failed"]_vars

--------------------------------------------------------------------------------
(***************************************************************************)
(* The inductive invariant.  While a writer holds a pool row nobody else   *)
(* can change what is committed for that pool, so what the writer read of  *)
(* it is still true when it commits.                                       *)
(***************************************************************************)
SavepointBehind ==
  \A w \in Writers : sp[w].locks \subseteq tx[w].locks /\ sp[w].rows = tx[w].rows

LocksExclusive ==
  \A v, w \in Writers : v # w => tx[v].locks \cap tx[w].locks = {}

\* A transaction t of writer w has only rows of pools it locked, one to a pool,
\* under fresh keys, with the stamp of its batch.
GoodTx(w, t) ==
  /\ \A k \in t.locks : pool[k] <= t.seen[k]
  /\ IsFiniteSet(t.rows)
  /\ \A r \in t.rows :
       /\ r.pool \in t.locks
       /\ r.at <= t.seen[r.pool]
       /\ Contract!FreshKey(r, price_metric)
       /\ \A i \in 1..Len(batch[w]) : batch[w][i].at = r.at
       /\ \A s \in t.rows : s.pool = r.pool => s = r

GoodTxs == \A w \in Writers : GoodTx(w, tx[w]) /\ GoodTx(w, sp[w])

\* Past the upsert the current pool is locked and last_seen has caught up.
HoldsPool ==
  \A w \in Writers :
    pc[w] \in {"newest", "insert"} =>
      Obs(w).pool \in tx[w].locks /\ Obs(w).at <= tx[w].seen[Obs(w).pool]

\* What was compared stays true: nobody else adds a row to the locked pool.
StillDiffers == \A w \in Writers : pc[w] = "insert" => ~SamePrice(w)

\* Rows of the open transaction differ from the newest committed price.
RowsMoved ==
  \A w \in Writers : \A r \in tx[w].rows : Contract!Moved(r, price_metric)

\* The counters describe the observations done so far.
CountsAddUp ==
  \A w \in Writers :
    pc[w] \in Active =>
      /\ Cardinality(tx[w].rows) = result[w]["prices_written"]
      /\ pos[w] = Total(result[w]) + 1

\* A writer is at the start of its batch, inside it, or past its end.
InBatch ==
  \A w \in Writers :
    /\ batch[w] \in Batches \cup {<<>>}
    /\ pc[w] = "idle" => pos[w] = 1
    /\ pc[w] \in Active \ {"commit"} => pos[w] \in 1..Len(batch[w])
    /\ pc[w] = "commit" => pos[w] = Len(batch[w]) + 1

\* A row of the open transaction comes from an observation already done.
RowsAreObserved ==
  \A w \in Writers : \A r \in tx[w].rows :
    \E j \in 1..pos[w] - 1 : j <= Len(batch[w]) /\ batch[w][j].pool = r.pool

\* What is done is locked, by the savepoint even, and its price is the newest,
\* unless a later tick had committed before.
LatestIsKept ==
  \A w \in Writers :
    pc[w] \in Active =>
      \A i \in 1..Len(batch[w]) :
        (i < pos[w] /\ Unambiguous(batch[w], i)) =>
          /\ batch[w][i].pool \in sp[w].locks
          /\ batch[w][i].at > pool[batch[w][i].pool] => ShowsPrice(batch[w][i], VisibleRows(w))

RowsAreSeen == \A r \in price_metric : r.at <= pool[r.pool]

FreshWriters ==
  \A w \in Writers :
    pc[w] = "idle" => /\ tx[w] = NoTx
                      /\ result[w] = [b \in Buckets |-> 0]

IInv ==
  /\ TypeOK
  /\ SavepointBehind
  /\ LocksExclusive
  /\ GoodTxs
  /\ HoldsPool
  /\ StillDiffers
  /\ CountsAddUp
  /\ InBatch
  /\ RowsAreSeen
  /\ FreshWriters
  /\ RowsAreObserved
  /\ LatestIsKept
================================================================================
