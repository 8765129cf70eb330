----------------------------- MODULE LastSeenProofs -----------------------------
(***************************************************************************)
(* Proofs about StoreWriter, continued: what last_seen of a pool says.     *)
(***************************************************************************)
EXTENDS StoreWriterProofs

\* The batch of w has an observation of pool k with stamp t.
Stamped(w, k, t) == \E i \in 1..Len(batch[w]) : batch[w][i].pool = k /\ batch[w][i].at = t

\* Transaction t of w moved last_seen of no pool but catalogued ones, and to none but
\* its own stamp.
SeenIsStamp(w, t) ==
  \A k \in t.locks :
    k \in Catalogued /\ (t.seen[k] = pool[k] \/ Stamped(w, k, t.seen[k]))

\* It has seen what is before the n-th observation.
DoneIsSeen(w, t, n) ==
  \A i \in 1..Len(batch[w]) :
    (i < n /\ batch[w][i].pool \in Catalogued) =>
      batch[w][i].pool \in t.locks /\ batch[w][i].at <= t.seen[batch[w][i].pool]

\* A rollback to the savepoint forgets none of it.
SeenKept ==
  \A w \in Writers :
    /\ SeenIsStamp(w, tx[w]) /\ SeenIsStamp(w, sp[w])
    /\ pc[w] \in Active => DoneIsSeen(w, tx[w], pos[w]) /\ DoneIsSeen(w, sp[w], pos[w])

\* Only an observation of a catalogued size gets as far as the pool.
KnownPool ==
  \A w \in Writers :
    pc[w] \in {"upsert", "row", "newest", "insert"} => Obs(w).pool \in Catalogued

SeenInv == Inv /\ KnownPool /\ SeenKept

--------------------------------------------------------------------------------
(***************************************************************************)
(* The invariant, statement by statement.                                  *)
(***************************************************************************)
LEMMA KnownPoolStep ==
  ASSUME Inv, KnownPool, [Next]_vars
  PROVE  KnownPool'
<1> SUFFICES ASSUME NEW v \in Writers, pc'[v] \in {"upsert", "row", "newest", "insert"}
             PROVE  Obs(v)'.pool \in Catalogued
  BY DEF KnownPool
<1> USE DEF Inv, Core, Placed, TypeOK
<1>1. CASE UNCHANGED vars \/ AllEnded
  BY <1>1 DEF KnownPool, vars, AllEnded, Obs
<1>2. ASSUME NEW w \in Writers, Statement(w) \/ DeadlockVictim(w) \/ Abort(w)
      PROVE  Obs(v)'.pool \in Catalogued
  <2>1. CASE v # w
    <3>1. pc'[v] = pc[v] /\ batch'[v] = batch[v] /\ pos'[v] = pos[v]
      BY <1>2, <2>1
      DEF Statement, Begin, LookupCatalog, LockPoolTable, UpsertPool, CompareNewest,
          CreateChunk, InsertPrice, RefusePrice, DeadlockVictim, Abort, Commit, Outcome, Raise
    <3> QED BY <3>1 DEF KnownPool, Obs
  <2>2. CASE v = w
    <3>1. LookupCatalog(w) \/ LockPoolTable(w) \/ UpsertPool(w) \/ CompareNewest(w)
            \/ CreateChunk(w)
      BY <1>2, <2>2
      DEF Statement, Begin, InsertPrice, RefusePrice, DeadlockVictim, Abort, Commit,
          Outcome, Raise, NextStop
    <3>2. CASE LookupCatalog(w)
      BY <2>2, <3>2 DEF LookupCatalog, Outcome, NextStop, Obs
    <3>3. CASE CompareNewest(w)
      BY <2>2, <3>3 DEF CompareNewest, Outcome, NextStop, KnownPool, Obs
    <3>4. CASE LockPoolTable(w) \/ UpsertPool(w) \/ CreateChunk(w)
      BY <2>2, <3>4 DEF LockPoolTable, UpsertPool, CreateChunk, NeedsChunk, KnownPool, Obs
    <3> QED BY <3>1, <3>2, <3>3, <3>4
  <2> QED BY <2>1, <2>2
<1> QED BY <1>1, <1>2 DEF Next

\* What SeenIsStamp and DoneIsSeen say depends on the locks and on what was seen.
LEMMA SeenFields ==
  ASSUME NEW w, NEW t, NEW u, u.locks = t.locks, u.seen = t.seen, NEW n
  PROVE  /\ SeenIsStamp(w, t) => SeenIsStamp(w, u)
         /\ DoneIsSeen(w, t, n) => DoneIsSeen(w, u, n)
BY DEF SeenIsStamp, DoneIsSeen

\* A writer keeps what it has seen while it and its pools are left alone.
LEMMA SeenFrame ==
  ASSUME SeenInv, NEW v \in Writers, tx'[v] = tx[v], sp'[v] = sp[v],
         batch'[v] = batch[v], pos'[v] = pos[v], pc'[v] = pc[v],
         \A k \in tx[v].locks : pool'[k] = pool[k]
  PROVE  /\ SeenIsStamp(v, tx[v])' /\ SeenIsStamp(v, sp[v])'
         /\ pc[v]' \in Active =>
              DoneIsSeen(v, tx[v], pos[v])' /\ DoneIsSeen(v, sp[v], pos[v])'
<1>1. sp[v].locks \subseteq tx[v].locks
  BY DEF SeenInv, Inv, Core, SavepointBehind
<1>2. SeenIsStamp(v, tx[v]) /\ SeenIsStamp(v, sp[v])
  BY DEF SeenInv, SeenKept
<1>3. \A k \in tx[v].locks :
        k \in Catalogued /\ (tx[v].seen[k] = pool'[k] \/ Stamped(v, k, tx[v].seen[k]))
  BY <1>2 DEF SeenIsStamp
<1>4. \A k \in sp[v].locks :
        k \in Catalogued /\ (sp[v].seen[k] = pool'[k] \/ Stamped(v, k, sp[v].seen[k]))
  BY <1>1, <1>2 DEF SeenIsStamp
<1>5. SeenIsStamp(v, tx[v])'
  BY <1>3 DEF SeenIsStamp, Stamped
<1>6. SeenIsStamp(v, sp[v])'
  BY <1>4 DEF SeenIsStamp, Stamped
<1>7. pc[v]' \in Active => DoneIsSeen(v, tx[v], pos[v])' /\ DoneIsSeen(v, sp[v], pos[v])'
  BY DEF SeenInv, SeenKept, DoneIsSeen
<1> QED BY <1>5, <1>6, <1>7

\* A step of w that commits nothing changes only what w has seen.
LEMMA SeenStep ==
  ASSUME SeenInv, NEW w \in Writers, NEW t, NEW u,
         tx' = [tx EXCEPT ![w] = t], sp' = [sp EXCEPT ![w] = u],
         UNCHANGED <<pool, batch>>,
         \A v \in Writers \ {w} : pc'[v] = pc[v] /\ pos'[v] = pos[v],
         SeenIsStamp(w, t), SeenIsStamp(w, u),
         pc'[w] \in Active => DoneIsSeen(w, t, pos'[w]) /\ DoneIsSeen(w, u, pos'[w])
  PROVE  SeenKept'
<1>1. /\ tx'[w] = t /\ sp'[w] = u
      /\ \A v \in Writers \ {w} : tx'[v] = tx[v] /\ sp'[v] = sp[v]
  BY DEF SeenInv, Inv, Core, Placed, TypeOK
<1>2. /\ SeenIsStamp(w, tx[w])' /\ SeenIsStamp(w, sp[w])'
      /\ pc[w]' \in Active =>
           DoneIsSeen(w, tx[w], pos[w])' /\ DoneIsSeen(w, sp[w], pos[w])'
  BY <1>1 DEF SeenIsStamp, DoneIsSeen, Stamped
<1>3. \A v \in Writers \ {w} :
        /\ SeenIsStamp(v, tx[v])' /\ SeenIsStamp(v, sp[v])'
        /\ pc[v]' \in Active =>
             DoneIsSeen(v, tx[v], pos[v])' /\ DoneIsSeen(v, sp[v], pos[v])'
  BY <1>1, SeenFrame
<1> QED BY <1>2, <1>3 DEF SeenKept

LEMMA SeenBegin ==
  ASSUME SeenInv, NEW w \in Writers, Begin(w)
  PROVE  SeenKept'
<1> USE DEF SeenInv, Inv, Core, Placed, TypeOK
<1>1. /\ tx[w].locks = {} /\ sp[w].locks = {} /\ pos[w] = 1
      /\ tx' = tx /\ sp' = sp /\ pos' = pos /\ pool' = pool
  BY DEF Begin, FreshWriters, SavepointBehind, NoTx, InBatch
<1>2. \A v \in Writers \ {w} : pc'[v] = pc[v] /\ batch'[v] = batch[v]
  BY DEF Begin
<1>3. /\ SeenIsStamp(w, tx[w])' /\ SeenIsStamp(w, sp[w])'
      /\ DoneIsSeen(w, tx[w], pos[w])' /\ DoneIsSeen(w, sp[w], pos[w])'
  BY <1>1 DEF SeenIsStamp, DoneIsSeen
<1>4. ASSUME NEW v \in Writers \ {w}
      PROVE  /\ SeenIsStamp(v, tx[v])' /\ SeenIsStamp(v, sp[v])'
             /\ pc[v]' \in Active =>
                  DoneIsSeen(v, tx[v], pos[v])' /\ DoneIsSeen(v, sp[v], pos[v])'
  BY <1>1, <1>2, SeenFrame
<1> QED BY <1>3, <1>4 DEF SeenKept

\* An exception leaves nothing behind, and no observation to be done.
LEMMA SeenRaise ==
  ASSUME SeenInv, NEW w \in Writers, Raise(w)
  PROVE  SeenKept'
<1>1. SeenIsStamp(w, NoTx)
  BY DEF SeenIsStamp, NoTx
<1>2. pc'[w] \notin Active /\ \A v \in Writers \ {w} : pc'[v] = pc[v] /\ pos'[v] = pos[v]
  BY DEF Raise, Active, SeenInv, Inv, Core, Placed, TypeOK
<1> QED BY <1>1, <1>2, SeenStep DEF Raise

\* An observation is done: its pool was not catalogued, or is locked and has seen it.
LEMMA SeenOutcome ==
  ASSUME SeenInv, NEW w \in Writers, pc[w] \in Storing, NEW bucket, NEW t,
         Outcome(w, bucket, t), t.locks = tx[w].locks, t.seen = tx[w].seen,
         Obs(w).pool \in Catalogued =>
           Obs(w).pool \in tx[w].locks /\ Obs(w).at <= tx[w].seen[Obs(w).pool]
  PROVE  SeenKept'
<1> USE DEF SeenInv, Inv, Core, Placed, TypeOK
<1>1. SeenIsStamp(w, t) /\ DoneIsSeen(w, t, pos[w])
  BY SeenFields DEF SeenKept, Storing
<1>2. DoneIsSeen(w, t, pos[w] + 1)
  <2>1. pos[w] \in Nat
    OBVIOUS
  <2>2. \A i \in 1..Len(batch[w]) : i < pos[w] + 1 => i < pos[w] \/ i = pos[w]
    BY <2>1
  <2> QED BY <1>1, <2>2 DEF DoneIsSeen, Obs
<1>3. /\ pos'[w] = pos[w] + 1
      /\ \A v \in Writers \ {w} : pc'[v] = pc[v] /\ pos'[v] = pos[v]
      /\ tx' = [tx EXCEPT ![w] = t] /\ sp' = [sp EXCEPT ![w] = t]
      /\ UNCHANGED <<pool, batch>>
  BY DEF Outcome
<1> QED BY <1>1, <1>2, <1>3, SeenStep

\* The upsert moves last_seen of its pool to the stamp of the batch, or not at all.
LEMMA SeenUpsert ==
  ASSUME SeenInv, NEW w \in Writers, UpsertPool(w)
  PROVE  SeenKept'
<1> DEFINE k == Obs(w).pool
           n == Greatest(VisibleSeen(w, k), Obs(w).at)
           t == [tx[w] EXCEPT !.locks = @ \cup {k}, !.seen[k] = n]
<1>0. tx' = [tx EXCEPT ![w] = t]
  BY DEF UpsertPool
<1> USE DEF SeenInv, Inv, Core, Placed, TypeOK
<1>1. /\ sp' = [sp EXCEPT ![w] = sp[w]]
      /\ UNCHANGED <<pool, batch>> /\ pos' = pos
      /\ pc[w] = "row" /\ \A v \in Writers \ {w} : pc'[v] = pc[v]
  BY DEF UpsertPool
<1>2. k \in Pools /\ k \in Catalogued /\ Obs(w).at \in Nat /\ pos[w] \in 1..Len(batch[w])
  BY <1>1, ObsType DEF Storing, Active, Observation, KnownPool, InBatch
<1>3. /\ t.locks = tx[w].locks \cup {k}
      /\ t.seen[k] = n
      /\ \A l \in Pools \ {k} : t.seen[l] = tx[w].seen[l]
      /\ tx[w].locks \subseteq Pools
  BY <1>2 DEF Tx
<1>4. /\ SeenIsStamp(w, tx[w]) /\ SeenIsStamp(w, sp[w])
      /\ DoneIsSeen(w, tx[w], pos[w]) /\ DoneIsSeen(w, sp[w], pos[w])
  BY <1>1 DEF SeenKept, Active
<1>5. /\ n \in Nat
      /\ k \in tx[w].locks => tx[w].seen[k] <= n /\ tx[w].seen[k] \in Nat
      /\ n = Obs(w).at \/ n = pool[k] \/ (k \in tx[w].locks /\ n = tx[w].seen[k])
  BY <1>2 DEF Greatest, VisibleSeen, Tx
<1>6. SeenIsStamp(w, t)
  <2>1. Stamped(w, k, Obs(w).at)
    BY <1>2 DEF Stamped, Obs
  <2> HIDE DEF n, t
  <2>2. n = pool[k] \/ Stamped(w, k, n)
    BY <1>4, <1>5, <2>1 DEF SeenIsStamp
  <2> QED BY <1>2, <1>3, <1>4, <2>2 DEF SeenIsStamp
<1>7. DoneIsSeen(w, t, pos[w])
  <2> HIDE DEF n, t
  <2> SUFFICES ASSUME NEW i \in 1..Len(batch[w]), i < pos[w], batch[w][i].pool \in Catalogued
               PROVE  batch[w][i].pool \in t.locks /\ batch[w][i].at <= t.seen[batch[w][i].pool]
    BY DEF DoneIsSeen
  <2>1. batch[w][i].pool \in tx[w].locks /\ batch[w][i].at <= tx[w].seen[batch[w][i].pool]
    BY <1>4 DEF DoneIsSeen
  <2>2. batch[w][i].at \in Nat
    <3>1. batch[w] \in Seq(Observation)
      OBVIOUS
    <3>2. batch[w][i] \in Observation
      BY <3>1
    <3> QED BY <3>2 DEF Observation
  <2>3. CASE batch[w][i].pool = k
    BY <1>3, <1>5, <2>1, <2>2, <2>3
  <2>4. CASE batch[w][i].pool # k
    BY <1>3, <2>1, <2>4
  <2> QED BY <2>3, <2>4
<1> HIDE DEF n, t
<1> QED BY <1>0, <1>1, <1>4, <1>6, <1>7, SeenStep

\* A commit moves last_seen of the pools it locked, which nobody else has locked.
LEMMA SeenCommit ==
  ASSUME SeenInv, NEW w \in Writers, Commit(w)
  PROVE  SeenKept'
<1> USE DEF SeenInv, Inv, Core, Placed, TypeOK
<1>1. /\ tx'[w] = NoTx /\ sp'[w] = NoTx /\ pc'[w] \notin Active /\ batch' = batch /\ pos' = pos
      /\ \A v \in Writers \ {w} : tx'[v] = tx[v] /\ sp'[v] = sp[v] /\ pc'[v] = pc[v]
  BY DEF Commit, Active
<1>2. SeenIsStamp(w, tx[w])' /\ SeenIsStamp(w, sp[w])'
  BY <1>1 DEF SeenIsStamp, NoTx
<1>3. ASSUME NEW v \in Writers \ {w}
      PROVE  /\ SeenIsStamp(v, tx[v])' /\ SeenIsStamp(v, sp[v])'
             /\ pc[v]' \in Active =>
                  DoneIsSeen(v, tx[v], pos[v])' /\ DoneIsSeen(v, sp[v], pos[v])'
  <2>1. /\ tx[v].locks \cap tx[w].locks = {} /\ tx[v].locks \subseteq Pools
    BY DEF LocksExclusive, Tx
  <2>2. \A k \in tx[v].locks : pool'[k] = pool[k]
    BY <2>1 DEF Commit, VisibleSeen
  <2> QED BY <1>1, <2>2, SeenFrame
<1> QED BY <1>1, <1>2, <1>3 DEF SeenKept

LEMMA SeenKeptStep ==
  ASSUME SeenInv, [Next]_vars
  PROVE  SeenKept'
<1> USE DEF SeenInv, Inv, Core, Placed, TypeOK
<1>1. CASE UNCHANGED vars \/ AllEnded
  BY <1>1, SeenFrame DEF SeenKept, vars, AllEnded
<1>2. ASSUME NEW w \in Writers, Statement(w) \/ DeadlockVictim(w) \/ Abort(w)
      PROVE  SeenKept'
  <2>1. CASE LookupCatalog(w)
    <3>1. CASE Obs(w).pool \in Catalogued
      <4>1. /\ UNCHANGED <<pool, tx, sp, batch, pos>> /\ pc[w] = "lookup"
            /\ pc' = [pc EXCEPT ![w] = "upsert"]
        BY <2>1, <3>1 DEF LookupCatalog
      <4>2. /\ tx' = [tx EXCEPT ![w] = tx[w]] /\ sp' = [sp EXCEPT ![w] = sp[w]]
            /\ \A v \in Writers \ {w} : pc'[v] = pc[v] /\ pos'[v] = pos[v]
        BY <4>1
      <4> QED BY <4>1, <4>2, SeenStep DEF SeenKept, Active
    <3>2. CASE Obs(w).pool \notin Catalogued
      BY <2>1, <3>2, SeenOutcome DEF LookupCatalog, Storing, Active
    <3> QED BY <3>1, <3>2
  <2>2. CASE LockPoolTable(w) \/ CreateChunk(w)
    <3>1. /\ UNCHANGED <<pool, sp, batch, pos>> /\ pc[w] \in Active
          /\ \A v \in Writers \ {w} : pc'[v] = pc[v]
          /\ \A v \in Writers \ {w} : tx'[v] = tx[v]
          /\ tx'[w].locks = tx[w].locks /\ tx'[w].seen = tx[w].seen
      BY <2>2 DEF LockPoolTable, CreateChunk, NeedsChunk, Active, Tx
    <3>2. tx' \in [Writers -> Tx]
      BY <2>2, LockPoolTablePlaced, CreateChunkPlaced
    <3>3. tx' = [tx EXCEPT ![w] = tx'[w]] /\ sp' = [sp EXCEPT ![w] = sp[w]]
      BY <3>1, <3>2
    <3>4. /\ SeenIsStamp(w, tx'[w]) /\ DoneIsSeen(w, tx'[w], pos[w])
          /\ SeenIsStamp(w, sp[w]) /\ DoneIsSeen(w, sp[w], pos[w])
      BY <3>1, SeenFields DEF SeenKept
    <3> QED BY <3>1, <3>3, <3>4, SeenStep
  <2>3. CASE UpsertPool(w)
    BY <2>3, SeenUpsert
  <2>4. ASSUME Obs(w).pool \in tx[w].locks, Obs(w).at <= tx[w].seen[Obs(w).pool],
               pc[w] \in Storing,
               NEW bucket, NEW t, Outcome(w, bucket, t),
               t.locks = tx[w].locks, t.seen = tx[w].seen
        PROVE  SeenKept'
    BY <2>4, SeenOutcome
  <2>5. CASE CompareNewest(w)
    <3>1. CASE SamePrice(w)
      <4>1. /\ Outcome(w, "unchanged", tx[w]) /\ pc[w] \in Storing
            /\ Obs(w).pool \in tx[w].locks /\ Obs(w).at <= tx[w].seen[Obs(w).pool]
        BY <2>5, <3>1 DEF CompareNewest, Storing, Active, HoldsPool
      <4> QED BY <2>4, <4>1
    <3>2. CASE ~SamePrice(w)
      <4>1. /\ UNCHANGED <<pool, tx, sp, batch, pos>> /\ pc[w] = "newest"
            /\ pc' = [pc EXCEPT ![w] = "insert"]
        BY <2>5, <3>2 DEF CompareNewest
      <4>2. /\ tx' = [tx EXCEPT ![w] = tx[w]] /\ sp' = [sp EXCEPT ![w] = sp[w]]
            /\ \A v \in Writers \ {w} : pc'[v] = pc[v] /\ pos'[v] = pos[v]
        BY <4>1
      <4> QED BY <4>1, <4>2, SeenStep DEF SeenKept, Active
    <3> QED BY <3>1, <3>2
  <2>6. CASE InsertPrice(w)
    <3> DEFINE t == [tx[w] EXCEPT !.rows = @ \cup {NewRow(w)}]
    <3>1. t.locks = tx[w].locks /\ t.seen = tx[w].seen
      BY DEF Tx
    <3>2. /\ pc[w] \in Storing
          /\ Obs(w).pool \in tx[w].locks /\ Obs(w).at <= tx[w].seen[Obs(w).pool]
      BY <2>6 DEF InsertPrice, Storing, Active, HoldsPool
    <3>3. Outcome(w, "prices_written", t) \/ Outcome(w, "unchanged", tx[w])
      BY <2>6 DEF InsertPrice
    <3> HIDE DEF t
    <3> QED BY <2>4, <3>1, <3>2, <3>3
  <2>7. CASE RefusePrice(w) \/ Abort(w)
    BY <2>7, SeenRaise DEF RefusePrice, Abort
  <2>8. CASE DeadlockVictim(w)
    <3>1. CASE attempt[w] < MaxAttempts
      <4>1. pc[w] \in Active
        <5>1. Blockers(w) # {}
          BY <2>8 DEF DeadlockVictim, Deadlocked
        <5> QED BY <5>1 DEF Blockers, NeedsChunk, Active
      <4>2. /\ tx' = [tx EXCEPT ![w] = sp[w]] /\ sp' = [sp EXCEPT ![w] = sp[w]]
            /\ UNCHANGED <<pool, batch, pos>>
            /\ \A v \in Writers \ {w} : pc'[v] = pc[v]
        BY <2>8, <3>1 DEF DeadlockVictim
      <4> QED BY <4>1, <4>2, SeenStep DEF SeenKept
    <3>2. CASE ~(attempt[w] < MaxAttempts)
      BY <2>8, <3>2, SeenRaise DEF DeadlockVictim
    <3> QED BY <3>1, <3>2
  <2>9. CASE Begin(w)
    BY <2>9, SeenBegin
  <2>10. CASE Commit(w)
    BY <2>10, SeenCommit
  <2> QED
    BY <1>2, <2>1, <2>2, <2>3, <2>5, <2>6, <2>7, <2>8, <2>9, <2>10 DEF Statement
<1> QED BY <1>1, <1>2 DEF Next

LEMMA SeenInvariance == Spec => []SeenInv
<1>1. Init => KnownPool /\ SeenKept
  BY DEF Init, KnownPool, SeenKept, SeenIsStamp, NoTx, Active
<1>2. SeenInv /\ [Next]_vars => SeenInv'
  BY NextInv, KnownPoolStep, SeenKeptStep DEF SeenInv
<1> QED BY InitInv, <1>1, <1>2, PTL DEF Spec, SeenInv

--------------------------------------------------------------------------------
(***************************************************************************)
(* last_seen, commit by commit.                                            *)
(***************************************************************************)
LEMMA ObservedAtMember ==
  ASSUME NEW k, NEW t
  PROVE  t \in ObservedAt(k) <=> \E w \in Writers : pc[w] = "committed" /\ Stamped(w, k, t)
BY DEF ObservedAt, Stamped

\* The stamps of pool k, as LastSeenIsLatest has them.
Stamps(k) == {0} \cup IF k \in Catalogued THEN ObservedAt(k) ELSE {}

LEMMA LastSeenSplit ==
  LastSeenIsLatest <=>
    \A k \in Pools : pool[k] \in Stamps(k) /\ \A t \in Stamps(k) : t <= pool[k]
BY DEF LastSeenIsLatest, Stamps

\* Whoever has not committed leaves no stamp.
LEMMA StampsKept ==
  ASSUME Inv, [Next]_vars, \A w \in Writers : ~Commit(w)
  PROVE  /\ pool' = pool
         /\ \A w \in Writers : pc'[w] = "committed" <=> pc[w] = "committed"
         /\ \A w \in Writers : pc[w] = "committed" => batch'[w] = batch[w]
<1> USE DEF Inv, Core, Placed, TypeOK
<1>1. CASE UNCHANGED vars \/ AllEnded
  BY <1>1 DEF vars, AllEnded
<1>2. ASSUME NEW w \in Writers, Statement(w) \/ DeadlockVictim(w) \/ Abort(w)
      PROVE  /\ pool' = pool
             /\ \A v \in Writers : pc'[v] = "committed" <=> pc[v] = "committed"
             /\ \A v \in Writers : pc[v] = "committed" => batch'[v] = batch[v]
  <2>1. pc[w] # "committed"
    <3>1. DeadlockVictim(w) => Blockers(w) # {}
      BY DEF DeadlockVictim, Deadlocked
    <3>2. Blockers(w) # {} => pc[w] # "committed"
      BY DEF Blockers, NeedsChunk
    <3> QED
      BY <1>2, <3>1, <3>2
      DEF Statement, Begin, LookupCatalog, LockPoolTable, UpsertPool, CompareNewest,
          CreateChunk, NeedsChunk, InsertPrice, RefusePrice, Abort, Commit, Active
  <2>2. /\ pool' = pool /\ pc'[w] # "committed"
        /\ \A v \in Writers \ {w} : pc'[v] = pc[v] /\ batch'[v] = batch[v]
    BY <1>2, <2>1
    DEF Statement, Begin, LookupCatalog, LockPoolTable, UpsertPool, CompareNewest,
        CreateChunk, InsertPrice, RefusePrice, DeadlockVictim, Abort, Outcome, Raise, NextStop
  <2> QED BY <2>1, <2>2
<1> QED BY <1>1, <1>2 DEF Next

LEMMA CommitLastSeen ==
  ASSUME SeenInv, LastSeenIsLatest, NEW w \in Writers, Commit(w), NEW k \in Pools
  PROVE  pool'[k] \in Stamps(k)' /\ \A t \in Stamps(k)' : t <= pool'[k]
<1> USE DEF SeenInv, Inv, Core, Placed, TypeOK
<1>1. /\ pool'[k] = (IF k \in tx[w].locks THEN tx[w].seen[k] ELSE pool[k])
      /\ batch' = batch /\ pc'[w] = "committed" /\ pc[w] = "commit"
      /\ \A v \in Writers \ {w} : pc'[v] = pc[v]
  BY DEF Commit, VisibleSeen
<1>2. \A t : t \in Stamps(k)' <=> (t \in Stamps(k) \/ (k \in Catalogued /\ Stamped(w, k, t)))
  <2>1. \A t : t \in ObservedAt(k)'
                 <=> \E v \in Writers : pc'[v] = "committed" /\ Stamped(v, k, t)
    BY <1>1 DEF ObservedAt, Stamped
  <2>2. \A t : t \in ObservedAt(k)' <=> (t \in ObservedAt(k) \/ Stamped(w, k, t))
    BY <1>1, <2>1, ObservedAtMember
  <2> QED BY <2>2 DEF Stamps
<1>3. pool[k] \in Stamps(k) /\ \A t \in Stamps(k) : t <= pool[k]
  BY LastSeenSplit
<1>4. /\ SeenIsStamp(w, tx[w]) /\ DoneIsSeen(w, tx[w], pos[w])
      /\ pos[w] = Len(batch[w]) + 1 /\ Len(batch[w]) \in Nat
  BY <1>1 DEF SeenKept, Active, InBatch
<1>5. pool'[k] \in Stamps(k)'
  BY <1>1, <1>2, <1>3, <1>4 DEF SeenIsStamp
<1>6. pool[k] \in Nat /\ pool'[k] \in Nat /\ pool[k] <= pool'[k]
  BY <1>1 DEF GoodTxs, GoodTx, Tx
<1>7. ASSUME NEW t \in Stamps(k)
      PROVE  t <= pool'[k]
  <2>1. t <= pool[k]
    BY <1>3
  <2>2. t \in Nat
    <3>1. ASSUME t \in ObservedAt(k) PROVE t \in Nat
      <4>1. ASSUME NEW v \in Writers, NEW i \in 1..Len(batch[v])
            PROVE  batch[v][i] \in Observation
        <5>1. batch[v] \in Seq(Observation)
          OBVIOUS
        <5> QED BY <5>1
      <4>2. PICK v \in Writers : Stamped(v, k, t)
        BY <3>1, ObservedAtMember
      <4>3. PICK i \in 1..Len(batch[v]) : batch[v][i].at = t
        BY <4>2 DEF Stamped
      <4> QED BY <4>1, <4>3 DEF Observation
    <3> QED BY <3>1 DEF Stamps
  <2> QED BY <1>6, <2>1, <2>2
<1>8. ASSUME NEW t, k \in Catalogued, Stamped(w, k, t)
      PROVE  t <= pool'[k]
  <2>1. PICK i \in 1..Len(batch[w]) : batch[w][i].pool = k /\ batch[w][i].at = t
    BY <1>8 DEF Stamped
  <2>2. i < pos[w]
    BY <1>4
  <2>3. k \in tx[w].locks /\ t <= tx[w].seen[k]
    BY <1>4, <1>8, <2>1, <2>2 DEF DoneIsSeen
  <2> QED BY <1>1, <2>3
<1> QED BY <1>2, <1>5, <1>7, <1>8

LEMMA LastSeenStep ==
  ASSUME SeenInv, LastSeenIsLatest, [Next]_vars
  PROVE  LastSeenIsLatest'
<1>1. CASE \E w \in Writers : Commit(w)
  BY <1>1, CommitLastSeen DEF LastSeenIsLatest, Stamps
<1>2. CASE \A w \in Writers : ~Commit(w)
  <2>1. /\ pool' = pool
        /\ \A w \in Writers : pc'[w] = "committed" <=> pc[w] = "committed"
        /\ \A w \in Writers : pc[w] = "committed" => batch'[w] = batch[w]
    BY <1>2, StampsKept DEF SeenInv
  <2>2. \A k : ObservedAt(k)' = ObservedAt(k)
    BY <2>1 DEF ObservedAt
  <2> QED BY <2>1, <2>2 DEF LastSeenIsLatest
<1> QED BY <1>1, <1>2

\* last_seen is the latest stamp at which a committed tick observed the pool, for any
\* ticks and any batches: no retry, lost race or rollback moves it or holds it back.
THEOREM LastSeenIsTheLatest == Spec => []LastSeenIsLatest
<1>1. Init => LastSeenIsLatest
  BY DEF Init, LastSeenIsLatest, ObservedAt
<1> QED BY SeenInvariance, <1>1, LastSeenStep, PTL DEF Spec
================================================================================
