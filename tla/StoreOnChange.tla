----------------------------- MODULE StoreOnChange -----------------------------
(***************************************************************************)
(* What the price store promises to whoever reads it: rows are appended    *)
(* and never rewritten, a row says that the price moved, and last_seen     *)
(* never goes back.  One step is one committed tick, however it was run.   *)
(*                                                                         *)
(* This is the contract written in the docstring of app/ingest/writer.py   *)
(* and in the data model of docs/01-DESIGN.md; StoreWriter.tla is the code *)
(* that has to keep it.                                                    *)
(***************************************************************************)
EXTENDS Integers

CONSTANTS
  Pools,    \* pool identities: one machine type, one region and zone, one OS
  Sources   \* provenance labels, SOURCES in app/db/models.py

VARIABLES
  pool,          \* pool[k] is the last_seen of pool k, 0 while k has no row
  price_metric   \* the set of price rows

vars == <<pool, price_metric>>

Row == [pool : Pools, at : Nat, price : Int, source : Sources]

\* r is the row `ORDER BY observed_at DESC LIMIT 1` returns for its pool.
IsNewest(r, rows) ==
  /\ r \in rows
  /\ \A s \in rows : s.pool = r.pool => s.at <= r.at

\* The price of row r differs from the newest price of its pool in `rows`.
Moved(r, rows) ==
  \A s \in rows : (s.pool = r.pool /\ IsNewest(s, rows)) => s.price # r.price

\* No row of `rows` has the primary key (pool_id, observed_at) of r.
FreshKey(r, rows) == \A s \in rows : s.pool = r.pool => s.at # r.at

Init ==
  /\ pool = [k \in Pools |-> 0]
  /\ price_metric = {}

(***************************************************************************)
(* A tick commits.  It adds at most one row to a pool, under a key of its  *)
(* own, only where the price differs from the newest one, and never ahead  *)
(* of the pool's last_seen; every last_seen stays or advances.             *)
(***************************************************************************)
CommitTick ==
  /\ pool' \in [Pools -> Nat]
  /\ price_metric \subseteq price_metric'
  /\ \A k \in Pools : pool[k] <= pool'[k]
  /\ \A r \in price_metric' \ price_metric :
       /\ r \in Row
       /\ Moved(r, price_metric)
       /\ FreshKey(r, price_metric)
       /\ r.at <= pool'[r.pool]
       /\ \A s \in price_metric' \ price_metric : s.pool = r.pool => s = r

Next == CommitTick

Spec == Init /\ [][Next]_vars
================================================================================
