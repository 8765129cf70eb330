----------------------------- MODULE MCStoreWriter -----------------------------
(***************************************************************************)
(* Small instances of StoreWriter for TLC.                                 *)
(***************************************************************************)
EXTENDS StoreWriter, TLC

CONSTANTS w1, w2, w3, a, b, x, measured

Ob(k, t, p) == [pool |-> k, at |-> t, price |-> p, source |-> measured]

MCWriters2 == {w1, w2}
MCWriters3 == {w1, w2, w3}
MCSymmetry2 == Permutations(MCWriters2)
MCSymmetry3 == Permutations(MCWriters3)

\* Every batch of at most two observations: stamps 1 and 2 are in different
\* chunks, x is not catalogued, prices move, repeat, or are refused.
MCPrices == {10, 20, -10}
MCShortBatches ==
  {<<>>}
    \cup {<<Ob(k, t, p)>> : k \in {a, x}, t \in 1..2, p \in MCPrices}
    \cup {<<Ob(k, t, p), Ob(l, t, q)>> :
            k, l \in {a, b}, t \in 1..2, p, q \in {10, 20}}

\* Ticks that cross on two pools; the price of a rises at stamp 2 and is back at
\* stamp 3, which is in another chunk; at stamp 4 it has a digit more than the column keeps.
MCRaces ==
  {<<Ob(a, 1, 10)>>, <<Ob(b, 2, 10), Ob(a, 2, 20)>>, <<Ob(a, 3, 10), Ob(b, 3, 20)>>,
   <<Ob(a, 4, 14)>>}

\* Ticks of two pools that see them in opposite orders.
MCCrossed == {<<Ob(a, 2, 20), Ob(b, 2, 10)>>, <<Ob(b, 3, 20), Ob(a, 3, 10)>>}
================================================================================
