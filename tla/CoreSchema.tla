------------------------------- MODULE CoreSchema -------------------------------
(***************************************************************************)
(* The migrations the repository has, as scripts of RoundTrip: the         *)
(* baseline, and the core schema on top of it (f317a85b9b46).  Columns and *)
(* checks go with their table; a hypertable is a table defined otherwise.  *)
(***************************************************************************)
EXTENDS Naturals, Sequences

\* The foreign keys: <<child, parent>>.
ForeignKeys ==
  {<<"pool", "instance_catalog">>, <<"price_metric", "pool">>,
   <<"capacity_metric", "pool">>, <<"interruption_event", "pool">>}

\* HYPERTABLES, in order.
Hypertables == <<"price_metric", "capacity_metric", "interruption_event">>

CreateTable(t) == [op |-> "create", obj |-> t, def |-> "plain"]
\* With if_not_exists, a second one is no error.
CreateHypertable(t) == [op |-> "alter", obj |-> t, def |-> "hypertable"]
DropTable(t) == [op |-> "drop", obj |-> t]

Baseline == [up |-> <<>>, down |-> <<>>]

CreatedTables ==
  <<"instance_catalog", "pool", "capacity_metric", "interruption_event", "price_metric">>

Upgrade ==
  [i \in 1..5 |-> CreateTable(CreatedTables[i])]
    \o [i \in 1..3 |-> CreateHypertable(Hypertables[i])]

\* Seeded fault: the tables are dropped in the order they were made.
DropInOrder == [i \in 1..5 |-> DropTable(CreatedTables[i])]

\* Children before parents.
Downgrade ==
  <<DropTable("price_metric"), DropTable("interruption_event"), DropTable("capacity_metric"),
    DropTable("pool"), DropTable("instance_catalog")>>

CoreMigrations == <<Baseline, [up |-> Upgrade, down |-> Downgrade]>>

\* models.py: the tables, partitioned as HYPERTABLES says, that a database at head has.
ModelTables ==
  [t \in {"instance_catalog", "pool", "price_metric", "capacity_metric", "interruption_event"} |->
     IF t \in {Hypertables[i] : i \in 1..3} THEN "hypertable" ELSE "plain"]
================================================================================
