------------------------------ MODULE MCRoundTrip ------------------------------
(***************************************************************************)
(* Instances of RoundTrip: the migrations of the repository, and every     *)
(* small migration over two tables and a view of which two reference the   *)
(* third.  `extra` stands alone; `probe` is what the tests that break the  *)
(* migrations create.                                                      *)
(***************************************************************************)
EXTENDS RoundTrip, CoreSchema

MCTables == {"parent", "child", "extra", "probe"} \cup DOMAIN ModelTables
MCObjects == MCTables \cup {"view"}
MCReferences == {<<"child", "parent">>, <<"view", "parent">>} \cup ForeignKeys

Create(o) == [op |-> "create", obj |-> o, def |-> "plain"]
Ensure(o) == [op |-> "ensure", obj |-> o, def |-> "plain"]
Alter(o) == [op |-> "alter", obj |-> o, def |-> "changed"]
Drop(o) == [op |-> "drop", obj |-> o]
Raise == [op |-> "raise"]

Migration(u, d) == [up |-> u, down |-> d]

\* Failing, irreversible: the two migrations the tests write.
MCInjected ==
  [failing |-> Migration(<<Raise>>, <<>>),
   irreversible |-> Migration(<<Create("probe")>>, <<>>)]

MCStatements ==
  {Create("parent"), Create("child"), Create("view"), Ensure("child"), Ensure("extra"),
   Alter("parent"), Drop("parent"), Drop("child"), Drop("view")}
Scripts == {<<>>} \cup {<<s>> : s \in MCStatements} \cup {<<s, t>> : s, t \in MCStatements}

\* What it creates it drops, children before parents.
Tidy == Migration(<<Create("parent"), Create("child")>>, <<Drop("child"), Drop("parent")>>)

\* The real migrations, and any migration of two statements on an empty one and on a
\* tidy one.
MCChains ==
  {CoreMigrations} \cup {<<m, Migration(u, d)>> : m \in {Baseline, Tidy}, u, d \in Scripts}

\* The real ones, and the same with a table more that is created IF NOT EXISTS
\* and not dropped.
MCIdempotent ==
  {CoreMigrations, Append(CoreMigrations, Migration(<<Ensure("extra")>>, <<>>))}

\* "Children before parents", and "this must be safe to re-apply" (f317a85b9b46): where
\* the real migrations are the repository's, the reset makes the tables models.py has,
\* and their test always ends with a trip that went there and back twice, whatever was
\* left in the database before.
CoreSchemaReverses ==
  chain = CoreMigrations /\ pc = "ready" =>
    /\ test = "none" => schema = ModelTables
    /\ test = "real" => trip.head = ModelTables /\ Reversible(trip)
================================================================================
