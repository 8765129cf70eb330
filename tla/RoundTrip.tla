------------------------------- MODULE RoundTrip -------------------------------
(***************************************************************************)
(* The check that the migrations are reversible (tests/reversibility.py)   *)
(* and the test module that runs it (tests/test_reversibility.py), against *)
(* one test database.  A session may be killed between any two commands    *)
(* and be started again on whatever it left.                               *)
(*                                                                         *)
(* env.py runs a whole alembic command in one transaction, and Postgres    *)
(* rolls DDL back: a command happens or it does not.                       *)
(***************************************************************************)
EXTENDS Naturals, Sequences, SequencesExt, Functions

CONSTANTS
  Objects,      \* what a schema is made of
  Definitions,  \* what an object may be defined as
  Tables,       \* the objects that are tables of `public`
  Seen,         \* the objects the four snapshot queries read
  References,   \* <<child, parent>>: the child cannot exist without the parent
  Chains,       \* what the versions directory may hold
  Injected,     \* the migration each test of a broken one writes on top
  NoTable       \* the version of a database without an alembic_version table

ASSUME ObjectAssumption ==
  Tables \subseteq Objects /\ Seen \subseteq Objects /\ References \subseteq Objects \X Objects

\* What a migration executes; one that raises is Python's.
Statements ==
  [op : {"create", "ensure", "alter"}, obj : Objects, def : Definitions]
    \cup [op : {"drop"}, obj : Objects] \cup [op : {"raise"}]
Migrations == [up : Seq(Statements), down : Seq(Statements)]
\* A script that has nothing to do with o.
Touches(st, o) == st.op # "raise" /\ st.obj = o
Leaves(script, o) == \A k \in DOMAIN script : ~Touches(script[k], o)

ASSUME ChainAssumption ==
  /\ Chains \subseteq Seq(Migrations) /\ Injected \in [DOMAIN Injected -> Migrations]
  /\ NoTable \notin Seq(Migrations)
\* Each test breaks the migrations: its own raises in the end, or makes one thing they
\* know nothing of and leaves it behind.
ASSUME InjectedAssumption ==
  \A t \in DOMAIN Injected :
    LET m == Injected[t] IN
    \/ m.up # <<>> /\ m.up[Len(m.up)].op = "raise"
    \/ \E o \in Seen, d \in Definitions :
         /\ m.up = <<[op |-> "create", obj |-> o, def |-> d]>> /\ Leaves(m.down, o)
         /\ \A c \in Chains : \A i \in DOMAIN c : Leaves(c[i].up, o) /\ Leaves(c[i].down, o)
\* The reset drops tables, and what hangs on them goes too: nothing is of any
\* other kind (no migration makes a type or a function).
ASSUME ResetReachesAll ==
  \A o \in Objects : o \in Tables \/ \E p \in Tables : <<o, p>> \in References
ASSUME TestAssumption == {"none", "real"} \cap DOMAIN Injected = {}

\* A schema gives the objects that exist their definitions.
IsSchema(s) == DOMAIN s \subseteq Objects /\ s \in [DOMAIN s -> Definitions]
Empty == [o \in {} |-> {}]

VARIABLES
  chain,    \* the migrations of the repository
  schema,   \* of the test database, as committed
  version,  \* the migrations alembic_version says are applied
  pc,       \* where the session is
  test,     \* the test it runs, or ran last since the database was reset
  trip      \* the RoundTrip being filled in

vars == <<chain, schema, version, pc, test, trip>>

--------------------------------------------------------------------------------
(***************************************************************************)
(* Migrations: what their statements do to a schema.                       *)
(***************************************************************************)

\* A statement is an error in the state Postgres would refuse it in.
Refused(st, s) ==
  \/ st.op = "raise"
  \/ st.op = "create" /\ st.obj \in DOMAIN s
  \/ st.op \in {"create", "ensure"} /\
       \E ref \in References : ref[1] = st.obj /\ ref[2] \notin DOMAIN s
  \/ st.op \in {"drop", "alter"} /\ st.obj \notin DOMAIN s
  \/ st.op = "drop" /\ \E ref \in References : ref[2] = st.obj /\ ref[1] \in DOMAIN s

Without(s, gone) == Restrict(s, DOMAIN s \ gone)

\* "ensure" is a creation IF NOT EXISTS.
After(st, s) ==
  CASE st.op = "drop" -> Without(s, {st.obj})
    [] st.op = "ensure" /\ st.obj \in DOMAIN s -> s
    [] OTHER -> [o \in DOMAIN s \cup {st.obj} |-> IF o = st.obj THEN st.def ELSE s[o]]

\* A script stops at its first error.
Run(script, s) ==
  LET done[i \in 0..Len(script)] ==
        IF i = 0 THEN [ok |-> TRUE, schema |-> s]
        ELSE LET r == done[i - 1]
             IN  IF ~r.ok \/ Refused(script[i], r.schema)
                   THEN [r EXCEPT !.ok = FALSE]
                   ELSE [r EXCEPT !.schema = After(script[i], @)]
  IN  done[Len(script)]

\* The upgrades of c after the first `from`; the downgrades of c, newest first.
Upgrades(c, from) == FlattenSeq([i \in 1..Len(c) - from |-> c[from + i].up])
Downgrades(c) == FlattenSeq([i \in 1..Len(c) |-> c[Len(c) + 1 - i].down])

\* Nothing is created IF NOT EXISTS: an object that is there already is an error.
Strict(c) ==
  \A i \in DOMAIN c : \A script \in {c[i].up, c[i].down} :
    \A j \in DOMAIN script : script[j].op # "ensure"

Applied == IF version = NoTable THEN <<>> ELSE version

\* alembic finds the applied revision among the files of c.
Located(c) == IsPrefix(Applied, c)

\* What `alembic upgrade head` and `alembic downgrade base` come to.
UpgradeHead(c) == Run(Upgrades(c, Len(Applied)), schema)
DowngradeBase(c) == Run(Downgrades(Applied), schema)

Works(c, result) == Located(c) /\ result.ok

\* The transaction commits with the new version, or leaves both as they were.
\* Even the table alembic_version is made in it.
Command(c, result, v) ==
  IF Works(c, result)
    THEN schema' = result.schema /\ version' = v
    ELSE UNCHANGED <<schema, version>>

--------------------------------------------------------------------------------
(***************************************************************************)
(* The round trip.                                                         *)
(***************************************************************************)
Snapshot(s) == Restrict(s, DOMAIN s \cap Seen)

NoTrip == [base |-> Empty, head |-> Empty, after_reverse |-> Empty, after_reapply |-> Empty,
           forward_error |-> FALSE, reverse_error |-> FALSE, reapply_error |-> FALSE]

\* RoundTrip.reversible: no error, and both schemas came back.
Reversible(t) ==
  /\ ~t.forward_error /\ ~t.reverse_error /\ ~t.reapply_error
  /\ t.base = t.after_reverse
  /\ t.head = t.after_reapply

\* The migrations a test runs: a broken one is written on top of the others.
Config(t) == IF t \in DOMAIN Injected THEN Append(chain, Injected[t]) ELSE chain

\* A test that wrote a migration resets the database however it ends.
Finish(t) == IF t \in DOMAIN Injected THEN "drop_tables" ELSE "ready"

\* Seeded fault: without the downgrade the trip starts where the database is.
TripBaseAsFound ==
  /\ pc = "base"
  /\ trip' = [NoTrip EXCEPT !.base = Snapshot(schema)]
  /\ pc' = "forward"
  /\ UNCHANGED <<chain, schema, version, test>>

\* The first downgrade is not inside _attempt: its error ends the test.
TripBase ==
  /\ pc = "base"
  /\ LET c == Config(test) IN
       /\ Command(c, DowngradeBase(c), <<>>)
       /\ trip' = [NoTrip EXCEPT !.base = Snapshot(schema')]
       /\ pc' = IF Works(c, DowngradeBase(c)) THEN "forward" ELSE Finish(test)
  /\ UNCHANGED <<chain, test>>

TripForward ==
  /\ pc = "forward"
  /\ LET c == Config(test) IN
       /\ Command(c, UpgradeHead(c), c)
       /\ trip' = [trip EXCEPT !.forward_error = ~Works(c, UpgradeHead(c)), !.head = Snapshot(schema')]
  /\ pc' = "reverse"
  /\ UNCHANGED <<chain, test>>

TripReverse ==
  /\ pc = "reverse"
  /\ LET c == Config(test) IN
       /\ Command(c, DowngradeBase(c), <<>>)
       /\ trip' = [trip EXCEPT !.reverse_error = ~Works(c, DowngradeBase(c)),
                               !.after_reverse = Snapshot(schema')]
  /\ pc' = "reapply"
  /\ UNCHANGED <<chain, test>>

TripReapply ==
  /\ pc = "reapply"
  /\ LET c == Config(test) IN
       /\ Command(c, UpgradeHead(c), c)
       /\ trip' = [trip EXCEPT !.reapply_error = ~Works(c, UpgradeHead(c)),
                               !.after_reapply = Snapshot(schema')]
  /\ pc' = "judged"
  /\ UNCHANGED <<chain, test>>

\* The test asserts on the RoundTrip; what it asserts changes nothing.
Judge ==
  /\ pc = "judged"
  /\ pc' = Finish(test)
  /\ UNCHANGED <<chain, schema, version, test, trip>>

--------------------------------------------------------------------------------
(***************************************************************************)
(* The session: the fixture, the tests, their cleanup.                     *)
(***************************************************************************)
Init ==
  /\ chain \in Chains
  /\ schema = Empty
  /\ version = NoTable
  /\ pc = "idle"
  /\ test = "none"
  /\ trip = NoTrip

\* Seeded fault: the revisions are recorded again on top of the applied ones.
MigrateByHandAppends ==
  /\ pc = "idle"
  /\ Command(chain, UpgradeHead(chain), Applied \o chain)
  /\ UNCHANGED <<chain, pc, test, trip>>

\* `alembic -x db=test upgrade head`, by hand.
MigrateByHand ==
  /\ pc = "idle"
  /\ Command(chain, UpgradeHead(chain), chain)
  /\ UNCHANGED <<chain, pc, test, trip>>

\* The database lives in a tmpfs: its container starts empty.
RestartDatabase ==
  /\ pc = "idle"
  /\ schema' = Empty
  /\ version' = NoTable
  /\ UNCHANGED <<chain, pc, test, trip>>

\* The fixture consistent_database calls _reset_to_head.
StartSession ==
  /\ pc \in {"idle", "error"}
  /\ pc' = "drop_tables"
  /\ UNCHANGED <<chain, schema, version, test, trip>>

\* DROP TABLE ... CASCADE of every table but alembic_version (the probe's too,
\* which the sabotage test drops by itself first).
DropTables ==
  /\ pc = "drop_tables"
  /\ schema' = Without(schema,
       Tables \cup {o \in Objects : \E p \in Tables : <<o, p>> \in References})
  /\ pc' = "clear_version"
  /\ UNCHANGED <<chain, version, test, trip>>

\* Seeded fault: the reset does not clear the version.
ClearVersionNot ==
  /\ pc = "clear_version"
  /\ pc' = "upgrade"
  /\ UNCHANGED <<chain, schema, version, test, trip>>

\* DELETE FROM public.alembic_version: an error if there is no such table.
ClearVersion ==
  /\ pc = "clear_version"
  /\ version' = IF version = NoTable THEN NoTable ELSE <<>>
  /\ pc' = IF version = NoTable THEN "error" ELSE "upgrade"
  /\ UNCHANGED <<chain, schema, test, trip>>

\* Seeded fault: `alembic stamp` claims the revision instead of applying it.
StampHead ==
  /\ pc = "upgrade"
  /\ version' = chain
  /\ pc' = "ready"
  /\ test' = "none"
  /\ UNCHANGED <<chain, schema, trip>>

UpgradeToHead ==
  /\ pc = "upgrade"
  /\ Command(chain, UpgradeHead(chain), chain)
  /\ pc' = IF Works(chain, UpgradeHead(chain)) THEN "ready" ELSE "error"
  /\ test' = "none"
  /\ UNCHANGED <<chain, trip>>

\* Any test may be selected next.
StartTest ==
  /\ pc = "ready"
  /\ test' \in {"real"} \cup DOMAIN Injected
  /\ pc' = "base"
  /\ UNCHANGED <<chain, schema, version, trip>>

\* The session ends, or is killed: a transaction that was open is rolled back.
EndSession ==
  /\ pc # "idle"
  /\ pc' = "idle"
  /\ test' = "none"
  /\ trip' = NoTrip
  /\ UNCHANGED <<chain, schema, version>>

Next ==
  \/ MigrateByHand \/ RestartDatabase \/ StartSession \/ EndSession
  \/ DropTables \/ ClearVersion \/ UpgradeToHead
  \/ StartTest \/ TripBase \/ TripForward \/ TripReverse \/ TripReapply \/ Judge

Spec == Init /\ [][Next]_vars

--------------------------------------------------------------------------------
(***************************************************************************)
(* Properties.                                                             *)
(***************************************************************************)
TypeOK ==
  /\ IsSchema(schema)
  /\ version = NoTable
       \/ \E t \in {"real"} \cup DOMAIN Injected : IsPrefix(version, Config(t))
  /\ pc \in {"idle", "error", "drop_tables", "clear_version", "upgrade", "ready",
             "base", "forward", "reverse", "reapply", "judged"}
  /\ test \in {"none", "real"} \cup DOMAIN Injected
  /\ \A s \in {trip.base, trip.head, trip.after_reverse, trip.after_reapply} : IsSchema(s)
  /\ {trip.forward_error, trip.reverse_error, trip.reapply_error} \subseteq BOOLEAN

\* What the migrations make of an empty database.
HeadOf(c) == Run(Upgrades(c, 0), Empty)

\* c can be applied to an empty database and reversed to an empty one, and then
\* be applied again: what the check is there to find out.
Restores(c) ==
  LET head == HeadOf(c)
      back == Run(Downgrades(c), head.schema)
      again == Run(Upgrades(c, 0), back.schema)
  IN  /\ head.ok /\ back.ok /\ again.ok
      /\ Snapshot(back.schema) = Empty
      /\ Snapshot(again.schema) = Snapshot(head.schema)

\* After the reset the database is at the head of the real migrations, whatever
\* sabotage, failed trip or killed session came before ("a real head before any
\* round trip, rather than assuming one", fixture consistent_database).
ResetIsHead ==
  pc = "ready" /\ test = "none" => version = chain /\ schema = HeadOf(chain).schema

\* No session, killed wherever, wedges the next one: the reset fails only on a
\* database alembic never touched, or because the migrations themselves do.
NothingWedges ==
  pc = "error" => version = NoTable \/ ~HeadOf(chain).ok

\* The verdict is that of an empty database, whatever this one held.
VerdictAsFromEmpty ==
  pc = "judged" => (Reversible(trip) <=> Restores(Config(test)))

\* So it is for migrations that create nothing IF NOT EXISTS: a reversible chain
\* is never reported broken, and a broken one, the injected ones too, always is.
StrictVerdictIsRight ==
  Strict(Config(test)) => VerdictAsFromEmpty
================================================================================
