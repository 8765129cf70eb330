# Verification of Preempt

TLA+ specifications of Preempt (spot prices of three cloud providers, ingested into
Postgres/TimescaleDB), TLC configurations that check them on small instances, and proofs
that TLAPS checks for every instance. Paths are relative to the repository; line
numbers are in `PROJECT.json`, where `map` ties every definition to the lines it stands for.

## The system

| Part | State | Operations | Hard because | Correct when |
|---|---|---|---|---|
| Writer, `api/app/ingest/writer.py` | `pool`, `price_metric` in the database; one open transaction per tick, with savepoints | `store_prices`, `_store_one` | concurrent ticks, row and table locks, deadlocks and their retries, death at any statement, late ticks | rows only where the price moved, honest counts, `last_seen` never goes back, no tick hangs |
| Azure feed, `api/app/providers/azure.py` | one fetch: page, link, what was collected | `fetch_spot_prices`, `_page`, `_observation` | links that loop, requests and items that fail half way | all of a region or an exception, never part of it; it ends; failures are `ProviderError` |
| Tick, `api/app/ingest/tick.py` | `writes`, `failures` | `run_tick` | one provider fails, the catalog fills meanwhile | every provider is accounted for, a failed one contributes nothing |
| Seed, `scripts/seed.py`, `api/app/ingest/catalog.py` | `instance_catalog` | `seed`, `derive_spec` | run again, and concurrently | all rows once, counts from the database, no deadlock |
| Simulated provider, `api/app/providers/simulated.py` | none | a list from the catalog, a hash as price | determinism | one observation per size and system |
| Schema and migrations, `api/app/db/models.py`, `api/alembic/`, `api/tests/reversibility.py` | schema, revision | upgrade, downgrade, `run_round_trip` | a step fails half way; verdict drawn from snapshots | reversible means that nothing is left |
| Settings and the tests' guards, `api/app/core/config.py`, `api/alembic/env.py`, `api/tests/` | two database URLs per process | validators, `same_database`, `_skip_unless_database`, the truncating fixtures | every process has settings of its own; one database has many names | tests never empty the database an application keeps its data in |
| Readiness, `api/app/api/v1/health.py` | none | `/health`, `/ready` | | does not report what is not so |
| Sessions, `api/app/db/session.py` | one engine and factory | lazy getters | nothing uses them yet | |
| Probe gate, `scripts/check-probes.py`, `scripts/test-probe-gate.py` | quote, heredocs, continuation while scanning; the manifest | `--static`, `--emitted`; the mutation test of both | bash decides what runs, a regular expression decides what counts; a test that goes red for the wrong reason | an id counts exactly where bash hands it to an outcome call; a broken check is noticed |
| Preflight, `scripts/preflight.sh` | the ids emitted | a run of the probes | a probe no run reaches | pass means every declared probe ran |
| Gate, `scripts/verify.sh`, `scripts/check-proportion.py` | one verdict | sections 0 to 4 | | |

A tick calls the feed, then hands its list to the writer; for each simulated provider it
reads the catalog the seed filled and hands the writer the list made from it. All three
lists are stored in the caller's one transaction. Ticks share nothing but the database;
the seed shares the catalog with them. The probe gate reads the text of preflight and the
table of `docs/SERVICES.md`, and shares no state with the rest.

## Modules

| Module | Models |
|---|---|
| `StoreOnChange` | what the store promises: a committed tick as one atomic step |
| `StoreWriter` | the writer, one action per SQL statement or lock wait; implements `StoreOnChange` |
| `StoreWriterProofs`, `LastSeenProofs` | theorems about `StoreWriter` |
| `AzureFeed`, `AzureFeedProofs` | one fetch, one action per request, item and link; theorems |
| `Seed`, `SeedProofs` | concurrent runs of the seed script, one action per INSERT; theorems |
| `Tick`, `TickProofs` | one tick, on top of `AzureFeed` and `Seed`; theorems, from those of the two |
| `RoundTrip` | the reversibility check and the test sessions that run it |
| `CoreSchema` | the two migrations the repository has, as scripts of `RoundTrip`, and the tables of the models |
| `RoundTripProofs` | theorems about `RoundTrip`: the reset and the verdict |
| `Deployment` | which database a process works on: settings, the target of alembic, the guards of the tests |
| `DeploymentProofs` | theorems about `Deployment` |
| `ShellScan` | the scanner of `check-probes.py`, one symbol at a time |
| `BashReader` | what bash makes of the same symbols (external) |
| `ProbeShapes` | scanner and bash side by side on scripts of any length |
| `ProbeShapesProofs` | theorems about `ProbeShapes`: data, command starts, and both verdicts |
| `ProbeSuite` | `test-probe-gate.py`, run against a check with broken parts; composes `ShellScan`, `BashReader` and `main` of `check-probes.py` |
| `MC...` | the values TLC gives the constants |

### StoreWriter

A *writer* is one tick's transaction: the lists of the three providers one after the other
in `batch`, which all carry the tick's stamp (`BatchAssumption`, from `run_tick`).
`pc[w]` is the statement it issues next: `lookup` (catalog), `upsert` and `row` (the pool
upsert takes a table lock, then a row lock), `newest`, `insert`, `commit`. `tx[w]` has what
only it can see and the locks it holds; `sp[w]` is what `ROLLBACK TO SAVEPOINT` returns to.
`Outcome` is the release of a savepoint with the count of its outcome, `Raise` an
exception that leaves `store_prices`, after which the caller's session rolls back.

Postgres and TimescaleDB are external, and modelled as the code uses them: READ COMMITTED
visibility, row locks to the end of the transaction, the table lock that the first insert
of a time range takes to create its chunk (the comment in `store_prices` names it), the
lock queue, and detection of wait cycles with any participant as victim. Waiting is a
guard (`Blockers(w) = {}`). A transaction that dies, at any statement, is `Abort`.

Abstractions: a pool is an identity, so `(provider, type, region, zone, os)` is one value;
a stamp is a number, 0 for "no row"; a price is an integer in tenths of the last decimal
the column keeps, so that `StoredPrice` can round. The catalog does not change here (it
does in `Tick`). SQLSTATE 40001 is not modelled apart from 40P01: the code treats
both alike and READ COMMITTED does not raise it.

### AzureFeed

A listing gives every page its items and link and is fixed for the fetch. An item is one of
six kinds, by what the loop does with it; `null_sku` is a `skuName` that is present and
null. Links may lead anywhere, be absent, of the wrong type, or no URL. `Reach` is defined
without the loop: the smallest set with the endpoint that is closed under links.

### Seed, Tick

A script is at a position of its two lists, one after the other (`RowAt`); a size `derive_spec`
refuses is passed over there (`RefuseSize`), which the script does before its first statement,
on lists that are constants. In `Seed` an `INSERT ... ON CONFLICT DO NOTHING` waits for an open transaction that
inserted the same key. Specifications are derived as in `derive_spec`; the size name is
abstracted to what its pattern extracts. In `Tick` the store of one observation is its
catalog lookup, known or unknown: written against unchanged is the subject of
`StoreWriter`. Each lookup sees what the seed has committed by then. `OldRows` are rows an
older list planted, with another specification or for a size no longer listed: the seed
keeps them, and they are in the catalog a tick reads. The simulated sizes are assumed to have
positive specifications and different names, as `CURATED_SIMULATED_SIZES` does
(`SimulatedAssumption`), some for each provider (`SimulatedProvidersAssumption`); old rows to
have passed the table's CHECK constraints (`OldRowsAssumption`). `Tick` extends both modules and
takes their steps as its own; names that would meet carry `Feed` or `Seed`.

### RoundTrip

A schema maps the objects that exist to definitions; a migration is two scripts of abstract
statements, each of which Postgres may refuse (`Refused`). An alembic command is one
transaction (`Command`), as `env.py` sets it up, so killing a session (`EndSession`)
leaves the schema and the version as of the last command. `version` is the list of
applied migrations instead of the name of the last: a command whose files do not
include them fails (`Located`), which is what a killed test of an injected migration leads
to. One action is one command with the snapshot after it, or one statement of
`_reset_to_head`. `Restores` says what reversible means without the harness: from an empty
database, and back to it. Objects that are neither tables nor hang on one would survive the
reset; the repository's migrations have none, nor have the instances. `CoreSchema` has the
real migrations: `create_hypertable` with `if_not_exists` redefines a table and never fails
on one that is a hypertable already.

`Statements` is every statement there can be over the objects, and the chains and injected
migrations are assumed to consist of such (`ChainAssumption`). `InjectedAssumption` is what the
two tests write: a migration that raises, or one that creates a thing no other knows and whose
downgrade does not mention it. `Strict` looks at downgrades too: one that creates a table
`IF NOT EXISTS` is masked just as well. It looked at upgrades only until the proof of
`VerdictsAreRight` got stuck there, and TLC refutes that version on the instance `RoundTrips`
uses now, which has two statements of the kind.

### Deployment

A URL is its host, port, database name, `text`, which tells two strings of one database
apart (another role), and `blank`, where a blank was typed along; `Server` maps host names to
servers and is not known to the code. Only the validator of `Settings` strips blanks
(`Stripped`). The guard and the engines parse the raw string: a blank before it is an error
(`Parses`), one behind it is part of the database's name (`Name`), and no database has such a
name, so nothing is reached by that URL (`Databases`, `Reachable`). A URL with a query would take
the blank into the query instead; URLs here have none. An application starts with such a URL
all the same, since the engine is made later. The application runs with accepted settings in `app`; whoever migrates or tests has
accepted settings of their own, so every pair is tried. `loss` records what emptied the
application's database last, and with which settings. `Truncate` is a fixture of
`test_writer.py` or `test_catalog.py`, which have no guard but the validator; `RoundTrip`
is `consistent_database` behind `_skip_unless_database`. A server that is down makes a test
skip (`Reachable`).

### ShellScan, BashReader, ProbeShapes

A symbol is what the scanner's three parts tell apart: a blank, a quote, an operator, a
heredoc opener by its form, or a word by what `CALL_RE` makes of it. One probe id is
followed; other words are `word`. `StripCode`, `BodyLine` and `CodeLine` are `strip_code`
and the two kinds of line in `executable_lines`; `CALL_RE` is run along as the set of places
its match can be at (`rx`), which is how a state machine does `finditer`. `Off` names parts of
the scanner that are broken, for `ProbeSuite`; it is empty in `ProbeShapes`.

`BashReader` was compared with bash, and `ShellScan` with the real `check-probes.py`, on
random scripts. Two differences are left: a backslash as the very last character of the file,
and an empty pair of quotes glued to a word (`""pass` runs `pass` in bash; here a word with
quotes in it is no plain word). `$( )`, backticks, functions and `case` are not symbols, so
the model says nothing of them; nor of *reachability*, which `check-probes.py` disclaims.

In `ProbeShapes` a script is typed symbol by symbol into both, for as long as one likes. Only
the id typed last counts (`Forget`). `Excluded` names the constructs that mislead the scanner,
and each is needed: without any one of them TLC finds a misjudged script. The last column says
which properties need it (D `SpansAgree`, S `StartInStep`, F `RealProbesFound`, N `NoFalsePass`).

| Construct | Example the scanner misjudges | Needed by |
|---|---|---|
| `escape` | `echo \; pass a:b` is counted | D S F N |
| `assignment` | `A=;echo pass a:b` is counted: `\S*` goes over the `;` | S N |
| `keyword` | `A=1 then pass a:b` is counted | N |
| `redirect` | `<<<x pass a:b` is not found | S F N |
| `hash` | `x;#;pass a:b` is counted: `#` after `;` is no comment to the scanner | D S F N |
| `heredoc` | a body that does not start on the next line, after a continued one or inside quotes | D S F N |
| `join` | `x\` in the body of `<<T` hides the `T` below it from bash, not from the scanner | D S F N |

Also a string that ends on a later line and has a call behind it on that line
(`echo "foo⏎bar" pass a:b`) is counted; `split` marks such a command and `StartInStep` shows that
the damage ends with it.

### ProbeSuite

A *part* is a piece of `check-probes.py` that can be broken alone: a rule of the scanner, or a
check of `main`. The suite's cases are sequences of symbols made from a short preflight as
the suite makes them from the real one, and `Red` is the check's verdict with the parts in
`broken` missing. It found five parts no case is there for (`NotUnderTest`) and
confirmed what `check-probes.py` says of the empty-table guard; each was confirmed by breaking the
real script, with which the suite stays green. Three remarks on the suite's own comments: the
commented-out case is defeated by the command-position rule, so broken comment stripping is
noticed only by the control, through the apostrophes in comments; the first disguise (`as a
label`) goes red with its named part broken, as its comment admits; and a stray line in the
coverage file is let through unnoticed if the filter and the undeclared check are both gone.

## Runs

| Run | Shows | Bounds |
|---|---|---|
| `StoreShort` | `TypeOK`; `Implements` (the contract); `CommitAddsWhatItReports`; `LastSeenIsLatest` | two writers, every batch of up to two observations of two pools and an uncatalogued one, two stamps in two chunks, two prices and a refused one |
| `StoreRaces` | `IInv`, `CommitRecordsLatestPrice`, `OnlyFinerPricesRepeat`, `EveryTickEnds` | three writers crossing on two pools, three attempts, four stamps in two chunks; a price that moves, moves back, and gets a seventh decimal |
| `StoreDeadlock` | finding: a deadlock loses a tick | three writers crossing on two pools |
| `FeedPages` | `FeedTypeOK`, `NeverPartial`, `LimitIsNoCap`, `FetchEnds` | three pages, three requests, every listing over six page contents |
| `FeedEscapes` | finding: a fetch fails with something that is no `ProviderError` | the same |
| `SeedRuns` | `SeedTypeOK`, `SeededCompletely`, `SeedCountsWhatItAdds`, `SeedsEnd` | three runs, four Azure sizes of which one derives, two simulated ones, two rows of an older list, any part already there |
| `TickReports` | `TypeOK`, `EveryProviderReported`, `FailedProviderStoresNothing`, `SeededTickIsWhole`, `TickEnds` | one tick, two seeds, one row of an older list for a size refused today, two pages, two requests |
| `RoundTrips` | `TypeOK`, `ResetIsHead`, `NothingWedges`, `StrictVerdictIsRight`, `CoreSchemaReverses` | the real migrations, and every migration of at most two of nine statements each way, two of them `IF NOT EXISTS`, on an empty baseline and on two tables; any number of sessions |
| `RoundTripMasked` | finding: an irreversible migration passes | the real chain, and one more migration |
| `ProbeShapes` | `TypeOK`, `SpansAgree`, `NoFalsePass`, `RealProbesFound`, `StartInStep` | scripts of any length; two heredocs in waiting; seven constructs excluded |
| `ProbeSuite` | `TypeOK`, `EveryRegressionIsNoticed`, `NoticedByItsCase`, `BashAgrees` | any two of the 32 parts broken; two services with one probe each |
| `TestTargets` | `TypeOK`, `RoundTripSparesTheApplication` | eight URLs, six of which lead to the three databases on two servers, two environments, any number of runs |

Why the bounds are enough: a wait cycle needs two writers and two locks, and a third writer
gives a second victim and a queue behind a waiter. What a writer reads of a pool depends
on the pool's newest row and its own, so two stored rows and a third arriving exercise
every comparison; the theorems below do not depend on the bounds. Three pages are the
least with a loop that does not hold the first page, and a limit of three is reached both
by such a loop and by a listing that is exactly as long.

In `RoundTrips` two statements are enough to create a table and a
dependent one or to change one, to drop them in either order, and to forget either.
In `ProbeShapes` nothing but the queue of heredocs can grow, so all scripts that never have
more than two waiting are covered; the theorems are about any number. In `TickReports` two seeds are the least with one that has
committed before the tick and one that is at work beside it. In `TestTargets` the URLs hold each
way two can be related: equal but for a blank before or behind, equal but for the role, two spellings of this machine, two names of a remote
server, and different; the theorems hold for any others.

`AllEnded`, `SeedsEnded` and `FeedDone` let a finished instance stutter, so deadlock is checked in every run.
`ProbeShapes` and `Deployment` go on for ever.

### Fairness

`StoreWriter`: weak fairness of each writer's next statement, since a running coroutine
issues it as soon as nothing blocks it; and weak fairness of *some* deadlock victim,
since Postgres breaks each cycle after `deadlock_timeout`, but no choice of victim is
assumed. `Abort` is not fair. `AzureFeed`: weak fairness of the fetch, since every request is answered
or times out. `Seed`: weak fairness of each script. `Tick`: weak fairness of the tick only,
not of the seed beside it.

## What the runs found

1. **A deadlock can lose a whole tick** (`StoreDeadlock`). Rolling back a savepoint keeps
   the row locks of earlier observations, so two ticks that cross on two pools deadlock
   again on each retry, and the third attempt re-raises. The comment in `store_prices` says
   the savepoint is there so that a deadlock does not discard the tick.
2. **A failing provider can fail the tick** (`FeedEscapes`): a null `skuName`, or a link that
   is no URL, raises something `run_tick` does not catch.
3. **An irreversible migration can pass the reversibility check** (`RoundTripMasked`). The
   fixture goes to head first, so what a downgrade leaves behind is already in the base
   snapshot; a creation `IF NOT EXISTS` then never fails. `StrictVerdictIsRight` finds
   no other way: a plain creation is caught by its second application.

Limits of the code, in place of the broader claim of a comment; a passing property states them
exactly where one is named:

* A price finer than NUMERIC(12, 6) is stored on every tick, and only such a price is
  (`OnlyFinerPricesRepeat`).
* Red Hat and SUSE meters count as linux (`azure.py:97`), so a batch can hold two prices of one pool and
  stamp: the second is dropped, and the first differs again from what is stored on the next
  tick if the newest price is the other one. `Implements` holds all the same.
* A round trip spares the application's database unless its settings call it by another name
  of the server (Neon's pooled and direct endpoints), have a blank behind its URL, or do not
  name it (`RoundTripSparesTheApplication`). The blank falls between the two checks: stripped,
  the URL differs from that of the test database in its role or host, so the validator accepts it;
  unstripped, it names another database, so the guard does too. `TestTargets` has such runs.
* The truncating fixtures have no guard but the validator, which compares two strings: under
  settings that write the application's database in two ways (`localhost` and `127.0.0.1`, or two
  roles) they empty it. `config.py` calls that failure impossible, `same_database` knows
  better. `Truncate` models it; no property is stated of it, since it would repeat the comparison.
* The reset of the reversibility tests fails on a database alembic never touched, which has no
  `alembic_version` to delete from (`NothingWedges`), such as the tmpfs one of
  `docker-compose.yml` when it starts. Its docstring says "from any state".
* A specification that was wrong when it was planted stays (`SeededCompletely`).
* What misleads the probe scanner, and what its mutation test does not notice: see above.

## Proofs

`StoreWriterProofs` proves, for any writers, pools, batches, attempt limit and chunk span,
from the four assumptions named in `StoreWriter`:

* `TypeCorrect`: `TypeOK`, together with `InBatch` (a writer that stores is inside its batch,
  without which an observation has no type).
* `StoreInvariant`: `IInv`. The heart of it: a transaction has rows only of pools it locked
  (`GoodTxs`), locks are exclusive (`LocksExclusive`), and therefore no other commit
  changes what a writer compared with (`StillDiffers`). A rollback to a savepoint keeps it
  because a savepoint is never ahead of its transaction in locks and has the same rows
  (`SavepointBehind`): rows are written only by the statement that ends a savepoint.
* `CountsAreHonest`: a commit adds as many rows as `prices_written` says, from `CountsAddUp`.
* `WriterImplementsContract`: `Spec => Implements`, given `RepresentablePrices`. It adds
  `RowsMoved` (rows of an open transaction differ from the newest committed price) to
  `IInv`; `OnlyFinerPricesRepeat` says what is left without the assumption.
* `OnlyFinerPricesAreRepeated`: `OnlyFinerPricesRepeat`, the contract without that assumption, from
  `RowsRepeatFiner`: an open transaction's row that repeats the newest price is one of a price the
  column rounded.
* `LatestPriceRecorded`: `CommitRecordsLatestPrice`, from `RowsAreObserved` (a row of an open
  transaction is one its batch observed) and `LatestIsKept` (a pool the writer is done with
  is still locked by its savepoint, and shows the observed price unless a newer observation
  was committed before). Both are needed: without the first, a later observation of the
  same tick could be shadowed by a row nobody saw; without the second, a rollback could
  give the pool away between the comparison and the commit.

`LastSeenProofs` adds `LastSeenIsTheLatest`: `LastSeenIsLatest`. A transaction moves `last_seen` only
of catalogued pools it locked, and only to a stamp of its batch (`SeenIsStamp`); it has seen
every observation it is past, and so has its savepoint (`DoneIsSeen`), so that a retry forgets
none; and nobody else moves a locked pool. The commit then joins its stamps to those of the others.

`AzureFeedProofs` proves, for any pages, links, items and limit:

* `FeedTypeCorrect`: `FeedTypeOK`, with where the loop is in a page (`FeedPlaced`).
* `FeedNeverPartial`: `NeverPartial`. The pages read are a walk from the endpoint inside `Reach`
  (`Walk`), and as long as it has not met a page twice, the lists are exactly the items of those
  pages up to the position (`Exact`). A walk that has met one can never return: the pages it
  read are closed under links and none of them is the last.
* `FeedLimitIsNoCap`: `LimitIsNoCap`, by counting: a walk without a repetition that has made as many
  requests as `Reach` has pages has read the last one.

`SeedProofs` proves, for any lists and any number of scripts at once:

* `SeedTypeCorrect`: `SeedTypeOK`. That what is inserted passes the CHECK constraints is a fact about
  `derive_spec` (`DerivedIsStorable`).
* `SeedsCompletely` and `SeedCountsHonestly`: `SeededCompletely` and `SeedCountsWhatItAdds`. No key is planted
  twice, not by two open transactions either (`KeysSeparate`), which is what waiting for the
  other transaction gives; hence what RETURNING gave is what the commit adds (`InsertedIsOpen`). Every
  size a script is past is in the catalog or among its own rows (`PastSizesCovered`).

`TickProofs` proves `TypeOK`, `EveryProviderReported`, `FailedProviderStoresNothing` and `SeededTickIsWhole` of `Tick`,
for any listing and lists, from the invariants of the feed and the seed. The providers come in
order and end in `writes` or in `failures`, never in both (`InOrder`); a list is counted off
against what the provider gave (`AzureCounted`, `SimulatedCounted`); after a seed every listed key stays in
the catalog (`SeededKnows`), since rows are only added.

`RoundTripProofs` proves, for migrations of any number and length, any injected ones that satisfy
`InjectedAssumption`, and sessions killed anywhere:

* `RoundTripTypeCorrect`: `TypeOK`. A script makes a schema of a schema (`RunIsResult`).
* `ResetReachesHead` and `ResetNeverWedges`: `ResetIsHead` and `NothingWedges`. `ResetInv` says how far a
  reset has come: nothing is left when the version is cleared (from `ResetReachesAll`, every
  object is a table or goes with one), and nothing is recorded when the upgrade starts, so that
  what `UpgradeToHead` computes is `HeadOf(chain)`.
* `VerdictsAreRight`: `StrictVerdictIsRight`, where the snapshot sees every object (`Seen = Objects`, as in the runs).
  For the real migrations (`Journey`): every object in the database is one that a script of the chain
  creates as if it were not there (`Made`). If a trip goes there and back from a schema, an
  object in it cannot be one the upgrade creates, which would fail, so the upgrade leaves it
  alone; then the downgrade does not create it either; so there is none, and the trip was one from
  nothing (`RoundFromNothing`). For an injected one: its upgrade fails, or leaves behind what was not
  there before, which no downgrade mentions (`LeftOnTrip`).

`Run` and `FlattenSeq` are recursive functions, and the library's induction theorems take an operator
for the predicate, which the provers cannot instantiate. `Least` gets a least element out of the
library's theorem on well-founded relations, which takes sets; `Climb` is induction with a set
for the predicate; `Iterated` is the existence of the function a recursive definition stands
for. The facts about scripts follow from these three.

`DeploymentProofs` proves, for any URLs, hosts, servers and environments, from the one
assumption about the code's surroundings that all spellings of this machine lead to one server:

* `SameDatabaseIsRight`: of any two URLs as the engines read them, `same_database` never takes two
  databases for one, and takes one for two only by an alias.
* `DeploymentTypeCorrect`: `TypeOK`.
* `RoundTripsSpare`: `RoundTripSparesTheApplication`. The inductive invariant adds that a loss was
  caused by accepted settings, and that there is none without an application (`Kept`): an
  application that starts with other settings must not inherit the last one's loss.
  `GuardedRoundTrip` is where guard and validator are used together: an own URL without a blank is
  one the guard is right about; with one behind, only the validator is left (`WrittenInTwoWays`), and
  it looked at a test URL that has none, since a database answered (`ReachedHasNoBlank`).

`ProbeShapesProofs` proves, for scripts of any length with any number of heredocs in waiting, the
five invariants of `ProbeShapes`, each from the exclusions that TLC shows it to need and no more:

* `ProbeShapesTypeCorrect`: `TypeOK`, whatever is excluded.
* `SpansAlwaysAgree`: `SpansAgree`, from the four constructs of the column D. The invariant `Spans` ties
  the two states together outside of words: the raw line of a body is the same but for
  a backslash bash still holds (`BodiesInStep`); a trailing backslash of the scanner (`resume`) is one of
  bash (`EscapesInStep`); and a blank behind the cursor means no word is open
  (`WordsInStep`), on which it depends whether `#` begins a comment.
* `CommandsStartInStep`: `StartInStep`. `AtCommand` says that where bash expects a command, `CALL_RE` is
  at `^` and nowhere else, also in a command a string has split.
* `RealProbesAreFound` and `NoFalsePasses`: the two verdicts. `Place` is the place of `CALL_RE` that a state
  of bash stands for. `Found`: the scanner is at least there. `CountedOnly`: it is nowhere else.
  They are the two halves of a simulation, and they need different exclusions: an
  assignment or a keyword can make the scanner count too much, never too little.

`SpansStep` is the heart of it: any symbol that keeps the spans in step does one of seven things to
the words of bash and to `CALL_RE` at once (nothing; a line ends, inside a string or not; a word
grows; a blank, an operator or a redirection ends it). `PlaceEffects` restates the seven in places;
the other proofs are a case split on them. `MatchPlaces` is `CALL_RE` place by place.
A continued line is why all of it speaks of `Here`, where `CALL_RE` will be again once the next line
is joined, and not of `rx`.

Only model-checked: liveness (`EveryTickEnds`, `FetchEnds`, `SeedsEnd`, `TickEnds`), which is
beyond the prover; `CoreSchemaReverses`, which is about the two migrations the repository has and
nothing more general; and `ProbeSuite`, a finite computation over given texts by folds: TLC
evaluates all of it, and no constant is left to generalise. That each exclusion is needed is
TLC's word too, by a counterexample.

## Not modelled

The hash behind a simulated price and the capacity score nothing calls; prices that are NaN or
beyond the column; the wording of errors and summaries; the command line of the seed; the session
factory (no caller yet); `/health` and `/ready`, which echo settings (`/ready` says ok without asking
the database); the Markdown of `docs/SERVICES.md`; the probes of `preflight.sh`, which call
external services; `verify.sh` and `check-proportion.py`, which run other tools; the
scheduler, alerts, delivery, retention, risk scores and frontend of `docs/01-DESIGN.md`, which are not
implemented at this commit.

## Plan

1. Done: the writer and its contract, the feed, the seed, the tick, the round trip of the real
   and of small migrations, the settings and guards, the probe gate and its mutation test;
   theorems about the writer and the guards.
2. Done: theorems for every safety property of the writer, the feed, the seed, the tick, the round
   trip and the settings.
3. Done: what is data, the starts of commands and the verdicts of `ProbeShapes`, for any number of
   heredocs.
4. Special prices (NaN, out of range).
