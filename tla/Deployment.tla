------------------------------- MODULE Deployment -------------------------------
(***************************************************************************)
(* Which database a process works on: the validators of Settings           *)
(* (app/core/config.py), the target env.py picks, the guard in front of    *)
(* the reversibility tests, and the fixtures that truncate.  An            *)
(* application keeps data in one database while people run migrations and  *)
(* tests with settings of their own.                                       *)
(***************************************************************************)
EXTENDS Naturals, FiniteSets

CONSTANTS
  Urls,      \* the database URLs people write
  Server,    \* the server each host name leads to
  Loopback,  \* _LOOPBACK of reversibility.py: the spellings of this machine
  MentionPooler,  \* the URLs with "-pooler" in them, in the host or elsewhere
  Environments,  \* PREEMPT_ENVIRONMENT
  NotRunning     \* the application is down

VARIABLES
  app,      \* the settings the application runs with, or NotRunning
  content,  \* of each database: "nothing", "schema" or "data"
  up,       \* the servers that answer
  loss      \* history: what emptied the application's database last

vars == <<app, content, up, loss>>

Blanks == {"none", "before", "behind"}

\* A URL: `text` tells apart the strings of one host, port and database, as another
\* role does; `blank` is where it has one that was typed along; port 0 is none.
Unset == [host |-> "", port |-> 0, name |-> "", text |-> 0, blank |-> "none"]

Settings == [environment : Environments, database_url : Urls \cup {Unset},
             test_database_url : Urls \cup {Unset}]

ASSUME DeploymentAssumption ==
  /\ Urls \subseteq [host : STRING, port : Nat, name : STRING, text : Nat, blank : Blanks]
  /\ Unset \notin Urls
  /\ NotRunning \notin Settings
  /\ \A u, v \in Urls : u.host \in Loopback /\ v.host \in Loopback => Server[u.host] = Server[v.host]

Port(url) == IF url.port = 0 THEN 5432 ELSE url.port

\* make_url: a blank before the scheme is an error, one behind the URL ends the name of
\* the database.  Nothing but the validator of Settings ever strips it.
Parses(url) == url.blank # "before"
Name(url) == <<url.name, url.blank = "behind">>

\* The database a URL that parses leads to.  Nobody makes one with a blank in its name.
Db(url) == [server |-> Server[url.host], port |-> Port(url), name |-> Name(url)]
Databases == {Db(url) : url \in {u \in Urls : u.blank = "none"}}

Stripped(url) == [url EXCEPT !.blank = "none"]

--------------------------------------------------------------------------------
(* config.py: a process whose settings are refused does not start. *)

\* Seeded fault: the validators are not run.
StartsUnchecked ==
  /\ app = NotRunning
  /\ app' \in {s \in Settings : s.database_url # Unset}
  /\ UNCHANGED <<content, up, loss>>

TestDatabaseDiffers(s) ==
  s.database_url # Unset /\ s.test_database_url # Unset =>
    Stripped(s.database_url) # Stripped(s.test_database_url)

ProductionIsPooled(s) ==
  s.environment = "production" /\ s.database_url # Unset => s.database_url \in MentionPooler

Accepted == {s \in Settings : ProductionIsPooled(s) /\ TestDatabaseDiffers(s)}

\* env.py: the URL alembic works on; Unset raises.
MigrationUrl(s, target) ==
  IF target = "test" THEN s.test_database_url ELSE s.database_url

\* An engine connects: the URL parses, and its server answers and has the database.
Reachable(url) ==
  /\ url # Unset
  /\ Parses(url)
  /\ Server[url.host] \in up
  /\ Db(url) \in Databases

--------------------------------------------------------------------------------
(* reversibility.py and test_reversibility.py. *)

IsLoopback(url) == url.host \in Loopback

SameDatabase(u, v) ==
  /\ u.host = v.host \/ (IsLoopback(u) /\ IsLoopback(v))
  /\ Port(u) = Port(v)
  /\ Name(u) = Name(v)

\* Seeded fault: the guard does nothing unless there are two URLs to compare.
GuardsIfBoth(s) ==
  s.database_url # Unset => ~SameDatabase(s.database_url, s.test_database_url)

\* _skip_unless_database, past its skips; make_url raises on what does not parse.
GuardLetsRun(s) ==
  /\ Parses(s.test_database_url)
  /\ IF s.database_url # Unset
       THEN Parses(s.database_url) /\ ~SameDatabase(s.database_url, s.test_database_url)
       ELSE IsLoopback(s.test_database_url)

--------------------------------------------------------------------------------
Init ==
  /\ app = NotRunning
  /\ content = [db \in Databases |-> "nothing"]
  /\ up = {Server[url.host] : url \in Urls}
  /\ loss = {}

TypeOK ==
  /\ app \in Accepted \cup {NotRunning}
  /\ content \in [Databases -> {"nothing", "schema", "data"}]
  /\ up \subseteq {Server[url.host] : url \in Urls}
  /\ Cardinality(loss) <= 1
  /\ app = NotRunning => loss = {}
  /\ \A l \in loss : l.by \in {"truncate", "round_trip"} /\ l.settings \in Accepted

StartApp ==
  /\ app = NotRunning
  /\ app' \in {s \in Accepted : s.database_url # Unset}
  /\ UNCHANGED <<content, up, loss>>

\* It is stopped, and may come back with other settings.
StopApp ==
  /\ app # NotRunning
  /\ app' = NotRunning
  /\ loss' = {}
  /\ UNCHANGED <<content, up>>

AppDb == Db(app.database_url)

\* Someone runs `alembic upgrade head`, for the application or with -x db=test.
Migrate ==
  /\ \E s \in Accepted, target \in {"test", "none"} :
       LET url == MigrationUrl(s, target)
       IN  /\ Reachable(url)
           /\ content[Db(url)] = "nothing"
           /\ content' = [content EXCEPT ![Db(url)] = "schema"]
  /\ UNCHANGED <<app, up, loss>>

\* The application's seed or tick commits rows.
Ingest ==
  /\ app # NotRunning
  /\ Reachable(app.database_url)
  /\ content[AppDb] = "schema"
  /\ content' = [content EXCEPT ![AppDb] = "data"]
  /\ loss' = {}
  /\ UNCHANGED <<app, up>>

\* What a run of the tests leaves in a database, and whom it hurt.
Empties(by, s, url) ==
  /\ content' = [content EXCEPT ![Db(url)] = "schema"]
  /\ loss' = IF app # NotRunning /\ Db(url) = AppDb /\ content[AppDb] = "data"
               THEN {[by |-> by, settings |-> s]} ELSE loss
  /\ UNCHANGED <<app, up>>

\* The fixtures of test_writer.py and test_catalog.py: TRUNCATE, behind the settings'
\* own check and nothing else.  Without tables it fails, and without a URL it is skipped.
Truncate ==
  \E s \in Accepted :
    /\ Reachable(s.test_database_url)
    /\ content[Db(s.test_database_url)] # "nothing"
    /\ Empties("truncate", s, s.test_database_url)

\* The reversibility tests: every table is dropped, and the schema is built again.
RoundTrip ==
  \E s \in Accepted :
    /\ Reachable(s.test_database_url)
    /\ GuardLetsRun(s)
    /\ Reachable(MigrationUrl(s, "test"))
    /\ Empties("round_trip", s, MigrationUrl(s, "test"))

\* A server stops answering, or answers again.
Outage == up # {} /\ \E server \in up : up' = up \ {server} /\ UNCHANGED <<app, content, loss>>
Recover ==
  /\ up' = {Server[url.host] : url \in Urls} /\ up' # up
  /\ UNCHANGED <<app, content, loss>>

Next ==
  StartApp \/ StopApp \/ Migrate \/ Ingest \/ Truncate \/ RoundTrip \/ Outage \/ Recover

Spec == Init /\ [][Next]_vars

--------------------------------------------------------------------------------
\* Two names of one server which are no spellings of this machine, such as the pooled
\* and the direct endpoint of Neon: nothing in the code knows that they are one.
Aliases(u, v) ==
  /\ u.host # v.host /\ Server[u.host] = Server[v.host]
  /\ ~(IsLoopback(u) /\ IsLoopback(v))

\* "Everything here drives a database to base; against the application database that
\* destroys it" (reversibility.py): a round trip that emptied the application's database
\* was run with settings that name another database or none, and then, in the last case,
\* it is on this machine.  Settings that do name it call it by another host's name; or they
\* have a blank behind it, which validator and guard read differently, and are written
\* in two ways besides.
RoundTripSparesTheApplication ==
  \A l \in loss : l.by = "round_trip" =>
    LET own == l.settings.database_url
        target == l.settings.test_database_url
    IN  IF own = Unset
          THEN IsLoopback(target) /\ Server[app.database_url.host] = Server[target.host]
          ELSE Db(Stripped(own)) = AppDb =>
                 \/ Aliases(own, target)
                 \/ own.blank = "behind" /\ Stripped(own) # target
================================================================================
