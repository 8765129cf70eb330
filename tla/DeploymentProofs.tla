---------------------------- MODULE DeploymentProofs ----------------------------
(***************************************************************************)
(* Proofs about Deployment, for any URLs, hosts and servers.               *)
(***************************************************************************)
EXTENDS Deployment, FiniteSetTheorems, TLAPS

\* same_database is right about every two URLs that parse, as the engines read them, with
\* the blank behind a URL in the name of its database: it takes no two databases for one,
\* and misses one only by two names of a server that are no spellings of this machine
\* (reversibility.py, same_database).
THEOREM SameDatabaseIsRight ==
  ASSUME NEW u \in Urls, NEW v \in Urls
  PROVE  /\ SameDatabase(u, v) => Db(u) = Db(v)
         /\ Db(u) = Db(v) => SameDatabase(u, v) \/ Aliases(u, v)
<1>1. ASSUME SameDatabase(u, v) PROVE Db(u) = Db(v)
  <2>1. Server[u.host] = Server[v.host]
    BY <1>1, DeploymentAssumption DEF SameDatabase, IsLoopback
  <2> QED BY <1>1, <2>1 DEF SameDatabase, Db
<1>2. ASSUME Db(u) = Db(v), ~SameDatabase(u, v) PROVE Aliases(u, v)
  <2>1. Server[u.host] = Server[v.host] /\ Port(u) = Port(v) /\ Name(u) = Name(v)
    BY <1>2 DEF Db
  <2> QED BY <1>2, <2>1 DEF SameDatabase, Aliases
<1> QED BY <1>1, <1>2

--------------------------------------------------------------------------------
\* What is kept of the types: enough to know that a loss was caused by settings that
\* were accepted, and that there is none without an application.
Kept ==
  /\ app \in Accepted \cup {NotRunning}
  /\ \A l \in loss : l.settings \in Accepted
  /\ app = NotRunning => loss = {}

IInv == Kept /\ RoundTripSparesTheApplication

\* The validator compared the two strings before the tests ran, without their blanks.
LEMMA WrittenInTwoWays ==
  ASSUME NEW s \in Accepted, s.database_url # Unset, s.test_database_url # Unset
  PROVE  Stripped(s.database_url) # Stripped(s.test_database_url)
BY DEF Accepted, TestDatabaseDiffers

\* A URL without a blank is what is left of it without blanks.
LEMMA NothingToStrip ==
  ASSUME NEW url \in Urls, url.blank = "none"
  PROVE  Stripped(url) = url
BY DeploymentAssumption DEF Stripped

\* Nobody has made a database with a blank in its name, so what answers has none.
LEMMA ReachedHasNoBlank ==
  ASSUME NEW url \in Urls, Reachable(url)
  PROVE  url.blank = "none"
<1>1. PICK u \in Urls : u.blank = "none" /\ Db(url) = Db(u)
  BY DEF Reachable, Databases
<1>2. Name(url) = Name(u)
  BY <1>1 DEF Db
<1>3. url.blank # "behind"
  BY <1>1, <1>2 DEF Name
<1>4. url.blank # "before"
  BY DEF Reachable, Parses
<1> QED BY <1>3, <1>4, DeploymentAssumption DEF Blanks

\* A round trip that got past the guard: the new loss is as the invariant says.
LEMMA GuardedRoundTrip ==
  ASSUME NEW s \in Accepted,
         GuardLetsRun(s), Reachable(s.test_database_url),
         Db(s.test_database_url) = AppDb
  PROVE  IF s.database_url = Unset
           THEN /\ IsLoopback(s.test_database_url)
                /\ Server[app.database_url.host] = Server[s.test_database_url.host]
           ELSE Db(Stripped(s.database_url)) = AppDb =>
                  \/ Aliases(s.database_url, s.test_database_url)
                  \/ /\ s.database_url.blank = "behind"
                     /\ Stripped(s.database_url) # s.test_database_url
<1> DEFINE own == s.database_url
           target == s.test_database_url
<1>1. own \in Urls \cup {Unset} /\ target \in Urls
  BY DEF Accepted, Settings, Reachable
<1>2. CASE own = Unset
  BY <1>2 DEF GuardLetsRun, Db, AppDb
<1>3. CASE own # Unset
  <2> SUFFICES ASSUME Db(Stripped(own)) = AppDb
               PROVE  \/ Aliases(own, target)
                      \/ own.blank = "behind" /\ Stripped(own) # target
    BY <1>3
  <2>1. own \in Urls /\ own.blank \in {"none", "behind"} /\ ~SameDatabase(own, target)
    BY <1>1, <1>3, DeploymentAssumption DEF GuardLetsRun, Parses, Blanks
  <2>2. CASE own.blank = "none"
    <3>1. Db(own) = Db(target)
      BY <2>1, <2>2, NothingToStrip
    <3> QED BY <1>1, <2>1, <3>1, SameDatabaseIsRight
  <2>3. CASE own.blank = "behind"
    <3>1. target # Unset /\ Stripped(target) = target
      BY <1>1, ReachedHasNoBlank, NothingToStrip DEF Reachable
    <3> QED BY <1>3, <2>3, <3>1, WrittenInTwoWays
  <2> QED BY <2>1, <2>2, <2>3
<1> QED BY <1>2, <1>3

LEMMA Inductive == IInv /\ [Next]_vars => IInv'
<1> SUFFICES ASSUME IInv, [Next]_vars PROVE IInv'
  OBVIOUS
<1> USE DEF IInv
<1>1. CASE StartApp
  <2>1. loss = {} /\ loss' = {} /\ app' \in Accepted
    BY <1>1 DEF StartApp, Kept
  <2> QED BY <2>1 DEF Kept, RoundTripSparesTheApplication
<1>2. CASE StopApp
  BY <1>2 DEF StopApp, Kept, RoundTripSparesTheApplication
<1>3. CASE Ingest
  BY <1>3 DEF Ingest, Kept, RoundTripSparesTheApplication
<1>4. CASE app' = app /\ loss' = loss
  BY <1>4 DEF Kept, RoundTripSparesTheApplication, AppDb
<1>5. CASE Truncate
  <2>1. PICK s \in Accepted :
          Reachable(s.test_database_url) /\ Empties("truncate", s, s.test_database_url)
    BY <1>5 DEF Truncate
  <2>2. CASE loss' = loss
    BY <1>4, <2>1, <2>2 DEF Empties
  <2>3. CASE loss' = {[by |-> "truncate", settings |-> s]} /\ app # NotRunning
    <3>1. app' = app
      BY <2>1 DEF Empties
    <3> QED BY <2>3, <3>1 DEF Kept, RoundTripSparesTheApplication
  <2> QED BY <2>1, <2>2, <2>3 DEF Empties
<1>6. CASE RoundTrip
  <2>1. PICK s \in Accepted :
          /\ Reachable(s.test_database_url) /\ GuardLetsRun(s)
          /\ Empties("round_trip", s, s.test_database_url)
    BY <1>6 DEF RoundTrip, MigrationUrl
  <2>2. CASE loss' = loss
    BY <1>4, <2>1, <2>2 DEF Empties
  <2>3. CASE /\ loss' = {[by |-> "round_trip", settings |-> s]}
             /\ app # NotRunning /\ Db(s.test_database_url) = AppDb
    <3>1. app' = app
      BY <2>1 DEF Empties
    <3>2. Kept'
      BY <2>3, <3>1 DEF Kept
    <3>3. RoundTripSparesTheApplication'
      BY <2>1, <2>3, <3>1, GuardedRoundTrip DEF RoundTripSparesTheApplication, AppDb
    <3> QED BY <3>2, <3>3
  <2> QED BY <2>1, <2>2, <2>3 DEF Empties
<1>7. CASE Migrate \/ Outage \/ Recover \/ UNCHANGED vars
  BY <1>4, <1>7 DEF Migrate, Outage, Recover, vars
<1> QED BY <1>1, <1>2, <1>3, <1>5, <1>6, <1>7 DEF Next

LEMMA InitIInv == Init => IInv
BY DEF Init, IInv, Kept, RoundTripSparesTheApplication

\* Round trips spare the application's database for any set of URLs, hosts and servers.
THEOREM RoundTripsSpare == Spec => []RoundTripSparesTheApplication
<1>1. Spec => []IInv
  BY InitIInv, Inductive, PTL DEF Spec
<1>2. IInv => RoundTripSparesTheApplication
  BY DEF IInv
<1> QED BY <1>1, <1>2, PTL

--------------------------------------------------------------------------------
\* What emptied the application's database is one thing, done with accepted settings.
LEMMA EmptiesTyped ==
  ASSUME TypeOK, NEW by \in {"truncate", "round_trip"}, NEW s \in Accepted, NEW url,
         Empties(by, s, url)
  PROVE  TypeOK'
<1>1. /\ content' = [content EXCEPT ![Db(url)] = "schema"]
      /\ app' = app /\ up' = up
      /\ loss' = loss \/ (app # NotRunning /\ loss' = {[by |-> by, settings |-> s]})
  BY DEF Empties
<1>2. content' \in [Databases -> {"nothing", "schema", "data"}]
  BY <1>1 DEF TypeOK
<1>3. CASE loss' = loss
  BY <1>1, <1>2, <1>3 DEF TypeOK
<1>4. CASE app # NotRunning /\ loss' = {[by |-> by, settings |-> s]}
  <2>1. Cardinality(loss') = 1
    BY <1>4, FS_Singleton
  <2>2. \A l \in loss' : l.by \in {"truncate", "round_trip"} /\ l.settings \in Accepted
    BY <1>4
  <2> QED BY <1>1, <1>2, <1>4, <2>1, <2>2 DEF TypeOK
<1> QED BY <1>1, <1>3, <1>4

\* Every process that runs was let through by the validators of Settings, every loss was
\* caused by settings that were, and every database is empty, migrated or filled (TypeOK).
THEOREM DeploymentTypeCorrect == Spec => []TypeOK
<1>1. Cardinality({}) = 0
  BY FS_EmptySet
<1>2. Init => TypeOK
  BY <1>1 DEF Init, TypeOK
<1>3. TypeOK /\ [Next]_vars => TypeOK'
  <2> SUFFICES ASSUME TypeOK, [Next]_vars PROVE TypeOK'
    OBVIOUS
  <2>1. CASE StartApp
    BY <2>1 DEF StartApp, TypeOK
  <2>2. CASE StopApp
    BY <1>1, <2>2 DEF StopApp, TypeOK
  <2>3. CASE Migrate
    BY <2>3 DEF Migrate, TypeOK
  <2>4. CASE Ingest
    <3>1. content' = [content EXCEPT ![AppDb] = "data"] /\ loss' = {} /\ app' = app /\ up' = up
      BY <2>4 DEF Ingest
    <3>2. content' \in [Databases -> {"nothing", "schema", "data"}]
      BY <3>1 DEF TypeOK
    <3> QED BY <1>1, <3>1, <3>2 DEF TypeOK
  <2>5. CASE Truncate
    BY <2>5, EmptiesTyped DEF Truncate
  <2>6. CASE RoundTrip
    BY <2>6, EmptiesTyped DEF RoundTrip
  <2>7. CASE Outage \/ Recover \/ UNCHANGED vars
    BY <2>7 DEF Outage, Recover, vars, TypeOK
  <2> QED BY <2>1, <2>2, <2>3, <2>4, <2>5, <2>6, <2>7 DEF Next
<1> QED BY <1>2, <1>3, PTL DEF Spec
================================================================================
