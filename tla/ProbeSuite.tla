------------------------------- MODULE ProbeSuite -------------------------------
(***************************************************************************)
(* scripts/test-probe-gate.py: the mutation test of check-probes.py.  Each *)
(* case rewrites preflight.sh or SERVICES.md and runs the check, which has *)
(* to go red, or to stay green.  Here the check itself has been broken in  *)
(* some of its parts before the suite runs, and the suite has to notice.   *)
(*                                                                         *)
(* Composes ShellScan, the scanner, with main() of check-probes.py.        *)
(***************************************************************************)
EXTENDS Naturals, FiniteSets, SequencesExt

CONSTANT Suspects   \* bound: the parts of the check of which up to two are broken

VARIABLES
  broken,    \* the parts of check-probes.py that are broken
  at,        \* the case the suite is at; 0 is the control
  failures   \* the cases that did not turn out as they should

vars == <<broken, at, failures>>

Scanner == INSTANCE ShellScan WITH Off <- broken
Shell == INSTANCE BashReader WITH Off <- {}

ScannerParts ==
  {"quotes", "heredocs", "quote_carry", "exact_terminator", "queue", "ansi_escape",
   "sentinel", "command_position", "continuation", "digit", "dotted", "escaped",
   "keyword_position", "brace_is_a_word", "verb_anchor", "comments", "id_boundary",
   "lead_chain", "herestring"}
MainParts ==
  {"empty_table", "row_guard", "vacuity", "probe_column", "missing", "undeclared",
   "never_ran", "id_filter"}
\* What no case of the suite is there for.
NotUnderTest ==
  {"dash_tabs", "two_backslashes", "dq_escape", "exempt_declares_nothing", "ran_undeclared"}
Parts == ScannerParts \cup MainParts \cup NotUnderTest

ASSUME SuspectsAssumption == Suspects \subseteq Parts

Works(part) == part \notin broken

\* The probe ids of two services; "ghost" is declared nowhere.
Ids == {"a", "b", "ghost"}

--------------------------------------------------------------------------------
(* check-probes.py. *)

\* The text as it is read for one id.
For(id, text) ==
  [i \in DOMAIN text |->
     IF text[i] = id THEN "id" ELSE IF text[i] \in Ids THEN "word" ELSE text[i]]

\* found_ids
FoundIds(text) ==
  {id \in Ids :
    Scanner!Counted(
      FoldLeft(LAMBDA s, c : Scanner!Scan(s, c), Scanner!ScanInit, For(id, text)))}

\* read_manifest: an exempt row declares nothing, and only the Probe column declares.
Declares(row) ==
  IF row.exempt /\ Works("exempt_declares_nothing") THEN {}
  ELSE row.probe \cup (IF Works("probe_column") THEN {} ELSE row.prose)

Declared(rows) == UNION {Declares(rows[i]) : i \in DOMAIN rows}

\* check_rows, and the vacuity guard of main().
ManifestProblem(rows) ==
  \/ Works("empty_table") /\ rows = <<>>
  \/ Works("row_guard") /\ \E i \in DOMAIN rows : ~rows[i].exempt /\ Declares(rows[i]) = {}
  \/ Works("vacuity") /\ Declared(rows) = {}

\* --static
Static(rows, text) ==
  LET have == FoundIds(text)
  IN  \/ ManifestProblem(rows)
      \/ Works("missing") /\ ~(Declared(rows) \subseteq have)
      \/ Works("undeclared") /\ ~(have \subseteq Declared(rows))

\* --emitted FILE: of the file's lines, those that are ids.
Emitted(rows, seen) ==
  LET emitted == IF Works("id_filter") THEN seen \cap Ids ELSE seen
  IN  \/ ManifestProblem(rows)
      \/ Works("never_ran") /\ ~(Declared(rows) \subseteq emitted)
      \/ Works("ran_undeclared") /\ ~(emitted \subseteq Declared(rows))

--------------------------------------------------------------------------------
(* The tree the cases start from: preflight.sh by lines, and the services' rows. *)

Call(id) == <<"verb", "sp", id, "sp", "dq", "word", "dq">>

Source ==
  << <<"hash", "sp", "word", "sq", "word">>,      \* a comment with an apostrophe
     <<"lead", "sp", "word", "op", "sp", "lead">>,
     <<"sp">> \o Call("a"),
     <<"lead">>,
     <<"sp">> \o Call("a"),
     <<"word">>,
     Call("b") >>
Stub == << <<"word", "sp", "word">> >>

Row(exempt, probe, prose) == [exempt |-> exempt, probe |-> probe, prose |-> prose]
Manifest ==
  <<Row(FALSE, {"a"}, {}), Row(FALSE, {"b"}, {}), Row(TRUE, {"b"}, {})>>

Text(lines) == FoldLeft(LAMBDA text, line : text \o line \o <<"nl">>, <<>>, lines)

\* The suite's own pattern for a call of one of the ids, at position i of a line.
CallsAt(line, i, ids) ==
  /\ i + 2 <= Len(line)
  /\ line[i] = "verb" /\ line[i + 1] = "sp" /\ line[i + 2] \in ids
  /\ i = 1 \/ line[i - 1] \in {"sp", "op"}
  /\ i + 2 = Len(line) \/ line[i + 3] = "sp"
Calls(line, ids) == \E i \in DOMAIN line : CallsAt(line, i, ids)

\* Seeded fault: only the first of the calls is deleted.
WithoutFirst(lines, ids) ==
  LET first == CHOOSE n \in DOMAIN lines :
                 Calls(lines[n], ids) /\ \A k \in 1..(n - 1) : ~Calls(lines[k], ids)
  IN  RemoveAt(lines, first)

Without(lines, ids) == SelectSeq(lines, LAMBDA line : ~Calls(line, ids))

Replaced(lines, id, text) ==
  [n \in DOMAIN lines |-> IF Calls(lines[n], {id}) THEN text ELSE lines[n]]

\* A `#` before whatever is on the line.
Commented(lines, id) ==
  [n \in DOMAIN lines |->
     IF Calls(lines[n], {id}) THEN <<"hash", "sp">> \o lines[n] ELSE lines[n]]

\* Seeded fault: a suffix that an id may hold.  The call has another id.
RenamedToAnId(lines, id) ==
  [n \in DOMAIN lines |->
     [i \in DOMAIN lines[n] |-> IF lines[n][i] = id THEN "ghost" ELSE lines[n][i]]]

\* `_v2` behind the id, which no id may hold.
Renamed(lines, id) ==
  [n \in DOMAIN lines |->
     IF ~Calls(lines[n], {id}) THEN lines[n]
     ELSE LET i == CHOOSE i \in DOMAIN lines[n] : CallsAt(lines[n], i, {id})
          IN  InsertAt(lines[n], i + 3, "word")]

--------------------------------------------------------------------------------
(* The cases.  `part` is the part of the check a case is there for. *)

Case(red, part, rows, lines) ==
  [red |-> red, part |-> part, rows |-> rows, text |-> Text(lines), emits |-> FALSE, seen |-> {}]

\* Each probe, or all of a service's, which are one here.
Deletions ==
  <<Case(TRUE, "missing", Manifest, Without(Source, {"a"})),
    Case(TRUE, "missing", Manifest, Without(Source, {"b"}))>>

Disguises(id) ==
  << <<"command_position", <<"word", "sp", "dq", "verb", "sp", id, "sp", "word", "dq">>>>,
     <<"quotes",
       <<"word", "sp", "dq", "word", "op", "sp", "verb", "sp", id, "sp", "word", "dq">>>>,
     <<"verb_anchor", <<"eq", id>>>>,
     <<"heredocs", <<"word", "sp", "quoted", "nl">> \o Call(id) \o <<"nl", "T">>>>,
     <<"quote_carry",
       <<"eq", "dq", "word", "nl", "verb", "sp", id, "sp", "word", "dq">>>>,
     <<"exact_terminator",
       <<"word", "sp", "quoted", "nl", "sp", "T", "nl">> \o Call(id) \o <<"nl", "T">>>>,
     <<"queue",
       <<"word", "sp", "quoted", "sp", "quoted", "nl", "T", "nl">>
         \o Call(id) \o <<"nl", "T">>>>,
     <<"ansi_escape", <<"eq", "ansi", "word", "bs", "sq", "nl">> \o Call(id) \o <<"nl", "sq">>>>,
     <<"command_position",
       <<"word", "sp", "dq", "word", "dq", "verb", "sp", id, "sp", "word">>>>,
     <<"sentinel", <<"verb", "sp", id, "dq", "word", "dq", "sp", "dq", "word", "dq">>>>,
     <<"command_position", <<"word", "sp", "word", "sp", "verb", "sp", id, "sp", "word">>>>,
     <<"continuation", <<"word", "sp", "dq", "word", "dq", "sp", "bs", "nl">> \o Call(id)>>,
     <<"digit", <<"word", "sp", "digit", "nl">> \o Call(id) \o <<"nl", "T">>>>,
     <<"dotted", <<"word", "sp", "dotted", "nl">> \o Call(id) \o <<"nl", "T">>>>,
     <<"keyword_position", <<"word", "sp", "lead", "sp", "verb", "sp", id, "sp", "word">>>>,
     <<"brace_is_a_word",
       <<"word", "sp", "brace", "verb", "sp", id, "sp", "word", "sp", "word">>>>,
     <<"escaped", <<"word", "sp", "escaped", "nl">> \o Call(id) \o <<"nl", "T">>>> >>

Then == <<"op", "sp", "lead", "sp", "word", "op", "sp", "word">>

Keeps(id) ==
  << <<"lead_chain", <<"eq", "word", "sp">> \o Call(id)>>,
     <<"lead_chain", <<"lead", "sp">> \o Call(id) \o Then>>,
     <<"lead_chain", <<"lead", "sp">> \o Call(id)>>,
     <<"lead_chain", <<"lead", "sp", "lead", "sp">> \o Call(id) \o Then>>,
     <<"lead_chain", <<"brace", "sp">> \o Call(id) \o <<"op", "sp", "word">>>>,
     <<"herestring", <<"word", "sp", "hstr", "dq", "word", "dq", "nl">> \o Call(id)>>,
     <<"continuation",
       <<"word", "sp", "op", "op", "sp">> \o Call(id) \o <<"sp", "bs", "nl", "sp", "op", "op", "sp">>
         \o Call(id)>> >>

\* Every call of the id is replaced by the shape.
Shapes(red, shapes) ==
  [i \in DOMAIN shapes |->
     Case(red, shapes[i][1], Manifest, Replaced(Source, "a", shapes[i][2]))]

\* edit_manifest: no rows, every row exempt, a blank Probe cell, ids in another column.
ManifestCases ==
  <<Case(TRUE, "empty_table", <<>>, Stub),
    Case(TRUE, "vacuity", [i \in DOMAIN Manifest |-> Row(TRUE, {}, {})], Stub),
    Case(TRUE, "row_guard", <<Row(FALSE, {}, {})>> \o Tail(Manifest),
         Without(Source, {"a"})),
    Case(TRUE, "probe_column", <<Row(FALSE, {}, {"a"})>> \o Tail(Manifest), Source)>>

EmittedCase(red, part, seen) ==
  [red |-> red, part |-> part, rows |-> Manifest, text |-> Text(Source),
   emits |-> TRUE, seen |-> seen]

Cases ==
  Deletions
    \o Shapes(TRUE, Disguises("a"))
    \o <<Case(TRUE, "comments", Manifest, Commented(Source, "a")),
         Case(TRUE, "undeclared", Manifest, Source \o <<Call("ghost")>>)>>
    \o ManifestCases
    \o <<Case(TRUE, "id_boundary", Manifest, Renamed(Source, "a"))>>
    \o Shapes(FALSE, Keeps("a"))
    \o <<EmittedCase(FALSE, "id_filter", {"a", "b", "stray"}),
         EmittedCase(TRUE, "never_ran", {"b"})>>

Red(case) ==
  IF case.emits THEN Emitted(case.rows, case.seen) ELSE Static(case.rows, case.text)

--------------------------------------------------------------------------------
Init ==
  /\ broken \in {{}} \cup {{p, q} : p, q \in Suspects}
  /\ at = 0
  /\ failures = {}

\* An untouched tree that does not pass ends the suite at once.
Control ==
  /\ at = 0
  /\ IF Static(Manifest, Text(Source))
       THEN at' = Len(Cases) + 1 /\ failures' = {0}
       ELSE at' = 1 /\ failures' = {}
  /\ UNCHANGED broken

\* Seeded fault: the case behind is blamed.
TryBlamesNext ==
  /\ at \in DOMAIN Cases
  /\ failures' = IF Red(Cases[at]) = Cases[at].red THEN failures ELSE failures \cup {at + 1}
  /\ at' = at + 1
  /\ UNCHANGED broken

Try ==
  /\ at \in DOMAIN Cases
  /\ failures' = IF Red(Cases[at]) = Cases[at].red THEN failures ELSE failures \cup {at}
  /\ at' = at + 1
  /\ UNCHANGED broken

Done == at = Len(Cases) + 1

Next == Control \/ Try \/ (Done /\ UNCHANGED vars)

Spec == Init /\ [][Next]_vars

--------------------------------------------------------------------------------
TypeOK ==
  /\ broken \subseteq Parts
  /\ at \in 0..(Len(Cases) + 1)
  /\ failures \subseteq {0} \cup DOMAIN Cases
  /\ \A n \in failures : n < at

\* What can be broken with the suite still green: the empty-table guard, "strictly
\* subsumed" by the vacuity guard (check-probes.py), what no case is there for, and the
\* filter of --emitted once stray ids are let through without a word.
Unnoticed ==
  {"empty_table"} \cup NotUnderTest
    \cup (IF "ran_undeclared" \in broken THEN {"id_filter"} ELSE {})

\* "Prove that the probe-coverage check can fail" (test-probe-gate.py): whatever one or
\* two parts of the check are broken, the suite is red unless all of them are Unnoticed.
EveryRegressionIsNoticed == Done => (failures = {}) = (broken \subseteq Unnoticed)

\* "A case earns its place by being defeated by one identifiable part": a part that is
\* broken alone is noticed by a case that is there for it.
NoticedByItsCase ==
  Done /\ Cardinality(broken) = 1 /\ failures # {} =>
    \E n \in failures : n = 0 \/ Cases[n].part \in broken

\* "bash was run against all four": a case asks for green where bash hands every
\* declared id to an outcome call and no other, and for red elsewhere.
BashAgrees ==
  at \in DOMAIN Cases /\ ~Cases[at].emits /\ broken = {} =>
    LET case == Cases[at]
        ran == {id \in Ids :
                 FoldLeft(LAMBDA h, c : Shell!Bash(h, c), Shell!BashInit,
                          For(id, case.text)).ran # {}}
        rows == {case.rows[i] : i \in DOMAIN case.rows}
        declared == UNION {row.probe : row \in {row \in rows : ~row.exempt}}
    IN  case.red = \/ ran # declared \/ declared = {}
                   \/ \E row \in rows : ~row.exempt /\ row.probe = {}
================================================================================
