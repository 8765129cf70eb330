---------------------------- MODULE RoundTripProofs ----------------------------
(***************************************************************************)
(* Proofs about RoundTrip, for every list of migrations, every injected    *)
(* one, and sessions killed anywhere.                                      *)
(*                                                                         *)
(*   RoundTripTypeCorrect   what the commands leave is a schema            *)
(*   ResetReachesHead       the reset ends at head                         *)
(*   ResetNeverWedges       it fails only where it is bound to             *)
(*   VerdictsAreRight       the verdict is the one of an empty database    *)
(*                                                                         *)
(* A script is run by a recursive function, and lists of scripts are put   *)
(* together by one.  What they compute is found by induction over sets of  *)
(* natural numbers: Least, Climb and Iterated.                             *)
(***************************************************************************)
EXTENDS RoundTrip, WellFoundedInduction, SequenceTheorems, TLAPS

--------------------------------------------------------------------------------
\* The order of the natural numbers, as the set of pairs the library's definitions take.
Below == {ss \in Nat \X Nat : ss[1] < ss[2]}

\* A set of natural numbers has a least element: what induction comes to where the
\* library's own theorem, with its operator for the predicate, cannot be used.
LEMMA Least ==
  ASSUME NEW S, S \subseteq Nat, S # {}
  PROVE  \E m \in S : \A k \in S : m <= k
<1>1. IsWellFoundedOn(Below, Nat)
  BY NatLessThanWellFounded DEF OpToRel, Below
<1>2. PICK m \in S : \A k \in S : <<k, m>> \notin Below
  BY <1>1, WFMin
<1>3. \A k \in S : ~(k < m)
  <2>1. SUFFICES ASSUME NEW k \in S, k < m PROVE FALSE
    OBVIOUS
  <2>2. k \in Nat /\ m \in Nat
    OBVIOUS
  <2>3. <<k, m>> \in Below
    BY <2>1, <2>2 DEF Below
  <2> QED BY <1>2, <2>3
<1> QED BY <1>2, <1>3

\* Induction from m up to n, with a set for the predicate.
LEMMA Climb ==
  ASSUME NEW m \in Nat, NEW n \in Nat, NEW S, m \in S, \A i \in m+1..n : i - 1 \in S => i \in S
  PROVE  \A i \in m..n : i \in S
<1> DEFINE Rest == {i \in m..n : i \notin S}
<1>1. SUFFICES ASSUME Rest # {} PROVE FALSE
  OBVIOUS
<1>2. Rest \subseteq Nat
  OBVIOUS
<1>3. PICK k \in Rest : \A j \in Rest : k <= j
  <2> HIDE DEF Rest
  <2> QED BY <1>1, <1>2, Least
<1>4. k \in m+1..n /\ k - 1 \in m..n /\ ~(k <= k - 1)
  OBVIOUS
<1>5. k - 1 \in S
  BY <1>3, <1>4
<1> QED BY <1>4, <1>5

\* A function for each step; the values those functions make of c, one after the other.
StepsIn(m, n, D) == [m..n -> [D -> D]]
Iterates(g, m, n, c, F) == g[m] = c /\ \A i \in m..n : i # m => g[i] = F[i][g[i-1]]

\* From a value in D, and a function for each step, there is a sequence of values: what
\* a recursive definition stands for exists.
LEMMA Iterated ==
  ASSUME NEW m \in Nat, NEW n \in Nat, m <= n, NEW D, NEW c \in D,
         NEW F \in StepsIn(m, n, D)
  PROVE  \E g \in [m..n -> D] : Iterates(g, m, n, c, F)
<1> USE DEF StepsIn
<1> DEFINE Good(g, k) == Iterates(g, m, k, c, F)
           Reached == {k \in m..n : \E g \in [m..k -> D] : Good(g, k)}
<1>1. m \in Reached
  <2>1. [i \in m..m |-> c] \in [m..m -> D] /\ Good([i \in m..m |-> c], m)
    BY DEF Iterates
  <2>2. m \in m..n
    OBVIOUS
  <2> HIDE DEF Good
  <2> QED BY <2>1, <2>2
<1>2. \A k \in m+1..n : k - 1 \in Reached => k \in Reached
  <2> SUFFICES ASSUME NEW k \in m+1..n, k - 1 \in Reached PROVE k \in Reached
    OBVIOUS
  <2>1. PICK g \in [m..k-1 -> D] : Good(g, k - 1)
    OBVIOUS
  <2> DEFINE h == [i \in m..k |-> IF i = k THEN F[k][g[k-1]] ELSE g[i]]
  <2>2. h \in [m..k -> D] /\ h[m] = c
    BY <2>1 DEF Iterates
  <2>3. \A i \in m..k : i # m => h[i] = F[i][h[i-1]]
    <3>1. SUFFICES ASSUME NEW i \in m..k, i # m PROVE h[i] = F[i][h[i-1]]
      OBVIOUS
    <3>2. CASE i = k
      BY <3>2
    <3>3. CASE i # k
      <4>1. i \in m..k-1 /\ i - 1 \in m..k /\ i - 1 # k
        BY <3>1, <3>3
      <4>2. h[i] = g[i] /\ h[i-1] = g[i-1]
        BY <3>3, <4>1
      <4>3. g[i] = F[i][g[i-1]]
        BY <2>1, <3>1, <4>1 DEF Iterates
      <4> QED BY <4>2, <4>3
    <3> QED BY <3>2, <3>3
  <2> HIDE DEF h
  <2>4. Good(h, k)
    BY <2>2, <2>3 DEF Iterates
  <2>5. k \in m..n
    OBVIOUS
  <2> HIDE DEF Good
  <2> QED BY <2>2, <2>4, <2>5
<1>3. n \in Reached
  <2>1. n \in m..n
    OBVIOUS
  <2> HIDE DEF Reached
  <2> QED BY <1>1, <1>2, <2>1, Climb
<1> QED BY <1>3

--------------------------------------------------------------------------------
\* The schemas as a set, and what a run comes to.
Schemas == UNION {[d -> Definitions] : d \in SUBSET Objects}
Results == [ok : BOOLEAN, schema : Schemas]

\* They are what IsSchema says.
LEMMA SchemasAreSchemas == ASSUME NEW s PROVE IsSchema(s) <=> s \in Schemas
  BY DEF IsSchema, Schemas

\* The empty database has a schema, of nothing.
LEMMA EmptyIsSchema == Empty \in Schemas /\ DOMAIN Empty = {}
  BY DEF Empty, Schemas

\* What a statement that is not refused makes of a schema.
LEMMA AfterIsSchema ==
  ASSUME NEW s \in Schemas, NEW st \in Statements, ~Refused(st, s)
  PROVE  After(st, s) \in Schemas
<1>1. DOMAIN s \subseteq Objects /\ s \in [DOMAIN s -> Definitions]
  BY DEF Schemas
<1>2. CASE st.op = "drop"
  <2>1. After(st, s) \in [DOMAIN s \ {st.obj} -> Definitions]
    BY <1>1, <1>2 DEF After, Without, Restrict
  <2> QED BY <1>1, <2>1 DEF Schemas
<1>3. CASE st.op \in {"create", "ensure", "alter"}
  <2>1. st.obj \in Objects /\ st.def \in Definitions
    BY <1>3 DEF Statements
  <2> DEFINE grown == [o \in DOMAIN s \cup {st.obj} |-> IF o = st.obj THEN st.def ELSE s[o]]
  <2>2. grown \in [DOMAIN s \cup {st.obj} -> Definitions]
    BY <1>1, <2>1
  <2>3. grown \in Schemas
    BY <1>1, <2>1, <2>2 DEF Schemas
  <2> QED BY <1>3, <2>3 DEF After
<1> QED BY <1>2, <1>3 DEF Statements, Refused

\* A statement, in the result of those before it.
Advance(st, r) ==
  IF ~r.ok \/ Refused(st, r.schema) THEN [r EXCEPT !.ok = FALSE]
  ELSE [r EXCEPT !.schema = After(st, r.schema)]

\* It goes from result to result.
LEMMA AdvanceIsResult ==
  ASSUME NEW st \in Statements, NEW r \in Results
  PROVE  Advance(st, r) \in Results
<1>1. r.ok \in BOOLEAN /\ r.schema \in Schemas
  BY DEF Results
<1>2. CASE ~r.ok \/ Refused(st, r.schema)
  BY <1>2 DEF Advance, Results
<1>3. CASE ~(~r.ok \/ Refused(st, r.schema))
  <2>1. After(st, r.schema) \in Schemas
    BY <1>1, <1>3, AfterIsSchema
  <2> QED BY <1>3, <2>1 DEF Advance, Results
<1> QED BY <1>2, <1>3

\* `done` of Run is the sequence of results it says it is.
LEMMA RunIsIterated ==
  ASSUME NEW script \in Seq(Statements), NEW s \in Schemas
  PROVE  \E g \in [0..Len(script) -> Results] :
           /\ g[0] = [ok |-> TRUE, schema |-> s]
           /\ \A i \in 1..Len(script) : g[i] = Advance(script[i], g[i-1])
           /\ Run(script, s) = g[Len(script)]
<1> DEFINE n == Len(script)
           Start == [ok |-> TRUE, schema |-> s]
           Eq(g) == g = [i \in 0..n |-> IF i = 0 THEN Start ELSE Advance(script[i], g[i-1])]
           Done == CHOOSE g : Eq(g)
<1>1. n \in Nat /\ \A i \in 1..n : script[i] \in Statements
  OBVIOUS
<1>2. Start \in Results
  BY DEF Results
<1>3. Run(script, s) = Done[n]
  BY DEF Run, Advance
<1> HIDE DEF n
<1>4. \E g : Eq(g)
  <2> DEFINE F == [i \in 0..n |-> [r \in Results |-> IF i = 0 THEN Start ELSE Advance(script[i], r)]]
  <2>0. \A i \in 0..n : [r \in Results |-> IF i = 0 THEN Start ELSE Advance(script[i], r)] \in [Results -> Results]
    <3>1. TAKE i \in 0..n
    <3>2. i = 0 \/ i \in 1..n
      BY <1>1
    <3> QED BY <1>1, <1>2, <3>2, AdvanceIsResult
  <2>1. F \in StepsIn(0, n, Results)
    BY <2>0 DEF StepsIn
  <2>2. \A i \in 1..n : \A r \in Results : F[i][r] = Advance(script[i], r)
    BY <1>1
  <2> HIDE DEF F, Start
  <2>3. PICK g \in [0..n -> Results] : Iterates(g, 0, n, Start, F)
    <3>1. 0 \in Nat /\ 0 <= n
      BY <1>1
    <3> QED BY <1>1, <1>2, <2>1, <3>1, Iterated
  <2>4. \A i \in 1..n : g[i] = Advance(script[i], g[i-1])
    BY <1>1, <2>2, <2>3 DEF Iterates
  <2>5. Eq(g)
    BY <1>1, <2>3, <2>4 DEF Iterates
  <2> HIDE DEF Eq
  <2> QED BY <2>5
<1>5. Eq(Done)
  <2> HIDE DEF Eq
  <2> QED BY <1>4
<1> HIDE DEF Done, Start
<1>6. DOMAIN Done = 0..n /\ Done[0] = Start /\ \A i \in 1..n : Done[i] = Advance(script[i], Done[i-1])
  BY <1>1, <1>5
<1>7. Done = [i \in 0..n |-> Done[i]]
  BY <1>5
<1> HIDE DEF Eq
<1>8. \A i \in 0..n : Done[i] \in Results
  <2> DEFINE S == {i \in 0..n : Done[i] \in Results}
  <2>1. 0 \in S
    BY <1>1, <1>2, <1>6
  <2>2. \A i \in 0+1..n : i - 1 \in S => i \in S
    BY <1>1, <1>6, AdvanceIsResult
  <2>3. \A i \in 0..n : i \in S
    <3> HIDE DEF S
    <3> QED BY <1>1, <2>1, <2>2, Climb
  <2> QED BY <2>3
<1>9. Done \in [0..n -> Results]
  BY <1>7, <1>8
<1> QED BY <1>3, <1>6, <1>9 DEF n, Start

\* A run without an error goes from schema to schema.
Passes(h, script, s) ==
  /\ h \in [0..Len(script) -> Schemas]
  /\ h[0] = s
  /\ \A i \in 1..Len(script) : ~Refused(script[i], h[i-1]) /\ h[i] = After(script[i], h[i-1])

\* A script comes to a result, and without an error by way of schemas.
LEMMA RunIsResult ==
  ASSUME NEW script \in Seq(Statements), NEW s \in Schemas
  PROVE  /\ Run(script, s) \in Results
         /\ Run(script, s).ok =>
              \E h : Passes(h, script, s) /\ Run(script, s).schema = h[Len(script)]
<1> DEFINE n == Len(script)
<1>1. PICK g \in [0..n -> Results] :
        /\ g[0] = [ok |-> TRUE, schema |-> s]
        /\ \A i \in 1..n : g[i] = Advance(script[i], g[i-1])
        /\ Run(script, s) = g[n]
  BY RunIsIterated
<1>2. n \in Nat
  OBVIOUS
<1> HIDE DEF n
<1>3. \A i \in 0..n : g[i].ok \in BOOLEAN /\ g[i].schema \in Schemas
  BY <1>1 DEF Results
<1>4. ASSUME g[n].ok
      PROVE  \A i \in 0..n : g[i].ok
  <2>1. \A i \in 1..n : ~g[i-1].ok => ~g[i].ok
    <3>1. SUFFICES ASSUME NEW i \in 1..n, ~g[i-1].ok PROVE ~g[i].ok
      OBVIOUS
    <3>2. i - 1 \in 0..n
      BY <1>2
    <3>3. g[i] = [g[i-1] EXCEPT !.ok = FALSE] /\ g[i-1] \in [ok : BOOLEAN, schema : Schemas]
      BY <1>1, <3>1, <3>2 DEF Advance, Results
    <3> QED BY <3>3
  <2>2. SUFFICES ASSUME NEW k \in 0..n, ~g[k].ok PROVE FALSE
    OBVIOUS
  <2> DEFINE Down == {i \in k..n : ~g[i].ok}
  <2>3. k \in Down
    BY <1>2, <2>2
  <2>4. \A i \in k+1..n : i - 1 \in Down => i \in Down
    BY <1>2, <2>1
  <2>5. n \in Down
    <3>1. n \in k..n /\ k \in Nat
      BY <1>2
    <3> HIDE DEF Down
    <3> QED BY <1>2, <2>3, <2>4, <3>1, Climb
  <2> QED BY <1>4, <2>5
<1>5. ASSUME g[n].ok PROVE \E h : Passes(h, script, s) /\ g[n].schema = h[n]
  <2> DEFINE h == [i \in 0..n |-> g[i].schema]
  <2>1. h \in [0..n -> Schemas] /\ h[0] = s /\ h[n] = g[n].schema
    BY <1>1, <1>2, <1>3
  <2>2. \A i \in 1..n : ~Refused(script[i], h[i-1]) /\ h[i] = After(script[i], h[i-1])
    <3>1. TAKE i \in 1..n
    <3>2. i - 1 \in 0..n /\ i \in 0..n
      BY <1>2
    <3>3. g[i].ok /\ g[i-1].ok /\ g[i-1] \in [ok : BOOLEAN, schema : Schemas]
      BY <1>1, <1>4, <1>5, <3>2 DEF Results
    <3>4. g[i] = Advance(script[i], g[i-1])
      BY <1>1
    <3>5. ~Refused(script[i], g[i-1].schema)
      BY <3>3, <3>4 DEF Advance
    <3>6. g[i].schema = After(script[i], g[i-1].schema)
      BY <3>3, <3>4, <3>5 DEF Advance
    <3> QED BY <3>2, <3>5, <3>6
  <2> HIDE DEF h
  <2>3. Passes(h, script, s)
    BY <2>1, <2>2 DEF Passes, n
  <2> QED BY <2>1, <2>3
<1> QED BY <1>1, <1>2, <1>3, <1>5 DEF n

\* So is `flatten` of FlattenSeq.
LEMMA FlattenIsIterated ==
  ASSUME NEW X, NEW ss \in Seq(Seq(X)), Len(ss) > 0
  PROVE  \E g \in [1..Len(ss) -> Seq(X)] :
           /\ g[1] = ss[1]
           /\ \A i \in 2..Len(ss) : g[i] = g[i-1] \o ss[i]
           /\ FlattenSeq(ss) = g[Len(ss)]
<1> DEFINE n == Len(ss)
           Eq(g) == g = [i \in 1..n |-> IF i = 1 THEN ss[i] ELSE g[i-1] \o ss[i]]
           Done == CHOOSE g : Eq(g)
<1>1. n \in Nat /\ n > 0 /\ \A i \in 1..n : ss[i] \in Seq(X)
  OBVIOUS
<1>2. FlattenSeq(ss) = Done[n]
  BY DEF FlattenSeq
<1> HIDE DEF n
<1>3. \E g : Eq(g)
  <2> DEFINE F == [i \in 1..n |-> [q \in Seq(X) |-> q \o ss[i]]]
  <2>1. F \in StepsIn(1, n, Seq(X))
    BY <1>1 DEF StepsIn
  <2>2. \A i \in 1..n : \A q \in Seq(X) : F[i][q] = q \o ss[i]
    OBVIOUS
  <2>3. 1 \in Nat /\ 1 <= n /\ ss[1] \in Seq(X)
    BY <1>1
  <2> HIDE DEF F
  <2>4. PICK g \in [1..n -> Seq(X)] : Iterates(g, 1, n, ss[1], F)
    BY <1>1, <2>1, <2>3, Iterated
  <2>5. \A i \in 1..n : g[i] = IF i = 1 THEN ss[i] ELSE g[i-1] \o ss[i]
    <3>1. SUFFICES ASSUME NEW i \in 1..n, i # 1 PROVE g[i] = g[i-1] \o ss[i]
      BY <1>1, <2>4 DEF Iterates
    <3>2. i - 1 \in 1..n
      BY <1>1, <3>1
    <3>3. g[i] = F[i][g[i-1]] /\ g[i-1] \in Seq(X)
      BY <2>4, <3>1, <3>2 DEF Iterates
    <3> QED BY <2>2, <3>3
  <2>6. Eq(g)
    BY <2>4, <2>5
  <2> HIDE DEF Eq
  <2> QED BY <2>6
<1>4. Eq(Done)
  <2> HIDE DEF Eq
  <2> QED BY <1>3
<1> HIDE DEF Done
<1>5. /\ Done = [i \in 1..n |-> Done[i]]
      /\ Done[1] = ss[1] /\ \A i \in 2..n : Done[i] = Done[i-1] \o ss[i]
  <2>1. Done = [i \in 1..n |-> IF i = 1 THEN ss[i] ELSE Done[i-1] \o ss[i]]
    BY <1>4
  <2>2. \A i \in 1..n : Done[i] = IF i = 1 THEN ss[i] ELSE Done[i-1] \o ss[i]
    BY <2>1
  <2>3. Done = [i \in 1..n |-> Done[i]]
    BY <2>1
  <2>4. 1 \in 1..n /\ \A i \in 2..n : i \in 1..n /\ i # 1
    BY <1>1
  <2> QED BY <2>2, <2>3, <2>4
<1> HIDE DEF Eq
<1>6. \A i \in 1..n : Done[i] \in Seq(X)
  <2> DEFINE S == {i \in 1..n : Done[i] \in Seq(X)}
  <2>1. 1 \in S
    BY <1>1, <1>5
  <2>2. \A i \in 1+1..n : i - 1 \in S => i \in S
    <3>1. SUFFICES ASSUME NEW i \in 1+1..n, Done[i-1] \in Seq(X) PROVE i \in S
      OBVIOUS
    <3>2. i \in 2..n /\ i \in 1..n
      BY <1>1
    <3>3. Done[i] = Done[i-1] \o ss[i] /\ ss[i] \in Seq(X)
      BY <1>1, <1>5, <3>2
    <3>4. Done[i] \in Seq(X)
      BY <3>1, <3>3, ConcatProperties
    <3> QED BY <3>2, <3>4
  <2>3. \A i \in 1..n : i \in S
    <3> HIDE DEF S
    <3> QED BY <1>1, <2>1, <2>2, Climb
  <2> QED BY <2>3
<1>7. Done \in [1..n -> Seq(X)]
  BY <1>5, <1>6
<1> QED BY <1>2, <1>5, <1>7 DEF n

\* Flattened, scripts are a script, of the statements they had.
LEMMA FlattenIsSeq ==
  ASSUME NEW X, NEW ss \in Seq(Seq(X))
  PROVE  FlattenSeq(ss) \in Seq(X)
<1>1. CASE Len(ss) > 0
  <2>1. PICK g \in [1..Len(ss) -> Seq(X)] : FlattenSeq(ss) = g[Len(ss)]
    BY <1>1, FlattenIsIterated
  <2>2. Len(ss) \in 1..Len(ss)
    BY <1>1
  <2> QED BY <2>1, <2>2
<1>2. CASE Len(ss) = 0
  <2>1. FlattenSeq(ss) = ss /\ ss = <<>>
    BY <1>2 DEF FlattenSeq
  <2> QED BY <2>1
<1>3. Len(ss) \in Nat
  OBVIOUS
<1> QED BY <1>1, <1>2, <1>3

\* The last script comes behind the others.
LEMMA FlattenLast ==
  ASSUME NEW X, NEW Y, NEW ss \in Seq(Seq(X)), Len(ss) > 0,
         \A i \in 1..Len(ss) : i < Len(ss) => ss[i] \in Seq(Y)
  PROVE  \E p \in Seq(Y) : FlattenSeq(ss) = p \o ss[Len(ss)]
<1> DEFINE n == Len(ss)
<1>1. n \in Nat /\ n > 0 /\ ss[n] \in Seq(X)
  OBVIOUS
<1>2. PICK g \in [1..n -> Seq(X)] :
        /\ g[1] = ss[1]
        /\ \A i \in 2..n : g[i] = g[i-1] \o ss[i]
        /\ FlattenSeq(ss) = g[n]
  BY FlattenIsIterated
<1> HIDE DEF n
<1>3. CASE n = 1
  <2>1. <<>> \o ss[n] = ss[n]
    BY <1>1, ConcatEmptySeq
  <2>2. <<>> \in Seq(Y)
    OBVIOUS
  <2> QED BY <1>2, <1>3, <2>1, <2>2 DEF n
<1>4. CASE n > 1
  <2>1. \A i \in 1..n : i < n => ss[i] \in Seq(Y)
    BY DEF n
  <2> DEFINE S == {i \in 1..n : i < n => g[i] \in Seq(Y)}
  <2>2. 1 \in S
    BY <1>1, <1>2, <1>4, <2>1
  <2>3. \A i \in 1+1..n : i - 1 \in S => i \in S
    <3>1. SUFFICES ASSUME NEW i \in 1+1..n, i - 1 \in S, i < n PROVE g[i] \in Seq(Y)
      BY <1>1
    <3>2. i \in 2..n /\ i \in 1..n /\ i - 1 < n
      BY <1>1, <3>1
    <3>3. g[i-1] \in Seq(Y) /\ ss[i] \in Seq(Y) /\ g[i] = g[i-1] \o ss[i]
      BY <1>2, <2>1, <3>1, <3>2
    <3> QED BY <3>3, ConcatProperties
  <2>4. \A i \in 1..n : i \in S
    <3> HIDE DEF S
    <3> QED BY <1>1, <2>2, <2>3, Climb
  <2>5. n - 1 \in 1..n /\ n - 1 < n /\ n \in 2..n
    BY <1>1, <1>4
  <2>6. g[n-1] \in Seq(Y) /\ FlattenSeq(ss) = g[n-1] \o ss[n]
    BY <1>2, <2>4, <2>5
  <2> QED BY <2>6 DEF n
<1>5. n = 1 \/ n > 1
  BY <1>1
<1> QED BY <1>3, <1>4, <1>5

\* Upgrades and downgrades are scripts.
LEMMA ScriptsAreScripts ==
  ASSUME NEW c \in Seq(Migrations), NEW from \in Nat
  PROVE  Upgrades(c, from) \in Seq(Statements) /\ Downgrades(c) \in Seq(Statements)
<1>1. Len(c) \in Nat /\ \A i \in 1..Len(c) : c[i].up \in Seq(Statements) /\ c[i].down \in Seq(Statements)
  <2>1. Len(c) \in Nat /\ \A i \in 1..Len(c) : c[i] \in Migrations
    OBVIOUS
  <2>2. \A m \in Migrations : m.up \in Seq(Statements) /\ m.down \in Seq(Statements)
    BY DEF Migrations
  <2> QED BY <2>1, <2>2
<1>2. [i \in 1..Len(c) - from |-> c[from + i].up] \in Seq(Seq(Statements))
  <2>1. \A i \in 1..Len(c) - from : from + i \in 1..Len(c)
    BY <1>1
  <2>2. CASE Len(c) - from \in Nat
    BY <1>1, <2>1, <2>2, IsASeq
  <2>3. CASE Len(c) - from \notin Nat
    <3>1. 1..Len(c) - from = 1..0
      BY <1>1, <2>3
    <3>2. [i \in 1..0 |-> c[from + i].up] \in Seq(Seq(Statements))
      BY IsASeq
    <3> QED BY <3>1, <3>2
  <2> QED BY <2>2, <2>3
<1>3. [i \in 1..Len(c) |-> c[Len(c) + 1 - i].down] \in Seq(Seq(Statements))
  <2>1. \A i \in 1..Len(c) : Len(c) + 1 - i \in 1..Len(c)
    BY <1>1
  <2> QED BY <1>1, <2>1, IsASeq
<1> QED BY <1>2, <1>3, FlattenIsSeq DEF Upgrades, Downgrades

\* The migrations a test runs are migrations.
LEMMA ConfigIsChain ==
  ASSUME chain \in Chains, NEW t
  PROVE  Config(t) \in Seq(Migrations)
BY ChainAssumption, AppendProperties DEF Config

\* Where a test is on its trip.
InTrip == {"base", "forward", "reverse", "reapply", "judged"}

\* What RoundTrip holds.
Trips ==
  [base : Schemas, head : Schemas, after_reverse : Schemas, after_reapply : Schemas,
   forward_error : BOOLEAN, reverse_error : BOOLEAN, reapply_error : BOOLEAN]

\* The types, what a prefix does not say, that the version is a sequence, and that a
\* trip belongs to a test.
Typed ==
  /\ TypeOK
  /\ trip \in Trips
  /\ pc \in InTrip => test # "none"
  /\ chain \in Chains
  /\ version = NoTable \/ version \in Seq(Migrations)

\* The two commands come to results, whatever is applied.
LEMMA CommandsAreResults ==
  ASSUME Typed, NEW c \in Seq(Migrations)
  PROVE  UpgradeHead(c) \in Results /\ DowngradeBase(c) \in Results
<1>1. Applied \in Seq(Migrations) /\ Len(Applied) \in Nat
  BY DEF Typed, Applied
<1>2. schema \in Schemas
  BY SchemasAreSchemas DEF Typed, TypeOK
<1> QED BY <1>1, <1>2, ScriptsAreScripts, RunIsResult DEF UpgradeHead, DowngradeBase

\* What the four queries see of a schema is one.
LEMMA SnapshotIsSchema ==
  ASSUME NEW s, IsSchema(s)
  PROVE  IsSchema(Snapshot(s))
<1>1. DOMAIN Snapshot(s) = DOMAIN s \cap Seen
  BY DEF Snapshot, Restrict
<1>2. Snapshot(s) \in [DOMAIN s \cap Seen -> Definitions]
  BY DEF Snapshot, Restrict, IsSchema
<1> QED BY <1>1, <1>2 DEF IsSchema

\* All of a list, and none of it, are prefixes of it.
LEMMA PrefixOfItself == ASSUME NEW c \in Seq(Migrations) PROVE IsPrefix(c, c) /\ IsPrefix(<<>>, c)
<1>1. Len(c) \in Nat /\ Len(<<>>) = 0 /\ SubSeq(c, 1, 0) = <<>> /\ SubSeq(<<>>, 1, 0) = <<>>
  OBVIOUS
<1> QED BY <1>1 DEF IsPrefix

\* A command leaves what is typed typed.
LEMMA CommandTyped ==
  ASSUME Typed, chain' = chain, NEW c \in Seq(Migrations), NEW r \in Results, NEW v,
         \/ v = <<>> 
         \/ \E t \in {"real"} \cup DOMAIN Injected : v = c /\ c = Config(t),
         Command(c, r, v)
  PROVE  /\ IsSchema(schema')
         /\ version' = NoTable
              \/ \E t \in {"real"} \cup DOMAIN Injected : IsPrefix(version', Config(t)')
         /\ version' = NoTable \/ version' \in Seq(Migrations)
<1>1. \A t : Config(t)' = Config(t)
  BY DEF Config
<1>2. CASE UNCHANGED <<schema, version>>
  BY <1>1, <1>2 DEF Typed, TypeOK
<1>3. CASE schema' = r.schema /\ version' = v
  <2>1. IsSchema(schema')
    BY <1>3, SchemasAreSchemas DEF Results
  <2>2. CASE v = <<>>
    <3>1. IsPrefix(<<>>, Config("real")')
      BY <1>1, ConfigIsChain, PrefixOfItself DEF Typed
    <3> QED BY <1>3, <2>1, <2>2, <3>1
  <2>3. CASE \E t \in {"real"} \cup DOMAIN Injected : v = c /\ c = Config(t)
    <3>1. PICK t \in {"real"} \cup DOMAIN Injected : v = c /\ c = Config(t)
      BY <2>3
    <3>2. IsPrefix(version', Config(t)') /\ version' \in Seq(Migrations)
      BY <1>1, <1>3, <3>1, PrefixOfItself
    <3> QED BY <2>1, <3>2
  <2> QED BY <2>2, <2>3
<1> QED BY <1>2, <1>3 DEF Command

\* The first state is typed.
LEMMA InitTyped == Init => Typed
<1> SUFFICES ASSUME Init PROVE Typed
  OBVIOUS
<1>1. IsSchema(Empty)
  BY EmptyIsSchema, SchemasAreSchemas
<1> QED BY <1>1, EmptyIsSchema DEF Init, Typed, TypeOK, NoTrip, InTrip, Trips

\* Every step leaves it typed.
LEMMA TypedStep == Typed /\ [Next]_vars => Typed'
<1> SUFFICES ASSUME Typed, [Next]_vars PROVE Typed'
  OBVIOUS
<1>1. chain' = chain /\ \A t : Config(t)' = Config(t)
  BY DEF Next, vars, Config, MigrateByHand, RestartDatabase, StartSession, EndSession, DropTables,
     ClearVersion, UpgradeToHead, StartTest, TripBase, TripForward, TripReverse, TripReapply, Judge
<1>2. /\ IsSchema(schema')
      /\ version' = NoTable
           \/ \E t \in {"real"} \cup DOMAIN Injected : IsPrefix(version', Config(t)')
      /\ version' = NoTable \/ version' \in Seq(Migrations)
  <2>1. CASE UNCHANGED <<schema, version>>
    BY <1>1, <2>1 DEF Typed, TypeOK
  <2>2. ASSUME NEW c \in Seq(Migrations), NEW v,
               \/ v = <<>>
               \/ \E t \in {"real"} \cup DOMAIN Injected : v = c /\ c = Config(t),
               Command(c, UpgradeHead(c), v) \/ Command(c, DowngradeBase(c), v)
        PROVE  <1>2!1 /\ <1>2!2 /\ <1>2!3
    <3>1. UpgradeHead(c) \in Results /\ DowngradeBase(c) \in Results
      BY CommandsAreResults
    <3> QED BY <1>1, <2>2, <3>1, CommandTyped
  <2>3. chain \in Seq(Migrations) /\ chain = Config("real")
    BY ChainAssumption, TestAssumption DEF Typed, Config
  <2>4. CASE MigrateByHand \/ UpgradeToHead
    BY <2>2, <2>3, <2>4 DEF MigrateByHand, UpgradeToHead
  <2>5. ASSUME test # "none", TripBase \/ TripForward \/ TripReverse \/ TripReapply
        PROVE  <1>2!1 /\ <1>2!2 /\ <1>2!3
    <3>1. Config(test) \in Seq(Migrations) /\ test \in {"real"} \cup DOMAIN Injected
      BY <2>5, ConfigIsChain DEF Typed, TypeOK
    <3> QED BY <2>2, <2>5, <3>1 DEF TripBase, TripForward, TripReverse, TripReapply
  <2>6. CASE DropTables
    <3>1. \A gone : IsSchema(Without(schema, gone))
      <4>1. TAKE gone
      <4>2. /\ DOMAIN Without(schema, gone) = DOMAIN schema \ gone
            /\ Without(schema, gone) \in [DOMAIN schema \ gone -> Definitions]
        BY DEF Without, Restrict, IsSchema, Typed, TypeOK
      <4> QED BY <4>2 DEF IsSchema, Typed, TypeOK
    <3> QED BY <1>1, <2>6, <3>1 DEF DropTables, Typed, TypeOK
  <2>7. CASE RestartDatabase
    BY <2>7, EmptyIsSchema, SchemasAreSchemas DEF RestartDatabase
  <2>8. CASE ClearVersion
    <3>1. IsPrefix(<<>>, Config("real")')
      BY <1>1, ConfigIsChain, PrefixOfItself DEF Typed
    <3> QED BY <1>1, <2>8, <3>1 DEF ClearVersion, Typed, TypeOK
  <2>9. CASE TripBase \/ TripForward \/ TripReverse \/ TripReapply
    <3>1. test # "none"
      BY <2>9 DEF Typed, InTrip, TripBase, TripForward, TripReverse, TripReapply
    <3> QED BY <2>5, <2>9, <3>1
  <2> QED
    BY <2>1, <2>4, <2>6, <2>7, <2>8, <2>9
    DEF Next, vars, StartSession, EndSession, StartTest, Judge
<1>3. /\ trip' \in Trips
      /\ \A s \in {trip'.base, trip'.head, trip'.after_reverse, trip'.after_reapply} : IsSchema(s)
      /\ {trip'.forward_error, trip'.reverse_error, trip'.reapply_error} \subseteq BOOLEAN
  <2>1. Snapshot(schema') \in Schemas /\ Empty \in Schemas
    BY <1>2, SnapshotIsSchema, EmptyIsSchema, SchemasAreSchemas
  <2>2. NoTrip \in Trips /\ trip \in Trips
    BY <2>1 DEF NoTrip, Trips, Typed
  <2>3. trip' \in Trips
    <3>1. CASE trip' = trip
      BY <2>2, <3>1
    <3>2. CASE EndSession
      BY <2>2, <3>2 DEF EndSession
    <3>3. CASE TripBase
      <4>1. trip' = [NoTrip EXCEPT !.base = Snapshot(schema')]
        BY <3>3 DEF TripBase
      <4> QED BY <2>1, <2>2, <4>1 DEF Trips
    <3>4. CASE TripForward
      <4>1. PICK e \in BOOLEAN :
              trip' = [trip EXCEPT !.forward_error = e, !.head = Snapshot(schema')]
        BY <3>4 DEF TripForward
      <4> QED BY <2>1, <2>2, <4>1 DEF Trips
    <3>5. CASE TripReverse
      <4>1. PICK e \in BOOLEAN :
              trip' = [trip EXCEPT !.reverse_error = e, !.after_reverse = Snapshot(schema')]
        BY <3>5 DEF TripReverse
      <4> QED BY <2>1, <2>2, <4>1 DEF Trips
    <3>6. CASE TripReapply
      <4>1. PICK e \in BOOLEAN :
              trip' = [trip EXCEPT !.reapply_error = e, !.after_reapply = Snapshot(schema')]
        BY <3>6 DEF TripReapply
      <4> QED BY <2>1, <2>2, <4>1 DEF Trips
    <3> QED
      BY <3>1, <3>2, <3>3, <3>4, <3>5, <3>6
      DEF Next, vars, MigrateByHand, RestartDatabase, StartSession, DropTables, ClearVersion,
          UpgradeToHead, StartTest, Judge
  <2>4. /\ \A s \in {trip'.base, trip'.head, trip'.after_reverse, trip'.after_reapply} : s \in Schemas
        /\ {trip'.forward_error, trip'.reverse_error, trip'.reapply_error} \subseteq BOOLEAN
    BY <2>3 DEF Trips
  <2> QED BY <2>3, <2>4, SchemasAreSchemas
<1>4. /\ pc' \in {"idle", "error", "drop_tables", "clear_version", "upgrade", "ready",
                 "base", "forward", "reverse", "reapply", "judged"}
      /\ test' \in {"none", "real"} \cup DOMAIN Injected
      /\ pc' \in InTrip => test' # "none"
  BY TestAssumption
  DEF Next, vars, Typed, TypeOK, InTrip, Finish, MigrateByHand, RestartDatabase, StartSession,
      EndSession, DropTables, ClearVersion, UpgradeToHead, StartTest, TripBase, TripForward,
      TripReverse, TripReapply, Judge
<1> QED BY <1>1, <1>2, <1>3, <1>4 DEF Typed, TypeOK

--------------------------------------------------------------------------------
\* Statements that have nothing to do with o leave it there, or away.
LEMMA StatementLeaves ==
  ASSUME NEW st \in Statements, NEW s \in Schemas, NEW o, ~Touches(st, o), ~Refused(st, s)
  PROVE  o \in DOMAIN After(st, s) <=> o \in DOMAIN s
<1>1. CASE st.op = "drop"
  <2>1. o # st.obj
    BY <1>1 DEF Touches
  <2> QED BY <1>1, <2>1 DEF After, Without, Restrict
<1>2. CASE st.op \in {"create", "ensure", "alter"}
  <2>1. o # st.obj
    BY <1>2 DEF Touches
  <2> DEFINE grown == [p \in DOMAIN s \cup {st.obj} |-> IF p = st.obj THEN st.def ELSE s[p]]
  <2>2. DOMAIN grown = DOMAIN s \cup {st.obj}
    OBVIOUS
  <2>3. After(st, s) = grown \/ After(st, s) = s
    BY <1>2 DEF After
  <2> HIDE DEF grown
  <2> QED BY <2>1, <2>2, <2>3
<1> QED BY <1>1, <1>2 DEF Statements, Refused

\* So it is along a run, up to where a statement has to do with it.
LEMMA UntouchedStays ==
  ASSUME NEW script \in Seq(Statements), NEW s \in Schemas, NEW h, Passes(h, script, s),
         NEW o, NEW k \in 0..Len(script), \A j \in 1..k : ~Touches(script[j], o)
  PROVE  o \in DOMAIN h[k] <=> o \in DOMAIN s
<1> DEFINE n == Len(script)
           S == {i \in 0..k : o \in DOMAIN h[i] <=> o \in DOMAIN s}
<1>1. n \in Nat /\ k \in Nat /\ k <= n /\ \A i \in 1..n : script[i] \in Statements
  OBVIOUS
<1>2. 0 \in S
  BY <1>1 DEF Passes
<1>3. \A i \in 0+1..k : i - 1 \in S => i \in S
  <2>1. SUFFICES ASSUME NEW i \in 0+1..k, i - 1 \in S PROVE i \in S
    OBVIOUS
  <2>2. i \in 1..k /\ i \in 1..n /\ i - 1 \in 0..n /\ i \in 0..k
    BY <1>1
  <2>3. h[i-1] \in Schemas /\ ~Refused(script[i], h[i-1]) /\ h[i] = After(script[i], h[i-1])
    BY <2>2 DEF Passes
  <2>4. o \in DOMAIN h[i] <=> o \in DOMAIN h[i-1]
    BY <1>1, <2>2, <2>3, StatementLeaves
  <2> QED BY <2>1, <2>2, <2>4
<1>4. k \in S
  <2>1. k \in 0..k
    BY <1>1
  <2> HIDE DEF S
  <2> QED BY <1>1, <1>2, <1>3, <2>1, Climb
<1> QED BY <1>4

\* The first that script does to o is to create it, as if it were not there.
MakesFirst(script, o) ==
  \E i \in 1..Len(script) :
    /\ script[i].op = "create" /\ script[i].obj = o
    /\ \A j \in 1..i-1 : ~Touches(script[j], o)

\* Without IF NOT EXISTS it has no other way to begin where o is not.
LEMMA TouchedIsMade ==
  ASSUME NEW script \in Seq(Statements), NEW s \in Schemas, NEW h, Passes(h, script, s),
         NEW o, o \notin DOMAIN s, ~Leaves(script, o),
         \A i \in DOMAIN script : script[i].op # "ensure"
  PROVE  MakesFirst(script, o)
<1> DEFINE n == Len(script)
           T == {i \in 1..n : Touches(script[i], o)}
<1>1. n \in Nat /\ DOMAIN script = 1..n /\ \A i \in 1..n : script[i] \in Statements
  OBVIOUS
<1>2. T # {} /\ T \subseteq Nat
  BY <1>1 DEF Leaves
<1>3. PICK i \in T : \A j \in T : i <= j
  <2> HIDE DEF T
  <2> QED BY <1>2, Least
<1>4. i \in 1..n /\ i - 1 \in 0..n /\ Touches(script[i], o)
  BY <1>1
<1>5. \A j \in 1..i-1 : ~Touches(script[j], o)
  <2>1. SUFFICES ASSUME NEW j \in 1..i-1, Touches(script[j], o) PROVE FALSE
    OBVIOUS
  <2>2. j \in T /\ ~(i <= j)
    BY <1>1, <1>4, <2>1
  <2> HIDE DEF T
  <2> QED BY <1>3, <2>2
<1>6. o \notin DOMAIN h[i-1]
  BY <1>4, <1>5, UntouchedStays
<1>7. ~Refused(script[i], h[i-1])
  BY <1>4 DEF Passes
<1>8. script[i].op = "create" /\ script[i].obj = o
  BY <1>1, <1>4, <1>6, <1>7 DEF Statements, Touches, Refused
<1> QED BY <1>4, <1>5, <1>8 DEF MakesFirst

\* And it fails where o is.
LEMMA MadeTwiceFails ==
  ASSUME NEW script \in Seq(Statements), NEW s \in Schemas, NEW o \in DOMAIN s,
         MakesFirst(script, o)
  PROVE  ~Run(script, s).ok
<1>1. SUFFICES ASSUME Run(script, s).ok PROVE FALSE
  OBVIOUS
<1>2. PICK h : Passes(h, script, s)
  BY <1>1, RunIsResult
<1>3. PICK i \in 1..Len(script) :
        /\ script[i].op = "create" /\ script[i].obj = o
        /\ \A j \in 1..i-1 : ~Touches(script[j], o)
  BY DEF MakesFirst
<1>4. i - 1 \in 0..Len(script)
  OBVIOUS
<1>5. o \in DOMAIN h[i-1]
  BY <1>2, <1>3, <1>4, UntouchedStays
<1>6. Refused(script[i], h[i-1])
  BY <1>3, <1>5 DEF Refused
<1> QED BY <1>2, <1>6 DEF Passes

\* What a strict script leaves that was not there, it made first; what it has nothing
\* to do with stays.
LEMMA RunMakes ==
  ASSUME NEW script \in Seq(Statements), NEW s \in Schemas, Run(script, s).ok, NEW o
  PROVE  /\ Leaves(script, o) => (o \in DOMAIN Run(script, s).schema <=> o \in DOMAIN s)
         /\ /\ \A i \in DOMAIN script : script[i].op # "ensure"
            /\ o \notin DOMAIN s /\ ~Leaves(script, o)
            => MakesFirst(script, o)
<1>1. PICK h : Passes(h, script, s) /\ Run(script, s).schema = h[Len(script)]
  BY RunIsResult
<1>2. Len(script) \in 0..Len(script) /\ DOMAIN script = 1..Len(script)
  OBVIOUS
<1>3. Leaves(script, o) => (o \in DOMAIN Run(script, s).schema <=> o \in DOMAIN s)
  BY <1>1, <1>2, UntouchedStays DEF Leaves
<1> QED BY <1>1, <1>3, TouchedIsMade

\* A script with a raise in it fails.
LEMMA RaiseFails ==
  ASSUME NEW script \in Seq(Statements), NEW s \in Schemas, NEW i \in 1..Len(script),
         script[i].op = "raise"
  PROVE  ~Run(script, s).ok
<1>1. SUFFICES ASSUME Run(script, s).ok PROVE FALSE
  OBVIOUS
<1>2. PICK h : Passes(h, script, s)
  BY <1>1, RunIsResult
<1> QED BY <1>2 DEF Passes, Refused

\* A script of nothing succeeds and changes nothing.
LEMMA NothingRuns ==
  ASSUME NEW script \in Seq(Statements), script = <<>>, NEW s \in Schemas
  PROVE  Run(script, s) = [ok |-> TRUE, schema |-> s]
<1>1. Len(script) = 0
  OBVIOUS
<1>2. PICK g \in [0..Len(script) -> Results] :
        g[0] = [ok |-> TRUE, schema |-> s] /\ Run(script, s) = g[Len(script)]
  BY RunIsIterated
<1> QED BY <1>1, <1>2

--------------------------------------------------------------------------------
\* What a command comes to, where nothing is applied and where all of chain is.
LEMMA Commands ==
  ASSUME Typed, NEW c \in Seq(Migrations)
  PROVE  /\ version = <<>> =>
              /\ Located(c) /\ UpgradeHead(c) = Run(Upgrades(c, 0), schema)
              /\ DowngradeBase(c) = [ok |-> TRUE, schema |-> schema]
         /\ version = c /\ c # NoTable =>
              /\ Located(c) /\ UpgradeHead(c) = [ok |-> TRUE, schema |-> schema]
              /\ DowngradeBase(c) = Run(Downgrades(c), schema)
<1>1. Len(<<>>) = 0 /\ schema \in Schemas
  BY SchemasAreSchemas DEF Typed, TypeOK
<1>2. Downgrades(<<>>) = <<>>
  <2>1. [i \in 1..Len(<<>>) |-> <<>>[Len(<<>>) + 1 - i].down] = <<>>
    BY <1>1
  <2> QED BY <1>1, <2>1 DEF Downgrades, FlattenSeq
<1>7. Upgrades(c, Len(c)) = <<>>
  <2>1. Len(c) \in Nat
    OBVIOUS
  <2>2. Len(c) - Len(c) = 0
    BY <2>1
  <2>3. [i \in 1..Len(c) - Len(c) |-> c[Len(c) + i].up] = <<>>
    BY <2>2
  <2> QED BY <1>1, <2>3 DEF Upgrades, FlattenSeq
<1>3. ASSUME version = <<>> PROVE Applied = <<>>
  BY <1>3 DEF Applied
<1>4. ASSUME version = c, c # NoTable PROVE Applied = c
  BY <1>4 DEF Applied
<1>5. <<>> \in Seq(Statements)
  OBVIOUS
<1>6. Run(<<>>, schema) = [ok |-> TRUE, schema |-> schema]
  BY <1>1, <1>5, NothingRuns
<1> QED
  BY <1>1, <1>2, <1>3, <1>4, <1>6, <1>7, PrefixOfItself
  DEF Located, UpgradeHead, DowngradeBase

\* All upgrades and all downgrades of the repository.
Up == Upgrades(chain, 0)
Down == Downgrades(chain)

\* They are scripts.
LEMMA ChainScripts ==
  ASSUME chain \in Chains
  PROVE  /\ chain \in Seq(Migrations) /\ chain # NoTable
         /\ Up \in Seq(Statements) /\ Down \in Seq(Statements)
BY ChainAssumption, ScriptsAreScripts DEF Up, Down

\* A set of statements the migrations of c keep to, their scripts keep to.
LEMMA ScriptsKeepTo ==
  ASSUME NEW X, NEW c, Len(c) \in Nat
  PROVE  /\ (\A i \in 1..Len(c) : c[i].up \in Seq(X)) => Upgrades(c, 0) \in Seq(X)
         /\ (\A i \in 1..Len(c) : c[i].down \in Seq(X)) => Downgrades(c) \in Seq(X)
<1>1. ASSUME \A i \in 1..Len(c) : c[i].up \in Seq(X)
      PROVE  [i \in 1..Len(c) - 0 |-> c[0 + i].up] \in Seq(Seq(X))
  <2>1. Len(c) - 0 = Len(c) /\ \A i \in 1..Len(c) - 0 : 0 + i \in 1..Len(c)
    OBVIOUS
  <2> QED BY <1>1, <2>1, IsASeq
<1>2. ASSUME \A i \in 1..Len(c) : c[i].down \in Seq(X)
      PROVE  [i \in 1..Len(c) |-> c[Len(c) + 1 - i].down] \in Seq(Seq(X))
  <2>1. \A i \in 1..Len(c) : Len(c) + 1 - i \in 1..Len(c)
    OBVIOUS
  <2> QED BY <1>2, <2>1, IsASeq
<1> QED BY <1>1, <1>2, FlattenIsSeq DEF Upgrades, Downgrades

\* They create nothing IF NOT EXISTS if no migration does.
LEMMA StrictScripts ==
  ASSUME chain \in Chains, Strict(chain)
  PROVE  /\ \A i \in DOMAIN Up : Up[i].op # "ensure"
         /\ \A i \in DOMAIN Down : Down[i].op # "ensure"
<1> DEFINE X == {st \in Statements : st.op # "ensure"}
<1>1. chain \in Seq(Migrations)
  BY ChainScripts
<1>2. Len(chain) \in Nat /\ DOMAIN chain = 1..Len(chain) /\ \A i \in 1..Len(chain) : chain[i] \in Migrations
  BY <1>1
<1>3. \A i \in 1..Len(chain) : chain[i].up \in Seq(X) /\ chain[i].down \in Seq(X)
  <2>1. TAKE i \in 1..Len(chain)
  <2>2. \A script \in {chain[i].up, chain[i].down} :
          script \in Seq(Statements) /\ \A j \in DOMAIN script : script[j].op # "ensure"
    BY <1>2 DEF Strict, Migrations
  <2>3. \A script \in {chain[i].up, chain[i].down} : script \in Seq(X)
    <3>1. TAKE script \in {chain[i].up, chain[i].down}
    <3>2. script \in Seq(Statements) /\ \A j \in 1..Len(script) : script[j] \in X
      BY <2>2
    <3>3. script = [j \in 1..Len(script) |-> script[j]] /\ Len(script) \in Nat
      BY <3>2
    <3> HIDE DEF X
    <3> QED BY <3>2, <3>3, IsASeq
  <2> QED BY <2>3
<1>4. Up \in Seq(X) /\ Down \in Seq(X)
  <2> HIDE DEF X
  <2> QED BY <1>2, <1>3, ScriptsKeepTo DEF Up, Down
<1> QED BY <1>4

--------------------------------------------------------------------------------
\* Every object of s is one a script of the chain makes first.
Made(c, s) ==
  \A o \in DOMAIN s : MakesFirst(Upgrades(c, 0), o) \/ MakesFirst(Downgrades(c), o)

\* So it is of what a whole script leaves.
LEMMA MadeStays ==
  ASSUME chain \in Chains, Strict(chain), NEW s \in Schemas, Made(chain, s),
         NEW script \in {Up, Down}, Run(script, s).ok
  PROVE  Run(script, s).schema \in Schemas /\ Made(chain, Run(script, s).schema)
<1>1. script \in Seq(Statements) /\ \A i \in DOMAIN script : script[i].op # "ensure"
  BY ChainScripts, StrictScripts
<1>2. Run(script, s) \in Results
  BY <1>1, RunIsResult
<1>3. ASSUME NEW o \in DOMAIN Run(script, s).schema
      PROVE  MakesFirst(Up, o) \/ MakesFirst(Down, o)
  <2>1. CASE o \in DOMAIN s
    BY <2>1 DEF Made, Up, Down
  <2>2. CASE o \notin DOMAIN s
    BY <1>1, <1>3, <2>2, RunMakes
  <2> QED BY <2>1, <2>2
<1> QED BY <1>2, <1>3 DEF Made, Results, Up, Down

\* A trip that goes there and back from b, where the chain applies to nothing at all,
\* goes there and back from nothing: what else were in b, up or down would make again.
LEMMA RoundFromNothing ==
  ASSUME chain \in Chains, Strict(chain), HeadOf(chain).ok, NEW b \in Schemas, Made(chain, b),
         Run(Up, b).ok, Run(Down, Run(Up, b).schema).ok,
         Run(Down, Run(Up, b).schema).schema = b
  PROVE  b = Empty
<1>1. Up \in Seq(Statements) /\ Down \in Seq(Statements) /\ Empty \in Schemas /\ DOMAIN Empty = {}
  BY ChainScripts, EmptyIsSchema
<1>2. \A i \in DOMAIN Up : Up[i].op # "ensure"
  BY StrictScripts
<1>3. ASSUME NEW o \in DOMAIN b PROVE FALSE
  <2>1. ~MakesFirst(Up, o)
    BY <1>1, <1>3, MadeTwiceFails
  <2>2. Run(Up, Empty).ok
    BY DEF HeadOf, Up
  <2>3. Leaves(Up, o)
    BY <1>1, <1>2, <2>1, <2>2, RunMakes
  <2>4. Run(Up, b) \in Results
    BY <1>1, RunIsResult
  <2>5. Run(Up, b).schema \in Schemas /\ o \in DOMAIN Run(Up, b).schema
    BY <1>1, <1>3, <2>3, <2>4, RunMakes DEF Results
  <2>6. ~MakesFirst(Down, o)
    BY <1>1, <2>5, MadeTwiceFails
  <2> QED BY <1>3, <2>1, <2>6 DEF Made, Up, Down
<1>4. DOMAIN b = {}
  BY <1>3
<1> QED BY <1>4 DEF Schemas, Empty

\* Where the queries see every object, a snapshot is the schema.
LEMMA SnapshotIsAll ==
  ASSUME Seen = Objects, NEW s \in Schemas
  PROVE  Snapshot(s) = s
<1>1. DOMAIN s \subseteq Objects /\ s = [o \in DOMAIN s |-> s[o]]
  BY DEF Schemas
<1>2. DOMAIN s \cap Seen = DOMAIN s
  BY <1>1
<1> QED BY <1>1, <1>2 DEF Snapshot, Restrict

\* Where a snapshot sees everything, the chain restores if it goes to head, to nothing,
\* and to head.
LEMMA RestoresAll ==
  ASSUME chain \in Chains, Seen = Objects
  PROVE  Restores(chain) <=>
           /\ Run(Up, Empty).ok
           /\ Run(Down, Run(Up, Empty).schema).ok
           /\ Run(Down, Run(Up, Empty).schema).schema = Empty
<1> DEFINE head == Run(Up, Empty)
           back == Run(Down, head.schema)
           again == Run(Up, back.schema)
<1>1. Up \in Seq(Statements) /\ Down \in Seq(Statements) /\ Empty \in Schemas
  BY ChainScripts, EmptyIsSchema
<1>2. head.schema \in Schemas
  BY <1>1, RunIsResult DEF Results
<1>3. back.schema \in Schemas
  <2> HIDE DEF head
  <2> QED BY <1>1, <1>2, RunIsResult DEF Results
<1>4. again.schema \in Schemas
  <2> HIDE DEF back
  <2> QED BY <1>1, <1>3, RunIsResult DEF Results
<1>5. Restores(chain) <=>
        /\ head.ok /\ back.ok /\ again.ok
        /\ Snapshot(back.schema) = Empty
        /\ Snapshot(again.schema) = Snapshot(head.schema)
  BY DEF Restores, HeadOf, Up, Down
<1>6. /\ Snapshot(back.schema) = back.schema /\ Snapshot(again.schema) = again.schema
      /\ Snapshot(head.schema) = head.schema
  <2> HIDE DEF head, back, again
  <2> QED BY <1>2, <1>3, <1>4, SnapshotIsAll
<1>7. back.schema = Empty => again = head
  OBVIOUS
<1> HIDE DEF head, back, again
<1>8. Restores(chain) <=> head.ok /\ back.ok /\ back.schema = Empty
  BY <1>5, <1>6, <1>7
<1> QED BY <1>8 DEF head, back

\* Where a reset, or a trip that restores, leaves the database.
AtHead == version = chain /\ schema = HeadOf(chain).schema
AtBase == version = <<>> /\ schema = Empty

\* How far a trip of the real migrations has come, and what it holds.
Departed ==
  pc \in {"ready"} \cup InTrip =>
    /\ HeadOf(chain).ok /\ Made(chain, schema) /\ version \in {<<>>, chain}
    /\ pc \in {"ready", "base"} /\ Restores(chain) => AtHead \/ AtBase
WentDown ==
  pc = "forward" =>
    version = <<>> /\ trip.base = schema /\ (Restores(chain) => schema = Empty)
WentUp ==
  /\ pc \in {"reverse", "reapply", "judged"} =>
       /\ Made(chain, trip.base)
       /\ ~trip.forward_error => Run(Up, trip.base).ok /\ trip.head = Run(Up, trip.base).schema
       /\ Restores(chain) => ~trip.forward_error /\ trip.base = Empty
  /\ pc = "reverse" /\ ~trip.forward_error => version = chain /\ schema = trip.head
WentBack ==
  /\ pc \in {"reapply", "judged"} =>
       /\ ~trip.forward_error /\ ~trip.reverse_error =>
            Run(Down, trip.head).ok /\ trip.after_reverse = Run(Down, trip.head).schema
       /\ Restores(chain) => ~trip.reverse_error
  /\ pc = "reapply" /\ ~trip.forward_error /\ ~trip.reverse_error =>
       version = <<>> /\ schema = trip.after_reverse
WentAgain ==
  pc = "judged" =>
    /\ ~trip.forward_error /\ ~trip.reverse_error /\ ~trip.reapply_error =>
         /\ Run(Up, trip.after_reverse).ok
         /\ trip.after_reapply = Run(Up, trip.after_reverse).schema
    /\ Restores(chain) => ~trip.reapply_error /\ AtHead
Journey == Departed /\ WentDown /\ WentUp /\ WentBack /\ WentAgain
RealTrip == test \in {"none", "real"} /\ Strict(chain) => Journey

\* What the commands come to on the way of a trip.
LEMMA SchemaAfterCommand ==
  ASSUME Typed, Strict(chain), Made(chain, schema), version \in {<<>>, chain}
  PROVE  /\ version = <<>> =>
              /\ UpgradeHead(chain) = Run(Up, schema) /\ Located(chain)
              /\ DowngradeBase(chain) = [ok |-> TRUE, schema |-> schema]
         /\ version = chain =>
              /\ UpgradeHead(chain) = [ok |-> TRUE, schema |-> schema] /\ Located(chain)
              /\ DowngradeBase(chain) = Run(Down, schema)
         /\ UpgradeHead(chain).ok => Made(chain, UpgradeHead(chain).schema)
         /\ DowngradeBase(chain).ok => Made(chain, DowngradeBase(chain).schema)
<1>1. chain \in Seq(Migrations) /\ chain # NoTable /\ schema \in Schemas /\ chain \in Chains
  BY ChainScripts, SchemasAreSchemas DEF Typed, TypeOK
<1>2. /\ version = <<>> =>
           /\ UpgradeHead(chain) = Run(Up, schema) /\ Located(chain)
           /\ DowngradeBase(chain) = [ok |-> TRUE, schema |-> schema]
      /\ version = chain =>
           /\ UpgradeHead(chain) = [ok |-> TRUE, schema |-> schema] /\ Located(chain)
           /\ DowngradeBase(chain) = Run(Down, schema)
  BY <1>1, Commands DEF Up, Down
<1>3. UpgradeHead(chain).ok => Made(chain, UpgradeHead(chain).schema)
  BY <1>1, <1>2, MadeStays
<1>4. DowngradeBase(chain).ok => Made(chain, DowngradeBase(chain).schema)
  BY <1>1, <1>2, MadeStays
<1> QED BY <1>2, <1>3, <1>4

\* The verdict at the end of a journey.
LEMMA JourneyJudged ==
  ASSUME Typed, Strict(chain), Journey, Seen = Objects, pc = "judged"
  PROVE  Reversible(trip) <=> Restores(chain)
<1>1. /\ chain \in Chains /\ HeadOf(chain).ok /\ Made(chain, trip.base)
      /\ trip.base \in Schemas
  BY SchemasAreSchemas DEF Typed, TypeOK, Journey, Departed, WentUp, InTrip
<1>2. ASSUME Reversible(trip) PROVE Restores(chain)
  <2>1. ~trip.forward_error /\ ~trip.reverse_error /\ ~trip.reapply_error
    BY <1>2 DEF Reversible
  <2>2. /\ Run(Up, trip.base).ok /\ trip.head = Run(Up, trip.base).schema
        /\ Run(Down, trip.head).ok /\ trip.after_reverse = Run(Down, trip.head).schema
        /\ trip.base = trip.after_reverse
    BY <1>2, <2>1 DEF Journey, WentUp, WentBack, Reversible
  <2>3. trip.base = Empty
    BY <1>1, <2>2, RoundFromNothing
  <2> QED BY <1>1, <2>2, <2>3, RestoresAll
<1>3. ASSUME Restores(chain) PROVE Reversible(trip)
  <2>1. /\ ~trip.forward_error /\ ~trip.reverse_error /\ ~trip.reapply_error
        /\ trip.base = Empty
    BY <1>3 DEF Journey, WentUp, WentBack, WentAgain
  <2>2. /\ trip.head = Run(Up, Empty).schema
        /\ trip.after_reverse = Run(Down, trip.head).schema
        /\ trip.after_reapply = Run(Up, trip.after_reverse).schema
    BY <2>1 DEF Journey, WentUp, WentBack, WentAgain
  <2>3. Run(Down, Run(Up, Empty).schema).schema = Empty
    BY <1>1, <1>3, RestoresAll
  <2> QED BY <2>1, <2>2, <2>3 DEF Reversible
<1> QED BY <1>2, <1>3

\* A test that is over leaves the session ready, or goes to its own reset.
LEMMA FinishLeadsOn ==
  ASSUME NEW t
  PROVE  Finish(t) \in {"drop_tables", "ready"} /\ (t \in {"none", "real"} => Finish(t) = "ready")
BY TestAssumption DEF Finish

\* No step changes the migrations.
LEMMA ChainStays ==
  ASSUME [Next]_vars
  PROVE  /\ chain' = chain /\ Up' = Up /\ Down' = Down
         /\ Strict(chain)' = Strict(chain) /\ Restores(chain)' = Restores(chain)
         /\ HeadOf(chain)' = HeadOf(chain)
<1>1. chain' = chain
  BY DEF Next, vars, MigrateByHand, RestartDatabase, StartSession, EndSession, DropTables,
     ClearVersion, UpgradeToHead, StartTest, TripBase, TripForward, TripReverse, TripReapply, Judge
<1> QED BY <1>1 DEF Up, Down, Strict, Restores, HeadOf

\* Where a session is on no trip and not about to start one.
Away == {"idle", "error", "drop_tables", "clear_version", "upgrade"}

\* Every step keeps to the journey.
LEMMA RealTripStep ==
  ASSUME Typed, RealTrip, Seen = Objects, [Next]_vars,
         pc = "ready" => test \in {"none", "real"},
         pc = "upgrade" => schema = Empty /\ version = <<>>
  PROVE  RealTrip'
<1> SUFFICES ASSUME test' \in {"none", "real"}, Strict(chain) PROVE Journey'
  BY ChainStays DEF RealTrip
<1>1. /\ chain' = chain /\ Up' = Up /\ Down' = Down
      /\ Restores(chain)' = Restores(chain) /\ HeadOf(chain)' = HeadOf(chain)
  BY ChainStays
<1>2. chain \in Chains /\ chain \in Seq(Migrations) /\ Up \in Seq(Statements) /\ Down \in Seq(Statements)
  BY ChainScripts DEF Typed
<1>3. schema \in Schemas /\ Empty \in Schemas /\ DOMAIN Empty = {}
  BY SchemasAreSchemas, EmptyIsSchema DEF Typed, TypeOK
<1>4. Typed'
  BY TypedStep
<1>5. schema' \in Schemas
  BY <1>4, SchemasAreSchemas DEF Typed, TypeOK
<1>6. Snapshot(schema') = schema'
  BY <1>5, SnapshotIsAll
<1>7. Config("real") = chain /\ (test \in {"none", "real"} => Config(test) = chain)
  BY TestAssumption DEF Config
<1>8. CASE pc' \in Away
  BY <1>8 DEF Journey, Departed, WentDown, WentUp, WentBack, WentAgain, Away, InTrip
<1>9. CASE UpgradeToHead
  <2>1. schema = Empty /\ version = <<>> /\ pc' \in {"ready", "error"}
    BY <1>9 DEF UpgradeToHead
  <2>2. Made(chain, schema)
    BY <1>3, <2>1 DEF Made
  <2>3. UpgradeHead(chain) = HeadOf(chain) /\ Located(chain)
    BY <2>1, <2>2, SchemaAfterCommand DEF HeadOf, Up
  <2>4. CASE ~HeadOf(chain).ok
    BY <1>8, <1>9, <2>3, <2>4 DEF UpgradeToHead, Works, Away
  <2>5. CASE HeadOf(chain).ok
    <3>1. schema' = HeadOf(chain).schema /\ version' = chain /\ pc' = "ready"
      BY <1>9, <2>3, <2>5 DEF UpgradeToHead, Command, Works
    <3>2. Made(chain, schema')
      BY <2>1, <2>2, <2>3, <2>5, <3>1, SchemaAfterCommand
    <3> QED
      BY <1>1, <2>5, <3>1, <3>2
      DEF Journey, Departed, WentDown, WentUp, WentBack, WentAgain, InTrip, AtHead
  <2> QED BY <2>4, <2>5
<1>10. CASE StartTest
  <2>1. pc = "ready" /\ pc' = "base" /\ schema' = schema /\ version' = version /\ Journey
    BY <1>10 DEF StartTest, RealTrip
  <2>2. Departed'
    BY <1>1, <2>1 DEF Journey, Departed, AtHead, AtBase, InTrip
  <2> QED BY <2>1, <2>2 DEF Journey, WentDown, WentUp, WentBack, WentAgain
<1>11. CASE Judge
  <2>1. pc = "judged" /\ test' = test /\ schema' = schema /\ version' = version
    BY <1>11 DEF Judge
  <2>2. pc' = "ready" /\ Journey
    BY <1>11, <2>1, FinishLeadsOn DEF Judge, RealTrip
  <2>3. Departed'
    BY <1>1, <2>1, <2>2 DEF Journey, Departed, WentAgain, AtHead, AtBase, InTrip
  <2> QED BY <2>2, <2>3 DEF Journey, WentDown, WentUp, WentBack, WentAgain
<1>12. CASE UNCHANGED vars
  <2>1. Journey
    BY <1>12 DEF vars, RealTrip
  <2> QED
    BY <1>1, <1>12, <2>1
    DEF vars, Journey, Departed, WentDown, WentUp, WentBack, WentAgain, AtHead, AtBase
<1>13. CASE TripBase \/ TripForward \/ TripReverse \/ TripReapply
  <2>1. test \in {"none", "real"} /\ Config(test) = chain /\ pc \in InTrip
    BY <1>7, <1>13 DEF TripBase, TripForward, TripReverse, TripReapply, InTrip
  <2>2. Journey /\ HeadOf(chain).ok /\ Made(chain, schema) /\ version \in {<<>>, chain}
    BY <2>1 DEF RealTrip, Journey, Departed
  <2>3. /\ version = <<>> =>
             /\ UpgradeHead(chain) = Run(Up, schema)
             /\ DowngradeBase(chain) = [ok |-> TRUE, schema |-> schema]
        /\ version = chain =>
             /\ UpgradeHead(chain) = [ok |-> TRUE, schema |-> schema]
             /\ DowngradeBase(chain) = Run(Down, schema)
        /\ Located(chain)
        /\ UpgradeHead(chain).ok => Made(chain, UpgradeHead(chain).schema)
        /\ DowngradeBase(chain).ok => Made(chain, DowngradeBase(chain).schema)
    BY <2>2, SchemaAfterCommand
  <2>4. /\ Works(chain, UpgradeHead(chain)) <=> UpgradeHead(chain).ok
        /\ Works(chain, DowngradeBase(chain)) <=> DowngradeBase(chain).ok
    BY <2>3 DEF Works
  <2>5. Restores(chain) =>
          /\ Run(Up, Empty).ok
          /\ Run(Down, Run(Up, Empty).schema).ok
          /\ Run(Down, Run(Up, Empty).schema).schema = Empty
    BY <1>2, RestoresAll
  <2>6. HeadOf(chain) = Run(Up, Empty)
    BY DEF HeadOf, Up
  <2>7. Made(chain, schema') /\ version' \in {<<>>, chain}
    <3>1. CASE UNCHANGED <<schema, version>>
      BY <2>2, <3>1
    <3>2. ASSUME NEW v \in {<<>>, chain},
                 \/ Command(chain, UpgradeHead(chain), v)
                 \/ Command(chain, DowngradeBase(chain), v)
          PROVE  Made(chain, schema') /\ version' \in {<<>>, chain}
      BY <2>2, <2>3, <2>4, <3>2 DEF Command
    <3> QED BY <1>13, <2>1, <3>2 DEF TripBase, TripForward, TripReverse, TripReapply
  <2>8. CASE TripBase
    <3>1. /\ pc = "base" /\ Command(chain, DowngradeBase(chain), <<>>)
          /\ pc' = IF Works(chain, DowngradeBase(chain)) THEN "forward" ELSE Finish(test)
          /\ trip' = [NoTrip EXCEPT !.base = schema'] /\ test' = test
      BY <1>6, <2>1, <2>8 DEF TripBase
    <3>2. trip'.base = schema'
      BY <3>1 DEF NoTrip
    <3>3. CASE DowngradeBase(chain).ok
      <4>1. pc' = "forward" /\ schema' = DowngradeBase(chain).schema /\ version' = <<>>
        BY <2>4, <3>1, <3>3 DEF Command
      <4>2. Restores(chain) => schema' = Empty
        <5>1. SUFFICES ASSUME Restores(chain) PROVE schema' = Empty
          OBVIOUS
        <5>2. CASE AtHead
          BY <2>3, <2>5, <2>6, <4>1, <5>1, <5>2 DEF AtHead
        <5>3. CASE AtBase
          BY <2>3, <4>1, <5>3 DEF AtBase
        <5> QED BY <2>2, <3>1, <5>1, <5>2, <5>3 DEF Journey, Departed, InTrip
      <4>3. Departed'
        BY <1>1, <2>2, <2>7, <4>1 DEF Departed
      <4> QED
        BY <1>1, <3>2, <4>1, <4>2, <4>3 DEF Journey, WentDown, WentUp, WentBack, WentAgain
    <3>4. CASE ~DowngradeBase(chain).ok
      <4>1. pc' = "ready" /\ schema' = schema /\ version' = version
        BY <2>1, <2>4, <3>1, <3>4, FinishLeadsOn DEF Command
      <4>2. Departed'
        BY <1>1, <2>2, <3>1, <4>1 DEF Journey, Departed, AtHead, AtBase, InTrip
      <4> QED
        BY <4>1, <4>2 DEF Journey, WentDown, WentUp, WentBack, WentAgain
    <3> QED BY <3>3, <3>4
  <2>9. CASE TripForward
    <3>1. /\ pc = "forward" /\ pc' = "reverse" /\ Command(chain, UpgradeHead(chain), chain)
          /\ trip' = [trip EXCEPT !.forward_error = ~UpgradeHead(chain).ok, !.head = schema']
      BY <1>6, <2>1, <2>4, <2>9 DEF TripForward
    <3>2. /\ trip'.base = trip.base /\ trip'.head = schema'
          /\ trip'.forward_error = ~UpgradeHead(chain).ok
      BY <3>1 DEF Typed, Trips
    <3>3. version = <<>> /\ trip.base = schema /\ UpgradeHead(chain) = Run(Up, trip.base)
      BY <2>2, <2>3, <3>1 DEF Journey, WentDown
    <3>4. UpgradeHead(chain).ok => schema' = UpgradeHead(chain).schema /\ version' = chain
      BY <2>4, <3>1 DEF Command
    <3>5. Restores(chain) => trip.base = Empty
      BY <2>2, <3>1, <3>3 DEF Journey, WentDown
    <3>6. Departed'
      BY <1>1, <2>2, <2>7, <3>1 DEF Departed
    <3>7. WentUp'
      BY <1>1, <2>2, <2>5, <3>1, <3>2, <3>3, <3>4, <3>5 DEF WentUp
    <3> QED BY <3>1, <3>6, <3>7 DEF Journey, WentDown, WentBack, WentAgain
  <2>10. CASE TripReverse
    <3>1. /\ pc = "reverse" /\ pc' = "reapply" /\ Command(chain, DowngradeBase(chain), <<>>)
          /\ trip' = [trip EXCEPT !.reverse_error = ~DowngradeBase(chain).ok,
                                  !.after_reverse = schema']
      BY <1>6, <2>1, <2>4, <2>10 DEF TripReverse
    <3>2. /\ trip'.base = trip.base /\ trip'.head = trip.head
          /\ trip'.forward_error = trip.forward_error
          /\ trip'.reverse_error = ~DowngradeBase(chain).ok /\ trip'.after_reverse = schema'
      BY <3>1 DEF Typed, Trips
    <3>3. WentUp /\ (~trip.forward_error => DowngradeBase(chain) = Run(Down, trip.head))
      BY <2>2, <2>3, <3>1 DEF Journey, WentUp
    <3>4. DowngradeBase(chain).ok => schema' = DowngradeBase(chain).schema /\ version' = <<>>
      BY <2>4, <3>1 DEF Command
    <3>5. Restores(chain) => DowngradeBase(chain).ok
      BY <2>5, <3>1, <3>3 DEF WentUp
    <3>6. Departed'
      BY <1>1, <2>2, <2>7, <3>1 DEF Departed
    <3>7. WentUp'
      BY <1>1, <3>1, <3>2, <3>3 DEF WentUp
    <3>8. WentBack'
      BY <1>1, <3>1, <3>2, <3>3, <3>4, <3>5 DEF WentBack
    <3> QED BY <3>1, <3>6, <3>7, <3>8 DEF Journey, WentDown, WentAgain
  <2>11. CASE TripReapply
    <3>1. /\ pc = "reapply" /\ pc' = "judged" /\ Command(chain, UpgradeHead(chain), chain)
          /\ trip' = [trip EXCEPT !.reapply_error = ~UpgradeHead(chain).ok,
                                  !.after_reapply = schema']
      BY <1>6, <2>1, <2>4, <2>11 DEF TripReapply
    <3>2. /\ trip'.base = trip.base /\ trip'.head = trip.head
          /\ trip'.after_reverse = trip.after_reverse
          /\ trip'.forward_error = trip.forward_error
          /\ trip'.reverse_error = trip.reverse_error
          /\ trip'.reapply_error = ~UpgradeHead(chain).ok /\ trip'.after_reapply = schema'
      BY <3>1 DEF Typed, Trips
    <3>3. /\ WentUp /\ WentBack
          /\ ~trip.forward_error /\ ~trip.reverse_error =>
               UpgradeHead(chain) = Run(Up, trip.after_reverse)
      BY <2>2, <2>3, <3>1 DEF Journey, WentBack
    <3>4. UpgradeHead(chain).ok => schema' = UpgradeHead(chain).schema /\ version' = chain
      BY <2>4, <3>1 DEF Command
    <3>5. Restores(chain) =>
            ~trip.forward_error /\ ~trip.reverse_error /\ trip.after_reverse = Empty
      BY <2>5, <3>1, <3>3 DEF WentUp, WentBack
    <3>6. Restores(chain) =>
            /\ UpgradeHead(chain).ok /\ schema' = HeadOf(chain).schema /\ version' = chain
      BY <2>5, <2>6, <3>3, <3>4, <3>5
    <3>7. Departed'
      BY <1>1, <2>2, <2>7, <3>1 DEF Departed
    <3>8. WentUp' /\ WentBack'
      BY <1>1, <3>1, <3>2, <3>3 DEF WentUp, WentBack
    <3>9. WentAgain'
      BY <1>1, <3>1, <3>2, <3>3, <3>4, <3>6 DEF WentAgain, AtHead
    <3> QED BY <3>1, <3>7, <3>8, <3>9 DEF Journey, WentDown
  <2> QED BY <1>13, <2>8, <2>9, <2>10, <2>11
<1> QED
  BY <1>8, <1>9, <1>10, <1>11, <1>12, <1>13
  DEF Next, Away, MigrateByHand, RestartDatabase, StartSession, EndSession, DropTables, ClearVersion

--------------------------------------------------------------------------------
\* The tests of a broken migration: o is what it leaves behind.
LeftBehind(t, o) ==
  /\ o \in Seen
  /\ \E d \in Definitions : Injected[t].up = <<[op |-> "create", obj |-> o, def |-> d]>>
  /\ Leaves(Injected[t].down, o)
  /\ \A c \in Chains : \A i \in DOMAIN c : Leaves(c[i].up, o) /\ Leaves(c[i].down, o)
\* Its upgrade ends in an error.
Raises(t) == Injected[t].up # <<>> /\ Injected[t].up[Len(Injected[t].up)].op = "raise"

\* Each test's migration is broken in one of the two ways.
LEMMA EachIsBroken ==
  ASSUME NEW t \in DOMAIN Injected
  PROVE  Raises(t) \/ \E o : LeftBehind(t, o)
BY InjectedAssumption DEF Raises, LeftBehind

\* It is written on top of the others.
LEMMA InjectedConfig ==
  ASSUME chain \in Chains, NEW t \in DOMAIN Injected
  PROVE  /\ Config(t) \in Seq(Migrations) /\ Len(Config(t)) = Len(chain) + 1 /\ Len(chain) \in Nat
         /\ \A i \in 1..Len(chain) : Config(t)[i] = chain[i] /\ chain[i] \in Migrations
         /\ Config(t)[Len(chain) + 1] = Injected[t] /\ Injected[t] \in Migrations
<1>1. chain \in Seq(Migrations) /\ Injected[t] \in Migrations /\ Config(t) = Append(chain, Injected[t])
  BY ChainScripts, ChainAssumption DEF Config
<1> QED BY <1>1, AppendProperties

\* Its upgrade comes last, behind statements that are those of the others.
LEMMA InjectedComesLast ==
  ASSUME chain \in Chains, NEW t \in DOMAIN Injected, NEW Y,
         \A i \in 1..Len(chain) : chain[i].up \in Seq(Y)
  PROVE  \E p \in Seq(Y) : Upgrades(Config(t), 0) = p \o Injected[t].up
<1> DEFINE c == Config(t)
           ss == [i \in 1..Len(c) - 0 |-> c[0 + i].up]
<1>1. /\ c \in Seq(Migrations) /\ Len(c) = Len(chain) + 1 /\ Len(chain) \in Nat
      /\ \A i \in 1..Len(chain) : c[i] = chain[i]
      /\ c[Len(c)] = Injected[t]
      /\ \A i \in 1..Len(c) : c[i].up \in Seq(Statements)
  <2>1. \A m \in Migrations : m.up \in Seq(Statements)
    BY DEF Migrations
  <2>2. \A i \in 1..Len(chain) + 1 : Config(t)[i] \in Migrations
    BY InjectedConfig
  <2> QED BY <2>1, <2>2, InjectedConfig
<1> HIDE DEF c
<1>2. Len(c) - 0 = Len(c) /\ \A i \in 1..Len(c) : 0 + i = i
  BY <1>1
<1>3. ss \in Seq(Seq(Statements)) /\ Len(ss) = Len(c) /\ \A i \in 1..Len(c) : ss[i] = c[i].up
  BY <1>1, <1>2, IsASeq
<1>4. Upgrades(c, 0) = FlattenSeq(ss)
  BY DEF Upgrades
<1> HIDE DEF ss
<1>5. \A i \in 1..Len(ss) : i < Len(ss) => ss[i] \in Seq(Y)
  <2>1. SUFFICES ASSUME NEW i \in 1..Len(ss), i < Len(ss) PROVE ss[i] \in Seq(Y)
    OBVIOUS
  <2>2. i \in 1..Len(chain) /\ i \in 1..Len(c)
    BY <1>1, <1>3, <2>1
  <2>3. ss[i] = chain[i].up
    BY <1>1, <1>3, <2>2
  <2> QED BY <2>2, <2>3
<1>6. Len(ss) > 0 /\ ss[Len(ss)] = Injected[t].up
  BY <1>1, <1>3
<1> QED BY <1>3, <1>4, <1>5, <1>6, FlattenLast DEF c

\* An upgrade that ends in an error fails, from wherever it starts.
LEMMA RaisingFails ==
  ASSUME chain \in Chains, NEW t \in DOMAIN Injected, Raises(t), NEW s \in Schemas
  PROVE  ~Run(Upgrades(Config(t), 0), s).ok
<1>1. Injected[t].up \in Seq(Statements) /\ \A i \in 1..Len(chain) : chain[i].up \in Seq(Statements)
  BY InjectedConfig DEF Migrations
<1>2. PICK p \in Seq(Statements) : Upgrades(Config(t), 0) = p \o Injected[t].up
  BY <1>1, InjectedComesLast
<1> DEFINE u == Injected[t].up
           n == Len(p) + Len(u)
<1>3. Len(u) > 0 /\ u[Len(u)].op = "raise" /\ Len(p) \in Nat /\ Len(u) \in Nat
  BY <1>1 DEF Raises
<1>4. p \o u \in Seq(Statements) /\ Len(p \o u) = n /\ (p \o u)[n] = u[Len(u)] /\ n \in 1..n
  BY <1>1, <1>3, ConcatProperties
<1> QED BY <1>2, <1>3, <1>4, RaiseFails

\* The statements that have nothing to do with o.
Others(o) == {st \in Statements : ~Touches(st, o)}

\* A script has nothing to do with o if none of its statements has.
LEMMA LeavesIsOthers ==
  ASSUME NEW o, NEW script \in Seq(Statements)
  PROVE  Leaves(script, o) <=> script \in Seq(Others(o))
<1>1. Len(script) \in Nat /\ DOMAIN script = 1..Len(script)
      /\ script = [j \in 1..Len(script) |-> script[j]]
      /\ \A j \in 1..Len(script) : script[j] \in Statements
  OBVIOUS
<1>2. ASSUME Leaves(script, o) PROVE script \in Seq(Others(o))
  <2>1. \A j \in 1..Len(script) : script[j] \in Others(o)
    BY <1>1, <1>2 DEF Leaves, Others
  <2> QED BY <1>1, <2>1, IsASeq
<1>3. ASSUME script \in Seq(Others(o)) PROVE Leaves(script, o)
  <2>1. \A j \in 1..Len(script) : script[j] \in Others(o)
    BY <1>3
  <2> QED BY <1>1, <2>1 DEF Leaves, Others
<1> QED BY <1>2, <1>3

\* It goes up only where o is not, and then o is there; down it stays.
LEMMA LeftBehindAppears ==
  ASSUME chain \in Chains, NEW t \in DOMAIN Injected, NEW o, LeftBehind(t, o), NEW s \in Schemas,
         Run(Upgrades(Config(t), 0), s).ok
  PROVE  o \notin DOMAIN s /\ o \in DOMAIN Run(Upgrades(Config(t), 0), s).schema
<1>1. \A i \in 1..Len(chain) : chain[i].up \in Seq(Others(o))
  <2>1. \A i \in 1..Len(chain) : chain[i].up \in Seq(Statements)
    BY InjectedConfig DEF Migrations
  <2>2. \A i \in 1..Len(chain) : Leaves(chain[i].up, o)
    <3>1. DOMAIN chain = 1..Len(chain)
      BY ChainScripts
    <3> QED BY <3>1 DEF LeftBehind
  <2> QED BY <2>1, <2>2, LeavesIsOthers
<1>2. PICK p \in Seq(Others(o)) : Upgrades(Config(t), 0) = p \o Injected[t].up
  BY <1>1, InjectedComesLast
<1>3. PICK d \in Definitions : Injected[t].up = <<[op |-> "create", obj |-> o, def |-> d]>>
  BY DEF LeftBehind
<1> DEFINE st == [op |-> "create", obj |-> o, def |-> d]
           script == p \o <<st>>
           n == Len(p) + 1
<1>4. st.op = "create" /\ st.obj = o /\ Upgrades(Config(t), 0) = script
  BY <1>2, <1>3
<1>5. script \in Seq(Statements)
  <2>1. Config(t) \in Seq(Migrations) /\ 0 \in Nat
    BY InjectedConfig
  <2>2. Upgrades(Config(t), 0) \in Seq(Statements)
    BY <2>1, ScriptsAreScripts
  <2> HIDE DEF script
  <2> QED BY <1>4, <2>2
<1> HIDE DEF st
<1>6. /\ Len(p) \in Nat /\ Len(script) = n /\ script[n] = st
      /\ \A j \in 1..n-1 : script[j] = p[j] /\ p[j] \in Others(o)
  BY ConcatProperties
<1> HIDE DEF script
<1>7. \A j \in 1..n-1 : ~Touches(script[j], o)
  BY <1>6 DEF Others
<1>8. PICK h : Passes(h, script, s) /\ Run(script, s).schema = h[Len(script)]
  BY <1>4, <1>5, RunIsResult
<1>9. n \in 1..n /\ n - 1 \in 0..n
  BY <1>6
<1>10. ~Refused(st, h[n-1]) /\ h[n] = After(st, h[n-1])
  BY <1>6, <1>8, <1>9 DEF Passes
<1>11. o \notin DOMAIN h[n-1]
  BY <1>4, <1>10 DEF Refused
<1>12. o \notin DOMAIN s
  BY <1>5, <1>6, <1>7, <1>8, <1>9, <1>11, UntouchedStays
<1>13. o \in DOMAIN h[n]
  BY <1>4, <1>10 DEF After
<1> QED BY <1>4, <1>6, <1>8, <1>12, <1>13

\* Going down, o stays.
LEMMA LeftBehindStays ==
  ASSUME chain \in Chains, NEW t \in DOMAIN Injected, NEW o, LeftBehind(t, o), NEW s \in Schemas,
         o \in DOMAIN s, Run(Downgrades(Config(t)), s).ok
  PROVE  o \in DOMAIN Run(Downgrades(Config(t)), s).schema
<1> DEFINE c == Config(t)
<1>1. \A i \in 1..Len(c) : c[i].down \in Seq(Others(o))
  <2>1. TAKE i \in 1..Len(c)
  <2>2. c[i] \in Migrations /\ Leaves(c[i].down, o)
    <3>1. DOMAIN chain = 1..Len(chain)
      BY ChainScripts
    <3>2. CASE i \in 1..Len(chain)
      BY <3>1, <3>2, InjectedConfig DEF LeftBehind
    <3>3. CASE i = Len(chain) + 1
      BY <3>3, InjectedConfig DEF LeftBehind
    <3> QED BY <3>2, <3>3, InjectedConfig
  <2> QED BY <2>2, LeavesIsOthers DEF Migrations
<1>2. Len(c) \in Nat /\ Downgrades(c) \in Seq(Statements)
  BY InjectedConfig, ScriptsAreScripts
<1>3. Leaves(Downgrades(c), o)
  BY <1>1, <1>2, ScriptsKeepTo, LeavesIsOthers
<1> QED BY <1>2, <1>3, RunMakes

\* What is left behind on a trip that has not failed yet.
LeftOnTrip(o) ==
  /\ LeftBehind(test, o) /\ o \notin DOMAIN trip.base
  /\ pc = "reverse" => version = Config(test) /\ o \in DOMAIN schema
  /\ pc # "reverse" => trip.reverse_error \/ o \in DOMAIN trip.after_reverse
\* How far a trip of a broken migration has come: it failed going up, or left o behind.
InjectedTrip ==
  test \in DOMAIN Injected =>
    /\ pc = "forward" => version = <<>> /\ trip.base = Snapshot(schema)
    /\ pc \in {"reverse", "reapply", "judged"} => trip.forward_error \/ \E o : LeftOnTrip(o)

\* Every step keeps to that.
LEMMA InjectedTripStep ==
  ASSUME Typed, InjectedTrip, [Next]_vars
  PROVE  InjectedTrip'
<1> SUFFICES ASSUME test' \in DOMAIN Injected, pc' \in {"forward", "reverse", "reapply", "judged"}
    PROVE InjectedTrip'
  BY DEF InjectedTrip
<1>1. chain' = chain /\ chain \in Chains /\ (\A t : Config(t)' = Config(t))
      /\ schema \in Schemas
  BY ChainStays, SchemasAreSchemas DEF Typed, TypeOK, Config
<1>2. \A o : LeftBehind(test, o)' <=> LeftBehind(test', o)
  BY DEF LeftBehind
<1>3. CASE TripBase
  <2>1. version' = <<>> /\ trip' = [NoTrip EXCEPT !.base = Snapshot(schema')] /\ pc' = "forward"
    BY <1>3, FinishLeadsOn DEF TripBase, Command
  <2>2. trip'.base = Snapshot(schema')
    BY <2>1 DEF NoTrip
  <2> QED BY <2>1, <2>2 DEF InjectedTrip
<1>4. CASE TripForward
  <2> DEFINE c == Config(test)
  <2>1. /\ test \in DOMAIN Injected /\ test' = test /\ pc' = "reverse"
        /\ version = <<>> /\ trip.base = Snapshot(schema)
        /\ Command(c, UpgradeHead(c), c)
        /\ trip' = [trip EXCEPT !.forward_error = ~Works(c, UpgradeHead(c)), !.head = Snapshot(schema')]
    BY <1>4 DEF TripForward, InjectedTrip
  <2>2. c \in Seq(Migrations)
    BY <1>1, ConfigIsChain
  <2>3. Located(c) /\ UpgradeHead(c) = Run(Upgrades(c, 0), schema)
    BY <2>1, <2>2, Commands
  <2>4. trip'.forward_error = ~Works(c, UpgradeHead(c)) /\ trip'.base = trip.base
    BY <2>1 DEF Typed, Trips
  <2>5. CASE ~UpgradeHead(c).ok
    BY <2>1, <2>4, <2>5 DEF InjectedTrip, Works
  <2>6. CASE UpgradeHead(c).ok
    <3>1. version' = c /\ schema' = UpgradeHead(c).schema
      BY <2>1, <2>3, <2>6 DEF Command, Works
    <3>2. ~Raises(test)
      BY <1>1, <2>1, <2>3, <2>6, RaisingFails
    <3>3. PICK o : LeftBehind(test, o)
      BY <2>1, <3>2, EachIsBroken
    <3>4. o \notin DOMAIN schema /\ o \in DOMAIN UpgradeHead(c).schema
      BY <1>1, <2>1, <2>3, <2>6, <3>3, LeftBehindAppears
    <3>5. o \notin DOMAIN trip'.base
      BY <2>1, <2>4, <3>4 DEF Snapshot, Restrict
    <3>6. LeftOnTrip(o)'
      BY <1>1, <1>2, <2>1, <3>1, <3>3, <3>4, <3>5 DEF LeftOnTrip
    <3> QED BY <2>1, <3>6 DEF InjectedTrip
  <2> QED BY <2>5, <2>6
<1>5. CASE TripReverse
  <2> DEFINE c == Config(test)
  <2>1. /\ test \in DOMAIN Injected /\ test' = test /\ pc = "reverse" /\ pc' = "reapply"
        /\ Command(c, DowngradeBase(c), <<>>)
        /\ trip' = [trip EXCEPT !.reverse_error = ~Works(c, DowngradeBase(c)),
                                !.after_reverse = Snapshot(schema')]
    BY <1>5 DEF TripReverse
  <2>2. /\ trip'.forward_error = trip.forward_error /\ trip'.base = trip.base
        /\ trip'.reverse_error = ~Works(c, DowngradeBase(c))
        /\ trip'.after_reverse = Snapshot(schema')
    BY <2>1 DEF Typed, Trips
  <2>3. CASE trip.forward_error
    BY <2>1, <2>2, <2>3 DEF InjectedTrip
  <2>4. ASSUME NEW o, LeftBehind(test, o), o \notin DOMAIN trip.base,
               version = c, o \in DOMAIN schema
        PROVE  trip'.reverse_error \/ o \in DOMAIN trip'.after_reverse
    <3>1. c \in Seq(Migrations) /\ c # NoTable
      BY <1>1, ConfigIsChain, ChainAssumption
    <3>2. DowngradeBase(c) = Run(Downgrades(c), schema)
      BY <2>4, <3>1, Commands
    <3>3. SUFFICES ASSUME Works(c, DowngradeBase(c)) PROVE o \in DOMAIN Snapshot(schema')
      BY <2>2
    <3>4. schema' = DowngradeBase(c).schema /\ DowngradeBase(c).ok
      BY <2>1, <3>3 DEF Command, Works
    <3>5. o \in DOMAIN schema'
      BY <1>1, <2>1, <2>4, <3>2, <3>4, LeftBehindStays
    <3> QED BY <2>4, <3>5 DEF Snapshot, Restrict, LeftBehind
  <2>5. CASE ~trip.forward_error
    <3>1. PICK o : LeftOnTrip(o)
      BY <2>1, <2>5 DEF InjectedTrip
    <3>2. trip'.reverse_error \/ o \in DOMAIN trip'.after_reverse
      BY <2>1, <2>4, <3>1 DEF LeftOnTrip
    <3>3. LeftOnTrip(o)'
      BY <1>2, <2>1, <2>2, <3>1, <3>2 DEF LeftOnTrip
    <3> QED BY <2>1, <3>3 DEF InjectedTrip
  <2> QED BY <2>3, <2>5
<1>6. CASE TripReapply
  <2>1. /\ test' = test /\ pc = "reapply" /\ pc' = "judged"
        /\ \E e, s : trip' = [trip EXCEPT !.reapply_error = e, !.after_reapply = s]
    BY <1>6 DEF TripReapply
  <2>2. /\ trip'.forward_error = trip.forward_error /\ trip'.base = trip.base
        /\ trip'.reverse_error = trip.reverse_error
        /\ trip'.after_reverse = trip.after_reverse
    BY <2>1 DEF Typed, Trips
  <2>3. CASE trip.forward_error
    BY <2>1, <2>2, <2>3 DEF InjectedTrip
  <2>4. CASE ~trip.forward_error
    <3>1. PICK o : LeftOnTrip(o)
      BY <2>1, <2>4 DEF InjectedTrip
    <3>2. LeftOnTrip(o)'
      BY <1>2, <2>1, <2>2, <3>1 DEF LeftOnTrip
    <3> QED BY <2>1, <3>2 DEF InjectedTrip
  <2> QED BY <2>3, <2>4
<1>7. CASE UNCHANGED vars
  BY <1>1, <1>2, <1>7 DEF vars, InjectedTrip, LeftOnTrip
<1> QED
  BY <1>3, <1>4, <1>5, <1>6, <1>7, FinishLeadsOn
  DEF Next, MigrateByHand, RestartDatabase, StartSession, EndSession, DropTables, ClearVersion,
      UpgradeToHead, StartTest, Judge

\* So it is judged broken, and it is.
LEMMA InjectedJudged ==
  ASSUME Typed, InjectedTrip, test \in DOMAIN Injected, pc = "judged"
  PROVE  ~Reversible(trip) /\ ~Restores(Config(test))
<1> DEFINE c == Config(test)
<1>1. chain \in Chains /\ Empty \in Schemas /\ DOMAIN Empty = {}
  BY EmptyIsSchema DEF Typed
<1>2. ~Reversible(trip)
  <2>1. CASE trip.forward_error
    BY <2>1 DEF Reversible
  <2>2. CASE ~trip.forward_error
    <3>1. PICK o : LeftOnTrip(o)
      BY <2>2 DEF InjectedTrip
    <3> QED BY <3>1 DEF LeftOnTrip, Reversible
  <2> QED BY <2>1, <2>2
<1>3. SUFFICES ASSUME Restores(c) PROVE FALSE
  BY <1>2
<1> DEFINE head == Run(Upgrades(c, 0), Empty)
           back == Run(Downgrades(c), head.schema)
<1>4. head.ok /\ back.ok /\ Snapshot(back.schema) = Empty
  BY <1>3 DEF Restores, HeadOf
<1>5. PICK o : LeftBehind(test, o)
  BY <1>1, <1>4, RaisingFails, EachIsBroken
<1>6. o \in DOMAIN head.schema
  BY <1>1, <1>4, <1>5, LeftBehindAppears
<1>7. head.schema \in Schemas
  <2>1. c \in Seq(Migrations) /\ 0 \in Nat
    BY <1>1, ConfigIsChain
  <2>2. Upgrades(c, 0) \in Seq(Statements)
    BY <2>1, ScriptsAreScripts
  <2> QED BY <1>1, <2>2, RunIsResult DEF Results
<1>8. o \in DOMAIN back.schema
  <2> HIDE DEF head
  <2> QED BY <1>1, <1>4, <1>5, <1>6, <1>7, LeftBehindStays
<1>9. o \in DOMAIN Snapshot(back.schema)
  BY <1>5, <1>8 DEF Snapshot, Restrict, LeftBehind
<1> QED BY <1>1, <1>4, <1>9

--------------------------------------------------------------------------------
\* How far a reset has come, and that a ready session did not just run a broken one.
ResetInv ==
  /\ pc = "clear_version" => schema = Empty
  /\ pc = "upgrade" => schema = Empty /\ version = <<>>
  /\ pc = "ready" => test \in {"none", "real"}
  /\ ResetIsHead
  /\ NothingWedges

\* Dropping the tables with what hangs on them leaves nothing.
LEMMA NothingLeft ==
  ASSUME IsSchema(schema)
  PROVE  Without(schema,
           Tables \cup {o \in Objects : \E p \in Tables : <<o, p>> \in References}) = Empty
<1>1. DOMAIN schema
        \ (Tables \cup {o \in Objects : \E p \in Tables : <<o, p>> \in References}) = {}
  BY ResetReachesAll DEF IsSchema
<1> QED BY <1>1 DEF Without, Restrict, Empty

\* Every step keeps to the reset's progress.
LEMMA ResetStep ==
  ASSUME Typed, ResetInv, [Next]_vars
  PROVE  ResetInv'
<1> USE DEF ResetInv, ResetIsHead, NothingWedges
<1>1. chain' = chain /\ HeadOf(chain)' = HeadOf(chain) /\ (pc \in InTrip => test # "none")
  BY ChainStays DEF Typed
<1>2. CASE MigrateByHand \/ RestartDatabase \/ StartSession \/ EndSession
  BY <1>2 DEF MigrateByHand, RestartDatabase, StartSession, EndSession
<1>3. CASE DropTables
  BY <1>3, NothingLeft DEF DropTables, Typed, TypeOK
<1>4. CASE ClearVersion
  BY <1>4 DEF ClearVersion
<1>5. CASE UpgradeToHead
  <2>1. UpgradeHead(chain) = HeadOf(chain) /\ Located(chain)
    BY <1>5, ChainScripts, Commands DEF UpgradeToHead, HeadOf, Typed
  <2>2. CASE HeadOf(chain).ok
    <3>1. schema' = HeadOf(chain).schema /\ version' = chain /\ pc' = "ready" /\ test' = "none"
      BY <1>5, <2>1, <2>2 DEF UpgradeToHead, Command, Works
    <3> QED BY <1>1, <3>1
  <2>3. CASE ~HeadOf(chain).ok
    <3>1. pc' = "error"
      BY <1>5, <2>1, <2>3 DEF UpgradeToHead, Works
    <3> QED BY <1>1, <2>3, <3>1
  <2> QED BY <2>2, <2>3
<1>6. CASE StartTest
  BY <1>6 DEF StartTest
<1>7. CASE TripBase \/ Judge
  <2>1. /\ test' = test /\ test # "none" /\ pc' \in {"forward", "drop_tables", "ready"}
        /\ pc' = "ready" => pc' = Finish(test)
    BY <1>1, <1>7, FinishLeadsOn DEF TripBase, Judge, InTrip
  <2>2. pc' = "ready" => test' \in {"none", "real"}
    BY <2>1 DEF Typed, TypeOK, Finish
  <2> QED BY <2>1, <2>2
<1>8. CASE TripForward \/ TripReverse \/ TripReapply
  <2>1. pc' \in {"reverse", "reapply", "judged"}
    BY <1>8 DEF TripForward, TripReverse, TripReapply
  <2> QED BY <2>1
<1>9. CASE UNCHANGED vars
  BY <1>1, <1>9 DEF vars
<1> QED BY <1>2, <1>3, <1>4, <1>5, <1>6, <1>7, <1>8, <1>9 DEF Next

\* The inductive invariant of the reset.
LEMMA ResetInvariant == Spec => [](Typed /\ ResetInv)
<1>1. Init => Typed /\ ResetInv
  BY InitTyped DEF Init, ResetInv, ResetIsHead, NothingWedges
<1>2. Typed /\ ResetInv /\ [Next]_vars => Typed' /\ ResetInv'
  BY TypedStep, ResetStep
<1> QED BY <1>1, <1>2, PTL DEF Spec

\* Whatever the migrations are and whatever a session does: what the commands leave is
\* a schema, the version a prefix of the migrations they ran with (TypeOK).
THEOREM RoundTripTypeCorrect == Spec => []TypeOK
<1>1. Typed => TypeOK
  BY DEF Typed
<1> QED BY <1>1, ResetInvariant, PTL

\* The fixture and every cleanup end at the head of the real migrations, whatever
\* sabotage, failed trip or killed session came before.
THEOREM ResetReachesHead == Spec => []ResetIsHead
<1>1. ResetInv => ResetIsHead
  BY DEF ResetInv
<1> QED BY <1>1, ResetInvariant, PTL

\* They fail only on a database alembic never touched, or with migrations that do not
\* apply to an empty one: no session wedges the next.
THEOREM ResetNeverWedges == Spec => []NothingWedges
<1>1. ResetInv => NothingWedges
  BY DEF ResetInv
<1> QED BY <1>1, ResetInvariant, PTL

\* Where the four queries see whatever a migration can make, the verdict on migrations
\* that create nothing IF NOT EXISTS is the one an empty database would give, whatever
\* this one held; and that of each test of a broken migration is that it is broken.
THEOREM VerdictsAreRight ==
  ASSUME Seen = Objects
  PROVE  Spec => []StrictVerdictIsRight
<1> DEFINE Inv == Typed /\ ResetInv /\ RealTrip /\ InjectedTrip
<1>1. Init => Inv
  <2>1. Init => pc = "idle"
    BY DEF Init
  <2>2. Init => RealTrip
    BY <2>1 DEF RealTrip, Journey, Departed, WentDown, WentUp, WentBack, WentAgain, InTrip
  <2>3. Init => InjectedTrip
    BY <2>1 DEF InjectedTrip
  <2> QED BY <2>2, <2>3, InitTyped DEF Init, ResetInv, ResetIsHead, NothingWedges
<1>2. Inv /\ [Next]_vars => Inv'
  BY TypedStep, ResetStep, RealTripStep, InjectedTripStep DEF ResetInv
<1>3. Inv => StrictVerdictIsRight
  <2>1. SUFFICES ASSUME Inv, Strict(Config(test)), pc = "judged"
                 PROVE  Reversible(trip) <=> Restores(Config(test))
    BY DEF StrictVerdictIsRight, VerdictAsFromEmpty
  <2>2. CASE test \in DOMAIN Injected
    BY <2>1, <2>2, InjectedJudged
  <2>3. CASE test \notin DOMAIN Injected
    <3>1. Config(test) = chain /\ test \in {"none", "real"}
      BY <2>1, <2>3 DEF Config, Typed, TypeOK
    <3>2. Journey
      BY <2>1, <3>1 DEF RealTrip
    <3> QED BY <2>1, <3>1, <3>2, JourneyJudged
  <2> QED BY <2>2, <2>3
<1> QED BY <1>1, <1>2, <1>3, PTL DEF Spec
================================================================================
