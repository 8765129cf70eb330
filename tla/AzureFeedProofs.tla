---------------------------- MODULE AzureFeedProofs ----------------------------
(***************************************************************************)
(* Proofs about AzureFeed, for any pages, links, items and page limit.     *)
(***************************************************************************)
EXTENDS AzureFeed, FiniteSetTheorems, TLAPS

Fetching == feed_pc \in {"request", "reading"}

\* The items of kind `kind` among the first n of page p.
OnPage(kind, p, n) == {<<p, i>> : i \in {j \in 1..n : listing[p].items[j] = kind}}

\* The items of kind `kind` the loop is past.
Taken(kind) ==
  OfKind(kind, visited)
    \cup (IF feed_pc = "reading" THEN OnPage(kind, url, pos - 1) ELSE {})

\* Where the loop is in the listing, and how many requests it may still make.
FeedPlaced ==
  /\ FeedTypeOK
  /\ IsFiniteSet(observations)
  /\ feed_pc = "request" => pages <= MaxPages
  /\ feed_pc = "reading" =>
       /\ url \in Pages
       /\ pages \in 1..MaxPages
       /\ pos \in 1..Len(listing[url].items) + 1

\* The pages read are a walk from Endpoint to url: every link of theirs leads to
\* another of them or to url, and none of them is the last.
Walk ==
  Fetching =>
    /\ Endpoint \in visited \cup {url}
    /\ \A p \in visited : listing[p].next \in visited \cup {url}
    /\ visited \cup ({url} \cap Pages) \subseteq Reach

\* As long as the walk has not come back to a page it read, every page was read
\* once: nothing is missing, nothing is counted twice, nothing was refused.
Exact ==
  (Fetching /\ url \notin visited) =>
    /\ IsFiniteSet(visited)
    /\ Cardinality(visited) = IF feed_pc = "request" THEN pages ELSE pages - 1
    /\ observations = Taken("spot")
    /\ IsFiniteSet(Taken("on_demand")) /\ not_spot = Cardinality(Taken("on_demand"))
    /\ IsFiniteSet(Taken("monthly")) /\ not_hourly = Cardinality(Taken("monthly"))
    /\ \A kind \in {"not_object", "incomplete", "null_sku"} : Taken(kind) = {}

FeedIInv == FeedPlaced /\ Walk /\ Exact /\ NeverPartial /\ LimitIsNoCap

--------------------------------------------------------------------------------
(***************************************************************************)
(* Listings: what is on a page, and what is reached.                       *)
(***************************************************************************)
LEMMA BodyType ==
  ASSUME FeedTypeOK, NEW p \in Pages
  PROVE  /\ listing[p].items \in Seq(Items)
         /\ Len(listing[p].items) \in Nat
         /\ listing[p].next \in Links
<1>1. listing[p] \in Body
  BY ListingAssumption DEF FeedTypeOK
<1> QED BY <1>1 DEF Body

LEMMA OfKindMember ==
  ASSUME NEW kind, NEW S, NEW x
  PROVE  x \in OfKind(kind, S) <=>
           \E p \in S : \E i \in 1..Len(listing[p].items) :
             listing[p].items[i] = kind /\ x = <<p, i>>
BY DEF OfKind

LEMMA OfKindOneMore ==
  ASSUME NEW kind, NEW S, NEW p
  PROVE  OfKind(kind, S \cup {p})
           = OfKind(kind, S) \cup OnPage(kind, p, Len(listing[p].items))
BY OfKindMember DEF OnPage

LEMMA OnPageOneMore ==
  ASSUME NEW kind, NEW p, NEW n \in Nat
  PROVE  /\ OnPage(kind, p, n + 1) =
              OnPage(kind, p, n)
                \cup (IF listing[p].items[n + 1] = kind THEN {<<p, n + 1>>} ELSE {})
         /\ <<p, n + 1>> \notin OnPage(kind, p, n)
BY DEF OnPage

LEMMA EndpointReached == Endpoint \in Reach
BY EndpointAssumption DEF Reach, Linked

LEMMA NextReached ==
  ASSUME NEW p \in Reach, listing[p].next \in Pages
  PROVE  listing[p].next \in Reach
BY DEF Reach, Linked

LEMMA LinkedBounds ==
  ASSUME NEW S \in SUBSET Pages, Linked(S)
  PROVE  Reach \subseteq S
BY DEF Reach

LEMMA ReachKept == listing' = listing => Reach' = Reach
BY DEF Reach, Linked

LEMMA OfKindKept ==
  ASSUME listing' = listing, NEW kind, NEW S
  PROVE  OfKind(kind, S)' = OfKind(kind, S)
BY DEF OfKind

--------------------------------------------------------------------------------
(***************************************************************************)
(* Type correctness.                                                       *)
(***************************************************************************)
LEMMA FeedInitPlaced == FeedInit => FeedPlaced
BY EndpointAssumption, PageLimitAssumption, FS_EmptySet DEF FeedInit, FeedPlaced, FeedTypeOK

LEMMA FeedPlacedStep == FeedPlaced /\ [FeedNext]_feed_vars => FeedPlaced'
<1> SUFFICES ASSUME FeedPlaced, [FeedNext]_feed_vars PROVE FeedPlaced'
  OBVIOUS
<1> USE PageLimitAssumption DEF FeedPlaced, FeedTypeOK, FeedEnded
<1>1. CASE GiveUp
  BY <1>1 DEF GiveUp, collected
<1>2. CASE Unavailable \/ Unreadable \/ InvalidURL
  BY <1>2 DEF Unavailable, Unreadable, InvalidURL, Requests, collected
<1>3. CASE Receive
  <2>1. Len(listing[url].items) \in Nat
    BY <1>3, BodyType DEF Receive
  <2> QED BY <1>3, <2>1 DEF Receive, Requests, collected
<1>4. CASE Keep \/ SkipNotSpot \/ SkipNotHourly
  <2>1. Len(listing[url].items) \in Nat
    BY <1>4, BodyType DEF Keep, SkipNotSpot, SkipNotHourly, AtItem
  <2>2. IsFiniteSet(observations')
    <3>1. IsFiniteSet(observations \cup {<<url, pos>>})
      BY FS_AddElement
    <3> QED BY <1>4, <3>1 DEF Keep, SkipNotSpot, SkipNotHourly
  <2> QED BY <1>4, <2>1, <2>2 DEF Keep, SkipNotSpot, SkipNotHourly, AtItem, NextItem
<1>5. CASE Refuse
  BY <1>5 DEF Refuse, AtItem, collected
<1>6. CASE Return \/ RefuseLink \/ Follow
  BY <1>6 DEF Return, RefuseLink, Follow, PageDone, collected
<1>7. CASE FeedDone \/ UNCHANGED feed_vars
  BY <1>7 DEF FeedDone, feed_vars
<1> QED
  BY <1>1, <1>2, <1>3, <1>4, <1>5, <1>6, <1>7 DEF FeedNext, Fetch

\* The type invariant of the feed, for any listing.
THEOREM FeedTypeCorrect == FeedSpec => []FeedTypeOK
<1>1. FeedPlaced => FeedTypeOK
  BY DEF FeedPlaced
<1> QED BY FeedInitPlaced, FeedPlacedStep, <1>1, PTL DEF FeedSpec

--------------------------------------------------------------------------------
(***************************************************************************)
(* The walk through the listing.                                           *)
(***************************************************************************)
\* A step that ends the fetch leaves Walk and Exact nothing to say.
LEMMA FeedEndedStep == feed_pc' \in FeedEnded => Walk' /\ Exact'
BY DEF Walk, Exact, Fetching, FeedEnded

\* The next item of the page: what it is decides which list it is taken into.
LEMMA TakenNext ==
  ASSUME FeedPlaced, AtItem, NextItem, url \notin visited, NEW kind
  PROVE  /\ Taken(kind)' = Taken(kind) \cup (IF Item = kind THEN {<<url, pos>>} ELSE {})
         /\ <<url, pos>> \notin Taken(kind)
<1>1. feed_pc = "reading" /\ pos \in Nat \ {0}
  BY DEF AtItem, FeedPlaced, FeedTypeOK
<1>2. /\ OnPage(kind, url, pos) =
           OnPage(kind, url, pos - 1) \cup (IF Item = kind THEN {<<url, pos>>} ELSE {})
      /\ <<url, pos>> \notin OnPage(kind, url, pos - 1)
  <2>1. pos - 1 \in Nat /\ (pos - 1) + 1 = pos
    BY <1>1
  <2> QED BY <2>1, OnPageOneMore DEF Item
<1>3. Taken(kind) = OfKind(kind, visited) \cup OnPage(kind, url, pos - 1)
  BY <1>1 DEF Taken
<1>4. Taken(kind)' = OfKind(kind, visited) \cup OnPage(kind, url, pos)
  <2>1. /\ listing' = listing /\ url' = url /\ visited' = visited /\ feed_pc' = "reading"
        /\ pos' - 1 = pos
    BY <1>1 DEF NextItem
  <2>2. OfKind(kind, visited)' = OfKind(kind, visited)
    BY <2>1 DEF OfKind
  <2>3. OnPage(kind, url, pos - 1)' = OnPage(kind, url, pos)
    BY <2>1 DEF OnPage
  <2> QED BY <2>1, <2>2, <2>3 DEF Taken
<1>5. <<url, pos>> \notin OfKind(kind, visited)
  BY OfKindMember
<1> QED BY <1>2, <1>3, <1>4, <1>5

\* The page is done, and the walk goes on from a page it has not read.
LEMMA TakenPage ==
  ASSUME FeedPlaced, PageDone, NEW kind
  PROVE  Taken(kind) = OfKind(kind, visited \cup {url})
<1>1. Len(listing[url].items) = pos - 1
  <2>1. feed_pc = "reading" /\ url \in Pages /\ pos > Len(listing[url].items)
        /\ pos \in 1..Len(listing[url].items) + 1
    BY DEF PageDone, FeedPlaced
  <2>2. Len(listing[url].items) \in Nat
    BY <2>1, BodyType DEF FeedPlaced
  <2> QED BY <2>1, <2>2
<1> QED BY <1>1, OfKindOneMore DEF Taken, PageDone

LEMMA ItemStep ==
  ASSUME FeedIInv, Keep \/ SkipNotSpot \/ SkipNotHourly
  PROVE  Walk' /\ Exact'
<1>1. /\ AtItem /\ NextItem /\ feed_pc = "reading" /\ feed_pc' = "reading"
      /\ listing' = listing /\ url' = url /\ visited' = visited /\ pages' = pages
  BY DEF Keep, SkipNotSpot, SkipNotHourly, NextItem, AtItem
<1>2. Walk'
  BY <1>1, ReachKept DEF FeedIInv, Walk, Fetching
<1>3. ASSUME url \notin visited PROVE Exact'
  <2>1. \A kind : /\ Taken(kind)' = Taken(kind) \cup (IF Item = kind THEN {<<url, pos>>} ELSE {})
                  /\ <<url, pos>> \notin Taken(kind)
    BY <1>1, <1>3, TakenNext DEF FeedIInv
  <2>2. /\ IsFiniteSet(visited) /\ Cardinality(visited) = pages - 1
        /\ observations = Taken("spot")
        /\ IsFiniteSet(Taken("on_demand")) /\ not_spot = Cardinality(Taken("on_demand"))
        /\ IsFiniteSet(Taken("monthly")) /\ not_hourly = Cardinality(Taken("monthly"))
        /\ \A kind \in {"not_object", "incomplete", "null_sku"} : Taken(kind) = {}
    BY <1>1, <1>3 DEF FeedIInv, Exact, Fetching
  <2>3. CASE Keep
    <3>1. Item = "spot" /\ observations' = observations \cup {<<url, pos>>}
          /\ not_spot' = not_spot /\ not_hourly' = not_hourly
      BY <2>3 DEF Keep
    <3> QED BY <1>1, <2>1, <2>2, <3>1 DEF Exact
  <2>4. CASE SkipNotSpot
    <3>1. Item = "on_demand" /\ not_spot' = not_spot + 1
          /\ observations' = observations /\ not_hourly' = not_hourly
      BY <2>4 DEF SkipNotSpot
    <3>2. /\ IsFiniteSet(Taken("on_demand") \cup {<<url, pos>>})
          /\ Cardinality(Taken("on_demand") \cup {<<url, pos>>}) = not_spot + 1
      BY <2>1, <2>2, FS_AddElement
    <3> QED BY <1>1, <2>1, <2>2, <3>1, <3>2 DEF Exact
  <2>5. CASE SkipNotHourly
    <3>1. Item = "monthly" /\ not_hourly' = not_hourly + 1
          /\ observations' = observations /\ not_spot' = not_spot
      BY <2>5 DEF SkipNotHourly
    <3>2. /\ IsFiniteSet(Taken("monthly") \cup {<<url, pos>>})
          /\ Cardinality(Taken("monthly") \cup {<<url, pos>>}) = not_hourly + 1
      BY <2>1, <2>2, FS_AddElement
    <3> QED BY <1>1, <2>1, <2>2, <3>1, <3>2 DEF Exact
  <2> QED BY <2>3, <2>4, <2>5
<1>4. ASSUME url \in visited PROVE Exact'
  BY <1>1, <1>4 DEF Exact
<1> QED BY <1>2, <1>3, <1>4

LEMMA ReceiveStep ==
  ASSUME FeedIInv, Receive
  PROVE  Walk' /\ Exact'
<1>1. /\ feed_pc = "request" /\ feed_pc' = "reading" /\ pos' = 1 /\ pages' = pages + 1 /\ pages \in Nat
      /\ listing' = listing /\ url' = url /\ visited' = visited
      /\ observations' = observations /\ not_spot' = not_spot /\ not_hourly' = not_hourly
  BY DEF Receive, Requests, collected, FeedIInv, FeedPlaced, FeedTypeOK
<1>2. Walk'
  BY <1>1, ReachKept DEF FeedIInv, Walk, Fetching
<1>3. ASSUME NEW kind PROVE Taken(kind)' = Taken(kind)
  <2>1. OfKind(kind, visited)' = OfKind(kind, visited)
    BY <1>1 DEF OfKind
  <2>2. OnPage(kind, url, pos - 1)' = {}
    BY <1>1 DEF OnPage
  <2> QED BY <1>1, <2>1, <2>2 DEF Taken
<1>4. (pages + 1) - 1 = pages
  BY <1>1
<1>5. Exact'
  BY <1>1, <1>3, <1>4 DEF FeedIInv, Exact, Fetching
<1> QED BY <1>2, <1>5

LEMMA FollowStep ==
  ASSUME FeedIInv, Follow
  PROVE  Walk' /\ Exact'
<1>1. /\ feed_pc = "reading" /\ feed_pc' = "request" /\ url \in Pages /\ pages' = pages /\ pages \in Nat
      /\ listing' = listing /\ url' = listing[url].next /\ visited' = visited \cup {url}
      /\ url' \in Pages \cup {"not_a_url"}
      /\ observations' = observations /\ not_spot' = not_spot /\ not_hourly' = not_hourly
      /\ visited \subseteq Pages
  BY DEF Follow, PageDone, collected, FeedIInv, FeedPlaced, FeedTypeOK
<1>2. /\ Endpoint \in visited \cup {url}
      /\ \A p \in visited : listing[p].next \in visited \cup {url}
      /\ visited \cup {url} \subseteq Reach
  BY <1>1 DEF FeedIInv, Walk, Fetching
<1>3. Walk'
  <2>1. \A p \in visited' : listing'[p].next \in visited' \cup {url'}
    BY <1>1, <1>2
  <2>2. {url'} \cap Pages \subseteq Reach
    BY <1>1, <1>2, NextReached
  <2> QED BY <1>1, <1>2, <2>1, <2>2, ReachKept DEF Walk
<1>4. ASSUME url' \notin visited' PROVE Exact'
  <2>1. url \notin visited
    BY <1>1, <1>2, <1>4
  <2>2. ASSUME NEW kind PROVE Taken(kind)' = Taken(kind)
    <3>1. Taken(kind) = OfKind(kind, visited \cup {url})
      BY TakenPage DEF Follow, FeedIInv
    <3>2. Taken(kind)' = OfKind(kind, visited \cup {url})
      BY <1>1 DEF Taken, OfKind
    <3> QED BY <3>1, <3>2
  <2>3. IsFiniteSet(visited') /\ Cardinality(visited') = pages
    <3>1. IsFiniteSet(visited) /\ Cardinality(visited) = pages - 1
      BY <1>1, <2>1 DEF FeedIInv, Exact, Fetching
    <3> QED BY <1>1, <2>1, <3>1, FS_AddElement
  <2> QED BY <1>1, <2>1, <2>2, <2>3 DEF FeedIInv, Exact, Fetching
<1>5. ASSUME url' \in visited' PROVE Exact'
  BY <1>5 DEF Exact
<1> QED BY <1>3, <1>4, <1>5

--------------------------------------------------------------------------------
(***************************************************************************)
(* The end of the walk.                                                    *)
(***************************************************************************)
\* No page the walk left behind is the last of the listing.
LEMMA NoneLeftBehind ==
  ASSUME FeedIInv, Fetching, NEW p \in visited
  PROVE  listing[p].next # "none"
<1>1. visited \cup {url} \subseteq Pages \cup {"not_a_url"}
  BY DEF FeedIInv, FeedPlaced, FeedTypeOK
<1> QED BY <1>1, LinkAssumption DEF FeedIInv, Walk

LEMMA ReturnStep ==
  ASSUME FeedIInv, Return
  PROVE  NeverPartial'
<1>1. /\ feed_pc = "reading" /\ Fetching /\ url \in Pages /\ visited \subseteq Pages
      /\ listing[url].next = "none"
      /\ listing' = listing
      /\ observations' = observations /\ not_spot' = not_spot /\ not_hourly' = not_hourly
  BY DEF Return, PageDone, collected, FeedIInv, FeedPlaced, FeedTypeOK, Fetching
<1>2. url \notin visited
  BY <1>1, NoneLeftBehind
<1>3. Reach = visited \cup {url}
  <2>1. visited \cup {url} \subseteq Reach
    BY <1>1 DEF FeedIInv, Walk
  <2>2. Linked(visited \cup {url})
    BY <1>1, LinkAssumption DEF FeedIInv, Walk, Linked
  <2> QED BY <1>1, <2>1, <2>2, LinkedBounds
<1>4. \A kind : Taken(kind) = OfKind(kind, Reach)
  BY <1>3, TakenPage DEF Return, FeedIInv
<1>5. \A kind : OfKind(kind, Reach)' = OfKind(kind, Reach)
  BY <1>1 DEF OfKind, Reach, Linked
<1> QED BY <1>1, <1>2, <1>4, <1>5 DEF FeedIInv, Exact, NeverPartial

\* The limit is hit on the way round a loop, or by a listing with too many pages.
LEMMA GiveUpStep ==
  ASSUME FeedIInv, GiveUp
  PROVE  LimitIsNoCap'
<1>1. /\ feed_pc = "request" /\ Fetching /\ pages >= MaxPages /\ pages \in Nat
      /\ visited \subseteq Pages /\ url \in Pages \cup {"not_a_url"}
      /\ listing' = listing
  BY DEF GiveUp, FeedIInv, FeedPlaced, FeedTypeOK, Fetching
<1>2. ~ /\ IsFiniteSet(Reach) /\ Cardinality(Reach) <= MaxPages
        /\ \E p \in Reach : listing[p].next = "none"
  <2>1. CASE url \in Pages \ visited
    <3>1. /\ visited \cup {url} \subseteq Reach
          /\ IsFiniteSet(visited) /\ Cardinality(visited) = pages
      BY <1>1, <2>1 DEF FeedIInv, Walk, Exact
    <3>2. IsFiniteSet(visited \cup {url}) /\ Cardinality(visited \cup {url}) = pages + 1
      BY <2>1, <3>1, FS_AddElement
    <3>3. IsFiniteSet(Reach) => Cardinality(Reach) \in Nat /\ pages + 1 <= Cardinality(Reach)
      BY <3>1, <3>2, FS_Subset, FS_CardinalityType
    <3> QED BY <1>1, <3>3, PageLimitAssumption
  <2>2. CASE url \notin Pages \ visited
    <3>1. Linked(visited)
      <4>1. Endpoint \in visited
        BY <1>1, <2>2, EndpointAssumption, LinkAssumption DEF FeedIInv, Walk
      <4>2. \A p \in visited : listing[p].next \in Pages => listing[p].next \in visited
        BY <1>1, <2>2 DEF FeedIInv, Walk
      <4> QED BY <4>1, <4>2 DEF Linked
    <3> QED BY <1>1, <3>1, LinkedBounds, NoneLeftBehind
  <2> QED BY <2>1, <2>2
<1> QED BY <1>1, <1>2, ReachKept DEF LimitIsNoCap

LEMMA FeedInitIInv == FeedInit => FeedIInv
<1> SUFFICES ASSUME FeedInit PROVE FeedIInv
  OBVIOUS
<1>1. Walk
  BY EndpointReached DEF FeedInit, Walk, Fetching
<1>2. \A kind : Taken(kind) = {}
  BY OfKindMember DEF FeedInit, Taken
<1>3. Exact
  BY <1>2, FS_EmptySet DEF FeedInit, Exact
<1> QED BY <1>1, <1>3, FeedInitPlaced DEF FeedInit, FeedIInv, NeverPartial, LimitIsNoCap

LEMMA FetchStep == FeedIInv /\ Fetch => FeedIInv'
<1> SUFFICES ASSUME FeedIInv, Fetch PROVE FeedIInv'
  OBVIOUS
<1>1. FeedPlaced'
  BY FeedPlacedStep DEF FeedIInv, FeedNext
<1>2. CASE GiveUp
  BY <1>1, <1>2, GiveUpStep, FeedEndedStep DEF GiveUp, FeedEnded, FeedIInv, NeverPartial
<1>3. CASE Unavailable \/ Unreadable \/ InvalidURL \/ Refuse \/ RefuseLink
  <2>1. feed_pc' \in FeedEnded \ {"returned", "runaway"}
    BY <1>3 DEF Unavailable, Unreadable, InvalidURL, Refuse, RefuseLink, FeedEnded
  <2> QED BY <1>1, <2>1, FeedEndedStep DEF FeedIInv, NeverPartial, LimitIsNoCap
<1>4. CASE Return
  BY <1>1, <1>4, ReturnStep, FeedEndedStep DEF Return, FeedEnded, FeedIInv, LimitIsNoCap
<1>5. CASE Receive \/ Keep \/ SkipNotSpot \/ SkipNotHourly \/ Follow
  <2>1. feed_pc' \in {"request", "reading"}
    BY <1>5 DEF Receive, Keep, SkipNotSpot, SkipNotHourly, AtItem, NextItem, Follow
  <2>2. Walk' /\ Exact'
    BY <1>5, ReceiveStep, ItemStep, FollowStep
  <2> QED BY <1>1, <2>1, <2>2 DEF FeedIInv, NeverPartial, LimitIsNoCap
<1> QED BY <1>2, <1>3, <1>4, <1>5 DEF Fetch

LEMMA FeedStutterStep == FeedIInv /\ UNCHANGED feed_vars => FeedIInv'
<1> SUFFICES ASSUME FeedIInv, UNCHANGED feed_vars PROVE FeedIInv'
  OBVIOUS
<1>1. \A kind, S : OfKind(kind, S)' = OfKind(kind, S)
  BY DEF feed_vars, OfKind
<1>2. Reach' = Reach
  BY ReachKept DEF feed_vars
<1>3. \A kind : Taken(kind)' = Taken(kind)
  BY DEF feed_vars, Taken, OfKind, OnPage
<1>4. FeedPlaced' /\ Walk' /\ Exact'
  BY <1>2, <1>3, FeedPlacedStep DEF feed_vars, FeedIInv, Walk, Exact, Fetching
<1> QED BY <1>1, <1>2, <1>4 DEF feed_vars, FeedIInv, NeverPartial, LimitIsNoCap

LEMMA FeedInvariant == FeedSpec => []FeedIInv
<1>1. FeedIInv /\ [FeedNext]_feed_vars => FeedIInv'
  BY FetchStep, FeedStutterStep DEF FeedNext, FeedDone
<1> QED BY FeedInitIInv, <1>1, PTL DEF FeedSpec

\* "Every spot price for one region, or an exception", for any listing: whatever the
\* links do, a list that is returned is the whole of what the endpoint's links reach.
THEOREM FeedNeverPartial == FeedSpec => []NeverPartial
<1>1. FeedIInv => NeverPartial
  BY DEF FeedIInv
<1> QED BY FeedInvariant, <1>1, PTL

\* The page limit is no cap on data, for any listing and any limit.
THEOREM FeedLimitIsNoCap == FeedSpec => []LimitIsNoCap
<1>1. FeedIInv => LimitIsNoCap
  BY DEF FeedIInv
<1> QED BY FeedInvariant, <1>1, PTL
================================================================================
