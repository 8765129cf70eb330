------------------------------- MODULE AzureFeed -------------------------------
(***************************************************************************)
(* fetch_spot_prices of app/providers/azure.py: the pages of the retail    *)
(* price listing are followed link by link, every item is kept, counted as *)
(* skipped, or refused, and the caller gets all of it or an exception.     *)
(*                                                                         *)
(* The server is external: what it lists is fixed for one fetch, but its   *)
(* links may lead anywhere, and any request may fail.                      *)
(***************************************************************************)
EXTENDS Integers, Sequences, FiniteSets

CONSTANTS
  Pages,     \* what NextPageLink can lead to
  Endpoint,  \* ENDPOINT, the first page
  MaxPages,  \* _MAX_PAGES
  Listings   \* what the server may have: a body for every page

\* What an item is to the loop: kept, skipped twice over, not a dict, without a
\* field _observation needs, or with a skuName that has no .lower().
Items == {"spot", "monthly", "on_demand", "not_object", "incomplete", "null_sku"}

\* NextPageLink: a page, absent (or null, or empty), not a string, or a string
\* that httpx cannot read as a URL.
Links == Pages \cup {"none", "not_text", "not_a_url"}

Body == [items : Seq(Items), next : Links]

ASSUME EndpointAssumption == Endpoint \in Pages
ASSUME PageLimitAssumption == MaxPages \in Nat \ {0}
ASSUME LinkAssumption == {"none", "not_text", "not_a_url"} \cap Pages = {}
ASSUME ListingAssumption == Listings \subseteq [Pages -> Body]

VARIABLES
  listing,       \* what the server has
  feed_pc,       \* request | reading, or how the fetch ended
  url,           \* the page asked for next, or being read
  pages,         \* requests made
  pos,           \* the item of the page being read
  observations,  \* the items kept, by page and position
  not_spot,      \* skipped_not_spot
  not_hourly,    \* skipped_not_hourly
  visited        \* history: the pages read to their end

feed_vars == <<listing, feed_pc, url, pages, pos, observations, not_spot, not_hourly, visited>>
collected == <<observations, not_spot, not_hourly>>

\* returned a FetchResult; raised ProviderUnavailable, UnexpectedResponse, the
\* UnexpectedResponse of the page limit, or something that is no ProviderError.
FeedEnded == {"returned", "unavailable", "unexpected", "runaway", "escaped"}

FeedTypeOK ==
  /\ listing \in Listings
  /\ feed_pc \in {"request", "reading"} \cup FeedEnded
  /\ url \in Pages \cup {"not_a_url"}
  /\ pages \in 0..MaxPages + 1
  /\ pos \in Nat \ {0}
  /\ observations \subseteq Pages \X (Nat \ {0})
  /\ not_spot \in Nat
  /\ not_hourly \in Nat
  /\ visited \subseteq Pages

FeedInit ==
  /\ listing \in Listings
  /\ feed_pc = "request"
  /\ url = Endpoint
  /\ pages = 0
  /\ pos = 1
  /\ observations = {}
  /\ not_spot = 0
  /\ not_hourly = 0
  /\ visited = {}

--------------------------------------------------------------------------------
\* The head of the loop has counted a request that is allowed.
Requests ==
  /\ feed_pc = "request"
  /\ pages < MaxPages
  /\ pages' = pages + 1

\* Seeded fault: `>=` for `>` in the page check.
GiveUpEarly ==
  /\ feed_pc = "request"
  /\ pages >= MaxPages - 1
  /\ pages' = pages + 1
  /\ feed_pc' = "runaway"
  /\ UNCHANGED <<listing, url, pos, collected, visited>>

\* Seeded fault: the limit ends the loop and what was collected is returned.
GiveUpTruncated ==
  /\ feed_pc = "request"
  /\ pages >= MaxPages
  /\ pages' = pages + 1
  /\ feed_pc' = "returned"
  /\ UNCHANGED <<listing, url, pos, collected, visited>>

\* One request too many: a broken NextPageLink must not loop for ever.
GiveUp ==
  /\ feed_pc = "request"
  /\ pages >= MaxPages
  /\ pages' = pages + 1
  /\ feed_pc' = "runaway"
  /\ UNCHANGED <<listing, url, pos, collected, visited>>

\* _page: no connection, HTTP 429 or any other status from 400 up.
Unavailable ==
  /\ Requests
  /\ url \in Pages
  /\ feed_pc' = "unavailable"
  /\ UNCHANGED <<listing, url, pos, collected, visited>>

\* _page: the body is not JSON, or has no list of Items.
Unreadable ==
  /\ Requests
  /\ url \in Pages
  /\ feed_pc' = "unexpected"
  /\ UNCHANGED <<listing, url, pos, collected, visited>>

\* client.get raises httpx.InvalidURL, which is not an httpx.HTTPError.
InvalidURL ==
  /\ Requests
  /\ url = "not_a_url"
  /\ feed_pc' = "escaped"
  /\ UNCHANGED <<listing, url, pos, collected, visited>>

\* Seeded fault: the number of requests has no limit.
ReceiveUnlimited ==
  /\ feed_pc = "request"
  /\ url \in Pages
  /\ pages' = pages + 1
  /\ feed_pc' = "reading"
  /\ pos' = 1
  /\ UNCHANGED <<listing, url, collected, visited>>

\* Seeded fault: the request is not counted.
ReceiveUncounted ==
  /\ feed_pc = "request"
  /\ pages < MaxPages
  /\ url \in Pages
  /\ feed_pc' = "reading"
  /\ pos' = 1
  /\ UNCHANGED <<listing, url, pages, collected, visited>>

Receive ==
  /\ Requests
  /\ url \in Pages
  /\ feed_pc' = "reading"
  /\ pos' = 1
  /\ UNCHANGED <<listing, url, collected, visited>>

\* The item the loop is at, and the move to the one after it.
AtItem == feed_pc = "reading" /\ pos <= Len(listing[url].items)
Item == listing[url].items[pos]
NextItem == pos' = pos + 1 /\ UNCHANGED <<listing, feed_pc, url, pages, visited>>

Keep ==
  /\ AtItem
  /\ Item = "spot"
  /\ observations' = observations \cup {<<url, pos>>}
  /\ NextItem
  /\ UNCHANGED <<not_spot, not_hourly>>

SkipNotSpot ==
  /\ AtItem
  /\ Item = "on_demand"
  /\ not_spot' = not_spot + 1
  /\ NextItem
  /\ UNCHANGED <<observations, not_hourly>>

SkipNotHourly ==
  /\ AtItem
  /\ Item = "monthly"
  /\ not_hourly' = not_hourly + 1
  /\ NextItem
  /\ UNCHANGED <<observations, not_spot>>

\* UnexpectedResponse from the loop, _require or _decimal; AttributeError from
\* _is_spot, which calls .lower() on whatever skuName holds.
Refuse ==
  /\ AtItem
  /\ \/ Item \in {"not_object", "incomplete"} /\ feed_pc' = "unexpected"
     \/ Item = "null_sku" /\ feed_pc' = "escaped"
  /\ UNCHANGED <<listing, url, pages, pos, collected, visited>>

\* The page is done; its link says whether there is another.
PageDone ==
  /\ feed_pc = "reading"
  /\ pos > Len(listing[url].items)
  /\ visited' = visited \cup {url}
  /\ UNCHANGED <<listing, pages, pos, collected>>

Return ==
  /\ PageDone
  /\ listing[url].next = "none"
  /\ feed_pc' = "returned"
  /\ UNCHANGED url

RefuseLink ==
  /\ PageDone
  /\ listing[url].next = "not_text"
  /\ feed_pc' = "unexpected"
  /\ UNCHANGED url

\* Seeded fault: the type of NextPageLink is not checked.
FollowAnything ==
  /\ PageDone
  /\ listing[url].next # "none"
  /\ url' = listing[url].next
  /\ feed_pc' = "request"

Follow ==
  /\ PageDone
  /\ listing[url].next \in Pages \cup {"not_a_url"}
  /\ url' = listing[url].next
  /\ feed_pc' = "request"

FeedDone == feed_pc \in FeedEnded /\ UNCHANGED feed_vars

Fetch ==
  \/ GiveUp \/ Unavailable \/ Unreadable \/ InvalidURL \/ Receive
  \/ Keep \/ SkipNotSpot \/ SkipNotHourly \/ Refuse
  \/ Return \/ RefuseLink \/ Follow

FeedNext == Fetch \/ FeedDone

FeedSpec == FeedInit /\ [][FeedNext]_feed_vars

\* A request is answered or times out, and nothing else is waited for.
FeedFairSpec == FeedSpec /\ WF_feed_vars(Fetch)

--------------------------------------------------------------------------------
\* S has the first page and the page every link of a page of S leads to.
Linked(S) ==
  Endpoint \in S /\ \A p \in S : listing[p].next \in Pages => listing[p].next \in S

\* The pages the region's listing consists of.
Reach == {p \in Pages : \A S \in SUBSET Pages : Linked(S) => p \in S}

\* The items of kind `kind` on the pages of S.
OfKind(kind, S) ==
  UNION {{<<p, i>> : i \in {j \in 1..Len(listing[p].items) : listing[p].items[j] = kind}} :
           p \in S}

\* "Every spot price for one region, or an exception.  Never a partial list."  A
\* returned list has every spot item of every page of the region, nothing else,
\* and what was left out is counted, item by item.
NeverPartial ==
  feed_pc = "returned" =>
    /\ observations = OfKind("spot", Reach)
    /\ not_spot = Cardinality(OfKind("on_demand", Reach))
    /\ not_hourly = Cardinality(OfKind("monthly", Reach))
    /\ \A kind \in {"not_object", "incomplete", "null_sku"} : OfKind(kind, Reach) = {}

\* The page limit "is a runaway guard, not a cap on data": it is never hit by a
\* listing that ends within that many pages.
LimitIsNoCap ==
  feed_pc = "runaway" =>
    ~ /\ IsFiniteSet(Reach) /\ Cardinality(Reach) <= MaxPages
      /\ \E p \in Reach : listing[p].next = "none"

\* Whatever the links do, the fetch ends: with a list or with an exception.
FetchEnds == <>(feed_pc \in FeedEnded)

\* "Base for every provider failure" (ProviderError in providers/base.py), which is
\* what run_tick catches so that a failing provider does not fail the tick.
FailsAsProviderError == feed_pc # "escaped"
================================================================================
