\* Every listing of up to three pages, a limit of three requests.
SPECIFICATION FeedSpec
CONSTANTS
  p1 = p1
  p2 = p2
  p3 = p3
  Pages <- MCPages
  Endpoint = p1
  MaxPages = 3
  Listings <- MCListings
INVARIANTS
  FailsAsProviderError
