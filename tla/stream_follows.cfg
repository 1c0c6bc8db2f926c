\* A job that is delivered up to two times; two fetches in flight.
SPECIFICATION FairStreamSpec
CONSTANTS
  f1 = f1
  f2 = f2
  Deliveries = 2
  Fetches = {f1, f2}
  NoNews = NoNews
INVARIANTS StreamTypeOK LastFetchIsFresh
PROPERTIES FollowedIsShown
\* The job ends: then the system rests.
CHECK_DEADLOCK FALSE
