\* Two users who share a browser, two queries in flight, three tokens.
SPECIFICATION MCSpec
CONSTANTS
  u1 = u1
  u2 = u2
  None = None
  Users = {u1, u2}
  MaxFlight = 2
  MaxTokens = 3
INVARIANTS TypeOK UserIsToken ListsAreOwn
PROPERTIES RequestsSettle
\* An overtaken tab comes to rest.
CHECK_DEADLOCK FALSE
