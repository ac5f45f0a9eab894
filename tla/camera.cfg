CONSTANTS
  r1 = r1
  r2 = r2
  r3 = r3
  Requests = {r1, r2, r3}
  MaxRoutes = 3
SPECIFICATION FairSpec
INVARIANTS
  OneDiscovery
  NoPileOn
  RetryIsFresh
PROPERTY RequestsEnd
