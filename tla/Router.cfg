SPECIFICATION AnySpec
CONSTANTS
  TokenCount = 2
  MaxTransports = 4
  MaxRotations = 2
  Logins = {l1, l2}
  SignOuts = {s1}
  Requests = {r1, r2}
  Principals = {p1, p2}
  NoOne = none
  Readers = {"hook", "tool", "read", "reflect"}
  Limits = {2, 3}
  TopKs = {0, 1}
  Hooks = {h1, h2, h3}
  Digests = {t1, t2}
  NoDigest = NoDigest
  MaxEvictions = 1
  Callers = {c1, c2, c3, c4, c5}
  NewRows = {"n1", "n2"}
  RowBytes = 150
  Banks = {"A", "B"}
  MaxGenerations = 5
  MaxCrashes = 1
  MaxReroutes = 1
INVARIANTS
  TypesOK
  RecallIsBest
  FailedLoginLeavesNothing
  RefusedForCause
  KeptIsNewest
  LatestCallWins
  NothingLost
PROPERTIES
  NewestIsCached
  NoFlushWhenStopped
  EveryCallReturns
\* A recall, a login and a bounded number of transports come to an end.
CHECK_DEADLOCK FALSE
