SPECIFICATION MCSpec
CONSTANTS
  c1 = c1
  c2 = c2
  a1 = a1
  a2 = a2
  t1 = t1
  t2 = t2
  d1 = d1
  d2 = d2
  s1 = s1
  s2 = s2
  s3 = s3
  v1 = v1
  v2 = v2
  g1 = g1
  g2 = g2
  g3 = g3
  Calls = {c1, c2}
  Apps = {a1, a2}
  MaxCodes = 2
  Tokens = {t1, t2}
  Demands = {d1, d2}
  MAX_FAILED_ATTEMPTS = 2
  Staff = {s1, s2, s3}
  Variants = {v1, v2}
  People = {g1, g2, g3}
  MaxSets = 2
  MaxRequests = 5
  MaxRowRequests = 3
  MaxSceneRequests = 4
  MaxFaults = 1
INVARIANTS
  ReviewsAreTrue
  RowsAreKept
  
  
  SessionsEndWithPassword
PROPERTIES
  LoginsAreChecked
  AccountsSettle
CHECK_DEADLOCK FALSE
