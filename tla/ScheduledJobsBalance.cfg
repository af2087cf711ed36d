SPECIFICATION Spec
CONSTANTS
  t1 = t1
  t2 = t2
  u1 = u1
  a = a
  b = b
  r1 = r1
  r2 = r2
  r3 = r3
  None = None
  Users = {u1}
  Instances = {a, b}
  Job <- JobOf
  Owner <- OneOwner
  Txs = {t1, t2}
  Runs = {r1, r2}
  Host <- TwoInstances
  Type <- Deposits
  LOCK_EXPIRY = 1
  MaxFaults = 0
  TimelyRuns = TRUE
  ApiWaits = TRUE
INVARIANT
  BalanceUpdatesAreAtomic
CHECK_DEADLOCK FALSE
