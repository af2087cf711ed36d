SPECIFICATION FairSpec
CONSTANTS
  t1 = t1
  t2 = t2
  u1 = u1
  a = a
  b = b
  r1 = r1
  r2 = r2
  r3 = r3
  None = None
  Users = {u1}
  Instances = {a, b}
  Job <- JobOf
  Owner <- OneOwner
  Txs = {t1, t2}
  Runs = {r1, r2, r3}
  Host <- TwoInstances
  Type <- DepositAndWithdrawal
  LOCK_EXPIRY = 1
  MaxFaults = 1
  TimelyRuns = TRUE
  ApiWaits = TRUE

  
PROPERTIES
  JobsSettle
CHECK_DEADLOCK FALSE
