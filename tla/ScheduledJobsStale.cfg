SPECIFICATION Spec
CONSTANTS
  t1 = t1
  t2 = t2
  u1 = u1
  a = a
  b = b
  r1 = r1
  r2 = r2
  r3 = r3
  None = None
  Users = {u1}
  Instances = {a, b}
  Job <- JobOf
  Owner <- OneOwner
  Txs = {t1, t2}
  Runs = {r1, r2, r3}
  Host <- TwoInstances
  Type <- DepositAndWithdrawal
  LOCK_EXPIRY = 0
  MaxFaults = 0
  TimelyRuns = FALSE
  ApiWaits = TRUE
INVARIANT
  NoMintedBalance
PROPERTY
  OutcomeIsFinal
CHECK_DEADLOCK FALSE
