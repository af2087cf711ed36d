SPECIFICATION MCSpec
CONSTANTS
  t1 = t1
  t2 = t2
  c1 = c1
  j1 = j1
  Txs = {t1, t2}
  Clerks = {c1}
  Jobs = {j1}
  Kinds = {"DEPOSIT", "WITHDRAW", "SWAP"}
  Amount = 10
  Fee = 3
  Worth = 7
  Funds = 15
  Limit = 15
  MaxRequests = 2
  MaxFaults = 1
INVARIANTS
  RowsExplainBalances
  CreditedOnce
PROPERTIES
  UndoneByLateSaves
  PaidIsSettled
CHECK_DEADLOCK FALSE
