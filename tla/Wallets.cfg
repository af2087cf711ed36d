SPECIFICATION MCSpec
CONSTANTS
  c1 = c1
  c2 = c2
  main = main
  cash = cash
  watch = watch
  second = second
  n1 = n1
  n2 = n2
  d1 = d1
  w1 = w1
  Procs = {c1, c2}
  Ids = {main, cash, watch, second, n1, n2}
  Signing = {main, second, n1}
  Cash = cash
  Primary = main
  Initial = {main, cash, watch, second}
  MaxWallets = 4
  Deposits = {d1}
  Withdrawals = {w1}
  Amount = 1
  Funds = 1
  MaxRequests = 4
  MaxRampRequests = 1
  MaxFaults = 1
INVARIANTS
  WalletsAreInOrder
  DepositsAreTrue
  RefundsMatchFailures
  BalanceIsExact

  
CHECK_DEADLOCK FALSE
