SPECIFICATION FairSpec
CONSTANTS
  c1 = c1
  c2 = c2
  j1 = j1
  Calls = {c1, c2}
  Jobs = {j1}
  Amount = 10
  Funds = 15
  MaxRequests = 3
  MaxSpent = 10
  MaxFaults = 2
INVARIANTS
  
  ReversedOnce
PROPERTY
  LateIsEscalated
CHECK_DEADLOCK FALSE
