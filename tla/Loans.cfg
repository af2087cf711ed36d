SPECIFICATION FairSpec
CONSTANTS
  l1 = l1
  u1 = u1
  c1 = c1
  c2 = c2
  j1 = j1
  j2 = j2
  Loans = {l1}
  Users = {u1}
  Calls = {c1, c2}
  Jobs = {j1}
  Borrower <- BorrowerOf
  Numbers = {1, 2}
  Principal = 16
  Instalment = 8
  Amounts = {5}
  Funds <- Nothing
  PenaltyPermille = 250
  MaxRequests = 2
  MaxSpent = 5
  MaxPenalties = 1
  MaxFaults = 1
INVARIANTS
  DisbursedOnce
  LoansAreTrue
  MoneyIsConserved
PROPERTY
  DueIsPursued
CHECK_DEADLOCK FALSE
