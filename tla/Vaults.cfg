SPECIFICATION FairSpec
CONSTANTS
  v1 = v1
  u1 = u1
  r1 = r1
  r2 = r2
  j1 = j1
  j2 = j2
  Vaults = {v1}
  Users = {u1}
  Calls = {r1, r2}
  Jobs = {j1, j2}
  Kinds <- TwoRuns
  Owner <- OwnerOf
  AutoAmount <- TenAutomatically
  Amounts = {10}
  Funds <- Ten
  InterestPermille = 100
  PenaltyPermille = 100
  MaxRequests = 3
  MaxTicks = 1
  MaxFaults = 1
INVARIANTS
  WithdrawnOnce
  MoneyIsConserved
PROPERTY
  DueMatures
CHECK_DEADLOCK FALSE
