SPECIFICATION FairSpec
CONSTANTS
  d1 = d1
  w1 = w1
  c1 = c1
  k1 = k1
  Deliveries = {d1}
  Workers = {w1}
  Calls = {c1}
  Crons = {k1}
  MAX_ATTEMPTS = 2
  JOB_ATTEMPTS = 2
  Spread = 1
  MaxRedeliveries = 1
  MaxFaults = 1
INVARIANTS
  DeliveredIsAccepted
  AttemptsAreBounded
  NothingIsForgotten
PROPERTY
  QueuedIsEnded
CHECK_DEADLOCK FALSE
