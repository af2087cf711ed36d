SPECIFICATION FairEscrowSpec
CONSTANTS
  e1 = e1
  r1 = r1
  r2 = r2
  c1 = c1
  s = s
  p = p
  Unlocked = Unlocked
  Parties = {s, p}
  Sender <- BySender
  Recipient <- ToRecipient
  EscrowAmount <- Ten
  FirstBalance <- FifteenOfSender
  Escrows = {e1}
  Handlers = {r1, r2, c1}
  Crons = {c1}
  Connections = 4
  MaxFailures = 1
INVARIANT
  PaidOnceUnlessFailed
PROPERTIES
  ImplementsEscrowPromise
  NothingIsStuck
CHECK_DEADLOCK FALSE
