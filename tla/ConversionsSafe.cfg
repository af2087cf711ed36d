SPECIFICATION FairConversionSpec
CONSTANTS
  q1 = q1
  q2 = q2
  u1 = u1
  u2 = u2
  a = a
  b = b
  c = c
  r1 = r1
  r2 = r2
  None = None
  Users = {u1, u2}
  Currencies = {a, b, c}
  Owner <- OneOwner
  From <- FromA
  FromAmount <- TwoAndThreeHundred
  FEE_PERMILLE = 5
  Labelled <- AandB
  Quotes = {q1, q2}
  To <- ToBAndC
  Requests = {r1, r2}
  Rates = {100, 102}
  FirstBalances <- FourHundredOfA
  HasKey = {u1}
INVARIANT
  ExecutedIsSpent
PROPERTIES
  ImplementsPromise
  EveryCallIsAnswered
CHECK_DEADLOCK FALSE
