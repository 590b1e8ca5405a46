SPECIFICATION FairSpec
CONSTANTS
  r1 = r1
  r2 = r2
  sku = sku
  c1 = c1
  c2 = c2
  w1 = w1
  w2 = w2
  s1 = s1
  s2 = s2
  Items = {sku}
  Reservations = {r1}
  Checkouts = {c1, c2}
  Commands <- OneCheckout
  Workers = {w1, w2, s1}
  Sweepers = {s1}
  InitialQuantity = 2
  SweepLimit = 1
  MaxClock = 1
  MaxFaults = 1
INVARIANT FailedReleaseNamesTheWinner
PROPERTIES ImplementsLedger DueIsReleased
CHECK_DEADLOCK FALSE
