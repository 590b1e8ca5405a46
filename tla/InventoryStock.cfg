SPECIFICATION Spec
CONSTANTS
  r1 = r1
  r2 = r2
  sku = sku
  c1 = c1
  c2 = c2
  w1 = w1
  w2 = w2
  s1 = s1
  s2 = s2
  Items = {sku}
  Reservations = {r1, r2}
  Checkouts = {c1, c2}
  Commands <- TwoCheckouts
  Workers = {w1, w2, s1}
  Sweepers = {s1}
  InitialQuantity = 2
  SweepLimit = 2
  MaxClock = 1
  MaxFaults = 0
INVARIANTS TypeOK StockConserved NoEarlyExpiry
CHECK_DEADLOCK FALSE
