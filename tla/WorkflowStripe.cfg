SPECIFICATION FairSpec
CONSTANTS
  Declining <- AnyPayment
  Refusing <- AnyCapacity
  Stripe = TRUE
  MaxFaults = 3
  MaxReplays = 1
  MaxCrashes = 1
INVARIANTS NothingShipsUnpaid WorkIsVisible
PROPERTIES OrderSettles ExecutionsEnd
CHECK_DEADLOCK FALSE
