SPECIFICATION FairSpec
CONSTANTS
  w1 = w1
  w2 = w2
  Commands <- AtStripe
  Resent <- Charging
  Workers = {w1, w2}
  Stripe = TRUE
  MaxFaults = 1
INVARIANTS TypeOK LedgerNeverAhead AgreesWhenSettled
PROPERTY AbandonedIsCompleted
CHECK_DEADLOCK FALSE
