SPECIFICATION Spec
CONSTANTS
  w1 = w1
  w2 = w2
  Commands <- Mutating
  Resent = {}
  Workers = {w1, w2}
  Stripe = FALSE
  MaxFaults = 2
INVARIANTS OneFactPerSuccess AgreesWhenSettled
PROPERTY RecordedForever
CHECK_DEADLOCK FALSE
