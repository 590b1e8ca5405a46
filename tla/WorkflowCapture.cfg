SPECIFICATION Spec
CONSTANTS
  Declining <- Nothing
  Refusing <- Nothing
  Stripe = FALSE
  MaxFaults = 0
  MaxReplays = 0
  MaxCrashes = 0
INVARIANTS CapturedIsSettled
CHECK_DEADLOCK FALSE
