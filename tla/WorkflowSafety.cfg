SPECIFICATION Spec
CONSTANTS
  Declining <- AnyPayment
  Refusing <- AnyCapacity
  Stripe = FALSE
  MaxFaults = 3
  MaxReplays = 2
  MaxCrashes = 1
INVARIANTS TypeOK CancelledMeansUndone SuccessIsAccounted
PROPERTIES ReleaseIsLast
CHECK_DEADLOCK FALSE
