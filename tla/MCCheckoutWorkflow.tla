-------------------------- MODULE MCCheckoutWorkflow --------------------------
(***************************************************************************)
(* What the provider and Fulfillment may refuse in a run.                  *)
(***************************************************************************)
EXTENDS CheckoutWorkflow

Nothing == {}
AnyPayment == Mutations
DeclinedCapture == {"CapturePayment"}
AnyCapacity == {"ReserveFulfillment", "CancelFulfillment"}
=============================================================================
