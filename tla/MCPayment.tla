------------------------------ MODULE MCPayment ------------------------------
(***************************************************************************)
(* The commands a checkout sends about its payment, with the operation ids *)
(* the state machine derives from it.                                      *)
(***************************************************************************)
EXTENDS Payment

CONSTANTS w1, w2

Command(op, type) == [op |-> op, type |-> type]
Authorize == Command("authorize-payment", "AuthorizePayment")
Capture == Command("capture-payment", "CapturePayment")
Refund == Command("refund-payment", "RefundPayment")
ReusedOperation == Command("capture-payment", "CancelPayment")
Read == Command("retrieve-payment", "RetrievePayment")
Event == Command("provider-event", "ProviderEvent")

Mutating == {Authorize, Capture, Refund, ReusedOperation, Read}
Charging == {Capture}
AtStripe == {Authorize, Capture, Refund, Read, Event}
=============================================================================
