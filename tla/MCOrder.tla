------------------------------ MODULE MCOrder ------------------------------
(***************************************************************************)
(* The commands of one checkout, of its replay and of its expiry.          *)
(***************************************************************************)
EXTENDS Order

CONSTANTS k1, k2, w1, w2

Command(op, target, k) == [op |-> op, target |-> target, correlation |-> k]
Create1 == Command("create-order", "PENDING", k1)
Compensate == Command("compensate-order", "COMPENSATING", k1)
Reconcile == Command("reconcile-order", "RECONCILIATION_REQUIRED", k1)
CancelOrder == Command("cancel-order", "CANCELLED", k1)
Confirm == Command("confirm-order", "CONFIRMED", k1)
Unavailable == Command("inventory-unavailable", "INVENTORY_UNAVAILABLE", k1)

(* The expiry event, under the correlation of the checkout; a second event *)
(* id for the same reservation.                                            *)
ExpiryEvents == {Command("expiry-1", "EXPIRED", k1), Command("expiry-2", "EXPIRED", k1)}

(* What the workflow sends, and beyond it a creation under another         *)
(* correlation, a transition of another correlation, an operation id of    *)
(* another command.                                                        *)
AnyCaller ==
    {Create1, Compensate, Reconcile, CancelOrder, Confirm, Unavailable,
     Command("create-order", "PENDING", k2),
     Command("compensate-order", "COMPENSATING", k2),
     Command("confirm-order", "COMPENSATING", k1)}
=============================================================================
