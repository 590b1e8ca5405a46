----------------------------- MODULE MCInventory -----------------------------
(***************************************************************************)
(* Commands of small checkouts: checkout n reserves as reservation n, and  *)
(* its commands are the ones the state machine sends.                      *)
(***************************************************************************)
EXTENDS InventoryLedger

CONSTANTS r1, r2, sku, c1, c2, w1, w2, s1, s2

CheckoutOf(r) == IF r = r1 THEN c1 ELSE c2
Quantity(r) == IF r = r1 THEN 1 ELSE 2
Deadline(r) == IF r = r1 THEN 1 ELSE 2

Command(verb, type, r, reason) ==
    [op |-> <<verb, CheckoutOf(r)>>, type |-> type, checkout |-> CheckoutOf(r),
     rid |-> r, item |-> sku, quantity |-> Quantity(r), expiresAt |-> Deadline(r),
     reason |-> reason]

Reserve(r) == Command("reserve", "ReserveInventory", r, "NONE")
Commit(r) == Command("commit", "CommitInventory", r, "NONE")
Release(r) == Command("release", "ReleaseInventory", r, "COMPENSATION")

(* One checkout and every command of its workflow.                         *)
OneCheckout == {Reserve(r1), Commit(r1), Release(r1)}

(* Two checkouts of one item, with what the contract admits beyond the    *)
(* workflow: an operation id reused for a commit that names another        *)
(* checkout, and an expiry asked for by a caller.                          *)
TwoCheckouts ==
    {Reserve(r1), Reserve(r2), Commit(r2), [Commit(r2) EXCEPT !.checkout = c1],
     Command("expire", "ReleaseInventory", r1, "CHECKOUT_EXPIRED")}
=============================================================================
