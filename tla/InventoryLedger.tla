---------------------------- MODULE InventoryLedger ----------------------------
(***************************************************************************)
(* The Inventory service implements ReservationLedger.  What is recorded   *)
(* of an operation is read off its ledger entry, and a release publishes   *)
(* one fact whichever of its two reasons it had.                           *)
(***************************************************************************)
EXTENDS Inventory

Final == {"COMMITTED", "RELEASED"}

RecordOf(o) ==
    [rid |-> IF Recorded(o) THEN payload[o].rid ELSE "NONE",
     won |-> opState[o] = "SUCCEEDED",
     names |-> CASE opState[o] = "SUCCEEDED" -> result[o].status
                 [] opState[o] = "FAILED" -> result[o].reservationStatus
                 [] OTHER -> "NONE"]

PublishedOf(r) ==
    [s \in {"RESERVED"} \cup Final |->
        IF s = "RELEASED" THEN facts[r]["COMPENSATION"] + facts[r]["CHECKOUT_EXPIRED"]
                          ELSE facts[r][s]]

Promise == INSTANCE ReservationLedger
    WITH Finals <- Final,
         record <- [o \in Ops |-> RecordOf(o)],
         published <- [r \in Reservations |-> PublishedOf(r)]

(* Whatever invocations, retries and sweeps race or die: one operation     *)
(* moves the reservation, its fact is written once and its answer recorded *)
(* with it; a refusal names a status the reservation had; no record and no *)
(* finalized reservation ever changes.                                     *)
ImplementsLedger == Promise!Spec
=============================================================================
