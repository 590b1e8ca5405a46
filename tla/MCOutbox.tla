------------------------------- MODULE MCOutbox -------------------------------
(***************************************************************************)
(* Three kinds of the Order service's facts: one that is audited, one that *)
(* is only published, and one the publisher has no validator for.          *)
(***************************************************************************)
EXTENDS Outbox

OrderFacts == {"OrderPending", "OrderCancelled", "OrderCompensating"}
Publishable == {"OrderPending", "OrderCancelled"}
AuditRule == {"OrderPending"}
=============================================================================
