---------------------------- MODULE MCFulfillment ----------------------------
(***************************************************************************)
(* One reservation and the commands of its checkout's workflow; beside     *)
(* them what the contract admits: the cancel's operation id reused for a   *)
(* handoff that does not go through the queue.                             *)
(***************************************************************************)
EXTENDS FulfillmentHandoff

CONSTANTS r1, c1, c2, w1, w2, q1

Command(verb, type, checkout) ==
    [op |-> <<verb, checkout>>, type |-> type, rid |-> r1, owner |-> checkout]

Reserve == Command("reserve", "ReserveFulfillment", c1)
Cancel == Command("cancel", "CancelFulfillment", c1)
Handoff == Command("handoff", "HandoffFulfillment", c1)
OtherHandoff == [Handoff EXCEPT !.op = Cancel.op]
Retrieval == Command("retrieve", "RetrieveFulfillment", c1)

WorkflowCommands == {Reserve, Cancel, Handoff, OtherHandoff, Retrieval}
PlannedCancel == {<<r1, "CancelFulfillment">>, <<r1, "ReserveFulfillment">>}
Queued == {Handoff}
=============================================================================
