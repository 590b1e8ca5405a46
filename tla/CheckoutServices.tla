--------------------------- MODULE CheckoutServices ---------------------------
(***************************************************************************)
(* What the services promise the checkout workflow, for one checkout: each *)
(* command takes effect at once and answers from its record when it comes  *)
(* again.  The modules Inventory, Payment and Order model the same         *)
(* services request by request.                                            *)
(***************************************************************************)
EXTENDS Integers, FiniteSets

CONSTANTS
    MaxReplays,  \* bound on the operator's replays
    Declining,   \* payment commands the provider may decline
    Refusing     \* what Fulfillment's failure plan may refuse

Mutations == {"AuthorizePayment", "CapturePayment", "CancelPayment", "RefundPayment"}

(* An operation id: a verb and the replay that sent it, 0 for the workflow *)
Replays == 1..MaxReplays
Verbs == Mutations \cup
         {"ReserveInventory", "CommitInventory", "ReleaseInventory",
          "ReserveFulfillment", "CancelFulfillment", "HandoffFulfillment"}
Ops == Verbs \X (0..MaxReplays)
NoOp == <<"none", 0>>

ASSUME ServicesConstants ==
    /\ MaxReplays \in Nat
    /\ Declining \subseteq Mutations
    /\ Refusing \subseteq {"ReserveFulfillment", "CancelFulfillment"}

OrderStatuses == {"NONE", "PENDING", "COMPENSATING", "RECONCILIATION_REQUIRED",
                  "INVENTORY_UNAVAILABLE", "EXPIRED", "CANCELLED", "CONFIRMED"}
ProviderStates == {"NONE", "AUTHORIZED", "CAPTURED", "CANCELLED", "REFUNDED"}
Works == {"InventoryRelease", "PaymentCancellation", "FulfillmentCancellation",
          "CapturedFulfillmentCancellation", "PaymentRefund",
          "FulfillmentHandoff", "OrderConfirmation"}
NoWork == "none"

VARIABLES
    order,        \* the order's status,
    ordered,      \* the transitions on record
    inventory,    \* the reservation's status
    fulfillment,  \* the fulfillment reservation's status
    results,      \* the recorded answer of each Inventory and Fulfillment operation
    payment,      \* the provider's state of the payment,
    keys,         \* its record of each verb,
    payOps,       \* the ledger's record of each payment operation,
    active,       \* and the operation in progress
    record,       \* the reconciliation record's status,
    openWork,     \* the work it names,
    replayer,     \* and the replay it last admitted
    deadline,     \* the reservation's deadline has passed
    expiry        \* the expiry fact: none, published, consumed

orderVars == <<order, ordered>>
heldVars == <<inventory, fulfillment, results>>
payVars == <<payment, keys, payOps, active>>
workVars == <<record, openWork, replayer>>
timeVars == <<deadline, expiry>>
services == <<orderVars, heldVars, payVars, workVars, timeVars>>

Answer(s) == <<s, "NONE">>
NotActive(held) == <<"RESERVATION_NOT_ACTIVE", held>>
NoAnswer == Answer("NONE")

ServicesInit ==
    /\ order = "NONE" /\ ordered = {}
    /\ inventory = "NONE" /\ fulfillment = "NONE"
    /\ results = [o \in Ops |-> NoAnswer]
    /\ payment = "NONE" /\ active = NoOp
    /\ keys = [t \in Mutations |-> "NONE"]
    /\ payOps = [o \in Ops |-> "ABSENT"]
    /\ record = "NONE" /\ openWork = NoWork /\ replayer = 0
    /\ deadline = FALSE /\ expiry = "none"

(***************************************************************************)
(* Order                                                                   *)
(***************************************************************************)
CreateOrder ==
    /\ order' = IF order = "NONE" THEN "PENDING" ELSE order
    /\ UNCHANGED <<ordered, heldVars, payVars, workVars, timeVars>>

RequiredStatus(target) ==
    CASE target = "CONFIRMED" -> {"PENDING", "RECONCILIATION_REQUIRED"}
      [] target = "CANCELLED" -> {"COMPENSATING", "RECONCILIATION_REQUIRED"}
      [] target = "RECONCILIATION_REQUIRED" -> {"PENDING", "COMPENSATING"}
      [] OTHER -> {"PENDING"}

(* A transition on record is answered from it; otherwise the order must    *)
(* allow it, or be there already.                                          *)
OrderAllows(target) == target \in ordered \/ order = target \/ order \in RequiredStatus(target)

MarkOrder(target) ==
    /\ OrderAllows(target)
    /\ order' = IF target \in ordered THEN order ELSE target
    /\ ordered' = ordered \cup {target}
    /\ UNCHANGED <<heldVars, payVars, workVars, timeVars>>

(***************************************************************************)
(* Inventory                                                               *)
(***************************************************************************)
InventoryAnswers(op) ==
    CASE op[1] = "ReserveInventory" ->
            IF inventory = "NONE" THEN {Answer("RESERVED"), Answer("OUT_OF_STOCK")}
                                  ELSE {NotActive(inventory)}
      [] op[1] = "CommitInventory" ->
            IF inventory = "RESERVED" /\ ~deadline
            THEN {Answer("COMMITTED")} ELSE {NotActive(inventory)}
      [] OTHER ->
            IF inventory = "RESERVED"
            THEN {Answer("RELEASED")} ELSE {NotActive(inventory)}

InventoryCall(op, a) ==
    /\ \/ results[op] # NoAnswer /\ a = results[op] /\ UNCHANGED heldVars
       \/ /\ results[op] = NoAnswer /\ a \in InventoryAnswers(op)
          /\ results' = [results EXCEPT ![op] = a]
          /\ inventory' = IF a[1] \in {"RESERVED", "COMMITTED", "RELEASED"}
                          THEN a[1] ELSE inventory
          /\ UNCHANGED fulfillment
    /\ UNCHANGED <<orderVars, payVars, workVars, timeVars>>

(***************************************************************************)
(* Fulfillment                                                             *)
(***************************************************************************)
FulfillmentAnswers(op) ==
    CASE op[1] = "ReserveFulfillment" ->
            (IF fulfillment = "NONE" THEN {Answer("RESERVED")} ELSE {})
            \cup (IF op[1] \in Refusing THEN {Answer("CAPACITY_UNAVAILABLE")} ELSE {})
      [] OTHER ->
            (CASE fulfillment = "NONE" -> {}
               [] fulfillment = "RESERVED" ->
                    {Answer(IF op[1] = "CancelFulfillment" THEN "CANCELLED" ELSE "HANDED_OFF")}
               [] OTHER -> {NotActive(fulfillment)})
            \cup (IF op[1] \in Refusing THEN {NotActive("RESERVED")} ELSE {})

FulfillmentCall(op, a) ==
    /\ \/ results[op] # NoAnswer /\ a = results[op] /\ UNCHANGED heldVars
       \/ /\ results[op] = NoAnswer /\ a \in FulfillmentAnswers(op)
          /\ results' = [results EXCEPT ![op] = a]
          /\ fulfillment' = IF a[1] \in {"RESERVED", "CANCELLED", "HANDED_OFF"}
                            THEN a[1] ELSE fulfillment
          /\ UNCHANGED inventory
    /\ UNCHANGED <<orderVars, payVars, workVars, timeVars>>

ShownFulfillment ==
    Answer(IF fulfillment = "NONE" THEN "RESERVATION_NOT_ACTIVE" ELSE fulfillment)

(***************************************************************************)
(* Payment: one operation at a time; the provider records each verb once   *)
(***************************************************************************)
Expected(type) ==
    CASE type = "AuthorizePayment" -> "AUTHORIZED"
      [] type = "CapturePayment" -> "CAPTURED"
      [] type = "CancelPayment" -> "CANCELLED"
      [] OTHER -> "REFUNDED"
Prerequisite(type) ==
    CASE type = "AuthorizePayment" -> "NONE"
      [] type = "RefundPayment" -> "CAPTURED"
      [] OTHER -> "AUTHORIZED"
Classify(type) ==
    CASE payment = Expected(type) -> "EXPECTED"
      [] payment = Prerequisite(type) -> "NOT_APPLIED"
      [] OTHER -> "DIVERGED"

(* The provider's answers to a verb, and what each does to its records.    *)
ProviderAnswers(type) ==
    CASE keys[type] = "APPLIED" -> {Expected(type)}
      [] keys[type] = "REJECTED" -> {"REJECTED"}
      [] OTHER -> (IF payment = Prerequisite(type) THEN {Expected(type)} ELSE {"REJECTED"})
                  \cup (IF type \in Declining THEN {"REJECTED"} ELSE {})
ProviderApply(type, a) ==
    /\ payment' = IF a = "REJECTED" \/ keys[type] = "APPLIED" THEN payment ELSE a
    /\ keys' = [keys EXCEPT ![type] = IF a = "REJECTED" THEN "REJECTED" ELSE "APPLIED"]

PayRecorded(o) == payOps[o] \notin {"ABSENT", "IN_PROGRESS"}

(* The ledger once the active operation of another command is settled.     *)
Settled == IF active = NoOp THEN payOps ELSE [payOps EXCEPT ![active] = Expected(active[1])]

(* A command may reach the provider: no operation is active, the active    *)
(* one is another's and shows as applied, or it is its own, not applied.   *)
MayInvoke(op) ==
    \/ active = NoOp
    \/ active # op /\ Classify(active[1]) = "EXPECTED"
    \/ active = op /\ Classify(op[1]) = "NOT_APPLIED"

PaymentCall(op, a) ==
    /\ \/ PayRecorded(op) /\ a = Answer(payOps[op]) /\ UNCHANGED payVars
       \/ /\ ~PayRecorded(op) /\ MayInvoke(op)
          /\ \E s \in ProviderAnswers(op[1]) :
                /\ a = Answer(s)
                /\ ProviderApply(op[1], s)
                /\ payOps' = [(IF active = op THEN payOps ELSE Settled) EXCEPT ![op] = s]
          /\ active' = NoOp
       \/ /\ ~PayRecorded(op) /\ ~MayInvoke(op)
          /\ active = op /\ Classify(op[1]) = "EXPECTED"
          /\ a = Answer(Expected(op[1]))
          /\ payOps' = Settled /\ active' = NoOp
          /\ UNCHANGED <<payment, keys>>
       \/ /\ ~PayRecorded(op) /\ ~MayInvoke(op)
          /\ ~(active = op /\ Classify(op[1]) = "EXPECTED")
          /\ a = Answer("RECONCILIATION_REQUIRED")
          /\ UNCHANGED payVars
    /\ UNCHANGED <<orderVars, heldVars, workVars, timeVars>>

(* The command begins and the provider fails before it does anything.      *)
PaymentBegun(op) ==
    /\ ~PayRecorded(op) /\ MayInvoke(op)
    /\ payOps' = [(IF active = op THEN payOps ELSE Settled) EXCEPT ![op] = "IN_PROGRESS"]
    /\ active' = op
    /\ UNCHANGED <<payment, keys, orderVars, heldVars, workVars, timeVars>>

(* The provider does its part and its response is lost.                    *)
PaymentUnanswered(op) ==
    /\ ~PayRecorded(op) /\ MayInvoke(op)
    /\ keys[op[1]] = "NONE" /\ payment = Prerequisite(op[1])
    /\ ProviderApply(op[1], Expected(op[1]))
    /\ payOps' = [(IF active = op THEN payOps ELSE Settled) EXCEPT ![op] = "IN_PROGRESS"]
    /\ active' = op
    /\ UNCHANGED <<orderVars, heldVars, workVars, timeVars>>

(* A retrieval settles the active operation, as applied or as failed.      *)
PaymentRetrieved(a) ==
    LET found == Answer(IF payment = "NONE" THEN "NOT_FOUND" ELSE payment)
        diverged == active # NoOp /\ Classify(active[1]) = "DIVERGED"
        settles == active # NoOp /\ ~diverged
        failed == [payOps EXCEPT ![active] = "REJECTED"] IN
    /\ a = IF diverged THEN Answer("RECONCILIATION_REQUIRED") ELSE found
    /\ payOps' = CASE settles /\ Classify(active[1]) = "EXPECTED" -> Settled
                  [] settles /\ Classify(active[1]) = "NOT_APPLIED" -> failed
                  [] OTHER -> payOps
    /\ active' = IF settles THEN NoOp ELSE active
    /\ UNCHANGED <<payment, keys, orderVars, heldVars, workVars, timeVars>>

(***************************************************************************)
(* Reconciliation                                                          *)
(***************************************************************************)
(* Repeating the open work of a replay reopens it; other work is refused.  *)
CreateWork(w, a) ==
    /\ openWork \in {NoWork, w}
    /\ openWork' = w
    /\ record' = IF record = "RESOLVED" THEN record ELSE "RECONCILIATION_REQUIRED"
    /\ a = Answer(record')
    /\ UNCHANGED <<replayer, orderVars, heldVars, payVars, timeVars>>

MayResolve == record \in {"REPLAYING", "RESOLVED"}
ResolveWork ==
    /\ MayResolve
    /\ record' = "RESOLVED"
    /\ UNCHANGED <<openWork, replayer, orderVars, heldVars, payVars, timeVars>>

BeginReplay(n) ==
    /\ record = "RECONCILIATION_REQUIRED"
    /\ record' = "REPLAYING" /\ replayer' = n
    /\ UNCHANGED <<openWork, orderVars, heldVars, payVars, timeVars>>

(* A replay whose execution was not seen to start gives the work back.     *)
FailReplay(n) ==
    /\ record' = IF record = "REPLAYING" /\ replayer = n
                 THEN "RECONCILIATION_REQUIRED" ELSE record
    /\ UNCHANGED <<openWork, replayer, orderVars, heldVars, payVars, timeVars>>

(***************************************************************************)
(* Time, the expiry sweep and its consumer                                 *)
(***************************************************************************)
DeadlinePasses ==
    /\ ~deadline /\ deadline' = TRUE
    /\ UNCHANGED <<expiry, orderVars, heldVars, payVars, workVars>>

ExpireReservation ==
    /\ deadline /\ inventory = "RESERVED"
    /\ inventory' = "RELEASED" /\ expiry' = "published"
    /\ UNCHANGED <<deadline, fulfillment, results, orderVars, payVars, workVars>>

ExpireOrder ==
    /\ expiry = "published" /\ order = "PENDING"
    /\ order' = "EXPIRED" /\ expiry' = "consumed"
    /\ UNCHANGED <<deadline, ordered, heldVars, payVars, workVars>>

ServicesOK ==
    /\ order \in OrderStatuses /\ ordered \subseteq OrderStatuses
    /\ inventory \in {"NONE", "RESERVED", "COMMITTED", "RELEASED"}
    /\ fulfillment \in {"NONE", "RESERVED", "CANCELLED", "HANDED_OFF"}
    /\ payment \in ProviderStates
    /\ \A t \in Mutations : keys[t] \in {"NONE", "APPLIED", "REJECTED"}
    /\ \A o \in Ops : payOps[o] = "IN_PROGRESS" <=> active = o
    /\ record \in {"NONE", "RECONCILIATION_REQUIRED", "REPLAYING", "RESOLVED"}
    /\ openWork \in Works \cup {NoWork} /\ replayer \in 0..MaxReplays
    /\ deadline \in BOOLEAN /\ expiry \in {"none", "published", "consumed"}
=============================================================================
