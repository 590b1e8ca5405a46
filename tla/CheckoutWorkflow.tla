--------------------------- MODULE CheckoutWorkflow ---------------------------
(***************************************************************************)
(* The checkout workflow over its services: the execution the admission    *)
(* starts (0) and those an operator's replays start (1, 2, ...), each a    *)
(* run of one state machine, with its retries, catches and choices, the    *)
(* Fulfillment queue and its worker, and the passing of the reservation's  *)
(* deadline.                                                               *)
(*                                                                         *)
(* An action is one attempt of a task: the service's effect and what       *)
(* becomes of the answer.                                                  *)
(***************************************************************************)
EXTENDS CheckoutServices

CONSTANTS
    Stripe,      \* the payment provider's errors tell nothing of its effect
    MaxFaults,   \* bound on failed attempts, lost answers and timeouts
    MaxCrashes   \* bound on executions that stop of themselves

Execs == 0..MaxReplays
Kinds == {"INVENTORY_ONLY", "PAYMENT_AUTHORIZATION", "RESERVED_FULFILLMENT",
          "CAPTURED_PAYMENT", "NONE"}

PaymentTasks == {"AuthorizePayment", "CapturePayment", "CancelPayment", "RefundPayment"}
Tasks == PaymentTasks \cup
    {"CreatePendingOrder", "ReserveInventory", "ReserveFulfillment",
     "RetrievePaymentAfterCaptureFailure", "CommitInventory", "HandoffFulfillment",
     "RetrieveFulfillmentAfterHandoffFailure", "ReleaseInventory", "CancelFulfillment",
     "MarkOrderConfirmed", "MarkOrderInventoryUnavailable", "MarkOrderCompensating",
     "MarkOrderCancelled", "MarkOrderReconciliationRequired",
     "CreateReconciliation", "ResolveReconciliation"}
Ended == {"Succeeded", "Failed"}
Points == Tasks \cup Ended \cup
          {"absent", "admitted", "InventoryCommitTiming", "awaiting handoff"}

ASSUME WorkflowConstants ==
    /\ Stripe \in BOOLEAN
    /\ MaxFaults \in Nat /\ MaxCrashes \in Nat

VARIABLES
    pc,       \* the task each execution is at,
    attempt,  \* the attempts at it that failed,
    kind,     \* its compensation,
    work,     \* its reconciliation,
    entry,    \* it is a replay at the task it began with
    handoff,  \* the message of each execution to the Fulfillment worker
    faults, crashes

execution == <<pc, attempt, kind, work, entry>>
counters == <<faults, crashes>>
vars == <<services, execution, handoff, counters>>

Init ==
    /\ ServicesInit
    /\ pc = [e \in Execs |-> IF e = 0 THEN "CreatePendingOrder" ELSE "absent"]
    /\ attempt = [e \in Execs |-> 0]
    /\ kind = [e \in Execs |-> "NONE"]
    /\ work = [e \in Execs |-> NoWork]
    /\ entry = [e \in Execs |-> FALSE]
    /\ handoff = [e \in Execs |-> "none"]
    /\ faults = 0 /\ crashes = 0

Running(e) == pc[e] \in Points \ (Ended \cup {"absent", "admitted"})

Fault_EnterUnmarked(e, target) ==
    /\ pc' = [pc EXCEPT ![e] =
                CASE target \in Kinds -> "MarkOrderCompensating"
                  [] target \in Works -> "CreateReconciliation"
                  [] OTHER -> target]
    /\ kind' = IF target \in Kinds THEN [kind EXCEPT ![e] = target] ELSE kind
    /\ work' = IF target \in Works THEN [work EXCEPT ![e] = target] ELSE work
    /\ attempt' = [attempt EXCEPT ![e] = 0]
    /\ entry' = [entry EXCEPT ![e] = FALSE]
(* To enter a task, to begin a compensation or to require reconciliation.  *)
Goto(e, target) ==
    /\ pc' = [pc EXCEPT ![e] =
                CASE target \in Kinds -> "MarkOrderCompensating"
                  [] target \in Works -> "MarkOrderReconciliationRequired"
                  [] OTHER -> target]
    /\ kind' = IF target \in Kinds THEN [kind EXCEPT ![e] = target] ELSE kind
    /\ work' = IF target \in Works THEN [work EXCEPT ![e] = target] ELSE work
    /\ attempt' = [attempt EXCEPT ![e] = 0]
    /\ entry' = [entry EXCEPT ![e] = FALSE]

Fault ==
    faults < MaxFaults /\ faults' = faults + 1 /\ UNCHANGED crashes
NoFault == UNCHANGED counters

(***************************************************************************)
(* What each task asks of the services, and where its answers lead         *)
(***************************************************************************)
(* A replay's own operation id serves the compensation it begins with;     *)
(* every later task uses the workflow's.                                   *)
Op(e, verb) == <<verb, IF entry[e] THEN e ELSE 0>>

Marks ==
    [t \in {"MarkOrderConfirmed", "MarkOrderInventoryUnavailable", "MarkOrderCompensating",
            "MarkOrderCancelled", "MarkOrderReconciliationRequired"} |->
        CASE t = "MarkOrderConfirmed" -> "CONFIRMED"
          [] t = "MarkOrderInventoryUnavailable" -> "INVENTORY_UNAVAILABLE"
          [] t = "MarkOrderCompensating" -> "COMPENSATING"
          [] t = "MarkOrderCancelled" -> "CANCELLED"
          [] OTHER -> "RECONCILIATION_REQUIRED"]

Call(e, a) ==
    LET t == pc[e] IN
    \/ t = "CreatePendingOrder" /\ CreateOrder /\ a = Answer("PENDING")
    \/ t \in DOMAIN Marks /\ MarkOrder(Marks[t]) /\ a = Answer(Marks[t])
    \/ t \in {"ReserveInventory", "CommitInventory", "ReleaseInventory"}
       /\ InventoryCall(Op(e, t), a)
    \/ t \in {"ReserveFulfillment", "CancelFulfillment"} /\ FulfillmentCall(Op(e, t), a)
    \/ t \in PaymentTasks /\ PaymentCall(Op(e, t), a)
    \/ t = "RetrievePaymentAfterCaptureFailure" /\ PaymentRetrieved(a)
    \/ t = "RetrieveFulfillmentAfterHandoffFailure"
       /\ a = ShownFulfillment /\ UNCHANGED services
    \/ t = "CreateReconciliation" /\ CreateWork(work[e], a)
    \/ t = "ResolveReconciliation" /\ ResolveWork /\ a = Answer("RESOLVED")

Held == {"RESERVED", "COMMITTED", "RELEASED", "CANCELLED", "HANDED_OFF"}
Answers ==
    {NotActive(h) : h \in Held}
    \cup {Answer(s) : s \in Held \cup OrderStatuses \cup
                            {"AUTHORIZED", "CAPTURED", "REFUNDED", "REJECTED", "NOT_FOUND",
                             "OUT_OF_STOCK", "CAPACITY_UNAVAILABLE",
                             "RESERVATION_NOT_ACTIVE", "RESOLVED"}}

FirstCompensation(k) ==
    CASE k = "INVENTORY_ONLY" -> "ReleaseInventory"
      [] k = "PAYMENT_AUTHORIZATION" -> "CancelPayment"
      [] k = "RESERVED_FULFILLMENT" -> "CancelFulfillment"
      [] OTHER -> "RefundPayment"

CancellationWork(e) ==
    IF kind[e] = "CAPTURED_PAYMENT"
    THEN "CapturedFulfillmentCancellation" ELSE "FulfillmentCancellation"

Finish(e) == IF e = 0 THEN "Succeeded" ELSE "ResolveReconciliation"

AfterReservation(s) ==
    CASE s = "RESERVED" -> "AuthorizePayment"
      [] s = "OUT_OF_STOCK" -> "MarkOrderInventoryUnavailable"
      [] OTHER -> "Failed"

AfterAuthorization(s) ==
    CASE s = "AUTHORIZED" -> "ReserveFulfillment"
      [] s = "REJECTED" -> "INVENTORY_ONLY"
      [] OTHER -> "Failed"

(* What became of a capture that was not answered CAPTURED.                *)
AfterCaptureRetrieval(s) ==
    CASE s \in {"CAPTURED", "REFUNDED"} -> "CAPTURED_PAYMENT"
      [] s \in {"AUTHORIZED", "CANCELLED"} -> "RESERVED_FULFILLMENT"
      [] OTHER -> "Failed"

Fault_HandOffInactive(a) ==
    IF a[1] \in {"COMMITTED", "RESERVATION_NOT_ACTIVE"} THEN "HandoffFulfillment"
    ELSE "CAPTURED_PAYMENT"
AfterCommit(a) ==
    IF a \in {Answer("COMMITTED"), NotActive("COMMITTED")}
    THEN "HandoffFulfillment" ELSE "CAPTURED_PAYMENT"

AfterRelease(a) ==
    IF a \in {Answer("RELEASED"), NotActive("RELEASED")}
    THEN "MarkOrderCancelled" ELSE "InventoryRelease"

Fault_ReleaseAfterRefund(s) == IF s = "REFUNDED" THEN "ReleaseInventory" ELSE "PaymentRefund"
AfterRefund(s) == IF s = "REFUNDED" THEN "CancelFulfillment" ELSE "PaymentRefund"

AfterCancellation(e, a) ==
    CASE a = Answer("CANCELLED") ->
            IF kind[e] = "CAPTURED_PAYMENT" THEN "ReleaseInventory" ELSE "CancelPayment"
      [] a = NotActive("HANDED_OFF") -> "FulfillmentHandoff"
      [] OTHER -> CancellationWork(e)

Fault_OnlyMarked == "Succeeded"
AfterReconciliationMark == "CreateReconciliation"

Route(e, a) ==
    LET t == pc[e]
        s == a[1] IN
    CASE t = "CreatePendingOrder" -> "ReserveInventory"
      [] t = "ReserveInventory" -> AfterReservation(s)
      [] t = "AuthorizePayment" -> AfterAuthorization(s)
      [] t = "ReserveFulfillment" ->
            IF s = "RESERVED" THEN "CapturePayment" ELSE "PAYMENT_AUTHORIZATION"
      [] t = "CapturePayment" ->
            IF s = "CAPTURED" THEN "InventoryCommitTiming"
                              ELSE "RetrievePaymentAfterCaptureFailure"
      [] t = "RetrievePaymentAfterCaptureFailure" -> AfterCaptureRetrieval(s)
      [] t = "CommitInventory" -> AfterCommit(a)
      [] t = "RetrieveFulfillmentAfterHandoffFailure" ->
            IF s = "HANDED_OFF" THEN "MarkOrderConfirmed" ELSE "FulfillmentHandoff"
      [] t \in {"MarkOrderConfirmed", "MarkOrderCancelled"} -> Finish(e)
      [] t = "MarkOrderCompensating" -> FirstCompensation(kind[e])
      [] t = "ReleaseInventory" -> AfterRelease(a)
      [] t = "CancelPayment" ->
            IF s = "CANCELLED" THEN "ReleaseInventory" ELSE "PaymentCancellation"
      [] t = "RefundPayment" -> AfterRefund(s)
      [] t = "CancelFulfillment" -> AfterCancellation(e, a)
      [] t = "MarkOrderReconciliationRequired" -> AfterReconciliationMark
      [] t = "CreateReconciliation" ->
            IF s = "RECONCILIATION_REQUIRED" THEN "Succeeded" ELSE "Failed"
      [] t \in {"MarkOrderInventoryUnavailable", "ResolveReconciliation"} -> "Succeeded"

(***************************************************************************)
(* Errors: "internal" ones of AWS, "provider" and "lost" ones of Payment,  *)
(* "fatal" ones that no list names                                         *)
(***************************************************************************)
Fault_NeverRetried(t, err) == FALSE
Retried(t, err) ==
    /\ err # "fatal"
    /\ t # "HandoffFulfillment"
    /\ ~(t = "CapturePayment" /\ err = "lost")

Fault_CatchAnyError(err) == "INVENTORY_ONLY"
AuthorizationCatch(err) == IF err = "provider" THEN "INVENTORY_ONLY" ELSE "Failed"

CatchTarget(e, err) ==
    LET t == pc[e] IN
    CASE t = "HandoffFulfillment" -> "RetrieveFulfillmentAfterHandoffFailure"
      [] t = "RetrieveFulfillmentAfterHandoffFailure" -> "FulfillmentHandoff"
      [] t = "MarkOrderConfirmed" -> "OrderConfirmation"
      [] t = "AuthorizePayment" -> AuthorizationCatch(err)
      [] t = "CapturePayment" -> "RetrievePaymentAfterCaptureFailure"
      [] t = "CommitInventory" -> "CAPTURED_PAYMENT"
      [] t = "ReleaseInventory" -> "InventoryRelease"
      [] t = "CancelPayment" -> "PaymentCancellation"
      [] t = "RefundPayment" -> "PaymentRefund"
      [] t = "CancelFulfillment" -> CancellationWork(e)
      [] OTHER -> "Failed"

MaxAttempts == 3
Fault_RetryForever(e, err) ==
    IF Retried(pc[e], err) THEN UNCHANGED execution ELSE Goto(e, CatchTarget(e, err))
Fault_OneMoreAttempt(e, err) ==
    IF attempt[e] < MaxAttempts /\ Retried(pc[e], err)
    THEN /\ attempt' = [attempt EXCEPT ![e] = @ + 1]
         /\ UNCHANGED <<pc, kind, work, entry>>
    ELSE Goto(e, CatchTarget(e, err))
OnError(e, err) ==
    IF attempt[e] + 1 < MaxAttempts /\ Retried(pc[e], err)
    THEN /\ attempt' = [attempt EXCEPT ![e] = @ + 1]
         /\ UNCHANGED <<pc, kind, work, entry>>
    ELSE Goto(e, CatchTarget(e, err))

(***************************************************************************)
(* Attempts at a task                                                      *)
(***************************************************************************)
Answered(e) ==
    /\ \E a \in Answers : Call(e, a) /\ Goto(e, Route(e, a))
    /\ NoFault /\ UNCHANGED handoff

(* The service did its part; its answer did not reach the execution.       *)
AnswerLost(e) ==
    /\ Fault /\ \E a \in Answers : Call(e, a)
    /\ OnError(e, "internal")
    /\ UNCHANGED handoff

(* The call failed before it had an effect.                                *)
Unreached(e) ==
    /\ pc[e] \in Tasks
    /\ Fault /\ OnError(e, "internal")
    /\ UNCHANGED <<services, handoff>>

(* The provider failed before its part, or in answering.                   *)
ProviderFails(e) ==
    /\ pc[e] \in PaymentTasks /\ Fault
    /\ LET op == Op(e, pc[e]) IN
       \/ PaymentBegun(op) /\ \E err \in {"provider", "internal"} : OnError(e, err)
       \/ PaymentUnanswered(op)
          /\ \E err \in {"lost", "internal"} \cup (IF Stripe THEN {"provider"} ELSE {}) :
                OnError(e, err)
       \/ Stripe /\ OnError(e, "provider") /\ UNCHANGED services
    /\ UNCHANGED handoff

(* The service rejects the call: the order is elsewhere, the record names  *)
(* other work; a resolution that finds no replay is a failed transaction.  *)
Refused(e) ==
    /\ LET t == pc[e] IN
       \/ t \in DOMAIN Marks /\ ~OrderAllows(Marks[t]) /\ OnError(e, "fatal")
       \/ t = "CreateReconciliation" /\ openWork \notin {NoWork, work[e]} /\ OnError(e, "fatal")
       \/ t = "ResolveReconciliation" /\ ~MayResolve /\ OnError(e, "internal")
    /\ NoFault /\ UNCHANGED <<services, handoff>>

(* The deadline, unless the input names the time of the commit.            *)
InventoryCommitTiming(e) ==
    /\ pc[e] = "InventoryCommitTiming"
    /\ \/ Goto(e, "CommitInventory")
       \/ deadline /\ Goto(e, "CAPTURED_PAYMENT")
    /\ NoFault /\ UNCHANGED <<services, handoff>>

(* An execution stops at seven minutes, or at an error no list names.      *)
Stop(e) ==
    /\ Running(e) /\ crashes < MaxCrashes
    /\ crashes' = crashes + 1
    /\ Goto(e, "Failed")
    /\ UNCHANGED <<services, handoff, faults>>

(***************************************************************************)
(* The handoff: a message with the task's token, and a worker              *)
(***************************************************************************)
HandoffFulfillment(e) ==
    /\ pc[e] = "HandoffFulfillment"
    /\ Goto(e, "awaiting handoff")
    /\ handoff' = [handoff EXCEPT ![e] = "queued"]
    /\ NoFault /\ UNCHANGED services

HandoffTimesOut(e) ==
    /\ pc[e] = "awaiting handoff" /\ Fault
    /\ Goto(e, "RetrieveFulfillmentAfterHandoffFailure")
    /\ UNCHANGED <<services, handoff>>

(* The heartbeat: a message whose token has expired is dropped.            *)
WorkerHeartbeat(e) ==
    /\ handoff[e] = "queued"
    /\ handoff' = [handoff EXCEPT ![e] =
                      IF pc[e] = "awaiting handoff" THEN "working" ELSE "none"]
    /\ NoFault /\ UNCHANGED <<services, execution>>

(* The worker hands off and calls back, in time or too late.               *)
WorkerHandsOff(e) ==
    /\ handoff[e] = "working"
    /\ handoff' = [handoff EXCEPT ![e] = "none"]
    /\ \E a \in Answers :
          /\ FulfillmentCall(<<"HandoffFulfillment", 0>>, a)
          /\ IF pc[e] = "awaiting handoff"
             THEN Goto(e, IF a = Answer("HANDED_OFF") THEN "MarkOrderConfirmed"
                          ELSE "RetrieveFulfillmentAfterHandoffFailure")
             ELSE UNCHANGED execution
    /\ NoFault

(* The worker fails before or after the handoff; the message comes again.  *)
WorkerFails(e) ==
    /\ handoff[e] = "working" /\ Fault
    /\ handoff' = [handoff EXCEPT ![e] = "queued"]
    /\ \/ \E a \in Answers : FulfillmentCall(<<"HandoffFulfillment", 0>>, a)
       \/ UNCHANGED services
    /\ UNCHANGED execution

(***************************************************************************)
(* An operator's replays                                                   *)
(***************************************************************************)
RecoveryKind(w) ==
    CASE w = "InventoryRelease" -> "INVENTORY_ONLY"
      [] w = "PaymentCancellation" -> "PAYMENT_AUTHORIZATION"
      [] w = "FulfillmentCancellation" -> "RESERVED_FULFILLMENT"
      [] w \in {"CapturedFulfillmentCancellation", "PaymentRefund"} -> "CAPTURED_PAYMENT"
      [] OTHER -> "NONE"

RecoveryStep(w) ==
    CASE w = "FulfillmentHandoff" -> "HandoffFulfillment"
      [] w = "OrderConfirmation" -> "MarkOrderConfirmed"
      [] OTHER -> FirstCompensation(RecoveryKind(w))

AdmitReplay(n) ==
    /\ pc[n] = "absent" /\ (n > 1 => pc[n - 1] # "absent")
    /\ BeginReplay(n)
    /\ pc' = [pc EXCEPT ![n] = "admitted"]
    /\ NoFault /\ UNCHANGED <<attempt, kind, work, entry, handoff>>

(* The same replay command once more: its execution has that name already. *)
AdmitReplayAgain(n) ==
    /\ pc[n] # "absent" /\ BeginReplay(n)
    /\ NoFault /\ UNCHANGED <<execution, handoff>>

EnterReplay(n) ==
    /\ pc' = [pc EXCEPT ![n] = RecoveryStep(openWork)]
    /\ kind' = [kind EXCEPT ![n] = RecoveryKind(openWork)]
    /\ entry' = [entry EXCEPT ![n] = TRUE]
    /\ UNCHANGED <<attempt, work>>

StartReplay(n) ==
    /\ pc[n] = "admitted" /\ EnterReplay(n)
    /\ NoFault /\ UNCHANGED <<services, handoff>>

(* The start fails, or is not seen to succeed.                             *)
ReplayStartFails(n) ==
    /\ pc[n] = "admitted" /\ Fault
    /\ FailReplay(n)
    /\ \/ pc' = [pc EXCEPT ![n] = "absent"] /\ UNCHANGED <<attempt, kind, work, entry>>
       \/ EnterReplay(n)
    /\ UNCHANGED handoff

-----------------------------------------------------------------------------
Step(e) ==
    \/ Answered(e) \/ Refused(e) \/ InventoryCommitTiming(e)
    \/ HandoffFulfillment(e) \/ WorkerHeartbeat(e) \/ WorkerHandsOff(e)

Trouble(e) ==
    \/ AnswerLost(e) \/ Unreached(e) \/ ProviderFails(e) \/ Stop(e)
    \/ HandoffTimesOut(e) \/ WorkerFails(e)

Operator(n) ==
    \/ AdmitReplay(n) \/ AdmitReplayAgain(n) \/ StartReplay(n) \/ ReplayStartFails(n)

Background ==
    /\ DeadlinePasses \/ ExpireReservation \/ ExpireOrder
    /\ UNCHANGED <<execution, handoff, counters>>

Next ==
    \/ \E e \in Execs : Step(e) \/ Trouble(e)
    \/ \E n \in Replays : Operator(n)
    \/ Background

Spec == Init /\ [][Next]_vars

(* Step Functions and the queue drive every step, the clock runs on, and   *)
(* the sweep and its consumer are scheduled; no operator is needed.        *)
Fairness ==
    /\ \A e \in Execs : WF_vars(Step(e))
    /\ \A n \in Replays : WF_vars(StartReplay(n))
    /\ WF_vars(Background)
FairSpec == Spec /\ Fairness

-----------------------------------------------------------------------------
(***************************************************************************)
(* Properties                                                              *)
(***************************************************************************)
(* The shape of the services' records and of every execution. *)
TypeOK ==
    /\ ServicesOK
    /\ pc \in [Execs -> Points]
    /\ attempt \in [Execs -> 0..(MaxAttempts - 1)]
    /\ kind \in [Execs -> Kinds]
    /\ work \in [Execs -> Works \cup {NoWork}]
    /\ entry \in [Execs -> BOOLEAN]
    /\ handoff \in [Execs -> {"none", "queued", "working"}]
    /\ faults \in 0..MaxFaults /\ crashes \in 0..MaxCrashes

(* A customer told CANCELLED has nothing held and owes nothing.            *)
CancelledMeansUndone ==
    order = "CANCELLED" =>
        /\ inventory = "RELEASED"
        /\ payment \in {"NONE", "CANCELLED", "REFUNDED"}
        /\ fulfillment \in {"NONE", "CANCELLED"}

(* Nothing is committed that was not paid, nor handed over that was        *)
(* refunded; a customer told CONFIRMED has what was committed and handed   *)
(* over.                                                                   *)
NothingShipsUnpaid ==
    /\ inventory = "COMMITTED" => payment \in {"CAPTURED", "REFUNDED"}
    /\ fulfillment = "HANDED_OFF" => payment = "CAPTURED" /\ inventory = "COMMITTED"
    /\ order = "CONFIRMED" => fulfillment = "HANDED_OFF"

(* Recovery goes in reverse order: the workflow gives stock back only when *)
(* the payment and the capacity are given back.                            *)
ReleaseIsLast ==
    [][\A o \in Ops :
          results[o] # results'[o] /\ results'[o] = Answer("RELEASED") =>
              /\ payment \in {"NONE", "CANCELLED", "REFUNDED"}
              /\ fulfillment \in {"NONE", "CANCELLED"}]_vars

(* An execution that succeeds leaves the order final or its work on record *)
SuccessIsAccounted ==
    \A e \in Execs :
        pc[e] = "Succeeded" =>
            \/ order \in {"CONFIRMED", "CANCELLED", "INVENTORY_UNAVAILABLE"}
            \/ order = "RECONCILIATION_REQUIRED" /\ record # "NONE"

(* Work on record shows on the order until it is done, and is resolved     *)
(* only when the order is final.                                           *)
WorkIsVisible ==
    /\ record # "NONE" => order \in {"RECONCILIATION_REQUIRED", "CONFIRMED", "CANCELLED"}
    /\ record = "RESOLVED" => order \in {"CONFIRMED", "CANCELLED"}

(* No loss that the retries can absorb leaves a customer waiting.          *)
OrderSettles ==
    order \in {"PENDING", "COMPENSATING"} ~>
        \/ order \notin {"PENDING", "COMPENSATING"}
        \/ faults >= MaxAttempts \/ crashes > 0

(* Every execution comes to an end. *)
ExecutionsEnd == \A e \in Execs : Running(e) ~> pc[e] \in Ended

(* "The workflow compensates a captured Payment if Inventory can no longer *)
(* commit": once the execution is over, a captured payment belongs to a    *)
(* confirmed order or to work on record.                                   *)
CapturedIsSettled ==
    pc[0] \in Ended /\ payment = "CAPTURED" => order = "CONFIRMED" \/ record # "NONE"
=============================================================================
