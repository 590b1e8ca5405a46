---------------------------- MODULE WorkflowProofs ----------------------------
(***************************************************************************)
(* Theorems about CheckoutWorkflow, for any number of replays, whatever    *)
(* the providers may decline and Fulfillment refuse.  A checkout is first  *)
(* sold, by the workflow's own execution alone; then every execution is    *)
(* about its delivery, or every execution is about its recovery.           *)
(***************************************************************************)
EXTENDS CheckoutWorkflow, TLAPS

PayStates == {"ABSENT", "IN_PROGRESS", "REJECTED", "AUTHORIZED", "CAPTURED", "CANCELLED", "REFUNDED"}
KeyStates == {"NONE", "APPLIED", "REJECTED"}

LedgersOK ==
    /\ ServicesOK
    /\ keys \in [Mutations -> KeyStates]
    /\ payOps \in [Ops -> PayStates]
    /\ results \in [Ops -> Answers]
    /\ active \in Ops \cup {NoOp} /\ (active # NoOp => active[1] \in Mutations)

ExecutionsOK ==
    /\ pc \in [Execs -> Points]
    /\ attempt \in [Execs -> 0..(MaxAttempts - 1)]
    /\ kind \in [Execs -> Kinds]
    /\ work \in [Execs -> Works \cup {NoWork}]
    /\ entry \in [Execs -> BOOLEAN] /\ entry[0] = FALSE

CountersOK == faults \in 0..MaxFaults /\ crashes \in 0..MaxCrashes

TypeInv ==
    /\ LedgersOK /\ ExecutionsOK /\ CountersOK
    /\ handoff \in [Execs -> {"none", "queued", "working"}]

-----------------------------------------------------------------------------
(* A final status stays, and an order with work on record goes nowhere but *)
(* to one.                                                                 *)
OrderInv ==
    /\ \A t \in {"CONFIRMED", "CANCELLED", "INVENTORY_UNAVAILABLE"} : t \in ordered => order = t
    /\ "RECONCILIATION_REQUIRED" \in ordered =>
          order \in {"RECONCILIATION_REQUIRED", "CONFIRMED", "CANCELLED"}

(* What an execution has seen of the order and of the record.              *)
Marked(e) ==
    /\ pc[e] = "CreateReconciliation" => order \in {"RECONCILIATION_REQUIRED", "CONFIRMED", "CANCELLED"}
    /\ pc[e] = "ResolveReconciliation" => order \in {"CONFIRMED", "CANCELLED"}
    /\ pc[e] \in {"MarkOrderReconciliationRequired", "CreateReconciliation"} => work[e] # NoWork
    /\ pc[e] = "admitted" => record # "NONE"

RecordInv ==
    /\ OrderInv /\ WorkIsVisible /\ SuccessIsAccounted
    /\ record # "NONE" => openWork # NoWork
    /\ \A e \in Execs : Marked(e)

-----------------------------------------------------------------------------
(* The provider's states that come after a verb was applied.               *)
After(s) ==
    CASE s = "AUTHORIZED" -> ProviderStates \ {"NONE"}
      [] s = "CAPTURED" -> {"CAPTURED", "REFUNDED"}
      [] s = "CANCELLED" -> {"CANCELLED"}
      [] s = "REFUNDED" -> {"REFUNDED"}
      [] OTHER -> ProviderStates

(* The ledgers are true of what they record.                               *)
PayTruth ==
    /\ \A t \in Mutations : keys[t] = "APPLIED" => payment \in After(Expected(t))
    /\ payment # "NONE" => keys["AuthorizePayment"] = "APPLIED"
    /\ \A o \in Ops : payment \in After(payOps[o])

HeldTruth ==
    \A o \in Ops : \A h \in {results[o][1], results[o][2]} :
        /\ h \in {"COMMITTED", "RELEASED"} => inventory = h
        /\ h \in {"CANCELLED", "HANDED_OFF"} => fulfillment = h

TruthInv == PayTruth /\ HeldTruth

-----------------------------------------------------------------------------
(* The three phases of a checkout                                          *)
SellPoints ==
    {"CreatePendingOrder", "ReserveInventory", "AuthorizePayment", "ReserveFulfillment",
     "CapturePayment", "RetrievePaymentAfterCaptureFailure", "InventoryCommitTiming",
     "CommitInventory", "MarkOrderInventoryUnavailable"}
DeliverPoints ==
    {"HandoffFulfillment", "awaiting handoff", "RetrieveFulfillmentAfterHandoffFailure",
     "MarkOrderConfirmed"}
RecoverPoints ==
    {"MarkOrderCompensating", "RefundPayment", "CancelFulfillment", "CancelPayment",
     "ReleaseInventory", "MarkOrderCancelled"}
ClosePoints ==
    {"MarkOrderReconciliationRequired", "CreateReconciliation", "ResolveReconciliation"}
RestPoints == Ended \cup {"absent", "admitted"}

DeliverWorks == {"FulfillmentHandoff", "OrderConfirmation"}
RecoverWorks == Works \ DeliverWorks

Selling ==
    /\ pc[0] \in SellPoints \cup Ended /\ \A n \in Replays : pc[n] = "absent"
    /\ \A e \in Execs : work[e] = NoWork /\ kind[e] = "NONE" /\ handoff[e] = "none"
    /\ record = "NONE" /\ openWork = NoWork
    /\ payment \in {"NONE", "AUTHORIZED", "CAPTURED"}
    /\ fulfillment \in {"NONE", "RESERVED"}
    /\ order \notin {"CONFIRMED", "CANCELLED"}
    /\ pc[0] \in {"InventoryCommitTiming", "CommitInventory"} => payment = "CAPTURED"
    /\ inventory = "COMMITTED" => payment = "CAPTURED"

Delivering ==
    /\ \A e \in Execs :
          /\ pc[e] \in DeliverPoints \cup ClosePoints \cup RestPoints
          /\ work[e] \in DeliverWorks \cup {NoWork}
          /\ pc[e] = "MarkOrderConfirmed" \/ work[e] = "OrderConfirmation" =>
                fulfillment = "HANDED_OFF"
    /\ openWork \in DeliverWorks \cup {NoWork}
    /\ openWork = "OrderConfirmation" => fulfillment = "HANDED_OFF"
    /\ inventory = "COMMITTED" /\ payment = "CAPTURED"
    /\ order # "CANCELLED" /\ (order = "CONFIRMED" => fulfillment = "HANDED_OFF")

Recovering ==
    /\ \A e \in Execs :
          /\ pc[e] \in RecoverPoints \cup ClosePoints \cup RestPoints
          /\ work[e] \in RecoverWorks \cup {NoWork} /\ handoff[e] = "none"
    /\ openWork \in RecoverWorks \cup {NoWork}
    /\ fulfillment # "HANDED_OFF" /\ order # "CONFIRMED"
    /\ inventory = "COMMITTED" => payment \in {"CAPTURED", "REFUNDED"}

PhaseInv == Selling \/ Delivering \/ Recovering

-----------------------------------------------------------------------------
(* What is given back, in the order the recovery goes                      *)
PaymentUndone == payment \in {"NONE", "CANCELLED", "REFUNDED"}
CapacityUndone == fulfillment \in {"NONE", "CANCELLED"}
AuthorizeOp == <<"AuthorizePayment", 0>>
CapacityOp == <<"ReserveFulfillment", 0>>

(* What the workflow's execution knows before it has authorized.           *)
Unpaid ==
    /\ pc[0] \in {"CreatePendingOrder", "ReserveInventory"} =>
          payment = "NONE" /\ payOps[AuthorizeOp] = "ABSENT"
    /\ pc[0] \in {"CreatePendingOrder", "ReserveInventory", "AuthorizePayment"} =>
          active \in {NoOp, AuthorizeOp} /\ fulfillment = "NONE"
    /\ pc[0] = "AuthorizePayment" =>
          /\ payOps[AuthorizeOp] = "ABSENT" => payment = "NONE"
          /\ payOps[AuthorizeOp] = "REJECTED" => keys["AuthorizePayment"] = "REJECTED"
    /\ pc[0] \in SellPoints => fulfillment = "NONE" \/ results[CapacityOp] = Answer("RESERVED")

(* Work and compensations of a later step rest on the earlier ones.        *)
WorkUndone(w) ==
    /\ w = "InventoryRelease" => PaymentUndone
    /\ w \in {"InventoryRelease", "PaymentCancellation"} => CapacityUndone
KindUndone(k) ==
    /\ k = "INVENTORY_ONLY" => PaymentUndone
    /\ k \in {"INVENTORY_ONLY", "PAYMENT_AUTHORIZATION"} => CapacityUndone
PointUndone(p, k) ==
    /\ p \in {"ReleaseInventory", "MarkOrderCancelled"} => PaymentUndone
    /\ p \in {"ReleaseInventory", "MarkOrderCancelled", "CancelPayment"} => CapacityUndone
    /\ p = "CancelFulfillment" /\ k = "CAPTURED_PAYMENT" => PaymentUndone
    /\ p = "MarkOrderCancelled" => inventory = "RELEASED"

UndoneInv ==
    /\ Unpaid /\ CancelledMeansUndone /\ WorkUndone(openWork)
    /\ \A e \in Execs : WorkUndone(work[e]) /\ KindUndone(kind[e]) /\ PointUndone(pc[e], kind[e])

-----------------------------------------------------------------------------
(***************************************************************************)
(* Operation ids, routes and the shape of a step                           *)
(***************************************************************************)
LEMMA ConstantsAre ==
    /\ MaxReplays \in Nat /\ MaxFaults \in Nat /\ MaxCrashes \in Nat
    /\ 0 \in Execs /\ Replays \subseteq Execs /\ 0 \notin Replays
    /\ NoOp \notin Ops
    /\ Mutations = PaymentTasks /\ Mutations \subseteq Verbs
  BY ServicesConstants, WorkflowConstants
     DEF Execs, Replays, NoOp, Ops, Verbs, Mutations, PaymentTasks

LEMMA OpIsOp ==
    ASSUME TypeInv, NEW e \in Execs, NEW t \in Verbs
    PROVE  /\ Op(e, t) \in Ops /\ Op(e, t)[1] = t
           /\ e = 0 => Op(e, t) = <<t, 0>>
  BY ConstantsAre DEF TypeInv, ExecutionsOK, Op, Ops, Execs

LEMMA CapacityOpIsOp == CapacityOp \in Ops /\ AuthorizeOp \in Ops /\ <<"HandoffFulfillment", 0>> \in Ops
  BY ConstantsAre DEF CapacityOp, AuthorizeOp, Ops, Verbs, Mutations

(* Where an answer leads, a task at a time.                                *)
LEMMA RouteIs ==
    ASSUME NEW e, NEW a
    PROVE  /\ pc[e] = "CreatePendingOrder" => Route(e, a) = "ReserveInventory"
           /\ pc[e] = "ReserveInventory" => Route(e, a) = AfterReservation(a[1])
           /\ pc[e] = "AuthorizePayment" => Route(e, a) = AfterAuthorization(a[1])
           /\ pc[e] = "ReserveFulfillment" =>
                 Route(e, a) = IF a[1] = "RESERVED" THEN "CapturePayment" ELSE "PAYMENT_AUTHORIZATION"
           /\ pc[e] = "CapturePayment" =>
                 Route(e, a) = IF a[1] = "CAPTURED" THEN "InventoryCommitTiming"
                               ELSE "RetrievePaymentAfterCaptureFailure"
           /\ pc[e] = "RetrievePaymentAfterCaptureFailure" => Route(e, a) = AfterCaptureRetrieval(a[1])
           /\ pc[e] = "CommitInventory" => Route(e, a) = AfterCommit(a)
           /\ pc[e] = "RetrieveFulfillmentAfterHandoffFailure" =>
                 Route(e, a) = IF a[1] = "HANDED_OFF" THEN "MarkOrderConfirmed" ELSE "FulfillmentHandoff"
           /\ pc[e] \in {"MarkOrderConfirmed", "MarkOrderCancelled"} => Route(e, a) = Finish(e)
           /\ pc[e] = "MarkOrderCompensating" => Route(e, a) = FirstCompensation(kind[e])
           /\ pc[e] = "ReleaseInventory" => Route(e, a) = AfterRelease(a)
           /\ pc[e] = "CancelPayment" =>
                 Route(e, a) = IF a[1] = "CANCELLED" THEN "ReleaseInventory" ELSE "PaymentCancellation"
           /\ pc[e] = "RefundPayment" => Route(e, a) = AfterRefund(a[1])
           /\ pc[e] = "CancelFulfillment" => Route(e, a) = AfterCancellation(e, a)
           /\ pc[e] = "MarkOrderReconciliationRequired" => Route(e, a) = "CreateReconciliation"
           /\ pc[e] = "CreateReconciliation" =>
                 Route(e, a) = IF a[1] = "RECONCILIATION_REQUIRED" THEN "Succeeded" ELSE "Failed"
           /\ pc[e] \in {"MarkOrderInventoryUnavailable", "ResolveReconciliation"} =>
                 Route(e, a) = "Succeeded"
  BY DEF Route, AfterReconciliationMark

(* The same for an error that is caught, or is not.                        *)
LEMMA CatchIs ==
    ASSUME NEW e, NEW err
    PROVE  /\ pc[e] = "AuthorizePayment" =>
                 CatchTarget(e, err) = IF err = "provider" THEN "INVENTORY_ONLY" ELSE "Failed"
           /\ pc[e] = "CapturePayment" => CatchTarget(e, err) = "RetrievePaymentAfterCaptureFailure"
           /\ pc[e] = "CommitInventory" => CatchTarget(e, err) = "CAPTURED_PAYMENT"
           /\ pc[e] = "HandoffFulfillment" =>
                 CatchTarget(e, err) = "RetrieveFulfillmentAfterHandoffFailure"
           /\ pc[e] = "RetrieveFulfillmentAfterHandoffFailure" =>
                 CatchTarget(e, err) = "FulfillmentHandoff"
           /\ pc[e] = "MarkOrderConfirmed" => CatchTarget(e, err) = "OrderConfirmation"
           /\ pc[e] = "ReleaseInventory" => CatchTarget(e, err) = "InventoryRelease"
           /\ pc[e] = "CancelPayment" => CatchTarget(e, err) = "PaymentCancellation"
           /\ pc[e] = "RefundPayment" => CatchTarget(e, err) = "PaymentRefund"
           /\ pc[e] = "CancelFulfillment" => CatchTarget(e, err) = CancellationWork(e)
           /\ pc[e] \notin {"AuthorizePayment", "CapturePayment", "CommitInventory",
                            "HandoffFulfillment", "RetrieveFulfillmentAfterHandoffFailure",
                            "MarkOrderConfirmed", "ReleaseInventory", "CancelPayment",
                            "RefundPayment", "CancelFulfillment"} => CatchTarget(e, err) = "Failed"
  BY DEF CatchTarget, AuthorizationCatch

(* To enter a point, to begin a compensation or to require reconciliation. *)
Dest(target) ==
    CASE target \in Kinds -> "MarkOrderCompensating"
      [] target \in Works -> "MarkOrderReconciliationRequired"
      [] OTHER -> target
Targets == Points \cup Kinds \cup Works

Moved(e, target) ==
    /\ pc'[e] = Dest(target) /\ entry'[e] = FALSE
    /\ kind'[e] = IF target \in Kinds THEN target ELSE kind[e]
    /\ work'[e] = IF target \in Works THEN target ELSE work[e]
Still(e) == pc'[e] = pc[e] /\ kind'[e] = kind[e] /\ work'[e] = work[e] /\ entry'[e] = entry[e]
Entered(e) ==
    /\ pc'[e] = RecoveryStep(openWork) /\ kind'[e] = RecoveryKind(openWork)
    /\ work'[e] = work[e] /\ entry'[e] = TRUE

LEMMA GotoMoves ==
    ASSUME ExecutionsOK, NEW e \in Execs, NEW target, Goto(e, target)
    PROVE  Moved(e, target) /\ \A f \in Execs \ {e} : Still(f)
  BY DEF ExecutionsOK, Goto, Moved, Still, Dest

(* What an execution is answered, or what becomes of an attempt that is    *)
(* not: the targets it may be sent to.                                     *)
Handed == <<"HandoffFulfillment", 0>>
AfterAnswer(e, target) == \E a \in Answers : Call(e, a) /\ target = Route(e, a)
AfterError(e, target) ==
    /\ pc[e] \in Tasks
    /\ \E err : /\ target = CatchTarget(e, err)
                /\ err = "provider" => Stripe \/ PaymentBegun(Op(e, pc[e]))
AfterTiming(e, target) ==
    pc[e] = "InventoryCommitTiming" /\ target \in {"CommitInventory", "CAPTURED_PAYMENT"}
AfterStop(e, target) == Running(e) /\ target = "Failed" /\ UNCHANGED services
AfterHandoff(e, target) ==
    \/ pc[e] = "HandoffFulfillment" /\ target = "awaiting handoff"
    \/ /\ pc[e] = "awaiting handoff"
       /\ \/ target = "RetrieveFulfillmentAfterHandoffFailure"
          \/ \E a \in Answers : /\ FulfillmentCall(Handed, a)
                                /\ target = IF a = Answer("HANDED_OFF") THEN "MarkOrderConfirmed"
                                            ELSE "RetrieveFulfillmentAfterHandoffFailure"

Sent(e, target) ==
    \/ AfterAnswer(e, target) \/ AfterError(e, target) \/ AfterTiming(e, target)
    \/ AfterStop(e, target) \/ AfterHandoff(e, target)

Moves(e) ==
    \/ Still(e)
    \/ \E target : Sent(e, target) /\ Moved(e, target)
    \/ e \in Replays /\ pc[e] = "absent" /\ pc'[e] = "admitted" /\ BeginReplay(e)
       /\ kind'[e] = kind[e] /\ work'[e] = work[e]
    \/ e \in Replays /\ pc[e] = "admitted" /\ Entered(e)
    \/ /\ e \in Replays /\ pc[e] = "admitted" /\ pc'[e] = "absent"
       /\ kind'[e] = kind[e] /\ work'[e] = work[e]

(* A failed attempt is repeated or sent where its error is caught.         *)
LEMMA ErrorMoves ==
    ASSUME ExecutionsOK, NEW e \in Execs, NEW err, OnError(e, err), pc[e] \in Tasks,
           err = "provider" => Stripe \/ PaymentBegun(Op(e, pc[e])),
           NEW f \in Execs
    PROVE  Moves(f)
  <1>1. CASE UNCHANGED <<pc, kind, work, entry>>
    BY <1>1 DEF Moves, Still
  <1>2. CASE Goto(e, CatchTarget(e, err))
    <2>1. AfterError(e, CatchTarget(e, err))
      BY DEF AfterError
    <2>2. Sent(e, CatchTarget(e, err))
      BY <2>1 DEF Sent
    <2> QED BY <2>2, <1>2, GotoMoves DEF Moves
  <1> QED BY <1>1, <1>2 DEF OnError

LEMMA SentMoves ==
    ASSUME ExecutionsOK, NEW e \in Execs, NEW target, Sent(e, target), Goto(e, target),
           NEW f \in Execs
    PROVE  Moves(f)
  BY GotoMoves DEF Moves

LEMMA CallAtTask == ASSUME NEW e, NEW a, Call(e, a) PROVE pc[e] \in Tasks
  BY DEF Call, Marks, Tasks, PaymentTasks

LEMMA ReplayMoves ==
    ASSUME ExecutionsOK, NEW n \in Replays, Operator(n), NEW f \in Execs
    PROVE  Moves(f)
  <1>1. CASE AdmitReplay(n)
    BY <1>1, ConstantsAre DEF AdmitReplay, ExecutionsOK, Moves, Still
  <1>2. CASE AdmitReplayAgain(n)
    BY <1>2 DEF AdmitReplayAgain, execution, Moves, Still
  <1>3. CASE StartReplay(n)
    BY <1>3, ConstantsAre DEF StartReplay, EnterReplay, Entered, ExecutionsOK, Moves, Still
  <1>4. CASE ReplayStartFails(n)
    BY <1>4, ConstantsAre DEF ReplayStartFails, EnterReplay, Entered, ExecutionsOK, Moves, Still
  <1> QED BY <1>1, <1>2, <1>3, <1>4 DEF Operator

(* Every step, as an execution sees it.                                    *)
LEMMA EveryMove ==
    ASSUME TypeInv, [Next]_vars, NEW f \in Execs
    PROVE  Moves(f)
  <1>a. ExecutionsOK
    BY DEF TypeInv
  <1>1. ASSUME NEW e \in Execs, Step(e) PROVE Moves(f)
    <2>1. CASE Answered(e)
      <3>1. PICK a \in Answers : Call(e, a) /\ Goto(e, Route(e, a))
        BY <2>1 DEF Answered
      <3>2. Sent(e, Route(e, a))
        BY <3>1 DEF Sent, AfterAnswer
      <3> QED BY <3>1, <3>2, <1>a, SentMoves
    <2>2. CASE Refused(e)
      <3>1. PICK err \in {"fatal", "internal"} : OnError(e, err) /\ pc[e] \in Tasks
        BY <2>2 DEF Refused, Marks, Tasks
      <3> QED BY <3>1, <1>a, ErrorMoves
    <2>3. CASE InventoryCommitTiming(e)
      <3>1. PICK target \in {"CommitInventory", "CAPTURED_PAYMENT"} :
                Goto(e, target) /\ pc[e] = "InventoryCommitTiming"
        BY <2>3 DEF InventoryCommitTiming
      <3>2. Sent(e, target)
        BY <3>1 DEF Sent, AfterTiming
      <3> QED BY <3>1, <3>2, <1>a, SentMoves
    <2>4. CASE HandoffFulfillment(e)
      <3>1. Sent(e, "awaiting handoff") /\ Goto(e, "awaiting handoff")
        BY <2>4 DEF HandoffFulfillment, Sent, AfterHandoff
      <3> QED BY <3>1, <1>a, SentMoves
    <2>5. CASE WorkerHeartbeat(e)
      BY <2>5 DEF WorkerHeartbeat, execution, Moves, Still
    <2>6. CASE WorkerHandsOff(e)
      <3>1. PICK a \in Answers :
               /\ FulfillmentCall(Handed, a)
               /\ IF pc[e] = "awaiting handoff"
                  THEN Goto(e, IF a = Answer("HANDED_OFF") THEN "MarkOrderConfirmed"
                               ELSE "RetrieveFulfillmentAfterHandoffFailure")
                  ELSE UNCHANGED execution
        BY <2>6 DEF WorkerHandsOff, Handed
      <3>2. CASE pc[e] # "awaiting handoff"
        BY <3>1, <3>2 DEF execution, Moves, Still
      <3>3. CASE pc[e] = "awaiting handoff"
        <4>1. PICK target : /\ target = IF a = Answer("HANDED_OFF") THEN "MarkOrderConfirmed"
                                        ELSE "RetrieveFulfillmentAfterHandoffFailure"
                            /\ Goto(e, target)
          BY <3>1, <3>3
        <4>2. Sent(e, target)
          BY <4>1, <3>1, <3>3 DEF Sent, AfterHandoff
        <4> QED BY <4>1, <4>2, <1>a, SentMoves
      <3> QED BY <3>2, <3>3
    <2> QED BY <1>1, <2>1, <2>2, <2>3, <2>4, <2>5, <2>6 DEF Step
  <1>2. ASSUME NEW e \in Execs, Trouble(e) PROVE Moves(f)
    <2>1. CASE AnswerLost(e)
      BY <2>1, <1>a, ErrorMoves, CallAtTask DEF AnswerLost
    <2>2. CASE Unreached(e)
      BY <2>2, <1>a, ErrorMoves DEF Unreached
    <2>3. CASE ProviderFails(e)
      <3>1. PICK err : /\ OnError(e, err) /\ pc[e] \in Tasks
                       /\ err = "provider" => Stripe \/ PaymentBegun(Op(e, pc[e]))
        BY <2>3 DEF ProviderFails, Tasks
      <3> QED BY <3>1, <1>a, ErrorMoves
    <2>4. CASE Stop(e)
      <3>1. Sent(e, "Failed") /\ Goto(e, "Failed")
        BY <2>4 DEF Stop, Sent, AfterStop
      <3> QED BY <3>1, <1>a, SentMoves
    <2>5. CASE HandoffTimesOut(e)
      <3>1. /\ Sent(e, "RetrieveFulfillmentAfterHandoffFailure")
            /\ Goto(e, "RetrieveFulfillmentAfterHandoffFailure")
        BY <2>5 DEF HandoffTimesOut, Sent, AfterHandoff
      <3> QED BY <3>1, <1>a, SentMoves
    <2>6. CASE WorkerFails(e)
      BY <2>6 DEF WorkerFails, execution, Moves, Still
    <2> QED BY <1>2, <2>1, <2>2, <2>3, <2>4, <2>5, <2>6 DEF Trouble
  <1>3. ASSUME NEW n \in Replays, Operator(n) PROVE Moves(f)
    BY <1>3, <1>a, ReplayMoves
  <1>4. CASE Background
    BY <1>4 DEF Background, execution, Moves, Still
  <1>5. CASE UNCHANGED vars
    BY <1>5 DEF vars, execution, Moves, Still
  <1> QED BY <1>1, <1>2, <1>3, <1>4, <1>5 DEF Next

(* Every step, as the services see it.                                     *)
Serves ==
    \/ UNCHANGED services
    \/ \E e \in Execs : \E a \in Answers : Call(e, a)
    \/ \E e \in Execs : /\ pc[e] \in PaymentTasks
                        /\ PaymentBegun(Op(e, pc[e])) \/ PaymentUnanswered(Op(e, pc[e]))
    \/ \E e \in Execs : handoff[e] = "working" /\ \E a \in Answers : FulfillmentCall(Handed, a)
    \/ \E n \in Replays : BeginReplay(n) \/ FailReplay(n)
    \/ DeadlinePasses \/ ExpireReservation \/ ExpireOrder

LEMMA EveryService == ASSUME [Next]_vars PROVE Serves
  <1>1. ASSUME NEW e \in Execs, Step(e) PROVE Serves
    BY <1>1 DEF Step, Answered, Refused, InventoryCommitTiming, HandoffFulfillment,
                WorkerHeartbeat, WorkerHandsOff, Serves, Handed
  <1>2. ASSUME NEW e \in Execs, Trouble(e) PROVE Serves
    BY <1>2 DEF Trouble, AnswerLost, Unreached, ProviderFails, Stop, HandoffTimesOut,
                WorkerFails, Serves, Handed
  <1>3. ASSUME NEW n \in Replays, Operator(n) PROVE Serves
    BY <1>3 DEF Operator, AdmitReplay, AdmitReplayAgain, StartReplay, ReplayStartFails, Serves
  <1> QED BY <1>1, <1>2, <1>3 DEF Next, Background, Serves, vars

-----------------------------------------------------------------------------
(***************************************************************************)
(* Types                                                                   *)
(***************************************************************************)
LEMMA ExpectedIs ==
    ASSUME NEW t \in Mutations
    PROVE  /\ Expected(t) \in PayStates \ {"ABSENT", "IN_PROGRESS", "REJECTED"}
           /\ Expected(t) \in ProviderStates \ {"NONE"}
           /\ Prerequisite(t) \in ProviderStates
  BY DEF Expected, Prerequisite, Mutations, PayStates, ProviderStates

LEMMA ProviderType ==
    ASSUME LedgersOK, NEW t \in Mutations, NEW s \in ProviderAnswers(t), ProviderApply(t, s)
    PROVE  /\ payment' \in ProviderStates /\ keys' \in [Mutations -> KeyStates]
           /\ s \in PayStates \ {"ABSENT", "IN_PROGRESS"}
  <1>1. s \in {Expected(t), "REJECTED"}
    BY DEF ProviderAnswers
  <1> QED BY <1>1, ExpectedIs DEF LedgersOK, ServicesOK, ProviderApply, KeyStates, PayStates

LEMMA SettledType ==
    ASSUME LedgersOK
    PROVE  /\ Settled \in [Ops -> PayStates]
           /\ \A o \in Ops : Settled[o] # "IN_PROGRESS"
           /\ \A o \in Ops : o # active => Settled[o] = payOps[o]
           /\ active # NoOp => Settled[active] = Expected(active[1])
  <1>1. CASE active = NoOp
    BY <1>1, ConstantsAre DEF Settled, LedgersOK, ServicesOK
  <1>2. CASE active # NoOp
    <2>1. active \in Ops /\ Expected(active[1]) \in PayStates \ {"ABSENT", "IN_PROGRESS", "REJECTED"}
      BY <1>2, ExpectedIs DEF LedgersOK
    <2>2. Settled = [payOps EXCEPT ![active] = Expected(active[1])]
      BY <1>2 DEF Settled
    <2> QED BY <2>1, <2>2 DEF LedgersOK, ServicesOK
  <1> QED BY <1>1, <1>2

(* The ledger once a command's own operation is written.                   *)
Written(op, s) == [(IF active = op THEN payOps ELSE Settled) EXCEPT ![op] = s]

LEMMA WrittenType ==
    ASSUME LedgersOK, NEW op \in Ops, NEW s \in PayStates
    PROVE  /\ Written(op, s) \in [Ops -> PayStates] /\ Written(op, s)[op] = s
           /\ \A o \in Ops \ {op} : Written(op, s)[o] # "IN_PROGRESS"
           /\ \A o \in Ops \ {op} : o # active => Written(op, s)[o] = payOps[o]
           /\ active \notin {NoOp, op} => Written(op, s)[active] = Expected(active[1])
  BY SettledType DEF Written, LedgersOK, ServicesOK

LEMMA PaymentCallType ==
    ASSUME LedgersOK, NEW op \in Ops, op[1] \in Mutations, NEW a, PaymentCall(op, a)
    PROVE  LedgersOK'
  <1>a. op # NoOp
    BY ConstantsAre
  <1>1. CASE UNCHANGED payVars
    BY <1>1 DEF PaymentCall, LedgersOK, ServicesOK, payVars, orderVars, heldVars, workVars, timeVars
  <1>2. ASSUME NEW s \in ProviderAnswers(op[1]), ProviderApply(op[1], s),
               payOps' = Written(op, s), active' = NoOp
        PROVE  LedgersOK'
    BY <1>2, <1>a, ProviderType, WrittenType, ConstantsAre
       DEF PaymentCall, LedgersOK, ServicesOK, KeyStates, orderVars, heldVars, workVars, timeVars
  <1>3. CASE payOps' = Settled /\ active' = NoOp /\ UNCHANGED <<payment, keys>>
    BY <1>3, SettledType, ConstantsAre
       DEF PaymentCall, LedgersOK, ServicesOK, orderVars, heldVars, workVars, timeVars
  <1> QED BY <1>1, <1>2, <1>3 DEF PaymentCall, Written

LEMMA PaymentTroubleType ==
    ASSUME LedgersOK, NEW op \in Ops, op[1] \in Mutations,
           PaymentBegun(op) \/ PaymentUnanswered(op)
    PROVE  LedgersOK'
  <1>1. payOps' = Written(op, "IN_PROGRESS") /\ active' = op
    BY DEF PaymentBegun, PaymentUnanswered, Written
  <1>2. "IN_PROGRESS" \in PayStates /\ op # NoOp
    BY ConstantsAre DEF PayStates
  <1>3. payment' \in ProviderStates /\ keys' \in [Mutations -> KeyStates]
    BY ExpectedIs DEF PaymentBegun, PaymentUnanswered, ProviderApply, LedgersOK, ServicesOK, KeyStates
  <1>4. UNCHANGED <<orderVars, heldVars, workVars, timeVars>>
    BY DEF PaymentBegun, PaymentUnanswered
  <1> QED BY <1>1, <1>2, <1>3, <1>4, WrittenType
             DEF LedgersOK, ServicesOK, KeyStates, orderVars, heldVars, workVars, timeVars

LEMMA PaymentRetrievedType ==
    ASSUME LedgersOK, NEW a, PaymentRetrieved(a)
    PROVE  LedgersOK'
  <1>1. UNCHANGED <<payment, keys, orderVars, heldVars, workVars, timeVars>>
    BY DEF PaymentRetrieved
  <1>2. CASE payOps' = payOps /\ active' = active
    BY <1>1, <1>2 DEF LedgersOK, ServicesOK, orderVars, heldVars, workVars, timeVars
  <1>3. CASE payOps' = Settled /\ active' = NoOp
    BY <1>1, <1>3, SettledType, ConstantsAre
       DEF LedgersOK, ServicesOK, orderVars, heldVars, workVars, timeVars
  <1>4. CASE active # NoOp /\ payOps' = [payOps EXCEPT ![active] = "REJECTED"] /\ active' = NoOp
    BY <1>1, <1>4, ConstantsAre
       DEF LedgersOK, ServicesOK, PayStates, orderVars, heldVars, workVars, timeVars
  <1> QED BY <1>2, <1>3, <1>4 DEF PaymentRetrieved, Classify

LEMMA HeldCallType ==
    ASSUME LedgersOK, NEW op \in Ops, NEW a \in Answers, InventoryCall(op, a) \/ FulfillmentCall(op, a)
    PROVE  LedgersOK'
  <1>1. UNCHANGED <<orderVars, payVars, workVars, timeVars>>
    BY DEF InventoryCall, FulfillmentCall
  <1>2. /\ results' \in [Ops -> Answers]
        /\ inventory' \in {"NONE", "RESERVED", "COMMITTED", "RELEASED"}
        /\ fulfillment' \in {"NONE", "RESERVED", "CANCELLED", "HANDED_OFF"}
    BY DEF InventoryCall, FulfillmentCall, LedgersOK, ServicesOK, heldVars
  <1> QED BY <1>1, <1>2 DEF LedgersOK, ServicesOK, orderVars, payVars, workVars, timeVars

LEMMA CallType ==
    ASSUME TypeInv, NEW e \in Execs, NEW a \in Answers, Call(e, a)
    PROVE  LedgersOK'
  <1>a. LedgersOK /\ work[e] \in Works \cup {NoWork}
    BY DEF TypeInv, ExecutionsOK
  <1>b. \A t \in Verbs : Op(e, t) \in Ops /\ Op(e, t)[1] = t
    BY OpIsOp
  <1>1. CASE pc[e] = "CreatePendingOrder"
    BY <1>1, <1>a DEF Call, CreateOrder, Marks, PaymentTasks, LedgersOK, ServicesOK, OrderStatuses,
                      heldVars, payVars, workVars, timeVars
  <1>2. CASE pc[e] \in DOMAIN Marks
    <2>1. Marks[pc[e]] \in OrderStatuses /\ MarkOrder(Marks[pc[e]])
      BY <1>2 DEF Call, Marks, PaymentTasks, OrderStatuses
    <2> QED BY <2>1, <1>a DEF MarkOrder, LedgersOK, ServicesOK, heldVars, payVars, workVars, timeVars
  <1>3. CASE pc[e] \in {"ReserveInventory", "CommitInventory", "ReleaseInventory",
                        "ReserveFulfillment", "CancelFulfillment"}
    <2>1. pc[e] \in Verbs /\ (InventoryCall(Op(e, pc[e]), a) \/ FulfillmentCall(Op(e, pc[e]), a))
      BY <1>3 DEF Call, Marks, PaymentTasks, Verbs
    <2> QED BY <2>1, <1>a, <1>b, HeldCallType
  <1>4. CASE pc[e] \in PaymentTasks
    <2>1. pc[e] \in Mutations /\ pc[e] \in Verbs /\ PaymentCall(Op(e, pc[e]), a)
      BY <1>4 DEF Call, Marks, PaymentTasks, Verbs, Mutations
    <2> QED BY <2>1, <1>a, <1>b, PaymentCallType
  <1>5. CASE pc[e] = "RetrievePaymentAfterCaptureFailure"
    BY <1>5, <1>a, PaymentRetrievedType DEF Call, Marks, PaymentTasks
  <1>6. CASE pc[e] = "RetrieveFulfillmentAfterHandoffFailure"
    BY <1>6, <1>a DEF Call, Marks, PaymentTasks, LedgersOK, ServicesOK, services, orderVars,
                      heldVars, payVars, workVars, timeVars
  <1>7. CASE pc[e] = "CreateReconciliation"
    BY <1>7, <1>a DEF Call, Marks, PaymentTasks, CreateWork, LedgersOK, ServicesOK, orderVars,
                      heldVars, payVars, timeVars
  <1>8. CASE pc[e] = "ResolveReconciliation"
    BY <1>8, <1>a DEF Call, Marks, PaymentTasks, ResolveWork, LedgersOK, ServicesOK, orderVars,
                      heldVars, payVars, timeVars
  <1> QED BY <1>1, <1>2, <1>3, <1>4, <1>5, <1>6, <1>7, <1>8 DEF Call, PaymentTasks

LEMMA LedgersStep == ASSUME TypeInv, [Next]_vars PROVE LedgersOK'
  <1>a. LedgersOK
    BY DEF TypeInv
  <1>1. CASE UNCHANGED services
    BY <1>1, <1>a DEF LedgersOK, ServicesOK, services, orderVars, heldVars, payVars, workVars, timeVars
  <1>2. ASSUME NEW e \in Execs, NEW a \in Answers, Call(e, a) PROVE LedgersOK'
    BY <1>2, CallType
  <1>3. ASSUME NEW e \in Execs, pc[e] \in PaymentTasks,
               PaymentBegun(Op(e, pc[e])) \/ PaymentUnanswered(Op(e, pc[e]))
        PROVE  LedgersOK'
    BY <1>3, <1>a, ConstantsAre, OpIsOp, PaymentTroubleType
  <1>4. ASSUME NEW a \in Answers, FulfillmentCall(Handed, a) PROVE LedgersOK'
    BY <1>4, <1>a, CapacityOpIsOp, HeldCallType DEF Handed
  <1>5. ASSUME NEW n \in Replays, BeginReplay(n) \/ FailReplay(n) PROVE LedgersOK'
    BY <1>5, <1>a, ConstantsAre
       DEF BeginReplay, FailReplay, LedgersOK, ServicesOK, Replays, orderVars, heldVars, payVars, timeVars
  <1>6. CASE DeadlinePasses
    BY <1>6, <1>a DEF DeadlinePasses, LedgersOK, ServicesOK, orderVars, heldVars, payVars, workVars
  <1>7. CASE ExpireReservation
    BY <1>7, <1>a DEF ExpireReservation, LedgersOK, ServicesOK, orderVars, payVars, workVars
  <1>8. CASE ExpireOrder
    BY <1>8, <1>a DEF ExpireOrder, LedgersOK, ServicesOK, OrderStatuses, heldVars, payVars, workVars
  <1> QED BY <1>1, <1>2, <1>3, <1>4, <1>5, <1>6, <1>7, <1>8, EveryService DEF Serves

LEMMA RecoveryIs ==
    ASSUME NEW w \in Works \cup {NoWork}
    PROVE  /\ RecoveryStep(w) \in Tasks /\ RecoveryKind(w) \in Kinds
           /\ w \in RecoverWorks \cup {NoWork} => RecoveryStep(w) \in RecoverPoints
           /\ w = "FulfillmentHandoff" => RecoveryStep(w) = "HandoffFulfillment"
           /\ w = "OrderConfirmation" => RecoveryStep(w) = "MarkOrderConfirmed"
           /\ w \in DeliverWorks => RecoveryKind(w) = "NONE"
  BY DEF Works, NoWork, RecoverWorks, DeliverWorks, RecoveryStep, RecoveryKind, FirstCompensation,
         Tasks, PaymentTasks, Kinds, RecoverPoints

LEMMA DestIs ==
    ASSUME NEW target \in Targets
    PROVE  /\ Dest(target) \in Points
           /\ target \in Points => Dest(target) = target
           /\ target \in Kinds => Dest(target) = "MarkOrderCompensating"
           /\ target \in Works => Dest(target) = "MarkOrderReconciliationRequired"
           /\ target \in Points => target \notin Kinds /\ target \notin Works
           /\ target \in Works => target \notin Kinds
  BY DEF Targets, Dest, Points, Kinds, Works, Tasks, PaymentTasks, Ended

(* Where each answer may lead.                                             *)
LEMMA AfterIs ==
    /\ \A s : AfterReservation(s) \in {"AuthorizePayment", "MarkOrderInventoryUnavailable", "Failed"}
    /\ \A s : AfterAuthorization(s) \in {"ReserveFulfillment", "INVENTORY_ONLY", "Failed"}
    /\ \A s : AfterCaptureRetrieval(s) \in {"CAPTURED_PAYMENT", "RESERVED_FULFILLMENT", "Failed"}
    /\ \A a : AfterCommit(a) \in {"HandoffFulfillment", "CAPTURED_PAYMENT"}
    /\ \A a : AfterRelease(a) \in {"MarkOrderCancelled", "InventoryRelease"}
    /\ \A s : AfterRefund(s) \in {"CancelFulfillment", "PaymentRefund"}
    /\ \A e : CancellationWork(e) \in {"CapturedFulfillmentCancellation", "FulfillmentCancellation"}
    /\ \A e, a : AfterCancellation(e, a) \in
          {"ReleaseInventory", "CancelPayment", "FulfillmentHandoff",
           "CapturedFulfillmentCancellation", "FulfillmentCancellation"}
    /\ \A e : Finish(e) \in {"Succeeded", "ResolveReconciliation"}
    /\ \A k : FirstCompensation(k) \in
          {"ReleaseInventory", "CancelPayment", "CancelFulfillment", "RefundPayment"}
  BY DEF AfterReservation, AfterAuthorization, AfterCaptureRetrieval, AfterCommit, AfterRelease,
         AfterRefund, AfterCancellation, CancellationWork, Finish, FirstCompensation

LEMMA TargetsAre ==
    /\ Tasks \subseteq Targets /\ Works \subseteq Targets /\ Kinds \subseteq Targets
    /\ Ended \subseteq Targets /\ {"InventoryCommitTiming", "awaiting handoff"} \subseteq Targets
    /\ {"INVENTORY_ONLY", "PAYMENT_AUTHORIZATION", "RESERVED_FULFILLMENT", "CAPTURED_PAYMENT"}
          \subseteq Targets
    /\ {"ReserveInventory", "AuthorizePayment", "ReserveFulfillment", "CapturePayment",
        "RetrievePaymentAfterCaptureFailure", "MarkOrderInventoryUnavailable",
        "HandoffFulfillment", "MarkOrderConfirmed", "CommitInventory",
        "RetrieveFulfillmentAfterHandoffFailure"} \subseteq Targets
    /\ {"ReleaseInventory", "CancelPayment", "CancelFulfillment", "RefundPayment",
        "MarkOrderCancelled", "CreateReconciliation", "ResolveReconciliation"} \subseteq Targets
    /\ {"InventoryRelease", "PaymentCancellation", "FulfillmentCancellation", "PaymentRefund",
        "CapturedFulfillmentCancellation", "FulfillmentHandoff", "OrderConfirmation"} \subseteq Targets
    /\ {"Succeeded", "Failed"} \subseteq Targets
  BY DEF Targets, Points, Kinds, Works, Tasks, PaymentTasks, Ended

LEMMA SentType ==
    ASSUME TypeInv, NEW e \in Execs, NEW target, Sent(e, target)
    PROVE  target \in Targets
  <1>1. CASE AfterAnswer(e, target)
    <2>1. PICK a \in Answers : Call(e, a) /\ target = Route(e, a)
      BY <1>1 DEF AfterAnswer
    <2>2. pc[e] \in Tasks \ {"HandoffFulfillment"}
      BY <2>1 DEF Call, Marks, Tasks, PaymentTasks
    <2>3. CASE pc[e] \in {"CreatePendingOrder", "ReserveInventory", "AuthorizePayment",
                          "ReserveFulfillment", "CapturePayment"}
      <3>1. target \in {"ReserveInventory", "AuthorizePayment", "MarkOrderInventoryUnavailable",
                        "Failed", "ReserveFulfillment", "INVENTORY_ONLY", "CapturePayment",
                        "PAYMENT_AUTHORIZATION", "InventoryCommitTiming",
                        "RetrievePaymentAfterCaptureFailure"}
        BY <2>1, <2>3, RouteIs, AfterIs
      <3> QED BY <3>1, TargetsAre
    <2>4. CASE pc[e] \in {"RetrievePaymentAfterCaptureFailure", "CommitInventory",
                          "RetrieveFulfillmentAfterHandoffFailure", "MarkOrderConfirmed",
                          "MarkOrderCancelled", "MarkOrderCompensating"}
      <3>1. target \in {"CAPTURED_PAYMENT", "RESERVED_FULFILLMENT", "Failed", "HandoffFulfillment",
                        "MarkOrderConfirmed", "FulfillmentHandoff", "Succeeded",
                        "ResolveReconciliation", "ReleaseInventory", "CancelPayment",
                        "CancelFulfillment", "RefundPayment"}
        BY <2>1, <2>4, RouteIs, AfterIs
      <3> QED BY <3>1, TargetsAre
    <2>5. CASE pc[e] \in {"MarkOrderReconciliationRequired", "CreateReconciliation",
                          "MarkOrderInventoryUnavailable", "ResolveReconciliation",
                          "ReleaseInventory", "CancelPayment"}
      <3>1. target \in {"CreateReconciliation", "Succeeded", "Failed", "MarkOrderCancelled",
                        "InventoryRelease", "ReleaseInventory", "PaymentCancellation"}
        BY <2>1, <2>5, RouteIs, AfterIs
      <3> QED BY <3>1, TargetsAre
    <2>6. CASE pc[e] \in {"RefundPayment", "CancelFulfillment"}
      <3>1. target \in {"CancelFulfillment", "PaymentRefund", "ReleaseInventory", "CancelPayment",
                        "FulfillmentHandoff", "CapturedFulfillmentCancellation",
                        "FulfillmentCancellation"}
        BY <2>1, <2>6, RouteIs, AfterIs
      <3> QED BY <3>1, TargetsAre
    <2> QED BY <2>2, <2>3, <2>4, <2>5, <2>6 DEF Tasks, PaymentTasks
  <1>2. CASE AfterError(e, target)
    <2>1. PICK err : target = CatchTarget(e, err)
      BY <1>2 DEF AfterError
    <2>2. target \in {"INVENTORY_ONLY", "Failed", "RetrievePaymentAfterCaptureFailure",
                      "CAPTURED_PAYMENT", "RetrieveFulfillmentAfterHandoffFailure",
                      "FulfillmentHandoff", "OrderConfirmation", "InventoryRelease",
                      "PaymentCancellation", "PaymentRefund", "CapturedFulfillmentCancellation",
                      "FulfillmentCancellation"}
      BY <2>1, CatchIs, AfterIs
    <2> QED BY <2>2, TargetsAre
  <1>3. CASE AfterTiming(e, target) \/ AfterStop(e, target) \/ AfterHandoff(e, target)
    BY <1>3 DEF AfterTiming, AfterStop, AfterHandoff, Targets, Points, Kinds, Tasks, Ended
  <1> QED BY <1>1, <1>2, <1>3 DEF Sent

LEMMA MovesType ==
    ASSUME TypeInv, NEW e \in Execs, Moves(e)
    PROVE  /\ pc'[e] \in Points /\ kind'[e] \in Kinds /\ work'[e] \in Works \cup {NoWork}
           /\ e = 0 => (pc'[e] = pc[e] /\ entry'[e] = entry[e]) \/ entry'[e] = FALSE
  <1>a. pc[e] \in Points /\ kind[e] \in Kinds /\ work[e] \in Works \cup {NoWork}
        /\ openWork \in Works \cup {NoWork}
    BY DEF TypeInv, LedgersOK, ServicesOK, ExecutionsOK
  <1>1. CASE Still(e)
    BY <1>1, <1>a DEF Still
  <1>2. ASSUME NEW target, Sent(e, target), Moved(e, target)
        PROVE  /\ pc'[e] \in Points /\ kind'[e] \in Kinds /\ work'[e] \in Works \cup {NoWork}
               /\ entry'[e] = FALSE
    BY <1>2, <1>a, SentType, DestIs DEF Moved
  <1>3. CASE Entered(e) /\ e \in Replays
    BY <1>3, <1>a, RecoveryIs, ConstantsAre DEF Entered, Points
  <1> QED BY <1>1, <1>2, <1>3, <1>a, ConstantsAre DEF Moves, Points

(* The executions' variables stay functions, and no attempt is the fourth. *)
OverExecs ==
    /\ pc = [x \in Execs |-> pc[x]]
    /\ kind = [x \in Execs |-> kind[x]]
    /\ work = [x \in Execs |-> work[x]]
    /\ entry = [x \in Execs |-> entry[x]] /\ \A x \in Execs : entry[x] \in BOOLEAN
    /\ attempt \in [Execs -> 0..(MaxAttempts - 1)]

LEMMA OverInit == ASSUME ExecutionsOK PROVE OverExecs
  BY DEF ExecutionsOK, OverExecs

LEMMA OverGoto ==
    ASSUME OverExecs, NEW e \in Execs, NEW target, Goto(e, target)
    PROVE  OverExecs'
  <1>1. attempt' \in [Execs -> 0..(MaxAttempts - 1)]
    BY DEF OverExecs, Goto, MaxAttempts
  <1>2. \E p : pc' = [pc EXCEPT ![e] = p]
    BY DEF Goto
  <1>3. \E k : kind' = kind \/ kind' = [kind EXCEPT ![e] = k]
    BY DEF Goto
  <1>4. \E w : work' = work \/ work' = [work EXCEPT ![e] = w]
    BY DEF Goto
  <1>5. entry' = [entry EXCEPT ![e] = FALSE]
    BY DEF Goto
  <1>6. pc' = [x \in Execs |-> pc'[x]]
    BY <1>2 DEF OverExecs
  <1>7. kind' = [x \in Execs |-> kind'[x]]
    BY <1>3 DEF OverExecs
  <1>8. work' = [x \in Execs |-> work'[x]]
    BY <1>4 DEF OverExecs
  <1>9. entry' = [x \in Execs |-> entry'[x]] /\ \A x \in Execs : entry'[x] \in BOOLEAN
    BY <1>5 DEF OverExecs
  <1> QED BY <1>1, <1>6, <1>7, <1>8, <1>9 DEF OverExecs

LEMMA OverError ==
    ASSUME OverExecs, NEW e \in Execs, NEW err, OnError(e, err)
    PROVE  OverExecs'
  <1>1. CASE Goto(e, CatchTarget(e, err))
    BY <1>1, OverGoto
  <1>2. CASE /\ attempt[e] + 1 < MaxAttempts
             /\ attempt' = [attempt EXCEPT ![e] = @ + 1]
             /\ UNCHANGED <<pc, kind, work, entry>>
    BY <1>2 DEF OverExecs, MaxAttempts
  <1> QED BY <1>1, <1>2 DEF OnError

LEMMA OverEnter ==
    ASSUME OverExecs, NEW n \in Execs, EnterReplay(n)
    PROVE  OverExecs'
  BY DEF OverExecs, EnterReplay

LEMMA OverSame == ASSUME OverExecs, UNCHANGED execution PROVE OverExecs'
  BY DEF OverExecs, execution

LEMMA OverAdmit ==
    ASSUME OverExecs, NEW n \in Execs, NEW p, pc' = [pc EXCEPT ![n] = p],
           UNCHANGED <<attempt, kind, work, entry>>
    PROVE  OverExecs'
  BY DEF OverExecs

LEMMA OverStep == ASSUME OverExecs, [Next]_vars PROVE OverExecs'
  <1>1. ASSUME NEW e \in Execs, Step(e) PROVE OverExecs'
    BY <1>1, OverGoto, OverError, OverSame
       DEF Step, Answered, Refused, InventoryCommitTiming, HandoffFulfillment,
           WorkerHeartbeat, WorkerHandsOff
  <1>2. ASSUME NEW e \in Execs, Trouble(e) PROVE OverExecs'
    BY <1>2, OverGoto, OverError, OverSame
       DEF Trouble, AnswerLost, Unreached, ProviderFails, Stop, HandoffTimesOut, WorkerFails
  <1>3. ASSUME NEW n \in Replays, Operator(n) PROVE OverExecs'
    BY <1>3, OverEnter, OverAdmit, OverSame, ConstantsAre
       DEF Operator, AdmitReplay, AdmitReplayAgain, StartReplay, ReplayStartFails
  <1>4. CASE Background \/ UNCHANGED vars
    BY <1>4, OverSame DEF Background, vars
  <1> QED BY <1>1, <1>2, <1>3, <1>4 DEF Next

LEMMA ExecutionsStep == ASSUME TypeInv, [Next]_vars PROVE ExecutionsOK'
  <1>1. ExecutionsOK /\ OverExecs'
    BY OverInit, OverStep DEF TypeInv
  <1>2. ASSUME NEW e \in Execs
        PROVE  /\ pc'[e] \in Points /\ kind'[e] \in Kinds /\ work'[e] \in Works \cup {NoWork}
               /\ e = 0 => (pc'[e] = pc[e] /\ entry'[e] = entry[e]) \/ entry'[e] = FALSE
    BY EveryMove, MovesType
  <1>3. entry'[0] = FALSE
    BY <1>1, <1>2, ConstantsAre DEF ExecutionsOK
  <1> QED BY <1>1, <1>2, <1>3 DEF OverExecs, ExecutionsOK

LEMMA CountersStep ==
    ASSUME TypeInv, [Next]_vars
    PROVE  CountersOK' /\ handoff' \in [Execs -> {"none", "queued", "working"}]
  <1>a. /\ faults \in 0..MaxFaults /\ crashes \in 0..MaxCrashes
        /\ handoff \in [Execs -> {"none", "queued", "working"}]
        /\ MaxFaults \in Nat /\ MaxCrashes \in Nat
    BY ConstantsAre DEF TypeInv, CountersOK
  <1>1. ASSUME NEW e \in Execs, Step(e)
        PROVE  CountersOK' /\ handoff' \in [Execs -> {"none", "queued", "working"}]
    BY <1>1, <1>a DEF Step, Answered, Refused, InventoryCommitTiming, HandoffFulfillment,
                      WorkerHeartbeat, WorkerHandsOff, NoFault, counters, CountersOK
  <1>2. ASSUME NEW e \in Execs, Trouble(e)
        PROVE  CountersOK' /\ handoff' \in [Execs -> {"none", "queued", "working"}]
    <2>1. (Fault \/ (crashes < MaxCrashes /\ crashes' = crashes + 1 /\ UNCHANGED faults))
      BY <1>2 DEF Trouble, AnswerLost, Unreached, ProviderFails, Stop, HandoffTimesOut, WorkerFails
    <2>2. UNCHANGED handoff \/ handoff' = [handoff EXCEPT ![e] = "queued"]
      BY <1>2 DEF Trouble, AnswerLost, Unreached, ProviderFails, Stop, HandoffTimesOut, WorkerFails
    <2> QED BY <2>1, <2>2, <1>a DEF Fault, CountersOK
  <1>3. ASSUME NEW n \in Replays, Operator(n)
        PROVE  CountersOK' /\ handoff' \in [Execs -> {"none", "queued", "working"}]
    BY <1>3, <1>a DEF Operator, AdmitReplay, AdmitReplayAgain, StartReplay, ReplayStartFails,
                      Fault, NoFault, counters, CountersOK
  <1>4. CASE Background \/ UNCHANGED vars
    BY <1>4, <1>a DEF Background, vars, counters, CountersOK
  <1> QED BY <1>1, <1>2, <1>3, <1>4 DEF Next

LEMMA TypeInit == Init => TypeInv
  <1> SUFFICES ASSUME Init PROVE TypeInv
    OBVIOUS
  <1>1. ServicesOK
    <2>1. \A o \in Ops : payOps[o] = "IN_PROGRESS" <=> active = o
      BY ConstantsAre DEF Init, ServicesInit
    <2>2. replayer \in 0..MaxReplays /\ \A t \in Mutations : keys[t] \in {"NONE", "APPLIED", "REJECTED"}
      BY ConstantsAre DEF Init, ServicesInit
    <2> QED BY <2>1, <2>2 DEF Init, ServicesInit, ServicesOK, OrderStatuses, ProviderStates
  <1>2. NoAnswer \in Answers
    BY DEF Answers, NoAnswer, OrderStatuses
  <1>3. LedgersOK
    BY <1>1, <1>2 DEF Init, ServicesInit, LedgersOK, KeyStates, PayStates
  <1>4. ExecutionsOK /\ CountersOK /\ handoff \in [Execs -> {"none", "queued", "working"}]
    BY ConstantsAre DEF Init, ExecutionsOK, CountersOK, Points, Tasks, Kinds, MaxAttempts
  <1> QED BY <1>3, <1>4 DEF TypeInv

LEMMA TypeStep == TypeInv /\ [Next]_vars => TypeInv'
  BY LedgersStep, ExecutionsStep, CountersStep DEF TypeInv

(* The services' records, every execution and the queue keep their shape:  *)
(* no task is attempted a fourth time, and an operation is in progress     *)
(* exactly while it is the payment's active one.                           *)
THEOREM TypeIsCorrect == Spec => []TypeOK
  <1>1. TypeInv => TypeOK
    BY DEF TypeInv, LedgersOK, ExecutionsOK, CountersOK, TypeOK
  <1> QED BY <1>1, TypeInit, TypeStep, PTL DEF Spec

-----------------------------------------------------------------------------
(***************************************************************************)
(* The order and the work on record                                        *)
(***************************************************************************)
(* Who may change the order: its creation, a marking task, the expiry.     *)
OrderStep ==
    \/ UNCHANGED orderVars
    \/ order = "NONE" /\ order' = "PENDING" /\ UNCHANGED ordered
    \/ order = "PENDING" /\ order' = "EXPIRED" /\ UNCHANGED ordered
    \/ \E e \in Execs : pc[e] \in DOMAIN Marks /\ MarkOrder(Marks[pc[e]])

LEMMA CallOrder == ASSUME NEW e \in Execs, NEW a, Call(e, a) PROVE OrderStep
  BY DEF Call, CreateOrder, InventoryCall, FulfillmentCall, PaymentCall, PaymentRetrieved, CreateWork,
         ResolveWork, services, OrderStep, orderVars

LEMMA OrderSteps == ASSUME [Next]_vars PROVE OrderStep
  <1>1. ASSUME NEW e \in Execs, PaymentBegun(Op(e, pc[e])) \/ PaymentUnanswered(Op(e, pc[e]))
        PROVE  OrderStep
    BY <1>1 DEF PaymentBegun, PaymentUnanswered, OrderStep
  <1>2. ASSUME NEW a, FulfillmentCall(Handed, a) PROVE OrderStep
    BY <1>2 DEF FulfillmentCall, OrderStep
  <1>3. ASSUME NEW n, BeginReplay(n) \/ FailReplay(n) PROVE OrderStep
    BY <1>3 DEF BeginReplay, FailReplay, OrderStep
  <1>4. CASE DeadlinePasses \/ ExpireReservation \/ ExpireOrder
    BY <1>4 DEF DeadlinePasses, ExpireReservation, ExpireOrder, OrderStep
  <1>5. CASE UNCHANGED services
    BY <1>5 DEF services, OrderStep
  <1> QED BY <1>1, <1>2, <1>3, <1>4, <1>5, CallOrder, EveryService DEF Serves

(* Who may change the work on record.                                      *)
RecordStep ==
    \/ UNCHANGED <<record, openWork>>
    \/ \E e \in Execs, a \in Answers : pc[e] = "CreateReconciliation" /\ CreateWork(work[e], a)
    \/ \E e \in Execs : pc[e] = "ResolveReconciliation" /\ ResolveWork
    \/ /\ record \in {"RECONCILIATION_REQUIRED", "REPLAYING"}
       /\ record' \in {"RECONCILIATION_REQUIRED", "REPLAYING"} /\ UNCHANGED openWork

LEMMA RecordSteps == ASSUME [Next]_vars PROVE RecordStep
  <1>1. ASSUME NEW e \in Execs, NEW a \in Answers, Call(e, a) PROVE RecordStep
    <2>1. \/ UNCHANGED workVars
          \/ pc[e] = "CreateReconciliation" /\ CreateWork(work[e], a)
          \/ pc[e] = "ResolveReconciliation" /\ ResolveWork
      BY <1>1 DEF Call, CreateOrder, MarkOrder, InventoryCall, FulfillmentCall, PaymentCall,
                  PaymentRetrieved, services
    <2> QED BY <2>1 DEF RecordStep, workVars
  <1>2. ASSUME NEW e \in Execs, PaymentBegun(Op(e, pc[e])) \/ PaymentUnanswered(Op(e, pc[e]))
        PROVE  RecordStep
    BY <1>2 DEF PaymentBegun, PaymentUnanswered, RecordStep, workVars
  <1>3. ASSUME NEW a, FulfillmentCall(Handed, a) PROVE RecordStep
    BY <1>3 DEF FulfillmentCall, RecordStep, workVars
  <1>4. ASSUME NEW n, BeginReplay(n) \/ FailReplay(n) PROVE RecordStep
    BY <1>4 DEF BeginReplay, FailReplay, RecordStep
  <1>5. CASE DeadlinePasses \/ ExpireReservation \/ ExpireOrder \/ UNCHANGED services
    BY <1>5 DEF DeadlinePasses, ExpireReservation, ExpireOrder, services, RecordStep, workVars
  <1> QED BY <1>1, <1>2, <1>3, <1>4, <1>5, EveryService DEF Serves

Finals == {"CONFIRMED", "CANCELLED", "INVENTORY_UNAVAILABLE"}
Known == {"RECONCILIATION_REQUIRED", "CONFIRMED", "CANCELLED"}

LEMMA MarkGoesForward ==
    ASSUME OrderInv, NEW t \in {"CONFIRMED", "INVENTORY_UNAVAILABLE", "COMPENSATING", "CANCELLED",
                                "RECONCILIATION_REQUIRED"},
           MarkOrder(t)
    PROVE  /\ OrderInv' /\ t \in ordered'
           /\ order \in Finals => order' = order
           /\ order \in Known => order' \in Known
           /\ order' \in {order, t}
  <1>1. CASE t \in ordered
    BY <1>1 DEF MarkOrder, OrderInv, Finals, Known
  <1>2. CASE t \notin ordered
    BY <1>2 DEF MarkOrder, OrderAllows, RequiredStatus, OrderInv, Finals, Known
  <1> QED BY <1>1, <1>2

LEMMA MarksAre ==
    /\ DOMAIN Marks = {"MarkOrderConfirmed", "MarkOrderInventoryUnavailable", "MarkOrderCompensating",
                       "MarkOrderCancelled", "MarkOrderReconciliationRequired"}
    /\ Marks["MarkOrderConfirmed"] = "CONFIRMED"
    /\ Marks["MarkOrderInventoryUnavailable"] = "INVENTORY_UNAVAILABLE"
    /\ Marks["MarkOrderCompensating"] = "COMPENSATING"
    /\ Marks["MarkOrderCancelled"] = "CANCELLED"
    /\ Marks["MarkOrderReconciliationRequired"] = "RECONCILIATION_REQUIRED"
  BY DEF Marks

(* A final order stays, one with work on record goes only to final.        *)
LEMMA OrderForward ==
    ASSUME OrderInv, OrderStep
    PROVE  /\ OrderInv'
           /\ order \in Finals => order' = order
           /\ order \in Known => order' \in Known
  <1>1. ASSUME NEW e \in Execs, pc[e] \in DOMAIN Marks, MarkOrder(Marks[pc[e]])
        PROVE  /\ OrderInv'
               /\ order \in Finals => order' = order
               /\ order \in Known => order' \in Known
    <2>1. Marks[pc[e]] \in {"CONFIRMED", "INVENTORY_UNAVAILABLE", "COMPENSATING", "CANCELLED",
                            "RECONCILIATION_REQUIRED"}
      BY <1>1, MarksAre
    <2> QED BY <2>1, <1>1, MarkGoesForward
  <1>2. CASE UNCHANGED orderVars
    BY <1>2 DEF OrderInv, orderVars
  <1>3. CASE order = "NONE" /\ order' = "PENDING" /\ UNCHANGED ordered
    BY <1>3 DEF OrderInv, Finals, Known
  <1>4. CASE order = "PENDING" /\ order' = "EXPIRED" /\ UNCHANGED ordered
    BY <1>4 DEF OrderInv, Finals, Known
  <1> QED BY <1>1, <1>2, <1>3, <1>4 DEF OrderStep

(* Which answers lead to an end, to a record or to its resolution.         *)
LEMMA CloseSources ==
    ASSUME TypeInv, NEW e \in Execs, NEW target, Sent(e, target)
    PROVE  /\ target \notin {"MarkOrderReconciliationRequired", "absent", "admitted"}
           /\ target = "CreateReconciliation" =>
                 pc[e] = "MarkOrderReconciliationRequired" /\ \E a \in Answers : Call(e, a)
           /\ target = "ResolveReconciliation" =>
                 pc[e] \in {"MarkOrderConfirmed", "MarkOrderCancelled"} /\ \E a \in Answers : Call(e, a)
           /\ target = "Succeeded" =>
                 \E a \in Answers :
                    /\ Call(e, a)
                    /\ \/ pc[e] \in {"MarkOrderConfirmed", "MarkOrderCancelled",
                                     "MarkOrderInventoryUnavailable", "ResolveReconciliation"}
                       \/ pc[e] = "CreateReconciliation" /\ a[1] = "RECONCILIATION_REQUIRED"
  <1>1. CASE AfterAnswer(e, target)
    <2>1. PICK a \in Answers : Call(e, a) /\ target = Route(e, a)
      BY <1>1 DEF AfterAnswer
    <2>2. pc[e] \in Tasks \ {"HandoffFulfillment"}
      BY <2>1 DEF Call, Marks, Tasks, PaymentTasks
    <2>3. CASE pc[e] \in {"CreatePendingOrder", "ReserveInventory", "AuthorizePayment",
                          "ReserveFulfillment", "CapturePayment",
                          "RetrievePaymentAfterCaptureFailure", "CommitInventory"}
      <3>1. target \notin {"CreateReconciliation", "ResolveReconciliation", "Succeeded",
                           "MarkOrderReconciliationRequired", "absent", "admitted"}
        BY <2>1, <2>3, RouteIs, AfterIs
      <3> QED BY <3>1
    <2>4. CASE pc[e] \in {"RetrieveFulfillmentAfterHandoffFailure", "MarkOrderCompensating",
                          "ReleaseInventory", "CancelPayment", "RefundPayment", "CancelFulfillment"}
      <3>1. target \notin {"CreateReconciliation", "ResolveReconciliation", "Succeeded",
                           "MarkOrderReconciliationRequired", "absent", "admitted"}
        BY <2>1, <2>4, RouteIs, AfterIs
      <3> QED BY <3>1
    <2>5. CASE pc[e] \in {"MarkOrderConfirmed", "MarkOrderCancelled"}
      <3>1. target \in {"Succeeded", "ResolveReconciliation"}
        BY <2>1, <2>5, RouteIs, AfterIs
      <3> QED BY <3>1, <2>1, <2>5
    <2>6. CASE pc[e] \in {"MarkOrderReconciliationRequired", "MarkOrderInventoryUnavailable",
                          "ResolveReconciliation", "CreateReconciliation"}
      <3>1. /\ pc[e] = "MarkOrderReconciliationRequired" => target = "CreateReconciliation"
            /\ pc[e] \in {"MarkOrderInventoryUnavailable", "ResolveReconciliation"} => target = "Succeeded"
            /\ pc[e] = "CreateReconciliation" =>
                  target = IF a[1] = "RECONCILIATION_REQUIRED" THEN "Succeeded" ELSE "Failed"
        BY <2>1, RouteIs
      <3> QED BY <3>1, <2>1, <2>6
    <2> QED BY <2>2, <2>3, <2>4, <2>5, <2>6 DEF Tasks, PaymentTasks
  <1>2. CASE AfterError(e, target)
    <2>1. PICK err : target = CatchTarget(e, err)
      BY <1>2 DEF AfterError
    <2> QED BY <2>1, CatchIs, AfterIs
  <1>3. CASE AfterTiming(e, target) \/ AfterStop(e, target) \/ AfterHandoff(e, target)
    BY <1>3 DEF AfterTiming, AfterStop, AfterHandoff
  <1> QED BY <1>1, <1>2, <1>3 DEF Sent

LEMMA RecordForward ==
    ASSUME TypeInv, RecordInv, [Next]_vars
    PROVE  /\ OrderInv' /\ WorkIsVisible'
           /\ order \in Finals => order' = order
           /\ order \in Known => order' \in Known
           /\ record # "NONE" => record' # "NONE"
           /\ record' # "NONE" => openWork' # NoWork
           /\ openWork # NoWork => openWork' = openWork
  <1>1. /\ OrderInv'
        /\ order \in Finals => order' = order
        /\ order \in Known => order' \in Known
    BY OrderSteps, OrderForward DEF RecordInv
  <1>2. RecordStep /\ WorkIsVisible /\ (record # "NONE" => openWork # NoWork)
    BY RecordSteps DEF RecordInv
  <1>3. CASE UNCHANGED <<record, openWork>>
    BY <1>1, <1>2, <1>3 DEF WorkIsVisible, Finals, Known
  <1>4. ASSUME NEW e \in Execs, NEW a, pc[e] = "CreateReconciliation", CreateWork(work[e], a)
        PROVE  /\ WorkIsVisible' /\ record' # "NONE" /\ openWork' # NoWork
               /\ openWork # NoWork => openWork' = openWork
    <2>1. order \in Known /\ work[e] # NoWork
      BY <1>4 DEF RecordInv, Marked, Known
    <2> QED BY <2>1, <1>1, <1>2, <1>4 DEF CreateWork, WorkIsVisible, Finals, Known
  <1>5. ASSUME NEW e \in Execs, pc[e] = "ResolveReconciliation", ResolveWork
        PROVE  WorkIsVisible' /\ record' # "NONE" /\ record # "NONE" /\ openWork' = openWork
    <2>1. order \in {"CONFIRMED", "CANCELLED"}
      BY <1>5 DEF RecordInv, Marked
    <2> QED BY <2>1, <1>1, <1>5 DEF ResolveWork, MayResolve, WorkIsVisible, Finals
  <1>6. CASE /\ record \in {"RECONCILIATION_REQUIRED", "REPLAYING"}
             /\ record' \in {"RECONCILIATION_REQUIRED", "REPLAYING"} /\ UNCHANGED openWork
    BY <1>1, <1>2, <1>6 DEF WorkIsVisible, Finals, Known
  <1> QED BY <1>1, <1>2, <1>3, <1>4, <1>5, <1>6 DEF RecordStep

Accounted == order \in Finals \/ (order = "RECONCILIATION_REQUIRED" /\ record # "NONE")

(* An answered mark is on the order's record; created work is on record.   *)
LEMMA AnsweredClose ==
    ASSUME TypeInv, RecordInv, [Next]_vars, NEW e \in Execs, NEW a \in Answers, Call(e, a)
    PROVE  /\ pc[e] = "MarkOrderReconciliationRequired" => order' \in Known
           /\ pc[e] = "MarkOrderConfirmed" => order' = "CONFIRMED"
           /\ pc[e] = "MarkOrderCancelled" => order' = "CANCELLED"
           /\ pc[e] = "MarkOrderInventoryUnavailable" => order' = "INVENTORY_UNAVAILABLE"
           /\ pc[e] = "CreateReconciliation" => record' # "NONE"
  <1>1. ASSUME pc[e] \in DOMAIN Marks PROVE Marks[pc[e]] \in ordered' /\ OrderInv'
    <2>1. MarkOrder(Marks[pc[e]])
      BY <1>1, MarksAre DEF Call, PaymentTasks
    <2>2. Marks[pc[e]] \in {"CONFIRMED", "INVENTORY_UNAVAILABLE", "COMPENSATING", "CANCELLED",
                            "RECONCILIATION_REQUIRED"}
      BY <1>1, MarksAre
    <2> QED BY <2>1, <2>2, MarkGoesForward DEF RecordInv
  <1>2. pc[e] = "CreateReconciliation" => record' # "NONE"
    BY DEF Call, PaymentTasks, Marks, CreateWork
  <1> QED BY <1>1, <1>2, MarksAre DEF OrderInv, Known

LEMMA RecordStepOf ==
    ASSUME TypeInv, RecordInv, [Next]_vars, NEW e \in Execs
    PROVE  Marked(e)' /\ (pc'[e] = "Succeeded" => Accounted')
  <1>a. /\ Marked(e) /\ (pc[e] = "Succeeded" => Accounted)
        /\ work[e] \in Works \cup {NoWork} /\ openWork \in Works \cup {NoWork}
    BY DEF RecordInv, SuccessIsAccounted, Accounted, Finals, TypeInv, ExecutionsOK, LedgersOK, ServicesOK
  <1>b. /\ order \in Finals => order' = order
        /\ order \in Known => order' \in Known
        /\ record # "NONE" => record' # "NONE"
    BY RecordForward
  <1>c. Accounted => Accounted'
    BY <1>b DEF Accounted, Finals, Known
  <1>1. CASE Still(e)
    BY <1>1, <1>a, <1>b, <1>c DEF Still, Marked, Finals, Known
  <1>2. ASSUME NEW target, Sent(e, target), Moved(e, target)
        PROVE  Marked(e)' /\ (pc'[e] = "Succeeded" => Accounted')
    <2>1. target \in Targets /\ pc'[e] = Dest(target) /\ (target \in Works => work'[e] = target)
      BY <1>2, SentType DEF Moved
    <2>2. CASE target \in Works
      BY <2>1, <2>2, DestIs DEF Marked, Works, NoWork
    <2>3. CASE target \in Kinds
      BY <2>1, <2>3, DestIs DEF Marked
    <2>4. CASE target \in Points
      <3>1. pc'[e] = target /\ target \notin {"MarkOrderReconciliationRequired", "admitted"}
        BY <2>1, <2>4, <1>2, DestIs, CloseSources
      <3>2. CASE target = "CreateReconciliation"
        <4>1. pc[e] = "MarkOrderReconciliationRequired" /\ \E a \in Answers : Call(e, a)
          BY <3>2, <1>2, CloseSources
        <4>2. order' \in Known /\ work[e] # NoWork
          BY <4>1, <1>a, AnsweredClose DEF Marked
        <4>3. work'[e] = work[e]
          BY <1>2, <2>4, <2>1, DestIs DEF Moved
        <4> QED BY <3>1, <3>2, <4>2, <4>3 DEF Marked, Known
      <3>3. CASE target = "ResolveReconciliation"
        <4>1. pc[e] \in {"MarkOrderConfirmed", "MarkOrderCancelled"} /\ \E a \in Answers : Call(e, a)
          BY <3>3, <1>2, CloseSources
        <4>2. order' \in {"CONFIRMED", "CANCELLED"}
          BY <4>1, AnsweredClose
        <4> QED BY <3>1, <3>3, <4>2 DEF Marked
      <3>4. CASE target = "Succeeded"
        <4>1. PICK a \in Answers :
                 /\ Call(e, a)
                 /\ \/ pc[e] \in {"MarkOrderConfirmed", "MarkOrderCancelled",
                                  "MarkOrderInventoryUnavailable", "ResolveReconciliation"}
                    \/ pc[e] = "CreateReconciliation" /\ a[1] = "RECONCILIATION_REQUIRED"
          BY <3>4, <1>2, CloseSources
        <4>2. CASE pc[e] = "ResolveReconciliation"
          <5>1. order \in Finals
            BY <4>2, <1>a DEF Marked, Finals
          <5> QED BY <5>1, <1>b, <3>1, <3>4 DEF Accounted, Marked
        <4>3. CASE pc[e] = "CreateReconciliation"
          <5>1. order \in Known /\ record' # "NONE"
            BY <4>1, <4>3, <1>a, AnsweredClose DEF Marked, Known
          <5> QED BY <5>1, <1>b, <3>1, <3>4 DEF Accounted, Marked, Known, Finals
        <4>4. CASE pc[e] \in {"MarkOrderConfirmed", "MarkOrderCancelled", "MarkOrderInventoryUnavailable"}
          <5>1. order' \in Finals
            BY <4>1, <4>4, AnsweredClose DEF Finals
          <5> QED BY <5>1, <3>1, <3>4 DEF Accounted, Marked
        <4> QED BY <4>1, <4>2, <4>3, <4>4
      <3> QED BY <3>1, <3>2, <3>3, <3>4 DEF Marked
    <2> QED BY <2>1, <2>2, <2>3, <2>4 DEF Targets
  <1>3. CASE pc'[e] = "admitted" /\ BeginReplay(e)
    BY <1>3 DEF BeginReplay, Marked
  <1>4. CASE Entered(e)
    BY <1>4, <1>a, RecoveryIs DEF Entered, Marked, RecoveryStep, FirstCompensation
  <1>5. CASE pc'[e] = "absent"
    BY <1>5 DEF Marked
  <1> QED BY <1>1, <1>2, <1>3, <1>4, <1>5, EveryMove DEF Moves

LEMMA RecordInit == Init => RecordInv
  <1> SUFFICES ASSUME Init PROVE RecordInv
    OBVIOUS
  <1>1. \A e \in Execs : pc[e] \in {"CreatePendingOrder", "absent"}
    BY DEF Init
  <1> QED BY <1>1 DEF Init, ServicesInit, RecordInv, OrderInv, WorkIsVisible, SuccessIsAccounted, Marked

LEMMA RecordKept == TypeInv /\ RecordInv /\ [Next]_vars => RecordInv'
  <1> SUFFICES ASSUME TypeInv, RecordInv, [Next]_vars PROVE RecordInv'
    OBVIOUS
  <1>1. \A e \in Execs : Marked(e)' /\ (pc'[e] = "Succeeded" => Accounted')
    BY RecordStepOf
  <1>2. SuccessIsAccounted'
    BY <1>1 DEF SuccessIsAccounted, Accounted, Finals
  <1> QED BY <1>1, <1>2, RecordForward DEF RecordInv

(* The order, the work on record and the executions that made them agree   *)
(* in every reachable state.                                               *)
THEOREM RecordsHold == Spec => []RecordInv
  <1>1. Init => TypeInv /\ RecordInv
    BY TypeInit, RecordInit
  <1>2. (TypeInv /\ RecordInv) /\ [Next]_vars => (TypeInv /\ RecordInv)'
    BY TypeStep, RecordKept
  <1> QED BY <1>1, <1>2, PTL DEF Spec

(* Work on record shows on the order until it is done, and is resolved     *)
(* only once the order is final, with any number of replays beside each    *)
(* other.                                                                  *)
THEOREM WorkStaysVisible == Spec => []WorkIsVisible
  <1>1. RecordInv => WorkIsVisible
    BY DEF RecordInv
  <1> QED BY <1>1, RecordsHold, PTL

(* Whatever execution succeeds, the order is final or the work that is     *)
(* left of it is on record.                                                *)
THEOREM SuccessesAreAccounted == Spec => []SuccessIsAccounted
  <1>1. RecordInv => SuccessIsAccounted
    BY DEF RecordInv
  <1> QED BY <1>1, RecordsHold, PTL

-----------------------------------------------------------------------------
(***************************************************************************)
(* What the ledgers and the provider have recorded                         *)
(***************************************************************************)
(* Who may change the payment, and who what is held.                       *)
PayStep ==
    \/ UNCHANGED payVars
    \/ \E e \in Execs, a \in Answers : pc[e] \in PaymentTasks /\ PaymentCall(Op(e, pc[e]), a)
    \/ \E e \in Execs : /\ pc[e] \in PaymentTasks
                        /\ PaymentBegun(Op(e, pc[e])) \/ PaymentUnanswered(Op(e, pc[e]))
    \/ \E e \in Execs, a \in Answers :
          pc[e] = "RetrievePaymentAfterCaptureFailure" /\ PaymentRetrieved(a)

HeldTasks == {"ReserveInventory", "CommitInventory", "ReleaseInventory"}
CapacityTasks == {"ReserveFulfillment", "CancelFulfillment"}
HeldStep ==
    \/ UNCHANGED heldVars
    \/ \E e \in Execs, a \in Answers : pc[e] \in HeldTasks /\ InventoryCall(Op(e, pc[e]), a)
    \/ \E e \in Execs, a \in Answers : pc[e] \in CapacityTasks /\ FulfillmentCall(Op(e, pc[e]), a)
    \/ \E e \in Execs, a \in Answers : handoff[e] = "working" /\ FulfillmentCall(Handed, a)
    \/ inventory = "RESERVED" /\ inventory' = "RELEASED" /\ UNCHANGED <<fulfillment, results>>

LEMMA PaySteps == ASSUME [Next]_vars PROVE PayStep
  <1>1. ASSUME NEW e \in Execs, NEW a \in Answers, Call(e, a) PROVE PayStep
    <2>1. \/ UNCHANGED payVars
          \/ pc[e] \in PaymentTasks /\ PaymentCall(Op(e, pc[e]), a)
          \/ pc[e] = "RetrievePaymentAfterCaptureFailure" /\ PaymentRetrieved(a)
      BY <1>1 DEF Call, CreateOrder, MarkOrder, InventoryCall, FulfillmentCall, CreateWork,
                  ResolveWork, services
    <2> QED BY <2>1 DEF PayStep
  <1>2. ASSUME NEW a, FulfillmentCall(Handed, a) PROVE PayStep
    BY <1>2 DEF FulfillmentCall, PayStep
  <1>3. ASSUME NEW n, BeginReplay(n) \/ FailReplay(n) PROVE PayStep
    BY <1>3 DEF BeginReplay, FailReplay, PayStep
  <1>4. CASE DeadlinePasses \/ ExpireReservation \/ ExpireOrder \/ UNCHANGED services
    BY <1>4 DEF DeadlinePasses, ExpireReservation, ExpireOrder, services, PayStep
  <1>5. ASSUME NEW e \in Execs, pc[e] \in PaymentTasks,
               PaymentBegun(Op(e, pc[e])) \/ PaymentUnanswered(Op(e, pc[e]))
        PROVE  PayStep
    BY <1>5 DEF PayStep
  <1> QED BY <1>1, <1>2, <1>3, <1>4, <1>5, EveryService DEF Serves

LEMMA HeldSteps == ASSUME [Next]_vars PROVE HeldStep
  <1>1. ASSUME NEW e \in Execs, NEW a \in Answers, Call(e, a) PROVE HeldStep
    <2>1. \/ UNCHANGED heldVars
          \/ pc[e] \in HeldTasks /\ InventoryCall(Op(e, pc[e]), a)
          \/ pc[e] \in CapacityTasks /\ FulfillmentCall(Op(e, pc[e]), a)
      BY <1>1 DEF Call, CreateOrder, MarkOrder, PaymentCall, PaymentRetrieved, CreateWork,
                  ResolveWork, services, HeldTasks, CapacityTasks
    <2> QED BY <2>1 DEF HeldStep
  <1>2. ASSUME NEW e \in Execs, PaymentBegun(Op(e, pc[e])) \/ PaymentUnanswered(Op(e, pc[e]))
        PROVE  HeldStep
    BY <1>2 DEF PaymentBegun, PaymentUnanswered, HeldStep
  <1>3. ASSUME NEW n, BeginReplay(n) \/ FailReplay(n) PROVE HeldStep
    BY <1>3 DEF BeginReplay, FailReplay, HeldStep
  <1>4. CASE DeadlinePasses \/ ExpireReservation \/ ExpireOrder \/ UNCHANGED services
    BY <1>4 DEF DeadlinePasses, ExpireReservation, ExpireOrder, services, HeldStep
  <1>5. ASSUME NEW e \in Execs, NEW a \in Answers, handoff[e] = "working", FulfillmentCall(Handed, a)
        PROVE  HeldStep
    BY <1>5 DEF HeldStep
  <1> QED BY <1>1, <1>2, <1>3, <1>4, <1>5, EveryService DEF Serves

(* The payment moves only forward, by the verb that was asked for.         *)
LEMMA AfterForward ==
    ASSUME NEW t \in Mutations
    PROVE  /\ Expected(t) \in After(Expected(t))
           /\ \A s : Prerequisite(t) \in After(s) => Expected(t) \in After(s)
           /\ Prerequisite(t) = "NONE" <=> t = "AuthorizePayment"
  BY DEF Mutations, Expected, Prerequisite, After, ProviderStates

LEMMA AppliedForward ==
    ASSUME LedgersOK, PayTruth, NEW t \in Mutations, NEW s \in ProviderAnswers(t), ProviderApply(t, s)
    PROVE  /\ payment' = payment \/ (payment = Prerequisite(t) /\ payment' = Expected(t))
           /\ \A v : payment \in After(v) => payment' \in After(v)
           /\ payment' \in After(s)
           /\ \A u \in Mutations : keys'[u] = "APPLIED" => payment' \in After(Expected(u))
           /\ payment' # "NONE" => keys'["AuthorizePayment"] = "APPLIED"
  <1>a. payment \in ProviderStates /\ keys \in [Mutations -> KeyStates]
        /\ "AuthorizePayment" \in Mutations
    BY DEF LedgersOK, ServicesOK, Mutations
  <1>1. /\ s \in {Expected(t), "REJECTED"}
        /\ s = "REJECTED" => keys[t] # "APPLIED"
        /\ s # "REJECTED" => keys[t] = "APPLIED" \/ payment = Prerequisite(t)
    BY ExpectedIs DEF ProviderAnswers
  <1>2. Expected(t) # "REJECTED" /\ \A v \in {"REJECTED"} : After(v) = ProviderStates
    BY ExpectedIs DEF After
  <1>3. /\ payment' = payment \/ (payment = Prerequisite(t) /\ payment' = Expected(t))
        /\ keys' = [keys EXCEPT ![t] = IF s = "REJECTED" THEN "REJECTED" ELSE "APPLIED"]
    BY <1>1 DEF ProviderApply
  <1>4. \A v : payment \in After(v) => payment' \in After(v)
    BY <1>3, AfterForward
  <1>5. payment' \in After(s)
    <2>1. CASE s = "REJECTED"
      BY <2>1, <1>2, <1>3, <1>a, ExpectedIs
    <2>2. CASE s # "REJECTED" /\ keys[t] = "APPLIED"
      BY <2>2, <1>1, <1>4 DEF PayTruth
    <2>3. CASE s # "REJECTED" /\ keys[t] # "APPLIED"
      BY <2>3, <1>1, AfterForward DEF ProviderApply
    <2> QED BY <2>1, <2>2, <2>3
  <1>6. ASSUME NEW u \in Mutations, keys'[u] = "APPLIED" PROVE payment' \in After(Expected(u))
    <2>1. CASE u = t
      BY <2>1, <1>1, <1>3, <1>5, <1>6, <1>a
    <2>2. CASE u # t
      BY <2>2, <1>3, <1>4, <1>6, <1>a DEF PayTruth
    <2> QED BY <2>1, <2>2
  <1>7. ASSUME payment' # "NONE" PROVE keys'["AuthorizePayment"] = "APPLIED"
    <2>1. CASE payment # "NONE"
      BY <2>1, <1>1, <1>3, <1>a DEF PayTruth
    <2>2. CASE payment = "NONE"
      BY <2>2, <1>1, <1>3, <1>7, <1>a, AfterForward DEF ProviderApply
    <2> QED BY <2>1, <2>2
  <1> QED BY <1>3, <1>4, <1>5, <1>6, <1>7

(* An operation that is settled for another has been applied.              *)
LEMMA WrittenTruth ==
    ASSUME LedgersOK, PayTruth, NEW op \in Ops, NEW s \in PayStates, MayInvoke(op)
    PROVE  \A o \in Ops \ {op} : payment \in After(Written(op, s)[o])
  <1>1. \A o \in Ops \ {op} : o # active => payment \in After(Written(op, s)[o])
    BY WrittenType DEF PayTruth
  <1>2. CASE active \in {op, NoOp}
    BY <1>1, <1>2, ConstantsAre
  <1>3. CASE active \notin {op, NoOp}
    <2>1. payment = Expected(active[1]) /\ active[1] \in Mutations
      BY <1>3 DEF MayInvoke, Classify, LedgersOK
    <2> QED BY <1>1, <1>3, <2>1, WrittenType, AfterForward
  <1> QED BY <1>2, <1>3

LEMMA AbsentAfter ==
    ASSUME LedgersOK
    PROVE  payment \in After("IN_PROGRESS") /\ payment \in After("REJECTED")
  BY DEF LedgersOK, ServicesOK, After

(* The active operation is settled as applied only if it shows.            *)
LEMMA SettledTruth ==
    ASSUME LedgersOK, PayTruth, active # NoOp => payment = Expected(active[1])
    PROVE  \A o \in Ops : payment \in After(Settled[o])
  <1>1. \A o \in Ops : o # active => payment \in After(Settled[o])
    BY SettledType DEF PayTruth
  <1>2. active # NoOp => payment \in After(Settled[active])
    <2> SUFFICES ASSUME active # NoOp PROVE payment \in After(Settled[active])
      OBVIOUS
    <2>1. active[1] \in Mutations /\ Settled[active] = Expected(active[1])
      BY SettledType DEF LedgersOK
    <2> QED BY <2>1, AfterForward
  <1> QED BY <1>1, <1>2, ConstantsAre

LEMMA PaymentCallTruth ==
    ASSUME LedgersOK, PayTruth, NEW op \in Ops, op[1] \in Mutations, NEW a, PaymentCall(op, a)
    PROVE  /\ PayTruth' /\ payment' \in After(a[1])
           /\ payment' = payment \/ (payment = Prerequisite(op[1]) /\ payment' = Expected(op[1]))
  <1>1. CASE PayRecorded(op) /\ a = Answer(payOps[op]) /\ UNCHANGED payVars
    BY <1>1 DEF PayTruth, payVars, Answer
  <1>2. ASSUME MayInvoke(op), active' = NoOp, NEW s \in ProviderAnswers(op[1]), a = Answer(s),
               ProviderApply(op[1], s), payOps' = Written(op, s)
        PROVE  /\ PayTruth' /\ payment' \in After(a[1])
               /\ payment' = payment \/ (payment = Prerequisite(op[1]) /\ payment' = Expected(op[1]))
    <2>1. s \in PayStates /\ a[1] = s
      BY <1>2, ProviderType DEF Answer
    <2>2. /\ payment' = payment \/ (payment = Prerequisite(op[1]) /\ payment' = Expected(op[1]))
          /\ \A v : payment \in After(v) => payment' \in After(v)
          /\ payment' \in After(s)
          /\ \A u \in Mutations : keys'[u] = "APPLIED" => payment' \in After(Expected(u))
          /\ payment' # "NONE" => keys'["AuthorizePayment"] = "APPLIED"
      BY <1>2, AppliedForward
    <2>3. \A o \in Ops : payment' \in After(payOps'[o])
      <3>1. payOps'[op] = s
        BY <1>2, <2>1, WrittenType
      <3>2. \A o \in Ops \ {op} : payment \in After(payOps'[o])
        BY <1>2, <2>1, WrittenTruth
      <3> QED BY <2>2, <3>1, <3>2
    <2> QED BY <2>1, <2>2, <2>3 DEF PayTruth
  <1>3. CASE /\ active = op /\ Classify(op[1]) = "EXPECTED" /\ a = Answer(Expected(op[1]))
             /\ payOps' = Settled /\ UNCHANGED <<payment, keys>>
    <2>1. payment = Expected(op[1])
      BY <1>3 DEF Classify
    <2>2. \A o \in Ops : payment \in After(Settled[o])
      BY <1>3, <2>1, SettledTruth
    <2>3. a[1] = Expected(op[1])
      BY <1>3 DEF Answer
    <2> QED BY <1>3, <2>1, <2>2, <2>3, AfterForward DEF PayTruth
  <1>4. CASE a = Answer("RECONCILIATION_REQUIRED") /\ UNCHANGED payVars
    BY <1>4 DEF PayTruth, payVars, Answer, After, LedgersOK, ServicesOK
  <1> QED BY <1>1, <1>2, <1>3, <1>4 DEF PaymentCall, Written

LEMMA PaymentTroubleTruth ==
    ASSUME LedgersOK, PayTruth, NEW op \in Ops, op[1] \in Mutations,
           PaymentBegun(op) \/ PaymentUnanswered(op)
    PROVE  /\ PayTruth'
           /\ payment' = payment \/ (payment = Prerequisite(op[1]) /\ payment' = Expected(op[1]))
  <1>1. payOps' = Written(op, "IN_PROGRESS") /\ MayInvoke(op) /\ "IN_PROGRESS" \in PayStates
    BY DEF PaymentBegun, PaymentUnanswered, Written, PayStates
  <1>2. /\ payment' = payment \/ (payment = Prerequisite(op[1]) /\ payment' = Expected(op[1]))
        /\ \A v : payment \in After(v) => payment' \in After(v)
        /\ \A u \in Mutations : keys'[u] = "APPLIED" => payment' \in After(Expected(u))
        /\ payment' # "NONE" => keys'["AuthorizePayment"] = "APPLIED"
    <2>1. CASE PaymentBegun(op)
      BY <2>1 DEF PaymentBegun, PayTruth
    <2>2. CASE PaymentUnanswered(op)
      <3>1. Expected(op[1]) \in ProviderAnswers(op[1]) /\ ProviderApply(op[1], Expected(op[1]))
        BY <2>2 DEF PaymentUnanswered, ProviderAnswers
      <3> QED BY <3>1, AppliedForward
    <2> QED BY <2>1, <2>2
  <1>3. \A o \in Ops : payment' \in After(payOps'[o])
    <2>1. payOps'[op] = "IN_PROGRESS"
      BY <1>1, WrittenType
    <2>2. \A o \in Ops \ {op} : payment \in After(payOps'[o])
      BY <1>1, WrittenTruth
    <2> QED BY <1>2, <2>1, <2>2, AbsentAfter
  <1> QED BY <1>2, <1>3 DEF PayTruth

LEMMA PaymentRetrievedTruth ==
    ASSUME LedgersOK, PayTruth, NEW a, PaymentRetrieved(a)
    PROVE  PayTruth' /\ payment' = payment
  <1>1. UNCHANGED <<payment, keys>>
    BY DEF PaymentRetrieved
  <1>2. \/ payOps' = payOps
        \/ payOps' = Settled /\ active # NoOp /\ Classify(active[1]) = "EXPECTED"
        \/ active # NoOp /\ payOps' = [payOps EXCEPT ![active] = "REJECTED"]
    BY DEF PaymentRetrieved
  <1>3. \A o \in Ops : payment \in After(payOps'[o])
    <2>1. CASE payOps' = payOps
      BY <2>1 DEF PayTruth
    <2>2. CASE payOps' = Settled /\ active # NoOp /\ Classify(active[1]) = "EXPECTED"
      BY <2>2, SettledTruth DEF Classify
    <2>3. CASE active # NoOp /\ payOps' = [payOps EXCEPT ![active] = "REJECTED"]
      BY <2>3, AbsentAfter DEF PayTruth, LedgersOK
    <2> QED BY <1>2, <2>1, <2>2, <2>3
  <1> QED BY <1>1, <1>3 DEF PayTruth

(* Every change of the payment is its next state, by the task that asked.  *)
PaymentMoves ==
    \/ payment' = payment
    \/ \E e \in Execs : /\ pc[e] \in PaymentTasks
                        /\ payment = Prerequisite(pc[e]) /\ payment' = Expected(pc[e])

LEMMA PaymentTruthStep ==
    ASSUME TypeInv, PayTruth, [Next]_vars
    PROVE  PayTruth' /\ PaymentMoves
  <1>a. LedgersOK
    BY DEF TypeInv
  <1>b. \A e \in Execs : pc[e] \in PaymentTasks =>
            /\ Op(e, pc[e]) \in Ops /\ Op(e, pc[e])[1] = pc[e] /\ pc[e] \in Mutations
    BY OpIsOp, ConstantsAre
  <1>1. CASE UNCHANGED payVars
    BY <1>1 DEF payVars, PayTruth, PaymentMoves
  <1>2. ASSUME NEW e \in Execs, NEW a \in Answers, pc[e] \in PaymentTasks, PaymentCall(Op(e, pc[e]), a)
        PROVE  PayTruth' /\ PaymentMoves
    BY <1>2, <1>a, <1>b, PaymentCallTruth DEF PaymentMoves
  <1>3. ASSUME NEW e \in Execs, pc[e] \in PaymentTasks,
               PaymentBegun(Op(e, pc[e])) \/ PaymentUnanswered(Op(e, pc[e]))
        PROVE  PayTruth' /\ PaymentMoves
    BY <1>3, <1>a, <1>b, PaymentTroubleTruth DEF PaymentMoves
  <1>4. ASSUME NEW a, PaymentRetrieved(a) PROVE PayTruth' /\ PaymentMoves
    BY <1>4, <1>a, PaymentRetrievedTruth DEF PaymentMoves
  <1> QED BY <1>1, <1>2, <1>3, <1>4, PaySteps DEF PayStep

(* What is held is final once it is sold, given back or handed off.        *)
InventoryMoves ==
    \/ inventory' = inventory
    \/ inventory = "NONE" /\ inventory' = "RESERVED"
    \/ inventory = "RESERVED" /\ inventory' = "RELEASED"
    \/ inventory = "RESERVED" /\ inventory' = "COMMITTED" /\ \E e \in Execs : pc[e] = "CommitInventory"
CapacityMoves ==
    \/ fulfillment' = fulfillment
    \/ /\ fulfillment = "NONE" /\ fulfillment' = "RESERVED"
       /\ \E e \in Execs : /\ pc[e] = "ReserveFulfillment"
                           /\ results'[Op(e, "ReserveFulfillment")] = Answer("RESERVED")
    \/ fulfillment = "RESERVED" /\ fulfillment' = "CANCELLED" /\ \E e \in Execs : pc[e] = "CancelFulfillment"
    \/ fulfillment = "RESERVED" /\ fulfillment' = "HANDED_OFF" /\ \E e \in Execs : handoff[e] = "working"

LEMMA InventoryCallTruth ==
    ASSUME LedgersOK, HeldTruth, NEW op \in Ops, op[1] \in HeldTasks, NEW a \in Answers, InventoryCall(op, a)
    PROVE  /\ HeldTruth' /\ results'[op] = a /\ fulfillment' = fulfillment
           /\ \A o \in Ops : results[o] # NoAnswer => results'[o] = results[o]
           /\ \/ inventory' = inventory
              \/ inventory = "NONE" /\ inventory' = "RESERVED" /\ op[1] = "ReserveInventory"
              \/ inventory = "RESERVED" /\ inventory' = "RELEASED"
              \/ inventory = "RESERVED" /\ inventory' = "COMMITTED" /\ op[1] = "CommitInventory"
  <1>a. /\ inventory \in {"NONE", "RESERVED", "COMMITTED", "RELEASED"}
        /\ results \in [Ops -> Answers]
    BY DEF LedgersOK, ServicesOK
  <1>1. CASE results[op] # NoAnswer /\ a = results[op] /\ UNCHANGED heldVars
    BY <1>1 DEF heldVars, HeldTruth
  <1>2. CASE /\ results[op] = NoAnswer /\ a \in InventoryAnswers(op)
             /\ results' = [results EXCEPT ![op] = a]
             /\ inventory' = IF a[1] \in {"RESERVED", "COMMITTED", "RELEASED"} THEN a[1] ELSE inventory
             /\ UNCHANGED fulfillment
    <2>1. /\ op[1] = "ReserveInventory" /\ inventory = "NONE" =>
                a \in {Answer("RESERVED"), Answer("OUT_OF_STOCK")}
          /\ op[1] = "ReserveInventory" /\ inventory # "NONE" => a = NotActive(inventory)
          /\ op[1] = "CommitInventory" =>
                a = NotActive(inventory) \/ (inventory = "RESERVED" /\ a = Answer("COMMITTED"))
          /\ op[1] = "ReleaseInventory" =>
                a = NotActive(inventory) \/ (inventory = "RESERVED" /\ a = Answer("RELEASED"))
      BY <1>2 DEF InventoryAnswers, HeldTasks
    <2>2. \/ a = NotActive(inventory) /\ inventory' = inventory
          \/ /\ a = Answer("RESERVED") /\ inventory' = "RESERVED" /\ inventory = "NONE"
             /\ op[1] = "ReserveInventory"
          \/ a = Answer("OUT_OF_STOCK") /\ inventory' = inventory
          \/ /\ a = Answer("COMMITTED") /\ inventory' = "COMMITTED" /\ inventory = "RESERVED"
             /\ op[1] = "CommitInventory"
          \/ a = Answer("RELEASED") /\ inventory' = "RELEASED" /\ inventory = "RESERVED"
      BY <1>2, <2>1 DEF HeldTasks, Answer, NotActive
    <2>3. \A o \in Ops \ {op} : results'[o] = results[o]
      BY <1>2, <1>a
    <2>4. results'[op] = a
      BY <1>2, <1>a
    <2>5. ASSUME NEW o \in Ops, NEW h \in {results'[o][1], results'[o][2]}
          PROVE  /\ h \in {"COMMITTED", "RELEASED"} => inventory' = h
                 /\ h \in {"CANCELLED", "HANDED_OFF"} => fulfillment' = h
      <3>1. CASE o = op
        BY <3>1, <2>2, <2>4, <2>5, <1>a DEF Answer, NotActive
      <3>2. CASE o # op
        BY <3>2, <2>2, <2>3, <2>5, <1>2 DEF HeldTruth
      <3> QED BY <3>1, <3>2
    <2>6. HeldTruth'
      BY <2>5 DEF HeldTruth
    <2> QED BY <1>2, <2>2, <2>3, <2>4, <2>6
  <1> QED BY <1>1, <1>2 DEF InventoryCall

LEMMA FulfillmentCallTruth ==
    ASSUME LedgersOK, HeldTruth, NEW op \in Ops, op[1] \in CapacityTasks \cup {"HandoffFulfillment"},
           NEW a \in Answers, FulfillmentCall(op, a)
    PROVE  /\ HeldTruth' /\ results'[op] = a /\ inventory' = inventory
           /\ \A o \in Ops : results[o] # NoAnswer => results'[o] = results[o]
           /\ \/ fulfillment' = fulfillment
              \/ fulfillment = "NONE" /\ fulfillment' = "RESERVED" /\ op[1] = "ReserveFulfillment"
                 /\ a = Answer("RESERVED")
              \/ fulfillment = "RESERVED" /\ fulfillment' = "CANCELLED" /\ op[1] = "CancelFulfillment"
              \/ fulfillment = "RESERVED" /\ fulfillment' = "HANDED_OFF" /\ op[1] = "HandoffFulfillment"
  <1>a. /\ fulfillment \in {"NONE", "RESERVED", "CANCELLED", "HANDED_OFF"}
        /\ results \in [Ops -> Answers]
    BY DEF LedgersOK, ServicesOK
  <1>1. CASE results[op] # NoAnswer /\ a = results[op] /\ UNCHANGED heldVars
    BY <1>1 DEF heldVars, HeldTruth
  <1>2. CASE /\ results[op] = NoAnswer /\ a \in FulfillmentAnswers(op)
             /\ results' = [results EXCEPT ![op] = a]
             /\ fulfillment' = IF a[1] \in {"RESERVED", "CANCELLED", "HANDED_OFF"} THEN a[1] ELSE fulfillment
             /\ UNCHANGED inventory
    <2>1. /\ op[1] = "ReserveFulfillment" =>
                a = Answer("CAPACITY_UNAVAILABLE") \/ (fulfillment = "NONE" /\ a = Answer("RESERVED"))
          /\ op[1] = "CancelFulfillment" =>
                \/ a = NotActive("RESERVED")
                \/ fulfillment = "RESERVED" /\ a = Answer("CANCELLED")
                \/ fulfillment \in {"CANCELLED", "HANDED_OFF"} /\ a = NotActive(fulfillment)
          /\ op[1] = "HandoffFulfillment" =>
                \/ a = NotActive("RESERVED")
                \/ fulfillment = "RESERVED" /\ a = Answer("HANDED_OFF")
                \/ fulfillment \in {"CANCELLED", "HANDED_OFF"} /\ a = NotActive(fulfillment)
      BY <1>2, <1>a DEF FulfillmentAnswers
    <2>2. \/ a = NotActive("RESERVED") /\ fulfillment' = fulfillment
          \/ a = Answer("CAPACITY_UNAVAILABLE") /\ fulfillment' = fulfillment
          \/ /\ a = NotActive(fulfillment) /\ fulfillment' = fulfillment
          \/ /\ a = Answer("RESERVED") /\ fulfillment' = "RESERVED" /\ fulfillment = "NONE"
             /\ op[1] = "ReserveFulfillment"
          \/ /\ a = Answer("CANCELLED") /\ fulfillment' = "CANCELLED" /\ fulfillment = "RESERVED"
             /\ op[1] = "CancelFulfillment"
          \/ /\ a = Answer("HANDED_OFF") /\ fulfillment' = "HANDED_OFF" /\ fulfillment = "RESERVED"
             /\ op[1] = "HandoffFulfillment"
      BY <1>2, <2>1 DEF CapacityTasks, Answer, NotActive
    <2>3. \A o \in Ops \ {op} : results'[o] = results[o]
      BY <1>2, <1>a
    <2>4. results'[op] = a
      BY <1>2, <1>a
    <2>5. ASSUME NEW o \in Ops, NEW h \in {results'[o][1], results'[o][2]}
          PROVE  /\ h \in {"COMMITTED", "RELEASED"} => inventory' = h
                 /\ h \in {"CANCELLED", "HANDED_OFF"} => fulfillment' = h
      <3>1. CASE o = op
        BY <3>1, <2>2, <2>4, <2>5, <1>a DEF Answer, NotActive
      <3>2. CASE o # op
        BY <3>2, <2>2, <2>3, <2>5, <1>2 DEF HeldTruth
      <3> QED BY <3>1, <3>2
    <2>6. HeldTruth'
      BY <2>5 DEF HeldTruth
    <2> QED BY <1>2, <2>2, <2>3, <2>4, <2>6
  <1> QED BY <1>1, <1>2 DEF FulfillmentCall

LEMMA HeldTruthStep ==
    ASSUME TypeInv, HeldTruth, [Next]_vars
    PROVE  /\ HeldTruth' /\ InventoryMoves /\ CapacityMoves
           /\ \A o \in Ops : results[o] # NoAnswer => results'[o] = results[o]
  <1>a. LedgersOK
    BY DEF TypeInv
  <1>b. \A e \in Execs : pc[e] \in HeldTasks \cup CapacityTasks =>
            Op(e, pc[e]) \in Ops /\ Op(e, pc[e])[1] = pc[e]
    BY OpIsOp DEF HeldTasks, CapacityTasks, Verbs
  <1>c. Handed \in Ops /\ Handed[1] = "HandoffFulfillment"
    BY CapacityOpIsOp DEF Handed
  <1>1. CASE UNCHANGED heldVars
    BY <1>1 DEF heldVars, HeldTruth, InventoryMoves, CapacityMoves
  <1>2. ASSUME NEW e \in Execs, NEW a \in Answers, pc[e] \in HeldTasks, InventoryCall(Op(e, pc[e]), a)
        PROVE  /\ HeldTruth' /\ InventoryMoves /\ CapacityMoves
               /\ \A o \in Ops : results[o] # NoAnswer => results'[o] = results[o]
    BY <1>2, <1>a, <1>b, InventoryCallTruth DEF InventoryMoves, CapacityMoves
  <1>3. ASSUME NEW e \in Execs, NEW a \in Answers, pc[e] \in CapacityTasks,
               FulfillmentCall(Op(e, pc[e]), a)
        PROVE  /\ HeldTruth' /\ InventoryMoves /\ CapacityMoves
               /\ \A o \in Ops : results[o] # NoAnswer => results'[o] = results[o]
    <2>1. /\ HeldTruth' /\ results'[Op(e, pc[e])] = a /\ inventory' = inventory
          /\ \A o \in Ops : results[o] # NoAnswer => results'[o] = results[o]
          /\ \/ fulfillment' = fulfillment
             \/ fulfillment = "NONE" /\ fulfillment' = "RESERVED" /\ pc[e] = "ReserveFulfillment"
                /\ a = Answer("RESERVED")
             \/ fulfillment = "RESERVED" /\ fulfillment' = "CANCELLED" /\ pc[e] = "CancelFulfillment"
             \/ fulfillment = "RESERVED" /\ fulfillment' = "HANDED_OFF" /\ pc[e] = "HandoffFulfillment"
      BY <1>3, <1>a, <1>b, FulfillmentCallTruth
    <2> QED BY <2>1, <1>3 DEF InventoryMoves, CapacityMoves, CapacityTasks
  <1>4. ASSUME NEW e \in Execs, NEW a \in Answers, handoff[e] = "working", FulfillmentCall(Handed, a)
        PROVE  /\ HeldTruth' /\ InventoryMoves /\ CapacityMoves
               /\ \A o \in Ops : results[o] # NoAnswer => results'[o] = results[o]
    <2>1. /\ HeldTruth' /\ inventory' = inventory
          /\ \A o \in Ops : results[o] # NoAnswer => results'[o] = results[o]
          /\ \/ fulfillment' = fulfillment
             \/ fulfillment = "RESERVED" /\ fulfillment' = "HANDED_OFF"
      BY <1>4, <1>a, <1>c, FulfillmentCallTruth
    <2> QED BY <2>1, <1>4 DEF InventoryMoves, CapacityMoves
  <1>5. CASE inventory = "RESERVED" /\ inventory' = "RELEASED" /\ UNCHANGED <<fulfillment, results>>
    BY <1>5 DEF HeldTruth, InventoryMoves, CapacityMoves
  <1> QED BY <1>1, <1>2, <1>3, <1>4, <1>5, HeldSteps DEF HeldStep

LEMMA TruthInit == Init => TruthInv
  BY ExpectedIs DEF Init, ServicesInit, TruthInv, PayTruth, HeldTruth, NoAnswer, Answer, After, ProviderStates

LEMMA TruthKept == TypeInv /\ TruthInv /\ [Next]_vars => TruthInv'
  BY PaymentTruthStep, HeldTruthStep DEF TruthInv

-----------------------------------------------------------------------------
(***************************************************************************)
(* The phases of a checkout                                                *)
(***************************************************************************)
(* The answers that decide where a sale goes.                              *)
LEMMA SellTargets ==
    ASSUME TypeInv, TruthInv, [Next]_vars, NEW e \in Execs, NEW target, Sent(e, target),
           pc[e] \in SellPoints
    PROVE  /\ target \in SellPoints \cup Ended \cup
                         {"INVENTORY_ONLY", "PAYMENT_AUTHORIZATION", "RESERVED_FULFILLMENT",
                          "CAPTURED_PAYMENT", "HandoffFulfillment"}
           /\ target = "InventoryCommitTiming" => payment' \in {"CAPTURED", "REFUNDED"}
           /\ target = "CommitInventory" => pc[e] = "InventoryCommitTiming"
           /\ target = "HandoffFulfillment" => pc[e] = "CommitInventory" /\ inventory' = "COMMITTED"
           /\ target = "CAPTURED_PAYMENT" =>
                 \/ pc[e] \in {"InventoryCommitTiming", "CommitInventory"}
                 \/ payment \in {"CAPTURED", "REFUNDED"}
  <1>a. LedgersOK /\ LedgersOK'
    BY LedgersStep DEF TypeInv
  <1>1. CASE AfterAnswer(e, target)
    <2>1. PICK a \in Answers : Call(e, a) /\ target = Route(e, a)
      BY <1>1 DEF AfterAnswer
    <2>2. CASE pc[e] \in {"CreatePendingOrder", "ReserveInventory", "AuthorizePayment",
                          "ReserveFulfillment", "MarkOrderInventoryUnavailable"}
      <3>1. target \in {"ReserveInventory", "AuthorizePayment", "MarkOrderInventoryUnavailable",
                        "Failed", "ReserveFulfillment", "INVENTORY_ONLY", "CapturePayment",
                        "PAYMENT_AUTHORIZATION", "Succeeded"}
        BY <2>1, <2>2, RouteIs, AfterIs
      <3> QED BY <3>1 DEF SellPoints, Ended
    <2>3. CASE pc[e] = "CapturePayment"
      <3>1. target = IF a[1] = "CAPTURED" THEN "InventoryCommitTiming"
                     ELSE "RetrievePaymentAfterCaptureFailure"
        BY <2>1, <2>3, RouteIs
      <3>2. /\ PaymentCall(Op(e, "CapturePayment"), a) /\ Op(e, "CapturePayment") \in Ops
            /\ Op(e, "CapturePayment")[1] \in Mutations
        BY <2>1, <2>3, OpIsOp DEF Call, Marks, PaymentTasks, Verbs, Mutations
      <3>3. payment' \in After(a[1])
        BY <3>2, <1>a, PaymentCallTruth DEF TruthInv
      <3> QED BY <3>1, <3>3 DEF After, SellPoints
    <2>4. CASE pc[e] = "RetrievePaymentAfterCaptureFailure"
      <3>1. target = AfterCaptureRetrieval(a[1]) /\ PaymentRetrieved(a)
        BY <2>1, <2>4, RouteIs DEF Call, Marks, PaymentTasks
      <3>2. a[1] \in {"RECONCILIATION_REQUIRED", "NOT_FOUND", payment}
        BY <3>1 DEF PaymentRetrieved, Answer
      <3> QED BY <3>1, <3>2, AfterIs DEF AfterCaptureRetrieval, Ended
    <2>5. CASE pc[e] = "CommitInventory"
      <3>1. target = AfterCommit(a) /\ InventoryCall(Op(e, "CommitInventory"), a)
            /\ Op(e, "CommitInventory") \in Ops /\ Op(e, "CommitInventory")[1] \in HeldTasks
        BY <2>1, <2>5, RouteIs, OpIsOp DEF Call, Marks, PaymentTasks, Verbs, HeldTasks
      <3>2. HeldTruth' /\ results'[Op(e, "CommitInventory")] = a
        BY <3>1, <1>a, InventoryCallTruth DEF TruthInv
      <3>3. a[1] = "COMMITTED" \/ a[2] = "COMMITTED" => inventory' = "COMMITTED"
        BY <3>1, <3>2 DEF HeldTruth
      <3> QED BY <3>1, <3>3, <2>5, AfterIs DEF AfterCommit, Answer, NotActive
    <2>6. pc[e] \in Tasks
      BY <2>1, CallAtTask
    <2> QED BY <2>2, <2>3, <2>4, <2>5, <2>6 DEF SellPoints, Tasks, PaymentTasks
  <1>2. CASE AfterError(e, target)
    <2>1. PICK err : target = CatchTarget(e, err)
      BY <1>2 DEF AfterError
    <2>2. /\ target \in {"INVENTORY_ONLY", "Failed", "RetrievePaymentAfterCaptureFailure",
                         "CAPTURED_PAYMENT"}
          /\ target = "CAPTURED_PAYMENT" => pc[e] = "CommitInventory"
      BY <2>1, CatchIs DEF SellPoints
    <2> QED BY <2>2 DEF SellPoints, Ended
  <1>3. CASE AfterTiming(e, target) \/ AfterStop(e, target)
    BY <1>3 DEF AfterTiming, AfterStop, SellPoints, Ended
  <1>4. CASE AfterHandoff(e, target)
    BY <1>4 DEF AfterHandoff, SellPoints
  <1> QED BY <1>1, <1>2, <1>3, <1>4 DEF Sent

LEMMA DeliverTargets ==
    ASSUME TypeInv, TruthInv, [Next]_vars, NEW e \in Execs, NEW target, Sent(e, target),
           pc[e] \in DeliverPoints \cup ClosePoints
    PROVE  /\ target \in DeliverPoints \cup ClosePoints \cup Ended \cup DeliverWorks
           /\ target = "MarkOrderConfirmed" => fulfillment' = "HANDED_OFF"
           /\ target = "OrderConfirmation" => pc[e] = "MarkOrderConfirmed"
  <1>a. LedgersOK
    BY DEF TypeInv
  <1>1. CASE AfterAnswer(e, target)
    <2>1. PICK a \in Answers : Call(e, a) /\ target = Route(e, a)
      BY <1>1 DEF AfterAnswer
    <2>2. CASE pc[e] = "RetrieveFulfillmentAfterHandoffFailure"
      <3>1. target = IF a[1] = "HANDED_OFF" THEN "MarkOrderConfirmed" ELSE "FulfillmentHandoff"
        BY <2>1, <2>2, RouteIs
      <3>2. a = ShownFulfillment /\ fulfillment' = fulfillment
        BY <2>1, <2>2 DEF Call, Marks, PaymentTasks, services, heldVars
      <3> QED BY <3>1, <3>2 DEF ShownFulfillment, Answer, DeliverPoints, DeliverWorks
    <2>3. CASE pc[e] = "MarkOrderConfirmed"
      <3>1. target \in {"Succeeded", "ResolveReconciliation"}
        BY <2>1, <2>3, RouteIs, AfterIs
      <3> QED BY <3>1 DEF ClosePoints, Ended
    <2>4. CASE pc[e] \in ClosePoints
      <3>1. target \in {"CreateReconciliation", "Succeeded", "Failed"}
        BY <2>1, <2>4, RouteIs DEF ClosePoints
      <3> QED BY <3>1 DEF ClosePoints, Ended
    <2>5. pc[e] \notin {"HandoffFulfillment", "awaiting handoff"}
      BY <2>1 DEF Call, Marks, PaymentTasks
    <2> QED BY <2>2, <2>3, <2>4, <2>5 DEF DeliverPoints
  <1>2. CASE AfterError(e, target)
    <2>1. PICK err : target = CatchTarget(e, err)
      BY <1>2 DEF AfterError
    <2>2. CASE pc[e] \in DeliverPoints
      <3>1. /\ target \in {"RetrieveFulfillmentAfterHandoffFailure", "FulfillmentHandoff",
                           "OrderConfirmation", "Failed"}
            /\ target = "OrderConfirmation" => pc[e] = "MarkOrderConfirmed"
        BY <2>1, <2>2, CatchIs DEF DeliverPoints
      <3> QED BY <3>1 DEF DeliverPoints, DeliverWorks, Ended
    <2>3. CASE pc[e] \in ClosePoints
      <3>1. target = "Failed"
        BY <2>1, <2>3, CatchIs DEF ClosePoints
      <3> QED BY <3>1 DEF Ended
    <2> QED BY <2>2, <2>3
  <1>3. CASE AfterTiming(e, target) \/ AfterStop(e, target)
    BY <1>3 DEF AfterTiming, AfterStop, DeliverPoints, ClosePoints, Ended
  <1>4. CASE AfterHandoff(e, target)
    <2>1. \/ target \in {"awaiting handoff", "RetrieveFulfillmentAfterHandoffFailure"}
          \/ \E a \in Answers : /\ FulfillmentCall(Handed, a) /\ a = Answer("HANDED_OFF")
                                /\ target = "MarkOrderConfirmed"
      BY <1>4 DEF AfterHandoff
    <2>2. ASSUME NEW a \in Answers, FulfillmentCall(Handed, a), a = Answer("HANDED_OFF")
          PROVE  fulfillment' = "HANDED_OFF"
      <3>1. HeldTruth' /\ results'[Handed] = a /\ Handed \in Ops
        BY <2>2, <1>a, CapacityOpIsOp, FulfillmentCallTruth DEF Handed, TruthInv
      <3> QED BY <3>1, <2>2 DEF HeldTruth, Answer
    <2> QED BY <2>1, <2>2 DEF DeliverPoints
  <1> QED BY <1>1, <1>2, <1>3, <1>4 DEF Sent

LEMMA RecoverTargets ==
    ASSUME TypeInv, TruthInv, [Next]_vars, NEW e \in Execs, NEW target, Sent(e, target),
           pc[e] \in RecoverPoints \cup ClosePoints, fulfillment' # "HANDED_OFF"
    PROVE  target \in RecoverPoints \cup ClosePoints \cup Ended \cup RecoverWorks
  <1>a. LedgersOK
    BY DEF TypeInv
  <1>1. CASE AfterAnswer(e, target)
    <2>1. PICK a \in Answers : Call(e, a) /\ target = Route(e, a)
      BY <1>1 DEF AfterAnswer
    <2>2. CASE pc[e] \in {"MarkOrderCompensating", "ReleaseInventory", "CancelPayment",
                          "RefundPayment", "MarkOrderCancelled"}
      <3>1. target \in {"ReleaseInventory", "CancelPayment", "CancelFulfillment", "RefundPayment",
                        "MarkOrderCancelled", "InventoryRelease", "PaymentCancellation",
                        "PaymentRefund", "Succeeded", "ResolveReconciliation"}
        BY <2>1, <2>2, RouteIs, AfterIs
      <3> QED BY <3>1 DEF RecoverPoints, ClosePoints, Ended, RecoverWorks, Works, DeliverWorks
    <2>3. CASE pc[e] = "CancelFulfillment"
      <3>1. target = AfterCancellation(e, a)
        BY <2>1, <2>3, RouteIs
      <3>2. FulfillmentCall(Op(e, "CancelFulfillment"), a) /\ Op(e, "CancelFulfillment") \in Ops
            /\ Op(e, "CancelFulfillment")[1] \in CapacityTasks
        BY <2>1, <2>3, OpIsOp DEF Call, Marks, PaymentTasks, Verbs, CapacityTasks
      <3>3. HeldTruth' /\ results'[Op(e, "CancelFulfillment")] = a
        BY <3>2, <1>a, FulfillmentCallTruth DEF TruthInv
      <3>4. a # NotActive("HANDED_OFF")
        BY <3>2, <3>3 DEF HeldTruth, NotActive
      <3>5. target \in {"ReleaseInventory", "CancelPayment", "CapturedFulfillmentCancellation",
                        "FulfillmentCancellation"}
        BY <3>1, <3>4, AfterIs DEF AfterCancellation
      <3> QED BY <3>5 DEF RecoverPoints, RecoverWorks, Works, DeliverWorks
    <2>4. CASE pc[e] \in ClosePoints
      <3>1. target \in {"CreateReconciliation", "Succeeded", "Failed"}
        BY <2>1, <2>4, RouteIs DEF ClosePoints
      <3> QED BY <3>1 DEF ClosePoints, Ended
    <2> QED BY <2>2, <2>3, <2>4 DEF RecoverPoints
  <1>2. CASE AfterError(e, target)
    <2>1. PICK err : target = CatchTarget(e, err)
      BY <1>2 DEF AfterError
    <2>2. target \in {"InventoryRelease", "PaymentCancellation", "PaymentRefund", "Failed",
                      "CapturedFulfillmentCancellation", "FulfillmentCancellation"}
      BY <2>1, CatchIs, AfterIs DEF RecoverPoints, ClosePoints
    <2> QED BY <2>2 DEF Ended, RecoverWorks, Works, DeliverWorks
  <1>3. CASE AfterTiming(e, target) \/ AfterStop(e, target) \/ AfterHandoff(e, target)
    BY <1>3 DEF AfterTiming, AfterStop, AfterHandoff, RecoverPoints, ClosePoints, Ended
  <1> QED BY <1>1, <1>2, <1>3 DEF Sent

(* An execution that has not begun, or is over, is sent nowhere.           *)
LEMMA RestIsStill ==
    ASSUME NEW e \in Execs, NEW target, Sent(e, target)
    PROVE  pc[e] \notin RestPoints
  BY CallAtTask DEF Sent, AfterAnswer, AfterError, AfterTiming, AfterStop, AfterHandoff, RestPoints,
         Tasks, PaymentTasks, Ended, Running, Points

LEMMA QueueMoves ==
    ASSUME TypeInv, [Next]_vars, NEW f \in Execs
    PROVE  handoff'[f] = handoff[f] \/ pc[f] = "HandoffFulfillment" \/ handoff[f] # "none"
  <1>a. handoff \in [Execs -> {"none", "queued", "working"}]
    BY DEF TypeInv
  <1>1. ASSUME NEW e \in Execs, Step(e)
        PROVE  handoff'[f] = handoff[f] \/ pc[f] = "HandoffFulfillment" \/ handoff[f] # "none"
    BY <1>1, <1>a DEF Step, Answered, Refused, InventoryCommitTiming, HandoffFulfillment,
                      WorkerHeartbeat, WorkerHandsOff
  <1>2. ASSUME NEW e \in Execs, Trouble(e)
        PROVE  handoff'[f] = handoff[f] \/ pc[f] = "HandoffFulfillment" \/ handoff[f] # "none"
    <2>1. UNCHANGED handoff \/ (handoff[e] = "working" /\ handoff' = [handoff EXCEPT ![e] = "queued"])
      BY <1>2 DEF Trouble, AnswerLost, Unreached, ProviderFails, Stop, HandoffTimesOut, WorkerFails
    <2> QED BY <2>1, <1>a
  <1>3. ASSUME NEW n \in Replays, Operator(n) PROVE UNCHANGED handoff
    BY <1>3 DEF Operator, AdmitReplay, AdmitReplayAgain, StartReplay, ReplayStartFails
  <1>4. CASE Background \/ UNCHANGED vars
    BY <1>4 DEF Background, vars
  <1> QED BY <1>1, <1>2, <1>3, <1>4 DEF Next

(* While it is sold, nobody but the workflow's own execution does anything. *)
LEMMA SellingAlone ==
    ASSUME TypeInv, RecordInv, TruthInv, [Next]_vars, Selling
    PROVE  /\ \A n \in Replays : pc'[n] = "absent" /\ work'[n] = NoWork /\ kind'[n] = "NONE"
           /\ \A e \in Execs : handoff'[e] = "none"
           /\ record' = "NONE" /\ openWork' = NoWork
           /\ payment' \in {"NONE", "AUTHORIZED", "CAPTURED"}
           /\ payment = "CAPTURED" => payment' = "CAPTURED"
           /\ fulfillment' \in {"NONE", "RESERVED"}
           /\ order' \notin {"CONFIRMED", "CANCELLED"}
           /\ inventory' = "COMMITTED" => payment' = "CAPTURED"
  <1>a. /\ pc[0] \in SellPoints \cup Ended /\ \A n \in Replays : pc[n] = "absent"
        /\ \A e \in Execs : work[e] = NoWork /\ kind[e] = "NONE" /\ handoff[e] = "none"
        /\ record = "NONE" /\ openWork = NoWork
        /\ payment \in {"NONE", "AUTHORIZED", "CAPTURED"} /\ fulfillment \in {"NONE", "RESERVED"}
        /\ order \notin {"CONFIRMED", "CANCELLED"}
        /\ pc[0] = "CommitInventory" => payment = "CAPTURED"
        /\ inventory = "COMMITTED" => payment = "CAPTURED"
    BY DEF Selling
  <1>b. \A e \in Execs : pc[e] \in SellPoints \cup Ended \cup {"absent"}
    BY <1>a DEF Execs, Replays
  <1>1. ASSUME NEW n \in Replays
        PROVE  pc'[n] = "absent" /\ work'[n] = NoWork /\ kind'[n] = "NONE"
    <2>1. n \in Execs /\ pc[n] = "absent" /\ pc[n] \in RestPoints
      BY <1>a, ConstantsAre DEF RestPoints
    <2>2. ~BeginReplay(n)
      BY <1>a DEF BeginReplay
    <2>3. Still(n)
      BY <2>1, <2>2, EveryMove, RestIsStill DEF Moves
    <2> QED BY <2>1, <2>3, <1>a DEF Still
  <1>2. ASSUME NEW e \in Execs PROVE handoff'[e] = "none"
    <2>1. pc[e] # "HandoffFulfillment"
      BY <1>b DEF SellPoints, Ended
    <2> QED BY <2>1, <1>a, QueueMoves
  <1>3. record' = "NONE" /\ openWork' = NoWork
    <2>1. \A e \in Execs : pc[e] \notin {"CreateReconciliation", "ResolveReconciliation"}
      BY <1>b DEF SellPoints, Ended
    <2>2. CASE UNCHANGED <<record, openWork>>
      BY <2>2, <1>a
    <2> QED BY <1>a, <2>1, <2>2, RecordSteps DEF RecordStep
  <1>4. /\ payment' \in {"NONE", "AUTHORIZED", "CAPTURED"}
        /\ payment = "CAPTURED" => payment' = "CAPTURED"
    <2>1. CASE payment' = payment
      BY <2>1, <1>a
    <2>2. ASSUME NEW e \in Execs, pc[e] \in PaymentTasks, payment = Prerequisite(pc[e]),
                 payment' = Expected(pc[e])
          PROVE  payment # "CAPTURED" /\ payment' \in {"AUTHORIZED", "CAPTURED"}
      <3>1. pc[e] \in {"AuthorizePayment", "CapturePayment"}
        BY <2>2, <1>b DEF PaymentTasks, SellPoints, Ended
      <3> QED BY <3>1, <2>2 DEF Prerequisite, Expected
    <2> QED BY <2>1, <2>2, PaymentTruthStep DEF TruthInv, PaymentMoves
  <1>5. fulfillment' \in {"NONE", "RESERVED"}
    <2>1. \A e \in Execs : pc[e] # "CancelFulfillment" /\ handoff[e] # "working"
      BY <1>a, <1>b DEF SellPoints, Ended
    <2> QED BY <2>1, <1>a, HeldTruthStep DEF TruthInv, CapacityMoves
  <1>6. order' \notin {"CONFIRMED", "CANCELLED"}
    <2>1. ASSUME NEW e \in Execs, pc[e] \in DOMAIN Marks, MarkOrder(Marks[pc[e]])
          PROVE  order' \notin {"CONFIRMED", "CANCELLED"}
      <3>1. pc[e] = "MarkOrderInventoryUnavailable"
        BY <2>1, <1>b, MarksAre DEF SellPoints, Ended
      <3>2. order' \in {order, "INVENTORY_UNAVAILABLE"}
        BY <2>1, <3>1, MarksAre, MarkGoesForward DEF RecordInv
      <3> QED BY <3>2, <1>a
    <2> QED BY <2>1, <1>a, OrderSteps DEF OrderStep, orderVars
  <1>7. inventory' = "COMMITTED" => payment' = "CAPTURED"
    <2>1. ASSUME NEW e \in Execs, pc[e] = "CommitInventory" PROVE payment = "CAPTURED"
      BY <2>1, <1>a DEF Execs, Replays
    <2> QED BY <2>1, <1>a, <1>4, HeldTruthStep DEF TruthInv, InventoryMoves
  <1> QED BY <1>1, <1>2, <1>3, <1>4, <1>5, <1>6, <1>7

LEMMA SellingStep ==
    ASSUME TypeInv, RecordInv, TruthInv, [Next]_vars, Selling
    PROVE  PhaseInv'
  <1>a. /\ pc[0] \in SellPoints \cup Ended /\ work[0] = NoWork /\ kind[0] = "NONE"
        /\ pc[0] \in {"InventoryCommitTiming", "CommitInventory"} => payment = "CAPTURED"
        /\ 0 \in Execs /\ 0 \notin Replays /\ \A e \in Execs : e = 0 \/ e \in Replays
    BY ConstantsAre DEF Selling, Execs, Replays
  <1>b. /\ \A n \in Replays : pc'[n] = "absent" /\ work'[n] = NoWork /\ kind'[n] = "NONE"
        /\ \A e \in Execs : handoff'[e] = "none"
        /\ record' = "NONE" /\ openWork' = NoWork
        /\ payment' \in {"NONE", "AUTHORIZED", "CAPTURED"}
        /\ payment = "CAPTURED" => payment' = "CAPTURED"
        /\ fulfillment' \in {"NONE", "RESERVED"}
        /\ order' \notin {"CONFIRMED", "CANCELLED"}
        /\ inventory' = "COMMITTED" => payment' = "CAPTURED"
    BY SellingAlone
  <1>1. ASSUME pc'[0] \in SellPoints \cup Ended, work'[0] = NoWork, kind'[0] = "NONE",
               pc'[0] \in {"InventoryCommitTiming", "CommitInventory"} => payment' = "CAPTURED"
        PROVE  Selling'
    BY <1>1, <1>a, <1>b DEF Selling
  <1>2. CASE Still(0)
    BY <1>1, <1>2, <1>a, <1>b DEF Still, PhaseInv
  <1>3. ASSUME NEW target, Sent(0, target), Moved(0, target) PROVE PhaseInv'
    <2>1. pc[0] \in SellPoints /\ target \in Targets
      BY <1>3, <1>a, RestIsStill, SentType DEF RestPoints
    <2>2. /\ target \in SellPoints \cup Ended \cup
                        {"INVENTORY_ONLY", "PAYMENT_AUTHORIZATION", "RESERVED_FULFILLMENT",
                         "CAPTURED_PAYMENT", "HandoffFulfillment"}
          /\ target = "InventoryCommitTiming" => payment' \in {"CAPTURED", "REFUNDED"}
          /\ target = "CommitInventory" => pc[0] = "InventoryCommitTiming"
          /\ target = "HandoffFulfillment" => pc[0] = "CommitInventory" /\ inventory' = "COMMITTED"
      BY <1>3, <1>a, <2>1, SellTargets
    <2>3. CASE target \in SellPoints \cup Ended
      <3>1. target \in Points
        BY <2>3 DEF SellPoints, Ended, Points, Tasks, PaymentTasks
      <3>2. pc'[0] = target /\ work'[0] = NoWork /\ kind'[0] = "NONE"
        BY <3>1, <2>1, <1>3, <1>a, DestIs DEF Moved
      <3>3. pc'[0] \in {"InventoryCommitTiming", "CommitInventory"} => payment' = "CAPTURED"
        BY <3>2, <2>2, <1>a, <1>b
      <3> QED BY <3>2, <3>3, <2>3, <1>1 DEF PhaseInv
    <2>4. CASE target \in {"INVENTORY_ONLY", "PAYMENT_AUTHORIZATION", "RESERVED_FULFILLMENT",
                           "CAPTURED_PAYMENT"}
      <3>1. target \in Kinds /\ target \notin Works
        BY <2>4 DEF Kinds, Works
      <3>2. pc'[0] = "MarkOrderCompensating" /\ work'[0] = NoWork
        BY <3>1, <2>1, <1>3, <1>a, DestIs DEF Moved
      <3>3. \A e \in Execs : pc'[e] \in RecoverPoints \cup RestPoints /\ work'[e] = NoWork
        BY <3>2, <1>a, <1>b DEF RecoverPoints, RestPoints
      <3>4. Recovering'
        BY <3>3, <1>b DEF Recovering
      <3> QED BY <3>4 DEF PhaseInv
    <2>5. CASE target = "HandoffFulfillment"
      <3>1. target \in Points
        BY <2>5 DEF Points, Tasks
      <3>2. pc'[0] = "HandoffFulfillment" /\ work'[0] = NoWork
        BY <3>1, <2>1, <2>5, <1>3, <1>a, DestIs DEF Moved
      <3>3. \A e \in Execs : /\ pc'[e] \in {"HandoffFulfillment", "absent"} /\ work'[e] = NoWork
                             /\ pc'[e] \in DeliverPoints \cup RestPoints
        BY <3>2, <1>a, <1>b DEF DeliverPoints, RestPoints
      <3>4. inventory' = "COMMITTED" /\ payment' = "CAPTURED"
        BY <2>2, <2>5, <1>a, <1>b
      <3>5. Delivering'
        BY <3>3, <3>4, <1>b DEF Delivering, NoWork
      <3> QED BY <3>5 DEF PhaseInv
    <2> QED BY <2>2, <2>3, <2>4, <2>5
  <1> QED BY <1>2, <1>3, <1>a, EveryMove DEF Moves

(* What was handed off stays so, and what a delivery rests on with it.     *)
LEMMA DeliveringHolds ==
    ASSUME TypeInv, RecordInv, TruthInv, [Next]_vars, Delivering
    PROVE  /\ fulfillment = "HANDED_OFF" => fulfillment' = "HANDED_OFF"
           /\ openWork' \in DeliverWorks \cup {NoWork}
           /\ openWork' = "OrderConfirmation" => fulfillment' = "HANDED_OFF"
           /\ inventory' = "COMMITTED" /\ payment' = "CAPTURED"
           /\ order' # "CANCELLED" /\ (order' = "CONFIRMED" => fulfillment' = "HANDED_OFF")
  <1>a. /\ \A e \in Execs :
              /\ pc[e] \in DeliverPoints \cup ClosePoints \cup RestPoints
              /\ work[e] \in DeliverWorks \cup {NoWork}
              /\ pc[e] = "MarkOrderConfirmed" \/ work[e] = "OrderConfirmation" =>
                    fulfillment = "HANDED_OFF"
        /\ openWork \in DeliverWorks \cup {NoWork}
        /\ openWork = "OrderConfirmation" => fulfillment = "HANDED_OFF"
        /\ inventory = "COMMITTED" /\ payment = "CAPTURED"
        /\ order # "CANCELLED" /\ (order = "CONFIRMED" => fulfillment = "HANDED_OFF")
    BY DEF Delivering
  <1>1. fulfillment = "HANDED_OFF" => fulfillment' = "HANDED_OFF"
    BY HeldTruthStep DEF TruthInv, CapacityMoves
  <1>2. /\ openWork' \in DeliverWorks \cup {NoWork}
        /\ openWork' = "OrderConfirmation" => fulfillment' = "HANDED_OFF"
    <2>1. CASE openWork' = openWork
      BY <2>1, <1>a, <1>1
    <2>2. ASSUME NEW e \in Execs, NEW a \in Answers, CreateWork(work[e], a)
          PROVE  /\ openWork' \in DeliverWorks \cup {NoWork}
                 /\ openWork' = "OrderConfirmation" => fulfillment' = "HANDED_OFF"
      BY <2>2, <1>a, <1>1 DEF CreateWork
    <2> QED BY <2>1, <2>2, RecordSteps DEF RecordStep, ResolveWork
  <1>3. inventory' = "COMMITTED"
    BY <1>a, HeldTruthStep DEF TruthInv, InventoryMoves
  <1>4. payment' = "CAPTURED"
    <2>1. \A e \in Execs : pc[e] \notin PaymentTasks
      BY <1>a DEF PaymentTasks, DeliverPoints, ClosePoints, RestPoints, Ended
    <2> QED BY <2>1, <1>a, PaymentTruthStep DEF TruthInv, PaymentMoves
  <1>5. order' # "CANCELLED" /\ (order' = "CONFIRMED" => fulfillment' = "HANDED_OFF")
    <2>1. ASSUME NEW e \in Execs, pc[e] \in DOMAIN Marks, MarkOrder(Marks[pc[e]])
          PROVE  order' # "CANCELLED" /\ (order' = "CONFIRMED" => fulfillment' = "HANDED_OFF")
      <3>1. pc[e] \in {"MarkOrderConfirmed", "MarkOrderReconciliationRequired"}
        BY <2>1, <1>a, MarksAre DEF DeliverPoints, ClosePoints, RestPoints, Ended
      <3>2. CASE pc[e] = "MarkOrderConfirmed"
        <4>1. order' \in {order, "CONFIRMED"}
          BY <2>1, <3>2, MarksAre, MarkGoesForward DEF RecordInv
        <4> QED BY <4>1, <3>2, <1>a, <1>1
      <3>3. CASE pc[e] = "MarkOrderReconciliationRequired"
        <4>1. order' \in {order, "RECONCILIATION_REQUIRED"}
          BY <2>1, <3>3, MarksAre, MarkGoesForward DEF RecordInv
        <4> QED BY <4>1, <1>a, <1>1
      <3> QED BY <3>1, <3>2, <3>3
    <2> QED BY <2>1, <1>a, <1>1, OrderSteps DEF OrderStep, orderVars
  <1> QED BY <1>1, <1>2, <1>3, <1>4, <1>5

LEMMA DeliveringStep ==
    ASSUME TypeInv, RecordInv, TruthInv, [Next]_vars, Delivering
    PROVE  Delivering'
  <1>a. /\ \A e \in Execs :
              /\ pc[e] \in DeliverPoints \cup ClosePoints \cup RestPoints
              /\ work[e] \in DeliverWorks \cup {NoWork}
              /\ pc[e] = "MarkOrderConfirmed" \/ work[e] = "OrderConfirmation" =>
                    fulfillment = "HANDED_OFF"
        /\ openWork \in DeliverWorks \cup {NoWork}
        /\ openWork = "OrderConfirmation" => fulfillment = "HANDED_OFF"
    BY DEF Delivering
  <1>b. fulfillment = "HANDED_OFF" => fulfillment' = "HANDED_OFF"
    BY DeliveringHolds
  <1>1. ASSUME NEW e \in Execs
        PROVE  /\ pc'[e] \in DeliverPoints \cup ClosePoints \cup RestPoints
               /\ work'[e] \in DeliverWorks \cup {NoWork}
               /\ pc'[e] = "MarkOrderConfirmed" \/ work'[e] = "OrderConfirmation" =>
                     fulfillment' = "HANDED_OFF"
    <2>1. CASE Still(e)
      BY <2>1, <1>a, <1>b DEF Still
    <2>2. ASSUME NEW target, Sent(e, target), Moved(e, target)
          PROVE  /\ pc'[e] \in DeliverPoints \cup ClosePoints \cup RestPoints
                 /\ work'[e] \in DeliverWorks \cup {NoWork}
                 /\ pc'[e] = "MarkOrderConfirmed" \/ work'[e] = "OrderConfirmation" =>
                       fulfillment' = "HANDED_OFF"
      <3>1. pc[e] \in DeliverPoints \cup ClosePoints /\ target \in Targets
        BY <2>2, <1>a, RestIsStill, SentType
      <3>2. /\ target \in DeliverPoints \cup ClosePoints \cup Ended \cup DeliverWorks
            /\ target = "MarkOrderConfirmed" => fulfillment' = "HANDED_OFF"
            /\ target = "OrderConfirmation" => pc[e] = "MarkOrderConfirmed"
        BY <2>2, <3>1, DeliverTargets
      <3>3. CASE target \in DeliverPoints \cup ClosePoints \cup Ended
        <4>1. target \in Points
          BY <3>3 DEF DeliverPoints, ClosePoints, Ended, Points, Tasks
        <4>2. pc'[e] = target /\ work'[e] = work[e]
          BY <4>1, <3>1, <2>2, DestIs DEF Moved
        <4> QED BY <4>2, <3>2, <3>3, <1>a, <1>b DEF RestPoints
      <3>4. CASE target \in DeliverWorks
        <4>1. target \in Works
          BY <3>4 DEF DeliverWorks, Works
        <4>2. pc'[e] = "MarkOrderReconciliationRequired" /\ work'[e] = target
          BY <4>1, <3>1, <2>2, DestIs DEF Moved
        <4> QED BY <4>2, <3>2, <3>4, <1>a, <1>b DEF ClosePoints
      <3> QED BY <3>2, <3>3, <3>4
    <2>3. CASE pc'[e] \in {"absent", "admitted"} /\ work'[e] = work[e]
      BY <2>3, <1>a, <1>b DEF RestPoints
    <2>4. CASE pc[e] = "admitted" /\ Entered(e)
      <3>1. openWork \in DeliverWorks
        BY <2>4, <1>a DEF RecordInv, Marked
      <3>2. /\ pc'[e] \in {"HandoffFulfillment", "MarkOrderConfirmed"} /\ work'[e] = work[e]
            /\ pc'[e] = "MarkOrderConfirmed" => openWork = "OrderConfirmation"
        BY <3>1, <2>4, RecoveryIs DEF Entered, DeliverWorks, Works
      <3> QED BY <3>2, <1>a, <1>b DEF DeliverPoints
    <2> QED BY <2>1, <2>2, <2>3, <2>4, EveryMove DEF Moves
  <1> QED BY <1>1, DeliveringHolds DEF Delivering

(* A recovery hands nothing over and confirms nothing.                     *)
LEMMA RecoveringHolds ==
    ASSUME TypeInv, RecordInv, TruthInv, [Next]_vars, Recovering
    PROVE  /\ \A e \in Execs : handoff'[e] = "none"
           /\ openWork' \in RecoverWorks \cup {NoWork}
           /\ fulfillment' # "HANDED_OFF" /\ order' # "CONFIRMED"
           /\ inventory' = "COMMITTED" => payment' \in {"CAPTURED", "REFUNDED"}
  <1>a. /\ \A e \in Execs :
              /\ pc[e] \in RecoverPoints \cup ClosePoints \cup RestPoints
              /\ work[e] \in RecoverWorks \cup {NoWork} /\ handoff[e] = "none"
        /\ openWork \in RecoverWorks \cup {NoWork}
        /\ fulfillment # "HANDED_OFF" /\ order # "CONFIRMED"
        /\ inventory = "COMMITTED" => payment \in {"CAPTURED", "REFUNDED"}
    BY DEF Recovering
  <1>1. ASSUME NEW e \in Execs PROVE handoff'[e] = "none"
    <2>1. pc[e] # "HandoffFulfillment"
      BY <1>a DEF RecoverPoints, ClosePoints, RestPoints, Ended
    <2> QED BY <2>1, <1>a, QueueMoves
  <1>2. openWork' \in RecoverWorks \cup {NoWork}
    <2>1. CASE openWork' = openWork
      BY <2>1, <1>a
    <2>2. ASSUME NEW e \in Execs, NEW a \in Answers, CreateWork(work[e], a)
          PROVE  openWork' \in RecoverWorks \cup {NoWork}
      BY <2>2, <1>a DEF CreateWork
    <2> QED BY <2>1, <2>2, RecordSteps DEF RecordStep, ResolveWork
  <1>3. fulfillment' # "HANDED_OFF"
    <2>1. \A e \in Execs : handoff[e] # "working"
      BY <1>a
    <2> QED BY <2>1, <1>a, HeldTruthStep DEF TruthInv, CapacityMoves
  <1>4. order' # "CONFIRMED"
    <2>1. ASSUME NEW e \in Execs, pc[e] \in DOMAIN Marks, MarkOrder(Marks[pc[e]])
          PROVE  order' # "CONFIRMED"
      <3>1. Marks[pc[e]] \in {"COMPENSATING", "CANCELLED", "RECONCILIATION_REQUIRED"}
        BY <2>1, <1>a, MarksAre DEF RecoverPoints, ClosePoints, RestPoints, Ended
      <3>2. order' \in {order, Marks[pc[e]]}
        BY <2>1, <3>1, MarkGoesForward DEF RecordInv
      <3> QED BY <3>1, <3>2, <1>a
    <2> QED BY <2>1, <1>a, OrderSteps DEF OrderStep, orderVars
  <1>5. inventory' = "COMMITTED" => payment' \in {"CAPTURED", "REFUNDED"}
    <2>1. \A e \in Execs : pc[e] \notin {"CommitInventory", "AuthorizePayment", "CapturePayment"}
      BY <1>a DEF RecoverPoints, ClosePoints, RestPoints, Ended
    <2>2. inventory' = "COMMITTED" => inventory = "COMMITTED"
      BY <2>1, HeldTruthStep DEF TruthInv, InventoryMoves
    <2>3. CASE payment' = payment
      BY <2>2, <2>3, <1>a
    <2>4. ASSUME NEW e \in Execs, pc[e] \in PaymentTasks, payment = Prerequisite(pc[e]),
                 payment' = Expected(pc[e])
          PROVE  inventory' = "COMMITTED" => payment' \in {"CAPTURED", "REFUNDED"}
      <3>1. pc[e] \in {"CancelPayment", "RefundPayment"}
        BY <2>1, <2>4 DEF PaymentTasks
      <3> QED BY <3>1, <2>2, <2>4, <1>a DEF Prerequisite, Expected
    <2> QED BY <2>3, <2>4, PaymentTruthStep DEF TruthInv, PaymentMoves
  <1> QED BY <1>1, <1>2, <1>3, <1>4, <1>5

LEMMA RecoveringStep ==
    ASSUME TypeInv, RecordInv, TruthInv, [Next]_vars, Recovering
    PROVE  Recovering'
  <1>a. /\ \A e \in Execs :
              /\ pc[e] \in RecoverPoints \cup ClosePoints \cup RestPoints
              /\ work[e] \in RecoverWorks \cup {NoWork}
        /\ openWork \in RecoverWorks \cup {NoWork}
    BY DEF Recovering
  <1>b. fulfillment' # "HANDED_OFF"
    BY RecoveringHolds
  <1>1. ASSUME NEW e \in Execs
        PROVE  /\ pc'[e] \in RecoverPoints \cup ClosePoints \cup RestPoints
               /\ work'[e] \in RecoverWorks \cup {NoWork}
    <2>1. CASE Still(e)
      BY <2>1, <1>a DEF Still
    <2>2. ASSUME NEW target, Sent(e, target), Moved(e, target)
          PROVE  /\ pc'[e] \in RecoverPoints \cup ClosePoints \cup RestPoints
                 /\ work'[e] \in RecoverWorks \cup {NoWork}
      <3>1. pc[e] \in RecoverPoints \cup ClosePoints /\ target \in Targets
        BY <2>2, <1>a, RestIsStill, SentType
      <3>2. target \in RecoverPoints \cup ClosePoints \cup Ended \cup RecoverWorks
        BY <2>2, <3>1, <1>b, RecoverTargets
      <3>3. CASE target \in RecoverPoints \cup ClosePoints \cup Ended
        <4>1. target \in Points
          BY <3>3 DEF RecoverPoints, ClosePoints, Ended, Points, Tasks, PaymentTasks
        <4>2. pc'[e] = target /\ work'[e] = work[e]
          BY <4>1, <3>1, <2>2, DestIs DEF Moved
        <4> QED BY <4>2, <3>3, <1>a DEF RestPoints
      <3>4. CASE target \in RecoverWorks
        <4>1. target \in Works
          BY <3>4 DEF RecoverWorks
        <4>2. pc'[e] = "MarkOrderReconciliationRequired" /\ work'[e] = target
          BY <4>1, <3>1, <2>2, DestIs DEF Moved
        <4> QED BY <4>2, <3>4 DEF ClosePoints
      <3> QED BY <3>2, <3>3, <3>4
    <2>3. CASE pc'[e] \in {"absent", "admitted"} /\ work'[e] = work[e]
      BY <2>3, <1>a DEF RestPoints
    <2>4. CASE Entered(e)
      <3>1. openWork \in Works \cup {NoWork}
        BY <1>a DEF RecoverWorks
      <3>2. pc'[e] \in RecoverPoints /\ work'[e] = work[e]
        BY <3>1, <2>4, <1>a, RecoveryIs DEF Entered
      <3> QED BY <3>2, <1>a
    <2> QED BY <2>1, <2>2, <2>3, <2>4, EveryMove DEF Moves
  <1> QED BY <1>1, RecoveringHolds DEF Recovering

LEMMA PhaseInit == Init => PhaseInv
  <1> SUFFICES ASSUME Init PROVE Selling
    BY DEF PhaseInv
  <1>1. pc[0] = "CreatePendingOrder" /\ \A n \in Replays : pc[n] = "absent"
    BY ConstantsAre DEF Init
  <1> QED BY <1>1 DEF Init, ServicesInit, Selling, SellPoints

LEMMA PhaseKept == TypeInv /\ RecordInv /\ TruthInv /\ PhaseInv /\ [Next]_vars => PhaseInv'
  BY SellingStep, DeliveringStep, RecoveringStep DEF PhaseInv

(* A checkout is sold by its own execution; once anything is committed to  *)
(* be delivered nobody takes it back, once anything is taken back nobody   *)
(* delivers it, whatever replays run beside each other.                    *)
THEOREM PhasesHold == Spec => [](TypeInv /\ RecordInv /\ TruthInv /\ PhaseInv)
  <1>1. Init => TypeInv /\ RecordInv /\ TruthInv /\ PhaseInv
    BY TypeInit, RecordInit, TruthInit, PhaseInit
  <1>2. /\ TypeInv /\ RecordInv /\ TruthInv /\ PhaseInv
        /\ [Next]_vars
        => (TypeInv /\ RecordInv /\ TruthInv /\ PhaseInv)'
    BY TypeStep, RecordKept, TruthKept, PhaseKept
  <1> QED BY <1>1, <1>2, PTL DEF Spec

(* Nothing is committed that was not paid, nothing is handed over that was *)
(* refunded or not committed, and an order shows CONFIRMED only when it    *)
(* was handed over.                                                        *)
THEOREM NothingUnpaidShips == Spec => []NothingShipsUnpaid
  <1>1. PhaseInv => NothingShipsUnpaid
    BY DEF PhaseInv, Selling, Delivering, Recovering, NothingShipsUnpaid
  <1> QED BY <1>1, PhasesHold, PTL

-----------------------------------------------------------------------------
(***************************************************************************)
(* Recovery in reverse order, where an error of the provider tells that it *)
(* did nothing                                                             *)
(***************************************************************************)
(* What is given back stays so once the sale is over.                      *)
LEMMA UndoneStays ==
    ASSUME TypeInv, RecordInv, TruthInv, [Next]_vars
    PROVE  /\ inventory = "RELEASED" => inventory' = "RELEASED"
           /\ PaymentUndone /\ (\A e \in Execs : pc[e] # "AuthorizePayment") => PaymentUndone'
           /\ CapacityUndone /\ (\A e \in Execs : pc[e] # "ReserveFulfillment") => CapacityUndone'
  <1>1. inventory = "RELEASED" => inventory' = "RELEASED"
    BY HeldTruthStep DEF TruthInv, InventoryMoves
  <1>2. ASSUME PaymentUndone, \A e \in Execs : pc[e] # "AuthorizePayment"
        PROVE  PaymentUndone'
    <2>1. CASE payment' = payment
      BY <1>2, <2>1 DEF PaymentUndone
    <2>2. ASSUME NEW e \in Execs, pc[e] \in PaymentTasks, payment = Prerequisite(pc[e]),
                 payment' = Expected(pc[e])
          PROVE  PaymentUndone'
      <3>1. pc[e] \in {"CapturePayment", "CancelPayment", "RefundPayment"}
        BY <1>2, <2>2 DEF PaymentTasks
      <3> QED BY <3>1, <1>2, <2>2 DEF Prerequisite, Expected, PaymentUndone
    <2> QED BY <2>1, <2>2, PaymentTruthStep DEF TruthInv, PaymentMoves
  <1>3. ASSUME CapacityUndone, \A e \in Execs : pc[e] # "ReserveFulfillment"
        PROVE  CapacityUndone'
    BY <1>3, HeldTruthStep DEF TruthInv, CapacityMoves, CapacityUndone
  <1> QED BY <1>1, <1>2, <1>3

(* Where a recovery goes on rests on what it gave back.                    *)
RestsOn(e, target) ==
    /\ target \in {"ReleaseInventory", "MarkOrderCancelled", "InventoryRelease"} => PaymentUndone'
    /\ target \in {"ReleaseInventory", "MarkOrderCancelled", "CancelPayment", "InventoryRelease",
                   "PaymentCancellation"} => CapacityUndone'
    /\ target = "CancelFulfillment" /\ kind[e] = "CAPTURED_PAYMENT" => PaymentUndone'
    /\ target = "MarkOrderCancelled" => inventory' = "RELEASED"

LEMMA RecoverRests ==
    ASSUME TypeInv, TruthInv, [Next]_vars, NEW e \in Execs, NEW target, Sent(e, target),
           pc[e] \in RecoverPoints \cup ClosePoints,
           KindUndone(kind[e]), PointUndone(pc[e], kind[e]),
           PaymentUndone => PaymentUndone', CapacityUndone => CapacityUndone'
    PROVE  RestsOn(e, target)
  <1>a. LedgersOK
    BY DEF TypeInv
  <1>1. CASE AfterAnswer(e, target)
    <2>1. PICK a \in Answers : Call(e, a) /\ target = Route(e, a)
      BY <1>1 DEF AfterAnswer
    <2>2. CASE pc[e] = "MarkOrderCompensating"
      <3>1. target = FirstCompensation(kind[e])
        BY <2>1, <2>2, RouteIs
      <3>2. \/ target = "ReleaseInventory" /\ kind[e] = "INVENTORY_ONLY"
            \/ target = "CancelPayment" /\ kind[e] = "PAYMENT_AUTHORIZATION"
            \/ target = "CancelFulfillment" /\ kind[e] = "RESERVED_FULFILLMENT"
            \/ target = "RefundPayment"
        BY <3>1 DEF FirstCompensation
      <3> QED BY <3>2 DEF RestsOn, KindUndone
    <2>3. CASE pc[e] = "CancelPayment"
      <3>1. target = IF a[1] = "CANCELLED" THEN "ReleaseInventory" ELSE "PaymentCancellation"
        BY <2>1, <2>3, RouteIs
      <3>2. PaymentCall(Op(e, "CancelPayment"), a) /\ Op(e, "CancelPayment") \in Ops
            /\ Op(e, "CancelPayment")[1] \in Mutations
        BY <2>1, <2>3, OpIsOp DEF Call, Marks, PaymentTasks, Verbs, Mutations
      <3>3. payment' \in After(a[1])
        BY <3>2, <1>a, PaymentCallTruth DEF TruthInv
      <3>4. a[1] = "CANCELLED" => PaymentUndone'
        BY <3>3 DEF After, PaymentUndone
      <3> QED BY <3>1, <3>4, <2>3 DEF RestsOn, PointUndone
    <2>4. CASE pc[e] = "RefundPayment"
      <3>1. target = IF a[1] = "REFUNDED" THEN "CancelFulfillment" ELSE "PaymentRefund"
        BY <2>1, <2>4, RouteIs DEF AfterRefund
      <3>2. PaymentCall(Op(e, "RefundPayment"), a) /\ Op(e, "RefundPayment") \in Ops
            /\ Op(e, "RefundPayment")[1] \in Mutations
        BY <2>1, <2>4, OpIsOp DEF Call, Marks, PaymentTasks, Verbs, Mutations
      <3>3. payment' \in After(a[1])
        BY <3>2, <1>a, PaymentCallTruth DEF TruthInv
      <3>4. a[1] = "REFUNDED" => PaymentUndone'
        BY <3>3 DEF After, PaymentUndone
      <3> QED BY <3>1, <3>4 DEF RestsOn
    <2>5. CASE pc[e] = "CancelFulfillment"
      <3>1. target = AfterCancellation(e, a)
        BY <2>1, <2>5, RouteIs
      <3>2. FulfillmentCall(Op(e, "CancelFulfillment"), a) /\ Op(e, "CancelFulfillment") \in Ops
            /\ Op(e, "CancelFulfillment")[1] \in CapacityTasks
        BY <2>1, <2>5, OpIsOp DEF Call, Marks, PaymentTasks, Verbs, CapacityTasks
      <3>3. HeldTruth' /\ results'[Op(e, "CancelFulfillment")] = a
        BY <3>2, <1>a, FulfillmentCallTruth DEF TruthInv
      <3>4. a = Answer("CANCELLED") => CapacityUndone'
        BY <3>2, <3>3 DEF HeldTruth, Answer, CapacityUndone
      <3>5. \/ /\ a = Answer("CANCELLED")
               /\ target = IF kind[e] = "CAPTURED_PAYMENT" THEN "ReleaseInventory" ELSE "CancelPayment"
            \/ target \in {"FulfillmentHandoff", "CapturedFulfillmentCancellation",
                           "FulfillmentCancellation"}
        BY <3>1 DEF AfterCancellation, CancellationWork
      <3> QED BY <3>4, <3>5, <2>5 DEF RestsOn, PointUndone
    <2>6. CASE pc[e] = "ReleaseInventory"
      <3>1. target = AfterRelease(a) /\ InventoryCall(Op(e, "ReleaseInventory"), a)
            /\ Op(e, "ReleaseInventory") \in Ops /\ Op(e, "ReleaseInventory")[1] \in HeldTasks
        BY <2>1, <2>6, RouteIs, OpIsOp DEF Call, Marks, PaymentTasks, Verbs, HeldTasks
      <3>2. HeldTruth' /\ results'[Op(e, "ReleaseInventory")] = a
        BY <3>1, <1>a, InventoryCallTruth DEF TruthInv
      <3>3. a[1] = "RELEASED" \/ a[2] = "RELEASED" => inventory' = "RELEASED"
        BY <3>1, <3>2 DEF HeldTruth
      <3>4. /\ target \in {"MarkOrderCancelled", "InventoryRelease"}
            /\ target = "MarkOrderCancelled" => inventory' = "RELEASED"
        BY <3>1, <3>3 DEF AfterRelease, Answer, NotActive
      <3>5. PaymentUndone' /\ CapacityUndone'
        BY <2>6 DEF PointUndone
      <3> QED BY <3>4, <3>5 DEF RestsOn
    <2>7. CASE pc[e] \in {"MarkOrderCancelled"} \cup ClosePoints
      <3>1. target \in {"Succeeded", "ResolveReconciliation", "CreateReconciliation", "Failed"}
        BY <2>1, <2>7, RouteIs, AfterIs DEF ClosePoints
      <3> QED BY <3>1 DEF RestsOn
    <2> QED BY <2>2, <2>3, <2>4, <2>5, <2>6, <2>7 DEF RecoverPoints
  <1>2. CASE AfterError(e, target)
    <2>1. PICK err : target = CatchTarget(e, err)
      BY <1>2 DEF AfterError
    <2>2. \/ target = "InventoryRelease" /\ pc[e] = "ReleaseInventory"
          \/ target = "PaymentCancellation" /\ pc[e] = "CancelPayment"
          \/ target \in {"PaymentRefund", "Failed", "CapturedFulfillmentCancellation",
                         "FulfillmentCancellation"}
      BY <2>1, CatchIs, AfterIs DEF RecoverPoints, ClosePoints
    <2> QED BY <2>2 DEF RestsOn, PointUndone
  <1>3. CASE AfterTiming(e, target) \/ AfterStop(e, target) \/ AfterHandoff(e, target)
    BY <1>3 DEF AfterTiming, AfterStop, AfterHandoff, RecoverPoints, ClosePoints, RestsOn
  <1> QED BY <1>1, <1>2, <1>3 DEF Sent

(* What every execution and the record know of what was given back.        *)
ExecUndone(e) == WorkUndone(work[e]) /\ KindUndone(kind[e]) /\ PointUndone(pc[e], kind[e])

LEMMA RecoverExec ==
    ASSUME TypeInv, RecordInv, TruthInv, UndoneInv, Recovering, [Next]_vars, NEW e \in Execs,
           PaymentUndone => PaymentUndone', CapacityUndone => CapacityUndone'
    PROVE  ExecUndone(e)'
  <1>a. /\ pc[e] \in RecoverPoints \cup ClosePoints \cup RestPoints
        /\ openWork \in RecoverWorks \cup {NoWork}
    BY DEF Recovering
  <1>b. ExecUndone(e) /\ WorkUndone(openWork)
    BY DEF UndoneInv, ExecUndone
  <1>c. inventory = "RELEASED" => inventory' = "RELEASED"
    BY UndoneStays
  <1>1. CASE Still(e)
    BY <1>1, <1>b, <1>c DEF Still, ExecUndone, WorkUndone, KindUndone, PointUndone
  <1>2. ASSUME NEW target, Sent(e, target), Moved(e, target) PROVE ExecUndone(e)'
    <2>1. pc[e] \in RecoverPoints \cup ClosePoints /\ target \in Targets
      BY <1>2, <1>a, RestIsStill, SentType
    <2>2. fulfillment' # "HANDED_OFF"
      BY RecoveringHolds
    <2>3. target \in RecoverPoints \cup ClosePoints \cup Ended \cup RecoverWorks
      BY <1>2, <2>1, <2>2, RecoverTargets
    <2>4. RestsOn(e, target)
      BY <1>2, <2>1, <1>b, RecoverRests DEF ExecUndone
    <2>5. CASE target \in RecoverPoints \cup ClosePoints \cup Ended
      <3>1. target \in Points
        BY <2>5 DEF RecoverPoints, ClosePoints, Ended, Points, Tasks, PaymentTasks
      <3>2. pc'[e] = target /\ work'[e] = work[e] /\ kind'[e] = kind[e]
        BY <3>1, <2>1, <1>2, DestIs DEF Moved
      <3> QED BY <3>2, <2>4, <1>b DEF RestsOn, ExecUndone, WorkUndone, KindUndone, PointUndone
    <2>6. CASE target \in RecoverWorks
      <3>1. target \in Works
        BY <2>6 DEF RecoverWorks
      <3>2. pc'[e] = "MarkOrderReconciliationRequired" /\ work'[e] = target /\ kind'[e] = kind[e]
        BY <3>1, <2>1, <1>2, DestIs DEF Moved
      <3> QED BY <3>2, <2>4, <1>b DEF RestsOn, ExecUndone, WorkUndone, KindUndone, PointUndone
    <2> QED BY <2>3, <2>5, <2>6
  <1>3. CASE pc'[e] \in {"absent", "admitted"} /\ work'[e] = work[e] /\ kind'[e] = kind[e]
    BY <1>3, <1>b DEF ExecUndone, WorkUndone, KindUndone, PointUndone
  <1>4. CASE Entered(e)
    <2>1. \/ openWork = "InventoryRelease" /\ kind'[e] = "INVENTORY_ONLY" /\ pc'[e] = "ReleaseInventory"
          \/ openWork = "PaymentCancellation" /\ kind'[e] = "PAYMENT_AUTHORIZATION"
             /\ pc'[e] = "CancelPayment"
          \/ kind'[e] = "RESERVED_FULFILLMENT" /\ pc'[e] = "CancelFulfillment"
          \/ kind'[e] \in {"CAPTURED_PAYMENT", "NONE"} /\ pc'[e] = "RefundPayment"
      BY <1>4, <1>a DEF Entered, RecoveryStep, RecoveryKind, FirstCompensation, RecoverWorks, Works,
                        DeliverWorks, NoWork
    <2> QED BY <2>1, <1>4, <1>b DEF Entered, ExecUndone, WorkUndone, KindUndone, PointUndone
  <1> QED BY <1>1, <1>2, <1>3, <1>4, EveryMove DEF Moves

(* How a sale comes to authorize, and to give up before it captured.       *)
LEMMA SellSources ==
    ASSUME TypeInv, NEW e \in Execs, NEW target, Sent(e, target), pc[e] \in SellPoints
    PROVE  /\ target # "CreatePendingOrder"
           /\ target = "ReserveInventory" => pc[e] = "CreatePendingOrder"
           /\ target = "AuthorizePayment" => pc[e] = "ReserveInventory"
           /\ target = "INVENTORY_ONLY" =>
                 /\ pc[e] = "AuthorizePayment"
                 /\ \/ \E a \in Answers : PaymentCall(Op(e, pc[e]), a) /\ a[1] = "REJECTED"
                    \/ Stripe \/ PaymentBegun(Op(e, pc[e]))
           /\ target = "PAYMENT_AUTHORIZATION" =>
                 /\ pc[e] = "ReserveFulfillment"
                 /\ \E a \in Answers : FulfillmentCall(Op(e, pc[e]), a) /\ a[1] # "RESERVED"
  <1>1. CASE AfterAnswer(e, target)
    <2>1. PICK a \in Answers : Call(e, a) /\ target = Route(e, a)
      BY <1>1 DEF AfterAnswer
    <2>2. CASE pc[e] \in {"CreatePendingOrder", "MarkOrderInventoryUnavailable"}
      <3>1. /\ pc[e] = "CreatePendingOrder" => target = "ReserveInventory"
            /\ pc[e] = "MarkOrderInventoryUnavailable" => target = "Succeeded"
        BY <2>1, RouteIs
      <3> QED BY <3>1, <2>2
    <2>3. CASE pc[e] \in {"ReserveInventory", "CapturePayment", "RetrievePaymentAfterCaptureFailure",
                          "CommitInventory"}
      <3>1. /\ target \in {"AuthorizePayment", "MarkOrderInventoryUnavailable", "Failed",
                           "InventoryCommitTiming", "RetrievePaymentAfterCaptureFailure",
                           "CAPTURED_PAYMENT", "RESERVED_FULFILLMENT", "HandoffFulfillment"}
            /\ target = "AuthorizePayment" => pc[e] = "ReserveInventory"
        BY <2>1, <2>3, RouteIs, AfterIs
      <3> QED BY <3>1
    <2>4. CASE pc[e] = "AuthorizePayment"
      <3>1. PaymentCall(Op(e, pc[e]), a) /\ target = AfterAuthorization(a[1])
        BY <2>1, <2>4, RouteIs DEF Call, Marks, PaymentTasks
      <3>2. /\ target \in {"ReserveFulfillment", "INVENTORY_ONLY", "Failed"}
            /\ target = "INVENTORY_ONLY" => a[1] = "REJECTED"
        BY <3>1 DEF AfterAuthorization
      <3> QED BY <3>1, <3>2, <2>4
    <2>5. CASE pc[e] = "ReserveFulfillment"
      <3>1. /\ FulfillmentCall(Op(e, pc[e]), a)
            /\ target = IF a[1] = "RESERVED" THEN "CapturePayment" ELSE "PAYMENT_AUTHORIZATION"
        BY <2>1, <2>5, RouteIs DEF Call, Marks, PaymentTasks
      <3> QED BY <3>1, <2>5
    <2>6. pc[e] \in Tasks
      BY <2>1, CallAtTask
    <2> QED BY <2>2, <2>3, <2>4, <2>5, <2>6 DEF SellPoints, Tasks, PaymentTasks
  <1>2. CASE AfterError(e, target)
    <2>1. PICK err : /\ target = CatchTarget(e, err)
                     /\ err = "provider" => Stripe \/ PaymentBegun(Op(e, pc[e]))
      BY <1>2 DEF AfterError
    <2>2. /\ target \in {"INVENTORY_ONLY", "Failed", "RetrievePaymentAfterCaptureFailure",
                         "CAPTURED_PAYMENT"}
          /\ target = "INVENTORY_ONLY" => pc[e] = "AuthorizePayment" /\ err = "provider"
      BY <2>1, CatchIs DEF SellPoints
    <2> QED BY <2>1, <2>2
  <1>3. CASE AfterTiming(e, target) \/ AfterStop(e, target)
    BY <1>3 DEF AfterTiming, AfterStop
  <1>4. CASE AfterHandoff(e, target)
    BY <1>4 DEF AfterHandoff, SellPoints
  <1> QED BY <1>1, <1>2, <1>3, <1>4 DEF Sent

(* An authorization that was rejected, or failed before it did anything,   *)
(* has charged nothing.                                                    *)
LEMMA RejectedIsUnpaid ==
    ASSUME TypeInv, TruthInv, Unpaid, pc[0] = "AuthorizePayment",
           \/ \E a \in Answers : PaymentCall(AuthorizeOp, a) /\ a[1] = "REJECTED"
           \/ PaymentBegun(AuthorizeOp)
    PROVE  payment' = "NONE"
  <1>a. /\ active \in {NoOp, AuthorizeOp}
        /\ payOps[AuthorizeOp] = "ABSENT" => payment = "NONE"
        /\ payOps[AuthorizeOp] = "REJECTED" => keys["AuthorizePayment"] = "REJECTED"
        /\ payment # "NONE" => keys["AuthorizePayment"] = "APPLIED"
        /\ payOps[AuthorizeOp] = "IN_PROGRESS" <=> active = AuthorizeOp
        /\ AuthorizeOp[1] = "AuthorizePayment" /\ AuthorizeOp # NoOp
    BY CapacityOpIsOp, ConstantsAre
       DEF Unpaid, TruthInv, PayTruth, TypeInv, LedgersOK, ServicesOK, AuthorizeOp
  <1>b. Expected("AuthorizePayment") = "AUTHORIZED" /\ Prerequisite("AuthorizePayment") = "NONE"
    BY DEF Expected, Prerequisite
  <1>1. CASE PaymentBegun(AuthorizeOp)
    <2>1. ~PayRecorded(AuthorizeOp) /\ MayInvoke(AuthorizeOp) /\ payment' = payment
      BY <1>1 DEF PaymentBegun
    <2>2. CASE active = AuthorizeOp
      <3>1. Classify("AuthorizePayment") = "NOT_APPLIED"
        BY <2>1, <2>2, <1>a DEF MayInvoke
      <3>2. payment = "NONE"
        BY <3>1, <1>b DEF Classify
      <3> QED BY <3>2, <2>1
    <2>3. CASE active = NoOp
      BY <2>1, <2>3, <1>a DEF PayRecorded
    <2> QED BY <2>2, <2>3, <1>a
  <1>2. ASSUME NEW a \in Answers, PaymentCall(AuthorizeOp, a), a[1] = "REJECTED"
        PROVE  payment' = "NONE"
    <2>1. CASE PayRecorded(AuthorizeOp) /\ a = Answer(payOps[AuthorizeOp]) /\ UNCHANGED payVars
      <3>1. payOps[AuthorizeOp] = "REJECTED" /\ payment' = payment
        BY <2>1, <1>2 DEF Answer, payVars
      <3> QED BY <3>1, <1>a
    <2>2. ASSUME NEW s \in ProviderAnswers(AuthorizeOp[1]), a = Answer(s),
                 ProviderApply(AuthorizeOp[1], s)
          PROVE  payment' = "NONE"
      <3>1. s = "REJECTED"
        BY <2>2, <1>2 DEF Answer
      <3>2. keys["AuthorizePayment"] # "APPLIED"
        BY <3>1, <1>a, <1>b DEF ProviderAnswers
      <3> QED BY <3>1, <3>2, <2>2, <1>a DEF ProviderApply
    <2>3. a \notin {Answer(Expected(AuthorizeOp[1])), Answer("RECONCILIATION_REQUIRED")}
      BY <1>2, <1>a, <1>b DEF Answer
    <2> QED BY <1>2, <2>1, <2>2, <2>3 DEF PaymentCall
  <1> QED BY <1>1, <1>2

(* What the workflow knows before it has authorized stays true.            *)
LEMMA EarlyPayment ==
    ASSUME TypeInv, Selling, Unpaid, [Next]_vars
    PROVE  /\ pc[0] \in {"CreatePendingOrder", "ReserveInventory"} => UNCHANGED payVars
           /\ pc[0] = "AuthorizePayment" =>
                 /\ active' \in {NoOp, AuthorizeOp}
                 /\ payOps'[AuthorizeOp] = "ABSENT" => payment' = "NONE"
                 /\ payOps'[AuthorizeOp] = "REJECTED" => keys'["AuthorizePayment"] = "REJECTED"
  <1>a. \A e \in Execs : e # 0 => pc[e] = "absent"
    BY DEF Selling, Execs, Replays
  <1>b. \A e \in Execs : pc[e] \in PaymentTasks \cup {"RetrievePaymentAfterCaptureFailure"} => e = 0
    BY <1>a DEF PaymentTasks
  <1>1. CASE UNCHANGED payVars
    BY <1>1 DEF payVars, Unpaid
  <1>2. CASE pc[0] \in {"CreatePendingOrder", "ReserveInventory"}
    <2>1. \A e \in Execs : pc[e] \notin PaymentTasks \cup {"RetrievePaymentAfterCaptureFailure"}
      BY <1>2, <1>b DEF PaymentTasks
    <2> QED BY <2>1, <1>2, PaySteps DEF PayStep
  <1>3. CASE pc[0] = "AuthorizePayment" /\ ~UNCHANGED payVars
    <2>1. Op(0, "AuthorizePayment") = AuthorizeOp
      BY OpIsOp, ConstantsAre DEF AuthorizeOp, Verbs, Mutations
    <2>2. \/ \E a \in Answers : PaymentCall(AuthorizeOp, a)
          \/ PaymentBegun(AuthorizeOp) \/ PaymentUnanswered(AuthorizeOp)
      BY <2>1, <1>3, <1>b, PaySteps DEF PayStep
    <2>a. /\ payOps \in [Ops -> PayStates] /\ AuthorizeOp \in Ops /\ LedgersOK
          /\ keys \in [Mutations -> KeyStates] /\ AuthorizeOp[1] = "AuthorizePayment"
          /\ "AuthorizePayment" \in Mutations /\ AuthorizeOp # NoOp
      BY CapacityOpIsOp, ConstantsAre DEF TypeInv, LedgersOK, AuthorizeOp, Mutations
    <2>3. CASE PaymentBegun(AuthorizeOp) \/ PaymentUnanswered(AuthorizeOp)
      <3>1. active' = AuthorizeOp /\ payOps' = Written(AuthorizeOp, "IN_PROGRESS")
        BY <2>3 DEF PaymentBegun, PaymentUnanswered, Written
      <3>2. payOps'[AuthorizeOp] = "IN_PROGRESS"
        BY <3>1, <2>a, WrittenType DEF PayStates
      <3> QED BY <3>1, <3>2, <1>3
    <2>4. ASSUME NEW a \in Answers, PaymentCall(AuthorizeOp, a)
          PROVE  /\ active' \in {NoOp, AuthorizeOp}
                 /\ payOps'[AuthorizeOp] # "ABSENT"
                 /\ payOps'[AuthorizeOp] = "REJECTED" => keys'["AuthorizePayment"] = "REJECTED"
      <3>1. ASSUME NEW s \in ProviderAnswers(AuthorizeOp[1]), active' = NoOp,
                   ProviderApply(AuthorizeOp[1], s), payOps' = Written(AuthorizeOp, s)
            PROVE  /\ active' \in {NoOp, AuthorizeOp} /\ payOps'[AuthorizeOp] # "ABSENT"
                   /\ payOps'[AuthorizeOp] = "REJECTED" => keys'["AuthorizePayment"] = "REJECTED"
        <4>1. s \in PayStates \ {"ABSENT", "IN_PROGRESS"}
          BY <3>1, <2>a, ProviderType
        <4>2. payOps'[AuthorizeOp] = s
          BY <4>1, <3>1, <2>a, WrittenType
        <4>3. s = "REJECTED" => keys'["AuthorizePayment"] = "REJECTED"
          BY <3>1, <2>a DEF ProviderApply
        <4> QED BY <4>1, <4>2, <4>3, <3>1
      <3>2. ASSUME active = AuthorizeOp, payOps' = Settled, active' = NoOp
            PROVE  payOps'[AuthorizeOp] = "AUTHORIZED"
        BY <3>2, <2>a, SettledType DEF Expected
      <3> QED BY <2>4, <1>3, <3>1, <3>2 DEF PaymentCall, Written
    <2> QED BY <2>2, <2>3, <2>4, <1>3
  <1> QED BY <1>1, <1>2, <1>3

LEMMA EarlyCapacity ==
    ASSUME TypeInv, TruthInv, Selling, Unpaid, [Next]_vars
    PROVE  /\ pc[0] # "ReserveFulfillment" => fulfillment' = fulfillment
           /\ pc[0] \in SellPoints => fulfillment' = "NONE" \/ results'[CapacityOp] = Answer("RESERVED")
  <1>a. /\ \A e \in Execs : e # 0 => pc[e] = "absent"
        /\ \A e \in Execs : handoff[e] = "none"
        /\ pc[0] \in SellPoints \cup Ended
    BY DEF Selling, Execs, Replays
  <1>b. \A e \in Execs : pc[e] # "CancelFulfillment" /\ handoff[e] # "working"
    BY <1>a DEF SellPoints, Ended
  <1>c. CapacityMoves /\ \A o \in Ops : results[o] # NoAnswer => results'[o] = results[o]
    BY HeldTruthStep DEF TruthInv
  <1>d. Op(0, "ReserveFulfillment") = CapacityOp /\ CapacityOp \in Ops
    BY OpIsOp, CapacityOpIsOp, ConstantsAre DEF CapacityOp, Verbs
  <1>1. CASE fulfillment' = fulfillment
    BY <1>1, <1>c, <1>d DEF Unpaid, NoAnswer, Answer
  <1>2. CASE fulfillment' # fulfillment
    <2>1. pc[0] = "ReserveFulfillment" /\ results'[CapacityOp] = Answer("RESERVED")
      BY <1>2, <1>a, <1>b, <1>c, <1>d DEF CapacityMoves
    <2> QED BY <2>1
  <1> QED BY <1>1, <1>2

(* One step of a sale: what it knew stays true, and a compensation begins  *)
(* with nothing charged or nothing reserved, as its kind says.             *)
LEMMA SellingUndone ==
    ASSUME ~Stripe, TypeInv, RecordInv, TruthInv, UndoneInv, Selling, [Next]_vars
    PROVE  Unpaid' /\ KindUndone(kind[0])'
  <1>a. /\ Unpaid /\ pc[0] \in SellPoints \cup Ended /\ kind[0] = "NONE" /\ 0 \in Execs
        /\ 0 \notin Replays
    BY ConstantsAre DEF UndoneInv, Selling
  <1>b. /\ pc[0] \in {"CreatePendingOrder", "ReserveInventory"} => UNCHANGED payVars
        /\ pc[0] = "AuthorizePayment" =>
              /\ active' \in {NoOp, AuthorizeOp}
              /\ payOps'[AuthorizeOp] = "ABSENT" => payment' = "NONE"
              /\ payOps'[AuthorizeOp] = "REJECTED" => keys'["AuthorizePayment"] = "REJECTED"
    BY <1>a, EarlyPayment
  <1>c. /\ pc[0] # "ReserveFulfillment" => fulfillment' = fulfillment
        /\ pc[0] \in SellPoints => fulfillment' = "NONE" \/ results'[CapacityOp] = Answer("RESERVED")
    BY <1>a, EarlyCapacity
  <1>d. UNCHANGED payVars => /\ payment' = payment /\ payOps' = payOps /\ active' = active
    BY DEF payVars
  <1>1. CASE Still(0)
    BY <1>1, <1>a, <1>b, <1>c, <1>d DEF Still, Unpaid, KindUndone, Ended, SellPoints
  <1>2. ASSUME NEW target, Sent(0, target), Moved(0, target) PROVE Unpaid' /\ KindUndone(kind[0])'
    <2>1. pc[0] \in SellPoints /\ target \in Targets
      BY <1>2, <1>a, RestIsStill, SentType DEF RestPoints
    <2>2. /\ target # "CreatePendingOrder"
          /\ target = "ReserveInventory" => pc[0] = "CreatePendingOrder"
          /\ target = "AuthorizePayment" => pc[0] = "ReserveInventory"
      BY <1>2, <1>a, <2>1, SellSources
    <2>3. CASE target \in Points
      <3>1. pc'[0] = target /\ kind'[0] = "NONE"
        BY <2>3, <2>1, <1>2, <1>a, DestIs DEF Moved
      <3>2. CASE target = "ReserveInventory"
        BY <3>1, <3>2, <2>2, <1>a, <1>b, <1>c, <1>d DEF Unpaid, KindUndone, SellPoints
      <3>3. CASE target = "AuthorizePayment"
        BY <3>1, <3>3, <2>2, <1>a, <1>b, <1>c, <1>d DEF Unpaid, KindUndone, SellPoints
      <3>4. CASE target \notin {"ReserveInventory", "AuthorizePayment"}
        BY <3>1, <3>4, <2>1, <2>2, <1>c DEF Unpaid, KindUndone
      <3> QED BY <3>2, <3>3, <3>4
    <2>4. CASE target \in Works
      <3>1. pc'[0] = "MarkOrderReconciliationRequired" /\ kind'[0] = "NONE"
        BY <2>4, <2>1, <1>2, <1>a, DestIs DEF Moved
      <3> QED BY <3>1 DEF Unpaid, KindUndone, SellPoints
    <2>5. CASE target \in Kinds
      <3>1. pc'[0] = "MarkOrderCompensating" /\ kind'[0] = target
        BY <2>5, <2>1, <1>2, <1>a, DestIs DEF Moved
      <3>2. Unpaid'
        BY <3>1 DEF Unpaid, SellPoints
      <3>3. CASE target = "INVENTORY_ONLY"
        <4>1. /\ pc[0] = "AuthorizePayment"
              /\ \/ \E a \in Answers : PaymentCall(Op(0, pc[0]), a) /\ a[1] = "REJECTED"
                 \/ PaymentBegun(Op(0, pc[0]))
          BY <3>3, <2>1, <1>2, <1>a, SellSources
        <4>2. Op(0, "AuthorizePayment") = AuthorizeOp
          BY OpIsOp, ConstantsAre DEF AuthorizeOp, Verbs, Mutations
        <4>3. payment' = "NONE"
          BY <4>1, <4>2, <1>a, RejectedIsUnpaid
        <4>4. fulfillment' = "NONE"
          BY <4>1, <1>a, <1>c DEF Unpaid
        <4> QED BY <4>3, <4>4, <3>2 DEF KindUndone, PaymentUndone, CapacityUndone
      <3>4. CASE target = "PAYMENT_AUTHORIZATION"
        <4>1. PICK a \in Answers :
                 pc[0] = "ReserveFulfillment" /\ FulfillmentCall(Op(0, pc[0]), a) /\ a[1] # "RESERVED"
          BY <3>4, <2>1, <1>2, <1>a, SellSources
        <4>2. Op(0, "ReserveFulfillment") = CapacityOp /\ CapacityOp \in Ops
              /\ CapacityOp[1] = "ReserveFulfillment"
          BY OpIsOp, CapacityOpIsOp, ConstantsAre DEF CapacityOp, Verbs
        <4>3. results'[CapacityOp] = a
          BY <4>1, <4>2, FulfillmentCallTruth DEF TruthInv, TypeInv, CapacityTasks
        <4>4. fulfillment' = "NONE"
          BY <4>1, <4>3, <2>1, <1>c DEF Answer
        <4> QED BY <4>4, <3>1, <3>2, <3>4 DEF KindUndone, CapacityUndone
      <3>5. CASE target \notin {"INVENTORY_ONLY", "PAYMENT_AUTHORIZATION"}
        BY <3>1, <3>2, <3>5 DEF KindUndone
      <3> QED BY <3>3, <3>4, <3>5
    <2> QED BY <2>1, <2>3, <2>4, <2>5 DEF Targets
  <1> QED BY <1>1, <1>2, <1>a, EveryMove DEF Moves

LEMMA UndoneSelling ==
    ASSUME ~Stripe, TypeInv, RecordInv, TruthInv, UndoneInv, Selling, [Next]_vars
    PROVE  UndoneInv'
  <1>a. \A e \in Execs : e = 0 \/ e \in Replays
    BY DEF Execs, Replays
  <1>b. Unpaid' /\ KindUndone(kind[0])'
    BY SellingUndone
  <1>c. /\ \A n \in Replays : pc'[n] = "absent" /\ work'[n] = NoWork /\ kind'[n] = "NONE"
        /\ openWork' = NoWork /\ order' # "CANCELLED"
    BY SellingAlone
  <1>1. pc'[0] \notin RecoverPoints \ {"MarkOrderCompensating"} /\ work'[0] = NoWork
    <2>1. pc[0] \in SellPoints \cup Ended /\ work[0] = NoWork /\ 0 \in Execs /\ 0 \notin Replays
      BY ConstantsAre DEF Selling
    <2>2. CASE Still(0)
      BY <2>1, <2>2 DEF Still, SellPoints, Ended, RecoverPoints
    <2>3. ASSUME NEW target, Sent(0, target), Moved(0, target)
          PROVE  pc'[0] \notin RecoverPoints \ {"MarkOrderCompensating"} /\ work'[0] = NoWork
      <3>1. pc[0] \in SellPoints /\ target \in Targets
        BY <2>1, <2>3, RestIsStill, SentType DEF RestPoints
      <3>2. target \in SellPoints \cup Ended \cup
                      {"INVENTORY_ONLY", "PAYMENT_AUTHORIZATION", "RESERVED_FULFILLMENT",
                       "CAPTURED_PAYMENT", "HandoffFulfillment"}
        BY <2>1, <2>3, <3>1, SellTargets
      <3>3. target \notin Works /\ target \notin RecoverPoints
            /\ (target \in Kinds \/ target \in Points)
        BY <3>2 DEF SellPoints, Ended, Works, RecoverPoints, Kinds, Points, Tasks, PaymentTasks
      <3> QED BY <3>1, <3>3, <2>1, <2>3, DestIs DEF Moved
    <2> QED BY <2>1, <2>2, <2>3, EveryMove DEF Moves
  <1>2. \A e \in Execs : work'[e] = NoWork
    BY <1>1, <1>a, <1>c
  <1>3. \A e \in Execs : pc'[e] \notin RecoverPoints \ {"MarkOrderCompensating"}
    BY <1>1, <1>a, <1>c DEF RecoverPoints
  <1>4. \A e \in Execs : KindUndone(kind[e])'
    BY <1>a, <1>b, <1>c DEF KindUndone
  <1>5. \A e \in Execs : WorkUndone(work[e])' /\ PointUndone(pc[e], kind[e])'
    BY <1>2, <1>3 DEF WorkUndone, PointUndone, RecoverPoints, NoWork
  <1>6. WorkUndone(openWork)' /\ CancelledMeansUndone'
    BY <1>c DEF WorkUndone, CancelledMeansUndone, NoWork
  <1> QED BY <1>b, <1>4, <1>5, <1>6 DEF UndoneInv

(* Once the sale is over no execution authorizes or reserves again.        *)
LEMMA LaterIsNotSelling ==
    ASSUME TypeInv, Delivering \/ Recovering, NEW e \in Execs
    PROVE  pc[e] \notin SellPoints
  BY DEF Delivering, Recovering, SellPoints, DeliverPoints, ClosePoints, RestPoints, RecoverPoints, Ended

LEMMA UndoneDelivering ==
    ASSUME TypeInv, RecordInv, TruthInv, UndoneInv, Delivering, [Next]_vars
    PROVE  UndoneInv'
  <1>a. /\ PaymentUndone => PaymentUndone'
        /\ CapacityUndone => CapacityUndone'
    BY UndoneStays, LaterIsNotSelling DEF SellPoints
  <1>b. TypeInv' /\ Delivering'
    BY TypeStep, DeliveringStep
  <1>1. Unpaid'
    <2>1. pc'[0] \in DeliverPoints \cup ClosePoints \cup RestPoints
      BY <1>b, ConstantsAre DEF Delivering
    <2> QED BY <2>1 DEF Unpaid, SellPoints, DeliverPoints, ClosePoints, RestPoints, Ended
  <1>2. CancelledMeansUndone' /\ WorkUndone(openWork)'
    BY <1>b DEF Delivering, CancelledMeansUndone, WorkUndone, DeliverWorks, NoWork
  <1>3. ASSUME NEW e \in Execs
        PROVE  WorkUndone(work[e])' /\ PointUndone(pc[e], kind[e])'
    <2>1. /\ pc'[e] \in DeliverPoints \cup ClosePoints \cup RestPoints
          /\ work'[e] \in DeliverWorks \cup {NoWork}
      BY <1>b DEF Delivering
    <2>2. WorkUndone(work[e])'
      BY <2>1 DEF WorkUndone, DeliverWorks, NoWork
    <2>3. PointUndone(pc[e], kind[e])'
      BY <2>1 DEF PointUndone, DeliverPoints, ClosePoints, RestPoints, Ended
    <2> QED BY <2>2, <2>3
  <1>4. ASSUME NEW e \in Execs PROVE KindUndone(kind[e])'
    <2>1. pc[e] \in DeliverPoints \cup ClosePoints \cup RestPoints /\ KindUndone(kind[e])
      BY DEF Delivering, UndoneInv
    <2>2. CASE kind'[e] = kind[e]
      BY <2>1, <2>2, <1>a DEF KindUndone
    <2>3. ASSUME NEW target, Sent(e, target), Moved(e, target) PROVE kind'[e] = kind[e]
      <3>1. pc[e] \in DeliverPoints \cup ClosePoints
        BY <2>1, <2>3, RestIsStill
      <3>2. target \in DeliverPoints \cup ClosePoints \cup Ended \cup DeliverWorks
        BY <2>3, <3>1, DeliverTargets
      <3>3. target \notin Kinds
        BY <3>2 DEF DeliverPoints, ClosePoints, Ended, DeliverWorks, Kinds
      <3> QED BY <3>3, <2>3 DEF Moved
    <2>4. CASE pc[e] = "admitted" /\ Entered(e)
      <3>1. openWork \in DeliverWorks
        BY <2>4 DEF RecordInv, Marked, Delivering
      <3>2. kind'[e] = "NONE"
        BY <3>1, <2>4, RecoveryIs DEF Entered, DeliverWorks, Works
      <3> QED BY <3>2 DEF KindUndone
    <2> QED BY <2>2, <2>3, <2>4, EveryMove DEF Moves, Still
  <1> QED BY <1>1, <1>2, <1>3, <1>4 DEF UndoneInv

LEMMA UndoneRecovering ==
    ASSUME TypeInv, RecordInv, TruthInv, UndoneInv, Recovering, [Next]_vars
    PROVE  UndoneInv'
  <1>a. /\ PaymentUndone => PaymentUndone'
        /\ CapacityUndone => CapacityUndone'
        /\ inventory = "RELEASED" => inventory' = "RELEASED"
    BY UndoneStays, LaterIsNotSelling DEF SellPoints
  <1>1. Unpaid'
    <2>1. pc'[0] \in RecoverPoints \cup ClosePoints \cup RestPoints
      BY RecoveringStep, ConstantsAre DEF Recovering
    <2> QED BY <2>1 DEF Unpaid, SellPoints, RecoverPoints, ClosePoints, RestPoints, Ended
  <1>2. \A e \in Execs : ExecUndone(e)'
    BY <1>a, RecoverExec
  <1>3. WorkUndone(openWork)'
    <2>1. CASE openWork' = openWork
      BY <2>1, <1>a DEF UndoneInv, WorkUndone
    <2>2. ASSUME NEW e \in Execs, NEW a \in Answers, CreateWork(work[e], a)
          PROVE  WorkUndone(openWork)'
      <3>1. openWork' = work[e] /\ WorkUndone(work[e])
        BY <2>2 DEF CreateWork, UndoneInv
      <3> QED BY <3>1, <1>a DEF WorkUndone
    <2> QED BY <2>1, <2>2, RecordSteps DEF RecordStep, ResolveWork
  <1>4. CancelledMeansUndone'
    <2>1. CASE order = "CANCELLED"
      <3>1. inventory = "RELEASED" /\ PaymentUndone /\ CapacityUndone
        BY <2>1 DEF UndoneInv, CancelledMeansUndone, PaymentUndone, CapacityUndone
      <3> QED BY <3>1, <1>a DEF CancelledMeansUndone, PaymentUndone, CapacityUndone
    <2>2. CASE order # "CANCELLED" /\ order' = "CANCELLED"
      <3>1. PICK e \in Execs : pc[e] \in DOMAIN Marks /\ MarkOrder(Marks[pc[e]])
        BY <2>2, OrderSteps DEF OrderStep, orderVars
      <3>2. Marks[pc[e]] \in {"COMPENSATING", "CANCELLED", "RECONCILIATION_REQUIRED"}
            /\ (Marks[pc[e]] = "CANCELLED" => pc[e] = "MarkOrderCancelled")
        BY <3>1, MarksAre DEF Recovering, RecoverPoints, ClosePoints, RestPoints, Ended
      <3>3. order' \in {order, Marks[pc[e]]}
        BY <3>1, <3>2, MarkGoesForward DEF RecordInv
      <3>4. pc[e] = "MarkOrderCancelled"
        BY <3>2, <3>3, <2>2
      <3>5. inventory = "RELEASED" /\ PaymentUndone /\ CapacityUndone
        BY <3>4 DEF UndoneInv, PointUndone
      <3> QED BY <3>5, <1>a DEF CancelledMeansUndone, PaymentUndone, CapacityUndone
    <2> QED BY <2>1, <2>2 DEF CancelledMeansUndone
  <1> QED BY <1>1, <1>2, <1>3, <1>4 DEF UndoneInv, ExecUndone

WorkflowInv == TypeInv /\ RecordInv /\ TruthInv /\ PhaseInv /\ UndoneInv

LEMMA UndoneInit == Init => UndoneInv
  <1> SUFFICES ASSUME Init PROVE UndoneInv
    OBVIOUS
  <1>1. /\ \A e \in Execs : pc[e] \in {"CreatePendingOrder", "absent"} /\ kind[e] = "NONE"
                            /\ work[e] = NoWork
        /\ order = "NONE" /\ openWork = NoWork /\ payment = "NONE" /\ fulfillment = "NONE"
        /\ active = NoOp /\ payOps[AuthorizeOp] = "ABSENT" /\ pc[0] = "CreatePendingOrder"
    BY CapacityOpIsOp, ConstantsAre DEF Init, ServicesInit
  <1> QED BY <1>1 DEF UndoneInv, Unpaid, CancelledMeansUndone, WorkUndone, KindUndone, PointUndone, NoWork

LEMMA UndoneHolds == ASSUME ~Stripe PROVE Spec => []WorkflowInv
  <1>1. Init => WorkflowInv
    BY TypeInit, RecordInit, TruthInit, PhaseInit, UndoneInit DEF WorkflowInv
  <1>2. WorkflowInv /\ [Next]_vars => WorkflowInv'
    BY TypeStep, RecordKept, TruthKept, PhaseKept, UndoneSelling, UndoneDelivering, UndoneRecovering
       DEF WorkflowInv, PhaseInv
  <1> QED BY <1>1, <1>2, PTL DEF Spec

(* Where an error of the provider tells that it did nothing, an order      *)
(* shows CANCELLED only when its stock is given back, its payment is not   *)
(* charged or given back, and no capacity is held, however many replays    *)
(* took part in its recovery.                                              *)
THEOREM CancelledIsUndone ==
    ASSUME ~Stripe
    PROVE  Spec => []CancelledMeansUndone
  <1>1. WorkflowInv => CancelledMeansUndone
    BY DEF WorkflowInv, UndoneInv
  <1> QED BY <1>1, UndoneHolds, PTL

(* There, the workflow gives stock back only after the payment and the     *)
(* capacity: recovery goes in reverse order.                               *)
THEOREM ReleasesComeLast ==
    ASSUME ~Stripe
    PROVE  Spec => ReleaseIsLast
  <1>1. ASSUME WorkflowInv, [Next]_vars, NEW o \in Ops, results[o] # results'[o],
               results'[o] = Answer("RELEASED")
        PROVE  /\ payment \in {"NONE", "CANCELLED", "REFUNDED"}
               /\ fulfillment \in {"NONE", "CANCELLED"}
    <2>a. results \in [Ops -> Answers]
      BY <1>1 DEF WorkflowInv, TypeInv, LedgersOK
    <2>1. ASSUME NEW e \in Execs, NEW a \in Answers, pc[e] \in HeldTasks,
                 InventoryCall(Op(e, pc[e]), a)
          PROVE  pc[e] = "ReleaseInventory"
      <3>1. Op(e, pc[e]) \in Ops /\ Op(e, pc[e])[1] = pc[e]
        BY <1>1, <2>1, OpIsOp DEF WorkflowInv, HeldTasks, Verbs
      <3>2. a = Answer("RELEASED") /\ a \in InventoryAnswers(Op(e, pc[e]))
        BY <1>1, <2>1, <2>a, <3>1 DEF InventoryCall, heldVars
      <3> QED BY <3>1, <3>2, <2>1 DEF InventoryAnswers, Answer, NotActive, HeldTasks
    <2>2. ASSUME NEW op \in Ops, NEW a \in Answers, FulfillmentCall(op, a) PROVE FALSE
      <3>1. a = Answer("RELEASED") /\ a \in FulfillmentAnswers(op)
        BY <1>1, <2>2, <2>a DEF FulfillmentCall, heldVars
      <3> QED BY <3>1 DEF FulfillmentAnswers, Answer, NotActive
    <2>3. \A e \in Execs : pc[e] \in CapacityTasks => Op(e, pc[e]) \in Ops
      BY <1>1, OpIsOp DEF WorkflowInv, CapacityTasks, Verbs
    <2>4. PICK e \in Execs : pc[e] = "ReleaseInventory"
      BY <1>1, <2>1, <2>2, <2>3, HeldSteps, CapacityOpIsOp DEF HeldStep, heldVars, Handed
    <2> QED BY <2>4, <1>1 DEF WorkflowInv, UndoneInv, PointUndone, PaymentUndone, CapacityUndone
  <1>2. WorkflowInv /\ [Next]_vars =>
            [\A o \in Ops :
                results[o] # results'[o] /\ results'[o] = Answer("RELEASED") =>
                    /\ payment \in {"NONE", "CANCELLED", "REFUNDED"}
                    /\ fulfillment \in {"NONE", "CANCELLED"}]_vars
    BY <1>1
  <1> QED BY <1>2, UndoneHolds, PTL DEF Spec, ReleaseIsLast
=============================================================================
