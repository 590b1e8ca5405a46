# Marketplace checkout: a TLA+ model of the Saga and its services

This directory specifies the marketplace-checkout application of this repository
(`src/apps/marketplace-checkout`, deployed by `src/infra/lib/marketplace-checkout-stack.ts`):
a Saga that Step Functions orchestrates over domain services, each a Lambda function over
its own DynamoDB table with a transactional outbox, plus the API, schedules, queues, streams
and consumers around them. `A/` below stands for `src/apps/marketplace-checkout/src/`,
`S` for `src/infra/lib/marketplace-checkout-stack.ts`, `R` for `src/README.md`
and `D` for `src/docs/patterns/marketplace-checkout/README.md`.

## The system

| Part | State it keeps | Operations | Where |
|---|---|---|---|
| Checkout API | ADMISSION and SAGA records | submit, get | `A/checkout-api.ts`, `A/dynamo-checkout-persistence.ts`, `A/step-functions-workflow-starter.ts` |
| Checkout workflow | the state of each execution | the state machine, its retries, catches, choices | `S` 775-1725 |
| Order service | order status, operations | create, six transitions | `A/dynamo-order-repository.ts` |
| Inventory service | stock, reservations, operations | reserve, commit, release | `A/dynamo-inventory-repository.ts` |
| Inventory expiry | none of its own | a sweep every minute | `A/inventory-expiry-reconciler.ts` |
| Order expiry consumer | none of its own | on an expiry fact, mark the order EXPIRED | `A/order-expiry-consumer.ts` |
| Payment service | operations, the payment and its active operation | authorize, capture, cancel, refund, retrieve, provider reconciliation | `A/payment-command-service.ts`, `A/dynamo-payment-ledger.ts` |
| Payment provider | the provider's payments, its record of operation keys | the same, with lost responses | `A/dynamo-deterministic-payment-provider.ts`, or Stripe behind `A/stripe-payment-provider.ts` and `A/stripe-client.ts` |
| Provider events | none of its own | reconcile the payment with the provider | `A/stripe-event-reconciler.ts` |
| Fulfillment service | reservation, operations | reserve, cancel, hand off, retrieve | `A/dynamo-fulfillment-repository.ts` |
| Fulfillment worker | an SQS queue | hand off, then call the execution back | `A/fulfillment-worker.ts` |
| Reconciliation | reconciliation record, Saga status | create, replay, resolve | `A/dynamo-reconciliation-repository.ts`, `A/reconciliation-replay.ts` |
| Outbox publishers | outbox tables and their streams | publish, dead-letter | `A/outbox-publisher.ts`, `A/audit-consumer.ts` |

How they interact: the API admits a checkout and starts one execution of the workflow,
named after the checkout. The workflow calls the services with operation ids derived from
the checkout, so that a retried call is the same operation; each service keeps a ledger that
answers a known operation from its record. The handoff alone is asynchronous: the execution
leaves a message with its task token on a queue and waits for the worker's callback. Facts
leave through the outbox tables; the expiry sweep and the order expiry consumer change
Inventory and Order without the workflow. A step that cannot be compensated leaves a
reconciliation record, from which an operator starts a replay on the workflow version the
checkout was pinned to.

What is hard: every service may run two invocations of one operation at once (a retry beside
the invocation it gave up on); the sweep and the workflow race for one reservation; an answer
may be lost after its effect; an execution may stop at any task whose error nothing catches;
the clock decides between commit and expiry; the alias moves while checkouts are admitted;
a replay may be started twice, or beside another. `PROJECT.json` lists each hazard at its line.

### What makes each part correct

- **API**: one execution per admission, as it was admitted, and the version it runs on gets on record.
- **Order**: one final status, announced once; every record true; an expiry frees a pending order and nothing else.
- **Inventory**: units are conserved; a reservation is finalized once, by a commit, a compensation or an expiry; what is recorded is true for ever.
- **Payment**: the ledger never claims what the provider did not do, and agrees with it when nothing is in progress; one fact per success.
- **Fulfillment**: handed off or cancelled, never both; the execution is told which.
- **Workflow**: the order's status is true of the stock, the payment and the capacity; recovery goes in reverse order; what could not be undone is on record.
- **Reconciliation**: work is pinned to a version, recorded, replayed and resolved once.
- **Outbox**: nothing passes the stream unpublished and unreported.

## Modules

| Module | Models | State and actions |
|---|---|---|
| `Inventory` | Inventory service and expiry sweep | tables (`stock`, `status`, `origin`, `opState`/`payload`/`result`, `facts`), and per worker (one Lambda invocation) the point it stands at, its command, the time it read and its outcome. One action per DynamoDB request: `LookupOperation`, `PutOperation`, `ReadReservation`, `TransactReserve`, `TransactFinalize`, `Diagnose`, `RecordFailure`, the rereads, and `StartSweep`/`SweepNext` |
| `Fulfillment` | Fulfillment service | in the same manner, with the failure plan (`ReadPlan`) and its own rule for refused transactions |
| `FulfillmentHandoff` | the queue, the worker and its callbacks, over `Fulfillment` (EXTENDS) | message, receive count and task token of each handoff; per consumer where it stands; `caller` ties an invocation of the service to the consumer that waits for it. `Receive`, `Heartbeat`, `InvokeService`, `EndService`, `CallBack`, `Delete`, `LoseConsumer` |
| `ReservationLedger` | what Inventory and Fulfillment both promise: each operation is decided once, at an instant | `status`, `record`, `published`; a step moves a reservation or refuses an operation. No workers, requests or retries |
| `InventoryLedger` | the refinement mapping of `Inventory` to `ReservationLedger`; `Fulfillment` holds its own | `Promise == INSTANCE ReservationLedger WITH ...` |
| `Payment` | Payment service, its ledger, provider events, and the provider: the deterministic one, or Stripe behind its adapter (`Stripe`) | ledger (`opState`, `payload`, `refers`, `result`, `active`, `status`, `facts`), provider (`provider`, `replayed`), workers. One action per request to either |
| `Order` | Order service and expiry consumer | order, records, facts, workers; one action per request |
| `Admission` | Checkout API's submission | `admission`, `saga`, `execution`, the alias (`live`), and per client the point of its invocation; one action per request, `LoseSubmission`, `Resubmit`, `RouteLive` |
| `Reconciliation` | Reconciliation service and the operator's replays, over `Admission` (EXTENDS) | `record`, `facts`; of each execution only that it may ask for its work to be created, given up as rejected or as exhausted, or resolved, in up to three attempts, and whether it succeeds or fails; workers, one action per request |
| `Outbox` | a service's outbox stream, its publisher, the bus, the audit rule and consumer | facts in stream order, the batches in hand with their retries, what is published, discarded, due to the consumer and audited |
| `CheckoutServices` | what each service promises one checkout, a command at a time | the services' state and an operator per command |
| `CheckoutWorkflow` | the state machine, the Fulfillment queue and worker, operator replays, over `CheckoutServices` (EXTENDS) | per execution the task it is at (`pc`), failed attempts, compensation kind, reconciliation work; one action per attempt of a task |
| `*Proofs` | | theorems about `Inventory`, `Order`, `FulfillmentHandoff`, `Admission`, `Payment`, `Outbox`, `Reconciliation` and `CheckoutWorkflow`, one module for each |
| `MC*` | | commands and choices of the runs |

The service modules show that one service keeps its promise whatever races inside it;
`CheckoutServices` takes each command as one atomic step and `CheckoutWorkflow` checks what
the Saga makes of the promises. `FulfillmentHandoff` and `Reconciliation` are the two places
where two components are composed request by request.

The operators named `Fault_...` next to a definition are forms of it with a plausible
bug: no specification uses them, and with one in place of its neighbour the property
`PROJECT.json` pairs it with fails.

### Choices of the models

- **Request by request** (every module but the two of the workflow). An action is one
  request and the local computation after its answer. Conditional writes, transactions and
  consistent reads are atomic, as DynamoDB has them; the query on the expiry index may answer
  from the past. A worker may be lost between any two requests (`Lose`), and a transaction
  may be cancelled by a conflict; both count against `MaxFaults`. A retry is a new
  invocation, which may run beside the old one.
- Inventory reads the clock and then the reservation (`A/dynamo-inventory-repository.ts`
  235-240); the model does both in one step, and the transaction comes any time later.
  All invocations read one clock, which stands still once it has reached `MaxClock`.
- Two commands are equal when their payload hashes are. `causationId`, which differs
  between an execution and its replay, is not part of the hash
  (`A/domain-command.ts` 9-17), so it is not in the model.
- `ReservationLedger` sees of a failed operation the reservation status it names, and of a
  success that it won. "Out of stock" names status NONE. `RecordOf` is that projection.
- Fulfillment: the plan of rejected commands is a set of pairs; a rejected cancel is drawn
  only for a reservation that exists, as a plan is made for. The handoff's message is sent
  after its reservation, as the state machine does.
- **Stripe**: a request under a known key repeats the first answer, a refund may be
  pending and settle later either way, a request beside another under its key may be
  refused with a 4xx, which the adapter records as a rejection (`A/stripe-client.ts` 183-191),
  and a search without a reference may show an older state. Amounts are left out, except
  that a refund is always the whole payment.
- The failure plan of the deterministic provider is a bounded choice, at each call, of
  failing before the mutation, declining, or losing the response.
- `givenUp` of `Payment` is an observer: the operations the service took for failed without
  the provider's word. No guard reads it.
- Each replay operation is about one checkout (`Target`): an operator uses an operation id
  once (`R` 175, `D` 87). With several checkouts, an operation that had been used for another
  would be told that it was admitted although it started nothing.
- The workflow releases for the reason COMPENSATION only (`S` 1021-1034); the expiry as a
  reason is the sweep's (`CallersCompensate` of `Inventory`).
- In `Reconciliation` an execution comes to `CreateReconciliation` or `ResolveReconciliation`
  at any time it runs, with any of `Failures`: a work (the failed invariant and the required
  action) with the attempts it was given up after, 1 if it was rejected and 3 if it was exhausted
  (`S` 1159-1173). What leads there is the matter of `CheckoutWorkflow`. An answer other than
  that the work is required fails the execution, as the choice after the task does
  (`S` 1347-1365), and so does an error that names other work, which no retry lists.
- A failed workflow task is one of: a lost answer (the effect took place), an unreached
  call, an error of the provider, a rejection by the service. The error's class decides
  between retry, catch and failure as the lists of `S` 89-106 do.
- In `CheckoutWorkflow` a call that timed out has taken its effect by then or never
  will; that a retry may overtake it is what the service modules check. `Stripe` there says
  whether a provider's error may come after its effect.
- In `CheckoutWorkflow` the Saga record's status is written with the reconciliation record's
  and follows it, so only the latter is a variable; `Reconciliation` has both.
- Outbox: a batch is as long as one PutEvents request may be; an invocation that fails
  as a whole has its batch cut in two, one that reports failures is tried again from the
  first failed record.

## Runs

| Run | Instance | Shows |
|---|---|---|
| `inventory_stock` | one item of 2 units, two reservations wanting 3, two workers and a sweep, no loss | `StockConserved`, `NoEarlyExpiry`, also for a commit naming another checkout under a known operation id and an expiry asked for by a caller |
| `inventory_race` | one reservation, its reserve, commit and release, two workers and a sweep, one loss or conflict | the service implements `ReservationLedger`; a failed release names its winner; a reservation held at its deadline is released |
| `fulfillment` | one reservation, its four commands and an operation id reused for another payload, a planned rejection, two workers, one consumer, two receives, two faults | the service implements `ReservationLedger`; what the execution is told is true and final; a handoff begun is decided |
| `payment_ledger` | deterministic provider; authorize, capture, refund, a reused id, a retrieval; two workers, two faults | ledger, outbox and provider agree; nothing recorded changes |
| `payment_stripe` | Stripe; authorize, capture, refund, a retrieval and provider events; two workers, one fault | the ledger claims nothing Stripe did not do; differs from it only where an operation was given up on its way; an abandoned capture completes when its caller returns |
| `order` | nine commands, two expiry events, two correlations, two workers, two faults | the outbox tells the whole history, true records, none rewritten, the expiry frees a pending order |
| `admission` | two clients, keys, bodies, checkouts and versions, two faults | one execution per admission, as admitted; an accepted checkout runs with its version on record; an admitted one gets there |
| `saga` | one checkout, two versions, two replay operations, two works, one exhausted and one rejected, two workers, one fault | work pinned to its version and counted from the attempts it came with; an execution's own work recorded in spite of the race with the API, or its replay refused for the work that is there; resolved once; an operator's answer is true |
| `outbox` | three facts of three kinds, batches of up to three, two retries, three faults | nothing passes the stream unpublished and unreported; what may be published arrives and is audited |
| `workflow_safety` | deterministic provider, three faults, one stop, two replays | CANCELLED means undone, success is accounted for, stock goes back last |
| `workflow_stripe` | Stripe, three faults, one stop, one replay | nothing ships unpaid, work is visible; executions end and orders settle |
| `workflow_capture` | no fault at all | the first finding below |

**Bounds.** Three faults are exactly what it takes to exhaust a workflow task's three
attempts, and so to reach every catch; the same bound puts one lost answer on each of three
tasks. Two workers race a retry with the invocation it follows, or two commands; a third
(a sweep) is added where expiry takes part. One reservation suffices for a race since
reservations share nothing but stock, which `inventory_stock` shares between two. Two replays
are needed for one to run beside another. The queue's receive count is 2 in the run and 3 in
the deployment, and the publisher's retries likewise: the count matters only when it runs out,
which two faults then reach. Three facts fill one batch, and are enough to be cut twice, with
a refused fact before, between or after the others. Two works, of different attempts, let a
replay come back with another than it was started for, and an execution's attempts at creating
one run out with no fault, while the API has not recorded the version. `saga` uses
symmetry of workers, replay operations and versions: it checks safety only. `CHECK_DEADLOCK
FALSE` stands in every run: a checkout comes to an end, the bounds of clock and faults are
reached, and then the model rightly stops.

**Fairness.** A worker that is not lost takes its next step (Lambda runs it), an execution
takes its next step (Step Functions), a stream is polled, a clock goes on: weak fairness of
each. Strong fairness stands where something comes back until it is served but may find
every worker busy in between: the sweep's schedule, which fires every minute (and whose index
catches up; this supposes that the sweep is not for ever filled by more due reservations than
`INVENTORY_EXPIRY_BATCH_LIMIT`), an event whose consumer failed (`Deliver`), a visible message
(`Receive`, and the consumer's next step while it may have to wait for a free worker), and the
caller of a resent command (`Resent`). A client whose submission was lost submits again. No
fault is ever required to happen or not to, no token to expire and no operator to act. Where a
liveness property would be defeated by faults the code is not made for, the property names
how many: `BegunHandoffIsDecided` excuses a handoff whose deliveries were all lost
(`faults >= MaxReceives`), `OrderSettles` an execution out of attempts or stopped, `FactsArrive`
a fact that failed more often than it is retried. What the code does beyond that is described
under Findings, not checked.

## What is proved

Every theorem holds for any sets of items, reservations, checkouts, commands, operation
ids, facts, workers, sweeps, consumers, executions and replays, and for any bounds. The assumptions
are those that the modules state of their constants (`InventoryConstants` and the like:
disjoint sets, a `None` that is no element, counts that are naturals), and where one more is
used it is named below.

| Module | Theorems | Inductive invariant, and what it adds |
|---|---|---|
| `InventoryProofs` | `TypeIsCorrect`, `StockIsConserved`, `NoReservationExpiresEarly`, `RefusedReleaseNamesTheWinner`, `InventoryImplementsLedger` | `TypeInv`, `StockInv`, `NowInPast`, `WitnessInv` |
| `OrderProofs` | `TypeIsCorrect`, `HistoryIsAlwaysPublished`, `SettledStaysSettled` | `HistoryInv` |
| `FulfillmentProofs` | `TypeIsCorrect`, `CallbacksAreTrue`, `FulfillmentImplementsLedger` | `HandoffInv`, `TruthInv` |
| `AdmissionProofs` | `ExecutedAsAdmitted`, `AcceptedRuns` | `AdmissionInv` |
| `PaymentProofs` | `TypeIsCorrect`, `RecordedStaysRecorded`, `LedgerIsNeverAhead`, `EachSuccessPublishesOnce`, `LedgerAgreesWithProvider` | `ServiceInv`, `TruthInv`, `FactsInv`, `SetupInv` with `AgreesWhile` |
| `OutboxProofs` | `TypeIsCorrect`, `NothingIsEverLost` | `LossInv` |
| `ReconciliationProofs` | `TypeIsCorrect`, `VersionStaysPinned`, `EndedWorkIsOnRecord`, `AnsweredReplayRuns`, `ResolvedStaysResolved` | `SagaInv` |
| `WorkflowProofs` | `TypeIsCorrect`, `WorkStaysVisible`, `SuccessesAreAccounted`, `NothingUnpaidShips`, `CancelledIsUndone`, `ReleasesComeLast` | `TypeInv`, `RecordInv`, `TruthInv`, `PhaseInv`, `UndoneInv` |

The arguments, and why the invariants are needed:

- **Inventory.** `TypeInv` is `TypeOK` with `DueExist`: a sweep releases a listed
  reservation in the name of its record, so the command it builds has its type only if the
  record exists. `StockConserved` counts the units of the taken reservations as a set of
  pairs; `StockInv` adds that no taken reservation is larger than what the item started
  with, which makes that set finite, so that a reservation adds exactly its quantity to the
  count and a release takes it back. No early expiry needs that the time an invocation read
  is not in the future (`NowInPast`), a refused release that an invocation saw a final
  status before it records one (`WitnessInv`): statuses only move forward, so what was seen
  cannot be undone by whoever comes between. With those, each step is one decision of
  `ReservationLedger` or changes nothing that it shows.
- **Order.** `HistoryInv` adds that a status the order has not come to is not announced,
  so that the transition that reaches it announces it for the first time, and what each worker
  asks for and has found of the order.
- **Fulfillment.** `HandoffInv` ties each waiting consumer to the invocation that works for
  it and to the message it holds. `TruthInv` says that what a worker is about to record, has
  recorded or has answered is true of the reservation, and follows it to the callback.
- **Admission.** `AdmissionInv`: the records and executions agree, and what each submission
  has read of them is still so, records only going from absent to present.
- **Payment.** `ServiceInv`: an operation is in progress exactly while it is the active one, and
  an invocation completes only an operation that was begun. `TruthInv`: what the provider has
  recorded for a verb is true of the payment, and no invocation carries an outcome the provider
  did not produce. `FactsInv` counts the successes with their facts. The agreement with the
  provider holds until an operation is given up (`AgreesWhile`), and is an invariant only with
  the whole of what the two sides may differ by (`Level`): nothing while no operation is active,
  else that the provider has done the active one; and every recorded failure is one that the
  provider refused for good. It assumes `OneOperationEach`, that an
  authorization and a capture have one operation id each, as the workflow derives them
  (`S` 835, 875); with two authorizations it is false, as TLC shows, since the second finds
  the payment authorized that the first could not record. The refund may have several
  ids, which is what a replay gives it.
- **Outbox.** `LossInv` says that the batches in hand follow each other and end where the
  stream has come to, and that of each fact handed on one knows where it is: published,
  in hand or discarded; and that a fact the publisher accepts has failed only with a fault, so
  retries that run out have spent that many.
- **Reconciliation.** `SagaInv` adds to `AdmissionInv` how the record, the Saga status and the
  replays depend on each other, what each execution did before it ends, and what each invocation
  may still rely on. The work on record is that of the checkout's own execution, since an
  invocation that creates finds either the record or that execution's task; its attempts are
  that task's and one for each audited replay. An execution succeeds on the answer to its own
  command only, since at most one invocation is waited for (`CallersInv`) and it carries the
  task's work. `AnsweredReplayRuns` is the one that needs `Target`: without it the
  invariant is not inductive, and false of several checkouts.
- **Workflow.** Five invariants, each resting on those before it. `RecordInv`: an execution at the
  tasks that create or resolve work has marked the order first, and an order with work on record
  goes to a final status only. `TruthInv`: what an operation recorded stays true, as the payment,
  the stock and the capacity only move forward. `PhaseInv`: a checkout is first sold, by
  the workflow's own execution alone; then all its executions deliver it, or all recover it.
  Nothing that follows is true of one execution alone: a replay delivers because the one before it
  left a delivery's work on record. `UndoneInv`: a compensation's kind, a work's name and the task
  an execution is at each say which of payment and capacity are given back already, and it is
  a replay's only knowledge of it.
  `CancelledIsUndone` and `ReleasesComeLast` assume `~Stripe`: an authorization that fails with a
  provider's error is compensated without cancelling it (`S` 1632-1639), which is right only where
  the error comes before any effect, as the deterministic provider's does. With `Stripe` TLC shows
  the stock given back with the authorization held (Findings, below). The other four theorems hold
  over either.

With that every invariant and action property of a passing run is a theorem. Left to TLC are the
liveness properties, since fairness and ENABLED are out of the prover's reach: `DueIsReleased`,
`BegunHandoffIsDecided`, `AbandonedIsCompleted`, `ExpiryRepairsPending`, `AdmittedStarts`,
`FactsArrive`, `OrderSettles` and `ExecutionsEnd`.

## Findings

`workflow_capture` is a run in which TLC finds the code to disagree with the documentation:
the sweep releases the stock and its consumer expires the order after the capture;
`MarkOrderCompensating` is then refused, nothing catches that (`S` 1077-1094), and the captured
payment is neither refunded nor on record, although "The workflow compensates a captured
Payment if Inventory can no longer commit" (`R` 159-160).

The models also show, without a run of their own:

*Workflow and replays*

- `AuthorizePayment` catches three provider errors only (`S` 1632-1639) and
  `ReserveFulfillment` none: three internal errors or lost answers after the authorization end
  the execution with the payment authorized, which `R` 137 calls fully reversible. Three failed
  attempts at `ReserveInventory` leave an order PENDING that no expiry will free (`S` 1640). After a Stripe
  timeout on the authorization the order may be CANCELLED with the authorization held.
- A replay that repeats a cancellation which had taken effect is answered
  RESERVATION_NOT_ACTIVE/CANCELLED, which the choice (`S` 1474-1499) does not accept, and
  returns to reconciliation at every attempt.
- A refund out of attempts stays the payment's active operation; the replay carries another
  operation id, for which the service may not send it again
  (`A/payment-command-service.ts` 128-134, 311-317), so the replay never refunds, against `R` 153.
- A replay that fails at a later task than it began with cannot record the new work, as the
  record names other work (`A/dynamo-reconciliation-repository.ts` 394-407), and leaves it
  REPLAYING. `EndedWorkIsRecorded` therefore asks of an execution that is refused only that the
  work of the checkout's own execution be on record; the run `saga` reaches such a replay.

*Reconciliation*

- A replay operation admitted again after its execution closed starts nothing, as the
  execution's name is taken, and leaves the record REPLAYING.
- A start that took effect but is not seen to succeed gives the work back
  (`A/reconciliation-replay.ts` 82): a second replay may then run beside the first, and an
  audit entry may be written twice for one operation.
- Creation and resolution do not say which replay they speak for: a late resolution by an
  older replay resolves work a newer one is at, and a late creation reopens it.

- Creation fails while the API has not put the version on the Saga record
  (`A/dynamo-reconciliation-repository.ts` 75). If that holds at all three attempts, a few
  seconds, the execution fails with its work not on record.

*Fulfillment*

- A handoff whose deliveries were all lost ends in the dead-letter queue after three receives
  (`S` 665), begun but not decided; nothing carries it on, and its task times out.

*Facts*

- OrderCompensating, OrderReconciliationRequired and every fact of Fulfillment and
  Reconciliation have no validator in the publisher (`A/outbox-publisher.ts` 107-127): they
  are refused at each attempt and end in the failure queue, and the valid facts behind
  them in the batch are published once more at each.
- The stream goes back to the first failed record, so records that were published behind it
  are published again, where `D` 65-67 has only the failed records retried; consumers must
  expect it, and the audit consumer does.
- The audit rule has no failure queue: a fact that fails three times is dropped in silence.

*Payment over Stripe*

- A refusal of a duplicate beside a request in process is recorded as a rejection, though the
  request may then succeed, and a retrieval that reads the provider before an operation in
  flight lands records that one as failed (`A/payment-command-service.ts` 190);
  `AgreesWhenSettled` holds only without such an operation.
- A pending refund is answered pending for ever under its key, once it has settled too; a
  capture that began before a reference was on record throws for ever.
- A failed read of the API key is kept as a rejected promise (`A/stripe-api-key.ts` 29).

*Others*: a repeated order creation answers PENDING whatever the order has become
(`A/dynamo-order-repository.ts` 101).

## What is not modelled

- The version-deployment probe of the state machine, which touches no checkout; reading an
  order through the API.
- Malformed messages, events and requests: they are refused before anything changes. The
  queue behind the provider events.
- The life of an execution environment, and with it the API key source.
- Contracts and generated validators, stack wiring, foundation, deployment and workload
  tools, the test kit: data, deployment and drivers. What a deployment does to the running
  system, moving the alias, is `RouteLive`.
- The outboxes of the other services: the publisher is the same code, with other validators.
- `CheckoutServices` takes for granted what the service modules check; that it is implemented
  by them is argued here, and stated formally only for the reservations.

## Plan

Done: the models of the services request by request, of the admission, the reconciliation, the
outbox and the workflow; their runs; a theorem for every safety property of a run. Left:

1. An abstract specification of the Payment service, one operation at a time beside a provider
   that does each verb once, and a proof that `Payment` implements it over either provider, as
   `Inventory` and `Fulfillment` implement `ReservationLedger`.
2. That `CheckoutServices` allows, of each reservation, what `ReservationLedger` promises, so that
   what the workflow relies on and what the services implement is one specification.
