--------------------------------- MODULE Outbox ---------------------------------
(***************************************************************************)
(* The outbox of the Order service on its way to the consumers of its      *)
(* facts: the stream of the outbox table invokes the publisher batch by    *)
(* batch, the publisher puts what it has a validator for on the event bus, *)
(* and the bus delivers the pending orders to the audit consumer.  The     *)
(* other services' outboxes have the same publisher and their own set of   *)
(* validated facts, which is empty for Fulfillment and Reconciliation.     *)
(*                                                                         *)
(* A batch is not longer than one PutEvents request may be, and a shard    *)
(* hands the next batch on only when it is done with the last.             *)
(***************************************************************************)
EXTENDS Integers, Sequences, FiniteSets, FiniteSetsExt

CONSTANTS
    Kinds,        \* types of the facts the service writes,
    Validated,    \* those the publisher has a validator for,
    Audited,      \* and those the rule routes to the audit consumer
    MaxFacts,     \* bound on the facts written
    BatchSize,    \* batchSize of the event source
    RetryAttempts,\* its retryAttempts,
    AuditRetries, \* and those of the audit rule
    MaxFaults     \* bound on failed, lost and repeated requests and deliveries

NoKind == "NONE"

ASSUME OutboxConstants ==
    /\ NoKind \notin Kinds
    /\ Audited \subseteq Validated /\ Validated \subseteq Kinds
    /\ MaxFacts \in Nat /\ BatchSize \in Nat \ {0}
    /\ RetryAttempts \in Nat /\ AuditRetries \in Nat /\ MaxFaults \in Nat

Facts == 1..MaxFacts

VARIABLES
    kind,      \* the kind of each fact written, in the order of the stream
    taken,     \* how many the stream has handed on
    batches,   \* the batches in hand, the one to be invoked next first
    point,     \* the publisher's: "idle", "put" or "report"
    failures,  \* the batch item failures it has collected
    published, \* the facts that are on the bus
    discarded, \* and those the failure queue was told of
    due,       \* deliveries to the audit consumer, per fact and failed attempts
    audit,     \* records of each fact in the audit table
    faults

publisher == <<batches, point, failures>>
consumer == <<due, audit>>
vars == <<kind, taken, publisher, published, discarded, consumer, faults>>

Init ==
    /\ kind = [f \in Facts |-> NoKind]
    /\ taken = 0
    /\ batches = <<>> /\ point = "idle" /\ failures = {}
    /\ published = {} /\ discarded = {}
    /\ due = [f \in Facts |-> [n \in 0..AuditRetries |-> 0]]
    /\ audit = [f \in Facts |-> 0]
    /\ faults = 0

Written == {f \in Facts : kind[f] # NoKind}
Fault == faults < MaxFaults /\ faults' = faults + 1

(* A transaction of the service writes a fact with what it is about.       *)
WriteFact(k) ==
    /\ Cardinality(Written) < MaxFacts
    /\ kind' = [kind EXCEPT ![Cardinality(Written) + 1] = k]
    /\ UNCHANGED <<taken, publisher, published, discarded, consumer, faults>>

(***************************************************************************)
(* The event source                                                        *)
(***************************************************************************)
InBatch(b) == b.first..b.last

TakeBatch ==
    /\ batches = <<>>
    /\ \E n \in 1..BatchSize :
          /\ taken + n <= Cardinality(Written)
          /\ taken' = taken + n
          /\ batches' = <<[first |-> taken + 1, last |-> taken + n, retries |-> 0]>>
    /\ UNCHANGED <<kind, point, failures, published, discarded, consumer, faults>>

Fault_RetryForever(b, next) ==
    batches' = <<next>> \o Tail(batches) /\ UNCHANGED discarded
Fault_OneMoreRetry(b, next) ==
    IF b.retries <= RetryAttempts
    THEN /\ batches' = <<[next EXCEPT !.retries = @ + 1]>> \o Tail(batches)
         /\ UNCHANGED discarded
    ELSE /\ batches' = Tail(batches)
         /\ discarded' = discarded \cup InBatch(next)
(* What is left of a batch is tried again, or discarded when the attempts  *)
(* are spent.                                                              *)
TryAgain(b, next) ==
    IF b.retries < RetryAttempts
    THEN /\ batches' = <<[next EXCEPT !.retries = @ + 1]>> \o Tail(batches)
         /\ UNCHANGED discarded
    ELSE /\ batches' = Tail(batches)
         /\ discarded' = discarded \cup InBatch(next)

(* An invocation that fails as a whole has its batch cut in two, which     *)
(* costs no attempt; a batch of one is tried again.                        *)
InvocationFails ==
    /\ point # "idle" /\ Fault
    /\ LET b == Head(batches)
           middle == (b.first + b.last) \div 2 IN
       IF b.first < b.last
       THEN /\ batches' = <<[b EXCEPT !.last = middle], [b EXCEPT !.first = middle + 1]>>
                             \o Tail(batches)
            /\ UNCHANGED discarded
       ELSE TryAgain(b, b)
    /\ point' = "idle" /\ failures' = {}
    /\ UNCHANGED <<kind, taken, published, consumer>>

(* The invocation's answer: the stream goes on behind the batch, or comes  *)
(* back to the first record reported.                                      *)
Report ==
    /\ point = "report"
    /\ point' = "idle" /\ failures' = {}
    /\ LET b == Head(batches) IN
       IF failures = {}
       THEN batches' = Tail(batches) /\ UNCHANGED discarded
       ELSE TryAgain(b, [b EXCEPT !.first = Min(failures)])
    /\ UNCHANGED <<kind, taken, published, consumer, faults>>

(***************************************************************************)
(* The publisher                                                           *)
(***************************************************************************)
Refused(b) == {f \in InBatch(b) : kind[f] \notin Validated}

(* Facts without a validator are failures from the start.                  *)
Invoke ==
    /\ point = "idle" /\ batches # <<>>
    /\ point' = "put"
    /\ failures' = Refused(Head(batches))
    /\ UNCHANGED <<kind, taken, batches, published, discarded, consumer, faults>>

Fault_OnlyErrorCodes(sent, answered, accepted) == answered \ accepted
(* An entry is published if the response says so: not if it has an error   *)
(* code, if the response ends before it, or if there is no response.       *)
Unpublished(sent, answered, accepted) == sent \ (answered \cap accepted)

(* The bus accepts some of the entries and answers some of them, all of    *)
(* both unless something fails.                                            *)
PutEvents ==
    /\ point = "put"
    /\ LET sent == InBatch(Head(batches)) \ failures IN
       \E accepted \in SUBSET sent : \E answered \in SUBSET sent :
          /\ \/ accepted = sent /\ answered = sent /\ UNCHANGED faults
             \/ (accepted # sent \/ answered # sent) /\ Fault
          /\ published' = published \cup accepted
          /\ due' = [f \in Facts |->
                IF f \in accepted /\ kind[f] \in Audited
                THEN [due[f] EXCEPT ![0] = @ + 1] ELSE due[f]]
          /\ failures' = failures \cup Unpublished(sent, answered, accepted)
    /\ point' = "report"
    /\ UNCHANGED <<kind, taken, batches, discarded, audit>>

(***************************************************************************)
(* The audit rule and its consumer                                         *)
(***************************************************************************)
(* A record under the fact's id is put unless there is one.                *)
Record(f) == audit' = [audit EXCEPT ![f] = IF @ = 0 THEN 1 ELSE @]

Consumed(f, n) == [due[f] EXCEPT ![n] = @ - 1]
Audit(f, n) ==
    /\ due[f][n] > 0
    /\ Record(f)
    /\ due' = [due EXCEPT ![f] = Consumed(f, n)]
    /\ UNCHANGED <<kind, taken, publisher, published, discarded, faults>>

(* The consumer fails, before or after its request took effect; a delivery *)
(* that is out of attempts is dropped, as the rule has no failure queue.   *)
AuditFails(f, n) ==
    /\ due[f][n] > 0 /\ Fault
    /\ Record(f) \/ UNCHANGED audit
    /\ due' = [due EXCEPT ![f] =
          IF n < AuditRetries THEN [Consumed(f, n) EXCEPT ![n + 1] = @ + 1] ELSE Consumed(f, n)]
    /\ UNCHANGED <<kind, taken, publisher, published, discarded>>

(* The bus delivers at least once.                                         *)
DeliverTwice(f, n) ==
    /\ due[f][n] > 0 /\ Fault
    /\ due' = [due EXCEPT ![f][n] = @ + 1]
    /\ UNCHANGED <<kind, taken, publisher, published, discarded, audit>>

Publisher == TakeBatch \/ Invoke \/ PutEvents \/ Report

Next ==
    \/ \E k \in Kinds : WriteFact(k)
    \/ Publisher \/ InvocationFails
    \/ \E f \in Facts, n \in 0..AuditRetries :
          Audit(f, n) \/ AuditFails(f, n) \/ DeliverTwice(f, n)

Spec == Init /\ [][Next]_vars

(* The stream is polled, an invocation goes on until it fails, and the bus *)
(* delivers what it has accepted.                                          *)
Fairness ==
    /\ WF_vars(Publisher)
    /\ \A f \in Facts : WF_vars(\E n \in 0..AuditRetries : Audit(f, n) \/ AuditFails(f, n))
FairSpec == Spec /\ Fairness

-----------------------------------------------------------------------------
(***************************************************************************)
(* Properties                                                              *)
(***************************************************************************)
Batch == [first : Facts, last : Facts, retries : 0..RetryAttempts]

(* The shape of the stream, of the publisher and of the deliveries; the    *)
(* batches in hand follow each other and end where the stream has come to. *)
TypeOK ==
    /\ kind \in [Facts -> Kinds \cup {NoKind}]
    /\ taken \in 0..Cardinality(Written)
    /\ batches \in Seq(Batch)
    /\ \A i \in 1..Len(batches) :
          /\ batches[i].first <= batches[i].last
          /\ batches[i].last =
                IF i = Len(batches) THEN taken ELSE batches[i + 1].first - 1
    /\ point \in {"idle", "put", "report"}
    /\ failures \subseteq Written
    /\ published \subseteq Written /\ discarded \subseteq Written
    /\ due \in [Facts -> [0..AuditRetries -> Nat]]
    /\ audit \in [Facts -> {0, 1}]
    /\ faults \in 0..MaxFaults

InHand == UNION {InBatch(batches[i]) : i \in 1..Len(batches)}

(* The stream never moves past a fact that is neither on the bus nor in    *)
(* the failure queue, whatever part of a batch or of a response fails; and *)
(* what the publisher may publish gets there, or failed on every attempt.  *)
NothingIsLost ==
    \A f \in 1..taken :
        \/ f \in published \/ f \in InHand
        \/ f \in discarded /\ (kind[f] \in Validated => faults > RetryAttempts)

(* A fact the publisher has a validator for arrives, on the bus and, if it *)
(* is one the rule names, in the audit table, although a fact it refuses   *)
(* may be in front of it; only as many failures as the rule has attempts   *)
(* can prevent it.                                                         *)
FactsArrive ==
    \A f \in Facts :
        kind[f] \in Validated ~>
            \/ f \in published /\ (kind[f] \in Audited => audit[f] = 1)
            \/ faults > AuditRetries
=============================================================================
