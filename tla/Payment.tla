------------------------------- MODULE Payment -------------------------------
(***************************************************************************)
(* The Payment service for one payment: the command service, its ledger    *)
(* (one DynamoDB table and its outbox) and the provider it calls: the      *)
(* durable deterministic provider, or Stripe behind its adapter.           *)
(*                                                                         *)
(* A worker is one invocation.  Every action is one request to the ledger  *)
(* or to the provider together with the computation that follows its       *)
(* answer.  Callers send the same operation again, send another one while  *)
(* the first is still running, and the provider refuses, loses its answer  *)
(* or fails before it did anything.                                        *)
(***************************************************************************)
EXTENDS Integers, FiniteSets

CONSTANTS
    Commands,    \* the commands callers may send, retries included
    Resent,      \* those whose callers send them again until they are answered
    Workers,     \* concurrent invocations
    Stripe,      \* PAYMENT_PROVIDER_MODE is stripe-sandbox
    MaxFaults    \* bound on losses, conflicts and provider failures

Mutations == {"AuthorizePayment", "CapturePayment", "CancelPayment", "RefundPayment"}
Reads == {"RetrievePayment", "ProviderEvent"}
Ops == {c.op : c \in Commands}
CommandRecord == [op : Ops, type : Mutations \cup Reads]
NoOp == "no operation"

ASSUME PaymentConstants ==
    /\ Commands \subseteq CommandRecord
    /\ NoOp \notin Ops
    /\ Resent \subseteq Commands
    /\ Stripe \in BOOLEAN
    /\ MaxFaults \in Nat

Applied == {"AUTHORIZED", "CAPTURED", "CANCELLED", "REFUNDED"}
ProviderStates == Applied \cup {"NONE"}
Answers == Applied \cup {"REJECTED", "NOT_FOUND", "RECONCILIATION_REQUIRED"}

Expected(type) ==
    CASE type = "AuthorizePayment" -> "AUTHORIZED"
      [] type = "CapturePayment" -> "CAPTURED"
      [] type = "CancelPayment" -> "CANCELLED"
      [] OTHER -> "REFUNDED"

(* The state a mutation starts from: nothing, for an authorization.        *)
Prerequisite(type) ==
    CASE type = "AuthorizePayment" -> "NONE"
      [] type = "RefundPayment" -> "CAPTURED"
      [] OTHER -> "AUTHORIZED"

(* The states a payment has passed through when the provider shows s.      *)
Passed(s) ==
    CASE s = "NONE" -> {}
      [] s = "AUTHORIZED" -> {"AUTHORIZED"}
      [] s \in {"CAPTURED", "CANCELLED"} -> {"AUTHORIZED", s}
      [] OTHER -> {"AUTHORIZED", "CAPTURED", "REFUNDED"}

VARIABLES
    opState,   \* the ledger's OPERATION records: state,
    payload,   \* command,
    refers,    \* whether they carry the provider's reference,
    result,    \* and recorded result
    active,    \* the PAYMENT record's activeOperationId
    status,    \* and its status
    facts,     \* outbox events written, per applied status
    provider,  \* the provider's own record of the payment
    replayed,  \* its record of each semantic operation key
    pc,        \* each worker's point in its invocation,
    cmd,       \* the command it executes,
    settling,  \* the active operation it settles apart from its own,
    knows,     \* whether it has the provider's reference of the payment,
    seen,      \* the provider state it retrieved,
    answer,    \* what it is about to record or to answer
    givenUp,   \* operations taken for failed without the provider's word
    faults

NoCommand == [type |-> "NONE"]

ledger == <<opState, payload, refers, result, active, status, facts>>
bank == <<provider, replayed>>
local == <<pc, cmd, settling, knows, seen, answer>>
vars == <<ledger, bank, local, givenUp, faults>>

Init ==
    /\ opState = [o \in Ops |-> "ABSENT"]
    /\ payload = [o \in Ops |-> NoCommand]
    /\ refers = [o \in Ops |-> FALSE]
    /\ result = [o \in Ops |-> "NONE"]
    /\ active = NoOp /\ status = "NONE"
    /\ facts = [s \in Applied |-> 0]
    /\ provider = "NONE"
    /\ replayed = [t \in Mutations |-> "NONE"]
    /\ pc = [w \in Workers |-> "idle"]
    /\ cmd = [w \in Workers |-> NoCommand]
    /\ settling = [w \in Workers |-> NoOp]
    /\ knows = [w \in Workers |-> FALSE]
    /\ seen = [w \in Workers |-> "NONE"]
    /\ answer = [w \in Workers |-> "NONE"]
    /\ givenUp = {}
    /\ faults = 0

(* The operation a worker is about: the active one or its own. *)
Subject(w) == IF settling[w] = NoOp THEN cmd[w].op ELSE settling[w]

Recorded(o) == opState[o] \in {"SUCCEEDED", "FAILED"}

(***************************************************************************)
(* Invocations                                                             *)
(***************************************************************************)
Goto(w, p) == pc' = [pc EXCEPT ![w] = p] /\ UNCHANGED <<cmd, settling, knows, seen, answer>>
GotoSettling(w, p, o) ==
    /\ pc' = [pc EXCEPT ![w] = p] /\ settling' = [settling EXCEPT ![w] = o]
    /\ UNCHANGED <<cmd, knows, seen, answer>>
GotoWith(w, p, a) ==
    /\ pc' = [pc EXCEPT ![w] = p] /\ answer' = [answer EXCEPT ![w] = a]
    /\ UNCHANGED <<cmd, settling, knows, seen>>
Reply(w, a) == GotoWith(w, "reply", a)

End(w) ==
    /\ pc' = [pc EXCEPT ![w] = "idle"] /\ cmd' = [cmd EXCEPT ![w] = NoCommand]
    /\ settling' = [settling EXCEPT ![w] = NoOp]
    /\ knows' = [knows EXCEPT ![w] = FALSE] /\ seen' = [seen EXCEPT ![w] = "NONE"]
    /\ answer' = [answer EXCEPT ![w] = "NONE"]
Throw(w) == End(w)

(* An event brings the reference of its payment along.                     *)
Invoke(w, c) ==
    /\ pc[w] = "idle"
    /\ pc' = [pc EXCEPT ![w] = CASE c.type = "RetrievePayment" -> "payment"
                                 [] c.type = "ProviderEvent" -> "retrieve"
                                 [] OTHER -> "lookup"]
    /\ cmd' = [cmd EXCEPT ![w] = c]
    /\ knows' = [knows EXCEPT ![w] = c.type = "ProviderEvent"]
    /\ UNCHANGED <<ledger, bank, settling, seen, answer, givenUp, faults>>

Return(w) ==
    /\ pc[w] = "reply" /\ End(w)
    /\ UNCHANGED <<ledger, bank, givenUp, faults>>

(* A killed or timed-out invocation, a failed request (an error of the     *)
(* network, a 429, a 408 or a 5xx of Stripe), a lost reply.                *)
Lose(w) ==
    /\ pc[w] # "idle" /\ faults < MaxFaults
    /\ faults' = faults + 1 /\ Throw(w)
    /\ UNCHANGED <<ledger, bank, givenUp>>

(***************************************************************************)
(* A mutation: its own ledger entry, then the active operation, then begin *)
(***************************************************************************)
(* What an entry of the command's own operation id means for it.           *)
Resume(w, point) ==
    LET c == cmd[w] IN
    \/ payload[c.op] # c /\ Throw(w)
    \/ payload[c.op] = c /\ Recorded(c.op) /\ Reply(w, result[c.op])
    \/ payload[c.op] = c /\ ~Recorded(c.op) /\ Goto(w, point)

(* An entry in progress is reconciled with the provider before it is sent  *)
(* again.                                                                  *)
LookupOperation(w) ==
    /\ pc[w] = "lookup"
    /\ \/ opState[cmd[w].op] = "ABSENT" /\ Goto(w, "active")
       \/ opState[cmd[w].op] # "ABSENT" /\ Resume(w, "retrieve")
    /\ UNCHANGED <<ledger, bank, givenUp, faults>>

FindActive(w) ==
    /\ pc[w] = "active"
    /\ \/ active = NoOp /\ Goto(w, "payment")
       \/ active # NoOp /\ GotoSettling(w, "retrieve", active)
    /\ UNCHANGED <<ledger, bank, givenUp, faults>>

(* The payment carries its provider reference since it was authorized.     *)
FindPayment(w) ==
    /\ pc[w] = "payment"
    /\ pc' = [pc EXCEPT ![w] = IF cmd[w].type = "RetrievePayment" THEN "retrieve" ELSE "begin"]
    /\ knows' = [knows EXCEPT ![w] = status # "NONE"]
    /\ UNCHANGED <<ledger, bank, cmd, settling, seen, answer, givenUp, faults>>

(* Without a reference Stripe is searched, and its search index lags.      *)
Found(known) ==
    IF Stripe /\ ~known THEN {"NONE", provider} \cup Passed(provider) ELSE {provider}

Classify(type, found) ==
    CASE found = Expected(type) -> "EXPECTED"
      [] found = Prerequisite(type) -> "NOT_APPLIED"
      [] OTHER -> "DIVERGED"

Fault_NeverResend(w) == FALSE
MayResend(w) == settling[w] = NoOp

(* The provider's state decides: applied is recorded, not applied is sent  *)
(* again by its own retry only, anything else needs reconciliation.        *)
Retrieve(w) ==
    /\ pc[w] = "retrieve" /\ cmd[w].type \in Mutations
    /\ \E found \in Found(refers[Subject(w)]) :
       LET type == payload[Subject(w)].type
           verdict == Classify(type, found) IN
       \/ verdict = "EXPECTED" /\ GotoWith(w, "complete", Expected(type))
       \/ verdict = "NOT_APPLIED" /\ MayResend(w) /\ Goto(w, "replay")
       \/ /\ verdict = "DIVERGED" \/ (verdict = "NOT_APPLIED" /\ ~MayResend(w))
          /\ Reply(w, "RECONCILIATION_REQUIRED")
    /\ UNCHANGED <<ledger, bank, givenUp, faults>>

Begin(w) ==
    /\ pc[w] = "begin"
    /\ \/ opState[cmd[w].op] = "ABSENT" /\ Goto(w, "transactBegin")
       \/ opState[cmd[w].op] # "ABSENT" /\ Resume(w, "replay")
    /\ UNCHANGED <<ledger, bank, givenUp, faults>>

(* A retrieval reads the provider before it reads the ledger; an event     *)
(* from the provider is handled the same way.                              *)
RetrieveState(w) ==
    /\ pc[w] = "retrieve" /\ cmd[w].type \in Reads
    /\ pc' = [pc EXCEPT ![w] = "settle"]
    /\ \E found \in Found(knows[w]) : seen' = [seen EXCEPT ![w] = found]
    /\ UNCHANGED <<ledger, bank, cmd, settling, knows, answer, givenUp, faults>>

Fault_ShownRaw(found) == found
Shown(found) == IF found = "NONE" THEN "NOT_FOUND" ELSE found

(* A divergence is answered to a caller; an event handler throws it.       *)
Diverge(w) ==
    \/ cmd[w].type = "RetrievePayment" /\ Reply(w, "RECONCILIATION_REQUIRED")
    \/ cmd[w].type = "ProviderEvent" /\ Throw(w)

Fault_EventSettles(w) == TRUE
(* Only a retrieval takes a mutation it does not see applied for a failed  *)
(* one: an event may be older than the mutation.                           *)
SettlesNotApplied(w) == cmd[w].type = "RetrievePayment"

CompleteFor(w, o, a) ==
    /\ pc' = [pc EXCEPT ![w] = "complete"] /\ settling' = [settling EXCEPT ![w] = o]
    /\ answer' = [answer EXCEPT ![w] = a]
    /\ UNCHANGED <<cmd, knows, seen>>

Settle(w) ==
    /\ pc[w] = "settle"
    /\ \/ active = NoOp /\ Goto(w, "compare")
       \/ /\ active # NoOp
          /\ LET type == payload[active].type
                 verdict == Classify(type, seen[w]) IN
             \/ verdict = "EXPECTED" /\ CompleteFor(w, active, Expected(type))
             \/ /\ verdict = "NOT_APPLIED"
                /\ IF SettlesNotApplied(w)
                   THEN CompleteFor(w, active, "REJECTED") ELSE Reply(w, Shown(seen[w]))
             \/ verdict = "DIVERGED" /\ Diverge(w)
    /\ givenUp' = IF /\ cmd[w].type = "RetrievePayment" /\ active # NoOp
                     /\ Classify(payload[active].type, seen[w]) = "NOT_APPLIED"
                  THEN givenUp \cup {active} ELSE givenUp
    /\ UNCHANGED <<ledger, bank, faults>>

Compare(w) ==
    /\ pc[w] = "compare"
    /\ \/ status = seen[w] /\ Reply(w, Shown(seen[w]))
       \/ status # seen[w] /\ Diverge(w)
    /\ UNCHANGED <<ledger, bank, givenUp, faults>>

Fault_BeginAgain(c) == active = NoOp
BeginCondition(c) == opState[c.op] = "ABSENT" /\ active = NoOp

TransactBegin(w) ==
    /\ pc[w] = "transactBegin"
    /\ LET c == cmd[w] IN
       \/ /\ BeginCondition(c)
          /\ opState' = [opState EXCEPT ![c.op] = "IN_PROGRESS"]
          /\ payload' = [payload EXCEPT ![c.op] = c]
          /\ refers' = [refers EXCEPT ![c.op] = knows[w]]
          /\ active' = c.op
          /\ Goto(w, "replay")
       \/ /\ ~BeginCondition(c)
          /\ Goto(w, "rereadBegin")
          /\ UNCHANGED <<opState, payload, refers, active>>
    /\ UNCHANGED <<result, status, facts, bank, givenUp, faults>>

(* Its own entry resumes; the active operation of another command has      *)
(* another payload hash, so it is refused; neither is a transient failure. *)
RereadBegin(w) ==
    /\ pc[w] = "rereadBegin"
    /\ \/ opState[cmd[w].op] # "ABSENT" /\ Resume(w, "replay")
       \/ opState[cmd[w].op] = "ABSENT" /\ Throw(w)
    /\ UNCHANGED <<ledger, bank, givenUp, faults>>

(***************************************************************************)
(* The durable provider, keyed by the semantic operation: one record per   *)
(* verb, whatever operation id asks for it                                 *)
(***************************************************************************)
Fault_RecordedIsApplied(type) == Expected(type)
ResultOf(type) == IF replayed[type] = "APPLIED" THEN Expected(type) ELSE "REJECTED"

(* A known key is replayed; otherwise the provider may fail before it did  *)
(* anything, decline, or go on.                                            *)
Replay(w) ==
    /\ ~Stripe /\ pc[w] = "replay"
    /\ LET type == cmd[w].type IN
       \/ /\ replayed[type] # "NONE"
          /\ GotoWith(w, "complete", ResultOf(type)) /\ UNCHANGED faults
       \/ /\ replayed[type] = "NONE"
          /\ Goto(w, IF type = "AuthorizePayment" THEN "mutate" ELSE "read")
          /\ UNCHANGED faults
       \/ /\ replayed[type] = "NONE" /\ faults < MaxFaults
          /\ faults' = faults + 1
          /\ Throw(w) \/ Goto(w, "reject")
    /\ UNCHANGED <<ledger, bank, givenUp>>

ReadPayment(w) ==
    /\ pc[w] = "read"
    /\ Goto(w, IF provider = Prerequisite(cmd[w].type) THEN "mutate" ELSE "reject")
    /\ UNCHANGED <<ledger, bank, givenUp, faults>>

MutateCondition(type) == provider = Prerequisite(type) /\ replayed[type] = "NONE"

(* The payment and the record of the key change together; the response may *)
(* then be lost.                                                           *)
Mutate(w) ==
    /\ pc[w] = "mutate"
    /\ LET type == cmd[w].type IN
       \/ /\ MutateCondition(type)
          /\ provider' = Expected(type)
          /\ replayed' = [replayed EXCEPT ![type] = "APPLIED"]
          /\ \/ GotoWith(w, "complete", Expected(type)) /\ UNCHANGED faults
             \/ faults < MaxFaults /\ faults' = faults + 1 /\ Throw(w)
       \/ /\ ~MutateCondition(type)
          /\ Goto(w, "requiredReplay") /\ UNCHANGED <<bank, faults>>
    /\ UNCHANGED <<ledger, givenUp>>

RecordRejection(w) ==
    /\ pc[w] = "reject"
    /\ LET type == cmd[w].type IN
       \/ /\ replayed[type] = "NONE"
          /\ replayed' = [replayed EXCEPT ![type] = "REJECTED"]
          /\ GotoWith(w, "complete", "REJECTED")
       \/ /\ replayed[type] # "NONE"
          /\ Goto(w, "requiredReplay") /\ UNCHANGED replayed
    /\ UNCHANGED <<ledger, provider, givenUp, faults>>

RequiredReplay(w) ==
    /\ pc[w] = "requiredReplay"
    /\ LET type == cmd[w].type IN
       IF replayed[type] = "NONE" THEN Throw(w) ELSE GotoWith(w, "complete", ResultOf(type))
    /\ UNCHANGED <<ledger, bank, givenUp, faults>>

(***************************************************************************)
(* Stripe: a request carries the same key, whose first answer is repeated. *)
(* Another request under a key in process is refused; the adapter takes    *)
(* that, as any 4xx that names no timeout or throttling, for a rejection.  *)
(***************************************************************************)
(* All but an authorization need the reference the operation began with.   *)
SendToStripe(w) ==
    /\ Stripe /\ pc[w] = "replay"
    /\ IF cmd[w].type = "AuthorizePayment" \/ refers[cmd[w].op]
       THEN Goto(w, "stripe") ELSE Throw(w)
    /\ UNCHANGED <<ledger, bank, givenUp, faults>>

Fault_PendingIsApplied(w, record) ==
    GotoWith(w, "complete", IF record = "REJECTED" THEN record ELSE Expected(cmd[w].type))
(* A refund that is only pending is reported as a lost response.           *)
Respond(w, record) ==
    CASE record = "APPLIED" -> GotoWith(w, "complete", Expected(cmd[w].type))
      [] record = "REJECTED" -> GotoWith(w, "complete", "REJECTED")
      [] OTHER -> Throw(w)

StripeReplays(w) ==
    /\ pc[w] = "stripe" /\ replayed[cmd[w].type] # "NONE"
    /\ Respond(w, replayed[cmd[w].type])
    /\ UNCHANGED <<ledger, bank, givenUp, faults>>

StripeRecords(w, record) ==
    /\ pc[w] = "stripe" /\ replayed[cmd[w].type] = "NONE"
    /\ replayed' = [replayed EXCEPT ![cmd[w].type] = record]
    /\ Respond(w, record)
    /\ UNCHANGED <<ledger, givenUp>>

StripeApplies(w) ==
    /\ pc[w] = "stripe" /\ provider = Prerequisite(cmd[w].type)
    /\ StripeRecords(w, "APPLIED")
    /\ provider' = Expected(cmd[w].type)
    /\ UNCHANGED faults

StripeDeclines(w) ==
    /\ StripeRecords(w, "REJECTED")
    /\ \/ provider # Prerequisite(cmd[w].type) /\ UNCHANGED faults
       \/ faults < MaxFaults /\ faults' = faults + 1
    /\ UNCHANGED provider

StripeDefersRefund(w) ==
    /\ cmd[w].type = "RefundPayment" /\ provider = "CAPTURED"
    /\ StripeRecords(w, "PENDING")
    /\ UNCHANGED <<provider, faults>>

StripeRefundSettles ==
    /\ replayed["RefundPayment"] = "PENDING"
    /\ replayed' = [replayed EXCEPT !["RefundPayment"] = "SETTLED"]
    /\ provider' \in {"REFUNDED", provider}
    /\ UNCHANGED <<ledger, local, givenUp, faults>>

StripeIsBusy(w) ==
    /\ pc[w] = "stripe" /\ replayed[cmd[w].type] = "NONE"
    /\ \E v \in Workers \ {w} : pc[v] = "stripe" /\ cmd[v].type = cmd[w].type
    /\ faults < MaxFaults /\ faults' = faults + 1
    /\ GotoWith(w, "complete", "REJECTED")
    /\ givenUp' = givenUp \cup {cmd[w].op}
    /\ UNCHANGED <<ledger, bank>>

(***************************************************************************)
(* Completion: the operation, the payment and the fact change together     *)
(***************************************************************************)
Fault_CompleteAgain(o) == opState[o] # "ABSENT"
CompleteCondition(o) == opState[o] = "IN_PROGRESS" /\ active = o

(* A retrieval answers the state it saw, a mutation its own result, and    *)
(* one that settled another operation goes on to begin its own.            *)
Completed(w, a) ==
    \/ cmd[w].type \in Reads /\ Reply(w, Shown(seen[w]))
    \/ cmd[w].type \in Mutations /\ settling[w] = NoOp /\ Reply(w, a)
    \/ cmd[w].type \in Mutations /\ settling[w] # NoOp /\ GotoSettling(w, "payment", NoOp)

(* Only an applied outcome produces a fact.                                *)
Publish(a) == IF a = "REJECTED" THEN facts ELSE [facts EXCEPT ![a] = @ + 1]

TransactComplete(w) ==
    /\ pc[w] = "complete"
    /\ LET o == Subject(w)
           a == answer[w] IN
       \/ /\ CompleteCondition(o)
          /\ opState' = [opState EXCEPT ![o] = IF a = "REJECTED" THEN "FAILED" ELSE "SUCCEEDED"]
          /\ result' = [result EXCEPT ![o] = a]
          /\ active' = NoOp
          /\ status' = IF a = "REJECTED" THEN status ELSE a
          /\ facts' = Publish(a)
          /\ Completed(w, a)
       \/ /\ ~CompleteCondition(o)
          /\ Goto(w, "rereadComplete")
          /\ UNCHANGED <<opState, result, active, status, facts>>
    /\ UNCHANGED <<payload, refers, bank, givenUp, faults>>

RereadComplete(w) ==
    /\ pc[w] = "rereadComplete"
    /\ \/ Recorded(Subject(w)) /\ Completed(w, result[Subject(w)])
       \/ ~Recorded(Subject(w)) /\ Throw(w)
    /\ UNCHANGED <<ledger, bank, givenUp, faults>>

(* A conflicting request cancels a transaction whose conditions hold.      *)
TransactConflict(w) ==
    /\ faults < MaxFaults /\ faults' = faults + 1
    /\ \/ pc[w] = "transactBegin" /\ Goto(w, "rereadBegin")
       \/ pc[w] = "mutate" /\ Goto(w, "requiredReplay")
       \/ pc[w] = "complete" /\ Goto(w, "rereadComplete")
    /\ UNCHANGED <<ledger, bank, givenUp>>

Step(w) ==
    \/ LookupOperation(w) \/ FindActive(w) \/ Retrieve(w)
    \/ RetrieveState(w) \/ Settle(w) \/ Compare(w)
    \/ FindPayment(w) \/ Begin(w) \/ TransactBegin(w) \/ RereadBegin(w)
    \/ Replay(w) \/ ReadPayment(w) \/ Mutate(w)
    \/ RecordRejection(w) \/ RequiredReplay(w)
    \/ SendToStripe(w) \/ StripeReplays(w) \/ StripeApplies(w)
    \/ TransactComplete(w) \/ RereadComplete(w)
    \/ Return(w)

Next ==
    \/ \E w \in Workers, c \in Commands : Invoke(w, c)
    \/ \E w \in Workers :
          \/ Step(w) \/ Lose(w) \/ TransactConflict(w)
          \/ StripeDeclines(w) \/ StripeDefersRefund(w) \/ StripeIsBusy(w)
    \/ StripeRefundSettles

Spec == Init /\ [][Next]_vars

(* An invocation runs on, Stripe answers a request one way or another, and *)
(* the caller of a resent command finds a free worker again and again.     *)
Fairness ==
    /\ \A w \in Workers : WF_vars(Step(w) \/ StripeDeclines(w) \/ StripeDefersRefund(w))
    /\ \A c \in Resent : SF_vars(\E w \in Workers : Invoke(w, c))
FairSpec == Spec /\ Fairness

-----------------------------------------------------------------------------
(***************************************************************************)
(* Properties                                                              *)
(***************************************************************************)
Points == {"idle", "lookup", "active", "payment", "retrieve", "settle", "compare", "begin",
           "transactBegin", "rereadBegin", "replay", "read", "mutate", "reject",
           "requiredReplay", "stripe", "complete", "rereadComplete", "reply"}
MaybeCommand == CommandRecord \cup {NoCommand}
MaybeOp == Ops \cup {NoOp}

LedgerOK ==
    /\ opState \in [Ops -> {"ABSENT", "IN_PROGRESS", "SUCCEEDED", "FAILED"}]
    /\ payload \in [Ops -> MaybeCommand]
    /\ \A o \in Ops :
          opState[o] # "ABSENT" =>
              payload[o] \in CommandRecord /\ payload[o].op = o /\ payload[o].type \in Mutations
    /\ refers \in [Ops -> BOOLEAN]
    /\ result \in [Ops -> Answers \cup {"NONE"}]
    /\ active \in MaybeOp /\ status \in ProviderStates
    /\ facts \in [Applied -> Nat]

BankOK ==
    /\ provider \in ProviderStates
    /\ replayed \in [Mutations -> {"NONE", "APPLIED", "REJECTED", "PENDING", "SETTLED"}]

LocalOK ==
    /\ pc \in [Workers -> Points]
    /\ cmd \in [Workers -> MaybeCommand]
    /\ \A w \in Workers : pc[w] # "idle" => cmd[w] \in CommandRecord
    /\ settling \in [Workers -> MaybeOp] /\ knows \in [Workers -> BOOLEAN]
    /\ seen \in [Workers -> ProviderStates]
    /\ answer \in [Workers -> Answers \cup {"NONE"}]
    /\ \A w \in Workers : pc[w] \in {"complete", "reply"} => answer[w] \in Answers

(* The shape of the ledger, of the provider's records and of every worker. *)
TypeOK == LedgerOK /\ BankOK /\ LocalOK /\ givenUp \subseteq Ops /\ faults \in Nat

(* A recorded operation keeps its state and its result for ever, so every  *)
(* retry hears the same.                                                   *)
RecordedForever ==
    [][\A o \in Ops : Recorded(o) =>
          opState'[o] = opState[o] /\ result'[o] = result[o]]_vars

(* The ledger claims nothing the provider did not do: a status, a          *)
(* successful operation or a published fact of a state the payment never   *)
(* reached.                                                                *)
LedgerNeverAhead ==
    /\ status # "NONE" => status \in Passed(provider)
    /\ \A o \in Ops : opState[o] = "SUCCEEDED" => result[o] \in Passed(provider)
    /\ \A s \in Applied : facts[s] > 0 => s \in Passed(provider)

(* Each successful operation published its fact once, under lost answers,  *)
(* retries and settlements by another operation alike.                     *)
OneFactPerSuccess ==
    \A s \in Applied :
        facts[s] = Cardinality({o \in Ops : opState[o] = "SUCCEEDED" /\ result[o] = s})

(* With no operation in progress the ledger shows what the provider shows, *)
(* unless an operation was given up that may have been on its way: by a    *)
(* retrieval that did not see it applied, or as Stripe was busy with it.   *)
AgreesWhenSettled == active = NoOp /\ givenUp = {} => status = provider

(* An operation in progress is recorded in the end, if its caller keeps    *)
(* coming back and, over Stripe, it began with the reference it needs; no  *)
(* other operation may have moved the payment out of its reach.            *)
AbandonedIsCompleted ==
    \A c \in Resent :
        /\ opState[c.op] = "IN_PROGRESS" /\ payload[c.op] = c
        /\ provider = Prerequisite(c.type)
        /\ Stripe => c.type = "AuthorizePayment" \/ refers[c.op]
        ~> Recorded(c.op) \/ provider \notin {Prerequisite(c.type), Expected(c.type)}
=============================================================================
