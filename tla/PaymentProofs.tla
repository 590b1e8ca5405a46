------------------------------ MODULE PaymentProofs ------------------------------
(***************************************************************************)
(* Proofs about the Payment service, its ledger and the provider, for any  *)
(* commands, workers and number of faults, over the deterministic provider *)
(* and over Stripe.                                                        *)
(***************************************************************************)
EXTENDS Payment, FiniteSetTheorems, TLAPS

(* Where a worker sends its operation to the provider.                     *)
Sending == {"replay", "read", "mutate", "reject", "requiredReplay", "stripe"}
Beginning == {"lookup", "active", "begin", "transactBegin", "rereadBegin"}
Looking == {"settle", "compare"}

Begun(o) == o \in Ops /\ opState[o] # "ABSENT"

(* An operation is in progress while it is the active one, and a recorded  *)
(* one holds its outcome.                                                  *)
LedgerInv ==
    /\ LedgerOK
    /\ \A o \in Ops : opState[o] = "IN_PROGRESS" <=> active = o
    /\ \A o \in Ops : opState[o] = "FAILED" => result[o] = "REJECTED"
    /\ \A o \in Ops : opState[o] = "SUCCEEDED" => result[o] = Expected(payload[o].type)

(* What a worker is about: its own begun operation while it sends, a begun *)
(* one while it retrieves and completes.                                   *)
WorkerInv(w) ==
    LET c == cmd[w] IN
    /\ pc[w] \in Sending \cup Beginning => c.type \in Mutations
    /\ pc[w] \in Looking => c.type \in Reads
    /\ pc[w] = "payment" => c.type # "ProviderEvent"
    /\ pc[w] \in Sending \cup Beginning \cup Looking \cup {"payment", "idle"} => settling[w] = NoOp
    /\ pc[w] \in Sending \/ (pc[w] = "retrieve" /\ c.type \in Mutations /\ settling[w] = NoOp)
          => Begun(c.op) /\ payload[c.op] = c
    /\ pc[w] = "retrieve" /\ c.type \in Reads => settling[w] = NoOp
    /\ settling[w] # NoOp => Begun(settling[w])
    /\ pc[w] \in {"complete", "rereadComplete"} => Begun(Subject(w))
    /\ pc[w] = "complete" => answer[w] \in {"REJECTED", Expected(payload[Subject(w)].type)}

ServiceInv ==
    /\ LedgerInv /\ BankOK /\ LocalOK
    /\ givenUp \subseteq Ops /\ faults \in Nat
    /\ \A w \in Workers : WorkerInv(w)

(* What the provider has recorded as applied it has passed through.        *)
BankInv ==
    /\ \A t \in Mutations : replayed[t] = "APPLIED" => Expected(t) \in Passed(provider)
    /\ replayed["RefundPayment"] = "PENDING" => provider = "CAPTURED"

(* A worker has seen, and is about to record, only what the provider did.  *)
SawIt(w) ==
    /\ seen[w] # "NONE" => seen[w] \in Passed(provider)
    /\ pc[w] = "complete" /\ answer[w] # "REJECTED" => answer[w] \in Passed(provider)

TruthInv == BankInv /\ LedgerNeverAhead /\ \A w \in Workers : SawIt(w)

Succeeded(s) == {o \in Ops : opState[o] = "SUCCEEDED" /\ result[o] = s}
FactsInv == \A s \in Applied : IsFiniteSet(Succeeded(s)) /\ facts[s] = Cardinality(Succeeded(s))

(* While no operation was given up: the ledger is at most the active       *)
(* operation behind the provider, and what it records as failed the        *)
(* provider has refused for good.                                          *)
Level ==
    IF active = NoOp THEN status = provider
    ELSE LET t == payload[active].type IN
         \/ status = provider
         \/ /\ status = Prerequisite(t) /\ provider = Expected(t)
            /\ replayed[t] \in {"APPLIED", "SETTLED"}

AgreeInv ==
    /\ Level
    /\ replayed["RefundPayment"] = "PENDING" =>
          active # NoOp /\ payload[active].type = "RefundPayment"
    /\ \A o \in Ops : opState[o] = "FAILED" => replayed[payload[o].type] = "REJECTED"
    /\ \A s \in Passed(status) :
          \E o \in Ops : opState[o] = "SUCCEEDED" /\ Expected(payload[o].type) = s
    /\ \A w \in Workers : pc[w] = "complete" /\ answer[w] = "REJECTED" =>
          replayed[payload[Subject(w)].type] = "REJECTED"
AgreesWhile == givenUp = {} => AgreeInv

(* Which provider a worker talks to, and whose commands are executed.      *)
Durably == {"read", "mutate", "reject", "requiredReplay"}
SetupInv ==
    /\ \A w \in Workers :
          /\ pc[w] = "stripe" => Stripe
          /\ pc[w] \in Durably => ~Stripe
          /\ pc[w] # "idle" => cmd[w] \in Commands
    /\ \A t \in Mutations : replayed[t] \in {"PENDING", "SETTLED"} => Stripe
    /\ \A o \in Ops : opState[o] # "ABSENT" => payload[o] \in Commands

(* An authorization and a capture have one operation id each, as the       *)
(* workflow derives it from the checkout.                                  *)
OneOperationEach ==
    \A c, d \in Commands :
        c.type = d.type /\ c.type \in {"AuthorizePayment", "CapturePayment"} => c.op = d.op

-----------------------------------------------------------------------------
(***************************************************************************)
(* The payment's states                                                    *)
(***************************************************************************)
LEMMA ExpectedIs ==
    /\ Expected("AuthorizePayment") = "AUTHORIZED" /\ Expected("CapturePayment") = "CAPTURED"
    /\ Expected("CancelPayment") = "CANCELLED" /\ Expected("RefundPayment") = "REFUNDED"
  BY DEF Expected

LEMMA PrerequisiteIs ==
    /\ Prerequisite("AuthorizePayment") = "NONE" /\ Prerequisite("CapturePayment") = "AUTHORIZED"
    /\ Prerequisite("CancelPayment") = "AUTHORIZED" /\ Prerequisite("RefundPayment") = "CAPTURED"
  BY DEF Prerequisite

LEMMA PassedIs ==
    /\ Passed("NONE") = {} /\ Passed("AUTHORIZED") = {"AUTHORIZED"}
    /\ Passed("CAPTURED") = {"AUTHORIZED", "CAPTURED"}
    /\ Passed("CANCELLED") = {"AUTHORIZED", "CANCELLED"}
    /\ Passed("REFUNDED") = {"AUTHORIZED", "CAPTURED", "REFUNDED"}
  BY DEF Passed

(* A verb leads from its prerequisite to its expected state, which is new. *)
LEMMA VerbMoves ==
    ASSUME NEW t \in Mutations
    PROVE  /\ Expected(t) \in Applied /\ Expected(t) \in ProviderStates
           /\ Prerequisite(t) \in ProviderStates
           /\ Passed(Expected(t)) = Passed(Prerequisite(t)) \cup {Expected(t)}
           /\ Expected(t) \notin Passed(Prerequisite(t))
           /\ Expected(t) # Prerequisite(t)
  <1>1. CASE t = "AuthorizePayment"
    BY <1>1, ExpectedIs, PrerequisiteIs, PassedIs DEF Applied, ProviderStates
  <1>2. CASE t = "CapturePayment"
    BY <1>2, ExpectedIs, PrerequisiteIs, PassedIs DEF Applied, ProviderStates
  <1>3. CASE t = "CancelPayment"
    BY <1>3, ExpectedIs, PrerequisiteIs, PassedIs DEF Applied, ProviderStates
  <1>4. CASE t = "RefundPayment"
    BY <1>4, ExpectedIs, PrerequisiteIs, PassedIs DEF Applied, ProviderStates
  <1> QED BY <1>1, <1>2, <1>3, <1>4 DEF Mutations

LEMMA ExpectedTellsVerb ==
    ASSUME NEW t \in Mutations, NEW u \in Mutations, Expected(t) = Expected(u)
    PROVE  t = u
  BY ExpectedIs DEF Mutations

LEMMA StatePassed ==
    ASSUME NEW s \in ProviderStates
    PROVE  /\ Passed(s) \subseteq Applied
           /\ s # "NONE" => s \in Passed(s)
           /\ \A p \in Passed(s) : p # "NONE" /\ Passed(p) \subseteq Passed(s)
  BY PassedIs DEF ProviderStates, Applied

LEMMA FoundPassed ==
    ASSUME NEW known, provider \in ProviderStates, NEW found \in Found(known), found # "NONE"
    PROVE  found \in Passed(provider)
  BY StatePassed DEF Found

LEMMA FoundIsState ==
    ASSUME NEW known, provider \in ProviderStates, NEW found \in Found(known)
    PROVE  found \in ProviderStates
  BY StatePassed DEF Found, ProviderStates

LEMMA ClassifyIs ==
    ASSUME NEW t \in Mutations, NEW found \in ProviderStates
    PROVE  Classify(t, found) = "EXPECTED" <=> found = Expected(t)
  BY VerbMoves DEF Classify

-----------------------------------------------------------------------------
(***************************************************************************)
(* What the building blocks of the actions do to a worker                  *)
(***************************************************************************)
Same(w) ==
    /\ pc'[w] = pc[w] /\ cmd'[w] = cmd[w] /\ settling'[w] = settling[w]
    /\ knows'[w] = knows[w] /\ seen'[w] = seen[w] /\ answer'[w] = answer[w]
OthersStay(w) == \A v \in Workers : v # w => Same(v)

LEMMA OpIsNotNone == NoOp \notin Ops /\ NoCommand \notin CommandRecord
  BY PaymentConstants DEF NoCommand, CommandRecord, Mutations, Reads

LEMMA AnswerType ==
    /\ Applied \subseteq Answers /\ "REJECTED" \in Answers /\ "RECONCILIATION_REQUIRED" \in Answers
    /\ \A s \in ProviderStates : Shown(s) \in Answers
    /\ \A t \in Mutations : Expected(t) \in Answers
  BY VerbMoves DEF Answers, Applied, ProviderStates, Shown

LEMMA GotoMoves ==
    ASSUME LocalOK, NEW w \in Workers, pc[w] # "idle",
           NEW p \in Points \ {"idle", "complete", "reply"}, Goto(w, p)
    PROVE  /\ LocalOK' /\ OthersStay(w)
           /\ pc'[w] = p /\ cmd'[w] = cmd[w] /\ settling'[w] = settling[w]
           /\ knows'[w] = knows[w] /\ seen'[w] = seen[w] /\ answer'[w] = answer[w]
  BY DEF LocalOK, Goto, OthersStay, Same

LEMMA GotoWithMoves ==
    ASSUME LocalOK, NEW w \in Workers, pc[w] # "idle",
           NEW p \in Points \ {"idle"}, NEW a \in Answers, GotoWith(w, p, a)
    PROVE  /\ LocalOK' /\ OthersStay(w)
           /\ pc'[w] = p /\ cmd'[w] = cmd[w] /\ settling'[w] = settling[w]
           /\ knows'[w] = knows[w] /\ seen'[w] = seen[w] /\ answer'[w] = a
  BY DEF LocalOK, GotoWith, OthersStay, Same

LEMMA GotoSettlingMoves ==
    ASSUME LocalOK, NEW w \in Workers, pc[w] # "idle",
           NEW p \in Points \ {"idle", "complete", "reply"}, NEW o \in MaybeOp,
           GotoSettling(w, p, o)
    PROVE  /\ LocalOK' /\ OthersStay(w)
           /\ pc'[w] = p /\ cmd'[w] = cmd[w] /\ settling'[w] = o
           /\ knows'[w] = knows[w] /\ seen'[w] = seen[w] /\ answer'[w] = answer[w]
  BY DEF LocalOK, GotoSettling, OthersStay, Same

LEMMA EndMoves ==
    ASSUME LocalOK, NEW w \in Workers, End(w)
    PROVE  /\ LocalOK' /\ OthersStay(w) /\ pc'[w] = "idle" /\ settling'[w] = NoOp
           /\ seen'[w] = "NONE"
  BY DEF LocalOK, End, OthersStay, Same, Points, MaybeCommand, MaybeOp, ProviderStates

LEMMA InvokeMoves ==
    ASSUME LocalOK, NEW w \in Workers, NEW c \in Commands, Invoke(w, c)
    PROVE  /\ LocalOK' /\ OthersStay(w) /\ cmd'[w] = c /\ c \in CommandRecord
           /\ settling'[w] = settling[w] /\ seen'[w] = seen[w]
           /\ pc'[w] = IF c.type = "RetrievePayment" THEN "payment"
                       ELSE IF c.type = "ProviderEvent" THEN "retrieve" ELSE "lookup"
  <1> DEFINE p == CASE c.type = "RetrievePayment" -> "payment"
                    [] c.type = "ProviderEvent" -> "retrieve"
                    [] OTHER -> "lookup"
  <1>1. p = IF c.type = "RetrievePayment" THEN "payment"
            ELSE IF c.type = "ProviderEvent" THEN "retrieve" ELSE "lookup"
    OBVIOUS
  <1>2. /\ pc' = [pc EXCEPT ![w] = p] /\ cmd' = [cmd EXCEPT ![w] = c]
        /\ knows' = [knows EXCEPT ![w] = c.type = "ProviderEvent"]
        /\ UNCHANGED <<settling, seen, answer>>
    BY DEF Invoke
  <1>3. p \in Points /\ p \notin {"idle", "complete", "reply"}
    BY <1>1 DEF Points
  <1>4. c \in CommandRecord
    BY PaymentConstants
  <1> HIDE DEF p
  <1>5. /\ pc'[w] = p /\ pc' \in [Workers -> Points]
        /\ cmd'[w] = c /\ cmd' \in [Workers -> MaybeCommand]
    BY <1>2, <1>3, <1>4 DEF LocalOK, MaybeCommand
  <1>6. knows' \in [Workers -> BOOLEAN]
    BY <1>2 DEF LocalOK
  <1>7. OthersStay(w)
    BY <1>2 DEF LocalOK, OthersStay, Same
  <1>8. LocalOK'
    BY <1>2, <1>3, <1>4, <1>5, <1>6, <1>7 DEF LocalOK, OthersStay, Same
  <1> QED BY <1>1, <1>2, <1>4, <1>5, <1>7, <1>8 DEF LocalOK

-----------------------------------------------------------------------------
(***************************************************************************)
(* The ledger                                                              *)
(***************************************************************************)
LEMMA ActiveWorker ==
    ASSUME ServiceInv, NEW w \in Workers, pc[w] # "idle"
    PROVE  /\ cmd[w] \in CommandRecord /\ cmd[w].op \in Ops
           /\ cmd[w].type \in Mutations \cup Reads
           /\ settling[w] \in MaybeOp /\ Subject(w) \in Ops
  BY DEF ServiceInv, LocalOK, CommandRecord, Subject, MaybeOp

(* The two transactions that write the ledger. *)
LEMMA LedgerWriters ==
    ASSUME [Next]_vars, ~ UNCHANGED ledger
    PROVE  \E w \in Workers :
              \/ TransactBegin(w) /\ BeginCondition(cmd[w])
              \/ TransactComplete(w) /\ CompleteCondition(Subject(w))
  <1>1. PICK w \in Workers : TransactBegin(w) \/ TransactComplete(w)
    BY DEF Next, vars, Invoke, Step, Lose, TransactConflict, StripeDeclines, StripeDefersRefund,
           StripeIsBusy, StripeRefundSettles, StripeRecords, LookupOperation, FindActive, Retrieve,
           RetrieveState, Settle, Compare, FindPayment, Begin, RereadBegin, Replay, ReadPayment,
           Mutate, RecordRejection, RequiredReplay, SendToStripe, StripeReplays, StripeApplies,
           RereadComplete, Return
  <1> QED BY <1>1 DEF TransactBegin, TransactComplete, ledger

LEMMA BeginsOperation ==
    ASSUME ServiceInv, NEW w \in Workers, TransactBegin(w), BeginCondition(cmd[w])
    PROVE  LET c == cmd[w] IN
           /\ c \in CommandRecord /\ c.op \in Ops /\ c.type \in Mutations
           /\ opState[c.op] = "ABSENT" /\ active = NoOp
           /\ opState' = [opState EXCEPT ![c.op] = "IN_PROGRESS"]
           /\ payload' = [payload EXCEPT ![c.op] = c]
           /\ refers' = [refers EXCEPT ![c.op] = knows[w]]
           /\ active' = c.op /\ UNCHANGED <<result, status, facts>>
  BY ActiveWorker DEF TransactBegin, BeginCondition, ServiceInv, WorkerInv, Beginning

LEMMA CompletesOperation ==
    ASSUME ServiceInv, NEW w \in Workers, TransactComplete(w), CompleteCondition(Subject(w))
    PROVE  LET o == Subject(w)
               a == answer[w] IN
           /\ pc[w] = "complete" /\ o \in Ops /\ active = o /\ opState[o] = "IN_PROGRESS"
           /\ a \in {"REJECTED", Expected(payload[o].type)} /\ payload[o].type \in Mutations
           /\ opState' = [opState EXCEPT ![o] = IF a = "REJECTED" THEN "FAILED" ELSE "SUCCEEDED"]
           /\ result' = [result EXCEPT ![o] = a]
           /\ active' = NoOp /\ status' = IF a = "REJECTED" THEN status ELSE a
           /\ facts' = Publish(a) /\ UNCHANGED <<payload, refers>>
  BY ActiveWorker
     DEF TransactComplete, CompleteCondition, ServiceInv, WorkerInv, LedgerInv, LedgerOK

(* What never goes back: an operation once begun, and once recorded.       *)
LedgerForward ==
    \A o \in Ops :
        /\ opState[o] # "ABSENT" => opState'[o] # "ABSENT" /\ payload'[o] = payload[o]
        /\ Recorded(o) => opState'[o] = opState[o] /\ result'[o] = result[o]

LEMMA BeginLedger ==
    ASSUME ServiceInv, NEW w \in Workers, TransactBegin(w), BeginCondition(cmd[w])
    PROVE  LedgerInv' /\ LedgerForward
  <1> DEFINE c == cmd[w]
  <1>a. LedgerInv /\ LedgerOK /\ knows[w] \in BOOLEAN
    BY DEF ServiceInv, LedgerInv, LocalOK
  <1>1. /\ c \in CommandRecord /\ c.op \in Ops /\ c.type \in Mutations
        /\ opState[c.op] = "ABSENT" /\ active = NoOp
        /\ opState' = [opState EXCEPT ![c.op] = "IN_PROGRESS"]
        /\ payload' = [payload EXCEPT ![c.op] = c]
        /\ refers' = [refers EXCEPT ![c.op] = knows[w]]
        /\ active' = c.op /\ UNCHANGED <<result, status, facts>>
    BY BeginsOperation
  <1> HIDE DEF c
  <1>2. /\ opState' \in [Ops -> {"ABSENT", "IN_PROGRESS", "SUCCEEDED", "FAILED"}]
        /\ payload' \in [Ops -> MaybeCommand]
        /\ refers' \in [Ops -> BOOLEAN]
    BY <1>a, <1>1 DEF LedgerOK, MaybeCommand
  <1>3. \A o \in Ops :
           /\ opState'[o] = IF o = c.op THEN "IN_PROGRESS" ELSE opState[o]
           /\ payload'[o] = IF o = c.op THEN c ELSE payload[o]
    BY <1>a, <1>1 DEF LedgerOK
  <1>4. LedgerOK'
    BY <1>a, <1>1, <1>2, <1>3 DEF LedgerOK, MaybeOp
  <1>5. LedgerForward
    BY <1>1, <1>3 DEF LedgerForward, Recorded
  <1>6. \A o \in Ops : opState'[o] = "IN_PROGRESS" <=> active' = o
    BY <1>1, <1>3, <1>a, OpIsNotNone DEF LedgerInv
  <1>7. \A o \in Ops : opState'[o] \in {"SUCCEEDED", "FAILED"} =>
            opState'[o] = opState[o] /\ payload'[o] = payload[o] /\ result'[o] = result[o]
    BY <1>1, <1>3
  <1> QED BY <1>4, <1>5, <1>6, <1>7, <1>a DEF LedgerInv

LEMMA CompleteLedger ==
    ASSUME ServiceInv, NEW w \in Workers, TransactComplete(w), CompleteCondition(Subject(w))
    PROVE  LedgerInv' /\ LedgerForward
  <1> DEFINE o == Subject(w)
             a == answer[w]
             done == IF a = "REJECTED" THEN "FAILED" ELSE "SUCCEEDED"
  <1>a. LedgerInv /\ LedgerOK
    BY DEF ServiceInv, LedgerInv
  <1>1. /\ o \in Ops /\ active = o /\ opState[o] = "IN_PROGRESS"
        /\ a \in {"REJECTED", Expected(payload[o].type)} /\ payload[o].type \in Mutations
        /\ opState' = [opState EXCEPT ![o] = done]
        /\ result' = [result EXCEPT ![o] = a]
        /\ active' = NoOp /\ status' = IF a = "REJECTED" THEN status ELSE a
        /\ facts' = Publish(a) /\ UNCHANGED <<payload, refers>>
    BY CompletesOperation
  <1>2. a \in Answers /\ (a # "REJECTED" => a \in Applied /\ a \in ProviderStates)
    BY <1>1, VerbMoves, AnswerType
  <1>3. done \in {"SUCCEEDED", "FAILED"} /\ (done = "FAILED" <=> a = "REJECTED")
    OBVIOUS
  <1> HIDE DEF o, a, done
  <1>4. facts' \in [Applied -> Nat]
    BY <1>1, <1>2, <1>a DEF Publish, LedgerOK
  <1>5. \A p \in Ops :
           /\ opState'[p] = IF p = o THEN done ELSE opState[p]
           /\ result'[p] = IF p = o THEN a ELSE result[p]
    BY <1>1, <1>a DEF LedgerOK
  <1>6. /\ opState' \in [Ops -> {"ABSENT", "IN_PROGRESS", "SUCCEEDED", "FAILED"}]
        /\ result' \in [Ops -> Answers \cup {"NONE"}]
    BY <1>1, <1>2, <1>3, <1>a DEF LedgerOK
  <1>7. \A p \in Ops : opState'[p] # "ABSENT" => opState[p] # "ABSENT"
    BY <1>1, <1>5
  <1>8. LedgerOK'
    BY <1>1, <1>2, <1>4, <1>6, <1>7, <1>a DEF LedgerOK, MaybeOp
  <1>9. LedgerForward
    BY <1>1, <1>3, <1>5 DEF LedgerForward, Recorded
  <1>10. \A p \in Ops : opState'[p] = "IN_PROGRESS" <=> active' = p
    BY <1>1, <1>3, <1>5, <1>a, OpIsNotNone DEF LedgerInv
  <1>11. /\ \A p \in Ops : opState'[p] = "FAILED" => result'[p] = "REJECTED"
         /\ \A p \in Ops : opState'[p] = "SUCCEEDED" => result'[p] = Expected(payload'[p].type)
    BY <1>1, <1>3, <1>5, <1>a DEF LedgerInv
  <1> QED BY <1>8, <1>9, <1>10, <1>11 DEF LedgerInv

LEMMA LedgerStep == ServiceInv /\ [Next]_vars => LedgerInv' /\ LedgerForward
  <1> SUFFICES ASSUME ServiceInv, [Next]_vars PROVE LedgerInv' /\ LedgerForward
    OBVIOUS
  <1>1. CASE UNCHANGED ledger
    BY <1>1 DEF ServiceInv, LedgerInv, LedgerOK, LedgerForward, ledger
  <1>2. CASE ~ UNCHANGED ledger
    BY <1>2, LedgerWriters, BeginLedger, CompleteLedger
  <1> QED BY <1>1, <1>2

-----------------------------------------------------------------------------
(***************************************************************************)
(* The workers                                                             *)
(***************************************************************************)
WorkerAction(w) ==
    \/ \E c \in Commands : Invoke(w, c)
    \/ Step(w) \/ Lose(w) \/ TransactConflict(w)
    \/ StripeDeclines(w) \/ StripeDefersRefund(w) \/ StripeIsBusy(w)

(* An operation that is begun after the step. *)
BegunNext(o) == o \in Ops /\ opState'[o] # "ABSENT"

(* Where a worker may stand, given the command it executes. *)
MayStandAt(w, p) ==
    LET c == cmd[w] IN
    /\ p \in Sending \cup Beginning => c.type \in Mutations
    /\ p \in Looking => c.type \in Reads
    /\ p = "payment" => c.type # "ProviderEvent"
    /\ p \in Sending \cup Beginning \cup Looking \cup {"payment", "idle"} => settling[w] = NoOp
    /\ p \in Sending \/ (p = "retrieve" /\ c.type \in Mutations /\ settling[w] = NoOp)
          => BegunNext(c.op) /\ payload'[c.op] = c
    /\ p = "retrieve" /\ c.type \in Reads => settling[w] = NoOp
    /\ p = "rereadComplete" => Begun(Subject(w))

LEMMA BegunForward ==
    ASSUME LedgerForward, NEW o, Begun(o)
    PROVE  BegunNext(o) /\ payload'[o] = payload[o]
  BY DEF Begun, BegunNext, LedgerForward

LEMMA WorkerKept ==
    ASSUME ServiceInv, LedgerForward, NEW w \in Workers, Same(w)
    PROVE  WorkerInv(w)'
  <1>1. WorkerInv(w)
    BY DEF ServiceInv
  <1>2. Begun(cmd[w].op) => BegunNext(cmd[w].op) /\ payload'[cmd[w].op] = payload[cmd[w].op]
    BY BegunForward
  <1>3. Begun(settling[w]) => BegunNext(settling[w]) /\ payload'[settling[w]] = payload[settling[w]]
    BY BegunForward
  <1> QED BY <1>1, <1>2, <1>3 DEF Same, WorkerInv, Subject, Begun, BegunNext

(* A worker that goes elsewhere in its invocation. *)
LEMMA WorkerGoes ==
    ASSUME ServiceInv, LedgerForward, NEW w \in Workers, pc[w] # "idle",
           NEW p \in Points \ {"idle", "complete", "reply"}, Goto(w, p), MayStandAt(w, p)
    PROVE  LocalOK' /\ OthersStay(w) /\ WorkerInv(w)'
  <1>1. LocalOK' /\ OthersStay(w) /\ pc'[w] = p /\ cmd'[w] = cmd[w] /\ settling'[w] = settling[w]
    BY GotoMoves DEF ServiceInv
  <1>2. WorkerInv(w)
    BY DEF ServiceInv
  <1>3. Begun(cmd[w].op) => BegunNext(cmd[w].op) /\ payload'[cmd[w].op] = payload[cmd[w].op]
    BY BegunForward
  <1>4. Begun(settling[w]) => BegunNext(settling[w]) /\ payload'[settling[w]] = payload[settling[w]]
    BY BegunForward
  <1>5. WorkerInv(w)'
    BY <1>1, <1>2, <1>3, <1>4 DEF WorkerInv, MayStandAt, Subject, Begun, BegunNext, Sending,
       Beginning, Looking
  <1> QED BY <1>1, <1>5

LEMMA WorkerReplies ==
    ASSUME ServiceInv, LedgerForward, NEW w \in Workers, pc[w] # "idle",
           NEW a \in Answers, Reply(w, a)
    PROVE  LocalOK' /\ OthersStay(w) /\ WorkerInv(w)'
  <1>1. /\ LocalOK' /\ OthersStay(w) /\ pc'[w] = "reply"
        /\ cmd'[w] = cmd[w] /\ settling'[w] = settling[w]
    BY GotoWithMoves DEF ServiceInv, Reply, Points
  <1>2. settling[w] # NoOp => Begun(settling[w])
    BY DEF ServiceInv, WorkerInv
  <1>3. settling[w] # NoOp => BegunNext(settling[w])
    BY <1>2, BegunForward
  <1> QED BY <1>1, <1>3 DEF WorkerInv, Begun, BegunNext, Sending, Beginning, Looking

LEMMA WorkerEnds ==
    ASSUME ServiceInv, NEW w \in Workers, End(w)
    PROVE  LocalOK' /\ OthersStay(w) /\ WorkerInv(w)'
  <1>1. LocalOK' /\ OthersStay(w) /\ pc'[w] = "idle" /\ settling'[w] = NoOp
    BY EndMoves DEF ServiceInv
  <1> QED BY <1>1 DEF WorkerInv, Sending, Beginning, Looking

(* A worker that knows the outcome of its operation. *)
LEMMA WorkerCompletes ==
    ASSUME ServiceInv, LedgerForward, NEW w \in Workers, pc[w] # "idle", Begun(Subject(w)),
           NEW a \in {"REJECTED", Expected(payload[Subject(w)].type)},
           GotoWith(w, "complete", a)
    PROVE  LocalOK' /\ OthersStay(w) /\ WorkerInv(w)'
  <1>1. payload[Subject(w)].type \in Mutations
    BY DEF ServiceInv, LedgerInv, LedgerOK, Begun
  <1>2. a \in Answers
    BY <1>1, AnswerType
  <1>3. /\ LocalOK' /\ OthersStay(w) /\ pc'[w] = "complete" /\ answer'[w] = a
        /\ cmd'[w] = cmd[w] /\ settling'[w] = settling[w]
    BY <1>2, GotoWithMoves DEF ServiceInv, Points
  <1>4. BegunNext(Subject(w)) /\ payload'[Subject(w)] = payload[Subject(w)]
    BY BegunForward
  <1>5. settling[w] # NoOp => BegunNext(settling[w])
    BY <1>4 DEF Subject
  <1> QED BY <1>3, <1>4, <1>5 DEF WorkerInv, Subject, Begun, BegunNext, Sending, Beginning, Looking

LEMMA WorkerSettles ==
    ASSUME ServiceInv, LedgerForward, NEW w \in Workers, pc[w] # "idle", active # NoOp,
           NEW a \in {"REJECTED", Expected(payload[active].type)}, CompleteFor(w, active, a)
    PROVE  LocalOK' /\ OthersStay(w) /\ WorkerInv(w)'
  <1>1. /\ active \in Ops /\ Begun(active) /\ payload[active].type \in Mutations
        /\ LocalOK
    BY DEF ServiceInv, LedgerInv, LedgerOK, MaybeOp, Begun
  <1>2. a \in Answers
    BY <1>1, AnswerType
  <1>3. /\ pc'[w] = "complete" /\ answer'[w] = a /\ settling'[w] = active /\ OthersStay(w)
    BY <1>1 DEF CompleteFor, LocalOK, OthersStay, Same
  <1>4. LocalOK'
    BY <1>1, <1>2 DEF CompleteFor, LocalOK, MaybeOp, Points
  <1>5. BegunNext(active) /\ payload'[active] = payload[active]
    BY <1>1, BegunForward
  <1> QED
    BY <1>1, <1>3, <1>4, <1>5
       DEF WorkerInv, Subject, Begun, BegunNext, Sending, Beginning, Looking

LEMMA WorkerIsDone ==
    ASSUME ServiceInv, LedgerForward, NEW w \in Workers, pc[w] # "idle",
           NEW a \in Answers, Completed(w, a)
    PROVE  LocalOK' /\ OthersStay(w) /\ WorkerInv(w)'
  <1>1. CASE Reply(w, a)
    BY <1>1, WorkerReplies
  <1>2. CASE Reply(w, Shown(seen[w]))
    <2>1. Shown(seen[w]) \in Answers
      BY AnswerType DEF ServiceInv, LocalOK
    <2> QED BY <1>2, <2>1, WorkerReplies
  <1>3. CASE cmd[w].type \in Mutations /\ GotoSettling(w, "payment", NoOp)
    <2>1. /\ LocalOK' /\ OthersStay(w) /\ pc'[w] = "payment" /\ settling'[w] = NoOp
          /\ cmd'[w] = cmd[w]
      BY <1>3, GotoSettlingMoves DEF ServiceInv, Points, MaybeOp
    <2> QED BY <1>3, <2>1 DEF WorkerInv, Sending, Beginning, Looking, Mutations
  <1> QED BY <1>1, <1>2, <1>3 DEF Completed

LEMMA WorkerResumes ==
    ASSUME ServiceInv, LedgerForward, NEW w \in Workers, pc[w] \in Beginning,
           NEW p \in {"retrieve", "replay"}, opState[cmd[w].op] # "ABSENT", Resume(w, p)
    PROVE  LocalOK' /\ OthersStay(w) /\ WorkerInv(w)'
  <1>1. pc[w] # "idle" /\ WorkerInv(w)
    BY DEF ServiceInv, Beginning
  <1>2. cmd[w].op \in Ops /\ cmd[w].type \in Mutations /\ settling[w] = NoOp
    BY <1>1, ActiveWorker DEF WorkerInv
  <1>3. CASE Throw(w)
    BY <1>3, WorkerEnds DEF Throw
  <1>4. CASE Recorded(cmd[w].op) /\ Reply(w, result[cmd[w].op])
    <2>1. payload[cmd[w].op].type \in Mutations
      BY <1>2 DEF ServiceInv, LedgerInv, LedgerOK
    <2>2. result[cmd[w].op] \in Answers
      BY <1>2, <1>4, <2>1, AnswerType DEF ServiceInv, LedgerInv, Recorded
    <2> QED BY <1>1, <1>4, <2>2, WorkerReplies
  <1>5. CASE payload[cmd[w].op] = cmd[w] /\ Goto(w, p)
    <2>1. BegunNext(cmd[w].op) /\ payload'[cmd[w].op] = cmd[w]
      BY <1>2, <1>5, BegunForward DEF Begun
    <2>2. MayStandAt(w, p)
      BY <1>2, <2>1 DEF MayStandAt, Sending, Beginning, Looking, Mutations, Reads
    <2>3. p \in Points \ {"idle", "complete", "reply"}
      BY DEF Points
    <2> QED BY <1>1, <1>5, <2>2, <2>3, WorkerGoes
  <1> QED BY <1>3, <1>4, <1>5 DEF Resume

LEMMA WorkerInvokes ==
    ASSUME ServiceInv, NEW w \in Workers, NEW c \in Commands, Invoke(w, c)
    PROVE  LocalOK' /\ OthersStay(w) /\ WorkerInv(w)'
  <1>1. /\ LocalOK' /\ OthersStay(w) /\ cmd'[w] = c /\ c.type \in Mutations \cup Reads
        /\ settling'[w] = settling[w]
        /\ pc'[w] = IF c.type = "RetrievePayment" THEN "payment"
                    ELSE IF c.type = "ProviderEvent" THEN "retrieve" ELSE "lookup"
    BY InvokeMoves DEF ServiceInv, CommandRecord
  <1>2. pc[w] = "idle" /\ WorkerInv(w)
    BY DEF Invoke, ServiceInv
  <1>3. settling[w] = NoOp
    BY <1>2 DEF WorkerInv
  <1> QED
    BY <1>1, <1>3 DEF WorkerInv, Sending, Beginning, Looking, Mutations, Reads

(* Every action of a worker keeps its shape. *)
LEMMA WorkerStep ==
    ASSUME ServiceInv, LedgerForward, NEW w \in Workers, WorkerAction(w)
    PROVE  LocalOK' /\ OthersStay(w) /\ WorkerInv(w)'
  <1> DEFINE Kept == LocalOK' /\ OthersStay(w) /\ WorkerInv(w)'
  <1> SUFFICES Kept
    OBVIOUS
  <1>a. ServiceInv /\ WorkerInv(w) /\ LedgerInv /\ LocalOK /\ BankOK
    BY DEF ServiceInv
  <1>b. pc[w] # "idle" => /\ cmd[w] \in CommandRecord /\ cmd[w].op \in Ops
                          /\ cmd[w].type \in Mutations \cup Reads /\ Subject(w) \in Ops
    BY ActiveWorker
  <1>c. \A p : pc[w] # "idle" /\ p \in Points \ {"idle", "complete", "reply"} /\ Goto(w, p)
                  /\ MayStandAt(w, p) => Kept
    BY WorkerGoes
  <1>d. End(w) => Kept
    BY WorkerEnds
  <1>e. \A a \in Answers : pc[w] # "idle" /\ Reply(w, a) => Kept
    BY WorkerReplies
  <1>f. \A a \in {"REJECTED", Expected(payload[Subject(w)].type)} :
           pc[w] # "idle" /\ Begun(Subject(w)) /\ GotoWith(w, "complete", a) => Kept
    BY WorkerCompletes
  <1>g. pc[w] \in Sending => /\ cmd[w].type \in Mutations /\ settling[w] = NoOp
                             /\ Subject(w) = cmd[w].op /\ Begun(Subject(w))
                             /\ payload[Subject(w)].type = cmd[w].type
                             /\ BegunNext(cmd[w].op) /\ payload'[cmd[w].op] = cmd[w]
    BY <1>a, BegunForward DEF WorkerInv, Subject
  (* A worker that sends goes on to send. *)
  <1>h. \A p : pc[w] \in Sending /\ p \in Sending /\ Goto(w, p) => Kept
    <2> TAKE p
    <2> HAVE pc[w] \in Sending /\ p \in Sending /\ Goto(w, p)
    <2>1. MayStandAt(w, p)
      BY <1>g DEF MayStandAt, Sending, Beginning, Looking
    <2> QED BY <2>1, <1>c DEF Sending, Points
  (* ... or has the outcome. *)
  <1>i. \A a : pc[w] \in Sending /\ GotoWith(w, "complete", a)
                  /\ a \in {"REJECTED", Expected(cmd[w].type)} => Kept
    BY <1>f, <1>g DEF Sending
  <1>j. \A s \in ProviderStates : Shown(s) \in Answers
    BY AnswerType
  <1> HIDE DEF Kept
  <1>1. CASE \E c \in Commands : Invoke(w, c)
    BY <1>1, WorkerInvokes DEF Kept
  <1>2. CASE LookupOperation(w)
    <2>1. CASE Goto(w, "active")
      <3>1. MayStandAt(w, "active")
        BY <1>2, <1>a DEF LookupOperation, MayStandAt, WorkerInv, Sending, Beginning, Looking
      <3> QED BY <1>2, <1>c, <2>1, <3>1 DEF LookupOperation, Points
    <2>2. CASE opState[cmd[w].op] # "ABSENT" /\ Resume(w, "retrieve")
      BY <1>2, <2>2, WorkerResumes DEF LookupOperation, Beginning, Kept
    <2> QED BY <1>2, <2>1, <2>2 DEF LookupOperation
  <1>3. CASE FindActive(w)
    <2>1. CASE Goto(w, "payment")
      <3>1. MayStandAt(w, "payment")
        BY <1>3, <1>a
           DEF FindActive, MayStandAt, WorkerInv, Sending, Beginning, Looking, Mutations
      <3> QED BY <1>3, <1>c, <2>1, <3>1 DEF FindActive, Points
    <2>2. CASE active # NoOp /\ GotoSettling(w, "retrieve", active)
      <3>1. active \in Ops /\ BegunNext(active)
        BY <1>a, <2>2, BegunForward DEF LedgerInv, LedgerOK, MaybeOp, Begun
      <3>2. /\ LocalOK' /\ OthersStay(w) /\ pc'[w] = "retrieve" /\ settling'[w] = active
            /\ cmd'[w] = cmd[w] /\ cmd[w].type \in Mutations
        BY <1>3, <1>a, <2>2, <3>1, GotoSettlingMoves
           DEF FindActive, WorkerInv, Beginning, Points, MaybeOp
      <3>3. WorkerInv(w)'
        BY <2>2, <3>1, <3>2 DEF WorkerInv, Begun, BegunNext, Sending, Beginning, Looking,
           Mutations, Reads
      <3> QED BY <3>2, <3>3 DEF Kept
    <2> QED BY <1>3, <2>1, <2>2 DEF FindActive
  <1>4. CASE Retrieve(w)
    <2>1. PICK found \in Found(refers[Subject(w)]) :
             LET type == payload[Subject(w)].type
                 verdict == Classify(type, found) IN
             \/ verdict = "EXPECTED" /\ GotoWith(w, "complete", Expected(type))
             \/ verdict = "NOT_APPLIED" /\ MayResend(w) /\ Goto(w, "replay")
             \/ Reply(w, "RECONCILIATION_REQUIRED")
      BY <1>4 DEF Retrieve
    <2>2. Begun(Subject(w)) /\ pc[w] = "retrieve" /\ cmd[w].type \in Mutations
      BY <1>4, <1>a DEF Retrieve, WorkerInv, Subject
    <2>3. CASE GotoWith(w, "complete", Expected(payload[Subject(w)].type))
      BY <1>f, <2>2, <2>3
    <2>4. CASE MayResend(w) /\ Goto(w, "replay")
      <3>1. Begun(cmd[w].op) /\ payload[cmd[w].op] = cmd[w] /\ settling[w] = NoOp
        BY <1>a, <2>2, <2>4 DEF MayResend, WorkerInv
      <3>2. MayStandAt(w, "replay")
        BY <2>2, <3>1, BegunForward DEF MayStandAt, Sending, Beginning, Looking
      <3> QED BY <1>c, <2>2, <2>4, <3>2 DEF Points
    <2>5. CASE Reply(w, "RECONCILIATION_REQUIRED")
      BY <1>e, <2>2, <2>5, AnswerType
    <2> QED BY <2>1, <2>3, <2>4, <2>5
  <1>5. CASE RetrieveState(w)
    <2>1. PICK found \in Found(knows[w]) : seen' = [seen EXCEPT ![w] = found]
      BY <1>5 DEF RetrieveState
    <2>2. /\ found \in ProviderStates /\ pc[w] = "retrieve" /\ cmd[w].type \in Reads
          /\ settling[w] = NoOp
          /\ pc' = [pc EXCEPT ![w] = "settle"] /\ UNCHANGED <<cmd, settling, knows, answer>>
      BY <1>5, <1>a, FoundIsState DEF RetrieveState, WorkerInv, BankOK
    <2>3. LocalOK' /\ OthersStay(w)
      BY <1>a, <2>1, <2>2 DEF LocalOK, Points, OthersStay, Same
    <2>4. pc'[w] = "settle" /\ cmd'[w] = cmd[w] /\ settling'[w] = settling[w]
      BY <1>a, <2>2 DEF LocalOK
    <2>5. WorkerInv(w)'
      BY <2>2, <2>4 DEF WorkerInv, Sending, Beginning, Looking
    <2> QED BY <2>3, <2>5 DEF Kept
  <1>6. CASE Settle(w)
    <2>1. pc[w] = "settle" /\ cmd[w].type \in Reads /\ settling[w] = NoOp
      BY <1>6, <1>a DEF Settle, WorkerInv, Looking
    <2>2. CASE Goto(w, "compare")
      <3>1. MayStandAt(w, "compare")
        BY <2>1 DEF MayStandAt, Sending, Beginning, Looking
      <3> QED BY <1>c, <2>1, <2>2, <3>1 DEF Points
    <2>3. CASE /\ active # NoOp
               /\ \/ CompleteFor(w, active, Expected(payload[active].type))
                  \/ CompleteFor(w, active, "REJECTED")
      BY <2>1, <2>3, WorkerSettles DEF Kept
    <2>4. CASE Reply(w, Shown(seen[w])) \/ Diverge(w)
      <3>1. seen[w] \in ProviderStates
        BY <1>a DEF LocalOK
      <3> QED BY <1>d, <1>e, <1>j, <2>1, <2>4, <3>1, AnswerType DEF Diverge, Throw
    <2> QED BY <1>6, <2>2, <2>3, <2>4 DEF Settle
  <1>7. CASE Compare(w)
    <2>1. seen[w] \in ProviderStates /\ pc[w] = "compare"
      BY <1>7, <1>a DEF LocalOK, Compare
    <2> QED BY <1>7, <1>d, <1>e, <1>j, <2>1, AnswerType DEF Compare, Diverge, Throw
  <1>8. CASE FindPayment(w)
    <2> DEFINE p == IF cmd[w].type = "RetrievePayment" THEN "retrieve" ELSE "begin"
    <2>1. /\ pc[w] = "payment" /\ settling[w] = NoOp
          /\ pc' = [pc EXCEPT ![w] = p] /\ knows' = [knows EXCEPT ![w] = status # "NONE"]
          /\ UNCHANGED <<cmd, settling, seen, answer>>
      BY <1>8, <1>a DEF FindPayment, WorkerInv
    <2>2. LocalOK' /\ OthersStay(w)
      BY <1>a, <1>b, <2>1 DEF LocalOK, Points, OthersStay, Same
    <2>3. pc'[w] = p /\ cmd'[w] = cmd[w] /\ settling'[w] = settling[w]
      BY <1>a, <2>1 DEF LocalOK
    <2>4. p = "begin" => cmd[w].type \in Mutations
      BY <1>a, <1>b, <2>1 DEF WorkerInv, Reads
    <2>5. p = "retrieve" => cmd[w].type \notin Mutations
      BY DEF Mutations
    <2>6. p \in {"retrieve", "begin"}
      OBVIOUS
    <2> HIDE DEF p
    <2>7. WorkerInv(w)'
      BY <2>1, <2>3, <2>4, <2>5, <2>6 DEF WorkerInv, Sending, Beginning, Looking
    <2> QED BY <2>2, <2>7 DEF Kept
  <1>9. CASE Begin(w)
    <2>1. CASE Goto(w, "transactBegin")
      <3>1. MayStandAt(w, "transactBegin")
        BY <1>9, <1>a DEF Begin, MayStandAt, WorkerInv, Sending, Beginning, Looking
      <3> QED BY <1>9, <1>c, <2>1, <3>1 DEF Begin, Points
    <2>2. CASE opState[cmd[w].op] # "ABSENT" /\ Resume(w, "replay")
      BY <1>9, <2>2, WorkerResumes DEF Begin, Beginning, Kept
    <2> QED BY <1>9, <2>1, <2>2 DEF Begin
  <1>10. CASE TransactBegin(w)
    <2>1. pc[w] = "transactBegin" /\ cmd[w].type \in Mutations /\ settling[w] = NoOp
      BY <1>10, <1>a DEF TransactBegin, WorkerInv, Beginning
    <2>2. CASE BeginCondition(cmd[w])
      <3>1. Goto(w, "replay") /\ BegunNext(cmd[w].op) /\ payload'[cmd[w].op] = cmd[w]
        BY <1>10, <1>a, <1>b, <2>1, <2>2
           DEF TransactBegin, BegunNext, LedgerInv, LedgerOK
      <3>2. MayStandAt(w, "replay")
        BY <2>1, <3>1 DEF MayStandAt, Sending, Beginning, Looking
      <3> QED BY <1>c, <2>1, <3>1, <3>2 DEF Points
    <2>3. CASE ~BeginCondition(cmd[w])
      <3>1. MayStandAt(w, "rereadBegin")
        BY <2>1 DEF MayStandAt, Sending, Beginning, Looking
      <3> QED BY <1>10, <1>c, <2>1, <2>3, <3>1 DEF TransactBegin, Points
    <2> QED BY <2>2, <2>3
  <1>11. CASE RereadBegin(w)
    <2>1. CASE opState[cmd[w].op] # "ABSENT" /\ Resume(w, "replay")
      BY <1>11, <2>1, WorkerResumes DEF RereadBegin, Beginning, Kept
    <2> QED BY <1>11, <1>d, <2>1 DEF RereadBegin, Throw
  <1>12. CASE Replay(w)
    <2>1. ResultOf(cmd[w].type) \in {"REJECTED", Expected(cmd[w].type)}
      BY DEF ResultOf
    <2> QED BY <1>12, <1>d, <1>h, <1>i, <2>1 DEF Replay, Throw, Sending
  <1>13. CASE ReadPayment(w)
    BY <1>13, <1>h DEF ReadPayment, Sending
  <1>14. CASE Mutate(w)
    BY <1>14, <1>d, <1>h, <1>i DEF Mutate, Throw, Sending
  <1>15. CASE RecordRejection(w)
    BY <1>15, <1>h, <1>i DEF RecordRejection, Sending
  <1>16. CASE RequiredReplay(w)
    <2>1. ResultOf(cmd[w].type) \in {"REJECTED", Expected(cmd[w].type)}
      BY DEF ResultOf
    <2> QED BY <1>16, <1>d, <1>i, <2>1 DEF RequiredReplay, Throw, Sending
  <1>17. CASE SendToStripe(w)
    BY <1>17, <1>d, <1>h DEF SendToStripe, Throw, Sending
  (* What Stripe answers. *)
  <1>k. \A record : pc[w] = "stripe" /\ Respond(w, record) => Kept
    BY <1>d, <1>i DEF Respond, Throw, Sending
  <1>18. CASE StripeReplays(w)
    BY <1>18, <1>k DEF StripeReplays
  <1>19. CASE StripeApplies(w)
    BY <1>19, <1>k DEF StripeApplies, StripeRecords
  <1>20. CASE StripeDeclines(w)
    BY <1>20, <1>k DEF StripeDeclines, StripeRecords
  <1>21. CASE StripeDefersRefund(w)
    BY <1>21, <1>k DEF StripeDefersRefund, StripeRecords
  <1>22. CASE StripeIsBusy(w)
    BY <1>22, <1>i DEF StripeIsBusy, Sending
  <1>23. CASE TransactComplete(w)
    <2>1. pc[w] = "complete" /\ Begun(Subject(w)) /\ answer[w] \in Answers
      BY <1>23, <1>a DEF TransactComplete, WorkerInv, LocalOK
    <2>2. CASE Completed(w, answer[w])
      BY <2>1, <2>2, WorkerIsDone DEF Kept
    <2>3. CASE Goto(w, "rereadComplete")
      <3>1. MayStandAt(w, "rereadComplete")
        BY <2>1 DEF MayStandAt, Sending, Beginning, Looking
      <3> QED BY <1>c, <2>1, <2>3, <3>1 DEF Points
    <2> QED BY <1>23, <2>2, <2>3 DEF TransactComplete
  <1>24. CASE RereadComplete(w)
    <2>1. pc[w] = "rereadComplete" /\ Begun(Subject(w))
      BY <1>24, <1>a DEF RereadComplete, WorkerInv
    <2>2. CASE Recorded(Subject(w)) /\ Completed(w, result[Subject(w)])
      <3>1. payload[Subject(w)].type \in Mutations
        BY <1>a, <2>1 DEF LedgerInv, LedgerOK, Begun
      <3>2. result[Subject(w)] \in Answers
        BY <1>a, <2>1, <2>2, <3>1, AnswerType DEF LedgerInv, Recorded, Begun
      <3> QED BY <2>1, <2>2, <3>2, WorkerIsDone DEF Kept
    <2> QED BY <1>24, <1>d, <2>2 DEF RereadComplete, Throw
  <1>25. CASE Return(w) \/ Lose(w)
    BY <1>25, <1>d DEF Return, Lose, Throw
  <1>26. CASE TransactConflict(w)
    <2>1. CASE pc[w] = "transactBegin" /\ Goto(w, "rereadBegin")
      <3>1. MayStandAt(w, "rereadBegin")
        BY <1>a, <2>1 DEF WorkerInv, MayStandAt, Sending, Beginning, Looking
      <3> QED BY <1>c, <2>1, <3>1 DEF Points
    <2>2. CASE pc[w] = "mutate" /\ Goto(w, "requiredReplay")
      BY <1>h, <2>2 DEF Sending
    <2>3. CASE pc[w] = "complete" /\ Goto(w, "rereadComplete")
      <3>1. MayStandAt(w, "rereadComplete")
        BY <1>a, <2>3 DEF WorkerInv, MayStandAt, Sending, Beginning, Looking
      <3> QED BY <1>c, <2>3, <3>1 DEF Points
    <2> QED BY <1>26, <2>1, <2>2, <2>3 DEF TransactConflict
  <1> QED
    BY <1>1, <1>2, <1>3, <1>4, <1>5, <1>6, <1>7, <1>8, <1>9, <1>10, <1>11, <1>12, <1>13, <1>14,
       <1>15, <1>16, <1>17, <1>18, <1>19, <1>20, <1>21, <1>22, <1>23, <1>24, <1>25, <1>26
       DEF WorkerAction, Step

-----------------------------------------------------------------------------
(***************************************************************************)
(* The provider                                                            *)
(***************************************************************************)
Applies(t) ==
    /\ replayed[t] = "NONE" /\ replayed' = [replayed EXCEPT ![t] = "APPLIED"]
    /\ provider = Prerequisite(t) /\ provider' = Expected(t)
Refuses(t) ==
    /\ replayed[t] = "NONE" /\ replayed' = [replayed EXCEPT ![t] = "REJECTED"]
    /\ provider' = provider
Defers(t) ==
    /\ t = "RefundPayment" /\ provider = "CAPTURED"
    /\ replayed[t] = "NONE" /\ replayed' = [replayed EXCEPT ![t] = "PENDING"]
    /\ provider' = provider
Serves(w) ==
    /\ pc[w] \in Sending /\ UNCHANGED <<ledger, givenUp>>
    /\ Applies(cmd[w].type) \/ Refuses(cmd[w].type) \/ Defers(cmd[w].type)

(* Whatever changes the provider serves a worker, or settles a refund.     *)
LEMMA BankWriters ==
    ASSUME [Next]_vars
    PROVE  UNCHANGED bank \/ StripeRefundSettles \/ \E w \in Workers : Serves(w)
  <1> SUFFICES ASSUME ~ UNCHANGED bank, ~ StripeRefundSettles
               PROVE  \E w \in Workers : Serves(w)
    OBVIOUS
  <1>1. PICK w \in Workers :
           \/ Mutate(w) \/ RecordRejection(w) \/ StripeApplies(w)
           \/ StripeDeclines(w) \/ StripeDefersRefund(w)
    BY DEF Next, vars, Invoke, Step, Lose, TransactConflict, TransactBegin, TransactComplete,
           StripeIsBusy, LookupOperation, FindActive, Retrieve,
           RetrieveState, Settle, Compare, FindPayment, Begin, RereadBegin, Replay, ReadPayment,
           RequiredReplay, SendToStripe, StripeReplays, RereadComplete, Return
  <1>2. CASE Mutate(w)
    BY <1>2 DEF Mutate, MutateCondition, Serves, Applies, Sending, bank
  <1>3. CASE RecordRejection(w)
    BY <1>3 DEF RecordRejection, Serves, Refuses, Sending, bank
  <1>4. CASE StripeApplies(w)
    BY <1>4 DEF StripeApplies, StripeRecords, Serves, Applies, Sending
  <1>5. CASE StripeDeclines(w)
    BY <1>5 DEF StripeDeclines, StripeRecords, Serves, Refuses, Sending
  <1>6. CASE StripeDefersRefund(w)
    BY <1>6 DEF StripeDefersRefund, StripeRecords, Serves, Defers, Sending
  <1> QED BY <1>1, <1>2, <1>3, <1>4, <1>5, <1>6

LEMMA SendsMutation ==
    ASSUME ServiceInv, NEW w \in Workers, pc[w] \in Sending
    PROVE  /\ cmd[w].type \in Mutations /\ settling[w] = NoOp /\ Begun(cmd[w].op)
           /\ cmd[w].op \in Ops /\ payload[cmd[w].op] = cmd[w] /\ cmd[w] \in CommandRecord
  <1>1. pc[w] # "idle" /\ WorkerInv(w)
    BY DEF ServiceInv, Sending
  <1> QED BY <1>1, ActiveWorker DEF WorkerInv

LEMMA BankStep == ServiceInv /\ [Next]_vars => BankOK'
  <1> SUFFICES ASSUME ServiceInv, [Next]_vars PROVE BankOK'
    OBVIOUS
  <1>a. BankOK
    BY DEF ServiceInv
  <1>1. CASE UNCHANGED bank
    BY <1>1, <1>a DEF BankOK, bank
  <1>2. CASE StripeRefundSettles
    BY <1>2, <1>a DEF StripeRefundSettles, BankOK, ProviderStates, Applied, Mutations
  <1>3. ASSUME NEW w \in Workers, Serves(w) PROVE BankOK'
    <2>1. cmd[w].type \in Mutations
      BY <1>3, SendsMutation DEF Serves
    <2> QED BY <1>3, <1>a, <2>1, VerbMoves DEF Serves, Applies, Refuses, Defers, BankOK
  <1> QED BY <1>1, <1>2, <1>3, BankWriters

(* The rest: operations given up are operations, and faults are counted.   *)
LEMMA CountersStep == ServiceInv /\ [Next]_vars => givenUp' \subseteq Ops /\ faults' \in Nat
  <1> SUFFICES ASSUME ServiceInv, [Next]_vars PROVE givenUp' \subseteq Ops /\ faults' \in Nat
    OBVIOUS
  <1>a. givenUp \subseteq Ops /\ faults \in Nat /\ (active # NoOp => active \in Ops)
    BY DEF ServiceInv, LedgerInv, LedgerOK, MaybeOp
  <1>1. faults' \in {faults, faults + 1}
    BY DEF Next, vars, Invoke, Step, Lose, TransactConflict, TransactBegin, TransactComplete,
           StripeIsBusy, LookupOperation, FindActive, Retrieve, StripeDeclines, StripeDefersRefund,
           StripeRefundSettles, StripeApplies, Mutate, RecordRejection, StripeRecords,
           RetrieveState, Settle, Compare, FindPayment, Begin, RereadBegin, Replay, ReadPayment,
           RequiredReplay, SendToStripe, StripeReplays, RereadComplete, Return
  <1>2. \/ UNCHANGED givenUp
        \/ active # NoOp /\ givenUp' = givenUp \cup {active}
        \/ \E w \in Workers : pc[w] = "stripe" /\ givenUp' = givenUp \cup {cmd[w].op}
    BY DEF Next, vars, Invoke, Step, Lose, TransactConflict, TransactBegin, TransactComplete,
           StripeIsBusy, LookupOperation, FindActive, Retrieve, StripeDeclines, StripeDefersRefund,
           StripeRefundSettles, StripeApplies, Mutate, RecordRejection, StripeRecords,
           RetrieveState, Settle, Compare, FindPayment, Begin, RereadBegin, Replay, ReadPayment,
           RequiredReplay, SendToStripe, StripeReplays, RereadComplete, Return
  <1>3. \A w \in Workers : pc[w] = "stripe" => cmd[w].op \in Ops
    BY SendsMutation DEF Sending
  <1> QED BY <1>1, <1>2, <1>3, <1>a

-----------------------------------------------------------------------------
(***************************************************************************)
(* The service                                                             *)
(***************************************************************************)
LEMMA ServiceInit == Init => ServiceInv
  <1> SUFFICES ASSUME Init PROVE ServiceInv
    OBVIOUS
  <1> USE DEF Init
  <1>1. LedgerInv
    BY OpIsNotNone DEF LedgerInv, LedgerOK, MaybeCommand, MaybeOp, ProviderStates
  <1>2. BankOK /\ LocalOK
    BY DEF BankOK, LocalOK, MaybeCommand, MaybeOp, ProviderStates, Points
  <1>3. \A w \in Workers : WorkerInv(w)
    BY DEF WorkerInv, Sending, Beginning, Looking
  <1> QED BY <1>1, <1>2, <1>3 DEF ServiceInv

LEMMA WhoActs ==
    ASSUME [Next]_vars
    PROVE  UNCHANGED local \/ \E w \in Workers : WorkerAction(w)
  BY DEF Next, vars, WorkerAction, StripeRefundSettles

LEMMA ServiceStep == ServiceInv /\ [Next]_vars => ServiceInv'
  <1> SUFFICES ASSUME ServiceInv, [Next]_vars PROVE ServiceInv'
    OBVIOUS
  <1>1. LedgerInv' /\ LedgerForward /\ BankOK' /\ givenUp' \subseteq Ops /\ faults' \in Nat
    BY LedgerStep, BankStep, CountersStep
  <1>2. CASE UNCHANGED local
    <2>1. LocalOK'
      BY <1>2 DEF ServiceInv, LocalOK, local
    <2>2. \A w \in Workers : Same(w)
      BY <1>2 DEF Same, local
    <2>3. \A w \in Workers : WorkerInv(w)'
      BY <1>1, <2>2, WorkerKept
    <2> QED BY <1>1, <2>1, <2>3 DEF ServiceInv
  <1>3. ASSUME NEW w \in Workers, WorkerAction(w) PROVE ServiceInv'
    <2>1. LocalOK' /\ OthersStay(w) /\ WorkerInv(w)'
      BY <1>1, <1>3, WorkerStep
    <2>2. \A v \in Workers : v # w => WorkerInv(v)'
      BY <1>1, <2>1, WorkerKept DEF OthersStay
    <2> QED BY <1>1, <2>1, <2>2 DEF ServiceInv
  <1> QED BY <1>2, <1>3, WhoActs

(* The ledger, its operations and every invocation keep their shape: an    *)
(* operation is in progress exactly while it is the active one, and an     *)
(* invocation completes only an operation that was begun, with the outcome *)
(* of its verb.                                                            *)
THEOREM ServiceHolds == Spec => []ServiceInv
  <1>1. Init => ServiceInv
    BY ServiceInit
  <1>2. ServiceInv /\ [Next]_vars => ServiceInv'
    BY ServiceStep
  <1> QED BY <1>1, <1>2, PTL DEF Spec

(* The types and shapes of the service, its ledger and the provider.       *)
THEOREM TypeIsCorrect == Spec => []TypeOK
  <1>1. ServiceInv => TypeOK
    BY DEF ServiceInv, LedgerInv, TypeOK
  <1> QED BY <1>1, ServiceHolds, PTL

(* A recorded operation is never recorded again: its condition on the      *)
(* completing transaction fails, whoever comes late with another outcome.  *)
THEOREM RecordedStaysRecorded == Spec => RecordedForever
  <1>1. ServiceInv /\ [Next]_vars =>
           [\A o \in Ops : Recorded(o) => opState'[o] = opState[o] /\ result'[o] = result[o]]_vars
    BY LedgerStep DEF LedgerForward
  <1> QED BY <1>1, ServiceHolds, PTL DEF Spec, RecordedForever

-----------------------------------------------------------------------------
(***************************************************************************)
(* The ledger is never ahead of the provider                               *)
(***************************************************************************)
LEMMA BankForward ==
    ASSUME ServiceInv, BankInv, [Next]_vars
    PROVE  Passed(provider) \subseteq Passed(provider') /\ BankInv'
  <1> DEFINE Kept == Passed(provider) \subseteq Passed(provider') /\ BankInv'
  <1> SUFFICES Kept
    OBVIOUS
  <1>a. BankOK /\ replayed \in [Mutations -> {"NONE", "APPLIED", "REJECTED", "PENDING", "SETTLED"}]
    BY DEF ServiceInv, BankOK
  <1>b. "RefundPayment" \in Mutations
    BY DEF Mutations
  <1>1. CASE UNCHANGED bank
    BY <1>1 DEF BankInv, bank
  <1>2. CASE StripeRefundSettles
    <2>1. provider = "CAPTURED" /\ provider' \in {"CAPTURED", "REFUNDED"}
      BY <1>2 DEF StripeRefundSettles, BankInv
    <2>2. Passed(provider) \subseteq Passed(provider')
      BY <2>1, PassedIs
    <2>3. replayed' = [replayed EXCEPT !["RefundPayment"] = "SETTLED"]
      BY <1>2 DEF StripeRefundSettles
    <2> QED BY <1>a, <1>b, <2>2, <2>3 DEF BankInv
  <1>3. ASSUME NEW w \in Workers, Serves(w) PROVE Kept
    <2> DEFINE t == cmd[w].type
    <2>1. t \in Mutations
      BY <1>3, SendsMutation DEF Serves
    <2> HIDE DEF t
    <2>2. CASE Applies(t)
      <3>1. Passed(Expected(t)) = Passed(Prerequisite(t)) \cup {Expected(t)}
        BY <2>1, VerbMoves
      <3>2. \A u \in Mutations : replayed'[u] = IF u = t THEN "APPLIED" ELSE replayed[u]
        BY <1>a, <2>1, <2>2 DEF Applies
      <3>3. replayed'["RefundPayment"] = "PENDING" => FALSE
        <4>1. replayed'["RefundPayment"] = "PENDING" =>
                 /\ t # "RefundPayment" /\ replayed["RefundPayment"] = "PENDING"
          BY <1>b, <3>2
        <4>2. t # "RefundPayment" => Prerequisite(t) # "CAPTURED"
          BY <2>1, PrerequisiteIs DEF Mutations
        <4> QED BY <2>2, <4>1, <4>2 DEF Applies, BankInv
      <3> QED BY <2>1, <2>2, <3>1, <3>2, <3>3 DEF Applies, BankInv
    <2>3. CASE Refuses(t)
      BY <1>a, <1>b, <2>1, <2>3 DEF Refuses, BankInv
    <2>4. CASE Defers(t)
      BY <1>a, <1>b, <2>1, <2>4 DEF Defers, BankInv
    <2> QED BY <1>3, <2>2, <2>3, <2>4 DEF Serves, t
  <1> QED BY <1>1, <1>2, <1>3, BankWriters

(* A worker has only seen what the provider had passed, and completes only *)
(* what the provider has applied by now.                                   *)
LEMMA SeenStep ==
    ASSUME ServiceInv, TruthInv, [Next]_vars, NEW w \in Workers, WorkerAction(w)
    PROVE  SawIt(w)'
  <1> DEFINE t == cmd[w].type
             ok == seen[w] # "NONE" => seen[w] \in Passed(provider')
  <1>a. ServiceInv /\ WorkerInv(w) /\ LedgerInv /\ LocalOK /\ BankOK /\ BankInv /\ SawIt(w)
    BY DEF ServiceInv, TruthInv
  <1>b. Passed(provider) \subseteq Passed(provider')
    BY <1>a, BankForward
  <1>c. ok
    BY <1>a, <1>b DEF SawIt
  <1> HIDE DEF ok
  <1>d. \A p : p # "complete" /\ Goto(w, p) => SawIt(w)'
    BY <1>a, <1>c DEF Goto, SawIt, LocalOK, ok
  <1>e. \A a : Reply(w, a) => SawIt(w)'
    BY <1>a, <1>c DEF Reply, GotoWith, SawIt, LocalOK, ok
  <1>f. End(w) => SawIt(w)'
    BY <1>a DEF End, SawIt, LocalOK
  <1>g. \A a : GotoWith(w, "complete", a) /\ a \in {"REJECTED"} \cup Passed(provider') => SawIt(w)'
    BY <1>a, <1>c DEF GotoWith, SawIt, LocalOK, ok
  <1>h. \A o, a : CompleteFor(w, o, a) /\ a \in {"REJECTED"} \cup Passed(provider') => SawIt(w)'
    BY <1>a, <1>c DEF CompleteFor, SawIt, LocalOK, ok
  <1>i. \A p, o : p # "complete" /\ GotoSettling(w, p, o) => SawIt(w)'
    BY <1>a, <1>c DEF GotoSettling, SawIt, LocalOK, ok
  <1>j. \A a : Completed(w, a) => SawIt(w)'
    BY <1>e, <1>i DEF Completed
  <1>k. \A p : p # "complete" /\ Resume(w, p) => SawIt(w)'
    BY <1>d, <1>e, <1>f DEF Resume, Throw
  <1>l. t \in Mutations /\ replayed[t] # "NONE" /\ GotoWith(w, "complete", ResultOf(t)) => SawIt(w)'
    <2> SUFFICES ASSUME t \in Mutations, GotoWith(w, "complete", ResultOf(t)) PROVE SawIt(w)'
      OBVIOUS
    <2>1. ResultOf(t) \in {"REJECTED"} \cup Passed(provider')
      BY <1>a, <1>b DEF ResultOf, BankInv
    <2> QED BY <1>g, <2>1
  <1>m. pc[w] \in Sending => t \in Mutations
    BY SendsMutation
  <1>1. CASE \E c \in Commands : Invoke(w, c)
    <2>1. seen'[w] = seen[w] /\ pc'[w] # "complete"
      BY <1>1, <1>a, InvokeMoves
    <2> QED BY <1>c, <2>1 DEF SawIt, ok
  <1>2. CASE LookupOperation(w) \/ Begin(w) \/ RereadBegin(w)
    BY <1>2, <1>d, <1>f, <1>k DEF LookupOperation, Begin, RereadBegin, Throw
  <1>3. CASE FindActive(w)
    BY <1>3, <1>d, <1>i DEF FindActive
  <1>4. CASE Retrieve(w)
    <2>1. PICK found \in Found(refers[Subject(w)]) :
             LET type == payload[Subject(w)].type IN
             \/ /\ Classify(type, found) = "EXPECTED"
                /\ GotoWith(w, "complete", Expected(type))
             \/ Goto(w, "replay")
             \/ Reply(w, "RECONCILIATION_REQUIRED")
      BY <1>4 DEF Retrieve
    <2>2. payload[Subject(w)].type \in Mutations
      BY <1>4, <1>a DEF Retrieve, WorkerInv, Subject, LedgerInv, LedgerOK, Begun
    <2>3. found \in ProviderStates /\ (found # "NONE" => found \in Passed(provider'))
      BY <1>a, <1>b, FoundIsState, FoundPassed DEF BankOK
    <2>4. CASE /\ Classify(payload[Subject(w)].type, found) = "EXPECTED"
               /\ GotoWith(w, "complete", Expected(payload[Subject(w)].type))
      <3>1. found = Expected(payload[Subject(w)].type) /\ found # "NONE"
        BY <2>2, <2>3, <2>4, ClassifyIs, VerbMoves DEF Applied
      <3> QED BY <1>g, <2>3, <2>4, <3>1
    <2> QED BY <1>d, <1>e, <2>1, <2>4
  <1>5. CASE RetrieveState(w)
    <2>1. PICK found \in Found(knows[w]) : seen' = [seen EXCEPT ![w] = found]
      BY <1>5 DEF RetrieveState
    <2>2. found # "NONE" => found \in Passed(provider')
      BY <1>a, <1>b, FoundPassed DEF BankOK
    <2>3. pc'[w] = "settle"
      BY <1>5, <1>a DEF RetrieveState, LocalOK
    <2>4. seen'[w] = found
      BY <1>a, <2>1 DEF LocalOK
    <2> QED BY <2>2, <2>3, <2>4 DEF SawIt
  <1>6. CASE Settle(w)
    <2>1. CASE /\ active # NoOp /\ Classify(payload[active].type, seen[w]) = "EXPECTED"
               /\ CompleteFor(w, active, Expected(payload[active].type))
      <3>1. payload[active].type \in Mutations /\ seen[w] \in ProviderStates
        BY <1>a, <2>1 DEF LedgerInv, LedgerOK, MaybeOp, LocalOK
      <3>2. seen[w] = Expected(payload[active].type) /\ seen[w] # "NONE"
        BY <2>1, <3>1, ClassifyIs, VerbMoves DEF Applied
      <3> QED BY <1>c, <1>h, <2>1, <3>2 DEF ok
    <2>2. CASE CompleteFor(w, active, "REJECTED")
      BY <1>h, <2>2
    <2> QED BY <1>6, <1>d, <1>e, <1>f, <2>1, <2>2 DEF Settle, Diverge, Throw
  <1>7. CASE Compare(w)
    BY <1>7, <1>e, <1>f DEF Compare, Diverge, Throw
  <1>8. CASE FindPayment(w)
    BY <1>8, <1>a, <1>c DEF FindPayment, SawIt, LocalOK, ok
  <1>9. CASE TransactBegin(w)
    BY <1>9, <1>d DEF TransactBegin
  <1>10. CASE Replay(w)
    BY <1>10, <1>d, <1>f, <1>l, <1>m DEF Replay, Throw, Sending
  <1>11. CASE ReadPayment(w)
    BY <1>11, <1>d DEF ReadPayment
  <1>12. CASE Mutate(w)
    <2>1. provider' = Expected(t) => Expected(t) \in Passed(provider')
      BY <1>12, <1>m, VerbMoves, StatePassed DEF Mutate, Sending, Applied
    <2> QED BY <1>12, <1>d, <1>f, <1>g, <2>1 DEF Mutate, Throw
  <1>13. CASE RecordRejection(w) \/ RequiredReplay(w)
    BY <1>13, <1>d, <1>f, <1>g, <1>l, <1>m DEF RecordRejection, RequiredReplay, Throw, Sending
  <1>14. CASE SendToStripe(w)
    BY <1>14, <1>d, <1>f DEF SendToStripe, Throw
  <1>15. CASE StripeReplays(w)
    <2>1. replayed[t] = "APPLIED" => Expected(t) \in Passed(provider')
      BY <1>15, <1>a, <1>b, <1>m DEF StripeReplays, BankInv, Sending
    <2> QED BY <1>15, <1>f, <1>g, <2>1 DEF StripeReplays, Respond, Throw
  <1>16. CASE StripeApplies(w)
    <2>1. Expected(t) \in Passed(provider')
      BY <1>16, <1>m, VerbMoves, StatePassed DEF StripeApplies, Sending, Applied
    <2> QED BY <1>16, <1>g, <2>1 DEF StripeApplies, StripeRecords, Respond
  <1>17. CASE StripeDeclines(w) \/ StripeDefersRefund(w) \/ StripeIsBusy(w)
    BY <1>17, <1>f, <1>g
       DEF StripeDeclines, StripeDefersRefund, StripeIsBusy, StripeRecords, Respond, Throw
  <1>18. CASE TransactComplete(w) \/ RereadComplete(w)
    BY <1>18, <1>d, <1>f, <1>j DEF TransactComplete, RereadComplete, Throw
  <1>19. CASE Return(w) \/ Lose(w)
    BY <1>19, <1>f DEF Return, Lose, Throw
  <1>20. CASE TransactConflict(w)
    BY <1>20, <1>d DEF TransactConflict
  <1> QED
    BY <1>1, <1>2, <1>3, <1>4, <1>5, <1>6, <1>7, <1>8, <1>9, <1>10, <1>11, <1>12, <1>13, <1>14,
       <1>15, <1>16, <1>17, <1>18, <1>19, <1>20 DEF WorkerAction, Step

LEMMA NeverAheadStep ==
    ASSUME ServiceInv, TruthInv, [Next]_vars
    PROVE  LedgerNeverAhead'
  <1>a. LedgerInv /\ LedgerOK /\ BankInv /\ LedgerNeverAhead
    BY DEF ServiceInv, LedgerInv, TruthInv
  <1>b. Passed(provider) \subseteq Passed(provider')
    BY <1>a, BankForward
  <1>1. CASE UNCHANGED ledger
    BY <1>1, <1>a, <1>b DEF ledger, LedgerNeverAhead
  <1>2. ASSUME NEW w \in Workers, TransactBegin(w), BeginCondition(cmd[w])
        PROVE  LedgerNeverAhead'
    <2>1. /\ cmd[w].op \in Ops /\ opState' = [opState EXCEPT ![cmd[w].op] = "IN_PROGRESS"]
          /\ UNCHANGED <<result, status, facts>>
      BY <1>2, BeginsOperation
    <2>2. \A o \in Ops : opState'[o] = "SUCCEEDED" => opState[o] = "SUCCEEDED"
      BY <1>a, <2>1 DEF LedgerOK
    <2> QED BY <1>a, <1>b, <2>1, <2>2 DEF LedgerNeverAhead
  <1>3. ASSUME NEW w \in Workers, TransactComplete(w), CompleteCondition(Subject(w))
        PROVE  LedgerNeverAhead'
    <2> DEFINE o == Subject(w)
               a == answer[w]
    <2>1. /\ pc[w] = "complete" /\ o \in Ops
          /\ opState' = [opState EXCEPT ![o] = IF a = "REJECTED" THEN "FAILED" ELSE "SUCCEEDED"]
          /\ result' = [result EXCEPT ![o] = a]
          /\ status' = IF a = "REJECTED" THEN status ELSE a
          /\ facts' = Publish(a)
      BY <1>3, CompletesOperation
    <2>2. a # "REJECTED" => a \in Passed(provider')
      BY <1>b, <2>1 DEF TruthInv, SawIt
    <2> HIDE DEF o, a
    <2>3. \A p \in Ops : opState'[p] = "SUCCEEDED" =>
             \/ opState[p] = "SUCCEEDED" /\ result'[p] = result[p]
             \/ a # "REJECTED" /\ result'[p] = a
      BY <1>a, <2>1 DEF LedgerOK
    <2>4. \A s \in Applied : facts'[s] = facts[s] \/ (a # "REJECTED" /\ s = a)
      BY <1>a, <2>1 DEF LedgerOK, Publish
    <2> QED BY <1>a, <1>b, <2>1, <2>2, <2>3, <2>4 DEF LedgerNeverAhead
  <1> QED BY <1>1, <1>2, <1>3, LedgerWriters

LEMMA TruthStep == ServiceInv /\ TruthInv /\ [Next]_vars => TruthInv'
  <1> SUFFICES ASSUME ServiceInv, TruthInv, [Next]_vars PROVE TruthInv'
    OBVIOUS
  <1>1. BankInv' /\ Passed(provider) \subseteq Passed(provider')
    BY BankForward DEF TruthInv
  <1>2. LedgerNeverAhead'
    BY NeverAheadStep
  <1>3. \A w \in Workers : Same(w) => SawIt(w)'
    BY <1>1 DEF TruthInv, Same, SawIt
  <1>4. CASE UNCHANGED local
    BY <1>1, <1>2, <1>3, <1>4 DEF local, Same, TruthInv
  <1>5. ASSUME NEW w \in Workers, WorkerAction(w) PROVE TruthInv'
    <2>1. OthersStay(w)
      BY <1>5, LedgerStep, WorkerStep
    <2>2. SawIt(w)'
      BY <1>5, SeenStep
    <2> QED BY <1>1, <1>2, <1>3, <2>1, <2>2 DEF OthersStay, TruthInv
  <1> QED BY <1>4, <1>5, WhoActs

LEMMA TruthInit == Init => TruthInv
  BY OpIsNotNone DEF Init, TruthInv, BankInv, LedgerNeverAhead, SawIt, Mutations

(* The provider's record of a verb is true of the payment, and no worker   *)
(* is about to record what the provider did not do.                        *)
THEOREM TruthHolds == Spec => []TruthInv
  <1>1. Init => TruthInv
    BY TruthInit
  <1>2. ServiceInv /\ TruthInv /\ [Next]_vars => TruthInv'
    BY TruthStep
  <1> QED BY <1>1, <1>2, ServiceHolds, PTL DEF Spec

(* The ledger never claims what the provider did not do: no status, no     *)
(* successful operation, no published fact, over lost answers, stale       *)
(* searches, pending refunds and settlements on another's behalf.          *)
THEOREM LedgerIsNeverAhead == Spec => []LedgerNeverAhead
  <1>1. TruthInv => LedgerNeverAhead
    BY DEF TruthInv
  <1> QED BY <1>1, TruthHolds, PTL

-----------------------------------------------------------------------------
(***************************************************************************)
(* One fact for each success                                               *)
(***************************************************************************)
LEMMA FactsStep == ServiceInv /\ FactsInv /\ [Next]_vars => FactsInv'
  <1> SUFFICES ASSUME ServiceInv, FactsInv, [Next]_vars,
                      NEW s \in Applied
               PROVE  IsFiniteSet(Succeeded(s)') /\ facts'[s] = Cardinality(Succeeded(s)')
    BY DEF FactsInv
  <1> DEFINE now == Succeeded(s)
             next == {o \in Ops : opState'[o] = "SUCCEEDED" /\ result'[o] = s}
  <1>a. LedgerInv /\ LedgerOK
    BY DEF ServiceInv, LedgerInv
  <1>b. IsFiniteSet(now) /\ facts[s] = Cardinality(now)
    BY DEF FactsInv
  <1>c. Succeeded(s)' = next
    BY DEF Succeeded
  <1> SUFFICES IsFiniteSet(next) /\ facts'[s] = Cardinality(next)
    BY <1>c
  <1>1. CASE UNCHANGED ledger
    BY <1>1, <1>b DEF ledger, Succeeded
  <1>2. ASSUME NEW w \in Workers, TransactBegin(w), BeginCondition(cmd[w])
        PROVE  IsFiniteSet(next) /\ facts'[s] = Cardinality(next)
    <2>1. /\ cmd[w].op \in Ops /\ opState[cmd[w].op] = "ABSENT"
          /\ opState' = [opState EXCEPT ![cmd[w].op] = "IN_PROGRESS"]
          /\ UNCHANGED <<result, facts>>
      BY <1>2, BeginsOperation
    <2>2. next = now
      BY <1>a, <2>1 DEF LedgerOK, Succeeded
    <2> QED BY <1>b, <2>1, <2>2
  <1>3. ASSUME NEW w \in Workers, TransactComplete(w), CompleteCondition(Subject(w))
        PROVE  IsFiniteSet(next) /\ facts'[s] = Cardinality(next)
    <2> DEFINE o == Subject(w)
               a == answer[w]
    <2>1. /\ o \in Ops /\ opState[o] = "IN_PROGRESS"
          /\ opState' = [opState EXCEPT ![o] = IF a = "REJECTED" THEN "FAILED" ELSE "SUCCEEDED"]
          /\ result' = [result EXCEPT ![o] = a]
          /\ facts' = Publish(a)
      BY <1>3, CompletesOperation
    <2> HIDE DEF o, a
    <2>2. CASE a = s
      <3>0. a # "REJECTED" /\ a \in Applied
        BY <2>2 DEF Applied
      <3>1. next = now \cup {o} /\ o \notin now
        BY <1>a, <2>1, <2>2, <3>0 DEF LedgerOK, Succeeded
      <3>2. facts'[s] = facts[s] + 1
        BY <1>a, <2>1, <2>2, <3>0 DEF Publish, LedgerOK
      <3> QED BY <1>b, <3>1, <3>2, FS_AddElement
    <2>3. CASE a # s
      <3>1. next = now
        BY <1>a, <2>1, <2>3 DEF LedgerOK, Succeeded
      <3>2. facts'[s] = facts[s]
        BY <1>a, <2>1, <2>3 DEF Publish, LedgerOK
      <3> QED BY <1>b, <3>1, <3>2
    <2> QED BY <2>2, <2>3
  <1> QED BY <1>1, <1>2, <1>3, LedgerWriters

(* Each success published its fact exactly once: however often an answer   *)
(* is lost and whoever completes the operation, the fact is written with   *)
(* the one transaction whose condition holds.                              *)
THEOREM EachSuccessPublishesOnce == Spec => []OneFactPerSuccess
  <1>1. Init => FactsInv
    <2> SUFFICES ASSUME Init, NEW s \in Applied
                 PROVE  IsFiniteSet(Succeeded(s)) /\ facts[s] = Cardinality(Succeeded(s))
      BY DEF FactsInv
    <2>1. Succeeded(s) = {}
      BY DEF Init, Succeeded
    <2>2. facts[s] = 0
      BY DEF Init
    <2> QED BY <2>1, <2>2, FS_EmptySet
  <1>2. ServiceInv /\ FactsInv /\ [Next]_vars => FactsInv'
    BY FactsStep
  <1>3. FactsInv => OneFactPerSuccess
    BY DEF FactsInv, OneFactPerSuccess, Succeeded
  <1> QED BY <1>1, <1>2, <1>3, ServiceHolds, PTL DEF Spec

-----------------------------------------------------------------------------
(***************************************************************************)
(* The ledger agrees with the provider                                     *)
(***************************************************************************)
LEMMA SetupWorker ==
    ASSUME ServiceInv, SetupInv, NEW w \in Workers, WorkerAction(w)
    PROVE  /\ pc'[w] = "stripe" => Stripe
           /\ pc'[w] \in Durably => ~Stripe
           /\ pc'[w] # "idle" => cmd'[w] \in Commands
  <1> DEFINE Kept == /\ pc'[w] = "stripe" => Stripe
                     /\ pc'[w] \in Durably => ~Stripe
                     /\ pc'[w] # "idle" => cmd'[w] \in Commands
  <1> SUFFICES Kept
    OBVIOUS
  <1>a. /\ pc \in [Workers -> Points] /\ cmd \in [Workers -> MaybeCommand]
        /\ pc[w] = "stripe" => Stripe
        /\ pc[w] \in Durably => ~Stripe
        /\ pc[w] # "idle" => cmd[w] \in Commands
    BY DEF ServiceInv, LocalOK, SetupInv
  <1>b. \A p : pc[w] # "idle" /\ Goto(w, p) /\ (p = "stripe" => Stripe) /\ (p \in Durably => ~Stripe)
                  => Kept
    BY <1>a DEF Goto
  <1>c. \A p, a : pc[w] # "idle" /\ GotoWith(w, p, a) /\ p \in {"complete", "reply"} => Kept
    BY <1>a DEF GotoWith, Durably
  <1>d. End(w) => Kept
    BY <1>a DEF End, Durably
  <1>e. \A p, o : pc[w] # "idle" /\ GotoSettling(w, p, o) /\ p \in {"payment", "retrieve"} => Kept
    BY <1>a DEF GotoSettling, Durably
  <1>f. \A o, a : pc[w] # "idle" /\ CompleteFor(w, o, a) => Kept
    BY <1>a DEF CompleteFor, Durably
  <1> HIDE DEF Kept
  <1>g. \A a : pc[w] # "idle" /\ Completed(w, a) => Kept
    BY <1>c, <1>e DEF Completed, Reply
  <1>h. \A p : pc[w] # "idle" /\ p \in {"retrieve", "replay"} /\ Resume(w, p) => Kept
    BY <1>b, <1>c, <1>d DEF Resume, Reply, Throw, Durably
  <1>i. \A record : pc[w] # "idle" /\ Respond(w, record) => Kept
    BY <1>c, <1>d DEF Respond, Throw
  <1>1. CASE \E c \in Commands : Invoke(w, c)
    <2>1. PICK c \in Commands : Invoke(w, c)
      BY <1>1
    <2>2. cmd'[w] = c /\ pc'[w] \in {"payment", "retrieve", "lookup"}
      BY <2>1, InvokeMoves DEF ServiceInv
    <2> QED BY <2>2 DEF Kept, Durably
  <1>2. CASE LookupOperation(w) \/ Begin(w) \/ RereadBegin(w)
    BY <1>2, <1>b, <1>d, <1>h DEF LookupOperation, Begin, RereadBegin, Throw, Durably
  <1>3. CASE FindActive(w)
    BY <1>3, <1>b, <1>e DEF FindActive, Durably
  <1>4. CASE Retrieve(w)
    BY <1>4, <1>b, <1>c DEF Retrieve, Reply, Durably
  <1>5. CASE RetrieveState(w)
    BY <1>5, <1>a DEF RetrieveState, Kept, Durably
  <1>6. CASE Settle(w)
    BY <1>6, <1>b, <1>c, <1>d, <1>f DEF Settle, Diverge, Reply, Throw, Durably
  <1>7. CASE Compare(w)
    BY <1>7, <1>c, <1>d DEF Compare, Diverge, Reply, Throw
  <1>8. CASE FindPayment(w)
    BY <1>8, <1>a DEF FindPayment, Kept, Durably
  <1>9. CASE TransactBegin(w)
    BY <1>9, <1>b DEF TransactBegin, Durably
  <1>10. CASE Replay(w)
    BY <1>10, <1>b, <1>c, <1>d DEF Replay, Throw
  <1>11. CASE ReadPayment(w) \/ Mutate(w) \/ RecordRejection(w) \/ RequiredReplay(w)
    BY <1>11, <1>a, <1>b, <1>c, <1>d
       DEF ReadPayment, Mutate, RecordRejection, RequiredReplay, Throw, Durably
  <1>12. CASE SendToStripe(w)
    BY <1>12, <1>b, <1>d DEF SendToStripe, Throw, Durably
  <1>13. CASE StripeReplays(w) \/ StripeApplies(w) \/ StripeDeclines(w) \/ StripeDefersRefund(w)
    BY <1>13, <1>i
       DEF StripeReplays, StripeApplies, StripeDeclines, StripeDefersRefund, StripeRecords
  <1>14. CASE StripeIsBusy(w)
    BY <1>14, <1>c DEF StripeIsBusy
  <1>15. CASE TransactComplete(w) \/ RereadComplete(w)
    BY <1>15, <1>b, <1>d, <1>g DEF TransactComplete, RereadComplete, Throw, Durably
  <1>16. CASE Return(w) \/ Lose(w)
    BY <1>16, <1>d DEF Return, Lose, Throw
  <1>17. CASE TransactConflict(w)
    BY <1>17, <1>a, <1>b DEF TransactConflict, Durably
  <1> QED
    BY <1>1, <1>2, <1>3, <1>4, <1>5, <1>6, <1>7, <1>8, <1>9, <1>10, <1>11, <1>12, <1>13, <1>14,
       <1>15, <1>16, <1>17 DEF WorkerAction, Step

LEMMA SetupStep == ServiceInv /\ SetupInv /\ [Next]_vars => SetupInv'
  <1> SUFFICES ASSUME ServiceInv, SetupInv, [Next]_vars PROVE SetupInv'
    OBVIOUS
  <1>1. \A w \in Workers : /\ pc'[w] = "stripe" => Stripe
                           /\ pc'[w] \in Durably => ~Stripe
                           /\ pc'[w] # "idle" => cmd'[w] \in Commands
    <2>1. CASE UNCHANGED local
      BY <2>1 DEF local, SetupInv
    <2>2. ASSUME NEW w \in Workers, WorkerAction(w)
          PROVE  \A v \in Workers : /\ pc'[v] = "stripe" => Stripe
                                    /\ pc'[v] \in Durably => ~Stripe
                                    /\ pc'[v] # "idle" => cmd'[v] \in Commands
      <3>1. OthersStay(w)
        BY <2>2, LedgerStep, WorkerStep
      <3> QED BY <2>2, <3>1, SetupWorker DEF OthersStay, Same, SetupInv
    <2> QED BY <2>1, <2>2, WhoActs
  <1>2. \A t \in Mutations : replayed'[t] \in {"PENDING", "SETTLED"} => Stripe
    <2>a. replayed \in [Mutations -> {"NONE", "APPLIED", "REJECTED", "PENDING", "SETTLED"}]
      BY DEF ServiceInv, BankOK
    <2>1. CASE UNCHANGED bank
      BY <2>1 DEF bank, SetupInv
    <2>2. CASE StripeRefundSettles
      BY <2>2, <2>a DEF StripeRefundSettles, SetupInv, Mutations
    <2>3. CASE \E w \in Workers : pc[w] = "stripe"
      BY <2>3 DEF SetupInv
    <2>4. CASE \E w \in Workers : Mutate(w) \/ RecordRejection(w)
      BY <2>4, <2>a DEF Mutate, RecordRejection, SetupInv, bank
    <2>5. \/ UNCHANGED bank \/ StripeRefundSettles \/ \E w \in Workers : pc[w] = "stripe"
          \/ \E w \in Workers : Mutate(w) \/ RecordRejection(w)
      BY DEF Next, vars, Invoke, Step, Lose, TransactConflict, TransactBegin, TransactComplete,
             StripeIsBusy, LookupOperation, FindActive, Retrieve, StripeApplies, StripeDeclines,
             StripeDefersRefund, StripeRecords, RetrieveState, Settle, Compare, FindPayment, Begin,
             RereadBegin, Replay, ReadPayment, RequiredReplay, SendToStripe, StripeReplays,
             RereadComplete, Return
    <2> QED BY <2>1, <2>2, <2>3, <2>4, <2>5
  <1>3. \A o \in Ops : opState'[o] # "ABSENT" => payload'[o] \in Commands
    <2>a. LedgerOK
      BY DEF ServiceInv, LedgerInv
    <2>1. CASE UNCHANGED ledger
      BY <2>1 DEF ledger, SetupInv
    <2>2. ASSUME NEW w \in Workers, TransactBegin(w), BeginCondition(cmd[w])
          PROVE  \A o \in Ops : opState'[o] # "ABSENT" => payload'[o] \in Commands
      <3>1. cmd[w] \in Commands
        BY <2>2 DEF TransactBegin, SetupInv
      <3> QED BY <2>2, <2>a, <3>1, BeginsOperation DEF LedgerOK, SetupInv
    <2>3. ASSUME NEW w \in Workers, TransactComplete(w), CompleteCondition(Subject(w))
          PROVE  \A o \in Ops : opState'[o] # "ABSENT" => payload'[o] \in Commands
      <3>1. /\ Subject(w) \in Ops /\ opState[Subject(w)] # "ABSENT" /\ payload' = payload
            /\ \E done : opState' = [opState EXCEPT ![Subject(w)] = done]
        BY <2>3, CompletesOperation
      <3> QED BY <2>a, <3>1 DEF LedgerOK, SetupInv
    <2> QED BY <2>1, <2>2, <2>3, LedgerWriters
  <1> QED BY <1>1, <1>2, <1>3 DEF SetupInv

(* What a worker does when no operation is given up: it refuses only what  *)
(* the provider has refused.                                               *)
RefusesRightly(w) ==
    pc[w] = "complete" /\ answer[w] = "REJECTED" =>
        replayed[payload[Subject(w)].type] = "REJECTED"

LEMMA RefusedStep ==
    ASSUME ServiceInv, SetupInv, LedgerForward, NEW w \in Workers, WorkerAction(w), givenUp' = {}
    PROVE  RefusesRightly(w)'
  <1> DEFINE t == cmd[w].type
  <1>a. ServiceInv /\ WorkerInv(w) /\ LedgerInv /\ LocalOK /\ BankOK
    BY DEF ServiceInv
  <1>c. pc'[w] # "complete" => RefusesRightly(w)'
    BY DEF RefusesRightly
  <1>d. \A p : p # "complete" /\ Goto(w, p) => RefusesRightly(w)'
    BY <1>a, <1>c DEF Goto, LocalOK
  <1>e. \A p, a : p # "complete" /\ GotoWith(w, p, a) => RefusesRightly(w)'
    BY <1>a, <1>c DEF GotoWith, LocalOK
  <1>f. End(w) => RefusesRightly(w)'
    BY <1>a, <1>c DEF End, LocalOK
  <1>g. \A p, o : p # "complete" /\ GotoSettling(w, p, o) => RefusesRightly(w)'
    BY <1>a, <1>c DEF GotoSettling, LocalOK
  <1>h. \A a : GotoWith(w, "complete", a) /\ a # "REJECTED" => RefusesRightly(w)'
    BY <1>a DEF GotoWith, LocalOK, RefusesRightly
  <1>i. \A o, a : CompleteFor(w, o, a) /\ a # "REJECTED" => RefusesRightly(w)'
    BY <1>a DEF CompleteFor, LocalOK, RefusesRightly
  <1>j. pc[w] \in Sending => /\ t \in Mutations /\ settling[w] = NoOp
                             /\ BegunNext(cmd[w].op) /\ payload'[cmd[w].op] = cmd[w]
    BY SendsMutation, BegunForward
  <1>k. \A a : /\ pc[w] \in Sending /\ GotoWith(w, "complete", a)
               /\ a = "REJECTED" => replayed'[t] = "REJECTED"
            => RefusesRightly(w)'
    <2> TAKE a
    <2> HAVE /\ pc[w] \in Sending /\ GotoWith(w, "complete", a)
             /\ a = "REJECTED" => replayed'[t] = "REJECTED"
    <2>1. answer'[w] = a /\ cmd' = cmd /\ settling' = settling
      BY <1>a DEF GotoWith, LocalOK
    <2>2. Subject(w)' = cmd[w].op
      BY <1>j, <2>1 DEF Subject
    <2> QED BY <1>j, <2>1, <2>2 DEF RefusesRightly
  <1>l. \A a : Completed(w, a) => RefusesRightly(w)'
    BY <1>e, <1>g DEF Completed, Reply
  <1>m. \A p : p # "complete" /\ Resume(w, p) => RefusesRightly(w)'
    BY <1>d, <1>e, <1>f DEF Resume, Reply, Throw
  <1>n. \A u \in Mutations : Expected(u) # "REJECTED"
    BY VerbMoves DEF Applied
  <1>o. /\ pc[w] \in Sending /\ ~Stripe /\ replayed[t] # "NONE" /\ replayed' = replayed
        /\ GotoWith(w, "complete", ResultOf(t))
        => RefusesRightly(w)'
    <2> SUFFICES ASSUME pc[w] \in Sending, ~Stripe, replayed[t] # "NONE", replayed' = replayed,
                        GotoWith(w, "complete", ResultOf(t))
                 PROVE  RefusesRightly(w)'
      OBVIOUS
    <2>1. ResultOf(t) = "REJECTED" => replayed[t] = "REJECTED"
      BY <1>a, <1>j, <1>n DEF ResultOf, SetupInv, BankOK
    <2> QED BY <1>k, <2>1
  <1>p. \A record : /\ pc[w] = "stripe" /\ Respond(w, record) /\ replayed'[t] = record
            => RefusesRightly(w)'
    BY <1>f, <1>j, <1>k, <1>n DEF Respond, Throw, Sending
  <1>1. CASE \E c \in Commands : Invoke(w, c)
    BY <1>1, <1>a, <1>c, InvokeMoves
  <1>2. CASE LookupOperation(w) \/ Begin(w) \/ RereadBegin(w)
    BY <1>2, <1>d, <1>f, <1>m DEF LookupOperation, Begin, RereadBegin, Throw
  <1>3. CASE FindActive(w)
    BY <1>3, <1>d, <1>g DEF FindActive
  <1>4. CASE Retrieve(w)
    <2>1. payload[Subject(w)].type \in Mutations
      BY <1>4, <1>a DEF Retrieve, WorkerInv, Subject, LedgerInv, LedgerOK, Begun
    <2> QED BY <1>4, <1>d, <1>e, <1>h, <1>n, <2>1 DEF Retrieve, Reply
  <1>5. CASE RetrieveState(w)
    BY <1>5, <1>a, <1>c DEF RetrieveState, LocalOK
  <1>6. CASE Settle(w)
    <2>1. active # NoOp => payload[active].type \in Mutations
      BY <1>a DEF LedgerInv, LedgerOK, MaybeOp
    <2>2. ~CompleteFor(w, active, "REJECTED") \/ active = NoOp
          \/ Classify(payload[active].type, seen[w]) # "NOT_APPLIED"
          \/ ~SettlesNotApplied(w)
      BY <1>6 DEF Settle, SettlesNotApplied
    <2> QED
      BY <1>6, <1>d, <1>e, <1>f, <1>i, <1>n, <2>1, <2>2 DEF Settle, Diverge, Reply, Throw
  <1>7. CASE Compare(w)
    BY <1>7, <1>e, <1>f DEF Compare, Diverge, Reply, Throw
  <1>8. CASE FindPayment(w)
    BY <1>8, <1>a, <1>c DEF FindPayment, LocalOK
  <1>9. CASE TransactBegin(w)
    BY <1>9, <1>d DEF TransactBegin
  <1>10. CASE Replay(w)
    BY <1>10, <1>d, <1>f, <1>o DEF Replay, Throw, Sending, bank
  <1>11. CASE ReadPayment(w)
    BY <1>11, <1>d DEF ReadPayment
  <1>12. CASE Mutate(w)
    BY <1>12, <1>d, <1>f, <1>h, <1>j, <1>n DEF Mutate, Throw, Sending
  <1>13. CASE RecordRejection(w)
    <2>1. pc[w] \in Sending
      BY <1>13 DEF RecordRejection, Sending
    <2>2. CASE replayed' = [replayed EXCEPT ![t] = "REJECTED"] /\ GotoWith(w, "complete", "REJECTED")
      BY <1>a, <1>j, <1>k, <2>1, <2>2 DEF BankOK
    <2> QED BY <1>13, <1>d, <2>2 DEF RecordRejection
  <1>14. CASE RequiredReplay(w)
    <2>1. pc[w] \in Sending /\ ~Stripe
      BY <1>14 DEF RequiredReplay, Sending, SetupInv, Durably
    <2> QED BY <1>14, <1>f, <1>o, <2>1 DEF RequiredReplay, Throw, bank
  <1>15. CASE SendToStripe(w)
    BY <1>15, <1>d, <1>f DEF SendToStripe, Throw
  <1>16. CASE StripeReplays(w)
    BY <1>16, <1>p DEF StripeReplays, bank
  <1>17. CASE StripeApplies(w) \/ StripeDeclines(w) \/ StripeDefersRefund(w)
    <2>1. PICK record : StripeRecords(w, record)
      BY <1>17 DEF StripeApplies, StripeDeclines, StripeDefersRefund
    <2>2. replayed'[t] = record
      BY <1>a, <1>j, <2>1 DEF StripeRecords, BankOK, Sending
    <2> QED BY <1>p, <2>1, <2>2 DEF StripeRecords
  <1>18. CASE StripeIsBusy(w)
    BY <1>18 DEF StripeIsBusy
  <1>19. CASE TransactComplete(w) \/ RereadComplete(w)
    BY <1>19, <1>d, <1>f, <1>l DEF TransactComplete, RereadComplete, Throw
  <1>20. CASE Return(w) \/ Lose(w)
    BY <1>20, <1>f DEF Return, Lose, Throw
  <1>21. CASE TransactConflict(w)
    BY <1>21, <1>d DEF TransactConflict
  <1> QED
    BY <1>1, <1>2, <1>3, <1>4, <1>5, <1>6, <1>7, <1>8, <1>9, <1>10, <1>11, <1>12, <1>13, <1>14,
       <1>15, <1>16, <1>17, <1>18, <1>19, <1>20, <1>21 DEF WorkerAction, Step

LEMMA GivenUpGrows == [Next]_vars => givenUp \subseteq givenUp'
  BY DEF Next, vars, Invoke, Step, Lose, TransactConflict, TransactBegin, TransactComplete,
         StripeIsBusy, LookupOperation, FindActive, Retrieve, StripeDeclines, StripeDefersRefund,
         StripeRefundSettles, StripeApplies, Mutate, RecordRejection, StripeRecords,
         RetrieveState, Settle, Compare, FindPayment, Begin, RereadBegin, Replay, ReadPayment,
         RequiredReplay, SendToStripe, StripeReplays, RereadComplete, Return

(* The parts of AgreeInv that are not about a worker. *)
LedgerAgrees ==
    /\ Level
    /\ replayed["RefundPayment"] = "PENDING" =>
          active # NoOp /\ payload[active].type = "RefundPayment"
    /\ \A o \in Ops : opState[o] = "FAILED" => replayed[payload[o].type] = "REJECTED"
    /\ \A s \in Passed(status) :
          \E o \in Ops : opState[o] = "SUCCEEDED" /\ Expected(payload[o].type) = s

LEMMA AgreeIs == AgreeInv <=> LedgerAgrees /\ \A w \in Workers : RefusesRightly(w)
  BY DEF AgreeInv, LedgerAgrees, RefusesRightly

(* An operation the provider still applies, or defers, is the active one.  *)
LEMMA AppliedIsActive ==
    ASSUME ServiceInv, TruthInv, LedgerAgrees, NEW w \in Workers, pc[w] \in Sending,
           replayed[cmd[w].type] = "NONE", provider = Prerequisite(cmd[w].type)
    PROVE  active = cmd[w].op /\ payload[active].type = cmd[w].type /\ active \in Ops
  <1>1. /\ cmd[w].type \in Mutations /\ cmd[w].op \in Ops /\ payload[cmd[w].op] = cmd[w]
        /\ opState[cmd[w].op] # "ABSENT"
    BY SendsMutation DEF Begun
  <1>2. opState[cmd[w].op] # "FAILED"
    BY <1>1 DEF LedgerAgrees
  <1>3. ASSUME opState[cmd[w].op] = "SUCCEEDED" PROVE FALSE
    <2>1. result[cmd[w].op] = Expected(cmd[w].type)
      BY <1>1, <1>3 DEF ServiceInv, LedgerInv
    <2>2. result[cmd[w].op] \in Passed(provider)
      BY <1>1, <1>3 DEF TruthInv, LedgerNeverAhead
    <2> QED BY <1>1, <2>1, <2>2, VerbMoves
  <1>4. opState[cmd[w].op] = "IN_PROGRESS"
    BY <1>1, <1>2, <1>3 DEF ServiceInv, LedgerInv, LedgerOK
  <1> QED BY <1>1, <1>4 DEF ServiceInv, LedgerInv

LEMMA ServedAgrees ==
    ASSUME ServiceInv, TruthInv, LedgerAgrees, NEW w \in Workers, Serves(w)
    PROVE  LedgerAgrees'
  <1> DEFINE t == cmd[w].type
  <1>a. /\ LedgerOK /\ BankInv /\ "RefundPayment" \in Mutations
        /\ replayed \in [Mutations -> {"NONE", "APPLIED", "REJECTED", "PENDING", "SETTLED"}]
    BY DEF ServiceInv, LedgerInv, TruthInv, BankOK, Mutations
  <1>b. /\ UNCHANGED ledger /\ pc[w] \in Sending /\ t \in Mutations /\ replayed[t] = "NONE"
    BY SendsMutation DEF Serves, Applies, Refuses, Defers
  <1>c. active # NoOp => active \in Ops /\ payload[active].type \in Mutations
    BY <1>a DEF ServiceInv, LedgerInv, LedgerOK, MaybeOp
  <1>d. \A o \in Ops : opState[o] = "FAILED" => payload[o].type \in Mutations
    BY <1>a DEF LedgerOK
  <1>e. provider = Prerequisite(t) => active = cmd[w].op /\ payload[active].type = t /\ active # NoOp
    BY <1>b, AppliedIsActive, OpIsNotNone
  <1> HIDE DEF t
  <1>1. CASE Applies(t)
    <2>1. \A u \in Mutations : replayed'[u] = IF u = t THEN "APPLIED" ELSE replayed[u]
      BY <1>1, <1>a, <1>b DEF Applies
    <2>2. /\ provider = Prerequisite(t) /\ provider' = Expected(t)
          /\ active # NoOp /\ payload[active].type = t
      BY <1>1, <1>e DEF Applies
    <2>3. status = Prerequisite(t)
      BY <1>b, <2>2, VerbMoves DEF LedgerAgrees, Level
    <2>4. /\ active' # NoOp /\ payload'[active'].type = t /\ status' = Prerequisite(t)
          /\ replayed'[t] = "APPLIED"
      BY <1>b, <2>1, <2>2, <2>3 DEF ledger
    <2>5. Level'
      BY <2>2, <2>4 DEF Level
    <2>6. replayed'["RefundPayment"] # "PENDING"
      BY <1>a, <1>b, <2>1, <2>2 DEF LedgerAgrees
    <2>7. \A o \in Ops : opState[o] = "FAILED" => replayed'[payload[o].type] = "REJECTED"
      BY <1>b, <1>d, <2>1 DEF LedgerAgrees
    <2> QED BY <1>b, <2>5, <2>6, <2>7 DEF LedgerAgrees, ledger
  <1>2. ASSUME NEW record \in {"REJECTED", "PENDING"},
               replayed' = [replayed EXCEPT ![t] = record], provider' = provider,
               record = "PENDING" => t = "RefundPayment" /\ active # NoOp /\ payload[active].type = t
        PROVE  LedgerAgrees'
    <2>1. \A u \in Mutations : replayed'[u] = IF u = t THEN record ELSE replayed[u]
      BY <1>2, <1>a, <1>b
    <2>2. Level'
      <3>1. CASE active = NoOp
        BY <1>2, <1>b, <3>1 DEF LedgerAgrees, Level, ledger
      <3>2. CASE active # NoOp
        <4> DEFINE u == payload[active].type
        <4>1. \/ status = provider
              \/ status = Prerequisite(u) /\ provider = Expected(u)
                 /\ replayed'[u] \in {"APPLIED", "SETTLED"}
          BY <1>b, <1>c, <2>1, <3>2 DEF LedgerAgrees, Level
        <4>2. active' # NoOp /\ payload'[active'].type = u /\ status' = status
          BY <1>b, <3>2 DEF ledger
        <4> HIDE DEF u
        <4> QED BY <1>2, <4>1, <4>2 DEF Level
      <3> QED BY <3>1, <3>2
    <2>3. replayed'["RefundPayment"] = "PENDING" =>
             active # NoOp /\ payload[active].type = "RefundPayment"
      BY <1>2, <1>a, <2>1 DEF LedgerAgrees
    <2>4. \A o \in Ops : opState[o] = "FAILED" => replayed'[payload[o].type] = "REJECTED"
      BY <1>b, <1>d, <2>1 DEF LedgerAgrees
    <2> QED BY <1>b, <2>2, <2>3, <2>4 DEF LedgerAgrees, ledger
  <1>3. CASE Refuses(t)
    BY <1>2, <1>3 DEF Refuses
  <1>4. CASE Defers(t)
    <2>1. provider = Prerequisite(t)
      BY <1>4, PrerequisiteIs DEF Defers
    <2> QED BY <1>2, <1>4, <1>e, <2>1 DEF Defers
  <1> QED BY <1>1, <1>3, <1>4 DEF Serves, t

LEMMA SettledAgrees ==
    ASSUME ServiceInv, TruthInv, LedgerAgrees, StripeRefundSettles
    PROVE  LedgerAgrees'
  <1>a. /\ LedgerOK /\ "RefundPayment" \in Mutations /\ UNCHANGED ledger
        /\ replayed \in [Mutations -> {"NONE", "APPLIED", "REJECTED", "PENDING", "SETTLED"}]
    BY DEF ServiceInv, LedgerInv, BankOK, Mutations, StripeRefundSettles
  <1>1. /\ replayed["RefundPayment"] = "PENDING"
        /\ replayed' = [replayed EXCEPT !["RefundPayment"] = "SETTLED"]
        /\ provider = "CAPTURED" /\ provider' \in {"REFUNDED", "CAPTURED"}
    BY DEF StripeRefundSettles, TruthInv, BankInv
  <1>2. active # NoOp /\ payload[active].type = "RefundPayment" /\ status = "CAPTURED"
    BY <1>1 DEF LedgerAgrees, Level
  <1>3. \A u \in Mutations :
           replayed'[u] = IF u = "RefundPayment" THEN "SETTLED" ELSE replayed[u]
    BY <1>1, <1>a
  <1>4. /\ active' # NoOp /\ payload'[active'].type = "RefundPayment" /\ status' = "CAPTURED"
        /\ replayed'["RefundPayment"] = "SETTLED"
    BY <1>2, <1>3, <1>a DEF ledger
  <1>5. Level'
    BY <1>1, <1>4, ExpectedIs, PrerequisiteIs DEF Level
  <1>6. \A o \in Ops : opState[o] = "FAILED" => replayed'[payload[o].type] = "REJECTED"
    BY <1>1, <1>3, <1>a DEF LedgerAgrees, LedgerOK
  <1> QED BY <1>4, <1>5, <1>6, <1>a DEF LedgerAgrees, ledger

LEMMA BegunAgrees ==
    ASSUME ServiceInv, TruthInv, LedgerAgrees, UNCHANGED bank,
           NEW w \in Workers, TransactBegin(w), BeginCondition(cmd[w])
    PROVE  LedgerAgrees'
  <1> DEFINE c == cmd[w]
  <1>a. LedgerOK
    BY DEF ServiceInv, LedgerInv
  <1>1. /\ c.op \in Ops /\ opState[c.op] = "ABSENT" /\ active = NoOp
        /\ opState' = [opState EXCEPT ![c.op] = "IN_PROGRESS"]
        /\ payload' = [payload EXCEPT ![c.op] = c]
        /\ active' = c.op /\ status' = status
    BY BeginsOperation
  <1> HIDE DEF c
  <1>2. \A o \in Ops : /\ opState'[o] = IF o = c.op THEN "IN_PROGRESS" ELSE opState[o]
                       /\ payload'[o] = IF o = c.op THEN c ELSE payload[o]
    BY <1>1, <1>a DEF LedgerOK
  <1>3. status' = provider' /\ active' # NoOp
    BY <1>1, OpIsNotNone DEF LedgerAgrees, Level, bank
  <1>4. Level'
    BY <1>3 DEF Level
  <1>5. replayed'["RefundPayment"] # "PENDING"
    BY <1>1 DEF LedgerAgrees, bank
  <1>6. \A o \in Ops : opState'[o] = "FAILED" => replayed'[payload'[o].type] = "REJECTED"
    BY <1>1, <1>2 DEF LedgerAgrees, bank
  <1>7. \A s \in Passed(status) :
           \E o \in Ops : opState'[o] = "SUCCEEDED" /\ Expected(payload'[o].type) = s
    <2> TAKE s \in Passed(status)
    <2>1. PICK o \in Ops : opState[o] = "SUCCEEDED" /\ Expected(payload[o].type) = s
      BY DEF LedgerAgrees
    <2> QED BY <1>1, <1>2, <2>1
  <1> QED BY <1>1, <1>4, <1>5, <1>6, <1>7 DEF LedgerAgrees

LEMMA CompletedAgrees ==
    ASSUME OneOperationEach, ServiceInv, TruthInv, SetupInv, LedgerAgrees, UNCHANGED bank,
           NEW w \in Workers, RefusesRightly(w),
           TransactComplete(w), CompleteCondition(Subject(w))
    PROVE  LedgerAgrees'
  <1> DEFINE o == Subject(w)
             a == answer[w]
             t == payload[o].type
             done == IF a = "REJECTED" THEN "FAILED" ELSE "SUCCEEDED"
  <1>a. LedgerOK /\ LedgerInv
    BY DEF ServiceInv, LedgerInv
  <1>1. /\ pc[w] = "complete" /\ o \in Ops /\ active = o /\ opState[o] = "IN_PROGRESS"
        /\ a \in {"REJECTED", Expected(t)} /\ t \in Mutations
        /\ opState' = [opState EXCEPT ![o] = done]
        /\ active' = NoOp /\ status' = IF a = "REJECTED" THEN status ELSE a
        /\ payload' = payload
    BY CompletesOperation
  <1>2. a = "REJECTED" => replayed[t] = "REJECTED"
    BY <1>1 DEF RefusesRightly
  <1>3. a # "REJECTED" => a \in Passed(provider)
    BY <1>1 DEF TruthInv, SawIt
  <1>4. /\ active # NoOp
        /\ \/ status = provider
           \/ /\ status = Prerequisite(t) /\ provider = Expected(t)
              /\ replayed[t] \in {"APPLIED", "SETTLED"}
    BY <1>1, OpIsNotNone DEF LedgerAgrees, Level
  <1>5. replayed["RefundPayment"] = "PENDING" => t = "RefundPayment" /\ provider = "CAPTURED"
    BY <1>1 DEF LedgerAgrees, TruthInv, BankInv
  <1>t. t = payload[o].type
    OBVIOUS
  <1>d. /\ done \in {"SUCCEEDED", "FAILED"} /\ (a = "REJECTED" <=> done = "FAILED")
    OBVIOUS
  <1> HIDE DEF o, a, t, done
  <1>6. \A p \in Ops : opState'[p] = IF p = o THEN done ELSE opState[p]
    BY <1>1, <1>a DEF LedgerOK
  <1>7. \A p \in Ops : opState'[p] = "FAILED" => replayed'[payload'[p].type] = "REJECTED"
    BY <1>1, <1>2, <1>6, <1>d, <1>t DEF LedgerAgrees, bank
  <1>8. CASE a = "REJECTED"
    <2>1. status' = provider'
      BY <1>1, <1>2, <1>4, <1>8 DEF bank
    <2>2. Level'
      BY <1>1, <2>1 DEF Level
    <2>3. replayed'["RefundPayment"] # "PENDING"
      BY <1>2, <1>5, <1>8 DEF bank
    <2>4. \A s \in Passed(status) :
             \E p \in Ops : opState'[p] = "SUCCEEDED" /\ Expected(payload'[p].type) = s
      <3> TAKE s \in Passed(status)
      <3>1. PICK p \in Ops : opState[p] = "SUCCEEDED" /\ Expected(payload[p].type) = s
        BY DEF LedgerAgrees
      <3> QED BY <1>1, <1>6, <3>1
    <2>5. status' = status
      BY <1>1, <1>8
    <2> QED BY <1>7, <2>2, <2>3, <2>4, <2>5 DEF LedgerAgrees
  <1>9. CASE a # "REJECTED"
    <2>1. a = Expected(t) /\ Expected(t) \in Passed(provider) /\ status' = Expected(t)
      BY <1>1, <1>3, <1>9
    <2>2. provider = Expected(t)
      <3>1. CASE t \in {"CancelPayment", "RefundPayment"}
        BY <2>1, <3>1, ExpectedIs, PassedIs DEF ServiceInv, BankOK, ProviderStates, Applied
      <3>2. CASE t \in {"AuthorizePayment", "CapturePayment"} /\ status = provider
        <4>1. PICK p \in Ops : opState[p] = "SUCCEEDED" /\ Expected(payload[p].type) = Expected(t)
          BY <2>1, <3>2 DEF LedgerAgrees
        <4>2. payload[p].type \in Mutations /\ payload[p].op = p /\ payload[o].op = o
          BY <1>1, <1>a, <4>1 DEF LedgerOK
        <4>3. payload[p].type = t
          BY <1>1, <4>1, <4>2, ExpectedTellsVerb
        <4>4. payload[p] \in Commands /\ payload[o] \in Commands
          BY <1>1, <4>1 DEF SetupInv
        <4>5. p = o
          BY <1>t, <3>2, <4>2, <4>3, <4>4 DEF OneOperationEach
        <4> QED BY <1>1, <4>1, <4>5
      <3> QED BY <1>1, <1>4, <3>1, <3>2 DEF Mutations
    <2>3. Level'
      BY <1>1, <2>1, <2>2 DEF Level, bank
    <2>4. replayed'["RefundPayment"] # "PENDING"
      BY <1>5, <2>2, ExpectedIs DEF bank
    <2>5. \A s \in Passed(Expected(t)) :
             \E p \in Ops : opState'[p] = "SUCCEEDED" /\ Expected(payload'[p].type) = s
      <3> TAKE s \in Passed(Expected(t))
      <3>1. CASE s = Expected(t)
        BY <1>1, <1>6, <1>9, <1>d, <1>t, <3>1
      <3>2. CASE s # Expected(t)
        <4>1. s \in Passed(status)
          BY <1>1, <1>4, <2>2, <3>2, VerbMoves
        <4>2. PICK p \in Ops : opState[p] = "SUCCEEDED" /\ Expected(payload[p].type) = s
          BY <4>1 DEF LedgerAgrees
        <4> QED BY <1>1, <1>6, <4>2
      <3> QED BY <3>1, <3>2
    <2> QED BY <1>7, <2>1, <2>3, <2>4, <2>5 DEF LedgerAgrees
  <1> QED BY <1>8, <1>9

LEMMA AgreesStep ==
    ASSUME OneOperationEach, ServiceInv, TruthInv, SetupInv, AgreesWhile, [Next]_vars
    PROVE  AgreesWhile'
  <1> SUFFICES ASSUME givenUp' = {} PROVE LedgerAgrees' /\ \A w \in Workers : RefusesRightly(w)'
    BY AgreeIs DEF AgreesWhile, AgreeInv, LedgerAgrees, RefusesRightly
  <1>1. LedgerAgrees /\ \A w \in Workers : RefusesRightly(w)
    BY GivenUpGrows, AgreeIs DEF AgreesWhile
  <1>2. LedgerAgrees'
    <2>1. CASE UNCHANGED bank /\ UNCHANGED ledger
      BY <1>1, <2>1 DEF bank, ledger, LedgerAgrees, Level
    <2>2. CASE \E w \in Workers : Serves(w)
      BY <1>1, <2>2, ServedAgrees
    <2>3. CASE StripeRefundSettles
      BY <1>1, <2>3, SettledAgrees
    <2>4. ASSUME UNCHANGED bank,
                 NEW w \in Workers, TransactBegin(w), BeginCondition(cmd[w])
          PROVE  LedgerAgrees'
      BY <1>1, <2>4, BegunAgrees
    <2>5. ASSUME UNCHANGED bank,
                 NEW w \in Workers, TransactComplete(w), CompleteCondition(Subject(w))
          PROVE  LedgerAgrees'
      BY <1>1, <2>5, CompletedAgrees
    <2> QED BY <2>1, <2>2, <2>3, <2>4, <2>5, BankWriters, LedgerWriters
  <1>3. LedgerForward
    BY LedgerStep
  <1>4. \A w \in Workers : Same(w) => RefusesRightly(w)'
    <2> SUFFICES ASSUME NEW w \in Workers, Same(w), pc[w] = "complete", answer[w] = "REJECTED"
                 PROVE  RefusesRightly(w)'
      BY DEF RefusesRightly, Same
    <2>1. Begun(Subject(w)) /\ replayed[payload[Subject(w)].type] = "REJECTED"
      BY <1>1 DEF RefusesRightly, ServiceInv, WorkerInv
    <2>2. payload'[Subject(w)] = payload[Subject(w)] /\ payload[Subject(w)].type \in Mutations
      BY <1>3, <2>1, BegunForward DEF ServiceInv, LedgerInv, LedgerOK, Begun
    <2>3. \A u \in Mutations : replayed[u] = "REJECTED" => replayed'[u] = "REJECTED"
      <3>1. replayed \in [Mutations -> {"NONE", "APPLIED", "REJECTED", "PENDING", "SETTLED"}]
        BY DEF ServiceInv, BankOK
      <3> QED BY <3>1, BankWriters, SendsMutation
              DEF bank, StripeRefundSettles, Serves, Applies, Refuses, Defers
    <2> QED BY <2>1, <2>2, <2>3 DEF RefusesRightly, Same, Subject
  <1>5. \A w \in Workers : RefusesRightly(w)'
    <2>1. CASE UNCHANGED local
      BY <1>4, <2>1 DEF local, Same
    <2>2. ASSUME NEW w \in Workers, WorkerAction(w)
          PROVE  \A v \in Workers : RefusesRightly(v)'
      BY <1>3, <1>4, <2>2, WorkerStep, RefusedStep DEF OthersStay
    <2> QED BY <2>1, <2>2, WhoActs
  <1> QED BY <1>2, <1>5

(* With no operation in progress, and none given up without the provider's *)
(* word, the ledger shows what the provider shows: crashes, lost answers,  *)
(* resends, stale searches, late settlements and deferred refunds leave    *)
(* the two in agreement, if an authorization and a capture have one        *)
(* operation id each.                                                      *)
THEOREM LedgerAgreesWithProvider ==
    ASSUME OneOperationEach
    PROVE  Spec => []AgreesWhenSettled
  <1>1. Init => SetupInv /\ AgreesWhile
    <2> SUFFICES ASSUME Init PROVE SetupInv /\ AgreeInv
      BY DEF AgreesWhile
    <2>1. SetupInv
      BY DEF Init, SetupInv, Durably
    <2>2. AgreeInv
      BY PassedIs DEF Init, AgreeInv, Level, Mutations
    <2> QED BY <2>1, <2>2
  <1>2. ServiceInv /\ TruthInv /\ SetupInv /\ AgreesWhile /\ [Next]_vars
           => SetupInv' /\ AgreesWhile'
    BY SetupStep, AgreesStep
  <1>3. AgreesWhile => AgreesWhenSettled
    BY DEF AgreesWhile, AgreeInv, Level, AgreesWhenSettled
  <1> QED BY <1>1, <1>2, <1>3, ServiceHolds, TruthHolds, PTL DEF Spec
=============================================================================
