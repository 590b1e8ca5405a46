--------------------------- MODULE FulfillmentHandoff ---------------------------
(***************************************************************************)
(* The asynchronous handoff: an execution leaves a message with its task   *)
(* token on the queue and waits; a consumer heartbeats the token, has the  *)
(* Fulfillment service hand the reservation off, and calls the execution   *)
(* back.  A delivery that fails anywhere is delivered again, up to the     *)
(* queue's receive count, while the invocation it had started may still be *)
(* running; the token may expire at any moment.                            *)
(***************************************************************************)
EXTENDS Fulfillment

CONSTANTS
    Handoffs,    \* the HandoffFulfillment commands sent through the queue
    Consumers,   \* concurrent batches of the worker (maxConcurrency)
    MaxReceives  \* maxReceiveCount of the queue's redrive policy

ASSUME HandoffConstants ==
    /\ Handoffs \subseteq {c \in Commands : c.type = "HandoffFulfillment"}
    /\ "none" \notin Consumers
    /\ MaxReceives \in Nat \ {0}

VARIABLES
    message,   \* of each handoff: "none", "visible", "inflight", "deleted", "dead"
    receives,  \* how often it was received
    token,     \* of each handoff: "none", "open", "succeeded", "failed", "expired"
    at,        \* where each consumer stands
    handles,   \* the handoff it handles
    caller     \* the consumer that waits for each invocation, or "none"

queueVars == <<message, receives, token, at, handles, caller>>
vars == <<serviceVars, queueVars>>

HandoffInit ==
    /\ Init
    /\ message = [h \in Handoffs |-> "none"]
    /\ receives = [h \in Handoffs |-> 0]
    /\ token = [h \in Handoffs |-> "none"]
    /\ at = [q \in Consumers |-> "idle"]
    /\ handles = [q \in Consumers |-> NoCommand]
    /\ caller = [w \in Workers |-> "none"]

(***************************************************************************)
(* The execution: it hands off what it has reserved, and its task ends     *)
(* with the token's answer, a missed heartbeat or the task's timeout.      *)
(***************************************************************************)
SendHandoff(h) ==
    /\ message[h] = "none" /\ status[h.rid] # "NONE" /\ owner[h.rid] = h.owner
    /\ message' = [message EXCEPT ![h] = "visible"]
    /\ token' = [token EXCEPT ![h] = "open"]
    /\ UNCHANGED <<serviceVars, receives, at, handles, caller>>

TokenExpires(h) ==
    /\ token[h] = "open"
    /\ token' = [token EXCEPT ![h] = "expired"]
    /\ UNCHANGED <<serviceVars, message, receives, at, handles, caller>>

(***************************************************************************)
(* The consumer                                                            *)
(***************************************************************************)
Move(q, p) == at' = [at EXCEPT ![q] = p] /\ UNCHANGED handles
Idle(q) ==
    /\ at' = [at EXCEPT ![q] = "idle"]
    /\ handles' = [handles EXCEPT ![q] = NoCommand]

Receive(q, h) ==
    /\ at[q] = "idle" /\ message[h] = "visible"
    /\ message' = [message EXCEPT ![h] = "inflight"]
    /\ receives' = [receives EXCEPT ![h] = @ + 1]
    /\ at' = [at EXCEPT ![q] = "heartbeat"]
    /\ handles' = [handles EXCEPT ![q] = h]
    /\ UNCHANGED <<serviceVars, token, caller>>

Fault_GiveBackForever(q) == message' = [message EXCEPT ![handles[q]] = "visible"]
(* A message reported as failed comes back, and at the last receive it is  *)
(* moved to the dead-letter queue instead.                                 *)
GiveBack(q) ==
    message' = [message EXCEPT ![handles[q]] =
                   IF receives[handles[q]] < MaxReceives THEN "visible" ELSE "dead"]

(* A token that is closed or expired ends the delivery for good.           *)
Heartbeat(q) ==
    /\ at[q] = "heartbeat"
    /\ Move(q, IF token[handles[q]] = "open" THEN "invoke" ELSE "done")
    /\ UNCHANGED <<serviceVars, message, receives, token, caller>>

InvokeService(q, w) ==
    /\ at[q] = "invoke" /\ caller[w] = "none"
    /\ Begin(w, handles[q])
    /\ caller' = [caller EXCEPT ![w] = q]
    /\ Move(q, "waiting")
    /\ UNCHANGED <<message, receives, token>>

Fault_OnlyOwnHandoff(res) == res.status = "HANDED_OFF"
HandedOff(res) == res.status = "HANDED_OFF" \/ res.reservationStatus = "HANDED_OFF"

(* The invocation ends.  Its consumer, if it still waits, goes on with the *)
(* answer, or gives the message back if there is none.                     *)
EndService(w) ==
    /\ End(w)
    /\ caller' = [caller EXCEPT ![w] = "none"]
    /\ \/ /\ caller[w] = "none"
          /\ UNCHANGED <<message, at, handles>>
       \/ /\ caller[w] # "none" /\ pc[w] = "reply"
          /\ Move(caller[w], IF HandedOff(outcome[w]) THEN "succeed" ELSE "fail")
          /\ UNCHANGED message
       \/ /\ caller[w] # "none" /\ pc[w] = "throw"
          /\ Idle(caller[w]) /\ GiveBack(caller[w])
    /\ UNCHANGED <<receives, token>>

(* The execution is called back, unless its token is closed by now; either *)
(* way the delivery is complete.                                           *)
CallBack(q) ==
    /\ at[q] \in {"succeed", "fail"}
    /\ token' = [token EXCEPT ![handles[q]] =
          IF @ # "open" THEN @ ELSE IF at[q] = "succeed" THEN "succeeded" ELSE "failed"]
    /\ Move(q, "done")
    /\ UNCHANGED <<serviceVars, message, receives, caller>>

Delete(q) ==
    /\ at[q] = "done"
    /\ message' = [message EXCEPT ![handles[q]] = "deleted"]
    /\ Idle(q)
    /\ UNCHANGED <<serviceVars, receives, token, caller>>

(* The consumer is killed, times out, or meets an error that is not about  *)
(* the token; an invocation it had started goes on without it.             *)
LoseConsumer(q) ==
    /\ at[q] # "idle" /\ faults < MaxFaults
    /\ faults' = faults + 1
    /\ Idle(q) /\ GiveBack(q)
    /\ caller' = [w \in Workers |-> IF caller[w] = q THEN "none" ELSE caller[w]]
    /\ UNCHANGED <<reservation, ledger, local, receives, token>>

Consume(q) ==
    \/ Heartbeat(q) \/ CallBack(q) \/ Delete(q)
    \/ \E w \in Workers : InvokeService(q, w)

HandoffNext ==
    \/ \E h \in Handoffs : SendHandoff(h) \/ TokenExpires(h)
    \/ \E q \in Consumers : Consume(q) \/ LoseConsumer(q)
    \/ \E q \in Consumers, h \in Handoffs : Receive(q, h)
    \/ \E w \in Workers : EndService(w)
    \/ \E w \in Workers : Step(w) /\ UNCHANGED queueVars
    \/ \E w \in Workers : (TransactConflict(w) \/ Lose(w)) /\ UNCHANGED queueVars
    \/ \E w \in Workers, c \in Commands \ Handoffs : Begin(w, c) /\ UNCHANGED queueVars

HandoffSpec == HandoffInit /\ [][HandoffNext]_vars

(***************************************************************************)
(* Fairness: invocations and consumers that are not lost go on, and the    *)
(* queue delivers a visible message.  Tokens need not expire.              *)
(***************************************************************************)
HandoffFairness ==
    /\ \A w \in Workers :
          WF_vars(Step(w) /\ UNCHANGED queueVars) /\ WF_vars(EndService(w))
    /\ \A q \in Consumers : SF_vars(Consume(q))
    /\ \A h \in Handoffs : SF_vars(\E q \in Consumers : Receive(q, h))
FairHandoffSpec == HandoffSpec /\ HandoffFairness

-----------------------------------------------------------------------------
(***************************************************************************)
(* Properties                                                              *)
(***************************************************************************)
(* The shape of the service's state, the queue's and the consumers'.       *)
TypeOK ==
    /\ ServiceTypeOK
    /\ message \in [Handoffs -> {"none", "visible", "inflight", "deleted", "dead"}]
    /\ receives \in [Handoffs -> 0..MaxReceives]
    /\ token \in [Handoffs -> {"none", "open", "succeeded", "failed", "expired"}]
    /\ at \in [Consumers -> {"idle", "heartbeat", "invoke", "waiting", "succeed",
                             "fail", "done"}]
    /\ \A q \in Consumers :
          IF at[q] = "idle" THEN handles[q] = NoCommand ELSE handles[q] \in Handoffs
    /\ caller \in [Workers -> Consumers \cup {"none"}]
    /\ \A q \in Consumers :
          at[q] = "waiting" <=> \E w \in Workers : caller[w] = q /\ cmd[w] = handles[q]

(* What an execution is told is true and final, whichever delivery and     *)
(* whichever invocation of the handoff the answer came from: success means *)
(* handed off, failure means cancelled.                                    *)
CallbackIsTrue ==
    \A h \in Handoffs :
        /\ token[h] = "succeeded" => status[h.rid] = "HANDED_OFF"
        /\ token[h] = "failed" => status[h.rid] = "CANCELLED"

(* A handoff that was begun is decided, however its delivery or its        *)
(* invocation is lost: the redelivery carries on from the ledger, unless   *)
(* the execution has given up.  The queue gives up only when every         *)
(* delivery was lost to a fault of its own.                                *)
BegunHandoffIsDecided ==
    \A h \in Handoffs :
        (opState[h.op] = "IN_PROGRESS" /\ payload[h.op] = h)
            ~> \/ Recorded(h.op) \/ token[h] = "expired"
               \/ message[h] = "dead" /\ faults >= MaxReceives
=============================================================================
