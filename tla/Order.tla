-------------------------------- MODULE Order --------------------------------
(***************************************************************************)
(* The Order service for one order: the repository behind its commands     *)
(* (the order, its operation ledger and its outbox) and the consumer that  *)
(* expires the order when Inventory releases the reservation.              *)
(*                                                                         *)
(* A worker is one invocation; an action is one DynamoDB request and what  *)
(* follows its answer.  The workflow, its retries, an operator's replay    *)
(* and the consumer's redeliveries all ask for transitions of one order.   *)
(***************************************************************************)
EXTENDS Integers, FiniteSets

CONSTANTS
    Commands,      \* the commands of the workflow and of its replays
    Expiries,      \* MarkOrderExpired, as the consumer sends it per event
    Workers,       \* concurrent invocations
    Correlations,  \* correlationId values
    MaxFaults      \* bound on losses and conflicts

Statuses == {"PENDING", "COMPENSATING", "RECONCILIATION_REQUIRED",
             "INVENTORY_UNAVAILABLE", "EXPIRED", "CANCELLED", "CONFIRMED"}
Final == {"INVENTORY_UNAVAILABLE", "EXPIRED", "CANCELLED", "CONFIRMED"}

(* A command is named by the status it asks for; PENDING creates the order *)
Sent == Commands \cup Expiries
Ops == {c.op : c \in Sent}
CommandRecord == [op : Ops, target : Statuses, correlation : Correlations]

NoOp == "none"
NoCommand == [op |-> NoOp, target |-> "NONE"]

ASSUME OrderConstants ==
    /\ Sent \subseteq CommandRecord
    /\ \A c \in Expiries : c.target = "EXPIRED"
    /\ IsFiniteSet(Ops) /\ NoOp \notin Ops
    /\ MaxFaults \in Nat

VARIABLES
    status,       \* the order's status, "NONE" while it does not exist
    correlation,  \* and its correlationId
    recorded,     \* the command each OPERATION record holds the hash of
    facts,        \* outbox events written, per status
    pc, cmd,      \* each worker's point in its invocation and its command
    faults

order == <<status, correlation, recorded, facts>>
vars == <<order, pc, cmd, faults>>

NoCorrelation == "none"

Init ==
    /\ status = "NONE" /\ correlation = NoCorrelation
    /\ recorded = [o \in Ops |-> NoCommand]
    /\ facts = [s \in Statuses |-> 0]
    /\ pc = [w \in Workers |-> "idle"]
    /\ cmd = [w \in Workers |-> NoCommand]
    /\ faults = 0

Goto(w, p) == pc' = [pc EXCEPT ![w] = p] /\ UNCHANGED cmd
Start(w, p, c) == pc' = [pc EXCEPT ![w] = p] /\ cmd' = [cmd EXCEPT ![w] = c]
End(w) == Start(w, "idle", NoCommand)
Throw(w) == End(w)

Invoke(w, c) ==
    /\ pc[w] = "idle"
    /\ Start(w, IF c.target = "PENDING" THEN "create" ELSE "lookup", c)
    /\ UNCHANGED <<order, faults>>

(* The consumer passes on the expiry of a reservation, as often as the     *)
(* event is delivered; the operation id is the event's.                    *)
Deliver(w, c) ==
    /\ pc[w] = "idle"
    /\ Start(w, "lookup", c)
    /\ UNCHANGED <<order, faults>>

Return(w) ==
    /\ pc[w] = "reply" /\ End(w)
    /\ UNCHANGED <<order, faults>>

(* A killed or timed-out invocation, a failed request, a lost reply.       *)
Lose(w) ==
    /\ pc[w] # "idle" /\ faults < MaxFaults
    /\ faults' = faults + 1 /\ Throw(w)
    /\ UNCHANGED order

(***************************************************************************)
(* Creation: put the order and its fact unless the order exists            *)
(***************************************************************************)
Fault_PutWithoutCorrelation(c) == status' = "PENDING" /\ UNCHANGED correlation
PutOrder(c) == status' = "PENDING" /\ correlation' = c.correlation

Create(w) ==
    /\ pc[w] = "create"
    /\ \/ /\ status = "NONE"
          /\ PutOrder(cmd[w])
          /\ facts' = [facts EXCEPT !["PENDING"] = @ + 1]
          /\ Goto(w, "reply")
       \/ /\ status # "NONE"
          /\ Goto(w, "identify")
          /\ UNCHANGED <<status, correlation, facts>>
    /\ UNCHANGED <<recorded, faults>>

(* A repeated creation answers PENDING whatever became of the order since. *)
Identify(w) ==
    /\ pc[w] = "identify"
    /\ IF correlation = cmd[w].correlation THEN Goto(w, "reply") ELSE Throw(w)
    /\ UNCHANGED <<order, faults>>

(***************************************************************************)
(* Transitions                                                             *)
(***************************************************************************)
Fault_OnlyCompensating(target) == {"COMPENSATING", "RECONCILIATION_REQUIRED"}
Required(target) ==
    CASE target = "CONFIRMED" -> {"PENDING", "RECONCILIATION_REQUIRED"}
      [] target = "CANCELLED" -> {"COMPENSATING", "RECONCILIATION_REQUIRED"}
      [] target = "RECONCILIATION_REQUIRED" -> {"PENDING", "COMPENSATING"}
      [] OTHER -> {"PENDING"}

Absent(o) == recorded[o] = NoCommand
Record(c) == [recorded EXCEPT ![c.op] = c]

(* The recorded outcome of a known operation, if it is the same command.   *)
Recall(w) ==
    IF recorded[cmd[w].op] = cmd[w] THEN Goto(w, "reply") ELSE Throw(w)

LookupOperation(w) ==
    /\ pc[w] = "lookup"
    /\ \/ Absent(cmd[w].op) /\ Goto(w, "transact")
       \/ ~Absent(cmd[w].op) /\ Recall(w)
    /\ UNCHANGED <<order, faults>>

Fault_FromAnyStatus(c) == correlation = c.correlation
TransitionCondition(c) ==
    /\ status \in Required(c.target)
    /\ correlation = c.correlation

Fault_RepeatFact(c) == TransitionCondition(c) \/ status = c.target
TransactCondition(c) == TransitionCondition(c) /\ Absent(c.op)

(* The order, the operation and the fact change together.                  *)
Transact(w) ==
    /\ pc[w] = "transact"
    /\ LET c == cmd[w] IN
       \/ /\ TransactCondition(c)
          /\ status' = c.target
          /\ recorded' = Record(c)
          /\ facts' = [facts EXCEPT ![c.target] = @ + 1]
          /\ Goto(w, "reply")
       \/ /\ ~TransactCondition(c)
          /\ Goto(w, "refused")
          /\ UNCHANGED <<status, recorded, facts>>
    /\ UNCHANGED <<correlation, faults>>

(* A conflicting request cancels a transaction whatever its conditions.    *)
TransactConflict(w) ==
    /\ faults < MaxFaults /\ faults' = faults + 1
    /\ \/ pc[w] = "create" /\ Throw(w)
       \/ pc[w] = "transact" /\ Goto(w, "conflicted")
    /\ UNCHANGED order

(* Another attempt may have recorded the operation meanwhile.              *)
RereadOperation(w) ==
    /\ pc[w] \in {"refused", "conflicted"}
    /\ LET o == cmd[w].op IN
       \/ ~Absent(o) /\ Recall(w)
       \/ Absent(o) /\ pc[w] = "refused" /\ Goto(w, "check")
       \/ Absent(o) /\ pc[w] = "conflicted" /\ Throw(w)
    /\ UNCHANGED <<order, faults>>

Reached(c) == status = c.target /\ correlation = c.correlation

(* An order that is already where the command wants it is a success.       *)
CheckStatus(w) ==
    /\ pc[w] = "check"
    /\ IF Reached(cmd[w]) THEN Goto(w, "record") ELSE Throw(w)
    /\ UNCHANGED <<order, faults>>

RecordOperation(w) ==
    /\ pc[w] = "record"
    /\ LET c == cmd[w] IN
       \/ Absent(c.op) /\ recorded' = Record(c) /\ Goto(w, "reply")
       \/ ~Absent(c.op) /\ Goto(w, "recall") /\ UNCHANGED recorded
    /\ UNCHANGED <<status, correlation, facts, faults>>

RecallOperation(w) ==
    /\ pc[w] = "recall" /\ Recall(w)
    /\ UNCHANGED <<order, faults>>

Step(w) ==
    \/ Create(w) \/ Identify(w)
    \/ LookupOperation(w) \/ Transact(w) \/ RereadOperation(w)
    \/ CheckStatus(w) \/ RecordOperation(w) \/ RecallOperation(w)
    \/ Return(w)

Next ==
    \/ \E w \in Workers, c \in Commands : Invoke(w, c)
    \/ \E w \in Workers, c \in Expiries : Deliver(w, c)
    \/ \E w \in Workers : Step(w) \/ Lose(w) \/ TransactConflict(w)

Spec == Init /\ [][Next]_vars

(* Invocations run on; an event whose consumer failed is delivered again.  *)
Fairness ==
    /\ \A w \in Workers : WF_vars(Step(w))
    /\ \A c \in Expiries : SF_vars(\E w \in Workers : Deliver(w, c))
FairSpec == Spec /\ Fairness

-----------------------------------------------------------------------------
(***************************************************************************)
(* Properties                                                              *)
(***************************************************************************)
Points == {"idle", "create", "identify", "lookup", "transact", "refused",
           "conflicted", "check", "record", "recall", "reply"}

(* The shape of the order, of its ledger and of every worker. *)
TypeOK ==
    /\ status \in Statuses \cup {"NONE"}
    /\ correlation \in Correlations \cup {NoCorrelation}
    /\ status # "NONE" => correlation \in Correlations
    /\ recorded \in [Ops -> CommandRecord \cup {NoCommand}]
    /\ \A o \in Ops : ~Absent(o) => recorded[o].op = o
    /\ facts \in [Statuses -> Nat]
    /\ pc \in [Workers -> Points]
    /\ cmd \in [Workers -> CommandRecord \cup {NoCommand}]
    /\ \A w \in Workers : pc[w] # "idle" => cmd[w] \in CommandRecord
    /\ faults \in Nat

(* The outbox tells the whole history: every status the order shows was    *)
(* announced, none twice however often its command ran, a final one last;  *)
(* and an operation on record names a status the order really entered,     *)
(* under the correlation of its command.                                   *)
HistoryIsPublished ==
    /\ status # "NONE" => facts[status] = 1 /\ facts["PENDING"] = 1
    /\ \A s \in Statuses : facts[s] <= 1
    /\ \A s \in Final : facts[s] = 1 => status = s
    /\ \A o \in Ops :
          ~Absent(o) =>
              facts[recorded[o].target] = 1 /\ correlation = recorded[o].correlation

(* A record is never rewritten, and a final status never left.             *)
SettledForever ==
    [][/\ \A o \in Ops : ~Absent(o) => recorded'[o] = recorded[o]
       /\ status \in Final => status' = status]_vars

(* The expiry of its reservation frees an order that nothing else moved.   *)
ExpiryRepairsPending ==
    \A c \in Expiries :
        status = "PENDING" /\ correlation = c.correlation ~> status # "PENDING"
=============================================================================
