------------------------------ MODULE Fulfillment ------------------------------
(***************************************************************************)
(* The Fulfillment service: its command repository over one DynamoDB table *)
(* (reservations and the operation ledger) and one outbox table.           *)
(*                                                                         *)
(* A worker is one Lambda invocation and an action one DynamoDB request    *)
(* with the computation after its answer, as in Inventory; but a failure   *)
(* plan may refuse a command before it is tried, and a refused transaction *)
(* whose cause is not a finished reservation is an error, not an answer.   *)
(***************************************************************************)
EXTENDS Naturals

CONSTANTS
    Reservations,   \* reservationId values
    Owners,         \* a checkoutId with its correlationId
    Commands,       \* the commands callers may send, retries included
    Workers,        \* concurrent invocations
    Plan,           \* <<rid, type>> pairs a failure plan may reject
    MaxFaults       \* bound on lost invocations and transaction conflicts

Types == {"ReserveFulfillment", "CancelFulfillment", "HandoffFulfillment",
          "RetrieveFulfillment"}
Ops == {c.op : c \in {d \in Commands : d.type # "RetrieveFulfillment"}}
OpIds == {c.op : c \in Commands}
CommandRecord ==
    [op : OpIds, type : Types, rid : Reservations, owner : Owners]

ASSUME FulfillmentConstants ==
    /\ Commands \subseteq CommandRecord
    /\ Plan \subseteq Reservations \X Types
    /\ "NONE" \notin Owners
    /\ MaxFaults \in Nat

Final == {"CANCELLED", "HANDED_OFF"}
Statuses == {"NONE", "RESERVED"} \cup Final
Outcome(s, held) == [status |-> s, reservationStatus |-> held]
Outcomes ==
    [status : Statuses \cup {"CAPACITY_UNAVAILABLE", "RESERVATION_NOT_ACTIVE"},
     reservationStatus : Statuses]
NoOutcome == Outcome("NONE", "NONE")
NotActive(held) == Outcome("RESERVATION_NOT_ACTIVE", held)

VARIABLES
    status,     \* reservation status, "NONE" while the record does not exist
    owner,      \* the checkout and correlation the reservation record names
    opState,    \* the OPERATION record of each operation id: its state,
    payload,    \* the command whose hash it holds
    result,     \* and the recorded outcome
    facts,      \* number of outbox events written, per reservation and status
    pc,         \* where each worker's invocation stands,
    cmd,        \* the command it executes
    outcome,    \* and the outcome it is about to record or return
    faults      \* faults so far

ledger == <<opState, payload, result>>
reservation == <<status, owner, facts>>
local == <<pc, cmd, outcome>>
serviceVars == <<reservation, ledger, local, faults>>

NoCommand == [type |-> "NONE"]

Init ==
    /\ status = [r \in Reservations |-> "NONE"]
    /\ owner = [r \in Reservations |-> "NONE"]
    /\ opState = [o \in Ops |-> "ABSENT"]
    /\ payload = [o \in Ops |-> NoCommand]
    /\ result = [o \in Ops |-> NoOutcome]
    /\ facts = [r \in Reservations |-> [s \in {"RESERVED"} \cup Final |-> 0]]
    /\ pc = [w \in Workers |-> "idle"]
    /\ cmd = [w \in Workers |-> NoCommand]
    /\ outcome = [w \in Workers |-> NoOutcome]
    /\ faults = 0

(***************************************************************************)
(* Ledger and invocations                                                  *)
(***************************************************************************)
Recorded(o) == opState[o] \in {"SUCCEEDED", "FAILED"}
InProgressFor(c) == opState[c.op] = "IN_PROGRESS" /\ payload[c.op] = c

Complete(c, state, res) ==
    /\ opState' = [opState EXCEPT ![c.op] = state]
    /\ result' = [result EXCEPT ![c.op] = res]
    /\ UNCHANGED payload

Goto(w, p) == pc' = [pc EXCEPT ![w] = p] /\ UNCHANGED <<cmd, outcome>>
GotoWith(w, p, res) ==
    /\ pc' = [pc EXCEPT ![w] = p] /\ outcome' = [outcome EXCEPT ![w] = res]
    /\ UNCHANGED cmd
Reply(w, res) == GotoWith(w, "reply", res)
Throw(w) == Goto(w, "throw")

Begin(w, c) ==
    /\ pc[w] = "idle"
    /\ pc' = [pc EXCEPT ![w] = IF c.type = "RetrieveFulfillment" THEN "retrieve" ELSE "lookup"]
    /\ cmd' = [cmd EXCEPT ![w] = c]
    /\ UNCHANGED <<outcome, reservation, ledger, faults>>

(* The invocation is over, with an answer or with an exception.            *)
End(w) ==
    /\ pc[w] \in {"reply", "throw"}
    /\ pc' = [pc EXCEPT ![w] = "idle"] /\ cmd' = [cmd EXCEPT ![w] = NoCommand]
    /\ outcome' = [outcome EXCEPT ![w] = NoOutcome]
    /\ UNCHANGED <<reservation, ledger, faults>>

(* A retrieval has no ledger entry: it reads the reservation and answers.  *)
Owns(c) == status[c.rid] # "NONE" /\ owner[c.rid] = c.owner
RetrieveReservation(w) ==
    /\ pc[w] = "retrieve"
    /\ LET c == cmd[w] IN
       Reply(w, IF Owns(c) THEN Outcome(status[c.rid], "NONE") ELSE NotActive("NONE"))
    /\ UNCHANGED <<reservation, ledger, faults>>

(* An entry of another payload is refused, a recorded outcome is replayed, *)
(* an entry in progress is carried on.                                     *)
Fault_RefuseInProgress(w) ==
    /\ pc[w] = "lookup"
    /\ LET c == cmd[w] IN
       \/ opState[c.op] = "ABSENT" /\ Goto(w, "put")
       \/ opState[c.op] # "ABSENT" /\ ~(Recorded(c.op) /\ payload[c.op] = c) /\ Throw(w)
       \/ Recorded(c.op) /\ payload[c.op] = c /\ Reply(w, result[c.op])
    /\ UNCHANGED <<reservation, ledger, faults>>
LookupOperation(w) ==
    /\ pc[w] = "lookup"
    /\ LET c == cmd[w] IN
       \/ opState[c.op] = "ABSENT" /\ Goto(w, "put")
       \/ opState[c.op] # "ABSENT" /\ payload[c.op] # c /\ Throw(w)
       \/ InProgressFor(c) /\ Goto(w, "plan")
       \/ Recorded(c.op) /\ payload[c.op] = c /\ Reply(w, result[c.op])
    /\ UNCHANGED <<reservation, ledger, faults>>

(* Put IN_PROGRESS if absent; the loser of that race reads the entry.      *)
PutOperation(w) ==
    /\ pc[w] = "put"
    /\ LET c == cmd[w] IN
       \/ /\ opState[c.op] = "ABSENT"
          /\ opState' = [opState EXCEPT ![c.op] = "IN_PROGRESS"]
          /\ payload' = [payload EXCEPT ![c.op] = c]
          /\ Goto(w, "plan")
       \/ /\ opState[c.op] # "ABSENT"
          /\ Goto(w, "lookup")
          /\ UNCHANGED <<opState, payload>>
    /\ UNCHANGED <<reservation, result, faults>>

(* A planned rejection refuses a reserve or a cancel; a handoff goes on in *)
(* spite of it.  The plan may be written or removed at any time, but one   *)
(* for a cancel is only written for a reservation that exists.             *)
PlannedOutcome(c) ==
    IF c.type = "ReserveFulfillment" THEN Outcome("CAPACITY_UNAVAILABLE", "NONE")
                                     ELSE NotActive("RESERVED")

ReadPlan(w) ==
    /\ pc[w] = "plan"
    /\ LET c == cmd[w] IN
       \/ Goto(w, "transact")
       \/ /\ <<c.rid, c.type>> \in Plan /\ c.type # "HandoffFulfillment"
          /\ c.type = "CancelFulfillment" => status[c.rid] # "NONE"
          /\ GotoWith(w, "fail", PlannedOutcome(c))
    /\ UNCHANGED <<reservation, ledger, faults>>

(***************************************************************************)
(* The transaction                                                         *)
(***************************************************************************)
Target(c) ==
    CASE c.type = "ReserveFulfillment" -> "RESERVED"
      [] c.type = "CancelFulfillment" -> "CANCELLED"
      [] OTHER -> "HANDED_OFF"

Fault_FinishAnyStatus(c) ==
    IF c.type = "ReserveFulfillment" THEN status[c.rid] = "NONE" ELSE Owns(c)
Condition(c) ==
    IF c.type = "ReserveFulfillment" THEN status[c.rid] = "NONE"
    ELSE status[c.rid] = "RESERVED" /\ owner[c.rid] = c.owner

Transact(w) ==
    /\ pc[w] = "transact"
    /\ LET c == cmd[w] IN
       \/ /\ Condition(c) /\ InProgressFor(c)
          /\ status' = [status EXCEPT ![c.rid] = Target(c)]
          /\ owner' = [owner EXCEPT ![c.rid] = c.owner]
          /\ facts' = [facts EXCEPT ![c.rid][Target(c)] = @ + 1]
          /\ Complete(c, "SUCCEEDED", Outcome(Target(c), "NONE"))
          /\ Reply(w, Outcome(Target(c), "NONE"))
       \/ /\ ~(Condition(c) /\ InProgressFor(c))
          /\ Goto(w, "refused")
          /\ UNCHANGED <<reservation, ledger>>
    /\ UNCHANGED faults

(* A conflict cancels the transaction although its conditions hold.        *)
TransactConflict(w) ==
    /\ pc[w] = "transact" /\ faults < MaxFaults
    /\ faults' = faults + 1
    /\ Goto(w, "cancelled")
    /\ UNCHANGED <<reservation, ledger>>

(* The entry may have been completed by another invocation of the same     *)
(* operation; otherwise only a refusal is diagnosed, and never a reserve's.*)
RereadAfterCancel(w) ==
    /\ pc[w] \in {"refused", "cancelled"}
    /\ LET c == cmd[w]
           diagnosable == pc[w] = "refused" /\ c.type # "ReserveFulfillment" IN
       \/ Recorded(c.op) /\ Reply(w, result[c.op])
       \/ ~Recorded(c.op) /\ diagnosable /\ Goto(w, "diagnose")
       \/ ~Recorded(c.op) /\ ~diagnosable /\ Throw(w)
    /\ UNCHANGED <<reservation, ledger, faults>>

Diagnose(w) ==
    /\ pc[w] = "diagnose"
    /\ LET held == status[cmd[w].rid] IN
       \/ held \in Final /\ GotoWith(w, "fail", NotActive(held))
       \/ held \notin Final /\ Throw(w)
    /\ UNCHANGED <<reservation, ledger, faults>>

(* The failure is recorded only while the operation is in progress;        *)
(* otherwise the outcome another invocation recorded is the answer.        *)
RecordFailure(w) ==
    /\ pc[w] = "fail"
    /\ LET c == cmd[w] IN
       \/ /\ InProgressFor(c)
          /\ Complete(c, "FAILED", outcome[w])
          /\ Goto(w, "reply")
       \/ ~InProgressFor(c) /\ Goto(w, "superseded") /\ UNCHANGED ledger
    /\ UNCHANGED <<reservation, faults>>

RereadAfterFailure(w) ==
    /\ pc[w] = "superseded"
    /\ LET c == cmd[w] IN
       IF Recorded(c.op) /\ payload[c.op] = c THEN Reply(w, result[c.op]) ELSE Throw(w)
    /\ UNCHANGED <<reservation, ledger, faults>>

(* A failed request, or an invocation that is killed or times out.         *)
Lose(w) ==
    /\ pc[w] \notin {"idle", "throw"} /\ faults < MaxFaults
    /\ faults' = faults + 1
    /\ Throw(w)
    /\ UNCHANGED <<reservation, ledger>>

Step(w) ==
    \/ RetrieveReservation(w) \/ LookupOperation(w) \/ PutOperation(w) \/ ReadPlan(w)
    \/ Transact(w) \/ RereadAfterCancel(w) \/ Diagnose(w)
    \/ RecordFailure(w) \/ RereadAfterFailure(w)

Next ==
    \E w \in Workers :
        \/ \E c \in Commands : Begin(w, c)
        \/ Step(w) \/ TransactConflict(w) \/ Lose(w) \/ End(w)

Spec == Init /\ [][Next]_serviceVars

-----------------------------------------------------------------------------
(***************************************************************************)
(* Properties                                                              *)
(***************************************************************************)
Points == {"idle", "retrieve", "lookup", "put", "plan", "transact", "refused",
           "cancelled", "diagnose", "fail", "superseded", "reply", "throw"}

(* The shape of the service's records and of its workers.                  *)
ServiceTypeOK ==
    /\ status \in [Reservations -> Statuses]
    /\ owner \in [Reservations -> Owners \cup {"NONE"}]
    /\ \A r \in Reservations : status[r] = "NONE" <=> owner[r] = "NONE"
    /\ opState \in [Ops -> {"ABSENT", "IN_PROGRESS", "SUCCEEDED", "FAILED"}]
    /\ payload \in [Ops -> CommandRecord \cup {NoCommand}]
    /\ \A o \in Ops : opState[o] = "ABSENT" <=> payload[o] = NoCommand
    /\ result \in [Ops -> Outcomes]
    /\ facts \in [Reservations -> [{"RESERVED"} \cup Final -> Nat]]
    /\ pc \in [Workers -> Points]
    /\ cmd \in [Workers -> CommandRecord \cup {NoCommand}]
    /\ \A w \in Workers : pc[w] = "idle" <=> cmd[w] = NoCommand
    /\ outcome \in [Workers -> Outcomes]
    /\ faults \in Nat

(* The service implements ReservationLedger: an operation is decided once, *)
(* by the one transaction or failure record that completes it.             *)
RecordOf(o) ==
    [rid |-> IF Recorded(o) THEN payload[o].rid ELSE "NONE",
     won |-> opState[o] = "SUCCEEDED",
     names |-> CASE opState[o] = "SUCCEEDED" -> result[o].status
                 [] opState[o] = "FAILED" -> result[o].reservationStatus
                 [] OTHER -> "NONE"]

Promise == INSTANCE ReservationLedger
    WITH Finals <- Final, published <- facts,
         record <- [o \in Ops |-> RecordOf(o)]

(* Reserve, cancel and handoff of one reservation, however their requests, *)
(* retries and losses interleave: handed off or cancelled, never both; one *)
(* fact per move; a record that never changes, and a refusal that names a  *)
(* status the reservation had.                                             *)
ImplementsLedger == Promise!Spec
=============================================================================
