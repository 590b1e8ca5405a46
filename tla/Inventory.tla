------------------------------ MODULE Inventory ------------------------------
(***************************************************************************)
(* The Inventory service: the command repository over one DynamoDB table   *)
(* (stock, reservations, the operation ledger) and one outbox table, and   *)
(* the scheduled expiry reconciler that shares it.                         *)
(*                                                                         *)
(* A worker is one Lambda invocation.  Every action is one DynamoDB        *)
(* request together with the local computation that follows its answer, so *)
(* the interleavings of the model are those of concurrent invocations: a   *)
(* caller's retry runs beside the invocation it gave up on, and a worker   *)
(* may stop between any two requests.  Conditional writes and              *)
(* transactions are atomic and reads are consistent, except the query on   *)
(* the expiry index, which may answer from the past.                       *)
(***************************************************************************)
EXTENDS Integers, FiniteSets

CONSTANTS
    Items,            \* itemId values
    Reservations,     \* reservationId values
    Checkouts,        \* checkoutId values
    Commands,         \* the commands callers may send, retries included
    Workers,          \* concurrent invocations
    Sweepers,         \* the workers that run the expiry schedule
    InitialQuantity,  \* INVENTORY_INITIAL_QUANTITY
    SweepLimit,       \* most reservations one sweep examines
    MaxClock,         \* bound on the clock
    MaxFaults         \* bound on lost invocations and transaction conflicts

NoStock == -1         \* the STOCK record of the item does not exist yet

(***************************************************************************)
(* Operation ids are pairs <<verb, id>>: the state machine formats them    *)
(* from a fixed verb and the checkout, the reconciler from a reservation.  *)
(***************************************************************************)
SweepOp(r) == <<"expire-sweep", r>>
Ops == {c.op : c \in Commands} \cup {SweepOp(r) : r \in Reservations}

Reasons == {"NONE", "COMPENSATION", "CHECKOUT_EXPIRED"}
Types == {"ReserveInventory", "CommitInventory", "ReleaseInventory"}

CommandRecord ==
    [op : Ops, type : Types, checkout : Checkouts, rid : Reservations,
     item : Items, quantity : Nat, expiresAt : Nat, reason : Reasons]

ASSUME InventoryConstants ==
    /\ InitialQuantity \in Nat \ {0}
    /\ SweepLimit \in Nat \ {0}
    /\ MaxClock \in Nat /\ MaxFaults \in Nat
    /\ Commands \subseteq CommandRecord
    /\ IsFiniteSet(Reservations)
    /\ Sweepers \subseteq Workers
    /\ NoStock \notin Nat

Statuses == {"NONE", "RESERVED", "COMMITTED", "RELEASED"}
OutcomeStatuses ==
    {"RESERVED", "COMMITTED", "RELEASED", "OUT_OF_STOCK", "RESERVATION_NOT_ACTIVE"}
Outcome(s, held) == [status |-> s, reservationStatus |-> held]
Outcomes == [status : OutcomeStatuses, reservationStatus : Statuses]
NoOutcome == [status |-> "NONE", reservationStatus |-> "NONE"]

FactKinds == {"RESERVED", "COMMITTED", "COMPENSATION", "CHECKOUT_EXPIRED"}

VARIABLES
    clock,      \* the time every invocation reads
    stock,      \* availableQuantity per item, or NoStock
    status,     \* reservation status, "NONE" while the record does not exist
    origin,     \* the ReserveInventory command that wrote the record
    opState,    \* the OPERATION record of each operation id: its state,
    payload,    \* the command whose hash it holds
    result,     \* and the recorded outcome
    facts,      \* number of outbox events written, per reservation and kind
    pc,         \* where each worker's invocation stands,
    cmd,        \* the command it executes,
    now,        \* the time it read
    outcome,    \* and the outcome it is about to record or return
    due,        \* reservations each running sweep has still to release
    faults      \* faults so far

ledger == <<opState, payload, result>>
store == <<stock, status, origin, ledger, facts>>
local == <<pc, cmd, now, outcome>>
vars == <<clock, store, local, due, faults>>

NoCommand == [type |-> "NONE"]
MaybeCommand == CommandRecord \cup {NoCommand}

Init ==
    /\ clock = 0
    /\ stock = [i \in Items |-> NoStock]
    /\ status = [r \in Reservations |-> "NONE"]
    /\ origin = [r \in Reservations |-> NoCommand]
    /\ opState = [o \in Ops |-> "ABSENT"]
    /\ payload = [o \in Ops |-> NoCommand]
    /\ result = [o \in Ops |-> NoOutcome]
    /\ facts = [r \in Reservations |-> [k \in FactKinds |-> 0]]
    /\ pc = [w \in Workers |-> "idle"]
    /\ cmd = [w \in Workers |-> NoCommand]
    /\ now = [w \in Workers |-> 0]
    /\ outcome = [w \in Workers |-> NoOutcome]
    /\ due = [w \in Sweepers |-> {}]
    /\ faults = 0

(***************************************************************************)
(* Ledger                                                                  *)
(***************************************************************************)
Recorded(o) == opState[o] \in {"SUCCEEDED", "FAILED"}
Fault_PayloadOnly(c) == payload[c.op] = c
InProgressFor(c) == opState[c.op] = "IN_PROGRESS" /\ payload[c.op] = c

(* The completion of c's operation, guarded by InProgressFor(c). *)
Complete(c, state, res) ==
    /\ opState' = [opState EXCEPT ![c.op] = state]
    /\ result' = [result EXCEPT ![c.op] = res]
    /\ UNCHANGED payload

(***************************************************************************)
(* Invocations                                                             *)
(***************************************************************************)
Goto(w, p) == pc' = [pc EXCEPT ![w] = p] /\ UNCHANGED <<cmd, now, outcome>>
GotoWith(w, p, res) ==
    /\ pc' = [pc EXCEPT ![w] = p] /\ outcome' = [outcome EXCEPT ![w] = res]
    /\ UNCHANGED <<cmd, now>>
Reply(w, res) == GotoWith(w, "reply", res)

Begin(w, c) ==
    /\ pc' = [pc EXCEPT ![w] = "lookup"] /\ cmd' = [cmd EXCEPT ![w] = c]
    /\ UNCHANGED <<now, outcome>>
End(w) ==
    /\ pc' = [pc EXCEPT ![w] = "idle"] /\ cmd' = [cmd EXCEPT ![w] = NoCommand]
    /\ now' = [now EXCEPT ![w] = 0] /\ outcome' = [outcome EXCEPT ![w] = NoOutcome]

(* An exception ends the invocation; in the reconciler it ends the sweep. *)
AbortSweep(w) == [s \in Sweepers |-> IF s = w THEN {} ELSE due[s]]
Throw(w) == End(w) /\ due' = AbortSweep(w)

Invoke(w, c) ==
    /\ w \notin Sweepers /\ pc[w] = "idle"
    /\ Begin(w, c)
    /\ UNCHANGED <<clock, store, due, faults>>

Entry(c) == IF c.type = "ReserveInventory" THEN "transact" ELSE "read"

(* An entry of another payload is refused, a recorded outcome is replayed. *)
LookupOperation(w) ==
    /\ pc[w] = "lookup"
    /\ LET c == cmd[w] IN
       \/ /\ opState[c.op] = "ABSENT"
          /\ Goto(w, "put") /\ UNCHANGED due
       \/ /\ opState[c.op] # "ABSENT" /\ payload[c.op] # c
          /\ Throw(w)
       \/ /\ InProgressFor(c)
          /\ Goto(w, Entry(c)) /\ UNCHANGED due
       \/ /\ Recorded(c.op) /\ payload[c.op] = c
          /\ Reply(w, result[c.op]) /\ UNCHANGED due
    /\ UNCHANGED <<clock, store, faults>>

(* Put IN_PROGRESS if absent; the loser of that race reads the entry. *)
PutOperation(w) ==
    /\ pc[w] = "put"
    /\ LET c == cmd[w] IN
       \/ /\ opState[c.op] = "ABSENT"
          /\ opState' = [opState EXCEPT ![c.op] = "IN_PROGRESS"]
          /\ payload' = [payload EXCEPT ![c.op] = c]
          /\ Goto(w, Entry(c))
       \/ /\ opState[c.op] # "ABSENT"
          /\ Goto(w, "lookup")
          /\ UNCHANGED <<opState, payload>>
    /\ UNCHANGED <<clock, stock, status, origin, result, facts, due, faults>>

(***************************************************************************)
(* ReserveInventory                                                        *)
(***************************************************************************)
Covers(available, c) ==
    \/ available = NoStock /\ InitialQuantity >= c.quantity
    \/ available # NoStock /\ available >= c.quantity

Fault_NoInitialStock(available, c) == available - c.quantity
Debited(available, c) ==
    (IF available = NoStock THEN InitialQuantity ELSE available) - c.quantity

(* A cancelled transaction is a business failure when a condition of the   *)
(* domain failed, and no item of it met a conflict.                        *)
Fault_EveryCancelIsBusiness(w, business) == Goto(w, "refused")
Cancel(w, business) == Goto(w, IF business THEN "refused" ELSE "cancelled")

ReserveCondition(c) == Covers(stock[c.item], c) /\ status[c.rid] = "NONE"

(* The four writes of the transaction. *)
WriteReserve(c) ==
    /\ stock' = [stock EXCEPT ![c.item] = Debited(stock[c.item], c)]
    /\ status' = [status EXCEPT ![c.rid] = "RESERVED"]
    /\ origin' = [origin EXCEPT ![c.rid] = c]
    /\ facts' = [facts EXCEPT ![c.rid]["RESERVED"] = @ + 1]
    /\ Complete(c, "SUCCEEDED", Outcome("RESERVED", "NONE"))

TransactReserve(w) ==
    /\ pc[w] = "transact" /\ cmd[w].type = "ReserveInventory"
    /\ LET c == cmd[w] IN
       \/ /\ ReserveCondition(c) /\ InProgressFor(c)
          /\ WriteReserve(c)
          /\ Reply(w, Outcome("RESERVED", "NONE"))
       \/ /\ ~(ReserveCondition(c) /\ InProgressFor(c))
          /\ Cancel(w, ~ReserveCondition(c))
          /\ UNCHANGED store
    /\ UNCHANGED <<clock, due, faults>>

(***************************************************************************)
(* CommitInventory and ReleaseInventory                                    *)
(***************************************************************************)
Target(c) == IF c.type = "CommitInventory" THEN "COMMITTED" ELSE "RELEASED"
ReleaseReason(c) == IF c.reason = "NONE" THEN "COMPENSATION" ELSE c.reason
ExpiredRelease(c) == c.type = "ReleaseInventory" /\ ReleaseReason(c) = "CHECKOUT_EXPIRED"
FactKind(c) == IF c.type = "CommitInventory" THEN "COMMITTED" ELSE ReleaseReason(c)
NotActive(held) == Outcome("RESERVATION_NOT_ACTIVE", held)

(* The workflow releases as a compensation, whatever id its command has:   *)
(* no caller asks for an expiry under the id of a sweep.                   *)
ASSUME CallersCompensate == \A c \in Commands : c.op = SweepOp(c.rid) => ~ExpiredRelease(c)

Fault_ExpiryBeforeDeadline(c, expiresAt, t) ==
    c.type = "CommitInventory" => expiresAt > t
Fault_ExpiryAfterDeadlineOnly(c, expiresAt, t) ==
    /\ c.type = "CommitInventory" => expiresAt > t
    /\ ExpiredRelease(c) => expiresAt < t

(* A commit needs an open deadline, an expiry a passed one. *)
DeadlineAllows(c, expiresAt, t) ==
    /\ c.type = "CommitInventory" => expiresAt > t
    /\ ExpiredRelease(c) => expiresAt <= t

Owns(c) == status[c.rid] # "NONE" /\ origin[c.rid].checkout = c.checkout

(* The clock is read once, before the reservation; the write uses it again. *)
ReadReservation(w) ==
    /\ pc[w] = "read"
    /\ LET c == cmd[w]
           goto(p, res) == /\ pc' = [pc EXCEPT ![w] = p]
                           /\ now' = [now EXCEPT ![w] = clock]
                           /\ outcome' = [outcome EXCEPT ![w] = res] IN
       \/ /\ ~Owns(c)
          /\ goto("fail", NotActive("NONE"))
       \/ /\ Owns(c) /\ DeadlineAllows(c, origin[c.rid].expiresAt, clock)
          /\ goto("transact", NoOutcome)
       \/ /\ Owns(c) /\ ~DeadlineAllows(c, origin[c.rid].expiresAt, clock)
          /\ goto("fail", NotActive(status[c.rid]))
    /\ UNCHANGED <<clock, store, cmd, due, faults>>

Fault_FinalizeAnyStatus(c, t) == DeadlineAllows(c, origin[c.rid].expiresAt, t)
FinalizeCondition(c, t) ==
    /\ status[c.rid] = "RESERVED"
    /\ DeadlineAllows(c, origin[c.rid].expiresAt, t)

(* A release also returns the units the reservation holds. *)
WriteFinalize(c) ==
    /\ status' = [status EXCEPT ![c.rid] = Target(c)]
    /\ stock' = IF Target(c) = "RELEASED"
                THEN [stock EXCEPT ![origin[c.rid].item] = @ + origin[c.rid].quantity]
                ELSE stock
    /\ facts' = [facts EXCEPT ![c.rid][FactKind(c)] = @ + 1]
    /\ Complete(c, "SUCCEEDED", Outcome(Target(c), "NONE"))
    /\ UNCHANGED origin

TransactFinalize(w) ==
    /\ pc[w] = "transact" /\ cmd[w].type # "ReserveInventory"
    /\ LET c == cmd[w] IN
       \/ /\ FinalizeCondition(c, now[w]) /\ InProgressFor(c)
          /\ WriteFinalize(c)
          /\ Reply(w, Outcome(Target(c), "NONE"))
       \/ /\ ~(FinalizeCondition(c, now[w]) /\ InProgressFor(c))
          /\ Cancel(w, ~FinalizeCondition(c, now[w]))
          /\ UNCHANGED store
    /\ UNCHANGED <<clock, due, faults>>

(***************************************************************************)
(* Cancelled transactions and recorded failures                            *)
(***************************************************************************)
(* A conflicting request cancels the transaction although its conditions   *)
(* hold: the failure is transient.                                         *)
TransactConflict(w) ==
    /\ pc[w] = "transact" /\ faults < MaxFaults
    /\ faults' = faults + 1
    /\ Cancel(w, FALSE)
    /\ UNCHANGED <<clock, store, due>>

(* The entry of a cancelled transaction may have been completed by another *)
(* invocation of the same operation; otherwise only a business failure is  *)
(* diagnosed, a conflict is rethrown.                                      *)
RereadAfterCancel(w) ==
    /\ pc[w] \in {"refused", "cancelled"}
    /\ LET c == cmd[w] IN
       \/ /\ Recorded(c.op)
          /\ Reply(w, result[c.op]) /\ UNCHANGED due
       \/ /\ ~Recorded(c.op) /\ pc[w] = "refused"
          /\ Goto(w, "diagnose") /\ UNCHANGED due
       \/ /\ ~Recorded(c.op) /\ pc[w] = "cancelled"
          /\ Throw(w)
    /\ UNCHANGED <<clock, store, faults>>

Diagnosis(c) ==
    IF c.type = "ReserveInventory" /\ status[c.rid] = "NONE"
    THEN Outcome("OUT_OF_STOCK", "NONE")
    ELSE NotActive(status[c.rid])

Diagnose(w) ==
    /\ pc[w] = "diagnose"
    /\ GotoWith(w, "fail", Diagnosis(cmd[w]))
    /\ UNCHANGED <<clock, store, due, faults>>

(* The failure is recorded only while the operation is still in progress. *)
RecordFailure(w) ==
    /\ pc[w] = "fail"
    /\ LET c == cmd[w] IN
       \/ /\ InProgressFor(c)
          /\ Complete(c, "FAILED", outcome[w])
          /\ Goto(w, "reply")
       \/ /\ ~InProgressFor(c)
          /\ Goto(w, "superseded")
          /\ UNCHANGED ledger
    /\ UNCHANGED <<clock, stock, status, origin, facts, due, faults>>

RereadAfterFailure(w) ==
    /\ pc[w] = "superseded"
    /\ LET c == cmd[w] IN
       IF Recorded(c.op) /\ payload[c.op] = c
       THEN Reply(w, result[c.op]) /\ UNCHANGED due
       ELSE Throw(w)
    /\ UNCHANGED <<clock, store, faults>>

(* The outcome reaches the caller; the reconciler refuses any status other *)
(* than the two a release can have.                                        *)
Return(w) ==
    /\ pc[w] = "reply"
    /\ End(w)
    /\ due' = IF outcome[w].status \in {"RELEASED", "RESERVATION_NOT_ACTIVE"}
              THEN due ELSE AbortSweep(w)
    /\ UNCHANGED <<clock, store, faults>>

(* A throttled or failed request, a timed-out or killed invocation, and a  *)
(* reply that never arrives all end the invocation where it stands.        *)
Lose(w) ==
    /\ pc[w] # "idle" /\ faults < MaxFaults
    /\ faults' = faults + 1
    /\ Throw(w)
    /\ UNCHANGED <<clock, store>>

(***************************************************************************)
(* The expiry reconciler                                                   *)
(***************************************************************************)
Expired(r) == status[r] # "NONE" /\ origin[r].expiresAt <= clock
DueNow == {r \in Reservations : status[r] = "RESERVED" /\ Expired(r)}

(* One scheduled query.  The index answers late, so a reservation that is  *)
(* no longer RESERVED may be listed and one that just became due missed.   *)
StartSweep(w, found) ==
    /\ pc[w] = "idle" /\ due[w] = {}
    /\ found # {} /\ \A r \in found : Expired(r)
    /\ Cardinality(found) <= SweepLimit
    /\ due' = [due EXCEPT ![w] = found]
    /\ UNCHANGED <<clock, store, local, faults>>

SweepCommand(r) ==
    [op |-> SweepOp(r), type |-> "ReleaseInventory", rid |-> r,
     checkout |-> origin[r].checkout, item |-> origin[r].item,
     quantity |-> origin[r].quantity, expiresAt |-> origin[r].expiresAt,
     reason |-> "CHECKOUT_EXPIRED"]

SweepNext(w, r) ==
    /\ pc[w] = "idle" /\ r \in due[w]
    /\ due' = [due EXCEPT ![w] = @ \ {r}]
    /\ Begin(w, SweepCommand(r))
    /\ UNCHANGED <<clock, store, faults>>

Tick ==
    /\ clock < MaxClock
    /\ clock' = clock + 1
    /\ UNCHANGED <<store, local, due, faults>>

Step(w) ==
    \/ LookupOperation(w) \/ PutOperation(w)
    \/ ReadReservation(w)
    \/ TransactReserve(w) \/ TransactFinalize(w)
    \/ RereadAfterCancel(w) \/ Diagnose(w)
    \/ RecordFailure(w) \/ RereadAfterFailure(w)
    \/ Return(w)

Next ==
    \/ \E w \in Workers, c \in Commands : Invoke(w, c)
    \/ \E w \in Workers : Step(w)
    \/ \E w \in Workers : TransactConflict(w) \/ Lose(w)
    \/ \E w \in Sweepers, found \in SUBSET Reservations : StartSweep(w, found)
    \/ \E w \in Sweepers, r \in Reservations : SweepNext(w, r)
    \/ Tick

Spec == Init /\ [][Next]_vars

-----------------------------------------------------------------------------
(***************************************************************************)
(* Properties                                                              *)
(***************************************************************************)
Points == {"idle", "lookup", "put", "read", "transact", "refused", "cancelled",
           "diagnose", "fail", "superseded", "reply"}

LedgerOK ==
    /\ opState \in [Ops -> {"ABSENT", "IN_PROGRESS", "SUCCEEDED", "FAILED"}]
    /\ payload \in [Ops -> MaybeCommand]
    /\ \A o \in Ops : opState[o] # "ABSENT" => payload[o] \in CommandRecord
    /\ result \in [Ops -> Outcomes \cup {NoOutcome}]

ReservationsOK ==
    /\ stock \in [Items -> Nat \cup {NoStock}]
    /\ status \in [Reservations -> Statuses]
    /\ origin \in [Reservations -> MaybeCommand]
    /\ \A r \in Reservations : status[r] # "NONE" => origin[r] \in CommandRecord
    /\ facts \in [Reservations -> [FactKinds -> Nat]]

LocalOK ==
    /\ pc \in [Workers -> Points]
    /\ cmd \in [Workers -> MaybeCommand]
    /\ \A w \in Workers : pc[w] # "idle" => cmd[w] \in CommandRecord
    /\ now \in [Workers -> Nat]
    /\ outcome \in [Workers -> Outcomes \cup {NoOutcome}]

(* The shape of every record the service and its workers keep. *)
TypeOK ==
    /\ clock \in Nat /\ faults \in Nat
    /\ LedgerOK /\ ReservationsOK /\ LocalOK
    /\ due \in [Sweepers -> SUBSET Reservations]

(* A sweep only ever lists reservations that exist. *)
DueExist == \A w \in Sweepers : \A r \in due[w] : status[r] # "NONE"

(* The units of an item that reservations hold or have bought, numbered    *)
(* within each reservation.                                                *)
Taken(r) == status[r] \in {"RESERVED", "COMMITTED"}
TakenUnits(i) ==
    {u \in Reservations \X (1..InitialQuantity) :
        Taken(u[1]) /\ origin[u[1]].item = i /\ u[2] <= origin[u[1]].quantity}

(* No unit is sold twice, lost or invented, whatever invocations race or   *)
(* die: what is available and what reservations took is what the item      *)
(* started with.                                                           *)
StockConserved ==
    \A i \in Items :
        \/ stock[i] = NoStock /\ TakenUnits(i) = {}
        \/ stock[i] # NoStock /\ stock[i] + Cardinality(TakenUnits(i)) = InitialQuantity

(* A release that failed on an existing reservation named the status that  *)
(* beat it, and that status is final: no release, the sweep's one-off      *)
(* operation included, is poisoned while stock is still held.              *)
FailedReleaseNamesTheWinner ==
    \A o \in Ops :
        LET c == payload[o]
            held == result[o].reservationStatus IN
        /\ opState[o] = "FAILED" /\ c.type = "ReleaseInventory" /\ held # "NONE"
        /\ ReleaseReason(c) = "COMPENSATION" \/ o = SweepOp(c.rid)
        => held \in {"COMMITTED", "RELEASED"} /\ status[c.rid] = held

(* An expiry never takes a reservation before its deadline. *)
NoEarlyExpiry ==
    \A r \in Reservations : facts[r]["CHECKOUT_EXPIRED"] > 0 => Expired(r)

(***************************************************************************)
(* Fairness: an invocation that is not lost goes on, the schedule keeps    *)
(* firing and the index catches up, so a due reservation is listed again   *)
(* and again.                                                              *)
(***************************************************************************)
Listed(w, r) == \E found \in SUBSET DueNow : r \in found /\ StartSweep(w, found)
Fairness ==
    /\ \A w \in Workers : WF_vars(Step(w))
    /\ \A w \in Sweepers, r \in Reservations :
          SF_vars(Listed(w, r)) /\ WF_vars(SweepNext(w, r))
FairSpec == Spec /\ Fairness

(* A reservation that is still held at its deadline does not stay held,    *)
(* whoever abandoned it.                                                   *)
DueIsReleased ==
    \A r \in Reservations :
        (status[r] = "RESERVED" /\ Expired(r)) ~> status[r] # "RESERVED"
=============================================================================
