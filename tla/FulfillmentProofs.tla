--------------------------- MODULE FulfillmentProofs ---------------------------
(***************************************************************************)
(* Proofs about the Fulfillment service and its queued handoff, for any    *)
(* reservations, commands, workers, consumers and bounds.                  *)
(***************************************************************************)
EXTENDS FulfillmentHandoff, TLAPS

(* What the handoff's steps are to the service: a step of its own or one   *)
(* it does not see.                                                        *)
ServiceStep == Next \/ UNCHANGED <<reservation, ledger, local>>

LocalOK ==
    /\ pc \in [Workers -> Points]
    /\ cmd \in [Workers -> CommandRecord \cup {NoCommand}]
    /\ \A w \in Workers : pc[w] = "idle" <=> cmd[w] = NoCommand
    /\ outcome \in [Workers -> Outcomes]

LedgerOK ==
    /\ opState \in [Ops -> {"ABSENT", "IN_PROGRESS", "SUCCEEDED", "FAILED"}]
    /\ payload \in [Ops -> CommandRecord \cup {NoCommand}]
    /\ \A o \in Ops : opState[o] = "ABSENT" <=> payload[o] = NoCommand
    /\ result \in [Ops -> Outcomes]

ReservationOK ==
    /\ status \in [Reservations -> Statuses]
    /\ owner \in [Reservations -> Owners \cup {"NONE"}]
    /\ \A r \in Reservations : status[r] = "NONE" <=> owner[r] = "NONE"
    /\ facts \in [Reservations -> [{"RESERVED"} \cup Final -> Nat]]

(* Where a worker must have its operation in the ledger.                   *)
Claimed == {"plan", "transact", "refused", "cancelled", "diagnose", "fail", "superseded"}

(* A worker executes a command that was sent, a retrieval away from the    *)
(* ledger, and has claimed its operation before it acts.                   *)
Honest(w) ==
    /\ pc[w] # "idle" => cmd[w] \in Commands
    /\ pc[w] \in Claimed \cup {"lookup", "put"} => cmd[w].type # "RetrieveFulfillment"
    /\ pc[w] \in Claimed => payload[cmd[w].op] = cmd[w]

(* The ledger holds what was sent under the operation's id.                *)
HonestLedger ==
    \A o \in Ops : opState[o] # "ABSENT" =>
        /\ payload[o] \in Commands /\ payload[o].op = o
        /\ payload[o].type # "RetrieveFulfillment"

ServiceInv ==
    /\ LocalOK /\ LedgerOK /\ ReservationOK
    /\ HonestLedger /\ \A w \in Workers : Honest(w)

LEMMA ServiceInvType == ServiceInv /\ faults \in Nat => ServiceTypeOK
  BY DEF ServiceInv, ServiceTypeOK, LocalOK, LedgerOK, ReservationOK

-----------------------------------------------------------------------------
(***************************************************************************)
(* What the building blocks of the actions preserve                        *)
(***************************************************************************)
LEMMA NoCommandIsNone == NoCommand \notin CommandRecord
  BY DEF NoCommand, CommandRecord, Types

LEMMA ActiveCommand ==
    ASSUME ServiceInv, NEW w \in Workers, pc[w] # "idle"
    PROVE  /\ cmd[w] \in CommandRecord /\ cmd[w] \in Commands
           /\ cmd[w].rid \in Reservations /\ cmd[w].owner \in Owners /\ cmd[w].type \in Types
           /\ pc[w] \in Claimed \cup {"lookup", "put"} => cmd[w].op \in Ops
  BY FulfillmentConstants DEF ServiceInv, Honest, CommandRecord, Ops

LEMMA OutcomeType ==
    ASSUME NEW s \in Statuses \cup {"CAPACITY_UNAVAILABLE", "RESERVATION_NOT_ACTIVE"},
           NEW held \in Statuses
    PROVE  Outcome(s, held) \in Outcomes
  BY DEF Outcome, Outcomes

LEMMA FactIncrement ==
    ASSUME NEW K, facts \in [Reservations -> [K -> Nat]],
           NEW r \in Reservations, NEW k \in K
    PROVE  [facts EXCEPT ![r][k] = @ + 1] \in [Reservations -> [K -> Nat]]
  OBVIOUS

LEMMA GotoType ==
    ASSUME LocalOK, NEW w \in Workers, pc[w] # "idle", NEW p \in Points \ {"idle"}, Goto(w, p)
    PROVE  LocalOK'
  BY DEF LocalOK, Goto

LEMMA GotoWithType ==
    ASSUME LocalOK, NEW w \in Workers, pc[w] # "idle", NEW p \in Points \ {"idle"},
           NEW res \in Outcomes, GotoWith(w, p, res)
    PROVE  LocalOK'
  BY DEF LocalOK, GotoWith

LEMMA BeginType ==
    ASSUME LocalOK, NEW w \in Workers, NEW c \in CommandRecord, Begin(w, c)
    PROVE  LocalOK'
  BY NoCommandIsNone DEF LocalOK, Begin, Points

LEMMA EndType ==
    ASSUME LocalOK, NEW w \in Workers, End(w)
    PROVE  LocalOK'
  BY OutcomeType DEF LocalOK, End, Points, NoOutcome, Statuses

LEMMA CompleteType ==
    ASSUME LedgerOK, NEW c, c.op \in Ops, InProgressFor(c),
           NEW state \in {"SUCCEEDED", "FAILED"}, NEW res \in Outcomes,
           Complete(c, state, res)
    PROVE  LedgerOK'
  BY DEF LedgerOK, Complete, InProgressFor

-----------------------------------------------------------------------------
(***************************************************************************)
(* The service's own invariant                                             *)
(***************************************************************************)
Same(w) == pc'[w] = pc[w] /\ cmd'[w] = cmd[w] /\ outcome'[w] = outcome[w]

(* A worker's action leaves what the others hold alone. *)
LEMMA OthersSame ==
    ASSUME LocalOK, NEW w \in Workers, NEW v \in Workers, v # w,
           \/ \E c \in Commands : Begin(w, c)
           \/ Step(w) \/ TransactConflict(w) \/ Lose(w) \/ End(w)
    PROVE  Same(v)
  <1>1. ASSUME NEW p, NEW res, Goto(w, p) \/ GotoWith(w, p, res) \/ End(w) PROVE Same(v)
    BY <1>1 DEF LocalOK, Same, Goto, GotoWith, End
  <1>2. ASSUME NEW c, Begin(w, c) PROVE Same(v)
    BY <1>2 DEF LocalOK, Same, Begin
  <1> QED
    BY <1>1, <1>2
       DEF Step, RetrieveReservation, LookupOperation, PutOperation, ReadPlan, Transact,
           TransactConflict, RereadAfterCancel, Diagnose, RecordFailure, RereadAfterFailure,
           Lose, Throw, Reply

(* So only its own actions change what a worker holds. *)
LEMMA OwnAction ==
    ASSUME LocalOK, ServiceStep, NEW w \in Workers, ~Same(w)
    PROVE  \/ \E c \in Commands : Begin(w, c)
           \/ Step(w) \/ TransactConflict(w) \/ Lose(w) \/ End(w)
  BY OthersSame DEF ServiceStep, Next, local, Same

(* The writers of the service's tables. *)
LEMMA Writers ==
    ASSUME ServiceInv, ServiceStep, ~ UNCHANGED <<reservation, ledger>>
    PROVE  \E w \in Workers :
              /\ pc[w] # "idle" /\ cmd[w].op \in Ops /\ cmd[w].type # "RetrieveFulfillment"
              /\ \/ PutOperation(w) /\ opState[cmd[w].op] = "ABSENT"
                 \/ Transact(w) /\ Condition(cmd[w]) /\ InProgressFor(cmd[w])
                 \/ RecordFailure(w) /\ InProgressFor(cmd[w])
  <1>1. \E w \in Workers :
              \/ PutOperation(w) /\ opState[cmd[w].op] = "ABSENT"
              \/ Transact(w) /\ Condition(cmd[w]) /\ InProgressFor(cmd[w])
              \/ RecordFailure(w) /\ InProgressFor(cmd[w])
    BY DEF ServiceStep, Next, Step, Begin, End, RetrieveReservation, LookupOperation, PutOperation,
           ReadPlan, Transact, TransactConflict, RereadAfterCancel, Diagnose, RecordFailure,
           RereadAfterFailure, Lose, ledger, reservation
  <1>2. ASSUME NEW w \in Workers, PutOperation(w) \/ Transact(w) \/ RecordFailure(w)
        PROVE  pc[w] # "idle" /\ cmd[w].op \in Ops /\ cmd[w].type # "RetrieveFulfillment"
    BY <1>2, ActiveCommand
       DEF PutOperation, Transact, RecordFailure, Claimed, ServiceInv, Honest
  <1> QED BY <1>1, <1>2

(* What never goes back: an operation once claimed, its outcome once       *)
(* recorded, a reservation that exists, one that is final.                 *)
Forward ==
    /\ \A o \in Ops :
          /\ opState[o] # "ABSENT" => opState'[o] # "ABSENT" /\ payload'[o] = payload[o]
          /\ Recorded(o) => opState'[o] = opState[o] /\ result'[o] = result[o]
    /\ \A r \in Reservations :
          /\ status[r] # "NONE" => status'[r] # "NONE"
          /\ status[r] \in Final => status'[r] = status[r]

TablesInv == LedgerOK /\ ReservationOK /\ HonestLedger

LEMMA TablesStep == ServiceInv /\ ServiceStep => TablesInv' /\ Forward
  <1> SUFFICES ASSUME ServiceInv, ServiceStep PROVE TablesInv' /\ Forward
    OBVIOUS
  <1> USE DEF TablesInv
  <1>a. LedgerOK /\ ReservationOK /\ HonestLedger
    BY DEF ServiceInv
  <1>1. CASE UNCHANGED <<reservation, ledger>>
    BY <1>1, <1>a DEF reservation, ledger, LedgerOK, ReservationOK, HonestLedger, Forward, Recorded
  <1>2. ASSUME NEW w \in Workers, pc[w] # "idle", cmd[w].op \in Ops,
               cmd[w].type # "RetrieveFulfillment",
               PutOperation(w), opState[cmd[w].op] = "ABSENT"
        PROVE  TablesInv' /\ Forward
    <2>1. /\ opState' = [opState EXCEPT ![cmd[w].op] = "IN_PROGRESS"]
          /\ payload' = [payload EXCEPT ![cmd[w].op] = cmd[w]]
          /\ UNCHANGED <<reservation, result>>
      BY <1>2 DEF PutOperation
    <2>2. cmd[w] \in Commands /\ cmd[w] \in CommandRecord /\ cmd[w] # NoCommand
      BY <1>2, ActiveCommand, NoCommandIsNone
    <2>3. LedgerOK'
      BY <2>1, <2>2, <1>2, <1>a DEF LedgerOK
    <2>4. HonestLedger'
      BY <2>1, <2>2, <1>2, <1>a DEF LedgerOK, HonestLedger
    <2>5. ReservationOK' /\ Forward
      BY <2>1, <2>2, <1>2, <1>a DEF reservation, ReservationOK, LedgerOK, Forward, Recorded
    <2> QED BY <2>3, <2>4, <2>5
  <1>3. ASSUME NEW c, c.op \in Ops, InProgressFor(c), NEW res \in Outcomes,
               NEW state \in {"SUCCEEDED", "FAILED"}, Complete(c, state, res)
        PROVE  /\ LedgerOK' /\ HonestLedger'
               /\ \A o \in Ops :
                     /\ opState[o] # "ABSENT" => opState'[o] # "ABSENT" /\ payload'[o] = payload[o]
                     /\ Recorded(o) => opState'[o] = opState[o] /\ result'[o] = result[o]
    BY <1>3, <1>a, CompleteType DEF LedgerOK, HonestLedger, Complete, InProgressFor, Recorded
  <1>4. ASSUME NEW w \in Workers, pc[w] # "idle", cmd[w].op \in Ops,
               cmd[w].type # "RetrieveFulfillment",
               RecordFailure(w), InProgressFor(cmd[w])
        PROVE  TablesInv' /\ Forward
    <2>1. outcome[w] \in Outcomes
      BY DEF ServiceInv, LocalOK
    <2>2. Complete(cmd[w], "FAILED", outcome[w]) /\ UNCHANGED reservation
      BY <1>4 DEF RecordFailure
    <2> QED BY <2>1, <2>2, <1>3, <1>4, <1>a DEF reservation, ReservationOK, Forward
  <1>5. ASSUME NEW w \in Workers, pc[w] # "idle", cmd[w].op \in Ops,
               cmd[w].type # "RetrieveFulfillment",
               Transact(w), Condition(cmd[w]), InProgressFor(cmd[w])
        PROVE  TablesInv' /\ Forward
    <2> DEFINE c == cmd[w]
    <2>1. /\ c.rid \in Reservations /\ c.owner \in Owners /\ c.type \in Types
      BY <1>5, ActiveCommand
    <2>2. /\ Complete(c, "SUCCEEDED", Outcome(Target(c), "NONE"))
          /\ status' = [status EXCEPT ![c.rid] = Target(c)]
          /\ owner' = [owner EXCEPT ![c.rid] = c.owner]
          /\ facts' = [facts EXCEPT ![c.rid][Target(c)] = @ + 1]
      BY <1>5 DEF Transact
    <2>3. Target(c) \in {"RESERVED"} \cup Final /\ Target(c) # "NONE"
      BY DEF Target, Final
    <2>4. status[c.rid] \notin Final
      BY <1>5 DEF Condition, Final
    <2>5. Outcome(Target(c), "NONE") \in Outcomes
      BY <2>3, OutcomeType DEF Statuses
    <2>6. ReservationOK'
      <3>1. facts' \in [Reservations -> [{"RESERVED"} \cup Final -> Nat]]
        BY <2>1, <2>2, <2>3, <1>a, FactIncrement DEF ReservationOK
      <3>2. status' \in [Reservations -> Statuses]
        BY <2>1, <2>2, <2>3, <1>a DEF ReservationOK, Statuses
      <3>3. owner' \in [Reservations -> Owners \cup {"NONE"}]
        BY <2>1, <2>2, <1>a DEF ReservationOK
      <3>4. ASSUME NEW r \in Reservations PROVE status'[r] = "NONE" <=> owner'[r] = "NONE"
        <4>1. CASE r = c.rid
          BY <4>1, <2>1, <2>2, <2>3, <1>a, FulfillmentConstants DEF ReservationOK
        <4>2. CASE r # c.rid
          BY <4>2, <2>1, <2>2, <1>a DEF ReservationOK
        <4> QED BY <4>1, <4>2
      <3> QED BY <3>1, <3>2, <3>3, <3>4 DEF ReservationOK
    <2>7. \A r \in Reservations :
             /\ status[r] # "NONE" => status'[r] # "NONE"
             /\ status[r] \in Final => status'[r] = status[r]
      BY <2>1, <2>2, <2>3, <2>4, <1>a DEF ReservationOK
    <2> QED BY <2>2, <2>5, <2>6, <2>7, <1>3, <1>5 DEF Forward
  <1> QED BY <1>1, <1>2, <1>4, <1>5, Writers

(* Where a worker that acts can go. *)
LEMMA OwnStepLocal ==
    ASSUME ServiceInv, NEW w \in Workers, Step(w) \/ TransactConflict(w) \/ Lose(w)
    PROVE  /\ LocalOK'
           /\ cmd'[w] = cmd[w] /\ pc[w] # "idle"
           /\ pc'[w] \in Claimed \cup {"lookup", "put"} => pc[w] \in Claimed \cup {"lookup", "put"}
           /\ pc'[w] \in Claimed => pc[w] \in Claimed \/ payload'[cmd[w].op] = cmd[w]
  <1>a. LocalOK /\ LedgerOK /\ ReservationOK
    BY DEF ServiceInv
  <1> DEFINE c == cmd[w]
             Onward == /\ LocalOK' /\ cmd'[w] = c /\ pc[w] # "idle"
                       /\ pc'[w] \in Claimed \cup {"lookup", "put"}
                          => pc[w] \in Claimed \cup {"lookup", "put"}
                       /\ pc'[w] \in Claimed => pc[w] \in Claimed \/ payload'[c.op] = c
  <1>1. pc[w] # "idle"
    BY DEF Step, TransactConflict, Lose, RetrieveReservation, LookupOperation, PutOperation,
           ReadPlan, Transact, RereadAfterCancel, Diagnose, RecordFailure, RereadAfterFailure
  <1>2. /\ c.rid \in Reservations /\ status[c.rid] \in Statuses
        /\ pc[w] \in Claimed \cup {"lookup", "put"} => c.op \in Ops /\ result[c.op] \in Outcomes
    BY <1>1, <1>a, ActiveCommand DEF ReservationOK, LedgerOK
  <1>3. ASSUME NEW p \in Points \ {"idle"}, NEW res \in Outcomes, Goto(w, p) \/ GotoWith(w, p, res)
        PROVE  LocalOK' /\ cmd'[w] = c /\ pc'[w] = p
    BY <1>1, <1>3, <1>a, GotoType, GotoWithType DEF Goto, GotoWith, LocalOK
  <1>4. \E res : res \in Outcomes
    BY OutcomeType DEF Statuses
  <1>5. CASE RetrieveReservation(w)
    <2>1. \E res \in Outcomes : Reply(w, res)
      BY <1>2, <1>5, OutcomeType DEF RetrieveReservation, NotActive, Statuses
    <2> QED BY <2>1, <1>1, <1>3 DEF Reply, Points, Claimed
  <1>6. CASE LookupOperation(w)
    BY <1>1, <1>2, <1>3, <1>4, <1>6
       DEF LookupOperation, Reply, Throw, Points, Claimed, InProgressFor, ledger
  <1>7. CASE PutOperation(w)
    <2>1. \/ Goto(w, "lookup")
          \/ Goto(w, "plan") /\ payload' = [payload EXCEPT ![c.op] = c]
      BY <1>7 DEF PutOperation
    <2>2. pc[w] = "put"
      BY <1>7 DEF PutOperation
    <2> QED BY <2>1, <2>2, <1>1, <1>2, <1>3, <1>4, <1>a DEF LedgerOK, Points, Claimed
  <1>8. CASE ReadPlan(w)
    <2>1. PlannedOutcome(c) \in Outcomes
      BY OutcomeType DEF PlannedOutcome, NotActive, Statuses
    <2> QED BY <2>1, <1>1, <1>3, <1>4, <1>8 DEF ReadPlan, Points, Claimed
  <1>9. CASE Transact(w)
    <2>1. Outcome(Target(c), "NONE") \in Outcomes
      BY OutcomeType DEF Target, Statuses, Final
    <2> QED BY <2>1, <1>1, <1>3, <1>4, <1>9 DEF Transact, Reply, Points, Claimed
  <1>10. CASE Diagnose(w)
    <2>1. NotActive(status[c.rid]) \in Outcomes
      BY <1>2, OutcomeType DEF NotActive
    <2> QED BY <2>1, <1>1, <1>3, <1>4, <1>10 DEF Diagnose, Throw, Points, Claimed
  <1>11. CASE RereadAfterCancel(w) \/ RecordFailure(w) \/ RereadAfterFailure(w) \/ TransactConflict(w)
              \/ Lose(w)
    <2>1. \/ \E p \in {"throw", "cancelled", "diagnose", "superseded", "reply"} : Goto(w, p)
          \/ Reply(w, result[c.op])
      BY <1>11 DEF RereadAfterCancel, RecordFailure, RereadAfterFailure, TransactConflict, Lose, Throw
    <2>2. Lose(w) => Goto(w, "throw")
      BY DEF Lose, Throw
    <2>3. pc[w] \in Claimed \/ Lose(w)
      BY <1>11 DEF RereadAfterCancel, RecordFailure, RereadAfterFailure, TransactConflict, Claimed
    <2> QED BY <2>1, <2>2, <2>3, <1>1, <1>2, <1>3, <1>4 DEF Reply, Points, Claimed
  <1> QED BY <1>5, <1>6, <1>7, <1>8, <1>9, <1>10, <1>11 DEF Step

LEMMA ServiceInit == Init => ServiceInv
  BY DEF Init, ServiceInv, LocalOK, LedgerOK, ReservationOK, HonestLedger, Honest, Points, Statuses,
         Claimed, NoOutcome, Outcome, Outcomes

LEMMA ServiceInvStep == ServiceInv /\ ServiceStep => ServiceInv' /\ Forward
  <1> SUFFICES ASSUME ServiceInv, ServiceStep PROVE ServiceInv' /\ Forward
    OBVIOUS
  <1>a. TablesInv' /\ Forward
    BY TablesStep
  <1>b. LocalOK /\ \A w \in Workers : Honest(w)
    BY DEF ServiceInv
  <1>1. LocalOK'
    <2>1. CASE UNCHANGED local
      BY <2>1, <1>b DEF local, LocalOK
    <2>2. ASSUME NEW w \in Workers, NEW c \in Commands, Begin(w, c) PROVE LocalOK'
      BY <2>2, <1>b, BeginType, FulfillmentConstants
    <2>3. ASSUME NEW w \in Workers, Step(w) \/ TransactConflict(w) \/ Lose(w) PROVE LocalOK'
      BY <2>3, OwnStepLocal
    <2>4. ASSUME NEW w \in Workers, End(w) PROVE LocalOK'
      BY <2>4, <1>b, EndType
    <2> QED BY <2>1, <2>2, <2>3, <2>4 DEF ServiceStep, Next
  <1>2. ASSUME NEW w \in Workers PROVE Honest(w)'
    <2>1. CASE Same(w)
      <3>1. pc[w] \in Claimed => opState[cmd[w].op] # "ABSENT" /\ cmd[w].op \in Ops
        BY ActiveCommand, NoCommandIsNone DEF Claimed, ServiceInv, Honest, LedgerOK
      <3> QED BY <2>1, <3>1, <1>a, <1>b DEF Same, Honest, Forward
    <2>2. ASSUME NEW c \in Commands, Begin(w, c) PROVE Honest(w)'
      BY <2>2, <1>b DEF Begin, LocalOK, Honest, Claimed
    <2>3. CASE Step(w) \/ TransactConflict(w) \/ Lose(w)
      <3>1. pc[w] \in Claimed => opState[cmd[w].op] # "ABSENT" /\ cmd[w].op \in Ops
        BY ActiveCommand, NoCommandIsNone DEF Claimed, ServiceInv, Honest, LedgerOK
      <3> QED BY <2>3, <3>1, <1>a, <1>b, OwnStepLocal DEF Honest, Forward
    <2>4. CASE End(w)
      BY <2>4, <1>b DEF End, LocalOK, Honest, Claimed
    <2> QED BY <2>1, <2>2, <2>3, <2>4, <1>b, OwnAction
  <1> QED BY <1>a, <1>1, <1>2 DEF ServiceInv, TablesInv

-----------------------------------------------------------------------------
(***************************************************************************)
(* The queue and its consumers                                             *)
(***************************************************************************)
(* Who waits for an invocation waits for its own, and for one only.        *)
CallersWait ==
    /\ \A w \in Workers : caller[w] # "none" =>
          at[caller[w]] = "waiting" /\ pc[w] # "idle" /\ cmd[w] = handles[caller[w]]
    /\ \A v, w \in Workers : caller[v] # "none" /\ caller[v] = caller[w] => v = w
    /\ \A q \in Consumers : at[q] = "waiting" => \E w \in Workers : caller[w] = q

MessagesOK ==
    /\ message \in [Handoffs -> {"none", "visible", "inflight", "deleted", "dead"}]
    /\ receives \in [Handoffs -> 0..MaxReceives]
    /\ token \in [Handoffs -> {"none", "open", "succeeded", "failed", "expired"}]
    /\ \A h \in Handoffs : message[h] = "none" \/ message[h] = "visible"
                           => receives[h] < MaxReceives

ConsumersOK ==
    /\ at \in [Consumers -> {"idle", "heartbeat", "invoke", "waiting", "succeed",
                             "fail", "done"}]
    /\ handles \in [Consumers -> Handoffs \cup {NoCommand}]
    /\ \A q \in Consumers :
          IF at[q] = "idle" THEN handles[q] = NoCommand ELSE handles[q] \in Handoffs
    /\ caller \in [Workers -> Consumers \cup {"none"}]

HandoffInv == ServiceInv /\ faults \in Nat /\ MessagesOK /\ ConsumersOK /\ CallersWait

LEMMA HandoffInvType == HandoffInv => TypeOK
  <1> SUFFICES ASSUME HandoffInv PROVE TypeOK
    OBVIOUS
  <1>1. ServiceTypeOK
    BY ServiceInvType DEF HandoffInv
  <1>2. ASSUME NEW q \in Consumers
        PROVE  at[q] = "waiting" <=> \E w \in Workers : caller[w] = q /\ cmd[w] = handles[q]
    BY HandoffConstants DEF HandoffInv, ConsumersOK, CallersWait
  <1> QED BY <1>1, <1>2 DEF HandoffInv, MessagesOK, ConsumersOK, TypeOK

LEMMA HandoffIsCommand == \A h \in Handoffs : h \in Commands /\ h # NoCommand
  BY HandoffConstants DEF NoCommand

LEMMA HandoffServiceStep == HandoffInv /\ [HandoffNext]_vars => ServiceStep
  <1> SUFFICES ASSUME HandoffInv, [HandoffNext]_vars PROVE ServiceStep
    OBVIOUS
  <1>1. ASSUME NEW q \in Consumers, NEW w \in Workers, InvokeService(q, w) PROVE ServiceStep
    <2>1. handles[q] \in Commands
      BY <1>1, HandoffIsCommand DEF InvokeService, HandoffInv, ConsumersOK
    <2> QED BY <1>1, <2>1 DEF InvokeService, ServiceStep, Next
  <1>2. ASSUME NEW q \in Consumers, Consume(q) \/ LoseConsumer(q) PROVE ServiceStep
    BY <1>2, <1>1 DEF Consume, Heartbeat, CallBack, Delete, LoseConsumer, ServiceStep, serviceVars
  <1>3. ASSUME NEW q \in Consumers, NEW h \in Handoffs,
               SendHandoff(h) \/ TokenExpires(h) \/ Receive(q, h)
        PROVE  ServiceStep
    BY <1>3 DEF SendHandoff, TokenExpires, Receive, ServiceStep, serviceVars
  <1>4. ASSUME NEW h \in Handoffs, SendHandoff(h) \/ TokenExpires(h) PROVE ServiceStep
    BY <1>4 DEF SendHandoff, TokenExpires, ServiceStep, serviceVars
  <1>5. ASSUME NEW w \in Workers, EndService(w) PROVE ServiceStep
    BY <1>5 DEF EndService, ServiceStep, Next
  <1>6. ASSUME NEW w \in Workers, Step(w) \/ TransactConflict(w) \/ Lose(w) PROVE ServiceStep
    BY <1>6 DEF ServiceStep, Next
  <1>7. ASSUME NEW w \in Workers, NEW c \in Commands, Begin(w, c) PROVE ServiceStep
    BY <1>7 DEF ServiceStep, Next
  <1>8. CASE UNCHANGED vars
    BY <1>8 DEF vars, serviceVars, ServiceStep
  <1> QED BY <1>2, <1>3, <1>4, <1>5, <1>6, <1>7, <1>8 DEF HandoffNext

LEMMA FaultsType == HandoffInv /\ [HandoffNext]_vars => faults' \in Nat
  <1>1. [HandoffNext]_vars => faults' = faults \/ faults' = faults + 1
    BY DEF HandoffNext, vars, serviceVars, Consume, Heartbeat, CallBack, Delete, InvokeService,
           LoseConsumer, Receive, SendHandoff, TokenExpires, EndService, Step, TransactConflict,
           Lose, Begin, End, RetrieveReservation, LookupOperation, PutOperation, ReadPlan, Transact,
           RereadAfterCancel, Diagnose, RecordFailure, RereadAfterFailure
  <1> QED BY <1>1 DEF HandoffInv

LEMMA QueueInit == HandoffInit => HandoffInv
  <1> SUFFICES ASSUME HandoffInit PROVE HandoffInv
    OBVIOUS
  <1>1. ServiceInv /\ faults \in Nat
    BY ServiceInit DEF HandoffInit, Init
  <1>2. MessagesOK
    BY HandoffConstants DEF HandoffInit, MessagesOK
  <1>3. ConsumersOK /\ CallersWait
    BY DEF HandoffInit, ConsumersOK, CallersWait
  <1> QED BY <1>1, <1>2, <1>3 DEF HandoffInv

(* An invocation that goes on keeps the command its consumer waits for. *)
LEMMA WaitingGoesOn ==
    ASSUME HandoffInv, UNCHANGED queueVars, NEW w \in Workers,
           Step(w) \/ TransactConflict(w) \/ Lose(w) \/ \E c \in Commands : Begin(w, c)
    PROVE  MessagesOK' /\ ConsumersOK' /\ CallersWait'
  <1>a. ServiceInv /\ LocalOK /\ CallersWait
    BY DEF HandoffInv, ServiceInv
  <1>b. UNCHANGED <<message, receives, token, at, handles, caller>>
    BY DEF queueVars
  <1>1. MessagesOK' /\ ConsumersOK'
    BY <1>b DEF HandoffInv, MessagesOK, ConsumersOK
  <1>2. ServiceStep
    BY DEF ServiceStep, Next
  <1>3. LocalOK'
    BY <1>2, <1>a, ServiceInvStep DEF ServiceInv
  <1>4. cmd'[w] = cmd[w] \/ pc[w] = "idle"
    BY <1>a, OwnStepLocal DEF Begin
  <1>5. ASSUME NEW v \in Workers, v # w PROVE cmd'[v] = cmd[v]
    BY <1>a, <1>5, OthersSame DEF Same
  <1> QED BY <1>1, <1>3, <1>4, <1>5, <1>a, <1>b DEF CallersWait, LocalOK

LEMMA GiveBackType ==
    ASSUME MessagesOK, NEW q \in Consumers, handles[q] \in Handoffs, GiveBack(q),
           UNCHANGED <<receives, token>>
    PROVE  MessagesOK'
  <1> DEFINE m == IF receives[handles[q]] < MaxReceives THEN "visible" ELSE "dead"
  <1>1. message' = [message EXCEPT ![handles[q]] = m]
    BY DEF GiveBack
  <1>2. m = "dead" \/ (m = "visible" /\ receives[handles[q]] < MaxReceives)
    OBVIOUS
  <1> QED BY <1>1, <1>2 DEF MessagesOK

LEMMA QueueStep ==
    HandoffInv /\ [HandoffNext]_vars => MessagesOK' /\ ConsumersOK' /\ CallersWait'
  <1> SUFFICES ASSUME HandoffInv, [HandoffNext]_vars
               PROVE  MessagesOK' /\ ConsumersOK' /\ CallersWait'
    OBVIOUS
  <1>a. MessagesOK /\ ConsumersOK /\ CallersWait /\ "none" \notin Consumers
    BY HandoffConstants DEF HandoffInv
  <1>b. LocalOK /\ \A w \in Workers : pc[w] = "idle" <=> cmd[w] = NoCommand
    BY DEF HandoffInv, ServiceInv, LocalOK
  <1>1. ASSUME NEW h \in Handoffs, SendHandoff(h) \/ TokenExpires(h)
        PROVE  MessagesOK' /\ ConsumersOK' /\ CallersWait'
    <2>1. UNCHANGED <<at, handles, caller, pc, cmd, receives>>
      BY <1>1 DEF SendHandoff, TokenExpires, serviceVars, local
    <2>2. MessagesOK'
      BY <1>1, <1>a, <2>1 DEF SendHandoff, TokenExpires, MessagesOK
    <2> QED BY <2>1, <2>2, <1>a DEF ConsumersOK, CallersWait
  <1>2. ASSUME NEW q \in Consumers, NEW h \in Handoffs, Receive(q, h)
        PROVE  MessagesOK' /\ ConsumersOK' /\ CallersWait'
    <2>1. /\ at[q] = "idle" /\ message[h] = "visible"
          /\ at' = [at EXCEPT ![q] = "heartbeat"] /\ handles' = [handles EXCEPT ![q] = h]
          /\ message' = [message EXCEPT ![h] = "inflight"]
          /\ receives' = [receives EXCEPT ![h] = @ + 1]
          /\ UNCHANGED <<token, caller, pc, cmd>>
      BY <1>2 DEF Receive, serviceVars, local
    <2>2. MessagesOK'
      <3>1. receives[h] + 1 \in 0..MaxReceives
        BY <2>1, <1>a, HandoffConstants DEF MessagesOK
      <3>2. receives' \in [Handoffs -> 0..MaxReceives]
        BY <3>1, <2>1, <1>a DEF MessagesOK
      <3>3. message' \in [Handoffs -> {"none", "visible", "inflight", "deleted", "dead"}]
        BY <2>1, <1>a DEF MessagesOK
      <3>4. \A g \in Handoffs : message'[g] = "none" \/ message'[g] = "visible"
                                => receives'[g] < MaxReceives
        BY <2>1, <1>a DEF MessagesOK
      <3> QED BY <2>1, <3>2, <3>3, <3>4, <1>a DEF MessagesOK
    <2>3. ConsumersOK'
      BY <2>1, <1>a DEF ConsumersOK
    <2>4. CallersWait'
      BY <2>1, <1>a DEF ConsumersOK, CallersWait
    <2> QED BY <2>2, <2>3, <2>4
  <1>3. ASSUME NEW q \in Consumers, NEW p \in {"invoke", "done"}, at[q] \notin {"idle", "waiting"},
               Move(q, p), UNCHANGED <<caller, pc, cmd>>
        PROVE  ConsumersOK' /\ CallersWait'
    BY <1>3, <1>a DEF Move, ConsumersOK, CallersWait
  <1>4. ASSUME NEW q \in Consumers, Heartbeat(q)
        PROVE  MessagesOK' /\ ConsumersOK' /\ CallersWait'
    BY <1>3, <1>4, <1>a DEF Heartbeat, MessagesOK, serviceVars, local
  <1>5. ASSUME NEW q \in Consumers, CallBack(q)
        PROVE  MessagesOK' /\ ConsumersOK' /\ CallersWait'
    <2>1. MessagesOK'
      BY <1>5, <1>a DEF CallBack, MessagesOK
    <2> QED BY <2>1, <1>3, <1>5, <1>a DEF CallBack, serviceVars, local
  <1>6. ASSUME NEW q \in Consumers, Delete(q)
        PROVE  MessagesOK' /\ ConsumersOK' /\ CallersWait'
    <2>1. MessagesOK'
      BY <1>6, <1>a DEF Delete, MessagesOK
    <2>2. ConsumersOK' /\ CallersWait'
      BY <1>6, <1>a DEF Delete, Idle, ConsumersOK, CallersWait, serviceVars, local
    <2> QED BY <2>1, <2>2
  <1>7. ASSUME NEW q \in Consumers, LoseConsumer(q)
        PROVE  MessagesOK' /\ ConsumersOK' /\ CallersWait'
    <2>1. MessagesOK'
      BY <1>7, <1>a, GiveBackType DEF LoseConsumer, ConsumersOK
    <2>2. ConsumersOK' /\ CallersWait'
      BY <1>7, <1>a DEF LoseConsumer, Idle, ConsumersOK, CallersWait, local
    <2> QED BY <2>1, <2>2
  <1>8. ASSUME NEW q \in Consumers, NEW w \in Workers, InvokeService(q, w)
        PROVE  MessagesOK' /\ ConsumersOK' /\ CallersWait'
    <2>1. /\ at[q] = "invoke" /\ caller[w] = "none" /\ handles[q] \in Handoffs
          /\ caller' = [caller EXCEPT ![w] = q]
          /\ at' = [at EXCEPT ![q] = "waiting"] /\ UNCHANGED handles
      BY <1>8, <1>a DEF InvokeService, Move, ConsumersOK
    <2>2. /\ cmd'[w] = handles[q] /\ pc'[w] # "idle"
          /\ \A v \in Workers : v # w => cmd'[v] = cmd[v] /\ pc'[v] = pc[v]
      BY <1>8, <1>b DEF InvokeService, Begin, LocalOK
    <2>3. MessagesOK' /\ ConsumersOK'
      BY <1>8, <2>1, <1>a DEF InvokeService, MessagesOK, ConsumersOK
    <2>4. CallersWait'
      <3>1. \A v \in Workers : caller[v] # q
        BY <2>1, <1>a DEF CallersWait
      <3> QED BY <2>1, <2>2, <3>1, <1>a DEF CallersWait, ConsumersOK
    <2> QED BY <2>3, <2>4
  <1>9. ASSUME NEW w \in Workers, EndService(w)
        PROVE  MessagesOK' /\ ConsumersOK' /\ CallersWait'
    <2>1. /\ caller' = [caller EXCEPT ![w] = "none"]
          /\ \A v \in Workers : v # w => cmd'[v] = cmd[v] /\ pc'[v] = pc[v]
          /\ UNCHANGED <<receives, token>>
      BY <1>9, <1>b DEF EndService, End, LocalOK
    <2>2. CASE caller[w] = "none"
      <3>1. UNCHANGED <<message, at, handles>>
        BY <1>9, <2>2, <1>a DEF EndService
      <3> QED BY <2>1, <2>2, <3>1, <1>a DEF MessagesOK, ConsumersOK, CallersWait
    <2>3. CASE caller[w] # "none"
      <3> DEFINE q == caller[w]
      <3>1. q \in Consumers /\ at[q] = "waiting" /\ handles[q] \in Handoffs
        BY <2>3, <1>a DEF ConsumersOK, CallersWait
      <3>2. \A v \in Workers : v # w => caller[v] # q
        BY <2>3, <1>a DEF CallersWait
      <3>3. CASE /\ UNCHANGED <<message, handles>>
                 /\ \E p \in {"succeed", "fail"} : at' = [at EXCEPT ![q] = p]
        BY <2>1, <3>1, <3>2, <3>3, <1>a DEF MessagesOK, ConsumersOK, CallersWait
      <3>4. CASE Idle(q) /\ GiveBack(q)
        <4>1. MessagesOK'
          BY <3>1, <3>4, <2>1, <1>a, GiveBackType
        <4> QED BY <4>1, <2>1, <3>1, <3>2, <3>4, <1>a DEF Idle, ConsumersOK, CallersWait
      <3> QED BY <2>3, <3>3, <3>4, <1>9 DEF EndService, Move
    <2> QED BY <2>2, <2>3
  <1>10. CASE UNCHANGED vars
    <2>1. UNCHANGED <<message, receives, token, at, handles, caller, pc, cmd>>
      BY <1>10 DEF vars, queueVars, serviceVars, local
    <2> QED BY <2>1, <1>a DEF MessagesOK, ConsumersOK, CallersWait
  <1> QED BY <1>1, <1>2, <1>4, <1>5, <1>6, <1>7, <1>8, <1>9, <1>10, WaitingGoesOn
          DEF HandoffNext, Consume

LEMMA HandoffStep == HandoffInv /\ [HandoffNext]_vars => HandoffInv'
  <1>1. HandoffInv /\ [HandoffNext]_vars => ServiceInv'
    BY HandoffServiceStep, ServiceInvStep DEF HandoffInv
  <1> QED BY <1>1, QueueStep, FaultsType DEF HandoffInv

(* The queue, its consumers and the invocations they wait for hold         *)
(* together in every reachable state.                                      *)
THEOREM HandoffHolds == HandoffSpec => []HandoffInv
  BY QueueInit, HandoffStep, PTL DEF HandoffSpec

(* The service's records, its workers, the queue and its consumers keep    *)
(* the shape the code gives them; a message is never received more often   *)
(* than its redrive policy allows.                                         *)
THEOREM TypeIsCorrect == HandoffSpec => []TypeOK
  BY HandoffHolds, HandoffInvType, PTL

-----------------------------------------------------------------------------
(***************************************************************************)
(* What a handoff is told                                                  *)
(***************************************************************************)
Told(res, r) == status[r] = IF HandedOff(res) THEN "HANDED_OFF" ELSE "CANCELLED"
ToldNext(res, r) == status'[r] = IF HandedOff(res) THEN "HANDED_OFF" ELSE "CANCELLED"

(* What a worker is about to record or answer is true of its reservation.  *)
Truthful(w) ==
    LET c == cmd[w]
        held == outcome[w].reservationStatus IN
    /\ pc[w] = "retrieve" => c.type = "RetrieveFulfillment"
    /\ pc[w] = "fail" => held \in Promise!Passed(status[c.rid])
    /\ pc[w] \in {"fail", "reply"} /\ c.type = "HandoffFulfillment" => Told(outcome[w], c.rid)

TruthfulLedger ==
    \A o \in Ops :
        Recorded(o) /\ payload[o].type = "HandoffFulfillment" => Told(result[o], payload[o].rid)

TruthfulService == TruthfulLedger /\ \A w \in Workers : Truthful(w)

LEMMA ToldForward ==
    ASSUME Forward, NEW res, NEW r \in Reservations, Told(res, r)
    PROVE  ToldNext(res, r)
  BY DEF Forward, Told, ToldNext, Final, HandedOff

LEMMA PassedForward ==
    ASSUME ServiceInv, Forward, NEW r \in Reservations
    PROVE  Promise!Passed(status[r]) \subseteq Promise!Passed(status'[r])
  <1>1. status[r] \in {"NONE", "RESERVED"} \cup Final
    BY DEF ServiceInv, ReservationOK, Statuses
  <1>2. /\ status[r] # "NONE" => status'[r] # "NONE"
        /\ status[r] \in Final => status'[r] = status[r]
    BY DEF Forward
  <1> QED BY <1>1, <1>2 DEF Promise!Passed

LEMMA TruthfulKept ==
    ASSUME ServiceInv, Forward, NEW w \in Workers, Truthful(w), Same(w)
    PROVE  Truthful(w)'
  <1>1. CASE pc[w] \in {"fail", "reply"}
    <2>1. cmd[w].rid \in Reservations
      BY <1>1, ActiveCommand
    <2> QED BY <2>1, ToldForward, PassedForward DEF Truthful, Same, Told, ToldNext
  <1>2. CASE pc[w] \notin {"fail", "reply"}
    BY <1>2 DEF Truthful, Same
  <1> QED BY <1>1, <1>2

LEMMA TruthfulOwnStep ==
    ASSUME ServiceInv, Forward, TruthfulLedger, NEW w \in Workers, Truthful(w),
           Step(w) \/ TransactConflict(w) \/ Lose(w)
    PROVE  Truthful(w)'
  <1> DEFINE c == cmd[w]
  <1>a. LocalOK /\ LedgerOK /\ ReservationOK
    BY DEF ServiceInv
  <1>b. pc[w] # "idle" /\ c.rid \in Reservations /\ cmd'[w] = c
    BY OwnStepLocal, ActiveCommand
  <1>c. pc[w] \in Claimed => c.op \in Ops /\ payload[c.op] = c
    BY <1>b, ActiveCommand DEF ServiceInv, Honest
  <1>1. ASSUME pc'[w] \notin {"retrieve", "fail", "reply"} PROVE Truthful(w)'
    BY <1>1 DEF Truthful
  <1>2. ASSUME c.op \in Ops, Recorded(c.op), payload[c.op] = c, Reply(w, result[c.op])
        PROVE  Truthful(w)'
    <2>1. c.type = "HandoffFulfillment" => ToldNext(result[c.op], c.rid)
      BY <1>2, <1>b, ToldForward DEF TruthfulLedger
    <2>2. pc'[w] = "reply" /\ outcome'[w] = result[c.op]
      BY <1>2, <1>a DEF Reply, GotoWith, LocalOK
    <2> QED BY <2>1, <2>2, <1>b DEF Truthful, Told, ToldNext
  <1>3. ASSUME NEW p \in Points \ {"retrieve", "fail", "reply"}, Goto(w, p) PROVE Truthful(w)'
    BY <1>1, <1>3, <1>a DEF Goto, LocalOK
  <1>4. CASE RetrieveReservation(w)
    <2>1. c.type = "RetrieveFulfillment" /\ pc'[w] = "reply"
      BY <1>4, <1>a DEF RetrieveReservation, Truthful, Reply, GotoWith, LocalOK
    <2> QED BY <2>1, <1>b DEF Truthful
  <1>5. CASE LookupOperation(w)
    <2>1. c.op \in Ops
      BY <1>5, ActiveCommand DEF LookupOperation
    <2> QED BY <2>1, <1>2, <1>3, <1>5 DEF LookupOperation, Throw, Points
  <1>6. CASE PutOperation(w)
    BY <1>3, <1>6 DEF PutOperation, Points
  <1>7. CASE ReadPlan(w)
    <2>1. CASE Goto(w, "transact")
      BY <2>1, <1>3 DEF Points
    <2>2. CASE ~Goto(w, "transact")
      <3>1. /\ pc'[w] = "fail" /\ outcome'[w] = PlannedOutcome(c) /\ UNCHANGED status
            /\ c.type # "HandoffFulfillment"
            /\ c.type = "CancelFulfillment" => status[c.rid] # "NONE"
        BY <2>2, <1>7, <1>a DEF ReadPlan, GotoWith, LocalOK, reservation
      <3>2. c.type \in Types \ {"RetrieveFulfillment"}
        BY <1>7, <1>b, ActiveCommand DEF ReadPlan, Claimed, ServiceInv, Honest
      <3>3. PlannedOutcome(c).reservationStatus \in Promise!Passed(status[c.rid])
        BY <3>1, <3>2 DEF PlannedOutcome, NotActive, Outcome, Promise!Passed, Types
      <3> QED BY <3>1, <3>3, <1>b DEF Truthful
    <2> QED BY <2>1, <2>2
  <1>8. CASE Transact(w)
    <2>1. CASE Condition(c) /\ InProgressFor(c)
      <3>1. /\ pc'[w] = "reply" /\ outcome'[w] = Outcome(Target(c), "NONE")
            /\ status'[c.rid] = Target(c)
        BY <2>1, <1>8, <1>a, <1>b DEF Transact, Reply, GotoWith, LocalOK, ReservationOK
      <3>2. c.type = "HandoffFulfillment" => ToldNext(outcome'[w], c.rid)
        BY <3>1 DEF ToldNext, HandedOff, Outcome, Target
      <3> QED BY <3>1, <3>2, <1>b DEF Truthful, Told, ToldNext
    <2>2. CASE ~(Condition(c) /\ InProgressFor(c))
      BY <2>2, <1>3, <1>8 DEF Transact, Points
    <2> QED BY <2>1, <2>2
  <1>9. CASE Diagnose(w)
    <2>1. CASE Throw(w)
      BY <2>1, <1>3 DEF Throw, Points
    <2>2. CASE ~Throw(w)
      <3>1. /\ pc'[w] = "fail" /\ outcome'[w] = NotActive(status[c.rid]) /\ status[c.rid] \in Final
            /\ UNCHANGED status
        BY <2>2, <1>9, <1>a DEF Diagnose, GotoWith, LocalOK, reservation
      <3>2. ToldNext(outcome'[w], c.rid) /\ outcome'[w].reservationStatus = status[c.rid]
        BY <3>1 DEF ToldNext, HandedOff, NotActive, Outcome, Final
      <3>3. status[c.rid] \in Promise!Passed(status[c.rid])
        BY DEF Promise!Passed
      <3> QED BY <3>1, <3>2, <3>3, <1>b DEF Truthful, Told, ToldNext
    <2> QED BY <2>1, <2>2
  <1>10. CASE RecordFailure(w)
    <2>1. CASE Goto(w, "superseded")
      BY <2>1, <1>3 DEF Points
    <2>2. CASE ~Goto(w, "superseded")
      <3>1. pc[w] = "fail" /\ pc'[w] = "reply" /\ outcome'[w] = outcome[w] /\ UNCHANGED status
        BY <2>2, <1>10, <1>a DEF RecordFailure, Goto, LocalOK, reservation
      <3> QED BY <3>1, <1>b DEF Truthful, Told
    <2> QED BY <2>1, <2>2
  <1>11. CASE RereadAfterCancel(w) \/ RereadAfterFailure(w)
    <2>1. pc[w] \in Claimed
      BY <1>11 DEF RereadAfterCancel, RereadAfterFailure, Claimed
    <2> QED BY <2>1, <1>2, <1>3, <1>c, <1>11
            DEF RereadAfterCancel, RereadAfterFailure, Throw, Points
  <1>12. CASE TransactConflict(w) \/ Lose(w)
    BY <1>3, <1>12 DEF TransactConflict, Lose, Throw, Points
  <1> QED BY <1>4, <1>5, <1>6, <1>7, <1>8, <1>9, <1>10, <1>11, <1>12 DEF Step

LEMMA TruthfulInit == Init => TruthfulService
  BY DEF Init, TruthfulService, TruthfulLedger, Truthful, Recorded

(* An outcome is recorded by the transaction it reports, or by a worker    *)
(* that has seen it.                                                       *)
LEMMA TruthfulLedgerStep ==
    ASSUME ServiceInv, Forward, TruthfulService, ServiceStep
    PROVE  TruthfulLedger'
  <1> SUFFICES ASSUME NEW o \in Ops, Recorded(o)', payload'[o].type = "HandoffFulfillment"
               PROVE  Told(result[o], payload[o].rid)'
    BY DEF TruthfulLedger
  <1>a. LedgerOK /\ ReservationOK /\ HonestLedger
    BY DEF ServiceInv
  <1>1. CASE Recorded(o)
    <2>1. payload'[o] = payload[o] /\ result'[o] = result[o] /\ payload[o] \in Commands
      BY <1>1, <1>a DEF Recorded, Forward, HonestLedger
    <2>2. payload[o].rid \in Reservations
      BY <2>1, FulfillmentConstants DEF CommandRecord
    <2>3. Told(result[o], payload[o].rid)
      BY <1>1, <2>1 DEF TruthfulService, TruthfulLedger
    <2> QED BY <2>1, <2>2, <2>3, ToldForward DEF Told, ToldNext
  <1>2. CASE ~Recorded(o)
    <2>1. opState' # opState
      BY <1>2 DEF Recorded
    <2>2. PICK w \in Workers :
              /\ pc[w] # "idle" /\ cmd[w].op \in Ops /\ cmd[w].type # "RetrieveFulfillment"
              /\ \/ PutOperation(w) /\ opState[cmd[w].op] = "ABSENT"
                 \/ Transact(w) /\ Condition(cmd[w]) /\ InProgressFor(cmd[w])
                 \/ RecordFailure(w) /\ InProgressFor(cmd[w])
      BY <2>1, Writers DEF ledger
    <2> DEFINE c == cmd[w]
    <2>3. c.rid \in Reservations
      BY <2>2, ActiveCommand
    <2>4. CASE PutOperation(w) /\ opState[c.op] = "ABSENT"
      BY <2>2, <2>4, <1>2, <1>a DEF PutOperation, LedgerOK, Recorded
    <2>5. CASE Transact(w) /\ Condition(c) /\ InProgressFor(c)
      <3>1. /\ Complete(c, "SUCCEEDED", Outcome(Target(c), "NONE"))
            /\ status' = [status EXCEPT ![c.rid] = Target(c)]
        BY <2>5 DEF Transact
      <3>2. /\ o = c.op /\ payload'[o] = c /\ result'[o] = Outcome(Target(c), "NONE")
            /\ status'[c.rid] = Target(c)
        BY <2>2, <2>3, <2>5, <3>1, <1>2, <1>a
           DEF Complete, LedgerOK, ReservationOK, Recorded, InProgressFor
      <3> QED BY <3>2 DEF Told, HandedOff, Outcome, Target
    <2>6. CASE RecordFailure(w) /\ InProgressFor(c)
      <3>1. pc[w] = "fail" /\ Complete(c, "FAILED", outcome[w]) /\ UNCHANGED status
        BY <2>6 DEF RecordFailure, reservation
      <3>2. o = c.op /\ payload'[o] = c /\ result'[o] = outcome[w]
        BY <2>2, <2>6, <3>1, <1>2, <1>a DEF Complete, LedgerOK, Recorded, InProgressFor
      <3>3. Told(outcome[w], c.rid)
        BY <3>1, <3>2 DEF TruthfulService, Truthful
      <3> QED BY <3>1, <3>2, <3>3 DEF Told
    <2> QED BY <2>2, <2>4, <2>5, <2>6
  <1> QED BY <1>1, <1>2

LEMMA TruthfulStep == ServiceInv /\ TruthfulService /\ ServiceStep => TruthfulService'
  <1> SUFFICES ASSUME ServiceInv, TruthfulService, ServiceStep PROVE TruthfulService'
    OBVIOUS
  <1>1. Forward /\ LocalOK
    BY ServiceInvStep DEF ServiceInv
  <1>2. ASSUME NEW w \in Workers PROVE Truthful(w)'
    <2>1. CASE Same(w)
      BY <2>1, <1>1, TruthfulKept DEF TruthfulService
    <2>2. CASE Step(w) \/ TransactConflict(w) \/ Lose(w)
      BY <2>2, <1>1, TruthfulOwnStep DEF TruthfulService
    <2>3. ASSUME NEW c \in Commands, Begin(w, c) PROVE Truthful(w)'
      BY <2>3, <1>1 DEF Begin, LocalOK, Truthful
    <2>4. CASE End(w)
      BY <2>4, <1>1 DEF End, LocalOK, Truthful
    <2> QED BY <2>1, <2>2, <2>3, <2>4, <1>1, OwnAction
  <1> QED BY <1>1, <1>2, TruthfulLedgerStep DEF TruthfulService

(* A consumer is about to call back what is true of its handoff.           *)
ConsumersTell ==
    \A q \in Consumers :
        /\ at[q] = "succeed" => status[handles[q].rid] = "HANDED_OFF"
        /\ at[q] = "fail" => status[handles[q].rid] = "CANCELLED"

TruthInv == TruthfulService /\ ConsumersTell /\ CallbackIsTrue

LEMMA TruthInit == HandoffInit => TruthInv
  <1> SUFFICES ASSUME HandoffInit PROVE TruthInv
    OBVIOUS
  <1>1. TruthfulService
    BY TruthfulInit DEF HandoffInit
  <1> QED BY <1>1 DEF HandoffInit, TruthInv, ConsumersTell, CallbackIsTrue

(* A consumer learns what to call back only from the invocation it awaits. *)
LEMMA Answered ==
    ASSUME HandoffInv, [HandoffNext]_vars, NEW q \in Consumers,
           at'[q] \in {"succeed", "fail"},
           ~(at'[q] = at[q] /\ handles'[q] = handles[q])
    PROVE  \E w \in Workers :
              /\ caller[w] = q /\ pc[w] = "reply" /\ UNCHANGED status
              /\ at'[q] = IF HandedOff(outcome[w]) THEN "succeed" ELSE "fail"
              /\ handles'[q] = handles[q]
  <1>a. ConsumersOK
    BY DEF HandoffInv
  <1>1. ASSUME NEW p \in Consumers, Consume(p) \/ LoseConsumer(p) PROVE FALSE
    BY <1>1, <1>a DEF Consume, Heartbeat, CallBack, Delete, InvokeService, LoseConsumer, Move, Idle,
                      ConsumersOK
  <1>2. ASSUME NEW p \in Consumers, NEW h \in Handoffs, Receive(p, h) PROVE FALSE
    BY <1>2, <1>a DEF Receive, ConsumersOK
  <1>3. ASSUME UNCHANGED <<at, handles>> PROVE FALSE
    BY <1>3
  <1>4. PICK w \in Workers : EndService(w)
    BY <1>1, <1>2, <1>3 DEF HandoffNext, SendHandoff, TokenExpires, queueVars, vars
  <1>5. CASE caller[w] = "none"
    BY <1>3, <1>4, <1>5, <1>a, HandoffConstants DEF EndService, ConsumersOK
  <1>6. CASE caller[w] # "none"
    <2>1. caller[w] \in Consumers
      BY <1>6, <1>a DEF ConsumersOK
    <2>2. CASE pc[w] = "throw"
      BY <2>1, <2>2, <1>4, <1>6, <1>a DEF EndService, Idle, ConsumersOK
    <2>3. CASE pc[w] = "reply"
      <3>1. /\ at' = [at EXCEPT ![caller[w]] = IF HandedOff(outcome[w]) THEN "succeed" ELSE "fail"]
            /\ UNCHANGED <<handles, status>>
        BY <2>3, <1>4, <1>6 DEF EndService, Move, End, reservation
      <3>2. caller[w] = q
        BY <2>1, <3>1, <1>a DEF ConsumersOK
      <3> QED BY <2>3, <3>1, <3>2, <1>a DEF ConsumersOK
    <2> QED BY <2>2, <2>3, <1>4 DEF EndService, End
  <1> QED BY <1>5, <1>6

(* A token is answered only by a consumer that handles its handoff. *)
LEMMA CalledBack ==
    ASSUME HandoffInv, [HandoffNext]_vars, NEW h \in Handoffs,
           token'[h] \in {"succeeded", "failed"}, token'[h] # token[h]
    PROVE  \E q \in Consumers :
              /\ handles[q] = h /\ UNCHANGED status
              /\ \/ token'[h] = "succeeded" /\ at[q] = "succeed"
                 \/ token'[h] = "failed" /\ at[q] = "fail"
  <1>a. MessagesOK
    BY DEF HandoffInv
  <1>1. ASSUME NEW g \in Handoffs, SendHandoff(g) \/ TokenExpires(g) PROVE FALSE
    BY <1>1, <1>a DEF SendHandoff, TokenExpires, MessagesOK
  <1>2. PICK q \in Consumers : CallBack(q)
    BY <1>1 DEF HandoffNext, Consume, Heartbeat, Delete, InvokeService, LoseConsumer, Receive,
                EndService, queueVars, vars
  <1> QED BY <1>2, <1>a DEF CallBack, MessagesOK, serviceVars, reservation

LEMMA TruthStep ==
    HandoffInv /\ TruthInv /\ [HandoffNext]_vars => TruthInv'
  <1> SUFFICES ASSUME HandoffInv, TruthInv, [HandoffNext]_vars PROVE TruthInv'
    OBVIOUS
  <1>a. ServiceInv /\ ServiceStep
    BY HandoffServiceStep DEF HandoffInv
  <1>b. TruthfulService' /\ Forward
    BY <1>a, TruthfulStep, ServiceInvStep DEF TruthInv
  <1>c. ConsumersOK /\ CallersWait
    BY DEF HandoffInv
  <1>d. \A h \in Handoffs : h.rid \in Reservations /\ h.type = "HandoffFulfillment"
    BY HandoffConstants, FulfillmentConstants DEF CommandRecord
  <1>1. ASSUME NEW q \in Consumers, at'[q] \in {"succeed", "fail"}
        PROVE  status'[handles'[q].rid] = IF at'[q] = "succeed" THEN "HANDED_OFF" ELSE "CANCELLED"
    <2>1. CASE at'[q] = at[q] /\ handles'[q] = handles[q]
      <3>1. handles[q].rid \in Reservations
        BY <1>1, <2>1, <1>c, <1>d DEF ConsumersOK
      <3>2. status[handles[q].rid] = IF at[q] = "succeed" THEN "HANDED_OFF" ELSE "CANCELLED"
        BY <1>1, <2>1 DEF TruthInv, ConsumersTell
      <3> QED BY <2>1, <3>1, <3>2, <1>b DEF Forward, Final
    <2>2. CASE ~(at'[q] = at[q] /\ handles'[q] = handles[q])
      <3>1. PICK w \in Workers :
              /\ caller[w] = q /\ pc[w] = "reply" /\ UNCHANGED status
              /\ at'[q] = IF HandedOff(outcome[w]) THEN "succeed" ELSE "fail"
              /\ handles'[q] = handles[q]
        BY <1>1, <2>2, Answered
      <3>2. cmd[w] = handles[q] /\ at[q] = "waiting"
        BY <3>1, <1>c, HandoffConstants DEF CallersWait
      <3>3. cmd[w].type = "HandoffFulfillment"
        BY <3>2, <1>c, <1>d DEF ConsumersOK
      <3>4. Told(outcome[w], handles[q].rid)
        BY <3>1, <3>2, <3>3 DEF TruthInv, TruthfulService, Truthful
      <3> QED BY <3>1, <3>4 DEF Told
    <2> QED BY <2>1, <2>2
  <1>2. ConsumersTell'
    BY <1>1 DEF ConsumersTell
  <1>3. ASSUME NEW h \in Handoffs, token'[h] \in {"succeeded", "failed"}
        PROVE  status'[h.rid] = IF token'[h] = "succeeded" THEN "HANDED_OFF" ELSE "CANCELLED"
    <2>1. CASE token'[h] = token[h]
      <3>1. status[h.rid] = IF token[h] = "succeeded" THEN "HANDED_OFF" ELSE "CANCELLED"
        BY <1>3, <2>1 DEF TruthInv, CallbackIsTrue
      <3> QED BY <2>1, <3>1, <1>b, <1>d DEF Forward, Final
    <2>2. CASE token'[h] # token[h]
      BY <1>3, <2>2, CalledBack DEF TruthInv, ConsumersTell
    <2> QED BY <2>1, <2>2
  <1>4. CallbackIsTrue'
    BY <1>3 DEF CallbackIsTrue
  <1> QED BY <1>b, <1>2, <1>4 DEF TruthInv

(* What workers record and answer, and consumers call back, is true of the *)
(* reservation and stays so.                                               *)
THEOREM TruthHolds == HandoffSpec => []TruthInv
  BY TruthInit, TruthStep, HandoffHolds, PTL DEF HandoffSpec

(* An execution is told that its handoff succeeded only if it was handed   *)
(* off, and that it failed only if it was cancelled, whatever deliveries   *)
(* and invocations raced.                                                  *)
THEOREM CallbacksAreTrue == HandoffSpec => []CallbackIsTrue
  BY TruthHolds, PTL DEF TruthInv

-----------------------------------------------------------------------------
(***************************************************************************)
(* Refinement: one decision per step of the tables                         *)
(***************************************************************************)
Records == [o \in Ops |-> RecordOf(o)]

(* An operation in progress is not decided yet. *)
LEMMA InProgressUndecided ==
    ASSUME NEW c, c.op \in Ops, opState[c.op] \in {"ABSENT", "IN_PROGRESS"}
    PROVE  Records[c.op] = Promise!Undecided
  BY DEF Records, RecordOf, Recorded, Promise!Undecided

(* To complete an operation is to decide it, and no other. *)
LEMMA CompleteDecides ==
    ASSUME LedgerOK, NEW c \in CommandRecord, c.op \in Ops, InProgressFor(c),
           NEW state \in {"SUCCEEDED", "FAILED"}, NEW res \in Outcomes,
           Complete(c, state, res)
    PROVE  LET rec == [rid |-> c.rid, won |-> state = "SUCCEEDED",
                       names |-> IF state = "SUCCEEDED" THEN res.status
                                                        ELSE res.reservationStatus]
           IN  Records[c.op] = Promise!Undecided /\ Records' = [Records EXCEPT ![c.op] = rec]
  <1> DEFINE rec == [rid |-> c.rid, won |-> state = "SUCCEEDED",
                     names |-> IF state = "SUCCEEDED" THEN res.status ELSE res.reservationStatus]
  <1>1. Records[c.op] = Promise!Undecided
    BY InProgressUndecided DEF InProgressFor
  <1>2. opState'[c.op] = state /\ result'[c.op] = res /\ payload'[c.op] = c
    BY DEF LedgerOK, Complete, InProgressFor
  <1>3. RecordOf(c.op)' = rec
    BY <1>2 DEF RecordOf, Recorded
  <1>4. \A o \in Ops : o # c.op => RecordOf(o)' = RecordOf(o)
    BY DEF LedgerOK, Complete, RecordOf, Recorded
  <1>5. Records' = [o \in Ops |-> IF o = c.op THEN rec ELSE RecordOf(o)]
    BY <1>3, <1>4 DEF Records
  <1> QED BY <1>1, <1>5 DEF Records

LEMMA RefinementInit == Init => Promise!Init
  <1> SUFFICES ASSUME Init PROVE Promise!Init
    OBVIOUS
  <1>1. \A o \in Ops : RecordOf(o) = Promise!Undecided
    BY DEF Init, RecordOf, Recorded, Promise!Undecided
  <1> QED BY <1>1 DEF Init, Promise!Init, Promise!Moves

LEMMA RefinementStep ==
    ServiceInv /\ TruthfulService /\ ServiceStep => [Promise!Next]_(Promise!vars)
  <1> SUFFICES ASSUME ServiceInv, TruthfulService, ServiceStep
               PROVE  [Promise!Next]_(Promise!vars)
    OBVIOUS
  <1>a. LedgerOK /\ ReservationOK /\ LocalOK
    BY DEF ServiceInv
  <1>b. UNCHANGED <<status, Records, facts>> => UNCHANGED Promise!vars
    BY DEF Promise!vars, Records
  <1>c. Records' # Records /\ (\E o \in Ops, r \in Reservations :
              \/ \E t \in Promise!Moves : Promise!Move(o, r, t)
              \/ \E seen \in Promise!Passed(status[r]) : Promise!Refuse(o, r, seen))
        => Promise!Next
    BY DEF Promise!Next, Records
  <1>1. CASE UNCHANGED <<reservation, ledger>>
    BY <1>1, <1>b DEF reservation, ledger, Records, RecordOf, Recorded
  <1>2. ASSUME NEW w \in Workers, pc[w] # "idle", cmd[w].op \in Ops,
               PutOperation(w), opState[cmd[w].op] = "ABSENT"
        PROVE  UNCHANGED Promise!vars
    <2>1. \A o \in Ops : RecordOf(o)' = RecordOf(o)
      BY <1>2, <1>a DEF PutOperation, LedgerOK, RecordOf, Recorded
    <2> QED BY <2>1, <1>2, <1>b DEF PutOperation, Records, reservation
  <1>3. ASSUME NEW w \in Workers, pc[w] # "idle", cmd[w].op \in Ops,
               RecordFailure(w), InProgressFor(cmd[w])
        PROVE  [Promise!Next]_(Promise!vars)
    <2> DEFINE c == cmd[w]
               seen == outcome[w].reservationStatus
    <2>1. c \in CommandRecord /\ c.rid \in Reservations /\ outcome[w] \in Outcomes
      BY <1>3, <1>a, ActiveCommand DEF LocalOK
    <2>2. pc[w] = "fail" /\ Complete(c, "FAILED", outcome[w]) /\ UNCHANGED <<status, facts>>
      BY <1>3 DEF RecordFailure, reservation
    <2>3. /\ Records[c.op] = Promise!Undecided
          /\ Records' = [Records EXCEPT ![c.op] = Promise!Refused(c.rid, seen)]
      BY <1>3, <2>1, <2>2, <1>a, CompleteDecides DEF Promise!Refused
    <2>4. seen \in Promise!Passed(status[c.rid])
      BY <2>2 DEF TruthfulService, Truthful
    <2>5. Promise!Refuse(c.op, c.rid, seen)
      BY <2>2, <2>3, <2>4 DEF Promise!Refuse, Promise!Decide, Records
    <2>6. CASE Records' = Records
      BY <2>2, <2>6, <1>b
    <2>7. CASE Records' # Records
      BY <2>1, <2>4, <2>5, <2>7, <1>3, <1>c
    <2> QED BY <2>6, <2>7
  <1>4. ASSUME NEW w \in Workers, pc[w] # "idle", cmd[w].op \in Ops,
               cmd[w].type # "RetrieveFulfillment",
               Transact(w), Condition(cmd[w]), InProgressFor(cmd[w])
        PROVE  Promise!Next
    <2> DEFINE c == cmd[w]
               t == Target(c)
    <2>1. c \in CommandRecord /\ c.rid \in Reservations
      BY <1>4, ActiveCommand
    <2>2. /\ Complete(c, "SUCCEEDED", Outcome(t, "NONE"))
          /\ status' = [status EXCEPT ![c.rid] = t]
          /\ facts' = [facts EXCEPT ![c.rid][t] = @ + 1]
      BY <1>4 DEF Transact
    <2>3. t \in Promise!Moves /\ Promise!Follows(status[c.rid], t)
      BY <1>4 DEF Target, Condition, Promise!Moves, Promise!Follows, Final
    <2>4. Outcome(t, "NONE") \in Outcomes
      BY OutcomeType DEF Target, Statuses, Final
    <2>5. /\ Records[c.op] = Promise!Undecided
          /\ Records' = [Records EXCEPT ![c.op] = Promise!Won(c.rid, t)]
      <3>1. /\ Records[c.op] = Promise!Undecided
            /\ Records' = [Records EXCEPT ![c.op] =
                              [rid |-> c.rid, won |-> TRUE, names |-> Outcome(t, "NONE").status]]
        BY <1>4, <2>1, <2>2, <2>4, <1>a, CompleteDecides
      <3> QED BY <3>1 DEF Outcome, Promise!Won
    <2>6. Promise!Move(c.op, c.rid, t)
      BY <2>2, <2>3, <2>5 DEF Promise!Move, Promise!Decide, Records
    <2>7. Records' # Records
      <3>1. Records'[c.op] = Promise!Won(c.rid, t)
        BY <1>4, <2>5 DEF Records
      <3> QED BY <3>1, <2>5 DEF Promise!Won, Promise!Undecided
    <2> QED BY <2>1, <2>3, <2>6, <2>7, <1>4, <1>c
  <1> QED BY <1>1, <1>2, <1>3, <1>4, Writers

(* Reserve, cancel and handoff, planned refusals and lost consumers        *)
(* included: every step of the service is one decision of ReservationLedger *)
(* or none it can see, and a reservation is handed off or cancelled, never *)
(* both.                                                                   *)
THEOREM FulfillmentImplementsLedger == HandoffSpec => ImplementsLedger
  <1>1. HandoffInit => Promise!Init
    BY RefinementInit DEF HandoffInit
  <1>2. HandoffInv /\ TruthInv /\ [HandoffNext]_vars => [Promise!Next]_(Promise!vars)
    BY RefinementStep, HandoffServiceStep DEF HandoffInv, TruthInv
  <1> QED BY <1>1, <1>2, HandoffHolds, TruthHolds, PTL
          DEF HandoffSpec, ImplementsLedger, Promise!Spec
=============================================================================
