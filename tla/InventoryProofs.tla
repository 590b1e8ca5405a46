--------------------------- MODULE InventoryProofs ---------------------------
(***************************************************************************)
(* Proofs about the Inventory service, for any items, reservations,        *)
(* commands, workers, sweeps and bounds.                                   *)
(***************************************************************************)
EXTENDS InventoryLedger, FiniteSetTheorems, TLAPS

TypeInv == TypeOK /\ DueExist

-----------------------------------------------------------------------------
(***************************************************************************)
(* What the building blocks of the actions preserve                        *)
(***************************************************************************)
(* What a worker that is not idle works on. *)
LEMMA ActiveCommand ==
    ASSUME TypeOK, NEW w \in Workers, pc[w] # "idle"
    PROVE  /\ cmd[w] \in CommandRecord
           /\ cmd[w].op \in Ops
           /\ cmd[w].rid \in Reservations
           /\ cmd[w].item \in Items
           /\ cmd[w].quantity \in Nat
           /\ cmd[w].type \in Types
           /\ cmd[w].reason \in Reasons
  BY DEF TypeOK, LocalOK, CommandRecord

LEMMA OutcomeType ==
    ASSUME NEW s \in OutcomeStatuses, NEW h \in Statuses
    PROVE  Outcome(s, h) \in Outcomes
  BY DEF Outcome, Outcomes

LEMMA FactKindType ==
    ASSUME NEW c \in CommandRecord
    PROVE  FactKind(c) \in FactKinds
  BY DEF FactKind, FactKinds, ReleaseReason, CommandRecord, Types, Reasons

LEMMA FactIncrement ==
    ASSUME facts \in [Reservations -> [FactKinds -> Nat]],
           NEW r \in Reservations, NEW k \in FactKinds
    PROVE  [facts EXCEPT ![r][k] = @ + 1] \in [Reservations -> [FactKinds -> Nat]]
  OBVIOUS

LEMMA EntryType == ASSUME NEW c PROVE Entry(c) \in Points
  BY DEF Entry, Points

LEMMA GotoType ==
    ASSUME LocalOK, NEW w \in Workers, pc[w] # "idle", NEW p \in Points, Goto(w, p)
    PROVE  LocalOK'
  BY DEF LocalOK, Goto

LEMMA GotoWithType ==
    ASSUME LocalOK, NEW w \in Workers, pc[w] # "idle", NEW p \in Points,
           NEW res \in Outcomes \cup {NoOutcome}, GotoWith(w, p, res)
    PROVE  LocalOK'
  BY DEF LocalOK, GotoWith

LEMMA BeginType ==
    ASSUME LocalOK, NEW w \in Workers, NEW c \in CommandRecord, Begin(w, c)
    PROVE  LocalOK'
  BY DEF LocalOK, Begin, Points, MaybeCommand

LEMMA EndType ==
    ASSUME LocalOK, NEW w \in Workers, End(w)
    PROVE  LocalOK'
  BY DEF LocalOK, End, Points, MaybeCommand

LEMMA AbortSweepType ==
    ASSUME TypeInv, NEW w \in Workers
    PROVE  /\ AbortSweep(w) \in [Sweepers -> SUBSET Reservations]
           /\ \A s \in Sweepers : AbortSweep(w)[s] \subseteq due[s]
  BY DEF AbortSweep, TypeInv, TypeOK

LEMMA CompleteType ==
    ASSUME LedgerOK, NEW c \in CommandRecord, c.op \in Ops, InProgressFor(c),
           NEW state \in {"SUCCEEDED", "FAILED"}, NEW res \in Outcomes \cup {NoOutcome},
           Complete(c, state, res)
    PROVE  LedgerOK'
  BY DEF LedgerOK, Complete, InProgressFor

-----------------------------------------------------------------------------
(***************************************************************************)
(* Type correctness                                                        *)
(***************************************************************************)
LEMMA TypeInit == Init => TypeInv
  BY DEF Init, TypeInv, TypeOK, LedgerOK, ReservationsOK, LocalOK, DueExist,
         Statuses, MaybeCommand, FactKinds, Points

(* Only the reserving transaction creates a reservation, and none is ever  *)
(* deleted, so a listed reservation stays one that exists.                 *)
LEMMA TypeStep == TypeInv /\ [Next]_vars => TypeInv'
  <1> SUFFICES ASSUME TypeInv, [Next]_vars PROVE TypeInv'
    OBVIOUS
  <1> USE DEF TypeInv
  <1>a. LedgerOK /\ ReservationsOK /\ LocalOK
    BY DEF TypeOK
  <1>b. UNCHANGED <<status, due>> => DueExist'
    BY DEF DueExist
  <1>c. UNCHANGED ledger => LedgerOK'
    BY <1>a DEF LedgerOK, ledger
  <1>d. UNCHANGED <<stock, status, origin, facts>> => ReservationsOK'
    BY <1>a DEF ReservationsOK
  <1>e. UNCHANGED local => LocalOK'
    BY <1>a DEF LocalOK, local
  <1>f. ASSUME NEW w \in Workers, Throw(w), UNCHANGED status
        PROVE  LocalOK' /\ DueExist' /\ due' \in [Sweepers -> SUBSET Reservations]
    BY <1>f, <1>a, EndType, AbortSweepType DEF Throw, DueExist
  <1>1. ASSUME NEW w \in Workers, NEW c \in Commands, Invoke(w, c)
        PROVE  TypeInv'
    <2>1. LocalOK'
      BY <1>1, <1>a, BeginType, InventoryConstants DEF Invoke
    <2> QED BY <1>1, <2>1, <1>b, <1>c, <1>d DEF Invoke, TypeOK, store
  <1>2. ASSUME NEW w \in Workers, LookupOperation(w)
        PROVE  TypeInv'
    <2>1. pc[w] # "idle" /\ cmd[w].op \in Ops
      BY <1>2, ActiveCommand DEF LookupOperation
    <2>2. CASE Goto(w, "put") /\ UNCHANGED due
      BY <2>1, <2>2, <1>2, <1>a, <1>b, <1>c, <1>d, GotoType DEF LookupOperation, TypeOK, store, Points
    <2>3. CASE Throw(w)
      BY <2>3, <1>2, <1>a, <1>c, <1>d, <1>f DEF LookupOperation, TypeOK, store
    <2>4. CASE Goto(w, Entry(cmd[w])) /\ UNCHANGED due
      BY <2>1, <2>4, <1>2, <1>a, <1>b, <1>c, <1>d, GotoType, EntryType DEF LookupOperation, TypeOK, store
    <2>5. CASE Reply(w, result[cmd[w].op]) /\ UNCHANGED due
      <3>1. result[cmd[w].op] \in Outcomes \cup {NoOutcome}
        BY <2>1, <1>a DEF LedgerOK
      <3>2. LocalOK'
        BY <2>1, <2>5, <3>1, <1>a, GotoWithType DEF Reply, Points
      <3> QED BY <3>2, <2>5, <1>2, <1>b, <1>c, <1>d DEF LookupOperation, TypeOK, store
    <2> QED BY <1>2, <2>2, <2>3, <2>4, <2>5 DEF LookupOperation
  <1>3. ASSUME NEW w \in Workers, PutOperation(w)
        PROVE  TypeInv'
    <2>1. pc[w] # "idle" /\ cmd[w] \in CommandRecord /\ cmd[w].op \in Ops
      BY <1>3, ActiveCommand DEF PutOperation
    <2>2. LocalOK'
      BY <2>1, <1>3, <1>a, GotoType, EntryType DEF PutOperation, Points
    <2>3. LedgerOK'
      BY <2>1, <1>3, <1>a DEF PutOperation, LedgerOK, MaybeCommand
    <2> QED BY <2>2, <2>3, <1>3, <1>b, <1>d DEF PutOperation, TypeOK
  <1>4. ASSUME NEW w \in Workers, ReadReservation(w)
        PROVE  TypeInv'
    <2>1. pc[w] # "idle" /\ cmd[w].rid \in Reservations
      BY <1>4, ActiveCommand DEF ReadReservation
    <2>2. NotActive("NONE") \in Outcomes /\ NotActive(status[cmd[w].rid]) \in Outcomes
      BY <2>1, <1>a, OutcomeType DEF NotActive, ReservationsOK, OutcomeStatuses, Statuses
    <2>3. LocalOK'
      BY <2>1, <2>2, <1>4, <1>a DEF ReadReservation, LocalOK, TypeOK, Points
    <2> QED BY <2>3, <1>4, <1>b, <1>c, <1>d DEF ReadReservation, TypeOK, store
  <1>5. ASSUME NEW w \in Workers, TransactReserve(w)
        PROVE  TypeInv'
    <2>1. /\ pc[w] # "idle" /\ cmd[w] \in CommandRecord /\ cmd[w].op \in Ops
          /\ cmd[w].rid \in Reservations /\ cmd[w].item \in Items
          /\ cmd[w].quantity \in Nat
      BY <1>5, ActiveCommand DEF TransactReserve, WriteReserve
    <2>2. CASE ~(ReserveCondition(cmd[w]) /\ InProgressFor(cmd[w]))
      <3>1. LocalOK'
        BY <2>1, <2>2, <1>5, <1>a, GotoType DEF TransactReserve, WriteReserve, Cancel, Points
      <3> QED BY <3>1, <2>2, <1>5, <1>b, <1>c, <1>d DEF TransactReserve, WriteReserve, TypeOK, store
    <2>3. CASE ReserveCondition(cmd[w]) /\ InProgressFor(cmd[w])
      <3>1. Outcome("RESERVED", "NONE") \in Outcomes
        BY OutcomeType DEF OutcomeStatuses, Statuses
      <3>2. LocalOK'
        BY <2>1, <2>3, <3>1, <1>5, <1>a, GotoWithType DEF TransactReserve, WriteReserve, Reply, Points
      <3>3. LedgerOK'
        BY <2>1, <2>3, <3>1, <1>5, <1>a, CompleteType DEF TransactReserve, WriteReserve
      <3>4. Debited(stock[cmd[w].item], cmd[w]) \in Nat
        BY <2>1, <2>3, <1>a, InventoryConstants
        DEF Debited, ReserveCondition, Covers, ReservationsOK
      <3>5. ReservationsOK'
        <4>1. /\ stock' = [stock EXCEPT ![cmd[w].item] = Debited(stock[cmd[w].item], cmd[w])]
              /\ status' = [status EXCEPT ![cmd[w].rid] = "RESERVED"]
              /\ origin' = [origin EXCEPT ![cmd[w].rid] = cmd[w]]
          BY <2>3, <1>5 DEF TransactReserve, WriteReserve
        <4>2. facts' \in [Reservations -> [FactKinds -> Nat]]
          BY <2>1, <2>3, <1>5, <1>a, FactIncrement DEF TransactReserve, WriteReserve, ReservationsOK, FactKinds
        <4>3. stock' \in [Items -> Nat \cup {NoStock}]
          BY <2>1, <3>4, <4>1, <1>a DEF ReservationsOK
        <4> QED BY <2>1, <4>1, <4>2, <4>3, <1>a DEF ReservationsOK, Statuses, MaybeCommand
      <3>6. DueExist'
        BY <2>1, <2>3, <1>5 DEF TransactReserve, WriteReserve, DueExist, TypeOK, ReservationsOK
      <3> QED BY <3>2, <3>3, <3>5, <3>6, <1>5 DEF TransactReserve, WriteReserve, TypeOK
    <2> QED BY <2>2, <2>3
  <1>6. ASSUME NEW w \in Workers, TransactFinalize(w)
        PROVE  TypeInv'
    <2>1. /\ pc[w] # "idle" /\ cmd[w] \in CommandRecord /\ cmd[w].op \in Ops
          /\ cmd[w].rid \in Reservations
      BY <1>6, ActiveCommand DEF TransactFinalize, WriteFinalize
    <2>2. CASE ~(FinalizeCondition(cmd[w], now[w]) /\ InProgressFor(cmd[w]))
      <3>1. LocalOK'
        BY <2>1, <2>2, <1>6, <1>a, GotoType DEF TransactFinalize, WriteFinalize, Cancel, Points
      <3> QED BY <3>1, <2>2, <1>6, <1>b, <1>c, <1>d DEF TransactFinalize, WriteFinalize, TypeOK, store
    <2>3. CASE FinalizeCondition(cmd[w], now[w]) /\ InProgressFor(cmd[w])
      <3>1. /\ Outcome(Target(cmd[w]), "NONE") \in Outcomes
            /\ Target(cmd[w]) \in Statuses \ {"NONE"}
        BY OutcomeType DEF OutcomeStatuses, Statuses, Target
      <3>2. LocalOK'
        BY <2>1, <2>3, <3>1, <1>6, <1>a, GotoWithType DEF TransactFinalize, WriteFinalize, Reply, Points
      <3>3. LedgerOK'
        BY <2>1, <2>3, <3>1, <1>6, <1>a, CompleteType DEF TransactFinalize, WriteFinalize
      <3>4. status[cmd[w].rid] = "RESERVED" /\ origin[cmd[w].rid] \in CommandRecord
        BY <2>1, <2>3, <1>a DEF FinalizeCondition, ReservationsOK
      <3>5. origin[cmd[w].rid].item \in Items /\ origin[cmd[w].rid].quantity \in Nat
        BY <3>4 DEF CommandRecord
      <3>6. stock' \in [Items -> Nat \cup {NoStock}]
        <4> DEFINE i == origin[cmd[w].rid].item
                   q == origin[cmd[w].rid].quantity
        <4>1. i \in Items /\ q \in Nat /\ stock[i] \in Nat \cup {-1}
          BY <3>5, <1>a DEF ReservationsOK, NoStock
        <4>2. stock[i] + q \in Nat \cup {-1}
          <5> HIDE DEF i, q
          <5> QED BY <4>1
        <4>3. stock' = [stock EXCEPT ![i] = stock[i] + q] \/ stock' = stock
          BY <2>3, <1>6 DEF TransactFinalize, WriteFinalize
        <4> HIDE DEF q
        <4> QED BY <4>1, <4>2, <4>3, <1>a DEF ReservationsOK, NoStock
      <3>7. ReservationsOK'
        <4>1. facts' \in [Reservations -> [FactKinds -> Nat]]
          <5>1. facts' = [facts EXCEPT ![cmd[w].rid][FactKind(cmd[w])] = @ + 1]
            BY <2>3, <1>6 DEF TransactFinalize, WriteFinalize
          <5>2. FactKind(cmd[w]) \in FactKinds
            BY <2>1, FactKindType
          <5> QED BY <2>1, <5>1, <5>2, <1>a, FactIncrement DEF ReservationsOK
        <4>2. status' = [status EXCEPT ![cmd[w].rid] = Target(cmd[w])] /\ UNCHANGED origin
          BY <2>3, <1>6 DEF TransactFinalize, WriteFinalize
        <4>3. status' \in [Reservations -> Statuses]
          BY <2>1, <3>1, <4>2, <1>a DEF ReservationsOK
        <4>4. \A r \in Reservations : status'[r] # "NONE" => status[r] # "NONE"
          BY <3>4, <4>2, <1>a DEF ReservationsOK
        <4> QED BY <3>6, <4>1, <4>2, <4>3, <4>4, <1>a DEF ReservationsOK
      <3>8. DueExist'
        BY <2>1, <2>3, <3>1, <1>6 DEF TransactFinalize, WriteFinalize, DueExist, TypeOK, ReservationsOK
      <3> QED BY <3>2, <3>3, <3>7, <3>8, <1>6 DEF TransactFinalize, WriteFinalize, TypeOK
    <2> QED BY <2>2, <2>3
  <1>7. ASSUME NEW w \in Workers, TransactConflict(w)
        PROVE  TypeInv'
    <2>1. LocalOK'
      BY <1>7, <1>a, GotoType DEF TransactConflict, Cancel, Points
    <2> QED BY <2>1, <1>7, <1>b, <1>c, <1>d DEF TransactConflict, TypeOK, store
  <1>8. ASSUME NEW w \in Workers, RereadAfterCancel(w)
        PROVE  TypeInv'
    <2>1. pc[w] # "idle" /\ cmd[w].op \in Ops
      BY <1>8, ActiveCommand DEF RereadAfterCancel
    <2>2. CASE Reply(w, result[cmd[w].op]) /\ UNCHANGED due
      <3>1. result[cmd[w].op] \in Outcomes \cup {NoOutcome}
        BY <2>1, <1>a DEF LedgerOK
      <3>2. LocalOK'
        BY <2>1, <2>2, <3>1, <1>a, GotoWithType DEF Reply, Points
      <3> QED BY <3>2, <2>2, <1>8, <1>b, <1>c, <1>d DEF RereadAfterCancel, TypeOK, store
    <2>3. CASE Goto(w, "diagnose") /\ UNCHANGED due
      BY <2>1, <2>3, <1>8, <1>a, <1>b, <1>c, <1>d, GotoType DEF RereadAfterCancel, TypeOK, store, Points
    <2>4. CASE Throw(w)
      BY <2>4, <1>8, <1>a, <1>c, <1>d, <1>f DEF RereadAfterCancel, TypeOK, store
    <2> QED BY <1>8, <2>2, <2>3, <2>4 DEF RereadAfterCancel
  <1>9. ASSUME NEW w \in Workers, Diagnose(w)
        PROVE  TypeInv'
    <2>1. pc[w] # "idle" /\ cmd[w].rid \in Reservations
      BY <1>9, ActiveCommand DEF Diagnose
    <2>2. Diagnosis(cmd[w]) \in Outcomes
      BY <2>1, <1>a, OutcomeType DEF Diagnosis, NotActive, ReservationsOK, OutcomeStatuses, Statuses
    <2>3. LocalOK'
      BY <2>1, <2>2, <1>9, <1>a, GotoWithType DEF Diagnose, Points
    <2> QED BY <2>3, <1>9, <1>b, <1>c, <1>d DEF Diagnose, TypeOK, store
  <1>10. ASSUME NEW w \in Workers, RecordFailure(w)
         PROVE  TypeInv'
    <2>1. pc[w] # "idle" /\ cmd[w] \in CommandRecord /\ cmd[w].op \in Ops
      BY <1>10, ActiveCommand DEF RecordFailure
    <2>2. LocalOK'
      BY <2>1, <1>10, <1>a, GotoType DEF RecordFailure, Points
    <2>3. outcome[w] \in Outcomes \cup {NoOutcome}
      BY <1>a DEF LocalOK
    <2>4. LedgerOK'
      BY <2>1, <2>3, <1>10, <1>a, <1>c, CompleteType DEF RecordFailure
    <2> QED BY <2>2, <2>4, <1>10, <1>b, <1>d DEF RecordFailure, TypeOK
  <1>11. ASSUME NEW w \in Workers, RereadAfterFailure(w)
         PROVE  TypeInv'
    <2>1. pc[w] # "idle" /\ cmd[w].op \in Ops
      BY <1>11, ActiveCommand DEF RereadAfterFailure
    <2>2. CASE Reply(w, result[cmd[w].op]) /\ UNCHANGED due
      <3>1. result[cmd[w].op] \in Outcomes \cup {NoOutcome}
        BY <2>1, <1>a DEF LedgerOK
      <3>2. LocalOK'
        BY <2>1, <2>2, <3>1, <1>a, GotoWithType DEF Reply, Points
      <3> QED BY <3>2, <2>2, <1>11, <1>b, <1>c, <1>d DEF RereadAfterFailure, TypeOK, store
    <2>3. CASE Throw(w)
      BY <2>3, <1>11, <1>a, <1>c, <1>d, <1>f DEF RereadAfterFailure, TypeOK, store
    <2> QED BY <1>11, <2>2, <2>3 DEF RereadAfterFailure
  <1>12. ASSUME NEW w \in Workers, Return(w)
         PROVE  TypeInv'
    <2>1. LocalOK'
      BY <1>12, <1>a, EndType DEF Return
    <2>2. due' \in [Sweepers -> SUBSET Reservations] /\ DueExist'
      BY <1>12, AbortSweepType DEF Return, TypeOK, DueExist, store
    <2> QED BY <2>1, <2>2, <1>12, <1>c, <1>d DEF Return, TypeOK, store
  <1>13. ASSUME NEW w \in Workers, Lose(w)
         PROVE  TypeInv'
    BY <1>13, <1>c, <1>d, <1>f DEF Lose, TypeOK, store
  <1>14. ASSUME NEW w \in Sweepers, NEW found \in SUBSET Reservations, StartSweep(w, found)
         PROVE  TypeInv'
    BY <1>14, <1>c, <1>d, <1>e DEF StartSweep, Expired, TypeOK, DueExist, store
  <1>15. ASSUME NEW w \in Sweepers, NEW r \in Reservations, SweepNext(w, r)
         PROVE  TypeInv'
    <2>1. w \in Workers /\ origin[r] \in CommandRecord
      BY <1>15, <1>a, InventoryConstants DEF SweepNext, DueExist, ReservationsOK
    <2>2. SweepCommand(r) \in CommandRecord
      BY <2>1 DEF SweepCommand, CommandRecord, SweepOp, Ops, Types, Reasons
    <2>3. LocalOK'
      BY <2>1, <2>2, <1>15, <1>a, BeginType DEF SweepNext
    <2> QED BY <1>15, <2>3, <1>c, <1>d DEF SweepNext, TypeOK, DueExist, store
  <1>16. ASSUME Tick PROVE TypeInv'
    BY <1>16, <1>b, <1>c, <1>d, <1>e DEF Tick, TypeOK, store
  <1>17. ASSUME UNCHANGED vars PROVE TypeInv'
    BY <1>17, <1>b, <1>c, <1>d, <1>e DEF vars, TypeOK, store
  <1> QED BY <1>1, <1>2, <1>3, <1>4, <1>5, <1>6, <1>7, <1>8, <1>9, <1>10, <1>11, <1>12,
             <1>13, <1>14, <1>15, <1>16, <1>17 DEF Next, Step

(* Every reachable state is well typed. *)
THEOREM TypeCorrect == Spec => []TypeInv
  <1>1. Init => TypeInv
    BY TypeInit
  <1>2. TypeInv /\ [Next]_vars => TypeInv'
    BY TypeStep
  <1> QED BY <1>1, <1>2, PTL DEF Spec

-----------------------------------------------------------------------------
(***************************************************************************)
(* What a step may do to the tables                                        *)
(***************************************************************************)
StartOperation(c) ==
    /\ opState[c.op] = "ABSENT"
    /\ opState' = [opState EXCEPT ![c.op] = "IN_PROGRESS"]
    /\ payload' = [payload EXCEPT ![c.op] = c]
    /\ UNCHANGED <<stock, status, origin, result, facts>>

FailOperation(c, res) ==
    /\ InProgressFor(c)
    /\ Complete(c, "FAILED", res)
    /\ UNCHANGED <<stock, status, origin, facts>>

ReserveWins(c) ==
    /\ c.type = "ReserveInventory" /\ ReserveCondition(c) /\ InProgressFor(c)
    /\ WriteReserve(c)

FinalizeWins(c, t) ==
    /\ c.type # "ReserveInventory" /\ FinalizeCondition(c, t) /\ InProgressFor(c)
    /\ WriteFinalize(c)

StoreStep ==
    \/ UNCHANGED store
    \/ \E c \in CommandRecord :
          \/ StartOperation(c)
          \/ \E res \in Outcomes \cup {NoOutcome} : FailOperation(c, res)
          \/ ReserveWins(c)
          \/ \E t \in Nat : t <= clock /\ FinalizeWins(c, t)

(* Every time a worker has read lies in the past. *)
NowInPast == \A w \in Workers : now[w] <= clock

(* Whoever takes it, a step starts an operation, records its failure, or   *)
(* writes all of one winning transaction; everything else leaves the       *)
(* tables alone.                                                           *)
LEMMA Writers ==
    ASSUME TypeInv, NowInPast, [Next]_vars, ~ UNCHANGED store
    PROVE  \E w \in Workers :
              /\ cmd[w] \in CommandRecord /\ outcome[w] \in Outcomes \cup {NoOutcome}
              /\ now[w] \in Nat /\ now[w] <= clock
              /\ \/ StartOperation(cmd[w])
                 \/ pc[w] = "fail" /\ FailOperation(cmd[w], outcome[w])
                 \/ ReserveWins(cmd[w])
                 \/ FinalizeWins(cmd[w], now[w])
  <1>1. \E w \in Workers : \/ PutOperation(w) \/ RecordFailure(w)
                           \/ TransactReserve(w) \/ TransactFinalize(w)
    BY DEF Next, Step, vars, Invoke, LookupOperation, ReadReservation, TransactConflict,
           RereadAfterCancel, Diagnose, RereadAfterFailure, Return, Lose, StartSweep,
           SweepNext, Tick
  <1>2. PICK w \in Workers : \/ PutOperation(w) \/ RecordFailure(w)
                             \/ TransactReserve(w) \/ TransactFinalize(w)
    BY <1>1
  <1>3. pc[w] # "idle"
    BY <1>2 DEF PutOperation, RecordFailure, TransactReserve, TransactFinalize
  <1>4. /\ cmd[w] \in CommandRecord /\ outcome[w] \in Outcomes \cup {NoOutcome}
        /\ now[w] \in Nat /\ now[w] <= clock
    BY <1>3, ActiveCommand DEF TypeInv, TypeOK, LocalOK, NowInPast
  <1>5. PutOperation(w) => StartOperation(cmd[w])
    BY DEF PutOperation, StartOperation, store, ledger
  <1>6. RecordFailure(w) => pc[w] = "fail" /\ FailOperation(cmd[w], outcome[w])
    BY DEF RecordFailure, FailOperation, store
  <1>7. TransactReserve(w) => ReserveWins(cmd[w])
    BY DEF TransactReserve, ReserveWins
  <1>8. TransactFinalize(w) => FinalizeWins(cmd[w], now[w])
    BY DEF TransactFinalize, FinalizeWins
  <1> QED BY <1>2, <1>4, <1>5, <1>6, <1>7, <1>8

LEMMA StoreSteps == TypeInv /\ NowInPast /\ [Next]_vars => StoreStep
  BY Writers DEF StoreStep

LEMMA NowInPastStep == TypeInv /\ NowInPast /\ [Next]_vars => NowInPast'
  <1> SUFFICES ASSUME TypeInv, NowInPast, [Next]_vars PROVE NowInPast'
    OBVIOUS
  <1>1. clock \in Nat /\ now \in [Workers -> Nat]
    BY DEF TypeInv, TypeOK, LocalOK
  <1>2. clock' = clock \/ clock' = clock + 1
    BY DEF Next, Step, vars, Invoke, LookupOperation, PutOperation, ReadReservation,
           TransactReserve, TransactFinalize, TransactConflict, RereadAfterCancel, Diagnose,
           RecordFailure, RereadAfterFailure, Return, Lose, StartSweep, SweepNext, Tick
  <1>3. now' = now \/ \E w \in Workers : \/ now' = [now EXCEPT ![w] = 0]
                                         \/ now' = [now EXCEPT ![w] = clock] /\ clock' = clock
    BY DEF Next, Step, vars, local, Invoke, LookupOperation, PutOperation, ReadReservation,
           TransactReserve, TransactFinalize, TransactConflict, RereadAfterCancel, Diagnose,
           RecordFailure, RereadAfterFailure, Return, Lose, StartSweep, SweepNext, Tick,
           Goto, GotoWith, Reply, Begin, End, Throw, Cancel
  <1> QED BY <1>1, <1>2, <1>3 DEF NowInPast

-----------------------------------------------------------------------------
(***************************************************************************)
(* Stock                                                                   *)
(***************************************************************************)
(* The units 1..q of reservation r, as TakenUnits numbers them. *)
UnitsOf(r, q) == {r} \X (1..q)

LEMMA UnitsCount ==
    ASSUME NEW r, NEW q \in Nat
    PROVE  IsFiniteSet(UnitsOf(r, q)) /\ Cardinality(UnitsOf(r, q)) = q
  <1>1. IsFiniteSet({r}) /\ Cardinality({r}) = 1
    BY FS_Singleton
  <1>2. IsFiniteSet(1..q) /\ Cardinality(1..q) = q
    <2>1. IsFiniteSet(1..q) /\ Cardinality(1..q) = IF 1 > q THEN 0 ELSE q - 1 + 1
      BY FS_Interval
    <2>2. 1 > q => q = 0
      OBVIOUS
    <2> QED BY <2>1, <2>2
  <1>3. /\ IsFiniteSet({r} \X (1..q))
        /\ Cardinality({r} \X (1..q)) = Cardinality({r}) * Cardinality(1..q)
    BY <1>1, <1>2, FS_Product, Zenon
  <1>4. Cardinality({r}) * Cardinality(1..q) = q
    BY <1>1, <1>2
  <1> QED BY <1>3, <1>4, Zenon DEF UnitsOf

LEMMA UnitsAdded ==
    ASSUME NEW S, IsFiniteSet(S), NEW r, NEW q \in Nat, S \cap UnitsOf(r, q) = {}
    PROVE  Cardinality(S \cup UnitsOf(r, q)) = Cardinality(S) + q
  <1>1. IsFiniteSet(UnitsOf(r, q)) /\ Cardinality(UnitsOf(r, q)) = q
    BY UnitsCount
  <1>2. Cardinality(S \cup UnitsOf(r, q)) = Cardinality(S) + q - Cardinality({})
    BY <1>1, FS_Union
  <1> QED BY <1>2, FS_EmptySet, FS_CardinalityType

LEMMA UnitsRemoved ==
    ASSUME NEW S, IsFiniteSet(S), NEW r, NEW q \in Nat, UnitsOf(r, q) \subseteq S
    PROVE  Cardinality(S \ UnitsOf(r, q)) = Cardinality(S) - q
  <1>1. S \cap UnitsOf(r, q) = UnitsOf(r, q)
    OBVIOUS
  <1>2. Cardinality(UnitsOf(r, q)) = q
    BY UnitsCount
  <1> QED BY <1>1, <1>2, FS_Difference

LEMMA TakenUnitsFinite ==
    ASSUME NEW i
    PROVE  IsFiniteSet(TakenUnits(i)) /\ Cardinality(TakenUnits(i)) \in Nat
  <1>1. IsFiniteSet(1..InitialQuantity)
    BY FS_Interval, InventoryConstants
  <1>2. IsFiniteSet(Reservations \X (1..InitialQuantity))
    BY <1>1, FS_Product, InventoryConstants
  <1>3. TakenUnits(i) \in SUBSET (Reservations \X (1..InitialQuantity))
    BY DEF TakenUnits
  <1> QED BY <1>2, <1>3, FS_Subset, FS_CardinalityType

(* No reservation took more than there ever was. *)
TakenBounded == \A r \in Reservations : Taken(r) => origin[r].quantity <= InitialQuantity
StockInv == StockConserved /\ TakenBounded

Available(i) == IF stock[i] = NoStock THEN InitialQuantity ELSE stock[i]

LEMMA AvailableAndTaken ==
    ASSUME TypeInv, StockInv, NEW i \in Items
    PROVE  /\ Available(i) \in Nat
           /\ Available(i) + Cardinality(TakenUnits(i)) = InitialQuantity
  <1>1. stock[i] = NoStock \/ stock[i] \in Nat
    BY DEF TypeInv, TypeOK, ReservationsOK
  <1>2. CASE stock[i] = NoStock
    <2>1. TakenUnits(i) = {}
      BY <1>2 DEF StockInv, StockConserved
    <2> QED BY <1>2, <2>1, FS_EmptySet, InventoryConstants DEF Available
  <1>3. CASE stock[i] # NoStock
    BY <1>1, <1>3 DEF StockInv, StockConserved, Available
  <1> QED BY <1>2, <1>3

LEMMA StockInit == Init => StockInv
  BY DEF Init, StockInv, StockConserved, TakenBounded, TakenUnits, Taken

LEMMA StockUnchanged ==
    ASSUME StockInv, UNCHANGED <<stock, status, origin>>
    PROVE  StockInv'
  BY DEF StockInv, StockConserved, TakenBounded, TakenUnits, Taken

(* The debit is exactly what the new reservation takes. *)
LEMMA StockReserve ==
    ASSUME TypeInv, StockInv, NEW c \in CommandRecord, ReserveWins(c)
    PROVE  StockInv'
  <1> DEFINE r == c.rid
             q == c.quantity
  <1>1. r \in Reservations /\ q \in Nat /\ c.item \in Items
    BY DEF CommandRecord
  <1>2. status[r] = "NONE" /\ q <= Available(c.item)
    BY DEF ReserveWins, ReserveCondition, Covers, Available
  <1>3. /\ status' = [status EXCEPT ![r] = "RESERVED"]
        /\ origin' = [origin EXCEPT ![r] = c]
        /\ stock' = [stock EXCEPT ![c.item] = Available(c.item) - q]
    BY DEF ReserveWins, WriteReserve, Debited, Available
  <1>4. /\ status \in [Reservations -> Statuses] /\ origin \in [Reservations -> MaybeCommand]
        /\ stock \in [Items -> Nat \cup {NoStock}]
    BY DEF TypeInv, TypeOK, ReservationsOK
  <1>5. /\ Available(c.item) \in Nat /\ Cardinality(TakenUnits(c.item)) \in Nat
        /\ Available(c.item) + Cardinality(TakenUnits(c.item)) = InitialQuantity
    BY <1>1, AvailableAndTaken, TakenUnitsFinite
  <1>6. q <= InitialQuantity
    BY <1>1, <1>2, <1>5, InventoryConstants
  <1>7. \A s \in Reservations :
          /\ s # r => origin'[s] = origin[s] /\ (Taken(s)' <=> Taken(s))
          /\ s = r => origin'[s] = c /\ Taken(s)' /\ ~Taken(s)
    BY <1>1, <1>2, <1>3, <1>4 DEF Taken
  <1>8. TakenUnits(c.item)' = TakenUnits(c.item) \cup UnitsOf(r, q)
    BY <1>1, <1>6, <1>7, InventoryConstants DEF TakenUnits, UnitsOf
  <1>9. TakenUnits(c.item) \cap UnitsOf(r, q) = {}
    BY <1>7 DEF TakenUnits, UnitsOf
  <1>10. Cardinality(TakenUnits(c.item)') = Cardinality(TakenUnits(c.item)) + q
    BY <1>1, <1>8, <1>9, TakenUnitsFinite, UnitsAdded
  <1>11. \A i \in Items : i # c.item => TakenUnits(i)' = TakenUnits(i) /\ stock'[i] = stock[i]
    BY <1>1, <1>3, <1>4, <1>7 DEF TakenUnits
  <1>12. stock'[c.item] = Available(c.item) - q
    BY <1>1, <1>3, <1>4
  <1>13. stock'[c.item] # NoStock /\ stock'[c.item] + Cardinality(TakenUnits(c.item)') = InitialQuantity
    <2> HIDE DEF q
    <2> QED BY <1>1, <1>2, <1>5, <1>10, <1>12, InventoryConstants DEF NoStock
  <1>14. StockConserved'
    BY <1>11, <1>13 DEF StockInv, StockConserved
  <1>15. TakenBounded'
    BY <1>6, <1>7 DEF StockInv, TakenBounded
  <1> QED BY <1>14, <1>15 DEF StockInv

(* A release returns exactly what its reservation took, a commit keeps it. *)
LEMMA StockFinalize ==
    ASSUME TypeInv, StockInv, NEW c \in CommandRecord, NEW t, FinalizeWins(c, t)
    PROVE  StockInv'
  <1> DEFINE r == c.rid
             q == origin[r].quantity
  <1>1. r \in Reservations /\ status[r] = "RESERVED" /\ Taken(r)
    BY DEF CommandRecord, FinalizeWins, FinalizeCondition, Taken
  <1>2. origin[r] \in CommandRecord
    BY <1>1 DEF TypeInv, TypeOK, ReservationsOK
  <1>0. PICK i \in Items : i = origin[r].item
    BY <1>2 DEF CommandRecord
  <1>3. i \in Items /\ q \in Nat /\ q <= InitialQuantity
    BY <1>1, <1>2 DEF CommandRecord, StockInv, TakenBounded
  <1>4. /\ status' = [status EXCEPT ![r] = Target(c)] /\ UNCHANGED origin
        /\ stock' = IF Target(c) = "RELEASED" THEN [stock EXCEPT ![i] = stock[i] + q] ELSE stock
    BY <1>0 DEF FinalizeWins, WriteFinalize
  <1>5. /\ status \in [Reservations -> Statuses]
        /\ stock \in [Items -> Nat \cup {NoStock}]
    BY DEF TypeInv, TypeOK, ReservationsOK
  <1>6. TakenBounded'
    BY <1>1, <1>4, <1>5 DEF StockInv, TakenBounded, Taken
  <1>7. CASE c.type = "CommitInventory"
    <2>1. \A s \in Reservations : Taken(s)' <=> Taken(s)
      BY <1>1, <1>4, <1>5, <1>7 DEF Taken, Target
    <2>2. \A j \in Items : TakenUnits(j)' = TakenUnits(j)
      BY <2>1, <1>4 DEF TakenUnits
    <2>3. stock' = stock
      BY <1>4, <1>7 DEF Target
    <2> QED BY <2>2, <2>3, <1>6 DEF StockInv, StockConserved
  <1>8. CASE c.type # "CommitInventory"
    <2>1. Target(c) = "RELEASED"
      BY <1>8 DEF Target
    <2>2. \A s \in Reservations : Taken(s)' <=> (Taken(s) /\ s # r)
      BY <1>1, <1>4, <1>5, <2>1 DEF Taken
    <2>3. TakenUnits(i)' = TakenUnits(i) \ UnitsOf(r, q)
      BY <2>2, <1>0, <1>1, <1>3, <1>4 DEF TakenUnits, UnitsOf
    <2>4. UnitsOf(r, q) \subseteq TakenUnits(i)
      BY <1>0, <1>1, <1>3, InventoryConstants DEF TakenUnits, UnitsOf
    <2>5. Cardinality(TakenUnits(i)') = Cardinality(TakenUnits(i)) - q
      BY <1>3, <2>3, <2>4, TakenUnitsFinite, UnitsRemoved
    <2>6. \A j \in Items : j # i => TakenUnits(j)' = TakenUnits(j) /\ stock'[j] = stock[j]
      BY <2>2, <1>0, <1>1, <1>3, <1>4, <1>5 DEF TakenUnits
    <2>7. stock'[i] = stock[i] + q
      BY <2>1, <1>3, <1>4, <1>5
    <2>8. CASE stock[i] # NoStock
      <3>1. stock[i] \in Nat /\ stock[i] + Cardinality(TakenUnits(i)) = InitialQuantity
        BY <2>8, <1>3, <1>5 DEF StockInv, StockConserved
      <3>2. Cardinality(TakenUnits(i)) \in Nat
        BY TakenUnitsFinite
      <3>3. stock'[i] # NoStock /\ stock'[i] + Cardinality(TakenUnits(i)') = InitialQuantity
        <4>1. \A a, b, d \in Int :
                 a >= 0 /\ d >= 0 /\ a + b = InitialQuantity
                 => a + d # -1 /\ (a + d) + (b - d) = InitialQuantity
          BY InventoryConstants
        <4> HIDE DEF q
        <4> QED BY <4>1, <3>1, <3>2, <2>5, <2>7, <1>3 DEF NoStock
      <3>4. StockConserved'
        BY <3>3, <2>6 DEF StockInv, StockConserved
      <3> QED BY <3>4, <1>6 DEF StockInv
    <2>9. CASE stock[i] = NoStock
      <3>1. TakenUnits(i) = {}
        BY <2>9, <1>3 DEF StockInv, StockConserved
      <3>2. q = 0
        <4>1. UnitsOf(r, q) = {}
          BY <3>1, <2>4
        <4>2. Cardinality(UnitsOf(r, q)) = q
          BY UnitsCount, <1>3
        <4> QED BY <4>1, <4>2, FS_EmptySet
      <3>3. stock'[i] = NoStock
        BY <2>9, <2>7, <3>2 DEF NoStock
      <3>4. TakenUnits(i)' = {}
        BY <3>1, <2>3
      <3>5. StockConserved'
        BY <3>3, <3>4, <2>6 DEF StockInv, StockConserved
      <3> QED BY <3>5, <1>6 DEF StockInv
    <2> QED BY <2>8, <2>9
  <1> QED BY <1>7, <1>8

LEMMA StockStep == TypeInv /\ StockInv /\ StoreStep => StockInv'
  <1> SUFFICES ASSUME TypeInv, StockInv, StoreStep PROVE StockInv'
    OBVIOUS
  <1>1. CASE UNCHANGED store
    BY <1>1, StockUnchanged DEF store
  <1>2. ASSUME NEW c \in CommandRecord, StartOperation(c) PROVE StockInv'
    BY <1>2, StockUnchanged DEF StartOperation
  <1>3. ASSUME NEW c \in CommandRecord, NEW res, FailOperation(c, res) PROVE StockInv'
    BY <1>3, StockUnchanged DEF FailOperation
  <1>4. ASSUME NEW c \in CommandRecord, ReserveWins(c) PROVE StockInv'
    BY <1>4, StockReserve
  <1>5. ASSUME NEW c \in CommandRecord, NEW t \in Nat, FinalizeWins(c, t) PROVE StockInv'
    BY <1>5, StockFinalize
  <1> QED BY <1>1, <1>2, <1>3, <1>4, <1>5 DEF StoreStep

(* Every record of the service, and every worker's own state, keeps the    *)
(* shape the code gives it.                                                *)
THEOREM TypeIsCorrect == Spec => []TypeOK
  <1>1. TypeInv => TypeOK
    BY DEF TypeInv
  <1> QED BY <1>1, TypeCorrect, PTL

(* No invocation works with a time that has not come yet.                  *)
THEOREM NowIsPast == Spec => []NowInPast
  <1>1. Init => NowInPast
    BY DEF Init, NowInPast
  <1>2. TypeInv /\ NowInPast /\ [Next]_vars => NowInPast'
    BY NowInPastStep
  <1> QED BY <1>1, <1>2, TypeCorrect, PTL DEF Spec

(* No unit of stock is sold twice, lost or invented, for any number of     *)
(* concurrent invocations, retries, sweeps and losses.                     *)
THEOREM StockIsConserved == Spec => []StockConserved
  <1>1. Init => StockInv
    BY StockInit
  <1>2. TypeInv /\ NowInPast /\ StockInv /\ [Next]_vars => StockInv'
    BY StockStep, StoreSteps
  <1>3. StockInv => StockConserved
    BY DEF StockInv
  <1> QED BY <1>1, <1>2, <1>3, TypeCorrect, NowIsPast, PTL DEF Spec

-----------------------------------------------------------------------------
(***************************************************************************)
(* What never goes back                                                    *)
(***************************************************************************)
(* A reservation that exists keeps its origin, one that is final its       *)
(* status, and time only advances.                                         *)
Forward ==
    /\ clock \in Nat /\ clock' \in Nat /\ clock <= clock'
    /\ \A r \in Reservations :
          /\ status[r] # "NONE" => status'[r] # "NONE" /\ origin'[r] = origin[r]
          /\ status[r] \in Final => status'[r] = status[r]

LEMMA StoreForward == TypeInv /\ StoreStep =>
    \A r \in Reservations :
        /\ status[r] # "NONE" => status'[r] # "NONE" /\ origin'[r] = origin[r]
        /\ status[r] \in Final => status'[r] = status[r]
  <1> SUFFICES ASSUME TypeInv, StoreStep, NEW r \in Reservations
               PROVE  /\ status[r] # "NONE" => status'[r] # "NONE" /\ origin'[r] = origin[r]
                      /\ status[r] \in Final => status'[r] = status[r]
    OBVIOUS
  <1>a. status \in [Reservations -> Statuses] /\ origin \in [Reservations -> MaybeCommand]
    BY DEF TypeInv, TypeOK, ReservationsOK
  <1>1. CASE UNCHANGED <<status, origin>>
    BY <1>1
  <1>2. ASSUME NEW c \in CommandRecord, ReserveWins(c)
        PROVE  r = c.rid \/ (status'[r] = status[r] /\ origin'[r] = origin[r])
    BY <1>2, <1>a DEF ReserveWins, WriteReserve
  <1>3. ASSUME NEW c \in CommandRecord, ReserveWins(c) PROVE status[c.rid] = "NONE"
    BY <1>3 DEF ReserveWins, ReserveCondition
  <1>4. ASSUME NEW c \in CommandRecord, NEW t, FinalizeWins(c, t)
        PROVE  /\ r = c.rid => status[r] = "RESERVED" /\ status'[r] = Target(c)
               /\ r # c.rid => status'[r] = status[r]
               /\ origin' = origin
    BY <1>4, <1>a DEF FinalizeWins, WriteFinalize, FinalizeCondition
  <1> QED BY <1>1, <1>2, <1>3, <1>4
          DEF StoreStep, StartOperation, FailOperation, store, Final, Target

LEMMA ClockForward == TypeInv /\ [Next]_vars => clock \in Nat /\ clock' \in Nat /\ clock <= clock'
  <1>1. TypeInv => clock \in Nat
    BY DEF TypeInv, TypeOK
  <1>2. [Next]_vars => clock' = clock \/ clock' = clock + 1
    BY DEF Next, Step, vars, Invoke, LookupOperation, PutOperation, ReadReservation,
           TransactReserve, TransactFinalize, TransactConflict, RereadAfterCancel, Diagnose,
           RecordFailure, RereadAfterFailure, Return, Lose, StartSweep, SweepNext, Tick
  <1> QED BY <1>1, <1>2

LEMMA StepForward == TypeInv /\ NowInPast /\ [Next]_vars => Forward
  BY StoreSteps, StoreForward, ClockForward DEF Forward

LEMMA ExpiredForward ==
    ASSUME TypeInv, Forward, NEW r \in Reservations, Expired(r)
    PROVE  Expired(r)'
  <1>1. origin[r] \in CommandRecord /\ origin[r].expiresAt \in Nat
    BY DEF Expired, TypeInv, TypeOK, ReservationsOK, CommandRecord
  <1> QED BY <1>1 DEF Forward, Expired

-----------------------------------------------------------------------------
(***************************************************************************)
(* Expiry                                                                  *)
(***************************************************************************)
LEMMA ExpiryStep == TypeInv /\ NoEarlyExpiry /\ StoreStep /\ Forward => NoEarlyExpiry'
  <1> SUFFICES ASSUME TypeInv, NoEarlyExpiry, StoreStep, Forward,
                      NEW r \in Reservations, facts'[r]["CHECKOUT_EXPIRED"] > 0
               PROVE  Expired(r)'
    BY DEF NoEarlyExpiry
  <1>a. /\ facts \in [Reservations -> [FactKinds -> Nat]] /\ clock \in Nat
        /\ status \in [Reservations -> Statuses] /\ origin \in [Reservations -> MaybeCommand]
    BY DEF TypeInv, TypeOK, ReservationsOK
  <1>1. CASE facts[r]["CHECKOUT_EXPIRED"] > 0
    BY <1>1, ExpiredForward DEF NoEarlyExpiry
  <1>2. CASE ~(facts[r]["CHECKOUT_EXPIRED"] > 0)
    <2>1. facts' # facts
      BY <1>2
    <2>2. ASSUME NEW c \in CommandRecord, ReserveWins(c) PROVE FALSE
      <3>1. facts' = [facts EXCEPT ![c.rid]["RESERVED"] = @ + 1]
        BY <2>2 DEF ReserveWins, WriteReserve
      <3>2. facts'[r]["CHECKOUT_EXPIRED"] = facts[r]["CHECKOUT_EXPIRED"]
        BY <3>1, <1>a DEF FactKinds
      <3> QED BY <3>2, <1>2
    <2>3. ASSUME NEW c \in CommandRecord, NEW t \in Nat, t <= clock, FinalizeWins(c, t)
          PROVE  Expired(r)
      <3>1. facts' = [facts EXCEPT ![c.rid][FactKind(c)] = @ + 1]
        BY <2>3 DEF FinalizeWins, WriteFinalize
      <3>2. r = c.rid /\ FactKind(c) = "CHECKOUT_EXPIRED"
        BY <3>1, <1>2, <1>a DEF FactKinds
      <3>3. ExpiredRelease(c)
        BY <3>2, <2>3 DEF FactKind, ExpiredRelease, FinalizeWins, CommandRecord, Types
      <3>4. origin[r].expiresAt <= t /\ status[r] = "RESERVED"
        BY <3>2, <3>3, <2>3 DEF FinalizeWins, FinalizeCondition, DeadlineAllows
      <3>5. origin[r].expiresAt \in Nat
        BY <3>4 DEF TypeInv, TypeOK, ReservationsOK, CommandRecord
      <3> QED BY <3>4, <3>5, <2>3, <1>a DEF Expired
    <2> QED BY <2>1, <2>2, <2>3, ExpiredForward
            DEF StoreStep, StartOperation, FailOperation, store
  <1> QED BY <1>1, <1>2

(* An expiry never takes a reservation before its deadline, whoever asks   *)
(* for it and however old the time it read.                                *)
THEOREM NoReservationExpiresEarly == Spec => []NoEarlyExpiry
  <1>1. Init => NoEarlyExpiry
    BY DEF Init, NoEarlyExpiry, FactKinds
  <1>2. TypeInv /\ NowInPast /\ NoEarlyExpiry /\ [Next]_vars => NoEarlyExpiry'
    BY ExpiryStep, StoreSteps, StepForward
  <1> QED BY <1>1, <1>2, TypeCorrect, NowIsPast, PTL DEF Spec

-----------------------------------------------------------------------------
(***************************************************************************)
(* Refused releases                                                        *)
(***************************************************************************)
(* The releases whose deadline cannot be in the way.                       *)
Sure(c) ==
    /\ c.type = "ReleaseInventory"
    /\ ReleaseReason(c) = "COMPENSATION" \/ c.op = SweepOp(c.rid)

(* A sweep works on a deadline that has passed.                            *)
SweepsLate(w) ==
    pc[w] # "idle" /\ cmd[w].op = SweepOp(cmd[w].rid) /\ ExpiredRelease(cmd[w])
    => Expired(cmd[w].rid)

(* What a worker may still rely on after it read the reservation, and what *)
(* it knows of the status that beat it.                                    *)
Witnessed(w) ==
    LET c == cmd[w]
        held == outcome[w].reservationStatus IN
    /\ pc[w] = "fail" => held \in Promise!Passed(status[c.rid])
    /\ pc[w] = "transact" /\ Sure(c) =>
          status[c.rid] # "NONE" /\ DeadlineAllows(c, origin[c.rid].expiresAt, now[w])
    /\ pc[w] \in {"refused", "diagnose"} /\ Sure(c) => status[c.rid] \in Final
    /\ pc[w] = "fail" /\ Sure(c) => held = "NONE" \/ (held \in Final /\ status[c.rid] = held)

DueLate == \A s \in Sweepers : \A r \in due[s] : Expired(r)

WitnessInv == DueLate /\ \A w \in Workers : SweepsLate(w) /\ Witnessed(w)

Same(w) == pc'[w] = pc[w] /\ cmd'[w] = cmd[w] /\ now'[w] = now[w] /\ outcome'[w] = outcome[w]

(* Only a worker's own actions change what it holds. *)
LEMMA OwnAction ==
    ASSUME TypeInv, [Next]_vars, NEW w \in Workers, ~Same(w)
    PROVE  \/ \E c \in Commands : Invoke(w, c)
           \/ Step(w) \/ TransactConflict(w) \/ Lose(w)
           \/ \E r \in Reservations : w \in Sweepers /\ SweepNext(w, r)
  <1>a. /\ pc \in [Workers -> Points] /\ cmd \in [Workers -> MaybeCommand]
        /\ now \in [Workers -> Nat] /\ outcome \in [Workers -> Outcomes \cup {NoOutcome}]
        /\ Sweepers \subseteq Workers
    BY InventoryConstants DEF TypeInv, TypeOK, LocalOK
  <1> DEFINE Alike(u) == \A v \in Workers : v # u => Same(v)
  <1>1. ASSUME NEW u \in Workers, NEW p, NEW res, Goto(u, p) \/ GotoWith(u, p, res) \/ End(u)
        PROVE  Alike(u)
    BY <1>1, <1>a DEF Same, Goto, GotoWith, End
  <1>2. ASSUME NEW u \in Workers, NEW c, Begin(u, c) PROVE Alike(u)
    BY <1>2, <1>a DEF Same, Begin
  <1>3. ASSUME NEW u \in Workers, ReadReservation(u) PROVE Alike(u)
    BY <1>3, <1>a DEF Same, ReadReservation
  <1>4. ASSUME NEW u \in Workers, Step(u) \/ TransactConflict(u) \/ Lose(u) PROVE Alike(u)
    BY <1>4, <1>1, <1>3
       DEF Step, LookupOperation, PutOperation, TransactReserve, TransactFinalize,
           TransactConflict, RereadAfterCancel, Diagnose, RecordFailure, RereadAfterFailure,
           Return, Lose, Throw, Reply, Cancel
  <1>5. ASSUME NEW u \in Workers, NEW c \in Commands, Invoke(u, c) PROVE Alike(u)
    BY <1>5, <1>2 DEF Invoke
  <1>6. ASSUME NEW u \in Sweepers, NEW r \in Reservations, SweepNext(u, r) PROVE Alike(u)
    BY <1>6, <1>2, <1>a DEF SweepNext
  <1>7. ~ UNCHANGED local
    BY DEF Same, local
  <1> QED BY <1>4, <1>5, <1>6, <1>7, <1>a DEF Next, vars, StartSweep, Tick

LEMMA WitnessKept ==
    ASSUME TypeInv, Forward, NEW w \in Workers, SweepsLate(w), Witnessed(w), Same(w)
    PROVE  SweepsLate(w)' /\ Witnessed(w)'
  <1>1. CASE pc[w] = "idle"
    BY <1>1 DEF SweepsLate, Witnessed, Same
  <1>2. CASE pc[w] # "idle"
    <2>1. cmd[w].rid \in Reservations /\ status[cmd[w].rid] \in Statuses
      BY <1>2, ActiveCommand DEF TypeInv, TypeOK, ReservationsOK
    <2>2. SweepsLate(w)'
      BY <1>2, <2>1, ExpiredForward DEF SweepsLate, Same
    <2>3. /\ status[cmd[w].rid] # "NONE" =>
                 status'[cmd[w].rid] # "NONE" /\ origin'[cmd[w].rid] = origin[cmd[w].rid]
          /\ status[cmd[w].rid] \in Final => status'[cmd[w].rid] = status[cmd[w].rid]
      BY <2>1 DEF Forward
    <2>4. Promise!Passed(status[cmd[w].rid]) \subseteq Promise!Passed(status'[cmd[w].rid])
      BY <2>1, <2>3 DEF Promise!Passed, Statuses, Final
    <2>5. Witnessed(w)'
      BY <2>3, <2>4 DEF Witnessed, Same
    <2> QED BY <2>2, <2>5
  <1> QED BY <1>1, <1>2

(* A worker goes on with the command it has, or stops. *)
LEMMA OnwardOrEnd ==
    ASSUME TypeInv, NEW w \in Workers, Step(w) \/ TransactConflict(w) \/ Lose(w)
    PROVE  /\ pc[w] # "idle"
           /\ pc'[w] = "idle" \/ cmd'[w] = cmd[w]
  <1>a. pc \in [Workers -> Points] /\ cmd \in [Workers -> MaybeCommand]
    BY DEF TypeInv, TypeOK, LocalOK
  <1>1. ASSUME NEW p, NEW res, Goto(w, p) \/ GotoWith(w, p, res) PROVE cmd'[w] = cmd[w]
    BY <1>1, <1>a DEF Goto, GotoWith
  <1>2. ASSUME End(w) PROVE pc'[w] = "idle"
    BY <1>2, <1>a DEF End
  <1> QED
    BY <1>1, <1>2
       DEF Step, LookupOperation, PutOperation, ReadReservation, TransactReserve, TransactFinalize,
           TransactConflict, RereadAfterCancel, Diagnose, RecordFailure, RereadAfterFailure,
           Return, Lose, Throw, Reply, Cancel

LEMMA WitnessOwnStep ==
    ASSUME TypeInv, Forward, NEW w \in Workers, SweepsLate(w), Witnessed(w),
           Step(w) \/ TransactConflict(w) \/ Lose(w)
    PROVE  SweepsLate(w)' /\ Witnessed(w)'
  <1>a. /\ pc \in [Workers -> Points] /\ cmd \in [Workers -> MaybeCommand]
        /\ now \in [Workers -> Nat] /\ outcome \in [Workers -> Outcomes \cup {NoOutcome}]
    BY DEF TypeInv, TypeOK, LocalOK
  <1> DEFINE c == cmd[w]
             r == c.rid
  <1>b. /\ pc[w] # "idle" /\ c \in CommandRecord /\ r \in Reservations
        /\ c.type \in Types /\ status[r] \in Statuses
    BY OnwardOrEnd, ActiveCommand DEF TypeInv, TypeOK, ReservationsOK
  <1>1. SweepsLate(w)'
    BY <1>b, OnwardOrEnd, ExpiredForward DEF SweepsLate
  <1> SUFFICES Witnessed(w)'
    BY <1>1
  <1>2. ASSUME pc'[w] \notin {"transact", "refused", "diagnose", "fail"} PROVE Witnessed(w)'
    BY <1>2 DEF Witnessed
  <1>3. CASE LookupOperation(w)
    <2>1. \/ pc'[w] \in {"put", "read", "reply", "idle"}
          \/ pc'[w] = "transact" /\ c.type = "ReserveInventory" /\ cmd' = cmd
      BY <1>3, <1>a DEF LookupOperation, Goto, GotoWith, Reply, Throw, End, Entry
    <2> QED BY <2>1, <1>2 DEF Witnessed, Sure
  <1>4. CASE PutOperation(w)
    <2>1. \/ pc'[w] \in {"lookup", "read"}
          \/ pc'[w] = "transact" /\ c.type = "ReserveInventory" /\ cmd' = cmd
      BY <1>4, <1>a DEF PutOperation, Goto, Entry
    <2> QED BY <2>1, <1>2 DEF Witnessed, Sure
  <1>5. CASE ReadReservation(w)
    <2>1. UNCHANGED <<clock, store, cmd>>
      BY <1>5 DEF ReadReservation
    <2>2. CASE pc'[w] = "transact"
      <3>1. status[r] # "NONE" /\ DeadlineAllows(c, origin[r].expiresAt, clock) /\ now'[w] = clock
        BY <1>5, <2>2, <1>a DEF ReadReservation, Owns
      <3> QED BY <2>1, <2>2, <3>1 DEF Witnessed, store
    <2>3. CASE pc'[w] = "fail"
      <3>1. \/ outcome'[w].reservationStatus = "NONE"
            \/ /\ outcome'[w].reservationStatus = status[r]
               /\ ~DeadlineAllows(c, origin[r].expiresAt, clock) /\ Owns(c)
        BY <1>5, <2>3, <1>a DEF ReadReservation, NotActive, Outcome
      <3>2. Sure(c) /\ Owns(c) => DeadlineAllows(c, origin[r].expiresAt, clock)
        BY <1>b DEF Sure, Owns, DeadlineAllows, ExpiredRelease, SweepsLate, Expired
      <3>3. status[r] \in Promise!Passed(status[r]) /\ "NONE" \in Promise!Passed(status[r])
        BY DEF Promise!Passed
      <3> QED BY <2>1, <2>3, <3>1, <3>2, <3>3 DEF Witnessed, store
    <2> QED BY <1>5, <1>a, <2>2, <2>3 DEF ReadReservation
  <1>6. CASE TransactReserve(w)
    BY <1>6, <1>a, <1>2 DEF TransactReserve, Reply, GotoWith, Cancel, Goto, Witnessed, Sure
  <1>7. CASE TransactFinalize(w)
    <2>1. CASE FinalizeCondition(c, now[w]) /\ InProgressFor(c)
      BY <2>1, <1>7, <1>a, <1>2 DEF TransactFinalize, Reply, GotoWith
    <2>2. CASE ~(FinalizeCondition(c, now[w]) /\ InProgressFor(c))
      <3>1. UNCHANGED <<store, cmd>> /\ pc[w] = "transact"
        BY <2>2, <1>7 DEF TransactFinalize, Cancel, Goto
      <3>2. CASE FinalizeCondition(c, now[w])
        BY <3>2, <2>2, <1>7, <1>a, <1>2 DEF TransactFinalize, Cancel, Goto
      <3>3. CASE ~FinalizeCondition(c, now[w])
        <4>1. pc'[w] = "refused"
          BY <3>3, <1>7, <1>a DEF TransactFinalize, Cancel, Goto
        <4>2. Sure(c) => status[r] \in Final
          BY <3>1, <3>3, <1>b DEF Witnessed, FinalizeCondition, Statuses, Final
        <4> QED BY <3>1, <4>1, <4>2 DEF Witnessed, store
      <3> QED BY <3>2, <3>3
    <2> QED BY <2>1, <2>2
  <1>8. CASE RereadAfterCancel(w)
    <2>1. \/ pc'[w] \in {"reply", "idle"}
          \/ pc'[w] = "diagnose" /\ pc[w] = "refused" /\ cmd' = cmd
      BY <1>8, <1>a DEF RereadAfterCancel, Reply, Goto, GotoWith, Throw, End
    <2>2. UNCHANGED store
      BY <1>8 DEF RereadAfterCancel
    <2> QED BY <2>1, <2>2, <1>2 DEF Witnessed, store
  <1>9. CASE Diagnose(w)
    <2>1. /\ pc[w] = "diagnose" /\ pc'[w] = "fail" /\ UNCHANGED <<store, cmd>>
          /\ outcome'[w] = Diagnosis(c)
      BY <1>9, <1>a DEF Diagnose, GotoWith
    <2>2. \/ Diagnosis(c).reservationStatus = status[r]
          \/ Diagnosis(c).reservationStatus = "NONE" /\ ~Sure(c)
      BY DEF Diagnosis, NotActive, Outcome, Sure
    <2>3. status[r] \in Promise!Passed(status[r]) /\ "NONE" \in Promise!Passed(status[r])
      BY DEF Promise!Passed
    <2> QED BY <2>1, <2>2, <2>3 DEF Witnessed, store
  <1>10. CASE TransactConflict(w) \/ RecordFailure(w) \/ RereadAfterFailure(w) \/ Return(w) \/ Lose(w)
    BY <1>10, <1>a, <1>2
       DEF TransactConflict, RecordFailure, RereadAfterFailure, Return, Lose, Cancel, Goto,
           GotoWith, Reply, Throw, End
  <1> QED BY <1>3, <1>4, <1>5, <1>6, <1>7, <1>8, <1>9, <1>10 DEF Step

LEMMA WitnessStep == TypeInv /\ Forward /\ WitnessInv /\ [Next]_vars => WitnessInv'
  <1> SUFFICES ASSUME TypeInv, Forward, WitnessInv, [Next]_vars PROVE WitnessInv'
    OBVIOUS
  <1>a. /\ due \in [Sweepers -> SUBSET Reservations] /\ Sweepers \subseteq Workers
        /\ pc \in [Workers -> Points] /\ cmd \in [Workers -> MaybeCommand]
    BY InventoryConstants DEF TypeInv, TypeOK, LocalOK
  <1>1. DueLate'
    <2>1. \A s \in Sweepers : \A r \in due'[s] : r \in due[s] \/ Expired(r)
      BY <1>a DEF Next, Step, vars, Invoke, LookupOperation, PutOperation, ReadReservation,
           TransactReserve, TransactFinalize, TransactConflict, RereadAfterCancel, Diagnose,
           RecordFailure, RereadAfterFailure, Return, Lose, StartSweep, SweepNext, Tick,
           Throw, AbortSweep
    <2>2. \A s \in Sweepers : due'[s] \subseteq Reservations
      BY TypeStep DEF TypeInv, TypeOK
    <2> QED BY <2>1, <2>2, <1>a, ExpiredForward DEF WitnessInv, DueLate
  <1>2. ASSUME NEW w \in Workers PROVE SweepsLate(w)' /\ Witnessed(w)'
    <2>1. SweepsLate(w) /\ Witnessed(w)
      BY DEF WitnessInv
    <2>2. CASE Same(w)
      BY <2>1, <2>2, WitnessKept
    <2>3. CASE Step(w) \/ TransactConflict(w) \/ Lose(w)
      BY <2>1, <2>3, WitnessOwnStep
    <2>4. ASSUME NEW c \in Commands, Invoke(w, c) PROVE SweepsLate(w)' /\ Witnessed(w)'
      BY <2>4, <1>a, CallersCompensate DEF Invoke, Begin, SweepsLate, Witnessed
    <2>5. ASSUME NEW r \in Reservations, w \in Sweepers, SweepNext(w, r)
          PROVE  SweepsLate(w)' /\ Witnessed(w)'
      <3>1. pc'[w] = "lookup" /\ cmd'[w].rid = r
        BY <2>5, <1>a DEF SweepNext, Begin, SweepCommand
      <3>2. Expired(r)'
        BY <2>5, ExpiredForward DEF SweepNext, WitnessInv, DueLate
      <3> QED BY <3>1, <3>2 DEF SweepsLate, Witnessed
    <2> QED BY <2>2, <2>3, <2>4, <2>5, OwnAction
  <1> QED BY <1>1, <1>2 DEF WitnessInv

(* Whoever works on an expiry saw the deadline pass, and whoever is about  *)
(* to record a refused release has seen the status that refuses it.        *)
THEOREM WitnessesHold == Spec => []WitnessInv
  <1>1. Init => WitnessInv
    BY DEF Init, WitnessInv, DueLate, SweepsLate, Witnessed
  <1> QED BY <1>1, WitnessStep, StepForward, TypeCorrect, NowIsPast, PTL DEF Spec

(* What a recorded failure says of the reservation it could not move.      *)
Seen(c, res) ==
    /\ res.reservationStatus \in Promise!Passed(status[c.rid])
    /\ Sure(c) => \/ res.reservationStatus = "NONE"
                  \/ res.reservationStatus \in Final /\ status[c.rid] = res.reservationStatus

WitnessedStep ==
    \/ UNCHANGED store
    \/ \E c \in CommandRecord :
          \/ StartOperation(c)
          \/ \E res \in Outcomes \cup {NoOutcome} : FailOperation(c, res) /\ Seen(c, res)
          \/ ReserveWins(c)
          \/ \E t \in Nat : FinalizeWins(c, t)

LEMMA WitnessedSteps == TypeInv /\ NowInPast /\ WitnessInv /\ [Next]_vars => WitnessedStep
  <1>1. ASSUME WitnessInv, NEW w \in Workers, pc[w] = "fail" PROVE Seen(cmd[w], outcome[w])
    BY <1>1 DEF WitnessInv, Witnessed, Seen
  <1> QED BY <1>1, Writers DEF WitnessedStep

(* A release that failed on an existing reservation named the status that  *)
(* beat it, and the reservation stays in it.                               *)
LEMMA WinnerStep ==
    TypeInv /\ Forward /\ WitnessedStep /\ FailedReleaseNamesTheWinner
    => FailedReleaseNamesTheWinner'
  <1> SUFFICES ASSUME TypeInv, Forward, WitnessedStep, FailedReleaseNamesTheWinner,
                      NEW o \in Ops, opState'[o] = "FAILED", payload'[o].type = "ReleaseInventory",
                      result'[o].reservationStatus # "NONE",
                      \/ ReleaseReason(payload'[o]) = "COMPENSATION"
                      \/ o = SweepOp(payload'[o].rid)
               PROVE  /\ result'[o].reservationStatus \in Final
                      /\ status'[payload'[o].rid] = result'[o].reservationStatus
    BY DEF FailedReleaseNamesTheWinner, Final, ReleaseReason
  <1>a. /\ opState \in [Ops -> {"ABSENT", "IN_PROGRESS", "SUCCEEDED", "FAILED"}]
        /\ payload \in [Ops -> MaybeCommand] /\ result \in [Ops -> Outcomes \cup {NoOutcome}]
        /\ \A p \in Ops : opState[p] # "ABSENT" => payload[p] \in CommandRecord
    BY DEF TypeInv, TypeOK, LedgerOK
  <1>1. CASE opState[o] = "FAILED" /\ payload'[o] = payload[o] /\ result'[o] = result[o]
    <2>1. payload[o].rid \in Reservations
      BY <1>1, <1>a DEF CommandRecord
    <2> QED BY <1>1, <2>1 DEF FailedReleaseNamesTheWinner, Forward, Final
  <1>2. ASSUME NEW c \in CommandRecord, NEW res, FailOperation(c, res), Seen(c, res), o = c.op
        PROVE  /\ result'[o].reservationStatus \in Final
               /\ status'[payload'[o].rid] = result'[o].reservationStatus
    <2>1. payload'[o] = c /\ result'[o] = res /\ status' = status
      BY <1>2, <1>a DEF FailOperation, Complete, InProgressFor
    <2>2. Sure(c)
      BY <1>2, <2>1 DEF Sure
    <2> QED BY <1>2, <2>1, <2>2 DEF Seen
  <1>3. ASSUME NEW c \in CommandRecord, NEW res, FailOperation(c, res), o # c.op
        PROVE  opState[o] = "FAILED" /\ payload'[o] = payload[o] /\ result'[o] = result[o]
    BY <1>3, <1>a DEF FailOperation, Complete
  <1>4. ASSUME NEW c \in CommandRecord, NEW t, StartOperation(c) \/ ReserveWins(c) \/ FinalizeWins(c, t)
        PROVE  opState[o] = "FAILED" /\ payload'[o] = payload[o] /\ result'[o] = result[o]
    BY <1>4, <1>a
       DEF StartOperation, ReserveWins, WriteReserve, FinalizeWins, WriteFinalize, Complete
  <1>5. CASE UNCHANGED store
    BY <1>1, <1>5 DEF store, ledger
  <1> QED BY <1>1, <1>2, <1>3, <1>4, <1>5 DEF WitnessedStep

(* Whatever raced it, a refused release reports the status that won, and   *)
(* stock is never still held behind the recorded refusal of a sweep.       *)
THEOREM RefusedReleaseNamesTheWinner == Spec => []FailedReleaseNamesTheWinner
  <1>1. Init => FailedReleaseNamesTheWinner
    BY DEF Init, FailedReleaseNamesTheWinner
  <1>2. /\ TypeInv /\ NowInPast /\ WitnessInv /\ FailedReleaseNamesTheWinner /\ [Next]_vars
        => FailedReleaseNamesTheWinner'
    BY WinnerStep, WitnessedSteps, StepForward
  <1> QED BY <1>1, <1>2, WitnessesHold, TypeCorrect, NowIsPast, PTL DEF Spec

-----------------------------------------------------------------------------
(***************************************************************************)
(* Refinement: one decision per step of the tables                         *)
(***************************************************************************)
Records == [o \in Ops |-> RecordOf(o)]
Publications == [r \in Reservations |-> PublishedOf(r)]

LEMMA PromiseUnchanged ==
    ASSUME UNCHANGED <<status, opState, payload, result, facts>>
    PROVE  UNCHANGED <<status, Records, Publications>>
  BY DEF Records, RecordOf, Recorded, Publications, PublishedOf

(* An operation in progress is not decided yet. *)
LEMMA InProgressUndecided ==
    ASSUME NEW c \in CommandRecord, c.op \in Ops, opState[c.op] \in {"ABSENT", "IN_PROGRESS"}
    PROVE  Records[c.op] = Promise!Undecided
  BY DEF Records, RecordOf, Recorded, Promise!Undecided

(* To complete an operation is to decide it, and no other. *)
LEMMA CompleteDecides ==
    ASSUME TypeInv, NEW c \in CommandRecord, c.op \in Ops, InProgressFor(c),
           NEW state \in {"SUCCEEDED", "FAILED"}, NEW res \in Outcomes \cup {NoOutcome},
           Complete(c, state, res)
    PROVE  LET rec == [rid |-> c.rid, won |-> state = "SUCCEEDED",
                       names |-> IF state = "SUCCEEDED" THEN res.status
                                                        ELSE res.reservationStatus]
           IN  Records[c.op] = Promise!Undecided /\ Records' = [Records EXCEPT ![c.op] = rec]
  <1> DEFINE rec == [rid |-> c.rid, won |-> state = "SUCCEEDED",
                     names |-> IF state = "SUCCEEDED" THEN res.status ELSE res.reservationStatus]
  <1>a. /\ opState \in [Ops -> {"ABSENT", "IN_PROGRESS", "SUCCEEDED", "FAILED"}]
        /\ payload \in [Ops -> MaybeCommand] /\ result \in [Ops -> Outcomes \cup {NoOutcome}]
    BY DEF TypeInv, TypeOK, LedgerOK
  <1>1. Records[c.op] = Promise!Undecided
    BY InProgressUndecided DEF InProgressFor
  <1>2. opState'[c.op] = state /\ result'[c.op] = res /\ payload'[c.op] = c
    BY <1>a DEF Complete, InProgressFor
  <1>3. RecordOf(c.op)' = rec
    BY <1>2 DEF RecordOf, Recorded
  <1>4. \A o \in Ops : o # c.op => RecordOf(o)' = RecordOf(o)
    BY <1>a DEF Complete, RecordOf, Recorded
  <1>5. Records' = [o \in Ops |-> IF o = c.op THEN rec ELSE RecordOf(o)]
    BY <1>3, <1>4 DEF Records
  <1> QED BY <1>1, <1>5 DEF Records

LEMMA RefinementInit == Init => Promise!Init
  <1> SUFFICES ASSUME Init PROVE Promise!Init
    OBVIOUS
  <1>1. \A o \in Ops : RecordOf(o) = Promise!Undecided
    BY DEF Init, RecordOf, Recorded, Promise!Undecided
  <1>2. ASSUME NEW r \in Reservations
        PROVE  PublishedOf(r) = [s \in Promise!Moves |-> 0]
    <2>1. \A k \in FactKinds : facts[r][k] = 0
      BY DEF Init
    <2> QED BY <2>1 DEF PublishedOf, Promise!Moves, Final, FactKinds
  <1>3. status = [r \in Reservations |-> "NONE"]
    BY DEF Init
  <1> QED BY <1>1, <1>2, <1>3 DEF Promise!Init

(* One fact more for a reservation is one publication more. *)
LEMMA FactPublished ==
    ASSUME TypeInv, NEW r \in Reservations, NEW k \in FactKinds, NEW t \in Promise!Moves,
           t = IF k \in {"COMPENSATION", "CHECKOUT_EXPIRED"} THEN "RELEASED" ELSE k,
           facts' = [facts EXCEPT ![r][k] = @ + 1]
    PROVE  Publications' = [Publications EXCEPT ![r][t] = @ + 1]
  <1>a. facts \in [Reservations -> [FactKinds -> Nat]]
    BY DEF TypeInv, TypeOK, ReservationsOK
  <1>1. \A q \in Reservations : q # r => facts'[q] = facts[q]
    BY <1>a
  <1>2. \A q \in Reservations : q # r => PublishedOf(q)' = PublishedOf(q)
    BY <1>1 DEF PublishedOf
  <1>3. \A j \in FactKinds : facts'[r][j] = IF j = k THEN facts[r][j] + 1 ELSE facts[r][j]
    BY <1>a
  <1>4. facts[r]["COMPENSATION"] \in Nat /\ facts[r]["CHECKOUT_EXPIRED"] \in Nat
    BY <1>a DEF FactKinds
  <1>5. \A s \in Promise!Moves :
           PublishedOf(r)'[s] = IF s = t THEN PublishedOf(r)[s] + 1 ELSE PublishedOf(r)[s]
    BY <1>3, <1>4 DEF PublishedOf, Promise!Moves, Final, FactKinds
  <1>6. PublishedOf(r)' = [PublishedOf(r) EXCEPT ![t] = @ + 1]
    BY <1>5 DEF PublishedOf, Promise!Moves
  <1> QED BY <1>2, <1>6 DEF Publications

LEMMA RefinementStep == TypeInv /\ WitnessedStep => [Promise!Next]_(Promise!vars)
  <1> SUFFICES ASSUME TypeInv, WitnessedStep PROVE [Promise!Next]_(Promise!vars)
    OBVIOUS
  <1>a. status \in [Reservations -> Statuses]
    BY DEF TypeInv, TypeOK, ReservationsOK
  <1>b. UNCHANGED <<status, Records, Publications>> => UNCHANGED Promise!vars
    BY DEF Promise!vars, Records, Publications
  <1>c. Records' # Records /\ (\E o \in Ops, r \in Reservations :
              \/ \E t \in Promise!Moves : Promise!Move(o, r, t)
              \/ \E seen \in Promise!Passed(status[r]) : Promise!Refuse(o, r, seen))
        => Promise!Next
    BY DEF Promise!Next, Records
  <1>1. CASE UNCHANGED store
    BY <1>1, <1>b, PromiseUnchanged DEF store, ledger
  <1>2. ASSUME NEW c \in CommandRecord, StartOperation(c)
        PROVE  UNCHANGED Promise!vars
    <2>a. /\ opState \in [Ops -> {"ABSENT", "IN_PROGRESS", "SUCCEEDED", "FAILED"}]
          /\ payload \in [Ops -> MaybeCommand]
      BY DEF TypeInv, TypeOK, LedgerOK
    <2>1. \A o \in Ops : RecordOf(o)' = RecordOf(o)
      BY <1>2, <2>a DEF StartOperation, RecordOf, Recorded
    <2>2. UNCHANGED <<status, Records, Publications>>
      BY <1>2, <2>1 DEF StartOperation, Records, Publications, PublishedOf
    <2> QED BY <2>2, <1>b
  <1>3. ASSUME NEW c \in CommandRecord, NEW res \in Outcomes \cup {NoOutcome},
               FailOperation(c, res), Seen(c, res)
        PROVE  [Promise!Next]_(Promise!vars)
    <2>1. c.op \in Ops /\ c.rid \in Reservations
      BY DEF CommandRecord
    <2>2. /\ Records[c.op] = Promise!Undecided
          /\ Records' = [Records EXCEPT ![c.op] = Promise!Refused(c.rid, res.reservationStatus)]
      BY <1>3, <2>1, CompleteDecides DEF FailOperation, Promise!Refused
    <2>3. UNCHANGED <<status, Publications>>
      BY <1>3 DEF FailOperation, Publications, PublishedOf
    <2>4. res.reservationStatus \in Promise!Passed(status[c.rid])
      BY <1>3 DEF Seen
    <2>5. Promise!Refuse(c.op, c.rid, res.reservationStatus)
      BY <2>2, <2>3, <2>4 DEF Promise!Refuse, Promise!Decide, Records, Publications
    <2>6. CASE Records' = Records
      BY <2>3, <2>6, <1>b
    <2>7. CASE Records' # Records
      BY <2>1, <2>4, <2>5, <2>7, <1>c
    <2> QED BY <2>6, <2>7
  <1>4. ASSUME NEW c \in CommandRecord, NEW t \in Promise!Moves, NEW k \in FactKinds,
               t = IF k \in {"COMPENSATION", "CHECKOUT_EXPIRED"} THEN "RELEASED" ELSE k,
               InProgressFor(c), Complete(c, "SUCCEEDED", Outcome(t, "NONE")),
               Outcome(t, "NONE") \in Outcomes,
               Promise!Follows(status[c.rid], t),
               status' = [status EXCEPT ![c.rid] = t],
               facts' = [facts EXCEPT ![c.rid][k] = @ + 1]
        PROVE  Promise!Next
    <2>1. c.op \in Ops /\ c.rid \in Reservations
      BY DEF CommandRecord
    <2>2. /\ Records[c.op] = Promise!Undecided
          /\ Records' = [Records EXCEPT ![c.op] = Promise!Won(c.rid, t)]
      <3>1. /\ Records[c.op] = Promise!Undecided
            /\ Records' = [Records EXCEPT ![c.op] =
                              [rid |-> c.rid, won |-> TRUE, names |-> Outcome(t, "NONE").status]]
        BY <1>4, <2>1, CompleteDecides
      <3> QED BY <3>1 DEF Outcome, Promise!Won
    <2>3. Publications' = [Publications EXCEPT ![c.rid][t] = @ + 1]
      BY <1>4, <2>1, FactPublished
    <2>4. Promise!Move(c.op, c.rid, t)
      BY <1>4, <2>2, <2>3 DEF Promise!Move, Promise!Decide, Records, Publications
    <2>5. Records' # Records
      <3>1. Records'[c.op] = Promise!Won(c.rid, t)
        BY <2>1, <2>2 DEF Records
      <3> QED BY <3>1, <2>2 DEF Promise!Won, Promise!Undecided
    <2> QED BY <2>1, <2>4, <2>5, <1>c
  <1>5. ASSUME NEW c \in CommandRecord, ReserveWins(c) PROVE Promise!Next
    <2>1. Outcome("RESERVED", "NONE") \in Outcomes
      BY OutcomeType DEF OutcomeStatuses, Statuses
    <2>2. Promise!Follows(status[c.rid], "RESERVED")
      BY <1>5 DEF ReserveWins, ReserveCondition, Promise!Follows
    <2> QED BY <2>1, <2>2, <1>4, <1>5 DEF ReserveWins, WriteReserve, FactKinds, Promise!Moves
  <1>6. ASSUME NEW c \in CommandRecord, NEW t, FinalizeWins(c, t) PROVE Promise!Next
    <2>1. Outcome(Target(c), "NONE") \in Outcomes
      BY OutcomeType DEF OutcomeStatuses, Statuses, Target
    <2>2. Target(c) \in Final /\ Promise!Follows(status[c.rid], Target(c))
      BY <1>6 DEF FinalizeWins, FinalizeCondition, Promise!Follows, Target, Final
    <2>3. /\ FactKind(c) \in FactKinds
          /\ Target(c) = IF FactKind(c) \in {"COMPENSATION", "CHECKOUT_EXPIRED"}
                         THEN "RELEASED" ELSE FactKind(c)
      BY FactKindType DEF Target, FactKind, ReleaseReason, CommandRecord, Reasons
    <2> QED BY <2>1, <2>2, <2>3, <1>4, <1>6 DEF FinalizeWins, WriteFinalize, Promise!Moves
  <1> QED BY <1>1, <1>2, <1>3, <1>5, <1>6, PromiseUnchanged, <1>b DEF WitnessedStep

(* Every step of the service is one decision of ReservationLedger or none  *)
(* it can see: for any commands, workers and sweeps an operation is        *)
(* decided once, with its move and its fact, and never changes after.      *)
THEOREM InventoryImplementsLedger == Spec => ImplementsLedger
  <1>1. TypeInv /\ NowInPast /\ WitnessInv /\ [Next]_vars => [Promise!Next]_(Promise!vars)
    BY RefinementStep, WitnessedSteps
  <1> QED BY <1>1, RefinementInit, WitnessesHold, TypeCorrect, NowIsPast, PTL
          DEF Spec, ImplementsLedger, Promise!Spec
=============================================================================
