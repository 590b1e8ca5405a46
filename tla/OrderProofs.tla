------------------------------ MODULE OrderProofs ------------------------------
(***************************************************************************)
(* Proofs about the Order service, for any commands, expiry events,        *)
(* workers, correlations and bound on faults.                              *)
(***************************************************************************)
EXTENDS Order, TLAPS

-----------------------------------------------------------------------------
(***************************************************************************)
(* Type correctness                                                        *)
(***************************************************************************)
(* What a worker that is not idle works on. *)
LEMMA ActiveCommand ==
    ASSUME TypeOK, NEW w \in Workers, pc[w] # "idle"
    PROVE  /\ cmd[w] \in CommandRecord
           /\ cmd[w].op \in Ops
           /\ cmd[w].target \in Statuses
           /\ cmd[w].correlation \in Correlations
           /\ cmd[w] # NoCommand
  BY OrderConstants DEF TypeOK, CommandRecord, NoCommand

LocalOK ==
    /\ pc \in [Workers -> Points]
    /\ cmd \in [Workers -> CommandRecord \cup {NoCommand}]
    /\ \A w \in Workers : pc[w] # "idle" => cmd[w] \in CommandRecord

LEMMA GotoType ==
    ASSUME LocalOK, NEW w \in Workers, pc[w] # "idle", NEW p \in Points, Goto(w, p)
    PROVE  LocalOK'
  BY DEF LocalOK, Goto

LEMMA StartType ==
    ASSUME LocalOK, NEW w \in Workers, NEW p \in Points, NEW c \in CommandRecord,
           Start(w, p, c)
    PROVE  LocalOK'
  BY DEF LocalOK, Start

LEMMA EndType ==
    ASSUME LocalOK, NEW w \in Workers, End(w)
    PROVE  LocalOK'
  BY DEF LocalOK, End, Start, Points

LEMMA TypeInit == Init => TypeOK
  BY OrderConstants DEF Init, TypeOK, Statuses, Points, NoCorrelation, Absent

LEMMA TypeStep == TypeOK /\ [Next]_vars => TypeOK'
  <1> SUFFICES ASSUME TypeOK, [Next]_vars PROVE TypeOK'
    OBVIOUS
  <1>a. LocalOK /\ faults \in Nat
    BY DEF TypeOK, LocalOK
  <1>b. UNCHANGED order /\ LocalOK' /\ faults' \in Nat => TypeOK'
    BY DEF order, TypeOK, LocalOK, Absent
  <1>1. ASSUME NEW w \in Workers, NEW c \in Commands, Invoke(w, c) PROVE TypeOK'
    <2>1. c \in CommandRecord
      BY OrderConstants DEF Sent
    <2> QED BY <1>1, <2>1, <1>a, <1>b, StartType DEF Invoke, Points
  <1>2. ASSUME NEW w \in Workers, NEW c \in Expiries, Deliver(w, c) PROVE TypeOK'
    <2>1. c \in CommandRecord
      BY OrderConstants DEF Sent
    <2> QED BY <1>2, <2>1, <1>a, <1>b, StartType DEF Deliver, Points
  <1>3. ASSUME NEW w \in Workers, Create(w) PROVE TypeOK'
    <2>1. pc[w] # "idle" /\ cmd[w].correlation \in Correlations
      BY <1>3, ActiveCommand DEF Create
    <2>2. LocalOK'
      BY <1>3, <2>1, <1>a, GotoType DEF Create, Points
    <2>3. CASE status = "NONE"
      <3>1. /\ status' = "PENDING" /\ correlation' = cmd[w].correlation
            /\ facts' = [facts EXCEPT !["PENDING"] = @ + 1]
            /\ UNCHANGED <<recorded, faults>>
        BY <1>3, <2>3 DEF Create, PutOrder
      <3> QED BY <2>1, <2>2, <3>1 DEF TypeOK, LocalOK, Statuses, Absent
    <2>4. CASE status # "NONE"
      BY <1>3, <2>2, <2>4, <1>a, <1>b DEF Create, order
    <2> QED BY <2>3, <2>4
  <1>4. ASSUME NEW w \in Workers, Identify(w) PROVE TypeOK'
    BY <1>4, <1>a, <1>b, GotoType, EndType DEF Identify, Throw, Points
  <1>5. ASSUME NEW w \in Workers, LookupOperation(w) PROVE TypeOK'
    BY <1>5, <1>a, <1>b, GotoType, EndType DEF LookupOperation, Recall, Throw, Points
  <1>6. ASSUME NEW w \in Workers, Transact(w) PROVE TypeOK'
    <2>1. /\ pc[w] # "idle" /\ cmd[w] \in CommandRecord /\ cmd[w].op \in Ops
          /\ cmd[w].target \in Statuses
      BY <1>6, ActiveCommand DEF Transact
    <2>2. LocalOK'
      BY <1>6, <2>1, <1>a, GotoType DEF Transact, Points
    <2>3. CASE TransactCondition(cmd[w])
      <3>1. /\ status' = cmd[w].target
            /\ recorded' = [recorded EXCEPT ![cmd[w].op] = cmd[w]]
            /\ facts' = [facts EXCEPT ![cmd[w].target] = @ + 1]
            /\ UNCHANGED <<correlation, faults>>
        BY <1>6, <2>3 DEF Transact, Record
      <3>2. status # "NONE"
        BY <2>3 DEF TransactCondition, TransitionCondition, Required
      <3> QED BY <2>1, <2>2, <3>1, <3>2 DEF TypeOK, LocalOK, Absent
    <2>4. CASE ~TransactCondition(cmd[w])
      BY <1>6, <2>2, <2>4, <1>a, <1>b DEF Transact, order
    <2> QED BY <2>3, <2>4
  <1>7. ASSUME NEW w \in Workers, TransactConflict(w) PROVE TypeOK'
    BY <1>7, <1>a, <1>b, GotoType, EndType DEF TransactConflict, Throw, Points
  <1>8. ASSUME NEW w \in Workers, RereadOperation(w) PROVE TypeOK'
    BY <1>8, <1>a, <1>b, GotoType, EndType DEF RereadOperation, Recall, Throw, Points
  <1>9. ASSUME NEW w \in Workers, CheckStatus(w) PROVE TypeOK'
    BY <1>9, <1>a, <1>b, GotoType, EndType DEF CheckStatus, Throw, Points
  <1>10. ASSUME NEW w \in Workers, RecordOperation(w) PROVE TypeOK'
    <2>1. pc[w] # "idle" /\ cmd[w] \in CommandRecord /\ cmd[w].op \in Ops
      BY <1>10, ActiveCommand DEF RecordOperation
    <2>2. LocalOK'
      BY <1>10, <2>1, <1>a, GotoType DEF RecordOperation, Points
    <2>3. recorded' = [recorded EXCEPT ![cmd[w].op] = cmd[w]] \/ recorded' = recorded
      BY <1>10 DEF RecordOperation, Record
    <2> QED BY <1>10, <2>1, <2>2, <2>3 DEF RecordOperation, TypeOK, LocalOK, Absent
  <1>11. ASSUME NEW w \in Workers, RecallOperation(w) PROVE TypeOK'
    BY <1>11, <1>a, <1>b, GotoType, EndType DEF RecallOperation, Recall, Throw, Points
  <1>12. ASSUME NEW w \in Workers, Return(w) PROVE TypeOK'
    BY <1>12, <1>a, <1>b, EndType DEF Return
  <1>13. ASSUME NEW w \in Workers, Lose(w) PROVE TypeOK'
    BY <1>13, <1>a, <1>b, EndType DEF Lose, Throw
  <1>14. CASE UNCHANGED vars
    BY <1>14, <1>a, <1>b DEF vars, LocalOK
  <1> QED BY <1>1, <1>2, <1>3, <1>4, <1>5, <1>6, <1>7, <1>8, <1>9, <1>10, <1>11, <1>12,
             <1>13, <1>14 DEF Next, Step

(* The order, the ledger of its operations, its outbox and every worker    *)
(* keep the shape the code gives them.                                     *)
THEOREM TypeIsCorrect == Spec => []TypeOK
  BY TypeInit, TypeStep, PTL DEF Spec

-----------------------------------------------------------------------------
(***************************************************************************)
(* What the outbox tells                                                   *)
(***************************************************************************)
(* The statuses an order in status s can still enter. *)
Ahead(s) ==
    CASE s = "NONE" -> Statuses
      [] s = "PENDING" -> Statuses \ {"PENDING"}
      [] s = "COMPENSATING" -> {"RECONCILIATION_REQUIRED"} \cup Final
      [] s = "RECONCILIATION_REQUIRED" -> Final
      [] OTHER -> {}

(* A creation asks for PENDING, everything else for a status after it.     *)
Asks(w) ==
    /\ pc[w] \in {"create", "identify"} => cmd[w].target = "PENDING"
    /\ pc[w] \in {"lookup", "transact", "refused", "conflicted", "check", "record", "recall"}
       => cmd[w].target # "PENDING"

(* A worker about to record an order it found where it wanted it.          *)
Found(w) ==
    pc[w] = "record" =>
        facts[cmd[w].target] = 1 /\ correlation = cmd[w].correlation

HistoryInv ==
    /\ HistoryIsPublished
    /\ \A s \in Ahead(status) : facts[s] = 0
    /\ \A w \in Workers : Asks(w) /\ Found(w)

LEMMA HistoryInit == Init => HistoryInv
  BY DEF Init, HistoryInv, HistoryIsPublished, Ahead, Asks, Found, Statuses, Final, Absent

(* A transaction only moves the order ahead: it announces a status that    *)
(* was not announced, and what lies ahead of the new one lay ahead of the  *)
(* old one.                                                                *)
LEMMA TransitionsGoAhead ==
    ASSUME NEW t \in Statuses, t # "PENDING", NEW s \in Required(t)
    PROVE  /\ s \notin Final \cup {"NONE"} /\ s # t
           /\ t \in Ahead(s) /\ Ahead(t) \subseteq Ahead(s) \ {t}
  BY DEF Statuses, Required, Ahead, Final

LEMMA HistoryStep == TypeOK /\ HistoryInv /\ [Next]_vars => HistoryInv'
  <1> SUFFICES ASSUME TypeOK, HistoryInv, [Next]_vars PROVE HistoryInv'
    OBVIOUS
  <1>a. /\ facts \in [Statuses -> Nat] /\ recorded \in [Ops -> CommandRecord \cup {NoCommand}]
        /\ pc \in [Workers -> Points] /\ cmd \in [Workers -> CommandRecord \cup {NoCommand}]
    BY DEF TypeOK
  <1>b. ASSUME UNCHANGED order, \A w \in Workers : (Asks(w) /\ Found(w))' PROVE HistoryInv'
    BY <1>b DEF HistoryInv, HistoryIsPublished, order, Absent
  <1>1. ASSUME NEW w \in Workers, NEW c \in Sent, pc[w] = "idle", UNCHANGED order,
               Start(w, "lookup", c), c.target # "PENDING"
        PROVE  HistoryInv'
    BY <1>1, <1>a, <1>b DEF HistoryInv, Start, Asks, Found, order
  <1>2. ASSUME NEW w \in Workers, NEW p \in Points \ {"create", "identify", "record"},
               UNCHANGED order, Goto(w, p),
               p # "reply" => pc[w] \in {"lookup", "transact", "refused", "conflicted", "record"}
        PROVE  HistoryInv'
    BY <1>2, <1>a, <1>b DEF HistoryInv, Goto, Asks, Found, order
  <1>3. ASSUME NEW w \in Workers, UNCHANGED order, End(w)
        PROVE  HistoryInv'
    BY <1>3, <1>a, <1>b DEF HistoryInv, End, Start, Asks, Found, order
  <1>4. ASSUME NEW w \in Workers, NEW c \in Commands, Invoke(w, c) PROVE HistoryInv'
    BY <1>4, <1>a, <1>b DEF HistoryInv, Invoke, Start, Asks, Found, order
  <1>5. ASSUME NEW w \in Workers, NEW c \in Expiries, Deliver(w, c) PROVE HistoryInv'
    BY <1>5, <1>1, OrderConstants DEF Deliver, Sent
  <1>6. ASSUME NEW w \in Workers, Create(w) PROVE HistoryInv'
    <2>1. pc[w] = "create" /\ cmd[w].target = "PENDING"
      BY <1>6 DEF Create, HistoryInv, Asks
    <2>2. CASE status = "NONE"
      <3>1. /\ status' = "PENDING" /\ correlation' = cmd[w].correlation
            /\ facts' = [facts EXCEPT !["PENDING"] = @ + 1]
            /\ pc' = [pc EXCEPT ![w] = "reply"] /\ UNCHANGED <<recorded, cmd>>
        BY <1>6, <2>2 DEF Create, PutOrder, Goto
      <3>2. \A s \in Statuses : facts[s] = 0
        BY <2>2 DEF HistoryInv, Ahead
      <3>3. /\ facts'["PENDING"] = 1
            /\ \A s \in Statuses \ {"PENDING"} : facts'[s] = 0
        BY <3>1, <3>2, <1>a DEF Statuses
      <3>4. \A o \in Ops : Absent(o)
        BY <3>2, <1>a DEF HistoryInv, HistoryIsPublished, Absent, CommandRecord
      <3>5. \A v \in Workers : pc[v] # "record"
        BY <3>2, ActiveCommand DEF HistoryInv, Found
      <3>6. HistoryIsPublished'
        BY <3>1, <3>3, <3>4 DEF HistoryIsPublished, Absent, Final, Statuses
      <3>7. \A s \in Ahead(status)' : facts'[s] = 0
        BY <3>1, <3>3 DEF Ahead
      <3>8. \A v \in Workers : Asks(v)' /\ Found(v)'
        BY <3>1, <3>5, <1>a DEF HistoryInv, Asks, Found
      <3> QED BY <3>6, <3>7, <3>8 DEF HistoryInv
    <2>3. CASE status # "NONE"
      <3>1. /\ UNCHANGED order /\ cmd' = cmd /\ pc' = [pc EXCEPT ![w] = "identify"]
        BY <1>6, <2>3 DEF Create, Goto, order
      <3> QED BY <2>1, <3>1, <1>a, <1>b DEF HistoryInv, Asks, Found, order
    <2> QED BY <2>2, <2>3
  <1>7. ASSUME NEW w \in Workers, Transact(w) PROVE HistoryInv'
    <2> DEFINE c == cmd[w]
    <2>1. /\ pc[w] = "transact" /\ c.target # "PENDING" /\ c.target \in Statuses /\ c.op \in Ops
          /\ c \in CommandRecord
      BY <1>7, ActiveCommand DEF Transact, HistoryInv, Asks
    <2>2. CASE TransactCondition(c)
      <3>1. /\ status' = c.target /\ recorded' = [recorded EXCEPT ![c.op] = c]
            /\ facts' = [facts EXCEPT ![c.target] = @ + 1]
            /\ pc' = [pc EXCEPT ![w] = "reply"] /\ UNCHANGED <<correlation, cmd>>
        BY <1>7, <2>2 DEF Transact, Record, Goto
      <3>2. status \in Required(c.target) /\ correlation = c.correlation
        BY <2>2 DEF TransactCondition, TransitionCondition
      <3>3. /\ status \notin Final \cup {"NONE"} /\ c.target \in Ahead(status)
            /\ Ahead(c.target) \subseteq Ahead(status) \ {c.target}
        BY <2>1, <3>2, TransitionsGoAhead
      <3>4. facts[c.target] = 0 /\ facts'[c.target] = 1
        BY <2>1, <3>1, <3>3, <1>a DEF HistoryInv
      <3>5. \A s \in Statuses : s # c.target => facts'[s] = facts[s]
        BY <2>1, <3>1, <1>a
      <3>6. /\ facts'["PENDING"] = 1
            /\ \A s \in Statuses : facts'[s] <= 1
        BY <2>1, <3>3, <3>4, <3>5 DEF HistoryInv, HistoryIsPublished, Statuses
      <3>7. \A s \in Final : facts'[s] = 1 => status' = s
        BY <3>1, <3>3, <3>5 DEF HistoryInv, HistoryIsPublished, Final, Statuses
      <3>8. \A o \in Ops : ~Absent(o)' =>
               facts'[recorded'[o].target] = 1 /\ correlation' = recorded'[o].correlation
        <4>1. ASSUME NEW o \in Ops, ~Absent(o)', o # c.op
              PROVE  facts'[recorded'[o].target] = 1 /\ correlation' = recorded'[o].correlation
          <5>1. recorded'[o] = recorded[o] /\ ~Absent(o) /\ recorded[o] \in CommandRecord
            BY <2>1, <3>1, <4>1, <1>a DEF Absent
          <5>2. facts[recorded[o].target] = 1 /\ recorded[o].target \in Statuses
            BY <5>1 DEF HistoryInv, HistoryIsPublished, CommandRecord
          <5> QED BY <5>1, <5>2, <3>1, <3>4, <3>5 DEF HistoryInv, HistoryIsPublished
        <4>2. recorded'[c.op] = c
          BY <2>1, <3>1, <1>a
        <4> QED BY <4>1, <4>2, <3>1, <3>2, <3>4
      <3>9. \A s \in Ahead(status)' : facts'[s] = 0
        BY <3>1, <3>3, <3>5 DEF HistoryInv, Ahead, Statuses, Final
      <3>10. \A v \in Workers : Asks(v)' /\ Found(v)'
        <4>1. \A v \in Workers : pc[v] = "record" => cmd[v].target \in Statuses
          BY ActiveCommand
        <4> QED BY <4>1, <3>1, <3>4, <3>5, <1>a DEF HistoryInv, Asks, Found
      <3> QED BY <3>1, <3>4, <3>6, <3>7, <3>8, <3>9, <3>10 DEF HistoryInv, HistoryIsPublished
    <2>3. CASE ~TransactCondition(c)
      <3>1. UNCHANGED order /\ Goto(w, "refused")
        BY <1>7, <2>3 DEF Transact, order
      <3> QED BY <2>1, <3>1, <1>2 DEF Points
    <2> QED BY <2>2, <2>3
  <1>8. ASSUME NEW w \in Workers, CheckStatus(w) PROVE HistoryInv'
    <2>1. CASE Reached(cmd[w])
      <3>1. /\ status # "NONE" /\ facts[cmd[w].target] = 1 /\ correlation = cmd[w].correlation
        BY <1>8, <2>1, ActiveCommand
        DEF CheckStatus, HistoryInv, HistoryIsPublished, Reached, Statuses
      <3>2. UNCHANGED order /\ cmd' = cmd /\ pc' = [pc EXCEPT ![w] = "record"]
        BY <1>8, <2>1 DEF CheckStatus, Goto
      <3>3. pc[w] = "check"
        BY <1>8 DEF CheckStatus
      <3> QED BY <3>1, <3>2, <3>3, <1>a, <1>b DEF HistoryInv, Asks, Found, order
    <2>2. CASE ~Reached(cmd[w])
      BY <1>8, <2>2, <1>3 DEF CheckStatus, Throw
    <2> QED BY <2>1, <2>2
  <1>9. ASSUME NEW w \in Workers, RecordOperation(w) PROVE HistoryInv'
    <2> DEFINE c == cmd[w]
    <2>1. /\ pc[w] = "record" /\ c.op \in Ops
          /\ facts[c.target] = 1 /\ correlation = c.correlation
      BY <1>9, ActiveCommand DEF RecordOperation, HistoryInv, Found
    <2>2. CASE Absent(c.op)
      <3>1. /\ recorded' = [recorded EXCEPT ![c.op] = c]
            /\ UNCHANGED <<status, correlation, facts, cmd>> /\ pc' = [pc EXCEPT ![w] = "reply"]
        BY <1>9, <2>2 DEF RecordOperation, Record, Goto
      <3>2. \A o \in Ops : recorded'[o] = IF o = c.op THEN c ELSE recorded[o]
        BY <2>1, <3>1, <1>a
      <3>3. HistoryIsPublished'
        BY <2>1, <3>1, <3>2 DEF HistoryInv, HistoryIsPublished, Absent
      <3>4. \A v \in Workers : Asks(v)' /\ Found(v)'
        BY <3>1, <1>a DEF HistoryInv, Asks, Found
      <3> QED BY <3>1, <3>3, <3>4 DEF HistoryInv, Ahead
    <2>3. CASE ~Absent(c.op)
      BY <1>9, <2>1, <2>3, <1>2 DEF RecordOperation, order, Points
    <2> QED BY <2>2, <2>3
  <1>10. ASSUME NEW w \in Workers,
                \/ Identify(w) \/ LookupOperation(w) \/ TransactConflict(w) \/ RereadOperation(w)
                \/ RecallOperation(w) \/ Return(w) \/ Lose(w)
         PROVE  HistoryInv'
    <2>1. UNCHANGED order
      BY <1>10 DEF Identify, LookupOperation, TransactConflict, RereadOperation, RecallOperation,
                   Return, Lose
    <2>2. \/ End(w)
          \/ Goto(w, "reply")
          \/ /\ pc[w] \in {"lookup", "transact", "refused", "conflicted", "record"}
             /\ \E p \in {"transact", "check", "conflicted"} : Goto(w, p)
      BY <1>10 DEF Identify, LookupOperation, TransactConflict, RereadOperation, RecallOperation,
                   Recall, Return, Lose, Throw
    <2> QED BY <2>1, <2>2, <1>2, <1>3 DEF Points
  <1>11. CASE UNCHANGED vars
    BY <1>11, <1>b DEF vars, order, HistoryInv, Asks, Found
  <1> QED BY <1>4, <1>5, <1>6, <1>7, <1>8, <1>9, <1>10, <1>11 DEF Next, Step

(* Every status the order shows was announced once, a final one last, and  *)
(* every operation on record names a status the order really entered.      *)
THEOREM HistoryIsAlwaysPublished == Spec => []HistoryIsPublished
  <1>1. HistoryInv => HistoryIsPublished
    BY DEF HistoryInv
  <1> QED BY <1>1, HistoryInit, HistoryStep, TypeIsCorrect, PTL DEF Spec

(* No step, whoever takes it, rewrites a record of an operation or moves   *)
(* an order that is settled.                                               *)
LEMMA SettledStep ==
    TypeOK /\ [Next]_vars
    => /\ \A o \in Ops : ~Absent(o) => recorded'[o] = recorded[o]
       /\ status \in Final => status' = status
  <1> SUFFICES ASSUME TypeOK, [Next]_vars
               PROVE  /\ \A o \in Ops : ~Absent(o) => recorded'[o] = recorded[o]
                      /\ status \in Final => status' = status
    OBVIOUS
  <1>1. \/ UNCHANGED <<status, recorded>>
        \/ \E w \in Workers : Create(w) \/ Transact(w) \/ RecordOperation(w)
    BY DEF Next, Step, vars, order, Invoke, Deliver, Identify, LookupOperation, TransactConflict,
           RereadOperation, CheckStatus, RecallOperation, Return, Lose
  <1>2. ASSUME NEW w \in Workers, Create(w)
        PROVE  UNCHANGED recorded /\ (status \in Final => status' = status)
    BY <1>2 DEF Create, PutOrder, Final
  <1>3. ASSUME NEW w \in Workers, Transact(w) \/ RecordOperation(w)
        PROVE  /\ \/ recorded' = recorded
                  \/ \E o \in Ops : Absent(o) /\ recorded' = [recorded EXCEPT ![o] = cmd[w]]
               /\ status' = status \/ status \notin Final
    <2>1. cmd[w].op \in Ops
      BY <1>3, ActiveCommand DEF Transact, RecordOperation
    <2> QED BY <1>3, <2>1 DEF Transact, RecordOperation, TransactCondition, TransitionCondition,
                              Required, Final, Record
  <1>4. recorded \in [Ops -> CommandRecord \cup {NoCommand}]
    BY DEF TypeOK
  <1> QED BY <1>1, <1>2, <1>3, <1>4

(* A record is never rewritten, and a final status never left.             *)
THEOREM SettledStaysSettled == Spec => SettledForever
  BY SettledStep, TypeIsCorrect, PTL DEF Spec, SettledForever
=============================================================================
