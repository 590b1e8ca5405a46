-------------------------- MODULE ReconciliationProofs --------------------------
(***************************************************************************)
(* Proofs about the reconciliation work and its replays, for any number of *)
(* checkouts, versions, operators' commands, invocations and faults.       *)
(***************************************************************************)
EXTENDS Reconciliation, AdmissionProofs

OnRecord(c) == record[c].status # "NONE"
RecordStatuses == {"NONE", "RECONCILIATION_REQUIRED", "REPLAYING", "RESOLVED"}
Records == [status : RecordStatuses, work : Works \cup {None}, version : Versions \cup {None},
            attempts : Nat, op : ReplayOps \cup {None}, audit : Seq(ReplayOps)]
Replays == [checkout : Checkouts, version : Versions]
Jobs == [type : {"CreateReconciliation"}, checkout : Checkouts, work : Works,
         attempts : RejectedOrExhausted] \cup
        [type : {"ResolveReconciliation"}, checkout : Checkouts] \cup
        [type : {"ReplayReconciliation"}, checkout : Checkouts, op : ReplayOps]
Tasks == {NoTask, Resolve} \cup {Create(f[1], f[2]) : f \in Failures}

TablesOK ==
    /\ record \in [Checkouts -> Records]
    /\ facts \in [Checkouts -> [required : Nat, resolved : 0..1]]
    /\ faults \in 0..MaxFaults

ExecutionsOK ==
    /\ phase \in [Names -> {"running", "succeeded", "failed"}]
    /\ replay \in [ReplayOps -> {NoReplay} \cup Replays]
    /\ task \in [Names -> Tasks]
    /\ tries \in [Names -> 0..MaxAttempts]

WorkersOK ==
    /\ point \in [Workers -> Points]
    /\ job \in [Workers -> {NoTask} \cup Jobs]
    /\ held \in [Workers -> Versions \cup {None}]
    /\ caller \in [Workers -> Names \cup {None, "operator"}]

(* Work on record is on the version the Saga record names, shows there, and*)
(* is resolved as often as that was published.  It is the work of the      *)
(* checkout's own execution, counted from the attempts that one gave.      *)
IsOwnWork(c, r) ==
    /\ task[c].type = "CreateReconciliation" /\ r.work = task[c].work
    /\ r.attempts = task[c].attempts + Len(r.audit)
RecordInv(c) ==
    /\ OnRecord(c) =>
          /\ saga[c].version # None /\ record[c].version = saga[c].version
          /\ saga[c].status \in {"RECONCILIATION_REQUIRED", "RESOLVED"}
          /\ IsOwnWork(c, record[c])
    /\ record[c].status = "RESOLVED" => saga[c].status = "RESOLVED"
    /\ facts[c].resolved = IF record[c].status = "RESOLVED" THEN 1 ELSE 0

(* A replay that was started is about work on record.  An execution that   *)
(* has succeeded has done what its task was; one that failed gave up, or   *)
(* was refused, as only a creation is, for the work on record.             *)
Started(x) == x \in ReplayOps => replay[x] # NoReplay
ReplayInv(o) ==
    replay[o] # NoReplay =>
        LET c == replay[o].checkout IN
        c = Target[o] /\ OnRecord(c) /\ replay[o].version = saga[c].version
Done(t, c) ==
    IF t = Resolve THEN record[c].status = "RESOLVED"
                   ELSE OnRecord(c) /\ record[c].work = t.work
ExecutionInv(x) ==
    /\ task[x] = Resolve => x \in ReplayOps /\ replay[x] # NoReplay
    /\ IF phase[x] = "running" THEN tries[x] < MaxAttempts
                               ELSE Started(x) /\ task[x] # NoTask
    /\ phase[x] = "succeeded" => Done(task[x], CheckoutOf(x))
    /\ phase[x] = "failed" => OnRecord(CheckoutOf(x)) \/ tries[x] = MaxAttempts

(* What an invocation has read of the records is still so.                 *)
MayResolveNow(c) == \E o \in ReplayOps : replay[o].checkout = c /\ task[o] = Resolve
Creating == {"read version", "read to create", "put", "reopen"}
Resolving == {"read to resolve", "resolve"}
Replaying == {"read to replay", "readmit", "admit replay", "start", "give back"}
HoldsAt(p, j, h) ==
    LET c == j.checkout IN
    /\ p \in Creating =>
          /\ j.type = "CreateReconciliation"
          /\ OnRecord(c) \/ task[c] = Create(j.work, j.attempts)
    /\ p \in {"read to create", "put"} => h = saga[c].version /\ h # None
    /\ p = "reopen" => OnRecord(c) /\ record[c].work = j.work
    /\ p \in Resolving => j.type = "ResolveReconciliation" /\ OnRecord(c) /\ MayResolveNow(c)
    /\ p \in Replaying => j.type = "ReplayReconciliation" /\ OnRecord(c) /\ c = Target[j.op]
    /\ p \in {"readmit", "admit replay", "start"} => h = saga[c].version
    /\ p \in {"answer", "refused"} => OnRecord(c)
    /\ p = "answer" /\ j.type = "CreateReconciliation" => record[c].work = j.work
    /\ p = "answer" /\ j.type = "ResolveReconciliation" => record[c].status = "RESOLVED"
    /\ p = "answer" /\ j.type = "ReplayReconciliation" =>
          replay[j.op].checkout = c \/ record[c].status = "RESOLVED"
IsFor(j, x) ==
    /\ j.checkout = CheckoutOf(x) /\ task[x] # NoTask
    /\ IF task[x] = Resolve THEN j.type = "ResolveReconciliation"
       ELSE j.type = "CreateReconciliation" /\ j.work = task[x].work
WorkerInv(w) ==
    /\ point[w] # "idle" => job[w] # NoTask
    /\ caller[w] \in Names =>
          /\ point[w] # "idle" /\ Started(caller[w])
          /\ IsFor(job[w], caller[w])
    /\ HoldsAt(point[w], job[w], held[w])

(* One invocation at most is waited for, by an execution that is running.  *)
CallersInv ==
    \A w \in Workers :
        caller[w] \in Names =>
            /\ phase[caller[w]] = "running"
            /\ \A v \in Workers : caller[v] = caller[w] => v = w

TablesHold == TablesOK /\ \A c \in Checkouts : RecordInv(c)
ExecutionsHold ==
    /\ ExecutionsOK
    /\ \A o \in ReplayOps : ReplayInv(o)
    /\ \A x \in Names : ExecutionInv(x)
WorkersHold == WorkersOK /\ \A w \in Workers : WorkerInv(w)
SagaInv == AdmissionInv /\ TablesHold /\ ExecutionsHold /\ WorkersHold /\ CallersInv

(* Work is never taken off the record, its version is never changed, and   *)
(* resolved work is left alone; nor are replays or tasks taken back.       *)
RecordsForward ==
    \A c \in Checkouts :
        /\ OnRecord(c) => /\ OnRecord(c)' /\ record'[c].version = record[c].version
                          /\ record'[c].work = record[c].work
        /\ saga[c].version # None => saga'[c].version = saga[c].version
        /\ record[c].status = "RESOLVED" =>
              record'[c] = record[c] /\ facts'[c] = facts[c] /\ saga'[c].status = "RESOLVED"
TasksForward == \A x \in Names : task[x] # NoTask => task'[x] = task[x]
ExecutionsForward ==
    /\ \A o \in ReplayOps : replay[o] # NoReplay => replay'[o] = replay[o]
    /\ TasksForward
-----------------------------------------------------------------------------
(***************************************************************************)
(* Records and jobs                                                        *)
(***************************************************************************)
LEMMA WithStatus ==
    ASSUME NEW r \in Records, NEW s \in RecordStatuses
    PROVE  LET q == [r EXCEPT !.status = s] IN
           /\ q \in Records /\ q.status = s /\ q.version = r.version /\ q.work = r.work
           /\ q.attempts = r.attempts /\ q.audit = r.audit /\ q.op = r.op
  BY DEF Records

LEMMA NewRecord ==
    ASSUME NEW j, NEW v \in Versions \cup {None}, j.work \in Works, j.attempts \in Nat
    PROVE  /\ Recorded(j, v) \in Records /\ Recorded(j, v).version = v
           /\ Recorded(j, v).status = "RECONCILIATION_REQUIRED"
           /\ Recorded(j, v).work = j.work /\ Recorded(j, v).attempts = j.attempts
           /\ Recorded(j, v).audit = <<>>
  <1>1. PICK r, k, n : r = NoRecord /\ k = j.work /\ n = j.attempts
    OBVIOUS
  <1>2. r \in Records /\ r.audit = <<>>
    BY <1>1 DEF NoRecord, Records, RecordStatuses
  <1> DEFINE q == [r EXCEPT !.status = "RECONCILIATION_REQUIRED", !.work = k, !.version = v,
                            !.attempts = n]
  <1>3. Recorded(j, v) = q
    BY <1>1 DEF Recorded
  <1>4. k \in Works /\ n \in Nat
    BY <1>1
  <1>5. /\ q \in Records /\ q.status = "RECONCILIATION_REQUIRED" /\ q.version = v
        /\ q.work = k /\ q.attempts = n /\ q.audit = <<>>
    BY <1>2, <1>4 DEF Records, RecordStatuses
  <1> QED BY <1>1, <1>3, <1>5

(* A replay is counted when it is audited.                                 *)
LEMMA AdmittedRecord ==
    ASSUME NEW r \in Records, NEW o \in ReplayOps, NEW m \in Nat,
           r.attempts = m + Len(r.audit)
    PROVE  /\ Admitted(r, o) \in Records /\ Admitted(r, o).status = "REPLAYING"
           /\ Admitted(r, o).version = r.version /\ Admitted(r, o).work = r.work
           /\ Admitted(r, o).attempts = m + Len(Admitted(r, o).audit)
  <1>1. /\ r.audit \in Seq(ReplayOps) /\ r.attempts \in Nat
    BY DEF Records
  <1>2. /\ Append(r.audit, o) \in Seq(ReplayOps)
        /\ Len(Append(r.audit, o)) = Len(r.audit) + 1 /\ Len(r.audit) \in Nat
    BY <1>1
  <1> DEFINE s == Append(r.audit, o)
             n == r.attempts + 1
             q == [r EXCEPT !.status = "REPLAYING", !.op = o, !.attempts = n, !.audit = s]
  <1>3. n \in Nat /\ n = m + Len(s) /\ s \in Seq(ReplayOps)
    BY <1>1, <1>2
  <1>4. Admitted(r, o) = q
    BY DEF Admitted, Records
  <1> HIDE DEF s, n
  <1>5. q \in Records /\ q.status = "REPLAYING" /\ q.version = r.version /\ q.work = r.work
        /\ q.attempts = n /\ q.audit = s
    BY <1>3 DEF Records, RecordStatuses
  <1> QED BY <1>3, <1>4, <1>5

LEMMA JobIs ==
    ASSUME WorkersOK, NEW w \in Workers, job[w] # NoTask
    PROVE  /\ job[w].checkout \in Checkouts
           /\ job[w].type = "CreateReconciliation" =>
                 job[w].work \in Works /\ job[w].attempts \in Nat
           /\ job[w].type = "ReplayReconciliation" => job[w].op \in ReplayOps
  BY DEF WorkersOK, Jobs, RejectedOrExhausted

(* What an execution may have created.                                     *)
LEMMA TaskIs ==
    ASSUME ExecutionsOK, NEW x \in Names
    PROVE  /\ task[x] \in Tasks
           /\ task[x] # NoTask /\ task[x] # Resolve =>
                 /\ task[x].type = "CreateReconciliation" /\ task[x].work \in Works
                 /\ task[x].attempts \in RejectedOrExhausted /\ task[x].attempts \in Nat
                 /\ task[x] = Create(task[x].work, task[x].attempts)
           /\ task[x].type = "CreateReconciliation" => task[x] # NoTask /\ task[x] # Resolve
  BY ReconciliationConstants
     DEF ExecutionsOK, Tasks, Create, NoTask, Resolve, RejectedOrExhausted

(* The checkout of an execution that was started.                          *)
LEMMA CheckoutIs ==
    ASSUME ExecutionsOK, NEW x \in Names, Started(x)
    PROVE  CheckoutOf(x) \in Checkouts
  BY ReconciliationConstants DEF ExecutionsOK, Names, Started, CheckoutOf, Replays, NoReplay

-----------------------------------------------------------------------------
(***************************************************************************)
(* The service's records                                                   *)
(***************************************************************************)
(* A checkout's own execution that has work to create is not put to another*)
(* task.                                                                   *)
LEMMA OwnTaskStays ==
    ASSUME TasksForward, NEW c \in Checkouts, task[c].type = "CreateReconciliation"
    PROVE  task'[c] = task[c]
  BY DEF Names, NoTask, TasksForward

LEMMA TablesSteady ==
    ASSUME AdmissionInv, TablesHold, TasksForward, faults' \in 0..MaxFaults,
           UNCHANGED <<live, admission, saga, execution, apiLocal, serviceVars>>
    PROVE  AdmissionInv' /\ TablesHold' /\ RecordsForward
  <1>1. AdmissionInv'
    BY AdmissionStutter
  <1>2. TablesHold' /\ RecordsForward
    <2>1. UNCHANGED <<record, facts, saga>>
      BY DEF serviceVars
    <2>2. TablesOK' /\ RecordsForward
      BY <2>1 DEF TablesHold, TablesOK, RecordInv, OnRecord, RecordsForward
    <2>3. \A c \in Checkouts : RecordInv(c)'
      BY <2>1, OwnTaskStays DEF TablesHold, RecordInv, OnRecord, IsOwnWork
    <2> QED BY <2>2, <2>3 DEF TablesHold
  <1> QED BY <1>1, <1>2

LEMMA AdmissionTables ==
    ASSUME AdmissionInv, TablesHold, TasksForward, AdmissionNext, UNCHANGED reconciliationVars
    PROVE  AdmissionInv' /\ TablesHold' /\ RecordsForward
  <1>1. AdmissionInv' /\ AdmissionForward
    BY AdmissionStep
  <1>2. TablesOK' /\ UNCHANGED <<record, facts>>
    BY FaultsKept DEF TablesHold, TablesOK, reconciliationVars, serviceVars
  <1>3. ASSUME NEW c \in Checkouts, OnRecord(c)
        PROVE  saga[c].version # None /\ saga'[c].version = saga[c].version
               /\ saga'[c].status = saga[c].status
    <2>1. saga[c].version # None
      BY <1>3 DEF TablesHold, RecordInv
    <2>2. saga[c] # NoSaga
      BY <2>1 DEF NoSaga
    <2> QED BY <1>1, <2>1, <2>2, StatusKept DEF AdmissionForward
  <1>4. \A c \in Checkouts : RecordInv(c)'
    BY <1>2, <1>3, OwnTaskStays DEF TablesHold, RecordInv, OnRecord, IsOwnWork
  <1>5. RecordsForward
    BY <1>1, <1>2, <1>3 DEF TablesHold, RecordInv, OnRecord, RecordsForward, AdmissionForward
  <1> QED BY <1>1, <1>2, <1>4, <1>5 DEF TablesHold

(* A replay is admitted or given back.                                     *)
LEMMA Transition ==
    ASSUME AdmissionInv, TablesHold, TasksForward, NEW c \in Checkouts, NEW r \in Records,
           OnRecord(c), record[c].status # "RESOLVED",
           r.status \in {"RECONCILIATION_REQUIRED", "REPLAYING"},
           r.version = record[c].version, IsOwnWork(c, r),
           record' = [record EXCEPT ![c] = r], UNCHANGED <<admissionVars, facts>>
    PROVE  AdmissionInv' /\ TablesHold' /\ RecordsForward
  <1>1. AdmissionInv' /\ UNCHANGED <<saga, facts, faults>>
    BY AdmissionStutter DEF admissionVars, apiLocal
  <1>2. record'[c] = r /\ \A d \in Checkouts : d # c => record'[d] = record[d]
    BY DEF TablesHold, TablesOK
  <1>3. TablesOK'
    BY <1>1 DEF TablesHold, TablesOK
  <1>4. RecordInv(c)'
    BY <1>1, <1>2, OwnTaskStays DEF TablesHold, RecordInv, OnRecord, IsOwnWork
  <1>5. \A d \in Checkouts : d # c => RecordInv(d)'
    BY <1>1, <1>2, OwnTaskStays DEF TablesHold, RecordInv, OnRecord, IsOwnWork
  <1>6. RecordsForward
    BY <1>1, <1>2 DEF TablesHold, RecordInv, OnRecord, RecordsForward, IsOwnWork
  <1> QED BY <1>1, <1>3, <1>4, <1>5, <1>6 DEF TablesHold

(* Work is required, required again or resolved, with the Saga's status    *)
(* and the fact.                                                           *)
LEMMA Published ==
    ASSUME AdmissionInv, TablesHold, TasksForward, NEW c \in Checkouts, NEW r \in Records,
           record[c].status # "RESOLVED", r.status \in {"RECONCILIATION_REQUIRED", "RESOLVED"},
           r.version = saga[c].version, r.version # None, IsOwnWork(c, r),
           record' = [record EXCEPT ![c] = r], SagaStatus(c, r.status),
           Publish(c, IF r.status = "RESOLVED" THEN "resolved" ELSE "required")
    PROVE  AdmissionInv' /\ TablesHold' /\ RecordsForward
  <1>1. UNCHANGED <<live, admission, execution, apiLocal, faults>>
        /\ saga' = [saga EXCEPT ![c].status = r.status]
    BY DEF SagaStatus
  <1>2. saga[c] # NoSaga
    BY DEF NoSaga
  <1>3. AdmissionInv' /\ AdmissionForward
    BY <1>1, <1>2, StatusStep DEF Statuses
  <1>4. /\ saga'[c].status = r.status /\ saga'[c].version = saga[c].version
        /\ \A d \in Checkouts : d # c => saga'[d] = saga[d]
    BY <1>1 DEF AdmissionInv, RecordsOK
  <1>5. record'[c] = r /\ \A d \in Checkouts : d # c => record'[d] = record[d]
    BY DEF TablesHold, TablesOK
  <1>6. facts[c].resolved = 0
    BY DEF TablesHold, RecordInv
  <1>7. /\ facts' \in [Checkouts -> [required : Nat, resolved : 0..1]]
        /\ facts'[c].resolved = IF r.status = "RESOLVED" THEN 1 ELSE 0
        /\ \A d \in Checkouts : d # c => facts'[d] = facts[d]
    <2>1. facts \in [Checkouts -> [required : Nat, resolved : 0..1]]
      BY DEF TablesHold, TablesOK
    <2>2. CASE r.status = "RESOLVED"
      <3>1. facts' = [facts EXCEPT ![c] = [facts[c] EXCEPT !.resolved = @ + 1]]
        BY <2>1, <2>2 DEF Publish
      <3>2. [facts[c] EXCEPT !.resolved = @ + 1] = [required |-> facts[c].required, resolved |-> 1]
        BY <1>6, <2>1
      <3> QED BY <2>1, <2>2, <3>1, <3>2
    <2>3. CASE r.status # "RESOLVED"
      <3>1. facts' = [facts EXCEPT ![c] = [facts[c] EXCEPT !.required = @ + 1]]
        BY <2>1, <2>3 DEF Publish
      <3>2. [facts[c] EXCEPT !.required = @ + 1] =
                [required |-> facts[c].required + 1, resolved |-> 0]
        BY <1>6, <2>1
      <3> QED BY <2>1, <2>3, <3>1, <3>2
    <2> QED BY <2>2, <2>3
  <1>8. TablesOK'
    BY <1>1, <1>7 DEF TablesHold, TablesOK
  <1>9. RecordInv(c)'
    BY <1>4, <1>5, <1>7, OwnTaskStays DEF RecordInv, OnRecord, IsOwnWork
  <1>10. \A d \in Checkouts : d # c => RecordInv(d)'
    BY <1>4, <1>5, <1>7, OwnTaskStays DEF TablesHold, RecordInv, OnRecord, IsOwnWork
  <1>11. RecordsForward
    BY <1>3, <1>4, <1>5, <1>7
       DEF TablesHold, RecordInv, OnRecord, RecordsForward, AdmissionForward, IsOwnWork
  <1> QED BY <1>3, <1>8, <1>9, <1>10, <1>11 DEF TablesHold

LEMMA PutTables ==
    ASSUME SagaInv, TasksForward, NEW w \in Workers, PutRecord(w)
    PROVE  AdmissionInv' /\ TablesHold' /\ RecordsForward
  <1> DEFINE c == job[w].checkout
             n == job[w].attempts
             r == Recorded(job[w], held[w])
  <1>1. CASE UNCHANGED <<admissionVars, serviceVars>>
    BY <1>1, TablesSteady DEF SagaInv, TablesHold, TablesOK, admissionVars
  <1>2. CASE ~UNCHANGED <<admissionVars, serviceVars>>
    <2>1. /\ point[w] = "put" /\ record[c].status = "NONE"
          /\ record' = [record EXCEPT ![c] = r]
          /\ SagaStatus(c, "RECONCILIATION_REQUIRED") /\ Publish(c, "required")
      BY <1>2 DEF PutRecord
    <2>2. /\ c \in Checkouts /\ job[w].work \in Works /\ n \in Nat
          /\ held[w] \in Versions \cup {None} /\ held[w] = saga[c].version /\ held[w] # None
          /\ task[c] = Create(job[w].work, n)
      <3>1. WorkerInv(w) /\ WorkersOK /\ job[w] # NoTask
        BY <2>1 DEF SagaInv, WorkersHold, WorkerInv
      <3> QED BY <2>1, <3>1, JobIs DEF WorkerInv, HoldsAt, WorkersOK, Creating, OnRecord
    <2>3. /\ r \in Records /\ r.status = "RECONCILIATION_REQUIRED" /\ r.version = held[w]
          /\ r.work = job[w].work /\ r.attempts = n /\ r.audit = <<>>
      BY <2>2, NewRecord
    <2> HIDE DEF r
    <2>4. IsOwnWork(c, r)
      BY <2>2, <2>3 DEF IsOwnWork, Create
    <2> QED BY <2>1, <2>2, <2>3, <2>4, Published DEF SagaInv
  <1> QED BY <1>1, <1>2

(* A record that is on record is on the version the Saga record names.     *)
LEMMA OnRecordIs ==
    ASSUME SagaInv, NEW c \in Checkouts, OnRecord(c)
    PROVE  /\ record[c] \in Records /\ record[c].version = saga[c].version
           /\ record[c].version # None /\ IsOwnWork(c, record[c])
           /\ task[c].attempts \in Nat
  <1>1. /\ record[c] \in Records /\ record[c].version = saga[c].version
        /\ record[c].version # None /\ IsOwnWork(c, record[c])
    BY DEF SagaInv, TablesHold, TablesOK, RecordInv
  <1>2. task[c].attempts \in Nat
    BY <1>1, TaskIs DEF SagaInv, ExecutionsHold, IsOwnWork, Names
  <1> QED BY <1>1, <1>2

LEMMA JobInHand ==
    ASSUME SagaInv, NEW w \in Workers, point[w] # "idle"
    PROVE  /\ job[w].checkout \in Checkouts /\ WorkerInv(w) /\ WorkersOK /\ job[w] # NoTask
           /\ job[w].type = "CreateReconciliation" =>
                 job[w].work \in Works /\ job[w].attempts \in Nat
           /\ job[w].type = "ReplayReconciliation" => job[w].op \in ReplayOps
  BY JobIs DEF SagaInv, WorkersHold, WorkerInv

(* The status of work being replayed changes, with the Saga's status.      *)
LEMMA StatusChange ==
    ASSUME SagaInv, TasksForward, NEW c \in Checkouts, record[c].status = "REPLAYING",
           NEW s \in {"RECONCILIATION_REQUIRED", "RESOLVED"},
           record' = [record EXCEPT ![c].status = s], SagaStatus(c, s),
           Publish(c, IF s = "RESOLVED" THEN "resolved" ELSE "required")
    PROVE  AdmissionInv' /\ TablesHold' /\ RecordsForward
  <1> DEFINE r == [record[c] EXCEPT !.status = s]
  <1>1. OnRecord(c) /\ record \in [Checkouts -> Records] /\ s \in RecordStatuses
    BY DEF OnRecord, SagaInv, TablesHold, TablesOK, RecordStatuses
  <1>2. record' = [record EXCEPT ![c] = r]
    BY <1>1
  <1>3. /\ r \in Records /\ r.status = s /\ r.version = record[c].version
        /\ r.work = record[c].work /\ r.attempts = record[c].attempts
        /\ r.audit = record[c].audit
    BY <1>1, WithStatus
  <1> HIDE DEF r
  <1>4. IsOwnWork(c, r)
    BY <1>1, <1>3, OnRecordIs DEF IsOwnWork
  <1> QED BY <1>1, <1>2, <1>3, <1>4, OnRecordIs, Published DEF SagaInv

LEMMA AdmitReplayTables ==
    ASSUME SagaInv, TasksForward, NEW w \in Workers, AdmitReplay(w)
    PROVE  AdmissionInv' /\ TablesHold' /\ RecordsForward
  <1> DEFINE c == job[w].checkout
             o == job[w].op
  <1>1. CASE UNCHANGED record
    <2>1. UNCHANGED <<admissionVars, serviceVars>>
      BY <1>1 DEF AdmitReplay, serviceVars
    <2> QED BY <2>1, TablesSteady DEF SagaInv, TablesHold, TablesOK, admissionVars
  <1>2. CASE record' # record
    <2> DEFINE r == IF point[w] = "readmit" THEN Readmitted(record[c], o)
                    ELSE Admitted(record[c], o)
    <2>1. /\ point[w] \in {"readmit", "admit replay"}
          /\ record[c].status = "RECONCILIATION_REQUIRED"
          /\ record' = [record EXCEPT ![c] = r] /\ UNCHANGED <<admissionVars, facts>>
      BY <1>2 DEF AdmitReplay
    <2>2. c \in Checkouts /\ o \in ReplayOps /\ OnRecord(c)
      BY <2>1, JobInHand DEF WorkerInv, HoldsAt, Replaying
    <2>3. /\ record[c] \in Records /\ IsOwnWork(c, record[c]) /\ task[c].attempts \in Nat
      BY <2>2, OnRecordIs
    <2>4. /\ r \in Records /\ r.status = "REPLAYING" /\ r.version = record[c].version
          /\ IsOwnWork(c, r)
      <3>1. CASE point[w] = "readmit"
        BY <3>1, <2>3, WithStatus DEF Readmitted, RecordStatuses, IsOwnWork
      <3>2. CASE point[w] # "readmit"
        BY <3>2, <2>2, <2>3, AdmittedRecord DEF IsOwnWork
      <3> QED BY <3>1, <3>2
    <2> HIDE DEF r
    <2> QED BY <2>1, <2>2, <2>4, Transition DEF SagaInv
  <1> QED BY <1>1, <1>2

LEMMA FailReplayTables ==
    ASSUME SagaInv, TasksForward, NEW w \in Workers, FailReplay(w)
    PROVE  AdmissionInv' /\ TablesHold' /\ RecordsForward
  <1> DEFINE c == job[w].checkout
             r == [record[c] EXCEPT !.status = "RECONCILIATION_REQUIRED"]
  <1>1. CASE UNCHANGED record
    <2>1. UNCHANGED <<admissionVars, serviceVars>>
      BY <1>1 DEF FailReplay, serviceVars
    <2> QED BY <2>1, TablesSteady DEF SagaInv, TablesHold, TablesOK, admissionVars
  <1>2. CASE record' # record
    <2>1. /\ point[w] = "give back" /\ record[c].status = "REPLAYING"
          /\ record' = [record EXCEPT ![c].status = "RECONCILIATION_REQUIRED"]
          /\ UNCHANGED <<admissionVars, facts>>
      BY <1>2 DEF FailReplay, MayGiveBack
    <2>2. c \in Checkouts /\ OnRecord(c)
      BY <2>1, JobInHand DEF WorkerInv, HoldsAt, Replaying
    <2>3. record[c] \in Records /\ IsOwnWork(c, record[c])
      BY <2>2, OnRecordIs
    <2>4. record' = [record EXCEPT ![c] = r]
      BY <2>1, <2>2 DEF SagaInv, TablesHold, TablesOK
    <2>5. /\ r \in Records /\ r.status = "RECONCILIATION_REQUIRED"
          /\ r.version = record[c].version /\ IsOwnWork(c, r)
      BY <2>3, WithStatus DEF RecordStatuses, IsOwnWork
    <2> HIDE DEF r
    <2> QED BY <2>1, <2>2, <2>4, <2>5, Transition DEF SagaInv
  <1> QED BY <1>1, <1>2

(* Only an execution that has no task yet comes to one.                    *)
LEMMA TasksStep ==
    ASSUME SagaInv, SagaNext
    PROVE  TasksForward
  <1>1. task \in [Names -> Tasks]
    BY DEF SagaInv, ExecutionsHold, ExecutionsOK
  <1>2. ASSUME NEW x \in Names, ReachTask(x) PROVE TasksForward
    BY <1>1, <1>2 DEF ReachTask, TasksForward
  <1>3. CASE UNCHANGED task
    BY <1>3 DEF TasksForward
  <1> QED
    BY <1>2, <1>3
       DEF SagaNext, CallService, OperatorReplays, WorkerStep, ReadSagaVersion, ReadToCreate,
           PutRecord, ReopenRecord, ReadToResolve, ResolveRecord, ReadToReplay, AdmitReplay,
           StartReplay, Start, FailReplay, Finish, StartFails, LoseAnswer, executionVars,
           reconciliationVars

LEMMA RecordsStep ==
    ASSUME SagaInv, SagaNext
    PROVE  AdmissionInv' /\ TablesHold' /\ RecordsForward
  <1>t. TasksForward
    BY TasksStep
  <1>a. faults \in 0..MaxFaults /\ MaxFaults \in Nat
    BY AdmissionConstants DEF SagaInv, TablesHold, TablesOK
  <1>1. CASE UNCHANGED <<admissionVars, serviceVars>>
    BY <1>1, <1>a, <1>t, TablesSteady DEF SagaInv, admissionVars
  <1>2. CASE /\ faults < MaxFaults /\ faults' = faults + 1
             /\ UNCHANGED <<live, admission, saga, execution, apiLocal, serviceVars>>
    BY <1>2, <1>a, <1>t, TablesSteady DEF SagaInv
  <1>3. CASE AdmissionNext /\ UNCHANGED reconciliationVars
    BY <1>3, <1>t, AdmissionTables DEF SagaInv
  <1>4. ASSUME NEW w \in Workers, ReopenRecord(w) \/ ResolveRecord(w),
               ~UNCHANGED <<admissionVars, serviceVars>>
        PROVE  AdmissionInv' /\ TablesHold' /\ RecordsForward
    <2> DEFINE c == job[w].checkout
    <2>1. c \in Checkouts
      BY <1>4, JobInHand DEF ReopenRecord, ResolveRecord
    <2>2. CASE ReopenRecord(w)
      <3>1. /\ record[c].status = "REPLAYING"
            /\ record' = [record EXCEPT ![c].status = "RECONCILIATION_REQUIRED"]
            /\ SagaStatus(c, "RECONCILIATION_REQUIRED") /\ Publish(c, "required")
        BY <1>4, <2>2 DEF ReopenRecord, MayReopen
      <3> QED BY <1>t, <2>1, <3>1, StatusChange
    <2>3. CASE ResolveRecord(w)
      <3>1. /\ record[c].status = "REPLAYING"
            /\ record' = [record EXCEPT ![c].status = "RESOLVED"]
            /\ SagaStatus(c, "RESOLVED") /\ Publish(c, "resolved")
        BY <1>4, <2>3 DEF ResolveRecord, MayResolve
      <3> QED BY <1>t, <2>1, <3>1, StatusChange
    <2> QED BY <1>4, <2>2, <2>3
  <1> QED
    BY <1>1, <1>2, <1>3, <1>4, <1>t, PutTables, AdmitReplayTables, FailReplayTables
       DEF SagaNext, ReachTask, CallService, OperatorReplays, WorkerStep, ReadSagaVersion,
           ReadToCreate, ReadToResolve, ReadToReplay, StartReplay, Finish, StartFails, LoseAnswer
-----------------------------------------------------------------------------
(***************************************************************************)
(* The executions                                                          *)
(***************************************************************************)
LEMMA ReplayKept ==
    ASSUME SagaInv, RecordsForward, NEW o \in ReplayOps, replay'[o] = replay[o]
    PROVE  ReplayInv(o)'
  <1> SUFFICES ASSUME replay[o] # NoReplay PROVE ReplayInv(o)'
    BY DEF ReplayInv
  <1> DEFINE c == replay[o].checkout
  <1>1. c \in Checkouts /\ ReplayInv(o)
    BY DEF SagaInv, ExecutionsHold, ExecutionsOK, Replays
  <1>2. OnRecord(c) /\ saga[c].version # None
    BY <1>1, OnRecordIs DEF ReplayInv
  <1>3. OnRecord(c)' /\ saga'[c].version = saga[c].version
    BY <1>1, <1>2 DEF RecordsForward
  <1> QED BY <1>1, <1>3 DEF ReplayInv, OnRecord

(* What is on record of a checkout stays so, whoever refers to it.         *)
LEMMA RecordStays ==
    ASSUME RecordsForward, NEW x \in Names, CheckoutOf(x) \in Checkouts,
           CheckoutOf(x)' = CheckoutOf(x), task'[x] = task[x]
    PROVE  /\ OnRecord(CheckoutOf(x)) => OnRecord(CheckoutOf(x))'
           /\ Done(task[x], CheckoutOf(x)) => Done(task[x], CheckoutOf(x))'
  <1>1. PICK c \in Checkouts : c = CheckoutOf(x)
    OBVIOUS
  <1>2. /\ OnRecord(c) => record'[c].status # "NONE" /\ record'[c].work = record[c].work
        /\ record[c].status = "RESOLVED" => record'[c].status = "RESOLVED"
    BY DEF RecordsForward, OnRecord
  <1>3. CheckoutOf(x)' = c
    BY <1>1
  <1> QED BY <1>1, <1>2, <1>3 DEF OnRecord, Done

LEMMA ExecutionKept ==
    ASSUME SagaInv, RecordsForward, ExecutionsForward, NEW x \in Names,
           phase'[x] = phase[x], tries'[x] = tries[x],
           task'[x] = Resolve => task[x] = Resolve \/ (x \in ReplayOps /\ replay[x] # NoReplay)
    PROVE  ExecutionInv(x)'
  <1>1. ExecutionInv(x) /\ ExecutionsOK
    BY DEF SagaInv, ExecutionsHold
  <1>2. x \in ReplayOps /\ replay[x] # NoReplay => replay'[x] = replay[x]
    BY DEF ExecutionsForward
  <1>3. task'[x] = Resolve => x \in ReplayOps /\ replay'[x] # NoReplay
    BY <1>1, <1>2 DEF ExecutionInv
  <1>4. CASE phase[x] # "running"
    <2>1. /\ Started(x) /\ Started(x)' /\ CheckoutOf(x)' = CheckoutOf(x)
          /\ task'[x] = task[x]
      BY <1>1, <1>2, <1>4
         DEF ExecutionInv, Started, CheckoutOf, Names, ExecutionsForward, TasksForward
    <2>2. CheckoutOf(x) \in Checkouts
      BY <1>1, <2>1, CheckoutIs
    <2>3. OnRecord(CheckoutOf(x)) => OnRecord(CheckoutOf(x))'
      BY <2>1, <2>2, RecordStays
    <2>4. Done(task[x], CheckoutOf(x)) => Done(task[x], CheckoutOf(x))'
      BY <2>1, <2>2, RecordStays
    <2>5. phase'[x] = "succeeded" => Done(task[x], CheckoutOf(x))'
      BY <1>1, <2>4 DEF ExecutionInv
    <2>6. phase'[x] = "failed" => OnRecord(CheckoutOf(x))' \/ tries'[x] = MaxAttempts
      BY <1>1, <2>3 DEF ExecutionInv
    <2>7. task'[x] # NoTask
      BY <1>1, <1>4, <2>1 DEF ExecutionInv
    <2> QED BY <1>3, <1>4, <2>1, <2>5, <2>6, <2>7 DEF ExecutionInv
  <1>5. CASE phase[x] = "running"
    BY <1>1, <1>3, <1>5 DEF ExecutionInv
  <1> QED BY <1>4, <1>5

LEMMA ExecutionsSteady ==
    ASSUME SagaInv, RecordsForward, UNCHANGED executionVars
    PROVE  ExecutionsHold' /\ ExecutionsForward
  <1>1. UNCHANGED <<phase, replay, task, tries>>
    BY DEF executionVars
  <1>2. ExecutionsForward
    BY <1>1 DEF ExecutionsForward, TasksForward
  <1>3. ExecutionsOK'
    BY <1>1 DEF SagaInv, ExecutionsHold, ExecutionsOK
  <1>4. \A o \in ReplayOps : ReplayInv(o)'
    BY <1>1, ReplayKept
  <1>5. \A x \in Names : ExecutionInv(x)'
    BY <1>1, <1>2, ExecutionKept
  <1> QED BY <1>2, <1>3, <1>4, <1>5 DEF ExecutionsHold

LEMMA ReachTaskExecutions ==
    ASSUME SagaInv, RecordsForward, NEW x \in Names, ReachTask(x)
    PROVE  ExecutionsHold' /\ ExecutionsForward
  <1>1. /\ task[x] = NoTask /\ UNCHANGED <<phase, replay, tries>>
        /\ \/ \E f \in Failures : task' = [task EXCEPT ![x] = Create(f[1], f[2])]
           \/ x \in ReplayOps /\ replay[x] # NoReplay /\ task' = [task EXCEPT ![x] = Resolve]
    BY ReconciliationConstants DEF ReachTask, Runs
  <1>2. ExecutionsOK /\ \A f \in Failures : Create(f[1], f[2]) # Resolve
    BY DEF SagaInv, ExecutionsHold, Create, Resolve
  <1>3. task' \in [Names -> Tasks] /\ \A y \in Names : y # x => task'[y] = task[y]
    BY <1>1, <1>2 DEF ExecutionsOK, Tasks
  <1>4. task'[x] = Resolve => x \in ReplayOps /\ replay[x] # NoReplay
    BY <1>1, <1>2 DEF ExecutionsOK
  <1>5. ExecutionsOK'
    BY <1>1, <1>2, <1>3 DEF ExecutionsOK
  <1>6. ExecutionsForward
    BY <1>1, <1>3 DEF ExecutionsForward, TasksForward
  <1>7. \A o \in ReplayOps : ReplayInv(o)'
    BY <1>1, ReplayKept
  <1>8. \A y \in Names : ExecutionInv(y)'
    <2>1. \A y \in Names : task'[y] = Resolve =>
              task[y] = Resolve \/ (y \in ReplayOps /\ replay[y] # NoReplay)
      BY <1>3, <1>4
    <2> QED BY <1>1, <1>6, <2>1, ExecutionKept
  <1> QED BY <1>5, <1>6, <1>7, <1>8 DEF ExecutionsHold

LEMMA StartExecutions ==
    ASSUME SagaInv, RecordsForward, NEW w \in Workers, point[w] = "start", Start(w),
           NEW o \in ReplayOps, NEW c \in Checkouts, o = job[w].op, c = job[w].checkout
    PROVE  ExecutionsHold' /\ ExecutionsForward /\ replay'[o].checkout = c
  <1> DEFINE new == [checkout |-> c, version |-> held[w]]
  <1>1. c = Target[o] /\ OnRecord(c) /\ held[w] = saga[c].version
    BY JobInHand DEF WorkerInv, HoldsAt, Replaying
  <1>2. saga[c].version \in Versions
    BY <1>1, OnRecordIs DEF Records
  <1>3. new \in Replays /\ new.checkout = c /\ new.version = saga[c].version /\ new # NoReplay
    BY <1>1, <1>2, ReconciliationConstants DEF Replays, NoReplay, Names
  <1>4. UNCHANGED <<phase, task, tries>>
        /\ replay' = IF replay[o] # NoReplay THEN replay ELSE [replay EXCEPT ![o] = new]
    BY DEF Start
  <1> HIDE DEF new
  <1>5. ExecutionsOK /\ \A p \in ReplayOps : ReplayInv(p)
    BY DEF SagaInv, ExecutionsHold
  <1>6. /\ \A p \in ReplayOps : p # o => replay'[p] = replay[p]
        /\ replay'[o] = IF replay[o] # NoReplay THEN replay[o] ELSE new
    BY <1>1, <1>4, <1>5 DEF ExecutionsOK
  <1>7. ExecutionsOK'
    BY <1>3, <1>4, <1>5 DEF ExecutionsOK
  <1>8. ExecutionsForward
    BY <1>4, <1>6 DEF ExecutionsForward, TasksForward
  <1>9. ReplayInv(o)'
    <2>1. CASE replay[o] # NoReplay
      BY <1>1, <1>6, <2>1, ReplayKept
    <2>2. CASE replay[o] = NoReplay
      <3>1. OnRecord(c)' /\ saga'[c].version = saga[c].version
        BY <1>1, OnRecordIs DEF RecordsForward
      <3>2. replay'[o].checkout = c /\ replay'[o].version = saga'[c].version
        BY <1>3, <1>6, <2>2, <3>1
      <3> QED BY <1>1, <3>1, <3>2 DEF ReplayInv, OnRecord
    <2> QED BY <2>1, <2>2
  <1>10. \A p \in ReplayOps : ReplayInv(p)'
    BY <1>6, <1>9, ReplayKept
  <1>11. \A x \in Names : ExecutionInv(x)'
    BY <1>4, <1>8, ExecutionKept
  <1>12. replay'[o].checkout = c
    BY <1>1, <1>3, <1>5, <1>6 DEF ReplayInv
  <1> QED BY <1>7, <1>8, <1>10, <1>11, <1>12 DEF ExecutionsHold

(* An execution succeeds when it has done its task, and fails when it gives*)
(* up or is refused.                                                       *)
Concludes(x) ==
    \/ Retry(x)
    \/ Done(task[x], CheckoutOf(x)) /\ Close(x, "succeeded") /\ UNCHANGED tries
    \/ OnRecord(CheckoutOf(x)) /\ Close(x, "failed") /\ UNCHANGED tries
LEMMA AnsweredExecutions ==
    ASSUME SagaInv, RecordsForward, NEW x \in Names, Started(x), task[x] # NoTask,
           phase[x] = "running", UNCHANGED <<replay, task>>, Concludes(x)
    PROVE  ExecutionsHold' /\ ExecutionsForward
  <1>1. ExecutionsOK /\ ExecutionInv(x)
    BY DEF SagaInv, ExecutionsHold
  <1>2. tries[x] \in 0..2 /\ MaxAttempts = 3
    BY <1>1 DEF ExecutionsOK, ExecutionInv, MaxAttempts
  <1>3. /\ \A y \in Names : y # x => phase'[y] = phase[y] /\ tries'[y] = tries[y]
        /\ phase' \in [Names -> {"running", "succeeded", "failed"}]
    BY <1>1 DEF ExecutionsOK, Concludes, Retry, Close
  <1>4. tries' \in [Names -> 0..MaxAttempts]
    BY <1>1, <1>2 DEF ExecutionsOK, Concludes, Retry
  <1>5. /\ phase'[x] = "succeeded" => Done(task[x], CheckoutOf(x))
        /\ phase'[x] = "failed" => OnRecord(CheckoutOf(x)) \/ tries'[x] = MaxAttempts
        /\ phase'[x] = "running" => tries'[x] < MaxAttempts
    BY <1>1, <1>2 DEF Concludes, Retry, ExecutionsOK, Close
  <1>6. ExecutionsForward
    BY DEF ExecutionsForward, TasksForward
  <1>7. ExecutionsOK'
    BY <1>1, <1>3, <1>4 DEF ExecutionsOK
  <1>8. \A o \in ReplayOps : ReplayInv(o)'
    BY ReplayKept
  <1>9. ExecutionInv(x)'
    <2>1. /\ CheckoutOf(x) \in Checkouts /\ CheckoutOf(x)' = CheckoutOf(x) /\ Started(x)'
          /\ task'[x] = task[x]
      BY <1>1, CheckoutIs DEF CheckoutOf, Started
    <2>2. /\ OnRecord(CheckoutOf(x)) => OnRecord(CheckoutOf(x))'
          /\ Done(task[x], CheckoutOf(x)) => Done(task[x], CheckoutOf(x))'
      BY <2>1, RecordStays
    <2>3. task'[x] = Resolve => x \in ReplayOps /\ replay'[x] # NoReplay
      BY <1>1 DEF ExecutionInv
    <2>4. phase'[x] = "succeeded" => Done(task[x], CheckoutOf(x))'
      BY <1>5, <2>2
    <2>5. phase'[x] = "failed" => OnRecord(CheckoutOf(x))' \/ tries'[x] = MaxAttempts
      BY <1>5, <2>2
    <2> QED BY <1>5, <2>1, <2>3, <2>4, <2>5 DEF ExecutionInv
  <1>10. \A y \in Names : y # x => ExecutionInv(y)'
    BY <1>3, <1>6, ExecutionKept
  <1> QED BY <1>6, <1>7, <1>8, <1>9, <1>10 DEF ExecutionsHold

LEMMA ExecutionsStep ==
    ASSUME SagaInv, SagaNext, RecordsForward
    PROVE  ExecutionsHold' /\ ExecutionsForward
  <1>1. CASE UNCHANGED executionVars
    BY <1>1, ExecutionsSteady
  <1>2. ASSUME NEW w \in Workers, Finish(w) \/ LoseAnswer(w), ~UNCHANGED executionVars
        PROVE  ExecutionsHold' /\ ExecutionsForward
    <2>1. PICK x \in Names : x = caller[w] /\ UNCHANGED <<replay, task>>
      BY <1>2 DEF Finish, LoseAnswer, executionVars
    <2>2. /\ Started(x) /\ CheckoutOf(x) = job[w].checkout /\ WorkerInv(w)
          /\ IsFor(job[w], x)
      BY <2>1 DEF SagaInv, WorkersHold, WorkerInv, IsFor
    <2>3. task[x] # NoTask /\ phase[x] = "running"
      BY <2>1, <2>2 DEF SagaInv, CallersInv, WorkerInv, IsFor
    <2>4. Concludes(x)
      <3>1. SUFFICES ASSUME ~Retry(x) PROVE Concludes(x)
        BY DEF Concludes
      <3>2. Finish(w) /\ UNCHANGED tries
            /\ \/ point[w] = "answer" /\ Close(x, "succeeded")
               \/ point[w] = "refused" /\ Close(x, "failed")
        BY <1>2, <2>1, <3>1 DEF Finish, LoseAnswer
      <3>3. point[w] \in {"answer", "refused"} => OnRecord(CheckoutOf(x))
        BY <2>2 DEF WorkerInv, HoldsAt
      <3>4. point[w] = "answer" => Done(task[x], CheckoutOf(x))
        BY <2>1, <2>2, <3>3 DEF WorkerInv, HoldsAt, IsFor, Done
      <3> QED BY <3>2, <3>3, <3>4 DEF Concludes
    <2> QED BY <2>1, <2>2, <2>3, <2>4, AnsweredExecutions
  <1>3. ASSUME NEW w \in Workers, StartReplay(w) \/ StartFails(w), ~UNCHANGED executionVars
        PROVE  ExecutionsHold' /\ ExecutionsForward
    <2>1. point[w] = "start" /\ Start(w)
      BY <1>3 DEF StartReplay, StartFails
    <2>2. job[w].op \in ReplayOps /\ job[w].checkout \in Checkouts
      BY <2>1, JobInHand DEF WorkerInv, HoldsAt, Replaying
    <2> QED BY <2>1, <2>2, StartExecutions
  <1> QED
    BY <1>1, <1>2, <1>3, ReachTaskExecutions
       DEF SagaNext, CallService, OperatorReplays, WorkerStep, ReadSagaVersion, ReadToCreate,
           PutRecord, ReopenRecord, ReadToResolve, ResolveRecord, ReadToReplay, AdmitReplay,
           FailReplay, reconciliationVars
-----------------------------------------------------------------------------
(***************************************************************************)
(* The invocations                                                         *)
(***************************************************************************)
(* What an invocation has read stays so.                                   *)
LEMMA HeldStays ==
    ASSUME SagaInv, RecordsForward, ExecutionsForward, NEW p, NEW j, NEW h,
           j.checkout \in Checkouts, j.type = "ReplayReconciliation" => j.op \in ReplayOps,
           HoldsAt(p, j, h)
    PROVE  HoldsAt(p, j, h)'
  <1> DEFINE c == j.checkout
  <1>1. OnRecord(c) => /\ record'[c].status # "NONE" /\ saga[c].version # None
                       /\ saga'[c].version = saga[c].version /\ record'[c].work = record[c].work
    BY OnRecordIs DEF RecordsForward, OnRecord
  <1>2. saga[c].version # None => saga'[c].version = saga[c].version
    BY DEF RecordsForward
  <1>3. record[c].status = "RESOLVED" => record'[c].status = "RESOLVED"
    BY DEF RecordsForward
  <1>4. \A o \in ReplayOps : replay[o].checkout = c => replay'[o] = replay[o]
    BY ReconciliationConstants DEF ExecutionsForward, NoReplay, Names
  <1>5. MayResolveNow(c) => \E o \in ReplayOps : replay'[o].checkout = c /\ task'[o] = Resolve
    BY <1>4 DEF MayResolveNow, ExecutionsForward, TasksForward, Resolve, NoTask, Names
  <1>6. task[c] # NoTask => task'[c] = task[c]
    BY DEF ExecutionsForward, TasksForward, Names
  <1>7. \A k, n : Create(k, n) # NoTask
    BY DEF Create, NoTask
  <1>8. p \in Replaying \/ (p = "answer" /\ j.type = "ReplayReconciliation") =>
            j.op \in ReplayOps
    BY DEF HoldsAt
  <1> HIDE DEF c
  <1>9. /\ p \in Creating => record'[c].status # "NONE" \/ task'[c] = Create(j.work, j.attempts)
        /\ p \in {"read to create", "put"} => h = saga'[c].version /\ h # None
        /\ p = "reopen" => record'[c].status # "NONE" /\ record'[c].work = j.work
    BY <1>1, <1>2, <1>6, <1>7 DEF HoldsAt, OnRecord, c
  <1>10. /\ p \in Resolving => record'[c].status # "NONE"
         /\ p \in Resolving => \E o \in ReplayOps : replay'[o].checkout = c /\ task'[o] = Resolve
         /\ p \in Replaying => record'[c].status # "NONE"
         /\ p \in {"readmit", "admit replay", "start"} => h = saga'[c].version
    BY <1>1, <1>5 DEF HoldsAt, Replaying, OnRecord, c
  <1>11. /\ p \in {"answer", "refused"} => record'[c].status # "NONE"
         /\ p = "answer" /\ j.type = "CreateReconciliation" => record'[c].work = j.work
         /\ p = "answer" /\ j.type = "ResolveReconciliation" => record'[c].status = "RESOLVED"
         /\ p = "answer" /\ j.type = "ReplayReconciliation" =>
               replay'[j.op].checkout = c \/ record'[c].status = "RESOLVED"
    BY <1>1, <1>3, <1>4, <1>8 DEF HoldsAt, OnRecord, c
  <1> QED BY <1>9, <1>10, <1>11 DEF HoldsAt, OnRecord, MayResolveNow, c

(* An execution that waits for an invocation waits for its own command.    *)
LEMMA CallerStays ==
    ASSUME ExecutionsForward, NEW x \in Names, NEW j, Started(x), IsFor(j, x)
    PROVE  Started(x)' /\ IsFor(j, x)'
  <1>1. task'[x] = task[x]
    BY DEF ExecutionsForward, TasksForward, IsFor
  <1>2. x \in ReplayOps => replay'[x] = replay[x] /\ replay[x] # NoReplay
    BY DEF ExecutionsForward, Started
  <1>3. CheckoutOf(x)' = CheckoutOf(x)
    BY <1>2 DEF CheckoutOf, Names
  <1> QED BY <1>1, <1>2, <1>3 DEF IsFor, Started

LEMMA WorkerKept ==
    ASSUME SagaInv, RecordsForward, ExecutionsForward, NEW v \in Workers,
           point'[v] = point[v], job'[v] = job[v], held'[v] = held[v],
           caller'[v] \in {caller[v], None}
    PROVE  WorkerInv(v)'
  <1>1. WorkerInv(v)
    BY DEF SagaInv, WorkersHold
  <1>2. PICK p, j, h, x : p = point[v] /\ j = job[v] /\ h = held[v] /\ x = caller'[v]
    OBVIOUS
  <1>3. x \in Names => point[v] # "idle" /\ Started(x)' /\ IsFor(j, x)'
    <2>1. x \in Names => /\ point[v] # "idle" /\ Started(x) /\ IsFor(j, x)
      BY <1>1, <1>2, ReconciliationConstants DEF WorkerInv
    <2> QED BY <2>1, CallerStays
  <1>4. HoldsAt(p, j, h)'
    <2>1. CASE p = "idle"
      BY <2>1 DEF HoldsAt, Creating, Resolving, Replaying
    <2>2. CASE p # "idle"
      BY <1>1, <1>2, <2>2, HeldStays, JobInHand DEF WorkerInv
    <2> QED BY <2>1, <2>2
  <1>5. point'[v] = p /\ job'[v] = j /\ held'[v] = h /\ caller'[v] = x
    BY <1>2
  <1>6. HoldsAt(point[v], job[v], held[v])'
    BY <1>4, <1>5
  <1>7. caller'[v] \in Names =>
            point'[v] # "idle" /\ Started(caller[v])' /\ IsFor(job[v], caller[v])'
    BY <1>2, <1>3, <1>5
  <1>8. point'[v] # "idle" => job'[v] # NoTask
    BY <1>1 DEF WorkerInv
  <1> QED BY <1>6, <1>7, <1>8 DEF WorkerInv

LEMMA OwnMove ==
    ASSUME SagaInv, RecordsForward, ExecutionsForward, NEW w \in Workers,
           NEW p \in Points \ {"idle"}, NEW h \in Versions \cup {None}, NEW j, j = job[w], point[w] # "idle",
           point' = [point EXCEPT ![w] = p], held' = [held EXCEPT ![w] = h],
           UNCHANGED <<job, caller>>, HoldsAt(p, j, h)'
    PROVE  WorkersHold'
  <1>1. WorkersOK /\ WorkerInv(w)
    BY DEF SagaInv, WorkersHold
  <1>2. WorkersOK'
    BY <1>1 DEF WorkersOK
  <1>3. point'[w] = p /\ held'[w] = h /\ job'[w] = j /\ caller'[w] = caller[w]
    BY <1>1 DEF WorkersOK
  <1>4. HoldsAt(point[w], job[w], held[w])'
    BY <1>3
  <1>5. caller'[w] \in Names =>
            /\ point'[w] # "idle" /\ Started(caller[w])' /\ IsFor(job[w], caller[w])'
    <2>1. PICK x : x = caller[w]
      OBVIOUS
    <2>2. x \in Names => Started(x) /\ IsFor(j, x)
      BY <1>1, <2>1 DEF WorkerInv
    <2>3. x \in Names => Started(x)' /\ IsFor(j, x)'
      BY <2>2, CallerStays
    <2>4. caller'[w] = x
      BY <1>3, <2>1
    <2> QED BY <1>3, <2>3, <2>4
  <1>6. WorkerInv(w)'
    BY <1>1, <1>3, <1>4, <1>5 DEF WorkerInv
  <1>7. ASSUME NEW v \in Workers, v # w PROVE WorkerInv(v)'
    <2>1. /\ point'[v] = point[v] /\ job'[v] = job[v] /\ held'[v] = held[v]
          /\ caller'[v] \in {caller[v], None}
      BY <1>1, <1>7 DEF WorkersOK
    <2> QED BY <2>1, WorkerKept
  <1> QED BY <1>2, <1>6, <1>7 DEF WorkersHold

LEMMA HoldStep ==
    ASSUME SagaInv, RecordsForward, ExecutionsForward, NEW w \in Workers,
           NEW p \in Points \ {"idle"}, NEW h \in Versions \cup {None}, point[w] # "idle",
           Hold(w, p, h), HoldsAt(p, job[w], h)
    PROVE  WorkersHold'
  <1>1. PICK j : j = job[w]
    OBVIOUS
  <1>2. j.checkout \in Checkouts /\ (j.type = "ReplayReconciliation" => j.op \in ReplayOps)
    BY <1>1, JobInHand
  <1>3. HoldsAt(p, j, h)
    BY <1>1
  <1>4. HoldsAt(p, j, h)'
    BY <1>2, <1>3, HeldStays
  <1>5. /\ point' = [point EXCEPT ![w] = p] /\ held' = [held EXCEPT ![w] = h]
        /\ UNCHANGED <<job, caller>>
    BY DEF Hold, At
  <1> QED BY <1>1, <1>4, <1>5, OwnMove

LEMMA GoMove ==
    ASSUME SagaInv, RecordsForward, ExecutionsForward, NEW w \in Workers,
           NEW p \in Points \ {"idle"}, NEW h, NEW j, j = job[w], h = held[w], point[w] # "idle",
           Go(w, p), HoldsAt(p, j, h)'
    PROVE  WorkersHold'
  <1>1. WorkersOK
    BY DEF SagaInv, WorkersHold
  <1>2. /\ point' = [point EXCEPT ![w] = p] /\ held' = [held EXCEPT ![w] = h]
        /\ UNCHANGED <<job, caller>> /\ h \in Versions \cup {None}
    BY <1>1 DEF Go, At, WorkersOK
  <1> QED BY <1>2, OwnMove

LEMMA GoStep ==
    ASSUME SagaInv, RecordsForward, ExecutionsForward, NEW w \in Workers,
           NEW p \in Points \ {"idle"}, point[w] # "idle", Go(w, p),
           HoldsAt(p, job[w], held[w])
    PROVE  WorkersHold'
  <1>1. PICK j, h : j = job[w] /\ h = held[w]
    OBVIOUS
  <1>2. j.checkout \in Checkouts /\ (j.type = "ReplayReconciliation" => j.op \in ReplayOps)
    BY <1>1, JobInHand
  <1>3. HoldsAt(p, j, h)
    BY <1>1
  <1>4. HoldsAt(p, j, h)'
    BY <1>2, <1>3, HeldStays
  <1> QED BY <1>1, <1>4, GoMove

(* An answer needs the work on record: the work that was to be created, or *)
(* what was resolved, or what the replay that was started is of.           *)
LEMMA AnswerStep ==
    ASSUME SagaInv, RecordsForward, ExecutionsForward, NEW w \in Workers, point[w] # "idle",
           Go(w, "answer"), NEW j, NEW c, j = job[w], c = j.checkout, record'[c].status # "NONE",
           j.type = "CreateReconciliation" => record'[c].work = j.work,
           j.type = "ResolveReconciliation" => record'[c].status = "RESOLVED",
           j.type = "ReplayReconciliation" => replay'[j.op].checkout = c
    PROVE  WorkersHold'
  <1>1. PICK h : h = held[w]
    OBVIOUS
  <1>2. HoldsAt("answer", j, h)'
    BY DEF HoldsAt, Creating, Resolving, Replaying, OnRecord
  <1> QED BY <1>1, <1>2, GoMove DEF Points

LEMMA FailedStep ==
    ASSUME SagaInv, RecordsForward, ExecutionsForward, NEW w \in Workers, point[w] # "idle",
           Go(w, "failed")
    PROVE  WorkersHold'
  <1>1. HoldsAt("failed", job[w], held[w])
    BY DEF HoldsAt, Creating, Resolving, Replaying
  <1> QED BY <1>1, GoStep DEF Points

LEMMA CreateMoves ==
    ASSUME SagaInv, RecordsForward, ExecutionsForward, NEW w \in Workers,
           ReadSagaVersion(w) \/ ReadToCreate(w) \/ PutRecord(w) \/ ReopenRecord(w)
    PROVE  WorkersHold'
  <1> DEFINE c == job[w].checkout
  <1>1. point[w] \in Creating /\ point[w] # "idle"
    BY DEF ReadSagaVersion, ReadToCreate, PutRecord, ReopenRecord, Creating
  <1>2. /\ c \in Checkouts /\ job[w].work \in Works /\ job[w].attempts \in Nat
        /\ HoldsAt(point[w], job[w], held[w]) /\ job[w].type = "CreateReconciliation"
        /\ OnRecord(c) \/ task[c] = Create(job[w].work, job[w].attempts)
    BY <1>1, JobInHand DEF WorkerInv, HoldsAt
  <1> USE DEF Points
  <1>3. CASE ReadSagaVersion(w)
    <2>1. CASE Go(w, "failed")
      BY <1>1, <2>1, FailedStep
    <2>2. CASE ~Go(w, "failed")
      <3>1. PICK v : v = saga[c].version
        OBVIOUS
      <3>2. v # None /\ Hold(w, "read to create", v)
        BY <1>3, <2>2, <3>1 DEF ReadSagaVersion
      <3>3. v \in Versions \cup {None}
        BY <1>2, <3>1 DEF SagaInv, AdmissionInv, RecordsOK
      <3>4. HoldsAt("read to create", job[w], v)
        BY <1>2, <3>1, <3>2 DEF HoldsAt, Creating, Resolving, Replaying
      <3> QED BY <1>1, <3>2, <3>3, <3>4, HoldStep
    <2> QED BY <2>1, <2>2
  <1>4. CASE ReadToCreate(w)
    <2>1. PICK p \in {"put", "refused", "reopen", "answer"} :
              /\ Go(w, p)
              /\ p \in {"refused", "reopen", "answer"} => OnRecord(c)
              /\ p \in {"reopen", "answer"} => record[c].work = job[w].work
      BY <1>4 DEF ReadToCreate, SameWork, OnRecord
    <2>2. point[w] = "read to create"
      BY <1>4 DEF ReadToCreate
    <2>3. HoldsAt(p, job[w], held[w])
      BY <1>2, <2>1, <2>2 DEF HoldsAt, Creating, Resolving, Replaying
    <2> QED BY <1>1, <2>1, <2>3, GoStep
  <1>5. CASE PutRecord(w)
    <2>1. CASE record[c].status # "NONE"
      <3>1. PICK p \in {"answer", "refused"} :
                Go(w, p) /\ (p = "answer" => record[c].work = job[w].work)
        BY <1>5, <2>1 DEF PutRecord, SameWork
      <3>2. HoldsAt(p, job[w], held[w])
        BY <1>2, <2>1, <3>1 DEF HoldsAt, Creating, Resolving, Replaying, OnRecord
      <3> QED BY <1>1, <3>1, <3>2, GoStep
    <2>2. CASE record[c].status = "NONE"
      <3> DEFINE r == Recorded(job[w], held[w])
      <3>1. Go(w, "answer") /\ record' = [record EXCEPT ![c] = r]
        BY <1>5, <2>2 DEF PutRecord
      <3>2. held[w] \in Versions \cup {None} /\ record \in [Checkouts -> Records]
        BY DEF SagaInv, WorkersHold, WorkersOK, TablesHold, TablesOK
      <3>3. r.status = "RECONCILIATION_REQUIRED" /\ r.work = job[w].work
        BY <1>2, <3>2, NewRecord
      <3>4. record'[c] = r
        BY <1>2, <3>1, <3>2
      <3> HIDE DEF r
      <3>5. record'[c].status # "NONE" /\ record'[c].work = job[w].work
        BY <3>3, <3>4
      <3> QED BY <1>1, <1>2, <3>1, <3>5, AnswerStep
    <2> QED BY <2>1, <2>2
  <1>6. CASE ReopenRecord(w)
    <2>1. CASE Go(w, "failed")
      BY <1>1, <2>1, FailedStep
    <2>2. CASE ~Go(w, "failed")
      <3>1. point[w] = "reopen" /\ Go(w, "answer")
        BY <1>6, <2>2 DEF ReopenRecord
      <3>2. HoldsAt("answer", job[w], held[w])
        BY <1>2, <3>1 DEF HoldsAt, Creating, Resolving, Replaying
      <3> QED BY <1>1, <3>1, <3>2, GoStep
    <2> QED BY <2>1, <2>2
  <1> QED BY <1>3, <1>4, <1>5, <1>6

LEMMA ResolveMoves ==
    ASSUME SagaInv, RecordsForward, ExecutionsForward, NEW w \in Workers,
           ReadToResolve(w) \/ ResolveRecord(w)
    PROVE  WorkersHold'
  <1> DEFINE c == job[w].checkout
  <1>1. point[w] \in Resolving /\ point[w] # "idle"
    BY DEF ReadToResolve, ResolveRecord, Resolving
  <1>2. /\ c \in Checkouts /\ HoldsAt(point[w], job[w], held[w]) /\ OnRecord(c)
        /\ MayResolveNow(c) /\ job[w].type = "ResolveReconciliation"
    BY <1>1, JobInHand DEF WorkerInv, HoldsAt
  <1>3. CASE Go(w, "failed")
    BY <1>1, <1>3, FailedStep
  <1>4. CASE ReadToResolve(w)
    <2>1. PICK p \in {"answer", "resolve"} :
              Go(w, p) /\ (p = "answer" => record[c].status = "RESOLVED")
      BY <1>4 DEF ReadToResolve
    <2>2. HoldsAt(p, job[w], held[w])
      BY <1>2, <2>1 DEF HoldsAt, Creating, Resolving, Replaying
    <2> QED BY <1>1, <2>1, <2>2, GoStep DEF Points
  <1>5. CASE ResolveRecord(w) /\ ~Go(w, "failed")
    <2>1. Go(w, "answer") /\ record' = [record EXCEPT ![c].status = "RESOLVED"]
      BY <1>5 DEF ResolveRecord
    <2>2. record \in [Checkouts -> Records]
      BY DEF SagaInv, TablesHold, TablesOK
    <2>3. record'[c] = [record[c] EXCEPT !.status = "RESOLVED"]
      BY <1>2, <2>1, <2>2
    <2>4. record'[c].status = "RESOLVED"
      BY <1>2, <2>2, <2>3, WithStatus DEF RecordStatuses
    <2> QED BY <1>1, <1>2, <2>1, <2>4, AnswerStep
  <1> QED BY <1>3, <1>4, <1>5

LEMMA ReplayMoves ==
    ASSUME SagaInv, RecordsForward, ExecutionsForward, NEW w \in Workers,
           ReadToReplay(w) \/ AdmitReplay(w) \/ StartReplay(w) \/ StartFails(w) \/ FailReplay(w)
    PROVE  WorkersHold'
  <1> DEFINE c == job[w].checkout
  <1>1. point[w] \in Replaying /\ point[w] # "idle"
    BY DEF ReadToReplay, AdmitReplay, StartReplay, StartFails, FailReplay, Replaying
  <1>2. /\ c \in Checkouts /\ job[w].op \in ReplayOps /\ HoldsAt(point[w], job[w], held[w])
        /\ OnRecord(c) /\ job[w].type = "ReplayReconciliation" /\ c = Target[job[w].op]
    BY <1>1, JobInHand DEF WorkerInv, HoldsAt
  <1>3. record[c] \in Records /\ record[c].version = saga[c].version
    BY <1>2, OnRecordIs
  <1> USE DEF Points
  <1>4. CASE Go(w, "failed")
    BY <1>1, <1>4, FailedStep
  <1>5. CASE ReadToReplay(w) /\ ~Go(w, "failed")
    <2>1. CASE record[c].status = "RESOLVED"
      <3>1. Go(w, "answer")
        BY <1>5, <2>1 DEF ReadToReplay
      <3>2. HoldsAt("answer", job[w], held[w])
        BY <1>2, <2>1 DEF HoldsAt, Creating, Resolving, Replaying
      <3> QED BY <1>1, <3>1, <3>2, GoStep
    <2>2. CASE record[c].status # "RESOLVED"
      <3>1. PICK v : v = record[c].version
        OBVIOUS
      <3>2. PICK p \in {"start", "readmit", "admit replay"} : Hold(w, p, v)
        BY <1>5, <2>2, <3>1 DEF ReadToReplay
      <3>3. v \in Versions \cup {None} /\ HoldsAt(p, job[w], v)
        BY <1>2, <1>3, <3>1 DEF HoldsAt, Creating, Resolving, Replaying, Records
      <3> QED BY <1>1, <3>2, <3>3, HoldStep
    <2> QED BY <2>1, <2>2
  <1>6. CASE AdmitReplay(w) /\ ~Go(w, "failed")
    <2>1. point[w] \in {"readmit", "admit replay"} /\ Go(w, "start")
      BY <1>6 DEF AdmitReplay
    <2>2. HoldsAt("start", job[w], held[w])
      BY <1>2, <2>1 DEF HoldsAt, Creating, Resolving, Replaying
    <2> QED BY <1>1, <2>1, <2>2, GoStep
  <1>7. CASE StartReplay(w)
    <2>1. point[w] = "start" /\ Start(w) /\ Go(w, "answer")
      BY <1>7 DEF StartReplay
    <2>2. replay'[job[w].op].checkout = c
      BY <1>2, <2>1, StartExecutions
    <2>3. /\ record'[c].status # "NONE" /\ job[w].type # "CreateReconciliation"
          /\ job[w].type # "ResolveReconciliation"
      BY <1>2 DEF RecordsForward, OnRecord
    <2> QED BY <1>1, <2>1, <2>2, <2>3, AnswerStep
  <1>8. CASE StartFails(w)
    <2>1. HoldsAt("give back", job[w], held[w])
      BY <1>2 DEF HoldsAt, Creating, Resolving, Replaying
    <2> QED BY <1>1, <1>8, <2>1, GoStep DEF StartFails
  <1> QED BY <1>4, <1>5, <1>6, <1>7, <1>8 DEF FailReplay
LEMMA BeginStep ==
    ASSUME SagaInv, RecordsForward, ExecutionsForward, NEW w \in Workers,
           NEW p \in Points \ {"idle"}, NEW j \in Jobs, NEW x \in Names \cup {"operator"},
           Begin(w, p, j, x), \A h : HoldsAt(p, j, h),
           x \in Names => Started(x) /\ IsFor(j, x)
    PROVE  WorkersHold'
  <1>1. WorkersOK /\ WorkerInv(w)
    BY DEF SagaInv, WorkersHold
  <1>2. /\ point' = [point EXCEPT ![w] = p] /\ job' = [job EXCEPT ![w] = j]
        /\ caller' = [caller EXCEPT ![w] = x] /\ UNCHANGED held
    BY DEF Begin, At
  <1>3. /\ j.checkout \in Checkouts /\ j # NoTask
        /\ j.type = "ReplayReconciliation" => j.op \in ReplayOps
    BY DEF Jobs, NoTask
  <1>4. WorkersOK'
    BY <1>1, <1>2 DEF WorkersOK
  <1>5. PICK h : h = held[w]
    OBVIOUS
  <1>6. point'[w] = p /\ job'[w] = j /\ caller'[w] = x /\ held'[w] = h
    BY <1>1, <1>2, <1>5 DEF WorkersOK
  <1>7. HoldsAt(p, j, h)'
    BY <1>3, HeldStays
  <1>8. HoldsAt(point[w], job[w], held[w])'
    BY <1>6, <1>7
  <1>9. caller'[w] \in Names => Started(caller[w])' /\ IsFor(job[w], caller[w])'
    <2>1. x \in Names => Started(x)' /\ IsFor(j, x)'
      BY CallerStays
    <2> QED BY <1>6, <2>1
  <1>10. WorkerInv(w)'
    BY <1>3, <1>6, <1>8, <1>9 DEF WorkerInv
  <1>11. ASSUME NEW v \in Workers, v # w PROVE WorkerInv(v)'
    <2>1. /\ point'[v] = point[v] /\ job'[v] = job[v] /\ held'[v] = held[v]
          /\ caller'[v] \in {caller[v], None}
      BY <1>1, <1>2, <1>11 DEF WorkersOK
    <2> QED BY <2>1, WorkerKept
  <1> QED BY <1>4, <1>10, <1>11 DEF WorkersHold

LEMMA CallMoves ==
    ASSUME SagaInv, RecordsForward, ExecutionsForward, NEW w \in Workers, NEW x \in Names,
           CallService(w, x)
    PROVE  WorkersHold'
  <1>1. PICK c : c = CheckoutOf(x)
    OBVIOUS
  <1>2. ExecutionsOK /\ ExecutionInv(x) /\ Runs(x) /\ task[x] # NoTask
    BY DEF SagaInv, ExecutionsHold, CallService
  <1>3. Started(x) /\ c \in Checkouts
    <2>1. Started(x)
      BY <1>2, ReconciliationConstants DEF Runs, Started
    <2> QED BY <1>1, <1>2, <2>1, CheckoutIs
  <1>4. CASE task[x] = Resolve
    <2>1. PICK j : j = [type |-> "ResolveReconciliation", checkout |-> c]
      OBVIOUS
    <2>2. x \in ReplayOps /\ replay[x].checkout = c /\ OnRecord(c)
      <3>1. x \in ReplayOps /\ replay[x] # NoReplay /\ x \notin Checkouts
        BY <1>2, <1>4, ReconciliationConstants DEF ExecutionInv
      <3> QED BY <1>1, <3>1 DEF CheckoutOf, SagaInv, ExecutionsHold, ReplayInv
    <2>3. MayResolveNow(c)
      BY <1>4, <2>2 DEF MayResolveNow
    <2>4. \A h : HoldsAt("read to resolve", j, h)
      BY <2>1, <2>2, <2>3 DEF HoldsAt, Creating, Resolving, Replaying
    <2>5. j \in Jobs /\ IsFor(j, x)
      BY <1>1, <1>2, <1>3, <1>4, <2>1 DEF Jobs, IsFor
    <2>6. Begin(w, "read to resolve", j, x)
      BY <1>1, <1>4, <2>1 DEF CallService
    <2> QED BY <1>3, <2>4, <2>5, <2>6, BeginStep DEF Points
  <1>5. CASE task[x] # Resolve
    <2>1. PICK k, n : k = task[x].work /\ n = task[x].attempts
      OBVIOUS
    <2>2. PICK j : j = [type |-> "CreateReconciliation", checkout |-> c, work |-> k,
                        attempts |-> n]
      OBVIOUS
    <2>3. k \in Works /\ n \in RejectedOrExhausted /\ task[x] = Create(k, n)
      BY <1>2, <1>5, <2>1, TaskIs
    <2>4. \A h : HoldsAt("read version", j, h)
      <3>1. OnRecord(c) \/ task[c] = Create(k, n)
        <4>1. CASE x \in Checkouts
          BY <1>1, <2>3, <4>1 DEF CheckoutOf
        <4>2. CASE x \notin Checkouts
          BY <1>1, <1>3, <4>2 DEF CheckoutOf, Names, Started, SagaInv, ExecutionsHold, ReplayInv
        <4> QED BY <4>1, <4>2
      <3> QED BY <2>2, <3>1 DEF HoldsAt, Creating, Resolving, Replaying
    <2>5. j \in Jobs /\ IsFor(j, x)
      BY <1>1, <1>2, <1>3, <1>5, <2>1, <2>2, <2>3 DEF Jobs, IsFor
    <2>6. Begin(w, "read version", j, x)
      BY <1>1, <1>5, <2>1, <2>2 DEF CallService
    <2> QED BY <1>3, <2>4, <2>5, <2>6, BeginStep DEF Points
  <1> QED BY <1>4, <1>5

LEMMA OperatorMoves ==
    ASSUME SagaInv, RecordsForward, ExecutionsForward, NEW w \in Workers, NEW c \in Checkouts,
           NEW o \in ReplayOps, OperatorReplays(w, c, o)
    PROVE  WorkersHold'
  <1>1. PICK j : j = [type |-> "ReplayReconciliation", checkout |-> c, op |-> o]
    OBVIOUS
  <1>2. OnRecord(c) /\ c = Target[o] /\ Begin(w, "read to replay", j, "operator")
    BY <1>1 DEF OperatorReplays, OnRecord
  <1>3. \A h : HoldsAt("read to replay", j, h)
    BY <1>1, <1>2 DEF HoldsAt, Creating, Resolving, Replaying
  <1>4. j \in Jobs
    BY <1>1 DEF Jobs
  <1> QED BY <1>2, <1>3, <1>4, BeginStep, ReconciliationConstants DEF Points

LEMMA LeaveMoves ==
    ASSUME SagaInv, RecordsForward, ExecutionsForward, NEW w \in Workers,
           Finish(w) \/ LoseAnswer(w)
    PROVE  WorkersHold'
  <1>1. WorkersOK
    BY DEF SagaInv, WorkersHold
  <1>2. CASE Leave(w)
    <2>1. /\ point' = [point EXCEPT ![w] = "idle"] /\ job' = [job EXCEPT ![w] = NoTask]
          /\ held' = [held EXCEPT ![w] = None] /\ caller' = [caller EXCEPT ![w] = None]
      BY <1>2 DEF Leave, At
    <2>3. WorkersOK'
      BY <1>1, <2>1 DEF WorkersOK, Points
    <2>4. point'[w] = "idle" /\ caller'[w] = None
      BY <1>1, <2>1 DEF WorkersOK
    <2>5. WorkerInv(w)'
      BY <2>4, ReconciliationConstants DEF WorkerInv, HoldsAt, Creating, Resolving, Replaying
    <2>6. ASSUME NEW v \in Workers, v # w PROVE WorkerInv(v)'
      <3>1. /\ point'[v] = point[v] /\ job'[v] = job[v] /\ held'[v] = held[v]
            /\ caller'[v] \in {caller[v], None}
        BY <1>1, <2>1, <2>6 DEF WorkersOK
      <3> QED BY <3>1, WorkerKept
    <2> QED BY <2>3, <2>5, <2>6 DEF WorkersHold
  <1>3. CASE caller' = [caller EXCEPT ![w] = None] /\ UNCHANGED <<point, job, held>>
    <2>1. WorkersOK'
      BY <1>1, <1>3 DEF WorkersOK
    <2>2. \A v \in Workers : /\ point'[v] = point[v] /\ job'[v] = job[v] /\ held'[v] = held[v]
                             /\ caller'[v] \in {caller[v], None}
      BY <1>1, <1>3 DEF WorkersOK
    <2> QED BY <2>1, <2>2, WorkerKept DEF WorkersHold
  <1> QED BY <1>2, <1>3 DEF Finish, LoseAnswer

LEMMA WorkersSteady ==
    ASSUME SagaInv, RecordsForward, ExecutionsForward, UNCHANGED workerVars
    PROVE  WorkersHold'
  <1>1. UNCHANGED <<point, job, held, caller>>
    BY DEF workerVars
  <1>2. WorkersOK'
    BY <1>1 DEF SagaInv, WorkersHold, WorkersOK
  <1> QED BY <1>1, <1>2, WorkerKept DEF WorkersHold

LEMMA WorkersStep ==
    ASSUME SagaInv, SagaNext, RecordsForward, ExecutionsForward
    PROVE  WorkersHold'
  BY CreateMoves, ResolveMoves, ReplayMoves, CallMoves, OperatorMoves, LeaveMoves, WorkersSteady
     DEF SagaNext, WorkerStep, ReachTask, reconciliationVars

(* An execution calls again only when it has given up on the invocation it *)
(* waited for.                                                             *)
LEMMA CallersKept ==
    ASSUME SagaInv, NEW w \in Workers, UNCHANGED phase,
           \A v \in Workers \ {w} : caller'[v] = caller[v],
           caller'[w] \in Names =>
               phase[caller'[w]] = "running" /\ \A v \in Workers : caller[v] # caller'[w]
    PROVE  CallersInv'
  BY DEF SagaInv, CallersInv

LEMMA CallersLeave ==
    ASSUME SagaInv, NEW w \in Workers, Finish(w) \/ LoseAnswer(w)
    PROVE  CallersInv'
  <1>1. WorkersOK /\ CallersInv /\ ExecutionsOK
    BY DEF SagaInv, WorkersHold, ExecutionsHold
  <1>2. caller' = [caller EXCEPT ![w] = None]
    BY DEF Finish, LoseAnswer, Leave
  <1>3. \A x \in Names : x # caller[w] => phase'[x] = phase[x]
    BY <1>1 DEF Finish, LoseAnswer, Retry, Close, ExecutionsOK, executionVars
  <1>4. caller'[w] = None /\ \A v \in Workers : v # w => caller'[v] = caller[v]
    BY <1>1, <1>2 DEF WorkersOK
  <1>5. ASSUME NEW v \in Workers, caller'[v] \in Names
        PROVE  /\ phase'[caller'[v]] = "running"
               /\ \A u \in Workers : caller'[u] = caller'[v] => u = v
    <2>1. v # w /\ caller'[v] = caller[v]
      BY <1>4, <1>5, ReconciliationConstants
    <2>2. caller[v] # caller[w]
      BY <1>1, <1>5, <2>1 DEF CallersInv
    <2> QED BY <1>1, <1>3, <1>4, <1>5, <2>1, <2>2, ReconciliationConstants DEF CallersInv
  <1> QED BY <1>5 DEF CallersInv

LEMMA CallersStep ==
    ASSUME SagaInv, SagaNext
    PROVE  CallersInv'
  <1>1. CASE UNCHANGED <<caller, phase>>
    BY <1>1 DEF SagaInv, CallersInv
  <1>2. ASSUME NEW w \in Workers, NEW j, NEW p, NEW x \in Names \cup {"operator"},
               Begin(w, p, j, x), UNCHANGED phase,
               x \in Names => phase[x] = "running" /\ \A v \in Workers : caller[v] # x
        PROVE  CallersInv'
    <2>1. caller'[w] = x /\ \A v \in Workers \ {w} : caller'[v] = caller[v]
      BY <1>2 DEF Begin, SagaInv, WorkersHold, WorkersOK
    <2> QED BY <1>2, <2>1, CallersKept
  <1>3. ASSUME NEW w \in Workers, NEW x \in Names, CallService(w, x) PROVE CallersInv'
    <2>1. phase[x] = "running" /\ UNCHANGED phase /\ \A v \in Workers : caller[v] # x
      BY <1>3 DEF CallService, Runs, executionVars
    <2>2. \E p, j : Begin(w, p, j, x)
      BY <1>3 DEF CallService
    <2> QED BY <1>2, <2>1, <2>2
  <1>4. ASSUME NEW w \in Workers, NEW c \in Checkouts, NEW o \in ReplayOps,
               OperatorReplays(w, c, o)
        PROVE  CallersInv'
    <2>1. UNCHANGED phase /\ \E p, j : Begin(w, p, j, "operator")
      BY <1>4 DEF OperatorReplays, executionVars
    <2> QED BY <1>2, <2>1, ReconciliationConstants
  <1> QED
    BY <1>1, <1>3, <1>4, CallersLeave
       DEF SagaNext, WorkerStep, ReachTask, ReadSagaVersion, ReadToCreate, PutRecord,
           ReopenRecord, ReadToResolve, ResolveRecord, ReadToReplay, AdmitReplay, StartReplay,
           Start, FailReplay, StartFails, Go, Hold, executionVars, workerVars, reconciliationVars

-----------------------------------------------------------------------------
LEMMA SagaStep == SagaInv /\ [SagaNext]_vars => SagaInv' /\ RecordsForward
  <1> SUFFICES ASSUME SagaInv, [SagaNext]_vars PROVE SagaInv' /\ RecordsForward
    OBVIOUS
  <1>1. CASE SagaNext
    <2>1. AdmissionInv' /\ TablesHold' /\ RecordsForward
      BY <1>1, RecordsStep
    <2>2. ExecutionsHold' /\ ExecutionsForward
      BY <1>1, <2>1, ExecutionsStep
    <2>3. WorkersHold'
      BY <1>1, <2>1, <2>2, WorkersStep
    <2> QED BY <1>1, <2>1, <2>2, <2>3, CallersStep DEF SagaInv
  <1>2. CASE UNCHANGED vars
    <2>1. UNCHANGED <<executionVars, workerVars>>
      BY <1>2 DEF vars, reconciliationVars
    <2>2. TasksForward
      BY <2>1 DEF TasksForward, executionVars
    <2>3. AdmissionInv' /\ TablesHold' /\ RecordsForward
      BY <1>2, <2>2, TablesSteady DEF SagaInv, TablesHold, TablesOK, vars, admissionVars,
                                      reconciliationVars
    <2>4. CallersInv'
      BY <2>1 DEF SagaInv, CallersInv, executionVars, workerVars
    <2> QED BY <2>1, <2>3, <2>4, ExecutionsSteady, WorkersSteady DEF SagaInv
  <1> QED BY <1>1, <1>2

LEMMA SagaInitially == SagaInit => SagaInv
  <1> SUFFICES ASSUME SagaInit PROVE SagaInv
    OBVIOUS
  <1> USE DEF SagaInit
  <1>1. AdmissionInv
    BY AdmissionInit
  <1>2. NoRecord \in Records /\ NoRecord.status = "NONE"
    BY DEF NoRecord, Records, RecordStatuses
  <1>3. TablesOK
    BY <1>2, AdmissionConstants DEF TablesOK, Init
  <1>4. \A c \in Checkouts : RecordInv(c)
    BY <1>2 DEF RecordInv, OnRecord
  <1>5. ExecutionsOK
    BY DEF ExecutionsOK, Tasks, MaxAttempts
  <1>6. (\A o \in ReplayOps : ReplayInv(o)) /\ \A x \in Names : ExecutionInv(x)
    BY DEF ReplayInv, ExecutionInv, NoTask, Resolve, MaxAttempts
  <1>7. WorkersOK
    BY DEF WorkersOK, Points
  <1>8. CallersInv /\ \A w \in Workers : WorkerInv(w)
    BY ReconciliationConstants
       DEF CallersInv, WorkerInv, HoldsAt, Creating, Resolving, Replaying
  <1> QED BY <1>1, <1>3, <1>4, <1>5, <1>6, <1>7, <1>8
          DEF SagaInv, TablesHold, ExecutionsHold, WorkersHold
(***************************************************************************)
(* What the invariant says                                                 *)
(***************************************************************************)
LEMMA SagaInvGivesTypes == SagaInv => TypeOK
  <1> SUFFICES ASSUME SagaInv PROVE TypeOK
    OBVIOUS
  <1>1. AdmissionTypeOK
    BY InvGivesTypes DEF SagaInv, TablesHold, TablesOK
  <1>2. \A c \in Checkouts : RecordTypeOK(record[c])
    BY DEF SagaInv, TablesHold, TablesOK, Records, RecordStatuses, RecordTypeOK
  <1>3. \A c \in Checkouts :
            record[c].status # "NONE" =>
                record[c].attempts = task[c].attempts + Len(record[c].audit)
    BY DEF SagaInv, TablesHold, RecordInv, OnRecord, IsOwnWork
  <1> QED BY <1>1, <1>2, <1>3
          DEF SagaInv, TablesHold, TablesOK, ExecutionsHold, ExecutionsOK, WorkersHold, WorkersOK,
              Replays, Tasks, TypeOK

LEMMA SagaInvPinsVersions == SagaInv => VersionIsPinned
  <1> SUFFICES ASSUME SagaInv PROVE VersionIsPinned
    OBVIOUS
  <1>1. ASSUME NEW c \in Checkouts
        PROVE  /\ saga[c].version \in {None, execution[c].version}
               /\ OnRecord(c) => record[c].version = execution[c].version
                                 /\ saga[c].version = execution[c].version
    BY OnRecordIs DEF SagaInv, AdmissionInv, RunsAsAdmitted
  <1>2. ASSUME NEW o \in ReplayOps, replay[o] # NoReplay
        PROVE  replay[o].version = execution[replay[o].checkout].version
    <2>1. replay[o].checkout \in Checkouts /\ ReplayInv(o)
      BY <1>2 DEF SagaInv, ExecutionsHold, ExecutionsOK, Replays
    <2> QED BY <1>1, <1>2, <2>1 DEF ReplayInv
  <1> QED BY <1>1, <1>2 DEF VersionIsPinned, OnRecord

LEMMA SagaInvRecordsEndedWork == SagaInv => EndedWorkIsRecorded
  <1> SUFFICES ASSUME SagaInv, NEW x \in Names, phase[x] \in {"succeeded", "failed"}
               PROVE  /\ phase[x] = "succeeded" =>
                            IF task[x] = Resolve THEN record[CheckoutOf(x)].status = "RESOLVED"
                                                 ELSE WorkOnRecord(x)
                      /\ phase[x] = "failed" /\ tries[x] < MaxAttempts =>
                            WorkOnRecord(CheckoutOf(x))
    BY DEF EndedWorkIsRecorded
  <1> DEFINE c == CheckoutOf(x)
  <1>1. /\ ExecutionInv(x) /\ Started(x) /\ task[x] # NoTask /\ tries[x] \in 0..MaxAttempts
        /\ ExecutionsOK
    BY DEF SagaInv, ExecutionsHold, ExecutionsOK, ExecutionInv
  <1>2. c \in Checkouts
    BY <1>1, CheckoutIs
  <1>3. OnRecord(c) => saga[c].status # "ADMITTED" /\ record[c].work = task[c].work
    BY <1>2 DEF SagaInv, TablesHold, RecordInv, IsOwnWork
  <1>4. CASE phase[x] = "succeeded"
    <2>1. Done(task[x], c)
      BY <1>1, <1>4 DEF ExecutionInv
    <2> QED BY <1>3, <1>4, <2>1 DEF Done, WorkOnRecord, OnRecord
  <1>5. CASE phase[x] = "failed" /\ tries[x] < MaxAttempts
    <2>1. OnRecord(c)
      BY <1>1, <1>5 DEF ExecutionInv, MaxAttempts
    <2>2. CheckoutOf(c) = c
      BY <1>2 DEF CheckoutOf
    <2> QED BY <1>3, <1>5, <2>1, <2>2 DEF WorkOnRecord, OnRecord
  <1>6. phase[x] = "failed" => phase[x] # "succeeded"
    OBVIOUS
  <1> QED BY <1>4, <1>5, <1>6

LEMMA SagaInvStartsReplays == SagaInv => AnsweredReplayHasStarted
  BY DEF SagaInv, WorkersHold, WorkerInv, HoldsAt, AnsweredReplayHasStarted

(* Only the command of a replay that has reached its resolution resolves.  *)
LEMMA ResolvedByReplay ==
    ASSUME SagaInv, [SagaNext]_vars, NEW c \in Checkouts,
           record[c].status # "RESOLVED", record'[c].status = "RESOLVED"
    PROVE  MayResolveNow(c)
  <1>1. record \in [Checkouts -> Records]
    BY DEF SagaInv, TablesHold, TablesOK
  <1>2. ASSUME NEW w \in Workers, ResolveRecord(w) PROVE MayResolveNow(c)
    <2>1. job[w].checkout \in Checkouts /\ MayResolveNow(job[w].checkout)
      BY <1>2, JobInHand DEF ResolveRecord, WorkerInv, HoldsAt, Resolving
    <2>2. record' = [record EXCEPT ![job[w].checkout].status = "RESOLVED"]
      BY <1>2 DEF ResolveRecord, serviceVars
    <2>3. c = job[w].checkout
      BY <1>1, <2>1, <2>2
    <2> QED BY <2>1, <2>3
  <1>3. ASSUME NEW d \in Checkouts, NEW r, r.status # "RESOLVED",
               record' = [record EXCEPT ![d] = r]
        PROVE  FALSE
    BY <1>1, <1>3
  <1>4. ~UNCHANGED record
    OBVIOUS
  <1>5. ASSUME NEW w \in Workers, PutRecord(w) PROVE FALSE
    <2>1. /\ job[w].checkout \in Checkouts /\ job[w].work \in Works /\ job[w].attempts \in Nat
          /\ held[w] \in Versions \cup {None}
      BY <1>5, JobInHand DEF PutRecord, WorkerInv, HoldsAt, Creating, WorkersOK
    <2>2. record' = [record EXCEPT ![job[w].checkout] = Recorded(job[w], held[w])]
      BY <1>4, <1>5 DEF PutRecord, serviceVars
    <2> QED BY <1>3, <2>1, <2>2, NewRecord
  <1>6. ASSUME NEW w \in Workers, ReopenRecord(w) \/ FailReplay(w) PROVE FALSE
    <2>1. job[w].checkout \in Checkouts
      BY <1>6, JobInHand DEF ReopenRecord, FailReplay
    <2>2. record' = [record EXCEPT ![job[w].checkout].status = "RECONCILIATION_REQUIRED"]
      BY <1>4, <1>6 DEF ReopenRecord, FailReplay, serviceVars
    <2> QED BY <1>1, <2>1, <2>2
  <1>7. ASSUME NEW w \in Workers, AdmitReplay(w) PROVE FALSE
    <2>1. /\ job[w].checkout \in Checkouts /\ job[w].op \in ReplayOps /\ OnRecord(job[w].checkout)
      BY <1>7, JobInHand DEF AdmitReplay, WorkerInv, HoldsAt, Replaying
    <2> DEFINE r == record[job[w].checkout]
               m == task[job[w].checkout].attempts
    <2>2. \/ record' = [record EXCEPT ![job[w].checkout] = Readmitted(r, job[w].op)]
          \/ record' = [record EXCEPT ![job[w].checkout] = Admitted(r, job[w].op)]
      BY <1>4, <1>7 DEF AdmitReplay
    <2>3. Admitted(r, job[w].op).status = "REPLAYING"
      <3>1. r \in Records /\ m \in Nat /\ r.attempts = m + Len(r.audit)
        BY <2>1, OnRecordIs DEF IsOwnWork
      <3> HIDE DEF r, m
      <3> QED BY <2>1, <3>1, AdmittedRecord
    <2>4. Readmitted(r, job[w].op).status = "REPLAYING"
      BY <2>1, OnRecordIs, WithStatus DEF Readmitted, RecordStatuses
    <2> QED BY <1>3, <2>1, <2>2, <2>3, <2>4
  <1> QED
    BY <1>2, <1>4, <1>5, <1>6, <1>7
       DEF SagaNext, vars, reconciliationVars, serviceVars, ReachTask, CallService,
           OperatorReplays, WorkerStep, ReadSagaVersion, ReadToCreate, ReadToResolve,
           ReadToReplay, StartReplay, Finish, StartFails, LoseAnswer

LEMMA ResolvedStep ==
    ASSUME SagaInv, [SagaNext]_vars
    PROVE  \A c \in Checkouts :
              /\ record[c].status = "RESOLVED" =>
                    record'[c] = record[c] /\ facts'[c] = facts[c]
                    /\ saga'[c].status = "RESOLVED"
              /\ record[c].status # "RESOLVED" /\ record'[c].status = "RESOLVED" =>
                    \E o \in ReplayOps : replay[o].checkout = c /\ task[o] = Resolve
  BY SagaStep, ResolvedByReplay DEF RecordsForward, MayResolveNow

-----------------------------------------------------------------------------
(* The records, the executions and what every invocation has read of them  *)
(* hold together in every reachable state of the Reconciliation service.   *)
THEOREM SagaHolds == SagaSpec => []SagaInv
  <1>1. SagaInv /\ [SagaNext]_vars => SagaInv'
    BY SagaStep
  <1> QED BY <1>1, SagaInitially, PTL DEF SagaSpec

(* The records, executions and invocations keep their types, and a record  *)
(* counts, on top of the attempts the checkout's own execution had made    *)
(* when it gave the work up, each replay that is audited and no other.     *)
THEOREM TypeIsCorrect == SagaSpec => []TypeOK
  BY SagaHolds, SagaInvGivesTypes, PTL

(* The Saga record, the work and each replay name the version the          *)
(* checkout's own execution runs on, whatever the alias routes to since.   *)
THEOREM VersionStaysPinned == SagaSpec => []VersionIsPinned
  BY SagaHolds, SagaInvPinsVersions, PTL

(* An execution that succeeds has the very work it could not compensate on *)
(* record, or has resolved what was there; one that fails leaves the work  *)
(* of the checkout's own execution on record, unless it has used up its    *)
(* attempts to put it there.                                               *)
THEOREM EndedWorkIsOnRecord == SagaSpec => []EndedWorkIsRecorded
  BY SagaHolds, SagaInvRecordsEndedWork, PTL

(* An operator who is told that a replay was admitted has it started, or   *)
(* the work resolved, as long as an operation id is used for one checkout. *)
THEOREM AnsweredReplayRuns == SagaSpec => []AnsweredReplayHasStarted
  BY SagaHolds, SagaInvStartsReplays, PTL

(* Work is resolved once and for all, and only by a replay that started.   *)
THEOREM ResolvedStaysResolved == SagaSpec => ResolvedIsFinal
  BY SagaHolds, ResolvedStep, PTL DEF SagaSpec, ResolvedIsFinal
=============================================================================
