----------------------------- MODULE Reconciliation -----------------------------
(***************************************************************************)
(* The Reconciliation service and the replays of an operator, over the     *)
(* Saga record the API keeps.  An execution that cannot be compensated     *)
(* creates the work of its checkout; an operator's replay of it starts an  *)
(* execution, named after the replay's operation id, on the workflow       *)
(* version the work was recorded with; that execution resolves the work or *)
(* requires it again.                                                      *)
(*                                                                         *)
(* A worker is one invocation, of the command function or of the replay    *)
(* function, and an action one request of it.  Its caller may have given   *)
(* up on it and called again, and the admission may not be over yet.       *)
(***************************************************************************)
EXTENDS Admission, Sequences

CONSTANTS
    ReplayOps,   \* operation ids of replay commands
    Target,      \* the checkout each is about, as an operation id is used once
    Works,       \* what may need reconciling: the failed step of a checkout
    Failures,    \* each with how often it may have been attempted when it is given up
    Workers      \* concurrent invocations

Names == Checkouts \cup ReplayOps   \* executions: a checkout's, and the replays'

(* A step that failed was rejected at once, or has used up its attempts.   *)
RejectedOrExhausted == {1, 3}

(* A replay's execution has a name of its own kind, never a checkout's.    *)
ASSUME ReconciliationConstants ==
    /\ Checkouts \cap ReplayOps = {}
    /\ None \notin Names /\ "operator" \notin Names
    /\ Target \in [ReplayOps -> Checkouts]
    /\ Failures \subseteq Works \X RejectedOrExhausted

VARIABLES
    record,    \* the RECONCILIATION record of each checkout
    facts,     \* the ReconciliationRequired and -Resolved facts written
    phase,     \* of each execution: "running", or "succeeded" or "failed"
    replay,    \* the checkout and version of each replay's execution
    task,      \* the command each execution is about to have executed,
    tries,     \* and the attempts at it that failed
    point,     \* where each worker stands,
    job,       \* the command it executes,
    held,      \* the version it read, for the record or for an execution
    caller     \* and the execution that waits for it; "operator"; None

serviceVars == <<record, facts>>
executionVars == <<phase, replay, task, tries>>
workerVars == <<point, job, held, caller>>
reconciliationVars == <<serviceVars, executionVars, workerVars>>
vars == <<admissionVars, reconciliationVars>>

NoRecord == [status |-> "NONE", work |-> None, version |-> None,
             attempts |-> 0, op |-> None, audit |-> <<>>]
NoReplay == [checkout |-> None, version |-> None]
NoTask == [type |-> "NONE"]
Create(k, n) == [type |-> "CreateReconciliation", work |-> k, attempts |-> n]
Resolve == [type |-> "ResolveReconciliation"]

SagaInit ==
    /\ Init
    /\ record = [c \in Checkouts |-> NoRecord]
    /\ facts = [c \in Checkouts |-> [required |-> 0, resolved |-> 0]]
    /\ phase = [x \in Names |-> "running"]
    /\ replay = [o \in ReplayOps |-> NoReplay]
    /\ task = [x \in Names |-> NoTask]
    /\ tries = [x \in Names |-> 0]
    /\ point = [w \in Workers |-> "idle"]
    /\ job = [w \in Workers |-> NoTask]
    /\ held = [w \in Workers |-> None]
    /\ caller = [w \in Workers |-> None]

(***************************************************************************)
(* Executions: all this module knows of one is that it may have the work   *)
(* of its checkout created or, if it is a replay, resolved, in up to three *)
(* attempts.                                                               *)
(***************************************************************************)
CheckoutOf(x) == IF x \in Checkouts THEN x ELSE replay[x].checkout
Runs(x) ==
    /\ phase[x] = "running"
    /\ IF x \in Checkouts THEN execution[x] # NoExecution ELSE replay[x] # NoReplay

ReachTask(x) ==
    /\ Runs(x) /\ task[x] = NoTask
    /\ \/ \E f \in Failures : task' = [task EXCEPT ![x] = Create(f[1], f[2])]
       \/ x \in ReplayOps /\ task' = [task EXCEPT ![x] = Resolve]
    /\ UNCHANGED <<admissionVars, serviceVars, phase, replay, tries, workerVars>>

MaxAttempts == 3
Close(x, p) == phase' = [phase EXCEPT ![x] = p]
Retry(x) ==
    /\ tries' = [tries EXCEPT ![x] = @ + 1]
    /\ IF tries[x] + 1 < MaxAttempts THEN UNCHANGED phase ELSE Close(x, "failed")

Unchanged_execution == UNCHANGED <<phase, replay, task, tries>>

(***************************************************************************)
(* Invocations                                                             *)
(***************************************************************************)
At(w, p) == point' = [point EXCEPT ![w] = p]
Go(w, p) == At(w, p) /\ UNCHANGED <<job, held, caller>>
Hold(w, p, v) == At(w, p) /\ held' = [held EXCEPT ![w] = v] /\ UNCHANGED <<job, caller>>

Begin(w, p, j, who) ==
    /\ point[w] = "idle"
    /\ At(w, p)
    /\ job' = [job EXCEPT ![w] = j] /\ caller' = [caller EXCEPT ![w] = who]
    /\ UNCHANGED held

CallService(w, x) ==
    /\ Runs(x) /\ task[x] # NoTask
    /\ \A v \in Workers : caller[v] # x
    /\ LET c == CheckoutOf(x) IN
       IF task[x] = Resolve
       THEN Begin(w, "read to resolve", [type |-> "ResolveReconciliation", checkout |-> c], x)
       ELSE Begin(w, "read version",
                  [type |-> "CreateReconciliation", checkout |-> c, work |-> task[x].work,
                   attempts |-> task[x].attempts], x)
    /\ UNCHANGED <<admissionVars, serviceVars, executionVars>>

OperatorReplays(w, c, o) ==
    /\ record[c].status # "NONE"
    /\ c = Target[o]
    /\ Begin(w, "read to replay", [type |-> "ReplayReconciliation", checkout |-> c, op |-> o],
             "operator")
    /\ UNCHANGED <<admissionVars, serviceVars, executionVars>>

(* The work belongs to the version on the Saga record: while the API has   *)
(* not put it there, creation fails, and is tried again.                   *)
Fault_AnyVersion(w) ==
    /\ point[w] = "read version"
    /\ Hold(w, "read to create", live)
    /\ UNCHANGED <<admissionVars, serviceVars, executionVars>>
ReadSagaVersion(w) ==
    /\ point[w] = "read version"
    /\ LET v == saga[job[w].checkout].version IN
       IF v = None THEN Go(w, "failed")
       ELSE Hold(w, "read to create", v)
    /\ UNCHANGED <<admissionVars, serviceVars, executionVars>>

Fault_AnyWork(w) == TRUE
SameWork(w) == record[job[w].checkout].work = job[w].work

(* Existing work is answered, or reopened if it was being replayed; other  *)
(* work is an error, and an answer other than that the work is required    *)
(* fails the execution.                                                    *)
ReadToCreate(w) ==
    /\ point[w] = "read to create"
    /\ LET r == record[job[w].checkout] IN
       \/ r.status = "NONE" /\ Go(w, "put")
       \/ r.status # "NONE" /\ ~SameWork(w) /\ Go(w, "refused")
       \/ r.status = "REPLAYING" /\ SameWork(w) /\ Go(w, "reopen")
       \/ r.status = "RECONCILIATION_REQUIRED" /\ SameWork(w) /\ Go(w, "answer")
       \/ r.status = "RESOLVED" /\ SameWork(w) /\ Go(w, "refused")
    /\ UNCHANGED <<admissionVars, serviceVars, executionVars>>

SagaStatus(c, s) ==
    /\ saga' = [saga EXCEPT ![c].status = s]
    /\ UNCHANGED <<live, admission, execution, apiLocal, faults>>
Publish(c, f) == facts' = [facts EXCEPT ![c][f] = @ + 1]

Recorded(j, v) ==
    [NoRecord EXCEPT !.status = "RECONCILIATION_REQUIRED", !.work = j.work, !.version = v,
                     !.attempts = j.attempts]
PutRecord(w) ==
    /\ point[w] = "put"
    /\ LET c == job[w].checkout IN
       \/ /\ record[c].status = "NONE"
          /\ record' = [record EXCEPT ![c] = Recorded(job[w], held[w])]
          /\ SagaStatus(c, "RECONCILIATION_REQUIRED") /\ Publish(c, "required")
          /\ Go(w, "answer")
       \/ /\ record[c].status # "NONE"
          /\ Go(w, IF SameWork(w) /\ record[c].status = "RECONCILIATION_REQUIRED"
                   THEN "answer" ELSE "refused")
          /\ UNCHANGED <<admissionVars, serviceVars>>
    /\ UNCHANGED executionVars

Fault_ReopenAny(r) == TRUE
MayReopen(r) == r.status = "REPLAYING"
ReopenRecord(w) ==
    /\ point[w] = "reopen"
    /\ LET c == job[w].checkout IN
       \/ /\ MayReopen(record[c])
          /\ record' = [record EXCEPT ![c].status = "RECONCILIATION_REQUIRED"]
          /\ SagaStatus(c, "RECONCILIATION_REQUIRED") /\ Publish(c, "required")
          /\ Go(w, "answer")
       \/ /\ ~MayReopen(record[c]) /\ Go(w, "failed")
          /\ UNCHANGED <<admissionVars, serviceVars>>
    /\ UNCHANGED executionVars

ReadToResolve(w) ==
    /\ point[w] = "read to resolve"
    /\ Go(w, IF record[job[w].checkout].status = "RESOLVED" THEN "answer" ELSE "resolve")
    /\ UNCHANGED <<admissionVars, serviceVars, executionVars>>

MayResolve(r) == r.status = "REPLAYING"
ResolveRecord(w) ==
    /\ point[w] = "resolve"
    /\ LET c == job[w].checkout IN
       \/ /\ MayResolve(record[c])
          /\ record' = [record EXCEPT ![c].status = "RESOLVED"]
          /\ SagaStatus(c, "RESOLVED") /\ Publish(c, "resolved")
          /\ Go(w, "answer")
       \/ /\ ~MayResolve(record[c]) /\ Go(w, "failed")
          /\ UNCHANGED <<admissionVars, serviceVars>>
    /\ UNCHANGED executionVars

(***************************************************************************)
(* Replays                                                                 *)
(***************************************************************************)
(* A replay that was admitted is carried on, one that is done answered;    *)
(* otherwise the work must wait for one.                                   *)
Fault_AnswerReplaying(w) ==
    /\ point[w] = "read to replay"
    /\ LET r == record[job[w].checkout]
           mine == r.op = job[w].op IN
       \/ r.status \in {"REPLAYING", "RESOLVED"} /\ Go(w, IF mine THEN "answer" ELSE "failed")
       \/ r.status = "RECONCILIATION_REQUIRED"
          /\ Hold(w, IF mine THEN "readmit" ELSE "admit replay", r.version)
    /\ UNCHANGED <<admissionVars, serviceVars, executionVars>>
ReadToReplay(w) ==
    /\ point[w] = "read to replay"
    /\ LET r == record[job[w].checkout]
           mine == r.op = job[w].op IN
       \/ r.status = "RESOLVED" /\ mine /\ Go(w, "answer")
       \/ r.status = "REPLAYING" /\ mine /\ Hold(w, "start", r.version)
       \/ r.status \in {"REPLAYING", "RESOLVED"} /\ ~mine /\ Go(w, "failed")
       \/ r.status = "RECONCILIATION_REQUIRED"
          /\ Hold(w, IF mine THEN "readmit" ELSE "admit replay", r.version)
    /\ UNCHANGED <<admissionVars, serviceVars, executionVars>>

Fault_CountAgain(r, o) ==
    [r EXCEPT !.status = "REPLAYING", !.attempts = @ + 1]
Readmitted(r, o) == [r EXCEPT !.status = "REPLAYING"]
Admitted(r, o) ==
    [r EXCEPT !.status = "REPLAYING", !.op = o,
              !.attempts = @ + 1, !.audit = Append(@, o)]

(* The operation admitted last is admitted again under the same count; a   *)
(* new one is counted and audited.  Either only if the work still waits.   *)
AdmitReplay(w) ==
    /\ point[w] \in {"readmit", "admit replay"}
    /\ LET c == job[w].checkout
           o == job[w].op
           r == record[c]
           again == point[w] = "readmit" IN
       \/ /\ r.status = "RECONCILIATION_REQUIRED" /\ (again => r.op = o)
          /\ record' = [record EXCEPT ![c] = IF again THEN Readmitted(r, o) ELSE Admitted(r, o)]
          /\ Go(w, "start")
       \/ /\ ~(r.status = "RECONCILIATION_REQUIRED" /\ (again => r.op = o))
          /\ Go(w, "failed")
          /\ UNCHANGED record
    /\ UNCHANGED <<admissionVars, facts, executionVars>>

(* The execution is named after the operation: an operation admitted twice *)
(* starts one, which may be over by now.                                   *)
Start(w) ==
    /\ replay' = IF replay[job[w].op] # NoReplay THEN replay
                 ELSE [replay EXCEPT ![job[w].op] =
                          [checkout |-> job[w].checkout, version |-> held[w]]]
    /\ UNCHANGED <<phase, task, tries>>
StartReplay(w) ==
    /\ point[w] = "start"
    /\ Start(w)
    /\ Go(w, "answer")
    /\ UNCHANGED <<admissionVars, serviceVars>>

(* The start fails, or is not seen to succeed: the work is given back.     *)
StartFails(w) ==
    /\ point[w] = "start" /\ faults < MaxFaults
    /\ faults' = faults + 1
    /\ Start(w) \/ UNCHANGED executionVars
    /\ Go(w, "give back")
    /\ UNCHANGED <<live, admission, saga, execution, apiLocal, serviceVars>>

MayGiveBack(r, o) == r.status = "REPLAYING" /\ r.op = o
FailReplay(w) ==
    /\ point[w] = "give back"
    /\ LET c == job[w].checkout IN
       record' = IF MayGiveBack(record[c], job[w].op)
                 THEN [record EXCEPT ![c].status = "RECONCILIATION_REQUIRED"] ELSE record
    /\ Go(w, "failed")
    /\ UNCHANGED <<admissionVars, facts, executionVars>>

(***************************************************************************)
(* Answers and losses                                                      *)
(***************************************************************************)
Leave(w) ==
    /\ At(w, "idle")
    /\ job' = [job EXCEPT ![w] = NoTask] /\ held' = [held EXCEPT ![w] = None]
    /\ caller' = [caller EXCEPT ![w] = None]

(* The answer it waits for lets an execution succeed; another answer, or   *)
(* an error no retry names, fails it; any other error is a failed attempt. *)
Finish(w) ==
    /\ point[w] \in {"answer", "refused", "failed"}
    /\ Leave(w)
    /\ IF caller[w] \notin Names THEN UNCHANGED executionVars
       ELSE /\ CASE point[w] = "answer" -> Close(caller[w], "succeeded") /\ UNCHANGED tries
                 [] point[w] = "refused" -> Close(caller[w], "failed") /\ UNCHANGED tries
                 [] OTHER -> Retry(caller[w])
            /\ UNCHANGED <<replay, task>>
    /\ UNCHANGED <<admissionVars, serviceVars>>

(* The caller gives up on an invocation that goes on; or it is killed.     *)
LoseAnswer(w) ==
    /\ caller[w] # None /\ faults < MaxFaults
    /\ faults' = faults + 1
    /\ \/ caller' = [caller EXCEPT ![w] = None] /\ UNCHANGED <<point, job, held>>
       \/ Leave(w)
    /\ IF caller[w] \in Names THEN Retry(caller[w]) ELSE UNCHANGED <<phase, tries>>
    /\ UNCHANGED <<live, admission, saga, execution, apiLocal, serviceVars, replay, task>>

WorkerStep(w) ==
    \/ ReadSagaVersion(w) \/ ReadToCreate(w) \/ PutRecord(w) \/ ReopenRecord(w)
    \/ ReadToResolve(w) \/ ResolveRecord(w)
    \/ ReadToReplay(w) \/ AdmitReplay(w) \/ StartReplay(w) \/ FailReplay(w)
    \/ Finish(w)

SagaNext ==
    \/ AdmissionNext /\ UNCHANGED reconciliationVars
    \/ \E x \in Names : ReachTask(x)
    \/ \E w \in Workers, x \in Names : CallService(w, x)
    \/ \E w \in Workers, c \in Checkouts, o \in ReplayOps : OperatorReplays(w, c, o)
    \/ \E w \in Workers : WorkerStep(w) \/ StartFails(w) \/ LoseAnswer(w)

SagaSpec == SagaInit /\ [][SagaNext]_vars

-----------------------------------------------------------------------------
(***************************************************************************)
(* Properties                                                              *)
(***************************************************************************)
Points == {"idle", "read version", "read to create", "put", "reopen", "read to resolve",
           "resolve", "read to replay", "readmit", "admit replay", "start", "give back",
           "answer", "refused", "failed"}
RecordTypeOK(r) ==
    /\ r.status \in {"NONE", "RECONCILIATION_REQUIRED", "REPLAYING", "RESOLVED"}
    /\ r.work \in Works \cup {None}
    /\ r.version \in Versions \cup {None}
    /\ r.op \in ReplayOps \cup {None}
    /\ r.attempts \in Nat
    /\ r.audit \in Seq(ReplayOps)

(* The shape of the records, of the executions and of the invocations; a   *)
(* record's attempts are those the checkout's own execution created it     *)
(* with, and one for each replay in the audit.                             *)
TypeOK ==
    /\ AdmissionTypeOK
    /\ \A c \in Checkouts : RecordTypeOK(record[c])
    /\ \A c \in Checkouts :
          record[c].status # "NONE" =>
              record[c].attempts = task[c].attempts + Len(record[c].audit)
    /\ facts \in [Checkouts -> [required : Nat, resolved : 0..1]]
    /\ phase \in [Names -> {"running", "succeeded", "failed"}]
    /\ replay \in [ReplayOps -> {NoReplay} \cup [checkout : Checkouts, version : Versions]]
    /\ task \in [Names -> {NoTask, Resolve} \cup {Create(f[1], f[2]) : f \in Failures}]
    /\ tries \in [Names -> 0..MaxAttempts]
    /\ point \in [Workers -> Points]
    /\ held \in [Workers -> Versions \cup {None}]
    /\ caller \in [Workers -> Names \cup {None, "operator"}]

(* Whatever the alias routes to when the admission is recorded, the work   *)
(* created or a replay started, the Saga record, the work and each replay  *)
(* name the version the checkout's own execution runs on.                  *)
VersionIsPinned ==
    /\ \A c \in Checkouts :
          /\ saga[c].version \in {None, execution[c].version}
          /\ record[c].status # "NONE" => record[c].version = execution[c].version
    /\ \A o \in ReplayOps :
          replay[o] # NoReplay => replay[o].version = execution[replay[o].checkout].version

(* An execution that could not be compensated does not end unseen.  If it  *)
(* succeeds, its own work is on record, where the Saga record shows it, or *)
(* it has resolved what was there.  If it fails before its attempts are    *)
(* used up, the work of the checkout's own execution is on record: for     *)
(* that execution its own, whether or not the API had recorded the version *)
(* when it asked; for a replay the work it replays, as one that comes with *)
(* other work is refused and leaves its own unrecorded.                    *)
WorkOnRecord(x) ==
    LET c == CheckoutOf(x) IN
    /\ record[c].status # "NONE" /\ record[c].work = task[x].work
    /\ saga[c].status # "ADMITTED"
EndedWorkIsRecorded ==
    \A x \in Names :
        /\ phase[x] = "succeeded" =>
              IF task[x] = Resolve THEN record[CheckoutOf(x)].status = "RESOLVED"
                                   ELSE WorkOnRecord(x)
        /\ phase[x] = "failed" /\ tries[x] < MaxAttempts => WorkOnRecord(CheckoutOf(x))

(* Work is resolved once and for all, and only by a replay that started:   *)
(* no answer that was lost, attempt that comes late, replay given back or  *)
(* execution that requires the work again reopens it.                      *)
ResolvedIsFinal ==
    [][\A c \in Checkouts :
        /\ record[c].status = "RESOLVED" =>
              record'[c] = record[c] /\ facts'[c] = facts[c] /\ saga'[c].status = "RESOLVED"
        /\ record[c].status # "RESOLVED" /\ record'[c].status = "RESOLVED" =>
              \E o \in ReplayOps : replay[o].checkout = c /\ task[o] = Resolve
      ]_vars

(* An operator told that a replay was admitted has its execution started,  *)
(* or the work resolved, whoever else replays it and whichever starts fail.*)
AnsweredReplayHasStarted ==
    \A w \in Workers :
        point[w] = "answer" /\ job[w].type = "ReplayReconciliation" =>
            \/ replay[job[w].op].checkout = job[w].checkout
            \/ record[job[w].checkout].status = "RESOLVED"
=============================================================================
