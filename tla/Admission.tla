-------------------------------- MODULE Admission --------------------------------
(***************************************************************************)
(* The Checkout API's submission: the ADMISSION and SAGA records, the start*)
(* of the execution named after the checkout, and the record of the        *)
(* workflow version the execution was pinned to.                           *)
(*                                                                         *)
(* A submission is one client's request with its repetitions: an invocation*)
(* of the API, of which an action is one request; the invocation may be    *)
(* lost between any two of them, and the client submits again.             *)
(***************************************************************************)
EXTENDS Naturals, FiniteSets

CONSTANTS
    Keys,        \* Idempotency-Key values
    Requests,    \* request bodies; two are equal when their hashes are
    Checkouts,   \* checkoutId values a submission may draw
    Versions,    \* published versions of the workflow
    Submissions, \* clients that submit beside each other
    MaxFaults    \* bound on lost invocations, conflicts and failed requests

None == "none"

ASSUME AdmissionConstants ==
    /\ MaxFaults \in Nat
    /\ IsFiniteSet(Keys) /\ IsFiniteSet(Checkouts)
    /\ Cardinality(Keys) <= Cardinality(Checkouts)
    /\ None \notin Checkouts \cup Versions

VARIABLES
    live,        \* the version the LIVE alias routes to
    admission,   \* the ADMISSION record of each key: its request, the checkout,
                 \* and the submission whose clock fixed the deadline
    saga,        \* the SAGA record of each checkout: its status and version
    execution,   \* the execution of each checkout: its version and its input
    at,          \* where each submission stands,
    wants,       \* the key and request it carries,
    got,         \* the admission it was given
    seen,        \* and the execution's version it read
    faults       \* faults so far

apiLocal == <<at, wants, got, seen>>
admissionVars == <<live, admission, saga, execution, apiLocal, faults>>

NoAdmission == [request |-> None, checkout |-> None, deadline |-> None]
NoSaga == [status |-> "NONE", version |-> None]
NoExecution == [version |-> None, request |-> None, deadline |-> None]
NoWant == [key |-> None, request |-> None]

Init ==
    /\ live \in Versions
    /\ admission = [k \in Keys |-> NoAdmission]
    /\ saga = [c \in Checkouts |-> NoSaga]
    /\ execution = [c \in Checkouts |-> NoExecution]
    /\ at = [i \in Submissions |-> "idle"]
    /\ wants = [i \in Submissions |-> NoWant]
    /\ got = [i \in Submissions |-> NoAdmission]
    /\ seen = [i \in Submissions |-> None]
    /\ faults = 0

Goto(i, p) == at' = [at EXCEPT ![i] = p]
EndAt(i, p) ==
    /\ Goto(i, p)
    /\ got' = [got EXCEPT ![i] = NoAdmission]
    /\ seen' = [seen EXCEPT ![i] = None]
    /\ UNCHANGED wants
End(i) == EndAt(i, "done")

Submit(i, k, r) ==
    /\ at[i] = "idle"
    /\ Goto(i, "admit")
    /\ wants' = [wants EXCEPT ![i] = [key |-> k, request |-> r]]
    /\ UNCHANGED <<live, admission, saga, execution, got, seen, faults>>

Resubmit(i) ==
    /\ at[i] = "lost"
    /\ Goto(i, "admit")
    /\ UNCHANGED <<live, admission, saga, execution, wants, got, seen, faults>>

(* Both records are written, for a checkout nobody has, or neither is.     *)
Unused(c) == saga[c] = NoSaga
Admit(i) ==
    /\ at[i] = "admit"
    /\ LET k == wants[i].key
           fresh == [request |-> wants[i].request, deadline |-> i,
                     checkout |-> CHOOSE c \in Checkouts : Unused(c)] IN
       \/ /\ admission[k] = NoAdmission
          /\ admission' = [admission EXCEPT ![k] = fresh]
          /\ saga' = [saga EXCEPT ![fresh.checkout].status = "ADMITTED"]
          /\ got' = [got EXCEPT ![i] = fresh]
          /\ Goto(i, "start")
       \/ /\ admission[k] # NoAdmission
          /\ Goto(i, "read admission")
          /\ UNCHANGED <<admission, saga, got>>
    /\ UNCHANGED <<live, execution, wants, seen, faults>>

(* A concurrent request on the same items cancels the transaction.         *)
AdmitConflict(i) ==
    /\ at[i] = "admit" /\ faults < MaxFaults
    /\ faults' = faults + 1
    /\ Goto(i, "read admission")
    /\ UNCHANGED <<live, admission, saga, execution, wants, got, seen>>

ReadAdmission(i) ==
    /\ at[i] = "read admission"
    /\ LET a == admission[wants[i].key] IN
       IF a = NoAdmission THEN EndAt(i, "lost")
       ELSE /\ got' = [got EXCEPT ![i] = a]
            /\ Goto(i, "read saga")
            /\ UNCHANGED <<wants, seen>>
    /\ UNCHANGED <<live, admission, saga, execution, faults>>

(* Another request under the key is a conflict; an admission whose workflow*)
(* is on record is accepted; any other starts it, or starts it again.      *)
Fault_AcceptAdmitted(i) ==
    /\ at[i] = "read saga"
    /\ \/ got[i].request # wants[i].request /\ End(i)
       \/ /\ got[i].request = wants[i].request
          /\ Goto(i, "accept")
          /\ UNCHANGED <<wants, got, seen>>
    /\ UNCHANGED <<live, admission, saga, execution, faults>>
ReadSaga(i) ==
    /\ at[i] = "read saga"
    /\ \/ got[i].request # wants[i].request /\ End(i)
       \/ /\ got[i].request = wants[i].request
          /\ Goto(i, IF saga[got[i].checkout].version # None THEN "accept" ELSE "start")
          /\ UNCHANGED <<wants, got, seen>>
    /\ UNCHANGED <<live, admission, saga, execution, faults>>

Fault_OwnDeadline(i) == [got[i] EXCEPT !.deadline = i]
Input(i) == got[i]

(* StartExecution on the alias, under the checkout's name: a second start  *)
(* is the same execution, whatever the alias routes to by then.            *)
StartExecution(i) ==
    /\ at[i] = "start"
    /\ LET c == got[i].checkout IN
       IF execution[c] = NoExecution
       THEN execution' = [execution EXCEPT ![c] =
               [version |-> live, request |-> Input(i).request,
                deadline |-> Input(i).deadline]]
       ELSE UNCHANGED execution
    /\ Goto(i, "describe")
    /\ UNCHANGED <<live, admission, saga, wants, got, seen, faults>>

Fault_LiveVersion(c) == live
DescribedVersion(c) == execution[c].version

DescribeExecution(i) ==
    /\ at[i] = "describe"
    /\ seen' = [seen EXCEPT ![i] = DescribedVersion(got[i].checkout)]
    /\ Goto(i, "mark")
    /\ UNCHANGED <<live, admission, saga, execution, wants, got, faults>>

MarkWorkflowStarted(i) ==
    /\ at[i] = "mark"
    /\ saga' = [saga EXCEPT ![got[i].checkout].version = seen[i]]
    /\ Goto(i, "accept")
    /\ UNCHANGED <<live, admission, execution, wants, got, seen, faults>>

Accept(i) ==
    /\ at[i] = "accept"
    /\ End(i)
    /\ UNCHANGED <<live, admission, saga, execution, faults>>

(* A failed request, a killed or timed-out invocation, a lost response.    *)
LoseSubmission(i) ==
    /\ at[i] \notin {"idle", "lost", "done"} /\ faults < MaxFaults
    /\ faults' = faults + 1
    /\ EndAt(i, "lost")
    /\ UNCHANGED <<live, admission, saga, execution>>

(* A deployment routes the alias to another version.                       *)
RouteLive(v) ==
    /\ v # live
    /\ live' = v
    /\ UNCHANGED <<admission, saga, execution, apiLocal, faults>>

SubmissionStep(i) ==
    \/ Resubmit(i) \/ Admit(i) \/ ReadAdmission(i) \/ ReadSaga(i) \/ StartExecution(i)
    \/ DescribeExecution(i) \/ MarkWorkflowStarted(i) \/ Accept(i)

AdmissionNext ==
    \/ \E i \in Submissions, k \in Keys, r \in Requests : Submit(i, k, r)
    \/ \E i \in Submissions : SubmissionStep(i) \/ AdmitConflict(i) \/ LoseSubmission(i)
    \/ \E v \in Versions : RouteLive(v)

AdmissionSpec == Init /\ [][AdmissionNext]_admissionVars

(* An invocation that is not lost goes on, and a client whose submission   *)
(* was lost submits again.                                                 *)
AdmissionFairness == \A i \in Submissions : WF_admissionVars(SubmissionStep(i))
FairAdmissionSpec == AdmissionSpec /\ AdmissionFairness

-----------------------------------------------------------------------------
(***************************************************************************)
(* Properties                                                              *)
(***************************************************************************)
Statuses == {"NONE", "ADMITTED", "RECONCILIATION_REQUIRED", "RESOLVED"}

(* The shape of the records and of the submissions.                        *)
AdmissionTypeOK ==
    /\ live \in Versions
    /\ admission \in [Keys -> {NoAdmission} \cup
          [request : Requests, checkout : Checkouts, deadline : Submissions]]
    /\ saga \in [Checkouts -> [status : Statuses, version : Versions \cup {None}]]
    /\ execution \in [Checkouts -> {NoExecution} \cup
          [version : Versions, request : Requests, deadline : Submissions]]
    /\ at \in [Submissions -> {"idle", "admit", "read admission", "read saga",
                               "start", "describe", "mark", "accept", "lost", "done"}]
    /\ wants \in [Submissions -> {NoWant} \cup [key : Keys, request : Requests]]
    /\ seen \in [Submissions -> Versions \cup {None}]
    /\ faults \in 0..MaxFaults

(* However submissions race, fail and come back, a checkout is executed    *)
(* only as it was admitted, under one key, with the deadline fixed then.   *)
ExecutionsAreAdmitted ==
    /\ \A c \in Checkouts :
          execution[c] # NoExecution =>
              \E k \in Keys :
                  admission[k] = [request |-> execution[c].request, checkout |-> c,
                                  deadline |-> execution[c].deadline]
    /\ \A k, l \in Keys :
          admission[k] # NoAdmission /\ admission[k].checkout = admission[l].checkout
              => k = l

(* A client told that its checkout is accepted has it running, and the     *)
(* version it runs on is on record.                                        *)
AcceptedIsRunning ==
    \A i \in Submissions :
        at[i] = "accept" =>
            LET a == admission[wants[i].key] IN
            /\ a = got[i] /\ a.request = wants[i].request
            /\ execution[a.checkout] # NoExecution
            /\ saga[a.checkout].version = execution[a.checkout].version

(* Whatever is lost between the admission, the start and its record, the   *)
(* repeated submission picks the checkout up: its execution is started and *)
(* the version it runs on gets on record.                                  *)
AdmittedStarts ==
    \A c \in Checkouts :
        saga[c] # NoSaga ~> execution[c] # NoExecution /\ saga[c].version # None
=============================================================================
