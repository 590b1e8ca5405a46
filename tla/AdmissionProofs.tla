----------------------------- MODULE AdmissionProofs -----------------------------
(***************************************************************************)
(* Proofs about the Checkout API's submissions, for any keys, requests,    *)
(* versions, submissions and number of faults, and enough checkout ids.    *)
(***************************************************************************)
EXTENDS Admission, FiniteSetTheorems, TLAPS

Admissions == [request : Requests, checkout : Checkouts, deadline : Submissions]
SubmissionPoints == {"idle", "admit", "read admission", "read saga", "start", "describe",
                     "mark", "accept", "lost", "done"}

RecordsOK ==
    /\ live \in Versions
    /\ admission \in [Keys -> {NoAdmission} \cup Admissions]
    /\ saga \in [Checkouts -> [status : Statuses, version : Versions \cup {None}]]
    /\ execution \in [Checkouts -> {NoExecution} \cup
          [version : Versions, request : Requests, deadline : Submissions]]

SubmissionsOK ==
    /\ at \in [Submissions -> SubmissionPoints]
    /\ wants \in [Submissions -> {NoWant} \cup [key : Keys, request : Requests]]
    /\ got \in [Submissions -> {NoAdmission} \cup Admissions]
    /\ seen \in [Submissions -> Versions \cup {None}]

IsAdmitted(k) == admission[k] # NoAdmission
IsRunning(c) == execution[c] # NoExecution

(* The two records of an admission exist together, for one key.            *)
AdmissionsMatch ==
    /\ \A k \in Keys : IsAdmitted(k) => saga[admission[k].checkout] # NoSaga
    /\ \A c \in Checkouts :
          saga[c] # NoSaga => \E k \in Keys : IsAdmitted(k) /\ admission[k].checkout = c
    /\ \A k, l \in Keys :
          IsAdmitted(k) /\ IsAdmitted(l) /\ admission[k].checkout = admission[l].checkout => k = l

(* What runs was admitted, and the version on record is the one it runs on.*)
RunsAsAdmitted ==
    \A c \in Checkouts :
        /\ IsRunning(c) =>
              \E k \in Keys :
                  admission[k] = [request |-> execution[c].request, checkout |-> c,
                                  deadline |-> execution[c].deadline]
        /\ saga[c].version # None => IsRunning(c) /\ saga[c].version = execution[c].version

(* A submission holds the admission of its key, and has seen it run before *)
(* it says so.                                                             *)
Holding == {"read saga", "start", "describe", "mark", "accept"}
SubmissionInv(i) ==
    LET c == got[i].checkout IN
    /\ at[i] # "idle" => wants[i] \in [key : Keys, request : Requests]
    /\ at[i] \in Holding =>
          got[i] = admission[wants[i].key] /\ got[i] \in Admissions
    /\ at[i] \in Holding \ {"read saga"} => got[i].request = wants[i].request
    /\ at[i] \in {"describe", "mark", "accept"} => IsRunning(c)
    /\ at[i] = "mark" => seen[i] = execution[c].version
    /\ at[i] = "accept" => saga[c].version = execution[c].version

AdmissionInv ==
    /\ RecordsOK /\ SubmissionsOK
    /\ AdmissionsMatch /\ RunsAsAdmitted
    /\ \A i \in Submissions : SubmissionInv(i)

(* Records are never taken back.                                           *)
AdmissionForward ==
    /\ \A k \in Keys : IsAdmitted(k) => admission'[k] = admission[k]
    /\ \A c \in Checkouts :
          /\ IsRunning(c) => execution'[c] = execution[c]
          /\ saga[c].version # None => saga'[c].version = saga[c].version

-----------------------------------------------------------------------------
LEMMA NoAdmissionIsNone ==
    NoAdmission \notin Admissions /\ \A a \in Admissions : a.checkout \in Checkouts
  BY AdmissionConstants DEF NoAdmission, Admissions

LEMMA InvGivesProperties ==
    AdmissionInv => ExecutionsAreAdmitted /\ AcceptedIsRunning
  <1> SUFFICES ASSUME AdmissionInv PROVE ExecutionsAreAdmitted /\ AcceptedIsRunning
    OBVIOUS
  <1>1. ASSUME NEW k \in Keys, NEW l \in Keys, admission[k] # NoAdmission,
               admission[k].checkout = admission[l].checkout
        PROVE  k = l
    <2>1. admission[k].checkout \in Checkouts
      BY <1>1, NoAdmissionIsNone DEF AdmissionInv, RecordsOK
    <2>2. NoAdmission.checkout \notin Checkouts
      BY AdmissionConstants DEF NoAdmission
    <2> QED BY <1>1, <2>1, <2>2 DEF AdmissionInv, AdmissionsMatch, IsAdmitted
  <1>2. ExecutionsAreAdmitted
    BY <1>1 DEF AdmissionInv, RunsAsAdmitted, IsRunning, ExecutionsAreAdmitted
  <1>3. AcceptedIsRunning
    BY DEF AdmissionInv, SubmissionInv, Holding, IsRunning, AcceptedIsRunning
  <1> QED BY <1>2, <1>3

LEMMA AdmissionInit == Init => AdmissionInv
  <1> SUFFICES ASSUME Init PROVE AdmissionInv
    OBVIOUS
  <1>1. RecordsOK /\ SubmissionsOK
    BY DEF Init, RecordsOK, SubmissionsOK, NoSaga, Statuses, SubmissionPoints
  <1>2. AdmissionsMatch /\ RunsAsAdmitted
    BY DEF Init, AdmissionsMatch, RunsAsAdmitted, IsAdmitted, IsRunning, NoSaga
  <1>3. \A i \in Submissions : SubmissionInv(i)
    BY DEF Init, SubmissionInv, Holding
  <1> QED BY <1>1, <1>2, <1>3 DEF AdmissionInv

(* While a key is not admitted, a checkout id is left: the admissions      *)
(* occupy one each.                                                        *)
LEMMA CheckoutLeft ==
    ASSUME AdmissionInv, NEW k \in Keys, ~IsAdmitted(k)
    PROVE  \E c \in Checkouts : Unused(c)
  <1> SUFFICES ASSUME \A c \in Checkouts : ~Unused(c) PROVE FALSE
    OBVIOUS
  <1> DEFINE holder == [c \in Checkouts |->
                            CHOOSE j \in Keys : IsAdmitted(j) /\ admission[j].checkout = c]
             T == Keys \ {k}
  <1>1. \A c \in Checkouts : /\ holder[c] \in Keys /\ IsAdmitted(holder[c])
                             /\ admission[holder[c]].checkout = c
    BY DEF Unused, AdmissionInv, AdmissionsMatch
  <1>2. holder \in [Checkouts -> T]
    BY <1>1
  <1>3. /\ IsFiniteSet(T) /\ Cardinality(T) = Cardinality(Keys) - 1
        /\ Cardinality(Keys) \in Nat /\ Cardinality(Checkouts) \in Nat
    BY AdmissionConstants, FS_RemoveElement, FS_CardinalityType
  <1>4. Cardinality(T) < Cardinality(Checkouts)
    BY <1>3, AdmissionConstants
  <1> HIDE DEF holder, T
  <1>5. \E c, d \in Checkouts : c # d /\ holder[c] = holder[d]
    BY <1>2, <1>3, <1>4, AdmissionConstants, FS_PigeonHole
  <1> QED BY <1>1, <1>5

-----------------------------------------------------------------------------
(***************************************************************************)
(* The records                                                             *)
(***************************************************************************)
TablesInv == RecordsOK /\ AdmissionsMatch /\ RunsAsAdmitted

LEMMA TablesSame ==
    ASSUME AdmissionInv, UNCHANGED <<admission, saga, execution>>, live' \in Versions
    PROVE  TablesInv' /\ AdmissionForward
  BY DEF AdmissionInv, TablesInv, RecordsOK, AdmissionsMatch, RunsAsAdmitted, IsAdmitted, IsRunning,
         AdmissionForward

(* A status on the Saga record of a started checkout disturbs nothing here. *)
LEMMA StatusTables ==
    ASSUME AdmissionInv, NEW c \in Checkouts, saga[c] # NoSaga, NEW s \in Statuses \ {"NONE"},
           saga' = [saga EXCEPT ![c].status = s], UNCHANGED <<live, admission, execution>>
    PROVE  TablesInv' /\ AdmissionForward
  <1>a. RecordsOK /\ AdmissionsMatch /\ RunsAsAdmitted
    BY DEF AdmissionInv
  <1>1. saga' \in [Checkouts -> [status : Statuses, version : Versions \cup {None}]]
    BY <1>a DEF RecordsOK
  <1>2. \A d \in Checkouts : saga'[d].version = saga[d].version /\ (d # c => saga'[d] = saga[d])
    BY <1>a DEF RecordsOK
  <1>3. saga'[c] # NoSaga
    BY <1>a DEF RecordsOK, NoSaga
  <1>4. RecordsOK'
    BY <1>a, <1>1 DEF RecordsOK
  <1>5. AdmissionsMatch'
    BY <1>a, <1>2, <1>3 DEF AdmissionsMatch, IsAdmitted, RecordsOK
  <1>6. RunsAsAdmitted' /\ AdmissionForward
    BY <1>a, <1>2 DEF RunsAsAdmitted, IsRunning, IsAdmitted, AdmissionForward
  <1> QED BY <1>4, <1>5, <1>6 DEF TablesInv

LEMMA AdmitTables ==
    ASSUME AdmissionInv, NEW i \in Submissions, Admit(i)
    PROVE  TablesInv' /\ AdmissionForward
  <1>a. RecordsOK /\ AdmissionsMatch /\ RunsAsAdmitted /\ wants[i] \in [key : Keys, request : Requests]
    BY DEF AdmissionInv, SubmissionInv, Admit
  <1> DEFINE k == wants[i].key
             c == CHOOSE d \in Checkouts : Unused(d)
             fresh == [request |-> wants[i].request, deadline |-> i, checkout |-> c]
  <1>1. CASE UNCHANGED <<admission, saga>>
    BY <1>1, <1>a, TablesSame DEF Admit, RecordsOK
  <1>2. CASE /\ admission[k] = NoAdmission
             /\ admission' = [admission EXCEPT ![k] = fresh]
             /\ saga' = [saga EXCEPT ![fresh.checkout].status = "ADMITTED"]
    <2>1. k \in Keys /\ c \in Checkouts /\ saga[c] = NoSaga
      BY <1>2, <1>a, CheckoutLeft DEF Unused, IsAdmitted
    <2>2. fresh \in Admissions /\ fresh # NoAdmission /\ fresh.checkout = c
      <3>1. fresh \in Admissions /\ fresh.checkout = c
        BY <2>1, <1>a DEF Admissions
      <3> QED BY <3>1, NoAdmissionIsNone
    <2> HIDE DEF c, fresh
    <2>3. /\ \A d \in Checkouts : d # c => saga'[d] = saga[d]
          /\ saga'[c] = [status |-> "ADMITTED", version |-> None]
      BY <1>2, <2>1, <2>2, <1>a DEF RecordsOK, NoSaga
    <2>4. /\ \A j \in Keys : j # k => admission'[j] = admission[j]
          /\ admission'[k] = fresh
      BY <1>2, <2>1, <1>a DEF RecordsOK
    <2>5. UNCHANGED <<live, execution>>
      BY DEF Admit
    <2>6. RecordsOK'
      <3>1. saga' \in [Checkouts -> [status : Statuses, version : Versions \cup {None}]]
        BY <1>2, <2>1, <2>2, <1>a DEF RecordsOK, Statuses
      <3>2. admission' \in [Keys -> {NoAdmission} \cup Admissions]
        BY <1>2, <2>1, <2>2, <1>a DEF RecordsOK
      <3> QED BY <3>1, <3>2, <2>5, <1>a DEF RecordsOK
    <2>7. AdmissionsMatch'
      <3>1. saga'[c] # NoSaga
        BY <2>3 DEF NoSaga
      <3>2. \A j \in Keys : IsAdmitted(j) => admission[j].checkout \in Checkouts \ {c}
        BY <2>1, <1>a, NoAdmissionIsNone DEF RecordsOK, AdmissionsMatch, IsAdmitted
      <3>3. \A j \in Keys : IsAdmitted(j)' <=> (j = k \/ IsAdmitted(j))
        BY <2>2, <2>4 DEF IsAdmitted
      <3>4. ~IsAdmitted(k)
        BY <1>2 DEF IsAdmitted
      <3>5. \A j \in Keys : IsAdmitted(j)' => saga'[admission'[j].checkout] # NoSaga
        BY <2>2, <2>3, <2>4, <3>1, <3>2, <3>3, <1>a DEF AdmissionsMatch
      <3>6. \A d \in Checkouts :
               saga'[d] # NoSaga => \E j \in Keys : IsAdmitted(j)' /\ admission'[j].checkout = d
        BY <2>1, <2>2, <2>3, <2>4, <3>3, <3>4, <1>a DEF AdmissionsMatch
      <3>7. \A j, l \in Keys : IsAdmitted(j)' /\ IsAdmitted(l)'
                               /\ admission'[j].checkout = admission'[l].checkout => j = l
        BY <2>2, <2>4, <3>2, <3>3, <1>a DEF AdmissionsMatch
      <3> QED BY <3>5, <3>6, <3>7 DEF AdmissionsMatch, IsAdmitted
    <2>8. \A d \in Checkouts : saga'[d].version = saga[d].version
      BY <2>1, <2>3 DEF NoSaga
    <2>9. ASSUME NEW d \in Checkouts, IsRunning(d)
          PROVE  \E j \in Keys : j # k /\ admission[j] = [request |-> execution[d].request,
                                      checkout |-> d, deadline |-> execution[d].deadline]
      <3>1. PICK j \in Keys : admission[j] = [request |-> execution[d].request,
                                      checkout |-> d, deadline |-> execution[d].deadline]
        BY <2>9, <1>a DEF RunsAsAdmitted
      <3>2. admission[j].checkout # None
        BY <3>1, AdmissionConstants
      <3> QED BY <3>1, <3>2, <1>2 DEF NoAdmission
    <2>10. RunsAsAdmitted'
      BY <2>4, <2>5, <2>8, <2>9, <1>a DEF RunsAsAdmitted, IsRunning
    <2>11. AdmissionForward
      BY <1>2, <2>4, <2>5, <2>8 DEF AdmissionForward, IsAdmitted
    <2> QED BY <2>6, <2>7, <2>10, <2>11 DEF TablesInv
  <1> QED BY <1>1, <1>2 DEF Admit

LEMMA StartTables ==
    ASSUME AdmissionInv, NEW i \in Submissions, StartExecution(i)
    PROVE  TablesInv' /\ AdmissionForward
  <1> DEFINE c == got[i].checkout
             x == [version |-> live, request |-> Input(i).request, deadline |-> Input(i).deadline]
             k == wants[i].key
  <1>a. RecordsOK /\ AdmissionsMatch /\ RunsAsAdmitted
    BY DEF AdmissionInv
  <1>b. /\ got[i] = admission[k] /\ k \in Keys /\ got[i] \in Admissions /\ c \in Checkouts
    BY NoAdmissionIsNone DEF AdmissionInv, SubmissionInv, StartExecution, Holding
  <1>c. UNCHANGED <<live, admission, saga>>
    BY DEF StartExecution
  <1>1. CASE UNCHANGED execution
    BY <1>1, <1>a, <1>c, TablesSame DEF RecordsOK
  <1>2. CASE execution[c] = NoExecution /\ execution' = [execution EXCEPT ![c] = x]
    <2>1. x \in [version : Versions, request : Requests, deadline : Submissions]
      BY <1>a, <1>b DEF Input, Admissions, RecordsOK
    <2>2. RecordsOK'
      BY <1>2, <1>a, <1>c, <2>1 DEF RecordsOK
    <2>3. AdmissionsMatch'
      BY <1>a, <1>c DEF AdmissionsMatch, IsAdmitted
    <2>4. admission[k] = [request |-> x.request, checkout |-> c, deadline |-> x.deadline]
      BY <1>b DEF Input, Admissions
    <2>5. /\ \A d \in Checkouts : d # c => execution'[d] = execution[d]
          /\ execution'[c] = x
      BY <1>2, <1>a, <1>b DEF RecordsOK
    <2>6. saga[c].version = None
      BY <1>2, <1>a, <1>b DEF RunsAsAdmitted, IsRunning
    <2>7. RunsAsAdmitted'
      <3> SUFFICES ASSUME NEW d \in Checkouts
                   PROVE  /\ IsRunning(d)' =>
                              \E j \in Keys :
                                  admission'[j] = [request |-> execution'[d].request, checkout |-> d,
                                                   deadline |-> execution'[d].deadline]
                          /\ saga'[d].version # None =>
                                IsRunning(d)' /\ saga'[d].version = execution'[d].version
        BY DEF RunsAsAdmitted, IsRunning
      <3>1. CASE d = c
        BY <3>1, <2>4, <2>5, <2>6, <1>b, <1>c
      <3>2. CASE d # c
        BY <3>2, <2>5, <1>a, <1>c DEF RunsAsAdmitted, IsRunning
      <3> QED BY <3>1, <3>2
    <2>8. AdmissionForward
      BY <1>2, <1>c, <2>5 DEF AdmissionForward, IsRunning, IsAdmitted
    <2> QED BY <2>2, <2>3, <2>7, <2>8 DEF TablesInv
  <1> QED BY <1>1, <1>2 DEF StartExecution

LEMMA MarkTables ==
    ASSUME AdmissionInv, NEW i \in Submissions, MarkWorkflowStarted(i)
    PROVE  TablesInv' /\ AdmissionForward
  <1> DEFINE c == got[i].checkout
             v == seen[i]
  <1>a. RecordsOK /\ AdmissionsMatch /\ RunsAsAdmitted
    BY DEF AdmissionInv
  <1>b. /\ got[i] = admission[wants[i].key] /\ wants[i].key \in Keys /\ got[i] \in Admissions
        /\ c \in Checkouts /\ IsRunning(c) /\ v = execution[c].version
    BY NoAdmissionIsNone DEF AdmissionInv, SubmissionInv, MarkWorkflowStarted, Holding
  <1>c. saga' = [saga EXCEPT ![c].version = v] /\ UNCHANGED <<live, admission, execution>>
    BY DEF MarkWorkflowStarted
  <1>1. v \in Versions /\ v # None
    BY <1>a, <1>b, AdmissionConstants DEF RecordsOK, IsRunning
  <1>2. saga[c] # NoSaga
    BY <1>a, <1>b, NoAdmissionIsNone DEF AdmissionsMatch, IsAdmitted
  <1>3. /\ \A d \in Checkouts : d # c => saga'[d] = saga[d]
        /\ saga'[c].version = v /\ saga'[c] # NoSaga
    BY <1>a, <1>b, <1>c, <1>1 DEF RecordsOK, NoSaga
  <1>4. RecordsOK'
    BY <1>a, <1>b, <1>c, <1>1 DEF RecordsOK
  <1>5. AdmissionsMatch'
    BY <1>2, <1>3, <1>a, <1>c DEF AdmissionsMatch, IsAdmitted
  <1>6. RunsAsAdmitted'
    BY <1>3, <1>a, <1>b, <1>c DEF RunsAsAdmitted, IsRunning
  <1>7. AdmissionForward
    BY <1>3, <1>a, <1>b, <1>c DEF AdmissionForward, IsAdmitted, RunsAsAdmitted
  <1> QED BY <1>4, <1>5, <1>6, <1>7 DEF TablesInv

LEMMA TablesStep ==
    ASSUME AdmissionInv, AdmissionNext PROVE TablesInv' /\ AdmissionForward
  <1>1. CASE UNCHANGED <<admission, saga, execution>>
    BY <1>1, TablesSame
       DEF AdmissionNext, Submit, SubmissionStep, Resubmit, Admit, ReadAdmission, ReadSaga,
           StartExecution, DescribeExecution, MarkWorkflowStarted, Accept, AdmitConflict,
           LoseSubmission, RouteLive, AdmissionInv, RecordsOK
  <1>2. CASE ~ UNCHANGED <<admission, saga, execution>>
    <2>1. \E i \in Submissions : Admit(i) \/ StartExecution(i) \/ MarkWorkflowStarted(i)
      BY <1>2
         DEF AdmissionNext, Submit, SubmissionStep, Resubmit, ReadAdmission, ReadSaga,
             DescribeExecution, Accept, AdmitConflict, LoseSubmission, RouteLive
    <2> QED BY <2>1, AdmitTables, StartTables, MarkTables
  <1> QED BY <1>1, <1>2

-----------------------------------------------------------------------------
(***************************************************************************)
(* The submissions                                                         *)
(***************************************************************************)
SameSubmission(i) ==
    at'[i] = at[i] /\ wants'[i] = wants[i] /\ got'[i] = got[i] /\ seen'[i] = seen[i]

(* What a submission holds stays true, whatever the others do. *)
LEMMA SubmissionKept ==
    ASSUME AdmissionInv, TablesInv', AdmissionForward, NEW i \in Submissions, SameSubmission(i)
    PROVE  SubmissionInv(i)'
  <1> DEFINE c == got[i].checkout
  <1>1. SubmissionInv(i)
    BY DEF AdmissionInv
  <1>2. at[i] \in Holding => /\ wants[i].key \in Keys /\ c \in Checkouts
                             /\ IsAdmitted(wants[i].key)
    BY <1>1, NoAdmissionIsNone DEF SubmissionInv, Holding, IsAdmitted
  <1>3. at[i] \in Holding => admission'[wants[i].key] = admission[wants[i].key]
    BY <1>2 DEF AdmissionForward
  <1>4. at[i] \in {"describe", "mark", "accept"} =>
            IsRunning(c) /\ execution'[c] = execution[c]
    BY <1>1, <1>2 DEF SubmissionInv, AdmissionForward, Holding
  <1>5. at[i] = "accept" => saga[c].version # None /\ saga'[c].version = saga[c].version
    <2> SUFFICES ASSUME at[i] = "accept"
                 PROVE  saga[c].version # None /\ saga'[c].version = saga[c].version
      OBVIOUS
    <2>1. c \in Checkouts /\ IsRunning(c) /\ saga[c].version = execution[c].version
      BY <1>1, <1>2 DEF SubmissionInv, Holding
    <2>2. execution[c].version # None
      BY <2>1, AdmissionConstants DEF AdmissionInv, RecordsOK, IsRunning
    <2> QED BY <2>1, <2>2 DEF AdmissionForward
  <1> QED BY <1>1, <1>3, <1>4, <1>5 DEF SubmissionInv, SameSubmission, IsRunning, Holding

LEMMA EndAtType ==
    ASSUME SubmissionsOK, NEW i \in Submissions, NEW p \in {"lost", "done"}, EndAt(i, p)
    PROVE  /\ SubmissionsOK' /\ at'[i] = p /\ wants'[i] = wants[i]
           /\ \A j \in Submissions : j # i => SameSubmission(j)
  BY DEF SubmissionsOK, EndAt, Goto, SubmissionPoints, SameSubmission

LEMMA EndedSubmission ==
    ASSUME AdmissionInv, NEW i \in Submissions, at[i] # "idle", at'[i] \in {"lost", "done", "admit",
           "read admission"}, wants'[i] = wants[i]
    PROVE  SubmissionInv(i)'
  <1>1. wants'[i] \in [key : Keys, request : Requests]
    BY DEF AdmissionInv, SubmissionInv
  <1>2. at'[i] \notin Holding
    BY DEF Holding
  <1> QED BY <1>1, <1>2 DEF SubmissionInv, Holding

(* A submission's own step: where it goes, it holds what it must. *)
LEMMA SubmissionStepInv ==
    ASSUME AdmissionInv, TablesInv', AdmissionForward, NEW i \in Submissions,
           SubmissionStep(i) \/ AdmitConflict(i) \/ LoseSubmission(i)
    PROVE  /\ SubmissionsOK' /\ SubmissionInv(i)'
           /\ \A j \in Submissions : j # i => SameSubmission(j)
  <1> DEFINE k == wants[i].key
             c == got[i].checkout
             Onward == /\ SubmissionsOK' /\ SubmissionInv(i)'
                       /\ \A j \in Submissions : j # i => SameSubmission(j)
  <1> USE DEF SubmissionPoints
  <1>a. RecordsOK /\ SubmissionsOK /\ AdmissionsMatch /\ RunsAsAdmitted /\ SubmissionInv(i)
    BY DEF AdmissionInv
  <1>b. at[i] # "idle" /\ wants[i] \in [key : Keys, request : Requests] /\ k \in Keys
    BY <1>a DEF SubmissionStep, AdmitConflict, LoseSubmission, SubmissionInv, Resubmit, Admit,
                ReadAdmission, ReadSaga, StartExecution, DescribeExecution, MarkWorkflowStarted,
                Accept
  <1>c. at[i] \in Holding => /\ got[i] = admission[k] /\ got[i] \in Admissions /\ c \in Checkouts
                             /\ IsAdmitted(k)
    BY <1>a, NoAdmissionIsNone DEF SubmissionInv, IsAdmitted
  <1>1. ASSUME Resubmit(i) \/ AdmitConflict(i) PROVE Onward
    <2>1. at'[i] \in {"admit", "read admission"} /\ wants'[i] = wants[i]
      BY <1>1, <1>a DEF Resubmit, AdmitConflict, Goto, SubmissionsOK
    <2>2. SubmissionsOK' /\ \A j \in Submissions : j # i => SameSubmission(j)
      BY <1>1, <1>a DEF Resubmit, AdmitConflict, Goto, SubmissionsOK, SameSubmission
    <2> QED BY <2>1, <2>2, <1>b, EndedSubmission
  <1>2. ASSUME NEW p \in {"lost", "done"}, EndAt(i, p) PROVE Onward
    BY <1>2, <1>a, <1>b, EndAtType, EndedSubmission
  <1>3. CASE Admit(i)
    <2>1. CASE /\ Goto(i, "read admission") /\ UNCHANGED <<wants, got, seen>>
      <3>1. SubmissionsOK' /\ at'[i] = "read admission"
            /\ \A j \in Submissions : j # i => SameSubmission(j)
        BY <2>1, <1>a DEF Goto, SubmissionsOK, SameSubmission
      <3> QED BY <3>1, <2>1, <1>b, EndedSubmission
    <2>2. CASE ~(Goto(i, "read admission") /\ UNCHANGED <<wants, got, seen>>)
      <3> DEFINE fresh == [request |-> wants[i].request, deadline |-> i,
                           checkout |-> CHOOSE d \in Checkouts : Unused(d)]
      <3>1. /\ admission[k] = NoAdmission /\ admission' = [admission EXCEPT ![k] = fresh]
            /\ got' = [got EXCEPT ![i] = fresh] /\ at' = [at EXCEPT ![i] = "start"]
            /\ UNCHANGED <<wants, seen>>
        BY <2>2, <1>3 DEF Admit, Goto
      <3>2. fresh \in Admissions
        BY <3>1, <1>b, CheckoutLeft DEF Admissions, IsAdmitted
      <3>3. fresh.request = wants[i].request
        OBVIOUS
      <3> HIDE DEF fresh
      <3>4. admission'[k] = fresh /\ got'[i] = fresh /\ at'[i] = "start"
        BY <3>1, <1>a, <1>b DEF RecordsOK, SubmissionsOK
      <3>5. SubmissionInv(i)'
        BY <3>1, <3>2, <3>3, <3>4, <1>b DEF SubmissionInv, Holding
      <3>6. SubmissionsOK' /\ \A j \in Submissions : j # i => SameSubmission(j)
        BY <3>1, <3>2, <1>a DEF SubmissionsOK, SameSubmission
      <3> QED BY <3>5, <3>6
    <2> QED BY <2>1, <2>2
  <1>4. CASE ReadAdmission(i)
    <2>1. CASE admission[k] = NoAdmission
      BY <2>1, <1>2, <1>4 DEF ReadAdmission
    <2>2. CASE admission[k] # NoAdmission
      <3>1. /\ got' = [got EXCEPT ![i] = admission[k]] /\ at' = [at EXCEPT ![i] = "read saga"]
            /\ UNCHANGED <<wants, seen, admission>>
        BY <2>2, <1>4 DEF ReadAdmission, Goto
      <3>2. admission[k] \in Admissions
        BY <2>2, <1>a, <1>b DEF RecordsOK
      <3>3. got'[i] = admission[k] /\ at'[i] = "read saga"
        BY <3>1, <1>a DEF SubmissionsOK
      <3>4. SubmissionInv(i)'
        BY <3>1, <3>2, <3>3, <1>b DEF SubmissionInv, Holding
      <3>5. SubmissionsOK' /\ \A j \in Submissions : j # i => SameSubmission(j)
        BY <3>1, <3>2, <1>a DEF SubmissionsOK, SameSubmission
      <3> QED BY <3>4, <3>5
    <2> QED BY <2>1, <2>2
  <1>5. CASE ReadSaga(i)
    <2>1. CASE End(i)
      BY <2>1, <1>2 DEF End
    <2>2. CASE ~End(i)
      <3> DEFINE p == IF saga[c].version # None THEN "accept" ELSE "start"
      <3>1. /\ at[i] = "read saga" /\ got[i].request = wants[i].request
            /\ at' = [at EXCEPT ![i] = p]
            /\ UNCHANGED <<wants, got, seen, admission, saga, execution>>
        BY <2>2, <1>5 DEF ReadSaga, Goto
      <3>2. at'[i] = p
        BY <3>1, <1>a DEF SubmissionsOK
      <3>3. SubmissionInv(i)'
        <4>a. /\ got[i] = admission[k] /\ got[i] \in Admissions /\ c \in Checkouts
              /\ got[i].request = wants[i].request
          BY <3>1, <1>c DEF Holding
        <4>1. CASE saga[c].version # None
          <5>1. IsRunning(c) /\ saga[c].version = execution[c].version
            BY <4>1, <4>a, <1>a DEF RunsAsAdmitted
          <5>2. at'[i] = "accept"
            BY <4>1, <3>2
          <5> QED BY <5>1, <5>2, <4>a, <3>1, <1>b DEF SubmissionInv, Holding, IsRunning
        <4>2. CASE saga[c].version = None
          <5>1. at'[i] = "start"
            BY <4>2, <3>2
          <5> QED BY <5>1, <4>a, <3>1, <1>b DEF SubmissionInv, Holding
        <4> QED BY <4>1, <4>2
      <3>4. SubmissionsOK' /\ \A j \in Submissions : j # i => SameSubmission(j)
        BY <3>1, <1>a DEF SubmissionsOK, SameSubmission
      <3> QED BY <3>3, <3>4
    <2> QED BY <2>1, <2>2
  <1>6. CASE StartExecution(i)
    <2>1. /\ at[i] = "start" /\ at' = [at EXCEPT ![i] = "describe"]
          /\ UNCHANGED <<wants, got, seen, admission>>
      BY <1>6 DEF StartExecution, Goto
    <2>2. execution'[c] # NoExecution
      <3>1. CASE execution[c] = NoExecution
        <4>1. execution'[c].version = live
          <5>1. execution' = [execution EXCEPT ![c] =
                    [version |-> live, request |-> Input(i).request,
                     deadline |-> Input(i).deadline]]
            BY <3>1, <1>6 DEF StartExecution
          <5>2. c \in Checkouts
            BY <2>1, <1>c DEF Holding
          <5> QED BY <5>1, <5>2, <1>a DEF RecordsOK
        <4>2. live # None
          BY <1>a, AdmissionConstants DEF RecordsOK
        <4> QED BY <4>1, <4>2 DEF NoExecution
      <3>2. CASE execution[c] # NoExecution
        BY <3>2, <1>6 DEF StartExecution
      <3> QED BY <3>1, <3>2
    <2>3. at'[i] = "describe"
      BY <2>1, <1>a DEF SubmissionsOK
    <2>4. SubmissionInv(i)'
      BY <2>1, <2>2, <2>3, <1>a, <1>b, <1>c DEF SubmissionInv, Holding, IsRunning
    <2>5. SubmissionsOK' /\ \A j \in Submissions : j # i => SameSubmission(j)
      BY <2>1, <1>a DEF SubmissionsOK, SameSubmission
    <2> QED BY <2>4, <2>5
  <1>7. CASE DescribeExecution(i)
    <2>1. /\ at[i] = "describe" /\ at' = [at EXCEPT ![i] = "mark"]
          /\ seen' = [seen EXCEPT ![i] = execution[c].version]
          /\ UNCHANGED <<wants, got, admission, execution>>
      BY <1>7 DEF DescribeExecution, Goto, DescribedVersion
    <2>2. execution[c].version \in Versions
      BY <2>1, <1>a, <1>c DEF SubmissionInv, IsRunning, RecordsOK, Holding
    <2>3. at'[i] = "mark" /\ seen'[i] = execution[c].version
      BY <2>1, <1>a DEF SubmissionsOK
    <2>4. SubmissionInv(i)'
      BY <2>1, <2>3, <1>a, <1>b, <1>c DEF SubmissionInv, Holding, IsRunning
    <2>5. SubmissionsOK' /\ \A j \in Submissions : j # i => SameSubmission(j)
      BY <2>1, <2>2, <1>a DEF SubmissionsOK, SameSubmission
    <2> QED BY <2>4, <2>5
  <1>8. CASE MarkWorkflowStarted(i)
    <2>1. /\ at[i] = "mark" /\ at' = [at EXCEPT ![i] = "accept"]
          /\ saga' = [saga EXCEPT ![c].version = seen[i]]
          /\ UNCHANGED <<wants, got, seen, admission, execution>>
      BY <1>8 DEF MarkWorkflowStarted, Goto
    <2>2. at'[i] = "accept" /\ saga'[c].version = execution[c].version
      BY <2>1, <1>a, <1>c DEF SubmissionsOK, SubmissionInv, RecordsOK, Holding
    <2>3. SubmissionInv(i)'
      BY <2>1, <2>2, <1>a, <1>b, <1>c DEF SubmissionInv, Holding, IsRunning
    <2>4. SubmissionsOK' /\ \A j \in Submissions : j # i => SameSubmission(j)
      BY <2>1, <1>a DEF SubmissionsOK, SameSubmission
    <2> QED BY <2>3, <2>4
  <1>9. CASE Accept(i)
    BY <1>2, <1>9 DEF Accept, End
  <1>10. CASE LoseSubmission(i)
    BY <1>2, <1>10 DEF LoseSubmission
  <1> QED BY <1>1, <1>3, <1>4, <1>5, <1>6, <1>7, <1>8, <1>9, <1>10 DEF SubmissionStep

LEMMA AdmissionStep == AdmissionInv /\ AdmissionNext => AdmissionInv' /\ AdmissionForward
  <1> SUFFICES ASSUME AdmissionInv, AdmissionNext PROVE AdmissionInv' /\ AdmissionForward
    OBVIOUS
  <1>1. TablesInv' /\ AdmissionForward
    BY TablesStep
  <1>2. SubmissionsOK' /\ \A i \in Submissions : SubmissionInv(i)'
    <2>1. ASSUME NEW i \in Submissions, SubmissionStep(i) \/ AdmitConflict(i) \/ LoseSubmission(i)
          PROVE  SubmissionsOK' /\ \A j \in Submissions : SubmissionInv(j)'
      BY <2>1, <1>1, SubmissionStepInv, SubmissionKept
    <2>2. ASSUME NEW i \in Submissions, NEW k \in Keys, NEW r \in Requests, Submit(i, k, r)
          PROVE  SubmissionsOK' /\ \A j \in Submissions : SubmissionInv(j)'
      <3>1. SubmissionsOK
        BY DEF AdmissionInv
      <3>2. SubmissionsOK' /\ \A j \in Submissions : j # i => SameSubmission(j)
        BY <2>2, <3>1 DEF Submit, Goto, SubmissionsOK, SubmissionPoints, SameSubmission
      <3>3. at'[i] = "admit" /\ wants'[i] = [key |-> k, request |-> r]
        BY <2>2, <3>1 DEF Submit, Goto, SubmissionsOK
      <3>4. SubmissionInv(i)'
        BY <3>3 DEF SubmissionInv, Holding
      <3> QED BY <3>2, <3>4, <1>1, SubmissionKept
    <2>3. ASSUME NEW v \in Versions, RouteLive(v)
          PROVE  SubmissionsOK' /\ \A j \in Submissions : SubmissionInv(j)'
      <3>1. UNCHANGED <<at, wants, got, seen>>
        BY <2>3 DEF RouteLive, apiLocal
      <3>2. SubmissionsOK' /\ \A j \in Submissions : SameSubmission(j)
        BY <3>1 DEF AdmissionInv, SubmissionsOK, SameSubmission
      <3> QED BY <3>2, <1>1, SubmissionKept
    <2> QED BY <2>1, <2>2, <2>3 DEF AdmissionNext
  <1> QED BY <1>1, <1>2 DEF AdmissionInv, TablesInv

(* The same holds if only the status of a Saga record changes. *)
LEMMA StatusStep ==
    ASSUME AdmissionInv, NEW c \in Checkouts, saga[c] # NoSaga, NEW s \in Statuses \ {"NONE"},
           saga' = [saga EXCEPT ![c].status = s],
           UNCHANGED <<live, admission, execution, apiLocal>>
    PROVE  AdmissionInv' /\ AdmissionForward
  <1>1. TablesInv' /\ AdmissionForward
    BY StatusTables
  <1>2. SubmissionsOK' /\ \A i \in Submissions : SameSubmission(i)
    BY DEF apiLocal, AdmissionInv, SubmissionsOK, SameSubmission
  <1> QED BY <1>1, <1>2, SubmissionKept DEF AdmissionInv, TablesInv

(* A submission gives a Saga record its status once, when it writes it.    *)
LEMMA StatusKept ==
    ASSUME AdmissionInv, AdmissionNext, NEW c \in Checkouts, saga[c] # NoSaga
    PROVE  saga'[c].status = saga[c].status
  <1>a. RecordsOK
    BY DEF AdmissionInv
  <1>1. ASSUME NEW i \in Submissions, Admit(i) PROVE saga'[c].status = saga[c].status
    <2> DEFINE d == CHOOSE e \in Checkouts : Unused(e)
    <2>1. CASE UNCHANGED saga
      BY <2>1
    <2>2. CASE admission[wants[i].key] = NoAdmission /\ saga' = [saga EXCEPT ![d].status = "ADMITTED"]
      <3>1. wants[i].key \in Keys
        BY <1>1 DEF AdmissionInv, SubmissionInv, Admit
      <3>2. d \in Checkouts /\ saga[d] = NoSaga
        BY <2>2, <3>1, CheckoutLeft DEF Unused, IsAdmitted
      <3> HIDE DEF d
      <3> QED BY <2>2, <3>2, <1>a DEF RecordsOK
    <2> QED BY <1>1, <2>1, <2>2 DEF Admit
  <1>2. ASSUME NEW i \in Submissions, MarkWorkflowStarted(i)
        PROVE  saga'[c].status = saga[c].status
    BY <1>2, <1>a DEF MarkWorkflowStarted, RecordsOK
  <1>3. CASE UNCHANGED saga
    BY <1>3
  <1> QED
    BY <1>1, <1>2, <1>3
       DEF AdmissionNext, Submit, SubmissionStep, Resubmit, ReadAdmission, ReadSaga,
           StartExecution, DescribeExecution, Accept, AdmitConflict, LoseSubmission, RouteLive

LEMMA FaultsKept ==
    ASSUME AdmissionInv, AdmissionNext, faults \in 0..MaxFaults
    PROVE  faults' \in 0..MaxFaults
  <1>1. faults' = faults \/ (faults < MaxFaults /\ faults' = faults + 1)
    BY DEF AdmissionNext, Submit, SubmissionStep, Resubmit, Admit, ReadAdmission, ReadSaga,
           StartExecution, DescribeExecution, MarkWorkflowStarted, Accept, AdmitConflict,
           LoseSubmission, RouteLive
  <1> QED BY <1>1, AdmissionConstants

LEMMA InvGivesTypes == AdmissionInv /\ faults \in 0..MaxFaults => AdmissionTypeOK
  BY DEF AdmissionInv, RecordsOK, SubmissionsOK, SubmissionPoints, Admissions, AdmissionTypeOK

LEMMA AdmissionStutter ==
    ASSUME AdmissionInv, UNCHANGED <<live, admission, saga, execution, apiLocal>>
    PROVE  AdmissionInv' /\ AdmissionForward
  <1>1. TablesInv' /\ AdmissionForward
    BY TablesSame DEF AdmissionInv, RecordsOK
  <1>2. SubmissionsOK' /\ \A i \in Submissions : SameSubmission(i)
    BY DEF apiLocal, AdmissionInv, SubmissionsOK, SameSubmission
  <1> QED BY <1>1, <1>2, SubmissionKept DEF AdmissionInv, TablesInv

-----------------------------------------------------------------------------
LEMMA AdmissionKept == AdmissionInv /\ [AdmissionNext]_admissionVars => AdmissionInv'
  BY AdmissionStep, AdmissionStutter DEF admissionVars

(* The ADMISSION and SAGA records, the executions and what every           *)
(* submission knows of them hold together in every reachable state.        *)
THEOREM AdmissionHolds == AdmissionSpec => []AdmissionInv
  BY AdmissionInit, AdmissionKept, PTL DEF AdmissionSpec

(* A checkout is executed only as it was admitted, under one key, with the *)
(* deadline fixed then, however its submissions race and come back.        *)
THEOREM ExecutedAsAdmitted == AdmissionSpec => []ExecutionsAreAdmitted
  BY AdmissionHolds, InvGivesProperties, PTL

(* A client whose checkout is accepted has it running on the version that  *)
(* is on record.                                                           *)
THEOREM AcceptedRuns == AdmissionSpec => []AcceptedIsRunning
  BY AdmissionHolds, InvGivesProperties, PTL
=============================================================================
