--------------------------- MODULE ReservationLedger ---------------------------
(***************************************************************************)
(* What the Inventory and the Fulfillment services promise their callers,  *)
(* without workers, requests or retries: an operation is decided once, at  *)
(* an instant, and its record never changes.  The operation that moves a   *)
(* reservation is recorded, and its fact written, in the same step; one    *)
(* that is refused is recorded with a status the reservation really had.   *)
(***************************************************************************)
EXTENDS Naturals

CONSTANTS
    Reservations,
    Ops,
    Finals    \* the statuses that end a reservation; neither "NONE" nor "RESERVED"

VARIABLES
    status,     \* of each reservation: "NONE", then "RESERVED", then one of Finals
    record,     \* what is recorded of each operation
    published   \* number of facts written, per reservation and status reached

vars == <<status, record, published>>

Moves == {"RESERVED"} \cup Finals
Undecided == [rid |-> "NONE", won |-> FALSE, names |-> "NONE"]
Won(r, s) == [rid |-> r, won |-> TRUE, names |-> s]
Refused(r, s) == [rid |-> r, won |-> FALSE, names |-> s]

Init ==
    /\ status = [r \in Reservations |-> "NONE"]
    /\ record = [o \in Ops |-> Undecided]
    /\ published = [r \in Reservations |-> [s \in Moves |-> 0]]

Follows(s, t) ==
    \/ s = "NONE" /\ t = "RESERVED"
    \/ s = "RESERVED" /\ t \in Finals

(* The statuses a reservation that is now in s has been in. *)
Passed(s) ==
    {"NONE"} \cup (IF s = "NONE" THEN {} ELSE {"RESERVED", s})

Decide(o, rec) == record[o] = Undecided /\ record' = [record EXCEPT ![o] = rec]

Move(o, r, t) ==
    /\ Follows(status[r], t)
    /\ Decide(o, Won(r, t))
    /\ status' = [status EXCEPT ![r] = t]
    /\ published' = [published EXCEPT ![r][t] = @ + 1]

Refuse(o, r, seen) ==
    /\ seen \in Passed(status[r])
    /\ Decide(o, Refused(r, seen))
    /\ UNCHANGED <<status, published>>

(* Every step decides an operation. *)
Next ==
    /\ record' # record
    /\ \E o \in Ops, r \in Reservations :
          \/ \E t \in Moves : Move(o, r, t)
          \/ \E seen \in Passed(status[r]) : Refuse(o, r, seen)

Spec == Init /\ [][Next]_vars
=============================================================================
