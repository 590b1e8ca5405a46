-------------------------------- MODULE MCSaga --------------------------------
(***************************************************************************)
(* Every replay is about the one checkout; one of two steps may be         *)
(* exhausted, the other rejected; and the elements of a run that may be    *)
(* exchanged for each other: all its properties are safety properties.     *)
(***************************************************************************)
EXTENDS Reconciliation, TLC

CONSTANTS x1, x2

ExhaustedOrRejected == {<<x1, 3>>, <<x2, 1>>}
OnlyCheckout == [o \in ReplayOps |-> CHOOSE c \in Checkouts : TRUE]

Interchangeable ==
    Permutations(Workers) \cup Permutations(ReplayOps) \cup Permutations(Versions)
=============================================================================
