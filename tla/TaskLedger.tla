----------------------------- MODULE TaskLedger -----------------------------
(***************************************************************************)
(* What a Task promises about its status, whoever calls it: it starts      *)
(* PENDING and moves along the edges of the transition table only.         *)
(* SUCCEEDED and CANCELLED have no edge, so they are final.                *)
(***************************************************************************)
EXTENDS TaskLifecycle

VARIABLE status

Init == status = "pending"

Next == status' \in AllowedTransitions[status]

Spec == Init /\ [][Next]_status
=============================================================================
