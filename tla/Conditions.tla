------------------------------ MODULE Conditions ------------------------------
(***************************************************************************)
(* The conditions of a status (pkg/status/conditions.go).  The list holds  *)
(* at most one condition per type and is sorted by type when it is written *)
(* (MarshalJSON): a function from the types present to their conditions.   *)
(* A condition is the status and the reason, of which the message is a     *)
(* copy; LastTransitionTime moves when the status does, which is also a    *)
(* change of the condition.                                                *)
(***************************************************************************)

\* No condition of any type.
NoConditions == [t \in {} |-> ""]

Condition(status, reason) == [status |-> status, reason |-> reason]

\* Adds the condition of type t or replaces the one there is.
SetCondition(conds, t, c) ==
    [u \in DOMAIN conds \cup {t} |-> IF u = t THEN c ELSE conds[u]]
===============================================================================
