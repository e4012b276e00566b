-------------------------- MODULE MCIncidentService --------------------------
(* Constants for model-checking IncidentService. *)
EXTENDS IncidentService, TLC

CONSTANTS i1, i2, p1, p2, admin, admin2, editor, w1, w2

\* One or two admins, and an editor whom the role gate keeps from deciding.
TokenRoles == [u \in Users |-> IF u = editor THEN "editor" ELSE "admin"]

\* The pipeline always sets tags; node_name may be empty.
NamedAlerts   == {ArrayColumns}
UnnamedAlerts == {ArrayColumns, {"tags"}}

WorkerSymmetry == Permutations(Workers)
=============================================================================
