--------------------------- MODULE ActionLifecycle ---------------------------
(***************************************************************************)
(* What the incident-service promises about response actions, without      *)
(* requests, workers, database rows, crashes or Kubernetes calls: an       *)
(* action is drafted, one admin decides it, an approved action changes the *)
(* cluster at most once, and only one that did is shown as executed.       *)
(***************************************************************************)
EXTENDS Naturals, Sequences

CONSTANTS
    Admins,       \* the users who may decide
    Nobody        \* the decider of a draft

VARIABLES
    life,         \* status and decider of each action, in the order of drafting
    effects       \* the actions that changed the cluster, in that order

vars == <<life, effects>>

Init == life = <<>> /\ effects = <<>>

Draft ==
    /\ life' = Append(life, [status |-> "pending", by |-> Nobody])
    /\ UNCHANGED effects

Decide(a, status) ==
    /\ life[a].status = "pending"
    /\ \E u \in Admins : life' = [life EXCEPT ![a] = [status |-> status, by |-> u]]
    /\ UNCHANGED effects

Applied(a) == \E n \in DOMAIN effects : effects[n] = a

\* The one time at which an approved action changes the cluster.
Apply(a) ==
    /\ life[a].status = "approved" /\ ~Applied(a)
    /\ effects' = Append(effects, a)
    /\ UNCHANGED life

\* The outcome is stored.  An action whose answer was lost may be stored as
\* failed although it was applied; none is stored as executed that was not.
Resolve(a, status) ==
    /\ life[a].status = "approved"
    /\ status = "executed" => Applied(a)
    /\ life' = [life EXCEPT ![a].status = status]
    /\ UNCHANGED effects

Next ==
    \/ Draft
    \/ \E a \in DOMAIN life :
          \/ \E status \in {"approved", "rejected"} : Decide(a, status)
          \/ Apply(a)
          \/ \E status \in {"executed", "failed"} : Resolve(a, status)

Spec == Init /\ [][Next]_vars
=============================================================================
