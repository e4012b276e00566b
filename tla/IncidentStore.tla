---------------------------- MODULE IncidentStore ----------------------------
(***************************************************************************)
(* The PostgreSQL tables of the incident-service and the SQL statements    *)
(* the service runs on them.  A statement is atomic; everything a handler  *)
(* does between two statements can interleave with other handlers.         *)
(*                                                                         *)
(* Kept of a row: what decides control flow or what a property speaks of.  *)
(* Timestamps, counters, notes and JSON bodies are left out, and so is the *)
(* alerts table, which is written and never read.                          *)
(***************************************************************************)
EXTENDS Integers, Sequences, FiniteSets

CONSTANTS
    Incidents,    \* incident keys; a row's id and its key identify each other
    Users,        \* authenticated principals
    Nobody,       \* NULL in approved_by / rejected_by
    Pods,         \* pod names
    NoPod         \* NULL in pod_name; no pod holds the address

ASSUME StoreAssumption ==
    /\ Incidents # {}
    /\ Nobody \notin Users /\ NoPod \notin Pods

VARIABLES
    incidents,    \* table incidents
    actions,      \* table actions; the BIGSERIAL id is the index
    audit         \* table audit_log, as the set of <<event, target>> it holds

storeVars == <<incidents, actions, audit>>

\* severityRank: 0 unknown, 1 low, 2 medium, 3 high, 4 critical.
Severity == 0..4
High     == 3

RowStatus      == {"new", "ack", "resolved", "suppressed"}
IncidentStatus == RowStatus \cup {"absent"}

ActionTypes  == {"quarantine_pod", "delete_pod", "shutdown_pod"}
ActionStatus == {"pending", "approved", "rejected", "executed", "failed"}

\* The NOT NULL array columns that ON CONFLICT recomputes with array_agg.
ArrayColumns == {"nodes_observed", "tags"}

\* arrays: the array columns that hold at least one element.
IncidentRow == [status : IncidentStatus, severity : Severity,
                arrays : SUBSET ArrayColumns, pod : Pods \cup {NoPod}]

ActionRow == [incident : Incidents, type : ActionTypes,
              pod : Pods \cup {NoPod}, status : ActionStatus,
              decidedBy : Users \cup {Nobody}]

Events == {"incident.created", "incident.status", "action.auto_generated",
           "action.created", "action.follow_up_created",
           "action.approved", "action.rejected"}

ActionIds == 1..Len(actions)

StoreTypeOK ==
    /\ incidents \in [Incidents -> IncidentRow]
    /\ actions \in Seq(ActionRow)
    /\ audit \in SUBSET (Events \X (Incidents \cup Nat))

NoRow == [status |-> "absent", severity |-> 0, arrays |-> {}, pod |-> NoPod]

StoreInit ==
    /\ incidents = [i \in Incidents |-> NoRow]
    /\ actions = <<>>
    /\ audit = {}

-----------------------------------------------------------------------------
(***************************************************************************)
(* UpsertIncident.  array_agg over no elements is NULL, which the columns  *)
(* forbid, so a repeated alert fails when the row's arrays stay empty.     *)
(***************************************************************************)
RowExists(i) == incidents[i].status # "absent"

UpsertSucceeds(i, arrays) ==
    RowExists(i) => incidents[i].arrays \cup arrays = ArrayColumns

MaxSeverityLatest(old, new) == new

MaxSeverity(old, new) == IF new > old THEN new ELSE old

Upserted(i, severity, arrays) ==
    IF RowExists(i)
    THEN [incidents[i] EXCEPT !.severity = MaxSeverity(@, severity),
                              !.arrays   = @ \cup arrays]
    ELSE [status |-> "new", severity |-> severity,
          arrays |-> arrays, pod |-> NoPod]

UpsertIncident(i, severity, arrays) ==
    /\ UpsertSucceeds(i, arrays)
    /\ incidents' = [incidents EXCEPT ![i] = Upserted(i, severity, arrays)]

SetIncidentPodContext(i, pod) ==
    incidents' = [incidents EXCEPT ![i] = [@ EXCEPT !.pod = pod]]

\* The UPDATE of UpdateIncidentStatus: any status may follow any other.
UpdateIncidentStatus(i, status) ==
    incidents' = [incidents EXCEPT ![i] = [@ EXCEPT !.status = status]]

NewAction(i, type, pod) ==
    [incident |-> i, type |-> type, pod |-> pod,
     status |-> "pending", decidedBy |-> Nobody]

CreateAction(i, type, pod) == actions' = Append(actions, NewAction(i, type, pod))

\* ListActions("pending", limit): the newest pending actions.
PendingIds == {a \in ActionIds : actions[a].status = "pending"}

ListPending(limit) ==
    {a \in PendingIds : Cardinality({b \in PendingIds : b > a}) < limit}

DecidableAlways(a) == a \in ActionIds

Decidable(a) == a \in ActionIds /\ actions[a].status = "pending"

StatusVerbatim(decision) == decision

DecidedStatus(decision) ==
    IF decision = "approve" THEN "approved" ELSE "rejected"

\* UPDATE ... WHERE id = a AND status = 'pending'.
DecideAction(a, decision, user) ==
    /\ Decidable(a)
    /\ actions' = [actions EXCEPT ![a] = [@ EXCEPT
                      !.status = DecidedStatus(decision), !.decidedBy = user]]

\* UPDATE ... WHERE id = a, whatever the status is.
MarkActionExecuted(a, ok) ==
    actions' = [actions EXCEPT ![a] = [@ EXCEPT
                   !.status = IF ok THEN "executed" ELSE "failed"]]

AppendAudit(event, target) == audit' = audit \cup {<<event, target>>}
=============================================================================
