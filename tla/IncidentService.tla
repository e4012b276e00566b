--------------------------- MODULE IncidentService ---------------------------
(***************************************************************************)
(* The incident-service: the NATS subscriber (one callback at a time), the *)
(* REST handlers (one goroutine per request), the executor of approved     *)
(* actions, and the parts of the Kubernetes API they use.                  *)
(*                                                                         *)
(* A handler is a program counter between two calls to PostgreSQL or to    *)
(* the cluster.  Faults says what the environment may do: "crash" (the     *)
(* process dies and restarts), "disconnect" (the client gives up and its   *)
(* request context is cancelled: every later call of the request fails),   *)
(* "db" and "kube" (a call returns an error, before or after it took       *)
(* effect), "smtp", "nats" (the subscriber cannot connect at start-up),    *)
(* "churn" (pods come and go and addresses are reused).                    *)
(***************************************************************************)
EXTENDS IncidentStore

CONSTANTS
    Workers,       \* concurrent requests
    RoleOf,        \* [Users -> Roles], from the token map
    ApplyMode,     \* "apply" or "dryrun"
    Kinds,         \* the endpoints exercised
    Faults,        \* what may go wrong
    NewStatuses,   \* statuses that clients ask for
    Severities,    \* severities incoming alerts carry
    AlertArrays,   \* sets of array columns an incoming alert fills
    ListLimit,     \* the limit the subscriber gives ListActions (200)
    MaxAlerts,     \* bound: enriched alerts delivered
    MaxRequests    \* bound: requests served

\* "other" is any role name the permission ladder does not know.
RoleRank == [other |-> 0, viewer |-> 1, editor |-> 2, admin |-> 3]
Roles    == {"other", "viewer", "editor", "admin"}

Endpoints == {"status", "approve", "reject", "followup"}
FaultKinds == {"crash", "disconnect", "db", "kube", "smtp", "nats", "churn"}

ASSUME ServiceAssumption ==
    /\ RoleOf \in [Users -> Roles]
    /\ ApplyMode \in {"apply", "dryrun"}
    /\ Kinds \subseteq Endpoints
    /\ Faults \subseteq FaultKinds
    /\ NewStatuses \subseteq RowStatus
    /\ Severities \subseteq Severity
    /\ AlertArrays \subseteq SUBSET ArrayColumns

VARIABLES
    sub,          \* the subscriber's callback
    req,          \* [Workers -> Request], the handlers
    alerts,       \* alerts delivered (the bound's counter)
    requests,     \* requests started (the bound's counter)
    policy,       \* [Incidents -> Nat], resourceVersion of the NetworkPolicy
    holder,       \* [Incidents -> Pods], who holds the incident's source address
    labelled,     \* [Incidents -> SUBSET Pods], pods labelled for quarantine
    (* Observability variables. *)
    effects,      \* action ids in the order their effect reached the cluster
    mailed        \* incidents a notification was sent for

subVars     == <<sub, alerts, mailed>>
reqVars     == <<req, requests>>
clusterVars == <<policy, holder, labelled, effects>>
vars        == <<storeVars, subVars, reqVars, clusterVars>>

SubPc == {"idle", "created", "notify", "resolve", "list", "draft", "auditDraft",
          "exited"}

ReqPc == {"idle", "readIncident", "writeStatus", "rereadStatus", "auditStatus",
          "draft", "auditDraft", "decide", "label", "createPolicy", "getPolicy",
          "updatePolicy", "podOp", "mark", "auditApproved", "auditRejected",
          "readForFollowUp", "createFollowUp", "auditFollowUp"}

\* The pcs at which a handler owns an approved action that is being executed.
Executing == {"label", "createPolicy", "getPolicy", "updatePolicy", "podOp", "mark"}

IdleSub == [pc |-> "idle", inc |-> CHOOSE i \in Incidents : TRUE, severity |-> 0,
            act |-> 0]

IdleReq == [pc |-> "idle", kind |-> "status", user |-> Nobody,
            inc |-> CHOOSE i \in Incidents : TRUE, act |-> 0,
            want |-> "new", prev |-> NoRow, pod |-> NoPod,
            rv |-> 0, ok |-> FALSE, gone |-> FALSE]

Subscriber == [pc : SubPc, inc : Incidents, severity : Severity, act : Nat]

Request == [pc : ReqPc, kind : Endpoints \cup ActionTypes,
            user : Users \cup {Nobody}, inc : Incidents, act : Nat,
            want : IncidentStatus, prev : IncidentRow, pod : Pods \cup {NoPod},
            rv : Nat, ok : BOOLEAN, gone : BOOLEAN]

(* The types of the state: a row only ever holds a status, a severity and a  *)
(* decider that the schema and the handlers know.                            *)
TypeOK ==
    /\ StoreTypeOK
    /\ sub \in Subscriber
    /\ req \in [Workers -> Request]
    /\ alerts \in Nat
    /\ requests \in Nat
    /\ policy \in [Incidents -> Nat]
    /\ holder \in [Incidents -> Pods \cup {NoPod}]
    /\ labelled \in [Incidents -> SUBSET Pods]
    /\ effects \in Seq(Nat)
    /\ mailed \in SUBSET Incidents

Init ==
    /\ StoreInit
    /\ sub = IdleSub
    /\ req = [w \in Workers |-> IdleReq]
    /\ alerts = 0
    /\ requests = 0
    /\ policy = [i \in Incidents |-> 0]
    /\ holder \in [Incidents -> Pods]
    /\ labelled = [i \in Incidents |-> {}]
    /\ effects = <<>>
    /\ mailed = {}

-----------------------------------------------------------------------------
(***************************************************************************)
(* What a call can return.  The error of a statement that did commit needs *)
(* no case of its own in a request: it leaves the same tables as a success *)
(* followed by an error of the next call.                                  *)
(***************************************************************************)
Outcomes(fault) == IF fault \in Faults THEN BOOLEAN ELSE {TRUE}

Calls(w, fault) == IF req[w].gone THEN {FALSE} ELSE Outcomes(fault)

\* audit.Record: a failed insert is logged and forgotten.
RecordAudit(ok, event, target) ==
    IF ok THEN AppendAudit(event, target) ELSE UNCHANGED audit

-----------------------------------------------------------------------------
(***************************************************************************)
(* The subscriber callback.                                                *)
(***************************************************************************)
SubGoto(pc) == sub' = [sub EXCEPT !.pc = pc]

Receive ==
    /\ sub.pc = "idle"
    /\ alerts < MaxAlerts
    /\ alerts' = alerts + 1
    /\ UNCHANGED <<actions, audit, mailed>>

\* Bad payload, missing type or source, or a refused statement: dropped.
SubDrop == Receive /\ UNCHANGED <<incidents, sub>>

SubUpsertOnce(i, severity, arrays) ==
    /\ Receive
    /\ UpsertIncident(i, severity, arrays)
    /\ sub' = [pc |-> IF RowExists(i) THEN "idle" ELSE "created", inc |-> i,
               severity |-> incidents'[i].severity, act |-> 0]

SubUpsert(i, severity, arrays) ==
    /\ Receive
    /\ UpsertIncident(i, severity, arrays)
    /\ \E ok \in Outcomes("db") :
          sub' = IF ok THEN [pc |-> IF RowExists(i) THEN "list" ELSE "created",
                             inc |-> i, severity |-> incidents'[i].severity,
                             act |-> 0]
                       ELSE sub

SubAuditCreated ==
    /\ sub.pc = "created"
    /\ \E ok \in Outcomes("db") : RecordAudit(ok, "incident.created", sub.inc)
    /\ SubGoto("notify")
    /\ UNCHANGED <<incidents, actions, alerts, mailed>>

\* NotifyIncident blocks the callback; an SMTP error is logged.
SubNotify ==
    /\ sub.pc = "notify"
    /\ \E ok \in Outcomes("smtp") :
          mailed' = IF ok THEN mailed \cup {sub.inc} ELSE mailed
    /\ SubGoto("resolve")
    /\ UNCHANGED <<storeVars, alerts>>

\* LookupPodByIP, then SetIncidentPodContext when a pod was found.
SubResolve ==
    LET found == ApplyMode = "apply" /\ holder[sub.inc] # NoPod IN
    /\ sub.pc = "resolve"
    /\ \/ found /\ SetIncidentPodContext(sub.inc, holder[sub.inc])
       \/ /\ ~found \/ {"db", "kube"} \cap Faults # {}
          /\ UNCHANGED incidents
    /\ SubGoto("list")
    /\ UNCHANGED <<actions, audit, alerts, mailed>>

DraftMissingUnchecked(ok) == TRUE

\* No pending action of the incident among those listed; a failed list counts
\* as an empty one.
DraftMissing(ok) ==
    ok => \A a \in ListPending(ListLimit) : actions[a].incident # sub.inc

SubList ==
    /\ sub.pc = "list"
    /\ \E ok \in Outcomes("db") :
          SubGoto(IF sub.severity >= High /\ DraftMissing(ok)
                  THEN "draft" ELSE "idle")
    /\ UNCHANGED <<storeVars, alerts, mailed>>

SubDraft ==
    /\ sub.pc = "draft"
    /\ \/ /\ CreateAction(sub.inc, "quarantine_pod", NoPod)
          /\ sub' = [sub EXCEPT !.pc = "auditDraft", !.act = Len(actions) + 1]
       \/ /\ "db" \in Faults
          /\ SubGoto("idle")
          /\ UNCHANGED actions
    /\ UNCHANGED <<incidents, audit, alerts, mailed>>

SubAuditDraft ==
    /\ sub.pc = "auditDraft"
    /\ \E ok \in Outcomes("db") : RecordAudit(ok, "action.auto_generated", sub.act)
    /\ SubGoto("idle")
    /\ UNCHANGED <<incidents, actions, alerts, mailed>>

SubscriberStep ==
    /\ \/ SubAuditCreated \/ SubNotify \/ SubResolve
       \/ SubList \/ SubDraft \/ SubAuditDraft
    /\ UNCHANGED <<reqVars, clusterVars>>

SubscriberReceive ==
    /\ \/ SubDrop
       \/ \E i \in Incidents, severity \in Severities, arrays \in AlertArrays :
             SubUpsert(i, severity, arrays)
    /\ UNCHANGED <<reqVars, clusterVars>>

-----------------------------------------------------------------------------
(***************************************************************************)
(* REST handlers.  A request that the role gate refuses changes nothing.   *)
(***************************************************************************)
Goto(w, pc) == req' = [req EXCEPT ![w] = [@ EXCEPT !.pc = pc]]

Finish(w) == req' = [req EXCEPT ![w] = IdleReq]

AllowedAnyone(user, role) == TRUE

\* RequireRole: viewer < editor < admin.
Allowed(user, role) == RoleRank[RoleOf[user]] >= RoleRank[role]

Admit(w, user, role, request) ==
    /\ req[w].pc = "idle"
    /\ requests < MaxRequests
    /\ Allowed(user, role)
    /\ requests' = requests + 1
    /\ req' = [req EXCEPT ![w] = request]

StartStatus(w, user, i, want) ==
    /\ "status" \in Kinds
    /\ Admit(w, user, "editor",
             [IdleReq EXCEPT !.pc = "readIncident", !.user = user,
                             !.inc = i, !.want = want])

StartDecision(w, kind, user, a) ==
    /\ kind \in Kinds \cap {"approve", "reject"}
    /\ Admit(w, user, "admin",
             [IdleReq EXCEPT !.pc = "decide", !.kind = kind,
                             !.user = user, !.act = a])

StartFollowUp(w, user, i, type, pod) ==
    /\ "followup" \in Kinds
    /\ Admit(w, user, "admin",
             [IdleReq EXCEPT !.pc = "readForFollowUp", !.kind = type,
                             !.user = user, !.inc = i, !.pod = pod])

StartRequest(w) ==
    /\ \E user \in Users :
        \/ \E i \in Incidents, want \in NewStatuses : StartStatus(w, user, i, want)
        \/ \E kind \in {"approve", "reject"}, a \in ActionIds :
              StartDecision(w, kind, user, a)
        \/ \E i \in Incidents, type \in {"delete_pod", "shutdown_pod"}, pod \in Pods :
              StartFollowUp(w, user, i, type, pod)
    /\ UNCHANGED <<storeVars, subVars, clusterVars>>

(***************************************************************************)
(* PATCH /incidents/{id}/status.                                           *)
(***************************************************************************)
ReadIncident(w) ==
    /\ req[w].pc = "readIncident"
    /\ \E ok \in Calls(w, "db") :
          IF ok /\ RowExists(req[w].inc)
          THEN req' = [req EXCEPT ![w] = [@ EXCEPT !.pc = "writeStatus",
                                              !.prev = incidents[req[w].inc]]]
          ELSE Finish(w)
    /\ UNCHANGED storeVars

\* The UPDATE does not look at the status that was read.
WriteStatus(w) ==
    /\ req[w].pc = "writeStatus"
    /\ \E ok \in Calls(w, "db") :
          IF ok THEN /\ UpdateIncidentStatus(req[w].inc, req[w].want)
                     /\ Goto(w, "rereadStatus")
                ELSE Finish(w) /\ UNCHANGED incidents
    /\ UNCHANGED <<actions, audit>>

\* UpdateIncidentStatus returns the row it reads back, which another request
\* may have written in between.
RereadStatus(w) ==
    /\ req[w].pc = "rereadStatus"
    /\ \E ok \in Calls(w, "db") :
          IF ok THEN req' = [req EXCEPT ![w] =
                         [@ EXCEPT !.pc = "auditStatus",
                                   !.want = incidents[req[w].inc].status]]
                ELSE Finish(w)
    /\ UNCHANGED storeVars

AuditStatus(w) ==
    /\ req[w].pc = "auditStatus"
    /\ \E ok \in Calls(w, "db") : RecordAudit(ok, "incident.status", req[w].inc)
    /\ IF /\ req[w].prev.status = "new" /\ req[w].want = "ack"
          /\ req[w].prev.severity >= High
       THEN Goto(w, "draft") ELSE Finish(w)
    /\ UNCHANGED <<incidents, actions>>

\* CreateAction in a request; an error ends it.
Draft(w, type, pod, pc) ==
    /\ \E ok \in Calls(w, "db") :
          IF ok THEN /\ CreateAction(req[w].inc, type, pod)
                     /\ req' = [req EXCEPT ![w] =
                           [@ EXCEPT !.pc = pc, !.act = Len(actions) + 1]]
                ELSE Finish(w) /\ UNCHANGED actions
    /\ UNCHANGED <<incidents, audit>>

\* maybeCreateAction: no look at the drafts that exist.
DraftOnAck(w) ==
    /\ req[w].pc = "draft"
    /\ Draft(w, "quarantine_pod", NoPod, "auditDraft")

(***************************************************************************)
(* POST /incidents/{id}/follow-up-actions.                                 *)
(***************************************************************************)
ReadForFollowUp(w) ==
    /\ req[w].pc = "readForFollowUp"
    /\ \E ok \in Calls(w, "db") :
          IF ok /\ RowExists(req[w].inc) THEN Goto(w, "createFollowUp")
                                         ELSE Finish(w)
    /\ UNCHANGED storeVars

CreateFollowUp(w) ==
    /\ req[w].pc = "createFollowUp"
    /\ Draft(w, req[w].kind, req[w].pod, "auditFollowUp")

(***************************************************************************)
(* POST /actions/{id}/approve and /reject.                                 *)
(***************************************************************************)
NextAfterApproval(type) == IF type = "quarantine_pod" THEN "label" ELSE "podOp"

\* DecideAction, and the GetAction it ends with: when that read fails the
\* handler returns although the decision is stored.
Decide(w) ==
    LET a == req[w].act IN
    /\ req[w].pc = "decide"
    /\ \/ /\ TRUE \in Calls(w, "db")
          /\ DecideAction(a, req[w].kind, req[w].user)
          /\ \E ok \in Calls(w, "db") :
                IF ~ok THEN Finish(w)
                ELSE IF req[w].kind = "reject" THEN Goto(w, "auditRejected")
                ELSE req' = [req EXCEPT ![w] =
                         [@ EXCEPT !.pc  = NextAfterApproval(actions[a].type),
                                   !.inc = actions[a].incident,
                                   !.pod = actions[a].pod]]
       \/ /\ FALSE \in Calls(w, "db") \/ ~Decidable(a)
          /\ Finish(w) /\ UNCHANGED actions
    /\ UNCHANGED <<incidents, audit>>

MarkAlwaysExecuted(w) ==
    /\ req[w].pc = "mark"
    /\ MarkActionExecuted(req[w].act, TRUE)
    /\ Goto(w, "auditApproved")
    /\ UNCHANGED <<incidents, audit>>

MarkSwallowed(w) ==
    /\ req[w].pc = "mark"
    /\ Finish(w)
    /\ UNCHANGED storeVars

\* A failed update ends the request with 500, before the audit entry.
Mark(w) ==
    /\ req[w].pc = "mark"
    /\ \E ok \in Calls(w, "db") :
          IF ok THEN /\ MarkActionExecuted(req[w].act, req[w].ok)
                     /\ Goto(w, "auditApproved")
                ELSE Finish(w) /\ UNCHANGED actions
    /\ UNCHANGED <<incidents, audit>>

\* The last call of a handler: one audit entry, whatever becomes of it.
AuditLast(w, pc, event) ==
    /\ req[w].pc = pc
    /\ \E ok \in Calls(w, "db") : RecordAudit(ok, event, req[w].act)
    /\ Finish(w)
    /\ UNCHANGED <<incidents, actions>>

AuditSteps(w) ==
    \/ AuditLast(w, "auditDraft", "action.created")
    \/ AuditLast(w, "auditApproved", "action.approved")
    \/ AuditLast(w, "auditRejected", "action.rejected")
    \/ AuditLast(w, "auditFollowUp", "action.follow_up_created")

StoreStep(w) ==
    /\ \/ ReadIncident(w) \/ WriteStatus(w) \/ RereadStatus(w)
       \/ AuditStatus(w) \/ DraftOnAck(w)
       \/ ReadForFollowUp(w) \/ CreateFollowUp(w)
       \/ Decide(w) \/ Mark(w) \/ AuditSteps(w)
    /\ UNCHANGED clusterVars

(***************************************************************************)
(* executeAction: what an approved action does to the cluster.             *)
(***************************************************************************)

\* Its result, to be stored by MarkActionExecuted.
Return(w, ok) == req' = [req EXCEPT ![w] = [@ EXCEPT !.pc = "mark", !.ok = ok]]

\* A write: it takes effect (did) and its caller is told so (ok).  A write whose
\* answer is lost has been done.  DryRunApplier ignores the request's context.
Writes(w) ==
    LET cancelled == req[w].gone /\ ApplyMode = "apply" IN
    {o \in [did : BOOLEAN, ok : IF cancelled THEN {FALSE} ELSE Outcomes("kube")] :
        IF o.ok THEN o.did ELSE o.did => ~cancelled}

\* The effect of the request's action reaches the cluster.
Effect(w, did) == effects' = IF did THEN Append(effects, req[w].act) ELSE effects

\* QuarantinePodByIP: whichever pod holds the address now; failure is logged.
Label(w) ==
    LET i == req[w].inc IN
    /\ req[w].pc = "label"
    /\ \/ /\ ApplyMode = "apply" /\ holder[i] # NoPod
          /\ TRUE \in Calls(w, "kube")
          /\ labelled' = [labelled EXCEPT ![i] = @ \cup {holder[i]}]
       \/ /\ \/ ApplyMode = "dryrun" \/ holder[i] = NoPod
             \/ FALSE \in Calls(w, "kube") \cup Calls(w, "db")
          /\ UNCHANGED labelled
    /\ Goto(w, "createPolicy")
    /\ UNCHANGED <<policy, holder, effects>>

\* DryRunApplier writes a file; K8sApiApplier creates the NetworkPolicy, and
\* goes on to update it when it exists.
CreatePolicy(w) ==
    LET i == req[w].inc IN
    /\ req[w].pc = "createPolicy"
    /\ IF ApplyMode = "apply" /\ policy[i] > 0
       THEN /\ \E ok \in Calls(w, "kube") :
                  IF ok THEN Goto(w, "getPolicy") ELSE Return(w, FALSE)
            /\ UNCHANGED <<policy, effects>>
       ELSE \E o \in Writes(w) :
               /\ Effect(w, o.did)
               /\ policy' = IF o.did /\ ApplyMode = "apply"
                            THEN [policy EXCEPT ![i] = 1] ELSE policy
               /\ Return(w, o.ok)
    /\ UNCHANGED <<holder, labelled>>

GetPolicy(w) ==
    /\ req[w].pc = "getPolicy"
    /\ \E ok \in Calls(w, "kube") :
          IF ok THEN req' = [req EXCEPT ![w] = [@ EXCEPT !.pc = "updatePolicy",
                                                    !.rv = policy[req[w].inc]]]
                ELSE Return(w, FALSE)
    /\ UNCHANGED clusterVars

RefusedGivesUp(w) == Finish(w)

RefusedIsDone(w) == Return(w, TRUE)

\* An update the API server refuses because it carries an old resourceVersion:
\* its error is executeAction's, and nobody tries again.
RefusedUpdate(w) == Return(w, FALSE)

UpdatePolicy(w) ==
    LET i == req[w].inc IN
    /\ req[w].pc = "updatePolicy"
    /\ \E o \in Writes(w) :
          IF req[w].rv = policy[i]
          THEN /\ policy' = IF o.did THEN [policy EXCEPT ![i] = @ + 1] ELSE policy
               /\ Effect(w, o.did)
               /\ Return(w, o.ok)
          ELSE RefusedUpdate(w) /\ UNCHANGED <<policy, effects>>
    /\ UNCHANGED <<holder, labelled>>

PodRuns(pod) == \E i \in Incidents : holder[i] = pod

\* DeletePod removes the pod at once; ShutdownPod labels it and lets it go
\* after its grace period.  Both fail for a pod that is not there, and in
\* dryrun mode.
PodOp(w) ==
    LET pod == req[w].pod IN
    /\ req[w].pc = "podOp"
    /\ \E o \in Writes(w) :
          IF ApplyMode = "apply" /\ PodRuns(pod)
          THEN /\ Effect(w, o.did)
               /\ \E gone \in IF actions[req[w].act].type = "delete_pod"
                              THEN {TRUE} ELSE BOOLEAN :
                     holder' = [i \in Incidents |->
                        IF o.did /\ gone /\ holder[i] = pod THEN NoPod ELSE holder[i]]
               /\ Return(w, o.ok)
          ELSE Return(w, FALSE) /\ UNCHANGED <<holder, effects>>
    /\ UNCHANGED <<policy, labelled>>

ClusterStep(w) ==
    /\ \/ Label(w) \/ CreatePolicy(w) \/ GetPolicy(w) \/ UpdatePolicy(w) \/ PodOp(w)
    /\ UNCHANGED storeVars

HandlerStep(w) ==
    /\ StoreStep(w) \/ ClusterStep(w)
    /\ UNCHANGED <<requests, subVars>>

-----------------------------------------------------------------------------
(***************************************************************************)
(* The environment.                                                        *)
(***************************************************************************)

\* The client goes away (the console gives up after 5 s): the request context
\* is cancelled and the handler's later calls fail.
Disconnect(w) ==
    /\ "disconnect" \in Faults
    /\ req[w].pc # "idle" /\ ~req[w].gone
    /\ req' = [req EXCEPT ![w] = [@ EXCEPT !.gone = TRUE]]
    /\ UNCHANGED <<storeVars, subVars, requests, clusterVars>>

\* The process dies and starts again; tables and cluster stay.  A subscriber
\* that cannot connect to NATS when the process starts is gone for good.
Crash ==
    /\ "crash" \in Faults
    /\ sub.pc # "idle" \/ \E w \in Workers : req[w].pc # "idle"
    /\ \/ sub' = IdleSub
       \/ "nats" \in Faults /\ sub' = [IdleSub EXCEPT !.pc = "exited"]
    /\ req' = [w \in Workers |-> IdleReq]
    /\ UNCHANGED <<storeVars, alerts, mailed, requests, clusterVars>>

\* The pod that holds a source address is replaced.
Churn(i) ==
    /\ "churn" \in Faults
    /\ \E pod \in (Pods \cup {NoPod}) \ {holder[i]} :
          holder' = [holder EXCEPT ![i] = pod]
    /\ UNCHANGED <<storeVars, subVars, reqVars, policy, labelled, effects>>

Next ==
    \/ SubscriberReceive
    \/ SubscriberStep
    \/ \E w \in Workers : StartRequest(w)
    \/ \E w \in Workers : HandlerStep(w)
    \/ \E w \in Workers : Disconnect(w)
    \/ Crash
    \/ \E i \in Incidents : Churn(i)

Spec == Init /\ [][Next]_vars

(***************************************************************************)
(* Goroutines keep running: a handler that has started takes its next      *)
(* step, and so does the subscriber's callback.  Nothing obliges clients   *)
(* to send requests or alerts to arrive.                                   *)
(***************************************************************************)
Fairness ==
    /\ WF_vars(SubscriberStep)
    /\ \A w \in Workers : WF_vars(HandlerStep(w))

FairSpec == Spec /\ Fairness
-----------------------------------------------------------------------------
(***************************************************************************)
(* Properties.                                                             *)
(***************************************************************************)

\* Steps of an action's life that DecideAction and MarkActionExecuted allow.
Lifecycle ==
    {<<"pending", "approved">>, <<"pending", "rejected">>,
     <<"approved", "executed">>, <<"approved", "failed">>}

(* An action is decided at most once: its status only moves forward along   *)
(* pending -> rejected or pending -> approved -> executed or failed, and    *)
(* who decided it never changes, however many admins answer it at the same  *)
(* time and although MarkActionExecuted's UPDATE has no status condition.   *)
DecisionIsFinal ==
    [][\A a \in ActionIds :
          LET old == actions[a]
              new == actions'[a] IN
          /\ old.status # new.status => <<old.status, new.status>> \in Lifecycle
          /\ old.status # "pending" => new.decidedBy = old.decidedBy]_vars

\* The effect of action a has reached the cluster.
Applied(a) == \E n \in DOMAIN effects : effects[n] = a

(* An approved action is executed by one request only: the one whose        *)
(* DecideAction found it pending.  Until that request stores the outcome    *)
(* the action stays approved, it has no effect before executeAction         *)
(* returns, and executeAction reports success only for an effect it had.    *)
OneExecutor ==
    /\ \A w \in Workers : req[w].pc \in Executing =>
          /\ req[w].act \in ActionIds
          /\ actions[req[w].act].status = "approved"
          /\ Applied(req[w].act) => req[w].pc = "mark"
          /\ req[w].pc = "mark" /\ req[w].ok => Applied(req[w].act)
    /\ \A v, w \in Workers :
          req[v].pc \in Executing /\ req[w].pc \in Executing
              /\ req[v].act = req[w].act => v = w

(* Whatever executeAction does to the cluster was approved by an admin, and *)
(* one approval changes the cluster at most once: no second worker, retry   *)
(* or restart repeats it, and a rejected action never reaches the cluster.  *)
EffectsAreApproved ==
    /\ \A m, n \in DOMAIN effects : effects[m] = effects[n] => m = n
    /\ \A n \in DOMAIN effects :
          /\ effects[n] \in ActionIds
          /\ actions[effects[n]].status \in {"approved", "executed", "failed"}
          /\ RoleOf[actions[effects[n]].decidedBy] = "admin"

(* An action shown as executed did change the cluster; a quarantine also    *)
(* left its incident with a NetworkPolicy (in apply mode).                  *)
ExecutedMeansApplied ==
    \A a \in ActionIds : actions[a].status = "executed" =>
        /\ Applied(a)
        /\ actions[a].type = "quarantine_pod" /\ ApplyMode = "apply" =>
              policy[actions[a].incident] > 0

\* Status and decider of each action; the rest of its row does not matter here.
LifeOf == [a \in ActionIds |-> [status |-> actions[a].status, by |-> actions[a].decidedBy]]

Promise == INSTANCE ActionLifecycle WITH
               Admins <- {u \in Users : RoleOf[u] = "admin"}, life <- LifeOf

(* Handlers, database and cluster together implement the life of an action: *)
(* every step of workers, subscriber, crash, cancelled request or lost      *)
(* answer is one step of that life or does not touch it, so decision,       *)
(* effect and stored outcome of an action come in this order, once each.    *)
ImplementsLifecycle == Promise!Spec

(* While analysts only decide actions, an incident has at most one draft    *)
(* waiting: the subscriber's look at the pending actions is enough against  *)
(* crashes in the middle of a callback and decisions taken meanwhile.       *)
OnePendingDraft ==
    \A a, b \in PendingIds : actions[a].incident = actions[b].incident => a = b

(* subscriber.go:131: an action is generated only when none of the incident *)
(* is pending at that time.                                                 *)
DraftsOnlyWhenNonePending ==
    [][sub.pc = "draft" /\ sub'.pc = "auditDraft" =>
          \A a \in PendingIds : actions[a].incident # sub.inc]_vars

\* No handler is between two calls.
Quiet == sub.pc \in {"idle", "exited"} /\ \A w \in Workers : req[w].pc = "idle"

Audited(event, target) == <<event, target>> \in audit

DecisionEvent == [approved |-> "action.approved", executed |-> "action.approved",
                  failed |-> "action.approved", rejected |-> "action.rejected"]

DraftEvents == {"action.auto_generated", "action.created", "action.follow_up_created"}

(* ch-implementation.tex:624-626: the creation of an incident, a change of  *)
(* its status and the drafting, approval or rejection of an action are all  *)
(* in the audit log (observed when no handler is between two calls).        *)
ChangesAreAudited ==
    Quiet =>
        /\ \A i \in Incidents :
              /\ RowExists(i) => Audited("incident.created", i)
              /\ incidents[i].status \notin {"absent", "new"} =>
                    Audited("incident.status", i)
        /\ \A a \in ActionIds :
              /\ \E event \in DraftEvents : Audited(event, a)
              /\ actions[a].status # "pending" =>
                    Audited(DecisionEvent[actions[a].status], a)

(* The severity of an incident never falls while alerts of lower severity   *)
(* keep arriving for it, and its row never disappears: a draft that was     *)
(* justified once stays justified.                                          *)
SeverityNeverDrops ==
    [][\A i \in Incidents :
          /\ incidents'[i].severity >= incidents[i].severity
          /\ RowExists(i) => incidents'[i].status # "absent"]_vars

(* Approved actions are eventually executed or failed: as long as process,  *)
(* database and client stay up, no interleaving of handlers leaves one in   *)
(* between, not even two approvals that update one NetworkPolicy and of     *)
(* which the API server refuses one.  (Every behaviour has finitely many    *)
(* actions, so that none is in between in the end.)                         *)
ApprovalResolves == []<>(\A a \in ActionIds : actions[a].status # "approved")

(* An incident of high or critical severity eventually has an action to     *)
(* decide on, also when its severity was raised by a later alert.           *)
HighSeverityGetsAction ==
    \A i \in Incidents :
        incidents[i].severity >= High ~> \E a \in ActionIds : actions[a].incident = i
=============================================================================
