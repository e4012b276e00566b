------------------------ MODULE IncidentServiceProofs ------------------------
(***************************************************************************)
(* Proofs about IncidentService, for any number of incidents, users, pods  *)
(* and concurrent requests, and under every combination of faults: its     *)
(* types, the decisions on response actions, and that it implements        *)
(* ActionLifecycle.                                                        *)
(***************************************************************************)
EXTENDS IncidentService, SequenceTheorems, TLAPS

FollowUpTypes == {"delete_pod", "shutdown_pod"}

\* What a request carries from one call to the next is what its next call needs.
RequestOK(r) ==
    /\ r.pc \in {"readForFollowUp", "createFollowUp"} => r.kind \in FollowUpTypes
    /\ r.pc \in Executing => r.act \in ActionIds

RequestsOK == \A w \in Workers : RequestOK(req[w])

TypeInv == TypeOK /\ RequestsOK

USE DEF RowStatus, IncidentStatus, ActionTypes, ActionStatus

\* The records that handlers start from have their types.
LEMMA IdleTypes == IdleSub \in Subscriber /\ IdleReq \in Request /\ NoRow \in IncidentRow
<1>1. (CHOOSE i \in Incidents : TRUE) \in Incidents
  BY StoreAssumption
<1>2. NoRow \in IncidentRow
  BY DEF NoRow, IncidentRow, Severity
<1> QED
  BY <1>1, <1>2 DEF IdleSub, IdleReq, Subscriber, Request, SubPc, ReqPc, Severity,
     Endpoints

\* A new action is appended; the others keep their rows.
LEMMA CreateFacts ==
    ASSUME actions \in Seq(ActionRow), NEW i \in Incidents, NEW type \in ActionTypes,
           NEW pod \in Pods \cup {NoPod}, CreateAction(i, type, pod)
    PROVE  /\ actions' \in Seq(ActionRow)
           /\ Len(actions') = Len(actions) + 1
           /\ \A a \in ActionIds : actions'[a] = actions[a]
           /\ actions'[Len(actions) + 1] = NewAction(i, type, pod)
<1>1. NewAction(i, type, pod) \in ActionRow
  BY DEF NewAction, ActionRow
<1> QED
  BY <1>1, AppendProperties DEF CreateAction, ActionIds

\* DecideAction writes one pending row.
LEMMA DecideFacts ==
    ASSUME actions \in Seq(ActionRow), NEW a, NEW decision, NEW user \in Users \cup {Nobody},
           DecideAction(a, decision, user)
    PROVE  /\ a \in ActionIds
           /\ actions[a].status = "pending"
           /\ actions' \in Seq(ActionRow)
           /\ Len(actions') = Len(actions)
           /\ \A b \in ActionIds : b # a => actions'[b] = actions[b]
           /\ actions'[a].status = DecidedStatus(decision)
           /\ actions'[a].decidedBy = user
           /\ actions'[a].type = actions[a].type
           /\ actions'[a].incident = actions[a].incident
<1>1. a \in ActionIds /\ actions[a].status = "pending"
  BY DEF DecideAction, Decidable
<1> DEFINE row == [actions[a] EXCEPT !.status = DecidedStatus(decision),
                                     !.decidedBy = user]
<1>2. actions[a] \in ActionRow
  BY <1>1 DEF ActionIds
<1>3. row \in ActionRow
  BY <1>2 DEF ActionRow, DecidedStatus
<1>4. actions' = [actions EXCEPT ![a] = row]
  BY DEF DecideAction
<1> HIDE DEF row
<1>5. a \in 1..Len(actions)
  BY <1>1 DEF ActionIds
<1>6. /\ actions' \in Seq(ActionRow)
      /\ Len(actions') = Len(actions)
      /\ \A b \in 1..Len(actions) : actions'[b] = IF b = a THEN row ELSE actions[b]
  BY <1>3, <1>4, <1>5, ExceptSeq
<1>7. actions'[a] = row
  BY <1>5, <1>6
<1>8. /\ row.status = DecidedStatus(decision) /\ row.decidedBy = user
      /\ row.type = actions[a].type /\ row.incident = actions[a].incident
  BY <1>2 DEF ActionRow, row
<1> QED
  BY <1>1, <1>5, <1>6, <1>7, <1>8 DEF ActionIds

\* MarkActionExecuted writes one row and keeps who decided it.
LEMMA MarkFacts ==
    ASSUME actions \in Seq(ActionRow), NEW a \in ActionIds, NEW ok \in BOOLEAN,
           MarkActionExecuted(a, ok)
    PROVE  /\ actions' \in Seq(ActionRow)
           /\ Len(actions') = Len(actions)
           /\ \A b \in ActionIds : b # a => actions'[b] = actions[b]
           /\ actions'[a] = [actions[a] EXCEPT
                                !.status = IF ok THEN "executed" ELSE "failed"]
<1> DEFINE row == [actions[a] EXCEPT !.status = IF ok THEN "executed" ELSE "failed"]
<1>2. actions[a] \in ActionRow
  BY DEF ActionIds
<1>3. row \in ActionRow
  BY <1>2 DEF ActionRow
<1>4. actions' = [actions EXCEPT ![a] = row]
  BY DEF MarkActionExecuted
<1> HIDE DEF row
<1> QED
  BY <1>3, <1>4, ExceptSeq DEF ActionIds, row

\* A call returns a Boolean.
LEMMA CallTypes ==
    ASSUME req \in [Workers -> Request], NEW w \in Workers
    PROVE  /\ \A f : Outcomes(f) \subseteq BOOLEAN /\ Calls(w, f) \subseteq BOOLEAN
           /\ Writes(w) \subseteq [did : BOOLEAN, ok : BOOLEAN]
BY DEF Outcomes, Calls, Writes

(***************************************************************************)
(* A step that writes one request, with its part of the invariant.         *)
(***************************************************************************)
LEMMA OneRequest ==
    ASSUME TypeInv, actions' \in Seq(ActionRow), Len(actions) <= Len(actions'),
           NEW w \in Workers, NEW r \in Request, req' = [req EXCEPT ![w] = r],
           r.pc \in {"readForFollowUp", "createFollowUp"} => r.kind \in FollowUpTypes,
           r.pc \in Executing => r.act \in 1..Len(actions')
    PROVE  req' \in [Workers -> Request] /\ RequestsOK'
<1>1. req' \in [Workers -> Request]
  BY DEF TypeInv, TypeOK
<1>2. Len(actions) \in Nat /\ Len(actions') \in Nat
  BY LenProperties DEF TypeInv, TypeOK, StoreTypeOK
<1>3. ASSUME NEW v \in Workers PROVE RequestOK(req[v])'
  <2>1. CASE v = w
    <3>1. req'[v] = r
      BY <2>1 DEF TypeInv, TypeOK
    <3> QED BY <3>1 DEF RequestOK, ActionIds
  <2>2. CASE v # w
    <3>1. req'[v] = req[v] /\ RequestOK(req[v])
      BY <2>2 DEF TypeInv, TypeOK, RequestsOK
    <3> QED BY <3>1, <1>2 DEF RequestOK, ActionIds
  <2> QED BY <2>1, <2>2
<1> QED BY <1>1, <1>3 DEF RequestsOK

\* Outside executeAction and the follow-up handler nothing more is needed.
Plain(pc) == pc \notin Executing \cup {"readForFollowUp", "createFollowUp"}

\* A request at a call that relies on nothing keeps the invariant of requests.
LEMMA PlainRequest ==
    ASSUME TypeInv, actions' \in Seq(ActionRow), Len(actions) <= Len(actions'),
           NEW w \in Workers, NEW r \in Request, req' = [req EXCEPT ![w] = r],
           Plain(r.pc)
    PROVE  req' \in [Workers -> Request] /\ RequestsOK'
<1>1. r.pc \notin {"readForFollowUp", "createFollowUp"} /\ r.pc \notin Executing
  BY DEF Plain
<1> QED BY <1>1, OneRequest

\* The calls that rely on nothing about their request.
LEMMA PlainPcs ==
    \A pc \in {"idle", "writeStatus", "rereadStatus", "auditStatus", "draft",
               "auditDraft", "decide", "auditApproved", "auditRejected",
               "auditFollowUp", "readIncident"} : Plain(pc) /\ pc \in ReqPc
BY DEF Plain, Executing, ReqPc

\* The requests a handler can turn its own into.
LEMMA RequestForms ==
    ASSUME TypeInv, NEW w \in Workers
    PROVE  /\ req[w] \in Request
           /\ \A pc \in ReqPc : [req[w] EXCEPT !.pc = pc] \in Request
           /\ \A pc \in ReqPc, row \in IncidentRow :
                 [req[w] EXCEPT !.pc = pc, !.prev = row] \in Request
           /\ \A pc \in ReqPc, status \in IncidentStatus :
                 [req[w] EXCEPT !.pc = pc, !.want = status] \in Request
           /\ \A pc \in ReqPc, a \in Nat :
                 [req[w] EXCEPT !.pc = pc, !.act = a] \in Request
           /\ \A pc \in ReqPc, i \in Incidents, pod \in Pods \cup {NoPod} :
                 [req[w] EXCEPT !.pc = pc, !.inc = i, !.pod = pod] \in Request
           /\ \A pc \in ReqPc, ok \in BOOLEAN :
                 [req[w] EXCEPT !.pc = pc, !.ok = ok] \in Request
           /\ \A pc \in ReqPc, rv \in Nat :
                 [req[w] EXCEPT !.pc = pc, !.rv = rv] \in Request
           /\ [req[w] EXCEPT !.gone = TRUE] \in Request
<1>1. req[w] \in Request
  BY DEF TypeInv, TypeOK
<1> QED BY <1>1, ZenonT(60) DEF Request

\* The ways a handler ends, goes on, or returns from executeAction.
MayGoto(w, pc) ==
    \/ Plain(pc)
    \/ req[w].pc \in Executing /\ pc \in Executing
    \/ req[w].pc = "readForFollowUp" /\ pc = "createFollowUp"

\* A handler that moves on to its next call keeps the invariant of requests.
LEMMA GotoType ==
    ASSUME TypeInv, UNCHANGED actions, NEW w \in Workers, NEW pc \in ReqPc,
           MayGoto(w, pc), Goto(w, pc)
    PROVE  req' \in [Workers -> Request] /\ RequestsOK'
<1> DEFINE r == [req[w] EXCEPT !.pc = pc]
<1>1. r \in Request
  BY RequestForms
<1>2. req[w] \in Request /\ RequestOK(req[w])
  BY DEF TypeInv, TypeOK, RequestsOK
<1>3. r.pc = pc /\ r.kind = req[w].kind /\ r.act = req[w].act
  BY <1>2 DEF Request
<1>4. req' = [req EXCEPT ![w] = r]
  BY DEF Goto
<1>5. actions' \in Seq(ActionRow) /\ Len(actions) <= Len(actions')
  BY LenProperties DEF TypeInv, TypeOK, StoreTypeOK
<1>6. r.pc \in {"readForFollowUp", "createFollowUp"} => r.kind \in FollowUpTypes
  BY <1>2, <1>3 DEF RequestOK, Executing, MayGoto, Plain
<1>7. r.pc \in Executing => r.act \in 1..Len(actions')
  BY <1>2, <1>3 DEF RequestOK, Executing, ActionIds, MayGoto, Plain
<1> HIDE DEF r
<1> QED BY <1>1, <1>4, <1>5, <1>6, <1>7, OneRequest

\* The same for a next call that relies on nothing.
LEMMA PlainGoto ==
    ASSUME TypeInv, UNCHANGED actions, NEW w \in Workers,
           Goto(w, "rereadStatus") \/ Goto(w, "draft")
    PROVE  req' \in [Workers -> Request] /\ RequestsOK'
<1>1. MayGoto(w, "rereadStatus") /\ MayGoto(w, "draft")
  BY PlainPcs DEF MayGoto
<1>2. "rereadStatus" \in ReqPc /\ "draft" \in ReqPc
  BY PlainPcs
<1> QED BY <1>1, <1>2, GotoType

\* A handler that answers its request keeps the invariant of requests.
LEMMA FinishType ==
    ASSUME TypeInv, actions' \in Seq(ActionRow), Len(actions) <= Len(actions'),
           NEW w \in Workers, Finish(w)
    PROVE  req' \in [Workers -> Request] /\ RequestsOK'
<1>1. IdleReq \in Request /\ IdleReq.pc = "idle"
  BY IdleTypes DEF IdleReq
<1> QED BY <1>1, OneRequest DEF Finish, Executing

\* A handler that records the outcome of its apply keeps the invariant.
LEMMA ReturnType ==
    ASSUME TypeInv, UNCHANGED actions, NEW w \in Workers, NEW ok \in BOOLEAN,
           req[w].pc \in Executing, Return(w, ok)
    PROVE  req' \in [Workers -> Request] /\ RequestsOK'
<1> DEFINE r == [req[w] EXCEPT !.pc = "mark", !.ok = ok]
<1>1. r \in Request
  BY RequestForms DEF ReqPc
<1>2. req[w] \in Request /\ RequestOK(req[w])
  BY DEF TypeInv, TypeOK, RequestsOK
<1>3. r.pc = "mark" /\ r.act = req[w].act
  BY <1>2 DEF Request
<1>4. req' = [req EXCEPT ![w] = r]
  BY DEF Return
<1>5. actions' \in Seq(ActionRow) /\ Len(actions) <= Len(actions')
  BY LenProperties DEF TypeInv, TypeOK, StoreTypeOK
<1>7. r.pc \in Executing => r.act \in 1..Len(actions')
  BY <1>2, <1>3 DEF RequestOK, ActionIds
<1> HIDE DEF r
<1> QED BY <1>1, <1>3, <1>4, <1>5, <1>7, OneRequest

\* The tables and the requests after a call of a handler to PostgreSQL.
LEMMA StoreStepType ==
    ASSUME TypeInv, NEW w \in Workers, StoreStep(w)
    PROVE  StoreTypeOK' /\ req' \in [Workers -> Request] /\ RequestsOK'
<1> USE DEF StoreTypeOK
<1>0. /\ incidents \in [Incidents -> IncidentRow] /\ actions \in Seq(ActionRow)
      /\ audit \in SUBSET (Events \X (Incidents \cup Nat))
  BY DEF TypeInv, TypeOK
<1>1. req[w] \in Request /\ RequestOK(req[w])
  BY DEF TypeInv, TypeOK, RequestsOK
<1>2. /\ req[w].inc \in Incidents /\ req[w].act \in Nat
      /\ req[w].user \in Users \cup {Nobody}
      /\ req[w].want \in IncidentStatus
      /\ req[w].pod \in Pods \cup {NoPod}
      /\ req[w].ok \in BOOLEAN
  BY <1>1 DEF Request
<1>3. incidents[req[w].inc] \in IncidentRow
  BY <1>0, <1>2
<1>4. Len(actions) \in Nat
  BY <1>0, LenProperties
<1>5. ASSUME UNCHANGED actions, Finish(w)
      PROVE  req' \in [Workers -> Request] /\ RequestsOK'
  BY <1>0, <1>4, <1>5, FinishType
<1>6. ASSUME NEW ok, NEW event \in Events, NEW target \in Incidents \cup Nat,
             RecordAudit(ok, event, target)
      PROVE  audit' \in SUBSET (Events \X (Incidents \cup Nat))
  BY <1>0, <1>6 DEF RecordAudit, AppendAudit
<1>7. ASSUME NEW type \in ActionTypes, NEW pod \in Pods \cup {NoPod},
             NEW pc \in ReqPc, Plain(pc),
             Draft(w, type, pod, pc)
      PROVE  StoreTypeOK' /\ req' \in [Workers -> Request] /\ RequestsOK'
  <2>1. UNCHANGED <<incidents, audit>>
    BY <1>7 DEF Draft
  <2>2. CASE Finish(w) /\ UNCHANGED actions
    BY <2>1, <2>2, <1>0, <1>5
  <2>3. CASE /\ CreateAction(req[w].inc, type, pod)
             /\ req' = [req EXCEPT ![w] =
                           [@ EXCEPT !.pc = pc, !.act = Len(actions) + 1]]
    <3>1. actions' \in Seq(ActionRow) /\ Len(actions') = Len(actions) + 1
      BY <1>2, <2>3, <1>0, CreateFacts, SMTT(30)
    <3> DEFINE r == [req[w] EXCEPT !.pc = pc, !.act = Len(actions) + 1]
    <3>2a. r \in Request
      <4>1. Len(actions) + 1 \in Nat
        BY <1>4
      <4> QED BY <4>1, RequestForms
    <3>2. r.pc = pc
      BY <1>1 DEF Request
    <3>3. req' = [req EXCEPT ![w] = r]
      BY <2>3
    <3> HIDE DEF r
    <3>7. Plain(r.pc)
      BY <3>2, <1>7
    <3>8. actions' \in Seq(ActionRow) /\ Len(actions) <= Len(actions')
      BY <3>1, <1>4
    <3>9. req' \in [Workers -> Request] /\ RequestsOK'
      BY <3>2a, <3>7, <3>3, <3>8, PlainRequest
    <3> QED BY <1>0, <2>1, <3>8, <3>9
  <2> QED BY <1>7, <2>2, <2>3 DEF Draft
<1>8. CASE ReadIncident(w)
  <2>1. UNCHANGED storeVars
    BY <1>8 DEF ReadIncident
  <2>2. CASE req' = [req EXCEPT ![w] = [@ EXCEPT !.pc = "writeStatus",
                                              !.prev = incidents[req[w].inc]]]
    <3> DEFINE r == [req[w] EXCEPT !.pc = "writeStatus",
                                   !.prev = incidents[req[w].inc]]
    <3>1a. r \in Request
      BY <1>1, <1>3, RequestForms DEF ReqPc
    <3>1. r.pc = "writeStatus"
      BY <1>1 DEF Request
    <3>2. req' = [req EXCEPT ![w] = r]
      BY <2>2
    <3> HIDE DEF r
    <3>7. Plain(r.pc)
      BY <3>1, PlainPcs
    <3>8. actions' \in Seq(ActionRow) /\ Len(actions) <= Len(actions')
      BY <1>0, <2>1, <1>4 DEF storeVars
    <3>9. req' \in [Workers -> Request] /\ RequestsOK'
      BY <3>1a, <3>7, <3>2, <3>8, PlainRequest
    <3> QED BY <1>0, <2>1, <3>8, <3>9 DEF storeVars
  <2> QED BY <1>8, <2>1, <2>2, <1>0, <1>5 DEF ReadIncident, storeVars
<1>9. CASE WriteStatus(w)
  <2>1. UNCHANGED <<actions, audit>>
    BY <1>9 DEF WriteStatus
  <2>2. incidents' \in [Incidents -> IncidentRow]
    <3>1. [incidents[req[w].inc] EXCEPT !.status = req[w].want] \in IncidentRow
      BY <1>2, <1>3 DEF IncidentRow
    <3> QED BY <1>0, <1>9, <3>1 DEF WriteStatus, UpdateIncidentStatus
  <2> QED BY <1>9, <2>1, <2>2, <1>0, <1>5, PlainGoto DEF WriteStatus
<1>10. CASE RereadStatus(w)
  <2>1. UNCHANGED storeVars
    BY <1>10 DEF RereadStatus
  <2>2. CASE req' = [req EXCEPT ![w] =
                         [@ EXCEPT !.pc = "auditStatus",
                                   !.want = incidents[req[w].inc].status]]
    <3> DEFINE r == [req[w] EXCEPT !.pc = "auditStatus",
                                   !.want = incidents[req[w].inc].status]
    <3>0. incidents[req[w].inc].status \in IncidentStatus
      BY <1>3, SMTT(30) DEF IncidentRow
    <3>1a. r \in Request
      BY <1>1, <3>0, RequestForms DEF ReqPc
    <3>1. r.pc = "auditStatus"
      BY <1>1 DEF Request
    <3>2. req' = [req EXCEPT ![w] = r]
      BY <2>2
    <3> HIDE DEF r
    <3>7. Plain(r.pc)
      BY <3>1, PlainPcs
    <3>8. actions' \in Seq(ActionRow) /\ Len(actions) <= Len(actions')
      BY <1>0, <2>1, <1>4 DEF storeVars
    <3>9. req' \in [Workers -> Request] /\ RequestsOK'
      BY <3>1a, <3>7, <3>2, <3>8, PlainRequest
    <3> QED BY <1>0, <2>1, <3>8, <3>9 DEF storeVars
  <2> QED BY <1>10, <2>1, <2>2, <1>0, <1>5 DEF RereadStatus, storeVars
<1>11. CASE AuditStatus(w)
  <2>1. UNCHANGED <<incidents, actions>> /\ audit' \in SUBSET (Events \X (Incidents \cup Nat))
    BY <1>11, <1>2, <1>6 DEF AuditStatus, Events
  <2> QED BY <1>11, <2>1, <1>0, <1>5, PlainGoto DEF AuditStatus
<1>12. CASE DraftOnAck(w)
  BY <1>12, <1>7, PlainPcs DEF DraftOnAck
<1>13. CASE ReadForFollowUp(w)
  <2>1. UNCHANGED storeVars
    BY <1>13 DEF ReadForFollowUp
  <2> QED
    BY <1>13, <2>1, <1>0, <1>5, GotoType DEF ReadForFollowUp, storeVars, ReqPc, MayGoto
<1>14. CASE CreateFollowUp(w)
  <2>1. req[w].kind \in ActionTypes
    BY <1>1, <1>14 DEF RequestOK, CreateFollowUp, FollowUpTypes
  <2> QED BY <1>14, <2>1, <1>2, <1>7, PlainPcs DEF CreateFollowUp
<1>15. CASE Decide(w)
  <2> DEFINE a == req[w].act
  <2>1. UNCHANGED <<incidents, audit>>
    BY <1>15 DEF Decide
  <2>2. CASE Finish(w) /\ UNCHANGED actions
    BY <2>1, <2>2, <1>0, <1>5
  <2>3. CASE DecideAction(a, req[w].kind, req[w].user)
    <3>1. /\ a \in ActionIds
          /\ actions' \in Seq(ActionRow) /\ Len(actions') = Len(actions)
      BY <1>2, <2>3, <1>0, DecideFacts
    <3>2. actions[a] \in ActionRow
      BY <1>0, <3>1 DEF ActionIds
    <3>3. CASE Finish(w)
      BY <2>1, <3>1, <3>3, <1>0, <1>4, FinishType
    <3>4. CASE Goto(w, "auditRejected")
      <4> DEFINE r == [req[w] EXCEPT !.pc = "auditRejected"]
      <4>1a. r \in Request
        BY <1>1, RequestForms DEF ReqPc
      <4>1. r.pc = "auditRejected"
        BY <1>1 DEF Request
      <4>2. req' = [req EXCEPT ![w] = r]
        BY <3>4 DEF Goto
      <4> HIDE DEF r
      <4>7. Plain(r.pc)
        BY <4>1, PlainPcs
      <4>8. actions' \in Seq(ActionRow) /\ Len(actions) <= Len(actions')
        BY <3>1, <1>4
      <4>9. req' \in [Workers -> Request] /\ RequestsOK'
        BY <4>1a, <4>7, <4>2, <4>8, PlainRequest
      <4> QED BY <1>0, <2>1, <4>8, <4>9
    <3>5. CASE req' = [req EXCEPT ![w] =
                         [@ EXCEPT !.pc  = NextAfterApproval(actions[a].type),
                                   !.inc = actions[a].incident,
                                   !.pod = actions[a].pod]]
      <4> DEFINE pc == NextAfterApproval(actions[a].type)
                 r  == [req[w] EXCEPT !.pc = pc, !.inc = actions[a].incident,
                                      !.pod = actions[a].pod]
      <4>1. pc \in {"label", "podOp"}
        BY DEF NextAfterApproval
      <4>2. actions[a].incident \in Incidents /\ actions[a].pod \in Pods \cup {NoPod}
        BY <3>2, SMTT(30) DEF ActionRow
      <4> HIDE DEF pc
      <4>3. r \in Request
        BY <4>1, <4>2, RequestForms, ZenonT(60) DEF ReqPc
      <4>4. r.pc = pc /\ r.act = a
        BY <1>1 DEF Request
      <4>5. req' = [req EXCEPT ![w] = r]
        BY <3>5 DEF pc
      <4> HIDE DEF r
      <4>6. r.act \in 1..Len(actions')
        BY <4>4, <3>1 DEF ActionIds
      <4>7. r.pc \notin {"readForFollowUp", "createFollowUp"}
        BY <4>1, <4>4
      <4>8. actions' \in Seq(ActionRow) /\ Len(actions) <= Len(actions')
        BY <3>1, <1>4
      <4>9. req' \in [Workers -> Request] /\ RequestsOK'
        BY <4>3, <4>5, <4>6, <4>7, <4>8, OneRequest
      <4> QED BY <1>0, <2>1, <4>8, <4>9
    <3> QED BY <1>15, <2>3, <3>3, <3>4, <3>5, <2>2 DEF Decide
  <2> QED BY <1>15, <2>2, <2>3 DEF Decide
<1>16. CASE Mark(w)
  <2>1. UNCHANGED <<incidents, audit>>
    BY <1>16 DEF Mark
  <2>2. CASE Finish(w) /\ UNCHANGED actions
    BY <2>1, <2>2, <1>0, <1>5
  <2>3. CASE MarkActionExecuted(req[w].act, req[w].ok) /\ Goto(w, "auditApproved")
    <3>0. req[w].act \in ActionIds
      BY <1>1, <1>16 DEF RequestOK, Mark, Executing
    <3>1. actions' \in Seq(ActionRow) /\ Len(actions') = Len(actions)
      BY <1>2, <2>3, <3>0, <1>0, MarkFacts
    <3> DEFINE r == [req[w] EXCEPT !.pc = "auditApproved"]
    <3>2a. r \in Request
      BY <1>1, RequestForms DEF ReqPc
    <3>2. r.pc = "auditApproved"
      BY <1>1 DEF Request
    <3>3. req' = [req EXCEPT ![w] = r]
      BY <2>3 DEF Goto
    <3> HIDE DEF r
    <3>7. Plain(r.pc)
      BY <3>2, PlainPcs
    <3>8. actions' \in Seq(ActionRow) /\ Len(actions) <= Len(actions')
      BY <3>1, <1>4
    <3>9. req' \in [Workers -> Request] /\ RequestsOK'
      BY <3>2a, <3>7, <3>3, <3>8, PlainRequest
    <3> QED BY <1>0, <2>1, <3>8, <3>9
  <2> QED BY <1>16, <2>2, <2>3 DEF Mark
<1>17. CASE AuditSteps(w)
  <2>1. ASSUME NEW pc, NEW event \in Events, AuditLast(w, pc, event)
        PROVE  StoreTypeOK' /\ req' \in [Workers -> Request] /\ RequestsOK'
    <3>1. UNCHANGED <<incidents, actions>> /\ Finish(w)
      BY <2>1 DEF AuditLast
    <3>2. audit' \in SUBSET (Events \X (Incidents \cup Nat))
      BY <2>1, <1>2, <1>6 DEF AuditLast
    <3> QED BY <3>1, <3>2, <1>0, <1>5
  <2> QED BY <1>17, <2>1 DEF AuditSteps, Events
<1> QED
  BY <1>8, <1>9, <1>10, <1>11, <1>12, <1>13, <1>14, <1>15, <1>16, <1>17 DEF StoreStep

\* The cluster and the requests after a call of executeAction.
LEMMA ClusterStepType ==
    ASSUME TypeInv, NEW w \in Workers, ClusterStep(w)
    PROVE  /\ req' \in [Workers -> Request] /\ RequestsOK'
           /\ policy' \in [Incidents -> Nat]
           /\ holder' \in [Incidents -> Pods \cup {NoPod}]
           /\ labelled' \in [Incidents -> SUBSET Pods]
           /\ effects' \in Seq(Nat)
<1>0. /\ policy \in [Incidents -> Nat] /\ holder \in [Incidents -> Pods \cup {NoPod}]
      /\ labelled \in [Incidents -> SUBSET Pods] /\ effects \in Seq(Nat)
  BY DEF TypeInv, TypeOK
<1>1. req[w] \in Request /\ RequestOK(req[w])
  BY DEF TypeInv, TypeOK, RequestsOK
<1>2. req[w].inc \in Incidents /\ req[w].act \in Nat
  BY <1>1 DEF Request
<1>3. UNCHANGED storeVars /\ UNCHANGED actions
  BY DEF ClusterStep, storeVars
<1>4. ASSUME NEW did, Effect(w, did) PROVE effects' \in Seq(Nat)
  BY <1>0, <1>2, <1>4, AppendProperties DEF Effect
<1>5. ASSUME NEW o \in Writes(w) PROVE o.ok \in BOOLEAN
  BY <1>5 DEF Writes, Outcomes
<1>6. ASSUME NEW ok \in BOOLEAN, req[w].pc \in Executing, Return(w, ok)
      PROVE  req' \in [Workers -> Request] /\ RequestsOK'
  BY <1>3, <1>6, ReturnType
<1>7. ASSUME NEW pc \in Executing \cap ReqPc, req[w].pc \in Executing, Goto(w, pc)
      PROVE  req' \in [Workers -> Request] /\ RequestsOK'
  BY <1>3, <1>7, GotoType DEF MayGoto
<1>8. CASE Label(w)
  <2>1. req[w].pc \in Executing /\ Goto(w, "createPolicy")
    BY <1>8 DEF Label, Executing
  <2>2. "createPolicy" \in Executing \cap ReqPc
    BY DEF Executing, ReqPc
  <2>3. req' \in [Workers -> Request] /\ RequestsOK'
    BY <2>1, <2>2, <1>7
  <2>4. UNCHANGED <<policy, holder, effects>>
    BY <1>8 DEF Label
  <2>5. labelled' \in [Incidents -> SUBSET Pods]
    <3>1. holder[req[w].inc] # NoPod =>
             labelled[req[w].inc] \cup {holder[req[w].inc]} \in SUBSET Pods
      BY <1>0, <1>2
    <3>2. \/ UNCHANGED labelled
          \/ /\ holder[req[w].inc] # NoPod
             /\ labelled' = [labelled EXCEPT ![req[w].inc] = @ \cup {holder[req[w].inc]}]
      BY <1>8 DEF Label
    <3> QED BY <1>0, <1>2, <3>1, <3>2
  <2> QED BY <1>0, <2>3, <2>4, <2>5
<1>9. CASE CreatePolicy(w)
  <2>1. req[w].pc \in Executing
    BY <1>9 DEF CreatePolicy, Executing
  <2>2. UNCHANGED <<holder, labelled>>
    BY <1>9 DEF CreatePolicy
  <2>3. CASE ApplyMode = "apply" /\ policy[req[w].inc] > 0
    <3>1. UNCHANGED <<policy, effects>>
      BY <1>9, <2>3 DEF CreatePolicy
    <3>2. Goto(w, "getPolicy") \/ Return(w, FALSE)
      BY <1>9, <2>3 DEF CreatePolicy
    <3>3. "getPolicy" \in Executing \cap ReqPc
      BY DEF Executing, ReqPc
    <3>4. req' \in [Workers -> Request] /\ RequestsOK'
      BY <2>1, <3>2, <3>3, <1>6, <1>7
    <3> QED BY <1>0, <2>2, <3>1, <3>4
  <2>4. CASE ~(ApplyMode = "apply" /\ policy[req[w].inc] > 0)
    <3>1. PICK o \in Writes(w) :
             /\ Effect(w, o.did)
             /\ policy' = IF o.did /\ ApplyMode = "apply"
                          THEN [policy EXCEPT ![req[w].inc] = 1] ELSE policy
             /\ Return(w, o.ok)
      BY <1>9, <2>4 DEF CreatePolicy
    <3>2. req' \in [Workers -> Request] /\ RequestsOK'
      BY <2>1, <3>1, <1>5, <1>6
    <3>3. policy' \in [Incidents -> Nat]
      BY <1>0, <3>1
    <3> QED BY <1>0, <2>2, <3>1, <3>2, <3>3, <1>4
  <2> QED BY <2>3, <2>4
<1>10. CASE GetPolicy(w)
  <2>1. req[w].pc \in Executing /\ UNCHANGED clusterVars
    BY <1>10 DEF GetPolicy, Executing
  <2>2. CASE Return(w, FALSE)
    BY <1>0, <2>1, <2>2, <1>6 DEF clusterVars
  <2>3. CASE req' = [req EXCEPT ![w] = [@ EXCEPT !.pc = "updatePolicy",
                                                    !.rv = policy[req[w].inc]]]
    <3> DEFINE r == [req[w] EXCEPT !.pc = "updatePolicy", !.rv = policy[req[w].inc]]
    <3>1. r \in Request
      <4>1. policy[req[w].inc] \in Nat /\ "updatePolicy" \in ReqPc
        BY <1>0, <1>2 DEF ReqPc
      <4> QED BY <4>1, RequestForms
    <3>2. r.pc = "updatePolicy" /\ r.act = req[w].act
      BY <1>1 DEF Request
    <3>3. req' = [req EXCEPT ![w] = r]
      BY <2>3
    <3> HIDE DEF r
    <3>4. r.act \in 1..Len(actions')
      BY <1>1, <1>3, <2>1, <3>2 DEF RequestOK, ActionIds
    <3>5. actions' \in Seq(ActionRow) /\ Len(actions) <= Len(actions')
      BY <1>3, LenProperties DEF TypeInv, TypeOK, StoreTypeOK
    <3>6. r.pc \notin {"readForFollowUp", "createFollowUp"}
      BY <3>2
    <3>7. req' \in [Workers -> Request] /\ RequestsOK'
      BY <3>1, <3>3, <3>4, <3>5, <3>6, OneRequest
    <3> QED BY <1>0, <2>1, <3>7 DEF clusterVars
  <2> QED BY <1>10, <2>2, <2>3 DEF GetPolicy
<1>11. CASE UpdatePolicy(w)
  <2>1. req[w].pc \in Executing
    BY <1>11 DEF UpdatePolicy, RefusedUpdate, Executing
  <2>2. UNCHANGED <<holder, labelled>>
    BY <1>11 DEF UpdatePolicy, RefusedUpdate
  <2>3. CASE Return(w, FALSE) /\ UNCHANGED <<policy, effects>>
    BY <1>0, <2>1, <2>2, <2>3, <1>6
  <2>4. ASSUME NEW o \in Writes(w),
               policy' = IF o.did THEN [policy EXCEPT ![req[w].inc] = @ + 1] ELSE policy,
               Effect(w, o.did), Return(w, o.ok)
        PROVE  /\ req' \in [Workers -> Request] /\ RequestsOK'
               /\ policy' \in [Incidents -> Nat]
               /\ effects' \in Seq(Nat)
    <3>1. req' \in [Workers -> Request] /\ RequestsOK'
      BY <2>1, <2>4, <1>5, <1>6
    <3>2. policy' \in [Incidents -> Nat]
      BY <1>0, <1>2, <2>4
    <3> QED BY <2>4, <3>1, <3>2, <1>4
  <2> QED BY <1>0, <1>11, <2>2, <2>3, <2>4 DEF UpdatePolicy, RefusedUpdate
<1>12. CASE PodOp(w)
  <2>1. req[w].pc \in Executing
    BY <1>12 DEF PodOp, Executing
  <2>2. UNCHANGED <<policy, labelled>>
    BY <1>12 DEF PodOp
  <2>3. PICK o \in Writes(w) :
          \/ Return(w, FALSE) /\ UNCHANGED <<holder, effects>>
          \/ /\ Effect(w, o.did)
             /\ \E gone \in BOOLEAN :
                   holder' = [i \in Incidents |->
                      IF o.did /\ gone /\ holder[i] = req[w].pod
                      THEN NoPod ELSE holder[i]]
             /\ Return(w, o.ok)
    BY <1>12 DEF PodOp
  <2>4. req' \in [Workers -> Request] /\ RequestsOK'
    BY <2>1, <2>3, <1>5, <1>6
  <2>5. holder' \in [Incidents -> Pods \cup {NoPod}]
    BY <1>0, <2>3
  <2>6. effects' \in Seq(Nat)
    BY <1>0, <2>3, <1>4
  <2> QED BY <1>0, <2>2, <2>4, <2>5, <2>6
<1> QED
  BY <1>8, <1>9, <1>10, <1>11, <1>12 DEF ClusterStep

\* The subscriber's callback keeps the types of the tables and of its own state.
LEMMA SubscriberType ==
    ASSUME TypeInv, SubscriberReceive \/ SubscriberStep
    PROVE  StoreTypeOK' /\ sub' \in Subscriber /\ alerts' \in Nat
           /\ mailed' \in SUBSET Incidents /\ Len(actions) <= Len(actions')
<1> USE DEF StoreTypeOK
<1>0. /\ incidents \in [Incidents -> IncidentRow] /\ actions \in Seq(ActionRow)
      /\ audit \in SUBSET (Events \X (Incidents \cup Nat))
      /\ sub \in Subscriber /\ alerts \in Nat /\ mailed \in SUBSET Incidents
      /\ holder \in [Incidents -> Pods \cup {NoPod}]
  BY DEF TypeInv, TypeOK
<1>1. sub.inc \in Incidents /\ sub.act \in Nat /\ sub.severity \in Severity
  BY <1>0 DEF Subscriber
<1>2. Len(actions) \in Nat
  BY <1>0, LenProperties
<1>3. /\ \A pc \in SubPc : [sub EXCEPT !.pc = pc] \in Subscriber
      /\ \A pc \in SubPc, a \in Nat : [sub EXCEPT !.pc = pc, !.act = a] \in Subscriber
  BY <1>0 DEF Subscriber
<1>13. ASSUME NEW pc \in {"idle", "notify", "resolve", "list", "draft"}, SubGoto(pc)
       PROVE  sub' \in Subscriber
  <2>1. pc \in SubPc
    BY DEF SubPc
  <2> QED BY <1>3, <1>13, <2>1 DEF SubGoto
<1>4. ASSUME NEW ok, NEW event \in Events, NEW target \in Incidents \cup Nat,
             RecordAudit(ok, event, target)
      PROVE  audit' \in SUBSET (Events \X (Incidents \cup Nat))
  BY <1>0, <1>4 DEF RecordAudit, AppendAudit
<1>5. CASE SubDrop
  BY <1>0, <1>2, <1>5 DEF SubDrop, Receive
<1>6. ASSUME NEW i \in Incidents, NEW severity \in Severities, NEW arrays \in AlertArrays,
             SubUpsert(i, severity, arrays)
      PROVE  StoreTypeOK' /\ sub' \in Subscriber /\ alerts' \in Nat
             /\ mailed' \in SUBSET Incidents /\ Len(actions) <= Len(actions')
  <2>1. UNCHANGED <<actions, audit, mailed>> /\ alerts' = alerts + 1
    BY <1>6 DEF SubUpsert, Receive
  <2>2. severity \in Severity /\ arrays \in SUBSET ArrayColumns
    BY ServiceAssumption
  <2>3. incidents[i] \in IncidentRow
    BY <1>0
  <2>4. MaxSeverity(incidents[i].severity, severity) \in Severity
    BY <2>2, <2>3 DEF MaxSeverity, IncidentRow
  <2>5. Upserted(i, severity, arrays) \in IncidentRow
    BY <2>2, <2>3, <2>4 DEF Upserted, IncidentRow
  <2>6. incidents' = [incidents EXCEPT ![i] = Upserted(i, severity, arrays)]
    BY <1>6 DEF SubUpsert, UpsertIncident
  <2>7. incidents' \in [Incidents -> IncidentRow]
    BY <1>0, <2>5, <2>6
  <2>8. incidents'[i].severity \in Severity
    BY <2>7 DEF IncidentRow
  <2>9. sub' \in Subscriber
    BY <1>0, <1>6, <2>8 DEF SubUpsert, Subscriber, SubPc
  <2> QED BY <1>0, <1>2, <2>1, <2>7, <2>9
<1>7. CASE SubAuditCreated
  <2>1. audit' \in SUBSET (Events \X (Incidents \cup Nat))
    BY <1>7, <1>1, <1>4 DEF SubAuditCreated, Events
  <2>2. sub' \in Subscriber
    BY <1>7, <1>13 DEF SubAuditCreated
  <2> QED BY <1>0, <1>2, <1>7, <2>1, <2>2 DEF SubAuditCreated
<1>8. CASE SubNotify
  <2>1. sub' \in Subscriber
    BY <1>8, <1>13 DEF SubNotify
  <2> QED BY <1>0, <1>1, <1>2, <1>8, <2>1 DEF SubNotify, storeVars
<1>9. CASE SubResolve
  <2>1. UNCHANGED <<actions, audit, alerts, mailed>> /\ SubGoto("list")
    BY <1>9 DEF SubResolve
  <2>2. [incidents[sub.inc] EXCEPT !.pod = holder[sub.inc]] \in IncidentRow
    BY <1>0, <1>1 DEF IncidentRow
  <2>3. incidents' \in [Incidents -> IncidentRow]
    BY <1>0, <1>9, <2>2 DEF SubResolve, SetIncidentPodContext
  <2>4. sub' \in Subscriber
    BY <2>1, <1>13
  <2> QED BY <1>0, <1>2, <2>1, <2>3, <2>4
<1>10. CASE SubList
  <2>1. SubGoto("draft") \/ SubGoto("idle")
    BY <1>10 DEF SubList
  <2>2. sub' \in Subscriber
    BY <2>1, <1>13
  <2> QED BY <1>0, <1>2, <1>10, <2>2 DEF SubList, storeVars
<1>11. CASE SubDraft
  <2>1. UNCHANGED <<incidents, audit, alerts, mailed>>
    BY <1>11 DEF SubDraft
  <2>2. CASE SubGoto("idle") /\ UNCHANGED actions
    <3>1. sub' \in Subscriber
      BY <2>2, <1>13
    <3> QED BY <1>0, <1>2, <2>1, <2>2, <3>1
  <2>3. CASE /\ CreateAction(sub.inc, "quarantine_pod", NoPod)
             /\ sub' = [sub EXCEPT !.pc = "auditDraft", !.act = Len(actions) + 1]
    <3>1. actions' \in Seq(ActionRow) /\ Len(actions') = Len(actions) + 1
      BY <1>0, <1>1, <2>3, CreateFacts
    <3>2. Len(actions) + 1 \in Nat
      BY <1>2
    <3>3. sub' \in Subscriber
      BY <1>3, <2>3, <3>2 DEF SubPc
    <3> QED BY <1>0, <1>2, <2>1, <3>1, <3>3
  <2> QED BY <1>11, <2>2, <2>3 DEF SubDraft
<1>12. CASE SubAuditDraft
  <2>1. audit' \in SUBSET (Events \X (Incidents \cup Nat))
    BY <1>12, <1>1, <1>4 DEF SubAuditDraft, Events
  <2>2. sub' \in Subscriber
    BY <1>12, <1>13 DEF SubAuditDraft
  <2> QED BY <1>0, <1>2, <1>12, <2>1, <2>2 DEF SubAuditDraft
<1> QED
  BY <1>5, <1>6, <1>7, <1>8, <1>9, <1>10, <1>11, <1>12
  DEF SubscriberReceive, SubscriberStep

\* Requests of which nothing is written keep their part of the invariant.
LEMMA SameRequests ==
    ASSUME TypeInv, UNCHANGED req, actions' \in Seq(ActionRow),
           Len(actions) <= Len(actions')
    PROVE  req' \in [Workers -> Request] /\ RequestsOK'
<1>1. Len(actions) \in Nat /\ Len(actions') \in Nat
  BY LenProperties DEF TypeInv, TypeOK, StoreTypeOK
<1> QED BY <1>1 DEF TypeInv, TypeOK, RequestsOK, RequestOK, ActionIds

\* A request starts with what its first call needs.
LEMMA StartType ==
    ASSUME TypeInv, NEW w \in Workers, StartRequest(w)
    PROVE  req' \in [Workers -> Request] /\ RequestsOK' /\ requests' \in Nat
<1>0. actions' \in Seq(ActionRow) /\ Len(actions) <= Len(actions')
  BY LenProperties DEF TypeInv, TypeOK, StoreTypeOK, StartRequest, storeVars
<1>1. IdleReq \in Request
  BY IdleTypes
<1>2. ASSUME NEW user, NEW role, NEW r, Admit(w, user, role, r)
      PROVE  req' = [req EXCEPT ![w] = r] /\ requests' \in Nat
  BY <1>2 DEF Admit, TypeInv, TypeOK
<1>3. PICK user \in Users :
        \/ \E i \in Incidents, want \in NewStatuses : StartStatus(w, user, i, want)
        \/ \E kind \in {"approve", "reject"}, a \in ActionIds :
              StartDecision(w, kind, user, a)
        \/ \E i \in Incidents, type \in {"delete_pod", "shutdown_pod"}, pod \in Pods :
              StartFollowUp(w, user, i, type, pod)
  BY DEF StartRequest
<1>4. ASSUME NEW i \in Incidents, NEW want \in NewStatuses, StartStatus(w, user, i, want)
      PROVE  req' \in [Workers -> Request] /\ RequestsOK' /\ requests' \in Nat
  <2> DEFINE r == [IdleReq EXCEPT !.pc = "readIncident", !.user = user,
                                  !.inc = i, !.want = want]
  <2>1. r \in Request
    BY <1>1, ServiceAssumption DEF Request, ReqPc
  <2>2. r.pc = "readIncident"
    BY <1>1 DEF Request
  <2>3. req' = [req EXCEPT ![w] = r] /\ requests' \in Nat
    BY <1>2, <1>4 DEF StartStatus
  <2> HIDE DEF r
  <2>4. Plain(r.pc)
    BY <2>2, PlainPcs
  <2> QED BY <1>0, <2>1, <2>3, <2>4, PlainRequest
<1>5. ASSUME NEW kind \in {"approve", "reject"}, NEW a \in ActionIds,
             StartDecision(w, kind, user, a)
      PROVE  req' \in [Workers -> Request] /\ RequestsOK' /\ requests' \in Nat
  <2> DEFINE r == [IdleReq EXCEPT !.pc = "decide", !.kind = kind,
                                  !.user = user, !.act = a]
  <2>1. r \in Request
    <3>1. a \in Nat /\ kind \in Endpoints \cup ActionTypes
      BY LenProperties DEF ActionIds, Endpoints, TypeInv, TypeOK, StoreTypeOK
    <3> QED BY <1>1, <3>1 DEF Request, ReqPc
  <2>2. r.pc = "decide"
    BY <1>1 DEF Request
  <2>3. req' = [req EXCEPT ![w] = r] /\ requests' \in Nat
    BY <1>2, <1>5 DEF StartDecision
  <2> HIDE DEF r
  <2>4. Plain(r.pc)
    BY <2>2, PlainPcs
  <2> QED BY <1>0, <2>1, <2>3, <2>4, PlainRequest
<1>6. ASSUME NEW i \in Incidents, NEW type \in {"delete_pod", "shutdown_pod"},
             NEW pod \in Pods, StartFollowUp(w, user, i, type, pod)
      PROVE  req' \in [Workers -> Request] /\ RequestsOK' /\ requests' \in Nat
  <2> DEFINE r == [IdleReq EXCEPT !.pc = "readForFollowUp", !.kind = type,
                                  !.user = user, !.inc = i, !.pod = pod]
  <2>1. r \in Request
    BY <1>1 DEF Request, ReqPc
  <2>2. r.pc = "readForFollowUp" /\ r.kind = type
    BY <1>1 DEF Request
  <2>3. req' = [req EXCEPT ![w] = r] /\ requests' \in Nat
    BY <1>2, <1>6 DEF StartFollowUp
  <2> HIDE DEF r
  <2>4. r.kind \in FollowUpTypes /\ r.pc \notin Executing
    BY <2>2 DEF FollowUpTypes, Executing
  <2> QED BY <1>0, <2>1, <2>3, <2>4, OneRequest
<1> QED BY <1>3, <1>4, <1>5, <1>6

\* The inductive step of the type invariant.
LEMMA TypeStep == TypeInv /\ [Next]_vars => TypeInv'
<1> SUFFICES ASSUME TypeInv, [Next]_vars PROVE TypeInv'
  OBVIOUS
<1>0. TypeOK
  BY DEF TypeInv
<1>00. Len(actions) \in Nat
  BY <1>0, LenProperties DEF TypeOK, StoreTypeOK
<1>1. CASE SubscriberReceive \/ SubscriberStep
  <2>1. UNCHANGED <<reqVars, clusterVars>>
    BY <1>1 DEF SubscriberReceive, SubscriberStep
  <2>2. StoreTypeOK' /\ sub' \in Subscriber /\ alerts' \in Nat
        /\ mailed' \in SUBSET Incidents /\ Len(actions) <= Len(actions')
    BY <1>1, SubscriberType
  <2>3. req' \in [Workers -> Request] /\ RequestsOK'
    BY <2>1, <2>2, SameRequests DEF reqVars, StoreTypeOK
  <2> QED BY <1>0, <2>1, <2>2, <2>3 DEF TypeInv, TypeOK, reqVars, clusterVars
<1>2. ASSUME NEW w \in Workers, StartRequest(w) PROVE TypeInv'
  <2>1. req' \in [Workers -> Request] /\ RequestsOK' /\ requests' \in Nat
    BY <1>2, StartType
  <2>2. UNCHANGED <<storeVars, subVars, clusterVars>>
    BY <1>2 DEF StartRequest
  <2> QED
    BY <1>0, <2>1, <2>2 DEF TypeInv, TypeOK, StoreTypeOK, storeVars, subVars, clusterVars
<1>3. ASSUME NEW w \in Workers, HandlerStep(w) PROVE TypeInv'
  <2>1. UNCHANGED <<requests, subVars>>
    BY <1>3 DEF HandlerStep
  <2>2. CASE StoreStep(w)
    <3>1. StoreTypeOK' /\ req' \in [Workers -> Request] /\ RequestsOK'
      BY <2>2, StoreStepType
    <3>2. UNCHANGED clusterVars
      BY <2>2 DEF StoreStep
    <3> QED BY <1>0, <2>1, <3>1, <3>2 DEF TypeInv, TypeOK, subVars, clusterVars
  <2>3. CASE ClusterStep(w)
    <3>1. /\ req' \in [Workers -> Request] /\ RequestsOK'
          /\ policy' \in [Incidents -> Nat]
          /\ holder' \in [Incidents -> Pods \cup {NoPod}]
          /\ labelled' \in [Incidents -> SUBSET Pods]
          /\ effects' \in Seq(Nat)
      BY <2>3, ClusterStepType
    <3>2. UNCHANGED storeVars
      BY <2>3 DEF ClusterStep
    <3> QED BY <1>0, <2>1, <3>1, <3>2 DEF TypeInv, TypeOK, StoreTypeOK, subVars, storeVars
  <2> QED BY <1>3, <2>2, <2>3 DEF HandlerStep
<1>4. ASSUME NEW w \in Workers, Disconnect(w) PROVE TypeInv'
  <2> DEFINE r == [req[w] EXCEPT !.gone = TRUE]
  <2>1. req[w] \in Request /\ RequestOK(req[w])
    BY SMTT(30) DEF TypeInv, TypeOK, RequestsOK
  <2>2. r \in Request
    BY RequestForms
  <2>3. r.pc = req[w].pc /\ r.kind = req[w].kind /\ r.act = req[w].act
    BY <2>1 DEF Request
  <2>4. req' = [req EXCEPT ![w] = r]
    BY <1>4 DEF Disconnect
  <2> HIDE DEF r
  <2>5. UNCHANGED <<storeVars, subVars, requests, clusterVars>>
    BY <1>4 DEF Disconnect
  <2>6. actions' \in Seq(ActionRow) /\ Len(actions) <= Len(actions')
    BY <1>0, <1>00, <2>5 DEF storeVars, TypeOK, StoreTypeOK
  <2>7. r.pc \in {"readForFollowUp", "createFollowUp"} => r.kind \in FollowUpTypes
    BY <2>1, <2>3 DEF RequestOK
  <2>8. r.pc \in Executing => r.act \in 1..Len(actions')
    BY <2>1, <2>3, <2>5 DEF RequestOK, ActionIds, storeVars
  <2>9. req' \in [Workers -> Request] /\ RequestsOK'
    BY <2>2, <2>4, <2>6, <2>7, <2>8, OneRequest
  <2> QED
    BY <1>0, <2>5, <2>9 DEF TypeInv, TypeOK, StoreTypeOK, storeVars, subVars, clusterVars
<1>5. CASE Crash
  <2>1. UNCHANGED <<storeVars, alerts, mailed, requests, clusterVars>>
    BY <1>5 DEF Crash
  <2>2. sub' \in Subscriber
    <3>1. [IdleSub EXCEPT !.pc = "exited"] \in Subscriber
      BY IdleTypes DEF Subscriber, SubPc
    <3> QED BY <1>5, <3>1, IdleTypes DEF Crash
  <2>3. req' \in [Workers -> Request] /\ RequestsOK'
    <3>1. req' = [w \in Workers |-> IdleReq]
      BY <1>5 DEF Crash
    <3>2. IdleReq.pc = "idle"
      BY DEF IdleReq
    <3> QED BY <3>1, <3>2, IdleTypes DEF RequestsOK, RequestOK, Executing
  <2> QED BY <1>0, <2>1, <2>2, <2>3
    DEF TypeInv, TypeOK, StoreTypeOK, storeVars, clusterVars
<1>6. ASSUME NEW i \in Incidents, Churn(i) PROVE TypeInv'
  <2>1. UNCHANGED <<storeVars, subVars, reqVars, policy, labelled, effects>>
    BY <1>6 DEF Churn
  <2>2. holder' \in [Incidents -> Pods \cup {NoPod}]
    BY <1>0, <1>6 DEF Churn, TypeOK
  <2>3. req' \in [Workers -> Request] /\ RequestsOK'
    BY <1>0, <1>00, <2>1, SameRequests DEF reqVars, storeVars, TypeOK, StoreTypeOK
  <2> QED BY <1>0, <2>1, <2>2, <2>3
    DEF TypeInv, TypeOK, StoreTypeOK, storeVars, subVars, reqVars
<1>7. CASE UNCHANGED vars
  <2>1. req' \in [Workers -> Request] /\ RequestsOK'
    BY <1>0, <1>00, <1>7, SameRequests DEF vars, reqVars, storeVars, TypeOK, StoreTypeOK
  <2> QED BY <1>0, <1>7, <2>1
    DEF TypeInv, TypeOK, StoreTypeOK, vars, storeVars, subVars, reqVars, clusterVars
<1> QED
  BY <1>1, <1>2, <1>3, <1>4, <1>5, <1>6, <1>7 DEF Next

\* The type invariant holds when the service starts.
LEMMA TypeInit == Init => TypeInv
<1> SUFFICES ASSUME Init PROVE TypeInv
  OBVIOUS
<1>1. StoreTypeOK
  <2>1. << >> \in Seq(ActionRow)
    BY EmptySeq
  <2> QED BY <2>1, IdleTypes DEF Init, StoreInit, StoreTypeOK
<1>2. req \in [Workers -> Request] /\ RequestsOK
  <2>1. req = [w \in Workers |-> IdleReq]
    BY DEF Init
  <2>2. IdleReq.pc = "idle"
    BY DEF IdleReq
  <2> QED BY <2>1, <2>2, IdleTypes DEF RequestsOK, RequestOK, Executing
<1>3. << >> \in Seq(Nat)
  BY EmptySeq
<1> QED
  BY <1>1, <1>2, <1>3, IdleTypes DEF Init, TypeInv, TypeOK

(***************************************************************************)
(* Every table, every request in progress and the cluster always have      *)
(* their types: in particular no handler is ever between two calls with an *)
(* action that does not exist.                                             *)
(***************************************************************************)
THEOREM ServiceTypeOK == Spec => []TypeOK
<1>1. Init => TypeInv
  BY TypeInit
<1>2. TypeInv /\ [Next]_vars => TypeInv'
  BY TypeStep
<1>3. TypeInv => TypeOK
  BY DEF TypeInv
<1> QED BY <1>1, <1>2, <1>3, PTL DEF Spec

-----------------------------------------------------------------------------
(***************************************************************************)
(* The decisions on response actions: an action is decided once, by an     *)
(* admin, executed by one request, and shown as executed only when it was. *)
(*                                                                         *)
(* The proof first sorts the steps of the service into four shapes         *)
(* (StepShape) and then shows that each shape keeps the invariant.         *)
(***************************************************************************)
\* Request v does not enter, leave or advance executeAction past its return,
\* other than by ending.
SameExecution(v) ==
    req'[v].pc \in Executing =>
        /\ req[v].pc \in Executing
        /\ req'[v].act = req[v].act /\ req'[v].inc = req[v].inc
        /\ req'[v].ok = req[v].ok
        /\ req'[v].pc = "mark" <=> req[v].pc = "mark"
        /\ req'[v].pc = "podOp" <=> req[v].pc = "podOp"

\* A request about to decide: it passed the gate for admins.
ByAdmin(r) ==
    r.pc = "decide" => /\ r.user \in Users /\ RoleOf[r.user] = "admin"
                       /\ r.kind \in {"approve", "reject"}

SameDecider(v) == ByAdmin(req[v]) => ByAdmin(req'[v])

\* No decision, no outcome, no effect; at most a new pending action.
Passive ==
    /\ Len(actions) <= Len(actions') /\ Len(actions') <= Len(actions) + 1
    /\ \A a \in ActionIds : actions'[a] = actions[a]
    /\ \A a \in ActionIds' : a \notin ActionIds =>
          actions'[a].status = "pending" /\ actions'[a].decidedBy = Nobody
    /\ UNCHANGED <<effects, policy>>
    /\ \A v \in Workers : SameExecution(v) /\ SameDecider(v)

OthersSame(w) == \A v \in Workers : v # w => req'[v] = req[v]

\* executeAction returns, with or without an effect.
Returns(w) ==
    /\ req[w].pc \in Executing /\ req[w].pc # "mark"
    /\ req'[w].pc = "mark" /\ req'[w].act = req[w].act /\ req'[w].inc = req[w].inc
    /\ OthersSame(w)
    /\ UNCHANGED actions
    /\ \/ UNCHANGED <<effects, policy>> /\ ~req'[w].ok
       \/ /\ effects' = Append(effects, req[w].act)
          /\ \A i \in Incidents : policy[i] > 0 => policy'[i] > 0
          /\ req[w].pc # "podOp" /\ ApplyMode = "apply" => policy'[req[w].inc] > 0

\* DecideAction finds the action pending.
Decides(w) ==
    /\ req[w].pc = "decide"
    /\ DecideAction(req[w].act, req[w].kind, req[w].user)
    /\ OthersSame(w)
    /\ UNCHANGED <<effects, policy>>
    /\ req'[w].pc # "decide"
    /\ req'[w].pc \in Executing =>
          /\ req[w].kind # "reject"
          /\ req'[w].act = req[w].act
          /\ req'[w].inc = actions[req[w].act].incident
          /\ req'[w].pc = NextAfterApproval(actions[req[w].act].type)

\* MarkActionExecuted stores the outcome.
Marks(w) ==
    /\ req[w].pc = "mark"
    /\ MarkActionExecuted(req[w].act, req[w].ok)
    /\ OthersSame(w)
    /\ UNCHANGED <<effects, policy>>
    /\ req'[w].pc \notin Executing \cup {"decide"}

Shape == Passive \/ \E w \in Workers : Returns(w) \/ Decides(w) \/ Marks(w)

-----------------------------------------------------------------------------
\* A step that writes one request and leaves actions, effects and policies.
LEMMA PassiveRequest ==
    ASSUME TypeInv, UNCHANGED <<actions, effects, policy>>,
           NEW w \in Workers, NEW r, req' = [req EXCEPT ![w] = r],
           r.pc # "decide" \/ ByAdmin(r),
           r.pc \in Executing =>
              /\ req[w].pc \in Executing
              /\ r.act = req[w].act /\ r.inc = req[w].inc /\ r.ok = req[w].ok
              /\ r.pc = "mark" <=> req[w].pc = "mark"
              /\ r.pc = "podOp" <=> req[w].pc = "podOp"
    PROVE  Passive
<1>1. actions \in Seq(ActionRow) /\ Len(actions) \in Nat
  BY LenProperties DEF TypeInv, TypeOK, StoreTypeOK
<1>2. req'[w] = r /\ \A v \in Workers : v # w => req'[v] = req[v]
  BY DEF TypeInv, TypeOK
<1>3. \A v \in Workers : SameExecution(v)
  BY <1>2 DEF SameExecution
<1>4. \A v \in Workers : SameDecider(v)
  BY <1>2 DEF SameDecider, ByAdmin
<1> QED BY <1>1, <1>3, <1>4 DEF Passive, ActionIds

\* A request that ends is passive, and so is one that moves outside executeAction.
LEMMA PassiveFinish ==
    ASSUME TypeInv, UNCHANGED <<actions, effects, policy>>,
           NEW w \in Workers, Finish(w)
    PROVE  Passive
<1>1. IdleReq.pc = "idle"
  BY DEF IdleReq
<1> QED BY <1>1, PassiveRequest DEF Finish, Executing

\* A handler that only moves on to its next call is passive.
LEMMA PassiveGoto ==
    ASSUME TypeInv, UNCHANGED <<actions, effects, policy>>,
           NEW w \in Workers, NEW pc, Goto(w, pc), pc # "decide",
           pc \notin Executing \/ (/\ req[w].pc \in Executing
                                   /\ pc \notin {"mark", "podOp"}
                                   /\ req[w].pc \notin {"mark", "podOp"})
    PROVE  Passive
<1> DEFINE r == [req[w] EXCEPT !.pc = pc]
<1>1. req[w] \in Request
  BY DEF TypeInv, TypeOK
<1>2. r.pc = pc /\ r.act = req[w].act /\ r.inc = req[w].inc /\ r.ok = req[w].ok
  BY <1>1 DEF Request
<1>3. req' = [req EXCEPT ![w] = r]
  BY DEF Goto
<1> HIDE DEF r
<1> QED BY <1>2, <1>3, PassiveRequest

\* A new action is pending.
LEMMA PassiveCreate ==
    ASSUME TypeInv, UNCHANGED <<effects, policy>>,
           NEW i \in Incidents, NEW type \in ActionTypes, NEW pod \in Pods \cup {NoPod},
           CreateAction(i, type, pod),
           \A v \in Workers : SameExecution(v) /\ SameDecider(v)
    PROVE  Passive
<1>1. actions \in Seq(ActionRow) /\ Len(actions) \in Nat
  BY LenProperties DEF TypeInv, TypeOK, StoreTypeOK
<1>2. /\ actions' \in Seq(ActionRow) /\ Len(actions') = Len(actions) + 1
      /\ \A a \in ActionIds : actions'[a] = actions[a]
      /\ actions'[Len(actions) + 1] = NewAction(i, type, pod)
  BY <1>1, CreateFacts
<1>3. ASSUME NEW a \in ActionIds', a \notin ActionIds
      PROVE  actions'[a].status = "pending" /\ actions'[a].decidedBy = Nobody
  <2>1. a = Len(actions) + 1
    BY <1>1, <1>2, <1>3 DEF ActionIds
  <2> QED BY <1>2, <2>1 DEF NewAction
<1> QED BY <1>1, <1>2, <1>3 DEF Passive

\* Nothing of a request changes.
LEMMA SameRequest ==
    ASSUME UNCHANGED req
    PROVE  \A v \in Workers : SameExecution(v) /\ SameDecider(v)
BY DEF SameExecution, SameDecider

\* A step that leaves the requests, actions, effects and policies is passive.
LEMMA PassiveSame ==
    ASSUME TypeInv, UNCHANGED <<actions, effects, policy, req>>
    PROVE  Passive
<1>1. Len(actions) \in Nat
  BY LenProperties DEF TypeInv, TypeOK, StoreTypeOK
<1> QED BY <1>1, SameRequest DEF Passive, ActionIds

-----------------------------------------------------------------------------
\* What the subscriber does is passive.
LEMMA SubscriberShape ==
    ASSUME TypeInv, SubscriberReceive \/ SubscriberStep
    PROVE  Passive
<1>0. UNCHANGED <<req, effects, policy>>
  BY DEF SubscriberReceive, SubscriberStep, reqVars, clusterVars
<1>1. CASE UNCHANGED actions
  BY <1>0, <1>1, PassiveSame
<1>2. CASE CreateAction(sub.inc, "quarantine_pod", NoPod)
  <2>1. sub.inc \in Incidents
    BY DEF TypeInv, TypeOK, Subscriber
  <2>2. "quarantine_pod" \in ActionTypes
    BY DEF ActionTypes
  <2> QED BY <1>0, <1>2, <2>1, <2>2, SameRequest, PassiveCreate
<1>3. CASE SubscriberReceive
  BY <1>1, <1>3 DEF SubscriberReceive, SubDrop, SubUpsert, Receive
<1>4. CASE SubDraft
  BY <1>1, <1>2, <1>4 DEF SubDraft
<1>5. CASE SubAuditCreated \/ SubNotify \/ SubResolve \/ SubList \/ SubAuditDraft
  BY <1>1, <1>5
  DEF SubAuditCreated, SubNotify, SubResolve, SubList, SubAuditDraft, storeVars
<1> QED BY <1>3, <1>4, <1>5 DEF SubscriberStep

\* Only admins start a decision.
LEMMA StartShape ==
    ASSUME TypeInv, NEW w \in Workers, StartRequest(w)
    PROVE  Passive
<1>0. UNCHANGED <<actions, effects, policy>>
  BY DEF StartRequest, storeVars, clusterVars
<1>1. IdleReq \in Request
  BY IdleTypes
<1>2. PICK user \in Users :
        \/ \E i \in Incidents, want \in NewStatuses : StartStatus(w, user, i, want)
        \/ \E kind \in {"approve", "reject"}, a \in ActionIds :
              StartDecision(w, kind, user, a)
        \/ \E i \in Incidents, type \in {"delete_pod", "shutdown_pod"}, pod \in Pods :
              StartFollowUp(w, user, i, type, pod)
  BY DEF StartRequest
<1>3. ASSUME NEW i \in Incidents, NEW want \in NewStatuses, StartStatus(w, user, i, want)
      PROVE  Passive
  <2> DEFINE r == [IdleReq EXCEPT !.pc = "readIncident", !.user = user,
                                  !.inc = i, !.want = want]
  <2>1. req' = [req EXCEPT ![w] = r]
    BY <1>3 DEF StartStatus, Admit
  <2>2. r.pc = "readIncident"
    BY <1>1 DEF Request
  <2> HIDE DEF r
  <2>3. r.pc # "decide" /\ r.pc \notin Executing
    BY <2>2 DEF Executing
  <2> QED BY <1>0, <2>1, <2>3, PassiveRequest
<1>4. ASSUME NEW kind \in {"approve", "reject"}, NEW a \in ActionIds,
             StartDecision(w, kind, user, a)
      PROVE  Passive
  <2> DEFINE r == [IdleReq EXCEPT !.pc = "decide", !.kind = kind,
                                  !.user = user, !.act = a]
  <2>1. req' = [req EXCEPT ![w] = r] /\ Allowed(user, "admin")
    BY <1>4 DEF StartDecision, Admit
  <2>2. r.pc = "decide" /\ r.user = user /\ r.kind = kind
    BY <1>1 DEF Request
  <2>3. RoleOf[user] = "admin"
    BY <2>1, ServiceAssumption DEF Allowed, RoleRank, Roles
  <2> HIDE DEF r
  <2>4. ByAdmin(r) /\ r.pc \notin Executing
    BY <2>2, <2>3 DEF ByAdmin, Executing
  <2> QED BY <1>0, <2>1, <2>4, PassiveRequest
<1>5. ASSUME NEW i \in Incidents, NEW type \in {"delete_pod", "shutdown_pod"},
             NEW pod \in Pods, StartFollowUp(w, user, i, type, pod)
      PROVE  Passive
  <2> DEFINE r == [IdleReq EXCEPT !.pc = "readForFollowUp", !.kind = type,
                                  !.user = user, !.inc = i, !.pod = pod]
  <2>1. req' = [req EXCEPT ![w] = r]
    BY <1>5 DEF StartFollowUp, Admit
  <2>2. r.pc = "readForFollowUp"
    BY <1>1 DEF Request
  <2> HIDE DEF r
  <2>3. r.pc # "decide" /\ r.pc \notin Executing
    BY <2>2 DEF Executing
  <2> QED BY <1>0, <2>1, <2>3, PassiveRequest
<1> QED BY <1>2, <1>3, <1>4, <1>5

\* What a request does with the tables, apart from deciding and marking, is
\* passive.
LEMMA StoreShape ==
    ASSUME TypeInv, NEW w \in Workers, StoreStep(w)
    PROVE  Passive \/ Decides(w) \/ Marks(w)
<1>0. UNCHANGED <<effects, policy>>
  BY DEF StoreStep, clusterVars
<1>1. req[w] \in Request /\ RequestOK(req[w])
  BY DEF TypeInv, TypeOK, RequestsOK
<1>2. req[w].inc \in Incidents /\ req[w].pod \in Pods \cup {NoPod}
  BY <1>1 DEF Request
<1>3. ASSUME UNCHANGED actions, Finish(w) PROVE Passive
  BY <1>0, <1>3, PassiveFinish
<1>4. ASSUME NEW pc \in {"rereadStatus", "draft", "createFollowUp"},
             UNCHANGED actions, Goto(w, pc)
      PROVE  Passive
  BY <1>0, <1>4, PassiveGoto DEF Executing
<1>5. ASSUME UNCHANGED actions, NEW r, req' = [req EXCEPT ![w] = r],
             r.pc \in {"writeStatus", "auditStatus"}
      PROVE  Passive
  <2>1. r.pc # "decide" /\ r.pc \notin Executing
    BY <1>5 DEF Executing
  <2> QED BY <1>0, <1>5, <2>1, PassiveRequest
<1>6. ASSUME NEW type \in ActionTypes, NEW pod \in Pods \cup {NoPod},
             NEW pc \in {"auditDraft", "auditFollowUp"}, Draft(w, type, pod, pc)
      PROVE  Passive
  <2>1. CASE Finish(w) /\ UNCHANGED actions
    BY <2>1, <1>3
  <2>2. CASE /\ CreateAction(req[w].inc, type, pod)
             /\ req' = [req EXCEPT ![w] =
                           [@ EXCEPT !.pc = pc, !.act = Len(actions) + 1]]
    <3> DEFINE r == [req[w] EXCEPT !.pc = pc, !.act = Len(actions) + 1]
    <3>1. r.pc = pc
      BY <1>1 DEF Request
    <3>2. req' = [req EXCEPT ![w] = r]
      BY <2>2
    <3> HIDE DEF r
    <3>3. req'[w].pc = pc /\ \A v \in Workers : v # w => req'[v] = req[v]
      BY <3>1, <3>2 DEF TypeInv, TypeOK
    <3>4. \A v \in Workers : SameExecution(v) /\ SameDecider(v)
      BY <3>3 DEF SameExecution, SameDecider, ByAdmin, Executing
    <3> QED BY <1>0, <1>2, <2>2, <3>4, PassiveCreate
  <2> QED BY <1>6, <2>1, <2>2 DEF Draft
<1>7. CASE ReadIncident(w)
  <2> DEFINE r == [req[w] EXCEPT !.pc = "writeStatus", !.prev = incidents[req[w].inc]]
  <2>1. UNCHANGED actions
    BY <1>7 DEF ReadIncident, storeVars
  <2>2. r.pc = "writeStatus"
    BY <1>1 DEF Request
  <2>3. Finish(w) \/ req' = [req EXCEPT ![w] = r]
    BY <1>7 DEF ReadIncident
  <2> HIDE DEF r
  <2> QED BY <2>1, <2>2, <2>3, <1>3, <1>5
<1>8. CASE WriteStatus(w)
  BY <1>8, <1>3, <1>4 DEF WriteStatus
<1>9. CASE RereadStatus(w)
  <2> DEFINE r == [req[w] EXCEPT !.pc = "auditStatus",
                                 !.want = incidents[req[w].inc].status]
  <2>1. UNCHANGED actions
    BY <1>9 DEF RereadStatus, storeVars
  <2>2. r.pc = "auditStatus"
    BY <1>1 DEF Request
  <2>3. Finish(w) \/ req' = [req EXCEPT ![w] = r]
    BY <1>9 DEF RereadStatus
  <2> HIDE DEF r
  <2> QED BY <2>1, <2>2, <2>3, <1>3, <1>5
<1>10. CASE AuditStatus(w)
  BY <1>10, <1>3, <1>4 DEF AuditStatus
<1>11. CASE DraftOnAck(w)
  BY <1>11, <1>6 DEF DraftOnAck, ActionTypes
<1>12. CASE ReadForFollowUp(w)
  BY <1>12, <1>3, <1>4 DEF ReadForFollowUp, storeVars
<1>13. CASE CreateFollowUp(w)
  <2>1. req[w].kind \in ActionTypes
    BY <1>1, <1>13 DEF RequestOK, CreateFollowUp, FollowUpTypes, ActionTypes
  <2> QED BY <1>13, <2>1, <1>2, <1>6 DEF CreateFollowUp
<1>14. CASE AuditSteps(w)
  BY <1>14, <1>3 DEF AuditSteps, AuditLast
<1>15. CASE Decide(w)
  <2>1. CASE Finish(w) /\ UNCHANGED actions
    BY <2>1, <1>3
  <2>2. CASE DecideAction(req[w].act, req[w].kind, req[w].user)
    <3> DEFINE a == req[w].act
               r == [req[w] EXCEPT !.pc = NextAfterApproval(actions[a].type),
                                   !.inc = actions[a].incident,
                                   !.pod = actions[a].pod]
    <3>1. req[w].pc = "decide"
      BY <1>15 DEF Decide
    <3>2. CASE Finish(w)
      <4>1. req'[w] = IdleReq /\ OthersSame(w)
        BY <3>2 DEF Finish, OthersSame, TypeInv, TypeOK
      <4>2. IdleReq.pc = "idle"
        BY DEF IdleReq
      <4> QED BY <1>0, <2>2, <3>1, <4>1, <4>2 DEF Decides, Executing
    <3>3. CASE Goto(w, "auditRejected")
      <4>1. req'[w].pc = "auditRejected" /\ OthersSame(w)
        BY <1>1, <3>3 DEF Goto, OthersSame, TypeInv, TypeOK, Request
      <4> QED BY <1>0, <2>2, <3>1, <4>1 DEF Decides, Executing
    <3>4. CASE req[w].kind # "reject" /\ req' = [req EXCEPT ![w] = r]
      <4>1. req'[w] = r /\ OthersSame(w)
        BY <3>4 DEF OthersSame, TypeInv, TypeOK
      <4>2. /\ r.pc = NextAfterApproval(actions[a].type)
            /\ r.inc = actions[a].incident /\ r.act = a
        BY <1>1 DEF Request
      <4>3. r.pc # "decide"
        BY <4>2 DEF NextAfterApproval
      <4> HIDE DEF r
      <4> QED BY <1>0, <2>2, <3>1, <3>4, <4>1, <4>2, <4>3 DEF Decides
    <3>5. Finish(w) \/ Goto(w, "auditRejected")
             \/ (req[w].kind # "reject" /\ req' = [req EXCEPT ![w] = r])
      BY <1>15 DEF Decide
    <3> QED BY <3>2, <3>3, <3>4, <3>5
  <2> QED BY <1>15, <2>1, <2>2 DEF Decide
<1>16. CASE Mark(w)
  <2>1. CASE Finish(w) /\ UNCHANGED actions
    BY <2>1, <1>3
  <2>2. CASE MarkActionExecuted(req[w].act, req[w].ok) /\ Goto(w, "auditApproved")
    <3>1. req'[w].pc = "auditApproved" /\ OthersSame(w)
      BY <1>1, <2>2 DEF Goto, OthersSame, TypeInv, TypeOK, Request
    <3> QED BY <1>0, <1>16, <2>2, <3>1 DEF Marks, Mark, Executing
  <2> QED BY <1>16, <2>1, <2>2 DEF Mark
<1> QED
  BY <1>7, <1>8, <1>9, <1>10, <1>11, <1>12, <1>13, <1>14, <1>15, <1>16 DEF StoreStep

\* What executeAction does is passive until it returns.
LEMMA ClusterShape ==
    ASSUME TypeInv, NEW w \in Workers, ClusterStep(w)
    PROVE  Passive \/ Returns(w)
<1>0. UNCHANGED actions
  BY DEF ClusterStep, storeVars
<1>1. req[w] \in Request /\ policy \in [Incidents -> Nat]
  BY DEF TypeInv, TypeOK
<1>2. req[w].inc \in Incidents
  BY <1>1 DEF Request
<1>3. ASSUME NEW ok, Return(w, ok)
      PROVE  /\ req'[w].pc = "mark" /\ req'[w].act = req[w].act
             /\ req'[w].inc = req[w].inc /\ req'[w].ok = ok /\ OthersSame(w)
  BY <1>1, <1>3 DEF Return, OthersSame, TypeInv, TypeOK, Request
<1>4. ASSUME req[w].pc \in Executing, req[w].pc # "mark",
             Return(w, FALSE), UNCHANGED <<effects, policy>>
      PROVE  Returns(w)
  <2>1. /\ req'[w].pc = "mark" /\ req'[w].act = req[w].act
        /\ req'[w].inc = req[w].inc /\ ~req'[w].ok /\ OthersSame(w)
    BY <1>3, <1>4
  <2> QED BY <1>0, <1>4, <2>1 DEF Returns
<1>5. ASSUME req[w].pc \in Executing, req[w].pc # "mark", NEW o \in Writes(w),
             Return(w, o.ok), Effect(w, o.did), o.did => \A i \in Incidents : policy[i] > 0 => policy'[i] > 0,
             ~o.did => UNCHANGED policy,
             o.did /\ req[w].pc # "podOp" /\ ApplyMode = "apply" => policy'[req[w].inc] > 0
      PROVE  Returns(w)
  <2>1. /\ req'[w].pc = "mark" /\ req'[w].act = req[w].act
        /\ req'[w].inc = req[w].inc /\ req'[w].ok = o.ok /\ OthersSame(w)
    BY <1>3, <1>5
  <2>2. o.ok => o.did
    BY <1>5 DEF Writes
  <2>3. CASE o.did
    <3>1. effects' = Append(effects, req[w].act)
      BY <1>5, <2>3 DEF Effect
    <3> QED BY <1>0, <1>5, <2>1, <2>3, <3>1 DEF Returns
  <2>4. CASE ~o.did
    <3>1. UNCHANGED <<effects, policy>> /\ ~req'[w].ok
      BY <1>5, <2>1, <2>2, <2>4 DEF Effect
    <3> QED BY <1>0, <1>5, <2>1, <3>1 DEF Returns
  <2> QED BY <2>3, <2>4
<1>6. ASSUME NEW pc \in {"createPolicy", "getPolicy"}, Goto(w, pc),
             req[w].pc \in {"label", "createPolicy"}, UNCHANGED <<effects, policy>>
      PROVE  Passive
  <2>1. pc # "decide" /\ pc \notin {"mark", "podOp"}
    OBVIOUS
  <2>2. req[w].pc \in Executing /\ req[w].pc \notin {"mark", "podOp"}
    BY <1>6 DEF Executing
  <2> QED BY <1>0, <1>6, <2>1, <2>2, PassiveGoto
<1>7. CASE Label(w)
  BY <1>6, <1>7 DEF Label
<1>8. CASE CreatePolicy(w)
  <2>1. req[w].pc = "createPolicy" /\ req[w].pc \in Executing /\ req[w].pc # "mark"
    BY <1>8 DEF CreatePolicy, Executing
  <2>2. CASE ApplyMode = "apply" /\ policy[req[w].inc] > 0
    BY <1>4, <1>6, <1>8, <2>1, <2>2 DEF CreatePolicy
  <2>3. CASE ~(ApplyMode = "apply" /\ policy[req[w].inc] > 0)
    <3>1. PICK o \in Writes(w) :
             /\ Effect(w, o.did)
             /\ policy' = IF o.did /\ ApplyMode = "apply"
                          THEN [policy EXCEPT ![req[w].inc] = 1] ELSE policy
             /\ Return(w, o.ok)
      BY <1>8, <2>3 DEF CreatePolicy
    <3>2. \A i \in Incidents : policy[i] > 0 => policy'[i] > 0
      BY <1>1, <1>2, <3>1
    <3>3. o.did /\ ApplyMode = "apply" => policy'[req[w].inc] > 0
      BY <1>1, <1>2, <3>1
    <3>4. ~o.did => UNCHANGED policy
      BY <3>1
    <3> QED BY <2>1, <3>1, <3>2, <3>3, <3>4, <1>5
  <2> QED BY <2>2, <2>3
<1>9. CASE GetPolicy(w)
  <2>1. req[w].pc = "getPolicy" /\ req[w].pc \in Executing /\ req[w].pc # "mark"
    BY <1>9 DEF GetPolicy, Executing
  <2>2. UNCHANGED <<effects, policy>>
    BY <1>9 DEF GetPolicy, clusterVars
  <2>3. CASE Return(w, FALSE)
    BY <2>1, <2>2, <2>3, <1>4
  <2>4. CASE req' = [req EXCEPT ![w] = [@ EXCEPT !.pc = "updatePolicy",
                                                    !.rv = policy[req[w].inc]]]
    <3> DEFINE r == [req[w] EXCEPT !.pc = "updatePolicy", !.rv = policy[req[w].inc]]
    <3>1. /\ r.pc = "updatePolicy" /\ r.act = req[w].act /\ r.inc = req[w].inc
          /\ r.ok = req[w].ok
      BY <1>1 DEF Request
    <3>2. req' = [req EXCEPT ![w] = r]
      BY <2>4
    <3> HIDE DEF r
    <3>3. r.pc # "decide" /\ r.pc # "mark" /\ r.pc # "podOp"
      BY <3>1
    <3> QED BY <1>0, <2>1, <2>2, <3>1, <3>2, <3>3, PassiveRequest
  <2> QED BY <1>9, <2>3, <2>4 DEF GetPolicy
<1>10. CASE UpdatePolicy(w)
  <2>1. req[w].pc = "updatePolicy" /\ req[w].pc \in Executing /\ req[w].pc # "mark"
    BY <1>10 DEF UpdatePolicy, RefusedUpdate, Executing
  <2>2. CASE Return(w, FALSE) /\ UNCHANGED <<policy, effects>>
    BY <2>1, <2>2, <1>4
  <2>3. ASSUME NEW o \in Writes(w),
               policy' = IF o.did THEN [policy EXCEPT ![req[w].inc] = @ + 1] ELSE policy,
               Effect(w, o.did), Return(w, o.ok)
        PROVE  Returns(w)
    <3>1. \A i \in Incidents : policy[i] > 0 => policy'[i] > 0
      BY <1>1, <1>2, <2>3
    <3>2. o.did => policy'[req[w].inc] > 0
      BY <1>1, <1>2, <2>3
    <3>3. ~o.did => UNCHANGED policy
      BY <2>3
    <3> QED BY <2>1, <2>3, <3>1, <3>2, <3>3, <1>5
  <2> QED BY <1>10, <2>2, <2>3 DEF UpdatePolicy, RefusedUpdate
<1>11. CASE PodOp(w)
  <2>1. req[w].pc = "podOp" /\ req[w].pc \in Executing /\ req[w].pc # "mark"
    BY <1>11 DEF PodOp, Executing
  <2>2. UNCHANGED policy
    BY <1>11 DEF PodOp
  <2>3. PICK o \in Writes(w) :
          \/ Return(w, FALSE) /\ UNCHANGED effects
          \/ Effect(w, o.did) /\ Return(w, o.ok)
    BY <1>11 DEF PodOp
  <2> QED BY <2>1, <2>2, <2>3, <1>4, <1>5
<1> QED
  BY <1>7, <1>8, <1>9, <1>10, <1>11 DEF ClusterStep

\* Every step of the service has one of the four shapes.
LEMMA StepShape == TypeInv /\ [Next]_vars => Shape
<1> SUFFICES ASSUME TypeInv, [Next]_vars PROVE Shape
  OBVIOUS
<1>1. CASE SubscriberReceive \/ SubscriberStep
  BY <1>1, SubscriberShape DEF Shape
<1>2. ASSUME NEW w \in Workers, StartRequest(w) PROVE Shape
  BY <1>2, StartShape DEF Shape
<1>3. ASSUME NEW w \in Workers, HandlerStep(w) PROVE Shape
  BY <1>3, StoreShape, ClusterShape DEF HandlerStep, Shape
<1>4. ASSUME NEW w \in Workers, Disconnect(w) PROVE Shape
  <2> DEFINE r == [req[w] EXCEPT !.gone = TRUE]
  <2>1. req[w] \in Request
    BY DEF TypeInv, TypeOK
  <2>2. /\ r.pc = req[w].pc /\ r.kind = req[w].kind /\ r.act = req[w].act
        /\ r.inc = req[w].inc /\ r.ok = req[w].ok /\ r.user = req[w].user
    BY <2>1 DEF Request
  <2>3. req' = [req EXCEPT ![w] = r]
    BY <1>4 DEF Disconnect
  <2> HIDE DEF r
  <2>4. UNCHANGED <<actions, effects, policy>>
    BY <1>4 DEF Disconnect, storeVars, clusterVars
  <2>5. req'[w] = r /\ \A v \in Workers : v # w => req'[v] = req[v]
    BY <2>3 DEF TypeInv, TypeOK
  <2>6. \A v \in Workers : SameExecution(v) /\ SameDecider(v)
    BY <2>2, <2>5 DEF SameExecution, SameDecider, ByAdmin
  <2>7. Len(actions) \in Nat
    BY LenProperties DEF TypeInv, TypeOK, StoreTypeOK
  <2> QED BY <2>4, <2>6, <2>7 DEF Shape, Passive, ActionIds
<1>5. CASE Crash
  <2>1. UNCHANGED <<actions, effects, policy>> /\ req' = [w \in Workers |-> IdleReq]
    BY <1>5 DEF Crash, storeVars, clusterVars
  <2>2. IdleReq.pc = "idle"
    BY DEF IdleReq
  <2>3. \A v \in Workers : SameExecution(v) /\ SameDecider(v)
    BY <2>1, <2>2 DEF SameExecution, SameDecider, ByAdmin, Executing
  <2>4. Len(actions) \in Nat
    BY LenProperties DEF TypeInv, TypeOK, StoreTypeOK
  <2> QED BY <2>1, <2>3, <2>4 DEF Shape, Passive, ActionIds
<1>6. ASSUME NEW i \in Incidents, Churn(i) PROVE Shape
  <2>1. UNCHANGED <<actions, effects, policy, req>>
    BY <1>6 DEF Churn, storeVars, reqVars
  <2> QED BY <2>1, PassiveSame DEF Shape
<1>7. CASE UNCHANGED vars
  <2>1. UNCHANGED <<actions, effects, policy, req>>
    BY <1>7 DEF vars, storeVars, reqVars, clusterVars
  <2> QED BY <2>1, PassiveSame DEF Shape
<1> QED
  BY <1>1, <1>2, <1>3, <1>4, <1>5, <1>6, <1>7 DEF Next

-----------------------------------------------------------------------------
(***************************************************************************)
(* The invariant.  The properties alone are not inductive: they need that  *)
(* only admins decide, that a request in executeAction knows its action's  *)
(* incident, and that a quarantine which returned success left a policy.   *)
(***************************************************************************)
AdminsDecide ==
    /\ \A w \in Workers : ByAdmin(req[w])
    /\ \A a \in ActionIds : actions[a].status # "pending" =>
          RoleOf[actions[a].decidedBy] = "admin"

Quarantines(a) == actions[a].type = "quarantine_pod" /\ ApplyMode = "apply"

PolicyInPlace ==
    \A w \in Workers : req[w].pc \in Executing =>
        /\ req[w].inc = actions[req[w].act].incident
        /\ req[w].pc = "podOp" => ~Quarantines(req[w].act)
        /\ req[w].pc = "mark" /\ req[w].ok /\ Quarantines(req[w].act) =>
              policy[req[w].inc] > 0

DecisionInv ==
    AdminsDecide /\ OneExecutor /\ EffectsAreApproved
    /\ PolicyInPlace /\ ExecutedMeansApplied

\* Passive steps keep the invariant.
LEMMA PassiveKeeps ==
    ASSUME TypeInv, DecisionInv, Passive, actions' \in Seq(ActionRow)
    PROVE  DecisionInv'
<1>0. Len(actions) \in Nat /\ Len(actions') \in Nat
  BY LenProperties DEF TypeInv, TypeOK, StoreTypeOK
<1>1. ActionIds \subseteq ActionIds'
  BY <1>0 DEF Passive, ActionIds
<1>2. /\ \A a \in ActionIds : actions'[a] = actions[a]
      /\ \A a \in ActionIds' : a \notin ActionIds => actions'[a].status = "pending"
      /\ UNCHANGED <<effects, policy>>
      /\ \A v \in Workers : SameExecution(v) /\ SameDecider(v)
  BY DEF Passive
<1>3. \A a : Applied(a)' <=> Applied(a)
  BY <1>2 DEF Applied
<1>4. \A w \in Workers : req[w].pc \in Executing => req[w].act \in ActionIds
  BY DEF DecisionInv, OneExecutor
<1>5. AdminsDecide'
  BY <1>2 DEF DecisionInv, AdminsDecide, SameDecider
<1>6. OneExecutor'
  <2>1. ASSUME NEW w \in Workers, req'[w].pc \in Executing
        PROVE  /\ req'[w].act \in ActionIds'
               /\ actions'[req'[w].act].status = "approved"
               /\ Applied(req[w].act)' => req'[w].pc = "mark"
               /\ req'[w].pc = "mark" /\ req'[w].ok => Applied(req[w].act)'
    <3>1. /\ req[w].pc \in Executing /\ req'[w].act = req[w].act
          /\ req'[w].ok = req[w].ok
          /\ req'[w].pc = "mark" <=> req[w].pc = "mark"
      BY <1>2, <2>1 DEF SameExecution
    <3>2. /\ req[w].act \in ActionIds
          /\ actions[req[w].act].status = "approved"
          /\ Applied(req[w].act) => req[w].pc = "mark"
          /\ req[w].pc = "mark" /\ req[w].ok => Applied(req[w].act)
      BY <3>1 DEF DecisionInv, OneExecutor
    <3>3. Applied(req[w].act)' <=> Applied(req[w].act)
      BY <1>2, <3>1 DEF Applied
    <3> QED BY <1>1, <1>2, <3>1, <3>2, <3>3
  <2>2. ASSUME NEW v \in Workers, NEW w \in Workers, req'[v].pc \in Executing,
               req'[w].pc \in Executing, req'[v].act = req'[w].act
        PROVE  v = w
    BY <1>2, <2>2 DEF DecisionInv, OneExecutor, SameExecution
  <2> QED BY <2>1, <2>2 DEF OneExecutor
<1>7. EffectsAreApproved'
  BY <1>1, <1>2 DEF DecisionInv, EffectsAreApproved
<1>8. PolicyInPlace'
  <2> SUFFICES ASSUME NEW w \in Workers, req'[w].pc \in Executing
               PROVE  /\ req'[w].inc = actions'[req'[w].act].incident
                      /\ req'[w].pc = "podOp" => ~Quarantines(req[w].act)'
                      /\ req'[w].pc = "mark" /\ req'[w].ok /\ Quarantines(req[w].act)' =>
                            policy'[req'[w].inc] > 0
    BY DEF PolicyInPlace
  <2>1. /\ req[w].pc \in Executing /\ req'[w].act = req[w].act
        /\ req'[w].inc = req[w].inc /\ req'[w].ok = req[w].ok
        /\ req'[w].pc = "mark" <=> req[w].pc = "mark"
        /\ req'[w].pc = "podOp" <=> req[w].pc = "podOp"
    BY <1>2 DEF SameExecution
  <2>2. actions'[req[w].act] = actions[req[w].act]
    BY <1>2, <1>4, <2>1
  <2> QED BY <1>2, <2>1, <2>2 DEF DecisionInv, PolicyInPlace, Quarantines
<1>9. ExecutedMeansApplied'
  <2> SUFFICES ASSUME NEW a \in ActionIds', actions'[a].status = "executed"
               PROVE  /\ Applied(a)'
                      /\ actions'[a].type = "quarantine_pod" /\ ApplyMode = "apply" =>
                            policy'[actions'[a].incident] > 0
    BY DEF ExecutedMeansApplied
  <2>1. a \in ActionIds /\ actions'[a] = actions[a]
    BY <1>2
  <2> QED BY <1>2, <1>3, <2>1 DEF DecisionInv, ExecutedMeansApplied
<1> QED BY <1>5, <1>6, <1>7, <1>8, <1>9 DEF DecisionInv

\* The return of executeAction keeps the invariant: the action had no effect
\* before, and nobody else executes it.
LEMMA ReturnsKeeps ==
    ASSUME TypeInv, DecisionInv, NEW w \in Workers, Returns(w), effects' \in Seq(Nat)
    PROVE  DecisionInv'
<1> DEFINE a == req[w].act
<1>0. effects \in Seq(Nat) /\ Len(effects) \in Nat /\ req[w] \in Request
  BY LenProperties DEF TypeInv, TypeOK
<1>1. /\ req[w].pc \in Executing /\ req[w].pc # "mark"
      /\ req'[w].pc = "mark" /\ req'[w].act = a /\ req'[w].inc = req[w].inc
      /\ \A v \in Workers : v # w => req'[v] = req[v]
      /\ UNCHANGED actions
  BY DEF Returns, OthersSame
<1>2. ActionIds' = ActionIds
  BY <1>1 DEF ActionIds
<1>3. /\ a \in ActionIds /\ actions[a].status = "approved" /\ ~Applied(a)
      /\ a \in Nat
  BY <1>0, <1>1 DEF DecisionInv, OneExecutor, Request
<1>4. \A v \in Workers : v # w /\ req[v].pc \in Executing => req[v].act # a
  BY <1>1 DEF DecisionInv, OneExecutor
<1>5. \/ UNCHANGED <<effects, policy>> /\ ~req'[w].ok
      \/ /\ effects' = Append(effects, a)
         /\ \A i \in Incidents : policy[i] > 0 => policy'[i] > 0
         /\ req[w].pc # "podOp" /\ ApplyMode = "apply" => policy'[req[w].inc] > 0
  BY DEF Returns
<1>6. \A i \in Incidents : policy[i] > 0 => policy'[i] > 0
  BY <1>5
<1>7. effects' = Append(effects, a) =>
         /\ DOMAIN effects' = 1..(Len(effects) + 1)
         /\ \A n \in DOMAIN effects : effects'[n] = effects[n]
         /\ effects'[Len(effects) + 1] = a
         /\ DOMAIN effects = 1..Len(effects)
  BY <1>0, <1>3, AppendProperties, LenProperties
<1>8. /\ \A b : b # a => (Applied(b)' <=> Applied(b))
      /\ \A b : Applied(b) => Applied(b)'
      /\ req'[w].ok => \E n \in DOMAIN effects' : effects'[n] = a
  <2>1. CASE UNCHANGED effects /\ ~req'[w].ok
    BY <2>1 DEF Applied
  <2>2. CASE effects' = Append(effects, a)
    <3>1. \A n \in DOMAIN effects' : n \in DOMAIN effects \/ n = Len(effects) + 1
      BY <1>0, <1>7, <2>2
    <3>2. Len(effects) + 1 \in DOMAIN effects' /\ DOMAIN effects \subseteq DOMAIN effects'
      BY <1>0, <1>7, <2>2
    <3> QED BY <1>7, <2>2, <3>1, <3>2 DEF Applied
  <2> QED BY <1>5, <2>1, <2>2
<1>9. AdminsDecide'
  <2>1. ASSUME NEW v \in Workers PROVE ByAdmin(req[v])'
    BY <1>1 DEF DecisionInv, AdminsDecide, ByAdmin
  <2> QED BY <1>1, <1>2, <2>1 DEF DecisionInv, AdminsDecide
<1>10. OneExecutor'
  <2>1. ASSUME NEW v \in Workers, req'[v].pc \in Executing
        PROVE  /\ req'[v].act \in ActionIds'
               /\ actions'[req'[v].act].status = "approved"
               /\ Applied(req[v].act)' => req'[v].pc = "mark"
               /\ req'[v].pc = "mark" /\ req'[v].ok => Applied(req[v].act)'
    <3>1. CASE v = w
      BY <1>1, <1>2, <1>3, <1>8, <3>1 DEF Applied
    <3>2. CASE v # w
      <4>1. req'[v] = req[v] /\ req[v].act # a
        BY <1>1, <1>4, <2>1, <3>2
      <4>2. Applied(req[v].act)' <=> Applied(req[v].act)
        BY <1>8, <4>1, ZenonT(30) DEF Applied
      <4> QED BY <1>1, <1>2, <2>1, <4>1, <4>2 DEF DecisionInv, OneExecutor
    <3> QED BY <3>1, <3>2
  <2>2. ASSUME NEW u \in Workers, NEW v \in Workers, req'[u].pc \in Executing,
               req'[v].pc \in Executing, req'[u].act = req'[v].act
        PROVE  u = v
    BY <1>1, <1>4, <2>2 DEF DecisionInv, OneExecutor
  <2> QED BY <2>1, <2>2 DEF OneExecutor
<1>11. EffectsAreApproved'
  <2>1. CASE UNCHANGED effects
    BY <1>1, <1>2, <2>1 DEF DecisionInv, EffectsAreApproved
  <2>2. CASE effects' = Append(effects, a)
    <3>1. \A n \in DOMAIN effects' : n \in DOMAIN effects \/ n = Len(effects) + 1
      BY <1>0, <1>7, <2>2
    <3>2. \A n \in DOMAIN effects : effects'[n] # a
      BY <1>3, <1>7, <2>2 DEF Applied
    <3>3. \A m, n \in DOMAIN effects' : effects'[m] = effects'[n] => m = n
      BY <1>7, <2>2, <3>1, <3>2 DEF DecisionInv, EffectsAreApproved
    <3>4. RoleOf[actions[a].decidedBy] = "admin"
      BY <1>3 DEF DecisionInv, AdminsDecide
    <3>5. ASSUME NEW n \in DOMAIN effects'
          PROVE  /\ effects'[n] \in ActionIds'
                 /\ actions'[effects'[n]].status \in {"approved", "executed", "failed"}
                 /\ RoleOf[actions'[effects'[n]].decidedBy] = "admin"
      BY <1>1, <1>2, <1>3, <1>7, <2>2, <3>1, <3>4 DEF DecisionInv, EffectsAreApproved
    <3> QED BY <3>3, <3>5 DEF EffectsAreApproved
  <2> QED BY <1>5, <2>1, <2>2
<1>12. PolicyInPlace'
  <2> SUFFICES ASSUME NEW v \in Workers, req'[v].pc \in Executing
               PROVE  /\ req'[v].inc = actions'[req'[v].act].incident
                      /\ req'[v].pc = "podOp" => ~Quarantines(req[v].act)'
                      /\ req'[v].pc = "mark" /\ req'[v].ok /\ Quarantines(req[v].act)' =>
                            policy'[req'[v].inc] > 0
    BY DEF PolicyInPlace
  <2>1. req[w].inc = actions[a].incident /\ (req[w].pc = "podOp" => ~Quarantines(a))
    BY <1>1 DEF DecisionInv, PolicyInPlace
  <2>2. CASE v = w
    <3>1. Quarantines(req[v].act)' <=> Quarantines(a)
      BY <1>1, <2>2 DEF Quarantines
    <3>2. req'[w].ok /\ Quarantines(a) => policy'[req[w].inc] > 0
      BY <1>5, <2>1 DEF Quarantines
    <3> QED BY <1>1, <2>1, <2>2, <3>1, <3>2
  <2>3. CASE v # w
    <3>1. req'[v] = req[v]
      BY <1>1, <2>3
    <3>2. Quarantines(req[v].act)' <=> Quarantines(req[v].act)
      BY <1>1, <3>1 DEF Quarantines
    <3>3. req[v].inc \in Incidents
      BY DEF TypeInv, TypeOK, Request
    <3> QED BY <1>1, <1>6, <3>1, <3>2, <3>3 DEF DecisionInv, PolicyInPlace
  <2> QED BY <2>2, <2>3
<1>13. ExecutedMeansApplied'
  <2> SUFFICES ASSUME NEW b \in ActionIds', actions'[b].status = "executed"
               PROVE  /\ Applied(b)'
                      /\ actions'[b].type = "quarantine_pod" /\ ApplyMode = "apply" =>
                            policy'[actions'[b].incident] > 0
    BY DEF ExecutedMeansApplied
  <2>1. b \in ActionIds /\ actions'[b] = actions[b]
    BY <1>1, <1>2
  <2>2. actions[b].incident \in Incidents
    <3>1. actions[b] \in ActionRow
      BY <2>1 DEF TypeInv, TypeOK, StoreTypeOK, ActionIds
    <3> QED BY <3>1 DEF ActionRow
  <2>3. Applied(b) /\ (actions[b].type = "quarantine_pod" /\ ApplyMode = "apply" =>
                          policy[actions[b].incident] > 0)
    BY <2>1 DEF DecisionInv, ExecutedMeansApplied
  <2> QED BY <1>6, <1>8, <2>1, <2>2, <2>3
<1> QED BY <1>9, <1>10, <1>11, <1>12, <1>13 DEF DecisionInv

\* A decision keeps the invariant: a pending action is nobody's yet.
LEMMA DecidesKeeps ==
    ASSUME TypeInv, DecisionInv, NEW w \in Workers, Decides(w)
    PROVE  DecisionInv'
<1> DEFINE a == req[w].act
<1>0. /\ actions \in Seq(ActionRow) /\ req[w] \in Request
      /\ req[w].user \in Users /\ RoleOf[req[w].user] = "admin"
      /\ req[w].kind \in {"approve", "reject"}
  <2>1. ByAdmin(req[w]) /\ req[w].pc = "decide"
    BY DEF DecisionInv, AdminsDecide, Decides
  <2> QED BY <2>1 DEF ByAdmin, TypeInv, TypeOK, StoreTypeOK
<1>1. /\ a \in ActionIds /\ actions[a].status = "pending"
      /\ Len(actions') = Len(actions)
      /\ \A b \in ActionIds : b # a => actions'[b] = actions[b]
      /\ actions'[a].status = DecidedStatus(req[w].kind)
      /\ actions'[a].decidedBy = req[w].user
      /\ actions'[a].type = actions[a].type
      /\ actions'[a].incident = actions[a].incident
  <2>1. DecideAction(a, req[w].kind, req[w].user)
    BY DEF Decides
  <2>2. req[w].user \in Users \cup {Nobody}
    BY <1>0
  <2> HIDE DEF a
  <2> QED BY <1>0, <2>1, <2>2, DecideFacts
<1>4. actions'[a].status \in {"approved", "rejected"}
  BY <1>1 DEF DecidedStatus
<1>5. ActionIds' = ActionIds
  BY <1>1 DEF ActionIds
<1>6. /\ \A v \in Workers : v # w => req'[v] = req[v]
      /\ UNCHANGED <<effects, policy>>
      /\ req'[w].pc # "decide"
      /\ req'[w].pc \in Executing =>
            /\ req[w].kind # "reject" /\ req'[w].act = a
            /\ req'[w].inc = actions[a].incident
            /\ req'[w].pc = NextAfterApproval(actions[a].type)
  BY DEF Decides, OthersSame
<1>7. \A v \in Workers : req[v].pc \in Executing => req[v].act # a
  BY <1>1 DEF DecisionInv, OneExecutor
<1>8. ~Applied(a)
  BY <1>1 DEF DecisionInv, EffectsAreApproved, Applied
<1>9. AdminsDecide'
  <2>1. ASSUME NEW v \in Workers PROVE ByAdmin(req[v])'
    BY <1>6 DEF DecisionInv, AdminsDecide, ByAdmin
  <2>2. ASSUME NEW b \in ActionIds', actions'[b].status # "pending"
        PROVE  RoleOf[actions'[b].decidedBy] = "admin"
    BY <1>0, <1>1, <1>5, <2>2 DEF DecisionInv, AdminsDecide
  <2> QED BY <2>1, <2>2 DEF AdminsDecide
<1>10. OneExecutor'
  <2>1. ASSUME NEW v \in Workers, req'[v].pc \in Executing
        PROVE  /\ req'[v].act \in ActionIds'
               /\ actions'[req'[v].act].status = "approved"
               /\ Applied(req[v].act)' => req'[v].pc = "mark"
               /\ req'[v].pc = "mark" /\ req'[v].ok => Applied(req[v].act)'
    <3>1. CASE v = w
      <4>1. actions'[a].status = "approved"
        BY <1>0, <1>1, <1>6, <2>1, <3>1 DEF DecidedStatus
      <4>2. ~Applied(req[v].act)'
        BY <1>6, <1>8, <2>1, <3>1 DEF Applied
      <4>3. req'[w].pc # "mark"
        BY <1>6, <2>1, <3>1 DEF NextAfterApproval
      <4> QED BY <1>1, <1>5, <1>6, <2>1, <3>1, <4>1, <4>2, <4>3
    <3>2. CASE v # w
      <4>1. req'[v] = req[v] /\ req[v].act # a
        BY <1>6, <1>7, <2>1, <3>2
      <4>2. Applied(req[v].act)' <=> Applied(req[v].act)
        BY <1>6, <4>1 DEF Applied
      <4> QED BY <1>1, <1>5, <2>1, <4>1, <4>2 DEF DecisionInv, OneExecutor
    <3> QED BY <3>1, <3>2
  <2>2. ASSUME NEW u \in Workers, NEW v \in Workers, req'[u].pc \in Executing,
               req'[v].pc \in Executing, req'[u].act = req'[v].act
        PROVE  u = v
    BY <1>6, <1>7, <2>2 DEF DecisionInv, OneExecutor
  <2> QED BY <2>1, <2>2 DEF OneExecutor
<1>11. EffectsAreApproved'
  <2>1. \A n \in DOMAIN effects : effects[n] # a
    BY <1>8 DEF Applied
  <2> QED BY <1>1, <1>5, <1>6, <2>1 DEF DecisionInv, EffectsAreApproved
<1>12. PolicyInPlace'
  <2> SUFFICES ASSUME NEW v \in Workers, req'[v].pc \in Executing
               PROVE  /\ req'[v].inc = actions'[req'[v].act].incident
                      /\ req'[v].pc = "podOp" => ~Quarantines(req[v].act)'
                      /\ req'[v].pc = "mark" /\ req'[v].ok /\ Quarantines(req[v].act)' =>
                            policy'[req'[v].inc] > 0
    BY DEF PolicyInPlace
  <2>1. CASE v = w
    <3>1. Quarantines(req[v].act)' <=> Quarantines(a)
      BY <1>1, <1>6, <2>1 DEF Quarantines
    <3>2. req'[w].pc = "podOp" => ~Quarantines(a)
      BY <1>6, <2>1 DEF Quarantines, NextAfterApproval
    <3>3. req'[w].pc # "mark"
      BY <1>6, <2>1 DEF NextAfterApproval
    <3> QED BY <1>1, <1>6, <2>1, <3>1, <3>2, <3>3
  <2>2. CASE v # w
    <3>1. req'[v] = req[v] /\ req[v].act \in ActionIds /\ req[v].act # a
      BY <1>6, <1>7, <2>2 DEF DecisionInv, OneExecutor
    <3>2. actions'[req[v].act] = actions[req[v].act]
      BY <1>1, <3>1
    <3>3. Quarantines(req[v].act)' <=> Quarantines(req[v].act)
      BY <3>1, <3>2 DEF Quarantines
    <3> QED BY <1>6, <3>1, <3>2, <3>3 DEF DecisionInv, PolicyInPlace
  <2> QED BY <2>1, <2>2
<1>13. ExecutedMeansApplied'
  <2> SUFFICES ASSUME NEW b \in ActionIds', actions'[b].status = "executed"
               PROVE  /\ Applied(b)'
                      /\ actions'[b].type = "quarantine_pod" /\ ApplyMode = "apply" =>
                            policy'[actions'[b].incident] > 0
    BY DEF ExecutedMeansApplied
  <2>1. b \in ActionIds /\ actions'[b] = actions[b]
    BY <1>1, <1>4, <1>5
  <2>2. Applied(b)' <=> Applied(b)
    BY <1>6 DEF Applied
  <2> QED BY <1>6, <2>1, <2>2 DEF DecisionInv, ExecutedMeansApplied
<1> QED BY <1>9, <1>10, <1>11, <1>12, <1>13 DEF DecisionInv

\* Storing the outcome keeps the invariant: only what was applied is stored as
\* executed.
LEMMA MarksKeeps ==
    ASSUME TypeInv, DecisionInv, NEW w \in Workers, Marks(w)
    PROVE  DecisionInv'
<1> DEFINE a == req[w].act
<1>0. actions \in Seq(ActionRow) /\ req[w] \in Request /\ req[w].pc \in Executing
      /\ req[w].pc = "mark"
  BY DEF TypeInv, TypeOK, StoreTypeOK, Marks, Executing
<1>1. /\ a \in ActionIds /\ actions[a].status = "approved"
      /\ req[w].ok => Applied(a)
  BY <1>0 DEF DecisionInv, OneExecutor
<1>2. req[w].ok \in BOOLEAN
  BY <1>0 DEF Request
<1>3. /\ Len(actions') = Len(actions)
      /\ \A b \in ActionIds : b # a => actions'[b] = actions[b]
      /\ actions'[a] = [actions[a] EXCEPT
                           !.status = IF req[w].ok THEN "executed" ELSE "failed"]
  BY <1>0, <1>1, <1>2, MarkFacts DEF Marks
<1>4. actions[a] \in ActionRow
  BY <1>0, <1>1 DEF ActionIds
<1>5. /\ actions'[a].status = IF req[w].ok THEN "executed" ELSE "failed"
      /\ actions'[a].decidedBy = actions[a].decidedBy
      /\ actions'[a].type = actions[a].type
      /\ actions'[a].incident = actions[a].incident
  BY <1>3, <1>4 DEF ActionRow
<1>6. ActionIds' = ActionIds
  BY <1>3 DEF ActionIds
<1>7. /\ \A v \in Workers : v # w => req'[v] = req[v]
      /\ UNCHANGED <<effects, policy>>
      /\ req'[w].pc \notin Executing /\ req'[w].pc # "decide"
  BY DEF Marks, OthersSame
<1>8. \A v \in Workers : v # w /\ req[v].pc \in Executing => req[v].act # a
  BY <1>0 DEF DecisionInv, OneExecutor
<1>9. AdminsDecide'
  <2>1. ASSUME NEW v \in Workers PROVE ByAdmin(req[v])'
    BY <1>7 DEF DecisionInv, AdminsDecide, ByAdmin
  <2>2. ASSUME NEW b \in ActionIds', actions'[b].status # "pending"
        PROVE  RoleOf[actions'[b].decidedBy] = "admin"
    <3>1. CASE b = a
      BY <1>1, <1>5, <3>1 DEF DecisionInv, AdminsDecide
    <3>2. CASE b # a
      <4>1. b \in ActionIds /\ actions'[b] = actions[b]
        BY <1>3, <1>6, <2>2, <3>2
      <4> QED BY <2>2, <4>1 DEF DecisionInv, AdminsDecide
    <3> QED BY <3>1, <3>2
  <2> QED BY <2>1, <2>2 DEF AdminsDecide
<1>10. OneExecutor'
  <2>1. ASSUME NEW v \in Workers, req'[v].pc \in Executing
        PROVE  /\ req'[v].act \in ActionIds'
               /\ actions'[req'[v].act].status = "approved"
               /\ Applied(req[v].act)' => req'[v].pc = "mark"
               /\ req'[v].pc = "mark" /\ req'[v].ok => Applied(req[v].act)'
    <3>1. v # w
      BY <1>7, <2>1
    <3>2. req'[v] = req[v] /\ req[v].act # a
      BY <1>7, <1>8, <2>1, <3>1
    <3>3. Applied(req[v].act)' <=> Applied(req[v].act)
      BY <1>7, <3>2 DEF Applied
    <3> QED BY <1>3, <1>6, <2>1, <3>2, <3>3 DEF DecisionInv, OneExecutor
  <2>2. ASSUME NEW u \in Workers, NEW v \in Workers, req'[u].pc \in Executing,
               req'[v].pc \in Executing, req'[u].act = req'[v].act
        PROVE  u = v
    BY <1>7, <2>2 DEF DecisionInv, OneExecutor
  <2> QED BY <2>1, <2>2 DEF OneExecutor
<1>11. EffectsAreApproved'
  <2>1. ASSUME NEW n \in DOMAIN effects
        PROVE  /\ effects[n] \in ActionIds
               /\ actions'[effects[n]].status \in {"approved", "executed", "failed"}
               /\ RoleOf[actions'[effects[n]].decidedBy] = "admin"
    <3>1. /\ effects[n] \in ActionIds
          /\ actions[effects[n]].status \in {"approved", "executed", "failed"}
          /\ RoleOf[actions[effects[n]].decidedBy] = "admin"
      BY DEF DecisionInv, EffectsAreApproved
    <3>2. CASE effects[n] = a
      BY <1>5, <3>1, <3>2
    <3>3. CASE effects[n] # a
      <4>1. actions'[effects[n]] = actions[effects[n]]
        BY <1>3, <3>1, <3>3
      <4> QED BY <3>1, <4>1
    <3> QED BY <3>2, <3>3
  <2>2. \A m, n \in DOMAIN effects : effects[m] = effects[n] => m = n
    BY DEF DecisionInv, EffectsAreApproved
  <2> QED BY <1>6, <1>7, <2>1, <2>2 DEF EffectsAreApproved
<1>12. PolicyInPlace'
  <2> SUFFICES ASSUME NEW v \in Workers, req'[v].pc \in Executing
               PROVE  /\ req'[v].inc = actions'[req'[v].act].incident
                      /\ req'[v].pc = "podOp" => ~Quarantines(req[v].act)'
                      /\ req'[v].pc = "mark" /\ req'[v].ok /\ Quarantines(req[v].act)' =>
                            policy'[req'[v].inc] > 0
    BY DEF PolicyInPlace
  <2>1. v # w
    BY <1>7
  <2>2. req'[v] = req[v] /\ req[v].act \in ActionIds /\ req[v].act # a
    BY <1>7, <1>8, <2>1 DEF DecisionInv, OneExecutor
  <2>3. actions'[req[v].act] = actions[req[v].act]
    BY <1>3, <2>2
  <2>4. Quarantines(req[v].act)' <=> Quarantines(req[v].act)
    BY <2>2, <2>3 DEF Quarantines
  <2> QED BY <1>7, <2>2, <2>3, <2>4 DEF DecisionInv, PolicyInPlace
<1>13. ExecutedMeansApplied'
  <2> SUFFICES ASSUME NEW b \in ActionIds', actions'[b].status = "executed"
               PROVE  /\ Applied(b)'
                      /\ actions'[b].type = "quarantine_pod" /\ ApplyMode = "apply" =>
                            policy'[actions'[b].incident] > 0
    BY DEF ExecutedMeansApplied
  <2>1. Applied(b)' <=> Applied(b)
    BY <1>7 DEF Applied
  <2>2. CASE b # a
    BY <1>3, <1>6, <1>7, <2>1, <2>2 DEF DecisionInv, ExecutedMeansApplied
  <2>3. CASE b = a
    <3>1. req[w].ok
      BY <1>5, <2>3
    <3>2. /\ req[w].inc = actions[a].incident
          /\ Quarantines(a) => policy[req[w].inc] > 0
      BY <1>0, <3>1 DEF DecisionInv, PolicyInPlace
    <3> QED BY <1>1, <1>5, <1>7, <2>1, <2>3, <3>1, <3>2 DEF Quarantines
  <2> QED BY <2>2, <2>3
<1> QED BY <1>9, <1>10, <1>11, <1>12, <1>13 DEF DecisionInv

\* The invariant holds at the start and is kept by every step.
LEMMA DecisionInit == Init => DecisionInv
<1> SUFFICES ASSUME Init PROVE DecisionInv
  OBVIOUS
<1>1. actions = << >> /\ effects = << >> /\ req = [w \in Workers |-> IdleReq]
  BY DEF Init, StoreInit
<1>2. IdleReq.pc = "idle"
  BY DEF IdleReq
<1>3. ActionIds = {} /\ DOMAIN effects = {}
  BY <1>1 DEF ActionIds
<1>4. \A w \in Workers : req[w].pc \notin Executing /\ req[w].pc # "decide"
  BY <1>1, <1>2 DEF Executing
<1> QED
  BY <1>3, <1>4 DEF DecisionInv, AdminsDecide, ByAdmin, OneExecutor, EffectsAreApproved,
     PolicyInPlace, ExecutedMeansApplied

\* Every step of the service keeps the invariant, by the shape of the step.
LEMMA DecisionStep == TypeInv /\ TypeInv' /\ DecisionInv /\ [Next]_vars => DecisionInv'
<1> SUFFICES ASSUME TypeInv, TypeInv', DecisionInv, [Next]_vars PROVE DecisionInv'
  OBVIOUS
<1>1. Shape
  BY StepShape
<1>2. actions' \in Seq(ActionRow) /\ effects' \in Seq(Nat)
  BY DEF TypeInv, TypeOK, StoreTypeOK
<1> QED
  BY <1>1, <1>2, PassiveKeeps, ReturnsKeeps, DecidesKeeps, MarksKeeps DEF Shape

\* DecideAction and MarkActionExecuted move an action forward only.
LEMMA LifecycleStep ==
    ASSUME TypeInv, DecisionInv, [Next]_vars
    PROVE  \A a \in ActionIds :
              /\ actions[a].status # actions'[a].status =>
                    <<actions[a].status, actions'[a].status>> \in Lifecycle
              /\ actions[a].status # "pending" =>
                    actions'[a].decidedBy = actions[a].decidedBy
<1>0. actions \in Seq(ActionRow)
  BY DEF TypeInv, TypeOK, StoreTypeOK
<1>1. CASE Passive
  BY <1>1 DEF Passive
<1>2. ASSUME NEW w \in Workers, Returns(w)
      PROVE  \A a \in ActionIds : actions'[a] = actions[a]
  BY <1>2 DEF Returns
<1>3. ASSUME NEW w \in Workers, Decides(w), NEW a \in ActionIds
      PROVE  /\ actions[a].status # actions'[a].status =>
                    <<actions[a].status, actions'[a].status>> \in Lifecycle
             /\ actions[a].status # "pending" =>
                    actions'[a].decidedBy = actions[a].decidedBy
  <2>1. req[w].user \in Users \cup {Nobody}
    BY DEF TypeInv, TypeOK, Request
  <2>2. /\ actions[req[w].act].status = "pending"
        /\ \A b \in ActionIds : b # req[w].act => actions'[b] = actions[b]
        /\ actions'[req[w].act].status = DecidedStatus(req[w].kind)
    <3>1. DecideAction(req[w].act, req[w].kind, req[w].user)
      BY <1>3 DEF Decides
    <3> QED BY <1>0, <2>1, <3>1, DecideFacts
  <2>3. CASE a # req[w].act
    BY <2>2, <2>3
  <2>4. CASE a = req[w].act
    BY <2>2, <2>4 DEF DecidedStatus, Lifecycle
  <2> QED BY <2>3, <2>4
<1>4. ASSUME NEW w \in Workers, Marks(w), NEW a \in ActionIds
      PROVE  /\ actions[a].status # actions'[a].status =>
                    <<actions[a].status, actions'[a].status>> \in Lifecycle
             /\ actions[a].status # "pending" =>
                    actions'[a].decidedBy = actions[a].decidedBy
  <2>1. req[w].ok \in BOOLEAN
    BY DEF TypeInv, TypeOK, Request
  <2>2. req[w].act \in ActionIds /\ actions[req[w].act].status = "approved"
    BY <1>4 DEF Marks, DecisionInv, OneExecutor, Executing
  <2>3. /\ \A b \in ActionIds : b # req[w].act => actions'[b] = actions[b]
        /\ actions'[req[w].act] = [actions[req[w].act] EXCEPT
              !.status = IF req[w].ok THEN "executed" ELSE "failed"]
    BY <1>0, <1>4, <2>1, <2>2, MarkFacts DEF Marks
  <2>4. CASE a # req[w].act
    BY <2>3, <2>4
  <2>5. CASE a = req[w].act
    <3>1. actions[a] \in ActionRow
      BY <1>0 DEF ActionIds
    <3>2. /\ actions'[a].status = IF req[w].ok THEN "executed" ELSE "failed"
          /\ actions'[a].decidedBy = actions[a].decidedBy
      BY <2>3, <2>5, <3>1 DEF ActionRow
    <3> QED BY <2>2, <2>5, <3>2 DEF Lifecycle
  <2> QED BY <2>4, <2>5
<1> QED
  BY StepShape, <1>1, <1>2, <1>3, <1>4 DEF Shape

-----------------------------------------------------------------------------
\* The inductive invariant holds in every reachable state.
LEMMA DecisionInvariant == Spec => [](TypeInv /\ DecisionInv)
<1>1. Init => TypeInv /\ DecisionInv
  BY TypeInit, DecisionInit
<1>2. (TypeInv /\ DecisionInv) /\ [Next]_vars => (TypeInv /\ DecisionInv)'
  BY TypeStep, DecisionStep
<1> QED BY <1>1, <1>2, PTL DEF Spec

(***************************************************************************)
(* An approved action is executed by exactly one request, whatever number  *)
(* of admins approve it concurrently and however calls fail.               *)
(***************************************************************************)
THEOREM ActionsHaveOneExecutor == Spec => []OneExecutor
<1>1. DecisionInv => OneExecutor
  BY DEF DecisionInv
<1> QED BY <1>1, DecisionInvariant, PTL

(***************************************************************************)
(* Every effect on the cluster belongs to one action that an admin         *)
(* approved, and no action has two effects.                                *)
(***************************************************************************)
THEOREM EffectsWereApproved == Spec => []EffectsAreApproved
<1>1. DecisionInv => EffectsAreApproved
  BY DEF DecisionInv
<1> QED BY <1>1, DecisionInvariant, PTL

(***************************************************************************)
(* An action stored as executed had its effect, and a quarantine left a    *)
(* NetworkPolicy.                                                          *)
(***************************************************************************)
THEOREM ExecutedWasApplied == Spec => []ExecutedMeansApplied
<1>1. DecisionInv => ExecutedMeansApplied
  BY DEF DecisionInv
<1> QED BY <1>1, DecisionInvariant, PTL

(***************************************************************************)
(* An action is decided once and for all.                                  *)
(***************************************************************************)
THEOREM DecisionsAreFinal == Spec => DecisionIsFinal
<1>1. (TypeInv /\ DecisionInv) /\ [Next]_vars =>
         [\A a \in ActionIds :
             LET old == actions[a]
                 new == actions'[a] IN
             /\ old.status # new.status => <<old.status, new.status>> \in Lifecycle
             /\ old.status # "pending" => new.decidedBy = old.decidedBy]_vars
  BY LifecycleStep
<1> QED BY <1>1, DecisionInvariant, PTL DEF Spec, DecisionIsFinal

-----------------------------------------------------------------------------
(***************************************************************************)
(* The refinement of ActionLifecycle: each shape of a step is one action   *)
(* of that specification, or leaves the lives and the effects alone.       *)
(***************************************************************************)
Life == [status : ActionStatus, by : Users \cup {Nobody}]

LifeOfRow(row) == [status |-> row.status, by |-> row.decidedBy]

\* The lives are a sequence as long as the table of actions.
LEMMA LifeFacts ==
    ASSUME actions \in Seq(ActionRow)
    PROVE  /\ LifeOf \in Seq(Life)
           /\ Len(LifeOf) = Len(actions)
           /\ DOMAIN LifeOf = ActionIds
           /\ \A a \in ActionIds : LifeOf[a] = LifeOfRow(actions[a])
<1>1. Len(actions) \in Nat
  BY LenProperties
<1>2. ASSUME NEW a \in ActionIds
      PROVE  LifeOfRow(actions[a]) \in Life
  <2>1. actions[a] \in ActionRow
    BY DEF ActionIds
  <2> QED BY <2>1 DEF LifeOfRow, ActionRow, Life
<1>3. LifeOf = [a \in 1..Len(actions) |-> LifeOfRow(actions[a])]
  BY DEF LifeOf, LifeOfRow, ActionIds
<1>4. LifeOf \in [1..Len(actions) -> Life]
  BY <1>2, <1>3 DEF ActionIds
<1>5. LifeOf \in Seq(Life)
  BY <1>1, <1>4, IsASeq
<1>6. Len(LifeOf) = Len(actions)
  BY <1>1, <1>4, <1>5, LenProperties
<1> QED BY <1>3, <1>4, <1>5, <1>6 DEF ActionIds

\* The lives after a step, row by row.
LEMMA LifeFactsNext ==
    ASSUME actions' \in Seq(ActionRow)
    PROVE  /\ LifeOf' \in Seq(Life)
           /\ Len(LifeOf') = Len(actions')
           /\ \A a \in ActionIds' : LifeOf'[a] = LifeOfRow(actions'[a])
<1>1. Len(actions') \in Nat
  BY LenProperties
<1>2. ASSUME NEW a \in ActionIds'
      PROVE  LifeOfRow(actions'[a]) \in Life
  <2>1. actions'[a] \in ActionRow
    BY DEF ActionIds
  <2> QED BY <2>1 DEF LifeOfRow, ActionRow, Life
<1>3. LifeOf' = [a \in 1..Len(actions') |-> LifeOfRow(actions'[a])]
  BY DEF LifeOf, LifeOfRow, ActionIds
<1>4. LifeOf' \in [1..Len(actions') -> Life]
  BY <1>2, <1>3 DEF ActionIds
<1>5. LifeOf' \in Seq(Life)
  BY <1>1, <1>4, IsASeq
<1>6. Len(LifeOf') = Len(actions')
  BY <1>1, <1>4, <1>5, LenProperties
<1> QED BY <1>3, <1>5, <1>6 DEF ActionIds

\* A passive step drafts an action, or no life changes.
LEMMA PassiveRefines ==
    ASSUME TypeInv, TypeInv', Passive
    PROVE  Promise!Draft \/ UNCHANGED Promise!vars
<1>0. /\ actions \in Seq(ActionRow) /\ actions' \in Seq(ActionRow)
      /\ Len(actions) \in Nat /\ Len(actions') \in Nat
  BY LenProperties DEF TypeInv, TypeOK, StoreTypeOK
<1>1. /\ LifeOf \in Seq(Life) /\ Len(LifeOf) = Len(actions)
      /\ \A a \in ActionIds : LifeOf[a] = LifeOfRow(actions[a])
  BY <1>0, LifeFacts
<1>2. /\ LifeOf' \in Seq(Life) /\ Len(LifeOf') = Len(actions')
      /\ \A a \in ActionIds' : LifeOf'[a] = LifeOfRow(actions'[a])
  BY <1>0, LifeFactsNext
<1>3. \A a \in 1..Len(actions) : LifeOf'[a] = LifeOf[a]
  BY <1>0, <1>1, <1>2 DEF Passive, ActionIds
<1>4. UNCHANGED effects
  BY DEF Passive
<1>5. CASE Len(actions') = Len(actions)
  <2>1. LifeOf' = LifeOf
    BY <1>0, <1>1, <1>2, <1>3, <1>5, SeqEqual
  <2> QED BY <1>4, <2>1 DEF Promise!vars
<1>6. CASE Len(actions') = Len(actions) + 1
  <2> DEFINE e == [status |-> "pending", by |-> Nobody]
             n == Len(actions) + 1
             app == Append(LifeOf, e)
  <2>1. e \in Life
    BY DEF Life, ActionStatus
  <2>2. /\ app \in Seq(Life) /\ Len(app) = n
        /\ \A a \in 1..Len(actions) : app[a] = LifeOf[a]
        /\ app[n] = e
    BY <1>1, <2>1, AppendProperties
  <2>3. LifeOf'[n] = e
    <3>1. n \in ActionIds' /\ n \notin ActionIds
      BY <1>0, <1>6 DEF ActionIds
    <3>2. actions'[n].status = "pending" /\ actions'[n].decidedBy = Nobody
      BY <3>1 DEF Passive
    <3> QED BY <1>2, <3>1, <3>2 DEF LifeOfRow
  <2> HIDE DEF app, e
  <2>4. \A a \in 1..n : LifeOf'[a] = app[a]
    BY <1>0, <1>3, <2>2, <2>3
  <2>5. LifeOf' = app
    BY <1>2, <1>6, <2>2, <2>4, SeqEqual
  <2> QED BY <1>4, <2>5 DEF Promise!Draft, app, e
<1> QED BY <1>0, <1>5, <1>6 DEF Passive

\* The return of executeAction applies the action, or changes no life.
LEMMA ReturnsRefines ==
    ASSUME TypeInv, TypeInv', DecisionInv, NEW w \in Workers, Returns(w)
    PROVE  \/ \E a \in DOMAIN LifeOf : Promise!Apply(a)
           \/ UNCHANGED Promise!vars
<1> DEFINE a == req[w].act
<1>0. actions \in Seq(ActionRow)
  BY DEF TypeInv, TypeOK, StoreTypeOK
<1>1. /\ a \in ActionIds /\ actions[a].status = "approved" /\ ~Applied(a)
  BY DEF Returns, DecisionInv, OneExecutor
<1>2. a \in DOMAIN LifeOf /\ LifeOf[a].status = "approved"
  BY <1>0, <1>1, LifeFacts DEF LifeOfRow
<1>3. LifeOf' = LifeOf
  BY DEF Returns, LifeOf, ActionIds
<1>4. CASE UNCHANGED effects
  BY <1>3, <1>4 DEF Promise!vars
<1>5. CASE effects' = Append(effects, a)
  BY <1>1, <1>2, <1>3, <1>5 DEF Promise!Apply, Promise!Applied, Applied
<1> QED BY <1>4, <1>5 DEF Returns

\* DecideAction is a decision of an admin.
LEMMA DecidesRefines ==
    ASSUME TypeInv, TypeInv', DecisionInv, NEW w \in Workers, Decides(w)
    PROVE  \E a \in DOMAIN LifeOf, status \in {"approved", "rejected"} :
              Promise!Decide(a, status)
<1> DEFINE a == req[w].act
           u == req[w].user
           status == DecidedStatus(req[w].kind)
           e == [status |-> status, by |-> u]
           new == [LifeOf EXCEPT ![a] = e]
<1>0. actions \in Seq(ActionRow) /\ actions' \in Seq(ActionRow)
  BY DEF TypeInv, TypeOK, StoreTypeOK
<1>1. u \in Users /\ RoleOf[u] = "admin"
  BY DEF Decides, DecisionInv, AdminsDecide, ByAdmin
<1>2. /\ a \in ActionIds /\ actions[a].status = "pending"
      /\ Len(actions') = Len(actions)
      /\ \A b \in ActionIds : b # a => actions'[b] = actions[b]
      /\ actions'[a].status = status /\ actions'[a].decidedBy = u
  <2>1. DecideAction(a, req[w].kind, u)
    BY DEF Decides
  <2> QED BY <1>0, <1>1, <2>1, DecideFacts
<1>3. /\ LifeOf \in Seq(Life) /\ Len(LifeOf) = Len(actions) /\ DOMAIN LifeOf = ActionIds
      /\ \A b \in ActionIds : LifeOf[b] = LifeOfRow(actions[b])
  BY <1>0, LifeFacts
<1>4. /\ LifeOf' \in Seq(Life) /\ Len(LifeOf') = Len(actions')
      /\ \A b \in ActionIds' : LifeOf'[b] = LifeOfRow(actions'[b])
  BY <1>0, LifeFactsNext
<1>5. status \in {"approved", "rejected"}
  BY DEF DecidedStatus
<1>6. e \in Life
  BY <1>1, <1>5 DEF Life, ActionStatus
<1>7. LifeOf[a].status = "pending"
  BY <1>2, <1>3 DEF LifeOfRow
<1>8. LifeOf'[a] = e /\ \A b \in ActionIds : b # a => LifeOf'[b] = LifeOf[b]
  BY <1>2, <1>3, <1>4 DEF LifeOfRow, ActionIds
<1> HIDE DEF e, status, a
<1>9. /\ new \in Seq(Life) /\ Len(new) = Len(LifeOf)
      /\ \A b \in 1..Len(LifeOf) : new[b] = IF b = a THEN e ELSE LifeOf[b]
  <2>1. a \in 1..Len(LifeOf)
    BY <1>2, <1>3 DEF ActionIds
  <2> QED BY <1>3, <1>6, <2>1, ExceptSeq
<1> HIDE DEF new
<1>10. LifeOf' = new
  <2>1. \A b \in 1..Len(LifeOf') : LifeOf'[b] = new[b]
    BY <1>2, <1>3, <1>4, <1>8, <1>9 DEF ActionIds
  <2> QED BY <1>2, <1>3, <1>4, <1>9, <2>1, SeqEqual
<1>11. UNCHANGED effects
  BY DEF Decides
<1>12. Promise!Decide(a, status)
  BY <1>1, <1>7, <1>10, <1>11 DEF Promise!Decide, new, e
<1> QED BY <1>2, <1>3, <1>5, <1>12

\* MarkActionExecuted resolves the action; it stores success for an effect only.
LEMMA MarksRefines ==
    ASSUME TypeInv, TypeInv', DecisionInv, NEW w \in Workers, Marks(w)
    PROVE  \E a \in DOMAIN LifeOf, status \in {"executed", "failed"} :
              Promise!Resolve(a, status)
<1> DEFINE a == req[w].act
           status == IF req[w].ok THEN "executed" ELSE "failed"
           e == [LifeOf[a] EXCEPT !.status = status]
           new == [LifeOf EXCEPT ![a] = e]
<1>0. actions \in Seq(ActionRow) /\ actions' \in Seq(ActionRow)
  BY DEF TypeInv, TypeOK, StoreTypeOK
<1>1. /\ a \in ActionIds /\ actions[a].status = "approved"
      /\ req[w].ok => Applied(a)
  BY DEF Marks, DecisionInv, OneExecutor, Executing
<1>2. /\ Len(actions') = Len(actions)
      /\ \A b \in ActionIds : b # a => actions'[b] = actions[b]
      /\ actions'[a] = [actions[a] EXCEPT !.status = status]
  <2>1. req[w].ok \in BOOLEAN
    BY DEF TypeInv, TypeOK, Request
  <2> QED BY <1>0, <1>1, <2>1, MarkFacts DEF Marks
<1>3. /\ LifeOf \in Seq(Life) /\ Len(LifeOf) = Len(actions) /\ DOMAIN LifeOf = ActionIds
      /\ \A b \in ActionIds : LifeOf[b] = LifeOfRow(actions[b])
  BY <1>0, LifeFacts
<1>4. /\ LifeOf' \in Seq(Life) /\ Len(LifeOf') = Len(actions')
      /\ \A b \in ActionIds' : LifeOf'[b] = LifeOfRow(actions'[b])
  BY <1>0, LifeFactsNext
<1>5. status \in {"executed", "failed"} /\ (status = "executed" => Applied(a))
  BY <1>1
<1>6. actions[a] \in ActionRow
  BY <1>0, <1>1 DEF ActionIds
<1> HIDE DEF status, a
<1>7. LifeOf[a] = LifeOfRow(actions[a]) /\ LifeOf[a].status = "approved"
  BY <1>1, <1>3 DEF LifeOfRow
<1>8. e = [status |-> status, by |-> actions[a].decidedBy]
  BY <1>7 DEF LifeOfRow
<1>9. e \in Life
  BY <1>5, <1>6, <1>8 DEF ActionRow, Life, ActionStatus
<1>10. LifeOfRow(actions'[a]) = e
  BY <1>2, <1>6, <1>8 DEF LifeOfRow, ActionRow
<1> HIDE DEF e
<1>11. LifeOf'[a] = e /\ \A b \in ActionIds : b # a => LifeOf'[b] = LifeOf[b]
  BY <1>1, <1>2, <1>3, <1>4, <1>10 DEF ActionIds
<1>12. /\ new \in Seq(Life) /\ Len(new) = Len(LifeOf)
       /\ \A b \in 1..Len(LifeOf) : new[b] = IF b = a THEN e ELSE LifeOf[b]
  <2>1. a \in 1..Len(LifeOf)
    BY <1>1, <1>3 DEF ActionIds
  <2> QED BY <1>3, <1>9, <2>1, ExceptSeq
<1> HIDE DEF new
<1>13. LifeOf' = new
  <2>1. \A b \in 1..Len(LifeOf') : LifeOf'[b] = new[b]
    BY <1>2, <1>3, <1>4, <1>11, <1>12 DEF ActionIds
  <2> QED BY <1>2, <1>3, <1>4, <1>12, <2>1, SeqEqual
<1>14. UNCHANGED effects
  BY DEF Marks
<1>15. Promise!Resolve(a, status)
  BY <1>5, <1>7, <1>13, <1>14 DEF Promise!Resolve, Promise!Applied, Applied, new, e
<1> QED BY <1>1, <1>3, <1>5, <1>15

(***************************************************************************)
(* Handlers, database and cluster implement the life of an action: every   *)
(* step, with its faults, is one step of ActionLifecycle or leaves it      *)
(* alone.                                                                  *)
(***************************************************************************)
THEOREM ServiceImplementsLifecycle == Spec => ImplementsLifecycle
<1>1. Init => Promise!Init
  <2> SUFFICES ASSUME Init PROVE Promise!Init
    OBVIOUS
  <2>1. actions = << >> /\ effects = << >>
    BY DEF Init, StoreInit
  <2>2. << >> \in Seq(ActionRow) /\ Len(<< >>) = 0
    BY EmptySeq
  <2>3. LifeOf \in Seq(Life) /\ Len(LifeOf) = 0
    BY <2>1, <2>2, LifeFacts
  <2>4. LifeOf = << >>
    BY <2>3, EmptySeq
  <2> QED BY <2>1, <2>4 DEF Promise!Init
<1>2. (TypeInv /\ DecisionInv) /\ (TypeInv /\ DecisionInv)' /\ [Next]_vars
         => [Promise!Next]_(Promise!vars)
  <2> SUFFICES ASSUME TypeInv, TypeInv', DecisionInv, [Next]_vars
               PROVE  Promise!Next \/ UNCHANGED Promise!vars
    BY DEF Promise!vars
  <2>1. Shape
    BY StepShape
  <2>2. CASE Passive
    BY <2>2, PassiveRefines DEF Promise!Next
  <2>3. ASSUME NEW w \in Workers, Returns(w)
        PROVE  Promise!Next \/ UNCHANGED Promise!vars
    BY <2>3, ReturnsRefines DEF Promise!Next
  <2>4. ASSUME NEW w \in Workers, Decides(w) PROVE Promise!Next
    BY <2>4, DecidesRefines DEF Promise!Next
  <2>5. ASSUME NEW w \in Workers, Marks(w) PROVE Promise!Next
    BY <2>5, MarksRefines DEF Promise!Next
  <2> QED BY <2>1, <2>2, <2>3, <2>4, <2>5 DEF Shape
<1> QED BY <1>1, <1>2, DecisionInvariant, PTL DEF Spec, ImplementsLifecycle, Promise!Spec
=============================================================================
