-------------------------- MODULE IncidentTableProofs ------------------------
(***************************************************************************)
(* The tables of the incident-service: an incident's severity never falls  *)
(* and its row never disappears, an incident has at most one draft waiting *)
(* while requests only decide, and every change ends up in the audit log   *)
(* while no call is lost.                                                  *)
(***************************************************************************)
EXTENDS IncidentServiceProofs, FiniteSetTheorems

\* What a step of a handler leaves of its request.
SameTarget(w) ==
    /\ req'[w].inc = req[w].inc /\ req'[w].act = req[w].act
    /\ req'[w].gone = req[w].gone

\* The fields of the requests a handler can turn its own into.
LEMMA FieldFacts ==
    ASSUME TypeInv, NEW w \in Workers
    PROVE  /\ \A pc : LET r == [req[w] EXCEPT !.pc = pc] IN
                /\ r.pc = pc /\ r.inc = req[w].inc /\ r.act = req[w].act
                /\ r.gone = req[w].gone /\ r.want = req[w].want
           /\ \A pc, row : LET r == [req[w] EXCEPT !.pc = pc, !.prev = row] IN
                /\ r.pc = pc /\ r.inc = req[w].inc /\ r.act = req[w].act
                /\ r.gone = req[w].gone /\ r.want = req[w].want
           /\ \A pc, status : LET r == [req[w] EXCEPT !.pc = pc, !.want = status] IN
                /\ r.pc = pc /\ r.inc = req[w].inc /\ r.act = req[w].act
                /\ r.gone = req[w].gone
           /\ \A pc, a : LET r == [req[w] EXCEPT !.pc = pc, !.act = a] IN
                /\ r.pc = pc /\ r.inc = req[w].inc /\ r.act = a
                /\ r.gone = req[w].gone
           /\ \A pc, i, pod : LET r == [req[w] EXCEPT !.pc = pc, !.inc = i, !.pod = pod] IN
                /\ r.pc = pc /\ r.inc = i /\ r.act = req[w].act
                /\ r.gone = req[w].gone
           /\ \A pc, ok : LET r == [req[w] EXCEPT !.pc = pc, !.ok = ok] IN
                /\ r.pc = pc /\ r.inc = req[w].inc /\ r.act = req[w].act
                /\ r.gone = req[w].gone
           /\ \A pc, rv : LET r == [req[w] EXCEPT !.pc = pc, !.rv = rv] IN
                /\ r.pc = pc /\ r.inc = req[w].inc /\ r.act = req[w].act
                /\ r.gone = req[w].gone
           /\ LET r == [req[w] EXCEPT !.gone = TRUE] IN
                /\ r.pc = req[w].pc /\ r.inc = req[w].inc /\ r.act = req[w].act
                /\ r.want = req[w].want
<1>1. req[w] \in Request
  BY DEF TypeInv, TypeOK
<1> QED BY <1>1 DEF Request

\* Writing one request leaves the others.
LEMMA WriteFacts ==
    ASSUME TypeInv, NEW w \in Workers, NEW r, req' = [req EXCEPT ![w] = r]
    PROVE  req'[w] = r /\ OthersSame(w)
BY DEF TypeInv, TypeOK, OthersSame

\* The end of a request.
LEMMA FinishFacts ==
    ASSUME TypeInv, NEW w \in Workers, Finish(w)
    PROVE  req'[w].pc = "idle" /\ req'[w].gone = FALSE /\ OthersSame(w)
<1>1. IdleReq.pc = "idle" /\ IdleReq.gone = FALSE
  BY DEF IdleReq
<1> QED BY <1>1, WriteFacts DEF Finish

\* The next call of a request.
LEMMA GotoFacts ==
    ASSUME TypeInv, NEW w \in Workers, NEW pc, Goto(w, pc)
    PROVE  /\ req'[w].pc = pc /\ SameTarget(w) /\ req'[w].want = req[w].want
           /\ OthersSame(w)
<1>1. req'[w] = [req[w] EXCEPT !.pc = pc] /\ OthersSame(w)
  BY WriteFacts DEF Goto
<1> QED BY <1>1, FieldFacts DEF SameTarget

\* The return of executeAction.
LEMMA ReturnFacts ==
    ASSUME TypeInv, NEW w \in Workers, NEW ok, Return(w, ok)
    PROVE  req'[w].pc = "mark" /\ SameTarget(w) /\ OthersSame(w)
<1>1. req'[w] = [req[w] EXCEPT !.pc = "mark", !.ok = ok] /\ OthersSame(w)
  BY WriteFacts DEF Return
<1> QED BY <1>1, FieldFacts DEF SameTarget

-----------------------------------------------------------------------------
(***************************************************************************)
(* The calls of a handler that write a status or draft an action.          *)
(***************************************************************************)
StatusPcs == {"readIncident", "writeStatus"}

DraftPcs ==
    StatusPcs \cup {"rereadStatus", "auditStatus", "draft", "readForFollowUp",
                    "createFollowUp"}

\* A request reaches these calls from one of them only, asks for the status it
\* asked for, and writes it to a row that it found.
Follows(w) ==
    req'[w].pc \in DraftPcs =>
        /\ req[w].pc \in DraftPcs
        /\ req'[w].pc \in StatusPcs =>
              /\ req[w].pc \in StatusPcs
              /\ req'[w].want = req[w].want /\ req'[w].inc = req[w].inc
        /\ req'[w].pc = "writeStatus" =>
              req[w].pc = "writeStatus" \/ RowExists(req[w].inc)

\* A handler follows its own calls, and leaves the other requests.
LEMMA HandlerFollows ==
    ASSUME TypeInv, NEW w \in Workers, HandlerStep(w)
    PROVE  Follows(w) /\ OthersSame(w)
<1>1. ASSUME Finish(w) PROVE Follows(w) /\ OthersSame(w)
  BY <1>1, FinishFacts DEF Follows, DraftPcs, StatusPcs
<1>2. ASSUME NEW pc, Goto(w, pc),
             (pc \notin DraftPcs \/ req[w].pc \in DraftPcs) /\ pc \notin StatusPcs
      PROVE  Follows(w) /\ OthersSame(w)
  BY <1>2, GotoFacts DEF Follows, StatusPcs
<1>3. ASSUME NEW ok, Return(w, ok) PROVE Follows(w) /\ OthersSame(w)
  BY <1>3, ReturnFacts DEF Follows, DraftPcs, StatusPcs
<1>4. ASSUME NEW r, req' = [req EXCEPT ![w] = r], r.pc \notin DraftPcs
      PROVE  Follows(w) /\ OthersSame(w)
  BY <1>4, WriteFacts DEF Follows
<1>5. ASSUME NEW type, NEW pod, NEW pc, pc \notin DraftPcs, Draft(w, type, pod, pc)
      PROVE  Follows(w) /\ OthersSame(w)
  <2> DEFINE r == [req[w] EXCEPT !.pc = pc, !.act = Len(actions) + 1]
  <2>1. Finish(w) \/ req' = [req EXCEPT ![w] = r]
    BY <1>5 DEF Draft
  <2>2. r.pc = pc
    BY FieldFacts
  <2> HIDE DEF r
  <2> QED BY <1>1, <1>4, <1>5, <2>1, <2>2
<1>6. CASE ReadIncident(w)
  <2> DEFINE r == [req[w] EXCEPT !.pc = "writeStatus", !.prev = incidents[req[w].inc]]
  <2>1. Finish(w) \/ (RowExists(req[w].inc) /\ req' = [req EXCEPT ![w] = r])
    BY <1>6 DEF ReadIncident
  <2>2. r.pc = "writeStatus" /\ r.want = req[w].want /\ r.inc = req[w].inc
    BY FieldFacts
  <2> HIDE DEF r
  <2>3. CASE RowExists(req[w].inc) /\ req' = [req EXCEPT ![w] = r]
    <3>1. req'[w] = r /\ OthersSame(w)
      BY <2>3, WriteFacts
    <3> QED BY <1>6, <2>2, <2>3, <3>1 DEF ReadIncident, Follows, DraftPcs, StatusPcs
  <2> QED BY <1>1, <2>1, <2>3
<1>7. CASE WriteStatus(w)
  BY <1>1, <1>2, <1>7 DEF WriteStatus, DraftPcs, StatusPcs
<1>8. CASE RereadStatus(w)
  <2> DEFINE r == [req[w] EXCEPT !.pc = "auditStatus",
                                 !.want = incidents[req[w].inc].status]
  <2>1. Finish(w) \/ req' = [req EXCEPT ![w] = r]
    BY <1>8 DEF RereadStatus
  <2>2. r.pc = "auditStatus"
    BY FieldFacts
  <2> HIDE DEF r
  <2>3. CASE req' = [req EXCEPT ![w] = r]
    <3>1. req'[w] = r /\ OthersSame(w)
      BY <2>3, WriteFacts
    <3> QED BY <1>8, <2>2, <3>1 DEF RereadStatus, Follows, DraftPcs, StatusPcs
  <2> QED BY <1>1, <2>1, <2>3
<1>9. CASE AuditStatus(w)
  BY <1>1, <1>2, <1>9 DEF AuditStatus, DraftPcs, StatusPcs
<1>10. CASE DraftOnAck(w)
  BY <1>5, <1>10 DEF DraftOnAck, DraftPcs, StatusPcs
<1>11. CASE ReadForFollowUp(w)
  BY <1>1, <1>2, <1>11 DEF ReadForFollowUp, DraftPcs, StatusPcs
<1>12. CASE CreateFollowUp(w)
  BY <1>5, <1>12 DEF CreateFollowUp, DraftPcs, StatusPcs
<1>13. CASE Decide(w)
  <2> DEFINE a == req[w].act
             r == [req[w] EXCEPT !.pc  = NextAfterApproval(actions[a].type),
                                 !.inc = actions[a].incident,
                                 !.pod = actions[a].pod]
  <2>1. Finish(w) \/ Goto(w, "auditRejected") \/ req' = [req EXCEPT ![w] = r]
    BY <1>13 DEF Decide
  <2>2. r.pc \notin DraftPcs
    BY FieldFacts DEF NextAfterApproval, DraftPcs, StatusPcs
  <2> HIDE DEF r, a
  <2>4. CASE Goto(w, "auditRejected")
    BY <1>2, <2>4 DEF DraftPcs, StatusPcs
  <2>5. CASE req' = [req EXCEPT ![w] = r]
    BY <1>4, <2>2, <2>5
  <2> QED BY <1>1, <2>1, <2>4, <2>5
<1>14. CASE Mark(w)
  BY <1>1, <1>2, <1>14 DEF Mark, DraftPcs, StatusPcs
<1>15. CASE AuditSteps(w)
  BY <1>1, <1>15 DEF AuditSteps, AuditLast
<1>16. CASE Label(w)
  BY <1>2, <1>16 DEF Label, DraftPcs, StatusPcs
<1>17. CASE CreatePolicy(w)
  BY <1>2, <1>3, <1>17 DEF CreatePolicy, DraftPcs, StatusPcs
<1>18. CASE GetPolicy(w)
  <2> DEFINE r == [req[w] EXCEPT !.pc = "updatePolicy", !.rv = policy[req[w].inc]]
  <2>1. Return(w, FALSE) \/ req' = [req EXCEPT ![w] = r]
    BY <1>18 DEF GetPolicy
  <2>2. r.pc \notin DraftPcs
    BY FieldFacts DEF DraftPcs, StatusPcs
  <2> HIDE DEF r
  <2> QED BY <1>3, <1>4, <2>1, <2>2
<1>19. CASE UpdatePolicy(w)
  BY <1>3, <1>19 DEF UpdatePolicy, RefusedUpdate
<1>20. CASE PodOp(w)
  BY <1>3, <1>20 DEF PodOp
<1> QED
  BY <1>6, <1>7, <1>8, <1>9, <1>10, <1>11, <1>12, <1>13, <1>14, <1>15, <1>16, <1>17,
     <1>18, <1>19, <1>20 DEF HandlerStep, StoreStep, ClusterStep

\* A request starts with a status that clients may ask for, or at an endpoint
\* that is in use.
Starts(w) ==
    /\ req'[w].pc \in {"readIncident", "decide", "readForFollowUp"}
    /\ req'[w].gone = FALSE
    /\ req'[w].pc = "readIncident" => req'[w].want \in NewStatuses /\ "status" \in Kinds
    /\ req'[w].pc = "readForFollowUp" => "followup" \in Kinds

\* A new request is at its first call.
LEMMA StartFacts ==
    ASSUME TypeInv, NEW w \in Workers, StartRequest(w)
    PROVE  Starts(w) /\ OthersSame(w) /\ req[w].pc = "idle"
<1>0. /\ IdleReq \in Request /\ IdleReq.gone = FALSE
  BY IdleTypes DEF IdleReq
<1>1. PICK user \in Users :
        \/ \E i \in Incidents, want \in NewStatuses : StartStatus(w, user, i, want)
        \/ \E kind \in {"approve", "reject"}, a \in ActionIds :
              StartDecision(w, kind, user, a)
        \/ \E i \in Incidents, type \in {"delete_pod", "shutdown_pod"}, pod \in Pods :
              StartFollowUp(w, user, i, type, pod)
  BY DEF StartRequest
<1>2. ASSUME NEW i \in Incidents, NEW want \in NewStatuses, StartStatus(w, user, i, want)
      PROVE  Starts(w) /\ OthersSame(w) /\ req[w].pc = "idle"
  <2> DEFINE r == [IdleReq EXCEPT !.pc = "readIncident", !.user = user,
                                  !.inc = i, !.want = want]
  <2>1. req' = [req EXCEPT ![w] = r] /\ req[w].pc = "idle" /\ "status" \in Kinds
    BY <1>2 DEF StartStatus, Admit
  <2>2. r.pc = "readIncident" /\ r.want = want /\ r.gone = IdleReq.gone
    BY <1>0 DEF Request
  <2> HIDE DEF r
  <2>3. req'[w] = r /\ OthersSame(w)
    BY <2>1, WriteFacts
  <2> QED BY <1>0, <2>1, <2>2, <2>3 DEF Starts
<1>3. ASSUME NEW kind \in {"approve", "reject"}, NEW a \in ActionIds,
             StartDecision(w, kind, user, a)
      PROVE  Starts(w) /\ OthersSame(w) /\ req[w].pc = "idle"
  <2> DEFINE r == [IdleReq EXCEPT !.pc = "decide", !.kind = kind,
                                  !.user = user, !.act = a]
  <2>1. req' = [req EXCEPT ![w] = r] /\ req[w].pc = "idle"
    BY <1>3 DEF StartDecision, Admit
  <2>2. r.pc = "decide" /\ r.gone = IdleReq.gone
    BY <1>0 DEF Request
  <2> HIDE DEF r
  <2>3. req'[w] = r /\ OthersSame(w)
    BY <2>1, WriteFacts
  <2> QED BY <1>0, <2>1, <2>2, <2>3 DEF Starts
<1>4. ASSUME NEW i \in Incidents, NEW type \in {"delete_pod", "shutdown_pod"},
             NEW pod \in Pods, StartFollowUp(w, user, i, type, pod)
      PROVE  Starts(w) /\ OthersSame(w) /\ req[w].pc = "idle"
  <2> DEFINE r == [IdleReq EXCEPT !.pc = "readForFollowUp", !.kind = type,
                                  !.user = user, !.inc = i, !.pod = pod]
  <2>1. req' = [req EXCEPT ![w] = r] /\ req[w].pc = "idle" /\ "followup" \in Kinds
    BY <1>4 DEF StartFollowUp, Admit
  <2>2. r.pc = "readForFollowUp" /\ r.gone = IdleReq.gone
    BY <1>0 DEF Request
  <2> HIDE DEF r
  <2>3. req'[w] = r /\ OthersSame(w)
    BY <2>1, WriteFacts
  <2> QED BY <1>0, <2>1, <2>2, <2>3 DEF Starts
<1> QED BY <1>1, <1>2, <1>3, <1>4

\* Every request follows its own calls, starts, or stays as it is.
LEMMA RequestsFollow ==
    ASSUME TypeInv, [Next]_vars, NEW v \in Workers
    PROVE  Follows(v) \/ Starts(v)
<1>1. CASE req' = req
  BY <1>1 DEF Follows, DraftPcs, StatusPcs
<1>2. ASSUME NEW w \in Workers, StartRequest(w) PROVE Follows(v) \/ Starts(v)
  <2>1. Starts(w) /\ OthersSame(w)
    BY <1>2, StartFacts
  <2>2. CASE v # w
    BY <2>1, <2>2 DEF OthersSame, Follows, DraftPcs, StatusPcs
  <2> QED BY <2>1, <2>2
<1>3. ASSUME NEW w \in Workers, HandlerStep(w) PROVE Follows(v) \/ Starts(v)
  <2>1. Follows(w) /\ OthersSame(w)
    BY <1>3, HandlerFollows
  <2>2. CASE v # w
    BY <2>1, <2>2 DEF OthersSame, Follows, DraftPcs, StatusPcs
  <2> QED BY <2>1, <2>2
<1>4. ASSUME NEW w \in Workers, Disconnect(w) PROVE Follows(v) \/ Starts(v)
  <2> DEFINE r == [req[w] EXCEPT !.gone = TRUE]
  <2>1. r.pc = req[w].pc /\ r.inc = req[w].inc /\ r.want = req[w].want
    BY FieldFacts
  <2>2. req' = [req EXCEPT ![w] = r]
    BY <1>4 DEF Disconnect
  <2> HIDE DEF r
  <2>3. req'[w] = r /\ OthersSame(w)
    BY <2>2, WriteFacts
  <2> QED BY <2>1, <2>3 DEF OthersSame, Follows, DraftPcs, StatusPcs
<1>5. CASE Crash
  <2>1. req'[v].pc = "idle"
    BY <1>5 DEF Crash, IdleReq
  <2> QED BY <2>1 DEF Follows, DraftPcs, StatusPcs
<1>6. CASE SubscriberReceive \/ SubscriberStep
  BY <1>1, <1>6 DEF SubscriberReceive, SubscriberStep, reqVars
<1>7. ASSUME NEW i \in Incidents, Churn(i) PROVE Follows(v) \/ Starts(v)
  BY <1>1, <1>7 DEF Churn, reqVars
<1>8. CASE UNCHANGED vars
  BY <1>1, <1>8 DEF vars, reqVars
<1> QED
  BY <1>2, <1>3, <1>4, <1>5, <1>6, <1>7, <1>8 DEF Next

-----------------------------------------------------------------------------
(***************************************************************************)
(* The rows of incidents.  A status is only ever written to a row that     *)
(* exists, and it is one of a row: without that, a PATCH could bring a row *)
(* into being or make it disappear.  A row that does not exist has no      *)
(* severity for the first alert to fall below.                             *)
(***************************************************************************)
AsksForRow(r) ==
    /\ r.pc \in StatusPcs => r.want \in RowStatus
    /\ r.pc = "writeStatus" => RowExists(r.inc)

RowsInv ==
    /\ \A i \in Incidents : ~RowExists(i) => incidents[i].severity = 0
    /\ \A w \in Workers : AsksForRow(req[w])

\* The writes to a row of incidents.
RowWritten(i, row) ==
    \/ /\ row.severity >= incidents[i].severity
       /\ ~RowExists(i) /\ row.status = "new"
       /\ "db" \notin Faults => sub'.pc = "created" /\ sub'.inc = i
    \/ /\ row.severity >= incidents[i].severity
       /\ row.status = incidents[i].status
       /\ row.status = "absent" => row.severity = 0
    \/ /\ row.severity = incidents[i].severity /\ row.status \in RowStatus /\ RowExists(i)
       /\ \E w \in Workers : /\ req[w].pc = "writeStatus" /\ req[w].inc = i
                             /\ req'[w].pc = "rereadStatus" /\ req'[w].inc = i

\* At most one row of incidents is written, in one of these ways.
OneRowWritten ==
    \/ UNCHANGED incidents
    \/ \E i \in Incidents, row \in IncidentRow :
          incidents' = [incidents EXCEPT ![i] = row] /\ RowWritten(i, row)

\* So it is by every step.
LEMMA IncidentWrites ==
    ASSUME TypeInv, RowsInv, [Next]_vars
    PROVE  OneRowWritten
<1>0. incidents \in [Incidents -> IncidentRow] /\ sub.inc \in Incidents
      /\ \A i \in Incidents : holder[i] \in Pods \cup {NoPod}
  BY DEF TypeInv, TypeOK, StoreTypeOK, Subscriber
<1>1. ASSUME NEW i \in Incidents, NEW severity \in Severities, NEW arrays \in AlertArrays,
             SubUpsert(i, severity, arrays)
      PROVE  OneRowWritten
  <2> DEFINE row == Upserted(i, severity, arrays)
  <2>1. incidents' = [incidents EXCEPT ![i] = row]
    BY <1>1 DEF SubUpsert, UpsertIncident
  <2>2. /\ severity \in Severity /\ arrays \in SUBSET ArrayColumns
        /\ incidents[i] \in IncidentRow
    BY <1>0, ServiceAssumption
  <2>3. CASE RowExists(i)
    <3>0. row = [incidents[i] EXCEPT !.severity = MaxSeverity(incidents[i].severity, severity),
                                     !.arrays   = incidents[i].arrays \cup arrays]
      BY <2>3 DEF Upserted
    <3>1. /\ MaxSeverity(incidents[i].severity, severity) \in Severity
          /\ MaxSeverity(incidents[i].severity, severity) >= incidents[i].severity
      BY <2>2 DEF MaxSeverity, Severity, IncidentRow
    <3>2. row \in IncidentRow /\ row.status = incidents[i].status
          /\ row.severity >= incidents[i].severity
      BY <2>2, <3>0, <3>1 DEF IncidentRow
    <3> HIDE DEF row
    <3>3. RowWritten(i, row)
      BY <2>3, <3>2 DEF RowWritten, RowExists
    <3> QED BY <2>1, <3>2, <3>3 DEF OneRowWritten
  <2>4. CASE ~RowExists(i)
    <3>1. row = [status |-> "new", severity |-> severity, arrays |-> arrays, pod |-> NoPod]
      BY <2>4 DEF Upserted
    <3>2. row \in IncidentRow /\ row.status = "new" /\ row.severity = severity
      BY <2>2, <3>1 DEF IncidentRow, IncidentStatus, RowStatus
    <3>3. severity >= incidents[i].severity
      BY <2>2, <2>4 DEF RowsInv, Severity
    <3>4. "db" \notin Faults => sub'.pc = "created" /\ sub'.inc = i
      BY <1>1, <2>4 DEF SubUpsert, Outcomes
    <3> HIDE DEF row
    <3>5. RowWritten(i, row)
      BY <2>4, <3>2, <3>3, <3>4 DEF RowWritten
    <3> QED BY <2>1, <3>2, <3>5 DEF OneRowWritten
  <2> QED BY <2>3, <2>4
<1>2. CASE SubResolve
  <2> DEFINE i == sub.inc
             row == [incidents[i] EXCEPT !.pod = holder[i]]
  <2>1. UNCHANGED incidents \/ incidents' = [incidents EXCEPT ![i] = row]
    BY <1>2 DEF SubResolve, SetIncidentPodContext
  <2>2. incidents[i] \in IncidentRow /\ holder[i] \in Pods \cup {NoPod} /\ i \in Incidents
    BY <1>0
  <2>3. /\ row \in IncidentRow /\ row.status = incidents[i].status
        /\ row.severity = incidents[i].severity /\ incidents[i].severity \in Severity
    BY <2>2 DEF IncidentRow
  <2> HIDE DEF row, i
  <2>4. RowWritten(i, row)
    BY <2>2, <2>3 DEF RowWritten, RowsInv, RowExists, Severity
  <2> QED BY <2>1, <2>2, <2>3, <2>4 DEF OneRowWritten
<1>3. ASSUME NEW w \in Workers, WriteStatus(w) PROVE OneRowWritten
  <2> DEFINE i == req[w].inc
             row == [incidents[i] EXCEPT !.status = req[w].want]
  <2>1. \/ UNCHANGED incidents
        \/ incidents' = [incidents EXCEPT ![i] = row] /\ Goto(w, "rereadStatus")
    BY <1>3 DEF WriteStatus, UpdateIncidentStatus
  <2>2. /\ req[w].pc = "writeStatus" /\ i \in Incidents
        /\ req[w].want \in RowStatus /\ RowExists(i)
    BY <1>3 DEF WriteStatus, TypeInv, TypeOK, Request, RowsInv, AsksForRow, StatusPcs
  <2>3. incidents[i] \in IncidentRow
    BY <1>0, <2>2
  <2>4. /\ row \in IncidentRow /\ row.status = req[w].want
        /\ row.severity = incidents[i].severity
    BY <2>2, <2>3 DEF IncidentRow, IncidentStatus
  <2>5. CASE incidents' = [incidents EXCEPT ![i] = row] /\ Goto(w, "rereadStatus")
    <3>1. req'[w].pc = "rereadStatus" /\ req'[w].inc = i
      BY <2>5, GotoFacts DEF SameTarget
    <3> HIDE DEF row
    <3>2. RowWritten(i, row)
      BY <2>2, <2>4, <3>1 DEF RowWritten
    <3> QED BY <2>2, <2>4, <2>5, <3>2 DEF OneRowWritten
  <2> QED BY <2>1, <2>5 DEF OneRowWritten
<1>4. CASE UNCHANGED incidents
  BY <1>4 DEF OneRowWritten
<1>5. CASE SubscriberReceive
  <2>1. CASE SubDrop
    BY <1>4, <2>1 DEF SubDrop
  <2> QED BY <1>1, <1>5, <2>1 DEF SubscriberReceive
<1>6. CASE SubscriberStep
  BY <1>2, <1>4, <1>6 DEF SubscriberStep, SubAuditCreated, SubNotify, SubList, SubDraft,
     SubAuditDraft, storeVars
<1>7. ASSUME NEW w \in Workers, HandlerStep(w) PROVE OneRowWritten
  <2>1. CASE ClusterStep(w)
    BY <1>4, <2>1 DEF ClusterStep, storeVars
  <2>2. CASE ReadIncident(w) \/ RereadStatus(w) \/ ReadForFollowUp(w)
    BY <1>4, <2>2 DEF ReadIncident, RereadStatus, ReadForFollowUp, storeVars
  <2>3. CASE AuditStatus(w) \/ DraftOnAck(w) \/ CreateFollowUp(w)
    BY <1>4, <2>3 DEF AuditStatus, DraftOnAck, CreateFollowUp, Draft
  <2>4. CASE Decide(w) \/ Mark(w) \/ AuditSteps(w)
    BY <1>4, <2>4 DEF Decide, Mark, AuditSteps, AuditLast
  <2> QED BY <1>3, <1>7, <2>1, <2>2, <2>3, <2>4 DEF HandlerStep, StoreStep
<1>8. CASE Crash \/ UNCHANGED vars
  BY <1>4, <1>8 DEF Crash, vars, storeVars
<1>9. ASSUME NEW w \in Workers, StartRequest(w) \/ Disconnect(w) PROVE OneRowWritten
  BY <1>4, <1>9 DEF StartRequest, Disconnect, storeVars
<1>10. ASSUME NEW i \in Incidents, Churn(i) PROVE OneRowWritten
  BY <1>4, <1>10 DEF Churn, storeVars
<1> QED
  BY <1>5, <1>6, <1>7, <1>8, <1>9, <1>10 DEF Next

\* What such a write does to every row.
LEMMA RowsGrow ==
    ASSUME TypeInv, OneRowWritten, \A i \in Incidents : ~RowExists(i) => incidents[i].severity = 0
    PROVE  \A i \in Incidents :
              /\ incidents'[i].severity >= incidents[i].severity
              /\ RowExists(i) => incidents'[i].status # "absent"
              /\ incidents'[i].status = "absent" => incidents'[i].severity = 0
<1>0. \A i \in Incidents : incidents[i].severity \in Severity
  BY DEF TypeInv, TypeOK, StoreTypeOK, IncidentRow
<1>1. CASE UNCHANGED incidents
  BY <1>0, <1>1 DEF Severity, RowExists
<1>2. ASSUME NEW i \in Incidents, NEW row \in IncidentRow,
             incidents' = [incidents EXCEPT ![i] = row], RowWritten(i, row),
             NEW j \in Incidents
      PROVE  /\ incidents'[j].severity >= incidents[j].severity
             /\ RowExists(j) => incidents'[j].status # "absent"
             /\ incidents'[j].status = "absent" => incidents'[j].severity = 0
  <2>1. incidents'[i] = row /\ (j # i => incidents'[j] = incidents[j])
    BY <1>2 DEF TypeInv, TypeOK, StoreTypeOK
  <2>2. CASE j = i
    BY <1>0, <1>2, <2>1, <2>2 DEF RowWritten, RowExists, RowStatus, Severity
  <2>3. CASE j # i
    BY <1>0, <2>1, <2>3 DEF RowExists, Severity
  <2> QED BY <2>2, <2>3
<1> QED BY <1>1, <1>2 DEF OneRowWritten

\* No row exists at the start, and nobody writes.
LEMMA RowsInit == Init => RowsInv
<1> SUFFICES ASSUME Init PROVE RowsInv
  OBVIOUS
<1>1. \A i \in Incidents : incidents[i].severity = 0
  BY DEF Init, StoreInit, NoRow
<1>2. \A w \in Workers : req[w].pc = "idle"
  BY DEF Init, IdleReq
<1> QED BY <1>1, <1>2 DEF RowsInv, AsksForRow, StatusPcs

\* Rows that were found stay, so a request still writes to a row.
LEMMA RowsStep == TypeInv /\ RowsInv /\ [Next]_vars => RowsInv'
<1> SUFFICES ASSUME TypeInv, RowsInv, [Next]_vars PROVE RowsInv'
  OBVIOUS
<1>1. \A i \in Incidents :
         /\ RowExists(i) => incidents'[i].status # "absent"
         /\ incidents'[i].status = "absent" => incidents'[i].severity = 0
  BY IncidentWrites, RowsGrow DEF RowsInv
<1>2. ASSUME NEW w \in Workers PROVE AsksForRow(req[w])'
  <2>0. req[w].inc \in Incidents /\ AsksForRow(req[w])
    BY DEF TypeInv, TypeOK, Request, RowsInv
  <2>1. CASE Starts(w)
    BY <2>1, ServiceAssumption DEF Starts, AsksForRow, StatusPcs
  <2>2. CASE Follows(w)
    <3>1. req'[w].pc \in StatusPcs => req'[w].want \in RowStatus
      BY <2>0, <2>2 DEF Follows, AsksForRow, StatusPcs, DraftPcs
    <3>2. req'[w].pc = "writeStatus" => RowExists(req[w].inc) /\ req'[w].inc = req[w].inc
      BY <2>0, <2>2 DEF Follows, AsksForRow, StatusPcs, DraftPcs
    <3>3. req'[w].pc = "writeStatus" => incidents'[req'[w].inc].status # "absent"
      BY <1>1, <2>0, <3>2
    <3> QED BY <3>1, <3>3 DEF AsksForRow, RowExists
  <2> QED BY <2>1, <2>2, RequestsFollow
<1>3. \A i \in Incidents : ~RowExists(i)' => incidents'[i].severity = 0
  BY <1>1 DEF RowExists
<1> QED BY <1>2, <1>3 DEF RowsInv

\* The types and the rows of incidents hold in every reachable state.
LEMMA RowsInvariant == Spec => [](TypeInv /\ RowsInv)
<1>1. Init => TypeInv /\ RowsInv
  BY TypeInit, RowsInit
<1>2. (TypeInv /\ RowsInv) /\ [Next]_vars => (TypeInv /\ RowsInv)'
  BY TypeStep, RowsStep
<1> QED BY <1>1, <1>2, PTL DEF Spec

(***************************************************************************)
(* The severity of an incident never falls and its row never disappears,   *)
(* whatever alerts arrive and whatever status requests write.              *)
(***************************************************************************)
THEOREM SeverityIsMonotone == Spec => SeverityNeverDrops
<1>1. (TypeInv /\ RowsInv) /\ [Next]_vars =>
         [\A i \in Incidents :
             /\ incidents'[i].severity >= incidents[i].severity
             /\ RowExists(i) => incidents'[i].status # "absent"]_vars
  BY IncidentWrites, RowsGrow DEF RowsInv
<1> QED BY <1>1, RowsInvariant, PTL DEF Spec, SeverityNeverDrops

-----------------------------------------------------------------------------
(***************************************************************************)
(* Drafts.  As long as requests only decide actions and the database       *)
(* answers, the subscriber is the only one who drafts, and it looks first. *)
(* Its look is limited to the newest ListLimit pending actions, of which   *)
(* there are no more than incidents, if the invariant holds so far.        *)
(***************************************************************************)
OnlyDecisions ==
    /\ Kinds \subseteq {"approve", "reject"}
    /\ "db" \notin Faults
    /\ IsFiniteSet(Incidents) /\ ListLimit \in Nat /\ Cardinality(Incidents) <= ListLimit

\* Where the subscriber looked, nobody has drafted since.
DraftInv ==
    /\ OnePendingDraft
    /\ sub.pc = "draft" => \A a \in PendingIds : actions[a].incident # sub.inc
    /\ \A w \in Workers : req[w].pc \notin DraftPcs

\* The pending actions of other incidents cannot hide one from the list.
LEMMA ListShowsAll ==
    ASSUME TypeInv, OnlyDecisions, OnePendingDraft
    PROVE  ListPending(ListLimit) = PendingIds
<1>0. actions \in Seq(ActionRow) /\ Len(actions) \in Nat
  BY LenProperties DEF TypeInv, TypeOK, StoreTypeOK
<1>1. ASSUME NEW a \in PendingIds
      PROVE  Cardinality({b \in PendingIds : b > a}) < ListLimit
  <2> DEFINE T == {b \in PendingIds : b > a}
             Rest == Incidents \ {actions[a].incident}
             f == [b \in T |-> actions[b].incident]
  <2>1. \A b \in PendingIds : b \in Nat /\ b \in ActionIds /\ actions[b].incident \in Incidents
    <3>1. \A b \in PendingIds : b \in 1..Len(actions)
      BY DEF PendingIds, ActionIds
    <3>2. \A b \in 1..Len(actions) : actions[b] \in ActionRow
      BY <1>0
    <3> QED BY <1>0, <3>1, <3>2 DEF ActionRow, ActionIds
  <2>2. \A b \in T : actions[b].incident \in Rest
    BY <2>1 DEF OnePendingDraft
  <2>3. f \in Injection(T, Rest)
    BY <2>2 DEF OnePendingDraft, Injection, IsInjective
  <2>4. IsFiniteSet(Rest) /\ Cardinality(Rest) = Cardinality(Incidents) - 1
    BY <2>1, FS_RemoveElement DEF OnlyDecisions
  <2> HIDE DEF T, Rest, f
  <2>5. Cardinality(T) <= Cardinality(Rest) /\ IsFiniteSet(T)
    BY <2>3, <2>4, FS_Injection
  <2>6. Cardinality(Incidents) \in Nat /\ Cardinality(T) \in Nat
    BY <2>5, FS_CardinalityType DEF OnlyDecisions
  <2> QED BY <2>4, <2>5, <2>6 DEF OnlyDecisions, T
<1> QED BY <1>1 DEF ListPending

\* The steps that write the table of actions, and what they leave to do.
SubDrafts ==
    /\ sub.pc = "draft" /\ CreateAction(sub.inc, "quarantine_pod", NoPod)
    /\ sub'.pc = "auditDraft" /\ sub'.act = Len(actions) + 1
    /\ UNCHANGED req

ReqDrafts(w) ==
    /\ req[w].pc \in {"draft", "createFollowUp"}
    /\ \E type \in ActionTypes, pod \in Pods \cup {NoPod} :
          CreateAction(req[w].inc, type, pod)
    /\ req'[w].pc \in {"auditDraft", "auditFollowUp"} /\ req'[w].act = Len(actions) + 1
    /\ OthersSame(w) /\ UNCHANGED sub

ReqDecides(w) ==
    /\ Decide(w) /\ DecideAction(req[w].act, req[w].kind, req[w].user)
    /\ UNCHANGED sub

ReqMarks(w) ==
    /\ Mark(w) /\ MarkActionExecuted(req[w].act, req[w].ok) /\ Goto(w, "auditApproved")
    /\ UNCHANGED sub

ActionsWritten ==
    \/ UNCHANGED actions
    \/ SubDrafts
    \/ \E w \in Workers : ReqDrafts(w) \/ ReqDecides(w) \/ ReqMarks(w)

\* Nothing else writes the table of actions.
LEMMA ActionWrites ==
    ASSUME TypeInv, [Next]_vars
    PROVE  ActionsWritten
<1>1. CASE UNCHANGED actions
  BY <1>1 DEF ActionsWritten
<1>2. CASE SubscriberReceive
  BY <1>1, <1>2 DEF SubscriberReceive, SubDrop, SubUpsert, Receive
<1>3. CASE SubscriberStep
  <2>1. CASE SubAuditCreated \/ SubNotify \/ SubResolve \/ SubList \/ SubAuditDraft
    BY <1>1, <2>1 DEF SubAuditCreated, SubNotify, SubResolve, SubList, SubAuditDraft,
       storeVars
  <2>2. CASE SubDraft
    <3>1. CASE UNCHANGED actions
      BY <1>1, <3>1
    <3>2. CASE /\ CreateAction(sub.inc, "quarantine_pod", NoPod)
               /\ sub' = [sub EXCEPT !.pc = "auditDraft", !.act = Len(actions) + 1]
      <4>1. sub \in Subscriber
        BY DEF TypeInv, TypeOK
      <4>2. sub'.pc = "auditDraft" /\ sub'.act = Len(actions) + 1
        BY <3>2, <4>1 DEF Subscriber
      <4>3. UNCHANGED req /\ sub.pc = "draft"
        BY <1>3, <2>2 DEF SubscriberStep, SubDraft, reqVars
      <4> QED BY <3>2, <4>2, <4>3 DEF ActionsWritten, SubDrafts
    <3> QED BY <2>2, <3>1, <3>2 DEF SubDraft
  <2> QED BY <1>3, <2>1, <2>2 DEF SubscriberStep
<1>4. ASSUME NEW w \in Workers, HandlerStep(w) PROVE ActionsWritten
  <2>0. UNCHANGED sub
    BY <1>4 DEF HandlerStep, subVars
  <2>1. CASE ClusterStep(w)
    BY <1>1, <2>1 DEF ClusterStep, storeVars
  <2>2. CASE ReadIncident(w) \/ RereadStatus(w) \/ ReadForFollowUp(w)
    BY <1>1, <2>2 DEF ReadIncident, RereadStatus, ReadForFollowUp, storeVars
  <2>3. CASE WriteStatus(w) \/ AuditStatus(w) \/ AuditSteps(w)
    BY <1>1, <2>3 DEF WriteStatus, AuditStatus, AuditSteps, AuditLast
  <2>4. ASSUME NEW type \in ActionTypes, NEW pod \in Pods \cup {NoPod},
               NEW pc \in {"auditDraft", "auditFollowUp"}, Draft(w, type, pod, pc),
               req[w].pc \in {"draft", "createFollowUp"}
        PROVE  ActionsWritten
    <3> DEFINE r == [req[w] EXCEPT !.pc = pc, !.act = Len(actions) + 1]
    <3>1. \/ UNCHANGED actions
          \/ CreateAction(req[w].inc, type, pod) /\ req' = [req EXCEPT ![w] = r]
      BY <2>4 DEF Draft
    <3>2. r.pc = pc /\ r.act = Len(actions) + 1
      BY FieldFacts
    <3> HIDE DEF r
    <3>3. CASE CreateAction(req[w].inc, type, pod) /\ req' = [req EXCEPT ![w] = r]
      <4>1. req'[w] = r /\ OthersSame(w)
        BY <3>3, WriteFacts
      <4>2. ReqDrafts(w)
        BY <2>0, <2>4, <3>2, <3>3, <4>1 DEF ReqDrafts
      <4> QED BY <4>2 DEF ActionsWritten
    <3> QED BY <1>1, <3>1, <3>3
  <2>5. CASE DraftOnAck(w)
    BY <2>4, <2>5 DEF DraftOnAck, ActionTypes
  <2>6. CASE CreateFollowUp(w)
    <3>1. req[w].kind \in ActionTypes /\ req[w].pod \in Pods \cup {NoPod}
      BY <2>6 DEF CreateFollowUp, TypeInv, TypeOK, RequestsOK, RequestOK, Request,
         FollowUpTypes, ActionTypes
    <3> QED BY <2>4, <2>6, <3>1 DEF CreateFollowUp
  <2>7. CASE Decide(w)
    <3>1. UNCHANGED actions \/ DecideAction(req[w].act, req[w].kind, req[w].user)
      BY <2>7 DEF Decide
    <3> QED BY <1>1, <2>0, <2>7, <3>1 DEF ActionsWritten, ReqDecides
  <2>8. CASE Mark(w)
    <3>1. \/ UNCHANGED actions
          \/ MarkActionExecuted(req[w].act, req[w].ok) /\ Goto(w, "auditApproved")
      BY <2>8 DEF Mark
    <3> QED BY <1>1, <2>0, <2>8, <3>1 DEF ActionsWritten, ReqMarks
  <2> QED BY <1>4, <2>1, <2>2, <2>3, <2>5, <2>6, <2>7, <2>8 DEF HandlerStep, StoreStep
<1>5. ASSUME NEW w \in Workers, StartRequest(w) \/ Disconnect(w) PROVE ActionsWritten
  BY <1>1, <1>5 DEF StartRequest, Disconnect, storeVars
<1>6. CASE Crash \/ UNCHANGED vars
  BY <1>1, <1>6 DEF Crash, vars, storeVars
<1>7. ASSUME NEW i \in Incidents, Churn(i) PROVE ActionsWritten
  BY <1>1, <1>7 DEF Churn, storeVars
<1> QED BY <1>2, <1>3, <1>4, <1>5, <1>6, <1>7 DEF Next

\* The subscriber is about to draft only when the list showed nothing.
LEMMA LooksFirst ==
    ASSUME TypeInv, [Next]_vars, "db" \notin Faults, sub'.pc = "draft"
    PROVE  \/ sub' = sub
           \/ sub'.inc = sub.inc /\ UNCHANGED actions /\ DraftMissing(TRUE)
<1>0. sub \in Subscriber /\ IdleSub.pc = "idle" /\ IdleSub \in Subscriber
  BY IdleTypes DEF TypeInv, TypeOK, IdleSub
<1>1. \A pc : [sub EXCEPT !.pc = pc].pc = pc /\ [sub EXCEPT !.pc = pc].inc = sub.inc
  BY <1>0 DEF Subscriber
<1>2. CASE SubscriberReceive
  <2>1. CASE SubDrop
    BY <2>1 DEF SubDrop
  <2>2. ASSUME NEW i \in Incidents, NEW severity \in Severities,
               NEW arrays \in AlertArrays, SubUpsert(i, severity, arrays)
        PROVE  sub' = sub
    BY <2>2 DEF SubUpsert
  <2> QED BY <1>2, <2>1, <2>2 DEF SubscriberReceive
<1>3. CASE SubscriberStep
  <2>1. CASE SubAuditCreated \/ SubNotify \/ SubResolve \/ SubAuditDraft
    BY <1>1, <2>1 DEF SubAuditCreated, SubNotify, SubResolve, SubAuditDraft, SubGoto
  <2>2. CASE SubDraft
    <3>1. [sub EXCEPT !.pc = "auditDraft", !.act = Len(actions) + 1].pc = "auditDraft"
      BY <1>0 DEF Subscriber
    <3> QED BY <1>1, <2>2, <3>1 DEF SubDraft, SubGoto
  <2>3. CASE SubList
    <3>1. PICK ok \in Outcomes("db") :
             SubGoto(IF sub.severity >= High /\ DraftMissing(ok) THEN "draft" ELSE "idle")
      BY <2>3 DEF SubList
    <3>2. ok = TRUE
      BY <3>1 DEF Outcomes
    <3>3. DraftMissing(ok) /\ sub'.inc = sub.inc
      BY <1>1, <3>1 DEF SubGoto
    <3> QED BY <2>3, <3>2, <3>3 DEF SubList, storeVars
  <2> QED BY <1>3, <2>1, <2>2, <2>3 DEF SubscriberStep
<1>4. CASE Crash
  <2>1. [IdleSub EXCEPT !.pc = "exited"].pc = "exited"
    BY <1>0 DEF Subscriber
  <2> QED BY <1>0, <1>4, <2>1 DEF Crash
<1>5. ASSUME NEW w \in Workers, StartRequest(w) \/ HandlerStep(w) \/ Disconnect(w)
      PROVE  sub' = sub
  BY <1>5 DEF StartRequest, HandlerStep, Disconnect, subVars
<1>6. ASSUME NEW i \in Incidents, Churn(i) PROVE sub' = sub
  BY <1>6 DEF Churn, subVars
<1>7. CASE UNCHANGED vars
  BY <1>7 DEF vars, subVars
<1> QED BY <1>2, <1>3, <1>4, <1>5, <1>6, <1>7 DEF Next

\* A step keeps one draft per incident.
LEMMA DraftStep ==
    ASSUME TypeInv, OnlyDecisions, DraftInv, [Next]_vars
    PROVE  DraftInv'
<1>0. actions \in Seq(ActionRow) /\ Len(actions) \in Nat /\ sub.inc \in Incidents
  BY LenProperties DEF TypeInv, TypeOK, StoreTypeOK, Subscriber
<1>1. \A w \in Workers : req'[w].pc \notin DraftPcs
  <2> TAKE w \in Workers
  <2>1. CASE Follows(w)
    BY <2>1 DEF Follows, DraftInv
  <2>2. CASE Starts(w)
    BY <2>2 DEF Starts, OnlyDecisions, DraftPcs, StatusPcs
  <2> QED BY <2>1, <2>2, RequestsFollow
<1>2. ASSUME PendingIds' \subseteq PendingIds,
             \A a \in PendingIds' : actions'[a].incident = actions[a].incident
      PROVE  OnePendingDraft' /\ (sub'.pc = "draft" =>
                \A a \in PendingIds' : actions'[a].incident # sub'.inc)
  <2>1. OnePendingDraft'
    BY <1>2 DEF DraftInv, OnePendingDraft
  <2>2. ASSUME sub'.pc = "draft", NEW a \in PendingIds'
        PROVE  actions'[a].incident # sub'.inc
    <3>1. CASE sub' = sub
      BY <1>2, <2>2, <3>1 DEF DraftInv
    <3>2. CASE sub'.inc = sub.inc /\ DraftMissing(TRUE)
      BY <1>2, <2>2, <3>2, ListShowsAll DEF DraftMissing, DraftInv
    <3> QED BY <2>2, <3>1, <3>2, LooksFirst DEF OnlyDecisions
  <2> QED BY <2>1, <2>2
<1>3. CASE UNCHANGED actions
  BY <1>1, <1>2, <1>3 DEF PendingIds, ActionIds, DraftInv
<1>4. CASE SubDrafts
  <2>1. /\ Len(actions') = Len(actions) + 1
        /\ \A a \in ActionIds : actions'[a] = actions[a]
        /\ actions'[Len(actions) + 1] = NewAction(sub.inc, "quarantine_pod", NoPod)
    BY <1>0, <1>4, CreateFacts DEF SubDrafts, ActionTypes
  <2>2. \A a \in PendingIds' :
           \/ a \in PendingIds /\ actions'[a].incident = actions[a].incident
           \/ a = Len(actions) + 1 /\ actions'[a].incident = sub.inc
    BY <1>0, <2>1 DEF PendingIds, ActionIds, NewAction
  <2>3. \A a \in PendingIds : actions[a].incident # sub.inc
    BY <1>4 DEF SubDrafts, DraftInv
  <2>4. OnePendingDraft'
    BY <2>2, <2>3 DEF DraftInv, OnePendingDraft
  <2> QED BY <1>1, <1>4, <2>4 DEF DraftInv, SubDrafts
<1>5. ASSUME NEW w \in Workers, ReqDrafts(w) PROVE FALSE
  BY <1>5 DEF ReqDrafts, DraftInv, DraftPcs, StatusPcs
<1>6. ASSUME NEW w \in Workers, ReqDecides(w) PROVE DraftInv'
  <2> DEFINE a == req[w].act
  <2>0. req[w].user \in Users \cup {Nobody} /\ DecideAction(a, req[w].kind, req[w].user)
    BY <1>6 DEF TypeInv, TypeOK, Request, ReqDecides
  <2> HIDE DEF a
  <2>1. /\ a \in ActionIds /\ Len(actions') = Len(actions)
        /\ \A b \in ActionIds : b # a => actions'[b] = actions[b]
        /\ actions'[a].status = DecidedStatus(req[w].kind)
    BY <1>0, <2>0, DecideFacts
  <2>2. actions'[a].status # "pending"
    BY <2>1 DEF DecidedStatus
  <2>3. PendingIds' \subseteq PendingIds
        /\ \A b \in PendingIds' : actions'[b].incident = actions[b].incident
    BY <2>1, <2>2 DEF PendingIds, ActionIds
  <2> QED BY <1>1, <1>2, <2>3 DEF DraftInv
<1>7. ASSUME NEW w \in Workers, ReqMarks(w) PROVE DraftInv'
  <2> DEFINE a == req[w].act
  <2>0. /\ a \in ActionIds /\ req[w].ok \in BOOLEAN /\ MarkActionExecuted(a, req[w].ok)
    BY <1>7 DEF TypeInv, TypeOK, RequestsOK, RequestOK, Request, ReqMarks, Mark, Executing
  <2> HIDE DEF a
  <2>1. /\ Len(actions') = Len(actions)
        /\ \A b \in ActionIds : b # a => actions'[b] = actions[b]
        /\ actions'[a] = [actions[a] EXCEPT !.status = IF req[w].ok THEN "executed" ELSE "failed"]
    BY <1>0, <2>0, MarkFacts
  <2>2. actions[a] \in ActionRow
    BY <1>0, <2>0 DEF ActionIds
  <2>3. actions'[a].status # "pending"
    BY <2>1, <2>2 DEF ActionRow
  <2>4. PendingIds' \subseteq PendingIds
        /\ \A b \in PendingIds' : actions'[b].incident = actions[b].incident
    BY <2>0, <2>1, <2>3 DEF PendingIds, ActionIds
  <2> QED BY <1>1, <1>2, <2>4 DEF DraftInv
<1> QED
  BY ActionWrites, <1>3, <1>4, <1>5, <1>6, <1>7 DEF ActionsWritten

(***************************************************************************)
(* While requests only decide actions and the database answers, an         *)
(* incident has at most one draft waiting, through crashes, restarts and   *)
(* cancelled requests, as long as the list is not cut below the number of  *)
(* incidents.                                                              *)
(***************************************************************************)
THEOREM DraftsAreUnique == Spec => [](OnlyDecisions => OnePendingDraft)
<1>1. Init => TypeInv /\ (OnlyDecisions => DraftInv)
  <2>1. ASSUME Init PROVE DraftInv
    <3>1. actions = << >> /\ \A w \in Workers : req[w].pc = "idle"
      BY <2>1 DEF Init, StoreInit, IdleReq
    <3>2. PendingIds = {}
      BY <3>1 DEF PendingIds, ActionIds
    <3> QED BY <3>1, <3>2 DEF DraftInv, OnePendingDraft, DraftPcs, StatusPcs
  <2> QED BY <2>1, TypeInit
<1>2. TypeInv /\ (OnlyDecisions => DraftInv) /\ [Next]_vars
         => (TypeInv /\ (OnlyDecisions => DraftInv))'
  <2>1. ASSUME OnlyDecisions' PROVE OnlyDecisions
    BY <2>1 DEF OnlyDecisions
  <2> QED BY <2>1, TypeStep, DraftStep
<1>3. TypeInv /\ (OnlyDecisions => DraftInv) => (OnlyDecisions => OnePendingDraft)
  BY DEF DraftInv
<1> QED BY <1>1, <1>2, <1>3, PTL DEF Spec

-----------------------------------------------------------------------------
(***************************************************************************)
(* The audit log.  A handler writes its entry after the change, so between *)
(* two calls the entry is owed: by the subscriber or by the request that   *)
(* made the change.  As long as no call is lost, what is owed is written.  *)
(***************************************************************************)
Lossless == Faults \cap {"crash", "disconnect", "db"} = {}

OwesStatus(r, i) == r.pc \in {"rereadStatus", "auditStatus"} /\ r.inc = i

OwesDraft(r, a) == r.pc \in {"auditDraft", "auditFollowUp"} /\ r.act = a

OwesApproval(r, a) == r.pc \in Executing \cup {"auditApproved"} /\ r.act = a

OwesRejection(r, a) == r.pc = "auditRejected" /\ r.act = a

\* What a request owes it goes on owing, or writes.
Settles(w) ==
    /\ \A i : OwesStatus(req[w], i) =>
          OwesStatus(req'[w], i) \/ <<"incident.status", i>> \in audit'
    /\ \A a : OwesDraft(req[w], a) =>
          OwesDraft(req'[w], a) \/ \E event \in DraftEvents : <<event, a>> \in audit'
    /\ \A a : OwesApproval(req[w], a) =>
          OwesApproval(req'[w], a) \/ <<"action.approved", a>> \in audit'
    /\ \A a : OwesRejection(req[w], a) =>
          OwesRejection(req'[w], a) \/ <<"action.rejected", a>> \in audit'

NoneGone == \A w \in Workers : ~req[w].gone

\* Calls to the database succeed.
LEMMA CallsSucceed ==
    ASSUME Lossless, NoneGone, NEW w \in Workers
    PROVE  Calls(w, "db") = {TRUE} /\ Outcomes("db") = {TRUE}
BY DEF Lossless, NoneGone, Calls, Outcomes

\* A request that makes one of these calls owes nothing.
LEMMA OwesNothing ==
    ASSUME NEW w \in Workers,
           req[w].pc \in {"idle", "readIncident", "writeStatus", "draft",
                          "readForFollowUp", "createFollowUp", "decide"}
    PROVE  Settles(w)
BY DEF Settles, OwesStatus, OwesDraft, OwesApproval, OwesRejection, Executing

\* executeAction goes on, or returns.
LEMMA ExecutionSettles ==
    ASSUME NEW w \in Workers, req[w].pc \in Executing,
           req'[w].pc \in Executing \cup {"auditApproved"}, req'[w].act = req[w].act
    PROVE  Settles(w)
BY DEF Settles, OwesStatus, OwesDraft, OwesApproval, OwesRejection, Executing

\* Handlers settle what they owe.
LEMMA HandlerSettles ==
    ASSUME TypeInv, Lossless, NoneGone, NEW w \in Workers, HandlerStep(w)
    PROVE  Settles(w) /\ ~req'[w].gone
<1>0. Calls(w, "db") = {TRUE} /\ req[w].gone = FALSE
  <2>1. req[w].gone \in BOOLEAN
    BY DEF TypeInv, TypeOK, Request
  <2> QED BY <2>1, CallsSucceed DEF NoneGone
<1>1. ASSUME NEW r, req' = [req EXCEPT ![w] = r], r.gone = req[w].gone
      PROVE  ~req'[w].gone
  BY <1>0, <1>1, WriteFacts
<1>2. ASSUME Finish(w) PROVE ~req'[w].gone
  BY <1>2, FinishFacts
<1>3. ASSUME NEW pc, Goto(w, pc) PROVE ~req'[w].gone
  BY <1>0, <1>3, GotoFacts DEF SameTarget
<1>4. ASSUME NEW ok, Return(w, ok), req[w].pc \in Executing
      PROVE  Settles(w) /\ ~req'[w].gone
  <2>1. req'[w].pc = "mark" /\ SameTarget(w)
    BY <1>4, ReturnFacts
  <2> QED BY <1>0, <1>4, <2>1, ExecutionSettles DEF SameTarget, Executing
<1>5. ASSUME NEW pc \in Executing \cup {"auditApproved"}, Goto(w, pc), req[w].pc \in Executing
      PROVE  Settles(w) /\ ~req'[w].gone
  <2>1. req'[w].pc = pc /\ SameTarget(w)
    BY <1>5, GotoFacts
  <2> QED BY <1>0, <1>5, <2>1, ExecutionSettles DEF SameTarget
<1>6. ASSUME NEW type, NEW pod, NEW pc, Draft(w, type, pod, pc)
      PROVE  ~req'[w].gone
  <2> DEFINE r == [req[w] EXCEPT !.pc = pc, !.act = Len(actions) + 1]
  <2>1. Finish(w) \/ req' = [req EXCEPT ![w] = r]
    BY <1>6 DEF Draft
  <2>2. r.gone = req[w].gone
    BY FieldFacts
  <2> HIDE DEF r
  <2> QED BY <1>1, <1>2, <2>1, <2>2
<1>7. CASE ReadIncident(w)
  <2> DEFINE r == [req[w] EXCEPT !.pc = "writeStatus", !.prev = incidents[req[w].inc]]
  <2>1. Finish(w) \/ req' = [req EXCEPT ![w] = r]
    BY <1>7 DEF ReadIncident
  <2>2. r.gone = req[w].gone
    BY FieldFacts
  <2> HIDE DEF r
  <2>3. Settles(w)
    BY <1>7, OwesNothing DEF ReadIncident
  <2> QED BY <1>1, <1>2, <2>1, <2>2, <2>3
<1>8. CASE WriteStatus(w)
  <2>1. Settles(w)
    BY <1>8, OwesNothing DEF WriteStatus
  <2> QED BY <1>2, <1>3, <1>8, <2>1 DEF WriteStatus
<1>9. CASE RereadStatus(w)
  <2> DEFINE r == [req[w] EXCEPT !.pc = "auditStatus",
                                 !.want = incidents[req[w].inc].status]
  <2>1. req' = [req EXCEPT ![w] = r] /\ req[w].pc = "rereadStatus"
    BY <1>0, <1>9 DEF RereadStatus
  <2>2. r.pc = "auditStatus" /\ r.inc = req[w].inc /\ r.gone = req[w].gone
    BY FieldFacts
  <2> HIDE DEF r
  <2>3. req'[w] = r
    BY <2>1, WriteFacts
  <2>4. Settles(w)
    BY <2>1, <2>2, <2>3
    DEF Settles, OwesStatus, OwesDraft, OwesApproval, OwesRejection, Executing
  <2> QED BY <1>1, <2>1, <2>2, <2>4
<1>10. CASE AuditStatus(w)
  <2>1. <<"incident.status", req[w].inc>> \in audit' /\ req[w].pc = "auditStatus"
    BY <1>0, <1>10 DEF AuditStatus, RecordAudit, AppendAudit
  <2>2. Settles(w)
    BY <2>1 DEF Settles, OwesStatus, OwesDraft, OwesApproval, OwesRejection, Executing
  <2> QED BY <1>2, <1>3, <1>10, <2>2 DEF AuditStatus
<1>11. CASE DraftOnAck(w)
  <2>1. Settles(w)
    BY <1>11, OwesNothing DEF DraftOnAck
  <2> QED BY <1>6, <1>11, <2>1 DEF DraftOnAck
<1>12. CASE ReadForFollowUp(w)
  <2>1. Settles(w)
    BY <1>12, OwesNothing DEF ReadForFollowUp
  <2> QED BY <1>2, <1>3, <1>12, <2>1 DEF ReadForFollowUp
<1>13. CASE CreateFollowUp(w)
  <2>1. Settles(w)
    BY <1>13, OwesNothing DEF CreateFollowUp
  <2> QED BY <1>6, <1>13, <2>1 DEF CreateFollowUp
<1>14. CASE Decide(w)
  <2> DEFINE a == req[w].act
             r == [req[w] EXCEPT !.pc  = NextAfterApproval(actions[a].type),
                                 !.inc = actions[a].incident,
                                 !.pod = actions[a].pod]
  <2>1. Finish(w) \/ Goto(w, "auditRejected") \/ req' = [req EXCEPT ![w] = r]
    BY <1>14 DEF Decide
  <2>2. r.gone = req[w].gone
    BY FieldFacts
  <2>3. Settles(w)
    BY <1>14, OwesNothing DEF Decide
  <2> HIDE DEF r
  <2> QED BY <1>1, <1>2, <1>3, <2>1, <2>2, <2>3
<1>15. CASE Mark(w)
  <2>1. Goto(w, "auditApproved") /\ req[w].pc \in Executing
    BY <1>0, <1>15 DEF Mark, Executing
  <2> QED BY <1>5, <2>1
<1>16. CASE AuditSteps(w)
  <2>1. PICK pc, event :
          /\ req[w].pc = pc /\ AuditLast(w, pc, event)
          /\ \/ pc \in {"auditDraft", "auditFollowUp"} /\ event \in DraftEvents
             \/ pc = "auditApproved" /\ event = "action.approved"
             \/ pc = "auditRejected" /\ event = "action.rejected"
    BY <1>16 DEF AuditSteps, AuditLast, DraftEvents
  <2>2. <<event, req[w].act>> \in audit'
    BY <1>0, <2>1 DEF AuditLast, RecordAudit, AppendAudit
  <2>3. Settles(w)
    BY <2>1, <2>2 DEF Settles, OwesStatus, OwesDraft, OwesApproval, OwesRejection, Executing
  <2> QED BY <1>2, <2>1, <2>3 DEF AuditLast
<1>17. CASE Label(w)
  BY <1>5, <1>17 DEF Label, Executing
<1>18. CASE CreatePolicy(w)
  BY <1>4, <1>5, <1>18 DEF CreatePolicy, Executing
<1>19. CASE GetPolicy(w)
  <2> DEFINE r == [req[w] EXCEPT !.pc = "updatePolicy", !.rv = policy[req[w].inc]]
  <2>1. /\ Return(w, FALSE) \/ req' = [req EXCEPT ![w] = r]
        /\ req[w].pc \in Executing
    BY <1>19 DEF GetPolicy, Executing
  <2>2. r.pc = "updatePolicy" /\ r.act = req[w].act /\ r.gone = req[w].gone
    BY FieldFacts
  <2> HIDE DEF r
  <2>3. CASE req' = [req EXCEPT ![w] = r]
    <3>1. req'[w] = r
      BY <2>3, WriteFacts
    <3>2. Settles(w)
      BY <2>1, <2>2, <3>1, ExecutionSettles DEF Executing
    <3> QED BY <1>1, <2>2, <2>3, <3>2
  <2> QED BY <1>4, <2>1, <2>3
<1>20. CASE UpdatePolicy(w)
  BY <1>4, <1>20 DEF UpdatePolicy, RefusedUpdate, Executing
<1>21. CASE PodOp(w)
  BY <1>4, <1>21 DEF PodOp, Executing
<1> QED
  BY <1>7, <1>8, <1>9, <1>10, <1>11, <1>12, <1>13, <1>14, <1>15, <1>16, <1>17, <1>18,
     <1>19, <1>20, <1>21 DEF HandlerStep, StoreStep, ClusterStep

\* Every request settles what it owes, and no client goes away.
LEMMA RequestsSettle ==
    ASSUME TypeInv, Lossless, NoneGone, [Next]_vars, NEW v \in Workers
    PROVE  Settles(v) /\ ~req'[v].gone
<1>1. CASE req'[v] = req[v]
  <2>1. Settles(v)
    BY <1>1 DEF Settles, OwesStatus, OwesDraft, OwesApproval, OwesRejection
  <2> QED BY <1>1, <2>1 DEF NoneGone
<1>2. ASSUME NEW w \in Workers, StartRequest(w) PROVE Settles(v) /\ ~req'[v].gone
  <2>1. Starts(w) /\ OthersSame(w) /\ req[w].pc = "idle"
    BY <1>2, StartFacts
  <2>2. CASE v = w
    BY <2>1, <2>2, OwesNothing DEF Starts
  <2>3. CASE v # w
    BY <1>1, <2>1, <2>3 DEF OthersSame
  <2> QED BY <2>2, <2>3
<1>3. ASSUME NEW w \in Workers, HandlerStep(w) PROVE Settles(v) /\ ~req'[v].gone
  <2>1. CASE v = w
    BY <1>3, <2>1, HandlerSettles
  <2>2. CASE v # w
    BY <1>1, <1>3, <2>2, HandlerFollows DEF OthersSame
  <2> QED BY <2>1, <2>2
<1>4. ASSUME NEW w \in Workers, Disconnect(w) PROVE FALSE
  BY <1>4 DEF Disconnect, Lossless
<1>5. CASE Crash
  BY <1>5 DEF Crash, Lossless
<1>6. CASE SubscriberReceive \/ SubscriberStep
  BY <1>1, <1>6 DEF SubscriberReceive, SubscriberStep, reqVars
<1>7. ASSUME NEW i \in Incidents, Churn(i) PROVE Settles(v) /\ ~req'[v].gone
  BY <1>1, <1>7 DEF Churn, reqVars
<1>8. CASE UNCHANGED vars
  BY <1>1, <1>8 DEF vars, reqVars
<1> QED
  BY <1>2, <1>3, <1>4, <1>5, <1>6, <1>7, <1>8 DEF Next

\* What the subscriber owes it goes on owing, or writes.
SubSettles ==
    /\ sub.pc = "created" =>
          \/ sub' = sub
          \/ <<"incident.created", sub.inc>> \in audit'
    /\ sub.pc = "auditDraft" =>
          \/ sub' = sub
          \/ <<"action.auto_generated", sub.act>> \in audit'

\* The subscriber settles what it owes.
LEMMA SubscriberSettles ==
    ASSUME Lossless, [Next]_vars
    PROVE  SubSettles
<1>0. Outcomes("db") = {TRUE}
  BY DEF Lossless, Outcomes
<1>1. CASE UNCHANGED sub
  BY <1>1 DEF SubSettles
<1>2. CASE SubscriberReceive
  BY <1>2 DEF SubscriberReceive, SubDrop, SubUpsert, Receive, SubSettles
<1>3. CASE SubscriberStep
  <2>1. CASE SubAuditCreated
    BY <1>0, <2>1 DEF SubAuditCreated, RecordAudit, AppendAudit, SubSettles
  <2>2. CASE SubAuditDraft
    BY <1>0, <2>2 DEF SubAuditDraft, RecordAudit, AppendAudit, SubSettles
  <2>3. CASE SubNotify \/ SubResolve \/ SubList \/ SubDraft
    BY <2>3 DEF SubNotify, SubResolve, SubList, SubDraft, SubSettles
  <2> QED BY <1>3, <2>1, <2>2, <2>3 DEF SubscriberStep
<1>4. CASE Crash
  BY <1>4 DEF Crash, Lossless
<1>5. ASSUME NEW w \in Workers, StartRequest(w) \/ HandlerStep(w) \/ Disconnect(w)
      PROVE  SubSettles
  BY <1>1, <1>5 DEF StartRequest, HandlerStep, Disconnect, subVars
<1>6. ASSUME NEW i \in Incidents, Churn(i) PROVE SubSettles
  BY <1>1, <1>6 DEF Churn, subVars
<1>7. CASE UNCHANGED vars
  BY <1>1, <1>7 DEF vars, subVars
<1> QED BY <1>2, <1>3, <1>4, <1>5, <1>6, <1>7 DEF Next

\* The audit log only grows.
LEMMA AuditGrows ==
    ASSUME [Next]_vars
    PROVE  audit \subseteq audit'
<1>1. ASSUME NEW ok, NEW event, NEW target, RecordAudit(ok, event, target)
      PROVE  audit \subseteq audit'
  BY <1>1 DEF RecordAudit, AppendAudit
<1>2. CASE SubscriberReceive
  BY <1>2 DEF SubscriberReceive, SubDrop, SubUpsert, Receive
<1>3. CASE SubscriberStep
  BY <1>1, <1>3 DEF SubscriberStep, SubAuditCreated, SubNotify, SubResolve, SubList,
     SubDraft, SubAuditDraft, storeVars
<1>4. ASSUME NEW w \in Workers, HandlerStep(w) PROVE audit \subseteq audit'
  <2>1. CASE ClusterStep(w)
    BY <2>1 DEF ClusterStep, storeVars
  <2>2. CASE ReadIncident(w) \/ RereadStatus(w) \/ ReadForFollowUp(w)
    BY <2>2 DEF ReadIncident, RereadStatus, ReadForFollowUp, storeVars
  <2>3. CASE WriteStatus(w) \/ DraftOnAck(w) \/ CreateFollowUp(w)
    BY <2>3 DEF WriteStatus, DraftOnAck, CreateFollowUp, Draft
  <2>4. CASE Decide(w) \/ Mark(w)
    BY <2>4 DEF Decide, Mark
  <2>5. CASE AuditStatus(w) \/ AuditSteps(w)
    BY <1>1, <2>5 DEF AuditStatus, AuditSteps, AuditLast
  <2> QED BY <1>4, <2>1, <2>2, <2>3, <2>4, <2>5 DEF HandlerStep, StoreStep
<1>5. ASSUME NEW w \in Workers, StartRequest(w) \/ Disconnect(w)
      PROVE  audit \subseteq audit'
  BY <1>5 DEF StartRequest, Disconnect, storeVars
<1>6. CASE Crash \/ UNCHANGED vars
  BY <1>6 DEF Crash, vars, storeVars
<1>7. ASSUME NEW i \in Incidents, Churn(i) PROVE audit \subseteq audit'
  BY <1>7 DEF Churn, storeVars
<1> QED BY <1>2, <1>3, <1>4, <1>5, <1>6, <1>7 DEF Next

(***************************************************************************)
(* The invariant: an entry is in the log, or somebody owes it.             *)
(***************************************************************************)
CreationLogged ==
    \A i \in Incidents : RowExists(i) =>
        Audited("incident.created", i) \/ (sub.pc = "created" /\ sub.inc = i)

StatusLogged ==
    \A i \in Incidents : incidents[i].status \notin {"absent", "new"} =>
        Audited("incident.status", i) \/ \E w \in Workers : OwesStatus(req[w], i)

DraftLogged ==
    \A a \in ActionIds :
        \/ \E event \in DraftEvents : Audited(event, a)
        \/ sub.pc = "auditDraft" /\ sub.act = a
        \/ \E w \in Workers : OwesDraft(req[w], a)

DecisionLogged ==
    \A a \in ActionIds :
        /\ actions[a].status = "rejected" =>
              \/ Audited("action.rejected", a)
              \/ \E w \in Workers : OwesRejection(req[w], a)
        /\ actions[a].status \in {"approved", "executed", "failed"} =>
              \/ Audited("action.approved", a)
              \/ \E w \in Workers : OwesApproval(req[w], a)

AuditInv == NoneGone /\ CreationLogged /\ StatusLogged /\ DraftLogged /\ DecisionLogged

\* A row that appears is owed by the subscriber that created it, a status that
\* is written by the request that wrote it.
LEMMA IncidentsLogged ==
    ASSUME TypeInv, RowsInv, Lossless, AuditInv, [Next]_vars
    PROVE  CreationLogged' /\ StatusLogged'
<1>0. audit \subseteq audit' /\ SubSettles /\ \A w \in Workers : Settles(w)
  BY AuditGrows, SubscriberSettles, RequestsSettle DEF AuditInv
<1>1. ASSUME NEW j \in Incidents, RowExists(j)
      PROVE  (Audited("incident.created", j) \/ (sub.pc = "created" /\ sub.inc = j))'
  <2>1. CASE Audited("incident.created", j)
    BY <1>0, <2>1 DEF Audited
  <2>2. CASE sub.pc = "created" /\ sub.inc = j
    BY <1>0, <2>2 DEF Audited, SubSettles
  <2> QED BY <1>1, <2>1, <2>2 DEF AuditInv, CreationLogged
<1>2. ASSUME NEW j \in Incidents, incidents[j].status \notin {"absent", "new"}
      PROVE  (Audited("incident.status", j) \/ \E w \in Workers : OwesStatus(req[w], j))'
  <2>1. CASE Audited("incident.status", j)
    BY <1>0, <2>1 DEF Audited
  <2>2. ASSUME NEW w \in Workers, OwesStatus(req[w], j)
        PROVE  (Audited("incident.status", j) \/ OwesStatus(req[w], j))'
    BY <1>0, <2>2 DEF Audited, Settles
  <2> QED BY <1>2, <2>1, <2>2 DEF AuditInv, StatusLogged
<1>3. CASE UNCHANGED incidents
  BY <1>1, <1>2, <1>3 DEF CreationLogged, StatusLogged, RowExists
<1>4. ASSUME NEW i \in Incidents, NEW row \in IncidentRow,
             incidents' = [incidents EXCEPT ![i] = row], RowWritten(i, row)
      PROVE  CreationLogged' /\ StatusLogged'
  <2>1. incidents'[i] = row /\ \A j \in Incidents : j # i => incidents'[j] = incidents[j]
    BY <1>4 DEF TypeInv, TypeOK, StoreTypeOK
  <2>2. ASSUME NEW j \in Incidents, incidents'[j].status # "absent"
        PROVE  (Audited("incident.created", j) \/ (sub.pc = "created" /\ sub.inc = j))'
    <3>1. CASE RowExists(j)
      BY <1>1, <3>1
    <3>2. CASE ~RowExists(j)
      <4>1. sub'.pc = "created" /\ sub'.inc = j
        BY <1>4, <2>1, <2>2, <3>2 DEF RowWritten, RowExists, Lossless
      <4> QED BY <4>1
    <3> QED BY <3>1, <3>2
  <2>3. ASSUME NEW j \in Incidents, incidents'[j].status \notin {"absent", "new"}
        PROVE  (Audited("incident.status", j) \/ \E w \in Workers : OwesStatus(req[w], j))'
    <3>1. CASE incidents[j].status \notin {"absent", "new"}
      BY <1>2, <3>1
    <3>2. CASE incidents[j].status \in {"absent", "new"}
      <4>1. PICK w \in Workers : req'[w].pc = "rereadStatus" /\ req'[w].inc = j
        BY <1>4, <2>1, <2>3, <3>2 DEF RowWritten, RowExists
      <4>2. OwesStatus(req[w], j)'
        BY <4>1 DEF OwesStatus
      <4> QED BY <4>2
    <3> QED BY <3>1, <3>2
  <2> QED BY <2>2, <2>3 DEF CreationLogged, StatusLogged, RowExists
<1> QED BY <1>3, <1>4, IncidentWrites DEF OneRowWritten

\* An action that appears is owed by the one who drafted it, a decision by the
\* request that took it, until the outcome is stored and after.
LEMMA ActionsLogged ==
    ASSUME TypeInv, DecisionInv, Lossless, AuditInv, [Next]_vars
    PROVE  DraftLogged' /\ DecisionLogged'
<1>0. audit \subseteq audit' /\ SubSettles /\ \A w \in Workers : Settles(w)
  BY AuditGrows, SubscriberSettles, RequestsSettle DEF AuditInv
<1> DEFINE
      DraftOK(a) == \/ \E event \in DraftEvents : Audited(event, a)
                    \/ sub.pc = "auditDraft" /\ sub.act = a
                    \/ \E w \in Workers : OwesDraft(req[w], a)
      RejectedOK(a) == \/ Audited("action.rejected", a)
                       \/ \E w \in Workers : OwesRejection(req[w], a)
      ApprovedOK(a) == \/ Audited("action.approved", a)
                       \/ \E w \in Workers : OwesApproval(req[w], a)
<1>1. ASSUME NEW a \in ActionIds PROVE DraftOK(a)'
  <2>1. CASE \E event \in DraftEvents : Audited(event, a)
    BY <1>0, <2>1 DEF Audited
  <2>2. CASE sub.pc = "auditDraft" /\ sub.act = a
    BY <1>0, <2>2 DEF Audited, SubSettles, DraftEvents
  <2>3. ASSUME NEW w \in Workers, OwesDraft(req[w], a) PROVE DraftOK(a)'
    <3>1. OwesDraft(req'[w], a) \/ \E event \in DraftEvents : <<event, a>> \in audit'
      BY <1>0, <2>3 DEF Settles
    <3> QED BY <3>1 DEF Audited
  <2> QED BY <2>1, <2>2, <2>3 DEF AuditInv, DraftLogged
<1>2. ASSUME NEW a, RejectedOK(a) PROVE RejectedOK(a)'
  <2>1. CASE Audited("action.rejected", a)
    BY <1>0, <2>1 DEF Audited
  <2>2. ASSUME NEW w \in Workers, OwesRejection(req[w], a) PROVE RejectedOK(a)'
    <3>1. OwesRejection(req'[w], a) \/ <<"action.rejected", a>> \in audit'
      BY <1>0, <2>2 DEF Settles
    <3> QED BY <3>1 DEF Audited
  <2> QED BY <1>2, <2>1, <2>2
<1>3. ASSUME NEW a, ApprovedOK(a) PROVE ApprovedOK(a)'
  <2>1. CASE Audited("action.approved", a)
    BY <1>0, <2>1 DEF Audited
  <2>2. ASSUME NEW w \in Workers, OwesApproval(req[w], a) PROVE ApprovedOK(a)'
    <3>1. OwesApproval(req'[w], a) \/ <<"action.approved", a>> \in audit'
      BY <1>0, <2>2 DEF Settles
    <3> QED BY <3>1 DEF Audited
  <2> QED BY <1>3, <2>1, <2>2
<1>4. \A a \in ActionIds :
         /\ actions[a].status = "rejected" => RejectedOK(a)
         /\ actions[a].status \in {"approved", "executed", "failed"} => ApprovedOK(a)
  BY DEF AuditInv, DecisionLogged
<1>5. ASSUME \A a \in ActionIds' : DraftOK(a)',
             \A a \in ActionIds' :
                /\ actions'[a].status = "rejected" => RejectedOK(a)'
                /\ actions'[a].status \in {"approved", "executed", "failed"} => ApprovedOK(a)'
      PROVE  DraftLogged' /\ DecisionLogged'
  BY <1>5 DEF DraftLogged, DecisionLogged
<1> HIDE DEF DraftOK, RejectedOK, ApprovedOK
<1>6. actions \in Seq(ActionRow) /\ Len(actions) \in Nat /\ sub.inc \in Incidents
      /\ \A w \in Workers : req[w] \in Request
  BY LenProperties DEF TypeInv, TypeOK, StoreTypeOK, Subscriber
<1>7. CASE UNCHANGED actions
  BY <1>1, <1>2, <1>3, <1>4, <1>5, <1>7 DEF ActionIds
<1>8. ASSUME NEW i \in Incidents, NEW type \in ActionTypes, NEW pod \in Pods \cup {NoPod},
             CreateAction(i, type, pod), NEW n, n = Len(actions) + 1, DraftOK(n)'
      PROVE  DraftLogged' /\ DecisionLogged'
  <2>1. /\ Len(actions') = Len(actions) + 1
        /\ \A a \in ActionIds : actions'[a] = actions[a]
        /\ actions'[Len(actions) + 1] = NewAction(i, type, pod)
    BY <1>6, <1>8, CreateFacts
  <2>2. actions'[n].status = "pending"
    BY <1>8, <2>1 DEF NewAction
  <2>3. \A a \in ActionIds' : a \in ActionIds \/ a = n
    BY <1>6, <1>8, <2>1 DEF ActionIds
  <2>4. \A a \in ActionIds' : DraftOK(a)'
    BY <1>1, <1>8, <2>3
  <2>5. \A a \in ActionIds' :
           /\ actions'[a].status = "rejected" => RejectedOK(a)'
           /\ actions'[a].status \in {"approved", "executed", "failed"} => ApprovedOK(a)'
    BY <1>2, <1>3, <1>4, <2>1, <2>2, <2>3
  <2> QED BY <1>5, <2>4, <2>5
<1>9. CASE SubDrafts
  <2>0. PICK n : n = Len(actions) + 1
    OBVIOUS
  <2>1. CreateAction(sub.inc, "quarantine_pod", NoPod) /\ "quarantine_pod" \in ActionTypes
    BY <1>9 DEF SubDrafts, ActionTypes
  <2>2. sub'.pc = "auditDraft" /\ sub'.act = n
    BY <1>9, <2>0 DEF SubDrafts
  <2>3. DraftOK(n)'
    BY <2>2 DEF DraftOK
  <2> QED BY <1>6, <1>8, <2>0, <2>1, <2>3
<1>10. ASSUME NEW w \in Workers, ReqDrafts(w) PROVE DraftLogged' /\ DecisionLogged'
  <2>0. PICK n : n = Len(actions) + 1
    OBVIOUS
  <2>1. PICK type \in ActionTypes, pod \in Pods \cup {NoPod} :
           CreateAction(req[w].inc, type, pod)
    BY <1>10 DEF ReqDrafts
  <2>2. OwesDraft(req[w], n)'
    BY <1>10, <2>0 DEF ReqDrafts, OwesDraft
  <2>3. DraftOK(n)'
    BY <2>2 DEF DraftOK
  <2>4. req[w].inc \in Incidents
    BY <1>6 DEF Request
  <2> QED BY <1>8, <2>0, <2>1, <2>3, <2>4
<1>11. ASSUME NEW w \in Workers, ReqDecides(w) PROVE DraftLogged' /\ DecisionLogged'
  <2>0. PICK a : a = req[w].act
    OBVIOUS
  <2>1. /\ DecideAction(a, req[w].kind, req[w].user) /\ req[w].user \in Users \cup {Nobody}
        /\ req[w].pc = "decide"
    BY <1>6, <1>11, <2>0 DEF ReqDecides, Decide, Request
  <2>2. req[w].kind \in {"approve", "reject"}
    BY <2>1 DEF DecisionInv, AdminsDecide, ByAdmin
  <2>3. /\ a \in ActionIds /\ Len(actions') = Len(actions)
        /\ actions[a].status = "pending"
        /\ \A b \in ActionIds : b # a => actions'[b] = actions[b]
        /\ actions'[a].status = DecidedStatus(req[w].kind)
    BY <1>6, <2>1, DecideFacts
  <2>4. Calls(w, "db") = {TRUE}
    BY CallsSucceed DEF AuditInv
  <2>5. CASE req[w].kind = "reject"
    <3>1. Goto(w, "auditRejected")
      BY <1>11, <2>0, <2>3, <2>4, <2>5 DEF ReqDecides, Decide, Decidable
    <3>2. OwesRejection(req[w], a)'
      BY <2>0, <3>1, GotoFacts DEF SameTarget, OwesRejection
    <3>3. RejectedOK(a)' /\ actions'[a].status = "rejected"
      BY <2>3, <2>5, <3>2 DEF RejectedOK, DecidedStatus
    <3>4. \A b \in ActionIds' :
             /\ actions'[b].status = "rejected" => RejectedOK(b)'
             /\ actions'[b].status \in {"approved", "executed", "failed"} => ApprovedOK(b)'
      BY <1>2, <1>3, <1>4, <2>3, <3>3 DEF ActionIds
    <3>5. \A b \in ActionIds' : DraftOK(b)'
      BY <1>1, <2>3 DEF ActionIds
    <3> QED BY <1>5, <3>4, <3>5
  <2>6. CASE req[w].kind = "approve"
    <3> DEFINE r == [req[w] EXCEPT !.pc  = NextAfterApproval(actions[a].type),
                                   !.inc = actions[a].incident,
                                   !.pod = actions[a].pod]
    <3>1. req' = [req EXCEPT ![w] = r]
      BY <1>11, <2>0, <2>3, <2>4, <2>6 DEF ReqDecides, Decide, Decidable
    <3>2. r.pc = NextAfterApproval(actions[a].type) /\ r.act = a
      BY <2>0, FieldFacts
    <3> HIDE DEF r
    <3>3. req'[w] = r
      BY <3>1, WriteFacts
    <3>4. OwesApproval(req[w], a)'
      BY <3>2, <3>3 DEF OwesApproval, NextAfterApproval, Executing
    <3>5. ApprovedOK(a)' /\ actions'[a].status = "approved"
      BY <2>3, <2>6, <3>4 DEF ApprovedOK, DecidedStatus
    <3>6. \A b \in ActionIds' :
             /\ actions'[b].status = "rejected" => RejectedOK(b)'
             /\ actions'[b].status \in {"approved", "executed", "failed"} => ApprovedOK(b)'
      BY <1>2, <1>3, <1>4, <2>3, <3>5 DEF ActionIds
    <3>7. \A b \in ActionIds' : DraftOK(b)'
      BY <1>1, <2>3 DEF ActionIds
    <3> QED BY <1>5, <3>6, <3>7
  <2> QED BY <2>2, <2>5, <2>6
<1>12. ASSUME NEW w \in Workers, ReqMarks(w) PROVE DraftLogged' /\ DecisionLogged'
  <2>0. PICK a : a = req[w].act
    OBVIOUS
  <2>1. /\ a \in ActionIds /\ req[w].ok \in BOOLEAN /\ MarkActionExecuted(a, req[w].ok)
    BY <1>12, <2>0 DEF TypeInv, TypeOK, RequestsOK, RequestOK, Request, ReqMarks, Mark,
       Executing
  <2>2. /\ Len(actions') = Len(actions)
        /\ \A b \in ActionIds : b # a => actions'[b] = actions[b]
        /\ actions'[a] = [actions[a] EXCEPT
                             !.status = IF req[w].ok THEN "executed" ELSE "failed"]
    BY <1>6, <2>1, MarkFacts
  <2>3. actions[a] \in ActionRow
    BY <1>6, <2>1 DEF ActionIds
  <2>4. actions'[a].status # "rejected"
    BY <2>2, <2>3 DEF ActionRow
  <2>5. OwesApproval(req[w], a)'
    BY <1>12, <2>0, GotoFacts DEF ReqMarks, SameTarget, OwesApproval
  <2>6. ApprovedOK(a)'
    BY <2>5 DEF ApprovedOK
  <2>7. \A b \in ActionIds' :
           /\ actions'[b].status = "rejected" => RejectedOK(b)'
           /\ actions'[b].status \in {"approved", "executed", "failed"} => ApprovedOK(b)'
    BY <1>2, <1>3, <1>4, <2>2, <2>4, <2>6 DEF ActionIds
  <2>8. \A b \in ActionIds' : DraftOK(b)'
    BY <1>1, <2>2 DEF ActionIds
  <2> QED BY <1>5, <2>7, <2>8
<1> QED
  BY ActionWrites, <1>7, <1>9, <1>10, <1>11, <1>12 DEF ActionsWritten

\* The log is complete, or somebody is about to complete it, in every state.
LEMMA AuditInvariant ==
    Spec => [](TypeInv /\ DecisionInv /\ RowsInv /\ (Lossless => AuditInv))
<1> DEFINE I == TypeInv /\ DecisionInv /\ RowsInv /\ (Lossless => AuditInv)
<1>1. Init => I
  <2> SUFFICES ASSUME Init PROVE AuditInv
    BY TypeInit, DecisionInit, RowsInit
  <2>1. actions = << >> /\ incidents = [i \in Incidents |-> NoRow]
        /\ \A w \in Workers : req[w].gone = FALSE
    BY DEF Init, StoreInit, IdleReq
  <2>2. ActionIds = {} /\ \A i \in Incidents : incidents[i].status = "absent"
    BY <2>1 DEF ActionIds, NoRow
  <2> QED
    BY <2>1, <2>2 DEF AuditInv, NoneGone, CreationLogged, StatusLogged, DraftLogged,
       DecisionLogged, RowExists
<1>2. I /\ [Next]_vars => I'
  <2> SUFFICES ASSUME I, [Next]_vars PROVE I'
    OBVIOUS
  <2>1. TypeInv' /\ DecisionInv' /\ RowsInv'
    BY TypeStep, DecisionStep, RowsStep
  <2>2. ASSUME Lossless PROVE AuditInv'
    <3>1. NoneGone'
      BY <2>2, RequestsSettle DEF AuditInv, NoneGone
    <3> QED BY <2>2, <3>1, IncidentsLogged, ActionsLogged DEF AuditInv
  <2>3. Lossless' => Lossless
    BY DEF Lossless
  <2> QED BY <2>1, <2>2, <2>3
<1> QED BY <1>1, <1>2, PTL DEF Spec

(***************************************************************************)
(* As long as no call is lost, every incident, change of status, draft and *)
(* decision is in the audit log whenever no handler is between two calls.  *)
(***************************************************************************)
THEOREM ChangesReachTheLog == Spec => [](Lossless => ChangesAreAudited)
<1>1. ASSUME TypeInv, AuditInv PROVE ChangesAreAudited
  <2> SUFFICES ASSUME Quiet
               PROVE  /\ \A i \in Incidents :
                            /\ RowExists(i) => Audited("incident.created", i)
                            /\ incidents[i].status \notin {"absent", "new"} =>
                                  Audited("incident.status", i)
                      /\ \A a \in ActionIds :
                            /\ \E event \in DraftEvents : Audited(event, a)
                            /\ actions[a].status # "pending" =>
                                  Audited(DecisionEvent[actions[a].status], a)
    BY DEF ChangesAreAudited
  <2>1. /\ sub.pc # "created" /\ sub.pc # "auditDraft"
        /\ \A w \in Workers : req[w].pc = "idle"
    BY DEF Quiet
  <2>2. \A i \in Incidents :
           /\ RowExists(i) => Audited("incident.created", i)
           /\ incidents[i].status \notin {"absent", "new"} => Audited("incident.status", i)
    BY <1>1, <2>1 DEF AuditInv, CreationLogged, StatusLogged, OwesStatus
  <2>3. \A a \in ActionIds : \E event \in DraftEvents : Audited(event, a)
    BY <1>1, <2>1 DEF AuditInv, DraftLogged, OwesDraft
  <2>4. ASSUME NEW a \in ActionIds, actions[a].status # "pending"
        PROVE  Audited(DecisionEvent[actions[a].status], a)
    <3>1. actions[a].status \in {"approved", "rejected", "executed", "failed"}
      <4>1. actions[a] \in ActionRow
        BY <1>1 DEF TypeInv, TypeOK, StoreTypeOK, ActionIds
      <4> QED BY <2>4, <4>1 DEF ActionRow, ActionStatus
    <3>2. CASE actions[a].status = "rejected"
      <4>1. Audited("action.rejected", a)
        BY <1>1, <2>1, <3>2 DEF AuditInv, DecisionLogged, OwesRejection
      <4> QED BY <3>2, <4>1 DEF DecisionEvent
    <3>3. CASE actions[a].status \in {"approved", "executed", "failed"}
      <4>1. Audited("action.approved", a)
        BY <1>1, <2>1, <3>3 DEF AuditInv, DecisionLogged, OwesApproval, Executing
      <4> QED BY <3>3, <4>1 DEF DecisionEvent
    <3> QED BY <3>1, <3>2, <3>3
  <2> QED BY <2>2, <2>3, <2>4
<1>2. TypeInv /\ DecisionInv /\ RowsInv /\ (Lossless => AuditInv)
         => (Lossless => ChangesAreAudited)
  BY <1>1
<1> QED BY <1>2, AuditInvariant, PTL
=============================================================================
