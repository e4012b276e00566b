--------------------------- MODULE IncidentStream ---------------------------
(***************************************************************************)
(* The way of an incident from the aggregator's memory into the table of   *)
(* the incident-service: the correlator's emissions are published on       *)
(* zt.alerts.enriched, core NATS hands them to the subscriber if it is     *)
(* listening at that moment and forgets them otherwise, and the            *)
(* subscriber's handler upserts one row per key.                           *)
(*                                                                         *)
(* Composes Correlator with the subscriber and the part of the table that  *)
(* its statement merges.  What the handler does after the upsert is in     *)
(* IncidentService.                                                        *)
(***************************************************************************)
EXTENDS Correlator

CONSTANTS
    NoKey,          \* the key of an alert whose source or type is empty
    MaxFaults       \* bound: failures of publishing, subscriber and database

ASSUME StreamAssumption == NoKey \notin Keys /\ MaxFaults \in Nat

VARIABLES
    sub,         \* the subscriber: its connection to NATS
    inflight,    \* messages its client holds for the handler
    rows,        \* table incidents, by incident_key
    faults,      \* failures so far (the bound's counter)
    (* Observability variables. *)
    handled,     \* the content of the messages the handler has merged or refused
    lost         \* was the latest emission of a tracked incident lost on the way?

subVars    == <<sub, inflight, rows, faults, handled, lost>>
streamVars == <<vars, subVars>>

\* An EnrichedAlert: what the statement reads of its correlation.
Message == [from : Replicas, key : Keys \cup {NoKey}, nodes : SUBSET Nodes, cross : BOOLEAN]
Row     == [exists : BOOLEAN, nodes : SUBSET Nodes, cross : BOOLEAN]
NoRow   == [exists |-> FALSE, nodes |-> {}, cross |-> FALSE]

SubStates == {"starting", "listening", "disconnected", "exited"}

\* The types of the state the composition adds to the correlator's.
StreamTypeOK ==
    /\ sub \in SubStates
    /\ inflight \in Seq(Message)
    /\ rows \in [Keys -> Row]
    /\ faults \in 0..MaxFaults
    /\ handled \in [Keys -> Row]
    /\ lost \in [Replicas -> [Keys -> BOOLEAN]]

StreamInit ==
    /\ Init
    /\ sub = "starting" /\ inflight = <<>> /\ faults = 0
    /\ rows = [k \in Keys |-> NoRow]
    /\ handled = [k \in Keys |-> NoRow]
    /\ lost = [r \in Replicas |-> [k \in Keys |-> FALSE]]

-----------------------------------------------------------------------------
(***************************************************************************)
(* The aggregator.                                                         *)
(***************************************************************************)
EnrichUnnamed(r, k, n) ==
    [from |-> r, key |-> k, nodes |-> incidents'[r][k].nodes \cup {n},
     cross |-> CrossNode(incidents'[r][k].nodes)]

\* toEnriched: the alert with the state of its incident after this alert.
Enrich(r, k, n) ==
    [from |-> r, key |-> k, nodes |-> incidents'[r][k].nodes,
     cross |-> CrossNode(incidents'[r][k].nodes)]

Fault(happens) ==
    /\ happens => faults < MaxFaults
    /\ faults' = IF happens THEN faults + 1 ELSE faults

PublishFirstSeen(r, k, n, ok) ==
    /\ Fault(~ok)
    /\ inflight' = IF ok /\ sub = "listening" /\ ~Enrich(r, k, n).cross
                   THEN Append(inflight, Enrich(r, k, n)) ELSE inflight
    /\ lost' = [lost EXCEPT ![r][k] = ~(ok /\ sub = "listening")]
    /\ UNCHANGED <<sub, rows, handled>>

\* nc.Publish; the server delivers to the subscribers it has now.
Publish(r, k, n, ok) ==
    /\ Fault(~ok)
    /\ inflight' = IF ok /\ sub = "listening" THEN Append(inflight, Enrich(r, k, n)) ELSE inflight
    /\ lost' = [lost EXCEPT ![r][k] = ~(ok /\ sub = "listening")]
    /\ UNCHANGED <<sub, rows, handled>>

\* The callback of QueueSubscribe.
OnRawAlert(r) ==
    \E k \in Keys, n \in Nodes \cup {NoName} : \E ts \in Timestamps(n) :
        \/ \E ok \in BOOLEAN : StartIncident(r, k, n, ts, ok) /\ Publish(r, k, n, ok)
        \/ \E ok \in BOOLEAN : UpgradeIncident(r, k, n, ts, ok) /\ Publish(r, k, n, ok)
        \/ SuppressDuplicate(r, k, n, ts) /\ UNCHANGED subVars

\* What is published for an alert that passes through: it has no correlation.
Unkeyed(r) == [from |-> r, key |-> NoKey, nodes |-> {}, cross |-> FALSE]

\* The callback of QueueSubscribe, for an alert without source or type.
OnUnkeyedAlert(r) ==
    /\ PassThrough(r)
    /\ \E ok \in BOOLEAN :
          /\ Fault(~ok)
          /\ inflight' = IF ok /\ sub = "listening" THEN Append(inflight, Unkeyed(r)) ELSE inflight
    /\ UNCHANGED <<sub, rows, handled, lost>>

\* An incident that is no longer tracked has no latest emission.
Forget(r) ==
    /\ lost' = [lost EXCEPT ![r] = [k \in Keys |-> @[k] /\ incidents'[r][k].count > 0]]
    /\ UNCHANGED <<sub, inflight, rows, faults, handled>>

AggregatorStep ==
    \/ Tick /\ UNCHANGED subVars
    \/ \E r \in Replicas :
          \/ DropUnreadable(r) /\ UNCHANGED subVars
          \/ OnUnkeyedAlert(r)
          \/ OnRawAlert(r)
          \/ EvictExpired(r) /\ Forget(r)
          \/ Restart(r) /\ Forget(r)

-----------------------------------------------------------------------------
(***************************************************************************)
(* The subscriber.                                                         *)
(***************************************************************************)

\* natssub.Run: nats.Connect is tried once; when it fails, Run returns and the
\* process goes on without a subscriber.
Connect ==
    /\ sub = "starting"
    /\ \/ sub' = "listening" /\ UNCHANGED faults
       \/ sub' = "exited" /\ Fault(TRUE)
    /\ UNCHANGED <<vars, inflight, rows, handled, lost>>

Disconnect ==
    /\ sub = "listening" /\ sub' = "disconnected" /\ Fault(TRUE)
    /\ UNCHANGED <<vars, inflight, rows, handled, lost>>

\* MaxReconnects(-1): the client never gives up.
Reconnect ==
    /\ sub = "disconnected" /\ sub' = "listening"
    /\ UNCHANGED <<vars, inflight, rows, faults, handled, lost>>

\* The emissions of these messages are lost, unless a later one is on its way.
Discard(msgs, left) ==
    lost' = [r \in Replicas |-> [k \in Keys |->
                \/ lost[r][k]
                \/ /\ Exists(r, k)
                   /\ \E m \in msgs : m.from = r /\ m.key = k
                   /\ ~\E m \in left : m.from = r /\ m.key = k]]

Content(msgs) == {msgs[i] : i \in DOMAIN msgs}

\* The incident-service restarts; its client's messages go with it.  For a
\* service without a subscriber this is the repair, and not counted as a fault.
ServiceRestart ==
    /\ sub # "starting" /\ sub' = "starting" /\ Fault(sub # "exited")
    /\ inflight' = <<>> /\ Discard(Content(inflight), {})
    /\ UNCHANGED <<vars, rows, handled>>

RowLatest(row, m) == [exists |-> TRUE, nodes |-> m.nodes, cross |-> row.cross \/ m.cross]

RowMerged(row, m) ==
    [exists |-> TRUE, nodes |-> row.nodes \cup m.nodes, cross |-> row.cross \/ m.cross]

\* array_agg over no elements is NULL, which the column refuses.
UpsertRefused(row, m) == row.exists /\ row.nodes \cup m.nodes = {}

\* The callback of the subscription, when UpsertIncident refuses an alert without
\* source or type: an error before the database is asked.
RefuseUnkeyed ==
    /\ inflight # <<>> /\ Head(inflight).key = NoKey
    /\ inflight' = Tail(inflight)
    /\ UNCHANGED <<vars, sub, rows, faults, handled, lost>>

\* The callback of the subscription, up to and including UpsertIncident.
OnEnrichedAlert ==
    /\ inflight # <<>> /\ Head(inflight).key # NoKey
    /\ LET m == Head(inflight) IN
       /\ inflight' = Tail(inflight)
       /\ \/ /\ rows' = IF UpsertRefused(rows[m.key], m) THEN rows
                        ELSE [rows EXCEPT ![m.key] = RowMerged(@, m)]
             /\ handled' = [handled EXCEPT ![m.key] =
                   [exists |-> TRUE, nodes |-> @.nodes \cup m.nodes, cross |-> @.cross \/ m.cross]]
             /\ UNCHANGED <<faults, lost>>
          \/ \* the database does not answer; the error is logged
             /\ Fault(TRUE) /\ Discard({m}, Content(Tail(inflight)))
             /\ UNCHANGED <<rows, handled>>
    /\ UNCHANGED <<vars, sub>>

SubscriberStep == Connect \/ Disconnect \/ Reconnect \/ ServiceRestart
                  \/ RefuseUnkeyed \/ OnEnrichedAlert

StreamNext == AggregatorStep \/ SubscriberStep

StreamSpec == StreamInit /\ [][StreamNext]_streamVars

\* The fairness of the correlator: nothing is asked of NATS or the subscriber.
StreamFairness ==
    /\ WF_streamVars(Tick /\ UNCHANGED subVars)
    /\ \A r \in Replicas : WF_streamVars(EvictExpired(r) /\ Forget(r))

FairStreamSpec == StreamSpec /\ StreamFairness

-----------------------------------------------------------------------------
(***************************************************************************)
(* Properties.                                                             *)
(***************************************************************************)

(* A row holds every node and the cross-node mark of every message its key   *)
(* ever got, from whichever replica and incident: a message about fewer      *)
(* nodes takes none away, and the messages that array_agg makes the table    *)
(* refuse were those that had nothing to add.  The mark is never without two *)
(* nodes.  (Two nodes may be without the mark, when each of two replicas, or *)
(* each of two incidents, has seen one.)                                     *)
RowsMergeMessages ==
    \A k \in Keys :
        /\ handled[k].nodes \subseteq rows[k].nodes /\ handled[k].exists = rows[k].exists
        /\ handled[k].cross => rows[k].cross
        /\ rows[k].cross => CrossNode(rows[k].nodes)

(* An incident the aggregator tracks has a row, with at least two nodes and  *)
(* the cross-node mark once it has been seen on two, as soon as no message   *)
(* about it is under way, unless its latest emission was lost: the emissions *)
(* are cumulative, so that one that arrives makes good for those before it.  *)
TrackedIncidentsAreStored ==
    \A r \in Replicas, k \in Keys :
        Exists(r, k) /\ ~lost[r][k] /\ (\A i \in DOMAIN inflight : inflight[i].key # k) =>
            /\ rows[k].exists
            /\ CrossNode(incidents[r][k].nodes) => rows[k].cross /\ CrossNode(rows[k].nodes)
=============================================================================
