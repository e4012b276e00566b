----------------------------- MODULE Correlator -----------------------------
(***************************************************************************)
(* The soc-aggregator: every replica subscribes to zt.alerts.raw through   *)
(* one NATS queue group (each message goes to exactly one member), keeps a *)
(* private in-memory map of incidents, suppresses duplicates inside a      *)
(* sliding window, re-emits when an incident is first observed on a second *)
(* node, and periodically evicts incidents that have expired.              *)
(*                                                                         *)
(* Two clocks meet here.  Process compares the timestamps carried by the   *)
(* alerts with each other; evictExpired compares them with the wall clock  *)
(* of the aggregator's host.  ClockError[n] is the set of values that      *)
(* (alert timestamp - aggregator wall clock at arrival) can take for       *)
(* alerts of node n: delivery delay and clock offset together.             *)
(*                                                                         *)
(* Severity is left out: it is a function of the alert type, so it does    *)
(* not influence what is emitted or suppressed.                            *)
(***************************************************************************)
EXTENDS Integers, FiniteSets, Sequences

CONSTANTS
    Replicas,       \* aggregator processes in the queue group
    Keys,           \* incident keys, type + "|" + source
    Nodes,          \* cluster nodes that name themselves in alerts
    NoName,         \* an alert whose node_name is empty
    Window,         \* dedup window
    ClockError,     \* [Nodes \cup {NoName} -> SUBSET Int]
    Untimed,        \* nodes whose alerts may come without a timestamp
    MaxLag,         \* bound on how far a timestamp trails the wall clock
    StartWall,      \* wall clock when the processes start
    MaxAlerts,      \* bound: messages delivered in one behaviour
    LastArrival,    \* bound: no alert is delivered after this wall time
    MaxWall         \* bound: the wall clock stops here

ASSUME WindowAssumption == Window \in Nat /\ StartWall \in Nat
ASSUME NodesAssumption  == NoName \notin Nodes /\ IsFiniteSet(Nodes)
ASSUME ClockAssumption  ==
    /\ MaxLag \in Nat
    /\ ClockError \in [Nodes \cup {NoName} -> SUBSET Int]
    /\ \A n \in Nodes \cup {NoName} : \A e \in ClockError[n] : e >= -MaxLag

VARIABLES
    wall,        \* aggregator host clock (NowNS)
    received,    \* messages delivered so far (the bound's counter)
    incidents,   \* [Replicas -> [Keys -> Incident]], the map of each process
    (* Observability variables: what a process has seen and sent.           *)
    seen,        \* last arrival per key since the process started
    emitted      \* emissions of the incident a key currently has

vars == <<wall, received, incidents, seen, emitted>>

Reasons  == {"first_seen", "cross_node_upgrade"}

Incident == [first : Int, last : Int, count : Nat, nodes : SUBSET Nodes]
Arrival  == [n : Nat, ts : Int, at : Int]
Emission == [reason : Reasons, published : BOOLEAN]

\* A key that is not in the map.
NoIncident == [first |-> 0, last |-> 0, count |-> 0, nodes |-> {}]
NoArrival  == [n |-> 0, ts |-> 0, at |-> 0]

Exists(r, k)     == incidents[r][k].count > 0
CrossNode(nodes) == Cardinality(nodes) >= 2

(***************************************************************************)
(* Timestamps an alert of node n can carry when it is delivered now.  0    *)
(* means that the field is absent: the time is then the aggregator's.      *)
(***************************************************************************)
Timestamps(n) ==
    {wall + e : e \in ClockError[n]} \cup IF n \in Untimed THEN {0} ELSE {}

EventTime(ts) == IF ts = 0 THEN wall ELSE ts

AddNameUnchecked(nodes, n) == nodes \cup {n}

AddName(nodes, n) == IF n = NoName THEN nodes ELSE nodes \cup {n}

(* The types of the state; in particular the empty node_name never enters an *)
(* incident's set of nodes, where it would count as one of two.              *)
TypeOK ==
    /\ wall \in Nat
    /\ received \in Nat
    /\ incidents \in [Replicas -> [Keys -> Incident]]
    /\ seen \in [Replicas -> [Keys -> Arrival]]
    /\ emitted \in [Replicas -> [Keys -> Seq(Emission)]]

Init ==
    /\ wall = StartWall
    /\ received = 0
    /\ incidents = [r \in Replicas |-> [k \in Keys |-> NoIncident]]
    /\ seen      = [r \in Replicas |-> [k \in Keys |-> NoArrival]]
    /\ emitted   = [r \in Replicas |-> [k \in Keys |-> <<>>]]

-----------------------------------------------------------------------------
(***************************************************************************)
(* Delivery of one message to one member of the queue group.               *)
(***************************************************************************)
Deliver ==
    /\ received < MaxAlerts
    /\ wall <= LastArrival
    /\ received' = received + 1
    /\ UNCHANGED wall

\* json.Unmarshal fails: the message is counted, logged and dropped.
DropUnreadable(r) ==
    /\ Deliver
    /\ UNCHANGED <<incidents, seen, emitted>>

\* Source or Type is empty: Process returns the alert to be published as it
\* came.  It has no key and touches no incident.
PassThrough(r) ==
    /\ Deliver
    /\ UNCHANGED <<incidents, seen, emitted>>

\* The incident the key already has, unless its window has passed.
WithinWindow(r, k, now) ==
    Exists(r, k) /\ now - incidents[r][k].last <= Window

Observe(r, k, now) ==
    seen' = [seen EXCEPT ![r][k] = [n |-> @.n + 1, ts |-> now, at |-> wall]]

\* A new incident, or one whose window expired: start fresh and emit.
StartIncident(r, k, n, ts, ok) ==
    LET now == EventTime(ts) IN
    /\ Deliver
    /\ ~WithinWindow(r, k, now)
    /\ incidents' = [incidents EXCEPT ![r][k] =
           [first |-> now, last |-> now, count |-> 1, nodes |-> AddName({}, n)]]
    /\ emitted' = [emitted EXCEPT ![r][k] =
           <<[reason |-> "first_seen", published |-> ok]>>]
    /\ Observe(r, k, now)

Joined(inc, n, now) ==
    [first |-> inc.first, last |-> now,
     count |-> inc.count + 1, nodes |-> AddName(inc.nodes, n)]

UpgradesAlways(inc, n) ==
    CrossNode(AddName(inc.nodes, n))

\* !prevCrossNode && nowCrossNode
Upgrades(inc, n) ==
    /\ ~CrossNode(inc.nodes)
    /\ CrossNode(AddName(inc.nodes, n))

\* The incident is now seen on a second node: re-emit with the raised severity.
UpgradeIncident(r, k, n, ts, ok) ==
    LET now == EventTime(ts) IN
    /\ Deliver
    /\ WithinWindow(r, k, now)
    /\ Upgrades(incidents[r][k], n)
    /\ incidents' = [incidents EXCEPT ![r][k] = Joined(@, n, now)]
    /\ emitted' = [emitted EXCEPT ![r][k] =
           Append(@, [reason |-> "cross_node_upgrade", published |-> ok])]
    /\ Observe(r, k, now)

\* A plain duplicate is counted and dropped.
SuppressDuplicate(r, k, n, ts) ==
    LET now == EventTime(ts) IN
    /\ Deliver
    /\ WithinWindow(r, k, now)
    /\ ~Upgrades(incidents[r][k], n)
    /\ incidents' = [incidents EXCEPT ![r][k] = Joined(@, n, now)]
    /\ UNCHANGED emitted
    /\ Observe(r, k, now)

\* The message handler.  A failed Publish is logged and the emission is lost:
\* the correlator has already recorded the incident as emitted.
HandleRaw(r) ==
    \E k \in Keys, n \in Nodes \cup {NoName} : \E ts \in Timestamps(n) :
        \/ \E ok \in BOOLEAN : StartIncident(r, k, n, ts, ok)
        \/ \E ok \in BOOLEAN : UpgradeIncident(r, k, n, ts, ok)
        \/ SuppressDuplicate(r, k, n, ts)

ExpiredEarly(inc) == inc.count > 0 /\ wall - inc.last >= Window

ExpiredSwapped(inc) == inc.count > 0 /\ inc.last - wall > Window

Expired(inc) == inc.count > 0 /\ wall - inc.last > Window

ExpiredKeys(r) == {k \in Keys : Expired(incidents[r][k])}

(***************************************************************************)
(* One tick of cleanupLoop.  The ticker's phase is arbitrary, so a tick    *)
(* may come at any time.  evictExpired reads the clock before it takes the *)
(* lock; an older reading only evicts fewer keys, which a later tick does. *)
(***************************************************************************)
EvictExpired(r) ==
    /\ ExpiredKeys(r) # {}
    /\ incidents' = [incidents EXCEPT ![r] =
           [k \in Keys |-> IF k \in ExpiredKeys(r) THEN NoIncident ELSE @[k]]]
    /\ emitted' = [emitted EXCEPT ![r] =
           [k \in Keys |-> IF k \in ExpiredKeys(r) THEN <<>> ELSE @[k]]]
    /\ UNCHANGED <<wall, received, seen>>

\* The process restarts with an empty map.
Restart(r) ==
    /\ \E k \in Keys : Exists(r, k)
    /\ incidents' = [incidents EXCEPT ![r] = [k \in Keys |-> NoIncident]]
    /\ seen'      = [seen EXCEPT ![r] = [k \in Keys |-> NoArrival]]
    /\ emitted'   = [emitted EXCEPT ![r] = [k \in Keys |-> <<>>]]
    /\ UNCHANGED <<wall, received>>

Tick ==
    /\ wall < MaxWall
    /\ wall' = wall + 1
    /\ UNCHANGED <<received, incidents, seen, emitted>>

Next ==
    \/ Tick
    \/ \E r \in Replicas :
          \/ DropUnreadable(r)
          \/ PassThrough(r)
          \/ HandleRaw(r)
          \/ EvictExpired(r)
          \/ Restart(r)

Spec == Init /\ [][Next]_vars

(***************************************************************************)
(* Time passes, and the ticker of a live process keeps firing.             *)
(***************************************************************************)
Fairness == WF_vars(Tick) /\ \A r \in Replicas : WF_vars(EvictExpired(r))

FairSpec == Spec /\ Fairness

-----------------------------------------------------------------------------
(***************************************************************************)
(* Properties.                                                             *)
(***************************************************************************)

\* A step in which process r starts a fresh incident for key k.
Starts(r, k) ==
    /\ incidents'[r][k].count = 1
    /\ incidents'[r][k] # incidents[r][k]

(* The emissions of a tracked incident are exactly one first_seen and, once  *)
(* it has been observed on two named nodes, exactly one cross_node_upgrade,  *)
(* in this order: Process neither repeats nor skips an emission, whatever    *)
(* order, timestamps and node names the alerts arrive with.                  *)
EmissionsMatchIncident ==
    \A r \in Replicas, k \in Keys :
        LET inc == incidents[r][k]
            out == emitted[r][k] IN
        /\ Len(out) = IF inc.count = 0 THEN 0
                      ELSE IF CrossNode(inc.nodes) THEN 2 ELSE 1
        /\ Len(out) >= 1 => out[1].reason = "first_seen"
        /\ Len(out) = 2 => out[2].reason = "cross_node_upgrade"

(* A process starts a second incident for a key only when the alert's event  *)
(* time is more than Window - MaxLag past the previous alert of that key it  *)
(* processed.  Window passes between the two when no timestamp trails the    *)
(* wall clock; each unit of lag (delivery delay, or a node clock behind the  *)
(* aggregator's) shortens the guarantee by one, because evictExpired judges  *)
(* event times by the wall clock.                                            *)
NoEarlyRestart ==
    [][\A r \in Replicas, k \in Keys :
          Starts(r, k) /\ seen[r][k].n > 0 =>
              seen'[r][k].ts - seen[r][k].ts > Window - MaxLag]_vars

(* correlator.go:14-15: alerts of one key that arrive within Window of each  *)
(* other at one process belong to one incident.                              *)
ArrivalsWithinWindowShareIncident ==
    [][\A r \in Replicas, k \in Keys :
          Starts(r, k) /\ seen[r][k].n > 0 => wall - seen[r][k].at > Window]_vars

(* Every tracked incident is eventually evicted: cleanupLoop reclaims the    *)
(* map once alerts stop coming, also when nobody asks about the key again.   *)
IncidentsAreReclaimed ==
    \A r \in Replicas, k \in Keys : [](Exists(r, k) => <>~Exists(r, k))
=============================================================================
