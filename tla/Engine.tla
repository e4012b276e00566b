------------------------------- MODULE Engine -------------------------------
(***************************************************************************)
(* The event loop of zt-pipeline.  Every connection event is counted in a  *)
(* sketch that is reset when its tumbling window has passed, a source that *)
(* exceeds the threshold is alerted once per window together with its      *)
(* blast radius, the event becomes an edge of a graph that only grows, and *)
(* every SccEvery events the strongly connected components are inspected.  *)
(*                                                                         *)
(* Timestamps are unsigned words; events come out of the collector's ring  *)
(* buffer in the order of reservation, which is not quite the order of     *)
(* their timestamps (Delays).                                              *)
(***************************************************************************)
EXTENDS CommGraph, CountMinSketch

CONSTANTS
    Threshold,    \* frequency.threshold
    MaxHops,      \* reachability.max_hops
    WindowNs,     \* window_seconds, in the unit of the clock
    SccEvery,     \* scc_interval_seconds * 10
    Word,         \* 2^64
    Links,        \* the connections hosts may make
    Delays,       \* how far an event's timestamp may trail the newest one
    Unstamped,    \* may an event carry no timestamp?
    MaxStep,      \* bound: the clock's advance between two events
    MaxClock,     \* bound: the newest timestamp; far from wrapping around
    MaxEvents     \* bound: events in one behaviour

ASSUME SketchAssumption ==
    Rows # {} /\ Hash \in [Rows -> [Hosts -> Columns]]

ASSUME EngineAssumption ==
    /\ Threshold \in Nat /\ MaxHops \in Nat /\ WindowNs \in Nat
    /\ SccEvery \in Nat \ {0} /\ Word \in Nat
    /\ Links \subseteq Hosts \X Hosts /\ Delays \subseteq Nat
    /\ Unstamped \in BOOLEAN /\ MaxStep \in Nat
    /\ MaxClock \in 1..(Word - 1) /\ MaxEvents \in Nat

VARIABLES
    total,        \* total_events
    start,        \* window_start_ns; 0 before the first event
    table,        \* the sketch
    alerted,      \* alerted_sources
    graph,        \* the edges of the communication graph
    prevSccs,     \* prev_nontrivial_sccs
    alerts,       \* what the last event sent down the handler chain
    (* Environment and observability variables. *)
    clock,        \* the newest timestamp so far
    counted,      \* events of each source since the last reset
    raised,       \* port_scan alerts of each source since the last reset
    seenSccs      \* the components the last detection saw

engineVars == <<total, start, table, alerted, graph, prevSccs, alerts>>
ghostVars  == <<counted, raised, seenSccs>>
vars       == <<engineVars, ghostVars, clock>>

\* What the properties tell apart of an alert.
Alert == [type : {"port_scan"}, source : Hosts]
         \cup [type : {"blast_radius"}, source : Hosts, reach : SUBSET Hosts]
         \cup [type : {"scc_anomaly"}, members : SUBSET Hosts]

\* The types of the state: window_start_ns stays a word.
TypeOK ==
    /\ total \in Nat /\ start \in 0..(Word - 1) /\ clock \in 1..MaxClock
    /\ table \in Table
    /\ alerted \in SUBSET Hosts
    /\ graph \in SUBSET (Hosts \X Hosts)
    /\ prevSccs \in Nat
    /\ alerts \in SUBSET Alert
    /\ counted \in [Hosts -> Nat] /\ raised \in [Hosts -> Nat]
    /\ seenSccs \in SUBSET SUBSET Hosts

NoEvents == [h \in Hosts |-> 0]

Init ==
    /\ total = 0 /\ start = 0 /\ table = EmptyTable /\ alerted = {}
    /\ graph = {} /\ prevSccs = 0 /\ alerts = {}
    /\ counted = NoEvents /\ raised = NoEvents /\ seenSccs = {}
    /\ clock = 1

-----------------------------------------------------------------------------
(***************************************************************************)
(* One event.                                                              *)
(***************************************************************************)
WindowStart(ts) == IF start = 0 THEN ts ELSE start

ExpiresEarly(ts) == (ts - WindowStart(ts)) % Word >= WindowNs

\* evt.timestamp_ns - window_start_ns > window_ns, in unsigned arithmetic.
Expires(ts) == (ts - WindowStart(ts)) % Word > WindowNs

AlertedKept(ts) == alerted

AlertedBefore(ts) == IF Expires(ts) THEN {} ELSE alerted

TableBefore(ts) == IF Expires(ts) THEN EmptyTable ELSE table

StartBacked(ts) == IF Expires(ts) THEN ts - WindowNs ELSE WindowStart(ts)

StartAfter(ts) == IF Expires(ts) THEN ts ELSE WindowStart(ts)

Exceeds(freq, host, done) == freq > Threshold /\ host \notin done

\* port_scan, and blast_radius in the graph without the current edge.
ScanAlerts(scan, src) ==
    IF ~scan THEN {}
    ELSE {[type |-> "port_scan", source |-> src]}
         \cup {[type |-> "blast_radius", source |-> src,
                reach |-> ReachableWithin(graph, src, MaxHops)] :
                    v \in {src} \cap Vertices(graph)}

SccDue == (total + 1) % SccEvery = 0

SccAlerts(sccs) ==
    IF SccDue /\ Cardinality(sccs) > prevSccs
    THEN {[type |-> "scc_anomaly", members |-> c] : c \in sccs} ELSE {}

Count(f, ts, host, n) ==
    LET before == IF Expires(ts) THEN NoEvents ELSE f IN
    [before EXCEPT ![host] = @ + n]

Process(src, dst, ts) ==
    LET recorded == Record(TableBefore(ts), src)
        scan     == Exceeds(Estimate(recorded, src), src, AlertedBefore(ts))
        edges    == graph \cup {<<src, dst>>}
        sccs     == IF SccDue THEN NontrivialSccs(edges) ELSE {}
    IN
    /\ total' = total + 1
    /\ start' = StartAfter(ts)
    /\ table' = recorded
    /\ alerted' = AlertedBefore(ts) \cup (IF scan THEN {src} ELSE {})
    /\ graph' = edges
    /\ prevSccs' = IF SccAlerts(sccs) # {} THEN Cardinality(sccs) ELSE prevSccs
    /\ alerts' = ScanAlerts(scan, src) \cup SccAlerts(sccs)
    /\ counted' = Count(counted, ts, src, 1)
    /\ raised' = Count(raised, ts, src, IF scan THEN 1 ELSE 0)
    /\ seenSccs' = IF SccDue THEN sccs ELSE seenSccs

\* The timestamps an event can carry when the newest one is now.
Stamps(now) == {now - d : d \in {x \in Delays : x < now}}
               \cup (IF Unstamped THEN {0} ELSE {})

Event ==
    /\ total < MaxEvents
    /\ \E step \in 0..MaxStep, link \in Links :
          /\ clock + step <= MaxClock
          /\ clock' = clock + step
          /\ \E ts \in Stamps(clock + step) : Process(link[1], link[2], ts)

\* A line that is no event is skipped.  A line that std::stoi cannot digest ends
\* the process, and so does the end of the stream; the shell starts it again.
Restart ==
    /\ total > 0
    /\ total' = 0 /\ start' = 0 /\ table' = EmptyTable /\ alerted' = {}
    /\ graph' = {} /\ prevSccs' = 0 /\ alerts' = {}
    /\ counted' = NoEvents /\ raised' = NoEvents /\ seenSccs' = {}
    /\ UNCHANGED clock

Next == Event \/ Restart

Spec == Init /\ [][Next]_vars

-----------------------------------------------------------------------------
(***************************************************************************)
(* Properties.                                                             *)
(***************************************************************************)

(* The sketch never underestimates: whatever the hash functions make        *)
(* collide, the estimate of a source is at least the number of its events   *)
(* since the last reset.                                                    *)
NeverUnderestimates ==
    \A h \in Hosts : Estimate(table, h) >= counted[h]

(* Since the last reset a source was alerted at most once, and it was       *)
(* alerted if it has had more than Threshold events: no collision, reset or *)
(* order of events hides a scan within a window or repeats its alert.       *)
ScansAlertedOnce ==
    \A h \in Hosts :
        /\ raised[h] <= 1
        /\ counted[h] > Threshold => raised[h] = 1

(* A window ends with an event more than its length after its start, or with *)
(* one older than its start, whose unsigned age wraps around: no other event *)
(* throws away the counts of a running window.                               *)
WindowsEndOnTime ==
    [][start # 0 /\ start' # start /\ total' > 0 =>
          start' - start > WindowNs \/ start' < start]_vars

(* engine.cpp:492: a detection that finds a component none of whose members *)
(* was in a component at the previous detection raises scc_anomaly alerts.  *)
NewSccsAreAlerted ==
    [][seenSccs' # seenSccs /\ total' > 0 =>
          \A c \in seenSccs' :
              (\A d \in seenSccs : c \cap d = {}) =>
                  [type |-> "scc_anomaly", members |-> c] \in alerts']_vars
=============================================================================
