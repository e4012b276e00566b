-------------------------- MODULE PortScanDetector --------------------------
(***************************************************************************)
(* The portscan-pipeline tool: PortScanDetector with each of its three     *)
(* estimators on the same lines of input.  The tool runs the detectors one *)
(* after the other; here they advance together, which is the same, because *)
(* they share nothing but the input.  The window depends on the timestamps *)
(* only and is therefore that of all three.                                *)
(*                                                                         *)
(* Every line carries a timestamp, in any order.  A line without one gets  *)
(* the time at which each detector parses it, and is left out.             *)
(***************************************************************************)
EXTENDS Integers, FiniteSets

CONSTANTS
    Sources,                \* src_ip of an event
    Rows, Columns, Hash,    \* the sketch
    K,                      \* mg_k
    Threshold,              \* threshold
    WindowNs,               \* window_ns
    Word,                   \* 2^64
    Timestamps,             \* the timestamps of lines
    MaxEvents               \* bound: lines of the input

VARIABLES
    start,        \* window_start_ns_
    sketch,       \* the estimator of "cms"
    counters,     \* the estimator of "mg"
    exact,        \* the estimator of "hashmap"
    n,            \* n_: events since the last reset
    alerted,      \* alerted_in_window_ of each detector
    total         \* total_events_

C == INSTANCE CountMinSketch
H == INSTANCE HeavyHitters

NoEvents == [s \in Sources |-> 0]
NoAlerts == [cms |-> {}, mg |-> {}, hashmap |-> {}]

Init ==
    /\ start = 0 /\ total = 0 /\ n = 0
    /\ sketch = C!EmptyTable /\ counters = H!NoCounters /\ exact = NoEvents
    /\ alerted = NoAlerts

\* maybe_reset_window: the difference is unsigned, the first event resets nothing.
Expires(ts) == start # 0 /\ (ts - start) % Word > WindowNs

RaisesAtThreshold(freq, src, done) == freq >= Threshold /\ src \notin done

\* freq > cfg_.threshold, once per window
Raises(freq, src, done) == freq > Threshold /\ src \notin done

With(done, freq, src) == IF Raises(freq, src, done) THEN done \cup {src} ELSE done

\* PortScanDetector::process
Process(src, ts) ==
    LET reset    == Expires(ts)
        sketch1  == C!Record(IF reset THEN C!EmptyTable ELSE sketch, src)
        counted1 == H!Record(IF reset THEN H!NoCounters ELSE counters, src)
        exact1   == [(IF reset THEN NoEvents ELSE exact) EXCEPT ![src] = @ + 1]
        done     == IF reset THEN NoAlerts ELSE alerted
    IN
    /\ total < MaxEvents /\ total' = total + 1
    /\ start' = IF reset \/ start = 0 THEN ts ELSE start
    /\ n' = (IF reset THEN 0 ELSE n) + 1
    /\ sketch' = sketch1 /\ counters' = counted1 /\ exact' = exact1
    /\ alerted' = [cms     |-> With(done.cms, C!Estimate(sketch1, src), src),
                   mg      |-> With(done.mg, H!Estimate(counted1, src), src),
                   hashmap |-> With(done.hashmap, exact1[src], src)]

Next == \E src \in Sources, ts \in Timestamps : Process(src, ts)

(* In every window the Misra-Gries detector alerts only scans, the one with  *)
(* exact counters all of them, and the sketch misses none; and a source that *)
(* exceeds the threshold by more than a k-th of the events is alerted by all *)
(* three.                                                                    *)
AlertsAreNested ==
    /\ alerted.mg \subseteq alerted.hashmap
    /\ alerted.hashmap = {s \in Sources : exact[s] > Threshold}
    /\ alerted.hashmap \subseteq alerted.cms
    /\ {s \in Sources : K * (exact[s] - Threshold) > n} \subseteq alerted.mg
=============================================================================
