---------------------------- MODULE EngineProofs ----------------------------
(***************************************************************************)
(* Proofs about Engine, for every set of hosts, every family of hash       *)
(* functions, threshold and window: the sketch never underestimates,       *)
(* within a window a scan is alerted exactly once, and no event ends a     *)
(* window before its time but one that is older than its start.            *)
(***************************************************************************)
EXTENDS Engine, CommGraphProofs

\* What the loop keeps of the sketch: each counter of a source has counted all
\* its events since the last reset.
RowsCover ==
    /\ table \in Table /\ counted \in [Hosts -> Nat]
    /\ \A r \in Rows, h \in Hosts : table[r][Hash[r][h]] >= counted[h]

\* alerted_sources is exactly the set of sources alerted since the last reset.
AlertedIsRaised ==
    /\ alerted \subseteq Hosts /\ raised \in [Hosts -> Nat]
    /\ \A h \in Hosts : raised[h] = IF h \in alerted THEN 1 ELSE 0
    /\ \A h \in Hosts : counted[h] > Threshold => h \in alerted

ScanInv == RowsCover /\ AlertedIsRaised

\* What estimate returns: a counter of the key, and the smallest of them.
LEMMA EstimateIsLeast ==
    ASSUME NEW t \in Table, NEW h \in Hosts
    PROVE  /\ \E r \in Rows : Estimate(t, h) = t[r][Hash[r][h]]
           /\ \A r \in Rows : Estimate(t, h) <= t[r][Hash[r][h]]
           /\ Estimate(t, h) \in Nat
<1>1. \A r \in Rows : Hash[r][h] \in Columns /\ t[r][Hash[r][h]] \in Nat
  BY SketchAssumption DEF Table
<1>2. Counters(t, h) \subseteq Nat /\ Counters(t, h) # {}
  BY <1>1, SketchAssumption DEF Counters
<1>3. \E n \in Counters(t, h) : \A m \in Counters(t, h) : n <= m
  BY <1>2, LeastNatural
<1>4. /\ Estimate(t, h) \in Counters(t, h)
      /\ \A m \in Counters(t, h) : Estimate(t, h) <= m
  BY <1>3 DEF Estimate
<1> QED BY <1>1, <1>2, <1>4 DEF Counters

\* Recording a key adds one to its counter of each row and lowers none.
LEMMA RecordCounts ==
    ASSUME NEW t \in Table, NEW k \in Hosts
    PROVE  /\ Record(t, k) \in Table
           /\ \A r \in Rows : Record(t, k)[r][Hash[r][k]] = t[r][Hash[r][k]] + 1
           /\ \A r \in Rows, h \in Hosts :
                 Record(t, k)[r][Hash[r][h]] >= t[r][Hash[r][h]]
<1>1. \A r \in Rows, h \in Hosts : Hash[r][h] \in Columns
  BY SketchAssumption
<1> QED BY <1>1 DEF Record, Table

\* What an event finds after a possible reset satisfies the invariant.
LEMMA AfterReset ==
    ASSUME ScanInv, NEW ts
    PROVE  LET f == IF Expires(ts) THEN NoEvents ELSE counted
               g == IF Expires(ts) THEN NoEvents ELSE raised
           IN  /\ TableBefore(ts) \in Table
               /\ f \in [Hosts -> Nat] /\ g \in [Hosts -> Nat]
               /\ \A r \in Rows, h \in Hosts : TableBefore(ts)[r][Hash[r][h]] >= f[h]
               /\ AlertedBefore(ts) \subseteq Hosts
               /\ \A h \in Hosts : g[h] = IF h \in AlertedBefore(ts) THEN 1 ELSE 0
               /\ \A h \in Hosts : f[h] > Threshold => h \in AlertedBefore(ts)
<1>1. CASE Expires(ts)
  <2>1. \A r \in Rows, h \in Hosts : Hash[r][h] \in Columns
    BY SketchAssumption
  <2>2. Threshold >= 0
    BY EngineAssumption
  <2> QED
    BY <1>1, <2>1, <2>2, EngineAssumption
    DEF TableBefore, AlertedBefore, EmptyTable, NoEvents, Table
<1>2. CASE ~Expires(ts)
  BY <1>2 DEF ScanInv, RowsCover, AlertedIsRaised, TableBefore, AlertedBefore
<1> QED BY <1>1, <1>2

\* One event keeps the invariant: the source's counters have all gone up by one,
\* so a count above the threshold shows in the estimate.
LEMMA ProcessKeeps ==
    ASSUME ScanInv, NEW src \in Hosts, NEW dst \in Hosts, NEW ts, Process(src, dst, ts)
    PROVE  ScanInv'
<1> DEFINE f == IF Expires(ts) THEN NoEvents ELSE counted
           g == IF Expires(ts) THEN NoEvents ELSE raised
           t == Record(TableBefore(ts), src)
           scan == Exceeds(Estimate(t, src), src, AlertedBefore(ts))
<1>1. /\ TableBefore(ts) \in Table
      /\ f \in [Hosts -> Nat] /\ g \in [Hosts -> Nat]
      /\ \A r \in Rows, h \in Hosts : TableBefore(ts)[r][Hash[r][h]] >= f[h]
      /\ AlertedBefore(ts) \subseteq Hosts
      /\ \A h \in Hosts : g[h] = IF h \in AlertedBefore(ts) THEN 1 ELSE 0
      /\ \A h \in Hosts : f[h] > Threshold => h \in AlertedBefore(ts)
  BY AfterReset
<1>2. /\ table' = t
      /\ alerted' = AlertedBefore(ts) \cup (IF scan THEN {src} ELSE {})
      /\ counted' = [f EXCEPT ![src] = @ + 1]
      /\ raised' = [g EXCEPT ![src] = @ + (IF scan THEN 1 ELSE 0)]
  BY DEF Process, Count
<1>3. /\ t \in Table
      /\ \A r \in Rows : t[r][Hash[r][src]] = TableBefore(ts)[r][Hash[r][src]] + 1
      /\ \A r \in Rows, h \in Hosts :
            t[r][Hash[r][h]] >= TableBefore(ts)[r][Hash[r][h]]
  BY <1>1, RecordCounts
<1>4. \A r \in Rows, h \in Hosts : TableBefore(ts)[r][Hash[r][h]] \in Nat
  BY <1>1, SketchAssumption DEF Table
<1>5. \A r \in Rows, h \in Hosts : t[r][Hash[r][h]] \in Nat
  BY <1>3, SketchAssumption DEF Table
<1>6. scan <=> Estimate(t, src) > Threshold /\ src \notin AlertedBefore(ts)
  BY DEF Exceeds
<1>7. /\ \E r \in Rows : Estimate(t, src) = t[r][Hash[r][src]]
      /\ Estimate(t, src) \in Nat
  BY <1>3, EstimateIsLeast
<1> HIDE DEF f, g, t, scan
<1>8. counted' \in [Hosts -> Nat] /\ raised' \in [Hosts -> Nat]
  BY <1>1, <1>2
<1>9. \A h \in Hosts : counted'[h] = IF h = src THEN f[h] + 1 ELSE f[h]
  BY <1>1, <1>2
<1>10. RowsCover'
  <2>1. ASSUME NEW r \in Rows, NEW h \in Hosts PROVE t[r][Hash[r][h]] >= counted'[h]
    <3>1. f[h] \in Nat /\ TableBefore(ts)[r][Hash[r][h]] >= f[h]
      BY <1>1
    <3>2. CASE h = src
      BY <1>3, <1>4, <1>5, <1>9, <3>1, <3>2
    <3>3. CASE h # src
      BY <1>3, <1>4, <1>5, <1>9, <3>1, <3>3
    <3> QED BY <3>2, <3>3
  <2> QED BY <1>2, <1>3, <1>8, <2>1 DEF RowsCover
<1>11. Estimate(t, src) >= counted'[src]
  <2>1. PICK r \in Rows : Estimate(t, src) = t[r][Hash[r][src]]
    BY <1>7
  <2> QED BY <1>2, <1>10, <2>1 DEF RowsCover
<1>12. \A h \in Hosts : raised'[h] = IF h \in alerted' THEN 1 ELSE 0
  BY <1>1, <1>2, <1>6
<1>13. ASSUME NEW h \in Hosts, counted'[h] > Threshold PROVE h \in alerted'
  <2>1. CASE h = src
    BY <1>2, <1>6, <1>7, <1>8, <1>11, <1>13, <2>1, EngineAssumption
  <2>2. CASE h # src
    BY <1>1, <1>2, <1>9, <1>13, <2>2
  <2> QED BY <2>1, <2>2
<1>14. alerted' \subseteq Hosts
  BY <1>1, <1>2
<1> QED BY <1>8, <1>10, <1>12, <1>13, <1>14 DEF ScanInv, AlertedIsRaised

\* The invariant holds in every reachable state.
LEMMA ScanInvariant == Spec => []ScanInv
<1>1. Init => ScanInv
  <2>1. \A r \in Rows, h \in Hosts : Hash[r][h] \in Columns
    BY SketchAssumption
  <2> QED
    BY <2>1, EngineAssumption
    DEF Init, ScanInv, RowsCover, AlertedIsRaised, EmptyTable, NoEvents, Table
<1>2. ScanInv /\ [Next]_vars => ScanInv'
  <2> SUFFICES ASSUME ScanInv, [Next]_vars PROVE ScanInv'
    OBVIOUS
  <2>1. CASE Event
    <3>0. PICK link \in Links : \E ts : Process(link[1], link[2], ts)
      BY <2>1 DEF Event
    <3>1. PICK ts : Process(link[1], link[2], ts)
      BY <3>0
    <3>2. link[1] \in Hosts /\ link[2] \in Hosts
      BY EngineAssumption
    <3> QED BY <3>1, <3>2, ProcessKeeps
  <2>2. CASE Restart
    <3>1. \A r \in Rows, h \in Hosts : Hash[r][h] \in Columns
      BY SketchAssumption
    <3> QED
      BY <2>2, <3>1, EngineAssumption
      DEF Restart, ScanInv, RowsCover, AlertedIsRaised, EmptyTable, NoEvents, Table
  <2>3. CASE UNCHANGED vars
    BY <2>3 DEF vars, engineVars, ghostVars, ScanInv, RowsCover, AlertedIsRaised
  <2> QED BY <2>1, <2>2, <2>3 DEF Next
<1> QED BY <1>1, <1>2, PTL DEF Spec

(***************************************************************************)
(* The estimate that estimate() returns for a source is never below the    *)
(* number of its events since the last reset, whatever the hash functions. *)
(***************************************************************************)
THEOREM SketchNeverUnderestimates == Spec => []NeverUnderestimates
<1>1. ScanInv => NeverUnderestimates
  <2> SUFFICES ASSUME ScanInv, NEW h \in Hosts PROVE Estimate(table, h) >= counted[h]
    BY DEF NeverUnderestimates
  <2>1. PICK r \in Rows : Estimate(table, h) = table[r][Hash[r][h]]
    BY EstimateIsLeast DEF ScanInv, RowsCover
  <2> QED BY <2>1 DEF ScanInv, RowsCover
<1> QED BY <1>1, ScanInvariant, PTL

(***************************************************************************)
(* A source with more than Threshold events since the last reset has been  *)
(* alerted, and no source has been alerted twice since then.               *)
(***************************************************************************)
THEOREM ScansAreAlertedOnce == Spec => []ScansAlertedOnce
<1>1. ScanInv => ScansAlertedOnce
  BY DEF ScanInv, AlertedIsRaised, ScansAlertedOnce
<1> QED BY <1>1, ScanInvariant, PTL

\* What bounds an age: clock and window start are words.
ClockInv == start \in 0..(Word - 1) /\ clock \in 1..MaxClock

\* A number below the modulus is its own remainder.
LEMMA SmallRemainder ==
    ASSUME NEW w \in Nat \ {0}, NEW x \in 0..(w - 1)
    PROVE  x % w = x
BY SMTT(30)

\* An unsigned difference that does not wrap around is the difference.
LEMMA UnsignedDifference ==
    ASSUME NEW a \in 0..(Word - 1), NEW b \in 0..(Word - 1), a >= b
    PROVE  (a - b) % Word = a - b
<1>1. a - b \in 0..(Word - 1) /\ Word \in Nat \ {0}
  BY EngineAssumption
<1> QED BY <1>1, SmallRemainder

\* An event carries a word as its timestamp.
LEMMA StampsAreWords ==
    ASSUME ClockInv, Event
    PROVE  /\ clock' \in 1..MaxClock
           /\ \E ts \in 0..(Word - 1) : \E link \in Links : Process(link[1], link[2], ts)
<1>1. PICK step \in 0..MaxStep, link \in Links :
         /\ clock + step <= MaxClock /\ clock' = clock + step
         /\ \E ts \in Stamps(clock + step) : Process(link[1], link[2], ts)
  BY DEF Event
<1>2. clock' \in 1..MaxClock
  BY <1>1, EngineAssumption DEF ClockInv
<1>3. PICK now \in 1..MaxClock : \E ts \in Stamps(now) : Process(link[1], link[2], ts)
  BY <1>1, <1>2
<1>4. PICK ts \in Stamps(now) : Process(link[1], link[2], ts)
  BY <1>3
<1>5. ts \in {now - d : d \in {x \in Delays : x < now}} \/ ts = 0
  BY <1>4 DEF Stamps
<1>6. ASSUME NEW d \in Delays, d < now PROVE now - d \in 0..(Word - 1)
  BY <1>6, EngineAssumption
<1>7. ts \in 0..(Word - 1)
  <2>1. 0 \in 0..(Word - 1)
    BY EngineAssumption
  <2> QED BY <1>5, <1>6, <2>1
<1> QED BY <1>2, <1>4, <1>7

\* Clock and window start stay words.
LEMMA ClockInvariant == Spec => []ClockInv
<1>1. Init => ClockInv
  BY EngineAssumption DEF Init, ClockInv
<1>2. ClockInv /\ [Next]_vars => ClockInv'
  <2> SUFFICES ASSUME ClockInv, [Next]_vars PROVE ClockInv'
    OBVIOUS
  <2>1. CASE Event
    <3>1. PICK ts \in 0..(Word - 1) : start' = StartAfter(ts)
      BY <2>1, StampsAreWords DEF Process
    <3>2. start' \in 0..(Word - 1)
      BY <3>1 DEF StartAfter, WindowStart, ClockInv
    <3> QED BY <2>1, <3>2, StampsAreWords DEF ClockInv
  <2>2. CASE Restart
    BY <2>2, EngineAssumption DEF Restart, ClockInv
  <2>3. CASE UNCHANGED vars
    BY <2>3 DEF vars, engineVars, ClockInv
  <2> QED BY <2>1, <2>2, <2>3 DEF Next
<1> QED BY <1>1, <1>2, PTL DEF Spec

(***************************************************************************)
(* A window of the event loop ends with an event more than its length      *)
(* after its start, or with one that is older than its start.              *)
(***************************************************************************)
THEOREM WindowsEndWhenDue == Spec => WindowsEndOnTime
<1>1. ClockInv /\ [Next]_vars =>
        [start # 0 /\ start' # start /\ total' > 0 =>
            start' - start > WindowNs \/ start' < start]_vars
  <2> SUFFICES ASSUME ClockInv, [Next]_vars
               PROVE  \/ start # 0 /\ start' # start /\ total' > 0 =>
                             start' - start > WindowNs \/ start' < start
                      \/ UNCHANGED vars
    OBVIOUS
  <2>1. CASE Event
    <3>1. PICK ts \in 0..(Word - 1) : start' = StartAfter(ts)
      BY <2>1, StampsAreWords DEF Process
    <3> SUFFICES ASSUME start # 0, start' # start, start' >= start
                 PROVE  start' - start > WindowNs
      BY <3>1, EngineAssumption DEF ClockInv, StartAfter, WindowStart
    <3>2. start' = ts /\ (ts - start) % Word > WindowNs
      BY <3>1 DEF StartAfter, WindowStart, Expires
    <3>3. (ts - start) % Word = ts - start
      BY <3>2, UnsignedDifference DEF ClockInv
    <3> QED BY <3>2, <3>3
  <2>2. CASE Restart
    <3>1. total' = 0
      BY <2>2 DEF Restart
    <3> QED BY <3>1
  <2> QED BY <2>1, <2>2 DEF Next
<1> QED
  BY <1>1, ClockInvariant, PTL DEF Spec, WindowsEndOnTime

-----------------------------------------------------------------------------
\* What the types say beyond ScanInv and ClockInv.
GraphInv ==
    /\ total \in Nat /\ prevSccs \in Nat
    /\ graph \in SUBSET (Hosts \X Hosts)
    /\ alerts \in SUBSET Alert
    /\ seenSccs \in SUBSET SUBSET Hosts

\* One event keeps the types of graph, components and alerts.
LEMMA GraphStep ==
    ASSUME GraphInv, NEW src \in Hosts, NEW dst \in Hosts, NEW ts, Process(src, dst, ts)
    PROVE  GraphInv'
<1>0. PICK edges, found :
         /\ edges = graph \cup {<<src, dst>>}
         /\ found = IF SccDue THEN NontrivialSccs(edges) ELSE {}
  OBVIOUS
<1>1. edges \in SUBSET (Hosts \X Hosts)
  BY <1>0 DEF GraphInv
<1>2. found \in SUBSET SUBSET Hosts /\ Cardinality(found) \in Nat
  BY <1>0, <1>1, SccsAreHosts, FS_EmptySet
<1>3. PICK scan : /\ scan = Exceeds(Estimate(Record(TableBefore(ts), src), src), src,
                                    AlertedBefore(ts))
  OBVIOUS
<1>4. /\ total' = total + 1 /\ graph' = edges
      /\ prevSccs' = IF SccAlerts(found) # {} THEN Cardinality(found) ELSE prevSccs
      /\ alerts' = ScanAlerts(scan, src) \cup SccAlerts(found)
      /\ seenSccs' = IF SccDue THEN found ELSE seenSccs
  BY <1>0, <1>3 DEF Process
<1>5. ScanAlerts(scan, src) \in SUBSET Alert
  <2>1. ReachableWithin(graph, src, MaxHops) \in SUBSET Hosts
    BY EngineAssumption, ReachableAreHosts DEF GraphInv
  <2> QED BY <2>1 DEF ScanAlerts, Alert
<1>6. SccAlerts(found) \in SUBSET Alert
  BY <1>2 DEF SccAlerts, Alert
<1> QED BY <1>1, <1>2, <1>4, <1>5, <1>6 DEF GraphInv

(***************************************************************************)
(* The state of the event loop keeps its types: window_start_ns stays a    *)
(* word, and every alert is about hosts.                                   *)
(***************************************************************************)
THEOREM EngineTypeCorrect == Spec => []TypeOK
<1>1. Init => GraphInv
  BY DEF Init, GraphInv
<1>2. GraphInv /\ [Next]_vars => GraphInv'
  <2> SUFFICES ASSUME GraphInv, [Next]_vars PROVE GraphInv'
    OBVIOUS
  <2>1. CASE Event
    <3>0. PICK link \in Links : \E ts : Process(link[1], link[2], ts)
      BY <2>1 DEF Event
    <3>1. PICK ts : Process(link[1], link[2], ts)
      BY <3>0
    <3>2. link[1] \in Hosts /\ link[2] \in Hosts
      BY EngineAssumption
    <3> QED BY <3>1, <3>2, GraphStep
  <2>2. CASE Restart
    BY <2>2 DEF Restart, GraphInv
  <2>3. CASE UNCHANGED vars
    BY <2>3 DEF vars, engineVars, ghostVars, GraphInv
  <2> QED BY <2>1, <2>2, <2>3 DEF Next
<1>3. Spec => []GraphInv
  BY <1>1, <1>2, PTL DEF Spec
<1>4. GraphInv /\ ScanInv /\ ClockInv => TypeOK
  BY DEF GraphInv, ScanInv, RowsCover, AlertedIsRaised, ClockInv, TypeOK
<1> QED BY <1>3, <1>4, ScanInvariant, ClockInvariant, PTL
=============================================================================
