------------------------ MODULE IncidentStreamProofs -------------------------
(***************************************************************************)
(* Proofs about Correlator and IncidentStream, for any number of replicas, *)
(* keys and nodes, any window, any clock errors bounded below by -MaxLag   *)
(* and any number of failures: emissions match the incidents and no        *)
(* incident is started early; what the correlator promises holds in the    *)
(* composition, rows merge what was handled, and a tracked incident whose  *)
(* latest emission was not lost is in the table or on its way there.       *)
(***************************************************************************)
EXTENDS IncidentStream, FiniteSetTheorems, SequenceTheorems, TLAPS

\* The two clock readings an alert can be judged by are integers, and the
\* event time trails the wall clock by at most MaxLag.
LEMMA EventTimeLag ==
    ASSUME TypeOK, NEW n \in Nodes \cup {NoName}, NEW ts \in Timestamps(n)
    PROVE  EventTime(ts) \in Int /\ EventTime(ts) >= wall - MaxLag
<1>1. \A e \in ClockError[n] : e \in Int /\ e >= -MaxLag
  BY ClockAssumption
<1>2. ts = 0 \/ \E e \in ClockError[n] : ts = wall + e
  BY DEF Timestamps
<1>3. wall \in Nat /\ MaxLag \in Nat
  BY ClockAssumption DEF TypeOK
<1>4. CASE ts = 0
  BY <1>3, <1>4 DEF EventTime
<1>5. CASE ts # 0
  <2>1. PICK e \in ClockError[n] : ts = wall + e
    BY <1>2, <1>5
  <2>2. e \in Int /\ e >= -MaxLag
    BY <1>1
  <2> QED BY <1>3, <1>5, <2>1, <2>2 DEF EventTime
<1> QED BY <1>4, <1>5

\* A fresh incident is never cross-node, and adding a name keeps a set of
\* names a set of names.
LEMMA AddNameFacts ==
    ASSUME NEW nodes \in SUBSET Nodes, NEW n \in Nodes \cup {NoName}
    PROVE  /\ AddName(nodes, n) \in SUBSET Nodes
           /\ nodes \subseteq AddName(nodes, n)
           /\ Cardinality(AddName({}, n)) \in {0, 1}
           /\ Cardinality(nodes) \in Nat
           /\ Cardinality(AddName(nodes, n)) \in Nat
           /\ Cardinality(nodes) <= Cardinality(AddName(nodes, n))
<1>1. AddName(nodes, n) \in SUBSET Nodes /\ nodes \subseteq AddName(nodes, n)
  BY DEF AddName
<1>2. IsFiniteSet(AddName(nodes, n))
  BY <1>1, NodesAssumption, FS_Subset
<1>3. /\ Cardinality(nodes) \in Nat
      /\ Cardinality(AddName(nodes, n)) \in Nat
      /\ Cardinality(nodes) <= Cardinality(AddName(nodes, n))
  BY <1>1, <1>2, FS_Subset, FS_CardinalityType
<1>4. Cardinality(AddName({}, n)) \in {0, 1}
  <2>1. AddName({}, n) = {} \/ AddName({}, n) = {n}
    BY DEF AddName
  <2> QED BY <2>1, FS_EmptySet, FS_Singleton
<1> QED BY <1>1, <1>3, <1>4

\* Joining never turns a cross-node incident into a single-node one.
LEMMA JoinedFacts ==
    ASSUME NEW inc \in Incident, NEW n \in Nodes \cup {NoName}, NEW now \in Int
    PROVE  /\ Joined(inc, n, now) \in Incident
           /\ Joined(inc, n, now).last = now
           /\ Joined(inc, n, now).count = inc.count + 1
           /\ Joined(inc, n, now).nodes = AddName(inc.nodes, n)
           /\ CrossNode(inc.nodes) => CrossNode(AddName(inc.nodes, n))
<1>1. inc.nodes \in SUBSET Nodes
  BY DEF Incident
<1>2. AddName(inc.nodes, n) \in SUBSET Nodes
  BY <1>1, AddNameFacts
<1> QED BY <1>1, <1>2, AddNameFacts DEF Joined, Incident, CrossNode

(***************************************************************************)
(* The correlator's variables keep their types.                            *)
(***************************************************************************)
LEMMA TypeStep == TypeOK /\ [Next]_vars => TypeOK'
<1> SUFFICES ASSUME TypeOK, [Next]_vars PROVE TypeOK'
  OBVIOUS
<1>1. CASE UNCHANGED vars
  BY <1>1 DEF TypeOK, vars
<1>2. CASE Tick
  BY <1>2 DEF TypeOK, Tick
<1>3. ASSUME NEW r \in Replicas, DropUnreadable(r) \/ PassThrough(r) PROVE TypeOK'
  BY <1>3 DEF TypeOK, DropUnreadable, PassThrough, Deliver
<1>4. ASSUME NEW r \in Replicas, NEW k \in Keys, NEW n \in Nodes \cup {NoName},
             NEW ts \in Timestamps(n), NEW ok \in BOOLEAN,
             StartIncident(r, k, n, ts, ok)
      PROVE  TypeOK'
  <2> DEFINE now == EventTime(ts)
  <2>1. now \in Int
    BY EventTimeLag
  <2>2. [first |-> now, last |-> now, count |-> 1, nodes |-> AddName({}, n)]
          \in Incident
    BY <2>1, AddNameFacts DEF Incident
  <2>3. <<[reason |-> "first_seen", published |-> ok]>> \in Seq(Emission)
    BY DEF Emission, Reasons
  <2> QED BY <1>4, <2>1, <2>2, <2>3
          DEF TypeOK, StartIncident, Deliver, Observe, Arrival
<1>5. ASSUME NEW r \in Replicas, NEW k \in Keys, NEW n \in Nodes \cup {NoName},
             NEW ts \in Timestamps(n)
      PROVE  /\ Joined(incidents[r][k], n, EventTime(ts)) \in Incident
             /\ Observe(r, k, EventTime(ts)) =>
                   seen' \in [Replicas -> [Keys -> Arrival]]
  <2>1. EventTime(ts) \in Int
    BY EventTimeLag
  <2>2. incidents[r][k] \in Incident /\ seen[r][k] \in Arrival
    BY DEF TypeOK
  <2>4. Joined(incidents[r][k], n, EventTime(ts)) \in Incident
    BY <2>1, <2>2, JoinedFacts
  <2>5. [n |-> seen[r][k].n + 1, ts |-> EventTime(ts), at |-> wall] \in Arrival
    BY <2>1, <2>2 DEF Arrival, TypeOK
  <2>6. Observe(r, k, EventTime(ts)) =>
            seen' \in [Replicas -> [Keys -> Arrival]]
    BY <2>5 DEF Observe, TypeOK
  <2> QED BY <2>4, <2>6
<1>6. ASSUME NEW r \in Replicas, NEW k \in Keys, NEW n \in Nodes \cup {NoName},
             NEW ts \in Timestamps(n), NEW ok \in BOOLEAN,
             UpgradeIncident(r, k, n, ts, ok)
      PROVE  TypeOK'
  <2>1. Append(emitted[r][k], [reason |-> "cross_node_upgrade", published |-> ok])
          \in Seq(Emission)
    BY DEF TypeOK, Emission, Reasons
  <2> QED BY <1>5, <1>6, <2>1 DEF TypeOK, UpgradeIncident, Deliver
<1>7. ASSUME NEW r \in Replicas, NEW k \in Keys, NEW n \in Nodes \cup {NoName},
             NEW ts \in Timestamps(n), SuppressDuplicate(r, k, n, ts)
      PROVE  TypeOK'
  BY <1>5, <1>7 DEF TypeOK, SuppressDuplicate, Deliver
<1>8. ASSUME NEW r \in Replicas, EvictExpired(r) PROVE TypeOK'
  BY <1>8 DEF TypeOK, EvictExpired, NoIncident, Incident
<1>9. ASSUME NEW r \in Replicas, Restart(r) PROVE TypeOK'
  BY <1>9 DEF TypeOK, Restart, NoIncident, Incident, NoArrival, Arrival
<1> QED
  BY <1>1, <1>2, <1>3, <1>4, <1>6, <1>7, <1>8, <1>9 DEF Next, HandleRaw

\* Every variable of the aggregator always has its type.
THEOREM CorrelatorTypeOK == Spec => []TypeOK
<1>1. Init => TypeOK
  BY WindowAssumption DEF Init, TypeOK, NoIncident, Incident, NoArrival, Arrival
<1> QED BY <1>1, TypeStep, PTL DEF Spec

(***************************************************************************)
(* EmissionsMatchIncident is inductive relative to TypeOK.                 *)
(***************************************************************************)

\* EmissionsMatchIncident for one process and one key.
Matches(inc, out) ==
    /\ Len(out) = IF inc.count = 0 THEN 0 ELSE IF CrossNode(inc.nodes) THEN 2 ELSE 1
    /\ Len(out) >= 1 => out[1].reason = "first_seen"
    /\ Len(out) = 2 => out[2].reason = "cross_node_upgrade"

\* What Append makes of a sequence of one (AddName on the first source node).
LEMMA AppendToSingleton ==
    ASSUME NEW S, NEW s \in Seq(S), Len(s) = 1, NEW e \in S
    PROVE  /\ Len(Append(s, e)) = 2
           /\ Append(s, e)[1] = s[1]
           /\ Append(s, e)[2] = e
<1>1. /\ Len(Append(s, e)) = Len(s) + 1
      /\ \A i \in 1..Len(s) : Append(s, e)[i] = s[i]
      /\ Append(s, e)[Len(s) + 1] = e
  BY AppendProperties, SMTT(30)
<1>2. 1 \in 1..Len(s) /\ Len(s) + 1 = 2
  OBVIOUS
<1> QED BY <1>1, <1>2

\* Every step of the aggregator keeps the emissions and the incident map in step:
\* Process emits what it stores, evictExpired only forgets.
LEMMA EmissionsStep ==
    TypeOK /\ EmissionsMatchIncident /\ [Next]_vars => EmissionsMatchIncident'
<1> SUFFICES ASSUME TypeOK, EmissionsMatchIncident, [Next]_vars,
                    NEW r \in Replicas, NEW k \in Keys
             PROVE  Matches(incidents[r][k], emitted[r][k])'
  BY DEF EmissionsMatchIncident, Matches, CrossNode
<1>0. Matches(incidents[r][k], emitted[r][k])
  BY DEF EmissionsMatchIncident, Matches
<1>t. /\ incidents[r][k] \in Incident
      /\ emitted[r][k] \in Seq(Emission)
      /\ incidents \in [Replicas -> [Keys -> Incident]]
      /\ emitted \in [Replicas -> [Keys -> Seq(Emission)]]
  BY DEF TypeOK
<1>j. ASSUME NEW n \in Nodes \cup {NoName}, NEW now \in Int
      PROVE  /\ Joined(incidents[r][k], n, now).count = incidents[r][k].count + 1
             /\ Joined(incidents[r][k], n, now).nodes = AddName(incidents[r][k].nodes, n)
             /\ CrossNode(incidents[r][k].nodes) => CrossNode(AddName(incidents[r][k].nodes, n))
  BY <1>t, JoinedFacts
<1>1. CASE UNCHANGED <<incidents, emitted>>
  BY <1>0, <1>1 DEF Matches, CrossNode
<1>2. ASSUME NEW p \in Replicas, NEW c \in Keys, NEW n \in Nodes \cup {NoName},
             NEW ts \in Timestamps(n), NEW ok \in BOOLEAN,
             StartIncident(p, c, n, ts, ok)
      PROVE  Matches(incidents[r][k], emitted[r][k])'
  <2>1. CASE p = r /\ c = k
    <3>1. /\ incidents'[r][k].count = 1
          /\ incidents'[r][k].nodes = AddName({}, n)
          /\ emitted'[r][k] = <<[reason |-> "first_seen", published |-> ok]>>
      BY <1>2, <2>1, <1>t DEF StartIncident
    <3>2. ~CrossNode(incidents'[r][k].nodes)
      BY <3>1, AddNameFacts DEF CrossNode
    <3> QED BY <3>1, <3>2 DEF Matches, CrossNode
  <2>2. CASE ~(p = r /\ c = k)
    BY <1>0, <1>2, <2>2, <1>t DEF StartIncident, Matches, CrossNode
  <2> QED BY <2>1, <2>2
<1>3. ASSUME NEW p \in Replicas, NEW c \in Keys, NEW n \in Nodes \cup {NoName},
             NEW ts \in Timestamps(n), NEW ok \in BOOLEAN,
             UpgradeIncident(p, c, n, ts, ok)
      PROVE  Matches(incidents[r][k], emitted[r][k])'
  <2> DEFINE now == EventTime(ts)
  <2>n. now \in Int
    BY EventTimeLag
  <2> DEFINE msg == [reason |-> "cross_node_upgrade", published |-> ok]
  <2>1. CASE p = r /\ c = k
    <3>1. /\ incidents'[r][k] = Joined(incidents[r][k], n, now)
          /\ emitted'[r][k] = Append(emitted[r][k], msg)
          /\ incidents[r][k].count > 0 /\ incidents[r][k].count \in Nat
      BY <1>3, <2>1, <1>t DEF UpgradeIncident, WithinWindow, Exists, Incident
    <3>2. CrossNode(incidents'[r][k].nodes) /\ ~CrossNode(incidents[r][k].nodes)
      BY <1>3, <2>1, <3>1, <1>j, <2>n
         DEF UpgradeIncident, Upgrades
    <3>3. incidents'[r][k].count = incidents[r][k].count + 1
      BY <3>1, <1>j, <2>n
    <3>4. Len(emitted[r][k]) = 1 /\ emitted[r][k][1].reason = "first_seen"
      BY <1>0, <3>1, <3>2 DEF Matches, CrossNode, Incident
    <3>5. /\ Len(emitted'[r][k]) = 2
          /\ emitted'[r][k][1] = emitted[r][k][1]
          /\ emitted'[r][k][2] = msg
      <4> DEFINE out == emitted[r][k]
      <4>1. out \in Seq(Emission) /\ Len(out) = 1 /\ msg \in Emission
        BY <1>t, <3>4 DEF Emission, Reasons
      <4> HIDE DEF out, msg
      <4>2. /\ Len(Append(out, msg)) = 2
            /\ Append(out, msg)[1] = out[1]
            /\ Append(out, msg)[2] = msg
        BY <4>1, AppendToSingleton
      <4> QED BY <3>1, <4>2 DEF out, msg
    <3>6. incidents'[r][k].count # 0
      BY <3>1, <3>3, <1>t, SMTT(30) DEF Incident
    <3> QED BY <3>2, <3>4, <3>5, <3>6 DEF Matches, CrossNode
  <2>2. CASE ~(p = r /\ c = k)
    BY <1>0, <1>3, <2>2, <1>t DEF UpgradeIncident, Matches, CrossNode
  <2> QED BY <2>1, <2>2
<1>4. ASSUME NEW p \in Replicas, NEW c \in Keys, NEW n \in Nodes \cup {NoName},
             NEW ts \in Timestamps(n), SuppressDuplicate(p, c, n, ts)
      PROVE  Matches(incidents[r][k], emitted[r][k])'
  <2> DEFINE now == EventTime(ts)
  <2>n. now \in Int
    BY EventTimeLag
  <2>1. CASE p = r /\ c = k
    <3>1. /\ incidents'[r][k] = Joined(incidents[r][k], n, now)
          /\ emitted'[r][k] = emitted[r][k]
          /\ incidents[r][k].count > 0 /\ incidents[r][k].count \in Nat
      BY <1>4, <2>1, <1>t DEF SuppressDuplicate, WithinWindow, Exists, Incident
    <3>2. CrossNode(incidents'[r][k].nodes) <=> CrossNode(incidents[r][k].nodes)
      BY <1>4, <2>1, <3>1, <1>j, <2>n
         DEF SuppressDuplicate, Upgrades
    <3>3. incidents'[r][k].count = incidents[r][k].count + 1
      BY <3>1, <1>j, <2>n
    <3>4. incidents'[r][k].count # 0
      BY <3>1, <3>3
    <3> QED BY <1>0, <3>1, <3>2, <3>4, <1>t, SMTT(30) DEF Matches, CrossNode, Incident
  <2>2. CASE ~(p = r /\ c = k)
    BY <1>0, <1>4, <2>2, <1>t DEF SuppressDuplicate, Matches, CrossNode
  <2> QED BY <2>1, <2>2
<1>5. ASSUME NEW p \in Replicas, EvictExpired(p) \/ Restart(p)
      PROVE  Matches(incidents[r][k], emitted[r][k])'
  <2>1. CASE /\ incidents'[r][k] = incidents[r][k]
             /\ emitted'[r][k] = emitted[r][k]
    BY <1>0, <2>1 DEF Matches, CrossNode
  <2>2. CASE incidents'[r][k] = NoIncident /\ emitted'[r][k] = <<>>
    BY <2>2 DEF Matches, CrossNode, NoIncident
  <2>3. CASE EvictExpired(p)
    <3>1. CASE p = r /\ k \in ExpiredKeys(r)
      BY <2>2, <2>3, <3>1, <1>t DEF EvictExpired
    <3>2. CASE ~(p = r /\ k \in ExpiredKeys(r))
      BY <2>1, <2>3, <3>2, <1>t DEF EvictExpired
    <3> QED BY <3>1, <3>2
  <2>4. CASE Restart(p)
    <3>1. CASE p = r
      BY <2>2, <2>4, <3>1, <1>t DEF Restart
    <3>2. CASE p # r
      BY <2>1, <2>4, <3>2, <1>t DEF Restart
    <3> QED BY <3>1, <3>2
  <2> QED BY <1>5, <2>3, <2>4
<1> QED
  BY <1>1, <1>2, <1>3, <1>4, <1>5
  DEF Next, HandleRaw, DropUnreadable, PassThrough, Tick, vars

\* Each tracked incident has been emitted exactly once as first_seen and, when
\* it spans two nodes, exactly once more as cross_node_upgrade.
THEOREM EmissionsMatch == Spec => []EmissionsMatchIncident
<1>1. Init => EmissionsMatchIncident
  BY DEF Init, EmissionsMatchIncident, NoIncident
<1> QED BY <1>1, CorrelatorTypeOK, EmissionsStep, PTL DEF Spec

(***************************************************************************)
(* The event time of the last alert of a key survives in the map until the *)
(* key is evicted, and an evicted key's last alert is more than Window in  *)
(* the past of the wall clock.                                             *)
(***************************************************************************)
LastAlertKnown ==
    \A r \in Replicas, k \in Keys :
        seen[r][k].n > 0 =>
            IF Exists(r, k) THEN incidents[r][k].last = seen[r][k].ts
                            ELSE wall - seen[r][k].ts > Window

\* Every step keeps the timestamp of the last alert known to the incident map.
LEMMA LastAlertStep ==
    TypeOK /\ LastAlertKnown /\ [Next]_vars => LastAlertKnown'
<1> SUFFICES ASSUME TypeOK, LastAlertKnown, [Next]_vars,
                    NEW r \in Replicas, NEW k \in Keys, seen'[r][k].n > 0
             PROVE  (IF Exists(r, k) THEN incidents[r][k].last = seen[r][k].ts
                                     ELSE wall - seen[r][k].ts > Window)'
  BY DEF LastAlertKnown
<1>t. /\ incidents \in [Replicas -> [Keys -> Incident]]
      /\ seen \in [Replicas -> [Keys -> Arrival]]
      /\ wall \in Nat /\ Window \in Int
      /\ incidents[r][k] \in Incident
      /\ seen[r][k] \in Arrival
      /\ seen[r][k].ts \in Int
  BY WindowAssumption DEF TypeOK, Arrival
<1>1. ASSUME UNCHANGED <<incidents, seen>>, wall' = wall \/ wall' = wall + 1
      PROVE  (IF Exists(r, k) THEN incidents[r][k].last = seen[r][k].ts
                              ELSE wall - seen[r][k].ts > Window)'
  BY <1>1, <1>t DEF LastAlertKnown, Exists
<1>2. ASSUME NEW p \in Replicas, NEW c \in Keys, NEW now \in Int,
             Observe(p, c, now), UNCHANGED wall,
             NEW inc \in Incident, inc.last = now, inc.count > 0,
             incidents' = [incidents EXCEPT ![p][c] = inc]
      PROVE  (IF Exists(r, k) THEN incidents[r][k].last = seen[r][k].ts
                              ELSE wall - seen[r][k].ts > Window)'
  <2>1. CASE p = r /\ c = k
    BY <1>2, <2>1, <1>t DEF Observe, Exists
  <2>2. CASE ~(p = r /\ c = k)
    <3>1. incidents'[r][k] = incidents[r][k] /\ seen'[r][k] = seen[r][k]
      BY <1>2, <2>2, <1>t DEF Observe
    <3> QED BY <1>2, <3>1 DEF LastAlertKnown, Exists
  <2> QED BY <2>1, <2>2
<1>3. ASSUME NEW p \in Replicas, NEW c \in Keys, NEW n \in Nodes \cup {NoName},
             NEW ts \in Timestamps(n), NEW ok \in BOOLEAN,
             StartIncident(p, c, n, ts, ok)
      PROVE  (IF Exists(r, k) THEN incidents[r][k].last = seen[r][k].ts
                              ELSE wall - seen[r][k].ts > Window)'
  <2> DEFINE inc == [first |-> EventTime(ts), last |-> EventTime(ts),
                     count |-> 1, nodes |-> AddName({}, n)]
  <2>1. EventTime(ts) \in Int
    BY EventTimeLag
  <2>a. AddName({}, n) \in SUBSET Nodes
    BY AddNameFacts
  <2>2. inc \in Incident /\ inc.last = EventTime(ts) /\ inc.count > 0
    BY <2>1, <2>a DEF Incident
  <2>3. /\ Observe(p, c, EventTime(ts))
        /\ UNCHANGED wall
        /\ incidents' = [incidents EXCEPT ![p][c] = inc]
    BY <1>3 DEF StartIncident, Deliver
  <2> HIDE DEF inc
  <2> QED BY <1>2, <2>1, <2>2, <2>3
<1>4. ASSUME NEW p \in Replicas, NEW c \in Keys, NEW n \in Nodes \cup {NoName},
             NEW ts \in Timestamps(n),
             \/ \E ok \in BOOLEAN : UpgradeIncident(p, c, n, ts, ok)
             \/ SuppressDuplicate(p, c, n, ts)
      PROVE  (IF Exists(r, k) THEN incidents[r][k].last = seen[r][k].ts
                              ELSE wall - seen[r][k].ts > Window)'
  <2> DEFINE inc == Joined(incidents[p][c], n, EventTime(ts))
  <2>1. EventTime(ts) \in Int
    BY EventTimeLag
  <2>2. incidents[p][c] \in Incident /\ incidents[p][c].count \in Nat
    BY <1>t DEF Incident
  <2>3. inc \in Incident /\ inc.last = EventTime(ts) /\ inc.count = incidents[p][c].count + 1
    <3>1. ASSUME NEW old \in Incident, NEW now \in Int
          PROVE  /\ Joined(old, n, now) \in Incident
                 /\ Joined(old, n, now).last = now
                 /\ Joined(old, n, now).count = old.count + 1
      BY JoinedFacts
    <3> QED BY <2>1, <2>2, <3>1
  <2>4. /\ Observe(p, c, EventTime(ts))
        /\ UNCHANGED wall
        /\ incidents' = [incidents EXCEPT ![p][c] = inc]
    BY <1>4 DEF UpgradeIncident, SuppressDuplicate, Deliver
  <2> HIDE DEF inc
  <2>5. inc.count > 0
    BY <2>2, <2>3
  <2> QED BY <1>2, <2>1, <2>3, <2>4, <2>5
<1>5. ASSUME NEW p \in Replicas, EvictExpired(p)
      PROVE  (IF Exists(r, k) THEN incidents[r][k].last = seen[r][k].ts
                              ELSE wall - seen[r][k].ts > Window)'
  <2>1. CASE p = r /\ k \in ExpiredKeys(r)
    <3>1. incidents'[r][k] = NoIncident /\ seen' = seen /\ wall' = wall
      BY <1>5, <2>1, <1>t DEF EvictExpired
    <3>2. Exists(r, k) /\ wall - incidents[r][k].last > Window
      BY <2>1 DEF ExpiredKeys, Expired, Exists
    <3> QED BY <3>1, <3>2 DEF LastAlertKnown, NoIncident, Exists
  <2>2. CASE ~(p = r /\ k \in ExpiredKeys(r))
    <3>1. incidents'[r][k] = incidents[r][k] /\ seen' = seen /\ wall' = wall
      BY <1>5, <2>2, <1>t DEF EvictExpired
    <3> QED BY <3>1 DEF LastAlertKnown, Exists
  <2> QED BY <2>1, <2>2
<1>6. ASSUME NEW p \in Replicas, Restart(p)
      PROVE  (IF Exists(r, k) THEN incidents[r][k].last = seen[r][k].ts
                              ELSE wall - seen[r][k].ts > Window)'
  <2>1. CASE p = r
    <3>1. seen'[r][k] = NoArrival
      BY <1>6, <2>1, <1>t DEF Restart
    <3> QED BY <3>1 DEF NoArrival
  <2>2. CASE p # r
    <3>1. incidents'[r] = incidents[r] /\ seen'[r] = seen[r] /\ wall' = wall
      BY <1>6, <2>2, <1>t DEF Restart
    <3> QED BY <3>1 DEF LastAlertKnown, Exists
  <2> QED BY <2>1, <2>2
<1> QED
  BY <1>1, <1>3, <1>4, <1>5, <1>6
  DEF Next, HandleRaw, DropUnreadable, PassThrough, Deliver, Tick, vars

\* In every reachable state LastAlertKnown: an incident in the map carries the time of
\* the last alert Process joined to it, and evictExpired drops only older ones.
THEOREM LastAlertInvariant == Spec => []LastAlertKnown
<1>1. Init => LastAlertKnown
  BY DEF Init, LastAlertKnown, NoArrival
<1> QED BY <1>1, CorrelatorTypeOK, LastAlertStep, PTL DEF Spec

(***************************************************************************)
(* Only StartIncident makes a fresh incident, and then either the old one  *)
(* was outside the window or it had been evicted.                          *)
(***************************************************************************)
LEMMA StartGap ==
    ASSUME TypeOK, LastAlertKnown, [Next]_vars,
           NEW r \in Replicas, NEW k \in Keys,
           Starts(r, k), seen[r][k].n > 0
    PROVE  seen'[r][k].ts - seen[r][k].ts > Window - MaxLag
<1>t. /\ incidents \in [Replicas -> [Keys -> Incident]]
      /\ seen \in [Replicas -> [Keys -> Arrival]]
      /\ wall \in Nat /\ Window \in Int /\ MaxLag \in Nat
      /\ seen[r][k].ts \in Int
      /\ incidents[r][k].count \in Nat
  BY WindowAssumption, ClockAssumption DEF TypeOK, Arrival, Incident
<1>0. /\ incidents'[r][k].count = 1
      /\ incidents'[r][k] # incidents[r][k]
  BY DEF Starts
<1>1. ~UNCHANGED incidents
  BY <1>0
<1>2. ASSUME NEW p \in Replicas, EvictExpired(p) \/ Restart(p) PROVE FALSE
  <2>1. incidents'[r][k] = incidents[r][k] \/ incidents'[r][k] = NoIncident
    BY <1>2, <1>t DEF EvictExpired, Restart
  <2> QED BY <1>0, <2>1 DEF NoIncident
<1>3. ASSUME NEW p \in Replicas, NEW c \in Keys, NEW n \in Nodes \cup {NoName},
             NEW ts \in Timestamps(n),
             \/ \E ok \in BOOLEAN : UpgradeIncident(p, c, n, ts, ok)
             \/ SuppressDuplicate(p, c, n, ts)
      PROVE  FALSE
  <2>1. /\ incidents' = [incidents EXCEPT ![p][c] =
                           Joined(incidents[p][c], n, EventTime(ts))]
        /\ incidents[p][c].count > 0
    BY <1>3 DEF UpgradeIncident, SuppressDuplicate, WithinWindow, Exists
  <2>2. p = r /\ c = k
    BY <2>1, <1>0, <1>t
  <2>3. incidents'[r][k].count = incidents[r][k].count + 1
    BY <2>1, <2>2, <1>t DEF Joined
  <2> QED BY <1>0, <2>1, <2>2, <2>3, <1>t
<1>4. ASSUME NEW p \in Replicas, NEW c \in Keys, NEW n \in Nodes \cup {NoName},
             NEW ts \in Timestamps(n), NEW ok \in BOOLEAN,
             StartIncident(p, c, n, ts, ok)
      PROVE  seen'[r][k].ts - seen[r][k].ts > Window - MaxLag
  <2>1. p = r /\ c = k
    BY <1>4, <1>0, <1>t DEF StartIncident
  <2>2. EventTime(ts) \in Int /\ EventTime(ts) >= wall - MaxLag
    BY EventTimeLag
  <2>3. seen'[r][k].ts = EventTime(ts)
    BY <1>4, <2>1, <1>t DEF StartIncident, Observe
  <2>4. ~WithinWindow(r, k, EventTime(ts))
    BY <1>4, <2>1 DEF StartIncident
  <2>5. CASE Exists(r, k)
    <3>1. incidents[r][k].last = seen[r][k].ts
      BY <2>5 DEF LastAlertKnown
    <3>2. ~(EventTime(ts) - seen[r][k].ts <= Window)
      BY <2>4, <2>5, <3>1 DEF WithinWindow
    <3> QED BY <2>2, <2>3, <3>2, <1>t
  <2>6. CASE ~Exists(r, k)
    <3>1. wall - seen[r][k].ts > Window
      BY <2>6 DEF LastAlertKnown
    <3> QED BY <2>2, <2>3, <3>1, <1>t
  <2> QED BY <2>5, <2>6
<1> QED
  BY <1>1, <1>2, <1>3, <1>4
  DEF Next, HandleRaw, DropUnreadable, PassThrough, Tick, vars

\* A process never starts a second incident for a key before Window - MaxLag
\* of event time has passed since the previous alert of that key.
THEOREM NoEarlyRestartHolds == Spec => NoEarlyRestart
<1>1. TypeOK /\ LastAlertKnown /\ [Next]_vars =>
        [\A r \in Replicas, k \in Keys :
            Starts(r, k) /\ seen[r][k].n > 0 =>
                seen'[r][k].ts - seen[r][k].ts > Window - MaxLag]_vars
  BY StartGap
<1> QED
  BY <1>1, CorrelatorTypeOK, LastAlertInvariant, PTL DEF Spec, NoEarlyRestart

-----------------------------------------------------------------------------
(***************************************************************************)
(* The composition implements the correlator.                              *)
(***************************************************************************)

\* Every step of the composition is one of the aggregator or leaves it alone.
LEMMA StreamStep == [StreamNext]_streamVars => [Next]_vars
<1> SUFFICES ASSUME [StreamNext]_streamVars PROVE Next \/ UNCHANGED vars
  OBVIOUS
<1>1. CASE UNCHANGED streamVars
  BY <1>1 DEF streamVars
<1>2. CASE SubscriberStep
  BY <1>2 DEF SubscriberStep, Connect, Disconnect, Reconnect, ServiceRestart,
     RefuseUnkeyed, OnEnrichedAlert
<1>3. CASE AggregatorStep
  <2>1. ASSUME NEW r \in Replicas, OnRawAlert(r) PROVE HandleRaw(r)
    BY <2>1 DEF OnRawAlert, HandleRaw
  <2>2. ASSUME NEW r \in Replicas, OnUnkeyedAlert(r) PROVE PassThrough(r)
    BY <2>2 DEF OnUnkeyedAlert
  <2> QED BY <1>3, <2>1, <2>2 DEF AggregatorStep, Next
<1> QED BY <1>1, <1>2, <1>3 DEF StreamNext

\* Publishing, losing and storing what the aggregator emits does not disturb
\* it: with NATS and the subscriber around it, it behaves as Correlator says.
THEOREM StreamImplementsCorrelator == StreamSpec => Spec
<1>1. StreamInit => Init
  BY DEF StreamInit
<1> QED BY <1>1, StreamStep, PTL DEF StreamSpec, Spec

-----------------------------------------------------------------------------
(***************************************************************************)
(* The types, with what every message says of itself: it carries the mark  *)
(* exactly when it carries two nodes.  Without that a refused message      *)
(* could have had a mark to add.                                           *)
(***************************************************************************)
MessagesMatch ==
    \A i \in DOMAIN inflight : inflight[i].cross = CrossNode(inflight[i].nodes)

StreamInv == TypeOK /\ StreamTypeOK /\ MessagesMatch

\* A message says what its incident has become.
LEMMA EnrichFacts ==
    ASSUME TypeOK', NEW r \in Replicas, NEW k \in Keys, NEW n
    PROVE  /\ Enrich(r, k, n) \in Message
           /\ Enrich(r, k, n).cross = CrossNode(Enrich(r, k, n).nodes)
           /\ Enrich(r, k, n).from = r /\ Enrich(r, k, n).key = k
           /\ Enrich(r, k, n).nodes = incidents'[r][k].nodes
<1>1. incidents'[r][k].nodes \in SUBSET Nodes
  BY DEF TypeOK, Incident
<1>2. CrossNode(incidents'[r][k].nodes) \in BOOLEAN
  BY DEF CrossNode
<1> QED BY <1>1, <1>2 DEF Enrich, Message

\* A message without a key is about no incident.
LEMMA UnkeyedFacts ==
    ASSUME NEW r \in Replicas
    PROVE  /\ Unkeyed(r) \in Message
           /\ Unkeyed(r).cross = CrossNode(Unkeyed(r).nodes)
           /\ Unkeyed(r).key \notin Keys
<1>1. CrossNode({}) = FALSE
  BY FS_EmptySet DEF CrossNode
<1> QED BY <1>1, StreamAssumption DEF Unkeyed, Message

\* The counter of failures stays within its bound.
LEMMA FaultFacts ==
    ASSUME faults \in 0..MaxFaults, NEW happens \in BOOLEAN, Fault(happens)
    PROVE  faults' \in 0..MaxFaults
BY StreamAssumption DEF Fault

\* The messages after one was appended.
LEMMA AppendedFacts ==
    ASSUME inflight \in Seq(Message), NEW m \in Message, inflight' = Append(inflight, m)
    PROVE  /\ inflight' \in Seq(Message)
           /\ Len(inflight) \in Nat
           /\ DOMAIN inflight = 1..Len(inflight)
           /\ DOMAIN inflight' = 1..(Len(inflight) + 1)
           /\ \A i \in 1..Len(inflight) : inflight'[i] = inflight[i]
           /\ inflight'[Len(inflight) + 1] = m
<1>1. Len(inflight) \in Nat /\ DOMAIN inflight = 1..Len(inflight)
  BY LenProperties
<1>2. /\ inflight' \in Seq(Message) /\ Len(inflight') = Len(inflight) + 1
      /\ \A i \in 1..Len(inflight) : inflight'[i] = inflight[i]
      /\ inflight'[Len(inflight) + 1] = m
  BY AppendProperties
<1>3. DOMAIN inflight' = 1..Len(inflight')
  BY <1>2, LenProperties
<1> QED BY <1>1, <1>2, <1>3

\* The messages after the first was taken.
LEMMA TakenFacts ==
    ASSUME inflight \in Seq(Message), inflight # << >>, inflight' = Tail(inflight)
    PROVE  /\ inflight' \in Seq(Message)
           /\ Len(inflight) \in Nat \ {0}
           /\ DOMAIN inflight = 1..Len(inflight)
           /\ DOMAIN inflight' = 1..(Len(inflight) - 1)
           /\ \A i \in 1..(Len(inflight) - 1) : inflight'[i] = inflight[i + 1]
           /\ Head(inflight) = inflight[1] /\ Head(inflight) \in Message
<1>1. Len(inflight) \in Nat \ {0} /\ DOMAIN inflight = 1..Len(inflight)
  BY LenProperties, EmptySeq
<1>2. /\ inflight' \in Seq(Message) /\ Len(inflight') = Len(inflight) - 1
      /\ \A i \in 1..Len(inflight') : inflight'[i] = inflight[i + 1]
      /\ Head(inflight) = inflight[1] /\ Head(inflight) \in Message
  BY HeadTailProperties
<1>3. DOMAIN inflight' = 1..Len(inflight')
  BY <1>2, LenProperties
<1> QED BY <1>1, <1>2, <1>3

\* The messages keep their marks when one with its own is appended.
LEMMA AppendedMatch ==
    ASSUME inflight \in Seq(Message), MessagesMatch, NEW m \in Message,
           m.cross = CrossNode(m.nodes), inflight' = Append(inflight, m)
    PROVE  inflight' \in Seq(Message) /\ MessagesMatch'
<1>1. /\ inflight' \in Seq(Message) /\ Len(inflight) \in Nat
      /\ DOMAIN inflight = 1..Len(inflight)
      /\ DOMAIN inflight' = 1..(Len(inflight) + 1)
      /\ \A i \in 1..Len(inflight) : inflight'[i] = inflight[i]
      /\ inflight'[Len(inflight) + 1] = m
  BY AppendedFacts
<1>2. \A i \in 1..Len(inflight) : inflight[i].cross = CrossNode(inflight[i].nodes)
  BY <1>1 DEF MessagesMatch
<1>3. ASSUME NEW i \in DOMAIN inflight'
      PROVE  inflight'[i].cross = CrossNode(inflight'[i].nodes)
  <2>1. i \in 1..Len(inflight) \/ i = Len(inflight) + 1
    BY <1>1
  <2> QED BY <1>1, <1>2, <2>1
<1> QED BY <1>1, <1>3 DEF MessagesMatch, CrossNode

\* The messages keep their marks when the first is taken.
LEMMA TakenMatch ==
    ASSUME inflight \in Seq(Message), inflight # << >>, inflight' = Tail(inflight),
           MessagesMatch
    PROVE  inflight' \in Seq(Message) /\ MessagesMatch'
<1>1. /\ inflight' \in Seq(Message) /\ Len(inflight) \in Nat \ {0}
      /\ DOMAIN inflight = 1..Len(inflight)
      /\ DOMAIN inflight' = 1..(Len(inflight) - 1)
      /\ \A i \in 1..(Len(inflight) - 1) : inflight'[i] = inflight[i + 1]
  BY TakenFacts
<1>2. ASSUME NEW i \in DOMAIN inflight'
      PROVE  inflight'[i].cross = CrossNode(inflight'[i].nodes)
  <2>1. i + 1 \in DOMAIN inflight /\ inflight'[i] = inflight[i + 1]
    BY <1>1
  <2> QED BY <2>1 DEF MessagesMatch
<1> QED BY <1>1, <1>2 DEF MessagesMatch, CrossNode

\* Publishing keeps the types and the marks of the messages.
LEMMA PublishType ==
    ASSUME StreamInv, TypeOK', NEW r \in Replicas, NEW k \in Keys, NEW n,
           NEW ok \in BOOLEAN, Publish(r, k, n, ok)
    PROVE  StreamTypeOK' /\ MessagesMatch'
<1>0. StreamTypeOK /\ MessagesMatch
  BY DEF StreamInv
<1>1. faults' \in 0..MaxFaults
  <2>1. Fault(~ok) /\ (~ok) \in BOOLEAN
    BY DEF Publish
  <2> QED BY <1>0, <2>1, FaultFacts DEF StreamTypeOK
<1>2. lost' \in [Replicas -> [Keys -> BOOLEAN]]
  BY <1>0 DEF Publish, StreamTypeOK
<1>3. inflight' \in Seq(Message) /\ MessagesMatch'
  <2>1. CASE UNCHANGED inflight
    BY <1>0, <2>1 DEF StreamTypeOK, MessagesMatch
  <2>2. CASE inflight' = Append(inflight, Enrich(r, k, n))
    <3>1. PICK m : m = Enrich(r, k, n)
      OBVIOUS
    <3>2. m \in Message /\ m.cross = CrossNode(m.nodes)
      BY <3>1, EnrichFacts
    <3> QED BY <1>0, <2>2, <3>1, <3>2, AppendedMatch DEF StreamTypeOK
  <2> QED BY <2>1, <2>2 DEF Publish
<1>4. UNCHANGED <<sub, rows, handled>>
  BY DEF Publish
<1> QED BY <1>0, <1>1, <1>2, <1>3, <1>4 DEF StreamTypeOK

\* What is discarded is marked as lost.
LEMMA DiscardType ==
    ASSUME NEW msgs, NEW left, Discard(msgs, left),
           lost \in [Replicas -> [Keys -> BOOLEAN]]
    PROVE  lost' \in [Replicas -> [Keys -> BOOLEAN]]
<1> DEFINE D(r, k) == \/ lost[r][k]
                      \/ /\ Exists(r, k)
                         /\ \E m \in msgs : m.from = r /\ m.key = k
                         /\ ~\E m \in left : m.from = r /\ m.key = k
<1>1. lost' = [r \in Replicas |-> [k \in Keys |-> D(r, k)]]
  BY DEF Discard
<1>2. ASSUME NEW r \in Replicas, NEW k \in Keys PROVE D(r, k) \in BOOLEAN
  OBVIOUS
<1> HIDE DEF D
<1> QED BY <1>1, <1>2

\* Every step keeps the types and the marks of the messages.
LEMMA StreamInvStep == StreamInv /\ [StreamNext]_streamVars => StreamInv'
<1> SUFFICES ASSUME StreamInv, [StreamNext]_streamVars PROVE StreamInv'
  OBVIOUS
<1>0. StreamTypeOK /\ MessagesMatch /\ TypeOK'
  BY StreamStep, TypeStep DEF StreamInv
<1>1. CASE UNCHANGED subVars
  BY <1>0, <1>1 DEF StreamInv, StreamTypeOK, MessagesMatch, subVars
<1>2. ASSUME NEW r \in Replicas, OnRawAlert(r) PROVE StreamInv'
  <2>1. ASSUME NEW k \in Keys, NEW n, NEW ok \in BOOLEAN, Publish(r, k, n, ok)
        PROVE  StreamInv'
    BY <1>0, <2>1, PublishType DEF StreamInv
  <2> QED BY <1>1, <1>2, <2>1 DEF OnRawAlert
<1>3. ASSUME NEW r \in Replicas, Forget(r) PROVE StreamInv'
  <2>1. lost' = [lost EXCEPT ![r] = [k \in Keys |-> lost[r][k] /\ incidents'[r][k].count > 0]]
    BY <1>3 DEF Forget
  <2>2. [k \in Keys |-> lost[r][k] /\ incidents'[r][k].count > 0] \in [Keys -> BOOLEAN]
    OBVIOUS
  <2>3. lost' \in [Replicas -> [Keys -> BOOLEAN]]
    BY <1>0, <2>1, <2>2 DEF StreamTypeOK
  <2> QED BY <1>0, <1>3, <2>3 DEF StreamInv, StreamTypeOK, MessagesMatch, Forget
<1>9. ASSUME NEW r \in Replicas, OnUnkeyedAlert(r) PROVE StreamInv'
  <2>1. PICK ok \in BOOLEAN :
          /\ Fault(~ok)
          /\ inflight' = IF ok /\ sub = "listening" THEN Append(inflight, Unkeyed(r)) ELSE inflight
    BY <1>9 DEF OnUnkeyedAlert
  <2>2. faults' \in 0..MaxFaults
    BY <1>0, <2>1, FaultFacts DEF StreamTypeOK
  <2>3. CASE UNCHANGED inflight
    BY <1>0, <1>9, <2>2, <2>3 DEF StreamInv, StreamTypeOK, MessagesMatch, OnUnkeyedAlert
  <2>4. CASE inflight' = Append(inflight, Unkeyed(r))
    <3>1. inflight' \in Seq(Message) /\ MessagesMatch'
      BY <1>0, <2>4, UnkeyedFacts, AppendedMatch DEF StreamTypeOK
    <3> QED BY <1>0, <1>9, <2>2, <3>1 DEF StreamInv, StreamTypeOK, OnUnkeyedAlert
  <2> QED BY <2>1, <2>3, <2>4
<1>4. CASE AggregatorStep
  BY <1>1, <1>2, <1>3, <1>9, <1>4 DEF AggregatorStep
<1>5. CASE Connect \/ Disconnect \/ Reconnect
  <2>1. UNCHANGED <<inflight, rows, handled, lost>> /\ sub' \in SubStates
    BY <1>5 DEF Connect, Disconnect, Reconnect, SubStates
  <2>2. faults' \in 0..MaxFaults
    BY <1>0, <1>5, FaultFacts DEF Connect, Disconnect, Reconnect, StreamTypeOK
  <2> QED BY <1>0, <2>1, <2>2 DEF StreamInv, StreamTypeOK, MessagesMatch
<1>6. CASE ServiceRestart
  <2>1. faults' \in 0..MaxFaults
    <3>1. Fault(sub # "exited") /\ (sub # "exited") \in BOOLEAN
      BY <1>6 DEF ServiceRestart
    <3> QED BY <1>0, <3>1, FaultFacts DEF StreamTypeOK
  <2>2. inflight' = << >> /\ << >> \in Seq(Message)
    BY <1>6, EmptySeq DEF ServiceRestart
  <2>3. lost' \in [Replicas -> [Keys -> BOOLEAN]]
    BY <1>0, <1>6, DiscardType DEF ServiceRestart, StreamTypeOK
  <2>4. MessagesMatch'
    BY <2>2 DEF MessagesMatch
  <2>5. sub' \in SubStates /\ UNCHANGED <<rows, handled>>
    BY <1>6 DEF ServiceRestart, SubStates
  <2> QED BY <1>0, <2>1, <2>2, <2>3, <2>4, <2>5 DEF StreamInv, StreamTypeOK
<1>10. CASE RefuseUnkeyed
  <2>1. inflight' \in Seq(Message) /\ MessagesMatch'
    BY <1>0, <1>10, TakenMatch DEF RefuseUnkeyed, StreamTypeOK
  <2> QED BY <1>0, <1>10, <2>1 DEF RefuseUnkeyed, StreamInv, StreamTypeOK
<1>7. CASE OnEnrichedAlert
  <2>0. PICK m : m = Head(inflight)
    OBVIOUS
  <2>1. m \in Message /\ m.key # NoKey
    BY <1>0, <1>7, <2>0, TakenFacts DEF OnEnrichedAlert, StreamTypeOK
  <2>2. inflight' \in Seq(Message) /\ MessagesMatch'
    BY <1>0, <1>7, TakenMatch DEF OnEnrichedAlert, StreamTypeOK
  <2>3. /\ m.key \in Keys /\ m.nodes \in SUBSET Nodes /\ m.cross \in BOOLEAN
    BY <2>1 DEF Message
  <2>4. UNCHANGED sub
    BY <1>7 DEF OnEnrichedAlert
  <2>5. CASE /\ rows' = IF UpsertRefused(rows[m.key], m) THEN rows
                        ELSE [rows EXCEPT ![m.key] = RowMerged(@, m)]
             /\ handled' = [handled EXCEPT ![m.key] =
                   [exists |-> TRUE, nodes |-> @.nodes \cup m.nodes, cross |-> @.cross \/ m.cross]]
             /\ UNCHANGED <<faults, lost>>
    <3>1. rows[m.key] \in Row /\ handled[m.key] \in Row
      BY <1>0, <2>3 DEF StreamTypeOK
    <3>2. RowMerged(rows[m.key], m) \in Row
      BY <2>3, <3>1 DEF Row, RowMerged
    <3>3. [exists |-> TRUE, nodes |-> handled[m.key].nodes \cup m.nodes,
           cross |-> handled[m.key].cross \/ m.cross] \in Row
      BY <2>3, <3>1 DEF Row
    <3>4. rows' \in [Keys -> Row] /\ handled' \in [Keys -> Row]
      BY <1>0, <2>3, <2>5, <3>2, <3>3 DEF StreamTypeOK
    <3> QED BY <1>0, <2>1, <2>2, <2>4, <2>5, <3>4 DEF StreamInv, StreamTypeOK
  <2>6. CASE /\ Fault(TRUE) /\ Discard({m}, Content(Tail(inflight)))
             /\ UNCHANGED <<rows, handled>>
    <3>1. faults' \in 0..MaxFaults
      BY <1>0, <2>6, FaultFacts DEF StreamTypeOK
    <3>2. lost' \in [Replicas -> [Keys -> BOOLEAN]]
      BY <1>0, <2>6, DiscardType DEF StreamTypeOK
    <3> QED BY <1>0, <2>1, <2>2, <2>4, <2>6, <3>1, <3>2 DEF StreamInv, StreamTypeOK
  <2> QED BY <1>7, <2>0, <2>5, <2>6 DEF OnEnrichedAlert
<1>8. CASE UNCHANGED streamVars
  BY <1>1, <1>8 DEF streamVars
<1> QED
  BY <1>4, <1>5, <1>6, <1>10, <1>7, <1>8 DEF StreamNext, SubscriberStep

\* The types hold in the first state and every step keeps them.
LEMMA StreamInvariant == StreamSpec => []StreamInv
<1>1. StreamInit => StreamInv
  <2> SUFFICES ASSUME StreamInit PROVE StreamInv
    OBVIOUS
  <2>1. TypeOK
    BY WindowAssumption DEF StreamInit, Init, TypeOK, NoIncident, Incident, NoArrival, Arrival
  <2>2. inflight = << >> /\ << >> \in Seq(Message)
    BY EmptySeq DEF StreamInit
  <2>3. NoRow \in Row
    BY DEF NoRow, Row
  <2>4. faults \in 0..MaxFaults
    BY StreamAssumption DEF StreamInit
  <2>5. StreamTypeOK
    BY <2>2, <2>3, <2>4 DEF StreamInit, StreamTypeOK, SubStates
  <2> QED BY <2>1, <2>2, <2>5 DEF StreamInv, MessagesMatch
<1> QED BY <1>1, StreamInvStep, PTL DEF StreamSpec

\* The state that the subscriber and its table add to the correlator's keeps
\* its types, whatever is published, delivered, discarded and refused.
THEOREM StreamTypeCorrect == StreamSpec => []StreamTypeOK
<1>1. StreamInv => StreamTypeOK
  BY DEF StreamInv
<1> QED BY <1>1, StreamInvariant, PTL

-----------------------------------------------------------------------------
(***************************************************************************)
(* Rows merge what is handled.                                             *)
(***************************************************************************)

\* More nodes never take the mark away, and no nodes never earn it.
LEMMA CrossNodeMonotone ==
    ASSUME NEW a \in SUBSET Nodes, NEW b \in SUBSET Nodes, a \subseteq b
    PROVE  (CrossNode(a) => CrossNode(b)) /\ ~CrossNode({})
<1>1. IsFiniteSet(b)
  BY NodesAssumption, FS_Subset
<1>2. /\ IsFiniteSet(a) /\ Cardinality(a) <= Cardinality(b)
      /\ Cardinality(a) \in Nat /\ Cardinality(b) \in Nat
  BY <1>1, FS_Subset, FS_CardinalityType
<1> QED BY <1>2, FS_EmptySet DEF CrossNode

\* RowsMergeMessages for one key.
MergesAll(row, h) ==
    /\ h.nodes \subseteq row.nodes /\ h.exists = row.exists
    /\ h.cross => row.cross
    /\ row.cross => CrossNode(row.nodes)

\* The upsert keeps a row ahead of what was handled, refused or not.
LEMMA UpsertMerges ==
    ASSUME NEW row \in Row, NEW h \in Row, NEW m \in Message, MergesAll(row, h),
           m.cross = CrossNode(m.nodes)
    PROVE  MergesAll(IF UpsertRefused(row, m) THEN row ELSE RowMerged(row, m),
                     [exists |-> TRUE, nodes |-> h.nodes \cup m.nodes,
                      cross |-> h.cross \/ m.cross])
<1>0. /\ row.nodes \in SUBSET Nodes /\ h.nodes \in SUBSET Nodes /\ m.nodes \in SUBSET Nodes
      /\ row.cross \in BOOLEAN /\ h.cross \in BOOLEAN /\ m.cross \in BOOLEAN
      /\ row.exists \in BOOLEAN
  BY DEF Row, Message
<1>1. CASE UpsertRefused(row, m)
  <2>1. row.exists = TRUE /\ m.nodes = {}
    BY <1>0, <1>1 DEF UpsertRefused
  <2>2. ~m.cross
    BY <1>0, <2>1, CrossNodeMonotone
  <2> QED BY <1>0, <1>1, <2>1, <2>2 DEF MergesAll
<1>2. CASE ~UpsertRefused(row, m)
  <2>1. PICK all \in SUBSET Nodes : all = row.nodes \cup m.nodes
    BY <1>0
  <2>2. (CrossNode(row.nodes) => CrossNode(all)) /\ (CrossNode(m.nodes) => CrossNode(all))
    BY <1>0, <2>1, CrossNodeMonotone
  <2>3. RowMerged(row, m) = [exists |-> TRUE, nodes |-> all, cross |-> row.cross \/ m.cross]
    BY <2>1 DEF RowMerged
  <2> QED BY <1>0, <1>2, <2>1, <2>2, <2>3 DEF MergesAll
<1> QED BY <1>1, <1>2

\* Every step keeps the rows ahead of what was handled.
LEMMA RowsStep ==
    StreamInv /\ RowsMergeMessages /\ [StreamNext]_streamVars => RowsMergeMessages'
<1> SUFFICES ASSUME StreamInv, RowsMergeMessages, [StreamNext]_streamVars
             PROVE  RowsMergeMessages'
  OBVIOUS
<1>0. StreamTypeOK /\ MessagesMatch
  BY DEF StreamInv
<1>1. CASE UNCHANGED <<rows, handled>>
  BY <1>1 DEF RowsMergeMessages, CrossNode
<1>2. CASE OnEnrichedAlert
  <2>0. PICK m : m = Head(inflight)
    OBVIOUS
  <2>1. m \in Message /\ m = inflight[1] /\ 1 \in DOMAIN inflight /\ m.key # NoKey
    BY <1>0, <1>2, <2>0, TakenFacts DEF OnEnrichedAlert, StreamTypeOK
  <2>2. m.cross = CrossNode(m.nodes) /\ m.key \in Keys
    BY <1>0, <2>1 DEF MessagesMatch, Message
  <2>3. CASE /\ rows' = IF UpsertRefused(rows[m.key], m) THEN rows
                        ELSE [rows EXCEPT ![m.key] = RowMerged(@, m)]
             /\ handled' = [handled EXCEPT ![m.key] =
                   [exists |-> TRUE, nodes |-> @.nodes \cup m.nodes, cross |-> @.cross \/ m.cross]]
    <3>1. ASSUME NEW k \in Keys PROVE MergesAll(rows'[k], handled'[k])
      <4>1. rows[k] \in Row /\ handled[k] \in Row /\ MergesAll(rows[k], handled[k])
        BY <1>0 DEF StreamTypeOK, RowsMergeMessages, MergesAll
      <4>2. CASE k # m.key
        <5>1. rows'[k] = rows[k] /\ handled'[k] = handled[k]
          BY <1>0, <2>3, <4>2 DEF StreamTypeOK
        <5> QED BY <4>1, <5>1
      <4>3. CASE k = m.key
        <5>1. /\ rows'[k] = IF UpsertRefused(rows[k], m) THEN rows[k] ELSE RowMerged(rows[k], m)
              /\ handled'[k] = [exists |-> TRUE, nodes |-> handled[k].nodes \cup m.nodes,
                                cross |-> handled[k].cross \/ m.cross]
          BY <1>0, <2>3, <4>3 DEF StreamTypeOK
        <5>2. PICK row, h : row = rows[k] /\ h = handled[k]
          OBVIOUS
        <5>3. MergesAll(IF UpsertRefused(row, m) THEN row ELSE RowMerged(row, m),
                        [exists |-> TRUE, nodes |-> h.nodes \cup m.nodes,
                         cross |-> h.cross \/ m.cross])
          BY <2>1, <2>2, <4>1, <5>2, UpsertMerges
        <5> QED BY <5>1, <5>2, <5>3
      <4> QED BY <4>2, <4>3
    <3> QED BY <3>1 DEF RowsMergeMessages, MergesAll, CrossNode
  <2>4. CASE UNCHANGED <<rows, handled>>
    BY <1>1, <2>4
  <2> QED BY <1>2, <2>0, <2>3, <2>4 DEF OnEnrichedAlert
<1>3. CASE AggregatorStep
  BY <1>1, <1>3 DEF AggregatorStep, OnRawAlert, OnUnkeyedAlert, Publish, Forget, subVars
<1>4. CASE Connect \/ Disconnect \/ Reconnect \/ ServiceRestart \/ RefuseUnkeyed
  BY <1>1, <1>4 DEF Connect, Disconnect, Reconnect, ServiceRestart, RefuseUnkeyed
<1>5. CASE UNCHANGED streamVars
  BY <1>1, <1>5 DEF streamVars, subVars
<1> QED BY <1>2, <1>3, <1>4, <1>5 DEF StreamNext, SubscriberStep

\* A row holds every node and the mark of every message its key ever got, and
\* its mark is never without two nodes: an upsert takes nothing away, and one
\* that the table refuses had nothing to add.
THEOREM RowsMerge == StreamSpec => []RowsMergeMessages
<1>1. StreamInit => RowsMergeMessages
  BY DEF StreamInit, RowsMergeMessages, NoRow
<1> QED BY <1>1, StreamInvariant, RowsStep, PTL DEF StreamSpec

-----------------------------------------------------------------------------
(***************************************************************************)
(* A tracked incident whose latest emission was not lost is in the table   *)
(* or on its way there.  TrackedIncidentsAreStored says nothing while      *)
(* messages are under way, so it is not inductive: what is needed is that  *)
(* the LATEST message about the incident has everything the table must     *)
(* learn.  An earlier one may lack the mark, and a later one makes good    *)
(* for one that was lost.                                                  *)
(***************************************************************************)
IsAbout(m, r, k) == m.from = r /\ m.key = k

\* The latest of these messages about r's incident of key k carries the mark
\* if the incident does.
Coming(msgs, r, k, marked) ==
    \E i \in DOMAIN msgs :
        /\ IsAbout(msgs[i], r, k)
        /\ \A j \in DOMAIN msgs : j > i => ~IsAbout(msgs[j], r, k)
        /\ marked => msgs[i].cross

Stored(row, marked) == row.exists /\ (marked => row.cross)

Vouched(r, k) ==
    Exists(r, k) /\ ~lost[r][k] =>
        \/ Stored(rows[k], CrossNode(incidents[r][k].nodes))
        \/ Coming(inflight, r, k, CrossNode(incidents[r][k].nodes))

StoredOrComing == \A r \in Replicas, k \in Keys : Vouched(r, k)

\* An appended message is the latest about its incident, and leaves the latest
\* about every other incident where it was.
LEMMA ComingAppended ==
    ASSUME inflight \in Seq(Message), NEW m \in Message, inflight' = Append(inflight, m),
           NEW r, NEW k, NEW marked \in BOOLEAN
    PROVE  /\ IsAbout(m, r, k) /\ (marked => m.cross) => Coming(inflight', r, k, marked)
           /\ ~IsAbout(m, r, k) /\ Coming(inflight, r, k, marked)
                => Coming(inflight', r, k, marked)
<1>0. /\ Len(inflight) \in Nat
      /\ DOMAIN inflight = 1..Len(inflight)
      /\ DOMAIN inflight' = 1..(Len(inflight) + 1)
      /\ \A i \in 1..Len(inflight) : inflight'[i] = inflight[i]
      /\ inflight'[Len(inflight) + 1] = m
  BY AppendedFacts
<1>1. ASSUME IsAbout(m, r, k), marked => m.cross
      PROVE  Coming(inflight', r, k, marked)
  <2>1. /\ Len(inflight) + 1 \in DOMAIN inflight'
        /\ \A j \in DOMAIN inflight' : ~(j > Len(inflight) + 1)
    BY <1>0
  <2> QED BY <1>0, <1>1, <2>1 DEF Coming
<1>2. ASSUME ~IsAbout(m, r, k), Coming(inflight, r, k, marked)
      PROVE  Coming(inflight', r, k, marked)
  <2>1. PICK i \in DOMAIN inflight :
           /\ IsAbout(inflight[i], r, k)
           /\ \A j \in DOMAIN inflight : j > i => ~IsAbout(inflight[j], r, k)
           /\ marked => inflight[i].cross
    BY <1>2 DEF Coming
  <2>2. i \in DOMAIN inflight' /\ inflight'[i] = inflight[i]
    BY <1>0
  <2>3. ASSUME NEW j \in DOMAIN inflight', j > i PROVE ~IsAbout(inflight'[j], r, k)
    <3>1. j \in 1..Len(inflight) \/ j = Len(inflight) + 1
      BY <1>0
    <3> QED BY <1>0, <1>2, <2>1, <2>3, <3>1
  <2> QED BY <2>1, <2>2, <2>3 DEF Coming
<1> QED BY <1>1, <1>2

\* Taking the first message leaves the latest one, unless it was the first.
LEMMA ComingTaken ==
    ASSUME inflight \in Seq(Message), inflight # << >>, inflight' = Tail(inflight),
           NEW r, NEW k, NEW marked \in BOOLEAN, Coming(inflight, r, k, marked)
    PROVE  \/ Coming(inflight', r, k, marked)
           \/ /\ IsAbout(Head(inflight), r, k) /\ (marked => Head(inflight).cross)
              /\ \A m \in Content(inflight') : ~IsAbout(m, r, k)
<1>0. /\ Len(inflight) \in Nat \ {0}
      /\ DOMAIN inflight = 1..Len(inflight)
      /\ DOMAIN inflight' = 1..(Len(inflight) - 1)
      /\ \A i \in 1..(Len(inflight) - 1) : inflight'[i] = inflight[i + 1]
      /\ Head(inflight) = inflight[1]
  BY TakenFacts
<1>1. PICK i \in DOMAIN inflight :
         /\ IsAbout(inflight[i], r, k)
         /\ \A j \in DOMAIN inflight : j > i => ~IsAbout(inflight[j], r, k)
         /\ marked => inflight[i].cross
  BY DEF Coming
<1>2. ASSUME NEW j \in DOMAIN inflight'
      PROVE  j + 1 \in DOMAIN inflight /\ inflight'[j] = inflight[j + 1]
  BY <1>0
<1>3. CASE i = 1
  <2>1. ASSUME NEW j \in DOMAIN inflight' PROVE ~IsAbout(inflight'[j], r, k)
    <3>1. j + 1 > i
      BY <1>0, <1>3
    <3> QED BY <1>1, <1>2, <3>1
  <2> QED BY <1>0, <1>1, <1>3, <2>1 DEF Content
<1>4. CASE i # 1
  <2>1. PICK h : h = i - 1
    OBVIOUS
  <2>2. h \in DOMAIN inflight' /\ h + 1 = i
    BY <1>0, <1>4, <2>1
  <2>3. inflight'[h] = inflight[i]
    BY <1>2, <2>2
  <2>4. ASSUME NEW j \in DOMAIN inflight', j > h PROVE ~IsAbout(inflight'[j], r, k)
    <3>1. j + 1 > i
      BY <1>0, <2>2, <2>4
    <3> QED BY <1>1, <1>2, <3>1
  <2> QED BY <1>1, <2>2, <2>3, <2>4 DEF Coming
<1> QED BY <1>3, <1>4

\* The upsert never takes a row or its mark away, and it stores what the
\* message carries.
LEMMA UpsertStores ==
    ASSUME NEW row \in Row, NEW m \in Message, m.cross = CrossNode(m.nodes),
           NEW marked \in BOOLEAN, NEW new,
           new = IF UpsertRefused(row, m) THEN row ELSE RowMerged(row, m)
    PROVE  /\ Stored(row, marked) => Stored(new, marked)
           /\ (marked => m.cross) => Stored(new, marked)
<1>0. /\ row.nodes \in SUBSET Nodes /\ m.nodes \in SUBSET Nodes
      /\ row.cross \in BOOLEAN /\ m.cross \in BOOLEAN /\ row.exists \in BOOLEAN
  BY DEF Row, Message
<1>1. CASE UpsertRefused(row, m)
  <2>1. row.exists = TRUE /\ m.nodes = {}
    BY <1>0, <1>1 DEF UpsertRefused
  <2>2. ~m.cross
    BY <1>0, <2>1, CrossNodeMonotone
  <2> QED BY <1>1, <2>1, <2>2 DEF Stored
<1>2. CASE ~UpsertRefused(row, m)
  BY <1>0, <1>2 DEF Stored, RowMerged
<1> QED BY <1>1, <1>2

\* A step that leaves the messages and the rows alone, gives the incident no
\* mark it lacked and forgets no loss.
LEMMA VouchedKept ==
    ASSUME NEW r \in Replicas, NEW k \in Keys, Vouched(r, k), UNCHANGED <<inflight, rows>>,
           Exists(r, k)' /\ ~lost'[r][k] =>
               /\ Exists(r, k) /\ ~lost[r][k]
               /\ CrossNode(incidents[r][k].nodes)' = CrossNode(incidents[r][k].nodes)
    PROVE  Vouched(r, k)'
<1> SUFFICES ASSUME Exists(r, k)', ~lost'[r][k]
             PROVE  (\/ Stored(rows[k], CrossNode(incidents[r][k].nodes))
                     \/ Coming(inflight, r, k, CrossNode(incidents[r][k].nodes)))'
  BY DEF Vouched
<1>1. PICK marked : marked = CrossNode(incidents[r][k].nodes)
  OBVIOUS
<1>2. marked = CrossNode(incidents[r][k].nodes)'
  BY <1>1
<1>3. Stored(rows[k], marked) \/ Coming(inflight, r, k, marked)
  BY <1>1 DEF Vouched
<1>4. Stored(rows'[k], marked) \/ Coming(inflight', r, k, marked)
  BY <1>3
<1> QED BY <1>2, <1>4

\* A step that changes only the messages, and none about this incident.
LEMMA VouchedPassed ==
    ASSUME NEW r \in Replicas, NEW k \in Keys, Vouched(r, k),
           UNCHANGED <<incidents, rows, lost>>,
           \A marked \in BOOLEAN :
               Coming(inflight, r, k, marked) => Coming(inflight', r, k, marked)
    PROVE  Vouched(r, k)'
<1>0. CrossNode(incidents[r][k].nodes) \in BOOLEAN
  BY DEF CrossNode
<1>1. PICK marked \in BOOLEAN : marked = CrossNode(incidents[r][k].nodes)
  BY <1>0
<1>2. marked = CrossNode(incidents[r][k].nodes)'
  BY <1>1 DEF CrossNode
<1>3. Exists(r, k)' /\ ~lost'[r][k] =>
         Stored(rows[k], marked) \/ Coming(inflight, r, k, marked)
  BY <1>1 DEF Vouched, Exists
<1> QED BY <1>2, <1>3 DEF Vouched

\* What publishing does: to the incident it is about, and to the others.
LEMMA PublishVouches ==
    ASSUME StreamInv, TypeOK', StoredOrComing,
           NEW p \in Replicas, NEW q \in Keys, NEW n, NEW ok \in BOOLEAN,
           Publish(p, q, n, ok),
           NEW r \in Replicas, NEW k \in Keys,
           <<r, k>> # <<p, q>> => incidents'[r][k] = incidents[r][k]
    PROVE  Vouched(r, k)'
<1>0. StreamTypeOK
  BY DEF StreamInv
<1>1. PICK marked : marked = CrossNode(incidents'[r][k].nodes)
  OBVIOUS
<1>2. marked \in BOOLEAN
  BY <1>1 DEF CrossNode
<1>3. PICK m : m = Enrich(p, q, n)
  OBVIOUS
<1>4. /\ m \in Message /\ m.from = p /\ m.key = q
      /\ m.cross = CrossNode(incidents'[p][q].nodes)
  BY <1>3, EnrichFacts
<1>5. CASE r = p /\ k = q
  <2>1. CASE ok /\ sub = "listening"
    <3>1. inflight' = Append(inflight, m)
      BY <1>3, <2>1 DEF Publish
    <3>2. IsAbout(m, r, k) /\ (marked => m.cross)
      BY <1>1, <1>4, <1>5 DEF IsAbout
    <3>3. Coming(inflight', r, k, marked)
      BY <1>0, <1>2, <1>4, <3>1, <3>2, ComingAppended DEF StreamTypeOK
    <3> QED BY <1>1, <3>3 DEF Vouched
  <2>2. CASE ~(ok /\ sub = "listening")
    <3>1. lost'[r][k]
      BY <1>0, <1>5, <2>2 DEF Publish, StreamTypeOK
    <3> QED BY <3>1 DEF Vouched
  <2> QED BY <2>1, <2>2
<1>6. CASE ~(r = p /\ k = q)
  <2>1. incidents'[r][k] = incidents[r][k] /\ lost'[r][k] = lost[r][k] /\ rows' = rows
    BY <1>0, <1>6 DEF Publish, StreamTypeOK
  <2>2. ~IsAbout(m, r, k)
    BY <1>4, <1>6 DEF IsAbout
  <2>3. Coming(inflight, r, k, marked) => Coming(inflight', r, k, marked)
    <3>1. CASE inflight' = inflight
      BY <3>1
    <3>2. CASE inflight' = Append(inflight, m)
      BY <1>0, <1>2, <1>4, <2>2, <3>2, ComingAppended DEF StreamTypeOK
    <3> QED BY <1>3, <3>1, <3>2 DEF Publish
  <2>4. Exists(r, k) /\ ~lost[r][k] =>
           Stored(rows[k], marked) \/ Coming(inflight, r, k, marked)
    <3>1. Vouched(r, k)
      BY DEF StoredOrComing
    <3> QED BY <1>1, <2>1, <3>1 DEF Vouched
  <2>5. Exists(r, k)' => Exists(r, k)
    BY <2>1 DEF Exists
  <2>6. Exists(r, k)' /\ ~lost'[r][k] =>
           Stored(rows'[k], marked) \/ Coming(inflight', r, k, marked)
    BY <2>1, <2>3, <2>4, <2>5
  <2> QED BY <1>1, <2>6 DEF Vouched
<1> QED BY <1>5, <1>6

\* The message handler of the aggregator.
LEMMA RawAlertVouches ==
    ASSUME StreamInv, TypeOK', StoredOrComing, NEW p \in Replicas, OnRawAlert(p),
           NEW r \in Replicas, NEW k \in Keys
    PROVE  Vouched(r, k)'
<1>0. TypeOK /\ incidents \in [Replicas -> [Keys -> Incident]]
  BY DEF StreamInv, TypeOK
<1>p. PICK q \in Keys, n \in Nodes \cup {NoName} : \E ts \in Timestamps(n) :
         \/ \E ok \in BOOLEAN : StartIncident(p, q, n, ts, ok) /\ Publish(p, q, n, ok)
         \/ \E ok \in BOOLEAN : UpgradeIncident(p, q, n, ts, ok) /\ Publish(p, q, n, ok)
         \/ SuppressDuplicate(p, q, n, ts) /\ UNCHANGED subVars
  BY DEF OnRawAlert
<1>1. PICK ts \in Timestamps(n) :
         \/ \E ok \in BOOLEAN : StartIncident(p, q, n, ts, ok) /\ Publish(p, q, n, ok)
         \/ \E ok \in BOOLEAN : UpgradeIncident(p, q, n, ts, ok) /\ Publish(p, q, n, ok)
         \/ SuppressDuplicate(p, q, n, ts) /\ UNCHANGED subVars
  BY <1>p
<1>2. <<r, k>> # <<p, q>> => incidents'[r][k] = incidents[r][k]
  <2>1. \E inc : incidents' = [incidents EXCEPT ![p][q] = inc]
    BY <1>1 DEF StartIncident, UpgradeIncident, SuppressDuplicate
  <2>2. PICK inc : incidents' = [incidents EXCEPT ![p][q] = inc]
    BY <2>1
  <2>3. CASE r # p
    BY <1>0, <2>2, <2>3
  <2>4. CASE r = p /\ k # q
    BY <1>0, <2>2, <2>4
  <2> QED BY <2>3, <2>4
<1>3. ASSUME NEW ok \in BOOLEAN, Publish(p, q, n, ok) PROVE Vouched(r, k)'
  BY <1>2, <1>3, PublishVouches
<1>4. CASE SuppressDuplicate(p, q, n, ts) /\ UNCHANGED subVars
  <2>1. Vouched(r, k) /\ UNCHANGED <<inflight, rows, lost>>
    BY <1>4 DEF StoredOrComing, subVars
  <2>2. CASE r = p /\ k = q
    <3>1. PICK inc, now : inc = incidents[r][k] /\ now = EventTime(ts)
      OBVIOUS
    <3>2. inc \in Incident /\ now \in Int
      BY <1>0, <3>1, EventTimeLag
    <3>3. Exists(r, k) /\ ~Upgrades(inc, n) /\ incidents'[r][k] = Joined(inc, n, now)
      BY <1>0, <1>4, <2>2, <3>1 DEF SuppressDuplicate, WithinWindow
    <3>4. /\ incidents'[r][k].nodes = AddName(inc.nodes, n)
          /\ CrossNode(inc.nodes) => CrossNode(AddName(inc.nodes, n))
      BY <3>2, <3>3, JoinedFacts
    <3>5. CrossNode(AddName(inc.nodes, n)) = CrossNode(inc.nodes)
      BY <3>3, <3>4 DEF Upgrades, CrossNode
    <3>6. CrossNode(incidents[r][k].nodes)' = CrossNode(incidents[r][k].nodes)
      BY <3>1, <3>4, <3>5 DEF CrossNode
    <3> QED BY <2>1, <3>3, <3>6, VouchedKept
  <2>3. CASE ~(r = p /\ k = q)
    <3>1. incidents'[r][k] = incidents[r][k]
      BY <1>2, <2>3
    <3>2. /\ Exists(r, k)' => Exists(r, k)
          /\ CrossNode(incidents[r][k].nodes)' = CrossNode(incidents[r][k].nodes)
      BY <3>1 DEF Exists, CrossNode
    <3> QED BY <2>1, <3>2, VouchedKept
  <2> QED BY <2>2, <2>3
<1> QED BY <1>1, <1>3, <1>4

\* A message without a key comes and goes without touching an incident's.
LEMMA UnkeyedVouches ==
    ASSUME StreamInv, StoredOrComing,
           (\E p \in Replicas : OnUnkeyedAlert(p)) \/ RefuseUnkeyed,
           NEW r \in Replicas, NEW k \in Keys
    PROVE  Vouched(r, k)'
<1>0. inflight \in Seq(Message) /\ Vouched(r, k)
  BY DEF StreamInv, StreamTypeOK, StoredOrComing
<1>1. UNCHANGED <<incidents, rows, lost>>
  BY DEF OnUnkeyedAlert, PassThrough, RefuseUnkeyed, vars
<1>2. ASSUME NEW marked \in BOOLEAN, Coming(inflight, r, k, marked)
      PROVE  Coming(inflight', r, k, marked)
  <2>1. CASE UNCHANGED inflight
    BY <1>2, <2>1
  <2>2. ASSUME NEW p \in Replicas, inflight' = Append(inflight, Unkeyed(p))
        PROVE  Coming(inflight', r, k, marked)
    <3>1. PICK m \in Message : m = Unkeyed(p) /\ ~IsAbout(m, r, k)
      BY UnkeyedFacts DEF IsAbout
    <3> QED BY <1>0, <1>2, <2>2, <3>1, ComingAppended
  <2>3. CASE RefuseUnkeyed
    <3>1. ~IsAbout(Head(inflight), r, k)
      BY <2>3, StreamAssumption DEF RefuseUnkeyed, IsAbout
    <3> QED BY <1>0, <1>2, <2>3, <3>1, ComingTaken DEF RefuseUnkeyed
  <2> QED BY <2>1, <2>2, <2>3 DEF OnUnkeyedAlert
<1> QED BY <1>0, <1>1, <1>2, VouchedPassed

\* What is no longer tracked has nothing to vouch for.
LEMMA ForgetVouches ==
    ASSUME StreamInv, StoredOrComing, NEW p \in Replicas,
           EvictExpired(p) \/ Restart(p), Forget(p),
           NEW r \in Replicas, NEW k \in Keys
    PROVE  Vouched(r, k)'
<1>0. /\ incidents \in [Replicas -> [Keys -> Incident]]
      /\ lost \in [Replicas -> [Keys -> BOOLEAN]]
  BY DEF StreamInv, TypeOK, StreamTypeOK
<1>1. Vouched(r, k) /\ UNCHANGED <<inflight, rows>>
  BY DEF StoredOrComing, Forget
<1>2. incidents'[r][k] = incidents[r][k] \/ incidents'[r][k] = NoIncident
  BY <1>0 DEF EvictExpired, Restart
<1>3. CASE incidents'[r][k] = NoIncident
  BY <1>3 DEF Vouched, Exists, NoIncident
<1>4. CASE incidents'[r][k] = incidents[r][k]
  <2>1. /\ Exists(r, k)' => Exists(r, k)
        /\ CrossNode(incidents[r][k].nodes)' = CrossNode(incidents[r][k].nodes)
    BY <1>4 DEF Exists, CrossNode
  <2>2. lost'[r][k] = IF r = p THEN lost[r][k] /\ incidents'[r][k].count > 0
                      ELSE lost[r][k]
    BY <1>0 DEF Forget
  <2>3. Exists(r, k)' /\ ~lost'[r][k] => ~lost[r][k]
    BY <2>2 DEF Exists
  <2> QED BY <1>1, <2>1, <2>3, VouchedKept
<1> QED BY <1>2, <1>3, <1>4

\* A message that is handled reaches its row; one that is lost is marked so.
LEMMA HandledVouches ==
    ASSUME StreamInv, StoredOrComing, OnEnrichedAlert,
           NEW r \in Replicas, NEW k \in Keys
    PROVE  Vouched(r, k)'
<1>0. StreamTypeOK /\ MessagesMatch
  BY DEF StreamInv
<1>m. PICK m : m = Head(inflight)
  OBVIOUS
<1>1. /\ inflight \in Seq(Message) /\ inflight # << >> /\ inflight' = Tail(inflight)
      /\ UNCHANGED incidents
  BY <1>0 DEF OnEnrichedAlert, StreamTypeOK, vars
<1>2. m \in Message /\ m.cross = CrossNode(m.nodes) /\ m.key \in Keys
  <2>1. m \in Message /\ m = inflight[1] /\ 1 \in DOMAIN inflight /\ m.key # NoKey
    BY <1>1, <1>m, TakenFacts DEF OnEnrichedAlert
  <2> QED BY <1>0, <2>1 DEF MessagesMatch, Message
<1>3. PICK marked : marked = CrossNode(incidents[r][k].nodes)
  OBVIOUS
<1>4. marked \in BOOLEAN /\ marked = CrossNode(incidents[r][k].nodes)'
  BY <1>1, <1>3 DEF CrossNode
<1>5. SUFFICES ASSUME Exists(r, k), ~lost'[r][k]
               PROVE  Stored(rows'[k], marked) \/ Coming(inflight', r, k, marked)
  BY <1>1, <1>4 DEF Vouched, Exists
<1>6. CASE /\ rows' = IF UpsertRefused(rows[m.key], m) THEN rows
                      ELSE [rows EXCEPT ![m.key] = RowMerged(@, m)]
           /\ UNCHANGED lost
  <2>1. Stored(rows[k], marked) \/ Coming(inflight, r, k, marked)
    <3>1. Vouched(r, k) /\ ~lost[r][k]
      BY <1>5, <1>6 DEF StoredOrComing
    <3> QED BY <1>3, <1>5, <3>1 DEF Vouched
  <2>2. Stored(rows[k], marked) => Stored(rows'[k], marked)
    <3>1. CASE k # m.key
      <4>1. rows'[k] = rows[k]
        BY <1>0, <1>6, <3>1 DEF StreamTypeOK
      <4> QED BY <4>1
    <3>2. CASE k = m.key
      <4>1. PICK row, new : row = rows[k] /\ new = rows'[k]
        OBVIOUS
      <4>2. row \in Row /\ new = IF UpsertRefused(row, m) THEN row ELSE RowMerged(row, m)
        BY <1>0, <1>2, <1>6, <3>2, <4>1 DEF StreamTypeOK
      <4> QED BY <1>2, <1>4, <4>1, <4>2, UpsertStores
    <3> QED BY <3>1, <3>2
  <2>3. ASSUME IsAbout(m, r, k), marked => m.cross
        PROVE  Stored(rows'[k], marked)
    <3>1. k = m.key
      BY <2>3 DEF IsAbout
    <3>2. PICK row, new : row = rows[k] /\ new = rows'[k]
      OBVIOUS
    <3>3. row \in Row /\ new = IF UpsertRefused(row, m) THEN row ELSE RowMerged(row, m)
      BY <1>0, <1>2, <1>6, <3>1, <3>2 DEF StreamTypeOK
    <3> QED BY <1>2, <1>4, <2>3, <3>2, <3>3, UpsertStores
  <2>4. Coming(inflight, r, k, marked) =>
           Coming(inflight', r, k, marked) \/ (IsAbout(m, r, k) /\ (marked => m.cross))
    BY <1>1, <1>m, <1>4, ComingTaken
  <2> QED BY <2>1, <2>2, <2>3, <2>4
<1>7. CASE Discard({m}, Content(Tail(inflight))) /\ UNCHANGED rows
  <2>1. /\ ~lost[r][k]
        /\ IsAbout(m, r, k) => \E l \in Content(inflight') : IsAbout(l, r, k)
    <3>1. lost'[r][k] = (\/ lost[r][k]
                         \/ /\ Exists(r, k)
                            /\ \E l \in {m} : l.from = r /\ l.key = k
                            /\ ~\E l \in Content(inflight') : l.from = r /\ l.key = k)
      BY <1>1, <1>7 DEF Discard
    <3> QED BY <1>5, <3>1 DEF IsAbout
  <2>2. Stored(rows[k], marked) \/ Coming(inflight, r, k, marked)
    <3>1. Vouched(r, k)
      BY DEF StoredOrComing
    <3> QED BY <1>3, <1>5, <2>1, <3>1 DEF Vouched
  <2>3. Coming(inflight, r, k, marked) => Coming(inflight', r, k, marked)
    <3>1. Coming(inflight, r, k, marked) =>
             \/ Coming(inflight', r, k, marked)
             \/ IsAbout(m, r, k) /\ \A l \in Content(inflight') : ~IsAbout(l, r, k)
      BY <1>1, <1>m, <1>4, ComingTaken
    <3> QED BY <2>1, <3>1
  <2> QED BY <1>7, <2>2, <2>3
<1> QED BY <1>m, <1>6, <1>7 DEF OnEnrichedAlert

\* The messages a restart of the service takes with it are marked as lost.
LEMMA RestartVouches ==
    ASSUME StreamInv, StoredOrComing, ServiceRestart,
           NEW r \in Replicas, NEW k \in Keys
    PROVE  Vouched(r, k)'
<1>1. UNCHANGED <<incidents, rows>> /\ Discard(Content(inflight), {})
  BY DEF ServiceRestart, vars
<1>2. PICK marked : marked = CrossNode(incidents[r][k].nodes)
  OBVIOUS
<1>3. marked = CrossNode(incidents[r][k].nodes)'
  BY <1>1, <1>2 DEF CrossNode
<1>4. SUFFICES ASSUME Exists(r, k), ~lost'[r][k] PROVE Stored(rows'[k], marked)
  BY <1>1, <1>3 DEF Vouched, Exists
<1>5. ~lost[r][k] /\ ~\E l \in Content(inflight) : l.from = r /\ l.key = k
  <2>1. lost'[r][k] = (\/ lost[r][k]
                       \/ /\ Exists(r, k)
                          /\ \E l \in Content(inflight) : l.from = r /\ l.key = k
                          /\ ~\E l \in {} : l.from = r /\ l.key = k)
    BY <1>1 DEF Discard
  <2> QED BY <1>4, <2>1
<1>6. ~Coming(inflight, r, k, marked)
  BY <1>5 DEF Coming, Content, IsAbout
<1>7. Stored(rows[k], marked) \/ Coming(inflight, r, k, marked)
  <2>1. Vouched(r, k)
    BY DEF StoredOrComing
  <2> QED BY <1>2, <1>4, <1>5, <2>1 DEF Vouched
<1> QED BY <1>1, <1>6, <1>7

\* Every step keeps the tracked incidents stored or coming.
LEMMA StoredStep ==
    StreamInv /\ StoredOrComing /\ [StreamNext]_streamVars => StoredOrComing'
<1> SUFFICES ASSUME StreamInv, StoredOrComing, [StreamNext]_streamVars,
                    NEW r \in Replicas, NEW k \in Keys
             PROVE  Vouched(r, k)'
  BY DEF StoredOrComing
<1>0. TypeOK'
  BY StreamStep, TypeStep DEF StreamInv
<1>1. CASE UNCHANGED <<incidents, inflight, rows, lost>>
  <2>1. /\ Exists(r, k)' = Exists(r, k)
        /\ CrossNode(incidents[r][k].nodes)' = CrossNode(incidents[r][k].nodes)
    BY <1>1 DEF Exists, CrossNode
  <2>2. Vouched(r, k)
    BY DEF StoredOrComing
  <2> QED BY <1>1, <2>1, <2>2, VouchedKept
<1>2. CASE AggregatorStep
  <2>1. CASE Tick /\ UNCHANGED subVars
    BY <1>1, <2>1 DEF Tick, subVars
  <2>2. ASSUME NEW p \in Replicas, DropUnreadable(p) /\ UNCHANGED subVars
        PROVE  Vouched(r, k)'
    BY <1>1, <2>2 DEF DropUnreadable, subVars
  <2>5. ASSUME NEW p \in Replicas, OnUnkeyedAlert(p) PROVE Vouched(r, k)'
    BY <2>5, UnkeyedVouches
  <2>3. ASSUME NEW p \in Replicas, OnRawAlert(p) PROVE Vouched(r, k)'
    BY <1>0, <2>3, RawAlertVouches
  <2>4. ASSUME NEW p \in Replicas, EvictExpired(p) \/ Restart(p), Forget(p)
        PROVE  Vouched(r, k)'
    BY <2>4, ForgetVouches
  <2> QED BY <1>2, <2>1, <2>2, <2>3, <2>4, <2>5 DEF AggregatorStep
<1>3. CASE Connect \/ Disconnect \/ Reconnect
  BY <1>1, <1>3 DEF Connect, Disconnect, Reconnect, vars
<1>4. CASE ServiceRestart
  BY <1>4, RestartVouches
<1>5. CASE OnEnrichedAlert
  BY <1>5, HandledVouches
<1>6. CASE RefuseUnkeyed
  BY <1>6, UnkeyedVouches
<1>7. CASE UNCHANGED streamVars
  BY <1>1, <1>7 DEF streamVars, subVars, vars
<1> QED BY <1>2, <1>3, <1>4, <1>5, <1>6, <1>7 DEF StreamNext, SubscriberStep

\* An incident the aggregator tracks has its row, with the mark and two nodes
\* once it has been seen on two, as soon as nothing about its key is under way,
\* unless its latest emission was lost.
THEOREM TrackedAreStored == StreamSpec => []TrackedIncidentsAreStored
<1>1. StreamInit => StoredOrComing
  <2> SUFFICES ASSUME StreamInit, NEW r \in Replicas, NEW k \in Keys PROVE Vouched(r, k)
    BY DEF StoredOrComing
  <2>1. ~Exists(r, k)
    BY DEF StreamInit, Init, Exists, NoIncident
  <2> QED BY <2>1 DEF Vouched
<1>2. StoredOrComing /\ RowsMergeMessages => TrackedIncidentsAreStored
  <2> SUFFICES ASSUME StoredOrComing, RowsMergeMessages, NEW r \in Replicas, NEW k \in Keys,
                      Exists(r, k), ~lost[r][k],
                      \A i \in DOMAIN inflight : inflight[i].key # k
               PROVE  /\ rows[k].exists
                      /\ CrossNode(incidents[r][k].nodes) =>
                            rows[k].cross /\ CrossNode(rows[k].nodes)
    BY DEF TrackedIncidentsAreStored
  <2>1. PICK marked : marked = CrossNode(incidents[r][k].nodes)
    OBVIOUS
  <2>2. ~Coming(inflight, r, k, marked)
    BY DEF Coming, IsAbout
  <2>3. Stored(rows[k], marked)
    BY <2>1, <2>2 DEF StoredOrComing, Vouched
  <2>4. rows[k].cross => CrossNode(rows[k].nodes)
    BY DEF RowsMergeMessages
  <2> QED BY <2>1, <2>3, <2>4 DEF Stored
<1> QED BY <1>1, <1>2, StreamInvariant, RowsMerge, StoredStep, PTL DEF StreamSpec
=============================================================================
