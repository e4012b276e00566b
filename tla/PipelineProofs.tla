--------------------------- MODULE PipelineProofs ----------------------------
(***************************************************************************)
(* Proofs about the sequential parts of the pipeline, for every value of   *)
(* the constants of MCPipeline.                                            *)
(***************************************************************************)
EXTENDS MCPipeline, CommGraphProofs, FunctionTheorems, SequenceTheorems

(***************************************************************************)
(* Misra-Gries.  Every event pays for what the counters hold and have      *)
(* lost: a unit in a counter costs one event, and a decrement-all phase    *)
(* costs K, the K - 1 units it takes from the counters and the event that  *)
(* is not counted.  Hence K times the number of phases is at most the      *)
(* number of events, and no key misses more than one unit per phase.       *)
(***************************************************************************)

\* What record keeps of counters_: at most K - 1 of them, none of them 0.
IsCounters(c) ==
    /\ c \in [DOMAIN c -> Nat \ {0}]
    /\ DOMAIN c \subseteq Sources
    /\ IsFiniteSet(DOMAIN c) /\ Cardinality(DOMAIN c) <= K - 1

\* The units in the counters, as a set.
Units(c) == {u \in [key : DOMAIN c, unit : Nat] : u.unit >= 1 /\ u.unit <= c[u.key]}

\* After this many phases no key misses more than one unit for each.
CloseTo(c, freq, phases) ==
    \A x \in Sources :
        D!H!Estimate(c, x) <= freq[x] /\ freq[x] <= D!H!Estimate(c, x) + phases

Paid(c, phases, events) ==
    IsFiniteSet(Units(c)) /\ Cardinality(Units(c)) + K * phases <= events

MisraGries(c, freq, events) ==
    /\ IsCounters(c) /\ freq \in [Sources -> Nat] /\ events \in Nat
    /\ \E phases \in Nat : CloseTo(c, freq, phases) /\ Paid(c, phases, events)

\* The modules that are instantiated count as this one does.
LEMMA SameCardinality ==
    ASSUME NEW set PROVE D!H!Cardinality(set) = Cardinality(set)
BY DEF D!H!Cardinality, Cardinality

\* A key that has a counter.
LEMMA RecordKnown ==
    ASSUME NEW c, IsCounters(c), NEW x \in DOMAIN c, IsFiniteSet(Units(c)),
           NEW new, new = D!H!Record(c, x)
    PROVE  /\ IsCounters(new) /\ IsFiniteSet(Units(new))
           /\ Cardinality(Units(new)) = Cardinality(Units(c)) + 1
           /\ \A y \in Sources : D!H!Estimate(new, y) =
                 IF y = x THEN D!H!Estimate(c, y) + 1 ELSE D!H!Estimate(c, y)
<1>1. new = [c EXCEPT ![x] = @ + 1]
  BY DEF D!H!Record
<1>2. /\ DOMAIN new = DOMAIN c
      /\ \A y \in DOMAIN c : new[y] = IF y = x THEN c[y] + 1 ELSE c[y]
      /\ \A y \in DOMAIN c : c[y] \in Nat \ {0}
  BY <1>1 DEF IsCounters
<1>3. IsCounters(new)
  BY <1>1, <1>2 DEF IsCounters
<1>4. PICK u : u = [key |-> x, unit |-> c[x] + 1]
  OBVIOUS
<1>5. u \notin Units(c)
  BY <1>2, <1>4 DEF Units
<1>6. Units(new) = Units(c) \cup {u}
  <2>1. ASSUME NEW v \in [key : DOMAIN c, unit : Nat]
        PROVE  v \in Units(new) <=> v \in Units(c) \/ v = u
    <3>1. CASE v.key = x
      BY <1>2, <1>4, <2>1, <3>1 DEF Units
    <3>2. CASE v.key # x
      BY <1>2, <1>4, <2>1, <3>2 DEF Units
    <3> QED BY <3>1, <3>2
  <2>2. u \in [key : DOMAIN c, unit : Nat]
    BY <1>2, <1>4
  <2>3. Units(new) \subseteq [key : DOMAIN c, unit : Nat] /\ Units(c) \subseteq [key : DOMAIN c, unit : Nat]
    BY <1>2 DEF Units
  <2> QED BY <2>1, <2>2, <2>3
<1>7. IsFiniteSet(Units(new)) /\ Cardinality(Units(new)) = Cardinality(Units(c)) + 1
  BY <1>5, <1>6, FS_AddElement
<1>8. ASSUME NEW y \in Sources
      PROVE  D!H!Estimate(new, y) =
                 IF y = x THEN D!H!Estimate(c, y) + 1 ELSE D!H!Estimate(c, y)
  BY <1>2 DEF D!H!Estimate
<1> QED BY <1>3, <1>7, <1>8

\* A key that finds a counter free.
LEMMA RecordNew ==
    ASSUME NEW c, IsCounters(c), NEW x \in Sources, x \notin DOMAIN c, D!H!HasRoom(c),
           IsFiniteSet(Units(c)), NEW new, new = D!H!Record(c, x)
    PROVE  /\ IsCounters(new) /\ IsFiniteSet(Units(new))
           /\ Cardinality(Units(new)) = Cardinality(Units(c)) + 1
           /\ \A y \in Sources : D!H!Estimate(new, y) =
                 IF y = x THEN D!H!Estimate(c, y) + 1 ELSE D!H!Estimate(c, y)
<1>1. new = [y \in DOMAIN c \cup {x} |-> IF y = x THEN 1 ELSE c[y]]
  BY DEF D!H!Record, D!H!Tracked
<1>2. /\ DOMAIN new = DOMAIN c \cup {x}
      /\ \A y \in DOMAIN c : new[y] = c[y] /\ c[y] \in Nat \ {0}
      /\ new[x] = 1
  BY <1>1 DEF IsCounters
<1>3. IsCounters(new)
  <2>1. /\ IsFiniteSet(DOMAIN new) /\ Cardinality(DOMAIN new) = Cardinality(DOMAIN c) + 1
        /\ Cardinality(DOMAIN c) \in Nat
    BY <1>2, FS_AddElement, FS_CardinalityType DEF IsCounters
  <2>2. Cardinality(DOMAIN new) <= K - 1
    BY <2>1, EstimatorAssumption, SameCardinality DEF D!H!HasRoom
  <2>3. new \in [DOMAIN new -> Nat \ {0}]
    BY <1>1, <1>2
  <2>4. DOMAIN new \subseteq Sources
    BY <1>2 DEF IsCounters
  <2> QED BY <2>1, <2>2, <2>3, <2>4 DEF IsCounters
<1>4. PICK u : u = [key |-> x, unit |-> 1]
  OBVIOUS
<1>5. u \notin Units(c)
  BY <1>4 DEF Units
<1>6. Units(new) = Units(c) \cup {u}
  <2>1. ASSUME NEW v \in [key : DOMAIN new, unit : Nat]
        PROVE  v \in Units(new) <=> v \in Units(c) \/ v = u
    <3>1. CASE v.key = x
      BY <1>2, <1>4, <2>1, <3>1 DEF Units
    <3>2. CASE v.key # x
      BY <1>2, <1>4, <2>1, <3>2 DEF Units
    <3> QED BY <3>1, <3>2
  <2>2. u \in [key : DOMAIN new, unit : Nat]
    BY <1>2, <1>4
  <2>3. Units(new) \subseteq [key : DOMAIN new, unit : Nat] /\ Units(c) \subseteq [key : DOMAIN new, unit : Nat]
    BY <1>2 DEF Units
  <2> QED BY <2>1, <2>2, <2>3
<1>7. IsFiniteSet(Units(new)) /\ Cardinality(Units(new)) = Cardinality(Units(c)) + 1
  BY <1>5, <1>6, FS_AddElement
<1>8. ASSUME NEW y \in Sources
      PROVE  D!H!Estimate(new, y) =
                 IF y = x THEN D!H!Estimate(c, y) + 1 ELSE D!H!Estimate(c, y)
  <2>1. CASE y = x
    BY <1>2, <2>1 DEF D!H!Estimate
  <2>2. CASE y # x
    BY <1>2, <2>2 DEF D!H!Estimate
  <2> QED BY <2>1, <2>2
<1> QED BY <1>3, <1>7, <1>8

\* A key that finds none: the decrement-all phase takes a unit from each.
LEMMA RecordCut ==
    ASSUME NEW c, IsCounters(c), NEW x \in Sources, x \notin DOMAIN c, ~D!H!HasRoom(c),
           IsFiniteSet(Units(c)), NEW new, new = D!H!Record(c, x)
    PROVE  /\ IsCounters(new) /\ IsFiniteSet(Units(new))
           /\ Cardinality(Units(new)) + (K - 1) <= Cardinality(Units(c))
           /\ \A y \in Sources : /\ D!H!Estimate(new, y) <= D!H!Estimate(c, y)
                                 /\ D!H!Estimate(c, y) <= D!H!Estimate(new, y) + 1
           /\ D!H!Estimate(new, x) = 0 /\ D!H!Estimate(c, x) = 0
<1>1. new = [y \in {z \in DOMAIN c : c[z] > 1} |-> c[y] - 1]
  BY DEF D!H!Record, D!H!Decremented
<1>2. \A y \in DOMAIN c : c[y] \in Nat \ {0}
  BY DEF IsCounters
<1>3. /\ DOMAIN new = {z \in DOMAIN c : c[z] > 1}
      /\ \A y \in DOMAIN new : new[y] = c[y] - 1 /\ new[y] \in Nat \ {0}
  BY <1>1, <1>2
<1>4. /\ IsFiniteSet(DOMAIN new) /\ Cardinality(DOMAIN new) <= Cardinality(DOMAIN c)
      /\ Cardinality(DOMAIN c) \in Nat /\ Cardinality(DOMAIN new) \in Nat
  BY <1>3, FS_Subset, FS_CardinalityType DEF IsCounters
<1>5. IsCounters(new)
  <2>1. new \in [DOMAIN new -> Nat \ {0}]
    BY <1>1, <1>3
  <2>2. Cardinality(DOMAIN new) <= K - 1
    BY <1>4, EstimatorAssumption DEF IsCounters
  <2> QED BY <1>3, <1>4, <2>1, <2>2 DEF IsCounters
<1> DEFINE Tops == {u \in Units(c) : u.unit = c[u.key]}
<1>6. Units(new) = Units(c) \ Tops
  <2>1. ASSUME NEW v \in [key : DOMAIN c, unit : Nat]
        PROVE  v \in Units(new) <=> v \in Units(c) /\ v.unit # c[v.key]
    <3>1. v.key \in DOMAIN c /\ v.unit \in Nat /\ c[v.key] \in Nat \ {0}
      BY <1>2
    <3>2. v \in Units(c) <=> v.unit >= 1 /\ v.unit <= c[v.key]
      BY DEF Units
    <3>3. CASE v.key \in DOMAIN new
      <4>1. v \in Units(new) <=> v.unit >= 1 /\ v.unit <= c[v.key] - 1
        BY <1>3, <2>1, <3>1, <3>3 DEF Units
      <4> QED BY <3>1, <3>2, <4>1
    <3>4. CASE v.key \notin DOMAIN new
      <4>1. c[v.key] = 1
        BY <1>3, <3>1, <3>4
      <4>2. v \notin Units(new)
        BY <3>4 DEF Units
      <4> QED BY <3>1, <3>2, <4>1, <4>2
    <3> QED BY <3>3, <3>4
  <2>2. Units(c) \subseteq [key : DOMAIN c, unit : Nat]
    BY DEF Units
  <2>3. Units(new) \subseteq [key : DOMAIN c, unit : Nat]
    BY <1>3 DEF Units
  <2> QED BY <2>1, <2>2, <2>3
<1>7. IsFiniteSet(Tops) /\ Cardinality(DOMAIN c) <= Cardinality(Tops)
  <2>1. IsFiniteSet(Tops)
    BY FS_Subset
  <2>2. PICK f : f = [y \in DOMAIN c |-> [key |-> y, unit |-> c[y]]]
    OBVIOUS
  <2>3. ASSUME NEW y \in DOMAIN c PROVE f[y] \in Tops
    BY <1>2, <2>2 DEF Units
  <2>4. f \in Injection(DOMAIN c, Tops)
    <3>1. f \in [DOMAIN c -> Tops]
      BY <2>2, <2>3
    <3>2. \A a, b \in DOMAIN c : f[a] = f[b] => a = b
      BY <2>2
    <3> HIDE DEF Tops
    <3> QED BY <3>1, <3>2, Fun_IsInj
  <2> HIDE DEF Tops
  <2> QED BY <2>1, <2>4, FS_Injection
<1>8. /\ IsFiniteSet(Units(new))
      /\ Cardinality(Units(new)) = Cardinality(Units(c)) - Cardinality(Tops)
  <2>1. Units(c) \cap Tops = Tops
    OBVIOUS
  <2> HIDE DEF Tops
  <2> QED BY <1>6, <2>1, FS_Difference
<1>9. Cardinality(DOMAIN c) + 1 >= K
  BY <1>4, EstimatorAssumption, SameCardinality DEF D!H!HasRoom
<1>10. Cardinality(Units(new)) + (K - 1) <= Cardinality(Units(c))
  <2> HIDE DEF Tops
  <2>1. Cardinality(Tops) \in Nat /\ Cardinality(Units(c)) \in Nat
    BY <1>7, FS_CardinalityType
  <2> QED BY <1>4, <1>7, <1>8, <1>9, <2>1, EstimatorAssumption
<1>11. ASSUME NEW y \in Sources
       PROVE  /\ D!H!Estimate(new, y) <= D!H!Estimate(c, y)
              /\ D!H!Estimate(c, y) <= D!H!Estimate(new, y) + 1
  <2>1. CASE y \in DOMAIN new
    BY <1>2, <1>3, <2>1 DEF D!H!Estimate
  <2>2. CASE y \in DOMAIN c /\ y \notin DOMAIN new
    <3>1. c[y] = 1
      BY <1>2, <1>3, <2>2
    <3> QED BY <2>2, <3>1 DEF D!H!Estimate
  <2>3. CASE y \notin DOMAIN c
    BY <1>3, <2>3 DEF D!H!Estimate
  <2> QED BY <2>1, <2>2, <2>3
<1>12. D!H!Estimate(new, x) = 0 /\ D!H!Estimate(c, x) = 0
  BY <1>3 DEF D!H!Estimate
<1> QED BY <1>5, <1>8, <1>10, <1>11, <1>12

\* No counters, no events.
LEMMA MisraGriesStart ==
    ASSUME NEW c, c = D!H!NoCounters PROVE MisraGries(c, D!NoEvents, 0)
<1>1. c = << >> /\ DOMAIN c = {}
  BY DEF D!H!NoCounters
<1>2. IsFiniteSet({}) /\ Cardinality({}) = 0
  BY FS_EmptySet
<1>3. IsCounters(c)
  <2>1. c \in [DOMAIN c -> Nat \ {0}]
    BY <1>1
  <2> QED BY <1>1, <1>2, <2>1, EstimatorAssumption DEF IsCounters
<1>4. Units(c) = {}
  BY <1>1 DEF Units
<1>5. Paid(c, 0, 0)
  BY <1>2, <1>4, EstimatorAssumption DEF Paid
<1>6. CloseTo(c, D!NoEvents, 0)
  BY <1>1 DEF CloseTo, D!H!Estimate, D!NoEvents
<1>7. D!NoEvents \in [Sources -> Nat]
  BY DEF D!NoEvents
<1> QED BY <1>3, <1>5, <1>6, <1>7 DEF MisraGries

\* Every event pays for itself.
LEMMA MisraGriesStep ==
    ASSUME NEW c, NEW freq, NEW events, MisraGries(c, freq, events), NEW x \in Sources,
           NEW new, new = D!H!Record(c, x)
    PROVE  MisraGries(new, [freq EXCEPT ![x] = @ + 1], events + 1)
<1>1. PICK phases \in Nat : CloseTo(c, freq, phases) /\ Paid(c, phases, events)
  BY DEF MisraGries
<1>2. IsCounters(c) /\ freq \in [Sources -> Nat] /\ events \in Nat /\ IsFiniteSet(Units(c))
  BY <1>1 DEF MisraGries, Paid
<1>3. PICK after : after = [freq EXCEPT ![x] = @ + 1]
  OBVIOUS
<1>4. /\ after \in [Sources -> Nat]
      /\ \A y \in Sources : after[y] = IF y = x THEN freq[y] + 1 ELSE freq[y]
      /\ \A y \in Sources : freq[y] \in Nat
  BY <1>2, <1>3
<1>5. \A y \in Sources : D!H!Estimate(c, y) \in Nat
  BY <1>2 DEF D!H!Estimate, IsCounters
<1>6. Cardinality(Units(c)) \in Nat
  BY <1>2, FS_CardinalityType
<1>7. Cardinality(Units(c)) + K * phases <= events /\ K * phases \in Nat
  BY <1>1, EstimatorAssumption DEF Paid
<1>8. CASE x \in DOMAIN c \/ D!H!HasRoom(c)
  <2>1. /\ IsCounters(new) /\ IsFiniteSet(Units(new))
        /\ Cardinality(Units(new)) = Cardinality(Units(c)) + 1
        /\ \A y \in Sources : D!H!Estimate(new, y) =
              IF y = x THEN D!H!Estimate(c, y) + 1 ELSE D!H!Estimate(c, y)
    <3>1. CASE x \in DOMAIN c
      BY <1>2, <3>1, RecordKnown
    <3>2. CASE x \notin DOMAIN c
      BY <1>2, <1>8, <3>2, RecordNew
    <3> QED BY <3>1, <3>2
  <2>2. CloseTo(new, after, phases)
    <3> SUFFICES ASSUME NEW y \in Sources
                 PROVE  /\ D!H!Estimate(new, y) <= after[y]
                        /\ after[y] <= D!H!Estimate(new, y) + phases
      BY DEF CloseTo
    <3>1. D!H!Estimate(c, y) <= freq[y] /\ freq[y] <= D!H!Estimate(c, y) + phases
      BY <1>1 DEF CloseTo
    <3> QED BY <1>4, <1>5, <2>1, <3>1
  <2>3. Paid(new, phases, events + 1)
    BY <1>2, <1>6, <1>7, <2>1 DEF Paid
  <2> QED BY <1>2, <1>3, <1>4, <2>1, <2>2, <2>3 DEF MisraGries
<1>9. CASE x \notin DOMAIN c /\ ~D!H!HasRoom(c)
  <2>1. /\ IsCounters(new) /\ IsFiniteSet(Units(new))
        /\ Cardinality(Units(new)) + (K - 1) <= Cardinality(Units(c))
        /\ \A y \in Sources : /\ D!H!Estimate(new, y) <= D!H!Estimate(c, y)
                              /\ D!H!Estimate(c, y) <= D!H!Estimate(new, y) + 1
        /\ D!H!Estimate(new, x) = 0 /\ D!H!Estimate(c, x) = 0
    BY <1>2, <1>9, RecordCut
  <2>2. \A y \in Sources : D!H!Estimate(new, y) \in Nat
    BY <2>1 DEF D!H!Estimate, IsCounters
  <2>3. CloseTo(new, after, phases + 1)
    <3> SUFFICES ASSUME NEW y \in Sources
                 PROVE  /\ D!H!Estimate(new, y) <= after[y]
                        /\ after[y] <= D!H!Estimate(new, y) + (phases + 1)
      BY DEF CloseTo
    <3>1. D!H!Estimate(c, y) <= freq[y] /\ freq[y] <= D!H!Estimate(c, y) + phases
      BY <1>1 DEF CloseTo
    <3>2. CASE y = x
      BY <1>4, <2>1, <3>1, <3>2
    <3>3. CASE y # x
      BY <1>4, <1>5, <2>1, <2>2, <3>1, <3>3
    <3> QED BY <3>2, <3>3
  <2>4. Paid(new, phases + 1, events + 1)
    <3>1. Cardinality(Units(new)) \in Nat
      BY <2>1, FS_CardinalityType
    <3>2. K * (phases + 1) = K * phases + K
      BY EstimatorAssumption
    <3> QED BY <1>2, <1>6, <1>7, <2>1, <3>1, <3>2, EstimatorAssumption DEF Paid
  <2>5. phases + 1 \in Nat
    OBVIOUS
  <2> QED BY <1>2, <1>3, <1>4, <2>1, <2>3, <2>4, <2>5 DEF MisraGries
<1> QED BY <1>8, <1>9

\* K times what a key misses is at most the number of events.
LEMMA MisraGriesGap ==
    ASSUME NEW c, NEW freq, NEW events, MisraGries(c, freq, events), NEW x \in Sources
    PROVE  /\ D!H!Estimate(c, x) \in Nat /\ freq[x] \in Nat
           /\ D!H!Estimate(c, x) <= freq[x]
           /\ K * (freq[x] - D!H!Estimate(c, x)) <= events
<1>1. PICK phases \in Nat : CloseTo(c, freq, phases) /\ Paid(c, phases, events)
  BY DEF MisraGries
<1>2. D!H!Estimate(c, x) \in Nat /\ freq[x] \in Nat /\ events \in Nat
  BY DEF D!H!Estimate, IsCounters, MisraGries
<1>3. PICK gap \in Nat : gap = freq[x] - D!H!Estimate(c, x)
  BY <1>1, <1>2 DEF CloseTo
<1>4. D!H!Estimate(c, x) <= freq[x] /\ gap <= phases
  BY <1>1, <1>2, <1>3 DEF CloseTo
<1>5. K * phases <= events
  <2>1. Cardinality(Units(c)) \in Nat /\ K * phases \in Nat
    BY <1>1, FS_CardinalityType, EstimatorAssumption DEF Paid
  <2> QED BY <1>1, <1>2, <2>1 DEF Paid
<1>6. K * gap <= K * phases
  <2>1. PICK more \in Nat : phases = gap + more
    BY <1>4
  <2>2. K * phases = K * gap + K * more /\ K * more \in Nat /\ K * gap \in Nat
    BY <2>1, EstimatorAssumption
  <2> QED BY <2>2
<1>7. K * gap <= events
  BY <1>2, <1>5, <1>6, EstimatorAssumption
<1> QED BY <1>2, <1>3, <1>4, <1>7

-----------------------------------------------------------------------------
(***************************************************************************)
(* The Count-Min Sketch: each counter of a key has counted all its events. *)
(***************************************************************************)
SketchCovers(t, freq) ==
    /\ t \in D!C!Table /\ freq \in [Sources -> Nat]
    /\ \A r \in Rows, x \in Sources : t[r][Hash[r][x]] >= freq[x]

\* A key has a counter in each row.
LEMMA HashesToColumns ==
    ASSUME NEW r \in Rows, NEW x \in Sources, NEW t \in D!C!Table
    PROVE  Hash[r][x] \in Columns /\ t[r][Hash[r][x]] \in Nat
BY SketchAssumption DEF D!C!Table

\* The empty sketch covers the empty stream.
LEMMA SketchStart == SketchCovers(D!C!EmptyTable, D!NoEvents)
<1>1. D!C!EmptyTable \in D!C!Table
  BY DEF D!C!EmptyTable, D!C!Table
<1>2. ASSUME NEW r \in Rows, NEW x \in Sources PROVE D!C!EmptyTable[r][Hash[r][x]] = 0
  BY <1>1, HashesToColumns DEF D!C!EmptyTable
<1> QED BY <1>1, <1>2 DEF SketchCovers, D!NoEvents

\* Recording a key raises its counter of each row and lowers none.
LEMMA SketchStep ==
    ASSUME NEW t, NEW freq, SketchCovers(t, freq), NEW x \in Sources,
           NEW new, new = D!C!Record(t, x)
    PROVE  SketchCovers(new, [freq EXCEPT ![x] = @ + 1])
<1>1. t \in D!C!Table /\ freq \in [Sources -> Nat]
  BY DEF SketchCovers
<1>2. /\ new \in D!C!Table
      /\ \A r \in Rows, col \in Columns :
            new[r][col] = IF col = Hash[r][x] THEN t[r][col] + 1 ELSE t[r][col]
  BY <1>1 DEF D!C!Record, D!C!Table
<1>3. PICK after : after = [freq EXCEPT ![x] = @ + 1]
  OBVIOUS
<1>4. /\ after \in [Sources -> Nat]
      /\ \A y \in Sources : after[y] = IF y = x THEN freq[y] + 1 ELSE freq[y]
      /\ \A y \in Sources : freq[y] \in Nat
  BY <1>1, <1>3
<1>5. ASSUME NEW r \in Rows, NEW y \in Sources PROVE new[r][Hash[r][y]] >= after[y]
  <2>1. Hash[r][y] \in Columns /\ t[r][Hash[r][y]] \in Nat
    BY <1>1, HashesToColumns
  <2>2. new[r][Hash[r][y]] = IF Hash[r][y] = Hash[r][x] THEN t[r][Hash[r][y]] + 1
                             ELSE t[r][Hash[r][y]]
    BY <1>2, <2>1
  <2>3. t[r][Hash[r][y]] >= freq[y]
    BY DEF SketchCovers
  <2>4. CASE y = x
    BY <1>4, <2>1, <2>2, <2>3, <2>4
  <2>5. CASE y # x
    BY <1>4, <2>1, <2>2, <2>3, <2>5
  <2> QED BY <2>4, <2>5
<1> QED BY <1>2, <1>3, <1>4, <1>5 DEF SketchCovers

\* The estimate is one of the counters, and so never below the frequency.
LEMMA SketchBound ==
    ASSUME NEW t, NEW freq, SketchCovers(t, freq), NEW x \in Sources
    PROVE  D!C!Estimate(t, x) \in Nat /\ D!C!Estimate(t, x) >= freq[x]
<1>1. t \in D!C!Table
  BY DEF SketchCovers
<1>2. D!C!Counters(t, x) \subseteq Nat /\ D!C!Counters(t, x) # {}
  BY <1>1, HashesToColumns, SketchAssumption DEF D!C!Counters
<1>3. \E i \in D!C!Counters(t, x) : \A j \in D!C!Counters(t, x) : i <= j
  BY <1>2, LeastNatural
<1>4. D!C!Estimate(t, x) \in D!C!Counters(t, x)
  BY <1>3 DEF D!C!Estimate
<1>5. PICK r \in Rows : D!C!Estimate(t, x) = t[r][Hash[r][x]]
  BY <1>4 DEF D!C!Counters
<1> QED BY <1>2, <1>4, <1>5 DEF SketchCovers

-----------------------------------------------------------------------------
(***************************************************************************)
(* The three detectors of portscan-pipeline on one input.                  *)
(***************************************************************************)

\* AlertsAreNested for alerts, frequencies and number of events of a window.
Nested(done, freq, events) ==
    /\ done \in [cms : SUBSET Sources, mg : SUBSET Sources, hashmap : SUBSET Sources]
    /\ done.mg \subseteq done.hashmap
    /\ done.hashmap = {s \in Sources : freq[s] > Threshold}
    /\ done.hashmap \subseteq done.cms
    /\ {s \in Sources : K * (freq[s] - Threshold) > events} \subseteq done.mg

DetectorInv ==
    /\ SketchCovers(sketch, exact)
    /\ MisraGries(counters, exact, n)
    /\ Nested(alerted, exact, n)

\* Products with K order their other factors.
LEMMA FactorsCompare ==
    ASSUME NEW a \in Int, NEW b \in Int, K * a > K * b PROVE a > b
<1> SUFFICES ASSUME a <= b PROVE FALSE
  OBVIOUS
<1>1. PICK more \in Nat : b = a + more
  <2>1. b - a \in Nat /\ b = a + (b - a)
    OBVIOUS
  <2> QED BY <2>1
<1>2. K * b = K * a + K * more /\ K * more >= 0 /\ K * a \in Int /\ K * more \in Int
  BY <1>1, EstimatorAssumption
<1> QED BY <1>2

\* An empty window.
LEMMA NestedStart == Nested(D!NoAlerts, D!NoEvents, 0)
<1>1. {s \in Sources : D!NoEvents[s] > Threshold} = {}
  BY EstimatorAssumption DEF D!NoEvents
<1>2. {s \in Sources : K * (D!NoEvents[s] - Threshold) > 0} = {}
  <2>1. ASSUME NEW s \in Sources PROVE ~(K * (D!NoEvents[s] - Threshold) > 0)
    <3>1. D!NoEvents[s] - Threshold = 0 - Threshold
      BY DEF D!NoEvents
    <3>2. K * (0 - Threshold) = 0 - K * Threshold /\ K * Threshold \in Nat
      BY EstimatorAssumption
    <3> QED BY <3>1, <3>2
  <2> QED BY <2>1
<1> QED BY <1>1, <1>2 DEF Nested, D!NoAlerts

\* One event, given what its estimators say of its source.
LEMMA NestedStep ==
    ASSUME NEW done, NEW freq \in [Sources -> Nat], NEW events \in Nat,
           Nested(done, freq, events), NEW x \in Sources,
           NEW after, after = [freq EXCEPT ![x] = @ + 1],
           NEW over \in Nat, over >= after[x],
           NEW under \in Nat, under <= after[x], K * (after[x] - under) <= events + 1
    PROVE  Nested([cms     |-> D!With(done.cms, over, x),
                   mg      |-> D!With(done.mg, under, x),
                   hashmap |-> D!With(done.hashmap, after[x], x)], after, events + 1)
<1>0. /\ done.cms \in SUBSET Sources /\ done.mg \in SUBSET Sources
      /\ done.hashmap \in SUBSET Sources
      /\ done.mg \subseteq done.hashmap
      /\ done.hashmap = {s \in Sources : freq[s] > Threshold}
      /\ done.hashmap \subseteq done.cms
      /\ \A s \in Sources : K * (freq[s] - Threshold) > events => s \in done.mg
  BY DEF Nested
<1>1. /\ \A s \in Sources : after[s] = IF s = x THEN freq[s] + 1 ELSE freq[s]
      /\ \A s \in Sources : freq[s] \in Nat /\ after[s] \in Nat
      /\ Threshold \in Nat
  BY EstimatorAssumption
<1>2. PICK c, g, h :
         /\ c = D!With(done.cms, over, x)
         /\ g = D!With(done.mg, under, x)
         /\ h = D!With(done.hashmap, after[x], x)
  OBVIOUS
<1>3. /\ c = done.cms \cup (IF over > Threshold THEN {x} ELSE {})
      /\ g = done.mg \cup (IF under > Threshold THEN {x} ELSE {})
      /\ h = done.hashmap \cup (IF after[x] > Threshold THEN {x} ELSE {})
  BY <1>0, <1>2 DEF D!With, D!Raises
<1>4. g \subseteq h /\ h \subseteq c
  BY <1>0, <1>1, <1>3
<1>5. h = {s \in Sources : after[s] > Threshold}
  <2>1. ASSUME NEW s \in Sources PROVE s \in h <=> after[s] > Threshold
    <3>1. CASE s = x
      BY <1>0, <1>1, <1>3, <3>1
    <3>2. CASE s # x
      BY <1>0, <1>1, <1>3, <3>2
    <3> QED BY <3>1, <3>2
  <2>2. h \subseteq Sources
    BY <1>0, <1>3
  <2> QED BY <2>1, <2>2
<1>6. ASSUME NEW s \in Sources, K * (after[s] - Threshold) > events + 1 PROVE s \in g
  <2>1. CASE s # x
    <3>1. after[s] = freq[s] /\ K * (freq[s] - Threshold) > events + 1
      BY <1>1, <1>6, <2>1
    <3>2. K * (freq[s] - Threshold) \in Int
      BY <1>1, EstimatorAssumption
    <3>3. K * (freq[s] - Threshold) > events
      BY <3>1, <3>2
    <3> QED BY <1>0, <1>3, <3>3
  <2>2. CASE s = x
    <3>1. PICK a \in Int, b \in Int : a = after[x] - Threshold /\ b = after[x] - under
      BY <1>1
    <3>2. K * a \in Int /\ K * b \in Int
      BY EstimatorAssumption
    <3>3. K * a > events + 1 /\ K * b <= events + 1
      BY <1>6, <2>2, <3>1
    <3>4. K * a > K * b
      BY <3>2, <3>3
    <3>5. a > b
      BY <3>4, FactorsCompare
    <3>6. under > Threshold
      BY <1>1, <3>1, <3>5
    <3> QED BY <1>3, <2>2, <3>6
  <2> QED BY <2>1, <2>2
<1>7. c \in SUBSET Sources /\ g \in SUBSET Sources /\ h \in SUBSET Sources
  BY <1>0, <1>3
<1>8. PICK result1 : result1 = [cms |-> c, mg |-> g, hashmap |-> h]
  OBVIOUS
<1>9. Nested(result1, after, events + 1)
  BY <1>4, <1>5, <1>6, <1>7, <1>8 DEF Nested
<1> QED BY <1>2, <1>8, <1>9

\* An event keeps the invariant, whether it opens a new window or not.
LEMMA DetectorStep ==
    ASSUME DetectorInv, NEW x \in Sources, NEW ts, D!Process(x, ts)
    PROVE  DetectorInv'
<1>1. PICK t, c, freq, events, done :
         /\ t = IF D!Expires(ts) THEN D!C!EmptyTable ELSE sketch
         /\ c = IF D!Expires(ts) THEN D!H!NoCounters ELSE counters
         /\ freq = IF D!Expires(ts) THEN D!NoEvents ELSE exact
         /\ events = IF D!Expires(ts) THEN 0 ELSE n
         /\ done = IF D!Expires(ts) THEN D!NoAlerts ELSE alerted
  OBVIOUS
<1>2. SketchCovers(t, freq) /\ MisraGries(c, freq, events) /\ Nested(done, freq, events)
  <2>1. CASE D!Expires(ts)
    <3>1. /\ t = D!C!EmptyTable /\ c = D!H!NoCounters /\ freq = D!NoEvents
          /\ events = 0 /\ done = D!NoAlerts
      BY <1>1, <2>1
    <3> QED BY <3>1, SketchStart, MisraGriesStart, NestedStart
  <2>2. CASE ~D!Expires(ts)
    BY <1>1, <2>2 DEF DetectorInv
  <2> QED BY <2>1, <2>2
<1>3. PICK t1, c1, after :
         /\ t1 = D!C!Record(t, x) /\ c1 = D!H!Record(c, x)
         /\ after = [freq EXCEPT ![x] = @ + 1]
  OBVIOUS
<1>4. /\ sketch' = t1 /\ counters' = c1 /\ exact' = after /\ n' = events + 1
      /\ alerted' = [cms     |-> D!With(done.cms, D!C!Estimate(t1, x), x),
                     mg      |-> D!With(done.mg, D!H!Estimate(c1, x), x),
                     hashmap |-> D!With(done.hashmap, after[x], x)]
  BY <1>1, <1>3 DEF D!Process
<1>5. SketchCovers(t1, after) /\ MisraGries(c1, after, events + 1)
  BY <1>2, <1>3, SketchStep, MisraGriesStep
<1>6. PICK over, under : over = D!C!Estimate(t1, x) /\ under = D!H!Estimate(c1, x)
  OBVIOUS
<1>7. /\ over \in Nat /\ over >= after[x]
      /\ under \in Nat /\ under <= after[x] /\ K * (after[x] - under) <= events + 1
  BY <1>5, <1>6, SketchBound, MisraGriesGap
<1>8. freq \in [Sources -> Nat] /\ events \in Nat
  BY <1>2 DEF MisraGries
<1>9. Nested([cms     |-> D!With(done.cms, over, x),
              mg      |-> D!With(done.mg, under, x),
              hashmap |-> D!With(done.hashmap, after[x], x)], after, events + 1)
  BY <1>2, <1>3, <1>7, <1>8, NestedStep
<1>10. Nested(alerted', exact', n')
  BY <1>4, <1>6, <1>9
<1>11. SketchCovers(sketch', exact') /\ MisraGries(counters', exact', n')
  BY <1>4, <1>5
<1> QED BY <1>10, <1>11 DEF DetectorInv

\* Every part starts from empty estimators.
LEMMA EstimatorsStart ==
    ASSUME Init
    PROVE  DetectorInv /\ total = 0 /\ traced = counters
<1>1. /\ sketch = D!C!EmptyTable /\ counters = D!H!NoCounters /\ exact = D!NoEvents
      /\ n = 0 /\ alerted = D!NoAlerts /\ total = 0 /\ traced = << >>
  BY DEF Init, D!Init
<1>2. SketchCovers(sketch, exact) /\ Nested(alerted, exact, n)
  BY <1>1, SketchStart, NestedStart
<1>3. MisraGries(counters, exact, n)
  <2>1. PICK c : c = D!H!NoCounters
    OBVIOUS
  <2> QED BY <1>1, <2>1, MisraGriesStart
<1> QED BY <1>1, <1>2, <1>3 DEF DetectorInv, D!H!NoCounters

\* In every window of every input, Misra-Gries alerts only scans, the exact
\* counters all of them, the sketch misses none, and a source that exceeds the
\* threshold by more than a K-th of the events is alerted by all three.
THEOREM ScansAreNested == Spec => []AlertsAreNested
<1> DEFINE Inv == running = "portscan" => DetectorInv
<1>1. Init => Inv
  BY EstimatorsStart
<1>2. Inv /\ [Next]_vars => Inv'
  <2> SUFFICES ASSUME Inv, [Next]_vars, running' = "portscan" PROVE DetectorInv'
    OBVIOUS
  <2>1. CASE UNCHANGED vars
    BY <2>1 DEF vars, scanVars, DetectorInv
  <2>2. CASE Next
    <3>1. running = "portscan" /\ D!Next
      BY <2>2 DEF Next
    <3>2. PICK x \in Sources, ts \in Timestamps : D!Process(x, ts)
      BY <3>1 DEF D!Next
    <3> QED BY <3>1, <3>2, DetectorStep
  <2> QED BY <2>1, <2>2
<1>3. Inv => AlertsAreNested
  BY DEF DetectorInv, Nested, AlertsAreNested, D!AlertsAreNested
<1> QED BY <1>1, <1>2, <1>3, PTL DEF Spec

-----------------------------------------------------------------------------
(***************************************************************************)
(* The trace_algorithms tool, which has its own sketch and its own         *)
(* Misra-Gries table next to the library's.                                *)
(***************************************************************************)
TraceInv ==
    /\ traced = counters
    /\ SketchCovers(sketch, exact)
    /\ MisraGries(counters, exact, total)

\* trace_misra's step is HeavyHitters::record on the same counters.
LEMMA MisraIsRecord ==
    ASSUME IsCounters(traced), NEW x PROVE A!InsertMisra(x) = D!H!Record(traced, x)
<1>1. \A y \in DOMAIN traced : traced[y] \in Nat \ {0}
  BY DEF IsCounters
<1>2. Cardinality(DOMAIN traced) \in Nat
  BY FS_CardinalityType DEF IsCounters
<1>3. A!TableFull <=> ~D!H!HasRoom(traced)
  <2>1. A!Cardinality(DOMAIN traced) = Cardinality(DOMAIN traced)
    BY DEF A!Cardinality, Cardinality
  <2> QED BY <1>2, <2>1, SameCardinality, EstimatorAssumption DEF A!TableFull, D!H!HasRoom
<1>4. A!DecrementAll = D!H!Decremented(traced)
  <2>1. {z \in DOMAIN traced : traced[z] - 1 # 0} = {z \in DOMAIN traced : traced[z] > 1}
    BY <1>1
  <2> QED BY <2>1 DEF A!DecrementAll, D!H!Decremented
<1>5. CASE x \in DOMAIN traced
  BY <1>5 DEF A!InsertMisra, D!H!Record
<1>6. CASE x \notin DOMAIN traced /\ ~A!TableFull
  BY <1>3, <1>6 DEF A!InsertMisra, D!H!Record, D!H!Tracked
<1>7. CASE x \notin DOMAIN traced /\ A!TableFull
  BY <1>3, <1>4, <1>7 DEF A!InsertMisra, D!H!Record
<1> QED BY <1>5, <1>6, <1>7

\* An element of the stream keeps the invariant.
LEMMA TraceStep ==
    ASSUME TraceInv, NEW x \in Sources, A!Step(x) PROVE TraceInv'
<1>1. /\ sketch' = D!C!Record(sketch, x) /\ counters' = D!H!Record(counters, x)
      /\ exact' = [exact EXCEPT ![x] = @ + 1] /\ total' = total + 1
  <2>1. A!Sketch!Record(sketch, x) = D!C!Record(sketch, x)
    BY DEF A!Sketch!Record, D!C!Record
  <2>2. A!H!HasRoom(counters) = D!H!HasRoom(counters)
    <3>1. A!H!Cardinality(DOMAIN counters) = D!H!Cardinality(DOMAIN counters)
      BY DEF A!H!Cardinality, D!H!Cardinality
    <3> QED BY <3>1 DEF A!H!HasRoom, D!H!HasRoom
  <2>3. A!H!Record(counters, x) = D!H!Record(counters, x)
    BY <2>2 DEF A!H!Record, D!H!Record, A!H!Tracked, D!H!Tracked, A!H!Decremented, D!H!Decremented
  <2> QED BY <2>1, <2>3 DEF A!Step, A!Insert
<1>2. traced' = D!H!Record(traced, x)
  <2>1. IsCounters(traced)
    BY DEF TraceInv, MisraGries
  <2> QED BY <2>1, MisraIsRecord DEF A!Step
<1>3. traced' = counters'
  BY <1>1, <1>2 DEF TraceInv
<1>4. PICK t, c, freq, events :
         t = sketch /\ c = counters /\ freq = exact /\ events = total
  OBVIOUS
<1>5. PICK t1, c1 : t1 = D!C!Record(t, x) /\ c1 = D!H!Record(c, x)
  OBVIOUS
<1>6. /\ SketchCovers(t1, [freq EXCEPT ![x] = @ + 1])
      /\ MisraGries(c1, [freq EXCEPT ![x] = @ + 1], events + 1)
  BY <1>4, <1>5, SketchStep, MisraGriesStep DEF TraceInv
<1>7. SketchCovers(sketch', exact') /\ MisraGries(counters', exact', total')
  BY <1>1, <1>4, <1>5, <1>6
<1> QED BY <1>3, <1>7 DEF TraceInv

\* What fits K times into a number is at most its K-th part, rounded down.
LEMMA QuotientBound ==
    ASSUME NEW gap \in Nat, NEW events \in Nat, K * gap <= events
    PROVE  gap <= events \div K
<1>1. PICK q \in Int, rest \in Int : q = events \div K /\ rest = events % K
  BY EstimatorAssumption
<1>2. events = K * q + rest /\ rest < K
  BY <1>1, EstimatorAssumption, SMTT(30)
<1> SUFFICES ASSUME gap > q PROVE FALSE
  BY <1>1
<1>3. PICK more \in Nat : gap = q + 1 + more
  <2>1. gap - q - 1 \in Nat /\ gap = q + 1 + (gap - q - 1)
    OBVIOUS
  <2> QED BY <2>1
<1>4. K * gap = K * q + K + K * more /\ K * more >= 0 /\ K * q \in Int /\ K * more \in Int
  BY <1>3, EstimatorAssumption
<1> QED BY <1>2, <1>4, EstimatorAssumption

\* What trace_algorithms prints below its tables holds for every stream, every
\* hash function and every K: the estimators bracket the true frequency, and the
\* gap of Misra-Gries is at most m/K.
THEOREM TracesBracket == Spec => []BracketsFrequency
<1> DEFINE Inv == running = "trace" => TraceInv
<1>1. Init => Inv
  <2> SUFFICES ASSUME Init PROVE TraceInv
    OBVIOUS
  <2>1. DetectorInv /\ total = 0 /\ traced = counters /\ n = 0
    BY EstimatorsStart DEF Init, D!Init
  <2> QED BY <2>1 DEF DetectorInv, TraceInv
<1>2. Inv /\ [Next]_vars => Inv'
  <2> SUFFICES ASSUME Inv, [Next]_vars, running' = "trace" PROVE TraceInv'
    OBVIOUS
  <2>1. CASE UNCHANGED vars
    BY <2>1 DEF vars, scanVars, TraceInv
  <2>2. CASE Next
    <3>1. running = "trace" /\ A!Next
      BY <2>2 DEF Next
    <3>2. PICK x \in Sources : A!Step(x)
      BY <3>1 DEF A!Next
    <3> QED BY <3>1, <3>2, TraceStep
  <2> QED BY <2>1, <2>2
<1>3. Inv => BracketsFrequency
  <2> SUFFICES ASSUME TraceInv PROVE A!BracketsFrequency
    BY DEF BracketsFrequency
  <2>1. traced = counters /\ A!Cardinality(DOMAIN counters) <= K - 1
    <3>1. A!Cardinality(DOMAIN counters) = Cardinality(DOMAIN counters)
      BY DEF A!Cardinality, Cardinality
    <3> QED BY <3>1 DEF TraceInv, MisraGries, IsCounters
  <2>2. ASSUME NEW x \in Sources
        PROVE  /\ A!QueryMisra(x) <= exact[x] /\ exact[x] <= A!Query(x)
               /\ exact[x] - A!QueryMisra(x) <= total \div K
    <3>1. A!QueryMisra(x) = D!H!Estimate(counters, x)
      BY <2>1 DEF A!QueryMisra, D!H!Estimate
    <3>2. A!Query(x) = D!C!Estimate(sketch, x)
      BY DEF A!Query, A!Sketch!Estimate, D!C!Estimate, A!Sketch!Counters, D!C!Counters
    <3>3. PICK t, c, freq, events :
             t = sketch /\ c = counters /\ freq = exact /\ events = total
      OBVIOUS
    <3>4. /\ D!H!Estimate(c, x) \in Nat /\ freq[x] \in Nat
          /\ D!H!Estimate(c, x) <= freq[x]
          /\ K * (freq[x] - D!H!Estimate(c, x)) <= events /\ events \in Nat
      BY <3>3, MisraGriesGap DEF TraceInv, MisraGries
    <3>5. D!C!Estimate(t, x) >= freq[x] /\ D!C!Estimate(t, x) \in Nat
      BY <3>3, SketchBound DEF TraceInv
    <3>6. PICK gap \in Nat : gap = freq[x] - D!H!Estimate(c, x)
      BY <3>4
    <3>7. gap <= events \div K
      BY <3>4, <3>6, QuotientBound
    <3> QED BY <3>1, <3>2, <3>3, <3>4, <3>5, <3>6, <3>7
  <2> QED BY <2>1, <2>2 DEF A!BracketsFrequency
<1> QED BY <1>1, <1>2, <1>3, PTL DEF Spec

-----------------------------------------------------------------------------
(***************************************************************************)
(* LPMTrie.  With the nodes on the way to a node in the trie as well, the  *)
(* walk of lookup gets to every prefix of the address that is there; and   *)
(* the nodes that have one are those of the prefixes inserted and not      *)
(* removed.                                                                *)
(***************************************************************************)

\* The first bits of an address.
LEMMA BitsFacts ==
    ASSUME NEW ip \in L!Addresses, NEW len \in 0..Width
    PROVE  /\ L!Bits(ip, len) \in Seq({0, 1})
           /\ Len(L!Bits(ip, len)) = len
           /\ \A i \in 1..len : L!Bits(ip, len)[i] = ip[i]
<1>1. \A i \in 1..len : ip[i] \in {0, 1}
  BY TrieAssumption DEF L!Addresses
<1>2. len \in Int /\ len >= 0
  BY TrieAssumption
<1>3. /\ SubSeq(ip, 1, len) \in Seq({0, 1})
      /\ Len(SubSeq(ip, 1, len)) = IF 1 <= len THEN len - 1 + 1 ELSE 0
      /\ \A i \in 1..(len - 1 + 1) : SubSeq(ip, 1, len)[i] = ip[1 + i - 1]
  BY <1>1, <1>2, SubSeqProperties
<1>4. Len(SubSeq(ip, 1, len)) = len
  BY <1>2, <1>3
<1>5. ASSUME NEW i \in 1..len PROVE SubSeq(ip, 1, len)[i] = ip[i]
  BY <1>2, <1>3
<1> QED BY <1>3, <1>4, <1>5 DEF L!Bits

\* Two addresses with a node in common share the way to it.
LEMMA SameBits ==
    ASSUME NEW ip \in L!Addresses, NEW jp \in L!Addresses,
           NEW d \in 0..Width, NEW e \in 0..Width, L!Bits(ip, d) = L!Bits(jp, e)
    PROVE  d = e /\ \A f \in 0..d : L!Bits(ip, f) = L!Bits(jp, f)
<1>1. d = e
  BY BitsFacts
<1>2. \A i \in 1..d : ip[i] = jp[i]
  BY <1>1, BitsFacts
<1>3. ASSUME NEW f \in 0..d PROVE L!Bits(ip, f) = L!Bits(jp, f)
  <2>1. f \in 0..Width /\ f \in Nat
    BY TrieAssumption
  <2>2. /\ L!Bits(ip, f) \in Seq({0, 1}) /\ Len(L!Bits(ip, f)) = f
        /\ \A i \in 1..f : L!Bits(ip, f)[i] = ip[i]
        /\ L!Bits(jp, f) \in Seq({0, 1}) /\ Len(L!Bits(jp, f)) = f
        /\ \A i \in 1..f : L!Bits(jp, f)[i] = jp[i]
    BY <2>1, BitsFacts
  <2>3. \A i \in 1..f : i \in 1..d
    BY <2>1, TrieAssumption
  <2>4. \A i \in 1..Len(L!Bits(ip, f)) : L!Bits(ip, f)[i] = L!Bits(jp, f)[i]
    BY <1>2, <2>2, <2>3
  <2> QED BY <2>2, <2>4, SeqEqual
<1> QED BY <1>1, <1>3

\* The way to a node that is in the trie is in it as well.
PathsAreThere ==
    \A ip \in L!Addresses, d \in 0..Width :
        L!Bits(ip, d) \in DOMAIN trie => L!Path(ip, d) \subseteq DOMAIN trie

\* The prefixes in the trie are those of the table.
PrefixesMatch ==
    /\ DOMAIN table \subseteq {p \in DOMAIN trie : trie[p].hasPrefix}
    /\ \A p \in DOMAIN trie : trie[p].hasPrefix => p \in DOMAIN table
    /\ \A p \in DOMAIN table : trie[p].label = table[p]
    /\ \A p \in DOMAIN table : \E ip \in L!Addresses, d \in 0..Width : p = L!Bits(ip, d)

TrieInv ==
    /\ PathsAreThere /\ PrefixesMatch
    /\ IsFiniteSet(DOMAIN table) /\ count = Cardinality(DOMAIN table)

\* The path to a node, and the node at its end.
LEMMA PathFacts ==
    ASSUME NEW ip \in L!Addresses, NEW d \in 0..Width
    PROVE  /\ L!Bits(ip, d) \in L!Path(ip, d)
           /\ \A p \in L!Path(ip, d) : \E e \in 0..d : e \in 0..Width /\ p = L!Bits(ip, e)
           /\ \A e \in 0..d : L!Path(ip, e) \subseteq L!Path(ip, d)
<1>1. d \in 0..d /\ \A e \in 0..d : e \in 0..Width /\ \A f \in 0..e : f \in 0..d
  BY TrieAssumption
<1> QED BY <1>1 DEF L!Path

\* Insertion adds the path, and the prefix at its end.
LEMMA InsertKeeps ==
    ASSUME TrieInv, NEW ip \in L!Addresses, NEW len \in 0..Width, NEW label,
           L!Insert(ip, len, label)
    PROVE  TrieInv'
<1>1. PICK node, grown :
         /\ node = L!Bits(ip, len)
         /\ grown = [p \in DOMAIN trie \cup L!Path(ip, len) |->
                        IF p \in DOMAIN trie THEN trie[p] ELSE L!EmptyNode]
  OBVIOUS
<1>2. /\ count' = IF grown[node].hasPrefix THEN count ELSE count + 1
      /\ trie' = [grown EXCEPT ![node] = [hasPrefix |-> TRUE, label |-> label]]
      /\ table' = [p \in DOMAIN table \cup {node} |-> IF p = node THEN label ELSE table[p]]
  BY <1>1 DEF L!Insert
<1>3. node \in L!Path(ip, len)
  BY <1>1, PathFacts
<1>4. /\ DOMAIN trie' = DOMAIN trie \cup L!Path(ip, len)
      /\ DOMAIN table' = DOMAIN table \cup {node}
  BY <1>1, <1>2
<1>5. /\ trie'[node].hasPrefix /\ trie'[node].label = label
      /\ \A p \in DOMAIN trie' : p # node =>
            trie'[p] = IF p \in DOMAIN trie THEN trie[p] ELSE L!EmptyNode
      /\ table'[node] = label
      /\ \A p \in DOMAIN table : p # node => table'[p] = table[p]
  BY <1>1, <1>2, <1>3, <1>4
<1>6. PathsAreThere'
  <2> SUFFICES ASSUME NEW jp \in L!Addresses, NEW e \in 0..Width,
                      L!Bits(jp, e) \in DOMAIN trie'
               PROVE  L!Path(jp, e) \subseteq DOMAIN trie'
    BY DEF PathsAreThere, L!Bits, L!Path
  <2>1. CASE L!Bits(jp, e) \in DOMAIN trie
    BY <1>4, <2>1 DEF TrieInv, PathsAreThere
  <2>2. CASE L!Bits(jp, e) \in L!Path(ip, len)
    <3>1. PICK d \in 0..len : d \in 0..Width /\ L!Bits(jp, e) = L!Bits(ip, d)
      BY <2>2, PathFacts
    <3>2. e = d /\ \A f \in 0..e : L!Bits(jp, f) = L!Bits(ip, f)
      BY <3>1, SameBits
    <3>3. L!Path(jp, e) = L!Path(ip, d)
      BY <3>2 DEF L!Path
    <3> QED BY <1>4, <3>1, <3>3, PathFacts
  <2> QED BY <1>4, <2>1, <2>2
<1>7. PrefixesMatch'
  <2>0. PrefixesMatch /\ ~L!EmptyNode.hasPrefix
    BY DEF TrieInv, L!EmptyNode
  <2>1. ASSUME NEW p \in DOMAIN table'
        PROVE  /\ p \in DOMAIN trie' /\ trie'[p].hasPrefix /\ trie'[p].label = table'[p]
               /\ \E jp \in L!Addresses, d \in 0..Width : p = L!Bits(jp, d)
    <3>1. CASE p = node
      BY <1>1, <1>3, <1>4, <1>5, <3>1
    <3>2. CASE p # node
      BY <1>4, <1>5, <2>0, <3>2 DEF PrefixesMatch
    <3> QED BY <3>1, <3>2
  <2>2. ASSUME NEW p \in DOMAIN trie', trie'[p].hasPrefix PROVE p \in DOMAIN table'
    <3>1. CASE p = node
      BY <1>4, <3>1
    <3>2. CASE p # node
      BY <1>4, <1>5, <2>0, <2>2, <3>2 DEF PrefixesMatch
    <3> QED BY <3>1, <3>2
  <2> QED BY <2>1, <2>2 DEF PrefixesMatch, L!Bits
<1>8. IsFiniteSet(DOMAIN table') /\ count' = Cardinality(DOMAIN table')
  <2>1. grown[node].hasPrefix <=> node \in DOMAIN table
    <3>1. CASE node \in DOMAIN trie
      <4>1. grown[node] = trie[node]
        BY <1>1, <3>1
      <4> QED BY <3>1, <4>1 DEF TrieInv, PrefixesMatch
    <3>2. CASE node \notin DOMAIN trie
      <4>1. grown[node] = L!EmptyNode
        BY <1>1, <1>3, <3>2
      <4> QED BY <3>2, <4>1 DEF TrieInv, PrefixesMatch, L!EmptyNode
    <3> QED BY <3>1, <3>2
  <2>2. /\ IsFiniteSet(DOMAIN table')
        /\ Cardinality(DOMAIN table') = IF node \in DOMAIN table THEN Cardinality(DOMAIN table)
                                        ELSE Cardinality(DOMAIN table) + 1
    BY <1>4, FS_AddElement DEF TrieInv
  <2> QED BY <1>2, <2>1, <2>2 DEF TrieInv
<1> QED BY <1>6, <1>7, <1>8 DEF TrieInv

\* Removal takes the prefix and leaves its node and those below it.
LEMMA RemoveKeeps ==
    ASSUME TrieInv, NEW ip \in L!Addresses, NEW len \in 0..Width, L!Remove(ip, len)
    PROVE  TrieInv'
<1>1. PICK node : node = L!Bits(ip, len)
  OBVIOUS
<1>2. /\ node \in DOMAIN trie /\ trie[node].hasPrefix
      /\ trie' = [trie EXCEPT ![node] = L!EmptyNode]
      /\ count' = count - 1
      /\ table' = [p \in DOMAIN table \ {node} |-> table[p]]
  BY <1>1 DEF L!Remove, L!Without, L!Restrict
<1>3. /\ DOMAIN trie' = DOMAIN trie /\ DOMAIN table' = DOMAIN table \ {node}
      /\ \A p \in DOMAIN trie : trie'[p] = IF p = node THEN L!EmptyNode ELSE trie[p]
      /\ \A p \in DOMAIN table' : table'[p] = table[p]
  BY <1>2
<1>4. PathsAreThere'
  BY <1>3 DEF TrieInv, PathsAreThere, L!Bits, L!Path
<1>5. PrefixesMatch'
  <2>0. PrefixesMatch /\ ~L!EmptyNode.hasPrefix
    BY DEF TrieInv, L!EmptyNode
  <2>1. ASSUME NEW p \in DOMAIN table'
        PROVE  /\ p \in DOMAIN trie' /\ trie'[p].hasPrefix /\ trie'[p].label = table'[p]
               /\ \E jp \in L!Addresses, d \in 0..Width : p = L!Bits(jp, d)
    <3>1. p \in DOMAIN table /\ p # node
      BY <1>3
    <3> QED BY <1>3, <2>0, <3>1 DEF PrefixesMatch
  <2>2. ASSUME NEW p \in DOMAIN trie', trie'[p].hasPrefix PROVE p \in DOMAIN table'
    <3>1. p # node
      BY <1>3, <2>0, <2>2
    <3> QED BY <1>3, <2>0, <2>2, <3>1 DEF PrefixesMatch
  <2> QED BY <2>1, <2>2 DEF PrefixesMatch, L!Bits
<1>6. node \in DOMAIN table
  BY <1>2 DEF TrieInv, PrefixesMatch
<1>7. IsFiniteSet(DOMAIN table') /\ Cardinality(DOMAIN table') = Cardinality(DOMAIN table) - 1
  BY <1>3, <1>6, FS_RemoveElement DEF TrieInv
<1> QED BY <1>2, <1>4, <1>5, <1>7 DEF TrieInv

\* A non-empty set of depths has a greatest element.
LEMMA GreatestDepth ==
    ASSUME NEW depths, depths \subseteq 0..Width, depths # {}
    PROVE  \E d \in depths : \A e \in depths : d >= e
<1>1. PICK rest : rest = {Width - d : d \in depths}
  OBVIOUS
<1>2. rest \subseteq Nat /\ rest # {}
  <2>1. ASSUME NEW d \in depths PROVE Width - d \in Nat
    <3>1. d \in 0..Width
      OBVIOUS
    <3> QED BY <3>1, TrieAssumption
  <2> QED BY <1>1, <2>1
<1>3. PICK i \in rest : \A j \in rest : i <= j
  BY <1>2, LeastNatural
<1>4. PICK d \in depths : i = Width - d
  BY <1>1
<1>5. ASSUME NEW e \in depths PROVE d >= e
  <2>1. Width - e \in rest
    BY <1>1
  <2>2. i <= Width - e
    BY <1>3, <2>1
  <2> QED BY <1>4, <2>2, TrieAssumption
<1> QED BY <1>5

\* lookup finds the longest prefix of the address that is in the table.
LEMMA LookupFinds == TrieInv => L!LookupIsLongestMatch
<1> SUFFICES ASSUME TrieInv PROVE L!LookupIsLongestMatch
  OBVIOUS
<1>1. count = L!Cardinality(DOMAIN table)
  <2>1. L!Cardinality(DOMAIN table) = Cardinality(DOMAIN table)
    BY DEF L!Cardinality, Cardinality
  <2> QED BY <2>1 DEF TrieInv
<1>2. ASSUME NEW ip \in L!Addresses
      PROVE  LET matching == {p \in DOMAIN table : p = L!Bits(ip, Len(p))} IN
             IF matching = {} THEN L!Lookup(ip) = L!NoLabel
             ELSE \E p \in matching : /\ \A q \in matching : Len(q) <= Len(p)
                                      /\ L!Lookup(ip) = table[p]
  <2> DEFINE matching == {p \in DOMAIN table : p = L!Bits(ip, Len(p))}
             found    == {d \in L!Walked(ip) : trie[L!Bits(ip, d)].hasPrefix}
  <2>1. ASSUME NEW d \in found
        PROVE  /\ d \in 0..Width /\ L!Bits(ip, d) \in matching
               /\ Len(L!Bits(ip, d)) = d
    <3>1. d \in 0..Width /\ L!Path(ip, d) \subseteq DOMAIN trie
      BY DEF L!Walked
    <3>2. L!Bits(ip, d) \in DOMAIN trie /\ Len(L!Bits(ip, d)) = d
      BY <3>1, PathFacts, BitsFacts
    <3>3. L!Bits(ip, d) \in DOMAIN table
      BY <3>2 DEF TrieInv, PrefixesMatch
    <3> QED BY <3>1, <3>2, <3>3
  <2>2. ASSUME NEW p \in matching
        PROVE  Len(p) \in found
    <3>1. PICK jp \in L!Addresses, d \in 0..Width : p = L!Bits(jp, d)
      BY DEF TrieInv, PrefixesMatch
    <3>2. Len(p) = d
      BY <3>1, BitsFacts
    <3>3. p \in DOMAIN trie /\ trie[p].hasPrefix /\ p = L!Bits(ip, d)
      BY <3>2 DEF TrieInv, PrefixesMatch
    <3>4. d \in L!Walked(ip)
      BY <3>3 DEF TrieInv, PathsAreThere, L!Walked
    <3> QED BY <3>2, <3>3, <3>4
  <2>3. L!Lookup(ip) = IF found = {} THEN L!NoLabel ELSE trie[L!Bits(ip, L!Max(found))].label
    BY DEF L!Lookup
  <2> DEFINE Longest == IF matching = {} THEN L!Lookup(ip) = L!NoLabel
                        ELSE \E p \in matching : /\ \A q \in matching : Len(q) <= Len(p)
                                                 /\ L!Lookup(ip) = table[p]
  <2>4. ASSUME found = {} PROVE Longest
    <3>1. matching = {}
      BY <2>2, <2>4
    <3> HIDE DEF matching, found
    <3> QED BY <2>3, <2>4, <3>1
  <2>5. ASSUME found # {} PROVE Longest
    <3>1. found \subseteq 0..Width
      BY DEF L!Walked
    <3> HIDE DEF matching, found
    <3>2. \E d \in found : \A e \in found : d >= e
      BY <2>5, <3>1, GreatestDepth
    <3>3. L!Max(found) \in found /\ \A e \in found : L!Max(found) >= e
      BY <3>2 DEF L!Max
    <3>4. PICK p : p = L!Bits(ip, L!Max(found))
      OBVIOUS
    <3>5. p \in matching /\ Len(p) = L!Max(found)
      BY <2>1, <3>3, <3>4
    <3>6. \A q \in matching : Len(q) <= Len(p)
      <4> SUFFICES ASSUME NEW q \in matching PROVE Len(q) <= Len(p)
        OBVIOUS
      <4>1. Len(q) \in found
        BY <2>2
      <4>2. Len(p) \in Int /\ Len(q) \in Int
        BY <3>1, <3>3, <3>5, <4>1
      <4> QED BY <3>3, <3>5, <4>1, <4>2
    <3>7. p \in DOMAIN table
      BY <3>5 DEF matching
    <3>8. L!Lookup(ip) = table[p]
      BY <2>3, <2>5, <3>4, <3>7 DEF TrieInv, PrefixesMatch
    <3> QED BY <3>5, <3>6, <3>8
  <2> QED BY <2>4, <2>5
<1> QED BY <1>1, <1>2 DEF L!LookupIsLongestMatch

\* After any insertions and removals, on addresses of any width, lookup returns
\* the label of the longest prefix that is there, and size their number.
THEOREM LookupsAreLongest == Spec => []LookupIsLongestMatch
<1> DEFINE Inv == running = "lpm_trie" => TrieInv
<1>1. Init => Inv
  <2> SUFFICES ASSUME Init PROVE TrieInv
    OBVIOUS
  <2>1. trie = [p \in {<< >>} |-> L!EmptyNode] /\ count = 0 /\ table = << >>
    BY DEF Init, L!Init
  <2>2. DOMAIN trie = {<< >>} /\ ~trie[<< >>].hasPrefix /\ DOMAIN table = {}
    BY <2>1 DEF L!EmptyNode
  <2>3. PrefixesMatch
    BY <2>2 DEF PrefixesMatch
  <2>4. PathsAreThere
    <3> SUFFICES ASSUME NEW ip \in L!Addresses, NEW d \in 0..Width,
                        L!Bits(ip, d) \in DOMAIN trie, NEW p \in L!Path(ip, d)
                 PROVE  p \in DOMAIN trie
      BY DEF PathsAreThere
    <3>1. L!Bits(ip, d) = << >> /\ Len(<< >>) = 0
      BY <2>2
    <3>2. d = 0
      BY <3>1, BitsFacts
    <3>3. p = L!Bits(ip, 0)
      BY <3>2, TrieAssumption DEF L!Path
    <3> QED BY <2>2, <3>1, <3>2, <3>3
  <2>5. IsFiniteSet(DOMAIN table) /\ count = Cardinality(DOMAIN table)
    BY <2>1, <2>2, FS_EmptySet
  <2> QED BY <2>3, <2>4, <2>5 DEF TrieInv
<1>2. Inv /\ [Next]_vars => Inv'
  <2> SUFFICES ASSUME Inv, [Next]_vars, running' = "lpm_trie" PROVE TrieInv'
    OBVIOUS
  <2>1. CASE UNCHANGED vars
    BY <2>1 DEF vars, trieVars, TrieInv, PathsAreThere, PrefixesMatch
  <2>2. CASE Next
    <3>1. running = "lpm_trie" /\ L!Next
      BY <2>2 DEF Next
    <3>2. PICK ip \in L!Addresses, len \in 0..Width :
             L!Remove(ip, len) \/ \E label \in Labels : L!Insert(ip, len, label)
      BY <3>1 DEF L!Next
    <3> QED BY <3>1, <3>2, InsertKeeps, RemoveKeeps
  <2> QED BY <2>1, <2>2
<1>3. Inv => LookupIsLongestMatch
  BY LookupFinds DEF LookupIsLongestMatch
<1> QED BY <1>1, <1>2, <1>3, PTL DEF Spec

-----------------------------------------------------------------------------
(***************************************************************************)
(* Reachability.  Both implementations keep a frontier: the distances the  *)
(* queue or the heap is going to enter next.  A host that is within reach  *)
(* and not in the result lies behind the frontier, hence what is entered   *)
(* from the nearest point of the frontier is entered with its distance.    *)
(***************************************************************************)

\* d is the length of a shortest path to h.
Shortest(es, s, h, d) ==
    /\ h \in ReachableWithin(es, s, d)
    /\ d > 0 => h \notin ReachableWithin(es, s, d - 1)

\* The call, and a result that only has final distances.
ResultOK(es, s, lim, res) ==
    /\ es \in SUBSET (Hosts \X Hosts) /\ s \in Hosts /\ lim \in Nat
    /\ res \in [Hosts -> Int]
    /\ \A h \in Hosts : res[h] # -1 => res[h] \in 0..lim /\ Shortest(es, s, h, res[h])

\* What is one hop from the result is in the result or behind the frontier.
Explored(es, s, lim, res, front) ==
    /\ res[s] # -1 \/ \E x \in front : x <= 0
    /\ \A h \in Hosts : res[h] # -1 /\ res[h] < lim =>
          \A g \in Neighbors(es, h) : res[g] # -1 \/ \E x \in front : x <= res[h] + 1

\* The instance's graph operators are those of CommGraph.
LEMMA SameGraph ==
    ASSUME NEW es, NEW s, NEW d
    PROVE  /\ R!Neighbors(es, s) = Neighbors(es, s)
           /\ R!ReachableWithin(es, s, d) = ReachableWithin(es, s, d)
           /\ R!Cardinality(es) = Cardinality(es)
<1>1. \A h : R!Neighbors(es, h) = Neighbors(es, h)
  BY DEF R!Neighbors, Neighbors
<1>2. R!ReachableWithin(es, s, d) = ReachableWithin(es, s, d)
  BY DEF R!ReachableWithin, ReachableWithin, R!Neighbors, Neighbors
<1>3. R!Cardinality(es) = Cardinality(es)
  BY DEF R!Cardinality, Cardinality
<1> QED BY <1>1, <1>2, <1>3

\* There is one shortest distance.
LEMMA ShortestIsUnique ==
    ASSUME NEW es, NEW s, NEW h, NEW d \in Nat, NEW e \in Nat,
           Shortest(es, s, h, d), h \in ReachableWithin(es, s, e)
    PROVE  d <= e
<1> SUFFICES ASSUME ~(d <= e) PROVE FALSE
  OBVIOUS
<1>1. d > 0 /\ d - 1 \in Nat /\ e <= d - 1
  OBVIOUS
<1>2. ReachableWithin(es, s, e) \subseteq ReachableWithin(es, s, d - 1)
  BY <1>1, ReachableGrows
<1> QED BY <1>1, <1>2 DEF Shortest

\* A host within reach is in the result or behind the frontier.
LEMMA BehindFrontier ==
    ASSUME NEW es, NEW s, NEW lim, NEW res, NEW front, NEW d \in Nat,
           ResultOK(es, s, lim, res), front \subseteq Int,
           Explored(es, s, lim, res, front), d <= lim,
           NEW h \in ReachableWithin(es, s, d)
    PROVE  res[h] # -1 \/ \E x \in front : x <= d
<1> DEFINE Misses(c) == \E g \in ReachableWithin(es, s, c) :
                            res[g] = -1 /\ \A x \in front : ~(x <= c)
           Bad == {c \in Nat : c <= lim /\ Misses(c)}
<1> SUFFICES ASSUME Bad # {} PROVE FALSE
  OBVIOUS
<1>1. PICK c \in Bad : \A m \in Bad : c <= m
  <2>1. Bad \subseteq Nat
    OBVIOUS
  <2> HIDE DEF Bad
  <2> QED BY <2>1, LeastNatural
<1>2. PICK g \in ReachableWithin(es, s, c) : res[g] = -1 /\ \A x \in front : ~(x <= c)
  OBVIOUS
<1>3. c # 0
  <2> SUFFICES ASSUME c = 0 PROVE FALSE
    OBVIOUS
  <2>1. g = s
    BY <1>2, ReachableSteps
  <2> QED BY <1>2, <2>1 DEF Explored
<1>4. c \in Nat /\ c - 1 \in Nat /\ (c - 1) + 1 = c /\ c - 1 < lim /\ lim \in Nat /\ ~(c <= c - 1)
  BY <1>3 DEF ResultOK
<1>5. ~Misses(c - 1)
  BY <1>1, <1>4
<1>6. \A x \in front : ~(x <= c - 1)
  BY <1>2, <1>4
<1>7. \A k \in ReachableWithin(es, s, c - 1) : res[k] # -1
  BY <1>5, <1>6
<1>8. PICK k \in ReachableWithin(es, s, c - 1) : g \in Neighbors(es, k)
  BY <1>2, <1>4, <1>7, LastHop
<1>9. k \in Hosts
  BY <1>4, <1>8, ReachableAreHosts DEF ResultOK
<1>10. res[k] \in Nat /\ Shortest(es, s, k, res[k])
  BY <1>7, <1>8, <1>9 DEF ResultOK
<1>11. res[k] <= c - 1
  BY <1>4, <1>8, <1>10, ShortestIsUnique
<1>12. PICK x \in front : x <= res[k] + 1
  BY <1>2, <1>4, <1>7, <1>8, <1>9, <1>10, <1>11 DEF Explored
<1> QED BY <1>2, <1>4, <1>10, <1>11, <1>12

\* Once the frontier is empty, the result is what was asked for.
LEMMA FoundIsReachable ==
    ASSUME NEW es, NEW s, NEW lim, NEW res,
           ResultOK(es, s, lim, res), Explored(es, s, lim, res, {})
    PROVE  {h \in Hosts : res[h] # -1} = ReachableWithin(es, s, lim)
<1>1. lim \in Nat /\ ReachableWithin(es, s, lim) \subseteq Hosts
  BY ReachableAreHosts DEF ResultOK
<1>2. \A h \in ReachableWithin(es, s, lim) : res[h] # -1
  BY <1>1, BehindFrontier
<1>3. ASSUME NEW h \in Hosts, res[h] # -1 PROVE h \in ReachableWithin(es, s, lim)
  <2>1. res[h] \in Nat /\ res[h] <= lim /\ h \in ReachableWithin(es, s, res[h])
    BY <1>3 DEF ResultOK, Shortest
  <2>2. PICK d \in Nat : d = res[h]
    BY <2>1
  <2> QED BY <1>1, <2>1, <2>2, ReachableGrows
<1> QED BY <1>1, <1>2, <1>3

\* A shortest distance is the instance's Distance.
LEMMA ShortestIsDistance ==
    ASSUME NEW h \in Hosts, NEW d \in Nat, Shortest(edges, source, h, d),
           edges \in SUBSET (Hosts \X Hosts), source \in Hosts
    PROVE  R!Distance(h) = d
<1> DEFINE Fits(e) == /\ h \in R!ReachableWithin(edges, source, e)
                      /\ e > 0 => h \notin R!ReachableWithin(edges, source, e - 1)
<1>1. R!Distance(h) = CHOOSE e \in 0..R!Cardinality(Hosts) : Fits(e)
  BY DEF R!Distance
<1>2. \A e : Fits(e) <=> Shortest(edges, source, h, e)
  BY SameGraph DEF Shortest
<1> HIDE DEF Fits
<1>3. d \in 0..R!Cardinality(Hosts)
  <2>1. d <= Cardinality(Hosts)
    BY ShortestPathsAreShort DEF Shortest
  <2>2. R!Cardinality(Hosts) = Cardinality(Hosts)
    BY SameGraph
  <2> QED BY <2>1, <2>2, HostsAssumption, FS_CardinalityType
<1>4. ASSUME NEW e \in 0..R!Cardinality(Hosts), Fits(e) PROVE e = d
  <2>1. e \in Nat /\ Shortest(edges, source, h, e)
    BY <1>2, <1>4
  <2>2. d <= e /\ e <= d
    BY <2>1, ShortestIsUnique DEF Shortest
  <2> QED BY <2>1, <2>2
<1> QED BY <1>1, <1>2, <1>3, <1>4

\* What breadth-first search keeps: the queue is sorted by distance and spans
\* at most two of them, and what has left it was expanded.
Bfs(es, s, lim, res, q) ==
    /\ ResultOK(es, s, lim, res)
    /\ q \in Seq(Hosts) /\ res[s] # -1
    /\ \A i \in 1..Len(q) : res[q[i]] # -1 /\ res[q[i]] <= res[q[1]] + 1
    /\ \A i, j \in 1..Len(q) : i <= j => res[q[i]] <= res[q[j]]
    /\ \A h \in Hosts : res[h] # -1 /\ res[h] < lim /\ (\A i \in 1..Len(q) : q[i] # h) =>
          \A g \in Neighbors(es, h) : res[g] # -1

\* The frontier of breadth-first search is one hop from the queue.
QueueFront(res, q) == {res[q[i]] + 1 : i \in 1..Len(q)}

LEMMA QueueIsFrontier ==
    ASSUME NEW es, NEW s, NEW lim, NEW res, NEW q, Bfs(es, s, lim, res, q)
    PROVE  QueueFront(res, q) \subseteq Int /\ Explored(es, s, lim, res, QueueFront(res, q))
<1>1. \A i \in 1..Len(q) : q[i] \in Hosts /\ res[q[i]] \in Int
  BY DEF Bfs, ResultOK
<1>2. QueueFront(res, q) \subseteq Int
  BY <1>1 DEF QueueFront
<1>3. ASSUME NEW h \in Hosts, res[h] # -1, res[h] < lim, NEW g \in Neighbors(es, h), res[g] = -1
      PROVE  \E x \in QueueFront(res, q) : x <= res[h] + 1
  <2>1. PICK i \in 1..Len(q) : q[i] = h
    BY <1>3 DEF Bfs
  <2>2. res[h] + 1 \in QueueFront(res, q) /\ res[h] \in Int
    BY <1>1, <2>1 DEF QueueFront
  <2> QED BY <2>2
<1> QED BY <1>2, <1>3 DEF Explored, Bfs

\* An order of a set of hosts is a sequence of all of them.
LEMMA OrdersAreComplete ==
    ASSUME NEW set \in SUBSET Hosts, NEW order \in R!SetToSeqs(set)
    PROVE  /\ order \in Seq(Hosts)
           /\ \A i \in 1..Len(order) : order[i] \in set
           /\ \A h \in set : \E i \in 1..Len(order) : order[i] = h
<1>1. PICK size : size = Cardinality(set)
  OBVIOUS
<1>2. IsFiniteSet(set) /\ size \in Nat
  BY <1>1, HostsAssumption, FS_Subset, FS_CardinalityType
<1>3. R!Cardinality(set) = size
  BY <1>1, SameGraph
<1>4. order \in [1..size -> set] /\ \A i, j \in 1..size : i # j => order[i] # order[j]
  BY <1>3 DEF R!SetToSeqs
<1>5. order \in Injection(1..size, set)
  BY <1>4 DEF Injection, IsInjective
<1>6. IsFiniteSet(1..size) /\ Cardinality(1..size) = size
  BY <1>2, FS_Interval
<1>7. order \in Surjection(1..size, set)
  BY <1>1, <1>2, <1>5, <1>6, FS_Injection
<1>8. order \in Seq(set) /\ Len(order) = size
  BY <1>2, <1>4
<1>9. \A h \in set : \E i \in 1..size : order[i] = h
  BY <1>7 DEF Surjection
<1> QED BY <1>4, <1>8, <1>9

\* One turn of the loop expands u: res2 and q2 are result and queue after it.
Expanded(es, lim, res, q, u, new, order, res2, q2) ==
    /\ q # << >> /\ u = Head(q)
    /\ new = IF res[u] >= lim THEN {} ELSE {v \in Neighbors(es, u) : res[v] = -1}
    /\ order \in R!SetToSeqs(new)
    /\ res2 = [h \in Hosts |-> IF h \in new THEN res[u] + 1 ELSE res[h]]
    /\ q2 = Tail(q) \o order

LEMMA BfsKeeps ==
    ASSUME NEW es, NEW s, NEW lim, NEW res, NEW q, NEW u, NEW new, NEW order, NEW res2, NEW q2,
           Bfs(es, s, lim, res, q), Expanded(es, lim, res, q, u, new, order, res2, q2)
    PROVE  Bfs(es, s, lim, res2, q2)
<1>1. /\ q \in Seq(Hosts) /\ Len(q) \in Nat /\ Len(q) >= 1 /\ u = q[1] /\ u \in Hosts
      /\ lim \in Nat /\ res \in [Hosts -> Int] /\ s \in Hosts /\ es \in SUBSET (Hosts \X Hosts)
  BY DEF Bfs, ResultOK, Expanded
<1>2. res[u] \in 0..lim /\ res[u] # -1 /\ u \in ReachableWithin(es, s, res[u])
  BY <1>1 DEF Bfs, ResultOK, Shortest
<1>3. new \subseteq Hosts /\ (\A h \in new : res[h] = -1) /\ (new # {} => res[u] < lim)
  BY <1>1, <1>2, NeighboursAreHosts DEF Expanded
<1>4. /\ order \in Seq(Hosts)
      /\ \A i \in 1..Len(order) : order[i] \in new
      /\ \A h \in new : \E i \in 1..Len(order) : order[i] = h
  BY <1>3, OrdersAreComplete DEF Expanded
<1>5. PICK m \in Nat : m = Len(q) - 1
  <2>1. Len(q) - 1 \in Nat
    BY <1>1
  <2> QED BY <2>1
<1>6. /\ q2 \in Seq(Hosts) /\ Len(q2) = m + Len(order) /\ Len(order) \in Nat
      /\ \A i \in 1..m : q2[i] = q[i + 1]
      /\ \A i \in 1..Len(order) : q2[m + i] = order[i]
  <2>1. PICK t : t = Tail(q)
    OBVIOUS
  <2>2. t \in Seq(Hosts) /\ Len(t) = m /\ \A i \in 1..m : t[i] = q[i + 1]
    BY <1>1, <1>5, <2>1
  <2>3. q2 = t \o order
    BY <2>1 DEF Expanded
  <2>4. q2 \in Seq(Hosts) /\ Len(q2) = m + Len(order) /\ Len(order) \in Nat
    <3>1. q2 \in Seq(Hosts) /\ Len(q2) = Len(t) + Len(order)
      BY <1>4, <2>2, <2>3, ConcatProperties
    <3>2. Len(order) \in Nat
      BY <1>4, LenProperties
    <3> QED BY <2>2, <3>1, <3>2
  <2>5. \A i \in 1..(m + Len(order)) : q2[i] = IF i <= m THEN t[i] ELSE order[i - m]
    BY <1>4, <2>2, <2>3, ConcatProperties
  <2>6. \A i \in 1..m : q2[i] = t[i]
    BY <2>4, <2>5
  <2>7. ASSUME NEW i \in 1..Len(order) PROVE q2[m + i] = order[i]
    <3>1. m + i \in 1..(m + Len(order)) /\ ~(m + i <= m) /\ (m + i) - m = i
      BY <2>4
    <3> QED BY <2>5, <3>1
  <2> QED BY <2>2, <2>4, <2>6, <2>7
<1>7. ASSUME NEW i \in 1..Len(q2)
      PROVE  \/ /\ i \in 1..m /\ i + 1 \in 1..Len(q) /\ q2[i] = q[i + 1]
                /\ res2[q2[i]] = res[q[i + 1]] /\ res[q[i + 1]] # -1
             \/ i > m /\ q2[i] \in new /\ res2[q2[i]] = res[u] + 1
  <2>1. CASE i <= m
    <3>1. i \in 1..m /\ i + 1 \in 1..Len(q) /\ q2[i] = q[i + 1]
      BY <1>1, <1>5, <1>6, <2>1
    <3>2. res[q[i + 1]] # -1 /\ q[i + 1] \in Hosts
      BY <1>1, <3>1 DEF Bfs
    <3> QED BY <1>3, <3>1, <3>2 DEF Expanded
  <2>2. CASE i > m
    <3>1. PICK j \in 1..Len(order) : i = m + j
      <4>1. i - m \in 1..Len(order) /\ i = m + (i - m)
        BY <1>6, <2>2
      <4> QED BY <4>1
    <3>2. q2[i] = order[j] /\ order[j] \in new
      BY <1>4, <1>6, <3>1
    <3> QED BY <1>3, <2>2, <3>2 DEF Expanded
  <2> QED BY <1>6, <2>1, <2>2
<1>8. \A i \in 1..Len(q) : /\ res[q[i]] \in Int /\ res[q[i]] # -1
                           /\ res[u] <= res[q[i]] /\ res[q[i]] <= res[u] + 1
  BY <1>1 DEF Bfs
<1>9. \A i \in 1..m : i + 1 \in 1..Len(q) /\ res2[q2[i]] = res[q[i + 1]]
  <2> SUFFICES ASSUME NEW i \in 1..m
               PROVE  i + 1 \in 1..Len(q) /\ res2[q2[i]] = res[q[i + 1]]
    OBVIOUS
  <2>1. i \in 1..Len(q2) /\ ~(i > m)
    BY <1>6
  <2> QED BY <1>7, <2>1
<1>10. \A i \in 1..Len(q2) : i \notin 1..m => res2[q2[i]] = res[u] + 1
  BY <1>7
<1>11. ASSUME NEW i \in 1..Len(q2)
       PROVE  /\ res2[q2[i]] \in Int /\ res2[q2[i]] # -1
              /\ res[u] <= res2[q2[i]] /\ res2[q2[i]] <= res[u] + 1
  <2>1. CASE i \in 1..m
    BY <1>8, <1>9, <2>1
  <2>2. CASE i \notin 1..m
    <3>1. res2[q2[i]] = res[u] + 1
      BY <1>10, <2>2
    <3>2. PICK d \in Nat : d = res[u]
      BY <1>1, <1>2
    <3>3. d + 1 \in Int /\ d + 1 # -1 /\ d <= d + 1
      OBVIOUS
    <3> QED BY <3>1, <3>2, <3>3
  <2> QED BY <2>1, <2>2
<1>12. ResultOK(es, s, lim, res2)
  <2>1. res2 \in [Hosts -> Int]
    BY <1>1, <1>2 DEF Expanded
  <2>2. ASSUME NEW h \in Hosts, res2[h] # -1
        PROVE  res2[h] \in 0..lim /\ Shortest(es, s, h, res2[h])
    <3>1. CASE h \notin new
      BY <2>2, <3>1 DEF Bfs, ResultOK, Expanded
    <3>2. CASE h \in new
      <4>1. PICK d \in Nat : d = res[u]
        BY <1>2
      <4>2. res2[h] = d + 1 /\ d < lim /\ h \in Neighbors(es, u)
        BY <1>3, <3>2, <4>1 DEF Expanded
      <4>3. h \in ReachableWithin(es, s, d + 1)
        BY <1>2, <4>1, <4>2, NeighbourIsReachable
      <4>4. h \notin ReachableWithin(es, s, d)
        <5>1. \A x \in QueueFront(res, q) : ~(x <= d)
          BY <1>8, <4>1 DEF QueueFront
        <5>2. ResultOK(es, s, lim, res) /\ d <= lim
          BY <1>1, <4>2 DEF Bfs
        <5>3. QueueFront(res, q) \subseteq Int /\ Explored(es, s, lim, res, QueueFront(res, q))
          BY QueueIsFrontier
        <5> QED BY <1>3, <3>2, <5>1, <5>2, <5>3, BehindFrontier
      <4>5. (d + 1) - 1 = d /\ d + 1 \in 0..lim
        BY <1>1, <4>2
      <4> QED BY <4>2, <4>3, <4>4, <4>5 DEF Shortest
    <3> QED BY <3>1, <3>2
  <2> QED BY <1>1, <2>1, <2>2 DEF ResultOK
<1>13. res2[s] # -1
  BY <1>1, <1>2 DEF Bfs, Expanded
<1>14. ASSUME NEW i \in 1..Len(q2), NEW j \in 1..Len(q2), i <= j
       PROVE  res2[q2[i]] <= res2[q2[j]]
  <2>1. CASE j \in 1..m
    <3>1. i \in 1..m
      BY <1>14, <2>1
    <3>2. /\ i + 1 \in 1..Len(q) /\ res2[q2[i]] = res[q[i + 1]]
          /\ j + 1 \in 1..Len(q) /\ res2[q2[j]] = res[q[j + 1]]
      BY <1>9, <2>1, <3>1
    <3>3. i + 1 <= j + 1
      BY <1>14
    <3> QED BY <3>2, <3>3 DEF Bfs
  <2>2. CASE j \notin 1..m
    <3>1. res2[q2[j]] = res[u] + 1
      BY <1>10, <2>2
    <3> QED BY <1>11, <3>1
  <2> QED BY <2>1, <2>2
<1>15. ASSUME NEW i \in 1..Len(q2)
       PROVE  res2[q2[i]] # -1 /\ res2[q2[i]] <= res2[q2[1]] + 1
  <2>1. 1 \in 1..Len(q2)
    BY <1>6
  <2>2. /\ res2[q2[1]] \in Int /\ res[u] <= res2[q2[1]]
        /\ res2[q2[i]] \in Int /\ res2[q2[i]] <= res[u] + 1 /\ res2[q2[i]] # -1
    BY <1>11, <2>1
  <2>3. PICK d \in Int, a \in Int, b \in Int : d = res[u] /\ a = res2[q2[1]] /\ b = res2[q2[i]]
    BY <1>1, <1>2, <2>2
  <2>4. b <= a + 1
    BY <2>2, <2>3
  <2> QED BY <2>2, <2>3, <2>4
<1>16. ASSUME NEW h \in Hosts, res2[h] # -1, res2[h] < lim, \A i \in 1..Len(q2) : q2[i] # h,
              NEW g \in Neighbors(es, h)
       PROVE  res2[g] # -1
  <2>1. h \notin new
    <3> SUFFICES ASSUME h \in new PROVE FALSE
      OBVIOUS
    <3>1. PICK i \in 1..Len(order) : order[i] = h
      BY <1>4
    <3>2. m + i \in 1..Len(q2) /\ q2[m + i] = h
      BY <1>6, <3>1
    <3> QED BY <1>16, <3>2
  <2>2. res[h] # -1 /\ res[h] < lim /\ res2[h] = res[h]
    BY <1>16, <2>1 DEF Expanded
  <2>3. g \in Hosts /\ (res[g] # -1 => res2[g] # -1)
    BY <1>1, <1>2, NeighboursAreHosts DEF Expanded
  <2>4. CASE h = u
    <3>1. res[g] = -1 => g \in new
      BY <1>1, <1>2, <1>16, <2>2, <2>4 DEF Expanded
    <3>2. g \in new => res2[g] # -1
      BY <1>2, <2>3 DEF Expanded
    <3> QED BY <2>3, <3>1, <3>2
  <2>5. CASE h # u
    <3>1. ASSUME NEW i \in 1..Len(q) PROVE q[i] # h
      <4>1. CASE i = 1
        BY <1>1, <2>5, <4>1
      <4>2. CASE i # 1
        <5>1. i - 1 \in 1..m /\ (i - 1) + 1 = i /\ i - 1 \in 1..Len(q2)
          BY <1>5, <1>6, <4>2
        <5>2. q2[i - 1] = q[i]
          BY <1>6, <5>1
        <5> QED BY <1>16, <5>1, <5>2
      <4> QED BY <4>1, <4>2
    <3>2. res[g] # -1
      BY <1>16, <2>2, <3>1 DEF Bfs
    <3> QED BY <2>3, <3>2
  <2> QED BY <2>4, <2>5
<1> QED BY <1>6, <1>12, <1>13, <1>14, <1>15, <1>16 DEF Bfs

\* What Dijkstra's algorithm keeps: an entry of the heap is the end of a path
\* within the limit, and a neighbour of the result is in the result or has its entry.
Dijkstra(es, s, lim, res, hp) ==
    /\ ResultOK(es, s, lim, res)
    /\ \A e \in hp : /\ e[1] \in Nat /\ e[1] <= lim /\ e[2] \in Hosts
                     /\ e[2] \in ReachableWithin(es, s, e[1])
    /\ res[s] # -1 \/ <<0, s>> \in hp
    /\ \A h \in Hosts : res[h] # -1 /\ res[h] < lim =>
          \A g \in Neighbors(es, h) : res[g] # -1 \/ <<res[h] + 1, g>> \in hp

HeapFront(hp) == {e[1] : e \in hp}

LEMMA HeapIsFrontier ==
    ASSUME NEW es, NEW s, NEW lim, NEW res, NEW hp, Dijkstra(es, s, lim, res, hp)
    PROVE  HeapFront(hp) \subseteq Int /\ Explored(es, s, lim, res, HeapFront(hp))
<1>1. HeapFront(hp) \subseteq Int
  BY DEF HeapFront, Dijkstra
<1>2. res[s] # -1 \/ \E x \in HeapFront(hp) : x <= 0
  <2> SUFFICES ASSUME <<0, s>> \in hp PROVE \E x \in HeapFront(hp) : x <= 0
    BY DEF Dijkstra
  <2>1. 0 \in HeapFront(hp)
    BY DEF HeapFront
  <2> QED BY <2>1
<1>3. ASSUME NEW h \in Hosts, res[h] # -1, res[h] < lim, NEW g \in Neighbors(es, h), res[g] = -1
      PROVE  \E x \in HeapFront(hp) : x <= res[h] + 1
  <2>1. <<res[h] + 1, g>> \in hp
    BY <1>3 DEF Dijkstra
  <2>2. res[h] \in Int /\ res[h] + 1 \in HeapFront(hp)
    BY <2>1 DEF HeapFront, Dijkstra, ResultOK
  <2> QED BY <2>2
<1> QED BY <1>1, <1>2, <1>3 DEF Explored

\* A stale entry is dropped.
LEMMA DijkstraSkips ==
    ASSUME NEW es, NEW s, NEW lim, NEW res, NEW hp, NEW top \in hp, res[top[2]] # -1,
           Dijkstra(es, s, lim, res, hp)
    PROVE  Dijkstra(es, s, lim, res, hp \ {top})
<1>1. <<0, s>> = top => res[s] # -1
  OBVIOUS
<1>2. \A d, g : <<d, g>> = top => res[g] # -1
  OBVIOUS
<1> QED BY <1>1, <1>2 DEF Dijkstra

\* The nearest entry is entered in the result, and its neighbours in the heap.
Settles(es, lim, res, hp, top, res2, hp2) ==
    /\ top \in hp /\ (\A e \in hp : top[1] <= e[1]) /\ res[top[2]] = -1
    /\ res2 = [res EXCEPT ![top[2]] = top[1]]
    /\ \A e : e \in hp2 <=>
          \/ e \in hp /\ e # top
          \/ \E v \in Neighbors(es, top[2]) :
                res2[v] = -1 /\ top[1] + 1 <= lim /\ e = <<top[1] + 1, v>>

LEMMA DijkstraKeeps ==
    ASSUME NEW es, NEW s, NEW lim, NEW res, NEW hp, NEW top, NEW res2, NEW hp2,
           Dijkstra(es, s, lim, res, hp), Settles(es, lim, res, hp, top, res2, hp2)
    PROVE  Dijkstra(es, s, lim, res2, hp2)
<1>1. PICK d, u : d = top[1] /\ u = top[2]
  OBVIOUS
<1>2. /\ d \in Nat /\ d <= lim /\ u \in Hosts /\ u \in ReachableWithin(es, s, d)
      /\ lim \in Nat /\ res \in [Hosts -> Int] /\ s \in Hosts /\ es \in SUBSET (Hosts \X Hosts)
  BY <1>1 DEF Dijkstra, ResultOK, Settles
<1>3. res2 = [res EXCEPT ![u] = d] /\ res2 \in [Hosts -> Int] /\ res2[u] = d
      /\ \A h \in Hosts : h # u => res2[h] = res[h]
  BY <1>1, <1>2 DEF Settles
<1>4. d # -1 /\ d + 1 \in Nat
  BY <1>2
<1>5. Shortest(es, s, u, d)
  <2> SUFFICES ASSUME d > 0, u \in ReachableWithin(es, s, d - 1) PROVE FALSE
    BY <1>2 DEF Shortest
  <2>1. d - 1 \in Nat /\ d - 1 <= lim
    BY <1>2
  <2>2. ResultOK(es, s, lim, res) /\ HeapFront(hp) \subseteq Int
        /\ Explored(es, s, lim, res, HeapFront(hp))
    BY HeapIsFrontier DEF Dijkstra
  <2>3. PICK x \in HeapFront(hp) : x <= d - 1
    BY <1>1, <2>1, <2>2, BehindFrontier DEF Settles
  <2>4. d <= x /\ x \in Int
    BY <1>1, <2>2 DEF HeapFront, Settles
  <2> QED BY <1>2, <2>3, <2>4
<1>6. ResultOK(es, s, lim, res2)
  <2>1. ASSUME NEW h \in Hosts, res2[h] # -1
        PROVE  res2[h] \in 0..lim /\ Shortest(es, s, h, res2[h])
    <3>1. CASE h = u
      BY <1>2, <1>3, <1>5, <3>1
    <3>2. CASE h # u
      BY <1>3, <2>1, <3>2 DEF Dijkstra, ResultOK
    <3> QED BY <3>1, <3>2
  <2> QED BY <1>2, <1>3, <2>1 DEF ResultOK
<1>7. ASSUME NEW e \in hp2
      PROVE  e[1] \in Nat /\ e[1] <= lim /\ e[2] \in Hosts /\ e[2] \in ReachableWithin(es, s, e[1])
  <2>1. CASE e \in hp
    BY <2>1 DEF Dijkstra
  <2>2. CASE e \notin hp
    <3>1. PICK v \in Neighbors(es, u) : d + 1 <= lim /\ e = <<d + 1, v>>
      BY <1>1, <2>2 DEF Settles
    <3>2. v \in ReachableWithin(es, s, d + 1) /\ v \in Hosts
      BY <1>2, <3>1, NeighbourIsReachable, NeighboursAreHosts
    <3> QED BY <1>4, <3>1, <3>2
  <2> QED BY <2>1, <2>2
<1>8. ASSUME NEW e \in hp, res2[e[2]] = -1 PROVE e \in hp2
  <2>1. e # top
    BY <1>1, <1>3, <1>4, <1>8
  <2> QED BY <1>8, <2>1 DEF Settles
<1>9. res2[s] # -1 \/ <<0, s>> \in hp2
  <2>1. res[s] # -1 => res2[s] # -1
    BY <1>2, <1>3, <1>4
  <2>2. <<0, s>> \in hp /\ res2[s] = -1 => <<0, s>> \in hp2
    BY <1>8
  <2> QED BY <2>1, <2>2 DEF Dijkstra
<1>10. ASSUME NEW h \in Hosts, res2[h] # -1, res2[h] < lim, NEW g \in Neighbors(es, h), res2[g] = -1
       PROVE  <<res2[h] + 1, g>> \in hp2
  <2>1. CASE h = u
    <3>1. d + 1 <= lim
      BY <1>2, <1>3, <1>10, <2>1
    <3> QED BY <1>1, <1>3, <1>10, <2>1, <3>1 DEF Settles
  <2>2. CASE h # u
    <3>1. g \in Hosts /\ g # u /\ res[g] = -1
      BY <1>2, <1>3, <1>4, <1>10, NeighboursAreHosts
    <3>2. res2[h] = res[h]
      BY <1>3, <2>2
    <3>3. <<res[h] + 1, g>> \in hp
      BY <1>10, <3>1, <3>2 DEF Dijkstra
    <3> QED BY <1>8, <1>10, <3>2, <3>3
  <2> QED BY <2>1, <2>2
<1> QED BY <1>6, <1>7, <1>9, <1>10 DEF Dijkstra

\* Queue or heap, whichever the running implementation has.
ReachInv ==
    \/ heap = {} /\ Bfs(edges, source, maxHops, result, queue)
    \/ queue = << >> /\ Dijkstra(edges, source, maxHops, result, heap)

LEMMA ReachStart == R!Init => ReachInv
<1> SUFFICES ASSUME R!Init PROVE ReachInv
  OBVIOUS
<1>1. /\ edges \in SUBSET (Hosts \X Hosts) /\ source \in Hosts /\ maxHops \in Nat
      /\ algorithm \in {"bfs", "dijkstra"}
      /\ result = [h \in Hosts |-> IF algorithm = "bfs" /\ h = source THEN 0 ELSE -1]
      /\ queue = IF algorithm = "bfs" THEN <<source>> ELSE << >>
      /\ heap = IF algorithm = "bfs" THEN {} ELSE {<<0, source>>}
  BY HopsAssumption DEF R!Init, R!Unseen, AllEdges
<1>2. source \in ReachableWithin(edges, source, 0)
  BY ReachableSteps
<1>3. ResultOK(edges, source, maxHops, result)
  BY <1>1, <1>2 DEF ResultOK, Shortest
<1>4. CASE algorithm = "bfs"
  <2>1. queue \in Seq(Hosts) /\ Len(queue) = 1 /\ queue[1] = source /\ heap = {}
    BY <1>1, <1>4
  <2>2. result[source] = 0 /\ \A h \in Hosts : h # source => result[h] = -1
    BY <1>1, <1>4
  <2>3. Bfs(edges, source, maxHops, result, queue)
    BY <1>1, <1>3, <2>1, <2>2 DEF Bfs
  <2> QED BY <2>1, <2>3 DEF ReachInv
<1>5. CASE algorithm = "dijkstra"
  <2>1. queue = << >> /\ heap = {<<0, source>>} /\ \A h \in Hosts : result[h] = -1
    BY <1>1, <1>5
  <2>2. Dijkstra(edges, source, maxHops, result, heap)
    BY <1>1, <1>2, <1>3, <2>1 DEF Dijkstra
  <2> QED BY <2>1, <2>2 DEF ReachInv
<1> QED BY <1>1, <1>4, <1>5

LEMMA ReachStep ==
    ASSUME ReachInv, R!Next
    PROVE  ReachInv'
<1>1. CASE heap = {} /\ Bfs(edges, source, maxHops, result, queue)
  <2>1. R!BfsTurn
    BY <1>1 DEF R!Next, R!DijkstraTurn
  <2>2. PICK u, new, order :
           /\ queue # << >> /\ u = Head(queue)
           /\ new = IF result[u] >= maxHops THEN {} ELSE R!Discovered(u)
           /\ order \in R!SetToSeqs(new)
           /\ result' = [h \in Hosts |-> IF h \in new THEN result[u] + 1 ELSE result[h]]
           /\ queue' = Tail(queue) \o order
    BY <2>1 DEF R!BfsTurn
  <2>3. R!Discovered(u) = {v \in Neighbors(edges, u) : result[v] = -1}
    <3>1. R!Neighbors(edges, u) = Neighbors(edges, u)
      BY SameGraph
    <3> QED BY <3>1 DEF R!Discovered, R!Found, R!Unseen
  <2>4. Expanded(edges, maxHops, result, queue, u, new, order, result', queue')
    BY <2>2, <2>3 DEF Expanded
  <2>5. PICK es, s, lim, res, q, res2, q2 :
           /\ es = edges /\ s = source /\ lim = maxHops /\ res = result /\ q = queue
           /\ res2 = result' /\ q2 = queue'
    OBVIOUS
  <2>6. Bfs(es, s, lim, res2, q2)
    BY <1>1, <2>4, <2>5, BfsKeeps
  <2>7. edges' = edges /\ source' = source /\ maxHops' = maxHops /\ heap' = heap
    BY <2>1 DEF R!BfsTurn, R!call
  <2> QED BY <1>1, <2>5, <2>6, <2>7 DEF ReachInv
<1>2. CASE queue = << >> /\ Dijkstra(edges, source, maxHops, result, heap)
  <2>1. R!DijkstraTurn
    BY <1>2 DEF R!Next, R!BfsTurn
  <2>2. edges' = edges /\ source' = source /\ maxHops' = maxHops /\ queue' = queue
    BY <2>1 DEF R!DijkstraTurn, R!call
  <2>3. PICK top \in heap :
           /\ \A e \in heap : top[1] <= e[1]
           /\ IF top[1] > maxHops THEN heap' = {} /\ result' = result
              ELSE IF result[top[2]] # -1 THEN heap' = heap \ {top} /\ result' = result
              ELSE /\ result' = [result EXCEPT ![top[2]] = top[1]]
                   /\ heap' = (heap \ {top}) \cup
                         {<<top[1] + 1, v>> : v \in {w \in R!Neighbors(edges, top[2]) :
                                                  result'[w] = -1 /\ top[1] + 1 <= maxHops}}
    BY <2>1 DEF R!DijkstraTurn, R!Found, R!Unseen, R!Reaches
  <2>4. ~(top[1] > maxHops)
    BY <1>2 DEF Dijkstra, ResultOK
  <2>5. PICK es, s, lim, res, hp, res2, hp2 :
           /\ es = edges /\ s = source /\ lim = maxHops /\ res = result /\ hp = heap
           /\ res2 = result' /\ hp2 = heap'
    OBVIOUS
  <2>6. Dijkstra(es, s, lim, res2, hp2)
    <3>1. CASE res[top[2]] # -1
      <4>1. res2 = res /\ hp2 = hp \ {top}
        BY <2>3, <2>4, <2>5, <3>1
      <4> QED BY <1>2, <2>5, <3>1, <4>1, DijkstraSkips
    <3>2. CASE res[top[2]] = -1
      <4>1. R!Neighbors(es, top[2]) = Neighbors(es, top[2])
        BY SameGraph
      <4>2. /\ res2 = [res EXCEPT ![top[2]] = top[1]]
            /\ hp2 = (hp \ {top}) \cup
                  {<<top[1] + 1, v>> : v \in {w \in Neighbors(es, top[2]) :
                                           res2[w] = -1 /\ top[1] + 1 <= lim}}
        BY <2>3, <2>4, <2>5, <3>2, <4>1
      <4>3. \A e : e \in hp2 <=>
               \/ e \in hp /\ e # top
               \/ \E v \in Neighbors(es, top[2]) :
                     res2[v] = -1 /\ top[1] + 1 <= lim /\ e = <<top[1] + 1, v>>
        BY <4>2
      <4>4. Dijkstra(es, s, lim, res, hp) /\ top \in hp /\ \A e \in hp : top[1] <= e[1]
        BY <1>2, <2>3, <2>5
      <4>5. Settles(es, lim, res, hp, top, res2, hp2)
        BY <3>2, <4>2, <4>3, <4>4 DEF Settles
      <4> QED BY <4>4, <4>5, DijkstraKeeps
    <3> QED BY <3>1, <3>2
  <2> QED BY <1>2, <2>2, <2>5, <2>6 DEF ReachInv
<1> QED BY <1>1, <1>2 DEF ReachInv

\* The invariant says what the caller relies on.
LEMMA ReachFinds == ReachInv => R!FindsNeighbourhood
<1> SUFFICES ASSUME ReachInv PROVE R!FindsNeighbourhood
  OBVIOUS
<1>1. ResultOK(edges, source, maxHops, result)
  BY DEF ReachInv, Bfs, Dijkstra
<1>2. ASSUME NEW h \in Hosts, R!Found(h) PROVE result[h] <= maxHops /\ result[h] = R!Distance(h)
  <2>1. PICK d : d = result[h]
    OBVIOUS
  <2>2. /\ d \in Nat /\ d <= maxHops /\ Shortest(edges, source, h, d)
        /\ edges \in SUBSET (Hosts \X Hosts) /\ source \in Hosts
    BY <1>1, <1>2, <2>1 DEF ResultOK, R!Found, R!Unseen
  <2>3. R!Distance(h) = d
    BY <2>2, ShortestIsDistance
  <2> QED BY <2>1, <2>2, <2>3
<1>3. ASSUME R!Done
      PROVE  {h \in Hosts : R!Found(h)} = R!ReachableWithin(edges, source, maxHops)
  <2>1. queue = << >> /\ heap = {}
    BY <1>3 DEF R!Done
  <2>2. QueueFront(result, queue) = {} /\ HeapFront(heap) = {}
    BY <2>1 DEF QueueFront, HeapFront
  <2>3. PICK es, s, lim, res : es = edges /\ s = source /\ lim = maxHops /\ res = result
    OBVIOUS
  <2>4. Explored(es, s, lim, res, {})
    <3>1. CASE Bfs(es, s, lim, res, << >>)
      <4>1. QueueFront(res, << >>) = {}
        BY DEF QueueFront
      <4> QED BY <3>1, <4>1, QueueIsFrontier
    <3>2. CASE Dijkstra(es, s, lim, res, {})
      <4>1. HeapFront({}) = {}
        BY DEF HeapFront
      <4> QED BY <3>2, <4>1, HeapIsFrontier
    <3> QED BY <2>1, <2>3, <3>1, <3>2 DEF ReachInv
  <2>5. {h \in Hosts : res[h] # -1} = ReachableWithin(es, s, lim)
    BY <1>1, <2>3, <2>4, FoundIsReachable
  <2>6. {h \in Hosts : R!Found(h)} = {h \in Hosts : res[h] # -1}
    BY <2>3 DEF R!Found, R!Unseen
  <2>7. R!ReachableWithin(es, s, lim) = ReachableWithin(es, s, lim)
    BY SameGraph
  <2> QED BY <2>3, <2>5, <2>6, <2>7
<1> QED BY <1>2, <1>3 DEF R!FindsNeighbourhood

(***************************************************************************)
(* Breadth-first search and Dijkstra's algorithm enter a host in their     *)
(* result with its shortest distance only, and end with exactly the hosts  *)
(* within max_hops: on every graph, for every limit and whatever the order *)
(* in which neighbours come up.                                            *)
(***************************************************************************)
THEOREM NeighbourhoodIsFound == Spec => []FindsNeighbourhood
<1> DEFINE Inv == running = "reachable_within" => ReachInv
<1>1. Init => Inv
  <2> SUFFICES ASSUME Init, running = "reachable_within" PROVE R!Init
    BY ReachStart
  <2> QED BY DEF Init
<1>2. Inv /\ [Next]_vars => Inv'
  <2> SUFFICES ASSUME Inv, [Next]_vars, running' = "reachable_within" PROVE ReachInv'
    OBVIOUS
  <2>1. CASE UNCHANGED vars
    BY <2>1 DEF vars, searchVars, graphVars, reachVars, ReachInv
  <2>2. CASE Next
    <3>1. running = "reachable_within" /\ R!Next
      BY <2>2 DEF Next
    <3> QED BY <3>1, ReachStep
  <2> QED BY <2>1, <2>2
<1>3. Inv => FindsNeighbourhood
  BY ReachFinds DEF FindsNeighbourhood
<1> QED BY <1>1, <1>2, <1>3, PTL DEF Spec

-----------------------------------------------------------------------------
(***************************************************************************)
(* The handler chain.  Each handler is a bookkeeper of its own: what it    *)
(* has delivered are the alerts it was offered without those it missed.    *)
(***************************************************************************)

IsSeq(s) == \E set : s \in Seq(set)

\* o are the first upto alerts without those in gaps, in order and once each.
HandedOver(o, gaps, said, upto) ==
    \E order \in [1..Cardinality((1..upto) \ gaps) -> (1..upto) \ gaps] :
        /\ \A j, k \in DOMAIN order : j < k => order[j] < order[k]
        /\ o = [k \in DOMAIN order |-> said[order[k]]]

\* The alerts handler i has been offered before handler turn is called.
OfferedBefore(turn, said, i) == IF turn > 0 /\ i >= turn THEN Len(said) - 1 ELSE Len(said)

BeforeLoop == {"loading", "algorithms", "source", "handlers"}

ChainInv ==
    /\ IsSeq(chain) /\ IsSeq(sent) /\ next \in Nat /\ healthy \subseteq Nat \ {0}
    /\ IsSeq(out) /\ Len(out) = Len(chain) /\ IsSeq(missed) /\ Len(missed) = Len(chain)
    /\ phase \in BeforeLoop => Len(sent) = 0 /\ next = 0
    /\ next > 0 => phase = "running" /\ Len(sent) >= 1
    /\ alertsCount = IF next = 0 THEN Len(sent) ELSE Len(sent) - 1
    /\ stats # -1 => phase = "exit 0" /\ stats = Len(sent)
    /\ \A i \in 1..Len(chain) :
          /\ missed[i] \subseteq 1..OfferedBefore(next, sent, i)
          /\ HandedOver(out[i], missed[i], sent, OfferedBefore(next, sent, i))

\* A handler that has been offered nothing has delivered nothing.
LEMMA NothingHandedOver ==
    ASSUME NEW said
    PROVE  HandedOver(<< >>, {}, said, 0)
<1>1. (1..0) \ {} = {} /\ Cardinality({}) = 0
  BY FS_EmptySet
<1>2. << >> \in [1..0 -> {}] /\ DOMAIN << >> = 1..0
  OBVIOUS
<1>3. << >> = [k \in 1..0 |-> said[<< >>[k]]]
  OBVIOUS
<1> QED BY <1>1, <1>2, <1>3 DEF HandedOver

\* A handler delivers the alert it is offered.
LEMMA HandOverOne ==
    ASSUME NEW o, NEW gaps, NEW said, NEW upto \in Nat, gaps \subseteq 1..upto,
           HandedOver(o, gaps, said, upto)
    PROVE  HandedOver(Append(o, said[upto + 1]), gaps, said, upto + 1)
<1> DEFINE got  == (1..upto) \ gaps
           got2 == (1..(upto + 1)) \ gaps
<1>1. PICK order \in [1..Cardinality(got) -> got] :
         /\ \A j, k \in DOMAIN order : j < k => order[j] < order[k]
         /\ o = [k \in DOMAIN order |-> said[order[k]]]
  BY DEF HandedOver
<1>2. IsFiniteSet(1..upto)
  BY FS_Interval
<1>3. IsFiniteSet(got)
  BY <1>2, FS_Subset
<1>4. got2 = got \cup {upto + 1} /\ upto + 1 \notin got
  OBVIOUS
<1>5. PICK c \in Nat : c = Cardinality(got)
  BY <1>3, FS_CardinalityType
<1>6. Cardinality(got2) = c + 1
  BY <1>3, <1>4, <1>5, FS_AddElement
<1>7. \A x \in got : x \in Nat /\ x < upto + 1
  OBVIOUS
<1> HIDE DEF got
<1>8. PICK more : more = [k \in 1..(c + 1) |-> IF k = c + 1 THEN upto + 1 ELSE order[k]]
  OBVIOUS
<1>9. more \in [1..(c + 1) -> got2]
  <2> SUFFICES ASSUME NEW k \in 1..(c + 1) PROVE more[k] \in got \cup {upto + 1}
    BY <1>4, <1>8
  <2>1. CASE k = c + 1
    BY <1>8, <2>1
  <2>2. CASE k # c + 1
    BY <1>1, <1>5, <1>8, <2>2
  <2> QED BY <2>1, <2>2
<1>10. ASSUME NEW j \in 1..(c + 1), NEW k \in 1..(c + 1), j < k PROVE more[j] < more[k]
  <2>1. j \in 1..c /\ more[j] = order[j]
    BY <1>8, <1>10
  <2>2. CASE k = c + 1
    BY <1>1, <1>5, <1>7, <1>8, <2>1, <2>2
  <2>3. CASE k # c + 1
    <3>1. k \in 1..c /\ more[k] = order[k]
      BY <1>8, <2>3
    <3> QED BY <1>1, <1>5, <1>10, <2>1, <3>1
  <2> QED BY <2>2, <2>3
<1>11. Append(o, said[upto + 1]) = [k \in 1..(c + 1) |-> said[more[k]]]
  <2>1. o = [k \in 1..c |-> said[order[k]]]
    BY <1>1, <1>5
  <2>2. PICK x, set : x = said[upto + 1] /\ set = {said[order[k]] : k \in 1..c} \cup {x}
    OBVIOUS
  <2>3. o \in Seq(set) /\ Len(o) = c /\ x \in set
    BY <2>1, <2>2
  <2>4. PICK p : p = Append(o, x)
    OBVIOUS
  <2>5. p \in Seq(set) /\ Len(p) = c + 1 /\ p[c + 1] = x /\ \A k \in 1..c : p[k] = o[k]
    BY <2>3, <2>4, AppendProperties
  <2>6. p = [k \in 1..(c + 1) |-> p[k]]
    BY <2>5
  <2>7. \A k \in 1..(c + 1) : p[k] = said[more[k]]
    BY <1>8, <2>1, <2>2, <2>5
  <2> QED BY <2>2, <2>4, <2>6, <2>7
<1>12. DOMAIN more = 1..(c + 1)
  BY <1>8
<1> QED BY <1>6, <1>9, <1>10, <1>11, <1>12 DEF HandedOver

\* A handler misses the alert it is offered.
LEMMA HandOverNone ==
    ASSUME NEW o, NEW gaps, NEW said, NEW upto \in Nat, gaps \subseteq 1..upto,
           HandedOver(o, gaps, said, upto)
    PROVE  HandedOver(o, gaps \cup {upto + 1}, said, upto + 1)
<1>1. (1..(upto + 1)) \ (gaps \cup {upto + 1}) = (1..upto) \ gaps
  OBVIOUS
<1> QED BY <1>1 DEF HandedOver

\* An alert that is not offered yet changes nothing.
LEMMA HandOverLater ==
    ASSUME NEW o, NEW gaps, NEW said, NEW upto \in Nat, HandedOver(o, gaps, said, upto),
           NEW more, \A k \in 1..upto : more[k] = said[k]
    PROVE  HandedOver(o, gaps, more, upto)
<1>1. PICK order \in [1..Cardinality((1..upto) \ gaps) -> (1..upto) \ gaps] :
         /\ \A j, k \in DOMAIN order : j < k => order[j] < order[k]
         /\ o = [k \in DOMAIN order |-> said[order[k]]]
  BY DEF HandedOver
<1>2. \A k \in DOMAIN order : order[k] \in 1..upto
  BY <1>1
<1>3. o = [k \in DOMAIN order |-> more[order[k]]]
  BY <1>1, <1>2
<1> QED BY <1>1, <1>3 DEF HandedOver

\* Append to a sequence of anything.
LEMMA AppendIsSeq ==
    ASSUME NEW s, IsSeq(s), NEW x
    PROVE  /\ IsSeq(Append(s, x)) /\ Len(s) \in Nat /\ Len(Append(s, x)) = Len(s) + 1
           /\ Append(s, x)[Len(s) + 1] = x
           /\ \A i \in 1..Len(s) : Append(s, x)[i] = s[i]
<1>1. PICK set : s \in Seq(set)
  BY DEF IsSeq
<1>2. s \in Seq(set \cup {x}) /\ x \in set \cup {x}
  BY <1>1
<1>3. Append(s, x) \in Seq(set \cup {x})
  BY <1>2, AppendProperties
<1> QED BY <1>2, <1>3, AppendProperties DEF IsSeq

LEMMA FunctionIsSeq ==
    ASSUME NEW set, NEW len \in Nat, NEW f \in [1..len -> set]
    PROVE  f \in Seq(set) /\ Len(f) = len
OBVIOUS

\* Replacing an element leaves a sequence.
Replace(s, at, x) == [s EXCEPT ![at] = x]

LEMMA ReplaceIsSeq ==
    ASSUME NEW s, IsSeq(s), NEW at, NEW x
    PROVE  /\ IsSeq(Replace(s, at, x)) /\ Len(Replace(s, at, x)) = Len(s)
           /\ \A i \in 1..Len(s) : Replace(s, at, x)[i] = IF i = at THEN x ELSE s[i]
<1>1. PICK set : s \in Seq(set)
  BY DEF IsSeq
<1>2. PICK len \in Nat : len = Len(s)
  BY <1>1
<1>3. s \in [1..len -> set \cup {x}]
  BY <1>1, <1>2
<1>4. PICK t : t = Replace(s, at, x)
  OBVIOUS
<1>5. t \in [1..len -> set \cup {x}] /\ \A i \in 1..len : t[i] = IF i = at THEN x ELSE s[i]
  BY <1>3, <1>4 DEF Replace
<1>6. t \in Seq(set \cup {x}) /\ Len(t) = len
  BY <1>2, <1>5, FunctionIsSeq
<1> QED BY <1>2, <1>4, <1>5, <1>6 DEF IsSeq

\* One call of h->send and the loop around it, however it ends.
LEMMA TurnKeeps ==
    ASSUME ChainInv, next > 0, P!NextHandler,
           UNCHANGED <<phase, chain, sent, stats>>, healthy' \subseteq healthy,
           IsSeq(out'), Len(out') = Len(out), IsSeq(missed'), Len(missed') = Len(missed),
           \A i \in 1..Len(chain) : i # next => out'[i] = out[i] /\ missed'[i] = missed[i],
           next \in 1..Len(chain) =>
              /\ missed'[next] \subseteq 1..Len(sent)
              /\ HandedOver(out'[next], missed'[next], sent, Len(sent))
    PROVE  ChainInv'
<1>1. PICK size \in Nat, said \in Nat : size = Len(chain) /\ said = Len(sent)
  <2>1. Len(chain) \in Nat /\ Len(sent) \in Nat
    BY AppendIsSeq DEF ChainInv
  <2> QED BY <2>1
<1>2. /\ next \in Nat /\ said >= 1 /\ phase = "running" /\ alertsCount = said - 1
      /\ alertsCount \in Nat
  BY <1>1 DEF ChainInv
<1>3. \/ next < size /\ next' = next + 1 /\ alertsCount' = alertsCount
      \/ ~(next < size) /\ next' = 0 /\ alertsCount' = alertsCount + 1
  BY <1>1 DEF P!NextHandler
<1>4. ASSUME NEW i \in 1..size
      PROVE  /\ missed'[i] \subseteq 1..OfferedBefore(next', sent, i)
             /\ HandedOver(out'[i], missed'[i], sent, OfferedBefore(next', sent, i))
  <2>1. CASE i = next
    <3>1. OfferedBefore(next', sent, i) = Len(sent)
      BY <1>2, <1>3, <2>1 DEF OfferedBefore
    <3> QED BY <1>1, <2>1, <3>1
  <2>2. CASE i # next
    <3>1. OfferedBefore(next', sent, i) = OfferedBefore(next, sent, i)
      BY <1>2, <1>3, <2>2 DEF OfferedBefore
    <3>2. out'[i] = out[i] /\ missed'[i] = missed[i]
      BY <1>1, <2>2
    <3> QED BY <1>1, <3>1, <3>2 DEF ChainInv
  <2> QED BY <2>1, <2>2
<1>5. alertsCount' = IF next' = 0 THEN Len(sent) ELSE Len(sent) - 1
  BY <1>1, <1>2, <1>3
<1>6. next' \in Nat
  BY <1>2, <1>3
<1>7. ASSUME NEW i \in 1..Len(chain')
      PROVE  /\ missed'[i] \subseteq 1..OfferedBefore(next', sent', i)
             /\ HandedOver(out'[i], missed'[i], sent', OfferedBefore(next', sent', i))
  BY <1>1, <1>4
<1>8. /\ IsSeq(chain') /\ IsSeq(sent') /\ healthy' \subseteq Nat \ {0}
      /\ Len(out') = Len(chain') /\ Len(missed') = Len(chain')
  BY DEF ChainInv
<1>9. phase' = "running" /\ phase' \notin BeforeLoop /\ Len(sent') >= 1 /\ stats' = -1
  BY <1>1, <1>2 DEF BeforeLoop, ChainInv
<1> QED BY <1>5, <1>6, <1>7, <1>8, <1>9 DEF ChainInv

\* While the chain is built no alert is raised.
LEMMA CreateHandlerKeeps ==
    ASSUME ChainInv, P!CreateHandler
    PROVE  ChainInv'
<1>1. /\ phase = "handlers" /\ Len(sent) = 0 /\ next = 0 /\ sent' = sent /\ next' = next
      /\ alertsCount' = alertsCount /\ stats' = stats /\ alertsCount = 0 /\ stats = -1
  BY DEF P!CreateHandler, ChainInv, BeforeLoop
<1>2. \A i : OfferedBefore(next, sent, i) = 0
  BY <1>1 DEF OfferedBefore
<1>3. CASE UNCHANGED <<chain, healthy, out, missed>> /\ phase' = "exit 1"
  BY <1>1, <1>3 DEF ChainInv, BeforeLoop
<1>4. CASE \E x : /\ chain' = Append(chain, x) /\ healthy' = healthy \cup {Len(chain) + 1}
                  /\ out' = Append(out, << >>) /\ missed' = Append(missed, {}) /\ phase' = phase
  <2>1. PICK x : /\ chain' = Append(chain, x) /\ healthy' = healthy \cup {Len(chain) + 1}
                 /\ out' = Append(out, << >>) /\ missed' = Append(missed, {}) /\ phase' = phase
    BY <1>4
  <2>2. PICK size \in Nat : size = Len(chain)
    BY AppendIsSeq DEF ChainInv
  <2>3. IsSeq(chain') /\ Len(chain') = size + 1
    BY <2>1, <2>2, AppendIsSeq DEF ChainInv
  <2>4. IsSeq(out') /\ Len(out') = size + 1 /\ out'[size + 1] = << >>
        /\ \A i \in 1..size : out'[i] = out[i]
    <3>1. PICK o, e : o = out /\ e = << >>
      OBVIOUS
    <3>2. IsSeq(o) /\ Len(o) = size
      BY <2>2, <3>1 DEF ChainInv
    <3>3. /\ IsSeq(Append(o, e)) /\ Len(Append(o, e)) = size + 1 /\ Append(o, e)[size + 1] = e
          /\ \A i \in 1..size : Append(o, e)[i] = o[i]
      BY <3>2, AppendIsSeq
    <3> QED BY <2>1, <3>1, <3>3
  <2>5. IsSeq(missed') /\ Len(missed') = size + 1 /\ missed'[size + 1] = {}
        /\ \A i \in 1..size : missed'[i] = missed[i]
    <3>1. PICK o, e : o = missed /\ e = {}
      OBVIOUS
    <3>2. IsSeq(o) /\ Len(o) = size
      BY <2>2, <3>1 DEF ChainInv
    <3>3. /\ IsSeq(Append(o, e)) /\ Len(Append(o, e)) = size + 1 /\ Append(o, e)[size + 1] = e
          /\ \A i \in 1..size : Append(o, e)[i] = o[i]
      BY <3>2, AppendIsSeq
    <3> QED BY <2>1, <3>1, <3>3
  <2>6. healthy' \subseteq Nat \ {0}
    <3>1. healthy \subseteq Nat \ {0}
      BY DEF ChainInv
    <3>2. size + 1 \in Nat \ {0}
      OBVIOUS
    <3> QED BY <2>1, <2>2, <3>1, <3>2
  <2>7. ASSUME NEW i \in 1..(size + 1)
        PROVE  missed'[i] \subseteq 1..0 /\ HandedOver(out'[i], missed'[i], sent, 0)
    <3>1. CASE i = size + 1
      BY <2>4, <2>5, <3>1, NothingHandedOver
    <3>2. CASE i # size + 1
      <4>1. i \in 1..size
        BY <3>2
      <4> QED BY <1>2, <2>2, <2>4, <2>5, <4>1 DEF ChainInv
    <3> QED BY <3>1, <3>2
  <2>8. ASSUME NEW i \in 1..Len(chain')
        PROVE  /\ missed'[i] \subseteq 1..OfferedBefore(next', sent', i)
               /\ HandedOver(out'[i], missed'[i], sent', OfferedBefore(next', sent', i))
    BY <1>1, <1>2, <2>3, <2>7
  <2> QED BY <1>1, <2>1, <2>3, <2>4, <2>5, <2>6, <2>8 DEF ChainInv
<1> QED BY <1>3, <1>4 DEF P!CreateHandler, P!Exit

\* The event loop calls chain.send.
LEMMA RaiseAlertKeeps ==
    ASSUME ChainInv, NEW type \in P!AlertTypes, P!RaiseAlert(type)
    PROVE  ChainInv'
<1>1. PICK a : sent' = Append(sent, a)
  BY DEF P!RaiseAlert
<1>2. /\ phase = "running" /\ next = 0 /\ next' = 1 /\ phase' = phase /\ chain' = chain
      /\ healthy' = healthy /\ alertsCount' = alertsCount /\ stats' = stats
      /\ out' = out /\ missed' = missed
  BY DEF P!RaiseAlert
<1>3. PICK said \in Nat : said = Len(sent)
  BY AppendIsSeq DEF ChainInv
<1>4. IsSeq(sent') /\ Len(sent') = said + 1 /\ \A i \in 1..said : sent'[i] = sent[i]
  <2>1. PICK o : o = sent
    OBVIOUS
  <2>2. IsSeq(o) /\ Len(o) = said
    BY <1>3, <2>1 DEF ChainInv
  <2>3. /\ IsSeq(Append(o, a)) /\ Len(Append(o, a)) = said + 1
        /\ \A i \in 1..said : Append(o, a)[i] = o[i]
    BY <2>2, AppendIsSeq
  <2> QED BY <1>1, <2>1, <2>3
<1>5. ASSUME NEW i \in 1..Len(chain)
      PROVE  /\ missed[i] \subseteq 1..OfferedBefore(next', sent', i)
             /\ HandedOver(out[i], missed[i], sent', OfferedBefore(next', sent', i))
  <2>1. Len(chain) \in Nat
    BY AppendIsSeq DEF ChainInv
  <2>2. OfferedBefore(next', sent', i) = said /\ OfferedBefore(next, sent, i) = said
    BY <1>2, <1>3, <1>4, <2>1 DEF OfferedBefore
  <2>3. missed[i] \subseteq 1..said /\ HandedOver(out[i], missed[i], sent, said)
    BY <2>2 DEF ChainInv
  <2>4. PICK old, new : old = sent /\ new = sent'
    OBVIOUS
  <2>5. HandedOver(out[i], missed[i], new, said)
    BY <1>4, <2>3, <2>4, HandOverLater
  <2> QED BY <2>2, <2>3, <2>4, <2>5
<1>6. alertsCount = said /\ stats = -1
  BY <1>2, <1>3 DEF ChainInv
<1> QED BY <1>2, <1>3, <1>4, <1>5, <1>6 DEF ChainInv, BeforeLoop

\* A handler fails, breaks or delivers.
LEMMA SendKeeps ==
    ASSUME ChainInv, P!HandlerFails \/ P!StreamBreaks \/ P!HandlerDelivers
    PROVE  ChainInv'
<1>1. /\ next > 0 /\ P!NextHandler /\ UNCHANGED <<phase, chain, sent, stats>>
      /\ healthy' \subseteq healthy
  <2>1. next \in healthy => next > 0
    <3>1. healthy \subseteq Nat \ {0}
      BY DEF ChainInv
    <3> QED BY <3>1
  <2> QED BY <2>1 DEF P!HandlerFails, P!StreamBreaks, P!HandlerDelivers
<1>2. PICK said \in Nat : said = Len(sent)
  BY AppendIsSeq DEF ChainInv
<1>3. said >= 1 /\ said - 1 \in Nat /\ (said - 1) + 1 = said
  BY <1>1, <1>2 DEF ChainInv
<1>4. next \in 1..Len(chain) =>
         missed[next] \subseteq 1..(said - 1) /\ HandedOver(out[next], missed[next], sent, said - 1)
  BY <1>1, <1>2 DEF ChainInv, OfferedBefore
<1>5. PICK turn, all, o, m : turn = next /\ all = sent /\ o = out /\ m = missed
  OBVIOUS
<1>6. IsSeq(o) /\ IsSeq(m) /\ Len(o) = Len(chain) /\ Len(m) = Len(chain)
  BY <1>5 DEF ChainInv
<1>7. CASE out' = out /\ missed' = [missed EXCEPT ![next] = @ \cup {Len(sent)}]
  <2>1. PICK y, m2 : y = m[turn] \cup {said} /\ m2 = Replace(m, turn, y)
    OBVIOUS
  <2>2. /\ IsSeq(m2) /\ Len(m2) = Len(m)
        /\ \A i \in 1..Len(m) : m2[i] = IF i = turn THEN y ELSE m[i]
    BY <1>6, <2>1, ReplaceIsSeq
  <2>3. missed' = m2
    BY <1>2, <1>5, <1>7, <2>1 DEF Replace
  <2>4. ASSUME next \in 1..Len(chain)
        PROVE  /\ missed'[next] \subseteq 1..Len(sent)
               /\ HandedOver(out'[next], missed'[next], sent, Len(sent))
    <3>1. missed'[next] = m[turn] \cup {said}
      BY <1>5, <1>6, <2>1, <2>2, <2>3, <2>4
    <3>2. m[turn] \subseteq 1..(said - 1) /\ HandedOver(o[turn], m[turn], all, said - 1)
      BY <1>4, <1>5, <2>4
    <3>3. PICK last \in Nat : last = said - 1
      BY <1>3
    <3>4. HandedOver(o[turn], m[turn] \cup {last + 1}, all, last + 1)
      BY <3>2, <3>3, HandOverNone
    <3>5. last + 1 = said /\ m[turn] \cup {said} \subseteq 1..said
      BY <1>3, <3>2, <3>3
    <3> QED BY <1>2, <1>5, <1>7, <3>1, <3>4, <3>5
  <2>5. \A i \in 1..Len(chain) : i # next => out'[i] = out[i] /\ missed'[i] = missed[i]
    BY <1>5, <1>6, <1>7, <2>2, <2>3
  <2>6. IsSeq(out') /\ Len(out') = Len(out) /\ IsSeq(missed') /\ Len(missed') = Len(missed)
    BY <1>5, <1>6, <1>7, <2>2, <2>3
  <2> QED BY <1>1, <2>4, <2>5, <2>6, TurnKeeps
<1>8. CASE missed' = missed /\ out' = [out EXCEPT ![next] = Append(@, P!Last(sent))]
  <2>1. PICK x, y, o2 : x = all[said] /\ y = Append(o[turn], x) /\ o2 = Replace(o, turn, y)
    OBVIOUS
  <2>2. /\ IsSeq(o2) /\ Len(o2) = Len(o)
        /\ \A i \in 1..Len(o) : o2[i] = IF i = turn THEN y ELSE o[i]
    BY <1>6, <2>1, ReplaceIsSeq
  <2>3. out' = o2
    BY <1>2, <1>5, <1>8, <2>1 DEF P!Last, Replace
  <2>4. ASSUME next \in 1..Len(chain)
        PROVE  /\ missed'[next] \subseteq 1..Len(sent)
               /\ HandedOver(out'[next], missed'[next], sent, Len(sent))
    <3>1. out'[next] = Append(o[turn], x)
      BY <1>5, <1>6, <2>1, <2>2, <2>3, <2>4
    <3>2. m[turn] \subseteq 1..(said - 1) /\ HandedOver(o[turn], m[turn], all, said - 1)
      BY <1>4, <1>5, <2>4
    <3>3. PICK last \in Nat : last = said - 1
      BY <1>3
    <3>4. HandedOver(Append(o[turn], all[last + 1]), m[turn], all, last + 1)
      BY <3>2, <3>3, HandOverOne
    <3>5. last + 1 = said /\ m[turn] \subseteq 1..said
      BY <1>3, <3>2, <3>3
    <3> QED BY <1>2, <1>5, <1>8, <2>1, <3>1, <3>4, <3>5
  <2>5. \A i \in 1..Len(chain) : i # next => out'[i] = out[i] /\ missed'[i] = missed[i]
    BY <1>5, <1>6, <1>8, <2>2, <2>3
  <2>6. IsSeq(out') /\ Len(out') = Len(out) /\ IsSeq(missed') /\ Len(missed') = Len(missed)
    BY <1>5, <1>6, <1>8, <2>2, <2>3
  <2> QED BY <1>1, <2>4, <2>5, <2>6, TurnKeeps
<1> QED BY <1>7, <1>8 DEF P!HandlerFails, P!StreamBreaks, P!HandlerDelivers

\* The other steps change neither chain nor alerts.
QuietPhase ==
    \/ phase \in BeforeLoop /\ phase' # "exit 0" /\ stats' = stats
    \/ phase = "running" /\ next = 0 /\ phase' = "exit 0" /\ stats' = alertsCount
    \/ phase' = phase /\ stats' = stats

LEMMA QuietKeeps ==
    ASSUME ChainInv, UNCHANGED <<chain, healthy, sent, next, alertsCount, out, missed>>,
           QuietPhase
    PROVE  ChainInv'
<1>1. \A i \in 1..Len(chain) :
         /\ missed'[i] \subseteq 1..OfferedBefore(next', sent', i)
         /\ HandedOver(out'[i], missed'[i], sent', OfferedBefore(next', sent', i))
  BY DEF ChainInv
<1>2. phase \in BeforeLoop => stats = -1
  BY DEF ChainInv, BeforeLoop
<1>3. phase' \in BeforeLoop => Len(sent') = 0 /\ next' = 0
  BY DEF ChainInv, BeforeLoop, QuietPhase
<1>4. ASSUME next' > 0 PROVE phase' = "running" /\ Len(sent') >= 1
  <2>1. next > 0 /\ next # 0
    <3>1. next \in Nat
      BY DEF ChainInv
    <3>2. next' = next
      OBVIOUS
    <3>3. next > 0
      BY <1>4, <3>2
    <3> QED BY <3>1, <3>3
  <2>2. phase = "running" /\ Len(sent) >= 1 /\ phase \notin BeforeLoop
    BY <2>1 DEF ChainInv, BeforeLoop
  <2> QED BY <2>1, <2>2 DEF QuietPhase
<1>5. stats' # -1 => phase' = "exit 0" /\ stats' = Len(sent')
  BY <1>2 DEF ChainInv, BeforeLoop, QuietPhase
<1> QED BY <1>1, <1>3, <1>4, <1>5 DEF ChainInv

LEMMA ChainStarts ==
    ASSUME P!Init
    PROVE  ChainInv
<1>1. /\ chain = << >> /\ healthy = {} /\ sent = << >> /\ next = 0 /\ alertsCount = 0
      /\ stats = -1 /\ out = << >> /\ missed = << >>
  BY DEF P!Init
<1>2. IsSeq(<< >>) /\ Len(<< >>) = 0
  <2>1. << >> \in Seq({})
    OBVIOUS
  <2> QED BY <2>1 DEF IsSeq
<1> QED BY <1>1, <1>2 DEF ChainInv

LEMMA ChainStep ==
    ASSUME ChainInv, P!Next
    PROVE  ChainInv'
<1>1. CASE P!LoadFile
  BY <1>1, QuietKeeps DEF P!LoadFile, P!Exit, BeforeLoop, QuietPhase
<1>2. CASE P!CreateAlgorithms
  BY <1>2, QuietKeeps DEF P!CreateAlgorithms, BeforeLoop, QuietPhase
<1>3. CASE P!OpenSource
  BY <1>3, QuietKeeps DEF P!OpenSource, P!Exit, BeforeLoop, QuietPhase
<1>4. CASE P!CreateHandler
  BY <1>4, CreateHandlerKeeps
<1>5. CASE P!StartLoop
  BY <1>5, QuietKeeps DEF P!StartLoop, BeforeLoop, QuietPhase
<1>6. CASE \E type \in P!AlertTypes : P!RaiseAlert(type)
  BY <1>6, RaiseAlertKeeps
<1>7. CASE P!HandlerFails \/ P!StreamBreaks \/ P!HandlerDelivers
  BY <1>7, SendKeeps
<1>8. CASE P!EndOfInput
  BY <1>8, QuietKeeps DEF P!EndOfInput, QuietPhase
<1> QED BY <1>1, <1>2, <1>3, <1>4, <1>5, <1>6, <1>7, <1>8 DEF P!Next

LEMMA ChainIsolates == ChainInv => P!FailuresAreIsolated
<1> SUFFICES ASSUME ChainInv PROVE P!FailuresAreIsolated
  OBVIOUS
<1>1. ASSUME NEW i \in DOMAIN chain
      PROVE  \E order \in [1..P!Cardinality((1..P!Offered(i)) \ missed[i]) ->
                              (1..P!Offered(i)) \ missed[i]] :
                /\ \A j, k \in DOMAIN order : j < k => order[j] < order[k]
                /\ out[i] = [k \in DOMAIN order |-> sent[order[k]]]
  <2>1. i \in 1..Len(chain)
    <3>1. PICK set : chain \in Seq(set)
      BY DEF ChainInv, IsSeq
    <3> QED BY <3>1
  <2>2. P!Offered(i) = OfferedBefore(next, sent, i)
    BY DEF P!Offered, OfferedBefore
  <2>3. HandedOver(out[i], missed[i], sent, P!Offered(i))
    BY <2>1, <2>2 DEF ChainInv
  <2>4. \A set : P!Cardinality(set) = Cardinality(set)
    BY DEF P!Cardinality, Cardinality
  <2> QED BY <2>3, <2>4 DEF HandedOver
<1>2. stats \in {-1, Len(sent)}
  BY DEF ChainInv
<1> QED BY <1>1, <1>2 DEF P!FailuresAreIsolated

(***************************************************************************)
(* Whatever handlers a configuration lists, however many they are and      *)
(* however often each of them fails, breaks or recovers, every other       *)
(* handler delivers all alerts it can, in order and once each; and the     *)
(* statistics count each alert once.  The configurations are any set of    *)
(* documents that DocumentsAssumption allows.                              *)
(***************************************************************************)
THEOREM HandlersAreIsolated == Spec => []FailuresAreIsolated
<1> DEFINE Inv == running = "main" => ChainInv
<1>1. Init => Inv
  BY ChainStarts DEF Init
<1>2. Inv /\ [Next]_vars => Inv'
  <2> SUFFICES ASSUME Inv, [Next]_vars, running' = "main" PROVE ChainInv'
    OBVIOUS
  <2>1. CASE UNCHANGED vars
    <3>1. ChainInv /\ UNCHANGED <<chain, healthy, sent, next, alertsCount, out, missed, phase, stats>>
      BY <2>1 DEF vars, mainVars
    <3> QED BY <3>1, QuietKeeps DEF QuietPhase
  <2>2. CASE Next
    <3>1. running = "main" /\ P!Next
      BY <2>2 DEF Next
    <3> QED BY <3>1, ChainStep
  <2> QED BY <2>1, <2>2
<1>3. Inv => FailuresAreIsolated
  BY ChainIsolates DEF FailuresAreIsolated
<1> QED BY <1>1, <1>2, <1>3, PTL DEF Spec

(***************************************************************************)
(* Start-up, relative to the reader's contract: if load_config stores what *)
(* the document says, the chain is built from what the document lists.     *)
(***************************************************************************)
DocumentedHandlers ==
    [i \in DOMAIN P!Bodies("alert_handlers") |->
        [name   |-> P!Bodies("alert_handlers")[i].name,
         params |-> P!AsFunction(P!ToSet(P!Bodies("alert_handlers")[i].params))]]

AsDocumented == cfg.handlers = DocumentedHandlers /\ cfg.settings = P!DocumentedSettings

\* The chain so far are the first entries of the list.
BuiltFromEntries ==
    \A i \in 1..Len(chain) :
        chain[i] = P!Sink(P!Entries[i]) /\ P!Entries[i].name \in P!HandlerKinds

BuildInv ==
    /\ IsSeq(chain) /\ BuiltFromEntries
    /\ phase \in {"loading", "algorithms", "source"} => chain = << >>
    /\ phase \in {"algorithms", "source", "handlers", "running"} => AsDocumented
    /\ phase = "running" => Len(chain) = Len(P!Entries)

LEMMA DocumentStays ==
    ASSUME doc' = doc, cfg' = cfg
    PROVE  (AsDocumented' <=> AsDocumented) /\ P!Entries' = P!Entries
<1>1. P!DocumentedSettings' = P!DocumentedSettings
  BY DEF P!DocumentedSettings, P!Bodies
<1>2. DocumentedHandlers' = DocumentedHandlers
  BY DEF DocumentedHandlers, P!Bodies
<1>3. P!Entries' = P!Entries
  BY DEF P!Entries, P!Setting
<1> QED BY <1>1, <1>2, <1>3 DEF AsDocumented

LEMMA DocumentedParts ==
    /\ P!Documented.handlers = DocumentedHandlers
    /\ P!Documented.settings = P!DocumentedSettings
BY DEF P!Documented, DocumentedHandlers

LEMMA BuildStep ==
    ASSUME BuildInv, P!Next, P!LoadsDocument'
    PROVE  BuildInv'
<1>1. CASE P!LoadFile
  <2>1. chain = << >> /\ chain' = << >> /\ doc' = doc /\ phase' \in {"exit 1", "algorithms"}
    BY <1>1 DEF P!LoadFile, P!Exit, BuildInv
  <2>2. IsSeq(chain') /\ Len(chain') = 0
    <3>1. << >> \in Seq({}) /\ Len(<< >>) = 0
      OBVIOUS
    <3> QED BY <2>1, <3>1 DEF IsSeq
  <2>3. BuiltFromEntries'
    BY <2>2 DEF BuiltFromEntries
  <2>4. ASSUME phase' = "algorithms" PROVE AsDocumented'
    <3>1. cfg' = P!Documented'
      BY <2>4 DEF P!LoadsDocument
    <3>2. P!Documented'.handlers = DocumentedHandlers' /\ P!Documented'.settings = P!DocumentedSettings'
      BY DEF P!Documented, DocumentedHandlers
    <3> QED BY <3>1, <3>2 DEF AsDocumented
  <2> QED BY <2>1, <2>2, <2>3, <2>4 DEF BuildInv
<1>2. CASE P!CreateHandler
  <2>1. /\ phase = "handlers" /\ phase' \in {"handlers", "exit 1"} /\ doc' = doc /\ cfg' = cfg
    BY <1>2 DEF P!CreateHandler, P!Exit
  <2>2. AsDocumented' /\ P!Entries' = P!Entries
    BY <2>1, DocumentStays DEF BuildInv
  <2>3. CASE chain' = chain
    <3>1. BuiltFromEntries'
      BY <2>2, <2>3 DEF BuildInv, BuiltFromEntries, P!Sink, P!Param
    <3> QED BY <2>1, <2>2, <2>3, <3>1 DEF BuildInv
  <2>4. CASE /\ P!Entries[Len(chain) + 1].name \in P!HandlerKinds
             /\ chain' = Append(chain, P!Sink(P!Entries[Len(chain) + 1]))
    <3>1. PICK old, x, all : old = chain /\ x = P!Sink(P!Entries[Len(chain) + 1]) /\ all = P!Entries
      OBVIOUS
    <3>2. IsSeq(old)
      BY <3>1 DEF BuildInv
    <3>3. /\ IsSeq(Append(old, x)) /\ Len(old) \in Nat /\ Len(Append(old, x)) = Len(old) + 1
          /\ Append(old, x)[Len(old) + 1] = x
          /\ \A i \in 1..Len(old) : Append(old, x)[i] = old[i]
      BY <3>2, AppendIsSeq
    <3>4. chain' = Append(old, x)
      BY <2>4, <3>1
    <3>5. ASSUME NEW i \in 1..Len(chain')
          PROVE  chain'[i] = P!Sink(all[i]) /\ all[i].name \in P!HandlerKinds
      <4>1. CASE i = Len(old) + 1
        BY <2>4, <3>1, <3>3, <3>4, <4>1
      <4>2. CASE i # Len(old) + 1
        <5>1. i \in 1..Len(old)
          BY <3>3, <3>4, <4>2
        <5> QED BY <3>1, <3>3, <3>4, <5>1 DEF BuildInv, BuiltFromEntries
      <4> QED BY <4>1, <4>2
    <3>6. BuiltFromEntries'
      BY <2>2, <3>1, <3>5 DEF BuiltFromEntries
    <3> QED BY <2>1, <2>2, <3>3, <3>4, <3>6 DEF BuildInv
  <2> QED BY <1>2, <2>3, <2>4 DEF P!CreateHandler
<1>3. CASE ~P!LoadFile /\ ~P!CreateHandler
  <2>1. doc' = doc /\ cfg' = cfg /\ chain' = chain
    BY <1>3 DEF P!Next, P!CreateAlgorithms, P!OpenSource, P!StartLoop, P!RaiseAlert,
       P!HandlerFails, P!StreamBreaks, P!HandlerDelivers, P!EndOfInput
  <2>2. /\ phase' \in {"loading", "algorithms", "source"} =>
              phase \in {"loading", "algorithms", "source"}
        /\ phase' \in {"algorithms", "source", "handlers", "running"} =>
              phase \in {"algorithms", "source", "handlers", "running"}
        /\ phase' = "running" => phase = "running" \/ Len(chain) = Len(P!Entries)
    BY <1>3 DEF P!Next, P!CreateAlgorithms, P!OpenSource, P!StartLoop, P!RaiseAlert, P!Exit,
       P!HandlerFails, P!StreamBreaks, P!HandlerDelivers, P!EndOfInput
  <2>3. (AsDocumented' <=> AsDocumented) /\ P!Entries' = P!Entries
    BY <2>1, DocumentStays
  <2>4. BuiltFromEntries'
    BY <2>1, <2>3 DEF BuildInv, BuiltFromEntries
  <2> QED BY <2>1, <2>2, <2>3, <2>4 DEF BuildInv
<1> QED BY <1>1, <1>2, <1>3

LEMMA BuildRunsAll == BuildInv => P!RunsWholeChain
<1> SUFFICES ASSUME BuildInv, phase = "running" PROVE P!RunsWholeChain
  BY DEF P!RunsWholeChain
<1>1. AsDocumented /\ Len(chain) = Len(P!Entries) /\ BuiltFromEntries
  BY DEF BuildInv
<1>2. PICK set : chain \in Seq(set)
  BY DEF BuildInv, IsSeq
<1>3. DOMAIN chain = 1..Len(chain)
  BY <1>2
<1>4. PICK hs, settings : hs = P!Documented.handlers /\ settings = P!Documented.settings
  OBVIOUS
<1>5. cfg.handlers = hs /\ cfg.settings = settings
  BY <1>1, <1>4, DocumentedParts DEF AsDocumented
<1>6. CASE hs = << >>
  <2>1. PICK e : e = [name |-> "file", params |->
                        [path |-> P!Setting("output", "alerts_file", "output/alerts.json")]]
    OBVIOUS
  <2>2. P!Entries = <<e>>
    BY <1>5, <1>6, <2>1 DEF P!Entries
  <2>3. Len(chain) = 1 /\ chain[1] = P!Sink(e)
    BY <1>1, <2>2 DEF BuiltFromEntries
  <2>4. P!Sink(e) = <<"file", P!Setting("output", "alerts_file", "output/alerts.json")>>
    BY <2>1 DEF P!Sink, P!Param
  <2>5. <<"output", "alerts_file">> \in DOMAIN settings =>
           P!Setting("output", "alerts_file", "output/alerts.json") = settings[<<"output", "alerts_file">>]
    BY <1>5 DEF P!Setting
  <2> QED BY <1>4, <1>6, <2>3, <2>4, <2>5 DEF P!RunsWholeChain
<1>7. CASE hs # << >>
  <2>1. P!Entries = hs
    BY <1>5, <1>7 DEF P!Entries
  <2>2. ASSUME NEW i \in DOMAIN chain
        PROVE  /\ hs[i].name \in P!HandlerKinds
               /\ (chain[i][1] = hs[i].name) \/ hs[i].name \in {"stdout", "stderr"}
               /\ hs[i].name = "nats" /\ "subject" \in DOMAIN hs[i].params =>
                      chain[i][2] = hs[i].params.subject
    <3>1. PICK e : e = hs[i]
      OBVIOUS
    <3>2. chain[i] = P!Sink(e) /\ e.name \in P!HandlerKinds
      BY <1>1, <1>3, <2>1, <2>2, <3>1 DEF BuiltFromEntries
    <3>3. (P!Sink(e)[1] = e.name) \/ e.name \in {"stdout", "stderr"}
      BY <3>2 DEF P!Sink, P!HandlerKinds
    <3>4. e.name = "nats" /\ "subject" \in DOMAIN e.params => P!Sink(e)[2] = e.params.subject
      BY DEF P!Sink, P!Param
    <3> QED BY <3>1, <3>2, <3>3, <3>4
  <2> QED BY <1>1, <1>4, <1>7, <2>1, <2>2 DEF P!RunsWholeChain
<1> QED BY <1>6, <1>7

(***************************************************************************)
(* For any set of documents and lists of any length: if load_config meets  *)
(* its contract on them, zt-pipeline runs with every handler its           *)
(* configuration lists, in their order, or not at all.                     *)
(***************************************************************************)
THEOREM ChainIsWhole == Spec /\ []LoadsDocument => []RunsWholeChain
<1> DEFINE Inv == running = "main" => BuildInv
<1>1. Init => Inv
  <2> SUFFICES ASSUME Init, running = "main" PROVE BuildInv
    OBVIOUS
  <2>1. P!Init
    BY DEF Init
  <2>2. chain = << >> /\ phase = "loading"
    BY <2>1 DEF P!Init
  <2>3. IsSeq(<< >>) /\ Len(<< >>) = 0
    <3>1. << >> \in Seq({})
      OBVIOUS
    <3> QED BY <3>1 DEF IsSeq
  <2> QED BY <2>2, <2>3 DEF BuildInv, BuiltFromEntries
<1>2. Inv /\ [Next]_vars /\ LoadsDocument' => Inv'
  <2> SUFFICES ASSUME Inv, [Next]_vars, LoadsDocument', running' = "main" PROVE BuildInv'
    OBVIOUS
  <2>1. CASE UNCHANGED vars
    <3>1. BuildInv /\ chain' = chain /\ phase' = phase /\ doc' = doc /\ cfg' = cfg
      BY <2>1 DEF vars, mainVars
    <3>2. (AsDocumented' <=> AsDocumented) /\ P!Entries' = P!Entries
      BY <3>1, DocumentStays
    <3>3. BuiltFromEntries'
      BY <3>1, <3>2 DEF BuildInv, BuiltFromEntries
    <3> QED BY <3>1, <3>2, <3>3 DEF BuildInv
  <2>2. CASE Next
    <3>1. running = "main" /\ P!Next
      BY <2>2 DEF Next
    <3>2. P!LoadsDocument'
      BY DEF LoadsDocument
    <3> QED BY <3>1, <3>2, BuildStep
  <2> QED BY <2>1, <2>2
<1>3. Inv => RunsWholeChain
  BY BuildRunsAll DEF RunsWholeChain
<1> QED BY <1>1, <1>2, <1>3, PTL DEF Spec

-----------------------------------------------------------------------------
(***************************************************************************)
(* The alerts, relative to the reader's contract: an alert is built from   *)
(* the rules and settings the document holds.  What Bodies returns is a    *)
(* flattened list; its recursive function exists as the layers of the      *)
(* graph do.                                                               *)
(***************************************************************************)

\* f[i] is the first i lists in a row.
Joined(f, lists, upto) ==
    f = [i \in 1..upto |-> IF i = 1 THEN lists[i] ELSE f[i - 1] \o lists[i]]

LEMMA JoinedExists ==
    ASSUME NEW lists, NEW upto \in Nat
    PROVE  \E f : Joined(f, lists, upto)
<1> DEFINE Bad == {k \in Nat : ~\E f : Joined(f, lists, k)}
<1> SUFFICES ASSUME Bad # {} PROVE FALSE
  OBVIOUS
<1>1. PICK k \in Bad : \A m \in Bad : k <= m
  <2>1. Bad \subseteq Nat
    OBVIOUS
  <2> HIDE DEF Bad
  <2> QED BY <2>1, LeastNatural
<1>2. CASE k = 0
  <2>1. Joined([i \in 1..0 |-> << >>], lists, 0)
    BY DEF Joined
  <2> QED BY <1>2, <2>1
<1>3. CASE k # 0
  <2>1. k \in Nat /\ k - 1 \in Nat /\ k - 1 < k
    BY <1>3
  <2>2. k - 1 \notin Bad
    BY <1>1, <2>1
  <2>3. PICK f : Joined(f, lists, k - 1)
    BY <2>1, <2>2
  <2>4. PICK x : x = IF k = 1 THEN lists[k] ELSE f[k - 1] \o lists[k]
    OBVIOUS
  <2>5. PICK g : g = [i \in 1..k |-> IF i = k THEN x ELSE f[i]]
    OBVIOUS
  <2>6. ASSUME NEW i \in 1..k
        PROVE  g[i] = IF i = 1 THEN lists[i] ELSE g[i - 1] \o lists[i]
    <3>1. CASE i = k
      <4>1. g[i] = x
        BY <2>5, <3>1
      <4>2. i # 1 => g[i - 1] = f[k - 1]
        BY <2>1, <2>5, <3>1
      <4> QED BY <2>4, <3>1, <4>1, <4>2
    <3>2. CASE i # k
      <4>1. i \in 1..(k - 1) /\ g[i] = f[i]
        BY <2>1, <2>5, <3>2
      <4>2. f[i] = IF i = 1 THEN lists[i] ELSE f[i - 1] \o lists[i]
        BY <2>3, <4>1 DEF Joined
      <4>3. i # 1 => g[i - 1] = f[i - 1]
        BY <2>1, <2>5, <4>1
      <4> QED BY <4>1, <4>2, <4>3
    <3> QED BY <3>1, <3>2
  <2>7. Joined(g, lists, k)
    BY <2>5, <2>6 DEF Joined
  <2> QED BY <2>1, <2>7
<1> QED BY <1>2, <1>3

\* The entries of a flattened list are entries of the lists.
LEMMA FlattenIsSeq ==
    ASSUME NEW set, NEW lists \in Seq(Seq(set))
    PROVE  P!FlattenSeq(lists) \in Seq(set)
<1>1. PICK k : k = Len(lists)
  OBVIOUS
<1>2. k \in Nat /\ \A i \in 1..k : lists[i] \in Seq(set)
  BY <1>1
<1>3. CASE k = 0
  <2>1. P!FlattenSeq(lists) = lists /\ lists = << >>
    BY <1>1, <1>3, EmptySeq DEF P!FlattenSeq
  <2> QED BY <2>1
<1>4. CASE k # 0
  <2> DEFINE Flattens(f) == f = [i \in 1..Len(lists) |->
                                    IF i = 1 THEN lists[i] ELSE f[i - 1] \o lists[i]]
             all == CHOOSE f : Flattens(f)
  <2>1. P!FlattenSeq(lists) = all[k]
    BY <1>1, <1>4 DEF P!FlattenSeq
  <2>2. Joined(all, lists, k)
    <3>1. \A f : Flattens(f) <=> Joined(f, lists, k)
      BY <1>1 DEF Joined
    <3>2. \E f : Flattens(f)
      BY <1>2, <3>1, JoinedExists
    <3> HIDE DEF Flattens
    <3>3. Flattens(all)
      BY <3>2
    <3> QED BY <3>1, <3>3
  <2> HIDE DEF all
  <2> DEFINE Bad == {i \in 1..k : all[i] \notin Seq(set)}
  <2> SUFFICES ASSUME Bad # {} PROVE FALSE
    BY <1>2, <1>4, <2>1
  <2>3. PICK i \in Bad : \A j \in Bad : i <= j
    <3>1. Bad \subseteq Nat
      BY <1>2
    <3> HIDE DEF Bad
    <3> QED BY <3>1, LeastNatural
  <2>4. i \in 1..k /\ lists[i] \in Seq(set)
    BY <1>2
  <2>5. all[i] = IF i = 1 THEN lists[i] ELSE all[i - 1] \o lists[i]
    BY <2>2, <2>4 DEF Joined
  <2>6. CASE i = 1
    BY <2>4, <2>5, <2>6
  <2>7. CASE i # 1
    <3>1. i - 1 \in 1..k /\ i - 1 < i
      BY <1>2, <2>4, <2>7
    <3>2. all[i - 1] \in Seq(set)
      BY <1>2, <2>3, <3>1
    <3>3. all[i - 1] \o lists[i] \in Seq(set)
      BY <2>4, <3>2
    <3> QED BY <2>5, <2>7, <3>3
  <2> QED BY <2>6, <2>7
<1> QED BY <1>2, <1>3, <1>4

\* Lists with their entries in a set.
LEMMA ListIsSeq ==
    ASSUME NEW s, P!IsList(s), NEW set, \A i \in DOMAIN s : s[i] \in set
    PROVE  s \in Seq(set)
<1>1. PICK k \in Nat : s = [i \in 1..k |-> s[i]]
  BY DEF P!IsList
<1>2. PICK f : f = [i \in 1..k |-> s[i]]
  OBVIOUS
<1>3. \A i \in 1..k : s[i] \in set
  BY <1>1
<1>4. f \in [1..k -> set]
  BY <1>2, <1>3
<1> QED BY <1>1, <1>2, <1>4

\* The entries of the sections of this name.
EntriesOf(section) ==
    UNION {{doc[i][2][k] : k \in DOMAIN doc[i][2]} : i \in {j \in DOMAIN doc : doc[j][1] = section}}

LEMMA BodiesAreSeq ==
    ASSUME doc \in Documents, NEW section
    PROVE  P!Bodies(section) \in Seq(EntriesOf(section))
<1>1. P!IsDocument(doc)
  BY DocumentsAssumption
<1>2. PICK k \in Nat : DOMAIN doc = 1..k
  <2>1. P!IsList(doc)
    BY <1>1 DEF P!IsDocument
  <2> QED BY <2>1 DEF P!IsList
<1>3. PICK lists : lists = [i \in DOMAIN doc |-> IF doc[i][1] = section THEN doc[i][2] ELSE << >>]
  OBVIOUS
<1>4. PICK set : set = EntriesOf(section)
  OBVIOUS
<1>5. ASSUME NEW i \in DOMAIN doc, doc[i][1] = section PROVE doc[i][2] \in Seq(set)
  <2>1. PICK s : s = doc[i][2]
    OBVIOUS
  <2>2. P!IsList(s)
    BY <1>1, <2>1 DEF P!IsDocument
  <2>3. \A j \in DOMAIN s : s[j] \in set
    BY <1>4, <1>5, <2>1 DEF EntriesOf
  <2> QED BY <2>1, <2>2, <2>3, ListIsSeq
<1>6. \A i \in 1..k : lists[i] \in Seq(set)
  <2>1. << >> \in Seq(set)
    OBVIOUS
  <2> QED BY <1>2, <1>3, <1>5, <2>1
<1>7. lists \in Seq(Seq(set))
  BY <1>2, <1>3, <1>6
<1>8. P!Bodies(section) = P!FlattenSeq(lists)
  BY <1>3 DEF P!Bodies
<1> QED BY <1>4, <1>7, <1>8, FlattenIsSeq

\* The entries of the sections of a name are in one of them.
LEMMA BodiesFacts ==
    ASSUME doc \in Documents, NEW section, NEW e \in P!ToSet(P!Bodies(section))
    PROVE  \E i \in DOMAIN doc : /\ doc[i][1] = section
                                 /\ \E k \in DOMAIN doc[i][2] : e = doc[i][2][k]
<1>1. PICK all : all = P!Bodies(section)
  OBVIOUS
<1>2. PICK set : set = EntriesOf(section)
  OBVIOUS
<1>3. all \in Seq(set) /\ e \in P!ToSet(all)
  BY <1>1, <1>2, BodiesAreSeq
<1>4. e \in set
  BY <1>3 DEF P!ToSet
<1> QED BY <1>2, <1>4 DEF EntriesOf

\* The severity rules of a document are a list.
LEMMA RulesAreSeq ==
    ASSUME doc \in Documents
    PROVE  IsSeq(P!Bodies("severity_rules"))
BY BodiesAreSeq DEF IsSeq

\* No algorithm takes the settings of the section soc.
LEMMA AlgorithmsAreNotSoc ==
    ASSUME doc \in Documents
    PROVE  \A e \in P!ToSet(P!Bodies("algorithms")) : e.sub # "soc"
<1> SUFFICES ASSUME NEW e \in P!ToSet(P!Bodies("algorithms")) PROVE e.sub # "soc"
  OBVIOUS
<1>1. PICK i \in DOMAIN doc : doc[i][1] = "algorithms" /\ \E k \in DOMAIN doc[i][2] : e = doc[i][2][k]
  BY BodiesFacts
<1>2. e.sub \in P!Algorithms
  <2>1. P!IsDocument(doc)
    BY DocumentsAssumption
  <2> QED BY <1>1, <2>1 DEF P!IsDocument
<1> QED BY <1>2 DEF P!Algorithms

\* The section soc gives a key one value.
LEMMA SocIsFunction ==
    ASSUME doc \in Documents
    PROVE  \A p, q \in P!ToSet(P!Bodies("soc")) : p[1] = q[1] => p[2] = q[2]
<1> SUFFICES ASSUME NEW p \in P!ToSet(P!Bodies("soc")), NEW q \in P!ToSet(P!Bodies("soc")), p[1] = q[1]
             PROVE  p = q
  OBVIOUS
<1>1. PICK i \in DOMAIN doc : doc[i][1] = "soc" /\ \E k \in DOMAIN doc[i][2] : p = doc[i][2][k]
  BY BodiesFacts
<1>2. PICK j \in DOMAIN doc : doc[j][1] = "soc" /\ \E k \in DOMAIN doc[j][2] : q = doc[j][2][k]
  BY BodiesFacts
<1>3. P!IsDocument(doc)
  BY DocumentsAssumption
<1>4. i = j
  BY <1>1, <1>2, <1>3 DEF P!IsDocument
<1> QED BY <1>1, <1>2, <1>3, <1>4 DEF P!IsDocument

\* What AsFunction stores for a key is one of the values the pairs give it.
LEMMA AsFunctionFacts ==
    ASSUME NEW pairs, NEW key
    PROVE  /\ key \in DOMAIN P!AsFunction(pairs) <=> \E p \in pairs : p[1] = key
           /\ key \in DOMAIN P!AsFunction(pairs) =>
                 \E p \in pairs : p[1] = key /\ P!AsFunction(pairs)[key] = p[2]
<1>1. PICK f : f = P!AsFunction(pairs)
  OBVIOUS
<1>2. f = [x \in {p[1] : p \in pairs} |-> (CHOOSE p \in pairs : p[1] = x)[2]]
  BY <1>1 DEF P!AsFunction
<1>3. DOMAIN f = {p[1] : p \in pairs}
  BY <1>2
<1>4. key \in DOMAIN f <=> \E p \in pairs : p[1] = key
  BY <1>3
<1>5. ASSUME key \in DOMAIN f PROVE \E p \in pairs : p[1] = key /\ f[key] = p[2]
  <2>1. PICK p : p = CHOOSE q \in pairs : q[1] = key
    OBVIOUS
  <2>2. p \in pairs /\ p[1] = key
    BY <1>4, <1>5, <2>1
  <2>3. f[key] = p[2]
    BY <1>2, <1>3, <1>5, <2>1
  <2> QED BY <2>2, <2>3
<1> QED BY <1>1, <1>4, <1>5

\* The scalars, names and parameters of a document.
Scalars == UNION {{<<<<s, e[1]>>, e[2]>> : e \in P!ToSet(P!Bodies(s))} : s \in DOMAIN P!FlatKeys}
Names   == {<<<<e.sub, "name">>, e.name>> : e \in P!ToSet(P!Bodies("algorithms"))}
Params  == UNION {{<<<<e.sub, p[1]>>, p[2]>> : p \in P!ToSet(e.params)} :
                      e \in P!ToSet(P!Bodies("algorithms"))}

NodeKey == <<"soc", "node_name">>

\* Only the section soc sets node_name.
LEMMA NodeNamePairs ==
    ASSUME doc \in Documents
    PROVE  /\ \A p \in Scalars \cup Names \cup Params : p[1] = NodeKey =>
                 \E e \in P!ToSet(P!Bodies("soc")) : e[1] = "node_name" /\ e[2] = p[2]
           /\ \A e \in P!ToSet(P!Bodies("soc")) : e[1] = "node_name" =>
                 \E p \in Scalars \cup Names \cup Params : p[1] = NodeKey /\ p[2] = e[2]
<1>1. ASSUME NEW p \in Scalars, p[1] = NodeKey
      PROVE  \E e \in P!ToSet(P!Bodies("soc")) : e[1] = "node_name" /\ e[2] = p[2]
  <2>1. PICK s \in DOMAIN P!FlatKeys : \E e \in P!ToSet(P!Bodies(s)) : p = <<<<s, e[1]>>, e[2]>>
    BY DEF Scalars
  <2>2. PICK e \in P!ToSet(P!Bodies(s)) : p = <<<<s, e[1]>>, e[2]>>
    BY <2>1
  <2>3. s = "soc" /\ e[1] = "node_name" /\ p[2] = e[2]
    BY <1>1, <2>2 DEF NodeKey
  <2> QED BY <2>2, <2>3
<1>2. ASSUME NEW p \in Names PROVE p[1] # NodeKey
  <2>1. PICK e \in P!ToSet(P!Bodies("algorithms")) : p = <<<<e.sub, "name">>, e.name>>
    BY DEF Names
  <2> QED BY <2>1 DEF NodeKey
<1>3. ASSUME NEW p \in Params PROVE p[1] # NodeKey
  <2>1. PICK e \in P!ToSet(P!Bodies("algorithms")) :
           \E x \in P!ToSet(e.params) : p = <<<<e.sub, x[1]>>, x[2]>>
    BY DEF Params
  <2>2. PICK x : p = <<<<e.sub, x[1]>>, x[2]>>
    BY <2>1
  <2>3. e.sub # "soc"
    BY <2>1, AlgorithmsAreNotSoc
  <2> QED BY <2>2, <2>3 DEF NodeKey
<1>4. ASSUME NEW e \in P!ToSet(P!Bodies("soc")), e[1] = "node_name"
      PROVE  \E p \in Scalars : p[1] = NodeKey /\ p[2] = e[2]
  <2>1. "soc" \in DOMAIN P!FlatKeys
    BY DEF P!FlatKeys
  <2>2. PICK p : p = <<<<"soc", e[1]>>, e[2]>>
    OBVIOUS
  <2>3. p \in Scalars
    BY <2>1, <2>2 DEF Scalars
  <2>4. p[1] = NodeKey /\ p[2] = e[2]
    BY <1>4, <2>2 DEF NodeKey
  <2> QED BY <2>3, <2>4
<1> QED BY <1>1, <1>2, <1>3, <1>4

\* No node is configured.
Nameless == \A p \in P!ToSet(P!Bodies("soc")) : p[1] = "node_name" => p[2] = ""

LEMMA NodeSetting ==
    ASSUME doc \in Documents, cfg.settings = P!DocumentedSettings
    PROVE  P!Setting("soc", "node_name", "") = "" <=> Nameless
<1>1. PICK pairs : pairs = Scalars \cup Names \cup Params
  OBVIOUS
<1>2. P!DocumentedSettings = P!AsFunction(pairs)
  BY <1>1 DEF P!DocumentedSettings, Scalars, Names, Params
<1>3. PICK v : v = P!Setting("soc", "node_name", "")
  OBVIOUS
<1>4. PICK f : f = P!AsFunction(pairs)
  OBVIOUS
<1>5. v = IF NodeKey \in DOMAIN f THEN f[NodeKey] ELSE ""
  BY <1>2, <1>3, <1>4 DEF P!Setting, NodeKey
<1>6. PICK soc : soc = P!ToSet(P!Bodies("soc"))
  OBVIOUS
<1>7. /\ \A p \in pairs : p[1] = NodeKey => \E e \in soc : e[1] = "node_name" /\ e[2] = p[2]
      /\ \A e \in soc : e[1] = "node_name" => \E p \in pairs : p[1] = NodeKey /\ p[2] = e[2]
      /\ \A p, q \in soc : p[1] = q[1] => p[2] = q[2]
  BY <1>1, <1>6, NodeNamePairs, SocIsFunction
<1>8. CASE NodeKey \in DOMAIN f
  <2>1. PICK p \in pairs : p[1] = NodeKey /\ f[NodeKey] = p[2]
    BY <1>4, <1>8, AsFunctionFacts
  <2>2. PICK e \in soc : e[1] = "node_name" /\ e[2] = p[2]
    BY <1>7, <2>1
  <2>3. v = e[2]
    BY <1>5, <1>8, <2>1, <2>2
  <2>4. \A q \in soc : q[1] = "node_name" => q[2] = v
    BY <1>7, <2>2, <2>3
  <2> QED BY <1>3, <1>6, <2>2, <2>3, <2>4 DEF Nameless
<1>9. CASE NodeKey \notin DOMAIN f
  <2>1. \A p \in pairs : p[1] # NodeKey
    BY <1>4, <1>9, AsFunctionFacts
  <2>2. \A e \in soc : e[1] # "node_name"
    BY <1>7, <2>1
  <2> QED BY <1>3, <1>5, <1>6, <1>9, <2>2 DEF Nameless
<1> QED BY <1>8, <1>9

\* The environment names no node, or an empty NODE_NAME hides the HOSTNAME.
NoneInEnvironment == env.NODE_NAME = "" \/ {env.NODE_NAME, env.HOSTNAME} \subseteq {"", Unset}

LEMMA NodeResolved ==
    ASSUME NEW name
    PROVE  P!ResolveNodeName(name) = "" <=> name = "" /\ NoneInEnvironment
BY UnsetAssumption DEF P!ResolveNodeName, NoneInEnvironment

\* severity_for takes the first rule.
LEMMA SeverityIsFirst ==
    ASSUME NEW type, IsSeq(cfg.rules), NEW places,
           places = {k \in DOMAIN cfg.rules : cfg.rules[k].type = type}
    PROVE  /\ places = {} => P!SeverityFor(type) = P!DefaultSeverity(type)
           /\ \A k \in places : (\A j \in places : k <= j) =>
                 P!SeverityFor(type) = P!ParseSeverity(cfg.rules[k].severity)
<1>1. places = P!RulesFor(type)
  BY DEF P!RulesFor
<1>2. places = {} => P!SeverityFor(type) = P!DefaultSeverity(type)
  BY <1>1 DEF P!SeverityFor
<1>3. ASSUME NEW k \in places, \A j \in places : k <= j
      PROVE  P!SeverityFor(type) = P!ParseSeverity(cfg.rules[k].severity)
  <2>1. PICK set : cfg.rules \in Seq(set)
    BY DEF IsSeq
  <2>2. places \subseteq Nat
    BY <2>1
  <2>3. \A x \in places : (\A y \in places : x <= y) => x = k
    <3>1. ASSUME NEW x \in places, \A y \in places : x <= y PROVE x = k
      <4>1. x <= k /\ k <= x /\ x \in Nat /\ k \in Nat
        BY <1>3, <2>2, <3>1
      <4> QED BY <4>1
    <3> QED BY <3>1
  <2>4. P!Min(places) = k
    BY <1>3, <2>3 DEF P!Min
  <2>5. P!SeverityFor(type) = P!ParseSeverity(cfg.rules[P!Min(places)].severity)
    BY <1>1 DEF P!SeverityFor
  <2> QED BY <2>4, <2>5
<1> QED BY <1>2, <1>3

(***************************************************************************)
(* The invariant: what was loaded stays what the document says, and the    *)
(* alert that goes to the first handler was built from it.                 *)
(***************************************************************************)
FromDocument == cfg.rules = P!Bodies("severity_rules") /\ cfg.settings = P!DocumentedSettings

AlertInv ==
    /\ doc \in Documents
    /\ phase \in {"algorithms", "source", "handlers", "running"} => FromDocument
    /\ P!AlertsAsConfigured

\* What AlertsAsConfigured reads of the state.
LEMMA AlertStays ==
    ASSUME P!AlertsAsConfigured, doc' = doc, env' = env, sent' = sent, next' = next \/ next' # 1
    PROVE  P!AlertsAsConfigured'
<1>1. \A section : P!Bodies(section)' = P!Bodies(section)
  BY DEF P!Bodies
<1>2. P!Documented.rules' = P!Documented.rules
  BY <1>1 DEF P!Documented
<1>3. CASE next' # 1
  BY <1>3 DEF P!AlertsAsConfigured
<1>4. CASE next' = next
  BY <1>1, <1>2, <1>4 DEF P!AlertsAsConfigured, P!Last
<1> QED BY <1>3, <1>4

LEMMA DocumentKept ==
    ASSUME doc' = doc, cfg' = cfg
    PROVE  FromDocument' <=> FromDocument
BY DEF FromDocument, P!DocumentedSettings, P!Bodies

LEMMA RaiseAsConfigured ==
    ASSUME ChainInv, AlertInv, NEW type, P!RaiseAlert(type)
    PROVE  P!AlertsAsConfigured'
<1>1. /\ phase = "running" /\ doc' = doc /\ env' = env /\ next' = 1
      /\ sent' = Append(sent, [type |-> type, severity |-> P!SeverityFor(type),
                               node |-> P!ResolveNodeName(P!Setting("soc", "node_name", "")),
                               namespace |-> P!ResolveNamespace(P!Setting("soc", "namespace", ""))])
  BY DEF P!RaiseAlert
<1>2. doc \in Documents /\ FromDocument
  BY <1>1 DEF AlertInv
<1>3. PICK a : a = [type |-> type, severity |-> P!SeverityFor(type),
                    node |-> P!ResolveNodeName(P!Setting("soc", "node_name", "")),
                    namespace |-> P!ResolveNamespace(P!Setting("soc", "namespace", ""))]
  OBVIOUS
<1>4. P!Last(sent') = a
  <2>1. IsSeq(sent) /\ sent' = Append(sent, a)
    BY <1>1, <1>3 DEF ChainInv
  <2>2. Len(Append(sent, a)) = Len(sent) + 1 /\ Append(sent, a)[Len(sent) + 1] = a
    BY <2>1, AppendIsSeq
  <2> QED BY <2>1, <2>2 DEF P!Last
<1>5. PICK rules : rules = P!Bodies("severity_rules")
  OBVIOUS
<1>6. cfg.rules = rules /\ IsSeq(rules)
  BY <1>2, <1>5, RulesAreSeq DEF FromDocument
<1>7. PICK places : places = {k \in DOMAIN rules : rules[k].type = a.type}
  OBVIOUS
<1>8. a.type = type /\ a.severity = P!SeverityFor(type)
  BY <1>3
<1>9. /\ places = {} => a.severity = P!DefaultSeverity(a.type)
      /\ \A k \in places : (\A j \in places : k <= j) =>
            a.severity = P!ParseSeverity(rules[k].severity)
  <2>1. places = {k \in DOMAIN cfg.rules : cfg.rules[k].type = type}
    BY <1>6, <1>7, <1>8
  <2> HIDE DEF P!SeverityFor
  <2> QED BY <1>6, <1>8, <2>1, SeverityIsFirst
<1>10. a.node = "" <=> Nameless /\ NoneInEnvironment
  <2>1. a.node = P!ResolveNodeName(P!Setting("soc", "node_name", ""))
    BY <1>3
  <2> QED BY <1>2, <2>1, NodeSetting, NodeResolved DEF FromDocument
<1>11. Nameless' = Nameless /\ NoneInEnvironment' = NoneInEnvironment
  BY <1>1 DEF Nameless, NoneInEnvironment, P!Bodies
<1>12. P!Documented.rules' = rules
  <2>1. P!Bodies("severity_rules")' = P!Bodies("severity_rules")
    BY <1>1 DEF P!Bodies
  <2> QED BY <1>5, <2>1 DEF P!Documented
<1>13. (a.node = "") = (Nameless' /\ NoneInEnvironment')
  BY <1>10, <1>11 DEF Nameless, NoneInEnvironment
<1> QED BY <1>4, <1>7, <1>9, <1>12, <1>13 DEF P!AlertsAsConfigured, Nameless, NoneInEnvironment

LEMMA AlertStep ==
    ASSUME ChainInv, AlertInv, P!Next, P!LoadsDocument'
    PROVE  AlertInv'
<1>1. CASE P!LoadFile
  <2>1. /\ doc' = doc /\ env' = env /\ sent' = sent /\ next' = next
        /\ phase' \in {"exit 1", "algorithms"}
    BY <1>1 DEF P!LoadFile, P!Exit
  <2>2. ASSUME phase' = "algorithms" PROVE FromDocument'
    <3>1. cfg' = P!Documented'
      BY <2>2 DEF P!LoadsDocument
    <3>2. /\ P!Documented'.rules = P!Bodies("severity_rules")'
          /\ P!Documented'.settings = P!DocumentedSettings'
      BY DEF P!Documented
    <3> QED BY <3>1, <3>2 DEF FromDocument
  <2>3. P!AlertsAsConfigured'
    BY <2>1, AlertStays DEF AlertInv
  <2> QED BY <2>1, <2>2, <2>3 DEF AlertInv
<1>2. CASE \E type \in P!AlertTypes : P!RaiseAlert(type)
  <2>1. PICK type : P!RaiseAlert(type)
    BY <1>2
  <2>2. phase = "running" /\ doc' = doc /\ cfg' = cfg
    BY <2>1 DEF P!RaiseAlert
  <2>3. FromDocument'
    BY <2>2, DocumentKept DEF AlertInv
  <2>4. P!AlertsAsConfigured'
    BY <2>1, RaiseAsConfigured
  <2> QED BY <2>2, <2>3, <2>4 DEF AlertInv
<1>3. CASE P!HandlerFails \/ P!StreamBreaks \/ P!HandlerDelivers
  <2>1. /\ doc' = doc /\ cfg' = cfg /\ env' = env /\ sent' = sent /\ phase' = phase
        /\ P!NextHandler /\ (next > 0 \/ next \in healthy)
    BY <1>3 DEF P!HandlerFails, P!StreamBreaks, P!HandlerDelivers
  <2>2. next \in Nat /\ next > 0
    <3>1. next \in Nat /\ (next \in healthy => next \in Nat \ {0})
      BY DEF ChainInv
    <3>2. next # 0
      BY <2>1, <3>1
    <3> QED BY <3>1, <3>2
  <2>3. next' # 1
    BY <2>1, <2>2 DEF P!NextHandler
  <2>4. P!AlertsAsConfigured' /\ (FromDocument' <=> FromDocument)
    BY <2>1, <2>3, AlertStays, DocumentKept DEF AlertInv
  <2> QED BY <2>1, <2>4 DEF AlertInv
<1>4. CASE \/ P!CreateAlgorithms \/ P!OpenSource \/ P!CreateHandler \/ P!StartLoop
           \/ P!EndOfInput
  <2>1. doc' = doc /\ cfg' = cfg /\ env' = env /\ sent' = sent /\ next' = next
    BY <1>4 DEF P!CreateAlgorithms, P!OpenSource, P!CreateHandler, P!StartLoop, P!EndOfInput
  <2>2. phase' \in {"algorithms", "source", "handlers", "running"} =>
           phase \in {"algorithms", "source", "handlers", "running"}
    BY <1>4 DEF P!CreateAlgorithms, P!OpenSource, P!CreateHandler, P!StartLoop, P!EndOfInput, P!Exit
  <2>3. P!AlertsAsConfigured' /\ (FromDocument' <=> FromDocument)
    BY <2>1, AlertStays, DocumentKept DEF AlertInv
  <2> QED BY <2>1, <2>2, <2>3 DEF AlertInv
<1> QED BY <1>1, <1>2, <1>3, <1>4 DEF P!Next

(***************************************************************************)
(* For any set of documents and environments: if load_config meets its     *)
(* contract, every alert carries the severity of the first rule its        *)
(* configuration has for it, or the default, and it names no node only     *)
(* when neither configuration nor environment does, or an empty NODE_NAME  *)
(* hides the HOSTNAME.                                                     *)
(***************************************************************************)
THEOREM AlertsFollowDocument == Spec /\ []LoadsDocument => []AlertsAsConfigured
<1> DEFINE Inv == running = "main" => ChainInv /\ AlertInv
<1>1. Init => Inv
  <2> SUFFICES ASSUME Init, running = "main" PROVE ChainInv /\ AlertInv
    OBVIOUS
  <2>1. P!Init
    BY DEF Init
  <2>2. ChainInv
    BY <2>1, ChainStarts
  <2>3. doc \in Documents /\ phase = "loading" /\ next = 0
    BY <2>1 DEF P!Init
  <2>4. AlertInv
    BY <2>3 DEF AlertInv, P!AlertsAsConfigured
  <2> QED BY <2>2, <2>4
<1>2. Inv /\ [Next]_vars /\ LoadsDocument' => Inv'
  <2> SUFFICES ASSUME Inv, [Next]_vars, LoadsDocument', running' = "main" PROVE ChainInv' /\ AlertInv'
    OBVIOUS
  <2>1. CASE UNCHANGED vars
    <3>1. /\ ChainInv /\ AlertInv
          /\ UNCHANGED <<chain, healthy, sent, next, alertsCount, out, missed, phase, stats>>
          /\ doc' = doc /\ cfg' = cfg /\ env' = env
      BY <2>1 DEF vars, mainVars
    <3>2. ChainInv'
      BY <3>1, QuietKeeps DEF QuietPhase
    <3>3. P!AlertsAsConfigured' /\ (FromDocument' <=> FromDocument)
      BY <3>1, AlertStays, DocumentKept DEF AlertInv
    <3> QED BY <3>1, <3>2, <3>3 DEF AlertInv
  <2>2. CASE Next
    <3>1. running = "main" /\ P!Next
      BY <2>2 DEF Next
    <3>2. P!LoadsDocument'
      BY DEF LoadsDocument
    <3> QED BY <3>1, <3>2, ChainStep, AlertStep
  <2> QED BY <2>1, <2>2
<1>3. Inv => AlertsAsConfigured
  BY DEF AlertsAsConfigured, AlertInv
<1> QED BY <1>1, <1>2, <1>3, PTL DEF Spec

-----------------------------------------------------------------------------
(***************************************************************************)
(* Kosaraju, the first pass.  Its finish order is right if a vertex that   *)
(* leads to one that finishes later is not the last of its component to    *)
(* finish: the path leaves what has finished by then at a vertex that is   *)
(* still open, and from every open vertex one gets to the one that         *)
(* finishes.                                                               *)
(***************************************************************************)

\* The first i entries of a list of vertices.
Firsts(list, i) == {list[k] : k \in 1..i}

FinishOrder(es, fin) ==
    \A i \in 1..Len(fin) :
        Reach(es, fin[i]) \subseteq Firsts(fin, i)
        \/ \E x \in SccOf(es, fin[i]) : x \notin Firsts(fin, i)

\* A stack entry is a postvisit marker.
IsPost(entry) == entry[2]

\* x is open: its postvisit marker is on the stack, its neighbours are above it.
Open(st, x) == \E k \in 1..Len(st) : st[k][1] = x /\ IsPost(st[k])

\* w waits above entry j of the stack.
Above(st, j, w) == \E k \in 1..Len(st) : j < k /\ st[k][1] = w /\ ~IsPost(st[k])

SearchTypes(es, vis, st, fin) ==
    /\ es \in SUBSET (Hosts \X Hosts) /\ vis \subseteq Vertices(es)
    /\ st \in Seq(Vertices(es) \X BOOLEAN) /\ fin \in Seq(Vertices(es))

\* A vertex was visited if it is finished or open, and it is one of them once.
VisitedOnce(vis, st, fin) ==
    /\ \A x : x \in vis <=> x \in Firsts(fin, Len(fin)) \/ Open(st, x)
    /\ \A x : ~(x \in Firsts(fin, Len(fin)) /\ Open(st, x))
    /\ \A j, k \in 1..Len(fin) : fin[j] = fin[k] => j = k
    /\ \A j, k \in 1..Len(st) :
          st[j][1] = st[k][1] /\ IsPost(st[j]) /\ IsPost(st[k]) => j = k

\* An open vertex leads to all above it.
OpenLeadsUp(es, st) ==
    \A j, k \in 1..Len(st) : j < k /\ IsPost(st[j]) => st[k][1] \in Reach(es, st[j][1])

\* A neighbour of an open vertex was visited or is above it; one of a finished
\* vertex was visited.
NothingMissed(es, vis, st, fin) ==
    /\ \A j \in 1..Len(st) : IsPost(st[j]) =>
          \A w \in Neighbors(es, st[j][1]) : w \in vis \/ Above(st, j, w)
    /\ \A k \in 1..Len(fin) : Neighbors(es, fin[k]) \subseteq vis

Search(es, vis, st, fin) ==
    /\ SearchTypes(es, vis, st, fin) /\ VisitedOnce(vis, st, fin)
    /\ OpenLeadsUp(es, st) /\ NothingMissed(es, vis, st, fin) /\ FinishOrder(es, fin)

\* t is s without its last element.
IsFront(t, s, set) ==
    /\ Len(s) \in Nat /\ Len(s) > 0 /\ Len(s) \in 1..Len(s) /\ s[Len(s)] \in set
    /\ t \in Seq(set) /\ Len(t) = Len(s) - 1
    /\ \A k \in 1..Len(t) : k \in 1..Len(s) /\ k # Len(s) /\ t[k] = s[k]
    /\ \A k \in 1..Len(s) : k = Len(s) \/ k \in 1..Len(t)

LEMMA FrontFacts ==
    ASSUME NEW set, NEW s \in Seq(set), s # << >>, NEW t, t = SubSeq(s, 1, Len(s) - 1)
    PROVE  IsFront(t, s, set)
<1>1. PICK top \in Nat : top = Len(s)
  OBVIOUS
<1>2. top > 0 /\ top - 1 \in Int /\ \A i \in 1..(top - 1) : s[i] \in set
  BY <1>1
<1>3. /\ SubSeq(s, 1, top - 1) \in Seq(set)
      /\ Len(SubSeq(s, 1, top - 1)) = IF 1 <= top - 1 THEN (top - 1) - 1 + 1 ELSE 0
      /\ \A i \in 1..((top - 1) - 1 + 1) : SubSeq(s, 1, top - 1)[i] = s[1 + i - 1]
  BY <1>2, SubSeqProperties
<1>4. t \in Seq(set) /\ Len(t) = IF 1 <= top - 1 THEN (top - 1) - 1 + 1 ELSE 0
  BY <1>1, <1>3
<1>5. Len(t) = top - 1
  BY <1>2, <1>4
<1>6. ASSUME NEW k \in 1..Len(t) PROVE k \in 1..top /\ k # top /\ t[k] = s[k]
  <2>1. k \in 1..((top - 1) - 1 + 1) /\ 1 + k - 1 = k /\ k \in 1..top /\ k # top
    BY <1>2, <1>5
  <2> QED BY <1>1, <1>3, <2>1
<1>7. s[top] \in set /\ top \in 1..top
  BY <1>1, <1>2
<1>8. \A k \in 1..top : k = top \/ k \in 1..Len(t)
  BY <1>2, <1>5
<1> QED BY <1>1, <1>2, <1>4, <1>5, <1>6, <1>7, <1>8 DEF IsFront

\* A postvisit: the vertex on top finishes.
LEMMA SearchFinishes ==
    ASSUME NEW es, NEW vis, NEW st, NEW fin, NEW st2, NEW fin2, NEW u,
           Search(es, vis, st, fin), st # << >>, st[Len(st)][1] = u, IsPost(st[Len(st)]),
           st2 = SubSeq(st, 1, Len(st) - 1), fin2 = Append(fin, u)
    PROVE  Search(es, vis, st2, fin2)
<1> DEFINE top == Len(st)
           done == Len(fin)
<1>0. /\ SearchTypes(es, vis, st, fin) /\ VisitedOnce(vis, st, fin)
      /\ OpenLeadsUp(es, st) /\ NothingMissed(es, vis, st, fin) /\ FinishOrder(es, fin)
  BY DEF Search
<1>1. /\ top \in Nat /\ top > 0 /\ top \in 1..top /\ st[top] \in Vertices(es) \X BOOLEAN
      /\ st2 \in Seq(Vertices(es) \X BOOLEAN) /\ Len(st2) = top - 1
      /\ \A k \in 1..Len(st2) : k \in 1..top /\ k # top /\ st2[k] = st[k]
      /\ \A k \in 1..top : k = top \/ k \in 1..Len(st2)
  <2>1. st \in Seq(Vertices(es) \X BOOLEAN)
    BY <1>0 DEF SearchTypes
  <2>2. IsFront(st2, st, Vertices(es) \X BOOLEAN)
    BY <2>1, FrontFacts
  <2> QED BY <2>2 DEF IsFront
<1>2. u \in Vertices(es) /\ u \in Hosts /\ es \in SUBSET (Hosts \X Hosts)
  <2>1. st[top][1] \in Vertices(es) /\ es \in SUBSET (Hosts \X Hosts)
    BY <1>0, <1>1 DEF SearchTypes
  <2> QED BY <2>1, VerticesFacts
<1>3. /\ fin2 \in Seq(Vertices(es)) /\ Len(fin2) = done + 1 /\ fin2[done + 1] = u
      /\ done \in Nat /\ \A k \in 1..done : fin2[k] = fin[k]
  <2>1. fin \in Seq(Vertices(es))
    BY <1>0 DEF SearchTypes
  <2> QED BY <1>2, <2>1, AppendProperties
<1>4. /\ Firsts(fin2, done + 1) = Firsts(fin, done) \cup {u}
      /\ \A i \in 1..done : Firsts(fin2, i) = Firsts(fin, i)
  <2>1. 1..(done + 1) = 1..done \cup {done + 1}
    BY <1>3
  <2>2. \A i \in 1..done : \A k \in 1..i : k \in 1..done
    BY <1>3
  <2> QED BY <1>3, <2>1, <2>2 DEF Firsts
<1>5. Open(st, u) /\ u \in vis /\ u \notin Firsts(fin, done)
  BY <1>0, <1>1 DEF VisitedOnce, Open
<1>6. \A x : Open(st2, x) <=> Open(st, x) /\ x # u
  <2>1. \A k \in 1..top : st[k][1] = u /\ IsPost(st[k]) => k = top
    BY <1>0, <1>1 DEF VisitedOnce
  <2>2. ASSUME NEW x, Open(st2, x) PROVE Open(st, x) /\ x # u
    BY <1>1, <2>1, <2>2 DEF Open
  <2>3. ASSUME NEW x, Open(st, x), x # u PROVE Open(st2, x)
    BY <1>1, <2>3 DEF Open
  <2> QED BY <2>2, <2>3
<1>7. \A k \in 1..Len(fin2) : Neighbors(es, fin2[k]) \subseteq vis
  <2>1. Neighbors(es, u) \subseteq vis
    <3>1. \A w : ~Above(st, top, w)
      BY <1>1 DEF Above
    <3> QED BY <1>0, <1>1, <3>1 DEF NothingMissed
  <2>2. \A k \in 1..(done + 1) : k # done + 1 => k \in 1..done
    BY <1>3
  <2> QED BY <1>0, <1>3, <2>1, <2>2 DEF NothingMissed
<1>8. FinishOrder(es, fin2)
  <2>1. ASSUME NEW w \in Reach(es, u), w \notin Firsts(fin2, done + 1)
        PROVE  \E x \in SccOf(es, u) : x \notin Firsts(fin2, done + 1)
    <3>1. PICK h \in Hosts \cap Firsts(fin2, done + 1), g \in Hosts \ Firsts(fin2, done + 1) :
              g \in Neighbors(es, h) /\ h \in Reach(es, u)
      BY <1>2, <1>4, <2>1, ReachLeaves
    <3>2. PICK k \in 1..(done + 1) : h = fin2[k]
      BY DEF Firsts
    <3>3. g \in vis
      BY <1>3, <1>7, <3>1, <3>2
    <3>4. Open(st, g) /\ g # u
      BY <1>0, <1>4, <3>3 DEF VisitedOnce
    <3>5. PICK j \in 1..top : st[j][1] = g /\ IsPost(st[j])
      BY <3>4 DEF Open
    <3>6. j < top
      BY <1>1, <3>4, <3>5
    <3>7. u \in Reach(es, g)
      BY <1>0, <1>1, <3>5, <3>6 DEF OpenLeadsUp
    <3>8. g \in Reach(es, u)
      BY <1>2, <3>1, ReachFacts DEF Closed
    <3> QED BY <3>7, <3>8 DEF SccOf
  <2>2. ASSUME NEW i \in 1..Len(fin2)
        PROVE  Reach(es, fin2[i]) \subseteq Firsts(fin2, i)
               \/ \E x \in SccOf(es, fin2[i]) : x \notin Firsts(fin2, i)
    <3>1. CASE i = done + 1
      BY <1>3, <2>1, <3>1
    <3>2. CASE i # done + 1
      <4>1. i \in 1..done
        BY <1>3, <3>2
      <4> QED BY <1>0, <1>3, <1>4, <4>1 DEF FinishOrder
    <3> QED BY <3>1, <3>2
  <2> QED BY <2>2 DEF FinishOrder
<1>9. NothingMissed(es, vis, st2, fin2)
  <2>1. ASSUME NEW j \in 1..Len(st2), IsPost(st2[j]), NEW w \in Neighbors(es, st2[j][1]), w \notin vis
        PROVE  Above(st2, j, w)
    <3>1. PICK k \in 1..top : j < k /\ st[k][1] = w /\ ~IsPost(st[k])
      BY <1>0, <1>1, <2>1 DEF NothingMissed, Above
    <3>2. k # top
      BY <3>1
    <3> QED BY <1>1, <3>1, <3>2 DEF Above
  <2> QED BY <1>7, <2>1 DEF NothingMissed
<1>10. OpenLeadsUp(es, st2)
  BY <1>0, <1>1 DEF OpenLeadsUp
<1>11. VisitedOnce(vis, st2, fin2)
  <2>1. \A j, k \in 1..Len(fin2) : fin2[j] = fin2[k] => j = k
    <3>1. \A k \in 1..(done + 1) : k # done + 1 => k \in 1..done
      BY <1>3
    <3>2. \A k \in 1..done : fin[k] # u
      BY <1>5 DEF Firsts
    <3> QED BY <1>0, <1>3, <3>1, <3>2 DEF VisitedOnce
  <2>2. \A j, k \in 1..Len(st2) :
            st2[j][1] = st2[k][1] /\ IsPost(st2[j]) /\ IsPost(st2[k]) => j = k
    BY <1>0, <1>1 DEF VisitedOnce
  <2>3. \A x : x \in vis <=> x \in Firsts(fin, done) \/ Open(st, x)
    BY <1>0 DEF VisitedOnce
  <2>4. \A x : ~(x \in Firsts(fin, done) /\ Open(st, x))
    BY <1>0 DEF VisitedOnce
  <2>5. /\ \A x : x \in vis <=> x \in Firsts(fin2, done + 1) \/ Open(st2, x)
        /\ \A x : ~(x \in Firsts(fin2, done + 1) /\ Open(st2, x))
    BY <1>4, <1>5, <1>6, <2>3, <2>4
  <2> QED BY <1>3, <2>1, <2>2, <2>5 DEF VisitedOnce
<1>12. SearchTypes(es, vis, st2, fin2)
  BY <1>0, <1>1, <1>3 DEF SearchTypes
<1> QED BY <1>8, <1>9, <1>10, <1>11, <1>12 DEF Search

\* A vertex that was visited since it was pushed is dropped.
LEMMA SearchSkips ==
    ASSUME NEW es, NEW vis, NEW st, NEW fin, NEW st2,
           Search(es, vis, st, fin), st # << >>, ~IsPost(st[Len(st)]),
           st[Len(st)][1] \in vis, st2 = SubSeq(st, 1, Len(st) - 1)
    PROVE  Search(es, vis, st2, fin)
<1> DEFINE top == Len(st)
<1>0. /\ SearchTypes(es, vis, st, fin) /\ VisitedOnce(vis, st, fin)
      /\ OpenLeadsUp(es, st) /\ NothingMissed(es, vis, st, fin) /\ FinishOrder(es, fin)
  BY DEF Search
<1>1. /\ top \in Nat /\ top > 0 /\ top \in 1..top
      /\ st2 \in Seq(Vertices(es) \X BOOLEAN) /\ Len(st2) = top - 1
      /\ \A k \in 1..Len(st2) : k \in 1..top /\ k # top /\ st2[k] = st[k]
      /\ \A k \in 1..top : k = top \/ k \in 1..Len(st2)
  <2>1. st \in Seq(Vertices(es) \X BOOLEAN)
    BY <1>0 DEF SearchTypes
  <2>2. IsFront(st2, st, Vertices(es) \X BOOLEAN)
    BY <2>1, FrontFacts
  <2> QED BY <2>2 DEF IsFront
<1>2. \A x : Open(st2, x) <=> Open(st, x)
  <2>1. ASSUME NEW x, Open(st2, x) PROVE Open(st, x)
    BY <1>1, <2>1 DEF Open
  <2>2. ASSUME NEW x, Open(st, x) PROVE Open(st2, x)
    BY <1>1, <2>2 DEF Open
  <2> QED BY <2>1, <2>2
<1>3. VisitedOnce(vis, st2, fin)
  <2>1. \A j, k \in 1..Len(st2) :
            st2[j][1] = st2[k][1] /\ IsPost(st2[j]) /\ IsPost(st2[k]) => j = k
    BY <1>0, <1>1 DEF VisitedOnce
  <2> QED BY <1>0, <1>2, <2>1 DEF VisitedOnce
<1>4. NothingMissed(es, vis, st2, fin)
  <2>1. ASSUME NEW j \in 1..Len(st2), IsPost(st2[j]), NEW w \in Neighbors(es, st2[j][1]), w \notin vis
        PROVE  Above(st2, j, w)
    <3>1. PICK k \in 1..top : j < k /\ st[k][1] = w /\ ~IsPost(st[k])
      BY <1>0, <1>1, <2>1 DEF NothingMissed, Above
    <3>2. k # top
      BY <2>1, <3>1
    <3> QED BY <1>1, <3>1, <3>2 DEF Above
  <2> QED BY <1>0, <2>1 DEF NothingMissed
<1>5. OpenLeadsUp(es, st2)
  BY <1>0, <1>1 DEF OpenLeadsUp
<1>6. SearchTypes(es, vis, st2, fin)
  BY <1>0, <1>1 DEF SearchTypes
<1> QED BY <1>0, <1>3, <1>4, <1>5, <1>6 DEF Search

\* st2 is st with vertex u on top opened and its unvisited neighbours above it.
Opened(es, vis, st, u, st2) ==
    /\ st2 \in Seq(Vertices(es) \X BOOLEAN) /\ Len(st2) >= Len(st)
    /\ \A k \in 1..Len(st2) :
          /\ k < Len(st) => st2[k] = st[k]
          /\ k = Len(st) => st2[k][1] = u /\ IsPost(st2[k])
          /\ k > Len(st) => st2[k][1] \in Neighbors(es, u) /\ ~IsPost(st2[k])
    /\ \A w \in Neighbors(es, u) :
          w \in vis \/ w = u \/ \E k \in 1..Len(st2) :
              k > Len(st) /\ st2[k][1] = w /\ ~IsPost(st2[k])

LEMMA SearchOpens ==
    ASSUME NEW es, NEW vis, NEW st, NEW fin, NEW st2, NEW u, NEW vis2,
           Search(es, vis, st, fin), st # << >>, st[Len(st)][1] = u, ~IsPost(st[Len(st)]),
           u \notin vis, vis2 = vis \cup {u}, Opened(es, vis, st, u, st2)
    PROVE  Search(es, vis2, st2, fin)
<1> DEFINE top == Len(st)
<1>0. /\ SearchTypes(es, vis, st, fin) /\ VisitedOnce(vis, st, fin)
      /\ OpenLeadsUp(es, st) /\ NothingMissed(es, vis, st, fin) /\ FinishOrder(es, fin)
  BY DEF Search
<1>1. /\ top \in Nat /\ top > 0 /\ top \in 1..top /\ st[top] \in Vertices(es) \X BOOLEAN
  <2>1. st \in Seq(Vertices(es) \X BOOLEAN)
    BY <1>0 DEF SearchTypes
  <2> QED BY <2>1
<1>2. u \in Vertices(es) /\ u \in Hosts /\ es \in SUBSET (Hosts \X Hosts)
  <2>1. st[top][1] \in Vertices(es) /\ es \in SUBSET (Hosts \X Hosts)
    BY <1>0, <1>1 DEF SearchTypes
  <2> QED BY <2>1, VerticesFacts
<1>3. /\ st2 \in Seq(Vertices(es) \X BOOLEAN) /\ Len(st2) \in Nat /\ top <= Len(st2)
      /\ \A k \in 1..Len(st2) : k < top => k \in 1..top /\ st2[k] = st[k]
      /\ st2[top][1] = u /\ IsPost(st2[top]) /\ top \in 1..Len(st2)
      /\ \A k \in 1..Len(st2) : k > top => st2[k][1] \in Neighbors(es, u) /\ ~IsPost(st2[k])
      /\ \A k \in 1..top : k \in 1..Len(st2)
  BY <1>1 DEF Opened
<1>4. \A x : Open(st2, x) <=> Open(st, x) \/ x = u
  <2>1. ASSUME NEW x, Open(st2, x) PROVE Open(st, x) \/ x = u
    <3>1. PICK k \in 1..Len(st2) : st2[k][1] = x /\ IsPost(st2[k])
      BY <2>1 DEF Open
    <3>2. k <= top
      BY <1>1, <1>3, <3>1
    <3> QED BY <1>1, <1>3, <3>1, <3>2 DEF Open
  <2>2. ASSUME NEW x, Open(st, x) PROVE Open(st2, x)
    <3>1. PICK k \in 1..top : st[k][1] = x /\ IsPost(st[k])
      BY <2>2 DEF Open
    <3>2. k # top
      BY <3>1
    <3>3. k \in 1..Len(st2) /\ k < top
      BY <1>1, <1>3, <3>2
    <3> QED BY <1>3, <3>1, <3>3 DEF Open
  <2>3. Open(st2, u)
    BY <1>3 DEF Open
  <2> QED BY <2>1, <2>2, <2>3
<1>5. VisitedOnce(vis2, st2, fin)
  <2>1. ASSUME NEW j \in 1..Len(st2), NEW k \in 1..Len(st2),
               st2[j][1] = st2[k][1], IsPost(st2[j]), IsPost(st2[k])
        PROVE  j = k
    <3>1. j <= top /\ k <= top
      BY <1>1, <1>3, <2>1
    <3>2. \A i \in 1..top : IsPost(st[i]) => st[i][1] # u
      BY <1>0 DEF VisitedOnce, Open
    <3>3. CASE j = top
      BY <1>1, <1>3, <2>1, <3>1, <3>2, <3>3
    <3>4. CASE k = top
      BY <1>1, <1>3, <2>1, <3>1, <3>2, <3>4
    <3>5. CASE j < top /\ k < top
      <4>1. j \in 1..top /\ k \in 1..top /\ st2[j] = st[j] /\ st2[k] = st[k]
        BY <1>3, <3>5
      <4> QED BY <1>0, <2>1, <4>1 DEF VisitedOnce
    <3> QED BY <1>1, <3>1, <3>3, <3>4, <3>5
  <2>2. \A x : x \in vis <=> x \in Firsts(fin, Len(fin)) \/ Open(st, x)
    BY <1>0 DEF VisitedOnce
  <2>3. \A x : ~(x \in Firsts(fin, Len(fin)) /\ Open(st, x))
    BY <1>0 DEF VisitedOnce
  <2>4. /\ \A x : x \in vis2 <=> x \in Firsts(fin, Len(fin)) \/ Open(st2, x)
        /\ \A x : ~(x \in Firsts(fin, Len(fin)) /\ Open(st2, x))
    BY <1>4, <2>2, <2>3
  <2>5. \A j, k \in 1..Len(fin) : fin[j] = fin[k] => j = k
    BY <1>0 DEF VisitedOnce
  <2> QED BY <2>1, <2>4, <2>5 DEF VisitedOnce
<1>6. OpenLeadsUp(es, st2)
  <2> SUFFICES ASSUME NEW j \in 1..Len(st2), NEW k \in 1..Len(st2), j < k, IsPost(st2[j])
               PROVE  st2[k][1] \in Reach(es, st2[j][1])
    BY DEF OpenLeadsUp
  <2>1. j <= top
    BY <1>1, <1>3
  <2>2. CASE j = top
    <3>1. st2[j][1] = u /\ st2[k][1] \in Neighbors(es, u)
      BY <1>1, <1>3, <2>2
    <3> QED BY <1>2, <3>1, ReachNeighbor
  <2>3. CASE j < top
    <3>1. j \in 1..top /\ st2[j] = st[j]
      BY <1>3, <2>3
    <3>2. u \in Reach(es, st2[j][1])
      BY <1>0, <1>1, <2>3, <3>1 DEF OpenLeadsUp
    <3>3. CASE k < top
      <4>1. k \in 1..top /\ st2[k] = st[k]
        BY <1>3, <3>3
      <4> QED BY <1>0, <3>1, <4>1 DEF OpenLeadsUp
    <3>4. CASE k = top
      BY <1>3, <3>2, <3>4
    <3>5. CASE k > top
      <4>1. st2[j] \in Vertices(es) \X BOOLEAN
        BY <1>3
      <4>2. st2[j][1] \in Hosts
        BY <1>2, <4>1, VerticesFacts
      <4> QED BY <1>2, <1>3, <3>2, <3>5, <4>2, ReachFacts DEF Closed
    <3> QED BY <1>1, <3>3, <3>4, <3>5
  <2> QED BY <1>1, <2>1, <2>2, <2>3
<1>7. NothingMissed(es, vis2, st2, fin)
  <2>1. ASSUME NEW j \in 1..Len(st2), IsPost(st2[j]), NEW w \in Neighbors(es, st2[j][1]), w \notin vis2
        PROVE  Above(st2, j, w)
    <3>1. j <= top
      BY <1>1, <1>3, <2>1
    <3>2. CASE j = top
      BY <1>3, <2>1, <3>2 DEF Opened, Above
    <3>3. CASE j < top
      <4>1. j \in 1..top /\ st2[j] = st[j]
        BY <1>3, <3>3
      <4>2. PICK k \in 1..top : j < k /\ st[k][1] = w /\ ~IsPost(st[k])
        BY <1>0, <2>1, <4>1 DEF NothingMissed, Above
      <4>3. k # top
        BY <2>1, <4>2
      <4>4. k \in 1..Len(st2) /\ k < top
        BY <1>1, <1>3, <4>3
      <4> QED BY <1>3, <4>2, <4>4 DEF Above
    <3> QED BY <1>1, <1>3, <3>1, <3>2, <3>3
  <2> QED BY <1>0, <2>1 DEF NothingMissed
<1>8. SearchTypes(es, vis2, st2, fin)
  BY <1>0, <1>2, <1>3 DEF SearchTypes
<1> QED BY <1>0, <1>5, <1>6, <1>7, <1>8 DEF Search

\* A root: one vertex on an empty stack.
LEMMA SearchStarts ==
    ASSUME NEW es, NEW vis, NEW fin, Search(es, vis, << >>, fin),
           NEW e \in Vertices(es) \X BOOLEAN, ~IsPost(e), NEW st2, st2 = <<e>>
    PROVE  Search(es, vis, st2, fin)
<1>2. /\ st2 \in Seq(Vertices(es) \X BOOLEAN) /\ Len(st2) = 1
      /\ st2[1] = e
  OBVIOUS
<1>3. \A j, k \in 1..Len(st2) : ~(j < k) /\ j = k /\ ~IsPost(st2[j])
  <2>1. \A j \in 1..Len(st2) : j = 1
    BY <1>2
  <2> QED BY <1>2, <2>1
<1>4. \A x : ~Open(st2, x) /\ ~Open(<< >>, x)
  <2>1. \A k \in 1..Len(<< >>) : FALSE
    OBVIOUS
  <2> QED BY <1>3, <2>1 DEF Open
<1>5. SearchTypes(es, vis, << >>, fin) /\ VisitedOnce(vis, << >>, fin)
      /\ NothingMissed(es, vis, << >>, fin) /\ FinishOrder(es, fin)
  BY DEF Search
<1>6. VisitedOnce(vis, st2, fin)
  BY <1>3, <1>4, <1>5 DEF VisitedOnce
<1>7. OpenLeadsUp(es, st2)
  BY <1>3 DEF OpenLeadsUp
<1>8. NothingMissed(es, vis, st2, fin)
  BY <1>3, <1>5 DEF NothingMissed
<1>9. SearchTypes(es, vis, st2, fin)
  BY <1>2, <1>5 DEF SearchTypes
<1> QED BY <1>5, <1>6, <1>7, <1>8, <1>9 DEF Search

(***************************************************************************)
(* Kosaraju, the second pass: waiting is the set of vertices on the stack. *)
(* While a component grows from its root no vertex outside it leads to the *)
(* root, except those of components that were stored: the finish order has *)
(* put every other one before the root.                                    *)
(***************************************************************************)
Waiting(st) == {st[k][1] : k \in 1..Len(st)}

Growing(es, r, vis, wait, c, found) ==
    /\ r \in c \cup wait /\ c \subseteq SccOf(es, r) /\ wait \subseteq SccOf(es, r) \cup vis
    /\ \A x \in SccOf(es, r) : x \notin UNION found
    /\ \A x \in c : \A y : x \in Neighbors(es, y) => y \in vis \cup wait
    /\ \A y \in Vertices(es) : r \in Reach(es, y) /\ y \notin UNION found => y \in SccOf(es, r)

CollectTypes(es, wait, fin, found) ==
    /\ es \in SUBSET (Hosts \X Hosts) /\ fin \in Seq(Vertices(es)) /\ wait \subseteq Vertices(es)
    /\ found \in SUBSET Sccs(es)

\* Every vertex was collected, waits or is still to be a root.
AllAccounted(es, vis, wait, fin, c, found) ==
    /\ Vertices(es) \subseteq vis \cup Firsts(fin, Len(fin)) \cup wait
    /\ vis = (UNION found) \cup c

InOrder(es, fin) ==
    FinishOrder(es, fin) /\ \A j, k \in 1..Len(fin) : fin[j] = fin[k] => j = k

Collects(es, vis, wait, fin, c, found) ==
    /\ CollectTypes(es, wait, fin, found) /\ InOrder(es, fin)
    /\ AllAccounted(es, vis, wait, fin, c, found)
    /\ wait = {} => c = {}
    /\ wait # {} => \E r \in Vertices(es) : Growing(es, r, vis, wait, c, found)

\* When the first pass ends every vertex has finished.
LEMMA CollectStarts ==
    ASSUME NEW es, NEW vis, NEW fin, Search(es, vis, << >>, fin), Vertices(es) \subseteq vis
    PROVE  Collects(es, {}, {}, fin, {}, {})
<1>1. SearchTypes(es, vis, << >>, fin) /\ VisitedOnce(vis, << >>, fin) /\ FinishOrder(es, fin)
  BY DEF Search
<1>2. \A x : ~Open(<< >>, x)
  <2>1. \A k \in 1..Len(<< >>) : FALSE
    OBVIOUS
  <2> QED BY <2>1 DEF Open
<1>3. Vertices(es) \subseteq Firsts(fin, Len(fin))
  BY <1>1, <1>2 DEF VisitedOnce
<1>4. AllAccounted(es, {}, {}, fin, {}, {})
  BY <1>3 DEF AllAccounted
<1>5. InOrder(es, fin)
  BY <1>1 DEF InOrder, VisitedOnce
<1>6. CollectTypes(es, {}, fin, {})
  BY <1>1 DEF CollectTypes, SearchTypes
<1> QED BY <1>4, <1>5, <1>6 DEF Collects

\* A vertex of a component that was not stored is in none that was.
LEMMA SccsAreApart ==
    ASSUME NEW es \in SUBSET (Hosts \X Hosts), NEW found \in SUBSET Sccs(es),
           NEW v \in Hosts, v \notin UNION found, NEW x \in SccOf(es, v)
    PROVE  x \notin UNION found
<1> SUFFICES ASSUME NEW c \in found, x \in c PROVE FALSE
  OBVIOUS
<1>1. c = SccOf(es, x)
  BY SccsCover
<1>2. v \in SccOf(es, x)
  BY SccOfFacts
<1> QED BY <1>1, <1>2

\* Whatever leads to the next root and is not in its component was stored.
LEMMA RootIsLast ==
    ASSUME NEW es \in SUBSET (Hosts \X Hosts), NEW found \in SUBSET Sccs(es), NEW fin \in Seq(Vertices(es)),
           fin # << >>, InOrder(es, fin), Vertices(es) \subseteq (UNION found) \cup Firsts(fin, Len(fin)),
           NEW y \in Vertices(es), fin[Len(fin)] \in Reach(es, y), y \notin UNION found
    PROVE  y \in SccOf(es, fin[Len(fin)])
<1> DEFINE v == fin[Len(fin)]
           at == {j \in 1..Len(fin) : fin[j] \in SccOf(es, y)}
<1>1. Len(fin) \in Nat /\ Len(fin) >= 1 /\ v \in Vertices(es) /\ y \in Hosts /\ v \in Hosts
      /\ \A j \in 1..Len(fin) : fin[j] \in Hosts
  BY VerticesFacts
<1>2. ASSUME NEW x \in SccOf(es, y) PROVE \E j \in 1..Len(fin) : x = fin[j]
  <2>1. x \notin UNION found /\ x \in Vertices(es)
    BY <1>1, SccsAreApart, ReachVertices DEF SccOf
  <2>2. x \in Firsts(fin, Len(fin))
    BY <2>1
  <2> QED BY <2>2 DEF Firsts
<1>3. at # {} /\ at \subseteq 1..Len(fin)
  BY <1>1, <1>2, SccOfFacts
<1>4. PICK j \in at : \A i \in at : i <= j
  <2>1. PICK S : S = {Len(fin) - i : i \in at}
    OBVIOUS
  <2>2. S \subseteq Nat /\ S # {}
    BY <1>1, <1>3, <2>1
  <2>3. PICK d \in S : \A e \in S : d <= e
    BY <2>2, LeastNatural
  <2>4. PICK i \in at : d = Len(fin) - i
    BY <2>1
  <2>5. ASSUME NEW k \in at PROVE k <= i
    <3>1. Len(fin) - k \in S /\ k \in Int /\ i \in Int
      BY <1>3, <2>1
    <3>2. Len(fin) - i <= Len(fin) - k
      BY <2>3, <2>4, <3>1
    <3> QED BY <1>1, <3>1, <3>2
  <2> QED BY <2>5
<1>5. j \in 1..Len(fin) /\ fin[j] \in SccOf(es, y) /\ SccOf(es, fin[j]) = SccOf(es, y)
  BY <1>1, SccOfFacts
<1>6. v \in Reach(es, fin[j])
  <2>1. y \in Reach(es, fin[j])
    BY <1>5 DEF SccOf
  <2> QED BY <1>1, <1>5, <2>1, ReachIsTransitive
<1>7. CASE Reach(es, fin[j]) \subseteq Firsts(fin, j)
  <2>1. PICK i \in 1..j : v = fin[i]
    BY <1>6, <1>7 DEF Firsts
  <2>2. i \in 1..Len(fin) /\ Len(fin) \in 1..Len(fin)
    BY <1>1, <1>5
  <2>3. i = Len(fin)
    BY <2>1, <2>2 DEF InOrder
  <2>4. j = Len(fin)
    BY <1>1, <1>5, <2>3
  <2> QED BY <1>1, <1>5, <2>4, SccOfFacts
<1>8. CASE \E x \in SccOf(es, fin[j]) : x \notin Firsts(fin, j)
  <2>1. PICK x \in SccOf(es, y) : x \notin Firsts(fin, j)
    BY <1>5, <1>8
  <2>2. PICK i \in 1..Len(fin) : x = fin[i]
    BY <1>2
  <2>3. i \in at
    BY <2>1, <2>2
  <2>4. i \in 1..j
    BY <1>4, <1>5, <2>2, <2>3
  <2> QED BY <2>1, <2>2, <2>4 DEF Firsts
<1> QED BY <1>5, <1>7, <1>8 DEF InOrder, FinishOrder

\* The next root, if it was not collected already.
LEMMA CollectRoot ==
    ASSUME NEW es, NEW vis, NEW fin, NEW found, Collects(es, vis, {}, fin, {}, found), fin # << >>,
           NEW fin2, fin2 = SubSeq(fin, 1, Len(fin) - 1), NEW v, v = fin[Len(fin)],
           NEW wait, wait = IF v \in vis THEN {} ELSE {v}
    PROVE  Collects(es, vis, wait, fin2, {}, found)
<1>0. /\ CollectTypes(es, {}, fin, found) /\ InOrder(es, fin)
      /\ AllAccounted(es, vis, {}, fin, {}, found)
  BY DEF Collects
<1>1. es \in SUBSET (Hosts \X Hosts) /\ fin \in Seq(Vertices(es)) /\ found \in SUBSET Sccs(es)
  BY <1>0 DEF CollectTypes
<1>2. IsFront(fin2, fin, Vertices(es))
  BY <1>1, FrontFacts
<1>3. /\ Len(fin) \in Nat /\ Len(fin) >= 1 /\ v \in Vertices(es) /\ v \in Hosts
      /\ fin2 \in Seq(Vertices(es)) /\ Len(fin2) = Len(fin) - 1
      /\ \A k \in 1..Len(fin2) : k \in 1..Len(fin) /\ fin2[k] = fin[k]
      /\ \A k \in 1..Len(fin) : k = Len(fin) \/ k \in 1..Len(fin2)
  <2>1. v \in Vertices(es) /\ v \in Hosts
    BY <1>1, <1>2, VerticesFacts DEF IsFront
  <2>2. Len(fin) \in Nat /\ Len(fin) >= 1
    BY <1>1
  <2> QED BY <1>2, <2>1, <2>2 DEF IsFront
<1>4. \A i \in 1..Len(fin2) : Firsts(fin2, i) = Firsts(fin, i)
  <2>1. \A i \in 1..Len(fin2) : \A k \in 1..i : k \in 1..Len(fin2)
    BY <1>3
  <2> QED BY <1>3, <2>1 DEF Firsts
<1>5. InOrder(es, fin2)
  <2>1. FinishOrder(es, fin2)
    BY <1>0, <1>3, <1>4 DEF InOrder, FinishOrder
  <2> QED BY <1>0, <1>3, <2>1 DEF InOrder
<1>6. vis = UNION found /\ Vertices(es) \subseteq (UNION found) \cup Firsts(fin, Len(fin))
  BY <1>0 DEF AllAccounted
<1>7. Firsts(fin, Len(fin)) \subseteq Firsts(fin2, Len(fin2)) \cup {v}
  BY <1>3 DEF Firsts
<1>8. AllAccounted(es, vis, wait, fin2, {}, found)
  <2>1. v \in vis \cup wait
    OBVIOUS
  <2> QED BY <1>6, <1>7, <2>1 DEF AllAccounted
<1>9. CollectTypes(es, wait, fin2, found)
  BY <1>1, <1>3 DEF CollectTypes
<1>10. ASSUME v \notin vis PROVE Growing(es, v, vis, {v}, {}, found)
  <2>1. \A x \in SccOf(es, v) : x \notin UNION found
    BY <1>1, <1>3, <1>6, <1>10, SccsAreApart
  <2>2. \A y \in Vertices(es) : v \in Reach(es, y) /\ y \notin UNION found => y \in SccOf(es, v)
    BY <1>0, <1>1, <1>6, RootIsLast
  <2>3. v \in SccOf(es, v)
    BY <1>1, <1>3, SccOfFacts
  <2> QED BY <2>1, <2>2, <2>3 DEF Growing
<1> QED BY <1>3, <1>5, <1>8, <1>9, <1>10 DEF Collects

\* One entry of the stack is popped: vertex u, with its predecessors if it is
\* collected now.
Popped(es, vis, wait, u, wait2) ==
    /\ u \in wait /\ wait \ {u} \subseteq wait2 /\ wait2 \subseteq Vertices(es)
    /\ \A y \in wait2 : y \in wait \/ (u \notin vis /\ u \in Neighbors(es, y) /\ y \notin vis)
    /\ u \notin vis => \A y : u \in Neighbors(es, y) => y \in vis \cup {u} \cup wait2

\* The component that grows still does, or is whole.
LEMMA GrowthKeeps ==
    ASSUME NEW es \in SUBSET (Hosts \X Hosts), NEW found \in SUBSET Sccs(es), NEW r \in Vertices(es),
           NEW vis, NEW wait \in SUBSET Vertices(es), NEW c, Growing(es, r, vis, wait, c, found),
           vis = (UNION found) \cup c,
           NEW u, NEW wait2, Popped(es, vis, wait, u, wait2)
    PROVE  Growing(es, r, vis \cup {u}, wait2, c \cup ({u} \ vis), found)
<1> DEFINE c2 == c \cup ({u} \ vis)
<1>1. r \in Hosts /\ u \in Vertices(es) /\ u \in Hosts
  BY VerticesFacts DEF Popped
<1>2. u \notin vis => u \in SccOf(es, r)
  BY DEF Growing, Popped
<1>3. r \in c2 \cup wait2
  <2>1. r \in vis => r \in c
    BY <1>1, SccOfFacts DEF Growing
  <2> QED BY <2>1 DEF Growing, Popped
<1>4. c2 \subseteq SccOf(es, r)
  BY <1>2 DEF Growing
<1>5. wait2 \subseteq SccOf(es, r) \cup vis
  <2> SUFFICES ASSUME NEW y \in wait2, y \notin wait PROVE y \in SccOf(es, r)
    BY DEF Growing, Popped
  <2>1. u \notin vis /\ u \in Neighbors(es, y) /\ y \notin UNION found /\ y \in Vertices(es) /\ y \in Hosts
    BY VerticesFacts DEF Popped
  <2>2. u \in Reach(es, y) /\ r \in Reach(es, u)
    BY <1>2, <2>1, ReachNeighbor DEF SccOf
  <2>3. r \in Reach(es, y)
    BY <2>1, <2>2, ReachIsTransitive
  <2> QED BY <2>1, <2>3 DEF Growing
<1>6. ASSUME NEW x \in c2, NEW y, x \in Neighbors(es, y) PROVE y \in vis \cup {u} \cup wait2
  BY <1>6 DEF Growing, Popped
<1> QED BY <1>3, <1>4, <1>5, <1>6 DEF Growing

\* A component nothing is left to add to is whole.
LEMMA GrowthEnds ==
    ASSUME NEW es \in SUBSET (Hosts \X Hosts), NEW found, NEW r \in Vertices(es),
           NEW vis, NEW c, Growing(es, r, vis, {}, c, found), vis = (UNION found) \cup c
    PROVE  c = SccOf(es, r) /\ c \in Sccs(es)
<1>1. r \in Hosts /\ r \in c /\ c \subseteq SccOf(es, r)
  BY VerticesFacts DEF Growing
<1>2. ASSUME NEW z \in SccOf(es, r), z \notin c PROVE FALSE
  <2>1. z \in Hosts /\ r \in Reach(es, z) /\ z \in Reach(es, r)
    BY <1>1, <1>2, SccOfFacts DEF SccOf
  <2>2. PICK h \in Hosts \cap (Hosts \ c), g \in Hosts \ (Hosts \ c) :
            g \in Neighbors(es, h) /\ h \in Reach(es, z) /\ r \in Reach(es, g)
    <3>1. z \in Hosts \ c /\ r \notin Hosts \ c
      BY <1>1, <1>2, <2>1
    <3> QED BY <2>1, <3>1, ReachLeaves
  <2>3. h \in UNION found
    BY <2>2 DEF Growing
  <2>4. h \in Reach(es, r)
    BY <1>1, <2>1, <2>2, ReachIsTransitive
  <2>5. r \in Reach(es, h)
    BY <2>2, ReachNeighbor, ReachIsTransitive
  <2>6. h \in SccOf(es, r)
    BY <2>4, <2>5 DEF SccOf
  <2> QED BY <2>3, <2>6 DEF Growing
<1>3. c = SccOf(es, r)
  BY <1>1, <1>2
<1> QED BY <1>3, SccsAreClasses

LEMMA CollectPops ==
    ASSUME NEW es, NEW vis, NEW wait, NEW fin, NEW c, NEW found, Collects(es, vis, wait, fin, c, found),
           NEW u, NEW wait2, Popped(es, vis, wait, u, wait2),
           NEW grown, grown = c \cup ({u} \ vis), NEW vis2, vis2 = vis \cup ({u} \ vis)
    PROVE  /\ wait2 = {} => Collects(es, vis2, {}, fin, {}, found \cup {grown})
           /\ wait2 # {} => Collects(es, vis2, wait2, fin, grown, found)
<1>0. /\ CollectTypes(es, wait, fin, found) /\ InOrder(es, fin)
      /\ AllAccounted(es, vis, wait, fin, c, found)
  BY DEF Collects
<1>1. /\ es \in SUBSET (Hosts \X Hosts) /\ fin \in Seq(Vertices(es)) /\ found \in SUBSET Sccs(es)
      /\ wait \in SUBSET Vertices(es) /\ wait2 \subseteq Vertices(es) /\ wait # {}
  BY <1>0 DEF CollectTypes, Popped
<1>2. PICK r \in Vertices(es) : Growing(es, r, vis, wait, c, found)
  BY <1>1 DEF Collects
<1>3. vis2 = vis \cup {u} /\ vis = (UNION found) \cup c
  BY <1>0 DEF AllAccounted
<1>4. Growing(es, r, vis2, wait2, grown, found)
  BY <1>1, <1>2, <1>3, GrowthKeeps
<1>5. vis2 = (UNION found) \cup grown
  BY <1>3
<1>6. Vertices(es) \subseteq vis2 \cup Firsts(fin, Len(fin)) \cup wait2
  BY <1>0, <1>3 DEF AllAccounted, Popped
<1>7. ASSUME wait2 # {} PROVE Collects(es, vis2, wait2, fin, grown, found)
  <2>1. AllAccounted(es, vis2, wait2, fin, grown, found)
    BY <1>5, <1>6 DEF AllAccounted
  <2>2. CollectTypes(es, wait2, fin, found)
    BY <1>1 DEF CollectTypes
  <2> QED BY <1>0, <1>4, <1>7, <2>1, <2>2 DEF Collects
<1>8. ASSUME wait2 = {} PROVE Collects(es, vis2, {}, fin, {}, found \cup {grown})
  <2>1. grown \in Sccs(es)
    BY <1>1, <1>4, <1>5, <1>8, GrowthEnds
  <2>2. AllAccounted(es, vis2, {}, fin, {}, found \cup {grown})
    <3>1. UNION (found \cup {grown}) = (UNION found) \cup grown
      OBVIOUS
    <3> QED BY <1>5, <1>6, <1>8, <3>1 DEF AllAccounted
  <2>3. CollectTypes(es, {}, fin, found \cup {grown})
    BY <1>1, <2>1 DEF CollectTypes
  <2> QED BY <1>0, <2>2, <2>3 DEF Collects
<1> QED BY <1>7, <1>8

\* When no root is left all components were stored.
LEMMA CollectEnds ==
    ASSUME NEW es, NEW vis, NEW c, NEW found, Collects(es, vis, {}, << >>, c, found)
    PROVE  found = Sccs(es)
<1>1. CollectTypes(es, {}, << >>, found) /\ AllAccounted(es, vis, {}, << >>, {}, found)
  BY DEF Collects
<1>2. Firsts(<< >>, Len(<< >>)) = {}
  BY DEF Firsts
<1>3. Vertices(es) \subseteq UNION found
  BY <1>1, <1>2 DEF AllAccounted
<1> QED BY <1>1, <1>3, SccsCover DEF CollectTypes

\* The instance's operators are those of CommGraph and SequencesExt.
LEMMA KosarajuGraph ==
    ASSUME NEW es
    PROVE  /\ \A h : B!Neighbors(es, h) = Neighbors(es, h)
           /\ B!Vertices(es) = Vertices(es)
           /\ B!Cardinality(es) = Cardinality(es)
           /\ \A s : B!SetToSeqs(s) = R!SetToSeqs(s)
           /\ B!Sccs(es) = Sccs(es)
<1>1. \A h : B!Neighbors(es, h) = Neighbors(es, h)
  BY DEF B!Neighbors, Neighbors
<1>2. B!Vertices(es) = Vertices(es)
  BY DEF B!Vertices, Vertices
<1>3. B!Cardinality(es) = Cardinality(es)
  BY DEF B!Cardinality, Cardinality
<1>4. \A s : B!SetToSeqs(s) = R!SetToSeqs(s)
  BY DEF B!SetToSeqs, R!SetToSeqs, B!Cardinality, R!Cardinality
<1>5. B!Sccs(es) = Sccs(es)
  BY DEF B!Sccs, Sccs, B!ReachableWithin, ReachableWithin, B!Neighbors, Neighbors,
         B!Vertices, Vertices, B!Cardinality, Cardinality
<1> QED BY <1>1, <1>2, <1>3, <1>4, <1>5

LEMMA EntryFacts ==
    ASSUME NEW x
    PROVE  /\ <<x, TRUE>>[1] = x /\ IsPost(<<x, TRUE>>)
           /\ <<x, FALSE>>[1] = x /\ ~IsPost(<<x, FALSE>>)
<1>1. <<x, TRUE>>[1] = x /\ <<x, FALSE>>[1] = x
  OBVIOUS
<1>2. IsPost(<<x, TRUE>>)
  BY DEF IsPost
<1>3. ~IsPost(<<x, FALSE>>)
  BY DEF IsPost
<1> QED BY <1>1, <1>2, <1>3

\* pushed are entries for the vertices of a set.
IsPushed(pushed, set, vs) ==
    /\ pushed \in Seq(vs \X BOOLEAN)
    /\ \A k \in 1..Len(pushed) : pushed[k][1] \in set /\ ~IsPost(pushed[k])
    /\ \A x \in set : \E k \in 1..Len(pushed) : pushed[k][1] = x

LEMMA PushesAreComplete ==
    ASSUME NEW es \in SUBSET (Hosts \X Hosts), NEW set \in SUBSET Vertices(es), NEW pushed \in B!Pushes(set)
    PROVE  IsPushed(pushed, set, Vertices(es))
<1>1. PICK p \in B!SetToSeqs(set) : pushed = [k \in DOMAIN p |-> <<p[k], FALSE>>]
  BY DEF B!Pushes
<1>2. p \in R!SetToSeqs(set) /\ set \in SUBSET Hosts
  BY <1>1, KosarajuGraph, VerticesFacts
<1>3. /\ p \in Seq(Hosts) /\ \A i \in 1..Len(p) : p[i] \in set
      /\ \A h \in set : \E i \in 1..Len(p) : p[i] = h
  BY <1>2, OrdersAreComplete
<1>4. PICK len \in Nat : len = Len(p) /\ DOMAIN p = 1..len
  BY <1>3
<1>5. pushed = [k \in 1..len |-> <<p[k], FALSE>>]
  BY <1>1, <1>4
<1>6. \A k \in 1..len : pushed[k] = <<p[k], FALSE>> /\ <<p[k], FALSE>> \in Vertices(es) \X BOOLEAN
  BY <1>3, <1>4, <1>5
<1>7. pushed \in Seq(Vertices(es) \X BOOLEAN) /\ Len(pushed) = len
  <2>1. pushed \in [1..len -> Vertices(es) \X BOOLEAN]
    BY <1>5, <1>6
  <2> QED BY <2>1
<1>8. \A k \in 1..len : pushed[k][1] = p[k] /\ ~IsPost(pushed[k])
  BY <1>6, EntryFacts
<1> QED BY <1>3, <1>4, <1>7, <1>8 DEF IsPushed

\* c is a followed by b, which have p and q elements.
IsConcat(c, a, b, set, p, q) ==
    /\ c \in Seq(set) /\ Len(c) = p + q
    /\ \A i \in 1..p : i \in 1..(p + q) /\ c[i] = a[i]
    /\ \A i \in 1..q : p + i \in 1..(p + q) /\ c[p + i] = b[i]
    /\ \A i \in 1..(p + q) : i \in 1..p \/ \E j \in 1..q : i = p + j

LEMMA ConcatFacts ==
    ASSUME NEW set, NEW a \in Seq(set), NEW b \in Seq(set), NEW p \in Nat, p = Len(a),
           NEW q \in Nat, q = Len(b), NEW c, c = a \o b
    PROVE  IsConcat(c, a, b, set, p, q)
<1>1. /\ c \in Seq(set) /\ Len(c) = p + q
      /\ \A i \in 1..(p + q) : c[i] = IF i <= p THEN a[i] ELSE b[i - p]
  BY ConcatProperties
<1>2. ASSUME NEW i \in 1..p PROVE i \in 1..(p + q) /\ c[i] = a[i]
  <2>1. i \in 1..(p + q) /\ i <= p
    OBVIOUS
  <2> QED BY <1>1, <2>1
<1>3. ASSUME NEW i \in 1..q PROVE p + i \in 1..(p + q) /\ c[p + i] = b[i]
  <2>1. p + i \in 1..(p + q) /\ ~(p + i <= p) /\ (p + i) - p = i
    OBVIOUS
  <2> QED BY <1>1, <2>1
<1>4. ASSUME NEW i \in 1..(p + q), i \notin 1..p PROVE \E j \in 1..q : i = p + j
  <2>1. i - p \in 1..q /\ i = p + (i - p)
    BY <1>4
  <2> QED BY <2>1
<1> QED BY <1>1, <1>2, <1>3, <1>4 DEF IsConcat

LEMMA PostVisitOpens ==
    ASSUME NEW es \in SUBSET (Hosts \X Hosts), NEW vis, NEW st \in Seq(Vertices(es) \X BOOLEAN), st # << >>,
           NEW u \in Vertices(es), NEW pushed,
           IsPushed(pushed, Neighbors(es, u) \ (vis \cup {u}), Vertices(es)),
           NEW st2, st2 = SubSeq(st, 1, Len(st) - 1) \o << <<u, TRUE>> >> \o pushed
    PROVE  Opened(es, vis, st, u, st2)
<1> DEFINE E == Vertices(es) \X BOOLEAN
<1>1. PICK t : t = SubSeq(st, 1, Len(st) - 1)
  OBVIOUS
<1>2. IsFront(t, st, E)
  BY <1>1, FrontFacts
<1>3. PICK top \in Nat : top = Len(st) /\ top > 0
  BY <1>2 DEF IsFront
<1>4. t \in Seq(E) /\ Len(t) = top - 1 /\ \A k \in 1..(top - 1) : t[k] = st[k]
  BY <1>2, <1>3 DEF IsFront
<1>5. PICK e \in E : e = <<u, TRUE>>
  OBVIOUS
<1>6. e[1] = u /\ IsPost(e)
  BY <1>5, EntryFacts
<1>7. PICK w : w = t \o <<e>>
  OBVIOUS
<1> HIDE DEF E
<1>8. PICK low1 \in Nat : low1 = top - 1
  <2>1. top - 1 \in Nat
    BY <1>3
  <2> QED BY <2>1
<1>9. /\ w \in Seq(E) /\ Len(w) = top /\ w[top] = e
      /\ \A k \in 1..low1 : w[k] = st[k]
  <2>1. <<e>> \in Seq(E) /\ Len(<<e>>) = 1 /\ <<e>>[1] = e /\ 1 \in 1..1
    OBVIOUS
  <2>2. /\ w \in Seq(E) /\ Len(w) = low1 + 1
        /\ \A i \in 1..low1 : i \in 1..(low1 + 1) /\ w[i] = t[i]
        /\ \A i \in 1..1 : low1 + i \in 1..(low1 + 1) /\ w[low1 + i] = <<e>>[i]
    <3>1. Len(t) = low1
      BY <1>4, <1>8
    <3>2. PICK s1 \in Seq(E), one \in Nat : s1 = <<e>> /\ one = 1 /\ one = Len(s1)
      BY <2>1
    <3>3. w = t \o s1
      BY <1>7, <3>2
    <3>4. /\ w \in Seq(E) /\ Len(w) = low1 + one
          /\ \A i \in 1..low1 : i \in 1..(low1 + one) /\ w[i] = t[i]
          /\ \A i \in 1..one : low1 + i \in 1..(low1 + one) /\ w[low1 + i] = s1[i]
      <4>1. IsConcat(w, t, s1, E, low1, one)
        BY <1>4, <3>1, <3>2, <3>3, ConcatFacts
      <4> QED BY <4>1 DEF IsConcat
    <3> QED BY <3>2, <3>4
  <2>3. low1 + 1 = top
    BY <1>3, <1>8
  <2> QED BY <1>4, <1>8, <2>1, <2>2, <2>3
<1>10. /\ pushed \in Seq(E) /\ Len(pushed) \in Nat
       /\ \A k \in 1..Len(pushed) : pushed[k][1] \in Neighbors(es, u) /\ ~IsPost(pushed[k])
       /\ \A x \in Neighbors(es, u) \ (vis \cup {u}) : \E k \in 1..Len(pushed) : pushed[k][1] = x
  <2>1. PICK set : set = Neighbors(es, u) \ (vis \cup {u})
    OBVIOUS
  <2>2. IsPushed(pushed, set, Vertices(es))
    BY <2>1
  <2>3. /\ pushed \in Seq(E) /\ Len(pushed) \in Nat
        /\ \A k \in 1..Len(pushed) : pushed[k][1] \in set /\ ~IsPost(pushed[k])
        /\ \A x \in set : \E k \in 1..Len(pushed) : pushed[k][1] = x
    BY <2>2 DEF IsPushed, E
  <2> QED BY <2>1, <2>3
<1>11. PICK q \in Nat : q = Len(pushed)
  BY <1>10
<1>12. st2 = w \o pushed
  BY <1>1, <1>5, <1>7
<1>13. /\ st2 \in Seq(E) /\ Len(st2) = top + q
       /\ \A i \in 1..top : i \in 1..(top + q) /\ st2[i] = w[i]
       /\ \A i \in 1..q : top + i \in 1..(top + q) /\ st2[top + i] = pushed[i]
       /\ \A i \in 1..(top + q) : i \in 1..top \/ \E j \in 1..q : i = top + j
  <2>1. IsConcat(st2, w, pushed, E, top, q)
    BY <1>9, <1>10, <1>11, <1>12, ConcatFacts
  <2> QED BY <2>1 DEF IsConcat
<1>14. ASSUME NEW k \in 1..Len(st2)
       PROVE  /\ k < top => st2[k] = st[k]
              /\ k = top => st2[k][1] = u /\ IsPost(st2[k])
              /\ k > top => st2[k][1] \in Neighbors(es, u) /\ ~IsPost(st2[k])
  <2>1. CASE k < top
    <3>1. k \in 1..low1 /\ k \in 1..top
      BY <1>3, <1>8, <2>1
    <3> QED BY <1>3, <1>9, <1>13, <2>1, <3>1
  <2>2. CASE k = top
    <3>0. top \in 1..top
      BY <1>3
    <3>1. st2[k] = e
      BY <1>9, <1>13, <2>2, <3>0
    <3> QED BY <1>3, <1>6, <2>2, <3>1
  <2>3. CASE k > top
    <3>0. k \in 1..(top + q) /\ k \notin 1..top
      BY <1>3, <1>13, <2>3
    <3>1. PICK j \in 1..q : k = top + j
      BY <1>13, <3>0
    <3>2. st2[k] = pushed[j]
      BY <1>13, <3>1
    <3>3. st2[k][1] \in Neighbors(es, u) /\ ~IsPost(st2[k])
      BY <1>10, <1>11, <3>2
    <3> QED BY <1>3, <2>3, <3>3
  <2>4. k \in Int
    BY <1>13
  <2> QED BY <1>3, <2>1, <2>2, <2>3, <2>4
<1>15. ASSUME NEW x \in Neighbors(es, u), x \notin vis, x # u
       PROVE  \E k \in 1..Len(st2) : k > top /\ st2[k][1] = x /\ ~IsPost(st2[k])
  <2>1. PICK k \in 1..q : pushed[k][1] = x
    BY <1>10, <1>11, <1>15
  <2>2. top + k > top
    BY <1>3
  <2>3. top + k \in 1..Len(st2) /\ st2[top + k] = pushed[k]
    BY <1>13
  <2> QED BY <1>10, <1>11, <2>1, <2>2, <2>3
<1>16. st2 \in Seq(Vertices(es) \X BOOLEAN) /\ Len(st2) >= Len(st)
  BY <1>3, <1>13 DEF E
<1> HIDE DEF E
<1> QED BY <1>3, <1>14, <1>15, <1>16 DEF Opened

\* The same of the stack.
StackPopped(es, vis, st, u, st2) ==
    /\ Popped(es, vis, Waiting(st), u, Waiting(st2))
    /\ st2 \in Seq(Vertices(es) \X BOOLEAN)
    /\ st2 = << >> <=> Waiting(st2) = {}

LEMMA CollectIsPop ==
    ASSUME NEW es \in SUBSET (Hosts \X Hosts), NEW vis, NEW st \in Seq(Vertices(es) \X BOOLEAN), st # << >>,
           NEW u, u = st[Len(st)][1], NEW more, NEW pushed,
           more = IF u \in vis THEN {} ELSE {y \in Vertices(es) : u \in Neighbors(es, y)} \ (vis \cup {u}),
           IsPushed(pushed, more, Vertices(es)),
           NEW st2, st2 = SubSeq(st, 1, Len(st) - 1) \o pushed
    PROVE  StackPopped(es, vis, st, u, st2)
<1> DEFINE E == Vertices(es) \X BOOLEAN
<1>1. PICK t : t = SubSeq(st, 1, Len(st) - 1)
  OBVIOUS
<1>2. IsFront(t, st, E)
  BY <1>1, FrontFacts
<1>3. PICK top \in Nat : top = Len(st) /\ top > 0
  BY <1>2 DEF IsFront
<1>4. t \in Seq(E) /\ Len(t) = top - 1 /\ \A k \in 1..(top - 1) : t[k] = st[k]
  BY <1>2, <1>3 DEF IsFront
<1>5. \A k \in 1..top : st[k][1] \in Vertices(es)
  BY <1>3
<1>6. \A k \in 1..Len(pushed) : pushed[k][1] \in Vertices(es)
  BY DEF IsPushed
<1> HIDE DEF E
<1>7. pushed \in Seq(E) /\ Len(pushed) \in Nat
  BY DEF IsPushed, E
<1>8. PICK p \in Nat, q \in Nat : p = top - 1 /\ q = Len(pushed)
  <2>1. top - 1 \in Nat
    BY <1>3
  <2> QED BY <1>7, <2>1
<1>9. /\ st2 \in Seq(E) /\ Len(st2) = p + q
      /\ \A i \in 1..p : i \in 1..(p + q) /\ st2[i] = t[i]
      /\ \A i \in 1..q : p + i \in 1..(p + q) /\ st2[p + i] = pushed[i]
      /\ \A i \in 1..(p + q) : i \in 1..p \/ \E j \in 1..q : i = p + j
  <2>1. p = Len(t) /\ st2 = t \o pushed
    BY <1>1, <1>4, <1>8
  <2>2. IsConcat(st2, t, pushed, E, p, q)
    BY <1>4, <1>7, <1>8, <2>1, ConcatFacts
  <2> QED BY <2>2 DEF IsConcat
<1>10. \A x : x \in Waiting(st2) <=> (\E k \in 1..p : st[k][1] = x) \/ x \in more
  <2>1. ASSUME NEW x \in Waiting(st2) PROVE (\E k \in 1..p : st[k][1] = x) \/ x \in more
    <3>1. PICK k \in 1..(p + q) : x = st2[k][1]
      BY <1>9, <2>1 DEF Waiting
    <3>2. CASE k \in 1..p
      BY <1>4, <1>8, <1>9, <3>1, <3>2
    <3>3. CASE \E j \in 1..q : k = p + j
      <4>1. PICK j \in 1..q : k = p + j
        BY <3>3
      <4>2. st2[k] = pushed[j] /\ pushed[j][1] \in more
        BY <1>8, <1>9, <4>1 DEF IsPushed
      <4> QED BY <3>1, <4>2
    <3> QED BY <1>9, <3>2, <3>3
  <2>2. ASSUME NEW k \in 1..p PROVE st[k][1] \in Waiting(st2)
    BY <1>4, <1>8, <1>9 DEF Waiting
  <2>3. ASSUME NEW x \in more PROVE x \in Waiting(st2)
    <3>1. PICK k \in 1..q : pushed[k][1] = x
      BY <1>8 DEF IsPushed
    <3> QED BY <1>9, <3>1 DEF Waiting
  <2> QED BY <2>1, <2>2, <2>3
<1>11. \A x : x \in Waiting(st) <=> (\E k \in 1..p : st[k][1] = x) \/ x = u
  <2>1. \A k \in 1..top : k = top \/ k \in 1..p
    BY <1>3, <1>8
  <2>2. \A k \in 1..p : k \in 1..top
    BY <1>3, <1>8
  <2>3. top \in 1..top /\ st[top][1] = u
    BY <1>3
  <2> QED BY <1>3, <2>1, <2>2, <2>3 DEF Waiting
<1>12. Popped(es, vis, Waiting(st), u, Waiting(st2))
  <2>1. u \in Waiting(st) /\ Waiting(st) \ {u} \subseteq Waiting(st2)
    BY <1>10, <1>11
  <2>2. \A k \in 1..p : st[k][1] \in Vertices(es)
    BY <1>3, <1>5, <1>8
  <2>3. more \subseteq Vertices(es)
    OBVIOUS
  <2>4. Waiting(st2) \subseteq Vertices(es)
    BY <1>10, <2>2, <2>3
  <2>5. \A y \in Waiting(st2) : y \in Waiting(st) \/ (u \notin vis /\ u \in Neighbors(es, y) /\ y \notin vis)
    BY <1>10, <1>11
  <2>6. ASSUME u \notin vis, NEW y, u \in Neighbors(es, y) PROVE y \in vis \cup {u} \cup Waiting(st2)
    BY <1>10, <2>6, VerticesFacts
  <2> QED BY <2>1, <2>4, <2>5, <2>6 DEF Popped
<1>13. st2 = << >> <=> Waiting(st2) = {}
  <2>1. st2 # << >> => 1 \in 1..Len(st2)
    BY <1>9
  <2>2. st2 = << >> => 1..Len(st2) = {}
    OBVIOUS
  <2> QED BY <2>1, <2>2 DEF Waiting
<1> QED BY <1>9, <1>12, <1>13 DEF E, StackPopped

KosarajuInv ==
    \/ pass = 1 /\ comp = {} /\ sccs = {} /\ Search(edges, visited, dfs, finished)
    \/ /\ pass = 2 /\ dfs \in Seq(Vertices(edges) \X BOOLEAN)
       /\ Collects(edges, visited, Waiting(dfs), finished, comp, sccs)

LEMMA KosarajuStart == B!Init => KosarajuInv
<1> SUFFICES ASSUME B!Init PROVE KosarajuInv
  OBVIOUS
<1>1. /\ edges \in SUBSET (Hosts \X Hosts) /\ pass = 1 /\ comp = {} /\ sccs = {}
      /\ visited = {} /\ dfs = << >> /\ finished = << >>
  BY DEF B!Init, AllEdges
<1>2. \A k \in 1..Len(<< >>) : FALSE
  OBVIOUS
<1>3. SearchTypes(edges, {}, << >>, << >>)
  BY <1>1 DEF SearchTypes
<1>4. (\A x : ~Open(<< >>, x)) /\ Firsts(<< >>, Len(<< >>)) = {}
  BY <1>2 DEF Open, Firsts
<1>5. VisitedOnce({}, << >>, << >>)
  BY <1>2, <1>4 DEF VisitedOnce
<1>6. OpenLeadsUp(edges, << >>) /\ NothingMissed(edges, {}, << >>, << >>) /\ FinishOrder(edges, << >>)
  BY <1>2 DEF OpenLeadsUp, NothingMissed, FinishOrder
<1>7. Search(edges, {}, << >>, << >>)
  BY <1>3, <1>5, <1>6 DEF Search
<1> QED BY <1>1, <1>7 DEF KosarajuInv

\* A turn of the first pass.
LEMMA VisitKeeps ==
    ASSUME Search(edges, visited, dfs, finished), B!Visit
    PROVE  Search(edges', visited', dfs', finished')
<1>1. PICK es, vis, st, fin, vis2, st2, fin2 :
         /\ es = edges /\ vis = visited /\ st = dfs /\ fin = finished
         /\ vis2 = visited' /\ st2 = dfs' /\ fin2 = finished'
  OBVIOUS
<1>2. Search(es, vis, st, fin) /\ st # << >> /\ edges' = es
  BY <1>1 DEF B!Visit
<1>3. es \in SUBSET (Hosts \X Hosts) /\ st \in Seq(Vertices(es) \X BOOLEAN)
  BY <1>2 DEF Search, SearchTypes
<1>4. PICK e, u : e = st[Len(st)] /\ u = e[1]
  OBVIOUS
<1>5. u \in Vertices(es)
  <2>1. Len(st) \in 1..Len(st)
    BY <1>2, <1>3
  <2> QED BY <1>3, <1>4, <2>1
<1>6. CASE IsPost(e)
  <2>1. fin2 = Append(fin, u) /\ st2 = SubSeq(st, 1, Len(st) - 1) /\ vis2 = vis
    BY <1>1, <1>4, <1>6 DEF B!Visit, B!Last, B!Front, IsPost
  <2>2. Search(es, vis, st2, fin2)
    BY <1>2, <1>4, <1>6, <2>1, SearchFinishes
  <2> QED BY <1>1, <1>2, <2>1, <2>2
<1>7. CASE ~IsPost(e) /\ u \in vis
  <2>1. fin2 = fin /\ st2 = SubSeq(st, 1, Len(st) - 1) /\ vis2 = vis
    BY <1>1, <1>4, <1>7 DEF B!Visit, B!Last, B!Front, IsPost
  <2>2. Search(es, vis, st2, fin)
    BY <1>2, <1>4, <1>7, <2>1, SearchSkips
  <2> QED BY <1>1, <1>2, <2>1, <2>2
<1>8. CASE ~IsPost(e) /\ u \notin vis
  <2>1. /\ fin2 = fin /\ vis2 = vis \cup {u}
        /\ \E pushed \in B!Pushes(B!Neighbors(es, u) \ vis2) :
              st2 = B!PostVisit(B!Front(st), u, pushed)
    BY <1>1, <1>4, <1>8 DEF B!Visit, B!Last, IsPost
  <2>2. PICK pushed \in B!Pushes(Neighbors(es, u) \ (vis \cup {u})) :
            st2 = SubSeq(st, 1, Len(st) - 1) \o << <<u, TRUE>> >> \o pushed
    <3>1. B!Neighbors(es, u) = Neighbors(es, u)
      BY KosarajuGraph
    <3> QED BY <2>1, <3>1 DEF B!PostVisit, B!Front
  <2>3. IsPushed(pushed, Neighbors(es, u) \ (vis \cup {u}), Vertices(es))
    <3>1. PICK set : set = Neighbors(es, u) \ (vis \cup {u})
      OBVIOUS
    <3>2. set \in SUBSET Vertices(es)
      BY <1>3, <3>1, VerticesFacts
    <3> QED BY <1>3, <2>2, <3>1, <3>2, PushesAreComplete
  <2>4. Opened(es, vis, st, u, st2)
    BY <1>2, <1>3, <1>5, <2>2, <2>3, PostVisitOpens
  <2>5. Search(es, vis2, st2, fin)
    BY <1>2, <1>4, <1>8, <2>1, <2>4, SearchOpens
  <2> QED BY <1>1, <1>2, <2>1, <2>5
<1> QED BY <1>6, <1>7, <1>8

\* A turn of the second pass.
LEMMA CollectKeeps ==
    ASSUME dfs \in Seq(Vertices(edges) \X BOOLEAN), B!Collect,
           Collects(edges, visited, Waiting(dfs), finished, comp, sccs)
    PROVE  /\ dfs' \in Seq(Vertices(edges') \X BOOLEAN)
           /\ Collects(edges', visited', Waiting(dfs'), finished', comp', sccs')
<1>1. PICK es, vis, st, fin, vis2, st2, c, found :
         /\ es = edges /\ vis = visited /\ st = dfs /\ fin = finished
         /\ c = comp /\ found = sccs /\ vis2 = visited' /\ st2 = dfs'
  OBVIOUS
<1>2. /\ Collects(es, vis, Waiting(st), fin, c, found) /\ st # << >> /\ edges' = es /\ finished' = fin
      /\ st \in Seq(Vertices(es) \X BOOLEAN)
  BY <1>1 DEF B!Collect
<1>3. es \in SUBSET (Hosts \X Hosts)
  BY <1>2 DEF Collects, CollectTypes
<1>4. PICK u, more, grown :
         /\ u = st[Len(st)][1] /\ grown = c \cup ({u} \ vis)
         /\ more = IF {u} \ vis = {} THEN {} ELSE B!Predecessors(u) \ (vis \cup ({u} \ vis))
  OBVIOUS
<1>5. /\ vis2 = vis \cup ({u} \ vis)
      /\ \E pushed \in B!Pushes(more) : st2 = B!Front(st) \o pushed
      /\ IF st2 = << >> THEN sccs' = found \cup {grown} /\ comp' = {}
                        ELSE comp' = grown /\ sccs' = found
  BY <1>1, <1>4 DEF B!Collect, B!Last
<1>6. PICK pushed \in B!Pushes(more) : st2 = SubSeq(st, 1, Len(st) - 1) \o pushed
  BY <1>5 DEF B!Front
<1>7. B!Predecessors(u) = {y \in Vertices(es) : u \in Neighbors(es, y)}
  <2>1. B!Predecessors(u) = {x[1] : x \in {z \in es : z[2] = u}}
    BY <1>1 DEF B!Predecessors
  <2>2. \A x \in es : x = <<x[1], x[2]>>
    BY <1>3
  <2>3. \A y : y \in B!Predecessors(u) <=> <<y, u>> \in es
    BY <2>1, <2>2
  <2> QED BY <1>3, <2>3, VerticesFacts
<1>8. more = IF u \in vis THEN {} ELSE {y \in Vertices(es) : u \in Neighbors(es, y)} \ (vis \cup {u})
  BY <1>4, <1>7
<1>9. more \in SUBSET Vertices(es)
  BY <1>8
<1>10. IsPushed(pushed, more, Vertices(es))
  BY <1>3, <1>9, PushesAreComplete
<1>11. /\ Popped(es, vis, Waiting(st), u, Waiting(st2))
       /\ st2 \in Seq(Vertices(es) \X BOOLEAN)
       /\ st2 = << >> <=> Waiting(st2) = {}
  <2>1. StackPopped(es, vis, st, u, st2)
    BY <1>2, <1>3, <1>4, <1>6, <1>8, <1>10, CollectIsPop
  <2> QED BY <2>1 DEF StackPopped
<1>12. /\ Waiting(st2) = {} => Collects(es, vis2, {}, fin, {}, found \cup {grown})
       /\ Waiting(st2) # {} => Collects(es, vis2, Waiting(st2), fin, grown, found)
  BY <1>2, <1>4, <1>5, <1>11, CollectPops
<1>13. Collects(es, vis2, Waiting(st2), fin, comp', sccs')
  BY <1>5, <1>11, <1>12
<1> QED BY <1>1, <1>2, <1>11, <1>13

LEMMA RootKeeps ==
    ASSUME dfs \in Seq(Vertices(edges) \X BOOLEAN), B!Root,
           Collects(edges, visited, Waiting(dfs), finished, comp, sccs)
    PROVE  /\ dfs' \in Seq(Vertices(edges') \X BOOLEAN)
           /\ Collects(edges', visited', Waiting(dfs'), finished', comp', sccs')
<1>1. PICK es, vis, fin, fin2, st2, found :
         /\ es = edges /\ vis = visited /\ fin = finished /\ found = sccs
         /\ fin2 = finished' /\ st2 = dfs'
  OBVIOUS
<1>2. Waiting(<< >>) = {}
  BY DEF Waiting
<1>3. /\ Collects(es, vis, {}, fin, {}, found) /\ fin # << >> /\ comp = {}
      /\ edges' = es /\ visited' = vis /\ comp' = {} /\ sccs' = found
  <2>1. dfs = << >> /\ Waiting(dfs) = {}
    BY <1>2 DEF B!Root
  <2>2. comp = {}
    BY <2>1 DEF Collects
  <2> QED BY <1>1, <2>1, <2>2 DEF B!Root
<1>4. PICK v : v = fin[Len(fin)]
  OBVIOUS
<1>5. fin2 = SubSeq(fin, 1, Len(fin) - 1) /\ st2 = IF v \in vis THEN << >> ELSE << <<v, FALSE>> >>
  BY <1>1, <1>4 DEF B!Root, B!Last, B!Front
<1>6. Collects(es, vis, IF v \in vis THEN {} ELSE {v}, fin2, {}, found)
  BY <1>3, <1>4, <1>5, CollectRoot
<1>7. Waiting(<< <<v, FALSE>> >>) = {v}
  <2>1. 1..Len(<< <<v, FALSE>> >>) = {1} /\ << <<v, FALSE>> >>[1][1] = v
    OBVIOUS
  <2> QED BY <2>1 DEF Waiting
<1>8. Waiting(st2) = IF v \in vis THEN {} ELSE {v}
  BY <1>2, <1>5, <1>7
<1>9. v \in Vertices(es)
  <2>1. fin \in Seq(Vertices(es))
    BY <1>3 DEF Collects, CollectTypes
  <2> QED BY <1>3, <1>4, <2>1
<1>10. st2 \in Seq(Vertices(es) \X BOOLEAN)
  <2>1. <<v, FALSE>> \in Vertices(es) \X BOOLEAN
    BY <1>9
  <2>2. << <<v, FALSE>> >> \in Seq(Vertices(es) \X BOOLEAN) /\ << >> \in Seq(Vertices(es) \X BOOLEAN)
    BY <2>1
  <2> QED BY <1>5, <2>2
<1> QED BY <1>1, <1>3, <1>6, <1>8, <1>10

LEMMA KosarajuStep ==
    ASSUME KosarajuInv, B!Next
    PROVE  KosarajuInv'
<1>1. CASE B!Start
  <2>1. pass = 1 /\ dfs = << >> /\ UNCHANGED <<edges, pass, visited, finished, comp, sccs>>
    BY <1>1 DEF B!Start
  <2>2. comp = {} /\ sccs = {} /\ Search(edges, visited, dfs, finished)
    BY <2>1 DEF KosarajuInv
  <2>3. PICK es, vis, fin, st2 : es = edges /\ vis = visited /\ fin = finished /\ st2 = dfs'
    OBVIOUS
  <2>4. PICK v \in Vertices(es) : st2 = << <<v, FALSE>> >>
    BY <1>1, <2>3, KosarajuGraph DEF B!Start
  <2>5. PICK e \in Vertices(es) \X BOOLEAN : e = <<v, FALSE>> /\ ~IsPost(e)
    BY <2>4, EntryFacts
  <2>6. Search(es, vis, << >>, fin) /\ st2 = <<e>>
    BY <2>1, <2>2, <2>3, <2>4, <2>5
  <2>7. Search(es, vis, st2, fin)
    BY <2>5, <2>6, SearchStarts
  <2> QED BY <2>1, <2>2, <2>3, <2>7 DEF KosarajuInv
<1>2. CASE B!Visit
  <2>1. pass = 1 /\ UNCHANGED <<pass, comp, sccs>>
    BY <1>2 DEF B!Visit
  <2>2. comp = {} /\ sccs = {} /\ Search(edges, visited, dfs, finished)
    BY <2>1 DEF KosarajuInv
  <2>3. Search(edges', visited', dfs', finished')
    BY <1>2, <2>2, VisitKeeps
  <2> QED BY <2>1, <2>2, <2>3 DEF KosarajuInv
<1>3. CASE B!Turn
  <2>1. /\ pass = 1 /\ dfs = << >> /\ Vertices(edges) \subseteq visited
        /\ pass' = 2 /\ visited' = {} /\ UNCHANGED <<edges, dfs, finished, comp, sccs>>
    BY <1>3, KosarajuGraph DEF B!Turn
  <2>2. comp = {} /\ sccs = {} /\ Search(edges, visited, dfs, finished)
    BY <2>1 DEF KosarajuInv
  <2>3. PICK es, vis, fin : es = edges /\ vis = visited /\ fin = finished
    OBVIOUS
  <2>4. Search(es, vis, << >>, fin) /\ Vertices(es) \subseteq vis
    BY <2>1, <2>2, <2>3
  <2>5. Collects(es, {}, {}, fin, {}, {})
    BY <2>4, CollectStarts
  <2>6. Waiting(<< >>) = {} /\ << >> \in Seq(Vertices(es) \X BOOLEAN)
    BY DEF Waiting
  <2> QED BY <2>1, <2>2, <2>3, <2>5, <2>6 DEF KosarajuInv
<1>4. CASE B!Root
  <2>1. pass = 2 /\ pass' = 2
    BY <1>4 DEF B!Root
  <2> QED BY <1>4, <2>1, RootKeeps DEF KosarajuInv
<1>5. CASE B!Collect
  <2>1. pass = 2 /\ pass' = 2
    BY <1>5 DEF B!Collect
  <2> QED BY <1>5, <2>1, CollectKeeps DEF KosarajuInv
<1> QED BY <1>1, <1>2, <1>3, <1>4, <1>5 DEF B!Next

LEMMA KosarajuEnds == KosarajuInv => B!FindsSccs
<1> SUFFICES ASSUME KosarajuInv PROVE B!FindsSccs
  OBVIOUS
<1>1. sccs \subseteq Sccs(edges)
  BY DEF KosarajuInv, Collects, CollectTypes
<1>2. ASSUME B!Done PROVE sccs = Sccs(edges)
  <2>1. Waiting(<< >>) = {}
    BY DEF Waiting
  <2>2. Collects(edges, visited, {}, << >>, comp, sccs)
    BY <1>2, <2>1 DEF KosarajuInv, B!Done
  <2> QED BY <2>2, CollectEnds
<1> QED BY <1>1, <1>2, KosarajuGraph DEF B!FindsSccs

(***************************************************************************)
(* Kosaraju's two passes only report whole components, and all of them     *)
(* when they end: on every graph, whatever the order in which vertices and *)
(* neighbours come up.                                                     *)
(***************************************************************************)
THEOREM KosarajuFindsComponents == Spec => []KosarajuFindsSccs
<1> DEFINE Inv == running = "kosaraju" => KosarajuInv
<1>1. Init => Inv
  <2> SUFFICES ASSUME Init, running = "kosaraju" PROVE B!Init
    BY KosarajuStart
  <2> QED BY DEF Init
<1>2. Inv /\ [Next]_vars => Inv'
  <2> SUFFICES ASSUME Inv, [Next]_vars, running' = "kosaraju" PROVE KosarajuInv'
    OBVIOUS
  <2>1. CASE UNCHANGED vars
    BY <2>1 DEF vars, searchVars, graphVars, kosarajuVars, KosarajuInv
  <2>2. CASE Next
    <3>1. running = "kosaraju" /\ B!Next
      BY <2>2 DEF Next
    <3> QED BY <3>1, KosarajuStep
  <2> QED BY <2>1, <2>2
<1>3. Inv => KosarajuFindsSccs
  BY KosarajuEnds DEF KosarajuFindsSccs
<1> QED BY <1>1, <1>2, <1>3, PTL DEF Spec

-----------------------------------------------------------------------------
(***************************************************************************)
(* Tarjan: t, d and l are the timer, discovery times and low-links, on the *)
(* vertex stack, open the vertices that have a frame and pend the edges    *)
(* their frames have still to look at.                                     *)
(***************************************************************************)
TarjanTypes(es, t, d, l, on, open, pend, found) ==
    /\ es \in SUBSET (Hosts \X Hosts) /\ t \in Nat /\ d \in [Hosts -> Int] /\ l \in [Hosts -> Int]
    /\ on \subseteq Vertices(es) /\ open \subseteq on /\ found \in SUBSET Sccs(es)
    /\ \A x, y : <<x, y>> \in pend => x \in open /\ y \in Neighbors(es, x)

\* A vertex was seen if it is on the stack or in a component that was stored.
SeenOnce(t, d, on, found) ==
    /\ \A h \in Hosts : d[h] # -1 <=> h \in on \/ h \in UNION found
    /\ \A h \in on : h \notin UNION found
    /\ \A h \in Hosts : d[h] # -1 => d[h] >= 0 /\ d[h] < t
    /\ \A g, h \in on : d[g] = d[h] => g = h

\* What edges lead to: stored components are left by none.
EdgesSeen(es, d, on, pend, found) ==
    /\ Closed(es, UNION found)
    /\ \A x \in on : \A y \in Neighbors(es, x) : <<x, y>> \in pend \/ d[y] # -1

\* From the stack one gets to an open vertex below, and from there to all above it.
OneComponentDeep(es, d, on, open) ==
    /\ \A x \in on : \E g \in open : d[g] <= d[x] /\ g \in Reach(es, x)
    /\ \A g \in open, x \in on : d[g] <= d[x] => x \in Reach(es, g)

\* The low-link of an open vertex is the number of a vertex it reaches.
LowReached(es, d, l, on, open) ==
    \A u \in open : l[u] <= d[u] /\ \E w \in on : d[w] = l[u] /\ w \in Reach(es, u)

\* u is the innermost open vertex below x.
Owns(d, open, u, x) == d[u] <= d[x] /\ \A g \in open : d[g] <= d[u] \/ d[x] < d[g]

\* And it is the least number on the stack that an edge looked at from u or
\* a closed vertex above u leads to.
LowIsLeast(es, d, l, on, open, pend) ==
    \A u \in open, x \in on : Owns(d, open, u, x) =>
        \A y \in on : y \in Neighbors(es, x) /\ <<x, y>> \notin pend => l[u] <= d[y]

Explores(es, t, d, l, on, open, pend, found) ==
    /\ TarjanTypes(es, t, d, l, on, open, pend, found) /\ SeenOnce(t, d, on, found)
    /\ EdgesSeen(es, d, on, pend, found) /\ OneComponentDeep(es, d, on, open)
    /\ LowReached(es, d, l, on, open) /\ LowIsLeast(es, d, l, on, open, pend)

\* The layout of the two stacks: both are in the order of discovery.
Stacked(s, d, on) ==
    /\ s \in Seq(Hosts) /\ on = {s[k] : k \in 1..Len(s)}
    /\ \A j, k \in 1..Len(s) : j < k => d[s[j]] < d[s[k]]

Frame == [u : Hosts, todo : SUBSET Hosts]

Framed(f, d, open, pend) ==
    /\ f \in Seq(Frame) /\ open = {f[k].u : k \in 1..Len(f)}
    /\ \A j, k \in 1..Len(f) : j < k => d[f[j].u] < d[f[k].u]
    /\ \A x, y : <<x, y>> \in pend <=> \E k \in 1..Len(f) : f[k].u = x /\ y \in f[k].todo

TarjanInv ==
    \E on, open, pend :
        /\ Explores(edges, timer, disc, low, on, open, pend, sccs)
        /\ Stacked(stk, disc, on) /\ Framed(calls, disc, open, pend)

\* u is the innermost open vertex.
Innermost(d, open, u) == u \in open /\ \A g \in open : d[g] <= d[u]

\* The pending edges with those from v to the vertices of a set, and without
\* the one from u to v.
Adds(pend2, pend, v, set) ==
    \A x, y : <<x, y>> \in pend2 <=> (x = v /\ y \in set) \/ <<x, y>> \in pend

Drops(pend2, pend, u, v) ==
    \A x, y : <<x, y>> \in pend2 <=> <<x, y>> \in pend /\ ~(x = u /\ y = v)

\* A vertex is discovered, from u unless it is a root.
LEMMA ExploresDiscovers ==
    ASSUME NEW es, NEW t, NEW d, NEW l, NEW on, NEW open, NEW pend, NEW found,
           Explores(es, t, d, l, on, open, pend, found),
           NEW v \in Vertices(es), d[v] = -1, NEW u,
           open = {} \/ (Innermost(d, open, u) /\ v \in Neighbors(es, u)),
           NEW t2, t2 = t + 1, NEW d2, d2 = [d EXCEPT ![v] = t], NEW l2, l2 = [l EXCEPT ![v] = t],
           NEW on2, on2 = on \cup {v}, NEW open2, open2 = open \cup {v}, NEW pend1, NEW pend2,
           Drops(pend1, pend, u, v), Adds(pend2, pend1, v, Neighbors(es, v))
    PROVE  Explores(es, t2, d2, l2, on2, open2, pend2, found)
<1> \A x, y : <<x, y>> \in pend2 <=> \/ x = v /\ y \in Neighbors(es, v)
                                     \/ <<x, y>> \in pend /\ ~(x = u /\ y = v)
  BY DEF Adds, Drops
<1>0. /\ TarjanTypes(es, t, d, l, on, open, pend, found) /\ SeenOnce(t, d, on, found)
      /\ EdgesSeen(es, d, on, pend, found) /\ OneComponentDeep(es, d, on, open)
      /\ LowReached(es, d, l, on, open) /\ LowIsLeast(es, d, l, on, open, pend)
  BY DEF Explores
<1>1. /\ es \in SUBSET (Hosts \X Hosts) /\ t \in Nat /\ d \in [Hosts -> Int] /\ l \in [Hosts -> Int]
      /\ on \subseteq Vertices(es) /\ open \subseteq on /\ found \in SUBSET Sccs(es)
      /\ v \in Hosts /\ on \subseteq Hosts /\ on2 \subseteq Vertices(es)
  BY <1>0, VerticesFacts DEF TarjanTypes
<1>2. v \notin on /\ v \notin UNION found /\ v \notin open
  BY <1>0, <1>1 DEF SeenOnce
<1>3. /\ d2 \in [Hosts -> Int] /\ l2 \in [Hosts -> Int] /\ d2[v] = t /\ l2[v] = t
      /\ \A h \in Hosts : h # v => d2[h] = d[h] /\ l2[h] = l[h]
  BY <1>1
<1>4. \A h \in on : h # v /\ h \in Hosts /\ d2[h] = d[h] /\ l2[h] = l[h] /\ d[h] \in Int /\ l[h] \in Int
                    /\ d[h] < t
  <2>1. \A h \in on : h # v /\ h \in Hosts /\ d[h] \in Int /\ l[h] \in Int /\ d[h] # -1
    BY <1>0, <1>1, <1>2 DEF SeenOnce
  <2>2. \A h \in on : d[h] < t
    BY <1>0, <2>1 DEF SeenOnce
  <2> QED BY <1>3, <2>1, <2>2
<1>5. TarjanTypes(es, t2, d2, l2, on2, open2, pend2, found)
  <2>1. \A x, y : <<x, y>> \in pend => x \in open /\ y \in Neighbors(es, x)
    BY <1>0 DEF TarjanTypes
  <2>2. \A x, y : <<x, y>> \in pend2 => x \in open2 /\ y \in Neighbors(es, x)
    BY <2>1
  <2>3. t2 \in Nat /\ open2 \subseteq on2
    BY <1>1
  <2> QED BY <1>1, <1>3, <2>2, <2>3 DEF TarjanTypes
<1>6. SeenOnce(t2, d2, on2, found)
  <2>1. ASSUME NEW h \in Hosts PROVE d2[h] # -1 <=> h \in on2 \/ h \in UNION found
    <3>1. CASE h = v
      BY <1>1, <1>3, <3>1
    <3>2. CASE h # v
      BY <1>0, <1>3, <3>2 DEF SeenOnce
    <3> QED BY <3>1, <3>2
  <2>2. \A h \in on2 : h \notin UNION found
    BY <1>0, <1>2 DEF SeenOnce
  <2>3. ASSUME NEW h \in Hosts, d2[h] # -1 PROVE d2[h] >= 0 /\ d2[h] < t2
    <3>1. CASE h = v
      BY <1>1, <1>3, <3>1
    <3>2. CASE h # v
      <4>1. d[h] >= 0 /\ d[h] < t /\ d2[h] = d[h] /\ d[h] \in Int
        BY <1>0, <1>1, <1>3, <2>3, <3>2 DEF SeenOnce
      <4> QED BY <1>1, <4>1
    <3> QED BY <3>1, <3>2
  <2>4. ASSUME NEW g \in on2, NEW h \in on2, d2[g] = d2[h] PROVE g = h
    <3>1. CASE g \in on /\ h \in on
      BY <1>0, <1>4, <2>4, <3>1 DEF SeenOnce
    <3>2. CASE g = v /\ h \in on
      BY <1>1, <1>3, <1>4, <2>4, <3>2
    <3>3. CASE g \in on /\ h = v
      BY <1>1, <1>3, <1>4, <2>4, <3>3
    <3> QED BY <3>1, <3>2, <3>3
  <2> QED BY <2>1, <2>2, <2>3, <2>4 DEF SeenOnce
<1>7. EdgesSeen(es, d2, on2, pend2, found)
  <2>1. ASSUME NEW x \in on2, NEW y \in Neighbors(es, x), <<x, y>> \notin pend2 PROVE d2[y] # -1
    <3>1. x # v /\ x \in on /\ (<<x, y>> \notin pend \/ y = v)
      BY <2>1
    <3>2. y \in Hosts
      BY <1>1, NeighboursAreHosts
    <3>3. CASE y = v
      BY <1>1, <1>3, <3>3
    <3>4. CASE y # v
      BY <1>0, <1>3, <3>1, <3>2, <3>4 DEF EdgesSeen
    <3> QED BY <3>3, <3>4
  <2> QED BY <1>0, <2>1 DEF EdgesSeen
<1>8. OneComponentDeep(es, d2, on2, open2)
  <2>1. ASSUME NEW x \in on2 PROVE \E g \in open2 : d2[g] <= d2[x] /\ g \in Reach(es, x)
    <3>1. CASE x = v
      BY <1>1, <1>3, <3>1, ReachFacts
    <3>2. CASE x \in on
      <4>1. PICK g \in open : d[g] <= d[x] /\ g \in Reach(es, x)
        BY <1>0, <3>2 DEF OneComponentDeep
      <4>2. g \in on /\ d2[g] = d[g] /\ d2[x] = d[x] /\ g \in open2
        BY <1>1, <1>4, <3>2
      <4> QED BY <4>1, <4>2
    <3> QED BY <3>1, <3>2
  <2>2. ASSUME NEW g \in open2, NEW x \in on2, d2[g] <= d2[x] PROVE x \in Reach(es, g)
    <3>1. CASE g = v
      <4>1. x = v
        BY <1>1, <1>3, <1>4, <2>2, <3>1
      <4> QED BY <1>1, <3>1, <4>1, ReachFacts
    <3>2. CASE g \in open /\ x \in on
      <4>1. d[g] <= d[x]
        BY <1>1, <1>4, <2>2, <3>2
      <4> QED BY <1>0, <3>2, <4>1 DEF OneComponentDeep
    <3>3. CASE g \in open /\ x = v
      <4>1. u \in open /\ d[g] <= d[u] /\ v \in Neighbors(es, u)
        BY <3>3 DEF Innermost
      <4>2. u \in Reach(es, g) /\ g \in Hosts
        BY <1>0, <1>1, <3>3, <4>1 DEF OneComponentDeep
      <4> QED BY <1>1, <3>3, <4>1, <4>2, ReachFacts DEF Closed
    <3> QED BY <3>1, <3>2, <3>3
  <2> QED BY <2>1, <2>2 DEF OneComponentDeep
<1>9. LowReached(es, d2, l2, on2, open2)
  <2> SUFFICES ASSUME NEW g \in open2
               PROVE  l2[g] <= d2[g] /\ \E w \in on2 : d2[w] = l2[g] /\ w \in Reach(es, g)
    BY DEF LowReached
  <2>1. CASE g = v
    BY <1>1, <1>3, <2>1, ReachFacts
  <2>2. CASE g \in open
    <3>1. l[g] <= d[g]
      BY <1>0, <2>2 DEF LowReached
    <3>2. PICK w \in on : d[w] = l[g] /\ w \in Reach(es, g)
      BY <1>0, <2>2 DEF LowReached
    <3>3. g \in on /\ w \in on2
      BY <1>1, <2>2
    <3> QED BY <1>4, <3>1, <3>2, <3>3
  <2> QED BY <2>1, <2>2
<1>10. LowIsLeast(es, d2, l2, on2, open2, pend2)
  <2> SUFFICES ASSUME NEW g \in open2, NEW x \in on2, Owns(d2, open2, g, x),
                      NEW y \in on2, y \in Neighbors(es, x), <<x, y>> \notin pend2
               PROVE  l2[g] <= d2[y]
    BY DEF LowIsLeast
  <2>1. x # v /\ x \in on
    OBVIOUS
  <2>2. d2[g] <= d2[x]
    BY DEF Owns
  <2>3. g # v /\ g \in open /\ g \in on
    BY <1>1, <1>3, <1>4, <2>1, <2>2
  <2>4. l[g] <= d[g] /\ d[g] < t /\ l2[g] = l[g] /\ l[g] \in Int /\ d[g] \in Int
    BY <1>0, <1>4, <2>3 DEF LowReached
  <2>5. CASE y = v
    BY <1>1, <1>3, <2>4, <2>5
  <2>6. CASE y # v
    <3>1. y \in on /\ <<x, y>> \notin pend
      BY <2>1, <2>6
    <3>2. Owns(d, open, g, x)
      <4>1. \A h \in open : h \in open2 /\ d2[h] = d[h]
        BY <1>1, <1>4
      <4>2. d2[g] = d[g] /\ d2[x] = d[x]
        BY <1>4, <2>1, <2>3
      <4> QED BY <4>1, <4>2 DEF Owns
    <3>3. l[g] <= d[y]
      BY <1>0, <2>1, <2>3, <3>1, <3>2 DEF LowIsLeast
    <3> QED BY <1>4, <2>4, <3>1, <3>3
  <2> QED BY <2>5, <2>6
<1> QED BY <1>5, <1>6, <1>7, <1>8, <1>9, <1>10 DEF Explores

\* The least of two numbers.
IsLesser(x, a, b) == x = IF a < b THEN a ELSE b

\* An edge to a vertex that was seen: the low-link takes its number if it is on the stack.
LEMMA ExploresSeen ==
    ASSUME NEW es, NEW t, NEW d, NEW l, NEW on, NEW open, NEW pend, NEW found,
           Explores(es, t, d, l, on, open, pend, found), NEW u, Innermost(d, open, u),
           NEW v, <<u, v>> \in pend, d[v] # -1,
           NEW least, IF v \in on THEN IsLesser(least, l[u], d[v]) ELSE least = l[u],
           NEW l2, l2 = [l EXCEPT ![u] = least],
           NEW pend2, Drops(pend2, pend, u, v)
    PROVE  Explores(es, t, d, l2, on, open, pend2, found)
<1> \A x, y : <<x, y>> \in pend2 <=> <<x, y>> \in pend /\ ~(x = u /\ y = v)
  BY DEF Drops
<1>0. /\ TarjanTypes(es, t, d, l, on, open, pend, found) /\ SeenOnce(t, d, on, found)
      /\ EdgesSeen(es, d, on, pend, found) /\ OneComponentDeep(es, d, on, open)
      /\ LowReached(es, d, l, on, open) /\ LowIsLeast(es, d, l, on, open, pend)
  BY DEF Explores
<1>1. /\ es \in SUBSET (Hosts \X Hosts) /\ t \in Nat /\ d \in [Hosts -> Int] /\ l \in [Hosts -> Int]
      /\ on \subseteq Vertices(es) /\ open \subseteq on /\ found \in SUBSET Sccs(es)
      /\ on \subseteq Hosts /\ u \in open /\ u \in on /\ u \in Hosts
  BY <1>0, VerticesFacts DEF TarjanTypes, Innermost
<1>2. v \in Neighbors(es, u) /\ v \in Hosts
  BY <1>0, <1>1, NeighboursAreHosts DEF TarjanTypes
<1>3. l[u] \in Int /\ d[u] \in Int /\ d[v] \in Int
  BY <1>1, <1>2
<1>4. least \in Int /\ least <= l[u] /\ (v \in on => least <= d[v]) /\ (least = l[u] \/ (v \in on /\ least = d[v]))
  BY <1>3 DEF IsLesser
<1>5. l2 \in [Hosts -> Int] /\ l2[u] = least /\ \A h \in Hosts : h # u => l2[h] = l[h]
  BY <1>1, <1>4
<1>6. \A h \in Hosts : l2[h] \in Int /\ l[h] \in Int /\ l2[h] <= l[h]
  <2>1. \A h \in Hosts : l2[h] \in Int /\ l[h] \in Int
    BY <1>1, <1>5
  <2> QED BY <1>4, <1>5, <2>1
<1>7. TarjanTypes(es, t, d, l2, on, open, pend2, found)
  <2>1. \A x, y : <<x, y>> \in pend2 => x \in open /\ y \in Neighbors(es, x)
    BY <1>0 DEF TarjanTypes
  <2> QED BY <1>1, <1>5, <2>1 DEF TarjanTypes
<1>8. EdgesSeen(es, d, on, pend2, found)
  <2>1. ASSUME NEW x \in on, NEW y \in Neighbors(es, x), <<x, y>> \notin pend2 PROVE d[y] # -1
    <3>1. <<x, y>> \notin pend \/ y = v
      BY <2>1
    <3> QED BY <1>0, <3>1 DEF EdgesSeen
  <2> QED BY <1>0, <2>1 DEF EdgesSeen
<1>9. LowReached(es, d, l2, on, open)
  <2> SUFFICES ASSUME NEW g \in open
               PROVE  l2[g] <= d[g] /\ \E w \in on : d[w] = l2[g] /\ w \in Reach(es, g)
    BY DEF LowReached
  <2>1. g \in Hosts /\ l[g] <= d[g] /\ d[g] \in Int
    BY <1>0, <1>1 DEF LowReached
  <2>2. l2[g] <= d[g]
    BY <1>6, <2>1
  <2>3. CASE l2[g] = l[g]
    BY <1>0, <2>2, <2>3 DEF LowReached
  <2>4. CASE l2[g] # l[g]
    <3>1. g = u /\ v \in on /\ l2[g] = d[v]
      BY <1>4, <1>5, <2>1, <2>4
    <3>2. v \in Reach(es, g)
      BY <1>1, <1>2, <3>1, ReachNeighbor
    <3> QED BY <2>2, <3>1, <3>2
  <2> QED BY <2>3, <2>4
<1>10. LowIsLeast(es, d, l2, on, open, pend2)
  <2> SUFFICES ASSUME NEW g \in open, NEW x \in on, Owns(d, open, g, x),
                      NEW y \in on, y \in Neighbors(es, x), <<x, y>> \notin pend2
               PROVE  l2[g] <= d[y]
    BY DEF LowIsLeast
  <2>1. CASE <<x, y>> \notin pend
    <3>1. l[g] <= d[y]
      BY <1>0, <2>1 DEF LowIsLeast
    <3>2. l2[g] <= l[g] /\ l2[g] \in Int /\ l[g] \in Int /\ d[y] \in Int
      BY <1>1, <1>6
    <3> QED BY <3>1, <3>2
  <2>2. CASE x = u /\ y = v
    <3>1. d[g] <= d[u] /\ d[u] <= d[g]
      <4>1. d[g] <= d[u] /\ (d[u] <= d[g] \/ d[u] < d[u])
        BY <1>1, <2>2 DEF Owns
      <4> QED BY <1>3, <4>1
    <3>2. d[g] = d[u] /\ g \in on
      <4>1. d[g] \in Int /\ g \in on
        BY <1>1
      <4> QED BY <1>3, <3>1, <4>1
    <3>3. g = u
      BY <1>0, <1>1, <3>2 DEF SeenOnce
    <3> QED BY <1>4, <1>5, <2>2, <3>3
  <2> QED BY <2>1, <2>2
<1> QED BY <1>0, <1>7, <1>8, <1>9, <1>10 DEF Explores

\* The vertices on the stack from u on.
OnFrom(on, d, u) == {x \in on : d[u] <= d[x]}

\* What the innermost open vertex and those above it on the stack are, when
\* its edges were all looked at and its low-link is its own number.
LEMMA RootIsFound ==
    ASSUME NEW es, NEW t, NEW d, NEW l, NEW on, NEW open, NEW pend, NEW found,
           Explores(es, t, d, l, on, open, pend, found), NEW u, Innermost(d, open, u),
           \A y : <<u, y>> \notin pend, l[u] = d[u],
           NEW c, c = OnFrom(on, d, u)
    PROVE  /\ c = SccOf(es, u) /\ c \in Sccs(es)
           /\ Closed(es, c \cup UNION found)
<1>0. /\ TarjanTypes(es, t, d, l, on, open, pend, found) /\ SeenOnce(t, d, on, found)
      /\ EdgesSeen(es, d, on, pend, found) /\ OneComponentDeep(es, d, on, open)
      /\ LowReached(es, d, l, on, open) /\ LowIsLeast(es, d, l, on, open, pend)
  BY DEF Explores
<1> c = {x \in on : d[u] <= d[x]}
  BY DEF OnFrom
<1>1. /\ es \in SUBSET (Hosts \X Hosts) /\ d \in [Hosts -> Int]
      /\ on \subseteq Vertices(es) /\ open \subseteq on
      /\ on \subseteq Hosts /\ u \in open /\ u \in on /\ u \in Hosts /\ u \in Vertices(es)
  BY <1>0, VerticesFacts DEF TarjanTypes, Innermost
<1>2. \A x \in on : d[x] \in Int /\ d[u] \in Int
  BY <1>1
<1>3. ASSUME NEW x \in c PROVE x \in SccOf(es, u)
  <2>1. x \in on /\ d[u] <= d[x] /\ x \in Hosts
    BY <1>1
  <2>2. x \in Reach(es, u)
    BY <1>0, <1>1, <2>1 DEF OneComponentDeep
  <2>3. PICK g \in open : g \in Reach(es, x)
    BY <1>0, <2>1 DEF OneComponentDeep
  <2>4. u \in Reach(es, g)
    BY <1>0, <1>1 DEF OneComponentDeep, Innermost
  <2>5. u \in Reach(es, x)
    BY <1>1, <2>1, <2>3, <2>4, ReachIsTransitive
  <2> QED BY <2>2, <2>5 DEF SccOf
<1>4. Closed(es, c \cup UNION found)
  <2>1. ASSUME NEW x \in c, NEW y \in Neighbors(es, x) PROVE y \in c \cup UNION found
    <3>1. x \in on /\ d[u] <= d[x]
      OBVIOUS
    <3>2. <<x, y>> \notin pend
      <4>1. <<x, y>> \in pend => x \in open
        BY <1>0 DEF TarjanTypes
      <4>2. x \in open => d[x] <= d[u]
        BY DEF Innermost
      <4>3. x \in open => d[x] = d[u]
        BY <1>2, <3>1, <4>2
      <4>4. x \in open => x = u
        BY <1>0, <1>1, <3>1, <4>3 DEF SeenOnce
      <4> QED BY <4>1, <4>4
    <3>3. y \in Hosts /\ d[y] # -1
      BY <1>0, <1>1, <3>1, <3>2, NeighboursAreHosts DEF EdgesSeen
    <3>4. CASE y \in on
      <4>1. Owns(d, open, u, x)
        BY <3>1 DEF Owns, Innermost
      <4>2. l[u] <= d[y]
        BY <1>0, <1>1, <3>1, <3>2, <3>4, <4>1 DEF LowIsLeast
      <4> QED BY <3>4, <4>2
    <3>5. CASE y \in UNION found
      BY <3>5
    <3> QED BY <1>0, <3>3, <3>4, <3>5 DEF SeenOnce
  <2>2. ASSUME NEW x \in UNION found, NEW y \in Neighbors(es, x) PROVE y \in c \cup UNION found
    BY <1>0 DEF EdgesSeen, Closed
  <2> QED BY <2>1, <2>2 DEF Closed
<1>5. ASSUME NEW z \in SccOf(es, u) PROVE z \in c
  <2>1. z \in Reach(es, u) /\ u \in Reach(es, z) /\ z \in Hosts
    BY <1>1, SccOfFacts DEF SccOf
  <2>2. u \in c \cup UNION found
    BY <1>1, <1>2
  <2>3. z \in c \cup UNION found
    <3>1. PICK set : set = c \cup UNION found
      OBVIOUS
    <3>2. Closed(es, set) /\ u \in set
      BY <1>4, <2>2, <3>1
    <3> QED BY <1>1, <2>1, <3>1, <3>2, ReachFacts
  <2>4. ASSUME z \in UNION found PROVE FALSE
    <3>1. Reach(es, z) \subseteq UNION found
      BY <1>0, <1>1, <2>1, <2>4, ReachFacts DEF EdgesSeen
    <3> QED BY <1>0, <1>1, <2>1, <3>1 DEF SeenOnce
  <2> QED BY <2>3, <2>4
<1>6. c = SccOf(es, u)
  BY <1>3, <1>5
<1> QED BY <1>1, <1>4, <1>6, SccsAreClasses

\* A frame returns and its vertex is the root of a component.  Its caller's
\* low-link is less than what it hands over.
LEMMA ExploresPops ==
    ASSUME NEW es, NEW t, NEW d, NEW l, NEW on, NEW open, NEW pend, NEW found,
           Explores(es, t, d, l, on, open, pend, found), NEW u, Innermost(d, open, u),
           \A y : <<u, y>> \notin pend, l[u] = d[u],
           NEW c, c = OnFrom(on, d, u),
           NEW on2, on2 = on \ c, NEW open2, open2 = open \ {u}, NEW found2, found2 = found \cup {c}
    PROVE  Explores(es, t, d, l, on2, open2, pend, found2)
<1>0. /\ TarjanTypes(es, t, d, l, on, open, pend, found) /\ SeenOnce(t, d, on, found)
      /\ EdgesSeen(es, d, on, pend, found) /\ OneComponentDeep(es, d, on, open)
      /\ LowReached(es, d, l, on, open) /\ LowIsLeast(es, d, l, on, open, pend)
  BY DEF Explores
<1>1. /\ es \in SUBSET (Hosts \X Hosts) /\ t \in Nat /\ d \in [Hosts -> Int] /\ l \in [Hosts -> Int]
      /\ on \subseteq Vertices(es) /\ open \subseteq on /\ found \in SUBSET Sccs(es)
      /\ on \subseteq Hosts /\ u \in open /\ u \in on /\ u \in Hosts
  BY <1>0, VerticesFacts DEF TarjanTypes, Innermost
<1>2. \A x \in on : d[x] \in Int
  BY <1>1
<1>3. c \in Sccs(es) /\ Closed(es, c \cup UNION found)
  BY RootIsFound
<1> c = {x \in on : d[u] <= d[x]}
  BY DEF OnFrom
<1>4. UNION found2 = c \cup UNION found
  OBVIOUS
<1>5. on2 \subseteq on /\ open2 \subseteq open /\ \A x \in on : x \in on2 <=> d[x] < d[u]
  BY <1>1, <1>2
<1>6. \A g \in open2 : g \in open /\ d[g] < d[u] /\ g \in on2
  <2> SUFFICES ASSUME NEW g \in open2 PROVE d[g] < d[u]
    BY <1>1, <1>5
  <2>1. g \in open /\ g # u /\ g \in on /\ d[g] <= d[u]
    BY <1>1 DEF Innermost
  <2>2. d[g] # d[u]
    BY <1>0, <1>1, <2>1 DEF SeenOnce
  <2> QED BY <1>1, <1>2, <2>1, <2>2
<1>7. TarjanTypes(es, t, d, l, on2, open2, pend, found2)
  <2>1. \A x, y : <<x, y>> \in pend => x \in open2 /\ y \in Neighbors(es, x)
    BY <1>0 DEF TarjanTypes
  <2>2. open2 \subseteq on2 /\ found2 \in SUBSET Sccs(es) /\ on2 \subseteq Vertices(es)
    BY <1>1, <1>3, <1>6
  <2> QED BY <1>1, <2>1, <2>2 DEF TarjanTypes
<1>8. SeenOnce(t, d, on2, found2)
  <2>1. \A h : h \in on2 \/ h \in UNION found2 <=> h \in on \/ h \in UNION found
    BY <1>4
  <2>2. \A h \in on2 : h \notin UNION found2
    BY <1>0, <1>4 DEF SeenOnce
  <2> QED BY <1>0, <1>5, <2>1, <2>2 DEF SeenOnce
<1>9. EdgesSeen(es, d, on2, pend, found2)
  BY <1>0, <1>3, <1>4, <1>5 DEF EdgesSeen
<1>10. OneComponentDeep(es, d, on2, open2)
  <2>1. ASSUME NEW x \in on2 PROVE \E g \in open2 : d[g] <= d[x] /\ g \in Reach(es, x)
    <3>1. PICK g \in open : d[g] <= d[x] /\ g \in Reach(es, x)
      BY <1>0, <1>5 DEF OneComponentDeep
    <3>2. d[x] < d[u] /\ x \in on
      BY <1>5
    <3>3. g # u
      BY <1>1, <1>2, <3>1, <3>2
    <3> QED BY <3>1, <3>3
  <2> QED BY <1>0, <1>5, <2>1 DEF OneComponentDeep
<1>11. LowReached(es, d, l, on2, open2)
  <2> SUFFICES ASSUME NEW g \in open2
               PROVE  l[g] <= d[g] /\ \E w \in on2 : d[w] = l[g] /\ w \in Reach(es, g)
    BY DEF LowReached
  <2>1. l[g] <= d[g]
    BY <1>0, <1>6 DEF LowReached
  <2>2. PICK w \in on : d[w] = l[g] /\ w \in Reach(es, g)
    BY <1>0, <1>6 DEF LowReached
  <2>3. g \in on /\ d[g] < d[u]
    BY <1>5, <1>6
  <2>4. d[w] < d[u]
    BY <1>1, <1>2, <2>1, <2>2, <2>3
  <2> QED BY <1>5, <2>1, <2>2, <2>4
<1>12. LowIsLeast(es, d, l, on2, open2, pend)
  <2> SUFFICES ASSUME NEW g \in open2, NEW x \in on2, Owns(d, open2, g, x),
                      NEW y \in on2, y \in Neighbors(es, x), <<x, y>> \notin pend
               PROVE  l[g] <= d[y]
    BY DEF LowIsLeast
  <2>1. d[x] < d[u]
    BY <1>5
  <2>2. Owns(d, open, g, x)
    BY <2>1 DEF Owns
  <2> QED BY <1>0, <1>5, <1>6, <2>2 DEF LowIsLeast
<1> QED BY <1>7, <1>8, <1>9, <1>10, <1>11, <1>12 DEF Explores

\* The caller's low-link takes that of u if it is less.
HandsOver(l2, l, d, open2, u) ==
    /\ \A p \in open2 : Innermost(d, open2, p) =>
          \E least : IsLesser(least, l[p], l[u]) /\ l2 = [l EXCEPT ![p] = least]
    /\ open2 # {} => \E p : Innermost(d, open2, p)

\* A frame returns and its vertex stays on the stack: it leads to an open
\* vertex further down, so it has a caller, which takes over its low-link.
LEMMA ExploresReturns ==
    ASSUME NEW es, NEW t, NEW d, NEW l, NEW on, NEW open, NEW pend, NEW found,
           Explores(es, t, d, l, on, open, pend, found), NEW u, Innermost(d, open, u),
           \A y : <<u, y>> \notin pend, l[u] # d[u],
           NEW open2, open2 = open \ {u}, NEW l2, HandsOver(l2, l, d, open2, u)
    PROVE  Explores(es, t, d, l2, on, open2, pend, found)
<1>0. /\ TarjanTypes(es, t, d, l, on, open, pend, found) /\ SeenOnce(t, d, on, found)
      /\ EdgesSeen(es, d, on, pend, found) /\ OneComponentDeep(es, d, on, open)
      /\ LowReached(es, d, l, on, open) /\ LowIsLeast(es, d, l, on, open, pend)
  BY DEF Explores
<1>1. /\ es \in SUBSET (Hosts \X Hosts) /\ t \in Nat /\ d \in [Hosts -> Int] /\ l \in [Hosts -> Int]
      /\ on \subseteq Vertices(es) /\ open \subseteq on /\ found \in SUBSET Sccs(es)
      /\ on \subseteq Hosts /\ u \in open /\ u \in on /\ u \in Hosts
  BY <1>0, VerticesFacts DEF TarjanTypes, Innermost
<1>2. \A x \in on : d[x] \in Int /\ l[x] \in Int
  BY <1>1
<1>3. l[u] < d[u]
  BY <1>0, <1>1, <1>2 DEF LowReached
<1>4. PICK w \in on : d[w] = l[u] /\ w \in Reach(es, u)
  BY <1>0, <1>1 DEF LowReached
<1>5. PICK b \in open : d[b] <= d[w] /\ b \in Reach(es, w)
  BY <1>0 DEF OneComponentDeep
<1>6. d[b] < d[u] /\ b \in open2 /\ b \in Reach(es, u)
  <2>1. d[b] < d[u]
    BY <1>1, <1>2, <1>3, <1>4, <1>5
  <2>2. b # u
    BY <1>1, <1>2, <2>1
  <2>3. b \in Reach(es, u)
    BY <1>1, <1>4, <1>5, ReachIsTransitive
  <2> QED BY <2>1, <2>2, <2>3
<1>7. PICK p : Innermost(d, open2, p)
  BY <1>6 DEF HandsOver
<1>8. p \in open2 /\ p \in open /\ p \in on /\ p # u /\ p \in Hosts
  BY <1>1, <1>7 DEF Innermost
<1>9. PICK least : IsLesser(least, l[p], l[u]) /\ l2 = [l EXCEPT ![p] = least]
  BY <1>7, <1>8 DEF HandsOver
<1>10. least \in Int /\ least <= l[p] /\ least <= l[u] /\ (least = l[p] \/ least = l[u])
  BY <1>1, <1>2, <1>8, <1>9 DEF IsLesser
<1>11. l2 \in [Hosts -> Int] /\ l2[p] = least /\ \A h \in Hosts : h # p => l2[h] = l[h]
  BY <1>1, <1>8, <1>9, <1>10
<1>12. \A h \in Hosts : l2[h] \in Int /\ l[h] \in Int /\ l2[h] <= l[h]
  <2>1. \A h \in Hosts : l2[h] \in Int /\ l[h] \in Int
    BY <1>1, <1>11
  <2> QED BY <1>10, <1>11, <2>1
<1>13. TarjanTypes(es, t, d, l2, on, open2, pend, found)
  <2>1. \A x, y : <<x, y>> \in pend => x \in open2 /\ y \in Neighbors(es, x)
    BY <1>0 DEF TarjanTypes
  <2>2. open2 \subseteq on
    BY <1>1
  <2> QED BY <1>1, <1>11, <2>1, <2>2 DEF TarjanTypes
<1>14. OneComponentDeep(es, d, on, open2)
  <2>1. ASSUME NEW x \in on PROVE \E g \in open2 : d[g] <= d[x] /\ g \in Reach(es, x)
    <3>1. PICK g \in open : d[g] <= d[x] /\ g \in Reach(es, x)
      BY <1>0 DEF OneComponentDeep
    <3>2. CASE g # u
      BY <3>1, <3>2
    <3>3. CASE g = u
      <4>1. b \in Reach(es, x)
        BY <1>1, <1>6, <3>1, <3>3, ReachIsTransitive
      <4>2. b \in on /\ d[b] <= d[x]
        BY <1>1, <1>2, <1>6, <3>1, <3>3
      <4> QED BY <1>6, <4>1, <4>2
    <3> QED BY <3>2, <3>3
  <2> QED BY <1>0, <2>1 DEF OneComponentDeep
<1>15. LowReached(es, d, l2, on, open2)
  <2> SUFFICES ASSUME NEW g \in open2
               PROVE  l2[g] <= d[g] /\ \E x \in on : d[x] = l2[g] /\ x \in Reach(es, g)
    BY DEF LowReached
  <2>1. g \in open /\ g \in on /\ g \in Hosts /\ l[g] <= d[g] /\ d[g] \in Int
    BY <1>0, <1>1, <1>2 DEF LowReached
  <2>2. l2[g] <= d[g]
    BY <1>12, <2>1
  <2>3. CASE l2[g] = l[g]
    BY <1>0, <2>1, <2>2, <2>3 DEF LowReached
  <2>4. CASE l2[g] # l[g]
    <3>1. g = p /\ l2[g] = l[u]
      BY <1>10, <1>11, <2>1, <2>4
    <3>2. d[p] <= d[u]
      BY <1>8 DEF Innermost
    <3>3. u \in Reach(es, p)
      BY <1>0, <1>1, <1>8, <3>2 DEF OneComponentDeep
    <3>4. w \in Reach(es, g)
      BY <1>1, <1>4, <1>8, <3>1, <3>3, ReachIsTransitive
    <3> QED BY <1>4, <2>2, <3>1, <3>4
  <2> QED BY <2>3, <2>4
<1>16. LowIsLeast(es, d, l2, on, open2, pend)
  <2> SUFFICES ASSUME NEW g \in open2, NEW x \in on, Owns(d, open2, g, x),
                      NEW y \in on, y \in Neighbors(es, x), <<x, y>> \notin pend
               PROVE  l2[g] <= d[y]
    BY DEF LowIsLeast
  <2>1. g \in open /\ g \in on /\ g \in Hosts
    BY <1>1
  <2>2. d[y] \in Int /\ d[x] \in Int /\ d[g] \in Int /\ d[u] \in Int /\ d[p] \in Int
        /\ l2[g] \in Int /\ l[g] \in Int /\ l[u] \in Int
    BY <1>1, <1>2, <1>8, <1>12, <2>1
  <2>3. CASE Owns(d, open, g, x)
    <3>1. l[g] <= d[y]
      BY <1>0, <2>1, <2>3 DEF LowIsLeast
    <3>2. l2[g] <= l[g]
      BY <1>12, <2>1
    <3> QED BY <2>2, <3>1, <3>2
  <2>4. CASE ~Owns(d, open, g, x)
    <3>1. ~(d[u] <= d[g]) /\ ~(d[x] < d[u])
      BY <2>4 DEF Owns
    <3>2. Owns(d, open, u, x)
      BY <2>2, <3>1 DEF Owns, Innermost
    <3>3. l[u] <= d[y]
      BY <1>0, <1>1, <3>2 DEF LowIsLeast
    <3>4. g = p
      <4>1. d[p] <= d[g] \/ d[x] < d[p]
        BY <1>8 DEF Owns
      <4>2. d[p] <= d[u] /\ d[g] <= d[p]
        BY <1>7, <1>8 DEF Innermost
      <4>3. d[g] = d[p]
        BY <2>2, <3>1, <4>1, <4>2
      <4> QED BY <1>0, <1>8, <2>1, <4>3 DEF SeenOnce
    <3> QED BY <1>10, <1>11, <2>2, <3>3, <3>4
  <2> QED BY <2>3, <2>4
<1> QED BY <1>0, <1>13, <1>14, <1>15, <1>16 DEF Explores

\* The vertex stack.
LEMMA StackPush ==
    ASSUME NEW s, NEW d \in [Hosts -> Int], NEW on, Stacked(s, d, on), NEW v \in Hosts, v \notin on,
           NEW t \in Int, \A h \in on : d[h] < t, NEW d2, d2 = [d EXCEPT ![v] = t],
           NEW s2, s2 = Append(s, v), NEW on2, on2 = on \cup {v}
    PROVE  Stacked(s2, d2, on2)
<1>1. PICK len \in Nat : len = Len(s)
  BY DEF Stacked
<1>2. s2 \in Seq(Hosts) /\ Len(s2) = len + 1 /\ s2[len + 1] = v /\ \A k \in 1..len : s2[k] = s[k]
  BY <1>1, AppendProperties DEF Stacked
<1>3. \A k \in 1..len : s[k] \in on /\ s[k] \in Hosts /\ s[k] # v
  BY <1>1 DEF Stacked
<1>4. \A k \in 1..len : d2[s[k]] = d[s[k]] /\ d[s[k]] < t
  BY <1>3
<1>5. d2[v] = t
  OBVIOUS
<1>6. \A k \in 1..(len + 1) : k = len + 1 \/ k \in 1..len
  BY <1>1
<1>7. \A k \in 1..len : k \in 1..(len + 1)
  BY <1>1
<1>8. on2 = {s2[k] : k \in 1..Len(s2)}
  <2>1. len + 1 \in 1..(len + 1)
    BY <1>1
  <2>2. on = {s[k] : k \in 1..len}
    BY <1>1 DEF Stacked
  <2> QED BY <1>2, <1>6, <1>7, <2>1, <2>2
<1>9. ASSUME NEW j \in 1..Len(s2), NEW k \in 1..Len(s2), j < k PROVE d2[s2[j]] < d2[s2[k]]
  <2>1. j \in 1..len
    BY <1>1, <1>2, <1>9
  <2>2. CASE k = len + 1
    BY <1>2, <1>4, <1>5, <2>1, <2>2
  <2>3. CASE k \in 1..len
    BY <1>1, <1>2, <1>4, <1>9, <2>1, <2>3 DEF Stacked
  <2> QED BY <1>2, <1>6, <2>2, <2>3
<1> QED BY <1>2, <1>8, <1>9 DEF Stacked

\* Those from its k-th entry on.
EntriesFrom(s, k) == {s[j] : j \in k..Len(s)}

LEMMA StackPop ==
    ASSUME NEW s, NEW d \in [Hosts -> Int], NEW on, Stacked(s, d, on), NEW k \in 1..Len(s),
           NEW u, u = s[k], NEW s2, s2 = SubSeq(s, 1, k - 1),
           NEW c, c = OnFrom(on, d, u), NEW on2, on2 = on \ c
    PROVE  Stacked(s2, d, on2) /\ EntriesFrom(s, k) = c
<1> c = {x \in on : d[u] <= d[x]}
  BY DEF OnFrom
<1>1. PICK len \in Nat : len = Len(s)
  BY DEF Stacked
<1>2. \A j \in 1..len : s[j] \in on /\ s[j] \in Hosts /\ d[s[j]] \in Int
  BY <1>1 DEF Stacked
<1>3. \A i, j \in 1..len : i < j => d[s[i]] < d[s[j]]
  BY <1>1 DEF Stacked
<1>4. k \in 1..len /\ k - 1 \in Nat /\ k - 1 <= len
  BY <1>1
<1>5. \A j \in 1..len : d[u] <= d[s[j]] <=> j >= k
  <2> SUFFICES ASSUME NEW j \in 1..len PROVE d[u] <= d[s[j]] <=> j >= k
    OBVIOUS
  <2>1. CASE j = k
    BY <1>2, <1>4, <2>1
  <2>2. CASE j < k
    <3>1. d[s[j]] < d[s[k]] /\ ~(j >= k)
      BY <1>3, <1>4, <2>2
    <3> QED BY <1>2, <1>4, <3>1
  <2>3. CASE k < j
    <3>1. d[s[k]] < d[s[j]] /\ j >= k
      BY <1>3, <1>4, <2>3
    <3> QED BY <1>2, <1>4, <3>1
  <2> QED BY <1>4, <2>1, <2>2, <2>3
<1>6. \A x \in on : \E j \in 1..len : x = s[j]
  BY <1>1 DEF Stacked
<1>7. {s[j] : j \in k..Len(s)} = c
  <2>1. \A j \in k..len : j \in 1..len /\ j >= k
    BY <1>4
  <2>2. \A j \in 1..len : j >= k => j \in k..len
    BY <1>4
  <2>3. ASSUME NEW j \in k..len PROVE s[j] \in c
    BY <1>2, <1>5, <2>1
  <2>4. ASSUME NEW x \in c PROVE \E j \in k..len : x = s[j]
    <3>1. PICK j \in 1..len : x = s[j]
      BY <1>6
    <3> QED BY <1>5, <2>2, <3>1
  <2> QED BY <1>1, <2>3, <2>4
<1>8. s2 \in Seq(Hosts) /\ Len(s2) = k - 1 /\ \A i \in 1..(k - 1) : s2[i] = s[i]
  <2>1. PICK m0 \in Nat : m0 = k - 1
    BY <1>4
  <2>2. \A i \in 1..m0 : s[i] \in Hosts
    BY <1>2, <1>4, <2>1
  <2>3. /\ SubSeq(s, 1, m0) \in Seq(Hosts)
        /\ Len(SubSeq(s, 1, m0)) = IF 1 <= m0 THEN m0 - 1 + 1 ELSE 0
        /\ \A i \in 1..(m0 - 1 + 1) : SubSeq(s, 1, m0)[i] = s[1 + i - 1]
    BY <2>2, SubSeqProperties
  <2>4. Len(s2) = m0
    BY <2>1, <2>3
  <2>5. ASSUME NEW i \in 1..m0 PROVE s2[i] = s[i]
    <3>1. i \in 1..(m0 - 1 + 1) /\ 1 + i - 1 = i
      OBVIOUS
    <3> QED BY <2>1, <2>3, <3>1
  <2> QED BY <2>1, <2>3, <2>4, <2>5
<1>9. on \ c = {s2[i] : i \in 1..Len(s2)}
  <2>1. \A i \in 1..(k - 1) : i \in 1..len /\ ~(i >= k)
    BY <1>4
  <2>2. \A i \in 1..len : ~(i >= k) => i \in 1..(k - 1)
    BY <1>4
  <2>3. ASSUME NEW i \in 1..(k - 1) PROVE s2[i] \in on \ c
    BY <1>2, <1>5, <1>8, <2>1
  <2>4. ASSUME NEW x \in on \ c PROVE \E i \in 1..(k - 1) : x = s2[i]
    <3>1. PICK j \in 1..len : x = s[j]
      BY <1>6
    <3> QED BY <1>5, <1>8, <2>2, <3>1
  <2> QED BY <1>8, <2>3, <2>4
<1>10. \A i, j \in 1..Len(s2) : i < j => d[s2[i]] < d[s2[j]]
  <2>1. \A i \in 1..(k - 1) : i \in 1..len
    BY <1>4
  <2> QED BY <1>3, <1>8, <2>1
<1> QED BY <1>7, <1>8, <1>9, <1>10 DEF Stacked, EntriesFrom

\* The frames.
LEMMA FrameTop ==
    ASSUME NEW f, NEW d \in [Hosts -> Int], NEW open, NEW pend, Framed(f, d, open, pend), f # << >>,
           NEW u, u = f[Len(f)].u
    PROVE  /\ Innermost(d, open, u) /\ u \in Hosts
           /\ \A y : <<u, y>> \in pend <=> y \in f[Len(f)].todo
<1>1. PICK len \in Nat : len = Len(f) /\ len > 0 /\ len \in 1..len
  BY DEF Framed
<1>2. \A k \in 1..len : f[k] \in Frame /\ f[k].u \in Hosts /\ f[k].u \in open /\ d[f[k].u] \in Int
  <2>1. \A k \in 1..len : f[k] \in Frame
    BY <1>1 DEF Framed
  <2>2. \A k \in 1..len : f[k].u \in Hosts
    BY <2>1 DEF Frame
  <2>3. \A k \in 1..len : f[k].u \in open
    BY <1>1 DEF Framed
  <2> QED BY <2>1, <2>2, <2>3
<1>3. \A k \in 1..len : k # len => d[f[k].u] < d[u]
  <2>1. \A k \in 1..len : k # len => k < len
    BY <1>1
  <2> QED BY <1>1, <2>1 DEF Framed
<1>4. \A k \in 1..len : d[f[k].u] <= d[u] /\ (f[k].u = u => k = len)
  BY <1>1, <1>2, <1>3
<1>5. \A g \in open : \E k \in 1..len : g = f[k].u
  BY <1>1 DEF Framed
<1>6. Innermost(d, open, u)
  BY <1>1, <1>2, <1>4, <1>5 DEF Innermost
<1>7. \A y : <<u, y>> \in pend <=> \E k \in 1..len : f[k].u = u /\ y \in f[k].todo
  BY <1>1 DEF Framed
<1>8. \A y : <<u, y>> \in pend <=> y \in f[len].todo
  BY <1>1, <1>4, <1>7
<1> QED BY <1>1, <1>2, <1>6, <1>8

\* The callers of the innermost frame.
LEMMA FrameCallers ==
    ASSUME NEW f, NEW d \in [Hosts -> Int], NEW open, NEW pend, Framed(f, d, open, pend), f # << >>,
           NEW u, u = f[Len(f)].u, NEW f2, f2 = SubSeq(f, 1, Len(f) - 1),
           NEW pend2, \A x, y : <<x, y>> \in pend2 <=> <<x, y>> \in pend /\ x # u
    PROVE  Framed(f2, d, open \ {u}, pend2)
<1>1. f \in Seq(Frame) /\ IsFront(f2, f, Frame)
  BY FrontFacts DEF Framed
<1>2. PICK len \in Nat : len = Len(f) /\ len > 0 /\ len \in 1..len
  BY <1>1 DEF IsFront
<1>3. /\ f2 \in Seq(Frame) /\ \A k \in 1..Len(f2) : k \in 1..len /\ k # len /\ f2[k] = f[k]
      /\ \A k \in 1..len : k = len \/ k \in 1..Len(f2)
  BY <1>1, <1>2 DEF IsFront
<1>4. \A j, k \in 1..len : j < k => d[f[j].u] < d[f[k].u]
  BY <1>2 DEF Framed
<1>5. \A k \in 1..len : k # len => f[k].u # u
  <2>1. \A k \in 1..len : k # len => k < len
    BY <1>2
  <2>2. \A k \in 1..len : k # len => d[f[k].u] < d[u]
    BY <1>2, <1>4, <2>1
  <2>3. u \in Hosts
    BY FrameTop
  <2>4. d[u] \in Int /\ ~(d[u] < d[u])
    BY <2>3
  <2> QED BY <2>2, <2>4
<1>6. open \ {u} = {f2[k].u : k \in 1..Len(f2)}
  <2>1. open = {f[k].u : k \in 1..len}
    BY <1>2 DEF Framed
  <2>2. f[len].u = u
    BY <1>2
  <2> QED BY <1>3, <1>5, <2>1, <2>2
<1>7. \A j, k \in 1..Len(f2) : j < k => d[f2[j].u] < d[f2[k].u]
  BY <1>3, <1>4
<1>8. ASSUME NEW x, NEW y
      PROVE  <<x, y>> \in pend2 <=> \E k \in 1..Len(f2) : f2[k].u = x /\ y \in f2[k].todo
  <2>1. <<x, y>> \in pend <=> \E k \in 1..len : f[k].u = x /\ y \in f[k].todo
    BY <1>2 DEF Framed
  <2>2. f[len].u = u
    BY <1>2
  <2> QED BY <1>3, <1>5, <2>1, <2>2
<1> QED BY <1>3, <1>6, <1>7, <1>8 DEF Framed

\* v has a number after those of the open vertices.
Later(d2, d, open, v) == \A g \in open : d2[g] = d[g] /\ d[g] < d2[v]

\* A frame is entered; d2 numbers its vertex after the others.
LEMMA FramePush ==
    ASSUME NEW f, NEW d \in [Hosts -> Int], NEW open, NEW pend, Framed(f, d, open, pend),
           NEW e \in Frame, NEW v, v = e.u, v \notin open, NEW d2, Later(d2, d, open, v),
           NEW f2, f2 = Append(f, e), NEW open2, open2 = open \cup {v}, NEW pend2, Adds(pend2, pend, v, e.todo)
    PROVE  Framed(f2, d2, open2, pend2)
<1> \A x, y : <<x, y>> \in pend2 <=> (x = v /\ y \in e.todo) \/ <<x, y>> \in pend
  BY DEF Adds
<1> \A g \in open : d2[g] = d[g] /\ d[g] < d2[v]
  BY DEF Later
<1>1. PICK len \in Nat : len = Len(f) /\ len + 1 \in 1..(len + 1)
  BY DEF Framed
<1>2. f2 \in Seq(Frame) /\ Len(f2) = len + 1 /\ f2[len + 1] = e /\ \A k \in 1..len : f2[k] = f[k]
  BY <1>1, AppendProperties DEF Framed
<1>3. \A k \in 1..(len + 1) : k = len + 1 \/ k \in 1..len
  BY <1>1
<1>4. \A k \in 1..len : k \in 1..(len + 1)
  BY <1>1
<1>5. open = {f[k].u : k \in 1..len}
  BY <1>1 DEF Framed
<1>6. open2 = {f2[k].u : k \in 1..Len(f2)}
  BY <1>1, <1>2, <1>3, <1>4, <1>5
<1>7. ASSUME NEW j \in 1..Len(f2), NEW k \in 1..Len(f2), j < k PROVE d2[f2[j].u] < d2[f2[k].u]
  <2>1. j \in 1..len
    BY <1>1, <1>2, <1>7
  <2>2. CASE k = len + 1
    BY <1>2, <1>5, <2>1, <2>2
  <2>3. CASE k \in 1..len
    <3>1. d[f[j].u] < d[f[k].u]
      BY <1>1, <1>7, <2>1, <2>3 DEF Framed
    <3> QED BY <1>2, <1>5, <2>1, <2>3, <3>1
  <2> QED BY <1>2, <1>3, <2>2, <2>3
<1>8. ASSUME NEW x, NEW y
      PROVE  <<x, y>> \in pend2 <=> \E k \in 1..Len(f2) : f2[k].u = x /\ y \in f2[k].todo
  <2>1. <<x, y>> \in pend <=> \E k \in 1..len : f[k].u = x /\ y \in f[k].todo
    BY <1>1 DEF Framed
  <2> QED BY <1>1, <1>2, <1>3, <1>4, <2>1
<1> QED BY <1>2, <1>6, <1>7, <1>8 DEF Framed

\* The innermost frame has looked at one more neighbour.
LEMMA FrameAdvances ==
    ASSUME NEW f, NEW d \in [Hosts -> Int], NEW open, NEW pend, Framed(f, d, open, pend), f # << >>,
           NEW u, u = f[Len(f)].u, NEW v,
           NEW f2, f2 = Append(SubSeq(f, 1, Len(f) - 1), [f[Len(f)] EXCEPT !.todo = @ \ {v}]),
           NEW pend2, Drops(pend2, pend, u, v)
    PROVE  Framed(f2, d, open, pend2)
<1>1. PICK top : top = f[Len(f)]
  OBVIOUS
<1>2. top \in Frame
  <2>1. f \in Seq(Frame)
    BY DEF Framed
  <2> QED BY <1>1, <2>1
<1>3. PICK e : e = [top EXCEPT !.todo = @ \ {v}]
  OBVIOUS
<1>4. e \in Frame /\ e.u = u /\ e.todo = top.todo \ {v}
  BY <1>1, <1>2, <1>3 DEF Frame
<1>5. /\ Innermost(d, open, u) /\ u \in Hosts /\ u \in open
      /\ \A y : <<u, y>> \in pend <=> y \in top.todo
  BY <1>1, FrameTop DEF Innermost
<1>6. PICK open1 : open1 = open \ {u}
  OBVIOUS
<1>7. PICK pend1 : \A x, y : <<x, y>> \in pend1 <=> <<x, y>> \in pend /\ x # u
  <2>1. \A x, y : <<x, y>> \in {p \in pend : p[1] # u} <=> <<x, y>> \in pend /\ x # u
    OBVIOUS
  <2> QED BY <2>1
<1>8. PICK f1 : f1 = SubSeq(f, 1, Len(f) - 1)
  OBVIOUS
<1>9. Framed(f1, d, open1, pend1)
  BY <1>6, <1>7, <1>8, FrameCallers
<1>10. Later(d, d, open1, u)
  <2>1. PICK len \in Nat : len = Len(f) /\ len > 0 /\ len \in 1..len
    BY DEF Framed
  <2>2. \A k \in 1..len : k # len => d[f[k].u] < d[u]
    <3>1. \A k \in 1..len : k # len => k < len
      BY <2>1
    <3> QED BY <2>1, <3>1 DEF Framed
  <2>3. \A g \in open : \E k \in 1..len : g = f[k].u
    BY <2>1 DEF Framed
  <2> QED BY <1>6, <2>1, <2>2, <2>3 DEF Later
<1>11. u \notin open1 /\ open = open1 \cup {u} /\ f2 = Append(f1, e)
  BY <1>1, <1>3, <1>5, <1>6, <1>8
<1>12. Adds(pend2, pend1, u, e.todo)
  BY <1>4, <1>5, <1>7 DEF Adds, Drops
<1> QED BY <1>4, <1>9, <1>10, <1>11, <1>12, FramePush

\* The instance's operators are those of CommGraph.
LEMMA TarjanGraph ==
    ASSUME NEW es
    PROVE  /\ \A h : T!Neighbors(es, h) = Neighbors(es, h)
           /\ T!Vertices(es) = Vertices(es)
           /\ T!Sccs(es) = Sccs(es)
<1>1. \A h : T!Neighbors(es, h) = Neighbors(es, h)
  BY DEF T!Neighbors, Neighbors
<1>2. T!Vertices(es) = Vertices(es)
  BY DEF T!Vertices, Vertices
<1>3. T!Sccs(es) = Sccs(es)
  BY DEF T!Sccs, Sccs, T!ReachableWithin, ReachableWithin, T!Neighbors, Neighbors,
         T!Vertices, Vertices, T!Cardinality, Cardinality
<1> QED BY <1>1, <1>2, <1>3

LEMMA TarjanStart == T!Init => TarjanInv
<1> SUFFICES ASSUME T!Init PROVE TarjanInv
  OBVIOUS
<1>1. /\ edges \in SUBSET (Hosts \X Hosts) /\ timer = 0 /\ sccs = {} /\ stk = << >> /\ calls = << >>
      /\ disc \in [Hosts -> Int] /\ low \in [Hosts -> Int] /\ \A h \in Hosts : disc[h] = -1
  BY DEF T!Init, T!Unseen, AllEdges
<1>2. UNION sccs = {}
  BY <1>1
<1>3. TarjanTypes(edges, timer, disc, low, {}, {}, {}, sccs) /\ SeenOnce(timer, disc, {}, sccs)
  BY <1>1, <1>2 DEF TarjanTypes, SeenOnce
<1>4. EdgesSeen(edges, disc, {}, {}, sccs)
  BY <1>2 DEF EdgesSeen, Closed
<1>5. /\ OneComponentDeep(edges, disc, {}, {}) /\ LowReached(edges, disc, low, {}, {})
      /\ LowIsLeast(edges, disc, low, {}, {}, {})
  BY DEF OneComponentDeep, LowReached, LowIsLeast
<1>6. Explores(edges, timer, disc, low, {}, {}, {}, sccs)
  BY <1>3, <1>4, <1>5 DEF Explores
<1>7. \A k \in 1..Len(<< >>) : FALSE
  OBVIOUS
<1>8. Stacked(stk, disc, {})
  BY <1>1, <1>7 DEF Stacked
<1>9. Framed(calls, disc, {}, {})
  BY <1>1, <1>7 DEF Framed
<1> QED BY <1>6, <1>8, <1>9 DEF TarjanInv

\* The vertex stack and the frames when a vertex is discovered.
LEMMA DiscoverKeeps ==
    ASSUME NEW on, NEW open, NEW pend,
           Explores(edges, timer, disc, low, on, open, pend, sccs), Stacked(stk, disc, on),
           NEW v \in Vertices(edges), disc[v] = -1, NEW u,
           open = {} \/ (Innermost(disc, open, u) /\ v \in Neighbors(edges, u)),
           NEW frames, NEW pend1, Framed(frames, disc, open, pend1),
           Drops(pend1, pend, u, v), T!Discover(v, frames)
    PROVE  TarjanInv'
<1>1. PICK es, t, d, l, s, found, t2, d2, l2, s2, f2 :
         /\ es = edges /\ t = timer /\ d = disc /\ l = low /\ s = stk /\ found = sccs
         /\ t2 = timer' /\ d2 = disc' /\ l2 = low' /\ s2 = stk' /\ f2 = calls'
  OBVIOUS
<1>2. /\ d2 = [d EXCEPT ![v] = t] /\ l2 = [l EXCEPT ![v] = t] /\ t2 = t + 1 /\ s2 = Append(s, v)
      /\ f2 = Append(frames, [u |-> v, todo |-> T!Neighbors(es, v)])
      /\ edges' = es /\ sccs' = found
  BY <1>1 DEF T!Discover
<1>3. PICK e : e = [u |-> v, todo |-> Neighbors(es, v)]
  OBVIOUS
<1>4. f2 = Append(frames, e)
  BY <1>2, <1>3, TarjanGraph
<1>5. Explores(es, t, d, l, on, open, pend, found) /\ Stacked(s, d, on) /\ v \in Vertices(es) /\ d[v] = -1
      /\ Framed(frames, d, open, pend1)
      /\ (open = {} \/ (Innermost(d, open, u) /\ v \in Neighbors(es, u)))
  BY <1>1
<1>6. /\ TarjanTypes(es, t, d, l, on, open, pend, found) /\ SeenOnce(t, d, on, found)
  BY <1>5 DEF Explores
<1>7. /\ es \in SUBSET (Hosts \X Hosts) /\ t \in Nat /\ t \in Int /\ d \in [Hosts -> Int]
      /\ v \in Hosts /\ on \subseteq Hosts /\ open \subseteq on
  BY <1>5, <1>6, VerticesFacts DEF TarjanTypes
<1>8. v \notin on /\ v \notin open /\ (\A h \in on : d[h] < t) /\ d2[v] = t /\ \A h \in on : d2[h] = d[h]
  <2>1. v \notin on /\ v \notin open
    BY <1>5, <1>6, <1>7 DEF SeenOnce
  <2>2. \A h \in on : h \in Hosts /\ d[h] # -1
    BY <1>6, <1>7 DEF SeenOnce
  <2>3. \A h \in on : d[h] < t
    BY <1>6, <2>2 DEF SeenOnce
  <2>4. d2[v] = t /\ \A h \in on : d2[h] = d[h]
    BY <1>2, <1>7, <2>1
  <2> QED BY <2>1, <2>3, <2>4
<1>9. e \in Frame /\ e.u = v /\ e.todo = Neighbors(es, v)
  BY <1>3, <1>7, NeighboursAreHosts DEF Frame
<1>10. PICK pend2 : Adds(pend2, pend1, v, Neighbors(es, v))
  <2>1. \A x, y : <<x, y>> \in pend1 \cup {<<v, z>> : z \in Neighbors(es, v)}
                  <=> (x = v /\ y \in Neighbors(es, v)) \/ <<x, y>> \in pend1
    OBVIOUS
  <2> QED BY <2>1 DEF Adds
<1>11. PICK on2, open2 : on2 = on \cup {v} /\ open2 = open \cup {v}
  OBVIOUS
<1>12. Explores(es, t2, d2, l2, on2, open2, pend2, found)
  BY <1>2, <1>5, <1>10, <1>11, ExploresDiscovers
<1>13. Stacked(s2, d2, on2)
  BY <1>2, <1>5, <1>7, <1>8, <1>11, StackPush
<1>14. Framed(f2, d2, open2, pend2)
  <2>1. Later(d2, d, open, v)
    BY <1>7, <1>8 DEF Later
  <2>2. Adds(pend2, pend1, v, e.todo)
    BY <1>9, <1>10
  <2> QED BY <1>4, <1>5, <1>7, <1>8, <1>9, <1>11, <2>1, <2>2, FramePush
<1> QED BY <1>1, <1>2, <1>12, <1>13, <1>14 DEF TarjanInv

\* What holds of the innermost frame.
LEMMA TopFacts ==
    ASSUME NEW on, NEW open, NEW pend, calls # << >>,
           Explores(edges, timer, disc, low, on, open, pend, sccs), Framed(calls, disc, open, pend)
    PROVE  /\ disc \in [Hosts -> Int] /\ Innermost(disc, open, T!Top.u)
           /\ \A y : <<T!Top.u, y>> \in pend <=> y \in T!Top.todo
           /\ \A y \in T!Top.todo : y \in Neighbors(edges, T!Top.u) /\ y \in Vertices(edges)
<1>1. TarjanTypes(edges, timer, disc, low, on, open, pend, sccs)
  BY DEF Explores
<1>2. disc \in [Hosts -> Int] /\ edges \in SUBSET (Hosts \X Hosts)
  BY <1>1 DEF TarjanTypes
<1>3. PICK f, d, top, u : f = calls /\ d = disc /\ top = T!Top /\ u = top.u
  OBVIOUS
<1>4. top = f[Len(f)]
  BY <1>3 DEF T!Top
<1>5. Innermost(d, open, u) /\ \A y : <<u, y>> \in pend <=> y \in f[Len(f)].todo
  BY <1>2, <1>3, <1>4, FrameTop
<1>6. \A y : <<u, y>> \in pend => y \in Neighbors(edges, u)
  BY <1>1 DEF TarjanTypes
<1> QED BY <1>2, <1>3, <1>4, <1>5, <1>6, VerticesFacts

LEMMA StartKeeps ==
    ASSUME TarjanInv, T!Start
    PROVE  TarjanInv'
<1>1. PICK on, open, pend :
         /\ Explores(edges, timer, disc, low, on, open, pend, sccs)
         /\ Stacked(stk, disc, on) /\ Framed(calls, disc, open, pend)
  BY DEF TarjanInv
<1>2. calls = << >>
  BY DEF T!Start
<1>3. PICK v \in Vertices(edges) : disc[v] = -1 /\ T!Discover(v, << >>)
  BY TarjanGraph DEF T!Start, T!Unseen
<1>4. open = {} /\ \A x, y : <<x, y>> \notin pend
  <2>1. \A k \in 1..Len(<< >>) : FALSE
    OBVIOUS
  <2> QED BY <1>1, <1>2, <2>1 DEF Framed
<1>5. Drops(pend, pend, v, v)
  BY <1>4 DEF Drops
<1> QED BY <1>1, <1>2, <1>3, <1>4, <1>5, DiscoverKeeps

\* The frames without a neighbour of the innermost.
LEMMA AdvancedKeeps ==
    ASSUME NEW open, NEW pend, NEW pend1, NEW v, calls # << >>, disc \in [Hosts -> Int],
           Framed(calls, disc, open, pend), Drops(pend1, pend, T!Top.u, v)
    PROVE  Framed(T!Advanced(v), disc, open, pend1)
<1>1. PICK f, d, u, f2 : f = calls /\ d = disc /\ u = T!Top.u /\ f2 = T!Advanced(v)
  OBVIOUS
<1>2. u = f[Len(f)].u
  BY <1>1 DEF T!Top
<1>3. f2 = Append(SubSeq(f, 1, Len(f) - 1), [f[Len(f)] EXCEPT !.todo = @ \ {v}])
  BY <1>1 DEF T!Advanced, T!Callers, T!Top
<1>4. Framed(f2, d, open, pend1)
  BY <1>1, <1>2, <1>3, FrameAdvances
<1> QED BY <1>1, <1>4

LEMMA DropsExists ==
    ASSUME NEW pend, NEW u, NEW v
    PROVE  \E pend1 : Drops(pend1, pend, u, v)
<1>1. \A x, y : <<x, y>> \in pend \ {<<u, v>>} <=> <<x, y>> \in pend /\ ~(x = u /\ y = v)
  OBVIOUS
<1> QED BY <1>1 DEF Drops

LEMMA TreeEdgeKeeps ==
    ASSUME TarjanInv, T!TreeEdge
    PROVE  TarjanInv'
<1>1. PICK on, open, pend :
         /\ Explores(edges, timer, disc, low, on, open, pend, sccs)
         /\ Stacked(stk, disc, on) /\ Framed(calls, disc, open, pend)
  BY DEF TarjanInv
<1>2. calls # << >>
  BY DEF T!TreeEdge
<1>3. PICK v \in T!Top.todo : disc[v] = -1 /\ T!Discover(v, T!Advanced(v))
  BY DEF T!TreeEdge, T!Unseen
<1>4. PICK u : u = T!Top.u
  OBVIOUS
<1>5. disc \in [Hosts -> Int] /\ Innermost(disc, open, u) /\ v \in Neighbors(edges, u) /\ v \in Vertices(edges)
  BY <1>1, <1>2, <1>4, TopFacts
<1>6. PICK pend1 : Drops(pend1, pend, u, v)
  BY DropsExists
<1>7. Framed(T!Advanced(v), disc, open, pend1)
  BY <1>1, <1>2, <1>4, <1>5, <1>6, AdvancedKeeps
<1> QED BY <1>1, <1>3, <1>5, <1>6, <1>7, DiscoverKeeps

LEMMA SeenEdgeKeeps ==
    ASSUME TarjanInv, T!SeenEdge
    PROVE  TarjanInv'
<1>1. PICK on, open, pend :
         /\ Explores(edges, timer, disc, low, on, open, pend, sccs)
         /\ Stacked(stk, disc, on) /\ Framed(calls, disc, open, pend)
  BY DEF TarjanInv
<1>2. calls # << >> /\ UNCHANGED <<edges, timer, disc, stk, sccs>>
  BY DEF T!SeenEdge
<1>3. PICK u : u = T!Top.u
  OBVIOUS
<1>4. PICK v \in T!Top.todo :
         /\ disc[v] # -1 /\ calls' = T!Advanced(v) /\ low' = [low EXCEPT ![u] = T!LowWith(u, v)]
  BY <1>3 DEF T!SeenEdge, T!Unseen
<1>5. /\ disc \in [Hosts -> Int] /\ Innermost(disc, open, u) /\ <<u, v>> \in pend
  BY <1>1, <1>2, <1>3, TopFacts
<1>6. PICK pend1 : Drops(pend1, pend, u, v)
  BY DropsExists
<1>7. Framed(T!Advanced(v), disc, open, pend1)
  BY <1>1, <1>2, <1>3, <1>5, <1>6, AdvancedKeeps
<1>8. PICK es, t, d, l, found, least, l2 :
         /\ es = edges /\ t = timer /\ d = disc /\ l = low /\ found = sccs
         /\ least = T!LowWith(u, v) /\ l2 = low'
  OBVIOUS
<1>9. T!OnStack(v) <=> v \in on
  <2>1. stk \in Seq(Hosts) /\ on = {stk[k] : k \in 1..Len(stk)}
    BY <1>1 DEF Stacked
  <2>2. DOMAIN stk = 1..Len(stk)
    BY <2>1
  <2> QED BY <2>1, <2>2 DEF T!OnStack
<1>10. IF v \in on THEN IsLesser(least, l[u], d[v]) ELSE least = l[u]
  BY <1>8, <1>9 DEF T!LowWith, T!Lesser, IsLesser
<1>11. Explores(es, t, d, l2, on, open, pend1, found)
  <2>1. Explores(es, t, d, l, on, open, pend, found) /\ Innermost(d, open, u) /\ d[v] # -1
    BY <1>1, <1>4, <1>5, <1>8
  <2>2. l2 = [l EXCEPT ![u] = least]
    BY <1>4, <1>8
  <2> QED BY <1>5, <1>6, <1>10, <2>1, <2>2, ExploresSeen
<1> QED BY <1>1, <1>2, <1>4, <1>7, <1>8, <1>11 DEF TarjanInv

LEMMA ReturnKeeps ==
    ASSUME TarjanInv, T!Return
    PROVE  TarjanInv'
<1>1. PICK on, open, pend :
         /\ Explores(edges, timer, disc, low, on, open, pend, sccs)
         /\ Stacked(stk, disc, on) /\ Framed(calls, disc, open, pend)
  BY DEF TarjanInv
<1>2. PICK es, t, d, l, s, f, found, l2, s2, f2, found2, u :
         /\ es = edges /\ t = timer /\ d = disc /\ l = low /\ s = stk /\ f = calls /\ found = sccs
         /\ l2 = low' /\ s2 = stk' /\ f2 = calls' /\ found2 = sccs' /\ u = T!Top.u
  OBVIOUS
<1>3. f # << >> /\ T!Top.todo = {} /\ edges' = es /\ timer' = t /\ disc' = d
  BY <1>2 DEF T!Return
<1>4. Explores(es, t, d, l, on, open, pend, found) /\ Stacked(s, d, on) /\ Framed(f, d, open, pend)
  BY <1>1, <1>2
<1>5. d \in [Hosts -> Int] /\ Innermost(d, open, u) /\ (\A y : <<u, y>> \notin pend) /\ u = f[Len(f)].u
  BY <1>1, <1>2, <1>3, TopFacts DEF T!Top
<1>6. PICK len \in Nat : len = Len(f) /\ len > 0 /\ len - 1 \in Nat
  BY <1>3, <1>4 DEF Framed
<1>7. /\ f2 = SubSeq(f, 1, len - 1)
      /\ l2 = IF len - 1 = 0 THEN l ELSE [l EXCEPT ![f[len - 1].u] = T!Lesser(@, l[u])]
  BY <1>2, <1>6 DEF T!Return, T!Callers
<1>8. PICK open2 : open2 = open \ {u}
  OBVIOUS
<1>9. Framed(f2, d, open2, pend)
  <2>1. \A x, y : <<x, y>> \in pend <=> <<x, y>> \in pend /\ x # u
    BY <1>5
  <2> QED BY <1>3, <1>4, <1>5, <1>6, <1>7, <1>8, <2>1, FrameCallers
<1>10. TarjanTypes(es, t, d, l, on, open, pend, found) /\ SeenOnce(t, d, on, found) /\ LowReached(es, d, l, on, open)
  BY <1>4 DEF Explores
<1>11. open \subseteq on /\ on \subseteq Hosts /\ l \in [Hosts -> Int] /\ u \in open
  BY <1>5, <1>10, VerticesFacts DEF TarjanTypes, Innermost
<1>12. ASSUME len - 1 # 0
       PROVE  f[len - 1].u \in open2 /\ Innermost(d, open2, f[len - 1].u)
  <2>1. IsFront(f2, f, Frame)
    BY <1>3, <1>4, <1>6, <1>7, FrontFacts DEF Framed
  <2>2. Len(f2) = len - 1
    BY <1>6, <2>1 DEF IsFront
  <2>3. len - 1 \in 1..(len - 1)
    BY <1>6, <1>12
  <2>4. f2[len - 1] = f[len - 1] /\ f2 # << >>
    BY <1>6, <2>1, <2>2, <2>3 DEF IsFront
  <2>5. Innermost(d, open2, f2[Len(f2)].u)
    BY <1>5, <1>9, <2>4, FrameTop
  <2> QED BY <2>2, <2>4, <2>5 DEF Innermost
<1>13. CASE l[u] = d[u]
  <2>1. PICK k : k = CHOOSE i \in DOMAIN stk : stk[i] = T!Top.u
    OBVIOUS
  <2>2. found2 = found \cup {{s[j] : j \in k..Len(s)}} /\ s2 = SubSeq(s, 1, k - 1)
    <3>1. low[T!Top.u] = disc[T!Top.u]
      BY <1>2, <1>13
    <3>2. sccs' = sccs \cup {{stk[j] : j \in k..Len(stk)}} /\ stk' = SubSeq(stk, 1, k - 1)
      BY <2>1, <3>1 DEF T!Return
    <3> QED BY <1>2, <3>2
  <2>3. k \in 1..Len(s) /\ s[k] = u
    <3>1. DOMAIN s = 1..Len(s) /\ \E i \in 1..Len(s) : s[i] = u
      BY <1>4, <1>11 DEF Stacked
    <3>2. k = CHOOSE i \in DOMAIN s : s[i] = u
      BY <1>2, <2>1
    <3> QED BY <3>1, <3>2
  <2>4. PICK c : c = OnFrom(on, d, u)
    OBVIOUS
  <2>5. PICK on2 : on2 = on \ c
    OBVIOUS
  <2>6. Stacked(s2, d, on2) /\ found2 = found \cup {c}
    <3>1. Stacked(s2, d, on2) /\ EntriesFrom(s, k) = c
      BY <1>4, <1>5, <2>2, <2>3, <2>4, <2>5, StackPop
    <3> QED BY <2>2, <2>5, <3>1 DEF EntriesFrom
  <2>7. Explores(es, t, d, l, on2, open2, pend, found2)
    BY <1>4, <1>5, <1>8, <1>13, <2>4, <2>5, <2>6, ExploresPops
  <2>8. l2 = l
    <3>1. CASE len - 1 = 0
      BY <1>7, <3>1
    <3>2. CASE len - 1 # 0
      <4>1. PICK p : p = f[len - 1].u
        OBVIOUS
      <4>2. p \in open /\ p # u /\ d[p] <= d[u] /\ p \in Hosts /\ p \in on
        BY <1>5, <1>8, <1>11, <1>12, <3>2, <4>1 DEF Innermost
      <4>3. d[p] # d[u]
        BY <1>10, <1>11, <4>2 DEF SeenOnce
      <4>4. l[p] <= d[p]
        BY <1>10, <4>2 DEF LowReached
      <4>5. l[p] < l[u]
        <5>1. l[p] \in Int /\ d[p] \in Int /\ d[u] \in Int
          BY <1>5, <1>11, <4>2
        <5> QED BY <1>13, <4>2, <4>3, <4>4, <5>1
      <4>6. T!Lesser(l[p], l[u]) = l[p]
        BY <4>5 DEF T!Lesser
      <4>7. l2 = [l EXCEPT ![p] = l[p]]
        BY <1>7, <3>2, <4>1, <4>6
      <4> QED BY <1>11, <4>7
    <3> QED BY <3>1, <3>2
  <2> QED BY <1>2, <1>3, <1>9, <2>6, <2>7, <2>8 DEF TarjanInv
<1>14. CASE l[u] # d[u]
  <2>1. found2 = found /\ s2 = s
    BY <1>2, <1>14 DEF T!Return
  <2>2. open2 # {} => len - 1 # 0
    <3>1. ASSUME len - 1 = 0 PROVE open2 = {}
      <4>1. IsFront(f2, f, Frame)
        BY <1>3, <1>4, <1>6, <1>7, FrontFacts DEF Framed
      <4>2. Len(f2) = 0
        BY <1>6, <3>1, <4>1 DEF IsFront
      <4>3. open2 = {f2[k].u : k \in 1..Len(f2)} /\ 1..0 = {}
        BY <1>9 DEF Framed
      <4> QED BY <4>2, <4>3
    <3> QED BY <3>1
  <2>3. HandsOver(l2, l, d, open2, u)
    <3>1. ASSUME NEW p \in open2, Innermost(d, open2, p)
          PROVE  \E least : IsLesser(least, l[p], l[u]) /\ l2 = [l EXCEPT ![p] = least]
      <4>1. len - 1 # 0
        BY <2>2
      <4>2. PICK q : q = f[len - 1].u
        OBVIOUS
      <4>3. q \in open2 /\ d[q] <= d[p] /\ d[p] <= d[q]
        BY <1>12, <3>1, <4>1, <4>2 DEF Innermost
      <4>4. p \in on /\ q \in on /\ d[p] = d[q]
        <5>1. p \in on /\ q \in on
          BY <1>8, <1>11, <4>3
        <5>2. d[p] \in Int /\ d[q] \in Int
          BY <1>5, <1>11, <5>1
        <5> QED BY <4>3, <5>1, <5>2
      <4>5. p = q
        BY <1>10, <4>4 DEF SeenOnce
      <4>6. PICK least : least = T!Lesser(l[p], l[u])
        OBVIOUS
      <4>7. l2 = [l EXCEPT ![p] = least]
        BY <1>7, <4>1, <4>2, <4>5, <4>6
      <4>8. IsLesser(least, l[p], l[u])
        BY <4>6 DEF IsLesser, T!Lesser
      <4> QED BY <4>7, <4>8
    <3>2. open2 # {} => \E p : Innermost(d, open2, p)
      BY <1>12, <2>2
    <3> QED BY <3>1, <3>2 DEF HandsOver
  <2>4. Explores(es, t, d, l2, on, open2, pend, found)
    BY <1>4, <1>5, <1>8, <1>14, <2>3, ExploresReturns
  <2> QED BY <1>2, <1>3, <1>4, <1>9, <2>1, <2>4 DEF TarjanInv
<1> QED BY <1>13, <1>14

LEMMA TarjanEnds == TarjanInv => T!FindsSccs
<1> SUFFICES ASSUME TarjanInv PROVE T!FindsSccs
  OBVIOUS
<1>1. PICK on, open, pend :
         /\ Explores(edges, timer, disc, low, on, open, pend, sccs)
         /\ Stacked(stk, disc, on) /\ Framed(calls, disc, open, pend)
  BY DEF TarjanInv
<1>2. /\ TarjanTypes(edges, timer, disc, low, on, open, pend, sccs) /\ SeenOnce(timer, disc, on, sccs)
      /\ OneComponentDeep(edges, disc, on, open)
  BY <1>1 DEF Explores
<1>3. edges \in SUBSET (Hosts \X Hosts) /\ sccs \in SUBSET Sccs(edges)
  BY <1>2 DEF TarjanTypes
<1>4. ASSUME T!Done PROVE sccs = Sccs(edges)
  <2>1. calls = << >> /\ \A v \in Vertices(edges) : disc[v] # -1
    BY <1>4, TarjanGraph DEF T!Done, T!Unseen
  <2>2. open = {}
    <3>1. \A k \in 1..Len(<< >>) : FALSE
      OBVIOUS
    <3> QED BY <1>1, <2>1, <3>1 DEF Framed
  <2>3. on = {}
    BY <1>2, <2>2 DEF OneComponentDeep
  <2>4. Vertices(edges) \subseteq UNION sccs
    BY <1>2, <1>3, <2>1, <2>3, VerticesFacts DEF SeenOnce
  <2> QED BY <1>3, <2>4, SccsCover
<1> QED BY <1>3, <1>4, TarjanGraph DEF T!FindsSccs

(***************************************************************************)
(* Tarjan's algorithm only reports whole components, and all of them when  *)
(* its loop ends: on every graph, whatever the order in which vertices and *)
(* neighbours come up.                                                     *)
(***************************************************************************)
THEOREM TarjanFindsComponents == Spec => []TarjanFindsSccs
<1> DEFINE Inv == running = "tarjan" => TarjanInv
<1>1. Init => Inv
  <2> SUFFICES ASSUME Init, running = "tarjan" PROVE T!Init
    BY TarjanStart
  <2> QED BY DEF Init
<1>2. Inv /\ [Next]_vars => Inv'
  <2> SUFFICES ASSUME Inv, [Next]_vars, running' = "tarjan" PROVE TarjanInv'
    OBVIOUS
  <2>1. CASE UNCHANGED vars
    BY <2>1 DEF vars, searchVars, graphVars, tarjanVars, TarjanInv
  <2>2. CASE Next
    <3>1. running = "tarjan" /\ T!Next
      BY <2>2 DEF Next
    <3> QED BY <3>1, StartKeeps, TreeEdgeKeeps, SeenEdgeKeeps, ReturnKeeps DEF T!Next
  <2> QED BY <2>1, <2>2
<1>3. Inv => TarjanFindsSccs
  BY TarjanEnds DEF TarjanFindsSccs
<1> QED BY <1>1, <1>2, <1>3, PTL DEF Spec
=============================================================================
