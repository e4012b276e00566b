--------------------------- MODULE CommGraphProofs ---------------------------
(***************************************************************************)
(* Facts about communication graphs: what ReachableWithin computes, that a *)
(* shortest path is no longer than the number of hosts, what is reachable  *)
(* at all, and what the strongly connected components are.                 *)
(***************************************************************************)
EXTENDS CommGraph, FiniteSetTheorems, WellFoundedInduction, TLAPS

\* A non-empty set of natural numbers has a least element.
LEMMA LeastNatural ==
    ASSUME NEW S, S \subseteq Nat, S # {}
    PROVE  \E n \in S : \A m \in S : n <= m
<1>1. \E n \in S : \A m \in S : ~(<<m, n>> \in OpToRel(<, Nat))
  BY NatLessThanWellFounded, WFMin
<1>2. PICK n \in S : \A m \in S : ~(<<m, n>> \in OpToRel(<, Nat))
  BY <1>1
<1>3. ASSUME NEW m \in S PROVE n <= m
  <2>1. m \in Nat /\ n \in Nat
    OBVIOUS
  <2>2. ~(m < n)
    BY <1>2, <2>1 DEF OpToRel
  <2> QED BY <2>1, <2>2
<1> QED BY <1>3

(***************************************************************************)
(* The graph: what ReachableWithin computes.  Its recursive function       *)
(* exists because a shorter one can always be prolonged by a layer; the    *)
(* induction is an argument about the least counterexample.                *)
(***************************************************************************)

\* A set of hosts and their neighbours.
Spread(edges, set) == set \cup UNION {Neighbors(edges, h) : h \in set}

\* f is the function whose last value ReachableWithin takes.
Layers(f, edges, host, hops) ==
    f = [n \in 0..hops |-> IF n = 0 THEN {host} ELSE Spread(edges, f[n - 1])]

\* Such a function exists for every number of hops.
LEMMA LayersExist ==
    ASSUME NEW edges, NEW host, NEW hops \in Nat
    PROVE  \E f : Layers(f, edges, host, hops)
<1> DEFINE Bad == {n \in Nat : ~\E f : Layers(f, edges, host, n)}
<1> SUFFICES ASSUME Bad # {} PROVE FALSE
  OBVIOUS
<1>1. PICK n \in Bad : \A m \in Bad : n <= m
  <2>1. Bad \subseteq Nat
    OBVIOUS
  <2> HIDE DEF Bad
  <2> QED BY <2>1, LeastNatural
<1>2. CASE n = 0
  <2>1. Layers([i \in 0..0 |-> {host}], edges, host, 0)
    BY DEF Layers
  <2> QED BY <1>2, <2>1
<1>3. CASE n # 0
  <2>1. n \in Nat /\ n - 1 \in Nat /\ n - 1 < n
    BY <1>3
  <2>2. n - 1 \notin Bad
    BY <1>1, <2>1
  <2>3. PICK f : Layers(f, edges, host, n - 1)
    BY <2>1, <2>2
  <2>4. PICK g : g = [i \in 0..n |-> IF i = n THEN Spread(edges, f[n - 1]) ELSE f[i]]
    OBVIOUS
  <2>5. ASSUME NEW i \in 0..n
        PROVE  g[i] = IF i = 0 THEN {host} ELSE Spread(edges, g[i - 1])
    <3>1. CASE i = n
      <4>1. g[i - 1] = f[n - 1] /\ g[i] = Spread(edges, f[n - 1])
        BY <1>3, <2>1, <2>4, <3>1
      <4> QED BY <1>3, <3>1, <4>1
    <3>2. CASE i # n
      <4>1. i \in 0..(n - 1) /\ g[i] = f[i]
        BY <2>1, <2>4, <3>2
      <4>2. f[i] = IF i = 0 THEN {host} ELSE Spread(edges, f[i - 1])
        BY <2>3, <4>1 DEF Layers
      <4>3. i # 0 => g[i - 1] = f[i - 1]
        BY <2>1, <2>4, <4>1
      <4> QED BY <4>1, <4>2, <4>3
    <3> QED BY <3>1, <3>2
  <2>6. Layers(g, edges, host, n)
    BY <2>4, <2>5 DEF Layers
  <2> QED BY <2>1, <2>6
<1> QED BY <1>2, <1>3

\* ReachableWithin is the last layer.
LEMMA ReachableIsLayer ==
    ASSUME NEW edges, NEW host, NEW hops \in Nat
    PROVE  \E f : /\ Layers(f, edges, host, hops)
                  /\ ReachableWithin(edges, host, hops) = f[hops]
<1> DEFINE Rule(f) == f = [n \in 0..hops |->
                       IF n = 0 THEN {host}
                       ELSE f[n - 1] \cup UNION {Neighbors(edges, h) : h \in f[n - 1]}]
           near == CHOOSE f : Rule(f)
<1>1. ReachableWithin(edges, host, hops) = near[hops]
  BY DEF ReachableWithin
<1>2. Layers(near, edges, host, hops)
  <2>1. \A f : Rule(f) <=> Layers(f, edges, host, hops)
    BY DEF Layers, Spread
  <2>2. \E f : Rule(f)
    BY <2>1, LayersExist
  <2> HIDE DEF Rule
  <2>3. Rule(near)
    BY <2>2
  <2> QED BY <2>1, <2>3
<1> QED BY <1>1, <1>2

\* What is reachable is a host.
LEMMA ReachableAreHosts ==
    ASSUME NEW edges \in SUBSET (Hosts \X Hosts), NEW host \in Hosts, NEW hops \in Nat
    PROVE  ReachableWithin(edges, host, hops) \in SUBSET Hosts
<1>1. PICK f : Layers(f, edges, host, hops) /\ ReachableWithin(edges, host, hops) = f[hops]
  BY ReachableIsLayer
<1> DEFINE Bad == {n \in 0..hops : ~(f[n] \subseteq Hosts)}
<1> SUFFICES ASSUME Bad # {} PROVE FALSE
  BY <1>1
<1>2. PICK n \in Bad : \A m \in Bad : n <= m
  <2>1. Bad \subseteq Nat
    OBVIOUS
  <2> HIDE DEF Bad
  <2> QED BY <2>1, LeastNatural
<1>3. f[n] = IF n = 0 THEN {host} ELSE Spread(edges, f[n - 1])
  BY <1>1 DEF Layers
<1>4. CASE n = 0
  BY <1>3, <1>4
<1>5. CASE n # 0
  <2>1. n - 1 \in 0..hops /\ n - 1 < n
    BY <1>5
  <2>2. f[n - 1] \subseteq Hosts
    BY <1>2, <2>1
  <2>3. \A h : Neighbors(edges, h) \subseteq Hosts
    BY DEF Neighbors
  <2>4. f[n] \subseteq Hosts
    BY <1>3, <1>5, <2>2, <2>3 DEF Spread
  <2> QED BY <2>4
<1> QED BY <1>4, <1>5

\* Components are sets of hosts, and finitely many.
LEMMA SccsAreHosts ==
    ASSUME NEW edges \in SUBSET (Hosts \X Hosts)
    PROVE  /\ NontrivialSccs(edges) \in SUBSET SUBSET Hosts
           /\ Cardinality(NontrivialSccs(edges)) \in Nat
<1>1. Cardinality(Hosts) \in Nat
  BY HostsAssumption, FS_CardinalityType
<1>2. Vertices(edges) \subseteq Hosts
  BY DEF Vertices
<1>3. NontrivialSccs(edges) \in SUBSET SUBSET Hosts
  <2> SUFFICES ASSUME NEW c \in NontrivialSccs(edges) PROVE c \subseteq Hosts
    OBVIOUS
  <2>1. c \in Sccs(edges)
    BY DEF NontrivialSccs
  <2> DEFINE reach == [h \in Hosts |-> ReachableWithin(edges, h, Cardinality(Hosts))]
  <2>2. PICK h \in Vertices(edges) : c = {g \in reach[h] : h \in reach[g]}
    BY <2>1 DEF Sccs
  <2>3. h \in Hosts /\ reach[h] = ReachableWithin(edges, h, Cardinality(Hosts))
    BY <1>2
  <2>4. reach[h] \subseteq Hosts
    BY <1>1, <2>3, ReachableAreHosts
  <2> HIDE DEF reach
  <2> QED BY <2>2, <2>4
<1>4. IsFiniteSet(SUBSET Hosts)
  BY HostsAssumption, FS_SUBSET
<1>5. IsFiniteSet(NontrivialSccs(edges))
  BY <1>3, <1>4, FS_Subset
<1> QED BY <1>3, <1>5, FS_CardinalityType

\* Two layer functions agree wherever both are defined.
LEMMA LayersAgree ==
    ASSUME NEW edges, NEW host, NEW hops \in Nat, NEW more \in Nat, hops <= more,
           NEW f, NEW g, Layers(f, edges, host, hops), Layers(g, edges, host, more)
    PROVE  f[hops] = g[hops]
<1> DEFINE Bad == {n \in 0..hops : f[n] # g[n]}
<1> SUFFICES ASSUME Bad # {} PROVE FALSE
  OBVIOUS
<1>1. PICK n \in Bad : \A m \in Bad : n <= m
  <2>1. Bad \subseteq Nat
    OBVIOUS
  <2> HIDE DEF Bad
  <2> QED BY <2>1, LeastNatural
<1>2. n \in 0..hops /\ n \in 0..more
  OBVIOUS
<1>3. f[n] = IF n = 0 THEN {host} ELSE Spread(edges, f[n - 1])
  BY <1>2 DEF Layers
<1>4. g[n] = IF n = 0 THEN {host} ELSE Spread(edges, g[n - 1])
  BY <1>2 DEF Layers
<1>5. n # 0 => f[n - 1] = g[n - 1]
  <2> SUFFICES ASSUME n # 0 PROVE f[n - 1] = g[n - 1]
    OBVIOUS
  <2>1. n - 1 \in 0..hops /\ ~(n <= n - 1)
    BY <1>2
  <2> QED BY <1>1, <2>1
<1> QED BY <1>3, <1>4, <1>5

\* No hop leads to the host itself, one more hop to the neighbours of what was
\* within reach.
LEMMA ReachableSteps ==
    ASSUME NEW edges, NEW host, NEW hops \in Nat
    PROVE  /\ ReachableWithin(edges, host, 0) = {host}
           /\ ReachableWithin(edges, host, hops + 1)
                = Spread(edges, ReachableWithin(edges, host, hops))
<1>1. PICK z : Layers(z, edges, host, 0) /\ ReachableWithin(edges, host, 0) = z[0]
  BY ReachableIsLayer
<1>2. PICK f : Layers(f, edges, host, hops) /\ ReachableWithin(edges, host, hops) = f[hops]
  BY ReachableIsLayer
<1>3. hops + 1 \in Nat /\ hops <= hops + 1 /\ hops + 1 \in 0..(hops + 1) /\ (hops + 1) - 1 = hops
  OBVIOUS
<1>4. PICK g : /\ Layers(g, edges, host, hops + 1)
               /\ ReachableWithin(edges, host, hops + 1) = g[hops + 1]
  BY <1>3, ReachableIsLayer
<1>5. f[hops] = g[hops]
  BY <1>2, <1>3, <1>4, LayersAgree
<1>6. g[hops + 1] = Spread(edges, g[hops])
  <2>1. PICK last : last = hops + 1
    OBVIOUS
  <2>2. last \in 0..(hops + 1) /\ last # 0 /\ last - 1 = hops
    BY <2>1
  <2>3. g[last] = IF last = 0 THEN {host} ELSE Spread(edges, g[last - 1])
    BY <1>4, <2>2 DEF Layers
  <2> QED BY <2>1, <2>2, <2>3
<1>7. z[0] = {host}
  BY <1>1 DEF Layers
<1> QED BY <1>1, <1>2, <1>4, <1>5, <1>6, <1>7

\* More hops reach more hosts.
LEMMA ReachableGrows ==
    ASSUME NEW edges, NEW host, NEW fewer \in Nat, NEW hops \in Nat, fewer <= hops
    PROVE  ReachableWithin(edges, host, fewer) \subseteq ReachableWithin(edges, host, hops)
<1> DEFINE W(n)  == ReachableWithin(edges, host, n)
           Bad == {n \in Nat : n >= fewer /\ ~(W(fewer) \subseteq W(n))}
<1> SUFFICES ASSUME Bad # {} PROVE FALSE
  OBVIOUS
<1>1. PICK n \in Bad : \A m \in Bad : n <= m
  <2>1. Bad \subseteq Nat
    OBVIOUS
  <2> HIDE DEF Bad
  <2> QED BY <2>1, LeastNatural
<1>2. n # fewer
  OBVIOUS
<1>3. n - 1 \in Nat /\ n - 1 >= fewer /\ ~(n <= n - 1) /\ (n - 1) + 1 = n
  BY <1>2
<1>4. W(fewer) \subseteq W(n - 1)
  BY <1>1, <1>3
<1>5. W((n - 1) + 1) = Spread(edges, W(n - 1))
  BY <1>3, ReachableSteps
<1>6. W(n - 1) \subseteq W(n)
  BY <1>3, <1>5 DEF Spread
<1> QED BY <1>4, <1>6

\* The host is there from the start.
LEMMA HostIsReachable ==
    ASSUME NEW edges, NEW host, NEW hops \in Nat
    PROVE  host \in ReachableWithin(edges, host, hops)
<1>1. ReachableWithin(edges, host, 0) \subseteq ReachableWithin(edges, host, hops)
  BY ReachableGrows
<1> QED BY <1>1, ReachableSteps

\* A neighbour of a host within reach is one hop further.
LEMMA NeighbourIsReachable ==
    ASSUME NEW edges, NEW host, NEW hops \in Nat,
           NEW h \in ReachableWithin(edges, host, hops), NEW g \in Neighbors(edges, h)
    PROVE  g \in ReachableWithin(edges, host, hops + 1)
BY ReachableSteps DEF Spread

\* And whatever is one hop further is within reach already, or a neighbour.
LEMMA LastHop ==
    ASSUME NEW edges, NEW host, NEW hops \in Nat,
           NEW g \in ReachableWithin(edges, host, hops + 1),
           g \notin ReachableWithin(edges, host, hops)
    PROVE  \E h \in ReachableWithin(edges, host, hops) : g \in Neighbors(edges, h)
BY ReachableSteps DEF Spread

\* Once a hop adds nothing no further one does.
LEMMA ReachableSettles ==
    ASSUME NEW edges, NEW host, NEW hops \in Nat, NEW more \in Nat, hops <= more,
           ReachableWithin(edges, host, hops + 1) = ReachableWithin(edges, host, hops)
    PROVE  ReachableWithin(edges, host, more) = ReachableWithin(edges, host, hops)
<1> DEFINE W(n)  == ReachableWithin(edges, host, n)
           Bad == {n \in Nat : n >= hops /\ W(n) # W(hops)}
<1> SUFFICES ASSUME Bad # {} PROVE FALSE
  OBVIOUS
<1>1. PICK n \in Bad : \A m \in Bad : n <= m
  <2>1. Bad \subseteq Nat
    OBVIOUS
  <2> HIDE DEF Bad
  <2> QED BY <2>1, LeastNatural
<1>2. n # hops
  OBVIOUS
<1>3. n - 1 \in Nat /\ n - 1 >= hops /\ ~(n <= n - 1) /\ (n - 1) + 1 = n
  BY <1>2
<1>4. W(n - 1) = W(hops)
  BY <1>1, <1>3
<1>5. W((n - 1) + 1) = Spread(edges, W(n - 1)) /\ W(hops + 1) = Spread(edges, W(hops))
  BY <1>3, ReachableSteps
<1> QED BY <1>3, <1>4, <1>5

\* While hops add hosts, there are more hosts than hops.
LEMMA ShortestPathsAreShort ==
    ASSUME NEW edges \in SUBSET (Hosts \X Hosts), NEW host \in Hosts, NEW d \in Nat,
           NEW h \in ReachableWithin(edges, host, d),
           d > 0 => h \notin ReachableWithin(edges, host, d - 1)
    PROVE  d <= Cardinality(Hosts)
<1> DEFINE W(n)  == ReachableWithin(edges, host, n)
           Bad == {n \in 0..d : ~(Cardinality(W(n)) >= n + 1)}
<1>1. ASSUME NEW n \in Nat
      PROVE  W(n) \subseteq Hosts /\ IsFiniteSet(W(n)) /\ Cardinality(W(n)) \in Nat
  BY ReachableAreHosts, HostsAssumption, FS_Subset, FS_CardinalityType
<1>2. Bad = {}
  <2> SUFFICES ASSUME Bad # {} PROVE FALSE
    OBVIOUS
  <2>1. PICK n \in Bad : \A m \in Bad : n <= m
    <3>1. Bad \subseteq Nat
      OBVIOUS
    <3> HIDE DEF Bad
    <3> QED BY <3>1, LeastNatural
  <2>2. n # 0
    <3>1. W(0) = {host}
      BY ReachableSteps
    <3>2. Cardinality(W(0)) = 1
      BY <3>1, FS_Singleton
    <3>3. Cardinality(W(0)) >= 0 + 1
      BY <3>2
    <3>4. ~(Cardinality(W(n)) >= n + 1)
      BY <2>1
    <3> QED BY <3>3, <3>4
  <2>3. n \in Nat /\ n - 1 \in Nat /\ n - 1 \in 0..d /\ ~(n <= n - 1) /\ (n - 1) + 1 = n /\ n <= d
    BY <2>2
  <2>4. Cardinality(W(n - 1)) >= n
    BY <2>1, <2>3
  <2>5. W(n - 1) \subseteq W(n)
    BY <2>3, ReachableGrows
  <2>6. W(n) # W(n - 1)
    <3> SUFFICES ASSUME W(n) = W(n - 1) PROVE FALSE
      OBVIOUS
    <3>1. d - 1 \in Nat /\ n - 1 <= d - 1 /\ n - 1 <= d /\ d > 0
      BY <2>3
    <3>2. W((n - 1) + 1) = W(n - 1)
      BY <2>3
    <3>3. W(d) = W(n - 1) /\ W(d - 1) = W(n - 1)
      BY <2>3, <3>1, <3>2, ReachableSettles
    <3> QED BY <3>1, <3>3
  <2>7. Cardinality(W(n - 1)) < Cardinality(W(n))
    <3>1. IsFiniteSet(W(n)) /\ Cardinality(W(n)) \in Nat /\ Cardinality(W(n - 1)) \in Nat
      BY <1>1, <2>3
    <3>2. Cardinality(W(n - 1)) <= Cardinality(W(n))
          /\ (Cardinality(W(n - 1)) = Cardinality(W(n)) => W(n - 1) = W(n))
      BY <2>5, <3>1, FS_Subset
    <3> QED BY <2>6, <3>1, <3>2
  <2>8. Cardinality(W(n)) \in Nat /\ Cardinality(W(n - 1)) \in Nat
    BY <1>1, <2>3
  <2> QED BY <2>1, <2>3, <2>4, <2>7, <2>8
<1>3. Cardinality(W(d)) >= d + 1
  BY <1>2
<1>4. Cardinality(W(d)) <= Cardinality(Hosts) /\ Cardinality(Hosts) \in Nat
  BY <1>1, HostsAssumption, FS_Subset, FS_CardinalityType
<1>5. Cardinality(W(d)) \in Nat
  BY <1>1
<1> QED BY <1>3, <1>4, <1>5

-----------------------------------------------------------------------------
(***************************************************************************)
(* Reachability without a limit.  With as many hops as there are hosts one *)
(* gets wherever one can get, so what is reachable is the least set with   *)
(* the host in it that no edge leaves.                                     *)
(***************************************************************************)
Reach(edges, host) == ReachableWithin(edges, host, Cardinality(Hosts))

\* No edge leaves the set.
Closed(edges, set) == \A h \in set : Neighbors(edges, h) \subseteq set

LEMMA NeighboursAreHosts ==
    ASSUME NEW edges \in SUBSET (Hosts \X Hosts), NEW h
    PROVE  Neighbors(edges, h) \subseteq Hosts
BY DEF Neighbors

\* A set that no edge leaves keeps whatever is reachable from its members.
LEMMA ReachStays ==
    ASSUME NEW edges, NEW set, Closed(edges, set), NEW host \in set, NEW hops \in Nat
    PROVE  ReachableWithin(edges, host, hops) \subseteq set
<1> DEFINE W(n) == ReachableWithin(edges, host, n)
           Bad == {n \in Nat : ~(W(n) \subseteq set)}
<1> SUFFICES ASSUME Bad # {} PROVE FALSE
  OBVIOUS
<1>1. PICK n \in Bad : \A m \in Bad : n <= m
  <2>1. Bad \subseteq Nat
    OBVIOUS
  <2> HIDE DEF Bad
  <2> QED BY <2>1, LeastNatural
<1>2. n # 0
  <2>1. W(0) = {host}
    BY ReachableSteps
  <2> QED BY <1>1, <2>1
<1>3. n - 1 \in Nat /\ ~(n <= n - 1) /\ (n - 1) + 1 = n
  BY <1>2
<1>4. W(n - 1) \subseteq set
  BY <1>1, <1>3
<1>5. W((n - 1) + 1) = Spread(edges, W(n - 1))
  BY <1>3, ReachableSteps
<1>6. W((n - 1) + 1) \subseteq set
  BY <1>4, <1>5 DEF Spread, Closed
<1> QED BY <1>3, <1>6

\* What is reachable with any number of hops is reachable with so many.
LEMMA ReachIsAll ==
    ASSUME NEW edges \in SUBSET (Hosts \X Hosts), NEW host \in Hosts, NEW hops \in Nat
    PROVE  ReachableWithin(edges, host, hops) \subseteq Reach(edges, host)
<1> SUFFICES ASSUME NEW g \in ReachableWithin(edges, host, hops)
             PROVE  g \in Reach(edges, host)
  OBVIOUS
<1> DEFINE Near == {n \in Nat : g \in ReachableWithin(edges, host, n)}
<1>1. PICK d \in Near : \A m \in Near : d <= m
  <2>1. Near \subseteq Nat /\ Near # {}
    OBVIOUS
  <2> HIDE DEF Near
  <2> QED BY <2>1, LeastNatural
<1>2. d > 0 => g \notin ReachableWithin(edges, host, d - 1)
  BY <1>1
<1>3. d <= Cardinality(Hosts)
  BY <1>1, <1>2, ShortestPathsAreShort
<1>4. Cardinality(Hosts) \in Nat
  BY HostsAssumption, FS_CardinalityType
<1>5. ReachableWithin(edges, host, d) \subseteq Reach(edges, host)
  BY <1>1, <1>3, <1>4, ReachableGrows DEF Reach
<1> QED BY <1>1, <1>5

LEMMA ReachFacts ==
    ASSUME NEW edges \in SUBSET (Hosts \X Hosts), NEW host \in Hosts
    PROVE  /\ Reach(edges, host) \in SUBSET Hosts
           /\ host \in Reach(edges, host)
           /\ Closed(edges, Reach(edges, host))
           /\ \A set : Closed(edges, set) /\ host \in set => Reach(edges, host) \subseteq set
<1>1. Cardinality(Hosts) \in Nat
  BY HostsAssumption, FS_CardinalityType
<1>2. Reach(edges, host) \in SUBSET Hosts
  BY <1>1, ReachableAreHosts DEF Reach
<1>3. host \in Reach(edges, host)
  BY <1>1, HostIsReachable DEF Reach
<1>4. ASSUME NEW h \in Reach(edges, host), NEW g \in Neighbors(edges, h)
      PROVE  g \in Reach(edges, host)
  <2>1. g \in ReachableWithin(edges, host, Cardinality(Hosts) + 1)
    BY <1>1, <1>4, NeighbourIsReachable DEF Reach
  <2>2. Cardinality(Hosts) + 1 \in Nat
    BY <1>1
  <2> QED BY <2>1, <2>2, ReachIsAll
<1>5. ASSUME NEW set, Closed(edges, set), host \in set PROVE Reach(edges, host) \subseteq set
  BY <1>1, <1>5, ReachStays DEF Reach
<1> QED BY <1>2, <1>3, <1>4, <1>5 DEF Closed

LEMMA ReachIsTransitive ==
    ASSUME NEW edges \in SUBSET (Hosts \X Hosts), NEW a \in Hosts,
           NEW b \in Reach(edges, a)
    PROVE  b \in Hosts /\ Reach(edges, b) \subseteq Reach(edges, a)
<1>1. b \in Hosts /\ Closed(edges, Reach(edges, a))
  BY ReachFacts
<1> QED BY <1>1, ReachFacts

LEMMA ReachNeighbor ==
    ASSUME NEW edges \in SUBSET (Hosts \X Hosts), NEW a \in Hosts, NEW b \in Neighbors(edges, a)
    PROVE  b \in Hosts /\ b \in Reach(edges, a)
BY ReachFacts, NeighboursAreHosts DEF Closed

\* A path out of a set leaves it by an edge.
LEMMA ReachLeaves ==
    ASSUME NEW edges \in SUBSET (Hosts \X Hosts), NEW a \in Hosts, NEW b \in Reach(edges, a),
           NEW set, a \in set, b \notin set
    PROVE  \E h \in Hosts \cap set, g \in Hosts \ set :
               /\ g \in Neighbors(edges, h)
               /\ h \in Reach(edges, a) /\ b \in Reach(edges, g)
<1> SUFFICES ASSUME \A h \in Hosts \cap set, g \in Hosts \ set :
                        g \in Neighbors(edges, h) /\ h \in Reach(edges, a)
                            => b \notin Reach(edges, g)
             PROVE  FALSE
  OBVIOUS
<1> DEFINE Short == {x \in Reach(edges, a) : x \in set \/ b \notin Reach(edges, x)}
<1>1. a \in Short /\ b \in Hosts
  BY ReachFacts, ReachIsTransitive
<1>2. ASSUME NEW x \in Short, NEW y \in Neighbors(edges, x) PROVE y \in Short
  <2>1. x \in Hosts /\ y \in Hosts /\ y \in Reach(edges, a) /\ y \in Reach(edges, x)
    BY <1>2, ReachFacts, ReachNeighbor DEF Closed
  <2>2. Reach(edges, y) \subseteq Reach(edges, x)
    BY <2>1, ReachIsTransitive
  <2> QED BY <1>2, <2>1, <2>2
<1>3. Closed(edges, Short)
  BY <1>2 DEF Closed
<1>4. b \in Short
  <2> HIDE DEF Short
  <2> QED BY <1>1, <1>3, ReachFacts
<1> QED BY <1>1, <1>4, ReachFacts

-----------------------------------------------------------------------------
(***************************************************************************)
(* Strongly connected components.                                          *)
(***************************************************************************)
SccOf(edges, h) == {g \in Reach(edges, h) : h \in Reach(edges, g)}

LEMMA SccsAreClasses ==
    ASSUME NEW edges \in SUBSET (Hosts \X Hosts)
    PROVE  Sccs(edges) = {SccOf(edges, h) : h \in Vertices(edges)}
<1> DEFINE reach == [h \in Hosts |-> ReachableWithin(edges, h, Cardinality(Hosts))]
<1>1. Vertices(edges) \subseteq Hosts
  BY DEF Vertices
<1>2. ASSUME NEW h \in Hosts PROVE {g \in reach[h] : h \in reach[g]} = SccOf(edges, h)
  <2>1. reach[h] = Reach(edges, h) /\ Reach(edges, h) \subseteq Hosts
    BY ReachFacts DEF Reach
  <2>2. \A g \in Reach(edges, h) : reach[g] = Reach(edges, g)
    BY <2>1 DEF Reach
  <2> HIDE DEF reach
  <2> QED BY <2>1, <2>2 DEF SccOf
<1>3. Sccs(edges) = {{g \in reach[h] : h \in reach[g]} : h \in Vertices(edges)}
  BY DEF Sccs
<1> HIDE DEF reach
<1> QED BY <1>1, <1>2, <1>3

\* Being in a component is an equivalence.
LEMMA SccOfFacts ==
    ASSUME NEW edges \in SUBSET (Hosts \X Hosts), NEW h \in Hosts
    PROVE  /\ h \in SccOf(edges, h) /\ SccOf(edges, h) \subseteq Hosts
           /\ \A g \in SccOf(edges, h) : SccOf(edges, g) = SccOf(edges, h)
<1>1. h \in SccOf(edges, h) /\ SccOf(edges, h) \subseteq Hosts
  BY ReachFacts DEF SccOf
<1>2. ASSUME NEW g \in SccOf(edges, h) PROVE SccOf(edges, g) = SccOf(edges, h)
  <2>1. g \in Hosts /\ g \in Reach(edges, h) /\ h \in Reach(edges, g)
    BY <1>1 DEF SccOf
  <2>2. Reach(edges, g) = Reach(edges, h)
    BY <2>1, ReachIsTransitive
  <2>3. ASSUME NEW x \in Reach(edges, h) PROVE g \in Reach(edges, x) <=> h \in Reach(edges, x)
    <3>1. x \in Hosts
      BY ReachFacts
    <3> QED BY <2>1, <3>1, ReachIsTransitive
  <2> QED BY <2>2, <2>3 DEF SccOf
<1> QED BY <1>1, <1>2

\* The ends of the edges.
LEMMA VerticesFacts ==
    ASSUME NEW edges \in SUBSET (Hosts \X Hosts)
    PROVE  /\ Vertices(edges) \subseteq Hosts
           /\ \A h, g : g \in Neighbors(edges, h) <=> <<h, g>> \in edges
           /\ \A h : \A g \in Neighbors(edges, h) : h \in Vertices(edges) /\ g \in Vertices(edges)
<1>1. \A e \in edges : e = <<e[1], e[2]>> /\ e[1] \in Hosts /\ e[2] \in Hosts
  OBVIOUS
<1>2. Vertices(edges) \subseteq Hosts
  BY <1>1 DEF Vertices
<1>3. ASSUME NEW h, NEW g PROVE g \in Neighbors(edges, h) <=> <<h, g>> \in edges
  BY <1>1 DEF Neighbors
<1>4. ASSUME NEW h, NEW g, <<h, g>> \in edges PROVE h \in Vertices(edges) /\ g \in Vertices(edges)
  <2>1. <<h, g>>[1] = h /\ <<h, g>>[2] = g
    OBVIOUS
  <2> QED BY <1>4, <2>1 DEF Vertices
<1> QED BY <1>2, <1>3, <1>4

\* What is reachable from a vertex is one.
LEMMA ReachVertices ==
    ASSUME NEW edges \in SUBSET (Hosts \X Hosts), NEW h \in Vertices(edges)
    PROVE  h \in Hosts /\ Reach(edges, h) \subseteq Vertices(edges)
<1>1. h \in Hosts /\ Closed(edges, Vertices(edges))
  BY VerticesFacts DEF Closed
<1> QED BY <1>1, ReachFacts

\* Components that cover the vertices are all of them.
LEMMA SccsCover ==
    ASSUME NEW edges \in SUBSET (Hosts \X Hosts), NEW found \in SUBSET Sccs(edges)
    PROVE  /\ \A c \in found : \A h \in c : h \in Vertices(edges) /\ c = SccOf(edges, h)
           /\ Vertices(edges) \subseteq UNION found => found = Sccs(edges)
<1>1. ASSUME NEW c \in found, NEW h \in c PROVE h \in Vertices(edges) /\ c = SccOf(edges, h)
  <2>1. PICK g \in Vertices(edges) : c = SccOf(edges, g)
    BY SccsAreClasses
  <2>2. g \in Hosts /\ h \in Vertices(edges)
    BY <2>1, ReachVertices DEF SccOf
  <2> QED BY <2>1, <2>2, SccOfFacts
<1>2. ASSUME Vertices(edges) \subseteq UNION found PROVE found = Sccs(edges)
  <2> SUFFICES ASSUME NEW c \in Sccs(edges) PROVE c \in found
    OBVIOUS
  <2>1. PICK h \in Vertices(edges) : c = SccOf(edges, h)
    BY SccsAreClasses
  <2>2. PICK d \in found : h \in d
    BY <1>2
  <2> QED BY <1>1, <2>1, <2>2
<1> QED BY <1>1, <1>2
=============================================================================
