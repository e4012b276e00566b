---------------------------- MODULE Reachability ----------------------------
(***************************************************************************)
(* The two implementations of reachable_within: BFSReachability with a     *)
(* queue and DijkstraReachability with a heap of <<distance, vertex>>, one *)
(* step per turn of their loops.  Neighbours come up in any order.         *)
(***************************************************************************)
EXTENDS CommGraph, SequencesExt

CONSTANTS
    Edges,        \* the edges the graph may have
    Limits,       \* values of max_hops
    Algorithms    \* the implementations, "bfs" and "dijkstra"

VARIABLES
    edges, source, maxHops, algorithm,    \* the call; never changes
    result,       \* hosts found so far, with their distance
    queue,        \* q of the breadth-first search
    heap          \* pq of Dijkstra's algorithm, as a set: an entry that is
                  \* there twice is stale the second time

call == <<edges, source, maxHops, algorithm>>
vars == <<call, result, queue, heap>>

\* A host that is not in the result.
Unseen == -1

Found(h) == result[h] # Unseen

Init ==
    /\ edges \in SUBSET Edges /\ source \in Hosts /\ maxHops \in Limits
    /\ algorithm \in Algorithms
    /\ result = [h \in Hosts |-> IF algorithm = "bfs" /\ h = source THEN 0 ELSE Unseen]
    /\ queue = IF algorithm = "bfs" THEN <<source>> ELSE <<>>
    /\ heap = IF algorithm = "bfs" THEN {} ELSE {<<0, source>>}

DiscoveredAgain(u) == Neighbors(edges, u)

\* The neighbours a breadth-first search enters in the result.
Discovered(u) == {v \in Neighbors(edges, u) : ~Found(v)}

\* A host at the last hop is not expanded.
BfsTurn ==
    /\ queue # <<>>
    /\ LET u   == Head(queue)
           new == IF result[u] >= maxHops THEN {} ELSE Discovered(u) IN
       /\ result' = [h \in Hosts |-> IF h \in new THEN result[u] + 1 ELSE result[h]]
       /\ \E order \in SetToSeqs(new) : queue' = Tail(queue) \o order
    /\ UNCHANGED <<call, heap>>

ReachesLate(d) == d < maxHops

\* d_v <= max_hops
Reaches(d) == d <= maxHops

\* Stale entries are skipped; a distance beyond max_hops ends the loop.  Which of
\* two entries at the same distance is on top makes no difference to model.
DijkstraTurn ==
    /\ heap # {}
    /\ \E top \in heap :
          LET d == top[1]
              u == top[2] IN
          /\ \A e \in heap : d <= e[1]
          /\ IF d > maxHops THEN heap' = {} /\ UNCHANGED result
             ELSE IF Found(u) THEN heap' = heap \ {top} /\ UNCHANGED result
             ELSE /\ result' = [result EXCEPT ![u] = d]
                  /\ heap' = (heap \ {top}) \cup
                        {<<d + 1, v>> : v \in {w \in Neighbors(edges, u) :
                                                result'[w] = Unseen /\ Reaches(d + 1)}}
    /\ UNCHANGED <<call, queue>>

Next == BfsTurn \/ DijkstraTurn

Spec == Init /\ [][Next]_vars

-----------------------------------------------------------------------------
Done == queue = <<>> /\ heap = {}

\* The length of a shortest path.
Distance(h) ==
    CHOOSE d \in 0..Cardinality(Hosts) :
        /\ h \in ReachableWithin(edges, source, d)
        /\ d > 0 => h \notin ReachableWithin(edges, source, d - 1)

(* Whatever is in the result has its final, shortest distance, at most      *)
(* max_hops away; when the loop ends all hosts within max_hops are there.   *)
(* Both implementations therefore report the same blast radius.             *)
FindsNeighbourhood ==
    /\ \A h \in Hosts : Found(h) => result[h] <= maxHops /\ result[h] = Distance(h)
    /\ Done => {h \in Hosts : Found(h)} = ReachableWithin(edges, source, maxHops)
=============================================================================
