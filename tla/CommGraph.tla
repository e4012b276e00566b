----------------------------- MODULE CommGraph -----------------------------
(***************************************************************************)
(* The communication graph and what its algorithms are asked for.  A       *)
(* vertex is an address, an edge a pair of them; add_edge adds its ends,   *)
(* so the graph is the set of its edges.  ReachableWithin and Sccs are the *)
(* contracts of reachable_within and find_sccs.                            *)
(***************************************************************************)
EXTENDS Integers, FiniteSets

CONSTANT Hosts    \* addresses

ASSUME HostsAssumption == IsFiniteSet(Hosts)

Vertices(edges) == {e[1] : e \in edges} \cup {e[2] : e \in edges}

Neighbors(edges, h) == {e[2] : e \in {x \in edges : x[1] = h}}

\* The hosts at distance 0, 1, ..., hops from a host.
ReachableWithin(edges, host, hops) ==
    LET near[n \in 0..hops] ==
            IF n = 0 THEN {host}
            ELSE LET prev == near[n - 1]
                 IN  prev \cup UNION {Neighbors(edges, h) : h \in prev}
    IN  near[hops]

\* The strongly connected components of a graph.
Sccs(edges) ==
    LET reach     == [h \in Hosts |-> ReachableWithin(edges, h, Cardinality(Hosts))]
        members(h) == {g \in reach[h] : h \in reach[g]}
    IN  {members(h) : h \in Vertices(edges)}

\* Those with more than one member.
NontrivialSccs(edges) == {c \in Sccs(edges) : Cardinality(c) > 1}
=============================================================================
