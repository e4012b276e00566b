------------------------------ MODULE Kosaraju ------------------------------
(***************************************************************************)
(* Kosaraju::find_sccs, one step per turn of its loops: a depth-first      *)
(* search of the graph that records the order in which vertices finish,    *)
(* then searches of the transposed graph in the reverse of that order.     *)
(* The order of vertices and neighbours in the hash tables is arbitrary.   *)
(***************************************************************************)
EXTENDS CommGraph, SequencesExt

CONSTANT Edges    \* the edges the graph may have

VARIABLES
    edges,        \* the graph; never changes
    pass,         \* 1 or 2
    visited,
    dfs,          \* the explicit stack of <<vertex, is_postvisit>>, top last
    finished,     \* finish_order, top last
    comp, sccs

vars == <<edges, pass, visited, dfs, finished, comp, sccs>>

Init ==
    /\ edges \in SUBSET Edges
    /\ pass = 1 /\ visited = {} /\ dfs = <<>> /\ finished = <<>>
    /\ comp = {} /\ sccs = {}

\* The stack entries for some vertices, in any order.
Pushes(vs) == {[k \in DOMAIN p |-> <<p[k], FALSE>>] : p \in SetToSeqs(vs)}

Start ==
    /\ pass = 1 /\ dfs = <<>>
    /\ \E v \in Vertices(edges) \ visited : dfs' = << <<v, FALSE>> >>
    /\ UNCHANGED <<edges, pass, visited, finished, comp, sccs>>

PostFirst(rest, u, pushed) == rest \o pushed \o << <<u, TRUE>> >>

\* The postvisit marker goes below the neighbours.
PostVisit(rest, u, pushed) == rest \o << <<u, TRUE>> >> \o pushed

\* Pass 1 pops one entry.
Visit ==
    /\ pass = 1 /\ dfs # <<>>
    /\ LET u    == Last(dfs)[1]
           post == Last(dfs)[2] IN
       IF post
       THEN /\ finished' = Append(finished, u)
            /\ dfs' = Front(dfs)
            /\ UNCHANGED visited
       ELSE IF u \in visited
       THEN dfs' = Front(dfs) /\ UNCHANGED <<visited, finished>>
       ELSE /\ visited' = visited \cup {u}
            /\ \E pushed \in Pushes(Neighbors(edges, u) \ visited') :
                  dfs' = PostVisit(Front(dfs), u, pushed)
            /\ UNCHANGED finished
    /\ UNCHANGED <<edges, pass, comp, sccs>>

\* g.transpose(), visited.clear().
Turn ==
    /\ pass = 1 /\ dfs = <<>> /\ Vertices(edges) \subseteq visited
    /\ pass' = 2 /\ visited' = {}
    /\ UNCHANGED <<edges, dfs, finished, comp, sccs>>

Predecessors(u) == {e[1] : e \in {x \in edges : x[2] = u}}

\* The next root; a finished component is stored.
Root ==
    /\ pass = 2 /\ dfs = <<>> /\ finished # <<>>
    /\ LET v == Last(finished) IN
       dfs' = IF v \in visited THEN <<>> ELSE << <<v, FALSE>> >>
    /\ finished' = Front(finished)
    /\ UNCHANGED <<edges, pass, visited, comp, sccs>>

\* Pass 2 pops one entry; the component is complete when the stack is empty.
Collect ==
    /\ pass = 2 /\ dfs # <<>>
    /\ LET u     == Last(dfs)[1]
           fresh == {u} \ visited
           more  == IF fresh = {} THEN {} ELSE Predecessors(u) \ (visited \cup fresh)
           grown == comp \cup fresh IN
       /\ visited' = visited \cup fresh
       /\ \E pushed \in Pushes(more) : dfs' = Front(dfs) \o pushed
       /\ IF dfs' = <<>> THEN sccs' = sccs \cup {grown} /\ comp' = {}
                         ELSE comp' = grown /\ UNCHANGED sccs
    /\ UNCHANGED <<edges, pass, finished>>

Next == Start \/ Visit \/ Turn \/ Root \/ Collect

Spec == Init /\ [][Next]_vars

-----------------------------------------------------------------------------
Done == pass = 2 /\ dfs = <<>> /\ finished = <<>>

(* Every component is reported whole, and when the loops end all of them    *)
(* are: find_sccs returns the strongly connected components, whatever the   *)
(* order of the hash tables, although a vertex may be on the explicit stack *)
(* several times.                                                           *)
FindsSccs ==
    /\ sccs \subseteq Sccs(edges)
    /\ Done => sccs = Sccs(edges)
=============================================================================
