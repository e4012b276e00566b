------------------------------- MODULE Tarjan -------------------------------
(***************************************************************************)
(* Tarjan::find_sccs, one step per turn of its loop.  The recursion is     *)
(* unrolled into a stack of frames.  The containers are hash tables, so    *)
(* the order in which vertices and neighbours come up is arbitrary.        *)
(***************************************************************************)
EXTENDS CommGraph, Sequences

CONSTANT Edges    \* the edges the graph may have

VARIABLES
    edges,        \* the graph; never changes
    timer, disc, low,    \* disc[v] = Unseen until v is discovered
    stk,          \* the vertex stack, the top last
    calls,        \* the frames [u, todo], the innermost last
    sccs          \* the components found

vars == <<edges, timer, disc, low, stk, calls, sccs>>

Unseen == -1

Init ==
    /\ edges \in SUBSET Edges
    /\ timer = 0
    /\ disc = [h \in Hosts |-> Unseen] /\ low = [h \in Hosts |-> Unseen]
    /\ stk = <<>> /\ calls = <<>> /\ sccs = {}

\* on_stack
OnStack(v) == \E k \in DOMAIN stk : stk[k] = v

Top == calls[Len(calls)]

Callers(n) == SubSeq(calls, 1, n)

\* Number v, push it and enter its frame.
Discover(v, frames) ==
    /\ disc' = [disc EXCEPT ![v] = timer]
    /\ low' = [low EXCEPT ![v] = timer]
    /\ timer' = timer + 1
    /\ stk' = Append(stk, v)
    /\ calls' = Append(frames, [u |-> v, todo |-> Neighbors(edges, v)])
    /\ UNCHANGED <<edges, sccs>>

Start ==
    /\ calls = <<>>
    /\ \E v \in Vertices(edges) : disc[v] = Unseen /\ Discover(v, <<>>)

\* The current frame without neighbour v.
Advanced(v) == Append(Callers(Len(calls) - 1), [Top EXCEPT !.todo = @ \ {v}])

TreeEdge ==
    /\ calls # <<>>
    /\ \E v \in Top.todo : disc[v] = Unseen /\ Discover(v, Advanced(v))

Lesser(m, n) == IF m < n THEN m ELSE n

LowUnchecked(u, v) == Lesser(low[u], disc[v])

\* Only a vertex on the stack can lower the low-link.
LowWith(u, v) == IF OnStack(v) THEN Lesser(low[u], disc[v]) ELSE low[u]

SeenEdge ==
    /\ calls # <<>>
    /\ \E v \in Top.todo :
          /\ disc[v] # Unseen
          /\ calls' = Advanced(v)
          /\ low' = [low EXCEPT ![Top.u] = LowWith(Top.u, v)]
    /\ UNCHANGED <<edges, timer, disc, stk, sccs>>

\* All neighbours done: pop a component if u is its root, then hand the
\* low-link to the caller.
Return ==
    /\ calls # <<>> /\ Top.todo = {}
    /\ LET u == Top.u
           n == Len(calls) - 1 IN
       /\ IF low[u] = disc[u]
          THEN LET k == CHOOSE k \in DOMAIN stk : stk[k] = u IN
               /\ sccs' = sccs \cup {{stk[j] : j \in k..Len(stk)}}
               /\ stk' = SubSeq(stk, 1, k - 1)
          ELSE UNCHANGED <<sccs, stk>>
       /\ calls' = Callers(n)
       /\ low' = IF n = 0 THEN low
                 ELSE [low EXCEPT ![calls[n].u] = Lesser(@, low[u])]
    /\ UNCHANGED <<edges, timer, disc>>

Next == Start \/ TreeEdge \/ SeenEdge \/ Return

Spec == Init /\ [][Next]_vars

-----------------------------------------------------------------------------
Done == calls = <<>> /\ \A v \in Vertices(edges) : disc[v] # Unseen

(* Every component is reported whole, no later step revises it, and when    *)
(* the loop ends all of them are reported: whatever the order of the hash   *)
(* tables, find_sccs returns the strongly connected components.             *)
FindsSccs ==
    /\ sccs \subseteq Sccs(edges)
    /\ Done => sccs = Sccs(edges)
=============================================================================
