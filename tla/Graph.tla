------------------------------- MODULE Graph --------------------------------
(***************************************************************************)
(* graph/graph.go: what the Builder produces and the Engine walks.  A graph *)
(* is a record of its registered node ids, its edges in registration order, *)
(* its entry and its terminals.  A static edge names its target; the target *)
(* of a conditional one is whatever its router returns at run time.        *)
(***************************************************************************)
EXTENDS Naturals, Sequences

EdgeOf(ids) == [from: ids, to: ids, cond: BOOLEAN]

\* The references the engine follows without looking: entry, terminals, both
\* ends of a static edge and the origin of a conditional one are registered.
ValidGraph(g) ==
    /\ g.entry \in g.nodes
    /\ g.terminals \subseteq g.nodes
    /\ \A i \in DOMAIN g.edges :
          /\ g.edges[i].from \in g.nodes
          /\ g.edges[i].cond \in BOOLEAN
          /\ ~g.edges[i].cond => g.edges[i].to \in g.nodes

\* The edge the engine takes out of n is the first one registered for n.
IsFirstEdge(edges, i, n) ==
    /\ edges[i].from = n
    /\ \A j \in DOMAIN edges : j < i => edges[j].from # n

\* S is left by no static edge.
ClosedUnder(edges, S) ==
    \A i \in DOMAIN edges :
        ~edges[i].cond /\ edges[i].from \in S => edges[i].to \in S

\* The nodes that static edges lead to from the entry, whatever their rank:
\* the least set that has the entry and is left by no static edge.
StaticReach(ids, entry, edges) ==
    {n \in ids : \A S \in SUBSET ids :
                    entry \in S /\ ClosedUnder(edges, S) => n \in S}
=============================================================================
