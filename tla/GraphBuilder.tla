---------------------------- MODULE GraphBuilder ----------------------------
(***************************************************************************)
(* graph/builder.go.  Only AddNode looks at what is already there; every   *)
(* other call records what it is given, in any order, and Build judges the *)
(* whole.  A builder may be used on after Build, by one goroutine at a time. *)
(***************************************************************************)
EXTENDS Reachability

CONSTANTS
    NoId,       \* the empty id, also Builder.entry before SetEntry
    MaxEdges    \* model bound: edges that callers add

ASSUME BuilderAssumption == NoId \in Ids /\ MaxEdges \in Nat

VARIABLES
    nodes, terminals,   \* Builder's other fields
    graph,      \* the Graph returned by the last successful Build
    warned      \* the nodes that this Build's log called unreachable

\* Build has not returned a graph yet.
NoGraph == [nodes |-> {}, edges |-> <<>>, entry |-> NoId, terminals |-> {}]

vars == <<nodes, edges, entry, terminals, graph, warned, search>>

Init ==
    /\ nodes = {}
    /\ edges = <<>>
    /\ entry = NoId
    /\ terminals = {}
    /\ graph = NoGraph
    /\ warned = {}
    /\ stage = "idle"
    /\ queue = <<>>
    /\ reachable = {}
    /\ curr = NoId
    /\ at = 1
-----------------------------------------------------------------------------
\* A second node under the same id is refused and the first one stays.
AddNode(id) ==
    /\ stage = "idle"
    /\ id \notin nodes
    /\ nodes' = nodes \cup {id}
    /\ UNCHANGED <<edges, entry, terminals, graph, warned, search>>

SetEntry(id) ==
    /\ stage = "idle"
    /\ entry' = id
    /\ UNCHANGED <<nodes, edges, terminals, graph, warned, search>>

SetTerminal(id) ==
    /\ stage = "idle"
    /\ terminals' = terminals \cup {id}
    /\ UNCHANGED <<nodes, edges, entry, graph, warned, search>>

\* Mutant: the graph shares the builder's list of edges instead of copying it.
AppendShared(edge) ==
    /\ stage = "idle"
    /\ Len(edges) < MaxEdges
    /\ edges' = Append(edges, edge)
    /\ graph' = IF graph = NoGraph THEN graph ELSE [graph EXCEPT !.edges = edges']
    /\ UNCHANGED <<nodes, entry, terminals, warned, search>>

\* b.edges = append(b.edges, edge)
AppendEdge(edge) ==
    /\ stage = "idle"
    /\ Len(edges) < MaxEdges
    /\ edges' = Append(edges, edge)
    /\ UNCHANGED <<nodes, entry, terminals, graph, warned, search>>

AddEdge(from, to) == AppendEdge([from |-> from, to |-> to, cond |-> FALSE])

AddConditionalEdge(from) == AppendEdge([from |-> from, to |-> NoId, cond |-> TRUE])

EdgesChecked ==
    \A i \in DOMAIN edges :
        /\ edges[i].from \in nodes
        /\ ~edges[i].cond => edges[i].to \in nodes

\* Build up to the search.  When a check fails nothing changes.
Build ==
    /\ entry # NoId
    /\ entry \in nodes
    /\ EdgesChecked
    /\ terminals \subseteq nodes
    /\ StartSearch
    /\ UNCHANGED <<nodes, terminals, graph, warned>>

Search ==
    /\ Take \/ Scan
    /\ UNCHANGED <<nodes, terminals, graph, warned>>

\* The search is done: warn of the other nodes and return a copy.
BuildReturn ==
    /\ EndSearch
    /\ warned' = nodes \ reachable
    /\ graph' = [nodes |-> nodes, edges |-> edges, entry |-> entry,
                 terminals |-> terminals]
    /\ UNCHANGED <<nodes, terminals>>

Next ==
    \/ \E id \in Ids : AddNode(id) \/ SetEntry(id) \/ SetTerminal(id)
    \/ \E from, to \in Ids : AddEdge(from, to)
    \/ \E from \in Ids : AddConditionalEdge(from)
    \/ Build \/ Search \/ BuildReturn

Spec == Init /\ [][Next]_vars

\* Build is sequential code and runs to its end; nobody has to call anything.
FairSpec == Spec /\ WF_vars(Search \/ BuildReturn)
-----------------------------------------------------------------------------
(***************************************************************************)
(* Properties.  StaticWalk is the walk of the engine over a built graph    *)
(* along static edges: it takes the first one registered for a node.       *)
(***************************************************************************)
Built == graph # NoGraph

ClosedUnderFirst(S) ==
    \A i \in DOMAIN graph.edges :
        /\ ~graph.edges[i].cond
        /\ graph.edges[i].from \in S
        /\ IsFirstEdge(graph.edges, i, graph.edges[i].from)
        => graph.edges[i].to \in S

StaticWalk ==
    {n \in Ids : \A S \in SUBSET Ids :
                    graph.entry \in S /\ ClosedUnderFirst(S) => n \in S}

\* The shape of the builder and of the graph; the proofs use it.
TypeOK ==
    /\ SearchTypeOK
    /\ nodes \subseteq Ids
    /\ terminals \subseteq Ids
    /\ warned \subseteq graph.nodes
    /\ graph \in [nodes: SUBSET Ids, edges: Seq(EdgeOf(Ids)),
                           entry: Ids, terminals: SUBSET Ids]

\* Whatever was called before Build, in whatever order, and whatever is called
\* on the builder after it: a graph that Build returned has no reference to a
\* node it does not hold, and an entry.  The engine assumes it.
BuiltGraphValid == Built => ValidGraph(graph) /\ graph.entry # NoId

\* No false alarm along static edges: a node the log calls unreachable is not
\* on the path the engine takes without a router or a NextNodes.
WarningsSound == Built => warned \cap StaticWalk = {}

\* Build returns on every list of edges, though every visited id queues its
\* successors again.
BuildReturns == stage # "idle" ~> stage = "idle"
=============================================================================
