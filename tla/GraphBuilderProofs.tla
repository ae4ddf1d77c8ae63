------------------------- MODULE GraphBuilderProofs -------------------------
(***************************************************************************)
(* For every set of ids and any number of calls: the search inside Build   *)
(* finds what it should, what Build promises the engine holds, and its     *)
(* warnings mean what they say.                                            *)
(***************************************************************************)
EXTENDS GraphBuilder, TLAPS

\* While Build runs nobody else uses the builder: what it checked still holds.
Checked ==
    stage # "idle" =>
        /\ entry # NoId
        /\ entry \in nodes
        /\ EdgesChecked
        /\ terminals \subseteq nodes

\* The graph keeps what Build checked and the warnings it logged, while the
\* builder moves on.
BuiltInv ==
    Built =>
        /\ ValidGraph(graph)
        /\ graph.entry # NoId
        /\ warned = graph.nodes \ StaticReach(Ids, graph.entry, graph.edges)

USE BuilderAssumption

\* An edge of the list has the three fields, each with a value of its kind.
LEMMA EdgeFields ==
    ASSUME SearchTypeOK, NEW i \in 1..Len(edges)
    PROVE  edges[i].from \in Ids /\ edges[i].to \in Ids /\ edges[i].cond \in BOOLEAN
<1>1. edges[i] \in EdgeOf(Ids)
  BY DEF SearchTypeOK
<1> QED BY <1>1, Zenon DEF EdgeOf

\* Each call records ids where ids belong (builder.go:32-65, 67-145).
LEMMA BuilderTypeCorrect == Spec => []TypeOK
<1>1. Init => TypeOK
  BY DEF Init, TypeOK, SearchTypeOK, NoGraph, EdgeOf
<1>2. TypeOK /\ [Next]_vars => TypeOK'
  <2> SUFFICES ASSUME TypeOK, [Next]_vars PROVE TypeOK'
    OBVIOUS
  <2> USE DEF TypeOK, SearchTypeOK
  <2>1. ASSUME NEW id \in Ids, AddNode(id) \/ SetEntry(id) \/ SetTerminal(id)
        PROVE  TypeOK'
    BY <2>1 DEF AddNode, SetEntry, SetTerminal, search
  <2>2. ASSUME NEW e \in EdgeOf(Ids), AppendEdge(e) PROVE TypeOK'
    BY <2>2 DEF AppendEdge, search
  <2>3. ASSUME NEW from \in Ids, NEW to \in Ids, AddEdge(from, to) PROVE TypeOK'
    <3>1. [from |-> from, to |-> to, cond |-> FALSE] \in EdgeOf(Ids)
      BY DEF EdgeOf
    <3> QED BY <2>2, <2>3, <3>1 DEF AddEdge
  <2>4. ASSUME NEW from \in Ids, AddConditionalEdge(from) PROVE TypeOK'
    <3>1. [from |-> from, to |-> NoId, cond |-> TRUE] \in EdgeOf(Ids)
      BY DEF EdgeOf
    <3> QED BY <2>2, <2>4, <3>1 DEF AddConditionalEdge
  <2>5. CASE Build
    BY <2>5 DEF Build, StartSearch
  <2>6. CASE Take /\ UNCHANGED <<nodes, terminals, graph, warned>>
    <3>1. Head(queue) \in Ids /\ Tail(queue) \in Seq(Ids)
      BY <2>6 DEF Take
    <3> QED BY <2>6, <3>1 DEF Take
  <2>7. CASE Scan /\ UNCHANGED <<nodes, terminals, graph, warned>>
    <3>1. CASE ScanEnds
      BY <2>7, <3>1 DEF Scan
    <3>2. CASE ~ScanEnds
      <4>1. at \in 1..Len(edges)
        BY <3>2 DEF ScanEnds
      <4>2. edges[at].to \in Ids
        BY <4>1, EdgeFields
      <4>3. Append(queue, edges[at].to) \in Seq(Ids)
        BY <4>2
      <4>4. queue' \in Seq(Ids)
        BY <2>7, <3>2, <4>3 DEF Scan
      <4> QED BY <2>7, <3>2, <4>4 DEF Scan
    <3> QED BY <3>1, <3>2
  <2>8. CASE BuildReturn
    BY <2>8 DEF BuildReturn, EndSearch
  <2>9. CASE UNCHANGED vars
    BY <2>9 DEF vars, search
  <2> QED BY <2>1, <2>3, <2>4, <2>5, <2>6, <2>7, <2>8, <2>9 DEF Next, Search
<1> QED BY <1>1, <1>2, PTL DEF Spec

\* The calls that are possible between two Builds leave the search alone.
LEMMA IdleOrSearch ==
    ASSUME [Next]_vars
    PROVE  \/ stage = "idle" /\ UNCHANGED <<graph, warned, search>>
           \/ Build
           \/ Take /\ UNCHANGED <<nodes, terminals, graph, warned>>
           \/ Scan /\ UNCHANGED <<nodes, terminals, graph, warned>>
           \/ BuildReturn
           \/ UNCHANGED vars
BY DEF Next, AddNode, SetEntry, SetTerminal, AddEdge, AddConditionalEdge,
       AppendEdge, Search

\* What Build checked holds until it returns (builder.go:99-126).
LEMMA CheckedInductive == Spec => []Checked
<1>1. Init => Checked
  BY DEF Init, Checked
<1>2. Checked /\ [Next]_vars => Checked'
  <2> SUFFICES ASSUME Checked, [Next]_vars PROVE Checked'
    OBVIOUS
  <2>1. CASE stage = "idle" /\ UNCHANGED <<graph, warned, search>>
    BY <2>1 DEF Checked, search
  <2>2. CASE Build
    BY <2>2 DEF Build, StartSearch, Checked, EdgesChecked
  <2>3. CASE (Take \/ Scan) /\ UNCHANGED <<nodes, terminals, graph, warned>>
    BY <2>3 DEF Take, Scan, Checked, EdgesChecked
  <2>4. CASE BuildReturn
    BY <2>4 DEF BuildReturn, EndSearch, Checked
  <2>5. CASE UNCHANGED vars
    BY <2>5 DEF vars, search, Checked, EdgesChecked
  <2> QED BY <2>1, <2>2, <2>3, <2>4, <2>5, IdleOrSearch
<1> QED BY <1>1, <1>2, PTL DEF Spec

\* Taking an id off the queue moves it from the queue to the visited ids and
\* finds nothing new (builder.go:72-78).
LEMMA TakeFound ==
    ASSUME SearchTypeOK, Take PROVE Found' = Found
<1> DEFINE q == Tail(queue)
<1>1. queue \in Seq(Ids) /\ queue # <<>>
  BY DEF SearchTypeOK, Take
<1>2. /\ q \in Seq(Ids)
      /\ Len(q) = Len(queue) - 1
      /\ \A k \in 1..Len(q) : q[k] = queue[k + 1]
      /\ Head(queue) = queue[1]
      /\ Len(queue) \in Nat \ {0}
  BY <1>1
<1>3. queue' = q /\ reachable' = reachable \cup {Head(queue)}
  BY DEF Take
<1> HIDE DEF q
<1>4. ASSUME NEW x PROVE x \in Found' <=> x \in Found
  <2>1. ASSUME NEW k \in 1..Len(q), x = q[k] PROVE x \in Found
    <3>1. k + 1 \in 1..Len(queue) /\ x = queue[k + 1]
      BY <1>2, <2>1
    <3> QED BY <3>1 DEF Found
  <2>2. ASSUME NEW k \in 1..Len(queue), x = queue[k] PROVE x \in Found'
    <3>1. CASE k = 1
      BY <3>1, <1>2, <1>3, <2>2 DEF Found
    <3>2. CASE k # 1
      <4>1. k - 1 \in 1..Len(q) /\ x = q[k - 1]
        BY <1>2, <2>2, <3>2
      <4> QED BY <4>1, <1>3 DEF Found
    <3> QED BY <3>1, <3>2
  <2>3. queue[1] \in Found
    BY <1>2 DEF Found
  <2> QED BY <1>2, <1>3, <2>1, <2>2, <2>3 DEF Found
<1> QED BY <1>4

\* Following an edge finds its target and nothing else (builder.go:80-87).
LEMMA ScanFound ==
    ASSUME SearchTypeOK, Scan
    PROVE  /\ Found' = Found \/ (~ScanEnds /\ Follows(edges[at])
                                 /\ Found' = Found \cup {edges[at].to})
           /\ ~ScanEnds /\ Follows(edges[at]) => edges[at].to \in Found'
<1>1. queue \in Seq(Ids)
  BY DEF SearchTypeOK
<1>2. CASE ScanEnds \/ ~Follows(edges[at])
  BY <1>2 DEF Scan, Found
<1>3. CASE ~ScanEnds /\ Follows(edges[at])
  <2> DEFINE t == edges[at].to
             q == Append(queue, t)
  <2>1. /\ Len(q) = Len(queue) + 1
        /\ \A k \in 1..Len(queue) : q[k] = queue[k]
        /\ q[Len(queue) + 1] = t
        /\ Len(queue) \in Nat
    <3>1. at \in 1..Len(edges)
      BY <1>3 DEF ScanEnds, SearchTypeOK
    <3>2. t \in Ids
      BY <3>1, EdgeFields
    <3> HIDE DEF t
    <3> QED BY <1>1, <3>2
  <2>2. queue' = q /\ reachable' = reachable
    BY <1>3 DEF Scan
  <2> HIDE DEF t, q
  <2>3. ASSUME NEW x PROVE x \in Found' <=> x \in Found \/ x = t
    <3>1. ASSUME NEW k \in 1..Len(q), x = q[k] PROVE x \in Found \/ x = t
      <4>1. CASE k \in 1..Len(queue)
        BY <4>1, <2>1, <3>1 DEF Found
      <4>2. CASE k = Len(queue) + 1
        BY <4>2, <2>1, <3>1
      <4> QED BY <4>1, <4>2, <2>1
    <3>2. ASSUME NEW k \in 1..Len(queue), x = queue[k] PROVE x \in Found'
      <4>1. k \in 1..Len(q) /\ x = q[k]
        BY <2>1, <3>2
      <4> QED BY <4>1, <2>2 DEF Found
    <3>3. t \in Found'
      <4>1. Len(queue) + 1 \in 1..Len(q)
        BY <2>1
      <4> QED BY <4>1, <2>1, <2>2 DEF Found
    <3> QED BY <2>2, <3>1, <3>2, <3>3 DEF Found
  <2>4. Found' = Found \cup {t}
    BY <2>3
  <2> QED BY <1>3, <2>4 DEF t
<1> QED BY <1>2, <1>3

\* The loop invariant: what is found is statically reachable, and what is
\* visited has had its edges followed, up to the scan's position.
LEMMA LoopInductive == Spec => []LoopInv
<1>1. Init => LoopInv
  BY DEF Init, LoopInv
<1>2. TypeOK /\ LoopInv /\ [Next]_vars => LoopInv'
  <2> SUFFICES ASSUME TypeOK, LoopInv, [Next]_vars PROVE LoopInv'
    OBVIOUS
  <2>0. SearchTypeOK
    BY DEF TypeOK
  <2>1. CASE stage = "idle" /\ UNCHANGED <<graph, warned, search>>
    BY <2>1 DEF LoopInv, search
  <2>2. CASE Build
    <3>1. /\ stage = "idle" /\ stage' = "take" /\ queue' = <<entry>>
          /\ UNCHANGED <<entry, edges, reachable>> /\ reachable = {}
      BY <2>2 DEF Build, StartSearch, LoopInv
    <3>2. Found' = {entry}
      BY <3>1 DEF Found
    <3>3. FoundWithinReach'
      BY <3>1, <3>2 DEF FoundWithinReach
    <3>4. VisitedFollowed'
      BY <3>1 DEF VisitedFollowed
    <3> QED BY <3>1, <3>2, <3>3, <3>4 DEF LoopInv
  <2>3. CASE Take /\ UNCHANGED <<nodes, terminals, graph, warned>>
    <3>1. Found' = Found
      BY <2>0, <2>3, TakeFound
    <3>2. UNCHANGED <<entry, edges>> /\ stage = "take" /\ stage' \in {"take", "scan"}
      BY <2>3 DEF Take
    <3>3. entry \in Found /\ FoundWithinReach /\ VisitedFollowed
      BY <3>2 DEF LoopInv
    <3>4. FoundWithinReach'
      BY <3>1, <3>2, <3>3 DEF FoundWithinReach
    <3>5. VisitedFollowed'
      <4> SUFFICES ASSUME NEW j \in 1..Len(edges),
                          ~edges[j].cond, edges[j].from \in reachable'
                   PROVE  \/ edges[j].to \in Found
                          \/ stage' = "scan" /\ edges[j].from = curr' /\ at' <= j
        BY <3>1, <3>2 DEF VisitedFollowed
      <4>1. CASE edges[j].from \in reachable
        BY <4>1, <3>2, <3>3 DEF VisitedFollowed
      <4>2. CASE edges[j].from \notin reachable
        <5>1. edges[j].from = Head(queue) /\ curr' = Head(queue)
              /\ stage' = "scan" /\ at' = 1
          BY <4>2, <2>3 DEF Take
        <5> QED BY <5>1
      <4> QED BY <4>1, <4>2
    <3>6. curr' \in reachable'
      BY <2>3 DEF Take
    <3> QED BY <3>1, <3>2, <3>3, <3>4, <3>5, <3>6 DEF LoopInv
  <2>4. CASE Scan /\ UNCHANGED <<nodes, terminals, graph, warned>>
    <3>1. /\ UNCHANGED <<entry, edges, reachable, curr>>
          /\ stage = "scan" /\ stage' \in {"take", "scan"}
      BY <2>4 DEF Scan
    <3>2. entry \in Found /\ FoundWithinReach /\ VisitedFollowed /\ curr \in reachable
      BY <3>1 DEF LoopInv
    <3>3. Found \subseteq Found'
      BY <2>0, <2>4, ScanFound
    <3>4. FoundWithinReach'
      <4> SUFFICES ASSUME NEW S \in SUBSET Ids, entry \in S, ClosedUnder(edges, S)
                   PROVE  Found' \subseteq S
        BY <3>1 DEF FoundWithinReach
      <4>1. Found \subseteq S
        BY <3>2 DEF FoundWithinReach
      <4>2. ASSUME ~ScanEnds, Follows(edges[at]) PROVE edges[at].to \in S
        <5>1. at \in DOMAIN edges
          BY <4>2, <2>0 DEF ScanEnds, SearchTypeOK
        <5>2. edges[at].from \in S
          BY <4>1, <4>2, <3>2 DEF Follows, Found
        <5> QED BY <5>1, <5>2, <4>2 DEF ClosedUnder, Follows
      <4> QED BY <4>1, <4>2, <2>0, <2>4, ScanFound
    <3>5. VisitedFollowed'
      <4> SUFFICES ASSUME NEW j \in 1..Len(edges),
                          ~edges[j].cond, edges[j].from \in reachable,
                          edges[j].to \notin Found'
                   PROVE  stage' = "scan" /\ edges[j].from = curr /\ at' <= j
        BY <3>1 DEF VisitedFollowed
      <4>1. edges[j].from = curr /\ at <= j
        BY <3>1, <3>2, <3>3 DEF VisitedFollowed
      <4>2. at \in Nat /\ Len(edges) \in Nat
        BY <2>0 DEF SearchTypeOK
      <4>3. ~ScanEnds
        BY <4>1, <4>2 DEF ScanEnds
      <4>4. at # j
        BY <4>1, <4>3, <2>0, <2>4, ScanFound DEF Follows
      <4>5. at' = at + 1 /\ stage' = "scan"
        BY <4>3, <2>4 DEF Scan
      <4> QED BY <4>1, <4>2, <4>4, <4>5
    <3> QED BY <3>1, <3>2, <3>3, <3>4, <3>5 DEF LoopInv
  <2>5. CASE BuildReturn
    BY <2>5 DEF BuildReturn, EndSearch, Done, LoopInv
  <2>6. CASE UNCHANGED vars
    BY <2>6 DEF vars, search, LoopInv, Found, FoundWithinReach, VisitedFollowed
  <2> QED BY <2>1, <2>2, <2>3, <2>4, <2>5, <2>6, IdleOrSearch
<1> QED BY <1>1, <1>2, BuilderTypeCorrect, PTL DEF Spec

\* With the queue empty the visited ids are closed under the static edges, so
\* they are all that can be reached.
LEMMA LoopInvFinds ==
    ASSUME TypeOK, LoopInv PROVE FindsStaticReach
<1> SUFFICES ASSUME Done PROVE reachable = StaticReach(Ids, entry, edges)
  BY DEF FindsStaticReach
<1>1. Found = reachable
  BY DEF Done, Found
<1>2. entry \in reachable /\ FoundWithinReach /\ VisitedFollowed
  BY <1>1 DEF Done, LoopInv
<1>3. reachable \subseteq Ids /\ DOMAIN edges = 1..Len(edges)
  BY DEF TypeOK, SearchTypeOK
<1>4. ClosedUnder(edges, reachable)
  BY <1>1, <1>2, <1>3 DEF ClosedUnder, VisitedFollowed, Done
<1>5. reachable \subseteq StaticReach(Ids, entry, edges)
  BY <1>1, <1>2, <1>3 DEF FoundWithinReach, StaticReach
<1>6. StaticReach(Ids, entry, edges) \subseteq reachable
  BY <1>2, <1>3, <1>4 DEF StaticReach
<1> QED BY <1>5, <1>6

\* When the search ends it has marked exactly the ids that static edges lead
\* to from the entry, for every list of edges (builder.go:67-87).
THEOREM SearchCorrect == Spec => []FindsStaticReach
BY LoopInvFinds, LoopInductive, BuilderTypeCorrect, PTL

\* Only the end of Build touches the graph and its warnings.
LEMMA BuiltInductive == Spec => []BuiltInv
<1>1. Init => BuiltInv
  BY DEF Init, BuiltInv, Built
<1>2. TypeOK /\ Checked /\ FindsStaticReach /\ BuiltInv /\ [Next]_vars => BuiltInv'
  <2> SUFFICES ASSUME TypeOK, Checked, FindsStaticReach, BuiltInv, [Next]_vars
               PROVE  BuiltInv'
    OBVIOUS
  <2>1. CASE UNCHANGED <<graph, warned>>
    BY <2>1 DEF BuiltInv, Built
  <2>2. CASE BuildReturn
    <3>1. /\ graph' = [nodes |-> nodes, edges |-> edges, entry |-> entry,
                       terminals |-> terminals]
          /\ warned' = nodes \ reachable
          /\ Done
      BY <2>2 DEF BuildReturn, EndSearch
    <3>2. entry # NoId /\ entry \in nodes /\ EdgesChecked /\ terminals \subseteq nodes
      BY <3>1 DEF Checked, Done
    <3>3. \A i \in DOMAIN edges : edges[i].cond \in BOOLEAN
      BY EdgeFields DEF TypeOK, SearchTypeOK
    <3>4. ValidGraph(graph')
      BY <3>1, <3>2, <3>3 DEF ValidGraph, EdgesChecked
    <3>5. warned' = graph'.nodes \ StaticReach(Ids, graph'.entry, graph'.edges)
      BY <3>1 DEF FindsStaticReach
    <3> QED BY <3>1, <3>2, <3>4, <3>5 DEF BuiltInv
  <2>3. BuildReturn \/ UNCHANGED <<graph, warned>>
    BY IdleOrSearch DEF Build, vars
  <2> QED BY <2>1, <2>2, <2>3
<1> QED BY <1>1, <1>2, BuilderTypeCorrect, CheckedInductive, SearchCorrect, PTL DEF Spec

\* Every graph Build ever returned refers to registered nodes only, and has an
\* entry: the engine's GraphAssumption (builder.go:99-145).
THEOREM BuildValidates == Spec => []BuiltGraphValid
<1>1. BuiltInv => BuiltGraphValid
  BY DEF BuiltInv, BuiltGraphValid
<1> QED BY <1>1, BuiltInductive, PTL

\* A set no static edge leaves is left by no first static edge either, so the
\* engine's static path stays within what checkReachability marks.
LEMMA WalkWithinReach ==
    StaticWalk \subseteq StaticReach(Ids, graph.entry, graph.edges)
<1>1. \A S : ClosedUnder(graph.edges, S) => ClosedUnderFirst(S)
  BY DEF ClosedUnder, ClosedUnderFirst
<1> QED BY <1>1 DEF StaticWalk, StaticReach

\* A node that Build calls unreachable is not on the engine's static path
\* (builder.go:67-96 against engine.go:121-131).
THEOREM WarningsAreSound == Spec => []WarningsSound
<1>1. BuiltInv => WarningsSound
  BY WalkWithinReach DEF BuiltInv, WarningsSound
<1> QED BY <1>1, BuiltInductive, PTL
=============================================================================
