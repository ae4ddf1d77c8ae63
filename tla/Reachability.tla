---------------------------- MODULE Reachability ----------------------------
(***************************************************************************)
(* Builder.checkReachability of graph/builder.go, loop by loop: a queue of  *)
(* ids, a set of visited ones, and for each newly visited id a scan of all *)
(* edges.  GraphBuilder runs it inside Build.                              *)
(***************************************************************************)
EXTENDS Graph

CONSTANT Ids    \* node ids that callers use, the empty id among them

VARIABLES
    entry, edges,   \* Builder's fields
    stage,          \* "idle", "take" in the outer loop, "scan" in the inner one
    queue,          \* ids found and not yet looked at
    reachable,      \* ids looked at
    curr,           \* the id whose edges are being scanned
    at              \* index of the edge to scan next

search == <<stage, queue, reachable, curr, at>>

StartSearch ==
    /\ stage = "idle"
    /\ stage' = "take"
    /\ queue' = <<entry>>
    /\ UNCHANGED <<entry, edges, reachable, curr, at>>

\* Mutant: a visited id is skipped before it is taken off the queue.
TakeKeeps ==
    /\ stage = "take"
    /\ queue # <<>>
    /\ curr' = Head(queue)
    /\ queue' = IF Head(queue) \in reachable THEN queue ELSE Tail(queue)
    /\ reachable' = reachable \cup {Head(queue)}
    /\ stage' = IF Head(queue) \in reachable THEN "take" ELSE "scan"
    /\ at' = 1
    /\ UNCHANGED <<entry, edges>>

\* curr := queue[0]; a visited id is skipped, any other is marked and scanned.
Take ==
    /\ stage = "take"
    /\ queue # <<>>
    /\ curr' = Head(queue)
    /\ queue' = Tail(queue)
    /\ reachable' = reachable \cup {Head(queue)}
    /\ stage' = IF Head(queue) \in reachable THEN "take" ELSE "scan"
    /\ at' = 1
    /\ UNCHANGED <<entry, edges>>

\* Mutant: conditional edges are followed too, to an id they do not name.
FollowsAny(e) == e.from = curr

Follows(e) == e.from = curr /\ ~e.cond

ScanEnds == at > Len(edges)

\* One edge of the inner loop, or its end.
Scan ==
    /\ stage = "scan"
    /\ \/ /\ ScanEnds
          /\ stage' = "take"
          /\ UNCHANGED <<queue, at>>
       \/ /\ ~ScanEnds
          /\ at' = at + 1
          /\ queue' = IF Follows(edges[at]) THEN Append(queue, edges[at].to)
                                            ELSE queue
          /\ UNCHANGED stage
    /\ UNCHANGED <<entry, edges, reachable, curr>>

Done == stage = "take" /\ queue = <<>>

\* The locals go out of scope.
EndSearch ==
    /\ Done
    /\ stage' = "idle"
    /\ reachable' = {}
    /\ curr' = entry
    /\ at' = 1
    /\ UNCHANGED <<entry, edges, queue>>
-----------------------------------------------------------------------------
\* When the loop ends it has marked exactly the nodes static edges lead to,
\* cycles, duplicate edges and self-loops included (builder.go:68-87).
FindsStaticReach == Done => reachable = StaticReach(Ids, entry, edges)
-----------------------------------------------------------------------------
(***************************************************************************)
(* The loop invariant.                                                     *)
(***************************************************************************)
SearchTypeOK ==
    /\ entry \in Ids
    /\ edges \in Seq(EdgeOf(Ids))
    /\ stage \in {"idle", "take", "scan"}
    /\ queue \in Seq(Ids)
    /\ reachable \subseteq Ids
    /\ curr \in Ids
    /\ at \in Nat \ {0}

Found == reachable \cup {queue[k] : k \in 1..Len(queue)}

\* Nothing is found that static edges do not lead to.
FoundWithinReach ==
    \A S \in SUBSET Ids : entry \in S /\ ClosedUnder(edges, S) => Found \subseteq S

\* A static edge out of a visited id has been followed, unless it is one of
\* those the current scan still has ahead.
VisitedFollowed ==
    \A j \in 1..Len(edges) :
        ~edges[j].cond /\ edges[j].from \in reachable =>
            \/ edges[j].to \in Found
            \/ stage = "scan" /\ edges[j].from = curr /\ at <= j

LoopInv ==
    /\ stage = "idle" => queue = <<>> /\ reachable = {}
    /\ stage # "idle" =>
          /\ entry \in Found
          /\ FoundWithinReach
          /\ VisitedFollowed
    /\ stage = "scan" => curr \in reachable
=============================================================================
