------------------------------- MODULE Engine -------------------------------
(***************************************************************************)
(* The event loop of engine/engine.go.  A run is one goroutine inside      *)
(* Engine.Start or Engine.Resume; several runs share one engine, one       *)
(* MemoryStore and one TaskStore.  A run owns its AgentState, so it is only *)
(* interrupted where it touches something shared: loading or saving the    *)
(* session, writing the task, publishing an event.  Each action below      *)
(* reaches up to one such point.                                           *)
(*                                                                         *)
(* A node's Process is user code: whatever it may return is a choice.  What *)
(* Process does inside (with its retries) touches no engine state.         *)
(***************************************************************************)
EXTENDS Graph

CONSTANTS
    Runs,           \* goroutines that call Start or Resume
    Sessions,       \* session ids; the server uses the task id as session id
    Nodes,          \* registered node ids
    Entry,          \* Graph.Entry
    Terminals,      \* Graph.Terminals
    Edges,          \* Graph.Edges, in registration order
    NoNode,         \* the empty node id
    Unregistered,   \* an id that names no node
    RouterError,    \* a router that returned an error instead of an id
    ForcedNext,     \* ids that nodes may put first in NodeResult.NextNodes
    MaxSteps,       \* Engine.maxSteps
    TaskedSessions, \* sessions whose AgentState carries a TaskID
    SerialCallers,  \* callers never run one session twice at a time
    SaveMayFail,    \* MemoryStore.Save may return an error
    MayCrash,       \* the process may die
    MaxStarts       \* model bound: Starts per session

NodeIds == Nodes \cup {NoNode, Unregistered}

\* Build hands out only valid graphs (GraphBuilder).  That no node is registered
\* under the empty id is not checked by anybody; the engine relies on it.
ASSUME GraphAssumption ==
    /\ ValidGraph([nodes |-> Nodes, edges |-> Edges, entry |-> Entry,
                   terminals |-> Terminals])
    /\ NoNode \notin Nodes /\ Unregistered \notin Nodes /\ NoNode # Unregistered
    /\ RouterError \notin NodeIds
    /\ ForcedNext \subseteq NodeIds

ASSUME EngineAssumption ==
    /\ MaxSteps \in Nat
    /\ MaxStarts \in Nat
    /\ Sessions # {}
    /\ TaskedSessions \subseteq Sessions
    /\ SerialCallers \in BOOLEAN
    /\ SaveMayFail \in BOOLEAN
    /\ MayCrash \in BOOLEAN

VARIABLES
    runs,       \* runs[r]: where goroutine r is, and the AgentState it holds
    store,      \* store[s]: the latest state MemoryStore has for session s
    tasks,      \* tasks[s]: Task.Status.State of the task with id s
    starts,     \* starts[s]: how many times Start was called on s (history)
    announced   \* announced[s]: the AgentPaused event published last for s (history)

vars == <<runs, store, tasks, starts, announced>>
-----------------------------------------------------------------------------
AgentStatus == {"Running", "Paused", "WaitingHuman", "Completed", "Failed"}

TaskState == {"submitted", "working", "input_required", "auth_required",
              "completed", "failed", "canceled", "rejected"}

MapAgentStatusToTaskState(status) ==
    CASE status = "Running"      -> "working"
      [] status = "Paused"       -> "input_required"
      [] status = "WaitingHuman" -> "input_required"
      [] status = "Completed"    -> "completed"
      [] status = "Failed"       -> "failed"
      [] OTHER                   -> "working"

\* One goroutine: pc is the next shared access it will make.  gen tells which
\* Start its state stems from and ran which node was executed last (history).
RunRecord == [pc: {"idle", "resume", "loop", "sync", "error", "decide",
                   "pause", "fail", "publish"},
              sess: Sessions, gen: Nat,
              status: AgentStatus, lastNode: NodeIds, stepCount: Nat,
              ran: NodeIds]

\* A persisted AgentState; said is the status the last node itself returned.
\* A session that was never saved has gen 0.
SavedRecord == [gen: Nat, status: AgentStatus, lastNode: NodeIds,
                stepCount: Nat, ran: NodeIds, said: AgentStatus]

Unsaved == [gen |-> 0, status |-> "Running", lastNode |-> NoNode,
            stepCount |-> 0, ran |-> NoNode, said |-> "Running"]

NewState == [status |-> "Running", lastNode |-> NoNode, stepCount |-> 0,
             ran |-> NoNode]

\* A goroutine that is in neither Start nor Resume.
IdleRun == [pc |-> "idle", sess |-> CHOOSE s \in Sessions : TRUE, gen |-> 0,
            status |-> "Running", lastNode |-> NoNode, stepCount |-> 0,
            ran |-> NoNode]

Active(r) == runs[r].pc # "idle"

\* Nothing in the engine keeps two runs off one session; SerialCallers is the
\* discipline of callers that do.
MayCall(r, s) ==
    /\ ~Active(r)
    /\ SerialCallers => \A q \in Runs : Active(q) => runs[q].sess # s

Goto(r, pc) == runs' = [runs EXCEPT ![r].pc = pc]

Return(r) == runs' = [runs EXCEPT ![r] = IdleRun]
-----------------------------------------------------------------------------
(***************************************************************************)
(* Saving.  The engine ignores Save's error wherever it goes on to return  *)
(* or to publish, so a failed Save only leaves the store as it was.        *)
(***************************************************************************)
Snapshot(r, status) ==
    [gen |-> runs[r].gen, status |-> status, lastNode |-> runs[r].lastNode,
     stepCount |-> runs[r].stepCount, ran |-> runs[r].ran,
     said |-> runs[r].status]

Save(r, status) ==
    \/ store' = [store EXCEPT ![runs[r].sess] = Snapshot(r, status)]
    \/ SaveMayFail /\ UNCHANGED store

\* state = state.WithStatus(status); Save; return
SaveAndReturn(r, status) ==
    /\ Save(r, status)
    /\ Return(r)
    /\ UNCHANGED <<tasks, starts, announced>>

\* state.LastNodeID = next, and round the loop.
LoopAt(r, next) ==
    /\ runs' = [runs EXCEPT ![r] = [@ EXCEPT !.pc = "loop", !.lastNode = next]]
    /\ UNCHANGED <<store, tasks, starts, announced>>

UpdateStatus(s, state) ==
    tasks' = IF s \in TaskedSessions THEN [tasks EXCEPT ![s] = state] ELSE tasks
-----------------------------------------------------------------------------
(***************************************************************************)
(* resolveNextNode takes the first edge registered for the node.  A static *)
(* edge leads to its target, a router to any id or to an error, and a node *)
(* without an edge to no node.                                             *)
(***************************************************************************)
resolveNextNode(n) ==
    {x \in NodeIds \cup {RouterError} :
        \/ /\ \A i \in DOMAIN Edges : Edges[i].from # n
           /\ x = NoNode
        \/ \E i \in DOMAIN Edges :
              IsFirstEdge(Edges, i, n) /\ (Edges[i].cond \/ x = Edges[i].to)}

\* Mutant: any node without a successor completes the session.
AtTerminalUnchecked(r) == r = r

AtTerminal(r) == runs[r].lastNode \in Terminals
-----------------------------------------------------------------------------
Init ==
    /\ runs = [r \in Runs |-> IdleRun]
    /\ store = [s \in Sessions |-> Unsaved]
    /\ tasks = [s \in Sessions |-> "submitted"]
    /\ starts = [s \in Sessions |-> 0]
    /\ announced = [s \in Sessions |-> [gen |-> 0, stepCount |-> 0]]

\* Engine.Start with the given initial state.  Next passes NewState, as
\* message/send does; the replay of a checkpoint (server.go:432) passes the
\* checkpoint's state, with its steps and its node, and is not modelled.
Start(r, s, initial) ==
    /\ MayCall(r, s)
    /\ starts[s] < MaxStarts
    /\ starts' = [starts EXCEPT ![s] = @ + 1]
    /\ runs' = [runs EXCEPT ![r] =
          [pc |-> "loop", sess |-> s, gen |-> starts[s] + 1,
           status |-> "Running", stepCount |-> initial.stepCount,
           lastNode |-> IF initial.lastNode = NoNode THEN Entry
                                                     ELSE initial.lastNode,
           ran |-> initial.ran]]
    /\ UNCHANGED <<store, tasks, announced>>

\* Mutant: Resume does not look at the status of what it loaded.
ResumeLoadAny(r, s) ==
    /\ MayCall(r, s)
    /\ store[s].gen > 0
    /\ runs' = [runs EXCEPT ![r] =
          [pc |-> "resume", sess |-> s, gen |-> store[s].gen,
           status |-> "Running", stepCount |-> store[s].stepCount,
           lastNode |-> store[s].lastNode, ran |-> store[s].ran]]
    /\ UNCHANGED <<store, tasks, starts, announced>>

\* Engine.Resume up to Load.  A session that is missing or not Paused is left
\* alone, so only the load of a Paused state goes anywhere.
ResumeLoad(r, s) ==
    /\ MayCall(r, s)
    /\ store[s].gen > 0
    /\ store[s].status = "Paused"
    /\ runs' = [runs EXCEPT ![r] =
          [pc |-> "resume", sess |-> s, gen |-> store[s].gen,
           status |-> "Running", stepCount |-> store[s].stepCount,
           lastNode |-> store[s].lastNode, ran |-> store[s].ran]]
    /\ UNCHANGED <<store, tasks, starts, announced>>

\* The rest of Resume: go on at the successor of LastNodeID; without one,
\* complete at a terminal node, else return an error and save nothing.
ResumeRoute(r) ==
    /\ runs[r].pc = "resume"
    /\ \E next \in resolveNextNode(runs[r].lastNode) :
          \/ /\ next \in NodeIds \ {NoNode}
             /\ LoopAt(r, next)
          \/ /\ next = NoNode
             /\ AtTerminal(r)
             /\ SaveAndReturn(r, "Completed")
          \/ /\ \/ next = NoNode /\ ~AtTerminal(r)
                \/ next = RouterError
             /\ Return(r)
             /\ UNCHANGED <<store, tasks, starts, announced>>
-----------------------------------------------------------------------------
\* Mutant: the bound is reached one step late.
OutOfStepsOffByOne(r) == runs[r].stepCount > MaxSteps

OutOfSteps(r) == runs[r].stepCount >= MaxSteps

\* Mutant: steps are not counted.
StepUncounted(r) == runs[r].stepCount

StepCounted(r) == runs[r].stepCount + 1

Finished(r) == runs[r].status \in {"Failed", "Completed"}

\* Top of the loop: a node declared the session over.
ReturnFinished(r) ==
    /\ runs[r].pc = "loop"
    /\ Finished(r)
    /\ SaveAndReturn(r, runs[r].status)

\* Top of the loop: ErrMaxStepsExceeded, or ErrNoNextNode for an unknown node.
ReturnOutOfSteps(r) ==
    /\ runs[r].pc = "loop"
    /\ ~Finished(r)
    /\ OutOfSteps(r)
    /\ SaveAndReturn(r, "Failed")

ReturnNodeMissing(r) ==
    /\ runs[r].pc = "loop"
    /\ ~Finished(r)
    /\ ~OutOfSteps(r)
    /\ runs[r].lastNode \notin Nodes
    /\ SaveAndReturn(r, "Failed")

\* Hooks, processNodeWithRetry and StepCount++.  The node errs, returns no
\* state, or returns a state whose status is its own choice.  A node that
\* returns neither a result nor an error panics at engine.go:212: nodes are
\* assumed not to.
ProcessNode(r, outcome) ==
    /\ runs[r].pc = "loop"
    /\ ~Finished(r)
    /\ ~OutOfSteps(r)
    /\ runs[r].lastNode \in Nodes
    /\ runs' = [runs EXCEPT
          ![r].stepCount = StepCounted(r),
          ![r].ran = runs[r].lastNode,
          ![r].pc = CASE outcome = "err" -> "error"
                      [] outcome = "nil" -> "decide"
                      [] OTHER           -> "sync",
          ![r].status = IF outcome \in AgentStatus THEN outcome ELSE @]
    /\ UNCHANGED <<store, tasks, starts, announced>>

\* The node erred: the task is failed first, then the error's category decides.
OnError(r) ==
    /\ runs[r].pc = "error"
    /\ UpdateStatus(runs[r].sess, "failed")
    /\ Goto(r, "pause") \/ Goto(r, "fail")
    /\ UNCHANGED <<store, starts, announced>>

\* result.State: the task gets the status that the node returned.
SyncTask(r) ==
    /\ runs[r].pc = "sync"
    /\ UpdateStatus(runs[r].sess, MapAgentStatusToTaskState(runs[r].status))
    /\ Goto(r, "decide")
    /\ UNCHANGED <<store, starts, announced>>

\* Mutant: the failure is returned but not saved.
FailUnsaved(r) ==
    /\ runs[r].pc = "fail"
    /\ Return(r)
    /\ UNCHANGED <<store, tasks, starts, announced>>

\* A node error of any category but HumanNeeded.
Fail(r) == runs[r].pc = "fail" /\ SaveAndReturn(r, "Failed")

\* Mutant: the pause is announced without having been saved.
PauseUnsaved(r) ==
    /\ runs[r].pc \in {"pause", "decide"}
    /\ Goto(r, "publish")
    /\ UNCHANGED <<store, tasks, starts, announced>>

\* Mutant: the node to run next is saved instead of the node that ran.
PauseAdvanced(r) ==
    /\ runs[r].pc \in {"pause", "decide"}
    /\ \E next \in resolveNextNode(runs[r].lastNode) \cap Nodes :
          store' = [store EXCEPT ![runs[r].sess] =
                       [Snapshot(r, "Paused") EXCEPT !.lastNode = next]]
    /\ Goto(r, "publish")
    /\ UNCHANGED <<tasks, starts, announced>>

\* HumanNeeded, or result.Interrupt: save Paused, then publish.
Pause(r) ==
    /\ runs[r].pc \in {"pause", "decide"}
    /\ Save(r, "Paused")
    /\ Goto(r, "publish")
    /\ UNCHANGED <<tasks, starts, announced>>

Publish(r) ==
    /\ runs[r].pc = "publish"
    /\ announced' = [announced EXCEPT ![runs[r].sess] =
          [gen |-> runs[r].gen, stepCount |-> runs[r].stepCount]]
    /\ Return(r)
    /\ UNCHANGED <<store, tasks, starts>>

\* No interrupt: go to NextNodes[0] when the node gave one, else follow the
\* graph.  Without a next node the session completes at a terminal node and
\* fails elsewhere; a router error fails it.
Advance(r) ==
    /\ runs[r].pc = "decide"
    /\ \E next \in ForcedNext \cup resolveNextNode(runs[r].lastNode) :
          \/ /\ next \in NodeIds \ {NoNode}
             /\ LoopAt(r, next)
          \/ /\ next = NoNode
             /\ AtTerminal(r)
             /\ SaveAndReturn(r, "Completed")
          \/ /\ \/ next = NoNode /\ ~AtTerminal(r)
                \/ next = RouterError
             /\ SaveAndReturn(r, "Failed")

\* The process dies: every run is gone, the stores keep what they have.
Crash ==
    /\ MayCrash
    /\ \E r \in Runs : Active(r)
    /\ runs' = [r \in Runs |-> IdleRun]
    /\ UNCHANGED <<store, tasks, starts, announced>>

Outcomes == {"err", "nil"} \cup AgentStatus

RunStep(r) ==
    \/ ResumeRoute(r)
    \/ ReturnFinished(r)
    \/ ReturnOutOfSteps(r)
    \/ ReturnNodeMissing(r)
    \/ \E outcome \in Outcomes : ProcessNode(r, outcome)
    \/ OnError(r)
    \/ SyncTask(r)
    \/ Fail(r)
    \/ Pause(r)
    \/ Publish(r)
    \/ Advance(r)

Next ==
    \/ \E r \in Runs, s \in Sessions : Start(r, s, NewState) \/ ResumeLoad(r, s)
    \/ \E r \in Runs : RunStep(r)
    \/ Crash

\* The Go scheduler runs every goroutine that can run, nodes are assumed to
\* return, and Save, UpdateStatus and Publish to come back.  Nobody has to call
\* Start or Resume.
Fairness == \A r \in Runs : WF_vars(RunStep(r))

Spec == Init /\ [][Next]_vars

FairSpec == Spec /\ Fairness
-----------------------------------------------------------------------------
(***************************************************************************)
(* Properties.                                                             *)
(***************************************************************************)
Idle(s) == \A r \in Runs : Active(r) => runs[r].sess # s

\* Every record keeps its shape, and neither a running nor a persisted state
\* ever counts more steps than maxSteps, however often it is paused, resumed
\* or started again (engine.go:157, 177, 215).
TypeOK ==
    /\ runs \in [Runs -> RunRecord]
    /\ store \in [Sessions -> SavedRecord]
    /\ tasks \in [Sessions -> TaskState]
    /\ starts \in [Sessions -> Nat]
    /\ announced \in [Sessions -> [gen: Nat, stepCount: Nat]]
    /\ \A r \in Runs : runs[r].stepCount <= MaxSteps
    /\ \A s \in Sessions : store[s].stepCount <= MaxSteps

\* LastNodeID means "the node that ran" in a Paused state and "the node to run"
\* inside the loop.  Resume looks up the successor of LastNodeID, so a Paused
\* state must name the node that was executed last, on every way to pause.
PausedAtExecutedNode ==
    \A s \in Sessions :
        store[s].status = "Paused" =>
            /\ store[s].lastNode \in Nodes
            /\ store[s].lastNode = store[s].ran

\* The engine on its own completes a session only at a terminal node that was
\* executed; any other Completed was declared by the node that ran last.
CompletedOnlyWhenDone ==
    \A s \in Sessions :
        store[s].status = "Completed" =>
            \/ store[s].said = "Completed"
            \/ /\ store[s].lastNode \in Terminals
               /\ store[s].lastNode = store[s].ran

\* The store tells what became of the latest Start of s.
Settled(s) ==
    /\ store[s].gen = starts[s]
    /\ store[s].status \in {"Paused", "Completed", "Failed"}

\* Once nobody runs a started session, the store tells what became of its
\* latest Start: it is over, or it is Paused and Resume can take it up.
SettledWhenIdle ==
    \A s \in Sessions : Idle(s) /\ starts[s] > 0 => Settled(s)

\* A subscriber that answers AgentPaused with Resume finds what it needs: the
\* announced pause, or something later of that session, is in the store.
AnnouncedIsDurable ==
    \A s \in Sessions :
        \/ store[s].gen > announced[s].gen
        \/ /\ store[s].gen = announced[s].gen
           /\ store[s].stepCount >= announced[s].stepCount

\* Every Start and every Resume returns: MaxSteps cuts each cycle of the graph.
RunsReturn == \A r \in Runs : Active(r) ~> ~Active(r)

\* What readers of the MemoryStore may rely on, when callers are serial: the
\* session's records follow SessionLifecycle, so a stale or repeated Resume
\* never revives a finished session and never rewinds its steps.
Lifecycle == INSTANCE SessionLifecycle WITH
    saved <- [s \in Sessions |-> [gen |-> store[s].gen,
                                  status |-> store[s].status,
                                  stepCount |-> store[s].stepCount]]

ImplementsLifecycle == Lifecycle!Spec

\* Phase3.md, module 24: a pause of the engine shows as input_required in the
\* task store.
PausedTaskAwaitsInput ==
    \A s \in TaskedSessions :
        Idle(s) /\ store[s].status = "Paused" => tasks[s] = "input_required"
-----------------------------------------------------------------------------
(***************************************************************************)
(* Inductive strengthenings that the proofs in EngineProofs rest on.       *)
(***************************************************************************)

\* After Process and until the loop moves on, LastNodeID is the node that ran;
\* so it is in a state that Resume loaded and has not yet routed.
RunAtExecutedNode ==
    \A r \in Runs :
        runs[r].pc \notin {"idle", "loop"} =>
            runs[r].lastNode \in Nodes /\ runs[r].lastNode = runs[r].ran

PositionInv ==
    PausedAtExecutedNode /\ RunAtExecutedNode /\ CompletedOnlyWhenDone

\* Serial callers: at most one run works on a session.
OneRunPerSession ==
    \A q, r \in Runs :
        Active(q) /\ Active(r) /\ runs[q].sess = runs[r].sess => q = r

\* A run that has yet to save is ahead of the store: it continues the Paused
\* record it was loaded from, or it belongs to a later start.
RunAheadOfStore ==
    \A r \in Runs :
        LET saved == store[runs[r].sess] IN
        Active(r) /\ runs[r].pc # "publish" =>
            /\ runs[r].gen > 0
            /\ saved.gen <= runs[r].gen
            /\ saved.gen = runs[r].gen =>
                  saved.status = "Paused" /\ saved.stepCount <= runs[r].stepCount

GenBounded ==
    /\ \A s \in Sessions : store[s].gen <= starts[s]
    /\ \A r \in Runs : Active(r) => runs[r].gen <= starts[runs[r].sess]

SerialInv == OneRunPerSession /\ RunAheadOfStore /\ GenBounded

\* Serial callers, no crash, a store that does not fail: a session is settled,
\* or the run of its latest start is still to save.
AccountedFor ==
    /\ \A r \in Runs : Active(r) => runs[r].gen = starts[runs[r].sess]
    /\ \A s \in Sessions :
          \/ starts[s] = 0
          \/ Settled(s)
          \/ \E r \in Runs : /\ runs[r].sess = s
                             /\ runs[r].pc \notin {"idle", "publish", "resume"}

\* Serial callers and a store that does not fail: a run about to publish is in
\* the store, and the latest event of a session is never ahead of the store.
PublishAfterSave ==
    \A r \in Runs :
        runs[r].pc = "publish" =>
            /\ store[runs[r].sess].gen = runs[r].gen
            /\ store[runs[r].sess].stepCount = runs[r].stepCount
=============================================================================
