---------------------------- MODULE EngineProofs ----------------------------
(***************************************************************************)
(* Proofs about Engine, for every graph, every number of goroutines and    *)
(* sessions and every bound.                                               *)
(***************************************************************************)
EXTENDS Engine, TLAPS

\* What a valid graph (graph/builder.go, Build) means for the engine's constants.
LEMMA GraphFacts ==
    /\ NoNode \notin Nodes /\ Unregistered \notin Nodes /\ NoNode # Unregistered
    /\ RouterError \notin NodeIds
    /\ Entry \in Nodes
    /\ Terminals \subseteq Nodes
    /\ ForcedNext \subseteq NodeIds
    /\ \A i \in DOMAIN Edges :
          /\ Edges[i].from \in Nodes
          /\ Edges[i].cond \in BOOLEAN
          /\ ~Edges[i].cond => Edges[i].to \in Nodes
  BY GraphAssumption DEF ValidGraph

USE GraphFacts, EngineAssumption

\* A goroutine outside Start and Resume has a well-formed record.
LEMMA IdleRunType ==
    /\ IdleRun \in RunRecord
    /\ IdleRun.pc = "idle"
    /\ IdleRun.stepCount = 0
<1>1. (CHOOSE s \in Sessions : TRUE) \in Sessions
    OBVIOUS
<1> QED
    BY <1>1 DEF IdleRun, RunRecord, NodeIds, AgentStatus

\* Every agent status has a task state (task.go:51-67).
LEMMA MapType ==
    ASSUME NEW st \in AgentStatus
    PROVE  MapAgentStatusToTaskState(st) \in TaskState
BY DEF MapAgentStatusToTaskState, AgentStatus, TaskState

\* What a run would save is a record within the step limit.
LEMMA SnapshotType ==
    ASSUME TypeOK, NEW r \in Runs, NEW st \in AgentStatus
    PROVE  /\ Snapshot(r, st) \in SavedRecord
           /\ Snapshot(r, st).stepCount <= MaxSteps
BY DEF TypeOK, Snapshot, SavedRecord, RunRecord

\* A Save, done or failed, keeps the shape of the store and its step limit.
LEMMA SaveType ==
    ASSUME TypeOK, NEW r \in Runs, NEW st \in AgentStatus, Save(r, st)
    PROVE  /\ store' \in [Sessions -> SavedRecord]
           /\ \A s \in Sessions : store'[s].stepCount <= MaxSteps
<1>1. runs[r].sess \in Sessions
    BY DEF TypeOK, RunRecord
<1>2. CASE UNCHANGED store
    BY <1>2 DEF TypeOK
<1>3. CASE store' = [store EXCEPT ![runs[r].sess] = Snapshot(r, st)]
    BY <1>1, <1>3, SnapshotType DEF TypeOK
<1> QED
    BY <1>2, <1>3 DEF Save

\* The ends of runLoop that save and return keep every record in shape.
LEMMA SaveAndReturnType ==
    ASSUME TypeOK, NEW r \in Runs, NEW st \in AgentStatus, SaveAndReturn(r, st)
    PROVE  TypeOK'
BY SaveType, IdleRunType DEF TypeOK, SaveAndReturn, Return

\* Moving on inside runLoop keeps the records of all runs in shape.
LEMMA GotoType ==
    ASSUME TypeOK, NEW r \in Runs,
           NEW pc \in {"idle", "resume", "loop", "sync", "error", "decide",
                       "pause", "fail", "publish"}, Goto(r, pc)
    PROVE  /\ runs' \in [Runs -> RunRecord]
           /\ \A q \in Runs : runs'[q].stepCount <= MaxSteps
BY DEF TypeOK, RunRecord, Goto

\* Going round the loop at any id a router or a node names keeps the records
\* in shape (engine.go:274).
LEMMA LoopAtType ==
    ASSUME TypeOK, NEW r \in Runs, NEW next \in NodeIds, LoopAt(r, next)
    PROVE  TypeOK'
<1> DEFINE moved == [runs[r] EXCEPT !.pc = "loop", !.lastNode = next]
<1>1. runs[r] \in RunRecord
    BY DEF TypeOK
<1>2. moved \in RunRecord /\ moved.stepCount = runs[r].stepCount
  <2>1. moved \in RunRecord
      BY <1>1 DEF RunRecord
  <2>2. moved.stepCount = runs[r].stepCount
      BY <1>1 DEF RunRecord
  <2> QED
      BY <2>1, <2>2
<1>3. runs' = [runs EXCEPT ![r] = moved]
    BY DEF LoopAt, TypeOK
<1> QED
    BY <1>2, <1>3 DEF LoopAt, TypeOK

(***************************************************************************)
(* Type correctness, which includes the bound on the step counts of running *)
(* and of persisted states (engine.go:157).                                *)
(***************************************************************************)
THEOREM TypeCorrect == Spec => []TypeOK
<1>1. Init => TypeOK
    BY IdleRunType DEF Init, TypeOK, Unsaved, SavedRecord, AgentStatus, NodeIds,
                       TaskState
<1>2. TypeOK /\ [Next]_vars => TypeOK'
  <2> SUFFICES ASSUME TypeOK, [Next]_vars PROVE TypeOK'
      OBVIOUS
  <2>1. ASSUME NEW r \in Runs, NEW s \in Sessions, Start(r, s, NewState)
        PROVE  TypeOK'
      BY <2>1 DEF TypeOK, Start, NewState, RunRecord, NodeIds, AgentStatus
  <2>2. ASSUME NEW r \in Runs, NEW s \in Sessions, ResumeLoad(r, s)
        PROVE  TypeOK'
      BY <2>2 DEF TypeOK, ResumeLoad, RunRecord, SavedRecord, AgentStatus
  <2>3. ASSUME NEW r \in Runs, ResumeRoute(r) PROVE TypeOK'
    <3>1. PICK next \in resolveNextNode(runs[r].lastNode) :
             \/ next \in NodeIds /\ LoopAt(r, next)
             \/ SaveAndReturn(r, "Completed")
             \/ Return(r) /\ UNCHANGED <<store, tasks, starts, announced>>
        BY <2>3 DEF ResumeRoute
    <3>2. CASE next \in NodeIds /\ LoopAt(r, next)
        BY <3>2, LoopAtType
    <3>3. CASE SaveAndReturn(r, "Completed")
        BY <3>3, SaveAndReturnType DEF AgentStatus
    <3>4. CASE Return(r) /\ UNCHANGED <<store, tasks, starts, announced>>
        BY <3>4, IdleRunType DEF TypeOK, Return
    <3> QED
        BY <3>1, <3>2, <3>3, <3>4
  <2>4. ASSUME NEW r \in Runs,
               ReturnFinished(r) \/ ReturnOutOfSteps(r) \/ ReturnNodeMissing(r)
                 \/ Fail(r)
        PROVE  TypeOK'
      BY <2>4, SaveAndReturnType DEF ReturnFinished, ReturnOutOfSteps,
            ReturnNodeMissing, Fail, Finished, AgentStatus
  <2>5. ASSUME NEW r \in Runs, NEW outcome \in Outcomes, ProcessNode(r, outcome)
        PROVE  TypeOK'
    <3>1. runs[r].stepCount + 1 <= MaxSteps
        BY <2>5 DEF ProcessNode, OutOfSteps, TypeOK, RunRecord
    <3>2. runs'[r] \in RunRecord /\ runs'[r].stepCount = runs[r].stepCount + 1
        BY <2>5 DEF ProcessNode, TypeOK, RunRecord, Outcomes, StepCounted, NodeIds
    <3>3. runs' = [runs EXCEPT ![r] = runs'[r]]
        BY <2>5 DEF ProcessNode, TypeOK, RunRecord
    <3> QED
        BY <2>5, <3>1, <3>2, <3>3 DEF ProcessNode, TypeOK
  <2>6. ASSUME NEW r \in Runs, OnError(r) PROVE TypeOK'
    <3>1. tasks' \in [Sessions -> TaskState]
        BY <2>6 DEF OnError, UpdateStatus, TypeOK, TaskState
    <3> QED
        BY <2>6, <3>1, GotoType DEF OnError, TypeOK
  <2>7. ASSUME NEW r \in Runs, SyncTask(r) PROVE TypeOK'
    <3>1. runs[r].status \in AgentStatus
        BY DEF TypeOK, RunRecord
    <3>2. tasks' \in [Sessions -> TaskState]
        BY <2>7, <3>1, MapType DEF SyncTask, UpdateStatus, TypeOK
    <3> QED
        BY <2>7, <3>2, GotoType DEF SyncTask, TypeOK
  <2>8. ASSUME NEW r \in Runs, Pause(r) PROVE TypeOK'
    <3>1. "Paused" \in AgentStatus
        BY DEF AgentStatus
    <3> QED
        BY <2>8, <3>1, SaveType, GotoType DEF Pause, TypeOK
  <2>9. ASSUME NEW r \in Runs, Publish(r) PROVE TypeOK'
    <3>1. announced' \in [Sessions -> [gen: Nat, stepCount: Nat]]
        BY <2>9 DEF Publish, TypeOK, RunRecord
    <3> QED
        BY <2>9, <3>1, IdleRunType DEF Publish, Return, TypeOK
  <2>10. ASSUME NEW r \in Runs, Advance(r) PROVE TypeOK'
    <3>1. PICK next :
             \/ next \in NodeIds /\ LoopAt(r, next)
             \/ SaveAndReturn(r, "Completed")
             \/ SaveAndReturn(r, "Failed")
        BY <2>10 DEF Advance
    <3>2. CASE next \in NodeIds /\ LoopAt(r, next)
        BY <3>2, LoopAtType
    <3>3. CASE SaveAndReturn(r, "Completed") \/ SaveAndReturn(r, "Failed")
        BY <3>3, SaveAndReturnType DEF AgentStatus
    <3> QED
        BY <3>1, <3>2, <3>3
  <2>11. CASE Crash
      BY <2>11, IdleRunType DEF Crash, TypeOK
  <2>12. CASE UNCHANGED vars
      BY <2>12 DEF vars, TypeOK
  <2> QED
      BY <2>1, <2>2, <2>3, <2>4, <2>5, <2>6, <2>7, <2>8, <2>9, <2>10, <2>11,
         <2>12 DEF Next, RunStep
<1> QED
    BY <1>1, <1>2, PTL DEF Spec
-----------------------------------------------------------------------------
(***************************************************************************)
(* What a step does to the goroutine that takes it, field by field, and to *)
(* the others: nothing.                                                    *)
(***************************************************************************)
LEMMA GotoEffect ==
    ASSUME TypeOK, NEW r \in Runs, NEW pc, Goto(r, pc)
    PROVE  /\ \A q \in Runs : q # r => runs'[q] = runs[q]
           /\ runs'[r].pc = pc
           /\ runs'[r].sess = runs[r].sess
           /\ runs'[r].gen = runs[r].gen
           /\ runs'[r].stepCount = runs[r].stepCount
           /\ runs'[r].lastNode = runs[r].lastNode
           /\ runs'[r].ran = runs[r].ran
<1>1. runs[r] \in RunRecord
    BY DEF TypeOK
<1>2. runs' = [runs EXCEPT ![r] = [runs[r] EXCEPT !.pc = pc]]
    BY DEF Goto, TypeOK
<1> QED
    BY <1>1, <1>2 DEF TypeOK, RunRecord

\* What going round the loop changes: the position of this run, nothing else.
LEMMA LoopAtEffect ==
    ASSUME TypeOK, NEW r \in Runs, NEW next, LoopAt(r, next)
    PROVE  /\ \A q \in Runs : q # r => runs'[q] = runs[q]
           /\ runs'[r].pc = "loop"
           /\ runs'[r].sess = runs[r].sess
           /\ runs'[r].gen = runs[r].gen
           /\ runs'[r].stepCount = runs[r].stepCount
<1> DEFINE moved == [runs[r] EXCEPT !.pc = "loop", !.lastNode = next]
<1>1. runs[r] \in RunRecord
    BY DEF TypeOK
<1>2. /\ moved.pc = "loop"
      /\ moved.sess = runs[r].sess
      /\ moved.gen = runs[r].gen
      /\ moved.stepCount = runs[r].stepCount
    BY <1>1 DEF RunRecord
<1>3. runs' = [runs EXCEPT ![r] = moved]
    BY DEF LoopAt, TypeOK
<1> QED
    BY <1>2, <1>3 DEF TypeOK

\* After Process the run stands at the node that ran (engine.go:175-177).
LEMMA ProcessEffect ==
    ASSUME TypeOK, NEW r \in Runs, NEW outcome \in Outcomes,
           ProcessNode(r, outcome)
    PROVE  /\ \A q \in Runs : q # r => runs'[q] = runs[q]
           /\ runs'[r].pc \in {"error", "decide", "sync"}
           /\ runs'[r].sess = runs[r].sess
           /\ runs'[r].gen = runs[r].gen
           /\ runs'[r].stepCount = runs[r].stepCount + 1
           /\ runs'[r].lastNode = runs[r].lastNode
           /\ runs'[r].ran = runs[r].lastNode
           /\ runs[r].lastNode \in Nodes
BY DEF ProcessNode, TypeOK, RunRecord, Outcomes, StepCounted

\* A run that returns is idle and the others are where they were.
LEMMA ReturnEffect ==
    ASSUME TypeOK, NEW r \in Runs, Return(r)
    PROVE  /\ \A q \in Runs : q # r => runs'[q] = runs[q]
           /\ runs'[r].pc = "idle"
BY IdleRunType DEF Return, TypeOK

\* Save writes the snapshot of this run to its own session, or nothing.
LEMMA SaveEffect ==
    ASSUME TypeOK, NEW r \in Runs, NEW st, Save(r, st)
    PROVE  /\ runs[r].sess \in Sessions
           /\ \A s \in Sessions : s # runs[r].sess => store'[s] = store[s]
           /\ \/ store'[runs[r].sess] = Snapshot(r, st)
              \/ SaveMayFail /\ store' = store
BY DEF Save, TypeOK, RunRecord
-----------------------------------------------------------------------------
(***************************************************************************)
(* Where a persisted session stands.                                       *)
(***************************************************************************)
LEMMA SavedPosition ==
    ASSUME TypeOK, PositionInv, NEW r \in Runs, NEW st \in AgentStatus,
           Save(r, st),
           st = "Paused" =>
              runs[r].lastNode \in Nodes /\ runs[r].lastNode = runs[r].ran,
           st = "Completed" =>
              \/ runs[r].status = "Completed"
              \/ runs[r].lastNode \in Terminals /\ runs[r].lastNode = runs[r].ran
    PROVE  PausedAtExecutedNode' /\ CompletedOnlyWhenDone'
<1>1. /\ Snapshot(r, st).status = st
      /\ Snapshot(r, st).lastNode = runs[r].lastNode
      /\ Snapshot(r, st).ran = runs[r].ran
      /\ Snapshot(r, st).said = runs[r].status
    BY DEF Snapshot
<1> QED
    BY <1>1, SaveEffect DEF PositionInv, PausedAtExecutedNode,
                            CompletedOnlyWhenDone

\* A return disturbs the position of no other run.
LEMMA ReturnPosition ==
    ASSUME TypeOK, RunAtExecutedNode, NEW r \in Runs, Return(r)
    PROVE  RunAtExecutedNode'
BY ReturnEffect DEF RunAtExecutedNode

\* A step between Process and the decision keeps LastNodeID on the executed node.
LEMMA GotoPosition ==
    ASSUME TypeOK, RunAtExecutedNode, NEW r \in Runs, NEW pc, Goto(r, pc),
           runs[r].pc \notin {"idle", "loop"}
    PROVE  RunAtExecutedNode'
BY GotoEffect DEF RunAtExecutedNode

\* At the top of the loop LastNodeID is the node to run; nothing is claimed then.
LEMMA LoopAtPosition ==
    ASSUME TypeOK, PositionInv, NEW r \in Runs, NEW next, LoopAt(r, next)
    PROVE  PositionInv'
<1>1. RunAtExecutedNode'
    BY LoopAtEffect DEF PositionInv, RunAtExecutedNode
<1> QED
    BY <1>1 DEF LoopAt, PositionInv, PausedAtExecutedNode, CompletedOnlyWhenDone

\* Every step of every run keeps LastNodeID right, action by action.
LEMMA PositionStep == TypeOK /\ PositionInv /\ [Next]_vars => PositionInv'
<1> SUFFICES ASSUME TypeOK, PositionInv, [Next]_vars PROVE PositionInv'
    OBVIOUS
<1> USE DEF PositionInv
<1>1. ASSUME store' = store PROVE PausedAtExecutedNode' /\ CompletedOnlyWhenDone'
    BY <1>1 DEF PausedAtExecutedNode, CompletedOnlyWhenDone
<1>2. ASSUME NEW r \in Runs, NEW s \in Sessions, Start(r, s, NewState)
      PROVE  PositionInv'
  <2>1. RunAtExecutedNode'
      BY <1>2 DEF Start, TypeOK, RunAtExecutedNode
  <2> QED
      BY <1>1, <1>2, <2>1 DEF Start
<1>3. ASSUME NEW r \in Runs, NEW s \in Sessions, ResumeLoad(r, s)
      PROVE  PositionInv'
  <2>1. RunAtExecutedNode'
      BY <1>3 DEF ResumeLoad, TypeOK, RunAtExecutedNode, PausedAtExecutedNode
  <2> QED
      BY <1>1, <1>3, <2>1 DEF ResumeLoad
<1>4. ASSUME NEW r \in Runs, ResumeRoute(r) PROVE PositionInv'
  <2>1. runs[r].lastNode \in Nodes /\ runs[r].lastNode = runs[r].ran
      BY <1>4 DEF ResumeRoute, RunAtExecutedNode
  <2>2. CASE \E next : LoopAt(r, next)
      BY <2>2, LoopAtPosition
  <2>3. CASE AtTerminal(r) /\ SaveAndReturn(r, "Completed")
      BY <2>1, <2>3, SavedPosition, ReturnPosition
         DEF AtTerminal, SaveAndReturn, AgentStatus
  <2>4. CASE Return(r) /\ UNCHANGED store
      BY <1>1, <2>4, ReturnPosition
  <2> QED
      BY <1>4, <2>2, <2>3, <2>4 DEF ResumeRoute
<1>5. ASSUME NEW r \in Runs,
             ReturnFinished(r) \/ ReturnOutOfSteps(r) \/ ReturnNodeMissing(r)
               \/ Fail(r)
      PROVE  PositionInv'
    BY <1>5, SavedPosition, ReturnPosition DEF ReturnFinished, ReturnOutOfSteps,
          ReturnNodeMissing, Fail, Finished, SaveAndReturn, AgentStatus
<1>6. ASSUME NEW r \in Runs, NEW outcome \in Outcomes, ProcessNode(r, outcome)
      PROVE  PositionInv'
  <2>1. RunAtExecutedNode'
      BY <1>6, ProcessEffect DEF RunAtExecutedNode
  <2> QED
      BY <1>1, <1>6, <2>1 DEF ProcessNode
<1>7. ASSUME NEW r \in Runs, OnError(r) \/ SyncTask(r) PROVE PositionInv'
    BY <1>1, <1>7, GotoPosition DEF OnError, SyncTask
<1>8. ASSUME NEW r \in Runs, Pause(r) PROVE PositionInv'
  <2>1. runs[r].lastNode \in Nodes /\ runs[r].lastNode = runs[r].ran
      BY <1>8 DEF Pause, RunAtExecutedNode
  <2>2. PausedAtExecutedNode' /\ CompletedOnlyWhenDone'
      BY <1>8, <2>1, SavedPosition DEF Pause, AgentStatus
  <2> QED
      BY <1>8, <2>2, GotoPosition DEF Pause
<1>9. ASSUME NEW r \in Runs, Publish(r) PROVE PositionInv'
    BY <1>1, <1>9, ReturnPosition DEF Publish
<1>10. ASSUME NEW r \in Runs, Advance(r) PROVE PositionInv'
  <2>1. runs[r].lastNode \in Nodes /\ runs[r].lastNode = runs[r].ran
      BY <1>10 DEF Advance, RunAtExecutedNode
  <2>2. CASE \E next : LoopAt(r, next)
      BY <2>2, LoopAtPosition
  <2>3. CASE AtTerminal(r) /\ SaveAndReturn(r, "Completed")
      BY <2>1, <2>3, SavedPosition, ReturnPosition
         DEF AtTerminal, SaveAndReturn, AgentStatus
  <2>4. CASE SaveAndReturn(r, "Failed")
      BY <2>4, SavedPosition, ReturnPosition DEF SaveAndReturn, AgentStatus
  <2> QED
      BY <1>10, <2>2, <2>3, <2>4 DEF Advance
<1>11. CASE Crash
    BY <1>1, <1>11, IdleRunType DEF Crash, RunAtExecutedNode
<1>12. CASE UNCHANGED vars
  <2>1. RunAtExecutedNode'
      BY <1>12 DEF vars, RunAtExecutedNode
  <2> QED
      BY <1>1, <1>12, <2>1 DEF vars
<1> QED
    BY <1>2, <1>3, <1>4, <1>5, <1>6, <1>7, <1>8, <1>9, <1>10, <1>11, <1>12
       DEF Next, RunStep

\* Stored and held positions are right in every reachable state.
LEMMA PositionInvariant == Spec => []PositionInv
<1>1. Init => PositionInv
    BY IdleRunType DEF Init, Unsaved, PositionInv, PausedAtExecutedNode,
                       RunAtExecutedNode, CompletedOnlyWhenDone
<1> QED
    BY <1>1, TypeCorrect, PositionStep, PTL DEF Spec

(***************************************************************************)
(* A Paused record names the node that was executed last, whatever races,  *)
(* crashes or failed saves happen: Resume's lookup of the successor of      *)
(* LastNodeID (engine.go:105) starts from the right node.                  *)
(***************************************************************************)
THEOREM PausedPosition == Spec => []PausedAtExecutedNode
BY PositionInvariant, PTL DEF PositionInv

(***************************************************************************)
(* The engine by itself completes a session only at an executed terminal   *)
(* node (engine.go:110, 264).                                              *)
(***************************************************************************)
THEOREM CompletionPosition == Spec => []CompletedOnlyWhenDone
BY PositionInvariant, PTL DEF PositionInv
-----------------------------------------------------------------------------
(***************************************************************************)
(* Serial callers.  OneRunPerSession makes a run the only writer of its    *)
(* session, RunAheadOfStore says what its next save may replace.           *)
(***************************************************************************)

\* A step that keeps the run going and leaves the store alone.
LEMMA SerialLocal ==
    ASSUME TypeOK, SerialInv, TypeOK', NEW r \in Runs, Active(r),
           store' = store, starts' = starts,
           \A q \in Runs : q # r => runs'[q] = runs[q],
           runs'[r].sess = runs[r].sess,
           runs'[r].gen = runs[r].gen,
           runs'[r].stepCount >= runs[r].stepCount,
           runs[r].pc # "publish"
    PROVE  SerialInv'
<1> USE DEF SerialInv, Active
<1>1. OneRunPerSession'
    BY DEF OneRunPerSession
<1>2. GenBounded'
    BY DEF GenBounded
<1>3. ASSUME NEW q \in Runs, Active(q)', runs'[q].pc # "publish"
      PROVE  LET saved == store[runs'[q].sess] IN
             /\ runs'[q].gen > 0
             /\ saved.gen <= runs'[q].gen
             /\ saved.gen = runs'[q].gen =>
                  saved.status = "Paused" /\ saved.stepCount <= runs'[q].stepCount
  <2>1. CASE q # r
      BY <1>3, <2>1 DEF RunAheadOfStore
  <2>2. CASE q = r
    <3>1. /\ runs[r].gen > 0
          /\ store[runs[r].sess].gen <= runs[r].gen
          /\ store[runs[r].sess].gen = runs[r].gen =>
                /\ store[runs[r].sess].status = "Paused"
                /\ store[runs[r].sess].stepCount <= runs[r].stepCount
        BY DEF RunAheadOfStore
    <3>2. /\ runs[r].stepCount \in Nat /\ runs'[r].stepCount \in Nat
          /\ store[runs[r].sess].stepCount \in Nat
        BY DEF TypeOK, RunRecord, SavedRecord
    <3> QED
        BY <2>2, <3>1, <3>2
  <2> QED
      BY <2>1, <2>2
<1> QED
    BY <1>1, <1>2, <1>3 DEF RunAheadOfStore

\* A run that ends, or that has nothing left but to publish.
LEMMA SerialEnd ==
    ASSUME TypeOK, SerialInv, NEW r \in Runs, Active(r),
           starts' = starts,
           \A q \in Runs : q # r => runs'[q] = runs[q],
           \/ runs'[r].pc = "idle"
           \/ /\ runs'[r].pc = "publish"
              /\ runs'[r].sess = runs[r].sess
              /\ runs'[r].gen = runs[r].gen,
           \/ store' = store
           \/ runs[r].pc # "publish" /\ \E st : Save(r, st)
    PROVE  SerialInv'
<1> USE DEF SerialInv, Active
<1>1. OneRunPerSession'
    BY DEF OneRunPerSession
<1>2. \A q \in Runs : q # r /\ Active(q) => runs[q].sess # runs[r].sess
    BY DEF OneRunPerSession
<1>3. \A q \in Runs : runs[q].sess \in Sessions
    BY DEF TypeOK, RunRecord
<1>4. \A s \in Sessions : s # runs[r].sess => store'[s] = store[s]
    BY SaveEffect
<1>5. RunAheadOfStore'
    BY <1>2, <1>3, <1>4 DEF RunAheadOfStore
<1>6. \A s \in Sessions : store'[s].gen <= starts[s]
  <2>1. ASSUME NEW st PROVE Snapshot(r, st).gen <= starts[runs[r].sess]
      BY DEF GenBounded, Snapshot
  <2> QED
      BY <1>4, <2>1, SaveEffect DEF GenBounded
<1>7. GenBounded'
    BY <1>6 DEF GenBounded
<1> QED
    BY <1>1, <1>5, <1>7

\* A Start by a serial caller finds no other run on its session (engine.go:79).
LEMMA SerialStart ==
    ASSUME SerialCallers, TypeOK, SerialInv, NEW r \in Runs, NEW s \in Sessions,
           Start(r, s, NewState)
    PROVE  SerialInv'
<1> USE DEF SerialInv, Active
<1>1. /\ \A q \in Runs : q # r => runs'[q] = runs[q]
      /\ runs'[r].pc = "loop" /\ runs'[r].sess = s
      /\ runs'[r].gen = starts[s] + 1
      /\ starts'[s] = starts[s] + 1
      /\ \A z \in Sessions : z # s => starts'[z] = starts[z]
      /\ store' = store
    BY DEF Start, TypeOK
<1>2. \A q \in Runs : Active(q) => runs[q].sess # s
    BY DEF Start, MayCall
<1>3. OneRunPerSession'
    BY <1>1, <1>2 DEF OneRunPerSession
<1>4. \A q \in Runs : runs[q].sess \in Sessions
    BY DEF TypeOK, RunRecord
<1>5. \A z \in Sessions : store[z].gen \in Nat /\ starts[z] \in Nat
    BY DEF TypeOK, SavedRecord
<1>6. GenBounded'
    BY <1>1, <1>2, <1>4, <1>5 DEF GenBounded
<1>7. RunAheadOfStore'
    BY <1>1, <1>2, <1>4, <1>5 DEF GenBounded, RunAheadOfStore
<1> QED
    BY <1>3, <1>6, <1>7

\* A Resume by a serial caller goes on from the record it loaded (engine.go:92).
LEMMA SerialResume ==
    ASSUME SerialCallers, TypeOK, SerialInv, NEW r \in Runs, NEW s \in Sessions,
           ResumeLoad(r, s)
    PROVE  SerialInv'
<1> USE DEF SerialInv, Active
<1>1. /\ \A q \in Runs : q # r => runs'[q] = runs[q]
      /\ runs'[r].pc = "resume" /\ runs'[r].sess = s
      /\ runs'[r].gen = store[s].gen
      /\ runs'[r].stepCount = store[s].stepCount
      /\ store[s].gen > 0 /\ store[s].status = "Paused"
      /\ store' = store /\ starts' = starts
    BY DEF ResumeLoad, TypeOK
<1>2. \A q \in Runs : Active(q) => runs[q].sess # s
    BY DEF ResumeLoad, MayCall
<1>3. OneRunPerSession'
    BY <1>1, <1>2 DEF OneRunPerSession
<1>4. GenBounded'
    BY <1>1 DEF GenBounded
<1>5. store[s].gen \in Nat /\ store[s].stepCount \in Nat
    BY DEF TypeOK, SavedRecord
<1>6. RunAheadOfStore'
    BY <1>1, <1>5 DEF RunAheadOfStore
<1> QED
    BY <1>3, <1>4, <1>6

\* With serial callers every step keeps the run ahead of its session's record.
LEMMA SerialStep ==
    ASSUME SerialCallers
    PROVE  TypeOK /\ TypeOK' /\ SerialInv /\ [Next]_vars => SerialInv'
<1> SUFFICES ASSUME TypeOK, TypeOK', SerialInv, [Next]_vars PROVE SerialInv'
    OBVIOUS
<1>1. ASSUME NEW r \in Runs, NEW s \in Sessions,
             Start(r, s, NewState) \/ ResumeLoad(r, s)
      PROVE  SerialInv'
    BY <1>1, SerialStart, SerialResume
<1>2. ASSUME NEW r \in Runs, NEW st, SaveAndReturn(r, st), Active(r),
             runs[r].pc # "publish"
      PROVE  SerialInv'
    BY <1>2, ReturnEffect, SerialEnd DEF SaveAndReturn
<1>3. ASSUME NEW r \in Runs, NEW next, LoopAt(r, next), Active(r),
             runs[r].pc # "publish"
      PROVE  SerialInv'
  <2>1. runs'[r].stepCount >= runs[r].stepCount
      BY <1>3, LoopAtEffect DEF TypeOK, RunRecord
  <2> QED
      BY <1>3, <2>1, LoopAtEffect, SerialLocal DEF LoopAt
<1>4. ASSUME NEW r \in Runs, ResumeRoute(r) PROVE SerialInv'
  <2>1. Active(r) /\ runs[r].pc # "publish"
      BY <1>4 DEF ResumeRoute, Active
  <2>2. CASE Return(r) /\ UNCHANGED <<store, tasks, starts, announced>>
      BY <2>1, <2>2, ReturnEffect, SerialEnd
  <2> QED
      BY <1>2, <1>3, <1>4, <2>1, <2>2 DEF ResumeRoute
<1>5. ASSUME NEW r \in Runs,
             ReturnFinished(r) \/ ReturnOutOfSteps(r) \/ ReturnNodeMissing(r)
               \/ Fail(r)
      PROVE  SerialInv'
    BY <1>2, <1>5 DEF ReturnFinished, ReturnOutOfSteps, ReturnNodeMissing, Fail,
                      Active
<1>6. ASSUME NEW r \in Runs, NEW outcome \in Outcomes, ProcessNode(r, outcome)
      PROVE  SerialInv'
  <2>1. Active(r) /\ runs[r].pc # "publish" /\ store' = store /\ starts' = starts
      BY <1>6 DEF ProcessNode, Active
  <2>2. runs'[r].stepCount >= runs[r].stepCount
      BY <1>6, ProcessEffect DEF TypeOK, RunRecord
  <2> QED
      BY <1>6, <2>1, <2>2, ProcessEffect, SerialLocal
<1>7. ASSUME NEW r \in Runs, OnError(r) \/ SyncTask(r) PROVE SerialInv'
  <2>1. PICK pc : Goto(r, pc)
      BY <1>7 DEF OnError, SyncTask
  <2>2. Active(r) /\ runs[r].pc # "publish" /\ store' = store /\ starts' = starts
      BY <1>7 DEF OnError, SyncTask, Active
  <2>3. runs'[r].stepCount >= runs[r].stepCount
      BY <2>1, GotoEffect DEF TypeOK, RunRecord
  <2> QED
      BY <2>1, <2>2, <2>3, GotoEffect, SerialLocal
<1>8. ASSUME NEW r \in Runs, Pause(r) PROVE SerialInv'
    BY <1>8, GotoEffect, SerialEnd DEF Pause, Active
<1>9. ASSUME NEW r \in Runs, Publish(r) PROVE SerialInv'
    BY <1>9, ReturnEffect, SerialEnd DEF Publish, Active
<1>10. ASSUME NEW r \in Runs, Advance(r) PROVE SerialInv'
    BY <1>2, <1>3, <1>10 DEF Advance, Active
<1>11. CASE Crash
    BY <1>11, IdleRunType DEF Crash, SerialInv, OneRunPerSession,
          RunAheadOfStore, GenBounded, Active
<1>12. CASE UNCHANGED vars
    BY <1>12 DEF vars, SerialInv, OneRunPerSession, RunAheadOfStore, GenBounded,
          Active
<1> QED
    BY <1>1, <1>4, <1>5, <1>6, <1>7, <1>8, <1>9, <1>10, <1>11, <1>12
       DEF Next, RunStep

\* With serial callers there is one run per session, ahead of the store, always.
LEMMA SerialInvariant ==
    ASSUME SerialCallers PROVE Spec => []SerialInv
<1>1. Init => SerialInv
    BY IdleRunType DEF Init, Unsaved, SerialInv, OneRunPerSession,
          RunAheadOfStore, GenBounded, Active
<1> QED
    BY <1>1, TypeCorrect, SerialStep, PTL DEF Spec
-----------------------------------------------------------------------------
\* A save of a run that is ahead of the store is a Record step of the session.
LEMMA SaveIsRecord ==
    ASSUME TypeOK, SerialInv, NEW r \in Runs, Active(r), runs[r].pc # "publish",
           NEW st \in {"Paused", "Completed", "Failed"}, Save(r, st),
           starts' = starts
    PROVE  [Lifecycle!Next]_(Lifecycle!lifecycleVars)
<1>0. PICK s \in Sessions : s = runs[r].sess
    BY DEF TypeOK, RunRecord
<1> DEFINE rec(z) == [gen |-> store[z].gen, status |-> store[z].status,
                      stepCount |-> store[z].stepCount]
           recNext(z) == [gen |-> store'[z].gen, status |-> store'[z].status,
                          stepCount |-> store'[z].stepCount]
<1>1. CASE store' = store
    BY <1>1 DEF Lifecycle!lifecycleVars
<1>2. CASE store'[s] = Snapshot(r, st)
  <2>1. \A z \in Sessions : z # s => store'[z] = store[z]
      BY <1>0, SaveEffect
  <2>2. /\ store'[s].gen = runs[r].gen
        /\ store'[s].status = st
        /\ store'[s].stepCount = runs[r].stepCount
      BY <1>2 DEF Snapshot
  <2>3. /\ runs[r].gen \in Nat /\ starts[s] \in Nat
        /\ store[s].gen \in Nat /\ store[s].stepCount \in Nat
        /\ runs[r].stepCount \in Nat
      BY <2>1 DEF TypeOK, RunRecord, SavedRecord
  <2>4. runs[r].gen \in 1..starts[s]
      BY <1>0, <2>3 DEF SerialInv, GenBounded, RunAheadOfStore
  <2>5. \/ runs[r].gen > store[s].gen
        \/ /\ runs[r].gen = store[s].gen
           /\ store[s].status = "Paused"
           /\ runs[r].stepCount >= store[s].stepCount
      BY <1>0, <2>3 DEF SerialInv, RunAheadOfStore
  <2>6. [z \in Sessions |-> recNext(z)]
          = [[z \in Sessions |-> rec(z)] EXCEPT ![s] = recNext(s)]
      BY <2>1
  <2>7. Lifecycle!Record(s)
      BY <2>1, <2>2, <2>4, <2>5, <2>6 DEF Lifecycle!Record, Lifecycle!Outcome
  <2> QED
      BY <2>7 DEF Lifecycle!Next
<1> QED
    BY <1>0, <1>1, <1>2, SaveEffect

(***************************************************************************)
(* Refinement: when callers are serial, the records in the MemoryStore      *)
(* follow SessionLifecycle, through crashes, failed saves and any routing. *)
(* A finished session stays finished until the next Start, and its step    *)
(* count is never rewound.                                                 *)
(***************************************************************************)
THEOREM EngineImplementsLifecycle ==
    ASSUME SerialCallers PROVE Spec => ImplementsLifecycle
<1>1. Init => Lifecycle!Init
    BY DEF Init, Unsaved, Lifecycle!Init
<1>2. TypeOK /\ SerialInv /\ [Next]_vars
        => [Lifecycle!Next]_(Lifecycle!lifecycleVars)
  <2> SUFFICES ASSUME TypeOK, SerialInv, [Next]_vars
               PROVE  [Lifecycle!Next]_(Lifecycle!lifecycleVars)
      OBVIOUS
  <2>1. ASSUME store' = store, starts' = starts
        PROVE  [Lifecycle!Next]_(Lifecycle!lifecycleVars)
      BY <2>1 DEF Lifecycle!lifecycleVars
  <2>2. ASSUME NEW r \in Runs, NEW s \in Sessions, Start(r, s, NewState)
        PROVE  [Lifecycle!Next]_(Lifecycle!lifecycleVars)
    <3>1. Lifecycle!Begin(s)
        BY <2>2 DEF Start, Lifecycle!Begin
    <3> QED
        BY <3>1 DEF Lifecycle!Next
  <2>3. ASSUME NEW r \in Runs, NEW st \in {"Paused", "Completed", "Failed"},
               SaveAndReturn(r, st), Active(r), runs[r].pc # "publish"
        PROVE  [Lifecycle!Next]_(Lifecycle!lifecycleVars)
      BY <2>3, SaveIsRecord DEF SaveAndReturn
  <2>4. ASSUME NEW r \in Runs, ResumeRoute(r) \/ Advance(r)
        PROVE  [Lifecycle!Next]_(Lifecycle!lifecycleVars)
      BY <2>1, <2>3, <2>4 DEF ResumeRoute, Advance, LoopAt, Active
  <2>5. ASSUME NEW r \in Runs,
               ReturnFinished(r) \/ ReturnOutOfSteps(r) \/ ReturnNodeMissing(r)
                 \/ Fail(r)
        PROVE  [Lifecycle!Next]_(Lifecycle!lifecycleVars)
      BY <2>3, <2>5 DEF ReturnFinished, ReturnOutOfSteps, ReturnNodeMissing,
                        Fail, Finished, Active
  <2>6. ASSUME NEW r \in Runs, Pause(r)
        PROVE  [Lifecycle!Next]_(Lifecycle!lifecycleVars)
      BY <2>6, SaveIsRecord DEF Pause, Active
  <2>7. ASSUME NEW r \in Runs,
               \/ \E s \in Sessions : ResumeLoad(r, s)
               \/ \E outcome \in Outcomes : ProcessNode(r, outcome)
               \/ OnError(r) \/ SyncTask(r) \/ Publish(r)
        PROVE  [Lifecycle!Next]_(Lifecycle!lifecycleVars)
      BY <2>1, <2>7 DEF ResumeLoad, ProcessNode, OnError, SyncTask, Publish
  <2>8. CASE Crash \/ UNCHANGED vars
      BY <2>1, <2>8 DEF Crash, vars
  <2> QED
      BY <2>2, <2>4, <2>5, <2>6, <2>7, <2>8 DEF Next, RunStep
<1> QED
    BY <1>1, <1>2, TypeCorrect, SerialInvariant, PTL
       DEF Spec, ImplementsLifecycle, Lifecycle!Spec
-----------------------------------------------------------------------------
(***************************************************************************)
(* A store that does not fail.                                             *)
(***************************************************************************)
LEMMA SaveDone ==
    ASSUME ~SaveMayFail, TypeOK, NEW r \in Runs, NEW st, Save(r, st)
    PROVE  /\ store'[runs[r].sess].gen = runs[r].gen
           /\ store'[runs[r].sess].status = st
           /\ store'[runs[r].sess].stepCount = runs[r].stepCount
<1>1. store'[runs[r].sess] = Snapshot(r, st)
    BY SaveEffect
<1> QED
    BY <1>1 DEF Snapshot

\* A save moves the session's record forward.
LEMMA SaveAdvances ==
    ASSUME ~SaveMayFail, TypeOK, SerialInv, AnnouncedIsDurable, NEW r \in Runs,
           Active(r), runs[r].pc # "publish", NEW st, Save(r, st),
           announced' = announced
    PROVE  AnnouncedIsDurable'
<1> DEFINE s == runs[r].sess
<1>1. /\ s \in Sessions
      /\ store[s].gen \in Nat /\ store[s].stepCount \in Nat
      /\ runs[r].gen \in Nat /\ runs[r].stepCount \in Nat
      /\ announced[s].gen \in Nat /\ announced[s].stepCount \in Nat
    BY DEF TypeOK, RunRecord, SavedRecord
<1>2. \/ runs[r].gen > store[s].gen
      \/ runs[r].gen = store[s].gen /\ runs[r].stepCount >= store[s].stepCount
    BY <1>1 DEF SerialInv, RunAheadOfStore
<1>3. \/ store'[s].gen > announced[s].gen
      \/ /\ store'[s].gen = announced[s].gen
         /\ store'[s].stepCount >= announced[s].stepCount
  <2>1. store'[s].gen = runs[r].gen /\ store'[s].stepCount = runs[r].stepCount
      BY SaveDone
  <2>2. \/ store[s].gen > announced[s].gen
        \/ /\ store[s].gen = announced[s].gen
           /\ store[s].stepCount >= announced[s].stepCount
      BY <1>1 DEF AnnouncedIsDurable
  <2> QED
      BY <1>1, <1>2, <2>1, <2>2
<1> QED
    BY <1>3, SaveEffect DEF AnnouncedIsDurable

\* A step that neither saves nor publishes, and after which the run does not
\* publish either.
LEMMA DurableFrame ==
    ASSUME AnnouncedIsDurable, PublishAfterSave, NEW r \in Runs,
           store' = store, announced' = announced,
           \A q \in Runs : q # r => runs'[q] = runs[q],
           runs'[r].pc # "publish"
    PROVE  AnnouncedIsDurable' /\ PublishAfterSave'
BY DEF AnnouncedIsDurable, PublishAfterSave

\* A save that ends a run does not take an announced pause out of the store.
LEMMA DurableSave ==
    ASSUME ~SaveMayFail, TypeOK, SerialInv, AnnouncedIsDurable,
           PublishAfterSave, NEW r \in Runs, NEW st, SaveAndReturn(r, st),
           Active(r), runs[r].pc # "publish"
    PROVE  AnnouncedIsDurable' /\ PublishAfterSave'
<1>1. AnnouncedIsDurable'
    BY SaveAdvances DEF SaveAndReturn
<1>2. \A q \in Runs : q # r /\ Active(q) => runs[q].sess # runs[r].sess
    BY DEF SerialInv, OneRunPerSession
<1>3. \A q \in Runs : runs[q].sess \in Sessions
    BY DEF TypeOK, RunRecord
<1>4. PublishAfterSave'
    BY <1>2, <1>3, SaveEffect, ReturnEffect
       DEF SaveAndReturn, PublishAfterSave, Active
<1> QED
    BY <1>1, <1>4

\* With a working store no step lets an event get ahead of the store.
LEMMA DurableStep ==
    ASSUME ~SaveMayFail
    PROVE  TypeOK /\ SerialInv /\ AnnouncedIsDurable /\ PublishAfterSave
             /\ [Next]_vars => AnnouncedIsDurable' /\ PublishAfterSave'
<1> SUFFICES ASSUME TypeOK, SerialInv, AnnouncedIsDurable, PublishAfterSave,
                    [Next]_vars
             PROVE  AnnouncedIsDurable' /\ PublishAfterSave'
    OBVIOUS
<1>1. ASSUME NEW r \in Runs, NEW s \in Sessions,
             Start(r, s, NewState) \/ ResumeLoad(r, s)
      PROVE  AnnouncedIsDurable' /\ PublishAfterSave'
  <2>1. /\ \A q \in Runs : q # r => runs'[q] = runs[q]
        /\ runs'[r].pc # "publish" /\ store' = store /\ announced' = announced
      BY <1>1 DEF Start, ResumeLoad, TypeOK
  <2> QED
      BY <2>1, DurableFrame
<1>2. ASSUME NEW r \in Runs, NEW next, LoopAt(r, next)
      PROVE  AnnouncedIsDurable' /\ PublishAfterSave'
    BY <1>2, LoopAtEffect, DurableFrame DEF LoopAt
<1>3. ASSUME NEW r \in Runs, ResumeRoute(r) \/ Advance(r)
      PROVE  AnnouncedIsDurable' /\ PublishAfterSave'
  <2>1. Active(r) /\ runs[r].pc # "publish"
      BY <1>3 DEF ResumeRoute, Advance, Active
  <2>2. CASE Return(r) /\ UNCHANGED <<store, tasks, starts, announced>>
      BY <2>2, ReturnEffect, DurableFrame
  <2> QED
      BY <1>2, <1>3, <2>1, <2>2, DurableSave DEF ResumeRoute, Advance
<1>4. ASSUME NEW r \in Runs,
             ReturnFinished(r) \/ ReturnOutOfSteps(r) \/ ReturnNodeMissing(r)
               \/ Fail(r)
      PROVE  AnnouncedIsDurable' /\ PublishAfterSave'
    BY <1>4, DurableSave DEF ReturnFinished, ReturnOutOfSteps,
          ReturnNodeMissing, Fail, Active
<1>5. ASSUME NEW r \in Runs, NEW outcome \in Outcomes, ProcessNode(r, outcome)
      PROVE  AnnouncedIsDurable' /\ PublishAfterSave'
    BY <1>5, ProcessEffect, DurableFrame DEF ProcessNode
<1>6. ASSUME NEW r \in Runs, OnError(r) \/ SyncTask(r)
      PROVE  AnnouncedIsDurable' /\ PublishAfterSave'
  <2>1. PICK pc : Goto(r, pc) /\ pc # "publish"
      BY <1>6 DEF OnError, SyncTask
  <2> QED
      BY <1>6, <2>1, GotoEffect, DurableFrame DEF OnError, SyncTask
<1>7. ASSUME NEW r \in Runs, Pause(r)
      PROVE  AnnouncedIsDurable' /\ PublishAfterSave'
  <2>1. Active(r) /\ runs[r].pc # "publish" /\ Save(r, "Paused")
        /\ Goto(r, "publish") /\ announced' = announced
      BY <1>7 DEF Pause, Active
  <2>2. AnnouncedIsDurable'
      BY <2>1, SaveAdvances
  <2>3. \A q \in Runs : q # r /\ Active(q) => runs[q].sess # runs[r].sess
      BY <2>1 DEF SerialInv, OneRunPerSession
  <2>4. \A q \in Runs : runs[q].sess \in Sessions
      BY DEF TypeOK, RunRecord
  <2>5. PublishAfterSave'
      BY <2>1, <2>3, <2>4, SaveDone, SaveEffect, GotoEffect
         DEF PublishAfterSave, Active
  <2> QED
      BY <2>2, <2>5
<1>8. ASSUME NEW r \in Runs, Publish(r)
      PROVE  AnnouncedIsDurable' /\ PublishAfterSave'
  <2>1. /\ runs[r].sess \in Sessions
        /\ runs[r].gen \in Nat /\ runs[r].stepCount \in Nat
      BY DEF TypeOK, RunRecord
  <2>2. /\ announced'[runs[r].sess].gen = runs[r].gen
        /\ announced'[runs[r].sess].stepCount = runs[r].stepCount
        /\ \A s \in Sessions : s # runs[r].sess => announced'[s] = announced[s]
        /\ store' = store
      BY <1>8, <2>1 DEF Publish, TypeOK
  <2>3. AnnouncedIsDurable'
      BY <1>8, <2>1, <2>2 DEF Publish, PublishAfterSave, AnnouncedIsDurable
  <2>4. PublishAfterSave'
      BY <1>8, <2>2, ReturnEffect DEF Publish, PublishAfterSave
  <2> QED
      BY <2>3, <2>4
<1>9. CASE Crash
    BY <1>9, IdleRunType DEF Crash, AnnouncedIsDurable, PublishAfterSave
<1>10. CASE UNCHANGED vars
    BY <1>10 DEF vars, AnnouncedIsDurable, PublishAfterSave
<1> QED
    BY <1>1, <1>3, <1>4, <1>5, <1>6, <1>7, <1>8, <1>9, <1>10 DEF Next, RunStep

(***************************************************************************)
(* The AgentPaused event never runs ahead of the store: whoever answers it  *)
(* with Resume finds the pause (engine.go:195-197 and 239-241).             *)
(***************************************************************************)
THEOREM AnnouncedDurable ==
    ASSUME SerialCallers, ~SaveMayFail PROVE Spec => []AnnouncedIsDurable
<1>1. Init => AnnouncedIsDurable /\ PublishAfterSave
    BY IdleRunType DEF Init, Unsaved, AnnouncedIsDurable, PublishAfterSave
<1> QED
    BY <1>1, TypeCorrect, SerialInvariant, DurableStep, PTL DEF Spec
-----------------------------------------------------------------------------
(***************************************************************************)
(* No session is lost as long as the process lives and the store works.    *)
(***************************************************************************)

\* The run keeps its session and either stays on the way to its save, or its
\* session was settled anyhow.
LEMMA AccountedLocal ==
    ASSUME AccountedFor, NEW r \in Runs, Active(r),
           store' = store, starts' = starts,
           \A q \in Runs : q # r => runs'[q] = runs[q],
           runs'[r].sess = runs[r].sess, runs'[r].gen = runs[r].gen,
           runs'[r].pc \notin {"idle", "publish", "resume"}
    PROVE  AccountedFor'
BY DEF AccountedFor, Settled, Active

\* The save that ends a run settles its session.
LEMMA AccountedSave ==
    ASSUME ~SaveMayFail, TypeOK, AccountedFor, NEW r \in Runs, Active(r),
           starts' = starts,
           NEW st \in {"Paused", "Completed", "Failed"}, Save(r, st),
           \A q \in Runs : q # r => runs'[q] = runs[q],
           \/ runs'[r].pc = "idle"
           \/ /\ runs'[r].pc = "publish"
              /\ runs'[r].sess = runs[r].sess
              /\ runs'[r].gen = runs[r].gen
    PROVE  AccountedFor'
<1>1. PICK s \in Sessions : s = runs[r].sess
    BY DEF TypeOK, RunRecord
<1>2. store'[s].gen = runs[r].gen /\ store'[s].status = st
    BY <1>1, SaveDone
<1>3. Settled(s)'
    BY <1>1, <1>2 DEF Settled, AccountedFor, Active
<1>4. \A z \in Sessions : z # s => store'[z] = store[z]
    BY <1>1, SaveEffect
<1>5. \A q \in Runs : Active(q)' => runs'[q].gen = starts'[runs'[q].sess]
    BY DEF AccountedFor, Active
<1>6. ASSUME NEW z \in Sessions, z # s
      PROVE  \/ starts'[z] = 0
             \/ Settled(z)'
             \/ \E q \in Runs : /\ runs'[q].sess = z
                                /\ runs'[q].pc \notin {"idle", "publish", "resume"}
    BY <1>1, <1>4, <1>6 DEF AccountedFor, Settled
<1> QED
    BY <1>3, <1>5, <1>6 DEF AccountedFor

\* No step loses a session: a run leaves only after it has saved.
LEMMA AccountedStep ==
    ASSUME SerialCallers, ~SaveMayFail, ~MayCrash
    PROVE  TypeOK /\ SerialInv /\ AccountedFor /\ [Next]_vars => AccountedFor'
<1> SUFFICES ASSUME TypeOK, SerialInv, AccountedFor, [Next]_vars
             PROVE  AccountedFor'
    OBVIOUS
<1>1. ASSUME NEW r \in Runs, NEW s \in Sessions, Start(r, s, NewState)
      PROVE  AccountedFor'
  <2>1. /\ \A q \in Runs : q # r => runs'[q] = runs[q]
        /\ runs'[r].pc = "loop" /\ runs'[r].sess = s
        /\ runs'[r].gen = starts'[s]
        /\ \A z \in Sessions : z # s => starts'[z] = starts[z]
        /\ store' = store
        /\ ~Active(r)
      BY <1>1 DEF Start, MayCall, TypeOK
  <2>2. \A q \in Runs : Active(q) => runs[q].sess # s
      BY <1>1 DEF Start, MayCall
  <2>3. \A q \in Runs : runs[q].sess \in Sessions
      BY DEF TypeOK, RunRecord
  <2> QED
      BY <2>1, <2>2, <2>3 DEF AccountedFor, Settled, Active
<1>2. ASSUME NEW r \in Runs, NEW s \in Sessions, ResumeLoad(r, s)
      PROVE  AccountedFor'
  <2>1. /\ \A q \in Runs : q # r => runs'[q] = runs[q]
        /\ runs'[r].pc = "resume" /\ runs'[r].sess = s
        /\ runs'[r].gen = store[s].gen
        /\ store[s].gen > 0
        /\ starts' = starts /\ store' = store
        /\ ~Active(r)
      BY <1>2 DEF ResumeLoad, MayCall, TypeOK
  <2>2. \A q \in Runs : Active(q) => runs[q].sess # s
      BY <1>2 DEF ResumeLoad, MayCall
  <2>3. starts[s] \in Nat /\ store[s].gen \in Nat
      BY DEF TypeOK, SavedRecord
  <2>4. starts[s] # 0
      BY <1>2, <2>3 DEF ResumeLoad, SerialInv, GenBounded
  <2>5. Settled(s)
      BY <2>2, <2>4 DEF AccountedFor, Active
  <2> QED
      BY <2>1, <2>5 DEF AccountedFor, Settled, Active
<1>3. ASSUME NEW r \in Runs, NEW st \in {"Paused", "Completed", "Failed"},
             SaveAndReturn(r, st), Active(r)
      PROVE  AccountedFor'
    BY <1>3, ReturnEffect, AccountedSave DEF SaveAndReturn
<1>4. ASSUME NEW r \in Runs, NEW next, LoopAt(r, next), Active(r)
      PROVE  AccountedFor'
    BY <1>4, LoopAtEffect, AccountedLocal DEF LoopAt
<1>5. ASSUME NEW r \in Runs, Return(r), store' = store, starts' = starts,
             runs[r].pc \in {"resume", "publish"}
      PROVE  AccountedFor'
    BY <1>5, ReturnEffect DEF AccountedFor, Settled, Active
<1>6. ASSUME NEW r \in Runs, ResumeRoute(r) \/ Advance(r) PROVE AccountedFor'
  <2>1. Active(r)
      BY <1>6 DEF ResumeRoute, Advance, Active
  <2> QED
      BY <1>3, <1>4, <1>5, <1>6, <2>1 DEF ResumeRoute, Advance
<1>7. ASSUME NEW r \in Runs,
             ReturnFinished(r) \/ ReturnOutOfSteps(r) \/ ReturnNodeMissing(r)
               \/ Fail(r)
      PROVE  AccountedFor'
    BY <1>3, <1>7 DEF ReturnFinished, ReturnOutOfSteps, ReturnNodeMissing, Fail,
                      Finished, Active
<1>8. ASSUME NEW r \in Runs, NEW outcome \in Outcomes, ProcessNode(r, outcome)
      PROVE  AccountedFor'
    BY <1>8, ProcessEffect, AccountedLocal DEF ProcessNode, Active
<1>9. ASSUME NEW r \in Runs, OnError(r) \/ SyncTask(r) PROVE AccountedFor'
  <2>1. PICK pc \in {"pause", "fail", "decide"} : Goto(r, pc)
      BY <1>9 DEF OnError, SyncTask
  <2> QED
      BY <1>9, <2>1, GotoEffect, AccountedLocal DEF OnError, SyncTask, Active
<1>10. ASSUME NEW r \in Runs, Pause(r) PROVE AccountedFor'
    BY <1>10, GotoEffect, AccountedSave DEF Pause, Active
<1>11. ASSUME NEW r \in Runs, Publish(r) PROVE AccountedFor'
    BY <1>5, <1>11 DEF Publish
<1>12. CASE UNCHANGED vars
    BY <1>12 DEF vars, AccountedFor, Settled, Active
<1> QED
    BY <1>1, <1>2, <1>6, <1>7, <1>8, <1>9, <1>10, <1>11, <1>12
       DEF Next, RunStep, Crash

(***************************************************************************)
(* With serial callers, no crash and a store that works, a session that     *)
(* nobody runs is over or can be resumed: no return path of Start, Resume  *)
(* or runLoop forgets to save (engine.go:92-276).                          *)
(***************************************************************************)
THEOREM NoSessionLost ==
    ASSUME SerialCallers, ~SaveMayFail, ~MayCrash
    PROVE  Spec => []SettledWhenIdle
<1>1. Init => AccountedFor
    BY IdleRunType DEF Init, AccountedFor, Active
<1>2. AccountedFor => SettledWhenIdle
    BY DEF AccountedFor, SettledWhenIdle, Idle, Active
<1> QED
    BY <1>1, <1>2, TypeCorrect, SerialInvariant, AccountedStep, PTL DEF Spec
=============================================================================
