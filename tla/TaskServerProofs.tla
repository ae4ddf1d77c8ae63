-------------------------- MODULE TaskServerProofs --------------------------
(***************************************************************************)
(* For any number of requests, tenants and tasks: what holds of the task   *)
(* records although nothing keeps their writers apart.                     *)
(***************************************************************************)
EXTENDS TaskServer, TLAPS

USE TaskAssumption

Creates(q) == req[q].kind \in {"send", "replay"}

\* A request that goes on has a task, a writer that is about to write has a
\* record, a run has a request that was answered.
Ready(q) ==
    /\ pc[q] # "new" => req[q].task # None
    /\ pc[q] \in {"new", "lookup", "read"} => copy[q] = NoTask
    /\ pc[q] = "set" => copy[q] # NoTask
    /\ pc[q] \in {"lookup", "create", "context", "tenant"} => Creates(q)
    /\ req[q].kind = "push" => pc[q] \in {"read", "set", "index", "ok", "error"}
    /\ runPc[q] # "none" => pc[q] = "ok"
    /\ runPc[q] \in {"set", "index"} => run[q].task # None /\ report[q] # NoTask

AllReady == \A q \in Requests : Ready(q)

\* A changed copy of a record is a record.
LEMMA StateChanged ==
    ASSUME NEW t \in Task, NEW s \in TaskState
    PROVE  [t EXCEPT !.state = s] \in Task
BY DEF Task

LEMMA WebhookAdded ==
    ASSUME NEW t \in Task, NEW q \in Requests
    PROVE  [t EXCEPT !.webhooks = Append(@, q)] \in Task
<1>1. t.webhooks \in Seq(Requests)
  BY DEF Task
<1>2. Append(t.webhooks, q) \in Seq(Requests)
  BY <1>1
<1> DEFINE w == Append(t.webhooks, q)
<1> HIDE DEF w
<1>3. [t EXCEPT !.webhooks = w] \in Task
  BY <1>2 DEF Task, w
<1> QED BY <1>3 DEF w

LEMMA ChangedType ==
    ASSUME TypeOK, AllReady, NEW q \in Requests, pc[q] = "set"
    PROVE  Changed(q) \in Task
<1>1. copy[q] \in Task
  BY DEF TypeOK, AllReady, Ready
<1>2. "working" \in TaskState
  BY DEF TaskState
<1> QED BY <1>1, <1>2, StateChanged, WebhookAdded DEF Changed

LEMMA KindChanged ==
    ASSUME NEW r \in Request
    PROVE  /\ [r EXCEPT !.kind = "resume"] \in Request
           /\ [r EXCEPT !.kind = "resume"].task = r.task
           /\ [r EXCEPT !.kind = "resume"].tenant = r.tenant
           /\ [r EXCEPT !.kind = "resume"].kind = "resume"
BY DEF Request

LEMMA KeyType ==
    ASSUME TypeOK, AllReady, NEW q \in Requests, pc[q] # "new"
    PROVE  /\ Key(q) \in Tenants \X TaskIds
           /\ req[q].tenant \in Tenants /\ req[q].task \in TaskIds
BY DEF TypeOK, AllReady, Ready, Key, Request

\* Handlers, runs and store keep their shape.
LEMMA TaskTypeCorrect == Spec => [](TypeOK /\ AllReady)
<1>1. Init => TypeOK /\ AllReady
  <2> SUFFICES ASSUME Init PROVE TypeOK /\ AllReady
    OBVIOUS
  <2>1. None \in ContextIds
    BY DEF ContextIds
  <2>2. req \in [Requests -> Request]
    BY DEF Init, Request
  <2>3. run \in [Requests -> [task : TaskIds \cup {None}, contextID : ContextIds]]
    BY <2>1 DEF Init
  <2>4. TypeOK
    BY <2>2, <2>3 DEF Init, TypeOK
  <2>5. AllReady
    BY DEF Init, AllReady, Ready
  <2> QED BY <2>4, <2>5
<1>2. TypeOK /\ AllReady /\ [Next]_vars => TypeOK'
  <2> SUFFICES ASSUME TypeOK, AllReady, [Next]_vars PROVE TypeOK'
    OBVIOUS
  <2> USE DEF TypeOK
  <2>1. ASSUME NEW q \in Requests, handleSendMessage(q) PROVE TypeOK'
    <3>1. PICK tenant \in Tenants, contextID \in ClientContexts \cup {q},
               task \in ClientTasks \cup {q}, next \in {"create", "lookup"} :
             Ask(q, "send", tenant, task, next) /\ Prepare(q, task, contextID)
      BY <2>1 DEF handleSendMessage
    <3>2. task \in TaskIds /\ contextID \in ContextIds
      BY DEF TaskIds, ContextIds
    <3> QED BY <2>1, <3>1, <3>2 DEF handleSendMessage, Ask, Prepare, storeVars, Request
  <2>2. ASSUME NEW q \in Requests, handleCreatePushConfig(q) PROVE TypeOK'
    BY <2>2 DEF handleCreatePushConfig, Ask, storeVars, runVars, Request
  <2>3. ASSUME NEW q \in Requests, handleReplayFrom(q) PROVE TypeOK'
    <3>1. PICK saved \in Requests, tenant \in Tenants :
             /\ Ask(q, "replay", tenant, q, "create")
             /\ Prepare(q, run[saved].task, run[saved].contextID)
      BY <2>3 DEF handleReplayFrom
    <3>2. q \in TaskIds
      BY DEF TaskIds
    <3>3. run[saved].task \in TaskIds \cup {None} /\ run[saved].contextID \in ContextIds
      OBVIOUS
    <3> QED BY <2>3, <3>1, <3>2, <3>3 DEF handleReplayFrom, Ask, Prepare, storeVars, Request
  <2>4. ASSUME NEW q \in Requests, GRPCSendMessage(q) PROVE TypeOK'
    <3>1. PICK tenant \in Tenants, task \in ClientTasks \cup {q},
               contextID \in ClientContexts \cup {None} :
             Ask(q, "grpc", tenant, task, "ok") /\ Prepare(q, task, contextID)
      BY <2>4 DEF GRPCSendMessage
    <3>2. task \in TaskIds /\ contextID \in ContextIds
      BY DEF TaskIds, ContextIds
    <3> QED BY <2>4, <3>1, <3>2 DEF GRPCSendMessage, Ask, Prepare, storeVars, Request
  <2>5. ASSUME NEW q \in Requests, GetExisting(q) PROVE TypeOK'
    <3>1. req' \in [Requests -> Request]
      BY <2>5, KindChanged DEF GetExisting
    <3>2. run' \in [Requests -> [task : TaskIds \cup {None}, contextID : ContextIds]]
      BY <2>5 DEF GetExisting, Prepare, ContextIds
    <3> QED BY <2>5, <3>1, <3>2 DEF GetExisting, storeVars
  <2>6. ASSUME NEW q \in Requests, CreateRecord(q) PROVE TypeOK'
    <3> DEFINE t == [contextID |-> run[q].contextID,
                     state |-> IF req[q].kind = "replay" THEN "working" ELSE "submitted",
                     webhooks |-> <<>>, by |-> q]
    <3>1. t \in Task
      BY DEF Task, TaskState
    <3>2. tasks' = [tasks EXCEPT ![Key(q)] = t]
      BY <2>6 DEF CreateRecord
    <3> HIDE DEF t
    <3>3. tasks' \in [Tenants \X TaskIds -> Task \cup {NoTask}]
      BY <3>1, <3>2
    <3>4. /\ pc' = [pc EXCEPT ![q] = "context"]
          /\ UNCHANGED <<contextIndex, tenantIndex, req, copy, run, runPc, report,
                         reports, overlaps>>
      BY <2>6 DEF CreateRecord, runVars
    <3> QED BY <3>3, <3>4
  <2>7. ASSUME NEW q \in Requests, CreateContext(q) PROVE TypeOK'
    <3>1. req[q].tenant \in Tenants /\ req[q].task \in TaskIds
      BY <2>7, KeyType DEF CreateContext
    <3> QED BY <2>7, <3>1 DEF CreateContext, runVars
  <2>8. ASSUME NEW q \in Requests, CreateTenant(q) PROVE TypeOK'
    <3>1. Key(q) \in Tenants \X TaskIds
      BY <2>8, KeyType DEF CreateTenant
    <3> QED BY <2>8, <3>1 DEF CreateTenant, runVars
  <2>9. ASSUME NEW q \in Requests, Read(q) PROVE TypeOK'
    <3>1. Key(q) \in Tenants \X TaskIds
      BY <2>9, KeyType DEF Read
    <3>2. copy' \in [Requests -> Task \cup {NoTask}]
      BY <2>9, <3>1 DEF Read
    <3>3. overlaps' \subseteq Tenants \X TaskIds
      BY <2>9, <3>1 DEF Read, WithOverlap
    <3> QED BY <2>9, <3>2, <3>3 DEF Read, storeVars, runVars
  <2>10. ASSUME NEW q \in Requests, Set(q) PROVE TypeOK'
    <3>1. Changed(q) \in Task
      BY <2>10, ChangedType DEF Set
    <3> QED BY <2>10, <3>1 DEF Set, runVars
  <2>11. ASSUME NEW q \in Requests, NotFound(q) \/ Break(q) PROVE TypeOK'
    BY <2>11 DEF NotFound, Break, storeVars, runVars
  <2>12. ASSUME NEW q \in Requests, StartRun(q) PROVE TypeOK'
    BY <2>12 DEF StartRun, storeVars
  <2>13. ASSUME NEW q \in Requests, Index(q) PROVE TypeOK'
    <3>1. Key(q) \in Tenants \X TaskIds
      BY <2>13, KeyType DEF Index
    <3>2. PICK next \in {"ok", "error", "start"} : pc' = [pc EXCEPT ![q] = next]
      BY <2>13 DEF Index
    <3> QED BY <2>13, <3>1, <3>2 DEF Index, runVars
  <2>14. ASSUME NEW q \in Requests, Report(q) PROVE TypeOK'
    <3>1. RunKey(q) \in Tenants \X TaskIds
      BY <2>14 DEF Report, RunKey
    <3>2. tasks[RunKey(q)] \in Task
      BY <2>14, <3>1 DEF Report
    <3>3. \A state \in TaskState : Reported(q, state) \in Task
      BY <3>2, StateChanged DEF Reported
    <3>4. report' \in [Requests -> Task \cup {NoTask}]
      BY <2>14, <3>3 DEF Report
    <3>5. overlaps' \subseteq Tenants \X TaskIds
      BY <2>14, <3>1 DEF Report, WithOverlap
    <3> QED BY <2>14, <3>4, <3>5 DEF Report, storeVars, handlerVars
  <2>15. ASSUME NEW q \in Requests, ReportSet(q) PROVE TypeOK'
    BY <2>15 DEF ReportSet, handlerVars
  <2>16. ASSUME NEW q \in Requests, ReportIndex(q) PROVE TypeOK'
    <3>1. RunKey(q) \in Tenants \X TaskIds
      BY <2>16 DEF ReportIndex, RunKey, AllReady, Ready
    <3> QED BY <2>16, <3>1 DEF ReportIndex, handlerVars
  <2>17. ASSUME NEW q \in Requests, ReportBreaks(q) \/ RunReturns(q) PROVE TypeOK'
    BY <2>17 DEF ReportBreaks, RunReturns, storeVars, handlerVars
  <2>18. CASE UNCHANGED vars
    BY <2>18 DEF vars, storeVars, handlerVars, runVars
  <2> QED
    BY <2>1, <2>2, <2>3, <2>4, <2>5, <2>6, <2>7, <2>8, <2>9, <2>10, <2>11, <2>12,
       <2>13, <2>14, <2>15, <2>16, <2>17, <2>18 DEF Next, Handle, Engine
<1>3. TypeOK /\ AllReady /\ [Next]_vars => AllReady'
  <2> SUFFICES ASSUME TypeOK, AllReady, [Next]_vars, NEW p \in Requests
               PROVE  Ready(p)'
    BY DEF AllReady
  <2>0. Ready(p)
    BY DEF AllReady
  <2> USE DEF TypeOK, Creates
  <2>1. ASSUME NEW q \in Requests,
               handleSendMessage(q) \/ handleReplayFrom(q) \/ GRPCSendMessage(q)
        PROVE  Ready(p)'
    <3>1. PICK k, tenant, task, next, t, c :
             /\ Ask(q, k, tenant, task, next) /\ Prepare(q, t, c)
             /\ task # None /\ next \in {"create", "lookup", "ok"}
             /\ k \in {"send", "replay"} \/ next = "ok"
             /\ next # "ok" => runPc' = runPc
             /\ next = "ok" => runPc' = [runPc EXCEPT ![q] = "live"]
      BY <2>1 DEF handleSendMessage, handleReplayFrom, GRPCSendMessage
    <3>2. copy' = copy /\ report' = report
      BY <2>1 DEF handleSendMessage, handleReplayFrom, GRPCSendMessage
    <3>3. Ready(q)
      BY DEF AllReady
    <3>4. CASE p = q
      BY <3>1, <3>2, <3>3, <3>4 DEF Ask, Prepare, Ready
    <3>5. CASE p # q
      BY <2>0, <3>1, <3>2, <3>5 DEF Ask, Prepare, Ready
    <3> QED BY <3>4, <3>5
  <2>2. ASSUME NEW q \in Requests, handleCreatePushConfig(q) PROVE Ready(p)'
    <3>1. PICK tenant \in Tenants, task \in TaskIds : Ask(q, "push", tenant, task, "read")
      BY <2>2 DEF handleCreatePushConfig
    <3>2. task # None
      BY DEF TaskIds
    <3> QED BY <2>0, <2>2, <3>1, <3>2 DEF handleCreatePushConfig, Ask, Ready, runVars
  <2>3. ASSUME NEW q \in Requests, GetExisting(q) PROVE Ready(p)'
    <3>1. req'[p].task = req[p].task
      <4>1. req[q] \in Request
        OBVIOUS
      <4>2. [req[q] EXCEPT !.kind = "resume"].task = req[q].task
        BY <4>1, KindChanged
      <4> QED BY <2>3, <4>2 DEF GetExisting
    <3>2. p # q => run'[p] = run[p] /\ req'[p] = req[p]
      BY <2>3 DEF GetExisting, Prepare
    <3> QED BY <2>0, <2>3, <3>1, <3>2 DEF GetExisting, Ready
  <2>4. ASSUME NEW q \in Requests,
               \/ CreateRecord(q) \/ CreateContext(q) \/ CreateTenant(q)
               \/ Read(q) \/ Set(q) \/ Break(q) \/ NotFound(q)
        PROVE  Ready(p)'
    BY <2>0, <2>4 DEF CreateRecord, CreateContext, CreateTenant, Read, Set, Break,
                      NotFound, Ready, runVars
  <2>5. ASSUME NEW q \in Requests, Index(q) PROVE Ready(p)'
    <3>1. PICK next \in {"ok", "error", "start"} : pc' = [pc EXCEPT ![q] = next]
      BY <2>5 DEF Index
    <3> QED BY <2>0, <2>5, <3>1 DEF Index, Ready, runVars
  <2>6. ASSUME NEW q \in Requests, StartRun(q) PROVE Ready(p)'
    BY <2>0, <2>6 DEF StartRun, Ready
  <2>7. ASSUME NEW q \in Requests, Report(q) PROVE Ready(p)'
    <3>1. RunKey(q) \in Tenants \X TaskIds
      BY <2>7 DEF Report, RunKey
    <3>2. tasks[RunKey(q)] \in Task
      BY <2>7, <3>1 DEF Report
    <3>3. \A state \in TaskState : Reported(q, state) # NoTask
      BY <3>2, StateChanged DEF Reported
    <3> QED BY <2>0, <2>7, <3>3 DEF Report, Ready, handlerVars
  <2>8. ASSUME NEW q \in Requests,
               ReportSet(q) \/ ReportIndex(q) \/ ReportBreaks(q) \/ RunReturns(q)
        PROVE  Ready(p)'
    BY <2>0, <2>8 DEF ReportSet, ReportIndex, ReportBreaks, RunReturns, Ready, handlerVars
  <2>9. CASE UNCHANGED vars
    BY <2>0, <2>9 DEF vars, handlerVars, runVars, Ready
  <2> QED
    BY <2>1, <2>2, <2>3, <2>4, <2>5, <2>6, <2>7, <2>8, <2>9 DEF Next, Handle, Engine
<1> QED BY <1>1, <1>2, <1>3, PTL DEF Spec
-----------------------------------------------------------------------------
(***************************************************************************)
(* Every version of a record, stored or about to be written back, goes     *)
(* back to the request that created it; and that request lists the record  *)
(* before it can start a run.                                              *)
(***************************************************************************)
\* If t is a record, it belongs under key k.
Belongs(k, t) ==
    t # NoTask =>
        /\ t.by \in Requests
        /\ Creates(t.by)
        /\ Key(t.by) = k
        /\ pc[t.by] \in {"context", "tenant", "start", "ok", "error"}
        /\ t.contextID = run[t.by].contextID

VersionsBelong ==
    /\ \A k \in Tenants \X TaskIds : Belongs(k, tasks[k])
    /\ \A q \in Requests : Belongs(Key(q), copy[q])
    /\ \A q \in Requests : runPc[q] = "set" => Belongs(RunKey(q), report[q])

ContextListed(q) ==
    \/ run[q].contextID = None
    \/ <<req[q].tenant, run[q].contextID, req[q].task>> \in contextIndex

\* How far the creating request has come.
Listed(q) ==
    Creates(q) =>
        /\ pc[q] \notin {"read", "set", "index"}
        /\ pc[q] \in {"context", "tenant", "start", "ok"} => tasks[Key(q)] # NoTask
        /\ pc[q] \in {"tenant", "start", "ok"} => ContextListed(q)
        /\ pc[q] \in {"start", "ok"} => Key(q) \in tenantIndex

AllListed == \A q \in Requests : Listed(q)

IndexInv == VersionsBelong /\ AllListed

\* A request that goes on keeps what it works on.
LEMMA Steady ==
    ASSUME TypeOK, [Next]_vars, NEW p \in Requests, pc[p] \notin {"new", "lookup"}
    PROVE  req'[p] = req[p] /\ run'[p] = run[p]
<1> USE DEF TypeOK
<1>1. ASSUME NEW q \in Requests, handleSendMessage(q) PROVE req'[p] = req[p] /\ run'[p] = run[p]
  BY <1>1 DEF handleSendMessage, Ask, Prepare
<1>2. ASSUME NEW q \in Requests, handleCreatePushConfig(q) PROVE req'[p] = req[p] /\ run'[p] = run[p]
  BY <1>2 DEF handleCreatePushConfig, Ask, runVars
<1>3. ASSUME NEW q \in Requests, handleReplayFrom(q) PROVE req'[p] = req[p] /\ run'[p] = run[p]
  BY <1>3 DEF handleReplayFrom, Ask, Prepare
<1>4. ASSUME NEW q \in Requests, GRPCSendMessage(q) PROVE req'[p] = req[p] /\ run'[p] = run[p]
  BY <1>4 DEF GRPCSendMessage, Ask, Prepare
<1>5. ASSUME NEW q \in Requests, GetExisting(q) PROVE req'[p] = req[p] /\ run'[p] = run[p]
  BY <1>5 DEF GetExisting, Prepare
<1>6. ASSUME UNCHANGED <<req, run>> PROVE req'[p] = req[p] /\ run'[p] = run[p]
  BY <1>6
<1>7. ASSUME NEW q \in Requests,
             \/ CreateRecord(q) \/ CreateContext(q) \/ CreateTenant(q) \/ Read(q) \/ NotFound(q)
             \/ Set(q) \/ Index(q) \/ Break(q) \/ StartRun(q) \/ Engine(q)
      PROVE  UNCHANGED <<req, run>>
  BY <1>7 DEF CreateRecord, CreateContext, CreateTenant, Read, NotFound, Set, Index, Break,
              StartRun, Engine, Report, ReportSet, ReportIndex, ReportBreaks, RunReturns,
              handlerVars, runVars
<1>8. CASE UNCHANGED vars
  BY <1>8 DEF vars, handlerVars, runVars
<1> QED BY <1>1, <1>2, <1>3, <1>4, <1>5, <1>6, <1>7, <1>8 DEF Next, Handle

\* A request that creates a task goes from Create to the run, or fails.
Onward(p) ==
    \/ pc'[p] = pc[p]
    \/ pc[p] = "context" /\ pc'[p] \in {"tenant", "error"}
    \/ pc[p] = "tenant" /\ pc'[p] \in {"start", "error"}
    \/ pc[p] = "start" /\ pc'[p] = "ok"

LEMMA GoesOnward ==
    ASSUME TypeOK, [Next]_vars, NEW p \in Requests, Creates(p),
           pc[p] \in {"context", "tenant", "start", "ok", "error"}
    PROVE  Onward(p)
<1> USE DEF TypeOK, Onward
<1>1. ASSUME NEW q \in Requests, handleSendMessage(q) \/ handleCreatePushConfig(q)
                                 \/ handleReplayFrom(q) \/ GRPCSendMessage(q)
      PROVE  Onward(p)
  <2>1. PICK kind, tenant, task, next : Ask(q, kind, tenant, task, next)
    BY <1>1 DEF handleSendMessage, handleCreatePushConfig, handleReplayFrom, GRPCSendMessage
  <2> QED BY <2>1 DEF Ask
<1>2. ASSUME NEW q \in Requests, GetExisting(q) \/ CreateRecord(q) \/ Read(q) \/ NotFound(q)
                                 \/ Set(q)
      PROVE  Onward(p)
  BY <1>2 DEF GetExisting, CreateRecord, Read, NotFound, Set
<1>3. ASSUME NEW q \in Requests, Index(q) PROVE Onward(p)
  BY <1>3 DEF Index
<1>4. ASSUME NEW q \in Requests, CreateContext(q) \/ CreateTenant(q) PROVE Onward(p)
  BY <1>4 DEF CreateContext, CreateTenant
<1>5. ASSUME NEW q \in Requests, Break(q) \/ StartRun(q) PROVE Onward(p)
  BY <1>5 DEF Break, StartRun, Creates
<1>6. ASSUME NEW q \in Requests, Engine(q) PROVE Onward(p)
  BY <1>6 DEF Engine, Report, ReportSet, ReportIndex, ReportBreaks, RunReturns, handlerVars
<1>7. CASE UNCHANGED vars
  BY <1>7 DEF vars, handlerVars
<1> QED BY <1>1, <1>2, <1>3, <1>4, <1>5, <1>6, <1>7 DEF Next, Handle

\* A version of a record goes on belonging under its key.
LEMMA BelongsStays ==
    ASSUME TypeOK, [Next]_vars, NEW k, NEW t, Belongs(k, t)
    PROVE  Belongs(k, t)'
<1> SUFFICES ASSUME t # NoTask
             PROVE  Belongs(k, t)'
  BY DEF Belongs
<1>1. /\ t.by \in Requests
      /\ Creates(t.by)
      /\ pc[t.by] \in {"context", "tenant", "start", "ok", "error"}
  BY DEF Belongs
<1>2. req'[t.by] = req[t.by] /\ run'[t.by] = run[t.by]
  BY <1>1, Steady
<1>3. pc'[t.by] \in {"context", "tenant", "start", "ok", "error"}
  BY <1>1, GoesOnward DEF Onward
<1> QED BY <1>1, <1>2, <1>3 DEF Belongs, Creates, Key

\* What is written, read or changed of a record leaves its origin alone.
LEMMA SameOrigin ==
    ASSUME NEW t \in Task, NEW k, Belongs(k, t)
    PROVE  /\ \A state \in TaskState : Belongs(k, [t EXCEPT !.state = state])
           /\ \A q \in Requests : Belongs(k, [t EXCEPT !.webhooks = Append(@, q)])
<1>1. t # NoTask
  OBVIOUS
<1>2. \A state \in TaskState : /\ [t EXCEPT !.state = state].by = t.by
                               /\ [t EXCEPT !.state = state].contextID = t.contextID
  BY DEF Task
<1>3. ASSUME NEW w PROVE /\ [t EXCEPT !.webhooks = w].by = t.by
                         /\ [t EXCEPT !.webhooks = w].contextID = t.contextID
  BY DEF Task
<1>4. \A q \in Requests : /\ [t EXCEPT !.webhooks = Append(@, q)].by = t.by
                          /\ [t EXCEPT !.webhooks = Append(@, q)].contextID = t.contextID
  BY <1>3
<1> QED BY <1>1, <1>2, <1>4 DEF Belongs

\* Writers write versions of records under the keys they belong to.
LEMMA WrittenBelongs ==
    ASSUME TypeOK, AllReady, VersionsBelong, NEW q \in Requests
    PROVE  /\ pc[q] = "set" => Belongs(Key(q), Changed(q))
           /\ runPc[q] = "live" /\ run[q].task # None /\ tasks[RunKey(q)] # NoTask =>
                 \A state \in TaskState : Belongs(RunKey(q), Reported(q, state))
<1>1. ASSUME pc[q] = "set" PROVE Belongs(Key(q), Changed(q))
  <2>1. copy[q] \in Task /\ Belongs(Key(q), copy[q])
    BY <1>1 DEF TypeOK, AllReady, Ready, VersionsBelong
  <2>2. "working" \in TaskState
    BY DEF TaskState
  <2> QED BY <2>1, <2>2, SameOrigin DEF Changed
<1>2. ASSUME run[q].task # None, tasks[RunKey(q)] # NoTask, NEW state \in TaskState
      PROVE  Belongs(RunKey(q), Reported(q, state))
  <2>1. RunKey(q) \in Tenants \X TaskIds
    BY <1>2 DEF TypeOK, RunKey
  <2>2. tasks[RunKey(q)] \in Task /\ Belongs(RunKey(q), tasks[RunKey(q)])
    BY <1>2, <2>1 DEF TypeOK, VersionsBelong
  <2> QED BY <2>2, SameOrigin DEF Reported
<1> QED BY <1>1, <1>2

\* Who changes records, copies and reports.
LEMMA TasksStep ==
    ASSUME [Next]_vars
    PROVE  \/ tasks' = tasks
           \/ \E q \in Requests : CreateRecord(q) \/ Set(q) \/ ReportSet(q)
BY DEF Next, Handle, Engine, handleSendMessage, handleCreatePushConfig, handleReplayFrom,
       GRPCSendMessage, GetExisting, CreateContext, CreateTenant, Read, NotFound, Index,
       Break, StartRun, Report, ReportIndex, ReportBreaks, RunReturns, vars, storeVars

LEMMA CopyStep ==
    ASSUME TypeOK, [Next]_vars, NEW p \in Requests
    PROVE  copy'[p] = copy[p] \/ Read(p)
<1>1. ASSUME NEW q \in Requests, Read(q) PROVE copy'[p] = copy[p] \/ Read(p)
  BY <1>1 DEF Read, TypeOK
<1>2. copy' = copy \/ \E q \in Requests : Read(q)
  BY DEF Next, Handle, Engine, handleSendMessage, handleCreatePushConfig, handleReplayFrom,
         GRPCSendMessage, GetExisting, CreateRecord, CreateContext, CreateTenant, NotFound,
         Set, Index, Break, StartRun, Report, ReportSet, ReportIndex, ReportBreaks,
         RunReturns, vars, handlerVars
<1> QED BY <1>1, <1>2

LEMMA ReportStep ==
    ASSUME TypeOK, [Next]_vars, NEW p \in Requests, runPc'[p] = "set"
    PROVE  (runPc[p] = "set" /\ report'[p] = report[p]) \/ Report(p)
<1> DEFINE Goal == (runPc[p] = "set" /\ report'[p] = report[p]) \/ Report(p)
<1>1. ASSUME NEW q \in Requests, Report(q) PROVE Goal
  BY <1>1 DEF Report, TypeOK
<1>2. CASE runPc' = runPc /\ report' = report
  BY <1>2
<1>3. ASSUME NEW q \in Requests, ReportSet(q) \/ ReportIndex(q) \/ ReportBreaks(q)
                                 \/ RunReturns(q) \/ StartRun(q) \/ GRPCSendMessage(q)
      PROVE  Goal
  BY <1>3 DEF ReportSet, ReportIndex, ReportBreaks, RunReturns, StartRun, GRPCSendMessage,
              TypeOK
<1> QED
  BY <1>1, <1>2, <1>3
     DEF Next, Handle, Engine, handleSendMessage, handleCreatePushConfig, handleReplayFrom,
         GetExisting, CreateRecord, CreateContext, CreateTenant, Read, NotFound, Set, Index,
         Break, vars, runVars

\* Versions of records stay under their keys.
LEMMA VersionsStay ==
    ASSUME TypeOK, AllReady, VersionsBelong, [Next]_vars
    PROVE  VersionsBelong'
<1>1. ASSUME NEW k \in Tenants \X TaskIds PROVE Belongs(k, tasks[k])'
  <2> PICK t : t = tasks[k]
    OBVIOUS
  <2>1. Belongs(k, t)'
    BY BelongsStays DEF VersionsBelong
  <2>2. CASE tasks'[k] = tasks[k]
    BY <2>1, <2>2 DEF Belongs
  <2>3. ASSUME NEW q \in Requests, CreateRecord(q) PROVE Belongs(k, tasks[k])'
    <3>1. CASE k = Key(q)
      <4>0. Key(q) \in Tenants \X TaskIds
        BY <2>3, KeyType DEF CreateRecord
      <4>1. /\ tasks'[k].by = q
            /\ tasks'[k].contextID = run[q].contextID
        BY <2>3, <3>1, <4>0 DEF CreateRecord, TypeOK
      <4>2. pc'[q] = "context" /\ req' = req /\ run' = run
        BY <2>3 DEF CreateRecord, TypeOK, runVars
      <4>3. Creates(q)
        BY <2>3 DEF CreateRecord, Creates, AllReady, Ready
      <4> QED BY <3>1, <4>1, <4>2, <4>3 DEF Belongs, Creates, Key
    <3>2. CASE k # Key(q)
      BY <2>2, <2>3, <3>2 DEF CreateRecord, TypeOK
    <3> QED BY <3>1, <3>2
  <2>4. ASSUME NEW q \in Requests, Set(q) PROVE Belongs(k, tasks[k])'
    <3>1. CASE k = Key(q)
      <4> PICK u : u = Changed(q)
        OBVIOUS
      <4>1. Belongs(k, u)'
        BY <2>4, <3>1, WrittenBelongs, BelongsStays DEF Set
      <4>2. tasks'[k] = u
        BY <2>4, <3>1 DEF Set, TypeOK
      <4> QED BY <4>1, <4>2 DEF Belongs
    <3>2. CASE k # Key(q)
      BY <2>2, <2>4, <3>2 DEF Set, TypeOK
    <3> QED BY <3>1, <3>2
  <2>5. ASSUME NEW q \in Requests, ReportSet(q) PROVE Belongs(k, tasks[k])'
    <3>1. CASE k = RunKey(q)
      <4> PICK u : u = report[q]
        OBVIOUS
      <4>1. Belongs(k, u)'
        BY <2>5, <3>1, BelongsStays DEF ReportSet, VersionsBelong
      <4>2. tasks'[k] = u
        BY <2>5, <3>1 DEF ReportSet, TypeOK
      <4> QED BY <4>1, <4>2 DEF Belongs
    <3>2. CASE k # RunKey(q)
      BY <2>2, <2>5, <3>2 DEF ReportSet, TypeOK
    <3> QED BY <3>1, <3>2
  <2>6. CASE tasks' = tasks
    BY <2>2, <2>6
  <2> QED
    BY <2>3, <2>4, <2>5, <2>6, TasksStep
<1>2. ASSUME NEW p \in Requests PROVE Belongs(Key(p), copy[p])'
  <2>1. CASE copy'[p] = copy[p]
    <3>1. CASE copy[p] = NoTask
      BY <2>1, <3>1 DEF Belongs
    <3>2. CASE copy[p] # NoTask
      <4>1. req'[p] = req[p]
        BY <3>2, Steady DEF AllReady, Ready
      <4> PICK u, k : u = copy[p] /\ k = Key(p)
        OBVIOUS
      <4>2. Belongs(k, u)'
        BY BelongsStays DEF VersionsBelong
      <4>3. copy'[p] = u /\ Key(p)' = k
        BY <2>1, <4>1 DEF Key
      <4> QED BY <4>2, <4>3 DEF Belongs
    <3> QED BY <3>1, <3>2
  <2>2. ASSUME Read(p) PROVE Belongs(Key(p), copy[p])'
    <3>1. Key(p) \in Tenants \X TaskIds
      BY <2>2, KeyType DEF Read
    <3> PICK u, k : u = tasks[Key(p)] /\ k = Key(p)
      OBVIOUS
    <3>2. Belongs(k, u)'
      BY <3>1, BelongsStays DEF VersionsBelong
    <3>3. copy'[p] = u /\ Key(p)' = k
      BY <2>2 DEF Read, Key, TypeOK
    <3> QED BY <3>2, <3>3 DEF Belongs
  <2> QED BY <2>1, <2>2, CopyStep
<1>3. ASSUME NEW p \in Requests, runPc'[p] = "set" PROVE Belongs(RunKey(p), report[p])'
  <2>0. runPc[p] # "none" => run'[p] = run[p]
    BY Steady DEF AllReady, Ready
  <2>1. CASE runPc[p] = "set" /\ report'[p] = report[p]
    <3> PICK u, k : u = report[p] /\ k = RunKey(p)
      OBVIOUS
    <3>1. Belongs(k, u)'
      BY <2>1, BelongsStays DEF VersionsBelong
    <3>2. report'[p] = u /\ RunKey(p)' = k
      BY <2>0, <2>1 DEF RunKey
    <3> QED BY <3>1, <3>2 DEF Belongs
  <2>2. ASSUME Report(p) PROVE Belongs(RunKey(p), report[p])'
    <3>1. PICK state \in TaskState : report' = [report EXCEPT ![p] = Reported(p, state)]
      BY <2>2 DEF Report
    <3> PICK u, k : u = Reported(p, state) /\ k = RunKey(p)
      OBVIOUS
    <3>2. Belongs(k, u)'
      BY <2>2, BelongsStays, WrittenBelongs DEF Report
    <3>3. report'[p] = u /\ RunKey(p)' = k
      BY <2>2, <3>1 DEF Report, RunKey, TypeOK
    <3> QED BY <3>2, <3>3 DEF Belongs
  <2> QED BY <1>3, <2>1, <2>2, ReportStep
<1> QED BY <1>1, <1>2, <1>3 DEF VersionsBelong

\* Nothing is deleted.
LEMMA StoreGrows ==
    ASSUME TypeOK, AllReady, [Next]_vars
    PROVE  /\ contextIndex \subseteq contextIndex'
           /\ tenantIndex \subseteq tenantIndex'
           /\ \A k \in Tenants \X TaskIds : tasks[k] # NoTask => tasks'[k] # NoTask
<1>1. contextIndex \subseteq contextIndex' /\ tenantIndex \subseteq tenantIndex'
  BY DEF Next, Handle, Engine, handleSendMessage, handleCreatePushConfig, handleReplayFrom,
         GRPCSendMessage, GetExisting, CreateRecord, CreateContext, CreateTenant, Read,
         NotFound, Set, Index, Break, StartRun, Report, ReportSet, ReportIndex, ReportBreaks,
         RunReturns, vars, storeVars
<1>2. ASSUME NEW k \in Tenants \X TaskIds, tasks[k] # NoTask PROVE tasks'[k] # NoTask
  <2>1. ASSUME NEW q \in Requests, CreateRecord(q) PROVE tasks'[k] # NoTask
    <3> DEFINE t == [contextID |-> run[q].contextID,
                     state |-> IF req[q].kind = "replay" THEN "working" ELSE "submitted",
                     webhooks |-> <<>>, by |-> q]
    <3>1. t \in Task
      BY DEF Task, TaskState, TypeOK
    <3>2. tasks' = [tasks EXCEPT ![Key(q)] = t]
      BY <2>1 DEF CreateRecord
    <3> HIDE DEF t
    <3> QED BY <1>2, <3>1, <3>2 DEF TypeOK
  <2>2. ASSUME NEW q \in Requests, Set(q) PROVE tasks'[k] # NoTask
    <3>1. Changed(q) # NoTask
      BY <2>2, ChangedType DEF Set
    <3> QED BY <1>2, <2>2, <3>1 DEF Set, TypeOK
  <2>3. ASSUME NEW q \in Requests, ReportSet(q) PROVE tasks'[k] # NoTask
    <3>1. report[q] # NoTask
      BY <2>3 DEF ReportSet, AllReady, Ready
    <3> QED BY <1>2, <2>3, <3>1 DEF ReportSet, TypeOK
  <2> QED BY <1>2, <2>1, <2>2, <2>3, TasksStep
<1> QED BY <1>1, <1>2

\* How a request that creates a task gets there, and how it goes on.
LEMMA LeavesContext ==
    ASSUME TypeOK, [Next]_vars, NEW p \in Requests, pc[p] = "context", pc'[p] = "tenant"
    PROVE  CreateContext(p)
<1> USE DEF TypeOK
<1>1. CASE pc' = pc
  BY <1>1
<1>2. ASSUME NEW q \in Requests, handleSendMessage(q) \/ handleCreatePushConfig(q)
                                 \/ handleReplayFrom(q) \/ GRPCSendMessage(q)
      PROVE  CreateContext(p)
  <2>1. PICK kind, tenant, task, next : Ask(q, kind, tenant, task, next)
    BY <1>2 DEF handleSendMessage, handleCreatePushConfig, handleReplayFrom, GRPCSendMessage
  <2> QED BY <2>1 DEF Ask
<1>3. ASSUME NEW q \in Requests, Handle(q) PROVE CreateContext(p)
  BY <1>3 DEF Handle, GetExisting, CreateRecord, CreateContext, CreateTenant, Read, NotFound,
              Set, Index, Break, StartRun
<1> QED BY <1>1, <1>2, <1>3 DEF Next, Engine, Report, ReportSet, ReportIndex, ReportBreaks,
                                RunReturns, vars, handlerVars

LEMMA LeavesTenant ==
    ASSUME TypeOK, [Next]_vars, NEW p \in Requests, Creates(p),
           pc[p] = "tenant", pc'[p] = "start"
    PROVE  CreateTenant(p)
<1> USE DEF TypeOK
<1>1. CASE pc' = pc
  BY <1>1
<1>2. ASSUME NEW q \in Requests, handleSendMessage(q) \/ handleCreatePushConfig(q)
                                 \/ handleReplayFrom(q) \/ GRPCSendMessage(q)
      PROVE  CreateTenant(p)
  <2>1. PICK kind, tenant, task, next : Ask(q, kind, tenant, task, next)
    BY <1>2 DEF handleSendMessage, handleCreatePushConfig, handleReplayFrom, GRPCSendMessage
  <2> QED BY <2>1 DEF Ask
<1>3. ASSUME NEW q \in Requests, Handle(q) PROVE CreateTenant(p)
  BY <1>3 DEF Handle, GetExisting, CreateRecord, CreateContext, CreateTenant, Read, NotFound,
              Set, Index, Break, StartRun, Creates
<1> QED BY <1>1, <1>2, <1>3 DEF Next, Engine, Report, ReportSet, ReportIndex, ReportBreaks,
                                RunReturns, vars, handlerVars

LEMMA Starts ==
    ASSUME TypeOK, [Next]_vars, NEW p \in Requests, Listed(p), Ready(p), Creates(p)',
           pc[p] \in {"new", "lookup", "create", "read", "set", "index"}
    PROVE  pc'[p] \in {"new", "lookup", "create", "error"} \/ CreateRecord(p)
<1> DEFINE Goal == pc'[p] \in {"new", "lookup", "create", "error"} \/ CreateRecord(p)
<1> USE DEF TypeOK, Creates
<1>0. Creates(p) => pc[p] \in {"new", "lookup", "create"}
  BY DEF Listed
<1>1. CASE pc[p] \notin {"new", "lookup"}
  <2>1. Creates(p) /\ pc[p] = "create"
    BY <1>0, <1>1, Steady
  <2>2. CASE pc' = pc
    BY <2>1, <2>2
  <2>3. ASSUME NEW q \in Requests, handleSendMessage(q) \/ handleCreatePushConfig(q)
                                   \/ handleReplayFrom(q) \/ GRPCSendMessage(q)
        PROVE  Goal
    <3>1. PICK kind, tenant, task, next : Ask(q, kind, tenant, task, next)
      BY <2>3 DEF handleSendMessage, handleCreatePushConfig, handleReplayFrom, GRPCSendMessage
    <3> QED BY <2>1, <3>1 DEF Ask
  <2>4. ASSUME NEW q \in Requests, Handle(q) PROVE Goal
    BY <2>1, <2>4 DEF Handle, GetExisting, CreateRecord, CreateContext, CreateTenant, Read,
                      NotFound, Set, Index, Break, StartRun
  <2> QED BY <2>2, <2>3, <2>4 DEF Next, Engine, Report, ReportSet, ReportIndex, ReportBreaks,
                                  RunReturns, vars, handlerVars
<1>2. CASE pc[p] = "lookup"
  <2>1. CASE pc' = pc
    BY <1>2, <2>1
  <2>2. ASSUME NEW q \in Requests, handleSendMessage(q) \/ handleCreatePushConfig(q)
                                   \/ handleReplayFrom(q) \/ GRPCSendMessage(q)
        PROVE  Goal
    <3>1. PICK kind, tenant, task, next : Ask(q, kind, tenant, task, next)
      BY <2>2 DEF handleSendMessage, handleCreatePushConfig, handleReplayFrom, GRPCSendMessage
    <3> QED BY <1>2, <3>1 DEF Ask
  <2>3. ASSUME NEW q \in Requests, GetExisting(q) PROVE Goal
    BY <1>2, <2>3, KindChanged DEF GetExisting
  <2>4. ASSUME NEW q \in Requests, Handle(q), ~ GetExisting(q) PROVE Goal
    BY <1>2, <2>4 DEF Handle, CreateRecord, CreateContext, CreateTenant, Read,
                      NotFound, Set, Index, Break, StartRun
  <2> QED BY <2>1, <2>2, <2>3, <2>4 DEF Next, Engine, Report, ReportSet, ReportIndex,
                                        ReportBreaks, RunReturns, vars, handlerVars
<1>3. CASE pc[p] = "new"
  <2>1. CASE pc' = pc
    BY <1>3, <2>1
  <2>2. ASSUME NEW q \in Requests, handleSendMessage(q) \/ handleReplayFrom(q) PROVE Goal
    BY <1>3, <2>2 DEF handleSendMessage, handleReplayFrom, Ask
  <2>3. ASSUME NEW q \in Requests, handleCreatePushConfig(q) \/ GRPCSendMessage(q) PROVE Goal
    BY <1>3, <2>3 DEF handleCreatePushConfig, GRPCSendMessage, Ask
  <2>4. ASSUME NEW q \in Requests, Handle(q) PROVE Goal
    BY <1>3, <2>4 DEF Handle, GetExisting, CreateRecord, CreateContext, CreateTenant, Read,
                      NotFound, Set, Index, Break, StartRun
  <2> QED BY <2>1, <2>2, <2>3, <2>4 DEF Next, Engine, Report, ReportSet, ReportIndex,
                                        ReportBreaks, RunReturns, vars, handlerVars
<1> QED BY <1>1, <1>2, <1>3

\* Requests list what they create, command by command.
LEMMA ListedStays ==
    ASSUME TypeOK, AllReady, AllListed, [Next]_vars
    PROVE  AllListed'
<1> SUFFICES ASSUME NEW p \in Requests, Creates(p)' PROVE Listed(p)'
  BY DEF AllListed, Listed
<1>0. Listed(p) /\ Ready(p)
  BY DEF AllListed, AllReady
<1>1. CASE pc[p] \in {"context", "tenant", "start", "ok", "error"}
  <2>1. req'[p] = req[p] /\ run'[p] = run[p]
    BY <1>1, Steady
  <2>2. Key(p)' = Key(p) /\ Creates(p)
    BY <2>1 DEF Key, Creates
  <2>3. Onward(p)
    BY <1>1, <2>2, GoesOnward
  <2>4. Key(p) \in Tenants \X TaskIds
    BY <1>1, KeyType
  <2>5. pc'[p] \in {"context", "tenant", "start", "ok"} => tasks'[Key(p)] # NoTask
    BY <1>0, <1>1, <2>2, <2>3, <2>4, StoreGrows DEF Onward, Listed
  <2>6. pc'[p] \in {"tenant", "start", "ok"} => ContextListed(p)'
    <3>1. CASE pc[p] = "context" /\ pc'[p] = "tenant"
      <4>1. CreateContext(p)
        BY <3>1, LeavesContext
      <4> QED BY <2>1, <4>1 DEF CreateContext, ContextListed
    <3>2. CASE pc[p] \in {"tenant", "start", "ok"}
      BY <1>0, <2>1, <2>2, <3>2, StoreGrows DEF Listed, ContextListed
    <3> QED BY <1>1, <2>3, <3>1, <3>2 DEF Onward
  <2>7. pc'[p] \in {"start", "ok"} => Key(p) \in tenantIndex'
    <3>1. CASE pc[p] = "tenant" /\ pc'[p] = "start"
      <4>1. CreateTenant(p)
        BY <3>1, <2>2, LeavesTenant
      <4> QED BY <4>1 DEF CreateTenant
    <3>2. CASE pc[p] \in {"start", "ok"}
      BY <1>0, <2>2, <3>2, StoreGrows DEF Listed
    <3> QED BY <1>1, <2>3, <3>1, <3>2 DEF Onward
  <2> QED BY <1>1, <2>2, <2>3, <2>5, <2>6, <2>7 DEF Listed, Onward
<1>2. CASE pc[p] \in {"new", "lookup", "create", "read", "set", "index"}
  <2>1. pc'[p] \in {"new", "lookup", "create", "error"} \/ CreateRecord(p)
    BY <1>0, <1>2, Starts
  <2>2. ASSUME CreateRecord(p) PROVE Listed(p)'
    <3> DEFINE t == [contextID |-> run[p].contextID,
                     state |-> IF req[p].kind = "replay" THEN "working" ELSE "submitted",
                     webhooks |-> <<>>, by |-> p]
    <3>1. t \in Task
      BY DEF Task, TaskState, TypeOK
    <3>2. /\ tasks' = [tasks EXCEPT ![Key(p)] = t]
          /\ pc'[p] = "context"
          /\ req' = req
      BY <2>2 DEF CreateRecord, TypeOK
    <3> HIDE DEF t
    <3>3. Key(p) \in Tenants \X TaskIds
      BY <2>2, KeyType DEF CreateRecord
    <3>4. tasks'[Key(p)] # NoTask /\ Key(p)' = Key(p)
      BY <3>1, <3>2, <3>3 DEF TypeOK, Key
    <3> QED BY <3>2, <3>4 DEF Listed
  <2> QED BY <2>1, <2>2 DEF Listed
<1> QED BY <1>1, <1>2 DEF TypeOK

\* IndexInv is inductive.
LEMMA IndexInvariant == Spec => [](TypeOK /\ AllReady /\ IndexInv)
<1>1. Init => IndexInv
  BY DEF Init, IndexInv, VersionsBelong, Belongs, AllListed, Listed, Creates
<1>2. TypeOK /\ AllReady /\ IndexInv /\ [Next]_vars => IndexInv'
  BY VersionsStay, ListedStays DEF IndexInv
<1> QED BY <1>1, <1>2, TaskTypeCorrect, PTL DEF Spec

\* Create lists what it stores before it returns, and index entries stay: every
\* record whose creation was not cut short is listed under tenant and context.
THEOREM StoredRecordsAreListed == Spec => []StoredIsListed
<1>1. TypeOK /\ AllReady /\ IndexInv => StoredIsListed
  <2> SUFFICES ASSUME TypeOK, IndexInv, NEW k \in Tenants \X TaskIds, tasks[k] # NoTask,
                      ~ Creating(tasks[k].by)
               PROVE  /\ k \in tenantIndex
                      /\ \/ tasks[k].contextID = None
                         \/ <<k[1], tasks[k].contextID, k[2]>> \in contextIndex
    BY DEF StoredIsListed
  <2> DEFINE q == tasks[k].by
  <2>1. /\ q \in Requests /\ Creates(q) /\ Key(q) = k
        /\ pc[q] \in {"start", "ok"}
        /\ tasks[k].contextID = run[q].contextID
    BY DEF IndexInv, VersionsBelong, Belongs, Creating
  <2>2. ContextListed(q) /\ Key(q) \in tenantIndex
    BY <2>1 DEF IndexInv, AllListed, Listed
  <2>3. k[1] = req[q].tenant /\ k[2] = req[q].task
    BY <2>1 DEF Key
  <2> QED BY <2>1, <2>2, <2>3 DEF ContextListed
<1> QED BY <1>1, IndexInvariant, PTL

\* Runs are started only after Create has returned without an error, and no
\* command takes a record away: a started run has a record to be found by.
THEOREM StartedRunsHaveRecords == Spec => []RunHasRecord
<1>1. TypeOK /\ AllReady /\ IndexInv => RunHasRecord
  BY DEF AllReady, Ready, IndexInv, AllListed, Listed, Creates, RunHasRecord
<1> QED BY <1>1, IndexInvariant, PTL
-----------------------------------------------------------------------------
(***************************************************************************)
(* Webhooks.  Two writers that have read the same record have overlapped;  *)
(* where none have, every version of the record, stored or in a writer's   *)
(* hands, has the webhooks that were added before.                         *)
(***************************************************************************)
OverlapsKept ==
    \A p, q \in Requests :
        /\ p # q /\ pc[p] = "set" /\ pc[q] = "set" /\ Key(p) = Key(q) => Key(q) \in overlaps
        /\ pc[p] = "set" /\ runPc[q] = "set" /\ Key(p) = RunKey(q) => Key(p) \in overlaps
        /\ p # q /\ runPc[p] = "set" /\ runPc[q] = "set" /\ RunKey(p) = RunKey(q) =>
              RunKey(q) \in overlaps

\* Request q has added its webhook.
Added(q) == req[q].kind = "push" /\ pc[q] \in {"index", "ok"}

\* If t is a version of the record that q has changed, it has the webhook.
Keeps(q, k, t) ==
    t # NoTask /\ k = Key(q) /\ t.by = copy[q].by => HasWebhook(t, q)

WebhooksKept ==
    \A q \in Requests : Added(q) =>
        /\ tasks[Key(q)] # NoTask
        /\ copy[q] # NoTask
        /\ \/ Key(q) \in overlaps
           \/ /\ \A k \in Tenants \X TaskIds : Keeps(q, k, tasks[k])
              /\ \A p \in Requests : pc[p] = "set" => Keeps(q, Key(p), copy[p])
              /\ \A p \in Requests : runPc[p] = "set" => Keeps(q, RunKey(p), report[p])

\* Only Read takes a handler to where it writes; overlaps are never forgotten.
LEMMA SetStep ==
    ASSUME TypeOK, AllReady, [Next]_vars, NEW p \in Requests, pc'[p] = "set"
    PROVE  (pc[p] = "set" /\ copy'[p] = copy[p]) \/ Read(p)
<1> USE DEF TypeOK
<1> DEFINE Goal == pc[p] = "set" \/ Read(p)
<1>1. ASSUME pc' = pc PROVE Goal
  BY <1>1
<1>2. ASSUME NEW q \in Requests, handleSendMessage(q) \/ handleCreatePushConfig(q)
                                 \/ handleReplayFrom(q) \/ GRPCSendMessage(q)
      PROVE  Goal
  <2>1. PICK kind, tenant, task, next :
           Ask(q, kind, tenant, task, next) /\ next \in {"create", "lookup", "read", "ok"}
    BY <1>2 DEF handleSendMessage, handleCreatePushConfig, handleReplayFrom, GRPCSendMessage
  <2> QED BY <2>1 DEF Ask
<1>3. ASSUME NEW q \in Requests, Handle(q) PROVE Goal
  BY <1>3 DEF Handle, GetExisting, CreateRecord, CreateContext, CreateTenant, Read, NotFound,
              Set, Index, Break, StartRun
<1>4. Goal
  BY <1>1, <1>2, <1>3 DEF Next, Engine, Report, ReportSet, ReportIndex, ReportBreaks,
                          RunReturns, vars, handlerVars
<1> QED BY <1>4, CopyStep DEF Read

LEMMA OverlapsStay ==
    ASSUME [Next]_vars
    PROVE  overlaps \subseteq overlaps'
BY DEF Next, Handle, Engine, handleSendMessage, handleCreatePushConfig, handleReplayFrom,
       GRPCSendMessage, GetExisting, CreateRecord, CreateContext, CreateTenant, Read,
       NotFound, Set, Index, Break, StartRun, Report, ReportSet, ReportIndex, ReportBreaks,
       RunReturns, vars, WithOverlap

LEMMA OverlapsKeptStays ==
    ASSUME TypeOK, AllReady, OverlapsKept, [Next]_vars
    PROVE  OverlapsKept'
<1> SUFFICES ASSUME NEW p \in Requests, NEW q \in Requests
             PROVE  /\ p # q /\ pc'[p] = "set" /\ pc'[q] = "set" /\ Key(p)' = Key(q)' =>
                          Key(q)' \in overlaps'
                    /\ pc'[p] = "set" /\ runPc'[q] = "set" /\ Key(p)' = RunKey(q)' =>
                          Key(p)' \in overlaps'
                    /\ p # q /\ runPc'[p] = "set" /\ runPc'[q] = "set"
                             /\ RunKey(p)' = RunKey(q)' => RunKey(q)' \in overlaps'
  BY DEF OverlapsKept
<1>1. ASSUME NEW r \in Requests, pc'[r] = "set" PROVE Key(r)' = Key(r)
  BY <1>1, SetStep, Steady DEF Key, Read
<1>2. ASSUME NEW r \in Requests, runPc'[r] = "set" PROVE RunKey(r)' = RunKey(r)
  BY <1>2, ReportStep, Steady DEF RunKey, Report, AllReady, Ready
<1>3. ASSUME NEW r \in Requests, Read(r), Busy(Key(r)) PROVE Key(r) \in overlaps'
  BY <1>3 DEF Read, WithOverlap
<1>4. ASSUME NEW r \in Requests, Report(r), Busy(RunKey(r)) PROVE RunKey(r) \in overlaps'
  BY <1>4 DEF Report, WithOverlap
<1>5. ASSUME p # q, pc'[p] = "set", pc'[q] = "set", Key(p)' = Key(q)' PROVE Key(q)' \in overlaps'
  <2>1. Key(p) = Key(q) /\ Key(q)' = Key(q)
    BY <1>1, <1>5
  <2>2. CASE pc[p] = "set" /\ pc[q] = "set"
    BY <1>5, <2>1, <2>2, OverlapsStay DEF OverlapsKept
  <2>3. CASE Read(p)
    <3>1. pc[q] = "set"
      BY <1>5, <2>3 DEF Read, TypeOK
    <3> QED BY <1>3, <2>1, <2>3, <3>1 DEF Busy
  <2>4. CASE Read(q)
    <3>1. pc[p] = "set"
      BY <1>5, <2>4 DEF Read, TypeOK
    <3> QED BY <1>3, <2>1, <2>4, <3>1 DEF Busy
  <2> QED BY <1>5, <2>2, <2>3, <2>4, SetStep
<1>6. ASSUME pc'[p] = "set", runPc'[q] = "set", Key(p)' = RunKey(q)' PROVE Key(p)' \in overlaps'
  <2>1. Key(p) = RunKey(q) /\ Key(p)' = Key(p)
    BY <1>1, <1>2, <1>6
  <2>2. CASE pc[p] = "set" /\ runPc[q] = "set"
    BY <1>6, <2>1, <2>2, OverlapsStay DEF OverlapsKept
  <2>3. CASE Read(p)
    <3>1. runPc[q] = "set"
      BY <1>6, <2>3 DEF Read, runVars
    <3> QED BY <1>3, <2>1, <2>3, <3>1 DEF Busy
  <2>4. CASE Report(q)
    <3>1. pc[p] = "set"
      BY <1>6, <2>4 DEF Report, handlerVars
    <3> QED BY <1>4, <2>1, <2>4, <3>1 DEF Busy
  <2> QED BY <1>6, <2>2, <2>3, <2>4, SetStep, ReportStep
<1>7. ASSUME p # q, runPc'[p] = "set", runPc'[q] = "set", RunKey(p)' = RunKey(q)'
      PROVE  RunKey(q)' \in overlaps'
  <2>1. RunKey(p) = RunKey(q) /\ RunKey(q)' = RunKey(q)
    BY <1>2, <1>7
  <2>2. CASE runPc[p] = "set" /\ runPc[q] = "set"
    BY <1>7, <2>1, <2>2, OverlapsStay DEF OverlapsKept
  <2>3. CASE Report(p)
    <3>1. runPc[q] = "set"
      BY <1>7, <2>3 DEF Report, TypeOK
    <3> QED BY <1>4, <2>1, <2>3, <3>1 DEF Busy
  <2>4. CASE Report(q)
    <3>1. runPc[p] = "set"
      BY <1>7, <2>4 DEF Report, TypeOK
    <3> QED BY <1>4, <2>1, <2>4, <3>1 DEF Busy
  <2> QED BY <1>7, <2>2, <2>3, <2>4, ReportStep
<1> QED BY <1>5, <1>6, <1>7

\* Changing a record does not take a webhook away, and adding one adds it.
LEMMA WebhookKept ==
    ASSUME NEW t \in Task, NEW q \in Requests, HasWebhook(t, q)
    PROVE  /\ \A state \in TaskState : HasWebhook([t EXCEPT !.state = state], q)
           /\ \A p \in Requests : HasWebhook([t EXCEPT !.webhooks = Append(@, p)], q)
<1>1. t.webhooks \in Seq(Requests)
  BY DEF Task
<1>2. PICK i \in 1 .. Len(t.webhooks) : t.webhooks[i] = q
  BY DEF HasWebhook
<1>3. \A state \in TaskState : [t EXCEPT !.state = state].webhooks = t.webhooks
  BY DEF Task
<1>4. ASSUME NEW p \in Requests PROVE HasWebhook([t EXCEPT !.webhooks = Append(@, p)], q)
  <2> DEFINE w == Append(t.webhooks, p)
  <2>1. i \in 1 .. Len(w) /\ w[i] = q
    BY <1>1, <1>2
  <2> HIDE DEF w
  <2>2. [t EXCEPT !.webhooks = w].webhooks = w
    BY DEF Task
  <2> QED BY <2>1, <2>2 DEF HasWebhook, w
<1> QED BY <1>2, <1>3, <1>4 DEF HasWebhook

LEMMA WebhookIsAdded ==
    ASSUME NEW t \in Task, NEW q \in Requests
    PROVE  HasWebhook([t EXCEPT !.webhooks = Append(@, q)], q)
<1>1. t.webhooks \in Seq(Requests)
  BY DEF Task
<1> DEFINE w == Append(t.webhooks, q)
<1>2. Len(w) \in 1 .. Len(w) /\ w[Len(w)] = q
  BY <1>1
<1> HIDE DEF w
<1>3. [t EXCEPT !.webhooks = w].webhooks = w
  BY DEF Task
<1> QED BY <1>2, <1>3 DEF HasWebhook, w

\* A changed version is a version of the same record.
LEMMA SameCreator ==
    ASSUME NEW t \in Task
    PROVE  /\ \A state \in TaskState : [t EXCEPT !.state = state].by = t.by
           /\ \A q \in Requests : [t EXCEPT !.webhooks = Append(@, q)].by = t.by
<1>1. ASSUME NEW w PROVE [t EXCEPT !.webhooks = w].by = t.by
  BY DEF Task
<1>2. \A state \in TaskState : [t EXCEPT !.state = state].by = t.by
  BY DEF Task
<1> QED BY <1>1, <1>2

\* What writers write keeps the webhooks that what they read had.
LEMMA WritersKeep ==
    ASSUME TypeOK, AllReady, NEW q \in Requests, NEW p \in Requests, NEW k
    PROVE  /\ pc[p] = "set" /\ Keeps(q, k, copy[p]) => Keeps(q, k, Changed(p))
           /\ tasks[RunKey(p)] \in Task /\ Keeps(q, k, tasks[RunKey(p)]) =>
                 \A state \in TaskState : Keeps(q, k, Reported(p, state))
<1>1. ASSUME pc[p] = "set", Keeps(q, k, copy[p]) PROVE Keeps(q, k, Changed(p))
  <2>1. copy[p] \in Task /\ copy[p] # NoTask
    BY <1>1 DEF TypeOK, AllReady, Ready
  <2>2. "working" \in TaskState
    BY DEF TaskState
  <2>3. Changed(p).by = copy[p].by
    BY <2>1, <2>2, SameCreator DEF Changed
  <2>4. HasWebhook(copy[p], q) => HasWebhook(Changed(p), q)
    BY <2>1, <2>2, WebhookKept DEF Changed
  <2> QED BY <1>1, <2>1, <2>3, <2>4 DEF Keeps
<1>2. ASSUME tasks[RunKey(p)] \in Task, Keeps(q, k, tasks[RunKey(p)]), NEW state \in TaskState
      PROVE  Keeps(q, k, Reported(p, state))
  <2>1. Reported(p, state).by = tasks[RunKey(p)].by
    BY <1>2, SameCreator DEF Reported
  <2>2. HasWebhook(tasks[RunKey(p)], q) => HasWebhook(Reported(p, state), q)
    BY <1>2, WebhookKept DEF Reported
  <2> QED BY <1>2, <2>1, <2>2 DEF Keeps
<1> QED BY <1>1, <1>2

LEMMA KeepsStays ==
    ASSUME NEW q \in Requests, NEW k, NEW t, Keeps(q, k, t),
           req'[q] = req[q], copy'[q] = copy[q]
    PROVE  Keeps(q, k, t)'
BY DEF Keeps, Key

\* Only Set adds a webhook.
LEMMA AddedStep ==
    ASSUME TypeOK, AllReady, [Next]_vars, NEW q \in Requests, Added(q)'
    PROVE  \/ Added(q) /\ copy'[q] = copy[q] /\ req'[q] = req[q]
           \/ Set(q) /\ req[q].kind = "push" /\ req'[q] = req[q]
<1> USE DEF TypeOK
<1> DEFINE Goal == Added(q) \/ Set(q)
<1>0. Ready(q)
  BY DEF AllReady
<1>1. ASSUME pc[q] = "new" PROVE FALSE
  <2>1. ASSUME NEW p \in Requests, handleSendMessage(p) \/ handleReplayFrom(p) PROVE FALSE
    BY <1>1, <2>1 DEF handleSendMessage, handleReplayFrom, Ask, Added
  <2>2. ASSUME NEW p \in Requests, handleCreatePushConfig(p) \/ GRPCSendMessage(p) PROVE FALSE
    BY <1>1, <2>2 DEF handleCreatePushConfig, GRPCSendMessage, Ask, Added
  <2>3. ASSUME NEW p \in Requests, Handle(p) PROVE FALSE
    BY <1>1, <2>3 DEF Handle, GetExisting, CreateRecord, CreateContext, CreateTenant, Read,
                      NotFound, Set, Index, Break, StartRun, Added
  <2>4. CASE pc' = pc
    BY <1>1, <2>4 DEF Added
  <2> QED BY <2>1, <2>2, <2>3, <2>4 DEF Next, Engine, Report, ReportSet, ReportIndex,
                                        ReportBreaks, RunReturns, vars, handlerVars
<1>2. ASSUME pc[q] = "lookup" PROVE FALSE
  <2>1. ASSUME NEW p \in Requests, handleSendMessage(p) \/ handleCreatePushConfig(p)
                                   \/ handleReplayFrom(p) \/ GRPCSendMessage(p)
        PROVE  FALSE
    <3>1. PICK kind, tenant, task, next : Ask(p, kind, tenant, task, next)
      BY <2>1 DEF handleSendMessage, handleCreatePushConfig, handleReplayFrom, GRPCSendMessage
    <3> QED BY <1>2, <3>1 DEF Ask, Added
  <2>2. ASSUME NEW p \in Requests, Handle(p) PROVE FALSE
    BY <1>2, <2>2 DEF Handle, GetExisting, CreateRecord, CreateContext, CreateTenant, Read,
                      NotFound, Set, Index, Break, StartRun, Added
  <2>3. CASE pc' = pc
    BY <1>2, <2>3 DEF Added
  <2> QED BY <2>1, <2>2, <2>3 DEF Next, Engine, Report, ReportSet, ReportIndex,
                                  ReportBreaks, RunReturns, vars, handlerVars
<1>3. req'[q] = req[q] /\ req[q].kind = "push"
  BY <1>1, <1>2, Steady DEF Added
<1>4. pc[q] \in {"read", "set", "index", "ok", "error"}
  BY <1>0, <1>3 DEF Ready
<1>5. ASSUME pc' = pc PROVE Goal
  BY <1>3, <1>5 DEF Added
<1>6. ASSUME NEW p \in Requests, handleSendMessage(p) \/ handleCreatePushConfig(p)
                                 \/ handleReplayFrom(p) \/ GRPCSendMessage(p)
      PROVE  Goal
  <2>1. PICK kind, tenant, task, next : Ask(p, kind, tenant, task, next)
    BY <1>6 DEF handleSendMessage, handleCreatePushConfig, handleReplayFrom, GRPCSendMessage
  <2> QED BY <1>3, <1>4, <2>1 DEF Ask, Added
<1>7. ASSUME NEW p \in Requests, Handle(p) PROVE Goal
  BY <1>3, <1>4, <1>7 DEF Handle, GetExisting, CreateRecord, CreateContext, CreateTenant, Read,
                          NotFound, Set, Index, Break, StartRun, Added
<1>8. Goal
  BY <1>5, <1>6, <1>7 DEF Next, Engine, Report, ReportSet, ReportIndex, ReportBreaks,
                          RunReturns, vars, handlerVars
<1>9. Added(q) => copy'[q] = copy[q]
  BY CopyStep DEF Added, Read
<1> QED BY <1>3, <1>8, <1>9

\* WebhooksKept for a request that has added its webhook before the step.
LEMMA AddedStays ==
    ASSUME TypeOK, AllReady, VersionsBelong, WebhooksKept, [Next]_vars,
           NEW q \in Requests, Added(q), copy'[q] = copy[q], req'[q] = req[q],
           Key(q) \notin overlaps
    PROVE  /\ \A k \in Tenants \X TaskIds : Keeps(q, k, tasks[k])'
           /\ \A p \in Requests : pc'[p] = "set" => Keeps(q, Key(p), copy[p])'
           /\ \A p \in Requests : runPc'[p] = "set" => Keeps(q, RunKey(p), report[p])'
<1>1. /\ copy[q] # NoTask
      /\ \A k \in Tenants \X TaskIds : Keeps(q, k, tasks[k])
      /\ \A p \in Requests : pc[p] = "set" => Keeps(q, Key(p), copy[p])
      /\ \A p \in Requests : runPc[p] = "set" => Keeps(q, RunKey(p), report[p])
  BY DEF WebhooksKept
<1>2. ASSUME NEW k \in Tenants \X TaskIds PROVE Keeps(q, k, tasks[k])'
  <2>1. CASE tasks'[k] = tasks[k]
    <3> PICK t : t = tasks[k]
      OBVIOUS
    <3>1. Keeps(q, k, t)'
      BY <1>1, KeepsStays
    <3> QED BY <2>1, <3>1 DEF Keeps
  <2>2. ASSUME NEW p \in Requests, CreateRecord(p) PROVE Keeps(q, k, tasks[k])'
    <3>1. CASE k = Key(p)
      <4>1. tasks'[k].by = p
        BY <2>2, <3>1 DEF CreateRecord, TypeOK
      <4>2. copy[q].by # p
        BY <1>1, <2>2 DEF CreateRecord, VersionsBelong, Belongs
      <4> QED BY <4>1, <4>2 DEF Keeps
    <3>2. CASE k # Key(p)
      BY <2>1, <2>2, <3>2 DEF CreateRecord, TypeOK
    <3> QED BY <3>1, <3>2
  <2>3. ASSUME NEW p \in Requests, Set(p) PROVE Keeps(q, k, tasks[k])'
    <3>1. CASE k = Key(p)
      <4> PICK t : t = Changed(p)
        OBVIOUS
      <4>1. Keeps(q, k, t)
        BY <1>1, <2>3, <3>1, WritersKeep DEF Set
      <4>2. Keeps(q, k, t)'
        BY <4>1, KeepsStays
      <4>3. tasks'[k] = t
        BY <2>3, <3>1 DEF Set, TypeOK
      <4> QED BY <4>2, <4>3 DEF Keeps
    <3>2. CASE k # Key(p)
      BY <2>1, <2>3, <3>2 DEF Set, TypeOK
    <3> QED BY <3>1, <3>2
  <2>4. ASSUME NEW p \in Requests, ReportSet(p) PROVE Keeps(q, k, tasks[k])'
    <3>1. CASE k = RunKey(p)
      <4> PICK t : t = report[p]
        OBVIOUS
      <4>1. Keeps(q, k, t)'
        BY <1>1, <2>4, <3>1, KeepsStays DEF ReportSet
      <4>2. tasks'[k] = t
        BY <2>4, <3>1 DEF ReportSet, TypeOK
      <4> QED BY <4>1, <4>2 DEF Keeps
    <3>2. CASE k # RunKey(p)
      BY <2>1, <2>4, <3>2 DEF ReportSet, TypeOK
    <3> QED BY <3>1, <3>2
  <2> QED BY <2>1, <2>2, <2>3, <2>4, TasksStep
<1>3. ASSUME NEW p \in Requests, pc'[p] = "set" PROVE Keeps(q, Key(p), copy[p])'
  <2>0. Key(p)' = Key(p)
    BY <1>3, SetStep, Steady DEF Key, Read
  <2>1. PICK t : t = copy'[p] /\ Keeps(q, Key(p), t)
    <3>1. CASE pc[p] = "set" /\ copy'[p] = copy[p]
      BY <1>1, <3>1
    <3>2. CASE Read(p)
      <4>1. Key(p) \in Tenants \X TaskIds
        BY <3>2, KeyType DEF Read
      <4>2. copy'[p] = tasks[Key(p)]
        BY <3>2 DEF Read, TypeOK
      <4> QED BY <1>1, <4>1, <4>2
    <3> QED BY <1>3, <3>1, <3>2, SetStep
  <2> PICK k : k = Key(p)
    OBVIOUS
  <2>2. Keeps(q, k, t)'
    BY <2>1, KeepsStays
  <2> QED BY <2>0, <2>1, <2>2 DEF Keeps
<1>4. ASSUME NEW p \in Requests, runPc'[p] = "set" PROVE Keeps(q, RunKey(p), report[p])'
  <2>0. RunKey(p)' = RunKey(p)
    BY <1>4, ReportStep, Steady DEF RunKey, Report, AllReady, Ready
  <2>1. PICK t : t = report'[p] /\ Keeps(q, RunKey(p), t)
    <3>1. CASE runPc[p] = "set" /\ report'[p] = report[p]
      BY <1>1, <3>1
    <3>2. CASE Report(p)
      <4>1. RunKey(p) \in Tenants \X TaskIds
        BY <3>2 DEF Report, RunKey, TypeOK
      <4>2. tasks[RunKey(p)] \in Task /\ Keeps(q, RunKey(p), tasks[RunKey(p)])
        BY <1>1, <3>2, <4>1 DEF Report, TypeOK
      <4>3. PICK state \in TaskState : report' = [report EXCEPT ![p] = Reported(p, state)]
        BY <3>2 DEF Report
      <4>4. Keeps(q, RunKey(p), Reported(p, state))
        BY <4>2, WritersKeep
      <4> QED BY <4>3, <4>4 DEF TypeOK
    <3> QED BY <1>4, <3>1, <3>2, ReportStep
  <2> PICK k : k = RunKey(p)
    OBVIOUS
  <2>2. Keeps(q, k, t)'
    BY <2>1, KeepsStays
  <2> QED BY <2>0, <2>1, <2>2 DEF Keeps
<1> QED BY <1>2, <1>3, <1>4

\* WebhooksKept for the request that adds its webhook in the step.
LEMMA AddedNow ==
    ASSUME TypeOK, AllReady, OverlapsKept, [Next]_vars,
           NEW q \in Requests, Set(q), req[q].kind = "push", Key(q) \notin overlaps
    PROVE  /\ \A k \in Tenants \X TaskIds : Keeps(q, k, tasks[k])'
           /\ \A p \in Requests : pc'[p] = "set" => Keeps(q, Key(p), copy[p])'
           /\ \A p \in Requests : runPc'[p] = "set" => Keeps(q, RunKey(p), report[p])'
<1>1. /\ pc[q] = "set" /\ pc'[q] = "index"
      /\ Key(q)' = Key(q)
      /\ copy' = copy /\ runPc' = runPc /\ run' = run /\ req' = req
      /\ tasks' = [tasks EXCEPT ![Key(q)] = Changed(q)]
  BY DEF Set, TypeOK, Key, runVars
<1>2. copy[q] \in Task
  BY <1>1 DEF TypeOK, AllReady, Ready
<1>3. HasWebhook(Changed(q), q)
  BY <1>2, WebhookIsAdded DEF Changed
<1>4. ASSUME NEW k \in Tenants \X TaskIds PROVE Keeps(q, k, tasks[k])'
  BY <1>1, <1>3 DEF Keeps, TypeOK, HasWebhook
<1>5. ASSUME NEW p \in Requests, pc'[p] = "set" PROVE Keeps(q, Key(p), copy[p])'
  <2>1. p # q /\ pc[p] = "set" /\ Key(p)' = Key(p)
    BY <1>1, <1>5 DEF Set, TypeOK, Key
  <2>2. Key(p) # Key(q)
    BY <1>1, <2>1 DEF OverlapsKept
  <2> QED BY <1>1, <2>1, <2>2 DEF Keeps
<1>6. ASSUME NEW p \in Requests, runPc'[p] = "set" PROVE Keeps(q, RunKey(p), report[p])'
  <2>1. runPc[p] = "set" /\ RunKey(p)' = RunKey(p)
    BY <1>1, <1>6 DEF RunKey
  <2>2. RunKey(p) # Key(q)
    BY <1>1, <2>1 DEF OverlapsKept
  <2> QED BY <1>1, <2>1, <2>2 DEF Keeps
<1> QED BY <1>4, <1>5, <1>6

LEMMA WebhooksKeptStays ==
    ASSUME TypeOK, AllReady, VersionsBelong, OverlapsKept, WebhooksKept, [Next]_vars
    PROVE  WebhooksKept'
<1> SUFFICES ASSUME NEW q \in Requests, Added(q)'
             PROVE  /\ tasks'[Key(q)'] # NoTask
                    /\ copy'[q] # NoTask
                    /\ \/ Key(q)' \in overlaps'
                       \/ /\ \A k \in Tenants \X TaskIds : Keeps(q, k, tasks[k])'
                          /\ \A p \in Requests : pc'[p] = "set" => Keeps(q, Key(p), copy[p])'
                          /\ \A p \in Requests :
                                runPc'[p] = "set" => Keeps(q, RunKey(p), report[p])'
  BY DEF WebhooksKept
<1>1. CASE Added(q) /\ copy'[q] = copy[q] /\ req'[q] = req[q]
  <2>1. Key(q)' = Key(q)
    BY <1>1 DEF Key
  <2>2. Key(q) \in Tenants \X TaskIds
    BY <1>1, KeyType DEF Added
  <2>3. tasks'[Key(q)] # NoTask /\ copy'[q] # NoTask
    BY <1>1, <2>2, StoreGrows DEF WebhooksKept
  <2>4. CASE Key(q) \in overlaps
    BY <2>1, <2>3, <2>4, OverlapsStay
  <2>5. CASE Key(q) \notin overlaps
    BY <1>1, <2>1, <2>3, <2>5, AddedStays
  <2> QED BY <2>4, <2>5
<1>2. CASE Set(q) /\ req[q].kind = "push" /\ req'[q] = req[q]
  <2>1. Key(q)' = Key(q)
    BY <1>2 DEF Key
  <2>2. Key(q) \in Tenants \X TaskIds
    BY <1>2, KeyType DEF Set
  <2>3. Changed(q) # NoTask
    BY <1>2, ChangedType DEF Set
  <2>4. tasks'[Key(q)] # NoTask /\ copy'[q] # NoTask
    BY <1>2, <2>2, <2>3 DEF Set, TypeOK, AllReady, Ready
  <2>5. CASE Key(q) \in overlaps
    BY <2>1, <2>4, <2>5, OverlapsStay
  <2>6. CASE Key(q) \notin overlaps
    BY <1>2, <2>1, <2>4, <2>6, AddedNow
  <2> QED BY <2>5, <2>6
<1> QED BY <1>1, <1>2, AddedStep

\* AddWebhook and UpdateStatus write back all of the record that they have read.
\* That costs an acknowledged webhook only if two of them overlapped on the key.
THEOREM WebhooksAreLostOnlyToOverlaps == Spec => []WebhookLostOnlyToOverlap
<1>1. Init => OverlapsKept /\ WebhooksKept
  BY DEF Init, OverlapsKept, WebhooksKept, Added
<1>2. TypeOK /\ AllReady /\ IndexInv /\ OverlapsKept /\ WebhooksKept /\ [Next]_vars
         => OverlapsKept' /\ WebhooksKept'
  BY OverlapsKeptStays, WebhooksKeptStays DEF IndexInv
<1>3. TypeOK /\ AllReady /\ WebhooksKept => WebhookLostOnlyToOverlap
  <2> SUFFICES ASSUME TypeOK, AllReady, WebhooksKept, NEW q \in Requests, Acknowledged(q),
                      Key(q) \notin overlaps
               PROVE  HasWebhook(tasks[Key(q)], q)
    BY DEF WebhookLostOnlyToOverlap
  <2>1. Added(q)
    BY DEF Acknowledged, Added
  <2>2. Key(q) \in Tenants \X TaskIds
    BY <2>1, KeyType DEF Added
  <2>3. tasks[Key(q)] # NoTask /\ Keeps(q, Key(q), tasks[Key(q)])
    BY <2>1, <2>2 DEF WebhooksKept
  <2> QED BY <2>3 DEF Keeps, Acknowledged
<1> QED BY <1>1, <1>2, <1>3, IndexInvariant, PTL DEF Spec

=============================================================================
