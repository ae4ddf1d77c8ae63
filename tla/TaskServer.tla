----------------------------- MODULE TaskServer -----------------------------
(***************************************************************************)
(* Task records: the handlers of a2a/server.go and a2a/grpc_server.go that *)
(* create and change them and the runs of the engine that report to them,  *)
(* all through storage/task_store.go.  Each Redis command is a step.       *)
(*                                                                         *)
(* Left out: requests that are refused before they touch the store, the    *)
(* side lists of messages and artifacts, which nobody reads back, message  *)
(* histories, and the records' time to live of a week.                     *)
(***************************************************************************)
EXTENDS Naturals, Sequences, FiniteSets

CONSTANTS
    Requests,       \* requests; one stands also for the ids made up for it
    Tenants,
    Default,        \* the tenant of contexts that name none
    ClientTasks,    \* task ids that clients choose
    ClientContexts, \* context ids that clients choose
    None,           \* the empty id
    NoTask,         \* no value under a task's key
    MaxReports      \* model bound: status reports of one run

VARIABLES
    tasks,          \* tasks[k]: the record under key k = <<tenant, task id>>
    contextIndex,   \* <<tenant, context, task>> that are listed
    tenantIndex,    \* keys that are listed
    req,            \* req[q]: what the handler of request q works on
    pc,             \* pc[q]: where it is
    copy,           \* copy[q]: the record it has read
    run,            \* run[q]: task and context of the state q starts a run with
    runPc,          \* runPc[q]: where that run is
    report,         \* report[q]: the record it is about to write
    reports,        \* reports[q]: how often it has reported
    overlaps        \* keys a writer read between the read and the write of
                    \* another one (history)

storeVars == <<tasks, contextIndex, tenantIndex>>
handlerVars == <<req, pc, copy>>
runVars == <<run, runPc, report, reports>>
vars == <<storeVars, handlerVars, runVars, overlaps>>

TaskIds == ClientTasks \cup Requests
ContextIds == ClientContexts \cup Requests \cup {None}
TaskState == {"submitted", "working", "input_required", "completed", "failed"}

\* What the properties tell apart of a Task.  A webhook is the request that
\* registered it.  by: the request that created the record (history).
Task == [contextID : ContextIds, state : TaskState, webhooks : Seq(Requests), by : Requests]

ASSUME TaskAssumption ==
    /\ Default \in Tenants
    /\ None \notin ClientTasks \cup ClientContexts \cup Requests
    /\ NoTask \notin Task
    /\ MaxReports \in Nat

Key(q) == <<req[q].tenant, req[q].task>>

\* Runs report to the task that their state names, as the default tenant.
RunKey(q) == <<Default, run[q].task>>

Init ==
    /\ tasks = [k \in Tenants \X TaskIds |-> NoTask]
    /\ contextIndex = {}
    /\ tenantIndex = {}
    /\ req = [q \in Requests |-> [kind |-> "none", tenant |-> Default, task |-> None]]
    /\ pc = [q \in Requests |-> "new"]
    /\ copy = [q \in Requests |-> NoTask]
    /\ run = [q \in Requests |-> [task |-> None, contextID |-> None]]
    /\ runPc = [q \in Requests |-> "none"]
    /\ report = [q \in Requests |-> NoTask]
    /\ reports = [q \in Requests |-> 0]
    /\ overlaps = {}
-----------------------------------------------------------------------------
(***************************************************************************)
(* Requests arrive.                                                        *)
(***************************************************************************)
Ask(q, kind, tenant, task, next) ==
    /\ pc[q] = "new"
    /\ pc' = [pc EXCEPT ![q] = next]
    /\ req' = [req EXCEPT ![q] = [kind |-> kind, tenant |-> tenant, task |-> task]]

\* The state the run will start with names this task and this context.
Prepare(q, task, contextID) ==
    run' = [run EXCEPT ![q] = [task |-> task, contextID |-> contextID]]

\* message/send: with a task id it is looked up first, else one is made up.
\* A client that names an id the server has made up is in the place of one
\* that names its own.
handleSendMessage(q) ==
    /\ \E tenant \in Tenants, contextID \in ClientContexts \cup {q} :
          \/ Ask(q, "send", tenant, q, "create") /\ Prepare(q, q, contextID)
          \/ \E task \in ClientTasks :
                Ask(q, "send", tenant, task, "lookup") /\ Prepare(q, task, contextID)
    /\ UNCHANGED <<storeVars, copy, runPc, report, reports, overlaps>>

\* The look-up decides between resuming and creating; if it fails the task is
\* taken for a new one.  A resumed task starts with a fresh state, which names
\* neither task nor context.
GetExisting(q) ==
    /\ pc[q] = "lookup"
    /\ \/ /\ tasks[Key(q)] # NoTask /\ tasks[Key(q)].state = "input_required"
          /\ pc' = [pc EXCEPT ![q] = "read"]
          /\ req' = [req EXCEPT ![q].kind = "resume"]
          /\ Prepare(q, None, None)
       \/ /\ pc' = [pc EXCEPT ![q] = "create"]
          /\ UNCHANGED <<req, run>>
    /\ UNCHANGED <<storeVars, copy, runPc, report, reports, overlaps>>

\* tasks/pushNotificationConfig/create
handleCreatePushConfig(q) ==
    /\ \E tenant \in Tenants, task \in TaskIds : Ask(q, "push", tenant, task, "read")
    /\ UNCHANGED <<storeVars, copy, runVars, overlaps>>

\* A replay creates a task of its own, for the tenant the state names.  The
\* state keeps the task and context of the run it was saved by.
handleReplayFrom(q) ==
    /\ \E saved \in {r \in Requests : runPc[r] = "over"}, tenant \in Tenants :
          /\ Ask(q, "replay", tenant, q, "create")
          /\ Prepare(q, run[saved].task, run[saved].contextID)
    /\ UNCHANGED <<storeVars, copy, runPc, report, reports, overlaps>>

\* The gRPC server starts a run and answers with a task it does not store.
GRPCSendMessage(q) ==
    /\ \E tenant \in Tenants, task \in ClientTasks \cup {q},
          contextID \in ClientContexts \cup {None} :
          /\ Ask(q, "grpc", tenant, task, "ok")
          /\ Prepare(q, task, contextID)
    /\ runPc' = [runPc EXCEPT ![q] = "live"]
    /\ UNCHANGED <<storeVars, copy, report, reports, overlaps>>
-----------------------------------------------------------------------------
(***************************************************************************)
(* Create: a pipeline of three commands.  A record under the key is        *)
(* overwritten.                                                            *)
(***************************************************************************)
CreateRecord(q) ==
    /\ pc[q] = "create"
    /\ tasks' = [tasks EXCEPT ![Key(q)] =
                   [contextID |-> run[q].contextID,
                    state |-> IF req[q].kind = "replay" THEN "working" ELSE "submitted",
                    webhooks |-> <<>>, by |-> q]]
    /\ pc' = [pc EXCEPT ![q] = "context"]
    /\ UNCHANGED <<contextIndex, tenantIndex, req, copy, runVars, overlaps>>

\* Mutant: a task that exists is not listed again.
CreateContextOnce(q) ==
    /\ pc[q] = "context"
    /\ contextIndex' = IF run[q].contextID = None \/ Key(q) \in tenantIndex
                       THEN contextIndex
                       ELSE contextIndex \cup
                              {<<req[q].tenant, run[q].contextID, req[q].task>>}
    /\ pc' = [pc EXCEPT ![q] = "tenant"]
    /\ UNCHANGED <<tasks, tenantIndex, req, copy, runVars, overlaps>>

CreateContext(q) ==
    /\ pc[q] = "context"
    /\ contextIndex' = IF run[q].contextID = None THEN contextIndex
                       ELSE contextIndex \cup
                              {<<req[q].tenant, run[q].contextID, req[q].task>>}
    /\ pc' = [pc EXCEPT ![q] = "tenant"]
    /\ UNCHANGED <<tasks, tenantIndex, req, copy, runVars, overlaps>>

\* The answer to the last command may be lost.
CreateTenant(q) ==
    /\ pc[q] = "tenant"
    /\ tenantIndex' = tenantIndex \cup {Key(q)}
    /\ \E next \in {"start", "error"} : pc' = [pc EXCEPT ![q] = next]
    /\ UNCHANGED <<tasks, contextIndex, req, copy, runVars, overlaps>>
-----------------------------------------------------------------------------
(***************************************************************************)
(* UpdateStatus and AddWebhook: read, then a pipeline of two commands.     *)
(***************************************************************************)
\* Somebody has read the record under k and not written it yet.
Busy(k) ==
    \E q \in Requests :
        \/ pc[q] = "set" /\ Key(q) = k
        \/ runPc[q] = "set" /\ RunKey(q) = k

WithOverlap(k) == IF Busy(k) THEN overlaps \cup {k} ELSE overlaps

\* Mutant: the answer is forgotten when there is no such task.
NotFoundSilent(q) ==
    /\ pc[q] = "read"
    /\ req[q].kind # "push"
    /\ pc' = [pc EXCEPT ![q] = "start"]
    /\ UNCHANGED <<storeVars, req, copy, runVars, overlaps>>

\* There is no such task, or the read fails.  For AddWebhook that is an error; the
\* error of UpdateStatus is ignored.
NotFound(q) ==
    /\ pc[q] = "read"
    /\ pc' = [pc EXCEPT ![q] = IF req[q].kind = "push" THEN "error" ELSE "start"]
    /\ UNCHANGED <<storeVars, req, copy, runVars, overlaps>>

Read(q) ==
    /\ pc[q] = "read"
    /\ tasks[Key(q)] # NoTask
    /\ pc' = [pc EXCEPT ![q] = "set"]
    /\ copy' = [copy EXCEPT ![q] = tasks[Key(q)]]
    /\ overlaps' = WithOverlap(Key(q))
    /\ UNCHANGED <<storeVars, req, runVars>>

Changed(q) ==
    IF req[q].kind = "push"
    THEN [copy[q] EXCEPT !.webhooks = Append(@, q)]
    ELSE [copy[q] EXCEPT !.state = "working"]

Set(q) ==
    /\ pc[q] = "set"
    /\ tasks' = [tasks EXCEPT ![Key(q)] = Changed(q)]
    /\ pc' = [pc EXCEPT ![q] = "index"]
    /\ UNCHANGED <<contextIndex, tenantIndex, req, copy, runVars, overlaps>>

Index(q) ==
    /\ pc[q] = "index"
    /\ tenantIndex' = tenantIndex \cup {Key(q)}
    /\ \E next \in IF req[q].kind = "push" THEN {"ok", "error"} ELSE {"start"} :
          pc' = [pc EXCEPT ![q] = next]
    /\ UNCHANGED <<tasks, contextIndex, req, copy, runVars, overlaps>>

\* Mutant: the error of Create is ignored too.
BreakAndStart(q) ==
    /\ pc[q] \in {"create", "context", "tenant", "set", "index"}
    /\ pc' = [pc EXCEPT ![q] = IF req[q].kind = "push" THEN "error" ELSE "start"]
    /\ UNCHANGED <<storeVars, req, copy, runVars, overlaps>>

\* The connection to Redis breaks before a command.  A command runs at most
\* once here; go-redis by default sends a failed command again
\* (redis_driver.go:16-24 leaves MaxRetries alone), and a SET that runs a second
\* time may undo another writer's change without an overlap that is recorded.
Break(q) ==
    /\ pc[q] \in {"create", "context", "tenant", "set", "index"}
    /\ pc' = [pc EXCEPT ![q] = IF req[q].kind = "resume" THEN "start" ELSE "error"]
    /\ UNCHANGED <<storeVars, req, copy, runVars, overlaps>>

\* The run is started in the background and the request answered.
StartRun(q) ==
    /\ pc[q] = "start"
    /\ pc' = [pc EXCEPT ![q] = "ok"]
    /\ runPc' = [runPc EXCEPT ![q] = "live"]
    /\ UNCHANGED <<storeVars, req, copy, run, report, reports, overlaps>>
-----------------------------------------------------------------------------
(***************************************************************************)
(* The engine's runs report the status after each node: UpdateStatus.      *)
(***************************************************************************)
\* Mutant: the record is put together anew.
ReportedAnew(q, state) ==
    [tasks[RunKey(q)] EXCEPT !.state = state, !.webhooks = <<>>]

Reported(q, state) == [tasks[RunKey(q)] EXCEPT !.state = state]

Report(q) ==
    /\ runPc[q] = "live"
    /\ run[q].task # None
    /\ reports[q] < MaxReports
    /\ reports' = [reports EXCEPT ![q] = @ + 1]
    /\ tasks[RunKey(q)] # NoTask
    /\ runPc' = [runPc EXCEPT ![q] = "set"]
    /\ \E state \in TaskState \ {"submitted"} : report' = [report EXCEPT ![q] = Reported(q, state)]
    /\ overlaps' = WithOverlap(RunKey(q))
    /\ UNCHANGED <<storeVars, handlerVars, run>>

ReportSet(q) ==
    /\ runPc[q] = "set"
    /\ tasks' = [tasks EXCEPT ![RunKey(q)] = report[q]]
    /\ runPc' = [runPc EXCEPT ![q] = "index"]
    /\ UNCHANGED <<contextIndex, tenantIndex, handlerVars, run, report, reports, overlaps>>

ReportIndex(q) ==
    /\ runPc[q] = "index"
    /\ tenantIndex' = tenantIndex \cup {RunKey(q)}
    /\ runPc' = [runPc EXCEPT ![q] = "live"]
    /\ UNCHANGED <<tasks, contextIndex, handlerVars, run, report, reports, overlaps>>

\* The error is ignored, as is the one of a report that finds no task.
ReportBreaks(q) ==
    /\ runPc[q] \in {"set", "index"}
    /\ runPc' = [runPc EXCEPT ![q] = "live"]
    /\ UNCHANGED <<storeVars, handlerVars, run, report, reports, overlaps>>

RunReturns(q) ==
    /\ runPc[q] = "live"
    /\ runPc' = [runPc EXCEPT ![q] = "over"]
    /\ UNCHANGED <<storeVars, handlerVars, run, report, reports, overlaps>>
-----------------------------------------------------------------------------
Handle(q) ==
    \/ GetExisting(q)
    \/ CreateRecord(q) \/ CreateContext(q) \/ CreateTenant(q)
    \/ Read(q) \/ NotFound(q) \/ Set(q) \/ Index(q) \/ Break(q)
    \/ StartRun(q)

Engine(q) ==
    Report(q) \/ ReportSet(q) \/ ReportIndex(q) \/ ReportBreaks(q) \/ RunReturns(q)

Next ==
    \E q \in Requests :
       \/ handleSendMessage(q) \/ handleCreatePushConfig(q)
       \/ handleReplayFrom(q) \/ GRPCSendMessage(q)
       \/ Handle(q)
       \/ Engine(q)

Fairness == \A q \in Requests : WF_vars(Handle(q))

Spec == Init /\ [][Next]_vars /\ Fairness

Request == [kind : {"none", "send", "resume", "push", "replay", "grpc"},
            tenant : Tenants, task : TaskIds \cup {None}]

\* The shape of the state; the proofs use it.
TypeOK ==
    /\ tasks \in [Tenants \X TaskIds -> Task \cup {NoTask}]
    /\ contextIndex \subseteq Tenants \X ContextIds \X TaskIds
    /\ tenantIndex \subseteq Tenants \X TaskIds
    /\ req \in [Requests -> Request]
    /\ pc \in [Requests -> {"new", "lookup", "create", "context", "tenant", "read",
                            "set", "index", "start", "ok", "error"}]
    /\ copy \in [Requests -> Task \cup {NoTask}]
    /\ run \in [Requests -> [task : TaskIds \cup {None}, contextID : ContextIds]]
    /\ runPc \in [Requests -> {"none", "live", "set", "index", "over"}]
    /\ report \in [Requests -> Task \cup {NoTask}]
    /\ reports \in [Requests -> Nat]
    /\ overlaps \subseteq Tenants \X TaskIds
-----------------------------------------------------------------------------
(***************************************************************************)
(* Properties.                                                             *)
(***************************************************************************)
\* The request is in the middle of Create, or Create has failed.
Creating(q) == pc[q] \in {"context", "tenant", "error"}

\* A record that was created is listed under its tenant and under its context,
\* though records are created again with other contexts and old copies written
\* back: index entries are never taken away.
StoredIsListed ==
    \A k \in Tenants \X TaskIds :
        tasks[k] # NoTask =>
            \/ Creating(tasks[k].by)
            \/ /\ k \in tenantIndex
               /\ \/ tasks[k].contextID = None
                  \/ <<k[1], tasks[k].contextID, k[2]>> \in contextIndex

\* A run that message/send or a replay has started has a record to be found by,
\* whatever of the pipelines fails.
RunHasRecord ==
    \A q \in Requests :
        runPc[q] # "none" /\ req[q].kind \in {"send", "replay"} =>
            tasks[Key(q)] # NoTask

\* Every request is answered, whatever fails.
Answered ==
    \A q \in Requests : pc[q] # "new" ~> pc[q] \in {"ok", "error"}

\* The webhook of request q was acknowledged and its task not created again.
Acknowledged(q) ==
    /\ req[q].kind = "push"
    /\ pc[q] = "ok"
    /\ tasks[Key(q)].by = copy[q].by

HasWebhook(task, q) == \E i \in 1 .. Len(task.webhooks) : task.webhooks[i] = q

\* An acknowledged webhook gets lost only if another writer of the record read
\* it before the first one had written: a status report by itself, a resumed
\* task, another registration or a broken pipeline takes none away.
WebhookLostOnlyToOverlap ==
    \A q \in Requests :
        Acknowledged(q) => HasWebhook(tasks[Key(q)], q) \/ Key(q) \in overlaps
=============================================================================
